--------------------------- MODULE SwebenchSessions ---------------------------
(***************************************************************************)
(* The sessions of a SWE-bench Pro run                                      *)
(* (bench/src/suites/swebench-pro/runner.ts, executeSessions).  A pool of    *)
(* async workers takes the executions of the manifest in order; each runs    *)
(* one Docker container and cleans it up through a helper container that     *)
(* gives the files back to the host user.  Attestation of the model          *)
(* transport goes through one lock, and the first drift found stops the run. *)
(*                                                                          *)
(* Docker requests may fail before or after they took effect, and the        *)
(* command may die anywhere, leaving its containers to the next one.         *)
(***************************************************************************)
EXTENDS Naturals, Sequences

CONSTANTS
  NExec,        \* executions (task and arm) of the longest manifest
  Workers,      \* concurrency.tasks
  MaxCommands   \* bound: commands issued, by the length of the manifest

ASSUME SwebenchSessionsAssumption ==
  NExec \in Nat \ {0} /\ Workers # {} /\ MaxCommands \in [1..NExec -> Nat]

Exec == 1..NExec
Cleaner == {"fatal", "main"}

VARIABLES
  \* On disk.
  size,      \* executions of this run's manifest
  status,    \* "done": a terminal status; "pending": a task directory; "none": not even that
  attempt,   \* the last session attempt recorded for it
  home,      \* executions with a marked runtime directory
  gate,      \* executions whose runtime directory holds the published nonce
  open,      \* the run state has an invocation that has not ended
  verdict,   \* how the last invocation that ended did
  \* At the Docker daemon.
  box,       \* session container of each execution
  helper,    \* executions with a reclamation helper
  \* In the memory of the command.
  cmd,       \* stage of the command
  n,         \* commands so far
  next,      \* the shared cursor
  w,         \* each worker: stage, execution, error
  line,      \* transport attestation lock: holder first
  fatal,     \* the fatal controller has aborted
  refused,   \* ownershipFailure
  tracked,   \* activeContainers
  cleaning,  \* the cleanup shared by all who wait for it (cleanupPromise)
  registry,  \* ACTIVE_RECLAMATION_HELPERS
  cleaner,   \* the two callers of the cleanup of everything tracked
  crossed,   \* sessions under way when this command aborted
  driftFound    \* this command has found that the transport drifted

disk    == <<status, attempt, home, gate>>
inv     == <<open, verdict>>
docker  == <<box, helper>>
pool    == <<next, w, line, fatal, refused>>
tracing == <<tracked, cleaning, registry, cleaner>>
ghosts  == <<crossed, driftFound>>
vars    == <<size, disk, inv, docker, cmd, n, pool, tracing, ghosts>>

All(value) == [e \in Exec |-> value]
Idle == [at |-> "idle", e |-> 1, err |-> "none"]
Resting == [at |-> "off", waits |-> {}, bad |-> FALSE]

FreshMemory ==
  /\ next' = 1 /\ w' = [i \in Workers |-> Idle] /\ line' = <<>>
  /\ fatal' = FALSE /\ refused' = FALSE
  /\ tracked' = All("no") /\ cleaning' = All("idle") /\ registry' = {}
  /\ cleaner' = [c \in Cleaner |-> Resting]
  /\ crossed' = {} /\ driftFound' = FALSE

Init ==
  /\ size \in Exec
  /\ status = All("none") /\ attempt = All("none") /\ home = {} /\ gate = {}
  /\ open = FALSE /\ verdict = "none"
  /\ box = All("none") /\ helper = {}
  /\ cmd = "off" /\ n = 0
  /\ next = 1 /\ w = [i \in Workers |-> Idle] /\ line = <<>>
  /\ fatal = FALSE /\ refused = FALSE
  /\ tracked = All("no") /\ cleaning = All("idle") /\ registry = {}
  /\ cleaner = [c \in Cleaner |-> Resting]
  /\ crossed = {} /\ driftFound = FALSE

-----------------------------------------------------------------------------
(* Between commands: recovery and the sweep of run-owned containers. *)

StartCommand ==
  /\ cmd = "off" /\ n < MaxCommands[size]
  /\ n' = n + 1
  /\ cmd' = IF open THEN "recover" ELSE "begin"
  /\ UNCHANGED <<disk, inv, docker, pool, tracing, ghosts>>

Sweeping == cmd \in {"recover", "sweep"}

\* A reclamation helper is run again and removed; helpers come first.
SweepHelper(e) ==
  /\ Sweeping /\ e \in helper
  /\ helper' = helper \ {e}
  /\ UNCHANGED <<disk, inv, box, cmd, n, pool, tracing, ghosts>>

\* A session container is stopped, and its helper gives back the files.
SweepStop(e) ==
  /\ Sweeping /\ helper = {} /\ box[e] \in {"made", "up", "exited"}
  /\ box' = [box EXCEPT ![e] = "freed"]
  /\ helper' = {e}
  /\ UNCHANGED <<disk, inv, cmd, n, pool, tracing, ghosts>>

SweepRemove(e) ==
  /\ Sweeping /\ helper = {} /\ box[e] = "freed"
  /\ box' = [box EXCEPT ![e] = "none"]
  /\ home' = home \ {e} /\ gate' = gate \ {e}
  /\ UNCHANGED <<status, attempt, inv, helper, cmd, n, pool, tracing, ghosts>>

\* Every name is absent: the runtime directories that are left go too.
Swept ==
  /\ Sweeping /\ helper = {} /\ box = All("none")
  /\ home' = {} /\ gate' = {}
  /\ IF cmd = "recover"
     THEN cmd' = "begin" /\ open' = FALSE /\ verdict' = "interrupted"
     ELSE cmd' = "preflight" /\ UNCHANGED inv
  /\ UNCHANGED <<status, attempt, docker, n, pool, tracing, ghosts>>

SweepFails ==
  /\ Sweeping
  /\ IF cmd = "recover" THEN cmd' = "off" /\ UNCHANGED inv
     ELSE cmd' = "off" /\ open' = FALSE /\ verdict' = "unsafe"
  /\ UNCHANGED <<disk, docker, n, pool, tracing, ghosts>>

Begin ==
  /\ cmd = "begin"
  /\ cmd' = "sweep" /\ open' = TRUE
  /\ UNCHANGED <<disk, verdict, docker, n, pool, tracing, ghosts>>

Preflight ==
  /\ cmd = "preflight"
  /\ \/ cmd' = "work" /\ UNCHANGED inv
     \/ cmd' = "off" /\ open' = FALSE /\ verdict' = "failed"
  /\ UNCHANGED <<disk, docker, n, pool, tracing, ghosts>>

\* The command was `clean`: it sweeps and is done.
CleanEnds ==
  /\ cmd = "preflight"
  /\ cmd' = "off" /\ open' = FALSE /\ verdict' = "ok"
  /\ UNCHANGED <<disk, docker, n, pool, tracing, ghosts>>

-----------------------------------------------------------------------------
(* Workers *)

At(i, stage) == cmd = "work" /\ w[i].at = stage
Goes(i, stage) == w' = [w EXCEPT ![i].at = stage]
Errs(i, stage, err) == w' = [w EXCEPT ![i].at = stage, ![i].err = err]
Ends(i, stage) == w' = [w EXCEPT ![i] = [Idle EXCEPT !.at = stage]]
Throws(i) == w' = [w EXCEPT ![i].at = "threw", ![i].err = "none"]
Release == line' = Tail(line)
Holds(i) == line # <<>> /\ Head(line) = i

\* Promise reactions, in any order, run before the reply of any process is handled.
Due(i) ==
  \/ w[i].at \in {"idle", "reset", "caught", "back", "cleanup", "accept", "record", "catch"}
  \/ w[i].at \in {"line", "line2"} /\ Holds(i)

Quiet == \A i \in Workers : ~Due(i)

TakeNext(i) ==
  /\ At(i, "idle")
  /\ IF refused \/ fatal \/ next > size
     THEN Ends(i, "over") /\ UNCHANGED next
     ELSE /\ next' = next + 1
          /\ w' = [w EXCEPT ![i] =
               [Idle EXCEPT !.e = next, !.at = IF status[next] = "done" THEN "idle" ELSE "image"]]
  /\ UNCHANGED <<disk, inv, docker, cmd, n, line, fatal, refused, tracing, ghosts>>

\* reattestTaskImage, between two looks at the abort signal.
Image(i) ==
  /\ At(i, "image") /\ Quiet
  /\ IF fatal THEN Errs(i, "catch", "transport")
     ELSE Goes(i, "prior") \/ Errs(i, "catch", "other")
  /\ UNCHANGED <<disk, inv, docker, cmd, n, next, line, fatal, refused, tracing, ghosts>>

\* The name is listed: the sweep has left no container; an old task directory is reclaimed.
Prior(i) ==
  /\ At(i, "prior") /\ Quiet
  /\ LET e == w[i].e IN
       \/ status[e] = "none" /\ Goes(i, "reset") /\ UNCHANGED <<helper, registry>>
       \/ /\ status[e] # "none" /\ Goes(i, "priorHelp")
          /\ helper' = helper \cup {e} /\ registry' = registry \cup {e}
       \/ Errs(i, "catch", "unsafe") /\ UNCHANGED <<helper, registry>>
  /\ UNCHANGED <<disk, inv, box, cmd, n, next, line, fatal, refused, tracked, cleaning, cleaner,
                 ghosts>>

\* How one reclamation ends: proven absent, or not.
Reclaimed(e) == helper' = helper \ {e} /\ registry' = registry \ {e}
Unproven(e) == helper' \in {helper, helper \ {e}} /\ UNCHANGED registry
\* The fatal cleanup removed the helper under way; it is made again, no longer registered.
Again(e) == e \notin helper /\ helper' = helper \cup {e} /\ UNCHANGED registry

\* Mutant: the files are taken over although the helper may still be at work on them.
PriorHelpUnproven(i) ==
  /\ At(i, "priorHelp") /\ Quiet
  /\ LET e == w[i].e IN
       \/ Goes(i, "reset") /\ (Reclaimed(e) \/ Unproven(e))
       \/ Errs(i, "catch", "unsafe") /\ Reclaimed(e)
       \/ Again(e) /\ UNCHANGED w
  /\ UNCHANGED <<disk, inv, box, cmd, n, next, line, fatal, refused, tracked, cleaning, cleaner,
                 ghosts>>

PriorHelp(i) ==
  /\ At(i, "priorHelp") /\ Quiet
  /\ LET e == w[i].e IN
       \/ Goes(i, "reset") /\ Reclaimed(e)
       \/ Errs(i, "catch", "unsafe") /\ (Reclaimed(e) \/ Unproven(e))
       \/ Again(e) /\ UNCHANGED w
  /\ UNCHANGED <<disk, inv, box, cmd, n, next, line, fatal, refused, tracked, cleaning, cleaner,
                 ghosts>>

\* resetArtifactDirectory and a new runtime directory, then in line for the lock.
Reset(i) ==
  /\ At(i, "reset")
  /\ LET e == w[i].e
         emptied == [status EXCEPT ![e] = "pending"] IN
       \/ fatal /\ Errs(i, "catch", "transport") /\ UNCHANGED <<disk, line>>
       \/ /\ ~fatal /\ Goes(i, "line") /\ line' = Append(line, i)
          /\ status' = emptied
          /\ home' = home \cup {e} /\ gate' = gate \ {e}
          /\ UNCHANGED attempt
       \/ /\ ~fatal /\ Errs(i, "catch", "other")
          /\ status' \in {status, emptied}
          /\ UNCHANGED <<attempt, home, gate, line>>
  /\ UNCHANGED <<inv, docker, cmd, n, next, fatal, refused, tracing, ghosts>>

\* The lock is this worker's: no reply is waited for, so a drift may still be about to be raised.
EnterLaunch(i) ==
  /\ At(i, "line") /\ Holds(i)
  /\ IF fatal THEN Errs(i, "cleanup", "transport") /\ Release /\ UNCHANGED tracked
     ELSE Goes(i, "create") /\ tracked' = [tracked EXCEPT ![w[i].e] = "launching"] /\ UNCHANGED line
  /\ UNCHANGED <<disk, inv, docker, cmd, n, next, fatal, refused, cleaning, registry, cleaner,
                 ghosts>>

\* Mutant: an operation that fails under the lock keeps it.
FailsUnderLockHolding(i) == Errs(i, "cleanup", "other") /\ UNCHANGED line

FailsUnderLock(i) == Errs(i, "cleanup", "other") /\ Release

\* Mutant: the abort signal is not looked at again after the launch.
LaunchedRegardless(i) == Goes(i, "start") /\ UNCHANGED line

Launched(i) ==
  IF fatal THEN Errs(i, "cleanup", "transport") /\ Release
  ELSE Goes(i, "start") /\ UNCHANGED line

\* A typed error of the attestation, thrown under the lock and caught behind it.
Drifts(i) == Errs(i, "caught", "transport") /\ Release /\ driftFound' = TRUE

\* Docker may answer with what is no container id.
CreateReturns(i) ==
  /\ At(i, "create") /\ Quiet
  /\ LET e == w[i].e
         made == [box EXCEPT ![e] = "made"] IN
       /\ tracked' = [tracked EXCEPT ![e] = "launched"]
       /\ \/ box' = made /\ Launched(i) /\ UNCHANGED driftFound
          \/ box' \in {box, made} /\ FailsUnderLock(i) /\ UNCHANGED driftFound
          \/ box' \in {box, made} /\ Drifts(i)
  /\ UNCHANGED <<disk, inv, helper, cmd, n, next, fatal, refused, cleaning, registry, cleaner,
                 crossed>>

\* Attested while stopped, then started.  After an abort that was raised outside the lock
\* the container may be gone by now.
Start(i) ==
  /\ At(i, "start") /\ Quiet
  /\ LET e == w[i].e
         up == [box EXCEPT ![e] = "up"] IN
       \/ box[e] # "none" /\ box' = up /\ Goes(i, "attest") /\ UNCHANGED <<line, driftFound>>
       \/ /\ box' = box \/ (box[e] # "none" /\ box' = up)
          /\ (FailsUnderLock(i) /\ UNCHANGED driftFound) \/ Drifts(i)
  /\ UNCHANGED <<disk, inv, helper, cmd, n, next, fatal, refused, tracing, crossed>>

\* Attested while running, with the whole transport; then the gate opens, if there still is
\* a runtime directory to write it to.
Attest(i) ==
  /\ At(i, "attest") /\ Quiet
  /\ \/ /\ w[i].e \in home /\ gate' = gate \cup {w[i].e}
        /\ Goes(i, "wait") /\ Release /\ UNCHANGED driftFound
     \/ FailsUnderLock(i) /\ UNCHANGED <<gate, driftFound>>
     \/ Drifts(i) /\ UNCHANGED gate
  /\ UNCHANGED <<status, attempt, home, inv, docker, cmd, n, next, fatal, refused, tracing, crossed>>

BoxExits(e) ==
  /\ box[e] = "up"
  /\ box' = [box EXCEPT ![e] = "exited"]
  /\ UNCHANGED <<disk, inv, helper, cmd, n, pool, tracing, ghosts>>

\* docker wait raced against the driver's backstop and the fatal signal.
Wait(i) ==
  /\ At(i, "wait") /\ Quiet
  /\ \/ fatal /\ Errs(i, "cleanup", "transport") /\ UNCHANGED line
     \/ ~fatal /\ box[w[i].e] = "exited" /\ Goes(i, "line2") /\ line' = Append(line, i)
     \/ ~fatal /\ Goes(i, "back") /\ UNCHANGED line
     \/ Errs(i, "cleanup", "other") /\ UNCHANGED line
  /\ UNCHANGED <<disk, inv, docker, cmd, n, next, fatal, refused, tracing, ghosts>>

EnterCheck(i) ==
  /\ At(i, "line2") /\ Holds(i)
  /\ IF fatal THEN Errs(i, "cleanup", "transport") /\ Release
     ELSE Goes(i, "check") /\ UNCHANGED line
  /\ UNCHANGED <<disk, inv, docker, cmd, n, next, fatal, refused, tracing, ghosts>>

\* The transport is attested once more after a normal exit.
Check(i) ==
  /\ At(i, "check") /\ Quiet
  /\ \/ Goes(i, "cleanup") /\ Release /\ UNCHANGED driftFound
     \/ FailsUnderLock(i) /\ UNCHANGED driftFound
     \/ Drifts(i)
  /\ UNCHANGED <<disk, inv, docker, cmd, n, next, fatal, refused, tracing, crossed>>

\* Sessions between their gate and the end of their cleanup.
UnderWay == {w[i].e : i \in {j \in Workers :
               /\ w[j].at \in {"wait", "line2", "check", "back", "backing", "cleanup", "cleaning",
                               "caught"}
               /\ w[j].e \in gate}}

\* SwebenchProRunFatalController.abort: once.
Abort ==
  IF fatal THEN UNCHANGED <<fatal, cleaner, ghosts>>
  ELSE /\ fatal' = TRUE
       /\ cleaner' = [cleaner EXCEPT !["fatal"].at = "start"]
       /\ crossed' = UnderWay

Caught(i) ==
  /\ At(i, "caught") /\ Goes(i, "cleanup") /\ Abort
  /\ UNCHANGED <<disk, inv, docker, cmd, n, next, line, refused, tracked, cleaning, registry,
                 driftFound>>

-----------------------------------------------------------------------------
(* cleanupTrackedContainer: one cleanup of a container, shared by its callers *)

\* Mutant: a failure that is not about ownership is not one of the session.
AfterwardsOfTheUnsafe(wi, failure) ==
  LET err == IF failure = "unsafe" THEN failure ELSE wi.err IN
    [wi EXCEPT !.err = err,
               !.at = IF @ \in {"back", "backing"} THEN "cleanup"
                      ELSE IF err = "none" THEN "accept" ELSE "catch"]

\* What the caller does next; a failure of the cleanup replaces the error it had.
Afterwards(wi, failure) ==
  LET err == IF failure = "none" THEN wi.err ELSE failure IN
    [wi EXCEPT !.err = err,
               !.at = IF @ \in {"back", "backing"} THEN "cleanup"
                      ELSE IF err = "none" THEN "accept" ELSE "catch"]

BeginCleanup(i) ==
  /\ \E stage \in {"back", "cleanup"} : At(i, stage)
  /\ LET e == w[i].e IN
       IF tracked[e] = "no"
       THEN w' = [w EXCEPT ![i] = Afterwards(@, "none")] /\ UNCHANGED cleaning
       ELSE /\ Goes(i, IF w[i].at = "back" THEN "backing" ELSE "cleaning")
            /\ cleaning' = [cleaning EXCEPT ![e] = IF @ = "idle" THEN "await" ELSE @]
  /\ UNCHANGED <<disk, inv, docker, cmd, n, next, line, fatal, refused, tracked, registry, cleaner,
                 ghosts>>

Waiting(e) == {i \in Workers : w[i].at \in {"backing", "cleaning"} /\ w[i].e = e}

\* The shared promise settles: its callers go on, and a later caller starts anew.
Settles(e, failure) ==
  /\ cleaning' = [cleaning EXCEPT ![e] = "idle"]
  /\ w' = [i \in Workers |-> IF i \in Waiting(e) THEN Afterwards(w[i], failure) ELSE w[i]]
  /\ cleaner' = [c \in Cleaner |->
       IF cleaner[c].at = "boxes" /\ e \in cleaner[c].waits
       THEN [cleaner[c] EXCEPT !.waits = @ \ {e}, !.bad = @ \/ failure # "none"] ELSE cleaner[c]]

Steps(e, stage) == cleaning' = [cleaning EXCEPT ![e] = stage] /\ UNCHANGED <<w, cleaner>>

\* The launch has settled, or does not within the deadline.  A listing that fails and a
\* deadline that has passed are plain errors.
CleanAwait(e) ==
  /\ cleaning[e] = "await" /\ Quiet
  /\ \/ tracked[e] = "launched" /\ Steps(e, IF box[e] = "up" THEN "stop" ELSE "help")
     \/ \E failure \in {"unsafe", "other"} : Settles(e, failure)
  /\ UNCHANGED <<disk, inv, docker, cmd, n, next, line, fatal, refused, tracked, registry, ghosts>>

CleanStop(e) ==
  /\ cleaning[e] = "stop" /\ Quiet
  /\ \/ box' = [box EXCEPT ![e] = "exited"] /\ Steps(e, "help")
     \/ box' \in {box, [box EXCEPT ![e] = "exited"]} /\ Settles(e, "unsafe")
  /\ UNCHANGED <<disk, inv, helper, cmd, n, next, line, fatal, refused, tracked, registry, ghosts>>

\* A survivor is removed first; one still registered makes the registration throw.
CleanHelp(e) ==
  /\ cleaning[e] = "help" /\ Quiet
  /\ IF e \in registry
     THEN Settles(e, "unsafe") /\ helper' \in {helper, helper \ {e}} /\ UNCHANGED registry
     ELSE Steps(e, "helping") /\ helper' = helper \cup {e} /\ registry' = registry \cup {e}
  /\ UNCHANGED <<disk, inv, box, cmd, n, next, line, fatal, refused, tracked, ghosts>>

CleanHelping(e) ==
  /\ cleaning[e] = "helping" /\ Quiet
  /\ \/ Reclaimed(e) /\ Steps(e, "remove")
     \/ (Reclaimed(e) \/ Unproven(e)) /\ Settles(e, "unsafe")
     \/ Again(e) /\ UNCHANGED <<cleaning, w, cleaner>>
  /\ UNCHANGED <<disk, inv, box, cmd, n, next, line, fatal, refused, tracked, ghosts>>

CleanRemove(e) ==
  /\ cleaning[e] = "remove" /\ Quiet
  /\ \/ /\ box' = [box EXCEPT ![e] = "none"] /\ home' = home \ {e} /\ gate' = gate \ {e}
        /\ tracked' = [tracked EXCEPT ![e] = "no"]
        /\ Settles(e, "none")
     \/ /\ box' \in {box, [box EXCEPT ![e] = "none"]} /\ Settles(e, "unsafe")
        /\ UNCHANGED <<home, gate, tracked>>
  /\ UNCHANGED <<status, attempt, inv, helper, cmd, n, next, line, fatal, refused, registry, ghosts>>

-----------------------------------------------------------------------------
(* The result of a session *)

\* The artifacts are read and the status is written.
Accept(i) ==
  /\ At(i, "accept")
  /\ LET done == [status EXCEPT ![w[i].e] = "done"] IN
       \/ status' = done /\ Goes(i, "record")
       \/ status' \in {status, done} /\ Errs(i, "catch", "other")
  /\ UNCHANGED <<attempt, home, gate, inv, docker, cmd, n, next, line, fatal, refused, tracing,
                 ghosts>>

\* Mutant: a result is recorded whether or not the run has been aborted meanwhile.
RecordRegardless(i) ==
  /\ At(i, "record") /\ Goes(i, "recording")
  /\ UNCHANGED <<disk, inv, docker, cmd, n, next, line, fatal, refused, tracing, ghosts>>

Record(i) ==
  /\ At(i, "record")
  /\ IF fatal THEN Errs(i, "catch", "transport") ELSE Goes(i, "recording")
  /\ UNCHANGED <<disk, inv, docker, cmd, n, next, line, fatal, refused, tracing, ghosts>>

\* recordCompletedAttempt; a failure of it, or an abort meanwhile, ends the worker.
Recorded(i) ==
  /\ At(i, "recording") /\ Quiet
  /\ LET ok == [attempt EXCEPT ![w[i].e] = "ok"] IN
       \/ ~fatal /\ attempt' = ok /\ Ends(i, "idle")
       \/ attempt' \in {attempt, ok} /\ Throws(i)
  /\ UNCHANGED <<status, home, gate, inv, docker, cmd, n, next, line, fatal, refused, tracing,
                 ghosts>>

\* The status a failed session is left with: a write that fails is passed over, and may have
\* made the task directory.
Noting(e) == {status[e], "pending"}

\* An unsafe cleanup ends the worker; any other failure is noted.
Catch(i) ==
  /\ At(i, "catch")
  /\ IF w[i].err = "unsafe"
     THEN refused' = TRUE /\ Ends(i, "unsafe") /\ UNCHANGED status
     ELSE /\ Goes(i, "noting") /\ UNCHANGED refused
          /\ \E s \in Noting(w[i].e) : status' = [status EXCEPT ![w[i].e] = s]
  /\ UNCHANGED <<attempt, home, gate, inv, docker, cmd, n, next, line, fatal, tracing, ghosts>>

\* recordCompletedAttempt of the failure.  A typed error aborts the run, and so does one that
\* sessionFailure takes for an error of the transport by its message: it is raised only here,
\* with the lock long passed on.
Noted(i) ==
  /\ At(i, "noting") /\ Quiet
  /\ LET failed == [attempt EXCEPT ![w[i].e] = "failed"] IN
       \/ attempt' = failed /\ Ends(i, "over") /\ Abort
       \/ /\ w[i].err = "other" /\ attempt' = failed /\ Ends(i, "idle")
          /\ UNCHANGED <<fatal, cleaner, crossed>>
       \/ attempt' \in {attempt, failed} /\ Throws(i) /\ UNCHANGED <<fatal, cleaner, crossed>>
  /\ UNCHANGED <<status, home, gate, inv, docker, cmd, n, next, line, refused, tracked, cleaning,
                 registry, driftFound>>

-----------------------------------------------------------------------------
(* Cleanup of everything tracked: helpers, containers, helpers again *)

Live == {e \in Exec : tracked[e] # "no"}

CleanerStarts(c) ==
  /\ cleaner[c].at = "start" /\ Quiet
  /\ cleaner' = [cleaner EXCEPT ![c] = [at |-> "helpers", waits |-> registry, bad |-> FALSE]]
  /\ UNCHANGED <<disk, inv, docker, cmd, n, pool, tracked, cleaning, registry, ghosts>>

CleanerHelper(c, e) ==
  /\ cleaner[c].at \in {"helpers", "again"} /\ e \in cleaner[c].waits /\ Quiet
  /\ \/ /\ helper' = helper \ {e} /\ registry' = registry \ {e}
        /\ cleaner' = [cleaner EXCEPT ![c].waits = @ \ {e}]
     \/ /\ helper' \in {helper, helper \ {e}} /\ UNCHANGED registry
        /\ cleaner' = [cleaner EXCEPT ![c].waits = @ \ {e}, ![c].bad = TRUE]
  /\ UNCHANGED <<disk, inv, box, cmd, n, pool, tracked, cleaning, ghosts>>

CleanerGoesOn(c) ==
  /\ cleaner[c].waits = {} /\ Quiet
  /\ \/ /\ cleaner[c].at = "helpers" /\ ~cleaner[c].bad
        /\ cleaner' = [cleaner EXCEPT ![c].at = "boxes", ![c].waits = Live]
        /\ cleaning' = [e \in Exec |->
             IF e \in Live /\ cleaning[e] = "idle" THEN "await" ELSE cleaning[e]]
     \/ /\ cleaner[c].at = "boxes" \/ (cleaner[c].at = "helpers" /\ cleaner[c].bad)
        /\ cleaner' = [cleaner EXCEPT ![c].at = "again", ![c].waits = registry]
        /\ UNCHANGED cleaning
     \/ /\ cleaner[c].at = "again"
        /\ cleaner' = [cleaner EXCEPT ![c].at = "settled"]
        /\ UNCHANGED cleaning
  /\ UNCHANGED <<disk, inv, docker, cmd, n, pool, tracked, registry, ghosts>>

-----------------------------------------------------------------------------
(* The end of the command *)

Settled(i) == w[i].at \in {"over", "unsafe", "threw"}

WorkersSettle ==
  /\ cmd = "work" /\ \A i \in Workers : Settled(i)
  /\ IF \E i \in Workers : w[i].at = "unsafe"
     THEN cmd' = "retry" /\ cleaner' = [cleaner EXCEPT !["main"].at = "start"]
     ELSE cmd' = "settle" /\ UNCHANGED cleaner
  /\ UNCHANGED <<disk, inv, docker, n, pool, tracked, cleaning, registry, ghosts>>

Retried ==
  /\ cmd = "retry" /\ cleaner["main"].at = "settled"
  /\ cmd' = "settle"
  /\ UNCHANGED <<disk, inv, docker, n, pool, tracing, ghosts>>

Outcome ==
  IF (\E i \in Workers : w[i].at = "unsafe") \/ cleaner["fatal"].bad THEN "unsafe"
  ELSE IF fatal \/ \E i \in Workers : w[i].at = "threw" THEN "failed"
  ELSE "ok"

\* settleCleanup has been awaited: the invocation ends, then a failure cleans up once more.
Finish ==
  /\ cmd = "settle" /\ cleaner["fatal"].at \in {"off", "settled"}
  /\ open' = FALSE /\ verdict' = Outcome
  /\ cmd' = IF Outcome = "ok" THEN "exit" ELSE "runtime"
  /\ cleaner' = [c \in Cleaner |->
       IF c = "main" /\ Outcome # "ok" THEN [Resting EXCEPT !.at = "start"] ELSE Resting]
  /\ UNCHANGED <<disk, docker, n, pool, tracked, cleaning, registry, ghosts>>

Exit ==
  /\ cmd = "exit" \/ (cmd = "runtime" /\ cleaner["main"].at = "settled")
  /\ cmd' = "off"
  /\ FreshMemory
  /\ UNCHANGED <<disk, inv, docker, n>>

\* The command dies; a container it had asked for may still come to be.
Crash ==
  /\ cmd # "off"
  /\ cmd' = "off"
  /\ \E made \in SUBSET {w[i].e : i \in {j \in Workers : w[j].at = "create"}} :
       box' = [e \in Exec |-> IF e \in made THEN "made" ELSE box[e]]
  /\ FreshMemory
  /\ UNCHANGED <<disk, inv, helper, n>>

WorkerStep(i) ==
  \/ TakeNext(i) \/ Image(i) \/ Prior(i) \/ PriorHelp(i) \/ Reset(i)
  \/ EnterLaunch(i) \/ CreateReturns(i) \/ Start(i) \/ Attest(i) \/ Wait(i)
  \/ EnterCheck(i) \/ Check(i) \/ Caught(i) \/ BeginCleanup(i)
  \/ Accept(i) \/ Record(i) \/ Recorded(i) \/ Catch(i) \/ Noted(i)

CleanupStep(e) ==
  CleanAwait(e) \/ CleanStop(e) \/ CleanHelp(e) \/ CleanHelping(e) \/ CleanRemove(e)

SweepStep(e) == SweepHelper(e) \/ SweepStop(e) \/ SweepRemove(e)

Progress ==
  \/ \E i \in Workers : WorkerStep(i)
  \/ \E e \in Exec : CleanupStep(e) \/ SweepStep(e)
  \/ \E c \in Cleaner : CleanerStarts(c) \/ CleanerGoesOn(c) \/ \E e \in Exec : CleanerHelper(c, e)
  \/ Swept \/ SweepFails \/ Begin \/ Preflight \/ CleanEnds
  \/ WorkersSettle \/ Retried \/ Finish \/ Exit

Next ==
  /\ StartCommand \/ Progress \/ Crash \/ \E e \in Exec : BoxExits(e)
  /\ UNCHANGED size

Spec == Init /\ [][Next]_vars
-----------------------------------------------------------------------------
(* Once the attestation has failed in one session, no other session of the    *)
(* command gets to open its gate: the lock is passed on before the error      *)
(* reaches the fatal controller, and the next holder is already launching      *)
(* (withTransportAttestationLock, runSession).                                *)
NoGateAfterDrift == [][gate' \ gate # {} => ~driftFound]_vars

(* The claim of swebench-pro.md:128 that the fatal signal immediately stops    *)
(* new launches: no gate opens after an abort.                                *)
NoGateAfterAbort == [][gate' \ gate # {} => ~fatal]_vars

(* A session that was under way when the run aborted is not recorded as one    *)
(* that succeeded, and the command leaves it with no terminal status, unless   *)
(* the status could not be written: then the state says that it failed, or     *)
(* the worker died of that (executeSessions).                                 *)
OverlapRejected ==
  \A e \in crossed :
    /\ attempt[e] # "ok"
    /\ cmd \in {"exit", "runtime"} /\ status[e] = "done" =>
         attempt[e] = "failed" \/ \E i \in Workers : w[i].e = e /\ w[i].at = "threw"

(* A task with a terminal status, which no later command looks at again, has   *)
(* neither a container nor a root helper on its artifacts, whichever of the    *)
(* callers of its cleanup failed (cleanupTrackedContainer).                    *)
TerminalIsAlone == \A e \in Exec : status[e] = "done" => box[e] = "none" /\ e \notin helper

(* Artifacts are reset for a new session only when no container and no root  *)
(* helper that mounts them is left, whatever an earlier command did.          *)
ResetAlone == [][\A e \in home' \ home : box[e] = "none" /\ e \notin helper]_vars

(* A command that has not ended always has a next step: nobody waits for      *)
(* ever on the lock, on a shared cleanup or on the fatal controller.          *)
NobodyStuck == cmd # "off" => ENABLED Progress
=============================================================================
