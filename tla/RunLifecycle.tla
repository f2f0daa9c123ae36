---------------------------- MODULE RunLifecycle ----------------------------
(***************************************************************************)
(* The life of one run in the run store: the detached runner process       *)
(* (src/src/cli/runner.ts and its wrapper in main.ts), the processes that  *)
(* stop it (src/src/exec/stop.ts), the one that reaps orphans              *)
(* (src/src/store/runstore.ts) and the workers that outlive whoever spawned *)
(* them.  They share nothing but manifest.json and signals.                *)
(*                                                                         *)
(* One manifest write is an atomic rename, but nothing orders the writers: *)
(* each of them writes a whole manifest, some from a copy read long ago.   *)
(* A cleanup scan loads the worker records once, when it begins, and ends  *)
(* later; a worker's record exists before the worker does, so a scan that  *)
(* begins now knows every worker that lives now.                           *)
(***************************************************************************)
EXTENDS Naturals

CONSTANTS
  Stoppers,  \* calls of stopRun: CLI stop and MCP workflow_stop
  Workers    \* worker processes the run may launch

VARIABLES
  disk,      \* manifest.json: status, and whether it names the runner's pid
  runner,    \* where the runner process is
  outcome,   \* the final status its wind-down computed
  signaled,  \* abort.signal.aborted
  pending,   \* a SIGTERM or SIGINT was sent and its handler has not run
  hard,      \* the hard-stop timer
  live,      \* workers alive
  launched,  \* workers spawned so far
  late,      \* those spawned while the runner's own cleanup was under way
  snap,      \* records the runner's cleanup loaded
  hardSnap,  \* records the hard stop's cleanup loaded
  pc,        \* where each stopper is
  seen,      \* the manifest a stopper acts on
  known,     \* records a stopper's cleanup loaded
  report,    \* what a stopper answered
  reaper,    \* where `list --reap` is
  reapSeen   \* the manifest it read

runnerVars  == <<runner, outcome, signaled, pending, hard, snap, hardSnap>>
workerVars  == <<live, launched, late>>
stopperVars == <<pc, seen, known, report>>
reaperVars  == <<reaper, reapSeen>>
vars == <<disk, runnerVars, workerVars, stopperVars, reaperVars>>

Statuses == {"created", "running", "completed", "failed", "stopped", "orphaned", "cleanup-failed"}
isTerminal(status) == status \in Statuses \ {"created", "running"}
isResumableStatus(status) == isTerminal(status) /\ status \notin {"cleanup-failed", "orphaned"}

Manifest(status, bound) == [status |-> status, bound |-> bound]

Alive == runner \notin {"absent", "dead"}
isRunnerAlive(m) == m.bound /\ Alive

(* liveStatus: `running` with a dead runner reads as orphaned.             *)
liveStatus(m) ==
  IF m.status = "running" /\ ~isRunnerAlive(m) THEN "orphaned" ELSE m.status

(* createRunDir has just returned.                                         *)
Init ==
  /\ disk = Manifest("created", FALSE)
  /\ runner = "absent"
  /\ outcome = "none"
  /\ signaled = FALSE
  /\ pending = FALSE
  /\ hard = "off"
  /\ live = {} /\ launched = {} /\ late = {}
  /\ snap = {} /\ hardSnap = {}
  /\ pc = [s \in Stoppers |-> "idle"]
  /\ seen = [s \in Stoppers |-> Manifest("created", FALSE)]
  /\ known = [s \in Stoppers |-> {}]
  /\ report = [s \in Stoppers |-> "none"]
  /\ reaper = "idle"
  /\ reapSeen = Manifest("created", FALSE)

(* What a scan of the workers in `records` leaves alive.  A settled scan   *)
(* saw none of them left; an unsettled one ran into its deadline.          *)
Scan(records, settled) ==
  /\ \E killed \in SUBSET (records \cap live) :
       /\ settled => killed = records \cap live
       /\ live' = live \ killed
  /\ UNCHANGED <<launched, late>>
-----------------------------------------------------------------------------
(* The runner.                                                             *)

(* launchRunner spawns the process; its caller may also die before that.   *)
Spawn ==
  /\ runner = "absent"
  /\ runner' = "spawned"
  /\ UNCHANGED <<disk, outcome, signaled, pending, hard, snap, hardSnap, workerVars, stopperVars, reaperVars>>

(* The first flush: `running` under the runner's own pid, whatever the     *)
(* manifest said before.                                                   *)
Bind ==
  /\ runner = "spawned"
  /\ disk' = Manifest("running", TRUE)
  /\ runner' = "unarmed"
  /\ UNCHANGED <<outcome, signaled, pending, hard, snap, hardSnap, workerVars, stopperVars, reaperVars>>

(* The resume gate or an unreadable run dir: runnerMain rejects before its *)
(* first flush and main.ts begins the fatal path.                          *)
RejectEarly ==
  /\ runner = "spawned"
  /\ runner' = "refused"
  /\ snap' = live
  /\ UNCHANGED <<disk, outcome, signaled, pending, hard, hardSnap, workerVars, stopperVars, reaperVars>>

(* Signal handlers are in place and the script runs.                       *)
Execute ==
  /\ runner = "unarmed"
  /\ runner' = "executing"
  /\ UNCHANGED <<disk, outcome, signaled, pending, hard, snap, hardSnap, workerVars, stopperVars, reaperVars>>

(* Heartbeat, or the flush that follows agent_completed: the in-memory     *)
(* manifest, which says `running` until the wind-down is over.             *)
flushManifest ==
  /\ runner \in {"executing", "cleaning", "failing"}
  /\ disk' = Manifest("running", TRUE)
  /\ UNCHANGED <<runnerVars, workerVars, stopperVars, reaperVars>>

(* The engine's own abort signal: executeWorkflow stops listening to the   *)
(* runner's when it returns, so a later stop request does not reach it.    *)
engineAborted == IF runner = "executing" THEN signaled ELSE outcome = "stopped"

(* An attempt of some agent spawns its worker, unless the run is stopped.  *)
(* Calls the script did not await still do so during the final cleanup.    *)
Launch(w) ==
  /\ runner \in {"executing", "cleaning", "failing"}
  /\ ~engineAborted
  /\ w \notin launched
  /\ launched' = launched \cup {w}
  /\ live' = live \cup {w}
  /\ late' = IF runner = "executing" THEN late ELSE late \cup {w}
  /\ UNCHANGED <<disk, runnerVars, stopperVars, reaperVars>>

(* A worker ends by itself, or is killed by its attempt.                   *)
WorkerEnds(w) ==
  /\ w \in live
  /\ live' = live \ {w}
  /\ UNCHANGED <<disk, runnerVars, launched, late, stopperVars, reaperVars>>

(* Mutant: relies on the abort signal alone.                               *)
armNothing == hard' = hard

(* armHardStop: one timer per run.  The wind-down clears it but leaves the *)
(* variable set, so it is never armed again.                               *)
armHardStop == hard' = IF hard = "off" THEN "armed" ELSE hard

(* The SIGTERM or SIGINT handler; before it is installed the default       *)
(* action ends the process.                                                *)
HandleSignal ==
  /\ pending
  /\ pending' = FALSE
  /\ \/ /\ runner \in {"executing", "cleaning", "failing"}
        /\ signaled' = TRUE
        /\ armHardStop
        /\ UNCHANGED runner
     \/ /\ runner \in {"spawned", "unarmed", "refused"}
        /\ runner' = "dead"
        /\ UNCHANGED <<signaled, hard>>
  /\ UNCHANGED <<disk, outcome, snap, hardSnap, workerVars, stopperVars, reaperVars>>

(* The wall-clock cap fires.                                               *)
WallClock ==
  /\ runner = "executing"
  /\ signaled' = TRUE
  /\ armHardStop
  /\ UNCHANGED <<disk, runner, outcome, pending, snap, hardSnap, workerVars, stopperVars, reaperVars>>

(* Mutant: the wind-down decides between completed and failed only later.  *)
UnwindUndecided ==
  /\ runner = "executing"
  /\ runner' = "cleaning"
  /\ hard' = IF hard = "armed" THEN "cleared" ELSE hard
  /\ outcome' = IF signaled THEN "stopped" ELSE "running"
  /\ snap' = live
  /\ UNCHANGED <<disk, signaled, pending, hardSnap, workerVars, stopperVars, reaperVars>>

(* executeWorkflow returned: timers off, output written, cleanup begins.   *)
Unwind ==
  /\ runner = "executing"
  /\ runner' = "cleaning"
  /\ hard' = IF hard = "armed" THEN "cleared" ELSE hard
  /\ outcome' \in IF signaled THEN {"stopped"} ELSE {"completed", "failed"}
  /\ snap' = live
  /\ UNCHANGED <<disk, signaled, pending, hardSnap, workerVars, stopperVars, reaperVars>>

(* Mutant: a cleanup that did not settle leaves the final status alone.    *)
FinalizeIgnoringCleanup(settled) ==
  /\ runner = "cleaning"
  /\ Scan(snap, settled)
  /\ disk' = Manifest(outcome, TRUE)
  /\ runner' = "dead"
  /\ UNCHANGED <<outcome, signaled, pending, hard, snap, hardSnap, stopperVars, reaperVars>>

(* The cleanup is over: the final manifest, then process.exit.             *)
Finalize(settled) ==
  /\ runner = "cleaning"
  /\ Scan(snap, settled)
  /\ disk' = Manifest(IF settled THEN outcome ELSE "cleanup-failed", TRUE)
  /\ runner' = "dead"
  /\ UNCHANGED <<outcome, signaled, pending, hard, snap, hardSnap, stopperVars, reaperVars>>

(* runnerMain rejects after its first flush: heartbeat, signal handlers    *)
(* and an armed hard stop stay on while main.ts cleans up.                 *)
Fail ==
  /\ runner = "executing"
  /\ runner' = "failing"
  /\ outcome' = IF signaled THEN "stopped" ELSE "failed"
  /\ snap' = live
  /\ UNCHANGED <<disk, signaled, pending, hard, hardSnap, workerVars, stopperVars, reaperVars>>

(* End of the fatal path: the manifest it finds, with a final status.      *)
FinalizeFatal(settled) ==
  /\ runner \in {"failing", "refused"}
  /\ Scan(snap, settled)
  /\ disk' = [disk EXCEPT !.status = IF settled THEN "failed" ELSE "cleanup-failed"]
  /\ runner' = "dead"
  /\ UNCHANGED <<outcome, signaled, pending, hard, snap, hardSnap, stopperVars, reaperVars>>

(* 15 s after the stop the runner has not unwound: a second cleanup        *)
(* begins, next to whatever the first one is doing.                        *)
HardStopFires ==
  /\ hard = "armed"
  /\ runner \in {"executing", "cleaning", "failing"}
  /\ hard' = "cleaning"
  /\ hardSnap' = live
  /\ UNCHANGED <<disk, runner, outcome, signaled, pending, snap, workerVars, stopperVars, reaperVars>>

(* Mutant: the hard stop writes its manifest and leaves the exit to the    *)
(* event loop.                                                             *)
HardStopWithoutExit(settled) ==
  /\ hard = "cleaning"
  /\ runner \in {"executing", "cleaning", "failing"}
  /\ Scan(hardSnap, settled)
  /\ disk' = Manifest(IF settled THEN "stopped" ELSE "cleanup-failed", TRUE)
  /\ hard' = "cleared"
  /\ UNCHANGED <<runner, outcome, signaled, pending, snap, hardSnap, stopperVars, reaperVars>>

HardStopEnds(settled) ==
  /\ hard = "cleaning"
  /\ runner \in {"executing", "cleaning", "failing"}
  /\ Scan(hardSnap, settled)
  /\ disk' = Manifest(IF settled THEN "stopped" ELSE "cleanup-failed", TRUE)
  /\ runner' = "dead"
  /\ UNCHANGED <<outcome, signaled, pending, hard, snap, hardSnap, stopperVars, reaperVars>>

(* SIGKILL, power, or an uncaught exception, whose monitor kills the       *)
(* workers this process knows.                                             *)
Crash ==
  /\ Alive
  /\ runner' = "dead"
  /\ live' \in {live, {}}
  /\ UNCHANGED <<disk, outcome, signaled, pending, hard, snap, hardSnap, launched, late, stopperVars, reaperVars>>
-----------------------------------------------------------------------------
(* stopRun.                                                                *)

Goto(s, where) == pc' = [pc EXCEPT ![s] = where]
BeginScan(s) == known' = [known EXCEPT ![s] = live]

(* getRun: the manifest is read first ...                                  *)
Look(s) ==
  /\ pc[s] = "idle"
  /\ seen' = [seen EXCEPT ![s] = disk]
  /\ Goto(s, "looked")
  /\ UNCHANGED <<disk, runnerVars, workerVars, known, report, reaperVars>>

(* ... then the pid is probed.  Over already: clean up what is left.       *)
FindOver(s) ==
  /\ pc[s] = "looked"
  /\ isTerminal(liveStatus(seen[s]))
  /\ Goto(s, "over")
  /\ BeginScan(s)
  /\ UNCHANGED <<disk, runnerVars, workerVars, seen, report, reaperVars>>

(* No runner behind the manifest: it never started, or died since the      *)
(* probe.                                                                  *)
FindDead(s) ==
  /\ pc[s] = "looked"
  /\ ~isTerminal(seen[s].status)
  /\ ~isRunnerAlive(seen[s])
  /\ Goto(s, "unowned")
  /\ BeginScan(s)
  /\ UNCHANGED <<disk, runnerVars, workerVars, seen, report, reaperVars>>

SendTerm(s) ==
  /\ pc[s] = "looked"
  /\ ~isTerminal(seen[s].status)
  /\ isRunnerAlive(seen[s])
  /\ pending' = TRUE
  /\ Goto(s, "polling")
  /\ UNCHANGED <<disk, runner, outcome, signaled, hard, snap, hardSnap, workerVars, seen, known, report, reaperVars>>

(* The poll finds a terminal manifest.                                     *)
PollFinal(s) ==
  /\ pc[s] = "polling"
  /\ isTerminal(disk.status)
  /\ seen' = [seen EXCEPT ![s] = disk]
  /\ Goto(s, "over")
  /\ BeginScan(s)
  /\ UNCHANGED <<disk, runnerVars, workerVars, report, reaperVars>>

(* Mutant: gives up after 7 s instead of killing.                          *)
SendNoKill(s) ==
  /\ pc[s] = "polling"
  /\ Goto(s, "forced")
  /\ BeginScan(s)
  /\ UNCHANGED <<disk, runnerVars, workerVars, seen, report, reaperVars>>

(* Mutant: no deadline while the runner is alive.                          *)
SendKillToDead(s) ==
  /\ pc[s] = "polling"
  /\ ~Alive
  /\ Goto(s, "forced")
  /\ BeginScan(s)
  /\ UNCHANGED <<disk, runnerVars, workerVars, seen, report, reaperVars>>

(* 7 s are over: SIGKILL, which leaves the workers to this process.        *)
SendKill(s) ==
  /\ pc[s] = "polling"
  /\ runner' = "dead"
  /\ Goto(s, "forced")
  /\ BeginScan(s)
  /\ UNCHANGED <<disk, outcome, signaled, pending, hard, snap, hardSnap, workerVars, seen, report, reaperVars>>

(* persistCleanupOutcome(m, settledStatus): m is written back whole.       *)
persistCleanupOutcome(s, m, settledStatus, settled) ==
  LET verdict == IF ~settled THEN "cleanup-failed"
                 ELSE IF m.status = "cleanup-failed" \/ settledStatus = "orphaned" THEN "stopped"
                 ELSE settledStatus
      writes == ~settled \/ m.status = "cleanup-failed" \/ settledStatus = "orphaned"
  IN  /\ disk' = IF writes THEN [m EXCEPT !.status = verdict] ELSE disk
      /\ report' = [report EXCEPT ![s] = verdict]

(* What reapOrphans makes of the manifest it finds.                        *)
Reaped(m) == [m EXCEPT !.status = liveStatus(m)]

(* The manifest read before the scan is the one written after it.          *)
EndOver(s, settled) ==
  /\ pc[s] = "over"
  /\ Scan(known[s], settled)
  /\ persistCleanupOutcome(s, seen[s],
       IF seen[s].status = "running" THEN "orphaned" ELSE seen[s].status, settled)
  /\ Goto(s, "done")
  /\ UNCHANGED <<runnerVars, seen, known, reaperVars>>

EndUnowned(s, settled) ==
  /\ pc[s] = "unowned"
  /\ Scan(known[s], settled)
  /\ persistCleanupOutcome(s, Reaped(disk), "orphaned", settled)
  /\ Goto(s, "done")
  /\ UNCHANGED <<runnerVars, seen, known, reaperVars>>

(* reapOrphans marks the killed run orphaned, and a settled scan leaves it *)
(* so, whatever is reported.                                               *)
EndForced(s, settled) ==
  /\ pc[s] = "forced"
  /\ Scan(known[s], settled)
  /\ \E d \in {Reaped(disk)} :
       /\ disk' = CASE ~settled -> [d EXCEPT !.status = "cleanup-failed"]
                    [] settled /\ d.status = "cleanup-failed" -> [d EXCEPT !.status = "stopped"]
                    [] OTHER -> d
       /\ report' = [report EXCEPT ![s] = IF settled THEN "stopped" ELSE "cleanup-failed"]
  /\ Goto(s, "done")
  /\ UNCHANGED <<runnerVars, seen, known, reaperVars>>

Stop(s) ==
  \/ Look(s) \/ FindOver(s) \/ FindDead(s) \/ SendTerm(s) \/ PollFinal(s) \/ SendKill(s)
  \/ \E settled \in BOOLEAN : EndOver(s, settled) \/ EndUnowned(s, settled) \/ EndForced(s, settled)
-----------------------------------------------------------------------------
(* list --reap, and resume: reapOrphans over a listing made beforehand.    *)

ReapLook ==
  /\ reaper = "idle"
  /\ reapSeen' = disk
  /\ reaper' = "looked"
  /\ UNCHANGED <<disk, runnerVars, workerVars, stopperVars>>

ReapJudge ==
  /\ reaper = "looked"
  /\ reaper' = IF liveStatus(reapSeen) = "orphaned" /\ reapSeen.status # "orphaned"
               THEN "writing" ELSE "idle"
  /\ UNCHANGED <<disk, runnerVars, workerVars, stopperVars, reapSeen>>

ReapWrite ==
  /\ reaper = "writing"
  /\ disk' = [reapSeen EXCEPT !.status = "orphaned"]
  /\ reaper' = "idle"
  /\ UNCHANGED <<runnerVars, workerVars, stopperVars, reapSeen>>

(* Turns of the runner's event loop, its timers included.                  *)
RunnerTurn ==
  \/ Bind \/ Execute \/ HandleSignal \/ HardStopFires
  \/ \E settled \in BOOLEAN : Finalize(settled) \/ FinalizeFatal(settled) \/ HardStopEnds(settled)

Next ==
  \/ RunnerTurn
  \/ Spawn \/ RejectEarly \/ flushManifest \/ WallClock \/ Unwind \/ Fail \/ Crash
  \/ \E w \in Workers : Launch(w) \/ WorkerEnds(w)
  \/ \E s \in Stoppers : Stop(s)
  \/ ReapLook \/ ReapJudge \/ ReapWrite

Spec == Init /\ [][Next]_vars

(* The runner's event loop turns: no guest code blocks it.  Nothing says   *)
(* that the script ever returns.                                           *)
Responsive ==
  /\ WF_vars(HandleSignal)
  /\ WF_vars(HardStopFires)
  /\ WF_vars(\E settled \in BOOLEAN : Finalize(settled))
  /\ WF_vars(\E settled \in BOOLEAN : FinalizeFatal(settled))
  /\ WF_vars(\E settled \in BOOLEAN : HardStopEnds(settled))

(* A stopper that began goes on: its poll has a deadline and its scan has  *)
(* one, whatever the runner does.                                          *)
Persistent == \A s \in Stoppers : WF_vars(pc[s] # "idle" /\ Stop(s))
-----------------------------------------------------------------------------
Manifests == [status : Statuses, bound : BOOLEAN]

TypeOK ==
  /\ disk \in Manifests
  /\ runner \in {"absent", "spawned", "refused", "unarmed", "executing", "cleaning", "failing", "dead"}
  /\ outcome \in {"none", "completed", "failed", "stopped"}
  /\ signaled \in BOOLEAN
  /\ pending \in BOOLEAN
  /\ hard \in {"off", "armed", "cleared", "cleaning"}
  /\ late \subseteq launched /\ live \subseteq launched /\ launched \subseteq Workers
  /\ snap \subseteq launched /\ hardSnap \subseteq launched
  /\ pc \in [Stoppers -> {"idle", "looked", "over", "unowned", "polling", "forced", "done"}]
  /\ seen \in [Stoppers -> Manifests]
  /\ known \in [Stoppers -> SUBSET launched]
  /\ report \in [Stoppers -> {"none"} \cup Statuses]
  /\ reaper \in {"idle", "looked", "writing"}
  /\ reapSeen \in Manifests

(* Somebody stopped the run while its manifest was still `created`.  That  *)
(* stop finds no pid to signal, and the runner never looks for it.         *)
StoppedEarly == \E s \in Stoppers : pc[s] # "idle" /\ seen[s].status = "created"

(* A run can be resumed only when no worker of it is left that was spawned *)
(* before a cleanup looked for it, in spite of concurrent stops, a crash,  *)
(* a hard stop next to the normal wind-down and stale manifest copies.     *)
ResumableIsQuiet == isResumableStatus(disk.status) /\ ~StoppedEarly => live \subseteq late

(* Nobody turns a finished run back into a running one: no heartbeat, no   *)
(* late flush and no stale copy follows the terminal manifest.             *)
NoRevival == [][isTerminal(disk.status) /\ ~isTerminal(disk'.status) => StoppedEarly]_disk

(* When a stop reports success the runner is gone for good, and so is      *)
(* every worker its scan could know.                                       *)
StopReportHonest ==
  \A s \in Stoppers :
    report[s] \notin {"none", "cleanup-failed"} /\ ~StoppedEarly =>
      runner = "dead" /\ known[s] \cap live = {}

(* An abort is final if the runner's event loop turns: however the script  *)
(* behaves, the hard stop ends the process, with nobody there to kill it.  *)
AbortEndsRunner == Responsive => (signaled ~> runner = "dead")

(* A stop that was asked for answers, even when the runner is wedged and   *)
(* never takes another step.                                               *)
StopAnswers == Persistent => \A s \in Stoppers : pc[s] = "looked" ~> report[s] # "none"

(* core-engine.md: only a run whose runner is gone can be resumed.         *)
ResumableIsDead == isResumableStatus(disk.status) => runner \notin {"unarmed", "executing"}

(* core-engine.md: reaping an orphan unblocks its resumption.              *)
ReapUnblocksResume == [][ReapWrite => isResumableStatus(disk'.status)]_vars

(* runstore.ts: reaping finalizes runs whose runner died without writing a *)
(* terminal manifest.                                                      *)
ReapsOnlyUnfinalized == [][isTerminal(disk.status) => disk'.status # "orphaned"]_disk
=============================================================================
