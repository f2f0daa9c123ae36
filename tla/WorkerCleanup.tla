--------------------------- MODULE WorkerCleanup ---------------------------
(***************************************************************************)
(* The processes of one physical attempt and who reaps them:               *)
(* spawnAgentProcess and cleanupEscaped of src/src/exec/spawn.ts, the      *)
(* recovery record of runAttempt, the procfs scan and the signalling of    *)
(* src/src/exec/procinfo.ts, and the recovery of src/src/exec/stop.ts.     *)
(*                                                                         *)
(* A worker starts as the leader of its own process group.  On Linux its   *)
(* descendants carry a token in their environment, so they are found when  *)
(* they have left the group; on Darwin only the group is looked at.  The   *)
(* runner sweeps with SIGTERM, then SIGKILL; if it dies first, `ultracode  *)
(* stop` sweeps from the record on disk.  A sweep is a series of passes,   *)
(* and a pass is not atomic: it lists the processes and then looks at one  *)
(* after the other, while they fork, leave the group and exit.             *)
(***************************************************************************)
EXTENDS Naturals, FiniteSets

CONSTANTS
  Procs,       \* bound: processes of the worker's tree
  Leader,      \* the direct child
  MaxPasses,   \* bound: passes that fit in graceMs
  SweepForks,  \* bound: forks of the tree while it is being swept
  MaxStops     \* bound: invocations of stop

ASSUME CleanupAssumption == Leader \in Procs /\ SweepForks \in Nat

VARIABLES
  platform,   \* process.platform
  tree,       \* each process: unborn, in the group, escaped from it, or dead
  reused,     \* an unrelated process group got the worker's numeric PGID
  forks,      \* forks while a sweep was under way
  runner,     \* where the runner is in this attempt
  record,     \* the worker record on disk
  retired,    \* groupTargetRetired
  latched,    \* authenticatedWorkers
  sweep,      \* the sweep under way: see NoSweep
  cleanups,   \* calls of cleanupEscaped the attempt has left, with the one under way
  stops,      \* invocations of stop so far
  status      \* manifest.status as far as cleanup decides it

treeVars == <<tree, reused, forks>>
cleanupVars == <<platform, tree, reused, forks, runner, record, retired, latched, sweep,
          cleanups, stops, status>>

ProcStates == {"unborn", "grouped", "escaped", "dead"}
RunnerStates == {"idle", "recorded", "spawned", "running", "exited", "settled", "unsettled", "gone"}

(* by: who sweeps; signal: what it sends; todo: listed, not yet looked at; *)
(* found: seen alive with the token; prior: latched before this pass;      *)
(* empty: empty passes in a row; pass: passes done; proof: the pass after  *)
(* the deadline was used; hit: identities stop has signalled.              *)
NoSweep == [by |-> "none", signal |-> "TERM", scanning |-> FALSE, todo |-> {}, found |-> {},
            prior |-> {}, empty |-> 0, pass |-> 0, proof |-> FALSE, hit |-> {}]

Live == {p \in Procs : tree[p] \in {"grouped", "escaped"}}
Group == {p \in Procs : tree[p] = "grouped"}

(* What the platform lets a sweep see: Darwin does not follow descendants  *)
(* that leave the group.                                                   *)
Reach == IF platform = "linux" THEN Live ELSE Group

(* signal 0 to -pid                                                        *)
GroupAbsent == Group = {} /\ ~reused

CleanupInit ==
  /\ platform \in {"linux", "darwin"}
  /\ tree = [p \in Procs |-> "unborn"]
  /\ reused = FALSE
  /\ forks = 0
  /\ runner = "idle"
  /\ record = "none"
  /\ retired = FALSE
  /\ latched = {}
  /\ sweep = NoSweep
  /\ cleanups = 0
  /\ stops = 0
  /\ status = "running"

-----------------------------------------------------------------------------
(* The worker's processes (external).                                      *)

Sweeping == sweep.by # "none"

(* fork: the child is in its parent's group and inherits the token         *)
Fork(p, q) ==
  /\ p \in Live
  /\ tree[q] = "unborn"
  /\ Sweeping => forks < SweepForks
  /\ tree' = [tree EXCEPT ![q] = tree[p]]
  /\ forks' = IF Sweeping THEN forks + 1 ELSE forks
  /\ UNCHANGED <<platform, reused, runner, record, retired, latched, sweep, cleanups, stops, status>>

(* setsid: codex and bwrap helpers leave the group                         *)
LeaveGroup(p) ==
  /\ p \in Group \ {Leader}
  /\ tree' = [tree EXCEPT ![p] = "escaped"]
  /\ UNCHANGED <<platform, reused, forks, runner, record, retired, latched, sweep, cleanups, stops, status>>

Exit(p) ==
  /\ p \in Live
  /\ tree' = [tree EXCEPT ![p] = "dead"]
  /\ UNCHANGED <<platform, reused, forks, runner, record, retired, latched, sweep, cleanups, stops, status>>

(* The kernel gives the number of an empty group to somebody else; not as  *)
(* long as the leader is a zombie, which it is until its exit is reported.  *)
ReusePgid ==
  /\ tree[Leader] = "dead"
  /\ runner \notin {"spawned", "running"}
  /\ Group = {}
  /\ ~reused
  /\ reused' = TRUE
  /\ UNCHANGED <<platform, tree, forks, runner, record, retired, latched, sweep, cleanups, stops, status>>

(* TERM may be handled or ignored by each process; KILL cannot.            *)
Survivors(signal, targets) == IF signal = "KILL" THEN {{}} ELSE SUBSET targets

Killed(targets, survivors) ==
  [p \in Procs |-> IF p \in targets \ survivors THEN "dead" ELSE tree[p]]

-----------------------------------------------------------------------------
(* The runner: runAttempt around spawnAgentProcess.                        *)

(* Mutant: the record is written once the worker's identity is known.      *)
RecordBeforeSpawnNone == "none"

(* onWorkerToken: a token-only record before the process can start.        *)
RecordBeforeSpawn == "token"

WriteToken ==
  /\ runner = "idle"
  /\ runner' = "recorded"
  /\ record' = RecordBeforeSpawn
  /\ UNCHANGED <<platform, treeVars, retired, latched, sweep, cleanups, stops, status>>

SpawnLeader ==
  /\ runner = "recorded"
  /\ runner' = "spawned"
  /\ tree' = [tree EXCEPT ![Leader] = "grouped"]
  /\ UNCHANGED <<platform, reused, forks, record, retired, latched, sweep, cleanups, stops, status>>

(* spawn() throws or the child reports 'error': nothing was started, and   *)
(* the record goes with the attempt.                                       *)
SpawnFails ==
  /\ runner = "recorded"
  /\ runner' = "settled"
  /\ record' = "none"
  /\ UNCHANGED <<platform, treeVars, retired, latched, sweep, cleanups, stops, status>>

(* `<pid> <starttime> <token>`; the start time is '-' when the leader was  *)
(* gone before it could be read.                                           *)
EnrichRecord ==
  /\ runner = "spawned"
  /\ runner' = "running"
  /\ record' = IF tree[Leader] = "grouped" THEN "full" ELSE "pid"
  /\ UNCHANGED <<platform, treeVars, retired, latched, sweep, cleanups, stops, status>>

(* The group gets the signal unless it was seen absent before.             *)
MaySignalGroup == ~retired /\ ~GroupAbsent

(* What one scan of the processes finds: those that fork, leave the group   *)
(* or exit beside it may be missed.                                        *)
Scans == IF platform = "linux" THEN SUBSET Live ELSE {{}}

(* killTree on timeout, stall or abort, until the exit is reported: TERM,  *)
(* later KILL, to the group first and then, on Linux, to what the scan     *)
(* found and what was latched.                                             *)
KillTree ==
  /\ runner = "running"
  /\ \E signal \in {"TERM", "KILL"}, seen \in Scans :
       LET known == (latched \cup seen) \cap Live
           targets == Group \cup known
       IN  /\ \E survivors \in Survivors(signal, targets) : tree' = Killed(targets, survivors)
           /\ latched' = known
  /\ UNCHANGED <<platform, reused, forks, runner, record, retired, sweep, cleanups, stops, status>>

Begin(by, signal) == [NoSweep EXCEPT !.by = by, !.signal = signal]

(* 'exit' of the direct child: cleanupEscaped begins.  It is called again   *)
(* in the finally clause, and before that for an attempt that exited well.  *)
ExitReported ==
  /\ runner = "running"
  /\ tree[Leader] = "dead"
  /\ runner' = "exited"
  /\ retired' = (retired \/ GroupAbsent)
  /\ sweep' = Begin("runner", "TERM")
  /\ cleanups' \in {2, 3}
  /\ UNCHANGED <<platform, treeVars, record, latched, stops, status>>

-----------------------------------------------------------------------------
(* A pass: discoverWorkerProcessesForTokens lists /proc, then looks at one *)
(* process after the other.                                                *)

ListProcesses ==
  /\ Sweeping
  /\ ~sweep.scanning
  /\ sweep' = [sweep EXCEPT !.scanning = TRUE,
                            !.todo = IF platform = "linux" THEN Live ELSE {},
                            !.found = {},
                            !.prior = latched]
  /\ UNCHANGED <<platform, treeVars, runner, record, retired, latched, cleanups, stops, status>>

Inspect(p) ==
  /\ sweep.scanning
  /\ p \in sweep.todo
  /\ sweep' = [sweep EXCEPT !.todo = @ \ {p},
                            !.found = IF p \in Live THEN @ \cup {p} ELSE @]
  /\ UNCHANGED <<platform, treeVars, runner, record, retired, latched, cleanups, stops, status>>

PassDone == sweep.scanning /\ sweep.todo = {}

(* Mutant: one empty pass is taken as proof.                               *)
PassesNeededOne == 1

(* Stable absence: a pass can miss a process forked after the listing.     *)
PassesNeeded == 2

(* Mutant: passes go on while a proof is still possible.                   *)
MoreWhileProvable(emptied, provable) == sweep.pass + 1 < MaxPasses \/ provable

(* A pass that is not the last: the next one, at most one beyond the       *)
(* deadline when it would complete the proof.                              *)
More(emptied, provable) ==
  \/ sweep.pass + 1 < MaxPasses
  \/ ~sweep.proof /\ provable /\ emptied = 1

NextPass(emptied) ==
  [sweep EXCEPT !.scanning = FALSE, !.todo = {}, !.found = {}, !.prior = {}, !.empty = emptied,
                !.pass = @ + 1,
                !.proof = @ \/ sweep.pass + 1 >= MaxPasses]

(* rmSync(processRecordFile) in the finally clause of runAttempt           *)
RecordAfter(proved) == IF proved THEN "none" ELSE record

(* The end of a pass of cleanupEscaped: latch what was found, signal the   *)
(* group, re-read the latched identities, signal those outside the group   *)
(* (with TERM only if they were known before this pass), and count.  An    *)
(* incomplete scan proves nothing.  When TERM and KILL have both come to    *)
(* nothing, cleanupEscaped is called again as often as the attempt does.    *)
RunnerPass ==
  /\ sweep.by = "runner"
  /\ PassDone
  /\ \E complete \in BOOLEAN :
       LET known == IF platform = "linux" THEN latched \cup sweep.found ELSE {}
           group == MaySignalGroup
           fresh == known \cap Live
           outside == IF group THEN fresh \ Group ELSE fresh
           single == IF sweep.signal = "KILL" THEN outside ELSE outside \cap sweep.prior
           targets == single \cup (IF group THEN Group ELSE {})
       IN  \E survivors \in Survivors(sweep.signal, targets) :
             /\ tree' = Killed(targets, survivors)
             /\ LET absent == (\A p \in Procs : tree'[p] # "grouped") /\ ~reused
                    emptied == IF \/ platform = "darwin" /\ absent
                                  \/ platform = "linux" /\ complete /\ sweep.found = {} /\ fresh = {}
                               THEN sweep.empty + 1 ELSE 0
                    proved == emptied >= PassesNeeded /\ (platform = "linux" => retired')
                IN  /\ retired' = (retired \/ absent)
                    /\ latched' = fresh
                    /\ \/ /\ proved
                          /\ runner' = "settled"
                          /\ record' = RecordAfter(TRUE)
                          /\ sweep' = NoSweep
                          /\ cleanups' = 0
                       \/ /\ ~proved
                          /\ More(emptied, platform = "linux" => retired')
                          /\ sweep' = NextPass(emptied)
                          /\ UNCHANGED <<runner, record, cleanups>>
                       \/ /\ ~proved
                          /\ ~More(emptied, platform = "linux" => retired')
                          /\ sweep.signal = "TERM"
                          /\ sweep' = Begin("runner", "KILL")
                          /\ UNCHANGED <<runner, record, cleanups>>
                       \/ /\ ~proved
                          /\ ~More(emptied, platform = "linux" => retired')
                          /\ sweep.signal = "KILL"
                          /\ cleanups > 1
                          /\ sweep' = Begin("runner", "TERM")
                          /\ cleanups' = cleanups - 1
                          /\ UNCHANGED <<runner, record>>
                       \/ /\ ~proved
                          /\ ~More(emptied, platform = "linux" => retired')
                          /\ sweep.signal = "KILL"
                          /\ cleanups = 1
                          /\ runner' = "unsettled"
                          /\ record' = RecordAfter(FALSE)
                          /\ sweep' = NoSweep
                          /\ cleanups' = 0
  /\ UNCHANGED <<platform, reused, forks, stops, status>>

(* The runner process dies: SIGKILL, or a fatal exit that first signals    *)
(* its active workers (killActiveWorkers) with what one scan finds.        *)
RunnerDies ==
  /\ runner # "gone"
  /\ \/ UNCHANGED tree
     \/ /\ runner \notin {"idle", "recorded", "settled"}
        /\ \E seen \in Scans : tree' = Killed(seen \cup (IF MaySignalGroup THEN Group ELSE {}), {})
  /\ runner' = "gone"
  /\ retired' = FALSE
  /\ latched' = {}
  /\ sweep' = NoSweep
  /\ cleanups' = 0
  /\ UNCHANGED <<platform, reused, forks, record, stops, status>>

-----------------------------------------------------------------------------
(* `ultracode stop` on a run whose runner is gone.                         *)

(* loadRecoveryRecords, signalRecordedWorkerGroups: an exact live leader   *)
(* that carries token and scope authorises its group.                      *)
StopBegins ==
  /\ runner = "gone"
  /\ ~Sweeping
  /\ stops < MaxStops
  /\ stops' = stops + 1
  /\ tree' = IF record = "full" /\ tree[Leader] = "grouped" THEN Killed(Group, {}) ELSE tree
  /\ IF record = "none"
       THEN sweep' = NoSweep /\ status' = "stopped"
       ELSE sweep' = Begin("stop", "KILL") /\ UNCHANGED status
  /\ UNCHANGED <<platform, reused, forks, runner, record, retired, latched, cleanups>>

(* persistCleanupOutcome                                                   *)
Persist(proved) == status' = IF proved THEN "stopped" ELSE "cleanup-failed"

(* Darwin can verify a group only if its id was recorded.                  *)
Verifiable == platform = "linux" \/ record # "token"

(* The end of a pass of signalWorkerProcessTokensUntilGone (Linux: every   *)
(* identity it has not signalled yet) or settleDarwinWorkerGroups (Darwin: *)
(* the group while its leader lives).                                      *)
StopPass ==
  /\ sweep.by = "stop"
  /\ PassDone
  /\ \E complete \in BOOLEAN :
       LET targets == IF platform = "linux" THEN (sweep.found \cap Live) \ sweep.hit
                         ELSE IF record = "full" /\ tree[Leader] = "grouped" THEN Group ELSE {}
           none == IF platform = "linux" THEN sweep.found = {} ELSE GroupAbsent
           emptied == IF complete /\ none THEN sweep.empty + 1 ELSE 0
           proved == emptied >= PassesNeeded /\ Verifiable
       IN  /\ tree' = Killed(targets, {})
           /\ \/ /\ proved
                 /\ Persist(TRUE)
                 /\ sweep' = NoSweep
              \/ /\ ~proved
                 /\ More(emptied, platform = "linux")
                 /\ sweep' = [NextPass(emptied) EXCEPT !.hit = sweep.hit \cup targets]
                 /\ UNCHANGED status
              \/ /\ ~proved
                 /\ ~More(emptied, platform = "linux")
                 /\ Persist(FALSE)
                 /\ sweep' = NoSweep
  /\ UNCHANGED <<platform, reused, forks, runner, record, retired, latched, cleanups, stops>>

-----------------------------------------------------------------------------
CleanupNext ==
  \/ \E p, q \in Procs : Fork(p, q)
  \/ \E p \in Procs : LeaveGroup(p) \/ Exit(p) \/ Inspect(p)
  \/ ReusePgid
  \/ WriteToken \/ SpawnLeader \/ SpawnFails \/ EnrichRecord \/ KillTree \/ ExitReported
  \/ ListProcesses \/ RunnerPass \/ RunnerDies
  \/ StopBegins \/ StopPass

(* A sweep that began goes on: its passes are synchronous and its waits    *)
(* are timers.                                                             *)
SweepProceeds ==
  WF_cleanupVars(ListProcesses \/ RunnerPass \/ StopPass \/ \E p \in Procs : Inspect(p))

CleanupSpec == CleanupInit /\ [][CleanupNext]_cleanupVars

-----------------------------------------------------------------------------
(* Types; a sweep takes MaxPasses passes and at most one beyond.           *)
CleanupTypeOK ==
  /\ platform \in {"linux", "darwin"}
  /\ tree \in [Procs -> ProcStates]
  /\ reused \in BOOLEAN
  /\ forks \in 0 .. SweepForks
  /\ runner \in RunnerStates
  /\ record \in {"none", "token", "pid", "full"}
  /\ retired \in BOOLEAN
  /\ latched \subseteq Procs
  /\ sweep \in [by : {"none", "runner", "stop"}, signal : {"TERM", "KILL"}, scanning : BOOLEAN,
                todo : SUBSET Procs, found : SUBSET Procs, prior : SUBSET Procs,
                empty : 0 .. 2, pass : 0 .. MaxPasses, proof : BOOLEAN, hit : SUBSET Procs]
  /\ cleanups \in 0 .. 3
  /\ stops \in 0 .. MaxStops
  /\ status \in {"running", "stopped", "cleanup-failed"}

(* Every worker process a sweep could still reach is covered by a record   *)
(* on disk, at every point where the runner can die: between the token and *)
(* the spawn, between the spawn and the identity, during the sweep.        *)
RecordCoversWorkers == Reach # {} => record # "none"

(* An attempt whose descendants count as gone, and a run that `stop`       *)
(* marks stopped (and so resumable), has no live worker in reach: no fork, *)
(* setsid or exit in the middle of the passes hides one.                   *)
SettledMeansGone == runner = "settled" \/ status = "stopped" => Reach = {}

(* On Linux every worker a dead runner left behind is killed, if stop is   *)
(* called as long as it may be and its sweeps run on.                      *)
OrphansReaped ==
  SweepProceeds /\ WF_cleanupVars(StopBegins) =>
    ((platform = "linux" /\ runner = "gone") ~> Live = {})

=============================================================================
