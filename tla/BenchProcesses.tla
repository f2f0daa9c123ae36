---------------------------- MODULE BenchProcesses ----------------------------
(***************************************************************************)
(* The native commands the benchmark harness runs, and who retires them:    *)
(* runBenchProcess and cleanupActiveBenchProcesses of                       *)
(* bench/src/shared/process.ts, the signal coordinator and the final catch  *)
(* of bench/src/cli.ts, the lifecycle hooks and the Linux recovery of       *)
(* bench/src/shared/run-state.ts.                                           *)
(*                                                                          *)
(* Three parties retire the same processes in one driver: the call that     *)
(* started them, the cleanup after a failed command, and the cleanup after  *)
(* a signal.  When the driver is gone without having done so, `--resume`    *)
(* retires them from the durable record.                                    *)
(*                                                                          *)
(* cleanupEscaped is one step here: when it answers 0 everything that bears *)
(* the token is gone (WorkerCleanup shows how).                             *)
(***************************************************************************)
EXTENDS Naturals, FiniteSets

CONSTANTS
  Jobs,       \* calls of runBenchProcess with the hooks of a run
  Forking,    \* bound: the calls whose command starts further processes
  MaxHops,    \* bound: a descendant forks and exits under a scan that misses it
  MaxPasses,  \* bound: observations that fit in the grace of a recovery phase
  MaxResumes  \* bound: resumes that recover the processes

ASSUME ProcessesAssumption == Forking \subseteq Jobs /\ MaxHops \in Nat

VARIABLES
  job,       \* each call: where it is, whether it is late, how it ended
  leader,    \* the direct child
  rest,      \* the other processes that bear the token
  record,    \* the recovery field of the call's entry in state.lifecycleProcesses
  known,     \* the entries enriched with the pid of the direct child
  registry,  \* ACTIVE_BENCH_PROCESSES
  flight,    \* the pending cleanupActiveBenchProcesses: the entries still to be handled
  suite,     \* a suite cleanup is pending
  command,   \* what runBenchExecutable waits for
  signal,    \* the signal coordinator
  host,      \* the driver process
  heal       \* recoverPendingLifecycleProcesses of the resume

world == <<leader, rest>>
durable == <<record, known>>
driver == <<flight, suite, command, signal, host>>
processesVars == <<job, leader, rest, record, known, registry, flight, suite, command, signal, host, heal>>

NoJob == [at |-> "idle", late |-> FALSE, end |-> "none"]
Failed == [at |-> "done", late |-> FALSE, end |-> "failed"]
Landed == [on |-> FALSE, todo |-> {}]
NoHeal == [phase |-> "none", tries |-> 0, passes |-> 0, hops |-> 0, entries |-> {},
           empty |-> [j \in Jobs |-> 0], seen |-> {}]

ProcessesInit ==
  /\ job = [j \in Jobs |-> NoJob]
  /\ leader = [j \in Jobs |-> "none"] /\ rest = [j \in Jobs |-> "none"]
  /\ record = [j \in Jobs |-> "none"] /\ known = {} /\ registry = {}
  /\ flight = Landed /\ suite = FALSE
  /\ command = "working" /\ signal = [at |-> "off", adopted |-> FALSE]
  /\ host = "up"
  /\ heal = NoHeal

Alive(j) == leader[j] = "up" \/ rest[j] \in {"group", "escaped"}
Busy(j) == job[j].at \notin {"idle", "done"}

-----------------------------------------------------------------------------
(* The command's processes (external); TERM only makes them exit sooner.    *)

Fork(j) ==
  /\ j \in Forking /\ leader[j] = "up" /\ rest[j] = "none"
  /\ \E where \in {"group", "escaped"} : rest' = [rest EXCEPT ![j] = where]
  /\ UNCHANGED <<job, leader, durable, registry, driver, heal>>

LeaderExits(j) ==
  /\ leader[j] = "up"
  /\ \E code \in {"zero", "nonzero"} : leader' = [leader EXCEPT ![j] = code]
  /\ UNCHANGED <<job, rest, durable, registry, driver, heal>>

RestExits(j) ==
  /\ rest[j] \in {"group", "escaped"} /\ rest' = [rest EXCEPT ![j] = "gone"]
  /\ UNCHANGED <<job, leader, durable, registry, driver, heal>>

Fallen(j) == [leader EXCEPT ![j] = IF @ = "up" THEN "nonzero" ELSE @]

\* killTree: the group, and the others its scan finds; neither when the group cannot be
\* looked at.  cleanupEscaped does the same for a while and answers 0 when all is gone.
KillTree(j) ==
  \/ /\ leader' = Fallen(j)
     /\ \/ rest' = [rest EXCEPT ![j] = IF @ = "none" THEN @ ELSE "gone"]
        \/ rest' = [rest EXCEPT ![j] = IF @ = "group" THEN "gone" ELSE @]
  \/ UNCHANGED world
CleanupEscaped(j) == KillTree(j)

-----------------------------------------------------------------------------
(* runBenchProcess *)

At(j, from) == host = "up" /\ job[j].at = from

\* What only the driver knew is lost.
Forget ==
  /\ job' = [j \in Jobs |-> NoJob] /\ registry' = {} /\ flight' = Landed /\ suite' = FALSE
  /\ command' = "over" /\ signal' = [at |-> "off", adopted |-> FALSE]

\* The driver dies after the token is durable: before the spawn, or before the pid is.
DiesLaunching(j) ==
  /\ record' = [record EXCEPT ![j] = "pending"]
  /\ leader' = [leader EXCEPT ![j] = "up"] \/ UNCHANGED leader

Launch(j) ==
  /\ At(j, "idle") /\ command # "over"
  /\ \/ /\ DiesLaunching(j) /\ host' = "gone" /\ Forget
        /\ UNCHANGED known
     \/ /\ job' = [job EXCEPT ![j] = Failed]                 \* onLifecycleToken throws
        /\ UNCHANGED <<leader, durable, registry, flight, suite, command, signal, host>>
     \/ /\ record' = [record EXCEPT ![j] = "pending"] /\ registry' = registry \cup {j}
        /\ \/ /\ job' = [job EXCEPT ![j].at = "running"]
              /\ leader' = [leader EXCEPT ![j] = "up"] /\ known' = known \cup {j}
           \/ /\ job' = [job EXCEPT ![j].at = "unrecorded"]   \* onLifecycleStarted throws
              /\ leader' = [leader EXCEPT ![j] = "up"] /\ UNCHANGED known
           \/ /\ job' = [job EXCEPT ![j].at = "retiring"]   \* no such file
              /\ UNCHANGED <<leader, known>>
        /\ UNCHANGED <<flight, suite, command, signal, host>>
  /\ UNCHANGED <<rest, heal>>

Timeout(j) ==
  /\ At(j, "running") /\ ~job[j].late
  /\ job' = [job EXCEPT ![j].late = TRUE]
  /\ UNCHANGED <<world, durable, registry, driver, heal>>

Escalate(j) ==
  /\ At(j, "running") /\ job[j].late /\ KillTree(j)
  /\ UNCHANGED <<job, durable, registry, driver, heal>>

\* Mutant: a command that exits 0 on the timeout's SIGTERM has succeeded.
OutcomeByCode(j, drained) == IF drained /\ leader[j] = "zero" THEN "ok" ELSE "failed"

\* Output that does not drain, a timeout, a signal and an exit code are each an error.
Outcome(j, drained) ==
  IF drained /\ leader[j] = "zero" /\ ~job[j].late THEN "ok" ELSE "failed"

ExitSeen(j) ==
  /\ At(j, "running") /\ leader[j] # "up"
  /\ \E drained \in BOOLEAN :
       job' = [job EXCEPT ![j].at = "sweeping", ![j].end = Outcome(j, drained)]
  /\ UNCHANGED <<world, durable, registry, driver, heal>>

\* Mutant: the number of processes that remain is not looked at.
RetiredAnyway(j) ==
  /\ record' = [record EXCEPT ![j] = "complete"] /\ registry' = registry \ {j}

\* retireCompleteCleanup
Retired(j) ==
  /\ ~Alive(j)'
  /\ record' = [record EXCEPT ![j] = "complete"] /\ registry' = registry \ {j}

NotRetired == UNCHANGED <<record, registry>>

\* When the record cannot be written the call fails, and the entry stays registered.
Sweep(j) ==
  /\ At(j, "sweeping") /\ CleanupEscaped(j)
  /\ \/ Retired(j)
        /\ job' = [job EXCEPT ![j] = IF @.end = "ok" THEN [@ EXCEPT !.at = "done"] ELSE Failed]
     \/ NotRetired /\ ~Alive(j)' /\ job' = [job EXCEPT ![j] = Failed]
     \/ NotRetired /\ job' = [job EXCEPT ![j] = [Failed EXCEPT !.at = "retiring"]]
  /\ UNCHANGED <<known, driver, heal>>

\* The finally block, and the catch of onLifecycleStarted: one more attempt.
Retire(j) ==
  /\ At(j, "retiring") \/ At(j, "unrecorded")
  /\ CleanupEscaped(j)
  /\ Retired(j) \/ NotRetired
  /\ job' = [job EXCEPT ![j] = Failed]
  /\ UNCHANGED <<known, driver, heal>>

-----------------------------------------------------------------------------
(* cleanupActiveBenchProcesses, single-flight: a snapshot of the registry *)

Flown == IF flight.on THEN flight ELSE [on |-> TRUE, todo |-> registry]

CleanOne(j) ==
  /\ host = "up" /\ flight.on /\ j \in flight.todo
  /\ flight' = [flight EXCEPT !.todo = @ \ {j}]
  /\ CleanupEscaped(j)
  /\ Retired(j) \/ NotRetired
  /\ UNCHANGED <<job, known, suite, command, signal, host, heal>>

\* The four steps of the signal cleanup: p1 the processes, s1 the suite, p2 and s2 again.

\* Mutant: a suite cleanup that was pending when the signal came is still waited for.
StillAwaited == TRUE
SuiteAwaited == suite \/ ~signal.adopted

\* Whoever waits goes on, whatever the outcome.  For s1 a suite cleanup that was pending
\* when the signal came is adopted, though it has ended since.
FlightEnds ==
  /\ host = "up" /\ flight.on /\ flight.todo = {}
  /\ command' = IF command = "closing" THEN "over" ELSE command
  /\ CASE signal.at = "p1" ->
            /\ signal' = [signal EXCEPT !.at = IF SuiteAwaited THEN "s1" ELSE "p2"]
            /\ suite' = (suite \/ ~signal.adopted)
            /\ flight' = IF SuiteAwaited THEN Landed ELSE [on |-> TRUE, todo |-> registry]
       [] signal.at = "p2" ->
            signal' = [signal EXCEPT !.at = "s2"] /\ suite' = TRUE /\ flight' = Landed
       [] OTHER -> flight' = Landed /\ UNCHANGED <<signal, suite>>
  /\ UNCHANGED <<job, world, durable, registry, host, heal>>

SuiteCleanupEnds ==
  /\ host = "up" /\ suite /\ suite' = FALSE
  /\ signal' = [signal EXCEPT !.at = CASE @ = "s1" -> "p2" [] @ = "s2" -> "done" [] OTHER -> @]
  /\ command' = IF command # "failing" THEN command
                ELSE IF signal.at = "off" THEN "closing" ELSE "waiting"
  /\ flight' = IF signal.at = "s1" \/ (command = "failing" /\ signal.at = "off")
                 THEN Flown ELSE flight
  /\ UNCHANGED <<job, world, durable, registry, host, heal>>

-----------------------------------------------------------------------------
(* dispatchBenchCliRoute and runBenchExecutable *)

CommandFails ==
  /\ host = "up" /\ command = "working"
  /\ IF signal.at = "off"
       THEN command' = "failing" /\ suite' = TRUE
       ELSE command' = "waiting" /\ UNCHANGED suite
  /\ UNCHANGED <<job, world, durable, registry, flight, signal, host, heal>>

CommandEnds ==
  /\ host = "up" /\ command = "working" /\ \A j \in Jobs : ~Busy(j)
  /\ command' = "over"
  /\ UNCHANGED <<job, world, durable, registry, flight, suite, signal, host, heal>>

Gone ==
  /\ host = "up" /\ host' = "gone" /\ Forget
  /\ UNCHANGED <<world, durable, heal>>

\* Nothing is left to wait for.
Leave == command = "over" /\ signal.at = "off" /\ ~suite /\ (\A j \in Jobs : ~Busy(j)) /\ Gone

DriverDies == Gone

-----------------------------------------------------------------------------
(* installSignalCoordinator *)

FirstSignal ==
  /\ host = "up" /\ signal.at = "off" /\ command # "over"
  /\ signal' = [at |-> "p1", adopted |-> suite]
  /\ flight' = Flown
  /\ UNCHANGED <<job, world, durable, registry, suite, command, host, heal>>

SecondSignal == signal.at # "off" /\ Gone
BoundedCleanupTimer == signal.at # "off" /\ Gone
SignalCleanupEnds == signal.at = "done" /\ Gone

-----------------------------------------------------------------------------
(* recoverPendingLifecycleProcesses on Linux, then closeInterruptedInvocations *)

\* A scan misses a descendant that forks and exits under it.
Missable == {j \in heal.entries : leader[j] # "up" /\ rest[j] = "escaped"}
Observed(missed) == {j \in heal.entries : Alive(j)} \ missed

\* An entry without a pid is absent only when one of its processes was seen before.
Unseen(j, missed) == j \notin Observed(missed) /\ (j \in known \/ j \in heal.seen)

\* Mutant: one empty look is enough.
OneEmptyLook == 1
EmptyLooks == 2

Unsettled == {j \in heal.entries : heal.empty[j] < EmptyLooks}

StartRecovery ==
  /\ host = "gone" /\ heal.phase \in {"none", "refused"} /\ heal.tries < MaxResumes
  /\ heal' = [NoHeal EXCEPT !.phase = "SIGTERM", !.tries = heal.tries + 1, !.hops = heal.hops,
                            !.entries = {j \in Jobs : record[j] \in {"pending", "failed"}}]
  /\ UNCHANGED <<job, world, durable, registry, driver>>

\* observe, and the signal to what it found.
Look ==
  /\ heal.phase \in {"SIGTERM", "SIGKILL"} /\ Unsettled # {} /\ heal.passes < MaxPasses
  /\ \E missed \in SUBSET Missable, whole \in BOOLEAN :
       /\ missed # {} => heal.hops < MaxHops
       /\ heal' = [heal EXCEPT
            !.passes = @ + 1,
            !.hops = IF missed = {} THEN @ ELSE @ + 1,
            !.seen = @ \cup Observed(missed),
            !.empty = [j \in Jobs |-> IF j \in heal.entries /\ whole /\ Unseen(j, missed)
                                        THEN @[j] + 1 ELSE 0]]
       /\ LET hit == IF heal.phase = "SIGKILL" THEN Observed(missed) ELSE {} IN
            /\ leader' = [j \in Jobs |-> IF j \in hit THEN Fallen(j)[j] ELSE leader[j]]
            /\ rest' = [j \in Jobs |-> IF j \in hit /\ rest[j] # "none" THEN "gone" ELSE rest[j]]
  /\ UNCHANGED <<job, durable, registry, driver>>

PhaseEnds ==
  /\ heal.phase = "SIGTERM" /\ Unsettled # {} /\ heal.passes > 0
  /\ heal' = [heal EXCEPT !.phase = "SIGKILL", !.passes = 0, !.seen = {}, !.entries = Unsettled,
                          !.empty = [j \in Jobs |-> 0]]
  /\ UNCHANGED <<job, world, durable, registry, driver>>

RecoveryVerdict ==
  /\ \/ heal.phase \in {"SIGTERM", "SIGKILL"} /\ Unsettled = {}
     \/ heal.phase = "SIGKILL" /\ heal.passes > 0
  /\ record' = [j \in Jobs |-> IF record[j] \notin {"pending", "failed"} THEN record[j]
                               ELSE IF j \in Unsettled THEN "failed" ELSE "complete"]
  /\ heal' = [NoHeal EXCEPT !.phase = IF Unsettled = {} THEN "closed" ELSE "refused",
                            !.tries = heal.tries, !.hops = heal.hops]
  /\ UNCHANGED <<job, world, known, registry, driver>>

-----------------------------------------------------------------------------
Run(j) ==
  \/ Launch(j) \/ Timeout(j) \/ Escalate(j) \/ ExitSeen(j) \/ Sweep(j) \/ Retire(j)

ProcessesNext ==
  \/ \E j \in Jobs : Fork(j) \/ LeaderExits(j) \/ RestExits(j) \/ Run(j) \/ CleanOne(j)
  \/ FlightEnds \/ SuiteCleanupEnds \/ CommandFails \/ CommandEnds \/ Leave \/ DriverDies
  \/ FirstSignal \/ SecondSignal \/ BoundedCleanupTimer \/ SignalCleanupEnds
  \/ StartRecovery \/ Look \/ PhaseEnds \/ RecoveryVerdict

ProcessesSpec == ProcessesInit /\ [][ProcessesNext]_processesVars

\* Each cleanup settles; the bound on the signal cleanup is left out on purpose.
CleanupFairness ==
  /\ \A j \in Jobs : WF_processesVars(CleanOne(j))
  /\ WF_processesVars(FlightEnds) /\ WF_processesVars(SuiteCleanupEnds) /\ WF_processesVars(SignalCleanupEnds)

-----------------------------------------------------------------------------
(* A process that lives is one somebody will come for: the driver has it in *)
(* its registry (process.ts:524), and the record does not call its entry    *)
(* complete, so a resume looks for it however the driver ended              *)
(* (run-state.ts:728).                                                      *)
LivingIsOwed ==
  \A j \in Jobs : Alive(j) =>
    /\ record[j] \in {"pending", "failed"}
    /\ host = "up" => j \in registry

(* A call that reports success left nothing behind, was in time, and its    *)
(* entry is settled in the record (process.ts:482).                         *)
SuccessIsClean ==
  \A j \in Jobs : job[j].at = "done" /\ job[j].end = "ok" =>
    ~Alive(j) /\ ~job[j].late /\ record[j] = "complete"

(* The cleanup after a signal does not wait for itself: the process ends    *)
(* without the 30-second bound when each cleanup it shares with the failing *)
(* command settles (cli.ts:184).                                            *)
SignalCleanupSettles == CleanupFairness => (signal.at # "off" ~> signal.at = "off")
=============================================================================
