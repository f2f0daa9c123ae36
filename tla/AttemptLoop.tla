---------------------------- MODULE AttemptLoop ----------------------------
(***************************************************************************)
(* One agent() call on a real backend: AgentCallExecutor of                *)
(* src/src/engine/agentcall.ts.  execute() makes up to retries + 1         *)
(* attempts; a retry resumes the failed attempt's backend session when it  *)
(* can, and a resume that never reattached is rerun fresh inside the same  *)
(* attempt.  Each physical attempt (runAttempt) spawns a worker, races its *)
(* exit against the hard timeout, the stall watchdog and the abort signal, *)
(* and then sweeps the descendants the worker left.  With a schema the     *)
(* answer is validated and repaired by at most RepairLimit more attempts.  *)
(*                                                                         *)
(* The worker is external: it announces a session, reports usage and exits *)
(* when it likes.  The clock counts the seconds since the logical attempt  *)
(* began (attemptStartedAt).                                               *)
(***************************************************************************)
EXTENDS Integers, Sequences, FiniteSets

CONSTANTS
  Retries,      \* spec.retries
  RepairLimit,  \* SCHEMA_REPAIR_LIMIT
  Budget,       \* attemptBudgetMs in seconds, when the call is timed
  Grace         \* bound: seconds an attempt may outlive its budget

ASSUME AttemptAssumption ==
  /\ Retries \in Nat
  /\ RepairLimit \in Nat
  /\ Budget \in Nat \ {0}
  /\ Grace \in Nat

VARIABLES
  call,       \* what the caller and the adapter fixed: see Calls
  phase,      \* where execute() is suspended or about to continue
  aborted,    \* signal.aborted
  attempt,    \* loop variable of execute(); attemptsUsed
  round,      \* loop variable of enforceSchema
  kind,       \* how the current physical attempt was planned
  proc,       \* the current physical attempt
  elapsed,    \* Date.now() - attemptStartedAt
  deadline,   \* the value of elapsed at which the armed timer fires
  last,       \* AttemptResult most recently returned by runAttempt
  usages,     \* execute()'s list of counted AttemptResults
  first,      \* session of the attempt enforceSchema began with
  records,    \* worker records on disk, by name: <<ordinal, suffix>> -> spawn
  leftovers,  \* spawns whose descendants no sweep proved gone
  spawns,     \* number of workers spawned
  outcome     \* AgentOutcome.ok of the call

vars == <<call, phase, aborted, attempt, round, kind, proc, elapsed, deadline,
          last, usages, first, records, leftovers, spawns, outcome>>

Calls == [schema : BOOLEAN,       \* spec.schema is set
          timed : BOOLEAN,        \* a timeout is configured
          resumes : BOOLEAN,      \* buildResume returns a plan
          cumulative : BOOLEAN]   \* terminal usage is a thread total

Phases == {"loop", "running", "exited", "settled", "validate", "done"}
Kinds == {"fresh", "resume", "rerun", "repair"}
Exits == {"ok", "transient", "fatal", "stalled", "interrupted", "infra"}
Reports == {"none", "own", "thread"}

(* Session 0 is no session; a negative one fails SESSION_ID_RE.            *)
NoResult == [exit |-> "none", session |-> 0, report |-> "none"]
NoProc == [id |-> 0, name |-> <<0, "plain">>, from |-> 0, session |-> 0, report |-> "none",
           exit |-> "none", timedOut |-> FALSE, stalled |-> FALSE, killed |-> FALSE]

Resumable(s) == IF s > 0 THEN s ELSE 0
Retryable(exit) == exit \in {"transient", "stalled"}

Init ==
  /\ call \in Calls
  /\ phase = "loop"
  /\ aborted \in BOOLEAN
  /\ attempt = 1
  /\ round = 0
  /\ kind = "fresh"
  /\ proc = NoProc
  /\ elapsed = 0
  /\ deadline = 0
  /\ last = NoResult
  /\ usages = <<>>
  /\ first = 0
  /\ records = {}
  /\ leftovers = {}
  /\ spawns = 0
  /\ outcome = "pending"

Finish(result) ==
  /\ phase' = "done"
  /\ outcome' = result

(* spawnAgentProcess after the record's token is on disk: the record is    *)
(* written by name, over whatever bore the name.                           *)
Spawn(k, ordinal, suffix, session) ==
  /\ kind' = k
  /\ phase' = "running"
  /\ spawns' = spawns + 1
  /\ proc' = [NoProc EXCEPT !.id = spawns + 1, !.name = <<ordinal, suffix>>, !.from = session]
  /\ records' = {r \in records : r.name # <<ordinal, suffix>>}
                  \cup {[name |-> <<ordinal, suffix>>, of |-> spawns + 1]}

(* Mutant: the rerun is granted a full window of its own.                  *)
GrantFullWindow(spent) == spent + Budget

(* timeoutOverrideMs ?? spec.timeoutMs: what is left of the attempt's      *)
(* budget, from where the attempt stands.                                  *)
Grant(spent) == spent + (Budget - spent)

-----------------------------------------------------------------------------
(* execute(): the head of the loop.                                        *)

MayAttempt == ~aborted

LoopStops ==
  /\ phase = "loop"
  /\ ~MayAttempt
  /\ Finish("failed")
  /\ UNCHANGED <<call, aborted, attempt, round, kind, proc, elapsed, deadline,
                 last, usages, first, records, leftovers, spawns>>

(* A retry resumes the session of the attempt before it when that one      *)
(* announced a well-formed id and the adapter can resume.                  *)
StartAttempt ==
  /\ phase = "loop"
  /\ MayAttempt
  /\ LET session == IF call.resumes THEN Resumable(last.session) ELSE 0
     IN  Spawn(IF session = 0 THEN "fresh" ELSE "resume", attempt, "plain", session)
  /\ elapsed' = 0
  /\ deadline' = Grant(0)
  /\ UNCHANGED <<call, aborted, attempt, round, last, usages, first, leftovers, outcome>>

-----------------------------------------------------------------------------
(* runAttempt(): the worker runs.                                          *)

(* The first session event wins.  A fresh worker names a new session; a    *)
(* resumed one the session it reattached to (or, for backends that do not  *)
(* report thread totals, a new one).                                       *)
Announce ==
  /\ phase = "running"
  /\ proc.session = 0
  /\ \E s \in {proc.from, spawns, -spawns} \ {0} :
       /\ proc.from # 0 /\ call.cumulative => s = proc.from
       /\ proc' = [proc EXCEPT !.session = s]
  /\ UNCHANGED <<call, phase, aborted, attempt, round, kind, elapsed, deadline,
                 last, usages, first, records, leftovers, spawns, outcome>>

(* A terminal usage event; the CLI announces its session first.            *)
ReportUsage ==
  /\ phase = "running"
  /\ proc.session # 0
  /\ proc.report = "none"
  /\ proc' = [proc EXCEPT !.report = IF call.cumulative THEN "thread" ELSE "own"]
  /\ UNCHANGED <<call, phase, aborted, attempt, round, kind, elapsed, deadline,
                 last, usages, first, records, leftovers, spawns, outcome>>

TimerDue == call.timed /\ phase = "running" /\ ~proc.timedOut /\ elapsed = deadline

(* Time passes while a worker runs, and while the descendants of a resume  *)
(* are swept (of another attempt, nobody asks); a timer that is due fires  *)
(* first.                                                                  *)
Tick ==
  /\ phase = "running" \/ (phase = "exited" /\ kind = "resume")
  /\ call.timed
  /\ ~TimerDue
  /\ elapsed < Budget + Grace
  /\ elapsed' = elapsed + 1
  /\ UNCHANGED <<call, phase, aborted, attempt, round, kind, proc, deadline,
                 last, usages, first, records, leftovers, spawns, outcome>>

(* Mutant: timers stay armed while descendants are swept.                  *)
ArmedUntilSettled == phase \in {"running", "exited"}

(* disarmAttemptControl runs when the direct child exits.                  *)
Armed == phase = "running"

TimeOut ==
  /\ Armed
  /\ call.timed
  /\ ~proc.timedOut
  /\ elapsed = deadline
  /\ proc' = [proc EXCEPT !.timedOut = TRUE, !.killed = TRUE]
  /\ UNCHANGED <<call, phase, aborted, attempt, round, kind, elapsed, deadline,
                 last, usages, first, records, leftovers, spawns, outcome>>

(* The stall watchdog saw no stream activity for stallMs.  (After a        *)
(* timeout it changes nothing.)                                            *)
Stall ==
  /\ Armed
  /\ ~proc.timedOut /\ ~proc.stalled
  /\ proc' = [proc EXCEPT !.stalled = TRUE, !.killed = TRUE]
  /\ UNCHANGED <<call, phase, aborted, attempt, round, kind, elapsed, deadline,
                 last, usages, first, records, leftovers, spawns, outcome>>

(* Mutant: the abort listener of the first attempt is not renewed.         *)
ListeningFirst == phase = "running" /\ attempt = 1

(* onAbort is attached from the spawn to the exit of the direct child.     *)
Listening == phase = "running"

(* The run is stopped; a running worker is sent SIGTERM, then SIGKILL.     *)
Abort ==
  /\ ~aborted
  /\ phase # "done"
  /\ aborted' = TRUE
  /\ proc' = [proc EXCEPT !.killed = @ \/ Listening]
  /\ UNCHANGED <<call, phase, attempt, round, kind, elapsed, deadline,
                 last, usages, first, records, leftovers, spawns, outcome>>

(* What classifyExit and the race make of an exit the worker chose.        *)
Classified(own) ==
  IF proc.timedOut \/ proc.stalled THEN "stalled"
  ELSE IF aborted THEN "interrupted"
  ELSE own

(* The direct child exits (or could not be spawned: transient).  abort is  *)
(* read here; the timer flags are read when the sweep is over.             *)
ChildExits ==
  /\ phase = "running"
  /\ ~TimerDue
  /\ \E own \in {"ok", "transient", "fatal"} :
       /\ own = "ok" => proc.session # 0
       /\ proc' = [proc EXCEPT !.exit = Classified(own)]
  /\ phase' = "exited"
  /\ UNCHANGED <<call, aborted, attempt, round, kind, elapsed, deadline,
                 last, usages, first, records, leftovers, spawns, outcome>>

(* The recovery record is removed only after a complete sweep.             *)
RecordsAfter(swept) ==
  IF swept = "never" THEN records ELSE {r \in records : r.name # proc.name}

(* Mutant: a failed sweep leaves the worker's own verdict standing.        *)
VerdictOfWorker(exit, swept) == exit

(* A success needs a sweep that proved the descendants gone before the     *)
(* verdict; any attempt fails for good when no sweep did.                  *)
Verdict(exit, swept) ==
  IF swept = "never" \/ (swept = "late" /\ exit = "ok") THEN "infra" ELSE exit

(* The sweeps of runAttempt end: the first proved absence ("first"), only  *)
(* the one of the finally clause did ("late"), or none did ("never").      *)
Swept ==
  /\ phase = "exited"
  /\ \E swept \in {"first", "late", "never"} :
       LET exit == IF proc.timedOut \/ proc.stalled THEN "stalled" ELSE proc.exit
       IN  /\ last' = [exit |-> Verdict(exit, swept),
                       session |-> proc.session, report |-> proc.report]
           /\ records' = RecordsAfter(swept)
           /\ leftovers' = IF swept = "never" THEN leftovers \cup {proc.id} ELSE leftovers
  /\ phase' = "settled"
  /\ proc' = [proc EXCEPT !.killed = FALSE]
  /\ UNCHANGED <<call, aborted, attempt, round, kind, elapsed, deadline,
                 usages, first, spawns, outcome>>

-----------------------------------------------------------------------------
(* execute() and enforceSchema(): the result of an attempt.                *)

(* Mutant: the rerun does not look at the abort signal.                    *)
DeadResumeUnchecked ==
  /\ phase = "settled"
  /\ kind = "resume"
  /\ last.exit \notin {"ok", "stalled"}
  /\ last.session = 0

(* A resume that failed without ever reattaching failed as a mechanism.    *)
DeadResume ==
  /\ phase = "settled"
  /\ kind = "resume"
  /\ last.exit \notin {"ok", "stalled"}
  /\ last.session = 0
  /\ ~aborted

OutOfTime == call.timed /\ Budget - elapsed < 1

(* Mutant: the rerun reuses the record name of the resume it replaces.     *)
RerunSuffixNone == "plain"

RerunSuffix == "-fresh"

Rerun ==
  /\ DeadResume
  /\ ~OutOfTime
  /\ Spawn("rerun", attempt, RerunSuffix, 0)
  /\ deadline' = Grant(elapsed)
  /\ UNCHANGED <<call, aborted, attempt, round, elapsed, last, usages, first, leftovers, outcome>>

(* The result that is counted: a dead resume with no time left is made a   *)
(* timeout.                                                                *)
Counted == IF DeadResume THEN [last EXCEPT !.exit = "stalled"] ELSE last

(* usages.push(last) and the branches after it; what the clock of this     *)
(* attempt says is not read again.                                         *)
AttemptCounted ==
  /\ phase = "settled"
  /\ kind # "repair"
  /\ DeadResume => OutOfTime
  /\ last' = Counted
  /\ usages' = Append(usages, Counted)
  /\ CASE Counted.exit = "ok" /\ call.schema ->
            /\ phase' = "validate"
            /\ first' = last.session
            /\ UNCHANGED <<attempt, outcome>>
       [] Counted.exit = "ok" /\ ~call.schema ->
            /\ Finish("ok")
            /\ UNCHANGED <<attempt, first>>
       [] Retryable(Counted.exit) /\ attempt <= Retries ->
            /\ phase' = "loop"
            /\ attempt' = attempt + 1
            /\ UNCHANGED <<first, outcome>>
       [] OTHER ->
            /\ Finish("failed")
            /\ UNCHANGED <<attempt, first>>
  /\ elapsed' = 0
  /\ deadline' = 0
  /\ UNCHANGED <<call, aborted, round, kind, proc, records, leftovers, spawns>>

RepairCounted ==
  /\ phase = "settled"
  /\ kind = "repair"
  /\ usages' = Append(usages, last)
  /\ IF last.exit = "ok"
       THEN phase' = "validate" /\ round' = round + 1 /\ UNCHANGED outcome
       ELSE Finish("failed") /\ UNCHANGED round
  /\ elapsed' = 0
  /\ deadline' = 0
  /\ UNCHANGED <<call, aborted, attempt, kind, proc, last, first, records,
                 leftovers, spawns>>

AnswerValid ==
  /\ phase = "validate"
  /\ Finish("ok")
  /\ UNCHANGED <<call, aborted, attempt, round, kind, proc, elapsed, deadline, last,
                 usages, first, records, leftovers, spawns>>

(* Mutant: one repair round too many.                                      *)
MayRepairOnceMore == round <= RepairLimit /\ ~aborted

MayRepair == round < RepairLimit /\ ~aborted

AnswerRejected ==
  /\ phase = "validate"
  /\ ~MayRepair
  /\ Finish("failed")
  /\ UNCHANGED <<call, aborted, attempt, round, kind, proc, elapsed, deadline, last,
                 usages, first, records, leftovers, spawns>>

(* Repairs continue the numbering of the attempts.                         *)
RepairOrdinal == attempt + round + 1

Repair ==
  /\ phase = "validate"
  /\ MayRepair
  /\ LET session == IF Resumable(last.session) # 0 THEN Resumable(last.session)
                    ELSE Resumable(first)
     IN  Spawn("repair", RepairOrdinal, "plain", IF call.resumes THEN session ELSE 0)
  /\ elapsed' = 0
  /\ deadline' = Grant(0)
  /\ UNCHANGED <<call, aborted, attempt, round, last, usages, first, leftovers, outcome>>

-----------------------------------------------------------------------------
(* mergedUsage(): which attempts contribute a figure of their own, and     *)
(* which attempts that figure stands for.                                  *)

IsCumulative(i) == usages[i].session # 0 /\ usages[i].report = "thread"

CoveredLater(i) ==
  \E j \in DOMAIN usages : j > i /\ IsCumulative(j) /\ usages[j].session = usages[i].session

(* Mutant: a killed attempt is estimated even if a later report on its     *)
(* session covers it.                                                      *)
ContributesEstimate(i) == IsCumulative(i) => ~CoveredLater(i)

(* Only the last thread total of a session counts; an attempt without a    *)
(* report is estimated unless a later total of its session covers it.      *)
Contributes(i) ==
  IsCumulative(i) \/ usages[i].report = "none" => ~CoveredLater(i)

StandsFor(i) ==
  IF IsCumulative(i) THEN {j \in 1 .. i : usages[j].session = usages[i].session} ELSE {i}

-----------------------------------------------------------------------------
Next ==
  \/ LoopStops \/ StartAttempt
  \/ Announce \/ ReportUsage \/ Tick \/ TimeOut \/ Stall \/ Abort \/ ChildExits \/ Swept
  \/ Rerun \/ AttemptCounted \/ RepairCounted
  \/ AnswerValid \/ AnswerRejected \/ Repair

(* The engine's own steps are taken by the event loop; a worker that was   *)
(* signalled exits (SIGKILL follows SIGTERM after five seconds) and sweeps *)
(* are bounded.  A worker nobody signalled may run for ever, but a timer   *)
(* that is armed goes off.                                                 *)
Fairness ==
  /\ WF_vars(LoopStops \/ StartAttempt \/ Rerun \/ AttemptCounted \/ RepairCounted)
  /\ WF_vars(AnswerValid \/ AnswerRejected \/ Repair)
  /\ WF_vars(proc.killed /\ ChildExits)
  /\ WF_vars(Swept)
  /\ WF_vars(Tick)
  /\ WF_vars(TimeOut)

Spec == Init /\ [][Next]_vars /\ Fairness

-----------------------------------------------------------------------------
Names == (1 .. Retries + 1 + RepairLimit) \X {"plain", "-fresh"}
Results == [exit : Exits, session : Int, report : Reports]

(* Types, and no more workers than attempts, their reruns and repairs.     *)
TypeOK ==
  /\ call \in Calls
  /\ phase \in Phases
  /\ aborted \in BOOLEAN
  /\ attempt \in 1 .. Retries + 1
  /\ round \in 0 .. RepairLimit
  /\ kind \in Kinds
  /\ proc \in [id : Nat, name : Names \cup {<<0, "plain">>}, from : Nat, session : Int, report : Reports,
               exit : Exits \cup {"none"}, timedOut : BOOLEAN, stalled : BOOLEAN, killed : BOOLEAN]
  /\ elapsed \in 0 .. Budget + Grace
  /\ deadline \in 0 .. Budget
  /\ last \in Results \cup {NoResult}
  /\ usages \in Seq(Results)
  /\ first \in Int
  /\ records \subseteq [name : Names, of : Nat]
  /\ leftovers \subseteq Nat
  /\ spawns \in 0 .. 2 * (Retries + 1) + RepairLimit
  /\ outcome \in {"pending", "ok", "failed"}

(* A worker whose descendants no sweep proved gone keeps its recovery      *)
(* record, whatever attempts follow: stop and recovery find it by it.      *)
LeftoversRecorded == \A n \in leftovers : \E r \in records : r.of = n

(* One deadline per logical attempt: a worker nobody signalled is inside   *)
(* the budget counted from the first spawn of its attempt, the time a dead *)
(* resume used included.                                                   *)
OneDeadline ==
  phase = "running" /\ call.timed /\ ~proc.killed => elapsed <= Budget

(* Once the run is aborted no worker is spawned: not by a retry, not by    *)
(* the rerun of a dead resume, not by a schema repair.                     *)
NoSpawnAfterAbort == [][spawns' # spawns => ~aborted]_vars

(* What the direct child exited with decides: a success is never retried   *)
(* because a timer went off while its descendants were swept.              *)
FateFixedAtExit ==
  [][spawns' # spawns /\ kind' # "repair" => proc.exit # "ok"]_vars

(* A resume that ended without reattaching to its session. *)
NeverReattached == kind = "resume" /\ last.session = 0

(* No retry and no repair runs beside what the attempt before it left      *)
(* behind.  A resume that never reattached is the exception: its rerun, or *)
(* the timeout made of it, drops the verdict of its sweep.                 *)
RetryOnlyWhenSwept ==
  [][spawns' # spawns /\ ~NeverReattached => proc.id \notin leftovers]_vars

(* The test "promotes unresolved cleanup for a failed child and does not   *)
(* start another attempt": with resumes that never reattached included.    *)
NoSpawnOverLeftovers == [][spawns' # spawns => leftovers = {}]_vars

(* The usage charged for a call counts the tokens of every attempt once:   *)
(* none twice through a thread total, none dropped.                        *)
UsageCountedOnce ==
  \A j \in DOMAIN usages :
    Cardinality({i \in DOMAIN usages : Contributes(i) /\ j \in StandsFor(i)}) = 1

(* A call that is aborted, or that has a timeout, ends.                    *)
CallEnds == (aborted \/ call.timed) ~> (phase = "done")

=============================================================================
