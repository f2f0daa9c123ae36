--------------------------- MODULE AttemptProofs ---------------------------
(***************************************************************************)
(* What is proved of one agent() call on a real backend.                   *)
(*   - Its attempts, for every number of retries and repairs and every     *)
(*     budget: one deadline per logical attempt, no retry beside what the  *)
(*     attempt before it left, a record of what no sweep proved gone       *)
(*     (AttemptInv), and the usage of each attempt counted once (UsageInv).*)
(*   - The processes of one attempt, for every process tree: a record      *)
(*     covers whatever lives, and settled means gone (CleanupInv), as long *)
(*     as sweeps meet fewer forks than the empty passes that they ask for. *)
(***************************************************************************)
EXTENDS AttemptLoop, WorkerCleanup, FiniteSetTheorems, WellFoundedInduction, TLAPS

\* A worker runs, or its descendants are swept.
Alive == phase \in {"running", "exited"}

\* The worker of an attempt.
WorkerTypes == [id : Nat, name : Nat \X {"plain", "-fresh"}, from : Int, session : Int,
                report : Reports, exit : Exits \cup {"none"},
                timedOut : BOOLEAN, stalled : BOOLEAN, killed : BOOLEAN]
\* A recovery record.
RecordTypes == [name : Nat \X {"plain", "-fresh"}, of : Nat]

(* Weak types: what the three arguments below need to know.                *)
Typed ==
  /\ elapsed \in Nat
  /\ attempt \in Nat
  /\ round \in Nat
  /\ spawns \in Nat
  /\ proc \in WorkerTypes
  /\ last \in [exit : Exits \cup {"none"}, session : Int, report : Reports]
  /\ first \in Int
  /\ records \subseteq RecordTypes

(* The armed timer stands at the budget, and goes off before it is passed. *)
Clock ==
  phase = "running" =>
    /\ deadline = Budget
    /\ proc.timedOut => proc.killed
    /\ call.timed /\ ~proc.timedOut => elapsed <= Budget

(* What a failed sweep left is either the matter of the verdict that ends  *)
(* the call, or of a resume that never reattached.                         *)
LeftBehind ==
  /\ leftovers \subseteq 0 .. spawns
  /\ proc.id <= spawns
  /\ Alive => proc.id \notin leftovers
  /\ phase = "settled" /\ proc.id \in leftovers => last.exit = "infra"
  /\ phase \in {"loop", "validate"} /\ proc.id \in leftovers => NeverReattached

(* The records are named by ordinals already used, so that the next worker *)
(* overwrites none; the record of the worker that lives is its own.        *)
Naming ==
  /\ LeftoversRecorded
  /\ phase = "loop" => \A r \in records : r.name[1] < attempt
  /\ (Alive \/ phase = "settled") /\ kind # "repair" =>
       /\ \A r \in records : r.name[1] <= attempt
       /\ kind = "resume" => \A r \in records : r.name # <<attempt, "-fresh">>
  /\ (Alive \/ phase = "settled") /\ kind = "repair" =>
       \A r \in records : r.name[1] <= attempt + round + 1
  /\ phase = "validate" => \A r \in records : r.name[1] <= attempt + round
  /\ Alive => /\ \E r \in records : r.of = proc.id
              /\ \A r \in records : r.name = proc.name => r.of = proc.id

\* The inductive invariant of the attempts.
AttemptInv == Typed /\ Clock /\ LeftBehind /\ Naming

-----------------------------------------------------------------------------
(* What the spawn of a worker makes of the current attempt and its record. *)
Spawned(k, ordinal, suffix) ==
  /\ kind' = k /\ phase' = "running" /\ spawns' = spawns + 1
  /\ proc' \in WorkerTypes
  /\ proc'.id = spawns + 1 /\ proc'.name = <<ordinal, suffix>> /\ ~proc'.timedOut
  /\ records' \subseteq RecordTypes
  /\ \E r \in records' : r.of = spawns + 1
  /\ \A r \in records' : \/ r \in records /\ r.name # <<ordinal, suffix>>
                         \/ r.name = <<ordinal, suffix>> /\ r.of = spawns + 1
  /\ \A r \in records : r.name # <<ordinal, suffix>> => r \in records'

(* Spawn has that effect. *)
LEMMA SpawnEffect ==
  ASSUME Typed, NEW k, NEW ordinal \in Nat, NEW suffix \in {"plain", "-fresh"},
         NEW session \in Int,
         Spawn(k, ordinal, suffix, session)
  PROVE  Spawned(k, ordinal, suffix)
<1> DEFINE new == [name |-> <<ordinal, suffix>>, of |-> spawns + 1]
<1>1. kind' = k /\ phase' = "running" /\ spawns' = spawns + 1
  BY DEF Spawn
<1>2. proc' = [id |-> spawns + 1, name |-> <<ordinal, suffix>>, from |-> session, session |-> 0,
               report |-> "none", exit |-> "none", timedOut |-> FALSE, stalled |-> FALSE,
               killed |-> FALSE]
  BY DEF Spawn, NoProc
<1>3. <<ordinal, suffix>> \in Nat \X {"plain", "-fresh"} /\ spawns + 1 \in Nat
  BY DEF Typed
<1>4. new \in RecordTypes /\ new.name = <<ordinal, suffix>> /\ new.of = spawns + 1
  BY <1>3 DEF RecordTypes
<1>5. records' = {r \in records : r.name # <<ordinal, suffix>>} \cup {new}
  BY DEF Spawn
<1>6. records \subseteq RecordTypes
  BY DEF Typed
<1>7. proc' \in WorkerTypes
  BY <1>2, <1>3 DEF WorkerTypes, Reports, Exits
<1>8. proc'.id = spawns + 1 /\ proc'.name = <<ordinal, suffix>> /\ ~proc'.timedOut
  BY <1>2
<1> HIDE DEF new
<1>9. \E r \in records' : r.of = spawns + 1
  BY <1>4, <1>5
<1> QED
  BY <1>1, <1>4, <1>5, <1>6, <1>7, <1>8, <1>9 DEF Spawned

(* What a spawn finds before it makes the invariant hold after it: a clock *)
(* inside the budget, and a name that no record bears and that exceeds no  *)
(* bound of its kind.                                                      *)
LEMMA SpawnKeeps ==
  ASSUME AttemptInv, NEW k, NEW ordinal \in Nat, NEW suffix \in {"plain", "-fresh"},
         Spawned(k, ordinal, suffix),
         UNCHANGED <<call, attempt, round, last, first, leftovers>>,
         elapsed' \in Nat, deadline' = Budget, call.timed => elapsed' <= Budget,
         \A r \in records : r.name # <<ordinal, suffix>>,
         \A r \in records : r.name[1] <= ordinal,
         k # "repair" => ordinal = attempt,
         k = "repair" => ordinal = attempt + round + 1,
         k = "resume" => suffix = "plain" /\ \A r \in records : r.name # <<ordinal, "-fresh">>
  PROVE  AttemptInv'
<1>0. Typed /\ LeftBehind /\ LeftoversRecorded
  BY DEF AttemptInv, Naming
<1>1. Typed'
  BY <1>0 DEF Typed, Spawned
<1>2. Clock'
  BY DEF Clock, Spawned
<1>3. LeftBehind'
  <2>1. spawns \in Nat /\ proc'.id = spawns + 1 /\ spawns' = spawns + 1 /\ phase' = "running"
    BY <1>0 DEF Typed, Spawned
  <2>2. leftovers \subseteq 0 .. spawns /\ leftovers' = leftovers
    BY <1>0 DEF LeftBehind
  <2> QED
    BY <2>1, <2>2 DEF LeftBehind
<1>4. LeftoversRecorded'
  BY <1>0 DEF LeftoversRecorded, Spawned
<1>5. \A r \in records' : r.name[1] <= ordinal
  <2> SUFFICES ASSUME NEW r \in records' PROVE r.name[1] <= ordinal
    OBVIOUS
  <2>1. CASE r \in records
    BY <2>1
  <2>2. CASE r.name = <<ordinal, suffix>>
    <3>1. <<ordinal, suffix>>[1] = ordinal
      OBVIOUS
    <3> QED
      BY <2>2, <3>1
  <2> QED
    BY <2>1, <2>2 DEF Spawned
<1>6. k = "resume" => \A r \in records' : r.name # <<ordinal, "-fresh">>
  <2> SUFFICES ASSUME k = "resume", NEW r \in records' PROVE r.name # <<ordinal, "-fresh">>
    OBVIOUS
  <2>1. CASE r \in records
    BY <2>1
  <2>2. CASE r.name = <<ordinal, suffix>>
    <3>1. <<ordinal, "plain">> # <<ordinal, "-fresh">>
      OBVIOUS
    <3> QED
      BY <2>2, <3>1
  <2> QED
    BY <2>1, <2>2 DEF Spawned
<1>7. /\ \E r \in records' : r.of = proc'.id
      /\ \A r \in records' : r.name = proc'.name => r.of = proc'.id
  BY DEF Spawned
<1>8. phase' = "running" /\ kind' = k /\ attempt' = attempt /\ round' = round
  BY DEF Spawned
<1>9. Naming'
  BY <1>4, <1>5, <1>6, <1>7, <1>8 DEF Naming, Alive
<1> QED
  BY <1>1, <1>2, <1>3, <1>9 DEF AttemptInv

-----------------------------------------------------------------------------
(* The invariant holds at first. *)
LEMMA AttemptInvInit == Init => AttemptInv
<1> SUFFICES ASSUME Init PROVE AttemptInv
  OBVIOUS
<1> USE DEF Init
<1>1. Typed
  <2>1. NoProc \in WorkerTypes
    <3>1. <<0, "plain">> \in Nat \X {"plain", "-fresh"}
      OBVIOUS
    <3> QED
      BY <3>1 DEF NoProc, WorkerTypes, Reports, Exits
  <2>2. NoResult \in [exit : Exits \cup {"none"}, session : Int, report : Reports]
    BY DEF NoResult, Reports, Exits
  <2> QED
    BY <2>1, <2>2 DEF Typed
<1>2. Clock
  BY DEF Clock
<1>3. LeftBehind
  <2>1. proc.id = 0
    BY DEF NoProc
  <2> QED
    BY <2>1 DEF LeftBehind
<1>4. Naming
  BY DEF Naming, Alive, LeftoversRecorded
<1> QED
  BY <1>1, <1>2, <1>3, <1>4 DEF AttemptInv

(* The worker's fields may change while it lives, but not which it is.      *)
LEMMA LivingKeeps ==
  ASSUME AttemptInv, proc' \in WorkerTypes, proc'.id = proc.id, proc'.name = proc.name,
         UNCHANGED <<call, phase, attempt, round, kind, deadline, last, first, records,
                     leftovers, spawns>>,
         elapsed' \in Nat,
         phase = "running" => /\ proc'.timedOut => proc'.killed
                              /\ call.timed /\ ~proc'.timedOut => elapsed' <= Budget
  PROVE  AttemptInv'
<1>1. Typed'
  BY DEF AttemptInv, Typed
<1>2. Clock'
  BY DEF AttemptInv, Clock
<1>3. LeftBehind'
  BY DEF AttemptInv, LeftBehind, Alive, NeverReattached
<1>4. Naming'
  BY DEF AttemptInv, Naming, Alive, LeftoversRecorded
<1> QED
  BY <1>1, <1>2, <1>3, <1>4 DEF AttemptInv

(* Nor does it matter to the invariant that the call is over.               *)
LEMMA DoneKeeps ==
  ASSUME AttemptInv, phase' = "done", elapsed' \in Nat, attempt' \in Nat, round' \in Nat,
         first' \in Int,
         last' \in [exit : Exits \cup {"none"}, session : Int, report : Reports],
         UNCHANGED <<proc, records, leftovers, spawns>>
  PROVE  AttemptInv'
<1>1. Typed'
  BY DEF AttemptInv, Typed
<1>2. Clock'
  BY DEF Clock
<1>3. LeftBehind'
  BY DEF AttemptInv, LeftBehind, Alive
<1>4. Naming'
  BY DEF AttemptInv, Naming, Alive, LeftoversRecorded
<1> QED
  BY <1>1, <1>2, <1>3, <1>4 DEF AttemptInv

(* Time, the timers, the abort and the worker's own events.                *)
LEMMA RunningSteps ==
  ASSUME AttemptInv, Announce \/ ReportUsage \/ Tick \/ TimeOut \/ Stall \/ Abort
  PROVE  AttemptInv'
<1>0. /\ proc \in WorkerTypes /\ elapsed \in Nat /\ spawns \in Nat
      /\ phase = "running" => /\ deadline = Budget
                              /\ proc.timedOut => proc.killed
                              /\ call.timed /\ ~proc.timedOut => elapsed <= Budget
  BY DEF AttemptInv, Typed, Clock
<1>1. CASE Announce
  <2>1. PICK s \in {proc.from, spawns, -spawns} \ {0} : proc' = [proc EXCEPT !.session = s]
    BY <1>1 DEF Announce
  <2>2. s \in Int
    BY <1>0, <2>1 DEF WorkerTypes
  <2>3. proc' \in WorkerTypes /\ proc'.id = proc.id /\ proc'.name = proc.name
    BY <1>0, <2>1, <2>2 DEF WorkerTypes
  <2>4. proc'.timedOut = proc.timedOut /\ proc'.killed = proc.killed
    BY <1>0, <2>1 DEF WorkerTypes
  <2> QED
    BY <1>0, <1>1, <2>3, <2>4, LivingKeeps DEF Announce
<1>2. CASE ReportUsage
  <2>1. proc' \in WorkerTypes /\ proc'.id = proc.id /\ proc'.name = proc.name
    BY <1>0, <1>2 DEF ReportUsage, WorkerTypes, Reports
  <2>2. proc'.timedOut = proc.timedOut /\ proc'.killed = proc.killed
    BY <1>0, <1>2 DEF ReportUsage, WorkerTypes
  <2> QED
    BY <1>0, <1>2, <2>1, <2>2, LivingKeeps DEF ReportUsage
<1>3. CASE Tick
  <2>1. elapsed' = elapsed + 1 /\ elapsed' \in Nat /\ proc' = proc
    BY <1>0, <1>3 DEF Tick
  <2>2. phase = "running" /\ call.timed /\ ~proc.timedOut => elapsed' <= Budget
    BY <1>0, <1>3, <2>1, AttemptAssumption DEF Tick, TimerDue
  <2> QED
    BY <1>0, <1>3, <2>1, <2>2, LivingKeeps DEF Tick
<1>4. CASE TimeOut
  <2>1. proc' \in WorkerTypes /\ proc'.id = proc.id /\ proc'.name = proc.name
        /\ proc'.timedOut /\ proc'.killed
    BY <1>0, <1>4 DEF TimeOut, WorkerTypes
  <2> QED
    BY <1>0, <1>4, <2>1, LivingKeeps DEF TimeOut
<1>5. CASE Stall
  <2>1. proc' \in WorkerTypes /\ proc'.id = proc.id /\ proc'.name = proc.name
        /\ proc'.timedOut = proc.timedOut /\ proc'.killed
    BY <1>0, <1>5 DEF Stall, WorkerTypes
  <2> QED
    BY <1>0, <1>5, <2>1, LivingKeeps DEF Stall
<1>6. CASE Abort
  <2>1. proc' = [proc EXCEPT !.killed = proc.killed \/ Listening]
    BY <1>6 DEF Abort
  <2>2. (proc.killed \/ Listening) \in BOOLEAN
    OBVIOUS
  <2>3. proc' \in WorkerTypes /\ proc'.id = proc.id /\ proc'.name = proc.name
        /\ proc'.timedOut = proc.timedOut
    BY <1>0, <2>1, <2>2 DEF WorkerTypes
  <2>4. phase = "running" => proc'.killed
    BY <1>0, <2>1 DEF WorkerTypes, Listening
  <2> QED
    BY <1>0, <1>6, <2>3, <2>4, LivingKeeps DEF Abort
<1> QED
  BY <1>1, <1>2, <1>3, <1>4, <1>5, <1>6

(* The direct child exits.                                                 *)
LEMMA ExitKeeps == ASSUME AttemptInv, ChildExits PROVE AttemptInv'
<1>0. proc \in WorkerTypes
  BY DEF AttemptInv, Typed
<1>1. PICK own \in {"ok", "transient", "fatal"} : proc' = [proc EXCEPT !.exit = Classified(own)]
  BY DEF ChildExits
<1>2. Classified(own) \in Exits
  BY DEF Classified, Exits
<1>3. proc' \in WorkerTypes /\ proc'.id = proc.id /\ proc'.name = proc.name
  BY <1>0, <1>1, <1>2 DEF WorkerTypes
<1>4. /\ phase = "running" /\ phase' = "exited"
      /\ UNCHANGED <<call, attempt, round, kind, elapsed, deadline, last, first, records,
                     leftovers, spawns>>
  BY DEF ChildExits
<1>5. Typed'
  BY <1>3, <1>4 DEF AttemptInv, Typed
<1>6. Clock'
  BY <1>4 DEF Clock
<1>7. LeftBehind'
  BY <1>3, <1>4 DEF AttemptInv, LeftBehind, Alive
<1>8. Naming'
  BY <1>3, <1>4 DEF AttemptInv, Naming, Alive, LeftoversRecorded
<1> QED
  BY <1>5, <1>6, <1>7, <1>8 DEF AttemptInv

(* The sweeps end: what they leave has its record, and the verdict of it.   *)
LEMMA SweptKeeps == ASSUME AttemptInv, Swept PROVE AttemptInv'
<1>0. proc \in WorkerTypes /\ last \in [exit : Exits \cup {"none"}, session : Int, report : Reports]
      /\ spawns \in Nat
  BY DEF AttemptInv, Typed
<1>1. PICK swept \in {"first", "late", "never"} :
        /\ last' = [exit |-> Verdict(IF proc.timedOut \/ proc.stalled THEN "stalled" ELSE proc.exit,
                                     swept),
                    session |-> proc.session, report |-> proc.report]
        /\ records' = RecordsAfter(swept)
        /\ leftovers' = IF swept = "never" THEN leftovers \cup {proc.id} ELSE leftovers
  BY DEF Swept
<1>2. /\ phase = "exited" /\ phase' = "settled"
      /\ UNCHANGED <<call, attempt, round, kind, elapsed, deadline, first, spawns>>
      /\ proc' = [proc EXCEPT !.killed = FALSE]
  BY DEF Swept
<1>3. proc' \in WorkerTypes /\ proc'.id = proc.id /\ proc'.name = proc.name
  BY <1>0, <1>2 DEF WorkerTypes
<1>4. /\ last' \in [exit : Exits \cup {"none"}, session : Int, report : Reports]
      /\ swept = "never" => last'.exit = "infra"
  BY <1>0, <1>1 DEF Verdict, WorkerTypes, Exits
<1>5. records' \subseteq records
  BY <1>1 DEF RecordsAfter
<1>6. Typed'
  BY <1>2, <1>3, <1>4, <1>5 DEF AttemptInv, Typed
<1>7. Clock'
  BY <1>2 DEF Clock
<1>8. LeftBehind'
  <2>1. leftovers \subseteq 0 .. spawns /\ proc.id <= spawns /\ proc.id \notin leftovers
    BY <1>2 DEF AttemptInv, LeftBehind, Alive
  <2>2. swept = "never" => proc.id \in 0 .. spawns
    BY <1>0, <2>1, <1>2 DEF AttemptInv, LeftBehind, Alive, WorkerTypes
  <2> QED
    BY <1>1, <1>2, <1>3, <1>4, <2>1, <2>2 DEF LeftBehind, Alive
<1>9. LeftoversRecorded'
  <2> SUFFICES ASSUME NEW n \in leftovers' PROVE \E r \in records' : r.of = n
    BY DEF LeftoversRecorded
  <2>1. CASE swept = "never"
    BY <1>1, <1>2, <2>1 DEF RecordsAfter, AttemptInv, Naming, Alive, LeftoversRecorded
  <2>2. CASE swept # "never"
    <3>1. n \in leftovers /\ n # proc.id
      BY <1>1, <1>2, <2>2 DEF AttemptInv, LeftBehind, Alive
    <3>2. PICK r \in records : r.of = n
      BY <3>1 DEF AttemptInv, Naming, LeftoversRecorded
    <3>3. r.name # proc.name
      BY <1>2, <3>1, <3>2 DEF AttemptInv, Naming, Alive
    <3> QED
      BY <1>1, <2>2, <3>2, <3>3 DEF RecordsAfter
  <2> QED
    BY <2>1, <2>2
<1>10. Naming'
  BY <1>2, <1>5, <1>9 DEF AttemptInv, Naming, Alive
<1> QED
  BY <1>6, <1>7, <1>8, <1>10 DEF AttemptInv

(* A new attempt is named by an ordinal that no record bears.               *)
LEMMA StartKeeps == ASSUME AttemptInv, StartAttempt PROVE AttemptInv'
<1> DEFINE session == IF call.resumes THEN Resumable(last.session) ELSE 0
           k == IF session = 0 THEN "fresh" ELSE "resume"
<1>0. Typed
  BY DEF AttemptInv
<1>1. last.session \in Int /\ attempt \in Nat
  BY <1>0 DEF Typed
<1>2. session \in Int
  BY <1>1 DEF Resumable
<1>3. Spawn(k, attempt, "plain", session)
  BY DEF StartAttempt
<1>4. Spawned(k, attempt, "plain")
  <2> HIDE DEF session, k
  <2> QED
    BY <1>0, <1>1, <1>2, <1>3, SpawnEffect
<1>5. \A r \in records : r.name[1] < attempt
  BY DEF StartAttempt, AttemptInv, Naming
<1>6. records \subseteq RecordTypes
  BY <1>0 DEF Typed
<1>7. \A r \in records : r.name[1] <= attempt
  <2> SUFFICES ASSUME NEW r \in records PROVE r.name[1] <= attempt
    OBVIOUS
  <2>1. r.name[1] < attempt /\ r.name[1] \in Nat
    BY <1>5, <1>6 DEF RecordTypes
  <2> QED
    BY <1>1, <2>1
<1>8. \A r \in records, suffix \in {"plain", "-fresh"} : r.name # <<attempt, suffix>>
  <2> SUFFICES ASSUME NEW r \in records, NEW suffix \in {"plain", "-fresh"},
                      r.name = <<attempt, suffix>>
               PROVE  FALSE
    OBVIOUS
  <2>1. r.name[1] = attempt
    OBVIOUS
  <2> QED
    BY <1>1, <1>5, <2>1
<1>9. /\ elapsed' \in Nat /\ deadline' = Budget /\ elapsed' <= Budget
      /\ UNCHANGED <<call, attempt, round, last, first, leftovers>>
  BY AttemptAssumption DEF StartAttempt, Grant
<1>10. k # "repair"
  OBVIOUS
<1> HIDE DEF k
<1> QED
  BY <1>1, <1>4, <1>7, <1>8, <1>9, <1>10, SpawnKeeps

(* The rerun of a dead resume is named apart from it, inside its budget.    *)
LEMMA RerunKeeps == ASSUME AttemptInv, Rerun PROVE AttemptInv'
<1>0. Typed
  BY DEF AttemptInv
<1>1. attempt \in Nat /\ elapsed \in Nat
  BY <1>0 DEF Typed
<1>2. phase = "settled" /\ kind = "resume"
  BY DEF Rerun, DeadResume
<1>3. Spawned("rerun", attempt, "-fresh")
  <2>1. Spawn("rerun", attempt, "-fresh", 0)
    BY DEF Rerun, RerunSuffix
  <2> QED
    BY <1>0, <1>1, <2>1, SpawnEffect
<1>4. /\ \A r \in records : r.name[1] <= attempt
      /\ \A r \in records : r.name # <<attempt, "-fresh">>
  BY <1>2 DEF AttemptInv, Naming
<1>5. /\ elapsed' \in Nat /\ deadline' = Budget
      /\ call.timed => elapsed' <= Budget
      /\ UNCHANGED <<call, attempt, round, last, first, leftovers>>
  BY <1>1, AttemptAssumption DEF Rerun, Grant, OutOfTime
<1> QED
  BY <1>1, <1>3, <1>4, <1>5, SpawnKeeps

(* Repairs go on counting where the attempts ended.                         *)
LEMMA RepairKeeps == ASSUME AttemptInv, Repair PROVE AttemptInv'
<1> DEFINE back == IF Resumable(last.session) # 0 THEN Resumable(last.session)
                   ELSE Resumable(first)
           session == IF call.resumes THEN back ELSE 0
<1>0. Typed
  BY DEF AttemptInv
<1>1. last.session \in Int /\ first \in Int /\ attempt \in Nat /\ round \in Nat
  BY <1>0 DEF Typed
<1>2. session \in Int
  BY <1>1 DEF Resumable
<1>3. Spawn("repair", RepairOrdinal, "plain", session)
  BY DEF Repair
<1>4. RepairOrdinal \in Nat /\ RepairOrdinal = attempt + round + 1
  BY <1>1 DEF RepairOrdinal
<1>5. Spawned("repair", RepairOrdinal, "plain")
  <2> HIDE DEF session
  <2> QED
    BY <1>0, <1>2, <1>3, <1>4, SpawnEffect
<1>6. \A r \in records : r.name[1] \in Nat /\ r.name[1] <= attempt + round
  <2> SUFFICES ASSUME NEW r \in records PROVE r.name[1] \in Nat /\ r.name[1] <= attempt + round
    OBVIOUS
  <2>1. r \in RecordTypes
    BY <1>0 DEF Typed
  <2> QED
    BY <2>1 DEF RecordTypes, Repair, AttemptInv, Naming
<1>7. \A r \in records : r.name[1] <= RepairOrdinal
  BY <1>1, <1>4, <1>6
<1>8. \A r \in records : r.name # <<RepairOrdinal, "plain">>
  <2> SUFFICES ASSUME NEW r \in records, r.name = <<RepairOrdinal, "plain">> PROVE FALSE
    OBVIOUS
  <2>1. r.name[1] = RepairOrdinal
    OBVIOUS
  <2> QED
    BY <1>1, <1>4, <1>6, <2>1
<1>9. /\ elapsed' \in Nat /\ deadline' = Budget /\ elapsed' <= Budget
      /\ UNCHANGED <<call, attempt, round, last, first, leftovers>>
  BY AttemptAssumption DEF Repair, Grant
<1> QED
  BY <1>4, <1>5, <1>7, <1>8, <1>9, SpawnKeeps

(* An attempt is counted: the call goes on only from a swept one.           *)
LEMMA CountedKeeps == ASSUME AttemptInv, AttemptCounted PROVE AttemptInv'
<1>0. /\ last \in [exit : Exits \cup {"none"}, session : Int, report : Reports]
      /\ attempt \in Nat /\ round \in Nat /\ first \in Int
  BY DEF AttemptInv, Typed
<1>1. /\ phase = "settled" /\ kind # "repair"
      /\ UNCHANGED <<call, round, kind, proc, records, leftovers, spawns>>
      /\ elapsed' = 0 /\ last' = Counted
  BY DEF AttemptCounted
<1>2. /\ Counted \in [exit : Exits \cup {"none"}, session : Int, report : Reports]
      /\ Counted.session = last.session
      /\ last.exit = "infra" /\ ~DeadResume => Counted.exit = "infra"
      /\ DeadResume => NeverReattached
  BY <1>0 DEF Counted, Exits, DeadResume, NeverReattached
<1>3. \/ /\ phase' = "validate" /\ first' = last.session /\ UNCHANGED attempt
         /\ Counted.exit = "ok"
      \/ phase' = "done" /\ UNCHANGED <<attempt, first>>
      \/ /\ phase' = "loop" /\ attempt' = attempt + 1 /\ UNCHANGED first
         /\ Counted.exit \in {"transient", "stalled"}
  BY DEF AttemptCounted, Finish, Retryable
<1>4. CASE phase' = "done" /\ UNCHANGED <<attempt, first>>
  BY <1>0, <1>1, <1>2, <1>4, DoneKeeps
<1>5. CASE phase' = "validate" /\ first' = last.session /\ UNCHANGED attempt
           /\ Counted.exit = "ok"
  <2>1. Typed'
    BY <1>0, <1>1, <1>2, <1>5 DEF AttemptInv, Typed
  <2>2. Clock'
    BY <1>5 DEF Clock
  <2>3. LeftBehind'
    BY <1>1, <1>2, <1>5 DEF AttemptInv, LeftBehind, Alive, NeverReattached
  <2>4. \A r \in records : r.name[1] <= attempt + round
    <3> SUFFICES ASSUME NEW r \in records PROVE r.name[1] <= attempt + round
      OBVIOUS
    <3>1. r \in RecordTypes /\ r.name[1] <= attempt
      BY <1>1 DEF AttemptInv, Typed, Naming
    <3> QED
      BY <1>0, <3>1 DEF RecordTypes
  <2>5. Naming'
    BY <1>1, <1>5, <2>4 DEF AttemptInv, Naming, Alive, LeftoversRecorded
  <2> QED
    BY <2>1, <2>2, <2>3, <2>5 DEF AttemptInv
<1>6. CASE phase' = "loop" /\ attempt' = attempt + 1 /\ UNCHANGED first
           /\ Counted.exit \in {"transient", "stalled"}
  <2>1. Typed'
    BY <1>0, <1>1, <1>2, <1>6 DEF AttemptInv, Typed
  <2>2. Clock'
    BY <1>6 DEF Clock
  <2>3. LeftBehind'
    BY <1>1, <1>2, <1>6 DEF AttemptInv, LeftBehind, Alive, NeverReattached
  <2>4. \A r \in records : r.name[1] < attempt + 1
    <3> SUFFICES ASSUME NEW r \in records PROVE r.name[1] < attempt + 1
      OBVIOUS
    <3>1. r \in RecordTypes /\ r.name[1] <= attempt
      BY <1>1 DEF AttemptInv, Typed, Naming
    <3> QED
      BY <1>0, <3>1 DEF RecordTypes
  <2>5. Naming'
    BY <1>1, <1>6, <2>4 DEF AttemptInv, Naming, Alive, LeftoversRecorded
  <2> QED
    BY <2>1, <2>2, <2>3, <2>5 DEF AttemptInv
<1> QED
  BY <1>3, <1>4, <1>5, <1>6

(* A repair is counted: the answer is looked at again only if it was swept. *)
LEMMA RepairCountedKeeps == ASSUME AttemptInv, RepairCounted PROVE AttemptInv'
<1>0. /\ last \in [exit : Exits \cup {"none"}, session : Int, report : Reports]
      /\ attempt \in Nat /\ round \in Nat /\ first \in Int
  BY DEF AttemptInv, Typed
<1>1. /\ phase = "settled" /\ kind = "repair" /\ elapsed' = 0
      /\ UNCHANGED <<call, attempt, kind, proc, last, first, records, leftovers, spawns>>
  BY DEF RepairCounted
<1>2. \/ last.exit = "ok" /\ phase' = "validate" /\ round' = round + 1
      \/ phase' = "done" /\ UNCHANGED round
  BY DEF RepairCounted, Finish
<1>3. CASE phase' = "done" /\ UNCHANGED round
  BY <1>0, <1>1, <1>3, DoneKeeps
<1>4. CASE last.exit = "ok" /\ phase' = "validate" /\ round' = round + 1
  <2>1. Typed'
    BY <1>0, <1>1, <1>4 DEF AttemptInv, Typed
  <2>2. Clock'
    BY <1>4 DEF Clock
  <2>3. LeftBehind'
    BY <1>1, <1>4 DEF AttemptInv, LeftBehind, Alive
  <2>4. attempt + round + 1 = attempt + round'
    BY <1>0, <1>4
  <2>5. Naming'
    BY <1>1, <1>4, <2>4 DEF AttemptInv, Naming, Alive, LeftoversRecorded
  <2> QED
    BY <2>1, <2>2, <2>3, <2>5 DEF AttemptInv
<1> QED
  BY <1>2, <1>3, <1>4

(* Every step keeps the invariant.                                         *)
LEMMA AttemptInvNext == AttemptInv /\ [Next]_vars => AttemptInv'
<1> SUFFICES ASSUME AttemptInv, [Next]_vars PROVE AttemptInv'
  OBVIOUS
<1>0. /\ elapsed \in Nat /\ attempt \in Nat /\ round \in Nat /\ first \in Int
      /\ last \in [exit : Exits \cup {"none"}, session : Int, report : Reports]
  BY DEF AttemptInv, Typed
<1>1. CASE UNCHANGED vars
  BY <1>1 DEF vars, AttemptInv, Typed, Clock, LeftBehind, Naming, Alive, LeftoversRecorded,
              NeverReattached
<1>2. CASE LoopStops \/ AnswerValid \/ AnswerRejected
  BY <1>0, <1>2, DoneKeeps DEF LoopStops, AnswerValid, AnswerRejected, Finish
<1> QED
  BY <1>1, <1>2, StartKeeps, RunningSteps, ExitKeeps, SweptKeeps, RerunKeeps, CountedKeeps,
     RepairCountedKeeps, RepairKeeps DEF Next

(* The invariant holds throughout.                                         *)
LEMMA AttemptInvariant == Spec => []AttemptInv
BY AttemptInvInit, AttemptInvNext, PTL DEF Spec

-----------------------------------------------------------------------------
(* One deadline per logical attempt, whatever the rerun of a dead resume    *)
(* has used of it: execute() and runAttempt() pass what is left.            *)
THEOREM AttemptOneDeadline == Spec => []OneDeadline
<1>1. AttemptInv => OneDeadline
  BY DEF AttemptInv, Clock, OneDeadline
<1> QED
  BY <1>1, AttemptInvariant, PTL

(* A worker whose descendants were never proved gone keeps the record that  *)
(* stop and recovery find it by, through all later attempts and repairs.    *)
THEOREM AttemptLeftoversRecorded == Spec => []LeftoversRecorded
<1>1. AttemptInv => LeftoversRecorded
  BY DEF AttemptInv, Naming
<1> QED
  BY <1>1, AttemptInvariant, PTL

(* No retry, rerun or repair is spawned beside what the attempt before it   *)
(* left behind, except after a resume that never reattached.                *)
THEOREM AttemptRetriesSwept == Spec => RetryOnlyWhenSwept
<1>1. AttemptInv /\ [Next]_vars =>
        [spawns' # spawns /\ ~NeverReattached => proc.id \notin leftovers]_vars
  <2> SUFFICES ASSUME AttemptInv, Next, spawns' # spawns, ~NeverReattached
               PROVE  proc.id \notin leftovers
    BY DEF vars
  <2>1. CASE StartAttempt \/ Repair
    BY <2>1 DEF StartAttempt, Repair, AttemptInv, LeftBehind
  <2>2. CASE Rerun
    BY <2>2 DEF Rerun, DeadResume, NeverReattached
  <2>3. StartAttempt \/ Repair \/ Rerun
    BY DEF Next, LoopStops, Announce, ReportUsage, Tick, TimeOut, Stall, Abort, ChildExits, Swept,
           AttemptCounted, RepairCounted, AnswerValid, AnswerRejected
  <2> QED
    BY <2>1, <2>2, <2>3
<1> QED
  BY <1>1, AttemptInvariant, PTL DEF Spec, RetryOnlyWhenSwept

-----------------------------------------------------------------------------
(* The usage of a call. *)

\* Every non-empty set of positions has a last one.
LEMMA LastPosition ==
  ASSUME NEW n \in Nat, NEW S \in SUBSET (1 .. n), S # {}
  PROVE  \E m \in S : \A x \in S : x <= m
<1> DEFINE R == OpToRel(<, Nat)
           T == {n - x : x \in S}
<1>1. IsWellFoundedOn(R, Nat)
  BY NatLessThanWellFounded
<1>2. T \in SUBSET Nat /\ T # {}
  <2>1. \A x \in S : n - x \in Nat
    OBVIOUS
  <2> QED
    BY <2>1
<1>3. \A x, y \in T : x < y => <<x, y>> \in R
  BY <1>2 DEF OpToRel
<1>4. PICK t \in T : \A x \in T : <<x, t>> \notin R
  <2> HIDE DEF R, T
  <2> QED
    BY <1>1, <1>2, WFMin
<1>5. PICK m \in S : t = n - m
  BY <1>4
<1>6. ASSUME NEW x \in S
      PROVE  x <= m
  <2>1. n - x \in T /\ ~(n - x < t)
    <3> HIDE DEF R
    <3> QED
      BY <1>3, <1>4
  <2> QED
    BY <1>5, <2>1
<1> QED
  BY <1>6

\* A report is a thread total or the attempt's own, as the backend reports.
ReportsAs(r) == (r.report = "thread" => call.cumulative) /\ (r.report = "own" => ~call.cumulative)

\* The inductive invariant of the usage reports.
UsageInv ==
  /\ usages \in Seq([exit : Exits \cup {"none"}, session : Int, report : Reports])
  /\ ReportsAs(proc) /\ ReportsAs(last)
  /\ \A i \in DOMAIN usages : ReportsAs(usages[i])

\* The attempt that counts for attempt j: the last thread total of its session from j on, or j.
LEMMA CountedByOne ==
  ASSUME UsageInv
  PROVE  UsageCountedOnce
<1> SUFFICES ASSUME NEW j \in DOMAIN usages
             PROVE  Cardinality({i \in DOMAIN usages : Contributes(i) /\ j \in StandsFor(i)}) = 1
  BY DEF UsageCountedOnce
<1> DEFINE n == Len(usages)
           Same(i) == usages[i].session = usages[j].session
           Later == {i \in DOMAIN usages : IsCumulative(i) /\ Same(i) /\ i >= j}
           Counts(i) == Contributes(i) /\ j \in StandsFor(i)
<1>1. n \in Nat /\ DOMAIN usages = 1 .. n
  BY DEF UsageInv
<1>2. \A i \in DOMAIN usages : usages[i].report \in {"none", "own", "thread"}
  <2> DEFINE R == [exit : Exits \cup {"none"}, session : Int, report : Reports]
  <2>1. usages \in Seq(R)
    BY DEF UsageInv
  <2>2. \A r \in R : r.report \in {"none", "own", "thread"}
    BY DEF Reports
  <2> HIDE DEF R
  <2>3. \A i \in 1 .. Len(usages) : usages[i] \in R
    BY <2>1
  <2> QED
    BY <1>1, <2>2, <2>3
<1> HIDE DEF n
<1>3. \E w \in DOMAIN usages : \A i \in DOMAIN usages : Counts(i) <=> i = w
  <2>1. CASE Later = {}
    <3>1. ~CoveredLater(j)
      BY <1>1, <2>1 DEF CoveredLater
    <3>2. Counts(j)
      BY <1>1, <3>1 DEF Contributes, StandsFor
    <3>3. ASSUME NEW i \in DOMAIN usages, Counts(i), i # j
          PROVE  FALSE
      <4>1. IsCumulative(i) /\ j \in 1 .. i /\ Same(i)
        BY <3>3 DEF StandsFor
      <4> QED
        BY <1>1, <2>1, <4>1
    <3> QED
      BY <3>2, <3>3
  <2>2. CASE Later # {}
    <3>1. PICK w \in Later : \A x \in Later : x <= w
      <4>1. Later \in SUBSET (1 .. n)
        BY <1>1
      <4> HIDE DEF Later
      <4> QED
        BY <1>1, <2>2, <4>1, LastPosition
    <3>2. w \in 1 .. n /\ j \in 1 .. n /\ IsCumulative(w) /\ Same(w) /\ j <= w
      BY <1>1
    <3>3. ~CoveredLater(w)
      <4> SUFFICES ASSUME NEW k \in DOMAIN usages, k > w, IsCumulative(k),
          usages[k].session = usages[w].session
                   PROVE  FALSE
        BY DEF CoveredLater
      <4>1. k \in Later
        BY <1>1, <3>2
      <4> QED
        BY <1>1, <3>1, <3>2, <4>1
    <3>4. Counts(w)
      BY <3>2, <3>3 DEF Contributes, StandsFor
    <3>5. ASSUME NEW i \in DOMAIN usages, Counts(i), i # w
          PROVE  FALSE
      <4>1. CASE IsCumulative(i)
        <5>1. j \in 1 .. i /\ Same(i)
          BY <3>5, <4>1 DEF StandsFor
        <5>2. i \in Later
          BY <1>1, <4>1, <5>1
        <5>3. i < w
          BY <1>1, <3>1, <3>2, <3>5, <5>2
        <5>4. CoveredLater(i)
          BY <1>1, <3>2, <5>1, <5>3 DEF CoveredLater
        <5> QED
          BY <3>5, <4>1, <5>4 DEF Contributes
      <4>2. CASE ~IsCumulative(i)
        <5>1. i = j /\ i < w
          BY <1>1, <3>2, <3>5, <4>2 DEF StandsFor
        <5>2. CoveredLater(i)
          BY <1>1, <3>2, <5>1 DEF CoveredLater
        <5>3. usages[i].report # "none"
          BY <3>5, <5>2 DEF Contributes
        <5>4. call.cumulative /\ usages[i].session # 0
          BY <1>1, <3>2, <5>1 DEF UsageInv, ReportsAs, IsCumulative
        <5>5. usages[i].report # "own"
          BY <1>1, <5>4 DEF UsageInv, ReportsAs
        <5>6. usages[i].report = "thread"
          BY <1>2, <5>3, <5>5
        <5> QED
          BY <4>2, <5>4, <5>6 DEF IsCumulative
      <4> QED
        BY <4>1, <4>2
    <3> QED
      BY <1>1, <3>2, <3>4, <3>5
  <2> QED
    BY <2>1, <2>2
<1>4. PICK w \in DOMAIN usages : \A i \in DOMAIN usages : Counts(i) <=> i = w
  BY <1>3
<1>5. {i \in DOMAIN usages : Counts(i)} = {w}
  <2> HIDE DEF Counts
  <2> QED
    BY <1>4
<1> QED
  BY <1>5, FS_Singleton

\* Reports come from ReportUsage alone, and are handed on unchanged.
LEMMA UsageSteps ==
  ASSUME AttemptInv, UsageInv, [Next]_vars
  PROVE  UsageInv'
<1> DEFINE R == [exit : Exits \cup {"none"}, session : Int, report : Reports]
<1>0. last \in R /\ usages \in Seq(R) /\ ReportsAs(proc) /\ ReportsAs(last) /\ proc \in WorkerTypes
      /\ \A i \in DOMAIN usages : ReportsAs(usages[i])
  BY DEF AttemptInv, Typed, UsageInv
<1>1. ASSUME UNCHANGED <<call, usages, last>>, proc'.report = proc.report \/ proc'.report = "none"
      PROVE  UsageInv'
  BY <1>0, <1>1 DEF UsageInv, ReportsAs
<1>2. ASSUME UNCHANGED <<call, proc>>, NEW r \in R, r.report = last.report, usages' = Append(usages, r),
             last' = r \/ UNCHANGED last
      PROVE  UsageInv'
  <2>1. ReportsAs(r)
    BY <1>0, <1>2 DEF ReportsAs
  <2>2. usages' \in Seq(R) /\ Len(usages') = Len(usages) + 1 /\ Len(usages) \in Nat
        /\ DOMAIN usages' = 1 .. Len(usages')
        /\ \A i \in 1 .. Len(usages') : usages'[i] = IF i = Len(usages) + 1 THEN r ELSE usages[i]
    BY <1>0, <1>2
  <2>3. \A i \in DOMAIN usages' : ReportsAs(usages'[i])
    <3> SUFFICES ASSUME NEW i \in DOMAIN usages' PROVE ReportsAs(usages'[i])
      OBVIOUS
    <3>1. CASE i = Len(usages) + 1
      BY <2>1, <2>2, <3>1
    <3>2. CASE i # Len(usages) + 1
      <4>1. i \in DOMAIN usages
        BY <1>0, <2>2, <3>2
      <4> QED
        BY <1>0, <2>2, <3>2, <4>1
    <3> QED
      BY <3>1, <3>2
  <2>4. (\A i \in DOMAIN usages : ReportsAs(usages[i]))'
    BY <1>2, <2>3 DEF ReportsAs
  <2>5. ReportsAs(proc)' /\ ReportsAs(last)'
    BY <1>0, <1>2, <2>1 DEF ReportsAs
  <2> QED
    BY <2>2, <2>4, <2>5 DEF UsageInv
<1>3. CASE \/ LoopStops \/ Tick \/ Abort \/ AnswerValid \/ AnswerRejected
           \/ ChildExits \/ Stall \/ TimeOut \/ Announce
  <2>1. UNCHANGED <<call, usages, last>> /\ proc'.report = proc.report
    BY <1>0, <1>3 DEF LoopStops, Tick, Abort, AnswerValid, AnswerRejected, ChildExits, Stall,
        TimeOut,
       Announce, Finish, WorkerTypes
  <2> QED
    BY <1>1, <2>1
<1>4. CASE StartAttempt \/ Rerun \/ Repair
  <2>1. UNCHANGED <<call, usages, last>>
    BY <1>4 DEF StartAttempt, Rerun, Repair
  <2>2. \E k, ordinal, suffix, session : Spawn(k, ordinal, suffix, session)
    BY <1>4 DEF StartAttempt, Rerun, Repair
  <2>3. proc'.report = "none"
    BY <2>2 DEF Spawn, NoProc
  <2> QED
    BY <1>1, <2>1, <2>3
<1>5. CASE ReportUsage
  <2>1. UNCHANGED <<call, usages, last>> /\ proc'.report = IF call.cumulative THEN "thread" ELSE "own"
    BY <1>0, <1>5 DEF ReportUsage, WorkerTypes
  <2> QED
    BY <1>0, <2>1 DEF UsageInv, ReportsAs
<1>6. CASE Swept
  <2>1. UNCHANGED <<call, usages>> /\ last'.report = proc.report /\ proc'.report = proc.report
    BY <1>0, <1>6 DEF Swept, WorkerTypes
  <2> QED
    BY <1>0, <2>1 DEF UsageInv, ReportsAs
<1>7. CASE AttemptCounted
  <2>1. Counted \in R /\ Counted.report = last.report
    BY <1>0 DEF Counted, Exits
  <2>2. UNCHANGED <<call, proc>> /\ usages' = Append(usages, Counted) /\ last' = Counted
    BY <1>7 DEF AttemptCounted
  <2> QED
    BY <1>2, <2>1, <2>2
<1>8. CASE RepairCounted
  <2>1. UNCHANGED <<call, proc, last>> /\ usages' = Append(usages, last)
    BY <1>8 DEF RepairCounted
  <2> QED
    BY <1>0, <1>2, <2>1
<1>9. CASE UNCHANGED vars
  BY <1>1, <1>9 DEF vars
<1> QED
  BY <1>3, <1>4, <1>5, <1>6, <1>7, <1>8, <1>9 DEF Next

\* mergedUsage() counts the tokens of every attempt once, none twice through a thread
\* total and none dropped, for any number of attempts and any sessions.
THEOREM AttemptUsageOnce == Spec => []UsageCountedOnce
<1>1. Init => UsageInv
  <2> SUFFICES ASSUME Init PROVE UsageInv
    OBVIOUS
  <2>1. usages = <<>> /\ proc.report = "none" /\ last.report = "none"
    BY DEF Init, NoProc, NoResult
  <2> QED
    BY <2>1 DEF UsageInv, ReportsAs
<1>2. AttemptInv /\ UsageInv /\ [Next]_vars => UsageInv'
  BY UsageSteps
<1>3. UsageInv => UsageCountedOnce
  BY CountedByOne
<1> QED
  BY <1>1, <1>2, <1>3, AttemptInvariant, PTL DEF Spec

-----------------------------------------------------------------------------
(* The processes of an attempt. *)

(***************************************************************************)
(* A pass misses a process only if the process was forked after the        *)
(* listing, so a sweep that was fooled by every one of its empty passes    *)
(* met as many forks.                                                      *)
(***************************************************************************)
FewForks == SweepForks < PassesNeeded

\* The states of a sweep.
Sweeps == [by : {"none", "runner", "stop"}, signal : {"TERM", "KILL"}, scanning : BOOLEAN,
           todo : SUBSET Procs, found : SUBSET Procs, prior : SUBSET Procs,
           empty : Nat, pass : Nat, proof : BOOLEAN, hit : SUBSET Procs]

\* What the argument needs to know of the types.
CleanupTypes ==
  /\ platform \in {"linux", "darwin"}
  /\ tree \in [Procs -> ProcStates]
  /\ forks \in Nat /\ forks <= SweepForks
  /\ latched \in SUBSET Procs
  /\ sweep \in Sweeps

\* Empty passes of a sweep under way, while a worker lives.
Fooled ==
  /\ sweep.empty # 0 \/ sweep.scanning => sweep.by # "none"
  /\ platform = "linux" /\ Live # {} => sweep.empty <= forks
  /\ platform = "linux" /\ sweep.scanning /\ sweep.found = {} /\ Live \ sweep.todo # {} =>
       sweep.empty < forks

\* The record is there as long as the runner may have a worker.
Recorded ==
  /\ runner \in {"idle", "recorded"} => Live = {}
  /\ runner \notin {"idle", "settled", "gone"} => record # "none"
  /\ sweep.by = "stop" => runner = "gone"
  /\ sweep.by = "runner" => runner = "exited"
  /\ status = "stopped" => runner = "gone"

\* The inductive invariant of the cleanup.
CleanupInv == CleanupTypes /\ Fooled /\ Recorded /\ RecordCoversWorkers /\ SettledMeansGone

\* Processes that exit, leave the group or are killed.
LEMMA Wane ==
  ASSUME CleanupTypes, tree' \in [Procs -> ProcStates], UNCHANGED platform,
         \A p \in Procs : tree'[p] \in {tree[p], "dead"} \/ (tree[p] = "grouped" /\ tree'[p] = "escaped")
  PROVE  Live' \subseteq Live /\ Group' \subseteq Group /\ (Reach = {} => Reach' = {})
BY DEF CleanupTypes, Live, Group, Reach

\* Signals only kill.
LEMMA KilledWane ==
  ASSUME CleanupTypes, NEW targets, NEW survivors, tree' = Killed(targets, survivors),
         UNCHANGED platform
  PROVE  /\ tree' \in [Procs -> ProcStates]
         /\ Live' \subseteq Live /\ Group' \subseteq Group /\ (Reach = {} => Reach' = {})
<1>1. \A p \in Procs : tree'[p] \in {tree[p], "dead"}
  BY DEF Killed
<1>2. tree' \in [Procs -> ProcStates]
  BY DEF Killed, CleanupTypes, ProcStates
<1> QED
  BY <1>1, <1>2, Wane

\* A step of the workers alone, which adds none.
LEMMA WaneKeeps ==
  ASSUME CleanupInv, tree' \in [Procs -> ProcStates],
         Live' \subseteq Live, Reach = {} => Reach' = {},
         latched' \in SUBSET Procs,
         UNCHANGED <<platform, forks, runner, record, sweep, status>>
  PROVE  CleanupInv'
<1>1. CleanupTypes'
  BY DEF CleanupInv, CleanupTypes
<1>2. Fooled'
  BY DEF CleanupInv, Fooled
<1>3. Recorded'
  BY DEF CleanupInv, Recorded
<1>4. RecordCoversWorkers' /\ SettledMeansGone'
  BY DEF CleanupInv, RecordCoversWorkers, SettledMeansGone
<1> QED
  BY <1>1, <1>2, <1>3, <1>4 DEF CleanupInv

\* A fork is seen, or it spends one of those that a sweep may meet.
LEMMA ForkKeeps ==
  ASSUME CleanupInv, NEW p \in Procs, NEW q \in Procs, Fork(p, q)
  PROVE  CleanupInv'
<1>0. /\ p \in Live /\ tree[q] = "unborn" /\ tree' = [tree EXCEPT ![q] = tree[p]]
      /\ UNCHANGED <<platform, runner, record, sweep, status, latched>>
      /\ forks' = IF Sweeping THEN forks + 1 ELSE forks
      /\ Sweeping => forks < SweepForks
  BY DEF Fork
<1>1. CleanupTypes'
  <2>1. tree' \in [Procs -> ProcStates]
    BY <1>0 DEF CleanupInv, CleanupTypes
  <2>2. forks' \in Nat /\ forks' <= SweepForks
    BY <1>0, CleanupAssumption DEF CleanupInv, CleanupTypes
  <2> QED
    BY <1>0, <2>1, <2>2 DEF CleanupInv, CleanupTypes
<1>2. Fooled'
  <2>1. CASE Sweeping
    <3>1. forks \in Nat /\ forks' = forks + 1 /\ sweep.empty \in Nat
      BY <1>0, <2>1 DEF CleanupInv, CleanupTypes, Sweeps
    <3>2. platform = "linux" => sweep.empty <= forks
      BY <1>0 DEF CleanupInv, Fooled
    <3> QED
      BY <1>0, <3>1, <3>2 DEF CleanupInv, Fooled
  <2>2. CASE ~Sweeping
    <3>1. sweep.empty = 0 /\ ~sweep.scanning /\ forks' \in Nat
      BY <1>1, <2>2 DEF CleanupInv, Fooled, Sweeping, CleanupTypes
    <3> QED
      BY <1>0, <3>1 DEF Fooled
  <2> QED
    BY <2>1, <2>2
<1>3. Recorded'
  BY <1>0 DEF CleanupInv, Recorded
<1>4. Reach = {} => Reach' = {}
  BY <1>0 DEF Reach, Live, Group, CleanupInv, CleanupTypes
<1>5. RecordCoversWorkers' /\ SettledMeansGone'
  BY <1>0, <1>4 DEF CleanupInv, RecordCoversWorkers, SettledMeansGone
<1> QED
  BY <1>1, <1>2, <1>3, <1>5 DEF CleanupInv

\* The workers and their exits.
LEMMA WorkerSteps ==
  ASSUME CleanupInv,
         \/ \E p, q \in Procs : Fork(p, q)
         \/ \E p \in Procs : LeaveGroup(p) \/ Exit(p)
         \/ ReusePgid \/ KillTree
  PROVE  CleanupInv'
<1>0. CleanupTypes
  BY DEF CleanupInv
<1>1. ASSUME NEW p \in Procs, LeaveGroup(p) \/ Exit(p)
      PROVE  CleanupInv'
  <2>1. UNCHANGED <<platform, forks, runner, record, sweep, status, latched>>
    BY <1>1 DEF LeaveGroup, Exit
  <2>4. latched \in SUBSET Procs
    BY <1>0 DEF CleanupTypes
  <2>2. tree' \in [Procs -> ProcStates]
    BY <1>0, <1>1 DEF LeaveGroup, Exit, CleanupTypes, ProcStates
  <2>3. \A i \in Procs : tree'[i] \in {tree[i], "dead"} \/ (tree[i] = "grouped" /\ tree'[i] = "escaped")
    BY <1>0, <1>1 DEF LeaveGroup, Exit, CleanupTypes, Group
  <2> QED
    BY <1>0, <2>1, <2>2, <2>3, <2>4, Wane, WaneKeeps
<1>2. CASE ReusePgid
  <2>1. UNCHANGED <<platform, tree, forks, runner, record, sweep, status, latched>>
    BY <1>2 DEF ReusePgid
  <2>2. Live' = Live /\ Reach' = Reach
    BY <2>1 DEF Live, Reach, Group
  <2>3. tree' \in [Procs -> ProcStates] /\ latched' \in SUBSET Procs
    BY <1>0, <2>1 DEF CleanupTypes
  <2> QED
    BY <2>1, <2>2, <2>3, WaneKeeps
<1>3. CASE KillTree
  <2>1. PICK targets, survivors : tree' = Killed(targets, survivors)
    BY <1>3 DEF KillTree
  <2>2. UNCHANGED <<platform, forks, runner, record, sweep, status>>
    BY <1>3 DEF KillTree
  <2>3. latched' \in SUBSET Procs
    BY <1>0, <1>3, <2>2 DEF KillTree, CleanupTypes, Live
  <2> QED
    BY <1>0, <2>1, <2>2, <2>3, KilledWane, WaneKeeps
<1> QED
  BY <1>1, <1>2, <1>3, ForkKeeps

\* The runner before the sweep, and where it gives up.
LEMMA RunnerSteps ==
  ASSUME CleanupInv, WriteToken \/ SpawnLeader \/ SpawnFails \/ EnrichRecord \/ ExitReported
  PROVE  CleanupInv'
<1>0. CleanupTypes /\ Fooled /\ Recorded /\ UNCHANGED <<platform, forks, status, latched>>
  BY DEF CleanupInv, WriteToken, SpawnLeader, SpawnFails, EnrichRecord, ExitReported, treeVars
<1>1. CASE WriteToken \/ SpawnFails \/ EnrichRecord
  <2>1. UNCHANGED <<tree, sweep>>
    BY <1>1 DEF WriteToken, SpawnFails, EnrichRecord, treeVars
  <2>2. Live' = Live /\ Reach' = Reach
    BY <1>0, <2>1 DEF Live, Reach, Group
  <2>3. CleanupTypes' /\ Fooled'
    BY <1>0, <2>1, <2>2 DEF CleanupTypes, Fooled
  <2>4. runner \in {"idle", "recorded"} => Reach = {}
    BY <1>0 DEF Recorded, Reach, Live, Group
  <2>5. Recorded'
    BY <1>0, <1>1, <2>1, <2>2 DEF Recorded, WriteToken, SpawnFails, EnrichRecord,
        RecordBeforeSpawn
  <2>6. RecordCoversWorkers'
    BY <1>1, <2>2, <2>4 DEF CleanupInv, RecordCoversWorkers, WriteToken, SpawnFails, EnrichRecord
  <2>7. SettledMeansGone'
    BY <1>0, <1>1, <2>2, <2>4 DEF CleanupInv, SettledMeansGone, WriteToken, SpawnFails,
        EnrichRecord
  <2> QED
    BY <2>3, <2>5, <2>6, <2>7 DEF CleanupInv
<1>2. CASE SpawnLeader
  <2>1. /\ UNCHANGED <<sweep, record>> /\ runner = "recorded" /\ runner' = "spawned"
        /\ tree' = [tree EXCEPT ![Leader] = "grouped"]
    BY <1>2 DEF SpawnLeader
  <2>2. sweep.by = "none" \/ sweep.by \notin {"runner", "stop"}
    BY <1>0, <2>1 DEF Recorded
  <2>3. sweep.by = "none" /\ sweep.empty = 0 /\ ~sweep.scanning
    BY <1>0, <2>2 DEF CleanupTypes, Sweeps, Fooled
  <2>4. CleanupTypes'
    BY <1>0, <2>1 DEF CleanupTypes, ProcStates
  <2>5. Fooled'
    BY <1>0, <2>1, <2>3 DEF Fooled, CleanupTypes
  <2>6. record # "none" /\ status # "stopped"
    BY <1>0, <2>1 DEF Recorded
  <2>7. Recorded' /\ RecordCoversWorkers' /\ SettledMeansGone'
    BY <1>0, <2>1, <2>3, <2>6 DEF Recorded, RecordCoversWorkers, SettledMeansGone
  <2> QED
    BY <2>4, <2>5, <2>7 DEF CleanupInv
<1>3. CASE ExitReported
  <2>1. /\ UNCHANGED <<tree, record>> /\ runner = "running" /\ runner' = "exited"
        /\ sweep' = Begin("runner", "TERM")
    BY <1>3 DEF ExitReported, treeVars
  <2>2. Live' = Live /\ Reach' = Reach
    BY <1>0, <2>1 DEF Live, Reach, Group
  <2>3. sweep' = [by |-> "runner", signal |-> "TERM", scanning |-> FALSE, todo |-> {}, found |-> {},
                  prior |-> {}, empty |-> 0, pass |-> 0, proof |-> FALSE, hit |-> {}]
    BY <2>1 DEF Begin, NoSweep
  <2>3a. sweep' \in Sweeps
    BY <2>3 DEF Sweeps
  <2>4. CleanupTypes'
    BY <1>0, <2>1, <2>3a DEF CleanupTypes
  <2>5. Fooled'
    BY <1>0, <2>2, <2>3 DEF Fooled, CleanupTypes
  <2>6. Recorded'
    BY <1>0, <2>1, <2>3 DEF Recorded
  <2>7. RecordCoversWorkers' /\ SettledMeansGone'
    BY <1>0, <2>1, <2>2 DEF CleanupInv, Recorded, RecordCoversWorkers, SettledMeansGone
  <2> QED
    BY <2>4, <2>5, <2>6, <2>7 DEF CleanupInv
<1> QED
  BY <1>1, <1>2, <1>3

\* A pass lists what lives; a worker it does not list was forked later.
LEMMA ScanSteps ==
  ASSUME CleanupInv, ListProcesses \/ \E p \in Procs : Inspect(p)
  PROVE  CleanupInv'
<1>0. /\ CleanupTypes /\ Fooled /\ Recorded
      /\ UNCHANGED <<platform, tree, forks, runner, record, status, latched>>
  BY DEF CleanupInv, ListProcesses, Inspect, treeVars
<1>1. Live' = Live /\ Reach' = Reach /\ Live \subseteq Procs
  BY <1>0 DEF Live, Reach, Group
<1>2. CASE ListProcesses
  <2> DEFINE todo == IF platform = "linux" THEN Live ELSE {}
             s == [sweep EXCEPT !.scanning = TRUE, !.todo = todo, !.found = {}, !.prior = latched]
  <2>1. sweep' = s /\ sweep.by # "none"
    BY <1>2 DEF ListProcesses, Sweeping
  <2>2. todo \in SUBSET Procs /\ (platform = "linux" => Live \ todo = {})
    BY <1>1
  <2> HIDE DEF todo
  <2>3. s \in Sweeps /\ s.empty = sweep.empty /\ s.by = sweep.by /\ s.todo = todo
    BY <1>0, <2>2 DEF CleanupTypes, Sweeps
  <2> HIDE DEF s
  <2>4. CleanupTypes'
    BY <1>0, <2>1, <2>3 DEF CleanupTypes
  <2>5. Fooled'
    BY <1>0, <1>1, <2>1, <2>2, <2>3 DEF Fooled
  <2>6. Recorded'
    BY <1>0, <1>1, <2>1, <2>3 DEF Recorded
  <2> QED
    BY <1>0, <1>1, <2>4, <2>5, <2>6 DEF CleanupInv, RecordCoversWorkers, SettledMeansGone
<1>3. ASSUME NEW p \in Procs, Inspect(p)
      PROVE  CleanupInv'
  <2> DEFINE found == IF p \in Live THEN sweep.found \cup {p} ELSE sweep.found
             todo == sweep.todo \ {p}
             s == [sweep EXCEPT !.todo = todo, !.found = found]
  <2>1. sweep' = s /\ sweep.scanning /\ sweep.todo \in SUBSET Procs /\ sweep.found \in SUBSET Procs
    BY <1>0, <1>3 DEF Inspect, CleanupTypes, Sweeps
  <2>2. /\ todo \in SUBSET Procs /\ found \in SUBSET Procs
        /\ found = {} => sweep.found = {} /\ Live \ todo = Live \ sweep.todo
    BY <2>1
  <2> HIDE DEF todo, found
  <2>3. /\ s \in Sweeps /\ s.empty = sweep.empty /\ s.by = sweep.by /\ s.todo = todo /\ s.found = found
        /\ s.scanning
    BY <1>0, <2>1, <2>2 DEF CleanupTypes, Sweeps
  <2> HIDE DEF s
  <2>4. CleanupTypes'
    BY <1>0, <2>1, <2>3 DEF CleanupTypes
  <2>5. Fooled'
    BY <1>0, <1>1, <2>1, <2>2, <2>3 DEF Fooled
  <2>6. Recorded'
    BY <1>0, <1>1, <2>1, <2>3 DEF Recorded
  <2> QED
    BY <1>0, <1>1, <2>4, <2>5, <2>6 DEF CleanupInv, RecordCoversWorkers, SettledMeansGone
<1> QED
  BY <1>2, <1>3

\* What a sweep makes of a pass: it is over, or it goes on, no more fooled than it was.
Moves(emptied) ==
  \/ sweep' = NoSweep
  \/ sweep.by = "runner" /\ \E signal \in {"TERM", "KILL"} : sweep' = Begin("runner", signal)
  \/ /\ sweep' \in Sweeps /\ sweep'.by = sweep.by /\ ~sweep'.scanning /\ sweep'.empty = emptied
     /\ emptied # 0 => (platform = "linux" => sweep.found = {})

\* The sweep after a pass.
LEMMA PassTyped ==
  ASSUME sweep \in Sweeps, NEW emptied \in Nat
  PROVE  LET n == NextPass(emptied) IN
           n \in Sweeps /\ n.by = sweep.by /\ ~n.scanning /\ n.empty = emptied
<1> DEFINE proof == sweep.proof \/ sweep.pass + 1 >= MaxPasses
           pass == sweep.pass + 1
<1>1. proof \in BOOLEAN /\ pass \in Nat
  BY DEF Sweeps
<1>2. NextPass(emptied) = [sweep EXCEPT !.scanning = FALSE, !.todo = {}, !.found = {}, !.prior = {},
                                        !.empty = emptied, !.pass = pass, !.proof = proof]
  BY DEF NextPass, Sweeps
<1> HIDE DEF proof, pass
<1> QED
  BY <1>1, <1>2 DEF Sweeps

\* A pass that saw nothing had everything looked at: what lives then was forked since.
LEMMA PassFooled ==
  ASSUME CleanupTypes, Fooled, PassDone, platform = "linux", sweep.found = {}, Live # {}
  PROVE  sweep.empty + 1 <= forks
BY DEF CleanupTypes, Sweeps, Fooled, PassDone

\* The end of a pass.
LEMMA PassKeeps ==
  ASSUME CleanupTypes, Fooled, PassDone, Live' \subseteq Live, UNCHANGED <<platform, forks>>,
         NEW emptied, emptied \in {0, sweep.empty + 1}, Moves(emptied)
  PROVE  Fooled' /\ sweep' \in Sweeps
<1>1. /\ NoSweep \in Sweeps /\ NoSweep.empty = 0 /\ ~NoSweep.scanning
      /\ \A signal \in {"TERM", "KILL"} :
           LET b == Begin("runner", signal) IN b \in Sweeps /\ b.empty = 0 /\ ~b.scanning
  BY DEF NoSweep, Begin, Sweeps
<1>2. sweep' \in Sweeps
  BY <1>1 DEF Moves
<1>3. ~sweep'.scanning /\ sweep'.empty \in {0, emptied}
  BY <1>1 DEF Moves
<1>4. sweep'.empty # 0 => sweep'.by # "none"
  BY <1>1 DEF Moves, Fooled, PassDone
<1>5. platform = "linux" /\ Live' # {} => sweep'.empty <= forks
  <2> SUFFICES ASSUME platform = "linux", Live' # {}, sweep'.empty # 0
               PROVE  sweep'.empty <= forks
    BY DEF CleanupTypes
  <2>1. sweep'.empty = emptied /\ emptied = sweep.empty + 1 /\ sweep.found = {}
    BY <1>1, <1>3 DEF Moves
  <2> QED
    BY <2>1, PassFooled
<1> QED
  BY <1>2, <1>3, <1>4, <1>5 DEF Fooled

\* The sweep of the runner: a proof takes as many empty passes as there are forks to fool it.
LEMMA RunnerPassKeeps ==
  ASSUME FewForks, CleanupInv, RunnerPass
  PROVE  CleanupInv'
<1>0. /\ CleanupTypes /\ Fooled /\ Recorded /\ sweep.by = "runner" /\ PassDone /\ runner = "exited"
      /\ record # "none" /\ UNCHANGED <<platform, reused, forks, status>>
  BY DEF CleanupInv, Recorded, RunnerPass
<1> DEFINE known == IF platform = "linux" THEN latched \cup sweep.found ELSE {}
             group == MaySignalGroup
             fresh == known \cap Live
             outside == IF group THEN fresh \ Group ELSE fresh
             single == IF sweep.signal = "KILL" THEN outside ELSE outside \cap sweep.prior
             targets == single \cup (IF group THEN Group ELSE {})
             absent == (\A p \in Procs : tree'[p] # "grouped") /\ ~reused
             emptied(complete) ==
               IF \/ platform = "darwin" /\ absent
                  \/ platform = "linux" /\ complete /\ sweep.found = {} /\ fresh = {}
               THEN sweep.empty + 1 ELSE 0
             proved(complete) == emptied(complete) >= PassesNeeded /\ (platform = "linux" => retired')
<1>1. PICK complete \in BOOLEAN : \E survivors \in Survivors(sweep.signal, targets) :
          /\ tree' = Killed(targets, survivors)
          /\ retired' = (retired \/ absent)
          /\ latched' = fresh
          /\ \/ /\ proved(complete)
                /\ runner' = "settled"
                /\ record' = RecordAfter(TRUE)
                /\ sweep' = NoSweep
                /\ cleanups' = 0
             \/ /\ ~proved(complete)
                /\ More(emptied(complete), platform = "linux" => retired')
                /\ sweep' = NextPass(emptied(complete))
                /\ UNCHANGED <<runner, record, cleanups>>
             \/ /\ ~proved(complete)
                /\ ~More(emptied(complete), platform = "linux" => retired')
                /\ sweep.signal = "TERM"
                /\ sweep' = Begin("runner", "KILL")
                /\ UNCHANGED <<runner, record, cleanups>>
             \/ /\ ~proved(complete)
                /\ ~More(emptied(complete), platform = "linux" => retired')
                /\ sweep.signal = "KILL"
                /\ cleanups > 1
                /\ sweep' = Begin("runner", "TERM")
                /\ cleanups' = cleanups - 1
                /\ UNCHANGED <<runner, record>>
             \/ /\ ~proved(complete)
                /\ ~More(emptied(complete), platform = "linux" => retired')
                /\ sweep.signal = "KILL"
                /\ cleanups = 1
                /\ runner' = "unsettled"
                /\ record' = RecordAfter(FALSE)
                /\ sweep' = NoSweep
                /\ cleanups' = 0
    BY DEF RunnerPass
<1>2. PICK survivors :
          /\ tree' = Killed(targets, survivors)
          /\ latched' = fresh
          /\ \/ proved(complete) /\ runner' = "settled" /\ record' = RecordAfter(TRUE) /\ sweep' = NoSweep
             \/ sweep' = NextPass(emptied(complete)) /\ UNCHANGED <<runner, record>>
             \/ /\ \E signal \in {"TERM", "KILL"} : sweep' = Begin("runner", signal)
                /\ UNCHANGED <<runner, record>>
             \/ runner' = "unsettled" /\ record' = RecordAfter(FALSE) /\ sweep' = NoSweep
  <2> HIDE DEF group, fresh, targets, absent, emptied, proved
  <2> QED
      BY <1>1
<1>3. fresh \subseteq Live
  OBVIOUS
<1>4. absent <=> (\A p \in Procs : tree'[p] # "grouped") /\ ~reused
  OBVIOUS
<1>5. /\ emptied(complete) \in {0, sweep.empty + 1}
      /\ emptied(complete) # 0 => /\ platform = "darwin" => absent
                                  /\ platform = "linux" => sweep.found = {}
  BY <1>0 DEF CleanupTypes
<1>6. proved(complete) => emptied(complete) >= PassesNeeded
  OBVIOUS
<1> HIDE DEF known, group, fresh, outside, single, targets, absent, emptied, proved
<1>8. RecordAfter(TRUE) = "none" /\ RecordAfter(FALSE) = record
  BY DEF RecordAfter
<1>9. Live' \subseteq Live /\ Group' \subseteq Group /\ (Reach = {} => Reach' = {})
      /\ tree' \in [Procs -> ProcStates]
  BY <1>0, <1>2, KilledWane
<1>10. Moves(emptied(complete))
  <2>1. ASSUME sweep' = NextPass(emptied(complete))
        PROVE  /\ sweep' \in Sweeps /\ sweep'.by = sweep.by
             /\ ~sweep'.scanning /\ sweep'.empty = emptied(complete)
    <3>1. emptied(complete) \in Nat /\ sweep \in Sweeps
      BY <1>0, <1>5 DEF CleanupTypes, Sweeps
    <3> QED
      BY <2>1, <3>1, PassTyped
  <2> QED
    BY <1>0, <1>2, <1>5, <2>1 DEF Moves
<1>11. Fooled' /\ sweep' \in Sweeps
  BY <1>0, <1>5, <1>9, <1>10, PassKeeps
<1>12. CleanupTypes'
  BY <1>0, <1>2, <1>3, <1>9, <1>11 DEF CleanupTypes, Live
<1>13. proved(complete) => Reach' = {}
  <2> SUFFICES ASSUME proved(complete) PROVE Reach' = {}
    OBVIOUS
  <2>1. emptied(complete) >= 2 /\ emptied(complete) = sweep.empty + 1 /\ sweep.empty \in Nat
    BY <1>0, <1>5, <1>6 DEF PassesNeeded, CleanupTypes, Sweeps
  <2>2. CASE platform = "linux"
    <3>1. Live = {}
      <4>1. sweep.found = {}
        BY <1>5, <2>1, <2>2
      <4>2. Live # {} => sweep.empty + 1 <= forks
        BY <1>0, <2>2, <4>1, PassFooled
      <4> QED
        BY <1>0, <2>1, <4>2, CleanupAssumption DEF CleanupTypes, FewForks, PassesNeeded
    <3> QED
      BY <1>0, <1>9, <2>2, <3>1 DEF Reach
  <2>3. CASE platform = "darwin"
    BY <1>0, <1>4, <1>5, <2>1, <2>3 DEF Reach, Group
  <2> QED
    BY <1>0, <2>2, <2>3 DEF CleanupTypes
<1>14. Recorded'
  <2>1. NoSweep.by = "none" /\ \A signal \in {"TERM", "KILL"} : Begin("runner", signal).by = "runner"
    BY DEF NoSweep, Begin
  <2>2. NextPass(emptied(complete)).by = "runner"
    BY <1>0 DEF NextPass, CleanupTypes, Sweeps
  <2> QED
    BY <1>0, <1>2, <1>8, <2>1, <2>2 DEF Recorded
<1>15. RecordCoversWorkers'
  BY <1>0, <1>2, <1>8, <1>13 DEF RecordCoversWorkers
<1>16. SettledMeansGone'
  BY <1>0, <1>2, <1>13 DEF SettledMeansGone, Recorded
<1> QED
  BY <1>11, <1>12, <1>14, <1>15, <1>16 DEF CleanupInv

\* The runner dies; what it signals before is killed.
LEMMA DeathKeeps ==
  ASSUME CleanupInv, RunnerDies
  PROVE  CleanupInv'
<1>0. /\ CleanupTypes /\ Fooled /\ Recorded /\ runner # "gone" /\ runner' = "gone" /\ latched' = {}
      /\ sweep' = NoSweep /\ UNCHANGED <<platform, forks, record, status>>
  BY DEF CleanupInv, RunnerDies
<1>1. UNCHANGED tree \/ \E targets : tree' = Killed(targets, {})
  BY <1>0 DEF RunnerDies, CleanupTypes
<1>2. /\ Live' \subseteq Live /\ (Reach = {} => Reach' = {})
      /\ tree' \in [Procs -> ProcStates]
  <2>1. CASE UNCHANGED tree
    BY <1>0, <2>1 DEF CleanupTypes, Live, Reach, Group
  <2> QED
    BY <1>0, <1>1, <2>1, KilledWane
<1>3. NoSweep \in Sweeps /\ NoSweep.empty = 0 /\ ~NoSweep.scanning /\ NoSweep.by = "none"
  BY DEF NoSweep, Sweeps
<1>4. CleanupTypes'
  BY <1>0, <1>1, <1>2, <1>3 DEF CleanupTypes
<1>5. Fooled' /\ Recorded'
  BY <1>0, <1>3 DEF CleanupTypes, Fooled, Recorded
<1>6. RecordCoversWorkers' /\ SettledMeansGone'
  BY <1>0, <1>2 DEF CleanupInv, RecordCoversWorkers, SettledMeansGone, Recorded
<1> QED
  BY <1>4, <1>5, <1>6 DEF CleanupInv

\* `ultracode stop` begins, or finds no record.
LEMMA StopBeginsKeeps ==
  ASSUME CleanupInv, StopBegins
  PROVE  CleanupInv'
<1>0. /\ CleanupTypes /\ Fooled /\ Recorded /\ runner = "gone"
      /\ UNCHANGED <<platform, forks, record, runner, latched>>
      /\ \/ record = "none" /\ sweep' = NoSweep /\ status' = "stopped"
         \/ sweep' = Begin("stop", "KILL") /\ UNCHANGED status
      /\ UNCHANGED tree \/ tree' = Killed(Group, {})
  BY DEF CleanupInv, StopBegins
<1>2. /\ Live' \subseteq Live /\ (Reach = {} => Reach' = {})
      /\ tree' \in [Procs -> ProcStates]
  <2>1. CASE UNCHANGED tree
    BY <1>0, <2>1 DEF CleanupTypes, Live, Reach, Group
  <2> QED
    BY <1>0, <2>1, KilledWane
<1>3. /\ NoSweep \in Sweeps /\ NoSweep.empty = 0 /\ ~NoSweep.scanning /\ NoSweep.by = "none"
      /\ Begin("stop", "KILL") \in Sweeps /\ Begin("stop", "KILL").empty = 0
      /\ ~Begin("stop", "KILL").scanning /\ Begin("stop", "KILL").by = "stop"
  BY DEF NoSweep, Begin, Sweeps
<1>4. CleanupTypes'
  BY <1>0, <1>2, <1>3 DEF CleanupTypes
<1>5. Fooled' /\ Recorded'
  BY <1>0, <1>3 DEF CleanupTypes, Fooled, Recorded
<1>6. RecordCoversWorkers' /\ SettledMeansGone'
  BY <1>0, <1>2 DEF CleanupInv, RecordCoversWorkers, SettledMeansGone
<1> QED
  BY <1>4, <1>5, <1>6 DEF CleanupInv

\* The sweep of `ultracode stop`.
LEMMA StopPassKeeps ==
  ASSUME FewForks, CleanupInv, StopPass
  PROVE  CleanupInv'
<1>0. /\ CleanupTypes /\ Fooled /\ Recorded /\ sweep.by = "stop" /\ PassDone /\ runner = "gone"
      /\ UNCHANGED <<platform, reused, forks, record, runner, latched>>
  BY DEF CleanupInv, Recorded, StopPass
<1> DEFINE targets == IF platform = "linux" THEN (sweep.found \cap Live) \ sweep.hit
                      ELSE IF record = "full" /\ tree[Leader] = "grouped" THEN Group ELSE {}
           none == IF platform = "linux" THEN sweep.found = {} ELSE GroupAbsent
           emptied(complete) == IF complete /\ none THEN sweep.empty + 1 ELSE 0
           proved(complete) == emptied(complete) >= PassesNeeded /\ Verifiable
           next(complete) == [NextPass(emptied(complete)) EXCEPT !.hit = sweep.hit \cup targets]
<1>1. PICK complete \in BOOLEAN :
        /\ tree' = Killed(targets, {})
        /\ \/ /\ proved(complete)
              /\ Persist(TRUE)
              /\ sweep' = NoSweep
           \/ /\ ~proved(complete)
              /\ More(emptied(complete), platform = "linux")
              /\ sweep' = next(complete)
              /\ UNCHANGED status
           \/ /\ ~proved(complete)
              /\ ~More(emptied(complete), platform = "linux")
              /\ Persist(FALSE)
              /\ sweep' = NoSweep
  BY DEF StopPass
<1>2. \/ proved(complete) /\ status' = "stopped" /\ sweep' = NoSweep
      \/ UNCHANGED status /\ sweep' = next(complete)
      \/ status' = "cleanup-failed" /\ sweep' = NoSweep
  <2> HIDE DEF targets, none, emptied, proved, next
  <2> QED
    BY <1>1 DEF Persist
<1>3. targets \subseteq Procs
  BY <1>0 DEF Live, Group
<1>5. /\ emptied(complete) \in {0, sweep.empty + 1}
      /\ emptied(complete) # 0 => /\ platform = "darwin" => Group = {}
                                  /\ platform = "linux" => sweep.found = {}
  BY <1>0 DEF CleanupTypes, GroupAbsent
<1>6. proved(complete) => emptied(complete) >= PassesNeeded
  OBVIOUS
<1> HIDE DEF targets, none, emptied, proved
<1>9. Live' \subseteq Live /\ Group' \subseteq Group /\ (Reach = {} => Reach' = {})
      /\ tree' \in [Procs -> ProcStates]
  BY <1>0, <1>1, KilledWane
<1>7. next(complete) \in Sweeps /\ next(complete).by = sweep.by /\ ~next(complete).scanning
      /\ next(complete).empty = emptied(complete)
  <2>1. emptied(complete) \in Nat /\ sweep \in Sweeps /\ sweep.hit \cup targets \in SUBSET Procs
    BY <1>0, <1>3, <1>5 DEF CleanupTypes, Sweeps
  <2> DEFINE n == NextPass(emptied(complete))
  <2>2. n \in Sweeps /\ n.by = sweep.by /\ ~n.scanning /\ n.empty = emptied(complete)
    BY <2>1, PassTyped
  <2> HIDE DEF n
  <2>3. next(complete) = [n EXCEPT !.hit = sweep.hit \cup targets]
    BY DEF n
  <2> HIDE DEF next
  <2> QED
    BY <2>1, <2>2, <2>3 DEF Sweeps
<1> HIDE DEF next
<1>10. Moves(emptied(complete))
  BY <1>0, <1>2, <1>5, <1>7 DEF Moves
<1>11. Fooled' /\ sweep' \in Sweeps
  BY <1>0, <1>5, <1>9, <1>10, PassKeeps
<1>12. CleanupTypes'
  BY <1>0, <1>9, <1>11 DEF CleanupTypes
<1>13. proved(complete) => Reach' = {}
  <2> SUFFICES ASSUME proved(complete) PROVE Reach' = {}
    OBVIOUS
  <2>1. emptied(complete) >= 2 /\ emptied(complete) = sweep.empty + 1 /\ sweep.empty \in Nat
    BY <1>0, <1>5, <1>6 DEF PassesNeeded, CleanupTypes, Sweeps
  <2>2. CASE platform = "linux"
    <3>1. Live = {}
      <4>1. sweep.found = {}
        BY <1>5, <2>1, <2>2
      <4>2. Live # {} => sweep.empty + 1 <= forks
        BY <1>0, <2>2, <4>1, PassFooled
      <4> QED
        BY <1>0, <2>1, <4>2, CleanupAssumption DEF CleanupTypes, FewForks, PassesNeeded
    <3> QED
      BY <1>0, <1>9, <2>2, <3>1 DEF Reach
  <2>3. CASE platform = "darwin"
    BY <1>0, <1>5, <1>9, <2>1, <2>3 DEF Reach
  <2> QED
    BY <1>0, <2>2, <2>3 DEF CleanupTypes
<1>14. Recorded'
  <2>1. NoSweep.by = "none"
    BY DEF NoSweep
  <2> QED
    BY <1>0, <1>2, <1>7, <2>1 DEF Recorded
<1>15. RecordCoversWorkers'
  BY <1>0, <1>9 DEF CleanupInv, RecordCoversWorkers
<1>16. SettledMeansGone'
  BY <1>0, <1>2, <1>9, <1>13 DEF CleanupInv, SettledMeansGone
<1> QED
  BY <1>11, <1>12, <1>14, <1>15, <1>16 DEF CleanupInv

\* CleanupInv is inductive.
LEMMA CleanupInvariant ==
  ASSUME FewForks
  PROVE  CleanupSpec => []CleanupInv
<1>1. CleanupInit => CleanupInv
  <2> SUFFICES ASSUME CleanupInit PROVE CleanupInv
    OBVIOUS
  <2>1. Live = {} /\ Reach = {} /\ tree \in [Procs -> ProcStates]
    BY DEF CleanupInit, Live, Reach, Group, ProcStates
  <2>2. NoSweep \in Sweeps /\ NoSweep.empty = 0 /\ ~NoSweep.scanning /\ NoSweep.by = "none"
    BY DEF NoSweep, Sweeps
  <2>3. sweep = NoSweep /\ sweep \in Sweeps /\ sweep.empty = 0 /\ ~sweep.scanning /\ sweep.by = "none"
    BY <2>2 DEF CleanupInit
  <2>4. CleanupTypes
    <3>1. platform \in {"linux", "darwin"} /\ forks = 0 /\ latched = {}
      BY DEF CleanupInit
    <3>2. 0 <= SweepForks
      BY CleanupAssumption
    <3> QED
      BY <2>1, <2>3, <3>1, <3>2 DEF CleanupTypes
  <2>5. Fooled /\ Recorded
    BY <2>1, <2>3 DEF CleanupInit, Fooled, Recorded
  <2>6. RecordCoversWorkers /\ SettledMeansGone
    BY <2>1 DEF RecordCoversWorkers, SettledMeansGone
  <2> QED
    BY <2>4, <2>5, <2>6 DEF CleanupInv
<1>2. CleanupInv /\ [CleanupNext]_cleanupVars => CleanupInv'
  <2> SUFFICES ASSUME CleanupInv, [CleanupNext]_cleanupVars PROVE CleanupInv'
    OBVIOUS
  <2>1. CASE UNCHANGED cleanupVars
    <3>1. Live' = Live /\ Reach' = Reach
      BY <2>1 DEF cleanupVars, Live, Reach, Group
    <3> QED
      BY <2>1, <3>1, WaneKeeps DEF cleanupVars, CleanupInv, CleanupTypes
  <2> QED
    BY <2>1, WorkerSteps, RunnerSteps, ScanSteps, RunnerPassKeeps, DeathKeeps, StopBeginsKeeps,
       StopPassKeeps DEF CleanupNext
<1> QED
  BY <1>1, <1>2, PTL DEF CleanupSpec

\* Every worker in reach has a record on disk, at every point where the runner can die,
\* for any process tree, any forks, exits and setsid in the middle of the passes.
THEOREM CleanupRecorded ==
  ASSUME FewForks
  PROVE  CleanupSpec => []RecordCoversWorkers
<1>1. CleanupInv => RecordCoversWorkers
  BY DEF CleanupInv
<1> QED
  BY <1>1, CleanupInvariant, PTL

\* An attempt that is settled, and a run that stop marks stopped, has no live worker in
\* reach.
THEOREM CleanupSettled ==
  ASSUME FewForks
  PROVE  CleanupSpec => []SettledMeansGone
<1>1. CleanupInv => SettledMeansGone
  BY DEF CleanupInv
<1> QED
  BY <1>1, CleanupInvariant, PTL
=============================================================================
