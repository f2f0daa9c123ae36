-------------------------- MODULE FeatureBenchProofs --------------------------
(***************************************************************************)
(* What is proved of a FeatureBench run.                                    *)
(*                                                                          *)
(* A score in a report was computed on the prediction that is bound with it; *)
(* a redo leaves no score of its tasks from before it, and what was verified *)
(* of the other tasks it leaves verified; predictions that an evaluation     *)
(* accepts never fall back behind those accepted earlier.                    *)
(***************************************************************************)
EXTENDS FeatureBenchRun, FiniteSetTheorems, WellFoundedInduction, TLAPS

-----------------------------------------------------------------------------
(* The inductive invariant *)

\* The steps of a command before it has an invocation.
Opening == {"recover", "close", "resolve", "begin"}
\* The steps of a redo's preparations.
Preparing == {"unbind", "annotate", "infer"}
\* The steps from the predictions to the launch of the evaluation, or back.
Staging == {"consolidate", "bind", "archive", "invalidate", "evaluate", "restore", "rebind"}
\* The steps from the launch of the evaluation to the last binding of its evidence.
Judging == {"evaluating", "index", "accept", "reindex"}
\* The steps of a command that has an invocation.
Working == Preparing \cup {"inferring", "noteInfer"} \cup Staging \cup Judging
             \cup {"cleanup", "noteEval", "finish"}
\* The steps between which nothing runs.
Quiet == {"close", "resolve", "begin"} \cup Preparing \cup Staging

\* The roles of evidence that a receipt binds, and the phases of a recorded batch.
Roles == {"input", "eval", "accepted", "meta", "output", "task", "total"}
Phases == {"cleanup", "inference", "verifier"}

\* An invocation is one of a command, and a command that has none yet will have room for it.
Counting ==
  /\ Len(invs) <= cli.n
  /\ cli.at \in Opening => Len(invs) < cli.n
  /\ cli.at \in Working => cli.inv = Len(invs) /\ cli.inv # 0

\* Before the run directory is complete there is nothing in it.
NothingYet ==
  ~created => cli.at = "off" /\ invs = <<>> /\ batches = <<>> /\ procs = {} /\ Made = {}

\* One native process at a time, of the command at work once that has recovered.
OwnProcess ==
  /\ \A p, q \in procs : p = q
  /\ \A p \in procs : p.inv <= Len(invs)
  /\ \A p \in procs : p.kind = "eval" => inputs[p.inv] # NoInput /\ p.root # 0
  /\ cli.at \in Quiet => procs = {}
  /\ cli.at = "noteInfer" /\ ~cli.bad => procs = {}
  /\ cli.at \in Working => \A p \in procs : p.inv = cli.inv
  /\ cli.at = "inferring" => \A p \in procs : p.kind = "infer"
  /\ cli.at \in Judging => \A p \in procs : p.kind = "eval" /\ p.root = cli.root

\* Directories come in order, one per inference at most; what is not made is empty.
Directories ==
  /\ Made = 1..Cardinality(Made)
  /\ Cardinality(Made) <= Len(invs)
  /\ cli.at \in Preparing => Cardinality(Made) < Len(invs)
  /\ \A p \in procs : p.kind = "infer" => p.root \in Made \cup {0}
  /\ \A p \in procs : p.root = 0 => Cardinality(Made) < Len(invs)
  /\ \A r \in Root \ Made : outputs[r] = NoInput.preds
  /\ \A r \in Root, t \in Task : outputs[r][t] <= Len(invs)

\* A fresh inference starts with all directories known, so the new one is its own.
NewIsOwn ==
  /\ cli.at \in Preparing \/ (cli.at = "begin" /\ cli.kind # "report") => Made \subseteq Known
  /\ cli.at = "inferring" => \A r \in Made \ Known, t \in Task : outputs[r][t] \in {0, cli.inv}
  /\ cli.at = "inferring" /\ cli.redo # {} => cli.root = 0
  /\ ((cli.at = "noteInfer" /\ ~cli.bad) \/ cli.at \in Staging \cup Judging) => cli.root # 0
  /\ ((cli.at = "noteInfer" /\ ~cli.bad) \/ cli.at = "consolidate") /\ cli.redo # {} =>
       \A t \in Task : outputs[cli.root][t] \in {0, cli.inv}

\* The input of an invocation is written once, before it is evaluated.
InputsAreSet ==
  /\ \A i \in Inv : i > Len(invs) => inputs[i] = NoInput
  /\ cli.at \in Preparing \cup {"inferring", "noteInfer", "consolidate"}
     => inputs[cli.inv] = NoInput
  /\ cli.at \in (Staging \ {"consolidate"}) \cup Judging \cup {"noteEval"}
     => inputs[cli.inv] # NoInput
  /\ cli.launched => cli.at \in Judging \cup {"cleanup", "noteEval", "finish"}
                     /\ inputs[cli.inv] # NoInput
  /\ \A k \in DOMAIN batches : batches[k].inv <= Len(invs)
  /\ \A k \in DOMAIN batches : batches[k].phase = "verifier" => inputs[batches[k].inv] # NoInput
  /\ \A i \in Inv, t \in Task : inputs[i].preds[t] <= i

\* What a task's binding says is what its evaluation made of its input.
TrueScores(bound) ==
  \A b \in bound["task"] : b.task \in Task /\ b.inv \in Inv /\ inputs[b.inv] # NoInput
                           /\ b.val = <<b.inv, inputs[b.inv].preds[b.task]>>

\* No task has two bound reports.
OnePerTask(bound) == \A b, c \in bound["task"] : b.task = c.task => b = c

\* No bound report of a task is older than a redo of it.
NoneRedone(bound) ==
  \A b \in bound["task"] : \A k \in DOMAIN batches :
    batches[k].phase = "cleanup" /\ b.task \in batches[k].tasks => batches[k].inv <= b.inv

\* The receipt and the copy of it that a command may put back.
BoundScores ==
  \A bound \in {receipt, cli.before} : TrueScores(bound) /\ OnePerTask(bound) /\ NoneRedone(bound)

\* The evaluation writes where nothing lies that is not its own.
OwnReports ==
  /\ cli.at \in {"invalidate", "evaluate"} => reports[cli.root] = NoReports
  /\ cli.at \in Judging => \A t \in Task :
       reports[cli.root][t] \in {NoReport, <<cli.inv, inputs[cli.inv].preds[t]>>}

\* A redo has unbound its tasks by the time it says so, and holds no copy of them.
Unbinding ==
  /\ cli.at \in Opening \cup {"off", "unbind", "annotate"} => cli.before = Unbound
  /\ cli.at = "annotate" => \A b \in receipt["task"] : b.task \notin cli.redo

\* The copy has no acceptance of an earlier invocation that the receipt has not.
NothingRevived ==
  \A role \in {"accepted", "input", "eval"} : \A b \in cli.before[role] :
    b.inv # cli.inv => b \in receipt[role]

\* Predictions never fall back behind accepted ones, whether or not they get accepted.
NeverBehind ==
  \A i, j \in DOMAIN invs : i < j /\ Accepted(i) /\ inputs[j] # NoInput =>
    \A t \in Task : inputs[i].preds[t] <= inputs[j].preds[t]

\* A table of bindings, one set for each role.
IsReceipt(bound) == bound = [role \in Roles |-> bound[role]]

\* Entries of the run state, tables of task reports, and native processes.
Invocations == [open : BOOLEAN, settled : BOOLEAN]
Batches == [inv : Inv, phase : Phases, tasks : SUBSET Task, root : Root \cup {0}, ok : BOOLEAN]
Scores == [Task -> Nat \X Nat]
Processes == [kind : {"infer", "eval"}, inv : Inv, tasks : (SUBSET Task) \ {{}}, root : Root \cup {0}]

\* The state of a command; a report redoes nothing.
IsCommand(c) ==
  /\ c \in [at : {"off"} \cup Opening \cup Working, n : 0..MaxCommands,
            kind : {"none", "run", "resume", "report"}, redo : SUBSET Task, inv : Inv \cup {0},
            root : Root \cup {0}, first : Root \cup {0}, bad : BOOLEAN, launched : BOOLEAN,
            before : {c.before}, was : SUBSET Task]
  /\ IsReceipt(c.before)
  /\ c.kind = "report" => c.redo = {}

\* Types of the variables.
FeatureBenchTypes ==
  /\ IsCommand(cli)
  /\ IsReceipt(receipt)
  /\ invs \in Seq(Invocations)
  /\ batches \in Seq(Batches)
  /\ metas \in [Root -> SUBSET (Task \cup {0})]
  /\ outputs \in [Root -> [Task -> Nat]]
  /\ inputs \in [Inv -> [root : Root \cup {0}, preds : [Task -> Nat]]]
  /\ reports \in [Root -> Scores]
  /\ totals \in [Root -> Scores]
  /\ archive \in [Inv -> [tasks : Scores, total : Scores]]
  /\ procs \in SUBSET Processes

\* The inductive invariant of a FeatureBench run.
FeatureBenchInv ==
  /\ FeatureBenchTypes /\ Counting /\ NothingYet /\ OwnProcess /\ Directories /\ NewIsOwn
  /\ InputsAreSet /\ BoundScores /\ OwnReports /\ Unbinding /\ NothingRevived /\ NeverBehind

-----------------------------------------------------------------------------
(* Least and greatest numbers *)

\* Every non-empty set of naturals has a least member.
LEMMA Least == \A S \in SUBSET Nat : S # {} => \E m \in S : \A x \in S : m <= x
<1> SUFFICES ASSUME NEW S \in SUBSET Nat, S # {} PROVE \E m \in S : \A x \in S : m <= x
  OBVIOUS
<1> DEFINE R == OpToRel(<, Nat)
<1>1. IsWellFoundedOn(R, Nat)
  BY NatLessThanWellFounded
<1>2. \E m \in S : \A x \in S : <<x, m>> \notin R
  <2> HIDE DEF R
  <2> QED BY <1>1, WFMin
<1>3. \A x, y \in S : x < y => <<x, y>> \in R
  BY DEF OpToRel
<1>4. PICK m \in S : \A x \in S : <<x, m>> \notin R
  BY <1>2
<1>5. ASSUME NEW x \in S PROVE m <= x
  <2>1. ~ (x < m)
    <3> HIDE DEF R
    <3> QED BY <1>3, <1>4
  <2> QED BY <2>1
<1> QED BY <1>4, <1>5

\* The members of a set of naturals bounded by a member of it: that one is Max.
LEMMA MaxIs ==
  ASSUME NEW S \in SUBSET Nat, NEW m \in S, \A x \in S : x <= m
  PROVE  Max(S) = m
<1>1. \A y \in S : m >= y
  OBVIOUS
<1>2. \A n \in S : (\A y \in S : n >= y) => n = m
  OBVIOUS
<1> QED BY <1>1, <1>2, Zenon DEF Max

\* A bounded non-empty set of naturals has a maximum, which Max finds.
LEMMA MaxOf ==
  ASSUME NEW S \in SUBSET Nat, S # {}, NEW b \in Nat, \A x \in S : x <= b
  PROVE  Max(S) \in S /\ \A x \in S : x <= Max(S)
<1> DEFINE D == {b - x : x \in S}
<1>1. D \in SUBSET Nat /\ D # {}
  <2>1. \A x \in S : b - x \in Nat
    OBVIOUS
  <2>2. PICK x \in S : TRUE
    OBVIOUS
  <2> QED BY <2>1, <2>2
<1>2. PICK d \in D : \A y \in D : d <= y
  <2> HIDE DEF D
  <2> QED BY <1>1, Least
<1>3. PICK m \in S : d = b - m
  OBVIOUS
<1>4. \A x \in S : x <= m
  <2> TAKE x \in S
  <2> b - x \in D
    OBVIOUS
  <2> QED BY <1>2, <1>3
<1> QED BY <1>4, MaxIs

\* The least member of a set of naturals is Min.
LEMMA MinIs ==
  ASSUME NEW S \in SUBSET Nat, NEW m \in S, \A x \in S : m <= x
  PROVE  Min(S) = m
<1>1. \A n \in S : (\A y \in S : n <= y) => n = m
  OBVIOUS
<1> QED BY <1>1, Zenon DEF Min

\* A non-empty set of naturals has a minimum, which Min finds.
LEMMA MinOf ==
  ASSUME NEW S \in SUBSET Nat, S # {}
  PROVE  Min(S) \in S /\ \A x \in S : Min(S) <= x
<1>1. PICK m \in S : \A x \in S : m <= x
  BY Least
<1> QED BY <1>1, MinIs

-----------------------------------------------------------------------------
(* Steps of the command that leave the files alone *)

\* What most steps leave as it is.
Steady ==
  /\ UNCHANGED <<batches, receipt, metas, outputs, inputs>>
  /\ \/ UNCHANGED <<reports, totals, archive>>
     \/ /\ cli'.at \notin Judging
        /\ reports' \in [Root -> Scores] /\ totals' \in [Root -> Scores]
        /\ archive' \in [Inv -> [tasks : Scores, total : Scores]]
  /\ created => created'
  /\ invs' \in Seq(Invocations) /\ Len(invs') = Len(invs)
  /\ procs' \subseteq procs

\* The command goes on with what it has.
GoesOn ==
  /\ IsCommand(cli') /\ cli'.n = cli.n /\ cli'.kind = cli.kind /\ cli'.redo = cli.redo
  /\ cli'.inv = cli.inv /\ cli'.root = cli.root /\ cli'.before = cli.before

\* A step by GoTo goes on.
LEMMA GoToGoesOn ==
  ASSUME IsCommand(cli), NEW s \in Opening \cup Working, GoTo(s)
  PROVE  GoesOn /\ cli'.at = s /\ cli'.bad = cli.bad /\ cli'.launched = cli.launched
BY DEF IsCommand, GoTo, GoesOn

\* So does one by Fails.
LEMMA FailsGoesOn ==
  ASSUME IsCommand(cli), NEW s \in Opening \cup Working, Fails(s)
  PROVE  GoesOn /\ cli'.at = s /\ cli'.bad /\ cli'.launched = cli.launched
BY DEF IsCommand, Fails, GoesOn

\* Unbound is an empty receipt.
LEMMA UnboundIsReceipt == IsReceipt(Unbound) /\ \A role \in Roles : Unbound[role] = {}
BY DEF IsReceipt, Unbound, Roles

\* What a command is at first, or after its end.
LEMMA OffIs ==
  /\ Off.at = "off" /\ Off.redo = {} /\ Off.inv = 0 /\ Off.root = 0 /\ Off.first = 0
  /\ ~Off.bad /\ ~Off.launched /\ Off.before = Unbound /\ Off.kind = "none"
  /\ \A k \in 0..MaxCommands : IsCommand([Off EXCEPT !.n = k])
<1>1. \A k \in 0..MaxCommands : IsCommand([Off EXCEPT !.n = k])
  BY UnboundIsReceipt DEF IsCommand, Off
<1> QED
  BY <1>1 DEF Off

\* The files being the same, so is what is derived from them.
LEMMA SameFiles ==
  ASSUME UNCHANGED <<batches, receipt, metas>>
  PROVE  Made' = Made /\ Known' = Known /\ (\A i : Accepted(i)' <=> Accepted(i))
<1>1. Made' = Made
  BY DEF Made
<1>2. Known' = Known
  BY DEF Known, Inferred
<1>3. \A i : Accepted(i)' <=> Accepted(i)
  BY DEF Accepted
<1> QED
  BY <1>1, <1>2, <1>3

\* A step that leaves the files and the counts alone keeps the types of the files.
LEMMA SteadyTypes ==
  ASSUME FeatureBenchTypes, Steady, IsCommand(cli')
  PROVE  FeatureBenchTypes'
BY DEF FeatureBenchTypes, Steady, native

\* Before a command has its invocation, and when it is over, it holds nothing.
LEMMA OpeningKeeps ==
  ASSUME FeatureBenchInv, Steady, IsCommand(cli'), cli'.at \in Opening \cup {"off"},
         cli'.before = Unbound, ~cli'.launched, Len(invs) <= cli'.n,
         cli'.at \in Opening => created' /\ Len(invs) < cli'.n,
         cli'.at \in {"close", "resolve", "begin"} => procs' = {},
         cli'.at = "begin" /\ cli'.kind # "report" => Made \subseteq Known
  PROVE  FeatureBenchInv'
<1> USE DEF FeatureBenchInv, Steady, native
<1>1. Made' = Made /\ Known' = Known /\ \A i : Accepted(i)' <=> Accepted(i)
  BY SameFiles
<1>2. DOMAIN invs' = DOMAIN invs /\ Len(invs') = Len(invs)
  BY DEF FeatureBenchTypes
<1>3. FeatureBenchTypes'
  BY SteadyTypes
<1>4. /\ cli'.at \notin Working /\ cli'.at \notin Preparing \cup Staging \cup Judging
      /\ cli'.at \notin {"inferring", "noteInfer", "noteEval"}
      /\ cli'.at \notin Quiet \ {"close", "resolve", "begin"}
  BY DEF Opening, Working, Quiet, Preparing, Staging, Judging
<1>5. Counting'
  BY <1>2, <1>4 DEF Counting
<1>6. NothingYet'
  <2>1. invs = <<>> => invs' = <<>>
    BY DEF FeatureBenchTypes
  <2>2. procs = {} => procs' = {}
    OBVIOUS
  <2> QED
    BY <1>1, <2>1, <2>2 DEF NothingYet
<1>7. OwnProcess'
  BY <1>2, <1>4 DEF OwnProcess
<1>8. Directories'
  BY <1>1, <1>2, <1>4 DEF Directories
<1>9. NewIsOwn'
  <2>1. cli'.at = "consolidate" => cli'.at \in Staging
    BY DEF Staging
  <2> QED
    BY <1>1, <1>4, <2>1 DEF NewIsOwn
<1>10. InputsAreSet'
  <2>1. cli'.at = "consolidate" => cli'.at \in Staging
    BY DEF Staging
  <2> QED
    BY <1>2, <1>4, <2>1 DEF InputsAreSet
<1>11. BoundScores'
  <2>1. TrueScores(Unbound) /\ OnePerTask(Unbound) /\ NoneRedone(Unbound)
    BY UnboundIsReceipt DEF TrueScores, OnePerTask, NoneRedone, Roles
  <2>2. \A bound : /\ TrueScores(bound) => TrueScores(bound)'
                   /\ NoneRedone(bound) => NoneRedone(bound)'
    BY DEF TrueScores, NoneRedone
  <2> QED
    BY <2>1, <2>2 DEF BoundScores, OnePerTask
<1>12. OwnReports'
  BY <1>4 DEF OwnReports, Staging
<1>13. Unbinding'
  BY <1>4 DEF Unbinding, Preparing
<1>14. NothingRevived'
  BY UnboundIsReceipt DEF NothingRevived, Roles
<1>15. NeverBehind'
  BY <1>1, <1>2 DEF NeverBehind
<1> QED
  BY <1>3, <1>5, <1>6, <1>7, <1>8, <1>9, <1>10, <1>11, <1>12, <1>13, <1>14, <1>15

\* A step of the command at work that leaves the files alone, on towards its end.
LEMMA GoingOnKeeps ==
  ASSUME FeatureBenchInv, Steady, GoesOn, cli.at \in Working,
         \/ cli'.at = "restore" /\ cli.at \in {"archive", "invalidate", "evaluate"}
         \/ cli'.at = "rebind" /\ cli.at = "restore"
         \/ cli'.at = "invalidate" /\ cli.at = "archive" /\ reports'[cli.root] = NoReports
         \/ cli'.at \in {"index", "accept", "reindex"} /\ cli.at \in Judging
         \/ cli'.at \in {"cleanup", "finish"}
         \/ cli'.at = "noteEval" /\ cli.launched,
         cli'.launched = cli.launched
  PROVE  FeatureBenchInv'
<1> USE DEF FeatureBenchInv, Steady, native, GoesOn
<1>1. Made' = Made /\ Known' = Known /\ \A i : Accepted(i)' <=> Accepted(i)
  BY SameFiles
<1>2. DOMAIN invs' = DOMAIN invs /\ Len(invs') = Len(invs)
  BY DEF FeatureBenchTypes
<1>3. FeatureBenchTypes'
  BY SteadyTypes
<1>4. /\ cli'.at \in Working
      /\ cli'.at \notin Preparing \cup Opening \cup {"off", "inferring", "noteInfer", "consolidate"}
      /\ cli'.at \notin {"evaluate", "begin", "unbind", "annotate"}
      /\ cli'.at = "invalidate" => reports'[cli.root] = NoReports
      /\ cli'.at \in Judging => reports' = reports
      /\ cli'.at \in Staging \cup Judging => cli.at \in Staging \cup Judging
      /\ cli'.at \in Judging => cli.at \in Judging
      /\ cli'.at \in Quiet => cli.at \in Quiet
      /\ cli'.at \in (Staging \ {"consolidate"}) \cup Judging =>
           cli.at \in (Staging \ {"consolidate"}) \cup Judging
      /\ cli'.at \in Judging \cup {"cleanup", "noteEval", "finish"} \/ ~cli.launched
  BY DEF InputsAreSet, Opening, Working, Quiet, Preparing, Staging, Judging
<1>5. Counting'
  BY <1>2, <1>4 DEF Counting
<1>6. NothingYet'
  BY <1>4 DEF NothingYet, Working, Preparing, Staging, Judging
<1>7. OwnProcess'
  BY <1>2, <1>4 DEF OwnProcess
<1>8. Directories'
  BY <1>1, <1>2, <1>4 DEF Directories
<1>9. NewIsOwn'
  BY <1>1, <1>4 DEF NewIsOwn
<1>10. InputsAreSet'
  BY <1>2, <1>4 DEF InputsAreSet
<1>11. BoundScores'
  <2>1. \A bound : /\ TrueScores(bound) => TrueScores(bound)'
                   /\ NoneRedone(bound) => NoneRedone(bound)'
    BY DEF TrueScores, NoneRedone
  <2> QED
    BY <2>1 DEF BoundScores, OnePerTask
<1>12. OwnReports'
  BY <1>4 DEF OwnReports
<1>13. Unbinding'
  BY <1>4 DEF Unbinding
<1>14. NothingRevived'
  BY DEF NothingRevived
<1>15. NeverBehind'
  BY <1>1, <1>2 DEF NeverBehind
<1> QED
  BY <1>3, <1>5, <1>6, <1>7, <1>8, <1>9, <1>10, <1>11, <1>12, <1>13, <1>14, <1>15

-----------------------------------------------------------------------------
(* The native processes *)

\* A fresh inference makes the next directory: nobody has it, and only its metadata is new.
LEMMA InferStartsIs ==
  ASSUME FeatureBenchInv, NEW p \in procs, InferStarts(p),
         NEW r, r = Cardinality(Made) + 1
  PROVE  \E meta \in {p.tasks} \cup (IF BadMetadata THEN {Malformed} ELSE {}) :
           /\ p.kind = "infer" /\ p.root = 0 /\ procs' = (procs \ {p}) \cup {[p EXCEPT !.root = r]}
           /\ UNCHANGED <<created, invs, batches, receipt, outputs, inputs, reports, totals, archive, cli>>
           /\ p \in Processes /\ procs = {p}
           /\ Cardinality(Made) < Len(invs) /\ Made = 1..Cardinality(Made) /\ Cardinality(Made) \in Nat
           /\ r \in Root /\ r \notin Made /\ r # 0
           /\ metas' = [metas EXCEPT ![r] = meta] /\ Made' = Made \cup {r}
           /\ metas' \in [Root -> SUBSET (Task \cup {0})]
<1> USE DEF FeatureBenchInv
<1>1. PICK meta \in {p.tasks} \cup (IF BadMetadata THEN {Malformed} ELSE {}) : metas' = [metas EXCEPT ![r] = meta]
  BY DEF InferStarts
<1>2. /\ p.kind = "infer" /\ p.root = 0 /\ procs' = (procs \ {p}) \cup {[p EXCEPT !.root = r]}
      /\ UNCHANGED <<created, invs, batches, receipt, outputs, inputs, reports, totals, archive, cli>>
  BY DEF InferStarts, Becomes, stored
<1>3. /\ p \in Processes /\ procs = {p}
  BY DEF FeatureBenchTypes, OwnProcess
<1>4. /\ Cardinality(Made) < Len(invs) /\ Made = 1..Cardinality(Made) /\ Cardinality(Made) \in Nat
  <2>1. Made \subseteq Root
    BY DEF Made
  <2>2. 1 \in Int /\ MaxCommands \in Int
    BY FeatureBenchAssumption
  <2>3. IsFiniteSet(Root)
    BY <2>2, FS_Interval DEF Root
  <2>4. Cardinality(Made) \in Nat
    BY <2>1, <2>3, FS_Subset, FS_CardinalityType
  <2> QED
    BY <1>2, <2>4 DEF Directories
<1>5. r \in Root /\ r \notin Made /\ r # 0
  BY <1>4, FeatureBenchAssumption DEF Counting, FeatureBenchTypes, IsCommand, Root
<1>6. meta # {} /\ meta \in SUBSET (Task \cup {0})
  <2>1. p.tasks # {} /\ p.tasks \in SUBSET Task
    BY <1>3 DEF Processes
  <2>2. CASE meta = p.tasks
    BY <2>1, <2>2
  <2>3. CASE meta = {0}
    BY <2>3
  <2> QED
    BY <1>1, <2>2, <2>3 DEF Malformed
<1>7. Made' = Made \cup {r} /\ metas' \in [Root -> SUBSET (Task \cup {0})]
  <2>1. metas \in [Root -> SUBSET (Task \cup {0})]
    BY DEF FeatureBenchTypes
  <2>2. metas' \in [Root -> SUBSET (Task \cup {0})]
    BY <1>1, <1>5, <1>6, <2>1
  <2>3. metas'[r] # {} /\ \A s \in Root : s # r => metas'[s] = metas[s]
    BY <1>1, <1>5, <1>6, <2>1
  <2> QED
    BY <1>5, <2>2, <2>3 DEF Made
<1> QED
  BY <1>1, <1>2, <1>3, <1>4, <1>5, <1>7

\* fb infer makes its directory: the next one, empty, of the command that started it.
LEMMA InferStartsKeeps ==
  ASSUME FeatureBenchInv, NEW p \in procs, InferStarts(p)
  PROVE  FeatureBenchInv'
<1> DEFINE r == Cardinality(Made) + 1
           q == [p EXCEPT !.root = r]
<1> USE DEF FeatureBenchInv
<1>1. PICK meta \in {p.tasks} \cup (IF BadMetadata THEN {Malformed} ELSE {}) :
        /\ p.kind = "infer" /\ p.root = 0 /\ procs' = (procs \ {p}) \cup {q}
        /\ UNCHANGED <<created, invs, batches, receipt, outputs, inputs, reports, totals, archive, cli>>
        /\ p \in Processes /\ procs = {p}
        /\ Cardinality(Made) < Len(invs) /\ Made = 1..Cardinality(Made) /\ Cardinality(Made) \in Nat
        /\ r \in Root /\ r \notin Made /\ r # 0
        /\ metas' = [metas EXCEPT ![r] = meta] /\ Made' = Made \cup {r}
        /\ metas' \in [Root -> SUBSET (Task \cup {0})]
  BY InferStartsIs
<1>2. Made' = 1..r /\ Cardinality(Made') = r
  <2>1. Made' = 1..r
    BY <1>1
  <2>2. Cardinality(1..r) = r
    BY <1>1, FS_Interval
  <2> QED
    BY <2>1, <2>2
<1>3. /\ q \in Processes /\ q.kind = "infer" /\ q.inv = p.inv /\ q.root = r /\ q.tasks = p.tasks
  BY <1>1 DEF Processes
<1> HIDE DEF r, q
<1>4. procs' = {q}
  BY <1>1
<1>5. Known' = Known /\ \A i : Accepted(i)' <=> Accepted(i)
  BY <1>1 DEF Known, Inferred, Accepted
<1>6. FeatureBenchTypes'
  BY <1>1, <1>3, <1>4 DEF FeatureBenchTypes
<1>7. Counting' /\ InputsAreSet' /\ OwnReports' /\ Unbinding' /\ NothingRevived'
  BY <1>1 DEF Counting, InputsAreSet, OwnReports, Unbinding, NothingRevived
<1>8. NothingYet'
  BY <1>1 DEF NothingYet
<1>9. OwnProcess'
  BY <1>1, <1>3, <1>4 DEF OwnProcess
<1>10. Directories'
  <2>1. cli.at \notin Preparing
    BY <1>1 DEF OwnProcess, Quiet
  <2> QED
    BY <1>1, <1>2, <1>3, <1>4, <2>1 DEF Directories, r
<1>11. NewIsOwn'
  <2>1. cli.at \notin Preparing /\ cli.at # "begin"
    BY <1>1 DEF OwnProcess, Quiet
  <2>2. \A t \in Task : outputs[r][t] = 0
    BY <1>1 DEF Directories, NoInput
  <2> QED
    BY <1>1, <1>5, <2>1, <2>2 DEF NewIsOwn
<1>12. BoundScores'
  <2>1. \A bound : /\ TrueScores(bound) => TrueScores(bound)'
                   /\ NoneRedone(bound) => NoneRedone(bound)'
    BY <1>1 DEF TrueScores, NoneRedone
  <2> QED
    BY <1>1, <2>1 DEF BoundScores, OnePerTask
<1>13. NeverBehind'
  BY <1>1, <1>5 DEF NeverBehind
<1> QED
  BY <1>6, <1>7, <1>8, <1>9, <1>10, <1>11, <1>12, <1>13

\* fb infer predicts a task in its own directory.
LEMMA InferPredictsKeeps ==
  ASSUME FeatureBenchInv, NEW p \in procs, InferPredicts(p)
  PROVE  FeatureBenchInv'
<1> USE DEF FeatureBenchInv
<1>1. PICK t \in p.tasks : outputs'
           = [outputs EXCEPT ![p.root] = [outputs[p.root] EXCEPT ![t] = p.inv]]
  BY DEF InferPredicts
<1>2. /\ p.kind = "infer" /\ p.root # 0
      /\ UNCHANGED <<created, invs, batches, receipt, metas, inputs, reports, totals, archive,
          procs, cli>>
  BY DEF InferPredicts, stored
<1>3. /\ p.root \in Root /\ t \in Task /\ p.inv \in Nat /\ procs = {p}
      /\ p.inv <= Len(invs) /\ p.root \in Made /\ outputs \in [Root -> [Task -> Nat]]
  BY <1>2, FeatureBenchAssumption DEF FeatureBenchTypes, OwnProcess, Processes, Directories, Inv
<1>4. /\ outputs' \in [Root -> [Task -> Nat]] /\ outputs'[p.root][t] = p.inv
      /\ \A r \in Root, u \in Task : (r # p.root \/ u # t) => outputs'[r][u] = outputs[r][u]
      /\ \A r \in Root : r # p.root => outputs'[r] = outputs[r]
  BY <1>1, <1>3
<1>5. Made' = Made /\ Known' = Known /\ \A i : Accepted(i)' <=> Accepted(i)
  BY <1>2, SameFiles
<1>6. FeatureBenchTypes'
  BY <1>2, <1>4 DEF FeatureBenchTypes
<1>7. Counting' /\ InputsAreSet' /\ OwnReports' /\ Unbinding' /\ NothingRevived' /\ OwnProcess'
  BY <1>2 DEF Counting, InputsAreSet, OwnReports, Unbinding, NothingRevived, OwnProcess
<1>8. NothingYet'
  BY <1>2, <1>5 DEF NothingYet
<1>9. Directories'
  BY <1>2, <1>3, <1>4, <1>5 DEF Directories
<1>10. NewIsOwn'
  <2>1. cli.at \notin Preparing /\ cli.at # "begin" /\ cli.at # "consolidate"
    BY <1>3 DEF OwnProcess, Quiet, Staging
  <2>2. ~(cli.at = "noteInfer" /\ ~cli.bad)
    BY <1>3 DEF OwnProcess
  <2>3. cli.at = "inferring" => p.inv = cli.inv
    BY DEF OwnProcess, Working
  <2>4. cli.at = "inferring" => \A r \in Made \ Known, u \in Task : outputs'[r][u] \in {0, cli.inv}
    BY <1>3, <1>4, <2>3 DEF NewIsOwn, Made
  <2> QED
    BY <1>2, <1>5, <2>1, <2>2, <2>4 DEF NewIsOwn
<1>11. BoundScores'
  <2>1. \A bound : /\ TrueScores(bound) => TrueScores(bound)'
                   /\ NoneRedone(bound) => NoneRedone(bound)'
    BY <1>2 DEF TrueScores, NoneRedone
  <2> QED
    BY <1>2, <2>1 DEF BoundScores, OnePerTask
<1>12. NeverBehind'
  BY <1>2, <1>5 DEF NeverBehind
<1> QED
  BY <1>6, <1>7, <1>8, <1>9, <1>10, <1>11, <1>12

\* fb eval reports what it made of its own input, where nothing lies.
LEMMA EvalReportsKeeps ==
  ASSUME FeatureBenchInv, NEW p \in procs, EvalReports(p)
  PROVE  FeatureBenchInv'
<1> USE DEF FeatureBenchInv
<1>1. /\ p.kind = "eval"
      /\ UNCHANGED <<created, invs, batches, receipt, metas, outputs, inputs, archive, procs, cli>>
  BY DEF EvalReports, stored
<1>2. /\ p.root \in Root /\ p.inv \in Inv /\ p.inv \in Nat /\ procs = {p}
      /\ reports \in [Root -> Scores] /\ totals \in [Root -> Scores]
      /\ \A t \in Task : inputs[p.inv].preds[t] \in Nat
  BY <1>1, FeatureBenchAssumption DEF FeatureBenchTypes, OwnProcess, Processes, Inv
<1>3. /\ reports' \in [Root -> Scores] /\ totals' \in [Root -> Scores]
      /\ \A r \in Root, t \in Task : reports'[r][t] = reports[r][t]
           \/ (r = p.root /\ reports'[r][t] = <<p.inv, inputs[p.inv].preds[t]>>)
  <2>1. ASSUME NEW t \in Task,
               reports' = [reports EXCEPT ![p.root] =
                 [reports[p.root] EXCEPT ![t] = <<p.inv, inputs[p.inv].preds[t]>>]],
               totals' = totals
        PROVE  <1>3!:
    <3>1. <<p.inv, inputs[p.inv].preds[t]>> \in Nat \X Nat
      BY <1>2
    <3> QED
      BY <1>2, <2>1, <3>1 DEF Scores
  <2>2. CASE totals' = [totals EXCEPT ![p.root] = reports[p.root]] /\ reports' = reports
    BY <1>2, <2>2
  <2> QED
    BY <1>1, <2>1, <2>2 DEF EvalReports
<1>4. Made' = Made /\ Known' = Known /\ \A i : Accepted(i)' <=> Accepted(i)
  BY <1>1, SameFiles
<1>5. FeatureBenchTypes'
  BY <1>1, <1>3 DEF FeatureBenchTypes
<1>6. Counting' /\ InputsAreSet' /\ Unbinding' /\ NothingRevived' /\ OwnProcess'
  BY <1>1 DEF Counting, InputsAreSet, Unbinding, NothingRevived, OwnProcess
<1>7. NothingYet' /\ Directories' /\ NewIsOwn'
  BY <1>1, <1>4 DEF NothingYet, Directories, NewIsOwn
<1>8. OwnReports'
  <2>1. cli.at \notin {"invalidate", "evaluate"}
    BY <1>2 DEF OwnProcess, Quiet, Staging
  <2>2. cli.at \in Judging => p.root = cli.root /\ p.inv = cli.inv
    BY DEF OwnProcess, Working
  <2> QED
    <3>1. ASSUME cli.at \in Judging, NEW t \in Task
          PROVE  reports'[cli.root][t] \in {NoReport, <<cli.inv, inputs[cli.inv].preds[t]>>}
      <4>1. p.root = cli.root /\ p.inv = cli.inv /\ cli.root \in Root
        BY <1>2, <2>2, <3>1
      <4>2. reports[cli.root][t] \in {NoReport, <<cli.inv, inputs[cli.inv].preds[t]>>}
        BY <3>1 DEF OwnReports
      <4>3. reports'[cli.root][t] \in {reports[cli.root][t], <<p.inv, inputs[p.inv].preds[t]>>}
        BY <1>3, <4>1
      <4> QED
        BY <4>1, <4>2, <4>3
    <3> QED
      BY <1>1, <2>1, <3>1 DEF OwnReports
<1>9. BoundScores'
  <2>1. \A bound : /\ TrueScores(bound) => TrueScores(bound)'
                   /\ NoneRedone(bound) => NoneRedone(bound)'
    BY <1>1 DEF TrueScores, NoneRedone
  <2> QED
    BY <1>1, <2>1 DEF BoundScores, OnePerTask
<1>10. NeverBehind'
  BY <1>1, <1>4 DEF NeverBehind
<1> QED
  BY <1>5, <1>6, <1>7, <1>8, <1>9, <1>10

-----------------------------------------------------------------------------
(* Up to the invocation *)

\* A command that is over leaves everything else as it is.
LEMMA OverKeeps ==
  ASSUME FeatureBenchInv, Steady, Over
  PROVE  FeatureBenchInv'
<1>1. /\ IsCommand(cli') /\ cli'.at = "off" /\ cli'.before = Unbound /\ ~cli'.launched
      /\ cli'.n = cli.n
  <2>1. cli.n \in 0..MaxCommands
    BY DEF FeatureBenchInv, FeatureBenchTypes, IsCommand
  <2> QED
    BY <2>1, OffIs DEF Over, Off
<1>2. Len(invs) <= cli'.n
  BY <1>1 DEF FeatureBenchInv, Counting
<1> QED
  BY <1>1, <1>2, OpeningKeeps DEF Opening

\* The first directory is the one of a recorded inference.
LEMMA FirstIsRoot == batches \in Seq(Batches) => First \in Root \cup {0}
<1> SUFFICES ASSUME batches \in Seq(Batches), Inferred # {} PROVE First \in Root \cup {0}
  BY DEF First
<1>1. Inferred \subseteq Nat /\ Inferred \subseteq DOMAIN batches
  BY DEF Inferred
<1>3. Min(Inferred) \in Inferred
  BY <1>1, MinOf
<1>4. batches[Min(Inferred)] \in Batches
  <2>1. Min(Inferred) \in DOMAIN batches
    BY <1>1, <1>3
  <2> HIDE DEF Batches
  <2> QED
    BY <2>1
<1> QED
  BY <1>4 DEF First, Batches

\* A function on 1..n is a sequence of n.
LEMMA IsASeq ==
  ASSUME NEW n \in Nat, NEW S, NEW g, g = [i \in DOMAIN g |-> g[i]], DOMAIN g = 1..n,
         \A i \in 1..n : g[i] \in S
  PROVE  g \in Seq(S) /\ Len(g) = n
<1>1. g \in [1..n -> S]
  OBVIOUS
<1>2. g \in Seq(S)
  BY <1>1
<1> QED
  BY <1>2

\* A new value of one field of every invocation.
LEMMA InvocationsKept ==
  ASSUME invs \in Seq(Invocations),
         \/ invs' = [i \in DOMAIN invs |-> [invs[i] EXCEPT !.settled = TRUE]]
         \/ invs' = [i \in DOMAIN invs |-> [invs[i] EXCEPT !.open = FALSE]]
  PROVE  invs' \in Seq(Invocations) /\ Len(invs') = Len(invs)
<1>1. \A i \in DOMAIN invs : /\ [invs[i] EXCEPT !.settled = TRUE] \in Invocations
                             /\ [invs[i] EXCEPT !.open = FALSE] \in Invocations
  <2> TAKE i \in DOMAIN invs
  <2>1. invs[i] \in Invocations
    OBVIOUS
  <2> QED
    BY <2>1 DEF Invocations
<1> HIDE DEF Invocations
<1>2. CASE invs' = [i \in DOMAIN invs |-> [invs[i] EXCEPT !.settled = TRUE]]
  <2>1. /\ DOMAIN invs' = 1..Len(invs) /\ Len(invs) \in Nat
        /\ \A i \in 1..Len(invs) : invs'[i] \in Invocations
    <3>1. DOMAIN invs = 1..Len(invs) /\ Len(invs) \in Nat
      OBVIOUS
    <3>2. DOMAIN invs' = DOMAIN invs
      BY <1>2
    <3>3. ASSUME NEW i \in DOMAIN invs PROVE invs'[i] \in Invocations
      <4>1. invs'[i] = [invs[i] EXCEPT !.settled = TRUE]
        BY <1>2
      <4>2. [invs[i] EXCEPT !.settled = TRUE] \in Invocations
        BY <1>1
      <4> QED
        BY <4>1, <4>2, Zenon
    <3> QED
      BY <3>1, <3>2, <3>3
  <2> QED
    <3>1. invs' = [i \in DOMAIN invs' |-> invs'[i]]
      BY <1>2
    <3> QED
      BY <2>1, <3>1, IsASeq
<1>3. CASE invs' = [i \in DOMAIN invs |-> [invs[i] EXCEPT !.open = FALSE]]
  <2>1. /\ DOMAIN invs' = 1..Len(invs) /\ Len(invs) \in Nat
        /\ \A i \in 1..Len(invs) : invs'[i] \in Invocations
    <3>1. DOMAIN invs = 1..Len(invs) /\ Len(invs) \in Nat
      OBVIOUS
    <3>2. DOMAIN invs' = DOMAIN invs
      BY <1>3
    <3>3. ASSUME NEW i \in DOMAIN invs PROVE invs'[i] \in Invocations
      <4>1. invs'[i] = [invs[i] EXCEPT !.open = FALSE]
        BY <1>3
      <4>2. [invs[i] EXCEPT !.open = FALSE] \in Invocations
        BY <1>1
      <4> QED
        BY <4>1, <4>2, Zenon
    <3> QED
      BY <3>1, <3>2, <3>3
  <2> QED
    <3>1. invs' = [i \in DOMAIN invs' |-> invs'[i]]
      BY <1>3
    <3> QED
      BY <2>1, <3>1, IsASeq
<1> QED
  BY <1>2, <1>3

\* A new mark of one invocation leaves their number alone.
LEMMA SettledKept ==
  ASSUME invs \in Seq(Invocations), NEW i, NEW settled \in BOOLEAN,
         invs' = [invs EXCEPT ![i].settled = settled]
  PROVE  invs' \in Seq(Invocations) /\ Len(invs') = Len(invs)
<1>1. i \in DOMAIN invs => [invs[i] EXCEPT !.settled = settled] \in Invocations
  <2> SUFFICES ASSUME i \in DOMAIN invs PROVE [invs[i] EXCEPT !.settled = settled] \in Invocations
    OBVIOUS
  <2>1. invs[i] \in Invocations
    OBVIOUS
  <2> QED
    BY <2>1 DEF Invocations
<1> DEFINE r == [invs[i] EXCEPT !.settled = settled]
<1>2. invs' = [invs EXCEPT ![i] = r]
  OBVIOUS
<1> HIDE DEF Invocations, r
<1>3. CASE i \in DOMAIN invs
  <2>1. r \in Invocations
    BY <1>1, <1>3 DEF r
  <2> QED
    BY <1>2, <1>3, <2>1
<1>4. CASE i \notin DOMAIN invs
  <2>1. invs' = invs
    BY <1>2, <1>4
  <2> QED
    BY <2>1
<1> QED
  BY <1>3, <1>4

\* The steps that find out what the run has.
LEMMA OpeningStepsKeep ==
  ASSUME FeatureBenchInv, StartRun \/ StartResume \/ Recover \/ Close \/ Resolve
  PROVE  FeatureBenchInv'
<1> USE DEF At
<1>0. /\ IsCommand(cli) /\ invs \in Seq(Invocations) /\ cli.n \in 0..MaxCommands
      /\ Len(invs) <= cli.n /\ Len(invs) \in Nat /\ MaxCommands \in Nat
  BY FeatureBenchAssumption DEF FeatureBenchInv, FeatureBenchTypes, IsCommand, Counting
<1>1. CASE StartRun
  <2>1. Steady
    BY <1>0, <1>1 DEF StartRun, native, Steady
  <2>2. cli.n + 1 \in 0..MaxCommands /\ procs = {} /\ Made = {} /\ invs = <<>>
    BY <1>0, <1>1 DEF StartRun, FeatureBenchInv, NothingYet
  <2>3. CASE created' = TRUE /\ cli' = [Off EXCEPT !.n = cli.n + 1, !.kind = "run", !.at = "begin"]
    <3>1. /\ IsCommand(cli') /\ cli'.at = "begin" /\ cli'.before = Unbound /\ ~cli'.launched
          /\ cli'.n = cli.n + 1
      BY <2>2, <2>3, UnboundIsReceipt DEF IsCommand, Off, Opening
    <3> QED
      BY <1>0, <1>1, <2>1, <2>2, <2>3, <3>1, OpeningKeeps DEF Opening, StartRun
  <2>4. CASE cli' = [Off EXCEPT !.n = cli.n + 1]
    <3>1. /\ IsCommand(cli') /\ cli'.at = "off" /\ cli'.before = Unbound /\ ~cli'.launched
          /\ cli'.n = cli.n + 1
      BY <2>2, <2>4, OffIs DEF Off
    <3> QED
      BY <1>0, <2>1, <3>1, OpeningKeeps DEF Opening
  <2> QED
    BY <1>1, <2>3, <2>4 DEF StartRun
<1>2. CASE StartResume
  <2>1. Steady
    BY <1>0, <1>2 DEF StartResume, native, Steady, stored
  <2>2. PICK kind \in {"resume", "report"}, redo \in SUBSET Task :
          /\ kind = "report" => redo = {}
          /\ cli' = [Off EXCEPT !.n = cli.n + 1, !.kind = kind, !.redo = redo, !.at = "recover"]
    BY <1>2 DEF StartResume
  <2>3. cli.n + 1 \in 0..MaxCommands
    <3>1. cli.n < MaxCommands
      BY <1>2 DEF StartResume
    <3> QED
      BY <1>0, <3>1
  <2>5. created'
    BY <1>2 DEF StartResume, stored
  <2>4. /\ IsCommand(cli') /\ cli'.at = "recover" /\ cli'.before = Unbound /\ ~cli'.launched
        /\ cli'.n = cli.n + 1
    BY <2>2, <2>3, UnboundIsReceipt DEF IsCommand, Off, Opening
  <2> QED
    BY <1>0, <2>1, <2>4, <2>5, OpeningKeeps DEF Opening
<1>3. CASE Recover
  <2>1. /\ cli.before = Unbound /\ ~cli.launched /\ Len(invs) < cli.n /\ created
    BY <1>3 DEF Recover, FeatureBenchInv, Unbinding, InputsAreSet, Counting, NothingYet, Opening, Judging
  <2>2. CASE /\ procs' = Killed
             /\ invs' = [i \in DOMAIN invs |-> [invs[i] EXCEPT !.settled = TRUE]]
             /\ GoTo(IF Open # {} THEN "close" ELSE "resolve")
    <3>1. invs' \in Seq(Invocations) /\ Len(invs') = Len(invs)
      BY <1>0, <2>2, InvocationsKept
    <3>2. Steady /\ procs' = {} /\ created'
      BY <1>3, <2>1, <2>2, <3>1 DEF native, Steady, Recover, Killed
    <3>3. GoTo("close") \/ GoTo("resolve")
      BY <2>2
    <3>4. GoesOn /\ cli'.at \in {"close", "resolve"} /\ ~cli'.launched
      BY <1>0, <2>1, <3>3, GoToGoesOn DEF Opening
    <3> QED
      BY <1>0, <2>1, <3>2, <3>4, OpeningKeeps DEF GoesOn, Opening
  <2>3. CASE Over /\ UNCHANGED <<procs, invs>>
    BY <1>0, <1>3, <2>3, OverKeeps DEF Recover, native, Steady
  <2> QED
    BY <1>3, <2>2, <2>3 DEF Recover
<1>4. CASE Close
  <2>1. /\ cli.before = Unbound /\ ~cli.launched /\ Len(invs) < cli.n /\ created /\ procs = {}
    BY <1>4 DEF Close, FeatureBenchInv, Unbinding, InputsAreSet, Counting, NothingYet, Opening,
       Judging, OwnProcess, Quiet
  <2>2. CASE /\ invs' = [i \in DOMAIN invs |-> [invs[i] EXCEPT !.open = FALSE]]
             /\ GoTo("resolve")
    <3>1. invs' \in Seq(Invocations) /\ Len(invs') = Len(invs)
      BY <1>0, <2>2, InvocationsKept
    <3>2. Steady /\ procs' = {} /\ created'
      BY <1>4, <2>1, <2>2, <3>1 DEF native, Steady, Close
    <3>4. GoesOn /\ cli'.at = "resolve" /\ ~cli'.launched
      BY <1>0, <2>1, <2>2, GoToGoesOn DEF Opening
    <3> QED
      BY <1>0, <2>1, <3>2, <3>4, OpeningKeeps DEF GoesOn, Opening
  <2>3. CASE Over /\ UNCHANGED invs
    BY <1>0, <1>4, <2>3, OverKeeps DEF Close, native, Steady
  <2> QED
    BY <1>4, <2>2, <2>3 DEF Close
<1>5. CASE Resolve
  <2>0. Steady
    BY <1>0, <1>5 DEF Resolve, native, Steady, stored
  <2>1. /\ cli.before = Unbound /\ ~cli.launched /\ Len(invs) < cli.n /\ created /\ procs = {}
    BY <1>5 DEF Resolve, FeatureBenchInv, Unbinding, InputsAreSet, Counting, NothingYet, Opening,
       Judging, OwnProcess, Quiet
  <2>2. CASE /\ cli.kind # "report" => (Made \subseteq Known /\ (cli.redo # {} => First # 0))
             /\ cli' = [cli EXCEPT !.at = "begin", !.first = First]
    <3>1. First \in Root \cup {0}
      BY FirstIsRoot DEF FeatureBenchInv, FeatureBenchTypes
    <3>2. /\ IsCommand(cli') /\ cli'.at = "begin" /\ cli'.n = cli.n /\ cli'.kind = cli.kind
          /\ ~cli'.launched /\ cli'.before = cli.before
      BY <1>0, <2>1, <2>2, <3>1 DEF IsCommand, Opening
    <3> QED
      BY <1>0, <1>5, <2>0, <2>1, <2>2, <3>2, OpeningKeeps DEF Opening, Resolve, stored
  <2>3. CASE Over
    BY <2>0, <2>3, OverKeeps
  <2> QED
    BY <1>5, <2>2, <2>3 DEF Resolve
<1> QED
  BY <1>1, <1>2, <1>3, <1>4, <1>5

\* The invocation is appended; it has no predictions yet.
LEMMA BeginKeeps ==
  ASSUME FeatureBenchInv, Begin
  PROVE  FeatureBenchInv'
<1> DEFINE new == Len(invs) + 1
           step == CASE cli.kind = "report" -> "finish" [] cli.redo # {} -> "unbind"
             [] OTHER -> "infer"
           was == IF cli.redo = {} THEN {} ELSE {t \in Task : Verified(t)}
<1> USE DEF FeatureBenchInv
<1>1. /\ cli.at = "begin" /\ invs' = Append(invs, [open |-> TRUE, settled |-> TRUE])
      /\ cli' = [cli EXCEPT !.inv = new, !.was = was, !.at = step]
      /\ UNCHANGED <<created, batches, receipt, metas, outputs, inputs, reports, totals, archive, procs>>
  BY DEF Begin, At, native
<1>2. /\ step \in {"finish", "unbind", "infer"} /\ was \in SUBSET Task
      /\ step \in Preparing => cli.kind # "report"
  <2>1. was \in SUBSET Task
    OBVIOUS
  <2> HIDE DEF was
  <2>2. CASE cli.kind = "report"
    <3>1. step = "finish"
      BY <2>2 DEF FeatureBenchTypes, IsCommand
    <3> HIDE DEF step
    <3> QED
      BY <2>1, <3>1 DEF Preparing
  <2>3. CASE cli.kind # "report"
    BY <2>1, <2>3
  <2> QED
    BY <2>2, <2>3
<1>3. /\ Len(invs) \in Nat /\ new \in Inv /\ new \in Nat /\ Len(invs) < cli.n
      /\ cli.n \in 0..MaxCommands /\ MaxCommands \in Nat
  BY <1>1, FeatureBenchAssumption DEF FeatureBenchTypes, Counting, Opening, IsCommand, Inv
<1>4. invs' \in Seq(Invocations) /\ Len(invs') = new /\ DOMAIN invs' = 1..new
      /\ DOMAIN invs = 1..Len(invs)
  <2>1. [open |-> TRUE, settled |-> TRUE] \in Invocations
    BY DEF Invocations
  <2> HIDE DEF Invocations
  <2> QED
    BY <1>1, <2>1 DEF FeatureBenchTypes
<1> HIDE DEF step, was
<1>5. /\ IsCommand(cli') /\ cli'.at = step /\ cli'.inv = new /\ cli'.n = cli.n
         /\ cli'.redo = cli.redo
      /\ cli'.before = cli.before /\ cli'.launched = cli.launched /\ cli'.kind = cli.kind
  BY <1>1, <1>2, <1>3 DEF FeatureBenchTypes, IsCommand, Working, Preparing
<1>6. Made' = Made /\ Known' = Known /\ \A i : Accepted(i)' <=> Accepted(i)
  BY <1>1, SameFiles
<1>7. procs = {} /\ ~cli.launched /\ cli.before = Unbound
  BY <1>1 DEF OwnProcess, Quiet, InputsAreSet, Judging, Unbinding, Opening
<1>8. /\ step \notin Opening \cup Staging \cup Judging
         \cup {"off", "inferring", "noteInfer", "noteEval"}
      /\ step \in Working /\ step \notin {"consolidate", "annotate", "begin"}
      /\ cli.at \notin {"unbind"}
  BY <1>1, <1>2 DEF Opening, Working, Preparing, Staging, Judging
<1>9. FeatureBenchTypes'
  BY <1>1, <1>4, <1>5 DEF FeatureBenchTypes
<1>10. Counting'
  BY <1>3, <1>4, <1>5, <1>8 DEF Counting
<1>11. NothingYet'
  BY <1>1 DEF NothingYet
<1>12. OwnProcess'
  BY <1>1, <1>7, <1>8, <1>5 DEF OwnProcess
<1>13. Directories'
  <2>1. Cardinality(Made) <= Len(invs) /\ Made = 1..Cardinality(Made)
    BY DEF Directories
  <2>2. Cardinality(Made) \in Nat
    <3>1. IsFiniteSet(1..MaxCommands) /\ Made \subseteq 1..MaxCommands
      BY <1>3, FS_Interval DEF Made, Root
    <3> QED
      BY <3>1, FS_Subset, FS_CardinalityType
  <2>3. \A r \in Root, t \in Task : outputs[r][t] \in Nat
    BY DEF FeatureBenchTypes
  <2> QED
    BY <1>1, <1>3, <1>4, <1>6, <1>7, <2>1, <2>2, <2>3 DEF Directories
<1>14. NewIsOwn'
  BY <1>1, <1>2, <1>5, <1>6, <1>8 DEF NewIsOwn
<1>15. InputsAreSet'
  <2>1. \A i \in Inv : i > new => i > Len(invs)
    BY <1>3 DEF Inv
  <2>2. inputs[new] = NoInput
    BY <1>3 DEF InputsAreSet
  <2>3. \A k \in DOMAIN batches : batches[k].inv <= new
    <3> TAKE k \in DOMAIN batches
    <3>1. batches[k] \in Batches /\ batches[k].inv <= Len(invs)
      BY DEF FeatureBenchTypes, InputsAreSet
    <3> QED
      BY <1>3, <3>1 DEF Batches, Inv
  <2> QED
    BY <1>1, <1>4, <1>5, <1>7, <1>8, <2>1, <2>2, <2>3 DEF InputsAreSet
<1>16. BoundScores'
  <2>1. \A bound : /\ TrueScores(bound) => TrueScores(bound)'
                   /\ NoneRedone(bound) => NoneRedone(bound)'
    BY <1>1 DEF TrueScores, NoneRedone
  <2> QED
    BY <1>1, <1>5, <2>1 DEF BoundScores, OnePerTask
<1>17. OwnReports'
  BY <1>5, <1>8 DEF OwnReports, Staging
<1>18. Unbinding' /\ NothingRevived'
  BY <1>5, <1>7, <1>8, UnboundIsReceipt DEF Unbinding, NothingRevived, Roles
<1>19. NeverBehind'
  <2>1. inputs[new] = NoInput
    BY <1>3 DEF InputsAreSet
  <2>2. \A i, j \in 1..new : i < j /\ j # new => i \in 1..Len(invs) /\ j \in 1..Len(invs)
    BY <1>3
  <2> QED
    BY <1>1, <1>4, <1>6, <2>1, <2>2 DEF NeverBehind
<1> QED
  BY <1>9, <1>10, <1>11, <1>12, <1>13, <1>14, <1>15, <1>16, <1>17, <1>18, <1>19

\* An entry of the run state is appended.
LEMMA RecordedIs ==
  ASSUME FeatureBenchTypes, Counting, cli.at \in Working, NEW phase \in Phases, NEW tasks \in SUBSET Task,
         NEW ok \in BOOLEAN, Recorded(phase, tasks, ok)
  PROVE  /\ batches' \in Seq(Batches) /\ Len(batches) \in Nat /\ DOMAIN batches = 1..Len(batches)
         /\ DOMAIN batches' = 1..(Len(batches) + 1)
         /\ \A k \in DOMAIN batches : batches'[k] = batches[k]
         /\ batches'[Len(batches) + 1] = Batch(phase, tasks, ok)
<1>1. cli.inv \in Inv /\ cli.root \in Root \cup {0}
  BY DEF FeatureBenchTypes, IsCommand, Counting
<1>2. Batch(phase, tasks, ok) \in Batches
  BY <1>1 DEF Batch, Batches
<1> HIDE DEF Batches
<1> QED
  BY <1>2 DEF FeatureBenchTypes, Recorded

\* Redo's preparations: the receipt first, then the mark.
LEMMA UnbindKeeps ==
  ASSUME FeatureBenchInv, Unbind
  PROVE  FeatureBenchInv'
<1> USE DEF FeatureBenchInv
<1>1. /\ cli.at = "unbind" /\ receipt' = Without(cli.redo) /\ GoTo("annotate")
      /\ UNCHANGED <<created, invs, batches, metas, outputs, inputs, reports, totals, archive, procs>>
  BY DEF Unbind, At, native
<1>2. GoesOn /\ cli'.at = "annotate" /\ cli'.bad = cli.bad /\ cli'.launched = cli.launched
  BY <1>1, GoToGoesOn DEF FeatureBenchTypes, Working, Preparing
<1>3. /\ IsReceipt(receipt') /\ \A b \in receipt'["task"] : b \in receipt["task"]
         /\ b.task \notin cli.redo
      /\ \A role \in {"input", "eval", "accepted"} : receipt'[role] = receipt[role]
  BY <1>1 DEF FeatureBenchTypes, IsReceipt, Without, Roles
<1>4. Made' = Made /\ Known' = Known /\ \A i : Accepted(i)' <=> Accepted(i)
  BY <1>1, <1>3 DEF Made, Known, Inferred, Accepted
<1>5. /\ cli.at \in Working /\ cli'.at \in Working /\ cli.at \in Preparing /\ cli'.at \in Preparing
      /\ cli.at \in Quiet /\ cli'.at \notin Opening \cup Staging \cup Judging
  BY <1>1, <1>2 DEF Working, Preparing, Quiet, Opening, Staging, Judging
<1>6. FeatureBenchTypes'
  BY <1>1, <1>2, <1>3 DEF FeatureBenchTypes, GoesOn
<1>7. Counting' /\ NothingYet' /\ OwnProcess' /\ OwnReports'
  BY <1>1, <1>2, <1>4, <1>5 DEF Counting, NothingYet, OwnProcess, OwnReports, GoesOn
<1>8. Directories' /\ NewIsOwn' /\ InputsAreSet'
  BY <1>1, <1>2, <1>4, <1>5 DEF Directories, NewIsOwn, InputsAreSet, GoesOn
<1>9. BoundScores'
  <2>1. \A bound : /\ TrueScores(bound) => TrueScores(bound)'
                   /\ NoneRedone(bound) => NoneRedone(bound)'
    BY <1>1 DEF TrueScores, NoneRedone
  <2>2. TrueScores(receipt') /\ OnePerTask(receipt') /\ NoneRedone(receipt')
    BY <1>3 DEF BoundScores, TrueScores, OnePerTask, NoneRedone
  <2> QED
    BY <1>2, <2>1, <2>2 DEF BoundScores, OnePerTask, GoesOn
<1>10. Unbinding' /\ NothingRevived'
  BY <1>1, <1>2, <1>3, UnboundIsReceipt DEF Unbinding, NothingRevived, GoesOn, Roles
<1>11. NeverBehind'
  BY <1>1, <1>4 DEF NeverBehind
<1> QED
  BY <1>6, <1>7, <1>8, <1>9, <1>10, <1>11

\* The mark of a redo: by now no report of its tasks is bound.
LEMMA AnnotateKeeps ==
  ASSUME FeatureBenchInv, Annotate
  PROVE  FeatureBenchInv'
<1> USE DEF FeatureBenchInv
<1>1. /\ cli.at = "annotate" /\ Recorded("cleanup", cli.redo, TRUE) /\ GoTo("infer")
      /\ UNCHANGED <<created, invs, receipt, metas, outputs, inputs, reports, totals, archive, procs>>
  BY DEF Annotate, At, native
<1>2. GoesOn /\ cli'.at = "infer" /\ cli'.bad = cli.bad /\ cli'.launched = cli.launched
  BY <1>1, GoToGoesOn DEF FeatureBenchTypes, Working, Preparing
<1>3. /\ cli.at \in Working /\ cli'.at \in Working /\ cli.at \in Preparing /\ cli'.at \in Preparing
      /\ cli.at \in Quiet /\ cli'.at \notin Opening \cup Staging \cup Judging
      /\ cli.redo \in SUBSET Task /\ cli.inv = Len(invs)
  BY <1>1, <1>2 DEF Working, Preparing, Quiet, Opening, Staging, Judging, FeatureBenchTypes,
     IsCommand, Counting
<1>4. /\ batches' \in Seq(Batches) /\ Len(batches) \in Nat /\ DOMAIN batches = 1..Len(batches)
      /\ DOMAIN batches' = 1..(Len(batches) + 1)
      /\ \A k \in DOMAIN batches : batches'[k] = batches[k]
      /\ batches'[Len(batches) + 1] = Batch("cleanup", cli.redo, TRUE)
  BY <1>1, <1>3, RecordedIs DEF Phases
<1> DEFINE last == Len(batches) + 1
<1>5. /\ batches'[last].phase = "cleanup" /\ batches'[last].inv = cli.inv
      /\ batches'[last].tasks = cli.redo
      /\ \A k \in DOMAIN batches' : k \in DOMAIN batches \/ k = last
      /\ DOMAIN batches \subseteq DOMAIN batches'
  BY <1>4 DEF Batch
<1> HIDE DEF last
<1>6. Made' = Made /\ Known' = Known /\ (\A i : Accepted(i)' <=> Accepted(i))
  <2>1. Made' = Made
    BY <1>1 DEF Made
  <2>2. Inferred' = Inferred
    BY <1>4, <1>5 DEF Inferred
  <2>3. Known' = Known
    BY <1>4, <2>2 DEF Known, Inferred
  <2>4. \A i : Accepted(i)' <=> Accepted(i)
    BY <1>1, <1>4, <1>5 DEF Accepted
  <2> QED
    BY <2>1, <2>3, <2>4
<1>7. FeatureBenchTypes'
  BY <1>1, <1>2, <1>4 DEF FeatureBenchTypes, GoesOn
<1>8. Counting' /\ NothingYet' /\ OwnProcess' /\ OwnReports'
  BY <1>1, <1>2, <1>3, <1>6 DEF Counting, NothingYet, OwnProcess, OwnReports, GoesOn
<1>9. Directories' /\ NewIsOwn'
  BY <1>1, <1>2, <1>3, <1>6 DEF Directories, NewIsOwn, GoesOn
<1>10. InputsAreSet'
  <2>1. Len(invs) \in Nat /\ Len(invs) <= Len(invs)
    BY DEF FeatureBenchTypes
  <2>2. \A k \in DOMAIN batches' : batches'[k].inv <= Len(invs)
    BY <1>3, <1>4, <1>5, <2>1 DEF InputsAreSet
  <2>3. \A k \in DOMAIN batches' : batches'[k].phase = "verifier"
        => inputs[batches'[k].inv] # NoInput
    BY <1>4, <1>5 DEF InputsAreSet
  <2> QED
    BY <1>1, <1>2, <1>3, <2>2, <2>3 DEF InputsAreSet, GoesOn
<1>11. BoundScores'
  <2>1. \A bound : TrueScores(bound) => TrueScores(bound)'
    BY <1>1 DEF TrueScores
  <2>2. NoneRedone(receipt)'
    BY <1>1, <1>4, <1>5 DEF BoundScores, NoneRedone, Unbinding
  <2>3. cli'.before = Unbound /\ cli.before = Unbound /\ NoneRedone(Unbound)'
    BY <1>1, <1>2, UnboundIsReceipt DEF GoesOn, Unbinding, NoneRedone, Roles
  <2> QED
    BY <1>1, <1>2, <2>1, <2>2, <2>3 DEF BoundScores, OnePerTask, GoesOn
<1>12. Unbinding' /\ NothingRevived'
  BY <1>1, <1>2, <1>3, UnboundIsReceipt DEF Unbinding, NothingRevived, GoesOn, Roles
<1>13. NeverBehind'
  BY <1>1, <1>6 DEF NeverBehind
<1> QED
  BY <1>7, <1>8, <1>9, <1>10, <1>11, <1>12, <1>13

-----------------------------------------------------------------------------
(* The inference *)

\* The inference is launched, or fails before it is.
LEMMA InferKeeps ==
  ASSUME FeatureBenchInv, Infer
  PROVE  FeatureBenchInv'
<1> DEFINE root == IF Fresh THEN 0 ELSE cli.first
           p == [kind |-> "infer", inv |-> cli.inv, tasks |-> Infers, root |-> root]
<1> USE DEF FeatureBenchInv
<1>1. /\ cli.at = "infer"
      /\ UNCHANGED <<created, batches, receipt, metas, outputs, inputs, reports, totals, archive>>
  BY DEF Infer, At, native
<1>2. /\ IsCommand(cli) /\ cli.inv \in Inv /\ cli.inv = Len(invs) /\ Len(invs) \in Nat
      /\ root \in Root \cup {0} /\ Infers \in SUBSET Task /\ Infers # {}
      /\ (cli.redo # {} => root = 0) /\ procs = {} /\ cli.before = cli.before
      /\ ~cli.launched
  <2>1. IsCommand(cli) /\ cli.inv \in Inv /\ cli.inv = Len(invs) /\ Len(invs) \in Nat
    BY <1>1 DEF FeatureBenchTypes, IsCommand, Counting, Working, Preparing
  <2>2. root \in Root \cup {0} /\ (cli.redo # {} => root = 0)
    BY <2>1 DEF IsCommand, Fresh
  <2>3. Infers \in SUBSET Task /\ Infers # {}
    BY <2>1, FeatureBenchAssumption DEF IsCommand, Infers
  <2>4. procs = {} /\ ~cli.launched
    BY <1>1 DEF OwnProcess, Quiet, Preparing, InputsAreSet, Judging
  <2> QED
    BY <2>1, <2>2, <2>3, <2>4
<1> HIDE DEF root
<1>3. Made' = Made /\ Known' = Known /\ (\A i : Accepted(i)' <=> Accepted(i))
  BY <1>1, SameFiles
<1>4. /\ cli.at \in Working /\ cli.at \in Preparing /\ cli.at \notin Opening \cup {"off"}
  BY <1>1 DEF Working, Preparing, Opening
<1>5. \A bound : /\ TrueScores(bound) => TrueScores(bound)'
                 /\ NoneRedone(bound) => NoneRedone(bound)'
  BY <1>1 DEF TrueScores, NoneRedone
\* Whatever comes of it, so much is kept.
<1>6. ASSUME IsCommand(cli'), cli'.at \in {"inferring", "noteInfer"}, cli'.inv = cli.inv,
             cli'.n = cli.n, cli'.redo = cli.redo, cli'.before = cli.before, cli'.launched = cli.launched,
             invs' \in Seq(Invocations), Len(invs') = Len(invs), procs' \subseteq {p},
             cli'.at = "inferring" => cli'.root = root, cli'.at = "noteInfer" => cli'.bad,
             root # 0 => root \in Made \/ procs' = {}
      PROVE  FeatureBenchInv'
  <2>1. /\ cli'.at \in Working /\ cli'.at # "consolidate" /\ cli'.at # "noteEval"
        /\ cli'.at \notin Preparing \cup Opening \cup Staging \cup Judging \cup Quiet \cup {"off"}
    BY <1>6 DEF Working, Preparing, Opening, Staging, Judging, Quiet
  <2>2. p \in Processes /\ p.kind = "infer" /\ p.inv = cli.inv /\ p.root = root
    BY <1>2 DEF Processes
  <2> HIDE DEF p
  <2>3. FeatureBenchTypes'
    BY <1>1, <1>6, <2>2 DEF FeatureBenchTypes
  <2>4. Counting' /\ NothingYet'
    BY <1>1, <1>4, <1>6, <2>1 DEF Counting, NothingYet
  <2>5. OwnProcess'
    BY <1>1, <1>2, <1>6, <2>1, <2>2 DEF OwnProcess
  <2>6. Directories'
    BY <1>1, <1>2, <1>3, <1>4, <1>6, <2>1, <2>2 DEF Directories
  <2>7. NewIsOwn'
    BY <1>1, <1>2, <1>3, <1>4, <1>6, <2>1 DEF NewIsOwn
  <2>8. InputsAreSet'
    BY <1>1, <1>2, <1>4, <1>6, <2>1 DEF InputsAreSet
  <2>9. BoundScores'
    BY <1>1, <1>5, <1>6 DEF BoundScores, OnePerTask
  <2>10. OwnReports' /\ Unbinding' /\ NothingRevived'
    BY <1>1, <1>6, <2>1 DEF OwnReports, Unbinding, NothingRevived, Staging, Preparing
  <2>11. NeverBehind'
    <3>1. DOMAIN invs' = DOMAIN invs
      BY <1>6 DEF FeatureBenchTypes
    <3> QED
      BY <1>1, <1>3, <3>1 DEF NeverBehind
  <2> QED
    BY <2>3, <2>4, <2>5, <2>6, <2>7, <2>8, <2>9, <2>10, <2>11
<1>7. CASE /\ ~Fresh => metas[root] = Task
           /\ procs' = procs \cup {p}
           /\ invs' = [invs EXCEPT ![cli.inv].settled = FALSE]
           /\ cli' = [cli EXCEPT !.at = "inferring", !.root = root]
  <2>1. /\ IsCommand(cli') /\ cli'.at = "inferring" /\ cli'.inv = cli.inv /\ cli'.root = root
        /\ cli'.n = cli.n /\ cli'.redo = cli.redo /\ cli'.before = cli.before
        /\ cli'.launched = cli.launched
    BY <1>2, <1>7 DEF IsCommand, Working
  <2>2. invs' \in Seq(Invocations) /\ Len(invs') = Len(invs)
    BY <1>7, SettledKept DEF FeatureBenchTypes
  <2>3. root # 0 => root \in Made
    <3>1. ~Fresh /\ root # 0 => metas[root] # {} /\ root \in Root
      BY <1>2, <1>7, FeatureBenchAssumption
    <3>2. Fresh => root = 0
      BY DEF root
    <3> QED
      BY <3>1, <3>2 DEF Made
  <2> QED
    BY <1>2, <1>6, <1>7, <2>1, <2>2, <2>3
<1>8. CASE cli' = [cli EXCEPT !.at = "noteInfer", !.root = root, !.bad = TRUE]
           /\ UNCHANGED <<procs, invs>>
  <2>1. /\ IsCommand(cli') /\ cli'.at = "noteInfer" /\ cli'.inv = cli.inv /\ cli'.bad
        /\ cli'.n = cli.n /\ cli'.redo = cli.redo /\ cli'.before = cli.before
        /\ cli'.launched = cli.launched
    BY <1>2, <1>8 DEF IsCommand, Working
  <2>2. invs' \in Seq(Invocations) /\ Len(invs') = Len(invs) /\ procs' = {}
    BY <1>2, <1>8 DEF FeatureBenchTypes
  <2> QED
    BY <1>2, <1>6, <1>8, <2>1, <2>2
<1>9. CASE Fails("finish") /\ UNCHANGED <<procs, invs>>
  <2>1. GoesOn /\ cli'.at = "finish" /\ cli'.launched = cli.launched
    BY <1>2, <1>9, FailsGoesOn DEF Working
  <2>2. Steady
    BY <1>1, <1>9 DEF Steady, native, FeatureBenchTypes
  <2> QED
    BY <1>4, <2>1, <2>2, GoingOnKeeps
<1> QED
  BY <1>7, <1>8, <1>9 DEF Infer, root

\* The directory of an inference that had none is one that nobody knew.
LEMMA LocatedIs ==
  ASSUME cli.root \in Root \cup {0}
  PROVE  /\ Located \in Root \cup {0}
         /\ cli.root = 0 /\ Located # 0 => Located \in Made \ Known
<1>1. Made \subseteq Root
  BY DEF Made
<1>2. CASE cli.root # 0
  BY <1>2 DEF Located
<1>3. CASE cli.root = 0 /\ Made \subseteq Known
  BY <1>3 DEF Located
<1>4. CASE cli.root = 0 /\ ~(Made \subseteq Known)
  <2>1. PICK r \in Made : r \notin Known
    BY <1>4
  <2>2. (CHOOSE s \in Made : s \notin Known) \in Made \ Known
    BY <2>1, Zenon
  <2>3. Located = CHOOSE s \in Made : s \notin Known
    BY <1>4, Zenon DEF Located
  <2> QED
    BY <1>1, <2>2, <2>3
<1> QED
  BY <1>2, <1>3, <1>4

\* The process is back, and its directory is looked for.
LEMMA InferringKeeps ==
  ASSUME FeatureBenchInv, Inferring
  PROVE  FeatureBenchInv'
<1> USE DEF FeatureBenchInv
<1>1. /\ cli.at = "inferring"
      /\ UNCHANGED <<created, batches, receipt, metas, outputs, inputs, reports, totals, archive>>
  BY DEF Inferring, At, native
<1>2. PICK settled \in BOOLEAN, failed \in BOOLEAN :
        /\ ~settled => failed
        /\ Returns(settled)
        /\ cli' = [cli EXCEPT !.at = "noteInfer", !.root = Located, !.bad = failed \/ Located = 0]
  BY DEF Inferring
<1>3. /\ cli.at \in Working \ (Preparing \cup Opening \cup {"off"}) /\ ~cli.launched
      /\ cli.inv = Len(invs)
  BY <1>1 DEF Working, Preparing, Opening, InputsAreSet, Judging, Counting
<1>4. cli.root \in Root \cup {0}
  BY DEF FeatureBenchTypes, IsCommand
<1>5. Located \in Root \cup {0} /\ (cli.root = 0 /\ Located # 0 => Located \in Made \ Known)
  BY <1>4, LocatedIs
<1>6. /\ IsCommand(cli') /\ cli'.at = "noteInfer" /\ cli'.root = Located /\ cli'.inv = cli.inv
      /\ cli'.n = cli.n /\ cli'.redo = cli.redo /\ cli'.before = cli.before
      /\ cli'.launched = cli.launched /\ (~cli'.bad => settled /\ Located # 0)
  <2>1. IsCommand(cli)
    BY DEF FeatureBenchTypes
  <2>2. (failed \/ Located = 0) \in BOOLEAN
    OBVIOUS
  <2> DEFINE b == failed \/ Located = 0
  <2>3. ~b => settled /\ Located # 0
    BY <1>2
  <2>4. cli' = [cli EXCEPT !.at = "noteInfer", !.root = Located, !.bad = b] /\ b \in BOOLEAN
    BY <1>2, <2>2
  <2> HIDE DEF b
  <2> QED
    BY <1>5, <2>1, <2>3, <2>4 DEF IsCommand, Working
<1>7. /\ procs' \subseteq procs /\ (settled => procs' = {})
      /\ invs' \in Seq(Invocations) /\ Len(invs') = Len(invs) /\ DOMAIN invs' = DOMAIN invs
  <2>1. settled => procs' = {p \in procs : p.inv # cli.inv}
    BY <1>2 DEF Returns
  <2>2. ~settled => procs' = procs
    BY <1>2 DEF Returns
  <2>3. settled => procs' = {}
    BY <1>3, <2>1 DEF OwnProcess
  <2>4. invs' \in Seq(Invocations) /\ Len(invs') = Len(invs)
    BY <1>2, SettledKept DEF Returns, FeatureBenchTypes
  <2> QED
    BY <2>2, <2>3, <2>4 DEF FeatureBenchTypes
<1>8. Made' = Made /\ Known' = Known /\ (\A i : Accepted(i)' <=> Accepted(i))
  BY <1>1, SameFiles
<1>9. /\ cli'.at \in Working /\ cli'.at \notin {"consolidate", "noteEval", "inferring", "begin"}
      /\ cli'.at \notin Preparing \cup Opening \cup Staging \cup Judging \cup Quiet \cup {"off"}
  BY <1>6 DEF Working, Preparing, Opening, Staging, Judging, Quiet
<1>10. FeatureBenchTypes'
  BY <1>1, <1>6, <1>7 DEF FeatureBenchTypes
<1>11. Counting' /\ NothingYet'
  BY <1>1, <1>3, <1>6, <1>7, <1>9 DEF Counting, NothingYet
<1>12. OwnProcess'
  BY <1>1, <1>3, <1>6, <1>7, <1>9 DEF OwnProcess
<1>13. Directories'
  BY <1>1, <1>7, <1>8, <1>9 DEF Directories
<1>14. NewIsOwn'
  <2>1. ~cli'.bad /\ cli.redo # {} => \A t \in Task : outputs[cli'.root][t] \in {0, cli.inv}
    BY <1>1, <1>5, <1>6 DEF NewIsOwn
  <2> QED
    BY <1>1, <1>6, <1>9, <2>1 DEF NewIsOwn
<1>15. InputsAreSet'
  BY <1>1, <1>3, <1>6, <1>7, <1>9 DEF InputsAreSet
<1>16. BoundScores'
  <2>1. \A bound : /\ TrueScores(bound) => TrueScores(bound)'
                   /\ NoneRedone(bound) => NoneRedone(bound)'
    BY <1>1 DEF TrueScores, NoneRedone
  <2> QED
    BY <1>1, <1>6, <2>1 DEF BoundScores, OnePerTask
<1>17. OwnReports' /\ Unbinding' /\ NothingRevived'
  BY <1>1, <1>6, <1>9 DEF OwnReports, Unbinding, NothingRevived, Staging, Preparing
<1>18. NeverBehind'
  BY <1>1, <1>7, <1>8 DEF NeverBehind
<1> QED
  BY <1>10, <1>11, <1>12, <1>13, <1>14, <1>15, <1>16, <1>17, <1>18

\* The inference is recorded, and its directory known from now on.
LEMMA NoteInferKeeps ==
  ASSUME FeatureBenchInv, NoteInfer
  PROVE  FeatureBenchInv'
<1> DEFINE step == IF cli.bad THEN "cleanup" ELSE "consolidate"
           last == Len(batches) + 1
<1> USE DEF FeatureBenchInv
<1>1. /\ cli.at = "noteInfer" /\ Recorded("inference", Infers, ~cli.bad) /\ GoTo(step)
      /\ UNCHANGED <<created, invs, receipt, metas, outputs, inputs, reports, totals, archive, procs>>
  BY DEF NoteInfer, At, native
<1>2. IsCommand(cli) /\ Infers \in SUBSET Task /\ (~cli.bad) \in BOOLEAN /\ cli.at \in Working
      /\ cli.inv = Len(invs) /\ ~cli.launched
  BY <1>1 DEF FeatureBenchTypes, IsCommand, Infers, Working, Counting, InputsAreSet, Judging
<1>3. /\ step \in {"cleanup", "consolidate"} /\ (step = "consolidate" => ~cli.bad)
      /\ step \in Opening \cup Working
  BY DEF Working, Staging
<1> HIDE DEF step
<1>4. GoesOn /\ cli'.at = step /\ cli'.bad = cli.bad /\ cli'.launched = cli.launched
  BY <1>1, <1>2, <1>3, GoToGoesOn
<1>5. /\ batches' \in Seq(Batches) /\ Len(batches) \in Nat /\ DOMAIN batches = 1..Len(batches)
      /\ DOMAIN batches' = 1..(Len(batches) + 1)
      /\ \A k \in DOMAIN batches : batches'[k] = batches[k]
      /\ batches'[Len(batches) + 1] = Batch("inference", Infers, ~cli.bad)
  BY <1>1, <1>2, RecordedIs DEF Phases
<1>6. /\ batches'[last].phase = "inference" /\ batches'[last].inv = cli.inv
      /\ \A k \in DOMAIN batches' : k \in DOMAIN batches \/ k = last
      /\ DOMAIN batches \subseteq DOMAIN batches'
  BY <1>5 DEF Batch
<1> HIDE DEF last
<1>7. Made' = Made /\ (\A i : Accepted(i)' <=> Accepted(i))
  <2>1. Made' = Made
    BY <1>1 DEF Made
  <2>2. \A i : Accepted(i)' <=> Accepted(i)
    BY <1>1, <1>5, <1>6 DEF Accepted
  <2> QED
    BY <2>1, <2>2
<1>8. /\ cli'.at \in Working /\ cli'.at \notin {"noteInfer", "noteEval", "inferring", "begin"}
      /\ cli'.at \notin Preparing \cup Opening \cup Judging \cup (Staging \ {"consolidate"})
         \cup {"off"}
      /\ (cli'.at \in Quiet \cup Staging => cli'.at = "consolidate")
  BY <1>3, <1>4 DEF Working, Preparing, Opening, Staging, Judging, Quiet
<1>9. FeatureBenchTypes'
  BY <1>1, <1>4, <1>5 DEF FeatureBenchTypes, GoesOn
<1>10. Counting' /\ NothingYet'
  BY <1>1, <1>4, <1>7, <1>8 DEF Counting, NothingYet, GoesOn, Working
<1>11. OwnProcess'
  BY <1>1, <1>2, <1>3, <1>4, <1>8 DEF OwnProcess, GoesOn
<1>12. Directories'
  BY <1>1, <1>7, <1>8 DEF Directories
<1>13. NewIsOwn'
  BY <1>1, <1>3, <1>4, <1>8 DEF NewIsOwn, GoesOn
<1>14. InputsAreSet'
  <2>1. Len(invs) \in Nat /\ Len(invs) <= Len(invs)
    BY DEF FeatureBenchTypes
  <2>2. \A k \in DOMAIN batches' : batches'[k].inv <= Len(invs)
    BY <1>2, <1>5, <1>6, <2>1 DEF InputsAreSet
  <2>3. \A k \in DOMAIN batches' : batches'[k].phase = "verifier"
        => inputs[batches'[k].inv] # NoInput
    BY <1>5, <1>6 DEF InputsAreSet
  <2>4. inputs[cli.inv] = NoInput
    BY <1>1 DEF InputsAreSet
  <2> QED
    BY <1>1, <1>2, <1>4, <1>8, <2>2, <2>3, <2>4 DEF InputsAreSet, GoesOn
<1>15. BoundScores'
  <2>1. \A bound : /\ TrueScores(bound) => TrueScores(bound)'
                   /\ NoneRedone(bound) => NoneRedone(bound)'
    BY <1>1, <1>5, <1>6 DEF TrueScores, NoneRedone
  <2> QED
    BY <1>1, <1>4, <2>1 DEF BoundScores, OnePerTask, GoesOn
<1>16. OwnReports' /\ Unbinding' /\ NothingRevived'
  BY <1>1, <1>4, <1>8 DEF OwnReports, Unbinding, NothingRevived, Staging, Preparing, GoesOn
<1>17. NeverBehind'
  BY <1>1, <1>7 DEF NeverBehind
<1> QED
  BY <1>9, <1>10, <1>11, <1>12, <1>13, <1>14, <1>15, <1>16, <1>17

-----------------------------------------------------------------------------
(* The evaluation *)

\* The last accepted invocation, if any.
LEMMA LatestIs ==
  ASSUME invs \in Seq(Invocations)
  PROVE  /\ Latest \in Nat /\ Latest <= Len(invs)
         /\ Latest = 0 => \A i \in DOMAIN invs : ~Accepted(i)
         /\ Latest # 0 => /\ Latest \in DOMAIN invs /\ Accepted(Latest)
                          /\ \A i \in DOMAIN invs : Accepted(i) => i <= Latest
<1> DEFINE all == {i \in DOMAIN invs : Accepted(i)}
<1>1. /\ Len(invs) \in Nat /\ DOMAIN invs = 1..Len(invs)
      /\ all \in SUBSET Nat /\ \A x \in all : x <= Len(invs) /\ x # 0
  OBVIOUS
<1>2. CASE all = {}
  <2>1. Latest = 0
    BY <1>2, Zenon DEF Latest
  <2> QED
    BY <1>1, <1>2, <2>1
<1>3. CASE all # {}
  <2>1. Latest = Max(all)
    BY <1>3, Zenon DEF Latest
  <2> HIDE DEF all
  <2>2. Latest \in all /\ \A x \in all : x <= Latest
    BY <1>1, <1>3, <2>1, MaxOf
  <2> QED
    BY <1>1, <2>2 DEF all
<1> QED
  BY <1>2, <1>3

\* An invocation that is accepted has predictions.
LEMMA AcceptedHasInput ==
  ASSUME InputsAreSet, NEW i, Accepted(i)
  PROVE  inputs[i] # NoInput
BY DEF InputsAreSet, Accepted

\* The predictions to be evaluated are put together: new ones for what is redone, those
\* accepted last for the rest.
LEMMA ConsolidateKeeps ==
  ASSUME FeatureBenchInv, Consolidate
  PROVE  FeatureBenchInv'
<1> DEFINE now == outputs[cli.root]
           old == IF Latest = 0 THEN NoInput.preds ELSE inputs[Latest].preds
           new == [t \in Task |-> IF t \in Required THEN now[t] ELSE old[t]]
           i == cli.inv
<1> USE DEF FeatureBenchInv
<1>1. /\ cli.at = "consolidate"
      /\ UNCHANGED <<created, invs, batches, receipt, metas, outputs, reports, totals, archive, procs>>
      /\ \/ /\ Required # {} => {t \in Task : now[t] # 0} = Required
            /\ \A t \in Task : new[t] # 0
            /\ inputs' = [inputs EXCEPT ![i] = [root |-> cli.root, preds |-> new]]
            /\ GoTo("bind") \/ Fails("cleanup")
         \/ Fails("cleanup") /\ UNCHANGED inputs
  BY DEF Consolidate, At, stored
<1>2. /\ IsCommand(cli) /\ cli.at \in Working /\ cli.at \in Staging /\ i \in Inv /\ i = Len(invs)
      /\ invs \in Seq(Invocations) /\ DOMAIN invs = 1..Len(invs) /\ Len(invs) \in Nat
      /\ cli.root \in Root /\ now \in [Task -> Nat] /\ inputs[i] = NoInput
      /\ inputs \in [Inv -> [root : Root \cup {0}, preds : [Task -> Nat]]]
      /\ procs = {} /\ ~cli.launched
  <2>1. /\ IsCommand(cli) /\ cli.at \in Working /\ cli.at \in Staging /\ cli.at \in Quiet
        /\ cli.at \notin Judging \cup {"cleanup", "noteEval", "finish"}
    BY <1>1 DEF FeatureBenchTypes, Working, Staging, Quiet, Judging
  <2>2. i = Len(invs) /\ i # 0 /\ cli.root # 0 /\ procs = {} /\ ~cli.launched /\ inputs[i] = NoInput
    BY <1>1, <2>1 DEF Counting, NewIsOwn, OwnProcess, InputsAreSet
  <2>3. i \in Inv /\ cli.root \in Root
    BY <2>1, <2>2 DEF IsCommand
  <2> QED
    BY <2>1, <2>2, <2>3 DEF FeatureBenchTypes
<1>3. CASE Fails("cleanup") /\ UNCHANGED inputs
  <2>1. GoesOn /\ cli'.at = "cleanup" /\ cli'.launched = cli.launched
    BY <1>2, <1>3, FailsGoesOn DEF Working
  <2>2. Steady
    BY <1>1, <1>2, <1>3 DEF Steady, native
  <2> QED
    BY <1>2, <2>1, <2>2, GoingOnKeeps
<1>4. ASSUME Required # {} => {t \in Task : now[t] # 0} = Required,
             \A t \in Task : new[t] # 0,
             inputs' = [inputs EXCEPT ![i] = [root |-> cli.root, preds |-> new]],
             GoTo("bind") \/ Fails("cleanup")
      PROVE  FeatureBenchInv'
  <2>1. GoesOn /\ cli'.at \in {"bind", "cleanup"} /\ cli'.launched = cli.launched
    BY <1>2, <1>4, GoToGoesOn, FailsGoesOn DEF Working, Staging
  <2>2. /\ cli'.at \in Working /\ cli'.at \notin {"consolidate", "noteEval", "noteInfer",
            "inferring", "begin"}
        /\ cli'.at \notin Preparing \cup Opening \cup Judging \cup {"off", "invalidate", "evaluate"}
    BY <2>1 DEF Working, Preparing, Opening, Staging, Judging
  <2>3. /\ Latest \in Nat /\ Latest <= i
           /\ (Latest # 0 => Latest \in DOMAIN invs /\ Accepted(Latest))
        /\ (Latest = 0 => \A h \in DOMAIN invs : ~Accepted(h))
        /\ (Latest # 0 => \A h \in DOMAIN invs : Accepted(h) => h <= Latest)
    BY <1>2, LatestIs
  <2>4. /\ old \in [Task -> Nat] /\ (Latest = 0 => \A t \in Task : old[t] = 0)
        /\ (Latest # 0 => Latest \in Inv /\ \A t \in Task : old[t] = inputs[Latest].preds[t])
        /\ \A t \in Task : old[t] <= i
    <3>1. CASE Latest = 0
      BY <1>2, <3>1 DEF NoInput, Inv
    <3>2. CASE Latest # 0
      <4>1. Latest \in Inv
        BY <1>2, <2>3, <3>2, FeatureBenchAssumption DEF Inv
      <4>2. old = inputs[Latest].preds
        BY <3>2
      <4>3. \A t \in Task : inputs[Latest].preds[t] <= Latest /\ inputs[Latest].preds[t] \in Nat
        BY <1>2, <4>1 DEF InputsAreSet
      <4>4. i \in Nat
        BY <1>2
      <4> QED
        BY <1>2, <2>3, <3>2, <4>1, <4>2, <4>3, <4>4
    <3> QED
      BY <3>1, <3>2
  <2>5. \A t \in Task : new[t] = IF t \in Required THEN now[t] ELSE old[t]
    OBVIOUS
  <2>6. new \in [Task -> Nat] /\ \A t \in Task : new[t] <= i
    <3>1. \A t \in Task : now[t] <= i
      BY <1>2 DEF Directories
    <3> QED
      BY <1>2, <2>4, <3>1
  <2> HIDE DEF new, old, now
  <2>7. /\ inputs' \in [Inv -> [root : Root \cup {0}, preds : [Task -> Nat]]]
        /\ inputs'[i].preds = new /\ \A h \in Inv : h # i => inputs'[h] = inputs[h]
    BY <1>2, <1>4, <2>6
  <2>8. inputs'[i] # NoInput
    <3>1. PICK t \in Task : TRUE
      BY FeatureBenchAssumption
    <3>2. NoInput.preds[t] = 0 /\ new[t] # 0
      BY <1>4, <3>1 DEF NoInput
    <3> QED
      BY <2>7, <3>2
  <2>9. \A h \in Inv : inputs[h] # NoInput => inputs'[h] = inputs[h]
    BY <1>2, <2>7
  <2>10. Made' = Made /\ Known' = Known /\ (\A h : Accepted(h)' <=> Accepted(h))
    BY <1>1, SameFiles
  <2>11. FeatureBenchTypes'
    BY <1>1, <2>1, <2>7 DEF FeatureBenchTypes, GoesOn
  <2>12. Counting' /\ NothingYet'
    BY <1>1, <1>2, <2>1, <2>2, <2>10 DEF Counting, NothingYet, GoesOn
  <2>13. OwnProcess'
    BY <1>1, <1>2, <2>1, <2>2 DEF OwnProcess, GoesOn
  <2>14. Directories' /\ NewIsOwn'
    BY <1>1, <1>2, <2>1, <2>2, <2>10 DEF Directories, NewIsOwn, GoesOn
  <2>15. InputsAreSet'
    <3>1. \A h \in Inv : h > Len(invs) => inputs'[h] = NoInput
      <4> TAKE h \in Inv
      <4> HAVE h > Len(invs)
      <4>2. i = Len(invs) /\ Len(invs) \in Nat /\ h \in Nat
        BY <1>2, FeatureBenchAssumption DEF Inv
      <4> HIDE DEF i
      <4>1. h # i
        BY <4>2
      <4> QED
        BY <2>7, <4>1 DEF InputsAreSet
    <3>2. \A h \in Inv, t \in Task : inputs'[h].preds[t] <= h
      BY <2>6, <2>7 DEF InputsAreSet
    <3>3. \A k \in DOMAIN batches : batches[k].phase = "verifier"
          => inputs'[batches[k].inv] # NoInput
      <4> TAKE k \in DOMAIN batches
      <4>1. batches[k] \in Batches
        BY DEF FeatureBenchTypes
      <4>2. batches[k].inv \in Inv
        BY <4>1 DEF Batches
      <4> QED
        BY <2>9, <4>2 DEF InputsAreSet
    <3> QED
      BY <1>1, <1>2, <2>1, <2>2, <2>8, <3>1, <3>2, <3>3 DEF InputsAreSet, GoesOn
  <2>16. BoundScores'
    <3>1. \A bound \in {receipt, cli.before} : TrueScores(bound)'
      <4> TAKE bound \in {receipt, cli.before}
      <4>1. TrueScores(bound)
        BY DEF BoundScores
      <4>2. \A b \in bound["task"] : b.inv # i
        BY <1>2, <4>1 DEF TrueScores
      <4>3. \A b \in bound["task"] : inputs'[b.inv] = inputs[b.inv]
        BY <1>4, <4>2
      <4> QED
        BY <4>1, <4>3 DEF TrueScores
    <3>2. \A bound : NoneRedone(bound) => NoneRedone(bound)'
      BY <1>1 DEF NoneRedone
    <3> QED
      BY <1>1, <2>1, <3>1, <3>2 DEF BoundScores, OnePerTask, GoesOn
  <2>17. OwnReports' /\ Unbinding' /\ NothingRevived'
    BY <1>1, <2>1, <2>2 DEF OwnReports, Unbinding, NothingRevived, Preparing, GoesOn
  <2>18. NeverBehind'
    <3>1. ASSUME NEW h \in DOMAIN invs, h < i, Accepted(h), NEW t \in Task
          PROVE  inputs[h].preds[t] <= new[t]
      <4>1. Latest # 0 /\ Latest \in DOMAIN invs /\ h <= Latest /\ Accepted(Latest)
        BY <2>3, <3>1
      <4>2. h \in Inv /\ inputs[h].preds[t] \in Nat /\ inputs[h].preds[t] <= h
        BY <1>2, <3>1, FeatureBenchAssumption DEF InputsAreSet, Inv
      <4>3. inputs[Latest] # NoInput
        BY <4>1, AcceptedHasInput
      <4>4. inputs[h].preds[t] <= inputs[Latest].preds[t]
        <5>1. CASE h = Latest
          BY <4>2, <5>1
        <5>2. CASE h # Latest
          <6>1. h < Latest
            BY <1>2, <4>1, <5>2
          <6> QED
            BY <3>1, <4>1, <4>3, <6>1 DEF NeverBehind
        <5> QED
          BY <5>1, <5>2
      <4>5. CASE t \in Required
        <5>1. cli.redo # {} /\ Required = cli.redo
          BY <4>1, <4>5 DEF Required
        <5>2. now[t] # 0
          BY <1>4, <2>5, <4>5
        <5>3. now[t] = i
          BY <1>1, <5>1, <5>2 DEF NewIsOwn, now
        <5> QED
          BY <1>2, <2>5, <3>1, <4>2, <4>5, <5>3
      <4>6. CASE t \notin Required
        BY <2>4, <2>5, <4>1, <4>4, <4>6
      <4> QED
        BY <4>5, <4>6
    <3>2. \A h \in DOMAIN invs : h \in Inv /\ (h # i => inputs'[h] = inputs[h])
      <4>1. DOMAIN invs \subseteq Inv
        <5>1. i = Len(invs) /\ i \in 1..MaxCommands /\ DOMAIN invs = 1..Len(invs)
          BY <1>2 DEF Inv
        <5> HIDE DEF i
        <5> QED
          BY <5>1, FeatureBenchAssumption DEF Inv
      <4> QED
        BY <2>7, <4>1
    <3>3. \A h, j \in DOMAIN invs : h < j => h # i
      BY <1>2
    <3> QED
      BY <1>1, <2>7, <2>10, <3>1, <3>2, <3>3 DEF NeverBehind
  <2> QED
    BY <2>11, <2>12, <2>13, <2>14, <2>15, <2>16, <2>17, <2>18
<1> QED
  BY <1>1, <1>3, <1>4

\* What the receipt is after an update, by role.
LEMMA WithIs ==
  ASSUME IsReceipt(receipt), NEW adds
  PROVE  /\ IsReceipt(With(adds))
         /\ \A role \in Roles : With(adds)[role] \subseteq receipt[role] \cup adds[role]
         /\ \A role \in Roles : adds[role] \subseteq With(adds)[role]
         /\ \A role \in {"accepted", "input", "eval"} : \A b \in receipt[role] :
              (\A a \in adds[role] : a.inv # b.inv) => b \in With(adds)[role]
         /\ \A b \in With(adds)["task"] : b \notin adds["task"] =>
              \A a \in adds["task"] : a.task # b.task
<1>1. DOMAIN receipt = Roles
  BY DEF IsReceipt
<1>2. With(adds) = [role \in Roles |->
                     {b \in receipt[role] : ~Replaced(role, b, adds)} \cup adds[role]]
  BY <1>1 DEF With
<1>3. IsReceipt(With(adds))
  BY <1>2 DEF IsReceipt
<1>4. \A role \in Roles : With(adds)[role] =
        {b \in receipt[role] : ~Replaced(role, b, adds)} \cup adds[role]
  BY <1>2
<1>5. ASSUME NEW role \in {"accepted", "input", "eval"}, NEW b \in receipt[role],
             \A a \in adds[role] : a.inv # b.inv
      PROVE  b \in With(adds)[role]
  <2>1. ~Replaced(role, b, adds)
    BY <1>5 DEF Replaced
  <2> QED
    BY <1>4, <2>1 DEF Roles
<1>6. ASSUME NEW b \in With(adds)["task"], b \notin adds["task"], NEW a \in adds["task"]
      PROVE  a.task # b.task
  <2>1. ~Replaced("task", b, adds)
    BY <1>4, <1>6 DEF Roles
  <2> QED
    BY <2>1 DEF Replaced
<1>7. \A role \in Roles : /\ With(adds)[role] \subseteq receipt[role] \cup adds[role]
                          /\ adds[role] \subseteq With(adds)[role]
  BY <1>4
<1> QED
  BY <1>3, <1>5, <1>6, <1>7

\* Acceptance of earlier invocations does not grow with what is bound and recorded now.
LEMMA NeverBehindKept ==
  ASSUME NeverBehind, invs \in Seq(Invocations), DOMAIN invs' = DOMAIN invs, inputs' = inputs,
         cli.inv = Len(invs), \A i \in DOMAIN invs : i # cli.inv /\ Accepted(i)' => Accepted(i)
  PROVE  NeverBehind'
<1>1. \A i, j \in DOMAIN invs : i < j => i # cli.inv
  OBVIOUS
<1> QED
  BY <1>1 DEF NeverBehind

\* Acceptance depends on the batches and three roles of the receipt.
LEMMA AcceptedNotNew ==
  ASSUME UNCHANGED batches,
         \A role \in {"accepted", "input", "eval"} : \A b \in receipt'[role] :
           b.inv # cli.inv => b \in receipt[role]
  PROVE  \A i : i # cli.inv /\ Accepted(i)' => Accepted(i)
BY DEF Accepted

\* The input is bound, and the receipt before it kept at hand.
LEMMA BindKeeps ==
  ASSUME FeatureBenchInv, Bind
  PROVE  FeatureBenchInv'
<1> DEFINE adds == [Unbound EXCEPT
             !["input"] = {Binding(cli.inv, cli.root, 0, inputs[cli.inv].preds)},
             !["eval"]  = {Binding(cli.inv, cli.root, 0, Infers)}]
<1> USE DEF FeatureBenchInv
<1>1. /\ cli.at = "bind"
      /\ UNCHANGED <<created, invs, batches, metas, outputs, inputs, reports, totals, archive, procs>>
      /\ \/ receipt' = With(adds) /\ cli' = [cli EXCEPT !.before = receipt, !.at = "archive"]
         \/ cli' = [cli EXCEPT !.before = receipt, !.at = "restore"] /\ UNCHANGED receipt
  BY DEF Bind, At, native
<1>2. /\ adds["task"] = {} /\ adds["accepted"] = {}
      /\ \A role \in {"input", "eval"} : \A a \in adds[role] : a.inv = cli.inv
  BY UnboundIsReceipt DEF Unbound, Roles, Binding
<1> HIDE DEF adds
<1>3. /\ IsCommand(cli) /\ IsReceipt(receipt) /\ cli.at \in Working
         /\ cli.at \in Staging \ {"consolidate"}
      /\ cli.at \in Quiet /\ cli.inv = Len(invs) /\ invs \in Seq(Invocations) /\ ~cli.launched
  BY <1>1 DEF FeatureBenchTypes, Working, Staging, Quiet, Counting, InputsAreSet, Judging
<1>4. /\ IsCommand(cli') /\ cli'.at \in {"archive", "restore"} /\ cli'.before = receipt
      /\ cli'.n = cli.n /\ cli'.kind = cli.kind /\ cli'.redo = cli.redo /\ cli'.inv = cli.inv
      /\ cli'.root = cli.root /\ cli'.launched = cli.launched
  <2>1. PICK s \in {"archive", "restore"} : cli' = [[cli EXCEPT !.before = receipt] EXCEPT !.at = s]
    BY <1>1
  <2> DEFINE c == [cli EXCEPT !.before = receipt]
  <2>2. /\ IsCommand(c) /\ c.before = receipt
        /\ c.n = cli.n /\ c.kind = cli.kind /\ c.redo = cli.redo /\ c.inv = cli.inv
        /\ c.root = cli.root /\ c.launched = cli.launched
    BY <1>3 DEF IsCommand
  <2>3. cli' = [c EXCEPT !.at = s]
    BY <2>1
  <2> HIDE DEF c
  <2> QED
    BY <2>2, <2>3 DEF IsCommand, Working, Staging
<1>5. /\ IsReceipt(receipt') /\ receipt'["task"] \subseteq receipt["task"]
      /\ \A role \in {"accepted", "input", "eval"} : \A b \in receipt[role] :
           b.inv # cli.inv => b \in receipt'[role]
      /\ \A role \in {"accepted", "input", "eval"} : \A b \in receipt'[role] :
           b.inv # cli.inv => b \in receipt[role]
  <2>1. CASE receipt' = With(adds)
    <3>1. /\ IsReceipt(With(adds))
          /\ \A role \in Roles : With(adds)[role] \subseteq receipt[role] \cup adds[role]
          /\ \A role \in {"accepted", "input", "eval"} : \A b \in receipt[role] :
               (\A a \in adds[role] : a.inv # b.inv) => b \in With(adds)[role]
      BY <1>3, WithIs
    <3>2. \A role \in {"accepted", "input", "eval"} : \A a \in adds[role] : a.inv = cli.inv
      BY <1>2
    <3> QED
      BY <1>2, <2>1, <3>1, <3>2 DEF Roles
  <2>2. CASE UNCHANGED receipt
    BY <1>3, <2>2
  <2> QED
    BY <1>1, <2>1, <2>2
<1>6. Made' = Made /\ Known' = Known
  BY <1>1 DEF Made, Known, Inferred
<1>7. /\ cli'.at \in Working /\ cli'.at \in Staging \ {"consolidate"} /\ cli'.at \in Quiet
      /\ cli'.at \notin {"noteEval", "noteInfer", "inferring", "begin", "invalidate", "evaluate",
          "off", "consolidate"}
      /\ cli'.at \notin Preparing \cup Opening \cup Judging
  BY <1>4 DEF Working, Preparing, Opening, Staging, Judging, Quiet
<1>8. FeatureBenchTypes'
  BY <1>1, <1>4, <1>5 DEF FeatureBenchTypes
<1>9. Counting' /\ NothingYet' /\ OwnProcess'
  BY <1>1, <1>3, <1>4, <1>6, <1>7 DEF Counting, NothingYet, OwnProcess, Working
<1>10. Directories' /\ NewIsOwn' /\ InputsAreSet'
  BY <1>1, <1>3, <1>4, <1>6, <1>7 DEF Directories, NewIsOwn, InputsAreSet
<1>11. BoundScores'
  <2>1. \A bound : /\ TrueScores(bound) => TrueScores(bound)'
                   /\ NoneRedone(bound) => NoneRedone(bound)'
    BY <1>1 DEF TrueScores, NoneRedone
  <2>2. TrueScores(receipt) /\ OnePerTask(receipt) /\ NoneRedone(receipt)
    BY DEF BoundScores
  <2>3. TrueScores(receipt') /\ OnePerTask(receipt') /\ NoneRedone(receipt')
    BY <1>5, <2>2 DEF TrueScores, OnePerTask, NoneRedone
  <2> QED
    BY <1>4, <2>1, <2>2, <2>3 DEF BoundScores, OnePerTask
<1>12. OwnReports' /\ Unbinding'
  BY <1>4, <1>7 DEF OwnReports, Unbinding, Preparing
<1>13. NothingRevived'
  BY <1>4, <1>5 DEF NothingRevived
<1>14. NeverBehind'
  BY <1>1, <1>3, <1>5, AcceptedNotNew, NeverBehindKept
<1> QED
  BY <1>8, <1>9, <1>10, <1>11, <1>12, <1>13, <1>14

\* What lies where the evaluation writes is moved away, put back, or half moved.
LEMMA ArchiveKeeps ==
  ASSUME FeatureBenchInv, Archive \/ Restore
  PROVE  FeatureBenchInv'
<1> USE DEF FeatureBenchInv
<1>1. /\ cli.at \in {"archive", "restore"} /\ UNCHANGED <<stored, metas, outputs, inputs, procs>>
  BY DEF Archive, Restore, At
<1>2. /\ IsCommand(cli) /\ cli.at \in Working /\ cli.root \in Root /\ cli.inv \in Inv
      /\ invs \in Seq(Invocations) /\ reports \in [Root -> Scores] /\ totals \in [Root -> Scores]
      /\ archive \in [Inv -> [tasks : Scores, total : Scores]]
  <2>1. cli.at \in Working /\ cli.at \in Staging
    BY <1>1 DEF Working, Staging
  <2>2. cli.root # 0 /\ cli.inv # 0
    BY <2>1 DEF NewIsOwn, Counting
  <2> QED
    BY <2>1, <2>2 DEF FeatureBenchTypes, IsCommand
<1>3. NoReport \in Nat \X Nat /\ NoReports \in Scores
  BY DEF NoReport, NoReports, Scores
<1>4. ASSUME NEW paths, Moved(paths)
      PROVE  /\ reports' \in [Root -> Scores] /\ totals' \in [Root -> Scores]
             /\ archive' \in [Inv -> [tasks : Scores, total : Scores]]

                             /\ \A t \in Task : reports'[cli.root][t] = IF t \in paths THEN NoReport ELSE reports[cli.root][t]
  <2> DEFINE kept == [t \in Task |-> IF t \in paths THEN NoReport ELSE reports[cli.root][t]]
             away == [t \in Task |-> IF t \in paths THEN reports[cli.root][t] ELSE NoReport]
             sum == IF 0 \in paths THEN totals[cli.root] ELSE NoReports
  <2>1. /\ archive' = [archive EXCEPT ![cli.inv] = [tasks |-> away, total |-> sum]]
        /\ reports' = [reports EXCEPT ![cli.root] = kept]
        /\ totals' = IF 0 \in paths THEN [totals EXCEPT ![cli.root] = NoReports] ELSE totals
    BY <1>4 DEF Moved
  <2>2. kept \in Scores /\ away \in Scores /\ sum \in Scores
    BY <1>2, <1>3 DEF Scores
  <2>3. \A t \in Task : kept[t] = IF t \in paths THEN NoReport ELSE reports[cli.root][t]
    OBVIOUS
  <2> HIDE DEF kept, away, sum, Scores
  <2> QED
    BY <1>2, <1>3, <2>1, <2>2, <2>3
<1>5. ASSUME NEW s \in {"invalidate", "restore", "rebind", "cleanup"}, GoTo(s) \/ Fails(s)
      PROVE  GoesOn /\ cli'.at = s /\ cli'.launched = cli.launched /\ cli'.at \notin Judging
  BY <1>2, <1>5, GoToGoesOn, FailsGoesOn DEF Working, Staging, Judging
<1>6. CASE Archive /\ Moved(CanMove) /\ GoTo("invalidate")
  <2>1. GoesOn /\ cli'.at = "invalidate" /\ cli'.launched = cli.launched /\ cli'.at \notin Judging
    BY <1>5, <1>6
  <2>2. Steady
    BY <1>1, <1>2, <1>4, <1>6, <2>1 DEF Steady, stored
  <2>3. \A t \in Task : reports'[cli.root][t] = NoReport
    <3>1. \A t \in Task : t \notin CanMove => reports[cli.root][t] = NoReport
      BY DEF CanMove
    <3> QED
      BY <1>4, <1>6, <3>1
  <2>4. reports'[cli.root] = NoReports
    <3>1. reports'[cli.root] \in Scores
      BY <1>2, <1>4, <1>6
    <3> QED
      BY <2>3, <3>1 DEF Scores, NoReports
  <2>5. cli.at = "archive"
    BY <1>6 DEF Archive, At
  <2> QED
    BY <1>2, <2>1, <2>2, <2>4, <2>5, GoingOnKeeps
<1>7. CASE Archive /\ GoTo("restore") /\ UNCHANGED <<archive, reports, totals>>
  <2>1. GoesOn /\ cli'.at = "restore" /\ cli'.launched = cli.launched
    BY <1>5, <1>7
  <2>2. Steady
    BY <1>1, <1>2, <1>7 DEF Steady, stored
  <2>3. cli.at = "archive"
    BY <1>7 DEF Archive, At
  <2> QED
    BY <1>2, <2>1, <2>2, <2>3, GoingOnKeeps
<1>8. CASE \E some \in SUBSET CanMove : Moved(some) /\ Over
  <2>1. cli'.at = "off" /\ cli'.at \notin Judging
    BY <1>8 DEF Over, Off, Judging
  <2>2. Steady
    BY <1>1, <1>2, <1>4, <1>8, <2>1 DEF Steady, stored
  <2> QED
    BY <1>8, <2>2, OverKeeps
<1>9. CASE Restore /\ Fails("cleanup") /\ UNCHANGED <<reports, totals, archive>>
  <2>1. GoesOn /\ cli'.at = "cleanup" /\ cli'.launched = cli.launched
    BY <1>5, <1>9
  <2>2. Steady
    BY <1>1, <1>2, <1>9 DEF Steady, stored
  <2> QED
    BY <1>2, <2>1, <2>2, GoingOnKeeps
<1>10. ASSUME cli.at = "restore", GoTo("rebind"), NEW old, old = archive[cli.inv],
             reports' = [reports EXCEPT ![cli.root] =
               [t \in Task |-> IF old.tasks[t] # NoReport THEN old.tasks[t] ELSE reports[cli.root][t]]],
             totals' = IF old.total = NoReports THEN totals
                       ELSE [totals EXCEPT ![cli.root] = old.total],
             archive' = [archive EXCEPT ![cli.inv] = NoArchive]
       PROVE  FeatureBenchInv'

       <2> DEFINE put == [t \in Task |-> IF old.tasks[t] # NoReport THEN old.tasks[t] ELSE reports[cli.root][t]]
  <2>1. GoesOn /\ cli'.at = "rebind" /\ cli'.launched = cli.launched /\ cli'.at \notin Judging
    BY <1>5, <1>10
  <2>2. old.tasks \in Scores /\ old.total \in Scores
    BY <1>2, <1>10
  <2>3. put \in Scores
    BY <1>2, <2>2 DEF Scores
  <2>4. NoArchive \in [tasks : Scores, total : Scores]
    BY <1>3 DEF NoArchive
  <2>5. /\ reports' \in [Root -> Scores] /\ totals' \in [Root -> Scores]
        /\ archive' \in [Inv -> [tasks : Scores, total : Scores]]
    <3>1. reports' = [reports EXCEPT ![cli.root] = put]
      BY <1>10
    <3> HIDE DEF put, Scores
    <3> QED
      BY <1>2, <1>10, <2>2, <2>3, <2>4, <3>1
  <2>6. Steady
    BY <1>1, <1>2, <2>1, <2>5 DEF Steady, stored
  <2> QED
    BY <1>2, <1>10, <2>1, <2>6, GoingOnKeeps
<1> QED
  <2>1. CASE Archive
    BY <1>6, <1>7, <1>8, <2>1 DEF Archive
  <2>2. CASE Restore
    BY <1>9, <1>10, <2>2 DEF Restore, At
  <2> QED
    BY <2>1, <2>2

\* Old reports of the tasks are unbound before new ones may come.
LEMMA InvalidateKeeps ==
  ASSUME FeatureBenchInv, Invalidate
  PROVE  FeatureBenchInv'
<1> USE DEF FeatureBenchInv
<1>1. /\ cli.at = "invalidate"
      /\ UNCHANGED <<created, invs, batches, metas, outputs, inputs, reports, totals, archive, procs>>
      /\ \/ receipt' = Without(Infers) /\ GoTo("evaluate")
         \/ GoTo("restore") /\ UNCHANGED receipt
  BY DEF Invalidate, At, native
<1>2. IsCommand(cli) /\ cli.at \in Working /\ invs \in Seq(Invocations)
  BY <1>1 DEF FeatureBenchTypes, Working, Staging
<1>3. CASE GoTo("restore") /\ UNCHANGED receipt
  <2>1. GoesOn /\ cli'.at = "restore" /\ cli'.launched = cli.launched
    BY <1>2, <1>3, GoToGoesOn DEF Working, Staging
  <2>2. Steady
    BY <1>1, <1>2, <1>3 DEF Steady
  <2> QED
    BY <1>1, <1>2, <2>1, <2>2, GoingOnKeeps
<1>4. CASE receipt' = Without(Infers) /\ GoTo("evaluate")
  <2>1. GoesOn /\ cli'.at = "evaluate" /\ cli'.launched = cli.launched
    BY <1>2, <1>4, GoToGoesOn DEF Working, Staging
  <2>2. /\ IsReceipt(receipt') /\ receipt'["task"] \subseteq receipt["task"]
        /\ \A role \in {"input", "eval", "accepted"} : receipt'[role] = receipt[role]
    BY <1>4 DEF FeatureBenchTypes, IsReceipt, Without, Roles
  <2>3. Made' = Made /\ Known' = Known /\ (\A i : Accepted(i)' <=> Accepted(i))
    BY <1>1, <2>2 DEF Made, Known, Inferred, Accepted
  <2>4. /\ cli'.at \in Working /\ {cli.at, cli'.at} \subseteq Staging \ {"consolidate"}
           /\ cli'.at \in Quiet
        /\ cli.at \in Quiet
        /\ cli'.at \notin {"noteEval", "noteInfer", "inferring", "begin", "off", "consolidate"}
        /\ cli'.at \notin Preparing \cup Opening \cup Judging /\ ~cli.launched
    BY <1>1, <2>1 DEF Working, Preparing, Opening, Staging, Judging, Quiet, InputsAreSet
  <2>5. FeatureBenchTypes'
    BY <1>1, <2>1, <2>2 DEF FeatureBenchTypes, GoesOn
  <2>6. Counting' /\ NothingYet' /\ OwnProcess'
    BY <1>1, <1>2, <2>1, <2>3, <2>4 DEF Counting, NothingYet, OwnProcess, GoesOn
  <2>7. Directories' /\ NewIsOwn' /\ InputsAreSet'
    BY <1>1, <2>1, <2>3, <2>4 DEF Directories, NewIsOwn, InputsAreSet, GoesOn
  <2>8. BoundScores'
    <3>1. \A bound : /\ TrueScores(bound) => TrueScores(bound)'
                     /\ NoneRedone(bound) => NoneRedone(bound)'
      BY <1>1 DEF TrueScores, NoneRedone
    <3>2. TrueScores(receipt) /\ OnePerTask(receipt) /\ NoneRedone(receipt)
      BY DEF BoundScores
    <3>3. TrueScores(receipt') /\ OnePerTask(receipt') /\ NoneRedone(receipt')
      BY <2>2, <3>2 DEF TrueScores, OnePerTask, NoneRedone
    <3> QED
      BY <2>1, <3>1, <3>3 DEF BoundScores, OnePerTask, GoesOn
  <2>9. OwnReports' /\ Unbinding'
    BY <1>1, <2>1, <2>4 DEF OwnReports, Unbinding, Preparing, GoesOn
  <2>10. NothingRevived'
    BY <2>1, <2>2 DEF NothingRevived, GoesOn
  <2>11. NeverBehind'
    BY <1>1, <2>3 DEF NeverBehind
  <2> QED
    BY <2>5, <2>6, <2>7, <2>8, <2>9, <2>10, <2>11
<1> QED
  BY <1>1, <1>3, <1>4

\* The evaluation is launched, or the reports are put back.
LEMMA EvaluateKeeps ==
  ASSUME FeatureBenchInv, Evaluate
  PROVE  FeatureBenchInv'
<1> DEFINE p == [kind |-> "eval", inv |-> cli.inv, tasks |-> Infers, root |-> cli.root]
<1> USE DEF FeatureBenchInv
<1>1. /\ cli.at = "evaluate"
      /\ UNCHANGED <<created, batches, receipt, metas, outputs, inputs, reports, totals, archive>>
  BY DEF Evaluate, At, native
<1>2. /\ IsCommand(cli) /\ cli.at \in Working /\ cli.at \in Staging \ {"consolidate"}
         /\ cli.at \in Quiet
      /\ invs \in Seq(Invocations) /\ cli.inv \in Inv /\ cli.inv = Len(invs) /\ cli.root \in Root
      /\ Infers \in SUBSET Task /\ Infers # {} /\ procs = {} /\ cli.root # 0
      /\ inputs[cli.inv] # NoInput /\ reports[cli.root] = NoReports
  <2>1. /\ cli.at \in Working /\ cli.at \in Staging \ {"consolidate"} /\ cli.at \in Quiet
    BY <1>1 DEF Working, Staging, Quiet
  <2>2. IsCommand(cli) /\ cli.inv # 0 /\ cli.inv = Len(invs) /\ cli.root # 0
        /\ invs \in Seq(Invocations)
    BY <1>1, <2>1 DEF FeatureBenchTypes, Counting, NewIsOwn
  <2>3. Infers \in SUBSET Task /\ Infers # {}
    BY <2>2, FeatureBenchAssumption DEF IsCommand, Infers
  <2>4. inputs[cli.inv] # NoInput /\ reports[cli.root] = NoReports /\ procs = {}
    BY <1>1, <2>1 DEF InputsAreSet, OwnReports, OwnProcess
  <2>5. cli.inv \in Inv /\ cli.root \in Root /\ cli.root # 0
    BY <2>2 DEF IsCommand
  <2> QED
    BY <2>1, <2>2, <2>3, <2>4, <2>5
<1>3. CASE GoTo("restore") /\ UNCHANGED <<procs, invs>>
  <2>1. GoesOn /\ cli'.at = "restore" /\ cli'.launched = cli.launched
    BY <1>2, <1>3, GoToGoesOn DEF Working, Staging
  <2>2. Steady
    BY <1>1, <1>2, <1>3 DEF Steady
  <2> QED
    BY <1>1, <1>2, <2>1, <2>2, GoingOnKeeps
<1>4. CASE /\ Launch("eval")
           /\ cli' = [cli EXCEPT !.at = "evaluating", !.launched = TRUE, !.before = Unbound]
  <2>1. /\ IsCommand(cli') /\ cli'.at = "evaluating" /\ cli'.before = Unbound /\ cli'.n = cli.n
        /\ cli'.kind = cli.kind /\ cli'.redo = cli.redo /\ cli'.inv = cli.inv
           /\ cli'.root = cli.root
    <3> DEFINE c == [cli EXCEPT !.before = Unbound]
    <3>1. /\ IsCommand(c) /\ c.before = Unbound /\ c.n = cli.n /\ c.kind = cli.kind
          /\ c.redo = cli.redo /\ c.inv = cli.inv /\ c.root = cli.root
      BY <1>2, UnboundIsReceipt DEF IsCommand
    <3>2. cli' = [c EXCEPT !.at = "evaluating", !.launched = TRUE]
      BY <1>4
    <3> HIDE DEF c
    <3> QED
      BY <3>1, <3>2 DEF IsCommand, Working, Judging
  <2>2. procs' = {p} /\ invs' \in Seq(Invocations) /\ Len(invs') = Len(invs)
        /\ DOMAIN invs' = DOMAIN invs
    <3>1. procs' = {p}
      BY <1>2, <1>4 DEF Launch
    <3>2. invs' \in Seq(Invocations) /\ Len(invs') = Len(invs)
      BY <1>2, <1>4, SettledKept DEF Launch
    <3> QED
      BY <1>2, <3>1, <3>2
  <2>3. p \in Processes /\ p.kind = "eval" /\ p.inv = cli.inv /\ p.root = cli.root
    BY <1>2 DEF Processes
  <2> HIDE DEF p
  <2>4. Made' = Made /\ Known' = Known /\ (\A i : Accepted(i)' <=> Accepted(i))
    BY <1>1, SameFiles
  <2>5. /\ cli'.at \in Working /\ cli'.at \in Judging
        /\ cli'.at \notin {"noteEval", "noteInfer", "inferring", "begin", "off", "consolidate",
            "invalidate", "evaluate"}
        /\ cli'.at \notin Preparing \cup Opening \cup Staging \cup Quiet
        /\ cli.at \notin Preparing
    BY <1>1, <2>1 DEF Working, Preparing, Opening, Staging, Judging, Quiet
  <2>6. FeatureBenchTypes'
    BY <1>1, <2>1, <2>2, <2>3 DEF FeatureBenchTypes
  <2>7. Counting' /\ NothingYet'
    BY <1>1, <1>2, <2>1, <2>2, <2>4, <2>5 DEF Counting, NothingYet
  <2>8. OwnProcess'
    <3>1. Len(invs) \in Nat
      BY <1>2
    <3> QED
      BY <1>1, <1>2, <2>1, <2>2, <2>3, <2>5, <3>1 DEF OwnProcess
  <2>9. Directories' /\ NewIsOwn'
    BY <1>1, <1>2, <2>1, <2>2, <2>3, <2>4, <2>5 DEF Directories, NewIsOwn
  <2>10. InputsAreSet'
    BY <1>1, <1>2, <2>1, <2>2, <2>5 DEF InputsAreSet
  <2>11. BoundScores'
    <3>1. \A bound : /\ TrueScores(bound) => TrueScores(bound)'
                     /\ NoneRedone(bound) => NoneRedone(bound)'
      BY <1>1 DEF TrueScores, NoneRedone
    <3>2. TrueScores(Unbound) /\ OnePerTask(Unbound) /\ NoneRedone(Unbound)
      BY UnboundIsReceipt DEF TrueScores, OnePerTask, NoneRedone, Roles
    <3> QED
      BY <1>1, <2>1, <3>1, <3>2 DEF BoundScores, OnePerTask
  <2>12. OwnReports'
    BY <1>1, <1>2, <2>1, <2>5 DEF OwnReports, NoReports
  <2>13. Unbinding' /\ NothingRevived'
    BY <2>1, <2>5, UnboundIsReceipt DEF Unbinding, NothingRevived, Preparing, Roles
  <2>14. NeverBehind'
    BY <1>1, <2>2, <2>4 DEF NeverBehind
  <2> QED
    BY <2>6, <2>7, <2>8, <2>9, <2>10, <2>11, <2>12, <2>13, <2>14
<1> QED
  BY <1>3, <1>4 DEF Evaluate

\* The evaluation is back; or a step of the command fails, or its cleanup is over.
LEMMA StepsOnKeep ==
  ASSUME FeatureBenchInv, Evaluating \/ IndexFails \/ Cleanup
  PROVE  FeatureBenchInv'
<1> USE DEF FeatureBenchInv
<1>0. IsCommand(cli) /\ invs \in Seq(Invocations)
  BY DEF FeatureBenchTypes
<1>1. CASE Evaluating
  <2>1. PICK settled \in BOOLEAN, failed \in BOOLEAN :
          Returns(settled) /\ IF failed THEN Fails("reindex") ELSE GoTo("index")
    BY <1>1 DEF Evaluating
  <2>2. \E s \in {"index", "reindex"} : GoTo(s) \/ Fails(s)
    BY <2>1
  <2>3. GoesOn /\ cli'.at \in {"index", "reindex"} /\ cli'.launched = cli.launched
    BY <1>0, <2>2, GoToGoesOn, FailsGoesOn DEF Working, Judging
  <2>4. procs' \subseteq procs /\ invs' \in Seq(Invocations) /\ Len(invs') = Len(invs)
    BY <1>0, <2>1, SettledKept DEF Returns
  <2>5. Steady
    BY <1>1, <2>4 DEF Steady, Evaluating, native
  <2>6. cli.at \in Judging /\ cli.at \in Working
    BY <1>1 DEF Evaluating, At, Judging, Working
  <2> QED
    BY <2>3, <2>5, <2>6, GoingOnKeeps
<1>2. CASE IndexFails
  <2>1. \E s \in {"cleanup", "reindex"} : Fails(s)
    BY <1>2 DEF IndexFails
  <2>2. GoesOn /\ cli'.at \in {"cleanup", "reindex"} /\ cli'.launched = cli.launched
    BY <1>0, <2>1, FailsGoesOn DEF Working, Judging
  <2>3. Steady
    BY <1>0, <1>2 DEF Steady, IndexFails, native, stored
  <2>4. cli.at \in Judging /\ cli.at \in Working
    BY <1>2 DEF IndexFails, Judging, Working
  <2> QED
    BY <2>2, <2>3, <2>4, GoingOnKeeps
<1>3. CASE Cleanup
  <2>1. PICK failed \in BOOLEAN :
          cli' = [cli EXCEPT !.bad = cli.bad \/ failed,
              !.at = IF cli.launched THEN "noteEval" ELSE "finish"]
    BY <1>3 DEF Cleanup
  <2> DEFINE bad == cli.bad \/ failed
             step == IF cli.launched THEN "noteEval" ELSE "finish"
  <2>2. bad \in BOOLEAN /\ step \in {"noteEval", "finish"} /\ (step = "noteEval" => cli.launched)
    OBVIOUS
  <2>3. cli' = [cli EXCEPT !.bad = bad, !.at = step]
    BY <2>1
  <2> HIDE DEF bad, step
  <2>4. GoesOn /\ cli'.at = step /\ cli'.launched = cli.launched
    <3> DEFINE c == [cli EXCEPT !.bad = bad]
    <3>1. /\ IsCommand(c) /\ c.n = cli.n /\ c.kind = cli.kind /\ c.redo = cli.redo
          /\ c.inv = cli.inv /\ c.root = cli.root /\ c.before = cli.before
          /\ c.launched = cli.launched
      BY <1>0, <2>2 DEF IsCommand
    <3>2. cli' = [c EXCEPT !.at = step] /\ step \in Working
      BY <2>2, <2>3 DEF Working
    <3> HIDE DEF c
    <3> QED
      BY <3>1, <3>2 DEF IsCommand, GoesOn
  <2>5. Steady
    BY <1>0, <1>3 DEF Steady, Cleanup, native, stored
  <2>6. cli.at \in Working
    BY <1>3 DEF Cleanup, At, Working
  <2> QED
    BY <2>2, <2>4, <2>5, <2>6, GoingOnKeeps
<1> QED
  BY <1>1, <1>2, <1>3

\* An update of the receipt with what this invocation produced.
LEMMA BindingKeeps ==
  ASSUME FeatureBenchInv, cli.at \in Judging, NEW adds, receipt' = With(adds), GoesOn,
         cli'.at \in {"accept", "reindex", "cleanup"}, cli'.launched = cli.launched,
         UNCHANGED <<created, invs, batches, native, procs>>,
         \A role \in {"accepted", "input", "eval"} : \A a \in adds[role] : a.inv = cli.inv,
         \A a \in adds["task"] : /\ a.task \in Task /\ a.inv = cli.inv
                                 /\ a.val = <<cli.inv, inputs[cli.inv].preds[a.task]>>,
         \A a, b \in adds["task"] : a.task = b.task => a = b
  PROVE  FeatureBenchInv'
<1> USE DEF FeatureBenchInv, native, GoesOn
<1>1. /\ invs \in Seq(Invocations) /\ Len(invs) \in Nat /\ cli.inv = Len(invs)
         /\ inputs[cli.inv] # NoInput
      /\ cli.at \in Working /\ IsReceipt(receipt)
  BY DEF FeatureBenchTypes, Counting, InputsAreSet, Working
<1>0. cli.inv \in Inv
  BY <1>1 DEF FeatureBenchTypes, IsCommand, Counting
<1>2. /\ IsReceipt(receipt')
      /\ \A role \in Roles : receipt'[role] \subseteq receipt[role] \cup adds[role]
      /\ \A role \in {"accepted", "input", "eval"} : \A b \in receipt[role] :
           b.inv # cli.inv => b \in receipt'[role]
      /\ \A b \in receipt'["task"] : b \notin adds["task"]
         => \A a \in adds["task"] : a.task # b.task
  BY <1>1, WithIs
<1>3. \A role \in {"accepted", "input", "eval"} : \A b \in receipt'[role] :
        b.inv # cli.inv => b \in receipt[role]
  BY <1>2 DEF Roles
<1>4. Made' = Made /\ Known' = Known
  BY DEF Made, Known, Inferred
<1>5. /\ cli'.at \in Working
      /\ cli'.at \notin {"noteEval", "noteInfer", "inferring", "begin", "off", "consolidate",
          "invalidate", "evaluate"}
      /\ cli'.at \notin Preparing \cup Opening \cup Staging \cup Quiet
      /\ cli'.at \in Judging \cup {"cleanup", "noteEval", "finish"}
  BY DEF Working, Preparing, Opening, Staging, Judging, Quiet
<1>6. FeatureBenchTypes'
  BY <1>2 DEF FeatureBenchTypes
<1>7. Counting' /\ NothingYet' /\ OwnProcess'
  BY <1>1, <1>4, <1>5 DEF Counting, NothingYet, OwnProcess, Working
<1>8. Directories' /\ NewIsOwn' /\ InputsAreSet'
  BY <1>1, <1>4, <1>5 DEF Directories, NewIsOwn, InputsAreSet
<1>9. BoundScores'
  <2>1. \A bound : /\ TrueScores(bound) => TrueScores(bound)'
                   /\ NoneRedone(bound) => NoneRedone(bound)'
    BY DEF TrueScores, NoneRedone
  <2>2. TrueScores(receipt) /\ OnePerTask(receipt) /\ NoneRedone(receipt)
    BY DEF BoundScores
  <2>3. \A b \in receipt'["task"] : b \in receipt["task"] \/ b \in adds["task"]
    BY <1>2 DEF Roles
  <2>4. TrueScores(receipt')
    BY <1>0, <1>1, <2>2, <2>3 DEF TrueScores
  <2>5. OnePerTask(receipt')
    BY <1>2, <2>2, <2>3 DEF OnePerTask
  <2>6. NoneRedone(receipt')
    <3>1. \A k \in DOMAIN batches : batches[k].inv <= cli.inv
      BY <1>1 DEF InputsAreSet
    <3> QED
      BY <2>2, <2>3, <3>1 DEF NoneRedone
  <2> QED
    BY <2>1, <2>2, <2>4, <2>5, <2>6 DEF BoundScores, OnePerTask
<1>10. OwnReports' /\ Unbinding'
  BY <1>5 DEF OwnReports, Unbinding, Preparing
<1>11. NothingRevived'
  BY <1>2 DEF NothingRevived
<1>12. NeverBehind'
  BY <1>1, <1>3, AcceptedNotNew, NeverBehindKept
<1> QED
  BY <1>6, <1>7, <1>8, <1>9, <1>10, <1>11, <1>12

\* What the files of a root prove of its invocation, or that it is accepted, gets bound.
LEMMA IndexKeeps ==
  ASSUME FeatureBenchInv, Index \/ Accept
  PROVE  FeatureBenchInv'
<1> USE DEF FeatureBenchInv
<1>1. IsCommand(cli) /\ cli.at \in Judging /\ UNCHANGED <<created, invs, batches, native, procs>>
  BY DEF FeatureBenchTypes, Index, Accept, At, Judging
<1>2. CASE Index
  <2> DEFINE adds == Evidence(cli.inv, cli.root)
             seen == {u \in Task : reports[cli.root][u] # NoReport}
  <2>1. receipt' = With(adds)
    BY <1>2 DEF Index
  <2>2. /\ adds["accepted"] = {} /\ adds["input"] = {} /\ adds["eval"] = {}
        /\ adds["task"] = {Binding(cli.inv, cli.root, t, reports[cli.root][t]) : t \in seen}
    BY UnboundIsReceipt DEF Evidence, Unbound, Roles
  <2>3. \A t \in seen : reports[cli.root][t] = <<cli.inv, inputs[cli.inv].preds[t]>>
    BY <1>1 DEF OwnReports
  <2>4. \A a \in adds["task"] : \E t \in seen : a = Binding(cli.inv, cli.root, t, reports[cli.root][t])
    BY <2>2
  <2> HIDE DEF adds
  <2>5. /\ \A a \in adds["task"] : /\ a.task \in Task /\ a.inv = cli.inv
                                   /\ a.val = <<cli.inv, inputs[cli.inv].preds[a.task]>>
        /\ \A a, b \in adds["task"] : a.task = b.task => a = b
    BY <2>3, <2>4 DEF Binding
  <2>6. \E s \in {"accept", "reindex", "cleanup"} : GoTo(s) \/ Fails(s)
    BY <1>2 DEF Index
  <2>7. GoesOn /\ cli'.at \in {"accept", "reindex", "cleanup"} /\ cli'.launched = cli.launched
    BY <1>1, <2>6, GoToGoesOn, FailsGoesOn DEF Working, Judging
  <2> QED
    BY <1>1, <2>1, <2>2, <2>5, <2>7, BindingKeeps
<1>3. CASE Accept
  <2> DEFINE adds == [Unbound EXCEPT
                        !["accepted"] = {Binding(cli.inv, cli.root, 0, inputs[cli.inv].preds)}]
  <2>1. receipt' = With(adds) /\ GoTo("reindex")
    BY <1>3 DEF Accept
  <2>2. /\ adds["task"] = {} /\ adds["input"] = {} /\ adds["eval"] = {}
        /\ adds["accepted"] = {Binding(cli.inv, cli.root, 0, inputs[cli.inv].preds)}
    BY UnboundIsReceipt DEF Unbound, Roles
  <2> HIDE DEF adds
  <2>3. \A role \in {"accepted", "input", "eval"} : \A a \in adds[role] : a.inv = cli.inv
    BY <2>2 DEF Binding
  <2>4. GoesOn /\ cli'.at = "reindex" /\ cli'.launched = cli.launched
    BY <1>1, <2>1, GoToGoesOn DEF Working, Judging
  <2> QED
    BY <1>1, <2>1, <2>2, <2>3, <2>4, BindingKeeps
<1> QED
  BY <1>2, <1>3

\* The receipt is put back as it was before the evaluation was prepared, or stays.
LEMMA RebindKeeps ==
  ASSUME FeatureBenchInv, Rebind
  PROVE  FeatureBenchInv'
<1> USE DEF FeatureBenchInv
<1>1. /\ cli.at = "rebind" /\ receipt' \in {cli.before, receipt} /\ Fails("cleanup")
      /\ UNCHANGED <<created, invs, batches, metas, outputs, inputs, reports, totals, archive, procs>>
  BY DEF Rebind, At, native
<1>2. /\ IsCommand(cli) /\ invs \in Seq(Invocations) /\ cli.at \in Working
      /\ cli.at \in Staging \ {"consolidate"} /\ cli.inv = Len(invs) /\ ~cli.launched
  BY <1>1 DEF FeatureBenchTypes, Working, Staging, Counting, InputsAreSet, Judging
<1>3. GoesOn /\ cli'.at = "cleanup" /\ cli'.launched = cli.launched
  BY <1>1, <1>2, FailsGoesOn DEF Working
<1>4. CASE receipt' = receipt
  <2>1. Steady
    BY <1>1, <1>2, <1>4 DEF Steady
  <2> QED
    BY <1>2, <1>3, <2>1, GoingOnKeeps
<1>5. CASE receipt' = cli.before
  <2>1. IsReceipt(receipt')
    BY <1>2, <1>5 DEF IsCommand
  <2>2. Made' = Made /\ Known' = Known
    BY <1>1 DEF Made, Known, Inferred
  <2>3. /\ cli'.at \in Working
        /\ cli'.at \notin {"noteEval", "noteInfer", "inferring", "begin", "off", "consolidate",
            "invalidate"}
        /\ cli'.at \notin Preparing \cup Opening \cup Staging \cup Quiet \cup Judging
           \cup {"evaluate"}
    BY <1>3 DEF Working, Preparing, Opening, Staging, Judging, Quiet
  <2>4. FeatureBenchTypes'
    BY <1>1, <1>3, <2>1 DEF FeatureBenchTypes, GoesOn
  <2>5. Counting' /\ NothingYet' /\ OwnProcess'
    BY <1>1, <1>2, <1>3, <2>2, <2>3 DEF Counting, NothingYet, OwnProcess, GoesOn
  <2>6. Directories' /\ NewIsOwn' /\ InputsAreSet'
    BY <1>1, <1>2, <1>3, <2>2, <2>3 DEF Directories, NewIsOwn, InputsAreSet, GoesOn
  <2>7. BoundScores'
    <3>1. \A bound : /\ TrueScores(bound) => TrueScores(bound)'
                     /\ NoneRedone(bound) => NoneRedone(bound)'
      BY <1>1 DEF TrueScores, NoneRedone
    <3> QED
      BY <1>3, <1>5, <3>1 DEF BoundScores, OnePerTask, GoesOn
  <2>8. OwnReports' /\ Unbinding'
    BY <2>3 DEF OwnReports, Unbinding, Preparing
  <2>9. NothingRevived'
    BY <1>3, <1>5 DEF NothingRevived, GoesOn
  <2>10. NeverBehind'
    <3>1. \A role \in {"accepted", "input", "eval"} : \A b \in receipt'[role] :
            b.inv # cli.inv => b \in receipt[role]
      BY <1>5 DEF NothingRevived
    <3> QED
      BY <1>1, <1>2, <3>1, AcceptedNotNew, NeverBehindKept
  <2> QED
    BY <2>4, <2>5, <2>6, <2>7, <2>8, <2>9, <2>10
<1> QED
  BY <1>1, <1>4, <1>5

\* The evaluation is recorded.
LEMMA NoteEvalKeeps ==
  ASSUME FeatureBenchInv, NoteEval
  PROVE  FeatureBenchInv'
<1> DEFINE last == Len(batches) + 1
<1> USE DEF FeatureBenchInv
<1>1. /\ cli.at = "noteEval" /\ Recorded("verifier", Task, ~cli.bad) /\ GoTo("finish")
      /\ UNCHANGED <<created, invs, receipt, metas, outputs, inputs, reports, totals, archive, procs>>
  BY DEF NoteEval, At, native
<1>2. /\ IsCommand(cli) /\ (~cli.bad) \in BOOLEAN /\ cli.at \in Working
      /\ cli.inv = Len(invs) /\ inputs[cli.inv] # NoInput /\ invs \in Seq(Invocations)
  BY <1>1 DEF FeatureBenchTypes, IsCommand, Working, Counting, InputsAreSet
<1>3. GoesOn /\ cli'.at = "finish" /\ cli'.launched = cli.launched
  BY <1>1, <1>2, GoToGoesOn DEF Working
<1>4. /\ batches' \in Seq(Batches) /\ Len(batches) \in Nat /\ DOMAIN batches = 1..Len(batches)
      /\ DOMAIN batches' = 1..(Len(batches) + 1)
      /\ \A k \in DOMAIN batches : batches'[k] = batches[k]
      /\ batches'[Len(batches) + 1] = Batch("verifier", Task, ~cli.bad)
  BY <1>1, <1>2, RecordedIs DEF Phases
<1>5. /\ batches'[last].phase = "verifier" /\ batches'[last].inv = cli.inv
      /\ \A k \in DOMAIN batches' : k \in DOMAIN batches \/ k = last
      /\ DOMAIN batches \subseteq DOMAIN batches'
  BY <1>4 DEF Batch
<1> HIDE DEF last
<1>6. Made' = Made /\ (\A i : i # cli.inv /\ Accepted(i)' => Accepted(i))
  <2>1. Made' = Made
    BY <1>1 DEF Made
  <2>2. \A i : i # cli.inv /\ Accepted(i)' => Accepted(i)
    BY <1>1, <1>4, <1>5 DEF Accepted
  <2> QED
    BY <2>1, <2>2
<1>7. /\ cli'.at \in Working
      /\ cli'.at \notin {"noteEval", "noteInfer", "inferring", "begin", "off", "consolidate",
          "invalidate"}
      /\ cli'.at \notin Preparing \cup Opening \cup Staging \cup Quiet \cup Judging
         \cup {"evaluate"}
  BY <1>3 DEF Working, Preparing, Opening, Staging, Judging, Quiet
<1>8. FeatureBenchTypes'
  BY <1>1, <1>3, <1>4 DEF FeatureBenchTypes, GoesOn
<1>9. Counting' /\ NothingYet' /\ OwnProcess'
  BY <1>1, <1>2, <1>3, <1>6, <1>7 DEF Counting, NothingYet, OwnProcess, GoesOn
<1>10. Directories' /\ NewIsOwn'
  BY <1>1, <1>3, <1>6, <1>7 DEF Directories, NewIsOwn, GoesOn
<1>11. InputsAreSet'
  <2>1. Len(invs) \in Nat /\ Len(invs) <= Len(invs)
    BY <1>2
  <2>2. \A k \in DOMAIN batches' : batches'[k].inv <= Len(invs)
    BY <1>2, <1>4, <1>5, <2>1 DEF InputsAreSet
  <2>3. \A k \in DOMAIN batches' : batches'[k].phase = "verifier"
        => inputs[batches'[k].inv] # NoInput
    BY <1>2, <1>4, <1>5 DEF InputsAreSet
  <2> QED
    BY <1>1, <1>2, <1>3, <1>7, <2>2, <2>3 DEF InputsAreSet, GoesOn
<1>12. BoundScores'
  <2>1. \A bound : /\ TrueScores(bound) => TrueScores(bound)'
                   /\ NoneRedone(bound) => NoneRedone(bound)'
    BY <1>1, <1>4, <1>5 DEF TrueScores, NoneRedone
  <2> QED
    BY <1>1, <1>3, <2>1 DEF BoundScores, OnePerTask, GoesOn
<1>13. OwnReports' /\ Unbinding' /\ NothingRevived'
  BY <1>1, <1>3, <1>7 DEF OwnReports, Unbinding, NothingRevived, Preparing, GoesOn
<1>14. NeverBehind'
  BY <1>1, <1>2, <1>6, NeverBehindKept
<1> QED
  BY <1>8, <1>9, <1>10, <1>11, <1>12, <1>13, <1>14

\* The invocation is closed, unless its processes may be alive, and the command is over.
LEMMA EndsKeep ==
  ASSUME FeatureBenchInv, Finish \/ Crash
  PROVE  FeatureBenchInv'
<1>1. /\ Over /\ UNCHANGED <<created, batches, receipt, metas, outputs, inputs, reports, totals,
          archive, procs>>
      /\ invs' = invs \/ invs' = [invs EXCEPT ![cli.inv].open = FALSE]
  BY DEF Finish, Crash, native, stored
<1>2. invs \in Seq(Invocations)
  BY DEF FeatureBenchInv, FeatureBenchTypes
<1>3. invs' \in Seq(Invocations) /\ Len(invs') = Len(invs)
  <2>1. CASE invs' = [invs EXCEPT ![cli.inv].open = FALSE]
    <3> DEFINE r == [invs[cli.inv] EXCEPT !.open = FALSE]
    <3>1. ASSUME cli.inv \in DOMAIN invs PROVE r \in Invocations
      <4>1. invs[cli.inv] \in Invocations
        BY <1>2, <3>1
      <4> QED
        BY <4>1 DEF Invocations
    <3>2. invs' = [invs EXCEPT ![cli.inv] = r]
      BY <2>1
    <3> HIDE DEF Invocations, r
    <3>3. CASE cli.inv \in DOMAIN invs
      BY <1>2, <3>1, <3>2, <3>3
    <3>4. CASE cli.inv \notin DOMAIN invs
      <4>1. invs' = invs
        BY <1>2, <3>2, <3>4
      <4> QED
        BY <1>2, <4>1
    <3> QED
      BY <3>3, <3>4
  <2> QED
    BY <1>1, <1>2, <2>1
<1>4. Steady
  BY <1>1, <1>3 DEF Steady
<1> QED
  BY <1>1, <1>4, OverKeeps

-----------------------------------------------------------------------------
(* The theorems *)

\* A run that is not there yet satisfies the invariant.
LEMMA InitKeeps == Init => FeatureBenchInv
<1> SUFFICES ASSUME Init PROVE FeatureBenchInv
  OBVIOUS
<1> USE DEF Init
<1>1. /\ MaxCommands \in Nat /\ 0 \in 0..MaxCommands /\ NoReports \in Scores
      /\ NoInput \in [root : Root \cup {0}, preds : [Task -> Nat]]
      /\ \A t \in Task : NoInput.preds[t] = 0
  BY FeatureBenchAssumption DEF NoReports, NoReport, Scores, NoInput
<1>2. /\ cli = Off /\ IsCommand(cli) /\ cli.at = "off" /\ cli.n = 0 /\ cli.before = Unbound
         /\ ~cli.launched
  <2>1. Off.at = "off" /\ Off.before = Unbound /\ ~Off.launched
    BY OffIs
  <2>2. Off.n = 0 /\ IsCommand(Off)
    BY <1>1, UnboundIsReceipt DEF Off, IsCommand
  <2> QED
    BY <2>1, <2>2
<1>3. Made = {} /\ Cardinality(Made) = 0
  <2>1. Made = {}
    BY DEF Made
  <2> QED
    BY <2>1, FS_EmptySet
<1>4. IsReceipt(receipt) /\ receipt["task"] = {} /\ cli.before["task"] = {}
  BY <1>2, UnboundIsReceipt DEF Roles
<1>5. NoArchive \in [tasks : Scores, total : Scores]
  BY <1>1 DEF NoArchive
<1>6. /\ cli.at \notin Preparing \cup Opening \cup Staging \cup Quiet \cup Judging \cup Working
      /\ cli.at \notin {"noteEval", "noteInfer", "inferring", "begin", "consolidate",
          "invalidate", "evaluate"}
  BY <1>2 DEF Working, Preparing, Opening, Staging, Judging, Quiet
<1>7. FeatureBenchTypes
  <2>1. reports \in [Root -> Scores] /\ totals \in [Root -> Scores]
    BY <1>1
  <2>2. outputs \in [Root -> [Task -> Nat]] /\ metas \in [Root -> SUBSET (Task \cup {0})]
    BY <1>1
  <2> QED
    BY <1>1, <1>2, <1>4, <1>5, <2>1, <2>2 DEF FeatureBenchTypes
<1>8. Counting /\ NothingYet /\ OwnProcess
  BY <1>2, <1>3, <1>6 DEF Counting, NothingYet, OwnProcess
<1>9. Directories
  <2>1. \A r \in Root, t \in Task : outputs[r][t] = 0
    BY <1>1
  <2>2. Len(invs) = 0 /\ 1..0 = {}
    OBVIOUS
  <2> QED
    BY <1>3, <1>6, <2>1, <2>2 DEF Directories
<1>10. NewIsOwn /\ OwnReports
  BY <1>6 DEF NewIsOwn, OwnReports
<1>11. InputsAreSet
  <2>1. \A i \in Inv : inputs[i] = NoInput /\ i \in Nat /\ i >= 0
    BY <1>1 DEF Inv
  <2> QED
    BY <1>1, <1>2, <1>6, <2>1 DEF InputsAreSet
<1>12. BoundScores
  BY <1>4 DEF BoundScores, TrueScores, OnePerTask, NoneRedone
<1>13. Unbinding /\ NothingRevived
  BY <1>2, <1>6, UnboundIsReceipt DEF Unbinding, NothingRevived, Roles
<1>14. NeverBehind
  BY DEF NeverBehind
<1> QED
  BY <1>7, <1>8, <1>9, <1>10, <1>11, <1>12, <1>13, <1>14 DEF FeatureBenchInv

\* Every step keeps the invariant.
LEMMA StepKeeps == FeatureBenchInv /\ [Next]_vars => FeatureBenchInv'
<1> SUFFICES ASSUME FeatureBenchInv, [Next]_vars PROVE FeatureBenchInv'
  OBVIOUS
<1>1. ASSUME NEW p \in procs, InferStarts(p) \/ InferPredicts(p) \/ EvalReports(p)
      PROVE  FeatureBenchInv'
  BY <1>1, InferStartsKeeps, InferPredictsKeeps, EvalReportsKeeps
<1>2. CASE StartRun \/ StartResume \/ Recover \/ Close \/ Resolve
  BY <1>2, OpeningStepsKeep
<1>3. CASE Begin
  BY <1>3, BeginKeeps
<1>4. CASE Unbind \/ Annotate
  BY <1>4, UnbindKeeps, AnnotateKeeps
<1>5. CASE Infer \/ Inferring \/ NoteInfer
  BY <1>5, InferKeeps, InferringKeeps, NoteInferKeeps
<1>6. CASE Consolidate \/ Bind
  BY <1>6, ConsolidateKeeps, BindKeeps
<1>7. CASE Archive \/ Restore
  BY <1>7, ArchiveKeeps
<1>8. CASE Invalidate \/ Evaluate
  BY <1>8, InvalidateKeeps, EvaluateKeeps
<1>9. CASE Evaluating \/ IndexFails \/ Cleanup
  BY <1>9, StepsOnKeep
<1>10. CASE Index \/ Accept
  BY <1>10, IndexKeeps
<1>11. CASE Rebind \/ NoteEval
  BY <1>11, RebindKeeps, NoteEvalKeeps
<1>12. CASE Finish \/ Crash
  BY <1>12, EndsKeep
<1>13. CASE UNCHANGED vars
  <2> USE DEF FeatureBenchInv
  <2>1. UNCHANGED <<created, invs, batches, receipt, metas, outputs, inputs, reports, totals,
                    archive, procs, cli>>
    BY <1>13 DEF vars, stored, native
  <2>2. Made' = Made /\ Known' = Known /\ (\A i : Accepted(i)' <=> Accepted(i))
    BY <2>1, SameFiles
  <2>3. FeatureBenchTypes' /\ Counting' /\ NothingYet' /\ OwnProcess'
    BY <2>1, <2>2 DEF FeatureBenchTypes, Counting, NothingYet, OwnProcess
  <2>4. Directories' /\ NewIsOwn' /\ InputsAreSet'
    BY <2>1, <2>2 DEF Directories, NewIsOwn, InputsAreSet
  <2>5. BoundScores' /\ OwnReports'
    BY <2>1 DEF BoundScores, TrueScores, OnePerTask, NoneRedone, OwnReports
  <2>6. Unbinding' /\ NothingRevived' /\ NeverBehind'
    BY <2>1, <2>2 DEF Unbinding, NothingRevived, NeverBehind
  <2> QED
    BY <2>3, <2>4, <2>5, <2>6
<1> QED
  BY <1>1, <1>2, <1>3, <1>4, <1>5, <1>6, <1>7, <1>8, <1>9, <1>10, <1>11, <1>12, <1>13 DEF Next

\* The invariant holds in every reachable state, whatever the tasks and however many commands.
THEOREM FeatureBenchInvariant == Spec => []FeatureBenchInv
BY InitKeeps, StepKeeps, PTL DEF Spec

\* A score that a report shows was computed, by the evaluation it is attributed to, on the
\* very prediction that this evaluation has bound as its input (the receipt and its resolver).
THEOREM ScoresOfBoundPredictions == Spec => []ScoreOfBoundPrediction
<1>1. FeatureBenchInv => ScoreOfBoundPrediction
  BY DEF FeatureBenchInv, BoundScores, TrueScores, ScoreOfBoundPrediction, Backed
<1> QED
  BY <1>1, FeatureBenchInvariant, PTL

\* Once a redo has marked a task, no report shows a score of it from before, although the
\* receipt is restored as a whole when an evaluation cannot be launched.
THEOREM RedoneStayInvalid == Spec => []RedoneStaysInvalid
<1>1. ASSUME FeatureBenchInv, NEW t \in Task, NEW b \in Backed(t)
      PROVE  b.inv >= LastRedo(t)
  <2> DEFINE marks == {j \in DOMAIN batches : batches[j].phase = "cleanup" /\ t \in batches[j].tasks}
             all == {batches[k].inv : k \in marks}
  <2>1. b \in receipt["task"] /\ b.task = t /\ b.val = <<b.inv, inputs[b.inv].preds[t]>>
    BY <1>1 DEF Backed, FeatureBenchInv, BoundScores, TrueScores
  <2>2. \A x \in all : x <= b.inv
    BY <1>1, <2>1 DEF FeatureBenchInv, BoundScores, NoneRedone
  <2>3. all \in SUBSET Nat /\ \A x \in all : x <= Len(invs)
    <3>1. \A k \in DOMAIN batches : batches[k] \in Batches /\ batches[k].inv <= Len(invs)
      BY <1>1 DEF FeatureBenchInv, FeatureBenchTypes, InputsAreSet
    <3> QED
      BY <3>1, FeatureBenchAssumption DEF Batches, Inv
  <2>4. CASE all = {}
    <3>1. LastRedo(t) = 0
      BY <2>4 DEF LastRedo
    <3>2. b.inv \in Nat
      BY <1>1, <2>1, FeatureBenchAssumption DEF FeatureBenchInv, BoundScores, TrueScores, Inv
    <3> QED
      BY <3>1, <3>2
  <2>5. CASE all # {}
    <3>1. LastRedo(t) = Max(all)
      BY <2>5 DEF LastRedo
    <3>2. Len(invs) \in Nat
      BY <1>1 DEF FeatureBenchInv, FeatureBenchTypes
    <3> HIDE DEF all
    <3>3. Max(all) \in all
      BY <2>3, <2>5, <3>2, MaxOf
    <3> QED
      BY <2>2, <2>3, <3>1, <3>3
  <2> QED
    BY <2>4, <2>5
<1>2. FeatureBenchInv => RedoneStaysInvalid
  BY <1>1 DEF RedoneStaysInvalid
<1> QED
  BY <1>2, FeatureBenchInvariant, PTL

\* Predictions that an evaluation accepts never fall back behind those accepted earlier.
THEOREM AcceptedPredictionsAdvance == Spec => []AcceptedNeverRegress
<1>1. FeatureBenchInv => AcceptedNeverRegress
  BY AcceptedHasInput DEF FeatureBenchInv, NeverBehind, AcceptedNeverRegress
<1> QED
  BY <1>1, FeatureBenchInvariant, PTL

\* No two native processes are at work in one run directory, whatever crashed in between.
THEOREM OneProcessOnly == Spec => []OneNativeProcess
<1>1. ASSUME FeatureBenchInv
      PROVE  OneNativeProcess
  <2>1. CASE procs = {}
    BY <2>1, FS_EmptySet DEF OneNativeProcess
  <2>2. CASE procs # {}
    <3>1. PICK p \in procs : procs = {p}
      BY <1>1, <2>2 DEF FeatureBenchInv, OwnProcess
    <3>2. Cardinality(procs) = 1
      BY <3>1, FS_Singleton
    <3> QED
      BY <3>2 DEF OneNativeProcess
  <2> QED
    BY <2>1, <2>2
<1> QED
  BY <1>1, FeatureBenchInvariant, PTL

\* The aggregate in a report is the sum of the very task scores shown beside it.
THEOREM HeadlinesMatchTasks == Spec => []HeadlineMatchesTasks
<1>1. ASSUME FeatureBenchInv, NEW h \in Headline, NEW t \in Task
      PROVE  Backed(t) # {} /\ Verdict(t).val = h.val[t]
  <2>1. PICK c \in Backed(t) : c.inv = h.inv /\ c.root = h.root
    BY <1>1 DEF Headline
  <2>2. Verdict(t) \in Backed(t)
    BY <2>1, Zenon DEF Verdict
  <2>3. Verdict(t) = c
    BY <1>1, <2>1, <2>2 DEF FeatureBenchInv, BoundScores, OnePerTask, Backed
  <2>4. reports[c.root][t] = c.val
    BY <2>1 DEF Backed
  <2>5. h.val = reports[h.root]
    BY <1>1 DEF Headline, SumsUp
  <2> QED
    BY <2>1, <2>3, <2>4, <2>5
<1>2. FeatureBenchInv => HeadlineMatchesTasks
  BY <1>1 DEF HeadlineMatchesTasks
<1> QED
  BY <1>2, FeatureBenchInvariant, PTL

-----------------------------------------------------------------------------
(* What a redo leaves to the tasks it does not name *)

\* What the invocation's evidence for a root binds besides task reports: the predictions it
\* evaluated, its record, and the metadata m and the outputs o as they are.
Borne(bound, m, o, i, r) ==
  /\ \E b \in bound["input"] : b.inv = i /\ b.root = r
  /\ \E b \in bound["eval"] : b.inv = i /\ b.root = r
  /\ \E b \in bound["meta"] : b.inv = i /\ b.root = r /\ b.val = m[r]
  /\ \E b \in bound["output"] : b.inv = i /\ b.root = r /\ b.val = o[r]

\* A task's report in a root (rep) is bound, and so is everything it needs.
HasEvidence(bound, m, o, rep, t, i, r) ==
  /\ \E b \in bound["task"] : b.inv = i /\ b.task = t /\ b.root = r /\ b.val = rep[r][t]
  /\ rep[r][t] # NoReport
  /\ Borne(bound, m, o, i, r)

\* It is, by another invocation than inv and in one of the evaluated roots.
Kept(bound, m, o, rep, evaluated, inv, t) ==
  \E i \in Inv \ {inv}, r \in evaluated : HasEvidence(bound, m, o, rep, t, i, r)

\* Directories are recorded before they are evaluated; until the evaluation is launched there
\* is none, after that no inference runs any more.
RootsKnown ==
  /\ Evaluated \subseteq Known /\ Known \subseteq Made
  /\ cli.root \in Made \cup {0} /\ cli.first \in Made \cup {0}
  /\ cli.at \in Opening \cup Preparing => cli.root = 0
  /\ cli.at \in Staging \cup Judging \/ cli.launched => cli.root \in Known
  /\ cli.launched => \A p \in procs : p.kind = "eval"
  /\ cli.at \in Judging \cup {"noteEval"} => cli.launched
  /\ cli.at = "finish" /\ cli.launched => cli.root \in Evaluated

\* The command at work redoes tasks.
Redoing == cli.redo # {} /\ cli.at \in Working

\* A redo works in a directory that no evaluation has seen, and what it leaves there is well-formed.
RedoIsApart ==
  Redoing =>
  /\ cli.at # "finish" => cli.root \notin Evaluated
  /\ \A p \in procs : p.kind = "infer" => p.tasks = cli.redo /\ p.root \notin Evaluated
  /\ cli.at = "inferring" => \A r \in Made \ Known : metas[r] = cli.redo
  /\ (cli.at = "noteInfer" /\ ~cli.bad) \/ cli.at \in Staging \cup Judging => metas[cli.root] = cli.redo
  /\ cli.at \in (Staging \ {"consolidate"}) \cup Judging =>
       {t \in Task : outputs[cli.root][t] # 0} = cli.redo
  /\ cli.at \in {"archive", "invalidate", "evaluate"} \cup Judging =>
       /\ \E b \in receipt["input"] : b.inv = cli.inv /\ b.root = cli.root
       /\ \E b \in receipt["eval"] : b.inv = cli.inv /\ b.root = cli.root

\* The steps at which the command may yet put its copy of the receipt back.
Returning == {"archive", "invalidate", "evaluate", "restore", "rebind"}

\* The old evidence of such a task, or the evidence that replaced it.
StillKept(bound, t) == Kept(bound, metas, outputs, reports, Evaluated, cli.inv, t)
Renewed(t) == cli.launched /\ HasEvidence(receipt, metas, outputs, reports, t, cli.inv, cli.root)

\* What was verified when a redo began has its evidence, unless it is redone.
EvidenceStays ==
  Redoing => \A t \in cli.was \ cli.redo :
    /\ StillKept(receipt, t) \/ Renewed(t)
    /\ cli.at \in Returning => StillKept(cli.before, t)

\* The inductive invariant of the evidence, beside FeatureBenchInv.
EvidenceInv == RootsKnown /\ RedoIsApart /\ EvidenceStays

\* Evidence outlasts whatever leaves its bindings and the bytes they bind alone.
LEMMA EvidenceOutlasts ==
  ASSUME NEW bound, NEW m, NEW o, NEW rep, NEW t, NEW i, NEW r,
         NEW bound2, NEW m2, NEW o2, NEW rep2,
         HasEvidence(bound, m, o, rep, t, i, r),
         m2[r] = m[r], o2[r] = o[r], rep[r][t] # NoReport => rep2[r][t] = rep[r][t],
         \A role \in {"input", "eval", "meta", "output"} : \A b \in bound[role] :
           b.inv = i /\ b.root = r => b \in bound2[role],
         \A b \in bound["task"] : b.inv = i /\ b.task = t /\ b.root = r => b \in bound2["task"]
  PROVE  HasEvidence(bound2, m2, o2, rep2, t, i, r)
<1>1. rep[r][t] # NoReport /\ rep2[r][t] = rep[r][t]
  BY DEF HasEvidence
<1>2. \E b \in bound2["task"] : b.inv = i /\ b.task = t /\ b.root = r /\ b.val = rep2[r][t]
  BY <1>1 DEF HasEvidence
<1>3. Borne(bound, m, o, i, r)
  BY DEF HasEvidence
<1>4. Borne(bound2, m2, o2, i, r)
  BY <1>3 DEF Borne
<1> QED
  BY <1>1, <1>2, <1>4 DEF HasEvidence

\* So does the evidence of another invocation in an evaluated root.
LEMMA KeptOutlasts ==
  ASSUME NEW bound, NEW m, NEW o, NEW rep, NEW evaluated, NEW inv, NEW t,
         NEW bound2, NEW m2, NEW o2, NEW rep2, NEW evaluated2,
         Kept(bound, m, o, rep, evaluated, inv, t), evaluated \subseteq evaluated2,
         \A r \in evaluated : /\ m2[r] = m[r] /\ o2[r] = o[r]
                              /\ rep[r][t] # NoReport => rep2[r][t] = rep[r][t],
         \A role \in {"input", "eval", "meta", "output"} : \A b \in bound[role] :
           b.inv # inv /\ b.root \in evaluated => b \in bound2[role],
         \A b \in bound["task"] : b.inv # inv /\ b.task = t => b \in bound2["task"]
  PROVE  Kept(bound2, m2, o2, rep2, evaluated2, inv, t)
<1>1. PICK i \in Inv \ {inv}, r \in evaluated : HasEvidence(bound, m, o, rep, t, i, r)
  BY DEF Kept
<1>2. i # inv
  BY <1>1
<1>3. HasEvidence(bound2, m2, o2, rep2, t, i, r)
  <2>1. m2[r] = m[r] /\ o2[r] = o[r] /\ (rep[r][t] # NoReport => rep2[r][t] = rep[r][t])
    OBVIOUS
  <2>2. \A role \in {"input", "eval", "meta", "output"} : \A b \in bound[role] :
          b.inv = i /\ b.root = r => b \in bound2[role]
    BY <1>2
  <2>3. \A b \in bound["task"] : b.inv = i /\ b.task = t /\ b.root = r => b \in bound2["task"]
    BY <1>2
  <2> QED
    BY <1>1, <2>1, <2>2, <2>3, EvidenceOutlasts
<1> QED
  BY <1>1, <1>3 DEF Kept

\* The resolver accepts a report exactly where there is evidence, in an evaluated root.
LEMMA VerifiedIsEvidence ==
  ASSUME IsReceipt(receipt), TrueScores(receipt), NEW t \in Task
  PROVE  Verified(t) <=>
           \E i \in Inv, r \in Evaluated :
             inputs[i] # NoInput /\ HasEvidence(receipt, metas, outputs, reports, t, i, r)
<1>1. DOMAIN receipt = Roles
  BY DEF IsReceipt
<1>2. Current = [role \in Roles |-> {b \in receipt[role] : Bytes(role, b) = b.val}]
  BY <1>1 DEF Current
<1>3. /\ Current["input"] = receipt["input"] /\ Current["eval"] = receipt["eval"]
      /\ Current["meta"] = {b \in receipt["meta"] : metas[b.root] = b.val}
      /\ Current["output"] = {b \in receipt["output"] : outputs[b.root] = b.val}
      /\ Current["task"] = {b \in receipt["task"] : reports[b.root][b.task] = b.val}
  BY <1>2 DEF Roles, Bytes
<1>4. \A b \in receipt["task"] : b.val # NoReport
  BY FeatureBenchAssumption DEF TrueScores, NoReport, Inv
<1>5. ASSUME NEW i, NEW r
      PROVE  Complete(i, t, r) <=>
               /\ \E b \in receipt["task"] : b.inv = i /\ b.task = t /\ b.root = r /\ b.val = reports[r][t]
               /\ Borne(receipt, metas, outputs, i, r)
  BY <1>3 DEF Complete, Borne
<1>6. ASSUME Verified(t)
      PROVE  \E i \in Inv, r \in Evaluated :
               inputs[i] # NoInput /\ HasEvidence(receipt, metas, outputs, reports, t, i, r)
  <2>1. PICK b \in receipt["task"] : /\ b.task = t /\ b.root \in Evaluated
                                     /\ reports[b.root][t] = b.val /\ Complete(b.inv, t, b.root)
    BY <1>6 DEF Verified, Backed
  <2>2. b.inv \in Inv /\ inputs[b.inv] # NoInput
    BY DEF TrueScores
  <2>3. HasEvidence(receipt, metas, outputs, reports, t, b.inv, b.root)
    BY <1>4, <1>5, <2>1 DEF HasEvidence
  <2> QED
    BY <2>1, <2>2, <2>3
<1>7. ASSUME NEW i \in Inv, NEW r \in Evaluated, HasEvidence(receipt, metas, outputs, reports, t, i, r)
      PROVE  Verified(t)
  <2>1. PICK b \in receipt["task"] : b.inv = i /\ b.task = t /\ b.root = r /\ b.val = reports[r][t]
    BY <1>7 DEF HasEvidence
  <2>2. Complete(i, t, r)
    BY <1>5, <1>7 DEF HasEvidence
  <2>3. b \in Backed(t)
    BY <2>1, <2>2 DEF Backed
  <2> QED
    BY <2>3 DEF Verified
<1> QED
  BY <1>6, <1>7


\* The run state and the metadata being the same, so are the roots derived from them.
LEMMA SameRoots ==
  ASSUME UNCHANGED <<batches, metas>>
  PROVE  Made' = Made /\ Known' = Known /\ Evaluated' = Evaluated
BY DEF Made, Known, Inferred, Evaluated

\* The first inference's directory is a recorded one.
LEMMA FirstIsKnown == batches \in Seq(Batches) => First \in Known \cup {0}
<1> SUFFICES ASSUME batches \in Seq(Batches), Inferred # {} PROVE First \in Known
  BY DEF First
<1>1. Inferred \subseteq Nat
  BY DEF Inferred
<1>2. Min(Inferred) \in Inferred
  BY <1>1, MinOf
<1> QED
  BY <1>2 DEF First, Known

\* A command without an invocation has nothing to keep.
LEMMA OutOfWork ==
  ASSUME EvidenceInv, UNCHANGED <<batches, metas>>, cli'.at \in Opening \cup {"off"},
         ~cli'.launched, cli'.root = 0, cli'.first \in Made \cup {0}
  PROVE  EvidenceInv'
<1>1. Made' = Made /\ Known' = Known /\ Evaluated' = Evaluated
  BY SameRoots
<1>2. /\ cli'.at \notin Working \cup Staging \cup Judging \cup {"noteEval", "finish"}
  BY DEF Opening, Working, Preparing, Staging, Judging
<1>3. RootsKnown'
  BY <1>1, <1>2 DEF EvidenceInv, RootsKnown
<1>4. ~Redoing'
  BY <1>2 DEF Redoing
<1> QED
  BY <1>3, <1>4 DEF EvidenceInv, RedoIsApart, EvidenceStays

\* The steps before an invocation begins and after it is over.
LEMMA EvidenceOutOfWork ==
  ASSUME FeatureBenchInv, EvidenceInv,
         StartRun \/ StartResume \/ Recover \/ Close \/ Resolve \/ Finish \/ Crash
           \/ (Archive /\ cli' = [Off EXCEPT !.n = cli.n])
  PROVE  EvidenceInv'
<1>1. IsCommand(cli)
  BY DEF FeatureBenchInv, FeatureBenchTypes
<1>2. UNCHANGED <<batches, metas>>
  BY DEF StartRun, StartResume, Recover, Close, Resolve, Finish, Crash, Archive, stored, native, Moved
<1>3. ASSUME NEW n, cli' = [Off EXCEPT !.n = n]
      PROVE  EvidenceInv'
  <2>1. cli'.at = "off" /\ ~cli'.launched /\ cli'.root = 0 /\ cli'.first = 0
    BY <1>3 DEF Off
  <2> QED
    BY <1>2, <2>1, OutOfWork
<1>4. CASE Over
  BY <1>3, <1>4 DEF Over
<1>5. ASSUME NEW s \in Opening, GoTo(s), cli.at \in Opening
      PROVE  EvidenceInv'
  <2>1. cli'.at = s /\ cli'.launched = cli.launched /\ cli'.root = cli.root /\ cli'.first = cli.first
    BY <1>1, <1>5, GoToGoesOn DEF IsCommand, GoTo, GoesOn
  <2>2. ~cli.launched /\ cli.root = 0 /\ cli.first \in Made \cup {0}
    BY <1>5 DEF FeatureBenchInv, InputsAreSet, EvidenceInv, RootsKnown, Opening, Judging
  <2> QED
    BY <1>2, <2>1, <2>2, OutOfWork
<1>6. CASE StartRun
  <2>1. CASE cli' = [Off EXCEPT !.n = cli.n + 1]
    BY <1>3, <2>1
  <2>2. CASE cli' = [Off EXCEPT !.n = cli.n + 1, !.kind = "run", !.at = "begin"]
    <3>1. cli'.at \in Opening /\ ~cli'.launched /\ cli'.root = 0 /\ cli'.first = 0
      BY <2>2 DEF Off, Opening
    <3> QED
      BY <1>2, <3>1, OutOfWork
  <2> QED
    BY <1>6, <2>1, <2>2 DEF StartRun
<1>7. CASE StartResume
  <2>1. cli'.at \in Opening /\ ~cli'.launched /\ cli'.root = 0 /\ cli'.first = 0
    BY <1>7 DEF StartResume, Off, Opening
  <2> QED
    BY <1>2, <2>1, OutOfWork
<1>8. CASE Recover
  BY <1>4, <1>5, <1>8 DEF Recover, At, Opening
<1>9. CASE Close
  BY <1>4, <1>5, <1>9 DEF Close, At, Opening
<1>10. CASE Resolve
  <2>1. CASE Over
    BY <1>4, <2>1
  <2>2. CASE cli' = [cli EXCEPT !.at = "begin", !.first = First]
    <3>1. cli.at = "resolve"
      BY <1>10 DEF Resolve, At
    <3>2. cli'.at \in Opening /\ cli'.launched = cli.launched /\ cli'.root = cli.root /\ cli'.first = First
      BY <1>1, <2>2 DEF IsCommand, Opening
    <3>3. ~cli.launched /\ cli.root = 0 /\ First \in Made \cup {0}
      BY <3>1, FirstIsKnown DEF FeatureBenchInv, FeatureBenchTypes, InputsAreSet, EvidenceInv, RootsKnown, Opening, Judging
    <3> QED
      BY <1>2, <3>2, <3>3, OutOfWork
  <2> QED
    BY <1>10, <2>1, <2>2 DEF Resolve
<1>11. CASE Finish \/ Crash
  BY <1>4, <1>11 DEF Finish, Crash
<1>12. CASE cli' = [Off EXCEPT !.n = cli.n]
  BY <1>3, <1>12
<1> QED
  BY <1>6, <1>7, <1>8, <1>9, <1>10, <1>11, <1>12

\* The command at work has the same redo, and what was verified when that began.
SameRedo ==
  cli'.redo = cli.redo /\ cli'.was = cli.was /\ cli'.inv = cli.inv /\ cli'.first = cli.first

\* A step by GoTo or Fails has it.
LEMMA GoingIsSameRedo ==
  ASSUME IsCommand(cli), NEW s \in Opening \cup Working, GoTo(s) \/ Fails(s)
  PROVE  SameRedo /\ cli'.root = cli.root /\ cli'.at = s /\ cli'.launched = cli.launched
         /\ cli'.before = cli.before
BY DEF IsCommand, GoTo, Fails, SameRedo

\* A step of the command after its inference, on towards its end, keeps the roots in order.
LEMMA StepsApart ==
  ASSUME RootsKnown, RedoIsApart, UNCHANGED <<batches, metas, outputs>>, SameRedo,
         cli.at \in Working \ {"finish"}, cli'.root = cli.root, cli'.launched = cli.launched, procs' \subseteq procs,
         cli'.at \in Working \ (Preparing \cup {"inferring", "noteInfer"}),
         cli'.at \in Staging \cup Judging => cli.at \in Staging \cup Judging,
         cli'.at \in Judging \cup {"noteEval"} => cli.launched,
         cli'.at = "finish" => ~cli.launched,
         Redoing /\ cli'.at \in (Staging \ {"consolidate"}) \cup Judging =>
           \/ cli.at \in (Staging \ {"consolidate"}) \cup Judging
           \/ {t \in Task : outputs[cli.root][t] # 0} = cli.redo,
         Redoing /\ cli'.at \in {"archive", "invalidate", "evaluate"} \cup Judging =>
           /\ \E b \in receipt'["input"] : b.inv = cli.inv /\ b.root = cli.root
           /\ \E b \in receipt'["eval"] : b.inv = cli.inv /\ b.root = cli.root
  PROVE  RootsKnown' /\ RedoIsApart'
<1>1. Made' = Made /\ Known' = Known /\ Evaluated' = Evaluated
  BY SameRoots
<1>2. cli'.at \notin Opening
  BY DEF Opening, Working, Preparing, Staging, Judging
<1>3. RootsKnown'
  BY <1>1, <1>2 DEF RootsKnown, SameRedo
<1>4. RedoIsApart'
  <2> SUFFICES ASSUME Redoing' PROVE RedoIsApart'
    BY DEF RedoIsApart
  <2>1. Redoing
    BY DEF Redoing, SameRedo
  <2>2. cli.root \notin Evaluated
    BY <2>1 DEF RedoIsApart
  <2>3. \A p \in procs' : p.kind = "infer" => p.tasks = cli.redo /\ p.root \notin Evaluated
    BY <2>1 DEF RedoIsApart
  <2>4. cli'.at \in Staging \cup Judging => metas[cli.root] = cli.redo
    BY <2>1 DEF RedoIsApart
  <2>5. cli'.at \in (Staging \ {"consolidate"}) \cup Judging => {t \in Task : outputs[cli.root][t] # 0} = cli.redo
    BY <2>1 DEF RedoIsApart
  <2>6. ~(cli'.at = "noteInfer" /\ ~cli'.bad) /\ cli'.at # "inferring"
    OBVIOUS
  <2>7. cli'.at \in {"archive", "invalidate", "evaluate"} \cup Judging =>
          /\ \E b \in receipt'["input"] : b.inv = cli.inv /\ b.root = cli.root
          /\ \E b \in receipt'["eval"] : b.inv = cli.inv /\ b.root = cli.root
    BY <2>1
  <2> QED
    BY <1>1, <2>2, <2>3, <2>4, <2>5, <2>6, <2>7 DEF RedoIsApart, SameRedo
<1> QED
  BY <1>3, <1>4

\* A step that unbinds and overwrites at most what the redo is about keeps the evidence.
LEMMA StepsSpare ==
  ASSUME EvidenceStays, UNCHANGED <<metas, outputs>>, Evaluated \subseteq Evaluated', SameRedo,
         cli.at \in Working, cli'.launched = cli.launched, cli.launched => cli'.root = cli.root,
         Redoing => \A r \in Evaluated \cup {cli.root}, t \in Task :
           r \in Evaluated \/ cli.launched => (reports[r][t] # NoReport => reports'[r][t] = reports[r][t]),
         \A role \in {"input", "eval", "meta", "output"} : receipt[role] \subseteq receipt'[role],
         \A b \in receipt["task"] : b.task \notin cli.redo => b \in receipt'["task"],
         cli.was \subseteq Task,
         cli'.at \in Returning => cli.at \in Returning /\ cli'.before = cli.before
  PROVE  EvidenceStays'
<1> SUFFICES ASSUME Redoing', NEW t \in cli'.was \ cli'.redo
             PROVE  /\ \/ Kept(receipt', metas', outputs', reports', Evaluated', cli'.inv, t)
                       \/ /\ cli'.launched
                          /\ HasEvidence(receipt', metas', outputs', reports', t, cli'.inv, cli'.root)
                    /\ cli'.at \in Returning =>
                         Kept(cli'.before, metas', outputs', reports', Evaluated', cli'.inv, t)
  BY DEF EvidenceStays, StillKept, Renewed
<1>1. Redoing /\ t \in cli.was \ cli.redo /\ t \in Task
  BY DEF Redoing, SameRedo
<1>2. \A r \in Evaluated : /\ metas'[r] = metas[r] /\ outputs'[r] = outputs[r]
                           /\ reports[r][t] # NoReport => reports'[r][t] = reports[r][t]
  BY <1>1
<1>3. \A b \in receipt["task"] : b.task = t => b \in receipt'["task"]
  BY <1>1
<1>4. \A role \in {"input", "eval", "meta", "output"} : \A b \in receipt[role] : b \in receipt'[role]
  OBVIOUS
<1>5. cli'.inv = cli.inv
  BY DEF SameRedo
<1>6. ASSUME Kept(receipt, metas, outputs, reports, Evaluated, cli.inv, t)
      PROVE  Kept(receipt', metas', outputs', reports', Evaluated', cli.inv, t)
  BY <1>2, <1>3, <1>4, <1>6, KeptOutlasts
<1>7. ASSUME Kept(cli.before, metas, outputs, reports, Evaluated, cli.inv, t)
      PROVE  Kept(cli.before, metas', outputs', reports', Evaluated', cli.inv, t)
  BY <1>2, <1>7, KeptOutlasts
<1>8. ASSUME cli.launched, HasEvidence(receipt, metas, outputs, reports, t, cli.inv, cli.root)
      PROVE  HasEvidence(receipt', metas', outputs', reports', t, cli.inv, cli.root)
  <2>1. /\ metas'[cli.root] = metas[cli.root] /\ outputs'[cli.root] = outputs[cli.root]
        /\ reports[cli.root][t] # NoReport => reports'[cli.root][t] = reports[cli.root][t]
    BY <1>1, <1>8
  <2> QED
    BY <1>3, <1>4, <1>8, <2>1, EvidenceOutlasts
<1>9. \/ Kept(receipt, metas, outputs, reports, Evaluated, cli.inv, t)
      \/ cli.launched /\ HasEvidence(receipt, metas, outputs, reports, t, cli.inv, cli.root)
  BY <1>1 DEF EvidenceStays, StillKept, Renewed
<1>10. cli.at \in Returning => Kept(cli.before, metas, outputs, reports, Evaluated, cli.inv, t)
  BY <1>1 DEF EvidenceStays, StillKept
<1> QED
  BY <1>5, <1>6, <1>7, <1>8, <1>9, <1>10

\* What holds of a command between its inference and the launch of its evaluation.
LEMMA StagingIs ==
  ASSUME FeatureBenchInv, EvidenceInv, cli.at \in Staging
  PROVE  /\ cli.at \in Working \ {"finish"} /\ ~cli.launched /\ procs = {}
         /\ cli.root \in Known /\ (Redoing => cli.root \notin Evaluated)
<1>1. /\ cli.at \in Working \ {"finish"} /\ cli.at \in Quiet
      /\ cli.at \notin Judging \cup {"cleanup", "noteEval", "finish"}
  BY DEF Working, Staging, Judging, Quiet
<1> QED
  BY <1>1 DEF FeatureBenchInv, InputsAreSet, OwnProcess, EvidenceInv, RootsKnown, RedoIsApart

\* What holds of a command always: its tasks are tasks of the manifest.
LEMMA CommandIs ==
  FeatureBenchInv => IsCommand(cli) /\ cli.was \subseteq Task /\ cli.redo \subseteq Task /\ IsReceipt(receipt)
BY DEF FeatureBenchInv, FeatureBenchTypes, IsCommand

\* The consolidation goes on only with a prediction of each redone task, and of no other.
LEMMA ConsolidateSpares ==
  ASSUME FeatureBenchInv, EvidenceInv, Consolidate
  PROVE  EvidenceInv'
<1>1. cli.at = "consolidate" /\ UNCHANGED <<batches, receipt, metas, outputs, reports, procs>>
  BY DEF Consolidate, At, stored
<1>2. cli.at \in Staging
  BY <1>1 DEF Staging
<1>3. PICK s \in {"bind", "cleanup"} :
        /\ GoTo(s) \/ Fails(s)
        /\ s = "bind" => (Required # {} => {t \in Task : outputs[cli.root][t] # 0} = Required)
  BY DEF Consolidate
<1>4. s \in Opening \cup Working
  BY DEF Working, Staging
<1>5. SameRedo /\ cli'.root = cli.root /\ cli'.at = s /\ cli'.launched = cli.launched
  BY <1>3, <1>4, GoingIsSameRedo, CommandIs
<1>6. Redoing /\ s = "bind" => {t \in Task : outputs[cli.root][t] # 0} = cli.redo
  BY <1>3 DEF Redoing, Required
<1>7. RootsKnown' /\ RedoIsApart'
  <2>1. /\ s \in Working \ (Preparing \cup {"inferring", "noteInfer"}) /\ s \notin Judging \cup {"noteEval", "finish"}
        /\ s \notin {"archive", "invalidate", "evaluate"} /\ (s \in Staging => s = "bind")
    BY DEF Working, Staging, Judging, Preparing
  <2> QED
    BY <1>1, <1>2, <1>5, <1>6, <2>1, StagingIs, StepsApart DEF EvidenceInv
<1>8. EvidenceStays'
  <2>1. Evaluated' = Evaluated
    BY <1>1, SameRoots
  <2>2. s \notin Returning
    BY DEF Returning
  <2> QED
    BY <1>1, <1>2, <1>5, <2>1, <2>2, StagingIs, CommandIs, StepsSpare DEF EvidenceInv
<1> QED
  BY <1>7, <1>8 DEF EvidenceInv

\* The steps by which a command goes on with the files as they are, its own directory apart.
LEMMA GoingOnSpares ==
  ASSUME FeatureBenchInv, EvidenceInv, UNCHANGED <<batches, receipt, metas, outputs>>,
         cli.at \in Working \ {"finish"}, procs' \subseteq procs, NEW s \in Working, GoTo(s) \/ Fails(s),
         reports' = reports \/ (cli.at \in Staging /\ \A r \in Root \ {cli.root} : reports'[r] = reports[r]),
         \/ s = "restore" /\ cli.at \in {"archive", "invalidate", "evaluate"}
         \/ s = "rebind" /\ cli.at = "restore"
         \/ s = "invalidate" /\ cli.at = "archive"
         \/ s \in {"index", "reindex"} /\ cli.at \in Judging
         \/ s \in {"cleanup", "finish", "noteEval"} /\ (s = "noteEval" <=> cli.launched)
         \/ s = "cleanup"
  PROVE  EvidenceInv'
<1>1. SameRedo /\ cli'.root = cli.root /\ cli'.at = s /\ cli'.launched = cli.launched /\ cli'.before = cli.before
  BY CommandIs, GoingIsSameRedo
<1>2. RootsKnown' /\ RedoIsApart'
  <2>1. /\ s \in Working \ (Preparing \cup {"inferring", "noteInfer"})
        /\ s \in Staging \cup Judging => cli.at \in Staging \cup Judging
        /\ s \in Judging => cli.at \in Judging
        /\ s = "finish" => ~cli.launched
        /\ s \in (Staging \ {"consolidate"}) \cup Judging => cli.at \in (Staging \ {"consolidate"}) \cup Judging
        /\ s = "noteEval" => cli.launched
        /\ s \in {"archive", "invalidate", "evaluate"} \cup Judging =>
             cli.at \in {"archive", "invalidate", "evaluate"} \cup Judging
    BY DEF Working, Staging, Judging, Preparing
  <2>2. s \in Judging \cup {"noteEval"} => cli.launched
    BY <2>1 DEF EvidenceInv, RootsKnown
  <2>3. Redoing /\ s \in {"archive", "invalidate", "evaluate"} \cup Judging =>
          /\ \E b \in receipt'["input"] : b.inv = cli.inv /\ b.root = cli.root
          /\ \E b \in receipt'["eval"] : b.inv = cli.inv /\ b.root = cli.root
    BY <2>1 DEF EvidenceInv, RedoIsApart
  <2> QED
    BY <1>1, <2>1, <2>2, <2>3, StepsApart DEF EvidenceInv
<1>3. EvidenceStays'
  <2>1. Evaluated' = Evaluated
    BY SameRoots
  <2>2. s \in Returning => cli.at \in Returning
    BY DEF Returning, Judging
  <2>3. Redoing => \A r \in Evaluated \cup {cli.root}, t \in Task :
           r \in Evaluated \/ cli.launched => (reports[r][t] # NoReport => reports'[r][t] = reports[r][t])
    <3>1. Evaluated \subseteq Root
      BY DEF EvidenceInv, RootsKnown, Made
    <3> QED
      BY <3>1, StagingIs
  <2> QED
    BY <1>1, <2>1, <2>2, <2>3, CommandIs, StepsSpare DEF EvidenceInv
<1> QED
  BY <1>2, <1>3 DEF EvidenceInv

\* What the archive moves, and puts back, lies in the command's own directory.
LEMMA ArchiveSpares ==
  ASSUME FeatureBenchInv, EvidenceInv, Archive \/ Restore
  PROVE  EvidenceInv'
<1>1. /\ cli.at \in {"archive", "restore"} /\ UNCHANGED <<batches, receipt, metas, outputs, procs>>
      /\ cli.at = "archive" => Archive
      /\ cli.at = "restore" => Restore
  BY DEF Archive, Restore, At, stored
<1>2. cli.at \in Staging /\ cli.at \in Working \ {"finish"}
  BY <1>1 DEF Staging, Working
<1>3. reports \in [Root -> Scores]
  BY DEF FeatureBenchInv, FeatureBenchTypes
<1>4. \/ reports' = reports \/ \A r \in Root \ {cli.root} : reports'[r] = reports[r]
  <2>1. ASSUME NEW paths, Moved(paths)
        PROVE  \A r \in Root \ {cli.root} : reports'[r] = reports[r]
    BY <1>3, <2>1 DEF Moved
  <2>2. CASE Archive
    BY <2>1, <2>2 DEF Archive
  <2>3. CASE Restore
    BY <1>3, <2>3 DEF Restore
  <2> QED
    BY <2>2, <2>3
<1>5. \/ Archive /\ cli' = [Off EXCEPT !.n = cli.n]
      \/ \E s \in {"restore", "invalidate"} : GoTo(s) /\ cli.at = "archive"
      \/ GoTo("rebind") /\ cli.at = "restore"
      \/ Fails("cleanup")
  BY <1>1 DEF Archive, Restore, Over
<1>6. {"restore", "invalidate", "rebind", "cleanup"} \subseteq Working
  BY DEF Working, Staging
<1>7. CASE Archive /\ cli' = [Off EXCEPT !.n = cli.n]
  BY <1>7, EvidenceOutOfWork
<1>8. ASSUME NEW s \in {"restore", "invalidate"}, GoTo(s), cli.at = "archive"
      PROVE  EvidenceInv'
  BY <1>1, <1>2, <1>4, <1>6, <1>8, GoingOnSpares
<1>9. CASE GoTo("rebind") /\ cli.at = "restore"
  BY <1>1, <1>2, <1>4, <1>6, <1>9, GoingOnSpares
<1>10. CASE Fails("cleanup")
  BY <1>1, <1>2, <1>4, <1>6, <1>10, GoingOnSpares
<1> QED
  BY <1>5, <1>7, <1>8, <1>9, <1>10

\* The ends of the evaluation, and of the command's work.
LEMMA EndsSpare ==
  ASSUME FeatureBenchInv, EvidenceInv, Evaluating \/ IndexFails \/ Cleanup
  PROVE  EvidenceInv'
<1>1. UNCHANGED <<batches, receipt, metas, outputs, reports>>
  BY DEF Evaluating, IndexFails, Cleanup, stored, native
<1>2. CASE Evaluating
  <2>1. cli.at = "evaluating" /\ cli.at \in Judging /\ cli.at \in Working \ {"finish"}
    BY <1>2 DEF Evaluating, At, Judging, Working
  <2>2. procs' \subseteq procs
    BY <1>2 DEF Evaluating, Returns
  <2>3. PICK s \in {"index", "reindex"} : GoTo(s) \/ Fails(s)
    BY <1>2 DEF Evaluating
  <2>4. s \in Working
    BY DEF Working, Judging
  <2> QED
    BY <1>1, <2>1, <2>2, <2>3, <2>4, GoingOnSpares
<1>3. CASE IndexFails
  <2>1. cli.at \in Judging /\ cli.at \in Working \ {"finish"} /\ procs' \subseteq procs
    BY <1>3 DEF IndexFails, Judging, Working
  <2>2. PICK s \in {"reindex", "cleanup"} : Fails(s)
    BY <1>3 DEF IndexFails
  <2>3. s \in Working
    BY DEF Working, Judging
  <2> QED
    BY <1>1, <2>1, <2>2, <2>3, GoingOnSpares
<1>4. CASE Cleanup
  <2>1. cli.at \in Working \ {"finish"} /\ procs' \subseteq procs
    BY <1>4 DEF Cleanup, At, Working
  <2>2. IsCommand(cli)
    BY CommandIs
  <2> DEFINE s == IF cli.launched THEN "noteEval" ELSE "finish"
  <2>3. GoTo(s) \/ Fails(s)
    <3>1. PICK failed \in BOOLEAN : cli' = [cli EXCEPT !.bad = @ \/ failed, !.at = s]
      BY <1>4 DEF Cleanup
    <3>2. CASE failed
      <4>1. (cli.bad \/ failed) = TRUE
        BY <3>2
      <4>2. cli' = [cli EXCEPT !.bad = TRUE, !.at = s]
        BY <3>1, <4>1, Zenon
      <4> HIDE DEF s
      <4> QED
        BY <2>2, <4>2 DEF Fails, IsCommand
    <3>3. CASE ~failed
      <4>1. (cli.bad \/ failed) = cli.bad
        BY <2>2, <3>3 DEF IsCommand
      <4>2. cli' = [cli EXCEPT !.bad = cli.bad, !.at = s]
        BY <3>1, <4>1, Zenon
      <4> HIDE DEF s
      <4> QED
        BY <2>2, <4>2 DEF GoTo, IsCommand
    <3> QED
      BY <3>2, <3>3
  <2>4. s \in Working /\ s \in {"cleanup", "finish", "noteEval"} /\ (s = "noteEval" <=> cli.launched)
    BY <2>2 DEF Working, IsCommand
  <2> HIDE DEF s
  <2> QED
    BY <1>1, <2>1, <2>3, <2>4, GoingOnSpares
<1> QED
  BY <1>2, <1>3, <1>4

\* What a redo takes out of the receipt belongs to its tasks.
LEMMA WithoutSpares ==
  ASSUME IsReceipt(receipt), NEW tasks
  PROVE  /\ \A role \in {"input", "eval", "meta", "output"} : Without(tasks)[role] = receipt[role]
         /\ \A b \in receipt["task"] : b.task \notin tasks => b \in Without(tasks)["task"]
<1>1. DOMAIN receipt = Roles
  BY DEF IsReceipt
<1>2. Without(tasks)["task"] = {b \in receipt["task"] : b.task \notin tasks}
  BY <1>1 DEF Without, Roles
<1>3. \A role \in {"input", "eval", "meta", "output"} : Without(tasks)[role] = receipt[role]
  BY <1>1 DEF Without, Roles
<1> QED
  BY <1>2, <1>3

\* Before the evaluation the receipt loses the scores of the tasks to be evaluated.
LEMMA InvalidateSpares ==
  ASSUME FeatureBenchInv, EvidenceInv, Invalidate
  PROVE  EvidenceInv'
<1>1. cli.at = "invalidate" /\ UNCHANGED <<batches, metas, outputs, reports, procs>>
  BY DEF Invalidate, At, native
<1>2. cli.at \in Staging /\ cli.at \in Working \ {"finish"} /\ cli.at \in Returning
  BY <1>1 DEF Staging, Working, Returning
<1>3. CASE GoTo("restore") /\ receipt' = receipt
  <2>1. "restore" \in Working
    BY DEF Working, Staging
  <2> QED
    BY <1>1, <1>2, <1>3, <2>1, GoingOnSpares
<1>4. CASE receipt' = Without(Infers) /\ GoTo("evaluate")
  <2>1. "evaluate" \in Working /\ "evaluate" \in Opening \cup Working
    BY DEF Working, Staging
  <2>2. SameRedo /\ cli'.root = cli.root /\ cli'.at = "evaluate" /\ cli'.launched = cli.launched
        /\ cli'.before = cli.before
    BY <1>4, <2>1, CommandIs, GoingIsSameRedo
  <2>3. /\ \A role \in {"input", "eval", "meta", "output"} : receipt'[role] = receipt[role]
        /\ \A b \in receipt["task"] : b.task \notin Infers => b \in receipt'["task"]
    BY <1>4, CommandIs, WithoutSpares
  <2>4. RootsKnown' /\ RedoIsApart'
    <3>1. /\ "evaluate" \in Working \ (Preparing \cup {"inferring", "noteInfer"}) /\ "evaluate" \notin Judging
          /\ cli.at \in Staging \ {"consolidate"}
      BY <1>1 DEF Working, Staging, Judging, Preparing
    <3>2. Redoing => /\ \E b \in receipt'["input"] : b.inv = cli.inv /\ b.root = cli.root
                     /\ \E b \in receipt'["eval"] : b.inv = cli.inv /\ b.root = cli.root
      BY <1>1, <2>3 DEF EvidenceInv, RedoIsApart
    <3> QED
      BY <1>1, <1>2, <2>2, <3>1, <3>2, StepsApart DEF EvidenceInv
  <2>5. EvidenceStays'
    <3>1. Evaluated' = Evaluated
      BY <1>1, SameRoots
    <3>2. Redoing => Infers = cli.redo
      BY DEF Redoing, Infers
    <3>3. CASE Redoing
      BY <1>1, <1>2, <2>2, <2>3, <3>1, <3>2, <3>3, CommandIs, StepsSpare DEF EvidenceInv
    <3>4. CASE ~Redoing
      BY <1>2, <2>2, <3>4 DEF EvidenceStays, Redoing, SameRedo
    <3> QED
      BY <3>3, <3>4
  <2> QED
    BY <2>4, <2>5 DEF EvidenceInv
<1> QED
  BY <1>3, <1>4 DEF Invalidate

\* The evaluation is launched, in the command's own directory.
LEMMA EvaluateSpares ==
  ASSUME FeatureBenchInv, EvidenceInv, Evaluate
  PROVE  EvidenceInv'
<1>1. cli.at = "evaluate" /\ UNCHANGED <<batches, receipt, metas, outputs, reports>>
  BY DEF Evaluate, At, native
<1>2. cli.at \in Staging /\ cli.at \in Working \ {"finish"}
  BY <1>1 DEF Staging, Working
<1>3. CASE GoTo("restore") /\ procs' = procs
  <2>1. "restore" \in Working
    BY DEF Working, Staging
  <2> QED
    BY <1>1, <1>2, <1>3, <2>1, GoingOnSpares
<1>4. CASE Launch("eval") /\ cli' = [cli EXCEPT !.at = "evaluating", !.launched = TRUE, !.before = Unbound]
  <2>1. /\ SameRedo /\ cli'.root = cli.root /\ cli'.at = "evaluating" /\ cli'.launched
    BY <1>4, CommandIs DEF IsCommand, SameRedo
  <2>2. \A p \in procs' : p.kind = "eval"
    <3>1. procs = {}
      BY <1>2, StagingIs
    <3> QED
      BY <1>4, <3>1 DEF Launch
  <2>3. Made' = Made /\ Known' = Known /\ Evaluated' = Evaluated
    BY <1>1, SameRoots
  <2>4. /\ "evaluating" \in Judging /\ "evaluating" \notin Opening \cup Preparing \cup Staging \cup Returning
        /\ cli.at \in Staging \ {"consolidate"}
    BY <1>1 DEF Opening, Preparing, Staging, Judging, Returning
  <2>5. RootsKnown'
    BY <1>2, <2>1, <2>2, <2>3, <2>4, StagingIs DEF EvidenceInv, RootsKnown, SameRedo
  <2>6. RedoIsApart'
    <3> SUFFICES ASSUME Redoing' PROVE RedoIsApart'
      BY DEF RedoIsApart
    <3>1. Redoing
      BY <1>2, <2>1 DEF Redoing, SameRedo
    <3>2. /\ cli.root \notin Evaluated /\ metas[cli.root] = cli.redo
          /\ {t \in Task : outputs[cli.root][t] # 0} = cli.redo
          /\ \E b \in receipt["input"] : b.inv = cli.inv /\ b.root = cli.root
          /\ \E b \in receipt["eval"] : b.inv = cli.inv /\ b.root = cli.root
      BY <1>1, <1>2, <2>4, <3>1 DEF EvidenceInv, RedoIsApart
    <3> QED
      BY <1>1, <2>1, <2>2, <2>3, <3>2 DEF RedoIsApart, SameRedo
  <2>7. EvidenceStays'
    <3> SUFFICES ASSUME Redoing', NEW t \in cli'.was \ cli'.redo
                 PROVE  Kept(receipt', metas', outputs', reports', Evaluated', cli'.inv, t)
      BY <2>1, <2>4 DEF EvidenceStays, StillKept
    <3>1. Redoing /\ t \in cli.was \ cli.redo /\ ~cli.launched
      BY <1>2, <2>1, StagingIs DEF Redoing, SameRedo
    <3>2. Kept(receipt, metas, outputs, reports, Evaluated, cli.inv, t)
      BY <3>1 DEF EvidenceInv, EvidenceStays, StillKept, Renewed
    <3> QED
      BY <1>1, <2>1, <2>3, <3>2 DEF SameRedo
  <2> QED
    BY <2>5, <2>6, <2>7 DEF EvidenceInv
<1> QED
  BY <1>3, <1>4 DEF Evaluate

\* What an update of the receipt leaves.
LEMMA WithSpares ==
  ASSUME IsReceipt(receipt), NEW adds
  PROVE  /\ \A role \in {"input", "eval", "meta", "output"} : \A b \in receipt[role] :
              (\A a \in adds[role] : a.inv # b.inv /\ a.root # b.root) => b \in With(adds)[role]
         /\ \A b \in receipt["task"] :
              (\A a \in adds["task"] : a.task # b.task) => b \in With(adds)["task"]
<1>1. DOMAIN receipt = Roles
  BY DEF IsReceipt
<1>2. With(adds) = [role \in Roles |->
                     {b \in receipt[role] : ~Replaced(role, b, adds)} \cup adds[role]]
  BY <1>1 DEF With
<1>3. ASSUME NEW role \in {"input", "eval", "meta", "output"}, NEW b \in receipt[role],
             \A a \in adds[role] : a.inv # b.inv /\ a.root # b.root
      PROVE  b \in With(adds)[role]
  <2>1. ~Replaced(role, b, adds)
    BY <1>3 DEF Replaced
  <2> QED
    BY <1>2, <2>1 DEF Roles
<1>4. ASSUME NEW b \in receipt["task"], \A a \in adds["task"] : a.task # b.task
      PROVE  b \in With(adds)["task"]
  <2>1. ~Replaced("task", b, adds)
    BY <1>4 DEF Replaced
  <2> QED
    BY <1>2, <2>1 DEF Roles
<1> QED
  BY <1>3, <1>4

\* Before the evaluation its input and its record are bound, beside those of other invocations;
\* the command keeps a copy of the receipt as it was.
LEMMA BindSpares ==
  ASSUME FeatureBenchInv, EvidenceInv, Bind
  PROVE  EvidenceInv'
<1> DEFINE input == Binding(cli.inv, cli.root, 0, inputs[cli.inv].preds)
           eval == Binding(cli.inv, cli.root, 0, Infers)
           adds == [Unbound EXCEPT !["input"] = {input}, !["eval"] = {eval}]
<1>1. cli.at = "bind" /\ UNCHANGED <<batches, metas, outputs, reports, procs>>
  BY DEF Bind, At, native
<1>2. cli.at \in Staging /\ cli.at \in Working \ {"finish"}
  BY <1>1 DEF Staging, Working
<1>3. PICK s \in {"archive", "restore"} :
        /\ cli' = [cli EXCEPT !.before = receipt, !.at = s]
        /\ \/ s = "archive" /\ receipt' = With(adds)
           \/ s = "restore" /\ receipt' = receipt
  BY DEF Bind
<1>4. SameRedo /\ cli'.root = cli.root /\ cli'.at = s /\ cli'.launched = cli.launched
      /\ cli'.before = receipt
  BY <1>3, CommandIs DEF IsCommand, SameRedo
<1>5. /\ adds["input"] = {input} /\ adds["eval"] = {eval}
      /\ adds["meta"] = {} /\ adds["output"] = {} /\ adds["task"] = {}
      /\ input.inv = cli.inv /\ input.root = cli.root /\ eval.inv = cli.inv /\ eval.root = cli.root
  BY DEF Unbound, Binding
<1> HIDE DEF adds, input, eval
<1>6. s = "archive" => /\ \E b \in receipt'["input"] : b.inv = cli.inv /\ b.root = cli.root
                       /\ \E b \in receipt'["eval"] : b.inv = cli.inv /\ b.root = cli.root
  <2>1. \A role \in Roles : adds[role] \subseteq With(adds)[role]
    BY CommandIs, WithIs
  <2> QED
    BY <1>3, <1>5, <2>1 DEF Roles
<1>7. RootsKnown' /\ RedoIsApart'
  <2>1. /\ s \in Working \ (Preparing \cup {"inferring", "noteInfer", "finish"})
        /\ s \notin Judging \cup {"noteEval", "invalidate", "evaluate", "finish"}
        /\ cli.at \in Staging \ {"consolidate"}
    BY <1>1 DEF Working, Staging, Judging, Preparing
  <2> QED
    BY <1>1, <1>2, <1>4, <1>6, <2>1, StepsApart DEF EvidenceInv
<1>8. EvidenceStays'
  <2> SUFFICES ASSUME Redoing', NEW t \in cli'.was \ cli'.redo
               PROVE  /\ Kept(receipt', metas', outputs', reports', Evaluated', cli'.inv, t)
                      /\ Kept(cli'.before, metas', outputs', reports', Evaluated', cli'.inv, t)
    BY DEF EvidenceStays, StillKept
  <2>1. Redoing /\ t \in cli.was \ cli.redo /\ ~cli.launched
    BY <1>2, <1>4, StagingIs DEF Redoing, SameRedo
  <2>2. Kept(receipt, metas, outputs, reports, Evaluated, cli.inv, t)
    BY <2>1 DEF EvidenceInv, EvidenceStays, StillKept, Renewed
  <2>3. UNCHANGED <<metas, outputs, reports, Evaluated>> /\ cli'.inv = cli.inv
    BY <1>1, <1>4, SameRoots DEF SameRedo
  <2>4. Kept(receipt', metas', outputs', reports', Evaluated', cli'.inv, t)
    <3>1. CASE receipt' = receipt
      BY <2>2, <2>3, <3>1
    <3>2. CASE receipt' = With(adds)
      <4>1. cli.root \notin Evaluated
        BY <1>2, <2>1, StagingIs
      <4>2. \A role \in {"input", "eval", "meta", "output"} : \A b \in receipt[role] :
              b.inv # cli.inv /\ b.root \in Evaluated => b \in With(adds)[role]
        BY <1>5, <4>1, CommandIs, WithSpares
      <4>3. \A b \in receipt["task"] : b \in With(adds)["task"]
        BY <1>5, CommandIs, WithSpares
      <4> QED
        BY <2>2, <2>3, <3>2, <4>2, <4>3, KeptOutlasts
    <3> QED
      BY <1>3, <3>1, <3>2
  <2> QED
    BY <1>4, <2>2, <2>3, <2>4
<1> QED
  BY <1>7, <1>8 DEF EvidenceInv

\* The receipt that is put back has the evidence too.
LEMMA RebindSpares ==
  ASSUME FeatureBenchInv, EvidenceInv, Rebind
  PROVE  EvidenceInv'
<1>1. cli.at = "rebind" /\ UNCHANGED <<batches, metas, outputs, reports, procs>> /\ Fails("cleanup")
  BY DEF Rebind, At, native
<1>2. cli.at \in Staging /\ cli.at \in Working \ {"finish"} /\ cli.at \in Returning
  BY <1>1 DEF Staging, Working, Returning
<1>3. "cleanup" \in Working /\ "cleanup" \notin Returning \cup Staging \cup Judging \cup Preparing
  BY DEF Working, Returning, Staging, Judging, Preparing
<1>4. SameRedo /\ cli'.root = cli.root /\ cli'.at = "cleanup" /\ cli'.launched = cli.launched
  BY <1>1, <1>3, CommandIs, GoingIsSameRedo
<1>5. RootsKnown' /\ RedoIsApart'
  BY <1>1, <1>2, <1>3, <1>4, StepsApart DEF EvidenceInv
<1>6. EvidenceStays'
  <2> SUFFICES ASSUME Redoing', NEW t \in cli'.was \ cli'.redo
               PROVE  Kept(receipt', metas', outputs', reports', Evaluated', cli'.inv, t)
    BY <1>3, <1>4 DEF EvidenceStays, StillKept
  <2>1. Redoing /\ t \in cli.was \ cli.redo /\ ~cli.launched
    BY <1>2, <1>4, StagingIs DEF Redoing, SameRedo
  <2>2. /\ Kept(receipt, metas, outputs, reports, Evaluated, cli.inv, t)
        /\ Kept(cli.before, metas, outputs, reports, Evaluated, cli.inv, t)
    BY <1>2, <2>1 DEF EvidenceInv, EvidenceStays, StillKept, Renewed
  <2>3. UNCHANGED <<metas, outputs, reports, Evaluated>> /\ cli'.inv = cli.inv
    BY <1>1, <1>4, SameRoots DEF SameRedo
  <2> QED
    BY <2>2, <2>3 DEF Rebind
<1> QED
  BY <1>5, <1>6 DEF EvidenceInv

\* The roots known, and evaluated, once another batch is recorded.
LEMMA RecordedRoots ==
  ASSUME FeatureBenchInv, cli.at \in Working, NEW phase \in Phases, NEW tasks \in SUBSET Task,
         NEW ok \in BOOLEAN, Recorded(phase, tasks, ok)
  PROVE  /\ Known' = Known \cup (IF phase = "inference" THEN {cli.root} \ {0} ELSE {})
         /\ Evaluated' = Evaluated \cup (IF phase = "verifier" THEN {cli.root} ELSE {})
<1> DEFINE n == Len(batches) + 1
<1>1. /\ Len(batches) \in Nat /\ DOMAIN batches = 1..Len(batches) /\ DOMAIN batches' = 1..n
      /\ \A k \in DOMAIN batches : batches'[k] = batches[k]
      /\ batches'[n] = Batch(phase, tasks, ok)
  BY RecordedIs DEF FeatureBenchInv
<1>2. batches'[n].root = cli.root /\ batches'[n].phase = phase
  BY <1>1 DEF Batch
<1>3. n \notin DOMAIN batches /\ DOMAIN batches' = DOMAIN batches \cup {n}
  BY <1>1
<1> HIDE DEF n
<1>4. Known' = Known \cup (IF phase = "inference" THEN {cli.root} \ {0} ELSE {})
  <2>1. Known = {batches[k].root : k \in {j \in DOMAIN batches : batches[j].phase = "inference" /\ batches[j].root # 0}}
    BY DEF Known, Inferred
  <2>2. Known' = {batches'[k].root : k \in {j \in DOMAIN batches' : batches'[j].phase = "inference" /\ batches'[j].root # 0}}
    BY DEF Known, Inferred
  <2> QED
    BY <1>1, <1>2, <1>3, <2>1, <2>2
<1>5. Evaluated' = Evaluated \cup (IF phase = "verifier" THEN {cli.root} ELSE {})
  <2>1. Evaluated = {batches[k].root : k \in {j \in DOMAIN batches : batches[j].phase = "verifier"}}
    BY DEF Evaluated
  <2>2. Evaluated' = {batches'[k].root : k \in {j \in DOMAIN batches' : batches'[j].phase = "verifier"}}
    BY DEF Evaluated
  <2> QED
    BY <1>1, <1>2, <1>3, <2>1, <2>2
<1> QED
  BY <1>4, <1>5

\* When a redo begins, what is verified has its evidence from earlier invocations.
LEMMA BeginSpares ==
  ASSUME FeatureBenchInv, EvidenceInv, Begin
  PROVE  EvidenceInv'
<1>1. cli.at = "begin" /\ UNCHANGED <<batches, receipt, metas, outputs, inputs, reports, procs>>
  BY DEF Begin, At, native
<1>2. PICK s \in {"finish", "unbind", "infer"} :
        /\ cli' = [cli EXCEPT !.inv = Len(invs) + 1,
                              !.was = IF cli.redo = {} THEN {} ELSE {t \in Task : Verified(t)}, !.at = s]
        /\ s = "finish" => cli.redo = {}
  BY CommandIs DEF Begin, IsCommand
<1>3. /\ cli'.redo = cli.redo /\ cli'.inv = Len(invs) + 1 /\ cli'.root = cli.root /\ cli'.first = cli.first
      /\ cli'.launched = cli.launched /\ cli'.at = s
      /\ cli.redo # {} => cli'.was = {t \in Task : Verified(t)}
  BY <1>2, CommandIs DEF IsCommand
<1>4. Made' = Made /\ Known' = Known /\ Evaluated' = Evaluated
  BY <1>1, SameRoots
<1>5. ~cli.launched /\ cli.root = 0 /\ procs = {}
  BY <1>1 DEF FeatureBenchInv, InputsAreSet, OwnProcess, Quiet, EvidenceInv, RootsKnown, Opening, Judging
<1>6. /\ s \notin Opening \cup Staging \cup Judging \cup {"noteEval", "inferring", "noteInfer"} \cup Returning
      /\ s \notin {"archive", "invalidate", "evaluate"}
  BY DEF Opening, Staging, Judging, Returning
<1>7. RootsKnown'
  BY <1>3, <1>4, <1>5, <1>6 DEF EvidenceInv, RootsKnown
<1>8. 0 \notin Evaluated
  BY DEF EvidenceInv, RootsKnown, Made, Root
<1>9. RedoIsApart'
  BY <1>1, <1>3, <1>4, <1>5, <1>6, <1>8 DEF RedoIsApart
<1>10. EvidenceStays'
  <2> SUFFICES ASSUME Redoing', NEW t \in cli'.was \ cli'.redo
               PROVE  Kept(receipt', metas', outputs', reports', Evaluated', cli'.inv, t)
    BY <1>3, <1>6 DEF EvidenceStays, StillKept
  <2>1. t \in Task /\ Verified(t)
    BY <1>3 DEF Redoing
  <2>2. PICK i \in Inv, r \in Evaluated :
          inputs[i] # NoInput /\ HasEvidence(receipt, metas, outputs, reports, t, i, r)
    BY <2>1, CommandIs, VerifiedIsEvidence DEF FeatureBenchInv, BoundScores
  <2>3. i # Len(invs) + 1
    <3>1. Len(invs) \in Nat /\ i \in Nat
      BY FeatureBenchAssumption DEF FeatureBenchInv, FeatureBenchTypes, Inv
    <3>2. ~(i > Len(invs))
      BY <2>2 DEF FeatureBenchInv, InputsAreSet
    <3> QED
      BY <3>1, <3>2
  <2>4. Kept(receipt, metas, outputs, reports, Evaluated, Len(invs) + 1, t)
    BY <2>2, <2>3 DEF Kept
  <2> QED
    BY <1>1, <1>3, <1>4, <2>4
<1> QED
  BY <1>7, <1>9, <1>10 DEF EvidenceInv

\* The redo's preparations: its own tasks are unbound, and that is recorded.
LEMMA PreparingSpares ==
  ASSUME FeatureBenchInv, EvidenceInv, Unbind \/ Annotate
  PROVE  EvidenceInv'
<1>1. UNCHANGED <<metas, outputs, reports, procs>>
  BY DEF Unbind, Annotate, native
<1>2. PICK s \in {"annotate", "infer"} : GoTo(s)
  BY DEF Unbind, Annotate
<1>3. cli.at \in {"unbind", "annotate"}
  BY DEF Unbind, Annotate, At
<1>4. /\ cli.at \in Working /\ cli.at \in Preparing /\ s \in Preparing /\ s \in Opening \cup Working
      /\ s \notin Opening \cup Staging \cup Judging \cup Returning \cup {"noteEval", "finish", "inferring", "noteInfer"}
      /\ s \notin {"archive", "invalidate", "evaluate"}
  BY <1>3 DEF Working, Preparing, Opening, Staging, Judging, Returning
<1>5. SameRedo /\ cli'.root = cli.root /\ cli'.at = s /\ cli'.launched = cli.launched
  BY <1>2, <1>4, CommandIs, GoingIsSameRedo
<1>6. Made' = Made /\ Known' = Known /\ Evaluated' = Evaluated
  <2>1. CASE Unbind
    BY <2>1, SameRoots DEF Unbind, native
  <2>2. CASE Annotate
    <3>1. Recorded("cleanup", cli.redo, TRUE)
      BY <2>2 DEF Annotate
    <3>2. Known' = Known /\ Evaluated' = Evaluated
      BY <1>4, <3>1, CommandIs, RecordedRoots DEF Phases
    <3> QED
      BY <1>1, <3>2 DEF Made
  <2> QED
    BY <2>1, <2>2
<1>7. ~cli.launched
  BY <1>3 DEF FeatureBenchInv, InputsAreSet, Judging
<1>8. RootsKnown'
  BY <1>1, <1>4, <1>5, <1>6, <1>7 DEF EvidenceInv, RootsKnown, SameRedo
<1>9. RedoIsApart'
  <2> SUFFICES ASSUME Redoing' PROVE RedoIsApart'
    BY DEF RedoIsApart
  <2>1. Redoing
    BY <1>4, <1>5 DEF Redoing, SameRedo
  <2>2. /\ cli.root \notin Evaluated
        /\ \A p \in procs : p.kind = "infer" => p.tasks = cli.redo /\ p.root \notin Evaluated
    BY <1>3, <2>1 DEF EvidenceInv, RedoIsApart
  <2> QED
    BY <1>1, <1>4, <1>5, <1>6, <2>2 DEF RedoIsApart, SameRedo
<1>10. EvidenceStays'
  <2>1. /\ \A role \in {"input", "eval", "meta", "output"} : receipt[role] \subseteq receipt'[role]
        /\ \A b \in receipt["task"] : b.task \notin cli.redo => b \in receipt'["task"]
    <3>1. receipt' \in {receipt, Without(cli.redo)}
      BY DEF Unbind, Annotate
    <3> QED
      BY <3>1, CommandIs, WithoutSpares
  <2> QED
    BY <1>1, <1>4, <1>5, <1>6, <1>7, <2>1, CommandIs, StepsSpare DEF EvidenceInv
<1> QED
  BY <1>8, <1>9, <1>10 DEF EvidenceInv

\* A redo's inference starts without a directory, when all that there are have been recorded.
LEMMA InferSpares ==
  ASSUME FeatureBenchInv, EvidenceInv, Infer
  PROVE  EvidenceInv'
<1> DEFINE root == IF Fresh THEN 0 ELSE cli.first
           p == [kind |-> "infer", inv |-> cli.inv, tasks |-> Infers, root |-> root]
<1>1. cli.at = "infer" /\ UNCHANGED <<batches, receipt, metas, outputs, reports>>
  BY DEF Infer, At, native
<1>2. /\ cli.at \in Working \ {"finish"} /\ cli.at \in Preparing /\ cli.at \in Quiet
      /\ "finish" \in Working
  BY <1>1 DEF Working, Preparing, Quiet
<1>3. ~cli.launched /\ procs = {} /\ Made \subseteq Known
  BY <1>1, <1>2 DEF FeatureBenchInv, InputsAreSet, OwnProcess, NewIsOwn, Judging
<1>4. root \in Made \cup {0} /\ (cli.redo # {} => root = 0)
  BY DEF Fresh, EvidenceInv, RootsKnown
<1>5. CASE Fails("finish") /\ procs' = procs
  BY <1>1, <1>2, <1>3, <1>5, GoingOnSpares
<1>6. CASE \/ procs' = procs \cup {p} /\ cli' = [cli EXCEPT !.at = "inferring", !.root = root]
           \/ procs' = procs /\ cli' = [cli EXCEPT !.at = "noteInfer", !.root = root, !.bad = TRUE]
  <2>1. PICK s \in {"inferring", "noteInfer"} :
          /\ SameRedo /\ cli'.root = root /\ cli'.at = s /\ cli'.launched = cli.launched
          /\ s = "noteInfer" => cli'.bad
    <3> HIDE DEF root, p
    <3> QED
      BY <1>6, CommandIs DEF IsCommand, SameRedo
  <2>2. \A q \in procs' : q = p
    BY <1>3, <1>6
  <2>3. /\ s \notin Opening \cup Preparing \cup Staging \cup Judging \cup Returning \cup {"noteEval", "finish"}
        /\ s \notin {"archive", "invalidate", "evaluate"}
    BY DEF Preparing, Opening, Staging, Judging, Returning
  <2>4. Made' = Made /\ Known' = Known /\ Evaluated' = Evaluated
    BY <1>1, SameRoots
  <2>5. p.tasks = Infers /\ p.root = root
    OBVIOUS
  <2> HIDE DEF root, p
  <2>6. RootsKnown'
    BY <1>3, <1>4, <2>1, <2>3, <2>4 DEF EvidenceInv, RootsKnown, SameRedo
  <2>7. 0 \notin Evaluated
    BY DEF EvidenceInv, RootsKnown, Made, Root
  <2>8. RedoIsApart'
    <3> SUFFICES ASSUME Redoing' PROVE RedoIsApart'
      BY DEF RedoIsApart
    <3>1. cli.redo # {}
      BY <2>1 DEF Redoing, SameRedo
    <3>2. \A q \in procs' : q.tasks = cli.redo /\ q.root \notin Evaluated
      BY <1>4, <2>2, <2>5, <2>7, <3>1 DEF Infers
    <3>3. root \notin Evaluated
      BY <1>4, <2>7, <3>1
    <3> QED
      BY <1>3, <2>1, <2>3, <2>4, <3>2, <3>3 DEF RedoIsApart, SameRedo
  <2>9. EvidenceStays'
    BY <1>1, <1>2, <1>3, <2>1, <2>3, <2>4, CommandIs, StepsSpare DEF EvidenceInv
  <2> QED
    BY <2>6, <2>8, <2>9 DEF EvidenceInv
<1> QED
  BY <1>5, <1>6 DEF Infer

\* The directory that is found is a new one, and so not evaluated.
LEMMA InferringSpares ==
  ASSUME FeatureBenchInv, EvidenceInv, Inferring
  PROVE  EvidenceInv'
<1>1. cli.at = "inferring" /\ UNCHANGED <<batches, receipt, metas, outputs, reports>>
  BY DEF Inferring, At, native
<1>2. PICK settled \in BOOLEAN, failed \in BOOLEAN :
        /\ Returns(settled)
        /\ cli' = [cli EXCEPT !.at = "noteInfer", !.root = Located, !.bad = failed \/ Located = 0]
  BY DEF Inferring
<1>3. procs' \subseteq procs
  BY <1>2 DEF Returns
<1>4. SameRedo /\ cli'.root = Located /\ cli'.at = "noteInfer" /\ cli'.launched = cli.launched
      /\ (~cli'.bad => Located # 0)
  <2> DEFINE bad == failed \/ Located = 0
  <2>1. ~bad => Located # 0
    OBVIOUS
  <2>2. cli' = [cli EXCEPT !.at = "noteInfer", !.root = Located, !.bad = bad]
    BY <1>2
  <2> HIDE DEF bad
  <2> QED
    BY <2>1, <2>2, CommandIs DEF IsCommand, SameRedo
<1>5. ~cli.launched /\ cli.at \in Working
  BY <1>1 DEF FeatureBenchInv, InputsAreSet, Judging, Working
<1>6. /\ Located \in Made \cup {0}
      /\ cli.root = 0 /\ Located # 0 => Located \in Made \ Known
  <2>1. cli.root # 0 => Located = cli.root
    BY DEF Located
  <2>2. cli.root \in Root \cup {0}
    BY DEF EvidenceInv, RootsKnown, Made
  <2> QED
    BY <2>1, <2>2, LocatedIs DEF EvidenceInv, RootsKnown
<1>7. /\ "noteInfer" \notin Opening \cup Preparing \cup Staging \cup Judging \cup Returning
  BY DEF Preparing, Opening, Staging, Judging, Returning
<1>8. Made' = Made /\ Known' = Known /\ Evaluated' = Evaluated
  BY <1>1, SameRoots
<1>9. RootsKnown'
  BY <1>3, <1>4, <1>5, <1>6, <1>7, <1>8 DEF EvidenceInv, RootsKnown, SameRedo
<1>10. RedoIsApart'
  <2> SUFFICES ASSUME Redoing' PROVE RedoIsApart'
    BY DEF RedoIsApart
  <2>1. Redoing
    BY <1>4, <1>5 DEF Redoing, SameRedo
  <2>2. cli.root = 0
    BY <1>1, <2>1 DEF FeatureBenchInv, NewIsOwn, Redoing
  <2>3. Located \notin Evaluated
    BY <1>6, <2>2 DEF EvidenceInv, RootsKnown, Made, Root
  <2>4. ~cli'.bad => metas[Located] = cli.redo
    BY <1>1, <1>4, <1>6, <2>1, <2>2 DEF EvidenceInv, RedoIsApart
  <2>5. \A p \in procs' : p.kind = "infer" => p.tasks = cli.redo /\ p.root \notin Evaluated
    BY <1>3, <2>1 DEF EvidenceInv, RedoIsApart
  <2> QED
    BY <1>1, <1>4, <1>7, <1>8, <2>3, <2>4, <2>5 DEF RedoIsApart, SameRedo
<1>11. EvidenceStays'
  BY <1>1, <1>4, <1>5, <1>7, <1>8, CommandIs, StepsSpare DEF EvidenceInv
<1> QED
  BY <1>9, <1>10, <1>11 DEF EvidenceInv

\* Its record makes it known.
LEMMA NoteInferSpares ==
  ASSUME FeatureBenchInv, EvidenceInv, NoteInfer
  PROVE  EvidenceInv'
<1>1. cli.at = "noteInfer" /\ UNCHANGED <<receipt, metas, outputs, reports, procs>>
  BY DEF NoteInfer, At, native
<1>2. cli.at \in Working /\ ~cli.launched
  BY <1>1 DEF FeatureBenchInv, InputsAreSet, Judging, Working
<1> DEFINE s == IF cli.bad THEN "cleanup" ELSE "consolidate"
<1>3. s \in Working /\ s \in Opening \cup Working
  BY DEF Working, Staging
<1>4. SameRedo /\ cli'.root = cli.root /\ cli'.at = s /\ cli'.launched = cli.launched
  <2>1. GoTo(s)
    BY DEF NoteInfer
  <2> HIDE DEF s
  <2> QED
    BY <1>3, <2>1, CommandIs, GoingIsSameRedo
<1>5. Made' = Made /\ Known' = Known \cup ({cli.root} \ {0}) /\ Evaluated' = Evaluated
  <2>1. Recorded("inference", Infers, ~cli.bad)
    BY DEF NoteInfer
  <2>2. Infers \in SUBSET Task /\ (~cli.bad) \in BOOLEAN
    BY CommandIs DEF Infers
  <2>3. "inference" \in Phases
    BY DEF Phases
  <2>4. Known' = Known \cup ({cli.root} \ {0}) /\ Evaluated' = Evaluated
    BY <1>2, <2>1, <2>2, <2>3, RecordedRoots
  <2> QED
    BY <1>1, <2>4 DEF Made
<1>6. /\ s \notin Opening \cup Preparing \cup Judging \cup Returning
                   \cup {"inferring", "noteInfer", "noteEval", "finish"}
      /\ s \notin {"archive", "invalidate", "evaluate"} \cup (Staging \ {"consolidate"})
      /\ s \in Staging => ~cli.bad
  BY DEF Preparing, Opening, Staging, Judging, Returning
<1>7. s \in Staging => cli.root \in Known'
  BY <1>1, <1>5, <1>6 DEF FeatureBenchInv, NewIsOwn
<1> HIDE DEF s
<1>8. RootsKnown'
  BY <1>1, <1>2, <1>4, <1>5, <1>6, <1>7 DEF EvidenceInv, RootsKnown, SameRedo
<1>9. RedoIsApart'
  <2> SUFFICES ASSUME Redoing' PROVE RedoIsApart'
    BY DEF RedoIsApart
  <2>1. Redoing
    BY <1>2, <1>4 DEF Redoing, SameRedo
  <2>2. /\ cli.root \notin Evaluated
        /\ \A p \in procs : p.kind = "infer" => p.tasks = cli.redo /\ p.root \notin Evaluated
        /\ s \in Staging => metas[cli.root] = cli.redo
    BY <1>1, <1>6, <2>1 DEF EvidenceInv, RedoIsApart
  <2> QED
    BY <1>1, <1>4, <1>5, <1>6, <2>2 DEF RedoIsApart, SameRedo
<1>10. EvidenceStays'
  BY <1>1, <1>2, <1>4, <1>5, <1>6, CommandIs, StepsSpare DEF EvidenceInv
<1> QED
  BY <1>8, <1>9, <1>10 DEF EvidenceInv

\* The record of the evaluation makes its directory an evaluated one.
LEMMA NoteEvalSpares ==
  ASSUME FeatureBenchInv, EvidenceInv, NoteEval
  PROVE  EvidenceInv'
<1>1. cli.at = "noteEval" /\ UNCHANGED <<receipt, metas, outputs, reports, procs>>
  BY DEF NoteEval, At, native
<1>2. cli.at \in Working /\ cli.launched /\ cli.root \in Known /\ \A p \in procs : p.kind = "eval"
  BY <1>1 DEF EvidenceInv, RootsKnown, Working
<1>3. SameRedo /\ cli'.root = cli.root /\ cli'.at = "finish" /\ cli'.launched = cli.launched
  <2>1. "finish" \in Opening \cup Working
    BY DEF Working
  <2> QED
    BY <2>1, CommandIs, GoingIsSameRedo DEF NoteEval
<1>4. Made' = Made /\ Known' = Known /\ Evaluated' = Evaluated \cup {cli.root}
  <2>1. Recorded("verifier", Task, ~cli.bad)
    BY DEF NoteEval
  <2>2. "verifier" \in Phases /\ Task \in SUBSET Task /\ (~cli.bad) \in BOOLEAN
    BY DEF Phases
  <2>3. Known' = Known /\ Evaluated' = Evaluated \cup {cli.root}
    BY <1>2, <2>1, <2>2, RecordedRoots
  <2> QED
    BY <1>1, <2>3 DEF Made
<1>5. "finish" \notin Opening \cup Preparing \cup Staging \cup Judging \cup Returning
  BY DEF Preparing, Opening, Staging, Judging, Returning
<1>6. RootsKnown'
  BY <1>1, <1>2, <1>3, <1>4, <1>5 DEF EvidenceInv, RootsKnown, SameRedo
<1>7. RedoIsApart'
  <2>1. \A p \in procs' : p.kind # "infer"
    BY <1>1, <1>2
  <2> QED
    BY <1>3, <1>5, <2>1 DEF RedoIsApart
<1>8. EvidenceStays'
  BY <1>1, <1>2, <1>3, <1>4, <1>5, CommandIs, StepsSpare DEF EvidenceInv
<1> QED
  BY <1>6, <1>7, <1>8 DEF EvidenceInv

\* What an evaluation writes was not there before.
LEMMA EvalReportsSpares ==
  ASSUME FeatureBenchInv, EvidenceInv, NEW p \in procs, EvalReports(p)
  PROVE  EvidenceInv'
<1>1. UNCHANGED <<batches, receipt, metas, outputs, procs, cli>>
  BY DEF EvalReports, stored
<1>2. Made' = Made /\ Known' = Known /\ Evaluated' = Evaluated
  BY <1>1, SameRoots
<1>3. RootsKnown' /\ RedoIsApart'
  BY <1>1, <1>2 DEF EvidenceInv, RootsKnown, RedoIsApart, Redoing
<1>4. \A r, t : reports[r][t] # NoReport => reports'[r][t] = reports[r][t]
  <2>1. reports \in [Root -> [Task -> Nat \X Nat]]
    BY DEF FeatureBenchInv, FeatureBenchTypes, Scores
  <2>2. CASE reports' = reports
    BY <2>2
  <2>3. ASSUME NEW u \in Task, NEW x, reports[p.root][u] = NoReport,
               reports' = [reports EXCEPT ![p.root][u] = x]
        PROVE  \A r, t : reports[r][t] # NoReport => reports'[r][t] = reports[r][t]
    <3>1. DOMAIN reports = Root
      BY <2>1
    <3> TAKE r, t
    <3>2. CASE r # p.root
      BY <2>3, <3>2
    <3>3. CASE r = p.root /\ t # u
      BY <2>3, <3>3
    <3>4. CASE r = p.root /\ t = u
      BY <2>3, <3>4
    <3> QED
      BY <3>2, <3>3, <3>4
  <2> QED
    BY <2>2, <2>3 DEF EvalReports
<1>5. EvidenceStays'
  <2>1. CASE cli.at \in Working
    BY <1>1, <1>2, <1>4, <2>1, CommandIs, StepsSpare DEF EvidenceInv, SameRedo
  <2>2. CASE cli.at \notin Working
    BY <1>1, <2>2 DEF EvidenceStays, Redoing
  <2> QED
    BY <2>1, <2>2
<1> QED
  BY <1>3, <1>5 DEF EvidenceInv

\* Inference that writes in no evaluated directory leaves the evidence as it is.
LEMMA InferenceSpares ==
  ASSUME EvidenceInv, UNCHANGED <<batches, receipt, reports, cli>>, NEW p \in procs, p.kind = "infer",
         Redoing => \A r \in Evaluated : metas'[r] = metas[r] /\ outputs'[r] = outputs[r]
  PROVE  EvidenceStays'
<1> SUFFICES ASSUME Redoing', NEW t \in cli'.was \ cli'.redo
             PROVE  /\ Kept(receipt', metas', outputs', reports', Evaluated', cli'.inv, t)
                    /\ cli'.at \in Returning =>
                         Kept(cli'.before, metas', outputs', reports', Evaluated', cli'.inv, t)
  BY DEF EvidenceStays, StillKept
<1>1. Redoing /\ t \in cli.was \ cli.redo
  BY DEF Redoing
<1>2. ~cli.launched
  BY DEF EvidenceInv, RootsKnown
<1>3. /\ Kept(receipt, metas, outputs, reports, Evaluated, cli.inv, t)
      /\ cli.at \in Returning => Kept(cli.before, metas, outputs, reports, Evaluated, cli.inv, t)
  BY <1>1, <1>2 DEF EvidenceInv, EvidenceStays, StillKept, Renewed
<1>4. Evaluated' = Evaluated
  BY DEF Evaluated
<1>5. \A r \in Evaluated : metas'[r] = metas[r] /\ outputs'[r] = outputs[r]
  BY <1>1
<1>6. Kept(receipt, metas', outputs', reports, Evaluated, cli.inv, t)
  BY <1>3, <1>5, KeptOutlasts
<1>7. cli.at \in Returning => Kept(cli.before, metas', outputs', reports, Evaluated, cli.inv, t)
  BY <1>3, <1>5, KeptOutlasts
<1> QED
  BY <1>4, <1>6, <1>7

\* While an inference is alive nothing is evaluated.
LEMMA InferenceIs ==
  ASSUME FeatureBenchInv, NEW p \in procs, p.kind = "infer"
  PROVE  /\ cli.at \notin Preparing \cup Staging \cup Judging \cup {"archive", "invalidate", "evaluate"}
         /\ ~(cli.at = "noteInfer" /\ ~cli.bad)
BY DEF FeatureBenchInv, OwnProcess, Quiet, Staging

\* The inference of a redo makes a directory with the metadata of its tasks.
LEMMA InferStartsSpares ==
  ASSUME ~BadMetadata, FeatureBenchInv, EvidenceInv, NEW p \in procs, InferStarts(p)
  PROVE  EvidenceInv'
<1> DEFINE r == Cardinality(Made) + 1
           q == [p EXCEPT !.root = r]
<1>1. /\ p.kind = "infer" /\ p.root = 0 /\ procs' = (procs \ {p}) \cup {q}
      /\ UNCHANGED <<batches, receipt, outputs, reports, cli>>
      /\ p \in Processes /\ procs = {p} /\ r \in Root /\ r \notin Made
      /\ metas' = [metas EXCEPT ![r] = p.tasks] /\ Made' = Made \cup {r}
  BY InferStartsIs
<1>2. Known' = Known /\ Evaluated' = Evaluated
  BY <1>1 DEF Known, Inferred, Evaluated
<1>3. r \notin Evaluated /\ r \notin Known
  BY <1>1 DEF EvidenceInv, RootsKnown
<1>4. /\ cli.at \notin Preparing \cup Staging \cup Judging \cup {"archive", "invalidate", "evaluate"}
      /\ ~(cli.at = "noteInfer" /\ ~cli.bad)
  BY <1>1, InferenceIs
<1>5. procs' = {q} /\ q.kind = "infer" /\ q.root = r /\ q.tasks = p.tasks
  BY <1>1 DEF Processes
<1>6. metas \in [Root -> SUBSET (Task \cup {0})]
  BY DEF FeatureBenchInv, FeatureBenchTypes
<1> HIDE DEF q, r
<1>7. RootsKnown'
  BY <1>1, <1>2, <1>5 DEF EvidenceInv, RootsKnown
<1>8. RedoIsApart'
  <2> SUFFICES ASSUME Redoing' PROVE RedoIsApart'
    BY DEF RedoIsApart
  <2>1. Redoing
    BY <1>1 DEF Redoing
  <2>2. p.tasks = cli.redo /\ (cli.at # "finish" => cli.root \notin Evaluated)
    BY <1>1, <2>1 DEF EvidenceInv, RedoIsApart
  <2>3. cli.at = "inferring" => \A s \in Made' \ Known : metas'[s] = cli.redo
    <3>1. metas'[r] = p.tasks /\ \A s \in Root \ {r} : metas'[s] = metas[s]
      BY <1>1, <1>6
    <3>2. Made \subseteq Root
      BY DEF Made
    <3>3. cli.at = "inferring" => \A s \in Made \ Known : metas[s] = cli.redo
      BY <2>1 DEF EvidenceInv, RedoIsApart
    <3> QED
      BY <1>1, <2>2, <3>1, <3>2, <3>3
  <2>4. \A s \in procs' : s.tasks = cli.redo /\ s.root \notin Evaluated
    BY <1>3, <1>5, <2>2
  <2> QED
    BY <1>1, <1>2, <1>4, <2>2, <2>3, <2>4 DEF RedoIsApart
<1>9. EvidenceStays'
  <2>1. \A s \in Evaluated : metas'[s] = metas[s] /\ outputs'[s] = outputs[s]
    <3>1. Evaluated \subseteq Root
      BY DEF EvidenceInv, RootsKnown, Made
    <3> QED
      BY <1>1, <1>3, <1>6, <3>1
  <2> QED
    BY <1>1, <2>1, InferenceSpares
<1> QED
  BY <1>7, <1>8, <1>9 DEF EvidenceInv

\* It predicts in no other.
LEMMA InferPredictsSpares ==
  ASSUME FeatureBenchInv, EvidenceInv, NEW p \in procs, InferPredicts(p)
  PROVE  EvidenceInv'
<1>1. /\ p.kind = "infer" /\ UNCHANGED <<batches, receipt, metas, reports, procs, cli>>
  BY DEF InferPredicts, stored
<1>2. Made' = Made /\ Known' = Known /\ Evaluated' = Evaluated
  BY <1>1, SameRoots
<1>3. /\ cli.at \notin Preparing \cup Staging \cup Judging \cup {"archive", "invalidate", "evaluate"}
      /\ ~(cli.at = "noteInfer" /\ ~cli.bad)
  BY <1>1, InferenceIs
<1>4. RootsKnown'
  BY <1>1, <1>2 DEF EvidenceInv, RootsKnown
<1>5. RedoIsApart'
  <2> SUFFICES ASSUME Redoing' PROVE RedoIsApart'
    BY DEF RedoIsApart
  <2>1. Redoing
    BY <1>1 DEF Redoing
  <2>2. /\ cli.at # "finish" => cli.root \notin Evaluated
        /\ \A q \in procs : q.kind = "infer" => q.tasks = cli.redo /\ q.root \notin Evaluated
        /\ cli.at = "inferring" => \A r \in Made \ Known : metas[r] = cli.redo
    BY <2>1 DEF EvidenceInv, RedoIsApart
  <2> QED
    BY <1>1, <1>2, <1>3, <2>2 DEF RedoIsApart
<1>6. EvidenceStays'
  <2>1. Redoing => \A r \in Evaluated : metas'[r] = metas[r] /\ outputs'[r] = outputs[r]
    <3> SUFFICES ASSUME Redoing, NEW r \in Evaluated PROVE outputs'[r] = outputs[r]
      BY <1>1
    <3>1. r # p.root
      BY <1>1 DEF EvidenceInv, RedoIsApart
    <3>2. PICK t : outputs' = [outputs EXCEPT ![p.root][t] = p.inv]
      BY DEF InferPredicts
    <3>3. r \in Root
      BY DEF EvidenceInv, RootsKnown, Made
    <3>4. outputs \in [Root -> [Task -> Nat]]
      BY DEF FeatureBenchInv, FeatureBenchTypes
    <3> QED
      BY <3>1, <3>2, <3>3, <3>4
  <2> QED
    BY <1>1, <2>1, InferenceSpares
<1> QED
  BY <1>4, <1>5, <1>6 DEF EvidenceInv

\* The evidence of the evaluation replaces that of the tasks it has reports of, and no other.
LEMMA IndexSpares ==
  ASSUME FeatureBenchInv, EvidenceInv, Index
  PROVE  EvidenceInv'
<1> DEFINE adds == Evidence(cli.inv, cli.root)
<1>1. /\ cli.at \in {"index", "reindex"} /\ receipt' = With(adds)
      /\ UNCHANGED <<batches, metas, outputs, reports, procs>>
  BY DEF Index, native
<1>2. cli.at \in Judging /\ cli.at \in Working \ {"finish"} /\ cli.launched
  BY <1>1 DEF Judging, Working, EvidenceInv, RootsKnown
<1>3. PICK s \in {"cleanup", "accept", "reindex"} : GoTo(s) \/ Fails(s)
  BY DEF Index
<1>4. /\ s \in Working \ (Preparing \cup {"inferring", "noteInfer", "noteEval", "finish"}) /\ s \in Opening \cup Working
      /\ s \notin Returning \cup Staging /\ s \notin {"archive", "invalidate", "evaluate"}
  BY DEF Working, Preparing, Judging, Returning, Staging
<1>5. SameRedo /\ cli'.root = cli.root /\ cli'.at = s /\ cli'.launched = cli.launched
  BY <1>3, <1>4, CommandIs, GoingIsSameRedo
<1>6. /\ adds["input"] = {} /\ adds["eval"] = {}
      /\ adds["meta"] = IF metas[cli.root] = Infers THEN {Binding(cli.inv, cli.root, 0, metas[cli.root])} ELSE {}
      /\ adds["output"] = IF {t \in Task : outputs[cli.root][t] # 0} = Infers
                          THEN {Binding(cli.inv, cli.root, 0, outputs[cli.root])} ELSE {}
      /\ adds["task"] = {Binding(cli.inv, cli.root, t, reports[cli.root][t]) :
                           t \in {u \in Task : reports[cli.root][u] # NoReport}}
  BY DEF Evidence, Unbound
<1> HIDE DEF adds
<1>7. /\ \A role \in Roles : adds[role] \subseteq With(adds)[role]
      /\ receipt["input"] \subseteq With(adds)["input"] /\ receipt["eval"] \subseteq With(adds)["eval"]
  BY <1>6, CommandIs, WithIs DEF Roles
<1>8. RootsKnown' /\ RedoIsApart'
  <2>1. Redoing => /\ \E b \in receipt'["input"] : b.inv = cli.inv /\ b.root = cli.root
                   /\ \E b \in receipt'["eval"] : b.inv = cli.inv /\ b.root = cli.root
    BY <1>1, <1>2, <1>7 DEF EvidenceInv, RedoIsApart
  <2> QED
    BY <1>1, <1>2, <1>4, <1>5, <2>1, StepsApart DEF EvidenceInv
<1>9. EvidenceStays'
  <2> SUFFICES ASSUME Redoing', NEW t \in cli'.was \ cli'.redo
               PROVE  \/ Kept(receipt', metas', outputs', reports', Evaluated', cli'.inv, t)
                      \/ /\ cli'.launched
                         /\ HasEvidence(receipt', metas', outputs', reports', t, cli'.inv, cli'.root)
    BY <1>4, <1>5 DEF EvidenceStays, StillKept, Renewed
  <2>1. Redoing /\ t \in cli.was \ cli.redo /\ t \in Task
    BY <1>2, <1>5, CommandIs DEF Redoing, SameRedo
  <2>2. UNCHANGED <<metas, outputs, reports, Evaluated>> /\ cli'.inv = cli.inv
    BY <1>1, <1>5, SameRoots DEF SameRedo
  <2>3. CASE reports[cli.root][t] # NoReport
    <3>1. /\ metas[cli.root] = Infers /\ {u \in Task : outputs[cli.root][u] # 0} = Infers
          /\ \E b \in receipt["input"] : b.inv = cli.inv /\ b.root = cli.root
          /\ \E b \in receipt["eval"] : b.inv = cli.inv /\ b.root = cli.root
      <4>1. Infers = cli.redo
        BY <2>1 DEF Infers, Redoing
      <4> QED
        BY <1>2, <2>1, <4>1 DEF EvidenceInv, RedoIsApart
    <3>2. /\ \E b \in adds["meta"] : b.inv = cli.inv /\ b.root = cli.root /\ b.val = metas[cli.root]
          /\ \E b \in adds["output"] : b.inv = cli.inv /\ b.root = cli.root /\ b.val = outputs[cli.root]
          /\ \E b \in adds["task"] : b.inv = cli.inv /\ b.task = t /\ b.root = cli.root
                                     /\ b.val = reports[cli.root][t]
      <4> DEFINE m == Binding(cli.inv, cli.root, 0, metas[cli.root])
                 o == Binding(cli.inv, cli.root, 0, outputs[cli.root])
                 b == Binding(cli.inv, cli.root, t, reports[cli.root][t])
      <4>1. m \in adds["meta"]
        BY <1>6, <3>1
      <4>2. o \in adds["output"]
        BY <1>6, <3>1
      <4>3. b \in adds["task"]
        BY <1>6, <2>1, <2>3
      <4>4. /\ m.inv = cli.inv /\ m.root = cli.root /\ m.val = metas[cli.root]
            /\ o.inv = cli.inv /\ o.root = cli.root /\ o.val = outputs[cli.root]
            /\ b.inv = cli.inv /\ b.task = t /\ b.root = cli.root /\ b.val = reports[cli.root][t]
        BY DEF Binding
      <4> QED
        BY <4>1, <4>2, <4>3, <4>4
    <3>3. HasEvidence(With(adds), metas, outputs, reports, t, cli.inv, cli.root)
      BY <1>7, <2>3, <3>1, <3>2 DEF HasEvidence, Borne, Roles
    <3> QED
      BY <1>1, <1>2, <1>5, <2>2, <3>3
  <2>4. CASE reports[cli.root][t] = NoReport
    <3>1. Kept(receipt, metas, outputs, reports, Evaluated, cli.inv, t)
      BY <2>1, <2>4 DEF EvidenceInv, EvidenceStays, StillKept, Renewed, HasEvidence
    <3>2. cli.root \notin Evaluated
      BY <1>2, <2>1 DEF EvidenceInv, RedoIsApart
    <3>3. \A role \in {"input", "eval", "meta", "output"} : \A a \in adds[role] :
            a.inv = cli.inv /\ a.root = cli.root
      BY <1>6 DEF Binding
    <3>4. \A a \in adds["task"] : a.task # t
      BY <1>6, <2>4 DEF Binding
    <3>5. \A role \in {"input", "eval", "meta", "output"} : \A b \in receipt[role] :
            b.inv # cli.inv /\ b.root \in Evaluated => b \in With(adds)[role]
      BY <3>2, <3>3, CommandIs, WithSpares
    <3>6. \A b \in receipt["task"] : b.task = t => b \in With(adds)["task"]
      BY <3>4, CommandIs, WithSpares
    <3>7. Kept(With(adds), metas, outputs, reports, Evaluated, cli.inv, t)
      BY <3>1, <3>5, <3>6, KeptOutlasts
    <3> QED
      BY <1>1, <2>2, <3>7
  <2> QED
    BY <2>3, <2>4
<1> QED
  BY <1>8, <1>9 DEF EvidenceInv

\* Acceptance binds the accepted predictions only.
LEMMA AcceptSpares ==
  ASSUME FeatureBenchInv, EvidenceInv, Accept
  PROVE  EvidenceInv'
<1> DEFINE adds == [Unbound EXCEPT
                      !["accepted"] = {Binding(cli.inv, cli.root, 0, inputs[cli.inv].preds)}]
<1>1. cli.at = "accept" /\ receipt' = With(adds) /\ UNCHANGED <<batches, metas, outputs, reports, procs>>
  BY DEF Accept, At, native
<1>2. cli.at \in Judging /\ cli.at \in Working \ {"finish"} /\ cli.launched
  BY <1>1 DEF Judging, Working, EvidenceInv, RootsKnown
<1>3. /\ "reindex" \in Working \ (Preparing \cup {"inferring", "noteInfer", "noteEval", "finish"})
      /\ "reindex" \in Opening \cup Working
      /\ "reindex" \notin Returning \cup Staging
  BY DEF Working, Preparing, Judging, Returning, Staging
<1>4. SameRedo /\ cli'.root = cli.root /\ cli'.at = "reindex" /\ cli'.launched = cli.launched
  BY <1>3, CommandIs, GoingIsSameRedo DEF Accept
<1>5. \A role \in {"input", "eval", "meta", "output", "task"} : adds[role] = {}
  BY DEF Unbound
<1> HIDE DEF adds
<1>6. \A role \in {"input", "eval", "meta", "output", "task"} : receipt[role] \subseteq receipt'[role]
  BY <1>1, <1>5, CommandIs, WithSpares
<1>7. RootsKnown' /\ RedoIsApart'
  <2>1. Redoing => /\ \E b \in receipt'["input"] : b.inv = cli.inv /\ b.root = cli.root
                   /\ \E b \in receipt'["eval"] : b.inv = cli.inv /\ b.root = cli.root
    BY <1>2, <1>6 DEF EvidenceInv, RedoIsApart
  <2> QED
    BY <1>1, <1>2, <1>3, <1>4, <2>1, StepsApart DEF EvidenceInv
<1>8. EvidenceStays'
  BY <1>1, <1>2, <1>3, <1>4, <1>6, SameRoots, CommandIs, StepsSpare DEF EvidenceInv
<1> QED
  BY <1>7, <1>8 DEF EvidenceInv

\* Every step keeps the evidence, if fb infer writes its metadata whole.
LEMMA EvidenceInvNext ==
  ~BadMetadata /\ FeatureBenchInv /\ EvidenceInv /\ [Next]_vars => EvidenceInv'
<1> SUFFICES ASSUME ~BadMetadata, FeatureBenchInv, EvidenceInv, [Next]_vars PROVE EvidenceInv'
  OBVIOUS
<1>1. ASSUME NEW p \in procs, InferStarts(p) \/ InferPredicts(p) \/ EvalReports(p)
      PROVE  EvidenceInv'
  BY <1>1, InferStartsSpares, InferPredictsSpares, EvalReportsSpares
<1>2. CASE StartRun \/ StartResume \/ Recover \/ Close \/ Resolve \/ Finish \/ Crash
  BY <1>2, EvidenceOutOfWork
<1>3. CASE Begin \/ Unbind \/ Annotate
  BY <1>3, BeginSpares, PreparingSpares
<1>4. CASE Infer \/ Inferring \/ NoteInfer
  BY <1>4, InferSpares, InferringSpares, NoteInferSpares
<1>5. CASE Consolidate \/ Bind \/ Archive \/ Restore
  BY <1>5, ConsolidateSpares, BindSpares, ArchiveSpares
<1>6. CASE Invalidate \/ Evaluate \/ Rebind
  BY <1>6, InvalidateSpares, EvaluateSpares, RebindSpares
<1>7. CASE Evaluating \/ IndexFails \/ Cleanup \/ NoteEval
  BY <1>7, EndsSpare, NoteEvalSpares
<1>8. CASE Index \/ Accept
  BY <1>8, IndexSpares, AcceptSpares
<1>9. CASE UNCHANGED vars
  <2>1. UNCHANGED <<batches, receipt, metas, outputs, reports, procs, cli>>
    BY <1>9 DEF vars, stored, native
  <2>2. Made' = Made /\ Known' = Known /\ Evaluated' = Evaluated
    BY <2>1, SameRoots
  <2> QED
    BY <2>1, <2>2 DEF EvidenceInv, RootsKnown, RedoIsApart, EvidenceStays, StillKept, Renewed, Redoing
<1> QED
  BY <1>1, <1>2, <1>3, <1>4, <1>5, <1>6, <1>7, <1>8, <1>9 DEF Next

\* A redo that ends by itself, well or badly, leaves the tasks it did not name verified if they
\* were: receipt and reports are rewritten, archived and put back beside their evidence. It is
\* so as long as fb infer does not leave metadata that does not parse.
THEOREM UntouchedTasksStay ==
  ASSUME ~BadMetadata
  PROVE  Spec => []UntouchedStayVerified
<1>1. Init => EvidenceInv
  <2> SUFFICES ASSUME Init PROVE EvidenceInv
    OBVIOUS
  <2>1. /\ cli.at = "off" /\ cli.root = 0 /\ cli.first = 0 /\ ~cli.launched /\ batches = <<>>
    BY OffIs DEF Init
  <2>2. Known = {} /\ Evaluated = {}
    BY <2>1 DEF Known, Inferred, Evaluated
  <2>3. cli.at \notin Opening \cup Working
    BY <2>1 DEF Opening, Working, Preparing, Staging, Judging
  <2>4. cli.at \notin Preparing \cup Staging \cup Judging \cup {"noteEval", "finish"}
    BY <2>3 DEF Working
  <2> QED
    BY <2>1, <2>2, <2>3, <2>4 DEF EvidenceInv, RootsKnown, RedoIsApart, EvidenceStays, Redoing
<1>2. FeatureBenchInv /\ EvidenceInv /\ [Next]_vars => (FeatureBenchInv /\ EvidenceInv)'
  BY StepKeeps, EvidenceInvNext
<1>3. FeatureBenchInv /\ EvidenceInv => UntouchedStayVerified
  <2> SUFFICES ASSUME FeatureBenchInv, EvidenceInv, cli.at = "finish", cli.redo # {},
                      NEW t \in cli.was \ cli.redo
               PROVE  Verified(t)
    BY DEF UntouchedStayVerified, At
  <2>1. t \in Task /\ IsReceipt(receipt) /\ TrueScores(receipt)
    BY CommandIs DEF FeatureBenchInv, BoundScores
  <2>2. Redoing
    BY DEF Redoing, Working
  <2>3. PICK i, r : r \in Evaluated /\ HasEvidence(receipt, metas, outputs, reports, t, i, r)
    BY <2>2 DEF EvidenceInv, RootsKnown, EvidenceStays, StillKept, Kept, Renewed
  <2>4. i \in Inv /\ inputs[i] # NoInput
    BY <2>1, <2>3 DEF HasEvidence, TrueScores
  <2> QED
    BY <2>1, <2>3, <2>4, VerifiedIsEvidence
<1> QED
  BY <1>1, <1>2, <1>3, InitKeeps, PTL DEF Spec
=============================================================================
