---------------------------- MODULE FeatureBenchRun ----------------------------
(***************************************************************************)
(* A FeatureBench run (bench/src/suites/featurebench/runner.ts): bench       *)
(* commands (run, run --resume [--redo], report) over one run directory.     *)
(* A command infers the predictions of its tasks with one native process,    *)
(* consolidates them with those accepted before, and has another native      *)
(* process evaluate the whole set; the verifier receipt binds the evidence.  *)
(*                                                                          *)
(* The receipt and the run state are two files written one after the other,  *)
(* and the native processes write a third place, so a command that dies or   *)
(* fails leaves them in disagreement.  What counts is what a report then     *)
(* says of a task: Verdict below is that computation.                        *)
(***************************************************************************)
EXTENDS Naturals, SequencesExt

CONSTANTS
  Task,          \* the tasks of the manifest
  MaxCommands,   \* bound: commands issued
  BadMetadata    \* fb infer may write a run_metadata.json that does not parse

ASSUME FeatureBenchAssumption ==
  Task # {} /\ 0 \notin Task /\ MaxCommands \in Nat /\ BadMetadata \in BOOLEAN

Inv  == 1..MaxCommands
Root == 1..MaxCommands     \* the timestamp directories of native/, in order of creation

VARIABLES
  created,   \* the run directory is complete
  invs,      \* the invocations of the run state
  batches,   \* its attempts, one entry per recorded batch
  receipt,   \* the bindings of the verifier receipt, by role
  metas,     \* run_metadata.json of each root: the tasks it names
  outputs,   \* output.jsonl of each root: the invocation that predicted each task
  inputs,    \* the consolidated predictions of each invocation
  reports,   \* the task reports of each root
  totals,    \* report.json of each root: the task reports it sums up
  archive,   \* prior-eval of each invocation: task reports, and the sum
  procs,     \* the native processes alive
  cli        \* the command under way

stored  == <<created, invs, batches, receipt>>
native  == <<metas, outputs, inputs, reports, totals, archive>>
vars == <<stored, native, procs, cli>>

NoReport  == <<0, 0>>                      \* evaluating invocation and prediction
NoReports == [t \in Task |-> NoReport]
NoArchive == [tasks |-> NoReports, total |-> NoReports]
NoInput   == [root |-> 0, preds |-> [t \in Task |-> 0]]
Malformed == {0}
Unbound   == [role \in {"input", "eval", "accepted", "meta", "output", "task", "total"} |-> {}]

Off == [at |-> "off", n |-> 0, kind |-> "none", redo |-> {}, inv |-> 0, root |-> 0, first |-> 0,
        bad |-> FALSE, launched |-> FALSE, before |-> Unbound, was |-> {}]

Init ==
  /\ created = FALSE /\ invs = <<>> /\ batches = <<>> /\ receipt = Unbound
  /\ metas = [r \in Root |-> {}]
  /\ outputs = [r \in Root |-> NoInput.preds]
  /\ inputs = [i \in Inv |-> NoInput]
  /\ reports = [r \in Root |-> NoReports] /\ totals = reports
  /\ archive = [i \in Inv |-> NoArchive]
  /\ procs = {} /\ cli = Off

At(step) == cli.at = step
GoTo(step) == cli' = [cli EXCEPT !.at = step]
Fails(step) == cli' = [cli EXCEPT !.at = step, !.bad = TRUE]
Over == cli' = [Off EXCEPT !.n = cli.n]

Made == {r \in Root : metas[r] # {}}
Infers == IF cli.redo = {} THEN Task ELSE cli.redo

-----------------------------------------------------------------------------
(* The receipt *)

\* The bytes a binding of a role was made of, as they are now.
Bytes(role, b) ==
  CASE role = "meta"   -> metas[b.root]
    [] role = "output" -> outputs[b.root]
    [] role = "task"   -> reports[b.root][b.task]
    [] role = "total"  -> totals[b.root]
    [] OTHER           -> b.val              \* files of one invocation, never rewritten

\* Mutant: new evidence of a task leaves the old evidence bound.
ReplacedNever(role, b, adds) == FALSE
\* What the bindings `adds` drive out: their own identity, other bytes at their path, any
\* evidence of a task with a new report, any aggregate before a new one.
Replaced(role, b, adds) ==
  \/ \E a \in adds[role] : a.inv = b.inv /\ a.task = b.task
  \/ \E a \in adds[role] : a.root = b.root /\ a.task = b.task /\ a.val # b.val
                             /\ role \in {"meta", "output", "task", "total"}
  \/ role = "task" /\ \E a \in adds["task"] : a.task = b.task
  \/ role = "total" /\ adds["total"] # {}

\* updateReceipt
With(adds) ==
  [role \in DOMAIN receipt |->
     {b \in receipt[role] : ~Replaced(role, b, adds)} \cup adds[role]]

\* Mutant: a redo takes the aggregate away only.
WithoutTotal(tasks) == [receipt EXCEPT !["total"] = {}]

\* Mutant: a redo of some tasks takes the evidence of all of them away.
WithoutAny(tasks) == [receipt EXCEPT !["task"] = {}, !["total"] = {}]

\* invalidateFeatureBenchEvaluationReceipt, and the receipt part of a redo.
Without(tasks) ==
  [receipt EXCEPT !["task"] = {b \in @ : b.task \notin tasks}, !["total"] = {}]

Binding(i, r, t, val) == [inv |-> i, root |-> r, task |-> t, val |-> val]

\* indexFeatureBenchEvidence: whatever of the root is well-formed, piece by piece.
SumsUp(r) == totals[r] # NoReports /\ totals[r] = reports[r]

Evidence(i, r) ==
  [Unbound EXCEPT
     !["meta"]   = IF metas[r] = Infers THEN {Binding(i, r, 0, metas[r])} ELSE {},
     !["output"] = IF {t \in Task : outputs[r][t] # 0} = Infers
                   THEN {Binding(i, r, 0, outputs[r])} ELSE {},
     !["task"]   = {Binding(i, r, t, reports[r][t]) : t \in {u \in Task : reports[r][u] # NoReport}},
     !["total"]  = IF SumsUp(r) THEN {Binding(i, r, 0, totals[r])} ELSE {}]

-----------------------------------------------------------------------------
(* What a report says: createFeatureBenchEvidenceResolver *)

Current == [role \in DOMAIN receipt |-> {b \in receipt[role] : Bytes(role, b) = b.val}]

\* completeTaskReceiptRoot
Complete(i, t, r) ==
  /\ \E b \in Current["task"]   : b.inv = i /\ b.task = t /\ b.root = r
  /\ \A role \in {"input", "eval", "meta", "output"} :
       \E b \in Current[role] : b.inv = i /\ b.root = r

\* The roots of the verifier attempts.
Evaluated == {batches[k].root : k \in {j \in DOMAIN batches : batches[j].phase = "verifier"}}

\* The task reports a report may accept, by the root they are in.
Backed(t) ==
  {b \in receipt["task"] : /\ b.task = t /\ b.root \in Evaluated
                           /\ reports[b.root][t] = b.val /\ Complete(b.inv, t, b.root)}

\* A task has one bound report at most, so the order of the roots is immaterial.
Verified(t) == Backed(t) # {}
Verdict(t) == CHOOSE b \in Backed(t) : TRUE

Headline ==
  {b \in receipt["total"] :
     /\ b.root \in Evaluated /\ SumsUp(b.root) /\ totals[b.root] = b.val
     /\ \A t \in Task : Complete(b.inv, t, b.root)
                        /\ \E c \in Backed(t) : c.inv = b.inv /\ c.root = b.root}

-----------------------------------------------------------------------------
(* The native processes, fb infer and fb eval, which outlive a command that dies *)

Worker(p) == p \in procs
Becomes(p, q) == procs' = (procs \ {p}) \cup {q}

\* A fresh inference makes its timestamp directory, a resumed one works in the old one.
InferStarts(p) ==
  LET r == Cardinality(Made) + 1 IN
  /\ p.kind = "infer" /\ p.root = 0
  /\ \E meta \in {p.tasks} \cup (IF BadMetadata THEN {Malformed} ELSE {}) :
       metas' = [metas EXCEPT ![r] = meta]
  /\ Becomes(p, [p EXCEPT !.root = r])
  /\ UNCHANGED <<stored, outputs, inputs, reports, totals, archive, cli>>

InferPredicts(p) ==
  /\ p.kind = "infer" /\ p.root # 0
  /\ \E t \in p.tasks :
       outputs[p.root][t] = 0 /\ outputs' = [outputs EXCEPT ![p.root][t] = p.inv]
  /\ UNCHANGED <<stored, metas, inputs, reports, totals, archive, procs, cli>>

\* A report that is there already is left, and summed up with the others.
EvalReports(p) ==
  /\ p.kind = "eval"
  /\ \/ \E t \in Task :
          /\ reports[p.root][t] = NoReport
          /\ reports' = [reports EXCEPT ![p.root][t] = <<p.inv, inputs[p.inv].preds[t]>>]
          /\ UNCHANGED totals
     \/ /\ \A t \in Task : reports[p.root][t] # NoReport
        /\ totals[p.root] # reports[p.root]
        /\ totals' = [totals EXCEPT ![p.root] = reports[p.root]] /\ UNCHANGED reports
  /\ UNCHANGED <<stored, metas, outputs, inputs, archive, procs, cli>>

Launch(kind) ==
  /\ procs' = procs \cup {[kind |-> kind, inv |-> cli.inv, tasks |-> Infers, root |-> cli.root]}
  /\ invs' = [invs EXCEPT ![cli.inv].settled = FALSE]

\* runBenchProcess is back: the process is gone with its descendants, or is not.
Returns(settled) ==
  /\ procs' = IF settled THEN {p \in procs : p.inv # cli.inv} ELSE procs
  /\ invs' = [invs EXCEPT ![cli.inv].settled = settled]

-----------------------------------------------------------------------------
(* The commands up to their invocation *)

\* A fresh run; a failure before its directory is complete leaves none.
StartRun ==
  /\ At("off") /\ cli.n < MaxCommands /\ ~created
  /\ \/ created' = TRUE /\ cli' = [Off EXCEPT !.n = cli.n + 1, !.kind = "run", !.at = "begin"]
     \/ cli' = [Off EXCEPT !.n = cli.n + 1] /\ UNCHANGED created
  /\ UNCHANGED <<invs, batches, receipt, native, procs>>

StartResume ==
  /\ At("off") /\ cli.n < MaxCommands /\ created
  /\ \E kind \in {"resume", "report"} : \E redo \in SUBSET Task :
       /\ kind = "report" => redo = {}
       /\ cli' = [Off EXCEPT !.n = cli.n + 1, !.kind = kind, !.redo = redo, !.at = "recover"]
  /\ UNCHANGED <<stored, native, procs>>

Open == {i \in DOMAIN invs : invs[i].open}

\* Mutant: what an interrupted command left running is not killed.
KilledNone == procs
Killed == {}

\* loadRunStores: the processes, then, unless containers or homes stay, the invocations.
Recover ==
  /\ At("recover")
  /\ \/ /\ procs' = Killed
        /\ invs' = [i \in DOMAIN invs |-> [invs[i] EXCEPT !.settled = TRUE]]
        /\ GoTo(IF Open # {} THEN "close" ELSE "resolve")
     \/ Over /\ UNCHANGED <<procs, invs>>
  /\ UNCHANGED <<created, batches, receipt, native>>

Close ==
  /\ At("close")
  /\ \/ invs' = [i \in DOMAIN invs |-> [invs[i] EXCEPT !.open = FALSE]] /\ GoTo("resolve")
     \/ Over /\ UNCHANGED invs
  /\ UNCHANGED <<created, batches, receipt, native, procs>>

\* resolveFeatureBenchResumeRoot: the roots of the recorded inferences, the first first.
Inferred == {k \in DOMAIN batches : batches[k].phase = "inference" /\ batches[k].root # 0}
Known == {batches[k].root : k \in Inferred}
First == IF Inferred = {} THEN 0 ELSE batches[Min(Inferred)].root

Resolve ==
  /\ At("resolve")
  /\ \/ Over                 \* another configuration, a drifted provenance
     \/ /\ cli.kind # "report" => (Made \subseteq Known /\ (cli.redo # {} => First # 0))
        /\ cli' = [cli EXCEPT !.at = "begin", !.first = First]
  /\ UNCHANGED <<stored, native, procs>>

Begin ==
  /\ At("begin")
  /\ invs' = Append(invs, [open |-> TRUE, settled |-> TRUE])
  /\ cli' = [cli EXCEPT
       !.inv = Len(invs) + 1, !.was = IF cli.redo = {} THEN {} ELSE {t \in Task : Verified(t)},
       !.at = CASE cli.kind = "report" -> "finish" [] cli.redo # {} -> "unbind" [] OTHER -> "infer"]
  /\ UNCHANGED <<created, batches, receipt, native, procs>>

\* invalidateFeatureBenchRedo: the receipt, then the attempt that marks it.
Unbind ==
  /\ At("unbind") /\ receipt' = Without(cli.redo) /\ GoTo("annotate")
  /\ UNCHANGED <<created, invs, batches, native, procs>>

Batch(phase, tasks, ok) ==
  [inv |-> cli.inv, phase |-> phase, tasks |-> tasks, root |-> cli.root, ok |-> ok]
Recorded(phase, tasks, ok) == batches' = Append(batches, Batch(phase, tasks, ok))

Annotate ==
  /\ At("annotate") /\ Recorded("cleanup", cli.redo, TRUE) /\ GoTo("infer")
  /\ UNCHANGED <<created, invs, receipt, native, procs>>

-----------------------------------------------------------------------------
(* executeNativeRun: inference *)

Fresh == cli.redo # {} \/ cli.first = 0

\* What earlier executions left in containers and homes is removed, or nothing is recorded;
\* then attestation, provenance, the metadata of a resumed root or the spawn may fail.
Infer ==
  /\ At("infer")
  /\ LET root == IF Fresh THEN 0 ELSE cli.first IN
     \/ /\ ~Fresh => metas[root] = Task
        /\ procs' = procs \cup {[kind |-> "infer", inv |-> cli.inv, tasks |-> Infers, root |-> root]}
        /\ invs' = [invs EXCEPT ![cli.inv].settled = FALSE]
        /\ cli' = [cli EXCEPT !.at = "inferring", !.root = root]
     \/ cli' = [cli EXCEPT !.at = "noteInfer", !.root = root, !.bad = TRUE] /\ UNCHANGED <<procs, invs>>
     \/ Fails("finish") /\ UNCHANGED <<procs, invs>>
  /\ UNCHANGED <<created, batches, receipt, native>>

\* locateTimestamp: the one directory that is new.
Located == IF cli.root # 0 THEN cli.root
           ELSE IF Made \subseteq Known THEN 0 ELSE CHOOSE r \in Made : r \notin Known

Inferring ==
  /\ At("inferring")
  /\ \E settled, failed \in BOOLEAN :
       /\ ~settled => failed
       /\ Returns(settled)
       /\ cli' = [cli EXCEPT !.at = "noteInfer", !.root = Located, !.bad = failed \/ Located = 0]
  /\ UNCHANGED <<created, batches, receipt, native>>

NoteInfer ==
  /\ At("noteInfer")
  /\ Recorded("inference", Infers, ~cli.bad)
  /\ GoTo(IF cli.bad THEN "cleanup" ELSE "consolidate")
  /\ UNCHANGED <<created, invs, receipt, native, procs>>

-----------------------------------------------------------------------------
(* Evaluation *)

\* successfulFeatureBenchVerifierRoot with a marker, an input and an invocation record.
Accepted(i) ==
  \E k \in DOMAIN batches :
    /\ batches[k].inv = i /\ batches[k].phase = "verifier" /\ batches[k].ok
    /\ \A role \in {"accepted", "input", "eval"} :
         \E b \in receipt[role] : b.inv = i /\ b.root = batches[k].root

\* Mutant: the first accepted predictions are taken, not the last.
LatestFirst == LET all == {i \in DOMAIN invs : Accepted(i)} IN IF all = {} THEN 0 ELSE Min(all)
Latest == LET all == {i \in DOMAIN invs : Accepted(i)} IN IF all = {} THEN 0 ELSE Max(all)

\* The tasks whose prediction must be the one of this inference.
Required == IF cli.redo # {} THEN cli.redo ELSE IF Latest = 0 THEN Task ELSE {}

\* consolidateFeatureBenchPredictions
Consolidate ==
  LET now == outputs[cli.root]
      old == IF Latest = 0 THEN NoInput.preds ELSE inputs[Latest].preds
      new == [t \in Task |-> IF t \in Required THEN now[t] ELSE old[t]]
  IN /\ At("consolidate")
     /\ \/ /\ Required # {} => {t \in Task : now[t] # 0} = Required
           /\ \A t \in Task : new[t] # 0
           /\ inputs' = [inputs EXCEPT ![cli.inv] = [root |-> cli.root, preds |-> new]]
           /\ \/ GoTo("bind")
              \/ Fails("cleanup")
        \/ Fails("cleanup") /\ UNCHANGED inputs
     /\ UNCHANGED <<stored, metas, outputs, reports, totals, archive, procs>>

\* The input and the record of the evaluation are bound; the receipt before is kept at hand.
Bind ==
  /\ At("bind")
  /\ \/ /\ receipt' = With([Unbound EXCEPT
             !["input"] = {Binding(cli.inv, cli.root, 0, inputs[cli.inv].preds)},
             !["eval"]  = {Binding(cli.inv, cli.root, 0, Infers)}])
        /\ cli' = [cli EXCEPT !.before = receipt, !.at = "archive"]
     \/ cli' = [cli EXCEPT !.before = receipt, !.at = "restore"] /\ UNCHANGED receipt
  /\ UNCHANGED <<created, invs, batches, native, procs>>

\* The task reports and the sum that lie where the evaluation will write (task 0: the sum).
\* Mutant: the evaluation of a resume starts on top of the reports of the last one.
CanMoveNone == {}
CanMove == {t \in Task : reports[cli.root][t] # NoReport}
           \cup (IF totals[cli.root] # NoReports THEN {0} ELSE {})

Moved(paths) ==
  LET r == cli.root IN
  /\ archive' = [archive EXCEPT ![cli.inv] =
       [tasks |-> [t \in Task |-> IF t \in paths THEN reports[r][t] ELSE NoReport],
        total |-> IF 0 \in paths THEN totals[r] ELSE NoReports]]
  /\ reports' = [reports EXCEPT ![r] = [t \in Task |-> IF t \in paths THEN NoReport ELSE @[t]]]
  /\ totals' = IF 0 \in paths THEN [totals EXCEPT ![r] = NoReports] ELSE totals

\* archiveFeatureBenchEvaluationMoves undoes itself when a rename fails, not when it dies.
Archive ==
  /\ At("archive")
  /\ \/ Moved(CanMove) /\ GoTo("invalidate")
     \/ GoTo("restore") /\ UNCHANGED <<archive, reports, totals>>
     \/ \E some \in SUBSET CanMove : Moved(some) /\ Over
  /\ UNCHANGED <<stored, metas, outputs, inputs, procs>>

Invalidate ==
  /\ At("invalidate")
  /\ \/ receipt' = Without(Infers) /\ GoTo("evaluate")
     \/ GoTo("restore") /\ UNCHANGED receipt
  /\ UNCHANGED <<created, invs, batches, native, procs>>

Evaluate ==
  /\ At("evaluate")
  /\ \/ Launch("eval") /\ cli' = [cli EXCEPT !.at = "evaluating", !.launched = TRUE, !.before = Unbound]
     \/ GoTo("restore") /\ UNCHANGED <<procs, invs>>
  /\ UNCHANGED <<created, batches, receipt, native>>

Evaluating ==
  /\ At("evaluating")
  /\ \E settled, failed \in BOOLEAN :
       /\ ~settled => failed
       /\ Returns(settled)
       /\ IF failed THEN Fails("reindex") ELSE GoTo("index")
  /\ UNCHANGED <<created, batches, receipt, native>>

\* The evidence is bound, and bound again on the way out whatever happened.
Index ==
  /\ cli.at \in {"index", "reindex"}
  /\ receipt' = With(Evidence(cli.inv, cli.root))
  /\ IF At("reindex") THEN GoTo("cleanup")
     ELSE IF SumsUp(cli.root) THEN GoTo("accept") ELSE Fails("reindex")
  /\ UNCHANGED <<created, invs, batches, native, procs>>

IndexFails ==
  /\ cli.at \in {"index", "reindex", "accept"}
  /\ Fails(IF At("reindex") THEN "cleanup" ELSE "reindex")
  /\ UNCHANGED <<stored, native, procs>>

\* acceptedPredictionsBinding
Accept ==
  /\ At("accept")
  /\ receipt' = With([Unbound EXCEPT
       !["accepted"] = {Binding(cli.inv, cli.root, 0, inputs[cli.inv].preds)}])
  /\ GoTo("reindex")
  /\ UNCHANGED <<created, invs, batches, native, procs>>

\* Nothing was launched: the reports go back to their place, then the receipt does.
Restore ==
  /\ At("restore")
  /\ \/ LET old == archive[cli.inv] IN
        /\ reports' = [reports EXCEPT ![cli.root] =
             [t \in Task |-> IF old.tasks[t] # NoReport THEN old.tasks[t] ELSE @[t]]]
        /\ totals' = IF old.total = NoReports THEN totals
                     ELSE [totals EXCEPT ![cli.root] = old.total]
        /\ archive' = [archive EXCEPT ![cli.inv] = NoArchive]
        /\ GoTo("rebind")
     \/ Fails("cleanup") /\ UNCHANGED <<reports, totals, archive>>
  /\ UNCHANGED <<stored, metas, outputs, inputs, procs>>

Rebind ==
  /\ At("rebind")
  /\ receipt' \in {cli.before, receipt}
  /\ Fails("cleanup")
  /\ UNCHANGED <<created, invs, batches, native, procs>>

\* The containers are removed; failing that, the evaluation counts for nothing.
Cleanup ==
  /\ At("cleanup")
  /\ \E failed \in BOOLEAN :
       cli' = [cli EXCEPT !.bad = @ \/ failed, !.at = IF cli.launched THEN "noteEval" ELSE "finish"]
  /\ UNCHANGED <<stored, native, procs>>

NoteEval ==
  /\ At("noteEval")
  /\ Recorded("verifier", Task, ~cli.bad) /\ GoTo("finish")
  /\ UNCHANGED <<created, invs, receipt, native, procs>>

\* finishInvocation: the schema refuses to end one whose processes are not settled.
Finish ==
  /\ At("finish")
  /\ invs' = IF invs[cli.inv].settled THEN [invs EXCEPT ![cli.inv].open = FALSE] ELSE invs
  /\ Over
  /\ UNCHANGED <<created, batches, receipt, native, procs>>

\* The command is killed; what it started goes on.
Crash ==
  /\ ~At("off") /\ Over
  /\ UNCHANGED <<stored, native, procs>>

-----------------------------------------------------------------------------
Next ==
  \/ \E p \in procs : InferStarts(p) \/ InferPredicts(p) \/ EvalReports(p)
  \/ StartRun \/ StartResume \/ Recover \/ Close \/ Resolve \/ Begin
  \/ Unbind \/ Annotate \/ Infer \/ Inferring \/ NoteInfer
  \/ Consolidate \/ Bind \/ Archive \/ Invalidate \/ Evaluate \/ Evaluating
  \/ Index \/ IndexFails \/ Accept \/ Restore \/ Rebind
  \/ Cleanup \/ NoteEval \/ Finish \/ Crash

Spec == Init /\ [][Next]_vars

-----------------------------------------------------------------------------
(* Properties *)

\* No two native processes work on one run, so none writes over what another is at.
OneNativeProcess == Cardinality(procs) <= 1

\* A score that a report shows was computed, by the evaluation it is attributed to, on the
\* very prediction that this evaluation has bound as its input.
ScoreOfBoundPrediction ==
  \A t \in Task : \A b \in Backed(t) : b.val = <<b.inv, inputs[b.inv].preds[t]>>

\* Once redo has marked a task, a report shows no score of it from before.
LastRedo(t) ==
  LET all == {batches[k].inv : k \in {j \in DOMAIN batches : batches[j].phase = "cleanup" /\ t \in batches[j].tasks}}
  IN IF all = {} THEN 0 ELSE Max(all)
RedoneStaysInvalid == \A t \in Task : \A b \in Backed(t) : b.inv >= LastRedo(t)

\* A redo that ends by itself, well or badly, leaves the other tasks verified.
UntouchedStayVerified ==
  At("finish") /\ cli.redo # {} => \A t \in cli.was \ cli.redo : Verified(t)

\* A later accepted evaluation never falls back behind the predictions of an earlier one.
AcceptedNeverRegress ==
  \A i, j \in DOMAIN invs :
    i < j /\ Accepted(i) /\ Accepted(j) => \A t \in Task : inputs[i].preds[t] <= inputs[j].preds[t]

\* The aggregate in a report is the sum of the very task scores beside it.
HeadlineMatchesTasks ==
  \A h \in Headline : \A t \in Task : Backed(t) # {} /\ Verdict(t).val = h.val[t]
=============================================================================
