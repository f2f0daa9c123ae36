----------------------------- MODULE SwebenchEval -----------------------------
(***************************************************************************)
(* Verdicts of a SWE-bench Pro run                                           *)
(* (bench/src/suites/swebench-pro/runner.ts and verifier.ts): `run --resume  *)
(* [--redo]` leaves a patch per task and arm, `eval` submits the patches of   *)
(* an arm to the official evaluator in one batch and publishes what it said,  *)
(* `report` counts what the receipt proves.  A command may die between any    *)
(* two writes.  How the sessions of one command run is SwebenchSessions.      *)
(***************************************************************************)
EXTENDS Naturals, FiniteSets

CONSTANTS
  Tasks, Arms,
  Manifests,    \* the manifests looked at: sets of executions, a task and an arm each
  MaxEvals   \* bound: commands issued

Execs == Tasks \X Arms

\* An execution is a task of the suite under an arm of the configuration.
ASSUME EvalAssumption == Manifests \subseteq SUBSET Execs

VARIABLES
  manifest,  \* the executions of this run
  commands,         \* commands so far; the number of a command is its invocation
  evaluator,       \* the command under way
  phase,     \* native status of each execution; "none" without a task directory
  patch,     \* the session whose patch is in the task directory, or 0
  drifted,   \* executions whose last session overlapped a transport drift
  verified,  \* invocation of the latest verifier attempt since the last redo, or 0
  preds,     \* predictions.json of each arm
  noted,     \* invocation.json of each arm
  result,    \* eval_results.json of each arm
  batch,     \* receipt: the batch bound for each arm (inputs, invocation, policy)
  judged    \* receipt: the invocation whose native result is bound for each execution, or 0

tasks == <<phase, patch, drifted>>
files == <<preds, noted, result>>
receipt == <<batch, judged>>
evalVars  == <<manifest, commands, evaluator, tasks, verified, files, receipt>>

Off == [at |-> "off", arm |-> "none", left |-> {}, redo |-> {}]
NoPatches == [t \in Tasks |-> 0]
NoResult == [inv |-> 0, of |-> {}]
NoBatch == [inv |-> 0, of |-> NoPatches]
ArmOf == {x[2] : x \in manifest}

EvalInit ==
  /\ manifest \in Manifests
  /\ commands = 0 /\ evaluator = Off
  /\ phase = [x \in Execs |-> "none"] /\ patch = [x \in Execs |-> 0] /\ drifted = {}
  /\ verified = [x \in Execs |-> 0]
  /\ preds = [a \in Arms |-> NoPatches] /\ noted = [a \in Arms |-> 0]
  /\ result = [a \in Arms |-> NoResult]
  /\ batch = [a \in Arms |-> NoBatch] /\ judged = [x \in Execs |-> 0]

EvalAt(stage) == evaluator.at = stage
GoTo(stage) == evaluator' = [evaluator EXCEPT !.at = stage]

-----------------------------------------------------------------------------
(* run --resume [--redo] *)

StartRun ==
  /\ EvalAt("off") /\ commands < MaxEvals
  /\ commands' = commands + 1
  /\ \E redo \in SUBSET manifest :
       evaluator' = [Off EXCEPT !.at = IF redo = {} THEN "sessions" ELSE "unbind", !.redo = redo]
  /\ UNCHANGED <<tasks, verified, files, receipt>>

\* Mutant: only the redone tasks lose their verdicts, and the batch stays.
AffectedTasks(redo) == [arms |-> {}, execs |-> redo]

\* The verdicts of every affected arm go, with the arm's batch.
Affected(redo) ==
  [arms |-> {x[2] : x \in redo}, execs |-> {y \in Execs : \E x \in redo : y[2] = x[2]}]

Unbind ==
  /\ EvalAt("unbind")
  /\ batch' = [c \in Arms |-> IF c \in Affected(evaluator.redo).arms THEN NoBatch ELSE batch[c]]
  /\ judged' = [x \in Execs |-> IF x \in Affected(evaluator.redo).execs THEN 0 ELSE judged[x]]
  /\ evaluator' = [evaluator EXCEPT !.at = "clear", !.left = evaluator.redo]
  /\ UNCHANGED <<commands, tasks, verified, files>>

\* resetArtifactDirectory leaves an empty task directory.
Clear(x) ==
  /\ EvalAt("clear") /\ x \in evaluator.left
  /\ phase' = [phase EXCEPT ![x] = "pending"] /\ patch' = [patch EXCEPT ![x] = 0]
  /\ drifted' = drifted \ {x}
  /\ evaluator' = [evaluator EXCEPT !.at = "note", !.arm = x]
  /\ UNCHANGED <<commands, verified, files, receipt>>

\* The cleanup attempt redo-invalidated hides what was recorded before it.
Note ==
  /\ EvalAt("note")
  /\ verified' = [verified EXCEPT ![evaluator.arm] = 0]
  /\ evaluator' = [evaluator EXCEPT !.left = @ \ {evaluator.arm}, !.arm = "none",
                        !.at = IF evaluator.left = {evaluator.arm} THEN "sessions" ELSE "clear"]
  /\ UNCHANGED <<commands, tasks, files, receipt>>

Terminal == {"session-done", "patched", "evaluated"}

\* A session is under way: whatever is in the directory is new.
Session(x) ==
  /\ EvalAt("sessions") /\ x \in manifest
  /\ x \in evaluator.redo \/ phase[x] \notin Terminal
  /\ phase' = [phase EXCEPT ![x] = "pending"]
  /\ patch' \in {[patch EXCEPT ![x] = 0], [patch EXCEPT ![x] = commands]}
  /\ drifted' = drifted \ {x}
  /\ evaluator' = [evaluator EXCEPT !.at = "session", !.arm = x]
  /\ UNCHANGED <<commands, verified, files, receipt>>

\* classifyPatchArtifact, or a failure that leaves the task pending.
SessionEnds ==
  /\ EvalAt("session")
  /\ LET x == evaluator.arm IN
       /\ \/ /\ phase' = [phase EXCEPT ![x] = IF patch[x] = 0 THEN "session-done" ELSE "patched"]
             /\ UNCHANGED drifted
          \/ UNCHANGED <<phase, drifted>>
          \/ drifted' = drifted \cup {x} /\ UNCHANGED phase
       /\ evaluator' = [evaluator EXCEPT !.at = "sessions", !.arm = "none", !.redo = @ \ {x}]
  /\ UNCHANGED <<commands, patch, verified, files, receipt>>

-----------------------------------------------------------------------------
(* eval --resume: the arms of the manifest, one after the other *)

StartEval ==
  /\ EvalAt("off") /\ commands < MaxEvals
  /\ commands' = commands + 1
  /\ \E a \in ArmOf : evaluator' = [Off EXCEPT !.at = "collect", !.arm = a, !.left = ArmOf \ {a}]
  /\ UNCHANGED <<tasks, verified, files, receipt>>

\* collectPredictions: every patch that can be read, whatever the status says.
Submitted(a) == {x \in manifest : x[2] = a /\ phase[x] # "none" /\ patch[x] # 0}
Judges(a) == [t \in Tasks |-> IF <<t, a>> \in Submitted(a) THEN patch[<<t, a>>] ELSE 0]

\* The output directory is reset, then the inputs are written.
Collect ==
  /\ EvalAt("collect")
  /\ result' = [result EXCEPT ![evaluator.arm] = NoResult]
  /\ GoTo("inputs")
  /\ UNCHANGED <<commands, tasks, verified, preds, noted, receipt>>

Inputs ==
  /\ EvalAt("inputs")
  /\ preds' = [preds EXCEPT ![evaluator.arm] = Judges(evaluator.arm)]
  /\ GoTo("evaluator")
  /\ UNCHANGED <<commands, tasks, verified, noted, result, receipt>>

\* The evaluator, which may fail or answer for some tasks only; nothing is launched for no patch.
Evaluator ==
  /\ EvalAt("evaluator")
  /\ \E answered \in SUBSET Submitted(evaluator.arm) :
       result' = [result EXCEPT ![evaluator.arm] =
         IF answered = {} THEN NoResult ELSE [inv |-> commands, of |-> answered]]
  /\ GoTo("invocation")
  /\ UNCHANGED <<commands, tasks, verified, preds, noted, receipt>>

\* invocation.json; a cleanup that failed is thrown now.
Invocation ==
  /\ EvalAt("invocation")
  /\ noted' = [noted EXCEPT ![evaluator.arm] = commands]
  /\ evaluator' \in {[evaluator EXCEPT !.at = "statuses", !.redo = Submitted(evaluator.arm)], Off}
  /\ UNCHANGED <<commands, tasks, verified, preds, result, receipt>>

\* Mutant: the native status keeps its phase.
EvaluatedKeeps(x) == phase[x]

Evaluated(x) == "evaluated"

\* recordEvaluatorArmAttributions: the statuses one by one, the attempts as one revision.
StatusOf(x) ==
  /\ EvalAt("statuses") /\ x \in evaluator.redo
  /\ phase' = [phase EXCEPT ![x] = Evaluated(x)]
  /\ evaluator' = [evaluator EXCEPT !.redo = @ \ {x}]
  /\ UNCHANGED <<commands, patch, drifted, verified, files, receipt>>

\* Mutant: the receipt is published first.
NextStageReceiptFirst(stage) ==
  CASE stage = "statuses" -> "publish" [] stage = "publish" -> "attempts" [] OTHER -> "next"

NextStage(stage) ==
  CASE stage = "statuses" -> "attempts" [] stage = "attempts" -> "publish" [] OTHER -> "next"

StatusesDone ==
  /\ EvalAt("statuses") /\ evaluator.redo = {}
  /\ GoTo(NextStage("statuses"))
  /\ UNCHANGED <<commands, tasks, verified, files, receipt>>

Attempts ==
  /\ EvalAt("attempts")
  /\ verified' = [x \in Execs |-> IF x \in Submitted(evaluator.arm) THEN commands ELSE verified[x]]
  /\ GoTo(NextStage("attempts"))
  /\ UNCHANGED <<commands, tasks, files, receipt>>

\* Mutant: a verdict of an earlier batch stays when the new one has none for the task.
BoundStays(x, a) == IF x \in result[a].of THEN commands ELSE judged[x]

\* Mutant: the new bindings replace the receipt as a whole.
BoundAlone(x, a) == IF x \in result[a].of THEN commands ELSE 0

Bound(x, a) == IF x \in result[a].of THEN commands ELSE IF x[2] = a THEN 0 ELSE judged[x]

\* evaluatorReceiptBindings, and what they replace.
Publish ==
  /\ EvalAt("publish")
  /\ LET a == evaluator.arm IN
       /\ batch' = [batch EXCEPT ![a] = [inv |-> commands, of |-> preds[a]]]
       /\ judged' = [x \in Execs |-> Bound(x, a)]
  /\ GoTo(NextStage("publish"))
  /\ UNCHANGED <<commands, tasks, verified, files>>

NextArm ==
  /\ EvalAt("next")
  /\ IF evaluator.left = {} THEN evaluator' = Off
     ELSE \E a \in evaluator.left : evaluator' = [evaluator EXCEPT !.at = "collect", !.arm = a, !.left = @ \ {a}]
  /\ UNCHANGED <<commands, tasks, verified, files, receipt>>

\* The command dies, fails, or has nothing more to do.
Stop ==
  /\ ~EvalAt("off")
  /\ evaluator' = Off
  /\ UNCHANGED <<commands, tasks, verified, files, receipt>>

-----------------------------------------------------------------------------
(* report *)

\* loadStoredReportEvidence: every bound artifact must still have its bytes.
Reportable ==
  /\ \A a \in Arms : batch[a].inv # 0 => preds[a] = batch[a].of /\ noted[a] = batch[a].inv
  /\ \A x \in Execs : judged[x] # 0 => result[x[2]].inv = judged[x]

\* taskReportInputs: the verdict of the latest verifier attempt's invocation.  A verified
\* result is included-native whatever else failed (nativeResult, taskDisposition).
Included(x) == Reportable /\ verified[x] # 0 /\ judged[x] = verified[x]

EvalNext ==
  UNCHANGED manifest /\
  (\/ StartRun \/ Unbind \/ Note \/ SessionEnds
  \/ StartEval \/ Collect \/ Inputs \/ Evaluator \/ Invocation
  \/ \E x \in manifest : Clear(x) \/ Session(x) \/ StatusOf(x)
  \/ StatusesDone \/ Attempts \/ Publish \/ NextArm \/ Stop)

EvalSpec == EvalInit /\ [][EvalNext]_evalVars
-----------------------------------------------------------------------------
(* A verdict counts only for the patch that is in the task directory now and *)
(* that was submitted in the batch the verdict came from: not for one that    *)
(* redo or a resumed session replaced (taskReportInputs, nativeResult).       *)
CountedPatchWasJudged ==
  \A x \in Execs : Included(x) =>
    batch[x[2]].inv = verified[x] /\ batch[x[2]].of[x[1]] = patch[x]

(* The receipt never exposes a verdict whose verifier attempt the run state   *)
(* does not have (publishEvaluatorModeResult), and redo takes the verdict away *)
(* before the attempt (invalidateRedo).                                      *)
AttemptSurvivesFirst ==
  \A x \in Execs : verified[x] >= judged[x]

(* Redo and evaluation of one arm never take away or change what is proved    *)
(* for the other (retainVerifierBindingsAfterRedo, publishEvaluatorModeResult).*)
OtherArmUntouched ==
  [][\A x \in Execs : judged'[x] # judged[x] \/ batch'[x[2]] # batch[x[2]] =>
       \/ EvalAt("unbind") /\ \E y \in evaluator.redo : y[2] = x[2]
       \/ EvalAt("publish") /\ evaluator.arm = x[2]]_evalVars

(* docs/swebench-pro.md: results of sessions that overlapped a drift are      *)
(* recorded as invalid instead of accepting their patches.                   *)
DriftNeverCounts == \A x \in drifted : ~Included(x)
=============================================================================
