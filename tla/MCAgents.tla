------------------------------ MODULE MCAgents ------------------------------
(* What becomes of one agent() call, in four independent plays: it is found *)
(* in the journal of the run that is resumed ("replay": a run and two       *)
(* resumptions of edited scripts; "layers": a script of two parallel()      *)
(* fan-outs, resumed unchanged), it goes through its attempts ("attempts"), *)
(* and the processes of one attempt are cleaned up ("workers").  Variables  *)
(* of a play that is not on keep one initial value.                         *)
EXTENDS AttemptLoop, ReplayScript, WorkerCleanup, TLC

CONSTANTS p1, p2, p3, p4, EditPrompts, EditSeeds

VARIABLE play

Step(p, needs) == [prompt |-> p, needs |-> needs]

(* parallel([p1, p2]) and then parallel([p3, p4]).                          *)
TwoFanOuts ==
  <<Step(p1, {}), Step(p2, {}), Step(p3, {p1, p2}), Step(p4, {p1, p2})>>

ASSUME TwoFanOutsAreFanOuts == FanOuts

(* Runs of any calls: the script may be edited from run to run.             *)
Edited == INSTANCE Replay WITH
  Prompts <- EditPrompts, Seeds <- EditSeeds, MaxCalls <- 3, MaxRuns <- 3

(* Timed calls without a schema: of a backend that resumes and reports      *)
(* thread totals, of one that reports each attempt, of one that cannot      *)
(* resume; a call that is repaired within its thread, and one that is       *)
(* repaired against a timeout.                                              *)
MCCalls ==
  {[schema |-> FALSE, timed |-> TRUE, resumes |-> TRUE, cumulative |-> TRUE],
   [schema |-> FALSE, timed |-> TRUE, resumes |-> TRUE, cumulative |-> FALSE],
   [schema |-> FALSE, timed |-> TRUE, resumes |-> FALSE, cumulative |-> FALSE],
   [schema |-> TRUE, timed |-> FALSE, resumes |-> TRUE, cumulative |-> TRUE],
   [schema |-> TRUE, timed |-> TRUE, resumes |-> FALSE, cumulative |-> FALSE]}

Plain == ~aborted /\ ~call.schema /\ ~call.resumes /\ ~call.cumulative

layerVars == <<ready, resolved, whole>>

MCInit ==
  /\ play \in {"replay", "layers", "attempts", "workers"}
  /\ Init /\ call \in MCCalls /\ (play # "attempts" => Plain)
  /\ CleanupInit /\ (play # "workers" => platform = "linux")
  /\ IF play = "replay" THEN Edited!ReplayInit /\ ready = <<>> /\ resolved = {} /\ whole = FALSE
                        ELSE ScriptInit

MCNext ==
  \/ play = "replay" /\ Edited!ReplayNext /\ UNCHANGED <<play, layerVars, vars, cleanupVars>>
  \/ play = "layers" /\ ScriptNext /\ UNCHANGED <<play, vars, cleanupVars>>
  \/ play = "attempts" /\ Next /\ UNCHANGED <<play, replayVars, layerVars, cleanupVars>>
  \/ play = "workers" /\ CleanupNext /\ UNCHANGED <<play, replayVars, layerVars, vars>>

MCSpec == MCInit /\ [][MCNext]_<<play, vars, replayVars, layerVars, cleanupVars>>

Interchangeable == Permutations(EditPrompts) \cup Permutations(EditSeeds)
=============================================================================
