---------------------------- MODULE MCFeatureBench ----------------------------
(* Two tasks, three commands: a run, a redo or a resume, and one more. *)
EXTENDS FeatureBenchRun, TLC

Interchangeable == Permutations(Task)
=============================================================================
