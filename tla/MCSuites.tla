------------------------------ MODULE MCSuites ------------------------------
(* One run of the two suites whose agents live in containers, in three      *)
(* independent plays.  SWE-bench Pro: its agent sessions ("sessions": two   *)
(* executions under one command, or one execution under three) and the      *)
(* evaluation of what they left ("evaluation": two tasks of one arm, or one *)
(* task in both, under three commands).  SWE-Marathon ("marathon"): one     *)
(* task under three commands, each of which may die at any step.            *)
EXTENDS SwebenchSessions, SwebenchEval, MarathonRun, TLC

CONSTANTS t1, t2, armA, armB

VARIABLE play

MCManifests == {{<<t1, armA>>, <<t2, armA>>}, {<<t1, armA>>, <<t1, armB>>}}

ByLength == <<3, 1>>

MCInit ==
  /\ play \in {"sessions", "evaluation", "marathon"}
  /\ Init /\ (play # "sessions" => size = 1)
  /\ EvalInit /\ (play # "evaluation" => <<t1, armB>> \in manifest)
  /\ MarathonInit

MCNext ==
  \/ play = "sessions" /\ Next /\ UNCHANGED <<play, evalVars, marathonVars>>
  \/ play = "evaluation" /\ EvalNext /\ UNCHANGED <<play, vars, marathonVars>>
  \/ play = "marathon" /\ MarathonNext /\ UNCHANGED <<play, vars, evalVars>>

MCSpec == MCInit /\ [][MCNext]_<<play, vars, evalVars, marathonVars>>

Interchangeable == Permutations(Workers)

\* Bound: the cleanup of what the workers left goes on for one execution, not for two at once.
FewLeft == cmd \in {"retry", "runtime"} => Cardinality(Live \cup registry) <= 1
=============================================================================
