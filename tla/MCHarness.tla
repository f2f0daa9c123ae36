----------------------------- MODULE MCHarness -----------------------------
(* What the three benchmark suites share, in three independent plays.       *)
(* "ledger": the lock between three processes, and the ledger of a new and  *)
(* of a migrated run between two, in segments of two records.  "processes": *)
(* two concurrent commands of one driver, one of which may fork.  "prep":   *)
(* two prep commands of any suites, each of which may die at any step.      *)
EXTENDS RunLedger, BenchProcesses, PreparedInputs

CONSTANTS p1, p2, p3

VARIABLE play

MCScenes == {[gone |-> {}, revisions |-> 0, legacy |-> <<>>],
             [gone |-> {p3}, revisions |-> 3, legacy |-> <<>>],
             [gone |-> {p3}, revisions |-> 4, legacy |-> <<p1, p2>>]}

MCInit ==
  /\ play \in {"ledger", "processes", "prep"}
  /\ Init /\ (play # "ledger" => scene.revisions = 0)
  /\ ProcessesInit /\ PrepInit

MCNext ==
  \/ play = "ledger" /\ Next /\ UNCHANGED <<play, processesVars, prepVars>>
  \/ play = "processes" /\ ProcessesNext /\ UNCHANGED <<play, vars, prepVars>>
  \/ play = "prep" /\ PrepNext /\ UNCHANGED <<play, vars, processesVars>>

MCSpec == MCInit /\ [][MCNext]_<<play, vars, processesVars, prepVars>>
=============================================================================
