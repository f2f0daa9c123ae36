----------------------------- MODULE MCDispatch -----------------------------
(* The agent() calls of a run, in two independent plays: "dispatch", calls  *)
(* on shared permits, numbers and budget; "nested", a run that calls two    *)
(* child workflows, whose scripts end before what they started, and that is *)
(* stopped at any point.  Variables of the play that is not on keep their   *)
(* initial values.                                                          *)
EXTENDS Dispatch, Nesting

VARIABLE play

MCInit ==
  /\ play \in {"dispatch", "nested"}
  /\ DispatchInit
  /\ NestingInit

MCNext ==
  \/ play = "dispatch" /\ Next /\ UNCHANGED <<play, nestingVars>>
  \/ play = "nested" /\ NestingNext /\ UNCHANGED <<play, vars>>

MCSpec ==
  /\ MCInit /\ [][MCNext]_<<play, vars, nestingVars>>
  /\ DrainFairness
=============================================================================
