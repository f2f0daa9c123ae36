----------------------------- MODULE MCFrontend -----------------------------
(* What the commands and the MCP tools of a session do, in three            *)
(* independent plays.  "start": two calls, the second of which may resume  *)
(* what the first one started, and one edit of a file.                      *)
(* "follow": a lone reader of every kind over an event log of up to three   *)
(* cells, read by pages of one cell, with lines of up to two; a phase hold  *)
(* over pages of two cells, that a boundary and a later line share; two     *)
(* holds under a cap of one.  "install": two versions, publications that    *)
(* die, two installers that overlap.                                        *)
EXTENDS RunReaders, RunStart, Distribution, TLC

CONSTANTS s1, s2

VARIABLE play

Profile(b, m, e, w) == [backend |-> b, model |-> m, effort |-> e, contextWindow |-> w]
Given(m) == Profile("-", m, "-", "-")
Codex == Profile("codex", "m1", "high", "-")
Qoder == Profile("qoder", "-", "-", "8k")

Ask(overrides, args, budget, cap) ==
  [overrides |-> overrides, args |-> args, budget |-> budget, cap |-> cap]

MCValues == {"-", "0", "null", "codex", "qoder", "gemini", "m1", "m2", "high", "8k", "obj", "500k", "1h"}
MCSettings == {Codex, Qoder}
MCAsks ==
  {Ask(Given("-"), "-", "-", "-"),
   Ask(Profile("gemini", "-", "-", "-"), "obj", "-", "0"),
   Ask(Profile("qoder", "m2", "-", "-"), "-", "500k", "1h")}
MCFiles == {<<Codex, Qoder, "s1">>}
MCAccepts == [s1 |-> {"null", "obj"}, s2 |-> {"obj"}, broken |-> {"null", "obj"}]

MCScenes == {[follows |-> (s1 :> Modes @@ s2 :> {}), cells |-> 3, page |-> 1],
             [follows |-> (s1 :> {"phase"} @@ s2 :> {}), cells |-> 3, page |-> 2],
             [follows |-> [s \in {s1, s2} |-> {"activity", "phase"}], cells |-> 1, page |-> 1]}

MCInit ==
  /\ play \in {"start", "follow", "install"}
  /\ StartInit
  /\ Init /\ (play # "follow" => scene.cells = 1)
  /\ DistributionInit

MCNext ==
  \/ play = "start" /\ StartNext /\ UNCHANGED <<play, vars, distributionVars>>
  \/ play = "follow" /\ Next /\ UNCHANGED <<play, startVars, distributionVars>>
  \/ play = "install" /\ DistributionNext /\ UNCHANGED <<play, vars, startVars>>

MCSpec == MCInit /\ [][MCNext]_<<play, vars, startVars, distributionVars>>

Interchangeable == Permutations(Calls)
=============================================================================
