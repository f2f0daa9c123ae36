------------------------------ MODULE DurableLog ------------------------------
(***************************************************************************)
(* What the run-state ledger promises: a history that only grows, one        *)
(* revision at a time, whatever happens to the processes that write it.      *)
(* acked is the longest history any writer was told is committed.            *)
(***************************************************************************)
EXTENDS Naturals, Sequences

CONSTANTS Author   \* who may commit a revision

VARIABLES hist, acked

DInit == hist \in Seq(Author) /\ acked = <<>>

\* The first revision of a run, or one more.
Commit ==
  /\ \E a \in Author : hist' = Append(hist, a)
  /\ UNCHANGED acked

\* A writer learns what is committed, no later history having been acknowledged.
Acknowledge ==
  /\ acked' = hist
  /\ UNCHANGED hist

DNext == Commit \/ Acknowledge

DSpec == DInit /\ [][DNext]_<<hist, acked>>

-----------------------------------------------------------------------------
\* Nothing acknowledged is lost or changed, under every later writer.
AckedKept == Len(acked) <= Len(hist) /\ acked = SubSeq(hist, 1, Len(acked))
=============================================================================
