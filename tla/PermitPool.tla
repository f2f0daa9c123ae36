----------------------------- MODULE PermitPool -----------------------------
(***************************************************************************)
(* What a concurrency limiter promises its callers, with no counter, no    *)
(* release closure and no promise: at most Permits callers are inside, a   *)
(* caller that finds no room joins the end of the line, and room is only   *)
(* ever given to the head of the line.  A caller that leaves while others  *)
(* wait is replaced in the same step, so room is never idle while somebody *)
(* waits and nobody overtakes the line.                                    *)
(***************************************************************************)
EXTENDS Naturals, Sequences, FiniteSets

CONSTANTS
  Callers,  \* the acquire() calls made over the life of the limiter
  Permits   \* how many of them may be inside at once

VARIABLES
  line,     \* callers waiting, first come first
  inside,   \* callers that were given room and have not given it back
  gone      \* callers that gave it back

poolVars == <<line, inside, gone>>

Waiting == {line[i] : i \in DOMAIN line}
Fresh(c) == c \notin Waiting /\ c \notin inside /\ c \notin gone

Init ==
  /\ line = <<>>
  /\ inside = {}
  /\ gone = {}

(* Room is free, which implies nobody waits: the caller walks in.          *)
Enter(c) ==
  /\ Fresh(c)
  /\ line = <<>>
  /\ Cardinality(inside) < Permits
  /\ inside' = inside \cup {c}
  /\ UNCHANGED <<line, gone>>

(* No room: the caller joins the end of the line.                          *)
Queue(c) ==
  /\ Fresh(c)
  /\ Cardinality(inside) = Permits
  /\ line' = Append(line, c)
  /\ UNCHANGED <<inside, gone>>

(* A caller leaves and nobody waits.                                       *)
Leave(c) ==
  /\ c \in inside
  /\ line = <<>>
  /\ inside' = inside \ {c}
  /\ gone' = gone \cup {c}
  /\ UNCHANGED line

(* A caller leaves and the head of the line takes its place at once.       *)
HandOver(c) ==
  /\ c \in inside
  /\ line # <<>>
  /\ inside' = (inside \ {c}) \cup {Head(line)}
  /\ line' = Tail(line)
  /\ gone' = gone \cup {c}

Next == \E c \in Callers : Enter(c) \/ Queue(c) \/ Leave(c) \/ HandOver(c)

Spec == Init /\ [][Next]_poolVars
=============================================================================
