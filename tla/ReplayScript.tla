---------------------------- MODULE ReplayScript ----------------------------
(***************************************************************************)
(* Replay of one deterministic script, resumed unchanged.  The script is a *)
(* set of calls with the results each one awaits: parallel() is a layer of *)
(* calls awaiting the whole layer before it, pipeline() is one chain per   *)
(* item.  Continuations run in the order in which what they await resolved *)
(* and before any worker's exit is handled, so replayed calls, which       *)
(* resolve at once, are ordered by the script alone while live ones are    *)
(* ordered by how fast their workers are.                                  *)
(* A run may be resumed when it has come to its end or before: it was      *)
(* stopped, or it crashed and its last line may be torn.                   *)
(***************************************************************************)
EXTENDS Replay

CONSTANT
  Script     \* sequence of [prompt |-> p, needs |-> the prompts it awaits]

VARIABLES
  ready,     \* calls whose continuation is due, in order
  resolved,  \* prompts of this run whose agent() promise has resolved
  whole      \* this run resumes one that came to its end

scriptVars == <<replayVars, ready, resolved, whole>>

(* The prompts of some of the script's steps, in script order.             *)
Listed(steps) ==
  [n \in 1..Cardinality(steps) |->
     Script[CHOOSE i \in steps : Cardinality({j \in steps : j < i}) = n - 1].prompt]

(* Steps that await nothing, and those that p's resolution makes due.      *)
Opening == {i \in DOMAIN Script : Script[i].needs = {}}
Woken(p) ==
  {i \in DOMAIN Script :
     p \in Script[i].needs /\ Script[i].needs \subseteq resolved \cup {p}}

Resolve(p, rest) ==
  /\ resolved' = resolved \cup {p}
  /\ ready' = rest \o Listed(Woken(p))

ScriptInit ==
  /\ ReplayInit
  /\ ready = Listed(Opening)
  /\ resolved = {}
  /\ whole = FALSE

(* The next continuation runs up to its agent() call.                      *)
Continue ==
  /\ ready # <<>>
  /\ \/ /\ CallReplayed(Head(ready))
        /\ Resolve(Head(ready), Tail(ready))
     \/ /\ CallLive(Head(ready))
        /\ ready' = Tail(ready)
        /\ UNCHANGED resolved
  /\ UNCHANGED whole

(* A worker's result is handled once no continuation is due.               *)
WorkerDone ==
  /\ ready = <<>>
  /\ \E c \in inFlight :
       /\ Settle(c, "ok")
       /\ Resolve(c.key[Len(c.key)], ready)
  /\ UNCHANGED whole

Ended == ready = <<>> /\ inFlight = {}

(* Another run resumes, with the same script and arguments.                *)
ResumeSame ==
  \E torn \in BOOLEAN :
    /\ Resume(lastKey[1], torn)
    /\ ready' = Listed(Opening)
    /\ resolved' = {}
    /\ whole' = (Ended /\ ~torn)

ScriptNext == Continue \/ WorkerDone \/ ResumeSame

ScriptSpec == ScriptInit /\ [][ScriptNext]_scriptVars
-----------------------------------------------------------------------------
(* The fan-out of step i is first[i]..last[i], and each of its calls awaits *)
(* the whole fan-out before it.                                            *)
Fans(first, last) ==
  \A i \in DOMAIN Script :
    /\ i \in first[i]..last[i]
    /\ \A j \in first[i]..last[i] : first[j] = first[i] /\ last[j] = last[i]
    /\ Script[i].needs = {Script[j].prompt : j \in {n \in DOMAIN Script : last[n] + 1 = first[i]}}

(* The script is a series of agent() and parallel() calls, each awaited    *)
(* before the next one, of different prompts.                              *)
FanOuts ==
  /\ Script \in Seq([prompt : Prompts, needs : SUBSET Prompts])
  /\ \A i, j \in DOMAIN Script : Script[i].prompt = Script[j].prompt => i = j
  /\ \E first, last \in [DOMAIN Script -> DOMAIN Script] : Fans(first, last)

(* The design document: same script and same arguments give a full cache   *)
(* hit, in whatever order the workers of the prior run finished, and       *)
(* however often it had been resumed before it came to its end.            *)
SameScriptFullHit == whole => ~missed
=============================================================================
