------------------------------- MODULE Replay -------------------------------
(***************************************************************************)
(* Journal and prefix replay: src/src/engine/journal.ts with the way       *)
(* agentFn drives it.  A run dispatches agent() calls; each advances the   *)
(* key chain when it is dispatched and is journaled when it settles, so    *)
(* the journal is in completion order and its keys are in dispatch order.  *)
(* The run ends (or crashes) at any point; a later run resumes from its    *)
(* journal with a script that may have been edited and with arguments and  *)
(* permission that may have changed, and replays results while it can.     *)
(*                                                                         *)
(* Hashes are collision-free here: a chain key IS the sequence of what was *)
(* hashed into it, the seed (arguments and permission) and then one        *)
(* identity per call (prompt and result-relevant options).                 *)
(***************************************************************************)
EXTENDS Naturals, Sequences, FiniteSets

CONSTANTS
  Prompts,   \* identities of a call: prompt and the options hashed with it
  Seeds,     \* arguments and permission of a run
  MaxCalls,  \* bound: numbered calls per run
  MaxRuns    \* bound: the original run and its resumptions

VARIABLES
  run,       \* which run of the resume lineage is executing
  count,     \* shared.counter.count
  lastKey,      \* KeyChain.last
  history,   \* the keyed calls so far, in dispatch order, skips marked
  how,       \* how each of them was resolved
  inFlight,  \* live calls that have not settled
  journal,   \* agent records of this run, in the order they were appended
  queue,     \* PrefixReplayCache.queue: the prior run's records by seq
  idx,       \* PrefixReplayCache.idx
  missed,    \* PrefixReplayCache.prefixMissed
  unread     \* a result file of the prior run could not be read

runVars == <<count, lastKey, history, how, inFlight, journal>>
cacheVars == <<queue, idx, missed, unread>>
replayVars == <<run, runVars, cacheVars>>

(* seedKey and KeyChain.next: neither hashes the skip flag.                *)
SeedKey(seed) == <<seed>>
NextKey(prompt) == Append(lastKey, prompt)

(* What a script has done up to and including its newest keyed call.       *)
Trail(prompt, skip) == Append(history, [prompt |-> prompt, skip |-> skip])

(* A journal record.  `at` is what the run had done when it dispatched the *)
(* call and `origin` what the run that computed the value had done: the    *)
(* code stores neither, the properties compare them.                       *)
Record(seq, key, status, at, origin) ==
  [seq |-> seq, key |-> key, status |-> status, at |-> at, origin |-> origin]

ReplayInit ==
  /\ run = 1
  /\ count = 0
  /\ \E seed \in Seeds : lastKey = SeedKey(seed)
  /\ history = <<>>
  /\ how = <<>>
  /\ inFlight = {}
  /\ journal = <<>>
  /\ queue = <<>>
  /\ idx = 1
  /\ missed = FALSE
  /\ unread = FALSE

(* Number the call, advance the chain.                                     *)
Take(prompt, skip, resolution) ==
  /\ count < MaxCalls
  /\ count' = count + 1
  /\ lastKey' = NextKey(prompt)
  /\ history' = Trail(prompt, skip)
  /\ how' = Append(how, resolution)

(* normalizeAgentArgs throws: a seq is used up, the chain stands still.    *)
CallMalformed ==
  /\ count < MaxCalls
  /\ count' = count + 1
  /\ UNCHANGED <<run, lastKey, history, how, inFlight, journal, cacheVars>>

(* A skipped call is journaled at once and never consults the cache.       *)
CallSkipped(prompt) ==
  /\ Take(prompt, TRUE, "skip")
  /\ journal' = Append(journal,
       Record(count + 1, NextKey(prompt), "skip", Trail(prompt, TRUE), <<>>))
  /\ UNCHANGED <<run, inFlight, cacheVars>>

(* lookup() first steps over the prior run's skip records: where it stops. *)
Heads ==
  {i \in idx..Len(queue) :
     queue[i].status # "skip" /\ \A j \in idx..(i - 1) : queue[j].status = "skip"}

(* Mutant: trusts the position and does not compare keys.                  *)
MatchesAnyKey(i, prompt) ==
  /\ ~missed
  /\ i \in Heads
  /\ queue[i].status = "ok"

Matches(i, prompt) ==
  /\ ~missed
  /\ i \in Heads
  /\ queue[i].key = NextKey(prompt)
  /\ queue[i].status = "ok"

Found(prompt) == \E i \in DOMAIN queue : Matches(i, prompt)

(* A hit resolves with the prior result, which this run journals as its    *)
(* own so that a further resumption finds it.                              *)
CallReplayed(prompt) ==
  \E i \in DOMAIN queue :
    /\ Matches(i, prompt)
    /\ idx' = i + 1
    /\ Take(prompt, FALSE, "hit")
    /\ journal' = Append(journal,
         Record(count + 1, NextKey(prompt), "ok", Trail(prompt, FALSE), queue[i].origin))
    /\ UNCHANGED <<run, inFlight, queue, missed, unread>>

(* A miss leaves the queue where it was looked at.                         *)
GoLive(prompt) ==
  /\ missed' = TRUE
  /\ idx' \in IF missed THEN {idx} ELSE IF Heads = {} THEN {Len(queue) + 1} ELSE Heads
  /\ Take(prompt, FALSE, "live")
  /\ inFlight' = inFlight \cup
       {[seq |-> count + 1, key |-> NextKey(prompt), at |-> Trail(prompt, FALSE)]}
  /\ UNCHANGED <<run, journal, queue>>

(* The first miss ends replay: the call and all after it run live.         *)
CallLive(prompt) ==
  /\ ~Found(prompt)
  /\ GoLive(prompt)
  /\ UNCHANGED unread

(* The head matches but its result file is gone, torn or outside the run.  *)
CallUnreadable(prompt) ==
  /\ Found(prompt)
  /\ GoLive(prompt)
  /\ unread' = TRUE

(* A live call settles: its result is written, then its record appended.   *)
Settle(c, status) ==
  /\ inFlight' = inFlight \ {c}
  /\ journal' = Append(journal, Record(c.seq, c.key, status, c.at, c.at))
  /\ UNCHANGED <<run, count, lastKey, history, how, cacheVars>>

(* A live call ends without a record: withdrawn at the gate, or the disk   *)
(* refused its artifacts.                                                  *)
Vanish(c) ==
  /\ inFlight' = inFlight \ {c}
  /\ UNCHANGED <<run, count, lastKey, history, how, journal, cacheVars>>

(* Mutant: leaves the prior journal in completion order.                   *)
ByCompletion(a, b) == FALSE /\ a.seq < b.seq

BySeq(a, b) == a.seq < b.seq

(* Array.prototype.sort with the comparison of the seqs: a line goes behind *)
(* those that compare less, and keeps its order among those that do not.   *)
Ahead(lines, i) ==
  {j \in DOMAIN lines :
     BySeq(lines[j], lines[i]) \/ (~BySeq(lines[i], lines[j]) /\ j < i)}
Place(lines, i) == Cardinality(Ahead(lines, i)) + 1
Sorted(lines) == [n \in DOMAIN lines |-> lines[CHOOSE i \in DOMAIN lines : Place(lines, i) = n]]

(* The run is over, whatever is still in flight, and another resumes it.   *)
(* A crash may have torn the last line, which readJournal drops.           *)
Resume(seed, torn) ==
  /\ run < MaxRuns
  /\ torn => journal # <<>>
  /\ run' = run + 1
  /\ queue' = Sorted(IF torn THEN SubSeq(journal, 1, Len(journal) - 1) ELSE journal)
  /\ idx' = 1
  /\ missed' = FALSE
  /\ unread' = FALSE
  /\ count' = 0
  /\ lastKey' = SeedKey(seed)
  /\ history' = <<>>
  /\ how' = <<>>
  /\ inFlight' = {}
  /\ journal' = <<>>

Call(prompt) ==
  \/ CallSkipped(prompt)
  \/ CallReplayed(prompt)
  \/ CallLive(prompt)
  \/ CallUnreadable(prompt)

ReplayNext ==
  \/ CallMalformed
  \/ \E prompt \in Prompts : Call(prompt)
  \/ \E c \in inFlight : Vanish(c) \/ \E status \in {"ok", "error"} : Settle(c, status)
  \/ \E seed \in Seeds, torn \in BOOLEAN : Resume(seed, torn)

ReplaySpec == ReplayInit /\ [][ReplayNext]_replayVars
-----------------------------------------------------------------------------
Trails == Seq([prompt : Prompts, skip : BOOLEAN])
Keys == Seq(Seeds \cup Prompts)
Records == [seq : 1..MaxCalls, key : Keys, status : {"ok", "error", "skip"},
            at : Trails, origin : Trails]

ReplayTypeOK ==
  /\ run \in 1..MaxRuns
  /\ count \in 0..MaxCalls
  /\ lastKey \in Keys
  /\ history \in Trails
  /\ how \in Seq({"skip", "hit", "live"})
  /\ \A c \in inFlight : c \in [seq : 1..MaxCalls, key : Keys, at : Trails]
  /\ journal \in Seq(Records)
  /\ queue \in Seq(Records)
  /\ idx \in 1..Len(queue) + 1
  /\ missed \in BOOLEAN
  /\ unread \in BOOLEAN

(* A replayed value was computed, possibly several resumptions ago, by a   *)
(* run that had made the calls this run has made, with the same arguments  *)
(* and permission, and no call that runs live now was skipped then.        *)
ReplayFaithful ==
  \A i \in 1..Len(journal) : journal[i].status = "ok" =>
    LET now  == journal[i].at
        then == journal[i].origin
    IN  /\ Len(now) = Len(then)
        /\ \A j \in 1..Len(now) :
             now[j].prompt = then[j].prompt /\ (then[j].skip => now[j].skip)

(* What the prior run recorded for the k-th keyed call of this run.        *)
PriorStatuses(k) ==
  {queue[i].status : i \in {n \in 1..Len(queue) : queue[n].key = SubSeq(lastKey, 1, k + 1)}}

(* "Longest unchanged successful prefix" without index, sort or flag: each *)
(* call so far that is live now succeeded then, and each call that is      *)
(* skipped now had no live outcome then.                                   *)
InPrefix(k) ==
  \A j \in 1..k :
    IF how[j] = "skip" THEN PriorStatuses(j) \subseteq {"skip"}
                       ELSE "ok" \in PriorStatuses(j)

(* A call is replayed exactly when it lies in that prefix, in spite of the *)
(* prior run's completion order, its gaps, its skips and its crash.        *)
ReplaysLongestPrefix ==
  \A k \in 1..Len(how) : how[k] # "skip" =>
    /\ how[k] = "hit" => InPrefix(k)
    /\ InPrefix(k) /\ ~unread => how[k] = "hit"

(* What the class comment says: beyond an edit point everything runs live, *)
(* because any earlier divergence changes all later keys.  Adding a skip   *)
(* is an edit that changes no key.                                         *)
BeyondEditAllLive ==
  \A i \in 1..Len(journal) : journal[i].status = "ok" => journal[i].origin = journal[i].at

(* Live calls are never followed by replayed ones.                         *)
NoHitAfterMiss ==
  \A j, k \in 1..Len(how) : j < k /\ how[j] = "live" => how[k] # "hit"

(* A chain key never appears twice in a journal, nor a seq: the sorted     *)
(* queue of the next run has one order.                                    *)
JournalUnambiguous ==
  \A i, j \in 1..Len(journal) :
    (journal[i].seq = journal[j].seq \/ journal[i].key = journal[j].key) => i = j
=============================================================================
