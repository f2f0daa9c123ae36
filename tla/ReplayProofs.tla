---------------------------- MODULE ReplayProofs ----------------------------
(***************************************************************************)
(* Proofs about replay, for every set of prompts and seeds, every number   *)
(* of calls and every length of the resume lineage.                        *)
(*   - A replayed value was computed by the same calls (ReplayInv).        *)
(*   - What is replayed is the longest unchanged successful prefix, which  *)
(*     needs that the sort of the prior journal restores the order of its  *)
(*     chain of keys (SortedIs, PrefixInv).                                *)
(*   - A script of awaited agent() and parallel() calls that is resumed    *)
(*     unchanged, after a run that came to its end, is replayed to the     *)
(*     last call: it is dispatched in script order (ScriptInv).            *)
(***************************************************************************)
EXTENDS ReplayScript, FiniteSetTheorems, TLAPS

Steps == [prompt : Prompts, skip : BOOLEAN]
Idents == Seeds \cup Prompts

(* The trail t is what key k was hashed from, after the seed.              *)
KeyOf(k, t) ==
  /\ t \in Seq(Steps) /\ k \in Seq(Idents)
  /\ Len(k) = Len(t) + 1
  /\ \A j \in 1 .. Len(t) : k[j + 1] = t[j].prompt

(* t begins u.                                                             *)
Begins(t, u) == Len(t) <= Len(u) /\ \A j \in 1 .. Len(t) : t[j] = u[j]

(* The trail `now` of a run that replays makes the calls of `then`, and    *)
(* skips what was skipped then.                                            *)
SameCalls(now, then) ==
  /\ Len(now) = Len(then)
  /\ \A j \in 1 .. Len(now) : now[j].prompt = then[j].prompt /\ (then[j].skip => now[j].skip)

RecordTypes == [seq : Nat, key : Seq(Idents), status : {"ok", "error", "skip"},
                at : Seq(Steps), origin : Seq(Steps)]
FlightTypes == [seq : Nat, key : Seq(Idents), at : Seq(Steps)]

(* A record of a run: its key is that of its trail, which ends with a skip *)
(* if it records one; a value comes from the same calls.                   *)
GoodRecord(r) ==
  /\ KeyOf(r.key, r.at) /\ r.at # <<>>
  /\ r.status = "skip" <=> r.at[Len(r.at)].skip
  /\ r.status = "ok" => SameCalls(r.at, r.origin)

GoodFlight(c) ==
  /\ KeyOf(c.key, c.at) /\ c.at # <<>>
  /\ ~c.at[Len(c.at)].skip

(* The records of one run were dispatched along one trail.                 *)
Present ==
  /\ count \in Nat /\ KeyOf(lastKey, history)
  /\ journal \in Seq(RecordTypes) /\ inFlight \subseteq FlightTypes
  /\ \A i \in DOMAIN journal : GoodRecord(journal[i]) /\ Begins(journal[i].at, history)
  /\ \A c \in inFlight : GoodFlight(c) /\ Begins(c.at, history)

Prior ==
  /\ queue \in Seq(RecordTypes)
  /\ \A i \in DOMAIN queue : GoodRecord(queue[i])
  /\ \A i, j \in DOMAIN queue :
       Len(queue[i].at) <= Len(queue[j].at) => Begins(queue[i].at, queue[j].at)

(* Until the first miss each keyed call of this run was skipped, or found  *)
(* its own record of the prior run.                                        *)
HasRecord(j) ==
  \E i \in DOMAIN queue :
    queue[i].status = "ok" /\ Len(queue[i].at) = j

HitsSoFar ==
  ~missed => \A j \in 1 .. Len(history) : history[j].skip \/ HasRecord(j)

ReplayInv == Present /\ Prior /\ HitsSoFar

-----------------------------------------------------------------------------
(* The sort of the journal: each line has a place of its own.               *)
LEMMA Places ==
  ASSUME NEW lines \in Seq(RecordTypes)
  PROVE  /\ \A i \in DOMAIN lines : Place(lines, i) \in DOMAIN lines
         /\ \A i, j \in DOMAIN lines : i \in Ahead(lines, j) => Place(lines, i) < Place(lines, j)
         /\ \A i, j \in DOMAIN lines : i # j => i \in Ahead(lines, j) \/ j \in Ahead(lines, i)
<1>1. DOMAIN lines = 1 .. Len(lines) /\ Len(lines) \in Nat /\ IsFiniteSet(DOMAIN lines)
      /\ Cardinality(DOMAIN lines) = Len(lines)
  <2>1. DOMAIN lines = 1 .. Len(lines) /\ Len(lines) \in Nat
    OBVIOUS
  <2>2. /\ IsFiniteSet(1 .. Len(lines))
        /\ Cardinality(1 .. Len(lines)) = IF 1 > Len(lines) THEN 0 ELSE Len(lines) - 1 + 1
    BY <2>1, FS_Interval
  <2> QED
    BY <2>1, <2>2
<1>2. \A i \in DOMAIN lines : lines[i].seq \in Nat
  <2> TAKE i \in DOMAIN lines
  <2>1. lines[i] \in RecordTypes
    OBVIOUS
  <2> QED
    BY <2>1 DEF RecordTypes
<1> DEFINE D == DOMAIN lines
           seq(i) == lines[i].seq
<1>3. \A i, j \in D : i \in Ahead(lines, j) <=> seq(i) < seq(j) \/ (seq(i) = seq(j) /\ i < j)
  BY <1>1, <1>2 DEF Ahead, BySeq
<1>4. \A i \in D : Ahead(lines, i) \subseteq D
  BY DEF Ahead
<1>5. \A i \in D : /\ IsFiniteSet(Ahead(lines, i)) /\ Cardinality(Ahead(lines, i)) \in Nat
                   /\ i \notin Ahead(lines, i)
  BY <1>1, <1>2, <1>3, <1>4, FS_Subset, FS_CardinalityType
<1>6. ASSUME NEW i \in D PROVE Place(lines, i) \in D
  <2>1. Cardinality(Ahead(lines, i)) <= Len(lines)
    BY <1>1, <1>4, FS_Subset
  <2>2. Cardinality(Ahead(lines, i)) # Len(lines)
    BY <1>1, <1>4, <1>5, FS_Subset
  <2> QED
    BY <1>1, <1>5, <2>1, <2>2 DEF Place
<1>7. ASSUME NEW i \in D, NEW j \in D, i \in Ahead(lines, j)
      PROVE  Place(lines, i) < Place(lines, j)
  <2>1. Ahead(lines, i) \subseteq Ahead(lines, j)
    <3> SUFFICES ASSUME NEW k \in Ahead(lines, i) PROVE k \in Ahead(lines, j)
      OBVIOUS
    <3>1. k \in D /\ i \in Nat /\ j \in Nat /\ k \in Nat
      BY <1>1, <1>4
    <3> QED
      BY <1>2, <1>3, <1>7, <3>1
  <2>2. i \in Ahead(lines, j) /\ i \notin Ahead(lines, i)
    BY <1>5, <1>7
  <2>3. Cardinality(Ahead(lines, i)) <= Cardinality(Ahead(lines, j))
        /\ Cardinality(Ahead(lines, i)) # Cardinality(Ahead(lines, j))
    BY <1>5, <2>1, <2>2, FS_Subset
  <2> QED
    BY <1>5, <2>3 DEF Place
<1>8. \A i, j \in D : i # j => i \in Ahead(lines, j) \/ j \in Ahead(lines, i)
  BY <1>1, <1>2, <1>3
<1> QED
  BY <1>6, <1>7, <1>8

(* So there is a line at each place, and they stand in the order of their   *)
(* seqs: what Array.prototype.sort returns.                                 *)
LEMMA SortedIs ==
  ASSUME NEW lines \in Seq(RecordTypes)
  PROVE  /\ Sorted(lines) \in Seq(RecordTypes) /\ Len(Sorted(lines)) = Len(lines)
         /\ \A n \in DOMAIN lines : \E i \in DOMAIN lines : Sorted(lines)[n] = lines[i]
         /\ \A i \in DOMAIN lines : \E n \in DOMAIN lines : Sorted(lines)[n] = lines[i]
         /\ \A m, n \in DOMAIN lines : m < n =>
              \E i, j \in DOMAIN lines :
                /\ i # j /\ Sorted(lines)[m] = lines[i] /\ Sorted(lines)[n] = lines[j]
                /\ lines[i].seq <= lines[j].seq
<1> DEFINE D == DOMAIN lines
           f == [i \in D |-> Place(lines, i)]
           line(n) == CHOOSE i \in D : Place(lines, i) = n
<1>1. D = 1 .. Len(lines) /\ Len(lines) \in Nat /\ IsFiniteSet(D)
  BY FS_Interval
<1>2. /\ \A i \in D : Place(lines, i) \in D
      /\ \A i, j \in D : i \in Ahead(lines, j) => Place(lines, i) < Place(lines, j)
      /\ \A i, j \in D : i # j => i \in Ahead(lines, j) \/ j \in Ahead(lines, i)
  BY Places
<1>3. \A i, j \in D : Place(lines, i) = Place(lines, j) => i = j
  BY <1>1, <1>2
<1>4. f \in Injection(D, D)
  BY <1>2, <1>3 DEF Injection, IsInjective
<1>5. f \in Surjection(D, D)
  <2> HIDE DEF f, D
  <2> QED
    BY <1>1, <1>4, FS_Injection
<1>6. \A n \in D : \E i \in D : Place(lines, i) = n
  BY <1>5 DEF Surjection
<1>7. \A n \in D : line(n) \in D /\ Place(lines, line(n)) = n
  BY <1>6
<1>8. \A i \in D : line(Place(lines, i)) = i
  BY <1>2, <1>3, <1>7
<1>9. Sorted(lines) = [n \in D |-> lines[line(n)]]
  BY DEF Sorted
<1> HIDE DEF line, D
<1>10. \A n \in D : Sorted(lines)[n] = lines[line(n)] /\ lines[line(n)] \in RecordTypes
  BY <1>7, <1>9 DEF D
<1>11. Sorted(lines) \in Seq(RecordTypes) /\ Len(Sorted(lines)) = Len(lines)
  BY <1>1, <1>9, <1>10
<1>12. ASSUME NEW m \in D, NEW n \in D, m < n
       PROVE  line(m) # line(n) /\ lines[line(m)].seq <= lines[line(n)].seq
  <2>1. line(m) # line(n)
    BY <1>1, <1>7, <1>12
  <2>2. line(m) \in Ahead(lines, line(n))
    <3>1. line(m) \in D /\ line(n) \in D /\ Place(lines, line(m)) = m /\ Place(lines, line(n)) = n
      BY <1>7, <1>12
    <3>2. m \in Nat /\ n \in Nat
      BY <1>1
    <3>3. ~ (Place(lines, line(n)) < Place(lines, line(m)))
      BY <1>12, <3>1, <3>2
    <3> QED
      BY <1>2, <2>1, <3>1, <3>3 DEF D
  <2>3. lines[line(m)].seq \in Nat /\ lines[line(n)].seq \in Nat
    BY <1>10 DEF RecordTypes
  <2> QED
    BY <2>1, <2>2, <2>3 DEF Ahead, BySeq
<1> QED
  BY <1>2, <1>7, <1>8, <1>10, <1>11, <1>12 DEF D

(* Keys of the same calls: equal keys have trails of the same prompts.     *)
LEMMA SameKey ==
  ASSUME NEW k, NEW t, NEW u, KeyOf(k, t), KeyOf(k, u)
  PROVE  Len(t) = Len(u) /\ \A j \in 1 .. Len(t) : t[j].prompt = u[j].prompt
<1>1. Len(t) \in Nat /\ Len(u) \in Nat
  BY DEF KeyOf
<1> QED
  BY <1>1 DEF KeyOf

(* One more call lengthens key and trail alike.                            *)
LEMMA OneMore ==
  ASSUME KeyOf(lastKey, history), NEW p \in Prompts, NEW skip \in BOOLEAN
  PROVE  /\ KeyOf(NextKey(p), Trail(p, skip))
         /\ Trail(p, skip) # <<>>
         /\ Len(Trail(p, skip)) = Len(history) + 1
         /\ Trail(p, skip)[Len(Trail(p, skip))] = [prompt |-> p, skip |-> skip]
         /\ Begins(history, Trail(p, skip))
<1> DEFINE step == [prompt |-> p, skip |-> skip]
<1>1. step \in Steps /\ step.prompt = p
  BY DEF Steps
<1>2. p \in Idents
  BY DEF Idents
<1>3. history \in Seq(Steps) /\ lastKey \in Seq(Idents) /\ Len(lastKey) = Len(history) + 1
      /\ Len(history) \in Nat
      /\ \A j \in 1 .. Len(history) : lastKey[j + 1] = history[j].prompt
  BY DEF KeyOf
<1>4. Trail(p, skip) = Append(history, step) /\ NextKey(p) = Append(lastKey, p)
  BY DEF Trail, NextKey
<1> HIDE DEF step
<1>5. /\ Append(history, step) \in Seq(Steps) /\ Len(Append(history, step)) = Len(history) + 1
      /\ Append(history, step)[Len(history) + 1] = step
      /\ \A j \in 1 .. Len(history) : Append(history, step)[j] = history[j]
  BY <1>1, <1>3
<1>6. /\ Append(lastKey, p) \in Seq(Idents) /\ Len(Append(lastKey, p)) = Len(lastKey) + 1
      /\ Append(lastKey, p)[Len(lastKey) + 1] = p
      /\ \A j \in 1 .. Len(lastKey) : Append(lastKey, p)[j] = lastKey[j]
  BY <1>2, <1>3
<1>7. \A j \in 1 .. Len(history) + 1 : Append(lastKey, p)[j + 1] = Append(history, step)[j].prompt
  <2> SUFFICES ASSUME NEW j \in 1 .. Len(history) + 1
               PROVE  Append(lastKey, p)[j + 1] = Append(history, step)[j].prompt
    OBVIOUS
  <2>1. CASE j = Len(history) + 1
    BY <1>1, <1>3, <1>5, <1>6, <2>1
  <2>2. CASE j \in 1 .. Len(history)
    <3>1. j + 1 \in 1 .. Len(lastKey)
      BY <1>3, <2>2
    <3> QED
      BY <1>3, <1>5, <1>6, <2>2, <3>1
  <2> QED
    BY <1>3, <2>1, <2>2
<1>8. KeyOf(Append(lastKey, p), Append(history, step))
  BY <1>3, <1>5, <1>6, <1>7 DEF KeyOf
<1>9. Append(history, step) # <<>>
  BY <1>3, <1>5
<1>10. Begins(history, Append(history, step))
  BY <1>3, <1>5 DEF Begins
<1> QED
  BY <1>4, <1>5, <1>8, <1>9, <1>10 DEF step

(* Beginnings compose.                                                     *)
LEMMA BeginsTransitive ==
  ASSUME NEW t \in Seq(Steps), NEW u \in Seq(Steps), NEW v \in Seq(Steps), Begins(t, u), Begins(u, v)
  PROVE  Begins(t, v)
BY DEF Begins

(* So do replays of replays.                                               *)
LEMMA SameCallsTransitive ==
  ASSUME NEW t \in Seq(Steps), NEW u \in Seq(Steps), NEW v \in Seq(Steps),
         SameCalls(t, u), SameCalls(u, v)
  PROVE  SameCalls(t, v)
BY DEF SameCalls

(* Trails along one trail begin one another.                               *)
LEMMA Comparable ==
  ASSUME NEW t \in Seq(Steps), NEW u \in Seq(Steps), NEW v \in Seq(Steps),
         Begins(t, v), Begins(u, v), Len(t) <= Len(u)
  PROVE  Begins(t, u)
BY DEF Begins

(* One more record, of one more call or of a call that settles.             *)
LEMMA Journaled ==
  ASSUME journal \in Seq(RecordTypes), NEW r \in RecordTypes, journal' = Append(journal, r),
         GoodRecord(r), Begins(r.at, history'),
         \A i \in DOMAIN journal : GoodRecord(journal[i]) /\ Begins(journal[i].at, history')
  PROVE  /\ journal' \in Seq(RecordTypes)
         /\ \A i \in DOMAIN journal' : GoodRecord(journal'[i]) /\ Begins(journal'[i].at, history')
<1>1. /\ journal' \in Seq(RecordTypes) /\ DOMAIN journal' = 1 .. Len(journal) + 1
      /\ DOMAIN journal = 1 .. Len(journal)
      /\ journal'[Len(journal) + 1] = r
      /\ \A i \in 1 .. Len(journal) : journal'[i] = journal[i]
      /\ Len(journal) \in Nat
  OBVIOUS
<1>2. ASSUME NEW i \in DOMAIN journal'
      PROVE  GoodRecord(journal'[i]) /\ Begins(journal'[i].at, history')
  <2>1. CASE i = Len(journal) + 1
    BY <1>1, <2>1
  <2>2. CASE i \in DOMAIN journal
    BY <1>1, <2>2
  <2> QED
    BY <1>1, <2>1, <2>2
<1> QED
  BY <1>1, <1>2

(* A keyed call: what it leaves as it was, and what it makes longer.        *)
LEMMA TakeKeeps ==
  ASSUME Present, NEW p \in Prompts, NEW skip \in BOOLEAN, NEW res, Take(p, skip, res)
  PROVE  /\ count' \in Nat /\ KeyOf(lastKey', history')
         /\ lastKey' = NextKey(p) /\ history' = Trail(p, skip)
         /\ \A i \in DOMAIN journal : GoodRecord(journal[i]) /\ Begins(journal[i].at, history')
         /\ \A c \in inFlight : GoodFlight(c) /\ Begins(c.at, history')
<1>0. /\ KeyOf(lastKey, history) /\ count \in Nat
      /\ journal \in Seq(RecordTypes) /\ inFlight \subseteq FlightTypes
  BY DEF Present
<1>1. count' \in Nat /\ lastKey' = NextKey(p) /\ history' = Trail(p, skip)
  BY <1>0 DEF Take
<1>2. KeyOf(lastKey', history') /\ Begins(history, history')
  BY <1>0, <1>1, OneMore
<1>3. history \in Seq(Steps) /\ history' \in Seq(Steps)
  BY <1>0, <1>2 DEF KeyOf
<1>4. \A t \in Seq(Steps) : Begins(t, history) => Begins(t, history')
  BY <1>2, <1>3, BeginsTransitive
<1>5. \A i \in DOMAIN journal : journal[i].at \in Seq(Steps)
  <2> SUFFICES ASSUME NEW i \in DOMAIN journal PROVE journal[i].at \in Seq(Steps)
    OBVIOUS
  <2>1. journal[i] \in RecordTypes
    BY <1>0
  <2> QED
    BY <2>1 DEF RecordTypes
<1>6. \A c \in inFlight : c.at \in Seq(Steps)
  BY <1>0 DEF FlightTypes
<1> QED
  BY <1>1, <1>2, <1>4, <1>5, <1>6 DEF Present

(* The record of a new call is good.                                        *)
LEMMA NewRecord ==
  ASSUME Present, NEW p \in Prompts, NEW skip \in BOOLEAN,
         NEW status \in {"ok", "error", "skip"}, NEW origin \in Seq(Steps),
         status = "skip" <=> skip,
         status = "ok" => SameCalls(Trail(p, skip), origin)
  PROVE  LET r == Record(count + 1, NextKey(p), status, Trail(p, skip), origin)
         IN  r \in RecordTypes /\ GoodRecord(r) /\ r.at = Trail(p, skip)
<1> DEFINE r == Record(count + 1, NextKey(p), status, Trail(p, skip), origin)
<1>0. KeyOf(lastKey, history) /\ count + 1 \in Nat
  BY DEF Present
<1>1. /\ KeyOf(NextKey(p), Trail(p, skip)) /\ Trail(p, skip) # <<>>
      /\ Trail(p, skip)[Len(Trail(p, skip))] = [prompt |-> p, skip |-> skip]
  BY <1>0, OneMore
<1>2. NextKey(p) \in Seq(Idents) /\ Trail(p, skip) \in Seq(Steps)
  BY <1>1 DEF KeyOf
<1>3. /\ r.key = NextKey(p) /\ r.at = Trail(p, skip) /\ r.status = status /\ r.origin = origin
      /\ r \in RecordTypes
  BY <1>0, <1>2 DEF Record, RecordTypes
<1>4. Trail(p, skip)[Len(Trail(p, skip))].skip = skip
  BY <1>1
<1> HIDE DEF r
<1>5. GoodRecord(r)
  BY <1>1, <1>3, <1>4 DEF GoodRecord
<1> QED
  BY <1>3, <1>5 DEF r

(* While nothing was missed, a call that finds its record replays a value of *)
(* the same calls.                                                          *)
LEMMA HitIsFaithful ==
  ASSUME ReplayInv, NEW p \in Prompts, NEW i \in DOMAIN queue, Matches(i, p)
  PROVE  /\ SameCalls(Trail(p, FALSE), queue[i].at)
         /\ SameCalls(Trail(p, FALSE), queue[i].origin)
         /\ Len(queue[i].at) = Len(Trail(p, FALSE))
<1> DEFINE now == Trail(p, FALSE)
           rec == queue[i]
<1>0. /\ KeyOf(lastKey, history) /\ queue \in Seq(RecordTypes) /\ ~missed
      /\ rec.key = NextKey(p) /\ rec.status = "ok"
  BY DEF ReplayInv, Present, Prior, Matches
<1>1. rec \in RecordTypes /\ GoodRecord(rec)
  BY <1>0 DEF ReplayInv, Prior
<1>2. /\ KeyOf(NextKey(p), now) /\ Len(now) = Len(history) + 1
      /\ now[Len(now)] = [prompt |-> p, skip |-> FALSE] /\ Begins(history, now)
  BY <1>0, OneMore
<1>3. KeyOf(NextKey(p), rec.at) /\ rec.at # <<>> /\ ~rec.at[Len(rec.at)].skip
      /\ SameCalls(rec.at, rec.origin)
  BY <1>0, <1>1 DEF GoodRecord
<1>4. now \in Seq(Steps) /\ rec.at \in Seq(Steps) /\ rec.origin \in Seq(Steps)
      /\ history \in Seq(Steps)
  BY <1>0, <1>1, <1>2 DEF KeyOf, RecordTypes
<1>5. Len(now) = Len(rec.at) /\ \A j \in 1 .. Len(now) : now[j].prompt = rec.at[j].prompt
  <2> HIDE DEF now, rec
  <2> QED
    BY <1>2, <1>3, SameKey
<1> HIDE DEF now, rec
<1>6. ASSUME NEW j \in 1 .. Len(now), rec.at[j].skip
      PROVE  now[j].skip
  <2>1. CASE j = Len(now)
    BY <1>3, <1>5, <1>6, <2>1
  <2>2. CASE j \in 1 .. Len(history)
    <3>1. now[j] = history[j]
      BY <1>2, <2>2 DEF Begins
    <3>2. CASE HasRecord(j)
      <4>1. PICK n \in DOMAIN queue : queue[n].status = "ok" /\ Len(queue[n].at) = j
        BY <3>2 DEF HasRecord
      <4>2. queue[n].at # <<>> /\ ~queue[n].at[j].skip
        BY <4>1 DEF ReplayInv, Prior, GoodRecord
      <4>3. Begins(queue[n].at, rec.at)
        BY <1>4, <1>5, <4>1 DEF ReplayInv, Prior, rec
      <4>4. queue[n].at[j] = rec.at[j]
        BY <4>1, <4>3 DEF Begins
      <4> QED
        BY <1>6, <4>2, <4>4
    <3>3. CASE history[j].skip
      BY <3>1, <3>3
    <3> QED
      BY <1>0, <2>2, <3>2, <3>3 DEF ReplayInv, HitsSoFar
  <2>3. Len(history) \in Nat
    BY <1>4
  <2> QED
    BY <1>2, <2>1, <2>2, <2>3
<1>7. SameCalls(now, rec.at)
  BY <1>5, <1>6 DEF SameCalls
<1>8. SameCalls(now, rec.origin)
  BY <1>3, <1>4, <1>7, SameCallsTransitive
<1> QED
  BY <1>5, <1>7, <1>8 DEF now, rec

-----------------------------------------------------------------------------
(* What a run starts with: no call, the seed for a key.                     *)
LEMMA FreshRun ==
  ASSUME NEW seed \in Seeds
  PROVE  KeyOf(SeedKey(seed), <<>>)
<1>1. <<seed>> \in Seq(Idents) /\ Len(<<seed>>) = 1
  BY DEF Idents
<1>2. <<>> \in Seq(Steps) /\ Len(<<>>) = 0
  OBVIOUS
<1> QED
  BY <1>1, <1>2 DEF KeyOf, SeedKey

(* The invariant holds at first.                                            *)
LEMMA ReplayInvInit == ReplayInit => ReplayInv
<1> SUFFICES ASSUME ReplayInit PROVE ReplayInv
  OBVIOUS
<1>1. PICK seed \in Seeds : lastKey = SeedKey(seed)
  BY DEF ReplayInit
<1>2. KeyOf(lastKey, history)
  BY <1>1, FreshRun DEF ReplayInit
<1>3. Present
  BY <1>2 DEF ReplayInit, Present
<1>4. Prior
  BY DEF ReplayInit, Prior
<1>5. HitsSoFar
  BY DEF ReplayInit, HitsSoFar
<1> QED
  BY <1>3, <1>4, <1>5 DEF ReplayInv

(* The hits so far, one call further on.                                    *)
LEMMA OneMoreHit ==
  ASSUME ReplayInv, NEW p \in Prompts, NEW skip \in BOOLEAN,
         history' = Trail(p, skip), UNCHANGED queue, missed' = missed,
         ~missed => skip \/ HasRecord(Len(Trail(p, skip)))
  PROVE  HitsSoFar'
<1>0. KeyOf(lastKey, history)
  BY DEF ReplayInv, Present
<1>1. /\ Len(Trail(p, skip)) = Len(history) + 1
      /\ Trail(p, skip)[Len(history) + 1] = [prompt |-> p, skip |-> skip]
      /\ Begins(history, Trail(p, skip)) /\ Len(history) \in Nat
  BY <1>0, OneMore DEF KeyOf
<1>2. ASSUME ~missed', NEW j \in 1 .. Len(history')
      PROVE  history'[j].skip \/ HasRecord(j)'
  <2>1. HasRecord(j)' <=> HasRecord(j)
    BY DEF HasRecord
  <2>2. CASE j = Len(history) + 1
    BY <1>1, <1>2, <2>1, <2>2
  <2>3. CASE j \in 1 .. Len(history)
    BY <1>1, <1>2, <2>1, <2>3 DEF Begins, ReplayInv, HitsSoFar
  <2> QED
    BY <1>1, <1>2, <2>2, <2>3
<1> QED
  BY <1>2 DEF HitsSoFar

(* A skipped call.                                                          *)
LEMMA SkipKeeps ==
  ASSUME ReplayInv, NEW p \in Prompts, CallSkipped(p)
  PROVE  ReplayInv'
<1> DEFINE r == Record(count + 1, NextKey(p), "skip", Trail(p, TRUE), <<>>)
<1>0. Present /\ Prior
  BY DEF ReplayInv
<1>1. /\ count' \in Nat /\ KeyOf(lastKey', history') /\ history' = Trail(p, TRUE)
      /\ \A i \in DOMAIN journal : GoodRecord(journal[i]) /\ Begins(journal[i].at, history')
      /\ \A c \in inFlight : GoodFlight(c) /\ Begins(c.at, history')
  BY <1>0, TakeKeeps DEF CallSkipped
<1>2. r \in RecordTypes /\ GoodRecord(r) /\ r.at = history'
  <2>1. <<>> \in Seq(Steps)
    OBVIOUS
  <2> QED
    BY <1>0, <1>1, <2>1, NewRecord
<1>3. journal' = Append(journal, r) /\ UNCHANGED <<run, inFlight, queue, missed>>
  BY DEF CallSkipped, cacheVars
<1>4. Begins(history', history')
  BY DEF Begins
<1> HIDE DEF r
<1>5. /\ journal' \in Seq(RecordTypes)
      /\ \A i \in DOMAIN journal' : GoodRecord(journal'[i]) /\ Begins(journal'[i].at, history')
  BY <1>0, <1>1, <1>2, <1>3, <1>4, Journaled DEF Present
<1>6. Present'
  BY <1>0, <1>1, <1>3, <1>5 DEF Present
<1>7. Prior'
  BY <1>0, <1>3 DEF Prior
<1>8. HitsSoFar'
  BY <1>1, <1>3, OneMoreHit
<1> QED
  BY <1>6, <1>7, <1>8 DEF ReplayInv

(* A replayed call.                                                         *)
LEMMA HitKeeps ==
  ASSUME ReplayInv, NEW p \in Prompts, CallReplayed(p)
  PROVE  ReplayInv'
<1>0. Present /\ Prior
  BY DEF ReplayInv
<1>1. PICK i \in DOMAIN queue :
        /\ Matches(i, p) /\ Take(p, FALSE, "hit")
        /\ journal' = Append(journal,
             Record(count + 1, NextKey(p), "ok", Trail(p, FALSE), queue[i].origin))
        /\ UNCHANGED <<run, inFlight, queue, missed, unread>>
  BY DEF CallReplayed
<1> DEFINE r == Record(count + 1, NextKey(p), "ok", Trail(p, FALSE), queue[i].origin)
<1>2. /\ count' \in Nat /\ KeyOf(lastKey', history') /\ history' = Trail(p, FALSE)
      /\ \A n \in DOMAIN journal : GoodRecord(journal[n]) /\ Begins(journal[n].at, history')
      /\ \A c \in inFlight : GoodFlight(c) /\ Begins(c.at, history')
  BY <1>0, <1>1, TakeKeeps
<1>3. SameCalls(Trail(p, FALSE), queue[i].origin) /\ Len(queue[i].at) = Len(Trail(p, FALSE))
  BY <1>1, HitIsFaithful
<1>4. r \in RecordTypes /\ GoodRecord(r) /\ r.at = history'
  <2>1. queue[i] \in RecordTypes
    BY <1>0 DEF Prior
  <2>2. queue[i].origin \in Seq(Steps)
    BY <2>1 DEF RecordTypes
  <2> QED
    BY <1>0, <1>2, <1>3, <2>2, NewRecord
<1>5. Begins(history', history')
  BY DEF Begins
<1>6. journal' = Append(journal, r)
  BY <1>1
<1> HIDE DEF r
<1>7. /\ journal' \in Seq(RecordTypes)
      /\ \A n \in DOMAIN journal' : GoodRecord(journal'[n]) /\ Begins(journal'[n].at, history')
  BY <1>0, <1>2, <1>4, <1>5, <1>6, Journaled DEF Present
<1>8. Present'
  BY <1>0, <1>1, <1>2, <1>7 DEF Present
<1>9. Prior'
  BY <1>0, <1>1 DEF Prior
<1>10. HasRecord(Len(Trail(p, FALSE)))
  BY <1>1, <1>3 DEF HasRecord, Matches
<1>11. HitsSoFar'
  BY <1>1, <1>2, <1>10, OneMoreHit
<1> QED
  BY <1>8, <1>9, <1>11 DEF ReplayInv

(* A call that runs live.                                                   *)
LEMMA LiveKeeps ==
  ASSUME ReplayInv, NEW p \in Prompts, GoLive(p)
  PROVE  ReplayInv'
<1> DEFINE c == [seq |-> count + 1, key |-> NextKey(p), at |-> Trail(p, FALSE)]
<1>0. Present /\ Prior /\ KeyOf(lastKey, history)
  BY DEF ReplayInv, Present
<1>1. /\ count' \in Nat /\ KeyOf(lastKey', history') /\ history' = Trail(p, FALSE)
      /\ \A i \in DOMAIN journal : GoodRecord(journal[i]) /\ Begins(journal[i].at, history')
      /\ \A d \in inFlight : GoodFlight(d) /\ Begins(d.at, history')
  BY <1>0, TakeKeeps DEF GoLive
<1>2. /\ missed' /\ inFlight' = inFlight \cup {c} /\ UNCHANGED <<journal, queue>>
  BY DEF GoLive
<1>3. /\ KeyOf(NextKey(p), Trail(p, FALSE)) /\ Trail(p, FALSE) # <<>>
      /\ Trail(p, FALSE)[Len(Trail(p, FALSE))] = [prompt |-> p, skip |-> FALSE]
  BY <1>0, OneMore
<1>4. c \in FlightTypes /\ c.key = NextKey(p) /\ c.at = Trail(p, FALSE)
  <2>1. NextKey(p) \in Seq(Idents) /\ Trail(p, FALSE) \in Seq(Steps)
    BY <1>3 DEF KeyOf
  <2>2. count + 1 \in Nat
    BY <1>0 DEF Present
  <2> QED
    BY <2>1, <2>2 DEF FlightTypes
<1>5. GoodFlight(c)
  <2>1. [prompt |-> p, skip |-> FALSE].skip = FALSE
    OBVIOUS
  <2> HIDE DEF c
  <2> QED
    BY <1>3, <1>4, <2>1 DEF GoodFlight
<1>6. Begins(c.at, history')
  BY <1>1 DEF Begins
<1> HIDE DEF c
<1>7. Present'
  BY <1>0, <1>1, <1>2, <1>4, <1>5, <1>6 DEF Present
<1>8. Prior'
  BY <1>0, <1>2 DEF Prior
<1>9. HitsSoFar'
  BY <1>2 DEF HitsSoFar
<1> QED
  BY <1>7, <1>8, <1>9 DEF ReplayInv

(* A live call settles.                                                     *)
LEMMA SettleKeeps ==
  ASSUME ReplayInv, NEW c \in inFlight, NEW status \in {"ok", "error"}, Settle(c, status)
  PROVE  ReplayInv'
<1> DEFINE r == Record(c.seq, c.key, status, c.at, c.at)
<1>0. Present /\ Prior
  BY DEF ReplayInv
<1>1. /\ inFlight' = inFlight \ {c} /\ journal' = Append(journal, r)
      /\ UNCHANGED <<count, lastKey, history, queue, missed>>
  BY DEF Settle, cacheVars
<1>2. c \in FlightTypes /\ GoodFlight(c) /\ Begins(c.at, history)
  BY <1>0 DEF Present
<1>3. /\ c.at \in Seq(Steps) /\ c.key \in Seq(Idents) /\ c.seq \in Nat
  BY <1>2 DEF FlightTypes
<1>4. /\ r \in RecordTypes /\ r.at = c.at /\ r.key = c.key /\ r.status = status
      /\ r.origin = c.at
  BY <1>3 DEF Record, RecordTypes
<1>5. SameCalls(c.at, c.at)
  BY DEF SameCalls
<1> HIDE DEF r
<1>6. GoodRecord(r)
  BY <1>2, <1>4, <1>5 DEF GoodRecord, GoodFlight
<1>7. /\ journal' \in Seq(RecordTypes)
      /\ \A i \in DOMAIN journal' : GoodRecord(journal'[i]) /\ Begins(journal'[i].at, history')
  <2>1. journal \in Seq(RecordTypes)
        /\ \A i \in DOMAIN journal : GoodRecord(journal[i]) /\ Begins(journal[i].at, history')
    BY <1>0, <1>1 DEF Present
  <2>2. Begins(r.at, history')
    BY <1>1, <1>2, <1>4
  <2> QED
    BY <1>1, <1>4, <1>6, <2>1, <2>2, Journaled
<1>8. Present'
  BY <1>0, <1>1, <1>7 DEF Present
<1>9. Prior'
  BY <1>0, <1>1 DEF Prior
<1>10. HitsSoFar'
  BY <1>1 DEF ReplayInv, HitsSoFar, HasRecord
<1> QED
  BY <1>8, <1>9, <1>10 DEF ReplayInv

(* Another run resumes: its queue holds records of the one before.          *)
LEMMA ResumeKeeps ==
  ASSUME ReplayInv, NEW seed \in Seeds, NEW torn \in BOOLEAN, Resume(seed, torn)
  PROVE  ReplayInv'
<1> DEFINE lines == IF torn THEN SubSeq(journal, 1, Len(journal) - 1) ELSE journal
<1>0. /\ journal \in Seq(RecordTypes) /\ history \in Seq(Steps)
      /\ \A i \in DOMAIN journal : GoodRecord(journal[i]) /\ Begins(journal[i].at, history)
  BY DEF ReplayInv, Present, KeyOf
<1>1. /\ queue' = Sorted(lines) /\ missed' = FALSE /\ count' = 0
      /\ lastKey' = SeedKey(seed) /\ history' = <<>> /\ inFlight' = {} /\ journal' = <<>>
  BY DEF Resume
<1>2. \A i \in DOMAIN lines : i \in DOMAIN journal /\ lines[i] = journal[i]
  <2>1. CASE torn
    <3>1. Len(journal) \in Nat /\ DOMAIN journal = 1 .. Len(journal) /\ journal # <<>>
      BY <1>0, <2>1 DEF Resume
    <3>2. Len(journal) - 1 \in Nat
      BY <1>0, <3>1
    <3> QED
      BY <1>0, <2>1, <3>1, <3>2
  <2>2. CASE ~torn
    BY <2>2
  <2> QED
    BY <2>1, <2>2
<1>a. lines \in Seq(RecordTypes)
  BY <1>0 DEF Resume
<1> HIDE DEF lines
<1>3. \A i \in DOMAIN queue' : \E n \in DOMAIN journal : queue'[i] = journal[n]
  <2>1. Len(queue') = Len(lines) /\ queue' \in Seq(RecordTypes)
        /\ \A i \in DOMAIN lines : \E n \in DOMAIN lines : queue'[i] = lines[n]
    BY <1>1, <1>a, SortedIs
  <2>2. DOMAIN queue' = DOMAIN lines
    BY <1>a, <2>1
  <2> QED
    BY <1>2, <2>1, <2>2
<1>4. queue' \in Seq(RecordTypes)
  BY <1>1, <1>a, SortedIs
<1>5. \A i \in DOMAIN queue' : GoodRecord(queue'[i]) /\ Begins(queue'[i].at, history)
                               /\ queue'[i].at \in Seq(Steps)
  <2> SUFFICES ASSUME NEW i \in DOMAIN queue'
               PROVE  /\ GoodRecord(queue'[i]) /\ Begins(queue'[i].at, history)
                      /\ queue'[i].at \in Seq(Steps)
    OBVIOUS
  <2>1. queue'[i] \in RecordTypes
    BY <1>4
  <2> QED
    BY <1>0, <1>3, <2>1 DEF RecordTypes
<1>6. \A i, j \in DOMAIN queue' :
        Len(queue'[i].at) <= Len(queue'[j].at) => Begins(queue'[i].at, queue'[j].at)
  BY <1>0, <1>5, Comparable
<1>7. Prior'
  BY <1>4, <1>5, <1>6 DEF Prior
<1>8. Present'
  <2>1. KeyOf(lastKey', history')
    BY <1>1, FreshRun
  <2> QED
    BY <1>1, <2>1 DEF Present
<1>9. HitsSoFar'
  BY <1>1 DEF HitsSoFar
<1> QED
  BY <1>7, <1>8, <1>9 DEF ReplayInv

(* Every step keeps the invariant.                                          *)
LEMMA ReplayInvNext == ReplayInv /\ [ReplayNext]_replayVars => ReplayInv'
<1> SUFFICES ASSUME ReplayInv, [ReplayNext]_replayVars PROVE ReplayInv'
  OBVIOUS
<1>1. CASE CallMalformed
  BY <1>1 DEF CallMalformed, cacheVars, ReplayInv, Present, Prior, HitsSoFar, HasRecord
<1>2. CASE \E p \in Prompts : Call(p)
  BY <1>2, SkipKeeps, HitKeeps, LiveKeeps DEF Call, CallLive, CallUnreadable
<1>3. CASE \E c \in inFlight : Vanish(c)
  BY <1>3 DEF Vanish, cacheVars, ReplayInv, Present, Prior, HitsSoFar, HasRecord
<1>4. CASE \E c \in inFlight : \E status \in {"ok", "error"} : Settle(c, status)
  BY <1>4, SettleKeeps
<1>5. CASE \E seed \in Seeds, torn \in BOOLEAN : Resume(seed, torn)
  BY <1>5, ResumeKeeps
<1>6. CASE UNCHANGED replayVars
  BY <1>6 DEF replayVars, runVars, cacheVars, ReplayInv, Present, Prior, HitsSoFar, HasRecord
<1> QED
  BY <1>1, <1>2, <1>3, <1>4, <1>5, <1>6 DEF ReplayNext

(* A replayed value was computed by a run that had made the same calls with *)
(* the same arguments, through any number of resumptions of edited scripts: *)
(* what PrefixReplayCache.lookup and the chain of keys are for.             *)
THEOREM ReplayIsFaithful == ReplaySpec => []ReplayFaithful
<1>1. ReplayInv => ReplayFaithful
  <2> SUFFICES ASSUME ReplayInv PROVE ReplayFaithful
    OBVIOUS
  <2>1. journal \in Seq(RecordTypes)
        /\ \A i \in DOMAIN journal : journal[i].status = "ok" =>
             SameCalls(journal[i].at, journal[i].origin)
    BY DEF ReplayInv, Present, GoodRecord
  <2> QED
    BY <2>1 DEF ReplayFaithful, SameCalls
<1> QED
  BY <1>1, ReplayInvInit, ReplayInvNext, PTL DEF ReplaySpec

-----------------------------------------------------------------------------
(* The longest prefix *)

(* One of two entries of a journal was dispatched before the other: its seq *)
(* is smaller and its trail shorter.                                        *)
Before(a, b) == a.seq < b.seq /\ Len(a.at) < Len(b.at)
Spaced(a, b) == Before(a, b) \/ Before(b, a)

(* The entries of one run, settled or in flight, were dispatched one by one *)
(* along one chain of keys.                                                 *)
Numbered ==
  /\ \A i, j \in DOMAIN journal : i # j => Spaced(journal[i], journal[j])
  /\ \A i \in DOMAIN journal, c \in inFlight : Spaced(journal[i], c)
  /\ \A c, d \in inFlight : c # d => Spaced(c, d)
  /\ \A i \in DOMAIN journal : journal[i].seq <= count /\ Begins(journal[i].key, lastKey)
  /\ \A c \in inFlight : c.seq <= count /\ Begins(c.key, lastKey)

(* The queue has the order of that chain, although the journal had not.     *)
Lined ==
  \A i, j \in DOMAIN queue :
    i < j => Len(queue[i].at) < Len(queue[j].at) /\ Begins(queue[i].key, queue[j].key)

(* What the lookups have passed over is what they replayed, and skips.      *)
Walked ==
  /\ how \in Seq({"skip", "hit", "live"}) /\ Len(how) = Len(history)
  /\ \A j \in 1 .. Len(how) : how[j] = "skip" <=> history[j].skip
  /\ missed <=> \E j \in 1 .. Len(how) : how[j] = "live"
  /\ idx \in Nat \ {0}
  /\ ~missed => \A n \in DOMAIN queue : n < idx =>
       \/ queue[n].status = "skip"
       \/ Len(queue[n].at) <= Len(how) /\ how[Len(queue[n].at)] = "hit"
  /\ ~missed => \A j \in 1 .. Len(how) : how[j] = "hit" =>
       \E n \in DOMAIN queue : n < idx /\ queue[n].key = SubSeq(lastKey, 1, j + 1)

PrefixInv == Numbered /\ Lined /\ Walked /\ ReplaysLongestPrefix

(* An entry further down the chain than all the others.                     *)
LEMMA NextIsBehind ==
  ASSUME ReplayInv, Numbered, NEW e, e.seq = count + 1, Len(e.at) = Len(history) + 1
  PROVE  /\ \A i \in DOMAIN journal : Before(journal[i], e)
         /\ \A c \in inFlight : Before(c, e)
<1>1. /\ count \in Nat /\ history \in Seq(Steps) /\ Len(history) \in Nat
      /\ journal \in Seq(RecordTypes) /\ inFlight \subseteq FlightTypes
  BY DEF ReplayInv, Present, KeyOf
<1>2. ASSUME NEW i \in DOMAIN journal PROVE Before(journal[i], e)
  <2>1. journal[i] \in RecordTypes
    BY <1>1
  <2>2. journal[i].seq \in Nat /\ Len(journal[i].at) \in Nat
    BY <2>1 DEF RecordTypes
  <2>3. journal[i].seq <= count /\ Len(journal[i].at) <= Len(history)
    BY DEF ReplayInv, Present, Begins, Numbered
  <2> QED
    BY <1>1, <2>2, <2>3 DEF Before
<1>3. ASSUME NEW c \in inFlight PROVE Before(c, e)
  <2>2. c.seq \in Nat /\ Len(c.at) \in Nat
    BY <1>1 DEF FlightTypes
  <2>3. c.seq <= count /\ Len(c.at) <= Len(history)
    BY DEF ReplayInv, Present, Begins, Numbered
  <2> QED
    BY <1>1, <2>2, <2>3 DEF Before
<1> QED
  BY <1>2, <1>3

(* One more call: the chain grows, and what it was before begins it.        *)
LEMMA ChainGrows ==
  ASSUME ReplayInv, Numbered, NEW p \in Prompts, lastKey' = NextKey(p)
  PROVE  /\ Begins(lastKey', lastKey') /\ Begins(lastKey, lastKey')
         /\ \A i \in DOMAIN journal : Begins(journal[i].key, lastKey')
         /\ \A c \in inFlight : Begins(c.key, lastKey')
<1>1. /\ lastKey \in Seq(Idents) /\ p \in Idents
      /\ journal \in Seq(RecordTypes) /\ inFlight \subseteq FlightTypes
  BY DEF ReplayInv, Present, KeyOf, Idents
<1>2. Begins(lastKey', lastKey') /\ Begins(lastKey, lastKey') /\ lastKey' \in Seq(Idents)
  BY <1>1 DEF NextKey, Begins
<1>3. \A k \in Seq(Idents) : Begins(k, lastKey) => Begins(k, lastKey')
  BY <1>1, <1>2 DEF Begins
<1>4. ASSUME NEW i \in DOMAIN journal PROVE journal[i].key \in Seq(Idents)
  <2>1. journal[i] \in RecordTypes
    BY <1>1
  <2> QED
    BY <2>1 DEF RecordTypes
<1>5. \A c \in inFlight : c.key \in Seq(Idents)
  BY <1>1 DEF FlightTypes
<1> QED
  BY <1>2, <1>3, <1>4, <1>5 DEF Numbered

(* A record of the newest call is appended.                                 *)
LEMMA NumberedOnRecord ==
  ASSUME ReplayInv, Numbered, NEW p \in Prompts, NEW r, journal' = Append(journal, r),
         r.seq = count + 1, Len(r.at) = Len(history) + 1, r.key = NextKey(p),
         lastKey' = NextKey(p), count' = count + 1, inFlight' = inFlight
  PROVE  Numbered'
<1>1. /\ \A i \in DOMAIN journal : Before(journal[i], r)
      /\ \A c \in inFlight : Before(c, r)
  BY NextIsBehind
<1>2. /\ Begins(lastKey', lastKey')
      /\ \A i \in DOMAIN journal : Begins(journal[i].key, lastKey')
      /\ \A c \in inFlight : Begins(c.key, lastKey')
  BY ChainGrows
<1>3. journal \in Seq(RecordTypes) /\ count \in Nat /\ inFlight \subseteq FlightTypes
  BY DEF ReplayInv, Present
<1> DEFINE last == Len(journal) + 1
<1>4. /\ \A i \in DOMAIN journal' : i \in DOMAIN journal \/ i = last
      /\ \A i \in DOMAIN journal : journal'[i] = journal[i] /\ i # last
      /\ journal'[last] = r
  BY <1>3
<1> HIDE DEF last
<1>5. \A i, j \in DOMAIN journal' : i # j => Spaced(journal'[i], journal'[j])
  BY <1>1, <1>4 DEF Numbered, Spaced
<1>6. \A i \in DOMAIN journal', c \in inFlight' : Spaced(journal'[i], c)
  BY <1>1, <1>4 DEF Numbered, Spaced
<1>7. \A i \in DOMAIN journal' : journal'[i].seq <= count' /\ Begins(journal'[i].key, lastKey')
  <2>1. ASSUME NEW i \in DOMAIN journal PROVE journal[i].seq <= count + 1
    <3>1. journal[i] \in RecordTypes
      BY <1>3
    <3>2. journal[i].seq \in Nat
      BY <3>1 DEF RecordTypes
    <3> QED
      BY <1>3, <3>2 DEF Numbered
  <2> QED
    BY <1>2, <1>3, <1>4, <2>1
<1>8. \A c \in inFlight' : c.seq <= count' /\ Begins(c.key, lastKey')
  <2>1. \A c \in inFlight : c.seq <= count /\ c.seq \in Nat
    BY <1>3 DEF Numbered, FlightTypes
  <2> QED
    BY <1>2, <1>3, <2>1
<1> QED
  BY <1>5, <1>6, <1>7, <1>8 DEF Numbered

(* Or it is in flight.                                                      *)
LEMMA NumberedOnFlight ==
  ASSUME ReplayInv, Numbered, NEW p \in Prompts, NEW c, inFlight' = inFlight \cup {c},
         c.seq = count + 1, Len(c.at) = Len(history) + 1, c.key = NextKey(p),
         lastKey' = NextKey(p), count' = count + 1, journal' = journal
  PROVE  Numbered'
<1>1. /\ \A i \in DOMAIN journal : Before(journal[i], c)
      /\ \A d \in inFlight : Before(d, c)
  BY NextIsBehind
<1>2. /\ Begins(lastKey', lastKey')
      /\ \A i \in DOMAIN journal : Begins(journal[i].key, lastKey')
      /\ \A d \in inFlight : Begins(d.key, lastKey')
  BY ChainGrows
<1>3. journal \in Seq(RecordTypes) /\ count \in Nat /\ inFlight \subseteq FlightTypes
  BY DEF ReplayInv, Present
<1>4. ASSUME NEW i \in DOMAIN journal PROVE journal[i].seq <= count + 1
  <2>1. journal[i] \in RecordTypes
    BY <1>3
  <2>2. journal[i].seq \in Nat
    BY <2>1 DEF RecordTypes
  <2> QED
    BY <1>3, <2>2 DEF Numbered
<1>5. \A d \in inFlight' : d.seq <= count' /\ Begins(d.key, lastKey')
  <2>1. \A d \in inFlight : d.seq <= count /\ d.seq \in Nat
    BY <1>3 DEF Numbered, FlightTypes
  <2> QED
    BY <1>2, <1>3, <2>1
<1> QED
  BY <1>1, <1>2, <1>4, <1>5 DEF Numbered, Spaced

(* A live call settles, or vanishes.                                        *)
LEMMA NumberedOnSettle ==
  ASSUME ReplayInv, Numbered, NEW c \in inFlight, inFlight' = inFlight \ {c},
         UNCHANGED <<count, lastKey>>,
         \/ journal' = journal
         \/ \E status \in {"ok", "error"} :
              journal' = Append(journal, Record(c.seq, c.key, status, c.at, c.at))
  PROVE  Numbered'
<1>1. CASE journal' = journal
  BY <1>1 DEF Numbered
<1>2. ASSUME NEW r, journal' = Append(journal, r), r.seq = c.seq, r.at = c.at, r.key = c.key
      PROVE  Numbered'
  <2>1. journal \in Seq(RecordTypes)
    BY DEF ReplayInv, Present
  <2> DEFINE last == Len(journal) + 1
  <2>2. /\ \A i \in DOMAIN journal' : i \in DOMAIN journal \/ i = last
        /\ \A i \in DOMAIN journal : journal'[i] = journal[i] /\ i # last
        /\ journal'[last] = r
    BY <1>2, <2>1
  <2> HIDE DEF last
  <2>3. \A e : Spaced(e, c) => Spaced(e, r) /\ Spaced(r, e)
    BY <1>2 DEF Spaced, Before
  <2>4. \A i, j \in DOMAIN journal' : i # j => Spaced(journal'[i], journal'[j])
    BY <2>2, <2>3 DEF Numbered
  <2>5. \A i \in DOMAIN journal', d \in inFlight' : Spaced(journal'[i], d)
    <3>1. \A d \in inFlight' : Spaced(d, c)
      BY DEF Numbered
    <3> QED
      BY <2>2, <2>3, <3>1 DEF Numbered
  <2>6. \A i \in DOMAIN journal' : journal'[i].seq <= count' /\ Begins(journal'[i].key, lastKey')
    BY <1>2, <2>2 DEF Numbered
  <2> QED
    BY <2>4, <2>5, <2>6 DEF Numbered
<1>3. ASSUME NEW status \in {"ok", "error"},
             journal' = Append(journal, Record(c.seq, c.key, status, c.at, c.at))
      PROVE  Numbered'
  BY <1>2, <1>3 DEF Record
<1> QED
  BY <1>1, <1>3

(* Another run resumes: the sort gives back the order of the chain.         *)
LEMMA LinedOnResume ==
  ASSUME ReplayInv, Numbered, NEW seed \in Seeds, NEW torn \in BOOLEAN, Resume(seed, torn)
  PROVE  Lined'
<1> DEFINE lines == IF torn THEN SubSeq(journal, 1, Len(journal) - 1) ELSE journal
<1>1. journal \in Seq(RecordTypes) /\ queue' = Sorted(lines) /\ (torn => journal # <<>>)
  BY DEF ReplayInv, Present, Resume
<1>2. lines \in Seq(RecordTypes) /\ \A i \in DOMAIN lines : i \in DOMAIN journal /\ lines[i] = journal[i]
  BY <1>1
<1> HIDE DEF lines
<1>3. /\ DOMAIN queue' = DOMAIN lines
      /\ \A m, n \in DOMAIN queue' : m < n =>
           \E i, j \in DOMAIN lines : /\ i # j /\ queue'[m] = lines[i] /\ queue'[n] = lines[j]
                                      /\ lines[i].seq <= lines[j].seq
  <2>1. Len(queue') = Len(lines) /\ queue' \in Seq(RecordTypes)
    BY <1>1, <1>2, SortedIs
  <2>2. DOMAIN queue' = DOMAIN lines
    BY <1>2, <2>1
  <2>3. \A m, n \in DOMAIN lines : m < n =>
          \E i, j \in DOMAIN lines :
            /\ i # j /\ Sorted(lines)[m] = lines[i] /\ Sorted(lines)[n] = lines[j]
            /\ lines[i].seq <= lines[j].seq
    BY <1>2, SortedIs
  <2> QED
    BY <1>1, <2>2, <2>3
<1>4. ASSUME NEW m \in DOMAIN queue', NEW n \in DOMAIN queue', m < n
      PROVE  Len(queue'[m].at) < Len(queue'[n].at) /\ Begins(queue'[m].key, queue'[n].key)
  <2>1. PICK i \in DOMAIN journal, j \in DOMAIN journal :
          /\ i # j /\ queue'[m] = journal[i] /\ queue'[n] = journal[j]
          /\ journal[i].seq <= journal[j].seq
    BY <1>2, <1>3, <1>4
  <2>2. /\ journal[i] \in RecordTypes /\ journal[j] \in RecordTypes
        /\ GoodRecord(journal[i]) /\ GoodRecord(journal[j])
    BY <1>1 DEF ReplayInv, Present
  <2>3. /\ journal[i].seq \in Nat /\ journal[j].seq \in Nat
        /\ journal[i].key \in Seq(Idents) /\ journal[j].key \in Seq(Idents)
        /\ Len(journal[i].key) = Len(journal[i].at) + 1 /\ Len(journal[j].key) = Len(journal[j].at) + 1
        /\ journal[i].at \in Seq(Steps) /\ journal[j].at \in Seq(Steps)
    BY <2>2 DEF RecordTypes, GoodRecord, KeyOf
  <2>4. Len(journal[i].at) < Len(journal[j].at)
    <3>1. Spaced(journal[i], journal[j])
      BY <2>1 DEF Numbered
    <3> QED
      BY <2>1, <2>3, <3>1 DEF Spaced, Before
  <2>5. Begins(journal[i].key, lastKey) /\ Begins(journal[j].key, lastKey)
    BY DEF Numbered
  <2>6. Begins(journal[i].key, journal[j].key)
    <3>1. Len(journal[i].at) \in Nat /\ Len(journal[j].at) \in Nat
      BY <2>3
    <3> QED
      BY <2>3, <2>4, <2>5, <3>1 DEF Begins
  <2> QED
    BY <2>1, <2>4, <2>6
<1> QED
  BY <1>4 DEF Lined

(* The lengths of trails and keys in the queue.                             *)
LEMMA QueueLengths ==
  ASSUME ReplayInv, NEW n \in DOMAIN queue
  PROVE  /\ queue[n].key \in Seq(Idents) /\ Len(queue[n].at) \in Nat \ {0}
         /\ Len(queue[n].key) = Len(queue[n].at) + 1
         /\ queue[n].status \in {"ok", "error", "skip"}
         /\ n \in Nat /\ DOMAIN queue = 1 .. Len(queue) /\ Len(queue) \in Nat
<1>1. queue \in Seq(RecordTypes) /\ GoodRecord(queue[n])
  BY DEF ReplayInv, Prior
<1>2. queue[n] \in RecordTypes
  BY <1>1
<1>3. queue[n].at \in Seq(Steps) /\ queue[n].at # <<>> /\ KeyOf(queue[n].key, queue[n].at)
  BY <1>1, <1>2 DEF GoodRecord, RecordTypes
<1> QED
  BY <1>1, <1>2, <1>3 DEF RecordTypes, KeyOf

(* A keyed call: what was resolved stays resolved, and in the prefix or not. *)
LEMMA OneMoreResolved ==
  ASSUME ReplayInv, Walked, NEW p \in Prompts, NEW skip \in BOOLEAN,
         NEW res \in {"skip", "hit", "live"}, res = "skip" <=> skip,
         Take(p, skip, res), queue' = queue
  PROVE  /\ how' \in Seq({"skip", "hit", "live"}) /\ Len(how) \in Nat
         /\ Len(how') = Len(how) + 1 /\ Len(history') = Len(how') /\ how'[Len(how) + 1] = res
         /\ \A j \in 1 .. Len(how') : how'[j] = "skip" <=> history'[j].skip
         /\ SubSeq(lastKey', 1, Len(how) + 2) = NextKey(p) /\ Len(NextKey(p)) = Len(how) + 2
         /\ NextKey(p) \in Seq(Idents)
         /\ \A j \in 1 .. Len(how) :
              /\ how'[j] = how[j] /\ SubSeq(lastKey', 1, j + 1) = SubSeq(lastKey, 1, j + 1)
              /\ SubSeq(lastKey, 1, j + 1) \in Seq(Idents) /\ Len(SubSeq(lastKey, 1, j + 1)) = j + 1
              /\ PriorStatuses(j)' = PriorStatuses(j) /\ (InPrefix(j)' <=> InPrefix(j))
<1>1. /\ how \in Seq({"skip", "hit", "live"}) /\ Len(how) = Len(history)
      /\ \A j \in 1 .. Len(how) : how[j] = "skip" <=> history[j].skip
      /\ KeyOf(lastKey, history)
  BY DEF ReplayInv, Present, Walked
<1>2. /\ lastKey \in Seq(Idents) /\ history \in Seq(Steps) /\ Len(lastKey) = Len(how) + 1
      /\ Len(how) \in Nat /\ p \in Idents
  BY <1>1 DEF KeyOf, Idents
<1>3. how' = Append(how, res) /\ lastKey' = NextKey(p) /\ history' = Trail(p, skip)
      /\ NextKey(p) = Append(lastKey, p)
  BY DEF Take, NextKey
<1>4. /\ how' \in Seq({"skip", "hit", "live"}) /\ Len(how') = Len(how) + 1
      /\ how'[Len(how) + 1] = res /\ \A j \in 1 .. Len(how) : how'[j] = how[j]
  BY <1>1, <1>2, <1>3
<1>5. /\ Len(history') = Len(how) + 1 /\ history'[Len(how) + 1].skip = skip
      /\ \A j \in 1 .. Len(how) : history'[j] = history[j]
  <2>1. /\ Len(Trail(p, skip)) = Len(history) + 1
        /\ Trail(p, skip)[Len(Trail(p, skip))] = [prompt |-> p, skip |-> skip]
        /\ Begins(history, Trail(p, skip))
    BY <1>1, OneMore
  <2> QED
    BY <1>1, <1>2, <1>3, <2>1 DEF Begins
<1>6. \A j \in 1 .. Len(how') : how'[j] = "skip" <=> history'[j].skip
  <2> TAKE j \in 1 .. Len(how')
  <2>1. CASE j = Len(how) + 1
    BY <1>4, <1>5, <2>1
  <2>2. CASE j \in 1 .. Len(how)
    BY <1>1, <1>4, <1>5, <2>2
  <2> QED
    BY <1>2, <1>4, <2>1, <2>2
<1>7. /\ SubSeq(lastKey', 1, Len(how) + 2) = NextKey(p) /\ Len(NextKey(p)) = Len(how) + 2
      /\ NextKey(p) \in Seq(Idents)
      /\ \A j \in 1 .. Len(how) :
           /\ SubSeq(lastKey', 1, j + 1) = SubSeq(lastKey, 1, j + 1)
           /\ SubSeq(lastKey, 1, j + 1) \in Seq(Idents) /\ Len(SubSeq(lastKey, 1, j + 1)) = j + 1
  BY <1>2, <1>3
<1>8. \A j \in 1 .. Len(how) : PriorStatuses(j)' = PriorStatuses(j)
  BY <1>7 DEF PriorStatuses
<1>9. \A k \in 1 .. Len(how) : InPrefix(k)' <=> InPrefix(k)
  <2> TAKE k \in 1 .. Len(how)
  <2>1. \A j \in 1 .. k : j \in 1 .. Len(how)
    BY <1>2
  <2> QED
    BY <1>4, <1>8, <2>1 DEF InPrefix
<1> QED
  BY <1>2, <1>4, <1>5, <1>6, <1>7, <1>8, <1>9


(* What one call contributes to the prefix.                                 *)
Belongs(j) ==
  IF how[j] = "skip" THEN PriorStatuses(j) \subseteq {"skip"} ELSE "ok" \in PriorStatuses(j)

(* The new call lies in the prefix if those before it do, and it does.      *)
LEMMA OneMoreInPrefix ==
  ASSUME ReplayInv, Walked, NEW p \in Prompts, NEW skip \in BOOLEAN,
         NEW res \in {"skip", "hit", "live"}, res = "skip" <=> skip,
         Take(p, skip, res), queue' = queue, NEW N \in Nat, N = Len(how) + 1
  PROVE  InPrefix(N)' <=> (\A j \in 1 .. Len(how) : Belongs(j)) /\ Belongs(N)'
<1>1. /\ Len(how) \in Nat /\ Len(how') = Len(how) + 1
      /\ \A j \in 1 .. Len(how) : how'[j] = how[j] /\ PriorStatuses(j)' = PriorStatuses(j)
  BY OneMoreResolved
<1>2. \A j \in 1 .. Len(how) : Belongs(j)' <=> Belongs(j)
  BY <1>1 DEF Belongs
<1>3. InPrefix(N)' <=> \A j \in 1 .. N : Belongs(j)'
  BY DEF InPrefix, Belongs
<1>4. 1 .. N = (1 .. Len(how)) \cup {N}
  BY <1>1
<1> QED
  BY <1>2, <1>3, <1>4

(* What is to be shown of the new call for the property to last.            *)
LEMMA StillLongest ==
  ASSUME ReplayInv, Walked, ReplaysLongestPrefix, NEW p \in Prompts, NEW skip \in BOOLEAN,
         NEW res \in {"skip", "hit", "live"}, res = "skip" <=> skip,
         Take(p, skip, res), queue' = queue, unread => unread', NEW N \in Nat, N = Len(how) + 1,
         res = "hit" => InPrefix(N)',
         res = "live" => ~InPrefix(N)' \/ unread'
  PROVE  ReplaysLongestPrefix'
<1>1. /\ Len(how) \in Nat /\ Len(how') = Len(how) + 1 /\ how'[N] = res
      /\ \A j \in 1 .. Len(how) : how'[j] = how[j] /\ (InPrefix(j)' <=> InPrefix(j))
  BY OneMoreResolved
<1>2. 1 .. Len(how') = (1 .. Len(how)) \cup {N}
  BY <1>1
<1> QED
  BY <1>1, <1>2 DEF ReplaysLongestPrefix

(* What is to be shown of the lookup.                                       *)
LEMMA StillWalked ==
  ASSUME ReplayInv, Walked, NEW p \in Prompts, NEW skip \in BOOLEAN,
         NEW res \in {"skip", "hit", "live"}, res = "skip" <=> skip,
         Take(p, skip, res), queue' = queue,
         missed' <=> missed \/ res = "live", idx' \in Nat \ {0},
         ~missed' => \A n \in DOMAIN queue : n < idx' =>
            n < idx \/ queue[n].status = "skip" \/ (res = "hit" /\ Len(queue[n].at) = Len(how) + 1),
         ~missed' => idx <= idx',
         ~missed' /\ res = "hit" =>
            \E n \in DOMAIN queue : n < idx' /\ queue[n].key = NextKey(p)
  PROVE  Walked'
<1> DEFINE N == Len(how) + 1
<1>1. /\ how' \in Seq({"skip", "hit", "live"}) /\ Len(how) \in Nat
      /\ Len(how') = N /\ Len(history') = Len(how') /\ how'[N] = res
      /\ \A j \in 1 .. Len(how') : how'[j] = "skip" <=> history'[j].skip
      /\ SubSeq(lastKey', 1, N + 1) = NextKey(p)
      /\ \A j \in 1 .. Len(how) :
           how'[j] = how[j] /\ SubSeq(lastKey', 1, j + 1) = SubSeq(lastKey, 1, j + 1)
  BY OneMoreResolved
<1>2. 1 .. Len(how') = (1 .. Len(how)) \cup {N} /\ N \in Nat
  BY <1>1
<1>3. missed' <=> \E j \in 1 .. Len(how') : how'[j] = "live"
  <2>1. missed <=> \E j \in 1 .. Len(how) : how[j] = "live"
    BY DEF Walked
  <2> HIDE DEF N
  <2> QED
    BY <1>1, <1>2, <2>1
<1>4. ASSUME ~missed', NEW n \in DOMAIN queue, n < idx', queue[n].status # "skip"
      PROVE  Len(queue[n].at) <= Len(how') /\ how'[Len(queue[n].at)] = "hit"
  <2>1. Len(queue[n].at) \in Nat \ {0}
    BY QueueLengths
  <2>2. CASE n < idx
    <3>1. Len(queue[n].at) <= Len(how) /\ how[Len(queue[n].at)] = "hit"
      BY <1>4, <2>2 DEF Walked
    <3> QED
      BY <1>1, <2>1, <3>1
  <2>3. CASE res = "hit" /\ Len(queue[n].at) = N
    BY <1>1, <1>2, <2>3
  <2> QED
    BY <1>4, <2>2, <2>3
<1>5. ASSUME ~missed', NEW j \in 1 .. Len(how'), how'[j] = "hit"
      PROVE  \E n \in DOMAIN queue : n < idx' /\ queue[n].key = SubSeq(lastKey', 1, j + 1)
  <2>1. CASE j \in 1 .. Len(how)
    <3>1. PICK n \in DOMAIN queue : n < idx /\ queue[n].key = SubSeq(lastKey, 1, j + 1)
      BY <1>1, <1>5, <2>1 DEF Walked
    <3>2. n \in Nat /\ idx \in Nat /\ idx' \in Nat /\ idx <= idx'
      BY <1>5, QueueLengths DEF Walked
    <3>3. n < idx'
      BY <3>1, <3>2
    <3> QED
      BY <1>1, <2>1, <3>1, <3>3
  <2>2. CASE j = N
    BY <1>1, <1>5, <2>2
  <2> QED
    BY <1>2, <2>1, <2>2
<1> HIDE DEF N
<1> QED
  BY <1>1, <1>3, <1>4, <1>5 DEF Walked


(* A skipped call does not look.                                            *)
LEMMA SkipWalks ==
  ASSUME ReplayInv, PrefixInv, NEW p \in Prompts, CallSkipped(p)
  PROVE  Walked' /\ ReplaysLongestPrefix'
<1>1. /\ Take(p, TRUE, "skip") /\ UNCHANGED <<queue, idx, missed, unread>>
      /\ Walked /\ ReplaysLongestPrefix
  BY DEF CallSkipped, cacheVars, PrefixInv
<1>2. idx \in Nat \ {0}
  BY <1>1 DEF Walked
<1>3. Walked'
  <2>1. TRUE \in BOOLEAN /\ "skip" \in {"skip", "hit", "live"} /\ ("skip" = "skip" <=> TRUE)
    OBVIOUS
  <2>2. /\ missed' <=> missed \/ "skip" = "live"
        /\ idx' \in Nat \ {0} /\ idx <= idx' /\ "skip" # "hit"
        /\ \A n \in DOMAIN queue : n < idx' => n < idx
    BY <1>1, <1>2
  <2>3. queue' = queue
    BY <1>1
  <2> QED
    BY <1>1, <2>1, <2>2, <2>3, StillWalked
<1>4. Len(how) + 1 \in Nat
  BY <1>1, OneMoreResolved
<1> QED
  BY <1>1, <1>3, <1>4, StillLongest

(* A call that matches lies in the prefix: its record is the only one with   *)
(* its key, and what the lookup passed over on the way recorded only skips. *)
LEMMA HitWalks ==
  ASSUME ReplayInv, PrefixInv, NEW p \in Prompts, CallReplayed(p)
  PROVE  Walked' /\ ReplaysLongestPrefix'
<1>1. PICK i \in DOMAIN queue :
        /\ Matches(i, p) /\ idx' = i + 1 /\ Take(p, FALSE, "hit")
        /\ UNCHANGED <<queue, missed, unread>>
  BY DEF CallReplayed
<1> DEFINE N == Len(how) + 1
<1>2. Lined /\ Walked /\ ReplaysLongestPrefix
  BY DEF PrefixInv
<1>3. /\ N \in Nat /\ Len(how) \in Nat /\ NextKey(p) \in Seq(Idents) /\ Len(NextKey(p)) = N + 1
      /\ how'[N] = "hit" /\ SubSeq(lastKey', 1, N + 1) = NextKey(p)
      /\ \A j \in 1 .. Len(how) : Len(SubSeq(lastKey, 1, j + 1)) = j + 1
  <2>1. FALSE \in BOOLEAN /\ "hit" \in {"skip", "hit", "live"} /\ ("hit" = "skip" <=> FALSE)
    OBVIOUS
  <2>2. /\ Len(how) \in Nat /\ how'[Len(how) + 1] = "hit"
        /\ SubSeq(lastKey', 1, Len(how) + 2) = NextKey(p) /\ Len(NextKey(p)) = Len(how) + 2
        /\ NextKey(p) \in Seq(Idents)
        /\ \A j \in 1 .. Len(how) : Len(SubSeq(lastKey, 1, j + 1)) = j + 1
    BY <1>1, <1>2, <2>1, OneMoreResolved
  <2>3. N + 1 = Len(how) + 2 /\ N \in Nat
    BY <2>2
  <2> QED
    BY <2>1, <2>2, <2>3
<1>4. /\ ~missed /\ i \in Heads /\ queue[i].key = NextKey(p) /\ queue[i].status = "ok"
  BY <1>1 DEF Matches
<1>5. i \in Nat /\ idx \in Nat \ {0} /\ Len(queue[i].at) = N
      /\ DOMAIN queue = 1 .. Len(queue) /\ Len(queue) \in Nat
  <2>1. /\ i \in Nat /\ Len(queue[i].key) = Len(queue[i].at) + 1 /\ Len(queue[i].at) \in Nat
        /\ DOMAIN queue = 1 .. Len(queue) /\ Len(queue) \in Nat
    BY QueueLengths
  <2>2. Len(queue[i].at) = N
    BY <1>3, <1>4, <2>1
  <2> QED
    BY <1>2, <2>1, <2>2 DEF Walked
<1>6. idx <= i /\ \A m \in idx .. i - 1 : queue[m].status = "skip"
  BY <1>4, <1>5 DEF Heads
<1>7. Walked'
  <2>1. idx' \in Nat \ {0} /\ idx <= idx'
    BY <1>1, <1>5, <1>6
  <2>2. ASSUME NEW n \in DOMAIN queue, n < idx'
        PROVE  n < idx \/ queue[n].status = "skip" \/ Len(queue[n].at) = N
    <3>1. n \in Nat /\ (n < idx \/ n \in idx .. i - 1 \/ n = i)
      BY <1>1, <1>5, <2>2
    <3> QED
      BY <1>5, <1>6, <3>1
  <2>3. i < idx' /\ queue[i].key = NextKey(p)
    BY <1>1, <1>4, <1>5
  <2> QED
    BY <1>1, <1>2, <2>1, <2>2, <2>3, StillWalked
<1>9. ASSUME NEW j \in 1 .. Len(how)
      PROVE  Belongs(j)
  <2>1. j \in Nat /\ j < N /\ how[j] \in {"skip", "hit", "live"}
    BY <1>2, <1>3 DEF Walked
  <2>2. CASE how[j] = "live"
    BY <1>2, <1>4, <2>2 DEF Walked
  <2>3. CASE how[j] = "hit"
    <3>1. InPrefix(j)
      BY <1>2, <2>3 DEF ReplaysLongestPrefix
    <3> QED
      BY <2>1, <3>1 DEF InPrefix, Belongs
  <2>4. CASE how[j] = "skip"
    <3>1. ASSUME NEW n \in 1 .. Len(queue), queue[n].key = SubSeq(lastKey, 1, j + 1)
          PROVE  queue[n].status = "skip"
      <4>1. n \in Nat /\ n \in DOMAIN queue
        BY <1>5
      <4>2. Len(queue[n].at) = j
        <5>1. Len(queue[n].key) = Len(queue[n].at) + 1 /\ Len(queue[n].at) \in Nat
          BY <4>1, QueueLengths
        <5> QED
          BY <1>3, <2>1, <3>1, <5>1
      <4>3. n < i
        <5>1. n # i
          BY <1>5, <2>1, <4>2, <1>3
        <5>2. ~ (i < n)
          BY <1>2, <1>3, <1>5, <2>1, <4>1, <4>2 DEF Lined
        <5> QED
          BY <1>5, <4>1, <5>1, <5>2
      <4>4. CASE n < idx
        BY <1>2, <1>4, <2>4, <4>1, <4>2, <4>4 DEF Walked
      <4>5. CASE n \in idx .. i - 1
        BY <1>6, <4>5
      <4> QED
        BY <1>5, <4>1, <4>3, <4>4, <4>5
    <3> QED
      BY <2>4, <3>1 DEF Belongs, PriorStatuses
  <2> QED
    BY <2>1, <2>2, <2>3, <2>4
<1>10. ASSUME NEW M \in Nat, M = N PROVE Belongs(M)'
  <2>1. "ok" \in PriorStatuses(M)'
    BY <1>1, <1>3, <1>4, <1>5, <1>10 DEF PriorStatuses
  <2> QED
    BY <1>3, <1>10, <2>1 DEF Belongs
<1>11. ASSUME NEW M \in Nat, M = N PROVE ReplaysLongestPrefix'
  <2>1. InPrefix(M)'
    BY <1>1, <1>2, <1>9, <1>10, <1>11, OneMoreInPrefix
  <2> QED
    BY <1>1, <1>2, <1>11, <2>1, StillLongest
<1> QED
  BY <1>3, <1>7, <1>11

(* A call that finds nothing does not lie in the prefix: a record that would *)
(* put it there is where the lookup stops.                                  *)
LEMMA LiveWalks ==
  ASSUME ReplayInv, PrefixInv, NEW p \in Prompts, GoLive(p),
         unread' \/ (~Found(p) /\ unread' = unread)
  PROVE  Walked' /\ ReplaysLongestPrefix'
<1> DEFINE N == Len(how) + 1
<1>1. /\ Take(p, FALSE, "live") /\ UNCHANGED queue /\ missed' = TRUE
      /\ idx' \in IF missed THEN {idx} ELSE IF Heads = {} THEN {Len(queue) + 1} ELSE Heads
  BY DEF GoLive
<1>2. Lined /\ Walked /\ ReplaysLongestPrefix
  BY DEF PrefixInv
<1>3. /\ N \in Nat /\ Len(how) \in Nat /\ NextKey(p) \in Seq(Idents) /\ Len(NextKey(p)) = N + 1
      /\ how'[N] = "live" /\ SubSeq(lastKey', 1, N + 1) = NextKey(p)
      /\ \A j \in 1 .. Len(how) : SubSeq(lastKey', 1, j + 1) = SubSeq(lastKey, 1, j + 1)
  <2>1. FALSE \in BOOLEAN /\ "live" \in {"skip", "hit", "live"} /\ ("live" = "skip" <=> FALSE)
    OBVIOUS
  <2>2. /\ Len(how) \in Nat /\ how'[Len(how) + 1] = "live"
        /\ SubSeq(lastKey', 1, Len(how) + 2) = NextKey(p) /\ Len(NextKey(p)) = Len(how) + 2
        /\ NextKey(p) \in Seq(Idents)
        /\ \A j \in 1 .. Len(how) : SubSeq(lastKey', 1, j + 1) = SubSeq(lastKey, 1, j + 1)
    BY <1>1, <1>2, <2>1, OneMoreResolved
  <2>3. N + 1 = Len(how) + 2 /\ N \in Nat
    BY <2>2
  <2> QED
    BY <2>1, <2>2, <2>3
<1>4. idx \in Nat \ {0} /\ Len(queue) \in Nat /\ DOMAIN queue = 1 .. Len(queue)
  <2>1. queue \in Seq(RecordTypes)
    BY DEF ReplayInv, Prior
  <2> QED
    BY <1>2, <2>1 DEF Walked
<1>5. Walked'
  <2>1. idx' \in {idx, Len(queue) + 1} \cup Heads
    BY <1>1
  <2>2. idx' \in Nat \ {0}
    <3>1. \A i \in idx .. Len(queue) : i \in Nat \ {0}
      BY <1>4
    <3>2. Heads \subseteq idx .. Len(queue)
      BY DEF Heads
    <3>3. Len(queue) + 1 \in Nat \ {0}
      BY <1>4
    <3> QED
      BY <1>4, <2>1, <3>1, <3>2, <3>3
  <2> QED
    BY <1>1, <1>2, <2>2, StillWalked
<1>6. ASSUME NEW M \in Nat, M = N, InPrefix(M)', ~unread' PROVE FALSE
  <2>1. ~Found(p) /\ ~unread
    BY <1>6
  <2>2. /\ \A j \in 1 .. Len(how) : Belongs(j)
        /\ Belongs(M)'
    BY <1>1, <1>2, <1>6, OneMoreInPrefix
  <2>3. ~missed
    <3> SUFFICES ASSUME missed PROVE FALSE
      OBVIOUS
    <3>1. PICK j \in 1 .. Len(how) : how[j] = "live"
      BY <1>2 DEF Walked
    <3>2. ~InPrefix(j)
      BY <1>2, <2>1, <3>1 DEF ReplaysLongestPrefix
    <3>3. \A k \in 1 .. j : k \in 1 .. Len(how)
      BY <1>3
    <3> QED
      BY <2>2, <3>2, <3>3 DEF InPrefix, Belongs
  <2>4. PICK n \in DOMAIN queue : queue[n].status = "ok" /\ queue[n].key = NextKey(p)
    <3>1. "ok" \in PriorStatuses(M)'
      BY <1>3, <1>6, <2>2 DEF Belongs
    <3> QED
      BY <1>1, <1>3, <1>4, <1>6, <3>1 DEF PriorStatuses
  <2>5. Len(queue[n].at) = N /\ n \in Nat
    <3>1. Len(queue[n].key) = Len(queue[n].at) + 1 /\ Len(queue[n].at) \in Nat /\ n \in Nat
      BY QueueLengths
    <3> QED
      BY <1>3, <2>4, <3>1
  <2>6. idx <= n
    <3>1. ~ (n < idx)
      BY <1>2, <1>3, <2>3, <2>4, <2>5 DEF Walked
    <3> QED
      BY <1>4, <2>5, <3>1
  <2>7. ASSUME NEW m \in idx .. n - 1 PROVE queue[m].status = "skip"
    <3>1. m \in DOMAIN queue /\ m \in Nat /\ idx <= m /\ m < n
      BY <1>4, <2>5
    <3>2. /\ Len(queue[m].at) < N /\ Begins(queue[m].key, NextKey(p))
      BY <1>2, <2>4, <2>5, <3>1 DEF Lined
    <3> DEFINE L == Len(queue[m].at)
    <3>3. L \in 1 .. Len(how) /\ queue[m].key \in Seq(Idents) /\ Len(queue[m].key) = L + 1
      <4>1. L \in Nat \ {0} /\ queue[m].key \in Seq(Idents) /\ Len(queue[m].key) = L + 1
        BY <3>1, QueueLengths
      <4> HIDE DEF L
      <4>2. L < N
        BY <3>2 DEF L
      <4> QED
        BY <1>3, <4>1, <4>2
    <3>4. queue[m].key = SubSeq(NextKey(p), 1, L + 1)
      <4> HIDE DEF L
      <4>1. L + 1 <= N + 1
        BY <1>3, <3>3
      <4> QED
        BY <1>3, <3>2, <3>3, <4>1 DEF Begins
    <3>5. queue[m].key = SubSeq(lastKey, 1, L + 1)
      <4>1. SubSeq(NextKey(p), 1, L + 1) = SubSeq(lastKey, 1, L + 1)
        <5>1. lastKey \in Seq(Idents) /\ p \in Idents /\ Len(lastKey) = Len(how) + 1
          BY <1>2 DEF ReplayInv, Present, KeyOf, Walked, Idents
        <5> HIDE DEF L
        <5> QED
          BY <1>3, <3>3, <5>1 DEF NextKey
      <4> QED
        BY <3>4, <4>1
    <3>6. how[L] \in {"skip", "hit", "live"}
      BY <1>2, <3>3 DEF Walked
    <3>7. how[L] # "live"
      BY <1>2, <2>3, <3>3 DEF Walked
    <3>8. how[L] # "hit"
      <4> SUFFICES ASSUME how[L] = "hit" PROVE FALSE
        OBVIOUS
      <4>1. PICK e \in DOMAIN queue : e < idx /\ queue[e].key = SubSeq(lastKey, 1, L + 1)
        BY <1>2, <2>3, <3>3 DEF Walked
      <4>2. e \in Nat /\ Len(queue[e].key) = Len(queue[e].at) + 1 /\ Len(queue[e].at) \in Nat
        BY QueueLengths
      <4>3. e < m
        BY <1>4, <3>1, <4>1, <4>2
      <4>4. Len(queue[e].at) < L
        BY <1>2, <3>1, <4>3 DEF Lined
      <4>5. Len(queue[e].at) + 1 = L + 1 /\ L \in Nat
        BY <3>3, <3>5, <4>1, <4>2
      <4> HIDE DEF L
      <4> QED
        BY <4>2, <4>4, <4>5
    <3>9. PriorStatuses(L) \subseteq {"skip"}
      BY <2>2, <3>3, <3>6, <3>7, <3>8 DEF Belongs
    <3>10. queue[m].status \in PriorStatuses(L)
      BY <1>4, <3>1, <3>5 DEF PriorStatuses
    <3> QED
      BY <3>9, <3>10
  <2>8. n \in Heads
    BY <1>4, <2>4, <2>5, <2>6, <2>7 DEF Heads
  <2>9. Matches(n, p)
    BY <2>3, <2>4, <2>8 DEF Matches
  <2> QED
    BY <2>1, <2>9 DEF Found
<1>7. ASSUME NEW M \in Nat, M = N PROVE ReplaysLongestPrefix'
  <2>1. unread => unread'
    OBVIOUS
  <2> QED
    BY <1>1, <1>2, <1>6, <1>7, <2>1, StillLongest
<1> QED
  BY <1>3, <1>5, <1>7


(* A keyed call keeps the order of the entries.                             *)
LEMMA CallStaysNumbered ==
  ASSUME ReplayInv, PrefixInv, NEW p \in Prompts, Call(p)
  PROVE  Numbered' /\ queue' = queue
<1>1. Numbered /\ KeyOf(lastKey, history)
  BY DEF PrefixInv, ReplayInv, Present
<1>2. \A skip \in BOOLEAN : Len(Trail(p, skip)) = Len(history) + 1
  BY <1>1, OneMore
<1>3. CASE CallSkipped(p)
  <2> DEFINE r == Record(count + 1, NextKey(p), "skip", Trail(p, TRUE), <<>>)
  <2>1. /\ r.seq = count + 1 /\ r.key = NextKey(p) /\ Len(r.at) = Len(history) + 1
    BY <1>2 DEF Record
  <2>2. /\ journal' = Append(journal, r) /\ inFlight' = inFlight /\ lastKey' = NextKey(p)
        /\ count' = count + 1 /\ queue' = queue
    BY <1>3 DEF CallSkipped, Take, cacheVars
  <2> HIDE DEF r
  <2> QED
    BY <1>1, <2>1, <2>2, NumberedOnRecord
<1>4. CASE CallReplayed(p)
  <2>1. PICK i \in DOMAIN queue :
          /\ Take(p, FALSE, "hit") /\ UNCHANGED <<inFlight, queue>>
          /\ journal' = Append(journal,
               Record(count + 1, NextKey(p), "ok", Trail(p, FALSE), queue[i].origin))
    BY <1>4 DEF CallReplayed
  <2> DEFINE r == Record(count + 1, NextKey(p), "ok", Trail(p, FALSE), queue[i].origin)
  <2>2. /\ r.seq = count + 1 /\ r.key = NextKey(p) /\ Len(r.at) = Len(history) + 1
    BY <1>2 DEF Record
  <2>3. /\ journal' = Append(journal, r) /\ inFlight' = inFlight /\ lastKey' = NextKey(p)
        /\ count' = count + 1 /\ queue' = queue
    BY <2>1 DEF Take
  <2> HIDE DEF r
  <2> QED
    BY <1>1, <2>2, <2>3, NumberedOnRecord
<1>5. CASE GoLive(p)
  <2> DEFINE c == [seq |-> count + 1, key |-> NextKey(p), at |-> Trail(p, FALSE)]
  <2>1. /\ c.seq = count + 1 /\ c.key = NextKey(p) /\ Len(c.at) = Len(history) + 1
    BY <1>2
  <2>2. /\ inFlight' = inFlight \cup {c} /\ journal' = journal /\ lastKey' = NextKey(p)
        /\ count' = count + 1 /\ queue' = queue
    BY <1>5 DEF GoLive, Take
  <2> HIDE DEF c
  <2> QED
    BY <1>1, <2>1, <2>2, NumberedOnFlight
<1> QED
  BY <1>3, <1>4, <1>5 DEF Call, CallLive, CallUnreadable

(* At first nothing was looked up.                                          *)
LEMMA PrefixInvInit == ReplayInit => PrefixInv
<1> SUFFICES ASSUME ReplayInit PROVE PrefixInv
  OBVIOUS
<1>1. PICK seed \in Seeds : lastKey = SeedKey(seed)
  BY DEF ReplayInit
<1>2. Numbered
  BY DEF ReplayInit, Numbered
<1>3. Lined
  BY DEF ReplayInit, Lined
<1>4. how = <<>> /\ history = <<>> /\ idx = 1 /\ ~missed /\ queue = <<>>
  BY DEF ReplayInit
<1>5. Walked
  BY <1>4 DEF Walked
<1>6. ReplaysLongestPrefix
  BY <1>4 DEF ReplaysLongestPrefix
<1> QED
  BY <1>2, <1>3, <1>5, <1>6 DEF PrefixInv

(* Every step keeps the invariant.                                          *)
LEMMA PrefixInvNext == ReplayInv /\ PrefixInv /\ [ReplayNext]_replayVars => PrefixInv'
<1> SUFFICES ASSUME ReplayInv, PrefixInv, [ReplayNext]_replayVars PROVE PrefixInv'
  OBVIOUS
<1>0. Numbered /\ Lined /\ Walked /\ ReplaysLongestPrefix
  BY DEF PrefixInv
<1>a. ASSUME UNCHANGED <<lastKey, history, how, cacheVars>>
      PROVE  Lined' /\ Walked' /\ ReplaysLongestPrefix'
  <2>1. UNCHANGED <<lastKey, history, how, queue, idx, missed, unread>>
    BY <1>a DEF cacheVars
  <2>2. \A j : PriorStatuses(j)' = PriorStatuses(j)
    BY <2>1 DEF PriorStatuses
  <2>3. ReplaysLongestPrefix'
    BY <1>0, <2>1, <2>2 DEF ReplaysLongestPrefix, InPrefix
  <2> QED
    BY <1>0, <2>1, <2>3 DEF Lined, Walked
<1>1. CASE CallMalformed
  <2>1. UNCHANGED <<lastKey, history, how, cacheVars, journal, inFlight>> /\ count' = count + 1
    BY <1>1 DEF CallMalformed
  <2>2. count \in Nat /\ journal \in Seq(RecordTypes) /\ inFlight \subseteq FlightTypes
    BY DEF ReplayInv, Present
  <2>3. \A i \in DOMAIN journal : journal[i].seq <= count'
    <3> TAKE i \in DOMAIN journal
    <3>1. journal[i] \in RecordTypes
      BY <2>2
    <3>2. journal[i].seq \in Nat
      BY <3>1 DEF RecordTypes
    <3> QED
      BY <1>0, <2>1, <2>2, <3>2 DEF Numbered
  <2>4. \A c \in inFlight : c.seq <= count'
    <3>1. \A c \in inFlight : c.seq \in Nat
      BY <2>2 DEF FlightTypes
    <3> QED
      BY <1>0, <2>1, <2>2, <3>1 DEF Numbered
  <2>5. Numbered'
    BY <1>0, <2>1, <2>3, <2>4 DEF Numbered
  <2> QED
    BY <1>a, <2>1, <2>5 DEF PrefixInv
<1>2. ASSUME NEW p \in Prompts, Call(p) PROVE PrefixInv'
  <2>1. Numbered' /\ Lined'
    BY <1>0, <1>2, CallStaysNumbered DEF Lined
  <2>2. Walked' /\ ReplaysLongestPrefix'
    BY <1>2, SkipWalks, HitWalks, LiveWalks DEF Call, CallLive, CallUnreadable
  <2> QED
    BY <2>1, <2>2 DEF PrefixInv
<1>3. ASSUME NEW c \in inFlight, Vanish(c) PROVE PrefixInv'
  <2>1. /\ inFlight' = inFlight \ {c}
        /\ UNCHANGED <<count, lastKey, history, how, journal, cacheVars>>
    BY <1>3 DEF Vanish
  <2>2. Numbered'
    BY <1>0, <2>1, NumberedOnSettle
  <2> QED
    BY <1>a, <2>1, <2>2 DEF PrefixInv
<1>4. ASSUME NEW c \in inFlight, NEW status \in {"ok", "error"}, Settle(c, status)
      PROVE  PrefixInv'
  <2>1. /\ inFlight' = inFlight \ {c}
        /\ journal' = Append(journal, Record(c.seq, c.key, status, c.at, c.at))
        /\ UNCHANGED <<count, lastKey, history, how, cacheVars>>
    BY <1>4 DEF Settle
  <2>2. Numbered'
    BY <1>0, <2>1, NumberedOnSettle
  <2> QED
    BY <1>a, <2>1, <2>2 DEF PrefixInv
<1>5. ASSUME NEW seed \in Seeds, NEW torn \in BOOLEAN, Resume(seed, torn) PROVE PrefixInv'
  <2>1. /\ idx' = 1 /\ missed' = FALSE /\ how' = <<>> /\ history' = <<>>
        /\ inFlight' = {} /\ journal' = <<>>
    BY <1>5 DEF Resume
  <2>2. Numbered'
    BY <2>1 DEF Numbered
  <2>3. Lined'
    BY <1>0, <1>5, LinedOnResume
  <2>4. queue' \in Seq(RecordTypes)
    <3>1. ReplayInv'
      BY <1>5, ResumeKeeps
    <3> QED
      BY <3>1 DEF ReplayInv, Prior
  <2>5. Walked'
    BY <2>1, <2>4 DEF Walked
  <2>6. ReplaysLongestPrefix'
    BY <2>1 DEF ReplaysLongestPrefix
  <2> QED
    BY <2>2, <2>3, <2>5, <2>6 DEF PrefixInv
<1>6. CASE UNCHANGED replayVars
  <2>1. UNCHANGED <<lastKey, history, how, cacheVars, journal, inFlight, count>>
    BY <1>6 DEF replayVars, runVars
  <2>2. Numbered'
    BY <1>0, <2>1 DEF Numbered
  <2> QED
    BY <1>a, <2>1, <2>2 DEF PrefixInv
<1> QED
  BY <1>1, <1>2, <1>3, <1>4, <1>5, <1>6 DEF ReplayNext

(* A call is replayed exactly when it and all before it succeeded, or were  *)
(* skipped, in the prior run too, whatever the order in which that run's    *)
(* calls settled, its gaps and its crash: what PrefixReplayCache promises.  *)
THEOREM ReplayIsLongestPrefix == ReplaySpec => []ReplaysLongestPrefix
<1>1. ReplayInit => ReplayInv /\ PrefixInv
  BY ReplayInvInit, PrefixInvInit
<1>2. (ReplayInv /\ PrefixInv) /\ [ReplayNext]_replayVars => (ReplayInv /\ PrefixInv)'
  BY ReplayInvNext, PrefixInvNext
<1>3. ReplayInv /\ PrefixInv => ReplaysLongestPrefix
  BY DEF PrefixInv
<1> QED
  BY <1>1, <1>2, <1>3, PTL DEF ReplaySpec


-----------------------------------------------------------------------------
(* The same script again *)

(* Where the fan-out of each step begins and ends.                          *)
First ==
  CHOOSE first \in [DOMAIN Script -> DOMAIN Script] :
    \E last \in [DOMAIN Script -> DOMAIN Script] : Fans(first, last)
Last == CHOOSE last \in [DOMAIN Script -> DOMAIN Script] : Fans(First, last)

(* The steps of the fan-out that begins at position m + 1.                  *)
FanFrom(m) == {i \in DOMAIN Script : First[i] = m + 1}

(* With n calls made and those up to m due, the fan-out that ends at m is   *)
(* being made: all before it resolved, it has not, unless it is the last.   *)
Fanned(n, m, done) ==
  /\ n \in 0 .. m /\ m \in 0 .. Len(Script)
  /\ m = 0 => Len(Script) = 0
  /\ m > 0 =>
       /\ Last[m] = m /\ First[m] <= n + 1
       /\ \A j \in 1 .. First[m] - 1 : Script[j].prompt \in done
       /\ m < Len(Script) => \E j \in First[m] .. m : Script[j].prompt \notin done

(* The calls that are due are the script's next ones.                       *)
Upcoming(n, due) ==
  /\ due \in Seq(Prompts)
  /\ \A k \in 1 .. Len(due) : n + k \in DOMAIN Script /\ due[k] = Script[n + k].prompt

(* What resolved is among the first n calls.                                *)
Past(n, done) == \A p \in done : \E j \in 1 .. n : j \in DOMAIN Script /\ p = Script[j].prompt

(* The calls were made in script order, with one seed.                      *)
InOrder ==
  /\ \A j \in 1 .. Len(history) : j \in DOMAIN Script /\ history[j].prompt = Script[j].prompt
  /\ lastKey[1] \in Seeds

(* Each call has a record, and has resolved, or is in flight.               *)
Accounted ==
  /\ \A i \in DOMAIN journal : journal[i].status = "ok"
  /\ \A j \in 1 .. Len(history) :
       \/ \E i \in DOMAIN journal : Len(journal[i].at) = j
       \/ \E c \in inFlight : Len(c.at) = j
  /\ resolved = {Script[Len(journal[i].at)].prompt : i \in DOMAIN journal}

(* A run that resumes a whole one finds each of its calls, the next one     *)
(* where it looks.                                                          *)
WholeReplay ==
  whole =>
    /\ \A j \in DOMAIN Script : \E i \in DOMAIN queue : Len(queue[i].at) = j
    /\ \A i \in DOMAIN queue :
         /\ queue[i].status = "ok" /\ queue[i].key[1] = lastKey[1]
         /\ \A j \in 1 .. Len(queue[i].at) : queue[i].key[j + 1] = Script[j].prompt
    /\ ~missed
    /\ \A i \in DOMAIN queue : i < idx <=> Len(queue[i].at) <= Len(history)

ScriptInv ==
  /\ InOrder
  /\ Upcoming(Len(history), ready)
  /\ Fanned(Len(history), Len(history) + Len(ready), resolved)
  /\ Accounted
  /\ WholeReplay

(* What the hypothesis says of the script.                                  *)
LEMMA FanFacts ==
  ASSUME FanOuts
  PROVE  /\ DOMAIN Script = 1 .. Len(Script) /\ Len(Script) \in Nat
         /\ \A i \in DOMAIN Script : Script[i].prompt \in Prompts
         /\ \A i, j \in DOMAIN Script : Script[i].prompt = Script[j].prompt => i = j
         /\ \A i \in DOMAIN Script :
              /\ First[i] \in DOMAIN Script /\ Last[i] \in DOMAIN Script
              /\ First[i] <= i /\ i <= Last[i]
              /\ \A j \in First[i] .. Last[i] : First[j] = First[i] /\ Last[j] = Last[i]
              /\ Script[i].needs =
                   {Script[j].prompt : j \in {n \in DOMAIN Script : Last[n] + 1 = First[i]}}
<1> DEFINE D == DOMAIN Script
           step == [prompt : Prompts, needs : SUBSET Prompts]
<1>1. Script \in Seq(step)
  BY DEF FanOuts
<1>2. D = 1 .. Len(Script) /\ Len(Script) \in Nat
  BY <1>1
<1>3. ASSUME NEW i \in D PROVE Script[i].prompt \in Prompts
  <2>1. Script[i] \in step
    <3> HIDE DEF step
    <3> QED
      BY <1>1
  <2> QED
    BY <2>1
<1>4. \E first, last \in [D -> D] : Fans(first, last)
  BY DEF FanOuts
<1>5. First \in [D -> D] /\ \E last \in [D -> D] : Fans(First, last)
  BY <1>4 DEF First
<1>6. Last \in [D -> D] /\ Fans(First, Last)
  BY <1>5 DEF Last
<1>7. ASSUME NEW i \in D
      PROVE  /\ First[i] \in D /\ Last[i] \in D /\ First[i] <= i /\ i <= Last[i]
             /\ \A j \in First[i] .. Last[i] : First[j] = First[i] /\ Last[j] = Last[i]
             /\ Script[i].needs =
                  {Script[j].prompt : j \in {n \in D : Last[n] + 1 = First[i]}}
  <2>1. First[i] \in D /\ Last[i] \in D
    BY <1>5, <1>6
  <2>2. /\ i \in First[i] .. Last[i]
        /\ \A j \in First[i] .. Last[i] : First[j] = First[i] /\ Last[j] = Last[i]
        /\ Script[i].needs = {Script[j].prompt : j \in {n \in D : Last[n] + 1 = First[i]}}
    BY <1>6 DEF Fans
  <2> QED
    BY <1>2, <2>1, <2>2
<1> QED
  BY <1>2, <1>3, <1>7 DEF FanOuts

(* The steps after position m, if a fan-out ends there, begin with the next. *)
LEMMA NextFan ==
  ASSUME FanOuts, NEW m \in 0 .. Len(Script), m > 0 => Last[m] = m
  PROVE  /\ m = Len(Script) => FanFrom(m) = {}
         /\ m < Len(Script) =>
              /\ FanFrom(m) = m + 1 .. Last[m + 1] /\ First[m + 1] = m + 1
              /\ Last[m + 1] \in m + 1 .. Len(Script) /\ Last[Last[m + 1]] = Last[m + 1]
              /\ First[Last[m + 1]] = m + 1
<1>1. /\ DOMAIN Script = 1 .. Len(Script) /\ Len(Script) \in Nat
      /\ \A i \in DOMAIN Script :
              /\ First[i] \in DOMAIN Script /\ Last[i] \in DOMAIN Script
              /\ First[i] <= i /\ i <= Last[i]
              /\ \A j \in First[i] .. Last[i] : First[j] = First[i] /\ Last[j] = Last[i]
  BY FanFacts
<1>2. CASE m = Len(Script)
  BY <1>1, <1>2 DEF FanFrom
<1>3. ASSUME m < Len(Script)
      PROVE  /\ FanFrom(m) = m + 1 .. Last[m + 1] /\ First[m + 1] = m + 1
             /\ Last[m + 1] \in m + 1 .. Len(Script) /\ Last[Last[m + 1]] = Last[m + 1]
             /\ First[Last[m + 1]] = m + 1
  <2>1. m + 1 \in DOMAIN Script /\ Last[m + 1] \in m + 1 .. Len(Script)
    BY <1>1, <1>3
  <2>2. First[m + 1] = m + 1
    <3>1. ASSUME First[m + 1] <= m PROVE FALSE
      <4>1. m \in First[m + 1] .. Last[m + 1] /\ m > 0
        BY <1>1, <2>1, <3>1
      <4> QED
        BY <1>1, <2>1, <4>1
    <3> QED
      BY <1>1, <2>1, <3>1
  <2>3. \A j \in m + 1 .. Last[m + 1] : j \in DOMAIN Script /\ First[j] = m + 1 /\ Last[j] = Last[m + 1]
    BY <1>1, <2>1, <2>2
  <2>4. ASSUME NEW i \in DOMAIN Script, First[i] = m + 1
        PROVE  i \in m + 1 .. Last[m + 1]
    BY <1>1, <2>1, <2>4
  <2>5. FanFrom(m) = m + 1 .. Last[m + 1]
    BY <2>3, <2>4 DEF FanFrom
  <2> QED
    BY <2>1, <2>2, <2>3, <2>5
<1> QED
  BY <1>2, <1>3


(* Steps that follow one another are listed as they stand.                  *)
LEMMA ListedInterval ==
  ASSUME FanOuts, NEW a \in Nat, NEW b \in Nat, a <= b, b <= Len(Script)
  PROVE  /\ Upcoming(a, Listed(a + 1 .. b)) /\ Len(Listed(a + 1 .. b)) = b - a
<1> DEFINE S == a + 1 .. b
           rank(i) == Cardinality({j \in S : j < i})
           nth(n) == CHOOSE i \in S : rank(i) = n - 1
<1>1. /\ DOMAIN Script = 1 .. Len(Script) /\ Len(Script) \in Nat
      /\ \A i \in DOMAIN Script : Script[i].prompt \in Prompts
  BY FanFacts
<1>2. Cardinality(S) = b - a
  <2>1. Cardinality(a + 1 .. b) = IF a + 1 > b THEN 0 ELSE b - (a + 1) + 1
    BY FS_Interval
  <2> QED
    BY <2>1
<1>3. ASSUME NEW i \in S PROVE rank(i) = i - a - 1
  <2>1. {j \in S : j < i} = a + 1 .. i - 1
    OBVIOUS
  <2>2. Cardinality(a + 1 .. i - 1) = IF a + 1 > i - 1 THEN 0 ELSE i - 1 - (a + 1) + 1
    BY FS_Interval
  <2>3. Cardinality(a + 1 .. i - 1) = i - a - 1
    BY <2>2
  <2>4. rank(i) = Cardinality(a + 1 .. i - 1)
    BY <2>1
  <2> HIDE DEF rank
  <2> QED
    BY <2>3, <2>4
<1> HIDE DEF rank
<1>4. ASSUME NEW k \in 1 .. b - a PROVE nth(k) = a + k
  <2>1. a + k \in S /\ rank(a + k) = k - 1
    BY <1>3
  <2>2. nth(k) \in S /\ rank(nth(k)) = k - 1
    BY <2>1
  <2> HIDE DEF nth
  <2> QED
    BY <1>3, <2>2
<1>5. Listed(S) = [n \in 1 .. b - a |-> Script[nth(n)].prompt]
  BY <1>2 DEF Listed, rank
<1> HIDE DEF S, nth
<1>6. \A k \in 1 .. b - a : Listed(S)[k] = Script[a + k].prompt /\ a + k \in DOMAIN Script
  BY <1>1, <1>4, <1>5
<1>7. Listed(S) \in Seq(Prompts) /\ Len(Listed(S)) = b - a
  <2>1. b - a \in Nat /\ DOMAIN Listed(S) = 1 .. b - a
    BY <1>5
  <2>2. Listed(S) \in [1 .. b - a -> Prompts]
    BY <1>1, <1>5, <1>6
  <2> QED
    BY <2>1, <2>2
<1> QED
  BY <1>6, <1>7 DEF Upcoming, S

(* No step, no call.                                                        *)
LEMMA ListedNone == Listed({}) = <<>>
<1>1. Cardinality({}) = 0
  BY FS_EmptySet
<1> QED
  BY <1>1 DEF Listed

(* When all up to a fan-out's end have resolved, the next one becomes due.  *)
LEMMA FanBecomesDue ==
  ASSUME FanOuts, NEW m \in 0 .. Len(Script), m > 0 => Last[m] = m, NEW done,
         \A j \in 1 .. m : Script[j].prompt \in done, Past(m, done)
  PROVE  /\ Upcoming(m, Listed(FanFrom(m)))
         /\ Fanned(m, m + Len(Listed(FanFrom(m))), done)
<1>1. /\ DOMAIN Script = 1 .. Len(Script) /\ Len(Script) \in Nat
      /\ \A i, j \in DOMAIN Script : Script[i].prompt = Script[j].prompt => i = j
      /\ \A i \in DOMAIN Script : First[i] \in DOMAIN Script /\ First[i] <= i
  BY FanFacts
<1>2. CASE m = Len(Script)
  <2>1. Listed(FanFrom(m)) = <<>>
    BY <1>2, NextFan, ListedNone
  <2>2. Upcoming(m, <<>>)
    BY DEF Upcoming
  <2>3. Fanned(m, m, done)
    BY <1>1, <1>2 DEF Fanned
  <2> QED
    BY <2>1, <2>2, <2>3, <1>1
<1>3. CASE m < Len(Script)
  <2> DEFINE e == Last[m + 1]
  <2>1. /\ FanFrom(m) = m + 1 .. e /\ e \in m + 1 .. Len(Script)
        /\ Last[e] = e /\ First[e] = m + 1
    BY <1>3, NextFan
  <2> HIDE DEF e
  <2>2. Upcoming(m, Listed(FanFrom(m))) /\ Len(Listed(FanFrom(m))) = e - m
    <3>1. m \in Nat /\ e \in Nat /\ m <= e /\ e <= Len(Script)
      BY <1>1, <2>1
    <3> QED
      BY <2>1, <3>1, ListedInterval
  <2>3. Script[m + 1].prompt \notin done
    <3>1. m + 1 \in DOMAIN Script
      BY <1>1, <1>3
    <3>2. SUFFICES ASSUME Script[m + 1].prompt \in done PROVE FALSE
      OBVIOUS
    <3>3. PICK j \in 1 .. m : j \in DOMAIN Script /\ Script[m + 1].prompt = Script[j].prompt
      BY <3>2 DEF Past
    <3> QED
      BY <1>1, <3>1, <3>3
  <2>4. Fanned(m, e, done)
    BY <1>1, <2>1, <2>3 DEF Fanned
  <2>5. m + (e - m) = e
    BY <1>1, <2>1
  <2> QED
    BY <2>2, <2>4, <2>5
<1>4. m = Len(Script) \/ m < Len(Script)
  <2>1. Len(Script) \in Nat
    BY <1>1
  <2> QED
    BY <2>1
<1> QED
  BY <1>2, <1>3, <1>4

(* The calls a run makes at first are those of the first fan-out.           *)
LEMMA OpeningIs == FanOuts => Opening = FanFrom(0)
<1> SUFFICES ASSUME FanOuts PROVE Opening = FanFrom(0)
  OBVIOUS
<1>1. /\ DOMAIN Script = 1 .. Len(Script) /\ Len(Script) \in Nat
      /\ \A i \in DOMAIN Script :
              /\ First[i] \in DOMAIN Script /\ Last[i] \in DOMAIN Script
              /\ First[i] <= i /\ i <= Last[i]
              /\ \A j \in First[i] .. Last[i] : First[j] = First[i] /\ Last[j] = Last[i]
              /\ Script[i].needs =
                   {Script[j].prompt : j \in {n \in DOMAIN Script : Last[n] + 1 = First[i]}}
  BY FanFacts
<1>2. ASSUME NEW i \in DOMAIN Script PROVE Script[i].needs = {} <=> First[i] = 1
  <2>1. CASE First[i] = 1
    <3>1. \A n \in DOMAIN Script : Last[n] + 1 # 1
      BY <1>1
    <3> QED
      BY <1>1, <2>1, <3>1
  <2>2. CASE First[i] # 1
    <3> DEFINE n == First[i] - 1
    <3>1. n \in DOMAIN Script
      BY <1>1, <2>2
    <3>2. Last[n] < First[i]
      <4>1. ASSUME Last[n] >= First[i] PROVE FALSE
        <5>1. First[i] \in First[n] .. Last[n] /\ First[i] \in First[i] .. Last[i]
          BY <1>1, <3>1, <4>1
        <5>2. First[First[i]] = First[n] /\ First[First[i]] = First[i]
          BY <1>1, <3>1, <5>1
        <5>3. First[n] <= n /\ First[n] \in Nat
          BY <1>1, <3>1
        <5> QED
          BY <5>2, <5>3
      <4>2. Last[n] \in Nat /\ First[i] \in Nat
        BY <1>1, <3>1
      <4> QED
        BY <4>1, <4>2
    <3>3. Last[n] + 1 = First[i]
      BY <1>1, <3>1, <3>2
    <3>4. Script[n].prompt \in Script[i].needs
      BY <1>1, <3>1, <3>3
    <3> QED
      BY <2>2, <3>4
  <2> QED
    BY <2>1, <2>2
<1> QED
  BY <1>2 DEF Opening, FanFrom

(* What a call that resolves makes due: the next fan-out, or nothing yet.   *)
LEMMA WokenIs ==
  ASSUME FanOuts, NEW q \in DOMAIN Script, Last[q] = Last[Last[q]]
  PROVE  LET m == Last[q]
             all == \A j \in First[m] .. m : Script[j].prompt \in resolved \cup {Script[q].prompt}
         IN  /\ all => Woken(Script[q].prompt) = FanFrom(m)
             /\ ~all => Woken(Script[q].prompt) = {}
<1> DEFINE m == Last[q]
           p == Script[q].prompt
           done == resolved \cup {p}
<1>1. /\ DOMAIN Script = 1 .. Len(Script) /\ Len(Script) \in Nat
      /\ \A i, j \in DOMAIN Script : Script[i].prompt = Script[j].prompt => i = j
      /\ \A i \in DOMAIN Script :
              /\ First[i] \in DOMAIN Script /\ Last[i] \in DOMAIN Script
              /\ First[i] <= i /\ i <= Last[i]
              /\ \A j \in First[i] .. Last[i] : First[j] = First[i] /\ Last[j] = Last[i]
              /\ Script[i].needs =
                   {Script[j].prompt : j \in {n \in DOMAIN Script : Last[n] + 1 = First[i]}}
  BY FanFacts
<1>2. \A j \in DOMAIN Script : Last[j] + 1 = m + 1 <=> j \in First[m] .. m
  <2> SUFFICES ASSUME NEW j \in DOMAIN Script PROVE Last[j] + 1 = m + 1 <=> j \in First[m] .. m
    OBVIOUS
  <2>1. m \in DOMAIN Script /\ Last[m] = m
    BY <1>1
  <2> HIDE DEF m
  <2>2. ASSUME Last[j] = m PROVE j \in First[m] .. m
    <3>1. First[m] = First[j]
      BY <1>1, <2>1, <2>2
    <3> QED
      BY <1>1, <2>1, <2>2, <3>1
  <2>3. ASSUME j \in First[m] .. m PROVE Last[j] = m
    BY <1>1, <2>1, <2>3
  <2> QED
    BY <1>1, <2>1, <2>2, <2>3
<1>3. ASSUME NEW i \in DOMAIN Script
      PROVE  p \in Script[i].needs <=> First[i] = m + 1
  <2>1. ASSUME p \in Script[i].needs PROVE First[i] = m + 1
    <3>1. PICK j \in DOMAIN Script : Last[j] + 1 = First[i] /\ p = Script[j].prompt
      BY <1>1, <2>1
    <3> QED
      BY <1>1, <3>1
  <2>2. ASSUME First[i] = m + 1 PROVE p \in Script[i].needs
    BY <1>1, <2>2
  <2> QED
    BY <2>1, <2>2
<1>4. ASSUME NEW i \in FanFrom(m)
      PROVE  Script[i].needs \subseteq done <=> \A j \in First[m] .. m : Script[j].prompt \in done
  <2>1. i \in DOMAIN Script /\ First[i] = m + 1
    BY DEF FanFrom
  <2>2. Script[i].needs = {Script[j].prompt : j \in {n \in DOMAIN Script : Last[n] + 1 = m + 1}}
    BY <1>1, <2>1
  <2>3. First[m] .. m \subseteq DOMAIN Script
    BY <1>1
  <2> HIDE DEF m, done
  <2>4. Script[i].needs = {Script[j].prompt : j \in First[m] .. m}
    BY <1>2, <2>2, <2>3
  <2> QED
    BY <2>4
<1>5. Woken(p) = {i \in FanFrom(m) : Script[i].needs \subseteq done}
  <2> HIDE DEF m
  <2> QED
    BY <1>3 DEF Woken, FanFrom
<1> HIDE DEF m, p, done
<1>6. CASE \A j \in First[m] .. m : Script[j].prompt \in done
  BY <1>4, <1>5, <1>6 DEF m, p, done
<1>7. CASE ~ \A j \in First[m] .. m : Script[j].prompt \in done
  BY <1>4, <1>5, <1>7 DEF m, p, done
<1> QED
  BY <1>6, <1>7


(* A call that resolves, with the calls in `rest` still due: either it was  *)
(* the last of its fan-out, and the next one becomes due, or nothing does.  *)
LEMMA OneMoreResolves ==
  ASSUME FanOuts, NEW n \in Nat, NEW q \in 1 .. n, NEW rest, Upcoming(n, rest),
         NEW n0 \in 0 .. n, Fanned(n0, n + Len(rest), resolved),
         Past(n, resolved), Script[q].prompt \notin resolved
  PROVE  LET done == resolved \cup {Script[q].prompt}
             due == rest \o Listed(Woken(Script[q].prompt))
         IN  Upcoming(n, due) /\ Fanned(n, n + Len(due), done)
<1> DEFINE m == n + Len(rest)
           p == Script[q].prompt
           done == resolved \cup {p}
<1>1. /\ DOMAIN Script = 1 .. Len(Script) /\ Len(Script) \in Nat
      /\ \A i, j \in DOMAIN Script : Script[i].prompt = Script[j].prompt => i = j
  BY FanFacts
<1>2. /\ \A i \in DOMAIN Script :
              /\ First[i] \in DOMAIN Script /\ Last[i] \in DOMAIN Script
              /\ First[i] <= i /\ i <= Last[i]
      /\ \A i \in DOMAIN Script : \A j \in First[i] .. Last[i] : First[j] = First[i] /\ Last[j] = Last[i]
  BY FanFacts
<1>3. /\ rest \in Seq(Prompts) /\ Len(rest) \in Nat
      /\ \A k \in 1 .. Len(rest) : n + k \in DOMAIN Script /\ rest[k] = Script[n + k].prompt
  BY DEF Upcoming
<1>4. /\ m \in Nat /\ n <= m /\ m <= Len(Script) /\ m > 0 /\ q <= m /\ q \in DOMAIN Script
  BY <1>1, <1>3 DEF Fanned
<1>5. /\ Last[m] = m /\ First[m] <= n0 + 1
      /\ \A j \in 1 .. First[m] - 1 : Script[j].prompt \in resolved
      /\ m < Len(Script) => \E j \in First[m] .. m : Script[j].prompt \notin resolved
  BY <1>4 DEF Fanned
<1> HIDE DEF m
<1>6. m \in DOMAIN Script /\ First[m] \in 1 .. m
  BY <1>1, <1>2, <1>4
<1>7. q \in First[m] .. m
  <2>1. ASSUME q < First[m] PROVE FALSE
    <3>1. q \in 1 .. First[m] - 1
      BY <1>6, <2>1
    <3> QED
      BY <1>5, <3>1
  <2> QED
    BY <1>4, <1>6, <2>1
<1>8. Last[q] = m
  BY <1>2, <1>5, <1>6, <1>7
<1>9. Past(n, done)
  BY <1>4 DEF Past
<1> HIDE DEF done
<1>10. CASE \A j \in First[m] .. m : Script[j].prompt \in done
  <2>1. Woken(p) = FanFrom(m)
    BY <1>4, <1>5, <1>8, <1>10, WokenIs DEF done
  <2>2. n = m
    <3>1. m \in First[m] .. m
      BY <1>6
    <3>2. Script[m].prompt \in done
      BY <1>10, <3>1
    <3>3. PICK j \in 1 .. n : j \in DOMAIN Script /\ Script[m].prompt = Script[j].prompt
      BY <1>9, <3>2 DEF Past
    <3>4. m = j
      BY <1>1, <1>6, <3>3
    <3> QED
      BY <1>4, <3>4
  <2>3. rest = <<>>
    <3>1. Len(rest) = 0
      BY <1>3, <2>2 DEF m
    <3> QED
      BY <1>3, <3>1
  <2>4. \A j \in 1 .. m : Script[j].prompt \in done
    <3> SUFFICES ASSUME NEW j \in 1 .. m PROVE Script[j].prompt \in done
      OBVIOUS
    <3>1. CASE j < First[m]
      BY <1>5, <1>6, <3>1 DEF done
    <3>2. CASE j >= First[m]
      BY <1>6, <1>10, <3>2
    <3> QED
      BY <1>6, <3>1, <3>2
  <2>5. m \in 0 .. Len(Script) /\ Past(m, done)
    BY <1>1, <1>4, <1>9, <2>2
  <2>6. Upcoming(m, Listed(FanFrom(m))) /\ Fanned(m, m + Len(Listed(FanFrom(m))), done)
    BY <1>5, <2>4, <2>5, FanBecomesDue
  <2>7. rest \o Listed(Woken(p)) = Listed(FanFrom(m))
    <3>1. Listed(FanFrom(m)) \in Seq(Prompts)
      BY <2>6 DEF Upcoming
    <3> QED
      BY <2>1, <2>3, <3>1
  <2> QED
    BY <2>2, <2>6, <2>7 DEF done, p
<1>11. CASE ~ \A j \in First[m] .. m : Script[j].prompt \in done
  <2>1. Woken(p) = {}
    BY <1>4, <1>5, <1>8, <1>11, WokenIs DEF done
  <2>2. rest \o Listed(Woken(p)) = rest
    BY <1>3, <2>1, ListedNone
  <2>3. Fanned(n, m, done)
    BY <1>1, <1>4, <1>5, <1>6, <1>11 DEF Fanned, done
  <2> QED
    BY <2>2, <2>3 DEF done, p, m
<1> QED
  BY <1>10, <1>11


(* What the entries of a run look like from its chain.                      *)
LEMMA OnTheChain ==
  ASSUME ReplayInv, PrefixInv
  PROVE  /\ lastKey \in Seq(Idents) /\ Len(lastKey) = Len(history) + 1 /\ Len(history) \in Nat
         /\ \A j \in 1 .. Len(history) : lastKey[j + 1] = history[j].prompt
         /\ \A i \in DOMAIN journal :
              /\ Len(journal[i].at) \in 1 .. Len(history)
              /\ journal[i].key \in Seq(Idents) /\ Len(journal[i].key) = Len(journal[i].at) + 1
              /\ \A j \in 1 .. Len(journal[i].at) + 1 : journal[i].key[j] = lastKey[j]
         /\ \A c \in inFlight :
              /\ Len(c.at) \in 1 .. Len(history) /\ Len(c.key) = Len(c.at) + 1
              /\ c.key[Len(c.key)] = history[Len(c.at)].prompt
              /\ \A i \in DOMAIN journal : Len(journal[i].at) # Len(c.at)
<1>0. Present /\ Numbered
  BY DEF ReplayInv, PrefixInv
<1>1. /\ KeyOf(lastKey, history) /\ journal \in Seq(RecordTypes) /\ inFlight \subseteq FlightTypes
  BY <1>0 DEF Present
<1>2. /\ lastKey \in Seq(Idents) /\ Len(lastKey) = Len(history) + 1 /\ Len(history) \in Nat
      /\ \A j \in 1 .. Len(history) : lastKey[j + 1] = history[j].prompt
  BY <1>1 DEF KeyOf
<1>3. ASSUME NEW i \in DOMAIN journal
      PROVE  /\ Len(journal[i].at) \in 1 .. Len(history)
             /\ journal[i].key \in Seq(Idents) /\ Len(journal[i].key) = Len(journal[i].at) + 1
             /\ \A j \in 1 .. Len(journal[i].at) + 1 : journal[i].key[j] = lastKey[j]
  <2>1. /\ GoodRecord(journal[i]) /\ Begins(journal[i].at, history)
        /\ Begins(journal[i].key, lastKey)
    BY <1>0 DEF Present, Numbered
  <2>2. /\ journal[i].at \in Seq(Steps) /\ journal[i].at # <<>> /\ journal[i].key \in Seq(Idents)
        /\ Len(journal[i].key) = Len(journal[i].at) + 1
    BY <2>1 DEF GoodRecord, KeyOf
  <2>3. Len(journal[i].at) \in 1 .. Len(history)
    BY <1>2, <2>1, <2>2 DEF Begins
  <2> QED
    BY <2>1, <2>2, <2>3 DEF Begins
<1>4. ASSUME NEW c \in inFlight
      PROVE  /\ Len(c.at) \in 1 .. Len(history) /\ Len(c.key) = Len(c.at) + 1
             /\ c.key[Len(c.key)] = history[Len(c.at)].prompt
             /\ \A i \in DOMAIN journal : Len(journal[i].at) # Len(c.at)
  <2>1. /\ GoodFlight(c) /\ Begins(c.at, history) /\ \A i \in DOMAIN journal : Spaced(journal[i], c)
    BY <1>0 DEF Present, Numbered
  <2>2. /\ c.at \in Seq(Steps) /\ c.at # <<>> /\ Len(c.key) = Len(c.at) + 1
        /\ \A j \in 1 .. Len(c.at) : c.key[j + 1] = c.at[j].prompt
    BY <2>1 DEF GoodFlight, KeyOf
  <2>3. Len(c.at) \in 1 .. Len(history)
    BY <1>2, <2>1, <2>2 DEF Begins
  <2>4. c.at[Len(c.at)] = history[Len(c.at)]
    BY <2>1, <2>3 DEF Begins
  <2>5. \A i \in DOMAIN journal : Len(journal[i].at) # Len(c.at)
    BY <1>3, <2>1, <2>3 DEF Spaced, Before
  <2> QED
    BY <2>2, <2>3, <2>4, <2>5
<1> QED
  BY <1>2, <1>3, <1>4

(* What resolved is past.                                                   *)
LEMMA ResolvedIsPast ==
  ASSUME FanOuts, ReplayInv, PrefixInv, ScriptInv
  PROVE  /\ Past(Len(history), resolved)
         /\ \A j \in DOMAIN Script :
              (\A i \in DOMAIN journal : Len(journal[i].at) # j) => Script[j].prompt \notin resolved
<1>1. \A i \in DOMAIN journal : Len(journal[i].at) \in 1 .. Len(history)
  BY OnTheChain
<1>2. /\ resolved = {Script[Len(journal[i].at)].prompt : i \in DOMAIN journal}
      /\ \A j \in 1 .. Len(history) : j \in DOMAIN Script
  BY DEF ScriptInv, Accounted, InOrder
<1>3. \A i, j \in DOMAIN Script : Script[i].prompt = Script[j].prompt => i = j
  BY FanFacts
<1>4. Past(Len(history), resolved)
  BY <1>1, <1>2 DEF Past
<1> QED
  BY <1>1, <1>2, <1>3, <1>4

(* At first the first fan-out is due.                                       *)
LEMMA FirstDue ==
  ASSUME FanOuts
  PROVE  Upcoming(0, Listed(Opening)) /\ Fanned(0, 0 + Len(Listed(Opening)), {})
<1>1. Opening = FanFrom(0)
  BY OpeningIs
<1>2. Len(Script) \in Nat
  BY FanFacts
<1>3. Past(0, {}) /\ 0 \in 0 .. Len(Script) /\ \A j \in 1 .. 0 : Script[j].prompt \in {}
  BY <1>2 DEF Past
<1>4. Upcoming(0, Listed(FanFrom(0))) /\ Fanned(0, 0 + Len(Listed(FanFrom(0))), {})
  BY <1>3, FanBecomesDue
<1> QED
  BY <1>1, <1>4

(* The invariant holds at first.                                            *)
LEMMA ScriptInvInit == FanOuts /\ ScriptInit => ScriptInv
<1> SUFFICES ASSUME FanOuts, ScriptInit PROVE ScriptInv
  OBVIOUS
<1>1. /\ history = <<>> /\ journal = <<>> /\ inFlight = {} /\ resolved = {} /\ ~whole
      /\ ready = Listed(Opening)
  BY DEF ScriptInit, ReplayInit
<1>2. lastKey[1] \in Seeds
  BY DEF ScriptInit, ReplayInit, SeedKey
<1>3. InOrder /\ Accounted /\ WholeReplay
  BY <1>1, <1>2 DEF InOrder, Accounted, WholeReplay
<1>4. Upcoming(Len(history), ready) /\ Fanned(Len(history), Len(history) + Len(ready), resolved)
  <2>1. Len(history) = 0
    BY <1>1
  <2> QED
    BY <1>1, <2>1, FirstDue
<1> QED
  BY <1>3, <1>4 DEF ScriptInv

(* A step of the script is a step of a run.                                 *)
LEMMA ScriptStep == FanOuts /\ ScriptInv /\ [ScriptNext]_scriptVars => [ReplayNext]_replayVars
<1> SUFFICES ASSUME FanOuts, ScriptInv, [ScriptNext]_scriptVars PROVE [ReplayNext]_replayVars
  OBVIOUS
<1>1. ASSUME Continue PROVE ReplayNext
  <2>1. Head(ready) \in Prompts
    BY <1>1 DEF Continue, ScriptInv, Upcoming
  <2> QED
    BY <1>1, <2>1 DEF Continue, ReplayNext, Call
<1>2. ASSUME WorkerDone PROVE ReplayNext
  <2>1. \E c \in inFlight : Settle(c, "ok")
    BY <1>2 DEF WorkerDone
  <2>2. "ok" \in {"ok", "error"}
    OBVIOUS
  <2> QED
    BY <2>1, <2>2 DEF ReplayNext
<1>3. ASSUME ResumeSame PROVE ReplayNext
  BY <1>3 DEF ResumeSame, ScriptInv, InOrder, ReplayNext
<1>4. ASSUME UNCHANGED scriptVars PROVE UNCHANGED replayVars
  BY <1>4 DEF scriptVars
<1> QED
  BY <1>1, <1>2, <1>3, <1>4 DEF ScriptNext


(* The next call of the script is made.                                     *)
LEMMA NextCall ==
  ASSUME FanOuts, ReplayInv, PrefixInv, ScriptInv, ready # <<>>
  PROVE  LET n == Len(history) + 1
             p == Head(ready)
         IN  /\ n \in DOMAIN Script /\ p = Script[n].prompt /\ p \in Prompts
             /\ Upcoming(n, Tail(ready)) /\ n + Len(Tail(ready)) = Len(history) + Len(ready)
             /\ Len(ready) \in Nat
             /\ NextKey(p) \in Seq(Idents) /\ Len(NextKey(p)) = n + 1
             /\ NextKey(p)[1] = lastKey[1]
             /\ \A j \in 1 .. n : NextKey(p)[j + 1] = Script[j].prompt
             /\ \A res : Take(p, FALSE, res) =>
                  InOrder' /\ Len(history') = n /\ lastKey'[1] = lastKey[1]
<1> DEFINE n == Len(history) + 1
           p == Head(ready)
           t == Trail(p, FALSE)
<1>1. /\ ready \in Seq(Prompts)
      /\ \A k \in 1 .. Len(ready) : Len(history) + k \in DOMAIN Script
                                    /\ ready[k] = Script[Len(history) + k].prompt
  BY DEF ScriptInv, Upcoming
<1>2. /\ Len(ready) \in Nat /\ Len(ready) > 0 /\ p = ready[1] /\ p \in Prompts
      /\ Tail(ready) \in Seq(Prompts) /\ Len(Tail(ready)) = Len(ready) - 1
      /\ \A k \in 1 .. Len(ready) - 1 : Tail(ready)[k] = ready[k + 1]
  BY <1>1
<1>3. /\ lastKey \in Seq(Idents) /\ Len(lastKey) = Len(history) + 1 /\ Len(history) \in Nat
      /\ \A j \in 1 .. Len(history) : lastKey[j + 1] = history[j].prompt
  BY OnTheChain
<1>4. n \in DOMAIN Script /\ p = Script[n].prompt
  BY <1>1, <1>2
<1>5. Upcoming(n, Tail(ready)) /\ n + Len(Tail(ready)) = Len(history) + Len(ready)
  <2>1. n + Len(Tail(ready)) = Len(history) + Len(ready)
    BY <1>2, <1>3
  <2>2. ASSUME NEW k \in 1 .. Len(Tail(ready))
        PROVE  n + k \in DOMAIN Script /\ Tail(ready)[k] = Script[n + k].prompt
    <3>1. k + 1 \in 1 .. Len(ready) /\ Len(history) + (k + 1) = n + k /\ Tail(ready)[k] = ready[k + 1]
      BY <1>2, <1>3
    <3> QED
      BY <1>1, <3>1
  <2> QED
    BY <1>2, <2>1, <2>2 DEF Upcoming
<1>6. /\ KeyOf(NextKey(p), t) /\ Len(t) = n /\ t[Len(t)] = [prompt |-> p, skip |-> FALSE]
      /\ Begins(history, t)
  <2>1. KeyOf(lastKey, history) /\ FALSE \in BOOLEAN
    BY DEF ReplayInv, Present
  <2> QED
    BY <1>2, <2>1, OneMore
<1>7. /\ \A j \in 1 .. Len(history) : j \in DOMAIN Script /\ history[j].prompt = Script[j].prompt
      /\ lastKey[1] \in Seeds
  BY DEF ScriptInv, InOrder
<1> HIDE DEF p, t
<1>8. \A j \in 1 .. n : j \in DOMAIN Script /\ t[j].prompt = Script[j].prompt
  <2> SUFFICES ASSUME NEW j \in 1 .. n PROVE j \in DOMAIN Script /\ t[j].prompt = Script[j].prompt
    OBVIOUS
  <2>1. CASE j = n
    <3>1. t[j].prompt = p
      BY <1>6, <2>1
    <3> QED
      BY <1>4, <2>1, <3>1
  <2>2. CASE j \in 1 .. Len(history)
    BY <1>6, <1>7, <2>2 DEF Begins
  <2> QED
    BY <1>3, <2>1, <2>2
<1>9. /\ NextKey(p) \in Seq(Idents) /\ Len(NextKey(p)) = n + 1
      /\ \A j \in 1 .. n : NextKey(p)[j + 1] = Script[j].prompt
  BY <1>6, <1>8 DEF KeyOf
<1>10. NextKey(p)[1] = lastKey[1]
  <2>1. p \in Idents
    BY <1>2 DEF Idents
  <2> QED
    BY <1>3, <2>1 DEF NextKey
<1>11. ASSUME NEW res, Take(p, FALSE, res)
       PROVE  InOrder' /\ Len(history') = n /\ lastKey'[1] = lastKey[1]
  <2>1. history' = t /\ lastKey' = NextKey(p)
    BY <1>11 DEF Take, t
  <2> QED
    BY <1>6, <1>7, <1>8, <1>10, <2>1 DEF InOrder
<1> QED
  BY <1>2, <1>4, <1>5, <1>9, <1>10, <1>11 DEF p

(* A run that resumes a whole one finds its next call.                      *)
LEMMA WholeFinds ==
  ASSUME FanOuts, ReplayInv, PrefixInv, ScriptInv, ready # <<>>, whole
  PROVE  Found(Head(ready))
<1> DEFINE n == Len(history) + 1
           p == Head(ready)
<1>1. /\ n \in DOMAIN Script /\ NextKey(p) \in Seq(Idents) /\ Len(NextKey(p)) = n + 1
      /\ NextKey(p)[1] = lastKey[1]
      /\ \A j \in 1 .. n : NextKey(p)[j + 1] = Script[j].prompt
  BY NextCall
<1>2. /\ \A j \in DOMAIN Script : \E i \in DOMAIN queue : Len(queue[i].at) = j
      /\ \A i \in DOMAIN queue :
           /\ queue[i].status = "ok" /\ queue[i].key[1] = lastKey[1]
           /\ \A j \in 1 .. Len(queue[i].at) : queue[i].key[j + 1] = Script[j].prompt
      /\ ~missed
      /\ \A i \in DOMAIN queue : i < idx <=> Len(queue[i].at) <= Len(history)
  BY DEF ScriptInv, WholeReplay
<1>3. PICK i \in DOMAIN queue : Len(queue[i].at) = n
  BY <1>1, <1>2
<1>4. /\ \A k \in DOMAIN queue : Len(queue[k].at) \in Nat /\ k \in Nat
      /\ DOMAIN queue = 1 .. Len(queue) /\ Len(queue) \in Nat
      /\ queue[i].key \in Seq(Idents) /\ Len(queue[i].key) = n + 1
      /\ idx \in Nat \ {0} /\ Len(history) \in Nat
  BY <1>3, QueueLengths, OnTheChain DEF PrefixInv, Walked
<1> HIDE DEF p
<1>5. queue[i].key = NextKey(p)
  <2>1. ASSUME NEW j \in 1 .. n + 1 PROVE queue[i].key[j] = NextKey(p)[j]
    <3>1. CASE j = 1
      BY <1>1, <1>2, <3>1
    <3>2. CASE j # 1
      <4>1. j - 1 \in 1 .. n /\ j - 1 + 1 = j
        BY <1>4, <3>2
      <4> QED
        BY <1>1, <1>2, <1>3, <4>1
    <3> QED
      BY <3>1, <3>2
  <2> QED
    BY <1>1, <1>4, <2>1
<1>6. i \in idx .. Len(queue) /\ \A j \in idx .. i - 1 : FALSE
  <2>1. ~ (i < idx)
    BY <1>2, <1>3, <1>4
  <2>2. ASSUME NEW j \in idx .. i - 1 PROVE FALSE
    <3>1. j \in DOMAIN queue /\ j < i
      BY <1>4
    <3>2. Len(queue[j].at) < n
      BY <1>3, <3>1 DEF PrefixInv, Lined
    <3>3. j < idx
      BY <1>2, <1>4, <3>1, <3>2
    <3> QED
      BY <1>4, <3>1, <3>3
  <2> QED
    BY <1>4, <2>1, <2>2
<1>7. i \in Heads
  BY <1>2, <1>6 DEF Heads
<1> QED
  BY <1>2, <1>5, <1>7 DEF Found, Matches, p

(* And goes on in the queue behind it.                                      *)
LEMMA WholeGoesOn ==
  ASSUME FanOuts, ReplayInv, PrefixInv, ScriptInv, ready # <<>>,
         CallReplayed(Head(ready)), whole' = whole
  PROVE  WholeReplay'
<1> DEFINE n == Len(history) + 1
           p == Head(ready)
<1> SUFFICES ASSUME whole PROVE WholeReplay'
  BY DEF WholeReplay
<1>1. PICK i \in DOMAIN queue :
        /\ Matches(i, p) /\ idx' = i + 1 /\ Take(p, FALSE, "hit")
        /\ UNCHANGED <<queue, missed>>
  BY DEF CallReplayed
<1>2. /\ \A j \in DOMAIN Script : \E k \in DOMAIN queue : Len(queue[k].at) = j
      /\ \A k \in DOMAIN queue :
           /\ queue[k].status = "ok" /\ queue[k].key[1] = lastKey[1]
           /\ \A j \in 1 .. Len(queue[k].at) : queue[k].key[j + 1] = Script[j].prompt
      /\ ~missed
  BY DEF ScriptInv, WholeReplay
<1>3. Len(history') = n /\ lastKey'[1] = lastKey[1] /\ Len(NextKey(p)) = n + 1
  BY <1>1, NextCall
<1>4. queue[i].key = NextKey(p)
  BY <1>1 DEF Matches
<1>5. /\ \A k \in DOMAIN queue : Len(queue[k].at) \in Nat /\ k \in Nat
      /\ Len(queue[i].key) = Len(queue[i].at) + 1
      /\ Len(history) \in Nat
  BY QueueLengths, OnTheChain
<1>6. Len(queue[i].at) = n
  BY <1>3, <1>4, <1>5
<1>7. \A k, l \in DOMAIN queue : k < l => Len(queue[k].at) < Len(queue[l].at)
  BY DEF PrefixInv, Lined
<1>8. \A k \in DOMAIN queue : k < i + 1 <=> Len(queue[k].at) <= n
  <2> SUFFICES ASSUME NEW k \in DOMAIN queue PROVE k < i + 1 <=> Len(queue[k].at) <= n
    OBVIOUS
  <2>1. CASE k < i
    BY <1>5, <1>6, <1>7, <2>1
  <2>2. CASE k = i
    BY <1>5, <1>6, <2>2
  <2>3. CASE i < k
    BY <1>5, <1>6, <1>7, <2>3
  <2> QED
    BY <1>5, <2>1, <2>2, <2>3
<1> HIDE DEF n, p
<1> QED
  BY <1>1, <1>2, <1>3, <1>8 DEF WholeReplay


(* A record more: its call has resolved.                                    *)
LEMMA RecordResolves ==
  ASSUME ReplayInv, Accounted, NEW r, journal' = Append(journal, r), r.status = "ok",
         resolved' = resolved \cup {Script[Len(r.at)].prompt},
         \A j \in 1 .. Len(history') : \/ j \in 1 .. Len(history)
                                       \/ j = Len(r.at),
         \A c \in inFlight : c \in inFlight' \/ Len(c.at) = Len(r.at)
  PROVE  Accounted'
<1>1. journal \in Seq(RecordTypes)
  BY DEF ReplayInv, Present
<1> DEFINE end == Len(journal) + 1
<1>2. /\ end \in DOMAIN journal' /\ journal'[end] = r
      /\ \A i \in DOMAIN journal' : i \in DOMAIN journal \/ i = end
      /\ \A i \in DOMAIN journal : i \in DOMAIN journal' /\ journal'[i] = journal[i]
  BY <1>1
<1> HIDE DEF end
<1>3. \A i \in DOMAIN journal' : journal'[i].status = "ok"
  BY <1>2 DEF Accounted
<1>4. resolved' = {Script[Len(journal'[i].at)].prompt : i \in DOMAIN journal'}
  <2>1. resolved = {Script[Len(journal[i].at)].prompt : i \in DOMAIN journal}
    BY DEF Accounted
  <2> QED
    BY <1>2, <2>1
<1>5. \A j \in 1 .. Len(history') :
        \/ \E i \in DOMAIN journal' : Len(journal'[i].at) = j
        \/ \E c \in inFlight' : Len(c.at) = j
  BY <1>2 DEF Accounted
<1> QED
  BY <1>3, <1>4, <1>5 DEF Accounted

(* A continuation that replays its call.                                    *)
LEMMA HitKeepsScript ==
  ASSUME FanOuts, ReplayInv, PrefixInv, ScriptInv, ready # <<>>, CallReplayed(Head(ready)),
         Resolve(Head(ready), Tail(ready)), whole' = whole
  PROVE  ScriptInv'
<1> DEFINE n == Len(history) + 1
           p == Head(ready)
           rest == Tail(ready)
<1>1. PICK i \in DOMAIN queue :
        /\ Take(p, FALSE, "hit") /\ UNCHANGED inFlight
        /\ journal' = Append(journal,
             Record(count + 1, NextKey(p), "ok", Trail(p, FALSE), queue[i].origin))
  BY DEF CallReplayed
<1>2. /\ n \in DOMAIN Script /\ p = Script[n].prompt
      /\ Upcoming(n, rest) /\ n + Len(rest) = Len(history) + Len(ready)
      /\ InOrder' /\ Len(history') = n /\ Len(history) \in Nat
  BY <1>1, NextCall, OnTheChain
<1>3. WholeReplay'
  BY WholeGoesOn
<1>4. \A j \in DOMAIN journal : Len(journal[j].at) \in 1 .. Len(history)
  BY OnTheChain
<1>5. Past(n, resolved) /\ Script[n].prompt \notin resolved
  <2>1. \A j \in DOMAIN journal : Len(journal[j].at) # n
    BY <1>2, <1>4
  <2>2. Past(Len(history), resolved) /\ Script[n].prompt \notin resolved
    BY <1>2, <2>1, ResolvedIsPast
  <2> QED
    BY <1>2, <2>2 DEF Past
<1>6. /\ resolved' = resolved \cup {Script[n].prompt}
      /\ ready' = rest \o Listed(Woken(Script[n].prompt))
  BY <1>2 DEF Resolve
<1>7. Upcoming(n, ready') /\ Fanned(n, n + Len(ready'), resolved')
  <2>1. /\ n \in Nat /\ n \in 1 .. n /\ Len(history) \in 0 .. n
        /\ Fanned(Len(history), n + Len(rest), resolved)
    BY <1>2 DEF ScriptInv
  <2> HIDE DEF n, rest
  <2> QED
    BY <1>2, <1>5, <1>6, <2>1, OneMoreResolves
<1>8. Accounted'
  <2> DEFINE r == Record(count + 1, NextKey(p), "ok", Trail(p, FALSE), queue[i].origin)
  <2>1. Len(Trail(p, FALSE)) = n
    <3>1. history' = Trail(p, FALSE)
      BY <1>1 DEF Take
    <3> QED
      BY <1>2, <3>1
  <2>2. r.status = "ok" /\ Len(r.at) = n
    BY <2>1 DEF Record
  <2>3. \A j \in 1 .. Len(history') : j \in 1 .. Len(history) \/ j = n
    BY <1>2
  <2> HIDE DEF r, n
  <2> QED
    BY <1>1, <1>6, <2>2, <2>3, RecordResolves DEF ScriptInv, r
<1> QED
  BY <1>2, <1>3, <1>7, <1>8 DEF ScriptInv

(* A continuation whose call goes live: this run resumes no whole one.      *)
LEMMA LiveKeepsScript ==
  ASSUME FanOuts, ReplayInv, PrefixInv, ScriptInv, ready # <<>>, CallLive(Head(ready)),
         ready' = Tail(ready), UNCHANGED <<resolved, whole>>
  PROVE  ScriptInv'
<1> DEFINE n == Len(history) + 1
           p == Head(ready)
           c == [seq |-> count + 1, key |-> NextKey(p), at |-> Trail(p, FALSE)]
<1>1. Take(p, FALSE, "live") /\ UNCHANGED journal /\ inFlight' = inFlight \cup {c}
  BY DEF CallLive, GoLive
<1>2. /\ n \in DOMAIN Script
      /\ Upcoming(n, ready') /\ n + Len(ready') = Len(history) + Len(ready)
      /\ InOrder' /\ Len(history') = n /\ Len(history) \in Nat
  BY <1>1, NextCall, OnTheChain
<1>3. ~whole
  BY WholeFinds DEF CallLive
<1>4. Fanned(n, n + Len(ready'), resolved')
  <2> DEFINE m == n + Len(ready')
  <2>1. Fanned(Len(history), m, resolved') /\ Len(ready') \in Nat
    BY <1>2 DEF ScriptInv, Upcoming
  <2>2. n \in 0 .. m /\ Len(Script) \in Nat
    BY <1>2, <2>1, FanFacts
  <2>3. m > 0 => First[m] <= n + 1
    <3>1. m \in DOMAIN Script => First[m] \in Nat
      BY FanFacts
    <3>2. DOMAIN Script = 1 .. Len(Script)
      BY FanFacts
    <3> HIDE DEF m
    <3>3. m > 0 => m \in DOMAIN Script /\ First[m] <= Len(history) + 1
      BY <2>1, <2>2, <3>2 DEF Fanned
    <3> QED
      BY <1>2, <3>1, <3>3
  <2> HIDE DEF m
  <2>4. Fanned(n, m, resolved')
    BY <2>1, <2>2, <2>3 DEF Fanned
  <2> QED
    BY <2>4 DEF m
<1>5. Accounted'
  <2>1. Len(c.at) = n
    <3>1. history' = Trail(p, FALSE)
      BY <1>1 DEF Take
    <3> QED
      BY <1>2, <3>1
  <2>2. \A j \in 1 .. Len(history') : j \in 1 .. Len(history) \/ j = n
    BY <1>2
  <2> HIDE DEF c, n
  <2> QED
    BY <1>1, <2>1, <2>2 DEF ScriptInv, Accounted
<1> QED
  BY <1>2, <1>3, <1>4, <1>5 DEF ScriptInv, WholeReplay

(* A worker is done: its call resolves.                                     *)
LEMMA DoneKeepsScript ==
  ASSUME FanOuts, ReplayInv, PrefixInv, ScriptInv, WorkerDone
  PROVE  ScriptInv'
<1>1. PICK c \in inFlight : Settle(c, "ok") /\ Resolve(c.key[Len(c.key)], ready)
  BY DEF WorkerDone
<1> DEFINE n == Len(history)
           q == Len(c.at)
           r == Record(c.seq, c.key, "ok", c.at, c.at)
<1>2. /\ inFlight' = inFlight \ {c} /\ journal' = Append(journal, r)
      /\ UNCHANGED <<lastKey, history, queue, idx, missed, whole>> /\ ready = <<>>
  BY <1>1 DEF Settle, cacheVars, WorkerDone
<1>3. /\ q \in 1 .. n /\ n \in Nat /\ c.key[Len(c.key)] = history[q].prompt
      /\ \A i \in DOMAIN journal : Len(journal[i].at) # q
  BY OnTheChain
<1>4. q \in DOMAIN Script /\ history[q].prompt = Script[q].prompt
  BY <1>3 DEF ScriptInv, InOrder
<1>5. /\ resolved' = resolved \cup {Script[q].prompt}
      /\ ready' = ready \o Listed(Woken(Script[q].prompt))
  BY <1>1, <1>3, <1>4 DEF Resolve
<1>6. Past(n, resolved) /\ Script[q].prompt \notin resolved
  BY <1>3, <1>4, ResolvedIsPast
<1>7. Upcoming(n, ready') /\ Fanned(n, n + Len(ready'), resolved')
  <2>1. Upcoming(n, ready) /\ Fanned(n, n + Len(ready), resolved) /\ n \in 0 .. n
    BY <1>3 DEF ScriptInv
  <2> HIDE DEF n, q
  <2> QED
    BY <1>3, <1>5, <1>6, <2>1, OneMoreResolves
<1>8. Accounted'
  <2>1. r.status = "ok" /\ Len(r.at) = q
    BY DEF Record
  <2>2. \A j \in 1 .. Len(history') : j \in 1 .. Len(history)
    BY <1>2
  <2>3. \A d \in inFlight : d \in inFlight' \/ Len(d.at) = Len(r.at)
    BY <1>2, <2>1
  <2> HIDE DEF r
  <2> QED
    BY <1>2, <1>5, <2>1, <2>2, <2>3, RecordResolves DEF ScriptInv
<1> QED
  BY <1>2, <1>7, <1>8 DEF ScriptInv, InOrder, WholeReplay

(* A run that came to its end has a record of each call of the script.      *)
LEMMA EndedIsWhole ==
  ASSUME FanOuts, ReplayInv, PrefixInv, ScriptInv, Ended
  PROVE  \A j \in DOMAIN Script : \E i \in DOMAIN journal : Len(journal[i].at) = j
<1> DEFINE n == Len(history)
<1>1. ready = <<>> /\ inFlight = {}
  BY DEF Ended
<1>2. \A j \in 1 .. n : \E i \in DOMAIN journal : Len(journal[i].at) = j
  BY <1>1 DEF ScriptInv, Accounted
<1>3. n \in Nat /\ Len(Script) \in Nat /\ DOMAIN Script = 1 .. Len(Script)
  BY OnTheChain, FanFacts
<1>4. Fanned(n, n, resolved)
  <2>1. Fanned(n, n + Len(ready), resolved) /\ n + Len(ready) = n
    BY <1>1, <1>3 DEF ScriptInv
  <2> QED
    BY <2>1
<1>5. n = Len(Script)
  <2> SUFFICES ASSUME n # Len(Script) PROVE FALSE
    OBVIOUS
  <2>1. n > 0 /\ n < Len(Script)
    BY <1>3, <1>4 DEF Fanned
  <2>2. PICK j \in First[n] .. n : Script[j].prompt \notin resolved
    BY <1>4, <2>1 DEF Fanned
  <2>3. j \in 1 .. n
    <3>1. n \in DOMAIN Script
      BY <1>3, <2>1
    <3>2. First[n] \in 1 .. Len(Script)
      BY <1>3, <3>1, FanFacts
    <3> QED
      BY <1>3, <3>2
  <2>4. PICK i \in DOMAIN journal : Len(journal[i].at) = j
    BY <1>2, <2>3
  <2>5. Script[j].prompt \in resolved
    BY <2>4 DEF ScriptInv, Accounted
  <2> QED
    BY <2>2, <2>5
<1> QED
  BY <1>2, <1>3, <1>5

(* Another run resumes with the same script.                                *)
LEMMA ResumeKeepsScript ==
  ASSUME FanOuts, ReplayInv, PrefixInv, ScriptInv, ResumeSame
  PROVE  ScriptInv'
<1>1. PICK torn \in BOOLEAN :
        /\ Resume(lastKey[1], torn) /\ ready' = Listed(Opening) /\ resolved' = {}
        /\ whole' = (Ended /\ ~torn)
  BY DEF ResumeSame
<1>2. /\ history' = <<>> /\ journal' = <<>> /\ inFlight' = {} /\ lastKey' = <<lastKey[1]>>
      /\ idx' = 1 /\ missed' = FALSE
  BY <1>1 DEF Resume, SeedKey
<1>3. InOrder' /\ Accounted'
  BY <1>1, <1>2 DEF ScriptInv, InOrder, Accounted
<1>4. Len(history') = 0 /\ lastKey'[1] = lastKey[1]
  BY <1>2
<1>5. Upcoming(Len(history'), ready') /\ Fanned(Len(history'), Len(history') + Len(ready'), resolved')
  BY <1>1, <1>4, FirstDue
<1>6. ASSUME whole' PROVE WholeReplay'
  <2>1. Ended /\ queue' = Sorted(journal) /\ journal \in Seq(RecordTypes)
    BY <1>1, <1>6 DEF Resume, ReplayInv, Present
  <2>2. /\ Len(queue') = Len(journal) /\ queue' \in Seq(RecordTypes)
        /\ \A n \in DOMAIN journal : \E i \in DOMAIN journal : queue'[n] = journal[i]
        /\ \A i \in DOMAIN journal : \E n \in DOMAIN journal : queue'[n] = journal[i]
    BY <2>1, SortedIs
  <2>3. DOMAIN queue' = DOMAIN journal
    BY <2>1, <2>2
  <2>4. \A j \in DOMAIN Script : \E i \in DOMAIN queue' : Len(queue'[i].at) = j
    <3> SUFFICES ASSUME NEW j \in DOMAIN Script
                 PROVE  \E i \in DOMAIN queue' : Len(queue'[i].at) = j
      OBVIOUS
    <3>1. PICK k \in DOMAIN journal : Len(journal[k].at) = j
      BY <2>1, EndedIsWhole
    <3>2. PICK i \in DOMAIN journal : queue'[i] = journal[k]
      BY <2>2
    <3> QED
      BY <2>3, <3>1, <3>2
  <2>5. ASSUME NEW i \in DOMAIN queue'
        PROVE  /\ queue'[i].status = "ok" /\ queue'[i].key[1] = lastKey'[1]
               /\ \A j \in 1 .. Len(queue'[i].at) : queue'[i].key[j + 1] = Script[j].prompt
               /\ i < idx' <=> Len(queue'[i].at) <= Len(history')
    <3>1. PICK k \in DOMAIN journal : queue'[i] = journal[k]
      BY <2>2, <2>3
    <3>2. /\ lastKey \in Seq(Idents) /\ Len(lastKey) = Len(history) + 1 /\ Len(history) \in Nat
          /\ \A j \in 1 .. Len(history) : lastKey[j + 1] = history[j].prompt
          /\ Len(journal[k].at) \in 1 .. Len(history)
          /\ \A j \in 1 .. Len(journal[k].at) + 1 : journal[k].key[j] = lastKey[j]
      BY OnTheChain
    <3>3. \A j \in 1 .. Len(journal[k].at) : journal[k].key[j + 1] = Script[j].prompt
      <4> SUFFICES ASSUME NEW j \in 1 .. Len(journal[k].at)
                   PROVE  journal[k].key[j + 1] = Script[j].prompt
        OBVIOUS
      <4>1. j \in 1 .. Len(history) /\ j + 1 \in 1 .. Len(journal[k].at) + 1
        BY <3>2
      <4> QED
        BY <3>2, <4>1 DEF ScriptInv, InOrder
    <3>4. journal[k].key[1] = lastKey[1]
      BY <3>2
    <3>5. i \in Nat \ {0}
      <4>1. DOMAIN journal = 1 .. Len(journal) /\ Len(journal) \in Nat
        BY <2>1
      <4> QED
        BY <2>3, <4>1
    <3> QED
      BY <1>2, <1>4, <3>1, <3>2, <3>3, <3>4, <3>5 DEF ScriptInv, Accounted
  <2> QED
    BY <1>2, <2>4, <2>5 DEF WholeReplay
<1>7. WholeReplay'
  BY <1>6 DEF WholeReplay
<1> QED
  BY <1>3, <1>5, <1>7 DEF ScriptInv

(* Every step keeps the invariant.                                          *)
LEMMA ScriptInvNext ==
  FanOuts /\ ReplayInv /\ PrefixInv /\ ScriptInv /\ [ScriptNext]_scriptVars => ScriptInv'
<1> SUFFICES ASSUME FanOuts, ReplayInv, PrefixInv, ScriptInv, [ScriptNext]_scriptVars
             PROVE  ScriptInv'
  OBVIOUS
<1>1. CASE Continue
  BY <1>1, HitKeepsScript, LiveKeepsScript DEF Continue
<1>2. CASE WorkerDone
  BY <1>2, DoneKeepsScript
<1>3. CASE ResumeSame
  BY <1>3, ResumeKeepsScript
<1>4. CASE UNCHANGED scriptVars
  BY <1>4 DEF scriptVars, replayVars, runVars, cacheVars, ScriptInv, InOrder, Accounted, WholeReplay
<1> QED
  BY <1>1, <1>2, <1>3, <1>4 DEF ScriptNext

(* The same script and the same arguments give a full cache hit, if the     *)
(* script awaits each agent() and parallel() before the next: in whatever   *)
(* order the workers of the earlier runs finished, and however often those  *)
(* were stopped, crashed and resumed before one came to its end.            *)
THEOREM SameScriptIsFullHit ==
  ASSUME FanOuts
  PROVE  ScriptSpec => []SameScriptFullHit
<1> DEFINE Inv == ReplayInv /\ PrefixInv /\ ScriptInv
<1>1. ScriptInit => Inv
  BY ReplayInvInit, PrefixInvInit, ScriptInvInit DEF ScriptInit
<1>2. Inv /\ [ScriptNext]_scriptVars => Inv'
  BY ScriptStep, ReplayInvNext, PrefixInvNext, ScriptInvNext
<1>3. Inv => SameScriptFullHit
  BY DEF ScriptInv, WholeReplay, SameScriptFullHit
<1> HIDE DEF Inv
<1> QED
  BY <1>1, <1>2, <1>3, PTL DEF ScriptSpec


-----------------------------------------------------------------------------
(* Neither a seq nor a key appears twice in a journal, so that sorting it *)
(* has one result and a key names one call: JournalWriter.append records  *)
(* each call once, although calls settle in any order.                    *)
THEOREM JournalIsUnambiguous == ReplaySpec => []JournalUnambiguous
<1>1. ReplayInit => ReplayInv /\ PrefixInv
  BY ReplayInvInit, PrefixInvInit
<1>2. (ReplayInv /\ PrefixInv) /\ [ReplayNext]_replayVars => (ReplayInv /\ PrefixInv)'
  BY ReplayInvNext, PrefixInvNext
<1>3. ReplayInv /\ PrefixInv => JournalUnambiguous
  <2> SUFFICES ASSUME ReplayInv, PrefixInv, NEW i \in 1 .. Len(journal), NEW j \in 1 .. Len(journal),
                      journal[i].seq = journal[j].seq \/ journal[i].key = journal[j].key, i # j
               PROVE  FALSE
    BY DEF JournalUnambiguous
  <2>1. journal \in Seq(RecordTypes) /\ i \in DOMAIN journal /\ j \in DOMAIN journal
    BY DEF ReplayInv, Present
  <2>2. journal[i] \in RecordTypes /\ journal[j] \in RecordTypes
    BY <2>1
  <2>3. journal[i].seq \in Nat /\ journal[j].seq \in Nat
    BY <2>2 DEF RecordTypes
  <2>4. /\ Len(journal[i].at) \in 1 .. Len(history) /\ Len(journal[j].at) \in 1 .. Len(history)
        /\ Len(journal[i].key) = Len(journal[i].at) + 1
        /\ Len(journal[j].key) = Len(journal[j].at) + 1
    BY <2>1, OnTheChain
  <2>5. Spaced(journal[i], journal[j])
    BY <2>1 DEF PrefixInv, Numbered
  <2> QED
    BY <2>3, <2>4, <2>5 DEF Spaced, Before
<1> QED
  BY <1>1, <1>2, <1>3, PTL DEF ReplaySpec

(* The first call that runs live ends the replay: no later call of the run  *)
(* gets an old result, which is what prefixMissed is for.                   *)
THEOREM ReplayEndsAtFirstMiss == ReplaySpec => []NoHitAfterMiss
<1> DEFINE Inv == ReplayInv /\ PrefixInv /\ NoHitAfterMiss
<1>1. ReplayInit => Inv
  <2> SUFFICES ASSUME ReplayInit PROVE NoHitAfterMiss
    BY ReplayInvInit, PrefixInvInit
  <2> QED
    BY DEF ReplayInit, NoHitAfterMiss
<1>2. Inv /\ [ReplayNext]_replayVars => Inv'
  <2> SUFFICES ASSUME Inv, [ReplayNext]_replayVars PROVE NoHitAfterMiss'
    BY ReplayInvNext, PrefixInvNext
  <2>0. /\ how \in Seq({"skip", "hit", "live"})
        /\ missed <=> \E j \in 1 .. Len(how) : how[j] = "live"
        /\ \A j, k \in 1 .. Len(how) : j < k /\ how[j] = "live" => how[k] # "hit"
    BY DEF PrefixInv, Walked, NoHitAfterMiss
  <2>1. ASSUME NEW res \in {"skip", "hit", "live"}, how' = Append(how, res), res = "hit" => ~missed
        PROVE  NoHitAfterMiss'
    <3>1. /\ Len(how') = Len(how) + 1 /\ how'[Len(how) + 1] = res /\ Len(how) \in Nat
          /\ \A j \in 1 .. Len(how) : how'[j] = how[j]
      BY <2>0, <2>1
    <3> SUFFICES ASSUME NEW j \in 1 .. Len(how'), NEW k \in 1 .. Len(how'),
                        j < k, how'[j] = "live"
                 PROVE  how'[k] # "hit"
      BY DEF NoHitAfterMiss
    <3>2. j \in 1 .. Len(how) /\ how[j] = "live" /\ missed
      BY <2>0, <3>1
    <3>3. CASE k = Len(how) + 1
      BY <2>1, <3>1, <3>2, <3>3
    <3>4. CASE k \in 1 .. Len(how)
      BY <2>0, <3>1, <3>2, <3>4
    <3> QED
      BY <3>1, <3>3, <3>4
  <2>2. ASSUME NEW p \in Prompts, Call(p) PROVE NoHitAfterMiss'
    <3>1. CASE CallSkipped(p)
      <4>1. how' = Append(how, "skip") /\ "skip" \in {"skip", "hit", "live"}
        BY <3>1 DEF CallSkipped, Take
      <4> QED
        BY <2>1, <4>1
    <3>2. CASE CallReplayed(p)
      <4>1. how' = Append(how, "hit") /\ ~missed /\ "hit" \in {"skip", "hit", "live"}
        BY <3>2 DEF CallReplayed, Matches, Take
      <4> QED
        BY <2>1, <4>1
    <3>3. CASE GoLive(p)
      <4>1. how' = Append(how, "live") /\ "live" \in {"skip", "hit", "live"}
        BY <3>3 DEF GoLive, Take
      <4> QED
        BY <2>1, <4>1
    <3> QED
      BY <2>2, <3>1, <3>2, <3>3 DEF Call, CallLive, CallUnreadable
  <2>3. CASE how' = how
    BY <2>3 DEF NoHitAfterMiss
  <2>4. ASSUME NEW seed, NEW torn, Resume(seed, torn) PROVE NoHitAfterMiss'
    BY <2>4 DEF Resume, NoHitAfterMiss
  <2>5. [ReplayNext]_replayVars =>
          \/ \E p \in Prompts : Call(p)
          \/ how' = how
          \/ \E seed \in Seeds, torn \in BOOLEAN : Resume(seed, torn)
    BY DEF ReplayNext, CallMalformed, Vanish, Settle, replayVars, runVars
  <2> QED
    BY <2>2, <2>3, <2>4, <2>5
<1>3. Inv => NoHitAfterMiss
  OBVIOUS
<1> HIDE DEF Inv
<1> QED
  BY <1>1, <1>2, <1>3, PTL DEF ReplaySpec
=============================================================================
