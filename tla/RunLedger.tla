------------------------------- MODULE RunLedger -------------------------------
(***************************************************************************)
(* The run state of a benchmark run (bench/src/shared/run-state.ts and       *)
(* run-state-ledger.ts): an append-only ledger of records in segment files,  *)
(* and a head file that says how much of the ledger is committed.  Whoever   *)
(* holds the run's lease writes it, one file operation at a time; a process  *)
(* may crash between any two, and any operation may fail.                    *)
(*                                                                          *)
(* The data of a revision is the history it seals: the sequence of the       *)
(* processes that committed the revisions so far.  It stands for the state,  *)
(* the revision number and the hash chain at once.  A segment is a sequence  *)
(* of tokens (records, newlines, a torn record), so that the byte counts of  *)
(* the code are lengths here.                                                *)
(***************************************************************************)
EXTENDS BenchLock, SequencesExt

CONSTANTS
  MaxBytes,    \* segmentMaximumBytes, in tokens
  Scenes       \* bound: the processes that take no part, the revisions committed, and the
               \* history of a v2 run, <<>> for a run made as v3

ASSUME LedgerAssumption ==
  /\ MaxBytes \in Nat \ {0}
  /\ Scenes \subseteq [gone : SUBSET Procs, revisions : Nat, legacy : Seq(Procs)]

NoHead == [kind |-> "absent", root |-> <<>>, seg |-> 0, bytes |-> 0]

VARIABLES
  scene,       \* the scene played
  file,        \* run.json: absent, a v2 monolith, or the v3 head
  segs,        \* the segments in the ledger directory, oldest first
  temp,        \* the segments of a migration, or <<>>
  mem,         \* the head each process has materialized, or NoHead
  work,        \* the step of the commit each process is in
  acked        \* history variable: the longest history reported committed

ledgerVars == <<scene, file, segs, temp, mem, work, acked>>
vars == <<lockVars, ledgerVars>>

Record(root, part, of) == [root |-> root, part |-> part, of |-> of]
Newline == Record(<<>>, 0, 0)
Torn    == Record(<<>>, 1, 0)
IsRecord(t) == t.of > 0

-----------------------------------------------------------------------------
(* Replay *)

\* inspectOrphanSegment: at most one record, whole or not, that nothing follows.
OrphanFine(seg) == seg = <<>> \/ (Len(seg) = 1 /\ seg[1] # Newline)

\* listLedgerSegments: the committed segments and at most one orphan.
Listed(head) ==
  \/ Len(segs) = head.seg
  \/ Len(segs) = head.seg + 1 /\ OrphanFine(segs[head.seg + 1])

\* replaySegmentLines: records, each but the last of the active segment ended by a newline.
Alternates(seg, bytes) ==
  \A j \in 1..bytes : IF j % 2 = 1 THEN IsRecord(seg[j]) ELSE seg[j] = Newline

InteriorFine(seg) == Len(seg) > 0 /\ Alternates(seg, Len(seg)) /\ Len(seg) % 2 = 0

\* After the committed bytes: nothing, or a newline and one unfinished record.
SuffixFine(seg, bytes) ==
  /\ Len(seg) - bytes <= 2
  /\ Len(seg) > bytes => seg[bytes + 1] = Newline
  /\ Len(seg) > bytes + 1 => seg[bytes + 2] # Newline

ActiveFine(seg, bytes) ==
  /\ 0 < bytes /\ bytes <= Len(seg)
  /\ Alternates(seg, bytes) /\ SuffixFine(seg, bytes)

\* The committed bytes of a segment.
Extent(head, i) == IF i < head.seg THEN Len(segs[i]) ELSE head.bytes

\* The record before the one at j in segment i, and the last one that is committed.
Before(i, j) == IF j > 1 THEN segs[i][j - 2] ELSE segs[i - 1][Len(segs[i - 1]) - 1]
LastRecord(head) == segs[head.seg][head.bytes]

\* The hash chain: a record continues its revision or begins the next one.
Follows(a, b) ==
  /\ b.root # <<>>
  /\ \/ b.root = a.root /\ b.of = a.of /\ b.part = a.part + 1
     \/ a.part = a.of /\ b.part = 1 /\ Front(b.root) = a.root

Chained(head) ==
  /\ segs[1][1].part = 1
  /\ \A i \in 1..head.seg : \A j \in 1..Extent(head, i) :
       IsRecord(segs[i][j]) /\ (i > 1 \/ j > 1) => Follows(Before(i, j), segs[i][j])

\* replayLedger succeeds and ends where the head says.
Readable(head) ==
  /\ head.kind = "v3" /\ Listed(head)
  /\ \A i \in 1..(head.seg - 1) : InteriorFine(segs[i])
  /\ ActiveFine(segs[head.seg], head.bytes) /\ Chained(head)
  /\ IsRecord(LastRecord(head)) /\ LastRecord(head).part = LastRecord(head).of
  /\ LastRecord(head).root = head.root

\* The history a load returns.
Replayed ==
  CASE file.kind = "v3" -> LastRecord(file).root
    [] file.kind = "v2" -> file.root
    [] OTHER            -> <<>>

-----------------------------------------------------------------------------
Idle == "idle"

Init ==
  /\ scene \in Scenes /\ LockStart(scene.gone)
  /\ file = IF scene.legacy = <<>> THEN NoHead
            ELSE [kind |-> "v2", root |-> scene.legacy, seg |-> 0, bytes |-> 0]
  /\ segs = <<>> /\ temp = <<>>
  /\ mem = [p \in Procs |-> NoHead]
  /\ work = [p \in Procs |-> Idle]
  /\ acked = <<>>

\* A step of the store, under the lease.
Works(p, from, to) ==
  /\ stage[p] = "held" /\ assertHeld(p)
  /\ work[p] = from /\ work' = [work EXCEPT ![p] = to]
  /\ UNCHANGED <<lockVars, scene>>

\* Mutant: what was materialized once is trusted.
\* Every operation of the store first loads what is committed, unless what it has
\* materialized is still what the files say.
CurrentOnceLoaded(p) == mem[p] # NoHead
Current(p) == mem[p] # NoHead /\ mem[p] = file

Load(p) ==
  /\ Readable(file) /\ ~Current(p)
  /\ Works(p, Idle, Idle)
  /\ mem' = [mem EXCEPT ![p] = file]
  /\ UNCHANGED <<file, segs, temp, acked>>

-----------------------------------------------------------------------------
(* appendRunStateRevision *)

Root(p) == Append(mem[p].root, p)

\* A newline and the record would not fit.
Rotates(head) == head.bytes + 2 > MaxBytes

\* Mutant: the newline between two records is not counted.
NewHeadNoNewline(p) ==
  [kind |-> "v3", root |-> Root(p),
   seg   |-> IF Rotates(mem[p]) THEN mem[p].seg + 1 ELSE mem[p].seg,
   bytes |-> IF Rotates(mem[p]) THEN 1 ELSE mem[p].bytes + 1]
NewHead(p) ==
  [kind |-> "v3", root |-> Root(p),
   seg   |-> IF Rotates(mem[p]) THEN mem[p].seg + 1 ELSE mem[p].seg,
   bytes |-> IF Rotates(mem[p]) THEN 1 ELSE mem[p].bytes + 2]

Begin(p) ==
  /\ Current(p) /\ Listed(mem[p]) /\ Len(mem[p].root) < scene.revisions
  /\ Works(p, Idle, "clean")
  /\ UNCHANGED <<file, segs, temp, mem, acked>>

OrphanGone(p) == SubSeq(segs, 1, mem[p].seg)

RemoveOrphan(p) ==
  /\ Works(p, "clean", "truncate")
  /\ segs' = OrphanGone(p)
  /\ UNCHANGED <<file, temp, mem, acked>>

\* Mutant: the unfinished record of a crashed append is kept.
CutNothing(p) == segs[mem[p].seg]
CutBack(p) == SubSeq(segs[mem[p].seg], 1, mem[p].bytes)

Truncate(p) ==
  /\ Works(p, "truncate", IF Rotates(mem[p]) THEN "rotate" ELSE "append")
  /\ segs' = [segs EXCEPT ![mem[p].seg] = CutBack(p)]
  /\ UNCHANGED <<file, temp, mem, acked>>

\* A new segment: the old one is closed with a newline before the new file exists.
Rotate(p) ==
  \/ /\ Works(p, "rotate", "create")
     /\ segs' = [segs EXCEPT ![mem[p].seg] = Append(@, Newline)]
     /\ UNCHANGED <<file, temp, mem, acked>>
  \/ /\ Works(p, "create", "append")
     /\ segs' = Append(segs, <<>>)
     /\ UNCHANGED <<file, temp, mem, acked>>

\* One write of a newline and the record, or of the record alone in a new segment;
\* what is on the disk when the process dies in it is any part of it.
WriteRecord(p, whole) ==
  LET gap == IF Rotates(mem[p]) THEN <<>> ELSE <<Newline>>
      rec == IF whole THEN Record(Root(p), 1, 1) ELSE Torn
  IN /\ Works(p, "append", IF whole THEN "publish" ELSE "torn")
     /\ \E done \in {gap, gap \o <<rec>>} :
          /\ whole => done = gap \o <<rec>>
          /\ segs' = [segs EXCEPT ![Len(segs)] = @ \o done]
     /\ UNCHANGED <<file, temp, mem, acked>>

\* publishHead: the rename is the commit.
Publish(p) ==
  /\ Works(p, "publish", "delimit")
  /\ file' = NewHead(p)
  /\ UNCHANGED <<segs, temp, mem, acked>>

\* The newline after the committed record, and the answer to the caller.
Acknowledge(p) ==
  /\ Works(p, "delimit", Idle)
  /\ segs' = [segs EXCEPT ![file.seg] = Append(@, Newline)]
  /\ mem' = [mem EXCEPT ![p] = file]
  /\ acked' = file.root
  /\ UNCHANGED <<file, temp>>

-----------------------------------------------------------------------------
(* initializeRunStateLedger and migrateLegacyRunStateLedger *)

\* createLedger: a new state is one record; a state with a history is a snapshot and
\* a delta, in a segment each when they do not fit in one.
Snapshot(root) ==
  LET first == Record(root, 1, 2) second == Record(root, 2, 2)
  IN IF Len(root) < 2 THEN << <<Record(root, 1, 1)>> >>
     ELSE IF MaxBytes >= 3 THEN << <<first, Newline, second>> >>
     ELSE << <<first, Newline>>, <<second>> >>

HeadOf(root, ledger) ==
  [kind |-> "v3", root |-> root, seg |-> Len(ledger), bytes |-> Len(Last(ledger))]

\* A v3 run is laid out in place: no head refers to it before it is complete.
Initialize(p) ==
  \/ /\ file.kind = "absent" /\ segs = <<>> /\ scene.revisions > 0
     /\ Works(p, Idle, "layout")
     /\ segs' = << <<>> >>
     /\ UNCHANGED <<file, temp, mem, acked>>
  \/ /\ Works(p, "layout", "first")
     /\ segs' = Snapshot(<<p>>)
     /\ UNCHANGED <<file, temp, mem, acked>>
  \/ /\ Works(p, "first", "delimit")
     /\ file' = HeadOf(<<p>>, segs)
     /\ UNCHANGED <<segs, temp, mem, acked>>

\* sameMigrationLedger
SameLedger == temp = segs

\* A v2 run is laid out aside and renamed into place; a directory a crashed
\* migration left is removed first, or compared when it was already renamed.
Migrate(p) ==
  \/ /\ file.kind = "v2"
     /\ Works(p, Idle, "layaside")
     /\ temp' = <<>>
     /\ UNCHANGED <<file, segs, mem, acked>>
  \/ /\ Works(p, "layaside", "rename")
     /\ temp' = Snapshot(file.root)
     /\ UNCHANGED <<file, segs, mem, acked>>
  \/ /\ segs = <<>> \/ SameLedger
     /\ Works(p, "rename", "head")
     /\ segs' = temp /\ temp' = <<>>
     /\ UNCHANGED <<file, mem, acked>>
  \/ /\ Works(p, "head", "delimit")
     /\ file' = HeadOf(file.root, segs)
     /\ UNCHANGED <<segs, temp, mem, acked>>

-----------------------------------------------------------------------------
\* An operation throws: what was materialized is dropped, and so is the temporary
\* directory of a migration.
Fails(p) ==
  /\ work[p] # Idle /\ Works(p, work[p], Idle)
  /\ mem' = [mem EXCEPT ![p] = NoHead]
  /\ temp' = IF work[p] \in {"layaside", "rename"} THEN <<>> ELSE temp
  /\ UNCHANGED <<file, segs, acked>>

StoreStep(p) ==
  \/ Load(p) \/ Begin(p) \/ RemoveOrphan(p) \/ Truncate(p) \/ Rotate(p)
  \/ \E whole \in BOOLEAN : WriteRecord(p, whole)
  \/ Publish(p) \/ Acknowledge(p) \/ Initialize(p) \/ Migrate(p) \/ Fails(p)

\* The lease is acquired before and released after the store is used.
LockStep(p) ==
  /\ \/ Acquiring(p)
     \/ work[p] = Idle /\ Release(p)
     \/ Crash(p)
  /\ UNCHANGED ledgerVars

Next == \E p \in Procs : LockStep(p) \/ StoreStep(p)

Spec == Init /\ [][Next]_vars

-----------------------------------------------------------------------------
(* Properties *)

TypeOK ==
  /\ LockTypeOK
  /\ file.kind \in {"absent", "v2", "v3"} /\ file.root \in Seq(Procs)
  /\ \A p \in Procs : mem[p] = NoHead \/ mem[p].kind = "v3"

\* Wherever a writer dies or fails, the ledger it leaves can be replayed by the
\* next one: no crash makes a run unreadable.
AlwaysReadable == file.kind = "v3" => Readable(file)

\* The ledger is a durable log that the next writer can always read: one rename
\* commits one revision, nothing else that happens to the files is visible, and what
\* a writer was told is committed stays so (LogKeepsAcknowledged in HarnessProofs).
Log == INSTANCE DurableLog WITH Author <- Procs, hist <- Replayed
LogSpec == Log!DSpec /\ [][AlwaysReadable']_vars
=============================================================================
