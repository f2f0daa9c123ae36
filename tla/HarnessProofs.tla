----------------------------- MODULE HarnessProofs -----------------------------
(***************************************************************************)
(* What is proved of the benchmark harness.                                *)
(*   - The lease: whoever holds a run's lock file owns it, and it is whole *)
(*     (LockInv, the invariant of the lock's file and the recovery of it). *)
(*   - The ledger is a durable log: recovery after any crash yields every  *)
(*     acknowledged commit (LedgerInv: the files are readable at every     *)
(*     instant, and the holder finds what it needs at each of its steps).  *)
(*   - No process of the benchmark is forgotten (ProcessesInv).            *)
(*   - A suite's pointer names published inputs (PrepInv).                 *)
(***************************************************************************)
EXTENDS RunLedger, BenchProcesses, PreparedInputs, SequenceTheorems, TLAPS

(* Only the owner of the guard recovers.                                    *)
GuardOwned == \A p \in Procs : stage[p] \in Guarding => guard = p

(* The file is there from its creation on, and whole once it is written.    *)
FileOwned ==
  \A p \in Procs :
    /\ stage[p] \in {"writing", "rewriting"} => lock = [owner |-> p, whole |-> FALSE]
    /\ stage[p] \in Holding => lock = [owner |-> p, whole |-> TRUE]

\* Only a process's file is ever there.
OwnerIsProcess == lock # Free => lock.owner \in Procs

(* What is about to be unlinked belongs to a process seen dead.             *)
StaleIsDead ==
  \A p \in Procs :
    /\ stage[p] \in {"observed", "unlinking"} =>
         stale[p] \in Procs /\ stage[stale[p]] = "dead"
    /\ stage[p] = "unlinking" => lock = [owner |-> stale[p], whole |-> TRUE]

\* The inductive invariant of the lease.
LockInv == LockTypeOK /\ GuardOwned /\ FileOwned /\ OwnerIsProcess /\ StaleIsDead

(* The invariant holds whoever is dead at first.                            *)
LEMMA LockStarts ==
  ASSUME NEW gone, LockStart(gone)
  PROVE  LockInv
<1>1. Nobody \notin Procs
  BY NobodyAssumption
<1> QED
  BY <1>1 DEF LockStart, LockInv, LockTypeOK, GuardOwned, FileOwned, OwnerIsProcess,
              StaleIsDead, Free, Guarding, Holding, Stages

\* What the lock's file may hold.
LockFiles == [owner : Procs \cup {Nobody}, whole : BOOLEAN]

(* What the steps write into the lock file has the type of one.             *)
LEMMA LockFilesTyped ==
  /\ Free \in LockFiles
  /\ \A p \in Procs : [owner |-> p, whole |-> FALSE] \in LockFiles
BY DEF LockFiles, Free

(* Each step of acquiring, releasing or dying keeps it.                     *)
LEMMA LockSteps ==
  ASSUME LockInv, NEW p \in Procs, Acquiring(p) \/ Release(p) \/ Crash(p)
  PROVE  LockInv'
<1> USE NobodyAssumption
<1> USE DEF LockInv, LockTypeOK, GuardOwned, FileOwned, OwnerIsProcess, StaleIsDead,
            Goes, Free, Guarding, Holding, Stages
<1>1. CASE Create(p)
  <2>1. LockTypeOK'
    <3>1. lock' \in LockFiles
      <4>1. lock' \in {lock, Free, [owner |-> p, whole |-> FALSE]}
        BY <1>1 DEF Create
      <4>2. lock \in LockFiles
        BY DEF LockFiles
      <4> QED
        BY <4>1, <4>2, LockFilesTyped
    <3>2. stage' \in [Procs -> Stages]
      BY <1>1 DEF Create
    <3> QED
      BY <1>1, <3>1, <3>2 DEF Create, LockFiles
  <2>2. GuardOwned'
    BY <1>1 DEF Create
  <2>3. FileOwned'
    BY <1>1 DEF Create
  <2>4. OwnerIsProcess'
    BY <1>1 DEF Create
  <2>5. StaleIsDead'
    BY <1>1 DEF Create
  <2> QED
    BY <2>1, <2>2, <2>3, <2>4, <2>5
<1>2. CASE WriteOwner(p)
  <2>1. LockTypeOK'
    BY <1>2 DEF WriteOwner
  <2>2. GuardOwned'
    BY <1>2 DEF WriteOwner
  <2>3. FileOwned'
    <3>1. lock.owner = p /\ ~lock.whole
      BY <1>2 DEF WriteOwner
    <3>2. \A q \in Procs \ {p} : stage'[q] \notin {"writing", "rewriting"} \cup Holding
      BY <1>2, <3>1 DEF WriteOwner
    <3>3. stage'[p] \in Holding /\ lock' = [owner |-> p, whole |-> TRUE]
      BY <1>2 DEF WriteOwner
    <3> QED
      BY <3>2, <3>3
  <2>4. OwnerIsProcess'
    BY <1>2 DEF WriteOwner
  <2>5. StaleIsDead'
    BY <1>2 DEF WriteOwner
  <2> QED
    BY <2>1, <2>2, <2>3, <2>4, <2>5
<1>3. CASE WriteFails(p)
  BY <1>3 DEF WriteFails
<1>4. CASE TakeGuard(p)
  BY <1>4 DEF TakeGuard, GuardFree
<1>5. CASE GiveUp(p)
  BY <1>5 DEF GiveUp
<1>6. CASE ReadStale(p)
  BY <1>6 DEF ReadStale, Absent
<1>7. CASE Reread(p)
  BY <1>7 DEF Reread, Absent
<1>8. CASE Unlink(p)
  <2>1. LockTypeOK'
    <3>1. lock' \in LockFiles
      <4>1. lock' \in {lock, Free, [owner |-> p, whole |-> FALSE]}
        BY <1>8 DEF Unlink
      <4>2. lock \in LockFiles
        BY DEF LockFiles
      <4> QED
        BY <4>1, <4>2, LockFilesTyped
    <3>2. stage' \in [Procs -> Stages]
      BY <1>8 DEF Unlink
    <3> QED
      BY <1>8, <3>1, <3>2 DEF Unlink, LockFiles
  <2>2. GuardOwned'
    BY <1>8 DEF Unlink
  <2>3. FileOwned'
    BY <1>8 DEF Unlink
  <2>4. OwnerIsProcess'
    BY <1>8 DEF Unlink
  <2>5. StaleIsDead'
    BY <1>8 DEF Unlink
  <2> QED
    BY <2>1, <2>2, <2>3, <2>4, <2>5
<1>9. CASE Recreate(p)
  <2>1. LockTypeOK'
    <3>1. lock' \in LockFiles
      <4>1. lock' \in {lock, Free, [owner |-> p, whole |-> FALSE]}
        BY <1>9 DEF Recreate
      <4>2. lock \in LockFiles
        BY DEF LockFiles
      <4> QED
        BY <4>1, <4>2, LockFilesTyped
    <3>2. stage' \in [Procs -> Stages]
      BY <1>9 DEF Recreate
    <3> QED
      BY <1>9, <3>1, <3>2 DEF Recreate, LockFiles
  <2>2. GuardOwned'
    BY <1>9 DEF Recreate
  <2>3. FileOwned'
    BY <1>9 DEF Recreate
  <2>4. OwnerIsProcess'
    BY <1>9 DEF Recreate
  <2>5. StaleIsDead'
    BY <1>9 DEF Recreate
  <2> QED
    BY <2>1, <2>2, <2>3, <2>4, <2>5
<1>10. CASE DropGuard(p)
  BY <1>10 DEF DropGuard
<1>11. CASE Release(p)
  BY <1>11 DEF Release, assertHeld
<1>12. CASE Crash(p)
  BY <1>12 DEF Crash
<1> QED
  BY <1>1, <1>2, <1>3, <1>4, <1>5, <1>6, <1>7, <1>8, <1>9, <1>10, <1>11, <1>12 DEF Acquiring

(* The store does not touch the lock.                                       *)
LEMMA StoreLeavesLock ==
  ASSUME NEW p \in Procs, StoreStep(p)
  PROVE  UNCHANGED lockVars
BY DEF StoreStep, Load, Begin, RemoveOrphan, Truncate, Rotate, WriteRecord, Publish,
       Acknowledge, Initialize, Migrate, Fails, Works

(* The invariant in a system of which the lock is one part.                 *)
LEMMA LedgerKeepsLock == Spec => []LockInv
<1>1. Init => LockInv
  BY LockStarts DEF Init
<1>2. LockInv /\ [Next]_vars => LockInv'
  <2> SUFFICES ASSUME LockInv, [Next]_vars
               PROVE  LockInv'
    OBVIOUS
  <2>1. CASE UNCHANGED lockVars
    BY <2>1 DEF lockVars, LockInv, LockTypeOK, GuardOwned, FileOwned, OwnerIsProcess, StaleIsDead
  <2>2. CASE UNCHANGED vars
    BY <2>1, <2>2 DEF vars
  <2>3. ASSUME NEW p \in Procs, LockStep(p)
        PROVE  LockInv'
    BY <2>3, LockSteps DEF LockStep
  <2>4. ASSUME NEW p \in Procs, StoreStep(p)
        PROVE  LockInv'
    BY <2>1, <2>4, StoreLeavesLock
  <2> QED
    BY <2>2, <2>3, <2>4 DEF Next
<1> QED
  BY <1>1, <1>2, PTL DEF Spec

(* The lease is kept: while a process holds the run, the lock on disk is    *)
(* its own and whole, so the assertHeld before every write of the ledger    *)
(* (run-state-ledger.ts) cannot fail -- whoever dies, and whoever removes   *)
(* the lock of a dead owner.                                                *)
THEOREM LedgerLeaseKept == Spec => []LeaseKept
<1>1. LockInv => LeaseKept
  BY DEF LockInv, FileOwned, LeaseKept, assertHeld
<1> QED
  BY <1>1, LedgerKeepsLock, PTL

(* Two processes never hold the lease of one run at once (locks.ts).        *)
THEOREM LedgerExclusive == Spec => []MutualExclusion
<1>1. LockInv => MutualExclusion
  BY DEF LockInv, FileOwned, MutualExclusion
<1> QED
  BY <1>1, LedgerKeepsLock, PTL

-----------------------------------------------------------------------------
\* A cell of a segment: a part of a record, a newline, or a torn line.
Token == [root : Seq(Procs), part : Nat, of : Nat]
\* What the run file may hold.
Heads == [kind : {"absent", "v2", "v3"}, root : Seq(Procs), seg : Nat, bytes : Nat]

\* Where a store operation is.
Steps == {"idle", "clean", "truncate", "rotate", "create", "append", "torn", "publish",
          "delimit", "layout", "first", "layaside", "rename", "head"}

\* The types of the files and of what the processes remember of them.
Files ==
  /\ file \in Heads /\ segs \in Seq(Seq(Token)) /\ temp \in Seq(Seq(Token))
  /\ mem \in [Procs -> Heads] /\ work \in [Procs -> Steps]
  /\ \A q \in Procs : mem[q] = NoHead \/ mem[q].kind = "v3"
  /\ file.kind = "v2" => file.root # <<>>
  /\ file.kind = "v3" => file.seg > 0 /\ file.root # <<>>

(* The committed tokens. *)
Agrees(head) ==
  /\ \A i \in 1..(head.seg - 1) : segs'[i] = segs[i]
  /\ head.bytes <= Len(segs'[head.seg])
  /\ \A j \in 1..head.bytes : segs'[head.seg][j] = segs[head.seg][j]


\* Segments are finite.
Lengths == Len(segs) \in Nat /\ \A i \in 1..Len(segs) : Len(segs[i]) \in Nat

\* While it is not, the closed segments and the last record stay as they were.
LEMMA Stays ==
  ASSUME file \in Heads, UNCHANGED file, Lengths, Readable(file), Agrees(file), file.seg > 0,
         SuffixFine(segs'[file.seg], file.bytes)
  PROVE  /\ \A i \in 1..(file.seg - 1) : InteriorFine(segs'[i])
         /\ ActiveFine(segs'[file.seg], file.bytes)
         /\ LastRecord(file)' = LastRecord(file)
<1>1. file.seg \in Nat /\ file.bytes \in Nat
  BY DEF Heads
<1>2. file.bytes > 0
  BY DEF Readable, ActiveFine
<1>3. \A i \in 1..(file.seg - 1) : InteriorFine(segs'[i])
  BY DEF Readable, Agrees
<1>4. Alternates(segs'[file.seg], file.bytes)
  BY <1>1 DEF Readable, Agrees, ActiveFine, Alternates
<1>5. ActiveFine(segs'[file.seg], file.bytes)
  BY <1>1, <1>2, <1>4 DEF Agrees, ActiveFine
<1>6. LastRecord(file)' = LastRecord(file)
  <2>1. file.bytes \in 1..file.bytes
    BY <1>1, <1>2
  <2> QED
    BY <2>1 DEF Agrees, LastRecord
<1> QED
  BY <1>3, <1>5, <1>6

\* And so does, of every record, the record before it.
LEMMA ChainStays ==
  ASSUME file \in Heads, UNCHANGED file, file.seg > 0, Lengths, Readable(file), Agrees(file)
  PROVE  \A i \in 1..file.seg : \A j \in 1..Extent(file, i) :
         /\ segs'[i][j] = segs[i][j]
         /\ (i > 1 \/ j > 1) /\ IsRecord(segs[i][j]) => Before(i, j)' = Before(i, j)
<1>1. file.seg \in Nat /\ file.bytes \in Nat
  BY DEF Heads
<1>b. file.seg <= Len(segs)
  BY <1>1 DEF Readable, Listed, Lengths
<1> SUFFICES ASSUME NEW i \in 1..file.seg, NEW j \in 1..Extent(file, i)
             PROVE  /\ segs'[i][j] = segs[i][j]
                    /\ (i > 1 \/ j > 1) /\ IsRecord(segs[i][j]) => Before(i, j)' = Before(i, j)
  OBVIOUS
<1>a. Extent(file, i) \in Nat /\ i \in Nat /\ j \in Nat
  BY <1>1, <1>b DEF Extent, Lengths
<1>c. \A k \in 1..Extent(file, i) : segs'[i][k] = segs[i][k]
  <2>1. CASE i < file.seg
    <3>1. i \in 1..(file.seg - 1)
      BY <1>1, <2>1
    <3> QED
      BY <3>1 DEF Agrees
  <2>2. CASE ~(i < file.seg)
    <3>1. i = file.seg
      BY <1>1, <2>2
    <3>2. Extent(file, i) = file.bytes
      BY <3>1, <2>2 DEF Extent
    <3> QED
      BY <3>1, <3>2 DEF Agrees
  <2> QED
    BY <2>1, <2>2
<1>2. segs'[i][j] = segs[i][j]
  BY <1>c
<1>3. CASE j > 2
  <2>0. j - 2 \in 1..Extent(file, i)
    BY <1>3, <1>a
  <2>1. segs'[i][j - 2] = segs[i][j - 2]
    BY <2>0, <1>c
  <2> QED
    BY <1>2, <1>3, <2>1, <1>a DEF Before
<1>4. CASE j = 1 /\ i > 1
  <2>1. i - 1 \in 1..(file.seg - 1)
    BY <1>1, <1>4, <1>a
  <2>2. segs'[i - 1] = segs[i - 1]
    BY <2>1 DEF Agrees
  <2> QED
    BY <1>2, <2>2, <1>4 DEF Before
<1>5. CASE j = 1 /\ i = 1
  BY <1>2, <1>5
<1>6. CASE j = 2
  <2>1. segs[i][2] = Newline
    <3>1. CASE i < file.seg
      <4>1. i \in 1..(file.seg - 1) /\ 2 \in 1..Len(segs[i])
        BY <1>1, <1>6, <3>1 DEF Extent
      <4>2. Alternates(segs[i], Len(segs[i]))
        BY <4>1 DEF Readable, InteriorFine
      <4> QED
        BY <4>1, <4>2 DEF Alternates
    <3>2. CASE ~(i < file.seg)
      <4>1. i = file.seg /\ 2 \in 1..file.bytes
        BY <1>1, <1>6, <3>2 DEF Extent
      <4>2. Alternates(segs[i], file.bytes)
        BY <4>1 DEF Readable, ActiveFine
      <4> QED
        BY <4>1, <4>2 DEF Alternates
    <3> QED
      BY <3>1, <3>2
  <2>2. ~IsRecord(Newline)
    BY DEF Newline, Record, IsRecord
  <2> QED
    BY <1>2, <2>1, <2>2, <1>6
<1> QED
  BY <1>3, <1>4, <1>5, <1>6, <1>a

\* So a ledger whose committed prefix is not written stays readable, whatever is behind
\* it.
LEMMA ReadableStays ==
  ASSUME file \in Heads, UNCHANGED file, Lengths, file.seg > 0, Readable(file), Agrees(file),
         Listed(file)', SuffixFine(segs'[file.seg], file.bytes)
  PROVE  Readable(file)' /\ LastRecord(file)' = LastRecord(file)
<1>1. file.seg \in Nat /\ file.bytes \in Nat
  BY DEF Heads
<1>2. \A i \in 1..file.seg : Extent(file, i)' = Extent(file, i)
  BY <1>1 DEF Extent, Agrees
<1>3. Chained(file)'
  <2>1. segs'[1][1] = segs[1][1]
    <3>1. 1 \in 1..file.seg /\ 1 \in 1..Extent(file, 1)
      <4>1. CASE file.seg > 1
        <5>1. 1 \in 1..(file.seg - 1) /\ 1 \in 1..Len(segs)
          BY <1>1, <4>1 DEF Readable, Listed, Lengths
        <5>2. Len(segs[1]) \in Nat /\ Len(segs[1]) > 0
          BY <5>1 DEF Readable, InteriorFine, Lengths
        <5> QED
          BY <1>1, <4>1, <5>2 DEF Extent
      <4>2. CASE file.seg = 1
        BY <1>1, <4>2 DEF Extent, Readable, ActiveFine
      <4> QED
        BY <1>1, <4>1, <4>2
    <3> QED
      BY <3>1, ChainStays
  <2>2. SUFFICES ASSUME NEW i \in 1..file.seg, NEW j \in 1..Extent(file, i),
                        IsRecord(segs'[i][j]), i > 1 \/ j > 1
                 PROVE  Follows(Before(i, j)', segs'[i][j])
    BY <1>1, <1>2, <2>1 DEF Chained, Readable
  <2>3. segs'[i][j] = segs[i][j] /\ Before(i, j)' = Before(i, j)
    BY <2>2, ChainStays
  <2> QED
    BY <2>2, <2>3 DEF Readable, Chained
<1> QED
  BY <1>1, <1>3, Stays DEF Readable

\* The last committed record is whole, and its root is the run file's.
LEMMA LastIsRecord ==
  ASSUME file \in Heads, Lengths, file.seg > 0, Readable(file)
  PROVE  /\ file.seg \in Nat /\ file.bytes \in Nat /\ file.bytes > 0 /\ file.bytes % 2 = 1
         /\ file.seg \in 1..Len(segs)
         /\ LastRecord(file).part = LastRecord(file).of /\ LastRecord(file).root = file.root
<1>1. file.seg \in Nat /\ file.bytes \in Nat
  BY DEF Heads
<1>2. file.bytes > 0 /\ file.bytes \in 1..file.bytes
  BY <1>1 DEF Readable, ActiveFine
<1>3. file.bytes % 2 = 1 \/ segs[file.seg][file.bytes] = Newline
  BY <1>2 DEF Readable, ActiveFine, Alternates
<1>4. ~IsRecord(Newline)
  BY DEF Newline, Record, IsRecord
<1>5. file.bytes % 2 = 1
  BY <1>3, <1>4 DEF Readable, LastRecord
<1> QED
  BY <1>1, <1>2, <1>5 DEF Readable, Listed, Lengths

\* The record of the next root follows it.
LEMMA WrittenFollows ==
  ASSUME file \in Heads, Lengths, file.seg > 0, Readable(file), NEW root,
         Front(root) = file.root, root # <<>>
  PROVE  /\ IsRecord(Record(root, 1, 1)) /\ Follows(LastRecord(file), Record(root, 1, 1))
         /\ Record(root, 1, 1).part = Record(root, 1, 1).of
         /\ Record(root, 1, 1).root = root
BY LastIsRecord DEF Follows, Record, IsRecord

\* The run file may name the record that was appended behind a newline,
LEMMA AppendedReadable ==
  ASSUME file \in Heads, UNCHANGED file, Lengths, file.seg > 0, Readable(file), Agrees(file),
         NEW h \in Heads, h.kind = "v3", Front(h.root) = file.root, h.root # <<>>,
         h.seg = file.seg, h.bytes = file.bytes + 2,
         Len(segs') = h.seg, Len(segs'[h.seg]) = h.bytes,
         segs'[h.seg][file.bytes + 1] = Newline,
         segs'[h.seg][h.bytes] = Record(h.root, 1, 1)
  PROVE  Readable(h)'
<1> DEFINE S == file.seg  B == file.bytes
<1>1. S \in Nat /\ B \in Nat /\ B > 0 /\ B % 2 = 1 /\ S > 0
  BY LastIsRecord
<1>2. /\ IsRecord(Record(h.root, 1, 1)) /\ Follows(LastRecord(file), Record(h.root, 1, 1))
      /\ Record(h.root, 1, 1).part = Record(h.root, 1, 1).of
      /\ Record(h.root, 1, 1).root = h.root
  BY WrittenFollows
<1>3. ~IsRecord(Newline)
  BY DEF Newline, Record, IsRecord
<1>4. Alternates(segs'[S], B + 2)
  <2> SUFFICES ASSUME NEW j \in 1..(B + 2)
               PROVE  IF j % 2 = 1 THEN IsRecord(segs'[S][j]) ELSE segs'[S][j] = Newline
    BY DEF Alternates
  <2>1. CASE j <= B
    <3>1. j \in 1..B
      BY <1>1, <2>1
    <3>2. segs'[S][j] = segs[S][j]
      BY <3>1 DEF Agrees
    <3> QED
      BY <3>1, <3>2 DEF Readable, ActiveFine, Alternates
  <2>2. CASE j = B + 1
    <3>1. j % 2 # 1
      BY <1>1, <2>2
    <3> QED
      BY <2>2, <3>1
  <2>3. CASE j = B + 2
    <3>1. j % 2 = 1
      BY <1>1, <2>3
    <3> QED
      BY <1>2, <2>3, <3>1
  <2> QED
    BY <1>1, <2>1, <2>2, <2>3
<1>5. ActiveFine(segs'[S], B + 2)
  BY <1>1, <1>4 DEF ActiveFine, SuffixFine
<1>6. \A i \in 1..(S - 1) : InteriorFine(segs'[i])
  BY Stays, <1>1 DEF Agrees, Readable
<1>7. Chained(h)'
  <2>1. segs'[1][1].part = 1
    <3>1. CASE S > 1
      <4>1. 1 \in 1..(S - 1)
        BY <1>1, <3>1
      <4> QED
        BY <4>1 DEF Readable, Chained, Agrees
    <3>2. CASE S = 1
      <4>1. 1 \in 1..B
        BY <1>1
      <4> QED
        BY <3>2, <4>1 DEF Readable, Chained, Agrees
    <3> QED
      BY <1>1, <3>1, <3>2
  <2> SUFFICES ASSUME NEW i \in 1..S, NEW j \in 1..(Extent(h, i)'),
                      IsRecord(segs'[i][j]), i > 1 \/ j > 1
               PROVE  Follows(Before(i, j)', segs'[i][j])
    BY <2>1 DEF Chained
  <2>2. CASE j \in 1..Extent(file, i)
    <3>1. segs'[i][j] = segs[i][j] /\ Before(i, j)' = Before(i, j)
      BY <2>2, ChainStays
    <3> QED
      BY <2>2, <3>1 DEF Readable, Chained
  <2>3. CASE j \notin 1..Extent(file, i)
    <3>1. i = S
      <4>1. CASE i < S
        <5>1. i \in 1..(S - 1)
          BY <1>1, <4>1
        <5> QED
          BY <2>3, <4>1, <5>1 DEF Extent, Agrees
      <4> QED
        BY <1>1, <4>1
    <3>2. Extent(file, i) = B /\ Extent(h, i)' = B + 2
      BY <3>1, <1>1 DEF Extent
    <3>3. j = B + 1 \/ j = B + 2
      BY <1>1, <2>3, <3>2
    <3>4. j = B + 2
      BY <1>3, <3>1, <3>3
    <3>5. Before(i, j)' = LastRecord(file)
      <4>1. j - 2 = B /\ j > 1 /\ B \in 1..B
        BY <1>1, <3>4
      <4> QED
        BY <3>1, <4>1 DEF Before, LastRecord, Agrees
    <3> QED
      BY <1>2, <3>1, <3>4, <3>5
  <2> QED
    BY <2>2, <2>3
<1> QED
  BY <1>2, <1>5, <1>6, <1>7 DEF Readable, Listed, LastRecord

\* and the one that starts a segment, once a newline closes the segment before.
LEMMA RotatedReadable ==
  ASSUME file \in Heads, UNCHANGED file, Lengths, file.seg > 0, Readable(file), Agrees(file),
         NEW h \in Heads, h.kind = "v3", Front(h.root) = file.root, h.root # <<>>,
         h.seg = file.seg + 1, h.bytes = 1,
         Len(segs') = h.seg, Len(segs'[h.seg]) = 1,
         Len(segs'[file.seg]) = file.bytes + 1,
         segs'[file.seg][file.bytes + 1] = Newline,
         segs'[h.seg][1] = Record(h.root, 1, 1)
  PROVE  Readable(h)'
<1> DEFINE S == file.seg  B == file.bytes
<1>1. S \in Nat /\ B \in Nat /\ B > 0 /\ B % 2 = 1 /\ S > 0
  BY LastIsRecord
<1>2. /\ IsRecord(Record(h.root, 1, 1)) /\ Follows(LastRecord(file), Record(h.root, 1, 1))
      /\ Record(h.root, 1, 1).part = Record(h.root, 1, 1).of
      /\ Record(h.root, 1, 1).root = h.root
  BY WrittenFollows
<1>3. ~IsRecord(Newline)
  BY DEF Newline, Record, IsRecord
<1>4. Alternates(segs'[S], B + 1)
  <2> SUFFICES ASSUME NEW j \in 1..(B + 1)
               PROVE  IF j % 2 = 1 THEN IsRecord(segs'[S][j]) ELSE segs'[S][j] = Newline
    BY DEF Alternates
  <2>1. CASE j <= B
    <3>1. j \in 1..B
      BY <1>1, <2>1
    <3>2. segs'[S][j] = segs[S][j]
      BY <3>1 DEF Agrees
    <3> QED
      BY <3>1, <3>2 DEF Readable, ActiveFine, Alternates
  <2>2. CASE j = B + 1
    <3>1. j % 2 # 1
      BY <1>1, <2>2
    <3> QED
      BY <2>2, <3>1
  <2> QED
    BY <1>1, <2>1, <2>2
<1>5. ActiveFine(segs'[h.seg], 1)
  BY <1>1, <1>2 DEF ActiveFine, SuffixFine, Alternates
<1>6. \A i \in 1..S : InteriorFine(segs'[i])
  <2>1. \A i \in 1..(S - 1) : InteriorFine(segs'[i])
    BY <1>1 DEF Agrees, Readable
  <2>2. InteriorFine(segs'[S])
    <3>1. (B + 1) % 2 = 0
      BY <1>1
    <3> QED
      BY <1>1, <1>4, <3>1 DEF InteriorFine
  <2> QED
    BY <1>1, <2>1, <2>2
<1>7. Chained(h)'
  <2>1. segs'[1][1].part = 1
    <3>1. CASE S > 1
      <4>1. 1 \in 1..(S - 1)
        BY <1>1, <3>1
      <4> QED
        BY <4>1 DEF Readable, Chained, Agrees
    <3>2. CASE S = 1
      <4>1. 1 \in 1..B
        BY <1>1
      <4> QED
        BY <3>2, <4>1 DEF Readable, Chained, Agrees
    <3> QED
      BY <1>1, <3>1, <3>2
  <2> SUFFICES ASSUME NEW i \in 1..(S + 1), NEW j \in 1..(Extent(h, i)'),
                      IsRecord(segs'[i][j]), i > 1 \/ j > 1
               PROVE  Follows(Before(i, j)', segs'[i][j])
    BY <2>1 DEF Chained
  <2>2. CASE i <= S /\ j \in 1..Extent(file, i)
    <3>0. i \in 1..S
      BY <1>1, <2>2
    <3>1. segs'[i][j] = segs[i][j] /\ (i > 1 \/ j > 1 => Before(i, j)' = Before(i, j))
      BY <2>2, <3>0, ChainStays
    <3> QED
      BY <2>2, <3>0, <3>1 DEF Readable, Chained
  <2>3. CASE i <= S /\ j \notin 1..Extent(file, i)
    <3>1. i = S
      <4>1. CASE i < S
        <5>1. i \in 1..(S - 1)
          BY <1>1, <4>1
        <5> QED
          BY <1>1, <2>3, <4>1, <5>1 DEF Extent, Agrees
      <4> QED
        BY <1>1, <2>3, <4>1
    <3>2. Extent(file, i) = B /\ Extent(h, i)' = B + 1
      BY <3>1, <1>1 DEF Extent
    <3>3. j = B + 1
      BY <1>1, <2>3, <3>2
    <3> QED
      BY <1>3, <3>1, <3>3
  <2>4. CASE i = S + 1
    <3>1. Extent(h, i)' = 1
      BY <1>1, <2>4 DEF Extent
    <3>2. j = 1
      BY <3>1
    <3>3. Before(i, j)' = LastRecord(file)
      <4>1. i - 1 = S /\ ~(j > 1) /\ Len(segs'[S]) - 1 = B /\ B \in 1..B
        BY <1>1, <3>2, <2>4
      <4> QED
        BY <4>1 DEF Before, LastRecord, Agrees
    <3> QED
      BY <1>2, <2>4, <3>2, <3>3
  <2> QED
    BY <1>1, <2>2, <2>3, <2>4
<1> QED
  BY <1>1, <1>2, <1>5, <1>6, <1>7 DEF Readable, Listed, LastRecord

\* The active segment was closed by a newline,
Closed == Len(segs[file.seg]) = file.bytes + 1 /\ segs[file.seg][file.bytes + 1] = Newline
\* or has nothing behind what is committed.
Cut == Len(segs) = file.seg /\ Len(segs[file.seg]) = file.bytes

\* What the holder of the lease finds at each step of its commit: nobody else wrote since
\* it looked.
Ready(p) ==
  /\ work[p] \in {"clean", "truncate", "rotate", "create", "append", "publish"} =>
       mem[p] = file /\ file.kind = "v3"
  /\ work[p] = "truncate" => Len(segs) = file.seg
  /\ work[p] = "rotate" => Rotates(file) /\ Cut
  /\ work[p] = "create" => Rotates(file) /\ Len(segs) = file.seg /\ Closed
  /\ work[p] = "append" =>
       IF Rotates(file) THEN Len(segs) = file.seg + 1 /\ segs[file.seg + 1] = <<>> /\ Closed
                        ELSE Cut
  /\ work[p] = "publish" =>
       \E h \in Heads : /\ h = NewHead(p) /\ h.seg > 0 /\ h.root # <<>> /\ Readable(h)
                        /\ Len(segs) = h.seg /\ Len(segs[h.seg]) = h.bytes
  /\ work[p] = "delimit" => file.kind = "v3" /\ Cut
  /\ work[p] \in {"layout", "first"} => file.kind = "absent"
  /\ work[p] = "first" => segs = Snapshot(<<p>>)
  /\ work[p] \in {"layaside", "rename", "head"} => file.kind = "v2"
  /\ work[p] = "rename" => temp = Snapshot(file.root)
  /\ work[p] = "head" => segs = Snapshot(file.root)

\* What a step of the holder keeps.
Kept(p) == Files /\ AlwaysReadable /\ Ready(p)

\* Typed segments are finite.
LEMMA FilesLengths == Files => Lengths
<1> SUFFICES ASSUME Files PROVE Lengths
  OBVIOUS
<1>1. Len(segs) \in Nat
  BY DEF Files
<1>2. ASSUME NEW i \in 1..Len(segs) PROVE Len(segs[i]) \in Nat
  <2>1. segs[i] \in Seq(Token)
    BY ElementOfSeq DEF Files
  <2> QED
    BY <2>1
<1> QED
  BY <1>1, <1>2 DEF Lengths

\* Recovery of a readable ledger yields the run file's root.
LEMMA ReplayedIsHead ==
  ASSUME Files, AlwaysReadable
  PROVE  Replayed = IF file.kind = "absent" THEN <<>> ELSE file.root
<1>1. file.kind \in {"absent", "v2", "v3"}
  BY DEF Files, Heads
<1>2. CASE file.kind = "v3"
  BY <1>2 DEF Replayed, AlwaysReadable, Readable
<1> QED
  BY <1>1, <1>2 DEF Replayed

\* The segments after one of them is replaced.
LEMMA SegmentChanged ==
  ASSUME segs \in Seq(Seq(Token)), NEW i \in 1..Len(segs), NEW x \in Seq(Token),
         NEW t, t = [segs EXCEPT ![i] = x]
  PROVE  /\ t \in Seq(Seq(Token)) /\ Len(t) = Len(segs) /\ t[i] = x
         /\ \A k \in 1..Len(segs) : k # i => t[k] = segs[k]
BY ExceptSeq

\* The cells that are written have their type.
LEMMA TokensTyped ==
  /\ Newline \in Token /\ Torn \in Token
  /\ \A root \in Seq(Procs) : \A n, m \in Nat : Record(root, n, m) \in Token
<1>1. <<>> \in Seq(Procs)
  OBVIOUS
<1> QED
  BY <1>1 DEF Token, Newline, Torn, Record

\* The layout that initialization and migration write is readable, whatever the segments'
\* limit.
LEMMA SnapshotReadable ==
  ASSUME NEW root \in Seq(Procs), root # <<>>, NEW t, t = Snapshot(root), MaxBytes \in Nat
  PROVE  /\ t \in Seq(Seq(Token)) /\ HeadOf(root, t) \in Heads
         /\ HeadOf(root, t).seg = Len(t) /\ HeadOf(root, t).seg > 0
         /\ HeadOf(root, t).bytes = Len(t[Len(t)]) /\ HeadOf(root, t).root = root /\ HeadOf(root, t).kind = "v3"
         /\ segs = t => Readable(HeadOf(root, t))
<1> DEFINE R(n, m) == Record(root, n, m)
<1>1. R(1, 1) \in Token /\ R(1, 2) \in Token /\ R(2, 2) \in Token /\ Newline \in Token
  BY TokensTyped
<1>2. \/ t = << << R(1, 1) >> >>
      \/ t = << << R(1, 2), Newline, R(2, 2) >> >>
      \/ t = << << R(1, 2), Newline >>, << R(2, 2) >> >>
  BY DEF Snapshot
<1>3. IsRecord(R(1, 1)) /\ IsRecord(R(1, 2)) /\ IsRecord(R(2, 2)) /\ ~IsRecord(Newline)
  BY DEF Record, Newline, IsRecord
<1>4. Follows(R(1, 2), R(2, 2)) /\ R(1, 1).part = R(1, 1).of /\ R(2, 2).part = R(2, 2).of
      /\ R(1, 1).part = 1 /\ R(1, 2).part = 1 /\ R(1, 1).root = root /\ R(2, 2).root = root
  BY DEF Record, Follows
<1> DEFINE whole == << R(1, 1) >>
           both == << R(1, 2), Newline, R(2, 2) >>
           first == << R(1, 2), Newline >>
           second == << R(2, 2) >>
<1>5. t \in Seq(Seq(Token)) /\ Len(t) \in Nat /\ Len(t) > 0 /\ Len(t[Len(t)]) \in Nat
  <2>1. whole \in Seq(Token) /\ both \in Seq(Token) /\ first \in Seq(Token) /\ second \in Seq(Token)
    <3> HIDE DEF R
    <3> QED
      BY <1>1
  <2>2. t = << whole >> \/ t = << both >> \/ t = << first, second >>
    BY <1>2
  <2>3. \A x \in Seq(Token) : Len(x) \in Nat
    BY LenProperties
  <2> HIDE DEF whole, both, first, second
  <2>4. \A x, y \in Seq(Token) : <<x>> \in Seq(Seq(Token)) /\ <<x, y>> \in Seq(Seq(Token))
    OBVIOUS
  <2>5. t \in Seq(Seq(Token))
    BY <2>1, <2>2, <2>4
  <2>6. Len(t) \in Nat /\ Len(t) > 0 /\ Len(t[Len(t)]) \in Nat
    <3>1. CASE t = << whole >>
      BY <2>1, <2>3, <3>1
    <3>2. CASE t = << both >>
      BY <2>1, <2>3, <3>2
    <3>3. CASE t = << first, second >>
      BY <2>1, <2>3, <3>3
    <3> QED
      BY <2>2, <3>1, <3>2, <3>3
  <2> QED
    BY <2>5, <2>6
<1> DEFINE h == HeadOf(root, t)
<1>6. h.kind = "v3" /\ h.root = root /\ h.seg = Len(t) /\ h.bytes = Len(t[Len(t)])
  BY DEF HeadOf, Last
<1>7. h \in Heads /\ h.seg > 0
  BY <1>5 DEF HeadOf, Last, Heads
<1>8. ASSUME segs = t PROVE Readable(h)
  <2> HIDE DEF R, h
  <2>1. CASE t = << << R(1, 1) >> >>
    <3>1. h.seg = 1 /\ h.bytes = 1 /\ Len(segs) = 1 /\ Len(segs[1]) = 1 /\ segs[1][1] = R(1, 1)
      BY <1>6, <1>8, <2>1
    <3> QED
      BY <3>1, <1>3, <1>4, <1>6
      DEF Readable, Listed, InteriorFine, ActiveFine, SuffixFine, Alternates, Chained, Extent,
          LastRecord
  <2>2. CASE t = << << R(1, 2), Newline, R(2, 2) >> >>
    <3>1. h.seg = 1 /\ h.bytes = 3 /\ Len(segs) = 1 /\ Len(segs[1]) = 3
          /\ segs[1][1] = R(1, 2) /\ segs[1][2] = Newline /\ segs[1][3] = R(2, 2)
      BY <1>6, <1>8, <2>2
    <3>2. Chained(h)
      BY <3>1, <1>3, <1>4 DEF Chained, Extent, Before
    <3> QED
      BY <3>1, <3>2, <1>3, <1>4, <1>6
      DEF Readable, Listed, InteriorFine, ActiveFine, SuffixFine, Alternates, LastRecord
  <2>3. CASE t = << << R(1, 2), Newline >>, << R(2, 2) >> >>
    <3>1. h.seg = 2 /\ h.bytes = 1 /\ Len(segs) = 2 /\ Len(segs[1]) = 2 /\ Len(segs[2]) = 1
          /\ segs[1][1] = R(1, 2) /\ segs[1][2] = Newline /\ segs[2][1] = R(2, 2)
      BY <1>6, <1>8, <2>3
    <3>2. Chained(h)
      <4>1. Extent(h, 1) = 2 /\ Extent(h, 2) = 1
        BY <3>1 DEF Extent
      <4>2. Before(2, 1) = R(1, 2)
        <5>1. 2 - 1 = 1 /\ ~(1 > 1)
          OBVIOUS
        <5>2. Before(2, 1) = segs[2 - 1][Len(segs[2 - 1]) - 1]
          BY <5>1 DEF Before
        <5>3. Before(2, 1) = segs[1][Len(segs[1]) - 1]
          BY <5>1, <5>2, Zenon
        <5>4. Len(segs[1]) - 1 = 1
          BY <3>1
        <5> QED
          BY <3>1, <5>3, <5>4, Zenon
      <4> SUFFICES ASSUME NEW i \in 1..2, NEW j \in 1..Extent(h, i), IsRecord(segs[i][j]),
          i > 1 \/ j > 1
                   PROVE  Follows(Before(i, j), segs[i][j])
        BY <1>4, <3>1 DEF Chained
      <4>3. CASE i = 1
        <5>1. j = 1 \/ j = 2
          BY <4>1, <4>3
        <5> QED
          BY <1>3, <3>1, <4>3, <5>1
      <4>4. CASE i = 2
        <5>1. j = 1
          BY <4>1, <4>4
        <5> QED
          BY <1>4, <3>1, <4>2, <4>4, <5>1
      <4> QED
        BY <4>3, <4>4
    <3>3. InteriorFine(segs[1])
      BY <1>3, <3>1 DEF InteriorFine, Alternates
    <3>4. ActiveFine(segs[2], 1)
      BY <1>3, <3>1 DEF ActiveFine, SuffixFine, Alternates
    <3>5. Listed(h) /\ LastRecord(h) = R(2, 2)
      BY <3>1 DEF Listed, LastRecord
    <3> QED
      BY <3>1, <3>2, <3>3, <3>4, <3>5, <1>3, <1>4, <1>6 DEF Readable
  <2> QED
    BY <1>2, <2>1, <2>2, <2>3
<1> QED
  BY <1>5, <1>6, <1>7, <1>8

(* What a step of the store leaves of the invariant, and what it is of the log. *)
LogStep == [Log!DNext]_<<Replayed, acked>>

\* A step that writes neither the run file nor an answer is none.
LEMMA NothingCommitted ==
  ASSUME Files, AlwaysReadable, Files', AlwaysReadable', UNCHANGED <<file, acked>>
  PROVE  LogStep
<1>1. Replayed' = Replayed
  <2>1. (Replayed = IF file.kind = "absent" THEN <<>> ELSE file.root)'
    BY ReplayedIsHead, PTL
  <2> QED
    BY <2>1, ReplayedIsHead
<1> QED
  BY <1>1 DEF LogStep

\* A store step moves its own process only.
LEMMA WorksTyped ==
  ASSUME Files, NEW p \in Procs, NEW from, NEW to \in Steps, Works(p, from, to)
  PROVE  work' \in [Procs -> Steps] /\ work'[p] = to /\ work[p] = from
BY DEF Works, Files

\* Readability depends on the files alone.
LEMMA ReadableUnmoved ==
  ASSUME AlwaysReadable, UNCHANGED <<file, segs>>
  PROVE  AlwaysReadable'
BY DEF AlwaysReadable, Readable, Listed, OrphanFine, InteriorFine, ActiveFine, SuffixFine,
       Alternates, Chained, Extent, Before, LastRecord

\* Recovery reads.
LEMMA LoadKeeps ==
  ASSUME NEW p \in Procs, Kept(p), Load(p)
  PROVE  Kept(p)' /\ LogStep
<1>1. work' \in [Procs -> Steps] /\ work'[p] = "idle"
  BY WorksTyped DEF Load, Kept, Idle, Steps
<1>2. UNCHANGED <<file, segs, temp, acked>> /\ mem' = [mem EXCEPT ![p] = file] /\ file.kind = "v3"
  BY DEF Load, Readable
<1>2a. Files'
  BY <1>1, <1>2 DEF Kept, Files
<1>3. AlwaysReadable'
  BY <1>2, ReadableUnmoved DEF Kept
<1>4. Ready(p)'
  BY <1>1 DEF Ready
<1> QED
  BY <1>2, <1>2a, <1>3, <1>4, NothingCommitted DEF Kept

\* A commit begins.
LEMMA BeginKeeps ==
  ASSUME NEW p \in Procs, Kept(p), Begin(p)
  PROVE  Kept(p)' /\ LogStep
<1>1. work' \in [Procs -> Steps] /\ work'[p] = "clean"
  BY WorksTyped DEF Begin, Kept, Idle, Steps
<1>2. Files' /\ UNCHANGED <<file, segs, mem, acked>>
  BY <1>1 DEF Begin, Kept, Files
<1>3. AlwaysReadable'
  BY <1>2, ReadableUnmoved DEF Kept
<1>4. mem[p] = file /\ Listed(file)
  BY DEF Begin, Current
<1>5. file.kind = "v3"
  BY DEF Begin, Current, Kept, Files
<1>6. Ready(p)'
  BY <1>1, <1>2, <1>4, <1>5 DEF Ready
<1> QED
  BY <1>2, <1>3, <1>6, NothingCommitted DEF Kept

\* What a readable v3 ledger has on disk.
LEMMA OwnSegments ==
  ASSUME Files, file.kind = "v3", AlwaysReadable
  PROVE  /\ Readable(file) /\ Lengths /\ file.seg > 0 /\ file \in Heads
         /\ file.seg \in Nat /\ file.bytes \in Nat /\ file.bytes > 0
         /\ file.seg \in 1..Len(segs) /\ file.bytes <= Len(segs[file.seg])
         /\ segs[file.seg] \in Seq(Token)
<1>1. Readable(file) /\ Lengths /\ file.seg > 0 /\ file \in Heads
  BY FilesLengths DEF Files, AlwaysReadable
<1>2. file.seg \in 1..Len(segs)
  BY <1>1, LastIsRecord
<1>3. segs[file.seg] \in Seq(Token)
  BY <1>2, ElementOfSeq DEF Files
<1> QED
  BY <1>1, <1>2, <1>3, LastIsRecord DEF Readable, ActiveFine

\* The next segment, which no run file names, is removed.
LEMMA RemoveOrphanKeeps ==
  ASSUME NEW p \in Procs, Kept(p), RemoveOrphan(p)
  PROVE  Kept(p)' /\ LogStep
<1>1. work' \in [Procs -> Steps] /\ work'[p] = "truncate" /\ work[p] = "clean"
  BY WorksTyped DEF RemoveOrphan, Kept, Steps
<1>2. mem[p] = file /\ file.kind = "v3"
  BY <1>1 DEF Kept, Ready
<1>3. UNCHANGED <<file, temp, mem, acked>> /\ segs' = SubSeq(segs, 1, file.seg)
  BY <1>2 DEF RemoveOrphan, OrphanGone
<1>4. /\ Readable(file) /\ Lengths /\ file.seg > 0 /\ file \in Heads /\ file.seg \in 1..Len(segs)
      /\ file.bytes <= Len(segs[file.seg])
  BY <1>2, OwnSegments DEF Kept
<1>5. /\ segs' \in Seq(Seq(Token)) /\ Len(segs') = file.seg
      /\ \A i \in 1..file.seg : segs'[i] = segs[i]
  <2>1. \A i \in 1..file.seg : segs[i] \in Seq(Token)
    BY <1>4, ElementOfSeq DEF Kept, Files
  <2> HIDE DEF Token
  <2> QED
    BY <1>3, <1>4, <2>1, SubSeqProperties
<1>6. Files'
  BY <1>1, <1>3, <1>5 DEF Kept, Files
<1>7. AlwaysReadable'
  <2>1. Agrees(file) /\ Listed(file)' /\ SuffixFine(segs'[file.seg], file.bytes)
    BY <1>3, <1>4, <1>5 DEF Agrees, Listed, Readable, ActiveFine
  <2> QED
    BY <1>3, <1>4, <2>1, ReadableStays DEF AlwaysReadable
<1>8. Ready(p)'
  BY <1>1, <1>2, <1>3, <1>5 DEF Ready
<1> QED
  BY <1>3, <1>6, <1>7, <1>8, NothingCommitted DEF Kept

\* What lies behind the committed prefix is cut.
LEMMA TruncateKeeps ==
  ASSUME NEW p \in Procs, Kept(p), Truncate(p)
  PROVE  Kept(p)' /\ LogStep
<1>1. /\ work' \in [Procs -> Steps] /\ work[p] = "truncate"
      /\ work'[p] = IF Rotates(mem[p]) THEN "rotate" ELSE "append"
  <2>1. (IF Rotates(mem[p]) THEN "rotate" ELSE "append") \in Steps
    BY DEF Steps
  <2> QED
    BY <2>1, WorksTyped DEF Truncate, Kept
<1>2. mem[p] = file /\ file.kind = "v3" /\ Len(segs) = file.seg
  BY <1>1 DEF Kept, Ready
<1>3. /\ UNCHANGED <<file, temp, mem, acked>>
      /\ segs' = [segs EXCEPT ![file.seg] = SubSeq(segs[file.seg], 1, file.bytes)]
  BY <1>2 DEF Truncate, CutBack
<1>4. /\ Readable(file) /\ Lengths /\ file.seg > 0 /\ file \in Heads /\ file.seg \in 1..Len(segs)
      /\ file.bytes <= Len(segs[file.seg]) /\ file.bytes \in Nat /\ segs[file.seg] \in Seq(Token)
      /\ file.bytes > 0
  BY <1>2, OwnSegments DEF Kept
<1> DEFINE x == SubSeq(segs[file.seg], 1, file.bytes)
<1>5. x \in Seq(Token) /\ Len(x) = file.bytes /\ \A j \in 1..file.bytes : x[j] = segs[file.seg][j]
  <2>1. Len(segs[file.seg]) \in Nat
    BY <1>4
  <2>2. \A j \in 1..file.bytes : segs[file.seg][j] \in Token
    BY <1>4, <2>1, ElementOfSeq
  <2> HIDE DEF Token
  <2> QED
    BY <1>4, <2>2, SubSeqProperties
<1> HIDE DEF x
<1>6. /\ segs' \in Seq(Seq(Token)) /\ Len(segs') = Len(segs) /\ segs'[file.seg] = x
      /\ \A k \in 1..Len(segs) : k # file.seg => segs'[k] = segs[k]
  <2>1. segs' = [segs EXCEPT ![file.seg] = x]
    BY <1>3 DEF x
  <2> QED
    BY <1>4, <1>5, <2>1, SegmentChanged DEF Kept, Files
<1>7. Files'
  BY <1>1, <1>3, <1>6 DEF Kept, Files
<1>8. AlwaysReadable'
  <2>1. Agrees(file) /\ Listed(file)' /\ SuffixFine(segs'[file.seg], file.bytes)
    BY <1>2, <1>3, <1>4, <1>5, <1>6 DEF Agrees, Listed, SuffixFine
  <2> QED
    BY <1>3, <1>4, <2>1, ReadableStays DEF AlwaysReadable
<1>9. Ready(p)'
  BY <1>1, <1>2, <1>3, <1>5, <1>6 DEF Ready, Cut, Rotates
<1> QED
  BY <1>3, <1>7, <1>8, <1>9, NothingCommitted DEF Kept

\* The full segment is closed and the next one created.
LEMMA RotateKeeps ==
  ASSUME NEW p \in Procs, Kept(p), Rotate(p)
  PROVE  Kept(p)' /\ LogStep
<1>1. ASSUME Works(p, "rotate", "create"), segs' = [segs EXCEPT ![mem[p].seg] = Append(@, Newline)],
             UNCHANGED <<file, temp, mem, acked>>
      PROVE  Kept(p)' /\ LogStep
  <2>1. work' \in [Procs -> Steps] /\ work'[p] = "create" /\ work[p] = "rotate"
    BY <1>1, WorksTyped DEF Kept, Steps
  <2>2. mem[p] = file /\ file.kind = "v3" /\ Rotates(file) /\ Cut
    BY <2>1 DEF Kept, Ready
  <2>3. segs' = [segs EXCEPT ![file.seg] = Append(segs[file.seg], Newline)]
    BY <1>1, <2>2
  <2>4. /\ Readable(file) /\ Lengths /\ file.seg > 0 /\ file \in Heads /\ file.seg \in 1..Len(segs)
        /\ file.bytes <= Len(segs[file.seg]) /\ file.bytes \in Nat /\ segs[file.seg] \in Seq(Token)
        /\ file.bytes > 0
    BY <2>2, OwnSegments DEF Kept
  <2> DEFINE x == Append(segs[file.seg], Newline)
  <2>5. /\ x \in Seq(Token) /\ Len(x) = file.bytes + 1 /\ x[file.bytes + 1] = Newline
        /\ \A j \in 1..file.bytes : x[j] = segs[file.seg][j]
    <3>1. Newline \in Token
      BY TokensTyped
    <3> HIDE DEF Token
    <3> QED
      BY <2>2, <2>4, <3>1, AppendProperties DEF Cut
  <2> HIDE DEF x
  <2>6. /\ segs' \in Seq(Seq(Token)) /\ Len(segs') = Len(segs) /\ segs'[file.seg] = x
        /\ \A k \in 1..Len(segs) : k # file.seg => segs'[k] = segs[k]
    <3>1. segs' = [segs EXCEPT ![file.seg] = x]
      BY <2>3 DEF x
    <3> QED
      BY <2>4, <2>5, <3>1, SegmentChanged DEF Kept, Files
  <2>7. Files'
    BY <1>1, <2>1, <2>6 DEF Kept, Files
  <2>8. AlwaysReadable'
    <3>1. Agrees(file) /\ Listed(file)' /\ SuffixFine(segs'[file.seg], file.bytes)
      BY <1>1, <2>2, <2>4, <2>5, <2>6 DEF Agrees, Listed, SuffixFine, Cut
    <3> QED
      BY <1>1, <2>4, <3>1, ReadableStays DEF AlwaysReadable
  <2>9. Ready(p)'
    BY <1>1, <2>1, <2>2, <2>5, <2>6 DEF Ready, Cut, Rotates, Closed
  <2> QED
    BY <1>1, <2>7, <2>8, <2>9, NothingCommitted DEF Kept
<1>2. ASSUME Works(p, "create", "append"), segs' = Append(segs, <<>>),
    UNCHANGED <<file, temp, mem, acked>>
      PROVE  Kept(p)' /\ LogStep
  <2>1. work' \in [Procs -> Steps] /\ work'[p] = "append" /\ work[p] = "create"
    BY <1>2, WorksTyped DEF Kept, Steps
  <2>2. mem[p] = file /\ file.kind = "v3" /\ Rotates(file) /\ Len(segs) = file.seg /\ Closed
    BY <2>1 DEF Kept, Ready
  <2>4. /\ Readable(file) /\ Lengths /\ file.seg > 0 /\ file \in Heads /\ file.seg \in 1..Len(segs)
        /\ file.bytes <= Len(segs[file.seg]) /\ file.bytes \in Nat /\ file.seg \in Nat
    BY <2>2, OwnSegments DEF Kept
  <2>6. /\ segs' \in Seq(Seq(Token)) /\ Len(segs') = file.seg + 1 /\ segs'[file.seg + 1] = <<>>
        /\ \A k \in 1..file.seg : segs'[k] = segs[k]
    <3>1. <<>> \in Seq(Token)
      OBVIOUS
    <3> HIDE DEF Token
    <3> QED
      BY <1>2, <2>2, <2>4, <3>1, AppendProperties DEF Kept, Files
  <2>7. Files'
    BY <1>2, <2>1, <2>6 DEF Kept, Files
  <2>8. AlwaysReadable'
    <3>1. Agrees(file) /\ Listed(file)' /\ SuffixFine(segs'[file.seg], file.bytes)
      BY <1>2, <2>4, <2>6 DEF Agrees, Listed, OrphanFine, Readable, ActiveFine
    <3> QED
      BY <1>2, <2>4, <3>1, ReadableStays DEF AlwaysReadable
  <2>9. Ready(p)'
    BY <1>2, <2>1, <2>2, <2>4, <2>6 DEF Ready, Rotates, Closed
  <2> QED
    BY <1>2, <2>7, <2>8, <2>9, NothingCommitted DEF Kept
<1> QED
  BY <1>1, <1>2 DEF Rotate

\* The front of a longer sequence.
LEMMA FrontOfAppend ==
  ASSUME NEW S, NEW q \in Seq(S), NEW e \in S
  PROVE  Front(Append(q, e)) = q /\ Append(q, e) # <<>> /\ Append(q, e) \in Seq(S)
<1> DEFINE t == Append(q, e)
<1>1. t \in Seq(S) /\ Len(t) = Len(q) + 1 /\ Len(q) \in Nat /\ \A i \in 1..Len(q) : t[i] = q[i]
  BY AppendProperties, LenProperties
<1>2. t # <<>>
  BY <1>1
<1> HIDE DEF t
<1>3. Front(t) = SubSeq(t, 1, Len(q))
  <2>1. Len(t) - 1 = Len(q)
    BY <1>1
  <2> QED
    BY <2>1 DEF Front
<1>4. /\ SubSeq(t, 1, Len(q)) \in Seq(S) /\ Len(SubSeq(t, 1, Len(q))) = Len(q)
      /\ \A i \in 1..Len(q) : SubSeq(t, 1, Len(q))[i] = q[i]
  <2>1. \A i \in 1..Len(q) : t[i] \in S
    BY <1>1, ElementOfSeq
  <2> QED
    BY <1>1, <2>1, SubSeqProperties
<1>5. SubSeq(t, 1, Len(q)) = q
  BY <1>1, <1>4, SeqEqual
<1> QED
  BY <1>1, <1>2, <1>3, <1>5 DEF t

\* The run file that the commit will publish.
LEMMA NewHeadTyped ==
  ASSUME NEW p \in Procs, Files, mem[p] = file, file.kind = "v3"
  PROVE  /\ NewHead(p) \in Heads /\ NewHead(p).kind = "v3"
         /\ NewHead(p).root = Append(file.root, p) /\ Front(NewHead(p).root) = file.root
         /\ NewHead(p).root # <<>> /\ NewHead(p).root \in Seq(Procs)
         /\ NewHead(p).seg = IF Rotates(file) THEN file.seg + 1 ELSE file.seg
         /\ NewHead(p).bytes = IF Rotates(file) THEN 1 ELSE file.bytes + 2
<1>1. file.root \in Seq(Procs) /\ file.seg \in Nat /\ file.bytes \in Nat
  BY DEF Files, Heads
<1> DEFINE r == Append(file.root, p)
<1>2. r \in Seq(Procs) /\ Front(r) = file.root /\ r # <<>>
  BY <1>1, FrontOfAppend
<1>3. Root(p) = r
  BY DEF Root
<1> HIDE DEF r
<1>4. NewHead(p) = [kind |-> "v3", root |-> r,
                    seg |-> IF Rotates(file) THEN file.seg + 1 ELSE file.seg,
                    bytes |-> IF Rotates(file) THEN 1 ELSE file.bytes + 2]
  BY <1>3 DEF NewHead
<1>5. /\ NewHead(p).kind = "v3" /\ NewHead(p).root = r
      /\ NewHead(p).seg = IF Rotates(file) THEN file.seg + 1 ELSE file.seg
      /\ NewHead(p).bytes = IF Rotates(file) THEN 1 ELSE file.bytes + 2
  BY <1>4
<1>6. NewHead(p) \in Heads
  BY <1>1, <1>2, <1>4 DEF Heads
<1> QED
  BY <1>2, <1>5, <1>6 DEF r

(* What one write leaves at the end of the last segment. *)
Written(done) == segs' = [segs EXCEPT ![Len(segs)] = segs[Len(segs)] \o done]

\* The sequences that are written are short.
LEMMA ShortSequences ==
  ASSUME NEW S, NEW a \in S, NEW b \in S
  PROVE  /\ <<>> \in Seq(S) /\ <<a>> \in Seq(S) /\ <<a, b>> \in Seq(S)
         /\ Len(<<a>>) = 1 /\ Len(<<a, b>>) = 2
         /\ <<a>>[1] = a /\ <<a, b>>[1] = a /\ <<a, b>>[2] = b
         /\ <<>> \o <<>> = <<>> /\ <<>> \o <<b>> = <<b>> /\ <<a>> \o <<b>> = <<a, b>>
<1>1. <<>> \in Seq(S) /\ <<a>> \in Seq(S) /\ <<b>> \in Seq(S) /\ <<a, b>> \in Seq(S)
  OBVIOUS
<1>2. /\ Len(<<a>>) = 1 /\ Len(<<b>>) = 1 /\ Len(<<a, b>>) = 2
      /\ <<a>>[1] = a /\ <<b>>[1] = b /\ <<a, b>>[1] = a /\ <<a, b>>[2] = b
  OBVIOUS
<1>3. <<>> \o <<>> = <<>> /\ <<>> \o <<b>> = <<b>>
  BY <1>1, ConcatEmptySeq
<1>4. <<a>> \o <<b>> = <<a, b>>
  <2> DEFINE s == <<a>>  t == <<b>>  u == <<a, b>>
  <2>1. /\ s \o t \in Seq(S) /\ Len(s \o t) = 2
        /\ (s \o t)[1] = a /\ (s \o t)[2] = b
    <3>1. s \in Seq(S) /\ t \in Seq(S) /\ Len(s) = 1 /\ Len(t) = 1 /\ s[1] = a /\ t[1] = b
      BY <1>1, <1>2
    <3> HIDE DEF s, t
    <3>2. /\ s \o t \in Seq(S) /\ Len(s \o t) = Len(s) + Len(t)
          /\ \A i \in 1 .. Len(s) + Len(t) : (s \o t)[i] = IF i <= Len(s) THEN s[i] ELSE t[i - Len(s)]
      BY <3>1, ConcatProperties
    <3>3. 1 + 1 = 2 /\ 1 \in 1..2 /\ 2 \in 1..2 /\ 1 <= 1 /\ ~(2 <= 1) /\ 2 - 1 = 1
      OBVIOUS
    <3> QED
      BY <3>1, <3>2, <3>3
  <2>2. u \in Seq(S) /\ Len(u) = 2 /\ u[1] = a /\ u[2] = b
    BY <1>1, <1>2
  <2> HIDE DEF s, t, u
  <2>3. s \o t = u
    BY <2>1, <2>2, SeqEqual
  <2> QED
    BY <2>3 DEF s, t, u
<1> QED
  BY <1>1, <1>2, <1>3, <1>4

\* An append to a new segment leaves the committed prefix as it was,
LEMMA WrittenRotated ==
  ASSUME Files, AlwaysReadable, file.kind = "v3", UNCHANGED file,
         Len(segs) = file.seg + 1, segs[file.seg + 1] = <<>>, Closed,
         NEW rec \in Token, rec # Newline, NEW done, done = <<>> \/ done = <<rec>>,
         Written(done)
  PROVE  /\ segs' \in Seq(Seq(Token)) /\ AlwaysReadable' /\ Agrees(file)
         /\ Len(segs') = file.seg + 1 /\ Len(segs'[file.seg]) = file.bytes + 1
         /\ segs'[file.seg][file.bytes + 1] = Newline
         /\ done = <<rec>> => Len(segs'[file.seg + 1]) = 1 /\ segs'[file.seg + 1][1] = rec
<1>1. Readable(file) /\ Lengths /\ file.seg > 0 /\ file \in Heads /\ file.seg \in Nat
  BY OwnSegments
<1>2. file.bytes \in Nat /\ file.bytes <= Len(segs[file.seg]) /\ file.seg \in 1..Len(segs)
  BY OwnSegments
<1>3. done \in Seq(Token) /\ <<>> \o done = done /\ (done = <<>> \/ (Len(done) = 1 /\ done[1] = rec))
  BY ShortSequences
<1>4. segs' = [segs EXCEPT ![file.seg + 1] = done]
  BY <1>3 DEF Written
<1>5. /\ segs' \in Seq(Seq(Token)) /\ Len(segs') = file.seg + 1 /\ segs'[file.seg + 1] = done
      /\ \A k \in 1..file.seg : segs'[k] = segs[k]
  <2>1. file.seg + 1 \in 1..Len(segs) /\ segs \in Seq(Seq(Token))
    BY <1>1 DEF Files
  <2>2. /\ segs' \in Seq(Seq(Token)) /\ Len(segs') = Len(segs) /\ segs'[file.seg + 1] = done
        /\ \A k \in 1..Len(segs) : k # file.seg + 1 => segs'[k] = segs[k]
    BY <1>3, <1>4, <2>1, SegmentChanged
  <2>3. \A k \in 1..file.seg : k \in 1..Len(segs) /\ k # file.seg + 1
    BY <1>1
  <2> QED
    BY <2>2, <2>3
<1>6. segs'[file.seg] = segs[file.seg]
  <2>1. file.seg \in 1..file.seg
    BY <1>1
  <2> QED
    BY <1>5, <2>1
<1>7. Agrees(file)
  <2>1. \A k \in 1..(file.seg - 1) : k \in 1..file.seg
    BY <1>1
  <2> QED
    BY <1>2, <1>5, <1>6, <2>1 DEF Agrees
<1>8. AlwaysReadable'
  <2>1. OrphanFine(segs'[file.seg + 1])
    BY <1>3, <1>5 DEF OrphanFine
  <2>2. Listed(file)'
    BY <1>5, <2>1 DEF Listed, OrphanFine
  <2>3. SuffixFine(segs'[file.seg], file.bytes)
    BY <1>1, <1>6 DEF Readable, ActiveFine
  <2> QED
    BY <1>1, <1>7, <2>2, <2>3, ReadableStays DEF AlwaysReadable
<1> QED
  BY <1>3, <1>5, <1>6, <1>7, <1>8 DEF Closed

\* and so does one behind a newline.
LEMMA WrittenAppended ==
  ASSUME Files, AlwaysReadable, file.kind = "v3", UNCHANGED file, Cut,
         NEW rec \in Token, rec # Newline, NEW done, done = <<Newline>> \/ done = <<Newline, rec>>,
         Written(done)
  PROVE  /\ segs' \in Seq(Seq(Token)) /\ AlwaysReadable' /\ Agrees(file)
         /\ Len(segs') = file.seg /\ segs'[file.seg][file.bytes + 1] = Newline
         /\ done = <<Newline, rec>> =>
              Len(segs'[file.seg]) = file.bytes + 2 /\ segs'[file.seg][file.bytes + 2] = rec
<1>1. Readable(file) /\ Lengths /\ file.seg > 0 /\ file \in Heads /\ file.seg \in Nat
  BY OwnSegments
<1>2. file.bytes \in Nat /\ file.seg \in 1..Len(segs) /\ segs[file.seg] \in Seq(Token)
  BY OwnSegments
<1>3. Len(segs) = file.seg /\ Len(segs[file.seg]) = file.bytes
  BY DEF Cut
<1>4. /\ done \in Seq(Token) /\ Len(done) \in 1..2 /\ done[1] = Newline
      /\ Len(done) = 2 => done[2] = rec
      /\ done = <<Newline, rec>> => Len(done) = 2
  <2>1. Newline \in Token
    BY TokensTyped
  <2>2. CASE done = <<Newline>>
    <3>1. done \in Seq(Token) /\ Len(done) = 1 /\ done[1] = Newline
      BY <2>1, <2>2, ShortSequences
    <3>2. done # <<Newline, rec>>
      BY <2>1, <3>1, ShortSequences
    <3> QED
      BY <3>1, <3>2
  <2>3. CASE done = <<Newline, rec>>
    BY <2>1, <2>3, ShortSequences
  <2> QED
    BY <2>2, <2>3
<1> DEFINE x == segs[file.seg] \o done
<1>5. /\ x \in Seq(Token) /\ Len(x) = file.bytes + Len(done)
      /\ \A j \in 1..(file.bytes + Len(done)) :
           x[j] = IF j <= file.bytes THEN segs[file.seg][j] ELSE done[j - file.bytes]
  <2>1. /\ x \in Seq(Token) /\ Len(x) = Len(segs[file.seg]) + Len(done)
        /\ \A j \in 1..(Len(segs[file.seg]) + Len(done)) :
             x[j] = IF j <= Len(segs[file.seg]) THEN segs[file.seg][j] ELSE done[j - Len(segs[file.seg])]
    BY <1>2, <1>4, ConcatProperties
  <2> HIDE DEF x
  <2> QED
    BY <1>3, <2>1
<1>6. segs' = [segs EXCEPT ![file.seg] = x]
  BY <1>3 DEF Written
<1> HIDE DEF x
<1>7. \A j \in 1..file.bytes : x[j] = segs[file.seg][j]
  <2>1. \A j \in 1..file.bytes : j \in 1..(file.bytes + Len(done)) /\ j <= file.bytes
    BY <1>2, <1>4
  <2> QED
    BY <1>5, <2>1
<1>8. x[file.bytes + 1] = Newline /\ (Len(done) = 2 => x[file.bytes + 2] = rec)
  <2>1. ASSUME NEW n \in 1..Len(done) PROVE x[file.bytes + n] = done[n]
    <3>1. PICK k \in 1..(file.bytes + Len(done)) : k = file.bytes + n
      BY <1>2, <1>4
    <3>2. k - file.bytes = n /\ ~(k <= file.bytes)
      BY <3>1, <1>2, <1>4
    <3>3. x[k] = done[k - file.bytes]
      BY <3>2, <1>5
    <3> QED
      BY <3>1, <3>2, <3>3
  <2>2. 1 \in 1..Len(done) /\ (Len(done) = 2 => 2 \in 1..Len(done))
    BY <1>4
  <2> QED
    BY <2>1, <2>2, <1>4, Zenon
<1>9. /\ segs' \in Seq(Seq(Token)) /\ Len(segs') = file.seg /\ segs'[file.seg] = x
      /\ \A k \in 1..(file.seg - 1) : segs'[k] = segs[k]
  <2>1. /\ segs' \in Seq(Seq(Token)) /\ Len(segs') = Len(segs) /\ segs'[file.seg] = x
        /\ \A k \in 1..Len(segs) : k # file.seg => segs'[k] = segs[k]
    BY <1>2, <1>5, <1>6, SegmentChanged DEF Files
  <2>2. \A k \in 1..(file.seg - 1) : k \in 1..Len(segs) /\ k # file.seg
    BY <1>1, <1>3
  <2> QED
    BY <1>3, <2>1, <2>2
<1>10. Agrees(file)
  <2>1. file.bytes <= Len(x)
    BY <1>2, <1>4, <1>5
  <2> QED
    BY <1>7, <1>9, <2>1 DEF Agrees
<1>11. AlwaysReadable'
  <2>1. Listed(file)'
    BY <1>9 DEF Listed
  <2>2. SuffixFine(x, file.bytes)
    <3>1. Len(x) = file.bytes + 1 \/ (Len(x) = file.bytes + 2 /\ Len(done) = 2)
      BY <1>2, <1>4, <1>5
    <3> QED
      BY <1>2, <1>8, <3>1 DEF SuffixFine
  <2> QED
    BY <1>1, <1>9, <1>10, <2>1, <2>2, ReadableStays DEF AlwaysReadable
<1> QED
  BY <1>4, <1>5, <1>8, <1>9, <1>10, <1>11

\* The record is written, or torn.
LEMMA WriteRecordKeeps ==
  ASSUME NEW p \in Procs, Kept(p), NEW whole \in BOOLEAN, WriteRecord(p, whole)
  PROVE  Kept(p)' /\ LogStep
<1> DEFINE gap == IF Rotates(mem[p]) THEN <<>> ELSE <<Newline>>
           rec == IF whole THEN Record(Root(p), 1, 1) ELSE Torn
<1>1. /\ work' \in [Procs -> Steps] /\ work[p] = "append"
      /\ work'[p] = IF whole THEN "publish" ELSE "torn"
  <2>1. (IF whole THEN "publish" ELSE "torn") \in Steps
    BY DEF Steps
  <2> QED
    BY <2>1, WorksTyped DEF WriteRecord, Kept
<1>2. mem[p] = file /\ file.kind = "v3"
  BY <1>1 DEF Kept, Ready
<1>3. UNCHANGED <<file, temp, mem, acked>>
  BY DEF WriteRecord
<1>4. PICK done :
        /\ done = gap \/ done = gap \o <<rec>>
        /\ (whole => done = gap \o <<rec>>)
        /\ Written(done)
  BY DEF WriteRecord, Written
<1>5. /\ Readable(file) /\ Lengths /\ file.seg > 0 /\ file \in Heads /\ file.seg \in 1..Len(segs)
      /\ file.bytes <= Len(segs[file.seg]) /\ file.bytes \in Nat /\ segs[file.seg] \in Seq(Token)
      /\ file.bytes > 0 /\ file.seg \in Nat
  BY <1>2, OwnSegments DEF Kept
<1>6. /\ NewHead(p) \in Heads /\ NewHead(p).kind = "v3" /\ NewHead(p).root = Root(p)
      /\ Front(NewHead(p).root) = file.root
      /\ NewHead(p).root # <<>> /\ Root(p) \in Seq(Procs)
      /\ NewHead(p).seg = IF Rotates(file) THEN file.seg + 1 ELSE file.seg
      /\ NewHead(p).bytes = IF Rotates(file) THEN 1 ELSE file.bytes + 2
  BY <1>2, NewHeadTyped DEF Kept, Root
<1>7. NewHead(p)' = NewHead(p)
  BY <1>3 DEF NewHead, Root, Rotates
<1>8. rec \in Token /\ Newline \in Token /\ rec # Newline
  <2>1. Record(Root(p), 1, 1) \in Token /\ Torn \in Token /\ Newline \in Token
    BY <1>6, TokensTyped
  <2>2. Record(Root(p), 1, 1) # Newline /\ Torn # Newline
    BY DEF Record, Torn, Newline
  <2> QED
    BY <2>1, <2>2
<1> PICK h \in Heads : h = NewHead(p)
  BY <1>6
<1>9. h.kind = "v3" /\ h.root # <<>> /\ Front(h.root) = file.root /\ h = NewHead(p)'
  BY <1>6, <1>7
<1>10. whole => rec = Record(h.root, 1, 1)
  BY <1>6
<1>10a. (Rotates(file) => gap = <<>>) /\ (~Rotates(file) => gap = <<Newline>>)
  BY <1>2
<1> HIDE DEF gap, rec
<1>11. Agrees(file) /\ segs' \in Seq(Seq(Token)) /\ AlwaysReadable'
       /\ (whole => h.seg > 0 /\ Readable(h)' /\ Len(segs') = h.seg /\ Len(segs'[h.seg]) = h.bytes)
  <2>1. CASE Rotates(file)
    <3>1. Len(segs) = file.seg + 1 /\ segs[file.seg + 1] = <<>> /\ Closed
      BY <1>1, <2>1 DEF Kept, Ready
    <3>2. (done = <<>> \/ done = <<rec>>) /\ (whole => done = <<rec>>)
      BY <1>4, <1>8, <1>10a, <2>1, ShortSequences
    <3>4. /\ segs' \in Seq(Seq(Token)) /\ AlwaysReadable' /\ Agrees(file)
          /\ Len(segs') = file.seg + 1 /\ Len(segs'[file.seg]) = file.bytes + 1
          /\ segs'[file.seg][file.bytes + 1] = Newline
          /\ done = <<rec>> => Len(segs'[file.seg + 1]) = 1 /\ segs'[file.seg + 1][1] = rec
      BY <1>2, <1>3, <1>4, <1>8, <3>1, <3>2, WrittenRotated DEF Kept
    <3>5. ASSUME whole PROVE h.seg > 0 /\ Readable(h)' /\ Len(segs') = h.seg /\ Len(segs'[h.seg]) = h.bytes
      <4>1. h.seg = file.seg + 1 /\ h.bytes = 1
        BY <1>6, <2>1
      <4>2. Len(segs') = h.seg /\ Len(segs'[h.seg]) = 1 /\ segs'[h.seg][1] = Record(h.root, 1, 1)
        BY <1>10, <3>2, <3>4, <3>5, <4>1
      <4>5. Readable(h)'
        BY <1>3, <1>5, <1>9, <3>4, <4>1, <4>2, RotatedReadable
      <4> QED
        BY <1>5, <4>1, <4>2, <4>5
    <3> QED
      BY <3>4, <3>5
  <2>2. CASE ~Rotates(file)
    <3>1. Len(segs) = file.seg /\ Len(segs[file.seg]) = file.bytes
      BY <1>1, <2>2 DEF Kept, Ready, Cut
    <3>2. (done = <<Newline>> \/ done = <<Newline, rec>>) /\ (whole => done = <<Newline, rec>>)
      BY <1>4, <1>8, <1>10a, <2>2, ShortSequences
    <3>4. /\ segs' \in Seq(Seq(Token)) /\ AlwaysReadable' /\ Agrees(file)
          /\ Len(segs') = file.seg /\ segs'[file.seg][file.bytes + 1] = Newline
          /\ done = <<Newline, rec>> =>
               Len(segs'[file.seg]) = file.bytes + 2 /\ segs'[file.seg][file.bytes + 2] = rec
      BY <1>2, <1>3, <1>4, <1>8, <3>1, <3>2, WrittenAppended DEF Kept, Cut
    <3>5. ASSUME whole PROVE h.seg > 0 /\ Readable(h)' /\ Len(segs') = h.seg /\ Len(segs'[h.seg]) = h.bytes
      <4>1. h.seg = file.seg /\ h.bytes = file.bytes + 2
        BY <1>6, <2>2
      <4>2. /\ Len(segs') = h.seg /\ Len(segs'[h.seg]) = h.bytes
            /\ segs'[h.seg][file.bytes + 1] = Newline /\ segs'[h.seg][h.bytes] = Record(h.root, 1, 1)
        BY <1>10, <3>2, <3>4, <3>5, <4>1
      <4>5. Readable(h)'
        BY <1>3, <1>5, <1>9, <3>4, <4>1, <4>2, AppendedReadable
      <4> QED
        BY <1>5, <4>1, <4>2, <4>5
    <3> QED
      BY <3>4, <3>5
  <2> QED
    BY <2>1, <2>2
<1>12. Files'
  BY <1>1, <1>3, <1>11 DEF Kept, Files
<1>13. Ready(p)'
  <2>1. CASE whole
    BY <1>1, <1>2, <1>3, <1>9, <1>11, <2>1 DEF Ready
  <2>2. CASE ~whole
    BY <1>1, <2>2 DEF Ready
  <2> QED
    BY <2>1, <2>2
<1> QED
  BY <1>3, <1>11, <1>12, <1>13, NothingCommitted DEF Kept

\* The run file is replaced: this commits.
LEMMA PublishKeeps ==
  ASSUME NEW p \in Procs, Kept(p), Publish(p)
  PROVE  Kept(p)' /\ LogStep
<1>1. work' \in [Procs -> Steps] /\ work'[p] = "delimit" /\ work[p] = "publish"
  BY WorksTyped DEF Publish, Kept, Steps
<1>2. mem[p] = file /\ file.kind = "v3"
  BY <1>1 DEF Kept, Ready
<1>3. UNCHANGED <<segs, temp, mem, acked>> /\ file' = NewHead(p)
  BY DEF Publish
<1>4. PICK h \in Heads : /\ h = NewHead(p) /\ h.seg > 0 /\ h.root # <<>> /\ Readable(h)
                         /\ Len(segs) = h.seg /\ Len(segs[h.seg]) = h.bytes
  BY <1>1 DEF Kept, Ready
<1>5. h.kind = "v3" /\ h.root = Append(file.root, p) /\ file' = h
  BY <1>2, <1>3, <1>4, NewHeadTyped DEF Kept
<1>6. Files'
  BY <1>1, <1>3, <1>4, <1>5 DEF Kept, Files
<1>7. AlwaysReadable'
  BY <1>3, <1>4, <1>5 DEF AlwaysReadable, Readable, Listed, OrphanFine, InteriorFine, ActiveFine,
       SuffixFine, Alternates, Chained, Extent, Before, LastRecord
<1>8. Ready(p)'
  BY <1>1, <1>3, <1>4, <1>5 DEF Ready, Cut
<1>9. LogStep
  <2>1. Replayed = file.root
    BY <1>2, ReplayedIsHead DEF Kept
  <2>2. Replayed' = file'.root
    <3>1. (Replayed = IF file.kind = "absent" THEN <<>> ELSE file.root)'
      BY <1>6, <1>7, ReplayedIsHead, PTL
    <3> QED
      BY <1>5, <3>1
  <2>3. Replayed' = Append(Replayed, p)
    BY <1>5, <2>1, <2>2
  <2> QED
    BY <1>3, <2>3 DEF LogStep, Log!DNext, Log!Commit
<1> QED
  BY <1>6, <1>7, <1>8, <1>9 DEF Kept

\* The commit returns: what it acknowledges is what recovery yields.
LEMMA AcknowledgeKeeps ==
  ASSUME NEW p \in Procs, Kept(p), Acknowledge(p)
  PROVE  Kept(p)' /\ LogStep
<1>1. work' \in [Procs -> Steps] /\ work'[p] = "idle" /\ work[p] = "delimit"
  BY WorksTyped DEF Acknowledge, Kept, Steps, Idle
<1>2. file.kind = "v3" /\ Cut
  BY <1>1 DEF Kept, Ready
<1>3. /\ UNCHANGED <<file, temp>> /\ mem' = [mem EXCEPT ![p] = file] /\ acked' = file.root
      /\ segs' = [segs EXCEPT ![file.seg] = Append(segs[file.seg], Newline)]
  BY DEF Acknowledge
<1>4. /\ Readable(file) /\ Lengths /\ file.seg > 0 /\ file \in Heads /\ file.seg \in 1..Len(segs)
      /\ file.bytes <= Len(segs[file.seg]) /\ file.bytes \in Nat /\ segs[file.seg] \in Seq(Token)
      /\ file.bytes > 0
  BY <1>2, OwnSegments DEF Kept
<1> DEFINE x == Append(segs[file.seg], Newline)
<1>5. /\ x \in Seq(Token) /\ Len(x) = file.bytes + 1 /\ x[file.bytes + 1] = Newline
      /\ \A j \in 1..file.bytes : x[j] = segs[file.seg][j]
  <2>1. Newline \in Token
    BY TokensTyped
  <2> QED
    BY <1>2, <1>4, <2>1, AppendProperties DEF Cut
<1> HIDE DEF x
<1>6. /\ segs' \in Seq(Seq(Token)) /\ Len(segs') = Len(segs) /\ segs'[file.seg] = x
      /\ \A k \in 1..Len(segs) : k # file.seg => segs'[k] = segs[k]
  <2>1. segs' = [segs EXCEPT ![file.seg] = x]
    BY <1>3 DEF x
  <2> QED
    BY <1>4, <1>5, <2>1, SegmentChanged DEF Kept, Files
<1>7. Files'
  BY <1>1, <1>2, <1>3, <1>6 DEF Kept, Files
<1>8. AlwaysReadable'
  <2>1. Agrees(file) /\ Listed(file)' /\ SuffixFine(segs'[file.seg], file.bytes)
    BY <1>2, <1>3, <1>4, <1>5, <1>6 DEF Agrees, Listed, SuffixFine, Cut
  <2> QED
    BY <1>3, <1>4, <2>1, ReadableStays DEF AlwaysReadable
<1>9. Ready(p)'
  BY <1>1 DEF Ready
<1>10. LogStep
  <2>1. Replayed = file.root
    BY <1>2, ReplayedIsHead DEF Kept
  <2>2. (Replayed = IF file.kind = "absent" THEN <<>> ELSE file.root)'
    BY <1>7, <1>8, ReplayedIsHead, PTL
  <2>3. Replayed' = Replayed /\ acked' = Replayed
    BY <1>2, <1>3, <2>1, <2>2
  <2> QED
    BY <2>3 DEF LogStep, Log!DNext, Log!Acknowledge
<1> QED
  BY <1>7, <1>8, <1>9, <1>10 DEF Kept

\* A run without files gets its first record.
LEMMA InitializeKeeps ==
  ASSUME NEW p \in Procs, Kept(p), MaxBytes \in Nat, Initialize(p)
  PROVE  Kept(p)' /\ LogStep
<1> DEFINE one == <<p>>
<1>0. one \in Seq(Procs) /\ one # <<>> /\ one = Append(<<>>, p)
  OBVIOUS
<1>1. ASSUME file.kind = "absent", Works(p, Idle, "layout"), segs' = << <<>> >>,
    UNCHANGED <<file, temp, mem, acked>>
      PROVE  Kept(p)' /\ LogStep
  <2>1. work' \in [Procs -> Steps] /\ work'[p] = "layout"
    BY <1>1, WorksTyped DEF Kept, Steps
  <2>2. segs' \in Seq(Seq(Token))
    BY <1>1
  <2>3. Files'
    BY <1>1, <2>1, <2>2 DEF Kept, Files
  <2>4. AlwaysReadable'
    BY <1>1 DEF AlwaysReadable
  <2>5. Ready(p)'
    BY <1>1, <2>1 DEF Ready
  <2> QED
    BY <1>1, <2>3, <2>4, <2>5, NothingCommitted DEF Kept
<1>2. ASSUME Works(p, "layout", "first"), segs' = Snapshot(one), UNCHANGED <<file, temp, mem, acked>>
      PROVE  Kept(p)' /\ LogStep
  <2>1. work' \in [Procs -> Steps] /\ work'[p] = "first" /\ work[p] = "layout"
    BY <1>2, WorksTyped DEF Kept, Steps
  <2>2. file.kind = "absent"
    BY <2>1 DEF Kept, Ready
  <2>3. segs' \in Seq(Seq(Token))
    <3> PICK t : t = Snapshot(one)
      OBVIOUS
    <3> QED
      BY <1>0, <1>2, SnapshotReadable
  <2>4. Files'
    BY <1>2, <2>1, <2>3 DEF Kept, Files
  <2>5. AlwaysReadable'
    BY <1>2, <2>2 DEF AlwaysReadable
  <2>6. Ready(p)'
    BY <1>2, <2>1, <2>2 DEF Ready
  <2> QED
    BY <1>2, <2>4, <2>5, <2>6, NothingCommitted DEF Kept
<1>3. ASSUME Works(p, "first", "delimit"), file' = HeadOf(one, segs),
    UNCHANGED <<segs, temp, mem, acked>>
      PROVE  Kept(p)' /\ LogStep
  <2>1. work' \in [Procs -> Steps] /\ work'[p] = "delimit" /\ work[p] = "first"
    BY <1>3, WorksTyped DEF Kept, Steps
  <2>2. file.kind = "absent" /\ segs = Snapshot(one)
    BY <2>1 DEF Kept, Ready
  <2>3. PICK h : h = HeadOf(one, segs)
    OBVIOUS
  <2>4. /\ h \in Heads /\ h.seg = Len(segs) /\ h.seg > 0 /\ h.bytes = Len(segs[Len(segs)])
        /\ h.root = one /\ h.kind = "v3" /\ Readable(h)
    BY <1>0, <2>2, <2>3, SnapshotReadable
  <2>5. Files'
    BY <1>0, <1>3, <2>1, <2>3, <2>4 DEF Kept, Files
  <2>6. AlwaysReadable'
    BY <1>3, <2>3, <2>4 DEF AlwaysReadable, Readable, Listed, OrphanFine, InteriorFine,
        ActiveFine,
         SuffixFine, Alternates, Chained, Extent, Before, LastRecord
  <2>7. Ready(p)'
    BY <1>3, <2>1, <2>3, <2>4 DEF Ready, Cut
  <2>8. LogStep
    <3>1. Replayed = <<>>
      BY <2>2, ReplayedIsHead DEF Kept
    <3>2. (Replayed = IF file.kind = "absent" THEN <<>> ELSE file.root)'
      BY <2>5, <2>6, ReplayedIsHead, PTL
    <3>3. Replayed' = Append(Replayed, p)
      BY <1>0, <1>3, <2>3, <2>4, <3>1, <3>2
    <3> QED
      BY <1>3, <3>3 DEF LogStep, Log!DNext, Log!Commit
  <2> QED
    BY <2>5, <2>6, <2>7, <2>8 DEF Kept
<1> QED
  BY <1>1, <1>2, <1>3 DEF Initialize

\* A v2 run file is laid out again and replaced.
LEMMA MigrateKeeps ==
  ASSUME NEW p \in Procs, Kept(p), MaxBytes \in Nat, Migrate(p)
  PROVE  Kept(p)' /\ LogStep
<1>0. ASSUME file.kind = "v2"
      PROVE  file.root \in Seq(Procs) /\ file.root # <<>>
  BY <1>0 DEF Kept, Files, Heads
<1>1. ASSUME file.kind = "v2", Works(p, Idle, "layaside"), temp' = <<>>,
    UNCHANGED <<file, segs, mem, acked>>
      PROVE  Kept(p)' /\ LogStep
  <2>1. work' \in [Procs -> Steps] /\ work'[p] = "layaside"
    BY <1>1, WorksTyped DEF Kept, Steps
  <2>2. temp' \in Seq(Seq(Token))
    BY <1>1
  <2>3. Files'
    BY <1>1, <2>1, <2>2 DEF Kept, Files
  <2>4. AlwaysReadable'
    BY <1>1 DEF AlwaysReadable
  <2>5. Ready(p)'
    BY <1>1, <2>1 DEF Ready
  <2> QED
    BY <1>1, <2>3, <2>4, <2>5, NothingCommitted DEF Kept
<1>2. ASSUME Works(p, "layaside", "rename"), temp' = Snapshot(file.root),
    UNCHANGED <<file, segs, mem, acked>>
      PROVE  Kept(p)' /\ LogStep
  <2>1. work' \in [Procs -> Steps] /\ work'[p] = "rename" /\ work[p] = "layaside"
    BY <1>2, WorksTyped DEF Kept, Steps
  <2>2. file.kind = "v2"
    BY <2>1 DEF Kept, Ready
  <2>3. temp' \in Seq(Seq(Token))
    <3> PICK root : root = file.root
      OBVIOUS
    <3> PICK t : t = Snapshot(root)
      OBVIOUS
    <3> QED
      BY <1>0, <1>2, <2>2, SnapshotReadable
  <2>4. Files'
    BY <1>2, <2>1, <2>3 DEF Kept, Files
  <2>5. AlwaysReadable'
    BY <1>2, <2>2 DEF AlwaysReadable
  <2>6. Ready(p)'
    BY <1>2, <2>1, <2>2 DEF Ready
  <2> QED
    BY <1>2, <2>4, <2>5, <2>6, NothingCommitted DEF Kept
<1>3. ASSUME Works(p, "rename", "head"), segs' = temp, temp' = <<>>, UNCHANGED <<file, mem, acked>>
      PROVE  Kept(p)' /\ LogStep
  <2>1. work' \in [Procs -> Steps] /\ work'[p] = "head" /\ work[p] = "rename"
    BY <1>3, WorksTyped DEF Kept, Steps
  <2>2. file.kind = "v2" /\ temp = Snapshot(file.root)
    BY <2>1 DEF Kept, Ready
  <2>3. temp' \in Seq(Seq(Token)) /\ segs' \in Seq(Seq(Token))
    BY <1>3 DEF Kept, Files
  <2>4. Files'
    BY <1>3, <2>1, <2>3 DEF Kept, Files
  <2>5. AlwaysReadable'
    BY <1>3, <2>2 DEF AlwaysReadable
  <2>6. Ready(p)'
    BY <1>3, <2>1, <2>2 DEF Ready
  <2> QED
    BY <1>3, <2>4, <2>5, <2>6, NothingCommitted DEF Kept
<1>4. ASSUME Works(p, "head", "delimit"), file' = HeadOf(file.root, segs),
    UNCHANGED <<segs, temp, mem, acked>>
      PROVE  Kept(p)' /\ LogStep
  <2>1. work' \in [Procs -> Steps] /\ work'[p] = "delimit" /\ work[p] = "head"
    BY <1>4, WorksTyped DEF Kept, Steps
  <2>2. file.kind = "v2" /\ segs = Snapshot(file.root)
    BY <2>1 DEF Kept, Ready
  <2>3. PICK h : h = HeadOf(file.root, segs)
    OBVIOUS
  <2>4. /\ h \in Heads /\ h.seg = Len(segs) /\ h.seg > 0 /\ h.bytes = Len(segs[Len(segs)])
        /\ h.root = file.root /\ h.kind = "v3" /\ Readable(h)
    BY <1>0, <2>2, <2>3, SnapshotReadable
  <2>5. Files'
    BY <1>0, <1>4, <2>1, <2>2, <2>3, <2>4 DEF Kept, Files
  <2>6. AlwaysReadable'
    BY <1>4, <2>3, <2>4 DEF AlwaysReadable, Readable, Listed, OrphanFine, InteriorFine,
        ActiveFine,
         SuffixFine, Alternates, Chained, Extent, Before, LastRecord
  <2>7. Ready(p)'
    BY <1>4, <2>1, <2>3, <2>4 DEF Ready, Cut
  <2>8. LogStep
    <3>1. Replayed = file.root
      BY <2>2, ReplayedIsHead DEF Kept
    <3>2. (Replayed = IF file.kind = "absent" THEN <<>> ELSE file.root)'
      BY <2>5, <2>6, ReplayedIsHead, PTL
    <3>3. Replayed' = Replayed
      BY <1>4, <2>3, <2>4, <3>1, <3>2
    <3> QED
      BY <1>4, <3>3 DEF LogStep
  <2> QED
    BY <2>5, <2>6, <2>7, <2>8 DEF Kept
<1> QED
  BY <1>1, <1>2, <1>3, <1>4 DEF Migrate

\* A step fails; the run file is as it was, or already replaced.
LEMMA FailsKeeps ==
  ASSUME NEW p \in Procs, Kept(p), Fails(p)
  PROVE  Kept(p)' /\ LogStep
<1>1. work' \in [Procs -> Steps] /\ work'[p] = "idle"
  BY WorksTyped DEF Fails, Kept, Idle, Steps
<1>2. UNCHANGED <<file, segs, acked>> /\ mem' = [mem EXCEPT ![p] = NoHead] /\ temp' \in {<<>>, temp}
  BY DEF Fails
<1>3. Files'
  <2>1. NoHead \in Heads
    BY DEF NoHead, Heads
  <2>2. temp' \in Seq(Seq(Token))
    <3>1. <<>> \in Seq(Seq(Token))
      OBVIOUS
    <3> QED
      BY <1>2, <3>1 DEF Kept, Files
  <2> QED
    BY <1>1, <1>2, <2>1, <2>2 DEF Kept, Files
<1>4. AlwaysReadable'
  BY <1>2, ReadableUnmoved DEF Kept
<1>5. Ready(p)'
  BY <1>1 DEF Ready
<1> QED
  BY <1>2, <1>3, <1>4, <1>5, NothingCommitted DEF Kept

\* Every step of the holder keeps the ledger readable and is a step of the durable log.
LEMMA StoreKeeps ==
  ASSUME NEW p \in Procs, Kept(p), MaxBytes \in Nat, StoreStep(p)
  PROVE  Kept(p)' /\ LogStep
BY LoadKeeps, BeginKeeps, RemoveOrphanKeeps, TruncateKeeps, RotateKeeps, WriteRecordKeeps,
   PublishKeeps, AcknowledgeKeeps, InitializeKeeps, MigrateKeeps, FailsKeeps DEF StoreStep

-----------------------------------------------------------------------------

\* Who works on the files holds the lease, or died with it.
WorkHeld == \A p \in Procs : work[p] # Idle => stage[p] \in {"held", "dead"}
\* The holder's next step finds what it needs.
HolderReady == \A p \in Procs : stage[p] = "held" => Ready(p)
\* The inductive invariant of the ledger.
LedgerInv == LockInv /\ WorkHeld /\ Files /\ AlwaysReadable /\ HolderReady

\* It holds at first.
LEMMA LedgerStarts == Init => LedgerInv
<1> SUFFICES ASSUME Init PROVE LedgerInv
  OBVIOUS
<1>1. scene.legacy \in Seq(Procs)
  BY LedgerAssumption DEF Init
<1>2. LockInv
  BY LockStarts DEF Init
<1>3. work = [p \in Procs |-> "idle"] /\ mem = [p \in Procs |-> NoHead] /\ segs = <<>> /\ temp = <<>>
  BY DEF Init, Idle
<1>4. NoHead \in Heads
  BY DEF NoHead, Heads
<1>5. /\ file \in Heads /\ file.kind # "v3" /\ (file.kind = "v2" => file.root # <<>>)
  <2>1. CASE scene.legacy = <<>>
    BY <1>4, <2>1 DEF Init, NoHead
  <2>2. CASE scene.legacy # <<>>
    BY <1>1, <2>2 DEF Init, Heads
  <2> QED
    BY <2>1, <2>2
<1>6. segs \in Seq(Seq(Token)) /\ temp \in Seq(Seq(Token))
  BY <1>3
<1>7. work \in [Procs -> Steps]
  BY <1>3 DEF Steps
<1>8. Files
  BY <1>3, <1>4, <1>5, <1>6, <1>7 DEF Files
<1>9. WorkHeld /\ AlwaysReadable /\ HolderReady
  BY <1>3, <1>5 DEF WorkHeld, Idle, AlwaysReadable, HolderReady, Ready
<1> QED
  BY <1>2, <1>8, <1>9 DEF LedgerInv

\* The steps of the lease leave the files and the other processes alone.
LEMMA LockMoves ==
  ASSUME LockInv, NEW p \in Procs, Acquiring(p) \/ Crash(p)
  PROVE  /\ \A q \in Procs : q # p => stage'[q] = stage[q]
         /\ stage[p] # "dead"
         /\ stage[p] = "held" => stage'[p] = "dead"
<1> USE DEF Goes, LockInv, LockTypeOK
<1>1. CASE Create(p)
  BY <1>1 DEF Create
<1>2. CASE WriteOwner(p)
  BY <1>2 DEF WriteOwner
<1>3. CASE WriteFails(p)
  BY <1>3 DEF WriteFails
<1>4. CASE TakeGuard(p)
  BY <1>4 DEF TakeGuard
<1>5. CASE GiveUp(p)
  BY <1>5 DEF GiveUp
<1>6. CASE ReadStale(p)
  BY <1>6 DEF ReadStale
<1>7. CASE Reread(p)
  BY <1>7 DEF Reread
<1>8. CASE Unlink(p)
  BY <1>8 DEF Unlink
<1>9. CASE Recreate(p)
  BY <1>9 DEF Recreate
<1>10. CASE DropGuard(p)
  BY <1>10 DEF DropGuard
<1>11. CASE Crash(p)
  BY <1>11 DEF Crash
<1> QED
  BY <1>1, <1>2, <1>3, <1>4, <1>5, <1>6, <1>7, <1>8, <1>9, <1>10, <1>11 DEF Acquiring

\* And then the files are as readable as before.
LEMMA LedgerUnmoved ==
  ASSUME Files, AlwaysReadable, UNCHANGED ledgerVars
  PROVE  /\ Files' /\ AlwaysReadable' /\ UNCHANGED <<Replayed, acked>>
         /\ \A p \in Procs : Ready(p) => Ready(p)'
<1>1. UNCHANGED <<file, segs, temp, mem, work, acked>>
  BY DEF ledgerVars
<1>2. Files'
  BY <1>1 DEF Files
<1>3. AlwaysReadable'
  BY <1>1, ReadableUnmoved
<1>4. UNCHANGED <<Replayed, acked>>
  BY <1>1 DEF Replayed, LastRecord
<1>5. ASSUME NEW p \in Procs, Ready(p) PROVE Ready(p)'
  <2>1. NewHead(p)' = NewHead(p)
    BY <1>1 DEF NewHead, Root, Rotates
  <2>2. ASSUME NEW h \in Heads, Readable(h) PROVE Readable(h)'
    BY <1>1, <2>2 DEF Readable, Listed, OrphanFine, InteriorFine, ActiveFine, SuffixFine,
        Alternates,
         Chained, Extent, Before, LastRecord
  <2>3. work'[p] = "publish" =>
          \E h \in Heads : /\ h = NewHead(p)' /\ h.seg > 0 /\ h.root # <<>> /\ Readable(h)'
                         /\ Len(segs') = h.seg /\ Len(segs'[h.seg]) = h.bytes
    BY <1>1, <1>5, <2>1, <2>2 DEF Ready
  <2> QED
    BY <1>1, <1>5, <2>3 DEF Ready, Cut, Closed, Rotates
<1> QED
  BY <1>2, <1>3, <1>4, <1>5

\* Every step keeps it, and is a step of the durable log or none.
LEMMA LedgerSteps ==
  ASSUME LedgerInv, [Next]_vars
  PROVE  LedgerInv' /\ LogStep
<1>1. MutualExclusion
  BY DEF LedgerInv, LockInv, FileOwned, MutualExclusion
<1>2. ASSUME NEW p \in Procs, LockStep(p)
      PROVE  LedgerInv' /\ LogStep
  <2>1. LockInv' /\ UNCHANGED ledgerVars
    BY <1>2, LockSteps DEF LockStep, LedgerInv
  <2>2. Files' /\ AlwaysReadable' /\ UNCHANGED <<Replayed, acked>> /\ \A q \in Procs : Ready(q) => Ready(q)'
    BY <2>1, LedgerUnmoved DEF LedgerInv
  <2>3. /\ \A q \in Procs : q # p => stage'[q] = stage[q]
        /\ stage[p] # "dead"
        /\ stage[p] = "held" => (work[p] = Idle \/ stage'[p] = "dead")
    <3>1. CASE Acquiring(p) \/ Crash(p)
      BY <3>1, LockMoves DEF LedgerInv
    <3>2. CASE work[p] = Idle /\ Release(p)
      BY <3>2 DEF LedgerInv, LockInv, LockTypeOK, Release, Goes
    <3> QED
      BY <1>2, <3>1, <3>2 DEF LockStep
  <2>4. UNCHANGED work
    BY <2>1 DEF ledgerVars
  <2>5. WorkHeld'
    BY <2>3, <2>4 DEF WorkHeld, LedgerInv, Idle
  <2>6. HolderReady'
    <3> SUFFICES ASSUME NEW q \in Procs, stage'[q] = "held" PROVE Ready(q)'
      BY DEF HolderReady
    <3>1. CASE stage[q] = "held"
      BY <2>2, <3>1 DEF HolderReady, LedgerInv
    <3>2. CASE stage[q] # "held"
      <4>1. work'[q] = "idle"
        BY <2>3, <2>4, <3>2 DEF WorkHeld, LedgerInv, Idle
      <4> QED
        BY <4>1 DEF Ready
    <3> QED
      BY <3>1, <3>2
  <2> QED
    BY <2>1, <2>2, <2>5, <2>6 DEF LedgerInv, LogStep
<1>3. ASSUME NEW p \in Procs, StoreStep(p)
      PROVE  LedgerInv' /\ LogStep
  <2>1. UNCHANGED lockVars /\ stage[p] = "held" /\ \A q \in Procs : q # p => work'[q] = work[q]
    BY <1>3 DEF StoreStep, Load, Begin, RemoveOrphan, Truncate, Rotate, WriteRecord, Publish,
            Acknowledge, Initialize, Migrate, Fails, Works, LedgerInv, Files
  <2>2. LockInv'
    BY <2>1 DEF lockVars, LedgerInv, LockInv, LockTypeOK, GuardOwned, FileOwned, OwnerIsProcess,
        StaleIsDead
  <2>3. Kept(p)' /\ LogStep
    <3>1. MaxBytes \in Nat
      BY LedgerAssumption
    <3>2. Kept(p)
      BY <2>1 DEF Kept, LedgerInv, HolderReady
    <3> QED
      BY <1>3, <3>1, <3>2, StoreKeeps
  <2>4. UNCHANGED stage
    BY <2>1 DEF lockVars
  <2>5. WorkHeld'
    BY <2>1, <2>4 DEF WorkHeld, LedgerInv
  <2>6. HolderReady'
    BY <1>1, <2>1, <2>3, <2>4 DEF HolderReady, MutualExclusion, Holding, Kept
  <2> QED
    BY <2>2, <2>3, <2>5, <2>6 DEF LedgerInv, Kept
<1>4. CASE UNCHANGED vars
  <2>1. UNCHANGED ledgerVars /\ UNCHANGED lockVars
    BY <1>4 DEF vars
  <2>2. Files' /\ AlwaysReadable' /\ UNCHANGED <<Replayed, acked>> /\ \A q \in Procs : Ready(q) => Ready(q)'
    BY <2>1, LedgerUnmoved DEF LedgerInv
  <2>3. LockInv'
    BY <2>1 DEF lockVars, LedgerInv, LockInv, LockTypeOK, GuardOwned, FileOwned, OwnerIsProcess,
        StaleIsDead
  <2>4. WorkHeld'
    BY <2>1 DEF lockVars, ledgerVars, WorkHeld, LedgerInv
  <2>5. HolderReady'
    BY <2>1, <2>2 DEF lockVars, HolderReady, LedgerInv
  <2> QED
    BY <2>2, <2>3, <2>4, <2>5 DEF LedgerInv, LogStep
<1> QED
  BY <1>2, <1>3, <1>4 DEF Next

\* The ledger implements the durable log: at every instant, a crash between any two of
\* its writes included, recovery yields the root of the last commit, and a commit adds
\* one entry to it.
THEOREM LedgerIsDurableLog == Spec => LogSpec
<1>1. Init => LedgerInv
  BY LedgerStarts
<1>2. LedgerInv /\ [Next]_vars => LedgerInv' /\ LogStep
  BY LedgerSteps
<1>3. Init => Log!DInit
  <2> SUFFICES ASSUME Init PROVE Log!DInit
    OBVIOUS
  <2>1. Files /\ AlwaysReadable
    BY LedgerStarts DEF LedgerInv
  <2>2. Replayed \in Seq(Procs)
    <3>1. Replayed = <<>> \/ Replayed = file.root
      BY <2>1, ReplayedIsHead
    <3>2. file.root \in Seq(Procs)
      BY <2>1 DEF Files, Heads
    <3>3. <<>> \in Seq(Procs)
      OBVIOUS
    <3> QED
      BY <3>1, <3>2, <3>3, Zenon
  <2> QED
    BY <2>2 DEF Log!DInit, Init
<1>4. LedgerInv => AlwaysReadable
  BY DEF LedgerInv
<1> QED
  BY <1>1, <1>2, <1>3, <1>4, PTL DEF Spec, LogSpec, Log!DSpec, LogStep

-----------------------------------------------------------------------------
\* The durable log keeps what it acknowledged, and is typed.
LogInv == Replayed \in Seq(Procs) /\ acked \in Seq(Procs) /\ Log!AckedKept

\* The durable log never loses what it acknowledged.
THEOREM LogKeepsAcknowledged == Log!DSpec => []Log!AckedKept
<1>1. Log!DInit => LogInv
  <2> SUFFICES ASSUME Log!DInit PROVE LogInv
    OBVIOUS
  <2>1. Replayed \in Seq(Procs) /\ acked = <<>>
    BY DEF Log!DInit
  <2> HIDE DEF Replayed
  <2> QED
    BY <2>1 DEF LogInv, Log!AckedKept
<1>2. LogInv /\ [Log!DNext]_<<Replayed, acked>> => LogInv'
  <2> SUFFICES ASSUME LogInv, [Log!DNext]_<<Replayed, acked>> PROVE LogInv'
    OBVIOUS
  <2>1. CASE Log!Commit
    <3>1. PICK a \in Procs : Replayed' = Append(Replayed, a)
      BY <2>1 DEF Log!Commit
    <3>2. acked' = acked
      BY <2>1 DEF Log!Commit
    <3>3. Replayed' \in Seq(Procs) /\ Len(Replayed') = Len(Replayed) + 1
      BY <3>1 DEF LogInv
    <3>4. SubSeq(Replayed', 1, Len(acked)) = SubSeq(Replayed, 1, Len(acked))
      BY <3>1 DEF LogInv, Log!AckedKept
    <3> QED
      BY <3>2, <3>3, <3>4 DEF LogInv, Log!AckedKept
  <2>2. CASE Log!Acknowledge
    <3>1. SubSeq(Replayed, 1, Len(Replayed)) = Replayed
      BY DEF LogInv
    <3> QED
      BY <2>2, <3>1 DEF Log!Acknowledge, LogInv, Log!AckedKept
  <2>3. CASE UNCHANGED <<Replayed, acked>>
    BY <2>3 DEF LogInv, Log!AckedKept
  <2> QED
    BY <2>1, <2>2, <2>3 DEF Log!DNext
<1>3. LogInv => Log!AckedKept
  BY DEF LogInv
<1> QED
  BY <1>1, <1>2, <1>3, PTL DEF Log!DSpec

\* So neither does the ledger: every acknowledged commit is in what recovery yields, for
\* any processes, any segment limit and any crash.
THEOREM LedgerKeepsAcknowledged == Spec => []Log!AckedKept
BY LedgerIsDurableLog, LogKeepsAcknowledged, PTL DEF LogSpec

-----------------------------------------------------------------------------
(***************************************************************************)
(* A recovery is fooled about an entry by as many empty looks as it asks     *)
(* for; a descendant that dodges fewer scans is found.                       *)
(***************************************************************************)
FewHops == MaxHops < EmptyLooks

\* The types of the processes, their records and the recovery.
ProcessTypes ==
  /\ leader \in [Jobs -> {"none", "up", "zero", "nonzero"}]
  /\ rest \in [Jobs -> {"none", "group", "escaped", "gone"}]
  /\ record \in [Jobs -> {"none", "pending", "failed", "complete"}]
  /\ heal \in [phase : {"none", "SIGTERM", "SIGKILL", "closed", "refused"}, tries : Nat,
               passes : Nat, hops : 0..MaxHops, entries : SUBSET Jobs,
               empty : [Jobs -> Nat], seen : SUBSET Jobs]

(* While a resume looks for the processes, a living one is among the entries *)
(* it looks for, and every empty look it survived is a scan it dodged.       *)
Recovering ==
  heal.phase \in {"SIGTERM", "SIGKILL"} =>
    /\ host = "gone"
    /\ \A j \in Jobs : Alive(j) => j \in heal.entries /\ heal.empty[j] <= heal.hops

\* The inductive invariant of the processes.
ProcessesInv == ProcessTypes /\ LivingIsOwed /\ Recovering

\* It holds at first.
LEMMA ProcessesStart ==
  ASSUME ProcessesInit
  PROVE  ProcessesInv
<1>1. MaxHops \in Nat
  BY ProcessesAssumption
<1>2. ProcessTypes
  BY <1>1 DEF ProcessesInit, ProcessTypes, NoHeal
<1>3. \A j \in Jobs : ~Alive(j)
  BY DEF ProcessesInit, Alive
<1>4. heal.phase = "none"
  BY DEF ProcessesInit, NoHeal
<1> QED
  BY <1>2, <1>3, <1>4 DEF ProcessesInv, LivingIsOwed, Recovering

(* A step that lets processes only end, and that keeps the driver, the record *)
(* and the recovery.                                                          *)
LEMMA NothingNew ==
  ASSUME ProcessesInv, UNCHANGED <<record, heal>>, host' = host \/ host' = "gone",
         leader' \in [Jobs -> {"none", "up", "zero", "nonzero"}],
         rest' \in [Jobs -> {"none", "group", "escaped", "gone"}],
         \A j \in Jobs : Alive(j)' => Alive(j) /\ (host' = "up" /\ j \in registry => j \in registry')
  PROVE  ProcessesInv'
<1>1. ProcessTypes'
  BY DEF ProcessTypes, ProcessesInv
<1>2. LivingIsOwed'
  BY DEF LivingIsOwed, ProcessesInv
<1>3. Recovering'
  BY DEF Recovering, ProcessesInv
<1> QED
  BY <1>1, <1>2, <1>3 DEF ProcessesInv

(* Whatever is killed, no process comes of it.                              *)
LEMMA KillTreeEnds ==
  ASSUME ProcessTypes, NEW j \in Jobs, KillTree(j)
  PROVE  /\ leader' \in [Jobs -> {"none", "up", "zero", "nonzero"}]
         /\ rest' \in [Jobs -> {"none", "group", "escaped", "gone"}]
         /\ \A i \in Jobs : Alive(i)' => Alive(i)
BY DEF KillTree, Fallen, Alive, ProcessTypes, world

(* A cleanup that takes an entry off the record saw that nothing lives.     *)
LEMMA CleanupKeeps ==
  ASSUME ProcessesInv, NEW j \in Jobs, KillTree(j), Retired(j) \/ UNCHANGED <<record, registry>>,
         UNCHANGED <<heal, host>>, host = "up"
  PROVE  ProcessesInv'
<1>1. /\ leader' \in [Jobs -> {"none", "up", "zero", "nonzero"}]
      /\ rest' \in [Jobs -> {"none", "group", "escaped", "gone"}]
      /\ \A i \in Jobs : Alive(i)' => Alive(i)
  BY KillTreeEnds DEF ProcessesInv
<1>2. CASE UNCHANGED <<record, registry>>
  BY <1>1, <1>2, NothingNew
<1>3. CASE Retired(j)
  <2>1. ProcessTypes'
    BY <1>1, <1>3 DEF ProcessTypes, ProcessesInv, Retired
  <2>2. LivingIsOwed'
    <3> SUFFICES ASSUME NEW i \in Jobs, Alive(i)'
                 PROVE  record'[i] \in {"pending", "failed"} /\ i \in registry'
      BY DEF LivingIsOwed
    <3>1. i # j /\ Alive(i)
      BY <1>1, <1>3 DEF Retired
    <3>2. record[i] \in {"pending", "failed"} /\ i \in registry
      BY <3>1 DEF ProcessesInv, LivingIsOwed
    <3> QED
      BY <1>3, <3>1, <3>2 DEF Retired, ProcessesInv, ProcessTypes
  <2>3. Recovering'
    BY DEF Recovering, ProcessesInv
  <2> QED
    BY <2>1, <2>2, <2>3 DEF ProcessesInv
<1> QED
  BY <1>2, <1>3

\* A job is registered before its process is there, and its record before that.
LEMMA LaunchKeeps ==
  ASSUME ProcessesInv, NEW j \in Jobs, Launch(j)
  PROVE  ProcessesInv'
<1>1. host = "up" /\ UNCHANGED <<rest, heal>> /\ heal.phase \notin {"SIGTERM", "SIGKILL"}
  BY DEF Launch, At, ProcessesInv, Recovering
<1>2. Recovering'
  BY <1>1 DEF Recovering
<1>3. CASE DiesLaunching(j) /\ host' = "gone"
  <2>1. ProcessTypes'
    BY <1>1, <1>3 DEF ProcessTypes, ProcessesInv, DiesLaunching
  <2>2. LivingIsOwed'
    BY <1>1, <1>3 DEF LivingIsOwed, ProcessesInv, ProcessTypes, DiesLaunching, Alive
  <2> QED
    BY <1>2, <2>1, <2>2 DEF ProcessesInv
<1>4. CASE UNCHANGED <<leader, record, registry, host>>
  <2>1. ProcessTypes'
    BY <1>1, <1>4 DEF ProcessTypes, ProcessesInv
  <2>2. LivingIsOwed'
    BY <1>1, <1>4 DEF LivingIsOwed, ProcessesInv, Alive
  <2> QED
    BY <1>2, <2>1, <2>2 DEF ProcessesInv
<1>5. CASE /\ record' = [record EXCEPT ![j] = "pending"] /\ registry' = registry \cup {j}
           /\ leader' = [leader EXCEPT ![j] = "up"] \/ UNCHANGED leader
  <2>1. ProcessTypes'
    BY <1>1, <1>5 DEF ProcessTypes, ProcessesInv
  <2>2. LivingIsOwed'
    BY <1>1, <1>5 DEF LivingIsOwed, ProcessesInv, ProcessTypes, Alive
  <2> QED
    BY <1>2, <2>1, <2>2 DEF ProcessesInv
<1> QED
  BY <1>3, <1>4, <1>5 DEF Launch, durable

\* A look that finds an entry empty as often as it takes found all of it gone.
LEMMA LookKeeps ==
  ASSUME FewHops, ProcessesInv, Look
  PROVE  ProcessesInv'
<1>1. PICK missed \in SUBSET Missable, whole \in BOOLEAN :
       /\ missed # {} => heal.hops < MaxHops
       /\ heal' = [heal EXCEPT
            !.passes = @ + 1,
            !.hops = IF missed = {} THEN @ ELSE @ + 1,
            !.seen = @ \cup Observed(missed),
            !.empty = [j \in Jobs |-> IF j \in heal.entries /\ whole /\ Unseen(j, missed)
                                        THEN @[j] + 1 ELSE 0]]
       /\ LET hit == IF heal.phase = "SIGKILL" THEN Observed(missed) ELSE {} IN
            /\ leader' = [j \in Jobs |-> IF j \in hit THEN Fallen(j)[j] ELSE leader[j]]
            /\ rest' = [j \in Jobs |-> IF j \in hit /\ rest[j] # "none" THEN "gone" ELSE rest[j]]
  BY DEF Look
<1>2. UNCHANGED <<record, registry, host>> /\ heal.phase \in {"SIGTERM", "SIGKILL"}
  BY DEF Look, durable, driver
<1>3. host = "gone" /\ \A j \in Jobs : Alive(j) => j \in heal.entries /\ heal.empty[j] <= heal.hops
  BY <1>2 DEF ProcessesInv, Recovering
<1> DEFINE blind == [j \in Jobs |-> IF j \in heal.entries /\ whole /\ Unseen(j, missed)
                                      THEN heal.empty[j] + 1 ELSE 0]
<1>4. /\ heal' \in [phase : {"none", "SIGTERM", "SIGKILL", "closed", "refused"}, tries : Nat,
               passes : Nat, hops : 0..MaxHops, entries : SUBSET Jobs,
               empty : [Jobs -> Nat], seen : SUBSET Jobs]
      /\ heal'.phase = heal.phase /\ heal'.entries = heal.entries
      /\ heal'.empty = blind /\ heal'.hops = IF missed = {} THEN heal.hops ELSE heal.hops + 1
  <2>1. MaxHops \in Nat
    BY ProcessesAssumption
  <2> DEFINE hops == IF missed = {} THEN heal.hops ELSE heal.hops + 1
             seen == heal.seen \cup Observed(missed)
  <2>2. hops \in 0..MaxHops
    BY <1>1, <2>1 DEF ProcessesInv, ProcessTypes
  <2>3. blind \in [Jobs -> Nat]
    BY DEF ProcessesInv, ProcessTypes
  <2>4. seen \in SUBSET Jobs
    BY DEF ProcessesInv, ProcessTypes, Observed
  <2>5. heal' = [heal EXCEPT !.passes = heal.passes + 1, !.hops = hops, !.seen = seen, !.empty = blind]
    BY <1>1
  <2> HIDE DEF blind, hops, seen
  <2>6. heal' \in [phase : {"none", "SIGTERM", "SIGKILL", "closed", "refused"}, tries : Nat,
               passes : Nat, hops : 0..MaxHops, entries : SUBSET Jobs,
               empty : [Jobs -> Nat], seen : SUBSET Jobs]
    <3>1. heal.passes + 1 \in Nat
      BY DEF ProcessesInv, ProcessTypes
    <3> DEFINE passes == heal.passes + 1
    <3>2. /\ heal' = [heal EXCEPT !.passes = passes, !.hops = hops, !.seen = seen, !.empty = blind]
          /\ passes \in Nat
      BY <2>5, <3>1
    <3> HIDE DEF passes
    <3> QED
      BY <2>2, <2>3, <2>4, <3>2 DEF ProcessesInv, ProcessTypes
  <2>7. heal'.phase = heal.phase /\ heal'.entries = heal.entries /\ heal'.empty = blind /\ heal'.hops = hops
    BY <2>5 DEF ProcessesInv, ProcessTypes
  <2> QED
    BY <2>6, <2>7 DEF hops
<1>5. /\ leader' \in [Jobs -> {"none", "up", "zero", "nonzero"}]
      /\ rest' \in [Jobs -> {"none", "group", "escaped", "gone"}]
      /\ \A j \in Jobs : Alive(j)' => Alive(j)
  BY <1>1 DEF Fallen, Alive, ProcessesInv, ProcessTypes
<1>6. ProcessTypes'
  BY <1>2, <1>4, <1>5 DEF ProcessesInv, ProcessTypes
<1>7. LivingIsOwed'
  BY <1>2, <1>5 DEF ProcessesInv, LivingIsOwed
<1>8. Recovering'
  <2> SUFFICES ASSUME NEW j \in Jobs, Alive(j)'
               PROVE  j \in heal'.entries /\ heal'.empty[j] <= heal'.hops
    BY <1>2, <1>3 DEF Recovering
  <2>1. Alive(j) /\ j \in heal.entries /\ heal.empty[j] <= heal.hops
    BY <1>3, <1>5
  <2>2. heal.hops \in Nat /\ heal.empty[j] \in Nat
    BY DEF ProcessesInv, ProcessTypes
  <2>3. Unseen(j, missed) => missed # {}
    BY <2>1 DEF Unseen, Observed
  <2>4. blind[j] <= IF missed = {} THEN heal.hops ELSE heal.hops + 1
    BY <2>1, <2>2, <2>3
  <2> HIDE DEF blind
  <2> QED
    BY <1>4, <2>1, <2>4
<1> QED
  BY <1>6, <1>7, <1>8 DEF ProcessesInv

\* A recovery drops an entry only when it was seen empty often enough.
LEMMA RecoveryKeeps ==
  ASSUME FewHops, ProcessesInv, StartRecovery \/ PhaseEnds \/ RecoveryVerdict
  PROVE  ProcessesInv'
<1>0. MaxHops \in Nat /\ heal.hops \in 0..MaxHops /\ heal.empty \in [Jobs -> Nat] /\ heal.tries \in Nat
  BY ProcessesAssumption DEF ProcessesInv, ProcessTypes
<1>1. CASE StartRecovery
  <2>1. /\ host = "gone" /\ UNCHANGED <<leader, rest, record, host>>
        /\ heal' = [NoHeal EXCEPT !.phase = "SIGTERM", !.tries = heal.tries + 1, !.hops = heal.hops,
                            !.entries = {j \in Jobs : record[j] \in {"pending", "failed"}}]
    BY <1>1 DEF StartRecovery, world, durable, driver
  <2>2. ProcessTypes'
    <3> DEFINE owed == {j \in Jobs : record[j] \in {"pending", "failed"}}
               tries == heal.tries + 1
               never == [j \in Jobs |-> 0]
    <3>1. owed \in SUBSET Jobs /\ tries \in Nat /\ never \in [Jobs -> Nat]
      BY <1>0
    <3>2. heal' = [[phase |-> "none", tries |-> 0, passes |-> 0, hops |-> 0, entries |-> {},
                    empty |-> never, seen |-> {}]
                   EXCEPT !.phase = "SIGTERM", !.tries = tries, !.hops = heal.hops, !.entries = owed]
      BY <2>1 DEF NoHeal
    <3> HIDE DEF owed, tries, never
    <3>3. heal' \in [phase : {"none", "SIGTERM", "SIGKILL", "closed", "refused"}, tries : Nat,
                     passes : Nat, hops : 0..MaxHops, entries : SUBSET Jobs,
                     empty : [Jobs -> Nat], seen : SUBSET Jobs]
      BY <1>0, <3>1, <3>2
    <3> QED
      BY <2>1, <3>3 DEF ProcessesInv, ProcessTypes
  <2>3. LivingIsOwed'
    BY <2>1 DEF ProcessesInv, LivingIsOwed, Alive
  <2>4. heal'.entries = {j \in Jobs : record[j] \in {"pending", "failed"}} /\ heal'.hops = heal.hops
        /\ heal'.empty = [j \in Jobs |-> 0]
    BY <2>1 DEF NoHeal
  <2>5. Recovering'
    BY <1>0, <2>1, <2>4 DEF ProcessesInv, Recovering, LivingIsOwed, Alive
  <2> QED
    BY <2>2, <2>3, <2>5 DEF ProcessesInv
<1>2. ASSUME heal.phase \in {"SIGTERM", "SIGKILL"}
      PROVE  \A j \in Jobs : Alive(j) => j \in Unsettled
  BY <1>0, <1>2 DEF FewHops, EmptyLooks, ProcessesInv, Recovering, Unsettled
<1>3. CASE PhaseEnds
  <2>1. /\ heal.phase = "SIGTERM" /\ UNCHANGED <<leader, rest, record, host, registry>>
        /\ heal' = [heal EXCEPT !.phase = "SIGKILL", !.passes = 0, !.seen = {}, !.entries = Unsettled,
                          !.empty = [j \in Jobs |-> 0]]
    BY <1>3 DEF PhaseEnds, world, durable, driver
  <2>2. Unsettled \in SUBSET Jobs
    BY DEF ProcessesInv, ProcessTypes, Unsettled
  <2>3. ProcessTypes'
    BY <2>1, <2>2 DEF ProcessesInv, ProcessTypes
  <2>4. LivingIsOwed'
    BY <2>1 DEF ProcessesInv, LivingIsOwed, Alive
  <2>5. heal'.entries = Unsettled /\ heal'.hops = heal.hops /\ heal'.empty = [j \in Jobs |-> 0]
    BY <2>1 DEF ProcessesInv, ProcessTypes
  <2>6. Recovering'
    BY <1>0, <1>2, <2>1, <2>5 DEF ProcessesInv, Recovering, Alive
  <2> QED
    BY <2>3, <2>4, <2>6 DEF ProcessesInv
<1>4. CASE RecoveryVerdict
  <2>1. /\ heal.phase \in {"SIGTERM", "SIGKILL"} /\ UNCHANGED <<leader, rest, host, registry>>
        /\ record' = [j \in Jobs |-> IF record[j] \notin {"pending", "failed"} THEN record[j]
                               ELSE IF j \in Unsettled THEN "failed" ELSE "complete"]
        /\ heal' = [NoHeal EXCEPT !.phase = IF Unsettled = {} THEN "closed" ELSE "refused",
                            !.tries = heal.tries, !.hops = heal.hops]
    BY <1>4 DEF RecoveryVerdict, world, driver
  <2>2. ProcessTypes'
    BY <1>0, <2>1 DEF ProcessesInv, ProcessTypes, NoHeal
  <2>3. LivingIsOwed'
    BY <1>2, <2>1 DEF ProcessesInv, LivingIsOwed, Alive
  <2>4. heal'.phase \notin {"SIGTERM", "SIGKILL"}
    BY <2>1 DEF NoHeal
  <2> QED
    BY <2>2, <2>3, <2>4 DEF ProcessesInv, Recovering
<1> QED
  BY <1>1, <1>3, <1>4

\* The processes of a job fork, exit, and are cleaned up.
LEMMA RunKeeps ==
  ASSUME ProcessesInv, NEW j \in Jobs,
         Fork(j) \/ LeaderExits(j) \/ RestExits(j) \/ Run(j) \/ CleanOne(j)
  PROVE  ProcessesInv'
<1> USE DEF world, durable, driver
<1>1. CASE Fork(j)
  BY <1>1, NothingNew DEF Fork, ProcessesInv, ProcessTypes, Alive
<1>2. CASE LeaderExits(j)
  BY <1>2, NothingNew DEF LeaderExits, ProcessesInv, ProcessTypes, Alive
<1>3. CASE RestExits(j)
  BY <1>3, NothingNew DEF RestExits, ProcessesInv, ProcessTypes, Alive
<1>4. CASE Launch(j)
  BY <1>4, LaunchKeeps
<1>5. CASE Timeout(j) \/ ExitSeen(j)
  BY <1>5, NothingNew DEF Timeout, ExitSeen, ProcessesInv, ProcessTypes, Alive
<1>6. CASE Escalate(j)
  BY <1>6, KillTreeEnds, NothingNew DEF Escalate, ProcessesInv
<1>7. CASE Sweep(j)
  BY <1>7, CleanupKeeps DEF Sweep, CleanupEscaped, NotRetired, At
<1>8. CASE Retire(j)
  BY <1>8, CleanupKeeps DEF Retire, CleanupEscaped, NotRetired, At
<1>9. CASE CleanOne(j)
  BY <1>9, CleanupKeeps DEF CleanOne, CleanupEscaped, NotRetired
<1> QED
  BY <1>1, <1>2, <1>3, <1>4, <1>5, <1>6, <1>7, <1>8, <1>9 DEF Run

\* The driver's own steps leave the records of living processes.
LEMMA DriverKeeps ==
  ASSUME ProcessesInv,
         \/ FlightEnds \/ SuiteCleanupEnds \/ CommandFails \/ CommandEnds \/ Leave \/ DriverDies
         \/ FirstSignal \/ SecondSignal \/ BoundedCleanupTimer \/ SignalCleanupEnds
         \/ UNCHANGED processesVars
  PROVE  ProcessesInv'
<1>1. /\ UNCHANGED <<leader, rest, record, heal>> /\ (host' = host \/ host' = "gone")
      /\ host' = "up" => UNCHANGED registry
  BY DEF FlightEnds, SuiteCleanupEnds, CommandFails, CommandEnds, Leave, DriverDies, FirstSignal,
         SecondSignal, BoundedCleanupTimer, SignalCleanupEnds, Gone, processesVars, world, durable
<1> QED
  BY <1>1, NothingNew DEF ProcessesInv, ProcessTypes, Alive

\* No process of the benchmark outlives both its record and whoever would end it: while a
\* driver is up it is registered, afterwards its record is there for the recovery, for
\* any jobs and any order of forks, exits, signals and deaths, as long as a process group
\* forks less often while it is killed than the empty looks that a recovery asks for.
THEOREM ProcessesOwed ==
  ASSUME FewHops
  PROVE  ProcessesSpec => []LivingIsOwed
<1>1. ProcessesInit => ProcessesInv
  BY ProcessesStart
<1>2. ProcessesInv /\ [ProcessesNext]_processesVars => ProcessesInv'
  BY LookKeeps, RecoveryKeeps, RunKeeps, DriverKeeps DEF ProcessesNext
<1>3. ProcessesInv => LivingIsOwed
  BY DEF ProcessesInv
<1> QED
  BY <1>1, <1>2, <1>3, PTL DEF ProcessesSpec

-----------------------------------------------------------------------------
\* Where a prep command is.
Places == {"idle", "toolchain lock", "suite lock", "open", "node", "musl", "runtime", "copy",
           "assemble", "publish toolchain", "build", "point", "load", "unwinding", "ended", "dead"}
\* What a build may have left in its result.
Facts == {"bound", "bytecode"}
\* The identities of inputs.
Ids == [content : Contents \cup {0}, facts : SUBSET Facts, tool : Contents \cup {0}]
\* The states of a command.
Cmds == [at : Places, suite : Suites \cup {"none"}, recover : BOOLEAN, step : Nat,
         facts : SUBSET Facts, tool : Contents \cup {0}, id : Ids, mine : BOOLEAN,
         thrown : BOOLEAN, out : {"none", "failed", "prepared"}]

\* The types of the commands, the locks and what is published.
PrepTypes ==
  /\ cmd \in [Commands -> Cmds]
  /\ locks \in [{"toolchain"} \cup Suites -> Commands \cup {"free"}]
  /\ inputs \in [Suites -> SUBSET Ids]
  /\ pointer \in [Suites -> SUBSET Ids]

(* From its suite's lock to its unwinding a command is alone in its suite.  *)
InSuite == {"open", "node", "musl", "runtime", "copy", "assemble", "publish toolchain", "build",
            "point", "load"}
\* There it holds the suite's lock.
SuiteOwned == \A c \in Commands :
  cmd[c].at \in InSuite => cmd[c].suite \in Suites /\ locks[cmd[c].suite] = c

(* What it published is there until it ends.                                *)
PublishedIsThere ==
  \A c \in Commands : cmd[c].at \in {"point", "load"} => cmd[c].id \in inputs[cmd[c].suite]
\* What FeatureBench may take back is not pointed at.
OwnIsUnseen ==
  \A c \in Commands : cmd[c].at = "load" /\ Withdrawn(c) # {} => cmd[c].id \notin pointer[cmd[c].suite]
\* What is pointed at is there.
PointedIsThere == \A s \in Suites : pointer[s] \subseteq inputs[s]

(* FeatureBench alone does not move its pointer before the load.            *)
NoPoint == \A c \in Commands : cmd[c].at = "point" => cmd[c].suite # "featurebench"

\* The inductive invariant of the prep commands.
PrepInv == PrepTypes /\ SuiteOwned /\ PublishedIsThere /\ OwnIsUnseen /\ PointedIsThere /\ NoPoint

\* It holds at first.
LEMMA PrepStarts ==
  ASSUME PrepInit
  PROVE  PrepInv
<1>1. NoId \in Ids
  BY DEF NoId, Ids
<1>2. Fresh \in Cmds
  BY <1>1 DEF Fresh, Cmds, Places
<1>3. \A c \in Commands : cmd[c].at = "idle"
  BY DEF PrepInit, Fresh
<1>4. PrepTypes
  BY <1>2 DEF PrepInit, PrepTypes
<1> QED
  BY <1>3, <1>4 DEF PrepInit, PrepInv, SuiteOwned, InSuite, PublishedIsThere, OwnIsUnseen,
      PointedIsThere, NoPoint

(* What a step that goes to another place, or throws, writes of its command. *)
LEMMA Moved ==
  ASSUME PrepTypes, NEW c \in Commands, NEW to \in Places,
         Go(c, to) \/ (to = "unwinding" /\ Throws(c))
  PROVE  \E r \in Cmds :
           /\ cmd' = [cmd EXCEPT ![c] = r]
           /\ r.at = to /\ r.suite = cmd[c].suite /\ r.id = cmd[c].id /\ (r.mine <=> cmd[c].mine)
<1>1. cmd[c] \in Cmds
  BY DEF PrepTypes
<1>2. CASE Go(c, to)
  <2> DEFINE r == [cmd[c] EXCEPT !.at = to]
  <2>1. cmd' = [cmd EXCEPT ![c] = r]
    BY <1>2 DEF Go
  <2>2. r \in Cmds /\ r.at = to /\ r.suite = cmd[c].suite /\ r.id = cmd[c].id /\ (r.mine <=> cmd[c].mine)
    BY <1>1 DEF Cmds
  <2> HIDE DEF r
  <2> QED
    BY <2>1, <2>2
<1>3. CASE to = "unwinding" /\ Throws(c)
  <2> DEFINE r == [cmd[c] EXCEPT !.at = to, !.thrown = TRUE]
  <2>1. cmd' = [cmd EXCEPT ![c] = r]
    BY <1>1, <1>3 DEF Throws, PrepTypes, Cmds
  <2>2. r \in Cmds /\ r.at = to /\ r.suite = cmd[c].suite /\ r.id = cmd[c].id /\ (r.mine <=> cmd[c].mine)
    BY <1>1 DEF Cmds
  <2> HIDE DEF r
  <2> QED
    BY <2>1, <2>2
<1> QED
  BY <1>2, <1>3

(* A step that publishes nothing and takes nothing back keeps the invariant *)
(* if it leaves the suite's part of the prep, or stays in it with what it has. *)
LEMMA QuietSteps ==
  ASSUME PrepInv, NEW c \in Commands, NEW r \in Cmds, cmd' = [cmd EXCEPT ![c] = r],
         UNCHANGED <<locks, inputs, pointer>>,
         r.at \in InSuite => cmd[c].at \in InSuite /\ r.suite = cmd[c].suite,
         r.at \notin {"point", "load"}
  PROVE  PrepInv'
<1>1. PrepTypes'
  BY DEF PrepInv, PrepTypes
<1>2. SuiteOwned'
  BY DEF PrepInv, SuiteOwned, PrepTypes
<1>3. PublishedIsThere'
  BY DEF PrepInv, PublishedIsThere, PrepTypes
<1>4. OwnIsUnseen'
  BY DEF PrepInv, OwnIsUnseen, PrepTypes, Withdrawn
<1>5. PointedIsThere'
  BY DEF PrepInv, PointedIsThere
<1>6. NoPoint'
  BY DEF PrepInv, NoPoint, PrepTypes
<1> QED
  BY <1>1, <1>2, <1>3, <1>4, <1>5, <1>6 DEF PrepInv

\* A step that writes none of it keeps it.
LEMMA PrepUnmoved ==
  ASSUME PrepInv, UNCHANGED <<cmd, locks, inputs, pointer>>
  PROVE  PrepInv'
BY DEF PrepInv, PrepTypes, SuiteOwned, PublishedIsThere, OwnIsUnseen, Withdrawn, PointedIsThere,
    NoPoint

(* The steps from the first to the build of the inputs.                     *)
LEMMA EarlySteps ==
  ASSUME PrepInv, NEW c \in Commands,
         \/ PrepBegins(c) \/ PreflightFails(c) \/ OpenStage(c)
         \/ \E a \in {"node", "musl"} : StartDownload(c, a) \/ EndDownload(c, a) \/ StageArchive(c, a)
         \/ CreateContainer(c) \/ RemoveContainer(c) \/ AssembleToolchain(c) \/ PublishToolchain(c)
         \/ BuildStep(c)
  PROVE  PrepInv' /\ UNCHANGED <<inputs, pointer>>
<1>0. PrepTypes /\ cmd[c] \in Cmds
  BY DEF PrepInv, PrepTypes
<1>1. CASE PrepBegins(c)
  <2>1. PICK s \in Suites, recover \in BOOLEAN :
          cmd' = [cmd EXCEPT ![c].at = "toolchain lock", ![c].suite = s, ![c].recover = recover]
    BY <1>1 DEF PrepBegins
  <2> DEFINE r == [cmd[c] EXCEPT !.at = "toolchain lock", !.suite = s, !.recover = recover]
  <2>2. cmd' = [cmd EXCEPT ![c] = r]
    BY <1>0, <2>1 DEF PrepTypes, Cmds
  <2>3. r \in Cmds /\ r.at = "toolchain lock"
    BY <1>0 DEF Cmds, Places
  <2>4. UNCHANGED <<locks, inputs, pointer>>
    BY <1>1 DEF PrepBegins, shared
  <2> HIDE DEF r
  <2> QED
    BY <2>2, <2>3, <2>4, QuietSteps DEF InSuite
<1>2. CASE PreflightFails(c)
  <2> DEFINE r == [cmd[c] EXCEPT !.at = "ended", !.thrown = TRUE, !.out = "failed"]
  <2>2. cmd' = [cmd EXCEPT ![c] = r]
    BY <1>0, <1>2 DEF PreflightFails, PrepTypes, Cmds
  <2>3. r \in Cmds /\ r.at = "ended"
    BY <1>0 DEF Cmds, Places
  <2>4. UNCHANGED <<locks, inputs, pointer>>
    BY <1>2 DEF PreflightFails, shared
  <2> HIDE DEF r
  <2> QED
    BY <2>2, <2>3, <2>4, QuietSteps DEF InSuite
<1>3. ASSUME cmd[c].at \in InSuite, UNCHANGED <<locks, inputs, pointer>>,
    NEW to \in Places \ {"point", "load"},
             Go(c, to) \/ Throws(c)
      PROVE  PrepInv' /\ UNCHANGED <<inputs, pointer>>
  <2>1. PICK r \in Cmds : /\ cmd' = [cmd EXCEPT ![c] = r]
                          /\ r.at \in {to, "unwinding"} /\ r.suite = cmd[c].suite
    <3>1. "unwinding" \in Places
      BY DEF Places
    <3> QED
      BY <1>0, <1>3, <3>1, Moved
  <2> QED
    BY <1>3, <2>1, QuietSteps DEF InSuite
<1>3a. {"node", "musl", "runtime", "copy", "assemble", "build"} \subseteq Places \ {"point", "load"}
  BY DEF Places
<1>4. ASSUME UNCHANGED <<cmd, locks, inputs, pointer>>
      PROVE  PrepInv' /\ UNCHANGED <<inputs, pointer>>
  BY <1>4, PrepUnmoved
<1>5. CASE OpenStage(c)
  <2>1. cmd[c].at \in InSuite /\ UNCHANGED <<locks, inputs, pointer>> /\ (Go(c, "node") \/ Throws(c))
    BY <1>5 DEF OpenStage, PrepAt, InSuite, shared
  <2> QED
    BY <1>3, <1>3a, <2>1
<1>6. ASSUME NEW a \in {"node", "musl"}, StartDownload(c, a) \/ EndDownload(c, a) \/ StageArchive(c, a)
      PROVE  PrepInv' /\ UNCHANGED <<inputs, pointer>>
  <2>1. /\ cmd[c].at \in InSuite /\ UNCHANGED <<locks, inputs, pointer>>
        /\ UNCHANGED cmd \/ Throws(c) \/ Go(c, "musl") \/ Go(c, "runtime")
    BY <1>6 DEF StartDownload, EndDownload, StageArchive, PrepAt, InSuite, shared
  <2> QED
    BY <1>3, <1>3a, <1>4, <2>1
<1>7. CASE CreateContainer(c) \/ RemoveContainer(c) \/ PublishToolchain(c)
  <2>1. /\ cmd[c].at \in InSuite /\ UNCHANGED <<locks, inputs, pointer>>
        /\ Throws(c) \/ Go(c, "copy") \/ Go(c, "assemble") \/ Go(c, "build")
    BY <1>7 DEF CreateContainer, RemoveContainer, PublishToolchain, PrepAt, InSuite, shared
  <2> QED
    BY <1>3, <1>3a, <2>1
<1>8. CASE AssembleToolchain(c)
  <2>1. cmd[c].at \in InSuite /\ UNCHANGED <<locks, inputs, pointer>>
    BY <1>8 DEF AssembleToolchain, PrepAt, InSuite, shared
  <2>2. CASE Throws(c)
    BY <1>3, <1>3a, <2>1, <2>2
  <2>3. ASSUME NEW k \in Contents, cmd' = [cmd EXCEPT ![c].at = "publish toolchain", ![c].tool = k]
        PROVE  PrepInv'
    <3> DEFINE r == [cmd[c] EXCEPT !.at = "publish toolchain", !.tool = k]
    <3>1. cmd' = [cmd EXCEPT ![c] = r]
      BY <1>0, <2>3 DEF PrepTypes, Cmds
    <3>2. r \in Cmds /\ r.at = "publish toolchain" /\ r.suite = cmd[c].suite
      BY <1>0 DEF Cmds, Places
    <3> HIDE DEF r
    <3> QED
      BY <2>1, <3>1, <3>2, QuietSteps DEF InSuite
  <2> QED
    BY <1>8, <2>1, <2>2, <2>3 DEF AssembleToolchain
<1>9. CASE BuildStep(c)
  <2>1. cmd[c].at = "build" /\ cmd[c].at \in InSuite /\ UNCHANGED <<locks, inputs, pointer>>
    BY <1>9 DEF BuildStep, PrepAt, InSuite, shared
  <2>2. CASE Throws(c)
    BY <1>3, <1>3a, <2>1, <2>2
  <2>3. ASSUME NEW step, cmd' = [cmd EXCEPT ![c].step = @ + 1, ![c].facts = Effect(step, @)]
        PROVE  PrepInv'
    <3> DEFINE facts == Effect(step, cmd[c].facts)  next == cmd[c].step + 1
               r == [cmd[c] EXCEPT !.step = next, !.facts = facts]
    <3>1. cmd' = [cmd EXCEPT ![c] = r]
      BY <1>0, <2>3 DEF PrepTypes, Cmds
    <3>2. facts \in SUBSET Facts /\ next \in Nat
      BY <1>0 DEF Cmds, Facts, Effect, Normalize, Relocate, Strip
    <3> HIDE DEF facts, next
    <3>3. r \in Cmds /\ r.at = "build" /\ r.suite = cmd[c].suite
      BY <1>0, <2>1, <3>2 DEF Cmds
    <3> HIDE DEF r
    <3> QED
      BY <2>1, <3>1, <3>3, QuietSteps DEF InSuite
  <2> QED
    BY <1>9, <2>1, <2>2, <2>3 DEF BuildStep
<1> QED
  BY <1>1, <1>2, <1>5, <1>6, <1>7, <1>8, <1>9 DEF PrepBegins, PreflightFails, shared

(* A lock is taken from nobody, or from the dead.                           *)
LEMMA LockTaken ==
  ASSUME PrepInv, NEW c \in Commands, NEW l \in {"toolchain"} \cup Suites,
         NEW from \in Places, NEW to \in Places, TakeLock(c, l, from, to), from \notin InSuite,
         to \in InSuite => to = "open" /\ cmd[c].suite = l /\ l \in Suites
  PROVE  PrepInv' /\ UNCHANGED <<inputs, pointer>>
<1>0. PrepTypes /\ cmd[c].at = from /\ UNCHANGED <<inputs, pointer>>
  BY DEF PrepInv, TakeLock, PrepAt, shared
<1>1. PICK r \in Cmds : /\ cmd' = [cmd EXCEPT ![c] = r] /\ r.suite = cmd[c].suite
                        /\ \/ r.at = to /\ Takes(c, l) /\ locks' = [locks EXCEPT ![l] = c]
                           \/ r.at = "unwinding" /\ UNCHANGED locks
  <2>1. "unwinding" \in Places
    BY DEF Places
  <2> QED
    BY <1>0, <2>1, Moved DEF TakeLock
<1>2. r.at \notin {"point", "load"}
  BY <1>1 DEF InSuite
<1>3. PrepTypes'
  BY <1>0, <1>1 DEF PrepTypes
<1>4. SuiteOwned'
  <2> SUFFICES ASSUME NEW d \in Commands, cmd'[d].at \in InSuite
               PROVE  cmd'[d].suite \in Suites /\ locks'[cmd'[d].suite] = d
    BY DEF SuiteOwned
  <2>1. CASE d = c
    <3>1. cmd'[d] = r
      BY <1>0, <1>1, <2>1 DEF PrepTypes
    <3>2. r.at = to /\ locks' = [locks EXCEPT ![l] = c]
      BY <1>1, <3>1 DEF InSuite
    <3>3. to = "open" /\ cmd[c].suite = l /\ l \in Suites
      BY <3>1, <3>2
    <3>4. locks'[l] = c
      BY <1>0, <3>2 DEF PrepTypes
    <3> QED
      BY <1>1, <2>1, <3>1, <3>3, <3>4
  <2>2. CASE d # c
    <3>1. cmd'[d] = cmd[d]
      BY <1>0, <1>1, <2>2 DEF PrepTypes
    <3>2. cmd[d].suite \in Suites /\ locks[cmd[d].suite] = d /\ cmd[d].at # "dead"
      BY <3>1 DEF PrepInv, SuiteOwned, InSuite
    <3>3. d # "free"
      BY CommandsAssumption
    <3>4. Takes(c, l) => l # cmd[d].suite
      BY <3>2, <3>3 DEF Takes
    <3> QED
      BY <1>0, <1>1, <3>1, <3>2, <3>4 DEF PrepTypes
  <2> QED
    BY <2>1, <2>2
<1>5. PublishedIsThere'
  BY <1>0, <1>1, <1>2 DEF PrepInv, PublishedIsThere, PrepTypes
<1>6. OwnIsUnseen'
  BY <1>0, <1>1, <1>2 DEF PrepInv, OwnIsUnseen, PrepTypes, Withdrawn
<1>7. PointedIsThere'
  BY <1>0 DEF PrepInv, PointedIsThere
<1>8. NoPoint'
  BY <1>0, <1>1, <1>2 DEF PrepInv, NoPoint, PrepTypes
<1> QED
  BY <1>0, <1>3, <1>4, <1>5, <1>6, <1>7, <1>8 DEF PrepInv

(* What is published and pointed at, by the one command of the suite.       *)
LEMMA PublishSteps ==
  ASSUME PrepInv, NEW c \in Commands, PublishInputs(c)
  PROVE  PrepInv' /\ UNCHANGED pointer /\ \A s \in Suites : inputs[s] \subseteq inputs'[s]
<1>0. PrepTypes /\ cmd[c] \in Cmds /\ cmd[c].at = "build" /\ UNCHANGED <<locks, pointer>>
  BY DEF PrepInv, PrepTypes, PublishInputs, PrepAt
<1>1. PICK k \in Contents, s \in Suites :
        LET id == [content |-> k, facts |-> cmd[c].facts, tool |-> cmd[c].tool] IN
          /\ s = cmd[c].suite
          /\ inputs' = [inputs EXCEPT ![s] = @ \cup {id}]
          /\ cmd' = [cmd EXCEPT ![c].at = IF s = "featurebench" THEN "load" ELSE "point",
                                ![c].id = id, ![c].mine = id \notin inputs[s]]
  BY DEF PublishInputs
<1> DEFINE id == [content |-> k, facts |-> cmd[c].facts, tool |-> cmd[c].tool]
           at == IF s = "featurebench" THEN "load" ELSE "point"
           r == [cmd[c] EXCEPT !.at = at, !.id = id, !.mine = id \notin inputs[s]]
<1>2. id \in Ids /\ at \in Places
  BY <1>0 DEF Ids, Cmds, Places
<1>3. s = cmd[c].suite /\ inputs' = [inputs EXCEPT ![s] = inputs[s] \cup {id}] /\ cmd' = [cmd EXCEPT ![c] = r]
  BY <1>0, <1>1 DEF PrepTypes, Cmds
<1>4. (at = "load" <=> s = "featurebench") /\ at \in {"point", "load"}
  OBVIOUS
<1> HIDE DEF id, at
<1>5. r \in Cmds /\ r.at = at /\ r.suite = s /\ r.id = id /\ (r.mine <=> id \notin inputs[s])
  BY <1>0, <1>2, <1>3 DEF Cmds
<1> HIDE DEF r
<1>6. inputs'[s] = inputs[s] \cup {id} /\ \A t \in Suites : t # s => inputs'[t] = inputs[t]
  BY <1>0, <1>3 DEF PrepTypes
<1>7. cmd'[c] = r /\ \A d \in Commands : d # c => cmd'[d] = cmd[d]
  BY <1>0, <1>3 DEF PrepTypes
<1>8. PrepTypes'
  <2>1. cmd' \in [Commands -> Cmds]
    BY <1>0, <1>3, <1>5 DEF PrepTypes
  <2>2. inputs[s] \cup {id} \in SUBSET Ids
    BY <1>0, <1>2 DEF PrepTypes
  <2>3. inputs' \in [Suites -> SUBSET Ids]
    BY <1>0, <1>3, <2>2 DEF PrepTypes
  <2> QED
    BY <1>0, <2>1, <2>3 DEF PrepTypes
<1>9. SuiteOwned'
  <2> SUFFICES ASSUME NEW d \in Commands, cmd'[d].at \in InSuite
               PROVE  cmd'[d].suite \in Suites /\ locks'[cmd'[d].suite] = d
    BY DEF SuiteOwned
  <2>1. cmd[d].at \in InSuite /\ cmd'[d].suite = cmd[d].suite
    BY <1>0, <1>3, <1>5, <1>7 DEF InSuite
  <2> QED
    BY <1>0, <2>1 DEF PrepInv, SuiteOwned
<1>10. PublishedIsThere'
  <2> SUFFICES ASSUME NEW d \in Commands, cmd'[d].at \in {"point", "load"}
               PROVE  cmd'[d].id \in inputs'[cmd'[d].suite]
    BY DEF PublishedIsThere
  <2>1. CASE d = c
    BY <1>5, <1>6, <1>7, <2>1
  <2>2. CASE d # c
    <3>1. cmd[d].id \in inputs[cmd[d].suite] /\ cmd[d].suite \in Suites
      BY <1>7, <2>2 DEF PrepInv, PublishedIsThere, SuiteOwned, InSuite
    <3> QED
      BY <1>6, <1>7, <2>2, <3>1
  <2> QED
    BY <2>1, <2>2
<1>11. PointedIsThere'
  BY <1>0, <1>6 DEF PrepInv, PointedIsThere
<1>12. OwnIsUnseen'
  <2> SUFFICES ASSUME NEW d \in Commands, cmd'[d].at = "load", Withdrawn(d)' # {}
               PROVE  cmd'[d].id \notin pointer[cmd'[d].suite]
    BY <1>0 DEF OwnIsUnseen
  <2>1. CASE d = c
    <3>1. r.mine /\ r.id = id /\ r.suite = s
      BY <1>5, <1>7, <2>1 DEF Withdrawn
    <3>2. id \notin inputs[s]
      BY <1>5, <3>1
    <3>3. pointer[s] \subseteq inputs[s]
      BY DEF PrepInv, PointedIsThere
    <3> QED
      BY <1>7, <2>1, <3>1, <3>2, <3>3
  <2>2. CASE d # c
    <3>1. cmd'[d] = cmd[d]
      BY <1>7, <2>2
    <3>2. Withdrawn(d) # {}
      BY <3>1 DEF Withdrawn
    <3> QED
      BY <3>1, <3>2 DEF PrepInv, OwnIsUnseen
  <2> QED
    BY <2>1, <2>2
<1>13. NoPoint'
  BY <1>4, <1>5, <1>7 DEF PrepInv, NoPoint
<1> QED
  BY <1>0, <1>6, <1>8, <1>9, <1>10, <1>11, <1>12, <1>13 DEF PrepInv

(* Two commands are never in one suite.                                     *)
LEMMA AloneInSuite ==
  ASSUME PrepInv, NEW c \in Commands, NEW d \in Commands, cmd[c].at \in InSuite,
         cmd[d].at \in InSuite,
         cmd[c].suite = cmd[d].suite
  PROVE  c = d
BY DEF PrepInv, SuiteOwned

\* The pointer moves to what was just published.
LEMMA PointerSteps ==
  ASSUME PrepInv, NEW c \in Commands, MovePointer(c)
  PROVE  PrepInv' /\ UNCHANGED inputs
<1>0. /\ PrepTypes /\ cmd[c].at = "point" /\ cmd[c].suite \in Suites /\ UNCHANGED <<locks, inputs>>
      /\ pointer' = [pointer EXCEPT ![cmd[c].suite] = {cmd[c].id}]
      /\ cmd[c].id \in inputs[cmd[c].suite]
  BY DEF PrepInv, MovePointer, PrepAt, SuiteOwned, InSuite, PublishedIsThere
<1>1. PICK r \in Cmds : /\ cmd' = [cmd EXCEPT ![c] = r] /\ r.at = "load" /\ r.suite = cmd[c].suite
                        /\ r.id = cmd[c].id /\ (r.mine <=> cmd[c].mine)
  <2>1. "load" \in Places /\ Go(c, "load")
    BY DEF Places, MovePointer
  <2> QED
    BY <1>0, <2>1, Moved
<1>2. cmd[c].suite # "featurebench"
  BY <1>0 DEF PrepInv, NoPoint
<1>3. cmd'[c] = r /\ \A d \in Commands : d # c => cmd'[d] = cmd[d]
  BY <1>0, <1>1 DEF PrepTypes
<1>4. \A t \in Suites : pointer'[t] = IF t = cmd[c].suite THEN {cmd[c].id} ELSE pointer[t]
  BY <1>0 DEF PrepTypes
<1>5. cmd[c].id \in Ids
  BY <1>0 DEF PrepTypes, Cmds
<1>6. PrepTypes'
  <2>1. cmd' \in [Commands -> Cmds]
    BY <1>0, <1>1 DEF PrepTypes
  <2>2. pointer' \in [Suites -> SUBSET Ids]
    BY <1>0, <1>5 DEF PrepTypes
  <2> QED
    BY <1>0, <2>1, <2>2 DEF PrepTypes
<1>7a. SuiteOwned'
  <2> SUFFICES ASSUME NEW d \in Commands, cmd'[d].at \in InSuite
               PROVE  cmd'[d].suite \in Suites /\ locks'[cmd'[d].suite] = d
    BY DEF SuiteOwned
  <2>1. cmd[d].at \in InSuite /\ cmd'[d].suite = cmd[d].suite
    BY <1>0, <1>1, <1>3 DEF InSuite
  <2> QED
    BY <1>0, <2>1 DEF PrepInv, SuiteOwned
<1>7. NoPoint'
  BY <1>1, <1>3 DEF PrepInv, NoPoint
<1>8. PublishedIsThere'
  BY <1>0, <1>1, <1>3 DEF PrepInv, PublishedIsThere
<1>9. PointedIsThere'
  BY <1>0, <1>4 DEF PrepInv, PointedIsThere
<1>10. OwnIsUnseen'
  <2> SUFFICES ASSUME NEW d \in Commands, cmd'[d].at = "load", Withdrawn(d)' # {}
               PROVE  cmd'[d].id \notin pointer'[cmd'[d].suite]
    BY DEF OwnIsUnseen
  <2>1. CASE d = c
    BY <1>1, <1>2, <1>3, <2>1 DEF Withdrawn
  <2>2. CASE d # c
    <3>1. cmd'[d] = cmd[d] /\ Withdrawn(d) # {}
      BY <1>3, <2>2 DEF Withdrawn
    <3>2. cmd[d].suite # cmd[c].suite /\ cmd[d].suite \in Suites
      BY <1>0, <2>2, <3>1, AloneInSuite DEF PrepInv, SuiteOwned, InSuite
    <3> QED
      BY <1>4, <3>1, <3>2 DEF PrepInv, OwnIsUnseen
  <2> QED
    BY <2>1, <2>2
<1> QED
  BY <1>0, <1>6, <1>7, <1>7a, <1>8, <1>9, <1>10 DEF PrepInv

(* The closing load moves the pointer to what is there, or takes back what  *)
(* no pointer names and this command published.                             *)
LEMMA LoadSteps ==
  ASSUME PrepInv, NEW c \in Commands, LoadInputs(c)
  PROVE  /\ PrepInv' /\ cmd'[c].at # "dead"
         /\ \A s \in Suites : \A id \in inputs[s] \ inputs'[s] : cmd[c].mine /\ cmd[c].id = id
<1> DEFINE s == cmd[c].suite  id == cmd[c].id
<1>0. /\ PrepTypes /\ cmd[c] \in Cmds /\ cmd[c].at = "load" /\ s \in Suites /\ UNCHANGED locks
      /\ id \in inputs[s] /\ id \in Ids
  BY DEF PrepInv, PrepTypes, Cmds, LoadInputs, PrepAt, SuiteOwned, InSuite, PublishedIsThere
<1>1. \/ /\ cmd' = [cmd EXCEPT ![c].at = "unwinding", ![c].out = "prepared"]
         /\ pointer' = [pointer EXCEPT ![s] = {id}] /\ UNCHANGED inputs
      \/ /\ cmd' = [cmd EXCEPT ![c].at = "unwinding"] /\ UNCHANGED pointer
         /\ inputs' = [inputs EXCEPT ![s] = inputs[s] \ Withdrawn(c)]
  BY <1>0 DEF LoadInputs, Go, PrepTypes
<1>2. PICK r \in Cmds : cmd' = [cmd EXCEPT ![c] = r] /\ r.at = "unwinding"
  <2> DEFINE a == [cmd[c] EXCEPT !.at = "unwinding", !.out = "prepared"]
             b == [cmd[c] EXCEPT !.at = "unwinding"]
  <2>1. a \in Cmds /\ b \in Cmds /\ a.at = "unwinding" /\ b.at = "unwinding"
    BY <1>0 DEF Cmds, Places
  <2>2. cmd' = [cmd EXCEPT ![c] = a] \/ cmd' = [cmd EXCEPT ![c] = b]
    BY <1>0, <1>1 DEF PrepTypes, Cmds
  <2> HIDE DEF a, b
  <2> QED
    BY <2>1, <2>2
<1>3. cmd'[c] = r /\ \A d \in Commands : d # c => cmd'[d] = cmd[d]
  BY <1>0, <1>2 DEF PrepTypes
<1>4. Withdrawn(c) \subseteq {id} /\ (Withdrawn(c) # {} => cmd[c].mine /\ id \notin pointer[s])
  BY <1>0 DEF Withdrawn, PrepInv, OwnIsUnseen
<1> HIDE DEF s, id
<1>5. \A t \in Suites :
        /\ inputs'[t] = inputs[t] \/ (t = s /\ inputs'[t] = inputs[t] \ Withdrawn(c))
        /\ pointer'[t] = pointer[t] \/ (t = s /\ pointer'[t] = {id} /\ inputs'[t] = inputs[t])
  BY <1>0, <1>1 DEF PrepTypes
<1>6. PrepTypes'
  BY <1>0, <1>1, <1>2 DEF PrepTypes
<1>7. SuiteOwned' /\ NoPoint'
  BY <1>0, <1>2, <1>3 DEF PrepInv, SuiteOwned, NoPoint, InSuite
<1>8. PointedIsThere'
  BY <1>0, <1>4, <1>5 DEF PrepInv, PointedIsThere
<1>9. \A d \in Commands : cmd'[d].at \in {"point", "load"} =>
        cmd'[d] = cmd[d] /\ cmd[d].suite \in Suites /\ cmd[d].suite # s
  <2> SUFFICES ASSUME NEW d \in Commands, cmd'[d].at \in {"point", "load"}
               PROVE  cmd'[d] = cmd[d] /\ cmd[d].suite \in Suites /\ cmd[d].suite # s
    OBVIOUS
  <2>1. d # c /\ cmd'[d] = cmd[d]
    BY <1>2, <1>3
  <2> QED
    BY <1>0, <2>1, AloneInSuite DEF PrepInv, SuiteOwned, InSuite, s
<1>10. PublishedIsThere'
  BY <1>5, <1>9 DEF PrepInv, PublishedIsThere
<1>11. OwnIsUnseen'
  <2> SUFFICES ASSUME NEW d \in Commands, cmd'[d].at = "load", Withdrawn(d)' # {}
               PROVE  cmd'[d].id \notin pointer'[cmd'[d].suite]
    BY DEF OwnIsUnseen
  <2>1. cmd'[d] = cmd[d] /\ pointer'[cmd[d].suite] = pointer[cmd[d].suite]
    BY <1>5, <1>9
  <2>2. Withdrawn(d) # {}
    BY <2>1 DEF Withdrawn
  <2> QED
    BY <2>1, <2>2 DEF PrepInv, OwnIsUnseen
<1>12. \A t \in Suites : \A i \in inputs[t] \ inputs'[t] : cmd[c].mine /\ cmd[c].id = i
  BY <1>4, <1>5 DEF id
<1> QED
  BY <1>2, <1>3, <1>6, <1>7, <1>8, <1>10, <1>11, <1>12 DEF PrepInv

(* A command that unwinds gives back its own locks only, and one that dies  *)
(* keeps them.                                                              *)
LEMMA LeavingSteps ==
  ASSUME PrepInv, NEW c \in Commands, Unwind(c) \/ PrepDies(c)
  PROVE  PrepInv' /\ UNCHANGED <<inputs, pointer>>
<1>0. PrepTypes /\ cmd[c] \in Cmds /\ UNCHANGED <<inputs, pointer>>
  BY DEF PrepInv, PrepTypes, Unwind, PrepDies, shared
<1>1. PICK r \in Cmds : cmd' = [cmd EXCEPT ![c] = r] /\ r.at \in {"ended", "dead"}
  <2>1. NoId \in Ids
    BY DEF NoId, Ids
  <2> DEFINE a == [Fresh EXCEPT !.at = "dead"]
             b == [Fresh EXCEPT !.at = "ended", !.thrown = cmd[c].thrown, !.out = PrepOutcome(c)]
  <2>2. a \in Cmds /\ a.at = "dead"
    BY <2>1 DEF Fresh, Cmds, Places
  <2>3. PrepOutcome(c) \in {"none", "failed", "prepared"}
    BY DEF PrepOutcome
  <2>5. PrepDies(c) => cmd' = [cmd EXCEPT ![c] = a]
    BY DEF PrepDies
  <2>6. Unwind(c) => cmd' = [cmd EXCEPT ![c] = b]
    BY DEF Unwind
  <2>4. b \in Cmds /\ b.at = "ended"
    BY <1>0, <2>1, <2>3 DEF Fresh, Cmds, Places
  <2> HIDE DEF a, b
  <2> QED
    BY <2>2, <2>4, <2>5, <2>6
<1>2. cmd'[c] = r /\ \A d \in Commands : d # c => cmd'[d] = cmd[d]
  BY <1>0, <1>1 DEF PrepTypes
<1>3. /\ locks' \in [{"toolchain"} \cup Suites -> Commands \cup {"free"}]
      /\ \A l \in {"toolchain"} \cup Suites : locks[l] # c => locks'[l] = locks[l]
  BY <1>0 DEF PrepTypes, Unwind, PrepDies, Released
<1>4. PrepTypes'
  BY <1>0, <1>1, <1>3 DEF PrepTypes
<1>5. SuiteOwned'
  <2> SUFFICES ASSUME NEW d \in Commands, cmd'[d].at \in InSuite
               PROVE  cmd'[d].suite \in Suites /\ locks'[cmd'[d].suite] = d
    BY DEF SuiteOwned
  <2>1. d # c /\ cmd'[d] = cmd[d]
    BY <1>1, <1>2 DEF InSuite
  <2>2. cmd[d].suite \in Suites /\ locks[cmd[d].suite] = d
    BY <2>1 DEF PrepInv, SuiteOwned
  <2> QED
    BY <1>3, <2>1, <2>2
<1>6. PublishedIsThere' /\ NoPoint' /\ PointedIsThere'
  BY <1>0, <1>1, <1>2 DEF PrepInv, PublishedIsThere, NoPoint, PointedIsThere
<1>7. OwnIsUnseen'
  BY <1>0, <1>1, <1>2 DEF PrepInv, OwnIsUnseen, Withdrawn
<1> QED
  BY <1>0, <1>4, <1>5, <1>6, <1>7 DEF PrepInv

(* Every step keeps the invariant, and only a load that failed takes        *)
(* published inputs back.                                                   *)
LEMMA PrepSteps ==
  ASSUME PrepInv, [PrepNext]_prepVars
  PROVE  /\ PrepInv'
         /\ \A s \in Suites : \A id \in inputs[s] \ inputs'[s] :
              \E c \in Commands : cmd[c].mine /\ cmd[c].id = id /\ cmd'[c].at # "dead"
<1>1. CASE UNCHANGED prepVars
  BY <1>1, PrepUnmoved DEF prepVars
<1>2. ASSUME NEW c \in Commands,
             \/ PrepBegins(c) \/ PreflightFails(c) \/ OpenStage(c)
             \/ \E a \in {"node", "musl"} : StartDownload(c, a) \/ EndDownload(c, a) \/ StageArchive(c, a)
             \/ CreateContainer(c) \/ RemoveContainer(c) \/ AssembleToolchain(c) \/ PublishToolchain(c)
             \/ BuildStep(c)
      PROVE  PrepInv' /\ UNCHANGED inputs
  BY <1>2, EarlySteps
<1>3. ASSUME NEW c \in Commands, ToolchainLock(c)
      PROVE  PrepInv' /\ UNCHANGED inputs
  <2>1. {"toolchain lock", "suite lock"} \subseteq Places \ InSuite
    BY DEF Places, InSuite
  <2> QED
    BY <1>3, <2>1, LockTaken DEF ToolchainLock
<1>4. ASSUME NEW c \in Commands, SuiteLock(c)
      PROVE  PrepInv' /\ UNCHANGED inputs
  <2>1. "suite lock" \in Places \ InSuite /\ "open" \in Places
    BY DEF Places, InSuite
  <2>2. PICK s \in Suites : cmd[c].suite = s /\ TakeLock(c, s, "suite lock", "open")
    BY <1>4 DEF SuiteLock
  <2> QED
    BY <2>1, <2>2, LockTaken
<1>5. ASSUME NEW c \in Commands, PublishInputs(c)
      PROVE  PrepInv' /\ \A s \in Suites : inputs[s] \subseteq inputs'[s]
  BY <1>5, PublishSteps
<1>6. ASSUME NEW c \in Commands, MovePointer(c)
      PROVE  PrepInv' /\ UNCHANGED inputs
  BY <1>6, PointerSteps
<1>7. ASSUME NEW c \in Commands, Unwind(c) \/ PrepDies(c)
      PROVE  PrepInv' /\ UNCHANGED inputs
  BY <1>7, LeavingSteps
<1> QED
  BY <1>1, <1>2, <1>3, <1>4, <1>5, <1>6, <1>7, LoadSteps DEF PrepNext

\* A suite's pointer names published inputs, whatever fails or dies, and only the command
\* that published inputs takes them back, for any number of commands, suites and
\* contents.
THEOREM PrepPointer == PrepSpec => PointerNamesPublished
<1>1. PrepSpec => []PrepInv
  BY PrepStarts, PrepSteps, PTL DEF PrepSpec
<1>2. ASSUME PrepInv, PrepInv', [PrepNext]_prepVars
      PROVE  [\A s \in Suites :
                /\ pointer'[s] \subseteq inputs'[s]
                /\ \A id \in inputs[s] \ inputs'[s] :
                     \E c \in Commands : cmd[c].mine /\ cmd[c].id = id /\ cmd'[c].at # "dead"]_prepVars
  <2>1. \A s \in Suites : pointer'[s] \subseteq inputs'[s]
    BY <1>2 DEF PrepInv, PointedIsThere
  <2> QED
    BY <1>2, <2>1, PrepSteps
<1> QED
  BY <1>1, <1>2, PTL DEF PrepSpec, PointerNamesPublished
=============================================================================
