------------------------------- MODULE BenchLock -------------------------------
(***************************************************************************)
(* The lock file of the benchmark harness (bench/src/shared/locks.ts): the   *)
(* lifecycle lease of a run and the claim on a run directory.                *)
(*                                                                          *)
(* A lock is an O_EXCL file that names its owner.  The file exists before    *)
(* its contents do.  A lock whose owner is dead can be removed by a process  *)
(* that holds a second lock file, the recovery guard, for the duration.      *)
(* A process is one run of the bench command: it crashes at most once.       *)
(***************************************************************************)
EXTENDS Naturals, FiniteSets

CONSTANTS
  Procs,     \* the processes that go for the lock
  Nobody     \* no process

ASSUME NobodyAssumption == Nobody \notin Procs

VARIABLES
  lock,      \* the lock file: its owner, and whether the contents are written
  guard,     \* the owner of the recovery guard file
  stage,     \* where each process is
  stale      \* the owner a recovering process has read

lockVars == <<lock, guard, stage, stale>>

Free == [owner |-> Nobody, whole |-> FALSE]

Guarding == {"recovering", "observed", "unlinking", "recreating", "rewriting",
             "guarded", "unguarding"}
Holding  == {"held", "guarded"}
Stages   == Guarding \cup {"out", "writing", "guard", "held", "refused", "dead"}

\* gone: the processes that have died before
LockStart(gone) ==
  /\ lock = Free /\ guard = Nobody
  /\ stage = [p \in Procs |-> IF p \in gone THEN "dead" ELSE "out"]
  /\ stale = [p \in Procs |-> Nobody]

LockInit == LockStart({})

Goes(p, from, to) == stage[p] = from /\ stage' = [stage EXCEPT ![p] = to]

-----------------------------------------------------------------------------
(* acquireBenchLock *)

\* createLockFile: the exclusive create decides, the contents follow.
Create(p) ==
  \/ /\ lock = Free /\ lock' = [owner |-> p, whole |-> FALSE]
     /\ Goes(p, "out", "writing")
     /\ UNCHANGED <<guard, stale>>
  \/ /\ lock # Free
     /\ \/ Goes(p, "out", "refused")      \* recoverStale was not asked for
        \/ Goes(p, "out", "guard")
     /\ UNCHANGED <<lock, guard, stale>>

WriteOwner(p) ==
  /\ lock' = [owner |-> p, whole |-> TRUE]
  /\ \/ Goes(p, "writing", "held")
     \/ Goes(p, "rewriting", "guarded")
  /\ UNCHANGED <<guard, stale>>

\* A failed write takes the file away again.
WriteFails(p) ==
  /\ lock' = Free
  /\ \/ Goes(p, "writing", "refused")
     \/ Goes(p, "rewriting", "unguarding")
  /\ UNCHANGED <<guard, stale>>

\* Mutant: the guard is not exclusive.
GuardFreeAlways == TRUE
GuardFree == guard = Nobody

\* Nobody reads the contents of the guard but the process that made it.
TakeGuard(p) ==
  \/ /\ GuardFree /\ guard' = p
     /\ Goes(p, "guard", "recovering")
     /\ UNCHANGED <<lock, stale>>
  \/ /\ ~GuardFree
     /\ Goes(p, "guard", "refused")
     /\ UNCHANGED <<lock, guard, stale>>

-----------------------------------------------------------------------------
(* recoverStaleLock: old enough, of this host, its owner absent on two looks *)

\* Mutant: a pid that cannot be looked at is taken for absent.
AbsentWhenUnseen(owner) == TRUE
Absent(owner) == stage[owner] = "dead"

\* A lock that is missing, unreadable, young, foreign, live or unverifiable is left.
GiveUp(p) ==
  /\ \/ Goes(p, "recovering", "unguarding")
     \/ Goes(p, "observed", "unguarding")
  /\ UNCHANGED <<lock, guard, stale>>

ReadStale(p) ==
  /\ lock.whole /\ Absent(lock.owner)
  /\ Goes(p, "recovering", "observed")
  /\ stale' = [stale EXCEPT ![p] = lock.owner]
  /\ UNCHANGED <<lock, guard>>

Reread(p) ==
  /\ Goes(p, "observed", "unlinking")
  /\ Absent(stale[p]) /\ lock = [owner |-> stale[p], whole |-> TRUE]
  /\ UNCHANGED <<lock, guard, stale>>

\* unlinkSync removes whatever is there by now.
Unlink(p) ==
  \/ /\ lock # Free /\ lock' = Free
     /\ Goes(p, "unlinking", "recreating")
     /\ UNCHANGED <<guard, stale>>
  \/ /\ lock = Free
     /\ Goes(p, "unlinking", "unguarding")
     /\ UNCHANGED <<lock, guard, stale>>

Recreate(p) ==
  \/ /\ lock = Free /\ lock' = [owner |-> p, whole |-> FALSE]
     /\ Goes(p, "recreating", "rewriting")
     /\ UNCHANGED <<guard, stale>>
  \/ /\ lock # Free                       \* reacquired concurrently
     /\ Goes(p, "recreating", "unguarding")
     /\ UNCHANGED <<lock, guard, stale>>

DropGuard(p) ==
  /\ guard = p /\ guard' = Nobody
  /\ \/ Goes(p, "guarded", "held")
     \/ Goes(p, "unguarding", "refused")
  /\ UNCHANGED <<lock, stale>>

-----------------------------------------------------------------------------
(* The holder *)

assertHeld(p) == lock = [owner |-> p, whole |-> TRUE]

Release(p) ==
  /\ assertHeld(p) /\ lock' = Free
  /\ Goes(p, "held", "out")
  /\ UNCHANGED <<guard, stale>>

Crash(p) ==
  /\ stage[p] # "dead"
  /\ stage' = [stage EXCEPT ![p] = "dead"]
  /\ UNCHANGED <<lock, guard, stale>>

Acquiring(p) ==
  \/ Create(p) \/ WriteOwner(p) \/ WriteFails(p) \/ TakeGuard(p)
  \/ GiveUp(p) \/ ReadStale(p) \/ Reread(p) \/ Unlink(p) \/ Recreate(p) \/ DropGuard(p)

LockNext == \E p \in Procs : Acquiring(p) \/ Release(p) \/ Crash(p)

LockSpec == LockInit /\ [][LockNext]_lockVars

-----------------------------------------------------------------------------
LockTypeOK ==
  /\ lock \in [owner : Procs \cup {Nobody}, whole : BOOLEAN]
  /\ guard \in Procs \cup {Nobody}
  /\ stage \in [Procs -> Stages]
  /\ stale \in [Procs -> Procs \cup {Nobody}]

\* Two processes never own the run at once, however they crash and whoever removes
\* the lock a dead owner left.
MutualExclusion ==
  \A p, q \in Procs : stage[p] \in Holding /\ stage[q] \in Holding => p = q

\* The lock of a live owner is never taken from under it: assertHeld cannot fail.
LeaseKept ==
  \A p \in Procs : stage[p] \in Holding => assertHeld(p)
=============================================================================
