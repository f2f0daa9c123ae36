----------------------------- MODULE Semaphore ------------------------------
(***************************************************************************)
(* The FIFO counting semaphore of src/src/engine/semaphore.ts that every   *)
(* agent() call of a run, and of its nested workflows, goes through.       *)
(*                                                                         *)
(* A caller is one acquire() call together with the one release closure it *)
(* resolves to.  JavaScript runs one turn at a time, so each synchronous   *)
(* stretch is one action: acquire() up to its first suspension, and one    *)
(* call of the release closure.  A caller is "granted" from the moment the *)
(* permit is counted for it, whether or not the code behind its await has  *)
(* been resumed yet: any other turn may run in that gap.                   *)
(***************************************************************************)
EXTENDS Naturals, Sequences, FiniteSets

CONSTANTS
  Callers,  \* the acquire() calls made over the life of the run
  Permits   \* constructor argument: the run's maxConcurrency

(* The constructor throws unless permits is a positive integer.            *)
ASSUME PermitsAssumption == Permits \in Nat \ {0}

VARIABLES
  inUse,    \* the counter
  queue,    \* resolvers of the waiting acquire() calls, oldest first
  permit    \* where each acquire() call is

semVars == <<inUse, queue, permit>>

SemInit ==
  /\ inUse = 0
  /\ queue = <<>>
  /\ permit = [c \in Callers |-> "none"]

(* Mutant: tests the counter after a missed increment.                     *)
AcquireNowOneTooMany(c) ==
  /\ permit[c] = "none"
  /\ inUse <= Permits
  /\ inUse' = inUse + 1
  /\ permit' = [permit EXCEPT ![c] = "granted"]
  /\ UNCHANGED queue

(* acquire() finds the counter below the limit and takes a permit.         *)
AcquireNow(c) ==
  /\ permit[c] = "none"
  /\ inUse < Permits
  /\ inUse' = inUse + 1
  /\ permit' = [permit EXCEPT ![c] = "granted"]
  /\ UNCHANGED queue

(* Mutant: queues one permit too early.                                    *)
AcquireLaterOffByOne(c) ==
  /\ permit[c] = "none"
  /\ inUse >= Permits - 1
  /\ queue' = Append(queue, c)
  /\ permit' = [permit EXCEPT ![c] = "waiting"]
  /\ UNCHANGED inUse

(* acquire() finds every permit in use and leaves its resolver in line.    *)
AcquireLater(c) ==
  /\ permit[c] = "none"
  /\ inUse >= Permits
  /\ queue' = Append(queue, c)
  /\ permit' = [permit EXCEPT ![c] = "waiting"]
  /\ UNCHANGED inUse

Acquire(c) == AcquireNow(c) \/ AcquireLater(c)

(* Mutant: decrements before it wakes the waiter, which does not count     *)
(* itself.                                                                 *)
HandOverDecrements(c) ==
  /\ permit[c] = "granted"
  /\ queue # <<>>
  /\ queue' = Tail(queue)
  /\ permit' = [permit EXCEPT ![c] = "released", ![Head(queue)] = "granted"]
  /\ inUse' = inUse - 1

(* Mutant: looks at the head of the line without removing it.              *)
HandOverPeeks(c) ==
  /\ permit[c] = "granted"
  /\ queue # <<>>
  /\ permit' = [permit EXCEPT ![c] = "released", ![Head(queue)] = "granted"]
  /\ UNCHANGED <<inUse, queue>>

(* Mutant: takes the newest waiter (pop instead of shift).                 *)
HandOverLast(c) ==
  /\ permit[c] = "granted"
  /\ queue # <<>>
  /\ queue' = SubSeq(queue, 1, Len(queue) - 1)
  /\ permit' = [permit EXCEPT ![c] = "released", ![queue[Len(queue)]] = "granted"]
  /\ UNCHANGED inUse

(* Mutant: removes the head of the line and never resolves it.             *)
HandOverLosesWaiter(c) ==
  /\ permit[c] = "granted"
  /\ queue # <<>>
  /\ queue' = Tail(queue)
  /\ permit' = [permit EXCEPT ![c] = "released"]
  /\ inUse' = inUse - 1

(* The release closure with somebody in line: the oldest waiter inherits   *)
(* the permit and the counter is not touched.  A second call of the        *)
(* closure finds released = true and returns at once.                      *)
HandOver(c) ==
  /\ permit[c] = "granted"
  /\ queue # <<>>
  /\ queue' = Tail(queue)
  /\ permit' = [permit EXCEPT ![c] = "released", ![Head(queue)] = "granted"]
  /\ UNCHANGED inUse

(* Mutant: no `released` flag, the closure can be called twice.            *)
GiveBackTwice(c) ==
  /\ permit[c] \in {"granted", "released"}
  /\ queue = <<>>
  /\ inUse' = inUse - 1
  /\ permit' = [permit EXCEPT ![c] = "released"]
  /\ UNCHANGED queue

(* The release closure with nobody in line: only now the counter drops.    *)
GiveBack(c) ==
  /\ permit[c] = "granted"
  /\ queue = <<>>
  /\ inUse' = inUse - 1
  /\ permit' = [permit EXCEPT ![c] = "released"]
  /\ UNCHANGED queue

Release(c) == HandOver(c) \/ GiveBack(c)

SemNext == \E c \in Callers : Acquire(c) \/ Release(c)

SemSpec == SemInit /\ [][SemNext]_semVars

(* A caller that got its permit runs to its release: agentFn releases in a *)
(* finally block.                                                          *)
SemFairSpec == SemSpec /\ \A c \in Callers : WF_semVars(Release(c))
-----------------------------------------------------------------------------
Holders  == {c \in Callers : permit[c] = "granted"}
Waiters  == {c \in Callers : permit[c] = "waiting"}
Released == {c \in Callers : permit[c] = "released"}

SemTypeOK ==
  /\ inUse \in 0..Permits
  /\ queue \in Seq(Callers)
  /\ permit \in [Callers -> {"none", "waiting", "granted", "released"}]

(* The counter is never decremented and re-incremented around a hand-over, *)
(* so it stays the exact number of callers that own a permit.              *)
CounterExact ==
  /\ IsFiniteSet(Holders)
  /\ Cardinality(Holders) = inUse

(* The limit on concurrent agents holds whatever turns interleave between  *)
(* a release and the resumption of the caller it woke.                     *)
PermitsBounded == Cardinality(Holders) <= Permits

(* The line holds each waiting caller exactly once and nobody else: no     *)
(* resolver is lost and none is called twice.                              *)
LineExact ==
  /\ \A i, j \in 1..Len(queue) : queue[i] = queue[j] => i = j
  /\ \A c \in Callers : permit[c] = "waiting" <=> \E i \in 1..Len(queue) : queue[i] = c

(* Work conservation: while somebody waits every permit is in use, so no   *)
(* wake-up was lost.                                                       *)
NoIdlePermit == queue # <<>> => inUse = Permits

SemInv == SemTypeOK /\ CounterExact /\ LineExact /\ NoIdlePermit

(* The semaphore keeps the promise of PermitPool: room goes to the head of *)
(* the line only, and a leaver is replaced in the same step.               *)
Pool == INSTANCE PermitPool WITH line <- queue, inside <- Holders, gone <- Released

PoolSpec == Pool!Spec

(* Every caller that queued is eventually given a permit.                  *)
EveryWaiterServed ==
  \A c \in Callers : permit[c] = "waiting" ~> permit[c] \in {"granted", "released"}
=============================================================================
