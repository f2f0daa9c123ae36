--------------------------- MODULE DispatchProofs ---------------------------
(***************************************************************************)
(* What is proved of agent() dispatch, for every number of calls, permits, *)
(* tokens and child workflows.                                             *)
(*   - The semaphore's inductive invariant (SemInv) and its refinement of  *)
(*     PermitPool.                                                         *)
(*   - Dispatch uses the semaphore by the rules: a call owns a permit      *)
(*     exactly in its try block, numbers are unique, permits go out in     *)
(*     their order, and both the agents at work and the budget overshoot   *)
(*     are bounded (StageInv, BudgetInv, OrderInv).                        *)
(*   - A stop reaches the scripts under way (NestInv).  Two facts carry    *)
(*     that proof: a running script listens to the flow above or has heard *)
(*     already, and no call belongs to a flow whose script has not begun.  *)
(***************************************************************************)
EXTENDS Dispatch, Nesting, FiniteSetTheorems, SequenceTheorems, TLAPS

(* The semaphore. *)

(* Head and Tail in terms of positions, the form every step below needs.   *)
LEMMA LineShift ==
  ASSUME NEW S, NEW s \in Seq(S), s # <<>>
  PROVE  /\ Len(s) \in Nat \ {0}
         /\ Head(s) = s[1]
         /\ Head(s) \in S
         /\ Tail(s) \in Seq(S)
         /\ Len(Tail(s)) = Len(s) - 1
         /\ \A i \in 1..Len(s) - 1 : Tail(s)[i] = s[i + 1]
BY HeadTailProperties, EmptySeq

(* Append in terms of positions.                                           *)
LEMMA LineGrow ==
  ASSUME NEW S, NEW s \in Seq(S), NEW x \in S
  PROVE  /\ Append(s, x) \in Seq(S)
         /\ Len(Append(s, x)) = Len(s) + 1
         /\ \A i \in 1..Len(s) : Append(s, x)[i] = s[i]
         /\ Append(s, x)[Len(s) + 1] = x
OBVIOUS

(* The head of the line is a waiting caller, so a hand-over never meets    *)
(* the caller that is leaving.                                             *)
LEMMA HeadWaits ==
  ASSUME SemTypeOK, LineExact, queue # <<>>
  PROVE  /\ Head(queue) \in Callers
         /\ permit[Head(queue)] = "waiting"
<1>1. /\ 1 \in 1..Len(queue)
      /\ Head(queue) = queue[1]
      /\ Head(queue) \in Callers
  BY LineShift DEF SemTypeOK
<1> QED
  BY <1>1 DEF LineExact

(* How each kind of turn changes the set of permit owners.                 *)
LEMMA HoldersOfAcquireNow ==
  ASSUME SemTypeOK, NEW c \in Callers, AcquireNow(c)
  PROVE  c \notin Holders /\ Holders' = Holders \cup {c}
BY DEF SemTypeOK, AcquireNow, Holders

(* A caller that joins the line owns nothing yet.                          *)
LEMMA HoldersOfAcquireLater ==
  ASSUME SemTypeOK, NEW c \in Callers, AcquireLater(c)
  PROVE  Holders' = Holders
BY DEF SemTypeOK, AcquireLater, Holders

(* The leaver is replaced by the head of the line, another caller.         *)
LEMMA HoldersOfHandOver ==
  ASSUME SemTypeOK, LineExact, NEW c \in Callers, HandOver(c)
  PROVE  /\ c \in Holders
         /\ Head(queue) \notin Holders
         /\ Head(queue) # c
         /\ Holders' = (Holders \ {c}) \cup {Head(queue)}
<1>1. /\ Head(queue) \in Callers
      /\ permit[Head(queue)] = "waiting"
  BY HeadWaits DEF HandOver
<1> QED
  BY <1>1 DEF SemTypeOK, HandOver, Holders

(* A leaver with nobody behind it just leaves.                             *)
LEMMA HoldersOfGiveBack ==
  ASSUME SemTypeOK, NEW c \in Callers, GiveBack(c)
  PROVE  c \in Holders /\ Holders' = Holders \ {c}
BY DEF SemTypeOK, GiveBack, Holders
-----------------------------------------------------------------------------
(* A new semaphore: no owner, nobody in line.                              *)
LEMMA SemInvInit == SemInit => SemInv
<1> SUFFICES ASSUME SemInit PROVE SemInv
  OBVIOUS
<1>1. SemTypeOK
  BY PermitsAssumption DEF SemInit, SemTypeOK
<1>2. Holders = {}
  BY DEF SemInit, Holders
<1>3. CounterExact
  BY <1>2, FS_EmptySet DEF SemInit, CounterExact
<1>4. LineExact
  BY DEF SemInit, LineExact
<1>5. NoIdlePermit
  BY DEF SemInit, NoIdlePermit
<1> QED
  BY <1>1, <1>3, <1>4, <1>5 DEF SemInv

(* Taking a free permit counts one owner more; nobody was in line.         *)
LEMMA SemInvAcquireNow ==
  ASSUME SemInv, NEW c \in Callers, AcquireNow(c)
  PROVE  SemInv'
<1> USE DEF SemInv
<1>1. SemTypeOK'
  BY PermitsAssumption DEF SemTypeOK, AcquireNow
<1>2. CounterExact'
  <2>1. c \notin Holders /\ Holders' = Holders \cup {c}
    BY HoldersOfAcquireNow
  <2>2. /\ IsFiniteSet(Holders \cup {c})
        /\ Cardinality(Holders \cup {c}) = Cardinality(Holders) + 1
    BY <2>1, FS_AddElement DEF CounterExact
  <2> QED
    BY <2>1, <2>2 DEF CounterExact, AcquireNow
<1>3. LineExact'
  BY DEF LineExact, AcquireNow, SemTypeOK
<1>4. NoIdlePermit'
  BY PermitsAssumption DEF NoIdlePermit, AcquireNow, SemTypeOK
<1> QED
  BY <1>1, <1>2, <1>3, <1>4

(* A caller joins the line only when no permit is free.                    *)
LEMMA SemInvAcquireLater ==
  ASSUME SemInv, NEW c \in Callers, AcquireLater(c)
  PROVE  SemInv'
<1> USE DEF SemInv
<1>1. /\ queue' \in Seq(Callers)
      /\ Len(queue') = Len(queue) + 1
      /\ \A i \in 1..Len(queue) : queue'[i] = queue[i]
      /\ queue'[Len(queue) + 1] = c
  BY LineGrow DEF SemTypeOK, AcquireLater
<1>2. Len(queue) \in Nat
  BY LenProperties DEF SemTypeOK
<1>3. SemTypeOK'
  BY <1>1 DEF SemTypeOK, AcquireLater
<1>4. CounterExact'
  BY HoldersOfAcquireLater DEF CounterExact, AcquireLater
<1>5. \A i \in 1..Len(queue) : queue[i] # c
  BY DEF LineExact, AcquireLater
<1>6. ASSUME NEW i \in 1..Len(queue'), NEW j \in 1..Len(queue'), queue'[i] = queue'[j]
      PROVE  i = j
  <2>1. CASE i \in 1..Len(queue) /\ j \in 1..Len(queue)
    BY <1>1, <1>6, <2>1 DEF LineExact
  <2>2. CASE i = Len(queue) + 1 \/ j = Len(queue) + 1
    BY <1>1, <1>2, <1>5, <1>6, <2>2
  <2> QED
    BY <1>1, <1>2, <2>1, <2>2
<1>7. ASSUME NEW d \in Callers
      PROVE  permit'[d] = "waiting" <=> \E i \in 1..Len(queue') : queue'[i] = d
  <2>1. CASE d = c
    <3>1. permit'[d] = "waiting"
      BY <2>1 DEF AcquireLater, SemTypeOK
    <3>2. Len(queue) + 1 \in 1..Len(queue')
      BY <1>1, <1>2
    <3> QED
      BY <1>1, <2>1, <3>1, <3>2
  <2>2. CASE d # c
    <3>1. permit'[d] = permit[d]
      BY <2>2 DEF AcquireLater, SemTypeOK
    <3>2. (\E i \in 1..Len(queue') : queue'[i] = d) <=> \E i \in 1..Len(queue) : queue[i] = d
      BY <1>1, <1>2, <2>2
    <3> QED
      BY <3>1, <3>2 DEF LineExact
  <2> QED
    BY <2>1, <2>2
<1>8. LineExact'
  BY <1>6, <1>7 DEF LineExact
<1>9. NoIdlePermit'
  BY PermitsAssumption DEF NoIdlePermit, AcquireLater, SemTypeOK
<1> QED
  BY <1>3, <1>4, <1>8, <1>9

(* A hand-over swaps one owner for another and shortens the line by one.   *)
LEMMA SemInvHandOver ==
  ASSUME SemInv, NEW c \in Callers, HandOver(c)
  PROVE  SemInv'
<1> USE DEF SemInv
<1> DEFINE h == Head(queue)
<1>1. /\ Len(queue) \in Nat \ {0}
      /\ h = queue[1]
      /\ queue' \in Seq(Callers)
      /\ Len(queue') = Len(queue) - 1
      /\ \A i \in 1..Len(queue) - 1 : queue'[i] = queue[i + 1]
  BY LineShift DEF SemTypeOK, HandOver
<1>2. h \in Callers /\ permit[h] = "waiting"
  BY HeadWaits DEF HandOver
<1>3. /\ permit'[c] = "released"
      /\ permit'[h] = "granted"
      /\ \A d \in Callers \ {c, h} : permit'[d] = permit[d]
  BY <1>2 DEF SemTypeOK, HandOver
<1>4. SemTypeOK'
  BY <1>1, <1>2 DEF SemTypeOK, HandOver
<1>5. CounterExact'
  <2>1. /\ c \in Holders
        /\ h \notin Holders \ {c}
        /\ Holders' = (Holders \ {c}) \cup {h}
    BY HoldersOfHandOver
  <2>2. /\ IsFiniteSet(Holders \ {c})
        /\ Cardinality(Holders \ {c}) = inUse - 1
    BY <2>1, FS_RemoveElement DEF CounterExact
  <2>3. inUse' = inUse /\ inUse \in Nat
    BY PermitsAssumption DEF HandOver, SemTypeOK
  <2>4. /\ IsFiniteSet((Holders \ {c}) \cup {h})
        /\ Cardinality((Holders \ {c}) \cup {h}) = (inUse - 1) + 1
    BY <2>1, <2>2, FS_AddElement
  <2> QED
    BY <2>1, <2>3, <2>4 DEF CounterExact
<1>6. ASSUME NEW i \in 1..Len(queue'), NEW j \in 1..Len(queue'), queue'[i] = queue'[j]
      PROVE  i = j
  <2>1. i + 1 \in 1..Len(queue) /\ j + 1 \in 1..Len(queue)
    BY <1>1
  <2>2. queue[i + 1] = queue[j + 1]
    BY <1>1, <1>6
  <2>3. i + 1 = j + 1
    BY <2>1, <2>2 DEF LineExact
  <2> QED
    BY <2>3, <1>1
<1>7. ASSUME NEW d \in Callers
      PROVE  permit'[d] = "waiting" <=> \E i \in 1..Len(queue') : queue'[i] = d
  <2>1. (\E i \in 1..Len(queue') : queue'[i] = d) <=> \E i \in 2..Len(queue) : queue[i] = d
    <3>1. ASSUME NEW i \in 1..Len(queue'), queue'[i] = d
          PROVE  \E k \in 2..Len(queue) : queue[k] = d
      <4>1. i + 1 \in 2..Len(queue) /\ queue[i + 1] = d
        BY <1>1, <3>1
      <4> QED
        BY <4>1
    <3>2. ASSUME NEW i \in 2..Len(queue), queue[i] = d
          PROVE  \E k \in 1..Len(queue') : queue'[k] = d
      <4>1. i - 1 \in 1..Len(queue') /\ queue'[i - 1] = queue[(i - 1) + 1]
        BY <1>1
      <4>2. (i - 1) + 1 = i
        OBVIOUS
      <4> QED
        BY <4>1, <4>2, <3>2
    <3> QED
      BY <3>1, <3>2
  <2>2. CASE d = h
    <3>1. \A i \in 2..Len(queue) : queue[i] # h
      BY <1>1 DEF LineExact
    <3> QED
      BY <1>3, <2>1, <2>2, <3>1
  <2>3. CASE d = c
    <3>1. permit[c] # "waiting"
      BY DEF HandOver
    <3>2. \A i \in 1..Len(queue) : queue[i] # c
      BY <3>1 DEF LineExact
    <3> QED
      BY <1>3, <2>1, <2>3, <3>2
  <2>4. CASE d # h /\ d # c
    <3>1. permit'[d] = permit[d]
      BY <1>3, <2>4
    <3>2. (\E i \in 1..Len(queue) : queue[i] = d) <=> \E i \in 2..Len(queue) : queue[i] = d
      BY <1>1, <2>4
    <3> QED
      BY <2>1, <3>1, <3>2 DEF LineExact
  <2> QED
    BY <2>2, <2>3, <2>4
<1>8. LineExact'
  BY <1>6, <1>7 DEF LineExact
<1>9. NoIdlePermit'
  BY DEF NoIdlePermit, HandOver
<1> QED
  BY <1>4, <1>5, <1>8, <1>9

(* The counter drops only when nobody waits.                               *)
LEMMA SemInvGiveBack ==
  ASSUME SemInv, NEW c \in Callers, GiveBack(c)
  PROVE  SemInv'
<1> USE DEF SemInv
<1>1. c \in Holders /\ Holders' = Holders \ {c}
  BY HoldersOfGiveBack
<1>2. inUse \in Nat \ {0}
  BY <1>1, PermitsAssumption, FS_EmptySet DEF CounterExact, SemTypeOK
<1>3. SemTypeOK'
  BY <1>2, PermitsAssumption DEF SemTypeOK, GiveBack
<1>4. CounterExact'
  BY <1>1, FS_RemoveElement DEF CounterExact, GiveBack
<1>5. LineExact'
  BY DEF LineExact, GiveBack, SemTypeOK
<1>6. NoIdlePermit'
  BY DEF NoIdlePermit, GiveBack
<1> QED
  BY <1>3, <1>4, <1>5, <1>6

(* One turn of the semaphore keeps the invariant.                          *)
LEMMA SemInvStep == SemInv /\ [SemNext]_semVars => SemInv'
<1> SUFFICES ASSUME SemInv, [SemNext]_semVars PROVE SemInv'
  OBVIOUS
<1>1. CASE UNCHANGED semVars
  BY <1>1 DEF semVars, SemInv, SemTypeOK, CounterExact, Holders, LineExact, NoIdlePermit
<1>2. ASSUME NEW c \in Callers, Acquire(c)
      PROVE  SemInv'
  BY <1>2, SemInvAcquireNow, SemInvAcquireLater DEF Acquire
<1>3. ASSUME NEW c \in Callers, Release(c)
      PROVE  SemInv'
  BY <1>3, SemInvHandOver, SemInvGiveBack DEF Release
<1> QED
  BY <1>1, <1>2, <1>3 DEF SemNext

(* The semaphore's state is always well typed, the counter is the number   *)
(* of permit owners, the line is exact and no permit idles while anyone    *)
(* waits (semaphore.ts acquire and its release closure).                   *)
THEOREM SemaphoreInvariant == SemSpec => []SemInv
BY SemInvInit, SemInvStep, PTL DEF SemSpec

(* No interleaving of acquires and releases over-subscribes the limit.     *)
THEOREM SemaphoreBounded == SemSpec => []PermitsBounded
<1>1. SemInv => PermitsBounded
  BY PermitsAssumption DEF SemInv, CounterExact, SemTypeOK, PermitsBounded
<1> QED
  BY <1>1, SemaphoreInvariant, PTL
-----------------------------------------------------------------------------
(* The callers in line, as PermitPool sees them, are the waiting ones.     *)
LEMMA PoolWaiting ==
  ASSUME SemInv
  PROVE  Pool!Waiting = Waiters
<1>1. DOMAIN queue = 1..Len(queue)
  BY LenProperties DEF SemInv, SemTypeOK
<1>2. \A i \in 1..Len(queue) : queue[i] \in Callers
  BY ElementOfSeq DEF SemInv, SemTypeOK
<1> QED
  BY <1>1, <1>2 DEF SemInv, LineExact, Pool!Waiting, Waiters

(* The instance counts with its own copy of Cardinality.                   *)
LEMMA PoolCardinality == \A S : Pool!Cardinality(S) = Cardinality(S)
BY DEF Pool!Cardinality, Cardinality, Pool!IsFiniteSet, IsFiniteSet

(* A caller that has not acquired is new to the pool.                      *)
LEMMA PoolFresh ==
  ASSUME SemInv, NEW c \in Callers, permit[c] = "none"
  PROVE  Pool!Fresh(c)
BY PoolWaiting DEF Pool!Fresh, Waiters, Holders, Released

(* Every turn of the semaphore is a step of PermitPool.                    *)
LEMMA PoolStep == SemInv /\ [SemNext]_semVars => [Pool!Next]_(Pool!poolVars)
<1> SUFFICES ASSUME SemInv, [SemNext]_semVars PROVE [Pool!Next]_(Pool!poolVars)
  OBVIOUS
<1> USE DEF SemInv
<1>1. ASSUME NEW c \in Callers, AcquireNow(c)
      PROVE  Pool!Enter(c)
  <2>1. Pool!Fresh(c)
    BY <1>1, PoolFresh DEF AcquireNow
  <2>2. queue = <<>>
    BY <1>1, PermitsAssumption DEF NoIdlePermit, AcquireNow, SemTypeOK
  <2>3. Pool!Cardinality(Holders) < Permits
    BY <1>1, PoolCardinality DEF CounterExact, AcquireNow
  <2>4. Released' = Released
    BY <1>1 DEF AcquireNow, Released, SemTypeOK
  <2> QED
    BY <1>1, <2>1, <2>2, <2>3, <2>4, HoldersOfAcquireNow DEF Pool!Enter, AcquireNow
<1>2. ASSUME NEW c \in Callers, AcquireLater(c)
      PROVE  Pool!Queue(c)
  <2>1. Pool!Fresh(c)
    BY <1>2, PoolFresh DEF AcquireLater
  <2>2. Pool!Cardinality(Holders) = Permits
    BY <1>2, PermitsAssumption, PoolCardinality DEF CounterExact, AcquireLater, SemTypeOK
  <2>3. Released' = Released
    BY <1>2 DEF AcquireLater, Released, SemTypeOK
  <2> QED
    BY <1>2, <2>1, <2>2, <2>3, HoldersOfAcquireLater DEF Pool!Queue, AcquireLater
<1>3. ASSUME NEW c \in Callers, HandOver(c)
      PROVE  Pool!HandOver(c)
  <2>1. Head(queue) \in Callers /\ permit[Head(queue)] = "waiting"
    BY <1>3, HeadWaits DEF HandOver
  <2>2. Released' = Released \cup {c}
    BY <1>3, <2>1 DEF HandOver, Released, SemTypeOK
  <2> QED
    BY <1>3, <2>2, HoldersOfHandOver DEF Pool!HandOver, HandOver
<1>4. ASSUME NEW c \in Callers, GiveBack(c)
      PROVE  Pool!Leave(c)
  <2>1. Released' = Released \cup {c}
    BY <1>4 DEF GiveBack, Released, SemTypeOK
  <2> QED
    BY <1>4, <2>1, HoldersOfGiveBack DEF Pool!Leave, GiveBack
<1>5. CASE UNCHANGED semVars
  BY <1>5 DEF semVars, Pool!poolVars, Holders, Released
<1> QED
  BY <1>1, <1>2, <1>3, <1>4, <1>5 DEF SemNext, Acquire, Release, Pool!Next

(* The counter, the queue of resolvers and the hand-over implement the     *)
(* promise of PermitPool.                                                  *)
THEOREM SemaphoreIsPermitPool == SemSpec => PoolSpec
<1>1. SemInit => Pool!Init
  BY DEF SemInit, Pool!Init, Holders, Released
<1> QED
  BY <1>1, PoolStep, SemaphoreInvariant, PTL DEF SemSpec, PoolSpec, Pool!Spec

-----------------------------------------------------------------------------
(* Dispatch. *)

(* What each kind of turn does to the semaphore.                           *)
LEMMA CallUsesSemaphore ==
  ASSUME NEW c \in Callers, Call(c)
  PROVE  Acquire(c) \/ UNCHANGED semVars
BY DEF Call, Refuse, CallMalformed, CallSkipped, CallCached, CallQueued

(* Turns after the permit release it or leave the semaphore alone.         *)
LEMMA AdvanceUsesSemaphore ==
  ASSUME NEW c \in Callers, Advance(c)
  PROVE  Release(c) \/ UNCHANGED semVars
BY DEF Advance, Withdraw, Start, Isolate, StartIsolated, IsolationFails, Finalize

(* Every end of an execution releases, in the finally block.               *)
LEMMA FinishUsesSemaphore ==
  ASSUME NEW c \in Callers, Finish(c)
  PROVE  Release(c)
BY DEF Finish, Settle, SettleUnrecorded, ExecuteThrows, Leave

(* A step of dispatch is at most one step of the semaphore.                *)
LEMMA DispatchStepsSemaphore == [Next]_vars => [SemNext]_semVars
<1> SUFFICES ASSUME [Next]_vars PROVE [SemNext]_semVars
  OBVIOUS
<1>1. CASE UNCHANGED vars
  BY <1>1 DEF vars, semVars
<1>2. CASE Abort
  BY <1>2 DEF Abort
<1>3. ASSUME NEW c \in Callers, Call(c) \/ Advance(c) \/ Finish(c)
      PROVE  [SemNext]_semVars
  BY <1>3, CallUsesSemaphore, AdvanceUsesSemaphore, FinishUsesSemaphore DEF SemNext
<1> QED
  BY <1>1, <1>2, <1>3 DEF Next

(* agentFn touches the semaphore through acquire and release alone, so the *)
(* invariant of the semaphore holds in dispatch.                           *)
LEMMA DispatchUsesSemaphore == Spec => SemSpec
<1>1. DispatchInit => SemInit
  BY DEF DispatchInit
<1> QED
  BY <1>1, DispatchStepsSemaphore, PTL DEF Spec, SemSpec

(* So dispatch keeps the counter and the line exact.                       *)
COROLLARY DispatchSemInv == Spec => []SemInv
BY DispatchUsesSemaphore, SemaphoreInvariant, PTL
-----------------------------------------------------------------------------
(* The types the stage argument needs.                                     *)
StageTypeOK ==
  /\ stage \in [Callers -> Stages]
  /\ isolated \in [Callers -> BOOLEAN]
  /\ verdict \in [Callers -> {"none", "returned", "thrown"}]
  /\ \A c \in Callers : stage[c] = "finalizing" => verdict[c] \in Ended

StageInv == StageTypeOK /\ PermitMatchesStage

(* No call has been made yet.                                              *)
LEMMA StageTypeInit == DispatchInit => StageTypeOK
BY DEF DispatchInit, StageTypeOK, Stages

(* No turn of agentFn leaves the stages, and finalizing has a verdict.     *)
LEMMA StageTypeStep == StageTypeOK /\ [Next]_vars => StageTypeOK'
<1> SUFFICES ASSUME StageTypeOK, [Next]_vars PROVE StageTypeOK'
  OBVIOUS
<1> USE DEF StageTypeOK, Stages, Ended, Become
<1>1. CASE UNCHANGED vars
  BY <1>1 DEF vars, dispatchVars
<1>2. CASE Abort
  BY <1>2 DEF Abort
<1>3. ASSUME NEW c \in Callers, Call(c)
      PROVE  StageTypeOK'
  BY <1>3 DEF Call, Refuse, CallMalformed, CallSkipped, CallCached, CallQueued
<1>4. ASSUME NEW c \in Callers, Advance(c)
      PROVE  StageTypeOK'
  BY <1>4 DEF Advance, Withdraw, Start, Isolate, StartIsolated, IsolationFails, Finalize
<1>5. ASSUME NEW c \in Callers, Finish(c)
      PROVE  StageTypeOK'
  <2>1. /\ \E end \in Ended : Leave(c, end)
        /\ UNCHANGED isolated
    BY <1>5 DEF Finish, Settle, SettleUnrecorded, ExecuteThrows
  <2> QED
    BY <2>1 DEF Leave
<1> QED
  BY <1>1, <1>2, <1>3, <1>4, <1>5 DEF Next

-----------------------------------------------------------------------------
(* A turn that leaves the semaphore alone and moves one call to a stage    *)
(* that goes with the permit it has.                                       *)
LEMMA MoveKeepsMatch ==
  ASSUME SemTypeOK, StageTypeOK, PermitMatchesStage, NEW c \in Callers, NEW s,
         UNCHANGED semVars, Become(c, s),
         \/ permit[c] = "none" /\ s \in Ended
         \/ permit[c] = "granted" /\ s \in {"isolating", "running"}
         \/ permit[c] = "released" /\ s \in Ended
  PROVE  PermitMatchesStage'
BY DEF StageTypeOK, PermitMatchesStage, semVars, Become, Ended

(* A live call asks for a permit as it becomes queued.                     *)
LEMMA AcquireKeepsMatch ==
  ASSUME SemTypeOK, StageTypeOK, PermitMatchesStage, NEW c \in Callers,
         Acquire(c), Become(c, "queued")
  PROVE  PermitMatchesStage'
<1>1. \/ permit' = [permit EXCEPT ![c] = "granted"]
      \/ permit' = [permit EXCEPT ![c] = "waiting"]
  BY DEF Acquire, AcquireNow, AcquireLater
<1> QED
  BY <1>1 DEF SemTypeOK, StageTypeOK, PermitMatchesStage, Become

(* The waiter that inherits a permit was queued and still is.              *)
LEMMA ReleaseKeepsMatch ==
  ASSUME SemInv, StageTypeOK, PermitMatchesStage, NEW c \in Callers,
         NEW s \in {"finalizing"} \cup Ended, Release(c), Become(c, s)
  PROVE  PermitMatchesStage'
<1> USE DEF SemInv
<1>1. CASE GiveBack(c)
  BY <1>1 DEF GiveBack, SemTypeOK, StageTypeOK, PermitMatchesStage, Become
<1>2. CASE HandOver(c)
  <2>1. /\ Head(queue) \in Callers
        /\ permit[Head(queue)] = "waiting"
        /\ permit[c] = "granted"
    BY <1>2, HeadWaits DEF HandOver
  <2>2. permit' = [permit EXCEPT ![c] = "released", ![Head(queue)] = "granted"]
    BY <1>2 DEF HandOver
  <2>3. stage[Head(queue)] = "queued"
    BY <2>1 DEF PermitMatchesStage
  <2> QED
    BY <2>1, <2>2, <2>3 DEF SemTypeOK, StageTypeOK, PermitMatchesStage, Become
<1> QED
  BY <1>1, <1>2 DEF Release

(* No call has a permit yet.                                               *)
LEMMA MatchInit == DispatchInit => PermitMatchesStage
BY DEF DispatchInit, SemInit, PermitMatchesStage

(* The head of agentFn: only a live call touches its permit.               *)
LEMMA CallKeepsMatch ==
  ASSUME SemInv, StageTypeOK, PermitMatchesStage, NEW c \in Callers, Call(c)
  PROVE  PermitMatchesStage'
<1> USE DEF SemInv
<1>1. CASE CallQueued(c)
  BY <1>1, AcquireKeepsMatch DEF CallQueued
<1>2. CASE Refuse(c) \/ CallMalformed(c) \/ CallSkipped(c) \/ CallCached(c)
  <2>1. /\ stage[c] = "uncalled"
        /\ UNCHANGED semVars
        /\ \E s \in Ended : Become(c, s)
    BY <1>2 DEF Refuse, CallMalformed, CallSkipped, CallCached, Ended
  <2>2. permit[c] = "none"
    BY <2>1 DEF SemTypeOK, PermitMatchesStage, Ended
  <2> QED
    BY <2>1, <2>2, MoveKeepsMatch
<1> QED
  BY <1>1, <1>2 DEF Call

(* The gate, the worktree and the end of its removal.                      *)
LEMMA AdvanceKeepsMatch ==
  ASSUME SemInv, StageTypeOK, PermitMatchesStage, NEW c \in Callers, Advance(c)
  PROVE  PermitMatchesStage'
<1> USE DEF SemInv
<1>1. CASE Withdraw(c) \/ IsolationFails(c)
  <2>1. Release(c) /\ Become(c, "thrown")
    BY <1>1 DEF Withdraw, IsolationFails
  <2> QED
    BY <2>1, ReleaseKeepsMatch DEF Ended
<1>2. CASE Start(c) \/ Isolate(c)
  <2>1. /\ permit[c] = "granted"
        /\ UNCHANGED semVars
        /\ \E s \in {"isolating", "running"} : Become(c, s)
    BY <1>2 DEF Start, Isolate, Resumed
  <2> QED
    BY <2>1, MoveKeepsMatch
<1>3. CASE StartIsolated(c)
  <2>1. permit[c] = "granted"
    BY <1>3 DEF StartIsolated, SemTypeOK, PermitMatchesStage, Ended
  <2> QED
    BY <1>3, <2>1, MoveKeepsMatch DEF StartIsolated
<1>4. CASE Finalize(c)
  <2>1. permit[c] = "released" /\ verdict[c] \in Ended
    BY <1>4 DEF Finalize, SemTypeOK, StageTypeOK, PermitMatchesStage, Ended
  <2> QED
    BY <1>4, <2>1, MoveKeepsMatch DEF Finalize
<1> QED
  BY <1>1, <1>2, <1>3, <1>4 DEF Advance

(* The end of an execution, however execute() ended.                       *)
LEMMA FinishKeepsMatch ==
  ASSUME SemInv, StageTypeOK, PermitMatchesStage, NEW c \in Callers, Finish(c)
  PROVE  PermitMatchesStage'
<1>1. PICK end \in Ended : Leave(c, end)
  BY DEF Finish, Settle, SettleUnrecorded, ExecuteThrows, Ended
<1>2. PICK s \in {"finalizing"} \cup Ended : Become(c, s)
  BY <1>1 DEF Leave
<1> QED
  BY <1>1, <1>2, ReleaseKeepsMatch DEF Leave

(* Permits go with stages across every step.                               *)
LEMMA MatchStep ==
  SemInv /\ StageTypeOK /\ PermitMatchesStage /\ [Next]_vars => PermitMatchesStage'
<1> SUFFICES ASSUME SemInv, StageTypeOK, PermitMatchesStage, [Next]_vars
             PROVE  PermitMatchesStage'
  OBVIOUS
<1>1. CASE UNCHANGED vars
  BY <1>1 DEF vars, dispatchVars, PermitMatchesStage
<1>2. CASE Abort
  BY <1>2 DEF Abort, semVars, PermitMatchesStage
<1> QED
  BY <1>1, <1>2, CallKeepsMatch, AdvanceKeepsMatch, FinishKeepsMatch DEF Next

(* Every way out of the try block gives the permit back, and no agent runs *)
(* and no worktree is made without one.                                    *)
THEOREM DispatchPermits == Spec => []PermitMatchesStage
<1>1. DispatchInit => StageInv
  BY StageTypeInit, MatchInit DEF StageInv
<1>2. SemInv /\ StageInv /\ [Next]_vars => StageInv'
  BY StageTypeStep, MatchStep DEF StageInv
<1>3. StageInv => PermitMatchesStage
  BY DEF StageInv
<1> QED
  BY <1>1, <1>2, <1>3, DispatchSemInv, PTL DEF Spec

(* The stages keep their types in every reachable state.                   *)
COROLLARY DispatchStages == Spec => []StageTypeOK
BY StageTypeInit, StageTypeStep, PTL DEF Spec
-----------------------------------------------------------------------------
(* Whoever executes owns a permit, so executing calls are few.             *)
LEMMA ExecutingHold ==
  ASSUME SemInv, StageTypeOK, PermitMatchesStage
  PROVE  /\ Executing \subseteq Holders
         /\ IsFiniteSet(Executing)
         /\ Cardinality(Executing) \in Nat
         /\ Cardinality(Executing) <= Permits
<1> USE DEF SemInv
<1>1. Executing \subseteq Holders
  BY DEF Executing, Holders, SemTypeOK, PermitMatchesStage, Ended
<1>2. /\ IsFiniteSet(Holders)
      /\ Cardinality(Holders) \in Nat
      /\ Cardinality(Holders) <= Permits
  BY PermitsAssumption, FS_CardinalityType DEF CounterExact, SemTypeOK
<1>3. /\ IsFiniteSet(Executing)
      /\ Cardinality(Executing) <= Cardinality(Holders)
  BY <1>1, <1>2, FS_Subset
<1>4. Cardinality(Executing) \in Nat
  BY <1>3, FS_CardinalityType
<1> QED
  BY <1>1, <1>2, <1>3, <1>4, PermitsAssumption

(* At most `Permits` agents or worktree creations at any time.             *)
THEOREM DispatchBounded == Spec => []ExecutingBounded
<1>1. SemInv /\ StageTypeOK /\ PermitMatchesStage => ExecutingBounded
  BY ExecutingHold DEF ExecutingBounded
<1> QED
  BY <1>1, DispatchSemInv, DispatchStages, DispatchPermits, PTL
-----------------------------------------------------------------------------
(* The rest of the types: numbers, flags and what is written.              *)
Events == {"queued", "started", "tick", "record", "completed"}

DataTypeOK ==
  /\ counter \in 0..MaxAgents
  /\ seq \in [Callers -> 0..MaxAgents]
  /\ aborted \in BOOLEAN
  /\ missed \in BOOLEAN
  /\ spent \in Nat
  /\ usage \in [Callers -> 0..MaxTokens]
  /\ out \in [Callers -> Seq(Events)]

(* Writing extends what a call wrote.                                      *)
LEMMA WriteType ==
  ASSUME out \in [Callers -> Seq(Events)], NEW c \in Callers,
         NEW what \in Seq(Events), Write(c, what)
  PROVE  out' \in [Callers -> Seq(Events)]
BY DEF Write

(* A number taken below the cap is within the cap.                         *)
LEMMA TakeSeqType ==
  ASSUME DataTypeOK, Admissible, NEW c \in Callers, TakeSeq(c)
  PROVE  counter' \in 0..MaxAgents /\ seq' \in [Callers -> 0..MaxAgents]
BY DispatchAssumption DEF DataTypeOK, Admissible, TakeSeq

(* Counter and budget start at zero, nothing is written.                   *)
LEMMA DataTypeInit == DispatchInit => DataTypeOK
<1> SUFFICES ASSUME DispatchInit PROVE DataTypeOK
  OBVIOUS
<1>1. out \in [Callers -> Seq(Events)]
  <2>1. <<>> \in Seq(Events)
    OBVIOUS
  <2> QED
    BY <2>1 DEF DispatchInit
<1>2. counter \in 0..MaxAgents /\ seq \in [Callers -> 0..MaxAgents]
  BY DispatchAssumption DEF DispatchInit
<1>3. aborted \in BOOLEAN /\ missed \in BOOLEAN
  BY DispatchAssumption DEF DispatchInit
<1>4. spent \in Nat /\ usage \in [Callers -> 0..MaxTokens]
  BY DispatchAssumption DEF DispatchInit
<1> QED
  BY <1>1, <1>2, <1>3, <1>4 DEF DataTypeOK

(* Numbers stay within the cap, reports within their bound.                *)
LEMMA DataTypeStep == DataTypeOK /\ [Next]_vars => DataTypeOK'
<1> SUFFICES ASSUME DataTypeOK, [Next]_vars PROVE DataTypeOK'
  OBVIOUS
<1>1. CASE UNCHANGED vars
  BY <1>1 DEF vars, dispatchVars, DataTypeOK
<1>2. CASE Abort
  BY <1>2 DEF Abort, DataTypeOK
<1>3. ASSUME NEW c \in Callers, Call(c)
      PROVE  DataTypeOK'
  <2>1. CASE Refuse(c)
    BY <2>1 DEF Refuse, DataTypeOK
  <2>2. CASE ~Refuse(c)
    <3>1. /\ Admissible
          /\ TakeSeq(c)
          /\ missed' \in {missed, TRUE}
          /\ UNCHANGED <<aborted, spent, usage>>
      BY <1>3, <2>2 DEF Call, CallMalformed, CallSkipped, CallCached, CallQueued
    <3>2. \/ UNCHANGED out
          \/ Write(c, <<"record", "completed">>)
          \/ Write(c, <<"queued">>)
      BY <1>3, <2>2 DEF Call, CallMalformed, CallSkipped, CallCached, CallQueued
    <3>3. <<"record", "completed">> \in Seq(Events) /\ <<"queued">> \in Seq(Events)
      BY DEF Events
    <3>4. out' \in [Callers -> Seq(Events)]
      BY <3>2, <3>3, WriteType DEF DataTypeOK
    <3> QED
      BY <3>1, <3>4, TakeSeqType DEF DataTypeOK
  <2> QED
    BY <2>1, <2>2
<1>4. ASSUME NEW c \in Callers, Advance(c)
      PROVE  DataTypeOK'
  <2>1. /\ UNCHANGED <<counter, seq, aborted, missed, spent, usage>>
        /\ UNCHANGED out \/ Write(c, <<"started">>)
    BY <1>4 DEF Advance, Withdraw, Start, Isolate, StartIsolated, IsolationFails, Finalize
  <2>2. <<"started">> \in Seq(Events)
    BY DEF Events
  <2>3. out' \in [Callers -> Seq(Events)]
    BY <2>1, <2>2, WriteType DEF DataTypeOK
  <2> QED
    BY <2>1, <2>3 DEF DataTypeOK
<1>5. ASSUME NEW c \in Callers, Finish(c)
      PROVE  DataTypeOK'
  <2>1. /\ UNCHANGED <<counter, seq, aborted, missed>>
        /\ \/ UNCHANGED out
           \/ Write(c, <<"tick", "record", "completed">>)
           \/ Write(c, <<"tick">>)
    BY <1>5 DEF Finish, Settle, SettleUnrecorded, ExecuteThrows
  <2>2. \/ UNCHANGED <<spent, usage>>
        \/ \E tokens \in 0..MaxTokens :
             spent' = spent + tokens /\ usage' = [usage EXCEPT ![c] = tokens]
    BY <1>5 DEF Finish, Settle, SettleUnrecorded, ExecuteThrows
  <2>3. <<"tick", "record", "completed">> \in Seq(Events) /\ <<"tick">> \in Seq(Events)
    BY DEF Events
  <2>4. out' \in [Callers -> Seq(Events)]
    BY <2>1, <2>3, WriteType DEF DataTypeOK
  <2>5. spent' \in Nat /\ usage' \in [Callers -> 0..MaxTokens]
    <3>1. CASE UNCHANGED <<spent, usage>>
      BY <3>1 DEF DataTypeOK
    <3>2. ASSUME NEW tokens \in 0..MaxTokens,
                 spent' = spent + tokens, usage' = [usage EXCEPT ![c] = tokens]
          PROVE  spent' \in Nat /\ usage' \in [Callers -> 0..MaxTokens]
      <4>1. spent' \in Nat
        BY <3>2, DispatchAssumption DEF DataTypeOK
      <4>2. usage' \in [Callers -> 0..MaxTokens]
        BY <3>2 DEF DataTypeOK
      <4> QED
        BY <4>1, <4>2
    <3> QED
      BY <2>2, <3>1, <3>2
  <2> QED
    BY <2>1, <2>4, <2>5 DEF DataTypeOK
<1> QED
  BY <1>1, <1>2, <1>3, <1>4, <1>5 DEF Next

(* The data keeps its types in every reachable state.                      *)
COROLLARY DispatchData == Spec => []DataTypeOK
BY DataTypeInit, DataTypeStep, PTL DEF Spec

(* Every reachable state has the declared shape.                           *)
THEOREM DispatchTypes == Spec => []TypeOK
<1>1. SemInv /\ StageTypeOK /\ DataTypeOK => TypeOK
  BY DEF SemInv, StageTypeOK, DataTypeOK, TypeOK, Events
<1> QED
  BY <1>1, DispatchSemInv, DispatchStages, DispatchData, PTL
-----------------------------------------------------------------------------
(* SeqsUnique is inductive once the types are known: only TakeSeq touches  *)
(* the numbers, and it hands out one that no call has.                     *)
LEMMA SeqsStep == DataTypeOK /\ SeqsUnique /\ [Next]_vars => SeqsUnique'
<1> SUFFICES ASSUME DataTypeOK, SeqsUnique, [Next]_vars PROVE SeqsUnique'
  OBVIOUS
<1>1. CASE UNCHANGED <<counter, seq>>
  BY <1>1 DEF SeqsUnique, Numbered
<1>2. ASSUME NEW c \in Callers, Admissible, TakeSeq(c)
      PROVE  SeqsUnique'
  <2>1. /\ counter' = counter + 1
        /\ seq' = [seq EXCEPT ![c] = counter + 1]
        /\ counter \in Nat
        /\ counter < MaxAgents
        /\ MaxAgents \in Nat
        /\ seq \in [Callers -> Nat]
    BY <1>2, DispatchAssumption DEF DataTypeOK, Admissible, TakeSeq
  <2>2. counter' <= MaxAgents
    BY <2>1
  <2>3. \A d \in Callers : d # c => seq'[d] = seq[d] /\ (seq[d] > 0 => seq[d] <= counter)
    BY <2>1 DEF SeqsUnique, Numbered
  <2>4. seq'[c] = counter + 1
    BY <2>1
  <2>5. \A d, e \in Callers : seq[d] > 0 /\ seq[d] = seq[e] => d = e
    BY DEF SeqsUnique, Numbered
  <2>6. \A d \in Numbered' : seq'[d] <= counter'
    BY <2>1, <2>3, <2>4 DEF Numbered
  <2>7. ASSUME NEW d \in Callers, NEW e \in Callers,
               seq'[d] > 0, seq'[e] > 0, seq'[d] = seq'[e]
        PROVE  d = e
    BY <2>1, <2>3, <2>4, <2>5, <2>7
  <2> QED
    BY <2>2, <2>6, <2>7 DEF SeqsUnique, Numbered
<1>3. \/ UNCHANGED <<counter, seq>>
      \/ \E c \in Callers : Admissible /\ TakeSeq(c)
  <2>1. ASSUME NEW c \in Callers, Call(c)
        PROVE  UNCHANGED <<counter, seq>> \/ (Admissible /\ TakeSeq(c))
    BY <2>1 DEF Call, Refuse, CallMalformed, CallSkipped, CallCached, CallQueued
  <2>2. ASSUME NEW c \in Callers, Advance(c)
        PROVE  UNCHANGED <<counter, seq>>
    BY <2>2 DEF Advance, Withdraw, Start, Isolate, StartIsolated, IsolationFails, Finalize
  <2>3. ASSUME NEW c \in Callers, Finish(c)
        PROVE  UNCHANGED <<counter, seq>>
    BY <2>3 DEF Finish, Settle, SettleUnrecorded, ExecuteThrows
  <2>4. Abort => UNCHANGED <<counter, seq>>
    BY DEF Abort
  <2>5. UNCHANGED vars => UNCHANGED <<counter, seq>>
    BY DEF vars, dispatchVars
  <2> QED
    BY <2>1, <2>2, <2>3, <2>4, <2>5 DEF Next
<1> QED
  BY <1>1, <1>2, <1>3

(* The cap holds and no two calls share a seq, for any number of calls.    *)
THEOREM DispatchSeqs == Spec => []SeqsUnique
<1>1. DispatchInit => SeqsUnique
  BY DispatchAssumption DEF DispatchInit, SeqsUnique, Numbered
<1> QED
  BY <1>1, SeqsStep, DispatchData, PTL DEF Spec
-----------------------------------------------------------------------------
(* OvershootBounded is not inductive: what a run may still spend is what   *)
(* its executing calls may still report.  The gate behind the semaphore    *)
(* keeps spent plus that reserve below the bound.                          *)
Reserve == MaxTokens * Cardinality(Executing)

BudgetInv ==
  BudgetTotal # Unlimited /\ (Executing # {} \/ spent > 0) =>
    spent + Reserve < BudgetTotal + Permits * MaxTokens

(* Multiplication is monotone, stated once for the prover.                 *)
LEMMA Monotone ==
  ASSUME NEW k \in Nat, NEW m \in Nat, NEW n \in Nat, m <= n
  PROVE  k * m \in Nat /\ k * n \in Nat /\ k * m <= k * n
<1>1. PICK d \in Nat : n = m + d
  <2>1. n - m \in Nat /\ n = m + (n - m)
    OBVIOUS
  <2> QED
    BY <2>1
<1>2. k * n = k * m + k * d
  BY <1>1
<1>3. k * m \in Nat /\ k * d \in Nat
  BY <1>1
<1> QED
  BY <1>2, <1>3

(* A call that begins executing found budget left, and there are never     *)
(* more such calls than permits.                                           *)
LEMMA BeginKeepsBudget ==
  ASSUME DataTypeOK, ~Exhausted, UNCHANGED spent,
         IsFiniteSet(Executing'), Cardinality(Executing') \in Nat,
         Cardinality(Executing') <= Permits
  PROVE  BudgetInv'
<1> SUFFICES ASSUME BudgetTotal # Unlimited
             PROVE  spent' + Reserve' < BudgetTotal + Permits * MaxTokens
  BY DEF BudgetInv
<1>1. /\ spent \in Nat /\ spent' = spent
      /\ BudgetTotal \in Nat
      /\ spent < BudgetTotal
  BY DispatchAssumption DEF DataTypeOK, Exhausted
<1>2. /\ Reserve' \in Nat
      /\ MaxTokens * Permits \in Nat
      /\ Reserve' <= MaxTokens * Permits
  BY Monotone, DispatchAssumption, PermitsAssumption DEF Reserve
<1>3. Permits * MaxTokens = MaxTokens * Permits
  BY DispatchAssumption, PermitsAssumption
<1> QED
  BY <1>1, <1>2, <1>3

(* A call that stops executing turns its share of the reserve into at most *)
(* as many spent tokens.                                                   *)
LEMMA EndKeepsBudget ==
  ASSUME DataTypeOK, BudgetInv, NEW c \in Executing, NEW tokens \in 0..MaxTokens,
         spent' = spent + tokens, Executing' = Executing \ {c},
         IsFiniteSet(Executing), Cardinality(Executing) \in Nat
  PROVE  BudgetInv'
<1> SUFFICES ASSUME BudgetTotal # Unlimited
             PROVE  spent' + Reserve' < BudgetTotal + Permits * MaxTokens
  BY DEF BudgetInv
<1> DEFINE n == Cardinality(Executing)
<1>1. /\ Cardinality(Executing \ {c}) = n - 1
      /\ n - 1 \in Nat
  <2>1. Cardinality(Executing \ {c}) = n - 1
    BY FS_RemoveElement
  <2>2. IsFiniteSet(Executing \ {c})
    BY FS_RemoveElement
  <2> QED
    BY <2>1, <2>2, FS_CardinalityType
<1>2. /\ Reserve = MaxTokens * n
      /\ Reserve' = MaxTokens * (n - 1)
  BY <1>1 DEF Reserve
<1> HIDE DEF n
<1>3. MaxTokens * n = MaxTokens * (n - 1) + MaxTokens
  <2>1. \A k, m \in Nat : k * (m + 1) = k * m + k
    OBVIOUS
  <2>2. n \in Nat /\ (n - 1) + 1 = n
    BY DEF n
  <2> QED
    BY <1>1, <2>1, <2>2, DispatchAssumption
<1>4. spent + Reserve < BudgetTotal + Permits * MaxTokens
  BY DEF BudgetInv
<1>5. /\ spent \in Nat /\ tokens \in Nat /\ tokens <= MaxTokens
      /\ MaxTokens * (n - 1) \in Nat
      /\ BudgetTotal \in Nat /\ Permits * MaxTokens \in Nat
  BY <1>1, DispatchAssumption, PermitsAssumption DEF DataTypeOK
<1> QED
  BY <1>2, <1>3, <1>4, <1>5, DispatchAssumption

(* Nothing is spent and nothing executes at first.                         *)
LEMMA BudgetInit == DispatchInit => BudgetInv
<1> SUFFICES ASSUME DispatchInit PROVE BudgetInv
  OBVIOUS
<1>1. Executing = {} /\ spent = 0
  BY DEF DispatchInit, Executing
<1> QED
  BY <1>1 DEF BudgetInv

(* Steps that change neither what was spent nor who executes.              *)
LEMMA IdleKeepsBudget ==
  ASSUME BudgetInv, UNCHANGED <<spent, Executing>>
  PROVE  BudgetInv'
BY DEF BudgetInv, Reserve

(* Spent plus reserve stays below the bound across every step.             *)
LEMMA BudgetStep ==
  ASSUME DataTypeOK, StageTypeOK, BudgetInv, [Next]_vars,
         IsFiniteSet(Executing), Cardinality(Executing) \in Nat,
         IsFiniteSet(Executing'), Cardinality(Executing') \in Nat,
         Cardinality(Executing') <= Permits
  PROVE  BudgetInv'
<1> USE DEF Become, Ended
<1>1. CASE UNCHANGED vars
  BY <1>1, IdleKeepsBudget DEF vars, dispatchVars, Executing
<1>2. CASE Abort
  BY <1>2, IdleKeepsBudget DEF Abort, Executing
<1>3. ASSUME NEW c \in Callers, Call(c)
      PROVE  BudgetInv'
  <2>1. /\ UNCHANGED spent
        /\ stage[c] = "uncalled"
        /\ \E s \in Ended \cup {"queued"} : stage' = [stage EXCEPT ![c] = s]
    BY <1>3 DEF Call, Refuse, CallMalformed, CallSkipped, CallCached, CallQueued
  <2>2. UNCHANGED Executing
    BY <2>1 DEF Executing, StageTypeOK
  <2> QED
    BY <2>1, <2>2, IdleKeepsBudget
<1>4. ASSUME NEW c \in Callers, Advance(c)
      PROVE  BudgetInv'
  <2>1. CASE Start(c) \/ Isolate(c)
    <3>1. ~Exhausted /\ UNCHANGED spent
      BY <2>1 DEF Start, Isolate, Dispatchable
    <3> QED
      BY <3>1, BeginKeepsBudget
  <2>2. CASE Withdraw(c) \/ StartIsolated(c) \/ Finalize(c)
    <3>1. /\ UNCHANGED spent
          /\ \/ /\ stage[c] \in {"queued", "finalizing"}
                /\ \E s \in Ended : stage' = [stage EXCEPT ![c] = s]
             \/ /\ stage[c] = "isolating"
                /\ stage' = [stage EXCEPT ![c] = "running"]
      BY <2>2 DEF Withdraw, Resumed, StartIsolated, Finalize, StageTypeOK
    <3>2. UNCHANGED Executing
      BY <3>1 DEF Executing, StageTypeOK
    <3> QED
      BY <3>1, <3>2, IdleKeepsBudget
  <2>3. CASE IsolationFails(c)
    <3>1. c \in Executing /\ Executing' = Executing \ {c}
      BY <2>3 DEF IsolationFails, Executing, StageTypeOK
    <3>2. spent' = spent + 0 /\ 0 \in 0..MaxTokens
      BY <2>3, DispatchAssumption DEF IsolationFails, DataTypeOK
    <3> QED
      BY <3>1, <3>2, EndKeepsBudget
  <2> QED
    BY <1>4, <2>1, <2>2, <2>3 DEF Advance
<1>5. ASSUME NEW c \in Callers, Finish(c)
      PROVE  BudgetInv'
  <2>1. PICK s \in Ended \cup {"finalizing"} : stage' = [stage EXCEPT ![c] = s]
    BY <1>5 DEF Finish, Settle, SettleUnrecorded, ExecuteThrows, Leave
  <2>2. stage[c] = "running"
    BY <1>5 DEF Finish, Settle, SettleUnrecorded, ExecuteThrows
  <2>3. c \in Executing /\ Executing' = Executing \ {c}
    BY <2>1, <2>2 DEF Executing, StageTypeOK
  <2>4. PICK tokens \in 0..MaxTokens : spent' = spent + tokens
    <3>1. \/ UNCHANGED spent
          \/ \E tokens \in 0..MaxTokens : spent' = spent + tokens
      BY <1>5 DEF Finish, Settle, SettleUnrecorded, ExecuteThrows
    <3>2. spent = spent + 0 /\ 0 \in 0..MaxTokens
      BY DispatchAssumption DEF DataTypeOK
    <3> QED
      BY <3>1, <3>2
  <2> QED
    BY <2>3, <2>4, EndKeepsBudget
<1> QED
  BY <1>1, <1>2, <1>3, <1>4, <1>5 DEF Next

(* The token budget is overshot by less than one report per permit, no     *)
(* matter how many calls passed the check before the semaphore.            *)
THEOREM DispatchOvershoot == Spec => []OvershootBounded
<1> DEFINE Sem == SemInv /\ StageTypeOK /\ PermitMatchesStage
           Few == /\ IsFiniteSet(Executing)
                  /\ Cardinality(Executing) \in Nat
                  /\ Cardinality(Executing) <= Permits
<1>1. Sem => Few
  BY ExecutingHold
<1>2. Few /\ Few' /\ StageTypeOK /\ DataTypeOK /\ BudgetInv /\ [Next]_vars => BudgetInv'
  BY BudgetStep
<1>3. Sem => StageTypeOK
  OBVIOUS
<1>4. Sem /\ DataTypeOK /\ BudgetInv => OvershootBounded
  <2> SUFFICES ASSUME Sem, DataTypeOK, BudgetInv, BudgetTotal # Unlimited, spent > 0
               PROVE  spent < BudgetTotal + Permits * MaxTokens
    BY DEF OvershootBounded
  <2>1. Cardinality(Executing) \in Nat
    BY ExecutingHold
  <2>2. Reserve \in Nat
    BY <2>1, Monotone, DispatchAssumption DEF Reserve
  <2>3. spent + Reserve < BudgetTotal + Permits * MaxTokens
    BY DEF BudgetInv
  <2>4. spent \in Nat /\ BudgetTotal \in Nat /\ Permits * MaxTokens \in Nat
    BY DispatchAssumption, PermitsAssumption DEF DataTypeOK
  <2> QED
    BY <2>2, <2>3, <2>4
<1>5. Spec => []Sem
  BY DispatchSemInv, DispatchStages, DispatchPermits, PTL
<1> HIDE DEF Sem, Few
<1> QED
  BY <1>1, <1>2, <1>3, <1>4, <1>5, BudgetInit, DispatchData, PTL DEF Spec
-----------------------------------------------------------------------------
(* NoOvertaking speaks of waiting callers only; that the line itself is in *)
(* seq order carries it over a hand-over.                                  *)
LineOrder ==
  \A i, j \in 1..Len(queue) : i < j => seq[queue[i]] < seq[queue[j]]

OrderInv == LineOrder /\ NoOvertaking

SeqTypeOK == counter \in Nat /\ seq \in [Callers -> Nat]

(* An empty line means that no call waits.                                 *)
LEMMA NobodyWaits ==
  ASSUME SemTypeOK, LineExact, queue = <<>>, NEW c \in Callers
  PROVE  permit[c] # "waiting"
BY DEF SemTypeOK, LineExact

(* A call that is numbered and does not go through the semaphore.          *)
LEMMA NumberKeepsOrder ==
  ASSUME SemInv, SeqTypeOK, OrderInv, NEW c \in Callers,
         permit[c] = "none", TakeSeq(c), UNCHANGED semVars
  PROVE  OrderInv'
<1> USE DEF SemInv
<1>1. \A d \in Callers : d # c => seq'[d] = seq[d]
  BY DEF TakeSeq, SeqTypeOK
<1>2. UNCHANGED <<queue, permit>>
  BY DEF semVars
<1>3. \A i \in 1..Len(queue) : queue[i] \in Callers /\ queue[i] # c
  BY DEF SemTypeOK, LineExact
<1>4. LineOrder'
  BY <1>1, <1>2, <1>3 DEF OrderInv, LineOrder
<1>5. NoOvertaking'
  BY <1>1, <1>2 DEF OrderInv, NoOvertaking
<1> QED
  BY <1>4, <1>5 DEF OrderInv

(* A live call takes the highest number so far and joins at the end.       *)
LEMMA AcquireKeepsOrder ==
  ASSUME SemInv, SeqTypeOK, SeqsUnique, OrderInv, NEW c \in Callers,
         Acquire(c), TakeSeq(c)
  PROVE  OrderInv'
<1> USE DEF SemInv
<1>1. /\ \A d \in Callers : d # c => seq'[d] = seq[d] /\ seq[d] <= counter
      /\ seq'[c] = counter + 1
      /\ counter \in Nat
      /\ seq \in [Callers -> Nat]
  BY DEF TakeSeq, SeqTypeOK, SeqsUnique, Numbered
<1>2. CASE AcquireNow(c)
  <2>1. queue = <<>> /\ queue' = <<>>
    BY <1>2, PermitsAssumption DEF AcquireNow, NoIdlePermit, SemTypeOK
  <2>2. LineOrder'
    BY <2>1 DEF LineOrder
  <2>3. \A d \in Callers : permit'[d] # "waiting"
    BY <1>2, <2>1, NobodyWaits DEF AcquireNow, SemTypeOK
  <2>4. NoOvertaking'
    BY <2>3 DEF NoOvertaking
  <2> QED
    BY <2>2, <2>4 DEF OrderInv
<1>3. CASE AcquireLater(c)
  <2>1. /\ Len(queue') = Len(queue) + 1
        /\ \A i \in 1..Len(queue) : queue'[i] = queue[i]
        /\ queue'[Len(queue) + 1] = c
        /\ Len(queue) \in Nat
    BY <1>3, LineGrow, LenProperties DEF SemTypeOK, AcquireLater
  <2>2. \A i \in 1..Len(queue) : queue[i] \in Callers /\ queue[i] # c
    BY <1>3 DEF SemTypeOK, LineExact, AcquireLater
  <2>3. ASSUME NEW i \in 1..Len(queue'), NEW j \in 1..Len(queue'), i < j
        PROVE  seq'[queue'[i]] < seq'[queue'[j]]
    <3>1. i \in 1..Len(queue) /\ queue'[i] = queue[i]
      BY <2>1, <2>3
    <3>2. queue[i] \in Callers /\ seq'[queue[i]] = seq[queue[i]] /\ seq[queue[i]] <= counter
      BY <1>1, <2>2, <3>1
    <3>3. CASE j = Len(queue) + 1
      <4>1. seq'[queue'[j]] = counter + 1
        BY <1>1, <2>1, <3>3
      <4>2. seq[queue[i]] \in Nat
        BY <1>1, <3>2
      <4> QED
        BY <1>1, <3>1, <3>2, <4>1, <4>2
    <3>4. CASE j \in 1..Len(queue)
      <4>1. queue'[j] = queue[j] /\ seq'[queue[j]] = seq[queue[j]]
        BY <1>1, <2>1, <2>2, <3>4
      <4>2. seq[queue[i]] < seq[queue[j]]
        BY <2>3, <3>1, <3>4 DEF OrderInv, LineOrder
      <4> QED
        BY <3>1, <3>2, <4>1, <4>2
    <3> QED
      BY <2>1, <3>3, <3>4
  <2>4. permit' = [permit EXCEPT ![c] = "waiting"]
    BY <1>3 DEF AcquireLater
  <2>5. ASSUME NEW w \in Callers, NEW d \in Callers,
               permit'[w] = "waiting", seq'[w] < seq'[d]
        PROVE  permit'[d] \in {"none", "waiting"}
    <3>1. CASE d = c
      BY <2>4, <3>1 DEF SemTypeOK
    <3>2. CASE d # c
      <4>1. w # c
        BY <1>1, <2>5, <3>2
      <4>2. permit[w] = "waiting" /\ seq[w] < seq[d] /\ permit'[d] = permit[d]
        BY <1>1, <2>4, <2>5, <3>2, <4>1 DEF SemTypeOK
      <4> QED
        BY <4>2 DEF OrderInv, NoOvertaking
    <3> QED
      BY <3>1, <3>2
  <2> QED
    BY <2>3, <2>5 DEF OrderInv, LineOrder, NoOvertaking
<1> QED
  BY <1>2, <1>3 DEF Acquire

(* A permit goes to the head of the line, the lowest number in it.         *)
LEMMA ReleaseKeepsOrder ==
  ASSUME SemInv, SeqTypeOK, OrderInv, NEW c \in Callers,
         Release(c), UNCHANGED seq
  PROVE  OrderInv'
<1> USE DEF SemInv
<1>1. CASE GiveBack(c)
  <2>1. queue = <<>> /\ queue' = <<>>
    BY <1>1 DEF GiveBack
  <2>2. LineOrder'
    BY <2>1 DEF LineOrder
  <2>3. \A d \in Callers : permit'[d] # "waiting"
    BY <1>1, <2>1, NobodyWaits DEF GiveBack, SemTypeOK
  <2>4. NoOvertaking'
    BY <2>3 DEF NoOvertaking
  <2> QED
    BY <2>2, <2>4 DEF OrderInv
<1>2. CASE HandOver(c)
  <2> DEFINE h == Head(queue)
  <2>1. /\ h \in Callers
        /\ permit[h] = "waiting"
        /\ permit[c] = "granted"
        /\ permit' = [permit EXCEPT ![c] = "released", ![h] = "granted"]
    BY <1>2, HeadWaits DEF HandOver
  <2>2. /\ Len(queue) \in Nat \ {0}
        /\ h = queue[1]
        /\ Len(queue') = Len(queue) - 1
        /\ \A i \in 1..Len(queue) - 1 : queue'[i] = queue[i + 1]
    BY <1>2, LineShift DEF SemTypeOK, HandOver
  <2> HIDE DEF h
  <2>3. ASSUME NEW i \in 1..Len(queue'), NEW j \in 1..Len(queue'), i < j
        PROVE  seq'[queue'[i]] < seq'[queue'[j]]
    <3>1. /\ i + 1 \in 1..Len(queue) /\ j + 1 \in 1..Len(queue) /\ i + 1 < j + 1
          /\ queue'[i] = queue[i + 1] /\ queue'[j] = queue[j + 1]
      BY <2>2, <2>3
    <3>2. seq[queue[i + 1]] < seq[queue[j + 1]]
      BY <3>1 DEF OrderInv, LineOrder
    <3> QED
      BY <3>1, <3>2
  <2>4. ASSUME NEW w \in Callers, NEW d \in Callers,
               permit'[w] = "waiting", seq'[w] < seq'[d]
        PROVE  permit'[d] \in {"none", "waiting"}
    <3>1. permit[w] = "waiting" /\ w # h /\ w # c
      BY <2>1, <2>4 DEF SemTypeOK
    <3>2. PICK i \in 1..Len(queue) : queue[i] = w
      BY <3>1 DEF LineExact
    <3>3. seq[h] < seq[w]
      <4>1. 1 \in 1..Len(queue) /\ 1 < i
        BY <2>2, <3>1, <3>2
      <4> QED
        BY <2>2, <3>2, <4>1 DEF OrderInv, LineOrder
    <3>4. d # h
      BY <2>1, <2>4, <3>3 DEF SeqTypeOK
    <3>5. d # c
      BY <2>1, <2>4, <3>1 DEF OrderInv, NoOvertaking
    <3>6. permit'[d] = permit[d]
      BY <2>1, <3>4, <3>5 DEF SemTypeOK
    <3> QED
      BY <2>4, <3>1, <3>6 DEF OrderInv, NoOvertaking
  <2> QED
    BY <2>3, <2>4 DEF OrderInv, LineOrder, NoOvertaking
<1> QED
  BY <1>1, <1>2 DEF Release

(* The order of grants is kept across every step.                          *)
LEMMA OrderStep ==
  SemInv /\ PermitMatchesStage /\ DataTypeOK /\ SeqsUnique /\ OrderInv /\ [Next]_vars
    => OrderInv'
<1> SUFFICES ASSUME SemInv, PermitMatchesStage, DataTypeOK, SeqsUnique, OrderInv, [Next]_vars
             PROVE  OrderInv'
  OBVIOUS
<1>1. SeqTypeOK
  BY DispatchAssumption DEF DataTypeOK, SeqTypeOK
<1>2. UNCHANGED <<semVars, seq>> => OrderInv'
  BY DEF semVars, OrderInv, LineOrder, NoOvertaking
<1>3. CASE UNCHANGED vars
  BY <1>2, <1>3 DEF vars, dispatchVars, semVars
<1>4. CASE Abort
  BY <1>2, <1>4 DEF Abort
<1>5. ASSUME NEW c \in Callers, Call(c)
      PROVE  OrderInv'
  <2>1. \/ UNCHANGED <<semVars, seq>>
        \/ TakeSeq(c) /\ stage[c] = "uncalled" /\ UNCHANGED semVars
        \/ TakeSeq(c) /\ Acquire(c)
    BY <1>5 DEF Call, Refuse, CallMalformed, CallSkipped, CallCached, CallQueued
  <2>2. stage[c] = "uncalled" => permit[c] = "none"
    BY DEF SemInv, SemTypeOK, PermitMatchesStage, Ended
  <2> QED
    BY <1>1, <1>2, <2>1, <2>2, NumberKeepsOrder, AcquireKeepsOrder
<1>6. ASSUME NEW c \in Callers, Advance(c) \/ Finish(c)
      PROVE  OrderInv'
  <2>1. UNCHANGED seq
    BY <1>6 DEF Advance, Withdraw, Start, Isolate, StartIsolated, IsolationFails, Finalize,
                Finish, Settle, SettleUnrecorded, ExecuteThrows
  <2>2. Release(c) \/ UNCHANGED semVars
    BY <1>6, AdvanceUsesSemaphore, FinishUsesSemaphore
  <2> QED
    BY <1>1, <1>2, <2>1, <2>2, ReleaseKeepsOrder
<1> QED
  BY <1>3, <1>4, <1>5, <1>6 DEF Next

(* Permits go out in seq order: no call overtakes an older one, however    *)
(* many wait and whatever calls of nested workflows come in between.       *)
THEOREM DispatchOrder == Spec => []NoOvertaking
<1>1. DispatchInit => OrderInv
  BY DEF DispatchInit, SemInit, OrderInv, LineOrder, NoOvertaking
<1>2. OrderInv => NoOvertaking
  BY DEF OrderInv
<1> QED
  BY <1>1, <1>2, OrderStep, DispatchSemInv, DispatchPermits, DispatchData, DispatchSeqs, PTL DEF Spec

-----------------------------------------------------------------------------
(* Nested workflows. *)

(* Every running script listens or has heard, the run's own listens.       *)
Attached ==
  /\ \A f \in Flows : script[f] = "running" => f \in tied \cup heard
  /\ script[Run] = "running" => Run \in tied

(* After a stop, every running script has heard.                           *)
AllHeard ==
  stopped /\ script[Run] = "running" =>
    \A f \in Flows : script[f] = "running" => f \in heard

(* A call that was made belongs to a script that has begun.                *)
CallersBegun ==
  \A a \in Calls :
    call[a].at # "uncalled" => call[a].by \in Flows /\ (script[call[a].by] = "running" \/ FlowEnded(call[a].by))

At == {"uncalled", "queued", "running", "finalizing", "over"}
Scripts == {"absent", "loading", "refused", "running", "returned", "threw"}

Shapes ==
  /\ call \in [Calls -> [by : Flows, at : At]]
  /\ script \in [Flows -> Scripts]
  /\ heard \subseteq Flows
  /\ tied \subseteq Flows

NestInv == Shapes /\ Attached /\ AllHeard /\ CallersBegun

-----------------------------------------------------------------------------
(* The invariant holds at first: only the run's own script is there.       *)
LEMMA NestInit == NestingInit => NestInv
<1> SUFFICES ASSUME NestingInit PROVE NestInv
  OBVIOUS
<1>1. Shapes
  <2>1. Uncalled \in [by : Flows, at : At]
    BY DEF Uncalled, Flows, At
  <2>2. script \in [Flows -> Scripts]
    BY DEF NestingInit, Scripts
  <2>3. heard \subseteq Flows /\ tied \subseteq Flows
    BY DEF NestingInit, Flows
  <2> QED
    BY <2>1, <2>2, <2>3 DEF NestingInit, Shapes
<1>2. Attached /\ AllHeard
  BY DEF NestingInit, Attached, AllHeard, Flows, Run
<1>3. CallersBegun
  BY DEF NestingInit, CallersBegun, Uncalled
<1> QED
  BY <1>1, <1>2, <1>3 DEF NestInv

(* A step of an agent() call leaves scripts and signals alone, and only a  *)
(* flow whose script has begun makes a new one.                            *)
LEMMA CallSteps ==
  ASSUME NestInv, NEW a \in Calls,
         \/ \E f \in Flows : CallAgent(a, f)
         \/ \E from, to \in At : from # "uncalled" /\ Moves(a, from, to)
  PROVE  NestInv'
<1> USE DEF NestInv
<1>1. CASE \E f \in Flows : CallAgent(a, f)
  <2>1. PICK f \in Flows : CallAgent(a, f)
    BY <1>1
  <2>2. call' = [call EXCEPT ![a] = [by |-> f, at |-> "queued"]]
        /\ UNCHANGED <<stopped, script, heard, tied>>
    BY <2>1 DEF CallAgent
  <2>3. script[f] = "running" \/ FlowEnded(f)
    BY <2>1 DEF CallAgent, Acting
  <2>4. Shapes'
    BY <2>2 DEF Shapes, At
  <2>5. Attached' /\ AllHeard'
    BY <2>2 DEF Attached, AllHeard
  <2>6. CallersBegun'
    BY <2>2, <2>3 DEF CallersBegun, Shapes, FlowEnded
  <2> QED
    BY <2>4, <2>5, <2>6
<1>2. CASE \E from, to \in At : from # "uncalled" /\ Moves(a, from, to)
  <2>1. PICK from \in At, to \in At : from # "uncalled" /\ Moves(a, from, to)
    BY <1>2
  <2>2. call' = [call EXCEPT ![a].at = to] /\ call[a].at # "uncalled"
        /\ UNCHANGED <<stopped, script, heard, tied>>
    BY <2>1 DEF Moves
  <2>3. Shapes'
    BY <2>2 DEF Shapes
  <2>4. Attached' /\ AllHeard'
    BY <2>2 DEF Attached, AllHeard
  <2>5. CallersBegun'
    BY <2>2 DEF CallersBegun, Shapes, FlowEnded
  <2> QED
    BY <2>3, <2>4, <2>5
<1> QED
  BY <1>1, <1>2

(* The invariant is inductive.                                             *)
LEMMA NestStep == NestInv /\ [NestingNext]_nestingVars => NestInv'
<1> SUFFICES ASSUME NestInv, [NestingNext]_nestingVars PROVE NestInv'
  OBVIOUS
<1>1. ASSUME NEW a \in Calls, NEW f \in Flows, CallAgent(a, f) PROVE NestInv'
  BY <1>1, CallSteps
<1>2. ASSUME NEW a \in Calls, Gate(a) PROVE NestInv'
  BY <1>2, CallSteps DEF Gate, At
<1>3. ASSUME NEW a \in Calls, NEW yes \in BOOLEAN, SettleCall(a, yes) \/ FinalizeCall(a, yes) PROVE NestInv'
  BY <1>3, CallSteps DEF SettleCall, FinalizeCall, At
<1>4. ASSUME NEW c \in Children, CallChild(c) PROVE NestInv'
  BY <1>4 DEF CallChild, NestInv, Shapes, Scripts, Attached, AllHeard, CallersBegun, FlowEnded, Flows, Run
<1>5. ASSUME NEW c \in Children, NEW announced \in BOOLEAN, Refused(c, announced) PROVE NestInv'
  BY <1>5 DEF Refused, NestInv, Shapes, Scripts, Attached, AllHeard, CallersBegun, FlowEnded, Flows, Run
<1>6. ASSUME NEW c \in Children, EnterChild(c) PROVE NestInv'
  <2>1. c \in Flows /\ Run \in Flows /\ script[c] = "loading"
    BY <1>6 DEF EnterChild, Flows
  <2>2. script' = [script EXCEPT ![c] = "running"] /\ UNCHANGED <<stopped, call>>
    BY <1>6 DEF EnterChild
  <2>3. \/ Run \in heard /\ heard' = heard \cup {c} /\ tied' = tied
        \/ Run \notin heard /\ heard' = heard /\ tied' = tied \cup {c}
    BY <1>6 DEF EnterChild, Listens
  <2>4. Shapes'
    BY <2>1, <2>2, <2>3 DEF NestInv, Shapes, Scripts
  <2>5. script[Run] = "running" /\ c # Run
    BY <1>6, <2>1 DEF EnterChild, Acting
  <2>6. Attached'
    BY <2>1, <2>2, <2>3, <2>5 DEF NestInv, Shapes, Attached
  <2>7. AllHeard'
    BY <1>6, <2>1, <2>2, <2>3 DEF NestInv, Shapes, AllHeard, EnterChild, Acting, FlowEnded
  <2>8. CallersBegun'
    BY <2>1, <2>2 DEF NestInv, Shapes, CallersBegun, FlowEnded
  <2> QED
    BY <2>4, <2>6, <2>7, <2>8 DEF NestInv
<1>7. ASSUME NEW f \in Flows, NEW ok \in BOOLEAN, EndScript(f, ok) PROVE NestInv'
  <2>1. /\ script[f] = "running"
        /\ script' = [script EXCEPT ![f] = IF ok THEN "returned" ELSE "threw"]
        /\ tied' = tied \ {f}
        /\ UNCHANGED <<stopped, heard, call>>
    BY <1>7 DEF EndScript
  <2>2. Shapes'
    BY <2>1 DEF NestInv, Shapes, Scripts
  <2>3. Attached' /\ AllHeard'
    BY <2>1 DEF NestInv, Shapes, Attached, AllHeard, Flows
  <2>4. CallersBegun'
    BY <2>1 DEF NestInv, Shapes, CallersBegun, FlowEnded
  <2> QED
    BY <2>2, <2>3, <2>4 DEF NestInv
<1>8. CASE Stop
  BY <1>8 DEF Stop, NestInv, Shapes, Attached, AllHeard, CallersBegun, FlowEnded, Flows
<1>9. CASE UNCHANGED nestingVars
  BY <1>9 DEF nestingVars, NestInv, Shapes, Attached, AllHeard, CallersBegun, FlowEnded
<1> QED
  BY <1>1, <1>2, <1>3, <1>4, <1>5, <1>6, <1>7, <1>8, <1>9 DEF NestingNext

(* With the invariant, a call that gets a worker after a stop belongs to a *)
(* script that has ended.                                                  *)
LEMMA OnlyLeftovers ==
  ASSUME NestInv, [NestingNext]_nestingVars, NEW a \in Calls,
         stopped, call[a].at = "queued", call'[a].at = "running"
  PROVE  FlowEnded(call[a].by)
<1>1. call' # call
  OBVIOUS
<1>2. PICK b \in Calls :
        \/ \E f \in Flows : CallAgent(b, f)
        \/ Gate(b)
        \/ \E yes \in BOOLEAN : SettleCall(b, yes) \/ FinalizeCall(b, yes)
  BY <1>1 DEF NestingNext, nestingVars, CallChild, EnterChild, Refused, EndScript, Stop
<1>3. b = a
  BY <1>2 DEF CallAgent, Gate, SettleCall, FinalizeCall, Moves, NestInv, Shapes
<1>4. Gate(a)
  <2>1. ASSUME NEW f \in Flows, CallAgent(a, f) PROVE FALSE
    BY <2>1 DEF CallAgent, Uncalled
  <2>2. ASSUME NEW yes \in BOOLEAN, SettleCall(a, yes) \/ FinalizeCall(a, yes) PROVE FALSE
    BY <2>2 DEF SettleCall, FinalizeCall, Moves
  <2> QED
    BY <1>2, <1>3, <2>1, <2>2
<1>5. script[Run] = "running" /\ call[a].by \notin heard
  BY <1>4 DEF Gate, Moves, NestInv, Shapes
<1> QED
  BY <1>5 DEF NestInv, AllHeard, CallersBegun

(* A stop reaches every flow whose script is under way, for any number of  *)
(* calls and children and wherever the stop falls: while a child is being  *)
(* loaded, after a sibling ended, while calls are in line (run.ts:85).     *)
THEOREM StopIsHeard == NestingSpec => StopReachesScripts
<1>1. NestInv /\ [NestingNext]_nestingVars =>
        [\A a \in Calls :
           stopped /\ call[a].at = "queued" /\ call'[a].at = "running" => FlowEnded(call[a].by)]_nestingVars
  BY OnlyLeftovers
<1> QED
  BY <1>1, NestInit, NestStep, PTL DEF NestingSpec, StopReachesScripts
=============================================================================
