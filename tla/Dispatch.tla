------------------------------ MODULE Dispatch ------------------------------
(***************************************************************************)
(* agent() calls of one run: agentFn of src/src/engine/hostapi.ts with the *)
(* state it shares across the run and its nested workflows (the lifetime   *)
(* counter, the semaphore, the token budget, the abort signal).            *)
(*                                                                         *)
(* A call is one invocation of agent() by the workflow script; parallel(), *)
(* pipeline(), Promise.all and un-awaited calls all just make more of them *)
(* run at once, so the script appears as a set of calls it may make at any *)
(* time.  agentFn suspends at four awaits: the semaphore, the creation of  *)
(* a worktree, executor.execute, and the removal of the worktree.  What    *)
(* runs between two of them is one action.                                 *)
(***************************************************************************)
EXTENDS Semaphore, Folds

CONSTANTS
  MaxAgents,     \* softCap: min(--max-agents or 1000, 1000)
  BudgetTotal,   \* token budget of the run, or Unlimited
  Unlimited,     \* BudgetAccount.total = null
  MaxTokens,     \* bound: most tokens one execute() reports
  HasWorktrees,  \* shared.worktrees is set: the run is inside a git repository
  HasReplay      \* opts.cacheLookup is set: the run resumes another one

ASSUME DispatchAssumption ==
  /\ MaxAgents \in Nat
  /\ Unlimited \notin Nat
  /\ BudgetTotal \in Nat \cup {Unlimited}
  /\ MaxTokens \in Nat
  /\ HasWorktrees \in BOOLEAN
  /\ HasReplay \in BOOLEAN

VARIABLES
  stage,     \* the await a call is suspended at, or how it ended
  isolated,  \* spec.isolation = 'worktree'
  counter,   \* shared.counter.count
  seq,       \* 1 + the call's seq; 0 before it has one
  aborted,   \* signal.aborted
  missed,    \* the replay cache saw its first miss
  spent,     \* BudgetAccount.spentTokens
  usage,     \* tokens reported by each call's execute()
  verdict,   \* how a call will end once its worktree is finalized
  out        \* what the call wrote to journal and event log, in order

dispatchVars == <<stage, isolated, counter, seq, aborted, missed, spent, usage, verdict, out>>
vars == <<inUse, queue, permit, dispatchVars>>

Stages == {"uncalled", "queued", "isolating", "running", "finalizing", "returned", "thrown"}

(* budget.remaining() <= 0                                                 *)
Exhausted == BudgetTotal # Unlimited /\ spent >= BudgetTotal

(* Mutant: the cap lets one call too many through.                         *)
AdmissibleOffByOne == ~aborted /\ counter <= MaxAgents /\ ~Exhausted

(* The checks at the head of agentFn, all passed.                          *)
Admissible == ~aborted /\ counter < MaxAgents /\ ~Exhausted

DispatchInit ==
  /\ SemInit
  /\ stage = [c \in Callers |-> "uncalled"]
  /\ isolated = [c \in Callers |-> FALSE]
  /\ counter = 0
  /\ seq = [c \in Callers |-> 0]
  /\ aborted = FALSE
  /\ missed = ~HasReplay
  /\ spent = 0
  /\ usage = [c \in Callers |-> 0]
  /\ verdict = [c \in Callers |-> "none"]
  /\ out = [c \in Callers |-> <<>>]

Write(c, what) == out' = [out EXCEPT ![c] = @ \o what]
Become(c, s) == stage' = [stage EXCEPT ![c] = s]

(* Mutant: the counter moves later, with the permit.                       *)
TakeSeqWithoutCounting(c) ==
  /\ seq' = [seq EXCEPT ![c] = counter + 1]
  /\ UNCHANGED counter

(* seq = shared.counter.count++                                            *)
TakeSeq(c) ==
  /\ counter' = counter + 1
  /\ seq' = [seq EXCEPT ![c] = counter + 1]

-----------------------------------------------------------------------------
(* The synchronous head of agentFn.                                        *)

(* Stopped, cap or budget: throws before the call is numbered.             *)
Refuse(c) ==
  /\ stage[c] = "uncalled"
  /\ ~Admissible
  /\ Become(c, "thrown")
  /\ UNCHANGED <<semVars, isolated, counter, seq, aborted, missed, spent, usage, verdict, out>>

(* normalizeAgentArgs throws, or the record of a skipped or replayed call  *)
(* cannot be written: the number is already taken.                         *)
CallMalformed(c) ==
  /\ stage[c] = "uncalled"
  /\ Admissible
  /\ TakeSeq(c)
  /\ Become(c, "thrown")
  /\ UNCHANGED <<semVars, isolated, aborted, missed, spent, usage, verdict, out>>

(* skip: true resolves to null without a permit and without the cache.     *)
CallSkipped(c) ==
  /\ stage[c] = "uncalled"
  /\ Admissible
  /\ TakeSeq(c)
  /\ Write(c, <<"record", "completed">>)
  /\ Become(c, "returned")
  /\ UNCHANGED <<semVars, isolated, aborted, missed, spent, usage, verdict>>

(* A replayed call resolves at once, without a permit and for no tokens.   *)
CallCached(c) ==
  /\ stage[c] = "uncalled"
  /\ Admissible
  /\ ~missed
  /\ TakeSeq(c)
  /\ Write(c, <<"record", "completed">>)
  /\ Become(c, "returned")
  /\ UNCHANGED <<semVars, isolated, aborted, missed, spent, usage, verdict>>

(* A live call: the lookup missed, which ends replay for good, and the     *)
(* call goes to the semaphore.                                             *)
CallQueued(c) ==
  /\ stage[c] = "uncalled"
  /\ Admissible
  /\ missed' = TRUE
  /\ isolated' \in {isolated, [isolated EXCEPT ![c] = TRUE]}
  /\ TakeSeq(c)
  /\ Write(c, <<"queued">>)
  /\ Become(c, "queued")
  /\ Acquire(c)
  /\ UNCHANGED <<aborted, spent, usage, verdict>>

-----------------------------------------------------------------------------
(* With the permit: the code after `await semaphore.acquire()`.            *)

Resumed(c) == stage[c] = "queued" /\ permit[c] = "granted"
(* Mutant: the budget is only looked at before the await.                  *)
DispatchableOverBudget(c) == ~aborted /\ (isolated[c] => HasWorktrees)

Dispatchable(c) == ~aborted /\ ~Exhausted /\ (isolated[c] => HasWorktrees)

(* Mutant: the gate throws outside the try block and keeps the permit.     *)
WithdrawKeepsPermit(c) ==
  /\ Resumed(c)
  /\ ~Dispatchable(c)
  /\ Become(c, "thrown")
  /\ UNCHANGED <<semVars, isolated, counter, seq, aborted, missed, spent, usage, verdict, out>>

(* The gate throws; finally releases.  No record, no completed event.      *)
Withdraw(c) ==
  /\ Resumed(c)
  /\ ~Dispatchable(c)
  /\ Become(c, "thrown")
  /\ Release(c)
  /\ UNCHANGED <<isolated, counter, seq, aborted, missed, spent, usage, verdict, out>>

Start(c) ==
  /\ Resumed(c)
  /\ Dispatchable(c)
  /\ ~isolated[c]
  /\ Write(c, <<"started">>)
  /\ Become(c, "running")
  /\ UNCHANGED <<semVars, isolated, counter, seq, aborted, missed, spent, usage, verdict>>

(* Mutant: the permit is not held while git creates the worktree.          *)
IsolateWithoutPermit(c) ==
  /\ Resumed(c)
  /\ Dispatchable(c)
  /\ isolated[c]
  /\ Become(c, "isolating")
  /\ Release(c)
  /\ UNCHANGED <<isolated, counter, seq, aborted, missed, spent, usage, verdict, out>>

Isolate(c) ==
  /\ Resumed(c)
  /\ Dispatchable(c)
  /\ isolated[c]
  /\ Become(c, "isolating")
  /\ UNCHANGED <<semVars, isolated, counter, seq, aborted, missed, spent, usage, verdict, out>>

(* The worktree exists: the call starts, with no second look at the signal *)
(* or at the budget.                                                       *)
StartIsolated(c) ==
  /\ stage[c] = "isolating"
  /\ Write(c, <<"started">>)
  /\ Become(c, "running")
  /\ UNCHANGED <<semVars, isolated, counter, seq, aborted, missed, spent, usage, verdict>>

(* Mutant: a worktree that cannot be created leaks the permit.             *)
IsolationFailsKeepsPermit(c) ==
  /\ stage[c] = "isolating"
  /\ Become(c, "thrown")
  /\ UNCHANGED <<semVars, isolated, counter, seq, aborted, missed, spent, usage, verdict, out>>

(* worktrees.create rejected; there is no worktree to finalize.            *)
IsolationFails(c) ==
  /\ stage[c] = "isolating"
  /\ Become(c, "thrown")
  /\ Release(c)
  /\ UNCHANGED <<isolated, counter, seq, aborted, missed, spent, usage, verdict, out>>

(* The try block is over: finally gives the permit back, then waits for    *)
(* the worktree of an isolated call to be finalized.                       *)
Leave(c, end) ==
  /\ verdict' = [verdict EXCEPT ![c] = end]
  /\ Become(c, IF isolated[c] THEN "finalizing" ELSE end)
  /\ Release(c)

(* Mutant: announces before it records.                                    *)
SettleAnnouncesFirst(c, ok, tokens) ==
  /\ stage[c] = "running"
  /\ spent' = spent + tokens
  /\ usage' = [usage EXCEPT ![c] = tokens]
  /\ Write(c, <<"tick", "completed", "record">>)
  /\ Leave(c, IF ok /\ ~aborted THEN "returned" ELSE "thrown")
  /\ UNCHANGED <<isolated, counter, seq, aborted, missed>>

(* Mutant: a stopped agent is not charged.                                 *)
SettleStoppedForFree(c, ok, tokens) ==
  /\ stage[c] = "running"
  /\ spent' = IF aborted THEN spent ELSE spent + tokens
  /\ usage' = [usage EXCEPT ![c] = tokens]
  /\ Write(c, <<"tick", "record", "completed">>)
  /\ Leave(c, IF ok /\ ~aborted THEN "returned" ELSE "thrown")
  /\ UNCHANGED <<isolated, counter, seq, aborted, missed>>

(* executor.execute resolved with `tokens` used.  All three branches after *)
(* it (stopped, failed, ok) account the tokens, record, then announce.     *)
Settle(c, ok, tokens) ==
  /\ stage[c] = "running"
  /\ spent' = spent + tokens
  /\ usage' = [usage EXCEPT ![c] = tokens]
  /\ Write(c, <<"tick", "record", "completed">>)
  /\ Leave(c, IF ok /\ ~aborted THEN "returned" ELSE "thrown")
  /\ UNCHANGED <<isolated, counter, seq, aborted, missed>>

(* The same, but the artifacts or the journal record cannot be written:    *)
(* onAgentSettled throws before the completed event.                       *)
SettleUnrecorded(c, tokens) ==
  /\ stage[c] = "running"
  /\ spent' = spent + tokens
  /\ usage' = [usage EXCEPT ![c] = tokens]
  /\ Write(c, <<"tick">>)
  /\ Leave(c, "thrown")
  /\ UNCHANGED <<isolated, counter, seq, aborted, missed>>

(* onAgentStarted or execute throws instead of resolving.                  *)
ExecuteThrows(c) ==
  /\ stage[c] = "running"
  /\ Leave(c, "thrown")
  /\ UNCHANGED <<isolated, counter, seq, aborted, missed, spent, usage, out>>

(* worktree.finalize settled; its own failures are logged, never thrown.   *)
Finalize(c) ==
  /\ stage[c] = "finalizing"
  /\ Become(c, verdict[c])
  /\ UNCHANGED <<semVars, isolated, counter, seq, aborted, missed, spent, usage, verdict, out>>

(* Stop request, signal or wall-clock limit.                               *)
Abort ==
  /\ ~aborted
  /\ aborted' = TRUE
  /\ UNCHANGED <<semVars, stage, isolated, counter, seq, missed, spent, usage, verdict, out>>

Call(c) ==
  \/ Refuse(c)
  \/ CallMalformed(c)
  \/ CallSkipped(c)
  \/ CallCached(c)
  \/ CallQueued(c)

(* Turns that need nothing but the event loop and git.                     *)
Advance(c) ==
  \/ Withdraw(c)
  \/ Start(c)
  \/ Isolate(c)
  \/ StartIsolated(c)
  \/ IsolationFails(c)
  \/ Finalize(c)

Finish(c) ==
  \/ \E ok \in BOOLEAN, tokens \in 0..MaxTokens : Settle(c, ok, tokens)
  \/ \E tokens \in 0..MaxTokens : SettleUnrecorded(c, tokens)
  \/ ExecuteThrows(c)

Next ==
  \/ \E c \in Callers : Call(c) \/ Advance(c) \/ Finish(c)
  \/ Abort

Spec == DispatchInit /\ [][Next]_vars

(* The event loop resumes what is ready and git returns; executor.execute  *)
(* is only sure to return once the run is stopped, because it then kills   *)
(* its worker: attempts have no deadline by default.                       *)
DrainFairness ==
  \A c \in Callers : WF_vars(Advance(c)) /\ WF_vars(aborted /\ Finish(c))

DrainSpec == Spec /\ DrainFairness
-----------------------------------------------------------------------------
Executing == {c \in Callers : stage[c] \in {"isolating", "running"}}
Numbered  == {c \in Callers : seq[c] > 0}
Ended     == {"returned", "thrown"}

(* Sum of a function of the callers. *)
SumOf(f) == MapThenFoldSet(+, 0, LAMBDA c : f[c], LAMBDA S : CHOOSE c \in S : TRUE, Callers)

TypeOK ==
  /\ SemTypeOK
  /\ stage \in [Callers -> Stages]
  /\ isolated \in [Callers -> BOOLEAN]
  /\ counter \in 0..MaxAgents
  /\ seq \in [Callers -> 0..MaxAgents]
  /\ aborted \in BOOLEAN
  /\ missed \in BOOLEAN
  /\ spent \in Nat
  /\ usage \in [Callers -> 0..MaxTokens]
  /\ verdict \in [Callers -> {"none", "returned", "thrown"}]
  /\ out \in [Callers -> Seq({"queued", "started", "tick", "record", "completed"})]

(* A call owns a permit exactly while it is in the try block: every way    *)
(* out of it (gate, worktree failure, abort, agent failure, disk error)    *)
(* gives the permit back, and nothing runs without one.                    *)
PermitMatchesStage ==
  \A c \in Callers :
    /\ permit[c] = "none" => stage[c] \in {"uncalled"} \cup Ended
    /\ permit[c] = "waiting" => stage[c] = "queued"
    /\ permit[c] = "granted" => stage[c] \in {"queued", "isolating", "running"}
    /\ permit[c] = "released" => stage[c] \in {"finalizing"} \cup Ended

(* At most maxConcurrency workers or worktree creations at any time.       *)
ExecutingBounded == Cardinality(Executing) <= Permits

(* The lifetime cap is never passed and seqs are distinct, however parent  *)
(* and child calls interleave: they are the journal's sort key on resume.  *)
SeqsUnique ==
  /\ counter <= MaxAgents
  /\ \A c \in Numbered : seq[c] <= counter
  /\ \A c, d \in Numbered : seq[c] = seq[d] => c = d

(* Permits are granted in seq order: no call overtakes an older one.       *)
NoOvertaking ==
  \A c, d \in Callers :
    permit[c] = "waiting" /\ seq[c] < seq[d] => permit[d] \in {"none", "waiting"}

(* The budget is a dispatch gate, not a kill: what a run spends beyond its *)
(* total is bounded by what the permits in flight at that moment report.   *)
(* The check before the await alone would let a whole batch through.       *)
OvershootBounded ==
  BudgetTotal # Unlimited /\ spent > 0 => spent < BudgetTotal + Permits * MaxTokens

(* Every watcher takes agent_completed to mean that the artifacts and the  *)
(* journal record are final: the record comes first, and both come once.   *)
RecordBeforeCompleted ==
  \A c \in Callers : \A i \in 1..Len(out[c]) : out[c][i] = "completed" =>
    /\ i > 1 /\ out[c][i - 1] = "record"
    /\ \A j \in 1..Len(out[c]) : out[c][j] \in {"record", "completed"} => j \in {i - 1, i}

(* A stop does not lose accounting: a call whose execute() returned has    *)
(* its tokens in the budget and a record, stopped or not, unless the disk  *)
(* refused the record; a call that never started adds nothing.             *)
StopKeepsAccount ==
  /\ \A c \in Callers : usage[c] > 0 => \E i \in 1..Len(out[c]) : out[c][i] = "tick"
  /\ spent = SumOf(usage)

(* After a stop every call that was made ends.                             *)
AbortDrains == aborted ~> \A c \in Callers : stage[c] \in {"uncalled"} \cup Ended

(* As long as no worker runs for ever, every call that was queued ends:    *)
(* none is stranded in line by an older call's failure.                    *)
EveryCallEnds ==
  (\A c \in Callers : []<>(stage[c] # "running")) =>
    \A c \in Callers : stage[c] = "queued" ~> stage[c] \in Ended
=============================================================================
