# ultracode, verified in part

TLA+ specifications of `ultracode` and of its benchmark harness, checked with
TLC, with proofs checked by TLAPS. The modules are written from the sources;
every definition that models code has its lines in `PROJECT.json` under `map`.
Paths below are relative to `src/src/` unless they begin with `src/`.

`ultracode` executes a workflow script. The script calls `agent()`,
`parallel()`, `pipeline()` and `workflow()`; each `agent()` call becomes a CLI
worker process (codex, claude, gemini, qoder). A run lives in a directory of its
own with a manifest, an event log, a journal and one directory per agent; it is
executed by a detached runner process and is watched, stopped, reaped and
resumed by any number of other processes. `src/bench/` is a second program: it
drives three benchmark suites (SWE-bench Pro, SWE-Marathon, FeatureBench) in
containers and must account for every process and every score it publishes.

    release-oss, install.sh, update ----------------- Distribution
    run / resume / workflow_start ------------------- RunStart
       | manifest.json, events.jsonl, journal.jsonl
       v
    RunLifecycle: runner, stop, reap <--------------- RunReaders: logs, watch,
       | executeWorkflow                              workflow_status
       v
    Nesting: the run's flow and its children
       | agent()
       v
    Dispatch --acquire/release--> Semaphore ==> PermitPool
       |  \--lookup/record------> Replay (ReplayScript: one fixed script)
       v execute()
    AttemptLoop --spawn, sweep--> WorkerCleanup

    bench prep ------ PreparedInputs
    bench run  ------ BenchLock <- RunLedger ==> DurableLog
       |              BenchProcesses
       +------------- SwebenchSessions, SwebenchEval
       +------------- MarathonRun
       +------------- FeatureBenchRun

`==>` reads "implements".

## 1. Inventory

### Concurrency semaphore -- `engine/semaphore.ts`

State: the counter `inUse` and the queue of resolvers. Operations: `acquire()`
and the release closure, which may be called any number of times. Used by every
`agent()` call of a run and of its nested workflows. Hard: a waiter is granted
its permit in one turn and resumed in a later microtask, and any synchronous
`acquire()` can run in between. Correct when the counter is exact, the limit
holds, nobody is lost in line or overtaken, and no permit idles while somebody
waits.

### agent() dispatch -- `engine/hostapi.ts`, `budget/account.ts`

State shared over a run: the lifetime counter (source of journal sequence
numbers), the semaphore, the token account, the abort signal, the replay cache.
Per call: where it is suspended, whether it owns a permit, whether it works in a
git worktree. Hard: four suspension points; checks made before an await and used
after it; five ways out of the try block; a stop at any point; disk errors while
recording. Correct when permits follow the try block on every path, the cap and
the budget hold within their stated slack, permits go out in order, and a stop
drains.

### Run engine and nested workflows -- `engine/run.ts`, `engine/child.ts`, `workflowFn` of `engine/hostapi.ts`

State per flow: an abort controller that listens to the flow above, the script,
the state that becomes its output. Hard: a stop while a child is being loaded; a
script that ends before what it started; a child that throws. Correct when a
stop reaches whoever is under way and what a child did is in the run's report.

### Journal and prefix replay -- `engine/journal.ts`

State: the key chain (one hash per `agent()` call, chained on the one before
and seeded with arguments and permission), `journal.jsonl`, and on resume a
queue of the prior run's records with an index and a flag that ends replay at
the first miss. Hard: records are in completion order and keys in dispatch
order; crashes tear the last line and lose what was in flight; skipped calls are
recorded and never looked up; edits; resumptions of resumptions. Correct when
what is replayed is exactly the longest unchanged successful prefix.

### Attempt loop -- `engine/agentcall.ts`

State per `execute()`: attempts made, the clock of the attempt, the session id,
the usages. Hard: the race of timers and exit; the deadline shared by a resume
and its rerun; leftovers of an attempt while the next one starts; usage that is
cumulative per session in one backend and per attempt in others. Correct when
one attempt has one deadline, nothing is started beside leftovers, and every
token is counted once.

### Workers and cleanup -- `exec/spawn.ts`, `exec/procinfo.ts`, `exec/worker-record.ts`, cleanup in `exec/stop.ts`

State: a token record written before the spawn and its pid after it, process
groups, escaped helpers. Hard: a crash between record and spawn, reuse of a
process group id, processes that fork and leave while a pass looks at them.
Correct when "settled" means gone, the record suffices to find what is left, and
no stranger is signalled.

### Run lifecycle -- `cli/runner.ts`, `cli/main.ts`, `exec/stop.ts`, `store/runstore.ts`, `store/manifest.ts`

State: `manifest.json` (status, pid), the runner and its timers, its detached
workers, and for each stopper or reaper the copy of the manifest it read. Hard:
nothing orders the writers; each writes a whole manifest, some from a copy read
hundreds of milliseconds ago; a scan can fail to settle; SIGKILL anywhere.
Correct when a run that can be resumed has no live workers, a finished run stays
finished, a stop tells the truth, and an abort ends the runner.

### Starting and resuming -- `config.ts`, `cli/run.ts`, `cli/resume.ts`, `exec/start.ts`, `exec/daemonize.ts`, `mcp/server.ts`

State: settings in five layers, the prior run's configuration, the run
directory, the launcher's poll. Hard: a backend chosen in one layer invalidates
fields of layers below; "not given" and "given as nothing"; files edited while
the user is asked; a runner that is slow, exits at once or is stopped before it
binds. Correct when the settings are the last explicit ones, a resume keeps what
nobody changed, and the answer of a launch is true.

### Event log and its readers -- `store/events.ts`, `cli/lifecycle.ts`, `cli/watch.ts`, `mcp/server.ts`

State: `events.jsonl`, an offset per reader, the holds of `workflow_status` and
their count per run. Hard: lines being written while read, lines longer than a
page, the end of a run between two reads, preempted holds. Correct when no event
is shown twice or passed over, the end is shown, and every hold gives its slot
back.

### Release, installer, update -- `src/scripts/release-oss.mjs`, `src/scripts/oss/install.sh`, `cli/update.ts`

State: objects in the store, stage directories, `app/<version>`, the `current`
link. Hard: a publication that dies between uploads; installers that overlap,
die and reap each other's stages. Correct when a version is one build, `latest`
resolves, and a stage in use stands.

### Benchmark lease and run-state ledger -- `src/bench/src/shared/locks.ts`, `run-state-ledger.ts`, `run-state.ts`

State: lock files with a recovery guard; ledger segments and a head that says
how much is committed. Hard: a crash or an I/O error between any two file
operations, a stale owner removed by two recoverers. Correct when one process
owns a run and what was acknowledged stays.

### Benchmark processes and signals -- `src/bench/src/shared/process.ts`, `src/bench/src/cli.ts`, recovery in `run-state.ts`

State: the native commands, three parties that retire them, a durable record for
the next command. Hard: adoption of one cleanup by another, failed sweeps, a
crash of the driver, signals during cleanup. Correct when what lives is in
somebody's books and the cleanup of a signal comes to an end.

### Prepared inputs -- `src/bench/src/shared/toolchain.ts` and the three `prepare` modules

State: locks, downloads, stage directories, published directories, `current`
pointers. Correct when a pointer names complete inputs, and a prep that
succeeded can load them.

### SWE-bench Pro, SWE-Marathon, FeatureBench -- `src/bench/src/suites/`

State: containers, native processes, evidence on disk, a verifier receipt and
the run state, written one after the other. Hard: crashes between those writes,
resumes that must not repeat or mix evidence, drift found by one of several
concurrent sessions, native processes that outlive the command. Correct when a
published score is that of evidence which was judged, once, under valid
conditions.

### Left out

See section 7. `PROJECT.json` lists every component with its status, and the
hazards found in the survey, each at its line, with the properties that cover it.

## 2. Modules

| module | what it models | role |
|---|---|---|
| `PermitPool` | the promise of a FIFO limiter: no counter, no closures | abstract |
| `Semaphore` | `acquire()` and release, implements `PermitPool` | component |
| `Dispatch` | `agentFn` over `Semaphore`, which it extends | composition |
| `Nesting` | `executeWorkflow` of a run and its children | component |
| `Replay` | key chain, journal, resume, lookup | component |
| `ReplayScript` | `Replay` driven by one deterministic script | composition |
| `AttemptLoop` | one `execute()` of a backend worker | component |
| `WorkerCleanup` | the processes of one attempt and who reaps them | component |
| `RunLifecycle` | runner, stoppers, reaper, workers over the manifest | component |
| `RunStart` | settings, review, directory, launch | component |
| `RunReaders` | writer of the log, `logs`, `watch`, `workflow_status` | component |
| `Distribution` | publication, Node mirror, install, update | component |
| `BenchLock` | lease and claim of a benchmark run | component |
| `DurableLog` | a history that only grows | abstract |
| `RunLedger` | ledger, head, repair, over `BenchLock`; implements `DurableLog` | composition |
| `BenchProcesses` | native commands, signals, recovery | component |
| `PreparedInputs` | `prep` of the three suites | component |
| `SwebenchSessions`, `SwebenchEval` | agent sessions; verdicts on their patches | components |
| `MarathonRun` | run, resume and redo over native Harbor jobs | component |
| `FeatureBenchRun` | run, resume, redo, receipt and report | component |
| `DispatchProofs`, `ReplayProofs`, `AttemptProofs`, `LifecycleProofs`, `HarnessProofs`, `FrontendProofs`, `SuitesProofs`, `FeatureBenchProofs` | theorems | proofs |
| `MCDispatch`, `MCAgents`, `MCFrontend`, `MCRunLifecycle`, `MCHarness`, `MCSuites`, `MCFeatureBench` | instances for TLC | model checking |

An MC module may hold several *plays*: independent instances of which one is
chosen in the initial state by the variable `play`, while the variables of the
others keep their initial values. A play adds its states to those of the others
and does not multiply them; it makes one run out of questions about one part of
the system. Next to some definitions stand variants marked *Mutant*: the same
definition with a plausible bug. No specification uses them; each shows that a
property notices the bug.

JavaScript runs one turn at a time, so a synchronous stretch between two awaits
is one action; between processes every read and write of shared files is a step.

### Semaphore

`AcquireNow`/`AcquireLater` are the two branches of `acquire()`,
`HandOver`/`GiveBack` the two of the release closure. `permit[c]` is `"granted"`
as soon as the permit is counted for `c`: the gap until `c`'s continuation runs
is the time in which any other action may occur. The closure's `released` flag
is the value `"released"`; a second call is a stutter.

### Dispatch

`stage[c]` is the await a call is suspended at, one action per stretch: the head
is `Refuse`, `CallMalformed`, `CallSkipped`, `CallCached` or `CallQueued`; behind
the permit come `Withdraw` (the gate throws), `Start`, `Isolate`; then
`StartIsolated`/`IsolationFails`; `Settle`, `SettleUnrecorded` (disk error) or
`ExecuteThrows`; and `Finalize` for the worktree. Each ends in the `finally`
where the code does. The script is a set of calls it may make at any time, which
covers `parallel`, `pipeline` and un-awaited calls. `spent` grows by up to
`MaxTokens` per call. `out[c]` is what the call wrote, in order. A lookup hits or
misses here, and once missed never hits; what it returns is `Replay`'s matter.

### Nesting

Each flow has its own controller (`heard`) and a listener to the flow above
(`tied`). A child's end and the merge of its output are one step, as only
microtasks lie between them. The model ends when the run's own script has: its
report is written then. A queued call may pass the gate at any time; numbers and
permits are in `Dispatch`.

### Replay and ReplayScript

A hash is the sequence of what was hashed, so equal keys mean equal inputs. A
run makes calls with any prompt and any skip flag at any time, settles them in
any order or loses them, and ends anywhere; `Resume` reads its journal, possibly
without a torn last line, with any seed. Trails (`at`, `origin`) are ghost
fields: where a value was computed. `ReplayScript` fixes the script: each call
lists the calls it awaits; continuations run in resolution order and before any
worker's exit, as promise jobs do, and every worker that returns succeeds. A run
may be resumed after it came to its end, or after a stop or a crash, with or
without its last line; `whole` says that this run resumes one that came to its
end. `FanOuts` describes the scripts that await each `agent()` and each
`parallel()` before the next one: a partition into intervals (`Fans`), of which
each awaits the one before it.

### AttemptLoop and WorkerCleanup

`AttemptLoop` is one call of `execute()`: `phase` is its await, `elapsed`
counts from `attemptStartedAt`, `usages` keeps what each counted attempt left. The
worker announces a session, reports usage and exits when it likes; the sweep
after it settles or not. `WorkerCleanup` opens that sweep: a pass lists processes
and then looks at one after the other while they fork, leave the group and exit.
An attempt sweeps up to three times (`cleanups`) before it leaves its record to
`stop`. A stranger that got the worker's PGID keeps a sweep from being proved; who
else a signal to that number reaches is not modelled.
It is run on Linux, where a token in the environment finds escaped descendants,
and on Darwin, where only the group is looked at; there escaped descendants are
out of reach, which the code accepts and the properties leave out.

### RunLifecycle

`disk` is the manifest: its status and whether it names the runner's pid. One
write is one atomic rename. A reader's copy is a variable of its own (`seen`,
`reapSeen`), so a stale write is a step that writes that copy. A cleanup is two
steps: its beginning loads the records of the workers, its end kills all of them
(settled) or some (unsettled) and writes. `Crash` is SIGKILL or an uncaught
exception at any point. `late` holds workers spawned by calls the script did not
await while the runner's own cleanup is under way; nothing prevents those, and
`ResumableIsQuiet` excludes them by name. `StoppedEarly` marks runs that were
stopped before the runner's first flush (section 6). Three windows without an
await are one step each: the final write and `process.exit`; the end of a
stopper's scan with the reap, read and write that follow it; the read and write
at the end of the fatal path. The reaper, which has the same window, is modelled
in three steps.

### RunStart, RunReaders, Distribution

`RunStart`: a setting is a string, `NotSet` when absent; `cap` stands for the
caps and the permission, whose rule it shares; `Values` are the strings that may
be given. Each read of a file, the user's
answer, the creation of the directory and each poll are steps; files may be
edited between them. `RunReaders`: the log is a sequence of cells, where a "part"
cell is a stretch of a line that has no newline yet; a page is a number of
cells. `Distribution`: uploads, downloads, `mv`, `rm` and the flip of the link
are steps; any process may be killed between two; one publisher runs at a time,
as `release-oss.mjs` demands.

### The benchmark harness

`BenchLock` and `RunLedger` have one action per file operation, with its failure
where the caller goes on after one (section 7), and a crash between any two. A
revision's data is the history it seals, a segment is a sequence of tokens, so
that byte counts are lengths.
`BenchProcesses` models one driver with its commands, the two signals, the final
catch and the recovery of the next command; `cleanupEscaped` is one step there,
opened by `WorkerCleanup`. The suites' modules are sequences of bench commands
over one run directory, each of which may die between any two writes; the run's
lease, proved exclusive, is why commands of one run do not overlap.
`SwebenchSessions` has the concurrent workers of one command with containers,
helper containers and the lock of the attestation; an untyped error of a session
may be one that `sessionFailure` takes for the transport's by its message, so
that it aborts the run only once it was recorded. `SwebenchEval` has the batches,
statuses, attempts and receipts after it.

## 3. Runs

| run | what it asks | instance |
|---|---|---|
| `dispatch` | budget overshoot, order of permits, no stranded call; a stop in nested workflows | 3 calls, 1 permit, cap 3, budget 1, reports of one token; 2 calls and 2 children |
| `agents` | replay of edited and of unchanged scripts, with stops and torn lines; retries, resumes, repairs, timeouts; the sweep of a worker's processes | 2 prompts, 2 seeds, 3 calls, 3 runs; two fan-outs of 2 calls, 3 runs; 2 retries, 1 repair, a window of 2, grace 1, five kinds of call; 4 processes, 3 passes, 1 fork during a sweep, 2 stops, two platforms |
| `lifecycle` | resumable means quiet, honest stop, no revival, an abort ends the runner | 2 stoppers, a reaper, 1 worker |
| `frontend` | settings, answers of a launch; readers of the log; publication and installation | 2 calls, 3 asks, 1 edit, 3 scripts; three scenes of readers; 2 versions, 2 builds, 2 installers |
| `harness` | lease, ledger as a durable log; native processes and signals; prep | 3 processes for the lock, 2 for the ledger, 3 to 4 revisions, a migrated history; 2 commands of which one forks, 2 resumes; 2 preps of 3 suites |
| `suites` | sessions under drift; verdicts on patches; one Harbor process per task | 2 sessions under one command or 1 under three, 2 workers, what refused cleanups leave in one execution (`FewLeft`); 2 tasks or 2 arms under 3 commands; 1 task under 3 commands |
| `featurebench` | the receipt proves the score it is bound to, redo and acceptance stay | 2 tasks, 3 commands |
| `reap_final`, `resume_budget`, `prep_lookup`, `install_wipe`, `child_report` | disagreements of code and text, section 6 | small |

The properties, each with the code it is about, are stated where they are
defined; `PROJECT.json` lists which run checks which, and for each one a mutant
that breaks it.

Why these bounds are enough. In `dispatch` the third call on one permit makes
two waiters, which overtaking needs; three calls against a cap of 3 and a budget
of one token reach both limits, and a fourth adds no new order of steps, since
room or no room and an empty or non-empty line decide every branch. Two children
let a stop fall after one has ended and before the other has begun. In `agents`,
3 calls allow a gap, a skip and an out-of-order completion in one journal, and 3
runs a value that was replayed twice; two retries make a resume, its rerun and a
retry after both, one repair exhausts the limit; leader, child, grandchild and a
bystander are what escapes and reused groups need, and three passes are one more
than two that find nothing. In `lifecycle` two stoppers can hold stale copies of
each other's writes. In `frontend` two cells with an overlong line across a page
boundary, and a cap of one hold, reach every branch of a page and of preemption;
two installers and one publisher reach every pair of overlapping steps. In
`harness` three processes are an owner, a recoverer and its rival; segments of
two records rotate within three revisions. In `suites` and `featurebench` three
commands are a first one, one that continues it and one that finds what both
left. Where `suites` has two sessions, the retry of refused cleanups and the
cleanup at the end of a failed command are followed for one execution left over,
not for two at once (`FewLeft`): the two would be cleaned up side by side and
share nothing but who waits for both. The bounds named in the modules are `MaxTokens`,
`MaxCalls`, `MaxRuns`, `MaxEdits`, `MaxStarts`, `MaxBuilds`, `Growth`, `LateJumps`,
`MaxBytes`, `MaxHops`, `MaxPasses`, `MaxResumes`, `SweepForks`, `MaxStops`,
`MaxCommands`, `MaxEvals`, `MaxInvocations` and the revisions of a scene.

Symmetry (prompts, seeds, calls, tasks, workers) is used in runs without liveness
properties only. Deadlock checking is off because a script, a run, a command and
a stop really end.

## 4. Fairness

* `DrainFairness` (in `dispatch`): a call whose await is settled is resumed, as
  the event loop does, and git returns; `executor.execute` is only sure to
  return after an abort, because then it kills its worker. `EveryCallEnds`
  therefore has "no worker runs for ever" as its premise: attempts have no
  deadline unless the user sets one.
* `Responsive`, premise of `AbortEndsRunner`: the runner's event loop turns, its
  timers fire, every cleanup has a deadline. Nothing is assumed of the script,
  and nobody is assumed to send SIGKILL.
* `CleanupFairness`, premise of `SignalCleanupSettles`: each await of a cleanup
  ends, as each has a deadline; nothing is assumed of the native processes.

`Semaphore`, `AttemptLoop` and `WorkerCleanup` state the fairness of their own
(`SemFairSpec`, `Fairness`, `SweepProceeds`) for the liveness properties they
name (`EveryWaiterServed`, `CallEnds`, `OrphansReaped`), which were checked on
smaller instances and are in no run. Neither is `NobodyStuck` of
`SwebenchSessions`, which TLC finds true on the sessions of the run `suites`, nor
are `OneNativeProcess`, `HeadlineMatchesTasks` and `UntouchedStayVerified` of `FeatureBenchRun`, which
are proved.

## 5. Proofs

What a run checks on one instance is proved for every value of the constants,
except for what is named at the end of this section. The theorems are in eight
modules that extend the models; `PROJECT.json` lists those a reader should know
of with the property each one states. Every safety theorem goes the same way:
an inductive invariant holds at first, every step keeps it (one lemma per action
or group of actions), and it implies the property. What follows says, for each,
which invariant that is and what it has to know beyond the property.

### DispatchProofs

* `SemInv` of the semaphore: the counter equals the number of granted permits,
  the line holds exactly the waiting callers, each once, and room means that
  nobody waits (`NoIdlePermit`). It carries the limit (`SemaphoreBounded`) and
  the refinement `SemaphoreIsPermitPool`, whose mapping forgets the counter.
  `Dispatch` uses the semaphore through these steps alone, so the invariant holds
  there without a second proof.
* `StageInv` ties the await a call is suspended at to its permit: every way out
  of the try block gives it back. On it rest `DispatchBounded` and `BudgetInv`,
  which sets a reserve of one report (`MaxTokens`) aside per executing call:
  spending alone is not inductive, since a call that passed the gate has yet to
  report.
* `OrderInv`: `NoOvertaking` speaks of callers that wait; that the line itself is
  ordered by sequence number (`LineOrder`) carries it over a hand-over.
* `NestInv`: a running script listens to the flow above or has heard already
  (`Attached`), after a stop all of them have heard (`AllHeard`), and no call
  belongs to a flow whose script has not begun (`CallersBegun`).

Assumed: `Permits` and the caps are what the code validates them to be
(`PermitsAssumption`, `DispatchAssumption`).

### ReplayProofs

* `ReplayInv`: the records of a run lie along one trail of calls (`Present`),
  those of the prior run too (`Prior`), and until the first miss each keyed call
  was skipped or found its own record (`HitsSoFar`). A key fixes the prompts of
  its trail; `HitsSoFar` is what adds that a call which ran then is not one that
  was skipped, although skips are not hashed. `ReplayIsFaithful` follows.
* `PrefixInv`: of two entries of a run, one has the smaller seq, the shorter
  trail and a key that begins the other's (`Numbered`); the queue has the order
  of that chain although the journal had not (`Lined`), which is where the sort
  comes in; what the lookup passed over is what it replayed, and skips
  (`Walked`). The sort is given by the place each line gets; `SortedIs` proves
  that every line gets one place and every place one line, by counting. In the
  step of a live call lies the argument: a record that would put the call into
  the prefix is exactly where the lookup stops, so the call would not be live.
  `ReplayIsLongestPrefix` follows.

* `ScriptInv`, for `SameScriptIsFullHit`: the journal of a run is a beginning
  of the one chain of keys the script can make, each once and in any order
  (`OnTheChain`, `Accounted`), and calls are issued in the order of the script
  (`InOrder`, `Upcoming`, `Fanned`). The last is where fan-outs are needed: what
  a resolution makes due is nothing or the next fan-out as a whole
  (`FanBecomesDue`), so who resolves last does not matter. In a run that
  resumes a whole one, each lookup then finds the record of the same call
  (`WholeReplay`, `WholeFinds`).
* `JournalIsUnambiguous` and `ReplayEndsAtFirstMiss` follow from `ReplayInv` and
  `PrefixInv`: what the sort and the lookup rely on without saying so.

Nothing is assumed of the prompts, seeds or bounds, and nothing of the scripts
but `FanOuts` in `SameScriptIsFullHit`: with a `pipeline()` it is false
(section 6). `MCAgents` assumes `FanOuts` of its script, so TLC evaluates it.

### AttemptProofs

* `AttemptInv`: the clock of an attempt and of its rerun is one (`Clock`), what a
  sweep left over decides the call or belongs to a resume that never reattached
  (`LeftBehind`), records are named by ordinals already used, so that no later
  worker overwrites one (`Naming`).
* `UsageInv`: a usage is a thread's total exactly where the backend reports
  totals. `CountedByOne` shows from it that of each attempt one usage counts: the
  last total of its session, or its own.
* `CleanupInv`: a sweep that all of its empty passes fooled met as many forks
  (`Fooled`), and the record exists as long as the runner may have a worker
  (`Recorded`). `CleanupRecorded` and `CleanupSettled` have the hypothesis
  `FewForks`: fewer forks fall into a sweep than it asks for empty passes. That
  is what a sweep can promise and no less: with as many forks as passes TLC
  finds a worker alive after a success.

### LifecycleProofs

`LifecycleInv`: manifests name a pid exactly when they say `running` (`Bound`);
and unless a stop came before the runner's first flush (`StoppedEarly`), whoever
acts on the end of a run acts after the runner's death (`Order`) and a scan knows
every worker alive but those spawned behind its back (`Scans`). The properties
speak of what is on disk; the copies that stoppers and the reaper hold are what
can be written there later, so `Order` has to speak of them too.

### HarnessProofs

* `LockInv`: guard and lock file have owners that are processes, a lock whose
  owner is dead is stale, and only the guard's holder removes it.
* `LedgerInv` adds to it that at every instant the files can be read back
  (`AlwaysReadable`) and that the holder finds at each of its steps what that
  step needs (`HolderReady`): the first is what a crash relies on, the second
  what the next write relies on. `LedgerIsDurableLog` refines `DurableLog`
  from it, `LogInv` there gives `LedgerKeepsAcknowledged`.
* `ProcessesInv`: while a resume looks for processes, a living one is among those
  it looks for, and each empty look it survived is one it dodged (`Recovering`).
  `ProcessesOwed` has the hypothesis `FewHops`: a group forks less often during
  one kill than the recovery asks for empty looks.
* `PrepInv`: a suite's lock has one owner, its stage is not visible to others, a
  pointer names what is there. `PointerNamesPublished` is a property of steps.

### FrontendProofs

* `ReaderInv`: unless it jumped to the end of a long log, a reader has been given
  exactly the whole lines behind its cursor; a watcher that drains saw the run end.
* `HoldsInv`: the list of holds names each call in progress once, and no more than
  the cap are not marked as preempted.
* `StartInv`: a run's settings are the last explicit ones of its layers and its
  runner can start it (`WellMade`), a caller has no run before its user answered
  and then the one shown (`Reviews`). `StartSettings` goes back over the lineage.
* `StoreInv` and `DistributionInv`: what the publisher did so far stands in the
  store (`Published`), a live installer has a pid to itself and its stage from
  the reaping to the rename (`OwnStage`), what it verified is what the store
  gives out (`Verified`). `DistributionStage` and `DistributionOneBuild` have
  the hypothesis `~ReusePids`: stages are named by pid, and with reuse both are
  false.

### SuitesProofs

* `SessionInv`: the attestation's lock has one holder among those who attest or
  launch (`LockHeld`). Once the drift is found, the worker that found it has yet
  to raise it or the run has aborted (`DriftKnown`); raising it waits for no
  reply, so the next in line cannot get past the look at the signal in between.
  An abort for an error known by its message comes at any time, from a worker
  without the lock: then others may well go on to their gate, and
  `SessionsGateStaysShut` is about the drift only (section 6). What such a session
  comes to is in `CrossedIsRejected`: its worker still holds it, or it was
  recorded as failed, or could not be recorded. With `OneWorkerEach` and
  `ResultsFit` that gives `SessionsOverlapRejected`.
* `TraceInv`, beside it, is for `SessionsTerminalIsAlone` and
  `SessionsResetAlone`, which are about containers and helpers that several
  actors create and remove. It says of each execution what there may be of it
  (`AccountedAt`): the books, the daemon and the cleanup agree (`Agree`: a
  container only after its launch settled, a cleanup that stops or removes only
  then too, no helper beside a removal); an execution that no worker was given
  yet, or that is terminal, is neither tracked nor has a helper (`Unmounted`);
  and of the one a worker has, the stage of the worker says what there is
  (`Finds`). Since an execution has one worker, each step is a change of one
  execution (`OneExecution`). A failed cleanup may leave anything behind, until
  the command dies: so nothing holds of an execution that was passed over but
  that it is not terminal, and a worker that moves on clean has to be told from
  one that errs. Between commands only `TerminalIsAlone` is left of all this, which
  is why it is a part of the invariant.
* `EvalInv`: what a redo strips has no verdict left (`RedoStripped`), the arm
  under evaluation keeps on disk what was submitted (`BatchUnderWay`), a verdict
  that counts stands on the patch it was given on (`VerdictStands`).
* `MarathonInv`: what runs is in the books of an invocation that is not settled
  (`LiveIsUnsettled`), and a command has nothing running ahead of it
  (`AheadIsQuiet`).

### FeatureBenchProofs

`FeatureBenchInv`: at most one native process, and of which invocation
(`OwnProcess`); directories are made in order and a fresh inference finds its own
(`Directories`, `NewIsOwn`); an input is written once, before it is evaluated
(`InputsAreSet`); what a binding says is what its evaluation made of its input,
one per task and none from before a redo (`BoundScores`); predictions never fall
behind accepted ones, accepted or not (`NeverBehind`). The command keeps a copy
of the receipt and may put it back, so `BoundScores` and `NothingRevived` are
stated of the copy as well: without that neither is inductive.

`EvidenceInv`, beside it, is for `UntouchedTasksStay` (`UntouchedStayVerified`): a
task that was verified when a redo began and is not redone has, at every step of
that command, the evidence it had, or all of the evidence of the new evaluation
(`EvidenceStays`); as long as the copy of the receipt may be put back, that has the
old evidence as well. What makes it inductive is where a redo works: in a directory
that no evaluation has seen (`RedoIsApart`), with metadata and outputs that the
new evidence can be bound with. The hypothesis is `~BadMetadata`; without it the
property is false (section 6). TLC finds `EvidenceInv` and the property true on the
instance of `featurebench`.

### Assumptions

Constants are constrained by the `ASSUME`s of the models only, which TLC evaluates
in the runs: caps, budgets and bounds are naturals (`AttemptAssumption`,
`DispatchAssumption`, `PermitsAssumption`, `CleanupAssumption`,
`ProcessesAssumption`, `LedgerAssumption`, `ReadersAssumption`,
`DistributionAssumption`, `MarathonAssumption`, `FeatureBenchAssumption`,
`SwebenchSessionsAssumption`), placeholders are no processes
(`NobodyAssumption`, `CommandsAssumption`), scenes and asks have their shape
(`ScenesAssumption`, `StartAssumption`, `EvalAssumption`). `FewForks`, `FewHops`,
`~ReusePids`, `FanOuts` and `~BadMetadata` are hypotheses of single theorems and are
said there.

### What is only model-checked

The liveness properties `EveryCallEnds`, `AbortEndsRunner` and
`SignalCleanupSettles`, and what uses `ENABLED`: fairness is beyond the prover.
Every invariant and every property of steps that a run checks is a theorem.

## 6. Where code and text disagree

With a run (`PROJECT.json`, `findings`, has the quotations):

* `reap_final`: `reapOrphans` reads the manifest, probes the pid and writes its
  copy later; a terminal manifest written in between is overwritten with
  `orphaned`.
* `resume_budget`: `workflow_start` without a budget passes `null`, which counts
  as explicit: the resumed run loses the budget of the run it resumes.
* `prep_lookup`: a toolchain is published under the key of its manifest and
  looked up under the hash of its payload: no prep can load what it published.
* `install_wipe`: `install_app` looks for a complete copy and then removes what
  is there; another installer's complete copy can land in between.
* `child_report`: a child whose script throws is reported before its diagnostics
  are merged, so its failed agents and kept worktrees are in nobody's report.

Stated in a module, violated on a small instance, and in no run:

* `Replay.BeyondEditAllLive` -- `engine/journal.ts:143` says that everything
  beyond an edit runs live. Adding `skip: true` to a call that left no record
  changes no key (77-91) and causes no miss, so later calls are still replayed.
* `ReplayScript.SameScriptFullHit` for a `pipeline()` --
  `src/docs/design/core-engine.md:127` promises a full cache hit for the same
  script and arguments; later stages are numbered in completion order
  (`engine/hostapi.ts:589`). For fan-outs it is a theorem (`SameScriptIsFullHit`).
* `RunLifecycle.ResumableIsDead` -- `core-engine.md:127`: a resumable run has no
  live runner. A stop between `createRunDir` and the runner's first flush finds
  no pid and marks the run `stopped` (`exec/stop.ts:509`); the runner then
  executes it.
* `RunLifecycle.ReapUnblocksResume` -- `core-engine.md:252`: reaping unblocks
  resume; `isResumableStatus` (`store/manifest.ts:74`) rejects `orphaned`.
* `RunReaders.FollowShowsTheEnd` -- `cli/main.ts:77` says of `logs --follow`
  "keep tailing until terminal"; the page is read before the manifest
  (`cli/lifecycle.ts:149`), so events written in between are not printed.
* `Nesting.NoStartAfterStop` -- `engine/child.ts:3` and `core-engine.md:111`: a
  child shares the parent's abort signal. A flow's listener goes with its script
  (`engine/run.ts:179`): calls it did not await never hear a later stop.
* `AttemptLoop.NoSpawnOverLeftovers` -- the integration test "promotes unresolved
  cleanup for a failed child and does not start another attempt"
  (`src/test/unit/process-cleanup.integration.test.ts:371`). A resume that never
  reattached is rerun without looking at what its sweep said
  (`engine/agentcall.ts:208`); `RetryOnlyWhenSwept` states what does hold.
* `SwebenchSessions.NoGateAfterAbort` -- `src/bench/docs/swebench-pro.md:128-132`:
  the fatal signal immediately stops new launches. An error that only
  `sessionFailure` recognises, by its message, aborts the run from the worker's
  catch (`suites/swebench-pro/runner.ts:2159`), without the lock; a session that
  is being attested meanwhile does not look at the signal again
  (`startAttestedSessionTransport`, 1032-1077) and opens its gate.
  `NoGateAfterDrift` is what does hold.
* `SwebenchEval.DriftNeverCounts` -- `src/bench/docs/swebench-pro.md:128-132`:
  results that overlapped a drift are recorded as invalid. An evaluation collects
  every patch that can be read, whatever the status says (`collectPredictions`),
  so one that such a session left behind is judged and counts.
* `FeatureBenchRun.UntouchedStayVerified` with `BadMetadata` --
  `src/bench/docs/featurebench.md:132`: untouched bindings remain valid. Metadata
  of another task that cannot be read takes them away. Without such metadata the
  property is a theorem (`UntouchedTasksStay`).

Observed while reading, without a property: publishers that overlap can publish
two builds under one version (assumed away at `src/scripts/release-oss.mjs:27`);
reuse of a pid can land a stale stage under another version (`ReusePids`); a bare
`update` overlapped by another install may downgrade; `--max-agents abc` becomes
`null`; a launch that timed out leaves a runner that may still run; a cleanup of a
SWE-bench Pro session that fails in its first listing or in its deadline raises a
plain error (`suites/swebench-pro/runner.ts:1387-1391`), which leaves the task
pending and lets the command end well with the container still there, until the
sweep of the next command; raised in the `finally`, it also takes the place of an
ownership error from the cleanup at the backstop.

## 7. Not modelled

* Worktree manager (`exec/worktree.ts`): it runs git commands. `Dispatch` and
  `Nesting` see an await that may fail and a worktree that is kept or not.
* Backends (`backends/`), script dialect and sandbox (`engine/meta.ts`,
  `sandbox.ts`, `determinism.ts`, `ajv.ts`), terminal interface (`cli/panel*.ts`,
  `live-region.ts`, `keys.ts`): parsing, a vm context, rendering; no shared state.
* Host packs, doctor, lint, sync: sequential checks and copies by one command.
* Benchmark reports and metrics: arithmetic over evidence. Which evidence counts
  is in the suites' modules.
* Of what is modelled in part: images, policies and token accounting of the
  suites; Darwin's recovery phase in `BenchProcesses`; `install.sh`'s uninstall,
  shims and receipts; the dry run of `run`; the MCP tools that only read a file.
* Failures of single file operations: writing or releasing the guard of a lock
  (`shared/locks.ts:196-201`, 226-228), which ends the acquisition with the guard
  left for removal by hand and so keeps everybody else out; publishing and
  pointing in `PreparedInputs` (`suites/swe-marathon/prepare.ts:407-411`,
  `shared/toolchain.ts:598-605`, `suites/featurebench/prepare.ts:797`), where the
  model has the crash, which publishes and points as far; and archiving, resetting
  and noting in `MarathonRun`, where the code would also close the invocation
  (`suites/swe-marathon/runner.ts:1126`). No property depends on them, with one
  exception: when FeatureBench's pointer has been renamed into place and only the
  sync of its directory fails (`shared/paths.ts:454`), the inputs it names are
  withdrawn (`suites/featurebench/prepare.ts:800`), and `PointerNamesPublished`
  would not hold. `MarathonRun.Decide` settles the pending attempt of a task whose
  evidence is terminal as succeeded, also after a verifier timeout, which the code
  records as failed
  (`suites/swe-marathon/runner.ts:916`); nothing reads that.
* Failures outside the models' granularity that were noted: a crash between a
  Marathon run's manifest and its first state, or a second crash with the marker
  of the first, leaves a directory that needs `--redo` or removal by hand; a
  FeatureBench redo that fails in its evaluation lets the next resume evaluate
  predictions accepted earlier; a prep that dies leaves stage directories and
  partial downloads that nobody removes.
