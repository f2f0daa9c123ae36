------------------------------ MODULE MarathonRun ------------------------------
(***************************************************************************)
(* A SWE-Marathon run (bench/src/suites/swe-marathon/runner.ts): a sequence  *)
(* of bench commands (run, run --resume [--redo], report) over one run       *)
(* directory.  Each task is one native Harbor job: a host process with       *)
(* containers and a credential home of its own, which outlives a command     *)
(* that crashes and goes on writing evidence.                                *)
(*                                                                          *)
(* Commands exclude each other by the run's lease (BenchLock), so one runs   *)
(* at a time; it may die between any two of the steps below.                 *)
(***************************************************************************)
EXTENDS Naturals, SequencesExt

CONSTANTS
  NTasks,       \* the tasks of the manifest, run in order
  MaxInvocations   \* bound: commands issued

ASSUME MarathonAssumption == NTasks \in Nat \ {0}

Task == 1..NTasks

\* How far the native evidence of a job has come.
Nothing == 0     \* no job directory
Empty   == 1     \* a directory that redo has reset
Config == 2     \* the job's config.json
Trial   == 3     \* a trial's config
Result  == 4     \* the job's result.json
Final == 5     \* a reward, or a verifier timeout

VARIABLES
  dir,       \* what of the run directory exists
  marker,    \* the command named in the creation marker, or 0
  claim,     \* the command that holds or held the claim on the run id, or 0
  invs,      \* the invocations of the run state
  atts,      \* the attempts of each task
  bound,   \* what the verifier receipt binds for each task
  job,       \* the job directory of each task
  archive,   \* the jobs of each task that redo moved away
  live,      \* the Harbor host processes of each task
  boxes,     \* the containers of each task, by the process that made them
  homes,     \* the marked credential homes of each task
  unmarked,  \* a credential home without its marker is lying in the temp directory
  runs,      \* Harbor processes started so far
  cli        \* the command under way

created == <<dir, marker, claim>>
stored  == <<invs, atts, bound>>
native  == <<job, archive>>
outside == <<live, boxes, homes, unmarked>>
marathonVars == <<created, stored, native, outside, runs, cli>>

OffRun == [at |-> "off", n |-> 0, kind |-> "none", redo |-> {}, task |-> 1, inv |-> 0,
        run |-> 0, unsafe |-> FALSE]

NoBinding == [id |-> 0, level |-> Nothing, inv |-> 0]

MarathonInit ==
  /\ dir = "none" /\ marker = 0 /\ claim = 0
  /\ invs = <<>> /\ atts = [t \in Task |-> <<>>]
  /\ bound = [t \in Task |-> NoBinding]
  /\ job = [t \in Task |-> [id |-> 0, level |-> Nothing]]
  /\ archive = [t \in Task |-> {}]
  /\ live = [t \in Task |-> {}] /\ boxes = live /\ homes = live
  /\ unmarked = FALSE /\ runs = 0
  /\ cli = [OffRun EXCEPT !.n = 0]

MarathonAt(step) == cli.at = step
MarathonGoTo(step) == cli' = [cli EXCEPT !.at = step]
Over == cli' = [OffRun EXCEPT !.n = cli.n]

-----------------------------------------------------------------------------
(* Harbor *)

\* The process writes the next piece of evidence into the job directory at its path.
HarborWrites(t) ==
  /\ \E r \in live[t] :
       /\ job[t].level < Final
       /\ job' = [job EXCEPT ![t] =
            IF @.level \in {Nothing, Empty} THEN [id |-> r, level |-> Config]
            ELSE [id |-> @.id, level |-> @.level + 1]]
  /\ UNCHANGED <<created, stored, archive, outside, runs, cli>>

HarborOpensBox(t) ==
  /\ \E r \in live[t] \ boxes[t] : boxes' = [boxes EXCEPT ![t] = @ \cup {r}]
  /\ UNCHANGED <<created, stored, native, live, homes, unmarked, runs, cli>>

\* It ends by itself, with or without its containers.
HarborExits(t) ==
  /\ \E r \in live[t] :
       /\ live' = [live EXCEPT ![t] = @ \ {r}]
       /\ boxes' \in {boxes, [boxes EXCEPT ![t] = @ \ {r}]}
  /\ UNCHANGED <<created, stored, native, homes, unmarked, runs, cli>>

-----------------------------------------------------------------------------
(* run: creating the run directory *)

Stages == <<"none", "dir", "marked", "manifest", "state", "receipt", "ready">>
Reached(stage) ==
  \E i, j \in DOMAIN Stages : Stages[i] = stage /\ Stages[j] = dir /\ i <= j

\* A claim is free, or its holder is dead and it is recovered.
StartMarathon ==
  /\ MarathonAt("off") /\ cli.n < MaxInvocations
  /\ claim' = cli.n + 1
  /\ \/ /\ dir = "none"
        /\ cli' = [OffRun EXCEPT !.n = cli.n + 1, !.kind = "run", !.at = "mkdir"]
     \/ /\ claim # 0 /\ dir = "dir"
        /\ cli' = [OffRun EXCEPT !.n = cli.n + 1, !.kind = "run", !.at = "wipe"]
     \/ /\ claim # 0 /\ dir = "marked" /\ marker = claim
        /\ cli' = [OffRun EXCEPT !.n = cli.n + 1, !.kind = "run", !.at = "wipe"]
  /\ UNCHANGED <<dir, marker, stored, native, outside, runs>>

\* The directory belongs to nobody provable, or to a published run: the claim is let go.
RunRefused ==
  /\ MarathonAt("off") /\ cli.n < MaxInvocations
  /\ dir # "none" /\ ~(claim # 0 /\ (dir = "dir" \/ (dir = "marked" /\ marker = claim)))
  /\ claim' = 0
  /\ cli' = [OffRun EXCEPT !.n = cli.n + 1]
  /\ UNCHANGED <<dir, marker, stored, native, outside, runs>>

\* assertRecoveredClaimOwnsRunDirectory has passed.
Wipe ==
  /\ MarathonAt("wipe") /\ dir' = "none" /\ marker' = 0
  /\ MarathonGoTo("mkdir")
  /\ UNCHANGED <<claim, stored, native, outside, runs>>

\* initializeRun, one file at a time.
Create ==
  /\ \/ /\ MarathonAt("mkdir") /\ dir' = "dir" /\ MarathonGoTo("mark") /\ UNCHANGED <<marker, claim>>
     \/ /\ MarathonAt("mark") /\ dir' = "marked" /\ marker' = cli.n /\ MarathonGoTo("manifest")
        /\ UNCHANGED claim
     \/ /\ MarathonAt("manifest") /\ dir' = "manifest" /\ MarathonGoTo("state") /\ UNCHANGED <<marker, claim>>
     \/ /\ MarathonAt("state") /\ dir' = "state" /\ MarathonGoTo("receipt") /\ UNCHANGED <<marker, claim>>
     \/ /\ MarathonAt("receipt") /\ dir' = "receipt" /\ MarathonGoTo("clear") /\ UNCHANGED <<marker, claim>>
     \/ /\ MarathonAt("clear") /\ dir' = "ready" /\ marker' = 0 /\ claim' = 0 /\ MarathonGoTo("begin")
  /\ UNCHANGED <<stored, native, outside, runs>>

CreateFails ==
  /\ cli.at \in {"mkdir", "mark", "manifest", "state", "receipt", "clear"}
  /\ dir' = "none" /\ marker' = 0 /\ claim' = 0
  /\ Over
  /\ UNCHANGED <<stored, native, outside, runs>>

-----------------------------------------------------------------------------
(* run --resume and report: loadRunStores *)

Open == {i \in DOMAIN invs : invs[i].open}
Unsettled == UNION {invs[i].unsettled : i \in DOMAIN invs}
UnsafeAttempt == \E t \in Task : \E i \in DOMAIN atts[t] : atts[t][i].unsafe

StartResume ==
  /\ MarathonAt("off") /\ cli.n < MaxInvocations /\ Reached("state")
  /\ \E kind \in {"resume", "report"} : \E redo \in SUBSET Task :
       /\ kind = "report" => redo = {}
       /\ cli' = [OffRun EXCEPT !.n = cli.n + 1, !.kind = kind, !.redo = redo, !.at = "recover"]
  /\ UNCHANGED <<created, stored, native, outside, runs>>

Settle(settled) ==
  invs' = [i \in DOMAIN invs |-> [invs[i] EXCEPT !.unsettled = @ \ settled]]

\* Mutant: the descendants of an interrupted command are not looked for.
SparedNone(settled) == {}
\* recoverPendingLifecycleProcesses: what is settled was killed, or gone already.
Killed(settled) == settled

Recover ==
  /\ MarathonAt("recover")
  /\ \E settled \in SUBSET Unsettled :
       /\ Settle(settled)
       /\ live' = [t \in Task |-> live[t] \ Killed(settled)]
       /\ IF settled # Unsettled THEN Over
          ELSE MarathonGoTo(IF Open # {} \/ UnsafeAttempt THEN "sweep" ELSE "begin")
  /\ UNCHANGED <<created, atts, bound, native, boxes, homes, unmarked, runs>>

\* cleanupMarathonContainers of the tasks up to k: the containers, then the homes,
\* where a home without a marker stops everything.
SweptBoxes(k) ==
  /\ boxes' = [t \in Task |-> IF t <= k THEN {} ELSE boxes[t]]
  /\ homes' = [t \in Task |-> IF t <= k /\ ~unmarked THEN {} ELSE homes[t]]

Sweep ==
  /\ MarathonAt("sweep")
  /\ \/ SweptBoxes(NTasks) /\ ~unmarked /\ MarathonGoTo("close")
     \/ (\E k \in 0..NTasks : SweptBoxes(k) /\ (unmarked => k <= 1)) /\ Over
  /\ UNCHANGED <<created, stored, native, live, unmarked, runs>>

\* closeInterruptedInvocations
Close ==
  /\ MarathonAt("close")
  /\ invs' = [i \in DOMAIN invs |-> [invs[i] EXCEPT !.open = FALSE]]
  /\ MarathonGoTo("begin")
  /\ UNCHANGED <<created, atts, bound, native, outside, runs>>

-----------------------------------------------------------------------------
(* An invocation *)

\* Another configuration, a drifted provenance or a busy input ends the command here.
BeginInvocation ==
  /\ MarathonAt("begin")
  /\ \/ /\ invs' = Append(invs, [open |-> TRUE, unsettled |-> {}])
        /\ cli' = [cli EXCEPT !.inv = Len(invs) + 1,
                     !.at = CASE cli.kind = "report" -> "finish" [] cli.redo # {} -> "unbind"
                              [] OTHER -> "task"]
     \/ Over /\ UNCHANGED invs
  /\ UNCHANGED <<created, atts, bound, native, outside, runs>>

\* Mutant: an invocation is ended whatever became of its processes.
MayEndAlways == TRUE
\* The run-state schema: the processes of an ended invocation are settled.
MayEnd == invs[cli.inv].unsettled = {}

\* finishInvocation, after success or after an error; refused it leaves it open.
FinishInvocation ==
  /\ cli.at \in {"finish", "fail"}
  /\ invs' = IF MayEnd THEN [invs EXCEPT ![cli.inv].open = FALSE] ELSE invs
  /\ Over
  /\ UNCHANGED <<created, atts, bound, native, outside, runs>>

-----------------------------------------------------------------------------
(* --redo: invalidateRedo *)

HasReceipt == Reached("receipt")

\* Mutant: the receipt keeps what redo is about to move away.
KeptBound(t) == bound[t]
Unbound(t) == IF t \in cli.redo THEN NoBinding ELSE bound[t]

UnbindRedone ==
  /\ MarathonAt("unbind")
  /\ IF HasReceipt
     THEN /\ bound' = [t \in Task |-> Unbound(t)]
          /\ cli' = [cli EXCEPT !.at = "rename", !.task = Min(cli.redo)]
     ELSE MarathonGoTo("fail") /\ UNCHANGED bound
  /\ UNCHANGED <<created, invs, atts, native, outside, runs>>

\* Mutant: the old job is not moved to the archive.
ArchivedNot(t) == archive[t]
Archived(t) == IF job[t].level = Nothing THEN archive[t] ELSE archive[t] \cup {job[t]}

Rename ==
  /\ MarathonAt("rename")
  /\ archive' = [archive EXCEPT ![cli.task] = Archived(cli.task)]
  /\ job' = [job EXCEPT ![cli.task] = [id |-> 0, level |-> Nothing]]
  /\ MarathonGoTo("reset")
  /\ UNCHANGED <<created, stored, outside, runs>>

\* resetArtifactDirectory empties whatever is at the path by now.
ResetTasks ==
  /\ MarathonAt("reset")
  /\ job' = [job EXCEPT ![cli.task] = [id |-> 0, level |-> Empty]]
  /\ MarathonGoTo("note")
  /\ UNCHANGED <<created, stored, archive, outside, runs>>

Attempt(phase, status) ==
  [inv |-> cli.inv, phase |-> phase, status |-> status, unsafe |-> FALSE]

NoteRedo ==
  LET later == {t \in cli.redo : t > cli.task}
  IN /\ MarathonAt("note")
     /\ atts' = [atts EXCEPT ![cli.task] = Append(@, Attempt("cleanup", "succeeded"))]
     /\ cli' = IF later = {} THEN [cli EXCEPT !.at = "task", !.task = 1]
               ELSE [cli EXCEPT !.at = "rename", !.task = Min(later)]
     /\ UNCHANGED <<created, invs, bound, native, outside, runs>>

-----------------------------------------------------------------------------
(* runTask *)

CleanFirst ==
  /\ MarathonAt("task")
  /\ boxes' = [boxes EXCEPT ![cli.task] = {}]
  /\ IF unmarked THEN MarathonGoTo("fail") /\ UNCHANGED homes
     ELSE homes' = [homes EXCEPT ![cli.task] = {}] /\ MarathonGoTo("decide")
  /\ UNCHANGED <<created, stored, native, live, unmarked, runs>>

CleanFirstFails ==
  /\ MarathonAt("task") /\ MarathonGoTo("fail")
  /\ UNCHANGED <<created, stored, native, outside, runs>>

Sessions(t) == {i \in DOMAIN atts[t] : atts[t][i].phase = "session"}

\* harborEvidenceInvocationId
EvidenceInv(t) == IF Sessions(t) = {} THEN cli.inv ELSE atts[t][Max(Sessions(t))].inv

Pending(t) == {i \in Sessions(t) : atts[t][i].status = "running" /\ atts[t][i].inv = EvidenceInv(t)}

SettledSession(t, status) ==
  IF Pending(t) = {} THEN atts
  ELSE [atts EXCEPT ![t][Max(Pending(t))].status = status]

\* validateHarborResume: the very config the receipt has bound.
Resumable(t) ==
  job[t].level >= Config /\ bound[t].level >= Config /\ bound[t].id = job[t].id

\* assertTerminalHarborEvidencePinned
Pinned(t) == bound[t] = [id |-> job[t].id, level |-> Final, inv |-> EvidenceInv(t)]

NextTask ==
  cli' = [cli EXCEPT !.at = IF cli.task = NTasks THEN "finish" ELSE "task",
                     !.task = IF cli.task = NTasks THEN 1 ELSE @ + 1,
                     !.run = 0, !.unsafe = FALSE]

Resumes(t) == job[t].level # Nothing /\ t \notin cli.redo

Decide ==
  LET t == cli.task IN
  /\ MarathonAt("decide")
  /\ \/ /\ ~Resumes(t)
        /\ MarathonGoTo(IF job[t].level # Nothing /\ cli.kind = "run" THEN "fail" ELSE "attempt")
        /\ UNCHANGED atts
     \/ /\ Resumes(t) /\ (cli.kind = "run" \/ ~HasReceipt \/ ~Resumable(t))
        /\ MarathonGoTo("fail") /\ UNCHANGED atts
     \/ /\ Resumes(t) /\ cli.kind # "run" /\ HasReceipt /\ Resumable(t)
        /\ \/ /\ job[t].level = Final /\ Pinned(t)
              /\ atts' = SettledSession(t, "succeeded") /\ NextTask
           \/ /\ job[t].level = Final /\ ~Pinned(t)
              /\ atts' = SettledSession(t, "failed") /\ MarathonGoTo("fail")
           \/ /\ job[t].level < Final
              /\ atts' = SettledSession(t, "failed") /\ MarathonGoTo("attempt")
  /\ UNCHANGED <<created, invs, bound, native, outside, runs>>

BeginAttempt ==
  /\ MarathonAt("attempt")
  /\ atts' = [atts EXCEPT ![cli.task] = Append(@, Attempt("session", "running"))]
  /\ runs' = runs + 1
  /\ cli' = [cli EXCEPT !.at = "home", !.run = runs + 1]
  /\ UNCHANGED <<created, invs, bound, native, outside>>

\* createMarathonRuntimeHome: a directory, then its marker; an error removes it, and
\* leaves the attempt running.
MakeHome ==
  /\ \/ MarathonAt("home") /\ unmarked' = TRUE /\ MarathonGoTo("label") /\ UNCHANGED homes
     \/ /\ MarathonAt("label") /\ unmarked' = FALSE
        /\ homes' = [homes EXCEPT ![cli.task] = @ \cup {cli.run}] /\ MarathonGoTo("token")
     \/ MarathonAt("label") /\ unmarked' = FALSE /\ MarathonGoTo("fail") /\ UNCHANGED homes
  /\ UNCHANGED <<created, stored, native, live, boxes, runs>>

\* onLifecycleToken comes before the process.
Token ==
  /\ MarathonAt("token")
  /\ invs' = [invs EXCEPT ![cli.inv].unsettled = @ \cup {cli.run}]
  /\ MarathonGoTo("spawn")
  /\ UNCHANGED <<created, atts, bound, native, outside, runs>>

Spawn ==
  /\ MarathonAt("spawn")
  /\ live' = [live EXCEPT ![cli.task] = @ \cup {cli.run}]
  /\ MarathonGoTo("wait")
  /\ UNCHANGED <<created, stored, native, boxes, homes, unmarked, runs>>

\* runBenchProcess returns: the process ended or was killed, and its descendants are
\* settled; or they are not.
WaitHarbor ==
  /\ MarathonAt("wait")
  /\ \/ /\ live' = [live EXCEPT ![cli.task] = @ \ {cli.run}]
        /\ invs' = [invs EXCEPT ![cli.inv].unsettled = @ \ {cli.run}]
     \/ UNCHANGED <<live, invs>>
  /\ MarathonGoTo("cleanup")
  /\ UNCHANGED <<created, atts, bound, native, boxes, homes, unmarked, runs>>

\* cleanupTrackedExecution: the containers of the task, then its home.
Cleanup ==
  /\ MarathonAt("cleanup")
  /\ \/ /\ boxes' = [boxes EXCEPT ![cli.task] = {}]
        /\ homes' = [homes EXCEPT ![cli.task] = {}]
        /\ MarathonGoTo("bind")
     \/ /\ boxes' \in {boxes, [boxes EXCEPT ![cli.task] = {}]}
        /\ homes' \in {homes, [homes EXCEPT ![cli.task] = {}]}
        /\ cli' = [cli EXCEPT !.at = "bind", !.unsafe = TRUE]
  /\ UNCHANGED <<created, stored, native, live, unmarked, runs>>

\* indexHarborEvidence and updateReceipt
Bind ==
  LET t == cli.task IN
  /\ MarathonAt("bind")
  /\ IF HasReceipt
     THEN /\ bound' = [bound EXCEPT ![t] =
               IF job[t].level < Config THEN NoBinding
               ELSE [id |-> job[t].id, level |-> job[t].level, inv |-> cli.inv]]
          /\ MarathonGoTo("finalize")
     ELSE MarathonGoTo("fail") /\ UNCHANGED bound
  /\ UNCHANGED <<created, invs, atts, native, outside, runs>>

\* Mutant: the failed cleanup is thrown and not recorded.
FinalUnsafeNot == FALSE
FinalUnsafe == cli.unsafe

FinalizeAttempt ==
  LET t == cli.task IN
  /\ MarathonAt("finalize")
  /\ \E status \in IF cli.unsafe THEN {"failed"} ELSE {"succeeded", "failed"} :
       atts' = [atts EXCEPT ![t][Len(atts[t])] =
                  [@ EXCEPT !.status = status, !.unsafe = FinalUnsafe]]
  /\ IF cli.unsafe THEN MarathonGoTo("fail") ELSE NextTask
  /\ UNCHANGED <<created, invs, bound, native, outside, runs>>

\* The command is killed.  A claim, a lease and everything outside stay.
MarathonDies ==
  /\ ~MarathonAt("off") /\ Over
  /\ UNCHANGED <<created, stored, native, outside, runs>>

-----------------------------------------------------------------------------
MarathonNext ==
  \/ \E t \in Task : HarborWrites(t) \/ HarborOpensBox(t) \/ HarborExits(t)
  \/ StartMarathon \/ RunRefused \/ Wipe \/ Create \/ CreateFails
  \/ StartResume \/ Recover \/ Sweep \/ Close
  \/ BeginInvocation \/ FinishInvocation \/ UnbindRedone \/ Rename \/ ResetTasks \/ NoteRedo
  \/ CleanFirst \/ CleanFirstFails \/ Decide \/ BeginAttempt \/ MakeHome \/ Token \/ Spawn
  \/ WaitHarbor \/ Cleanup \/ Bind \/ FinalizeAttempt \/ MarathonDies

MarathonSpec == MarathonInit /\ [][MarathonNext]_marathonVars

-----------------------------------------------------------------------------
(* Properties *)

\* Two Harbor processes never work on the job of one task, however often the run was
\* interrupted, resumed or redone.
OneHarborPerTask == \A t \in Task : Cardinality(live[t]) <= 1

\* An ended invocation has left no process behind.
EndedIsQuiet ==
  \A t \in Task : live[t] \subseteq UNION {invs[i].unsettled : i \in Open}

\* Containers and credential homes that are left are known to the next command: it
\* finds an open invocation, or an attempt marked unsafe.  (Not so in a run whose
\* creation was interrupted before it had a receipt: there the failure to bind the
\* evidence replaces the failure to clean up.)
LeftoversKnown ==
  HasReceipt /\ (\E t \in Task : boxes[t] \cup homes[t] # {}) /\ MarathonAt("off") => Open # {} \/ UnsafeAttempt

\* Final evidence is never lost and never becomes other evidence: only redo moves it,
\* and what it moves is in the archive from then on.
FinalEvidenceKept ==
  [][\A t \in Task :
       /\ job[t].level = Final => job'[t] = job[t] \/ job[t] \in archive'[t]
       /\ archive[t] \subseteq archive'[t]]_marathonVars

\* Evidence the receipt holds as final is what the job directory says, and the job
\* is not run again.
BoundIsFinal ==
  \A t \in Task : bound[t].level = Final =>
    /\ bound[t].id = job[t].id /\ job[t].level = Final
    /\ t = cli.task => ~(cli.at \in {"attempt", "home", "label", "token", "spawn", "wait"})
=============================================================================
