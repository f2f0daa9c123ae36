------------------------------- MODULE RunStart -------------------------------
(***************************************************************************)
(* How a run comes to be: `ultracode run` (src/src/cli/run.ts), `ultracode *)
(* resume` (cli/resume.ts) and the MCP tool workflow_start                 *)
(* (mcp/server.ts, exec/start.ts) resolve its settings, write its run      *)
(* directory (store/runstore.ts) and wait for a detached runner            *)
(* (exec/daemonize.ts).  The files they read -- the user's and the         *)
(* project's config.json (config.ts) and the script -- may be edited at    *)
(* any time, and `run` waits for an answer between its reads and its       *)
(* writes.                                                                 *)
(*                                                                         *)
(* A setting is a string, NotSet when absent.  "cap" stands for the caps   *)
(* and the permission, whose rule it shares (only wall clock and attempt   *)
(* timeout know the value Zero, which clears them); settings of a resumed  *)
(* run that no caller can give are inherited like the cap.                 *)
(***************************************************************************)
EXTENDS Naturals, Sequences, FiniteSetsExt

CONSTANTS
  Calls,      \* commands and tool calls that start or resume a run
  Values,     \* the values of settings, args and caps
  Settings,   \* what a configuration file may set: profiles
  Asks,       \* what a caller may ask for: overrides, args, budget, cap
  Scripts,    \* contents of a script file; "broken" does not parse
  Accepts,    \* the args each script's input schema accepts
  Files,      \* the user's layer, the project's layer and the script, at first
  MaxEdits    \* edits of files while calls are in flight

VARIABLES
  user, project,  \* the two layers: a profile, Absent, or Unreadable
  script,         \* the script file
  edits,
  runs,           \* run directories and their runners
  pc,             \* where each call is
  plan,           \* the run a call has decided on
  mine,           \* the run it created
  exited,         \* it saw its runner's exit event
  answer

callVars == <<pc, plan, mine, exited, answer>>
fileVars == <<user, project, script, edits>>
startVars == <<fileVars, runs, callVars>>

NotSet == "-"
Zero == "0"
Scoped == {"model", "effort", "contextWindow"}
ProfileKeys == {"backend"} \cup Scoped
Nothing == [k \in ProfileKeys |-> NotSet]
Absent == [Nothing EXCEPT !["backend"] = "absent"]
Unreadable == [Nothing EXCEPT !["backend"] = "unreadable"]
Implemented == {"mock", "codex", "qoder", "claude", "gemini"}

Profiles == [ProfileKeys -> Values]

ASSUME StartAssumption ==
  /\ {NotSet, Zero, "null"} \subseteq Values
  /\ Settings \subseteq Profiles
  /\ Asks \subseteq [overrides : Profiles, args : Values, budget : Values, cap : Values]
  /\ LET Layer == Settings \cup {Absent, Unreadable}
     IN  Files \subseteq Layer \X Layer \X Scripts

(* A given setting hides an inherited one. *)
Or(given, inherited) == IF given = NotSet THEN inherited ELSE given

Switches(defaults, overrides) ==
  /\ overrides["backend"] # NotSet /\ defaults["backend"] # NotSet
  /\ overrides["backend"] # defaults["backend"]

\* Mutant: a control of the old backend survives the switch to another.
LeakyProfile(defaults, overrides) ==
  [k \in ProfileKeys |-> Or(overrides[k], defaults[k])]

resolveSubagentProfile(defaults, overrides) ==
  [k \in ProfileKeys |->
     IF Switches(defaults, overrides) /\ k \in Scoped THEN overrides[k]
     ELSE Or(overrides[k], defaults[k])]

(* Neither layer is Unreadable. *)
loadSubagentConfig ==
  LET below == IF user = Absent THEN Nothing ELSE user
  IN  IF project = Absent THEN below ELSE resolveSubagentProfile(below, project)

LayerOf(file) == IF file = Absent THEN <<>> ELSE <<file>>
Layers == LayerOf(user) \o LayerOf(project)

validateSubagentProfile(p) ==
  /\ p["contextWindow"] # NotSet => p["backend"] = "qoder"
  /\ p["effort"] # NotSet => p["backend"] # "gemini"

parseWorkflowScript(s) == s # "broken"

validateArgsAgainstInputSchema(s, a) == a \in Accepts[s]

isResumableStatus(s) == s \in {"completed", "stopped"}

(* A running manifest whose runner is gone reads as orphaned. *)
liveStatus(r) == IF r.status = "running" /\ r.proc = "gone" THEN "orphaned" ELSE r.status

clearableCap(cap) == IF cap = Zero THEN NotSet ELSE cap
-----------------------------------------------------------------------------
StartInit ==
  /\ \E f \in Files : user = f[1] /\ project = f[2] /\ script = f[3]
  /\ edits = 0
  /\ runs = <<>>
  /\ pc = [c \in Calls |-> "idle"]
  /\ plan = [c \in Calls |-> <<>>]
  /\ mine = [c \in Calls |-> 0]
  /\ exited = [c \in Calls |-> FALSE]
  /\ answer = [c \in Calls |-> "none"]

(* What a new run is: the contents of its directory, and -- for the        *)
(* properties -- the layers of settings it comes from and what its caller  *)
(* asked for.                                                              *)
Run(source, args, profile, budget, cap, from, layers, asked) ==
  [script |-> source, args |-> args, profile |-> profile, budget |-> budget, cap |-> cap,
   from |-> from, layers |-> layers, asked |-> asked,
   status |-> "created", bound |-> FALSE, proc |-> "none"]

Answer(c, what) ==
  /\ pc' = [pc EXCEPT ![c] = "done"]
  /\ answer' = [answer EXCEPT ![c] = what]

Refuse(c) ==
  /\ Answer(c, "refused")
  /\ UNCHANGED <<runs, plan, mine, exited>>

(* createRunDir and the spawn of launchRunner, in one tick. *)
Create(c, fresh) ==
  /\ mine' = [mine EXCEPT ![c] = Len(runs) + 1]
  /\ \/ /\ runs' = Append(runs, [fresh EXCEPT !.proc = "spawned"])
        /\ pc' = [pc EXCEPT ![c] = "launching"]
        /\ UNCHANGED answer
     \/ /\ runs' = Append(runs, fresh)
        /\ Answer(c, "not spawned")
  /\ UNCHANGED <<plan, exited>>

-----------------------------------------------------------------------------
(* The calls.                                                              *)

Startable(fresh) ==
  /\ fresh.profile["backend"] \in Implemented
  /\ validateSubagentProfile(fresh.profile)
  /\ parseWorkflowScript(fresh.script)
  /\ validateArgsAgainstInputSchema(fresh.script, fresh.args)

Readable == Unreadable \notin {user, project}

(* Args and caps default to null and none. *)
FreshRun(ask) ==
  Run(script, IF ask.args = NotSet THEN "null" ELSE ask.args,
      resolveSubagentProfile(loadSubagentConfig, ask.overrides),
      ask.budget, clearableCap(ask.cap), 0, Append(Layers, ask.overrides), ask)

(* runCommand: everything is read and checked in one tick; without --yes   *)
(* the plan is shown and the answer awaited.  A dry run touches no store   *)
(* and is left out; a call from inside a worker is refused at once.        *)
runCommand(c) ==
  /\ pc[c] = "idle"
  /\ \E ask \in Asks, insideWorker \in BOOLEAN :
       LET fresh == FreshRun(ask)
       IN  \/ /\ insideWorker \/ ~Readable \/ ~Startable(fresh)
              /\ Refuse(c)
           \/ /\ ~insideWorker /\ Readable /\ Startable(fresh)
              /\ Create(c, fresh)
           \/ /\ ~insideWorker /\ Readable /\ Startable(fresh)
              /\ plan' = [plan EXCEPT ![c] = fresh]
              /\ pc' = [pc EXCEPT ![c] = "asking"]
              /\ UNCHANGED <<runs, mine, exited, answer>>
  /\ UNCHANGED fileVars

\* Mutant: the script is read again when the run directory is written.
RereadAfterReview(c) == [plan[c] EXCEPT !.script = script]

Reviewed(c) == plan[c]

(* The user's answer to `Run this workflow?` *)
Review(c) ==
  /\ pc[c] = "asking"
  /\ Create(c, Reviewed(c)) \/ Refuse(c)
  /\ UNCHANGED fileVars

(* What a resumed run takes from the one before it. *)
ResumedRun(r, ask, source, budget, cap) ==
  Run(source, Or(ask.args, runs[r].args), resolveSubagentProfile(runs[r].profile, ask.overrides),
      budget, cap, r, Append(runs[r].layers, ask.overrides), ask)

(* reapOrphans over the whole store. *)
Reaped == [r \in DOMAIN runs |-> [runs[r] EXCEPT !.status = liveStatus(runs[r])]]

\* Mutant: the args of the prior run are trusted with the edited script.
ResumableWithoutArgs(fresh) ==
  fresh.profile["backend"] \in Implemented /\ validateSubagentProfile(fresh.profile) /\ parseWorkflowScript(fresh.script)

Resumable(fresh) == Startable(fresh)

(* resumeCommand: no flag for a budget or a cap; orphans are finalized     *)
(* first, which leaves this one in a state that refuses the resume.        *)
resumeCommand(c) ==
  /\ pc[c] = "idle"
  /\ \E r \in DOMAIN runs, ask \in Asks : \E source \in {script, runs[r].script} :
       /\ ask.budget = NotSet /\ ask.cap = NotSet
       /\ LET fresh == ResumedRun(r, ask, source, runs[r].budget, runs[r].cap)
          IN  \/ /\ liveStatus(runs[r]) = "orphaned"
                 /\ runs' = Reaped
                 /\ Answer(c, "refused")
                 /\ UNCHANGED <<plan, mine, exited>>
              \/ /\ liveStatus(runs[r]) # "orphaned"
                 /\ ~isResumableStatus(liveStatus(runs[r])) \/ ~Resumable(fresh)
                 /\ Refuse(c)
              \/ /\ isResumableStatus(liveStatus(runs[r])) /\ Resumable(fresh)
                 /\ Create(c, fresh)
  /\ UNCHANGED fileVars

CapOr(given, inherited) == IF given = NotSet THEN inherited ELSE clearableCap(given)

(* workflow_start on a fresh script: no prompt. *)
startFresh(c) ==
  /\ pc[c] = "idle"
  /\ \E ask \in Asks :
       LET fresh == FreshRun(ask)
       IN  IF Readable /\ Startable(fresh) THEN Create(c, fresh) ELSE Refuse(c)
  /\ UNCHANGED fileVars

(* workflow_start with resumeFromRunId: the configuration files are not    *)
(* read and orphans not reaped.  The tool passes a budget of null when the *)
(* caller gave none.                                                       *)
startResumed(c) ==
  /\ pc[c] = "idle"
  /\ \E r \in DOMAIN runs, ask \in Asks : \E source \in {script, runs[r].script} :
       LET fresh == ResumedRun(r, ask, source, ask.budget, CapOr(ask.cap, runs[r].cap))
       IN  IF isResumableStatus(liveStatus(runs[r])) /\ Resumable(fresh) THEN Create(c, fresh) ELSE Refuse(c)
  /\ UNCHANGED fileVars
-----------------------------------------------------------------------------
(* launchRunner.                                                           *)

(* The exit event is delivered while the poll sleeps. *)
ExitEvent(c) ==
  /\ pc[c] = "launching" /\ ~exited[c]
  /\ runs[mine[c]].proc = "gone"
  /\ exited' = [exited EXCEPT ![c] = TRUE]
  /\ UNCHANGED <<fileVars, runs, pc, plan, mine, answer>>

Bound(r) == r.status # "created" /\ r.bound

\* Mutant: the exit flag is looked at before the manifest.
VerdictExitFirst(r, gone) == IF gone THEN "exited" ELSE IF Bound(r) THEN "started" ELSE "waiting"

Verdict(r, gone) == IF Bound(r) THEN "started" ELSE IF gone THEN "exited" ELSE "waiting"

(* One turn of the poll; past the deadline a waiting caller gives up.      *)
Poll(c) ==
  /\ pc[c] = "launching"
  /\ LET verdict == Verdict(runs[mine[c]], exited[c])
     IN  Answer(c, IF verdict = "waiting" THEN "late" ELSE verdict)
  /\ UNCHANGED <<fileVars, runs, plan, mine, exited>>

(* The caller dies at the prompt.  Its death while it polls is, for        *)
(* everybody else, the late answer.                                        *)
CallerDies(c) ==
  /\ pc[c] = "asking"
  /\ Answer(c, "died")
  /\ UNCHANGED <<fileVars, runs, plan, mine, exited>>
-----------------------------------------------------------------------------
(* Everybody else.                                                         *)

Becomes(r, status, bound, proc) ==
  /\ runs' = [runs EXCEPT ![r].status = status, ![r].bound = bound, ![r].proc = proc]
  /\ UNCHANGED <<fileVars, callVars>>

(* runnerMain looks at the prior run again before its first flush. *)
Bind(r) ==
  /\ runs[r].proc = "spawned"
  /\ runs[r].from # 0 => isResumableStatus(runs[runs[r].from].status)
  /\ Becomes(r, "running", TRUE, "running")

RunnerRejects(r) ==
  /\ runs[r].proc = "spawned"
  /\ Becomes(r, runs[r].status, runs[r].bound, "gone")

RunnerEnds(r) ==
  /\ runs[r].proc = "running"
  /\ \E status \in {"completed", "cleanup-failed", "running"} : Becomes(r, status, TRUE, "gone")

(* A stop that finds a manifest no runner has bound. *)
StopUnbound(r) ==
  /\ runs[r].status = "created"
  /\ Becomes(r, "stopped", FALSE, runs[r].proc)

(* An edit some call may still notice. *)
Edit ==
  /\ edits < MaxEdits
  /\ \E c \in Calls : pc[c] \in {"idle", "asking"}
  /\ edits' = edits + 1
  /\ \/ /\ user' \in {Absent, Unreadable} \cup Settings
        /\ UNCHANGED <<project, script>>
     \/ /\ project' \in {Absent, Unreadable} \cup Settings
        /\ UNCHANGED <<user, script>>
     \/ /\ script' \in Scripts
        /\ UNCHANGED <<user, project>>
  /\ UNCHANGED <<runs, callVars>>

StartNext ==
  \/ \E c \in Calls :
       \/ runCommand(c) \/ Review(c) \/ resumeCommand(c) \/ startFresh(c) \/ startResumed(c)
       \/ ExitEvent(c) \/ Poll(c) \/ CallerDies(c)
  \/ \E r \in DOMAIN runs : Bind(r) \/ RunnerRejects(r) \/ RunnerEnds(r) \/ StopUnbound(r)
  \/ Edit

StartSpec == StartInit /\ [][StartNext]_startVars
-----------------------------------------------------------------------------
(* The backend in force after the first n layers.                          *)
BackendAfter(layers, n) ==
  LET given == {i \in 1..n : layers[i]["backend"] # NotSet}
  IN  IF given = {} THEN NotSet ELSE layers[Max(given)]["backend"]

(* A control belongs to the backend it was last set under or for: the last *)
(* explicit value counts unless a later layer names another backend.       *)
LastExplicit(layers, k) ==
  LET given == {i \in DOMAIN layers : layers[i][k] # NotSet}
      Lost(i) == \E j \in i + 1 .. Len(layers) :
                   /\ layers[j]["backend"] # NotSet
                   /\ BackendAfter(layers, j - 1) \notin {NotSet, layers[j]["backend"]}
  IN  IF given = {} \/ (k \in Scoped /\ Lost(Max(given))) THEN NotSet ELSE layers[Max(given)][k]

(* The run and those it was resumed from. *)
Lineage[r \in DOMAIN runs] ==
  IF runs[r].from = 0 THEN {r} ELSE {r} \cup Lineage[runs[r].from]

CapInForce(r) ==
  LET given == {i \in Lineage[r] : runs[i].asked.cap # NotSet}
  IN  IF given = {} THEN NotSet ELSE clearableCap(runs[Max(given)].asked.cap)

(* Along a chain of resumes, each setting is the last one given explicitly *)
(* by a layer or a caller, whatever was edited since the first start: a    *)
(* resume never reads the configuration files, never falls back to a       *)
(* default and never carries a control to another backend.                 *)
SettingsAreLastExplicit ==
  \A r \in DOMAIN runs :
    /\ \A k \in ProfileKeys : runs[r].profile[k] = LastExplicit(runs[r].layers, k)
    /\ runs[r].cap = CapInForce(r)

(* Whatever combination of edited script, inherited args and overridden    *)
(* backend a call ends in, a run directory is only created for a run its   *)
(* runner can start.                                                       *)
EveryRunStartable == \A r \in DOMAIN runs : Startable(runs[r])

(* The run a user said yes to is the run that was shown, although files    *)
(* changed while the question was open.                                    *)
ReviewedIsWhatRuns ==
  \A c \in Calls : plan[c] # <<>> /\ mine[c] # 0 =>
    LET fresh == runs[mine[c]]
    IN  fresh.script = plan[c].script /\ fresh.profile = plan[c].profile /\ fresh.cap = plan[c].cap

(* A caller told that the runner exited before it started has a run that   *)
(* never ran and never will, however fast the runner came and went; one    *)
(* told that it started has a run bound by its own runner.                 *)
LaunchAnswerTrue ==
  \A c \in Calls :
    /\ answer[c] = "exited" => runs[mine[c]].proc = "gone" /\ ~runs[mine[c]].bound
    /\ answer[c] = "started" => runs[mine[c]].bound

(* exec/start.ts: a resume overrides only what the caller supplied and     *)
(* never resets the budget to unlimited.                                   *)
ResumeKeepsBudget ==
  \A r \in DOMAIN runs : runs[r].from # 0 =>
    runs[r].budget = Or(runs[r].asked.budget, runs[runs[r].from].budget)
=============================================================================
