------------------------------- MODULE Nesting -------------------------------
(***************************************************************************)
(* workflow() called by a workflow: executeWorkflow (src/src/engine/run.ts) *)
(* of the run and, inline and one level deep, of its children               *)
(* (src/src/engine/child.ts), with what each flow keeps of its own: an      *)
(* abort controller that listens to the flow above, the HostState that      *)
(* becomes its output, and a script that need not await what it started.    *)
(* Permits, numbers and budget, which all flows share, are in Dispatch; a   *)
(* queued call may pass the gate at any time here.                          *)
(*                                                                         *)
(* A script is anything that calls agent() and workflow() and ends.  Once   *)
(* the run's own script has ended its report is written and the model ends. *)
(***************************************************************************)
EXTENDS Naturals, FiniteSets

CONSTANTS
  Calls,     \* agent() calls the flows may make
  Children   \* workflow() calls the run may make

Run == "run"
Flows == {Run} \cup Children

VARIABLES
  stopped,   \* abort.signal.aborted of the runner
  script,    \* how far executeWorkflow of each flow is
  heard,     \* flows whose own abort controller has fired
  tied,      \* flows whose controller still listens to the flow above
  call,      \* each agent() call: the flow that made it and where it is suspended
  state,     \* HostState of each flow: calls made, agents failed, worktrees kept
  output,    \* RunOutput of each flow; Nothing until its script has ended
  group      \* the child's group in the event stream: none, open or closed

nestingVars == <<stopped, script, heard, tied, call, state, output, group>>

Uncalled == [by |-> Run, at |-> "uncalled"]
Fresh == [made |-> {}, failures |-> {}, workspaces |-> {}]
Nothing == [made |-> {"nothing"}, failures |-> {}, workspaces |-> {}]

NestingInit ==
  /\ stopped = FALSE
  /\ script = [f \in Flows |-> IF f = Run THEN "running" ELSE "absent"]
  /\ heard = {}
  /\ tied = {Run}
  /\ call = [a \in Calls |-> Uncalled]
  /\ state = [f \in Flows |-> Fresh]
  /\ output = [f \in Flows |-> Nothing]
  /\ group = [c \in Children |-> "none"]

FlowEnded(f) == script[f] \in {"returned", "threw"}

(* Promise chains that a script did not await go on when it has ended.     *)
Acting(f) == script[Run] = "running" /\ (script[f] = "running" \/ FlowEnded(f))

-----------------------------------------------------------------------------
(* agent(), as one of the flows sees it                                     *)

(* The head of agentFn: it counts, and waits in line.                       *)
CallAgent(a, f) ==
  /\ Acting(f)
  /\ call[a] = Uncalled
  /\ f \notin heard
  /\ call' = [call EXCEPT ![a] = [by |-> f, at |-> "queued"]]
  /\ state' = [state EXCEPT ![f].made = @ \cup {a}]
  /\ UNCHANGED <<stopped, script, heard, tied, output, group>>

Moves(a, from, to) ==
  /\ script[Run] = "running"
  /\ call[a].at = from
  /\ call' = [call EXCEPT ![a].at = to]
  /\ UNCHANGED <<stopped, script, heard, tied, output, group>>

(* Behind the semaphore the flow's own signal is asked.                     *)
Gate(a) ==
  /\ IF call[a].by \in heard THEN Moves(a, "queued", "over") ELSE Moves(a, "queued", "running")
  /\ UNCHANGED state

(* The worker settles.  A failure is noted, not when the flow was stopped.  *)
SettleCall(a, ok) ==
  /\ Moves(a, "running", "finalizing")
  /\ state' = IF ok \/ call[a].by \in heard THEN state
              ELSE [state EXCEPT ![call[a].by].failures = @ \cup {a}]

(* The finally of agentFn: a worktree with changes is kept and noted.       *)
FinalizeCall(a, kept) ==
  /\ Moves(a, "finalizing", "over")
  /\ state' = IF kept THEN [state EXCEPT ![call[a].by].workspaces = @ \cup {a}] ELSE state

-----------------------------------------------------------------------------
(* workflow()                                                               *)

(* runChild first awaits the import of child.js.                            *)
CallChild(c) ==
  /\ Acting(Run)
  /\ script[c] = "absent"
  /\ script' = [script EXCEPT ![c] = "loading"]
  /\ UNCHANGED <<stopped, heard, tied, call, state, output, group>>

(* The name has no source, or the source does not parse: in the second     *)
(* case the group was opened already, and is closed.                        *)
Refused(c, announced) ==
  /\ Acting(Run)
  /\ script[c] = "loading"
  /\ script' = [script EXCEPT ![c] = "refused"]
  /\ group' = IF announced THEN [group EXCEPT ![c] = "closed"] ELSE group
  /\ UNCHANGED <<stopped, heard, tied, call, state, output>>

(* Mutant: listens, but does not ask whether the signal has fired already.  *)
ListensOnly(c) == heard' = heard /\ tied' = tied \cup {c}

(* executeWorkflow ties its controller to the signal above, which may have *)
(* fired while child.js was being loaded.                                   *)
Listens(c) ==
  IF Run \in heard THEN heard' = heard \cup {c} /\ tied' = tied
                   ELSE heard' = heard /\ tied' = tied \cup {c}

EnterChild(c) ==
  /\ Acting(Run)
  /\ script[c] = "loading"
  /\ script' = [script EXCEPT ![c] = "running"]
  /\ group' = [group EXCEPT ![c] = "open"]
  /\ Listens(c)
  /\ UNCHANGED <<stopped, call, state, output>>

(* workflowFn adds what the child reports to the flow that called it.       *)
Merged(above, child) ==
  [made |-> above.made \cup child.made,
   failures |-> above.failures \cup child.failures,
   workspaces |-> above.workspaces \cup child.workspaces]

(* A script ends, well or badly, whatever it left un-awaited: its output is *)
(* taken and its controller listens no longer.  A child that threw makes    *)
(* workflow() throw, before anything of it is merged.                       *)
EndScript(f, ok) ==
  /\ script[Run] = "running"
  /\ script[f] = "running"
  /\ script' = [script EXCEPT ![f] = IF ok THEN "returned" ELSE "threw"]
  /\ output' = [output EXCEPT ![f] = state[f]]
  /\ tied' = tied \ {f}
  /\ state' = IF f # Run /\ ok THEN [state EXCEPT ![Run] = Merged(@, state[f])] ELSE state
  /\ group' = IF f # Run THEN [group EXCEPT ![f] = "closed"] ELSE group
  /\ UNCHANGED <<stopped, heard, call>>

(* The runner's signal, and with it that of each flow that listens.         *)
Stop ==
  /\ ~stopped
  /\ stopped' = TRUE
  /\ heard' = IF Run \in tied THEN heard \cup tied ELSE heard
  /\ UNCHANGED <<script, tied, call, state, output, group>>

NestingNext ==
  \/ \E a \in Calls :
       \/ \E f \in Flows : CallAgent(a, f)
       \/ Gate(a)
       \/ \E yes \in BOOLEAN : SettleCall(a, yes) \/ FinalizeCall(a, yes)
  \/ \E c \in Children : CallChild(c) \/ EnterChild(c) \/ \E announced \in BOOLEAN : Refused(c, announced)
  \/ \E f \in Flows, ok \in BOOLEAN : EndScript(f, ok)
  \/ Stop

NestingSpec == NestingInit /\ [][NestingNext]_nestingVars

-----------------------------------------------------------------------------
(* A stop reaches every flow whose script is under way: no call of it gets  *)
(* a worker any more, also when the stop came while the child was being     *)
(* loaded or after its siblings had ended (run.ts:85).                      *)
StopReachesScripts ==
  [][\A a \in Calls :
       stopped /\ call[a].at = "queued" /\ call'[a].at = "running" => FlowEnded(call[a].by)]_nestingVars

(* The claim of child.ts:3 that a child shares the abort signal: after a    *)
(* stop no call at all gets a worker.                                       *)
NoStartAfterStop ==
  [][\A a \in Calls : ~(stopped /\ call[a].at = "queued" /\ call'[a].at = "running")]_nestingVars

(* The claim of hostapi.ts:637 and of invoking.md:50 that every agent error *)
(* lands in the report, and what worktrees were kept with it: what a child  *)
(* reported when it ended is in the report of the run.                      *)
DiagnosticsReachRun ==
  FlowEnded(Run) =>
    \A c \in Children : output[c] # Nothing =>
      /\ output[c].made \subseteq output[Run].made
      /\ output[c].failures \subseteq output[Run].failures
      /\ output[c].workspaces \subseteq output[Run].workspaces
=============================================================================
