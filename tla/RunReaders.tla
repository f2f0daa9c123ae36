------------------------------- MODULE RunReaders -------------------------------
(***************************************************************************)
(* The event log of a run and everybody who tails it (store/events.ts,      *)
(* cli/lifecycle.ts logs, cli/watch.ts, mcp/server.ts workflow_status).     *)
(*                                                                          *)
(* The runner appends events and then writes a terminal manifest; readers   *)
(* are other processes, so every read of the log, of the manifest and of    *)
(* the runner's pid is a step of its own.  The log is a sequence of cells:  *)
(* a "part" cell is a stretch of a line that has no newline yet, any other  *)
(* cell ends a line and carries the kind of its event.                      *)
(***************************************************************************)
EXTENDS Naturals, SequencesExt

CONSTANTS
  Sessions,    \* the calls that follow the run, from a terminal or from a host
  Scenes,      \* bound: who follows the run and how, the cells the runner appends,
               \* and EVENT_PAGE_BYTES in cells
  Growth,      \* MAX_LINE_GROWTH_FACTOR
  TailLines,   \* TAIL_LINES kept by a hold
  MaxHolds,    \* MAX_HOLDS_PER_RUN
  LateJumps    \* jumps a terminal hold may make past its deadline

ASSUME ReadersAssumption ==
  /\ Growth \in {1, 2, 4}        \* the source's, or fewer of its doublings
  /\ TailLines \in Nat \ {0}
  /\ MaxHolds \in Nat \ {0} /\ LateJumps \in Nat

Kinds == {"line", "phase", "tick"}      \* a tick renders to nothing
Rendered == {"line", "phase"}
HoldModes == {"activity", "phase", "terminal"}
Modes == HoldModes \cup {"logs", "watch"}

ASSUME ScenesAssumption ==
  Scenes \subseteq [follows : [Sessions -> SUBSET Modes], cells : Nat, page : Nat \ {0}]

VARIABLES
  scene,       \* the scene played
  log,         \* events.jsonl
  manifest,    \* the status in manifest.json
  alive,       \* the runner process exists
  session,     \* what each client is doing
  holds,       \* activeHolds of the run: the registered holds, oldest first
  preempted    \* the registered holds that were told to make room

vars == <<scene, log, manifest, alive, session, holds, preempted>>

-----------------------------------------------------------------------------
(* Lines of the log *)

Page == scene.page

NewlinesIn(a, b) == {i \in (a + 1)..b : log[i] \in Kinds}

LineStart(i) == 1 + Max({0} \cup NewlinesIn(0, i - 1))

\* A line longer than the growth cap is never delivered to any reader.
Overlong(i) == i + 1 - LineStart(i) > Page * Growth

Intact(a, b) == {i \in NewlinesIn(a, b) : LineStart(i) > a /\ ~Overlong(i)}

Windows(rest) == {Min({rest, Page * f}) : f \in {1, 2, 4} \cap 1..Growth}

\* Mutant: a page without a newline is given up at once.
HopelessAtPage(window) == window >= Page

\* No newline within the growth cap: the bytes are skipped.
Hopeless(window) == window >= Page * Growth

\* readEventsFrom: the smallest window that ends the search for a newline.
ReadPage(offset) ==
  LET size == Len(log)
      rest == size - offset
      done == {w \in Windows(rest) : \/ NewlinesIn(offset, offset + w) # {}
                                     \/ offset + w >= size
                                     \/ w >= Page * Growth}
      window == IF done = {} THEN Max(Windows(rest)) ELSE Min(done)
      ends   == NewlinesIn(offset, offset + window)
      more   == offset + window < size
  IN IF size <= offset THEN [lines |-> {}, next |-> offset, more |-> FALSE]
     ELSE IF ends = {}
     THEN IF Hopeless(window)
          THEN [lines |-> {}, next |-> offset + window, more |-> more]
          ELSE [lines |-> {}, next |-> offset, more |-> FALSE]
     ELSE [lines |-> {i \in ends : offset = 0 \/ log[offset] # "part" \/ i # Min(ends)},
           next |-> Max(ends), more |-> more]

-----------------------------------------------------------------------------
Idle == [mode |-> "none", at |-> "out", from |-> 0, offset |-> 0, shown |-> {},
         tail |-> <<>>, jumped |-> FALSE, late |-> 0, due |-> FALSE,
         aborted |-> FALSE, saw |-> "none", answer |-> "none"]

Init ==
  /\ scene \in Scenes
  /\ log = <<>> /\ manifest = "running" /\ alive = TRUE
  /\ session = [s \in Sessions |-> Idle]
  /\ holds = <<>> /\ preempted = {}

Terminal(status) == status # "running"

Registered == ToSet(holds)

Live == Registered \ preempted

-----------------------------------------------------------------------------
(* The runner *)

\* EventWriter.write, observed while the line is still being written.
Write(cell) ==
  /\ alive /\ manifest = "running" /\ Len(log) < scene.cells
  /\ log' = Append(log, cell)
  /\ UNCHANGED <<scene, manifest, alive, session, holds, preempted>>

\* The runner's last write to the manifest: every event has been written.
Finish ==
  /\ alive /\ manifest = "running"
  /\ (log # <<>> => Last(log) \in Kinds)
  /\ manifest' = "completed"
  /\ UNCHANGED <<scene, log, alive, session, holds, preempted>>

\* The process exits, or is killed in the middle of anything.
Die ==
  /\ alive /\ alive' = FALSE
  /\ UNCHANGED <<scene, log, manifest, session, holds, preempted>>

\* list --reap
Reap ==
  /\ ~alive /\ manifest = "running"
  /\ manifest' = "orphaned"
  /\ UNCHANGED <<scene, log, alive, session, holds, preempted>>

-----------------------------------------------------------------------------
(* Clients *)

\* The oldest of these holds.
Oldest(queue, of) == queue[Min({i \in DOMAIN queue : queue[i] \in of})]

\* Mutant: the room is counted before the newcomer joins.
RegistrationNewestOut(s) ==
  /\ holds' = Append(holds, s)
  /\ preempted' = IF Cardinality(Live) > MaxHolds THEN preempted \cup {Oldest(holds, Live)} ELSE preempted

\* A new hold registers itself and, in the same breath, marks the oldest hold
\* that was not marked yet when there are too many.
Registration(s) ==
  LET joined == Append(holds, s)
      live   == ToSet(joined) \ preempted
  IN /\ holds' = joined
     /\ preempted' = IF Cardinality(live) > MaxHolds
                     THEN preempted \cup {Oldest(joined, live)} ELSE preempted

\* A hold begins at a cursor an earlier answer gave its host, or at the top.
Open(s, mode, from) ==
  /\ session[s] = Idle /\ mode \in scene.follows[s]
  /\ from \in {0} \cup IF mode \in HoldModes THEN NewlinesIn(0, Len(log)) ELSE {}
  /\ session' = [session EXCEPT ![s] =
       [Idle EXCEPT !.mode = mode, !.from = from, !.offset = from,
                    !.at = IF mode \in HoldModes THEN "manifest" ELSE "page"]]
  /\ IF mode \in HoldModes THEN Registration(s) ELSE UNCHANGED <<holds, preempted>>
  /\ UNCHANGED <<scene, log, manifest, alive>>

\* waitSeconds runs out, or the host cancels the call.
Hurry(s, field) ==
  /\ session[s].mode \in HoldModes /\ session[s].at # "out" /\ ~session[s][field]
  /\ session' = [session EXCEPT ![s][field] = TRUE]
  /\ UNCHANGED <<scene, log, manifest, alive, holds, preempted>>

\* q, ctrl-d, or ctrl-c of a watcher: the viewer goes, the run is left alone.
Detach(s) ==
  /\ session[s].mode \in {"logs", "watch"} /\ session[s].at # "out"
  /\ session' = [session EXCEPT ![s].at = "out", ![s].answer = "detached"]
  /\ UNCHANGED <<scene, log, manifest, alive, holds, preempted>>

-----------------------------------------------------------------------------
(* The steps of a reader *)

\* liveStatus: a manifest that is not terminal makes the reader probe the pid;
\* logs --follow looks at the manifest only.
ReadManifest(s) ==
  /\ session[s].at = "manifest"
  /\ session' = [session EXCEPT
       ![s].saw = manifest,
       ![s].at = CASE session[s].mode = "logs" -> IF Terminal(manifest) THEN "out" ELSE "page"
                   [] Terminal(manifest) -> IF session[s].mode = "watch" THEN "drain" ELSE "page"
                   [] OTHER -> "probe",
       ![s].answer = IF session[s].mode = "logs" /\ Terminal(manifest) THEN manifest ELSE @]
  /\ UNCHANGED <<scene, log, manifest, alive, holds, preempted>>

ProbeRunner(s) ==
  /\ session[s].at = "probe"
  /\ session' = [session EXCEPT
       ![s].saw = IF alive THEN "running" ELSE "orphaned",
       ![s].at = IF session[s].mode = "watch" /\ ~alive THEN "drain" ELSE "page"]
  /\ UNCHANGED <<scene, log, manifest, alive, holds, preempted>>

\* logs and watch: print the page, then look at the run.  A clipped page of logs
\* is followed by the next one; watch looks at the run after each.
ShowPage(s) ==
  LET page == ReadPage(session[s].offset)
  IN /\ session[s].mode \in {"logs", "watch"} /\ session[s].at = "page"
     /\ session' = [session EXCEPT
          ![s].offset = page.next, ![s].shown = @ \cup page.lines,
          ![s].at = IF page.more /\ session[s].mode = "logs" THEN "page" ELSE "manifest"]
     /\ UNCHANGED <<scene, log, manifest, alive, holds, preempted>>

\* watch drains what is left once the run is seen to be over.
\* Mutant: the panel closes on the events it has already folded.
DrainEnds(page) == ~page.more
DrainLinesNone(page) == {}
DrainLines(page) == page.lines

Drain(s) ==
  LET page == ReadPage(session[s].offset)
  IN /\ session[s].at = "drain"
     /\ session' = [session EXCEPT
          ![s].offset = page.next, ![s].shown = @ \cup DrainLines(page),
          ![s].at = IF DrainEnds(page) THEN "out" ELSE "drain",
          ![s].answer = IF DrainEnds(page) THEN session[s].saw ELSE @]
     /\ UNCHANGED <<scene, log, manifest, alive, holds, preempted>>

Release(s) ==
  /\ holds' = RemoveAt(holds, Min({i \in DOMAIN holds : holds[i] = s}))
  /\ preempted' = preempted \ {s}

\* An aborted or preempted hold answers before it reads another page.
HardExit(s) ==
  /\ session[s].mode \in HoldModes /\ session[s].at = "page"
  /\ session[s].aborted \/ s \in preempted
  /\ session' = [session EXCEPT ![s].at = "out", ![s].answer = "hard exit"]
  /\ Release(s)
  /\ UNCHANGED <<scene, log, manifest, alive>>

LastOf(seq, n) == SubSeq(seq, Max({1, Len(seq) - n + 1}), Len(seq))

InOrder(lines) == SetToSortSeq(lines, <)

\* Mutant: a dense page rolls its own phase boundary off.
KeepNewestOnly(page, phaseHit) ==
  LastOf(InOrder({i \in page.lines : log[i] \in Rendered}), TailLines)

\* The tail a page leaves: its last lines, the newest phase boundary among them.
Keep(page, phaseHit) ==
  LET fresh  == InOrder({i \in page.lines : log[i] \in Rendered})
      kept   == LastOf(fresh, TailLines)
      newest == Max({i \in page.lines : log[i] = "phase"})
  IN IF phaseHit /\ newest \notin ToSet(kept) THEN <<newest>> \o Tail(kept) ELSE kept

\* Mutant: past the deadline a terminal hold answers from the middle of the log.
JumpsBeforeDeadline(s, page) ==
  session[s].mode = "terminal" /\ page.more /\ ~session[s].due

\* A terminal hold skips a backlog: it wakes on the end of the run only.
Jumps(s, page) ==
  /\ session[s].mode = "terminal" /\ page.more
  /\ ~session[s].due \/ session[s].late < LateJumps

\* A phase boundary wakes a phase hold wherever its cursor is.
PhaseHit(s, page) == session[s].mode = "phase" /\ \E i \in page.lines : log[i] = "phase"

\* One turn of the hold: read a page, roll it into the tail, wake or go on.
\* stale: the manifest says running and its heartbeat is too old.
HoldPage(s, stale) ==
  LET page     == ReadPage(session[s].offset)
      terminal == Terminal(session[s].saw)
      phaseHit == PhaseHit(s, page)
      tail     == LastOf(session[s].tail \o Keep(page, phaseHit), TailLines)
      land     == Max({page.next, Max({0, Len(log) - Page})})
      wake     == \/ terminal \/ stale \/ session[s].due
                  \/ IF session[s].mode = "activity"
                     THEN \E i \in page.lines : log[i] \in Rendered ELSE phaseHit
      read     == [session[s] EXCEPT !.offset = page.next, !.shown = @ \cup page.lines,
                                     !.tail = tail]
  IN /\ session[s].mode \in HoldModes /\ session[s].at = "page"
     /\ ~session[s].aborted /\ s \notin preempted
     /\ stale => ~terminal
     /\ \/ /\ Jumps(s, page)
           /\ session' = [session EXCEPT ![s] =
                [read EXCEPT !.offset = land, !.at = "manifest",
                             !.tail = IF land > page.next THEN <<>> ELSE tail,
                             !.jumped = @ \/ land > page.next,
                             !.late = IF session[s].due THEN @ + 1 ELSE @]]
           /\ UNCHANGED <<holds, preempted>>
        \/ /\ ~Jumps(s, page) /\ wake
           /\ session' = [session EXCEPT ![s] =
                [read EXCEPT !.at = "out",
                             !.answer = CASE terminal -> "terminal" [] phaseHit -> "phase"
                                          [] OTHER -> "woken"]]
           /\ Release(s)
        \/ /\ ~Jumps(s, page) /\ ~wake
           /\ session' = [session EXCEPT ![s] = [read EXCEPT !.at = "manifest"]]
           /\ UNCHANGED <<holds, preempted>>
     /\ UNCHANGED <<scene, log, manifest, alive>>

-----------------------------------------------------------------------------
Advance(s) ==
  \/ ReadManifest(s) \/ ProbeRunner(s) \/ ShowPage(s) \/ Drain(s) \/ HardExit(s)
  \/ \E stale \in BOOLEAN : HoldPage(s, stale)

Next ==
  \/ \E cell \in Kinds \cup {"part"} : Write(cell)
  \/ Finish \/ Die \/ Reap
  \/ \E s \in Sessions :
       \/ \E mode \in Modes : \E from \in 0..Len(log) : Open(s, mode, from)
       \/ Hurry(s, "due") \/ Hurry(s, "aborted") \/ Detach(s)
       \/ Advance(s)

Spec == Init /\ [][Next]_vars

-----------------------------------------------------------------------------
(* Properties *)

\* No reader loses, repeats or invents an event: what a session has been given is
\* exactly the whole lines between where it began and its cursor, lines longer
\* than the growth cap excepted, whatever was torn or clipped on the way.  (A
\* terminal hold may jump, and promises the end of the log only.)
CursorHonest ==
  \A s \in Sessions : LET c == session[s] IN
    c.mode # "none" /\ ~c.jumped /\ (c.from = 0 \/ log[c.from] # "part")
      => c.shown = Intact(c.from, c.offset)

\* A watcher that saw the run end has shown every event the run wrote.
WatchShowsTheEnd ==
  \A s \in Sessions :
    session[s].mode = "watch" /\ session[s].at = "out" /\ session[s].answer # "detached"
      => session[s].shown = Intact(0, Len(log))

\* The answer that reports the end of a run carries the run's real last line,
\* when that line lies in the last page of the log and the jumps were not used up
\* by a runner that appends a page for every page read.
TerminalTailIsReal ==
  \A s \in Sessions :
    LET ends == {i \in Intact(session[s].from, Len(log)) : log[i] \in Rendered}
    IN /\ session[s].mode = "terminal" /\ session[s].answer = "terminal"
       /\ session[s].late < LateJumps
       /\ ends # {} /\ LineStart(Max(ends)) > Len(log) - Page
       => session[s].tail # <<>> /\ Last(session[s].tail) = Max(ends)

\* No phase hold ever sleeps through a milestone: a boundary behind its cursor has
\* ended the call, and the answer shows the newest one.
NoPhaseSlept ==
  \A s \in Sessions : LET c == session[s]
                          crossed == {i \in c.shown : log[i] = "phase"} IN
    c.mode = "phase" /\ crossed # {}
      => c.at = "out" /\ Max(crossed) \in ToSet(c.tail)

\* The cap is hard and nothing leaks: the registered holds are exactly the calls in
\* progress, and at most MaxHolds of them have not been told to leave.
HoldsAccounted ==
  /\ Registered = {s \in Sessions : session[s].mode \in HoldModes /\ session[s].at # "out"}
  /\ Len(holds) = Cardinality(Registered) /\ preempted \subseteq Registered
  /\ Cardinality(Live) <= MaxHolds

\* main.ts says of logs --follow "keep tailing until terminal": once it returns, it
\* has printed every event the run wrote.
FollowShowsTheEnd ==
  \A s \in Sessions :
    session[s].mode = "logs" /\ session[s].at = "out" /\ session[s].answer # "detached"
      => session[s].shown = Intact(0, Len(log))
=============================================================================
