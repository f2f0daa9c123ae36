---------------------------- MODULE SuitesProofs ----------------------------
(***************************************************************************)
(* What is proved of the two suites whose agents live in containers.        *)
(*                                                                          *)
(* SwebenchSessions: after a drift no other session opens its gate, and no    *)
(* session that an abort overlapped is recorded as one that succeeded.  The   *)
(* lock of the attestation has one holder among the workers that attest or    *)
(* launch; once a drift is found nobody starts or attests, and the abort is   *)
(* raised or about to be.  What the daemon holds of an execution is what its  *)
(* books and its one worker answer for, so that a session starts on artifacts *)
(* nothing mounts any more and a terminal task has nothing left beside it.    *)
(*                                                                          *)
(* SwebenchEval: a verdict that counts was given on the very patch the run    *)
(* holds.  What the arm under evaluation has on disk stays what was submitted *)
(* until its receipt is published, and a redo clears patches whose verdicts   *)
(* are gone already.                                                          *)
(*                                                                          *)
(* MarathonRun: at most one Harbor process works on a task and a bound result *)
(* is final.  Whatever runs is in the books of an invocation that is not      *)
(* settled, and a command has nothing running ahead of it.                    *)
(***************************************************************************)
EXTENDS SwebenchSessions, SwebenchEval, MarathonRun, FiniteSetTheorems,
        WellFoundedInduction, TLAPS

-----------------------------------------------------------------------------
(* SwebenchSessions *)

\* The stages before a worker of the pool has a session.
Resetting == {"image", "prior", "priorHelp", "reset"}
\* The stages of the launch and of the checks, between taking the lock and passing it on.
Attesting == {"create", "start", "attest", "check"}
\* The stages from the place in line to the end of the cleanup.
InSession == {"line", "create", "start", "attest", "wait", "line2", "check", "caught", "back",
              "backing", "cleanup", "cleaning", "accept"}
\* The stages in which the result of the session is recorded.
Settling == {"record", "recording", "catch", "noting"}
\* A worker at one of these has an execution of its own.
Active == Resetting \cup InSession \cup Settling
\* The ways a worker ends.
AtRest == {"over", "unsafe", "threw"}
\* The stages in which a session that an abort overlapped may still be terminal.
Rejecting == {"record", "catch", "noting", "threw"}

\* All stages of a worker.
WorkerStages == {"idle"} \cup Active \cup AtRest
\* What a session may have failed with.
Errors == {"none", "transport", "other", "unsafe"}
\* The state of a worker.
WorkerStates == [at : WorkerStages, e : Exec, err : Errors]
\* What is on disk of an execution.
Statuses == {"none", "pending", "done"}
\* What the run state has of its last attempt.
AttemptResults == {"none", "ok", "failed"}

\* Types of the variables the proof looks at.
SessionTypes ==
  /\ size \in Exec
  /\ w \in [Workers -> WorkerStates]
  /\ line \in Seq(Workers)
  /\ status \in [Exec -> Statuses]
  /\ attempt \in [Exec -> AttemptResults]
  /\ fatal \in BOOLEAN /\ driftFound \in BOOLEAN
  /\ crossed \subseteq Exec
  /\ next \in Nat \ {0}

\* Whoever launches or attests holds the lock.
LockHeld == \A i \in Workers : w[i].at \in Attesting => Holds(i)

\* Once the drift is found nobody starts or attests a container, and the run is aborted or
\* is about to be.
DriftKnown ==
  driftFound =>
    /\ \A i \in Workers : w[i].at \notin {"start", "attest"}
    /\ fatal \/ \E i \in Workers : w[i].at = "caught"

\* An error of the transport comes with the abort, but for one that is still being thrown.
TransportIsFatal ==
  \A i \in Workers : w[i].err = "transport" /\ w[i].at # "caught" => fatal

\* Each execution has one worker at most, below the shared cursor.
OneWorkerEach ==
  /\ \A i \in Workers : w[i].at \in Active => w[i].e < next
  /\ \A i, j \in Workers : w[i].at \in Active /\ w[j].at \in Active /\ w[i].e = w[j].e => i = j

\* What a worker in state r may find as the status v and the attempt a of its execution.
Fits(r, v, a) ==
  /\ r.at \in Resetting \cup InSession => v # "done"
  /\ r.at \in {"record", "recording"} => v = "done"
  /\ r.at = "catch" /\ r.err = "unsafe" => v # "done"
  /\ r.at \in Active => a # "ok"

\* An execution under way is not terminal, and one recorded as succeeded is.
ResultsFit ==
  /\ \A i \in Workers : Fits(w[i], status[w[i].e], attempt[w[i].e])
  /\ \A e \in Exec : attempt[e] = "ok" => status[e] = "done"

\* A session that overlapped the abort and is terminal has been recorded as failed, or has a
\* worker that will do so or died of it.
CrossedIsRejected ==
  /\ crossed # {} => fatal
  /\ \A i \in Workers : w[i].at = "recording" => w[i].e \notin crossed
  /\ \A e \in crossed :
       /\ attempt[e] # "ok"
       /\ status[e] = "done" => attempt[e] = "failed"
            \/ \E i \in Workers : w[i].e = e /\ w[i].at \in Rejecting

\* After the pool has settled no worker does anything.
AllAtRest == cmd \in {"retry", "settle", "exit", "runtime"} => \A i \in Workers : w[i].at \in AtRest

\* The inductive invariant of the sessions.
SessionInv ==
  SessionTypes /\ LockHeld /\ DriftKnown /\ TransportIsFatal /\ OneWorkerEach /\ ResultsFit
    /\ CrossedIsRejected /\ AllAtRest

\* How a worker that keeps its execution moves.
LEMMA GoesIs ==
  ASSUME w \in [Workers -> WorkerStates], NEW i \in Workers, NEW s, Goes(i, s)
  PROVE  w' = [w EXCEPT ![i] = [at |-> s, e |-> w[i].e, err |-> w[i].err]]
<1>1. w[i] \in WorkerStates
  OBVIOUS
<1>2. [w[i] EXCEPT !.at = s] = [at |-> s, e |-> w[i].e, err |-> w[i].err]
  BY <1>1 DEF WorkerStates
<1>3. w' = [w EXCEPT ![i] = [w[i] EXCEPT !.at = s]]
  BY DEF Goes
<1> QED
  BY <1>2, <1>3

\* The same for a worker that meets an error.
LEMMA ErrsIs ==
  ASSUME w \in [Workers -> WorkerStates], NEW i \in Workers, NEW s, NEW x, Errs(i, s, x)
  PROVE  w' = [w EXCEPT ![i] = [at |-> s, e |-> w[i].e, err |-> x]]
<1>1. w[i] \in WorkerStates
  OBVIOUS
<1>2. [[w[i] EXCEPT !.at = s] EXCEPT !.err = x] = [at |-> s, e |-> w[i].e, err |-> x]
  <2>1. [w[i] EXCEPT !.at = s] = [at |-> s, e |-> w[i].e, err |-> w[i].err]
    BY <1>1 DEF WorkerStates
  <2>2. [[at |-> s, e |-> w[i].e, err |-> w[i].err] EXCEPT !.err = x]
        = [at |-> s, e |-> w[i].e, err |-> x]
    OBVIOUS
  <2> QED
    BY <2>1, <2>2
<1>3. w' = [w EXCEPT ![i] = [[w[i] EXCEPT !.at = s] EXCEPT !.err = x]]
  BY DEF Errs
<1> QED
  BY <1>2, <1>3

\* The same for a worker that leaves its execution.
LEMMA EndsIs ==
  ASSUME NEW i \in Workers, NEW s, Ends(i, s)
  PROVE  w' = [w EXCEPT ![i] = [at |-> s, e |-> 1, err |-> "none"]]
<1>1. [Idle EXCEPT !.at = s] = [at |-> s, e |-> 1, err |-> "none"]
  BY DEF Idle
<1> QED
  BY <1>1 DEF Ends

\* The same for a worker that dies of an error.
LEMMA ThrowsIs ==
  ASSUME w \in [Workers -> WorkerStates], NEW i \in Workers, Throws(i)
  PROVE  w' = [w EXCEPT ![i] = [at |-> "threw", e |-> w[i].e, err |-> "none"]]
<1>1. Errs(i, "threw", "none")
  BY DEF Throws, Errs
<1> QED
  BY <1>1, ErrsIs

\* The lock has one holder.
LEMMA OneHolder == \A i, j \in Workers : Holds(i) /\ Holds(j) => i = j
BY DEF Holds

\* A worker that goes to stage s may hold the lock, stand in line for it or pass it on.
Queues(i, s) ==
  \/ UNCHANGED line /\ (s \in Attesting => Holds(i))
  \/ line' = Append(line, i) /\ s \notin Attesting
  \/ line' = Tail(line) /\ Holds(i) /\ s \notin Attesting

\* One worker takes a step and may write the status and the attempt of its own execution:
\* what the step must respect, whatever it says of an abort.
LEMMA WorkerStands ==
  ASSUME SessionInv, NEW i \in Workers, NEW r \in WorkerStates, NEW v \in Statuses,
         NEW a \in AttemptResults,
         w' = [w EXCEPT ![i] = r], status' = [status EXCEPT ![w[i].e] = v],
         attempt' = [attempt EXCEPT ![w[i].e] = a], UNCHANGED <<size, cmd, next>>,
         fatal' \in BOOLEAN, driftFound' \in BOOLEAN, crossed' \subseteq Exec,
         w[i].at \in Active, r.at \in Active => r.e = w[i].e, Queues(i, r.at),
         r.at \in Active => Fits(r, v, a), a = "ok" => v = "done"
  PROVE  SessionTypes' /\ LockHeld' /\ OneWorkerEach' /\ ResultsFit' /\ AllAtRest'
<1>t. /\ w \in [Workers -> WorkerStates] /\ line \in Seq(Workers)
      /\ status \in [Exec -> Statuses] /\ attempt \in [Exec -> AttemptResults]
  BY DEF SessionInv, SessionTypes
<1>e. w[i].e \in Exec /\ \A j \in Workers : w[j].e \in Exec
  BY <1>t DEF WorkerStates
<1>2. w'[i] = r
  BY <1>t
<1>3. \A j \in Workers : j # i => w'[j] = w[j]
  BY <1>t
<1>s. status'[w[i].e] = v /\ \A e \in Exec : e # w[i].e => status'[e] = status[e]
  BY <1>t, <1>e
<1>a. attempt'[w[i].e] = a /\ \A e \in Exec : e # w[i].e => attempt'[e] = attempt[e]
  BY <1>t, <1>e
<1>o. \A j \in Workers : j # i /\ w[j].at \in Active => w[j].e # w[i].e
  BY DEF SessionInv, OneWorkerEach
<1>4. SessionTypes'
  <2>1. line' \in Seq(Workers)
    <3>1. Append(line, i) \in Seq(Workers)
      BY <1>t
    <3>2. Holds(i) => Tail(line) \in Seq(Workers)
      BY <1>t DEF Holds
    <3> QED
      BY <1>t, <3>1, <3>2 DEF Queues
  <2>2. w' \in [Workers -> WorkerStates]
    BY <1>t
  <2>3. status' \in [Exec -> Statuses] /\ attempt' \in [Exec -> AttemptResults]
    BY <1>t, <1>e
  <2> QED
    BY <2>1, <2>2, <2>3 DEF SessionInv, SessionTypes
<1>5. LockHeld'
  <2>1. ASSUME NEW j \in Workers, w'[j].at \in Attesting PROVE Holds(j)'
    <3>1. Holds(j) \/ j = i
      BY <1>3, <2>1 DEF SessionInv, LockHeld
    <3>2. CASE UNCHANGED line /\ (r.at \in Attesting => Holds(i))
      BY <1>2, <2>1, <3>1, <3>2 DEF Holds
    <3>3. CASE line' = Append(line, i) /\ r.at \notin Attesting
      BY <1>t, <1>2, <2>1, <3>1, <3>3 DEF Holds
    <3>4. CASE line' = Tail(line) /\ Holds(i) /\ r.at \notin Attesting
      BY <1>2, <2>1, <3>1, <3>4, OneHolder
    <3> QED
      BY <3>2, <3>3, <3>4 DEF Queues
  <2> QED
    BY <2>1 DEF LockHeld
<1>8. OneWorkerEach'
  BY <1>2, <1>3 DEF SessionInv, OneWorkerEach
<1>9. ResultsFit'
  <2>1. ASSUME NEW j \in Workers PROVE Fits(w'[j], status'[w'[j].e], attempt'[w'[j].e])
    <3>1. CASE w'[j].at \notin Active
      BY <3>1 DEF Fits, Active, Settling
    <3>2. CASE j = i /\ r.at \in Active
      BY <1>2, <1>s, <1>a, <3>2
    <3>3. CASE j # i /\ w'[j].at \in Active
      <4>1. w'[j] = w[j] /\ status'[w[j].e] = status[w[j].e] /\ attempt'[w[j].e] = attempt[w[j].e]
        BY <1>3, <1>e, <1>s, <1>a, <1>o, <3>3
      <4>2. Fits(w[j], status[w[j].e], attempt[w[j].e])
        BY DEF SessionInv, ResultsFit
      <4> QED
        BY <4>1, <4>2
    <3> QED
      BY <1>2, <3>1, <3>2, <3>3
  <2>2. \A e \in Exec : attempt'[e] = "ok" => status'[e] = "done"
    BY <1>s, <1>a DEF SessionInv, ResultsFit
  <2> QED
    BY <2>1, <2>2 DEF ResultsFit
<1>11. AllAtRest'
  BY DEF SessionInv, AllAtRest, Active, AtRest, Resetting, InSession, Settling
<1> QED
  BY <1>4, <1>5, <1>8, <1>9, <1>11

\* The same for a step that is no abort: it may raise a drift, and what it does with a session
\* that overlapped an abort is not to record it as succeeded.
LEMMA WorkerBecomes ==
  ASSUME SessionInv, NEW i \in Workers, NEW r \in WorkerStates, NEW v \in Statuses,
         NEW a \in AttemptResults,
         w' = [w EXCEPT ![i] = r], status' = [status EXCEPT ![w[i].e] = v],
         attempt' = [attempt EXCEPT ![w[i].e] = a],
         UNCHANGED <<size, cmd, next, fatal, crossed>>,
         driftFound' = driftFound \/ (driftFound' = TRUE /\ r.at = "caught" /\ Holds(i)),
         w[i].at \in Active, r.at \in Active => r.e = w[i].e, Queues(i, r.at),
         r.at \in Active => Fits(r, v, a), a = "ok" => v = "done",
         w[i].at = "caught" => fatal,
         r.at \in {"start", "attest"} => ~driftFound,
         r.err = "transport" /\ r.at # "caught" => fatal,
         r.at = "recording" => w[i].e \notin crossed,
         w[i].e \in crossed => a # "ok" /\ (v = "done" =>
           a = "failed" \/ (r.e = w[i].e /\ r.at \in Rejecting))
  PROVE  SessionInv'
<1>t. /\ w \in [Workers -> WorkerStates] /\ status \in [Exec -> Statuses]
      /\ attempt \in [Exec -> AttemptResults] /\ crossed \subseteq Exec
      /\ fatal \in BOOLEAN /\ driftFound \in BOOLEAN
  BY DEF SessionInv, SessionTypes
<1>e. w[i].e \in Exec
  BY <1>t DEF WorkerStates
<1>1. SessionTypes' /\ LockHeld' /\ OneWorkerEach' /\ ResultsFit' /\ AllAtRest'
  BY <1>t, WorkerStands
<1>2. w'[i] = r
  BY <1>t
<1>3. \A j \in Workers : j # i => w'[j] = w[j]
  BY <1>t
<1>4. DriftKnown'
  <2> SUFFICES ASSUME driftFound'
               PROVE  /\ \A j \in Workers : w'[j].at \notin {"start", "attest"}
                      /\ fatal \/ \E j \in Workers : w'[j].at = "caught"
    BY DEF DriftKnown
  <2>1. CASE driftFound
    <3>1. /\ \A j \in Workers : w[j].at \notin {"start", "attest"}
          /\ fatal \/ \E j \in Workers : w[j].at = "caught"
      BY <2>1 DEF SessionInv, DriftKnown
    <3> QED
      BY <1>2, <1>3, <2>1, <3>1
  <2>2. CASE ~driftFound
    <3>1. r.at = "caught" /\ Holds(i)
      BY <1>t, <2>2
    <3>2. \A j \in Workers : w[j].at \in {"start", "attest"} => j = i
      BY <3>1, OneHolder DEF SessionInv, LockHeld, Attesting
    <3> QED
      BY <1>2, <1>3, <3>1, <3>2
  <2> QED
    BY <2>1, <2>2
<1>5. TransportIsFatal'
  BY <1>2, <1>3 DEF SessionInv, TransportIsFatal
<1>6. CrossedIsRejected'
  <2>1. ASSUME NEW e \in crossed
        PROVE  /\ attempt'[e] # "ok"
               /\ status'[e] = "done" => attempt'[e] = "failed"
                    \/ \E j \in Workers : w'[j].e = e /\ w'[j].at \in Rejecting
    <3>1. CASE e = w[i].e
      <4>1. attempt'[e] = a /\ status'[e] = v
        BY <1>t, <1>e, <3>1
      <4> QED
        BY <1>2, <2>1, <3>1, <4>1
    <3>2. CASE e # w[i].e
      <4>1. attempt'[e] = attempt[e] /\ status'[e] = status[e]
        BY <1>t, <2>1, <3>2
      <4>2. attempt[e] # "ok" /\ (status[e] = "done" => attempt[e] = "failed"
              \/ \E j \in Workers : w[j].e = e /\ w[j].at \in Rejecting)
        BY <2>1 DEF SessionInv, CrossedIsRejected
      <4> QED
        BY <1>3, <3>2, <4>1, <4>2
    <3> QED
      BY <3>1, <3>2
  <2>2. \A j \in Workers : w'[j].at = "recording" => w'[j].e \notin crossed
    <3>1. r.at = "recording" => r.e = w[i].e
      BY DEF Active, Settling
    <3> QED
      BY <1>2, <1>3, <3>1 DEF SessionInv, CrossedIsRejected
  <2> QED
    BY <2>1, <2>2 DEF SessionInv, CrossedIsRejected
<1> QED
  BY <1>1, <1>4, <1>5, <1>6 DEF SessionInv

\* A step that the invariant does not look at.
LEMMA Unmoved ==
  ASSUME SessionInv, UNCHANGED <<size, cmd, next, status, attempt, fatal, crossed, driftFound, w,
                                 line>>
  PROVE  SessionInv'
BY DEF SessionInv, SessionTypes, LockHeld, DriftKnown, TransportIsFatal, OneWorkerEach,
       ResultsFit, CrossedIsRejected, AllAtRest, Holds

\* A step of a worker in the middle of its session, which writes nothing.
LEMMA SessionMoves ==
  ASSUME SessionInv, NEW i \in Workers,
         NEW s \in Resetting \cup InSession \cup {"catch"}, NEW x \in Errors,
         w' = [w EXCEPT ![i] = [at |-> s, e |-> w[i].e, err |-> x]],
         UNCHANGED <<size, cmd, next, status, attempt, fatal, crossed>>,
         driftFound' = driftFound \/ (driftFound' = TRUE /\ s = "caught" /\ Holds(i)),
         w[i].at \in Resetting \cup InSession, w[i].at = "caught" => fatal,
         Queues(i, s),
         s \in {"start", "attest"} => ~driftFound,
         x = "transport" /\ s # "caught" => fatal
  PROVE  SessionInv'
<1> DEFINE r == [at |-> s, e |-> w[i].e, err |-> x]
           v == status[w[i].e]
           a == attempt[w[i].e]
<1>t. /\ w \in [Workers -> WorkerStates] /\ status \in [Exec -> Statuses]
      /\ attempt \in [Exec -> AttemptResults]
  BY DEF SessionInv, SessionTypes
<1>e. w[i].e \in Exec
  BY <1>t DEF WorkerStates
<1>1. r \in WorkerStates
  BY <1>e DEF WorkerStates, WorkerStages, Active, Settling
<1>2. r.at = s /\ r.e = w[i].e /\ r.err = x
  OBVIOUS
<1>3. v \in Statuses /\ a \in AttemptResults
  BY <1>t, <1>e
<1>4. status' = [status EXCEPT ![w[i].e] = v] /\ attempt' = [attempt EXCEPT ![w[i].e] = a]
  BY <1>t, <1>e
<1>5. w[i].at \in Active
  BY DEF Active
<1>6. v # "done" /\ a # "ok"
  BY <1>5 DEF SessionInv, ResultsFit, Fits
<1>7. Fits(r, v, a) /\ s # "recording"
  BY <1>2, <1>6 DEF Fits, Resetting, InSession
<1>8. w' = [w EXCEPT ![i] = r]
  OBVIOUS
<1> HIDE DEF r, v, a
<1>9. /\ driftFound' = driftFound \/ (driftFound' = TRUE /\ r.at = "caught" /\ Holds(i))
      /\ Queues(i, r.at)
      /\ r.at \in {"start", "attest"} => ~driftFound
      /\ r.err = "transport" /\ r.at # "caught" => fatal
  BY <1>2
<1> QED
  BY <1>1, <1>2, <1>3, <1>4, <1>5, <1>6, <1>7, <1>8, <1>9, WorkerBecomes

\* The same for a worker that goes on with the error it has.
LEMMA SessionGoes ==
  ASSUME SessionInv, NEW i \in Workers, NEW s \in Resetting \cup InSession, Goes(i, s),
         UNCHANGED <<size, cmd, next, status, attempt, fatal, crossed, driftFound>>,
         w[i].at \in Resetting \cup InSession, w[i].at # "caught", s # "caught",
         Queues(i, s), s \in {"start", "attest"} => ~driftFound
  PROVE  SessionInv'
<1>1. w \in [Workers -> WorkerStates] /\ w[i].err \in Errors
  BY DEF SessionInv, SessionTypes, WorkerStates
<1>2. w[i].err = "transport" => fatal
  BY DEF SessionInv, TransportIsFatal
<1>3. w' = [w EXCEPT ![i] = [at |-> s, e |-> w[i].e, err |-> w[i].err]]
  BY <1>1, GoesIs
<1> QED
  BY <1>1, <1>2, <1>3, SessionMoves

\* The same for a worker whose session fails, under the lock or elsewhere.
LEMMA SessionErrs ==
  ASSUME SessionInv, NEW i \in Workers, NEW s \in {"cleanup", "catch"}, NEW x \in Errors,
         Errs(i, s, x), UNCHANGED <<size, cmd, next, status, attempt, fatal, crossed, driftFound>>,
         w[i].at \in Resetting \cup InSession, w[i].at # "caught",
         UNCHANGED line \/ (line' = Tail(line) /\ Holds(i)), x = "transport" => fatal
  PROVE  SessionInv'
<1>1. w' = [w EXCEPT ![i] = [at |-> s, e |-> w[i].e, err |-> x]]
  BY ErrsIs DEF SessionInv, SessionTypes
<1>2. Queues(i, s) /\ s \in Resetting \cup InSession \cup {"catch"}
      /\ s \notin {"start", "attest", "caught"}
  BY DEF Queues, Attesting, InSession
<1> QED
  BY <1>1, <1>2, SessionMoves

\* A drift is found by the holder of the lock.
LEMMA DriftsKeeps ==
  ASSUME SessionInv, NEW i \in Workers, Drifts(i),
         UNCHANGED <<size, cmd, next, status, attempt, fatal, crossed>>, w[i].at \in Attesting
  PROVE  SessionInv'
<1>1. w' = [w EXCEPT ![i] = [at |-> "caught", e |-> w[i].e, err |-> "transport"]]
  BY ErrsIs DEF SessionInv, SessionTypes, Drifts
<1>2. Holds(i) /\ w[i].at \in InSession /\ w[i].at # "caught"
  BY DEF SessionInv, LockHeld, Attesting, InSession
<1>3. Queues(i, "caught") /\ "caught" \in InSession /\ "transport" \in Errors
  BY <1>2 DEF Queues, Attesting, InSession, Errors, Drifts, Release
<1>4. driftFound' = driftFound \/ (driftFound' = TRUE /\ "caught" = "caught" /\ Holds(i))
  BY <1>2 DEF Drifts
<1> QED
  BY <1>1, <1>2, <1>3, <1>4, SessionMoves

\* An operation fails under the lock.
LEMMA FailsKeeps ==
  ASSUME SessionInv, NEW i \in Workers, FailsUnderLock(i),
         UNCHANGED <<size, cmd, next, status, attempt, fatal, crossed, driftFound>>,
         w[i].at \in Attesting
  PROVE  SessionInv'
<1>1. Holds(i) /\ w[i].at \in InSession /\ w[i].at # "caught" /\ "other" \in Errors
  BY DEF SessionInv, LockHeld, Attesting, InSession, Errors
<1> QED
  BY <1>1, SessionErrs DEF FailsUnderLock, Release

\* The steps of a worker before and under the lock.
LEMMA SessionLaunchKeeps ==
  ASSUME SessionInv, NEW i \in Workers,
         \/ Image(i) \/ Prior(i) \/ PriorHelp(i) \/ EnterLaunch(i) \/ CreateReturns(i) \/ Start(i)
         \/ Attest(i),
         size' = size
  PROVE  SessionInv'
<1>e. {"transport", "other", "unsafe"} \subseteq Errors
  BY DEF Errors
<1>1. CASE Image(i)
  <2>1. UNCHANGED <<cmd, next, status, attempt, fatal, crossed, driftFound, line>>
        /\ w[i].at = "image"
    BY <1>1 DEF Image, disk, ghosts, At
  <2>2. CASE \/ fatal /\ Errs(i, "catch", "transport")
             \/ Errs(i, "catch", "other")
    BY <1>e, <2>1, <2>2, SessionErrs DEF Resetting
  <2>3. CASE Goes(i, "prior")
    BY <2>1, <2>3, SessionGoes DEF Resetting, Attesting, Queues
  <2> QED
    BY <1>1, <2>2, <2>3 DEF Image
<1>2. CASE Prior(i)
  <2>1. UNCHANGED <<cmd, next, status, attempt, fatal, crossed, driftFound, line>>
        /\ w[i].at = "prior"
    BY <1>2 DEF Prior, disk, ghosts, At
  <2>2. ASSUME NEW s \in {"reset", "priorHelp"}, Goes(i, s) PROVE SessionInv'
    BY <2>1, <2>2, SessionGoes DEF Resetting, Attesting, Queues
  <2>3. CASE Errs(i, "catch", "unsafe")
    BY <1>e, <2>1, <2>3, SessionErrs DEF Resetting
  <2> QED
    BY <1>2, <2>2, <2>3 DEF Prior
<1>3. CASE PriorHelp(i)
  <2>1. UNCHANGED <<cmd, next, status, attempt, fatal, crossed, driftFound, line>>
        /\ w[i].at = "priorHelp"
    BY <1>3 DEF PriorHelp, disk, ghosts, At
  <2>2. CASE Goes(i, "reset")
    BY <2>1, <2>2, SessionGoes DEF Resetting, Attesting, Queues
  <2>3. CASE Errs(i, "catch", "unsafe")
    BY <1>e, <2>1, <2>3, SessionErrs DEF Resetting
  <2>4. CASE UNCHANGED w
    BY <2>1, <2>4, Unmoved
  <2> QED
    BY <1>3, <2>2, <2>3, <2>4 DEF PriorHelp
<1>4. CASE EnterLaunch(i)
  <2>1. UNCHANGED <<cmd, next, status, attempt, fatal, crossed, driftFound>> /\ w[i].at = "line"
        /\ Holds(i)
    BY <1>4 DEF EnterLaunch, disk, ghosts, At
  <2>2. CASE fatal /\ Errs(i, "cleanup", "transport") /\ Release
    BY <1>e, <2>1, <2>2, SessionErrs DEF InSession, Release
  <2>3. CASE Goes(i, "create") /\ UNCHANGED line
    BY <2>1, <2>3, SessionGoes DEF InSession, Queues
  <2> QED
    BY <1>4, <2>2, <2>3 DEF EnterLaunch
<1>5. CASE CreateReturns(i)
  <2>1. /\ UNCHANGED <<cmd, next, status, attempt, fatal, crossed>> /\ w[i].at = "create"
        /\ w[i].at \in Attesting /\ w[i].at \in InSession
        /\ \A j \in Workers : w[j].at # "caught"
    BY <1>5 DEF CreateReturns, disk, At, Quiet, Due, Attesting, InSession
  <2>2. CASE Launched(i) /\ UNCHANGED driftFound
    <3>1. Holds(i)
      BY <2>1 DEF SessionInv, LockHeld
    <3>2. CASE fatal /\ Errs(i, "cleanup", "transport") /\ Release
      BY <1>e, <2>1, <2>2, <3>1, <3>2, SessionErrs DEF Release
    <3>3. CASE ~fatal /\ Goes(i, "start") /\ UNCHANGED line
      <4>1. ~driftFound
        BY <2>1, <3>3 DEF SessionInv, DriftKnown
      <4>2. Queues(i, "start") /\ "start" \in InSession
        BY <3>1, <3>3 DEF Queues, InSession
      <4> QED
        BY <2>1, <2>2, <3>3, <4>1, <4>2, SessionGoes
    <3> QED
      BY <2>2, <3>2, <3>3 DEF Launched
  <2> QED
    BY <1>5, <2>1, <2>2, FailsKeeps, DriftsKeeps DEF CreateReturns
<1>6. CASE Start(i)
  <2>1. /\ UNCHANGED <<cmd, next, status, attempt, fatal, crossed>> /\ w[i].at = "start"
        /\ w[i].at \in Attesting /\ w[i].at \in InSession
    BY <1>6 DEF Start, disk, At, Attesting, InSession
  <2>2. CASE Goes(i, "attest") /\ UNCHANGED <<line, driftFound>>
    <3>1. Holds(i) /\ ~driftFound
      BY <2>1 DEF SessionInv, LockHeld, DriftKnown
    <3>2. Queues(i, "attest") /\ "attest" \in InSession
      BY <2>2, <3>1 DEF Queues, InSession
    <3> QED
      BY <2>1, <2>2, <3>1, <3>2, SessionGoes
  <2> QED
    BY <1>6, <2>1, <2>2, FailsKeeps, DriftsKeeps DEF Start
<1>7. CASE Attest(i)
  <2>1. /\ UNCHANGED <<cmd, next, status, attempt, fatal, crossed>> /\ w[i].at = "attest"
        /\ w[i].at \in Attesting /\ w[i].at \in InSession
    BY <1>7 DEF Attest, At, Attesting, InSession
  <2>2. CASE Goes(i, "wait") /\ Release /\ UNCHANGED driftFound
    <3>1. Holds(i)
      BY <2>1 DEF SessionInv, LockHeld
    <3>2. Queues(i, "wait") /\ "wait" \in InSession
      BY <2>2, <3>1 DEF Queues, InSession, Attesting, Release
    <3> QED
      BY <2>1, <2>2, <3>2, SessionGoes
  <2> QED
    BY <1>7, <2>1, <2>2, FailsKeeps, DriftsKeeps DEF Attest
<1> QED
  BY <1>1, <1>2, <1>3, <1>4, <1>5, <1>6, <1>7

\* How a cleanup may fail.
Failures == {"none", "other", "unsafe"}

\* How a worker that waits for a shared cleanup goes on.
LEMMA AfterwardsIs ==
  ASSUME NEW r \in WorkerStates, NEW f \in Failures
  PROVE  \E s \in {"cleanup", "accept", "catch"}, x \in Errors :
           /\ Afterwards(r, f) = [at |-> s, e |-> r.e, err |-> x]
           /\ x = IF f = "none" THEN r.err ELSE f
           /\ s = "accept" => f = "none"
           /\ s = "cleanup" <=> r.at \in {"back", "backing"}
<1> DEFINE x == IF f = "none" THEN r.err ELSE f
           s == IF r.at \in {"back", "backing"} THEN "cleanup"
                ELSE IF x = "none" THEN "accept" ELSE "catch"
<1>1. Afterwards(r, f) = [[r EXCEPT !.err = x] EXCEPT !.at = s]
  <2>1. r.at = [r EXCEPT !.err = x].at
    BY DEF WorkerStates
  <2> QED
    BY <2>1 DEF Afterwards
<1>2. x \in Errors
  BY DEF WorkerStates, Errors, Failures
<1>3. s \in {"cleanup", "accept", "catch"} /\ (s = "accept" => f = "none")
      /\ (s = "cleanup" <=> r.at \in {"back", "backing"})
  <2>1. f = "none" \/ x # "none"
    BY DEF Failures
  <2> QED
    BY <2>1
<1>4. x = IF f = "none" THEN r.err ELSE f
  OBVIOUS
<1> HIDE DEF x, s
<1>5. [[r EXCEPT !.err = x] EXCEPT !.at = s] = [at |-> s, e |-> r.e, err |-> x]
  <2>1. [r EXCEPT !.err = x] = [at |-> r.at, e |-> r.e, err |-> x]
    BY DEF WorkerStates
  <2>2. [[at |-> r.at, e |-> r.e, err |-> x] EXCEPT !.at = s] = [at |-> s, e |-> r.e, err |-> x]
    OBVIOUS
  <2> QED
    BY <2>1, <2>2
<1> QED
  BY <1>1, <1>2, <1>3, <1>4, <1>5

\* A worker goes on after a cleanup.
LEMMA AfterwardsKeeps ==
  ASSUME SessionInv, NEW i \in Workers, NEW f \in Failures,
         w' = [w EXCEPT ![i] = Afterwards(w[i], f)],
         w[i].at \in {"back", "backing", "cleanup", "cleaning"},
         UNCHANGED <<size, cmd, next, line, status, attempt, fatal, crossed, driftFound>>
  PROVE  SessionInv'
<1>1. w[i] \in WorkerStates
  BY DEF SessionInv, SessionTypes
<1>2. PICK s \in {"cleanup", "accept", "catch"}, x \in Errors :
        /\ Afterwards(w[i], f) = [at |-> s, e |-> w[i].e, err |-> x]
        /\ x = IF f = "none" THEN w[i].err ELSE f
  BY <1>1, AfterwardsIs
<1>3. w' = [w EXCEPT ![i] = [at |-> s, e |-> w[i].e, err |-> x]]
  BY <1>2
<1>4. w[i].at \in InSession /\ w[i].at # "caught"
  BY DEF InSession
<1>5. Queues(i, s) /\ s \notin {"start", "attest", "caught"}
      /\ s \in Resetting \cup InSession \cup {"catch"}
  BY DEF Queues, Attesting, InSession
<1>6. x = "transport" => fatal
  BY <1>2, <1>4 DEF SessionInv, TransportIsFatal, Failures
<1> QED
  BY <1>3, <1>4, <1>5, <1>6, SessionMoves

\* The steps of a worker between its gate and the result.
LEMMA AwaitKeeps ==
  ASSUME SessionInv, NEW i \in Workers,
         Wait(i) \/ EnterCheck(i) \/ Check(i) \/ BeginCleanup(i), size' = size
  PROVE  SessionInv'
<1>e. {"transport", "other", "unsafe"} \subseteq Errors
  BY DEF Errors
<1>1. CASE Wait(i)
  <2>1. UNCHANGED <<cmd, next, status, attempt, fatal, crossed, driftFound>> /\ w[i].at = "wait"
        /\ w[i].at \in InSession
    BY <1>1 DEF Wait, disk, ghosts, At, InSession
  <2>2. CASE ((fatal /\ Errs(i, "cleanup", "transport")) \/ Errs(i, "cleanup", "other"))
             /\ UNCHANGED line
    BY <1>e, <2>1, <2>2, SessionErrs
  <2>3. CASE Goes(i, "line2") /\ line' = Append(line, i)
    BY <2>1, <2>3, SessionGoes DEF Queues, Attesting, InSession
  <2>4. CASE Goes(i, "back") /\ UNCHANGED line
    BY <2>1, <2>4, SessionGoes DEF Queues, Attesting, InSession
  <2> QED
    BY <1>1, <2>2, <2>3, <2>4 DEF Wait
<1>2. CASE EnterCheck(i)
  <2>1. UNCHANGED <<cmd, next, status, attempt, fatal, crossed, driftFound>> /\ w[i].at = "line2"
        /\ Holds(i) /\ w[i].at \in InSession
    BY <1>2 DEF EnterCheck, disk, ghosts, At, InSession
  <2>2. CASE fatal /\ Errs(i, "cleanup", "transport") /\ Release
    BY <1>e, <2>1, <2>2, SessionErrs DEF Release
  <2>3. CASE Goes(i, "check") /\ UNCHANGED line
    BY <2>1, <2>3, SessionGoes DEF InSession, Queues
  <2> QED
    BY <1>2, <2>2, <2>3 DEF EnterCheck
<1>3. CASE Check(i)
  <2>1. /\ UNCHANGED <<cmd, next, status, attempt, fatal, crossed>> /\ w[i].at = "check"
        /\ w[i].at \in Attesting /\ w[i].at \in InSession
    BY <1>3 DEF Check, disk, At, Attesting, InSession
  <2>2. CASE Goes(i, "cleanup") /\ Release /\ UNCHANGED driftFound
    <3>1. Holds(i)
      BY <2>1 DEF SessionInv, LockHeld
    <3>2. Queues(i, "cleanup") /\ "cleanup" \in InSession
      BY <2>2, <3>1 DEF Queues, InSession, Attesting, Release
    <3> QED
      BY <2>1, <2>2, <3>2, SessionGoes
  <2> QED
    BY <1>3, <2>1, <2>2, FailsKeeps, DriftsKeeps DEF Check
<1>4. CASE BeginCleanup(i)
  <2>1. UNCHANGED <<cmd, next, status, attempt, fatal, crossed, driftFound, line>>
        /\ w[i].at \in {"back", "cleanup"}
    BY <1>4 DEF BeginCleanup, disk, ghosts, At
  <2>2. CASE w' = [w EXCEPT ![i] = Afterwards(@, "none")]
    BY <2>1, <2>2, AfterwardsKeeps DEF Failures
  <2>3. ASSUME NEW s \in {"backing", "cleaning"}, Goes(i, s) PROVE SessionInv'
    BY <2>1, <2>3, SessionGoes DEF Queues, Attesting, InSession
  <2> QED
    BY <1>4, <2>2, <2>3 DEF BeginCleanup
<1> QED
  BY <1>1, <1>2, <1>3, <1>4

\* A shared cleanup settles: the one worker that waits for it goes on.
LEMMA SettlesKeeps ==
  ASSUME SessionInv, NEW e \in Exec, NEW f \in Failures, Settles(e, f),
         UNCHANGED <<size, cmd, next, line, status, attempt, fatal, crossed, driftFound>>
  PROVE  SessionInv'
<1>t. w \in [Workers -> WorkerStates]
  BY DEF SessionInv, SessionTypes
<1>1. CASE Waiting(e) = {}
  <2>1. w' = w
    BY <1>t, <1>1 DEF Settles
  <2> QED
    BY <2>1, Unmoved
<1>2. CASE Waiting(e) # {}
  <2>1. PICK i \in Workers : i \in Waiting(e)
    BY <1>2 DEF Waiting
  <2>2. w[i].at \in {"backing", "cleaning"} /\ w[i].e = e
    BY <2>1 DEF Waiting
  <2>3. \A j \in Workers : j \in Waiting(e) => j = i
    <3>1. \A j \in Workers : j \in Waiting(e) => w[j].at \in Active /\ w[j].e = e
      BY DEF Waiting, Active, InSession
    <3> QED
      BY <2>1, <3>1 DEF SessionInv, OneWorkerEach
  <2>4. w' = [w EXCEPT ![i] = Afterwards(w[i], f)]
    BY <1>t, <2>1, <2>3 DEF Settles
  <2> QED
    BY <2>2, <2>4, AfterwardsKeeps
<1> QED
  BY <1>1, <1>2

\* The steps of a shared cleanup.
LEMMA CleanupKeeps ==
  ASSUME SessionInv, NEW e \in Exec, CleanupStep(e), size' = size
  PROVE  SessionInv'
<1>1. UNCHANGED <<cmd, next, line, status, attempt, fatal, crossed, driftFound>>
  BY DEF CleanupStep, CleanAwait, CleanStop, CleanHelp, CleanHelping, CleanRemove, disk, ghosts
<1>2. UNCHANGED w \/ \E f \in Failures : Settles(e, f)
  BY DEF CleanupStep, CleanAwait, CleanStop, CleanHelp, CleanHelping, CleanRemove, Steps, Failures
<1> QED
  BY <1>1, <1>2, Unmoved, SettlesKeeps

\* A worker without an execution to its name has no error either.
LEMMA EndedIs ==
  ASSUME NEW s \in {"idle"} \cup AtRest
  PROVE  /\ [at |-> s, e |-> 1, err |-> "none"] \in WorkerStates
         /\ s \notin Active /\ s \notin Attesting /\ s \notin {"start", "attest", "recording"}
<1>1. s \in WorkerStages /\ 1 \in Exec /\ "none" \in Errors
  BY SwebenchSessionsAssumption DEF WorkerStages, Errors, Exec
<1> QED
  BY <1>1 DEF WorkerStates, Active, AtRest, Resetting, InSession, Settling, Attesting

\* The steps of a worker that write a status or an attempt, and are no abort.
LEMMA ResultKeeps ==
  ASSUME SessionInv, NEW i \in Workers,
         Reset(i) \/ Accept(i) \/ Record(i) \/ Recorded(i) \/ Catch(i), size' = size
  PROVE  SessionInv'
<1> DEFINE me == w[i].e
<1>t. /\ w \in [Workers -> WorkerStates] /\ w[i].err \in Errors /\ me \in Exec
      /\ status \in [Exec -> Statuses] /\ attempt \in [Exec -> AttemptResults]
      /\ status[me] \in Statuses /\ attempt[me] \in AttemptResults
  BY DEF SessionInv, SessionTypes, WorkerStates
<1>u. /\ status = [status EXCEPT ![me] = status[me]]
      /\ attempt = [attempt EXCEPT ![me] = attempt[me]]
  BY <1>t
<1>c. /\ attempt[me] = "ok" => status[me] = "done"
      /\ me \in crossed => attempt[me] # "ok" /\ fatal
      /\ w[i].at = "recording" => me \notin crossed
      /\ w[i].err = "transport" /\ w[i].at # "caught" => fatal
      /\ Fits(w[i], status[me], attempt[me])
  BY <1>t DEF SessionInv, ResultsFit, CrossedIsRejected, TransportIsFatal
<1>s. {"line", "catch", "record", "recording", "noting", "threw"} \subseteq WorkerStages
      /\ {"transport", "other", "none"} \subseteq Errors /\ {"done", "pending"} \subseteq Statuses
      /\ "ok" \in AttemptResults
  BY DEF WorkerStages, Active, InSession, Settling, AtRest, Errors, Statuses, AttemptResults
<1>1. CASE Reset(i)
  <2>1. UNCHANGED <<cmd, next, fatal, attempt, crossed, driftFound>> /\ w[i].at = "reset"
        /\ w[i].at \in Active /\ w[i].at \in Resetting
    BY <1>1 DEF Reset, At, ghosts, disk, Active, Resetting
  <2>2. status[me] # "done" /\ attempt[me] # "ok"
    BY <1>c, <2>1 DEF Fits
  <2>3. ASSUME NEW s \in {"catch", "line"}, NEW x \in Errors, NEW v \in {status[me], "pending"},
               w' = [w EXCEPT ![i] = [at |-> s, e |-> me, err |-> x]],
               status' = [status EXCEPT ![me] = v],
               UNCHANGED line \/ line' = Append(line, i), x = "transport" => fatal
        PROVE  SessionInv'
    <3> DEFINE r == [at |-> s, e |-> me, err |-> x]
    <3>1. r \in WorkerStates /\ v \in Statuses
      BY <1>t, <1>s DEF WorkerStates
    <3>2. r.at = s /\ r.e = me /\ r.err = x /\ w' = [w EXCEPT ![i] = r]
      BY <2>3
    <3>3. v # "done"
      BY <2>2
    <3> HIDE DEF r
    <3>4. Fits(r, v, attempt[me]) /\ Queues(i, r.at)
      BY <2>2, <2>3, <3>2, <3>3 DEF Fits, Queues, Attesting
    <3> HIDE DEF me
    <3> QED
      BY <1>t, <1>u, <1>c, <2>1, <2>2, <2>3, <3>1, <3>2, <3>3, <3>4, WorkerBecomes DEF me
  <2>4. CASE fatal /\ Errs(i, "catch", "transport") /\ UNCHANGED <<disk, line>>
    BY <1>t, <1>u, <1>s, <2>3, <2>4, ErrsIs DEF disk
  <2>5. CASE Goes(i, "line") /\ line' = Append(line, i)
             /\ status' = [status EXCEPT ![me] = "pending"]
    BY <1>t, <1>c, <2>1, <2>3, <2>5, GoesIs
  <2>6. CASE Errs(i, "catch", "other") /\ UNCHANGED line
             /\ status' \in {status, [status EXCEPT ![me] = "pending"]}
    BY <1>t, <1>u, <1>s, <2>3, <2>6, ErrsIs
  <2> QED
    BY <1>1, <2>4, <2>5, <2>6 DEF Reset
<1>2. CASE Accept(i) \/ Record(i) \/ (Catch(i) /\ w[i].err # "unsafe")
  <2>1. UNCHANGED <<cmd, next, fatal, attempt, crossed, driftFound, line>>
        /\ w[i].at \in {"accept", "record", "catch"}
    BY <1>2 DEF Accept, Record, Catch, At, ghosts, disk
  <2>a. w[i].at \in Active
    BY <2>1 DEF Active, InSession, Settling
  <2>2. attempt[me] # "ok"
    BY <1>c, <2>a DEF Fits
  <2>3. ASSUME NEW s \in {"catch", "record", "recording", "noting"}, NEW x \in Errors,
               NEW v \in Statuses,
               w' = [w EXCEPT ![i] = [at |-> s, e |-> me, err |-> x]],
               status' = [status EXCEPT ![me] = v],
               x = "transport" => fatal,
               s \in {"record", "recording"} => v = "done",
               s = "recording" => ~fatal, s = "catch" => x # "unsafe"
        PROVE  SessionInv'
    <3> DEFINE r == [at |-> s, e |-> me, err |-> x]
    <3>1. r \in WorkerStates
      BY <1>t, <1>s, <2>3 DEF WorkerStates
    <3>2. r.at = s /\ r.e = me /\ r.err = x /\ w' = [w EXCEPT ![i] = r]
      BY <2>3
    <3> HIDE DEF r
    <3>4. Fits(r, v, attempt[me]) /\ Queues(i, r.at)
      BY <2>1, <2>2, <2>3, <3>2 DEF Fits, Queues, Attesting, Resetting, InSession
    <3>5. me \in crossed => r.at \in Rejecting
      BY <1>c, <2>3, <3>2 DEF Rejecting
    <3> HIDE DEF me
    <3> QED
      BY <1>t, <1>u, <1>c, <2>1, <2>a, <2>2, <2>3, <3>1, <3>2, <3>4, <3>5, WorkerBecomes DEF me
  <2>4. CASE Accept(i)
    <3>1. CASE status' = [status EXCEPT ![me] = "done"] /\ Goes(i, "record")
      BY <1>t, <1>c, <1>s, <2>1, <2>3, <3>1, GoesIs
    <3>2. CASE status' \in {status, [status EXCEPT ![me] = "done"]} /\ Errs(i, "catch", "other")
      BY <1>t, <1>u, <1>s, <2>3, <3>2, ErrsIs
    <3> QED
      BY <2>4, <3>1, <3>2 DEF Accept
  <2>5. CASE Record(i)
    <3>0. UNCHANGED status /\ status[me] = "done"
      BY <1>c, <2>5 DEF Record, disk, At, Fits
    <3>1. CASE fatal /\ Errs(i, "catch", "transport")
      BY <1>t, <1>u, <1>s, <2>3, <3>0, <3>1, ErrsIs
    <3>2. CASE ~fatal /\ Goes(i, "recording")
      BY <1>t, <1>u, <1>c, <2>1, <2>3, <3>0, <3>2, GoesIs
    <3> QED
      BY <2>5, <3>1, <3>2 DEF Record
  <2>6. CASE Catch(i) /\ w[i].err # "unsafe"
    <3>1. PICK v \in Noting(me) : status' = [status EXCEPT ![me] = v]
      BY <2>6 DEF Catch
    <3>2. v \in Statuses
      BY <1>t, <1>s, <3>1 DEF Noting
    <3>3. Goes(i, "noting")
      BY <2>6 DEF Catch
    <3> QED
      BY <1>t, <1>c, <2>1, <2>3, <3>1, <3>2, <3>3, GoesIs
  <2> QED
    BY <1>2, <2>4, <2>5, <2>6
<1>3. CASE Catch(i) /\ w[i].err = "unsafe"
  <2> DEFINE r == [at |-> "unsafe", e |-> 1, err |-> "none"]
  <2>1. UNCHANGED <<cmd, next, fatal, attempt, crossed, driftFound, line, status>>
        /\ w[i].at = "catch"
    BY <1>3 DEF Catch, At, ghosts, disk
  <2>2. w[i].at \in Active /\ "unsafe" \in {"idle"} \cup AtRest
    BY <2>1 DEF Active, Settling, AtRest
  <2>3. r \in WorkerStates /\ r.at = "unsafe" /\ r.err = "none" /\ w' = [w EXCEPT ![i] = r]
        /\ r.at \notin Active /\ r.at \notin Attesting
        /\ r.at \notin {"start", "attest", "recording"}
    BY <1>3, <2>2, EndedIs, EndsIs DEF Catch
  <2>4. status[me] # "done"
    BY <1>c, <1>3, <2>1 DEF Fits
  <2>5. Queues(i, r.at)
    BY <2>1, <2>3 DEF Queues
  <2> HIDE DEF r, me
  <2> QED
    BY <1>t, <1>u, <1>c, <2>1, <2>2, <2>3, <2>4, <2>5, WorkerBecomes DEF me
<1>4. CASE Recorded(i)
  <2>1. UNCHANGED <<cmd, next, fatal, crossed, driftFound, line, status>> /\ w[i].at = "recording"
    BY <1>4 DEF Recorded, At, ghosts
  <2>a. w[i].at \in Active
    BY <2>1 DEF Active, Settling
  <2>2. status[me] = "done" /\ me \notin crossed
    BY <1>c, <2>1 DEF Fits
  <2>3. ASSUME NEW r \in WorkerStates, NEW a \in AttemptResults, r.at \in {"idle", "threw"},
               r.err = "none", w' = [w EXCEPT ![i] = r], attempt' = [attempt EXCEPT ![me] = a]
        PROVE  SessionInv'
    <3>1. r.at \in {"idle"} \cup AtRest
      BY <2>3 DEF AtRest
    <3>2. /\ r.at \notin Active /\ r.at \notin Attesting
          /\ r.at \notin {"start", "attest", "recording"}
      BY <3>1, EndedIs
    <3>3. Queues(i, r.at)
      BY <2>1, <3>2 DEF Queues
    <3> HIDE DEF me
    <3> QED
      BY <1>t, <1>u, <1>c, <2>1, <2>a, <2>2, <2>3, <3>2, <3>3, WorkerBecomes DEF me
  <2>4. CASE attempt' = [attempt EXCEPT ![me] = "ok"] /\ Ends(i, "idle")
    BY <1>s, <2>3, <2>4, EndedIs, EndsIs
  <2>5. CASE attempt' \in {attempt, [attempt EXCEPT ![me] = "ok"]} /\ Throws(i)
    <3>1. [at |-> "threw", e |-> me, err |-> "none"] \in WorkerStates
      BY <1>t, <1>s DEF WorkerStates
    <3> QED
      BY <1>t, <1>u, <1>s, <2>3, <2>5, <3>1, ThrowsIs
  <2> QED
    BY <1>4, <2>4, <2>5 DEF Recorded
<1> QED
  BY <1>1, <1>2, <1>3, <1>4

\* What is under way has no terminal status, and no success is about to be recorded for it.
LEMMA UnderWayIsOpen ==
  ASSUME SessionInv
  PROVE  /\ UnderWay \subseteq Exec
         /\ \A e \in UnderWay : status[e] # "done" /\ attempt[e] # "ok"
         /\ \A j \in Workers : w[j].at = "recording" => w[j].e \notin UnderWay
<1>1. ASSUME NEW e \in UnderWay
      PROVE  \E i \in Workers : w[i].e = e /\ w[i].at \in InSession
  BY DEF UnderWay, InSession
<1>2. UnderWay \subseteq Exec
  BY <1>1 DEF SessionInv, SessionTypes, WorkerStates
<1>3. \A e \in UnderWay : status[e] # "done" /\ attempt[e] # "ok"
  BY <1>1 DEF SessionInv, ResultsFit, Fits, Active
<1>4. \A j \in Workers : w[j].at = "recording" => w[j].e \notin UnderWay
  BY <1>1 DEF SessionInv, OneWorkerEach, Active, InSession, Settling
<1> QED
  BY <1>2, <1>3, <1>4

\* A worker that may record that its session failed raises the abort.
LEMMA AbortKeeps ==
  ASSUME SessionInv, NEW i \in Workers, NEW r \in WorkerStates, w' = [w EXCEPT ![i] = r],
         attempt' = attempt \/ attempt' = [attempt EXCEPT ![w[i].e] = "failed"],
         UNCHANGED <<size, cmd, next, line, status, driftFound>>, ~fatal, Abort,
         w[i].at = "caught" => r.at = "cleanup" /\ r.e = w[i].e,
         w[i].at = "noting" => r.at = "over",
         w[i].at \in {"caught", "noting"}
  PROVE  SessionInv'
<1> DEFINE me == w[i].e
           v == status[me]
<1>t. /\ w \in [Workers -> WorkerStates] /\ me \in Exec
      /\ status \in [Exec -> Statuses] /\ attempt \in [Exec -> AttemptResults]
      /\ v \in Statuses /\ status' = [status EXCEPT ![me] = v]
  BY DEF SessionInv, SessionTypes, WorkerStates
<1>p. PICK a \in AttemptResults : /\ a = attempt[w[i].e] \/ a = "failed"
                            /\ attempt' = [attempt EXCEPT ![w[i].e] = a]
  BY <1>t DEF AttemptResults
<1>f. fatal' = TRUE /\ crossed' = UnderWay
  BY DEF Abort
<1>b. crossed' \subseteq Exec /\ driftFound' \in BOOLEAN
  BY <1>f, UnderWayIsOpen DEF SessionInv, SessionTypes
<1>a. w[i].at \in Active /\ r.at \notin Attesting
  BY DEF Active, InSession, Settling, Attesting
<1>x. attempt[me] # "ok" /\ a # "ok" /\ (w[i].at = "caught" => v # "done")
  BY <1>a, <1>p DEF SessionInv, ResultsFit, Fits, InSession
<1>y. r.at \in Active => r.e = me /\ Fits(r, v, a)
  BY <1>x DEF Fits, Active, AtRest, Resetting, InSession, Settling
<1>q. Queues(i, r.at)
  BY <1>a DEF Queues
<1>1. SessionTypes' /\ LockHeld' /\ OneWorkerEach' /\ ResultsFit' /\ AllAtRest'
  <2> HIDE DEF v
  <2>1. fatal' \in BOOLEAN
    BY <1>f
  <2> QED
    BY <1>t, <1>p, <1>b, <1>a, <1>x, <1>y, <1>q, <2>1, WorkerStands
<1>2. w'[i] = r /\ \A j \in Workers : j # i => w'[j] = w[j]
  BY <1>t
<1>3. DriftKnown'
  <2>1. r.at \notin {"start", "attest"}
    BY <1>a DEF Attesting
  <2> QED
    BY <1>f, <1>2, <2>1 DEF SessionInv, DriftKnown
<1>4. TransportIsFatal'
  BY <1>f DEF TransportIsFatal
<1>5. CrossedIsRejected'
  <2>1. \A e \in UnderWay : attempt'[e] # "ok" /\ status'[e] # "done"
    BY <1>t, <1>p, <1>x, UnderWayIsOpen
  <2>2. \A j \in Workers : w'[j].at = "recording" => w'[j].e \notin UnderWay
    BY <1>2, UnderWayIsOpen
  <2> QED
    BY <1>f, <2>1, <2>2 DEF CrossedIsRejected
<1> QED
  BY <1>1, <1>3, <1>4, <1>5 DEF SessionInv

\* The drift reaches the fatal controller.
LEMMA CaughtKeeps ==
  ASSUME SessionInv, NEW i \in Workers, Caught(i), size' = size
  PROVE  SessionInv'
<1>t. /\ w \in [Workers -> WorkerStates] /\ w[i].err \in Errors /\ w[i].e \in Exec
      /\ attempt \in [Exec -> AttemptResults]
  BY DEF SessionInv, SessionTypes, WorkerStates
<1>1. UNCHANGED <<cmd, next, line, status, attempt, driftFound>> /\ w[i].at = "caught"
  BY DEF Caught, At, disk
<1>2. w' = [w EXCEPT ![i] = [at |-> "cleanup", e |-> w[i].e, err |-> w[i].err]]
  BY <1>t, GoesIs DEF Caught
<1>3. CASE fatal
  <2>1. UNCHANGED <<fatal, crossed>>
    BY <1>3 DEF Caught, Abort, ghosts
  <2>2. /\ "cleanup" \in Resetting \cup InSession \cup {"catch"}
        /\ w[i].at \in Resetting \cup InSession /\ Queues(i, "cleanup")
    BY <1>1 DEF InSession, Queues, Attesting
  <2>3. driftFound' = driftFound \/ (driftFound' = TRUE /\ "cleanup" = "caught" /\ Holds(i))
    BY <1>1
  <2> QED
    BY <1>t, <1>1, <1>2, <1>3, <2>1, <2>2, <2>3, SessionMoves
<1>4. CASE ~fatal
  <2>1. PICK r \in WorkerStates : /\ r.at = "cleanup" /\ r.e = w[i].e
                                  /\ w' = [w EXCEPT ![i] = r]
    <3>1. [at |-> "cleanup", e |-> w[i].e, err |-> w[i].err] \in WorkerStates
      BY <1>t DEF WorkerStates, WorkerStages, Active, InSession
    <3> QED
      BY <1>2, <3>1
  <2>2. Abort
    BY DEF Caught
  <2> QED
    BY <1>1, <1>4, <2>1, <2>2, AbortKeeps
<1> QED
  BY <1>3, <1>4

\* The failure is recorded, and one of the transport aborts the run.
LEMMA NotedKeeps ==
  ASSUME SessionInv, NEW i \in Workers, Noted(i), size' = size
  PROVE  SessionInv'
<1> DEFINE me == w[i].e
           Failed == attempt' = [attempt EXCEPT ![me] = "failed"]
<1>t. /\ w \in [Workers -> WorkerStates] /\ me \in Exec
      /\ status \in [Exec -> Statuses] /\ attempt \in [Exec -> AttemptResults]
      /\ status[me] \in Statuses
  BY DEF SessionInv, SessionTypes, WorkerStates
<1>u. /\ status = [status EXCEPT ![me] = status[me]]
      /\ attempt = [attempt EXCEPT ![me] = attempt[me]]
  BY <1>t
<1>1. UNCHANGED <<cmd, next, line, status, driftFound>> /\ w[i].at = "noting"
      /\ w[i].at \in Active /\ w[i].at # "caught"
  BY DEF Noted, At, Active, Settling
<1>c. /\ attempt[me] # "ok" /\ attempt[me] \in AttemptResults
      /\ attempt' = attempt \/ Failed
  BY <1>t, <1>1 DEF SessionInv, ResultsFit, Fits, Noted
<1>2. ASSUME NEW s \in {"idle", "over", "threw"}, NEW r \in WorkerStates, r.at = s, r.err = "none",
             w' = [w EXCEPT ![i] = r], UNCHANGED <<fatal, crossed>>,
             Failed \/ (s = "threw" /\ r.e = me)
      PROVE  SessionInv'
  <2>1. PICK a \in {attempt[me], "failed"} : attempt' = [attempt EXCEPT ![me] = a]
             /\ (a = "failed" \/ (s = "threw" /\ r.e = me))
    BY <1>u, <1>c, <1>2
  <2>2. a \in AttemptResults /\ a # "ok"
    BY <1>c DEF AttemptResults
  <2>3. s \in {"idle"} \cup AtRest
    BY DEF AtRest
  <2>4. r.at \notin Active /\ r.at \notin Attesting /\ r.at \notin {"start", "attest", "recording"}
    BY <1>2, <2>3, EndedIs
  <2>5. Queues(i, r.at)
    BY <1>1, <2>4 DEF Queues
  <2>6. a = "failed" \/ (r.e = me /\ r.at \in Rejecting)
    BY <1>2, <2>1 DEF Rejecting
  <2> HIDE DEF me, Failed
  <2> QED
    BY <1>t, <1>u, <1>1, <1>2, <2>1, <2>2, <2>4, <2>5, <2>6, WorkerBecomes DEF me
<1>3. ASSUME NEW s \in {"idle", "over"}, Ends(i, s), UNCHANGED <<fatal, crossed>>, Failed
      PROVE  SessionInv'
  <2>1. s \in {"idle"} \cup AtRest
    BY DEF AtRest
  <2> QED
    BY <1>2, <1>3, <2>1, EndedIs, EndsIs
<1>4. ASSUME Throws(i), UNCHANGED <<fatal, crossed>> PROVE SessionInv'
  <2>1. [at |-> "threw", e |-> me, err |-> "none"] \in WorkerStates
    BY <1>t DEF WorkerStates, WorkerStages, AtRest, Errors
  <2> QED
    BY <1>t, <1>2, <1>4, <2>1, ThrowsIs
<1>5. ASSUME Ends(i, "over"), Failed, Abort PROVE SessionInv'
  <2>1. CASE fatal
    BY <1>3, <1>5, <2>1 DEF Abort, ghosts
  <2>2. CASE ~fatal
    <3> DEFINE r == [at |-> "over", e |-> 1, err |-> "none"]
    <3>1. "over" \in {"idle"} \cup AtRest
      BY DEF AtRest
    <3>2. r \in WorkerStates /\ r.at = "over" /\ w' = [w EXCEPT ![i] = r]
      BY <1>5, <3>1, EndedIs, EndsIs
    <3> HIDE DEF r
    <3> QED
      BY <1>1, <1>5, <2>2, <3>2, AbortKeeps
  <2> QED
    BY <2>1, <2>2
<1> QED
  BY <1>3, <1>4, <1>5 DEF Noted

\* A step of the command alone.
LEMMA CommandMoves ==
  ASSUME SessionInv, UNCHANGED <<size, next, status, attempt, fatal, crossed, driftFound, w, line>>,
         cmd' \in {"retry", "settle", "exit", "runtime"} => \A i \in Workers : w[i].at \in AtRest
  PROVE  SessionInv'
BY DEF SessionInv, SessionTypes, LockHeld, DriftKnown, TransportIsFatal, OneWorkerEach,
       ResultsFit,
       CrossedIsRejected, AllAtRest, Holds

\* The steps of the command, of its sweep and of the two callers of the last cleanup.
LEMMA CommandKeeps ==
  ASSUME SessionInv, UNCHANGED size,
         \/ StartCommand \/ Swept \/ SweepFails \/ Begin \/ Preflight \/ CleanEnds
         \/ WorkersSettle \/ Retried \/ Finish
         \/ \E e \in Exec : SweepStep(e) \/ BoxExits(e)
         \/ \E c \in Cleaner : CleanerStarts(c) \/ CleanerGoesOn(c)
            \/ \E e \in Exec : CleanerHelper(c, e)
  PROVE  SessionInv'
<1>1. CASE StartCommand \/ Swept \/ SweepFails \/ Begin \/ Preflight \/ CleanEnds
  <2>1. UNCHANGED <<next, status, attempt, fatal, crossed, driftFound, w, line>>
        /\ cmd' \in {"recover", "begin", "preflight", "off", "sweep", "work"}
    BY <1>1 DEF StartCommand, Swept, SweepFails, Begin, Preflight, CleanEnds, disk, pool, ghosts
  <2> QED
    BY <2>1, CommandMoves
<1>2. CASE WorkersSettle \/ Retried \/ Finish
  <2>1. UNCHANGED <<next, status, attempt, fatal, crossed, driftFound, w, line>>
    BY <1>2 DEF WorkersSettle, Retried, Finish, disk, pool, ghosts, tracing
  <2>2. \A i \in Workers : w[i].at \in AtRest
    BY <1>2 DEF WorkersSettle, Retried, Finish, Settled, AtRest, SessionInv, AllAtRest
  <2> QED
    BY <2>1, <2>2, CommandMoves
<1>3. ASSUME NEW e \in Exec, SweepStep(e) \/ BoxExits(e) PROVE SessionInv'
  BY <1>3, Unmoved DEF SweepStep, BoxExits, SweepHelper, SweepStop, SweepRemove, disk, pool, ghosts
<1>4. ASSUME NEW c \in Cleaner,
             CleanerStarts(c) \/ CleanerGoesOn(c) \/ \E e \in Exec : CleanerHelper(c, e)
      PROVE  SessionInv'
  BY <1>4, Unmoved DEF CleanerStarts, CleanerGoesOn, CleanerHelper, disk, pool, ghosts
<1> QED
  BY <1>1, <1>2, <1>3, <1>4

\* What a worker becomes when it takes the next execution.
LEMMA TakeNextIs ==
  ASSUME SessionInv, NEW i \in Workers, TakeNext(i)
  PROVE  \E r \in WorkerStates :
           /\ w' = [w EXCEPT ![i] = r]
           /\ \/ r.at = "over" /\ r.err = "none" /\ next' = next
              \/ r.at = "idle" /\ r.err = "none" /\ next' = next + 1
              \/ r.at = "image" /\ r.err = "none" /\ next' = next + 1 /\ r.e = next
                 /\ status[next] # "done"
<1>t. w \in [Workers -> WorkerStates] /\ w[i] \in WorkerStates /\ w[i].at = "idle"
      /\ size \in Exec /\ next \in Nat \ {0}
  BY DEF SessionInv, SessionTypes, TakeNext, At
<1>1. CASE Ends(i, "over") /\ UNCHANGED next
  <2>1. "over" \in {"idle"} \cup AtRest
    BY DEF AtRest
  <2> QED
    BY <1>1, <2>1, EndedIs, EndsIs
<1>2. CASE ~(refused \/ fatal \/ next > size)
  <2> DEFINE s == IF status[next] = "done" THEN "idle" ELSE "image"
             r == [at |-> s, e |-> next, err |-> "none"]
  <2>1. next \in Exec
    BY <1>t, <1>2, SwebenchSessionsAssumption DEF Exec
  <2>2. r \in WorkerStates
    BY <2>1 DEF WorkerStates, WorkerStages, Errors, Active, Resetting
  <2>3. [Idle EXCEPT !.e = next, !.at = s] = r
    <3> HIDE DEF s
    <3>1. [Idle EXCEPT !.e = next] = [at |-> "idle", e |-> next, err |-> "none"]
      BY DEF Idle
    <3>2. [[at |-> "idle", e |-> next, err |-> "none"] EXCEPT !.at = s] = r
      OBVIOUS
    <3> QED
      BY <3>1, <3>2
  <2>4. w' = [w EXCEPT ![i] = r] /\ next' = next + 1
    BY <1>2, <2>3 DEF TakeNext
  <2> QED
    BY <2>2, <2>4
<1> QED
  BY <1>1, <1>2 DEF TakeNext

\* A worker takes the next execution of the manifest.
LEMMA TakeNextKeeps ==
  ASSUME SessionInv, NEW i \in Workers, TakeNext(i), size' = size
  PROVE  SessionInv'
<1>t. w \in [Workers -> WorkerStates] /\ w[i] \in WorkerStates /\ w[i].at = "idle"
      /\ size \in Exec /\ next \in Nat \ {0}
      /\ cmd = "work"
  BY DEF SessionInv, SessionTypes, TakeNext, At
<1>u. UNCHANGED <<status, attempt, cmd, line, fatal, crossed, driftFound>>
  BY DEF TakeNext, disk, ghosts
<1>1. PICK r \in WorkerStates :
        /\ w' = [w EXCEPT ![i] = r]
        /\ \/ r.at = "over" /\ r.err = "none" /\ next' = next
           \/ r.at = "idle" /\ r.err = "none" /\ next' = next + 1
           \/ r.at = "image" /\ r.err = "none" /\ next' = next + 1 /\ r.e = next
              /\ status[next] # "done"
  BY TakeNextIs
<1>2. w'[i] = r /\ \A j \in Workers : j # i => w'[j] = w[j]
  BY <1>t, <1>1
<1>3. next' \in Nat \ {0} /\ next' >= next
  BY <1>t, <1>1
<1>4. r.at \notin Attesting /\ r.at \notin InSession /\ r.at \notin Settling
      /\ r.at \notin {"start", "attest", "caught", "catch"}
  BY <1>1 DEF Attesting, InSession, Settling
<1>5. SessionTypes'
  BY <1>t, <1>u, <1>1, <1>3 DEF SessionInv, SessionTypes
<1>6. LockHeld' /\ DriftKnown'
  <2>1. LockHeld'
    BY <1>u, <1>2, <1>4 DEF SessionInv, LockHeld, Holds
  <2>2. DriftKnown'
    BY <1>t, <1>u, <1>2, <1>4 DEF SessionInv, DriftKnown
  <2> QED
    BY <2>1, <2>2
<1>7. TransportIsFatal'
  BY <1>t, <1>u, <1>1, <1>2 DEF SessionInv, TransportIsFatal
<1>8. OneWorkerEach'
  <2>a. w' \in [Workers -> WorkerStates] /\ \A j \in Workers : w[j].e \in Nat /\ w'[j].e \in Nat
    BY <1>5, <1>t DEF SessionTypes, WorkerStates, Exec
  <2>1. r.at \in Active => r.e = next /\ next' = next + 1
    BY <1>1 DEF Active, Resetting, InSession, Settling
  <2>2. \A j \in Workers : w'[j].at \in Active => w'[j].e < next'
    BY <1>t, <1>2, <1>3, <2>a, <2>1 DEF SessionInv, OneWorkerEach
  <2>3. \A j \in Workers : j # i /\ w'[j].at \in Active /\ w'[i].at \in Active => w'[j].e # w'[i].e
    BY <1>t, <1>2, <2>a, <2>1 DEF SessionInv, OneWorkerEach
  <2> QED
    BY <1>2, <2>2, <2>3 DEF SessionInv, OneWorkerEach
<1>9. ResultsFit'
  <2>1. Fits(r, status[r.e], attempt[r.e])
    <3>1. r.at = "image" => status[r.e] # "done" /\ attempt[r.e] # "ok"
      BY <1>1 DEF SessionInv, SessionTypes, WorkerStates, ResultsFit
    <3> QED
      BY <1>1, <1>4, <3>1 DEF Fits, Active, Resetting, Settling
  <2> QED
    BY <1>u, <1>2, <2>1 DEF SessionInv, ResultsFit
<1>10. CrossedIsRejected'
  <2>1. \A j \in Workers : w[j].at \in Rejecting => j # i
    BY <1>t DEF Rejecting
  <2>2. r.at # "recording"
    BY <1>1
  <2> QED
    BY <1>u, <1>2, <2>1, <2>2 DEF SessionInv, CrossedIsRejected
<1>11. AllAtRest'
  BY <1>t, <1>u DEF AllAtRest
<1> QED
  BY <1>5, <1>6, <1>7, <1>8, <1>9, <1>10, <1>11 DEF SessionInv

\* A worker of a new pool has no execution.
LEMMA IdleIs ==
  /\ Idle \in WorkerStates /\ Idle.at = "idle" /\ Idle.err = "none"
  /\ "idle" \notin Active /\ "idle" \notin Attesting
  /\ \A v, a : Fits(Idle, v, a)
<1>1. Idle \in WorkerStates /\ Idle.at = "idle" /\ Idle.err = "none"
  BY SwebenchSessionsAssumption DEF Idle, WorkerStates, WorkerStages, Errors, Exec
<1>2. "idle" \notin Active /\ "idle" \notin Attesting
  BY DEF Active, Resetting, InSession, Settling, Attesting
<1>3. \A v, a : Fits(Idle, v, a)
  BY <1>1, <1>2 DEF Fits, Active
<1> QED
  BY <1>1, <1>2, <1>3

\* A new process starts with an empty memory.
LEMMA FreshIsSession ==
  ASSUME SessionInv, FreshMemory, UNCHANGED <<size, status, attempt>>, cmd' = "off"
  PROVE  SessionInv'
<1>0. /\ w' = [i \in Workers |-> Idle] /\ next' = 1 /\ fatal' = FALSE /\ driftFound' = FALSE
      /\ line' = <<>> /\ crossed' = {}
  BY DEF FreshMemory
<1>1. /\ w' \in [Workers -> WorkerStates] /\ LockHeld' /\ TransportIsFatal' /\ OneWorkerEach'
      /\ \A i \in Workers : w'[i] = Idle
  <2>1. w' \in [Workers -> WorkerStates] /\ \A i \in Workers : w'[i] = Idle
    BY <1>0, IdleIs
  <2>2. LockHeld' /\ TransportIsFatal' /\ OneWorkerEach'
    BY <2>1, IdleIs DEF LockHeld, TransportIsFatal, OneWorkerEach
  <2> QED
    BY <2>1, <2>2
<1>2. SessionTypes'
  <2>1. line' \in Seq(Workers) /\ next' \in Nat \ {0}
    BY <1>0
  <2> QED
    BY <1>0, <1>1, <2>1 DEF SessionInv, SessionTypes
<1>3. ResultsFit'
  BY <1>1, IdleIs DEF SessionInv, ResultsFit
<1>4. DriftKnown' /\ CrossedIsRejected' /\ AllAtRest'
  BY <1>0, <1>1 DEF DriftKnown, CrossedIsRejected, AllAtRest
<1> QED
  BY <1>1, <1>2, <1>3, <1>4 DEF SessionInv

\* The invariant holds at first.
LEMMA SessionInitial == Init => SessionInv
<1> SUFFICES ASSUME Init PROVE SessionInv
  OBVIOUS
<1>0. /\ w = [i \in Workers |-> Idle] /\ next = 1 /\ fatal = FALSE /\ driftFound = FALSE
      /\ line = <<>> /\ crossed = {} /\ cmd = "off" /\ size \in Exec
      /\ status = All("none") /\ attempt = All("none")
  BY DEF Init
<1>1. /\ w \in [Workers -> WorkerStates] /\ LockHeld /\ TransportIsFatal /\ OneWorkerEach
      /\ \A i \in Workers : w[i] = Idle
  <2>1. w \in [Workers -> WorkerStates] /\ \A i \in Workers : w[i] = Idle
    BY <1>0, IdleIs
  <2>2. LockHeld /\ TransportIsFatal /\ OneWorkerEach
    BY <2>1, IdleIs DEF LockHeld, TransportIsFatal, OneWorkerEach
  <2> QED
    BY <2>1, <2>2
<1>2. SessionTypes
  <2>1. line \in Seq(Workers) /\ next \in Nat \ {0}
    BY <1>0
  <2>2. status \in [Exec -> Statuses] /\ attempt \in [Exec -> AttemptResults]
    BY <1>0 DEF All, Statuses, AttemptResults
  <2> QED
    BY <1>0, <1>1, <2>1, <2>2 DEF SessionTypes
<1>3. ResultsFit
  <2>1. \A e \in Exec : attempt[e] = "none"
    BY <1>0 DEF All
  <2> QED
    BY <1>1, <2>1, IdleIs DEF ResultsFit
<1>4. DriftKnown /\ CrossedIsRejected /\ AllAtRest
  BY <1>0 DEF DriftKnown, CrossedIsRejected, AllAtRest
<1> QED
  BY <1>1, <1>2, <1>3, <1>4 DEF SessionInv

\* Every step keeps the invariant.
LEMMA SessionInvariant == Spec => []SessionInv
<1>1. SessionInv /\ [Next]_vars => SessionInv'
  <2> SUFFICES ASSUME SessionInv, [Next]_vars PROVE SessionInv'
    OBVIOUS
  <2>1. CASE UNCHANGED vars
    BY <2>1, Unmoved DEF vars, disk, pool, ghosts
  <2>2. ASSUME Next PROVE SessionInv'
    <3>1. ASSUME NEW i \in Workers, WorkerStep(i), size' = size PROVE SessionInv'
      BY <3>1, SessionLaunchKeeps, AwaitKeeps, ResultKeeps, TakeNextKeeps, CaughtKeeps, NotedKeeps
         DEF WorkerStep
    <3>2. ASSUME Exit \/ Crash, size' = size PROVE SessionInv'
      <4>1. FreshMemory /\ UNCHANGED <<status, attempt>> /\ cmd' = "off"
        BY <3>2 DEF Exit, Crash, disk
      <4> QED
        BY <3>2, <4>1, FreshIsSession
    <3> QED
      BY <2>2, <3>1, <3>2, CommandKeeps, CleanupKeeps DEF Next, Progress
  <2> QED
    BY <2>1, <2>2
<1> QED
  BY <1>1, SessionInitial, PTL DEF Spec

\* No session that overlapped an abort is recorded as one that succeeded, nor left terminal
\* without a failure on record, whether the abort came from a typed error or from one known
\* by its message, for any manifest and any number of workers (executeSessions).
THEOREM SessionsOverlapRejected == Spec => []OverlapRejected
<1>1. SessionInv => OverlapRejected
  BY DEF SessionInv, OverlapRejected, CrossedIsRejected, AllAtRest, AtRest, Rejecting
<1> QED
  BY <1>1, SessionInvariant, PTL

\* No gate opens once the attestation has failed in one session: whoever finds the drift
\* holds the lock, and whoever has it next is rejected after its launch, by the abort the
\* finder raised meanwhile (withTransportAttestationLock, runSession).
THEOREM SessionsGateStaysShut == Spec => NoGateAfterDrift
<1>1. SessionInv /\ [Next]_vars => [gate' \ gate # {} => ~driftFound]_vars
  <2> SUFFICES ASSUME SessionInv, Next, gate' \ gate # {} PROVE ~driftFound
    OBVIOUS
  <2>1. ASSUME NEW i \in Workers, Attest(i) PROVE ~driftFound
    BY <2>1 DEF Attest, At, SessionInv, DriftKnown
  <2>2. ASSUME NEW i \in Workers, WorkerStep(i), ~Attest(i) PROVE gate' \subseteq gate
    BY <2>2 DEF WorkerStep, TakeNext, Image, Prior, PriorHelp, Reset, EnterLaunch, CreateReturns,
        Start, Wait, EnterCheck, Check, Caught, BeginCleanup, Accept, Record, Recorded, Catch,
        Noted, disk
  <2>3. ASSUME NEW e \in Exec, CleanupStep(e) \/ SweepStep(e) \/ BoxExits(e)
        PROVE  gate' \subseteq gate
    BY <2>3 DEF CleanupStep, CleanAwait, CleanStop, CleanHelp, CleanHelping, CleanRemove,
        SweepStep, SweepHelper, SweepStop, SweepRemove, BoxExits, disk
  <2>4. ASSUME NEW c \in Cleaner, CleanerStarts(c) \/ CleanerGoesOn(c)
               \/ \E e \in Exec : CleanerHelper(c, e)
        PROVE  gate' = gate
    BY <2>4 DEF CleanerStarts, CleanerGoesOn, CleanerHelper, disk
  <2>5. ASSUME \/ StartCommand \/ Swept \/ SweepFails \/ Begin \/ Preflight \/ CleanEnds
               \/ WorkersSettle \/ Retried \/ Finish \/ Exit \/ Crash
        PROVE  gate' \subseteq gate
    BY <2>5 DEF StartCommand, Swept, SweepFails, Begin, Preflight, CleanEnds, WorkersSettle,
        Retried, Finish, Exit, Crash, disk
  <2> QED
    BY <2>1, <2>2, <2>3, <2>4, <2>5 DEF Next, Progress
<1> QED
  BY <1>1, SessionInvariant, PTL DEF NoGateAfterDrift, Spec

-----------------------------------------------------------------------------
(* SwebenchSessions: containers, helpers and the books *)

\* The stages of the command before its workers start.
Opening == {"off", "recover", "begin", "sweep", "preflight"}
\* The stages from the end of the first sweep to the end of the command.
Running == {"preflight", "work", "retry", "settle", "exit", "runtime"}

\* The stages of a worker that has nothing at the daemon.
Alone == {"image", "prior", "reset", "line", "accept", "record", "recording"}
\* The stages from the launch to the end of the cleanup.
Carrying == {"create", "start", "attest", "wait", "line2", "check", "caught", "back", "backing",
             "cleanup", "cleaning"}

\* An execution is not tracked, t, and g, that it has a helper, is false.
Unmounted(t, g) == t = "no" /\ ~g

\* What the books t, the container b and the cleanup c say of one execution, and g that it has
\* a helper.
Agree(t, b, c, g) ==
  /\ t # "launched" => b = "none"
  /\ t = "no" => c = "idle"
  /\ c \in {"stop", "help", "helping", "remove"} => t = "launched"
  /\ c = "remove" => ~g

\* What a worker at a stage may find of its execution.
Finds(stage, t, g) ==
  /\ stage \in Alone => Unmounted(t, g)
  /\ stage = "priorHelp" => t = "no"
  /\ stage = "create" => t = "launching"
  /\ stage \in Carrying /\ t = "no" => ~g

\* Types of the variables this part of the proof looks at.
TraceTypes ==
  /\ box \in [Exec -> {"none", "made", "up", "exited", "freed"}]
  /\ helper \subseteq Exec /\ registry \subseteq Exec
  /\ tracked \in [Exec -> {"no", "launching", "launched"}]
  /\ cleaning \in [Exec -> {"idle", "await", "stop", "help", "helping", "remove"}]
  /\ cmd \in Opening \cup Running

\* Before the workers start the memory of the command is empty.
FreshAtFirst ==
  cmd \in Opening =>
    /\ \A i \in Workers : w[i].at = "idle"
    /\ \A e \in Exec : tracked[e] = "no" /\ cleaning[e] = "idle"
    /\ registry = {}

\* A helper of e is at the daemon or in the registry.
Helped(e) == e \in registry \cup helper

\* Container, helper, books and cleanup of an execution agree with each other and with its
\* worker; what has no worker yet, or is terminal, is clear.
AccountedAt(e) ==
  /\ Agree(tracked[e], box[e], cleaning[e], Helped(e))
  /\ e >= next \/ status[e] = "done" => Unmounted(tracked[e], Helped(e))
  /\ \A i \in Workers : w[i].at \in Active /\ w[i].e = e => Finds(w[i].at, tracked[e], Helped(e))

\* From the end of the first sweep on this holds of every execution.
Accounted == cmd \in Running => \A e \in Exec : AccountedAt(e)

\* The inductive invariant of what is there, beside SessionInv.
TraceInv == TraceTypes /\ FreshAtFirst /\ Accounted /\ TerminalIsAlone

\* A step that concerns execution e alone.
Apart(e) ==
  /\ \A d \in Exec : d # e =>
       /\ tracked'[d] = tracked[d] /\ box'[d] = box[d] /\ cleaning'[d] = cleaning[d]
       /\ status'[d] = status[d]
       /\ d \in registry' <=> d \in registry
       /\ d \in helper' <=> d \in helper
  /\ \A j \in Workers : w'[j].at \in Active /\ w'[j].e # e => w'[j] = w[j]

\* A step on one execution keeps what holds of the others.
LEMMA OneExecution ==
  ASSUME TraceInv, TraceTypes', NEW e \in Exec, cmd \in Running, cmd' = cmd, cmd # "preflight",
         next' = next, Apart(e), AccountedAt(e)'
  PROVE  TraceInv'
<1>1. ASSUME NEW d \in Exec PROVE AccountedAt(d)'
  <2>1. CASE d = e
    BY <2>1
  <2>2. CASE d # e
    <3>1. AccountedAt(d)
      BY DEF TraceInv, Accounted
    <3>2. /\ tracked'[d] = tracked[d] /\ box'[d] = box[d] /\ cleaning'[d] = cleaning[d]
          /\ status'[d] = status[d]
      BY <2>2 DEF Apart
    <3>3. Helped(d)' <=> Helped(d)
      BY <2>2 DEF Apart, Helped
    <3>4. \A j \in Workers : w'[j].at \in Active /\ w'[j].e = d => w'[j] = w[j]
      BY <2>2 DEF Apart
    <3>5. Agree(tracked[d], box[d], cleaning[d], Helped(d))'
      BY <3>1, <3>2, <3>3 DEF AccountedAt, Agree
    <3>6. d >= next' \/ status'[d] = "done" => Unmounted(tracked[d], Helped(d))'
      BY <3>1, <3>2, <3>3 DEF AccountedAt, Unmounted
    <3>7. ASSUME NEW j \in Workers, w'[j].at \in Active, w'[j].e = d
          PROVE  Finds(w[j].at, tracked[d], Helped(d))'
      BY <3>1, <3>2, <3>3, <3>4, <3>7 DEF AccountedAt, Finds, Unmounted
    <3> QED
      BY <3>5, <3>6, <3>7 DEF AccountedAt
  <2> QED
    BY <2>1, <2>2
<1>2. Accounted'
  BY <1>1 DEF Accounted
<1>3. FreshAtFirst'
  BY DEF FreshAtFirst, Opening, Running
<1>4. TerminalIsAlone'
  <2>1. ASSUME NEW d \in Exec, status'[d] = "done" PROVE box'[d] = "none" /\ d \notin helper'
    BY <1>1, <2>1 DEF AccountedAt, Agree, Unmounted, Helped
  <2> QED
    BY <2>1 DEF TerminalIsAlone
<1> QED
  BY <1>2, <1>3, <1>4 DEF TraceInv

\* Worker i goes to stage s, and keeps its execution if it still has one there.
Moves(i, s) ==
  \E r : w' = [w EXCEPT ![i] = r] /\ r.at = s /\ (s \in Active => r.e = w[i].e)

\* The steps of a worker are such moves.
LEMMA MovesIs ==
  ASSUME SessionInv, NEW i \in Workers
  PROVE  /\ \A s : Goes(i, s) => Moves(i, s)
         /\ \A s, x : Errs(i, s, x) => Moves(i, s)
         /\ \A s \in {"idle"} \cup AtRest : Ends(i, s) => Moves(i, s)
         /\ Throws(i) => Moves(i, "threw")
<1>t. w \in [Workers -> WorkerStates]
  BY DEF SessionInv, SessionTypes
<1>1. ASSUME NEW s, NEW x, w' = [w EXCEPT ![i] = [at |-> s, e |-> w[i].e, err |-> x]]
      PROVE  Moves(i, s)
  <2>1. PICK r : r = [at |-> s, e |-> w[i].e, err |-> x]
    OBVIOUS
  <2>2. w' = [w EXCEPT ![i] = r] /\ r.at = s /\ r.e = w[i].e
    BY <1>1, <2>1
  <2> QED
    BY <2>2 DEF Moves
<1>2. ASSUME NEW s, Goes(i, s) PROVE Moves(i, s)
  BY <1>t, <1>1, <1>2, GoesIs
<1>3. ASSUME NEW s, NEW x, Errs(i, s, x) PROVE Moves(i, s)
  BY <1>t, <1>1, <1>3, ErrsIs
<1>4. ASSUME NEW s \in {"idle"} \cup AtRest, Ends(i, s) PROVE Moves(i, s)
  <2>1. PICK r : r = [at |-> s, e |-> 1, err |-> "none"]
    OBVIOUS
  <2>2. w' = [w EXCEPT ![i] = r] /\ r.at = s /\ s \notin Active
    BY <1>4, <2>1, EndsIs, EndedIs
  <2> QED
    BY <2>2 DEF Moves
<1>5. Throws(i) => Moves(i, "threw")
  BY <1>t, <1>1, ThrowsIs
<1> QED
  BY <1>2, <1>3, <1>4, <1>5

\* The books, the daemon and the status change for execution e at most.
Others(e) ==
  \A d \in Exec : d # e =>
    /\ tracked'[d] = tracked[d] /\ box'[d] = box[d] /\ cleaning'[d] = cleaning[d]
    /\ status'[d] = status[d]
    /\ d \in registry' <=> d \in registry
    /\ d \in helper' <=> d \in helper

\* What a step of a worker must do for its execution.
LEMMA WorkerTraced ==
  ASSUME SessionInv, TraceInv, NEW i \in Workers, NEW e \in Exec, e = w[i].e, w[i].at \in Active,
         cmd = "work", cmd' = cmd, next' = next, TraceTypes', Others(e),
         NEW s, Moves(i, s),
         Agree(tracked[e], box[e], cleaning[e], Helped(e))',
         status'[e] = "done" => Unmounted(tracked[e], Helped(e))',
         Finds(s, tracked'[e], Helped(e)')
  PROVE  TraceInv'
<1>t. w \in [Workers -> WorkerStates]
  BY DEF SessionInv, SessionTypes
<1>1. PICK r : w' = [w EXCEPT ![i] = r] /\ r.at = s /\ (s \in Active => r.e = w[i].e)
  BY DEF Moves
<1>2. w'[i] = r /\ \A j \in Workers : j # i => w'[j] = w[j]
  BY <1>t, <1>1
<1>3. Apart(e)
  BY <1>1, <1>2 DEF Apart, Others
<1>4. ~(e >= next)
  <2>1. w[i].e < next /\ next \in Nat /\ e \in Nat
    BY DEF SessionInv, OneWorkerEach, SessionTypes, Exec
  <2> QED
    BY <2>1
<1>5. \A j \in Workers : w'[j].at \in Active /\ w'[j].e = e => j = i
  BY <1>2 DEF SessionInv, OneWorkerEach
<1>6. AccountedAt(e)'
  <2>1. ASSUME NEW j \in Workers, w'[j].at \in Active, w'[j].e = e
        PROVE  Finds(w'[j].at, tracked'[e], Helped(e)')
    <3>1. w'[j].at = s
      BY <1>1, <1>2, <1>5, <2>1
    <3> QED
      BY <3>1
  <2> QED
    BY <1>4, <2>1 DEF AccountedAt
<1> QED
  BY <1>3, <1>6, OneExecution DEF Running

\* The same when only the stage of the worker and the status of its execution change.
LEMMA WorkerTurns ==
  ASSUME SessionInv, TraceInv, NEW i \in Workers, NEW e \in Exec, e = w[i].e, w[i].at \in Active,
         cmd = "work", UNCHANGED <<cmd, next, box, helper, tracked, cleaning, registry>>,
         NEW s, Moves(i, s), NEW v, status' = status \/ status' = [status EXCEPT ![e] = v],
         status'[e] = "done" /\ status[e] # "done" => Unmounted(tracked[e], Helped(e)),
         Finds(w[i].at, tracked[e], Helped(e)) => Finds(s, tracked[e], Helped(e))
  PROVE  TraceInv'
<1>0. AccountedAt(e)
  BY DEF TraceInv, Accounted, Running
<1>1. TraceTypes' /\ Others(e)
  <2>1. TraceTypes'
    BY DEF TraceInv, TraceTypes
  <2>2. \A d \in Exec : d # e => status'[d] = status[d]
    BY DEF SessionInv, SessionTypes
  <2> QED
    BY <2>1, <2>2 DEF Others
<1>2. Helped(e)' = Helped(e)
  BY DEF Helped
<1>3. /\ Agree(tracked[e], box[e], cleaning[e], Helped(e))'
      /\ status'[e] = "done" => Unmounted(tracked[e], Helped(e))'
      /\ Finds(s, tracked'[e], Helped(e)')
  <2>1. Agree(tracked[e], box[e], cleaning[e], Helped(e))'
    BY <1>0, <1>2 DEF AccountedAt
  <2>2. status'[e] = "done" => Unmounted(tracked[e], Helped(e))'
    BY <1>0, <1>2 DEF AccountedAt
  <2>3. Finds(s, tracked'[e], Helped(e)')
    BY <1>0, <1>2 DEF AccountedAt
  <2> QED
    BY <2>1, <2>2, <2>3
<1> QED
  BY <1>1, <1>3, WorkerTraced

\* The stages that tell nothing of the daemon, and what the others tell.
LEMMA FindsIs ==
  ASSUME NEW t, NEW g \in BOOLEAN
  PROVE  /\ \A s \in {"catch", "noting", "idle"} \cup AtRest : Finds(s, t, g)
         /\ \A s \in Alone : Finds(s, t, g) <=> Unmounted(t, g)
         /\ \A s \in Carrying \ {"create"} : Finds(s, t, g) <=> (t = "no" => ~g)
BY DEF Finds, Alone, Carrying, AtRest, Unmounted

\* The steps of a worker that touch neither the daemon nor the books.
LEMMA TurnsTraced ==
  ASSUME SessionInv, TraceInv, NEW i \in Workers,
         \/ Image(i) \/ Reset(i) \/ Attest(i) \/ Wait(i) \/ EnterCheck(i) \/ Check(i) \/ Caught(i)
         \/ Accept(i) \/ Record(i) \/ Recorded(i) \/ Catch(i) \/ Noted(i),
         size' = size
  PROVE  TraceInv'
<1>e. PICK e \in Exec : e = w[i].e
  BY DEF SessionInv, SessionTypes, WorkerStates
<1>b. Helped(e) \in BOOLEAN
  BY DEF Helped
<1>u. UNCHANGED <<cmd, next, box, helper, tracked, cleaning, registry>> /\ cmd = "work"
  BY DEF Image, Reset, Attest, Wait, EnterCheck, Check, Caught, Accept, Record, Recorded, Catch,
         Noted, At, docker, tracing, ghosts, Abort
<1>1. ASSUME Image(i) \/ Reset(i) \/ Record(i) \/ Recorded(i), NEW v,
             status' = status \/ status' = [status EXCEPT ![e] = v], v # "done"
      PROVE  TraceInv'
  <2>1. w[i].at \in Alone /\ w[i].at \in Active
    BY <1>1 DEF Image, Reset, Record, Recorded, At, Alone, Active, Resetting, Settling
  <2>2. PICK s \in Alone \cup {"catch", "idle", "threw"} : Moves(i, s)
    BY <1>1, MovesIs DEF Image, Reset, Record, Recorded, Alone, AtRest
  <2>3. Finds(w[i].at, tracked[e], Helped(e)) => Finds(s, tracked[e], Helped(e))
    BY <1>b, <2>1, FindsIs DEF AtRest
  <2>4. status'[e] = "done" => status[e] = "done"
    BY <1>1 DEF SessionInv, SessionTypes
  <2> QED
    BY <1>e, <1>u, <1>1, <2>1, <2>2, <2>3, <2>4, WorkerTurns
<1>2. CASE Image(i) \/ Record(i) \/ Recorded(i)
  <2>1. status' = status
    BY <1>2 DEF Image, Record, Recorded, disk
  <2> QED
    BY <1>1, <1>2, <2>1
<1>3. CASE Reset(i)
  <2>1. status' = status \/ status' = [status EXCEPT ![e] = "pending"]
    BY <1>e, <1>3 DEF Reset, disk
  <2> QED
    BY <1>1, <1>3, <2>1
<1>4. CASE Attest(i) \/ Wait(i) \/ EnterCheck(i) \/ Check(i) \/ Caught(i)
  <2>1. w[i].at \in Carrying \ {"create"} /\ w[i].at \in Active /\ status' = status
    BY <1>4 DEF Attest, Wait, EnterCheck, Check, Caught, At, Carrying, Active, InSession, disk
  <2>2. PICK s \in Carrying \ {"create"} : Moves(i, s)
    BY <1>4, MovesIs DEF Attest, Wait, EnterCheck, Check, Caught, FailsUnderLock, Drifts, Carrying
  <2>3. Finds(w[i].at, tracked[e], Helped(e)) => Finds(s, tracked[e], Helped(e))
    BY <1>b, <2>1, FindsIs
  <2> QED
    BY <1>e, <1>u, <2>1, <2>2, <2>3, WorkerTurns
<1>5. CASE Accept(i)
  <2>1. w[i].at = "accept" /\ w[i].at \in Alone /\ w[i].at \in Active
    BY <1>5 DEF Accept, At, Alone, Active, InSession
  <2>2. PICK s \in {"record", "catch"} : Moves(i, s)
    BY <1>5, MovesIs DEF Accept
  <2>3. Finds(w[i].at, tracked[e], Helped(e)) => Finds(s, tracked[e], Helped(e))
    BY <1>b, <2>1, FindsIs DEF Alone
  <2>4. Unmounted(tracked[e], Helped(e))
    BY <1>e, <1>u, <1>b, <2>1, FindsIs DEF TraceInv, Accounted, Running, AccountedAt
  <2>5. status' = status \/ status' = [status EXCEPT ![e] = "done"]
    BY <1>e, <1>5 DEF Accept
  <2> QED
    BY <1>e, <1>u, <2>1, <2>2, <2>3, <2>4, <2>5, WorkerTurns
<1>6. CASE Catch(i) \/ Noted(i)
  <2>1. w[i].at \in {"catch", "noting"} /\ w[i].at \in Active
    BY <1>6 DEF Catch, Noted, At, Active, Settling
  <2>2. PICK s \in {"noting", "idle"} \cup AtRest : Moves(i, s)
    BY <1>6, MovesIs DEF Catch, Noted, AtRest
  <2>3. Finds(s, tracked[e], Helped(e))
    BY <1>b, FindsIs
  <2>4. PICK v : /\ status' = status \/ status' = [status EXCEPT ![e] = v]
                 /\ v = "done" => status[e] = "done"
    BY <1>e, <1>6 DEF Catch, Noted, Noting
  <2>5. status'[e] = "done" => status[e] = "done"
    BY <2>4 DEF SessionInv, SessionTypes
  <2> QED
    BY <1>e, <1>u, <2>1, <2>2, <2>3, <2>4, <2>5, WorkerTurns
<1> QED
  BY <1>2, <1>3, <1>4, <1>5, <1>6

\* The look at what an earlier command left of the execution, and its reclamation.
LEMMA PriorTraced ==
  ASSUME SessionInv, TraceInv, NEW i \in Workers, Prior(i) \/ PriorHelp(i), size' = size
  PROVE  TraceInv'
<1>e. PICK e \in Exec : e = w[i].e
  BY DEF SessionInv, SessionTypes, WorkerStates
<1>b. Helped(e) \in BOOLEAN /\ Helped(e)' \in BOOLEAN
  BY DEF Helped
<1>u. UNCHANGED <<cmd, next, status, box, tracked, cleaning>> /\ cmd = "work"
      /\ w[i].at \in {"prior", "priorHelp"} /\ w[i].at \in Active
  BY DEF Prior, PriorHelp, At, disk, Active, Resetting
<1>a. AccountedAt(e) /\ status[e] # "done"
  BY <1>e, <1>u DEF TraceInv, Accounted, Running, SessionInv, ResultsFit, Fits, Resetting
<1>n. tracked[e] = "no" /\ (w[i].at = "prior" => ~Helped(e))
  BY <1>e, <1>u, <1>a DEF AccountedAt, Finds, Alone, Unmounted
<1>m. /\ helper' \subseteq helper \cup {e} /\ helper \ {e} \subseteq helper'
      /\ registry' \subseteq registry \cup {e} /\ registry \ {e} \subseteq registry'
  BY <1>e DEF Prior, PriorHelp, Reclaimed, Unproven, Again
<1>1. TraceTypes' /\ Others(e)
  BY <1>u, <1>m DEF TraceInv, TraceTypes, Others
<1>2. Agree(tracked[e], box[e], cleaning[e], Helped(e))'
  BY <1>u, <1>a, <1>n DEF AccountedAt, Agree
<1>3. ASSUME NEW s \in {"reset", "priorHelp", "catch"}, Moves(i, s), s = "reset" => ~Helped(e)'
      PROVE  TraceInv'
  <2>1. Finds(s, tracked'[e], Helped(e)')
    BY <1>u, <1>n, <1>3 DEF Finds, Alone, Carrying, Unmounted
  <2> QED
    BY <1>e, <1>u, <1>a, <1>1, <1>2, <1>3, <2>1, WorkerTraced
<1>4. CASE Prior(i)
  <2>1. CASE Goes(i, "reset") /\ UNCHANGED <<helper, registry>>
    BY <1>u, <1>n, <1>3, <2>1, <1>4, MovesIs DEF Helped, Prior, At
  <2>2. CASE Goes(i, "priorHelp") \/ Errs(i, "catch", "unsafe")
    BY <1>3, <2>2, MovesIs
  <2> QED
    BY <1>4, <2>1, <2>2 DEF Prior
<1>5. CASE PriorHelp(i)
  <2>1. CASE Goes(i, "reset") /\ Reclaimed(e)
    BY <1>3, <2>1, MovesIs DEF Helped, Reclaimed
  <2>2. CASE Errs(i, "catch", "unsafe")
    BY <1>3, <2>2, MovesIs
  <2>3. CASE UNCHANGED w
    <3>1. w[i].at = "priorHelp" /\ w = [w EXCEPT ![i] = w[i]]
      BY <1>5 DEF PriorHelp, At, SessionInv, SessionTypes
    <3>2. w' = [w EXCEPT ![i] = w[i]]
      BY <2>3, <3>1
    <3>3. Moves(i, "priorHelp")
      <4>1. PICK r : r = w[i]
        OBVIOUS
      <4> QED
        BY <3>1, <3>2, <4>1 DEF Moves
    <3> QED
      BY <1>3, <3>3
  <2> QED
    BY <1>e, <1>5, <2>1, <2>2, <2>3 DEF PriorHelp
<1> QED
  BY <1>4, <1>5

\* The launch and the start of the container.
LEMMA LaunchTraced ==
  ASSUME SessionInv, TraceInv, NEW i \in Workers,
         EnterLaunch(i) \/ CreateReturns(i) \/ Start(i), size' = size
  PROVE  TraceInv'
<1>e. PICK e \in Exec : e = w[i].e
  BY DEF SessionInv, SessionTypes, WorkerStates
<1>u. UNCHANGED <<cmd, next, status, cleaning, helper, registry>> /\ cmd = "work"
      /\ w[i].at \in {"line", "create", "start"} /\ w[i].at \in Active /\ w[i].at \in InSession
  BY DEF EnterLaunch, CreateReturns, Start, At, disk, docker, tracing, Active, InSession
<1>t. TraceTypes
  BY DEF TraceInv
<1>a. AccountedAt(e) /\ status[e] # "done" /\ Finds(w[i].at, tracked[e], Helped(e))
  BY <1>e, <1>u DEF TraceInv, Accounted, Running, SessionInv, ResultsFit, Fits, AccountedAt
<1>b. Helped(e)' = Helped(e)
  BY <1>u DEF Helped
<1>c. Agree(tracked[e], box[e], cleaning[e], Helped(e))
  BY <1>a DEF AccountedAt
<1>1. CASE EnterLaunch(i)
  <2>1. w[i].at = "line" /\ UNCHANGED box
    BY <1>1 DEF EnterLaunch, At, docker
  <2>2. tracked[e] = "no" /\ ~Helped(e)
    BY <1>a, <2>1 DEF Finds, Alone, Unmounted
  <2>3. CASE Errs(i, "cleanup", "transport") /\ UNCHANGED tracked
    <3>1. Moves(i, "cleanup") /\ UNCHANGED <<cmd, next, box, helper, tracked, cleaning, registry>>
      BY <1>u, <2>1, <2>3, MovesIs
    <3>2. Finds("cleanup", tracked[e], Helped(e))
      BY <2>2 DEF Finds, Alone, Carrying
    <3> QED
      BY <1>e, <1>u, <3>1, <3>2, WorkerTurns
  <2>4. CASE Goes(i, "create") /\ tracked' = [tracked EXCEPT ![w[i].e] = "launching"]
    <3>1. tracked'[e] = "launching" /\ \A d \in Exec : d # e => tracked'[d] = tracked[d]
      BY <1>e, <1>t, <2>4 DEF TraceTypes
    <3>2. TraceTypes' /\ Others(e)
      BY <1>e, <1>u, <1>t, <2>1, <2>4, <3>1 DEF TraceTypes, Others
    <3>3. Agree(tracked[e], box[e], cleaning[e], Helped(e))'
      BY <1>u, <1>b, <1>c, <2>1, <2>2, <3>1 DEF Agree
    <3>4. Finds("create", tracked'[e], Helped(e)')
      BY <3>1 DEF Finds, Alone, Carrying
    <3>5. Moves(i, "create")
      BY <2>4, MovesIs
    <3> QED
      BY <1>e, <1>u, <1>a, <3>2, <3>3, <3>4, <3>5, WorkerTraced
  <2> QED
    BY <1>1, <2>3, <2>4 DEF EnterLaunch
<1>2. CASE CreateReturns(i)
  <2>1. tracked[e] = "launching"
    BY <1>2, <1>a DEF CreateReturns, At, Finds
  <2>2. /\ tracked' = [tracked EXCEPT ![e] = "launched"]
        /\ box' = box \/ box' = [box EXCEPT ![e] = "made"]
    BY <1>e, <1>2 DEF CreateReturns
  <2>3. PICK s \in {"start", "cleanup", "caught"} : Moves(i, s)
    BY <1>2, MovesIs DEF CreateReturns, Launched, FailsUnderLock, Drifts
  <2>4. tracked'[e] = "launched" /\ \A d \in Exec : d # e => tracked'[d] = tracked[d]
    BY <1>t, <2>2 DEF TraceTypes
  <2>5. \A d \in Exec : d # e => box'[d] = box[d]
    BY <1>t, <2>2 DEF TraceTypes
  <2>6. TraceTypes' /\ Others(e)
    BY <1>u, <1>t, <2>2, <2>4, <2>5 DEF TraceTypes, Others
  <2>7. Agree(tracked[e], box[e], cleaning[e], Helped(e))'
    BY <1>u, <1>c, <2>1, <2>4 DEF Agree
  <2>8. Finds(s, tracked'[e], Helped(e)')
    BY <2>4 DEF Finds, Alone, Carrying
  <2> QED
    BY <1>e, <1>u, <1>a, <2>3, <2>6, <2>7, <2>8, WorkerTraced
<1>3. CASE Start(i)
  <2>1. /\ UNCHANGED tracked
        /\ box' = box \/ (box[e] # "none" /\ box' = [box EXCEPT ![e] = "up"])
    BY <1>e, <1>3 DEF Start, tracing
  <2>2. PICK s \in {"attest", "cleanup", "caught"} : Moves(i, s)
    BY <1>3, MovesIs DEF Start, FailsUnderLock, Drifts
  <2>3. \A d \in Exec : d # e => box'[d] = box[d]
    BY <1>t, <2>1 DEF TraceTypes
  <2>4. TraceTypes' /\ Others(e)
    BY <1>u, <1>t, <2>1, <2>3 DEF TraceTypes, Others
  <2>5. Agree(tracked[e], box[e], cleaning[e], Helped(e))'
    BY <1>u, <1>b, <1>c, <2>1 DEF Agree
  <2>6. tracked[e] = "no" => ~Helped(e)
    BY <1>3, <1>a DEF Start, At, Finds, Carrying
  <2>7. Finds(s, tracked'[e], Helped(e)')
    BY <1>b, <2>1, <2>6 DEF Finds, Alone, Carrying
  <2> QED
    BY <1>e, <1>u, <1>a, <2>2, <2>4, <2>5, <2>7, WorkerTraced
<1> QED
  BY <1>1, <1>2, <1>3

\* A worker asks for a cleanup, or finds that there is nothing to clean up.
LEMMA BeginCleanupTraced ==
  ASSUME SessionInv, TraceInv, NEW i \in Workers, BeginCleanup(i), size' = size
  PROVE  TraceInv'
<1>e. PICK e \in Exec : e = w[i].e
  BY DEF SessionInv, SessionTypes, WorkerStates
<1>u. UNCHANGED <<cmd, next, status, box, helper, tracked, registry>> /\ cmd = "work"
      /\ w[i].at \in {"back", "cleanup"} /\ w[i].at \in Active
  BY DEF BeginCleanup, At, disk, docker, Active, InSession
<1>t. TraceTypes
  BY DEF TraceInv
<1>a. AccountedAt(e) /\ (tracked[e] = "no" => ~Helped(e))
      /\ Agree(tracked[e], box[e], cleaning[e], Helped(e))
  BY <1>e, <1>u DEF TraceInv, Accounted, Running, AccountedAt, Finds, Carrying
<1>b. Helped(e)' = Helped(e)
  BY <1>u DEF Helped
<1>1. CASE tracked[e] = "no" /\ UNCHANGED cleaning
  <2>0. w[i] \in WorkerStates /\ w' = [w EXCEPT ![i] = Afterwards(w[i], "none")]
    BY <1>e, <1>1 DEF BeginCleanup, SessionInv, SessionTypes
  <2>1. PICK s \in {"cleanup", "accept", "catch"}, x \in Errors :
          Afterwards(w[i], "none") = [at |-> s, e |-> w[i].e, err |-> x]
    BY <2>0, AfterwardsIs DEF Failures
  <2>2. Moves(i, s)
    <3>1. PICK r : r = [at |-> s, e |-> w[i].e, err |-> x]
      OBVIOUS
    <3>2. w' = [w EXCEPT ![i] = r] /\ r.at = s /\ r.e = w[i].e
      BY <2>0, <2>1, <3>1
    <3> QED
      BY <3>2 DEF Moves
  <2>3. Finds(s, tracked[e], Helped(e))
    BY <1>a, <1>1 DEF Finds, Alone, Carrying, Unmounted
  <2> QED
    BY <1>e, <1>u, <1>1, <2>2, <2>3, WorkerTurns
<1>2. CASE tracked[e] # "no"
  <2>1. PICK s \in {"backing", "cleaning"} : Goes(i, s)
    BY <1>e, <1>2 DEF BeginCleanup
  <2>2. PICK c \in {"await", cleaning[e]} : cleaning' = [cleaning EXCEPT ![e] = c]
    BY <1>e, <1>2 DEF BeginCleanup
  <2>3. cleaning'[e] = c /\ \A d \in Exec : d # e => cleaning'[d] = cleaning[d]
    BY <1>t, <2>2 DEF TraceTypes
  <2>4. TraceTypes' /\ Others(e)
    BY <1>u, <1>t, <2>2, <2>3 DEF TraceTypes, Others
  <2>5. Agree(tracked[e], box[e], cleaning[e], Helped(e))'
    BY <1>u, <1>b, <1>a, <1>2, <2>3 DEF Agree
  <2>6. Finds(s, tracked'[e], Helped(e)')
    BY <1>u, <1>2 DEF Finds, Alone, Carrying
  <2>7. Moves(i, s) /\ status'[e] # "done"
    BY <1>e, <1>u, <2>1, MovesIs DEF SessionInv, ResultsFit, Fits, InSession
  <2> QED
    BY <1>e, <1>u, <2>4, <2>5, <2>6, <2>7, WorkerTraced
<1> QED
  BY <1>e, <1>1, <1>2 DEF BeginCleanup

\* The cleanup of an execution goes on, or settles for the workers that wait for it.
LEMMA CleanupTraced ==
  ASSUME SessionInv, TraceInv, NEW e \in Exec, CleanupStep(e), size' = size
  PROVE  TraceInv'
<1>u. UNCHANGED <<cmd, next, status>> /\ cleaning[e] # "idle"
  BY DEF CleanupStep, CleanAwait, CleanStop, CleanHelp, CleanHelping, CleanRemove, disk
<1>t. TraceTypes
  BY DEF TraceInv
<1>r. cmd \in Running /\ cmd # "preflight"
  BY <1>u, <1>t DEF TraceInv, FreshAtFirst, Opening, Running, TraceTypes
<1>a. /\ AccountedAt(e) /\ tracked[e] # "no" /\ status[e] # "done"
      /\ Agree(tracked[e], box[e], cleaning[e], Helped(e)) /\ ~(e >= next)
  BY <1>u, <1>r DEF TraceInv, Accounted, AccountedAt, Agree, Unmounted
<1>f. \A j \in Workers : w[j].at \in Active /\ w[j].e = e => w[j].at \notin Alone \cup {"priorHelp"}
      /\ (w[j].at = "create" => tracked[e] = "launching")
  BY <1>a DEF AccountedAt, Finds, Unmounted
<1>b. Helped(e)' \in BOOLEAN /\ Helped(e) \in BOOLEAN
  BY DEF Helped
\* What the step may leave of the execution.
<1> DEFINE Left == /\ Agree(tracked'[e], box'[e], cleaning'[e], Helped(e)')
                   /\ \/ tracked'[e] = tracked[e]
                      \/ tracked[e] = "launched" /\ Unmounted(tracked'[e], Helped(e)')
<1>1. Left
  <2>1. CASE CleanAwait(e)
    <3>1. UNCHANGED <<tracked, box, Helped(e)>>
      BY <2>1 DEF CleanAwait, docker, Helped
    <3>2. cleaning'[e] \in {"idle", "stop", "help"}
          /\ (cleaning'[e] # "idle" => tracked[e] = "launched")
      BY <1>t, <2>1 DEF CleanAwait, Steps, Settles, TraceTypes
    <3> QED
      BY <1>b, <1>a, <3>1, <3>2 DEF Agree
  <2>2. CASE CleanStop(e)
    <3>1. tracked[e] = "launched" /\ tracked' = tracked /\ cleaning'[e] \in {"idle", "help"}
      BY <1>t, <1>a, <2>2 DEF CleanStop, Agree, Steps, Settles, TraceTypes
    <3> QED
      BY <1>b, <3>1 DEF Agree
  <2>3. CASE CleanHelp(e)
    <3>1. tracked[e] = "launched" /\ tracked' = tracked /\ cleaning'[e] \in {"idle", "helping"}
      BY <1>t, <1>a, <2>3 DEF CleanHelp, Agree, Steps, Settles, TraceTypes
    <3> QED
      BY <1>b, <3>1 DEF Agree
  <2>4. CASE CleanHelping(e)
    <3>1. tracked[e] = "launched" /\ tracked' = tracked
      BY <1>a, <2>4 DEF CleanHelping, Agree
    <3>2. CASE cleaning'[e] # "remove"
      BY <1>b, <3>1, <3>2 DEF Agree
    <3>3. CASE Reclaimed(e)
      BY <1>b, <3>1, <3>3 DEF Agree, Reclaimed, Helped
    <3>4. cleaning'[e] # "remove" \/ Reclaimed(e)
      BY <1>t, <2>4 DEF CleanHelping, Steps, Settles, TraceTypes
    <3> QED
      BY <3>2, <3>3, <3>4
  <2>5. CASE CleanRemove(e)
    <3>1. tracked[e] = "launched" /\ ~Helped(e) /\ Helped(e)' = Helped(e)
          /\ cleaning'[e] = "idle"
      BY <1>t, <1>a, <2>5 DEF CleanRemove, Agree, Settles, TraceTypes, Helped
    <3>2. CASE box' = [box EXCEPT ![e] = "none"] /\ tracked' = [tracked EXCEPT ![e] = "no"]
      <4>1. box'[e] = "none" /\ tracked'[e] = "no"
        BY <1>t, <3>2 DEF TraceTypes
      <4> QED
        BY <3>1, <4>1 DEF Agree, Unmounted
    <3>3. CASE tracked' = tracked
      BY <1>b, <3>1, <3>3 DEF Agree
    <3> QED
      BY <2>5, <3>2, <3>3 DEF CleanRemove
  <2> QED
    BY <2>1, <2>2, <2>3, <2>4, <2>5 DEF CleanupStep
<1>2. TraceTypes' /\ Others(e)
  <2>1. /\ \E b \in {box[e], "exited", "none"} : box' = [box EXCEPT ![e] = b]
        /\ \E k \in {tracked[e], "no"} : tracked' = [tracked EXCEPT ![e] = k]
        /\ \E c \in {cleaning[e], "idle", "stop", "help", "helping", "remove"} :
             cleaning' = [cleaning EXCEPT ![e] = c]
    BY <1>t DEF CleanupStep, CleanAwait, CleanStop, CleanHelp, CleanHelping, CleanRemove, Steps,
        Settles, docker, TraceTypes
  <2>2. /\ helper' \subseteq helper \cup {e} /\ helper \ {e} \subseteq helper'
        /\ registry' \subseteq registry \cup {e} /\ registry \ {e} \subseteq registry'
    BY DEF CleanupStep, CleanAwait, CleanStop, CleanHelp, CleanHelping, CleanRemove, Reclaimed,
        Unproven, Again, docker
  <2> QED
    BY <1>t, <1>u, <2>1, <2>2 DEF TraceTypes, Others
\* A worker that waits goes on where the cleanup leaves it.
<1>3. \A j \in Workers : w'[j] = w[j] \/
        /\ w[j].at \in {"backing", "cleaning"} /\ w[j].e = e /\ w'[j].e = e
        /\ w'[j].at \in {"cleanup", "accept", "catch"}
        /\ w'[j].at = "accept" => tracked'[e] = "no"
  <2>t. w \in [Workers -> WorkerStates]
    BY DEF SessionInv, SessionTypes
  <2>1. CASE UNCHANGED w
    BY <2>1
  <2>2. ASSUME NEW f \in Failures, Settles(e, f), f = "none" => tracked'[e] = "no",
               NEW j \in Workers
        PROVE  w'[j] = w[j] \/
               /\ w[j].at \in {"backing", "cleaning"} /\ w[j].e = e /\ w'[j].e = e
               /\ w'[j].at \in {"cleanup", "accept", "catch"}
               /\ w'[j].at = "accept" => tracked'[e] = "no"
    <3>1. CASE j \notin Waiting(e)
      BY <2>2, <3>1 DEF Settles
    <3>2. CASE j \in Waiting(e)
      <4>1. w'[j] = Afterwards(w[j], f) /\ w[j].at \in {"backing", "cleaning"} /\ w[j].e = e
        BY <2>2, <3>2 DEF Settles, Waiting
      <4>2. PICK s \in {"cleanup", "accept", "catch"}, x \in Errors :
              /\ Afterwards(w[j], f) = [at |-> s, e |-> w[j].e, err |-> x]
              /\ s = "accept" => f = "none"
        BY <2>t, <2>2, AfterwardsIs
      <4> QED
        BY <2>2, <4>1, <4>2
    <3> QED
      BY <3>1, <3>2
  <2>3. UNCHANGED w \/ \E f \in Failures : Settles(e, f) /\ (f = "none" => tracked'[e] = "no")
    BY <1>t DEF CleanupStep, CleanAwait, CleanStop, CleanHelp, CleanHelping, CleanRemove, Steps,
        Failures, TraceTypes
  <2> QED
    BY <2>1, <2>2, <2>3
<1>4. Apart(e)
  BY <1>2, <1>3 DEF Apart, Others
<1>5. AccountedAt(e)'
  <2>1. ASSUME NEW j \in Workers, w'[j].at \in Active, w'[j].e = e
        PROVE  Finds(w'[j].at, tracked'[e], Helped(e)')
    <3>1. CASE w'[j] = w[j]
      <4>1. w[j].at \notin Alone \cup {"priorHelp"} 
            /\ (w[j].at = "create" => tracked[e] = "launching")
        BY <1>f, <2>1, <3>1
      <4> QED
        BY <1>1, <1>a, <3>1, <4>1 DEF Finds, Unmounted
    <3>2. CASE /\ w'[j].at \in {"cleanup", "accept", "catch"}
               /\ w'[j].at = "accept" => tracked'[e] = "no"
      BY <1>1, <1>a, <3>2 DEF Finds, Unmounted, Alone, Carrying
    <3> QED
      BY <1>3, <3>1, <3>2
  <2> QED
    BY <1>u, <1>a, <1>1, <2>1 DEF AccountedAt
<1> QED
  BY <1>u, <1>r, <1>2, <1>4, <1>5, OneExecution

\* A worker takes an execution nobody has had yet in this command, which is clear.
LEMMA TakeNextTraced ==
  ASSUME SessionInv, TraceInv, NEW i \in Workers, TakeNext(i), size' = size
  PROVE  TraceInv'
<1>t. w \in [Workers -> WorkerStates] /\ next \in Nat /\ w[i].at = "idle" /\ cmd = "work"
  BY DEF SessionInv, SessionTypes, TakeNext, At
<1>u. UNCHANGED <<cmd, status, box, helper, tracked, cleaning, registry>>
  BY DEF TakeNext, disk, docker, tracing
<1>1. PICK r \in WorkerStates :
        /\ w' = [w EXCEPT ![i] = r]
        /\ \/ r.at = "over" /\ r.err = "none" /\ next' = next
           \/ r.at = "idle" /\ r.err = "none" /\ next' = next + 1
           \/ r.at = "image" /\ r.err = "none" /\ next' = next + 1 /\ r.e = next
              /\ status[next] # "done"
  BY TakeNextIs
<1>2. w'[i] = r /\ \A j \in Workers : j # i => w'[j] = w[j]
  BY <1>t, <1>1
<1>3. ASSUME NEW e \in Exec
      PROVE  AccountedAt(e)'
  <2>1. AccountedAt(e) /\ e \in Nat
    BY <1>t DEF TraceInv, Accounted, Running, Exec
  <2>2. Helped(e)' = Helped(e)
    BY <1>u DEF Helped
  <2>3. Agree(tracked'[e], box'[e], cleaning'[e], Helped(e)')
    BY <1>u, <2>1, <2>2 DEF AccountedAt
  <2>4. e >= next' => e >= next
    BY <1>t, <1>1, <2>1
  <2>5. e >= next' \/ status'[e] = "done" => Unmounted(tracked'[e], Helped(e)')
    BY <1>u, <2>1, <2>2, <2>4 DEF AccountedAt
  <2>6. ASSUME NEW j \in Workers, w'[j].at \in Active, w'[j].e = e
        PROVE  Finds(w'[j].at, tracked'[e], Helped(e)')
    <3>1. CASE j # i
      <4>1. Finds(w[j].at, tracked[e], Helped(e))
        BY <1>2, <2>1, <2>6, <3>1 DEF AccountedAt
      <4> QED
        BY <1>u, <1>2, <2>2, <3>1, <4>1
    <3>2. CASE j = i
      <4>1. r.at = "image" /\ r.e = next
        BY <1>1, <1>2, <2>6, <3>2 DEF Active, Resetting, InSession, Settling
      <4>2. Unmounted(tracked[e], Helped(e))
        BY <1>t, <1>2, <2>1, <2>6, <3>2, <4>1 DEF AccountedAt
      <4> QED
        BY <1>u, <1>2, <2>2, <3>2, <4>1, <4>2 DEF Finds, Unmounted, Carrying
    <3> QED
      BY <3>1, <3>2
  <2> QED
    BY <2>3, <2>5, <2>6 DEF AccountedAt
<1>4. TraceTypes' /\ FreshAtFirst' /\ TerminalIsAlone'
  BY <1>t, <1>u DEF TraceInv, TraceTypes, FreshAtFirst, Opening, TerminalIsAlone
<1> QED
  BY <1>3, <1>4 DEF TraceInv, Accounted

\* A step that leaves all of this alone, but for the stage of the command.
LEMMA CommandTraced ==
  ASSUME TraceInv, UNCHANGED <<next, status, box, helper, tracked, cleaning, registry, w>>,
         cmd' \in Opening \cup Running, cmd' \in Running => cmd \in Running,
         cmd' \in Opening => cmd \in Opening
  PROVE  TraceInv'
<1>1. \A e \in Exec : AccountedAt(e) => AccountedAt(e)'
  <2> SUFFICES ASSUME NEW e \in Exec, AccountedAt(e) PROVE AccountedAt(e)'
    OBVIOUS
  <2>1. Helped(e)' = Helped(e)
    BY DEF Helped
  <2> QED
    BY <2>1 DEF AccountedAt
<1> QED
  BY <1>1 DEF TraceInv, TraceTypes, FreshAtFirst, Accounted, TerminalIsAlone

\* The steps of the command before and after its workers.
LEMMA CommandStepsTraced ==
  ASSUME TraceInv,
         \/ StartCommand \/ SweepFails \/ Begin \/ Preflight \/ CleanEnds
         \/ WorkersSettle \/ Retried \/ Finish
  PROVE  TraceInv'
<1>1. UNCHANGED <<next, status, box, helper, tracked, cleaning, registry, w>>
  BY DEF StartCommand, SweepFails, Begin, Preflight, CleanEnds, WorkersSettle, Retried, Finish,
         disk, docker, pool, tracing
<1>2. CASE StartCommand \/ SweepFails \/ Begin \/ Preflight \/ CleanEnds
  <2>1. cmd \in Opening /\ cmd' \in Opening \cup Running /\ (cmd' \in Running => cmd \in Running)
        /\ (cmd' \in Opening => cmd \in Opening)
    BY <1>2 DEF StartCommand, SweepFails, Begin, Preflight, CleanEnds, Sweeping, Opening, Running
  <2> QED
    BY <1>1, <2>1, CommandTraced
<1>3. CASE WorkersSettle \/ Retried \/ Finish
  <2>1. cmd \in Running /\ cmd' \in Running /\ cmd' \notin Opening
    BY <1>3 DEF WorkersSettle, Retried, Finish, Opening, Running
  <2> QED
    BY <1>1, <2>1, CommandTraced
<1> QED
  BY <1>2, <1>3

\* The sweep goes on, and after it nothing is left.
LEMMA SweepTraced ==
  ASSUME SessionInv, TraceInv, Swept \/ \E e \in Exec : SweepStep(e)
  PROVE  TraceInv'
<1>t. TraceTypes /\ FreshAtFirst /\ TerminalIsAlone
  BY DEF TraceInv
<1>u. UNCHANGED <<status, tracked, cleaning, registry, w>> /\ cmd \in {"recover", "sweep"}
  BY DEF Swept, SweepStep, SweepHelper, SweepStop, SweepRemove, Sweeping, disk, pool, tracing
<1>f. /\ \A i \in Workers : w[i].at = "idle"
      /\ \A e \in Exec : tracked[e] = "no" /\ cleaning[e] = "idle"
      /\ registry = {}
  BY <1>t, <1>u DEF FreshAtFirst, Opening
<1>1. ASSUME NEW e \in Exec, SweepStep(e) PROVE TraceInv'
  <2>1. cmd' = cmd
    BY <1>1 DEF SweepStep, SweepHelper, SweepStop, SweepRemove
  <2>2. TraceTypes'
    BY <1>t, <1>u, <1>1, <2>1 DEF SweepStep, SweepHelper, SweepStop, SweepRemove, TraceTypes
  <2>3. TerminalIsAlone'
    <3>1. CASE SweepHelper(e)
      BY <1>t, <1>u, <3>1 DEF SweepHelper, TerminalIsAlone
    <3>2. CASE SweepStop(e)
      <4>1. box[e] # "none" /\ box' = [box EXCEPT ![e] = "freed"] /\ helper' = {e}
        BY <3>2 DEF SweepStop
      <4>2. status[e] # "done" /\ \A d \in Exec : d # e => box'[d] = box[d]
        BY <1>t, <4>1 DEF TerminalIsAlone, TraceTypes
      <4> QED
        BY <1>t, <1>u, <4>1, <4>2 DEF TerminalIsAlone
    <3>3. CASE SweepRemove(e)
      <4>1. box' = [box EXCEPT ![e] = "none"] /\ helper' = helper
        BY <3>3 DEF SweepRemove
      <4>2. \A d \in Exec : box'[d] = box[d] \/ box'[d] = "none"
        BY <1>t, <4>1 DEF TraceTypes
      <4> QED
        BY <1>t, <1>u, <4>1, <4>2 DEF TerminalIsAlone
    <3> QED
      BY <1>1, <3>1, <3>2, <3>3 DEF SweepStep
  <2>4. FreshAtFirst' /\ Accounted'
    BY <1>u, <1>f, <2>1 DEF FreshAtFirst, Accounted, Running
  <2> QED
    BY <2>2, <2>3, <2>4 DEF TraceInv
<1>2. CASE Swept
  <2>1. helper' = {} /\ box' = box /\ (\A e \in Exec : box[e] = "none")
        /\ cmd' \in {"begin", "preflight"}
    BY <1>2 DEF Swept, docker, All
  <2>2. TraceTypes' /\ TerminalIsAlone' /\ FreshAtFirst'
    BY <1>t, <1>u, <1>f, <2>1 DEF TraceTypes, TerminalIsAlone, FreshAtFirst, Opening, Running
  <2>3. ASSUME NEW e \in Exec PROVE AccountedAt(e)'
    <3>1. tracked'[e] = "no" /\ box'[e] = "none" /\ cleaning'[e] = "idle" /\ ~Helped(e)'
      BY <1>u, <1>f, <2>1 DEF Helped
    <3>2. \A j \in Workers : w'[j].at \notin Active
      BY <1>u, <1>f DEF Active, Resetting, InSession, Settling
    <3> QED
      BY <3>1, <3>2 DEF AccountedAt, Agree, Unmounted
  <2> QED
    BY <2>2, <2>3 DEF TraceInv, Accounted
<1> QED
  BY <1>1, <1>2

\* The cleanup of everything tracked removes helpers and has containers cleaned up.
LEMMA CleanerTraced ==
  ASSUME SessionInv, TraceInv, NEW c \in Cleaner,
         CleanerStarts(c) \/ CleanerGoesOn(c) \/ \E e \in Exec : CleanerHelper(c, e)
  PROVE  TraceInv'
<1>t. TraceTypes /\ FreshAtFirst /\ TerminalIsAlone
  BY DEF TraceInv
<1>u. UNCHANGED <<cmd, next, status, tracked, box, w>>
  BY DEF CleanerStarts, CleanerGoesOn, CleanerHelper, disk, pool, docker
<1>1. CASE CleanerStarts(c) \/ \E e \in Exec : CleanerHelper(c, e)
  <2>1. cleaning' = cleaning /\ helper' \subseteq helper /\ registry' \subseteq registry
    BY <1>1 DEF CleanerStarts, CleanerHelper, docker
  <2>2. TraceTypes' /\ FreshAtFirst' /\ TerminalIsAlone'
    BY <1>t, <1>u, <2>1 DEF TraceTypes, FreshAtFirst, TerminalIsAlone
  <2>3. ASSUME NEW e \in Exec, AccountedAt(e) PROVE AccountedAt(e)'
    <3>1. /\ Helped(e)' \in BOOLEAN /\ Helped(e) \in BOOLEAN
          /\ Helped(e)' => Helped(e)
      BY <2>1 DEF Helped
    <3>2. Agree(tracked'[e], box'[e], cleaning'[e], Helped(e)')
      BY <1>u, <2>1, <2>3, <3>1 DEF AccountedAt, Agree
    <3>3. e >= next' \/ status'[e] = "done" => Unmounted(tracked'[e], Helped(e)')
      BY <1>u, <2>3, <3>1 DEF AccountedAt, Unmounted
    <3>4. ASSUME NEW j \in Workers, w'[j].at \in Active, w'[j].e = e
          PROVE  Finds(w'[j].at, tracked'[e], Helped(e)')
      <4>1. Finds(w[j].at, tracked[e], Helped(e))
        BY <1>u, <2>3, <3>4 DEF AccountedAt
      <4> QED
        BY <1>u, <3>1, <4>1 DEF Finds, Unmounted
    <3> QED
      BY <3>2, <3>3, <3>4 DEF AccountedAt
  <2> QED
    BY <1>u, <2>2, <2>3 DEF TraceInv, Accounted
<1>2. CASE CleanerGoesOn(c)
  <2>1. UNCHANGED <<helper, registry>>
    BY <1>2 DEF CleanerGoesOn, docker
  <2>2. ASSUME NEW e \in Exec
        PROVE  cleaning'[e] = cleaning[e] \/ (tracked[e] # "no" /\ cleaning'[e] = "await")
    <3>1. CASE cleaning' = cleaning
      BY <3>1
    <3>2. CASE cleaning' =
            [d \in Exec |-> IF d \in Live /\ cleaning[d] = "idle" THEN "await" ELSE cleaning[d]]
      <4>1. e \in Live => tracked[e] # "no"
        BY DEF Live
      <4>2. cleaning'[e] = IF e \in Live /\ cleaning[e] = "idle" THEN "await" ELSE cleaning[e]
        BY <3>2
      <4> QED
        BY <4>1, <4>2
    <3> QED
      BY <1>2, <3>1, <3>2 DEF CleanerGoesOn
  <2>3. TraceTypes'
    <3>1. cleaning' = cleaning \/ cleaning' =
            [e \in Exec |-> IF e \in Live /\ cleaning[e] = "idle" THEN "await" ELSE cleaning[e]]
      BY <1>2 DEF CleanerGoesOn
    <3> QED
      BY <1>t, <1>u, <2>1, <3>1 DEF TraceTypes
  <2>4. FreshAtFirst' /\ TerminalIsAlone'
    BY <1>t, <1>u, <2>1, <2>2 DEF FreshAtFirst, TerminalIsAlone
  <2>5. ASSUME NEW e \in Exec, AccountedAt(e) PROVE AccountedAt(e)'
    <3>1. Helped(e)' = Helped(e)
      BY <2>1 DEF Helped
    <3>2. Agree(tracked'[e], box'[e], cleaning'[e], Helped(e)')
      <4>1. Agree(tracked[e], box[e], cleaning[e], Helped(e))
        BY <2>5 DEF AccountedAt
      <4>2. CASE cleaning'[e] = cleaning[e]
        BY <1>u, <3>1, <4>1, <4>2
      <4>3. CASE tracked[e] # "no" /\ cleaning'[e] = "await"
        BY <1>u, <4>1, <4>3 DEF Agree
      <4> QED
        BY <2>2, <4>2, <4>3
    <3> QED
      BY <1>u, <2>5, <3>1, <3>2 DEF AccountedAt
  <2> QED
    BY <1>u, <2>3, <2>4, <2>5 DEF TraceInv, Accounted
<1> QED
  BY <1>1, <1>2

\* A container exits by itself.
LEMMA BoxExitsTraced ==
  ASSUME SessionInv, TraceInv, NEW e \in Exec, BoxExits(e)
  PROVE  TraceInv'
<1>t. TraceTypes /\ FreshAtFirst /\ TerminalIsAlone
  BY DEF TraceInv
<1>u. UNCHANGED <<cmd, next, status, tracked, cleaning, registry, helper, w>>
  BY DEF BoxExits, disk, pool, tracing
<1>1. \A d \in Exec : box'[d] = box[d] \/ (box[d] # "none" /\ box'[d] = "exited")
  BY <1>t DEF BoxExits, TraceTypes
<1>2. TraceTypes'
  BY <1>t, <1>u DEF BoxExits, TraceTypes
<1>3. FreshAtFirst' /\ TerminalIsAlone'
  BY <1>t, <1>u, <1>1 DEF FreshAtFirst, TerminalIsAlone
<1>4. ASSUME NEW d \in Exec, AccountedAt(d) PROVE AccountedAt(d)'
  <2>1. Helped(d)' = Helped(d)
    BY <1>u DEF Helped
  <2>2. Agree(tracked'[d], box'[d], cleaning'[d], Helped(d)')
    BY <1>u, <1>1, <1>4, <2>1 DEF AccountedAt, Agree
  <2> QED
    BY <1>u, <1>4, <2>1, <2>2 DEF AccountedAt
<1> QED
  BY <1>u, <1>2, <1>3, <1>4 DEF TraceInv, Accounted

\* The process ends or dies: what it knew is gone, and a container it had asked for may come.
LEMMA ProcessEndsTraced ==
  ASSUME SessionInv, TraceInv, Exit \/ Crash
  PROVE  TraceInv'
<1>t. TraceTypes /\ TerminalIsAlone
  BY DEF TraceInv
<1>1. cmd' = "off" /\ helper' = helper /\ status' = status /\ FreshMemory
  BY DEF Exit, Crash, disk, docker
<1>2. /\ tracked' = [e \in Exec |-> "no"] /\ cleaning' = [e \in Exec |-> "idle"]
      /\ registry' = {} /\ \A i \in Workers : w'[i].at = "idle"
  BY <1>1 DEF FreshMemory, All, Idle
<1>3. \A e \in Exec : box'[e] = box[e] \/ (box'[e] = "made" /\ status[e] # "done")
  <2>1. CASE Exit
    BY <2>1 DEF Exit, docker
  <2>2. CASE Crash
    <3>1. PICK made \in SUBSET {w[i].e : i \in {j \in Workers : w[j].at = "create"}} :
            box' = [e \in Exec |-> IF e \in made THEN "made" ELSE box[e]]
      BY <2>2 DEF Crash
    <3>2. \A e \in made : status[e] # "done"
      BY DEF SessionInv, ResultsFit, Fits, InSession
    <3> QED
      BY <3>1, <3>2
  <2> QED
    BY <2>1, <2>2
<1>4. box' \in [Exec -> {"none", "made", "up", "exited", "freed"}]
  BY <1>t DEF Exit, Crash, docker, TraceTypes
<1>5. TraceTypes'
  BY <1>t, <1>1, <1>2, <1>4 DEF TraceTypes, Opening
<1>6. FreshAtFirst' /\ Accounted'
  BY <1>1, <1>2 DEF FreshAtFirst, Accounted, Running
<1>7. TerminalIsAlone'
  BY <1>t, <1>1, <1>3 DEF TerminalIsAlone
<1> QED
  BY <1>5, <1>6, <1>7 DEF TraceInv

\* The invariant holds at first.
LEMMA TraceInitial == Init => TraceInv
<1> SUFFICES ASSUME Init PROVE TraceInv
  OBVIOUS
<1>1. TraceTypes
  BY DEF Init, TraceTypes, All, Opening
<1>2. FreshAtFirst
  BY DEF Init, FreshAtFirst, All, Idle
<1>3. Accounted /\ TerminalIsAlone
  BY DEF Init, Accounted, TerminalIsAlone, Running, All
<1> QED
  BY <1>1, <1>2, <1>3 DEF TraceInv

\* Every step keeps the invariant.
LEMMA TraceInvariant == Spec => [](SessionInv /\ TraceInv)
<1>1. SessionInv /\ TraceInv /\ [Next]_vars => TraceInv'
  <2> SUFFICES ASSUME SessionInv, TraceInv, [Next]_vars PROVE TraceInv'
    OBVIOUS
  <2>1. CASE UNCHANGED vars
    <3>1. UNCHANGED <<cmd, next, status, box, helper, tracked, cleaning, registry, w>>
      BY <2>1 DEF vars, disk, docker, pool, tracing
    <3>2. cmd' \in Opening \cup Running
      BY <3>1 DEF TraceInv, TraceTypes
    <3> QED
      BY <3>1, <3>2, CommandTraced
  <2>2. ASSUME Next PROVE TraceInv'
    <3>1. ASSUME NEW i \in Workers, WorkerStep(i), size' = size PROVE TraceInv'
      BY <3>1, TurnsTraced, PriorTraced, LaunchTraced, BeginCleanupTraced, TakeNextTraced
         DEF WorkerStep
    <3>2. ASSUME NEW e \in Exec, CleanupStep(e) \/ SweepStep(e) \/ BoxExits(e), size' = size
          PROVE  TraceInv'
      BY <3>2, CleanupTraced, SweepTraced, BoxExitsTraced
    <3> QED
      BY <2>2, <3>1, <3>2, CleanerTraced, CommandStepsTraced, SweepTraced, ProcessEndsTraced
         DEF Next, Progress
  <2> QED
    BY <2>1, <2>2
<1> QED
  BY <1>1, TraceInitial, SessionInvariant, PTL DEF Spec

\* A task that is terminal, so that no later command looks at it, has neither a container nor
\* a root helper on its artifacts, for any interleaving of the callers of its cleanup, any
\* failure of Docker and any crash of a command (cleanupTrackedContainer, runSession).
THEOREM SessionsTerminalIsAlone == Spec => []TerminalIsAlone
<1>1. TraceInv => TerminalIsAlone
  BY DEF TraceInv
<1> QED
  BY <1>1, TraceInvariant, PTL

\* The artifacts of a task are reset for a new session only when nothing at the daemon mounts
\* them any more, whatever the commands before left (reclaimPriorTask, runSession).
THEOREM SessionsResetAlone == Spec => ResetAlone
<1>1. SessionInv /\ TraceInv /\ [Next]_vars
      => [\A e \in home' \ home : box[e] = "none" /\ e \notin helper]_vars
  <2> SUFFICES ASSUME SessionInv, TraceInv, Next, NEW e \in home' \ home
               PROVE  box[e] = "none" /\ e \notin helper
    OBVIOUS
  <2>1. PICK i \in Workers : Reset(i)
    <3>1. ASSUME NEW i \in Workers, WorkerStep(i), ~Reset(i) PROVE home' \subseteq home
      BY <3>1 DEF WorkerStep, TakeNext, Image, Prior, PriorHelp, EnterLaunch, CreateReturns,
          Start, Attest, Wait, EnterCheck, Check, Caught, BeginCleanup, Accept, Record, Recorded,
          Catch, Noted, disk
    <3>2. ASSUME NEW d \in Exec, CleanupStep(d) \/ SweepStep(d) \/ BoxExits(d)
          PROVE  home' \subseteq home
      BY <3>2 DEF CleanupStep, CleanAwait, CleanStop, CleanHelp, CleanHelping, CleanRemove,
          SweepStep, SweepHelper, SweepStop, SweepRemove, BoxExits, disk
    <3>3. ASSUME NEW c \in Cleaner, CleanerStarts(c) \/ CleanerGoesOn(c)
                 \/ \E d \in Exec : CleanerHelper(c, d)
          PROVE  home' \subseteq home
      BY <3>3 DEF CleanerStarts, CleanerGoesOn, CleanerHelper, disk
    <3>4. ASSUME \/ StartCommand \/ Swept \/ SweepFails \/ Begin \/ Preflight \/ CleanEnds
                 \/ WorkersSettle \/ Retried \/ Finish \/ Exit \/ Crash
          PROVE  home' \subseteq home
      BY <3>4 DEF StartCommand, Swept, SweepFails, Begin, Preflight, CleanEnds, WorkersSettle,
          Retried, Finish, Exit, Crash, disk
    <3> QED
      BY <3>1, <3>2, <3>3, <3>4 DEF Next, Progress
  <2>2. w[i].at = "reset" /\ w[i].e = e /\ cmd = "work"
    BY <2>1 DEF Reset, At, disk
  <2>3. e \in Exec
    BY <2>2 DEF SessionInv, SessionTypes, WorkerStates
  <2>4. AccountedAt(e)
    BY <2>2, <2>3 DEF TraceInv, Accounted, Running
  <2>5. Unmounted(tracked[e], Helped(e)) /\ Agree(tracked[e], box[e], cleaning[e], Helped(e))
    BY <2>2, <2>4 DEF AccountedAt, Finds, Alone, Active, Resetting
  <2> QED
    BY <2>5 DEF Unmounted, Agree, Helped
<1> QED
  BY <1>1, TraceInvariant, PTL DEF ResetAlone, Spec

-----------------------------------------------------------------------------
(* SwebenchEval *)

\* The stages of run, resume and redo.
RunStages == {"unbind", "clear", "note", "sessions", "session"}
\* The stages of the evaluation of one arm.
EvalStages == {"collect", "inputs", "evaluator", "invocation", "statuses", "attempts", "publish", "next"}

\* The command under way.
Evaluators ==
  [at : {"off"} \cup RunStages \cup EvalStages, arm : Arms \cup Execs \cup {"none"},
   left : SUBSET (Arms \cup Execs), redo : SUBSET Execs]

\* Types of the variables.
EvalTypes ==
  /\ manifest \subseteq Execs
  /\ commands \in Nat
  /\ evaluator \in Evaluators
  /\ phase \in [Execs -> {"none", "pending", "session-done", "patched", "evaluated"}]
  /\ patch \in [Execs -> Nat]
  /\ verified \in [Execs -> Nat]
  /\ preds \in [Arms -> [Tasks -> Nat]]
  /\ result \in [Arms -> [inv : Nat, of : SUBSET Execs]]
  /\ batch \in [Arms -> [inv : Nat, of : [Tasks -> Nat]]]
  /\ judged \in [Execs -> Nat]

\* What a redo is about to clear has no verdict bound any more, nor has what a session
\* writes.
RedoStripped ==
  /\ evaluator.at \in {"clear", "note"} => evaluator.left \subseteq evaluator.redo
  /\ evaluator.at \in {"clear", "note", "sessions", "session"} =>
       \A x \in evaluator.redo : judged[x] = 0
  /\ evaluator.at = "note" => evaluator.arm \in evaluator.left
  /\ evaluator.at = "session" => evaluator.arm \in Execs /\ judged[evaluator.arm] = 0

\* Inputs, results and statuses of the arm under evaluation are those of what was
\* submitted, stage by stage.
BatchUnderWay ==
  LET a == evaluator.arm IN
  /\ evaluator.at \in EvalStages => a \in Arms /\ evaluator.left \subseteq Arms
  /\ evaluator.at \in {"evaluator", "invocation", "statuses", "attempts", "publish"} =>
       preds[a] = Judges(a)
  /\ evaluator.at \in {"invocation", "statuses", "attempts", "publish"} =>
       result[a].of \subseteq Submitted(a)
  /\ evaluator.at = "statuses" =>
       /\ evaluator.redo \subseteq Submitted(a)
       /\ \A x \in Submitted(a) : x \in evaluator.redo \/ phase[x] = "evaluated"
  /\ evaluator.at \in {"attempts", "publish"} => \A x \in Submitted(a) : phase[x] = "evaluated"
  /\ evaluator.at = "publish" => \A x \in Submitted(a) : verified[x] = commands

\* A bound verdict has its batch, its patch and a final status.
VerdictStands ==
  \A x \in Execs :
    /\ judged[x] <= commands
    /\ judged[x] # 0 => /\ batch[x[2]].inv = judged[x] /\ batch[x[2]].of[x[1]] = patch[x]
                        /\ phase[x] = "evaluated"

\* The inductive invariant of the evaluation.
EvalInv == EvalTypes /\ RedoStripped /\ BatchUnderWay /\ VerdictStands /\ AttemptSurvivesFirst

\* An execution is a task and an arm.
LEMMA ExecsPairs ==
  /\ \A x \in Execs : x[1] \in Tasks /\ x[2] \in Arms /\ x = <<x[1], x[2]>>
  /\ \A t \in Tasks, a \in Arms : <<t, a>> \in Execs /\ <<t, a>>[1] = t /\ <<t, a>>[2] = a
BY DEF Execs

\* The invariant holds at first.
LEMMA EvalInitial == EvalInit => EvalInv
<1> SUFFICES ASSUME EvalInit PROVE EvalInv
  OBVIOUS
<1>1. EvalTypes
  BY EvalAssumption DEF EvalInit, EvalTypes, Evaluators,  Off, NoPatches, NoResult, NoBatch
<1>2. RedoStripped /\ BatchUnderWay
  BY DEF EvalInit, Off, RedoStripped, BatchUnderWay, EvalStages
<1>3. VerdictStands /\ AttemptSurvivesFirst
  BY DEF EvalInit, VerdictStands, AttemptSurvivesFirst
<1> QED
  BY <1>1, <1>2, <1>3 DEF EvalInv

\* Every step keeps the types.
LEMMA TypesKept == EvalInv /\ [EvalNext]_evalVars => EvalTypes'
<1> SUFFICES ASSUME EvalInv, [EvalNext]_evalVars PROVE EvalTypes'
  OBVIOUS
<1> USE DEF EvalInv, EvalTypes, Evaluators, RunStages, EvalStages, EvalAt, GoTo, Off, tasks,
    files, receipt
<1>0. CASE UNCHANGED evalVars
  BY <1>0 DEF evalVars
<1>1. CASE EvalNext
  <2> SUFFICES ASSUME manifest' = manifest PROVE EvalTypes'
    BY <1>1 DEF EvalNext
  <2>1. CASE StartRun
    <3>1. PICK redo \in SUBSET manifest :
            evaluator' = [Off EXCEPT !.at = IF redo = {} THEN "sessions" ELSE "unbind", !.redo = redo]
      BY <2>1 DEF StartRun
    <3>2. evaluator' = [at |-> IF redo = {} THEN "sessions" ELSE "unbind", arm |-> "none",
                        left |-> {}, redo |-> redo]
      BY <3>1
    <3>3. (IF redo = {} THEN "sessions" ELSE "unbind") \in RunStages /\ redo \in SUBSET Execs
      OBVIOUS
    <3>4. evaluator' \in Evaluators
      BY <3>2, <3>3
    <3>5. commands' = commands + 1 /\ UNCHANGED <<tasks, verified, files, receipt>>
      BY <2>1 DEF StartRun
    <3> HIDE DEF Off, Evaluators
    <3> QED
      BY <3>4, <3>5
  <2>2. CASE Unbind
    BY <2>2 DEF Unbind, NoBatch, NoPatches
  <2>3. ASSUME NEW x \in manifest, Clear(x) PROVE EvalTypes'
    BY <2>3 DEF Clear
  <2>4. CASE Note
    BY <2>4 DEF Note
  <2>5. ASSUME NEW x \in manifest, Session(x) PROVE EvalTypes'
    <3>1. patch' \in [Execs -> Nat]
      <4>1. patch' = [patch EXCEPT ![x] = 0] \/ patch' = [patch EXCEPT ![x] = commands]
        BY <2>5 DEF Session
      <4>2. CASE patch' = [patch EXCEPT ![x] = 0]
        BY <4>2
      <4>3. CASE patch' = [patch EXCEPT ![x] = commands]
        BY <4>3
      <4> QED
        BY <4>1, <4>2, <4>3
    <3>2. /\ phase' = [phase EXCEPT ![x] = "pending"]
          /\ evaluator' = [evaluator EXCEPT !.at = "session", !.arm = x]
          /\ UNCHANGED <<commands, verified, files, receipt>>
      BY <2>5 DEF Session
    <3> QED
      BY <3>1, <3>2
  <2>6. CASE SessionEnds
    BY <2>6 DEF SessionEnds, RedoStripped
  <2>7. CASE StartEval
    <3>1. ArmOf \subseteq Arms
      BY ExecsPairs DEF ArmOf
    <3> QED
      <4>1. PICK a \in ArmOf :
                 evaluator' = [Off EXCEPT !.at = "collect", !.arm = a, !.left = ArmOf \ {a}]
        BY <2>7 DEF StartEval
      <4>2. evaluator' = [at |-> "collect", arm |-> a, left |-> ArmOf \ {a}, redo |-> {}]
        BY <4>1
      <4> HIDE DEF Off
      <4> QED
        BY <2>7, <3>1, <4>2 DEF StartEval
  <2>8. CASE Collect
    BY <2>8 DEF Collect, NoResult
  <2>9. CASE Inputs
    <3>1. \A a \in Arms : Judges(a) \in [Tasks -> Nat]
      BY ExecsPairs DEF Judges, Submitted
    <3> QED
      BY <2>9, <3>1 DEF Inputs, BatchUnderWay
  <2>10. CASE Evaluator
    <3>1. \A a : Submitted(a) \subseteq Execs
      BY DEF Submitted
    <3> QED
      <4>1. PICK answered \in SUBSET Submitted(evaluator.arm) :
              result' = [result EXCEPT ![evaluator.arm] =
                IF answered = {} THEN NoResult ELSE [inv |-> commands, of |-> answered]]
        BY <2>10 DEF Evaluator
      <4>2. (IF answered = {} THEN NoResult ELSE [inv |-> commands, of |-> answered])
              \in [inv : Nat, of : SUBSET Execs]
        BY <3>1 DEF NoResult
      <4>3. result' \in [Arms -> [inv : Nat, of : SUBSET Execs]]
        BY <4>1, <4>2
      <4> QED
        BY <2>10, <4>3 DEF Evaluator
  <2>11. CASE Invocation
    <3>1. \A a : Submitted(a) \subseteq Execs
      BY DEF Submitted
    <3> QED
      <4>1. \/ evaluator' = [evaluator EXCEPT !.at = "statuses", !.redo = Submitted(evaluator.arm)]
            \/ evaluator' = Off
        BY <2>11 DEF Invocation
      <4>2. CASE evaluator' = [evaluator EXCEPT !.at = "statuses", !.redo = Submitted(evaluator.arm)]
        <5>1. evaluator' \in Evaluators
          BY <3>1, <4>2
        <5> HIDE DEF Evaluators
        <5> QED
          BY <2>11, <5>1 DEF Invocation
      <4>3. CASE evaluator' = Off
        <5>1. evaluator' \in Evaluators
          BY <4>3
        <5> HIDE DEF Evaluators
        <5> QED
          BY <2>11, <5>1 DEF Invocation
      <4> QED
        BY <4>1, <4>2, <4>3
  <2>12. ASSUME NEW x \in manifest, StatusOf(x) PROVE EvalTypes'
    BY <2>12 DEF StatusOf, Evaluated
  <2>13. CASE StatusesDone
    BY <2>13 DEF StatusesDone, NextStage
  <2>14. CASE Attempts
    BY <2>14 DEF Attempts, NextStage
  <2>15. CASE Publish
    BY <2>15 DEF Publish, NextStage, Bound, BatchUnderWay
  <2>16. CASE NextArm
    <3>1. CASE evaluator' = Off
      BY <2>16, <3>1 DEF NextArm
    <3>2. ASSUME NEW a \in evaluator.left,
                 evaluator' = [evaluator EXCEPT !.at = "collect", !.arm = a, !.left = @ \ {a}]
          PROVE  EvalTypes'
      BY <2>16, <3>2 DEF NextArm
    <3> QED
      BY <2>16, <3>1, <3>2 DEF NextArm
  <2>17. CASE Stop
    BY <2>17 DEF Stop
  <2> QED
    BY <1>1, <2>1, <2>2, <2>3, <2>4, <2>5, <2>6, <2>7, <2>8, <2>9, <2>10, <2>11, <2>12, <2>13,
       <2>14, <2>15, <2>16, <2>17 DEF EvalNext
<1> QED
  BY <1>0, <1>1
\* Every step keeps what a redo has stripped.
LEMMA RedoStrippedKept == EvalInv /\ [EvalNext]_evalVars => RedoStripped'
<1> SUFFICES ASSUME EvalInv, [EvalNext]_evalVars PROVE RedoStripped'
  OBVIOUS
<1> USE DEF EvalInv, EvalTypes, Evaluators, RunStages, EvalStages, EvalAt, GoTo, RedoStripped
<1>0. CASE UNCHANGED evalVars
  BY <1>0 DEF evalVars, receipt
<1>1. CASE StartRun
  <2>1. evaluator'.at \in {"sessions", "unbind"}
    BY <1>1 DEF StartRun, Off
  <2>2. evaluator'.at = "sessions" => evaluator'.redo = {}
    BY <1>1 DEF StartRun, Off
  <2> QED
    BY <2>1, <2>2
<1>2. CASE Unbind
  <2>1. /\ evaluator'.at = "clear" /\ evaluator'.left = evaluator.redo
        /\ evaluator'.redo = evaluator.redo
    BY <1>2 DEF Unbind
  <2>2. \A x \in evaluator.redo : x \in Affected(evaluator.redo).execs
    BY DEF Affected
  <2>3. \A x \in evaluator.redo : judged'[x] = 0
    BY <1>2, <2>2 DEF Unbind
  <2> QED
    BY <2>1, <2>3
<1>3. ASSUME NEW x \in manifest, Clear(x) PROVE RedoStripped'
  BY <1>3 DEF Clear, receipt
<1>4. CASE Note
  BY <1>4 DEF Note, receipt
<1>5. ASSUME NEW x \in manifest, Session(x) PROVE RedoStripped'
  <2>1. x \in Execs /\ judged' = judged
    BY <1>5 DEF Session, receipt
  <2>2. evaluator'.at = "session" /\ evaluator'.arm = x /\ evaluator'.redo = evaluator.redo
    BY <1>5 DEF Session
  <2>3. judged[x] = 0
    BY <1>5 DEF Session, Terminal, VerdictStands
  <2>4. \A y \in evaluator.redo : judged[y] = 0
    BY <1>5 DEF Session
  <2> QED
    BY <2>1, <2>2, <2>3, <2>4
<1>6. CASE SessionEnds
  <2>1. judged' = judged /\ evaluator'.at = "sessions" /\ evaluator'.redo \subseteq evaluator.redo
    BY <1>6 DEF SessionEnds, receipt
  <2> QED
    BY <1>6, <2>1 DEF SessionEnds
<1>7. CASE StartEval
  <2>1. evaluator'.at = "collect"
    BY <1>7 DEF StartEval, Off
  <2> QED
    BY <2>1
<1>8. CASE Collect \/ Inputs \/ Evaluator \/ StatusesDone \/ Attempts \/ Publish
  <2>1. evaluator'.at \in EvalStages
    BY <1>8 DEF Collect, Inputs, Evaluator, StatusesDone, Attempts, Publish, NextStage
  <2> QED
    BY <2>1
<1>9. CASE Invocation
  <2>1. evaluator'.at \in {"statuses", "off"}
    <3>1. \/ evaluator' = [evaluator EXCEPT !.at = "statuses", !.redo = Submitted(evaluator.arm)]
          \/ evaluator' = Off
      BY <1>9 DEF Invocation
    <3>2. CASE evaluator' = [evaluator EXCEPT !.at = "statuses", !.redo = Submitted(evaluator.arm)]
      BY <3>2
    <3>3. CASE evaluator' = Off
      BY <3>3 DEF Off
    <3> QED
      BY <3>1, <3>2, <3>3
  <2> QED
    BY <2>1
<1>10. ASSUME NEW x \in manifest, StatusOf(x) PROVE RedoStripped'
  BY <1>10 DEF StatusOf
<1>11. CASE NextArm \/ Stop
  <2>1. evaluator'.at \in {"collect", "off"}
    <3>1. \/ evaluator' = Off
          \/ \E b \in evaluator.left :
               evaluator' = [evaluator EXCEPT !.at = "collect", !.arm = b, !.left = @ \ {b}]
      BY <1>11 DEF NextArm, Stop
    <3>2. CASE evaluator' = Off
      BY <3>2 DEF Off
    <3>3. ASSUME NEW b, evaluator' = [evaluator EXCEPT !.at = "collect", !.arm = b, !.left = @ \ {b}]
          PROVE  evaluator'.at \in {"collect", "off"}
      BY <3>3
    <3> QED
      BY <3>1, <3>2, <3>3
  <2> QED
    BY <2>1
<1> QED
  BY <1>0, <1>1, <1>2, <1>3, <1>4, <1>5, <1>6, <1>7, <1>8, <1>9, <1>10, <1>11 DEF EvalNext

\* What is submitted depends on the manifest and the patches only.
LEMMA SameSubmitted ==
  ASSUME manifest' = manifest, patch' = patch,
         \A x \in manifest : phase'[x] = "none" <=> phase[x] = "none"
  PROVE  \A b : Submitted(b)' = Submitted(b) /\ Judges(b)' = Judges(b)
<1>1. ASSUME NEW b PROVE Submitted(b)' = Submitted(b)
  <2>1. \A x : x \in Submitted(b)' <=> x \in Submitted(b)
    BY DEF Submitted
  <2> QED
    BY <2>1, Zenon
<1>2. ASSUME NEW b PROVE Judges(b)' = Judges(b)
  BY <1>1 DEF Judges
<1> QED
  BY <1>1, <1>2

\* Every step keeps the batch under way.
LEMMA BatchKept == EvalInv /\ [EvalNext]_evalVars => BatchUnderWay'
<1> SUFFICES ASSUME EvalInv, [EvalNext]_evalVars PROVE BatchUnderWay'
  OBVIOUS
<1> DEFINE a == evaluator.arm
<1> USE DEF EvalInv, EvalTypes, Evaluators, RunStages, EvalStages, EvalAt, GoTo
<1>s. manifest' = manifest /\ patch' = patch /\ phase' = phase =>
        \A b : Submitted(b)' = Submitted(b) /\ Judges(b)' = Judges(b)
  BY SameSubmitted
<1>r. evaluator'.at \in {"off"} \cup RunStages => BatchUnderWay'
  BY DEF BatchUnderWay
<1>0. CASE UNCHANGED evalVars
  <2>1. \A b : Submitted(b)' = Submitted(b) /\ Judges(b)' = Judges(b)
    BY <1>0, <1>s DEF evalVars, tasks
  <2> QED
    BY <1>0, <2>1 DEF evalVars, tasks, files, receipt, BatchUnderWay
<1>1. CASE StartRun
  <2>1. evaluator'.at \in RunStages
    BY <1>1 DEF StartRun, Off
  <2> QED
    BY <1>r, <2>1
<1>13. CASE Unbind \/ Note \/ SessionEnds
  <2>1. evaluator'.at \in {"off"} \cup RunStages
    BY <1>13 DEF Unbind, Note, SessionEnds
  <2> QED
    BY <1>r, <2>1
<1>14. CASE Stop
  <2>1. evaluator'.at = "off"
    BY <1>14 DEF Stop, Off
  <2> QED
    BY <1>r, <2>1
<1>2. ASSUME NEW x \in manifest, Clear(x) \/ Session(x) PROVE BatchUnderWay'
  <2>1. evaluator'.at \in {"off"} \cup RunStages
    BY <1>2 DEF Clear, Session
  <2> QED
    BY <1>r, <2>1
<1>3. CASE StartEval
  <2>1. ArmOf \subseteq Arms
    BY ExecsPairs DEF ArmOf
  <2>2. evaluator'.at = "collect" /\ evaluator'.arm \in Arms /\ evaluator'.left \subseteq Arms
    BY <1>3, <2>1 DEF StartEval, Off
  <2> QED
    BY <2>2 DEF BatchUnderWay
<1>m. manifest' = manifest
  BY DEF EvalNext, evalVars
<1>4. CASE Collect
  <2>1. evaluator'.at = "inputs" /\ evaluator'.arm \in Arms /\ evaluator'.left \subseteq Arms
    BY <1>4 DEF Collect, BatchUnderWay
  <2> QED
    BY <2>1 DEF BatchUnderWay
<1>5. CASE Inputs
  <2>1. evaluator'.at = "evaluator" /\ evaluator'.arm = a /\ a \in Arms
        /\ evaluator'.left \subseteq Arms
    BY <1>5 DEF Inputs, BatchUnderWay
  <2>2. preds'[a] = Judges(a)'
    <3>1. Judges(a)' = Judges(a)
      BY <1>5, <1>m, <1>s DEF Inputs, tasks
    <3> QED
      BY <1>5, <2>1, <3>1 DEF Inputs
  <2> QED
    BY <2>1, <2>2 DEF BatchUnderWay
<1>6. CASE Evaluator
  <2>1. evaluator'.at = "invocation" /\ evaluator'.arm = a /\ a \in Arms
        /\ evaluator'.left \subseteq Arms
    BY <1>6 DEF Evaluator, BatchUnderWay
  <2>2. Judges(a)' = Judges(a) /\ Submitted(a)' = Submitted(a)
    BY <1>6, <1>m, <1>s DEF Evaluator, tasks
  <2>3. preds'[a] = Judges(a)'
    BY <1>6, <2>2 DEF Evaluator, BatchUnderWay
  <2>4. result'[a].of \subseteq Submitted(a)'
    BY <1>6, <2>1, <2>2 DEF Evaluator, NoResult
  <2> QED
    BY <2>1, <2>3, <2>4 DEF BatchUnderWay
<1>7. CASE Invocation
  <2>1. CASE evaluator' = Off
    BY <2>1, <1>r DEF Off
  <2>2. CASE evaluator' = [evaluator EXCEPT !.at = "statuses", !.redo = Submitted(a)]
    <3>1. /\ evaluator'.at = "statuses" /\ evaluator'.arm = a /\ a \in Arms
          /\ evaluator'.left \subseteq Arms /\ evaluator'.redo = Submitted(a)
      BY <1>7, <2>2 DEF Invocation, BatchUnderWay
    <3>2. Judges(a)' = Judges(a) /\ Submitted(a)' = Submitted(a)
      BY <1>7, <1>m, <1>s, <3>1 DEF Invocation, tasks
    <3>3. preds'[a] = Judges(a)' /\ result'[a].of \subseteq Submitted(a)'
      BY <1>7, <3>2 DEF Invocation, BatchUnderWay
    <3> QED
      BY <3>1, <3>2, <3>3 DEF BatchUnderWay
  <2> QED
    BY <1>7, <2>1, <2>2 DEF Invocation
<1>8. ASSUME NEW x \in manifest, StatusOf(x) PROVE BatchUnderWay'
  <2>1. /\ evaluator'.at = "statuses" /\ evaluator'.arm = a /\ a \in Arms
        /\ evaluator'.left \subseteq Arms /\ evaluator'.redo = evaluator.redo \ {x}
    BY <1>8 DEF StatusOf, BatchUnderWay
  <2>2. phase' = [phase EXCEPT ![x] = "evaluated"] /\ x \in evaluator.redo
    BY <1>8 DEF StatusOf, Evaluated
  <2>3. phase[x] # "none"
    BY <1>8, <2>2 DEF StatusOf, BatchUnderWay, Submitted
  <2>4. Judges(a)' = Judges(a) /\ Submitted(a)' = Submitted(a)
    <3>1. \A y \in manifest : phase'[y] = "none" <=> phase[y] = "none"
      BY <2>2, <2>3
    <3>2. patch' = patch
      BY <1>8 DEF StatusOf
    <3> QED
      BY <1>m, <2>1, <3>1, <3>2, SameSubmitted
  <2>5. preds'[a] = Judges(a)' /\ result'[a].of \subseteq Submitted(a)'
    BY <1>8, <2>4 DEF StatusOf, files, BatchUnderWay
  <2>6. \A y \in Submitted(a) : y \in evaluator'.redo \/ phase'[y] = "evaluated"
    <3>1. \A y \in Submitted(a) : y \in Execs
      BY DEF Submitted
    <3> QED
      BY <1>8, <2>1, <2>2, <3>1 DEF StatusOf, BatchUnderWay
  <2>7. evaluator'.redo \subseteq Submitted(a)'
    BY <1>8, <2>1, <2>4 DEF StatusOf, BatchUnderWay
  <2> QED
    BY <2>1, <2>4, <2>5, <2>6, <2>7 DEF BatchUnderWay
<1>9. CASE StatusesDone
  <2>1. evaluator'.at = "attempts" /\ evaluator'.arm = a /\ a \in Arms
        /\ evaluator'.left \subseteq Arms
    BY <1>9 DEF StatusesDone, NextStage, BatchUnderWay
  <2>2. Judges(a)' = Judges(a) /\ Submitted(a)' = Submitted(a)
    BY <1>9, <1>m, <1>s DEF StatusesDone, tasks
  <2>3. preds'[a] = Judges(a)' /\ result'[a].of \subseteq Submitted(a)'
    BY <1>9, <2>2 DEF StatusesDone, files, BatchUnderWay
  <2>4. \A y \in Submitted(a)' : phase'[y] = "evaluated"
    BY <1>9, <2>2 DEF StatusesDone, tasks, BatchUnderWay
  <2> QED
    BY <2>1, <2>3, <2>4 DEF BatchUnderWay
<1>10. CASE Attempts
  <2>1. evaluator'.at = "publish" /\ evaluator'.arm = a /\ a \in Arms
        /\ evaluator'.left \subseteq Arms
    BY <1>10 DEF Attempts, NextStage, BatchUnderWay
  <2>2. Judges(a)' = Judges(a) /\ Submitted(a)' = Submitted(a)
    BY <1>10, <1>m, <1>s DEF Attempts, tasks
  <2>3. preds'[a] = Judges(a)' /\ result'[a].of \subseteq Submitted(a)'
    BY <1>10, <2>2 DEF Attempts, files, BatchUnderWay
  <2>4. \A y \in Submitted(a)' : phase'[y] = "evaluated"
    BY <1>10, <2>2 DEF Attempts, tasks, BatchUnderWay
  <2>5. \A y \in Submitted(a)' : verified'[y] = commands'
    <3>1. \A y \in Submitted(a) : y \in Execs
      BY DEF Submitted
    <3> QED
      BY <1>10, <2>2, <3>1 DEF Attempts
  <2> QED
    BY <2>1, <2>3, <2>4, <2>5 DEF BatchUnderWay
<1>11. CASE Publish
  <2>1. evaluator'.at = "next" /\ evaluator'.arm = a /\ a \in Arms /\ evaluator'.left \subseteq Arms
    BY <1>11 DEF Publish, NextStage, BatchUnderWay
  <2> QED
    BY <2>1 DEF BatchUnderWay
<1>12. CASE NextArm
  <2>1. CASE evaluator' = Off
    BY <2>1, <1>r DEF Off
  <2>2. ASSUME NEW b \in evaluator.left,
               evaluator' = [evaluator EXCEPT !.at = "collect", !.arm = b, !.left = @ \ {b}]
        PROVE  BatchUnderWay'
    <3>1. evaluator'.at = "collect" /\ evaluator'.arm \in Arms /\ evaluator'.left \subseteq Arms
      BY <1>12, <2>2 DEF NextArm, BatchUnderWay
    <3> QED
      BY <3>1 DEF BatchUnderWay
  <2> QED
    BY <1>12, <2>1, <2>2 DEF NextArm
<1> QED
  BY <1>0, <1>1, <1>2, <1>3, <1>4, <1>5, <1>6, <1>7, <1>8, <1>9, <1>10, <1>11, <1>12, <1>13,
      <1>14 DEF EvalNext
\* Every step keeps the verdicts and the attempts behind them.
LEMMA VerdictKept ==
  EvalInv /\ [EvalNext]_evalVars => VerdictStands' /\ AttemptSurvivesFirst'
<1> SUFFICES ASSUME EvalInv, [EvalNext]_evalVars PROVE VerdictStands' /\ AttemptSurvivesFirst'
  OBVIOUS
<1> DEFINE a == evaluator.arm
<1> USE DEF EvalInv, EvalTypes, VerdictStands, AttemptSurvivesFirst, EvalAt
<1>s. judged' = judged /\ batch' = batch /\ patch' = patch /\ phase' = phase
        /\ commands' \in Nat /\ commands <= commands' => VerdictStands'
  OBVIOUS
<1>v. judged' = judged /\ verified' = verified => AttemptSurvivesFirst'
  OBVIOUS
<1>0. CASE UNCHANGED evalVars
  BY <1>0, <1>s, <1>v DEF evalVars, receipt, tasks
<1>1. CASE StartRun \/ Note \/ StartEval \/ Collect \/ Inputs \/ Evaluator \/ Invocation
             \/ StatusesDone \/ Attempts \/ NextArm \/ Stop
  <2>1. /\ judged' = judged /\ batch' = batch /\ patch' = patch /\ phase' = phase
        /\ commands' \in Nat /\ commands <= commands'
    <3>1. CASE StartRun \/ StartEval
      <4>1. commands' = commands + 1 /\ UNCHANGED <<tasks, verified, files, receipt>>
        BY <3>1 DEF StartRun, StartEval
      <4> QED
        BY <4>1 DEF receipt, tasks
    <3>2. CASE Note \/ Collect \/ Inputs \/ Evaluator
      BY <3>2 DEF Note, Collect, Inputs, Evaluator, receipt, tasks
    <3>3. CASE Invocation \/ StatusesDone \/ Attempts \/ NextArm \/ Stop
      <4>1. UNCHANGED <<commands, tasks, receipt>>
        BY <3>3, Zenon DEF Invocation, StatusesDone, Attempts, NextArm, Stop
      <4> QED
        BY <4>1 DEF receipt, tasks
    <3> QED
      BY <1>1, <3>1, <3>2, <3>3
  <2>2. VerdictStands'
    BY <2>1, <1>s
  <2>3. CASE Note
    <3>1. judged[a] = 0 /\ verified' = [verified EXCEPT ![a] = 0] /\ a \in Execs
      BY <2>3 DEF Note, RedoStripped, Evaluators
    <3> QED
      BY <2>1, <2>2, <3>1
  <2>4. CASE Attempts
    <3>1. verified' = [x \in Execs |-> IF x \in Submitted(a) THEN commands ELSE verified[x]]
      BY <2>4 DEF Attempts
    <3> QED
      BY <2>1, <2>2, <3>1
  <2>5. CASE ~Note /\ ~Attempts
    <3>1. verified' = verified
      BY <1>1, <2>5 DEF StartRun, StartEval, Collect, Inputs, Evaluator, Invocation,
                StatusesDone, NextArm, Stop
    <3> QED
      BY <2>1, <2>2, <3>1, <1>v
  <2> QED
    BY <2>3, <2>4, <2>5
<1>2. CASE Unbind
  <2> DEFINE hit == Affected(evaluator.redo)
  <2>1. /\ batch' = [c \in Arms |-> IF c \in hit.arms THEN NoBatch ELSE batch[c]]
        /\ judged' = [x \in Execs |-> IF x \in hit.execs THEN 0 ELSE judged[x]]
        /\ UNCHANGED <<commands, phase, patch, verified>>
    BY <1>2 DEF Unbind, tasks
  <2>2. \A x \in Execs : x[2] \in hit.arms => x \in hit.execs
    BY DEF Affected
  <2>3. \A x \in Execs : x[2] \in Arms
    BY ExecsPairs
  <2> HIDE DEF hit
  <2>4. ASSUME NEW x \in Execs PROVE judged'[x] = 0
               \/ (judged'[x] = judged[x] /\ batch'[x[2]] = batch[x[2]])
    BY <2>1, <2>2, <2>3
  <2> QED
    BY <2>1, <2>4
<1>3. ASSUME NEW x \in manifest, Clear(x) PROVE VerdictStands' /\ AttemptSurvivesFirst'
  <2>1. judged[x] = 0 /\ x \in Execs
    BY <1>3 DEF Clear, RedoStripped
  <2>2. /\ phase' = [phase EXCEPT ![x] = "pending"] /\ patch' = [patch EXCEPT ![x] = 0]
        /\ UNCHANGED <<commands, verified, batch, judged>>
    BY <1>3 DEF Clear, receipt
  <2> QED
    BY <2>1, <2>2
<1>4. ASSUME NEW x \in manifest, Session(x) PROVE VerdictStands' /\ AttemptSurvivesFirst'
  <2>1. judged[x] = 0 /\ x \in Execs
    BY <1>4 DEF Session, RedoStripped, Terminal
  <2>2. /\ phase' = [phase EXCEPT ![x] = "pending"]
        /\ UNCHANGED <<commands, verified, batch, judged>>
    BY <1>4 DEF Session, receipt
  <2>3. \A y \in Execs : y # x => patch'[y] = patch[y]
    BY <1>4 DEF Session
  <2>4. \A y \in Execs : y # x => phase'[y] = phase[y]
    BY <2>2
  <2> QED
    BY <2>1, <2>2, <2>3, <2>4
<1>5. CASE SessionEnds
  <2>1. judged[a] = 0 /\ a \in Execs
    BY <1>5 DEF SessionEnds, RedoStripped
  <2>2. UNCHANGED <<commands, verified, batch, judged, patch>>
    BY <1>5 DEF SessionEnds, receipt
  <2>3. \A y \in Execs : y # a => phase'[y] = phase[y]
    BY <1>5 DEF SessionEnds
  <2> QED
    BY <2>1, <2>2, <2>3
<1>6. ASSUME NEW x \in manifest, StatusOf(x) PROVE VerdictStands' /\ AttemptSurvivesFirst'
  <2>1. phase' = [phase EXCEPT ![x] = "evaluated"]
        /\ UNCHANGED <<commands, verified, batch, judged, patch>>
    BY <1>6 DEF StatusOf, Evaluated, receipt
  <2> QED
    BY <2>1
<1>7. CASE Publish
  <2>1. /\ a \in Arms /\ preds[a] = Judges(a) /\ result[a].of \subseteq Submitted(a)
        /\ \A x \in Submitted(a) : phase[x] = "evaluated" /\ verified[x] = commands
    BY <1>7 DEF Publish, BatchUnderWay, EvalStages
  <2>2. /\ batch' = [batch EXCEPT ![a] = [inv |-> commands, of |-> preds[a]]]
        /\ judged' = [x \in Execs |-> Bound(x, a)]
        /\ UNCHANGED <<commands, phase, patch, verified>>
    BY <1>7 DEF Publish, tasks
  <2>3. ASSUME NEW x \in Execs
        PROVE  /\ judged'[x] <= commands /\ verified[x] >= judged'[x]
               /\ judged'[x] # 0 => /\ batch'[x[2]].inv = judged'[x]
                                    /\ batch'[x[2]].of[x[1]] = patch[x] /\ phase[x] = "evaluated"
    <3>0. x[1] \in Tasks /\ x[2] \in Arms /\ x = <<x[1], x[2]>>
      BY ExecsPairs
    <3>1. CASE x \in result[a].of
      <4>1. x \in Submitted(a) /\ x[2] = a
        BY <2>1, <3>1 DEF Submitted
      <4>2. Judges(a)[x[1]] = patch[x]
        <5>1. <<x[1], a>> = x
          BY <3>0, <4>1
        <5> HIDE DEF a
        <5>2. <<x[1], a>> \in Submitted(a)
          BY <4>1, <5>1
        <5>3. Judges(a)[x[1]] = patch[<<x[1], a>>]
          BY <3>0, <5>2 DEF Judges
        <5> QED
          BY <5>1, <5>3
      <4>3. judged'[x] = commands
        BY <2>2, <3>1 DEF Bound
      <4>4. batch'[a].inv = commands /\ batch'[a].of = preds[a]
        BY <2>1, <2>2
      <4> QED
        BY <2>1, <4>1, <4>2, <4>3, <4>4
    <3>2. CASE x \notin result[a].of /\ x[2] = a
      BY <2>2, <3>2 DEF Bound
    <3>3. CASE x \notin result[a].of /\ x[2] # a
      <4>1. judged'[x] = judged[x] /\ batch'[x[2]] = batch[x[2]]
        BY <2>2, <3>0, <3>3 DEF Bound
      <4> QED
        BY <4>1
    <3> QED
      BY <3>1, <3>2, <3>3
  <2> QED
    BY <2>2, <2>3
<1> QED
  BY <1>0, <1>1, <1>2, <1>3, <1>4, <1>5, <1>6, <1>7 DEF EvalNext

\* Every step keeps the invariant.
LEMMA EvalInvariant == EvalSpec => []EvalInv
<1>1. EvalInv /\ [EvalNext]_evalVars => EvalInv'
  BY TypesKept, RedoStrippedKept, BatchKept, VerdictKept DEF EvalInv
<1> QED
  BY EvalInitial, <1>1, PTL DEF EvalSpec

\* A verdict is bound only after the attempts it stands on were recorded, wherever a
\* command dies (evaluateArm).
THEOREM VerdictsAreCovered == EvalSpec => []AttemptSurvivesFirst
<1>1. EvalInv => AttemptSurvivesFirst
  BY DEF EvalInv
<1> QED
  BY EvalInvariant, <1>1, PTL

\* A verdict that counts was given on the patch the run holds, through any sessions,
\* redos, evaluations and crashes (evaluateArm, invalidateForRedo).
THEOREM VerdictsAreOfThePatch == EvalSpec => []CountedPatchWasJudged
<1>1. EvalInv => CountedPatchWasJudged
  BY DEF EvalInv, VerdictStands, CountedPatchWasJudged, Included
<1> QED
  BY EvalInvariant, <1>1, PTL

-----------------------------------------------------------------------------
(* MarathonRun *)

\* The steps of making the run directory.
Creating == {"mkdir", "wipe", "mark", "manifest", "state", "receipt", "clear"}
\* The steps of loading a run.
Reading == {"recover", "sweep", "close"}
\* The steps of a redo before any task.
Redoing == {"unbind", "rename", "reset", "note"}
\* Looking at one task.
Judging == {"task", "decide"}
\* The steps up to the spawn of Harbor.
Launching == {"attempt", "home", "label", "token", "spawn"}
\* The steps after it.
Collecting == {"wait", "cleanup", "bind", "finalize"}
\* The end of the invocation.
Ending == {"finish", "fail"}

\* The stages of a command that has an invocation.
Working == Redoing \cup Judging \cup Launching \cup Collecting \cup Ending
\* All stages of a command.
MarathonSteps == {"off", "begin"} \cup Creating \cup Reading \cup Working

\* The command under way.
Commands ==
  [at : MarathonSteps, n : Nat, kind : {"none", "run", "resume", "report"}, redo : SUBSET Task,
   task : Task, inv : Nat, run : Nat, unsafe : BOOLEAN]

\* An invocation of the run state.
Records == [open : BOOLEAN, unsettled : SUBSET Nat]

\* Types of the variables the proof looks at.
MarathonTypes ==
  /\ cli \in Commands
  /\ runs \in Nat
  /\ invs \in Seq(Records)
  /\ live \in [Task -> SUBSET (1..runs)]
  /\ job \in [Task -> [id : Nat, level : 0..5]]
  /\ bound \in [Task -> [id : Nat, level : 0..5, inv : Nat]]

\* before the run state nothing runs
NothingYet ==
  /\ dir \in {"none", "dir", "marked", "manifest"} => \A t \in Task : live[t] = {}
  /\ cli.at \in Creating => \A t \in Task : live[t] = {}
  /\ cli.at \in Reading \cup Working \cup {"begin"} =>
       dir \in {"state", "receipt", "ready"}

\* what runs is unsettled somewhere
LiveIsUnsettled ==
  \A t \in Task : \A r \in live[t] : \E i \in DOMAIN invs : r \in invs[i].unsettled

\* Nothing runs for the tasks a command has still to look at.
AheadIsQuiet ==
  /\ cli.at \in {"sweep", "close", "begin"} \cup Redoing => \A t \in Task : live[t] = {}
  /\ cli.at \in Judging \cup Launching => \A t \in Task : t >= cli.task => live[t] = {}
  /\ cli.at \in Collecting => \A t \in Task : t > cli.task => live[t] = {}

\* A command that works has its invocation, and what it launches is in the books before
\* it runs.
OwnRun ==
  /\ cli.at \in Working => cli.inv \in DOMAIN invs
  /\ cli.at \in {"home", "label", "token", "spawn", "wait"} =>
       /\ cli.run \in 1..runs
       /\ \A t \in Task : t # cli.task => cli.run \notin live[t]
  /\ cli.at = "spawn" => cli.run \in invs[cli.inv].unsettled
  /\ cli.at = "wait" => \A r \in live[cli.task] : r = cli.run

\* One process per task.
AtMostOne == \A t \in Task : \A r, s \in live[t] : r = s

\* The tasks of a redo stay unbound until their turn; a task that is launched has no
\* final result.
RedoIsUnbound ==
  /\ cli.at \in {"rename", "reset", "note"} => 
       /\ cli.task \in cli.redo
       /\ \A t \in cli.redo : bound[t] = NoBinding
  /\ cli.at \in Judging \cup Launching \cup {"wait", "cleanup", "bind"}
     => \A t \in cli.redo : t >= cli.task => bound[t] = NoBinding
  /\ cli.at = "finalize" => \A t \in cli.redo : t > cli.task => bound[t] = NoBinding
  /\ cli.at \in Launching \cup {"wait"} => bound[cli.task].level # Final
  /\ cli.at = "unbind" => cli.redo # {}

\* The inductive invariant of a Marathon run.
MarathonInv ==
  MarathonTypes /\ NothingYet /\ LiveIsUnsettled /\ AheadIsQuiet /\ OwnRun /\ AtMostOne
    /\ RedoIsUnbound /\ BoundIsFinal

\* Every non-empty set of numbers has a least one.
LEMMA Least == \A S \in SUBSET Nat : S # {} => \E m \in S : \A x \in S : m <= x
<1> SUFFICES ASSUME NEW S \in SUBSET Nat, S # {} PROVE \E m \in S : \A x \in S : m <= x
  OBVIOUS
<1> DEFINE R == OpToRel(<, Nat)
<1>1. IsWellFoundedOn(R, Nat)
  BY NatLessThanWellFounded
<1>2. \E m \in S : \A x \in S : <<x, m>> \notin R
  <2> HIDE DEF R
  <2> QED BY <1>1, WFMin
<1>3. \A x, y \in S : x < y => <<x, y>> \in R
  BY DEF OpToRel
<1>4. PICK m \in S : \A x \in S : <<x, m>> \notin R
  BY <1>2
<1>5. ASSUME NEW x \in S PROVE m <= x
  <2>1. ~ (x < m)
    <3> HIDE DEF R
    <3> QED BY <1>3, <1>4
  <2> QED BY <2>1
<1> QED BY <1>4, <1>5

\* What Min returns.
LEMMA MinOf ==
  ASSUME NEW S \in SUBSET Nat, S # {}
  PROVE  Min(S) \in S /\ \A x \in S : Min(S) <= x
<1>1. PICK m \in S : \A x \in S : m <= x
  BY Least
<1>2. \A z \in S : (\A y \in S : z <= y) => z = m
  BY <1>1
<1> QED BY <1>1, <1>2, Zenon DEF Min

\* Tasks are numbered from 1.
LEMMA TaskNumbers == /\ 1 \in Task /\ Task \subseteq Nat \ {0} /\ NTasks \in Task
               /\ \A t \in Task : t # NTasks => t + 1 \in Task
BY MarathonAssumption DEF Task

\* One step further: only the stage of the command changes.
LEMMA Moved ==
  ASSUME NEW c \in Commands, NEW s \in MarathonSteps
  PROVE  LET d == [c EXCEPT !.at = s]
         IN d \in Commands /\ d.at = s /\ d.redo = c.redo /\ d.task = c.task /\ d.inv = c.inv
           /\ d.run = c.run
BY DEF Commands

\* A fresh run starts at its first step.
LEMMA StartedRun ==
  ASSUME NEW k \in Nat, NEW s \in MarathonSteps
  PROVE  LET d == [OffRun EXCEPT !.n = k, !.kind = "run", !.at = s]
         IN d \in Commands /\ d.at = s /\ d.redo = {} /\ d.task = 1
BY TaskNumbers DEF Commands, OffRun

\* A command that is over.
LEMMA Ended ==
  ASSUME NEW k \in Nat
  PROVE  LET d == [OffRun EXCEPT !.n = k] IN d \in Commands /\ d.at = "off"
BY TaskNumbers DEF Commands, OffRun, MarathonSteps

\* On to the next task, or to the end.
LEMMA NextTaskIs ==
  ASSUME cli \in Commands, NextTask
  PROVE  /\ cli' \in Commands /\ cli'.redo = cli.redo /\ cli'.inv = cli.inv
         /\ \/ cli'.at = "finish" /\ cli'.task = 1
            \/ cli'.at = "task" /\ cli'.task = cli.task + 1
<1> DEFINE s == IF cli.task = NTasks THEN "finish" ELSE "task"
           t == IF cli.task = NTasks THEN 1 ELSE cli.task + 1
<1>1. s \in MarathonSteps /\ t \in Task
  BY TaskNumbers DEF Commands, MarathonSteps, Working, Judging, Ending
<1>2. cli' = [cli EXCEPT !.at = s, !.task = t, !.run = 0, !.unsafe = FALSE]
  BY DEF NextTask, Commands
<1> HIDE DEF s, t
<1>3. cli' \in Commands /\ cli'.at = s /\ cli'.task = t /\ cli'.redo = cli.redo
      /\ cli'.inv = cli.inv
  BY <1>1, <1>2 DEF Commands
<1> QED
  BY <1>3 DEF s, t

\* A step that changes the command and numbers runs.
LEMMA OnlyTheCommand ==
  ASSUME MarathonInv, UNCHANGED <<dir, invs, bound, job, live>>,
         cli' \in Commands, runs' \in Nat, runs' >= runs,
         NothingYet', AheadIsQuiet', OwnRun', RedoIsUnbound'
  PROVE  MarathonInv'
<1> USE DEF MarathonInv
<1>1. MarathonTypes'
  BY DEF MarathonTypes
<1>2. LiveIsUnsettled' /\ AtMostOne'
  BY DEF LiveIsUnsettled, AtMostOne
<1>3. BoundIsFinal'
  BY DEF RedoIsUnbound, BoundIsFinal, Launching
<1> QED
  BY <1>1, <1>2, <1>3

\* Between commands: nothing is said of the stage.
LEMMA Idles ==
  ASSUME MarathonInv, cli'.at = "off",
         dir' \in {"none", "dir", "marked", "manifest"} => \A t \in Task : live'[t] = {}
  PROVE  NothingYet' /\ AheadIsQuiet' /\ OwnRun' /\ RedoIsUnbound'
BY DEF NothingYet, AheadIsQuiet, OwnRun, RedoIsUnbound, MarathonSteps, Working, Creating,
    Reading, Redoing, Judging, Launching, Collecting, Ending

\* The steps of Harbor.
LEMMA HarborKeeps ==
  ASSUME MarathonInv, NEW t \in Task, HarborWrites(t) \/ HarborOpensBox(t) \/ HarborExits(t)
  PROVE  MarathonInv'
<1> USE DEF MarathonInv
<1>1. CASE HarborOpensBox(t)
  <2>1. UNCHANGED <<dir, invs, bound, job, live, cli, runs>>
    BY <1>1 DEF HarborOpensBox, created, stored, native
  <2> QED
    BY <2>1 DEF MarathonTypes, NothingYet, LiveIsUnsettled, AheadIsQuiet, OwnRun, AtMostOne,
        RedoIsUnbound, BoundIsFinal
<1>2. CASE HarborExits(t)
  <2>1. UNCHANGED <<dir, invs, bound, job, cli, runs>>
    BY <1>2 DEF HarborExits, created, stored, native
  <2>2. live' \in [Task -> SUBSET (1..runs)] /\ \A u \in Task : live'[u] \subseteq live[u]
    BY <1>2 DEF HarborExits, MarathonTypes
  <2>3. MarathonTypes' /\ RedoIsUnbound' /\ BoundIsFinal'
    BY <2>1, <2>2 DEF MarathonTypes, RedoIsUnbound, BoundIsFinal
  <2>4. NothingYet' /\ AheadIsQuiet'
    <3>1. \A u \in Task : live[u] = {} => live'[u] = {}
      BY <2>2
    <3> QED
      BY <2>1, <3>1 DEF NothingYet, AheadIsQuiet
  <2>5. LiveIsUnsettled' /\ AtMostOne'
    BY <2>1, <2>2 DEF LiveIsUnsettled, AtMostOne
  <2>6. OwnRun'
    <3>1. cli.task \in Task
      BY DEF MarathonTypes, Commands
    <3> QED
      BY <2>1, <2>2, <3>1 DEF OwnRun
  <2> QED
    BY <2>3, <2>4, <2>5, <2>6
<1>3. CASE HarborWrites(t)
  <2>1. UNCHANGED <<dir, invs, bound, live, cli, runs>>
    BY <1>3 DEF HarborWrites, created, stored, outside
  <2>2. PICK r \in live[t] : job' = [job EXCEPT ![t] =
            IF job[t].level \in {Nothing, Empty} THEN [id |-> r, level |-> Config]
            ELSE [id |-> job[t].id, level |-> job[t].level + 1]]
    BY <1>3 DEF HarborWrites
  <2>3. job[t].level < Final /\ job[t] \in [id : Nat, level : 0..5] /\ r \in Nat
    BY <1>3 DEF HarborWrites, MarathonTypes
  <2> DEFINE new == IF job[t].level \in {Nothing, Empty} THEN [id |-> r, level |-> Config]
                    ELSE [id |-> job[t].id, level |-> job[t].level + 1]
  <2>4. new \in [id : Nat, level : 0..5]
    BY <2>3 DEF Nothing, Empty, Config, Final
  <2>5. job' = [job EXCEPT ![t] = new]
    BY <2>2
  <2> HIDE DEF new
  <2>6. job' \in [Task -> [id : Nat, level : 0..5]] /\ \A u \in Task : u # t => job'[u] = job[u]
    BY <2>4, <2>5 DEF MarathonTypes
  <2>7. MarathonTypes'
    BY <2>1, <2>6 DEF MarathonTypes
  <2>8. BoundIsFinal'
    <3>1. \A u \in Task : bound[u].level = Final => job[u].level = Final
      BY DEF BoundIsFinal
    <3>2. \A u \in Task : bound[u].level = Final => u # t
      BY <2>3, <3>1 DEF Final
    <3> QED
      BY <2>1, <2>6, <3>2 DEF BoundIsFinal
  <2> QED
    BY <2>1, <2>7, <2>8 DEF NothingYet, LiveIsUnsettled, AheadIsQuiet, OwnRun, AtMostOne,
        RedoIsUnbound
<1> QED
  BY <1>1, <1>2, <1>3

\* A fresh run up to its invocation.
LEMMA CreationKeeps ==
  ASSUME MarathonInv, StartMarathon \/ RunRefused \/ Wipe \/ Create \/ CreateFails
  PROVE  MarathonInv'
<1> USE DEF MarathonAt, MarathonGoTo, Over
<1>u. UNCHANGED <<invs, bound, job, live, runs>> /\ runs \in Nat
  BY DEF StartMarathon, RunRefused, Wipe, Create, CreateFails, stored, native, outside,
      MarathonInv, MarathonTypes
<1>c. cli \in Commands /\ cli.n \in Nat /\ cli.n + 1 \in Nat
  BY DEF MarathonInv, MarathonTypes, Commands
<1>1. CASE StartMarathon
  <2>1. dir' = dir /\ dir \in {"none", "dir", "marked"}
    BY <1>1 DEF StartMarathon
  <2>2. PICK s \in {"mkdir", "wipe"} :
             cli' = [OffRun EXCEPT !.n = cli.n + 1, !.kind = "run", !.at = s]
    BY <1>1 DEF StartMarathon
  <2>3. cli' \in Commands /\ cli'.at \in {"mkdir", "wipe"}
    <3>1. s \in MarathonSteps
      BY DEF MarathonSteps, Creating
    <3> QED
      BY <1>c, <2>2, <3>1, StartedRun
  <2>4. \A t \in Task : live[t] = {}
    BY <2>1 DEF MarathonInv, NothingYet
  <2>5. NothingYet' /\ AheadIsQuiet' /\ OwnRun' /\ RedoIsUnbound'
    BY <1>u, <2>1, <2>3, <2>4 DEF NothingYet, AheadIsQuiet, OwnRun, RedoIsUnbound, Working,
        Creating, Reading, Redoing,
       Judging, Launching, Collecting, Ending
  <2> QED
    BY <1>u, <2>1, <2>3, <2>5, OnlyTheCommand
<1>2. CASE RunRefused
  <2>1. dir' = dir /\ cli' \in Commands /\ cli'.at = "off"
    BY <1>2, <1>c, Ended DEF RunRefused
  <2>2. NothingYet' /\ AheadIsQuiet' /\ OwnRun' /\ RedoIsUnbound'
    BY <1>u, <2>1, Idles DEF MarathonInv, NothingYet
  <2> QED
    BY <1>u, <2>1, <2>2, OnlyTheCommand
<1>3. CASE Wipe \/ Create
  <2>1. cli.at \in Creating
    BY <1>3 DEF Wipe, Create, Creating
  <2>2. \A t \in Task : live[t] = {}
    BY <2>1 DEF MarathonInv, NothingYet
  <2>3. PICK s \in Creating \cup {"begin"} : cli' = [cli EXCEPT !.at = s]
             /\ (s = "begin" => dir' = "ready")
    BY <1>3 DEF Wipe, Create, Creating
  <2>4. cli' \in Commands /\ cli'.at = s
    <3>1. s \in MarathonSteps
      BY DEF MarathonSteps
    <3> QED
      BY <1>c, <2>3, <3>1, Moved
  <2>5. NothingYet' /\ AheadIsQuiet' /\ OwnRun' /\ RedoIsUnbound'
    BY <1>u, <2>2, <2>3, <2>4 DEF NothingYet, AheadIsQuiet, OwnRun, RedoIsUnbound, Working,
        Creating, Reading, Redoing,
       Judging, Launching, Collecting, Ending
  <2>6. MarathonTypes'
    BY <1>u, <2>4 DEF MarathonInv, MarathonTypes
  <2>7. BoundIsFinal' /\ LiveIsUnsettled' /\ AtMostOne'
    BY <1>u, <2>3, <2>4 DEF MarathonInv, BoundIsFinal, LiveIsUnsettled, AtMostOne, Creating
  <2> QED
    BY <2>5, <2>6, <2>7 DEF MarathonInv
<1>4. CASE CreateFails
  <2>1. cli.at \in Creating
    BY <1>4 DEF CreateFails, Creating
  <2>2. \A t \in Task : live[t] = {}
    BY <2>1 DEF MarathonInv, NothingYet
  <2>3. cli' \in Commands /\ cli'.at = "off"
    BY <1>4, <1>c, Ended DEF CreateFails
  <2>4. NothingYet' /\ AheadIsQuiet' /\ OwnRun' /\ RedoIsUnbound'
    BY <1>u, <2>2, <2>3, Idles
  <2>5. MarathonTypes' /\ BoundIsFinal' /\ LiveIsUnsettled' /\ AtMostOne'
    BY <1>u, <2>3 DEF MarathonInv, MarathonTypes, BoundIsFinal, LiveIsUnsettled, AtMostOne
  <2> QED
    BY <2>4, <2>5 DEF MarathonInv
<1> QED
  BY <1>1, <1>2, <1>3, <1>4

\* Where the run state is, nothing before it is missing.
LEMMA ReadyIsThere ==
  ASSUME Reached("state"), dir \in {"none", "dir", "marked", "manifest"}
  PROVE  FALSE
<1>1. PICK i, j \in 1..7 : Stages[i] = "state" /\ Stages[j] = dir /\ i <= j
  BY DEF Reached, Stages
<1>2. i = 5
  BY <1>1 DEF Stages
<1>3. j \in {5, 6, 7}
  BY <1>1, <1>2
<1> QED
  BY <1>1, <1>3 DEF Stages

\* Loading a run and settling what it left.
LEMMA RecoveryKeeps ==
  ASSUME MarathonInv, StartResume \/ Recover \/ Sweep \/ Close
  PROVE  MarathonInv'
<1> USE DEF MarathonAt, MarathonGoTo, Over
<1>u. UNCHANGED <<dir, bound, job, runs>> /\ runs \in Nat
  <2>1. CASE StartResume
    BY <2>1 DEF StartResume, created, stored, native, MarathonInv, MarathonTypes
  <2>2. CASE Recover
    BY <2>2 DEF Recover, created, native, MarathonInv, MarathonTypes
  <2>3. CASE Sweep
    BY <2>3 DEF Sweep, created, stored, native, MarathonInv, MarathonTypes
  <2>4. CASE Close
    BY <2>4 DEF Close, created, native, MarathonInv, MarathonTypes
  <2> QED
    BY <2>1, <2>2, <2>3, <2>4
<1>c. cli \in Commands /\ cli.n \in Nat /\ cli.n + 1 \in Nat
  BY DEF MarathonInv, MarathonTypes, Commands
<1>s. {"recover", "sweep", "close", "begin"} \subseteq MarathonSteps
  BY DEF MarathonSteps, Reading
<1>1. CASE StartResume
  <2>1. UNCHANGED <<invs, live>> /\ Reached("state")
    BY <1>1 DEF StartResume, stored, outside
  <2>2. PICK kind \in {"resume", "report"}, redo \in SUBSET Task :
          cli' = [OffRun EXCEPT !.n = cli.n + 1, !.kind = kind, !.redo = redo, !.at = "recover"]
    BY <1>1 DEF StartResume
  <2>3. cli' \in Commands /\ cli'.at = "recover"
    <3>1. kind \in {"none", "run", "resume", "report"}
      OBVIOUS
    <3> QED
      <4>1. "recover" \in MarathonSteps
        BY <1>s
      <4> DEFINE new == [OffRun EXCEPT !.n = cli.n + 1, !.kind = kind, !.redo = redo, !.at = "recover"]
      <4>2. new \in Commands /\ new.at = "recover"
        BY <1>c, <2>2, <3>1, <4>1, TaskNumbers DEF Commands, OffRun
      <4> QED
        BY <2>2, <4>2, Zenon
  <2>4. dir \notin {"none", "dir", "marked", "manifest"}
    BY <2>1, ReadyIsThere
  <2>5. dir \in {"none", "dir", "marked", "manifest", "state", "receipt", "ready"}
    BY <2>1 DEF Reached, Stages
  <2>6. NothingYet' /\ AheadIsQuiet' /\ OwnRun' /\ RedoIsUnbound'
    BY <1>u, <2>3, <2>4, <2>5 DEF NothingYet, AheadIsQuiet, OwnRun, RedoIsUnbound, Working,
        Creating, Reading, Redoing,
       Judging, Launching, Collecting, Ending
  <2> QED
    BY <1>u, <2>1, <2>3, <2>6, OnlyTheCommand
<1>2. CASE Recover
  <2>0. cli.at = "recover" /\ dir \in {"state", "receipt", "ready"}
    BY <1>2 DEF Recover, MarathonInv, NothingYet, Reading
  <2>1. PICK settled \in SUBSET Unsettled :
          /\ Settle(settled)
          /\ live' = [t \in Task |-> live[t] \ Killed(settled)]
          /\ IF settled # Unsettled THEN Over
             ELSE MarathonGoTo(IF Open # {} \/ UnsafeAttempt THEN "sweep" ELSE "begin")
    BY <1>2 DEF Recover
  <2>2. /\ invs' \in Seq(Records)
        /\ DOMAIN invs' = DOMAIN invs
        /\ \A i \in DOMAIN invs : invs'[i].unsettled = invs[i].unsettled \ settled
    <3>1. invs' = [i \in DOMAIN invs |-> [invs[i] EXCEPT !.unsettled = @ \ settled]]
      BY <2>1 DEF Settle
    <3>2. invs \in Seq(Records)
      BY DEF MarathonInv, MarathonTypes
    <3>3. ASSUME NEW i \in DOMAIN invs
          PROVE  /\ [invs[i] EXCEPT !.unsettled = @ \ settled] \in Records
                 /\ [invs[i] EXCEPT !.unsettled = @ \ settled].unsettled = invs[i].unsettled \ settled
      <4>1. invs[i] \in Records
        BY <3>2
      <4> QED
        BY <4>1 DEF Records
    <3> DEFINE new(i) == [invs[i] EXCEPT !.unsettled = @ \ settled]
    <3>4. \A i \in DOMAIN invs : new(i) \in Records
          /\ new(i).unsettled = invs[i].unsettled \ settled
      BY <3>3
    <3>5. invs' = [i \in DOMAIN invs |-> new(i)]
      BY <3>1
    <3> HIDE DEF new
    <3>6. DOMAIN invs = 1..Len(invs) /\ Len(invs) \in Nat
      BY <3>2
    <3>7. invs' \in [1..Len(invs) -> Records]
      BY <3>4, <3>5, <3>6
    <3>8. \A i \in DOMAIN invs : invs'[i].unsettled = invs[i].unsettled \ settled
      BY <3>4, <3>5
    <3> QED
      BY <3>6, <3>7, <3>8
  <2>3. \A t \in Task : live'[t] = live[t] \ settled
    BY <2>1 DEF Killed
  <2>4. live' \in [Task -> SUBSET (1..runs)]
    BY <2>1 DEF Killed, MarathonInv, MarathonTypes
  <2>5. LiveIsUnsettled' /\ AtMostOne'
    BY <2>2, <2>3 DEF MarathonInv, LiveIsUnsettled, AtMostOne
  <2>6. settled = Unsettled => \A t \in Task : live'[t] = {}
    BY <2>3 DEF Unsettled, MarathonInv, LiveIsUnsettled
  <2>7. cli' \in Commands /\ cli'.at \in {"off", "sweep", "begin"}
        /\ (cli'.at # "off" => settled = Unsettled)
    <3>1. CASE settled # Unsettled
      BY <1>c, <2>1, <3>1, Ended
    <3>2. CASE settled = Unsettled
      <4>1. PICK s \in {"sweep", "begin"} : cli' = [cli EXCEPT !.at = s]
        BY <2>1, <3>2
      <4> QED
        BY <1>c, <1>s, <4>1, <3>2, Moved
    <3> QED
      BY <3>1, <3>2
  <2>8. NothingYet' /\ AheadIsQuiet' /\ OwnRun' /\ RedoIsUnbound'
    BY <1>u, <2>0, <2>6, <2>7 DEF NothingYet, AheadIsQuiet, OwnRun, RedoIsUnbound, Working,
        Creating, Reading, Redoing,
       Judging, Launching, Collecting, Ending
  <2>9. MarathonTypes'
    BY <1>u, <2>2, <2>4, <2>7 DEF MarathonInv, MarathonTypes
  <2>10. BoundIsFinal'
    BY <1>u, <2>7 DEF MarathonInv, BoundIsFinal
  <2> QED
    BY <2>5, <2>8, <2>9, <2>10 DEF MarathonInv
<1>3. CASE Sweep
  <2>1. UNCHANGED <<invs, live>> /\ cli.at = "sweep"
    BY <1>3 DEF Sweep, stored
  <2>2. cli' = [cli EXCEPT !.at = "close"] \/ cli' = [OffRun EXCEPT !.n = cli.n]
    BY <1>3 DEF Sweep
  <2>3. cli' \in Commands /\ cli'.at \in {"off", "close"}
    <3>1. CASE cli' = [cli EXCEPT !.at = "close"]
      BY <1>c, <1>s, <3>1, Moved
    <3>2. CASE cli' = [OffRun EXCEPT !.n = cli.n]
      BY <1>c, <3>2, Ended
    <3> QED
      BY <2>2, <3>1, <3>2
  <2>4. (\A t \in Task : live[t] = {}) /\ dir \in {"state", "receipt", "ready"}
    BY <2>1 DEF MarathonInv, AheadIsQuiet, NothingYet, Reading
  <2>5. NothingYet' /\ AheadIsQuiet' /\ OwnRun' /\ RedoIsUnbound'
    BY <1>u, <2>1, <2>3, <2>4 DEF NothingYet, AheadIsQuiet, OwnRun, RedoIsUnbound, Working,
        Creating, Reading, Redoing,
       Judging, Launching, Collecting, Ending
  <2> QED
    BY <1>u, <2>1, <2>3, <2>5, OnlyTheCommand
<1>4. CASE Close
  <2>1. UNCHANGED <<live>> /\ cli.at = "close"
    BY <1>4 DEF Close, outside
  <2>2. /\ invs' \in Seq(Records)
        /\ DOMAIN invs' = DOMAIN invs
        /\ \A i \in DOMAIN invs : invs'[i].unsettled = invs[i].unsettled
    <3>1. invs' = [i \in DOMAIN invs |-> [invs[i] EXCEPT !.open = FALSE]]
      BY <1>4 DEF Close
    <3>2. invs \in Seq(Records)
      BY DEF MarathonInv, MarathonTypes
    <3>3. ASSUME NEW i \in DOMAIN invs
          PROVE  /\ [invs[i] EXCEPT !.open = FALSE] \in Records
                 /\ [invs[i] EXCEPT !.open = FALSE].unsettled = invs[i].unsettled
      <4>1. invs[i] \in Records
        BY <3>2
      <4> QED
        BY <4>1 DEF Records
    <3> DEFINE new(i) == [invs[i] EXCEPT !.open = FALSE]
    <3>4. \A i \in DOMAIN invs : new(i) \in Records /\ new(i).unsettled = invs[i].unsettled
      BY <3>3
    <3>5. invs' = [i \in DOMAIN invs |-> new(i)]
      BY <3>1
    <3> HIDE DEF new
    <3>6. DOMAIN invs = 1..Len(invs) /\ Len(invs) \in Nat
      BY <3>2
    <3>7. invs' \in [1..Len(invs) -> Records]
      BY <3>4, <3>5, <3>6
    <3>8. \A i \in DOMAIN invs : invs'[i].unsettled = invs[i].unsettled
      BY <3>4, <3>5
    <3> QED
      BY <3>6, <3>7, <3>8
  <2>3. cli' \in Commands /\ cli'.at = "begin"
    BY <1>4, <1>c, <1>s, Moved DEF Close
  <2>4. (\A t \in Task : live[t] = {}) /\ dir \in {"state", "receipt", "ready"}
    BY <2>1 DEF MarathonInv, AheadIsQuiet, NothingYet, Reading
  <2>5. NothingYet' /\ AheadIsQuiet' /\ OwnRun' /\ RedoIsUnbound'
    BY <1>u, <2>1, <2>3, <2>4 DEF NothingYet, AheadIsQuiet, OwnRun, RedoIsUnbound, Working,
        Creating, Reading, Redoing,
       Judging, Launching, Collecting, Ending
  <2>6. LiveIsUnsettled' /\ AtMostOne'
    BY <2>1, <2>2 DEF MarathonInv, LiveIsUnsettled, AtMostOne
  <2>7. MarathonTypes' /\ BoundIsFinal'
    BY <1>u, <2>1, <2>2, <2>3 DEF MarathonInv, MarathonTypes, BoundIsFinal
  <2> QED
    BY <2>5, <2>6, <2>7 DEF MarathonInv
<1> QED
  BY <1>1, <1>2, <1>3, <1>4

\* The invocation begins, ends or dies.
LEMMA InvocationKeeps ==
  ASSUME MarathonInv, BeginInvocation \/ FinishInvocation \/ MarathonDies
  PROVE  MarathonInv'
<1> USE DEF MarathonAt, MarathonGoTo, Over
<1>u. UNCHANGED <<dir, bound, job, live, runs>> /\ runs \in Nat
  BY DEF BeginInvocation, FinishInvocation, MarathonDies, created, stored, native, outside,
      MarathonInv, MarathonTypes
<1>c. cli \in Commands /\ cli.n \in Nat
  BY DEF MarathonInv, MarathonTypes, Commands
<1>i. invs \in Seq(Records)
  BY DEF MarathonInv, MarathonTypes
<1>o. ASSUME cli'.at = "off", cli' \in Commands, DOMAIN invs' = DOMAIN invs,
             invs' \in Seq(Records),
             \A i \in DOMAIN invs : invs'[i].unsettled = invs[i].unsettled
      PROVE  MarathonInv'
  <2>1. NothingYet' /\ AheadIsQuiet' /\ OwnRun' /\ RedoIsUnbound'
    BY <1>u, <1>o, Idles DEF MarathonInv, NothingYet
  <2>2. LiveIsUnsettled' /\ AtMostOne'
    BY <1>u, <1>o DEF MarathonInv, LiveIsUnsettled, AtMostOne
  <2>3. MarathonTypes' /\ BoundIsFinal'
    BY <1>u, <1>o DEF MarathonInv, MarathonTypes, BoundIsFinal
  <2> QED
    BY <2>1, <2>2, <2>3 DEF MarathonInv
<1>1. CASE BeginInvocation
  <2>0. /\ \A t \in Task : live[t] = {}
        /\ dir \in {"state", "receipt", "ready"}
    BY <1>1 DEF BeginInvocation, MarathonInv, AheadIsQuiet, NothingYet
  <2>1. CASE Over /\ UNCHANGED invs
    BY <1>c, <1>i, <1>o, <2>1, Ended
  <2>2. CASE /\ invs' = Append(invs, [open |-> TRUE, unsettled |-> {}])
             /\ cli' = [cli EXCEPT !.inv = Len(invs) + 1,
                     !.at = CASE cli.kind = "report" -> "finish" [] cli.redo # {} -> "unbind"
                              [] OTHER -> "task"]
    <3> DEFINE s == CASE cli.kind = "report" -> "finish" [] cli.redo # {} -> "unbind"
               [] OTHER -> "task"
    <3>1. s \in {"finish", "unbind", "task"} /\ (s = "unbind" => cli.redo # {})
          /\ (s = "task" => cli.redo = {})
      OBVIOUS
    <3>2. s \in MarathonSteps /\ Len(invs) + 1 \in Nat
      BY <1>i, <3>1 DEF MarathonSteps, Working, Redoing, Judging, Ending
    <3>3. cli' = [cli EXCEPT !.inv = Len(invs) + 1, !.at = s]
      BY <2>2
    <3> HIDE DEF s
    <3>4. cli' \in Commands /\ cli'.at = s /\ cli'.redo = cli.redo /\ cli'.task = cli.task
          /\ cli'.inv = Len(invs) + 1
      <4> DEFINE k == Len(invs) + 1
                 new == [cli EXCEPT !.inv = k, !.at = s]
      <4>1. /\ new \in Commands /\ new.at = s /\ new.redo = cli.redo /\ new.task = cli.task
            /\ new.inv = k
        <5>1. k \in Nat
          BY <3>2
        <5> HIDE DEF k
        <5> QED
          BY <1>c, <3>2, <5>1 DEF Commands
      <4> QED
        BY <3>3, <4>1, Zenon
    <3>5. /\ invs' \in Seq(Records)
          /\ cli'.inv \in DOMAIN invs'
      BY <1>i, <2>2, <3>4 DEF Records
    <3>6. NothingYet' /\ AheadIsQuiet' /\ OwnRun' /\ RedoIsUnbound'
      BY <1>u, <2>0, <3>1, <3>4, <3>5 DEF NothingYet, AheadIsQuiet, OwnRun, RedoIsUnbound,
          Working, Creating, Reading, Redoing,
         Judging, Launching, Collecting, Ending
    <3>7. LiveIsUnsettled' /\ AtMostOne'
      BY <1>u, <2>0 DEF LiveIsUnsettled, AtMostOne
    <3>8. MarathonTypes' /\ BoundIsFinal'
      BY <1>u, <3>1, <3>4, <3>5 DEF MarathonInv, MarathonTypes, BoundIsFinal
    <3> QED
      BY <3>6, <3>7, <3>8 DEF MarathonInv
  <2> QED
    BY <1>1, <2>1, <2>2 DEF BeginInvocation
<1>2. CASE FinishInvocation
  <2>1. cli' \in Commands /\ cli'.at = "off"
    BY <1>2, <1>c, Ended DEF FinishInvocation
  <2>2. invs' = IF MayEnd THEN [invs EXCEPT ![cli.inv].open = FALSE] ELSE invs
    BY <1>2 DEF FinishInvocation
  <2>3. cli.inv \in DOMAIN invs
    BY <1>2 DEF FinishInvocation, MarathonInv, OwnRun, Working, Ending
  <2>4. /\ invs' \in Seq(Records) /\ DOMAIN invs' = DOMAIN invs
        /\ \A i \in DOMAIN invs : invs'[i].unsettled = invs[i].unsettled
    <3> DEFINE new == [invs[cli.inv] EXCEPT !.open = FALSE]
    <3>1. new \in Records /\ new.unsettled = invs[cli.inv].unsettled
      <4>1. invs[cli.inv] \in Records
        BY <1>i, <2>3
      <4> QED
        BY <4>1 DEF Records
    <3>2. invs' = invs \/ invs' = [invs EXCEPT ![cli.inv] = new]
      BY <2>2
    <3> HIDE DEF new
    <3> QED
      BY <1>i, <2>3, <3>1, <3>2
  <2> QED
    BY <1>o, <2>1, <2>4
<1>3. CASE MarathonDies
  BY <1>3, <1>c, <1>i, <1>o, Ended DEF MarathonDies, stored
<1> QED
  BY <1>1, <1>2, <1>3

\* A redo takes bindings and old jobs away.
LEMMA RedoKeeps ==
  ASSUME MarathonInv, UnbindRedone \/ Rename \/ ResetTasks \/ NoteRedo
  PROVE  MarathonInv'
<1> USE DEF MarathonAt, MarathonGoTo
<1>u. UNCHANGED <<dir, invs, live, runs>> /\ runs \in Nat
  <2>1. CASE UnbindRedone
    BY <2>1 DEF UnbindRedone, created, outside, MarathonInv, MarathonTypes
  <2>2. CASE Rename
    BY <2>2 DEF Rename, created, stored, outside, MarathonInv, MarathonTypes
  <2>3. CASE ResetTasks
    BY <2>3 DEF ResetTasks, created, stored, outside, MarathonInv, MarathonTypes
  <2>4. CASE NoteRedo
    BY <2>4 DEF NoteRedo, created, outside, MarathonInv, MarathonTypes
  <2> QED
    BY <2>1, <2>2, <2>3, <2>4
<1>c. cli \in Commands /\ cli.task \in Task /\ cli.redo \in SUBSET Task /\ cli.at \in Redoing
  BY DEF MarathonInv, MarathonTypes, Commands, Redoing, UnbindRedone, Rename, ResetTasks, NoteRedo
<1>s. {"rename", "reset", "note", "task", "fail"} \subseteq MarathonSteps
  BY DEF MarathonSteps, Working, Redoing, Judging, Ending
<1>q. /\ \A t \in Task : live[t] = {}
      /\ dir \in {"state", "receipt", "ready"}
      /\ cli.inv \in DOMAIN invs
  BY <1>c DEF MarathonInv, AheadIsQuiet, NothingYet, OwnRun, Working, Redoing
<1>l. LiveIsUnsettled' /\ AtMostOne'
  BY <1>u DEF MarathonInv, LiveIsUnsettled, AtMostOne
<1>n. ASSUME cli'.at \in {"rename", "reset", "note", "task", "fail"}, cli'.inv = cli.inv
      PROVE  NothingYet' /\ AheadIsQuiet' /\ OwnRun'
  BY <1>u, <1>q, <1>n DEF NothingYet, AheadIsQuiet, OwnRun, Working, Creating, Reading, Redoing,
       Judging, Launching, Collecting, Ending
<1>1. CASE UnbindRedone
  <2>0. UNCHANGED job
    BY <1>1 DEF UnbindRedone, native
  <2>1. CASE ~HasReceipt
    <3>1. UNCHANGED bound /\ cli' = [cli EXCEPT !.at = "fail"]
      BY <1>1, <2>1 DEF UnbindRedone
    <3>2. cli' \in Commands /\ cli'.at = "fail" /\ cli'.inv = cli.inv
      BY <1>c, <1>s, <3>1, Moved
    <3>3. NothingYet' /\ AheadIsQuiet' /\ OwnRun' /\ RedoIsUnbound'
      BY <1>n, <3>2 DEF RedoIsUnbound, Judging, Launching
    <3> QED
      BY <1>u, <2>0, <3>1, <3>2, <3>3, OnlyTheCommand
  <2>2. CASE HasReceipt
    <3>1. bound' = [t \in Task |-> Unbound(t)]
          /\ cli' = [cli EXCEPT !.at = "rename", !.task = Min(cli.redo)]
      BY <1>1, <2>2 DEF UnbindRedone
    <3>2. Min(cli.redo) \in cli.redo
      BY <1>1, <1>c, MinOf, TaskNumbers DEF UnbindRedone, MarathonInv, RedoIsUnbound
    <3>3. /\ cli' \in Commands /\ cli'.at = "rename" /\ cli'.inv = cli.inv /\ cli'.task \in cli.redo
          /\ cli'.redo = cli.redo
      <4> DEFINE m == Min(cli.redo)
      <4>1. m \in Task /\ m \in cli.redo /\ "rename" \in MarathonSteps
        BY <1>c, <1>s, <3>2
      <4>2. cli' = [cli EXCEPT !.at = "rename", !.task = m]
        BY <3>1
      <4> HIDE DEF m
      <4> QED
        BY <1>c, <4>1, <4>2 DEF Commands
    <3>4. /\ \A t \in cli.redo : bound'[t] = NoBinding
          /\ \A t \in Task : t \notin cli.redo => bound'[t] = bound[t]
      BY <1>c, <3>1 DEF Unbound
    <3>5. bound' \in [Task -> [id : Nat, level : 0..5, inv : Nat]]
      BY <1>c, <3>1 DEF Unbound, NoBinding, Nothing, MarathonInv, MarathonTypes
    <3>6. MarathonTypes'
      BY <1>u, <2>0, <3>3, <3>5 DEF MarathonInv, MarathonTypes
    <3>7. RedoIsUnbound'
      BY <3>3, <3>4 DEF RedoIsUnbound, Judging, Launching
    <3>8. BoundIsFinal'
      BY <1>c, <2>0, <3>3, <3>4 DEF MarathonInv, BoundIsFinal, NoBinding, Nothing, Final
    <3> QED
      BY <1>l, <1>n, <3>3, <3>6, <3>7, <3>8 DEF MarathonInv
  <2> QED
    BY <2>1, <2>2
<1>2. CASE Rename \/ ResetTasks
  <2>1. PICK l \in {Nothing, Empty} : job' = [job EXCEPT ![cli.task] = [id |-> 0, level |-> l]]
    BY <1>2 DEF Rename, ResetTasks
  <2>2. PICK s \in {"reset", "note"} : cli' = [cli EXCEPT !.at = s]
    BY <1>2 DEF Rename, ResetTasks
  <2>3. UNCHANGED bound /\ cli.at \in {"rename", "reset"}
    BY <1>2 DEF Rename, ResetTasks, stored
  <2>4. cli' \in Commands /\ cli'.at = s /\ cli'.inv = cli.inv /\ cli'.task = cli.task
        /\ cli'.redo = cli.redo
    BY <1>c, <1>s, <2>2, Moved
  <2>5. job' \in [Task -> [id : Nat, level : 0..5]] /\ \A t \in Task : t # cli.task
        => job'[t] = job[t]
    <3>1. [id |-> 0, level |-> l] \in [id : Nat, level : 0..5]
      BY DEF Nothing, Empty
    <3>2. job \in [Task -> [id : Nat, level : 0..5]]
      BY DEF MarathonInv, MarathonTypes
    <3> QED
      BY <2>1, <3>1, <3>2
  <2>6. cli.task \in cli.redo /\ \A t \in cli.redo : bound[t] = NoBinding
    BY <2>3 DEF MarathonInv, RedoIsUnbound
  <2>7. RedoIsUnbound'
    BY <2>3, <2>4, <2>6 DEF RedoIsUnbound, Judging, Launching
  <2>8. BoundIsFinal'
    BY <2>3, <2>4, <2>5, <2>6 DEF MarathonInv, BoundIsFinal, NoBinding, Nothing, Final
  <2>9. MarathonTypes'
    BY <1>u, <2>3, <2>4, <2>5 DEF MarathonInv, MarathonTypes
  <2> QED
    BY <1>l, <1>n, <2>4, <2>7, <2>8, <2>9 DEF MarathonInv
<1>3. CASE NoteRedo
  <2> DEFINE later == {t \in cli.redo : t > cli.task}
  <2>1. UNCHANGED <<job, bound>> /\ cli.at = "note"
    BY <1>3 DEF NoteRedo, native
  <2>2. cli.task \in cli.redo /\ \A t \in cli.redo : bound[t] = NoBinding
    BY <2>1 DEF MarathonInv, RedoIsUnbound
  <2>3. \/ cli' = [cli EXCEPT !.at = "task", !.task = 1]
        \/ later # {} /\ cli' = [cli EXCEPT !.at = "rename", !.task = Min(later)]
    BY <1>3 DEF NoteRedo
  <2>4. later # {} => Min(later) \in later
    <3>1. later \in SUBSET Nat
      BY <1>c, TaskNumbers
    <3> HIDE DEF later
    <3> QED
      BY <3>1, MinOf
  <2>5. /\ cli' \in Commands /\ cli'.at \in {"task", "rename"} /\ cli'.inv = cli.inv
           /\ cli'.redo = cli.redo
        /\ cli'.at = "rename" => cli'.task \in cli.redo
    <3>1. CASE cli' = [cli EXCEPT !.at = "task", !.task = 1]
      <4>1. "task" \in MarathonSteps /\ 1 \in Task
        BY <1>s, TaskNumbers
      <4> QED
        BY <1>c, <3>1, <4>1 DEF Commands
    <3>2. CASE later # {} /\ cli' = [cli EXCEPT !.at = "rename", !.task = Min(later)]
      <4>1. Min(later) \in cli.redo
        BY <2>4, <3>2
      <4> HIDE DEF later
      <4> QED
        BY <1>c, <1>s, <3>2, <4>1 DEF Commands
    <3> QED
      BY <2>3, <3>1, <3>2
  <2>6. RedoIsUnbound'
    BY <2>1, <2>2, <2>5 DEF RedoIsUnbound, Judging, Launching
  <2> QED
    BY <1>n, <1>u, <2>1, <2>5, <2>6, OnlyTheCommand
<1> QED
  BY <1>1, <1>2, <1>3

\* A task is kept, skipped or launched.
LEMMA JudgingKeeps ==
  ASSUME MarathonInv, CleanFirst \/ CleanFirstFails \/ Decide
  PROVE  MarathonInv'
<1> USE DEF MarathonAt, MarathonGoTo
<1>u. UNCHANGED <<dir, invs, bound, job, live, runs>> /\ runs \in Nat
  <2>1. CASE CleanFirst
    BY <2>1 DEF CleanFirst, created, stored, native, MarathonInv, MarathonTypes
  <2>2. CASE CleanFirstFails
    BY <2>2 DEF CleanFirstFails, created, stored, native, outside, MarathonInv, MarathonTypes
  <2>3. CASE Decide
    BY <2>3 DEF Decide, created, native, outside, MarathonInv, MarathonTypes
  <2> QED
    BY <2>1, <2>2, <2>3
<1>c. cli \in Commands /\ cli.task \in Task /\ cli.redo \in SUBSET Task /\ cli.at \in Judging
  BY DEF MarathonInv, MarathonTypes, Commands, Judging, CleanFirst, CleanFirstFails, Decide
<1>d. cli.task \in Nat /\ cli.task + 1 >= cli.task /\ cli.task + 1 \in Nat
      /\ cli.task >= cli.task /\ \A u \in Task : u \in Nat
  <2>1. cli.task \in Nat /\ \A u \in Task : u \in Nat
    BY <1>c, TaskNumbers
  <2> QED
    BY <2>1
<1>s. {"decide", "attempt", "fail"} \subseteq MarathonSteps
  BY DEF MarathonSteps, Working, Judging, Launching, Ending
<1>q. /\ \A t \in Task : t >= cli.task => live[t] = {}
      /\ dir \in {"state", "receipt", "ready"}
      /\ cli.inv \in DOMAIN invs
      /\ \A t \in cli.redo : t >= cli.task => bound[t] = NoBinding
  BY <1>c DEF MarathonInv, AheadIsQuiet, NothingYet, OwnRun, RedoIsUnbound, Working, Judging
<1>n. ASSUME cli' \in Commands, cli'.at \in {"decide", "attempt", "fail", "task", "finish"},
    cli'.inv = cli.inv,
             cli'.redo = cli.redo, cli'.at # "finish" => cli'.task \in Nat /\ cli'.task >= cli.task,
             cli'.at = "attempt" => bound[cli'.task].level # Final
      PROVE  MarathonInv'
  <2>1. cli'.at # "finish" => \A t \in Task : t >= cli'.task => t >= cli.task
    BY <1>d, <1>n
  <2>2. NothingYet' /\ AheadIsQuiet' /\ OwnRun'
    BY <1>u, <1>q, <1>n, <2>1 DEF NothingYet, AheadIsQuiet, OwnRun, Working, Creating, Reading,
        Redoing,
       Judging, Launching, Collecting, Ending
  <2>3. RedoIsUnbound'
    BY <1>u, <1>c, <1>q, <1>n, <2>1 DEF RedoIsUnbound, Working, Judging, Launching
  <2> QED
    BY <1>n, <1>u, <2>2, <2>3, OnlyTheCommand
<1>m. ASSUME NEW s \in {"decide", "fail"}, cli' = [cli EXCEPT !.at = s] PROVE MarathonInv'
  <2>1. cli' \in Commands /\ cli'.at = s /\ cli'.redo = cli.redo /\ cli'.task = cli.task
        /\ cli'.inv = cli.inv
    BY <1>c, <1>s, <1>m, Moved
  <2>2. cli'.task \in Nat /\ cli'.task >= cli.task
    BY <1>d, <2>1
  <2> QED
    BY <1>n, <2>1, <2>2
<1>1. CASE CleanFirst \/ CleanFirstFails
  BY <1>1, <1>m DEF CleanFirst, CleanFirstFails
<1>2. CASE Decide
  <2> DEFINE t == cli.task
  <2>1. CASE NextTask
    <3>1. /\ cli' \in Commands /\ cli'.redo = cli.redo /\ cli'.inv = cli.inv
          /\ cli'.at = "finish" \/ (cli'.at = "task" /\ cli'.task = cli.task + 1)
      BY <1>c, <2>1, NextTaskIs
    <3>2. cli'.at # "finish" => cli'.task \in Nat /\ cli'.task >= cli.task
      BY <1>d, <3>1
    <3> QED
      BY <1>n, <3>1, <3>2
  <2>2. CASE cli' = [cli EXCEPT !.at = "fail"]
    BY <1>m, <2>2
  <2>3. CASE /\ cli' = [cli EXCEPT !.at = "attempt"]
             /\ job[t].level # Final \/ t \in cli.redo \/ job[t].level = Nothing
    <3>1. /\ cli' \in Commands /\ cli'.at = "attempt" /\ cli'.redo = cli.redo
             /\ cli'.task = cli.task
          /\ cli'.inv = cli.inv
      BY <1>c, <1>s, <2>3, Moved
    <3>2. cli'.task \in Nat /\ cli'.task >= cli.task
      BY <1>d, <3>1
    <3>3. bound[t].level # Final
      <4>1. t \in cli.redo => bound[t] = NoBinding
        BY <1>d, <1>c, <1>q
      <4>2. bound[t].level = Final => job[t].level = Final
        BY <1>c DEF MarathonInv, BoundIsFinal
      <4> QED
        BY <2>3, <4>1, <4>2 DEF NoBinding, Nothing, Final
    <3> QED
      BY <1>n, <3>1, <3>2, <3>3
  <2>4. job[t].level \in 0..5
    BY <1>c DEF MarathonInv, MarathonTypes
  <2> QED
    BY <1>2, <2>1, <2>2, <2>3, <2>4 DEF Decide, Resumes, Final
<1> QED
  BY <1>1, <1>2

\* The process is booked, and then spawned.
LEMMA LaunchKeeps ==
  ASSUME MarathonInv, BeginAttempt \/ MakeHome \/ Token \/ Spawn
  PROVE  MarathonInv'
<1> USE DEF MarathonAt, MarathonGoTo
<1>u. UNCHANGED <<dir, bound, job>> /\ runs \in Nat
  <2>1. CASE BeginAttempt
    BY <2>1 DEF BeginAttempt, created, native, MarathonInv, MarathonTypes
  <2>2. CASE MakeHome
    BY <2>2 DEF MakeHome, created, stored, native, MarathonInv, MarathonTypes
  <2>3. CASE Token
    BY <2>3 DEF Token, created, native, MarathonInv, MarathonTypes
  <2>4. CASE Spawn
    BY <2>4 DEF Spawn, created, stored, native, MarathonInv, MarathonTypes
  <2> QED
    BY <2>1, <2>2, <2>3, <2>4
<1>c. cli \in Commands /\ cli.task \in Task /\ cli.redo \in SUBSET Task /\ cli.at \in Launching
  BY DEF MarathonInv, MarathonTypes, Commands, Launching, BeginAttempt, MakeHome, Token, Spawn
<1>d. cli.task \in Nat /\ \A u \in Task : u \in Nat
  BY <1>c, TaskNumbers
<1>s. {"home", "label", "token", "spawn", "wait", "fail"} \subseteq MarathonSteps
  BY DEF MarathonSteps, Working, Launching, Collecting, Ending
<1>q. /\ \A t \in Task : t >= cli.task => live[t] = {}
      /\ dir \in {"state", "receipt", "ready"}
      /\ cli.inv \in DOMAIN invs
      /\ \A t \in cli.redo : t >= cli.task => bound[t] = NoBinding
      /\ bound[cli.task].level # Final
      /\ live \in [Task -> SUBSET (1..runs)]
      /\ invs \in Seq(Records)
  BY <1>c DEF MarathonInv, MarathonTypes, AheadIsQuiet, NothingYet, OwnRun, RedoIsUnbound,
      Working, Launching
<1>n. ASSUME cli'.at \in {"home", "label", "token", "spawn", "wait", "fail"},
             cli'.redo = cli.redo, cli'.task = cli.task, cli'.inv = cli.inv, DOMAIN invs' = DOMAIN invs,
             \A t \in Task : t # cli.task => live'[t] = live[t],
             cli'.at # "wait" => live' = live
      PROVE  NothingYet' /\ AheadIsQuiet' /\ RedoIsUnbound'
  BY <1>u, <1>q, <1>d, <1>n DEF NothingYet, AheadIsQuiet, RedoIsUnbound, Working, Creating,
      Reading, Redoing,
       Judging, Launching, Collecting, Ending
<1>1. CASE BeginAttempt
  <2>1. UNCHANGED <<invs, live>> /\ runs' = runs + 1
        /\ cli' = [cli EXCEPT !.at = "home", !.run = runs + 1]
    BY <1>1 DEF BeginAttempt, outside
  <2>2. /\ cli' \in Commands /\ cli'.at = "home" /\ cli'.redo = cli.redo /\ cli'.task = cli.task
        /\ cli'.inv = cli.inv /\ cli'.run = runs + 1
    <3> DEFINE k == runs + 1
    <3>1. k \in Nat /\ "home" \in MarathonSteps
      BY <1>u, <1>s
    <3>2. cli' = [cli EXCEPT !.at = "home", !.run = k]
      BY <2>1
    <3> HIDE DEF k
    <3>3. /\ cli' \in Commands /\ cli'.at = "home" /\ cli'.redo = cli.redo /\ cli'.task = cli.task
          /\ cli'.inv = cli.inv /\ cli'.run = k
      BY <1>c, <3>1, <3>2 DEF Commands
    <3> QED
      BY <3>3 DEF k
  <2>3. NothingYet' /\ AheadIsQuiet' /\ RedoIsUnbound'
    BY <1>n, <2>1, <2>2
  <2>4. \A t \in Task : \A r \in live[t] : r \in 1..runs
    BY <1>q
  <2>5. OwnRun'
    BY <1>u, <1>q, <2>1, <2>2, <2>4 DEF OwnRun
  <2>6. MarathonTypes'
    <3>1. live \in [Task -> SUBSET (1..(runs + 1))]
      BY <1>u, <1>q, <2>4
    <3> QED
      BY <1>u, <2>1, <2>2, <3>1 DEF MarathonInv, MarathonTypes
  <2>7. LiveIsUnsettled' /\ AtMostOne' /\ BoundIsFinal'
    BY <1>u, <1>q, <2>1, <2>2 DEF MarathonInv, LiveIsUnsettled, AtMostOne, BoundIsFinal
  <2> QED
    BY <2>3, <2>5, <2>6, <2>7 DEF MarathonInv
<1>2. CASE MakeHome
  <2>1. UNCHANGED <<invs, live, runs>>
    BY <1>2 DEF MakeHome, stored
  <2>2. PICK s \in {"label", "token", "fail"} : cli' = [cli EXCEPT !.at = s]
    BY <1>2 DEF MakeHome
  <2>3. /\ cli' \in Commands /\ cli'.at = s /\ cli'.redo = cli.redo /\ cli'.task = cli.task
        /\ cli'.inv = cli.inv /\ cli'.run = cli.run
    BY <1>c, <1>s, <2>2, Moved
  <2>4. NothingYet' /\ AheadIsQuiet' /\ RedoIsUnbound'
    BY <1>n, <2>1, <2>3
  <2>5. cli.at \in {"home", "label"}
    BY <1>2 DEF MakeHome
  <2>6. OwnRun'
    BY <1>q, <2>1, <2>3, <2>5 DEF MarathonInv, OwnRun
  <2> QED
    BY <1>u, <2>1, <2>3, <2>4, <2>6, OnlyTheCommand
<1>3. CASE Token
  <2> DEFINE i == cli.inv
             new == [invs[i] EXCEPT !.unsettled = invs[i].unsettled \cup {cli.run}]
  <2>1. UNCHANGED <<live, runs>> /\ invs' = [invs EXCEPT ![i] = new]
        /\ cli' = [cli EXCEPT !.at = "spawn"]
    BY <1>3 DEF Token, outside
  <2>2. /\ cli' \in Commands /\ cli'.at = "spawn" /\ cli'.redo = cli.redo /\ cli'.task = cli.task
        /\ cli'.inv = cli.inv /\ cli'.run = cli.run
    BY <1>c, <1>s, <2>1, Moved
  <2>3. /\ cli.run \in 1..runs
        /\ \A t \in Task : t # cli.task => cli.run \notin live[t]
    BY <1>3 DEF Token, MarathonInv, OwnRun
  <2>4. invs[i] \in Records /\ cli.run \in Nat /\ i \in DOMAIN invs
    BY <1>q, <1>u, <2>3
  <2>5. new \in Records /\ new.unsettled = invs[i].unsettled \cup {cli.run}
    BY <2>4 DEF Records
  <2> HIDE DEF new, i
  <2>6. /\ invs' \in Seq(Records) /\ DOMAIN invs' = DOMAIN invs /\ cli.run \in invs'[i].unsettled
        /\ \A j \in DOMAIN invs : invs[j].unsettled \subseteq invs'[j].unsettled
    BY <1>q, <2>1, <2>4, <2>5
  <2>7. NothingYet' /\ AheadIsQuiet' /\ RedoIsUnbound'
    BY <1>n, <2>1, <2>2, <2>6
  <2>8. OwnRun'
    BY <1>q, <2>1, <2>2, <2>3, <2>4, <2>6 DEF OwnRun, i
  <2>9. MarathonTypes'
    BY <1>u, <1>q, <2>1, <2>2, <2>6 DEF MarathonInv, MarathonTypes
  <2>10. LiveIsUnsettled' /\ AtMostOne' /\ BoundIsFinal'
    BY <1>u, <1>q, <2>1, <2>2, <2>6 DEF MarathonInv, LiveIsUnsettled, AtMostOne, BoundIsFinal
  <2> QED
    BY <2>7, <2>8, <2>9, <2>10 DEF MarathonInv
<1>4. CASE Spawn
  <2>1. /\ UNCHANGED <<invs, runs>> /\ cli' = [cli EXCEPT !.at = "wait"]
        /\ live' = [live EXCEPT ![cli.task] = live[cli.task] \cup {cli.run}]
    BY <1>4 DEF Spawn, stored
  <2>2. /\ cli' \in Commands /\ cli'.at = "wait" /\ cli'.redo = cli.redo /\ cli'.task = cli.task
        /\ cli'.inv = cli.inv /\ cli'.run = cli.run
    BY <1>c, <1>s, <2>1, Moved
  <2>3. /\ cli.run \in 1..runs /\ cli.run \in invs[cli.inv].unsettled
        /\ \A t \in Task : t # cli.task => cli.run \notin live[t]
    BY <1>4 DEF Spawn, MarathonInv, OwnRun
  <2>4. live[cli.task] = {}
    BY <1>c, <1>d, <1>q
  <2>5. /\ live'[cli.task] = {cli.run} /\ \A t \in Task : t # cli.task => live'[t] = live[t]
        /\ live' \in [Task -> SUBSET (1..runs)]
    BY <1>c, <1>q, <2>1, <2>3, <2>4
  <2>6. NothingYet' /\ AheadIsQuiet' /\ RedoIsUnbound'
    BY <1>n, <2>1, <2>2, <2>5
  <2>7. OwnRun'
    BY <1>q, <2>1, <2>2, <2>3, <2>5 DEF OwnRun
  <2>8. MarathonTypes'
    BY <1>u, <1>q, <2>1, <2>2, <2>5 DEF MarathonInv, MarathonTypes
  <2>9. LiveIsUnsettled' /\ AtMostOne' /\ BoundIsFinal'
    BY <1>u, <1>q, <2>1, <2>2, <2>3, <2>5 DEF MarathonInv, LiveIsUnsettled, AtMostOne,
        BoundIsFinal
  <2> QED
    BY <2>6, <2>7, <2>8, <2>9 DEF MarathonInv
<1> QED
  BY <1>1, <1>2, <1>3, <1>4

\* The process ends, its evidence is bound and its attempt recorded.
LEMMA CollectKeeps ==
  ASSUME MarathonInv, WaitHarbor \/ Cleanup \/ Bind \/ FinalizeAttempt
  PROVE  MarathonInv'
<1> USE DEF MarathonAt, MarathonGoTo
<1>u. UNCHANGED <<dir, job, runs>> /\ runs \in Nat
  <2>1. CASE WaitHarbor
    BY <2>1 DEF WaitHarbor, created, native, MarathonInv, MarathonTypes
  <2>2. CASE Cleanup
    BY <2>2 DEF Cleanup, created, native, MarathonInv, MarathonTypes
  <2>3. CASE Bind
    BY <2>3 DEF Bind, created, native, MarathonInv, MarathonTypes
  <2>4. CASE FinalizeAttempt
    BY <2>4 DEF FinalizeAttempt, created, native, MarathonInv, MarathonTypes
  <2> QED
    BY <2>1, <2>2, <2>3, <2>4
<1>c. cli \in Commands /\ cli.task \in Task /\ cli.redo \in SUBSET Task /\ cli.at \in Collecting
  BY DEF MarathonInv, MarathonTypes, Commands, Collecting, WaitHarbor, Cleanup, Bind,
      FinalizeAttempt
<1>d. cli.task \in Nat /\ \A u \in Task : u \in Nat
  BY <1>c, TaskNumbers
<1>s. {"cleanup", "bind", "finalize", "fail"} \subseteq MarathonSteps
  BY DEF MarathonSteps, Working, Collecting, Ending
<1>q. /\ \A t \in Task : t > cli.task => live[t] = {}
      /\ dir \in {"state", "receipt", "ready"}
      /\ cli.inv \in DOMAIN invs
      /\ live \in [Task -> SUBSET (1..runs)]
      /\ invs \in Seq(Records)
      /\ bound \in [Task -> [id : Nat, level : 0..5, inv : Nat]]
      /\ job \in [Task -> [id : Nat, level : 0..5]]
  BY <1>c DEF MarathonInv, MarathonTypes, AheadIsQuiet, NothingYet, OwnRun, Working, Collecting
<1>n. ASSUME cli'.at \in {"cleanup", "bind", "finalize", "fail"}, cli'.task = cli.task,
    cli'.inv = cli.inv,
             DOMAIN invs' = DOMAIN invs, \A t \in Task : live'[t] \subseteq live[t]
      PROVE  NothingYet' /\ AheadIsQuiet' /\ OwnRun'
  <2>1. \A t \in Task : live[t] = {} => live'[t] = {}
    BY <1>n
  <2> QED
    BY <1>u, <1>q, <1>d, <1>n, <2>1 DEF NothingYet, AheadIsQuiet, OwnRun, Working, Creating,
        Reading, Redoing,
       Judging, Launching, Collecting, Ending
<1>1. CASE WaitHarbor
  <2> DEFINE i == cli.inv
             new == [invs[i] EXCEPT !.unsettled = invs[i].unsettled \ {cli.run}]
  <2>0. UNCHANGED bound /\ cli' = [cli EXCEPT !.at = "cleanup"] /\ cli.at = "wait"
    BY <1>1 DEF WaitHarbor
  <2>1. \/ UNCHANGED <<live, invs>>
        \/ live' = [live EXCEPT ![cli.task] = live[cli.task] \ {cli.run}]
           /\ invs' = [invs EXCEPT ![i] = new]
    BY <1>1 DEF WaitHarbor
  <2>2. /\ cli' \in Commands /\ cli'.at = "cleanup" /\ cli'.redo = cli.redo /\ cli'.task = cli.task
        /\ cli'.inv = cli.inv
    BY <1>c, <1>s, <2>0, Moved
  <2>3. /\ cli.run \in 1..runs /\ \A r \in live[cli.task] : r = cli.run
        /\ \A t \in Task : t # cli.task => cli.run \notin live[t]
    BY <2>0 DEF MarathonInv, OwnRun
  <2>4. invs[i] \in Records /\ i \in DOMAIN invs
    BY <1>q
  <2>5. new \in Records /\ new.unsettled = invs[i].unsettled \ {cli.run}
    BY <2>4 DEF Records
  <2> HIDE DEF new, i
  <2>6. /\ live' \in [Task -> SUBSET (1..runs)] /\ \A t \in Task : live'[t] \subseteq live[t]
        /\ invs' \in Seq(Records) /\ DOMAIN invs' = DOMAIN invs
    <3>1. CASE UNCHANGED <<live, invs>>
      BY <1>q, <3>1
    <3>2. CASE live' = [live EXCEPT ![cli.task] = live[cli.task] \ {cli.run}]
               /\ invs' = [invs EXCEPT ![i] = new]
      BY <1>c, <1>q, <2>4, <2>5, <3>2
    <3> QED
      BY <2>1, <3>1, <3>2
  <2>7. LiveIsUnsettled'
    <3>1. CASE UNCHANGED <<live, invs>>
      BY <3>1 DEF MarathonInv, LiveIsUnsettled
    <3>2. CASE live' = [live EXCEPT ![cli.task] = live[cli.task] \ {cli.run}]
               /\ invs' = [invs EXCEPT ![i] = new]
      <4>1. \A t \in Task : cli.run \notin live'[t]
        BY <1>c, <1>q, <2>3, <3>2
      <4>2. \A j \in DOMAIN invs : \A r \in invs[j].unsettled : r # cli.run
            => r \in invs'[j].unsettled
        BY <1>q, <2>4, <2>5, <3>2
      <4> QED
        BY <2>6, <4>1, <4>2 DEF MarathonInv, LiveIsUnsettled
    <3> QED
      BY <2>1, <3>1, <3>2
  <2>8. AtMostOne'
    BY <2>6 DEF MarathonInv, AtMostOne
  <2>9. NothingYet' /\ AheadIsQuiet' /\ OwnRun'
    BY <1>n, <2>2, <2>6
  <2>10. RedoIsUnbound'
    BY <2>0, <2>2 DEF MarathonInv, RedoIsUnbound, Launching, Judging
  <2>11. MarathonTypes' /\ BoundIsFinal'
    BY <1>u, <1>q, <2>0, <2>2, <2>6 DEF MarathonInv, MarathonTypes, BoundIsFinal
  <2> QED
    BY <2>7, <2>8, <2>9, <2>10, <2>11 DEF MarathonInv
<1>2. CASE Cleanup
  <2>0. UNCHANGED <<invs, live, bound>> /\ cli.at = "cleanup"
    BY <1>2 DEF Cleanup, stored
  <2>1. cli' = [cli EXCEPT !.at = "bind"] \/ cli' = [cli EXCEPT !.at = "bind", !.unsafe = TRUE]
    BY <1>2 DEF Cleanup
  <2>2. /\ cli' \in Commands /\ cli'.at = "bind" /\ cli'.redo = cli.redo /\ cli'.task = cli.task
        /\ cli'.inv = cli.inv
    <3>1. CASE cli' = [cli EXCEPT !.at = "bind"]
      BY <1>c, <1>s, <3>1, Moved
    <3>2. CASE cli' = [cli EXCEPT !.at = "bind", !.unsafe = TRUE]
      BY <1>c, <1>s, <3>2 DEF Commands
    <3> QED
      BY <2>1, <3>1, <3>2
  <2>3. NothingYet' /\ AheadIsQuiet' /\ OwnRun'
    BY <1>n, <2>0, <2>2
  <2>4. RedoIsUnbound'
    BY <2>0, <2>2 DEF MarathonInv, RedoIsUnbound, Launching, Judging
  <2> QED
    BY <1>u, <2>0, <2>2, <2>3, <2>4, OnlyTheCommand
<1>3. CASE Bind
  <2> DEFINE t == cli.task
             new == IF job[t].level < Config THEN NoBinding
                    ELSE [id |-> job[t].id, level |-> job[t].level, inv |-> cli.inv]
  <2>0. UNCHANGED <<invs, live>> /\ cli.at = "bind"
    BY <1>3 DEF Bind, outside
  <2>1. CASE ~HasReceipt
    <3>1. UNCHANGED bound /\ cli' = [cli EXCEPT !.at = "fail"]
      BY <1>3, <2>1 DEF Bind
    <3>2. cli' \in Commands /\ cli'.at = "fail" /\ cli'.inv = cli.inv /\ cli'.task = cli.task
      BY <1>c, <1>s, <3>1, Moved
    <3>3. NothingYet' /\ AheadIsQuiet' /\ OwnRun' /\ RedoIsUnbound'
      BY <1>n, <2>0, <3>2 DEF RedoIsUnbound, Judging, Launching
    <3> QED
      BY <1>u, <2>0, <3>1, <3>2, <3>3, OnlyTheCommand
  <2>2. CASE HasReceipt
    <3>1. bound' = [bound EXCEPT ![t] = new] /\ cli' = [cli EXCEPT !.at = "finalize"]
      BY <1>3, <2>2 DEF Bind
    <3>2. cli' \in Commands /\ cli'.at = "finalize" /\ cli'.inv = cli.inv /\ cli'.task = cli.task
      BY <1>c, <1>s, <3>1, Moved
    <3>3. new \in [id : Nat, level : 0..5, inv : Nat]
          /\ (new.level = Final => new.id = job[t].id /\ job[t].level = Final)
      <4>1. cli.inv \in Nat /\ job[t] \in [id : Nat, level : 0..5]
        BY <1>c, <1>q DEF Commands
      <4> QED
        BY <4>1 DEF NoBinding, Nothing, Final, Config
    <3> HIDE DEF new
    <3>4. /\ bound' \in [Task -> [id : Nat, level : 0..5, inv : Nat]] /\ bound'[t] = new
          /\ \A u \in Task : u # t => bound'[u] = bound[u]
      BY <1>c, <1>q, <3>1, <3>3
    <3>5. BoundIsFinal'
      BY <1>c, <1>u, <3>2, <3>3, <3>4 DEF MarathonInv, BoundIsFinal
    <3>6. NothingYet' /\ AheadIsQuiet' /\ OwnRun'
      BY <1>n, <2>0, <3>2
    <3>7. RedoIsUnbound'
      <4>1. cli'.redo = cli.redo
        BY <1>c, <1>s, <3>1, Moved
      <4>2. \A u \in cli.redo : u > cli.task => bound'[u] = NoBinding
        BY <1>c, <1>d, <2>0, <3>4 DEF MarathonInv, RedoIsUnbound
      <4> QED
        BY <3>2, <4>1, <4>2 DEF RedoIsUnbound, Judging, Launching
    <3>8. MarathonTypes'
      BY <1>u, <2>0, <3>2, <3>4 DEF MarathonInv, MarathonTypes
    <3>9. LiveIsUnsettled' /\ AtMostOne'
      BY <2>0 DEF MarathonInv, LiveIsUnsettled, AtMostOne
    <3> QED
      BY <3>5, <3>6, <3>7, <3>8, <3>9 DEF MarathonInv
  <2> QED
    BY <2>1, <2>2
<1>4. CASE FinalizeAttempt
  <2>0. UNCHANGED <<invs, live, bound>> /\ cli.at = "finalize"
    BY <1>4 DEF FinalizeAttempt, outside
  <2>1. CASE cli' = [cli EXCEPT !.at = "fail"]
    <3>2. cli' \in Commands /\ cli'.at = "fail" /\ cli'.inv = cli.inv /\ cli'.task = cli.task
      BY <1>c, <1>s, <2>1, Moved
    <3>3. NothingYet' /\ AheadIsQuiet' /\ OwnRun' /\ RedoIsUnbound'
      BY <1>n, <2>0, <3>2 DEF RedoIsUnbound, Judging, Launching
    <3> QED
      BY <1>u, <2>0, <3>2, <3>3, OnlyTheCommand
  <2>2. CASE NextTask
    <3>1. /\ cli' \in Commands /\ cli'.redo = cli.redo /\ cli'.inv = cli.inv
          /\ cli'.at = "finish" \/ (cli'.at = "task" /\ cli'.task = cli.task + 1)
      BY <1>c, <2>2, NextTaskIs
    <3>0. \A u \in Task : u >= cli.task + 1 => u > cli.task
      BY <1>d
    <3>2. NothingYet' /\ AheadIsQuiet' /\ OwnRun'
      BY <1>u, <1>q, <2>0, <3>0, <3>1 DEF NothingYet, AheadIsQuiet, OwnRun, Working, Creating,
          Reading, Redoing,
         Judging, Launching, Collecting, Ending
    <3>3. RedoIsUnbound'
      <4>1. \A u \in cli.redo : u > cli.task => bound[u] = NoBinding
        BY <2>0 DEF MarathonInv, RedoIsUnbound
      <4> QED
        BY <1>c, <2>0, <3>0, <3>1, <4>1 DEF RedoIsUnbound, Judging, Launching
    <3> QED
      BY <1>u, <2>0, <3>1, <3>2, <3>3, OnlyTheCommand
  <2> QED
    BY <1>4, <2>1, <2>2 DEF FinalizeAttempt
<1> QED
  BY <1>1, <1>2, <1>3, <1>4

\* The invariant holds at first.
LEMMA MarathonInitial == MarathonInit => MarathonInv
<1> SUFFICES ASSUME MarathonInit PROVE MarathonInv
  OBVIOUS
<1>1. cli = [OffRun EXCEPT !.n = 0]
  BY DEF MarathonInit
<1>2. cli \in Commands /\ cli.at = "off"
  BY <1>1, Ended
<1>3. MarathonTypes
  <2>1. invs = <<>> /\ runs = 0
    BY DEF MarathonInit
  <2>2. invs \in Seq(Records)
    BY <2>1
  <2> QED
    BY <1>2, <2>1, <2>2 DEF MarathonInit, MarathonTypes, NoBinding, Nothing
<1>4. NothingYet /\ AheadIsQuiet /\ OwnRun /\ RedoIsUnbound
  BY <1>2 DEF MarathonInit, NothingYet, AheadIsQuiet, OwnRun, RedoIsUnbound, Working, Creating,
      Reading, Redoing,
       Judging, Launching, Collecting, Ending
<1>5. LiveIsUnsettled /\ AtMostOne /\ BoundIsFinal
  BY DEF MarathonInit, LiveIsUnsettled, AtMostOne, BoundIsFinal, NoBinding, Nothing, Final
<1> QED
  BY <1>3, <1>4, <1>5 DEF MarathonInv

\* Every step keeps the invariant.
LEMMA MarathonInvariant == MarathonSpec => []MarathonInv
<1>1. MarathonInv /\ UNCHANGED marathonVars => MarathonInv'
  BY DEF marathonVars, created, stored, native, outside, MarathonInv, MarathonTypes, NothingYet,
      LiveIsUnsettled,
         AheadIsQuiet, OwnRun, AtMostOne, RedoIsUnbound, BoundIsFinal
<1>2. MarathonInv /\ [MarathonNext]_marathonVars => MarathonInv'
  BY <1>1, HarborKeeps, CreationKeeps, RecoveryKeeps, InvocationKeeps, RedoKeeps, JudgingKeeps,
      LaunchKeeps,
     CollectKeeps DEF MarathonNext
<1> QED
  BY MarathonInitial, <1>2, PTL DEF MarathonSpec

\* At most one Harbor process works on a task, over any number of commands, each of which
\* may die at any step (executeTask, recoverInterrupted).
THEOREM MarathonOneHarbor == MarathonSpec => []OneHarborPerTask
<1>1. ASSUME MarathonInv, NEW t \in Task PROVE Cardinality(live[t]) <= 1
  <2>1. CASE live[t] = {}
    BY <2>1, FS_EmptySet
  <2>2. CASE live[t] # {}
    <3>1. PICK r : live[t] = {r}
      BY <1>1, <2>2 DEF MarathonInv, AtMostOne
    <3> QED
      BY <3>1, FS_Singleton
  <2> QED
    BY <2>1, <2>2
<1>2. MarathonInv => OneHarborPerTask
  BY <1>1 DEF OneHarborPerTask
<1> QED
  BY MarathonInvariant, <1>2, PTL

\* A result that was bound as final is the one on disk, and stays (bindTaskEvidence,
\* executeTask).
THEOREM MarathonBoundIsFinal == MarathonSpec => []BoundIsFinal
<1>1. MarathonInv => BoundIsFinal
  BY DEF MarathonInv
<1> QED
  BY MarathonInvariant, <1>1, PTL
=============================================================================
