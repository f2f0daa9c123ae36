--------------------------- MODULE LifecycleProofs ---------------------------
(***************************************************************************)
(* Proofs about the life of a run (RunLifecycle), for any number of        *)
(* concurrent stops and of workers.                                        *)
(***************************************************************************)
EXTENDS RunLifecycle, TLAPS

Early == {"absent", "spawned", "refused"}
Places == {"idle", "looked", "over", "unowned", "polling", "forced", "done"}
Scanning == {"over", "unowned", "forced"}

Typed ==
  /\ disk \in Manifests /\ reapSeen \in Manifests
  /\ runner \in {"absent", "spawned", "refused", "unarmed", "executing", "cleaning",
                 "failing", "dead"}
  /\ outcome \in {"none", "completed", "failed", "stopped"}
  /\ pc \in [Stoppers -> Places]
  /\ seen \in [Stoppers -> Manifests]
  /\ known \in [Stoppers -> SUBSET Workers]
  /\ report \in [Stoppers -> {"none"} \cup Statuses]
  /\ live \subseteq Workers

(* A manifest says `running` together with the runner's pid, and `created` *)
(* without one.                                                            *)
NamesRunner(m) ==
  /\ m.status = "running" => m.bound
  /\ m.status = "created" => ~m.bound

Bound ==
  /\ NamesRunner(disk) /\ NamesRunner(reapSeen)
  /\ \A s \in Stoppers : NamesRunner(seen[s])
  /\ \A s \in Stoppers : pc[s] = "polling" => seen[s].status # "created"
  /\ \A s \in Stoppers : report[s] # "none" => pc[s] = "done"
  /\ hard \in {"armed", "cleaning"} => signaled
  /\ runner \in Early \cup {"unarmed"} => hard = "off"
  /\ runner = "cleaning" => outcome # "none"

(* Whoever acts on the end of the run acts after it.                       *)
Order ==
  /\ runner \in Early =>
       /\ disk.status = "created" /\ reapSeen.status = "created"
       /\ \A s \in Stoppers : seen[s].status = "created"
  /\ isTerminal(disk.status) => runner = "dead"
  /\ \A s \in Stoppers : pc[s] \in Scanning \cup {"done"} => runner = "dead"
  /\ \A s \in Stoppers : isTerminal(seen[s].status) => runner = "dead"
  /\ \A s \in Stoppers : pc[s] # "idle" => seen[s].status # "created"
  /\ reaper = "writing" => runner = "dead"

(* A scan knows every worker alive, but those spawned while it ran.        *)
Scans ==
  /\ runner \in {"cleaning", "failing", "refused"} => live \subseteq snap \cup late
  /\ hard = "cleaning" /\ runner \in {"executing", "cleaning", "failing"} =>
       live \subseteq hardSnap \cup late
  /\ \A s \in Stoppers : pc[s] \in Scanning => live \subseteq known[s]
  /\ \A s \in Stoppers : report[s] \notin {"none", "cleanup-failed"} => known[s] \cap live = {}
  /\ isResumableStatus(disk.status) => live \subseteq late

LifecycleInv == Typed /\ Bound /\ (~StoppedEarly => Order /\ Scans)

-----------------------------------------------------------------------------
(* The invariant holds at first. *)
LEMMA LifecycleInit == Init => LifecycleInv
<1> SUFFICES ASSUME Init PROVE LifecycleInv
  OBVIOUS
<1>1. Manifest("created", FALSE) \in Manifests
  BY DEF Manifest, Manifests, Statuses
<1>2. Typed
  BY <1>1 DEF Init, Typed, Places
<1>3. NamesRunner(Manifest("created", FALSE))
  BY DEF NamesRunner, Manifest
<1>4. Bound
  BY <1>3 DEF Init, Bound, Early
<1>5. Order
  BY DEF Init, Order, Manifest, Scanning, isTerminal
<1>6. Scans
  BY DEF Init, Scans, Manifest, Scanning, isResumableStatus, isTerminal
<1> QED
  BY <1>2, <1>4, <1>5, <1>6 DEF LifecycleInv

(* A stop that came too early has been one ever since.                     *)
LEMMA EarlyStopStays ==
  ASSUME LifecycleInv, StoppedEarly,
         \/ UNCHANGED <<pc, seen>>
         \/ \E s \in Stoppers, where \in Places \ {"idle"} :
              /\ pc' = [pc EXCEPT ![s] = where]
              /\ \/ UNCHANGED seen
                 \/ pc[s] \in {"idle", "polling"} /\ seen' = [seen EXCEPT ![s] = disk]
  PROVE  StoppedEarly'
<1>1. PICK t \in Stoppers : pc[t] # "idle" /\ seen[t].status = "created"
  BY DEF StoppedEarly
<1>2. pc \in [Stoppers -> Places] /\ seen \in [Stoppers -> Manifests]
  BY DEF LifecycleInv, Typed
<1>3. pc[t] # "polling"
  BY <1>1 DEF LifecycleInv, Bound
<1> QED
  BY <1>1, <1>2, <1>3 DEF StoppedEarly

(* The runner's steps that leave the manifest alone.                       *)
LEMMA RunnerKeeps ==
  ASSUME LifecycleInv,
         \/ Spawn \/ RejectEarly \/ Execute \/ HandleSignal \/ WallClock \/ Unwind \/ Fail
         \/ HardStopFires \/ Crash
  PROVE  LifecycleInv'
<1> USE DEF LifecycleInv
<1>0. UNCHANGED <<disk, pc, seen, known, report, reaper, reapSeen, launched, late>>
  BY DEF Spawn, RejectEarly, Execute, HandleSignal, WallClock, Unwind, Fail, HardStopFires,
         Crash, stopperVars, reaperVars, workerVars
<1>1. Typed'
  BY <1>0 DEF Typed, Spawn, RejectEarly, Execute, HandleSignal, WallClock, Unwind, Fail,
              HardStopFires, Crash, workerVars
<1>2. Bound'
  BY <1>0 DEF Bound, Early, NamesRunner, Spawn, RejectEarly, Execute, HandleSignal, WallClock, Unwind,
              Fail, HardStopFires, Crash, armHardStop
<1>3. ~StoppedEarly' => ~StoppedEarly
  BY <1>0 DEF StoppedEarly
<1>4. ASSUME ~StoppedEarly PROVE Order'
  BY <1>0, <1>4 DEF Order, Early, Spawn, RejectEarly, Execute, HandleSignal, WallClock, Unwind,
                    Fail, HardStopFires, Crash, Alive
<1>5. ASSUME ~StoppedEarly PROVE Scans'
  <2>1. live' \subseteq live
    BY DEF Spawn, RejectEarly, Execute, HandleSignal, WallClock, Unwind, Fail, HardStopFires,
           Crash, workerVars
  <2>2. runner' \in {"cleaning", "failing", "refused"} => live' \subseteq snap' \cup late'
    BY <1>0, <1>5, <2>1 DEF Scans, Spawn, RejectEarly, Execute, HandleSignal, WallClock, Unwind,
                            Fail, HardStopFires, Crash
  <2>3. hard' = "cleaning" /\ runner' \in {"executing", "cleaning", "failing"} =>
          live' \subseteq hardSnap' \cup late'
    BY <1>0, <1>5, <2>1 DEF Scans, Bound, Early, Spawn, RejectEarly, Execute, HandleSignal, WallClock, Unwind,
                            Fail, HardStopFires, Crash, armHardStop
  <2>4. \A s \in Stoppers : pc'[s] \in Scanning => live' \subseteq known'[s]
    BY <1>0, <1>5, <2>1 DEF Scans
  <2>5. \A s \in Stoppers :
          report'[s] \notin {"none", "cleanup-failed"} => known'[s] \cap live' = {}
    BY <1>0, <1>5, <2>1 DEF Scans
  <2>6. isResumableStatus(disk'.status) => live' \subseteq late'
    BY <1>0, <1>5, <2>1 DEF Scans
  <2> QED
    BY <2>2, <2>3, <2>4, <2>5, <2>6 DEF Scans
<1> QED
  BY <1>1, <1>2, <1>3, <1>4, <1>5

(* Workers come while the engine is not aborted, and go.                   *)
LEMMA WorkersKeep ==
  ASSUME LifecycleInv, NEW w \in Workers, Launch(w) \/ WorkerEnds(w)
  PROVE  LifecycleInv'
<1> USE DEF LifecycleInv
<1>0. UNCHANGED <<disk, runnerVars, pc, seen, known, report, reaper, reapSeen>>
  BY DEF Launch, WorkerEnds, stopperVars, reaperVars
<1>1. Typed'
  BY <1>0 DEF Typed, runnerVars, Launch, WorkerEnds
<1>2. Bound'
  BY <1>0 DEF Bound, NamesRunner, runnerVars
<1>3. ~StoppedEarly' => ~StoppedEarly
  BY <1>0 DEF StoppedEarly
<1>4. ASSUME ~StoppedEarly PROVE Order'
  BY <1>0, <1>4 DEF Order, runnerVars
<1>5. ASSUME ~StoppedEarly PROVE Scans'
  <2>1. CASE WorkerEnds(w)
    <3>1. live' \subseteq live /\ late' = late
      BY <2>1 DEF WorkerEnds
    <3> QED
      BY <1>0, <1>5, <3>1 DEF Scans, runnerVars
  <2>2. CASE Launch(w)
    <3>1. /\ runner \in {"executing", "cleaning", "failing"} /\ live' = live \cup {w}
          /\ ~engineAborted
          /\ late' = IF runner = "executing" THEN late ELSE late \cup {w}
      BY <2>2 DEF Launch
    <3>2. /\ ~isTerminal(disk.status)
          /\ \A s \in Stoppers : pc[s] \notin Scanning \cup {"done"}
      BY <1>5, <3>1 DEF Order
    <3>3. \A s \in Stoppers : report[s] = "none"
      BY <3>2 DEF Bound
    <3>4. runner = "executing" => hard # "cleaning"
      BY <3>1 DEF engineAborted, Bound
    <3>5. ~isResumableStatus(disk.status)
      BY <3>2 DEF isResumableStatus
    <3>6. /\ runner \in {"cleaning", "failing", "refused"} => live' \subseteq snap \cup late'
          /\ hard = "cleaning" => live' \subseteq hardSnap \cup late'
      BY <1>5, <3>1, <3>4 DEF Scans
    <3> QED
      BY <1>0, <3>2, <3>3, <3>5, <3>6 DEF Scans, runnerVars
  <2> QED
    BY <2>1, <2>2
<1> QED
  BY <1>1, <1>2, <1>3, <1>4, <1>5

(* Writes of `running`, while the runner lives.                            *)
LEMMA FlushKeeps ==
  ASSUME LifecycleInv, Bind \/ flushManifest
  PROVE  LifecycleInv'
<1> USE DEF LifecycleInv
<1>0. /\ UNCHANGED <<outcome, signaled, hard, snap, hardSnap, workerVars, stopperVars, reaperVars>>
      /\ disk' = Manifest("running", TRUE)
      /\ \/ runner = "spawned" /\ runner' = "unarmed"
         \/ runner \in {"executing", "cleaning", "failing"} /\ runner' = runner
  BY DEF Bind, flushManifest, runnerVars
<1>1. disk' \in Manifests /\ NamesRunner(disk') /\ disk'.status = "running"
  BY <1>0 DEF Manifest, Manifests, Statuses, NamesRunner
<1>2. Typed'
  BY <1>0, <1>1 DEF Typed, workerVars, stopperVars, reaperVars
<1>3. Bound'
  BY <1>0, <1>1 DEF Bound, Early, NamesRunner, stopperVars, reaperVars
<1>4. ~StoppedEarly' => ~StoppedEarly
  BY <1>0 DEF StoppedEarly, stopperVars
<1>5. ASSUME ~StoppedEarly PROVE Order'
  BY <1>0, <1>1, <1>5 DEF Order, Early, isTerminal, stopperVars, reaperVars
<1>6. ~isResumableStatus(disk'.status)
  BY <1>1 DEF isResumableStatus, isTerminal
<1>7. ASSUME ~StoppedEarly PROVE Scans'
  BY <1>0, <1>6, <1>7 DEF Scans, workerVars, stopperVars
<1> QED
  BY <1>2, <1>3, <1>4, <1>5, <1>7

(* The runner's own final manifests.                                       *)
LEMMA FinalKeeps ==
  ASSUME LifecycleInv, NEW settled \in BOOLEAN,
         Finalize(settled) \/ FinalizeFatal(settled) \/ HardStopEnds(settled)
  PROVE  LifecycleInv'
<1> USE DEF LifecycleInv
<1>0. /\ UNCHANGED <<outcome, signaled, hard, snap, hardSnap, launched, late, stopperVars, reaperVars>>
      /\ runner' = "dead" /\ runner # "dead" /\ live' \subseteq live
  BY DEF Finalize, FinalizeFatal, HardStopEnds, Scan
<1>1. disk' \in Manifests /\ isTerminal(disk'.status)
  <2>1. CASE Finalize(settled)
    <3>1. outcome \in {"completed", "failed", "stopped"}
      BY <2>1 DEF Finalize, Typed, Bound
    <3> QED
      BY <2>1, <3>1 DEF Finalize, Manifest, Manifests, Statuses, isTerminal
  <2>2. CASE FinalizeFatal(settled)
    BY <2>2 DEF FinalizeFatal, Manifests, Statuses, isTerminal, Typed
  <2>3. CASE HardStopEnds(settled)
    BY <2>3 DEF HardStopEnds, Manifest, Manifests, Statuses, isTerminal
  <2> QED
    BY <2>1, <2>2, <2>3
<1>2. NamesRunner(disk')
  BY <1>1 DEF NamesRunner, isTerminal
<1>3. Typed'
  BY <1>0, <1>1 DEF Typed, stopperVars, reaperVars
<1>4. Bound'
  BY <1>0, <1>2 DEF Bound, Early, NamesRunner, stopperVars, reaperVars
<1>5. ~StoppedEarly' => ~StoppedEarly
  BY <1>0 DEF StoppedEarly, stopperVars
<1>6. ASSUME ~StoppedEarly PROVE Order'
  BY <1>0, <1>6 DEF Order, Early, stopperVars, reaperVars
<1>7. ASSUME ~StoppedEarly PROVE Scans'
  <2>1. settled => live' \subseteq late
    BY <1>7 DEF Finalize, FinalizeFatal, HardStopEnds, Scan, Scans
  <2>2. ~settled => disk'.status = "cleanup-failed"
    BY DEF Finalize, FinalizeFatal, HardStopEnds, Manifest, Typed, Manifests
  <2>3. isResumableStatus(disk'.status) => live' \subseteq late'
    BY <1>0, <2>1, <2>2 DEF isResumableStatus
  <2>4. \A s \in Stoppers : pc'[s] \in Scanning => live' \subseteq known'[s]
    BY <1>0, <1>7 DEF Scans, stopperVars
  <2>5. \A s \in Stoppers :
          report'[s] \notin {"none", "cleanup-failed"} => known'[s] \cap live' = {}
    BY <1>0, <1>7 DEF Scans, stopperVars
  <2> QED
    BY <1>0, <2>3, <2>4, <2>5 DEF Scans
<1> QED
  BY <1>3, <1>4, <1>5, <1>6, <1>7

(* A stop looks, signals and begins to scan.                               *)
LEMMA LookKeeps ==
  ASSUME LifecycleInv, NEW s \in Stoppers,
         Look(s) \/ FindOver(s) \/ FindDead(s) \/ SendTerm(s) \/ PollFinal(s) \/ SendKill(s)
  PROVE  LifecycleInv'
<1> USE DEF LifecycleInv
<1>0. /\ UNCHANGED <<disk, outcome, signaled, hard, snap, hardSnap, workerVars, report, reaperVars>>
      /\ runner' \in {runner, "dead"}
      /\ pc[s] \in {"idle", "looked", "polling"}
  BY DEF Look, FindOver, FindDead, SendTerm, PollFinal, SendKill, runnerVars
<1>1. PICK where \in Places \ {"idle", "done"} :
        /\ pc' = [pc EXCEPT ![s] = where]
        /\ \/ UNCHANGED seen
           \/ pc[s] \in {"idle", "polling"} /\ seen' = [seen EXCEPT ![s] = disk]
        /\ IF where \in Scanning THEN known' = [known EXCEPT ![s] = live] ELSE known' = known
        /\ where = "polling" => UNCHANGED seen /\ isRunnerAlive(seen[s])
                                /\ ~isTerminal(seen[s].status)
  BY DEF Look, FindOver, FindDead, SendTerm, PollFinal, SendKill, Goto, BeginScan, Places, Scanning
<1>2. Typed'
  BY <1>0, <1>1 DEF Typed, workerVars, reaperVars
<1>3. Bound'
  <2>1. \A t \in Stoppers : NamesRunner(seen'[t])
    BY <1>1 DEF Bound, Typed
  <2>2. \A t \in Stoppers : pc'[t] = "polling" => seen'[t].status # "created"
    <3> SUFFICES ASSUME NEW t \in Stoppers, pc'[t] = "polling" PROVE seen'[t].status # "created"
      OBVIOUS
    <3>1. CASE t = s
      BY <1>1, <3>1 DEF Bound, Typed, isRunnerAlive, NamesRunner
    <3>2. CASE t # s
      BY <1>1, <3>2 DEF Bound, Typed
    <3> QED
      BY <3>1, <3>2
  <2>3. \A t \in Stoppers : report'[t] # "none" => pc'[t] = "done"
    BY <1>0, <1>1 DEF Bound, Typed
  <2> QED
    BY <1>0, <2>1, <2>2, <2>3 DEF Bound, Early, NamesRunner, reaperVars
<1>4. ~StoppedEarly' => ~StoppedEarly
  <2>1. \E w \in Places \ {"idle"} :
          /\ pc' = [pc EXCEPT ![s] = w]
          /\ \/ UNCHANGED seen
             \/ pc[s] \in {"idle", "polling"} /\ seen' = [seen EXCEPT ![s] = disk]
    BY <1>1
  <2> QED
    BY <2>1, EarlyStopStays
<1>5. ASSUME ~StoppedEarly' PROVE Order'
  <2>1. ~StoppedEarly /\ Order
    BY <1>4, <1>5
  <2>2. \A t \in Stoppers : pc'[t] # "idle" => seen'[t].status # "created"
    BY <1>5 DEF StoppedEarly
  <2>3. seen'[s].status # "created" /\ seen'[s] \in {seen[s], disk}
    BY <1>1, <2>2 DEF Typed, Places
  <2>4. runner \notin Early
    BY <2>1, <2>3 DEF Order
  <2>5. runner' \notin Early
    BY <1>0, <2>4 DEF Early
  <2>6. pc'[s] \in Scanning => runner' = "dead"
    <3>1. CASE FindOver(s)
      <4>1. isTerminal(seen[s].status) \/ (seen[s].status = "running" /\ ~isRunnerAlive(seen[s]))
        BY <3>1 DEF FindOver, liveStatus
      <4>2. seen[s].status = "running" => seen[s].bound
        BY DEF Bound, NamesRunner
      <4> QED
        BY <1>0, <2>1, <2>4, <4>1, <4>2 DEF Order, isRunnerAlive, Alive, Early
    <3>2. CASE FindDead(s)
      <4>1. ~isTerminal(seen[s].status) /\ ~isRunnerAlive(seen[s]) /\ seen' = seen
        BY <3>2 DEF FindDead
      <4>2. seen[s].status = "running"
        <5>1. seen[s].status \in Statuses
          BY DEF Typed, Manifests
        <5> QED
          BY <2>3, <4>1, <5>1 DEF isTerminal
      <4>3. seen[s].bound
        BY <4>2 DEF Bound, NamesRunner
      <4> QED
        BY <1>0, <2>4, <4>1, <4>3 DEF isRunnerAlive, Alive, Early
    <3>3. CASE PollFinal(s)
      BY <1>0, <2>1, <3>3 DEF PollFinal, Order
    <3>4. CASE SendKill(s)
      BY <3>4 DEF SendKill
    <3>5. CASE Look(s) \/ SendTerm(s)
      BY <3>5 DEF Look, SendTerm, Goto, Typed, Scanning
    <3> QED
      BY <3>1, <3>2, <3>3, <3>4, <3>5
  <2>7. \A t \in Stoppers : pc'[t] \in Scanning \cup {"done"} => runner' = "dead"
    BY <1>0, <1>1, <2>1, <2>6 DEF Order, Typed
  <2>8. \A t \in Stoppers : isTerminal(seen'[t].status) => runner' = "dead"
    BY <1>0, <1>1, <2>1 DEF Order, Typed
  <2>9. (isTerminal(disk'.status) => runner' = "dead") /\ (reaper' = "writing" => runner' = "dead")
    BY <1>0, <2>1 DEF Order, reaperVars
  <2> QED
    BY <2>2, <2>5, <2>7, <2>8, <2>9 DEF Order
<1>6. ASSUME ~StoppedEarly' PROVE Scans'
  <2>1. Scans
    BY <1>4, <1>6
  <2>2. \A t \in Stoppers : pc'[t] \in Scanning => live' \subseteq known'[t]
    <3> SUFFICES ASSUME NEW t \in Stoppers, pc'[t] \in Scanning PROVE live' \subseteq known'[t]
      OBVIOUS
    <3>1. CASE t = s
      BY <1>0, <1>1, <3>1 DEF Typed, workerVars
    <3>2. CASE t # s
      BY <1>0, <1>1, <2>1, <3>2 DEF Typed, Scans, workerVars
    <3> QED
      BY <3>1, <3>2
  <2>3. \A t \in Stoppers :
          report'[t] \notin {"none", "cleanup-failed"} => known'[t] \cap live' = {}
    <3> SUFFICES ASSUME NEW t \in Stoppers, report'[t] \notin {"none", "cleanup-failed"}
                 PROVE  known'[t] \cap live' = {}
      OBVIOUS
    <3>1. t # s
      BY <1>0 DEF Bound
    <3> QED
      BY <1>0, <1>1, <2>1, <3>1 DEF Typed, Scans, workerVars
  <2> QED
    BY <1>0, <2>1, <2>2, <2>3 DEF Scans, workerVars
<1> QED
  BY <1>2, <1>3, <1>5, <1>6

(* What a stop that ends its scan writes is final, and what it reports     *)
(* holds.                                                                  *)
Ended(s, settled) ==
  /\ pc[s] \in Scanning /\ pc' = [pc EXCEPT ![s] = "done"]
  /\ UNCHANGED <<runnerVars, launched, late, seen, known, reaperVars>>
  /\ live' \subseteq live
  /\ settled => known[s] \cap live' = {}
  /\ report' \in [Stoppers -> {"none"} \cup Statuses]
  /\ \A t \in Stoppers \ {s} : report'[t] = report[t]
  /\ ~settled => report'[s] = "cleanup-failed"
  /\ disk' \in Manifests /\ NamesRunner(disk')
  /\ disk' = disk \/ isTerminal(disk'.status)
  /\ ~settled => ~isResumableStatus(disk'.status)

(* What a reaper makes of a manifest is a manifest, the same or final.     *)
LEMMA ReapedManifest ==
  ASSUME NEW m \in Manifests, NamesRunner(m)
  PROVE  /\ Reaped(m) \in Manifests /\ NamesRunner(Reaped(m))
         /\ Reaped(m) = m \/ isTerminal(Reaped(m).status)
<1>1. CASE liveStatus(m) = m.status
  <2>1. Reaped(m) = m
    BY <1>1 DEF Reaped, Manifests
  <2> QED
    BY <2>1
<1>2. CASE liveStatus(m) # m.status
  <2>1. Reaped(m) = [m EXCEPT !.status = "orphaned"]
    BY <1>2 DEF Reaped, liveStatus
  <2> QED
    BY <2>1 DEF Manifests, NamesRunner, Statuses, isTerminal
<1> QED
  BY <1>1, <1>2

(* A manifest with a final status.                                         *)
LEMMA FinalManifest ==
  ASSUME NEW m \in Manifests, NEW status \in {"cleanup-failed", "stopped", "orphaned"}
  PROVE  LET f == [m EXCEPT !.status = status]
         IN  f \in Manifests /\ NamesRunner(f) /\ isTerminal(f.status) /\ f.status = status
BY DEF Manifests, NamesRunner, Statuses, isTerminal

(* The three ends of a stop.                                               *)
LEMMA EndIsEnded ==
  ASSUME LifecycleInv, NEW s \in Stoppers, NEW settled \in BOOLEAN,
         EndOver(s, settled) \/ EndUnowned(s, settled) \/ EndForced(s, settled)
  PROVE  Ended(s, settled)
<1> USE DEF LifecycleInv
<1>0. /\ pc[s] \in Scanning /\ pc' = [pc EXCEPT ![s] = "done"]
      /\ UNCHANGED <<runnerVars, launched, late, seen, known, reaperVars>>
      /\ live' \subseteq live
      /\ settled => known[s] \cap live' = {}
  BY DEF EndOver, EndUnowned, EndForced, Goto, Scanning, Scan
<1>1. /\ disk \in Manifests /\ NamesRunner(disk) /\ seen[s] \in Manifests
      /\ report \in [Stoppers -> {"none"} \cup Statuses]
      /\ Reaped(disk) \in Manifests /\ NamesRunner(Reaped(disk))
      /\ Reaped(disk) = disk \/ isTerminal(Reaped(disk).status)
  BY ReapedManifest DEF Typed, Bound
<1>2. "cleanup-failed" \in Statuses /\ "stopped" \in Statuses
      /\ ~isResumableStatus("cleanup-failed")
  BY DEF Statuses, isResumableStatus
<1>3. CASE EndOver(s, settled)
  <2> DEFINE m == seen[s]
             over == IF m.status = "running" THEN "orphaned" ELSE m.status
             verdict == IF ~settled THEN "cleanup-failed"
                        ELSE IF m.status = "cleanup-failed" \/ over = "orphaned" THEN "stopped"
                        ELSE over
             writes == ~settled \/ m.status = "cleanup-failed" \/ over = "orphaned"
  <2>1. /\ disk' = IF writes THEN [m EXCEPT !.status = verdict] ELSE disk
        /\ report' = [report EXCEPT ![s] = verdict]
    BY <1>3 DEF EndOver, persistCleanupOutcome
  <2>2. verdict \in Statuses /\ (writes => verdict \in {"cleanup-failed", "stopped", "orphaned"})
        /\ (~settled => writes /\ verdict = "cleanup-failed")
    BY <1>1 DEF Manifests, Statuses
  <2> HIDE DEF m, over, verdict, writes
  <2>3. m \in Manifests
    BY <1>1 DEF m
  <2>4. CASE writes
    <3>1. disk' \in Manifests /\ NamesRunner(disk') /\ isTerminal(disk'.status)
          /\ disk'.status = verdict
      BY <2>1, <2>2, <2>3, <2>4, FinalManifest
    <3> QED
      BY <1>0, <1>1, <1>2, <2>1, <2>2, <3>1 DEF Ended
  <2>5. CASE ~writes
    BY <1>0, <1>1, <1>2, <2>1, <2>2, <2>5 DEF Ended
  <2> QED
    BY <2>4, <2>5
<1>4. CASE EndUnowned(s, settled)
  <2> DEFINE verdict == IF ~settled THEN "cleanup-failed" ELSE "stopped"
  <2>1. /\ disk' = [Reaped(disk) EXCEPT !.status = verdict]
        /\ report' = [report EXCEPT ![s] = verdict]
    BY <1>4 DEF EndUnowned, persistCleanupOutcome
  <2>2. verdict \in {"cleanup-failed", "stopped", "orphaned"} /\ verdict \in Statuses
        /\ (~settled => verdict = "cleanup-failed")
    BY <1>2
  <2> HIDE DEF verdict
  <2>3. disk' \in Manifests /\ NamesRunner(disk') /\ isTerminal(disk'.status)
        /\ disk'.status = verdict
    BY <1>1, <2>1, <2>2, FinalManifest
  <2> QED
    BY <1>0, <1>1, <1>2, <2>1, <2>2, <2>3 DEF Ended
<1>5. CASE EndForced(s, settled)
  <2> DEFINE d == Reaped(disk)
  <2>1. /\ disk' = CASE ~settled -> [d EXCEPT !.status = "cleanup-failed"]
                     [] settled /\ d.status = "cleanup-failed" -> [d EXCEPT !.status = "stopped"]
                     [] OTHER -> d
        /\ report' = [report EXCEPT ![s] = IF settled THEN "stopped" ELSE "cleanup-failed"]
    BY <1>5 DEF EndForced
  <2> HIDE DEF d
  <2>2. d \in Manifests /\ NamesRunner(d) /\ (d = disk \/ isTerminal(d.status))
    BY <1>1 DEF d
  <2>3. /\ disk' \in Manifests /\ NamesRunner(disk')
        /\ disk' = disk \/ isTerminal(disk'.status)
        /\ ~settled => disk'.status = "cleanup-failed"
    <3>1. CASE ~settled
      BY <2>1, <2>2, <3>1, FinalManifest
    <3>2. CASE settled /\ d.status = "cleanup-failed"
      BY <2>1, <2>2, <3>2, FinalManifest
    <3>3. CASE settled /\ d.status # "cleanup-failed"
      BY <2>1, <2>2, <3>3
    <3> QED
      BY <3>1, <3>2, <3>3
  <2> QED
    BY <1>0, <1>1, <1>2, <2>1, <2>3 DEF Ended
<1> QED
  BY <1>3, <1>4, <1>5

(* The end of a stop.                                                      *)
LEMMA EndKeeps ==
  ASSUME LifecycleInv, NEW s \in Stoppers, NEW settled \in BOOLEAN, Ended(s, settled)
  PROVE  LifecycleInv'
<1> USE DEF LifecycleInv
<1>0. /\ pc[s] \in Scanning /\ pc' = [pc EXCEPT ![s] = "done"]
      /\ UNCHANGED <<runnerVars, launched, late, seen, known, reaperVars>>
      /\ live' \subseteq live
  BY DEF Ended
<1>1. Typed'
  BY <1>0 DEF Typed, Ended, Places, runnerVars, reaperVars
<1>2. Bound'
  <2>1. \A t \in Stoppers : pc'[t] = "polling" => seen'[t].status # "created"
    BY <1>0 DEF Bound, Typed
  <2>2. \A t \in Stoppers : report'[t] # "none" => pc'[t] = "done"
    BY <1>0 DEF Bound, Typed, Ended
  <2> QED
    BY <1>0, <2>1, <2>2 DEF Bound, Ended, NamesRunner, Early, runnerVars, reaperVars
<1>3. ~StoppedEarly' => ~StoppedEarly
  <2>1. \E w \in Places \ {"idle"} : pc' = [pc EXCEPT ![s] = w]
    BY <1>0 DEF Places
  <2> QED
    BY <1>0, <2>1, EarlyStopStays
<1>4. ASSUME ~StoppedEarly PROVE Order'
  <2>1. runner = "dead" /\ runner' = "dead"
    BY <1>0, <1>4 DEF Order, runnerVars
  <2>2. \A t \in Stoppers : pc'[t] # "idle" => seen'[t].status # "created"
    BY <1>0, <1>4 DEF Order, Typed, Scanning
  <2> QED
    BY <2>1, <2>2 DEF Order, Early
<1>5. ASSUME ~StoppedEarly PROVE Scans'
  <2>1. runner' = "dead" /\ live \subseteq known[s]
    BY <1>0, <1>5 DEF Order, Scans, runnerVars
  <2>2. \A t \in Stoppers : pc'[t] \in Scanning => live' \subseteq known'[t]
    BY <1>0, <1>5 DEF Scans, Typed, Scanning
  <2>3. \A t \in Stoppers :
          report'[t] \notin {"none", "cleanup-failed"} => known'[t] \cap live' = {}
    <3> SUFFICES ASSUME NEW t \in Stoppers, report'[t] \notin {"none", "cleanup-failed"}
                 PROVE  known'[t] \cap live' = {}
      OBVIOUS
    <3>1. CASE t = s
      BY <1>0, <3>1 DEF Ended
    <3>2. CASE t # s
      BY <1>0, <1>5, <3>2 DEF Ended, Scans
    <3> QED
      BY <3>1, <3>2
  <2>4. isResumableStatus(disk'.status) => live' \subseteq late'
    BY <1>0, <2>1 DEF Ended
  <2> QED
    BY <2>1, <2>2, <2>3, <2>4 DEF Scans
<1> QED
  BY <1>1, <1>2, <1>3, <1>4, <1>5

(* The reaper.                                                             *)
LEMMA ReaperKeeps ==
  ASSUME LifecycleInv, ReapLook \/ ReapJudge \/ ReapWrite
  PROVE  LifecycleInv'
<1> USE DEF LifecycleInv
<1>0. UNCHANGED <<runnerVars, workerVars, stopperVars>>
  BY DEF ReapLook, ReapJudge, ReapWrite
<1>1. ~StoppedEarly' => ~StoppedEarly
  BY <1>0 DEF StoppedEarly, stopperVars
<1>2. /\ disk \in Manifests /\ NamesRunner(disk) /\ reapSeen \in Manifests /\ NamesRunner(reapSeen)
  BY DEF Typed, Bound
<1>3. /\ disk' \in Manifests /\ NamesRunner(disk') /\ reapSeen' \in Manifests
      /\ NamesRunner(reapSeen')
      /\ disk' = disk \/ (disk'.status = "orphaned" /\ reaper = "writing")
      /\ reapSeen' \in {reapSeen, disk}
  <2>1. CASE ReapWrite
    BY <1>2, <2>1, FinalManifest DEF ReapWrite
  <2>2. CASE ReapLook \/ ReapJudge
    BY <1>2, <2>2 DEF ReapLook, ReapJudge
  <2> QED
    BY <2>1, <2>2
<1>4. Typed'
  BY <1>0, <1>3 DEF Typed, runnerVars, workerVars, stopperVars
<1>5. Bound'
  BY <1>0, <1>3 DEF Bound, Early, NamesRunner, runnerVars, stopperVars
<1>6. ASSUME ~StoppedEarly PROVE Order'
  <2>1. reaper' = "writing" => runner = "dead"
    <3>1. CASE ReapJudge
      <4>1. ASSUME reaper' = "writing"
            PROVE  reapSeen.status = "running" /\ ~isRunnerAlive(reapSeen)
        BY <3>1, <4>1 DEF ReapJudge, liveStatus
      <4> QED
        BY <1>2, <1>6, <4>1 DEF Order, Early, NamesRunner, isRunnerAlive, Alive
    <3>2. CASE ReapLook \/ ReapWrite
      BY <3>2 DEF ReapLook, ReapWrite
    <3> QED
      BY <3>1, <3>2
  <2> QED
    BY <1>0, <1>3, <1>6, <2>1 DEF Order, Early, runnerVars, stopperVars
<1>7. ASSUME ~StoppedEarly PROVE Scans'
  <2>1. isResumableStatus(disk'.status) => disk' = disk
    BY <1>3 DEF isResumableStatus
  <2> QED
    BY <1>0, <1>7, <2>1 DEF Scans, runnerVars, workerVars, stopperVars
<1> QED
  BY <1>1, <1>4, <1>5, <1>6, <1>7

(* Every step keeps the invariant.                                         *)
LEMMA LifecycleNext == LifecycleInv /\ [Next]_vars => LifecycleInv'
<1> SUFFICES ASSUME LifecycleInv, [Next]_vars PROVE LifecycleInv'
  OBVIOUS
<1>1. CASE UNCHANGED vars
  BY <1>1 DEF vars, runnerVars, workerVars, stopperVars, reaperVars, LifecycleInv, Typed, Bound,
              NamesRunner, Order, Early, Scans, StoppedEarly
<1>2. CASE RunnerTurn
  BY <1>2, FlushKeeps, RunnerKeeps, FinalKeeps DEF RunnerTurn
<1>3. CASE Spawn \/ RejectEarly \/ flushManifest \/ WallClock \/ Unwind \/ Fail \/ Crash
  BY <1>3, FlushKeeps, RunnerKeeps
<1>4. CASE \E w \in Workers : Launch(w) \/ WorkerEnds(w)
  BY <1>4, WorkersKeep
<1>5. CASE \E s \in Stoppers : Stop(s)
  BY <1>5, LookKeeps, EndIsEnded, EndKeeps DEF Stop
<1>6. CASE ReapLook \/ ReapJudge \/ ReapWrite
  BY <1>6, ReaperKeeps
<1> QED
  BY <1>1, <1>2, <1>3, <1>4, <1>5, <1>6 DEF Next

(* The invariant holds throughout.                                         *)
LEMMA LifecycleInvariant == Spec => []LifecycleInv
BY LifecycleInit, LifecycleNext, PTL DEF Spec

-----------------------------------------------------------------------------
(* A run can be resumed only when no worker of it is left that was there    *)
(* before a cleanup looked: the scans of runner, hard stop and stopRun.     *)
THEOREM LifecycleQuiet == Spec => []ResumableIsQuiet
<1>1. LifecycleInv => ResumableIsQuiet
  BY DEF LifecycleInv, Scans, ResumableIsQuiet
<1> QED
  BY <1>1, LifecycleInvariant, PTL

(* What stopRun reports holds, whatever other stops and the runner do.      *)
THEOREM LifecycleReports == Spec => []StopReportHonest
<1>1. LifecycleInv => StopReportHonest
  BY DEF LifecycleInv, Order, Scans, Bound, StopReportHonest
<1> QED
  BY <1>1, LifecycleInvariant, PTL

(* No writer of the manifest turns a finished run into a running one.       *)
THEOREM LifecycleNoRevival == Spec => NoRevival
<1>1. LifecycleInv /\ [Next]_vars =>
        [isTerminal(disk.status) /\ ~isTerminal(disk'.status) => StoppedEarly]_disk
  <2> SUFFICES ASSUME LifecycleInv, [Next]_vars, disk' # disk, isTerminal(disk.status),
                      ~isTerminal(disk'.status), ~StoppedEarly
               PROVE  FALSE
    OBVIOUS
  <2>1. runner = "dead"
    BY DEF LifecycleInv, Order
  <2>2. CASE \E s \in Stoppers : Stop(s)
    <3>1. PICK s \in Stoppers : Stop(s)
      BY <2>2
    <3>2. PICK settled \in BOOLEAN : Ended(s, settled)
      BY <3>1, EndIsEnded DEF Stop, Look, FindOver, FindDead, SendTerm, PollFinal, SendKill
    <3> QED
      BY <3>2 DEF Ended
  <2>3. CASE ReapLook \/ ReapJudge \/ ReapWrite
    BY <2>3 DEF ReapLook, ReapJudge, ReapWrite, LifecycleInv, Typed, Manifests, isTerminal, Statuses
  <2>4. CASE \E w \in Workers : Launch(w) \/ WorkerEnds(w)
    BY <2>4 DEF Launch, WorkerEnds
  <2>5. CASE RunnerTurn
    BY <2>1, <2>5 DEF RunnerTurn, Bind, Execute, HandleSignal, HardStopFires, Finalize,
                      FinalizeFatal, HardStopEnds
  <2>6. CASE Spawn \/ RejectEarly \/ flushManifest \/ WallClock \/ Unwind \/ Fail \/ Crash
    BY <2>1, <2>6 DEF Spawn, RejectEarly, flushManifest, WallClock, Unwind, Fail, Crash, Alive
  <2>7. CASE UNCHANGED vars
    BY <2>7 DEF vars
  <2> QED
    BY <2>2, <2>3, <2>4, <2>5, <2>6, <2>7 DEF Next
<1> QED
  BY <1>1, LifecycleInvariant, PTL DEF Spec, NoRevival
=============================================================================
