----------------------------- MODULE Distribution -----------------------------
(***************************************************************************)
(* How a build reaches a user: scripts/release-oss.mjs publishes to the     *)
(* object store, scripts/oss/install.sh installs from it, `ultracode        *)
(* update` (src/cli/update.ts) runs the installer for a chosen version.     *)
(*                                                                         *)
(* One publisher runs at a time (release-oss.mjs:27); installers overlap.   *)
(* Every process may be killed between two of its steps.  A build is a      *)
(* number: rebuilding a version gives another one.  Target 0 is the Node    *)
(* runtime, which is mirrored, verified and landed like a release.          *)
(***************************************************************************)
EXTENDS Naturals, FiniteSets

CONSTANTS
  Versions,    \* released versions, positive numbers in the order of precedence
  Installers,  \* runs of install.sh on one host
  ReusePids,   \* whether the pid of a dead installer is given out again
  MaxStarts,   \* bound: installers started
  MaxBuilds    \* bound: builds published

ASSUME DistributionAssumption ==
  /\ Versions \subseteq Nat \ {0}
  /\ ReusePids \in BOOLEAN /\ MaxStarts \in Nat /\ MaxBuilds \in Nat

Pids == 1 .. MaxStarts

VARIABLES
  tar, side,   \* the store: the build of each tarball, the build its .sha256 describes; 0: absent
  latest,      \* latest.json: version and build; version 0: absent
  pub,         \* the publisher
  builds,      \* builds made so far
  forced,      \* history: versions whose tarball --force replaced
  inst,        \* each installer
  starts,      \* installers started so far
  stage,       \* the stage directory that bears a pid: the build in it and its version
  app,         \* the versioned directories of the host
  current,     \* app/current; 0: no link
  landed       \* history: <<version, build>> that became a complete copy

store == <<tar, side, latest>>
host == <<stage, app, current, landed>>
distributionVars == <<tar, side, latest, pub, builds, forced, inst, starts, stage, app, current, landed>>

Targets == Versions \cup {0}
Resting == [at |-> "idle", v |-> 0, build |-> 0, up |-> FALSE, force |-> FALSE, resume |-> FALSE]
NotRun == [at |-> "over", pid |-> 0, v |-> 0, sha |-> 0, t |-> 0]
NoStage == [v |-> 0, build |-> 0]
NoCopy == [is |-> "absent", build |-> 0]

DistributionInit ==
  /\ tar = [t \in Targets |-> 0] /\ side = [t \in Targets |-> 0]
  /\ latest = [v |-> 0, build |-> 0]
  /\ pub = Resting /\ builds = 0 /\ forced = {}
  /\ inst = [i \in Installers |-> NotRun] /\ starts = 0
  /\ stage = [p \in Pids |-> NoStage]
  /\ app = [t \in Targets |-> NoCopy]
  /\ current = 0 /\ landed = {}

-----------------------------------------------------------------------------
(* release-oss.mjs *)

PubAt(from) == pub.at = from
PubGo(to) == pub' = [pub EXCEPT !.at = to]

\* --mirror-node: the tarball, verified, then its sidecar from SHASUMS256.txt; what is there stays.
MirrorNode ==
  /\ PubAt("idle")
  /\ \/ tar[0] = 0 /\ tar' = [tar EXCEPT ![0] = 1] /\ UNCHANGED side
     \/ tar[0] # 0 /\ side[0] = 0 /\ side' = [side EXCEPT ![0] = 1] /\ UNCHANGED tar
  /\ UNCHANGED <<latest, pub, builds, forced, inst, starts, host>>

\* A build from the tree; without the mirrored runtime only --skip-runtime-check goes on.
Publish ==
  /\ PubAt("idle") /\ builds < MaxBuilds
  /\ builds' = builds + 1
  /\ \E v \in Versions, resume, force \in BOOLEAN :
       pub' = [at |-> "stat", v |-> v, build |-> builds + 1, up |-> TRUE,
               force |-> force, resume |-> resume]
  /\ UNCHANGED <<store, forced, inst, starts, host>>

\* Mutant: --resume publishes the rebuilt tarball again.
ReconciledByUpload == pub' = [pub EXCEPT !.at = "tar"] /\ UNCHANGED side

\* The remote tarball is the release: its sidecar is repaired, the pointers will name it.
Reconciled ==
  /\ pub' = [pub EXCEPT !.at = "latest", !.up = FALSE, !.build = tar[pub.v]]
  /\ side' = [side EXCEPT ![pub.v] = tar[pub.v]]

\* Mutant: the pointers go up first.
AfterStatPointers == "latest"

AfterStat == "tar"

StatRelease ==
  /\ PubAt("stat")
  /\ IF pub.force \/ tar[pub.v] = 0 THEN PubGo(AfterStat) /\ UNCHANGED side
     ELSE IF pub.resume THEN Reconciled
     ELSE pub' = Resting /\ UNCHANGED side
  /\ UNCHANGED <<tar, latest, builds, forced, inst, starts, host>>

UploadTar ==
  /\ PubAt("tar") /\ tar' = [tar EXCEPT ![pub.v] = pub.build] /\ PubGo("sidecar")
  /\ forced' = IF pub.force /\ tar[pub.v] # 0 THEN forced \cup {pub.v} ELSE forced
  /\ UNCHANGED <<side, latest, builds, inst, starts, host>>

UploadSidecar ==
  /\ PubAt("sidecar") /\ side' = [side EXCEPT ![pub.v] = pub.build] /\ PubGo("latest")
  /\ UNCHANGED <<tar, latest, builds, forced, inst, starts, host>>

UploadLatest ==
  /\ PubAt("latest") /\ latest' = [v |-> pub.v, build |-> pub.build] /\ pub' = Resting
  /\ UNCHANGED <<tar, side, builds, forced, inst, starts, host>>

PublisherDies ==
  /\ pub.at # "idle" /\ pub' = Resting
  /\ UNCHANGED <<store, builds, forced, inst, starts, host>>

-----------------------------------------------------------------------------
(* install.sh *)

At(i, from) == inst[i].at = from
Go(i, to) == inst' = [inst EXCEPT ![i].at = to]
Dead(i) == inst[i].at = "over"
LivePids == {inst[i].pid : i \in {j \in Installers : ~Dead(j)}}

Complete(t) == app[t].is = "complete"

\* A pid nobody has; want is the pinned UC_VERSION, 0 for the latest.
Starts(i, want) ==
  /\ Dead(i) /\ starts < MaxStarts /\ starts' = starts + 1
  /\ \E p \in Pids \ LivePids :
       /\ ReusePids \/ p = starts + 1
       /\ inst' = [inst EXCEPT ![i] = [at |-> "resolve", pid |-> p, v |-> want, sha |-> 0, t |-> 0]]
  /\ UNCHANGED <<store, pub, builds, forced, host>>

RunInstaller(i) == \E want \in Versions \cup {0} : Starts(i, want)

\* A bare update never goes back; --to goes anywhere but to the running version.
Newer(v) == latest.v > v
Update(i) ==
  /\ current # 0 /\ Complete(current)
  /\ \E want \in Versions \ {current} :
       /\ \/ Newer(current) /\ want = latest.v
          \/ TRUE                                                   \* --to
       /\ Starts(i, want)

\* The version and the checksum it must have.
Resolve(i) ==
  /\ At(i, "resolve")
  /\ LET found == IF inst[i].v = 0 THEN latest
                  ELSE [v |-> inst[i].v, build |-> side[inst[i].v]] IN
       IF found.build = 0 THEN inst' = [inst EXCEPT ![i] = NotRun]
       ELSE inst' = [inst EXCEPT ![i].at = "node", ![i].v = found.v, ![i].sha = found.build]
  /\ UNCHANGED <<store, pub, builds, forced, starts, host>>

\* A usable Node is given or found, or the runtime is provisioned first.
ChooseNode(i) ==
  /\ At(i, "node")
  /\ \/ inst' = [inst EXCEPT ![i].at = "look", ![i].t = inst[i].v]
     \/ ~Complete(0) /\ Go(i, "download")
  /\ UNCHANGED <<store, pub, builds, forced, starts, host>>

\* The runtime's sidecar, or the checksum resolved with the version.
Expected(i) == IF inst[i].t = 0 THEN side[0] ELSE inst[i].sha

\* A copy with its receipt and its payload is kept.
LookForCopy(i) ==
  /\ At(i, "look") /\ Go(i, IF Complete(inst[i].t) THEN "flip" ELSE "download")
  /\ UNCHANGED <<store, pub, builds, forced, starts, host>>

Download(i) ==
  /\ At(i, "download")
  /\ Go(i, IF tar[inst[i].t] # 0 /\ tar[inst[i].t] = Expected(i) THEN "stage" ELSE "over")
  /\ UNCHANGED <<store, pub, builds, forced, starts, host>>

\* Mutant: the owner of a stage is not looked for.
ReapableAll(i) == {p \in Pids \ {inst[i].pid} : stage[p] # NoStage}

\* stage_pid_live: a stage whose pid is live stays, the installer's own too.
Reapable(i) == {p \in Pids \ LivePids : stage[p] # NoStage}

\* Reaping, then the move onto the own stage; when that exists, into it.  Another process
\* may have the pid of a dead installer.
Stage(i) ==
  /\ At(i, "stage")
  /\ \E reaped \in SUBSET Reapable(i) :
       stage' = [p \in Pids |->
         IF p \in reaped THEN NoStage
         ELSE IF p = inst[i].pid /\ stage[p] = NoStage
           THEN [v |-> inst[i].t, build |-> Expected(i)] ELSE stage[p]]
  /\ Go(i, "decide")
  /\ UNCHANGED <<store, pub, builds, forced, starts, app, current, landed>>

\* After the runtime comes the app, after the app the link.
Landed(i) ==
  inst' = [inst EXCEPT ![i] = IF @.t = 0 THEN [@ EXCEPT !.at = "look", !.t = inst[i].v]
                                        ELSE [@ EXCEPT !.at = "flip"]]

\* The first test: a complete copy wins, and the stage goes.
Decide(i) ==
  /\ At(i, "decide")
  /\ IF Complete(inst[i].t)
       THEN stage' = [stage EXCEPT ![inst[i].pid] = NoStage] /\ Landed(i)
       ELSE Go(i, "exists") /\ UNCHANGED stage
  /\ UNCHANGED <<store, pub, builds, forced, starts, app, current, landed>>

\* The second test, and the rm -rf; killed on the way it leaves a part.
Wipe(i) ==
  /\ At(i, "exists")
  /\ \/ app[inst[i].t] = NoCopy /\ Go(i, "move") /\ UNCHANGED app
     \/ /\ app[inst[i].t] # NoCopy
        /\ \/ app' = [app EXCEPT ![inst[i].t] = NoCopy] /\ Go(i, "move")
           \/ app' = [app EXCEPT ![inst[i].t].is = "partial"] /\ inst' = [inst EXCEPT ![i] = NotRun]
  /\ UNCHANGED <<store, pub, builds, forced, starts, stage, current, landed>>

\* One rename; onto a directory that came to exist it moves into that.
Move(i) ==
  /\ At(i, "move")
  /\ IF app[inst[i].t] = NoCopy /\ stage[inst[i].pid] # NoStage
       THEN /\ app' = [app EXCEPT ![inst[i].t] =
                         [is |-> "complete", build |-> stage[inst[i].pid].build]]
            /\ landed' = landed \cup {<<inst[i].t, stage[inst[i].pid].build>>}
       ELSE UNCHANGED <<app, landed>>
  /\ IF stage[inst[i].pid] = NoStage THEN inst' = [inst EXCEPT ![i] = NotRun] ELSE Landed(i)
  /\ stage' = [stage EXCEPT ![inst[i].pid] = NoStage]
  /\ UNCHANGED <<store, pub, builds, forced, starts, current>>

\* link_swap by one rename (GNU mv), and the shim.
FlipCurrent(i) ==
  /\ At(i, "flip") /\ current' = inst[i].t /\ inst' = [inst EXCEPT ![i] = NotRun]
  /\ UNCHANGED <<store, pub, builds, forced, starts, stage, app, landed>>

InstallerDies(i) ==
  /\ ~Dead(i) /\ inst' = [inst EXCEPT ![i] = NotRun]
  /\ UNCHANGED <<store, pub, builds, forced, starts, host>>

-----------------------------------------------------------------------------
Installer(i) ==
  \/ RunInstaller(i) \/ Update(i) \/ Resolve(i) \/ ChooseNode(i) \/ LookForCopy(i) \/ Download(i)
  \/ Stage(i) \/ Decide(i) \/ Wipe(i) \/ Move(i) \/ FlipCurrent(i) \/ InstallerDies(i)

DistributionNext ==
  \/ MirrorNode \/ Publish \/ StatRelease \/ UploadTar \/ UploadSidecar \/ UploadLatest
  \/ PublisherDies
  \/ \E i \in Installers : Installer(i)

DistributionSpec == DistributionInit /\ [][DistributionNext]_distributionVars

-----------------------------------------------------------------------------
(* A released tarball is immutable: whatever publication was interrupted     *)
(* and resumed, each complete copy that was ever installed of a version that *)
(* was never forced is the build the store still gives out                   *)
(* (release-oss.mjs:9).                                                      *)
OneBuildPerVersion == \A copy \in landed : copy[1] \notin forced => copy[2] = tar[copy[1]]

(* A publication that dies anywhere leaves no pointer to a missing object,   *)
(* and none an install would refuse unless --force is replacing that version *)
(* (release-oss.mjs:7).                                                      *)
LatestResolves ==
  latest.v # 0 =>
    /\ tar[latest.v] # 0 /\ side[latest.v] # 0
    /\ latest.v \notin forced => tar[latest.v] = latest.build /\ side[latest.v] = latest.build

(* The stage an installer is about to rename is there and holds what it      *)
(* downloaded, however many others reap stages meanwhile (install.sh:91).    *)
StageStands ==
  \A i \in Installers : inst[i].at \in {"decide", "exists", "move"} =>
    stage[inst[i].pid] = [v |-> inst[i].t, build |-> Expected(i)]

(* The claim of install.sh:12 that versioned directories are retained and of *)
(* install.sh:299 that a complete copy is kept instead of wiped.             *)
CompleteCopyStays == [][\A t \in Versions : Complete(t) => Complete(t)']_distributionVars
=============================================================================
