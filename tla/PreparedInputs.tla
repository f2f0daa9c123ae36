---------------------------- MODULE PreparedInputs ----------------------------
(***************************************************************************)
(* The `prep` commands of the benchmark harness: prepCommand of the three  *)
(* suites, prepareSwebenchProInputs, prepareMarathonInputs and             *)
(* prepareFeatureBenchInputs, and the shared toolchain                     *)
(* (bench/src/shared/toolchain.ts).                                        *)
(*                                                                         *)
(* A prep holds two locks, builds the toolchain and the suite's inputs in  *)
(* stage directories of its own, publishes each by a rename to a name      *)
(* derived from its content, moves the suite's `current` pointer and loads *)
(* the result.  A load looks the toolchain up by the payload hash.         *)
(***************************************************************************)
EXTENDS Naturals, FiniteSets, Sequences

CONSTANTS
  Commands,   \* prep commands, each in a process of its own
  Suites,     \* bound: the suites prepared, of "swebench", "marathon", "featurebench"
  Contents    \* bound: the contents a build may come out with

ASSUME CommandsAssumption == "free" \notin Commands

VARIABLES
  cmd,        \* each command: where it is, what it built, how it ended
  locks,       \* the toolchain lock and one lock per suite: the holder, or "free"
  left,       \* what each command has on disk or in Docker that is not published
  downloads,  \* archives in the private download cache
  tools,      \* names of the published toolchains
  inputs,     \* identities of the inputs published for each suite
  pointer     \* the identity each suite's current file holds: a set of at most one

shared == <<downloads, tools, inputs, pointer>>
prepVars == <<cmd, locks, left, downloads, tools, inputs, pointer>>

NoId == [content |-> 0, facts |-> {}, tool |-> 0]
Fresh == [at |-> "idle", suite |-> "none", recover |-> FALSE, step |-> 1, facts |-> {},
          tool |-> 0, id |-> NoId, mine |-> FALSE, thrown |-> FALSE, out |-> "none"]

PrepInit ==
  /\ cmd = [c \in Commands |-> Fresh]
  /\ locks = [l \in {"toolchain"} \cup Suites |-> "free"]
  /\ left = [c \in Commands |-> {}]
  /\ downloads = {} /\ tools = {}
  /\ inputs = [s \in Suites |-> {}]
  /\ pointer = [s \in Suites |-> {}]

-----------------------------------------------------------------------------
(* What a suite's build does to its stage, in order.  uv binds the entry    *)
(* points of an environment to the stage's path; Python leaves bytecode.    *)

SwebenchBuild == <<"checkout", "patch", "environment", "identity">>
MarathonBuild == <<"checkout", "environment", "patch", "normalize", "identity">>
FeatureBenchBuild == <<"checkout", "patch", "environment", "relocate", "dataset", "strip", "identity">>

Builds(s) ==
  CASE s = "swebench" -> SwebenchBuild
    [] s = "marathon" -> MarathonBuild
    [] s = "featurebench" -> FeatureBenchBuild

\* SWE-Marathon: scripts of the environment start the interpreter found on PATH.
Normalize(facts) == facts \ {"bound"}
\* FeatureBench: entry points start the interpreter next to them.
Relocate(facts) == facts \ {"bound"}
\* Mutant: the bytecode of the scripts that read the dataset is left.
StripNothing(facts) == facts
Strip(facts) == facts \ {"bytecode"}

Effect(step, facts) ==
  CASE step = "environment" -> facts \cup {"bound"}
    [] step = "dataset" -> facts \cup {"bytecode"}
    [] step = "normalize" -> Normalize(facts)
    [] step = "relocate" -> Relocate(facts)
    [] step = "strip" -> Strip(facts)
    [] OTHER -> facts

-----------------------------------------------------------------------------
PrepAt(c, from) == cmd[c].at = from
Go(c, to) == cmd' = [cmd EXCEPT ![c].at = to]
Throws(c) == cmd' = [cmd EXCEPT ![c].at = "unwinding", ![c].thrown = TRUE]
Working(c) == cmd[c].at \notin {"idle", "ended", "dead"}

PrepBegins(c) ==
  /\ PrepAt(c, "idle")
  /\ \E s \in Suites, recover \in BOOLEAN :
       cmd' = [cmd EXCEPT ![c].at = "toolchain lock", ![c].suite = s, ![c].recover = recover]
  /\ UNCHANGED <<locks, left, shared>>

\* Only SWE-Marathon looks for its tools before it takes the locks.
PreflightFails(c) ==
  /\ PrepAt(c, "toolchain lock") /\ cmd[c].suite = "marathon"
  /\ cmd' = [cmd EXCEPT ![c].at = "ended", ![c].thrown = TRUE, ![c].out = "failed"]
  /\ UNCHANGED <<locks, left, shared>>

\* BenchLock's promise: free, or its holder is dead and --recover-stale-lock was given.
Takes(c, l) == locks[l] = "free" \/ (cmd[c].recover /\ cmd[locks[l]].at = "dead")

TakeLock(c, l, from, to) ==
  /\ PrepAt(c, from)
  /\ IF Takes(c, l) THEN Go(c, to) /\ locks' = [locks EXCEPT ![l] = c]
                    ELSE Throws(c) /\ UNCHANGED locks
  /\ UNCHANGED <<left, shared>>

ToolchainLock(c) == TakeLock(c, "toolchain", "toolchain lock", "suite lock")
SuiteLock(c) == \E s \in Suites : cmd[c].suite = s /\ TakeLock(c, s, "suite lock", "open")

\* Host and tools fit, and both stages are made.
OpenStage(c) ==
  /\ PrepAt(c, "open")
  /\ \/ Go(c, "node") /\ left' = [left EXCEPT ![c] = {"inputs", "toolchain"}]
     \/ Throws(c) /\ UNCHANGED left
  /\ UNCHANGED <<locks, shared>>

-----------------------------------------------------------------------------
(* prepareSharedToolchain *)

StartDownload(c, a) ==
  /\ PrepAt(c, a) /\ a \notin downloads /\ "partial" \notin left[c]
  /\ left' = [left EXCEPT ![c] = @ \cup {"partial"}]
  /\ UNCHANGED <<cmd, locks, shared>>

\* The published checksum fits and the archive gets its name, or it is dropped.
EndDownload(c, a) ==
  /\ PrepAt(c, a) /\ "partial" \in left[c]
  /\ left' = [left EXCEPT ![c] = @ \ {"partial"}]
  /\ \/ downloads' = downloads \cup {a} /\ UNCHANGED cmd
     \/ Throws(c) /\ UNCHANGED downloads
  /\ UNCHANGED <<locks, tools, inputs, pointer>>

\* The cached archive is authenticated while it is copied, and extracted.
StageArchive(c, a) ==
  /\ PrepAt(c, a) /\ a \in downloads
  /\ Go(c, IF a = "node" THEN "musl" ELSE "runtime") \/ Throws(c)
  /\ UNCHANGED <<locks, left, shared>>

\* The C++ runtime is copied out of a container that is only created.
CreateContainer(c) ==
  /\ PrepAt(c, "runtime") /\ left' = [left EXCEPT ![c] = @ \cup {"container"}]
  /\ Go(c, "copy")
  /\ UNCHANGED <<locks, shared>>

\* The finally block: docker rm -f, which may itself fail.
RemoveContainer(c) ==
  /\ PrepAt(c, "copy")
  /\ \/ left' = [left EXCEPT ![c] = @ \ {"container"}] /\ (Go(c, "assemble") \/ Throws(c))
     \/ UNCHANGED left /\ Throws(c)
  /\ UNCHANGED <<locks, shared>>

\* codex, the release, the homes of both arms, the native assets, the payload hash.
AssembleToolchain(c) ==
  /\ PrepAt(c, "assemble")
  /\ \/ \E k \in Contents :
          cmd' = [cmd EXCEPT ![c].at = "publish toolchain", ![c].tool = k]
     \/ Throws(c)
  /\ UNCHANGED <<locks, left, shared>>

\* toolchainCacheKey: the hash of the whole manifest, of which the payload hash is a part.
CacheKey(k) == [manifest |-> k]
PayloadKey(k) == [payload |-> k]

\* A target that exists wins, and the stage goes.
PublishToolchain(c) ==
  /\ PrepAt(c, "publish toolchain")
  /\ tools' = tools \cup {CacheKey(cmd[c].tool)}
  /\ left' = [left EXCEPT ![c] = @ \ {"toolchain"}]
  /\ Go(c, "build")
  /\ UNCHANGED <<locks, downloads, inputs, pointer>>

-----------------------------------------------------------------------------
(* The suite's inputs *)

BuildStep(c) ==
  /\ PrepAt(c, "build") /\ cmd[c].step <= Len(Builds(cmd[c].suite))
  /\ LET step == Builds(cmd[c].suite)[cmd[c].step] IN
       \/ cmd' = [cmd EXCEPT ![c].step = @ + 1, ![c].facts = Effect(step, @)]
       \/ Throws(c)
  /\ UNCHANGED <<locks, left, shared>>

PublishInputs(c) ==
  /\ PrepAt(c, "build") /\ cmd[c].step > Len(Builds(cmd[c].suite))
  /\ \E k \in Contents, s \in Suites :
       LET id == [content |-> k, facts |-> cmd[c].facts, tool |-> cmd[c].tool] IN
         /\ s = cmd[c].suite
         /\ inputs' = [inputs EXCEPT ![s] = @ \cup {id}]
         /\ cmd' = [cmd EXCEPT ![c].at = IF s = "featurebench" THEN "load" ELSE "point",
                               ![c].id = id, ![c].mine = id \notin inputs[s]]
  /\ left' = [left EXCEPT ![c] = @ \ {"inputs"}]
  /\ UNCHANGED <<locks, downloads, tools, pointer>>

MovePointer(c) ==
  /\ PrepAt(c, "point")
  /\ pointer' = [pointer EXCEPT ![cmd[c].suite] = {cmd[c].id}]
  /\ Go(c, "load")
  /\ UNCHANGED <<locks, left, downloads, tools, inputs>>

\* loadPreparedToolchain: the directory exists and its name is its own cache key.
LoadsToolchain(name) == name \in tools /\ \E k \in Contents : name = CacheKey(k)

(* Each suite's load hashes the directory again and opens the toolchain it *)
(* names by its payload; FeatureBench also refuses bytecode and a launcher *)
(* bound to another path, the others leave bytecode out of the hash.       *)
SwebenchLoads(id) == LoadsToolchain(PayloadKey(id.tool))
MarathonLoads(id) == LoadsToolchain(PayloadKey(id.tool))
FeatureBenchLoads(id) == id.facts = {} /\ LoadsToolchain(PayloadKey(id.tool))

Loads(s, id) ==
  /\ id \in inputs[s]
  /\ CASE s = "swebench" -> SwebenchLoads(id)
       [] s = "marathon" -> MarathonLoads(id)
       [] s = "featurebench" -> FeatureBenchLoads(id)

\* Mutant: any suite takes its publication back when the load fails.
WithdrawnEverywhere(c) == IF cmd[c].mine THEN {cmd[c].id} ELSE {}
\* Only FeatureBench takes a publication back, when it is its own.
Withdrawn(c) ==
  IF cmd[c].suite = "featurebench" /\ cmd[c].mine THEN {cmd[c].id} ELSE {}

\* The closing load; FeatureBench also runs `fb --help` and only then moves its pointer.
LoadInputs(c) ==
  /\ PrepAt(c, "load")
  /\ LET s == cmd[c].suite IN
       IF Loads(s, cmd[c].id)
         THEN /\ cmd' = [cmd EXCEPT ![c].at = "unwinding", ![c].out = "prepared"]
              /\ pointer' = [pointer EXCEPT ![s] = {cmd[c].id}] /\ UNCHANGED inputs
         ELSE /\ Go(c, "unwinding") /\ UNCHANGED pointer
              /\ inputs' = [inputs EXCEPT ![s] = @ \ Withdrawn(c)]
  /\ UNCHANGED <<locks, left, downloads, tools>>

-----------------------------------------------------------------------------
\* Mutant: the toolchain lock is kept when the suite's lock is refused.
ReleasedOpened(c) == IF cmd[c].step = 1 /\ left[c] = {} THEN {} ELSE {l \in DOMAIN locks : locks[l] = c}

\* The suite's lock, then the toolchain's.
Released(c) == {l \in DOMAIN locks : locks[l] = c}

\* prepCommand prints the inputs it loaded, or fails.
PrepOutcome(c) == IF cmd[c].out = "prepared" THEN "prepared" ELSE "failed"

\* The stages are removed on the way out, and the locks are given back.
Unwind(c) ==
  /\ PrepAt(c, "unwinding")
  /\ left' = [left EXCEPT ![c] = @ \ {"toolchain", "inputs"}]
  /\ locks' = [l \in DOMAIN locks |-> IF l \in Released(c) THEN "free" ELSE locks[l]]
  /\ cmd' = [cmd EXCEPT ![c] = [Fresh EXCEPT !.at = "ended", !.thrown = cmd[c].thrown,
                                             !.out = PrepOutcome(c)]]
  /\ UNCHANGED shared

PrepDies(c) ==
  /\ Working(c)
  /\ cmd' = [cmd EXCEPT ![c] = [Fresh EXCEPT !.at = "dead"]]
  /\ UNCHANGED <<locks, left, shared>>

PrepNext == \E c \in Commands :
  \/ PrepBegins(c) \/ PreflightFails(c) \/ ToolchainLock(c) \/ SuiteLock(c) \/ OpenStage(c)
  \/ \E a \in {"node", "musl"} : StartDownload(c, a) \/ EndDownload(c, a) \/ StageArchive(c, a)
  \/ CreateContainer(c) \/ RemoveContainer(c) \/ AssembleToolchain(c) \/ PublishToolchain(c)
  \/ BuildStep(c) \/ PublishInputs(c) \/ MovePointer(c) \/ LoadInputs(c) \/ Unwind(c) \/ PrepDies(c)

PrepSpec == PrepInit /\ [][PrepNext]_prepVars

-----------------------------------------------------------------------------
(* Whatever fails or dies, a suite's pointer names inputs that are           *)
(* published whole (swe-marathon/prepare.ts:409), and a publication is taken *)
(* back only by the command that made it and while no pointer names it       *)
(* (featurebench/prepare.ts:796).                                            *)
PointerNamesPublished ==
  [][\A s \in Suites :
       /\ pointer'[s] \subseteq inputs'[s]
       /\ \A id \in inputs[s] \ inputs'[s] :
            \E c \in Commands : cmd[c].mine /\ cmd[c].id = id /\ cmd'[c].at # "dead"]_prepVars

(* What FeatureBench publishes was stripped after the last script ran, and   *)
(* what it and SWE-Marathon publish no longer names the stage it was built   *)
(* in, which the rename took away (featurebench/prepare.ts:765).             *)
PublishedStandsAlone ==
  \A s \in Suites \ {"swebench"} : \A id \in inputs[s] : id.facts = {}

(* A command that ended, however it ended, holds no lock and left no stage   *)
(* and no partial download; a container stays only when Docker would not     *)
(* remove it (toolchain.ts:236).                                             *)
NothingLeftBehind ==
  /\ \A c \in Commands : PrepAt(c, "ended") => left[c] \subseteq {"container"}
  /\ \A l \in DOMAIN locks : locks[l] # "free" => ~PrepAt(locks[l], "ended")

(* The claim of docs/swe-marathon.md:15 that `prep` creates content-addressed *)
(* inputs and prepares the shared toolchain: a prep whose steps all succeeded *)
(* ends with inputs that load.                                                *)
PrepSucceeds ==
  \A c \in Commands : PrepAt(c, "ended") /\ ~cmd[c].thrown => cmd[c].out = "prepared"
=============================================================================
