---------------------------- MODULE CorpusLocks ----------------------------
(***************************************************************************)
(* How concurrent `seek` commands, and the garbage collector, share one    *)
(* cached index ("corpus") per node through two flock files:               *)
(*                                                                         *)
(*   .build.lock  exclusive, held for a complete build (lock.go, lockBuild)*)
(*   .lock        exclusive while a publish swaps shard files, shared while*)
(*                a read lists, opens and searches them.                   *)
(*                                                                         *)
(* A flock belongs to the inode of the file that was opened, and every     *)
(* other access to the corpus goes by path.  The garbage collector renames *)
(* the corpus directory away, and the next mkdir makes new inodes under    *)
(* the same path.  So each node counts the incarnations of its directory,  *)
(* a process remembers the incarnation its file descriptors belong to, and *)
(* two locks conflict only on the same incarnation.                        *)
(*                                                                         *)
(* A task is one node of one search: openNode, with its preparation, its   *)
(* read and its one retry.  A sweep is one node of one garbage collection. *)
(***************************************************************************)
EXTENDS Naturals, FiniteSets

CONSTANTS
    Commands,      \* searches, each a process with its own build slots
    Nodes,         \* corpora; every command opens every node
    GitNodes,      \* the nodes that are Git work trees; the others are folders
    Evictors,      \* garbage collections (gc, or the cache budget)
    Slots,         \* builds that one command runs at the same time
    Retries,       \* how often a task opens its node again: 1 in the code
    FaultKinds,    \* a subset of {"crash", "damage", "disk", "interrupt", "again"}
    MaxFaults      \* bound: faults in one behaviour

ASSUME ConstantsAssumption ==
    /\ Commands \cap Evictors = {}
    /\ GitNodes \subseteq Nodes
    /\ Slots \in Nat \ {0}
    /\ Retries \in {0, 1}
    /\ FaultKinds \subseteq {"crash", "damage", "disk", "interrupt", "again"}
    /\ MaxFaults \in Nat

Tasks  == Commands \X Nodes
Sweeps == Evictors \X Nodes
Procs  == Tasks \cup Sweeps

Cmd(p)  == p[1]
Node(p) == p[2]

(***************************************************************************)
(* The shard files of a node's index directory:                            *)
(*   "none"     no shard file                                              *)
(*   "whole"    exactly the files of one finished build                    *)
(*   "part"     a mix that no build published: a swap runs or stopped      *)
(*   "damaged"  the files of one build, one of which does not load         *)
(***************************************************************************)
Families == {"none", "whole", "part", "damaged"}

VARIABLES
    inode,     \* inode[n]: how many times the corpus directory was made
    present,   \* present[n]: the path holds that directory
    lockFile,  \* lockFile[n]: .lock exists in it
    family,    \* family[n]: its shard files
    manifest,  \* manifest[n]: the family manifest names exactly those files
    marker,    \* marker[n]: .swapping exists
    aside,     \* aside[n]: what a running swap moved aside
    idle,      \* idle: the sweeps that listed a .used no search renewed since
    pc, fd, bfd, bdir, \* per process: step; incarnation of the open .lock, of the
                       \* open .build.lock, and of the build directory that its
                       \* publish reads, 0 for a publish that reads none
    locks,     \* the flocks held
    tries,     \* openNode's attempt, 0 or 1
    stale,     \* the preparation answered corpusStale
    sawManifest, \* the tasks whose damaged read saw the manifest still there
    faults     \* faults so far

dirVars  == <<inode, present, lockFile, family, manifest, marker, aside, idle, sawManifest>>
fdVars   == <<fd, bfd, bdir>>
taskVars == <<tries, stale>>
vars == <<inode, present, lockFile, family, manifest, marker, aside, idle,
          sawManifest, fd, bfd, bdir, tries, stale, pc, locks, faults>>

TaskSteps == {"start", "slot", "openBuild", "tryBuild", "buildWait", "repair",
              "recheck", "build", "stage", "openPublish", "publishWait", "publish",
              "swap", "leave", "failed", "openRead", "readWait", "list", "search",
              "mendOpen", "mendWait", "mend", "done", "skipped", "dead"}
SweepSteps == {"start", "sweepOpen", "sweepLock", "probe", "probed", "check",
               "evict", "over"}
Ended == {"done", "skipped", "dead", "over"}

\* The steps between acquireBuildSlot and its release.
InSlot == {"openBuild", "tryBuild", "buildWait", "repair", "recheck", "build",
           "stage", "openPublish", "publishWait", "publish", "swap", "leave"}

\* The steps that a build spends on reading and indexing.
Lasting == {"build", "stage"}

Lock(kind, p, i) == [kind |-> kind, who |-> p, inode |-> i]

LockSet == [kind: {"build", "publish", "read"}, who: Procs, inode: Nat]

DirTypeOK ==
    /\ inode \in [Nodes -> Nat]
    /\ present \in [Nodes -> BOOLEAN]
    /\ lockFile \in [Nodes -> BOOLEAN]
    /\ family \in [Nodes -> Families]
    /\ manifest \in [Nodes -> BOOLEAN]
    /\ marker \in [Nodes -> BOOLEAN]
    /\ aside \in [Nodes -> [family: Families, manifest: BOOLEAN]]
    /\ idle \subseteq Sweeps
    /\ sawManifest \subseteq Tasks

ProcTypeOK ==
    /\ pc \in [Procs -> TaskSteps \cup SweepSteps]
    /\ fd \in [Procs -> Nat]
    /\ bfd \in [Procs -> Nat]
    /\ bdir \in [Procs -> Nat]
    /\ locks \subseteq LockSet
    /\ tries \in [Procs -> 0..Retries]
    /\ stale \in [Procs -> BOOLEAN]
    /\ faults \in 0..MaxFaults

TypeOK == DirTypeOK /\ ProcTypeOK

NoFamily == [family |-> "none", manifest |-> FALSE]

\* Each node starts with no corpus, or with the complete index that an earlier
\* command left.
Init ==
    /\ present \in [Nodes -> BOOLEAN]
    /\ inode = [n \in Nodes |-> IF present[n] THEN 1 ELSE 0]
    /\ lockFile = present
    /\ family = [n \in Nodes |-> IF present[n] THEN "whole" ELSE "none"]
    /\ manifest = present
    /\ marker = [n \in Nodes |-> FALSE]
    /\ aside = [n \in Nodes |-> NoFamily]
    /\ idle = {}
    /\ sawManifest = {}
    /\ pc = [p \in Procs |-> "start"]
    /\ fd = [p \in Procs |-> 0]
    /\ bfd = [p \in Procs |-> 0]
    /\ bdir = [p \in Procs |-> 0]
    /\ locks = {}
    /\ tries = [p \in Procs |-> 0]
    /\ stale = [p \in Procs |-> FALSE]
    /\ faults = 0

-----------------------------------------------------------------------------
(* Locks.                                                                  *)

Held(kind, n, i) == \E l \in locks : l.kind = kind /\ Node(l.who) = n /\ l.inode = i

BuildFree(n, i) == ~Held("build", n, i)
\* Mutant: a publish that does not wait for the readers.
PublishFreeOverReaders(n, i) == ~Held("publish", n, i)
PublishFree(n, i) == ~Held("publish", n, i) /\ ~Held("read", n, i)
\* Mutant: a read that waits for builds too.
ReadFreeAfterBuilds(n, i) == ~Held("publish", n, i) /\ ~Held("build", n, i)
ReadFree(n, i) == ~Held("publish", n, i)

Acquire(kind, p, i) == locks' = locks \cup {Lock(kind, p, i)}
Drop(kinds, p) == locks' = {l \in locks : l.who # p \/ l.kind \notin kinds}

Goto(p, step) == pc' = [pc EXCEPT ![p] = step]

(* The directory.                                                          *)

\* MkdirAll: no effect on a directory that exists.  A new one has no .lock, no
\* shard and no .used, so every sweep finds it unused.
MkDir(n) ==
    IF present[n]
    THEN UNCHANGED dirVars
    ELSE /\ inode' = [inode EXCEPT ![n] = @ + 1]
         /\ present' = [present EXCEPT ![n] = TRUE]
         /\ idle' = idle \cup (Evictors \X {n})
         /\ UNCHANGED <<lockFile, family, manifest, marker, aside, sawManifest>>

\* touchUsed: .used is now later than every list so far.
Touched(n) == IF present[n] THEN idle \ (Evictors \X {n}) ELSE idle

\* An open with O_CREATE of .lock; the caller has checked the directory.
CreateLockFile(n) == lockFile' = [lockFile EXCEPT ![n] = TRUE]

\* familyComplete: the manifest agrees with the files, by name and size.
Intact(n) == present[n] /\ manifest[n]

\* The answers that shardsExist can give.  A swap in progress, or one that
\* stopped, can have every shard moved aside.
ShardsExist(n) ==
    CASE ~present[n] \/ family[n] = "none"    -> {FALSE}
      [] present[n] /\ family[n] = "part"     -> BOOLEAN
      [] OTHER                                -> {TRUE}

-----------------------------------------------------------------------------
(* Preparation: refreshState (Git), ensureFolderCorpusFreshWithExecution.  *)

\* The index holds the captured state: nothing to build.
PrepareWarm(p) ==
    /\ pc[p] = "start"
    /\ Intact(Node(p)) /\ ~marker[Node(p)]
    /\ Goto(p, "openRead")
    /\ stale' = [stale EXCEPT ![p] = FALSE]
    /\ UNCHANGED <<dirVars, fdVars, tries, locks, faults>>

\* The tree changed, or the family is not intact: the node needs a build.
PrepareCold(p) ==
    /\ pc[p] = "start"
    /\ MkDir(Node(p))
    /\ Goto(p, "slot")
    /\ stale' = [stale EXCEPT ![p] = FALSE]
    /\ UNCHANGED <<fdVars, tries, locks, faults>>

SlotFree(c) == Cardinality({q \in Tasks : Cmd(q) = c /\ pc[q] \in InSlot}) < Slots

AcquireSlot(p) ==
    /\ pc[p] = "slot"
    /\ SlotFree(Cmd(p))
    /\ Goto(p, "openBuild")
    /\ UNCHANGED <<dirVars, fdVars, taskVars, locks, faults>>

\* The open of .build.lock fails only when the directory went away.
OpenBuildLock(p) ==
    /\ pc[p] = "openBuild"
    /\ \/ /\ present[Node(p)]
          /\ bfd' = [bfd EXCEPT ![p] = inode[Node(p)]]
          /\ Goto(p, "tryBuild")
       \/ /\ ~present[Node(p)]
          /\ Goto(p, "failed")
          /\ UNCHANGED bfd
    /\ UNCHANGED <<dirVars, fd, bdir, taskVars, locks, faults>>

TakeBuildLock(p) ==
    /\ pc[p] \in {"tryBuild", "buildWait"}
    /\ BuildFree(Node(p), bfd[p])
    /\ Acquire("build", p, bfd[p])
    /\ Goto(p, "repair")
    /\ UNCHANGED <<dirVars, fdVars, taskVars, faults>>

\* Another process holds the lock and shards exist: serve them.
ServePeerShards(p) ==
    /\ pc[p] = "tryBuild"
    /\ ~BuildFree(Node(p), bfd[p])
    /\ TRUE \in ShardsExist(Node(p))
    /\ stale' = [stale EXCEPT ![p] = TRUE]
    /\ Goto(p, "openRead")
    /\ UNCHANGED <<dirVars, fdVars, tries, locks, faults>>

WaitForFirstBuild(p) ==
    /\ pc[p] = "tryBuild"
    /\ ~BuildFree(Node(p), bfd[p])
    /\ FALSE \in ShardsExist(Node(p))
    /\ Goto(p, "buildWait")
    /\ UNCHANGED <<dirVars, fdVars, taskVars, locks, faults>>

\* Mutant: the build trusts the family and does not look for .swapping.
RepairNothing(p) ==
    LET n == Node(p) IN
    /\ pc[p] = "repair"
    /\ lockFile' = [lockFile EXCEPT ![n] = present[n]]
    /\ idle' = Touched(n)
    /\ Goto(p, "recheck")
    /\ UNCHANGED <<inode, present, family, manifest, marker, sawManifest, aside, fdVars,
                   taskVars, locks, faults>>

\* The steps of acquireBuildLock after the flock, and recoverIncompleteSwap:
\* make .lock, touch .used, and remove a family that .swapping calls torn.  For
\* a Git node only the committed family goes, so uncommitted shards can stay.
Repair(p) ==
    LET n == Node(p) IN
    /\ pc[p] = "repair"
    /\ lockFile' = [lockFile EXCEPT ![n] = present[n]]
    /\ idle' = Touched(n)
    /\ \/ /\ ~marker[n]
          /\ UNCHANGED <<family, manifest, marker, sawManifest>>
       \/ /\ marker[n]
          /\ \E rest \in (IF n \in GitNodes THEN {"none", "part"} ELSE {"none"}) :
                family' = [family EXCEPT ![n] = rest]
          /\ manifest' = [manifest EXCEPT ![n] = FALSE]
          /\ marker' = [marker EXCEPT ![n] = FALSE]
          /\ sawManifest' = {t \in sawManifest : Node(t) # n}
    /\ Goto(p, "recheck")
    /\ UNCHANGED <<inode, present, aside, fdVars, taskVars, locks, faults>>

\* A peer published the captured state since the check before the lock.
FoundCurrent(p) ==
    /\ pc[p] = "recheck"
    /\ Intact(Node(p))
    /\ Goto(p, "leave")
    /\ UNCHANGED <<dirVars, fdVars, taskVars, locks, faults>>

\* newBuildDir makes the corpus directory again when it went away.  A Git build
\* that leaves the committed family alone makes no build directory, or one for
\* vectors only, which the publish of the shards does not read.
StartBuild(p) ==
    LET n == Node(p) IN
    /\ pc[p] = "recheck"
    /\ \/ MkDir(n) /\ bdir' = [bdir EXCEPT ![p] = inode'[n]]
       \/ /\ n \in GitNodes
          /\ MkDir(n) \/ UNCHANGED dirVars
          /\ bdir' = [bdir EXCEPT ![p] = 0]
    /\ Goto(p, "build")
    /\ UNCHANGED <<fd, bfd, taskVars, locks, faults>>

\* buildUncommittedStage: a full uncommitted family in a build directory of its
\* own.  A delta, and a tree with no dirty file, need none.
StageUncommitted(p) ==
    LET n == Node(p) IN
    /\ pc[p] = "build"
    /\ n \in GitNodes
    /\ MkDir(n)
    /\ bdir' = [bdir EXCEPT ![p] = IF @ = 0 THEN inode'[n] ELSE @]
    /\ Goto(p, "stage")
    /\ UNCHANGED <<fd, bfd, taskVars, locks, faults>>

FinishBuild(p) ==
    /\ pc[p] \in Lasting
    /\ Goto(p, "openPublish")
    /\ UNCHANGED <<dirVars, fdVars, taskVars, locks, faults>>

\* The build of a Git node saw HEAD move: it discards its shards.
DiscardBuild(p) ==
    /\ pc[p] = "build"
    /\ Node(p) \in GitNodes
    /\ Goto(p, "leave")
    /\ UNCHANGED <<dirVars, fdVars, taskVars, locks, faults>>

\* Mutant: an error return that forgets the build lock.
FailBuildLocked(p) ==
    /\ pc[p] = "build"
    /\ Goto(p, "failed")
    /\ UNCHANGED <<dirVars, fdVars, taskVars, locks, faults>>

\* A build error: the deferred unlock runs, then servesStale decides.
FailBuild(p) ==
    /\ pc[p] \in Lasting
    /\ Drop({"build"}, p)
    /\ Goto(p, "failed")
    /\ UNCHANGED <<dirVars, fdVars, taskVars, faults>>

-----------------------------------------------------------------------------
(* Publish: acquirePublishLock, publishGeneration, publishShardFamilyLocked*)

\* .lock opens without O_CREATE: no file means that the corpus was evicted.
OpenPublishLock(p) ==
    LET n == Node(p) IN
    /\ pc[p] = "openPublish"
    /\ \/ /\ present[n] /\ lockFile[n]
          /\ fd' = [fd EXCEPT ![p] = inode[n]]
          /\ Goto(p, "publishWait")
       \/ /\ ~(present[n] /\ lockFile[n])
          /\ Goto(p, "leave")
          /\ UNCHANGED fd
    /\ UNCHANGED <<dirVars, bfd, bdir, taskVars, locks, faults>>

TakePublishLock(p) ==
    /\ pc[p] = "publishWait"
    /\ PublishFree(Node(p), fd[p])
    /\ Acquire("publish", p, fd[p])
    /\ Goto(p, "publish")
    /\ UNCHANGED <<dirVars, fdVars, taskVars, faults>>

\* The stat of the index directory under the lock, then the list of the build
\* directory, or the move into it, which fails when the corpus directory is a new
\* one.  A publish that reads no build directory has the stat only.
RefusePublish(p) ==
    LET n == Node(p) IN
    /\ pc[p] = "publish"
    /\ ~(present[n] /\ bdir[p] \in {0, inode[n]})
    /\ \/ ~present[n] /\ Drop({"publish"}, p) /\ Goto(p, "leave")
       \/ present[n] /\ Drop({"publish", "build"}, p) /\ Goto(p, "failed")
    /\ UNCHANGED <<dirVars, fdVars, taskVars, faults>>

\* Mutant: no look at the index directory under the lock.
StartSwapBlind(p) ==
    LET n == Node(p) IN
    /\ pc[p] = "publish"
    /\ marker' = [marker EXCEPT ![n] = TRUE]
    /\ aside' = [aside EXCEPT ![n] = [family |-> family[n], manifest |-> manifest[n]]]
    /\ family' = [family EXCEPT ![n] = "part"]
    /\ manifest' = [manifest EXCEPT ![n] = FALSE]
    /\ Goto(p, "swap")
    /\ UNCHANGED <<inode, present, lockFile, idle, sawManifest, fdVars, taskVars,
                   locks, faults>>

\* The first move of the swap.  A publish of all shards, or of the committed
\* family, writes .swapping first; one of the uncommitted family alone does not.
\* Without a build directory that is a delta in place, or the removal of the
\* family, in whatever corpus is at the path now.
StartSwap(p) ==
    LET n == Node(p) IN
    /\ pc[p] = "publish"
    /\ present[n] /\ bdir[p] \in {0, inode[n]}
    /\ \/ bdir[p] # 0 /\ marker' = [marker EXCEPT ![n] = TRUE]
       \/ n \in GitNodes /\ UNCHANGED marker
    /\ aside' = [aside EXCEPT ![n] = [family |-> family[n], manifest |-> manifest[n]]]
    /\ family' = [family EXCEPT ![n] = "part"]
    /\ manifest' = [manifest EXCEPT ![n] = FALSE]
    /\ Goto(p, "swap")
    /\ UNCHANGED <<inode, present, lockFile, idle, sawManifest, fdVars, taskVars,
                   locks, faults>>

\* What a complete swap leaves: the files of one build, of which a delta keeps those
\* that do not load.  A Git build that leaves the committed family alone trusts the
\* one that it found; in a corpus made again meanwhile, that can be another one.
SwapLeaves(p) ==
    LET n == Node(p) IN
    {"whole"} \cup (IF aside[n].family = "damaged" THEN {"damaged"} ELSE {})
              \cup (IF n \in GitNodes /\ bfd[p] # inode[n] THEN {"part"} ELSE {})

\* A swap without a build directory wrote no .swapping, and removes none.
Unmarked(p) == IF bdir[p] = 0 THEN marker ELSE [marker EXCEPT ![Node(p)] = FALSE]

\* Mutant: the publish releases both locks, and the build goes on without its own.
EndSwapUnlocked(p) ==
    LET n == Node(p) IN
    /\ pc[p] = "swap"
    /\ present[n]
    /\ family' = [family EXCEPT ![n] = "whole"]
    /\ manifest' = [manifest EXCEPT ![n] = TRUE]
    /\ marker' = Unmarked(p)
    /\ aside' = [aside EXCEPT ![n] = NoFamily]
    /\ sawManifest' = {t \in sawManifest : Node(t) # n}
    /\ Drop({"publish", "build"}, p)
    /\ Goto(p, "leave")
    /\ UNCHANGED <<inode, present, lockFile, idle, fdVars, taskVars, faults>>

\* The last rename, the manifest and the state, then the release of the lock.
EndSwap(p) ==
    LET n == Node(p) IN
    /\ pc[p] = "swap"
    /\ present[n]
    /\ \E left \in SwapLeaves(p) :
          /\ family' = [family EXCEPT ![n] = left]
          /\ manifest' = [manifest EXCEPT ![n] = left # "part"]
    /\ marker' = Unmarked(p)
    /\ aside' = [aside EXCEPT ![n] = NoFamily]
    /\ sawManifest' = {t \in sawManifest : Node(t) # n}
    /\ Drop({"publish"}, p)
    /\ Goto(p, "leave")
    /\ UNCHANGED <<inode, present, lockFile, idle, fdVars, taskVars, faults>>

\* The corpus went away under a swap that does not hold its .lock: the next write
\* fails, or the full build after a failed delta makes the directory again.
LoseCorpus(p) ==
    LET n == Node(p) IN
    /\ pc[p] = "swap"
    /\ ~present[n]
    /\ \/ /\ Drop({"publish", "build"}, p)
          /\ Goto(p, "failed")
          /\ UNCHANGED dirVars
       \/ /\ bdir[p] = 0
          /\ MkDir(n)
          /\ UNCHANGED <<pc, locks>>
    /\ UNCHANGED <<fdVars, taskVars, faults>>

Fault(kind) ==
    /\ kind \in FaultKinds
    /\ faults < MaxFaults
    /\ faults' = faults + 1

\* A move, or the write of the manifest, fails: the live files are moved back;
\* or that fails too, or a delta has no way back, and the mix stays; or the new
\* family has no manifest.
FailSwap(p) ==
    LET n == Node(p) IN
    /\ pc[p] = "swap"
    /\ present[n]
    /\ Fault("disk")
    /\ \/ /\ inode[n] \in {bfd[p], bdir[p]}
          /\ family' = [family EXCEPT ![n] = aside[n].family]
          /\ manifest' = [manifest EXCEPT ![n] = aside[n].manifest]
          /\ marker' = Unmarked(p)
       \/ UNCHANGED <<family, manifest, marker>>
       \/ /\ \E left \in SwapLeaves(p) : family' = [family EXCEPT ![n] = left]
          /\ marker' = Unmarked(p)
          /\ UNCHANGED manifest
    /\ aside' = [aside EXCEPT ![n] = NoFamily]
    /\ Drop({"publish", "build"}, p)
    /\ Goto(p, "failed")
    /\ UNCHANGED <<inode, present, lockFile, idle, sawManifest, fdVars, taskVars>>

\* The build is over: its lock file is closed, and discardBuildDir ran.
EndOfBuild(p) ==
    /\ bfd' = [bfd EXCEPT ![p] = 0]
    /\ bdir' = [bdir EXCEPT ![p] = 0]

\* The deferred unlock of the build lock, then the release of the slot.
Leave(p) ==
    /\ pc[p] = "leave"
    /\ Drop({"build"}, p)
    /\ EndOfBuild(p)
    /\ Goto(p, "openRead")
    /\ UNCHANGED <<dirVars, fd, taskVars, faults>>

\* servesStale: a failed update serves the shards that exist, or the node fails.
ServeStale(p) ==
    /\ pc[p] = "failed"
    /\ \/ /\ TRUE \in ShardsExist(Node(p))
          /\ stale' = [stale EXCEPT ![p] = TRUE]
          /\ Goto(p, "openRead")
       \/ /\ FALSE \in ShardsExist(Node(p))
          /\ Goto(p, "skipped")
          /\ UNCHANGED stale
    /\ EndOfBuild(p)
    /\ UNCHANGED <<dirVars, fd, tries, locks, faults>>

-----------------------------------------------------------------------------
(* Read: openNodeRead, nodeRead, and the repair and retry of openNode.     *)

OpenReadLock(p) ==
    LET n == Node(p) IN
    /\ pc[p] = "openRead"
    /\ \/ /\ present[n]
          /\ CreateLockFile(n)
          /\ fd' = [fd EXCEPT ![p] = inode[n]]
          /\ Goto(p, "readWait")
       \/ /\ ~present[n]
          /\ Goto(p, "skipped")
          /\ UNCHANGED <<lockFile, fd>>
    /\ UNCHANGED <<inode, present, family, manifest, marker, aside, idle, sawManifest,
                   bfd, bdir, taskVars, locks, faults>>

TakeReadLock(p) ==
    /\ pc[p] = "readWait"
    /\ ReadFree(Node(p), fd[p])
    /\ Acquire("read", p, fd[p])
    /\ Goto(p, "list")
    /\ UNCHANGED <<dirVars, fdVars, taskVars, faults>>

\* The list and the load of the shards, by path.
ListShards(p) ==
    LET n == Node(p) IN
    /\ pc[p] = "list"
    /\ present[n] /\ family[n] \in {"whole", "part"}
    /\ TRUE \in ShardsExist(n)
    /\ Goto(p, "search")
    /\ UNCHANGED <<dirVars, fdVars, taskVars, locks, faults>>

\* No shard, or one that does not load: errShardUnloadable.  The read returns
\* its lock before the repair, which compares the manifest that the read saw.  A
\* manifest that disagrees with the files can be there too.  A second failure
\* skips the node.
FindDamage(p) ==
    LET n == Node(p) IN
    /\ pc[p] = "list"
    /\ family[n] = "damaged" \/ FALSE \in ShardsExist(n)
    /\ Drop({"read"}, p)
    /\ \/ /\ tries[p] = Retries
          /\ Goto(p, "skipped")
          /\ UNCHANGED <<tries, sawManifest>>
       \/ /\ tries[p] < Retries
          /\ tries' = [tries EXCEPT ![p] = @ + 1]
          /\ \/ /\ present[n]
                /\ sawManifest' = sawManifest \cup {p}
                /\ Goto(p, "mendOpen")
             \/ /\ ~Intact(n)
                /\ UNCHANGED sawManifest
                /\ Goto(p, "start")
    /\ UNCHANGED <<inode, present, lockFile, family, manifest, marker, aside, idle,
                   fdVars, stale, faults>>

\* A model query finds another state under the lock than its capture.
SeeTreeChange(p) ==
    /\ pc[p] = "search"
    /\ tries[p] < Retries /\ ~stale[p]
    /\ tries' = [tries EXCEPT ![p] = @ + 1]
    /\ Drop({"read"}, p)
    /\ Goto(p, "start")
    /\ UNCHANGED <<dirVars, fdVars, stale, faults>>

FinishSearch(p) ==
    /\ pc[p] = "search"
    /\ idle' = Touched(Node(p))
    /\ Drop({"read"}, p)
    /\ Goto(p, "done")
    /\ UNCHANGED <<inode, present, lockFile, family, manifest, marker, aside, sawManifest,
                   fdVars, taskVars, faults>>

\* removeDamagedFamilyManifest, first its acquirePublishLock.
OpenMendLock(p) ==
    LET n == Node(p) IN
    /\ pc[p] = "mendOpen"
    /\ \/ /\ present[n] /\ lockFile[n]
          /\ fd' = [fd EXCEPT ![p] = inode[n]]
          /\ Goto(p, "mendWait")
       \/ /\ ~(present[n] /\ lockFile[n])
          /\ Goto(p, "start")
          /\ UNCHANGED fd
    /\ UNCHANGED <<dirVars, bfd, bdir, taskVars, locks, faults>>

TakeMendLock(p) ==
    /\ pc[p] = "mendWait"
    /\ PublishFree(Node(p), fd[p])
    /\ Acquire("publish", p, fd[p])
    /\ Goto(p, "mend")
    /\ UNCHANGED <<dirVars, fdVars, taskVars, faults>>

\* Mutant: the manifest goes, whichever it is.
MendAny(p) ==
    /\ pc[p] = "mend"
    /\ manifest' = [manifest EXCEPT ![Node(p)] = FALSE]
    /\ sawManifest' = {t \in sawManifest : Node(t) # Node(p)}
    /\ Drop({"publish"}, p)
    /\ Goto(p, "start")
    /\ UNCHANGED <<inode, present, lockFile, family, marker, aside, idle, fdVars,
                   taskVars, faults>>

\* The manifest goes only when it is still the file that the read saw.
Mend(p) ==
    LET n == Node(p) IN
    /\ pc[p] = "mend"
    /\ \/ /\ p \in sawManifest
          /\ manifest' = [manifest EXCEPT ![n] = FALSE]
          /\ sawManifest' = {t \in sawManifest : Node(t) # n}
       \/ /\ p \notin sawManifest
          /\ UNCHANGED <<manifest, sawManifest>>
    /\ Drop({"publish"}, p)
    /\ Goto(p, "start")
    /\ UNCHANGED <<inode, present, lockFile, family, marker, aside, idle, fdVars,
                   taskVars, faults>>

\* A lock wait or the search ends without its lock or its result: an interrupt,
\* a cancel, or a flock error.  The error of a wait in a build is a failed
\* update; that of a repair keeps the manifest; any other skips the node.
GiveUp(p) ==
    /\ Fault("interrupt")
    /\ \/ pc[p] = "buildWait" /\ Goto(p, "failed") /\ UNCHANGED locks
       \/ pc[p] = "publishWait" /\ Goto(p, "failed") /\ Drop({"build"}, p)
       \/ pc[p] = "mendWait" /\ Goto(p, "start") /\ UNCHANGED locks
       \/ pc[p] \in {"slot", "readWait"} /\ Goto(p, "skipped") /\ UNCHANGED locks
       \/ pc[p] = "search" /\ Goto(p, "skipped") /\ Drop({"read"}, p)
    /\ UNCHANGED <<dirVars, fdVars, taskVars>>

-----------------------------------------------------------------------------
(* Garbage collection: runGC's list, then evictCorpus.                     *)

\* A collection that is over may be followed by another one.  Bound: only by one that
\* finds a build that publishes under the .lock of an earlier directory, the case in
\* which a second eviction differs from the first.
Overtaken(n) ==
    \E p \in Tasks : Node(p) = n /\ pc[p] = "swap" /\ fd[p] < inode[n]

SweepList(s) ==
    /\ \/ pc[s] = "start" /\ UNCHANGED faults
       \/ pc[s] = "over" /\ Overtaken(Node(s)) /\ Fault("again")
    /\ \/ present[Node(s)] /\ idle' = idle \cup {s} /\ Goto(s, "sweepOpen")
       \/ ~present[Node(s)] /\ UNCHANGED idle /\ Goto(s, "over")
    /\ UNCHANGED <<inode, present, lockFile, family, manifest, marker, aside, sawManifest,
                   fdVars, taskVars, locks>>

SweepOpen(s) ==
    LET n == Node(s) IN
    /\ pc[s] = "sweepOpen"
    /\ \/ /\ present[n]
          /\ CreateLockFile(n)
          /\ fd' = [fd EXCEPT ![s] = inode[n]]
          /\ Goto(s, "sweepLock")
       \/ /\ ~present[n]
          /\ Goto(s, "over")
          /\ UNCHANGED <<lockFile, fd>>
    /\ UNCHANGED <<inode, present, family, manifest, marker, aside, idle, sawManifest,
                   bfd, bdir, taskVars, locks, faults>>

\* A non-blocking flock: a corpus in use is skipped.
SweepLock(s) ==
    /\ pc[s] = "sweepLock"
    /\ \/ PublishFree(Node(s), fd[s]) /\ Acquire("publish", s, fd[s]) /\ Goto(s, "probe")
       \/ ~PublishFree(Node(s), fd[s]) /\ UNCHANGED locks /\ Goto(s, "over")
    /\ UNCHANGED <<dirVars, fdVars, taskVars, faults>>

\* tryBuildLock by path.
Probe(s) ==
    LET n == Node(s) IN
    /\ pc[s] = "probe"
    /\ \/ /\ present[n] /\ BuildFree(n, inode[n])
          /\ bfd' = [bfd EXCEPT ![s] = inode[n]]
          /\ Acquire("build", s, inode[n])
          /\ Goto(s, "probed")
       \/ /\ ~present[n] \/ ~BuildFree(n, inode[n])
          /\ Drop({"publish"}, s)
          /\ Goto(s, "over")
          /\ UNCHANGED bfd
    /\ UNCHANGED <<dirVars, fd, bdir, taskVars, faults>>

\* The probe returns the build lock at once.
EndProbe(s) ==
    /\ pc[s] = "probed"
    /\ Drop({"build"}, s)
    /\ Goto(s, "check")
    /\ UNCHANGED <<dirVars, fdVars, taskVars, faults>>

CheckUsed(s) ==
    /\ pc[s] = "check"
    /\ \/ /\ s \in idle \/ ~present[Node(s)]
          /\ Goto(s, "evict")
          /\ UNCHANGED locks
       \/ /\ s \notin idle /\ present[Node(s)]
          /\ Drop({"publish"}, s)
          /\ Goto(s, "over")
    /\ UNCHANGED <<dirVars, fdVars, taskVars, faults>>

\* The rename to the trash, by path; then the release of .lock.
Evict(s) ==
    LET n == Node(s) IN
    /\ pc[s] = "evict"
    /\ present' = [present EXCEPT ![n] = FALSE]
    /\ lockFile' = [lockFile EXCEPT ![n] = FALSE]
    /\ family' = [family EXCEPT ![n] = "none"]
    /\ manifest' = [manifest EXCEPT ![n] = FALSE]
    /\ marker' = [marker EXCEPT ![n] = FALSE]
    /\ sawManifest' = {t \in sawManifest : Node(t) # n}
    /\ Drop({"publish"}, s)
    /\ Goto(s, "over")
    /\ UNCHANGED <<inode, aside, idle, fdVars, taskVars, faults>>

-----------------------------------------------------------------------------
(* Faults.                                                                 *)

\* The process of a command dies: the system drops its locks, and its files
\* stay as they are.
Crash(c) ==
    /\ Fault("crash")
    /\ \E p \in Tasks : Cmd(p) = c /\ pc[p] \notin Ended
    /\ pc' = [p \in Procs |-> IF Cmd(p) = c /\ pc[p] \notin Ended THEN "dead" ELSE pc[p]]
    /\ locks' = {l \in locks : Cmd(l.who) # c}
    /\ UNCHANGED <<dirVars, fdVars, taskVars>>

\* A shard of a published family stops loading; its name and size stay.
Damage(n) ==
    /\ Fault("damage")
    /\ present[n] /\ family[n] = "whole"
    /\ family' = [family EXCEPT ![n] = "damaged"]
    /\ UNCHANGED <<inode, present, lockFile, manifest, marker, aside, idle, sawManifest,
                   fdVars, taskVars, pc, locks>>

-----------------------------------------------------------------------------

TaskStep(p) ==
    \/ PrepareWarm(p) \/ PrepareCold(p) \/ AcquireSlot(p)
    \/ OpenBuildLock(p) \/ TakeBuildLock(p) \/ ServePeerShards(p) \/ WaitForFirstBuild(p)
    \/ Repair(p) \/ FoundCurrent(p) \/ StartBuild(p) \/ StageUncommitted(p)
    \/ FinishBuild(p) \/ DiscardBuild(p) \/ FailBuild(p)
    \/ OpenPublishLock(p) \/ TakePublishLock(p) \/ RefusePublish(p)
    \/ StartSwap(p) \/ EndSwap(p) \/ LoseCorpus(p) \/ Leave(p) \/ ServeStale(p)
    \/ OpenReadLock(p) \/ TakeReadLock(p) \/ ListShards(p) \/ FindDamage(p)
    \/ SeeTreeChange(p) \/ FinishSearch(p)
    \/ OpenMendLock(p) \/ TakeMendLock(p) \/ Mend(p)

SweepStep(s) ==
    \/ SweepList(s) \/ SweepOpen(s) \/ SweepLock(s) \/ Probe(s) \/ EndProbe(s)
    \/ CheckUsed(s) \/ Evict(s)

\* Every process ended: the one state in which nothing more happens.
Terminated ==
    /\ \A p \in Procs : pc[p] \in Ended
    /\ UNCHANGED vars

Next ==
    \/ \E p \in Tasks : TaskStep(p) \/ FailSwap(p) \/ GiveUp(p)
    \/ \E s \in Sweeps : SweepStep(s)
    \/ \E c \in Commands : Crash(c)
    \/ \E n \in Nodes : Damage(n)
    \/ Terminated

\* The scheduler runs every process that can step.  A flock keeps no queue, but
\* every other holder ends, so weak fairness is enough for a wait.  Nothing makes
\* a user interrupt a wait or start another collection, and nothing bounds how long
\* a build takes.
Runs(p) == pc[p] \notin Lasting /\ TaskStep(p)

Fairness ==
    /\ \A p \in Tasks : WF_vars(Runs(p))
    /\ \A s \in Sweeps : WF_vars(SweepStep(s) /\ faults' = faults)

Spec == Init /\ [][Next]_vars /\ Fairness

-----------------------------------------------------------------------------
(* Properties.                                                             *)

\* The steps under .build.lock, and those that list or search the shards.
Building == {"repair", "recheck", "build", "stage", "openPublish", "publishWait",
             "publish", "swap", "leave"}
Reading  == {"list", "search"}

\* While nothing evicts a corpus, no read lists or searches shards while a swap
\* of the same node moves them (swap.go: normal readers do not interleave with a
\* successful swap).
SwapExcludesReaders ==
    Evictors = {} =>
        \A p, q \in Tasks :
            Node(p) = Node(q) => ~(pc[p] = "swap" /\ pc[q] \in Reading)

\* While nothing evicts a corpus, at most one process builds it, so no two
\* builds repair, seed or publish over each other (indexer.go, buildLockFile).
OneBuilder ==
    Evictors = {} =>
        \A p, q \in Tasks :
            Node(p) = Node(q) /\ pc[p] \in Building /\ pc[q] \in Building => p = q

\* Evictions or not, two processes that hold .lock or .build.lock of the same
\* incarnation of a corpus hold it as flock allows: exclusive alone, shared
\* only with shared.  A swap and a mend write under the first, a build under
\* the second, a read under the shared one.
IncarnationsExclude ==
    \A p, q \in Tasks : p # q /\ Node(p) = Node(q) =>
        /\ pc[p] \in {"publish", "swap", "mend"} /\ fd[p] = fd[q]
              => pc[q] \notin {"publish", "swap", "mend"} \cup Reading
        /\ pc[p] \in Building /\ bfd[p] = bfd[q] => pc[q] \notin Building

\* What makes the exclusions inductive: each step of a task that relies on a lock
\* has it, on the incarnation that its descriptor belongs to, and the set of
\* locks is one that flock grants.
LocksCover ==
    \A p \in Tasks :
        /\ pc[p] \in Building => Lock("build", p, bfd[p]) \in locks
        /\ pc[p] \in {"publish", "swap", "mend"} => Lock("publish", p, fd[p]) \in locks
        /\ pc[p] \in Reading => Lock("read", p, fd[p]) \in locks

LocksExclude ==
    \A l, m \in locks : Node(l.who) = Node(m.who) /\ l.inode = m.inode =>
        /\ l.kind = "build" /\ m.kind = "build" => l.who = m.who
        /\ l.kind = "publish" /\ m.kind \in {"publish", "read"} => l.who = m.who

LockInvariant == LocksCover /\ LocksExclude

\* gc.lock lets one garbage collection run at a time.  The cache budget of a search
\* evicts without it: two evictors are outside the two properties below.
SoleEvictor == \A e, f \in Evictors : e = f

\* A swap of the files of a build directory moves only files of the incarnation that
\* it built for and locked, and that corpus stays in place: such a build is never
\* published into a corpus that was evicted and made again, and never loses its
\* directory in the swap.  It does not hold for a Git build without one (bdir 0):
\* that looks only whether the index directory exists, so its delta, its removal of
\* the uncommitted family, .family-v1 and .state go into whatever corpus a peer
\* made at the path meanwhile, under the .lock of the old one.
SwapsOwnCorpus ==
    SoleEvictor =>
        \A p \in Tasks : pc[p] = "swap" /\ bdir[p] # 0 =>
            /\ present[Node(p)]
            /\ fd[p] = inode[Node(p)]
            /\ bdir[p] = inode[Node(p)]

\* While nothing evicts a corpus, and with no disk fault and no crash, every read
\* that finds shards finds exactly the files of one finished build, never a mix of
\* two (node_read.go, nodeRead.shards).
NoTornSwap == Evictors = {} /\ FaultKinds \cap {"crash", "disk"} = {}

ReadsWholeGenerations ==
    [][NoTornSwap =>
          \A p \in Tasks :
             pc[p] = "list" /\ pc'[p] = "search" => family[Node(p)] = "whole"]_vars

\* While nothing evicts a corpus, a build starts from a family that no interrupted
\* swap left torn: the repair under the build lock ran first (lockBuild), also
\* after a crash or a failed move back of any earlier builder.
BuildsStartRepaired ==
    \A p \in Tasks : Evictors = {} /\ pc[p] \in {"recheck", "build", "stage",
                                                 "openPublish", "publishWait", "publish"}
                     => ~marker[Node(p)]

\* While nothing evicts a corpus, a repair of damage removes a manifest only while
\* the damaged family is still the published one: a family that a peer published
\* meanwhile keeps its own (removeDamagedFamilyManifest).
SparesNewFamily(p) ==
    LET n == Node(p) IN
    pc[p] = "mend" /\ pc'[p] = "start" /\ manifest[n] /\ ~manifest'[n] => family[n] = "damaged"

MendSparesNewFamily == [][Evictors = {} => \A p \in Tasks : SparesNewFamily(p)]_vars

\* A collection never takes a corpus away while a read lists or searches it or a
\* build swaps its shards (evictCorpus: another Seek holds the lock).
SparesUse ==
    \A n \in Nodes : present[n] /\ ~present'[n] =>
        \A p \in Tasks : Node(p) = n /\ fd[p] = inode[n]
            => pc[p] \notin Reading \cup {"publish", "swap", "mend"}

EvictionSparesUse == [][SoleEvictor => SparesUse]_vars

\* Some process can step until every process has ended: no cycle of waits over
\* build slots, build locks, publish locks and read locks, within one command
\* or across commands (lock.go: "This lock order keeps every wait finite").
NobodyIsStranded ==
    (\E p \in Procs : pc[p] \notin Ended) =>
        \/ \E p \in Tasks : ENABLED TaskStep(p)
        \/ \E s \in Sweeps : ENABLED SweepStep(s)

\* If builds end, every task and every sweep ends, whatever the others do: no wait
\* lasts for ever, also with evictions between two steps, a crash or an interrupt.
EveryTaskEnds ==
    (\A p \in Tasks : []<>(pc[p] \notin Lasting)) => \A p \in Procs : <>(pc[p] \in Ended)

\* The last read of a node ends even when no build of any command ever does: a
\* read waits for publishes only, each of bounded time (lock.go: "Readers do not
\* take this lock").
ReadsOutrunBuilds ==
    \A p \in Tasks : (pc[p] = "openRead" /\ tries[p] = Retries) ~> (pc[p] \in Ended)

=============================================================================
