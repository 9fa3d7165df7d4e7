---------------------------- MODULE FolderCorpus ----------------------------
(***************************************************************************)
(* How searches keep the index of one folder in step with its files        *)
(* (folder_indexer.go, build_plan.go): the walk, the warm answer without a *)
(* lock, the check under .build.lock, the full build or the delta, and the *)
(* records that a publish leaves for the next search.                      *)
(*                                                                         *)
(* A tree gives each file its version, 0 for no file.  A version stands    *)
(* for the content and for the stat values that the state hash covers.     *)
(* The hash has the ctime of a file but of no directory above it, so a     *)
(* directory that moves away and back brings old versions back: that is    *)
(* Move.  .state is the tree of the walk that a publish was built for.     *)
(*                                                                         *)
(* Shard files and their swap are in ShardSwap, lock waits and evictions   *)
(* in CorpusLocks.  The vectors of a node are not modelled.                *)
(***************************************************************************)
EXTENDS Naturals, FiniteSets

CONSTANTS
    Files,
    Commands,   \* searches; each starts again when it has ended
    MaxVersion, \* bound: edits of a file
    MaxMoves,   \* bound: changes of the folder, edits and moves
    FaultKinds, \* a subset of {"crash", "disk", "read", "damage"}
    MaxFaults   \* bound: faults in one behaviour

NoOne == "no one"

ASSUME ConstantsAssumption ==
    /\ Files # {} /\ NoOne \notin Commands
    /\ MaxVersion \in Nat \ {0} /\ MaxMoves \in Nat /\ MaxFaults \in Nat
    /\ FaultKinds \subseteq {"crash", "disk", "read", "damage"}

Trees   == [Files -> 0..MaxVersion]
NoFiles == [f \in Files |-> 0]
NoState == [f \in {} |-> 0]   \* a record that does not exist

VARIABLES
    version,  \* the files, also those that are away
    away,     \* files in a directory that was moved away
    moves,
    state,    \* .state: a tree, or NoState
    family,   \* the documents of the shard family: the version of each file
    shards,   \* the family has a shard file
    intact,   \* the family matches .family-v1
    marker,   \* .swapping exists
    recorded, \* the folder manifest: the tree of its stat values, or NoState
    builder,  \* the holder of .build.lock, or NoOne
    pc,
    walk, ready, loaded, \* the tree of the walk; it has one; with its file list
    cached,   \* .state as read before the lock
    scan,     \* the family as scanned before the lock
    delta, keep, \* the plan of the build: as a delta; a failure keeps .state
    built, todo, \* the documents of the build, and the files still to read
    faults,
    late,     \* history: a publish stopped between .family-v1 and .state
    missed,   \* history: files that a build found gone after its walk
    passed    \* history: commands that a peer's publish passed since they began

treeVars  == <<version, away, moves>>
diskVars  == <<state, family, shards, intact, marker, recorded>>
walkVars  == <<walk, ready, loaded>>
buildVars == <<delta, keep, built, todo>>
histVars  == <<late, missed, passed>>
vars == <<version, away, moves, state, family, shards, intact, marker, recorded, builder,
          pc, walk, ready, loaded, cached, scan, delta, keep, built, todo, faults,
          late, missed, passed>>

Locked == {"recheck", "plan", "build", "publish", "swap", "manifest", "state", "record"}

TypeOK ==
    /\ version \in Trees /\ away \subseteq Files /\ moves \in 0..MaxMoves
    /\ state \in Trees \cup {NoState} /\ recorded \in Trees \cup {NoState}
    /\ family \in Trees
    /\ shards \in BOOLEAN /\ intact \in BOOLEAN /\ marker \in BOOLEAN
    /\ builder \in Commands \cup {NoOne}
    /\ pc \in [Commands -> {"start", "readState", "scan", "decide", "lock"} \cup Locked]
    /\ walk \in [Commands -> Trees] /\ built \in [Commands -> Trees]
    /\ cached \in [Commands -> Trees \cup {NoState}]
    /\ scan \in [Commands -> {"complete", "torn", "pending"}]
    /\ ready \in [Commands -> BOOLEAN] /\ loaded \in [Commands -> BOOLEAN]
    /\ delta \in [Commands -> BOOLEAN] /\ keep \in [Commands -> BOOLEAN]
    /\ todo \in [Commands -> SUBSET Files]
    /\ faults \in 0..MaxFaults /\ late \in BOOLEAN
    /\ missed \subseteq Files /\ passed \subseteq Commands

Init ==
    /\ version \in [Files -> 0..1] /\ away = {} /\ moves = 0
    /\ state = NoState /\ recorded = NoState /\ family = NoFiles
    /\ shards = FALSE /\ intact = FALSE /\ marker = FALSE
    /\ builder = NoOne
    /\ pc = [c \in Commands |-> "start"]
    /\ walk = [c \in Commands |-> NoFiles] /\ built = [c \in Commands |-> NoFiles]
    /\ cached = [c \in Commands |-> NoState]
    /\ scan = [c \in Commands |-> "torn"]
    /\ ready = [c \in Commands |-> FALSE] /\ loaded = [c \in Commands |-> FALSE]
    /\ delta = [c \in Commands |-> FALSE] /\ keep = [c \in Commands |-> FALSE]
    /\ todo = [c \in Commands |-> {}]
    /\ faults = 0 /\ late = FALSE /\ missed = {} /\ passed = {}

Tree == [f \in Files |-> IF f \in away THEN 0 ELSE version[f]]

\* The files that a walk found.
Selected(t) == {f \in Files : t[f] # 0}

\* familyComplete: at least one shard, and exactly the published set.
Usable == shards /\ intact

Fault(kind) ==
    /\ kind \in FaultKinds
    /\ faults < MaxFaults
    /\ faults' = faults + 1

Goto(c, step) == pc' = [pc EXCEPT ![c] = step]

\* The node has its answer, or failed: the locks and the build directory go.
Done(c) ==
    /\ Goto(c, "start")
    /\ builder' = IF builder = c THEN NoOne ELSE builder
    /\ walk' = [walk EXCEPT ![c] = NoFiles]
    /\ ready' = [ready EXCEPT ![c] = FALSE]
    /\ loaded' = [loaded EXCEPT ![c] = FALSE]
    /\ cached' = [cached EXCEPT ![c] = NoState]
    /\ scan' = [scan EXCEPT ![c] = "torn"]
    /\ delta' = [delta EXCEPT ![c] = FALSE]
    /\ keep' = [keep EXCEPT ![c] = FALSE]
    /\ built' = [built EXCEPT ![c] = NoFiles]
    /\ todo' = [todo EXCEPT ![c] = {}]

-----------------------------------------------------------------------------
(* The folder.                                                             *)

Edit(f) ==
    /\ f \notin away /\ version[f] < MaxVersion /\ moves < MaxMoves
    /\ moves' = moves + 1
    /\ version' = [version EXCEPT ![f] = @ + 1]
    /\ UNCHANGED <<away, diskVars, builder, pc, walkVars, cached, scan, buildVars,
                   faults, histVars>>

Move(f) ==
    /\ version[f] # 0 /\ moves < MaxMoves
    /\ moves' = moves + 1
    /\ away' = IF f \in away THEN away \ {f} ELSE away \cup {f}
    /\ UNCHANGED <<version, diskVars, builder, pc, walkVars, cached, scan, buildVars,
                   faults, histVars>>

-----------------------------------------------------------------------------
(* Before the lock.                                                        *)

TakeWalk(c, withList) ==
    /\ walk' = [walk EXCEPT ![c] = Tree]
    /\ ready' = [ready EXCEPT ![c] = TRUE]
    /\ loaded' = [loaded EXCEPT ![c] = withList]

\* The graph expansion walked the folder.  The second attempt of a node, after
\* damage or a tree change, has no capture.
Begin(c) ==
    /\ pc[c] = "start"
    /\ TakeWalk(c, TRUE) \/ UNCHANGED walkVars
    /\ passed' = passed \ {c}
    /\ Goto(c, "readState")
    /\ UNCHANGED <<treeVars, diskVars, builder, cached, scan, buildVars, faults, late, missed>>

ReadState(c) ==
    /\ pc[c] = "readState"
    /\ cached' = [cached EXCEPT ![c] = state]
    /\ Goto(c, "scan")
    /\ UNCHANGED <<treeVars, diskVars, builder, walkVars, scan, buildVars, faults, histVars>>

\* The scan of the family, then the look for .swapping.
Scan(c) ==
    /\ pc[c] = "scan"
    /\ scan' = [scan EXCEPT ![c] =
                  IF marker THEN "pending" ELSE IF Usable THEN "complete" ELSE "torn"]
    /\ Goto(c, "decide")
    /\ UNCHANGED <<treeVars, diskVars, builder, walkVars, cached, buildVars, faults, histVars>>

\* A walk for the state alone, which keeps no file list.
NeedsFingerprint(c) == ~ready[c] /\ cached[c] # NoState /\ scan[c] # "pending"

Fingerprint(c) ==
    /\ pc[c] = "decide"
    /\ NeedsFingerprint(c)
    /\ TakeWalk(c, FALSE)
    /\ UNCHANGED <<treeVars, diskVars, builder, pc, cached, scan, buildVars, faults,
                   histVars>>

IsWarm(c) ==
    /\ ready[c] /\ scan[c] # "pending" /\ cached[c] = walk[c]
    /\ walk[c] = NoFiles \/ scan[c] = "complete"

\* The index is current, or the folder is known to be empty.
Warm(c) ==
    /\ pc[c] = "decide"
    /\ IsWarm(c)
    /\ Done(c)
    /\ UNCHANGED <<treeVars, diskVars, faults, histVars>>

Cold(c) ==
    /\ pc[c] = "decide"
    /\ ~NeedsFingerprint(c) /\ ~IsWarm(c)
    /\ Goto(c, "lock")
    /\ UNCHANGED <<treeVars, diskVars, builder, walkVars, cached, scan, buildVars, faults,
                   histVars>>

-----------------------------------------------------------------------------
(* Under the build lock.                                                   *)

\* lockBuild: the lock, then the repair of a swap that stopped.
TakeLock(c) ==
    /\ pc[c] = "lock"
    /\ builder = NoOne
    /\ builder' = c
    /\ \/ /\ ~marker
          /\ UNCHANGED diskVars
       \/ /\ marker
          /\ family' = NoFiles /\ shards' = FALSE /\ intact' = FALSE
          /\ state' = NoState
          /\ marker' = FALSE
          /\ UNCHANGED recorded
    /\ Goto(c, "recheck")
    /\ UNCHANGED <<treeVars, walkVars, cached, scan, buildVars, faults, histVars>>

\* A peer builds and shards exist.
ServePeer(c) ==
    /\ pc[c] = "lock"
    /\ builder # NoOne /\ shards
    /\ Done(c)
    /\ UNCHANGED <<treeVars, diskVars, faults, histVars>>

\* Mutant: a family that a peer completed counts as current.
IsComplete(c) == ready[c] /\ Usable

\* .state holds the walk, and the family is empty, or was complete before the
\* lock, or is complete now.
IsCurrent(c) ==
    /\ ready[c] /\ state = walk[c]
    /\ walk[c] = NoFiles \/ scan[c] = "complete" \/ Usable

FoundCurrent(c) ==
    /\ pc[c] \in {"recheck", "plan"}
    /\ IsCurrent(c)
    /\ Done(c)
    /\ UNCHANGED <<treeVars, diskVars, faults, histVars>>

\* No state, a file count with no list, or a state that a peer published since.
NeedsWalk(c) ==
    \/ ~ready[c]
    \/ ~loaded[c] /\ walk[c] # NoFiles
    \/ state # walk[c] /\ state # cached[c]

KeepWalk(c) ==
    /\ pc[c] = "recheck"
    /\ ~IsCurrent(c) /\ ~NeedsWalk(c)
    /\ Goto(c, "plan")
    /\ UNCHANGED <<treeVars, diskVars, builder, walkVars, cached, scan, buildVars, faults,
                   histVars>>

\* A walk that fails drops .state.
WalkAgain(c) ==
    /\ pc[c] = "recheck"
    /\ ~IsCurrent(c) /\ NeedsWalk(c)
    /\ \/ /\ TakeWalk(c, TRUE)
          /\ Goto(c, "plan")
          /\ UNCHANGED <<state, builder, cached, scan, buildVars, faults>>
       \/ /\ Fault("read")
          /\ state' = NoState
          /\ Done(c)
    /\ UNCHANGED <<treeVars, family, shards, intact, marker, recorded, histVars>>

\* readFolderManifest: the manifest must be the one of .state.
ManifestFits == recorded = state

\* The documents that a delta does not read again: with a manifest, those of the
\* files whose stat values it holds; it drops the files of the manifest that the
\* walk did not find.  Without a manifest the delta reads every file, as a full
\* build does, and drops each document that no file of the walk has.
Kept(t) ==
    [f \in Files |->
        IF t = NoFiles THEN family[f]
        ELSE IF ManifestFits /\ t[f] = recorded[f] THEN family[f] ELSE 0]

\* Mutant: a delta that compares the names alone.
UnreadNames(t) ==
    IF ManifestFits THEN {f \in Selected(t) : recorded[f] = 0} ELSE Selected(t)

Unread(t) ==
    IF ManifestFits THEN {f \in Selected(t) : t[f] # recorded[f]} ELSE Selected(t)

\* decideFolderBuild.  An empty walk runs no builder: a delta then publishes the
\* shards that it linked, and a full build publishes none.  What was read before the
\* lock is not used again.
StartBuild(c) ==
    /\ pc[c] = "plan"
    /\ ~IsCurrent(c)
    /\ keep' = [keep EXCEPT ![c] = Usable]
    /\ \/ /\ state # NoState /\ Usable
          /\ delta' = [delta EXCEPT ![c] = TRUE]
          /\ built' = [built EXCEPT ![c] = Kept(walk[c])]
          /\ todo' = [todo EXCEPT ![c] = Unread(walk[c])]
       \/ /\ delta' = [delta EXCEPT ![c] = FALSE]
          /\ built' = [built EXCEPT ![c] = NoFiles]
          /\ todo' = [todo EXCEPT ![c] = Selected(walk[c])]
    /\ cached' = [cached EXCEPT ![c] = NoState] /\ scan' = [scan EXCEPT ![c] = "torn"]
    /\ Goto(c, "build")
    /\ UNCHANGED <<treeVars, diskVars, builder, walkVars, faults, histVars>>

\* A file gone since the walk gives no document.
ReadFile(c, f) ==
    /\ pc[c] = "build"
    /\ f \in todo[c]
    /\ built' = [built EXCEPT ![c][f] = Tree[f]]
    /\ todo' = [todo EXCEPT ![c] = @ \ {f}]
    /\ missed' = IF Tree[f] = 0 THEN missed \cup {f} ELSE missed
    /\ UNCHANGED <<treeVars, diskVars, builder, pc, walkVars, cached, scan, delta, keep,
                   faults, late, passed>>

\* A delta that fails, or that its limits refuse, becomes a full build.
FallBack(c) ==
    /\ pc[c] = "build"
    /\ delta[c] /\ walk[c] # NoFiles
    /\ delta' = [delta EXCEPT ![c] = FALSE]
    /\ built' = [built EXCEPT ![c] = NoFiles]
    /\ todo' = [todo EXCEPT ![c] = Selected(walk[c])]
    /\ UNCHANGED <<treeVars, diskVars, builder, pc, walkVars, cached, scan, keep, faults,
                   histVars>>

\* A read error that can pass fails the build (dropStateUnlessPublished).
FailBuild(c) ==
    /\ pc[c] = "build"
    /\ Fault("read")
    /\ state' = IF keep[c] THEN state ELSE NoState
    /\ Done(c)
    /\ UNCHANGED <<treeVars, family, shards, intact, marker, recorded, histVars>>

\* Mutant: .state comes before the swap.
EndBuildWithState(c) ==
    /\ pc[c] = "build"
    /\ todo[c] = {}
    /\ state' = walk[c]
    /\ Goto(c, "publish")
    /\ UNCHANGED <<treeVars, family, shards, intact, marker, recorded, builder, walkVars,
                   cached, scan, buildVars, faults, histVars>>

EndBuild(c) ==
    /\ pc[c] = "build"
    /\ todo[c] = {}
    /\ Goto(c, "publish")
    /\ UNCHANGED <<treeVars, diskVars, builder, walkVars, cached, scan, buildVars, faults,
                   histVars>>

-----------------------------------------------------------------------------
(* publishGeneration, then the folder manifest.                            *)

\* A swap that fails and moves everything back has changed nothing.
BeginSwap(c) ==
    /\ pc[c] = "publish"
    /\ \/ /\ marker' = TRUE /\ intact' = FALSE
          /\ Goto(c, "swap")
          /\ UNCHANGED <<builder, walkVars, cached, scan, buildVars, faults>>
       \/ /\ Fault("disk")
          /\ Done(c)
          /\ UNCHANGED <<marker, intact>>
    /\ UNCHANGED <<treeVars, state, family, shards, recorded, histVars>>

\* A swap that fails and cannot move back leaves .swapping.
EndSwap(c) ==
    /\ pc[c] = "swap"
    /\ \/ /\ family' = built[c]
          /\ shards' = (delta[c] \/ built[c] # NoFiles)
          /\ marker' = FALSE
          /\ passed' = Commands \ {c}
          /\ Goto(c, "manifest")
          /\ UNCHANGED <<builder, walkVars, cached, scan, buildVars, faults>>
       \/ /\ Fault("disk")
          /\ Done(c)
          /\ UNCHANGED <<family, shards, marker, passed>>
    /\ UNCHANGED <<treeVars, state, intact, recorded, late, missed>>

WriteManifest(c) ==
    /\ pc[c] = "manifest"
    /\ \/ /\ intact' = TRUE
          /\ Goto(c, "state")
          /\ UNCHANGED <<builder, walkVars, cached, scan, buildVars, faults>>
       \/ /\ Fault("disk")
          /\ Done(c)
          /\ UNCHANGED intact
    /\ UNCHANGED <<treeVars, state, family, shards, marker, recorded, histVars>>

\* A .state that cannot be written stays as it was.
WriteState(c) ==
    /\ pc[c] = "state"
    /\ \/ /\ state' = walk[c]
          /\ passed' = Commands \ {c}
          /\ Goto(c, "record")
          /\ UNCHANGED <<builder, walkVars, cached, scan, buildVars, faults, late>>
       \/ /\ Fault("disk")
          /\ late' = TRUE
          /\ Done(c)
          /\ UNCHANGED <<state, passed>>
    /\ UNCHANGED <<treeVars, family, shards, intact, marker, recorded, missed>>

\* The manifest of an empty walk is not written; a write that fails is not an error.
Record(c) ==
    /\ pc[c] = "record"
    /\ \/ /\ walk[c] # NoFiles
          /\ recorded' = walk[c]
          /\ UNCHANGED faults
       \/ /\ walk[c] = NoFiles
          /\ UNCHANGED <<recorded, faults>>
       \/ /\ Fault("disk")
          /\ UNCHANGED recorded
    /\ Done(c)
    /\ UNCHANGED <<treeVars, state, family, shards, intact, marker, histVars>>

\* The process dies.
Crash(c) ==
    /\ pc[c] # "start"
    /\ Fault("crash")
    /\ late' = (late \/ pc[c] = "state")
    /\ Done(c)
    /\ UNCHANGED <<treeVars, diskVars, missed, passed>>

\* A reader found a shard that does not load, and removed .family-v1 under the
\* publish lock (removeDamagedFamilyManifest).
Mend ==
    /\ Usable
    /\ \A c \in Commands : pc[c] \notin {"swap", "manifest", "state"}
    /\ Fault("damage")
    /\ intact' = FALSE
    /\ UNCHANGED <<treeVars, state, family, shards, marker, recorded, builder, pc, walkVars,
                   cached, scan, buildVars, histVars>>

-----------------------------------------------------------------------------

Step(c) ==
    \/ Begin(c) \/ ReadState(c) \/ Scan(c) \/ Fingerprint(c) \/ Warm(c) \/ Cold(c)
    \/ TakeLock(c) \/ ServePeer(c) \/ FoundCurrent(c) \/ KeepWalk(c) \/ WalkAgain(c)
    \/ StartBuild(c) \/ (\E f \in Files : ReadFile(c, f)) \/ FallBack(c) \/ EndBuild(c)
    \/ BeginSwap(c) \/ EndSwap(c) \/ WriteManifest(c) \/ WriteState(c) \/ Record(c)

Next ==
    \/ \E f \in Files : Edit(f) \/ Move(f)
    \/ \E c \in Commands : Step(c) \/ FailBuild(c) \/ Crash(c)
    \/ Mend

\* Searches come again and again, and each one that runs goes on.
Spec == Init /\ [][Next]_vars /\ \A c \in Commands : WF_vars(Step(c))

-----------------------------------------------------------------------------
(* Properties.                                                             *)

\* No version of the family is older than the one that tree t has, and no
\* document of it is of a file that t does not have.
NoOlderThan(t) == \A f \in Selected(family) : t[f] # 0 /\ family[f] >= t[f]

Settled ==
    /\ ~marker /\ Usable
    /\ \A c \in Commands : pc[c] # "state"

\* A published .state is what the next search and the next delta take the family
\* for.  Through deltas, fall backs, repairs, stopped publishes and lost folder
\* manifests, the family has no document of a removed file or of an older version,
\* and it lacks only files that a build found gone.  Two cases are left out: the
\* state of an empty folder, and a publish that stopped just before .state.
StateDescribesFamily ==
    Settled /\ ~late /\ state \notin {NoState, NoFiles} =>
        /\ NoOlderThan(state)
        /\ Selected(state) \ Selected(family) \subseteq missed

\* A warm answer takes no lock and reads .state, the family and the tree at three
\* moments.  No document that it finds is older than its walk, also with publishes
\* and repairs in between, and none is of a removed file, unless a peer published
\* since the search began or a publish stopped just before .state.
WarmIsNoOlder ==
    [][\A c \in Commands : Warm(c) /\ walk[c] # NoFiles =>
          /\ \A f \in Selected(walk[c]) \cap Selected(family) : family[f] >= walk[c][f]
          /\ ~late /\ c \notin passed /\ (\A q \in Commands : pc[q] # "state")
                => NoOlderThan(walk[c])]_vars

\* When the folder stops changing and faults stop, the searches that come bring
\* the index to the state of the folder, and keep it there: no two searches undo
\* each other's publishes for ever, and no lock stays held.
Converges == <>[](state = Tree)

=============================================================================
