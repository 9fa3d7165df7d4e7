------------------------------ MODULE ShardSwap ------------------------------
(***************************************************************************)
(* How one build publishes a shard family file by file (swap.go), and how  *)
(* the next build repairs what a crash or a disk error left.               *)
(*                                                                         *)
(* The swap runs under .build.lock and the exclusive .lock, so one builder *)
(* and no reader is active in it (module CorpusLocks).  What others see is *)
(* the directory between two swaps: "idle", "ready" and "built" below.     *)
(*                                                                         *)
(* Names are the base names that files of the family can have.  A file is  *)
(* the build that wrote it, which stands for its inode and its bytes, and  *)
(* its size, which is all that the manifest records of it.                 *)
(***************************************************************************)
EXTENDS Naturals

CONSTANTS
    Names,      \* shard and sidecar names of the family
    Sizes,      \* sizes of files
    MaxGen,     \* bound: builds in one behaviour
    FaultKinds, \* a subset of {"crash", "disk"}
    MaxFaults   \* bound: faults in one behaviour

ASSUME ConstantsAssumption ==
    /\ Sizes \subseteq Nat \ {0}
    /\ MaxGen \in Nat
    /\ FaultKinds \subseteq {"crash", "disk"}
    /\ MaxFaults \in Nat

NoFile == [gen |-> 0, size |-> 0]
NewFiles(g) == [gen: {g}, size: Sizes]
File == [gen: Nat \ {0}, size: Sizes] \cup {NoFile}
Family == [Names -> File]
NoFiles == [n \in Names |-> NoFile]

VARIABLES
    pc,       \* the step of the builder
    index,    \* the files in the index directory
    incoming, \* the files that the build made, or linked from the index
    aside,    \* the files in live-*, under their names
    kept,     \* names whose incoming file is the live file (keptLiveFiles)
    moved,    \* names moved aside
    renamed,  \* names renamed in
    restored, \* the roll back has put every file back so far
    manifest, \* the sizes that .family-v1 records, or NoManifest
    marker,   \* .swapping exists
    state,    \* the build whose state .state holds, 0 for none
    gen,      \* builds so far
    whole,    \* history: the family of the last complete swap
    wholeGen, \* history: its build
    left,     \* history: the last repair left files and a manifest that agrees
    faults

vars == <<pc, index, incoming, aside, kept, moved, renamed, restored, manifest,
          marker, state, gen, whole, wholeGen, left, faults>>
swapVars == <<aside, kept, moved, renamed, restored>>
histVars == <<whole, wholeGen, left>>

Quiet   == {"idle", "repair", "drop", "unmarkOld", "ready", "built"}
Forward == {"aside", "in", "unmark"}
Undo    == {"undoNew", "undoMoved", "undone"}
Steps   == Quiet \cup Forward \cup Undo \cup {"manifest", "state"}

NoManifest == [n \in {} |-> 0]
SizesOf(f) == [n \in Names |-> f[n].size]

TypeOK ==
    /\ pc \in Steps
    /\ index \in Family /\ incoming \in Family /\ aside \in Family /\ whole \in Family
    /\ kept \subseteq Names /\ moved \subseteq Names /\ renamed \subseteq Names
    /\ restored \in BOOLEAN /\ marker \in BOOLEAN /\ left \in BOOLEAN
    /\ manifest \in [Names -> Sizes \cup {0}] \cup {NoManifest}
    /\ state \in 0..gen /\ wholeGen \in 0..gen /\ gen \in 0..MaxGen
    /\ faults \in 0..MaxFaults

Init ==
    /\ pc = "idle"
    /\ index = NoFiles /\ incoming = NoFiles /\ aside = NoFiles /\ whole = NoFiles
    /\ kept = {} /\ moved = {} /\ renamed = {}
    /\ restored = TRUE /\ marker = FALSE
    /\ manifest = NoManifest
    /\ state = 0 /\ wholeGen = 0 /\ gen = 0 /\ left = FALSE
    /\ faults = 0

Fault(kind) ==
    /\ kind \in FaultKinds
    /\ faults < MaxFaults
    /\ faults' = faults + 1

\* matchesManifest: set equality by name and size.
MatchesManifest == manifest # NoManifest /\ manifest = SizesOf(index)

\* What a warm search and a delta ask of the family.
Trusted == ~marker /\ MatchesManifest

\* The builder is gone, with its build directory.
Away ==
    /\ pc' = "idle"
    /\ incoming' = NoFiles
    /\ aside' = NoFiles
    /\ kept' = {} /\ moved' = {} /\ renamed' = {}
    /\ restored' = TRUE

-----------------------------------------------------------------------------
(* lockBuild: the build lock, then recoverIncompleteSwap.                  *)

LockBuild ==
    /\ pc = "idle"
    /\ pc' = IF marker THEN "repair" ELSE "ready"
    /\ UNCHANGED <<index, incoming, swapVars, manifest, marker, state, gen, histVars, faults>>

RepairFile(n) ==
    /\ pc = "repair"
    /\ index[n] # NoFile
    /\ index' = [index EXCEPT ![n] = NoFile]
    /\ UNCHANGED <<pc, incoming, swapVars, manifest, marker, state, gen, histVars, faults>>

\* Every file of the family is gone.  A list or a remove that fails leaves files,
\* and the repair goes on.
EndRepair ==
    /\ pc = "repair"
    /\ \/ index = NoFiles /\ UNCHANGED faults
       \/ index # NoFiles /\ Fault("disk")
    /\ pc' = "drop"
    /\ UNCHANGED <<index, incoming, swapVars, manifest, marker, state, gen, histVars>>

\* removeFamilyManifest and deleteStateFiles.  Neither looks at the error of a
\* remove, so on a bad disk each record may stay, and the repair goes on.
DropRecords ==
    /\ pc = "drop"
    /\ \/ manifest' = NoManifest /\ state' = 0 /\ UNCHANGED faults
       \/ /\ Fault("disk")
          /\ manifest' \in {NoManifest, manifest}
          /\ state' \in {0, state}
    /\ left' = (manifest' # NoManifest /\ manifest' = SizesOf(index))
    /\ pc' = "unmarkOld"
    /\ UNCHANGED <<index, incoming, swapVars, marker, gen, whole, wholeGen>>

\* Mutant: the marker of the swap that stopped stays.
KeepMarker ==
    /\ pc = "unmarkOld"
    /\ pc' = "ready"
    /\ UNCHANGED <<index, incoming, swapVars, manifest, marker, state, gen, histVars, faults>>

\* The marker goes last, so a crash in the repair starts it again.
DropMarker ==
    /\ pc = "unmarkOld"
    /\ \/ marker' = FALSE /\ UNCHANGED faults
       \/ Fault("disk") /\ UNCHANGED marker
    /\ pc' = "ready"
    /\ UNCHANGED <<index, incoming, swapVars, manifest, state, gen, histVars>>

\* A full build writes new files only.  A delta needs the family that its
\* manifest records: it links live files, and keeps, replaces or drops each.
Build ==
    /\ pc = "ready"
    /\ gen < MaxGen
    /\ gen' = gen + 1
    /\ \E new \in [Names -> NewFiles(gen + 1) \cup {NoFile}], seeds \in SUBSET Names :
          /\ seeds # {} => Trusted
          /\ incoming' = [n \in Names |-> IF n \in seeds THEN index[n] ELSE new[n]]
    /\ pc' = "built"
    /\ UNCHANGED <<index, swapVars, manifest, marker, state, histVars, faults>>

\* Nothing to build, a build error, or a build that is discarded.
Abandon ==
    /\ pc \in {"ready", "built"}
    /\ Away
    /\ UNCHANGED <<index, manifest, marker, state, gen, histVars, faults>>

-----------------------------------------------------------------------------
(* publishShardFamilyLocked and swapFiles.                                 *)

\* keptLiveFiles: one inode with two links.
KeptLiveFiles == {n \in Names : incoming[n] # NoFile /\ incoming[n] = index[n]}

\* Mutant: the swap begins with no marker.
BeginUnmarked ==
    /\ pc = "built"
    /\ UNCHANGED <<marker, faults>>
    /\ kept' = KeptLiveFiles
    /\ pc' = "aside"
    /\ UNCHANGED <<index, incoming, aside, moved, renamed, restored, manifest, state,
                   gen, histVars>>

\* The list of both sides and the marker come before the first move.
BeginSwap ==
    /\ pc = "built"
    /\ \/ /\ marker' = TRUE /\ UNCHANGED faults
          /\ kept' = KeptLiveFiles
          /\ pc' = "aside"
          /\ UNCHANGED <<incoming, aside, moved, renamed, restored>>
       \/ /\ Fault("disk") /\ Away /\ UNCHANGED marker
    /\ UNCHANGED <<index, manifest, state, gen, histVars>>

\* Every live file that is not kept moves aside; a move that fails rolls back.
MoveAside(n) ==
    /\ pc = "aside"
    /\ n \notin kept /\ index[n] # NoFile
    /\ \/ /\ index' = [index EXCEPT ![n] = NoFile]
          /\ aside' = [aside EXCEPT ![n] = index[n]]
          /\ moved' = moved \cup {n}
          /\ UNCHANGED <<pc, faults>>
       \/ /\ Fault("disk")
          /\ pc' = "undoNew"
          /\ UNCHANGED <<index, aside, moved>>
    /\ UNCHANGED <<incoming, kept, renamed, restored, manifest, marker, state, gen, histVars>>

EndAside ==
    /\ pc = "aside"
    /\ \A n \in Names : n \in kept \/ index[n] = NoFile
    /\ pc' = "in"
    /\ UNCHANGED <<index, incoming, swapVars, manifest, marker, state, gen, histVars, faults>>

RenameIn(n) ==
    /\ pc = "in"
    /\ n \notin kept \cup renamed /\ incoming[n] # NoFile
    /\ \/ /\ index' = [index EXCEPT ![n] = incoming[n]]
          /\ renamed' = renamed \cup {n}
          /\ UNCHANGED <<pc, faults>>
       \/ /\ Fault("disk")
          /\ pc' = "undoNew"
          /\ UNCHANGED <<index, renamed>>
    /\ UNCHANGED <<incoming, aside, kept, moved, restored, manifest, marker, state, gen, histVars>>

EndSwap ==
    /\ pc = "in"
    /\ \A n \in Names : incoming[n] # NoFile => n \in kept \cup renamed
    /\ pc' = "unmark"
    /\ UNCHANGED <<index, incoming, swapVars, manifest, marker, state, gen, histVars, faults>>

\* A marker that cannot be removed stays, and the next build repairs.  A family
\* with no file from before the build has nothing left from a failed repair.
Unmark ==
    /\ pc = "unmark"
    /\ \/ marker' = FALSE /\ UNCHANGED faults
       \/ Fault("disk") /\ UNCHANGED marker
    /\ whole' = index
    /\ wholeGen' = gen
    /\ left' = (left /\ kept # {})
    /\ pc' = "manifest"
    /\ UNCHANGED <<index, incoming, swapVars, manifest, state, gen>>

-----------------------------------------------------------------------------
(* rollBack: the new files go, then the live files come back.              *)

RemoveNew(n) ==
    /\ pc = "undoNew"
    /\ n \in renamed
    /\ renamed' = renamed \ {n}
    /\ \/ index' = [index EXCEPT ![n] = NoFile] /\ UNCHANGED <<restored, faults>>
       \/ Fault("disk") /\ restored' = FALSE /\ UNCHANGED index
    /\ UNCHANGED <<pc, incoming, aside, kept, moved, manifest, marker, state, gen, histVars>>

\* Mutant: the roll back skips the new files.
SkipRemoveNew ==
    /\ pc = "undoNew"
    /\ pc' = "undoMoved"
    /\ renamed' = {}
    /\ UNCHANGED <<index, incoming, aside, kept, moved, restored, manifest, marker, state,
                   gen, histVars, faults>>

EndRemoveNew ==
    /\ pc = "undoNew"
    /\ renamed = {}
    /\ pc' = "undoMoved"
    /\ UNCHANGED <<index, incoming, swapVars, manifest, marker, state, gen, histVars, faults>>

MoveBack(n) ==
    /\ pc = "undoMoved"
    /\ n \in moved
    /\ moved' = moved \ {n}
    /\ \/ index' = [index EXCEPT ![n] = aside[n]] /\ UNCHANGED <<restored, faults>>
       \/ Fault("disk") /\ restored' = FALSE /\ UNCHANGED index
    /\ UNCHANGED <<pc, incoming, aside, kept, renamed, manifest, marker, state, gen, histVars>>

EndMoveBack ==
    /\ pc = "undoMoved"
    /\ moved = {}
    /\ pc' = "undone"
    /\ UNCHANGED <<index, incoming, swapVars, manifest, marker, state, gen, histVars, faults>>

\* Only a roll back that put every file back removes the marker.
FailPublish ==
    /\ pc = "undone"
    /\ \/ restored /\ marker' = FALSE /\ UNCHANGED faults
       \/ restored /\ Fault("disk") /\ UNCHANGED marker
       \/ ~restored /\ UNCHANGED <<marker, faults>>
    /\ Away
    /\ UNCHANGED <<index, manifest, state, gen, histVars>>

-----------------------------------------------------------------------------
(* publishGeneration, after the swap.                                      *)

\* The manifest lists the incoming files and reads their sizes in the index.
WriteManifest ==
    /\ pc = "manifest"
    /\ \/ /\ manifest' = SizesOf(index)
          /\ pc' = "state"
          /\ UNCHANGED <<incoming, swapVars, faults>>
       \/ Fault("disk") /\ Away /\ UNCHANGED manifest
    /\ UNCHANGED <<index, marker, state, gen, histVars>>

WriteState ==
    /\ pc = "state"
    /\ \/ state' = gen /\ UNCHANGED faults
       \/ Fault("disk") /\ UNCHANGED state
    /\ Away
    /\ UNCHANGED <<index, manifest, marker, gen, histVars>>

\* The process dies; every rename before is on disk, and no later one.
Crash ==
    /\ pc # "idle"
    /\ Fault("crash")
    /\ Away
    /\ UNCHANGED <<index, manifest, marker, state, gen, histVars>>

-----------------------------------------------------------------------------

Step ==
    \/ LockBuild \/ EndRepair \/ DropRecords \/ DropMarker
    \/ Build \/ Abandon
    \/ BeginSwap \/ EndAside \/ EndSwap \/ Unmark
    \/ EndRemoveNew \/ EndMoveBack \/ FailPublish
    \/ WriteManifest \/ WriteState
    \/ \E n \in Names : \/ RepairFile(n) \/ MoveAside(n) \/ RenameIn(n)
                        \/ RemoveNew(n) \/ MoveBack(n)

Next == Step \/ Crash

\* A builder that runs goes on.  A search of a node with .swapping always asks for
\* a build (swapPending), so while searches come, some build locks the node.
Spec == Init /\ [][Next]_vars /\ WF_vars(Step)

-----------------------------------------------------------------------------
(* Properties.                                                             *)

\* Whenever no swap runs, a family without .swapping that agrees with its manifest
\* is exactly the family of the last complete swap: crashes and disk errors at any
\* step, also in the roll back and in the repair, never leave a mix that looks
\* whole, even when files of two builds have equal names and sizes.  The exception
\* is a repair that could remove neither the files nor the manifest, when the two
\* agree by name and size: it still removes .swapping.
TrustedIsWhole == pc \in Quiet /\ Trusted /\ ~left => index = whole

\* .state never names a build newer than the trusted files: a stopped publish can
\* leave new files under an old state, never old files under a new state, whatever
\* a repair leaves.
StateNeverAhead == pc \in Quiet /\ Trusted => state <= wholeGen

\* The family as it was before a running swap: the files moved aside and those
\* not moved yet, without the new ones.
Before == [n \in Names |->
    IF n \in moved THEN aside[n] ELSE IF n \in renamed THEN NoFile ELSE index[n]]

Swapping == pc \in Forward \cup Undo

Seen == IF Swapping THEN Before ELSE index
SeenTrusted ==
    /\ manifest # NoManifest /\ manifest = SizesOf(Seen)
    /\ IF Swapping THEN restored ELSE ~marker
    /\ ~left

\* The swap of many files implements one atomic change of the family, and every
\* way in which it fails either changes nothing or takes the trust away, but for
\* the family that a failed repair left.
Atomic == INSTANCE AtomicFamily
              WITH files <- Seen, trusted <- SeenTrusted, staged <- incoming
AtomicSpec == Atomic!Spec

\* A torn family does not stay: after finitely many faults, a build removes it.
MarkerClears == marker ~> ~marker

=============================================================================
