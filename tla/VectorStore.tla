---------------------------- MODULE VectorStore ----------------------------
(***************************************************************************)
(* The vectors of one Git node and how searches bind them to its text      *)
(* (joined_generation.go, semantic_store.go, indexer.go buildLocked,       *)
(* search_pipeline.go readNodeEvidence, semantic_reuse.go).                *)
(*                                                                         *)
(* A base generation holds the windows of a commit; its source is the      *)
(* commit.  An overlay holds those of the dirty files; its source is the   *)
(* state hash.  The joined descriptor says which generations belong to     *)
(* which state and which text family.  Several generations can lie beside  *)
(* each other.                                                             *)
(*                                                                         *)
(* The text family is one value here: the state that it was built for.     *)
(* How it changes file by file is in GitCorpus and ShardSwap.  A blob      *)
(* stands for its file and for the windows of the file.                    *)
(***************************************************************************)
EXTENDS Naturals, FiniteSets

CONSTANTS
    Blobs,
    Content,     \* the blobs of each commit
    Commands,    \* searches; each starts again when it has ended
    Textual,     \* those of them that may search without vectors
    MaxMoves,    \* bound: changes of the repository
    FaultKinds,  \* a subset of {"crash", "disk", "model", "kept", "damage"}
    MaxFaults    \* bound: faults in one behaviour

NoOne   == "no one"
NoHead  == 0     \* gitNoHead: no base, and the overlay holds every file
Commits == DOMAIN Content
Heads   == {NoHead} \cup Commits
Clean   == 0
Works   == 0..MaxMoves  \* the dirty files, by the move that made them

ASSUME ConstantsAssumption ==
    /\ NoOne \notin Commands /\ Textual \subseteq Commands /\ Textual # Commands
    /\ IsFiniteSet(Blobs) /\ "unknown" \notin Blobs
    /\ 1 \in Commits /\ Commits \subseteq Nat \ {0} /\ Content \in [Commits -> SUBSET Blobs]
    /\ MaxMoves \in Nat /\ MaxFaults \in Nat

States  == [head : Heads, work : Works]
NoState == [head |-> NoHead, work |-> MaxMoves + 1]

\* The windows in a generation, and what is wrong with its files: "open", an open
\* tells it; "graph", only a scan of a graph shard does.
Bases     == [rows : SUBSET Blobs, health : {"whole", "open", "graph"}]
NoBase    == [rows |-> {}, health |-> "none"]
Overlays  == {"none", "whole", "open"}

Stores   == (SUBSET Blobs) \cup {{"unknown"}}
Unknown  == {"unknown"}
Records  == [head : Commits, store : Stores, blobs : SUBSET Blobs]
NoRecord == [head |-> NoHead, store |-> Unknown, blobs |-> {}]

\* .joined-v1: the state, the digest of .family-v1 and the keys of the generations.
Descriptors  == [state : States, family : States, base : Heads, overlay : BOOLEAN]
NoDescriptor == [state |-> NoState, family |-> NoState, base |-> NoHead, overlay |-> FALSE]

Jobs == [semantic : BOOLEAN, overlay : BOOLEAN, baseBound : BOOLEAN, overlayBound : BOOLEAN,
         drop : BOOLEAN, replace : BOOLEAN, store : Stores,
         base : Bases \cup {NoBase}, overlayBuilt : BOOLEAN, partial : BOOLEAN]
NoJob == [semantic |-> FALSE, overlay |-> FALSE, baseBound |-> FALSE, overlayBound |-> FALSE,
          drop |-> FALSE, replace |-> FALSE, store |-> Unknown,
          base |-> NoBase, overlayBuilt |-> FALSE, partial |-> FALSE]

\* What a read has open: the text's state, and the generations if it has vectors.
Reads  == [state : States, vectors : BOOLEAN, base : Bases \cup {NoBase}]
NoRead == [state |-> [head |-> NoHead, work |-> Clean], vectors |-> FALSE, base |-> NoBase]

\* A linked worktree that copies vectors: it read the rows of a generation, then
\* mapped the vectors.
NoPeer == [source |-> NoHead, rows |-> {}, vectors |-> {}]

VARIABLES
    head, work, here, moves,             \* the repository
    state, family,                       \* .state, the text family
    descriptor, bases, overlays, record, \* .joined-v1, generations, missing blobs
    builder, job,                        \* the holder of .build.lock
    pc, want, semantic, retried,         \* each search: its capture and its policy
    read,
    peer,
    faults,
    displaced  \* history: bases of a commit that the record has left for another

repoVars   == <<head, work, here, moves>>
vectorVars == <<descriptor, bases, overlays, record>>
diskVars   == <<state, family, vectorVars>>
searchVars == <<want, semantic, retried>>
vars == <<repoVars, diskVars, builder, job, pc, searchVars, read, peer, faults, displaced>>

Building   == {"base", "overlay", "publish"}
Activating == {"pending", "generation", "rename", "exact", "dirty", "bind"}
Publishing == {"swap", "state", "collect"} \cup Activating

TypeOK ==
    /\ head \in Heads /\ work \in Works /\ here \subseteq Blobs /\ moves \in 0..MaxMoves
    /\ {state, family} \subseteq States \cup {NoState}
    /\ descriptor \in Descriptors \cup {NoDescriptor}
    /\ bases \in [Commits -> Bases \cup {NoBase}] /\ overlays \in [States -> Overlays]
    /\ record \in Records \cup {NoRecord}
    /\ builder \in Commands \cup {NoOne} /\ job \in Jobs
    /\ pc \in [Commands -> {"start", "lock", "open", "repair", "remove"}
                           \cup Building \cup Publishing \cup {"reading"}]
    /\ \A c \in Commands :
          pc[c] \in Building \cup Publishing \cup {"remove"} <=> builder = c
    /\ want \in [Commands -> States] /\ {semantic, retried} \subseteq [Commands -> BOOLEAN]
    /\ read \in [Commands -> Reads]
    /\ peer \in [source : Heads, rows : SUBSET Blobs, vectors : SUBSET Blobs]
    /\ faults \in 0..MaxFaults /\ displaced \subseteq Commits

\* A partial clone lacks what the commits share.
Init ==
    /\ head = 1 /\ work = Clean /\ moves = 0
    /\ here \in {Blobs, Blobs \ {b \in Blobs : \A h \in Commits : b \in Content[h]}}
    /\ state = NoState /\ family = NoState
    /\ descriptor = NoDescriptor /\ bases = [h \in Commits |-> NoBase]
    /\ overlays = [s \in States |-> "none"] /\ record = NoRecord
    /\ builder = NoOne /\ job = NoJob
    /\ pc = [c \in Commands |-> "start"]
    /\ want = [c \in Commands |-> NoRead.state]
    /\ semantic = [c \in Commands |-> FALSE] /\ retried = [c \in Commands |-> FALSE]
    /\ read = [c \in Commands |-> NoRead]
    /\ peer = NoPeer /\ faults = 0 /\ displaced = {}

Fault(kind) ==
    /\ kind \in FaultKinds /\ faults < MaxFaults
    /\ faults' = faults + 1

Goto(c, step) == pc' = [pc EXCEPT ![c] = step]

\* A step under the build lock that goes on.
Go(c, step) ==
    /\ Goto(c, step)
    /\ UNCHANGED <<repoVars, builder, searchVars, read, peer>>

\* The search ends, or starts again with its one retry.
Ended(c, again) ==
    /\ Goto(c, "start")
    /\ want' = [want EXCEPT ![c] = NoRead.state]
    /\ semantic' = [semantic EXCEPT ![c] = again /\ @]
    /\ retried' = [retried EXCEPT ![c] = again]
    /\ read' = [read EXCEPT ![c] = NoRead]

Unlock == builder' = NoOne /\ job' = NoJob

-----------------------------------------------------------------------------
(* The repository.                                                         *)

Moves ==
    /\ moves < MaxMoves /\ moves' = moves + 1
    /\ UNCHANGED <<diskVars, builder, job, pc, searchVars, read, peer, faults, displaced>>

\* An edit of a file, or the undoing of all edits.
Edit ==
    /\ Moves
    /\ work' \in {moves + 1, Clean} \ {work}
    /\ UNCHANGED <<head, here>>

MoveHead(h) ==
    /\ Moves
    /\ h # head
    /\ head' = h
    /\ UNCHANGED <<work, here>>

\* A fetch brings a blob of a partial clone.
Arrive(b) ==
    /\ Moves
    /\ b \notin here
    /\ here' = here \cup {b}
    /\ UNCHANGED <<head, work>>

-----------------------------------------------------------------------------
(* What the code reads off the index directory.                            *)

\* buildsVectors and buildsOverlay.
NeedsBase(v, s)    == v /\ s.head # NoHead
NeedsOverlay(v, s) == v /\ s.work # Clean
\* Mutant: the family of the descriptor is not compared.
MatchOfState(v, s) ==
    /\ descriptor.state = s
    /\ descriptor.base = (IF NeedsBase(v, s) THEN s.head ELSE NoHead)
    /\ descriptor.overlay = NeedsOverlay(v, s)
    /\ NeedsBase(v, s) => bases[s.head] # NoBase
    /\ NeedsOverlay(v, s) => overlays[s] # "none"

\* joinedGenerationsMatch; it looks only at the manifests of the generations.
JoinedMatch(v, s) ==
    /\ descriptor.state = s /\ descriptor.family = family
    /\ descriptor.base = (IF NeedsBase(v, s) THEN s.head ELSE NoHead)
    /\ descriptor.overlay = NeedsOverlay(v, s)
    /\ NeedsBase(v, s) => bases[s.head] # NoBase
    /\ NeedsOverlay(v, s) => overlays[s] # "none"

JoinedReady(v, s) == (~NeedsBase(v, s) /\ ~NeedsOverlay(v, s)) \/ JoinedMatch(v, s)

\* semanticGenerationPresent opens a generation, without its graph shards.
BasePresent(h)    == bases[h].health \in {"whole", "graph"}
OverlayPresent(s) == overlays[s] = "whole"

\* The text serves a commit if its shards are of that commit.
TextCurrent(s) == state = s /\ family # NoState /\ family.head = s.head

\* nodeMissingBlobRecords: the record counts only for its own commit.
Counts(h)     == record # NoRecord /\ record.head = h
MissingDue(h) == Counts(h) /\ record.store # here
Arrived(h)    == MissingDue(h) /\ record.blobs \cap here # {}

IsCurrent(v, s) == TextCurrent(s) /\ JoinedReady(v, s)

-----------------------------------------------------------------------------
(* Before the lock.                                                        *)

\* git status, and the warm test of refreshState.  A search uses vectors or not.
Prepare(c, vectors) ==
    LET now == [head |-> head, work |-> work]
    IN /\ pc[c] = "start" /\ (vectors \/ c \in Textual) /\ (retried[c] => vectors = semantic[c])
       /\ want' = [want EXCEPT ![c] = now] /\ semantic' = [semantic EXCEPT ![c] = vectors]
       /\ Goto(c, IF IsCurrent(vectors, now) /\ ~(vectors /\ MissingDue(head)) THEN "open" ELSE "lock")
       /\ UNCHANGED <<repoVars, diskVars, builder, job, retried, read, peer, faults, displaced>>

\* A peer builds, and shards exist: a stale index, read without vectors.
ServePeer(c) ==
    /\ pc[c] = "lock"
    /\ builder # NoOne /\ family # NoState
    /\ Ended(c, FALSE)
    /\ UNCHANGED <<repoVars, diskVars, builder, job, peer, faults, displaced>>

-----------------------------------------------------------------------------
(* Under the build lock.  Nobody else changes what the recheck reads, so it  *)
(* is one step with the lock.                                              *)

\* recheckMissingBlobs gives a record of the commit a new fingerprint if none of
\* its blobs arrived.
RefreshRecord(c, h) ==
    record' = IF semantic[c] /\ Counts(h) /\ ~Arrived(h) THEN [record EXCEPT !.store = here] ELSE record

FoundCurrent(c) ==
    LET s == want[c]
    IN /\ pc[c] = "lock" /\ builder = NoOne
       /\ IsCurrent(semantic[c], s) /\ ~(semantic[c] /\ Arrived(s.head))
       /\ RefreshRecord(c, s.head)
       /\ Goto(c, "open")
       /\ UNCHANGED <<repoVars, state, family, descriptor, bases, overlays, builder, job, searchVars,
                      read, peer, faults, displaced>>

\* The old descriptor must not name a family while that family changes.
Drop(c, s, arrival) == semantic[c] /\ (family = NoState \/ family.head # s.head \/ s.work # Clean \/ arrival)

\* decideGitBuild, the part that is about vectors.
Decide(c) ==
    LET s       == want[c]
        arrival == semantic[c] /\ Arrived(s.head)
        base    == NeedsBase(semantic[c], s) => BasePresent(s.head) /\ ~arrival
        overlay == NeedsOverlay(semantic[c], s) => OverlayPresent(s)
    IN /\ pc[c] = "lock" /\ builder = NoOne /\ builder' = c
       /\ ~(IsCurrent(semantic[c], s) /\ ~arrival)
       /\ RefreshRecord(c, s.head)
       /\ job' = [NoJob EXCEPT !.semantic = ~base, !.overlay = ~overlay,
                               !.baseBound = base, !.overlayBound = overlay,
                               !.drop = Drop(c, s, arrival),
                               !.replace = arrival, !.store = here]
       /\ Goto(c, IF ~base THEN "base" ELSE IF ~overlay THEN "overlay" ELSE "publish")
       /\ UNCHANGED <<repoVars, state, family, descriptor, bases, overlays, searchVars, read, peer,
                      faults, displaced>>

\* buildSemanticGitGeneration, into the build directory: a blob that is missing
\* has no window.  A failure keeps the lexical search.
BuildBase(c) ==
    /\ pc[c] = "base"
    /\ \/ /\ job' = [job EXCEPT !.base = [rows |-> Content[want[c].head] \cap here, health |-> "whole"]]
          /\ Go(c, IF job.overlay THEN "overlay" ELSE "publish")
          /\ UNCHANGED faults
       \/ Fault("model") /\ Go(c, "publish") /\ UNCHANGED job
    /\ UNCHANGED <<diskVars, displaced>>

BuildOverlay(c) ==
    /\ pc[c] = "overlay"
    /\ \/ job' = [job EXCEPT !.overlayBuilt = TRUE] /\ UNCHANGED faults
       \/ Fault("model") /\ UNCHANGED job
    /\ Go(c, "publish")
    /\ UNCHANGED <<diskVars, displaced>>

\* validateCommittedBuildHead.
DiscardBuild(c) ==
    /\ pc[c] = "publish" /\ head # want[c].head
    /\ Goto(c, "open") /\ Unlock
    /\ UNCHANGED <<repoVars, diskVars, searchVars, read, peer, faults, displaced>>

-----------------------------------------------------------------------------
(* Under the publish lock, which waits for every read to end.              *)

NoReads == \A c \in Commands : pc[c] # "reading"

StartPublish(c) ==
    /\ pc[c] = "publish" /\ head = want[c].head
    /\ NoReads
    /\ descriptor' = IF job.drop THEN NoDescriptor ELSE descriptor
    /\ Go(c, "swap")
    /\ UNCHANGED <<state, family, bases, overlays, record, job, faults, displaced>>

PublishText(c) ==
    /\ pc[c] = "swap"
    /\ family' = want[c]
    /\ Go(c, "state")
    /\ UNCHANGED <<state, vectorVars, job, faults, displaced>>

\* Then the build returns, or activates vectors.  A build that kept files by name
\* has no state.
WriteState(c) ==
    /\ pc[c] = "state"
    /\ \/ state' = want[c] /\ UNCHANGED <<job, faults>>
       \/ /\ want[c].work # Clean /\ Fault("kept")
          /\ state' = NoState
          /\ job' = [job EXCEPT !.partial = TRUE]
    /\ Go(c, IF ~NeedsBase(semantic[c], want[c]) /\ ~NeedsOverlay(semantic[c], want[c]) THEN "collect"
             ELSE IF job.base # NoBase THEN "pending"
             ELSE IF job.overlayBuilt THEN "dirty" ELSE "bind")
    /\ UNCHANGED <<family, vectorVars, displaced>>

MissingOf(h, rows) == Content[h] \ rows
\* The other commits whose base has a window too few, and no record from now on.
Left(h) == {g \in Commits \ {h} : bases[g] # NoBase}

\* Mutant: the record follows the generation.
NoPending(c) ==
    /\ pc[c] = "pending"
    /\ Go(c, "generation")
    /\ UNCHANGED <<state, family, vectorVars, job, faults, displaced>>

\* writePendingMissingBlobRecord: what the live data and the new data lack.
WritePending(c) ==
    LET h    == want[c].head
        lost == MissingOf(h, job.base.rows) \cup record.blobs
    IN /\ pc[c] = "pending"
       /\ record' = IF lost = {} THEN NoRecord ELSE [head |-> h, store |-> Unknown, blobs |-> lost]
       /\ displaced' = (displaced \cup Left(h)) \ {h}
       /\ Go(c, "generation")
       /\ UNCHANGED <<state, family, descriptor, bases, overlays, job, faults>>

\* publishSemanticGeneration.  A valid generation would stay, but a base is built only
\* where there was none or blobs arrived, and nobody else makes one meanwhile.
RemoveBase(c) ==
    /\ pc[c] = "generation" /\ (~BasePresent(want[c].head) \/ job.replace)
    /\ bases' = [bases EXCEPT ![want[c].head] = NoBase]
    /\ Go(c, "rename")
    /\ UNCHANGED <<state, family, descriptor, overlays, record, job, faults, displaced>>

RenameBase(c) ==
    /\ pc[c] = "rename"
    /\ bases' = [bases EXCEPT ![want[c].head] = job.base]
    /\ Go(c, "exact")
    /\ UNCHANGED <<state, family, descriptor, overlays, record, job, faults, displaced>>

\* The exact record, with the store of the start of the build.
WriteExact(c) ==
    LET h    == want[c].head
        lost == MissingOf(h, job.base.rows)
    IN /\ pc[c] = "exact"
       /\ record' = IF lost = {} THEN NoRecord ELSE [head |-> h, store |-> job.store, blobs |-> lost]
       /\ Go(c, IF job.overlayBuilt THEN "dirty" ELSE "bind")
       /\ UNCHANGED <<state, family, descriptor, bases, overlays, job, faults, displaced>>

PublishOverlay(c) ==
    /\ pc[c] = "dirty"
    /\ overlays' = [overlays EXCEPT ![want[c]] = "whole"]
    /\ Go(c, "bind")
    /\ UNCHANGED <<state, family, descriptor, bases, record, job, faults, displaced>>

BaseReady    == job.baseBound \/ job.base # NoBase
OverlayReady == job.overlayBound \/ job.overlayBuilt

\* Both parts or neither, and never for a state that was not written.
Bind(c) ==
    /\ pc[c] = "bind"
    /\ IF BaseReady /\ OverlayReady /\ ~job.partial
       THEN /\ descriptor' = [state |-> want[c], family |-> family, base |-> want[c].head,
                              overlay |-> want[c].work # Clean]
            /\ Go(c, "collect") /\ UNCHANGED job
       ELSE /\ Goto(c, "open") /\ Unlock /\ UNCHANGED <<repoVars, descriptor, searchVars, read, peer>>
    /\ UNCHANGED <<state, family, bases, overlays, record, faults, displaced>>

KeepOnly(base, overlay) ==
    /\ bases' = [h \in Commits |-> IF h = base THEN bases[h] ELSE NoBase]
    /\ overlays' = [s \in States |-> IF s = overlay THEN overlays[s] ELSE "none"]
    /\ displaced' = displaced \cap {base}

\* removeSemanticGenerationsExcept, after a bind; then the locks go.
Collect(c) ==
    /\ pc[c] = "collect"
    /\ IF NeedsBase(semantic[c], want[c]) \/ NeedsOverlay(semantic[c], want[c])
       THEN KeepOnly(want[c].head, IF want[c].work = Clean THEN NoState ELSE want[c])
       ELSE UNCHANGED <<bases, overlays, displaced>>
    /\ Goto(c, "open") /\ Unlock
    /\ UNCHANGED <<repoVars, state, family, descriptor, record, searchVars, read, peer, faults>>

\* An activation that fails leaves no descriptor.
FailActivation(c) ==
    /\ pc[c] \in Activating
    /\ Fault("disk")
    /\ descriptor' = NoDescriptor
    /\ Goto(c, "open") /\ Unlock
    /\ UNCHANGED <<repoVars, state, family, bases, overlays, record, searchVars, read, peer, displaced>>

-----------------------------------------------------------------------------
(* The read, under the shared lock.                                        *)

\* The state hash stats the dirty files of the capture again.
Version(c) == [want[c] EXCEPT !.work = IF @ = Clean THEN Clean ELSE work]

CanRead(c) == pc[c] = "open" /\ \A d \in Commands : pc[d] \notin Publishing

\* The tree changed, and the node was not read yet.
SeeTreeChange(c) ==
    /\ CanRead(c) /\ state # Version(c) /\ ~retried[c]
    /\ Ended(c, TRUE)
    /\ UNCHANGED <<repoVars, diskVars, builder, job, peer, faults, displaced>>

\* A read without vectors: none wanted, none bound, or the tree changed again.
ReadText(c) ==
    /\ CanRead(c)
    /\ \/ ~semantic[c] /\ (state = Version(c) \/ retried[c])
       \/ semantic[c] /\ state # Version(c) /\ retried[c]
       \/ semantic[c] /\ state = Version(c) /\ ~JoinedMatch(semantic[c], state)
    /\ Ended(c, FALSE)
    /\ UNCHANGED <<repoVars, diskVars, builder, job, peer, faults, displaced>>

Openable(c) ==
    /\ NeedsBase(semantic[c], state) => BasePresent(state.head)
    /\ NeedsOverlay(semantic[c], state) => OverlayPresent(state)

OpenVectors(c) ==
    /\ CanRead(c) /\ semantic[c] /\ state = Version(c)
    /\ JoinedMatch(semantic[c], state) /\ Openable(c)
    /\ read' = [read EXCEPT ![c] = [state |-> state, vectors |-> TRUE,
                 base |-> IF NeedsBase(semantic[c], state) THEN bases[state.head] ELSE NoBase]]
    /\ Goto(c, "reading")
    /\ UNCHANGED <<repoVars, diskVars, builder, job, searchVars, peer, faults, displaced>>

\* A generation that does not open: the descriptor goes, and text is read.
OpenDamaged(c) ==
    /\ CanRead(c) /\ semantic[c] /\ state = Version(c)
    /\ JoinedMatch(semantic[c], state) /\ ~Openable(c)
    /\ descriptor' = NoDescriptor
    /\ Ended(c, FALSE)
    /\ UNCHANGED <<repoVars, state, family, bases, overlays, record, builder, job, peer, faults, displaced>>

EndRead(c) ==
    /\ pc[c] = "reading" /\ read[c].base.health # "graph"
    /\ Ended(c, FALSE)
    /\ UNCHANGED <<repoVars, diskVars, builder, job, peer, faults, displaced>>

\* validateUSearchShard: the search goes on with exact vectors, then ends its read.
ScanDamaged(c) ==
    /\ pc[c] = "reading" /\ read[c].base.health = "graph"
    /\ descriptor' = NoDescriptor
    /\ Goto(c, "repair")
    /\ read' = [read EXCEPT ![c] = NoRead]
    /\ UNCHANGED <<repoVars, state, family, bases, overlays, record, builder, job, searchVars, peer,
                   faults, displaced>>

-----------------------------------------------------------------------------
(* removeDamagedVectors.                                                   *)

\* A build runs: the removal does not wait.
SkipRepair(c) ==
    /\ pc[c] = "repair" /\ builder # NoOne
    /\ Ended(c, FALSE)
    /\ UNCHANGED <<repoVars, diskVars, builder, job, peer, faults, displaced>>

\* Mutant: the removal does not look at the build lock.
LockRepairBlind(c) ==
    /\ pc[c] = "repair"
    /\ builder' = c
    /\ Goto(c, "remove")
    /\ UNCHANGED <<repoVars, diskVars, job, searchVars, read, peer, faults, displaced>>

LockRepair(c) ==
    /\ pc[c] = "repair" /\ builder = NoOne
    /\ builder' = c
    /\ Goto(c, "remove")
    /\ UNCHANGED <<repoVars, diskVars, job, searchVars, read, peer, faults, displaced>>

\* Mutant: the generations stay.
RemoveDescriptor(c) ==
    /\ pc[c] = "remove" /\ NoReads
    /\ descriptor' = NoDescriptor
    /\ Ended(c, FALSE) /\ Unlock
    /\ UNCHANGED <<repoVars, state, family, bases, overlays, record, peer, faults, displaced>>

\* Every generation goes, also one that a peer built since the damaged read.
RemoveDamaged(c) ==
    /\ pc[c] = "remove" /\ NoReads
    /\ descriptor' = NoDescriptor
    /\ KeepOnly(NoHead, NoState)
    /\ Ended(c, FALSE) /\ Unlock
    /\ UNCHANGED <<repoVars, state, family, record, peer, faults>>

-----------------------------------------------------------------------------
(* A linked worktree reuses the vectors, with no lock of this corpus.      *)

\* Here it begins only when the next step may replace a generation.
PeerReadsRows(h) ==
    /\ peer = NoPeer /\ \E c \in Commands : pc[c] = "generation" /\ bases[h].health \in {"whole", "graph"} /\ bases[h].rows # {}
    /\ peer' = [source |-> h, rows |-> bases[h].rows, vectors |-> {}]
    /\ UNCHANGED <<repoVars, diskVars, builder, job, pc, searchVars, read, faults, displaced>>

\* Mutant: a vectors file of any length is mapped.
PeerMapsAny ==
    /\ peer # NoPeer
    /\ peer' = IF peer.vectors # {} THEN NoPeer
               ELSE [peer EXCEPT !.vectors = bases[peer.source].rows]
    /\ UNCHANGED <<repoVars, diskVars, builder, job, pc, searchVars, read, faults, displaced>>

\* openGenerationAt opens the files one after the other; mapSemanticRows wants the
\* length that the manifest told.
PeerMapsVectors ==
    /\ peer # NoPeer
    /\ LET found == bases[peer.source].rows
       IN peer' = IF peer.vectors = {} /\ Cardinality(found) = Cardinality(peer.rows)
                  THEN [peer EXCEPT !.vectors = found]
                  ELSE NoPeer
    /\ UNCHANGED <<repoVars, diskVars, builder, job, pc, searchVars, read, faults, displaced>>

-----------------------------------------------------------------------------

\* The process dies: its locks go, what it wrote stays.
Crash(c) ==
    /\ pc[c] # "start"
    /\ Fault("crash")
    /\ Ended(c, FALSE)
    /\ IF builder = c THEN Unlock ELSE UNCHANGED <<builder, job>>
    /\ UNCHANGED <<repoVars, diskVars, peer, displaced>>

\* A file of a generation loses bytes; what an open tells, it tells from then on.
Damage ==
    /\ NoReads /\ Fault("damage")
    /\ \/ \E h \in Commits, kind \in {"open", "graph"} :
             /\ BasePresent(h)
             /\ bases' = [bases EXCEPT ![h].health = kind]
             /\ UNCHANGED overlays
       \/ \E s \in States :
             /\ overlays[s] # "none"
             /\ overlays' = [overlays EXCEPT ![s] = "open"]
             /\ UNCHANGED bases
    /\ UNCHANGED <<repoVars, state, family, descriptor, record, builder, job, pc, searchVars, read, peer,
                   displaced>>

Build(c) ==
    FoundCurrent(c) \/ Decide(c) \/ BuildBase(c) \/ BuildOverlay(c) \/ DiscardBuild(c)

Publish(c) ==
    \/ StartPublish(c) \/ PublishText(c) \/ WriteState(c)
    \/ WritePending(c) \/ RemoveBase(c) \/ RenameBase(c) \/ WriteExact(c)
    \/ PublishOverlay(c) \/ Bind(c) \/ Collect(c)

Read(c) ==
    \/ SeeTreeChange(c) \/ ReadText(c) \/ OpenVectors(c) \/ OpenDamaged(c)
    \/ EndRead(c) \/ ScanDamaged(c)
    \/ SkipRepair(c) \/ LockRepair(c) \/ RemoveDamaged(c)

Step(c) == (\E v \in BOOLEAN : Prepare(c, v)) \/ ServePeer(c) \/ Build(c) \/ Publish(c) \/ Read(c)

Repository == Edit \/ (\E h \in Heads : MoveHead(h)) \/ (\E b \in Blobs : Arrive(b))

Next ==
    \/ Repository
    \/ \E c \in Commands : Step(c) \/ FailActivation(c) \/ Crash(c)
    \/ Damage
    \/ PeerMapsVectors \/ \E h \in Commits : PeerReadsRows(h)

\* Searches with vectors come again and again, and each one that runs goes on.
Spec == Init /\ [][Next]_vars /\ \A c \in Commands : WF_vars(Step(c))

-----------------------------------------------------------------------------
(* Properties.                                                             *)

\* readNodeEvidence: while a search reads vectors, the text under its lock is that
\* of the same state, and the generations are the ones that it opened: those of
\* the state, never a base without the overlay that its dirty files need.
VectorsFitText ==
    \A c \in Commands :
        read[c].vectors =>
            LET s == read[c].state
            IN /\ family = s
               /\ s.head # NoHead => bases[s.head] = read[c].base
               /\ s.work # Clean => overlays[s] = "whole"

\* git_missing_blobs.go: a base that opens and lacks windows of blobs has a record
\* that names them, from before its publish on; and a blob that arrives, even
\* during the build, makes the record due.  (A record of another commit displaces
\* it, and a base that does not open is built again, whatever its record.)
MissingIsNamed ==
    \A h \in Commits \ displaced :
        LET lost == MissingOf(h, bases[h].rows)
        IN BasePresent(h) /\ lost # {} =>
              /\ Counts(h) /\ lost \subseteq record.blobs
              /\ lost \cap here # {} => MissingDue(h)

\* semantic_reuse.go: a build of a linked worktree never pairs the rows of one
\* generation with the vectors of another.
ReuseIsExact == peer.vectors # {} => peer.vectors = peer.rows

RepoState == [head |-> head, work |-> work]

Served ==
    /\ state = RepoState /\ family = RepoState
    /\ head # NoHead \/ work # Clean =>
          /\ descriptor = [state |-> RepoState, family |-> family, base |-> head, overlay |-> work # Clean]
          /\ work # Clean => overlays[RepoState] = "whole"
          /\ head # NoHead =>
                /\ bases[head].health = "whole"
                /\ head \in displaced \/ MissingOf(head, bases[head].rows) \cap here = {}

\* Once the repository rests, its vectors come to be bound to its text and stay
\* so, whatever was damaged or left behind; unless peers' builds run at every
\* attempt to remove damaged vectors.
Converges == <>[]Served \/ []<><<\E c \in Commands : SkipRepair(c)>>_vars
=============================================================================
