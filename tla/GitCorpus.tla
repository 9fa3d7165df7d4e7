----------------------------- MODULE GitCorpus -----------------------------
(***************************************************************************)
(* How searches keep the text index of one Git node in step with its       *)
(* repository (indexer.go, main.go refreshState, build_plan.go).  The      *)
(* index has two shard families: the committed one holds the blobs of a    *)
(* commit, the uncommitted one the dirty files of the work tree.           *)
(*                                                                         *)
(* A version of a work-tree file stands for its content and for the stat   *)
(* values that the state hash covers; no write gives a file an old version *)
(* back.  A clean file is not in the state, so a state with no dirty file  *)
(* comes back when edits are undone.                                       *)
(*                                                                         *)
(* A partial clone may lack blobs; the commit's files with such blobs are  *)
(* indexed by name only, and a record says which (git_missing_blobs.go).   *)
(* Vectors are in VectorStore, lock waits and evictions in CorpusLocks.    *)
(***************************************************************************)
EXTENDS Naturals, FiniteSets

CONSTANTS
    Files,       \* files of the work tree that can become dirty
    Blobs,
    Content,     \* the blobs of each commit: commits are 1..Len(Content)
    Commands,    \* searches; each starts again when it has ended
    Removals,    \* versions of a file that stand for its removal
    MaxVersion,  \* bound: versions of a file
    MaxMoves,    \* bound: changes of the repository
    FaultKinds,  \* a subset of {"crash", "disk", "read", "fds", "cancel", "damage"}
    MaxFaults    \* bound: faults in one behaviour

NoOne    == "no one"
NoHead   == 0     \* gitNoHead: a branch with no commit
Commits  == DOMAIN Content
Heads    == {NoHead} \cup Commits
NameOnly == MaxVersion + 1 \* a file that a read error kept by name
Unknown  == {"no blob"} \* unknownObjectStore: no store is this one

ASSUME ConstantsAssumption ==
    /\ NoOne \notin Commands /\ Files # {} /\ Blobs # {} /\ "no blob" \notin Blobs
    /\ 1 \in Commits /\ Commits \subseteq Nat \ {0} /\ Content \in [Commits -> SUBSET Blobs]
    /\ MaxVersion \in Nat \ {0} /\ Removals \subseteq 2..MaxVersion
    /\ MaxMoves \in Nat /\ MaxFaults \in Nat

BlobsOf(h) == IF h = NoHead THEN {} ELSE Content[h]

RepoStates == [head : Heads, files : [Files -> 0..MaxVersion]]
NoState    == [head |-> NoHead, files |-> [f \in Files |-> NameOnly]]
NoDocs     == [f \in Files |-> 0]

\* A committed family: its commit as the shards record it, its documents, and
\* those of them that are indexed by name only.  A torn family is a mix of two.
CommittedFamilies ==
    [head : Heads, docs : SUBSET Blobs, named : SUBSET Blobs, torn : BOOLEAN]
NoCommitted == [head |-> NoHead, docs |-> {}, named |-> {}, torn |-> FALSE]

\* An uncommitted family; one with tombstones only has shards and no document.
UncommittedFamilies ==
    [docs : [Files -> 0..NameOnly], shards : BOOLEAN, torn : BOOLEAN]
NoUncommitted == [docs |-> NoDocs, shards |-> FALSE, torn |-> FALSE]

Manifests  == [committed : CommittedFamilies, uncommitted : UncommittedFamilies]
NoManifest == [committed   |-> [NoCommitted EXCEPT !.named = Blobs], \* no family is this one
               uncommitted |-> NoUncommitted]

\* .uncommitted manifest: the state it belongs to and the stat of each file.
UncommittedManifests == [state : RepoStates \cup {NoState}, entries : [Files -> 0..NameOnly]]
NoEntries == [state |-> NoState, entries |-> [f \in Files |-> NameOnly + 1]] \* no file

Stores  == (SUBSET Blobs) \cup {Unknown}
Records == [store : Stores, blobs : SUBSET Blobs, damaged : BOOLEAN]
NoRecord == [store |-> Unknown, blobs |-> {}, damaged |-> FALSE]
DamagedRecord == [store |-> Unknown, blobs |-> {}, damaged |-> TRUE]

Jobs == [committed : BOOLEAN, clear : BOOLEAN, intact : BOOLEAN, cached : RepoStates \cup {NoState},
         store : Stores, arrival : BOOLEAN, carry : SUBSET Blobs,
         next : CommittedFamilies, missing : SUBSET Blobs, published : BOOLEAN,
         mode : {"none", "delta", "stage", "fds"}, entries : [Files -> 0..NameOnly],
         docs : [Files -> 0..NameOnly]]
NoJob == [committed |-> FALSE, clear |-> FALSE, intact |-> FALSE, cached |-> NoState,
          store |-> Unknown, arrival |-> FALSE, carry |-> {},
          next |-> NoCommitted, missing |-> {}, published |-> FALSE,
          mode |-> "none", entries |-> NoDocs, docs |-> NoDocs]

VARIABLES
    head, work, dirty, here, moves, \* HEAD, the files, the dirty ones, the blobs that are present
    state, empty, headFile,         \* .state, .empty, .head
    committed, uncommitted,         \* the two shard families
    manifest, marker,               \* .family-v1, .swapping
    gitState,                       \* .git-committed-v1: a commit, or NoHead
    entries,                        \* the uncommitted manifest
    missing,                        \* the record of the blobs read as missing
    builder, pc,
    want,   \* the captured state; its files are those of git status
    job,    \* what the holder of .build.lock has decided and built
    faults,
    late,   \* history: "state", a crash between .family-v1 and .state and no .state
            \* since; "head", one that left .head beside an emptied committed family;
            \* "delta", a delta from a stale manifest that has the state of .state,
            \* and no .state of a full build of the uncommitted family since
    stale,  \* history: the last write of the uncommitted manifest failed
    reborn  \* history: files that a build read after its stat found them gone

repoVars   == <<head, work, dirty, here, moves>>
stateFiles == <<state, empty, headFile>>
families   == <<committed, uncommitted, marker>>
recordVars == <<manifest, gitState, entries, missing>>
histVars   == <<late, stale, reborn>>
diskVars   == <<stateFiles, families, recordVars>>
vars == <<head, work, dirty, here, moves, state, empty, headFile, committed, uncommitted,
          manifest, marker, gitState, entries, missing, builder, pc, want, job,
          faults, late, stale, reborn>>

Publishing == {"swap", "recordCommitted", "recordBlobs", "uncommitted", "delta",
               "fallback", "record", "state", "head"}
Locked == {"recheck", "build", "prepare", "stage", "publish"} \cup Publishing

TypeOK ==
    /\ head \in Heads /\ work \in [Files -> 1..MaxVersion] /\ dirty \subseteq Files
    /\ here \subseteq Blobs /\ moves \in 0..MaxMoves
    /\ {state, empty} \subseteq RepoStates \cup {NoState} /\ headFile \in Heads
    /\ committed \in CommittedFamilies /\ uncommitted \in UncommittedFamilies
    /\ manifest \in Manifests /\ marker \in BOOLEAN /\ gitState \in Heads
    /\ entries \in UncommittedManifests \cup {NoEntries} /\ missing \in Records
    /\ builder \in Commands \cup {NoOne}
    /\ pc \in [Commands -> {"start", "check", "lock"} \cup Locked]
    /\ \A c \in Commands : pc[c] \in Locked <=> builder = c
    /\ want \in [Commands -> RepoStates]
    /\ job \in Jobs /\ faults \in 0..MaxFaults /\ late \subseteq {"state", "head", "delta"}
    /\ stale \in BOOLEAN /\ reborn \subseteq Files

Shared == {b \in Blobs : \A h \in Commits : b \in Content[h]}

\* A node that no search has indexed.  A partial clone lacks what commits share.
Init ==
    /\ head = 1 /\ work = [f \in Files |-> 1] /\ dirty \in {{}, Files}
    /\ here \in {Blobs} \cup (IF dirty = {} THEN {Blobs \ Shared} ELSE {})
    /\ moves = 0
    /\ state = NoState /\ empty = NoState /\ headFile = NoHead
    /\ committed = NoCommitted /\ uncommitted = NoUncommitted
    /\ manifest = NoManifest /\ marker = FALSE /\ gitState = NoHead
    /\ entries = NoEntries /\ missing = NoRecord
    /\ builder = NoOne
    /\ pc = [c \in Commands |-> "start"]
    /\ want = [c \in Commands |-> [head |-> NoHead, files |-> NoDocs]]
    /\ job = NoJob /\ faults = 0 /\ late = {} /\ stale = FALSE /\ reborn = {}

Fault(kind) ==
    /\ kind \in FaultKinds
    /\ faults < MaxFaults
    /\ faults' = faults + 1

Goto(c, step) == pc' = [pc EXCEPT ![c] = step]

Idle == [head |-> NoHead, files |-> NoDocs]

\* The node has its answer, or failed: the lock and the build directory go.
Done(c) ==
    /\ Goto(c, "start")
    /\ builder' = IF builder = c THEN NoOne ELSE builder
    /\ job' = IF builder = c THEN NoJob ELSE job
    /\ want' = [want EXCEPT ![c] = Idle]

Running(c, step) ==
    /\ Goto(c, step)
    /\ UNCHANGED <<builder, want>>

DeleteStateFiles == state' = NoState /\ empty' = NoState /\ headFile' = NoHead

-----------------------------------------------------------------------------
(* The repository.                                                         *)

Moves(kind) ==
    /\ moves < MaxMoves /\ moves' = moves + 1
    /\ UNCHANGED <<diskVars, builder, pc, want, job, faults, histVars>>

\* An edit, a removal or a new file: the next version, and the file is dirty.
Edit(f) ==
    /\ Moves("edit")
    /\ work[f] < MaxVersion
    /\ work' = [work EXCEPT ![f] = @ + 1]
    /\ dirty' = dirty \cup {f}
    /\ UNCHANGED <<head, here>>

\* git stash, git restore: the file is as in HEAD, with a new stat.
Restore(f) ==
    /\ Moves("restore")
    /\ f \in dirty /\ work[f] < MaxVersion /\ work[f] + 1 \notin Removals
    /\ work' = [work EXCEPT ![f] = @ + 1]
    /\ dirty' = dirty \ {f}
    /\ UNCHANGED <<head, here>>

\* A commit of the dirty files, or a checkout that keeps them.
MoveHead(h) ==
    /\ Moves("head")
    /\ h # head
    /\ head' = h
    /\ dirty' \in {dirty, {}}
    /\ UNCHANGED <<work, here>>

\* A fetch brings a blob that the partial clone did not have.
Arrive(b) ==
    /\ Moves("arrive")
    /\ b \notin here
    /\ here' = here \cup {b}
    /\ UNCHANGED <<head, work, dirty>>

-----------------------------------------------------------------------------
(* What the code reads off the index directory.                            *)

HasCommitted == committed.docs # {} \/ committed.torn
HasShard     == HasCommitted \/ uncommitted.shards

\* matchesManifestFamily and matchesManifest.
CommittedIntact == manifest.committed = committed
FamilyIntact    == CommittedIntact /\ manifest.uncommitted = uncommitted

\* committedSnapshotReady: the shards tell their commit; .head tells it for a
\* commit without one.
CommittedReady(h) ==
    \/ h = NoHead /\ ~HasCommitted
    \/ h # NoHead /\ HasCommitted /\ (committed.torn \/ committed.head = h)
    \/ h # NoHead /\ ~HasCommitted /\ headFile = h /\ CommittedIntact

PublishedHead == IF HasCommitted /\ ~committed.torn THEN committed.head ELSE headFile

\* gitCorpusStateHash stats the files of git status when it runs.
StatNow(files) == [f \in Files |-> IF files[f] = 0 THEN 0 ELSE work[f]]

\* The document of a dirty file: none if it is removed or not regular.
DocNow(f) == IF work[f] \in Removals THEN 0 ELSE work[f]

IsDirty(s) == s.files # NoDocs

-----------------------------------------------------------------------------
(* Before the lock: git status, then refreshState.                         *)

Capture(c) ==
    /\ pc[c] = "start"
    /\ want' = [want EXCEPT ![c] =
          [head |-> head, files |-> [f \in Files |-> IF f \in dirty THEN work[f] ELSE 0]]]
    /\ Goto(c, "check")
    /\ UNCHANGED <<repoVars, diskVars, builder, job, faults, histVars>>

ClearDue(h) == h = NoHead /\ HasCommitted

IsComplete(h) == HasShard /\ FamilyIntact /\ CommittedReady(h)

\* missingBlobCheckDue.
MissingDue == missing # NoRecord /\ (missing.store = Unknown \/ missing.store # here)

\* Mutant: blobs that arrived ask for no build.
NeedBuildByState(s) == s # state \/ ~IsComplete(s.head) \/ marker \/ ClearDue(s.head)

NeedBuild(s) ==
    \/ s # state \/ ~IsComplete(s.head) \/ marker \/ ClearDue(s.head) \/ MissingDue

KnownEmpty(s) ==
    ~marker /\ ~ClearDue(s.head) /\ s = state /\ s = empty /\ ~IsComplete(s.head)

\* The hash stats the files now.
Captured(c) == [want[c] EXCEPT !.files = StatNow(@)]

Warm(c) ==
    /\ pc[c] = "check"
    /\ KnownEmpty(Captured(c)) \/ ~NeedBuild(Captured(c))
    /\ Done(c)
    /\ UNCHANGED <<repoVars, diskVars, faults, histVars>>

Cold(c) ==
    /\ pc[c] = "check"
    /\ NeedBuild(Captured(c)) /\ ~KnownEmpty(Captured(c))
    /\ want' = [want EXCEPT ![c] = Captured(c)]
    /\ Goto(c, "lock")
    /\ UNCHANGED <<repoVars, diskVars, builder, job, faults, histVars>>

\* A peer builds and shards exist: the node serves them.
ServePeer(c) ==
    /\ pc[c] = "lock"
    /\ builder # NoOne /\ HasShard
    /\ Done(c)
    /\ UNCHANGED <<repoVars, diskVars, faults, histVars>>

-----------------------------------------------------------------------------
(* Under the build lock, before the publish lock.                          *)

\* Mutant: the flock does not exclude.
TakeHeldLock(c) ==
    /\ pc[c] = "lock"
    /\ builder' = c
    /\ Goto(c, "recheck")
    /\ UNCHANGED <<repoVars, diskVars, want, job, faults, histVars>>

\* lockBuild repairs a committed swap that stopped.
TakeLock(c) ==
    /\ pc[c] = "lock"
    /\ builder = NoOne
    /\ builder' = c
    /\ IF marker
       THEN /\ committed' = NoCommitted /\ manifest' = NoManifest /\ marker' = FALSE
            /\ DeleteStateFiles
       ELSE UNCHANGED <<committed, manifest, marker, stateFiles>>
    /\ Goto(c, "recheck")
    /\ UNCHANGED <<repoVars, uncommitted, gitState, entries, missing, want, job, faults, histVars>>

\* recheckMissingBlobs: a record of this object store needs no check.
Arrived ==
    /\ missing # NoRecord /\ missing.store # here
    /\ missing.damaged \/ missing.blobs \cap here # {}

\* A record whose blobs are all still missing gets the new fingerprint; that
\* write may fail.
RefreshRecord ==
    \/ missing' = IF missing = NoRecord \/ Arrived THEN missing ELSE [missing EXCEPT !.store = here]
    \/ "disk" \in FaultKinds /\ UNCHANGED missing

\* gitBuildCurrent, without its vectors.
IsCurrent(s) ==
    state = s /\ ~ClearDue(s.head) /\ CommittedReady(s.head) /\ FamilyIntact /\ ~Arrived

FoundCurrent(c) ==
    /\ pc[c] = "recheck"
    /\ IsCurrent(want[c])
    /\ RefreshRecord
    /\ Done(c)
    /\ UNCHANGED <<repoVars, stateFiles, families, manifest, gitState, entries, faults, histVars>>

\* decideGitBuild, on one read of .state, of the families and of the object store.
Decide(c) ==
    /\ pc[c] = "recheck"
    /\ ~IsCurrent(want[c])
    /\ RefreshRecord
    /\ job' = [NoJob EXCEPT
          !.cached = state, !.store = here, !.intact = FamilyIntact,
          !.committed = want[c].head # NoHead
                        /\ (PublishedHead # want[c].head \/ ~CommittedIntact \/ Arrived),
          !.clear = ClearDue(want[c].head),
          !.arrival = Arrived,
          !.carry = IF Arrived THEN {} ELSE missing.blobs]
    /\ Running(c, "build")
    /\ UNCHANGED <<repoVars, stateFiles, families, manifest, gitState, entries, faults, histVars>>

\* prepareNativeGitDelta: the published shards are whole and of the commit that
\* .git-committed-v1 names.
DeltaEligible(c) ==
    /\ ~job.arrival /\ HasCommitted /\ CommittedIntact
    /\ gitState = committed.head /\ committed.head # want[c].head

\* A family with no document has no shard to record its commit.
Staged(c, docs, named, lost) ==
    job' = [job EXCEPT
              !.next = IF docs = {} THEN NoCommitted
                       ELSE [head |-> want[c].head, docs |-> docs, named |-> named, torn |-> FALSE],
              !.missing = lost]

\* The seed keeps every document that the diff does not name.
BuildDelta(c) ==
    /\ pc[c] = "build" /\ job.committed /\ DeltaEligible(c)
    /\ LET old     == BlobsOf(committed.head) \ BlobsOf(want[c].head)
           new     == BlobsOf(want[c].head) \ BlobsOf(committed.head)
           unread  == new \ here
       IN Staged(c, (committed.docs \ old) \cup new, (committed.named \ old) \cup unread,
                 (job.carry \ old) \cup unread)
    /\ Running(c, "prepare")
    /\ UNCHANGED <<repoVars, diskVars, faults, histVars>>

BuildFull(c) ==
    /\ pc[c] = "build" /\ job.committed
    /\ LET all == BlobsOf(want[c].head) IN Staged(c, all, all \ here, all \ here)
    /\ Running(c, "prepare")
    /\ UNCHANGED <<repoVars, diskVars, faults, histVars>>

BuildNothing(c) ==
    /\ pc[c] = "build" /\ ~job.committed
    /\ Running(c, "prepare")
    /\ UNCHANGED <<repoVars, diskVars, job, faults, histVars>>

\* The lexical build fails: the captured commit is gone, which deletes the state
\* files, or a blob cannot be read, which does so if there is no shard.
FailBuild(c) ==
    /\ pc[c] = "build" /\ job.committed
    /\ Fault("read")
    /\ DeleteStateFiles \/ (HasShard /\ UNCHANGED stateFiles)
    /\ Done(c)
    /\ UNCHANGED <<repoVars, families, recordVars, histVars>>

\* validateCommittedBuildHead: HEAD moved, so the build goes.
DiscardBuild(c) ==
    /\ pc[c] = "prepare" /\ head # want[c].head
    /\ Done(c)
    /\ UNCHANGED <<repoVars, diskVars, faults, histVars>>

Validated(c) == pc[c] = "prepare" /\ head = want[c].head

PrepareNothing(c) ==
    /\ Validated(c) /\ ~IsDirty(want[c])
    /\ Running(c, "publish")
    /\ UNCHANGED <<repoVars, diskVars, job, faults, histVars>>

\* The stat of each dirty file that exists (uncommittedManifestEntries).
EntriesNow(s) == [f \in Files |-> IF s.files[f] = 0 THEN 0 ELSE DocNow(f)]

\* uncommittedDeltaPossible.  Its limits (shards, window, compaction, a gap in
\* the numbers) are the choice of PrepareStage.
DeltaPossible ==
    /\ entries # NoEntries /\ entries.state = job.cached
    /\ job.intact /\ uncommitted.shards

PrepareDelta(c) ==
    /\ Validated(c) /\ IsDirty(want[c]) /\ DeltaPossible
    /\ job' = [job EXCEPT !.mode = "delta", !.entries = EntriesNow(want[c])]
    /\ late' = IF stale /\ entries.state = job.cached THEN late \cup {"delta"} ELSE late
    /\ Running(c, "publish")
    /\ UNCHANGED <<repoVars, diskVars, faults, stale, reborn>>

PrepareStage(c) ==
    /\ Validated(c) /\ IsDirty(want[c])
    /\ job' = [job EXCEPT !.mode = "stage", !.entries = EntriesNow(want[c])]
    /\ Running(c, "stage")
    /\ UNCHANGED <<repoVars, diskVars, faults, histVars>>

\* What one read of the files in fs gives: documents, or names after an error.
Reads(fs) ==
    /\ reborn' = reborn \cup {f \in fs : DocNow(f) # 0 /\ job.entries[f] = 0}
    /\ \/ /\ job' = [job EXCEPT !.docs = [f \in Files |-> IF f \in fs THEN DocNow(f) ELSE @[f]]]
          /\ UNCHANGED faults
       \/ /\ Fault("read")
          /\ \E kept \in (SUBSET {f \in fs : DocNow(f) # 0}) \ {{}} :
                job' = [job EXCEPT
                   !.docs = [f \in Files |-> IF f \in kept THEN NameOnly
                                             ELSE IF f \in fs THEN DocNow(f) ELSE @[f]],
                   !.entries = [f \in Files |-> IF f \in kept /\ @[f] # 0 THEN NameOnly ELSE @[f]]]

Listed(s) == {f \in Files : s.files[f] # 0}

\* buildUncommittedStage, in a directory of its own.
ReadStage(c) ==
    /\ pc[c] = "stage"
    /\ Reads(Listed(want[c]))
    /\ Running(c, "publish")
    /\ UNCHANGED <<repoVars, diskVars, late, stale>>

\* EMFILE or ENFILE: the committed family still publishes.
StageOutOfFiles(c) ==
    /\ pc[c] = "stage"
    /\ Fault("fds")
    /\ job' = [job EXCEPT !.mode = "fds"]
    /\ Running(c, "publish")
    /\ UNCHANGED <<repoVars, diskVars, histVars>>

\* An interrupt before the publish lock leaves the index as it is.
CancelBuild(c) ==
    /\ pc[c] \in Locked \ Publishing
    /\ Fault("cancel")
    /\ Done(c)
    /\ UNCHANGED <<repoVars, diskVars, histVars>>

-----------------------------------------------------------------------------
(* Under the publish lock: the committed family and its records.           *)

\* Mutant: no record before the swap.
NoPending == missing

\* writePendingMissingBlobRecord: what the live family and the new one lack.  A
\* damaged record stays.
Pending ==
    IF missing.damaged THEN missing
    ELSE [store |-> Unknown, blobs |-> job.missing \cup missing.blobs, damaged |-> FALSE]

PublishUncommitted(c) ==
    /\ pc[c] = "publish"
    /\ ~job.committed /\ ~job.clear
    /\ Running(c, "uncommitted")
    /\ UNCHANGED <<repoVars, diskVars, job, faults, histVars>>

\* The pending record, then .swapping.
BeginSwap(c) ==
    /\ pc[c] = "publish"
    /\ job.committed \/ job.clear
    /\ \/ /\ missing' = IF job.committed THEN Pending ELSE missing
          /\ marker' = TRUE
          /\ Running(c, "swap")
          /\ UNCHANGED <<job, faults>>
       \/ /\ Fault("disk")
          /\ missing' \in {missing, IF job.committed THEN Pending ELSE missing}
          /\ Done(c)
          /\ UNCHANGED marker
    /\ UNCHANGED <<repoVars, stateFiles, committed, uncommitted, manifest, gitState, entries, histVars>>

Torn(family) == [family EXCEPT !.torn = TRUE]

\* A swap that fails moves everything back, or leaves .swapping.
EndSwap(c) ==
    /\ pc[c] = "swap"
    /\ \/ /\ committed' = job.next
          /\ marker' = FALSE
          /\ job' = [job EXCEPT !.published = TRUE]
          /\ Running(c, "recordCommitted")
          /\ UNCHANGED faults
       \/ /\ Fault("disk")
          /\ \/ marker' = FALSE /\ UNCHANGED committed
             \/ committed' = Torn(committed) /\ UNCHANGED marker
          /\ Done(c)
    /\ UNCHANGED <<repoVars, stateFiles, uncommitted, recordVars, histVars>>

\* A step after the swap fails: no state, so the next search builds.
FailPublish(c) ==
    /\ Fault("disk")
    /\ DeleteStateFiles
    /\ Done(c)

\* The first recordFamily names the uncommitted files only if they were whole
\* when the build began.
RecordCommitted(c) ==
    /\ pc[c] = "recordCommitted"
    /\ \/ /\ manifest' = [committed   |-> committed,
                          uncommitted |-> IF job.intact THEN uncommitted ELSE NoUncommitted]
          /\ Running(c, "recordBlobs")
          /\ UNCHANGED <<stateFiles, job, faults>>
       \/ FailPublish(c) /\ UNCHANGED manifest
    /\ UNCHANGED <<repoVars, families, gitState, entries, missing, histVars>>

\* Mutant: the record has the store of the moment.
ExactNow(lost) ==
    IF lost = {} THEN NoRecord ELSE [store |-> here, blobs |-> lost, damaged |-> FALSE]

\* The blobs that the published family lacks, with the store of the build's start.
Exact(lost) ==
    IF lost = {} THEN NoRecord ELSE [store |-> job.store, blobs |-> lost, damaged |-> FALSE]

\* .git-committed-v1, then the record of the missing blobs.
RecordBlobs(c) ==
    /\ pc[c] = "recordBlobs"
    /\ \/ /\ gitState' = want[c].head
          /\ missing' = Exact(job.missing)
          /\ Running(c, "uncommitted")
          /\ UNCHANGED <<stateFiles, job, faults>>
       \/ /\ gitState' \in {gitState, want[c].head}
          /\ FailPublish(c)
          /\ UNCHANGED missing
    /\ UNCHANGED <<repoVars, families, manifest, entries, histVars>>

-----------------------------------------------------------------------------
(* Under the publish lock: the uncommitted family.                         *)

\* cleanUncommittedShards: the work tree is clean.
Clean(c) ==
    /\ pc[c] = "uncommitted" /\ ~IsDirty(want[c])
    /\ \/ /\ uncommitted' = NoUncommitted
          /\ entries' = NoEntries
          /\ stale' = FALSE
          /\ Running(c, "record")
          /\ UNCHANGED <<stateFiles, job, faults>>
       \/ /\ uncommitted' \in {uncommitted, Torn(uncommitted)}
          /\ FailPublish(c)
          /\ UNCHANGED <<entries, stale>>
    /\ UNCHANGED <<repoVars, committed, marker, manifest, gitState, missing, late, reborn>>

\* The prebuild met EMFILE: the live family stays.
KeepUncommitted(c) ==
    /\ pc[c] = "uncommitted" /\ job.mode = "fds"
    /\ Running(c, "record")
    /\ UNCHANGED <<repoVars, diskVars, job, faults, histVars>>

Kept == \E f \in Files : job.docs[f] = NameOnly

\* The manifest of the family: that of the new state, or a pending one, which has
\* no state, if some files were kept by name.  A pending one that cannot be
\* written leaves none; any other write that fails leaves the one before.
WriteEntries(c) ==
    \/ /\ entries' = [state |-> IF Kept THEN NoState ELSE want[c], entries |-> job.entries]
       /\ stale' = FALSE
       /\ UNCHANGED faults
    \/ /\ Fault("disk")
       /\ entries' = IF Kept THEN NoEntries ELSE entries
       /\ stale' = ~Kept

\* stage.publish: an unmarked swap.
PublishStage(c) ==
    /\ pc[c] = "uncommitted" /\ job.mode = "stage"
    /\ \/ /\ uncommitted' = [docs |-> job.docs, shards |-> job.docs # NoDocs, torn |-> FALSE]
          /\ WriteEntries(c)
          /\ Running(c, "record")
          /\ UNCHANGED <<stateFiles, job>>
       \/ /\ FailPublish(c)
          /\ \/ UNCHANGED <<uncommitted, entries>>
             \/ uncommitted' = Torn(uncommitted) /\ entries' = NoEntries
          /\ UNCHANGED stale
    /\ UNCHANGED <<repoVars, committed, marker, manifest, gitState, missing, late, reborn>>

\* Mutant: a file that left the list keeps its document.
StillListed == {f \in Files : job.entries[f] # 0 /\ job.entries[f] # entries.entries[f]}

\* diffUncommittedAgainstManifest: a kept file differs from every stat.
Changed == {f \in Files : job.entries[f] # entries.entries[f]}

\* No dirty file changed: the family stays.
RefreshEntries(c) ==
    /\ pc[c] = "uncommitted" /\ job.mode = "delta" /\ Changed = {}
    /\ WriteEntries(c)
    /\ Running(c, "record")
    /\ UNCHANGED <<repoVars, stateFiles, families, manifest, gitState, missing, job, late, reborn>>

ReadDelta(c) ==
    /\ pc[c] = "uncommitted" /\ job.mode = "delta" /\ Changed # {}
    /\ Reads({f \in Changed : job.entries[f] # 0})
    /\ Running(c, "delta")
    /\ UNCHANGED <<repoVars, diskVars, late, stale>>

\* The delta goes into the live family, with a tombstone for each changed file.
WriteDelta(c) ==
    /\ pc[c] = "delta"
    /\ uncommitted' = [docs   |-> [f \in Files |-> IF f \in Changed THEN job.docs[f]
                                                  ELSE uncommitted.docs[f]],
                       shards |-> TRUE, torn |-> FALSE]
    /\ WriteEntries(c)
    /\ Running(c, "record")
    /\ UNCHANGED <<repoVars, stateFiles, committed, marker, manifest, gitState, missing, job, late, reborn>>

\* A delta that is too large or whose Builder fails builds in full, still under
\* the lock; it may have written some shards.
FallBack(c) ==
    /\ pc[c] = "delta"
    /\ job' = [job EXCEPT !.mode = "stage", !.entries = EntriesNow(want[c]), !.docs = NoDocs]
    /\ uncommitted' \in {uncommitted, Torn(uncommitted)}
    /\ Running(c, "fallback")
    /\ UNCHANGED <<repoVars, stateFiles, committed, marker, recordVars, faults, histVars>>

ReadFallBack(c) ==
    /\ pc[c] = "fallback"
    /\ Reads(Listed(want[c]))
    /\ Running(c, "uncommitted")
    /\ UNCHANGED <<repoVars, diskVars, late, stale>>

\* EMFILE under the lock, or an interrupt after the uncommitted step.
FailUncommitted(c) ==
    /\ \/ pc[c] \in {"delta", "fallback"} /\ Fault("fds")
       \/ pc[c] \in {"delta", "fallback", "record"} /\ Fault("cancel")
    /\ DeleteStateFiles
    /\ Done(c)
    /\ UNCHANGED <<repoVars, families, recordVars, histVars>>

-----------------------------------------------------------------------------
(* Under the publish lock: the records of the state.                       *)

\* The last recordFamily.
Record(c) ==
    /\ pc[c] = "record"
    /\ \/ /\ manifest' = [committed   |-> committed,
                          uncommitted |-> IF job.mode # "fds" \/ job.intact THEN uncommitted
                                          ELSE NoUncommitted]
          /\ Running(c, "state")
          /\ UNCHANGED <<stateFiles, job, faults>>
       \/ FailPublish(c) /\ UNCHANGED manifest
    /\ UNCHANGED <<repoVars, families, gitState, entries, missing, histVars>>

Partial == job.mode = "fds" \/ Kept

\* A partial build has no state.  .empty names the state of an empty index.
WriteState(c) ==
    /\ pc[c] = "state"
    /\ \/ /\ state' = IF Partial THEN NoState ELSE want[c]
          /\ empty' = IF Partial \/ HasShard THEN NoState ELSE want[c]
          /\ late' = late \ (IF job.mode \in {"none", "stage"} THEN {"state", "delta"} ELSE {"state"})
          /\ Running(c, "head")
          /\ UNCHANGED <<headFile, job, faults>>
       \/ FailPublish(c) /\ UNCHANGED late
    /\ UNCHANGED <<repoVars, families, recordVars, stale, reborn>>

WriteHead(c) ==
    /\ pc[c] = "head"
    /\ \/ /\ headFile' = want[c].head
          /\ late' = IF job.published \/ headFile # want[c].head THEN late \ {"head"} ELSE late
          /\ Done(c)
          /\ UNCHANGED <<state, empty, faults>>
       \/ FailPublish(c) /\ UNCHANGED late
    /\ UNCHANGED <<repoVars, families, recordVars, stale, reborn>>

\* What a crash now leaves behind.  "state": .family-v1 names the new uncommitted
\* files, or it names none and there are none, and .state is the old one.
\* "head": .head names another commit than that of the emptied committed family;
\* any committed shard tells its commit, so only such a family needs .head.
LeftBehind(c) ==
    (IF \/ pc[c] = "state"
        \/ /\ pc[c] = "record" \/ (job.published /\ pc[c] \in {"recordBlobs", "uncommitted"})
           /\ ~job.intact /\ manifest.uncommitted = uncommitted
     THEN {"state"} ELSE {})
    \cup (IF ~HasCommitted /\ headFile # want[c].head
             /\ pc[c] \in IF job.published THEN Publishing \ {"swap", "recordCommitted"}
                         ELSE {"state", "head"}
          THEN {"head"} ELSE {})

\* The process dies.  A swap leaves a mix of two families, and so does a delta.
Crash(c) ==
    /\ pc[c] # "start"
    /\ Fault("crash")
    /\ committed' \in IF pc[c] = "swap" THEN {committed, Torn(committed)} ELSE {committed}
    /\ uncommitted' \in IF pc[c] \in {"uncommitted", "delta"}
                            /\ (uncommitted.shards \/ job.docs # NoDocs)
                        THEN {uncommitted, Torn(uncommitted)} ELSE {uncommitted}
    /\ late' = late \cup LeftBehind(c)
    /\ Done(c)
    /\ UNCHANGED <<repoVars, stateFiles, marker, recordVars, stale, reborn>>

\* A reader found a shard that does not load and removed .family-v1 under the
\* publish lock, or the missing-blob record is damaged.
Damage ==
    /\ \A c \in Commands : pc[c] \notin Publishing
    /\ Fault("damage")
    /\ \/ HasShard /\ manifest' = NoManifest /\ UNCHANGED missing
       \/ missing # NoRecord /\ missing' = DamagedRecord /\ UNCHANGED manifest
    /\ UNCHANGED <<repoVars, stateFiles, families, gitState, entries, builder, pc, want, job, histVars>>

-----------------------------------------------------------------------------

Search(c) == Capture(c) \/ Warm(c) \/ Cold(c) \/ ServePeer(c)

Build(c) ==
    \/ TakeLock(c) \/ FoundCurrent(c) \/ Decide(c)
    \/ BuildDelta(c) \/ BuildFull(c) \/ BuildNothing(c)
    \/ DiscardBuild(c) \/ PrepareNothing(c) \/ PrepareDelta(c) \/ PrepareStage(c) \/ ReadStage(c)

Publish(c) ==
    \/ PublishUncommitted(c) \/ BeginSwap(c) \/ EndSwap(c)
    \/ RecordCommitted(c) \/ RecordBlobs(c)
    \/ Clean(c) \/ KeepUncommitted(c) \/ PublishStage(c)
    \/ RefreshEntries(c) \/ ReadDelta(c) \/ WriteDelta(c) \/ FallBack(c) \/ ReadFallBack(c)
    \/ Record(c) \/ WriteState(c) \/ WriteHead(c)

Step(c) == Search(c) \/ Build(c) \/ Publish(c)

Fail(c) ==
    FailBuild(c) \/ StageOutOfFiles(c) \/ CancelBuild(c) \/ FailUncommitted(c) \/ Crash(c)

Repository ==
    \/ \E f \in Files : Edit(f) \/ Restore(f)
    \/ \E h \in Heads : MoveHead(h)
    \/ \E b \in Blobs : Arrive(b)

Next == Repository \/ (\E c \in Commands : Step(c) \/ Fail(c)) \/ Damage

\* Searches come again and again, and each one that runs goes on.
Spec == Init /\ [][Next]_vars /\ \A c \in Commands : WF_vars(Step(c))

-----------------------------------------------------------------------------
(* Properties.                                                             *)

RepoState == [head |-> head, files |-> [f \in Files |-> IF f \in dirty THEN work[f] ELSE 0]]

\* The index holds HEAD and the dirty files, and nothing else.
Describes ==
    /\ committed.docs = BlobsOf(head)
    /\ \A f \in Files \ reborn :
          uncommitted.docs[f] = IF f \in dirty THEN DocNow(f) ELSE 0

Settled == ~marker /\ late = {} /\ \A c \in Commands : pc[c] \notin Publishing

\* What a search that builds nothing tells: the index, or that the node is empty.
ToldEmpty == empty = state /\ ~IsComplete(head) /\ ~ClearDue(head)
Empty     == BlobsOf(head) = {} /\ \A f \in dirty : DocNow(f) = 0

\* indexer.go, buildLocked: the shards, the manifest and the state describe the
\* same generation.  Whatever stopped builds, lost or pending manifests, kept
\* files, deltas, moves of HEAD and repairs came before, an index that the next
\* search takes as current without a build holds the repository as it is.
StateTellsIndex ==
    Settled /\ state = RepoState =>
        (IsComplete(head) => Describes) /\ (ToldEmpty => Empty)

\* git_missing_blobs.go: a file indexed by name only is never without a record
\* that names its blob, and once the blob is there the record asks for a check:
\* a blob that arrives during a build is not lost.
MissingIsTold ==
    ~missing.damaged =>
        /\ committed.named \subseteq missing.blobs
        /\ Settled /\ committed.named \cap here # {} => MissingDue

\* Once the repository rests, its index comes to hold it, blobs that arrived
\* included, and stays so.
Converges ==
    <>[](late # {} \/ (/\ ~marker /\ state = RepoState
                       /\ \/ IsComplete(head) /\ Describes
                          \/ ToldEmpty /\ Empty
                       /\ committed.named \cap here = {}))
=============================================================================
