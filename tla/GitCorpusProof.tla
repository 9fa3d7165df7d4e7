---------------------------- MODULE GitCorpusProof ----------------------------
(***************************************************************************)
(* Theorems about GitCorpus, for any number of files, blobs, commits,      *)
(* searches, moves and faults:                                             *)
(*   TypeCorrect   the types, with the one holder of .build.lock;          *)
(*   MissingTold   a document indexed by name only is in a record, which   *)
(*                 asks for a check when its blob has come;                *)
(*   StateTold     an index that a search takes as current holds the       *)
(*                 repository as it is.                                    *)
(* A build is told by the holder of the lock (Stage, Wanted, job), so each *)
(* part of the invariant relates that one build to the files on disk.      *)
(* Whatever a .state or a manifest tells of a file is about the version    *)
(* that it names (Told, Tells): a later version, which the next edit       *)
(* makes, leaves it true.                                                  *)
(***************************************************************************)
EXTENDS GitCorpus, TLAPS

(* The build that holds .build.lock, and the state that it captured.       *)
Stage  == IF builder = NoOne THEN "none" ELSE pc[builder]
Wanted == IF builder = NoOne THEN Idle ELSE want[builder]

(* What documents docs tell of the files of a state, while the work tree   *)
(* has the versions vs: a clean file has none, and a dirty file that did   *)
(* not change since has its own.                                           *)
DocOf(vs, f) == IF vs[f] \in Removals THEN 0 ELSE vs[f]

Told1(files, docs, vs, f) ==
    /\ files[f] = 0 => docs[f] = 0
    /\ files[f] # 0 /\ vs[f] = files[f] => docs[f] = DocOf(vs, f)

Told(files, docs, vs, born) == \A f \in Files \ born : Told1(files, docs, vs, f)

(* The same for the stats of a manifest, which tell a removed file as none.*)
Tells1(stats, docs, vs, f) ==
    /\ stats[f] = 0 => docs[f] = 0
    /\ stats[f] = vs[f] => docs[f] = vs[f] /\ vs[f] \notin Removals

Tells(stats, docs, vs, born) == \A f \in Files \ born : Tells1(stats, docs, vs, f)

-----------------------------------------------------------------------------
(* The invariant.                                                          *)

(* A family is torn only while .swapping stands.                           *)
MarkerInv ==
    /\ committed.torn => marker
    /\ Stage \in Locked \ {"swap"} => ~marker
    /\ Stage = "swap" => marker /\ ~committed.torn

(* A family and a manifest of it have the documents of their commit.       *)
Whole(family) ==
    /\ family.docs = BlobsOf(family.head)
    /\ family.named \subseteq family.docs
    /\ family.docs = {} => family.head = NoHead

CommInv ==
    /\ Whole(committed)
    /\ \/ manifest = NoManifest
       \/ Whole(manifest.committed) /\ ~manifest.committed.torn /\ ~manifest.uncommitted.torn

(* The record names what is indexed by name, and its store lacked that.    *)
MissInv ==
    IF missing.damaged THEN missing.store = Unknown
    ELSE /\ committed.named \subseteq missing.blobs
         /\ missing.store # Unknown =>
               missing.store \subseteq here /\ committed.named \cap missing.store = {}

(* What the build knows of the blobs that it could not read.               *)
LostInv ==
    /\ Stage \in {"none", "recheck"} => job = NoJob
    /\ Stage \notin {"none", "recheck"} => job.store \subseteq here
    /\ Stage = "build" /\ ~job.arrival =>
          committed.named \subseteq job.carry /\ committed.named \cap job.store = {}
    /\ Stage = "build" => job.next = NoCommitted
    /\ job.next.named \subseteq job.missing /\ job.next.named \cap job.store = {}
    /\ ~job.committed => job.next = NoCommitted
    /\ Stage = "swap" /\ job.committed /\ ~missing.damaged =>
          job.missing \subseteq missing.blobs /\ missing.store = Unknown
    /\ Stage \in {"recordCommitted", "recordBlobs"} => committed.named = job.next.named

(* What it knows of the committed family.                                  *)
Swapped == Publishing \ {"swap"}

JobHead ==
    LET h == Wanted.head IN
    /\ job.committed => h # NoHead
    /\ job.clear => h = NoHead
    /\ Stage \notin {"none", "recheck"} /\ ~job.committed /\ ~job.clear =>
          IF HasCommitted THEN committed.head = h
          ELSE h \in {headFile, NoHead} /\ ("head" \in late \/ BlobsOf(h) = {})
    /\ Stage \in {"prepare", "stage", "publish", "swap", "recordCommitted"} =>
          /\ job.committed => job.next.docs = BlobsOf(h) /\ Whole(job.next) /\ ~job.next.torn
          /\ ~job.committed => job.next = NoCommitted
    /\ Stage = "swap" => job.committed \/ job.clear
    /\ job.published <=> Stage \in Swapped /\ (job.committed \/ job.clear)
    /\ Stage \in {"recordCommitted", "recordBlobs"} => job.published
    /\ job.published => committed.docs = BlobsOf(h)
    /\ job.published /\ Stage # "recordCommitted" => manifest.committed = committed
    /\ Stage \in {"state", "head"} => manifest.committed = committed
    /\ Stage = "head" => empty = NoState \/ (empty = Wanted /\ ~HasCommitted)

(* The steps at which .head need not tell an emptied committed family.     *)
HeadWindow ==
    Stage \in IF job.published THEN Swapped \ {"recordCommitted"} ELSE {"state", "head"}

HeadInv ==
    "head" \notin late =>
       /\ manifest.committed = NoCommitted => BlobsOf(headFile) = {} \/ HeadWindow
       /\ empty # NoState => BlobsOf(empty.head) = {}

(* The files of an empty index are removed ones.                           *)
EmptyInv ==
    empty # NoState =>
        \A f \in Files : empty.files[f] # 0 /\ work[f] = empty.files[f] => work[f] \in Removals

(* No version is from the future.                                          *)
Past(versions) == \A f \in Files : versions[f] <= work[f] \/ versions[f] >= NameOnly

PastInv ==
    /\ \A c \in Commands : Past(want[c].files)
    /\ Past(state.files) /\ Past(empty.files) /\ Past(entries.entries) /\ Past(job.entries)

LateClean == late \cap {"state", "delta"} = {}

(* A manifest that was written tells the family, but after a delta from a  *)
(* stale one, until a full build has written the family again.             *)
Renews == Stage \in {"record", "state"} /\ job.mode \in {"none", "stage"}

EntriesInv ==
    ~stale /\ entries # NoEntries /\ ~uncommitted.torn /\ ("delta" \notin late \/ Renews) =>
        Tells(entries.entries, uncommitted.docs, work, reborn)

(* .state tells the uncommitted family that .family-v1 names, or that      *)
(* names none while there is one or while the build is to name its own.    *)
Unnamed ==
    /\ ~job.intact
    /\ Stage = "record" \/ (job.published /\ Stage \in {"recordBlobs", "uncommitted"})

StateInv ==
    state # NoState /\ LateClean /\ manifest # NoManifest /\ Stage # "state" =>
        \/ Told(state.files, manifest.uncommitted.docs, work, reborn)
        \/ manifest.uncommitted = NoUncommitted /\ (uncommitted # NoUncommitted \/ Unnamed)

(* What the build knows of the uncommitted family.                         *)
Before == (Locked \ {"record", "state", "head"})

ModeInv ==
    /\ Stage \in {"recheck", "build", "prepare"} => job.mode = "none"
    /\ Stage \in {"stage", "fallback"} => job.mode = "stage"
    /\ Stage = "delta" => job.mode = "delta"
    /\ Stage \notin {"none", "recheck", "build", "prepare"} => (job.mode = "none" <=> ~IsDirty(Wanted))
    /\ \/ job.mode \in {"none", "fds"} \/ Stage \in {"stage", "fallback"}
       \/ job.mode = "delta" /\ Stage \in {"publish", "swap", "recordCommitted", "recordBlobs", "uncommitted"}
       => job.docs = NoDocs

(* A family that was whole when the build began is so until it changes it. *)
Untouched == Stage \in Before \ {"fallback"} /\ ~(Stage = "uncommitted" /\ job.mode = "stage")

WholeInv ==
    /\ job.intact /\ Untouched =>
          /\ ~uncommitted.torn
          /\ state # NoState /\ LateClean => Told(state.files, uncommitted.docs, work, reborn)
    /\ job.intact /\ Stage \in Before \cup {"record"} /\ state # NoState /\ LateClean /\ manifest # NoManifest
          => Told(state.files, manifest.uncommitted.docs, work, reborn)
    /\ Stage = "record" /\ (job.mode # "fds" \/ job.intact) => ~uncommitted.torn
    /\ job.mode = "delta" /\ Stage \in Before =>
          /\ job.intact /\ entries # NoEntries /\ uncommitted.shards
          /\ "delta" \in late \/ ~stale
    /\ job.mode = "delta" /\ Stage \in {"record", "state"} => uncommitted.shards
    /\ Stage = "state" /\ job.mode # "fds" => manifest.uncommitted = uncommitted

(* The stats that the build has taken, and the documents that it has read. *)
StatsInv ==
    job.mode \in {"stage", "delta"} /\ Stage \in Before => \A f \in Files :
        /\ Wanted.files[f] = 0 => job.entries[f] = 0
        /\ Wanted.files[f] # 0 /\ Wanted.files[f] = work[f] /\ ~Kept => job.entries[f] = DocOf(work, f)
        /\ job.entries[f] = work[f] => work[f] \notin Removals

Reading == {"stage", "fallback"}

DocsInv ==
    /\ job.mode = "stage" /\ Stage \in Before \ Reading =>
          /\ Tells(job.entries, job.docs, work, reborn)
          /\ ~Kept => \A f \in Files : Told1(Wanted.files, job.docs, work, f)
    /\ Stage = "delta" => \A f \in Changed \ reborn :
          /\ Tells1(job.entries, job.docs, work, f)
          /\ ~Kept => Told1(Wanted.files, job.docs, work, f)

(* The family that it has written tells the state that it will record.     *)
WrittenInv ==
    Stage \in {"record", "state"} /\ job.mode # "fds" /\ ~Kept =>
        /\ "delta" \notin late \/ job.mode # "delta" =>
              Told(Wanted.files, uncommitted.docs, work, reborn)
        /\ ~uncommitted.shards => \A f \in Files :
              Wanted.files[f] # 0 /\ Wanted.files[f] = work[f] => DocOf(work, f) = 0

BlobInv  == TypeOK /\ MissInv /\ LostInv
JobInv   == JobHead /\ ModeInv /\ WholeInv /\ StatsInv /\ DocsInv /\ WrittenInv
TellsInv == MarkerInv /\ CommInv /\ HeadInv /\ EmptyInv /\ PastInv /\ EntriesInv /\ StateInv /\ JobInv
Inv      == BlobInv /\ TellsInv

-----------------------------------------------------------------------------
(* What the steps change.                                                  *)

(* The types, in parts.                                                    *)
Free == {"start", "check", "lock"}

PlaceTyped ==
    /\ builder \in Commands \cup {NoOne}
    /\ pc \in [Commands -> Free \cup Locked]
    /\ \A c \in Commands : pc[c] \in Locked <=> builder = c

RepoTyped ==
    /\ head \in Heads /\ work \in [Files -> 1..MaxVersion] /\ dirty \subseteq Files
    /\ here \subseteq Blobs /\ moves \in 0..MaxMoves

FilesTyped ==
    /\ state \in RepoStates \cup {NoState} /\ empty \in RepoStates \cup {NoState}
    /\ headFile \in Heads

FamilyTyped ==
    /\ committed \in CommittedFamilies /\ uncommitted \in UncommittedFamilies
    /\ manifest \in Manifests /\ marker \in BOOLEAN

RecordTyped ==
    /\ gitState \in Heads /\ missing \in Records
    /\ entries \in UncommittedManifests \cup {NoEntries}

WantTyped == want \in [Commands -> RepoStates]

HistTyped ==
    /\ faults \in 0..MaxFaults /\ late \subseteq {"state", "head", "delta"}
    /\ stale \in BOOLEAN /\ reborn \subseteq Files

JobTyped == job \in Jobs

\* The eight parts are the type invariant.
LEMMA TypeParts ==
    TypeOK <=> /\ PlaceTyped /\ RepoTyped /\ FilesTyped /\ FamilyTyped /\ RecordTyped
               /\ WantTyped /\ HistTyped /\ JobTyped
<1>1. {state, empty} \subseteq RepoStates \cup {NoState}
        <=> state \in RepoStates \cup {NoState} /\ empty \in RepoStates \cup {NoState}
  OBVIOUS
<1> QED
  BY <1>1 DEF TypeOK, PlaceTyped, RepoTyped, FilesTyped, FamilyTyped, RecordTyped, WantTyped,
     HistTyped, JobTyped, Free

\* What the constants are.
LEMMA Constants ==
    /\ NoOne \notin Commands /\ Files # {} /\ Blobs # {} /\ Unknown \notin SUBSET Blobs
    /\ MaxVersion \in Nat \ {0} /\ Removals \subseteq 2..MaxVersion /\ NameOnly = MaxVersion + 1
    /\ \A h \in Heads : BlobsOf(h) \in SUBSET Blobs
    /\ NoHead \in Heads /\ 1 \in Heads /\ BlobsOf(NoHead) = {}
    /\ MaxMoves \in Nat /\ MaxFaults \in Nat
<1>1. Unknown \notin SUBSET Blobs
  BY ConstantsAssumption DEF Unknown
<1>2. \A h \in Heads : BlobsOf(h) \in SUBSET Blobs
  BY ConstantsAssumption DEF Heads, BlobsOf, Commits
<1>3. NoHead \in Heads /\ 1 \in Heads /\ BlobsOf(NoHead) = {}
  BY ConstantsAssumption DEF Heads, BlobsOf
<1> QED
  BY <1>1, <1>2, <1>3, ConstantsAssumption DEF NameOnly

\* What the code starts from, and goes back to, has its type.
LEMMA Starts ==
    /\ NoDocs \in [Files -> 0..MaxVersion] /\ NoDocs \in [Files -> 0..NameOnly]
    /\ Idle \in RepoStates /\ NoState \notin RepoStates
    /\ NoCommitted \in CommittedFamilies /\ NoUncommitted \in UncommittedFamilies
    /\ NoManifest \in Manifests /\ NoRecord \in Records /\ NoJob \in Jobs
<1>. USE Constants
<1>1. NoDocs \in [Files -> 0..MaxVersion] /\ NoDocs \in [Files -> 0..NameOnly]
  BY DEF NoDocs
<1>2. Idle \in RepoStates
  BY <1>1 DEF Idle, RepoStates
<1>3. NoState \notin RepoStates
  BY DEF NoState, RepoStates
<1>4. NoCommitted \in CommittedFamilies /\ NoUncommitted \in UncommittedFamilies
  BY <1>1 DEF NoCommitted, CommittedFamilies, NoUncommitted, UncommittedFamilies
<1>5. NoManifest \in Manifests
  <2>1. [NoCommitted EXCEPT !.named = Blobs] \in CommittedFamilies
    BY <1>4 DEF CommittedFamilies
  <2> QED
    BY <1>4, <2>1 DEF NoManifest, Manifests
<1>6. NoRecord \in Records
  BY DEF NoRecord, Records, Stores
<1>7. NoJob \in Jobs
  BY <1>1, <1>4 DEF NoJob, Jobs, Stores
<1> QED
  BY <1>1, <1>2, <1>3, <1>4, <1>5, <1>6, <1>7

(* The steps of a build that change no file: it decides, builds in its own *)
(* directories and reads.                                                  *)
Thinks(c) ==
    \/ BuildDelta(c) \/ BuildFull(c) \/ BuildNothing(c)
    \/ PrepareNothing(c) \/ PrepareDelta(c) \/ PrepareStage(c) \/ ReadStage(c)
    \/ StageOutOfFiles(c) \/ PublishUncommitted(c) \/ KeepUncommitted(c)
    \/ ReadDelta(c) \/ ReadFallBack(c)

(* Those that change files, or fail to.                                    *)
Writes(c) ==
    \/ Decide(c) \/ BeginSwap(c) \/ EndSwap(c) \/ RecordCommitted(c) \/ RecordBlobs(c)
    \/ Clean(c) \/ PublishStage(c) \/ RefreshEntries(c) \/ WriteDelta(c) \/ FallBack(c)
    \/ Record(c) \/ WriteState(c)

(* Those that only end a build.                                            *)
Leaves(c) ==
    \/ FoundCurrent(c) \/ DiscardBuild(c) \/ FailBuild(c) \/ CancelBuild(c)
    \/ FailUncommitted(c) \/ WriteHead(c)
    \/ pc[c] \in Locked /\ Crash(c)

Works(c) == (Thinks(c) \/ Writes(c)) /\ builder' = c
Ends(c)  == (Writes(c) \/ Leaves(c)) /\ builder' = NoOne
Rests(c) == Search(c) \/ (pc[c] \in Free /\ Crash(c))

\* A build that goes on keeps the lock and its capture.
LEMMA Goes ==
    ASSUME TypeOK, NEW c \in Commands, pc[c] \in Locked, NEW step, Running(c, step)
    PROVE  /\ builder = c /\ builder' = c /\ want' = want
           /\ Stage = pc[c] /\ Stage' = step /\ Wanted = want[c] /\ Wanted' = Wanted
<1>1. builder = c /\ builder' = c /\ want' = want /\ pc'[c] = step /\ c # NoOne
  BY Constants DEF TypeOK, Running, Goto
<1> QED
  BY <1>1 DEF Stage, Wanted

\* A build that ends lets go of the lock.
LEMMA Drops ==
    ASSUME TypeOK, NEW c \in Commands, pc[c] \in Locked, Done(c)
    PROVE  /\ builder = c /\ builder' = NoOne /\ builder' # c /\ job' = NoJob
           /\ want' = [want EXCEPT ![c] = Idle]
           /\ Stage = pc[c] /\ Stage' = "none" /\ Wanted = want[c] /\ Wanted' = Idle
<1>1. builder = c /\ c # NoOne
  BY Constants DEF TypeOK
<1>2. builder' = NoOne /\ job' = NoJob /\ want' = [want EXCEPT ![c] = Idle]
  BY <1>1 DEF Done
<1> QED
  BY <1>1, <1>2 DEF Stage, Wanted

\* A build is at a step of the lock.
LEMMA Held ==
    ASSUME TypeOK, NEW c \in Commands
    PROVE  /\ Thinks(c) \/ Writes(c) \/ Leaves(c) => pc[c] \in Locked
           /\ pc[c] \in Locked => Stage = pc[c] /\ Stage \in Locked /\ Wanted = want[c] /\ builder = c
           /\ Stage \in Locked <=> builder # NoOne
           /\ Stage \in Locked \cup {"none"} /\ Stage # "none" => Stage \in Locked
           /\ builder = NoOne => Stage = "none"
           /\ "none" \notin Locked
<1>1. Thinks(c) => pc[c] \in Locked
  BY DEF Thinks, BuildDelta, BuildFull, BuildNothing, Validated, PrepareNothing, PrepareDelta,
     PrepareStage, ReadStage, StageOutOfFiles, PublishUncommitted, KeepUncommitted, ReadDelta,
     ReadFallBack, Locked, Publishing
<1>2. Writes(c) => pc[c] \in Locked
  BY DEF Writes, Decide, BeginSwap, EndSwap, RecordCommitted, RecordBlobs, Clean, PublishStage,
     RefreshEntries, WriteDelta, FallBack, Record, WriteState, Locked, Publishing
<1>3. Leaves(c) => pc[c] \in Locked
  BY DEF Leaves, FoundCurrent, DiscardBuild, FailBuild, CancelBuild, FailUncommitted, WriteHead,
     Locked, Publishing
<1>4. "none" \notin Locked
  BY DEF Locked, Publishing
<1>5. pc[c] \in Locked => builder = c
  BY DEF TypeOK
<1>6. builder # NoOne => pc[builder] \in Locked
  BY DEF TypeOK
<1> QED
  BY <1>1, <1>2, <1>3, <1>4, <1>5, <1>6, Constants DEF Stage, Wanted

\* A step that thinks keeps the lock, and one that ends a build drops it.
LEMMA Splits ==
    ASSUME TypeOK, NEW c \in Commands
    PROVE  /\ Thinks(c) => builder' = c
           /\ Writes(c) => builder' = c \/ builder' = NoOne
           /\ Leaves(c) => builder' = NoOne
<1>1. ASSUME Thinks(c) PROVE \E step : Running(c, step)
  BY <1>1 DEF Thinks, BuildDelta, BuildFull, BuildNothing, PrepareNothing, PrepareDelta,
     PrepareStage, ReadStage, StageOutOfFiles, PublishUncommitted, KeepUncommitted, ReadDelta,
     ReadFallBack
<1>2. ASSUME Writes(c) PROVE Done(c) \/ \E step : Running(c, step)
  BY <1>2 DEF Writes, Decide, BeginSwap, EndSwap, RecordCommitted, RecordBlobs, Clean,
     PublishStage, RefreshEntries, WriteDelta, FallBack, Record, WriteState, FailPublish
<1>3. ASSUME Leaves(c) PROVE Done(c)
  BY <1>3 DEF Leaves, FoundCurrent, DiscardBuild, FailBuild, CancelBuild, FailUncommitted,
     WriteHead, Crash, FailPublish
<1> QED
  BY <1>1, <1>2, <1>3, Held, Goes, Drops

\* Every step is one of these.
LEMMA Steps ==
    ASSUME TypeOK, [Next]_vars
    PROVE  \/ UNCHANGED vars
           \/ Repository
           \/ Damage
           \/ \E c \in Commands : Rests(c) \/ TakeLock(c) \/ Works(c) \/ Ends(c)
<1>1. ASSUME NEW c \in Commands, Step(c) \/ Fail(c)
      PROVE  Search(c) \/ TakeLock(c) \/ Thinks(c) \/ Writes(c) \/ Leaves(c) \/ Crash(c)
  BY <1>1 DEF Step, Build, Publish, Fail, Thinks, Writes, Leaves
<1>2. ASSUME NEW c \in Commands, Crash(c)
      PROVE  Rests(c) \/ Leaves(c)
  BY <1>2 DEF Rests, Leaves, TypeOK, Free
<1>3. ASSUME NEW c \in Commands, Step(c) \/ Fail(c)
      PROVE  Rests(c) \/ TakeLock(c) \/ Works(c) \/ Ends(c)
  BY <1>1, <1>2, <1>3, Splits DEF Rests, Works, Ends
<1> QED
  BY <1>3 DEF Next

\* A search outside the lock changes only its own place.
LEMMA RestFrame ==
    ASSUME TypeOK, NEW c \in Commands, Rests(c)
    PROVE  /\ UNCHANGED <<repoVars, diskVars, builder, job, histVars>>
           /\ pc[c] \in Free /\ (\E step \in Free : Goto(c, step))
           /\ \E s \in {Idle, Captured(c), RepoState} : want' = [want EXCEPT ![c] = s]
           /\ Stage' = Stage /\ Wanted' = Wanted
<1>1. pc[c] \in Free
  BY DEF Rests, Search, Capture, Warm, Cold, ServePeer, Free
<1>2. builder # c
  BY <1>1 DEF TypeOK, Free, Locked, Publishing
<1>3. /\ UNCHANGED <<repoVars, diskVars, builder, job, histVars>>
      /\ \E step \in Free : Goto(c, step)
      /\ \E s \in {Idle, Captured(c), RepoState} : want' = [want EXCEPT ![c] = s]
  <2>1. CASE Capture(c)
    BY <2>1 DEF Capture, RepoState, Free
  <2>2. CASE Cold(c)
    BY <2>2 DEF Cold, Free
  <2>3. CASE Warm(c) \/ ServePeer(c)
    BY <1>2, <2>3 DEF Warm, ServePeer, Done, Free
  <2>4. CASE Crash(c)
    <3>1. LeftBehind(c) = {}
      BY <1>1 DEF LeftBehind, Free, Publishing
    <3>2. committed' = committed /\ uncommitted' = uncommitted
      BY <1>1, <2>4 DEF Crash, Free
    <3> QED
      BY <1>2, <2>4, <3>1, <3>2 DEF Crash, Done, Free, diskVars, families, histVars
  <2> QED
    BY <2>1, <2>2, <2>3, <2>4 DEF Rests, Search
<1>4. builder # NoOne => pc'[builder] = pc[builder] /\ want'[builder] = want[builder]
  BY <1>2, <1>3 DEF Goto, TypeOK
<1> QED
  BY <1>1, <1>3, <1>4 DEF Stage, Wanted

\* The repository leaves the index alone; versions and the store grow.
LEMMA RepoFrame ==
    ASSUME TypeOK, Repository
    PROVE  /\ UNCHANGED <<diskVars, builder, pc, want, job, faults, histVars>>
           /\ here \subseteq here' /\ Stage' = Stage /\ Wanted' = Wanted
           /\ \A f \in Files : work'[f] = work[f] \/ work'[f] = work[f] + 1
<1>1. UNCHANGED <<diskVars, builder, pc, want, job, faults, histVars>>
  BY DEF Repository, Edit, Restore, MoveHead, Arrive, Moves
<1>2. here \subseteq here'
  BY DEF Repository, Edit, Restore, MoveHead, Arrive
<1>3. \A f \in Files : work'[f] = work[f] \/ work'[f] = work[f] + 1
  BY DEF Repository, Edit, Restore, MoveHead, Arrive, TypeOK
<1> QED
  BY <1>1, <1>2, <1>3 DEF Stage, Wanted

\* Damage is outside of a publish.
LEMMA DamageFrame ==
    ASSUME TypeOK, Damage
    PROVE  /\ UNCHANGED <<repoVars, stateFiles, families, gitState, entries, builder, pc, want, job, histVars>>
           /\ Stage' = Stage /\ Wanted' = Wanted /\ Stage \notin Publishing
           /\ \/ manifest' = NoManifest /\ missing' = missing
              \/ manifest' = manifest /\ missing' = DamagedRecord
<1>1. Stage \notin Publishing
  BY DEF Damage, Stage, TypeOK, Publishing
<1> QED
  BY <1>1 DEF Damage, Stage, Wanted

\* The lock is taken when no build holds it; that ends a swap.
LEMMA TakeFrame ==
    ASSUME TypeOK, NEW c \in Commands, TakeLock(c)
    PROVE  /\ builder = NoOne /\ builder' = c /\ Stage = "none" /\ Stage' = "recheck"
           /\ Wanted' = want[c]
           /\ UNCHANGED <<repoVars, uncommitted, gitState, entries, missing, want, job, faults, histVars>>
           /\ marker' = FALSE /\ pc'[c] = "recheck"
           /\ \/ /\ marker /\ committed' = NoCommitted /\ manifest' = NoManifest
                 /\ state' = NoState /\ empty' = NoState /\ headFile' = NoHead
              \/ ~marker /\ UNCHANGED <<committed, manifest, stateFiles>>
<1>1. builder = NoOne /\ builder' = c /\ pc'[c] = "recheck" /\ want' = want /\ c # NoOne
  BY Constants DEF TakeLock, Goto, TypeOK
<1>2. UNCHANGED <<repoVars, uncommitted, gitState, entries, missing, want, job, faults, histVars>>
  BY DEF TakeLock
<1>3. /\ marker' = FALSE
      /\ \/ /\ marker /\ committed' = NoCommitted /\ manifest' = NoManifest
            /\ state' = NoState /\ empty' = NoState /\ headFile' = NoHead
         \/ ~marker /\ UNCHANGED <<committed, manifest, stateFiles>>
  BY DEF TakeLock, DeleteStateFiles, TypeOK
<1> QED
  BY <1>1, <1>2, <1>3 DEF Stage, Wanted

\* A build that thinks changes no file; its reads may find a file reborn.
LEMMA ThinkFrame ==
    ASSUME TypeOK, NEW c \in Commands, Thinks(c)
    PROVE  /\ UNCHANGED <<repoVars, diskVars, stale>> /\ Wanted' = Wanted /\ want' = want
           /\ builder = c /\ builder' = c
           /\ late' \in {late, late \cup {"delta"}} /\ reborn \subseteq reborn'
<1>1. UNCHANGED <<repoVars, diskVars, stale>> /\ \E step : Running(c, step)
  BY DEF Thinks, BuildDelta, BuildFull, BuildNothing, PrepareNothing, PrepareDelta, PrepareStage,
     ReadStage, StageOutOfFiles, PublishUncommitted, KeepUncommitted, ReadDelta, ReadFallBack,
     histVars
<1>2. late' \in {late, late \cup {"delta"}} /\ reborn \subseteq reborn'
  BY DEF Thinks, BuildDelta, BuildFull, BuildNothing, PrepareNothing, PrepareDelta, PrepareStage,
     ReadStage, StageOutOfFiles, PublishUncommitted, KeepUncommitted, ReadDelta, ReadFallBack,
     histVars, Reads
<1> QED
  BY <1>1, <1>2, Held, Goes

\* A write leaves the repository, the reads and the capture.
LEMMA WriteFrame ==
    ASSUME TypeOK, NEW c \in Commands, Writes(c)
    PROVE  /\ UNCHANGED <<repoVars, reborn>> /\ builder = c
           /\ builder' = c => Wanted' = Wanted /\ want' = want
<1>1. UNCHANGED <<repoVars, reborn>>
  BY DEF Writes, Decide, BeginSwap, EndSwap, RecordCommitted, RecordBlobs, Clean, PublishStage,
     RefreshEntries, WriteDelta, FallBack, Record, WriteState, histVars
<1>2. Done(c) \/ \E step : Running(c, step)
  BY DEF Writes, Decide, BeginSwap, EndSwap, RecordCommitted, RecordBlobs, Clean,
     PublishStage, RefreshEntries, WriteDelta, FallBack, Record, WriteState, FailPublish
<1> QED
  BY <1>1, <1>2, Held, Goes, Drops

-----------------------------------------------------------------------------
(* Types.                                                                  *)

\* The invariant's types hold at first.
LEMMA InitTypes == Init => TypeOK
<1>. SUFFICES ASSUME Init PROVE TypeOK
  OBVIOUS
<1>. USE Constants, Starts DEF Init
<1>1. PlaceTyped
  BY DEF PlaceTyped, Free, Locked, Publishing
<1>2. RepoTyped
  <2>1. head \in Heads /\ dirty \subseteq Files /\ here \subseteq Blobs
    OBVIOUS
  <2>2. work \in [Files -> 1..MaxVersion] /\ moves \in 0..MaxMoves
    OBVIOUS
  <2> QED
    BY <2>1, <2>2 DEF RepoTyped
<1>3. FilesTyped /\ FamilyTyped /\ RecordTyped
  BY DEF FilesTyped, FamilyTyped, RecordTyped
<1>4. WantTyped /\ JobTyped
  BY DEF WantTyped, JobTyped, Idle
<1>5. HistTyped
  <2>1. faults = 0 /\ late = {} /\ stale = FALSE /\ reborn = {}
    OBVIOUS
  <2>2. faults \in 0..MaxFaults
    BY <2>1
  <2> QED
    BY <2>1, <2>2 DEF HistTyped
<1> QED
  BY <1>1, <1>2, <1>3, <1>4, <1>5, TypeParts

\* A fault stays within its bound.
LEMMA FaultTyped ==
    ASSUME TypeOK, NEW kind, Fault(kind)
    PROVE  faults' \in 0..MaxFaults
BY Constants DEF TypeOK, Fault

\* The place of the lock and the steps of its holder go together.
LEMMA PlaceTypedStep ==
    ASSUME TypeOK, [Next]_vars
    PROVE  PlaceTyped'
<1>. USE TypeParts, Constants DEF PlaceTyped
<1>. PlaceTyped
  OBVIOUS
<1>1. Free \cap Locked = {}
  BY DEF Free, Locked, Publishing
<1>2. ASSUME NEW c \in Commands, NEW step \in Locked, Running(c, step), pc[c] \in Locked
      PROVE  PlaceTyped'
  BY <1>1, <1>2 DEF Running, Goto
<1>3. ASSUME NEW c \in Commands, Done(c), pc[c] \in Locked
      PROVE  PlaceTyped'
  BY <1>1, <1>3 DEF Done, Goto, Free
<1>4. ASSUME NEW c \in Commands, Rests(c)
      PROVE  PlaceTyped'
  <2>1. UNCHANGED builder /\ pc[c] \in Free /\ (\E step \in Free : Goto(c, step))
    BY <1>4, RestFrame
  <2> QED
    BY <1>1, <2>1 DEF Goto
<1>5. ASSUME NEW c \in Commands, TakeLock(c)
      PROVE  PlaceTyped'
  <2>1. builder = NoOne /\ builder' = c /\ Goto(c, "recheck") /\ "recheck" \in Locked
    BY <1>5 DEF TakeLock, Locked
  <2> QED
    BY <1>1, <2>1 DEF Goto
<1>6. ASSUME NEW c \in Commands, Thinks(c)
      PROVE  PlaceTyped'
  <2>1. \E step \in Locked : Running(c, step)
    BY <1>6 DEF Thinks, BuildDelta, BuildFull, BuildNothing, PrepareNothing, PrepareDelta,
       PrepareStage, ReadStage, StageOutOfFiles, PublishUncommitted, KeepUncommitted, ReadDelta,
       ReadFallBack, Locked, Publishing
  <2> QED
    BY <1>2, <1>6, <2>1, Held
<1>7. ASSUME NEW c \in Commands, Writes(c)
      PROVE  PlaceTyped'
  <2>1. Done(c) \/ \E step \in Locked : Running(c, step)
    BY <1>7 DEF Writes, Decide, BeginSwap, EndSwap, RecordCommitted, RecordBlobs, Clean,
       PublishStage, RefreshEntries, WriteDelta, FallBack, Record, WriteState, FailPublish,
       Locked, Publishing
  <2> QED
    BY <1>2, <1>3, <1>7, <2>1, Held
<1>8. ASSUME NEW c \in Commands, Leaves(c)
      PROVE  PlaceTyped'
  <2>1. Done(c)
    BY <1>8 DEF Leaves, FoundCurrent, DiscardBuild, FailBuild, CancelBuild, FailUncommitted,
       WriteHead, Crash, FailPublish
  <2> QED
    BY <1>3, <1>8, <2>1, Held
<1>9. ASSUME Damage \/ Repository \/ UNCHANGED vars
      PROVE  PlaceTyped'
  BY <1>9, RepoFrame, DamageFrame DEF vars
<1> QED
  BY <1>4, <1>5, <1>6, <1>7, <1>8, <1>9, Steps DEF Works, Ends

\* The repository stays within its bounds.
LEMMA RepoTypedStep ==
    ASSUME TypeOK, [Next]_vars
    PROVE  RepoTyped'
<1>. USE TypeParts, Constants
<1>. RepoTyped
  OBVIOUS
<1>1. CASE Repository
  <2>1. moves' \in 0..MaxMoves
    BY <1>1 DEF Repository, Edit, Restore, MoveHead, Arrive, Moves, RepoTyped
  <2>2. head' \in Heads /\ dirty' \subseteq Files /\ here' \subseteq Blobs
    BY <1>1 DEF Repository, Edit, Restore, MoveHead, Arrive, RepoTyped
  <2>3. ASSUME NEW f \in Files, work[f] < MaxVersion
        PROVE  [work EXCEPT ![f] = @ + 1] \in [Files -> 1..MaxVersion]
    BY <2>3 DEF RepoTyped
  <2>4. work' \in [Files -> 1..MaxVersion]
    BY <1>1, <2>3 DEF Repository, Edit, Restore, MoveHead, Arrive, RepoTyped
  <2> QED
    BY <2>1, <2>2, <2>4 DEF RepoTyped
<1>2. CASE UNCHANGED repoVars
  BY <1>2 DEF RepoTyped, repoVars
<1>3. Repository \/ UNCHANGED repoVars
  BY Steps, RestFrame, DamageFrame, TakeFrame, ThinkFrame, WriteFrame
     DEF Works, Ends, Leaves, FoundCurrent, DiscardBuild, FailBuild, CancelBuild,
     FailUncommitted, WriteHead, Crash, vars, repoVars
<1> QED
  BY <1>1, <1>2, <1>3

\* So do the faults and the histories.
LEMMA HistTypedStep ==
    ASSUME TypeOK, [Next]_vars
    PROVE  HistTyped'
<1>. USE TypeParts
<1>. HistTyped
  OBVIOUS
<1>1. faults' \in 0..MaxFaults
  <2>1. ASSUME NEW c \in Commands, Rests(c) \/ TakeLock(c)
        PROVE  UNCHANGED faults \/ \E kind : Fault(kind)
    BY <2>1 DEF Rests, Search, Capture, Warm, Cold, ServePeer, Crash, TakeLock
  <2>2. ASSUME NEW c \in Commands, Thinks(c)
        PROVE  UNCHANGED faults \/ \E kind : Fault(kind)
    BY <2>2 DEF Thinks, BuildDelta, BuildFull, BuildNothing, PrepareNothing, PrepareDelta,
       PrepareStage, ReadStage, StageOutOfFiles, PublishUncommitted, KeepUncommitted, ReadDelta,
       ReadFallBack, Reads
  <2>3. ASSUME NEW c \in Commands, Writes(c)
        PROVE  UNCHANGED faults \/ \E kind : Fault(kind)
    BY <2>3 DEF Writes, Decide, BeginSwap, EndSwap, RecordCommitted, RecordBlobs, Clean,
       PublishStage, RefreshEntries, WriteEntries, WriteDelta, FallBack, Record, WriteState,
       FailPublish
  <2>4. ASSUME NEW c \in Commands, Leaves(c)
        PROVE  UNCHANGED faults \/ \E kind : Fault(kind)
    BY <2>4 DEF Leaves, FoundCurrent, DiscardBuild, FailBuild, CancelBuild, FailUncommitted,
       WriteHead, Crash, FailPublish
  <2>5. UNCHANGED faults \/ \E kind : Fault(kind)
    BY <2>1, <2>2, <2>3, <2>4, Steps, RepoFrame DEF Works, Ends, Damage, vars
  <2> QED
    BY <2>5, FaultTyped DEF HistTyped
<1>2. late' \subseteq {"state", "head", "delta"}
  <2>1. ASSUME NEW c \in Commands, Writes(c)
        PROVE  late' \subseteq late
    BY <2>1 DEF Writes, Decide, BeginSwap, EndSwap, RecordCommitted, RecordBlobs, Clean,
       PublishStage, RefreshEntries, WriteDelta, FallBack, Record, WriteState, histVars
  <2>2. ASSUME NEW c \in Commands, Leaves(c)
        PROVE  late' \subseteq late \cup {"state", "head"}
    BY <2>2 DEF Leaves, FoundCurrent, DiscardBuild, FailBuild, CancelBuild, FailUncommitted,
       WriteHead, Crash, LeftBehind, histVars
  <2>3. late' \subseteq late \cup {"state", "head", "delta"}
    BY <2>1, <2>2, Steps, RestFrame, DamageFrame, TakeFrame, ThinkFrame, RepoFrame
       DEF Works, Ends, histVars, vars
  <2> QED
    BY <2>3 DEF HistTyped
<1>3. reborn' \subseteq Files /\ stale' \in BOOLEAN
  <2>1. ASSUME NEW fs, fs \subseteq Files, Reads(fs)
        PROVE  reborn' \subseteq Files
    BY <2>1 DEF Reads, HistTyped
  <2>2. ASSUME NEW c \in Commands, Thinks(c)
        PROVE  reborn' \subseteq Files /\ stale' = stale
    <3>1. ASSUME ReadStage(c) \/ ReadFallBack(c)
          PROVE  reborn' \subseteq Files
      BY <2>1, <3>1 DEF ReadStage, ReadFallBack, Listed
    <3>2. ASSUME ReadDelta(c)
          PROVE  reborn' \subseteq Files
      BY <2>1, <3>2 DEF ReadDelta, Changed
    <3>3. ASSUME Thinks(c), ~ReadStage(c), ~ReadFallBack(c), ~ReadDelta(c)
          PROVE  reborn' = reborn
      BY <3>3 DEF Thinks, BuildDelta, BuildFull, BuildNothing, PrepareNothing, PrepareDelta,
         PrepareStage, StageOutOfFiles, PublishUncommitted, KeepUncommitted, histVars
    <3> QED
      BY <2>2, <3>1, <3>2, <3>3, ThinkFrame DEF HistTyped
  <2>3. ASSUME NEW c \in Commands, Writes(c)
        PROVE  reborn' \subseteq Files /\ stale' \in BOOLEAN
    <3>1. ASSUME WriteEntries(c)
          PROVE  stale' \in BOOLEAN
      BY <3>1 DEF WriteEntries
    <3>2. stale' \in BOOLEAN
      BY <2>3, <3>1 DEF HistTyped, Writes, Decide, BeginSwap, EndSwap, RecordCommitted,
         RecordBlobs, Clean, PublishStage, RefreshEntries, WriteDelta, FallBack, Record,
         WriteState, histVars
    <3> QED
      BY <2>3, <3>2, WriteFrame DEF HistTyped
  <2>4. ASSUME NEW c \in Commands, Leaves(c)
        PROVE  UNCHANGED <<stale, reborn>>
    BY <2>4 DEF Leaves, FoundCurrent, DiscardBuild, FailBuild, CancelBuild, FailUncommitted,
       WriteHead, Crash, histVars
  <2> QED
    BY <2>2, <2>3, <2>4, Steps, RestFrame, DamageFrame, TakeFrame, RepoFrame
       DEF Works, Ends, histVars, vars, HistTyped
<1> QED
  BY <1>1, <1>2, <1>3 DEF HistTyped

\* A capture is a state of the repository.
LEMMA WantTypedStep ==
    ASSUME TypeOK, [Next]_vars
    PROVE  WantTyped'
<1>. USE TypeParts
<1>. WantTyped /\ RepoTyped
  OBVIOUS
<1>1. ASSUME NEW c \in Commands, NEW s \in RepoStates, want' = [want EXCEPT ![c] = s]
      PROVE  WantTyped'
  BY <1>1 DEF WantTyped
<1>2. RepoState \in RepoStates
  <2>1. \A f \in Files : work[f] \in 0..MaxVersion
    BY Constants DEF RepoTyped
  <2>2. [f \in Files |-> IF f \in dirty THEN work[f] ELSE 0] \in [Files -> 0..MaxVersion]
    BY <2>1, Constants
  <2> QED
    BY <2>2 DEF RepoState, RepoStates, RepoTyped
<1>3. ASSUME NEW c \in Commands PROVE Captured(c) \in RepoStates
  <2>1. \A f \in Files : work[f] \in 0..MaxVersion
    BY Constants DEF RepoTyped
  <2>2. StatNow(want[c].files) \in [Files -> 0..MaxVersion]
    BY <2>1, Constants DEF StatNow
  <2> QED
    BY <2>2 DEF Captured, WantTyped, RepoStates
<1>4. ASSUME NEW c \in Commands, Rests(c)
      PROVE  WantTyped'
  BY <1>1, <1>2, <1>3, <1>4, RestFrame, Starts
<1>5. ASSUME NEW c \in Commands, Leaves(c)
      PROVE  WantTyped'
  <2>1. Done(c)
    BY <1>5 DEF Leaves, FoundCurrent, DiscardBuild, FailBuild, CancelBuild, FailUncommitted,
       WriteHead, Crash, FailPublish
  <2> QED
    BY <1>1, <1>5, <2>1, Starts DEF Done
<1>6. ASSUME NEW c \in Commands, Writes(c)
      PROVE  WantTyped'
  <2>1. Done(c) \/ \E step : Running(c, step)
    BY <1>6 DEF Writes, Decide, BeginSwap, EndSwap, RecordCommitted, RecordBlobs, Clean,
       PublishStage, RefreshEntries, WriteDelta, FallBack, Record, WriteState, FailPublish
  <2> QED
    BY <1>1, <2>1, Starts DEF Done, Running, WantTyped
<1>7. ASSUME UNCHANGED want
      PROVE  WantTyped'
  BY <1>7 DEF WantTyped
<1> QED
  BY <1>4, <1>5, <1>6, <1>7, Steps, TakeFrame, RepoFrame, DamageFrame, ThinkFrame
     DEF Works, Ends, vars

\* The files on disk: a build's own values, or what was there.
LEMMA FilesTypedStep ==
    ASSUME TypeOK, [Next]_vars
    PROVE  FilesTyped'
<1>. USE TypeParts
<1>. FilesTyped /\ WantTyped
  OBVIOUS
<1>1. ASSUME UNCHANGED stateFiles \/ DeleteStateFiles
      PROVE  FilesTyped'
  BY <1>1, Constants DEF FilesTyped, stateFiles, DeleteStateFiles
<1>2. ASSUME NEW c \in Commands, WriteState(c)
      PROVE  FilesTyped'
  <2>1. want[c] \in RepoStates
    BY DEF WantTyped
  <2>2. DeleteStateFiles \/ (/\ state' \in {NoState, want[c]} /\ empty' \in {NoState, want[c]}
                             /\ headFile' = headFile)
    BY <1>2 DEF WriteState, FailPublish
  <2> QED
    BY <1>1, <2>1, <2>2 DEF FilesTyped
<1>3. ASSUME NEW c \in Commands, WriteHead(c)
      PROVE  FilesTyped'
  <2>1. want[c].head \in Heads
    BY DEF WantTyped, RepoStates
  <2>2. DeleteStateFiles \/ (headFile' = want[c].head /\ UNCHANGED <<state, empty>>)
    BY <1>3 DEF WriteHead, FailPublish
  <2> QED
    BY <1>1, <2>1, <2>2 DEF FilesTyped
<1>4. ASSUME NEW c \in Commands, Writes(c), ~WriteState(c)
      PROVE  FilesTyped'
  <2>1. UNCHANGED stateFiles \/ DeleteStateFiles
    BY <1>4 DEF Writes, Decide, BeginSwap, EndSwap, RecordCommitted, RecordBlobs, Clean,
       PublishStage, RefreshEntries, WriteDelta, FallBack, Record, FailPublish
  <2> QED
    BY <1>1, <2>1
<1>5. ASSUME NEW c \in Commands, Leaves(c), ~WriteHead(c)
      PROVE  FilesTyped'
  <2>1. UNCHANGED stateFiles \/ DeleteStateFiles
    BY <1>5 DEF Leaves, FoundCurrent, DiscardBuild, FailBuild, CancelBuild, FailUncommitted,
       Crash, diskVars
  <2> QED
    BY <1>1, <2>1
<1>6. ASSUME NEW c \in Commands, TakeLock(c)
      PROVE  FilesTyped'
  BY <1>1, <1>6 DEF TakeLock
<1>7. ASSUME \/ \E c \in Commands : Rests(c) \/ Thinks(c)
             \/ Damage \/ Repository \/ UNCHANGED vars
      PROVE  FilesTyped'
  <2>1. UNCHANGED stateFiles
    BY <1>7, RestFrame, ThinkFrame, RepoFrame DEF diskVars, Damage, vars, stateFiles
  <2> QED
    BY <1>1, <2>1
<1> QED
  BY <1>2, <1>3, <1>4, <1>5, <1>6, <1>7, Steps DEF Works, Ends

\* What a build reads and writes of the files.
LEMMA DocTypes ==
    ASSUME TypeOK
    PROVE  /\ \A f \in Files : DocNow(f) \in 0..NameOnly /\ work[f] \in 1..MaxVersion
           /\ \A c \in Commands : EntriesNow(want[c]) \in [Files -> 0..NameOnly]
           /\ \A c \in Commands : want[c] \in RepoStates /\ want[c].head \in Heads
           /\ uncommitted.docs \in [Files -> 0..NameOnly]
           /\ job.docs \in [Files -> 0..NameOnly] /\ job.entries \in [Files -> 0..NameOnly]
           /\ NameOnly \in 0..NameOnly
<1>1. \A f \in Files : work[f] \in 1..MaxVersion
  BY DEF TypeOK
<1>2. \A f \in Files : DocNow(f) \in 0..NameOnly
  BY <1>1, Constants DEF DocNow
<1>3. \A c \in Commands : EntriesNow(want[c]) \in [Files -> 0..NameOnly]
  BY <1>2, Constants DEF EntriesNow
<1>4. \A c \in Commands : want[c] \in RepoStates /\ want[c].head \in Heads
  BY DEF TypeOK, RepoStates
<1>5. uncommitted.docs \in [Files -> 0..NameOnly]
  BY DEF TypeOK, UncommittedFamilies
<1>6. job.docs \in [Files -> 0..NameOnly] /\ job.entries \in [Files -> 0..NameOnly]
  BY DEF TypeOK, Jobs
<1> QED
  BY <1>1, <1>2, <1>3, <1>4, <1>5, <1>6, Constants

\* A read gives documents and stats of the files.
LEMMA ReadsTyped ==
    ASSUME TypeOK, NEW fs, Reads(fs)
    PROVE  /\ job' \in Jobs
           /\ \E docs, stats \in [Files -> 0..NameOnly] :
                 job' = [job EXCEPT !.docs = docs, !.entries = stats]
<1>. USE DocTypes
<1>1. \E docs, stats \in [Files -> 0..NameOnly] : job' = [job EXCEPT !.docs = docs, !.entries = stats]
  <2>1. CASE job' = [job EXCEPT !.docs = [f \in Files |-> IF f \in fs THEN DocNow(f) ELSE @[f]]]
    <3>1. [f \in Files |-> IF f \in fs THEN DocNow(f) ELSE job.docs[f]] \in [Files -> 0..NameOnly]
      OBVIOUS
    <3>2. job' = [job EXCEPT !.docs = [f \in Files |-> IF f \in fs THEN DocNow(f) ELSE job.docs[f]],
                             !.entries = job.entries]
      BY <2>1 DEF TypeOK, Jobs
    <3> QED
      BY <3>1, <3>2
  <2>2. ASSUME NEW kept,
               job' = [job EXCEPT
                   !.docs = [f \in Files |-> IF f \in kept THEN NameOnly
                                             ELSE IF f \in fs THEN DocNow(f) ELSE @[f]],
                   !.entries = [f \in Files |-> IF f \in kept /\ @[f] # 0 THEN NameOnly ELSE @[f]]]
        PROVE  \E docs, stats \in [Files -> 0..NameOnly] :
                  job' = [job EXCEPT !.docs = docs, !.entries = stats]
    <3>1. [f \in Files |-> IF f \in kept THEN NameOnly
                           ELSE IF f \in fs THEN DocNow(f) ELSE job.docs[f]] \in [Files -> 0..NameOnly]
      OBVIOUS
    <3>2. [f \in Files |-> IF f \in kept /\ job.entries[f] # 0 THEN NameOnly ELSE job.entries[f]]
            \in [Files -> 0..NameOnly]
      OBVIOUS
    <3> QED
      BY <2>2, <3>1, <3>2
  <2> QED
    BY <2>1, <2>2 DEF Reads
<1> QED
  BY ZenonT(60), <1>1 DEF TypeOK, Jobs

\* The build.
LEMMA JobTypedStep ==
    ASSUME TypeOK, [Next]_vars
    PROVE  JobTyped'
<1>. USE TypeParts DEF JobTyped
<1>. JobTyped
  OBVIOUS
<1>1. ASSUME NEW c \in Commands, Decide(c)
      PROVE  JobTyped'
  <2>1. state \in RepoStates \cup {NoState} /\ here \in Stores /\ missing.blobs \in SUBSET Blobs
    BY DEF TypeOK, Stores, Records
  <2>2. FamilyIntact \in BOOLEAN /\ ClearDue(want[c].head) \in BOOLEAN /\ Arrived \in BOOLEAN
    BY DEF FamilyIntact, CommittedIntact, ClearDue, Arrived
  <2>3. (IF Arrived THEN {} ELSE missing.blobs) \in SUBSET Blobs
    BY <2>1
  <2>4. (want[c].head # NoHead /\ (PublishedHead # want[c].head \/ ~CommittedIntact \/ Arrived)) \in BOOLEAN
    OBVIOUS
  <2>5. /\ \A j \in Jobs : \A s \in RepoStates \cup {NoState} : [j EXCEPT !.cached = s] \in Jobs
        /\ \A j \in Jobs : \A st \in Stores : [j EXCEPT !.store = st] \in Jobs
        /\ \A j \in Jobs : \A b \in BOOLEAN : [j EXCEPT !.intact = b] \in Jobs
        /\ \A j \in Jobs : \A b \in BOOLEAN : [j EXCEPT !.committed = b] \in Jobs
        /\ \A j \in Jobs : \A b \in BOOLEAN : [j EXCEPT !.clear = b] \in Jobs
        /\ \A j \in Jobs : \A b \in BOOLEAN : [j EXCEPT !.arrival = b] \in Jobs
        /\ \A j \in Jobs : \A bs \in SUBSET Blobs : [j EXCEPT !.carry = bs] \in Jobs
    BY DEF Jobs
  <2>6. [NoJob EXCEPT !.cached = state, !.store = here, !.intact = FamilyIntact] \in Jobs
    BY <2>1, <2>2, <2>5, Starts
  <2>7. [NoJob EXCEPT
           !.cached = state, !.store = here, !.intact = FamilyIntact,
           !.committed = want[c].head # NoHead
                         /\ (PublishedHead # want[c].head \/ ~CommittedIntact \/ Arrived),
           !.clear = ClearDue(want[c].head)] \in Jobs
    BY <2>2, <2>4, <2>5, <2>6
  <2> QED
    BY <1>1, <2>2, <2>3, <2>5, <2>7 DEF Decide
<1>2. ASSUME NEW c \in Commands, NEW docs \in SUBSET Blobs, NEW named \in SUBSET Blobs,
             NEW lost \in SUBSET Blobs, Staged(c, docs, named, lost)
      PROVE  JobTyped'
  <2>1. [head |-> want[c].head, docs |-> docs, named |-> named, torn |-> FALSE] \in CommittedFamilies
    BY DocTypes DEF CommittedFamilies
  <2> QED
    BY <1>2, <2>1, Starts DEF Staged, Jobs
<1>3. ASSUME NEW c \in Commands, BuildDelta(c)
      PROVE  JobTyped'
  <2>1. BlobsOf(want[c].head) \in SUBSET Blobs /\ BlobsOf(committed.head) \in SUBSET Blobs
    BY DocTypes, Constants DEF TypeOK, CommittedFamilies
  <2>2. committed.docs \in SUBSET Blobs /\ committed.named \in SUBSET Blobs /\ job.carry \in SUBSET Blobs
    BY DEF TypeOK, CommittedFamilies, Jobs
  <2>. DEFINE old == BlobsOf(committed.head) \ BlobsOf(want[c].head)
              new == BlobsOf(want[c].head) \ BlobsOf(committed.head)
              docs == (committed.docs \ old) \cup new
              named == (committed.named \ old) \cup (new \ here)
              lost == (job.carry \ old) \cup (new \ here)
  <2>3. docs \in SUBSET Blobs /\ named \in SUBSET Blobs /\ lost \in SUBSET Blobs
    BY <2>1, <2>2
  <2>4. Staged(c, docs, named, lost)
    BY <1>3 DEF BuildDelta
  <2>. HIDE DEF docs, named, lost
  <2> QED
    BY <1>2, <2>3, <2>4
<1>4. ASSUME NEW c \in Commands, BuildFull(c)
      PROVE  JobTyped'
  <2>1. BlobsOf(want[c].head) \in SUBSET Blobs
    BY DocTypes, Constants
  <2>. DEFINE all == BlobsOf(want[c].head)
  <2>2. all \in SUBSET Blobs /\ all \ here \in SUBSET Blobs /\ Staged(c, all, all \ here, all \ here)
    BY <1>4, <2>1 DEF BuildFull
  <2>. HIDE DEF all
  <2> QED
    BY <1>2, <2>2
<1>5. ASSUME NEW c \in Commands, PrepareDelta(c) \/ PrepareStage(c)
      PROVE  JobTyped'
  <2>1. EntriesNow(want[c]) \in [Files -> 0..NameOnly]
    BY DocTypes
  <2>2. \E mode \in {"delta", "stage"} : job' = [job EXCEPT !.mode = mode, !.entries = EntriesNow(want[c])]
    BY <1>5 DEF PrepareDelta, PrepareStage
  <2> QED
    BY <2>1, <2>2 DEF Jobs
<1>6. ASSUME NEW c \in Commands, ReadStage(c) \/ ReadFallBack(c) \/ ReadDelta(c)
      PROVE  JobTyped'
  BY <1>6, ReadsTyped DEF ReadStage, ReadFallBack, ReadDelta
<1>7. ASSUME NEW c \in Commands, StageOutOfFiles(c) \/ FallBack(c) \/ EndSwap(c)
      PROVE  JobTyped'
  <2>1. CASE StageOutOfFiles(c)
    BY <2>1 DEF StageOutOfFiles, Jobs
  <2>2. CASE FallBack(c)
    BY <2>2, DocTypes, Starts DEF FallBack, Jobs
  <2>3. CASE EndSwap(c) /\ builder' = c
    <3>1. job' = [job EXCEPT !.published = TRUE]
      BY <2>3, Drops DEF EndSwap, Locked, Publishing
    <3> QED
      BY <3>1 DEF Jobs
  <2>4. CASE EndSwap(c) /\ builder' # c
    <3>1. Done(c)
      BY <2>4, Goes DEF EndSwap, Locked, Publishing
    <3> QED
      BY <3>1, Starts DEF Done
  <2> QED
    BY <1>7, <2>1, <2>2, <2>3, <2>4
<1>8. ASSUME NEW c \in Commands, Writes(c), ~Decide(c), ~FallBack(c), ~EndSwap(c)
      PROVE  JobTyped'
  <2>1. job' = job \/ Done(c)
    BY <1>8 DEF Writes, BeginSwap, RecordCommitted, RecordBlobs, Clean, PublishStage,
       RefreshEntries, WriteDelta, Record, WriteState, FailPublish
  <2> QED
    BY <2>1, Starts DEF Done
<1>9. ASSUME NEW c \in Commands, Leaves(c)
      PROVE  JobTyped'
  <2>1. Done(c)
    BY <1>9 DEF Leaves, FoundCurrent, DiscardBuild, FailBuild, CancelBuild, FailUncommitted,
       WriteHead, Crash, FailPublish
  <2> QED
    BY <2>1, Starts DEF Done
<1>10. ASSUME NEW c \in Commands,
              BuildNothing(c) \/ PrepareNothing(c) \/ PublishUncommitted(c) \/ KeepUncommitted(c)
       PROVE  JobTyped'
  BY <1>10 DEF BuildNothing, PrepareNothing, PublishUncommitted, KeepUncommitted
<1>11. ASSUME UNCHANGED job
       PROVE  JobTyped'
  BY <1>11
<1> QED
  BY <1>1, <1>3, <1>4, <1>5, <1>6, <1>7, <1>8, <1>9, <1>10, <1>11, Steps, RestFrame, TakeFrame,
     RepoFrame, DamageFrame DEF Works, Ends, Thinks, vars

\* The families and their manifest.
LEMMA FamilyTypedStep ==
    ASSUME TypeOK, [Next]_vars
    PROVE  FamilyTyped'
<1>. USE TypeParts
<1>. FamilyTyped
  OBVIOUS
<1>1. Torn(committed) \in CommittedFamilies /\ Torn(uncommitted) \in UncommittedFamilies
  BY DEF FamilyTyped, Torn, CommittedFamilies, UncommittedFamilies
<1>2. job.next \in CommittedFamilies
  BY DEF TypeOK, Jobs
<1>3. \A fam \in UncommittedFamilies : [committed |-> committed, uncommitted |-> fam] \in Manifests
  BY DEF FamilyTyped, Manifests
<1>4. ASSUME NEW c \in Commands, TakeLock(c)
      PROVE  FamilyTyped'
  BY <1>4, TakeFrame, Starts DEF FamilyTyped
<1>5. ASSUME NEW c \in Commands, BeginSwap(c) \/ EndSwap(c)
      PROVE  FamilyTyped'
  <2>1. marker' \in BOOLEAN /\ UNCHANGED <<manifest, uncommitted>>
    BY <1>5 DEF BeginSwap, EndSwap, FamilyTyped, recordVars
  <2>2. committed' \in {committed, job.next, Torn(committed)}
    BY <1>5 DEF BeginSwap, EndSwap
  <2> QED
    BY <1>1, <1>2, <2>1, <2>2 DEF FamilyTyped
<1>6. ASSUME NEW c \in Commands, RecordCommitted(c) \/ Record(c)
      PROVE  FamilyTyped'
  <2>1. UNCHANGED families
    BY <1>6 DEF RecordCommitted, Record
  <2>2. \/ manifest' = manifest
        \/ \E fam \in {uncommitted, NoUncommitted} :
              manifest' = [committed |-> committed, uncommitted |-> fam]
    BY <1>6 DEF RecordCommitted, Record
  <2> QED
    BY <1>3, <2>1, <2>2, Starts DEF FamilyTyped, families
<1>7. ASSUME NEW c \in Commands, Clean(c) \/ PublishStage(c) \/ WriteDelta(c) \/ FallBack(c)
      PROVE  FamilyTyped'
  <2>1. UNCHANGED <<committed, manifest, marker>>
    BY <1>7 DEF Clean, PublishStage, WriteDelta, FallBack, recordVars
  <2>2. [docs |-> job.docs, shards |-> job.docs # NoDocs, torn |-> FALSE] \in UncommittedFamilies
    BY DocTypes DEF UncommittedFamilies
  <2>3. [docs |-> [f \in Files |-> IF f \in Changed THEN job.docs[f] ELSE uncommitted.docs[f]],
         shards |-> TRUE, torn |-> FALSE] \in UncommittedFamilies
    <3>1. [f \in Files |-> IF f \in Changed THEN job.docs[f] ELSE uncommitted.docs[f]]
            \in [Files -> 0..NameOnly]
      BY DocTypes
    <3> QED
      BY <3>1 DEF UncommittedFamilies
  <2>4. uncommitted' \in UncommittedFamilies
    BY <1>1, <1>7, <2>2, <2>3, Starts DEF Clean, PublishStage, WriteDelta, FallBack, FamilyTyped
  <2> QED
    BY <2>1, <2>4 DEF FamilyTyped
<1>8. ASSUME NEW c \in Commands, Decide(c) \/ RecordBlobs(c) \/ RefreshEntries(c) \/ WriteState(c)
      PROVE  FamilyTyped'
  BY <1>8 DEF Decide, RecordBlobs, RefreshEntries, WriteState, families, recordVars, FamilyTyped
<1>9. ASSUME NEW c \in Commands, Leaves(c)
      PROVE  FamilyTyped'
  <2>1. UNCHANGED <<manifest, marker>>
    BY <1>9 DEF Leaves, FoundCurrent, DiscardBuild, FailBuild, CancelBuild, FailUncommitted,
       WriteHead, Crash, diskVars, families, recordVars
  <2>2. committed' \in {committed, Torn(committed)} /\ uncommitted' \in {uncommitted, Torn(uncommitted)}
    BY <1>9 DEF Leaves, FoundCurrent, DiscardBuild, FailBuild, CancelBuild, FailUncommitted,
       WriteHead, Crash, diskVars, families
  <2> QED
    BY <1>1, <2>1, <2>2 DEF FamilyTyped
<1>10. CASE Damage
  BY <1>10, DamageFrame, Starts DEF FamilyTyped, families
<1>11. ASSUME \/ \E c \in Commands : Rests(c) \/ Thinks(c)
              \/ Repository \/ UNCHANGED vars
       PROVE  FamilyTyped'
  BY <1>11, RestFrame, ThinkFrame, RepoFrame DEF FamilyTyped, diskVars, families, recordVars, vars
<1> QED
  BY <1>4, <1>5, <1>6, <1>7, <1>8, <1>9, <1>10, <1>11, Steps DEF Works, Ends, Writes

\* The records beside them.
LEMMA RecordTypedStep ==
    ASSUME TypeOK, [Next]_vars
    PROVE  RecordTyped'
<1>. USE TypeParts
<1>. RecordTyped
  OBVIOUS
<1>1. Pending \in Records
  <2>1. job.missing \in SUBSET Blobs /\ missing.blobs \in SUBSET Blobs
    BY DEF TypeOK, Jobs, Records
  <2> QED
    BY <2>1 DEF Pending, Records, Stores, RecordTyped
<1>2. Exact(job.missing) \in Records
  <2>1. job.missing \in SUBSET Blobs /\ job.store \in Stores
    BY DEF TypeOK, Jobs
  <2> QED
    BY <2>1, Starts DEF Exact, Records
<1>3. [missing EXCEPT !.store = here] \in Records
  BY DEF TypeOK, Records, Stores
<1>4. DamagedRecord \in Records
  BY DEF DamagedRecord, Records, Stores
<1>5. ASSUME NEW c \in Commands, WriteEntries(c)
      PROVE  entries' \in UncommittedManifests \cup {NoEntries}
  <2>1. [state |-> IF Kept THEN NoState ELSE want[c], entries |-> job.entries] \in UncommittedManifests
    BY DocTypes DEF UncommittedManifests
  <2> QED
    BY <1>5, <2>1 DEF WriteEntries, RecordTyped
<1>6. gitState' \in Heads
  <2>1. ASSUME NEW c \in Commands, Writes(c)
        PROVE  gitState' \in {gitState, want[c].head}
    BY <2>1 DEF Writes, Decide, BeginSwap, EndSwap, RecordCommitted, RecordBlobs, Clean,
       PublishStage, RefreshEntries, WriteDelta, FallBack, Record, WriteState, recordVars
  <2>2. ASSUME NEW c \in Commands, Leaves(c)
        PROVE  gitState' = gitState
    BY <2>2 DEF Leaves, FoundCurrent, DiscardBuild, FailBuild, CancelBuild, FailUncommitted,
       WriteHead, Crash, diskVars, recordVars
  <2>3. gitState' = gitState \/ \E c \in Commands : gitState' = want[c].head
    BY <2>1, <2>2, Steps, RestFrame, DamageFrame, TakeFrame, ThinkFrame, RepoFrame
       DEF Works, Ends, diskVars, recordVars, vars
  <2> QED
    BY <2>3, DocTypes DEF RecordTyped
<1>7. entries' \in UncommittedManifests \cup {NoEntries}
  <2>1. ASSUME NEW c \in Commands, Writes(c)
        PROVE  entries' \in UncommittedManifests \cup {NoEntries}
    BY <1>5, <2>1 DEF Writes, Decide, BeginSwap, EndSwap, RecordCommitted, RecordBlobs, Clean,
       PublishStage, RefreshEntries, WriteDelta, FallBack, Record, WriteState, recordVars,
       RecordTyped
  <2>2. ASSUME NEW c \in Commands, Leaves(c)
        PROVE  entries' = entries
    BY <2>2 DEF Leaves, FoundCurrent, DiscardBuild, FailBuild, CancelBuild, FailUncommitted,
       WriteHead, Crash, diskVars, recordVars
  <2> QED
    BY <2>1, <2>2, Steps, RestFrame, DamageFrame, TakeFrame, ThinkFrame, RepoFrame
       DEF Works, Ends, diskVars, recordVars, vars, RecordTyped
<1>8. missing' \in Records
  <2>1. ASSUME NEW c \in Commands, Writes(c)
        PROVE  missing' \in {missing, [missing EXCEPT !.store = here], Pending, Exact(job.missing)}
    BY <2>1 DEF Writes, Decide, RefreshRecord, BeginSwap, EndSwap, RecordCommitted, RecordBlobs,
       Clean, PublishStage, RefreshEntries, WriteDelta, FallBack, Record, WriteState, recordVars
  <2>2. ASSUME NEW c \in Commands, Leaves(c)
        PROVE  missing' \in {missing, [missing EXCEPT !.store = here]}
    BY <2>2 DEF Leaves, FoundCurrent, RefreshRecord, DiscardBuild, FailBuild, CancelBuild,
       FailUncommitted, WriteHead, Crash, diskVars, recordVars
  <2>3. missing' \in {missing, [missing EXCEPT !.store = here], Pending, Exact(job.missing), DamagedRecord}
    BY <2>1, <2>2, Steps, RestFrame, DamageFrame, TakeFrame, ThinkFrame, RepoFrame
       DEF Works, Ends, diskVars, recordVars, vars
  <2> QED
    BY <1>1, <1>2, <1>3, <1>4, <2>3 DEF RecordTyped
<1> QED
  BY <1>6, <1>7, <1>8 DEF RecordTyped

\* Every step keeps the types.
LEMMA TypeStep == TypeOK /\ [Next]_vars => TypeOK'
BY PlaceTypedStep, RepoTypedStep, HistTypedStep, WantTypedStep, FilesTypedStep, JobTypedStep,
   FamilyTypedStep, RecordTypedStep, TypeParts, PTL

\* Every variable of an update stays within its type; pc and builder tell one
\* holder of .build.lock, which alone decides, builds and publishes.
THEOREM TypeCorrect == Spec => []TypeOK
BY InitTypes, TypeStep, PTL DEF Spec

-----------------------------------------------------------------------------
(* What the steps make of the build.                                       *)

\* Empty values.
LEMMA Empties ==
    /\ NoJob.next = NoCommitted /\ NoJob.missing = {} /\ NoJob.store = Unknown /\ NoJob.carry = {}
    /\ NoJob.committed = FALSE /\ NoJob.clear = FALSE /\ NoJob.intact = FALSE
    /\ NoJob.published = FALSE /\ NoJob.mode = "none" /\ NoJob.docs = NoDocs /\ NoJob.entries = NoDocs
    /\ NoCommitted.head = NoHead /\ NoCommitted.docs = {} /\ NoCommitted.named = {}
    /\ NoCommitted.torn = FALSE
    /\ NoUncommitted.docs = NoDocs /\ NoUncommitted.shards = FALSE /\ NoUncommitted.torn = FALSE
    /\ NoRecord.store = Unknown /\ NoRecord.blobs = {} /\ NoRecord.damaged = FALSE
    /\ NoManifest.committed.named = Blobs /\ NoManifest.committed.docs = {}
    /\ NoManifest.uncommitted = NoUncommitted
BY DEF NoJob, NoCommitted, NoUncommitted, NoRecord, NoManifest

\* What a build decides under the lock.
LEMMA Decided ==
    ASSUME TypeOK, NEW c \in Commands, Decide(c)
    PROVE  /\ Stage = "recheck" /\ Stage' = "build"
           /\ job'.next = NoCommitted /\ job'.missing = {} /\ job'.published = FALSE
           /\ job'.mode = "none" /\ job'.docs = NoDocs /\ job'.entries = NoDocs
           /\ job'.cached = state /\ job'.store = here /\ job'.intact = FamilyIntact
           /\ job'.committed = (Wanted.head # NoHead
                                /\ (PublishedHead # Wanted.head \/ ~CommittedIntact \/ Arrived))
           /\ job'.clear = ClearDue(Wanted.head) /\ job'.arrival = Arrived
           /\ job'.carry = IF Arrived THEN {} ELSE missing.blobs
<1>1. Stage = "recheck" /\ Stage' = "build" /\ Wanted = want[c]
  BY Goes DEF Decide, Locked
<1>2. job' = [NoJob EXCEPT
          !.cached = state, !.store = here, !.intact = FamilyIntact,
          !.committed = want[c].head # NoHead
                        /\ (PublishedHead # want[c].head \/ ~CommittedIntact \/ Arrived),
          !.clear = ClearDue(want[c].head),
          !.arrival = Arrived,
          !.carry = IF Arrived THEN {} ELSE missing.blobs]
  BY DEF Decide
<1>3. job' = [committed |-> want[c].head # NoHead
                            /\ (PublishedHead # want[c].head \/ ~CommittedIntact \/ Arrived),
              clear |-> ClearDue(want[c].head), intact |-> FamilyIntact, cached |-> state,
              store |-> here, arrival |-> Arrived, carry |-> IF Arrived THEN {} ELSE missing.blobs,
              next |-> NoCommitted, missing |-> {}, published |-> FALSE,
              mode |-> "none", entries |-> NoDocs, docs |-> NoDocs]
  BY <1>2 DEF NoJob
<1> QED
  BY <1>1, <1>3

\* What a build of the committed family stages.
LEMMA Builds ==
    ASSUME TypeOK, NEW c \in Commands, BuildDelta(c) \/ BuildFull(c)
    PROVE  /\ Stage = "build" /\ Stage' = "prepare" /\ job.committed
           /\ job'.committed = job.committed /\ job'.clear = job.clear /\ job'.intact = job.intact
           /\ job'.cached = job.cached /\ job'.store = job.store /\ job'.published = job.published
           /\ job'.mode = job.mode /\ job'.docs = job.docs /\ job'.entries = job.entries
           /\ \E docs, named, lost :
                 /\ Staged(c, docs, named, lost)
                 /\ job'.missing = lost
                 /\ job'.next = IF docs = {} THEN NoCommitted
                                ELSE [head |-> Wanted.head, docs |-> docs, named |-> named, torn |-> FALSE]
                 /\ \/ /\ docs = BlobsOf(Wanted.head)
                       /\ named = docs \ here /\ lost = docs \ here
                    \/ /\ DeltaEligible(c)
                       /\ LET old == BlobsOf(committed.head) \ BlobsOf(Wanted.head)
                              new == BlobsOf(Wanted.head) \ BlobsOf(committed.head)
                          IN /\ docs = (committed.docs \ old) \cup new
                             /\ named = (committed.named \ old) \cup (new \ here)
                             /\ lost = (job.carry \ old) \cup (new \ here)
<1>1. Stage = "build" /\ Stage' = "prepare" /\ Wanted = want[c] /\ job.committed
  BY Goes DEF BuildDelta, BuildFull, Locked
<1>2. ASSUME NEW docs, NEW named, NEW lost, Staged(c, docs, named, lost)
      PROVE  /\ job'.committed = job.committed /\ job'.clear = job.clear /\ job'.intact = job.intact
             /\ job'.cached = job.cached /\ job'.store = job.store /\ job'.published = job.published
             /\ job'.mode = job.mode /\ job'.docs = job.docs /\ job'.entries = job.entries
             /\ job'.missing = lost
             /\ job'.next = IF docs = {} THEN NoCommitted
                            ELSE [head |-> Wanted.head, docs |-> docs, named |-> named, torn |-> FALSE]
  BY <1>1, <1>2 DEF Staged, TypeOK, Jobs
<1>3. CASE BuildFull(c)
  <2>1. LET all == BlobsOf(want[c].head) IN Staged(c, all, all \ here, all \ here)
    BY <1>3 DEF BuildFull
  <2> QED
    BY <1>1, <1>2, <2>1
<1>4. CASE BuildDelta(c)
  <2>. DEFINE old == BlobsOf(committed.head) \ BlobsOf(Wanted.head)
              new == BlobsOf(Wanted.head) \ BlobsOf(committed.head)
              docs == (committed.docs \ old) \cup new
              named == (committed.named \ old) \cup (new \ here)
              lost == (job.carry \ old) \cup (new \ here)
  <2>1. DeltaEligible(c) /\ Staged(c, docs, named, lost)
    BY <1>1, <1>4 DEF BuildDelta
  <2>2. /\ docs = (committed.docs \ old) \cup new
        /\ named = (committed.named \ old) \cup (new \ here)
        /\ lost = (job.carry \ old) \cup (new \ here)
    OBVIOUS
  <2>. HIDE DEF docs, named, lost
  <2>3. /\ job'.missing = lost
        /\ job'.next = IF docs = {} THEN NoCommitted
                       ELSE [head |-> Wanted.head, docs |-> docs, named |-> named, torn |-> FALSE]
    BY <1>2, <2>1
  <2>4. /\ job'.committed = job.committed /\ job'.clear = job.clear /\ job'.intact = job.intact
        /\ job'.cached = job.cached /\ job'.store = job.store /\ job'.published = job.published
        /\ job'.mode = job.mode /\ job'.docs = job.docs /\ job'.entries = job.entries
    BY <1>2, <2>1
  <2> QED
    BY <1>1, <2>1, <2>2, <2>3, <2>4
<1> QED
  BY <1>3, <1>4

\* Nothing else changes what the build has decided and staged.
LEMMA Keeps ==
    ASSUME TypeOK, NEW c \in Commands, Works(c), ~Decide(c), ~BuildDelta(c), ~BuildFull(c)
    PROVE  /\ job'.committed = job.committed /\ job'.clear = job.clear /\ job'.intact = job.intact
           /\ job'.cached = job.cached /\ job'.store = job.store
           /\ job'.next = job.next /\ job'.missing = job.missing
           /\ ~EndSwap(c) => job'.published = job.published
           /\ EndSwap(c) => /\ job'.published /\ job'.mode = job.mode /\ job'.docs = job.docs
                            /\ job'.entries = job.entries
<1>1. ASSUME ReadStage(c) \/ ReadDelta(c) \/ ReadFallBack(c)
      PROVE  \E docs, stats : job' = [job EXCEPT !.docs = docs, !.entries = stats]
  BY <1>1, ReadsTyped DEF ReadStage, ReadDelta, ReadFallBack
<1>2. ASSUME Writes(c), ~EndSwap(c), ~FallBack(c)
      PROVE  job' = job
  <2>1. job' = job \/ Done(c)
    BY <1>2 DEF Writes, BeginSwap, RecordCommitted, RecordBlobs, Clean, PublishStage,
       RefreshEntries, WriteDelta, Record, WriteState, FailPublish
  <2> QED
    BY <1>2, <2>1, Held, Drops DEF Works
<1>3. ASSUME EndSwap(c)
      PROVE  job' = [job EXCEPT !.published = TRUE]
  BY <1>3, Held, Drops DEF EndSwap, Works, Locked, Publishing
<1>4. ASSUME Thinks(c) \/ FallBack(c)
      PROVE  \/ job' = job
             \/ \E mode : job' = [job EXCEPT !.mode = mode]
             \/ \E mode, docs : job' = [job EXCEPT !.mode = mode, !.entries = docs]
             \/ \E docs, stats : job' = [job EXCEPT !.docs = docs, !.entries = stats]
             \/ \E stats : job' = [job EXCEPT !.mode = "stage", !.entries = stats, !.docs = NoDocs]
  <2>1. CASE FallBack(c)
    BY <2>1 DEF FallBack
  <2>2. CASE Thinks(c)
    BY <1>1, <2>2 DEF Thinks, BuildNothing, PrepareNothing, PrepareDelta, PrepareStage,
       StageOutOfFiles, PublishUncommitted, KeepUncommitted
  <2> QED
    BY <1>4, <2>1, <2>2
<1>5. job \in Jobs
  BY DEF TypeOK
<1>6. CASE EndSwap(c)
  BY <1>3, <1>5, <1>6 DEF Jobs
<1>7. CASE ~EndSwap(c)
  BY <1>2, <1>4, <1>5, <1>7 DEF Jobs, Works
<1> QED
  BY <1>6, <1>7

\* When no build holds the lock there is none.
LEMMA Ended ==
    ASSUME TypeOK, NEW c \in Commands, Ends(c)
    PROVE  /\ Stage = pc[c] /\ Stage \in Locked /\ builder = c /\ Wanted = want[c]
           /\ Stage' = "none" /\ Wanted' = Idle /\ job' = NoJob /\ Done(c)
           /\ want' = [want EXCEPT ![c] = Idle]
           /\ UNCHANGED <<repoVars, reborn>>
<1>1. pc[c] \in Locked
  BY Held DEF Ends
<1>2. Done(c)
  <2>1. Done(c) \/ \E step : Running(c, step)
    BY DEF Ends, Writes, Decide, BeginSwap, EndSwap, RecordCommitted, RecordBlobs, Clean,
       PublishStage, RefreshEntries, WriteDelta, FallBack, Record, WriteState, FailPublish,
       Leaves, FoundCurrent, DiscardBuild, FailBuild, CancelBuild, FailUncommitted,
       WriteHead, Crash
  <2> QED
    BY <1>1, <2>1, Goes, Constants DEF Ends
<1>3. UNCHANGED <<repoVars, reborn>>
  BY WriteFrame DEF Ends, Leaves, FoundCurrent, DiscardBuild, FailBuild, CancelBuild,
     FailUncommitted, WriteHead, Crash, histVars
<1> QED
  BY <1>1, <1>2, <1>3, Held, Drops

-----------------------------------------------------------------------------
(* The record of the missing blobs.                                        *)

\* A record that needs no check has the store of now, or names what is missing.
LEMMA Refreshed ==
    ASSUME TypeOK, MissInv, RefreshRecord
    PROVE  /\ IF missing'.damaged THEN missing'.store = Unknown
              ELSE /\ committed.named \subseteq missing'.blobs
                   /\ missing'.store # Unknown =>
                         missing'.store \subseteq here /\ committed.named \cap missing'.store = {}
           /\ ~Arrived /\ missing.damaged = FALSE => committed.named \cap here = {}
           /\ ~Arrived => missing.damaged = FALSE
<1>. missing \in Records /\ here \subseteq Blobs /\ missing.damaged \in BOOLEAN /\ here # Unknown
  BY Constants DEF TypeOK, Records
<1>1. missing.damaged /\ missing # NoRecord => Arrived
  BY DEF MissInv, Arrived
<1>2. ~Arrived => missing.damaged = FALSE
  BY <1>1, Empties
<1>3. ~Arrived => committed.named \cap here = {}
  <2>1. CASE missing = NoRecord
    BY <2>1, <1>2, Empties DEF MissInv
  <2>2. CASE missing.store = here
    BY <2>2, <1>2 DEF MissInv
  <2>3. CASE missing # NoRecord /\ missing.store # here
    BY <2>3, <1>2 DEF MissInv, Arrived
  <2> QED
    BY <2>1, <2>2, <2>3
<1>4. CASE missing' = missing
  BY <1>2, <1>3, <1>4 DEF MissInv
<1>5. CASE ~Arrived /\ missing' = [missing EXCEPT !.store = here]
  <2>1. missing'.store = here /\ missing'.blobs = missing.blobs /\ missing'.damaged = FALSE
    BY <1>2, <1>5 DEF Records
  <2> QED
    BY <1>2, <1>3, <1>5, <2>1 DEF MissInv
<1> QED
  BY <1>4, <1>5 DEF RefreshRecord

\* What a staged family names is in what the build has missed, and its store
\* did not have it.
LEMMA StagedLost ==
    ASSUME BlobInv, NEW c \in Commands, BuildDelta(c) \/ BuildFull(c)
    PROVE  job'.next.named \subseteq job'.missing /\ job'.next.named \cap job'.store = {}
<1>. TypeOK
  BY DEF BlobInv
<1>1. PICK docs, named, lost :
          /\ Staged(c, docs, named, lost)
          /\ job'.missing = lost
          /\ job'.next = IF docs = {} THEN NoCommitted
                         ELSE [head |-> Wanted.head, docs |-> docs, named |-> named, torn |-> FALSE]
          /\ \/ /\ docs = BlobsOf(Wanted.head)
                /\ named = docs \ here /\ lost = docs \ here
             \/ /\ DeltaEligible(c)
                /\ LET old == BlobsOf(committed.head) \ BlobsOf(Wanted.head)
                       new == BlobsOf(Wanted.head) \ BlobsOf(committed.head)
                   IN /\ docs = (committed.docs \ old) \cup new
                      /\ named = (committed.named \ old) \cup (new \ here)
                      /\ lost = (job.carry \ old) \cup (new \ here)
  BY Builds
<1>2. job'.store = job.store /\ Stage = "build"
  BY Builds
<1>3. job.store \subseteq here
  BY <1>2 DEF BlobInv, LostInv
<1>4. job'.next.named \subseteq named
  <2>1. docs = {} => job'.next.named = {}
    BY <1>1, Empties
  <2>2. docs # {} => job'.next.named = named
    BY <1>1
  <2> QED
    BY <2>1, <2>2
<1>5. CASE named = docs \ here /\ lost = docs \ here
  BY <1>1, <1>2, <1>3, <1>4, <1>5
<1>6. ASSUME DeltaEligible(c),
             named = (committed.named \ (BlobsOf(committed.head) \ BlobsOf(Wanted.head)))
                       \cup ((BlobsOf(Wanted.head) \ BlobsOf(committed.head)) \ here),
             lost = (job.carry \ (BlobsOf(committed.head) \ BlobsOf(Wanted.head)))
                       \cup ((BlobsOf(Wanted.head) \ BlobsOf(committed.head)) \ here)
      PROVE  named \subseteq lost /\ named \cap job.store = {}
  <2>1. committed.named \subseteq job.carry /\ committed.named \cap job.store = {}
    BY <1>2, <1>6 DEF BlobInv, LostInv, DeltaEligible
  <2> QED
    BY <1>3, <1>6, <2>1
<1> QED
  BY <1>1, <1>2, <1>4, <1>5, <1>6

\* The build's own knowledge of it.
LEMMA LostStep == BlobInv /\ [Next]_vars => LostInv'
<1>. SUFFICES ASSUME BlobInv, [Next]_vars PROVE LostInv'
  OBVIOUS
<1>. TypeOK /\ MissInv /\ LostInv
  BY DEF BlobInv
<1>. USE Empties
<1>1. ASSUME UNCHANGED <<Stage, job, committed, missing>>, here \subseteq here'
      PROVE  LostInv'
  BY <1>1 DEF LostInv
<1>2. ASSUME NEW c \in Commands, TakeLock(c)
      PROVE  LostInv'
  BY <1>2, TakeFrame DEF LostInv
<1>3. ASSUME NEW c \in Commands, Ends(c)
      PROVE  LostInv'
  BY <1>3, Ended DEF LostInv
<1>4. ASSUME NEW c \in Commands, Decide(c)
      PROVE  LostInv'
  <2>1. Decide(c) => RefreshRecord /\ UNCHANGED <<committed, here>>
    BY DEF Decide, families, repoVars
  <2>2. ~Arrived => committed.named \subseteq missing.blobs /\ committed.named \cap here = {}
    BY <1>4, <2>1, Refreshed DEF MissInv
  <2> QED
    BY <1>4, <2>1, <2>2, Decided DEF LostInv
<1>5. ASSUME NEW c \in Commands, BuildDelta(c) \/ BuildFull(c)
      PROVE  LostInv'
  <2>1. job'.next.named \subseteq job'.missing /\ job'.next.named \cap job'.store = {}
    BY <1>5, StagedLost
  <2>2. Stage' = "prepare" /\ job'.committed /\ job'.store = job.store /\ Stage = "build"
    BY <1>5, Builds
  <2>3. here' = here
    BY <1>5 DEF BuildDelta, BuildFull, repoVars
  <2> QED
    BY <2>1, <2>2, <2>3 DEF LostInv
<1>6. ASSUME NEW c \in Commands, Works(c), ~Decide(c), ~BuildDelta(c), ~BuildFull(c)
      PROVE  LostInv'
  <2>1. /\ job'.committed = job.committed /\ job'.store = job.store
        /\ job'.next = job.next /\ job'.missing = job.missing
    BY <1>6, Keeps
  <2>2. here' = here
    BY <1>6, ThinkFrame, WriteFrame DEF Works, repoVars
  <2>3. Stage \notin {"none", "recheck"}
    <3>1. Stage = pc[c] /\ pc[c] \in Locked
      BY <1>6, Held DEF Works
    <3>2. pc[c] # "recheck"
      BY <1>6 DEF Works, Thinks, BuildNothing, PrepareNothing, Validated, PrepareDelta,
         PrepareStage, ReadStage, StageOutOfFiles, PublishUncommitted, KeepUncommitted, ReadDelta,
         ReadFallBack, Writes, BeginSwap, EndSwap, RecordCommitted, RecordBlobs, Clean,
         PublishStage, RefreshEntries, WriteDelta, FallBack, Record, WriteState
    <3> QED
      BY <3>1, <3>2, Held
  <2>4. CASE BeginSwap(c)
    <3>1. Stage' = "swap" /\ missing' = IF job.committed THEN Pending ELSE missing
      BY <1>6, <2>4, Goes, Drops, Held DEF BeginSwap, Works, Locked
    <3>2. missing.damaged \in BOOLEAN
      BY DEF TypeOK, Records
    <3>3. job.committed /\ ~missing'.damaged => job.missing \subseteq missing'.blobs /\ missing'.store = Unknown
      BY <3>1, <3>2 DEF Pending
    <3> QED
      BY <2>1, <2>2, <2>3, <3>1, <3>3 DEF LostInv
  <2>5. CASE EndSwap(c)
    <3>1. Stage' = "recordCommitted" /\ committed' = job.next
      BY <1>6, <2>5, Goes, Drops, Held DEF EndSwap, Works, Locked, Publishing
    <3> QED
      BY <2>1, <2>2, <2>3, <3>1 DEF LostInv
  <2>6. CASE RecordCommitted(c)
    <3>1. Stage = "recordCommitted" /\ Stage' = "recordBlobs" /\ committed' = committed
      BY <1>6, <2>6, Goes, Drops, Held DEF RecordCommitted, Works, Locked, Publishing, families,
         FailPublish
    <3> QED
      BY <2>1, <2>2, <2>3, <3>1 DEF LostInv
  <2>7. CASE ~BeginSwap(c) /\ ~EndSwap(c) /\ ~RecordCommitted(c)
    <3>1. Stage' \notin {"none", "recheck", "build", "swap", "recordCommitted", "recordBlobs"}
      <4>1. \E step : Running(c, step) /\ step \notin {"none", "recheck", "build", "swap", "recordCommitted", "recordBlobs"}
        <5>1. CASE Thinks(c)
          BY <1>6, <5>1 DEF Thinks, BuildNothing, PrepareNothing, PrepareDelta,
             PrepareStage, ReadStage, StageOutOfFiles, PublishUncommitted, KeepUncommitted, ReadDelta,
             ReadFallBack
        <5>2. CASE Writes(c)
          <6>1. ~Done(c)
            BY <1>6, Held, Drops DEF Works
          <6> QED
            BY <1>6, <2>7, <5>2, <6>1 DEF Writes, RecordBlobs, Clean, PublishStage, RefreshEntries,
               WriteDelta, FallBack, Record, WriteState, FailPublish
        <5> QED
          BY <1>6, <5>1, <5>2 DEF Works
      <4> QED
        BY <1>6, <4>1, Goes, Held DEF Works
    <3> QED
      BY <2>1, <2>2, <2>3, <3>1 DEF LostInv
  <2> QED
    BY <2>4, <2>5, <2>6, <2>7
<1>7. ASSUME NEW c \in Commands, Rests(c)
      PROVE  LostInv'
  BY <1>1, <1>7, RestFrame DEF diskVars, families, recordVars, repoVars
<1>8. CASE Repository
  BY <1>1, <1>8, RepoFrame DEF diskVars, families, recordVars
<1>9. CASE Damage
  <2>1. DamagedRecord.damaged = TRUE
    BY DEF DamagedRecord
  <2> QED
    BY <1>9, <2>1, DamageFrame DEF LostInv, repoVars, families
<1>10. CASE UNCHANGED vars
  BY <1>1, <1>10 DEF vars, Stage
<1> QED
  BY <1>2, <1>3, <1>4, <1>5, <1>6, <1>7, <1>8, <1>9, <1>10, Steps

\* The record itself.
LEMMA MissStep == BlobInv /\ [Next]_vars => MissInv'
<1>. SUFFICES ASSUME BlobInv, [Next]_vars PROVE MissInv'
  OBVIOUS
<1>. TypeOK /\ MissInv /\ LostInv
  BY DEF BlobInv
<1>. USE Empties
<1>. missing \in Records /\ missing.damaged \in BOOLEAN /\ here \subseteq Blobs
  BY DEF TypeOK, Records
<1>1. ASSUME missing' = missing, committed'.named = committed.named, here \subseteq here'
      PROVE  MissInv'
  BY <1>1 DEF MissInv
<1>2. Torn(committed).named = committed.named
  BY DEF Torn, TypeOK, CommittedFamilies
<1>3. ASSUME RefreshRecord, committed'.named = committed.named, here' = here
      PROVE  MissInv'
  BY <1>3, Refreshed DEF MissInv
<1>4. ASSUME NEW c \in Commands, TakeLock(c)
      PROVE  MissInv'
  BY <1>4, TakeFrame DEF MissInv, repoVars
<1>5. ASSUME NEW c \in Commands, Decide(c) \/ FoundCurrent(c)
      PROVE  MissInv'
  BY <1>3, <1>5 DEF Decide, FoundCurrent, families, repoVars
<1>6. ASSUME NEW c \in Commands, BeginSwap(c)
      PROVE  MissInv'
  <2>1. committed' = committed /\ here' = here /\ missing' \in {missing, Pending}
    BY <1>6 DEF BeginSwap, repoVars
  <2>2. CASE missing' = Pending /\ ~missing.damaged
    <3>1. missing'.damaged = FALSE /\ missing'.store = Unknown /\ missing.blobs \subseteq missing'.blobs
      BY <2>2 DEF Pending
    <3> QED
      BY <2>1, <2>2, <3>1 DEF MissInv
  <2>3. CASE missing' = missing
    BY <1>1, <2>1, <2>3
  <2> QED
    BY <2>1, <2>2, <2>3 DEF Pending
<1>7. ASSUME NEW c \in Commands, EndSwap(c)
      PROVE  MissInv'
  <2>1. here' = here /\ missing' = missing /\ committed' \in {committed, Torn(committed), job.next}
    BY <1>7 DEF EndSwap, repoVars, recordVars
  <2>2. CASE committed' = job.next
    <3>1. Stage = "swap"
      BY <1>7, Held DEF EndSwap, Locked, Publishing
    <3>2. CASE ~job.committed
      BY <2>1, <2>2, <3>2 DEF MissInv, LostInv
    <3>3. CASE job.committed
      BY <2>1, <2>2, <3>1, <3>3 DEF MissInv, LostInv
    <3> QED
      BY <3>2, <3>3
  <2> QED
    BY <1>1, <1>2, <2>1, <2>2
<1>8. ASSUME NEW c \in Commands, RecordBlobs(c)
      PROVE  MissInv'
  <2>1. committed' = committed /\ here' = here /\ missing' \in {missing, Exact(job.missing)}
    BY <1>8 DEF RecordBlobs, repoVars, families
  <2>2. Stage = "recordBlobs"
    BY <1>8, Held DEF RecordBlobs, Locked, Publishing
  <2>3. CASE missing' = Exact(job.missing)
    BY <2>1, <2>2, <2>3 DEF Exact, MissInv, LostInv
  <2> QED
    BY <1>1, <2>1, <2>3
<1>9. ASSUME NEW c \in Commands,
             Writes(c) \/ Leaves(c), ~Decide(c), ~FoundCurrent(c), ~BeginSwap(c), ~EndSwap(c), ~RecordBlobs(c)
      PROVE  MissInv'
  <2>1. missing' = missing /\ here' = here /\ committed' \in {committed, Torn(committed)}
    BY <1>9 DEF Writes, RecordCommitted, Clean, PublishStage, RefreshEntries, WriteDelta, FallBack,
       Record, WriteState, Leaves, DiscardBuild, FailBuild, CancelBuild, FailUncommitted,
       WriteHead, Crash, diskVars, repoVars, families, recordVars
  <2> QED
    BY <1>1, <1>2, <2>1
<1>10. ASSUME \/ \E c \in Commands : Rests(c) \/ Thinks(c)
              \/ Repository \/ UNCHANGED vars
       PROVE  MissInv'
  BY <1>1, <1>10, RestFrame, ThinkFrame, RepoFrame DEF diskVars, families, recordVars, repoVars,
     vars
<1>11. CASE Damage
  <2>1. DamagedRecord.damaged = TRUE /\ DamagedRecord.store = Unknown
    BY DEF DamagedRecord
  <2> QED
    BY <1>1, <1>11, <2>1, DamageFrame DEF MissInv, repoVars, families
<1> QED
  BY <1>4, <1>5, <1>6, <1>7, <1>8, <1>9, <1>10, <1>11, Steps DEF Works, Ends

\* At first nothing is indexed and nothing is recorded.
LEMMA InitBlobs == Init => BlobInv
<1>. SUFFICES ASSUME Init PROVE BlobInv
  OBVIOUS
<1>1. Stage = "none" /\ job = NoJob /\ committed = NoCommitted /\ missing = NoRecord
  BY DEF Init, Stage
<1> QED
  BY <1>1, InitTypes, Empties DEF BlobInv, MissInv, LostInv

\* The part of the invariant about blobs is one by itself.
LEMMA BlobStep == BlobInv /\ [Next]_vars => BlobInv'
BY TypeStep, LostStep, MissStep DEF BlobInv

\* A store that a record names had none of the blobs, so a blob that has come
\* is in another store, and the search asks for the check.
LEMMA BlobsTell == BlobInv => MissingIsTold
<1>. SUFFICES ASSUME BlobInv, ~missing.damaged
             PROVE  /\ committed.named \subseteq missing.blobs
                    /\ committed.named \cap here # {} => MissingDue
  BY DEF MissingIsTold
<1>1. committed.named \subseteq missing.blobs
  BY DEF BlobInv, MissInv
<1>2. ASSUME committed.named \cap here # {}
      PROVE  MissingDue
  <2>1. missing # NoRecord
    BY <1>1, <1>2, Empties
  <2>2. missing.store = Unknown \/ missing.store # here
    BY <1>2 DEF BlobInv, MissInv
  <2> QED
    BY <2>1, <2>2 DEF MissingDue
<1> QED
  BY <1>1, <1>2

\* A document indexed by name only is in the record, which the build writes before
\* the family that lacks it; and from the moment its blob is there, the record asks
\* for a check, at every step of a build that began before the blob came.
THEOREM MissingTold == Spec => []MissingIsTold
<1>1. Spec => []BlobInv
  BY InitBlobs, BlobStep, PTL DEF Spec
<1> QED
  BY <1>1, BlobsTell, PTL

-----------------------------------------------------------------------------
(* What the steps make of the files.                                       *)

\* The order of the steps of a build.
LEMMA Order ==
    ASSUME TypeOK, NEW c \in Commands, Works(c)
    PROVE  /\ builder = c /\ builder' = c
           /\ Stage = pc[c] /\ Wanted = want[c] /\ Wanted' = Wanted /\ want' = want
           /\ UNCHANGED repoVars
           /\ Decide(c) => Stage = "recheck" /\ Stage' = "build"
           /\ BuildDelta(c) \/ BuildFull(c) \/ BuildNothing(c) => Stage = "build" /\ Stage' = "prepare"
           /\ PrepareNothing(c) \/ PrepareDelta(c) => Stage = "prepare" /\ Stage' = "publish"
           /\ PrepareStage(c) => Stage = "prepare" /\ Stage' = "stage"
           /\ ReadStage(c) \/ StageOutOfFiles(c) => Stage = "stage" /\ Stage' = "publish"
           /\ PublishUncommitted(c) => Stage = "publish" /\ Stage' = "uncommitted"
           /\ BeginSwap(c) => Stage = "publish" /\ Stage' = "swap"
           /\ EndSwap(c) => Stage = "swap" /\ Stage' = "recordCommitted"
           /\ RecordCommitted(c) => Stage = "recordCommitted" /\ Stage' = "recordBlobs"
           /\ RecordBlobs(c) => Stage = "recordBlobs" /\ Stage' = "uncommitted"
           /\ Clean(c) \/ KeepUncommitted(c) \/ PublishStage(c) \/ RefreshEntries(c)
                 => Stage = "uncommitted" /\ Stage' = "record"
           /\ ReadDelta(c) => Stage = "uncommitted" /\ Stage' = "delta"
           /\ WriteDelta(c) => Stage = "delta" /\ Stage' = "record"
           /\ FallBack(c) => Stage = "delta" /\ Stage' = "fallback"
           /\ ReadFallBack(c) => Stage = "fallback" /\ Stage' = "uncommitted"
           /\ Record(c) => Stage = "record" /\ Stage' = "state"
           /\ WriteState(c) => Stage = "state" /\ Stage' = "head"
<1>0. pc[c] \in Locked
  BY Held DEF Works
<1>1. pc[c] \in Locked /\ ~Done(c)
  BY <1>0, Drops DEF Works
<1>2. \A step : Running(c, step) => Stage' = step
  BY <1>1, Goes
<1>3. Stage = pc[c]
  BY <1>1, Held
<1>4. /\ Decide(c) => Stage = "recheck" /\ Stage' = "build"
      /\ BuildDelta(c) \/ BuildFull(c) \/ BuildNothing(c) => Stage = "build" /\ Stage' = "prepare"
      /\ PrepareNothing(c) \/ PrepareDelta(c) => Stage = "prepare" /\ Stage' = "publish"
      /\ PrepareStage(c) => Stage = "prepare" /\ Stage' = "stage"
      /\ ReadStage(c) \/ StageOutOfFiles(c) => Stage = "stage" /\ Stage' = "publish"
      /\ PublishUncommitted(c) => Stage = "publish" /\ Stage' = "uncommitted"
  BY <1>2, <1>3 DEF Decide, BuildDelta, BuildFull, BuildNothing, PrepareNothing, PrepareDelta,
     Validated, PrepareStage, ReadStage, StageOutOfFiles, PublishUncommitted
<1>5. /\ BeginSwap(c) => Stage = "publish" /\ Stage' = "swap"
      /\ EndSwap(c) => Stage = "swap" /\ Stage' = "recordCommitted"
      /\ RecordCommitted(c) => Stage = "recordCommitted" /\ Stage' = "recordBlobs"
      /\ RecordBlobs(c) => Stage = "recordBlobs" /\ Stage' = "uncommitted"
  BY <1>1, <1>2, <1>3 DEF BeginSwap, EndSwap, RecordCommitted, RecordBlobs, FailPublish
<1>6. /\ Clean(c) \/ KeepUncommitted(c) \/ PublishStage(c) \/ RefreshEntries(c)
            => Stage = "uncommitted" /\ Stage' = "record"
      /\ ReadDelta(c) => Stage = "uncommitted" /\ Stage' = "delta"
      /\ WriteDelta(c) => Stage = "delta" /\ Stage' = "record"
      /\ FallBack(c) => Stage = "delta" /\ Stage' = "fallback"
      /\ ReadFallBack(c) => Stage = "fallback" /\ Stage' = "uncommitted"
  BY <1>1, <1>2, <1>3 DEF Clean, KeepUncommitted, PublishStage, RefreshEntries, ReadDelta,
     WriteDelta, FallBack, ReadFallBack, FailPublish
<1>7. /\ Record(c) => Stage = "record" /\ Stage' = "state"
      /\ WriteState(c) => Stage = "state" /\ Stage' = "head"
  BY <1>1, <1>2, <1>3 DEF Record, WriteState, FailPublish
<1>8. /\ builder = c /\ builder' = c /\ Wanted = want[c] /\ Wanted' = Wanted /\ want' = want
      /\ UNCHANGED repoVars
  <2>1. builder = c /\ Wanted = want[c]
    BY <1>1, Held
  <2>2. builder' = c
    BY DEF Works
  <2>3. Wanted' = Wanted /\ want' = want /\ UNCHANGED repoVars
    BY <2>2, ThinkFrame, WriteFrame DEF Works
  <2> QED
    BY <2>1, <2>2, <2>3
<1> QED
  BY <1>3, <1>4, <1>5, <1>6, <1>7, <1>8

\* A build decides on what it finds.
LEMMA DecideEffect ==
    ASSUME TypeOK, NEW c \in Commands, Works(c), Decide(c)
    PROVE  /\ Stage = "recheck" /\ Stage' = "build" /\ Wanted' = Wanted /\ UNCHANGED repoVars
           /\ UNCHANGED <<stateFiles, families, manifest, entries, histVars>>
<1>1. ~Done(c) /\ Wanted = want[c]
  BY Held, Drops DEF Works
<1> QED
  BY <1>1, Order DEF Decide

\* A swap begins behind its marker.
LEMMA BeginSwapEffect ==
    ASSUME TypeOK, NEW c \in Commands, Works(c), BeginSwap(c)
    PROVE  /\ Stage = "publish" /\ Stage' = "swap" /\ Wanted' = Wanted /\ UNCHANGED repoVars
           /\ job.committed \/ job.clear
           /\ marker' = TRUE /\ job' = job
           /\ UNCHANGED <<stateFiles, committed, uncommitted, manifest, entries, histVars>>
<1>1. ~Done(c) /\ Wanted = want[c]
  BY Held, Drops DEF Works
<1> QED
  BY <1>1, Order DEF BeginSwap, recordVars

\* It ends with the new family.
LEMMA EndSwapEffect ==
    ASSUME TypeOK, NEW c \in Commands, Works(c), EndSwap(c)
    PROVE  /\ Stage = "swap" /\ Stage' = "recordCommitted" /\ Wanted' = Wanted /\ UNCHANGED repoVars
           /\ committed' = job.next /\ marker' = FALSE
           /\ UNCHANGED <<stateFiles, uncommitted, manifest, entries, histVars>>
<1>1. ~Done(c) /\ Wanted = want[c]
  BY Held, Drops DEF Works
<1> QED
  BY <1>1, Order DEF EndSwap, recordVars

\* The first manifest.
LEMMA RecordCommittedEffect ==
    ASSUME TypeOK, NEW c \in Commands, Works(c), RecordCommitted(c)
    PROVE  /\ Stage = "recordCommitted" /\ Stage' = "recordBlobs" /\ Wanted' = Wanted /\ UNCHANGED repoVars
           /\ manifest' = [committed   |-> committed,
                              uncommitted |-> IF job.intact THEN uncommitted ELSE NoUncommitted]
           /\ job' = job /\ UNCHANGED <<stateFiles, families, entries, histVars>>
<1>1. ~Done(c) /\ Wanted = want[c]
  BY Held, Drops DEF Works
<1> QED
  BY <1>1, Order DEF RecordCommitted, FailPublish

\* The record of the blobs.
LEMMA RecordBlobsEffect ==
    ASSUME TypeOK, NEW c \in Commands, Works(c), RecordBlobs(c)
    PROVE  /\ Stage = "recordBlobs" /\ Stage' = "uncommitted" /\ Wanted' = Wanted /\ UNCHANGED repoVars
           /\ job' = job /\ UNCHANGED <<stateFiles, families, manifest, entries, histVars>>
<1>1. ~Done(c) /\ Wanted = want[c]
  BY Held, Drops DEF Works
<1> QED
  BY <1>1, Order DEF RecordBlobs, FailPublish

\* A clean tree has no uncommitted family.
LEMMA CleanEffect ==
    ASSUME TypeOK, NEW c \in Commands, Works(c), Clean(c)
    PROVE  /\ Stage = "uncommitted" /\ Stage' = "record" /\ Wanted' = Wanted /\ UNCHANGED repoVars
           /\ ~IsDirty(Wanted)
           /\ uncommitted' = NoUncommitted /\ entries' = NoEntries /\ stale' = FALSE
           /\ job' = job /\ UNCHANGED <<stateFiles, committed, marker, manifest, late, reborn>>
<1>1. ~Done(c) /\ Wanted = want[c]
  BY Held, Drops DEF Works
<1> QED
  BY <1>1, Order DEF Clean, FailPublish

\* A full build of the uncommitted family.
LEMMA PublishStageEffect ==
    ASSUME TypeOK, NEW c \in Commands, Works(c), PublishStage(c)
    PROVE  /\ Stage = "uncommitted" /\ Stage' = "record" /\ Wanted' = Wanted /\ UNCHANGED repoVars
           /\ job.mode = "stage" /\ WriteEntries(c)
           /\ uncommitted' = [docs |-> job.docs, shards |-> job.docs # NoDocs, torn |-> FALSE]
           /\ job' = job /\ UNCHANGED <<stateFiles, committed, marker, manifest, late, reborn>>
<1>1. ~Done(c) /\ Wanted = want[c]
  BY Held, Drops DEF Works
<1> QED
  BY <1>1, Order DEF PublishStage, FailPublish

\* A delta of nothing.
LEMMA RefreshEntriesEffect ==
    ASSUME TypeOK, NEW c \in Commands, Works(c), RefreshEntries(c)
    PROVE  /\ Stage = "uncommitted" /\ Stage' = "record" /\ Wanted' = Wanted /\ UNCHANGED repoVars
           /\ job.mode = "delta" /\ Changed = {} /\ WriteEntries(c)
           /\ job' = job /\ UNCHANGED <<stateFiles, families, manifest, late, reborn>>
<1>1. ~Done(c) /\ Wanted = want[c]
  BY Held, Drops DEF Works
<1> QED
  BY <1>1, Order DEF RefreshEntries

\* A delta.
LEMMA WriteDeltaEffect ==
    ASSUME TypeOK, NEW c \in Commands, Works(c), WriteDelta(c)
    PROVE  /\ Stage = "delta" /\ Stage' = "record" /\ Wanted' = Wanted /\ UNCHANGED repoVars
           /\ WriteEntries(c)
           /\ uncommitted' = [docs |-> [f \in Files |-> IF f \in Changed THEN job.docs[f]
                                                          ELSE uncommitted.docs[f]],
                                 shards |-> TRUE, torn |-> FALSE]
           /\ job' = job /\ UNCHANGED <<stateFiles, committed, marker, manifest, late, reborn>>
<1>1. ~Done(c) /\ Wanted = want[c]
  BY Held, Drops DEF Works
<1> QED
  BY <1>1, Order DEF WriteDelta

\* A delta that is given up may tear the family.
LEMMA FallBackEffect ==
    ASSUME TypeOK, NEW c \in Commands, Works(c), FallBack(c)
    PROVE  /\ Stage = "delta" /\ Stage' = "fallback" /\ Wanted' = Wanted /\ UNCHANGED repoVars
           /\ uncommitted' \in {uncommitted, Torn(uncommitted)}
           /\ UNCHANGED <<stateFiles, committed, marker, manifest, entries, histVars>>
<1>1. ~Done(c) /\ Wanted = want[c]
  BY Held, Drops DEF Works
<1> QED
  BY <1>1, Order DEF FallBack, recordVars

\* The last manifest.
LEMMA RecordEffect ==
    ASSUME TypeOK, NEW c \in Commands, Works(c), Record(c)
    PROVE  /\ Stage = "record" /\ Stage' = "state" /\ Wanted' = Wanted /\ UNCHANGED repoVars
           /\ manifest' = [committed   |-> committed,
                              uncommitted |-> IF job.mode # "fds" \/ job.intact THEN uncommitted
                                              ELSE NoUncommitted]
           /\ job' = job /\ UNCHANGED <<stateFiles, families, entries, histVars>>
<1>1. ~Done(c) /\ Wanted = want[c]
  BY Held, Drops DEF Works
<1> QED
  BY <1>1, Order DEF Record, FailPublish

\* The state.
LEMMA WriteStateEffect ==
    ASSUME TypeOK, NEW c \in Commands, Works(c), WriteState(c)
    PROVE  /\ Stage = "state" /\ Stage' = "head" /\ Wanted' = Wanted /\ UNCHANGED repoVars
           /\ state' = IF Partial THEN NoState ELSE Wanted
           /\ empty' = IF Partial \/ HasShard THEN NoState ELSE Wanted
           /\ late' = late \ (IF job.mode \in {"none", "stage"} THEN {"state", "delta"} ELSE {"state"})
           /\ job' = job /\ UNCHANGED <<headFile, families, manifest, entries, stale, reborn>>
<1>1. ~Done(c) /\ Wanted = want[c]
  BY Held, Drops DEF Works
<1> QED
  BY <1>1, Order DEF WriteState, FailPublish, recordVars

(* The four ways in which a build ends: it keeps the state files, deletes  *)
(* them, writes .head, or dies.                                            *)
Spared ==
    UNCHANGED <<stateFiles, late>> /\ Stage \in {"recheck", "build", "prepare", "stage", "publish", "swap"}

Deleted == DeleteStateFiles /\ late' = late

Finished ==
    /\ Stage = "head" /\ UNCHANGED <<state, empty, families>>
    /\ headFile' = Wanted.head
    /\ late' = IF job.published \/ headFile # Wanted.head THEN late \ {"head"} ELSE late

Died(c) == UNCHANGED stateFiles /\ late' = late \cup LeftBehind(c)

\* What an end leaves behind.
LEMMA Endings ==
    ASSUME TypeOK, NEW c \in Commands, Ends(c)
    PROVE  /\ UNCHANGED <<repoVars, manifest, stale, reborn>>
           /\ Stage # "swap" => UNCHANGED <<committed, marker>>
           /\ \/ committed' = committed /\ marker' \in {marker, FALSE}
              \/ committed' = Torn(committed) /\ marker' = marker
           /\ uncommitted' \in {uncommitted, Torn(uncommitted)}
           /\ entries' \in {entries, NoEntries}
           /\ Spared \/ Deleted \/ Finished \/ Died(c)
<1>1. Done(c) /\ UNCHANGED <<repoVars, reborn>> /\ Stage = pc[c] /\ Wanted = want[c]
  BY Ended
<1>2. \A step : ~Running(c, step)
  BY Goes, Held, Constants DEF Ends
<1>3. ASSUME Leaves(c)
      PROVE  /\ UNCHANGED <<manifest, stale, entries>>
             /\ Stage # "swap" => UNCHANGED <<committed, marker>>
             /\ \/ committed' = committed /\ marker' \in {marker, FALSE}
                \/ committed' = Torn(committed) /\ marker' = marker
             /\ uncommitted' \in {uncommitted, Torn(uncommitted)}
             /\ Spared \/ Deleted \/ Finished \/ Died(c)
  <2>1. CASE FoundCurrent(c) \/ DiscardBuild(c) \/ CancelBuild(c)
    BY <1>1, <2>1 DEF FoundCurrent, DiscardBuild, CancelBuild, diskVars, families, recordVars,
       histVars, Spared, Locked
  <2>2. CASE FailBuild(c)
    BY <1>1, <2>2 DEF FailBuild, families, recordVars, histVars, Spared, Deleted
  <2>3. CASE FailUncommitted(c)
    BY <1>1, <2>3 DEF FailUncommitted, families, recordVars, histVars, Deleted
  <2>4. CASE WriteHead(c)
    BY <1>1, <2>4 DEF WriteHead, FailPublish, families, recordVars, Deleted, Finished
  <2>5. CASE Crash(c)
    BY <1>1, <2>5 DEF Crash, recordVars, Died
  <2> QED
    BY <1>3, <2>1, <2>2, <2>3, <2>4, <2>5 DEF Leaves
<1>4. ASSUME BeginSwap(c) \/ EndSwap(c)
      PROVE  /\ UNCHANGED <<manifest, stale, entries, uncommitted>>
             /\ Stage # "swap" => UNCHANGED <<committed, marker>>
             /\ \/ committed' = committed /\ marker' \in {marker, FALSE}
                \/ committed' = Torn(committed) /\ marker' = marker
             /\ Spared
  BY <1>1, <1>2, <1>4 DEF BeginSwap, EndSwap, recordVars, histVars, Spared
<1>5. ASSUME RecordCommitted(c) \/ RecordBlobs(c) \/ Clean(c) \/ PublishStage(c) \/ Record(c) \/ WriteState(c)
      PROVE  /\ UNCHANGED <<manifest, stale, committed, marker>> /\ entries' \in {entries, NoEntries}
             /\ uncommitted' \in {uncommitted, Torn(uncommitted)}
             /\ Deleted
  BY <1>2, <1>5 DEF RecordCommitted, RecordBlobs, Clean, PublishStage, Record, WriteState,
     FailPublish, families, recordVars, histVars, Deleted
<1>6. ~Decide(c) /\ ~RefreshEntries(c) /\ ~WriteDelta(c) /\ ~FallBack(c)
  BY <1>2 DEF Decide, RefreshEntries, WriteDelta, FallBack
<1> QED
  BY <1>1, <1>3, <1>4, <1>5, <1>6 DEF Ends, Writes

\* Few steps of a build that goes on change a given file.
LEMMA WorkFrame ==
    ASSUME TypeOK, NEW c \in Commands, Works(c)
    PROVE  /\ ~BeginSwap(c) /\ ~EndSwap(c) =>
                 UNCHANGED <<committed, marker>> /\ {Stage, Stage'} \subseteq Locked \ {"swap"}
           /\ headFile' = headFile
           /\ ~WriteState(c) => UNCHANGED <<state, empty>>
           /\ ~RecordCommitted(c) /\ ~Record(c) => manifest' = manifest
           /\ "head" \in late' <=> "head" \in late
           /\ ~WriteState(c) => late \subseteq late'
           /\ ~WriteState(c) /\ ~PrepareDelta(c) => late' = late
           /\ ~ReadStage(c) /\ ~ReadDelta(c) /\ ~ReadFallBack(c) => reborn' = reborn
           /\ ~Clean(c) /\ ~PublishStage(c) /\ ~WriteDelta(c) /\ ~FallBack(c) => uncommitted' = uncommitted
           /\ ~Clean(c) /\ ~PublishStage(c) /\ ~WriteDelta(c) /\ ~RefreshEntries(c) => UNCHANGED <<entries, stale>>
<1>1. CASE Thinks(c)
  <2>1. UNCHANGED <<diskVars, stale>>
    BY <1>1, ThinkFrame
  <2>2. late' \in {late, late \cup {"delta"}} /\ (~PrepareDelta(c) => late' = late)
    BY <1>1 DEF Thinks, BuildDelta, BuildFull, BuildNothing, PrepareNothing, PrepareDelta,
       PrepareStage, ReadStage, StageOutOfFiles, PublishUncommitted, KeepUncommitted, ReadDelta,
       ReadFallBack, histVars
  <2>3. ~ReadStage(c) /\ ~ReadDelta(c) /\ ~ReadFallBack(c) => reborn' = reborn
    BY <1>1 DEF Thinks, BuildDelta, BuildFull, BuildNothing, PrepareNothing, PrepareDelta,
       PrepareStage, StageOutOfFiles, PublishUncommitted, KeepUncommitted, histVars
  <2>4. {Stage, Stage'} \subseteq Locked \ {"swap"}
    BY <1>1, Order DEF Thinks, Locked, Publishing
  <2> QED
    BY <2>1, <2>2, <2>3, <2>4 DEF diskVars, stateFiles, families, recordVars
<1>2. CASE Writes(c)
  <2>1. ~BeginSwap(c) /\ ~EndSwap(c) => {Stage, Stage'} \subseteq Locked \ {"swap"}
    BY <1>2, Order DEF Writes, Locked, Publishing
  <2>2. ~BeginSwap(c) /\ ~EndSwap(c) => UNCHANGED <<committed, marker>>
    BY <1>2, DecideEffect, BeginSwapEffect, EndSwapEffect, RecordCommittedEffect,
       RecordBlobsEffect, CleanEffect, PublishStageEffect, RefreshEntriesEffect, WriteDeltaEffect,
       FallBackEffect, RecordEffect, WriteStateEffect DEF Writes, families
  <2>3. /\ headFile' = headFile
        /\ ~WriteState(c) => UNCHANGED <<state, empty>>
        /\ ~RecordCommitted(c) /\ ~Record(c) => manifest' = manifest
    BY <1>2, DecideEffect, BeginSwapEffect, EndSwapEffect, RecordCommittedEffect,
       RecordBlobsEffect, CleanEffect, PublishStageEffect, RefreshEntriesEffect, WriteDeltaEffect,
       FallBackEffect, RecordEffect, WriteStateEffect DEF Writes, stateFiles
  <2>4. /\ "head" \in late' <=> "head" \in late
        /\ ~WriteState(c) => late' = late
        /\ reborn' = reborn
    BY <1>2, DecideEffect, BeginSwapEffect, EndSwapEffect, RecordCommittedEffect,
       RecordBlobsEffect, CleanEffect, PublishStageEffect, RefreshEntriesEffect, WriteDeltaEffect,
       FallBackEffect, RecordEffect, WriteStateEffect DEF Writes, histVars
  <2>5. /\ ~Clean(c) /\ ~PublishStage(c) /\ ~WriteDelta(c) /\ ~FallBack(c) => uncommitted' = uncommitted
        /\ ~Clean(c) /\ ~PublishStage(c) /\ ~WriteDelta(c) /\ ~RefreshEntries(c) => UNCHANGED <<entries, stale>>
    BY <1>2, DecideEffect, BeginSwapEffect, EndSwapEffect, RecordCommittedEffect,
       RecordBlobsEffect, CleanEffect, PublishStageEffect, RefreshEntriesEffect, WriteDeltaEffect,
       FallBackEffect, RecordEffect, WriteStateEffect DEF Writes, families, histVars
  <2> QED
    BY <2>1, <2>2, <2>3, <2>4, <2>5
<1> QED
  BY <1>1, <1>2 DEF Works

-----------------------------------------------------------------------------
(* The committed family and .head.                                         *)

\* A swap that stopped leaves .swapping.
LEMMA MarkerStep == Inv /\ [Next]_vars => MarkerInv'
<1>. SUFFICES ASSUME Inv, [Next]_vars PROVE MarkerInv'
  OBVIOUS
<1>. TypeOK /\ MarkerInv
  BY DEF Inv, BlobInv, TellsInv
<1>1. ASSUME UNCHANGED <<Stage, committed, marker>>
      PROVE  MarkerInv'
  BY <1>1 DEF MarkerInv
<1>2. ASSUME NEW c \in Commands, TakeLock(c)
      PROVE  MarkerInv'
  BY <1>2, TakeFrame, Empties DEF MarkerInv
<1>3. ASSUME NEW c \in Commands, Works(c)
      PROVE  MarkerInv'
  <2>1. CASE BeginSwap(c)
    <3>1. Stage = "publish" /\ Stage' = "swap" /\ marker' = TRUE /\ committed' = committed
      BY <1>3, <2>1, BeginSwapEffect
    <3> QED
      BY <3>1 DEF MarkerInv, Locked
  <2>2. CASE EndSwap(c)
    <3>1. Stage = "swap" /\ Stage' = "recordCommitted" /\ marker' = FALSE /\ committed' = job.next
      BY <1>3, <2>2, EndSwapEffect
    <3>2. ~job.next.torn
      BY <3>1, Empties DEF Inv, TellsInv, JobInv, JobHead
    <3> QED
      BY <3>1, <3>2 DEF MarkerInv
  <2>3. CASE ~BeginSwap(c) /\ ~EndSwap(c)
    BY <1>3, <2>3, WorkFrame DEF MarkerInv
  <2> QED
    BY <2>1, <2>2, <2>3
<1>4. ASSUME NEW c \in Commands, Ends(c)
      PROVE  MarkerInv'
  <2>1. Stage' = "none" /\ Stage \in Locked
    BY <1>4, Ended
  <2>2. CASE Stage = "swap"
    BY <1>4, <2>1, <2>2, Endings, Held DEF MarkerInv
  <2>3. CASE Stage # "swap"
    BY <1>4, <2>1, <2>3, Endings, Held DEF MarkerInv
  <2> QED
    BY <2>2, <2>3
<1>5. ASSUME NEW c \in Commands, Rests(c)
      PROVE  MarkerInv'
  BY <1>1, <1>5, RestFrame DEF diskVars, families
<1>6. CASE Repository \/ Damage \/ UNCHANGED vars
  BY <1>1, <1>6, RepoFrame, DamageFrame DEF diskVars, families, vars, Stage
<1> QED
  BY <1>2, <1>3, <1>4, <1>5, <1>6, Steps

\* A family and a manifest that name a commit hold it.
LEMMA CommStep == Inv /\ [Next]_vars => CommInv'
<1>. SUFFICES ASSUME Inv, [Next]_vars PROVE CommInv'
  OBVIOUS
<1>. TypeOK /\ CommInv /\ MarkerInv /\ JobHead /\ WholeInv
  BY DEF Inv, BlobInv, TellsInv, JobInv
<1>1. ASSUME Whole(committed'), manifest' \in {manifest, NoManifest}
      PROVE  CommInv'
  BY <1>1 DEF CommInv, Whole
<1>2. Whole(NoCommitted)
  BY Constants, Empties DEF Whole
<1>3. Whole(Torn(committed))
  <2>1. /\ Torn(committed).docs = committed.docs /\ Torn(committed).named = committed.named
        /\ Torn(committed).head = committed.head
    BY DEF Torn, TypeOK, CommittedFamilies
  <2> QED
    BY <2>1 DEF CommInv, Whole
<1>4. Whole(committed)
  BY DEF CommInv
<1>5. ASSUME NEW c \in Commands, Works(c)
      PROVE  CommInv'
  <2>1. CASE EndSwap(c)
    <3>1. Stage = "swap" /\ committed' = job.next /\ manifest' = manifest
      BY <1>5, <2>1, EndSwapEffect
    <3>2. Whole(job.next)
      BY <1>2, <3>1 DEF JobHead
    <3> QED
      BY <1>1, <3>1, <3>2
  <2>2. CASE RecordCommitted(c) \/ Record(c)
    <3>1. committed' = committed /\ Stage \in {"recordCommitted", "record"}
      BY <1>5, <2>2, RecordCommittedEffect, RecordEffect DEF families
    <3>2. ~committed.torn
      BY <3>1 DEF MarkerInv, Locked, Publishing
    <3>3. manifest'.committed = committed /\ ~manifest'.uncommitted.torn
      <4>1. CASE RecordCommitted(c)
        <5>1. job.intact => ~uncommitted.torn
          BY <1>5, <4>1, RecordCommittedEffect DEF WholeInv, Untouched, Before, Locked, Publishing
        <5> QED
          BY <1>5, <4>1, <5>1, RecordCommittedEffect, Empties
      <4>2. CASE Record(c)
        <5>1. job.mode # "fds" \/ job.intact => ~uncommitted.torn
          BY <1>5, <4>2, RecordEffect DEF WholeInv
        <5> QED
          BY <1>5, <4>2, <5>1, RecordEffect, Empties
      <4> QED
        BY <2>2, <4>1, <4>2
    <3> QED
      BY <1>4, <3>1, <3>2, <3>3 DEF CommInv, Whole
  <2>3. CASE ~EndSwap(c) /\ ~RecordCommitted(c) /\ ~Record(c)
    <3>1. committed' = committed
      BY <1>5, <2>3, WorkFrame, BeginSwapEffect
    <3> QED
      BY <1>1, <1>4, <1>5, <2>3, <3>1, WorkFrame
  <2> QED
    BY <2>1, <2>2, <2>3
<1>6. ASSUME NEW c \in Commands, Ends(c)
      PROVE  CommInv'
  BY <1>1, <1>3, <1>4, <1>6, Endings
<1>7. ASSUME NEW c \in Commands, TakeLock(c)
      PROVE  CommInv'
  BY <1>1, <1>2, <1>4, <1>7, TakeFrame
<1>8. ASSUME NEW c \in Commands, Rests(c)
      PROVE  CommInv'
  BY <1>1, <1>4, <1>8, RestFrame DEF diskVars, families, recordVars
<1>9. CASE Repository \/ Damage \/ UNCHANGED vars
  BY <1>1, <1>4, <1>9, RepoFrame, DamageFrame DEF diskVars, families, recordVars, vars
<1> QED
  BY <1>5, <1>6, <1>7, <1>8, <1>9, Steps

\* A staged family holds the commit of the build.
LEMMA StagedWhole ==
    ASSUME Inv, NEW c \in Commands, BuildDelta(c) \/ BuildFull(c)
    PROVE  job'.next.docs = BlobsOf(Wanted.head) /\ Whole(job'.next) /\ ~job'.next.torn
<1>. TypeOK /\ CommInv
  BY DEF Inv, BlobInv, TellsInv
<1>. DEFINE h == Wanted.head
            old == BlobsOf(committed.head) \ BlobsOf(h)
            new == BlobsOf(h) \ BlobsOf(committed.head)
<1>1. PICK docs, named, lost :
          /\ job'.next = IF docs = {} THEN NoCommitted
                         ELSE [head |-> Wanted.head, docs |-> docs, named |-> named, torn |-> FALSE]
          /\ \/ /\ docs = BlobsOf(Wanted.head)
                /\ named = docs \ here /\ lost = docs \ here
             \/ /\ docs = (committed.docs \ old) \cup new
                /\ named = (committed.named \ old) \cup (new \ here)
                /\ lost = (job.carry \ old) \cup (new \ here)
  BY Builds
<1>2. docs = BlobsOf(h) /\ named \subseteq docs
  <2>1. committed.docs = BlobsOf(committed.head) /\ committed.named \subseteq committed.docs
    BY DEF CommInv, Whole
  <2> QED
    BY <1>1, <2>1
<1>3. CASE docs = {}
  BY <1>1, <1>2, <1>3, Constants, Empties DEF Whole
<1>4. CASE docs # {}
  BY <1>1, <1>2, <1>4 DEF Whole
<1> QED
  BY <1>3, <1>4

\* A build that leaves the committed family has found it in step with HEAD.
LEMMA InStep ==
    ASSUME Inv, NEW c \in Commands, Works(c), Decide(c), ~job'.committed, ~job'.clear
    PROVE  IF HasCommitted THEN committed.head = Wanted.head
           ELSE Wanted.head \in {headFile, NoHead} /\ ("head" \in late \/ BlobsOf(Wanted.head) = {})
<1>. TypeOK /\ CommInv /\ MarkerInv /\ HeadInv
  BY DEF Inv, BlobInv, TellsInv
<1>. DEFINE h == Wanted.head
<1>1. Stage = "recheck" /\ (h # NoHead => PublishedHead = h /\ CommittedIntact) /\ ~ClearDue(h)
  BY Decided, DecideEffect
<1>2. ~committed.torn
  BY <1>1 DEF MarkerInv, Locked
<1>3. CASE h = NoHead
  BY <1>1, <1>3, Constants DEF ClearDue
<1>4. CASE h # NoHead /\ HasCommitted
  BY <1>1, <1>2, <1>4 DEF PublishedHead
<1>5. CASE h # NoHead /\ ~HasCommitted
  <2>1. headFile = h
    BY <1>1, <1>5 DEF PublishedHead
  <2>2. manifest.committed = committed /\ committed.docs = {} /\ committed.torn = FALSE
    BY <1>1, <1>2, <1>5 DEF CommittedIntact, HasCommitted, TypeOK, CommittedFamilies
  <2>3. committed.named = {} /\ committed.head = NoHead
    BY <2>2 DEF CommInv, Whole
  <2>4. committed = NoCommitted
    BY <2>2, <2>3 DEF NoCommitted, TypeOK, CommittedFamilies
  <2>5. ~HeadWindow
    BY <1>1 DEF HeadWindow, Swapped, Publishing
  <2> QED
    BY <1>5, <2>1, <2>2, <2>4, <2>5 DEF HeadInv
<1> QED
  BY <1>3, <1>4, <1>5

\* The build's knowledge of the committed family.
LEMMA JobHeadStep == Inv /\ [Next]_vars => JobHead'
<1>. SUFFICES ASSUME Inv, [Next]_vars PROVE JobHead'
  OBVIOUS
<1>. TypeOK /\ JobHead /\ LostInv /\ CommInv
  BY DEF Inv, BlobInv, TellsInv, JobInv
<1>. USE Empties
<1>1. ASSUME UNCHANGED <<Stage, Wanted, job, committed, headFile, late, empty>>,
             manifest' = manifest \/ Stage \notin Publishing
      PROVE  JobHead'
  <2>1. Stage \notin Publishing => ~job.published /\ Stage \notin {"state", "head"}
    BY DEF JobHead, Swapped, Publishing
  <2> QED
    BY <1>1, <2>1 DEF JobHead, HasCommitted
<1>2. ASSUME Stage' \in {"none", "recheck"}, job' = NoJob
      PROVE  JobHead'
  BY <1>2 DEF JobHead, Swapped, Publishing
<1>3. ASSUME NEW c \in Commands, TakeLock(c)
      PROVE  JobHead'
  <2>1. job' = NoJob
    BY <1>3, TakeFrame DEF LostInv
  <2> QED
    BY <1>2, <1>3, <2>1, TakeFrame
<1>4. ASSUME NEW c \in Commands, Ends(c)
      PROVE  JobHead'
  BY <1>2, <1>4, Ended
<1>5. ASSUME NEW c \in Commands, Works(c), Decide(c)
      PROVE  JobHead'
  <2>1. /\ Stage' = "build" /\ Wanted' = Wanted /\ UNCHANGED <<committed, headFile, late>>
    BY <1>5, DecideEffect DEF stateFiles, families, histVars
  <2>2. /\ job'.published = FALSE
        /\ job'.committed => Wanted.head # NoHead
        /\ job'.clear => Wanted.head = NoHead
    BY <1>5, Decided DEF ClearDue
  <2>3. ~job'.committed /\ ~job'.clear =>
           IF HasCommitted THEN committed.head = Wanted.head
           ELSE Wanted.head \in {headFile, NoHead} /\ ("head" \in late \/ BlobsOf(Wanted.head) = {})
    BY <1>5, InStep
  <2> QED
    BY <2>1, <2>2, <2>3 DEF JobHead, HasCommitted, Swapped, Publishing
<1>6. ASSUME NEW c \in Commands, Works(c), BuildDelta(c) \/ BuildFull(c)
      PROVE  JobHead'
  <2>1. /\ Stage = "build" /\ Stage' = "prepare" /\ Wanted' = Wanted
        /\ UNCHANGED <<committed, headFile, late>>
    BY <1>6, Order, WorkFrame DEF BuildDelta, BuildFull, Running
  <2>2. /\ job.committed /\ job'.committed = job.committed /\ job'.clear = job.clear
        /\ job'.published = job.published
    BY <1>6, Builds
  <2>3. job'.next.docs = BlobsOf(Wanted.head) /\ Whole(job'.next) /\ ~job'.next.torn
    BY <1>6, StagedWhole
  <2>4. ~job.published
    BY <2>1 DEF JobHead, Swapped, Publishing
  <2>5. Wanted.head # NoHead
    BY <2>2 DEF JobHead
  <2> QED
    BY <2>1, <2>2, <2>3, <2>4, <2>5 DEF JobHead, Whole, Swapped, Publishing
<1>7. ASSUME NEW c \in Commands, Works(c), ~Decide(c), ~BuildDelta(c), ~BuildFull(c)
      PROVE  JobHead'
  <2>1. /\ job'.committed = job.committed /\ job'.clear = job.clear /\ job'.next = job.next
        /\ ~EndSwap(c) => job'.published = job.published
        /\ EndSwap(c) => job'.published
    BY <1>7, Keeps
  <2>2. /\ Wanted' = Wanted /\ headFile' = headFile /\ ("head" \in late' <=> "head" \in late)
        /\ ~WriteState(c) => empty' = empty
        /\ ~BeginSwap(c) /\ ~EndSwap(c) => committed' = committed
        /\ ~RecordCommitted(c) /\ ~Record(c) => manifest' = manifest
    BY <1>7, Order, WorkFrame
  <2>3. CASE BuildNothing(c) \/ PrepareNothing(c) \/ PrepareDelta(c) \/ PrepareStage(c)
             \/ ReadStage(c) \/ StageOutOfFiles(c)
    <3>1. Stage \in {"build", "prepare", "stage"} /\ Stage' \in {"prepare", "stage", "publish"}
      BY <1>7, <2>3, Order
    <3>2. committed' = committed /\ job'.published = job.published
      BY <2>1, <2>2, <3>1, <1>7, BeginSwapEffect, EndSwapEffect
    <3>3. Stage = "build" => ~job.committed
      BY <1>7, <3>1, <2>3, Order DEF BuildNothing
    <3>4. Stage = "build" => Stage' = "prepare"
      BY <1>7, <3>1, <2>3, Order
    <3> QED
      BY <2>1, <2>2, <3>1, <3>2, <3>3, <3>4 DEF JobHead, LostInv, HasCommitted, Whole, Swapped,
         Publishing
  <2>4. CASE PublishUncommitted(c)
    <3>1. Stage = "publish" /\ Stage' = "uncommitted" /\ ~job.committed /\ ~job.clear
      BY <1>7, <2>4, Order DEF PublishUncommitted
    <3>2. committed' = committed /\ job'.published = job.published
      BY <2>1, <2>2, <3>1, <1>7, BeginSwapEffect, EndSwapEffect
    <3> QED
      BY <2>1, <2>2, <3>1, <3>2 DEF JobHead, HasCommitted, Whole, Swapped, Publishing
  <2>5. CASE BeginSwap(c)
    <3>1. Stage = "publish" /\ Stage' = "swap" /\ (job.committed \/ job.clear) /\ committed' = committed
      BY <1>7, <2>5, BeginSwapEffect
    <3>2. job'.published = job.published
      BY <2>1, <3>1, <1>7, EndSwapEffect
    <3> QED
      BY <2>1, <2>2, <3>1, <3>2 DEF JobHead, HasCommitted, Whole, Swapped, Publishing
  <2>6. CASE EndSwap(c)
    <3>1. Stage = "swap" /\ Stage' = "recordCommitted" /\ committed' = job.next
      BY <1>7, <2>6, EndSwapEffect
    <3>2. (job.committed \/ job.clear) /\ job.next.docs = BlobsOf(Wanted.head)
      <4>1. ~job.committed => job.clear /\ Wanted.head = NoHead /\ job.next = NoCommitted
        BY <3>1 DEF JobHead
      <4>2. job.committed => job.next.docs = BlobsOf(Wanted.head)
        BY <3>1 DEF JobHead
      <4> QED
        BY <4>1, <4>2, Constants
    <3>3. job'.published
      BY <2>1, <2>6
    <3> QED
      BY <2>1, <2>2, <3>1, <3>2, <3>3 DEF JobHead, HasCommitted, Whole, Swapped, Publishing
  <2>7. CASE RecordCommitted(c) \/ Record(c)
    <3>1. /\ Stage \in {"recordCommitted", "record"} /\ manifest'.committed = committed
          /\ committed' = committed /\ job' = job
          /\ Stage' = IF Stage = "recordCommitted" THEN "recordBlobs" ELSE "state"
      BY <1>7, <2>7, RecordCommittedEffect, RecordEffect DEF families
    <3> QED
      BY <2>1, <2>2, <3>1 DEF JobHead, HasCommitted, Whole, Swapped, Publishing
  <2>8. CASE WriteState(c)
    <3>1. Stage = "state" /\ Stage' = "head" /\ committed' = committed /\ job' = job /\ manifest' = manifest
      BY <1>7, <2>8, WriteStateEffect DEF families
    <3>2. empty' = NoState \/ (empty' = Wanted /\ ~HasCommitted)
      BY <1>7, <2>8, WriteStateEffect DEF HasShard
    <3> QED
      BY <2>1, <2>2, <3>1, <3>2 DEF JobHead, HasCommitted, Whole, Swapped, Publishing
  <2>9. CASE \/ RecordBlobs(c) \/ Clean(c) \/ KeepUncommitted(c) \/ PublishStage(c) \/ RefreshEntries(c)
             \/ ReadDelta(c) \/ WriteDelta(c) \/ FallBack(c) \/ ReadFallBack(c)
    <3>1. /\ Stage \in {"recordBlobs", "uncommitted", "delta", "fallback"}
          /\ Stage' \in {"uncommitted", "delta", "fallback", "record"}
      BY <1>7, <2>9, Order
    <3>2. /\ committed' = committed /\ job'.published = job.published
          /\ manifest' = manifest /\ empty' = empty
      BY <2>1, <2>2, <3>1, <1>7, BeginSwapEffect, EndSwapEffect, RecordCommittedEffect,
         RecordEffect,
         WriteStateEffect
    <3> QED
      BY <2>1, <2>2, <3>1, <3>2 DEF JobHead, HasCommitted, Whole, Swapped, Publishing
  <2> QED
    BY <1>7, <2>3, <2>4, <2>5, <2>6, <2>7, <2>8, <2>9 DEF Works, Thinks, Writes
<1>8. ASSUME NEW c \in Commands, Rests(c)
      PROVE  JobHead'
  BY <1>1, <1>8, RestFrame DEF diskVars, families, stateFiles, recordVars, histVars
<1>9. CASE Repository \/ Damage \/ UNCHANGED vars
  BY <1>1, <1>9, RepoFrame, DamageFrame
     DEF diskVars, families, stateFiles, recordVars, histVars, vars, Stage, Wanted
<1> QED
  BY <1>3, <1>4, <1>5, <1>6, <1>7, <1>8, <1>9, Steps DEF Works

\* .head tells the commit of an emptied committed family, once its build ends.
LEMMA HeadStep == Inv /\ [Next]_vars => HeadInv'
<1>. SUFFICES ASSUME Inv, [Next]_vars PROVE HeadInv'
  OBVIOUS
<1>. TypeOK /\ HeadInv /\ JobHead /\ LostInv /\ MarkerInv /\ CommInv
  BY DEF Inv, BlobInv, TellsInv, JobInv
<1>. USE Empties
<1>1. NoManifest.committed # NoCommitted /\ BlobsOf(NoHead) = {}
  BY Constants
<1>2. ASSUME "head" \in late => "head" \in late', manifest' \in {manifest, NoManifest},
             UNCHANGED <<headFile, empty>>, HeadWindow => HeadWindow'
      PROVE  HeadInv'
  BY <1>1, <1>2 DEF HeadInv
<1>3. ASSUME headFile' = NoHead, empty' = NoState
      PROVE  HeadInv'
  BY <1>1, <1>3 DEF HeadInv
\* The commit of an emptied family that the build has published, or found in step.
<1>4. ASSUME Stage \in Swapped, ~HasCommitted, ~job.published => Stage \in {"state", "head"},
             "head" \notin late
      PROVE  /\ job.published => BlobsOf(Wanted.head) = {}
             /\ ~job.published => Wanted.head \in {headFile, NoHead} /\ BlobsOf(Wanted.head) = {}
  <2>1. job.published => BlobsOf(Wanted.head) = {}
    BY <1>4 DEF JobHead, HasCommitted
  <2>2. ~job.published => ~job.committed /\ ~job.clear /\ Stage \notin {"none", "recheck"}
    BY <1>4 DEF JobHead, Swapped, Publishing
  <2> QED
    BY <1>4, <2>1, <2>2 DEF JobHead
<1>5. ASSUME NEW c \in Commands, TakeLock(c)
      PROVE  HeadInv'
  <2>1. CASE UNCHANGED stateFiles /\ manifest' = manifest
    <3>1. ~HeadWindow
      BY <1>5, TakeFrame DEF HeadWindow, Swapped, Publishing
    <3> QED
      BY <1>2, <1>5, <2>1, <3>1, TakeFrame DEF stateFiles, histVars
  <2>2. CASE headFile' = NoHead /\ empty' = NoState
    BY <1>3, <2>2
  <2> QED
    BY <1>5, <2>1, <2>2, TakeFrame
<1>6. ASSUME NEW c \in Commands, Works(c)
      PROVE  HeadInv'
  <2>0. /\ headFile' = headFile /\ ("head" \in late' <=> "head" \in late)
        /\ ~WriteState(c) => empty' = empty
        /\ ~RecordCommitted(c) /\ ~Record(c) => manifest' = manifest
    BY <1>6, WorkFrame
  <2>1. CASE WriteState(c)
    <3>1. Stage = "state" /\ Stage' = "head" /\ job' = job /\ manifest' = manifest
      BY <1>6, <2>1, WriteStateEffect
    <3>2. HeadWindow /\ HeadWindow'
      BY <3>1 DEF HeadWindow, Swapped, Publishing
    <3>3. "head" \notin late /\ empty' # NoState => BlobsOf(empty'.head) = {}
      <4>1. empty' # NoState => empty' = Wanted /\ ~HasCommitted
        BY <1>6, <2>1, WriteStateEffect DEF HasShard
      <4> QED
        BY <1>4, <3>1, <4>1 DEF Swapped, Publishing
    <3> QED
      BY <2>0, <3>2, <3>3 DEF HeadInv
  <2>2. CASE RecordCommitted(c) \/ Record(c)
    <3>1. /\ Stage \in {"recordCommitted", "record"} /\ job' = job
          /\ Stage' = IF Stage = "recordCommitted" THEN "recordBlobs" ELSE "state"
      BY <1>6, <2>2, RecordCommittedEffect, RecordEffect
    <3>2. HeadWindow'
      BY <3>1 DEF HeadWindow, Swapped, Publishing, JobHead
    <3>3. empty' = empty
      BY <2>0, <3>1, <1>6, WriteStateEffect
    <3> QED
      BY <2>0, <3>2, <3>3 DEF HeadInv
  <2>3. CASE ~WriteState(c) /\ ~RecordCommitted(c) /\ ~Record(c)
    <3>1. HeadWindow => HeadWindow'
      <4>1. CASE Decide(c)
        BY <1>6, <4>1, Decided, DecideEffect DEF HeadWindow, Swapped, Publishing
      <4>2. CASE BuildDelta(c) \/ BuildFull(c)
        BY <1>6, <4>2, Builds, Order DEF HeadWindow, Swapped, Publishing
      <4>3. CASE EndSwap(c)
        BY <1>6, <4>3, EndSwapEffect DEF HeadWindow, Swapped, Publishing
      <4>4. CASE ~Decide(c) /\ ~BuildDelta(c) /\ ~BuildFull(c) /\ ~EndSwap(c)
        <5>1. job'.published = job.published
          BY <1>6, <4>4, Keeps
        <5>2. Stage' \in Swapped \ {"recordCommitted", "state", "head"}
              \/ Stage \notin Swapped \ {"recordCommitted"}
          BY <1>6, <2>3, <4>4, Order DEF Works, Thinks, Writes, Swapped, Publishing
        <5> QED
          BY <1>6, <2>3, <4>4, <5>1, <5>2, Order DEF HeadWindow, Works, Thinks, Writes, Swapped,
             Publishing
      <4> QED
        BY <4>1, <4>2, <4>3, <4>4
    <3> QED
      BY <1>2, <2>0, <2>3, <3>1
  <2> QED
    BY <2>1, <2>2, <2>3
<1>7. ASSUME NEW c \in Commands, Ends(c)
      PROVE  HeadInv'
  <2>1. manifest' = manifest /\ (Spared \/ Deleted \/ Finished \/ Died(c))
        /\ Stage = pc[c] /\ Wanted = want[c]
    BY <1>7, Endings, Ended
  <2>2. CASE Spared
    <3>1. ~HeadWindow
      BY <2>2 DEF Spared, HeadWindow, Swapped, Publishing, JobHead
    <3> QED
      BY <1>2, <2>1, <2>2, <3>1 DEF Spared, stateFiles
  <2>3. CASE Deleted
    BY <1>3, <2>3 DEF Deleted, DeleteStateFiles
  <2>4. CASE Finished
    <3>1. /\ Stage = "head" /\ headFile' = Wanted.head /\ empty' = empty
          /\ late' = IF job.published \/ headFile # Wanted.head THEN late \ {"head"} ELSE late
      BY <2>4 DEF Finished
    <3>2. manifest.committed = committed /\ (empty = NoState \/ (empty = Wanted /\ ~HasCommitted))
      BY <3>1 DEF JobHead
    <3>3. ASSUME "head" \notin late', ~HasCommitted
          PROVE  BlobsOf(Wanted.head) = {}
      <4>1. CASE job.published
        BY <3>3, <4>1 DEF JobHead, HasCommitted
      <4>2. CASE ~job.published
        <5>1. ~job.committed /\ ~job.clear
          BY <3>1, <4>2 DEF JobHead, Swapped, Publishing
        <5>2. Wanted.head \in {headFile, NoHead} /\ ("head" \in late \/ BlobsOf(Wanted.head) = {})
          BY <3>1, <3>3, <5>1 DEF JobHead
        <5> QED
          BY <1>1, <3>1, <3>3, <4>2, <5>2
      <4> QED
        BY <4>1, <4>2
    <3>4. manifest.committed = NoCommitted => ~HasCommitted
      BY <3>2 DEF HasCommitted
    <3> QED
      BY <2>1, <3>1, <3>2, <3>3, <3>4 DEF HeadInv
  <2>5. CASE Died(c)
    <3>1. CASE ~HeadWindow
      BY <1>2, <2>1, <2>5, <3>1 DEF Died, stateFiles
    <3>2. CASE HeadWindow
      <4>1. UNCHANGED <<headFile, empty>> /\ late' = late \cup LeftBehind(c)
        BY <2>5 DEF Died, stateFiles
      <4>2. manifest.committed = committed
        BY <3>2 DEF HeadWindow, JobHead, Swapped, Publishing
      <4>3. ASSUME "head" \notin late', manifest.committed = NoCommitted
            PROVE  BlobsOf(headFile) = {}
        <5>1. ~HasCommitted
          BY <4>2, <4>3 DEF HasCommitted
        <5>2. headFile = Wanted.head
          BY <2>1, <3>2, <4>1, <4>3, <5>1 DEF LeftBehind, HeadWindow, Swapped
        <5>3. Stage \in Swapped /\ (~job.published => Stage \in {"state", "head"})
          BY <3>2 DEF HeadWindow, Swapped, Publishing
        <5> QED
          BY <1>4, <4>1, <4>3, <5>1, <5>2, <5>3
      <4> QED
        BY <2>1, <4>1, <4>3 DEF HeadInv
    <3> QED
      BY <3>1, <3>2
  <2> QED
    BY <2>1, <2>2, <2>3, <2>4, <2>5
<1>8. ASSUME NEW c \in Commands, Rests(c)
      PROVE  HeadInv'
  BY <1>2, <1>8, RestFrame DEF diskVars, stateFiles, recordVars, histVars, HeadWindow
<1>9. CASE Repository \/ Damage \/ UNCHANGED vars
  BY <1>2, <1>9, RepoFrame, DamageFrame
     DEF diskVars, stateFiles, recordVars, histVars, vars, HeadWindow, Stage
<1> QED
  BY <1>5, <1>6, <1>7, <1>8, <1>9, Steps

\* The state files are those of the build that writes them, or deleted.
LEMMA StateFrame ==
    ASSUME TypeOK, [Next]_vars
    PROVE  \/ \E c \in Commands : Works(c) /\ WriteState(c)
           \/ state' \in {state, NoState} /\ empty' \in {empty, NoState}
<1>1. ASSUME NEW c \in Commands, Works(c), ~WriteState(c)
      PROVE  UNCHANGED <<state, empty>>
  BY <1>1, WorkFrame
<1>2. ASSUME NEW c \in Commands, Ends(c)
      PROVE  state' \in {state, NoState} /\ empty' \in {empty, NoState}
  BY <1>2, Endings DEF Spared, Deleted, Finished, Died, DeleteStateFiles, stateFiles
<1>3. ASSUME \/ \E c \in Commands : Rests(c) \/ TakeLock(c)
             \/ Repository \/ Damage \/ UNCHANGED vars
      PROVE  state' \in {state, NoState} /\ empty' \in {empty, NoState}
  BY <1>3, RestFrame, TakeFrame, RepoFrame, DamageFrame DEF diskVars, stateFiles, vars
<1> QED
  BY <1>1, <1>2, <1>3, Steps

\* The versions of files grow, and only the repository's steps make one.
LEMMA WorkStep ==
    ASSUME TypeOK, [Next]_vars
    PROVE  /\ \A f \in Files : work'[f] = work[f] \/ work'[f] = work[f] + 1
           /\ Repository \/ work' = work
<1>1. Repository \/ UNCHANGED repoVars
  BY Steps, RestFrame, TakeFrame, DamageFrame, Order, Ended DEF vars, repoVars
<1> QED
  BY <1>1, RepoFrame DEF repoVars

-----------------------------------------------------------------------------
(* The stats and the documents of a build.                                 *)

\* What one read gives for each file: its document, or its name after an error.
LEMMA FilesRead ==
    ASSUME TypeOK, NEW fs, Reads(fs)
    PROVE  /\ job'.mode = job.mode
           /\ \A f \in fs : DocNow(f) # 0 /\ job.entries[f] = 0 => f \in reborn'
           /\ \A f \in Files :
                 \/ f \notin fs /\ job'.docs[f] = job.docs[f] /\ job'.entries[f] = job.entries[f]
                 \/ f \in fs /\ job'.docs[f] = DocNow(f) /\ job'.entries[f] = job.entries[f]
                 \/ /\ f \in fs /\ job'.docs[f] = NameOnly /\ DocNow(f) # 0
                    /\ job'.entries[f] = IF job.entries[f] = 0 THEN 0 ELSE NameOnly
<1>. USE DocTypes
<1>1. \A f \in fs : DocNow(f) # 0 /\ job.entries[f] = 0 => f \in reborn'
  BY DEF Reads
<1>2. CASE job' = [job EXCEPT !.docs = [f \in Files |-> IF f \in fs THEN DocNow(f) ELSE @[f]]]
  <2>1. /\ job'.mode = job.mode /\ job'.entries = job.entries
        /\ job'.docs = [f \in Files |-> IF f \in fs THEN DocNow(f) ELSE job.docs[f]]
    BY <1>2 DEF TypeOK, Jobs
  <2> QED
    BY <1>1, <2>1
<1>3. ASSUME NEW kept \in (SUBSET {f \in fs : DocNow(f) # 0}) \ {{}},
             job' = [job EXCEPT
                   !.docs = [f \in Files |-> IF f \in kept THEN NameOnly
                                             ELSE IF f \in fs THEN DocNow(f) ELSE @[f]],
                   !.entries = [f \in Files |-> IF f \in kept /\ @[f] # 0 THEN NameOnly ELSE @[f]]]
      PROVE  /\ job'.mode = job.mode
             /\ \A f \in Files :
                 \/ f \notin fs /\ job'.docs[f] = job.docs[f] /\ job'.entries[f] = job.entries[f]
                 \/ f \in fs /\ job'.docs[f] = DocNow(f) /\ job'.entries[f] = job.entries[f]
                 \/ /\ f \in fs /\ job'.docs[f] = NameOnly /\ DocNow(f) # 0
                    /\ job'.entries[f] = IF job.entries[f] = 0 THEN 0 ELSE NameOnly
  <2>1. /\ job'.mode = job.mode
        /\ job'.docs = [f \in Files |-> IF f \in kept THEN NameOnly
                                        ELSE IF f \in fs THEN DocNow(f) ELSE job.docs[f]]
        /\ job'.entries = [f \in Files |-> IF f \in kept /\ job.entries[f] # 0 THEN NameOnly
                                           ELSE job.entries[f]]
    BY <1>3 DEF TypeOK, Jobs
  <2> QED
    BY <2>1
<1> QED
  BY <1>1, <1>2, <1>3 DEF Reads

\* The other steps that a build takes with the uncommitted family.
LEMMA Prepared ==
    ASSUME TypeOK, NEW c \in Commands, Works(c)
    PROVE  /\ PrepareDelta(c) =>
                 /\ job'.mode = "delta" /\ job'.docs = job.docs /\ job'.entries = EntriesNow(Wanted)
                 /\ DeltaPossible /\ IsDirty(Wanted)
                 /\ stale => "delta" \in late'
           /\ PrepareStage(c) =>
                 /\ job'.mode = "stage" /\ job'.docs = job.docs /\ job'.entries = EntriesNow(Wanted)
                 /\ IsDirty(Wanted)
           /\ StageOutOfFiles(c) =>
                 job'.mode = "fds" /\ job'.docs = job.docs /\ job'.entries = job.entries
           /\ FallBack(c) =>
                 job'.mode = "stage" /\ job'.docs = NoDocs /\ job'.entries = EntriesNow(Wanted)
           /\ PrepareNothing(c) => ~IsDirty(Wanted)
           /\ KeepUncommitted(c) => job.mode = "fds"
           /\ ReadDelta(c) => job.mode = "delta" /\ Changed # {}
<1>1. Wanted = want[c] /\ job \in Jobs
  BY Order DEF TypeOK
<1>2. PrepareDelta(c) =>
                 /\ job'.mode = "delta" /\ job'.docs = job.docs /\ job'.entries = EntriesNow(Wanted)
                 /\ DeltaPossible /\ IsDirty(Wanted)
                 /\ stale => "delta" \in late'
  BY <1>1 DEF PrepareDelta, DeltaPossible, Jobs
<1>3. PrepareStage(c) =>
                 /\ job'.mode = "stage" /\ job'.docs = job.docs /\ job'.entries = EntriesNow(Wanted)
                 /\ IsDirty(Wanted)
  BY <1>1 DEF PrepareStage, Jobs
<1>4. StageOutOfFiles(c) => job'.mode = "fds" /\ job'.docs = job.docs /\ job'.entries = job.entries
  BY <1>1 DEF StageOutOfFiles, Jobs
<1>5. FallBack(c) => job'.mode = "stage" /\ job'.docs = NoDocs /\ job'.entries = EntriesNow(Wanted)
  BY <1>1 DEF FallBack, Jobs
<1>6. /\ PrepareNothing(c) => ~IsDirty(Wanted)
      /\ KeepUncommitted(c) => job.mode = "fds"
      /\ ReadDelta(c) => job.mode = "delta" /\ Changed # {}
  BY <1>1 DEF PrepareNothing, KeepUncommitted, ReadDelta
<1> QED
  BY <1>2, <1>3, <1>4, <1>5, <1>6

\* The steps that take stats or read files.
Gathers(c) ==
    \/ Decide(c) \/ PrepareDelta(c) \/ PrepareStage(c) \/ StageOutOfFiles(c) \/ FallBack(c)
    \/ ReadStage(c) \/ ReadDelta(c) \/ ReadFallBack(c)

\* No other step changes what the build has gathered.
LEMMA Gathered ==
    ASSUME TypeOK, NEW c \in Commands, Works(c), ~Gathers(c)
    PROVE  job'.mode = job.mode /\ job'.docs = job.docs /\ job'.entries = job.entries
<1>1. CASE BuildDelta(c) \/ BuildFull(c)
  BY <1>1, Builds
<1>2. CASE EndSwap(c)
  BY <1>2, Keeps DEF Decide, BuildDelta, BuildFull, EndSwap
<1>3. CASE ~BuildDelta(c) /\ ~BuildFull(c) /\ ~EndSwap(c)
  <2>1. CASE Thinks(c)
    BY <1>3, <2>1 DEF Thinks, Gathers, BuildNothing, PrepareNothing, PublishUncommitted,
       KeepUncommitted
  <2>2. CASE Writes(c)
    BY <1>3, <2>2, BeginSwapEffect, RecordCommittedEffect, RecordBlobsEffect, CleanEffect,
       PublishStageEffect, RefreshEntriesEffect, WriteDeltaEffect, RecordEffect, WriteStateEffect
       DEF Writes, Gathers
  <2> QED
    BY <2>1, <2>2 DEF Works
<1> QED
  BY <1>1, <1>2, <1>3

-----------------------------------------------------------------------------
(* Versions.                                                               *)

\* A version that is not from the future is not of a later file.
LEMMA Later ==
    ASSUME TypeOK, [Next]_vars, NEW f \in Files, NEW v \in Nat, v <= work[f] \/ v >= NameOnly
    PROVE  /\ v <= work'[f] \/ v >= NameOnly
           /\ work'[f] = v => work[f] = v
<1>1. work[f] \in 1..MaxVersion /\ (work'[f] = work[f] \/ work'[f] = work[f] + 1)
  BY WorkStep, DocTypes
<1>2. work'[f] \in 1..MaxVersion
  BY TypeStep DEF TypeOK
<1> QED
  BY <1>1, <1>2, Constants

\* What was told of versions stays true.
LEMMA Stays ==
    ASSUME TypeOK, [Next]_vars, NEW files \in [Files -> Nat], Past(files), NEW docs
    PROVE  /\ Past(files)' /\ reborn \subseteq reborn'
           /\ \A f \in Files : Told1(files, docs, work, f) => Told1(files, docs, work', f)
           /\ \A f \in Files : Tells1(files, docs, work, f) => Tells1(files, docs, work', f)
           /\ Told(files, docs, work, reborn) => Told(files, docs, work', reborn')
           /\ Tells(files, docs, work, reborn) => Tells(files, docs, work', reborn')
<1>1. \A f \in Files : /\ files[f] <= work'[f] \/ files[f] >= NameOnly
                       /\ work'[f] = files[f] => work[f] = files[f]
  BY Later DEF Past
<1>2. Past(files)'
  BY <1>1 DEF Past
<1>3. \A f \in Files : Told1(files, docs, work, f) => Told1(files, docs, work', f)
  BY <1>1 DEF Told1, DocOf
<1>4. \A f \in Files : Tells1(files, docs, work, f) => Tells1(files, docs, work', f)
  BY <1>1 DEF Tells1
<1>5. reborn \subseteq reborn'
  BY Steps, RestFrame, RepoFrame, DamageFrame, TakeFrame, ThinkFrame, WriteFrame, Ended
     DEF Works, vars, histVars
<1> QED
  BY <1>2, <1>3, <1>4, <1>5 DEF Told, Tells

\* The versions that the index and its searches name.
LEMMA Versions ==
    ASSUME TypeOK
    PROVE  /\ \A c \in Commands : want[c].files \in [Files -> Nat]
           /\ state.files \in [Files -> Nat] /\ empty.files \in [Files -> Nat]
           /\ entries.entries \in [Files -> Nat] /\ job.entries \in [Files -> Nat]
           /\ Wanted.files \in [Files -> 0..MaxVersion]
<1>1. \A n \in Nat : 0..n \subseteq Nat
  OBVIOUS
<1>2. \A s \in RepoStates : s.files \in [Files -> 0..MaxVersion] /\ s.files \in [Files -> Nat]
  BY <1>1, Constants DEF RepoStates
<1>3. NoState.files \in [Files -> Nat] /\ NoEntries.entries \in [Files -> Nat]
  BY Constants DEF NoState, NoEntries
<1>4. \A c \in Commands : want[c].files \in [Files -> Nat]
  BY <1>2 DEF TypeOK
<1>5. state.files \in [Files -> Nat] /\ empty.files \in [Files -> Nat]
  BY <1>2, <1>3 DEF TypeOK
<1>6. entries.entries \in [Files -> Nat] /\ job.entries \in [Files -> Nat]
  BY <1>1, <1>3, Constants DEF TypeOK, UncommittedManifests, Jobs
<1>7. Wanted \in RepoStates
  BY Starts DEF Wanted, TypeOK
<1> QED
  BY <1>2, <1>4, <1>5, <1>6, <1>7

\* So are those of the state that the build records.
LEMMA WantedPast ==
    ASSUME TypeOK, PastInv
    PROVE  Wanted.files \in [Files -> Nat] /\ Past(Wanted.files)
<1>1. Past(NoDocs) /\ NoDocs \in [Files -> Nat]
  BY DocTypes DEF Past, NoDocs
<1> QED
  BY <1>1, Versions DEF PastInv, Wanted, Idle, TypeOK

\* No version is from the future: each was the version of the file at some time.
LEMMA PastStep == Inv /\ [Next]_vars => PastInv'
<1>. SUFFICES ASSUME Inv, [Next]_vars PROVE PastInv'
  OBVIOUS
<1>. TypeOK /\ PastInv
  BY DEF Inv, BlobInv, TellsInv
<1>. DEFINE Fine(v) == \A f \in Files : v[f] <= work'[f] \/ v[f] >= NameOnly
<1>1. ASSUME NEW v \in [Files -> Nat], Past(v)
      PROVE  Fine(v)
  BY <1>1, Later DEF Past
<1>2. Past(NoDocs) /\ Past(NoState.files) /\ Past(NoEntries.entries)
      /\ NoDocs \in [Files -> Nat] /\ NoState.files \in [Files -> Nat] /\ NoEntries.entries \in [Files -> Nat]
  BY DocTypes, Constants DEF Past, NoDocs, NoState, NoEntries
<1>3. /\ \A c \in Commands : Fine(want[c].files)
      /\ Fine(state.files) /\ Fine(empty.files) /\ Fine(entries.entries) /\ Fine(job.entries)
      /\ Fine(NoDocs) /\ Fine(NoState.files) /\ Fine(NoEntries.entries)
  BY <1>1, <1>2, Versions DEF PastInv
<1>. HIDE DEF Fine
<1>4. Fine(Wanted.files)
  BY <1>3 DEF Wanted, TypeOK, Idle
<1>5. \A c \in Commands : Fine(want'[c].files)
  <2>1. ASSUME NEW c \in Commands, Rests(c)
        PROVE  \A d \in Commands : Fine(want'[d].files)
    <3>1. PICK s \in {Idle, Captured(c), RepoState} : want' = [want EXCEPT ![c] = s]
      BY <2>1, RestFrame
    <3>2. \A f \in Files : Captured(c).files[f] \in {0, work[f]} /\ RepoState.files[f] \in {0, work[f]}
      <4>1. Captured(c).files = StatNow(want[c].files)
        BY DEF Captured, TypeOK, RepoStates
      <4> QED
        BY <4>1 DEF StatNow, RepoState
    <3>3. work' = work
      BY <2>1, RestFrame DEF repoVars
    <3>4. \A f \in Files : work[f] \in Nat
      BY DocTypes
    <3>5. Fine(Captured(c).files) /\ Fine(RepoState.files) /\ Fine(Idle.files)
      BY <1>3, <3>2, <3>3, <3>4 DEF Fine, Idle
    <3> QED
      BY <1>3, <3>1, <3>5 DEF TypeOK
  <2>2. ASSUME NEW c \in Commands, Ends(c)
        PROVE  \A d \in Commands : Fine(want'[d].files)
    BY <1>3, <2>2, Ended DEF TypeOK, Idle
  <2>3. ASSUME want' = want
        PROVE  \A d \in Commands : Fine(want'[d].files)
    BY <1>3, <2>3
  <2> QED
    BY <2>1, <2>2, <2>3, Steps, RepoFrame, DamageFrame, TakeFrame, Order DEF vars
<1>6. Fine(state'.files) /\ Fine(empty'.files)
  <2>1. ASSUME NEW c \in Commands, Works(c), WriteState(c)
        PROVE  state' \in {NoState, Wanted} /\ empty' \in {NoState, Wanted}
    BY <2>1, WriteStateEffect
  <2> QED
    BY <1>3, <1>4, <2>1, StateFrame
<1>7. Fine(entries'.entries)
  <2>1. ASSUME NEW c \in Commands, Works(c)
        PROVE  entries' \in {entries, NoEntries} \/ entries'.entries = job.entries
    <3>1. WriteEntries(c) => entries' \in {entries, NoEntries} \/ entries'.entries = job.entries
      BY DEF WriteEntries
    <3> QED
      BY <2>1, <3>1, WorkFrame, CleanEffect, PublishStageEffect, WriteDeltaEffect,
         RefreshEntriesEffect
  <2>2. ASSUME NEW c \in Commands, Ends(c)
        PROVE  entries' \in {entries, NoEntries}
    BY <2>2, Endings
  <2>3. ASSUME \/ \E c \in Commands : Rests(c) \/ TakeLock(c)
               \/ Repository \/ Damage \/ UNCHANGED vars
        PROVE  entries' = entries
    BY <2>3, RestFrame, TakeFrame, RepoFrame, DamageFrame DEF diskVars, recordVars, vars
  <2> QED
    BY <1>3, <2>1, <2>2, <2>3, Steps
<1>8. Fine(job'.entries)
  <2>1. ASSUME NEW c \in Commands, Works(c), Gathers(c)
        PROVE  Fine(job'.entries)
    <3>1. CASE Decide(c)
      BY <1>3, <2>1, <3>1, Decided
    <3>2. CASE PrepareDelta(c) \/ PrepareStage(c) \/ FallBack(c)
      <4>1. job'.entries = EntriesNow(Wanted) /\ work' = work
        BY <2>1, <3>2, Prepared, Order DEF repoVars
      <4>2. \A f \in Files : work[f] \in Nat
        BY DocTypes
      <4> QED
        BY <4>1, <4>2 DEF Fine, EntriesNow, DocNow
    <3>3. CASE StageOutOfFiles(c)
      BY <1>3, <2>1, <3>3, Prepared
    <3>4. ASSUME NEW fs, Reads(fs)
          PROVE  Fine(job'.entries)
      <4>1. \A f \in Files : job'.entries[f] \in {job.entries[f], 0, NameOnly}
        BY <3>4, FilesRead
      <4>2. \A f \in Files : work'[f] \in Nat /\ NameOnly \in Nat
        BY TypeStep, Constants DEF TypeOK
      <4> QED
        BY <1>3, <4>1, <4>2 DEF Fine
    <3> QED
      BY <2>1, <3>1, <3>2, <3>3, <3>4 DEF Gathers, ReadStage, ReadDelta, ReadFallBack
  <2>2. ASSUME NEW c \in Commands, Works(c), ~Gathers(c)
        PROVE  Fine(job'.entries)
    BY <1>3, <2>2, Gathered
  <2>3. ASSUME NEW c \in Commands, Ends(c)
        PROVE  Fine(job'.entries)
    BY <1>3, <2>3, Ended, Empties
  <2>4. ASSUME \/ \E c \in Commands : Rests(c) \/ TakeLock(c)
               \/ Repository \/ Damage \/ UNCHANGED vars
        PROVE  job' = job
    BY <2>4, RestFrame, TakeFrame, RepoFrame, DamageFrame DEF vars
  <2> QED
    BY <1>3, <2>1, <2>2, <2>3, <2>4, Steps
<1> QED
  BY <1>5, <1>6, <1>7, <1>8 DEF PastInv, Past, Fine

\* An empty index is of removed files: a later edit is of a later version.
LEMMA EmptyStep == Inv /\ [Next]_vars => EmptyInv'
<1>. SUFFICES ASSUME Inv, [Next]_vars PROVE EmptyInv'
  OBVIOUS
<1>. TypeOK /\ PastInv /\ EmptyInv /\ WrittenInv
  BY DEF Inv, BlobInv, TellsInv, JobInv
<1>1. CASE empty' \in {empty, NoState}
  <2>1. \A f \in Files : work'[f] = empty.files[f] => work[f] = empty.files[f]
    BY Versions, Later DEF PastInv, Past
  <2> QED
    BY <1>1, <2>1 DEF EmptyInv
<1>2. ASSUME NEW c \in Commands, Works(c), WriteState(c), empty' # NoState
      PROVE  EmptyInv'
  <2>1. Stage = "state" /\ empty' = Wanted /\ ~Partial /\ ~uncommitted.shards /\ work' = work
    BY <1>2, WriteStateEffect DEF HasShard, repoVars
  <2>2. \A f \in Files : Wanted.files[f] # 0 /\ Wanted.files[f] = work[f] => DocOf(work, f) = 0
    BY <2>1 DEF WrittenInv, Partial
  <2>3. \A f \in Files : work[f] # 0
    BY DocTypes
  <2> QED
    BY <2>1, <2>2, <2>3 DEF EmptyInv, DocOf
<1> QED
  BY <1>1, <1>2, StateFrame

-----------------------------------------------------------------------------
(* The uncommitted family.                                                 *)

\* No build is what no lock holder and its repair know.
LEMMA Unstarted ==
    ASSUME Inv, NEW c \in Commands, TakeLock(c) \/ Ends(c)
    PROVE  job' = NoJob /\ Stage' \in {"none", "recheck"}
<1>1. ASSUME TakeLock(c)
      PROVE  job' = NoJob /\ Stage' = "recheck"
  BY <1>1, TakeFrame DEF Inv, BlobInv, LostInv
<1> QED
  BY <1>1, Ended DEF Inv, BlobInv

\* How a build updates the family, step by step.
LEMMA ModeStep == Inv /\ [Next]_vars => ModeInv'
<1>. SUFFICES ASSUME Inv, [Next]_vars PROVE ModeInv'
  OBVIOUS
<1>. TypeOK /\ ModeInv
  BY DEF Inv, BlobInv, TellsInv, JobInv
<1>1. ASSUME UNCHANGED <<Stage, Wanted, job>>
      PROVE  ModeInv'
  BY <1>1 DEF ModeInv, IsDirty
<1>2. ASSUME NEW c \in Commands, TakeLock(c) \/ Ends(c)
      PROVE  ModeInv'
  BY <1>2, Unstarted, Empties DEF ModeInv
<1>3. ASSUME NEW c \in Commands, Works(c)
      PROVE  ModeInv'
  <2>1. Wanted' = Wanted
    BY <1>3, Order
  <2>2. CASE Decide(c)
    BY <1>3, <2>2, Decided DEF ModeInv
  <2>3. CASE PrepareDelta(c) \/ PrepareStage(c) \/ StageOutOfFiles(c)
    <3>1. /\ job.docs = NoDocs /\ job'.docs = job.docs
          /\ Stage = "stage" => job.mode # "none"
      BY <1>3, <2>3, Prepared, Order DEF ModeInv
    <3> QED
      BY <1>3, <2>1, <2>3, <3>1, Prepared, Order DEF ModeInv, IsDirty
  <2>4. CASE ReadStage(c) \/ ReadDelta(c) \/ ReadFallBack(c)
    <3>1. job'.mode = job.mode
      BY <2>4, FilesRead DEF ReadStage, ReadDelta, ReadFallBack
    <3> QED
      BY <1>3, <2>1, <2>4, <3>1, Prepared, Order DEF ModeInv, IsDirty
  <2>5. CASE FallBack(c)
    BY <1>3, <2>1, <2>5, Prepared, Order DEF ModeInv, IsDirty
  <2>6. CASE ~Gathers(c)
    <3>1. job'.mode = job.mode /\ job'.docs = job.docs
      BY <1>3, <2>6, Gathered
    <3>2. ASSUME PrepareNothing(c) PROVE ModeInv'
      BY <1>3, <2>1, <3>1, <3>2, Prepared, Order DEF ModeInv, IsDirty
    <3>3. ASSUME BuildDelta(c) \/ BuildFull(c) \/ BuildNothing(c) PROVE ModeInv'
      BY <1>3, <2>1, <3>1, <3>3, Order DEF ModeInv, IsDirty
    <3>4. ASSUME \/ PublishUncommitted(c) \/ BeginSwap(c) \/ EndSwap(c) \/ RecordCommitted(c)
                 \/ RecordBlobs(c)
          PROVE  ModeInv'
      <4>1. /\ Stage \in {"publish", "swap", "recordCommitted", "recordBlobs"}
            /\ Stage' \in {"swap", "recordCommitted", "recordBlobs", "uncommitted"}
        BY <1>3, <3>4, Order
      <4> QED
        BY <2>1, <3>1, <4>1 DEF ModeInv, IsDirty
    <3>5. ASSUME \/ Clean(c) \/ KeepUncommitted(c) \/ PublishStage(c) \/ RefreshEntries(c)
                 \/ WriteDelta(c) \/ Record(c) \/ WriteState(c)
          PROVE  ModeInv'
      <4>1. /\ Stage \in {"uncommitted", "delta", "record", "state"}
            /\ Stage' \in {"record", "state", "head"}
        BY <1>3, <3>5, Order
      <4> QED
        BY <2>1, <3>1, <4>1 DEF ModeInv, IsDirty
    <3> QED
      BY <1>3, <2>6, <3>2, <3>3, <3>4, <3>5 DEF Works, Thinks, Writes, Gathers
  <2> QED
    BY <2>2, <2>3, <2>4, <2>5, <2>6 DEF Gathers
<1>4. ASSUME NEW c \in Commands, Rests(c)
      PROVE  ModeInv'
  BY <1>1, <1>4, RestFrame
<1>5. CASE Repository \/ Damage \/ UNCHANGED vars
  BY <1>1, <1>5, RepoFrame, DamageFrame DEF vars, Stage, Wanted
<1> QED
  BY <1>2, <1>3, <1>4, <1>5, Steps

\* The stats that the build has taken are of the files that its state names.
LEMMA StatsStep == Inv /\ [Next]_vars => StatsInv'
<1>. SUFFICES ASSUME Inv, [Next]_vars PROVE StatsInv'
  OBVIOUS
<1>. TypeOK /\ ModeInv /\ StatsInv /\ PastInv
  BY DEF Inv, BlobInv, TellsInv, JobInv
<1>1. \A f \in Files : /\ work[f] \in 1..MaxVersion /\ work'[f] \in 1..MaxVersion
                       /\ work'[f] = Wanted.files[f] => work[f] = Wanted.files[f]
                       /\ work'[f] = job.entries[f] => work[f] = job.entries[f]
  BY WantedPast, Versions, Later, DocTypes, TypeStep DEF Past, PastInv, TypeOK
<1>2. ASSUME Wanted' = Wanted, job'.mode = job.mode, job'.docs = job.docs, job'.entries = job.entries,
             Stage' \in Before => Stage \in Before
      PROVE  StatsInv'
  BY <1>1, <1>2 DEF StatsInv, Kept, DocOf
<1>3. ASSUME NEW c \in Commands, TakeLock(c) \/ Ends(c)
      PROVE  StatsInv'
  BY <1>3, Unstarted, Empties DEF StatsInv
<1>4. ASSUME NEW c \in Commands, Works(c)
      PROVE  StatsInv'
  <2>1. Wanted' = Wanted /\ work' = work
    BY <1>4, Order DEF repoVars
  <2>2. CASE Decide(c)
    BY <1>4, <2>2, Decided DEF StatsInv
  <2>3. CASE PrepareDelta(c) \/ PrepareStage(c) \/ FallBack(c)
    <3>1. job'.entries = EntriesNow(Wanted)
      BY <1>4, <2>3, Prepared
    <3> QED
      BY <1>1, <2>1, <3>1 DEF StatsInv, EntriesNow, DocNow, DocOf
  <2>4. CASE StageOutOfFiles(c)
    BY <1>4, <2>4, Prepared DEF StatsInv
  <2>5. ASSUME NEW fs, Reads(fs), Stage \in Before, job.mode \in {"stage", "delta"}, job.docs = NoDocs
        PROVE  StatsInv'
    <3>1. ~Kept /\ NameOnly \notin 0..MaxVersion
      BY <2>5, Constants DEF Kept, NoDocs
    <3>2. ASSUME NEW f \in Files
          PROVE  /\ Wanted.files[f] = 0 => job'.entries[f] = 0
                 /\ Wanted.files[f] # 0 /\ Wanted.files[f] = work[f] /\ job'.docs[f] # NameOnly
                      => job'.entries[f] = DocOf(work, f)
                 /\ job'.entries[f] = work[f] => work[f] \notin Removals
      BY <1>1, <2>5, <3>1, FilesRead, Constants DEF StatsInv
    <3> QED
      BY <2>1, <3>2 DEF StatsInv, Kept, DocOf
  <2>6. CASE ReadStage(c) \/ ReadDelta(c) \/ ReadFallBack(c)
    <3>1. Stage \in Before /\ job.mode \in {"stage", "delta"} /\ job.docs = NoDocs
      BY <1>4, <2>6, Order, Prepared DEF ModeInv, Before, Locked, Publishing
    <3> QED
      BY <2>5, <2>6, <3>1 DEF ReadStage, ReadDelta, ReadFallBack
  <2>7. CASE ~Gathers(c)
    <3>1. Stage' \in Before => Stage \in Before
      BY <1>4, Order DEF Works, Thinks, Writes, Before, Locked, Publishing
    <3> QED
      BY <1>2, <1>4, <2>1, <2>7, <3>1, Gathered
  <2> QED
    BY <2>2, <2>3, <2>4, <2>6, <2>7 DEF Gathers
<1>5. ASSUME NEW c \in Commands, Rests(c)
      PROVE  StatsInv'
  BY <1>2, <1>5, RestFrame
<1>6. CASE Repository \/ Damage \/ UNCHANGED vars
  BY <1>2, <1>6, RepoFrame, DamageFrame DEF vars, Stage, Wanted
<1> QED
  BY <1>3, <1>4, <1>5, <1>6, Steps

\* The documents that the build has read are those of the files whose stats it took.
LEMMA DocsStep == Inv /\ [Next]_vars => DocsInv'
<1>. SUFFICES ASSUME Inv, [Next]_vars PROVE DocsInv'
  OBVIOUS
<1>. TypeOK /\ ModeInv /\ StatsInv /\ DocsInv /\ PastInv
  BY DEF Inv, BlobInv, TellsInv, JobInv
<1>1. Wanted.files \in [Files -> Nat] /\ Past(Wanted.files)
  BY WantedPast
<1>2. /\ \A f \in Files : Told1(Wanted.files, job.docs, work, f) => Told1(Wanted.files, job.docs, work', f)
      /\ \A f \in Files : Tells1(job.entries, job.docs, work, f) => Tells1(job.entries, job.docs, work', f)
      /\ Tells(job.entries, job.docs, work, reborn) => Tells(job.entries, job.docs, work', reborn')
      /\ reborn \subseteq reborn'
  BY <1>1, Stays, Versions DEF PastInv
<1>3. ASSUME Wanted' = Wanted, job'.mode = job.mode, job'.docs = job.docs, job'.entries = job.entries,
             Stage' \in Before \ Reading /\ job.mode = "stage" => Stage \in Before \ Reading,
             Stage' = "delta" => Stage = "delta" /\ entries' = entries
      PROVE  DocsInv'
  <2>1. Kept' <=> Kept
    BY <1>3 DEF Kept
  <2>2. Stage' = "delta" => Changed' = Changed
    BY <1>3 DEF Changed
  <2>3. ASSUME job'.mode = "stage", Stage' \in Before \ Reading
        PROVE  /\ Tells(job.entries, job.docs, work', reborn')
               /\ ~Kept => \A f \in Files : Told1(Wanted.files, job.docs, work', f)
    BY <1>2, <1>3, <2>3 DEF DocsInv
  <2>4. ASSUME Stage' = "delta", NEW f \in Changed \ reborn'
        PROVE  /\ Tells1(job.entries, job.docs, work', f)
               /\ ~Kept => Told1(Wanted.files, job.docs, work', f)
    BY <1>2, <1>3, <2>4 DEF DocsInv, Changed
  <2> QED
    BY <1>3, <2>1, <2>2, <2>3, <2>4 DEF DocsInv, Tells, Tells1, Told1, DocOf
<1>4. ASSUME NEW c \in Commands, TakeLock(c) \/ Ends(c)
      PROVE  DocsInv'
  BY <1>4, Unstarted, Empties DEF DocsInv
<1>5. ASSUME NEW c \in Commands, Works(c)
      PROVE  DocsInv'
  <2>1. Wanted' = Wanted /\ work' = work
    BY <1>5, Order DEF repoVars
  <2>2. \A f \in Files : work[f] \in 1..MaxVersion /\ work[f] # 0 /\ work[f] # NameOnly
    BY DocTypes, Constants
  <2>3. CASE Decide(c) \/ PrepareStage(c) \/ PrepareDelta(c) \/ StageOutOfFiles(c) \/ FallBack(c)
    <3>1. /\ Stage' \in {"build", "stage", "publish", "fallback"}
          /\ job'.mode = "stage" => Stage' \in Reading
      BY <1>5, <2>3, Order, Decided, Prepared DEF Reading
    <3> QED
      BY <3>1 DEF DocsInv
  <2>4. ASSUME ReadStage(c) \/ ReadFallBack(c)
        PROVE  DocsInv'
    <3>1. /\ Stage \in Before /\ job.mode = "stage" /\ job.docs = NoDocs
          /\ Reads(Listed(Wanted)) /\ Stage' # "delta" /\ job'.mode = "stage"
      BY <1>5, <2>4, Order, FilesRead
         DEF ModeInv, Before, Locked, Publishing, ReadStage, ReadFallBack
    <3>2. ~Kept
      BY <3>1, Constants DEF Kept, NoDocs
    <3>3. ASSUME NEW f \in Files
          PROVE  /\ f \notin reborn' => Tells1(job'.entries, job'.docs, work, f)
                 /\ job'.docs[f] # NameOnly => Told1(Wanted.files, job'.docs, work, f)
      <4>1. /\ Wanted.files[f] = 0 => job.entries[f] = 0
            /\ job.entries[f] = work[f] => work[f] \notin Removals
        BY <3>1 DEF StatsInv
      <4>2. job.docs[f] = 0
        BY <3>1 DEF NoDocs
      <4>3. CASE f \notin Listed(Wanted)
        <5>1. Wanted.files[f] = 0 /\ job'.docs[f] = 0 /\ job'.entries[f] = 0
          BY <3>1, <4>1, <4>2, <4>3, FilesRead DEF Listed
        <5> QED
          BY <2>2, <5>1 DEF Tells1, Told1
      <4>4. CASE f \in Listed(Wanted) /\ job'.docs[f] = DocNow(f) /\ job'.entries[f] = job.entries[f]
        <5>1. Wanted.files[f] # 0 /\ (DocNow(f) # 0 /\ job.entries[f] = 0 => f \in reborn')
          BY <3>1, <4>4, FilesRead DEF Listed
        <5> QED
          BY <2>2, <4>1, <4>4, <5>1 DEF Tells1, Told1, DocNow, DocOf
      <4>5. CASE /\ f \in Listed(Wanted) /\ job'.docs[f] = NameOnly /\ DocNow(f) # 0
                 /\ job'.entries[f] = IF job.entries[f] = 0 THEN 0 ELSE NameOnly
        <5>1. job.entries[f] = 0 => f \in reborn'
          BY <3>1, <4>5, FilesRead
        <5> QED
          BY <2>2, <4>5, <5>1, Constants DEF Tells1
      <4> QED
        BY <3>1, <4>3, <4>4, <4>5, FilesRead
    <3> QED
      BY <2>1, <3>1, <3>3 DEF DocsInv, Kept, Tells, Tells1, Told1, DocOf
  <2>5. ASSUME ReadDelta(c)
        PROVE  DocsInv'
    <3>. DEFINE fs == {f \in Changed : job.entries[f] # 0}
    <3>1. /\ Stage = "uncommitted" /\ Stage' = "delta" /\ job.mode = "delta" /\ job.docs = NoDocs
          /\ Reads(fs) /\ job'.mode = "delta" /\ entries' = entries
      BY <1>5, <2>5, Order, FilesRead, WorkFrame
         DEF ModeInv, ReadDelta, diskVars, recordVars
    <3>2. ~Kept
      BY <3>1, Constants DEF Kept, NoDocs
    <3>3. ASSUME NEW f \in Files, f \in Changed', f \notin reborn'
          PROVE  /\ Tells1(job'.entries, job'.docs, work, f)
                 /\ job'.docs[f] # NameOnly => Told1(Wanted.files, job'.docs, work, f)
      <4>1. /\ Wanted.files[f] = 0 => job.entries[f] = 0
            /\ Wanted.files[f] # 0 /\ Wanted.files[f] = work[f] => job.entries[f] = DocOf(work, f)
            /\ job.entries[f] = work[f] => work[f] \notin Removals
        BY <3>1, <3>2 DEF StatsInv, Before, Locked, Publishing
      <4>2. job.docs[f] = 0
        BY <3>1 DEF NoDocs
      <4>3. CASE f \notin fs /\ job'.docs[f] = job.docs[f] /\ job'.entries[f] = job.entries[f]
        <5>1. job.entries[f] = 0
          BY <3>1, <3>3, <4>3 DEF Changed
        <5> QED
          BY <2>2, <4>1, <4>2, <4>3, <5>1 DEF Tells1, Told1
      <4>4. CASE f \in fs /\ job'.docs[f] = DocNow(f) /\ job'.entries[f] = job.entries[f]
        BY <2>2, <4>1, <4>4 DEF Tells1, Told1, DocNow, DocOf
      <4>5. CASE /\ f \in fs /\ job'.docs[f] = NameOnly
                 /\ job'.entries[f] = IF job.entries[f] = 0 THEN 0 ELSE NameOnly
        BY <2>2, <4>5, Constants DEF Tells1
      <4>. HIDE DEF fs
      <4> QED
        BY <3>1, <4>3, <4>4, <4>5, FilesRead
    <3>4. Changed' \subseteq Files
      BY DEF Changed
    <3> QED
      BY <2>1, <3>1, <3>3, <3>4 DEF DocsInv, Kept, Tells1, Told1, DocOf
  <2>6. CASE ~Gathers(c)
    <3>1. Stage' \in Before \ Reading /\ job.mode = "stage" => Stage \in Before \ Reading
      BY <1>5, <2>6, Order DEF Works, Thinks, Writes, Gathers, Before, Reading, Locked, Publishing,
         ModeInv
    <3>2. Stage' # "delta"
      BY <1>5, <2>6, Order DEF Works, Thinks, Writes, Gathers
    <3> QED
      BY <1>3, <1>5, <2>1, <2>6, <3>1, <3>2, Gathered
  <2> QED
    BY <2>3, <2>4, <2>5, <2>6 DEF Gathers
<1>6. ASSUME NEW c \in Commands, Rests(c)
      PROVE  DocsInv'
  BY <1>3, <1>6, RestFrame DEF diskVars, recordVars
<1>7. CASE Repository \/ Damage \/ UNCHANGED vars
  BY <1>3, <1>7, RepoFrame, DamageFrame DEF vars, Stage, Wanted, diskVars, recordVars
<1> QED
  BY <1>4, <1>5, <1>6, <1>7, Steps

\* Under a manifest that is not stale, a file that did not change since keeps a
\* document that the new stats and the new state tell.
LEMMA Unchanged ==
    ASSUME Inv, job.mode = "delta", Stage \in {"uncommitted", "delta"}, "delta" \notin late,
           NEW f \in Files \ reborn, f \notin Changed
    PROVE  /\ Tells1(job.entries, uncommitted.docs, work, f)
           /\ ~Kept => Told1(Wanted.files, uncommitted.docs, work, f)
<1>. TypeOK /\ WholeInv /\ EntriesInv /\ StatsInv
  BY DEF Inv, BlobInv, TellsInv, JobInv
<1>1. Stage \in Before /\ Stage # "fallback" /\ ~Renews
  BY DEF Before, Locked, Publishing, Renews
<1>2. job.intact /\ entries # NoEntries /\ ~stale
  BY <1>1 DEF WholeInv
<1>3. ~uncommitted.torn
  BY <1>1, <1>2 DEF WholeInv, Untouched
<1>4. Tells1(entries.entries, uncommitted.docs, work, f)
  BY <1>2, <1>3 DEF EntriesInv, Tells
<1>5. job.entries[f] = entries.entries[f] /\ work[f] # 0
  BY DocTypes DEF Changed
<1>6. /\ Wanted.files[f] = 0 => job.entries[f] = 0
      /\ Wanted.files[f] # 0 /\ Wanted.files[f] = work[f] /\ ~Kept => job.entries[f] = DocOf(work, f)
  BY <1>1 DEF StatsInv
<1> QED
  BY <1>4, <1>5, <1>6 DEF Tells1, Told1, DocOf

\* What a delta writes.
LEMMA DeltaTells ==
    ASSUME Inv, NEW c \in Commands, Works(c), WriteDelta(c), "delta" \notin late, NEW f \in Files \ reborn
    PROVE  /\ Tells1(job.entries, uncommitted'.docs, work, f)
           /\ ~Kept => Told1(Wanted.files, uncommitted'.docs, work, f)
<1>. TypeOK /\ ModeInv /\ DocsInv
  BY DEF Inv, BlobInv, TellsInv, JobInv
<1>1. /\ Stage = "delta" /\ job.mode = "delta"
      /\ uncommitted'.docs[f] = IF f \in Changed THEN job.docs[f] ELSE uncommitted.docs[f]
  BY WriteDeltaEffect DEF ModeInv
<1>2. CASE f \in Changed
  BY <1>1, <1>2 DEF DocsInv, Tells1, Told1
<1>3. CASE f \notin Changed
  BY <1>1, <1>3, Unchanged DEF Tells1, Told1
<1> QED
  BY <1>2, <1>3

\* The manifest is written, or is removed, or is stale.
LEMMA Manifested ==
    ASSUME NEW c, WriteEntries(c)
    PROVE  entries'.entries = job.entries \/ entries' = NoEntries \/ stale'
<1>1. CASE entries' = [state |-> IF Kept THEN NoState ELSE want[c], entries |-> job.entries]
  BY <1>1
<1>2. CASE entries' = (IF Kept THEN NoEntries ELSE entries) /\ stale' = ~Kept
  <2>1. CASE Kept
    BY <1>2, <2>1
  <2>2. CASE ~Kept
    BY <1>2, <2>2, Zenon
  <2> QED
    BY <2>1, <2>2
<1> QED
  BY <1>1, <1>2 DEF WriteEntries

\* A manifest of the uncommitted family tells its documents.
LEMMA EntriesStep == Inv /\ [Next]_vars => EntriesInv'
<1>. SUFFICES ASSUME Inv, [Next]_vars PROVE EntriesInv'
  OBVIOUS
<1>. TypeOK /\ ModeInv /\ DocsInv /\ EntriesInv /\ PastInv /\ WholeInv
  BY DEF Inv, BlobInv, TellsInv, JobInv
<1>1. /\ Tells(entries.entries, uncommitted.docs, work, reborn)
           => Tells(entries.entries, uncommitted.docs, work', reborn')
      /\ Tells(job.entries, job.docs, work, reborn) => Tells(job.entries, job.docs, work', reborn')
  BY Stays, Versions DEF PastInv
<1>2. ASSUME entries' \in {entries, NoEntries}, uncommitted' \in {uncommitted, Torn(uncommitted)},
             stale' = stale, "delta" \notin late' \/ Renews' => "delta" \notin late \/ Renews
      PROVE  EntriesInv'
  <2>1. Torn(uncommitted).torn
    BY DEF Torn, TypeOK, UncommittedFamilies
  <2>2. CASE entries' = NoEntries \/ uncommitted'.torn \/ stale'
    BY <2>2 DEF EntriesInv
  <2>3. CASE entries' = entries /\ uncommitted' = uncommitted /\ ~stale' /\ ~uncommitted.torn
    <3>1. ASSUME entries # NoEntries, "delta" \notin late' \/ Renews'
          PROVE  Tells(entries.entries, uncommitted.docs, work', reborn')
      BY <1>1, <1>2, <2>3, <3>1 DEF EntriesInv
    <3> QED
      BY <2>3, <3>1 DEF EntriesInv, Tells, Tells1
  <2> QED
    BY <1>2, <2>1, <2>2, <2>3
<1>3. ASSUME NEW c \in Commands, TakeLock(c) \/ Ends(c)
      PROVE  EntriesInv'
  <2>1. /\ entries' \in {entries, NoEntries} /\ uncommitted' \in {uncommitted, Torn(uncommitted)}
        /\ stale' = stale
    BY <1>3, TakeFrame, Endings DEF histVars
  <2>2. "delta" \notin late' => "delta" \notin late
    BY <1>3, TakeFrame, Endings DEF Spared, Deleted, Finished, Died, histVars
  <2>3. ~Renews'
    BY <1>3, Unstarted DEF Renews
  <2> QED
    BY <1>2, <2>1, <2>2, <2>3
<1>4. ASSUME NEW c \in Commands, Works(c)
      PROVE  EntriesInv'
  <2>1. /\ Wanted' = Wanted /\ work' = work
        /\ ~ReadStage(c) /\ ~ReadDelta(c) /\ ~ReadFallBack(c) => reborn' = reborn
    BY <1>4, Order, WorkFrame DEF repoVars
  <2>2. CASE Clean(c)
    BY <1>4, <2>2, CleanEffect DEF EntriesInv
  <2>3. ASSUME WriteEntries(c), job' = job, reborn' = reborn, late' = late,
               Tells(job.entries, uncommitted'.docs, work, reborn)
               \/ ("delta" \in late /\ ~Renews')
        PROVE  EntriesInv'
    <3>1. CASE stale' \/ entries' = NoEntries
      BY <3>1 DEF EntriesInv
    <3>2. CASE ~stale' /\ entries' # NoEntries
      <4>1. entries'.entries = job.entries
        BY <2>3, <3>2, Manifested
      <4> QED
        BY <2>1, <2>3, <4>1 DEF EntriesInv, Tells, Tells1
    <3> QED
      BY <3>1, <3>2
  <2>4. CASE PublishStage(c)
    <3>1. /\ Stage = "uncommitted" /\ job.mode = "stage" /\ WriteEntries(c) /\ job' = job
          /\ uncommitted'.docs = job.docs /\ late' = late /\ reborn' = reborn
      BY <1>4, <2>4, PublishStageEffect
    <3>2. Tells(job.entries, job.docs, work, reborn)
      BY <3>1 DEF DocsInv, Before, Reading, Locked, Publishing
    <3> QED
      BY <2>3, <3>1, <3>2
  <2>5. CASE RefreshEntries(c) \/ WriteDelta(c)
    <3>1. /\ Stage \in {"uncommitted", "delta"} /\ job.mode = "delta" /\ WriteEntries(c) /\ job' = job
          /\ late' = late /\ reborn' = reborn
          /\ RefreshEntries(c) => Changed = {} /\ uncommitted' = uncommitted
      BY <1>4, <2>5, RefreshEntriesEffect, WriteDeltaEffect DEF families, ModeInv
    <3>2. ~Renews'
      BY <3>1 DEF Renews
    <3>3. ASSUME "delta" \notin late, NEW f \in Files \ reborn
          PROVE  Tells1(job.entries, uncommitted'.docs, work, f)
      <4>1. CASE RefreshEntries(c)
        BY <3>1, <3>3, <4>1, Unchanged
      <4>2. CASE WriteDelta(c)
        BY <1>4, <3>3, <4>2, DeltaTells
      <4> QED
        BY <2>5, <4>1, <4>2
    <3> QED
      BY <2>3, <3>1, <3>2, <3>3 DEF Tells
  <2>6. CASE FallBack(c)
    <3>1. /\ uncommitted' \in {uncommitted, Torn(uncommitted)} /\ UNCHANGED <<entries, stale, late>>
          /\ Stage' = "fallback"
      BY <1>4, <2>6, FallBackEffect DEF histVars
    <3> QED
      BY <1>2, <3>1 DEF Renews
  <2>7. CASE ~Clean(c) /\ ~PublishStage(c) /\ ~RefreshEntries(c) /\ ~WriteDelta(c) /\ ~FallBack(c)
    <3>1. UNCHANGED <<entries, stale, uncommitted>>
      BY <1>4, <2>7, WorkFrame
    <3>2. CASE WriteState(c)
      <4>1. Stage = "state" /\ (job.mode \notin {"none", "stage"} => ("delta" \in late' <=> "delta" \in late))
            /\ Stage' = "head"
        BY <1>4, <3>2, WriteStateEffect
      <4> QED
        BY <1>2, <3>1, <4>1 DEF Renews
    <3>3. CASE Record(c)
      <4>1. Stage = "record" /\ job' = job /\ late' = late
        BY <1>4, <3>3, RecordEffect DEF histVars
      <4> QED
        BY <1>2, <3>1, <4>1 DEF Renews
    <3>4. CASE KeepUncommitted(c)
      <4>1. job.mode = "fds" /\ job' = job /\ late' = late
        BY <1>4, <3>4, Prepared DEF KeepUncommitted, histVars
      <4> QED
        BY <1>2, <3>1, <4>1 DEF Renews
    <3>5. CASE ~WriteState(c) /\ ~Record(c) /\ ~KeepUncommitted(c)
      <4>1. late \subseteq late'
        BY <1>4, <3>5, WorkFrame
      <4>2. Stage' \notin {"record", "state"}
        BY <1>4, <2>7, <3>5, Order DEF Works, Thinks, Writes
      <4> QED
        BY <1>2, <3>1, <4>1, <4>2 DEF Renews
    <3> QED
      BY <3>2, <3>3, <3>4, <3>5
  <2> QED
    BY <2>2, <2>4, <2>5, <2>6, <2>7
<1>5. ASSUME NEW c \in Commands, Rests(c)
      PROVE  EntriesInv'
  BY <1>2, <1>5, RestFrame DEF diskVars, families, recordVars, histVars, Renews
<1>6. CASE Repository \/ Damage \/ UNCHANGED vars
  BY <1>2, <1>6, RepoFrame, DamageFrame
     DEF diskVars, families, recordVars, histVars, vars, Renews, Stage
<1> QED
  BY <1>3, <1>4, <1>5, <1>6, Steps

\* The family that a build has written tells the state that it will record.
LEMMA WrittenStep == Inv /\ [Next]_vars => WrittenInv'
<1>. SUFFICES ASSUME Inv, [Next]_vars PROVE WrittenInv'
  OBVIOUS
<1>. TypeOK /\ ModeInv /\ DocsInv /\ WrittenInv /\ PastInv /\ WholeInv
  BY DEF Inv, BlobInv, TellsInv, JobInv
<1>1. Wanted.files \in [Files -> Nat] /\ Past(Wanted.files)
  BY WantedPast
<1>2. /\ Told(Wanted.files, uncommitted.docs, work, reborn)
           => Told(Wanted.files, uncommitted.docs, work', reborn')
      /\ \A f \in Files : work'[f] = Wanted.files[f] => work[f] = Wanted.files[f]
  BY <1>1, Stays, Later DEF Past
<1>3. ASSUME Wanted' = Wanted, job' = job, uncommitted' = uncommitted,
             Stage' \in {"record", "state"} => Stage \in {"record", "state"},
             "delta" \notin late' => "delta" \notin late
      PROVE  WrittenInv'
  <2>1. Kept' <=> Kept
    BY <1>3 DEF Kept
  <2>2. ASSUME Stage' \in {"record", "state"}, job.mode # "fds", ~Kept
        PROVE  /\ "delta" \notin late' \/ job.mode # "delta" =>
                     Told(Wanted.files, uncommitted.docs, work', reborn')
               /\ ~uncommitted.shards => \A f \in Files :
                     Wanted.files[f] # 0 /\ Wanted.files[f] = work'[f] => DocOf(work', f) = 0
    BY <1>2, <1>3, <2>2 DEF WrittenInv, DocOf
  <2> QED
    BY <1>3, <2>1, <2>2 DEF WrittenInv, Told, Told1, DocOf
<1>4. ASSUME NEW c \in Commands, TakeLock(c) \/ Ends(c)
      PROVE  WrittenInv'
  BY <1>4, Unstarted DEF WrittenInv
<1>5. ASSUME NEW c \in Commands, Works(c)
      PROVE  WrittenInv'
  <2>1. Wanted' = Wanted /\ work' = work
    BY <1>5, Order DEF repoVars
  <2>2. CASE Clean(c)
    <3>1. ~IsDirty(Wanted) /\ uncommitted' = NoUncommitted
      BY <1>5, <2>2, CleanEffect
    <3>2. \A f \in Files : Wanted.files[f] = 0 /\ uncommitted'.docs[f] = 0
      BY <3>1, Empties DEF IsDirty, NoDocs
    <3> QED
      BY <2>1, <3>2 DEF WrittenInv, Told, Told1
  <2>3. ASSUME job' = job, reborn' = reborn, late' = late,
               ~Kept /\ ("delta" \notin late \/ job.mode # "delta") =>
                  \A f \in Files \ reborn : Told1(Wanted.files, uncommitted'.docs, work, f),
               ~Kept /\ ~uncommitted'.shards => \A f \in Files :
                  Wanted.files[f] # 0 /\ Wanted.files[f] = work[f] => DocOf(work, f) = 0
        PROVE  WrittenInv'
    BY <2>1, <2>3 DEF WrittenInv, Kept, Told, Told1, DocOf
  <2>4. CASE PublishStage(c)
    <3>1. /\ Stage = "uncommitted" /\ job.mode = "stage" /\ job' = job
          /\ uncommitted'.docs = job.docs /\ uncommitted'.shards = (job.docs # NoDocs)
          /\ late' = late /\ reborn' = reborn
      BY <1>5, <2>4, PublishStageEffect
    <3>2. ~Kept => \A f \in Files : Told1(Wanted.files, job.docs, work, f)
      BY <3>1 DEF DocsInv, Before, Reading, Locked, Publishing
    <3>3. ASSUME ~Kept, ~uncommitted'.shards,
                 NEW f \in Files, Wanted.files[f] # 0, Wanted.files[f] = work[f]
          PROVE  DocOf(work, f) = 0
      <4>1. job.docs[f] = 0
        BY <3>1, <3>3 DEF NoDocs
      <4> QED
        BY <3>2, <3>3, <4>1 DEF Told1
    <3> QED
      BY <2>3, <3>1, <3>2, <3>3
  <2>5. CASE RefreshEntries(c)
    <3>1. /\ Stage = "uncommitted" /\ job.mode = "delta" /\ job' = job /\ Changed = {}
          /\ uncommitted' = uncommitted /\ late' = late /\ reborn' = reborn
      BY <1>5, <2>5, RefreshEntriesEffect DEF families
    <3>2. uncommitted.shards
      BY <3>1 DEF WholeInv, Before, Locked, Publishing
    <3>3. ASSUME ~Kept, "delta" \notin late, NEW f \in Files \ reborn
          PROVE  Told1(Wanted.files, uncommitted.docs, work, f)
      BY <3>1, <3>3, Unchanged
    <3> QED
      BY <2>3, <3>1, <3>2, <3>3
  <2>6. CASE WriteDelta(c)
    <3>1. /\ job.mode = "delta" /\ job' = job /\ uncommitted'.shards
          /\ late' = late /\ reborn' = reborn
      BY <1>5, <2>6, WriteDeltaEffect DEF ModeInv
    <3>2. ASSUME ~Kept, "delta" \notin late, NEW f \in Files \ reborn
          PROVE  Told1(Wanted.files, uncommitted'.docs, work, f)
      BY <1>5, <2>6, <3>2, DeltaTells
    <3> QED
      BY <2>3, <3>1, <3>2
  <2>7. CASE KeepUncommitted(c)
    <3>1. job.mode = "fds" /\ job' = job
      BY <1>5, <2>7, Prepared DEF KeepUncommitted
    <3> QED
      BY <3>1 DEF WrittenInv
  <2>8. CASE Record(c)
    <3>1. Stage = "record" /\ job' = job /\ uncommitted' = uncommitted /\ late' = late
      BY <1>5, <2>8, RecordEffect DEF families, histVars
    <3> QED
      BY <1>3, <2>1, <3>1
  <2>9. CASE ~Clean(c) /\ ~PublishStage(c) /\ ~RefreshEntries(c) /\ ~WriteDelta(c)
             /\ ~KeepUncommitted(c) /\ ~Record(c)
    <3>1. Stage' \notin {"record", "state"}
      BY <1>5, <2>9, Order DEF Works, Thinks, Writes
    <3> QED
      BY <3>1 DEF WrittenInv
  <2> QED
    BY <2>2, <2>4, <2>5, <2>6, <2>7, <2>8, <2>9
<1>6. ASSUME NEW c \in Commands, Rests(c)
      PROVE  WrittenInv'
  BY <1>3, <1>6, RestFrame DEF diskVars, families, histVars
<1>7. CASE Repository \/ Damage \/ UNCHANGED vars
  BY <1>3, <1>7, RepoFrame, DamageFrame DEF vars, Stage, Wanted, diskVars, families, histVars
<1> QED
  BY <1>4, <1>5, <1>6, <1>7, Steps

\* A manifest that matches the committed family was written.
LEMMA MatchedManifest ==
    ASSUME Inv, CommittedIntact
    PROVE  manifest # NoManifest
<1>1. committed.named \subseteq committed.docs
  BY DEF Inv, TellsInv, CommInv, Whole
<1>2. NoManifest.committed.named # {} /\ NoManifest.committed.docs = {}
  BY Empties, Constants
<1> QED
  BY <1>1, <1>2 DEF CommittedIntact

\* A family that matches its manifest before a build is whole, and .state tells it.
LEMMA FoundWhole ==
    ASSUME Inv, FamilyIntact, Stage \in {"none", "recheck", "build", "prepare", "stage", "publish"}
    PROVE  /\ manifest # NoManifest /\ ~uncommitted.torn
           /\ state # NoState /\ LateClean => Told(state.files, uncommitted.docs, work, reborn)
<1>1. manifest # NoManifest
  BY MatchedManifest DEF FamilyIntact
<1>2. ~uncommitted.torn
  BY <1>1 DEF FamilyIntact, Inv, TellsInv, CommInv
<1>3. ASSUME state # NoState, LateClean
      PROVE  Told(state.files, uncommitted.docs, work, reborn)
  <2>1. ~Unnamed /\ Stage # "state"
    BY DEF Unnamed
  <2> QED
    BY <1>1, <1>3, <2>1 DEF FamilyIntact, Inv, TellsInv, StateInv
<1> QED
  BY <1>1, <1>2, <1>3

\* What the build knows of the uncommitted family while it leaves it alone, and of
\* the family that it has written.
LEMMA WholeStep == Inv /\ [Next]_vars => WholeInv'
<1>. SUFFICES ASSUME Inv, [Next]_vars PROVE WholeInv'
  OBVIOUS
<1>. TypeOK /\ ModeInv /\ WholeInv /\ PastInv /\ LostInv
  BY DEF Inv, BlobInv, TellsInv, JobInv
<1>1. /\ Told(state.files, uncommitted.docs, work, reborn)
           => Told(state.files, uncommitted.docs, work', reborn')
      /\ Told(state.files, manifest.uncommitted.docs, work, reborn)
           => Told(state.files, manifest.uncommitted.docs, work', reborn')
  BY Stays, Versions DEF PastInv
<1>2. Before \cap {"none", "record", "state", "head"} = {}
  BY DEF Before, Locked, Publishing
\* A step that leaves the state and the manifest alone, and the family if the build
\* still counts on it.
<1>3. ASSUME job'.intact = job.intact, state' = state, LateClean' => LateClean,
             "delta" \in late => "delta" \in late', manifest' \in {manifest, NoManifest},
             Stage' \in Before \cup {"record"} => Stage \in Before \cup {"record"},
             Untouched' => Untouched /\ uncommitted' = uncommitted,
             \/ /\ job'.mode = job.mode /\ UNCHANGED <<uncommitted, entries, stale>>
                /\ Stage' \in Before => Stage \in Before
                /\ Stage' = "record" => Stage = "record"
                /\ Stage' = "state" => Stage = "state" /\ manifest' = manifest
             \/ job'.mode # "delta" /\ Stage' \notin {"record", "state"}
      PROVE  WholeInv'
  <2>1. ASSUME job.intact, Untouched'
        PROVE  /\ ~uncommitted'.torn
               /\ state # NoState /\ LateClean' => Told(state.files, uncommitted'.docs, work', reborn')
    BY <1>1, <1>3, <2>1 DEF WholeInv
  <2>2. ASSUME job.intact, Stage' \in Before \cup {"record"}, state # NoState, LateClean', manifest' # NoManifest
        PROVE  Told(state.files, manifest'.uncommitted.docs, work', reborn')
    BY <1>1, <1>3, <2>2 DEF WholeInv
  <2>3. /\ Stage' = "record" /\ (job'.mode # "fds" \/ job.intact) => ~uncommitted'.torn
        /\ job'.mode = "delta" /\ Stage' \in Before =>
              job.intact /\ entries' # NoEntries /\ uncommitted'.shards /\ ("delta" \in late' \/ ~stale')
        /\ job'.mode = "delta" /\ Stage' \in {"record", "state"} => uncommitted'.shards
        /\ Stage' = "state" /\ job'.mode # "fds" => manifest'.uncommitted = uncommitted'
    BY <1>3 DEF WholeInv
  <2> QED
    BY <1>3, <2>1, <2>2, <2>3 DEF WholeInv, Told, Told1, DocOf, Before, Locked, Publishing
<1>4. ASSUME NEW c \in Commands, TakeLock(c) \/ Ends(c)
      PROVE  WholeInv'
  BY <1>4, Unstarted, Empties DEF WholeInv, Before
<1>5. ASSUME NEW c \in Commands, Works(c)
      PROVE  WholeInv'
  <2>1. /\ Wanted' = Wanted /\ work' = work
        /\ ~Decide(c) => job'.intact = job.intact
        /\ ~WriteState(c) => state' = state /\ late \subseteq late'
        /\ ~RecordCommitted(c) /\ ~Record(c) => manifest' = manifest
        /\ ~ReadStage(c) /\ ~ReadDelta(c) /\ ~ReadFallBack(c) => reborn' = reborn
        /\ ~Clean(c) /\ ~PublishStage(c) /\ ~WriteDelta(c) /\ ~FallBack(c) => uncommitted' = uncommitted
        /\ ~Clean(c) /\ ~PublishStage(c) /\ ~WriteDelta(c) /\ ~RefreshEntries(c) => UNCHANGED <<entries, stale>>
    BY <1>5, Order, WorkFrame, Keeps, Builds DEF repoVars
  <2>2. late \subseteq late' => (LateClean' => LateClean) /\ ("delta" \in late => "delta" \in late')
    BY DEF LateClean
  <2>3. CASE Decide(c)
    <3>1. /\ Stage = "recheck" /\ Stage' = "build" /\ job'.intact = FamilyIntact /\ job'.mode = "none"
          /\ UNCHANGED <<state, manifest, uncommitted, late, reborn>>
      BY <1>5, <2>3, Decided, DecideEffect DEF stateFiles, families, histVars
    <3>2. ASSUME FamilyIntact
          PROVE  /\ manifest.uncommitted = uncommitted /\ ~uncommitted.torn
                 /\ state # NoState /\ LateClean => Told(state.files, uncommitted.docs, work, reborn)
      BY <3>1, <3>2, FoundWhole DEF FamilyIntact
    <3> QED
      BY <2>1, <3>1, <3>2 DEF WholeInv, Told, Told1, DocOf, LateClean
  <2>4. CASE PrepareDelta(c)
    <3>1. Stage = "prepare" /\ Stage' = "publish" /\ job'.mode = "delta" /\ DeltaPossible
          /\ (stale => "delta" \in late')
      BY <1>5, <2>4, Order, Prepared
    <3>2. /\ state' = state /\ late \subseteq late' /\ manifest' = manifest /\ uncommitted' = uncommitted
          /\ reborn' = reborn /\ UNCHANGED <<entries, stale>> /\ job'.intact = job.intact
      BY <1>5, <2>4, <3>1, ThinkFrame, WorkFrame, Keeps, Order DEF Decide, BuildDelta, BuildFull,
         WriteState
    <3>3. Untouched
      BY <3>1 DEF Untouched, Before, Locked, Publishing
    <3>4. /\ job.intact => ~uncommitted.torn
          /\ job.intact /\ state # NoState /\ LateClean => Told(state.files, uncommitted.docs, work, reborn)
          /\ job.intact /\ state # NoState /\ LateClean /\ manifest # NoManifest
               => Told(state.files, manifest.uncommitted.docs, work, reborn)
      BY <3>1, <3>3 DEF WholeInv, Untouched
    <3> QED
      BY <2>1, <2>2, <3>1, <3>2, <3>4 DEF WholeInv, DeltaPossible, Told, Told1, DocOf
  <2>5. CASE \/ PrepareStage(c) \/ StageOutOfFiles(c) \/ FallBack(c)
             \/ ReadStage(c) \/ ReadFallBack(c)
    <3>1. job'.mode # "delta" /\ Stage' \notin {"record", "state"}
      <4>1. ReadStage(c) \/ ReadFallBack(c) => job'.mode = job.mode /\ job.mode = "stage"
        BY <1>5, Order, FilesRead DEF ReadStage, ReadFallBack, ModeInv
      <4> QED
        BY <1>5, <2>5, <4>1, Order, Prepared
    <3>2. /\ Untouched' => Untouched /\ uncommitted' = uncommitted
          /\ Stage \in Before
      <4>1. Stage' = "uncommitted" => job'.mode = "stage"
        BY <1>5, <2>5, Order, FilesRead DEF ReadFallBack, ModeInv
      <4>2. Stage \in {"prepare", "stage", "delta", "fallback"} /\ (Stage = "delta" => Stage' = "fallback")
            /\ (Stage = "fallback" => Stage' = "uncommitted")
            /\ (FallBack(c) => Stage' = "fallback")
        BY <1>5, <2>5, Order
      <4>3. uncommitted' = uncommitted \/ FallBack(c)
        BY <1>5, <2>1, <2>5, <4>2, CleanEffect, PublishStageEffect, WriteDeltaEffect, Order
      <4> QED
        BY <4>1, <4>2, <4>3 DEF Untouched, Before, Locked, Publishing
    <3>3. ~Decide(c) /\ ~WriteState(c) /\ ~RecordCommitted(c) /\ ~Record(c)
      BY <1>5, <2>5, Order
    <3> QED
      BY <1>3, <2>1, <2>2, <3>1, <3>2, <3>3
  <2>6. CASE \/ Clean(c) \/ KeepUncommitted(c) \/ PublishStage(c) \/ RefreshEntries(c) \/ WriteDelta(c)
    <3>1. /\ Stage \in {"uncommitted", "delta"} /\ Stage \in Before /\ Stage' = "record"
          /\ job' = job /\ state' = state /\ manifest' = manifest /\ late' = late /\ reborn' = reborn
      BY <1>5, <2>6, Order, WorkFrame, CleanEffect, PublishStageEffect, RefreshEntriesEffect,
         WriteDeltaEffect DEF KeepUncommitted, Before, Locked, Publishing, stateFiles, diskVars,
         recordVars, histVars
    <3>2. job.mode # "fds" \/ job.intact => ~uncommitted'.torn
      <4>1. CASE Clean(c) \/ PublishStage(c) \/ WriteDelta(c)
        <5>1. uncommitted'.torn = FALSE
          <6>1. CASE Clean(c)
            BY <1>5, <6>1, CleanEffect, Empties
          <6>2. CASE PublishStage(c)
            BY <1>5, <6>2, PublishStageEffect
          <6>3. CASE WriteDelta(c)
            BY <1>5, <6>3, WriteDeltaEffect
          <6> QED
            BY <4>1, <6>1, <6>2, <6>3
        <5> QED
          BY <5>1
      <4>2. CASE RefreshEntries(c) \/ KeepUncommitted(c)
        <5>1. /\ uncommitted' = uncommitted /\ Stage = "uncommitted"
              /\ job.mode \in {"delta", "fds"}
          BY <1>5, <4>2, RefreshEntriesEffect, Prepared, Order DEF families, KeepUncommitted,
             diskVars
        <5>2. Untouched /\ (job.mode = "delta" => job.intact)
          BY <3>1, <5>1 DEF WholeInv, Untouched
        <5> QED
          BY <5>1, <5>2 DEF WholeInv
      <4> QED
        BY <2>6, <4>1, <4>2
    <3>3. job.mode = "delta" => uncommitted'.shards
      <4>1. Clean(c) \/ PublishStage(c) => job.mode # "delta"
        BY <1>5, PublishStageEffect, CleanEffect DEF ModeInv
      <4>2. WriteDelta(c) => uncommitted'.shards = TRUE
        BY <1>5, WriteDeltaEffect
      <4>3. RefreshEntries(c) \/ KeepUncommitted(c) => uncommitted' = uncommitted
        BY <1>5, RefreshEntriesEffect DEF families, KeepUncommitted, diskVars
      <4>4. job.mode = "delta" => uncommitted.shards
        BY <3>1 DEF WholeInv
      <4> QED
        BY <2>6, <4>1, <4>2, <4>3, <4>4
    <3>4. job.intact /\ state # NoState /\ LateClean /\ manifest # NoManifest
            => Told(state.files, manifest.uncommitted.docs, work, reborn)
      BY <3>1 DEF WholeInv
    <3> QED
      BY <1>2, <2>1, <3>1, <3>2, <3>3, <3>4 DEF WholeInv, Untouched, LateClean, Told, Told1, DocOf
  <2>7. CASE RecordCommitted(c)
    <3>1. /\ Stage = "recordCommitted" /\ Stage' = "recordBlobs" /\ job' = job
          /\ job.intact => manifest'.uncommitted = uncommitted
          /\ UNCHANGED <<state, late, reborn, uncommitted, entries, stale>>
      BY <1>5, <2>7, RecordCommittedEffect DEF stateFiles, families, histVars
    <3>2. Untouched /\ Stage \in Before
      BY <3>1 DEF Untouched, Before, Locked, Publishing
    <3>3. /\ job.intact => ~uncommitted.torn
          /\ job.intact /\ state # NoState /\ LateClean => Told(state.files, uncommitted.docs, work, reborn)
          /\ job.mode = "delta" =>
              job.intact /\ entries # NoEntries /\ uncommitted.shards /\ ("delta" \in late \/ ~stale)
      BY <3>2 DEF WholeInv
    <3> QED
      BY <2>1, <3>1, <3>3 DEF WholeInv, LateClean, Told, Told1, DocOf
  <2>8. CASE Record(c)
    <3>1. /\ Stage = "record" /\ Stage' = "state" /\ job' = job /\ uncommitted' = uncommitted
          /\ job.mode # "fds" => manifest'.uncommitted = uncommitted
      BY <1>5, <2>8, RecordEffect DEF families
    <3> QED
      BY <1>2, <3>1 DEF WholeInv, Untouched
  <2>9. CASE WriteState(c)
    BY <1>2, <1>5, <2>9, WriteStateEffect DEF WholeInv, Untouched
  <2>10. CASE \/ BuildDelta(c) \/ BuildFull(c) \/ BuildNothing(c) \/ PrepareNothing(c) \/ ReadDelta(c)
              \/ PublishUncommitted(c) \/ BeginSwap(c) \/ EndSwap(c) \/ RecordBlobs(c)
    <3>1. /\ Stage \in Before \ {"fallback"} /\ Stage' \in Before
          /\ Stage = "uncommitted" => Stage' = "delta" /\ job.mode = "delta"
      BY <1>5, <2>10, Order, Prepared DEF Before, Locked, Publishing
    <3>2. job'.mode = job.mode
      <4>1. ReadDelta(c) => job'.mode = job.mode
        BY FilesRead DEF ReadDelta
      <4>2. ~ReadDelta(c) => ~Gathers(c)
        BY <1>5, <2>10, Order, Prepared DEF Gathers
      <4> QED
        BY <1>5, <4>1, <4>2, Gathered
    <3>3. /\ ~Clean(c) /\ ~PublishStage(c) /\ ~WriteDelta(c) /\ ~FallBack(c) /\ ~RefreshEntries(c)
          /\ ~Decide(c) /\ ~WriteState(c) /\ ~RecordCommitted(c) /\ ~Record(c)
      <4>1. ReadDelta(c) => Stage' = "delta"
        BY <1>5, Order
      <4> QED
        BY <1>5, <2>10, <4>1, Order
    <3> QED
      BY <1>2, <1>3, <2>1, <2>2, <3>1, <3>2, <3>3 DEF Untouched
  <2> QED
    BY <1>5, <2>3, <2>4, <2>5, <2>6, <2>7, <2>8, <2>9, <2>10 DEF Works, Thinks, Writes
<1>6. ASSUME NEW c \in Commands, Rests(c)
      PROVE  WholeInv'
  BY <1>3, <1>6, RestFrame DEF diskVars, families, stateFiles, recordVars, histVars, LateClean,
     Untouched
<1>7. CASE Damage
  BY <1>2, <1>3, <1>7, DamageFrame DEF families, stateFiles, recordVars, histVars, LateClean,
     Untouched,
     Publishing
<1>8. CASE Repository \/ UNCHANGED vars
  BY <1>3, <1>8, RepoFrame
     DEF diskVars, families, stateFiles, recordVars, histVars, vars, LateClean, Untouched, Stage
<1> QED
  BY <1>4, <1>5, <1>6, <1>7, <1>8, Steps

\* The manifest of the families and .state stay in step.
LEMMA StateStep == Inv /\ [Next]_vars => StateInv'
<1>. SUFFICES ASSUME Inv, [Next]_vars PROVE StateInv'
  OBVIOUS
<1>. TypeOK /\ StateInv /\ ModeInv /\ WholeInv /\ WrittenInv /\ PastInv /\ JobHead
  BY DEF Inv, BlobInv, TellsInv, JobInv
<1>1. Told(state.files, manifest.uncommitted.docs, work, reborn)
           => Told(state.files, manifest.uncommitted.docs, work', reborn')
  BY Stays, Versions DEF PastInv
<1>2. Torn(uncommitted) # NoUncommitted
  BY Empties DEF Torn, TypeOK, UncommittedFamilies
\* A step that leaves the state and the manifest alone, and the uncommitted family
\* too if the manifest names none.
<1>3. ASSUME state' \in {state, NoState}, manifest' \in {manifest, NoManifest},
             LateClean' => LateClean,
             Stage' # "state" => Stage # "state" \/ "state" \in late',
             \/ Unnamed' \/ (job.intact /\ Stage \in Before \cup {"record"})
             \/ /\ uncommitted' \in {uncommitted, Torn(uncommitted)}
                /\ Unnamed /\ manifest.uncommitted = uncommitted => "state" \in late'
      PROVE  StateInv'
  <2>1. CASE state' = NoState \/ manifest' = NoManifest \/ ~LateClean' \/ Stage' = "state"
    BY <2>1 DEF StateInv
  <2>2. CASE state' = state /\ state # NoState /\ manifest' = manifest /\ manifest # NoManifest
             /\ LateClean' /\ Stage' # "state"
    <3>1. LateClean /\ Stage # "state" /\ "state" \notin late'
      BY <1>3, <2>2 DEF LateClean
    <3>2. CASE Told(state.files, manifest.uncommitted.docs, work, reborn)
      BY <1>1, <2>2, <3>2 DEF StateInv, Told, Told1, DocOf
    <3>3. CASE ~Told(state.files, manifest.uncommitted.docs, work, reborn)
      <4>1. manifest.uncommitted = NoUncommitted /\ (uncommitted # NoUncommitted \/ Unnamed)
        BY <2>2, <3>1, <3>3 DEF StateInv
      <4>2. ~(job.intact /\ Stage \in Before \cup {"record"})
        BY <2>2, <3>1, <3>3 DEF WholeInv
      <4>3. uncommitted' # NoUncommitted \/ Unnamed'
        BY <1>2, <1>3, <2>2, <3>1, <4>1, <4>2
      <4> QED
        BY <2>2, <4>1, <4>3 DEF StateInv
    <3> QED
      BY <3>2, <3>3
  <2> QED
    BY <1>3, <2>1, <2>2
<1>4. ASSUME NEW c \in Commands, Works(c)
      PROVE  StateInv'
  <2>1. /\ Wanted' = Wanted /\ work' = work
        /\ ~Decide(c) => job'.intact = job.intact
        /\ ~WriteState(c) => state' = state /\ late \subseteq late'
        /\ ~RecordCommitted(c) /\ ~Record(c) => manifest' = manifest
        /\ ~Clean(c) /\ ~PublishStage(c) /\ ~WriteDelta(c) /\ ~FallBack(c) => uncommitted' = uncommitted
    BY <1>4, Order, WorkFrame, Keeps, Builds DEF repoVars
  <2>2. CASE WriteState(c)
    <3>1. /\ Stage = "state" /\ Stage' = "head"
          /\ state' = IF Partial THEN NoState ELSE Wanted
          /\ late' = late \ (IF job.mode \in {"none", "stage"} THEN {"state", "delta"} ELSE {"state"})
          /\ manifest' = manifest /\ reborn' = reborn
      BY <1>4, <2>2, WriteStateEffect
    <3>2. ASSUME state' # NoState, LateClean'
          PROVE  state' = Wanted /\ Told(Wanted.files, manifest.uncommitted.docs, work, reborn)
      <4>1. ~Partial /\ state' = Wanted
        BY <3>1, <3>2
      <4>2. "delta" \notin late \/ job.mode # "delta"
        BY <3>1, <3>2 DEF LateClean
      <4>3. manifest.uncommitted = uncommitted
        BY <3>1, <4>1 DEF WholeInv, Partial
      <4> QED
        BY <3>1, <4>1, <4>2, <4>3 DEF WrittenInv, Partial
    <3> QED
      BY <2>1, <3>1, <3>2 DEF StateInv, Told, Told1, DocOf
  <2>3. CASE RecordCommitted(c)
    <3>1. /\ Stage = "recordCommitted" /\ Stage' = "recordBlobs" /\ job' = job
          /\ manifest'.uncommitted = IF job.intact THEN uncommitted ELSE NoUncommitted
          /\ UNCHANGED <<state, late, reborn>>
      BY <1>4, <2>3, RecordCommittedEffect DEF stateFiles, histVars
    <3>2. CASE job.intact
      <4>1. Untouched
        BY <3>1 DEF Untouched, Before, Locked, Publishing
      <4>2. state # NoState /\ LateClean => Told(state.files, uncommitted.docs, work, reborn)
        BY <3>2, <4>1 DEF WholeInv
      <4> QED
        BY <2>1, <3>1, <3>2, <4>2 DEF StateInv, LateClean, Told, Told1, DocOf
    <3>3. CASE ~job.intact
      <4>1. job.published
        BY <3>1 DEF JobHead
      <4>2. Unnamed' /\ manifest'.uncommitted = NoUncommitted
        BY <3>1, <3>3, <4>1 DEF Unnamed
      <4> QED
        BY <4>2 DEF StateInv
    <3> QED
      BY <3>2, <3>3
  <2>4. CASE Record(c)
    BY <1>4, <2>4, RecordEffect DEF StateInv
  <2>5. CASE ~WriteState(c) /\ ~RecordCommitted(c) /\ ~Record(c)
    <3>1. Stage' # "state" /\ Stage # "state"
      BY <1>4, <2>5, Order DEF Works, Thinks, Writes
    <3>2. \/ uncommitted' = uncommitted /\ ~Unnamed
          \/ Unnamed'
          \/ job.intact /\ Stage \in Before \cup {"record"}
      <4>1. CASE RecordBlobs(c)
        <5>1. /\ Stage = "recordBlobs" /\ Stage' = "uncommitted" /\ job' = job /\ uncommitted' = uncommitted
          BY <1>4, <4>1, RecordBlobsEffect DEF families
        <5> QED
          BY <5>1 DEF Unnamed
      <4>2. CASE Clean(c) \/ KeepUncommitted(c) \/ PublishStage(c) \/ RefreshEntries(c) \/ WriteDelta(c)
        <5>1. Stage \in {"uncommitted", "delta"} /\ Stage' = "record" /\ job'.intact = job.intact
          BY <1>4, <2>1, <4>2, Order
        <5> QED
          BY <5>1 DEF Unnamed, Before, Locked, Publishing
      <4>3. CASE ReadDelta(c) \/ FallBack(c)
        <5>1. Stage \in {"uncommitted", "delta"} /\ job.mode = "delta"
          BY <1>4, <4>3, Order, Prepared DEF ModeInv
        <5> QED
          BY <5>1 DEF WholeInv, Before, Locked, Publishing
      <4>4. CASE ~RecordBlobs(c) /\ ~Clean(c) /\ ~KeepUncommitted(c) /\ ~PublishStage(c)
                 /\ ~RefreshEntries(c) /\ ~WriteDelta(c) /\ ~ReadDelta(c) /\ ~FallBack(c)
        <5>1. Stage \notin {"recordBlobs", "uncommitted", "record"}
          BY <1>4, <2>5, <4>4, Order DEF Works, Thinks, Writes
        <5> QED
          BY <2>1, <4>4, <5>1 DEF Unnamed
      <4> QED
        BY <4>1, <4>2, <4>3, <4>4
    <3> QED
      BY <1>3, <2>1, <2>5, <3>1, <3>2 DEF LateClean
  <2> QED
    BY <2>2, <2>3, <2>4, <2>5
<1>5. ASSUME NEW c \in Commands, Ends(c)
      PROVE  StateInv'
  <2>1. /\ manifest' = manifest /\ uncommitted' \in {uncommitted, Torn(uncommitted)}
        /\ Spared \/ Deleted \/ Finished \/ Died(c)
        /\ Stage = pc[c] /\ Wanted = want[c]
    BY <1>5, Endings, Ended
  <2>2. CASE Deleted
    BY <2>2 DEF StateInv, Deleted, DeleteStateFiles
  <2>3. CASE Spared
    <3>1. ~Unnamed /\ Stage # "state" /\ state' = state /\ late' = late
      BY <2>3 DEF Spared, Unnamed, stateFiles
    <3> QED
      BY <1>3, <2>1, <3>1 DEF LateClean
  <2>4. CASE Finished
    <3>1. ~Unnamed /\ Stage # "state" /\ state' = state /\ (LateClean' => LateClean)
      BY <2>4 DEF Finished, Unnamed, LateClean
    <3> QED
      BY <1>3, <2>1, <3>1
  <2>5. CASE Died(c)
    <3>1. state' = state /\ late' = late \cup LeftBehind(c)
      BY <2>5 DEF Died, stateFiles
    <3>2. /\ Stage = "state" => "state" \in late'
          /\ Unnamed /\ manifest.uncommitted = uncommitted => "state" \in late'
      BY <2>1, <3>1 DEF LeftBehind, Unnamed
    <3> QED
      BY <1>3, <2>1, <3>1, <3>2 DEF LateClean
  <2> QED
    BY <2>1, <2>2, <2>3, <2>4, <2>5
<1>6. ASSUME NEW c \in Commands, TakeLock(c)
      PROVE  StateInv'
  <2>1. /\ Stage = "none" /\ late' = late /\ uncommitted' = uncommitted
        /\ state' \in {state, NoState} /\ manifest' \in {manifest, NoManifest}
    BY <1>6, TakeFrame DEF stateFiles, histVars
  <2> QED
    BY <1>3, <2>1 DEF Unnamed, LateClean
<1>7. ASSUME NEW c \in Commands, Rests(c)
      PROVE  StateInv'
  BY <1>3, <1>7, RestFrame DEF diskVars, families, stateFiles, recordVars, histVars, Unnamed,
     LateClean
<1>8. CASE Repository \/ Damage \/ UNCHANGED vars
  BY <1>3, <1>8, RepoFrame, DamageFrame
     DEF diskVars, families, stateFiles, recordVars, histVars, vars, Unnamed, LateClean, Stage
<1> QED
  BY <1>4, <1>5, <1>6, <1>7, <1>8, Steps

-----------------------------------------------------------------------------
(* The whole invariant.                                                    *)

\* At first there is no index, no state and no build.
LEMMA InitInv == Init => Inv
<1>. SUFFICES ASSUME Init PROVE Inv
  OBVIOUS
<1>1. TypeOK
  BY InitTypes
<1>2. /\ Stage = "none" /\ Wanted = Idle /\ job = NoJob
      /\ committed = NoCommitted /\ uncommitted = NoUncommitted /\ manifest = NoManifest
      /\ state = NoState /\ empty = NoState /\ entries = NoEntries /\ ~marker
  BY DEF Init, Stage, Wanted
<1>3. ~HasCommitted /\ "none" \notin Locked /\ "none" \notin Before
  BY <1>2, Empties DEF HasCommitted, Locked, Publishing, Before
<1>4. MarkerInv /\ CommInv /\ EmptyInv /\ EntriesInv /\ StateInv
  BY <1>2, <1>3, Empties, Constants
     DEF MarkerInv, CommInv, Whole, EmptyInv, EntriesInv, StateInv
<1>5. HeadInv
  BY <1>2, Empties, Constants DEF HeadInv
<1>6. PastInv
  <2>1. \A c \in Commands : want[c].files = NoDocs
    BY DEF Init
  <2>2. \A f \in Files : work[f] \in Nat
    BY <1>1, DocTypes
  <2> QED
    BY <1>2, <2>1, <2>2, Empties, Constants DEF PastInv, Past, NoDocs, NoState, NoEntries
<1>7. JobHead
  BY <1>2, <1>3, Empties DEF JobHead, Swapped, Publishing
<1>8. ModeInv /\ WholeInv /\ StatsInv /\ DocsInv /\ WrittenInv
  BY <1>2, <1>3, Empties DEF ModeInv, WholeInv, Untouched, StatsInv, DocsInv, WrittenInv
<1> QED
  BY <1>4, <1>5, <1>6, <1>7, <1>8, InitBlobs DEF Inv, TellsInv, JobInv

\* Every step preserves it.
LEMMA InvStep == Inv /\ [Next]_vars => Inv'
<1>. SUFFICES ASSUME Inv, [Next]_vars PROVE Inv'
  OBVIOUS
<1>1. BlobInv'
  BY BlobStep DEF Inv
<1>2. JobInv'
  BY JobHeadStep, ModeStep, WholeStep, StatsStep, DocsStep, WrittenStep DEF JobInv
<1>3. TellsInv'
  BY <1>2, MarkerStep, CommStep, HeadStep, EmptyStep, PastStep, EntriesStep, StateStep DEF TellsInv
<1> QED
  BY <1>1, <1>3 DEF Inv

\* A committed family that is ready for a commit holds it.
LEMMA ReadyHolds ==
    ASSUME Inv, Settled, CommittedReady(head)
    PROVE  committed.docs = BlobsOf(head)
<1>. TypeOK /\ CommInv /\ MarkerInv /\ HeadInv
  BY DEF Inv, BlobInv, TellsInv
<1>1. ~committed.torn /\ "head" \notin late
  BY DEF Settled, MarkerInv
<1>2. CASE head = NoHead /\ ~HasCommitted
  BY <1>2, Constants DEF HasCommitted
<1>3. CASE HasCommitted /\ committed.head = head
  BY <1>3 DEF CommInv, Whole
<1>4. CASE ~HasCommitted /\ headFile = head /\ CommittedIntact
  <2>1. committed.docs = {} /\ committed.named = {} /\ committed.head = NoHead /\ committed.torn = FALSE
    BY <1>1, <1>4 DEF HasCommitted, CommInv, Whole, TypeOK, CommittedFamilies
  <2>2. manifest.committed = NoCommitted
    BY <1>4, <2>1 DEF CommittedIntact, NoCommitted, TypeOK, CommittedFamilies
  <2>3. ~HeadWindow
    BY Held DEF Settled, HeadWindow, Swapped, Publishing, Stage, TypeOK
  <2> QED
    BY <1>1, <1>4, <2>1, <2>2, <2>3 DEF HeadInv
<1> QED
  BY <1>1, <1>2, <1>3, <1>4 DEF CommittedReady

\* The invariant tells what a search reads of an index that it takes as current.
LEMMA InvTells == Inv => StateTellsIndex
<1>. SUFFICES ASSUME Inv, Settled, state = RepoState
             PROVE  (IsComplete(head) => Describes) /\ (ToldEmpty => Empty)
  BY DEF StateTellsIndex
<1>. TypeOK /\ EmptyInv /\ HeadInv
  BY DEF Inv, BlobInv, TellsInv
<1>1. \A f \in Files : work[f] \in 1..MaxVersion /\ work[f] # 0 /\ DocNow(f) = DocOf(work, f)
  BY DocTypes DEF DocNow, DocOf
<1>2. state # NoState
  <2>1. state \in RepoStates
    BY <1>1, Constants DEF RepoState, RepoStates, TypeOK
  <2> QED
    BY <2>1, Starts
<1>3. \A f \in Files : state.files[f] = IF f \in dirty THEN work[f] ELSE 0
  BY DEF RepoState
<1>4. Stage \notin Publishing /\ LateClean
  BY DEF Settled, Stage, TypeOK, Publishing, LateClean
<1>5. ASSUME IsComplete(head)
      PROVE  Describes
  <2>1. FamilyIntact /\ CommittedReady(head)
    BY <1>5 DEF IsComplete
  <2>2. Stage \in {"none", "recheck", "build", "prepare", "stage", "publish"}
    BY <1>4 DEF Stage, TypeOK, Locked
  <2>3. Told(state.files, uncommitted.docs, work, reborn)
    BY <1>2, <1>4, <2>1, <2>2, FoundWhole
  <2>4. \A f \in Files \ reborn : uncommitted.docs[f] = IF f \in dirty THEN DocNow(f) ELSE 0
    BY <1>1, <1>3, <2>3 DEF Told, Told1
  <2> QED
    BY <2>1, <2>4, ReadyHolds DEF Describes
<1>6. ASSUME ToldEmpty
      PROVE  Empty
  <2>1. empty = state /\ empty.head = head
    BY <1>6 DEF ToldEmpty, RepoState
  <2>2. BlobsOf(head) = {}
    BY <1>2, <2>1 DEF HeadInv, Settled
  <2>3. \A f \in dirty : f \in Files /\ DocNow(f) = 0
    BY <1>1, <1>2, <1>3, <2>1 DEF EmptyInv, DocOf, TypeOK
  <2> QED
    BY <2>2, <2>3 DEF Empty
<1> QED
  BY <1>5, <1>6

\* The records of the index tell the index.  Whatever builds stopped, whatever was
\* lost, kept by name or given up before, an index that the next search takes as
\* current holds the commit and the dirty files, and a node that it takes as empty
\* is empty.
THEOREM StateTold == Spec => []StateTellsIndex
<1>1. Spec => []Inv
  BY InitInv, InvStep, PTL DEF Spec
<1> QED
  BY <1>1, InvTells, PTL
=============================================================================
