--------------------------- MODULE VectorStoreProof ---------------------------
(***************************************************************************)
(* Theorems about VectorStore, for any number of searches, commits, blobs, *)
(* moves and faults:                                                       *)
(*   TypeCorrect   the types, with the one holder of .build.lock;          *)
(*   TextFits      a search reads the vectors of the text that it reads;   *)
(*   LossNamed     a base that opens names the blobs that it lacks;        *)
(*   ReuseExact    a copy pairs rows and vectors of one generation.        *)
(* They follow from one invariant, Inv: what the builder knows (JobInv),   *)
(* what the bases hold (RowsInv), what the record says of them             *)
(* (RecordInv), what a search has open (ReadInv), and what a linked        *)
(* worktree has read (PeerInv).  Two facts carry the last three.  A base   *)
(* lies within the blobs of the object store, which only grows, so the     *)
(* base that replaces another holds at least its rows.  And the record     *)
(* changes only under the build lock.                                      *)
(***************************************************************************)
EXTENDS VectorStore, FiniteSetTheorems, TLAPS

Busy(c) == pc[c] \in Building \cup Publishing

(* What a build knows of the base that it made: it has the windows of its  *)
(* commit that the store had when the build began, and all those of the    *)
(* base that it replaces.                                                  *)
BaseOf(c) ==
    job.base # NoBase =>
        LET h == want[c].head IN
        /\ h \in Commits /\ job.base.health = "whole"
        /\ Content[h] \cap job.store \subseteq job.base.rows
        /\ job.base.rows \subseteq Content[h] \cap here
        /\ bases[h].rows \subseteq job.base.rows

(* Until the build writes its record, the record is the one that it found: *)
(* a base that opens is replaced only when a blob of its record arrived.   *)
Undecided == {"base", "overlay", "publish", "swap", "state", "pending"}

ReplaceOf(c) ==
    LET h == want[c].head IN
    pc[c] \in Undecided =>
        /\ job.replace => Counts(h)
        /\ (pc[c] = "base" \/ job.base # NoBase) /\ BasePresent(h) => job.replace

(* From then on the record names what the new base lacks.                  *)
Renewing == {"generation", "rename", "exact"}

PendingOf(c) ==
    LET h == want[c].head IN
    pc[c] \in Renewing =>
        /\ h \notin displaced /\ Left(h) \subseteq displaced
        /\ MissingOf(h, job.base.rows) # {} =>
              /\ Counts(h) /\ record.store = Unknown
              /\ MissingOf(h, job.base.rows) \subseteq record.blobs

(* What the step of a build says of its decisions.                         *)
StepOf(c) ==
    /\ pc[c] = "base" => NeedsBase(semantic[c], want[c])
    /\ pc[c] \in {"pending"} \cup Renewing => job.base # NoBase
    /\ pc[c] = "exact" => bases[want[c].head].rows = job.base.rows
    /\ pc[c] \in Publishing \ {"swap"} => family = want[c]
    /\ job.store \subseteq here

JobOf(c) == BaseOf(c) /\ ReplaceOf(c) /\ PendingOf(c) /\ StepOf(c)

JobInv == \A c \in Commands : Busy(c) => JobOf(c)

(* A base holds windows of its commit, of blobs that the store has.        *)
RowsInv == \A h \in Commits : bases[h].rows \subseteq Content[h] \cap here

(* A base that opens has a record of what it lacks, whose store is an      *)
(* earlier one that lacked it too.                                         *)
Named(h) ==
    LET lost == MissingOf(h, bases[h].rows) IN
    BasePresent(h) /\ lost # {} =>
        /\ Counts(h) /\ lost \subseteq record.blobs
        /\ record.store # Unknown => record.store \subseteq here /\ lost \cap record.store = {}

RecordInv ==
    /\ \A h \in Commits \ displaced : Named(h)
    /\ record # NoRecord => record.head \notin displaced

(* A search has vectors only while it reads, and no publish runs then.     *)
Fits(c) ==
    read[c].vectors =>
        LET s == read[c].state
        IN /\ family = s
           /\ s.head # NoHead => bases[s.head] = read[c].base
           /\ s.work # Clean => overlays[s] = "whole"

ReadInv ==
    /\ descriptor.state = descriptor.family
    /\ \A c \in Commands : read[c].vectors => pc[c] = "reading"
    /\ \A c, d \in Commands : pc[c] = "reading" => pc[d] \notin Publishing
    /\ \A c \in Commands : Fits(c)

(* What a linked worktree has read of a generation is in it while it lies  *)
(* there, and in the one that a build has made to replace it.              *)
PeerInv ==
    peer # NoPeer =>
        /\ peer.source \in Commits /\ peer.rows # {}
        /\ peer.rows \subseteq Content[peer.source] \cap here
        /\ bases[peer.source] # NoBase => peer.rows \subseteq bases[peer.source].rows
        /\ \A c \in Commands : Busy(c) /\ job.base # NoBase /\ want[c].head = peer.source
                                  => peer.rows \subseteq job.base.rows
        /\ peer.vectors # {} => peer.vectors = peer.rows

Inv == TypeOK /\ JobInv /\ RowsInv /\ RecordInv /\ ReadInv /\ PeerInv

-----------------------------------------------------------------------------
(* Types.                                                                  *)

Locked == Building \cup Publishing \cup {"remove"}

PlaceTyped ==
    /\ builder \in Commands \cup {NoOne}
    /\ pc \in [Commands -> {"start", "lock", "open", "repair"} \cup Locked \cup {"reading"}]
    /\ \A c \in Commands : pc[c] \in Locked <=> builder = c

SearchTyped ==
    /\ want \in [Commands -> States] /\ {semantic, retried} \subseteq [Commands -> BOOLEAN]
    /\ read \in [Commands -> Reads]

RepoTyped ==
    /\ head \in Heads /\ work \in Works /\ here \subseteq Blobs /\ moves \in 0..MaxMoves
    /\ faults \in 0..MaxFaults

DiskTyped ==
    /\ {state, family} \subseteq States \cup {NoState}
    /\ descriptor \in Descriptors \cup {NoDescriptor}
    /\ bases \in [Commits -> Bases \cup {NoBase}] /\ overlays \in [States -> Overlays]
    /\ record \in Records \cup {NoRecord} /\ displaced \subseteq Commits

JobTyped ==
    /\ job \in Jobs
    /\ peer \in [source : Heads, rows : SUBSET Blobs, vectors : SUBSET Blobs]

\* The five parts are the type invariant.
LEMMA TypeParts == TypeOK <=> PlaceTyped /\ SearchTyped /\ RepoTyped /\ DiskTyped /\ JobTyped
<1>1. Locked \cup {"start", "lock", "open", "repair"} \cup {"reading"}
        = {"start", "lock", "open", "repair", "remove"} \cup Building \cup Publishing \cup {"reading"}
  BY DEF Locked
<1> QED
  BY <1>1 DEF TypeOK, PlaceTyped, SearchTyped, RepoTyped, DiskTyped, JobTyped, Locked

\* A capture is a state, the empty captures too.
LEMMA Constants ==
    /\ NoRead.state \in States /\ NoRead \in Reads /\ NoJob \in Jobs
    /\ NoRead.vectors = FALSE
    /\ \A h \in Commits : h \in Nat /\ h # NoHead /\ h \in Heads /\ Content[h] \in SUBSET Blobs
    /\ NoHead \in Heads /\ Clean \in Works
    /\ Unknown \notin SUBSET Blobs
    /\ NoBase.rows = {} /\ NoBase.health = "none" /\ NoBase \notin Bases
    /\ NoRecord.blobs = {} /\ NoRecord.head = NoHead
    /\ NoState \notin States
<1>1. /\ \A h \in Commits : h \in Nat /\ h # NoHead /\ h \in Heads /\ Content[h] \in SUBSET Blobs
      /\ NoHead \in Heads /\ Clean \in Works
  BY ConstantsAssumption DEF Commits, Heads, NoHead, Clean, Works
<1>2. NoRead.state \in States /\ NoRead \in Reads /\ NoRead.vectors = FALSE
  BY <1>1 DEF NoRead, Reads, States
<1>3. NoJob \in Jobs
  BY DEF NoJob, Jobs, Stores, Unknown
<1>4. Unknown \notin SUBSET Blobs
  BY ConstantsAssumption DEF Unknown
<1>5. NoBase.rows = {} /\ NoBase.health = "none" /\ NoBase \notin Bases
  BY DEF NoBase, Bases
<1>6. NoRecord.blobs = {} /\ NoRecord.head = NoHead
  BY DEF NoRecord
<1>7. NoState \notin States
  BY ConstantsAssumption DEF NoState, States, Works
<1> QED
  BY <1>1, <1>2, <1>3, <1>4, <1>5, <1>6, <1>7

\* The invariant holds at first: there is no base and no build.
LEMMA InitInv == Init => Inv
<1>. SUFFICES ASSUME Init PROVE Inv
  OBVIOUS
<1>. USE Constants
<1>1. /\ \A c \in Commands : pc[c] = "start" /\ ~read[c].vectors /\ read[c] = NoRead
      /\ bases = [h \in Commits |-> NoBase] /\ displaced = {} /\ record = NoRecord
      /\ peer = NoPeer /\ descriptor = NoDescriptor
  BY DEF Init
<1>2. PlaceTyped
  BY ConstantsAssumption, <1>1 DEF Init, PlaceTyped, Locked, Building, Publishing, Activating
<1>3. SearchTyped
  BY DEF Init, SearchTyped
<1>4. RepoTyped
  <2>1. head \in Heads
    BY ConstantsAssumption DEF Init, Heads
  <2>2. work \in Works /\ here \subseteq Blobs /\ moves \in 0..MaxMoves /\ faults \in 0..MaxFaults
    BY ConstantsAssumption DEF Init, Works, Clean
  <2> QED
    BY <2>1, <2>2 DEF RepoTyped
<1>5. DiskTyped /\ JobTyped
  BY <1>1 DEF Init, DiskTyped, JobTyped, NoPeer, Overlays
<1>6. JobInv
  BY <1>1 DEF JobInv, Busy, Building, Publishing, Activating
<1>7. RowsInv /\ RecordInv
  BY <1>1 DEF RowsInv, RecordInv, Named, BasePresent
<1>8. ReadInv
  BY <1>1 DEF ReadInv, Fits, NoDescriptor
<1>9. PeerInv
  BY <1>1 DEF PeerInv
<1> QED
  BY <1>2, <1>3, <1>4, <1>5, <1>6, <1>7, <1>8, <1>9, TypeParts DEF Inv

-----------------------------------------------------------------------------
(* What the steps change.                                                  *)

\* The steps of a search that holds no lock of the build.
Quiet(c) ==
    \/ \E v \in BOOLEAN : Prepare(c, v)
    \/ ServePeer(c) \/ SeeTreeChange(c) \/ ReadText(c) \/ OpenVectors(c) \/ OpenDamaged(c)
    \/ EndRead(c) \/ ScanDamaged(c) \/ SkipRepair(c)

\* The steps that take the build lock, and the recheck that lets go of it.
Locks(c) == FoundCurrent(c) \/ Decide(c) \/ LockRepair(c)

\* The steps of a build that keeps the lock.
Builds(c) ==
    \/ BuildBase(c) \/ BuildOverlay(c) \/ StartPublish(c) \/ PublishText(c) \/ WriteState(c)
    \/ WritePending(c) \/ RemoveBase(c) \/ RenameBase(c) \/ WriteExact(c) \/ PublishOverlay(c)

\* The steps that release it.
Releases(c) == DiscardBuild(c) \/ Bind(c) \/ Collect(c) \/ FailActivation(c) \/ RemoveDamaged(c)

Peers == PeerMapsVectors \/ \E h \in Commits : PeerReadsRows(h)

\* Every step is one of these.
LEMMA Steps ==
    ASSUME [Next]_vars
    PROVE  \/ UNCHANGED vars
           \/ Repository
           \/ \E c \in Commands : Quiet(c) \/ Locks(c) \/ Builds(c) \/ Releases(c) \/ Crash(c)
           \/ Damage
           \/ Peers
<1>1. ASSUME NEW c \in Commands, Step(c)
      PROVE  Quiet(c) \/ Locks(c) \/ Builds(c) \/ Releases(c)
  BY <1>1 DEF Step, Build, Publish, Read, Quiet, Locks, Builds, Releases
<1> QED
  BY <1>1 DEF Next, Peers, Releases

\* The repository stays, but for its own steps, in which the store grows.
LEMMA RepoFrame ==
    /\ \A c \in Commands : Quiet(c) \/ Locks(c) \/ Builds(c) \/ Releases(c) \/ Crash(c)
                             => UNCHANGED repoVars
    /\ Damage \/ Peers => UNCHANGED repoVars
    /\ Repository =>
          /\ UNCHANGED <<diskVars, builder, job, pc, searchVars, read, peer, faults, displaced>>
          /\ here \subseteq here'
<1>1. ASSUME NEW c \in Commands, Quiet(c)
      PROVE  UNCHANGED repoVars
  BY <1>1 DEF Quiet, Prepare, ServePeer, SeeTreeChange, ReadText, OpenVectors, OpenDamaged,
     EndRead, ScanDamaged, SkipRepair
<1>2. ASSUME NEW c \in Commands, Locks(c) \/ Crash(c)
      PROVE  UNCHANGED repoVars
  BY <1>2 DEF Locks, FoundCurrent, Decide, LockRepair, Crash
<1>3. ASSUME NEW c \in Commands, Builds(c)
      PROVE  UNCHANGED repoVars
  BY <1>3 DEF Builds, BuildBase, BuildOverlay, StartPublish, PublishText, WriteState, WritePending,
     RemoveBase, RenameBase, WriteExact, PublishOverlay, Go
<1>4. ASSUME NEW c \in Commands, Releases(c)
      PROVE  UNCHANGED repoVars
  BY <1>4 DEF Releases, DiscardBuild, Bind, Collect, FailActivation, RemoveDamaged, Go
<1>5. Damage \/ Peers => UNCHANGED repoVars
  BY DEF Damage, Peers, PeerMapsVectors, PeerReadsRows
<1>6. Repository =>
         /\ UNCHANGED <<diskVars, builder, job, pc, searchVars, read, peer, faults, displaced>>
         /\ here \subseteq here'
  BY DEF Repository, Edit, MoveHead, Arrive, Moves
<1> QED
  BY <1>1, <1>2, <1>3, <1>4, <1>5, <1>6

\* A quiet step, and a crash, write no generation, no record and no text.
LEMMA QuietFrame ==
    ASSUME NEW c \in Commands, Quiet(c) \/ Crash(c)
    PROVE  /\ UNCHANGED <<state, family, bases, overlays, record, peer, displaced>>
           /\ descriptor' \in {descriptor, NoDescriptor}
           /\ Quiet(c) => UNCHANGED <<builder, job>>
<1>1. ASSUME \E v \in BOOLEAN : Prepare(c, v)
      PROVE  UNCHANGED <<diskVars, peer, displaced, builder, job>>
  BY <1>1 DEF Prepare
<1>2. ASSUME ServePeer(c) \/ SeeTreeChange(c) \/ ReadText(c) \/ OpenVectors(c) \/ EndRead(c) \/ SkipRepair(c)
      PROVE  UNCHANGED <<diskVars, peer, displaced, builder, job>>
  BY <1>2 DEF ServePeer, SeeTreeChange, ReadText, OpenVectors, EndRead, SkipRepair
<1>3. ASSUME OpenDamaged(c) \/ ScanDamaged(c)
      PROVE  /\ UNCHANGED <<state, family, bases, overlays, record, peer, displaced, builder, job>>
             /\ descriptor' = NoDescriptor
  BY <1>3 DEF OpenDamaged, ScanDamaged
<1>4. ASSUME Crash(c)
      PROVE  UNCHANGED <<diskVars, peer, displaced>>
  BY <1>4 DEF Crash
<1>5. CASE Quiet(c)
  BY <1>1, <1>2, <1>3, <1>5 DEF Quiet, diskVars, vectorVars
<1>6. CASE Crash(c) /\ ~Quiet(c)
  BY <1>4, <1>6 DEF diskVars, vectorVars
<1> QED
  BY <1>5, <1>6

\* Each search has its own step and capture.
LEMMA OwnFrame ==
    ASSUME TypeOK, NEW c \in Commands, NEW d \in Commands, d # c,
           Quiet(d) \/ Locks(d) \/ Builds(d) \/ Releases(d) \/ Crash(d)
    PROVE  pc'[c] = pc[c] /\ want'[c] = want[c] /\ semantic'[c] = semantic[c] /\ read'[c] = read[c]
<1>. /\ \A x : [pc EXCEPT ![d] = x][c] = pc[c] /\ [want EXCEPT ![d] = x][c] = want[c]
     /\ \A x : [semantic EXCEPT ![d] = x][c] = semantic[c] /\ [read EXCEPT ![d] = x][c] = read[c]
  BY DEF TypeOK
<1>1. ASSUME Quiet(d)
      PROVE pc'[c] = pc[c] /\ want'[c] = want[c] /\ semantic'[c] = semantic[c] /\ read'[c] = read[c]
  BY ZenonT(60), <1>1 DEF Quiet, Prepare, ServePeer, SeeTreeChange, ReadText, OpenVectors, OpenDamaged,
     EndRead, ScanDamaged, SkipRepair, Ended, Goto, searchVars
<1>2. ASSUME Locks(d) \/ Crash(d)
      PROVE pc'[c] = pc[c] /\ want'[c] = want[c] /\ semantic'[c] = semantic[c] /\ read'[c] = read[c]
  <2>1. CASE Locks(d)
    <3>1. CASE FoundCurrent(d) \/ LockRepair(d)
      BY <3>1 DEF FoundCurrent, LockRepair, Goto, searchVars
    <3>2. CASE Decide(d)
      BY <3>2 DEF Decide, Goto, searchVars
    <3> QED
      BY <2>1, <3>1, <3>2 DEF Locks
  <2>2. CASE Crash(d)
    BY <2>2 DEF Crash, Ended, Goto
  <2> QED
    BY <1>2, <2>1, <2>2
<1>3. ASSUME Builds(d)
      PROVE pc'[c] = pc[c] /\ want'[c] = want[c] /\ semantic'[c] = semantic[c] /\ read'[c] = read[c]
  BY <1>3 DEF Builds, BuildBase, BuildOverlay, StartPublish, PublishText, WriteState, WritePending,
     RemoveBase, RenameBase, WriteExact, PublishOverlay, Go, Goto, searchVars
<1>4. ASSUME Releases(d)
      PROVE pc'[c] = pc[c] /\ want'[c] = want[c] /\ semantic'[c] = semantic[c] /\ read'[c] = read[c]
  BY <1>4 DEF Releases, DiscardBuild, Bind, Collect, FailActivation, RemoveDamaged, Go, Goto,
     Ended, searchVars
<1> QED
  BY <1>1, <1>2, <1>3, <1>4

\* The build lock is held at the steps that build, publish or remove.
LEMMA Held ==
    ASSUME TypeOK, NEW c \in Commands
    PROVE  /\ Busy(c) => builder = c
           /\ Builds(c) => Busy(c)
           /\ Releases(c) => builder = c
           /\ Locks(c) => builder = NoOne
           /\ builder = NoOne => \A d \in Commands : ~Busy(d)
           /\ NoOne \notin Commands
<1>1. NoOne \notin Commands
  BY ConstantsAssumption
<1>2. /\ Busy(c) => builder = c
      /\ builder = NoOne => \A d \in Commands : ~Busy(d)
      /\ pc[c] = "remove" => builder = c
  BY <1>1 DEF TypeOK, Busy
<1>3. Builds(c) => Busy(c)
  BY DEF Builds, BuildBase, BuildOverlay, StartPublish, PublishText, WriteState, WritePending,
     RemoveBase, RenameBase, WriteExact, PublishOverlay, Busy, Building, Publishing, Activating
<1>4. Releases(c) => Busy(c) \/ pc[c] = "remove"
  BY DEF Releases, DiscardBuild, Bind, Collect, FailActivation, RemoveDamaged, Busy, Building,
     Publishing, Activating
<1>5. Locks(c) => builder = NoOne
  BY DEF Locks, FoundCurrent, Decide, LockRepair
<1> QED
  BY <1>1, <1>2, <1>3, <1>4, <1>5

\* While a build runs, the other searches change nothing that it knows.
LEMMA OthersStep ==
    ASSUME TypeOK, NEW c \in Commands, Busy(c), NEW d \in Commands, d # c,
           Quiet(d) \/ Locks(d) \/ Builds(d) \/ Releases(d) \/ Crash(d)
    PROVE  /\ UNCHANGED <<repoVars, family, bases, overlays, record, builder, job, peer, displaced>>
           /\ pc'[c] = pc[c] /\ want'[c] = want[c] /\ semantic'[c] = semantic[c]
<1>1. builder = c
  BY Held
<1>2. Quiet(d) \/ Crash(d)
  BY <1>1, Held
<1>3. UNCHANGED <<builder, job>>
  BY <1>1, <1>2, QuietFrame DEF Crash
<1> QED
  BY <1>2, <1>3, QuietFrame, OwnFrame, RepoFrame

-----------------------------------------------------------------------------
(* Types.                                                                  *)

\* A step of the repository or a fault stays within the bounds.
LEMMA RepoTypedStep ==
    ASSUME TypeOK, [Next]_vars
    PROVE  RepoTyped'
<1>. USE TypeParts, ConstantsAssumption
<1>. RepoTyped
  OBVIOUS
<1>1. ASSUME NEW kind, Fault(kind) PROVE faults' \in 0..MaxFaults
  BY <1>1 DEF Fault, RepoTyped
<1>2. faults' \in 0..MaxFaults
  <2>1. ASSUME NEW c \in Commands, Quiet(c) PROVE UNCHANGED faults
    BY <2>1 DEF Quiet, Prepare, ServePeer, SeeTreeChange, ReadText, OpenVectors, OpenDamaged,
       EndRead, ScanDamaged, SkipRepair
  <2>2. ASSUME NEW c \in Commands, Locks(c) PROVE UNCHANGED faults
    BY <2>2 DEF Locks, FoundCurrent, Decide, LockRepair
  <2>3. ASSUME NEW c \in Commands, Builds(c) PROVE UNCHANGED faults \/ \E kind : Fault(kind)
    BY <2>3 DEF Builds, BuildBase, BuildOverlay, StartPublish, PublishText, WriteState,
       WritePending, RemoveBase, RenameBase, WriteExact, PublishOverlay
  <2>4. ASSUME NEW c \in Commands, Releases(c) PROVE UNCHANGED faults \/ \E kind : Fault(kind)
    BY <2>4 DEF Releases, DiscardBuild, Bind, Collect, FailActivation, RemoveDamaged
  <2>5. ASSUME NEW c \in Commands, Crash(c) PROVE Fault("crash")
    BY <2>5 DEF Crash
  <2>6. Damage => Fault("damage")
    BY DEF Damage
  <2>7. Peers => UNCHANGED faults
    BY DEF Peers, PeerMapsVectors, PeerReadsRows
  <2>8. UNCHANGED faults \/ \E kind : Fault(kind)
    BY <2>1, <2>2, <2>3, <2>4, <2>5, <2>6, <2>7, Steps, RepoFrame DEF vars
  <2> QED
    BY <1>1, <2>8 DEF RepoTyped
<1>3. CASE Repository
  <2>1. work' \in Works /\ moves' \in 0..MaxMoves
    BY <1>3 DEF Repository, Edit, MoveHead, Arrive, Moves, RepoTyped, Works, Clean
  <2>2. head' \in Heads /\ here' \subseteq Blobs
    BY <1>3 DEF Repository, Edit, MoveHead, Arrive, Moves, RepoTyped
  <2> QED
    BY <1>2, <2>1, <2>2 DEF RepoTyped
<1>4. CASE UNCHANGED repoVars
  BY <1>2, <1>4 DEF RepoTyped, repoVars
<1> QED
  BY <1>3, <1>4, Steps, RepoFrame DEF vars

\* The lock and the step of its holder go together.
LEMMA PlaceTypedStep ==
    ASSUME TypeOK, [Next]_vars
    PROVE  PlaceTyped'
<1>. USE TypeParts, ConstantsAssumption DEF PlaceTyped
<1>. PlaceTyped
  OBVIOUS
<1>. DEFINE Free == {"start", "lock", "open", "repair", "reading"}
<1>1. /\ Free \cap Locked = {} /\ {"remove", "swap", "state", "collect"} \subseteq Locked
      /\ Building \subseteq Locked /\ Activating \subseteq Locked
      /\ {"start", "lock", "open", "repair"} \cup Locked \cup {"reading"} = Free \cup Locked
  BY DEF Locked, Building, Publishing, Activating
<1>. HIDE DEF Free
\* A step within the lock, or outside it.
<1>2. ASSUME NEW c \in Commands, NEW step, Goto(c, step), UNCHANGED builder,
             \/ builder = c /\ step \in Locked
             \/ builder # c /\ step \in Free
      PROVE  PlaceTyped'
  BY <1>1, <1>2 DEF Goto
<1>3. ASSUME NEW c \in Commands, NEW step, Goto(c, step), builder = NoOne, builder' = c, step \in Locked
      PROVE  PlaceTyped'
  BY <1>1, <1>3 DEF Goto
<1>4. ASSUME NEW c \in Commands, NEW step, Goto(c, step), builder = c, builder' = NoOne, step \in Free
      PROVE  PlaceTyped'
  BY <1>1, <1>4 DEF Goto
<1>5. ASSUME NEW c \in Commands, Quiet(c)
      PROVE  PlaceTyped'
  <2>1. UNCHANGED builder
    BY <1>5, QuietFrame
  <2>2. \E step : Goto(c, step) /\ step \in Free
    BY <1>5 DEF Free, Quiet, Prepare, ServePeer, SeeTreeChange, ReadText, OpenVectors, OpenDamaged,
       EndRead, ScanDamaged, SkipRepair, Ended
  <2>3. pc[c] \in Free
    BY <1>5 DEF Free, Quiet, Prepare, ServePeer, SeeTreeChange, ReadText, OpenVectors, OpenDamaged,
       EndRead, ScanDamaged, SkipRepair, CanRead
  <2>4. builder # c
    BY <1>1, <2>3
  <2> QED
    BY <1>2, <2>1, <2>2, <2>4
<1>6. ASSUME NEW c \in Commands, Locks(c)
      PROVE  PlaceTyped'
  <2>1. CASE FoundCurrent(c)
    <3>1. Goto(c, "open") /\ UNCHANGED builder /\ builder # c
      BY <2>1 DEF FoundCurrent
    <3> QED
      BY <1>2, <3>1 DEF Free
  <2>2. CASE Decide(c) \/ LockRepair(c)
    <3>1. \E step : Goto(c, step) /\ step \in {"base", "overlay", "publish", "remove"}
      BY <2>2 DEF Decide, LockRepair
    <3>2. builder = NoOne /\ builder' = c
      BY <2>2 DEF Decide, LockRepair
    <3> QED
      BY <1>3, <3>1, <3>2 DEF Locked, Building
  <2> QED
    BY <1>6, <2>1, <2>2 DEF Locks
<1>7. ASSUME NEW c \in Commands, Builds(c)
      PROVE  PlaceTyped'
  <2>1. builder = c
    BY <1>7, Held
  <2>2. UNCHANGED builder
    BY <1>7 DEF Builds, BuildBase, BuildOverlay, StartPublish, PublishText, WriteState,
       WritePending, RemoveBase, RenameBase, WriteExact, PublishOverlay, Go
  <2>3. \E step : Goto(c, step) /\ step \in Locked
    <3>1. CASE BuildBase(c) \/ BuildOverlay(c) \/ StartPublish(c) \/ PublishText(c)
      BY <3>1 DEF BuildBase, BuildOverlay, StartPublish, PublishText, Go, Locked, Building,
         Publishing
    <3>2. CASE WriteState(c)
      BY <3>2 DEF WriteState, Go, Locked, Publishing, Activating
    <3>3. CASE WritePending(c) \/ RemoveBase(c) \/ RenameBase(c) \/ WriteExact(c) \/ PublishOverlay(c)
      BY <3>3 DEF WritePending, RemoveBase, RenameBase, WriteExact, PublishOverlay, Go, Locked,
         Publishing, Activating
    <3> QED
      BY <1>7, <3>1, <3>2, <3>3 DEF Builds
  <2> QED
    BY <1>2, <2>1, <2>2, <2>3
<1>8. ASSUME NEW c \in Commands, Releases(c)
      PROVE  PlaceTyped'
  <2>1. builder = c
    BY <1>8, Held
  <2>2. CASE Bind(c) /\ BaseReady /\ OverlayReady /\ ~job.partial
    <3>1. Goto(c, "collect") /\ UNCHANGED builder
      BY <2>2 DEF Bind, Go
    <3> QED
      BY <1>1, <1>2, <2>1, <3>1
  <2>3. CASE ~(Bind(c) /\ BaseReady /\ OverlayReady /\ ~job.partial)
    <3>1. builder' = NoOne /\ \E step \in {"open", "start"} : Goto(c, step)
      BY <1>8, <2>3 DEF Releases, DiscardBuild, Bind, Collect, FailActivation, RemoveDamaged,
         Unlock, Ended
    <3> QED
      BY <1>4, <2>1, <3>1 DEF Free
  <2> QED
    BY <2>2, <2>3
<1>9. ASSUME NEW c \in Commands, Crash(c)
      PROVE  PlaceTyped'
  <2>1. Goto(c, "start") /\ builder' = (IF builder = c THEN NoOne ELSE builder)
    BY <1>9 DEF Crash, Ended, Unlock
  <2> QED
    BY <1>2, <1>4, <2>1 DEF Free
<1>10. ASSUME Damage \/ Peers \/ Repository \/ UNCHANGED vars
       PROVE  PlaceTyped'
  <2>1. UNCHANGED <<pc, builder>>
    BY <1>10, RepoFrame DEF Damage, Peers, PeerMapsVectors, PeerReadsRows, vars
  <2> QED
    BY <2>1
<1> QED
  BY <1>5, <1>6, <1>7, <1>8, <1>9, <1>10, Steps

\* A capture is a state of the repository; a read has what it opened.
LEMMA SearchTypedStep ==
    ASSUME TypeOK, [Next]_vars
    PROVE  SearchTyped'
<1>. USE TypeParts, Constants
<1>. SearchTyped /\ RepoTyped /\ DiskTyped
  OBVIOUS
<1>1. UNCHANGED <<want, semantic, retried, read>> => SearchTyped'
  BY DEF SearchTyped
<1>2. ASSUME NEW c \in Commands, NEW again \in BOOLEAN, Ended(c, again)
      PROVE  SearchTyped'
  <2>1. want' \in [Commands -> States] /\ read' \in [Commands -> Reads]
    BY <1>2 DEF Ended, SearchTyped
  <2>2. semantic' \in [Commands -> BOOLEAN] /\ retried' \in [Commands -> BOOLEAN]
    BY <1>2 DEF Ended, SearchTyped
  <2> QED
    BY <2>1, <2>2 DEF SearchTyped
<1>3. ASSUME NEW c \in Commands, Quiet(c)
      PROVE  SearchTyped'
  <2>1. CASE \E v \in BOOLEAN : Prepare(c, v)
    <3>1. PICK v \in BOOLEAN : Prepare(c, v)
      BY <2>1
    <3>2. [head |-> head, work |-> work] \in States
      BY DEF RepoTyped, States
    <3> QED
      BY <3>1, <3>2 DEF Prepare, SearchTyped
  <2>2. CASE ServePeer(c) \/ SeeTreeChange(c) \/ ReadText(c) \/ OpenDamaged(c) \/ EndRead(c) \/ SkipRepair(c)
    BY <1>2, <2>2 DEF ServePeer, SeeTreeChange, ReadText, OpenDamaged, EndRead, SkipRepair
  <2>3. CASE OpenVectors(c)
    <3>1. Version(c) \in States
      BY DEF Version, SearchTyped, RepoTyped, States
    <3>2. state \in States
      BY <2>3, <3>1 DEF OpenVectors
    <3>3. NeedsBase(semantic[c], state) => bases[state.head] \in Bases \cup {NoBase}
      BY <3>2 DEF NeedsBase, States, Heads, DiskTyped
    <3>4. [state |-> state, vectors |-> TRUE,
           base |-> IF NeedsBase(semantic[c], state) THEN bases[state.head] ELSE NoBase] \in Reads
      BY <3>2, <3>3 DEF Reads
    <3>5. read' \in [Commands -> Reads]
      BY <2>3, <3>4 DEF OpenVectors, SearchTyped
    <3> QED
      BY <2>3, <3>5 DEF OpenVectors, SearchTyped, searchVars
  <2>4. CASE ScanDamaged(c)
    <3>1. read' \in [Commands -> Reads]
      BY <2>4 DEF ScanDamaged, SearchTyped
    <3> QED
      BY <2>4, <3>1 DEF ScanDamaged, SearchTyped, searchVars
  <2> QED
    BY <1>3, <2>1, <2>2, <2>3, <2>4 DEF Quiet
<1>4. ASSUME NEW c \in Commands, Locks(c)
      PROVE  SearchTyped'
  BY <1>1, <1>4 DEF Locks, FoundCurrent, Decide, LockRepair, searchVars
<1>5. ASSUME NEW c \in Commands, Builds(c)
      PROVE  SearchTyped'
  <2>1. UNCHANGED <<searchVars, read>>
    BY <1>5 DEF Builds, BuildBase, BuildOverlay, StartPublish, PublishText, WriteState,
       WritePending, RemoveBase, RenameBase, WriteExact, PublishOverlay, Go
  <2> QED
    BY <1>1, <2>1 DEF searchVars
<1>6. ASSUME NEW c \in Commands, Releases(c)
      PROVE  SearchTyped'
  <2>1. CASE RemoveDamaged(c)
    BY <1>2, <2>1 DEF RemoveDamaged
  <2>2. CASE ~RemoveDamaged(c)
    <3>1. UNCHANGED <<searchVars, read>>
      BY <1>6, <2>2 DEF Releases, DiscardBuild, Bind, Collect, FailActivation, Go
    <3> QED
      BY <1>1, <3>1 DEF searchVars
  <2> QED
    BY <2>1, <2>2
<1>7. ASSUME NEW c \in Commands, Crash(c)
      PROVE  SearchTyped'
  BY <1>2, <1>7 DEF Crash
<1>8. ASSUME Damage \/ Peers \/ Repository \/ UNCHANGED vars
      PROVE  SearchTyped'
  <2>1. UNCHANGED <<searchVars, read>>
    BY <1>8, RepoFrame DEF Damage, Peers, PeerMapsVectors, PeerReadsRows, vars
  <2> QED
    BY <1>1, <2>1 DEF searchVars
<1> QED
  BY <1>3, <1>4, <1>5, <1>6, <1>7, <1>8, Steps

\* A build that made a base has a commit.
LEMMA JobHead ==
    ASSUME TypeOK, JobInv, NEW c \in Commands, Busy(c)
    PROVE  /\ job.base # NoBase => want[c].head \in Commits
           /\ pc[c] \in {"pending", "generation", "rename", "exact"} => job.base # NoBase
           /\ pc[c] = "base" => want[c].head \in Commits
<1>1. BaseOf(c) /\ StepOf(c)
  BY DEF JobInv, JobOf
<1>2. pc[c] = "base" => want[c].head # NoHead
  BY <1>1 DEF StepOf, NeedsBase
<1>3. want[c].head \in Heads
  BY DEF TypeOK, States
<1>4. pc[c] \in {"pending", "generation", "rename", "exact"} => job.base # NoBase
  BY <1>1 DEF StepOf, Renewing
<1> QED
  BY <1>1, <1>2, <1>3, <1>4 DEF BaseOf, Heads

\* KeepOnly leaves generations or removes them.
LEMMA Kept ==
    ASSUME DiskTyped, NEW base, NEW overlay, KeepOnly(base, overlay)
    PROVE  /\ bases' \in [Commits -> Bases \cup {NoBase}] /\ overlays' \in [States -> Overlays]
           /\ displaced' \subseteq Commits
           /\ \A h \in Commits : bases'[h] = NoBase \/ (h = base /\ bases'[h] = bases[h])
<1>1. bases' \in [Commits -> Bases \cup {NoBase}]
  BY DEF KeepOnly, DiskTyped
<1>2. overlays' \in [States -> Overlays]
  BY DEF KeepOnly, DiskTyped, Overlays
<1>3. displaced' \subseteq Commits
  BY DEF KeepOnly, DiskTyped
<1>4. \A h \in Commits : bases'[h] = NoBase \/ (h = base /\ bases'[h] = bases[h])
  BY DEF KeepOnly
<1> QED
  BY <1>1, <1>2, <1>3, <1>4

\* Damage leaves the rows of a base, and never mends one.
LEMMA Damaged ==
    ASSUME DiskTyped, Damage
    PROVE  /\ bases' \in [Commits -> Bases \cup {NoBase}]
           /\ \A h \in Commits :
                 \/ bases'[h] = bases[h]
                 \/ BasePresent(h) /\ bases'[h].rows = bases[h].rows /\ bases'[h] \in Bases
<1>. USE Constants
<1>1. CASE UNCHANGED bases
  BY <1>1 DEF DiskTyped
<1>2. ASSUME NEW h \in Commits, NEW kind \in {"open", "graph"}, BasePresent(h),
             bases' = [bases EXCEPT ![h].health = kind]
      PROVE  /\ bases' \in [Commits -> Bases \cup {NoBase}]
             /\ \A g \in Commits :
                   \/ bases'[g] = bases[g]
                   \/ BasePresent(g) /\ bases'[g].rows = bases[g].rows /\ bases'[g] \in Bases
  <2>. DEFINE new == [bases[h] EXCEPT !.health = kind]
  <2>1. bases[h] \in Bases
    BY <1>2 DEF DiskTyped, BasePresent
  <2>2. new \in Bases /\ new.rows = bases[h].rows
    BY <2>1 DEF Bases
  <2>3. bases' = [bases EXCEPT ![h] = new]
    BY <1>2
  <2>. HIDE DEF new
  <2>4. bases' \in [Commits -> Bases \cup {NoBase}]
    BY <2>2, <2>3 DEF DiskTyped
  <2>5. \A g \in Commits : bases'[g] = IF g = h THEN new ELSE bases[g]
    BY <2>3 DEF DiskTyped
  <2> QED
    BY <1>2, <2>2, <2>4, <2>5
<1> QED
  BY <1>1, <1>2 DEF Damage

\* What lies on disk is well formed, at any crash.
LEMMA DiskTypedStep ==
    ASSUME TypeOK, JobInv, [Next]_vars
    PROVE  DiskTyped'
<1>. USE TypeParts, Constants
<1>. SearchTyped /\ RepoTyped /\ DiskTyped /\ JobTyped
  OBVIOUS
<1>1. UNCHANGED <<diskVars, displaced>> => DiskTyped'
  BY DEF DiskTyped, diskVars, vectorVars
<1>2. ASSUME NEW c \in Commands, Quiet(c) \/ Crash(c)
      PROVE  DiskTyped'
  BY <1>2, QuietFrame DEF DiskTyped
<1>3. ASSUME NEW c \in Commands, Locks(c)
      PROVE  DiskTyped'
  <2>1. CASE LockRepair(c)
    BY <1>1, <2>1 DEF LockRepair
  <2>2. CASE FoundCurrent(c) \/ Decide(c)
    <3>1. RefreshRecord(c, want[c].head)
      BY <2>2 DEF FoundCurrent, Decide
    <3>2. record \in Records /\ here \in Stores => [record EXCEPT !.store = here] \in Records
      BY DEF Records
    <3>3. record' \in Records \cup {NoRecord}
      BY <3>1, <3>2 DEF RefreshRecord, Counts, DiskTyped, RepoTyped, Stores
    <3>4. UNCHANGED <<state, family, descriptor, bases, overlays, displaced>>
      BY <2>2 DEF FoundCurrent, Decide
    <3> QED
      BY <3>3, <3>4 DEF DiskTyped
  <2> QED
    BY <1>3, <2>1, <2>2 DEF Locks
<1>4. ASSUME NEW c \in Commands, Builds(c)
      PROVE  DiskTyped'
  <2>. DEFINE h == want[c].head
  <2>0. Busy(c) /\ want[c] \in States
    BY <1>4, Held DEF SearchTyped
  <2>1. CASE BuildBase(c) \/ BuildOverlay(c)
    BY <1>1, <2>1 DEF BuildBase, BuildOverlay
  <2>2. CASE StartPublish(c) \/ PublishText(c) \/ WriteState(c)
    BY <2>0, <2>2 DEF StartPublish, PublishText, WriteState, DiskTyped, vectorVars
  <2>3. CASE WritePending(c) \/ WriteExact(c)
    <3>1. h \in Commits
      BY <2>0, <2>3, JobHead DEF WritePending, WriteExact
    <3>2. Content[h] \in SUBSET Blobs /\ record.blobs \in SUBSET Blobs /\ job.store \in Stores
      BY <3>1 DEF DiskTyped, JobTyped, Records, Jobs
    <3>3. ASSUME NEW st \in Stores, NEW bs \in SUBSET Blobs
          PROVE  [head |-> h, store |-> st, blobs |-> bs] \in Records
      BY <3>1 DEF Records
    <3>4. Unknown \in Stores
      BY DEF Stores, Unknown
    <3>5. record' \in Records \cup {NoRecord}
      <4>1. CASE WritePending(c)
        <5>1. MissingOf(h, job.base.rows) \cup record.blobs \in SUBSET Blobs
          BY <3>2 DEF MissingOf
        <5> QED
          BY <3>3, <3>4, <4>1, <5>1 DEF WritePending
      <4>2. CASE WriteExact(c)
        <5>1. MissingOf(h, job.base.rows) \in SUBSET Blobs
          BY <3>2 DEF MissingOf
        <5> QED
          BY <3>2, <3>3, <4>2, <5>1 DEF WriteExact
      <4> QED
        BY <2>3, <4>1, <4>2
    <3>6. displaced' \subseteq Commits
      BY <2>3 DEF WritePending, WriteExact, Left, DiskTyped
    <3>7. UNCHANGED <<state, family, descriptor, bases, overlays>>
      BY <2>3 DEF WritePending, WriteExact
    <3> QED
      BY <3>5, <3>6, <3>7 DEF DiskTyped
  <2>4. CASE RemoveBase(c) \/ RenameBase(c)
    <3>1. job.base \in Bases \cup {NoBase}
      BY DEF JobTyped, Jobs
    <3>2. bases' \in [Commits -> Bases \cup {NoBase}]
      BY <2>4, <3>1 DEF RemoveBase, RenameBase, DiskTyped
    <3>3. UNCHANGED <<state, family, descriptor, overlays, record, displaced>>
      BY <2>4 DEF RemoveBase, RenameBase
    <3> QED
      BY <3>2, <3>3 DEF DiskTyped
  <2>5. CASE PublishOverlay(c)
    <3>1. overlays' \in [States -> Overlays]
      BY <2>5 DEF PublishOverlay, DiskTyped, Overlays
    <3> QED
      BY <2>5, <3>1 DEF PublishOverlay, DiskTyped
  <2> QED
    BY <1>4, <2>1, <2>2, <2>3, <2>4, <2>5 DEF Builds
<1>5. ASSUME NEW c \in Commands, Releases(c)
      PROVE  DiskTyped'
  <2>1. CASE DiscardBuild(c)
    BY <1>1, <2>1 DEF DiscardBuild
  <2>2. CASE FailActivation(c)
    BY <2>2 DEF FailActivation, DiskTyped
  <2>3. CASE Bind(c)
    <3>1. Busy(c)
      BY <2>3 DEF Bind, Busy, Publishing, Activating
    <3>2. StepOf(c)
      BY <3>1 DEF JobInv, JobOf
    <3>3. family = want[c]
      BY <2>3, <3>2 DEF Bind, StepOf, Publishing, Activating
    <3>4. [state |-> want[c], family |-> family, base |-> want[c].head,
           overlay |-> want[c].work # Clean] \in Descriptors
      BY <3>3 DEF Descriptors, SearchTyped, States
    <3>5. descriptor' \in Descriptors \cup {NoDescriptor}
      BY <2>3, <3>4 DEF Bind, DiskTyped
    <3> QED
      BY <2>3, <3>5 DEF Bind, DiskTyped
  <2>4. CASE Collect(c)
    <3>1. \/ \E base, overlay : KeepOnly(base, overlay)
          \/ UNCHANGED <<bases, overlays, displaced>>
      BY <2>4 DEF Collect
    <3>2. /\ bases' \in [Commits -> Bases \cup {NoBase}] /\ overlays' \in [States -> Overlays]
          /\ displaced' \subseteq Commits
      BY <3>1, Kept DEF DiskTyped
    <3> QED
      BY <2>4, <3>2 DEF Collect, DiskTyped
  <2>5. CASE RemoveDamaged(c)
    <3>1. KeepOnly(NoHead, NoState)
      BY <2>5 DEF RemoveDamaged
    <3>2. /\ bases' \in [Commits -> Bases \cup {NoBase}] /\ overlays' \in [States -> Overlays]
          /\ displaced' \subseteq Commits
      BY <3>1, Kept
    <3> QED
      BY <2>5, <3>2 DEF RemoveDamaged, DiskTyped
  <2> QED
    BY <1>5, <2>1, <2>2, <2>3, <2>4, <2>5 DEF Releases
<1>6. CASE Damage
  <2>1. overlays' \in [States -> Overlays]
    BY <1>6 DEF Damage, DiskTyped, Overlays
  <2> QED
    BY <1>6, <2>1, Damaged DEF Damage, DiskTyped
<1>7. ASSUME Peers \/ Repository \/ UNCHANGED vars
      PROVE  DiskTyped'
  <2>1. UNCHANGED <<diskVars, displaced>>
    BY <1>7, RepoFrame DEF Peers, PeerMapsVectors, PeerReadsRows, vars
  <2> QED
    BY <1>1, <2>1
<1> QED
  BY <1>2, <1>3, <1>4, <1>5, <1>6, <1>7, Steps

\* The notes of a build, and what a linked worktree has read.
LEMMA JobTypedStep ==
    ASSUME TypeOK, JobInv, PeerInv, [Next]_vars
    PROVE  JobTyped'
<1>. USE TypeParts, Constants
<1>. SearchTyped /\ RepoTyped /\ DiskTyped /\ JobTyped
  OBVIOUS
<1>1. UNCHANGED peer \/ Peers
  <2>1. ASSUME NEW c \in Commands, Locks(c) \/ Builds(c) \/ Releases(c)
        PROVE  UNCHANGED peer
    <3>1. CASE Locks(c)
      BY <3>1 DEF Locks, FoundCurrent, Decide, LockRepair
    <3>2. CASE Builds(c)
      BY <3>2 DEF Builds, BuildBase, BuildOverlay, StartPublish, PublishText, WriteState,
         WritePending, RemoveBase, RenameBase, WriteExact, PublishOverlay, Go
    <3>3. CASE Releases(c)
      BY <3>3 DEF Releases, DiscardBuild, Bind, Collect, FailActivation, RemoveDamaged, Go
    <3> QED
      BY <2>1, <3>1, <3>2, <3>3
  <2> QED
    BY <2>1, Steps, QuietFrame, RepoFrame DEF Damage, vars
<1>2. ASSUME Peers
      PROVE  peer' \in [source : Heads, rows : SUBSET Blobs, vectors : SUBSET Blobs]
  <2>1. CASE PeerMapsVectors
    <3>1. peer.source \in Heads /\ NoPeer \in [source : Heads, rows : SUBSET Blobs, vectors : SUBSET Blobs]
      BY DEF JobTyped, NoPeer
    <3>2. bases[peer.source].rows \in SUBSET Blobs
             => [peer EXCEPT !.vectors = bases[peer.source].rows]
                   \in [source : Heads, rows : SUBSET Blobs, vectors : SUBSET Blobs]
      BY DEF JobTyped
    <3>3. peer.source \in Commits
      BY <2>1 DEF PeerMapsVectors, PeerInv
    <3>4. bases[peer.source] \in Bases \cup {NoBase}
      BY <3>3 DEF DiskTyped
    <3>5. bases[peer.source].rows \in SUBSET Blobs
      BY <3>4 DEF Bases, NoBase
    <3> QED
      BY <2>1, <3>1, <3>2, <3>5 DEF PeerMapsVectors
  <2>2. ASSUME NEW h \in Commits, PeerReadsRows(h)
        PROVE  peer' \in [source : Heads, rows : SUBSET Blobs, vectors : SUBSET Blobs]
    <3>1. bases[h] \in Bases \cup {NoBase}
      BY DEF DiskTyped
    <3>2. bases[h].rows \in SUBSET Blobs
      BY <3>1 DEF Bases, NoBase
    <3> QED
      BY <2>2, <3>2 DEF PeerReadsRows
  <2> QED
    BY <1>2, <2>1, <2>2 DEF Peers
<1>3. job' \in Jobs
  <2>1. ASSUME NEW c \in Commands, Quiet(c) \/ Crash(c)
        PROVE  job' \in Jobs
    BY <2>1, QuietFrame DEF Crash, Unlock, JobTyped
  <2>2. ASSUME NEW c \in Commands, Locks(c)
        PROVE  job' \in Jobs
    <3>1. CASE FoundCurrent(c) \/ LockRepair(c)
      BY <3>1 DEF FoundCurrent, LockRepair, JobTyped
    <3>2. CASE Decide(c)
      <4>1. here \in Stores /\ semantic[c] \in BOOLEAN
        BY DEF RepoTyped, SearchTyped, Stores
      <4>2. \A s, a : Drop(c, s, a) \in BOOLEAN
        BY DEF Drop
      <4>3. ASSUME NEW b \in BOOLEAN, NEW o \in BOOLEAN, NEW d \in BOOLEAN, NEW a \in BOOLEAN
            PROVE  [NoJob EXCEPT !.semantic = ~b, !.overlay = ~o, !.baseBound = b, !.overlayBound = o,
                                 !.drop = d, !.replace = a, !.store = here] \in Jobs
        BY ZenonT(60), <4>1 DEF NoJob, Jobs
      <4>. DEFINE s       == want[c]
                  arrival == semantic[c] /\ Arrived(s.head)
                  base    == NeedsBase(semantic[c], s) => BasePresent(s.head) /\ ~arrival
                  overlay == NeedsOverlay(semantic[c], s) => OverlayPresent(s)
      <4>4. arrival \in BOOLEAN /\ base \in BOOLEAN /\ overlay \in BOOLEAN
        OBVIOUS
      <4>5. job' = [NoJob EXCEPT !.semantic = ~base, !.overlay = ~overlay, !.baseBound = base,
                                 !.overlayBound = overlay, !.drop = Drop(c, s, arrival),
                                 !.replace = arrival, !.store = here]
        BY <3>2 DEF Decide
      <4>. HIDE DEF base, overlay, arrival
      <4> QED
        BY <4>2, <4>3, <4>4, <4>5
    <3> QED
      BY <2>2, <3>1, <3>2 DEF Locks
  <2>3. ASSUME NEW c \in Commands, Builds(c)
        PROVE  job' \in Jobs
    <3>1. CASE BuildBase(c)
      <4>1. pc[c] = "base"
        BY <3>1 DEF BuildBase
      <4>2. want[c].head \in Commits
        BY <4>1, JobHead DEF Busy, Building
      <4>3. [rows |-> Content[want[c].head] \cap here, health |-> "whole"] \in Bases
        BY <4>2 DEF RepoTyped, Bases
      <4>4. \A x \in Bases : [job EXCEPT !.base = x] \in Jobs
        BY DEF JobTyped, Jobs
      <4> QED
        BY <3>1, <4>3, <4>4 DEF BuildBase, JobTyped
    <3>2. CASE BuildOverlay(c) \/ WriteState(c)
      <4>1. [job EXCEPT !.overlayBuilt = TRUE] \in Jobs /\ [job EXCEPT !.partial = TRUE] \in Jobs
        BY DEF JobTyped, Jobs
      <4> QED
        BY <3>2, <4>1 DEF BuildOverlay, WriteState, JobTyped
    <3>3. CASE ~(BuildBase(c) \/ BuildOverlay(c) \/ WriteState(c))
      BY <2>3, <3>3 DEF Builds, StartPublish, PublishText, WritePending, RemoveBase, RenameBase,
         WriteExact, PublishOverlay, JobTyped
    <3> QED
      BY <3>1, <3>2, <3>3
  <2>4. ASSUME NEW c \in Commands, Releases(c)
        PROVE  job' \in Jobs
    BY <2>4 DEF Releases, DiscardBuild, Bind, Collect, FailActivation, RemoveDamaged, Unlock,
       JobTyped
  <2>5. Damage \/ Peers => UNCHANGED job
    BY DEF Damage, Peers, PeerMapsVectors, PeerReadsRows
  <2> QED
    BY <2>1, <2>2, <2>3, <2>4, <2>5, Steps, RepoFrame DEF vars, JobTyped
<1> QED
  BY <1>1, <1>2, <1>3 DEF JobTyped

\* Together: the types.
LEMMA TypeStep ==
    ASSUME TypeOK, JobInv, PeerInv, [Next]_vars
    PROVE  TypeOK'
<1>1. PlaceTyped' /\ SearchTyped' /\ RepoTyped' /\ DiskTyped' /\ JobTyped'
  BY PlaceTypedStep, SearchTypedStep, RepoTypedStep, DiskTypedStep, JobTypedStep
<1>2. Locked \cup {"start", "lock", "open", "repair"} \cup {"reading"}
        = {"start", "lock", "open", "repair", "remove"} \cup Building \cup Publishing \cup {"reading"}
  BY DEF Locked
<1> QED
  BY <1>1, <1>2 DEF TypeOK, PlaceTyped, SearchTyped, RepoTyped, DiskTyped, JobTyped, Locked

-----------------------------------------------------------------------------
(* What a build knows.                                                     *)

\* The bases keep their rows, and none begins to open.
Mild ==
    \A h \in Commits :
        /\ bases'[h].rows = bases[h].rows
        /\ bases'[h] = NoBase <=> bases[h] = NoBase
        /\ bases'[h].health \in {"whole", "graph"} => BasePresent(h)

\* A step of another leaves what the build knows true: the store only grows.
LEMMA JobKept ==
    ASSUME TypeOK, JobInv, NEW c \in Commands, Busy(c), Mild, here \subseteq here',
           UNCHANGED <<family, record, displaced, job>>,
           pc'[c] = pc[c], want'[c] = want[c], semantic'[c] = semantic[c]
    PROVE  JobOf(c)'
<1>. DEFINE h == want[c].head
<1>0. BaseOf(c) /\ ReplaceOf(c) /\ PendingOf(c) /\ StepOf(c)
  BY DEF JobInv, JobOf
<1>1. BaseOf(c)'
  BY <1>0 DEF BaseOf, Mild
<1>2. ReplaceOf(c)'
  BY <1>0, JobHead DEF ReplaceOf, Counts, BasePresent, Mild
<1>3. PendingOf(c)'
  <2>1. Left(h)' = Left(h)
    BY DEF Left, Mild
  <2> QED
    BY <1>0, <2>1 DEF PendingOf, Counts, MissingOf
<1>4. StepOf(c)'
  BY <1>0, JobHead DEF StepOf, NeedsBase, Mild
<1> QED
  BY <1>1, <1>2, <1>3, <1>4 DEF JobOf

\* Damage is mild, and so is a step that writes no base.
LEMMA MildSteps ==
    /\ UNCHANGED bases => Mild
    /\ DiskTyped /\ Damage => Mild
<1>1. UNCHANGED bases => Mild
  BY DEF Mild, BasePresent
<1>2. ASSUME DiskTyped, Damage
      PROVE  Mild
  <2>1. ASSUME NEW h \in Commits
        PROVE  /\ bases'[h].rows = bases[h].rows
               /\ bases'[h] = NoBase <=> bases[h] = NoBase
               /\ bases'[h].health \in {"whole", "graph"} => BasePresent(h)
    <3>1. CASE bases'[h] = bases[h]
      BY <3>1 DEF BasePresent
    <3>2. CASE bases'[h] # bases[h]
      <4>1. BasePresent(h) /\ bases'[h].rows = bases[h].rows /\ bases'[h] \in Bases
        BY <1>2, <3>2, Damaged
      <4>2. bases[h] # NoBase
        BY <4>1, Constants DEF BasePresent
      <4> QED
        BY <4>1, <4>2, Constants
    <3> QED
      BY <3>1, <3>2
  <2> QED
    BY <2>1 DEF Mild
<1> QED
  BY <1>1, <1>2

\* The recheck keeps the head of the record; its blobs are those that it had.
LEMMA Refreshed ==
    ASSUME TypeOK, NEW c \in Commands, RefreshRecord(c, want[c].head)
    PROVE  \/ UNCHANGED record
           \/ /\ ~Arrived(want[c].head) /\ Counts(want[c].head)
              /\ record' \in Records /\ record'.head = record.head
              /\ record'.blobs = record.blobs /\ record'.store = here
<1>1. Counts(want[c].head) => record \in Records
  BY DEF TypeOK, Counts
<1>2. record \in Records /\ here \in Stores =>
         /\ [record EXCEPT !.store = here] \in Records
         /\ [record EXCEPT !.store = here].head = record.head
         /\ [record EXCEPT !.store = here].blobs = record.blobs
         /\ [record EXCEPT !.store = here].store = here
  BY DEF Records
<1> QED
  BY <1>1, <1>2 DEF RefreshRecord, TypeOK, Stores

\* A build begins with what it found under the lock.
LEMMA JobDecided ==
    ASSUME TypeOK, NEW c \in Commands, Decide(c)
    PROVE  JobOf(c)'
<1>. DEFINE s       == want[c]
            arrival == semantic[c] /\ Arrived(s.head)
            base    == NeedsBase(semantic[c], s) => BasePresent(s.head) /\ ~arrival
            overlay == NeedsOverlay(semantic[c], s) => OverlayPresent(s)
<1>1. /\ RefreshRecord(c, s.head)
      /\ Goto(c, IF ~base THEN "base" ELSE IF ~overlay THEN "overlay" ELSE "publish")
      /\ job' = [NoJob EXCEPT !.semantic = ~base, !.overlay = ~overlay, !.baseBound = base,
                              !.overlayBound = overlay, !.drop = Drop(c, s, arrival),
                              !.replace = arrival, !.store = here]
      /\ UNCHANGED <<repoVars, family, bases, want, semantic, displaced>>
  BY DEF Decide, searchVars
<1>2. job'.base = NoBase /\ job'.store = here /\ job'.replace = arrival
  BY <1>1 DEF NoJob
<1>3. pc'[c] = IF ~base THEN "base" ELSE IF ~overlay THEN "overlay" ELSE "publish"
  BY <1>1 DEF Goto, TypeOK
<1>4. BaseOf(c)'
  BY <1>2 DEF BaseOf
<1>5. ReplaceOf(c)'
  <2>1. arrival => Counts(s.head) /\ UNCHANGED record
    BY <1>1 DEF RefreshRecord, Arrived, MissingDue
  <2>2. pc'[c] = "base" => NeedsBase(semantic[c], s) /\ (BasePresent(s.head) => arrival)
    BY <1>3
  <2> QED
    BY <1>1, <1>2, <2>1, <2>2 DEF ReplaceOf, Counts, BasePresent
<1>6. PendingOf(c)'
  BY <1>3 DEF PendingOf, Renewing
<1>7. StepOf(c)'
  <2>1. pc'[c] = "base" => NeedsBase(semantic[c], s)
    BY <1>3
  <2> QED
    BY <1>1, <1>2, <1>3, <2>1 DEF StepOf, NeedsBase, Renewing, Publishing, Activating, repoVars
<1> QED
  BY <1>4, <1>5, <1>6, <1>7 DEF JobOf

\* A step of the build to another step.
LEMMA BuildMoves ==
    ASSUME TypeOK, NEW c \in Commands, NEW step, Go(c, step)
    PROVE  /\ pc'[c] = step /\ want'[c] = want[c] /\ semantic'[c] = semantic[c]
           /\ UNCHANGED <<repoVars, builder, peer, read>>
BY DEF Go, Goto, TypeOK, searchVars

\* The base that is made has the windows that the store has by now.
LEMMA JobBuildBase ==
    ASSUME TypeOK, JobInv, RowsInv, NEW c \in Commands, BuildBase(c)
    PROVE  JobOf(c)'
<1>. DEFINE h == want[c].head
            new == [rows |-> Content[h] \cap here, health |-> "whole"]
<1>0. Busy(c) /\ pc[c] = "base"
  BY DEF BuildBase, Busy, Building
<1>1. h \in Commits
  BY <1>0, JobHead
<1>2. BaseOf(c) /\ ReplaceOf(c) /\ PendingOf(c) /\ StepOf(c)
  BY <1>0 DEF JobInv, JobOf
<1>3. /\ pc'[c] \in {"overlay", "publish"} /\ want'[c] = want[c] /\ semantic'[c] = semantic[c]
      /\ UNCHANGED <<here, family, bases, record, displaced>>
  BY BuildMoves DEF BuildBase, diskVars, vectorVars, repoVars
<1>4. job' = job \/ job' = [job EXCEPT !.base = new]
  BY DEF BuildBase
<1>5. job'.replace = job.replace /\ job'.store = job.store /\ job'.base \in {job.base, new}
  BY <1>4 DEF TypeOK, Jobs
<1>6. BaseOf(c)'
  <2>1. new.health = "whole" /\ new.rows = Content[h] \cap here
    OBVIOUS
  <2>. HIDE DEF new
  <2> QED
    BY <1>1, <1>2, <1>3, <1>5, <2>1 DEF BaseOf, StepOf, RowsInv
<1>7. ReplaceOf(c)'
  BY <1>0, <1>2, <1>3, <1>5 DEF ReplaceOf, Undecided, Counts, BasePresent
<1>8. PendingOf(c)'
  BY <1>3 DEF PendingOf, Renewing
<1>9. StepOf(c)'
  BY <1>2, <1>3, <1>5 DEF StepOf, Renewing, Publishing, Activating
<1> QED
  BY <1>6, <1>7, <1>8, <1>9 DEF JobOf

\* The steps that write no base and no record.
LEMMA JobQuiet ==
    ASSUME TypeOK, JobInv, NEW c \in Commands,
           BuildOverlay(c) \/ StartPublish(c) \/ PublishText(c) \/ WriteState(c) \/ PublishOverlay(c)
             \/ (Bind(c) /\ Busy(c)')
    PROVE  JobOf(c)'
<1>. DEFINE h == want[c].head
<1>0. Busy(c)
  BY DEF BuildOverlay, StartPublish, PublishText, WriteState, PublishOverlay, Bind, Busy, Building,
     Publishing, Activating
<1>1. BaseOf(c) /\ ReplaceOf(c) /\ PendingOf(c) /\ StepOf(c)
  BY <1>0 DEF JobInv, JobOf
<1>2. UNCHANGED <<bases, record, displaced>>
  BY DEF BuildOverlay, StartPublish, PublishText, WriteState, PublishOverlay, Bind, diskVars,
     vectorVars
<1>3. /\ Bind(c) /\ Busy(c)' => Go(c, "collect") /\ UNCHANGED <<job, family>> /\ pc[c] = "bind"
      /\ BuildOverlay(c) => Go(c, "publish") /\ UNCHANGED family /\ pc[c] = "overlay"
      /\ StartPublish(c) => Go(c, "swap") /\ UNCHANGED <<job, family>> /\ pc[c] = "publish"
      /\ PublishText(c) => Go(c, "state") /\ UNCHANGED job /\ family' = want[c] /\ pc[c] = "swap"
      /\ WriteState(c) => /\ \E step \in {"collect", "pending", "dirty", "bind"} :
                                Go(c, step) /\ (step = "pending" => job.base # NoBase)
                          /\ UNCHANGED family /\ pc[c] = "state"
      /\ PublishOverlay(c) => Go(c, "bind") /\ UNCHANGED <<job, family>> /\ pc[c] = "dirty"
  <2>1. Bind(c) /\ Busy(c)' => Go(c, "collect") /\ UNCHANGED <<job, family>> /\ pc[c] = "bind"
    <3>1. ASSUME Bind(c), Goto(c, "open") PROVE ~Busy(c)'
      BY <3>1 DEF Goto, Busy, Building, Publishing, Activating, TypeOK
    <3> QED
      BY <3>1 DEF Bind
  <2>2. BuildOverlay(c) => Go(c, "publish") /\ UNCHANGED family /\ pc[c] = "overlay"
    BY DEF BuildOverlay, diskVars
  <2>3. StartPublish(c) => Go(c, "swap") /\ UNCHANGED <<job, family>> /\ pc[c] = "publish"
    BY DEF StartPublish
  <2>4. PublishText(c) => Go(c, "state") /\ UNCHANGED job /\ family' = want[c] /\ pc[c] = "swap"
    BY DEF PublishText
  <2>5. WriteState(c) => /\ \E step \in {"collect", "pending", "dirty", "bind"} :
                               Go(c, step) /\ (step = "pending" => job.base # NoBase)
                         /\ UNCHANGED family /\ pc[c] = "state"
    BY DEF WriteState
  <2>6. PublishOverlay(c) => Go(c, "bind") /\ UNCHANGED <<job, family>> /\ pc[c] = "dirty"
    BY DEF PublishOverlay
  <2> QED
    BY <2>1, <2>2, <2>3, <2>4, <2>5, <2>6
<1>4. /\ job'.replace = job.replace /\ job'.store = job.store /\ job'.base = job.base
      /\ want'[c] = want[c] /\ semantic'[c] = semantic[c] /\ UNCHANGED here
  <2>1. job' = job \/ job' = [job EXCEPT !.overlayBuilt = TRUE] \/ job' = [job EXCEPT !.partial = TRUE]
    BY <1>3 DEF BuildOverlay, WriteState
  <2>2. job'.replace = job.replace /\ job'.store = job.store /\ job'.base = job.base
    BY <2>1 DEF TypeOK, Jobs
  <2>3. \E step : Go(c, step)
    BY <1>3
  <2> QED
    BY <2>2, <2>3, BuildMoves DEF repoVars
<1>5. /\ pc[c] \notin {"base"} \cup Renewing /\ pc'[c] \notin {"base"} \cup Renewing
      /\ pc'[c] \in Undecided => pc[c] \in Undecided
      /\ pc'[c] = "pending" => job.base # NoBase
      /\ pc'[c] \in Publishing \ {"swap"} => family' = want[c]
  <2>1. pc[c] \in Publishing \ {"swap"} => family = want[c]
    BY <1>1 DEF StepOf
  <2>2. CASE Bind(c) /\ Busy(c)'
    BY <1>3, <2>1, <2>2, BuildMoves DEF Renewing, Undecided, Publishing, Activating
  <2>3. CASE BuildOverlay(c)
    BY <1>3, <2>1, <2>3, BuildMoves DEF Renewing, Undecided, Publishing, Activating
  <2>4. CASE StartPublish(c) \/ PublishText(c)
    BY <1>3, <2>1, <2>4, BuildMoves DEF Renewing, Undecided, Publishing, Activating
  <2>5. CASE WriteState(c)
    BY <1>3, <2>1, <2>5, BuildMoves DEF Renewing, Undecided, Publishing, Activating
  <2>6. CASE PublishOverlay(c)
    BY <1>3, <2>1, <2>6, BuildMoves DEF Renewing, Undecided, Publishing, Activating
  <2> QED
    BY <2>2, <2>3, <2>4, <2>5, <2>6
<1>6. BaseOf(c)'
  BY <1>1, <1>2, <1>4 DEF BaseOf
<1>7. ReplaceOf(c)'
  BY <1>1, <1>2, <1>4, <1>5 DEF ReplaceOf, Counts, BasePresent
<1>8. PendingOf(c)' /\ StepOf(c)'
  <2>1. "exact" \in Renewing
    BY DEF Renewing
  <2> QED
    BY <1>1, <1>4, <1>5, <2>1 DEF PendingOf, StepOf
<1> QED
  BY <1>6, <1>7, <1>8 DEF JobOf

\* The record of before the replacement names what the new base lacks.
LEMMA JobPending ==
    ASSUME TypeOK, JobInv, NEW c \in Commands, WritePending(c)
    PROVE  JobOf(c)'
<1>. DEFINE h == want[c].head
<1>0. Busy(c) /\ pc[c] = "pending"
  BY DEF WritePending, Busy, Publishing, Activating
<1>1. BaseOf(c) /\ StepOf(c) /\ h \in Commits /\ job.base # NoBase
  BY <1>0, JobHead DEF JobInv, JobOf
<1>2. /\ pc'[c] = "generation" /\ want'[c] = want[c] /\ semantic'[c] = semantic[c]
      /\ UNCHANGED <<here, family, bases, job>>
      /\ displaced' = (displaced \cup Left(h)) \ {h}
  BY BuildMoves DEF WritePending, repoVars
<1>3. BaseOf(c)'
  BY <1>1, <1>2 DEF BaseOf
<1>4. ReplaceOf(c)'
  BY <1>2 DEF ReplaceOf, Undecided
<1>5. PendingOf(c)'
  <2>. DEFINE lost == MissingOf(h, job.base.rows) \cup record.blobs
  <2>1. record' = IF lost = {} THEN NoRecord ELSE [head |-> h, store |-> Unknown, blobs |-> lost]
    BY DEF WritePending
  <2>2. h \notin displaced' /\ Left(h) \subseteq displaced'
    BY <1>2 DEF Left
  <2>3. Left(h)' = Left(h)
    BY <1>2 DEF Left
  <2>4. h # NoHead
    BY <1>1, Constants
  <2>5. ASSUME MissingOf(h, job.base.rows) # {}
        PROVE  /\ record' # NoRecord /\ record'.head = h /\ record'.store = Unknown
               /\ MissingOf(h, job.base.rows) \subseteq record'.blobs
    BY <2>1, <2>4, <2>5 DEF NoRecord
  <2> QED
    BY <1>2, <2>2, <2>3, <2>5 DEF PendingOf, Counts, MissingOf
<1>6. StepOf(c)'
  BY <1>0, <1>1, <1>2 DEF StepOf, Renewing, Publishing, Activating
<1> QED
  BY <1>3, <1>4, <1>5, <1>6 DEF JobOf

\* The replacement of the base.
LEMMA JobReplace ==
    ASSUME TypeOK, JobInv, NEW c \in Commands, RemoveBase(c) \/ RenameBase(c)
    PROVE  JobOf(c)'
<1>. DEFINE h == want[c].head
<1>0. Busy(c) /\ pc[c] \in {"generation", "rename"}
  BY DEF RemoveBase, RenameBase, Busy, Publishing, Activating
<1>1. BaseOf(c) /\ StepOf(c) /\ PendingOf(c) /\ h \in Commits /\ job.base # NoBase
  BY <1>0, JobHead DEF JobInv, JobOf
<1>2. /\ pc'[c] \in {"rename", "exact"} /\ want'[c] = want[c] /\ semantic'[c] = semantic[c]
      /\ UNCHANGED <<here, family, record, job, displaced>>
  BY BuildMoves DEF RemoveBase, RenameBase, repoVars
<1>3. /\ \A g \in Commits \ {h} : bases'[g] = bases[g]
      /\ bases'[h] = IF pc'[c] = "exact" THEN job.base ELSE NoBase
  <2>1. bases \in [Commits -> Bases \cup {NoBase}]
    BY DEF TypeOK
  <2>2. CASE RemoveBase(c)
    <3>1. pc'[c] = "rename"
      BY <2>2, BuildMoves DEF RemoveBase
    <3> QED
      BY <1>1, <2>1, <2>2, <3>1 DEF RemoveBase
  <2>3. CASE RenameBase(c)
    <3>1. pc'[c] = "exact"
      BY <2>3, BuildMoves DEF RenameBase
    <3> QED
      BY <1>1, <2>1, <2>3, <3>1 DEF RenameBase
  <2> QED
    BY <2>2, <2>3
<1>4. BaseOf(c)'
  BY <1>1, <1>2, <1>3, Constants DEF BaseOf
<1>5. ReplaceOf(c)'
  BY <1>2 DEF ReplaceOf, Undecided
<1>6. PendingOf(c)'
  <2>1. Left(h)' = Left(h)
    BY <1>2, <1>3 DEF Left
  <2> QED
    BY <1>0, <1>1, <1>2, <2>1 DEF PendingOf, Renewing, Counts, MissingOf
<1>7. StepOf(c)'
  BY <1>0, <1>1, <1>2, <1>3 DEF StepOf, Renewing, Publishing, Activating
<1> QED
  BY <1>4, <1>5, <1>6, <1>7 DEF JobOf

\* After the exact record the build knows no more than its base.
LEMMA JobExact ==
    ASSUME TypeOK, JobInv, NEW c \in Commands, WriteExact(c)
    PROVE  JobOf(c)'
<1>0. Busy(c) /\ pc[c] = "exact"
  BY DEF WriteExact, Busy, Publishing, Activating
<1>1. BaseOf(c) /\ StepOf(c)
  BY <1>0 DEF JobInv, JobOf
<1>2. /\ pc'[c] \in {"dirty", "bind"} /\ want'[c] = want[c] /\ semantic'[c] = semantic[c]
      /\ UNCHANGED <<here, family, bases, job>>
  BY BuildMoves DEF WriteExact, repoVars
<1>3. BaseOf(c)'
  BY <1>1, <1>2 DEF BaseOf
<1>4. ReplaceOf(c)' /\ PendingOf(c)'
  BY <1>2 DEF ReplaceOf, PendingOf, Undecided, Renewing
<1>5. StepOf(c)'
  BY <1>0, <1>1, <1>2 DEF StepOf, Renewing, Publishing, Activating
<1> QED
  BY <1>3, <1>4, <1>5 DEF JobOf

\* Of the steps of a search that does not build on, one begins a build, and one
\* goes on to collect.
LEMMA Begins ==
    ASSUME TypeOK, NEW c \in Commands, Busy(c)', Quiet(c) \/ Crash(c) \/ Locks(c) \/ Releases(c)
    PROVE  Decide(c) \/ (Bind(c) /\ Go(c, "collect") /\ UNCHANGED job)
<1>. USE DEF TypeOK
<1>1. CASE Bind(c)
  <2>1. Goto(c, "open") => ~Busy(c)'
    BY DEF Goto, Busy, Building, Publishing, Activating
  <2> QED
    BY <1>1, <2>1 DEF Bind
<1>2. CASE FoundCurrent(c) \/ LockRepair(c) \/ DiscardBuild(c) \/ Collect(c) \/ FailActivation(c)
             \/ RemoveDamaged(c) \/ Quiet(c) \/ Crash(c)
  <2>1. Quiet(c) => pc'[c] \in {"start", "lock", "open", "reading", "repair"}
    BY DEF Quiet, Prepare, ServePeer, SeeTreeChange, ReadText, OpenVectors, OpenDamaged,
       EndRead, ScanDamaged, SkipRepair, Ended, Goto
  <2>2. Crash(c) => pc'[c] = "start"
    BY DEF Crash, Ended, Goto
  <2>3. FoundCurrent(c) \/ LockRepair(c) => pc'[c] \in {"open", "remove"}
    BY DEF FoundCurrent, LockRepair, Goto
  <2>4. DiscardBuild(c) \/ Collect(c) \/ FailActivation(c) \/ RemoveDamaged(c) => pc'[c] \in {"open", "start"}
    BY DEF DiscardBuild, Collect, FailActivation, RemoveDamaged, Ended, Goto
  <2>5. pc'[c] \notin Building \cup Publishing
    BY <1>2, <2>1, <2>2, <2>3, <2>4 DEF Building, Publishing, Activating
  <2> QED
    BY <2>5 DEF Busy
<1> QED
  BY <1>1, <1>2 DEF Locks, Releases

\* A build that begins has made no base.
LEMMA BuildBegins == \A c \in Commands : Decide(c) => job'.base = NoBase
BY DEF Decide, NoJob

\* Every step keeps what a build knows.
LEMMA JobStep ==
    ASSUME TypeOK, JobInv, RowsInv, [Next]_vars
    PROVE  JobInv'
<1>. SUFFICES ASSUME NEW c \in Commands, Busy(c)'
              PROVE  JobOf(c)'
  BY DEF JobInv
<1>. DiskTyped
  BY TypeParts
<1>1. ASSUME UNCHANGED vars \/ Repository \/ Damage \/ Peers
      PROVE  JobOf(c)'
  <2>1. UNCHANGED <<family, record, displaced, job, pc, want, semantic>>
    BY <1>1, RepoFrame DEF vars, diskVars, vectorVars, searchVars, Damage, Peers, PeerMapsVectors,
       PeerReadsRows
  <2>2. Mild
    BY <1>1, MildSteps, RepoFrame DEF vars, diskVars, vectorVars, Peers, PeerMapsVectors,
       PeerReadsRows
  <2>3. here \subseteq here'
    BY <1>1, RepoFrame DEF vars, repoVars
  <2>4. Busy(c)
    BY <2>1 DEF Busy
  <2> QED
    BY <2>1, <2>2, <2>3, <2>4, JobKept
<1>2. ASSUME NEW d \in Commands, d # c,
             Quiet(d) \/ Locks(d) \/ Builds(d) \/ Releases(d) \/ Crash(d)
      PROVE  JobOf(c)'
  <2>1. Busy(c)
    BY <1>2, OwnFrame DEF Busy
  <2>2. /\ UNCHANGED <<repoVars, family, bases, record, job, displaced>>
        /\ pc'[c] = pc[c] /\ want'[c] = want[c] /\ semantic'[c] = semantic[c]
    BY <1>2, <2>1, OthersStep
  <2>3. Mild /\ here \subseteq here'
    BY <2>2, MildSteps DEF repoVars
  <2> QED
    BY <2>1, <2>2, <2>3, JobKept
<1>3. CASE Builds(c)
  BY <1>3, JobBuildBase, JobQuiet, JobPending, JobReplace, JobExact DEF Builds
<1>4. CASE Quiet(c) \/ Crash(c) \/ Locks(c) \/ Releases(c)
  BY <1>4, Begins, JobDecided, JobQuiet
<1> QED
  BY <1>1, <1>2, <1>3, <1>4, Steps

-----------------------------------------------------------------------------
(* What the bases hold, and the record of what they lack.                  *)

\* How a step changes the bases: they gain no window but those that a build made.
LEMMA BaseWrites ==
    ASSUME TypeOK, JobInv, [Next]_vars, NEW h \in Commits
    PROVE  \/ bases'[h] = bases[h]
           \/ bases'[h] = NoBase
           \/ Damage /\ Mild
           \/ \E c \in Commands : RenameBase(c) /\ want[c].head = h /\ bases'[h] = job.base
<1>. DiskTyped
  BY TypeParts
<1>1. ASSUME NEW c \in Commands, RemoveBase(c) \/ RenameBase(c)
      PROVE  \/ bases'[h] \in {bases[h], NoBase}
             \/ RenameBase(c) /\ want[c].head = h /\ bases'[h] = job.base
  BY <1>1 DEF RemoveBase, RenameBase, DiskTyped
<1>2. ASSUME NEW c \in Commands, Builds(c), ~RemoveBase(c), ~RenameBase(c)
      PROVE  UNCHANGED bases
  BY <1>2 DEF Builds, BuildBase, BuildOverlay, StartPublish, PublishText, WriteState, WritePending,
     WriteExact, PublishOverlay, diskVars, vectorVars
<1>3. ASSUME NEW c \in Commands, Locks(c)
      PROVE  UNCHANGED bases
  BY <1>3 DEF Locks, FoundCurrent, Decide, LockRepair, diskVars, vectorVars
<1>4. ASSUME NEW c \in Commands, Releases(c)
      PROVE  bases'[h] \in {bases[h], NoBase}
  <2>1. UNCHANGED bases \/ \E base, overlay : KeepOnly(base, overlay)
    BY <1>4 DEF Releases, DiscardBuild, Bind, Collect, FailActivation, RemoveDamaged, diskVars,
       vectorVars
  <2> QED
    BY <2>1, Kept
<1>5. Peers \/ Repository \/ UNCHANGED vars => UNCHANGED bases
  BY RepoFrame DEF Peers, PeerMapsVectors, PeerReadsRows, vars, diskVars, vectorVars
<1> QED
  BY <1>1, <1>2, <1>3, <1>4, <1>5, Steps, QuietFrame, MildSteps DEF Builds

\* The store grows.
LEMMA StoreGrows ==
    ASSUME [Next]_vars
    PROVE  here \subseteq here'
BY Steps, RepoFrame DEF vars, repoVars

\* A base holds windows of its commit, of blobs that arrived.
LEMMA RowsStep ==
    ASSUME TypeOK, JobInv, RowsInv, [Next]_vars
    PROVE  RowsInv'
<1>. SUFFICES ASSUME NEW h \in Commits
              PROVE  bases'[h].rows \subseteq Content[h] \cap here'
  BY DEF RowsInv
<1>1. bases[h].rows \subseteq Content[h] \cap here /\ here \subseteq here'
  BY StoreGrows DEF RowsInv
<1>2. ASSUME NEW c \in Commands, RenameBase(c), want[c].head = h, bases'[h] = job.base
      PROVE  bases'[h].rows \subseteq Content[h] \cap here
  <2>1. Busy(c) /\ pc[c] = "rename"
    BY <1>2 DEF RenameBase, Busy, Publishing, Activating
  <2>2. BaseOf(c) /\ job.base # NoBase
    BY <2>1, JobHead DEF JobInv, JobOf
  <2> QED
    BY <1>2, <2>2 DEF BaseOf
<1>3. NoBase.rows = {}
  BY Constants
<1> QED
  BY <1>1, <1>2, <1>3, BaseWrites DEF Mild

\* A base that stays, or is gone, or is damaged, keeps its record.
LEMMA NamedKept ==
    ASSUME NEW h \in Commits, Named(h), here \subseteq here', UNCHANGED record,
           bases'[h] \in {bases[h], NoBase} \/ Mild
    PROVE  Named(h)'
<1>1. CASE bases'[h] = NoBase
  BY <1>1, Constants DEF Named, BasePresent
<1>2. CASE bases'[h] = bases[h] \/ Mild
  BY <1>2 DEF Named, BasePresent, MissingOf, Counts, Mild
<1> QED
  BY <1>1, <1>2

\* The recheck gives a new fingerprint to the record of blobs that are away yet.
LEMMA NamedRefreshed ==
    ASSUME TypeOK, NEW h \in Commits, Named(h), NEW c \in Commands,
           RefreshRecord(c, want[c].head), UNCHANGED <<here, bases>>
    PROVE  Named(h)'
<1>1. CASE UNCHANGED record
  BY <1>1 DEF Named, BasePresent, MissingOf, Counts
<1>2. CASE /\ ~Arrived(want[c].head) /\ Counts(want[c].head)
           /\ record' \in Records /\ record'.head = record.head
           /\ record'.blobs = record.blobs /\ record'.store = here
  <2>1. record' # NoRecord
    BY <1>2, Constants DEF Records
  <2>. DEFINE lost == MissingOf(h, bases[h].rows)
  <2>2. SUFFICES ASSUME BasePresent(h), lost # {}
                 PROVE  record.head = h /\ lost \subseteq record.blobs /\ lost \cap here = {}
    BY <1>2, <2>1 DEF Named, BasePresent, MissingOf, Counts
  <2>3. /\ record.head = h /\ lost \subseteq record.blobs
        /\ record.store # Unknown => lost \cap record.store = {}
    BY <2>2 DEF Named, Counts
  <2>4. record.store = here \/ record.blobs \cap here = {}
    BY <1>2 DEF Arrived, MissingDue
  <2>5. here # Unknown
    BY Constants DEF TypeOK
  <2> QED
    BY <2>3, <2>4, <2>5
<1> QED
  BY <1>1, <1>2, Refreshed

\* A base that opens is replaced only when its record says that a blob arrived, so
\* the record of both names what either lacks.
LEMMA RecordPending ==
    ASSUME TypeOK, JobInv, RecordInv, NEW c \in Commands, WritePending(c)
    PROVE  RecordInv'
<1>. DEFINE h    == want[c].head
            lost == MissingOf(h, job.base.rows) \cup record.blobs
<1>0. Busy(c) /\ pc[c] = "pending"
  BY DEF WritePending, Busy, Publishing, Activating
<1>1. ReplaceOf(c) /\ h \in Commits /\ job.base # NoBase /\ h # NoHead
  BY <1>0, JobHead, Constants DEF JobInv, JobOf
<1>2. /\ UNCHANGED <<here, bases>>
      /\ displaced' = (displaced \cup Left(h)) \ {h}
      /\ record' = IF lost = {} THEN NoRecord ELSE [head |-> h, store |-> Unknown, blobs |-> lost]
  BY BuildMoves DEF WritePending, repoVars
<1>3. ASSUME NEW g \in Commits \ displaced', g # h
      PROVE  Named(g)'
  <2>1. bases[g] = NoBase
    BY <1>2, <1>3 DEF Left
  <2> QED
    BY <1>2, <2>1, Constants DEF Named, BasePresent
<1>4. ASSUME NEW g \in Commits, g = h
      PROVE  Named(g)'
  <2>1. SUFFICES ASSUME BasePresent(h), MissingOf(h, bases[h].rows) # {}
                 PROVE  /\ record' # NoRecord /\ record'.head = h /\ record'.store = Unknown
                        /\ MissingOf(h, bases[h].rows) \subseteq record'.blobs
    BY <1>2, <1>4 DEF Named, BasePresent, MissingOf, Counts
  <2>2. Counts(h)
    BY <1>0, <1>1, <2>1 DEF ReplaceOf, Undecided
  <2>3. h \notin displaced
    BY <2>2 DEF RecordInv, Counts
  <2>4. MissingOf(h, bases[h].rows) \subseteq record.blobs
    BY <1>1, <2>1, <2>3 DEF RecordInv, Named
  <2>5. lost # {} /\ MissingOf(h, bases[h].rows) \subseteq lost
    BY <2>1, <2>4
  <2>6. record' = [head |-> h, store |-> Unknown, blobs |-> lost]
    BY <1>2, <2>5
  <2>. HIDE DEF lost
  <2> QED
    BY <1>1, <2>5, <2>6 DEF NoRecord
<1>5. record' # NoRecord => record'.head \notin displaced'
  <2>1. record' # NoRecord => record'.head = h
    BY <1>2
  <2> QED
    BY <1>2, <2>1
<1> QED
  BY <1>3, <1>4, <1>5 DEF RecordInv

\* The new base comes to lie where the record names what it lacks.
LEMMA RecordRenamed ==
    ASSUME TypeOK, JobInv, RecordInv, NEW c \in Commands, RenameBase(c)
    PROVE  RecordInv'
<1>. DEFINE h == want[c].head
<1>0. Busy(c) /\ pc[c] = "rename"
  BY DEF RenameBase, Busy, Publishing, Activating
<1>1. PendingOf(c) /\ h \in Commits
  BY <1>0, JobHead DEF JobInv, JobOf
<1>2. UNCHANGED <<here, record, displaced>> /\ bases' = [bases EXCEPT ![h] = job.base]
  BY BuildMoves DEF RenameBase, repoVars
<1>3. \A g \in Commits : bases'[g] = IF g = h THEN job.base ELSE bases[g]
  BY <1>2 DEF TypeOK
<1>4. ASSUME NEW g \in Commits \ displaced
      PROVE  Named(g)'
  <2>1. CASE g = h
    BY <1>0, <1>1, <1>2, <1>3, <2>1 DEF PendingOf, Renewing, Named, Counts, MissingOf
  <2>2. CASE g # h
    BY <1>2, <1>3, <1>4, <2>2, NamedKept DEF RecordInv
  <2> QED
    BY <2>1, <2>2
<1> QED
  BY <1>2, <1>4 DEF RecordInv

\* The exact record names what the new base lacks, of a store that it had seen.
LEMMA RecordExact ==
    ASSUME TypeOK, JobInv, RecordInv, NEW c \in Commands, WriteExact(c)
    PROVE  RecordInv'
<1>. DEFINE h    == want[c].head
            lost == MissingOf(h, job.base.rows)
<1>0. Busy(c) /\ pc[c] = "exact"
  BY DEF WriteExact, Busy, Publishing, Activating
<1>1. BaseOf(c) /\ PendingOf(c) /\ StepOf(c) /\ h \in Commits /\ h # NoHead /\ job.base # NoBase
  BY <1>0, JobHead, Constants DEF JobInv, JobOf
<1>2. /\ UNCHANGED <<here, bases, displaced>>
      /\ record' = IF lost = {} THEN NoRecord ELSE [head |-> h, store |-> job.store, blobs |-> lost]
  BY BuildMoves DEF WriteExact, repoVars
<1>3. h \notin displaced /\ Left(h) \subseteq displaced /\ bases[h].rows = job.base.rows
  BY <1>0, <1>1 DEF PendingOf, Renewing, StepOf
<1>4. ASSUME NEW g \in Commits \ displaced
      PROVE  Named(g)'
  <2>1. CASE g # h
    <3>1. bases[g] = NoBase
      BY <1>3, <1>4, <2>1 DEF Left
    <3> QED
      BY <1>2, <3>1, Constants DEF Named, BasePresent
  <2>2. CASE g = h /\ lost = {}
    BY <1>2, <1>3, <2>2 DEF Named, MissingOf
  <2>3. CASE g = h /\ lost # {}
    <3>1. record' # NoRecord /\ record'.head = h /\ record'.store = job.store /\ record'.blobs = lost
      BY <1>1, <1>2, <2>3 DEF NoRecord
    <3>2. job.store \subseteq here /\ lost \cap job.store = {}
      BY <1>1 DEF StepOf, BaseOf, MissingOf
    <3> QED
      BY <1>2, <1>3, <2>3, <3>1, <3>2 DEF Named, Counts, MissingOf
  <2> QED
    BY <2>1, <2>2, <2>3
<1>5. record' # NoRecord => record'.head = h
  BY <1>2
<1> QED
  BY <1>2, <1>3, <1>4, <1>5 DEF RecordInv

\* KeepOnly keeps the record of the base that it keeps.
LEMMA RecordKept ==
    ASSUME RecordInv, DiskTyped, NEW base, NEW overlay, KeepOnly(base, overlay), UNCHANGED <<here, record>>
    PROVE  RecordInv'
<1>1. displaced' = displaced \cap {base}
  BY DEF KeepOnly
<1>2. ASSUME NEW g \in Commits \ displaced'
      PROVE  Named(g)'
  <2>1. CASE bases'[g] = NoBase
    BY <2>1, Constants DEF Named, BasePresent
  <2>2. CASE g = base /\ bases'[g] = bases[g]
    BY <1>1, <1>2, <2>2, NamedKept DEF RecordInv
  <2> QED
    BY <2>1, <2>2, Kept
<1> QED
  BY <1>1, <1>2 DEF RecordInv

\* Every step keeps the record.
LEMMA RecordStep ==
    ASSUME TypeOK, JobInv, RecordInv, [Next]_vars
    PROVE  RecordInv'
<1>. DiskTyped
  BY TypeParts
<1>1. ASSUME UNCHANGED <<record, displaced>>, UNCHANGED bases \/ Mild
      PROVE  RecordInv'
  <2>1. \A h \in Commits \ displaced : Named(h)'
    BY <1>1, NamedKept, StoreGrows DEF RecordInv
  <2> QED
    BY <1>1, <2>1 DEF RecordInv
<1>2. ASSUME NEW c \in Commands, FoundCurrent(c) \/ Decide(c)
      PROVE  RecordInv'
  <2>1. RefreshRecord(c, want[c].head) /\ UNCHANGED <<here, bases, displaced>>
    BY <1>2 DEF FoundCurrent, Decide, repoVars
  <2>2. \A h \in Commits \ displaced : Named(h)'
    BY <2>1, NamedRefreshed DEF RecordInv
  <2>3. record' # NoRecord => record # NoRecord /\ record'.head = record.head
    BY <2>1, Refreshed DEF Counts
  <2> QED
    BY <2>1, <2>2, <2>3 DEF RecordInv
<1>3. ASSUME NEW c \in Commands, RemoveBase(c)
      PROVE  RecordInv'
  <2>1. UNCHANGED <<record, displaced>>
    BY <1>3 DEF RemoveBase
  <2>2. \A h \in Commits : bases'[h] \in {bases[h], NoBase}
    BY <1>3 DEF RemoveBase, DiskTyped
  <2>3. \A h \in Commits \ displaced : Named(h)'
    BY <2>1, <2>2, NamedKept, StoreGrows DEF RecordInv
  <2> QED
    BY <2>1, <2>3 DEF RecordInv
<1>4. ASSUME NEW c \in Commands, Builds(c), ~WritePending(c), ~RemoveBase(c), ~RenameBase(c), ~WriteExact(c)
      PROVE  RecordInv'
  <2>1. UNCHANGED <<record, displaced, bases>>
    BY <1>4 DEF Builds, BuildBase, BuildOverlay, StartPublish, PublishText, WriteState,
       PublishOverlay, diskVars, vectorVars
  <2> QED
    BY <1>1, <2>1
<1>5. ASSUME NEW c \in Commands, Releases(c)
      PROVE  RecordInv'
  <2>1. CASE \E base, overlay : KeepOnly(base, overlay)
    <3>1. UNCHANGED <<here, record>> \/ UNCHANGED <<record, displaced, bases>>
      BY <1>5 DEF Releases, DiscardBuild, Bind, Collect, FailActivation, RemoveDamaged, diskVars,
         vectorVars, repoVars
    <3> QED
      BY <1>1, <2>1, <3>1, RecordKept
  <2>2. CASE ~\E base, overlay : KeepOnly(base, overlay)
    <3>1. UNCHANGED <<record, displaced, bases>>
      BY <1>5, <2>2 DEF Releases, DiscardBuild, Bind, Collect, FailActivation, RemoveDamaged,
         diskVars, vectorVars
    <3> QED
      BY <1>1, <3>1
  <2> QED
    BY <2>1, <2>2
<1>6. CASE Damage
  <2>1. UNCHANGED <<record, displaced>>
    BY <1>6 DEF Damage
  <2> QED
    BY <1>1, <1>6, <2>1, MildSteps
<1>7. ASSUME \/ UNCHANGED vars \/ Repository \/ Peers
             \/ \E c \in Commands : Quiet(c) \/ Crash(c) \/ LockRepair(c)
      PROVE  RecordInv'
  <2>1. ASSUME NEW c \in Commands, LockRepair(c) PROVE UNCHANGED <<record, displaced, bases>>
    BY <2>1 DEF LockRepair, diskVars, vectorVars
  <2>2. UNCHANGED <<record, displaced, bases>>
    BY <1>7, <2>1, QuietFrame, RepoFrame DEF Peers, PeerMapsVectors, PeerReadsRows, vars, diskVars,
       vectorVars
  <2> QED
    BY <1>1, <2>2
<1> QED
  BY <1>2, <1>3, <1>4, <1>5, <1>6, <1>7, Steps, RecordPending, RecordRenamed, RecordExact DEF Locks

-----------------------------------------------------------------------------
(* What a search has open.                                                 *)

\* The descriptor goes, stays, or is bound to the text of the build.
LEMMA DescriptorStep ==
    ASSUME TypeOK, JobInv, ReadInv, [Next]_vars
    PROVE  descriptor'.state = descriptor'.family
<1>1. ASSUME NEW c \in Commands, Bind(c), descriptor' # descriptor
      PROVE  descriptor'.state = descriptor'.family
  <2>1. Busy(c) /\ pc[c] = "bind"
    BY <1>1 DEF Bind, Busy, Publishing, Activating
  <2>2. family = want[c]
    BY <2>1 DEF JobInv, JobOf, StepOf, Publishing, Activating
  <2> QED
    BY <1>1, <2>2 DEF Bind
<1>2. ASSUME NEW c \in Commands, Releases(c), ~Bind(c)
      PROVE  descriptor' \in {descriptor, NoDescriptor}
  BY <1>2 DEF Releases, DiscardBuild, Collect, FailActivation, RemoveDamaged, diskVars, vectorVars
<1>3. ASSUME NEW c \in Commands, Builds(c)
      PROVE  descriptor' \in {descriptor, NoDescriptor}
  BY <1>3 DEF Builds, BuildBase, BuildOverlay, StartPublish, PublishText, WriteState, WritePending,
     RemoveBase, RenameBase, WriteExact, PublishOverlay, diskVars, vectorVars
<1>4. ASSUME NEW c \in Commands, Locks(c)
      PROVE  UNCHANGED descriptor
  BY <1>4 DEF Locks, FoundCurrent, Decide, LockRepair, diskVars, vectorVars
<1>5. Damage \/ Peers \/ Repository \/ UNCHANGED vars => UNCHANGED descriptor
  BY RepoFrame DEF Damage, Peers, PeerMapsVectors, PeerReadsRows, vars, diskVars, vectorVars
<1>6. descriptor' \in {descriptor, NoDescriptor} \/ descriptor'.state = descriptor'.family
  BY <1>1, <1>2, <1>3, <1>4, <1>5, Steps, QuietFrame
<1> QED
  BY <1>6 DEF NoDescriptor, ReadInv

\* The text, the bases and the overlays change only under the publish lock.
LEMMA TextWrites ==
    ASSUME TypeOK, [Next]_vars
    PROVE  \/ UNCHANGED <<family, bases, overlays>>
           \/ NoReads
           \/ \E c \in Commands : pc[c] \in Publishing
<1>1. ASSUME NEW c \in Commands, Releases(c)
      PROVE  UNCHANGED <<family, bases, overlays>> \/ NoReads \/ pc[c] \in Publishing
  BY <1>1 DEF Releases, DiscardBuild, Bind, Collect, FailActivation, RemoveDamaged, diskVars,
     vectorVars,
     Publishing
<1>2. ASSUME NEW c \in Commands, Builds(c)
      PROVE  UNCHANGED <<family, bases, overlays>> \/ pc[c] \in Publishing
  BY <1>2 DEF Builds, BuildBase, BuildOverlay, StartPublish, PublishText, WriteState, WritePending,
     RemoveBase, RenameBase, WriteExact, PublishOverlay, diskVars, vectorVars, Publishing, Activating
<1>3. ASSUME NEW c \in Commands, Locks(c)
      PROVE  UNCHANGED <<family, bases, overlays>>
  BY <1>3 DEF Locks, FoundCurrent, Decide, LockRepair, diskVars, vectorVars
<1>4. Peers \/ Repository \/ UNCHANGED vars => UNCHANGED <<family, bases, overlays>>
  BY RepoFrame DEF Peers, PeerMapsVectors, PeerReadsRows, vars, diskVars, vectorVars
<1>5. Damage => NoReads
  BY DEF Damage
<1> QED
  BY <1>1, <1>2, <1>3, <1>4, <1>5, Steps, QuietFrame

\* A search goes to its read in one step, and away from it with nothing open.
LEMMA ReadMoves ==
    ASSUME TypeOK, ReadInv, [Next]_vars, NEW c \in Commands
    PROVE  /\ pc'[c] = "reading" => pc[c] = "reading" \/ OpenVectors(c)
           /\ pc'[c] \in Publishing => pc[c] \in Publishing \/ StartPublish(c)
           /\ read'[c].vectors => \/ OpenVectors(c) /\ pc'[c] = "reading"
                                  \/ /\ read'[c] = read[c] /\ read[c].vectors
                                     /\ pc[c] = "reading" /\ pc'[c] = "reading"
<1>. USE DEF TypeOK
<1>0. ~NoRead.vectors /\ (read[c].vectors => pc[c] = "reading") /\ "reading" \notin Publishing
  BY Constants DEF ReadInv, Publishing, Activating
<1>1. ASSUME pc'[c] = pc[c], read'[c] = read[c]
      PROVE  /\ pc'[c] = "reading" => pc[c] = "reading" \/ OpenVectors(c)
             /\ pc'[c] \in Publishing => pc[c] \in Publishing \/ StartPublish(c)
             /\ read'[c].vectors => \/ OpenVectors(c) /\ pc'[c] = "reading"
                                    \/ /\ read'[c] = read[c] /\ read[c].vectors
                                       /\ pc[c] = "reading" /\ pc'[c] = "reading"
  BY <1>0, <1>1
<1>2. CASE Quiet(c) \/ Crash(c)
  <2>1. CASE OpenVectors(c)
    <3>1. pc'[c] = "reading"
      BY <2>1 DEF OpenVectors, Goto
    <3> QED
      BY <1>0, <2>1, <3>1
  <2>2. CASE \E v \in BOOLEAN : Prepare(c, v)
    <3>1. pc[c] = "start" /\ pc'[c] \in {"open", "lock"} /\ read'[c] = read[c]
      BY <2>2 DEF Prepare, Goto
    <3> QED
      BY <1>0, <3>1 DEF Publishing, Activating
  <2>3. CASE ~OpenVectors(c) /\ ~\E v \in BOOLEAN : Prepare(c, v)
    <3>1. read'[c] = NoRead
      BY <1>2, <2>3 DEF Quiet, ServePeer, SeeTreeChange, ReadText, OpenDamaged, EndRead,
         ScanDamaged,
         SkipRepair, Crash, Ended
    <3>2. pc'[c] \in {"start", "repair"}
      BY <1>2, <2>3 DEF Quiet, ServePeer, SeeTreeChange, ReadText, OpenDamaged, EndRead,
         ScanDamaged,
         SkipRepair, Crash, Ended, Goto
    <3> QED
      BY <1>0, <3>1, <3>2 DEF Publishing, Activating
  <2> QED
    BY <2>1, <2>2, <2>3
<1>3. CASE Locks(c) \/ Builds(c) \/ Releases(c)
  <2>1. pc[c] # "reading"
    BY <1>3 DEF Locks, FoundCurrent, Decide, LockRepair, Builds, BuildBase, BuildOverlay,
       StartPublish,
       PublishText, WriteState, WritePending, RemoveBase, RenameBase, WriteExact, PublishOverlay,
       Releases, DiscardBuild, Bind, Collect, FailActivation, RemoveDamaged, Activating
  <2>2. read'[c] = read[c] \/ read'[c] = NoRead
    <3>1. CASE Locks(c)
      BY <3>1 DEF Locks, FoundCurrent, Decide, LockRepair
    <3>2. CASE Builds(c)
      BY <3>2 DEF Builds, BuildBase, BuildOverlay, StartPublish, PublishText, WriteState,
         WritePending,
         RemoveBase, RenameBase, WriteExact, PublishOverlay, Go
    <3>3. CASE Releases(c)
      BY <3>3 DEF Releases, DiscardBuild, Bind, Collect, FailActivation, RemoveDamaged, Ended, Go
    <3> QED
      BY <1>3, <3>1, <3>2, <3>3
  <2>3. pc'[c] # "reading" /\ (pc'[c] \in Publishing => pc[c] \in Publishing \/ StartPublish(c))
    <3>1. CASE FoundCurrent(c) \/ LockRepair(c)
      BY <3>1 DEF FoundCurrent, LockRepair, Goto, Publishing, Activating
    <3>2. CASE Decide(c)
      <4>1. \E step \in {"base", "overlay", "publish"} : Goto(c, step)
        BY <3>2 DEF Decide
      <4> QED
        BY <4>1 DEF Goto, Publishing, Activating
    <3>3. CASE Builds(c)
      <4>1. CASE BuildBase(c) \/ BuildOverlay(c)
        <5>1. pc'[c] \in {"overlay", "publish"}
          BY <4>1 DEF BuildBase, BuildOverlay, Go, Goto
        <5> QED
          BY <5>1 DEF Publishing, Activating
      <4>2. CASE StartPublish(c)
        BY <4>2 DEF StartPublish, Go, Goto
      <4>3. CASE ~BuildBase(c) /\ ~BuildOverlay(c) /\ ~StartPublish(c)
        <5>1. pc[c] \in Publishing
          BY <3>3, <4>3 DEF Builds, PublishText, WriteState, WritePending, RemoveBase, RenameBase,
             WriteExact, PublishOverlay, Publishing, Activating
        <5>2. pc'[c] # "reading"
          BY <3>3, <4>3 DEF Builds, PublishText, WriteState, WritePending, RemoveBase, RenameBase,
             WriteExact, PublishOverlay, Go, Goto
        <5> QED
          BY <5>1, <5>2
      <4> QED
        BY <4>1, <4>2, <4>3
    <3>4. CASE Releases(c)
      <4>1. pc'[c] \in {"open", "start", "collect"} /\ (pc'[c] = "collect" => pc[c] = "bind")
        BY <3>4 DEF Releases, DiscardBuild, Bind, Collect, FailActivation, RemoveDamaged, Ended,
           Go, Goto
      <4> QED
        BY <4>1 DEF Publishing, Activating
    <3> QED
      BY <1>3, <3>1, <3>2, <3>3, <3>4 DEF Locks
  <2> QED
    BY <1>0, <2>1, <2>2, <2>3
<1>4. CASE \/ UNCHANGED vars \/ Repository \/ Damage \/ Peers
           \/ \E d \in Commands \ {c} : Quiet(d) \/ Locks(d) \/ Builds(d) \/ Releases(d) \/ Crash(d)
  <2>1. CASE UNCHANGED vars \/ Repository \/ Damage \/ Peers
    <3>1. UNCHANGED <<pc, read>>
      BY <2>1, RepoFrame DEF vars, Damage, Peers, PeerMapsVectors, PeerReadsRows
    <3> QED
      BY <1>1, <3>1
  <2>2. CASE \E d \in Commands \ {c} : Quiet(d) \/ Locks(d) \/ Builds(d) \/ Releases(d) \/ Crash(d)
    <3>1. pc'[c] = pc[c] /\ read'[c] = read[c]
      BY <2>2, OwnFrame
    <3> QED
      BY <1>1, <3>1
  <2> QED
    BY <1>4, <2>1, <2>2
<1> QED
  BY <1>2, <1>3, <1>4, Steps

\* Reads and publishes exclude each other.
LEMMA ExclusionStep ==
    ASSUME TypeOK, ReadInv, [Next]_vars
    PROVE  \A c, d \in Commands : pc'[c] = "reading" => pc'[d] \notin Publishing
<1>. SUFFICES ASSUME NEW c \in Commands, NEW d \in Commands, pc'[c] = "reading", pc'[d] \in Publishing
              PROVE  FALSE
  OBVIOUS
<1>1. pc[c] = "reading" \/ OpenVectors(c)
  BY ReadMoves
<1>2. pc[d] \in Publishing \/ StartPublish(d)
  BY ReadMoves
<1>3. CASE OpenVectors(c)
  <2>1. \A e \in Commands : pc[e] \notin Publishing
    BY <1>3 DEF OpenVectors, CanRead
  <2>2. StartPublish(d)
    BY <1>2, <2>1
  <2>3. pc'[d] = "swap" /\ pc[d] = "publish"
    BY <2>2, BuildMoves DEF StartPublish
  <2>4. pc' = [pc EXCEPT ![c] = "reading"] /\ pc[c] = "open"
    BY <1>3 DEF OpenVectors, CanRead, Goto
  <2> QED
    BY <2>3, <2>4 DEF TypeOK
<1>4. CASE pc[c] = "reading"
  <2>1. pc[d] \notin Publishing
    BY <1>4 DEF ReadInv
  <2>2. StartPublish(d)
    BY <1>2, <2>1
  <2> QED
    BY <1>4, <2>2 DEF StartPublish, NoReads
<1> QED
  BY <1>1, <1>3, <1>4

\* What a search opens is of the state of the text, and nobody publishes while it reads.
LEMMA FitsStep ==
    ASSUME TypeOK, ReadInv, [Next]_vars, NEW c \in Commands
    PROVE  Fits(c)'
<1>. SUFFICES ASSUME read'[c].vectors
              PROVE  /\ family' = read'[c].state
                     /\ read'[c].state.head # NoHead => bases'[read'[c].state.head] = read'[c].base
                     /\ read'[c].state.work # Clean => overlays'[read'[c].state] = "whole"
  BY DEF Fits
<1>1. CASE OpenVectors(c)
  <2>1. read'[c] = [state |-> state, vectors |-> TRUE,
                    base |-> IF NeedsBase(semantic[c], state) THEN bases[state.head] ELSE NoBase]
    BY <1>1 DEF OpenVectors, TypeOK
  <2>2. read'[c].state = state
    BY <2>1
  <2>3. state.head # NoHead => read'[c].base = bases[state.head]
    BY <1>1, <2>1 DEF OpenVectors, NeedsBase
  <2>4. family = state
    BY <1>1 DEF OpenVectors, JoinedMatch, ReadInv
  <2>5. state.work # Clean => overlays[state] = "whole"
    BY <1>1 DEF OpenVectors, Openable, NeedsOverlay, OverlayPresent
  <2>6. UNCHANGED <<family, bases, overlays>>
    BY <1>1 DEF OpenVectors, diskVars, vectorVars
  <2> QED
    BY <2>2, <2>3, <2>4, <2>5, <2>6
<1>2. CASE read'[c] = read[c] /\ read[c].vectors /\ pc[c] = "reading"
  <2>1. ~NoReads /\ \A d \in Commands : pc[d] \notin Publishing
    BY <1>2 DEF NoReads, ReadInv
  <2>2. UNCHANGED <<family, bases, overlays>>
    BY <2>1, TextWrites
  <2> QED
    BY <1>2, <2>2 DEF ReadInv, Fits
<1> QED
  BY <1>1, <1>2, ReadMoves

\* Together: the reads.
LEMMA ReadStep ==
    ASSUME TypeOK, JobInv, ReadInv, [Next]_vars
    PROVE  ReadInv'
<1>1. \A c \in Commands : Fits(c)'
  BY FitsStep
<1>2. \A c \in Commands : read'[c].vectors => pc'[c] = "reading"
  BY ReadMoves
<1> QED
  BY <1>1, <1>2, DescriptorStep, ExclusionStep DEF ReadInv

-----------------------------------------------------------------------------
(* A linked worktree.                                                      *)

\* Two finite sets of one size, one within the other, are the same: the length
\* tells the generation that was read from the one that replaced it.
LEMMA SameSize ==
    ASSUME NEW S \in SUBSET Blobs, NEW T \in SUBSET Blobs, S \subseteq T, Cardinality(S) = Cardinality(T)
    PROVE  S = T
<1>1. IsFiniteSet(T)
  BY FS_Subset, ConstantsAssumption
<1> QED
  BY <1>1, FS_Subset

\* The step of the linked worktree.
LEMMA PeersStep ==
    ASSUME TypeOK, JobInv, RowsInv, PeerInv, Peers
    PROVE  PeerInv'
<1>. DiskTyped /\ JobTyped
  BY TypeParts
<1>0. UNCHANGED <<here, bases, pc, want, job>>
  BY DEF Peers, PeerMapsVectors, PeerReadsRows, repoVars, diskVars, vectorVars, searchVars
<1>1. CASE PeerMapsVectors
  <2>. DEFINE found == bases[peer.source].rows
  <2>1. /\ peer.source \in Commits /\ peer.rows # {} /\ peer.rows \in SUBSET Blobs
        /\ bases[peer.source] # NoBase => peer.rows \subseteq found
    BY <1>1 DEF PeerMapsVectors, PeerInv, JobTyped
  <2>2. bases[peer.source] \in Bases \cup {NoBase}
    BY <2>1 DEF DiskTyped
  <2>3. found \in SUBSET Blobs
    BY <2>2 DEF Bases, NoBase
  <2>4. CASE peer' = NoPeer
    BY <2>4 DEF PeerInv
  <2>5. CASE Cardinality(found) = Cardinality(peer.rows) /\ peer' = [peer EXCEPT !.vectors = found]
    <3>1. bases[peer.source] # NoBase
      <4>1. SUFFICES ASSUME found = {} PROVE FALSE
        BY Constants
      <4>2. found = peer.rows
        BY <2>1, <2>3, <2>5, <4>1, SameSize
      <4> QED
        BY <2>1, <4>1, <4>2
    <3>2. found = peer.rows
      BY <2>1, <2>3, <2>5, <3>1, SameSize
    <3>3. peer'.source = peer.source /\ peer'.rows = peer.rows /\ peer'.vectors = peer.rows
      BY <2>5, <3>2 DEF JobTyped
    <3>4. peer # NoPeer
      BY <1>1 DEF PeerMapsVectors
    <3> QED
      BY <1>0, <3>3, <3>4 DEF PeerInv, Busy
  <2> QED
    BY <1>1, <2>4, <2>5 DEF PeerMapsVectors
<1>2. ASSUME NEW h \in Commits, PeerReadsRows(h)
      PROVE  PeerInv'
  <2>1. peer' = [source |-> h, rows |-> bases[h].rows, vectors |-> {}] /\ bases[h].rows # {}
    BY <1>2 DEF PeerReadsRows
  <2>2. peer'.source = h /\ peer'.rows = bases[h].rows /\ peer'.vectors = {}
    BY <2>1
  <2>3. \A c \in Commands : Busy(c) /\ job.base # NoBase /\ want[c].head = h
                              => bases[h].rows \subseteq job.base.rows
    BY DEF JobInv, JobOf, BaseOf
  <2> QED
    BY <1>0, <2>1, <2>2, <2>3 DEF PeerInv, RowsInv, Busy
<1> QED
  BY <1>1, <1>2 DEF Peers

\* A build makes a base that has what the linked worktree has read.
LEMMA PeerStep ==
    ASSUME TypeOK, JobInv, RowsInv, PeerInv, [Next]_vars
    PROVE  PeerInv'
<1>. DiskTyped
  BY TypeParts
<1>1. CASE Peers
  BY <1>1, PeersStep
<1>2. CASE ~Peers
  <2>1. UNCHANGED peer
    <3>1. ASSUME NEW c \in Commands, Locks(c) PROVE UNCHANGED peer
      BY <3>1 DEF Locks, FoundCurrent, Decide, LockRepair
    <3>2. ASSUME NEW c \in Commands, Builds(c) PROVE UNCHANGED peer
      BY <3>2 DEF Builds, BuildBase, BuildOverlay, StartPublish, PublishText, WriteState,
         WritePending, RemoveBase, RenameBase, WriteExact, PublishOverlay, Go
    <3>3. ASSUME NEW c \in Commands, Releases(c) PROVE UNCHANGED peer
      BY <3>3 DEF Releases, DiscardBuild, Bind, Collect, FailActivation, RemoveDamaged, Go
    <3> QED
      BY <1>2, <3>1, <3>2, <3>3, Steps, QuietFrame, RepoFrame DEF Damage, vars
  <2>. SUFFICES ASSUME peer # NoPeer
                PROVE  PeerInv'
    BY <2>1 DEF PeerInv
  <2>. DEFINE h == peer.source
  <2>2. h \in Commits /\ h' = h
    BY <2>1 DEF PeerInv
  <2>3. peer.rows \subseteq Content[h] \cap here'
    BY StoreGrows DEF PeerInv
  <2>4. bases'[h] # NoBase => peer.rows \subseteq bases'[h].rows
    <3>1. ASSUME NEW c \in Commands, RenameBase(c), want[c].head = h, bases'[h] = job.base
          PROVE  bases'[h] # NoBase => peer.rows \subseteq bases'[h].rows
      <4>1. Busy(c)
        BY <3>1 DEF RenameBase, Busy, Publishing, Activating
      <4> QED
        BY <3>1, <4>1 DEF PeerInv
    <3>2. bases[h] # NoBase => peer.rows \subseteq bases[h].rows
      BY DEF PeerInv
    <3> QED
      BY <2>2, <3>1, <3>2, BaseWrites DEF Mild
  <2>5. ASSUME NEW c \in Commands, Busy(c)', job'.base # NoBase, want'[c].head = h
        PROVE  peer.rows \subseteq job'.base.rows
    <3>1. CASE BuildBase(c)
      <4>1. pc[c] = "base" /\ Busy(c)
        BY <3>1 DEF BuildBase, Busy, Building
      <4>2. want'[c] = want[c]
        BY <3>1, BuildMoves DEF BuildBase
      <4>3. \/ job' = job
            \/ job' = [job EXCEPT !.base = [rows |-> Content[want[c].head] \cap here, health |-> "whole"]]
        BY <3>1 DEF BuildBase
      <4>4. \/ job'.base = job.base
            \/ job'.base = [rows |-> Content[want[c].head] \cap here, health |-> "whole"]
        BY <4>3 DEF TypeOK, Jobs
      <4>5. CASE job'.base = job.base
        BY <2>5, <4>1, <4>2, <4>5 DEF PeerInv
      <4>6. CASE job'.base = [rows |-> Content[want[c].head] \cap here, health |-> "whole"]
        BY <2>5, <4>2, <4>6 DEF PeerInv
      <4> QED
        BY <4>4, <4>5, <4>6
    <3>2. CASE ~BuildBase(c)
      <4>1. Busy(c) /\ want'[c] = want[c] /\ job'.base = job.base
        <5>1. CASE \E d \in Commands \ {c} : Quiet(d) \/ Locks(d) \/ Builds(d) \/ Releases(d) \/ Crash(d)
          <6>1. Busy(c)
            BY <2>5, <5>1, OwnFrame DEF Busy
          <6> QED
            BY <5>1, <6>1, OthersStep
        <5>2. CASE UNCHANGED vars \/ Repository \/ Damage
          BY <2>5, <5>2, RepoFrame DEF vars, Damage, Busy, searchVars
        <5>3. CASE Quiet(c) \/ Crash(c) \/ Locks(c) \/ Releases(c)
          <6>1. job'.base = NoBase \/ (Bind(c) /\ Go(c, "collect") /\ UNCHANGED job)
            BY <2>5, <5>3, Begins, BuildBegins
          <6>2. Bind(c) => Busy(c)
            BY DEF Bind, Busy, Publishing, Activating
          <6> QED
            BY <2>5, <6>1, <6>2, BuildMoves
        <5>4. CASE Builds(c)
          <6>1. Busy(c)
            BY <5>4, Held
          <6>2. /\ \E step : Go(c, step)
                /\ job' = job \/ job' = [job EXCEPT !.overlayBuilt = TRUE] \/ job' = [job EXCEPT !.partial = TRUE]
            BY <3>2, <5>4 DEF Builds, BuildOverlay, StartPublish, PublishText, WriteState,
               WritePending, RemoveBase, RenameBase, WriteExact, PublishOverlay
          <6>3. job'.base = job.base
            BY <6>2 DEF TypeOK, Jobs
          <6> QED
            BY <6>1, <6>2, <6>3, BuildMoves
        <5> QED
          BY <1>2, <5>1, <5>2, <5>3, <5>4, Steps
      <4> QED
        BY <2>5, <4>1 DEF PeerInv
    <3> QED
      BY <3>1, <3>2
  <2> QED
    BY <2>1, <2>2, <2>3, <2>4, <2>5 DEF PeerInv
<1> QED
  BY <1>1, <1>2

-----------------------------------------------------------------------------
(* Theorems.                                                               *)

\* The invariant is inductive.
LEMMA InvStep ==
    ASSUME Inv, [Next]_vars
    PROVE  Inv'
BY TypeStep, JobStep, RowsStep, RecordStep, ReadStep, PeerStep DEF Inv

\* It holds always.
LEMMA Invariant == Spec => []Inv
BY InitInv, InvStep, PTL DEF Spec

\* The types hold, with one holder of .build.lock, who is in the part of the code
\* that the lock guards (lock.go, joined_generation.go).
THEOREM TypeCorrect == Spec => []TypeOK
<1>1. Inv => TypeOK
  BY DEF Inv
<1> QED
  BY <1>1, Invariant, PTL

\* While a search reads vectors, the text under its lock is of the same state, and
\* the generations are those of the state that it opened (readNodeEvidence),
\* whatever builds, removals, crashes and damage come between.
THEOREM TextFits == Spec => []VectorsFitText
<1>1. Inv => VectorsFitText
  BY DEF Inv, ReadInv, Fits, VectorsFitText
<1> QED
  BY <1>1, Invariant, PTL

\* A base that opens and lacks windows has a record that names their blobs, from
\* before its publish on, and the record is due as soon as one of them has arrived
\* (git_missing_blobs.go), also when it arrived during the build, and after a
\* crash between any two steps of the publish.
THEOREM LossNamed == Spec => []MissingIsNamed
<1>1. Inv => MissingIsNamed
  <2>. SUFFICES ASSUME Inv, NEW h \in Commits \ displaced,
                       BasePresent(h), MissingOf(h, bases[h].rows) # {}
                PROVE  /\ Counts(h) /\ MissingOf(h, bases[h].rows) \subseteq record.blobs
                       /\ MissingOf(h, bases[h].rows) \cap here # {} => record.store # here
    BY DEF MissingIsNamed, MissingDue
  <2>1. Named(h)
    BY DEF Inv, RecordInv
  <2>2. here # Unknown
    BY Constants DEF Inv, TypeOK
  <2> QED
    BY <2>1, <2>2 DEF Named
<1> QED
  BY <1>1, Invariant, PTL

\* A build of a linked worktree, which takes no lock of this corpus, pairs the rows
\* that it read with the vectors of the same generation or with none
\* (semantic_reuse.go): a base that replaces another has all its windows, so one
\* of the same length is the same.
THEOREM ReuseExact == Spec => []ReuseIsExact
<1>1. Inv => ReuseIsExact
  BY DEF Inv, PeerInv, ReuseIsExact, NoPeer
<1> QED
  BY <1>1, Invariant, PTL
=============================================================================
