# Formal models of Seek

Seek answers a code search from indexes that it keeps in a cache and that it
brings up to date inside the search itself. There is no server: many `seek`
processes, garbage collections and crashes meet only in the files of the cache.
These TLA+ modules model the protocols that keep those files right. TLC checks
them on small instances, and TLAPS proves the main safety results for every
value of the constants.

All paths below are under `cmd/seek/` of the repository unless they say
otherwise.

## 1. The system

### 1.1 Words

| word | meaning |
|---|---|
| node | one Git work tree or one folder of a search |
| corpus | the cache directory of a node; its path is a hash of the root |
| shard family | the shard files of a corpus that one publish replaces together |
| `.build.lock` | flock, exclusive for a complete build of a corpus |
| `.lock` | flock, exclusive for a swap of shard files, shared for a read |
| `.swapping` | marker: a swap runs or stopped, so the family may be torn |
| `.family-v1` | family manifest: names and sizes of the published shard files |
| `.state` | hash of the walk (folder) or of HEAD and the dirty paths (Git) that the family was built for |
| folder manifest | the stat values of each indexed file, the base of the next delta |
| `.used` | time of the last use, read by evictions |

### 1.2 Components

| component | files | state | operations |
|---|---|---|---|
| corpus locks | `lock.go`, `node_read.go`, `node_kind.go` | two lock files per corpus | take, wait, give back; serve the shards of a running build; read under the shared lock |
| node search lifecycle | `search_pipeline.go`, `main.go` | attempt, build slots, open read | prepare, build, read, retry once, repair damage |
| publish and repair | `swap.go` | shard files, `.swapping`, `.family-v1`, `.state` | move aside, rename in, roll back, repair |
| folder index update | `folder_indexer.go`, `build_plan.go` | `.state`, folder manifest, checksums | warm test, recheck, delta, full build, record |
| folder walk | `folder_walk.go` | stack of directories, claims by identity | walk, claim, prune, state hash |
| Git index update | `indexer.go`, `delta.go`, `git_committed_state.go`, `uncommitted_manifest.go` | committed family, uncommitted family, `.state`, records | capture, delta, full build, discard, publish |
| Git processes | `git*.go` | a `git cat-file` process and its pipes | list trees, read blobs |
| garbage collection | `gc.go`, `gc_cmd.go` | `.used`, `gc.lock`, `.last-gc`, trash, marks of artifacts | list, plan, evict, sweep, retire |
| cache budget | `cache_budget.go` | size ledgers `.size` | measure, estimate, plan, evict |
| resource budgets | `caps.go`, `resource_budget.go`, `read_semaphore.go` | slots, windows, weights, CPU leases | acquire, release |
| node graph | `graph_expand.go`, `graph_resolve.go`, `git_detect.go`, `corpus.go`, `cli_root.go` | Git nodes and their scopes, tasks | classify operands, capture Git trees, add nested nodes |
| missing blobs | `git_missing_blobs.go` | record with a retry time | record, recheck |
| joined generations | `joined_generation.go`, `semantic_store.go`, `semantic_reuse.go` | descriptor, base and overlay generations | publish, bind, collect, open, copy rows |
| semantic build | `semantic_build.go`, `semantic_usearch_*.go`, `semantic_units.go` | stages and their channels, weights, CPU leases | extract, embed, write rows, build graphs, cancel |
| vector search | other `semantic_*.go` | models, centroids | embed a query, search |
| ranking and output | `bm25_global.go`, `rerank*.go`, `searcher.go`, `formatter.go` | none that lasts | score, merge, print |
| rest | `asset_cache.go`, `*_linux.go`, `*_darwin.go`, `install.sh`, plugins | embedded assets | extract, install |

### 1.3 How they interact

A search expands its roots to nodes and runs one task per node (`openNode`).
The task prepares the node: it compares `.state` with the tree without a lock.
When they differ it takes one of the command's build slots, then `.build.lock`,
repairs an interrupted swap, looks again, builds into a private directory, takes
`.lock`, swaps, and writes `.family-v1`, `.state` and its manifest. If another
process holds `.build.lock` and shards exist, it serves those and calls them
stale. Then it opens `.lock` shared, lists the shards, searches them and gives
the lock back. Damage and tree changes send it back to the start once. A garbage
collection takes `.lock` of an idle corpus without waiting, probes
`.build.lock`, and renames the corpus to the trash.

A Git node has two families under one `.state`: the committed one for the blobs of
a commit and the uncommitted one for the dirty files. A search with vectors has a
third part, its vector generations (a base for the commit, an overlay for the dirty
files or a folder), which the joined descriptor ties to one state and one family. The
text and the vectors are built at the same time, by readers and consumers that share
one budget of bytes per process.

Everything a process knows of the others is in these files. A flock belongs to
an inode and every other access goes by path, which is the origin of several of
the hard cases. Inside a process, goroutines meet in channels, semaphores and locks.

### 1.4 Hard behaviours, and what makes each component correct

* **Locks.** Builders, readers, searches that serve a peer's shards, evictions,
  in any order; waits inside waits (slot, build lock, publish lock). Correct when
  no read meets a swap, one build runs per corpus, each wait ends, and evictions
  spare what is in use.
* **Publish.** A stop or an I/O error at any rename, in the roll back and in the
  repair. Correct when what looks complete is complete, and is one build.
* **Folder update.** Files change while they are walked and read, peers publish
  between the test and the lock, deltas build on records that may be of another
  publish. Correct when `.state` tells the truth about the family, and the index
  comes to a tree that rests.
* **Git update.** HEAD moves during a build, two families share one `.state`, dirty
  files come and go and cannot always be read, a partial clone lacks blobs. Correct
  when an index that the next search takes as current holds the repository.
* **Vectors of a node.** Four things are published one after the other and read
  without the build lock. Correct when a read uses the vectors of its own text, and
  what is damaged or missing is built again.
* **Vector build.** Six stages hand work on over channels that hold nothing, and share
  weights and leases. Correct when a build that succeeds is whole, every failure tells
  its cause and gives everything back, and the build ends.
* **Evictions.** Two kinds of evictor, of which only one takes `gc.lock`; sizes are
  measured beside builds. Correct when nothing in use goes and the cache fits.
* **Budgets.** Every build under its own bound, and all of them under one. Correct
  when no read waits for weight that only its own consumer could give back.
* **Graph and walk.** Concurrent claims whose winner must not depend on order.

The list with a source line for each is `hazards` in `PROJECT.json`.

## 2. Modules

| module | models | runs |
|---|---|---|
| `CorpusLocks` | tasks and collections over the two lock files | `Locks*` |
| `CorpusLocksProof` | its theorems | |
| `AtomicFamily` | what a publish promises | |
| `ShardSwap` | a publish and its repair, file by file | `SwapFaults` |
| `ShardSwapProof` | its theorems, with the refinement of `AtomicFamily` | |
| `FolderCorpus` | folder updates, records and the changing tree | `FolderFaults` |
| `FolderCorpusProof` | its theorems | |
| `GitCorpus` | updates of a Git node: two families, records, missing blobs | `GitFaults` |
| `GitCorpusProof` | its theorems | |
| `CacheEviction` | ledgers, cache budget, collections, sweeps | `EvictionFaults` |
| `CacheEvictionProof` | its theorems | |
| `VectorStore` | vector generations, their binding, reads and repair | `VectorFaults` |
| `VectorStoreProof` | its theorems | |
| `VectorBuild` | the concurrent build of one vector generation | `VectorBuildFaults`, `VectorStalls` |
| `VectorBuildProof` | its theorems | |
| `NodeGraph` | operands, graph expansion and folder walks | `GraphFaults` |
| `ReadBudget` | build windows and read weights of one process | `BudgetFaults` |
| `ReadBudgetProof` | the arithmetic of the windows, the weights and the semaphore | |
| `MC*` | instances; `MCVectorBuild` also has the statement that the code does not keep | |

The components divide the program between them. `CorpusLocks` sees a family as none,
whole, part or damaged, and shows that one builder and no reader is in a swap.
`ShardSwap` opens that one step into its renames, and shows that between swaps a family
is as it was before, is the new one, or is not trusted. `FolderCorpus`, `GitCorpus` and
`VectorStore` use both results: their swap is a marked interval and their repair is one
step under the lock, and they follow what the records say of the documents and vectors.
`CacheEviction` uses the exclusion of an evictor and a holder. `VectorBuild` opens the
build of a generation, which is one step in `VectorStore`, and `ReadBudget` composes the
text and vector lanes of several builds over one budget. `NodeGraph` runs before all of
them and gives the nodes.

### 2.1 CorpusLocks

State: per node the *incarnation* of its directory (`inode`), what the path holds
(`present`, `lockFile`, `family`, `manifest`, `marker`), and what a running swap
moved aside; per process its step, the incarnations of its open `.lock`,
`.build.lock` and build directory, its attempt; and the set of held flocks. Two
locks conflict only on one incarnation: this is what an eviction by rename does
to flock.

Each step of `openNode`, `refreshState`, `acquireBuildLock`, `publishGeneration`,
`openNodeRead`, `removeDamagedFamilyManifest` and `evictCorpus` between two file
system effects that another process can see is one action. Details:

* `Repair` joins three steps of the holder of `.build.lock`: the creation of
  `.lock`, `touchUsed` and `recoverIncompleteSwap`.
* The warm test and the recheck decide nondeterministically; `FolderCorpus` has
  their content.
* A Git node publishes two families. The swap of the committed one is marked and
  the swap of the uncommitted one is not, and a repair removes the family that the
  marker names: what is left is `"part"`.
* A build of a folder, and one that publishes a committed Git family, has a build directory.
  A Git build whose committed family stays has one for a full uncommitted family
  (`StageUncommitted`), and none for a delta of dirty files or a tree with none
  (`bdir` 0). Its publish looks only whether the index directory exists, and then goes
  into the corpus at the path, whichever that is.
* `GiveUp` is the interrupt of any wait. Build slots are those of one command.
* A collection that is over may come again, which counts as a fault. It does only when it
  finds a build that publishes under the `.lock` of an earlier directory (`Overtaken`): that
  publish then meets a second eviction (`LoseCorpus`), while for any other the first
  collection could have come as late.
* Which of its two families a mixed Git family lacks, and whose files, is not told; nor
  are two swaps told apart that run at once after an eviction, one with `.lock` of the
  corpus that went.
* Not in it: folders known to be empty, the removal of damaged vectors, the
  semantic build, which runs under the same lock.

### 2.2 ShardSwap and AtomicFamily

A file is the build that wrote it, which stands for inode and bytes, and its
size, which is all that `.family-v1` records. A build writes new files and, as a
delta, links live ones; a linked file is neither moved nor renamed
(`keptLiveFiles`). Each rename, each removal of the roll back and of the repair,
the marker and each record is an action that can fail or be the last before a
crash. The removals of the repair fail unseen, as in the code: it goes on when a file, the
manifest or `.state` stays (`DropRecords`), and `left` tells when files and a manifest
that agrees with them were left. The order of the moves within one phase is free. Not modelled: entries
that are not regular files, and live files that vanish during the swap (both fail
the publish early), and the publish of the uncommitted Git family.

`AtomicFamily` has three actions: a build fills its directory, the whole directory
becomes the family at once, or the family loses the trust. The refinement maps
`files` to the family that a roll back would restore while a swap runs, and to the
files of the index otherwise.

### 2.3 FolderCorpus

A tree gives each file a version, 0 for no file. A version stands for content and
for the stat values of the state hash. The hash has the ctime of a file but of no
directory above it, so a directory that moves away and back (`Move`) brings back
exactly the old values: without it an old state could never return. `.state` and
the folder manifest are trees; the family is a tree too, the version of each
document.

Actions follow `ensureFolderCorpusFresh` and `ensureFolderCorpusFreshWithExecution`:
the walk of the graph expansion (`Begin`), the read of `.state`, the scan, the
fingerprint walk, the warm answer; under the lock the recheck with its second
walk, the plan, the reads file by file, the fall back from delta to full build,
the swap, `.family-v1`, `.state`, the manifest. `ServePeer` is the answer from the
shards of a running build. A walk is one step, which is sound for the properties
here, because each of them speaks of files one at a time. The limits of a delta
and compaction are one nondeterministic fall back.

`late`, `missed` and `passed` are history variables that only properties read:
a publish that stopped between `.family-v1` and `.state`, files that a build found
gone after its walk, searches that a peer's publish passed since they began. Each names an
exception of the code, described in section 5.

### 2.4 GitCorpus

A commit is a set of blobs, and the committed family holds the blobs of one commit, by
content or by name only. The uncommitted family holds a document for a dirty file, at
the version that a build read. `.state` is HEAD and the versions of the dirty files; a
clean file is not in it, so undone edits bring an old state back. `manifest` is
`.family-v1`, `entries` the uncommitted manifest, `gitState` the snapshot of the
committed family, `missing` the record of blobs, `.head` and `.empty` their own files.

The actions follow `refreshState` and `buildLocked`: capture, warm test with its second
stat, the lock with the repair, the recheck of missing blobs, the plan, the committed
delta or full build, the check of HEAD, the uncommitted stage with what it cannot read,
then the publish: pending record, pending manifest, marked swap, record of the family,
uncommitted delta or stage or clean, kept files, manifest, `.family-v1`, `.state`,
`.head`. Each write can be the last before a crash, and each has its error path. The
reads of dirty files are separate steps, so edits come between a stat and a read. Lock
waits and evictions are left to `CorpusLocks`; the swap is two steps, because
`ShardSwap` opens it.

`late`, `stale` and `reborn` are histories for the exceptions of section 5. `stale` tells
that the last write of the uncommitted manifest failed, which the code only logs.

### 2.5 CacheEviction

A corpus is a size, the times of its publish, its use and its ledger, and the time of a
build directory. Time is a tick of the file system, and two events in one tick have
one time: every comparison of times in `cache_budget.go` and `gc.go` is in the model
as it is in the code, `<` or `<=`. Actors are searches, which measure, are refused or
build, and evict after a build, and collections, which take `gc.lock`, list, plan,
sweep, evict, drain the trash and retire artifacts. An eviction is three steps: it takes
`.lock` and finds `.build.lock` free (`TakeCorpus`), reads `.used` (`FindUnused`, or
`KeepCorpus` when the corpus was used), and renames (`Evict`). From the first to the last
no read begins and no swap runs, but builds begin and touch `.used`; a build that is under
way at the rename is lost (`LoseBuild`) and tried again. The start of a build (directory,
`.build.lock`, `.used`, build directory) is one step, and so are the open and the flock of
`.lock`; `CorpusLocks` has the steps between, and what a build without a build directory does
when it is lost. The volume's free space follows from all bytes, those in the trash included.

Left out: `.used` times in the future, the dry run and the table of `seek gc`, temporary
manifests. The nodes of a search are taken in order; they meet other actors here.

### 2.6 VectorStore

Per commit a base generation with the windows of its blobs, per state an overlay, and
the descriptor that names a state, a family and both. A generation can be damaged so
that an open tells it, or so that only a scan of a graph shard does. Builds are steps
under `.build.lock` and the publish lock: the text, pending record, base (removed, then
renamed), exact record, overlay, bind, collection of the others. Reads are steps without
that lock: open the text, compare the tree again, open the generations that the
descriptor binds, find damage in the open or in the scan, end. `removeDamagedVectors`
needs both locks and skips when a peer builds. A peer worktree reads the rows of a
generation and maps its vectors in two steps.

The text family is one value, the state it was built for. The check under the lock is
one step with the lock. Folder generations go through the same functions with no base
and are not modelled apart.

### 2.7 VectorBuild

One variable per stage of `buildSemanticGeneration`: the source, the parsers, the build
loop with its planner of shards, the encoder with its model calls, the row writer and
collector, the graph stream. A row is its number, a batch, a block and a shard are sets
of rows, a send is one step with its receive. The planner is the code's arithmetic
(`ShardRowsFor`, `Cut`) on a small tree. The build and CPU gates and the read weights are
counted as the code counts them. The owners of a file's weight are not: the batches that
hold a row of the file stand for the counter of `semanticBuildOwner`
(`semantic_build.go:38-62`, `587-611`). The steps of `retain` and `done` are not told apart, so
a count that reached zero too early would be outside the model. Any stage can fail,
and the command can be interrupted at any time; the cancel reaches each stage where the
code looks at it.

Abstracted: the rate controller of model calls picks any width that its limits allow;
the rest of a batch is given back at one place after a cancel; copying and linking a
shard are one state; overlay builds, which have no graph, are not modelled apart.

### 2.8 NodeGraph

The disk is a constant: directories as paths, an identity for each (two paths may reach
one directory), their `.git` entries, the gitlinks. Two questions are kept apart. What the
code takes for the root of a node (`Classify`) decides the seeds and the walks of folders.
What Git lists as one record (`IsListed`: a gitlink, or an untracked directory whose `.git`
entry Git recognises) decides the children of a work tree, and all else below it is listed
file by file as its content (`Lister`). We assume that Git recognises what the rules
confirm; a captured tree that fails is the fault "git". The seeds are the code's classification of the
operands (`Classify`). Tasks capture a Git tree, add a child, or walk a folder; a task
waits for a slot in its own goroutine. A walk has workers that share one stack; each
opens a directory, claims its identity, queues its subdirectories, and lists the Git
roots that it found. Errors and the interrupt end a task, a walk or the group as the
code does.

### 2.9 ReadBudget

Both semaphores, with the queue of `semaphore.Weighted`: a request waits while an earlier
one waits. Each build has a text lane and perhaps a vectors lane, each lane its readers
and one consumer. A document is unread, asked, named, marked, in hand, pending in a
window, or gone; its weight is what `readWeight` gives. The lane's mode is full or delta;
a delta of dirty files that grew becomes a full build. Deltas of a folder take no weight.
A read and the offer to the consumer are one stage after the grant. The vectors lane is an
outline of `VectorBuild`.

## 3. Runs

Bounds are in the `.cfg` files. "Faults" counts crashes, disk errors, damage and
interrupts together, each kind only where named.

| run | bounds | checks |
|---|---|---|
| `LocksNodes` | 2 commands, 2 folders, 1 slot, no retry | `NobodyIsStranded`, `ReadsWholeGenerations` |
| `LocksCrash` | 3 commands, 1 Git node, 2 faults (crash, damage, disk) | `BuildsStartRepaired`, `MendSparesNewFamily` |
| `LocksEvict` | 2 commands, 1 collection, 1 Git node, 1 fault (crash, interrupt, another collection) | `IncarnationsExclude`, `SwapsOwnCorpus`, `EveryTaskEnds`, `ReadsOutrunBuilds` |
| `SwapFaults` | 2 names, 2 sizes, 3 builds, 3 faults (crash, disk: renames, writes and removals) | `TrustedIsWhole`, `AtomicSpec`, `MarkerClears` |
| `FolderFaults` | 2 searches, 1 file, versions to 2, 2 changes (edits and moves), 1 fault of any kind (crash, disk, read, damage) | `StateDescribesFamily`, `WarmIsNoOlder`, `Converges` |
| `GitFaults` | 2 searches, 2 commits of 3 blobs, 1 file, versions to 3 (2 is a removal), 2 changes, 1 fault (crash, disk, read, descriptors, cancel, damage) | `TypeOK`, `StateTellsIndex`, `MissingIsTold`, `Converges` |
| `EvictionFaults` | 2 searches, 2 collections (one of all), 2 corpora, 1 unit, 1 artifact, 3 ticks, 2 runs, 1 fault (crash, remove, timeout) | `TypeOK`, `LedgerTells`, `EvictionSparesUse`, `AloneRunFits`, `SweepSparesBuilds` |
| `VectorFaults` | 2 searches (one may go without vectors), 2 commits of 2 blobs, 2 changes, 1 fault (crash, disk, model, kept, damage), a peer | `TypeOK`, `VectorsFitText`, `MissingIsNamed`, `ReuseIsExact`, `Converges` |
| `VectorBuildFaults` | 4 files of 6 windows, batches of 2, shards of 1 or 2, 2 CPUs, 2 faults (read, window, model, disk, graph, interrupt) | `TypeOK`, `BuiltWhole`, `CauseIsTold`, `WeightsReturned`, `Ends` |
| `VectorStalls` | 7 files with one new and one reused window each, the code's batch of 128 rows | refutes `NoReadWaitsForever` |
| `GraphFaults` | 17 directories, 5 operands, 2 slots, 2 workers, 1 fault (git, descriptors, interrupt) | `TypeOK`, `WalkIsDetermined`, `HeldOnce`, `Ends` |
| `BudgetFaults` | 3 builds of 2 commands, the smallest budget, 3 readers, 1 fault (read, binary, builder, model, interrupt) | `TypeOK`, `WeightsReturned`, `NoReadWaitsForever` |

The largest, `EvictionFaults` and `FolderFaults`, have about four and two million
states; the rest have up to one million.

Why these bounds are enough to meet the interesting cases:

* Two nodes and one slot give the wait of a task for a slot whose holder waits for
  a lock. Three commands on one node give a builder, one that waits, and one that
  serves or reads. Two faults give a crash, and another in what cleans up after it.
* A swap of two names has a moment with one name moved and one not. Sizes that
  coincide, which the manifest cannot tell apart, and sizes that differ both occur.
  Three builds and three faults allow a failed swap, a failed roll back and a failed
  repair before a good build.
* A file that is created, or moves away and back, brings an old state of the folder back
  after another was published, also between the two reads of a warm answer. Documents
  of different files do not depend on each other: the safety properties speak of
  one file at a time, and section 4 proves them for any number.
* Two changes of a Git node give an edit and the return, a commit and the checkout back,
  a commit and a blob that arrives, each between any two steps of a build. The two
  commits share one blob and each has one of its own, so that a delta keeps, drops and adds.
  Two searches are enough for a builder and one that starts before or after it.
* Two corpora and 1 unit give an order of eviction; sizes 1 and 2 let a build grow a corpus
  over the budget of a volume of 40 with 34 bytes of others. Three ticks are a time before, at and
  after each other event. Two runs meet each other; the history `alone` tells those that do not.
* Six windows with calls and copies in one file cross a batch, a block and a shard; one file is
  longer than a shard and one has no window. Three units of weight for four files make
  the source wait. A pending batch of two holds at most one file, so it leaves the next read
  its weight: `Ends` is about such batches (`BatchesFit`). With the code's 128 rows the smallest
  budget is too small for that, which is `VectorStalls`. Two faults give a failure and a second cause, or an interrupt, in what it cancels.
* The disk of `GraphFaults` has each kind of root (a node, a failed one below a folder, a
  failed gitlink, a failed untracked directory in a work tree, a bare repository), twin paths
  whose order can be either, a nested repository below a narrow operand, and operands inside
  others.
* `BudgetFaults` counts in halves of the largest document. The windows of a and b
  hold one document each, c takes all windows, and the queue of reads holds two requests.
  Since content fills a window first there as it does with 100 MiB in the code, the limit on
  documents per window (`LargeParallelism`) never binds.

Each property has a mutant in `PROJECT.json`: a definition with a plausible mistake
(a lock released early, a marker forgotten, a state written before its swap, a probe
without a lock) under which TLC finds the property violated. Mutants are defined
next to what they replace and are marked "Mutant"; no action of a specification uses
them.

`EvictionFaults` switches deadlock checking off, because every run and the clock are
bounded and the cache then rests; `VectorStalls` does because its point is a build that
waits for ever. All other runs check deadlock.

### 3.1 Fairness

* `CorpusLocks`: weak fairness for each process, except in the step `"build"`. The
  system schedules each process, and a poll of flock that finds a lock free takes
  it. flock has no queue, so a wait could be overtaken; but commands are finite and
  each holder ends, so the lock is free for good in the end and weak fairness is
  enough. Nothing bounds a build, so `EveryTaskEnds` says *if builds end*, and
  `ReadsOutrunBuilds` does without that. No fairness for crashes, damage,
  interrupts and collections that come again.
* `ShardSwap`: weak fairness of the builder's steps as one. A search that sees
  `.swapping` always asks for a build.
* `FolderCorpus`, `GitCorpus`, `VectorStore`: weak fairness for each search, each of which
  starts again: searches keep coming. None for edits, moves and faults, all bounded, so
  the tree rests in the end. In `VectorStore` the searches are those with vectors; a
  search that goes without them may or may not come.
* `VectorBuild`, `NodeGraph`: weak fairness of the steps of all goroutines as one: the Go
  scheduler runs something that can run. This is the weakest form, and enough because no
  stage can take steps for ever. Steps that are faults are not among them: nothing that is
  stuck may count on a failure to come free. `Ends` of `VectorBuild` says *if the pending batch
  cannot fill the read budget*.
* `ReadBudget` needs none. `NoReadWaitsForever` says that while a build is not over somebody
  has a step, and every step of `Progress` moves a document, a lane or a build forward.
* `CacheEviction` has no liveness property: a collection is given up after a time
  and comes again with the next search.

## 4. Proofs

`CorpusLocksProof` proves, for any commands, nodes, evictors, slots and faults:

| theorem | says | argument |
|---|---|---|
| `TypeCorrect` | `[]TypeOK` | inductive |
| `LocksHold` | `[]LockInvariant` | `LocksCover`: each step that relies on a lock has it, on the incarnation that its descriptor belongs to; `LocksExclude`: the granted locks are compatible. Together with `TypeOK`, inductive |
| `IncarnationExclusion` | `[]IncarnationsExclude` | from `LocksHold` |
| `ReadersExcluded`, `BuildersExcluded` | `[]SwapExcludesReaders`, `[]OneBuilder` | without evictions every directory has one incarnation (`OneIncarnation`), so every two holders meet on it |
| `SwapKeepsItsCorpus` | `[]SwapsOwnCorpus`: of swaps that read a build directory | `EvictInv` |
| `EvictionSpares` | `EvictionSparesUse` of `CorpusLocks` | `EvictInv` with the locks |
| `BuildsRepaired` | `[]BuildsStartRepaired`: while nothing evicts a corpus | `RepairedFirst` with the locks |
| `GenerationsWhole` | `ReadsWholeGenerations` | `SwapAlone` with the locks |
| `MendsSpare` | `MendSparesNewFamily` | `MendInv` with the locks |

`EvictInv` has three parts. `SweepsOwnCorpus`: a collection that probes or evicts has
`.lock` of the incarnation in place. `BuildsInOrder`: the build directory of a task is of
no later incarnation than its `.lock`, and that of no later one than the path.
`SwapInPlace`: during a swap of a build directory all three are the same. Such a swap starts
only where the build directory still exists by path, so with the order all three agree at its
start; then the corpus can only go through an eviction, which holds `.lock` of that
incarnation, and that lock excludes the swap. A Git build without a build directory has
nothing that ties it to an incarnation: section 5.2 says what it does. With two collections
at once `SweepsOwnCorpus` fails, which is why both results say `SoleEvictor`.

`RepairedFirst`: from its repair of an interrupted swap until its own swap no task sees a
marker. `SwapAlone`: a family is mixed, or has a marker, only while a task swaps it; so a
reader, whose lock excludes the swap, finds the files of one finished build. This needs that
no crash and no disk error leaves a mixed family (`NoTornSwap`); with those the search may
read one, and `ShardSwap` says what it then trusts. `MendInv` follows a read that found
damage from its look at the manifest to its removal: the manifest that it saw was over a
damaged family, also when a swap has moved it aside since and moves it back. All three say
that nothing evicts the corpus. With an eviction the last two are false: the reader has the
inode of a corpus that is gone, and its lock excludes nobody at the path.

`ShardSwapProof` proves, for any names, sizes, builds and faults: `TypeCorrect`,
`NoTornFamilyIsTrusted` (`[]TrustedIsWhole`), `StateIsNotAhead` (`[]StateNeverAhead`)
and `SwapIsAtomic` (`Spec => AtomicSpec`). The invariant is `TypeOK`, `Phases`
(what each step knows of the marker, the manifest and the builder's lists), `Files`
(where live and new files are in each step) and `Sound`. `TrustedIsWhole` alone is not
inductive, because it is silent during a swap. `Sound` speaks of the family that a
complete roll back would leave (`Before`): as long as nothing failed to move back, if
that family agrees with the manifest, then it is the last published one, whatever
moves have happened. `NoTornFamilyIsTrusted` and `SwapIsAtomic` except what a failed repair left
(`left`): the removals of a repair ignore errors, and the mapping (`SeenTrusted`) takes a family
that such a repair left with an agreeing manifest as not trusted. So they say that a search
trusts a torn family at no other time.

`FolderCorpusProof` proves, for any files, searches, edits, moves and faults: `TypeCorrect`,
`StateTold` (`[]StateDescribesFamily`) and `WarmIsFresh` (`Spec => WarmIsNoOlder`). The
invariant has six parts beside `TypeOK`:

* `LockInv` and `Phases`: one command is in the steps under the lock, and what these know of
  `.swapping`, `.family-v1` and the family.
* `Bounded`: no tree that anything remembers has a version the folder never had.
* `DocInv`: each build describes its walk in the files it has read or kept (`Builds`), and
  `.state` describes a settled family (`Described`). Each needs the other: a delta keeps what
  the last state describes, and a state is written for what the build describes.
* `Forward`: no document of the family, or of a build, is older than its version in any
  `.state` that a search still remembers.
* `Fresh`: what a search between its read of `.state` and its answer knows, as long as no
  publish passes it.

`StateDescribesFamily` is not inductive because it is silent during a publish and while a
marker or a damaged manifest hides the family.

`CacheEvictionProof` proves, for any corpora, searches, collections, sizes, budgets and
faults: `TypeCorrect`, `LedgersTell` (`[]LedgerTells`), `UseSpared` (`EvictionSparesUse`) and
`BuildsSpared` (`SweepSparesBuilds`). Its invariant:

* `Past`: no time on the disk, or in a list, is later than now. Each comparison of times in
  the other parts rests on it.
* `UsesInv`: what anybody used since a run began has a `.used` of that run or later, and what
  the run plans to evict was listed with an older one. An eviction looks again, and takes
  nothing whose `.used` has moved since the list.
* `TakenInv`: an eviction that has `.lock` of a corpus planned it, finds it there until its own
  rename, and is the only one that has it; a build that runs in it meanwhile has used it at or
  after the start of the eviction; and what an eviction after a build renames nobody had used
  at its last look.
* `BuildsInv`: a collection that probed no build in a corpus and finds one later finds a
  directory that is newer than its own start, so too young to sweep.
* `LedgerInv`: a ledger that nobody measures again tells the bytes; and so does a measure
  that is about to be written, unless a publish overtook it (`overlap`). `LedgerTells` alone
  is not inductive, because it is silent about measures on their way.
* `OneCollects` and `TrashHolds`: one collection at a time has passed `gc.lock`, and the trash
  holds the bytes of all that is being removed. Without the second, what is left in the trash
  after a removal could be negative; it is a sum over the evictors.

The module begins with lemmas about sums (`Total`) and a greatest element. Induction over a finite
set is done by the least counterexample: `<` on `Nat` is well-founded, which is a theorem
that takes a set and not an operator.

`VectorStoreProof` proves, for any commits, blobs, searches, moves and faults: `TypeCorrect`,
`TextFits` (`[]VectorsFitText`), `LossNamed` (`[]MissingIsNamed`) and `ReuseExact`
(`[]ReuseIsExact`). Its invariant:

* `JobInv`: what a build knows. The base that it made has the windows of its commit that the
  store had when it began, and all those of the base that it replaces; it replaces a base that
  opens only if a blob of its record arrived; after its pending record the record names what
  the new base lacks; in the text steps the family is the one it was asked for.
* `RowsInv`: a base has windows of its commit, of blobs that the store has. The store only grows.
* `RecordInv`: a base that opens has a record that names what it lacks, with the store of an
  earlier moment that lacked it too, except for commits whose record another commit's
  displaced (section 5.5). A record with a store that is no longer the store asks for a check.
* `ReadInv`: a search reads vectors only between its open and its end, no publish runs then,
  and what it opened is still what lies there.
* `PeerInv`: what a linked worktree has read of a generation is in that generation, and in the
  one a build has made to replace it.

The properties are not inductive because they are silent about what a build has decided but
not yet written. Not even `TypeOK` is: that the base of a commit is written needs that the
build has a commit, which is in `JobInv`.

`GitCorpusProof` proves, for any files, blobs, commits, searches, moves, edits and faults:
`TypeCorrect`, `MissingTold` (`[]MissingIsTold`) and `StateTold` (`[]StateTellsIndex`). The
second needs only `BlobInv`, that is `TypeOK` with

* `MissInv`: the record names what is indexed by name, and the store that it has is an
  earlier one, which lacked those blobs. The store only grows.
* `LostInv`: what a build knows of the blobs that it could not read. It carries those of the
  family it extends, and before its swap the record on disk is a pending one with all of them.

`StateTellsIndex` needs `TellsInv` too, because it is silent during a publish, while family
and manifest differ, and about what a build has decided but not yet written:

* `MarkerInv`: a torn committed family is under `.swapping`.
* `CommInv`: the committed family, and the one that the manifest names, hold their commit.
* `HeadInv`, `EmptyInv`: `.head` tells the commit of an emptied family, unless `late` says
  otherwise, and `.empty` is about no live file.
* `PastInv`: no state, manifest or build names a version from the future. Versions do not come
  back, so what is told of a version (`Told`, `Tells`) stays true when the file changes.
* `EntriesInv`: an uncommitted manifest that is not stale tells the documents of the family.
* `StateInv`: `.state` tells the uncommitted family that `.family-v1` names, or that names none.
* `JobInv`: what the holder of the lock has decided (`JobHead`, `ModeInv`), found whole
  (`WholeInv`), stat'ed (`StatsInv`), read (`DocsInv`) and written (`WrittenInv`).

The proof goes by frames: a step outside the lock changes no file, a step that reads or decides
changes only `job`, an edit changes only the work tree; each part of the invariant is then looked
at only under the steps that can disturb it. TLC checked the invariant on small instances first.

`VectorBuildProof` proves, for any files, windows, sizes, processors and faults:
`TypeCorrect`, `CauseTold` (`[]CauseIsTold`), `WeightsBack` (`[]WeightsReturned`) and
`WholeBuilds` (`[]BuiltWhole`). Its invariant, beside the types and the bounds of the two semaphores:

* `MergedInv`: the files before `nextFile` are merged and no other, and the rows are theirs, in
  file order. A new file gets numbers that no batch has.
* `Apart`: no row is in two of the batches that wait, are sent, are at the CPU gate or with the
  model, and each batch on its way has a row. A file may be in several of them. Since the
  batches are apart, one that leaves takes its rows and no others, and the files it gives back
  are just those that no row of the others belongs to.
* `WeightInv` and `LeaseInv`: the semaphore counts the files in work and those of the batches,
  the CPU gate the parsers, the calls and the shard builds.
* `AliveInv`: there are no more files with workers than workers that have not returned.
* `EndInv`: the stages end one after the other, each with nothing left. At the end both
  counters are those of empty sets.
* `CancelInv`: a canceled build was interrupted, or a stage has told a failure, or the encoder
  has a failed result in its hand that the collector tells next.

`TypeOK` needs all but the last two: that the semaphore does not go below zero, or a pending
batch over its length, is not a matter of types. The loop's folds over windows and files are
read through their recursion (`FoldExists`), by the least counterexample again, and the planner
through the bounds of its divisions.

`BuiltWhole` speaks of the shards of a build that is over; what makes it true is spread over the
whole pipeline while it runs. `CutInv` says it: as long as nothing is canceled, the shards that
have a build, the plans that wait in the stream, the plans that the loop still has to send and
the planner join the first row to the last that is in, each beginning where the one before ends
(`Chain`). The planner's place is the last row that it cut, with an open shard of the rows since
then, or 0 with the files that wait for a size. A plan that moves from one stage to the next
moves a link of the chain; `CutAt` shows that a cut prolongs it, in each of its four cases, and
`PieceSizes` that each piece of a long file has a row and is no longer than the size, for every
count and size. `SourceInv` says why no file can be left out of a build with no error. When the
build succeeds the plans, the messages and the planner are at their end, so the shards alone
join 0 to the last row (`ChainCovers`). TLC checked this invariant on the instance of
`VectorBuildFaults` before it was proved, with the links counted out in place of the `\E`
of `Chain`.

`ReadBudgetProof` proves `WindowsFit`, the claim of the comments of `caps.go`, for any budget
of at least six largest documents and any number of nodes: a window holds one largest
document, the windows of all builds that share the budget leave two more free, and the two
windows a build asks for are no more than there are. Its lemmas are what integer division
promises; the proof bounds the share of a build first (`SharersFit`), then the window.

For any builds, documents, readers, faults and interrupts it proves `TypeCorrect` and
`WeightsBack` (`[]WeightsReturned`). Both need the same invariant:

* `Semaphore`, for each of the two: the queue is a sequence of requests, none twice, of a finite
  set in which no two are of the same holder, and `used` is the cost of the others. The cost of
  a set of requests is the number of their units, so it adds up over disjoint sets without
  a sum. `Acquire`, `Release` and `Withdraw` keep that for any set (`Acquires`, `Releases`,
  `Withdraws`), since what they grant is a front of the queue (`Grants`).
* `ReadsInv` and `SlotsInv`: whose requests they are. Those for weight are of the documents in a
  stage that asks for it (`Asking`), and only documents that were asked for wait in the queue;
  those for windows are of the builds that wait or run.
* `LaneOK`: what a lane in a mode and a step of its consumer can have in hand, in its window, in
  its batch and with the model; a lane past its channel has nothing with its readers
  (`ClosedOK`), and one that is not over belongs to a build that runs (`RunsOK`). Without it a
  lane that ends could leave a document behind.

`WeightsReturned` is not inductive, because it is silent about the queue: what it counts depends
on who waits. The actions are about one lane each. `Becomes` says once what such a step may do:
documents that hold weight keep it or give it back, documents that wait stay, or the lane starts
anew with nothing held; each action is then a case of it.

Assumptions are `ConstantsAssumption` of each module, `BudgetAssumption` and nothing else;
TLC evaluates them in every run. Those of `CacheEviction` say that the actors, corpora,
units and sizes are finite and that corpora are no units or artifacts; those of `VectorStore`
that the blobs are finite, that no blob is the name of an unknown store, and that there is a
commit 1, from which `Init` starts; those of `GitCorpus` that there are files and blobs, that no
blob is the name of none, that there is a commit 1, and that no file is removed in its first
version; those of `ReadBudget` that the builds are finite and that the sizes and rows of their
documents are sequences of numbers. Finiteness is that of a disk and of a process table.

Proofs that failed for a good reason changed the models. `ReadsWholeGenerations` and
`MendSparesNewFamily` held in their runs because those had no evictor; they now say so.
`MissingIsNamed` is about bases that open, since the code looks at a record only for those, and
damage meets only such. The assumption on commit 1 was missing, and `VectorBuild`
lacked that `MaxShardRows` is a number. In `GitCorpus` an absent uncommitted manifest was
equal to one whose files were all kept, so a step could take one for the other. The failed
write of that manifest was not in the model: with it `StateTellsIndex` has the third
exception of section 5.3, and the proof also found that the first two were stated too narrowly.

Several results have no run of their own any more where the theorem says more: `TypeOK` of
the first three components, `LockInvariant`, `SwapExcludesReaders`, `OneBuilder`,
`EvictionSparesUse` of `CorpusLocks` and `StateNeverAhead`.

Only model-checked: the liveness properties (`EveryTaskEnds`, `ReadsOutrunBuilds`,
`MarkerClears`, `Converges`, `Ends`), which need fairness; `NobodyIsStranded` and
`NoReadWaitsForever`, which need `ENABLED`; `AloneRunFits`, which needs that the plan of an
eviction reaches its goal for every order of the corpora; and the safety properties of
`NodeGraph`. `WalkIsDetermined` compares what workers do in any order with a fold over listings
that are sorted by counting, and what such a fold computes is an induction over data; it and
`HeldOnce` also need an account of which trees of identities a disk can have.

## 5. Where the code and its texts disagree

### 5.1 A build that can wait for ever

`VectorStalls` (and `findings` in `PROJECT.json`): `caps.go:66-82` says that every
build's readers and consumers stay within the read budget, so no read waits for ever. The
text consumers do, and `BudgetFaults` shows it. The vectors consumer has no
window: its pending model batch (`semantic_build.go:585-607`) holds every file that
has a new row in it until it has 128 new rows. Rows that are reused need no call and do
not count, so a batch over large files that changed a little can hold many of them. In the
run, six files of the largest weight fill the smallest budget, the seventh waits for
weight, and the batch waits for its rows. In `BudgetFaults` the vectors lane stays within
its window, because its files fill a batch alone or are the only one.

### 5.2 Publish, repair and answers

These came up in the models of the locks, the swap and the folder; each is a reachable
behaviour, and each is left as it is in the module, with a history where a property
must except it.

| statement | what happens |
|---|---|
| `README.md:218`: searches use the last complete index during an update | After a crash in the swap of a Git node the next builder removes only the family that `.swapping` names (`swap.go:590`); until it publishes, a search that finds its lock held serves the uncommitted shards alone. |
| the same | When a folder becomes empty, `decideFolderBuild` still chooses a delta (`build_plan.go:113`), the old shards are linked into the build directory (`folder_indexer.go:270`), no builder runs (`folder_indexer.go:296`), and the swap publishes the old shards under the state of the empty folder. A search during the next update serves them. |
| `indexer.go:667-670`: normal locked readers cannot interleave with the writes of a publish; `indexer.go:690-692`: an evicted corpus discards the build | A Git plan that builds no committed family (`build_plan.go:38-40`, `indexer.go:528-532`) and stages no uncommitted one has nothing in the corpus but an open `.lock`. When that corpus is evicted and a peer makes it again, the stat of the index directory (`indexer.go:690`) succeeds. The build then removes or writes uncommitted shards (`indexer.go:785`, `1709`), `.family-v1` and `.state` in the new corpus, under the `.lock` of the old one, beside its readers and builder. A build with vectors only does the same to the text files. `SwapsOwnCorpus` does not hold for these, and is about the others. |
| the same | A build with a build directory fails there, at its list or its move, and leaves the shards alone. It may still remove the state files and the joined descriptor of the new corpus (`indexer.go:693-696` and the error returns after it). |
| `swap.go:581-584`: the repair removes the torn family and the state files, which forces a full rebuild | No removal looks at its error (`swap.go:595-600`, `indexer.go:211-214`). When the files and `.family-v1` both stay and agree by names and sizes, and `.swapping` goes, the torn family looks intact from then on. (`left`) |
| `lock.go:95-97`: the read of an evicted Git node opens `.lock` with `O_CREATE` and repairs | `O_CREATE` makes no directory: the open at `node_read.go:59` fails and the node is skipped. |
| `lock.go:121-122`: a search of a node that has shards never waits for its build | A search that waits for a first build does not look at the shards again (`lock.go:175-179`), so it waits for the update of a later builder too. |
| `folder_indexer.go:239-244`: a failure cannot have changed the published family | `publishGeneration` writes `.family-v1` and then `.state` (`swap.go:449-452`); when that write fails the new family is complete under the old `.state`. (`late`) |

`FolderCorpus` has two more histories. `missed`: a directory that moves away during a build
and back after it; its files have the stat values of the walk and stay out of the index
until they change. `passed`: a search that a peer's publish passed; its scan can find the
new family under the `.state` that it read before, so it may answer with a document of a
file that its walk did not have, though never with an older version of one. A search whose
walk, taken by the graph expansion, is older than a peer's publish publishes for the older
walk; `Converges` shows that the next search repairs this.

### 5.3 Git nodes

* `reborn`: `buildUncommittedStage` stats the files first and reads them later. A removed
  file that is restored in between gets a document but no entry in the manifest, so no
  later delta removes it. The comment at `indexer.go:798-805` says that a change
  during the build never stays hidden.
* `late` has `"state"`: a crash between a `recordFamily` and `.state` leaves new families
  under the old state, although the shards, the manifest and the state are to describe the
  same generation (`indexer.go:810`). An undone edit then takes them as current. The first
  `recordFamily` (`indexer.go:756`) does it too: a build whose start found no intact family
  names no uncommitted files there, and if there are none, or a clean has just removed
  them, family and manifest agree under the old state. A `.state` ends it.
* `late` has `"head"`: a crash after the record of an emptied committed family and before
  `.head`, or one of a later build that records that family again. The next `.head` ends it.
* `late` has `"delta"`: `publish` and `tryUncommittedDelta` log a failed
  `writeUncommittedManifest` and go on (`indexer.go:1657-1659`, `1718-1720`). The stale
  manifest has the tag of an older state. If the build then stops before `.state`, or
  writes that same state again, a later delta starts from a manifest that does not tell
  the family, and keeps the document of a removed file. The `.state` of a full build of the
  uncommitted family ends it.

`StateTellsIndex` and `Converges` except exactly these.

### 5.4 Evictions

* `gc.go:855-857` skips an eviction while a build runs, so that the builder keeps its corpus
  directory, and the comment of `touchUsed` in `lock.go:186-190` says that then no concurrent
  collection evicts it. The probe gives `.build.lock` back at `gc.go:866`, `.used` is read at
  `868`, and the rename is at `874`. A build that begins after the read of `.used` loses its
  directory; when a collection takes all and the times are of one tick, so does one that
  begins after the probe. Its publish then finds no `.lock` (`errCorpusEvicted`; the comment at
  `swap.go:434` knows of it), and the node is tried again. A warm search that touches
  `.used` in that window does not save the corpus either. `EvictionSparesUse` stops at the last
  look, and `SweepSparesBuilds` speaks of builds that ran when the evictor began.

* `overlap`: `recordCorpusSize` measures, then writes. A publish in between gives a ledger
  that is newer than the publish and has the size from before it. `cache_budget.go:156-158`
  says that a publish makes the ledger stale. A crash between a swap and `.state` does the
  same, because staleness is told by the times of `.state` and the descriptor.

### 5.5 Vectors

* `displaced`: the record of missing blobs has one place per node. A build of commit 2
  that stops after its pending record leaves the base of commit 1, when that is bound again,
  without a record, although `indexer.go:838-839` says that a generation never exists without
  one that names its missing blobs.
* `removeDamagedVectors` removes also a generation that a peer built after the damaged
  read, and does nothing when a peer builds; if that happens at each attempt, the damage
  stays (the second half of `Converges`).
* `semantic_usearch_cgo.go:370-372` says that a failed build makes no link. An error of the
  source cancels nothing: the stages end the files they have, the graph stream links its
  shards, and then the build fails with the source's error. The links are in the build
  directory, which is removed.

### 5.6 Walks

* `WalkIsDetermined` holds for twin paths that show the same tree. If something is mounted
  below one of them only, what a walk keeps depends on which was entered first, and so does
  the first root of a Git node found below a twin; the comment at `folder_walk.go:191-197`
  says that timing does not change the result.

* `graph_expand.go:40-44`: a directory whose `.git` entry Git cannot use, a broken `gitdir:` line
  for one, is a failed node with one warning, and no other node indexes its files. Git ignores
  the broken entry of an untracked directory and lists its files one by one. Only a record
  "? dir/" or a gitlink becomes a child (`git.go:152-162`), so the work tree around it indexes
  these files, with no warning. Named as an operand, the directory gets the warning, and the
  search of its work tree shows its files all the same. `HeldOnce` leaves out just this form and
  says that the work tree around it then holds them once; `GraphFaults` has it beside a
  gitlink with the same broken entry, which keeps the rule.

## 6. What is not modelled

* **Ranking, query languages and output.** BM25 and rerank scores, fusion, filters and
  formatting are functions of their input, most of them in floating point; they have no
  state that lasts and nothing runs beside them that could disturb it.
* **Models, embeddings and graph search.** Numeric and native code. What searches depend on,
  that a generation is whole, bound to its text or damaged, is in `VectorStore` and
  `VectorBuild`.
* **The protocol of `git cat-file`** and the parsers of Git's output, apart from what they
  deliver and the weights they take. A pipe that breaks is a read error in `GitCorpus` and
  `ReadBudget`.
* **File names.** Shard names, their contiguity test, path display and ignore rules are
  text processing.
* **The counter of a file's owners** in a vector build (`semanticBuildOwner`): see 2.7.
* **Repairs in parts** outside `ShardSwap`: in `CorpusLocks`, `FolderCorpus` and `GitCorpus` the
  repair of an interrupted swap is one step that removes all it should.
* **Folder vectors** apart from text, temporary manifests, the dry run of `seek gc`.
* **Platform code, assets, installer, plugins, CI.**

What proofs could still add, most useful first: `TypeOK` and `HeldOnce` of `NodeGraph`, the
second from an assumption on which paths may reach one directory; the plan of an eviction
(`AloneRunFits`).
