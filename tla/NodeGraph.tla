----------------------------- MODULE NodeGraph -----------------------------
(* The nodes of a search (graph_resolve.go, graph_expand.go, git_detect.go, *)
(* folder_walk.go, corpus.go).                                             *)
(*                                                                         *)
(* The operands of a command become seeds: Git work trees and folders.     *)
(* The expansion captures each Git tree and walks each folder, as tasks of *)
(* one group, and finds the nodes below them.  A walk has workers of its   *)
(* own that share one stack of directories.                                *)
(*                                                                         *)
(* A path is a sequence of names, and a name is its place in a listing.    *)
EXTENDS Integers, FiniteSets, Sequences, FiniteSetsExt, SequencesExt

CONSTANTS
    Dirs,         \* the directories of the disk, with every parent but "/"
    Id,           \* their file identities: two paths may reach one directory
    Entry,        \* the ".git" entry of each directory
    Bare,         \* directories that hold HEAD, objects and refs themselves
    Unreadable,   \* directories that cannot be listed
    Ignored,      \* directories that the Git tree around them ignores
    Gitlinks,     \* checked-out gitlinks in the index of the Git tree around them
    Operands,     \* the directories that the command names, in order
    Walkers,      \* indexParallelism: workers of a walk
    Slots,        \* indexParallelism: tasks that run
    FaultKinds,   \* a subset of {"git", "descriptors", "interrupt"}
    MaxFaults     \* bound: faults in one behaviour

\* A ".git" entry: what it is, what a directory holds, which Git directory a file or
\* a symbolic link names, and whether Git accepts it where the rules cannot tell.  It
\* may name "nothing", a path that is "missing", a Git directory "separate" from its
\* work tree, or that of this tree, a linked tree, a submodule or another work tree.
Entries ==
    [type : {"none", "other"}]
    \cup [type : {"dir"}, has : SUBSET {"HEAD", "objects", "refs", "commondir"}, accepted : BOOLEAN]
    \cup [type : {"file", "symlink"}, accepted : BOOLEAN,
          names : {"nothing", "missing", "separate", "tree", "linked", "module", "another", "admin"}]

ASSUME TreeAssumption ==
    /\ Dirs \subseteq Seq(Nat) \ {<<>>} /\ Id \in [Dirs -> Nat] /\ Entry \in [Dirs -> Entries]
    /\ \A d \in Dirs : (Entry[d].type \in {"file", "symlink"} /\ Entry[d].accepted) =>
                          Entry[d].names \notin {"nothing", "missing"}
    /\ Bare \cup Unreadable \cup Ignored \cup Gitlinks \subseteq Dirs /\ Operands \in Seq(Dirs)
    /\ {Walkers, Slots} \subseteq Nat \ {0} /\ MaxFaults \in Nat

Within(root, path) == IsPrefix(root, path)
Subdirs(dir)       == {d \in Dirs : Len(d) = Len(dir) + 1 /\ Within(dir, d)}

\* Names in the order of a listing; a directory sorts before what it holds.
PathLess(p, q) ==
    \/ IsStrictPrefix(p, q)
    \/ \E n \in 1..Min({Len(p), Len(q)}) :
          SubSeq(p, 1, n - 1) = SubSeq(q, 1, n - 1) /\ p[n] < q[n]

\* A set of directories in the order of a listing.
InOrder(S) == [i \in 1..Cardinality(S) |-> CHOOSE d \in S : Cardinality({e \in S : PathLess(e, d)}) = i - 1]

-----------------------------------------------------------------------------
(* Is a directory the root of a Git node?                                  *)

HasTriad(e) == {"HEAD", "refs", "objects"} \subseteq e.has

\* detectGitBoundary: what the file system confirms without Git.
Boundary(e) ==
    CASE e.type \in {"none", "other"} -> "not"
      [] e.type = "symlink" -> "ambiguous"
      [] e.type = "dir"  -> IF HasTriad(e) /\ "commondir" \notin e.has THEN "confirmed" ELSE "ambiguous"
      [] e.type = "file" -> IF e.names \in {"tree", "linked", "module"} THEN "confirmed" ELSE "ambiguous"

\* strayGitEntry: an entry that names no repository.
Stray(e) ==
    \/ e.type = "file" /\ e.names = "nothing"
    \/ /\ e.type = "dir"
       /\ "HEAD" \notin e.has \/ ("commondir" \notin e.has /\ ~({"objects", "refs"} \subseteq e.has))

\* foreignGitDir: the Git directory of another work tree.
Foreign(e) ==
    \/ e.type \in {"symlink", "file"} /\ e.names \in {"another", "admin"}
    \/ e.type = "dir" /\ "commondir" \in e.has

\* classifyGitDir: a node, content of the directory around it, or a failed node.
Classify(dir) ==
    LET e == Entry[dir]
    IN IF Boundary(e) = "confirmed" THEN "node"
       ELSE IF Boundary(e) = "not" \/ Stray(e) THEN "content"
       ELSE IF Foreign(e) \/ ~e.accepted THEN "failed" ELSE "node"

Around(dir) == {d \in Dirs : Within(d, dir) /\ d # dir}
IsRoot(dir) == Classify(dir) # "content"

\* The last of the directories around dir that are in S.
Nearest(dir, S) == IF Around(dir) \cap S = {} THEN <<>>
                   ELSE CHOOSE d \in Around(dir) \cap S : \A r \in Around(dir) \cap S : Within(r, d)

\* Git takes the entry for a repository, whether it can use it or not.
Recognised(e) == e.type = "dir" \/ e.names \notin {"nothing", "missing"}

\* Git lists two forms as one record: a gitlink of its index, whatever its ".git" entry,
\* and an untracked directory with an entry that it recognises ("? dir/").
IsListed(dir) == IsRoot(dir) /\ (dir \in Gitlinks \/ Recognised(Entry[dir]))
Listed        == {d \in Dirs : IsListed(d)}

\* The tree whose git status lists the files of a directory: an untracked directory
\* with an entry that Git does not recognise is listed file by file.
Lister(dir)    == IF IsListed(dir) THEN dir ELSE Nearest(dir, Listed)
IsIgnored(dir) == \E t \in Ignored : Within(t, dir) /\ Nearest(t, Listed) = Nearest(dir, Listed)
Nested         == [root \in Dirs |-> {d \in Listed : Nearest(d, Listed) = root /\ ~IsIgnored(d)}]

-----------------------------------------------------------------------------
(* resolveOperands.                                                        *)

\* operandRepo walks up to the first entry that is no stray one.
RepoOf(dir)    == IF IsRoot(dir) THEN dir ELSE Nearest(dir, {d \in Dirs : IsRoot(d)})
Failed(dir)    == RepoOf(dir) # <<>> /\ Classify(RepoOf(dir)) = "failed"
IsGitSeed(dir) == RepoOf(dir) # <<>> /\ ~Failed(dir) /\ (RepoOf(dir) = dir \/ ~IsIgnored(dir))

Named       == Range(Operands)
GitSeeds    == {o \in Named : IsGitSeed(o)}
FolderSeeds == {o \in Named : ~Failed(o) /\ o \notin GitSeeds}

\* addFolderNode: of two operands with one identity, the first makes the node.
FolderRoots ==
    {o \in FolderSeeds : \E i \in DOMAIN Operands :
        Operands[i] = o /\ \A j \in 1..(i - 1) : Operands[j] \in FolderSeeds => Id[Operands[j]] # Id[o]}

-----------------------------------------------------------------------------

VARIABLES
    git,      \* identity -> Git node: its first root, its operands, what Git listed
    walks,    \* folder root -> its walk
    waiting, running,  \* tasks that wait for a slot, and tasks that have one
    warned,   \* roots with a warning
    canceled, \* the context of the group
    result,
    faults

vars == <<git, walks, waiting, running, warned, canceled, result, faults>>

GitTask(id)         == [do |-> "capture", id |-> id]
WalkTask(root)      == [do |-> "walk", root |-> root]
ChildTask(root, d)  == [do |-> "child", parent |-> root, dir |-> d]
Ids == Range(Id)

IsTask(t) ==
    \/ t \in [do : {"capture"}, id : Ids]
    \/ t \in [do : {"walk"}, root : Dirs]
    \/ t \in [do : {"child"}, parent : Dirs, dir : Dirs]

GitNodes == [root : Dirs, operands : SUBSET Dirs, captured : BOOLEAN, emitted : SUBSET Dirs]
Jobs     == [dir : Dirs, at : {"open", "push"}, left : Seq(Dirs)]

TypeOK ==
    /\ DOMAIN git \subseteq Ids /\ \A i \in DOMAIN git : git[i] \in GitNodes
    /\ DOMAIN walks = FolderRoots
    /\ \A r \in FolderRoots :
          /\ walks[r].at \in {"queued", "walk", "roots", "captured", "failed"}
          /\ walks[r].queue \in Seq(Dirs) /\ walks[r].roots \in Seq(Dirs)
          /\ (\A job \in walks[r].busy : job \in Jobs) /\ Cardinality(walks[r].busy) <= Walkers
          /\ walks[r].dirs \cup walks[r].skip \subseteq Dirs /\ DOMAIN walks[r].visited \subseteq Ids
          /\ walks[r].error \in {"none", "root", "environment"}
    /\ (\A t \in waiting \cup running : IsTask(t)) /\ Cardinality(running) <= Slots
    /\ warned \subseteq Dirs /\ canceled \in BOOLEAN
    /\ result \in {"none", "planned", "error"} /\ faults \in 0..MaxFaults

NewWalk == [at |-> "queued", queue |-> <<>>, busy |-> {}, visited |-> <<>>, dirs |-> {}, skip |-> {},
            roots |-> <<>>, error |-> "none"]

\* The seeds.  Each operand of a Git tree is a scope of its node.
Init ==
    LET seeds == {Id[RepoOf(o)] : o \in GitSeeds}
        Of(i) == {o \in GitSeeds : Id[RepoOf(o)] = i}
        Root(i) == RepoOf(CHOOSE o \in Of(i) : TRUE)
    IN /\ git = [i \in seeds |-> [root |-> Root(i), captured |-> FALSE, emitted |-> {},
                                  operands |-> {o \in Of(i) : \A p \in Of(i) : Within(p, o) => p = o}]]
       /\ walks = [r \in FolderRoots |-> NewWalk]
       /\ waiting = {GitTask(i) : i \in seeds} \cup {WalkTask(r) : r \in FolderRoots}
       /\ running = {} /\ warned = {o \in Named : Failed(o)}
       /\ canceled = FALSE /\ result = "none" /\ faults = 0

Fault(kind) == kind \in FaultKinds /\ faults < MaxFaults /\ faults' = faults + 1

\* nodeError: a canceled expansion says nothing.
Skip(root) == warned' = IF canceled THEN warned ELSE warned \cup {root}

-----------------------------------------------------------------------------
(* Git nodes.                                                              *)

\* childrenInScope: what a captured node lists inside its operands, each once.
Fresh(node) ==
    IF node.captured
    THEN {d \in Nested[node.root] \ node.emitted : \E o \in node.operands : Within(o, d)}
    ELSE {}

Emit(node) == [node EXCEPT !.emitted = @ \cup Fresh(node)]

\* The operands of a node move onto its first root.
Moved(root, first, path) ==
    IF Within(root, path) THEN first \o SubSeq(path, Len(root) + 1, Len(path)) ELSE path

\* Mutant: a wider scope asks for no more children.
AddGitNodeOnly(nodes, root, path) ==
    LET i    == Id[root]
        node == IF i \in DOMAIN nodes THEN nodes[i]
                ELSE [root |-> root, operands |-> {}, captured |-> FALSE, emitted |-> {}]
        wide == [node EXCEPT !.operands = @ \cup {Moved(root, node.root, path)}]
    IN [git   |-> [j \in DOMAIN nodes \cup {i} |-> IF j = i THEN wide ELSE nodes[j]],
        tasks |-> IF i \in DOMAIN nodes THEN {} ELSE {GitTask(i)}]

\* addGitNode: a new node gets a task; a wider scope may hold more children.
AddGitNode(nodes, root, path) ==
    LET i     == Id[root]
        node  == IF i \in DOMAIN nodes THEN nodes[i]
                 ELSE [root |-> root, operands |-> {}, captured |-> FALSE, emitted |-> {}]
        moved == Moved(root, node.root, path)
        wide  == IF \E o \in node.operands : Within(o, moved) THEN node
                 ELSE [node EXCEPT !.operands = @ \cup {moved}]
    IN [git   |-> [j \in DOMAIN nodes \cup {i} |-> IF j = i THEN Emit(wide) ELSE nodes[j]],
        tasks |-> {ChildTask(node.root, d) : d \in Fresh(wide)}
                  \cup (IF i \in DOMAIN nodes THEN {} ELSE {GitTask(i)})]

\* Mutant: a task starts whatever the slots hold.
StartFreely(t) ==
    /\ t \in waiting
    /\ running' = running \cup {t} /\ waiting' = waiting \ {t}
    /\ UNCHANGED <<git, walks, warned, canceled, result, faults>>

\* run: a task waits for a slot in its own goroutine, or for the end of the group.
Start(t) ==
    /\ t \in waiting /\ waiting' = waiting \ {t}
    /\ \/ Cardinality(running) < Slots /\ running' = running \cup {t}
       \/ canceled /\ UNCHANGED running
    /\ UNCHANGED <<git, walks, warned, canceled, result, faults>>

\* expandGitNode
Capture(t) ==
    /\ t \in running /\ t.do = "capture" /\ running' = running \ {t}
    /\ LET node == [git[t.id] EXCEPT !.captured = TRUE]
       IN \/ /\ git' = [git EXCEPT ![t.id] = Emit(node)]
             /\ waiting' = waiting \cup {ChildTask(node.root, d) : d \in Fresh(node)}
             /\ UNCHANGED <<warned, faults>>
          \/ Fault("git") /\ Skip(node.root) /\ UNCHANGED <<git, waiting>>
          \/ canceled /\ UNCHANGED <<git, waiting, warned, faults>>
    /\ UNCHANGED <<walks, canceled, result>>

\* addGitChild
AddChild(t) ==
    /\ t \in running /\ t.do = "child" /\ running' = running \ {t}
    /\ LET added == AddGitNode(git, t.dir, t.dir)
       IN \/ Classify(t.dir) = "node" /\ git' = added.git /\ waiting' = waiting \cup added.tasks
             /\ UNCHANGED warned
          \/ Classify(t.dir) = "failed" /\ Skip(t.dir) /\ UNCHANGED <<git, waiting>>
    /\ UNCHANGED <<walks, canceled, result, faults>>

-----------------------------------------------------------------------------
(* The walk of a folder.                                                   *)

Walking(r) == r \in FolderRoots /\ WalkTask(r) \in running /\ walks[r].at = "walk"

Walk(r, walk) == walks' = [walks EXCEPT ![r] = walk]

\* walkFolderNode
StartWalk(r) ==
    /\ r \in FolderRoots /\ WalkTask(r) \in running /\ walks[r].at = "queued"
    /\ Walk(r, [walks[r] EXCEPT !.at = "walk", !.queue = <<r>>])
    /\ UNCHANGED <<git, waiting, running, warned, canceled, result, faults>>

\* next: a worker takes the directory that was queued last.
NextJob(r) ==
    /\ Walking(r) /\ walks[r].queue # <<>> /\ walks[r].error = "none"
    /\ Cardinality(walks[r].busy) < Walkers
    /\ Walk(r, [walks[r] EXCEPT !.queue = Front(@),
                                !.busy = @ \cup {[dir |-> Last(walks[r].queue), at |-> "open", left |-> <<>>]}])
    /\ UNCHANGED <<git, waiting, running, warned, canceled, result, faults>>

\* Mutant: the first path to a directory keeps it.
EntersFirst(walk, dir) == Id[dir] \notin DOMAIN walk.visited

\* claim: of two paths to one directory the smallest wins, and a loop is cut.
Enters(walk, dir) ==
    Id[dir] \in DOMAIN walk.visited => PathLess(dir, walk.visited[Id[dir]])

\* folderBoundaries.claim: the directory is not content of this node.
IsBoundary(r, dir) == dir # r /\ (IsRoot(dir) \/ (Entry[dir].type = "none" /\ dir \in Bare))

Claimed(walk, dir) ==
    [i \in DOMAIN walk.visited \cup {Id[dir]} |-> IF i = Id[dir] THEN dir ELSE walk.visited[i]]

ListingOf == [dir \in Dirs |-> InOrder(Subdirs(dir))]

\* visit, up to the subdirectories.
Visit(r, job) ==
    LET walk == walks[r]
        dir  == job.dir
        done == [walk EXCEPT !.busy = @ \ {job}]
        into == [walk EXCEPT !.visited = Claimed(walk, dir)]
    IN /\ Walking(r) /\ job \in walk.busy /\ job.at = "open"
       /\ \/ /\ canceled /\ Walk(r, [done EXCEPT !.error = "environment"]) /\ UNCHANGED <<warned, faults>>
          \/ /\ ~canceled /\ Fault("descriptors")
             /\ Walk(r, [done EXCEPT !.error = IF @ = "none" THEN "environment" ELSE @])
             /\ UNCHANGED warned
          \/ /\ ~canceled /\ dir \in Unreadable /\ UNCHANGED <<warned, faults>>
             /\ Walk(r, IF dir = r THEN [done EXCEPT !.error = "root"]
                        ELSE [done EXCEPT !.skip = @ \cup {dir}])
          \/ /\ ~canceled /\ dir \notin Unreadable /\ ~Enters(walk, dir)
             /\ Walk(r, done) /\ UNCHANGED <<warned, faults>>
          \/ /\ ~canceled /\ dir \notin Unreadable /\ Enters(walk, dir) /\ UNCHANGED faults
             /\ IF ~IsBoundary(r, dir)
                THEN /\ Walk(r, [into EXCEPT !.busy = (@ \ {job}) \cup
                                     {[dir |-> dir, at |-> "push", left |-> ListingOf[dir]]}])
                     /\ UNCHANGED warned
                ELSE /\ Walk(r, [into EXCEPT !.busy = @ \ {job}, !.skip = @ \cup {dir},
                                    !.roots = IF Classify(dir) = "node" THEN Append(@, dir) ELSE @])
                     /\ IF Classify(dir) = "failed" THEN Skip(dir) ELSE UNCHANGED warned
       /\ UNCHANGED <<git, waiting, running, canceled, result>>

\* visit queues the subdirectories one by one, and ends with the result.
Push(r, job) ==
    /\ Walking(r) /\ job \in walks[r].busy /\ job.at = "push"
    /\ Walk(r, IF job.left # <<>>
               THEN [walks[r] EXCEPT !.queue = Append(@, Head(job.left)),
                                     !.busy = (@ \ {job}) \cup {[job EXCEPT !.left = Tail(@)]}]
               ELSE [walks[r] EXCEPT !.dirs = @ \cup {job.dir}, !.busy = @ \ {job}])
    /\ UNCHANGED <<git, waiting, running, warned, canceled, result, faults>>

\* result: a directory that lost its identity to a smaller path is dropped.
KeptDirs(walk) == {d \in walk.dirs : walk.visited[Id[d]] = d}

\* Mutant: the workers stop only when no directory is left.
StoppedWhenDrained(walk) == walk.busy = {} /\ walk.queue = <<>>

Stopped(walk) == walk.busy = {} /\ (walk.queue = <<>> \/ walk.error # "none")

\* A root that cannot be read fails its node; an environment failure ends the group.
EndWalk(r) ==
    /\ Walking(r) /\ Stopped(walks[r])
    /\ IF walks[r].error = "none" /\ ~canceled
       THEN /\ Walk(r, [walks[r] EXCEPT !.at = "roots", !.dirs = KeptDirs(walks[r])])
            /\ UNCHANGED <<running, warned, canceled>>
       ELSE /\ Walk(r, [walks[r] EXCEPT !.at = "failed", !.queue = <<>>])
            /\ running' = running \ {WalkTask(r)}
            /\ canceled' = (canceled \/ walks[r].error = "environment")
            /\ IF walks[r].error = "root" THEN Skip(r) ELSE UNCHANGED warned
    /\ UNCHANGED <<git, waiting, result, faults>>

\* addFolderNode: the Git roots of the walk become nodes.
AddRoots(r) ==
    /\ r \in FolderRoots /\ walks[r].at = "roots"
    /\ IF walks[r].roots # <<>>
       THEN LET root == Head(walks[r].roots)
                added == AddGitNode(git, root, root)
            IN /\ git' = added.git /\ waiting' = waiting \cup added.tasks
               /\ Walk(r, [walks[r] EXCEPT !.roots = Tail(@)]) /\ UNCHANGED running
       ELSE /\ Walk(r, [walks[r] EXCEPT !.at = "captured"])
            /\ running' = running \ {WalkTask(r)} /\ UNCHANGED <<git, waiting>>
    /\ UNCHANGED <<warned, canceled, result, faults>>

-----------------------------------------------------------------------------
(* The nodes of the search.                                                *)

\* folderNodeCovered: the walk of another folder node reaches the root.
Covered(r) ==
    \E other \in FolderRoots \ {r} :
        /\ walks[other].at = "captured" /\ Within(other, r)
        /\ \A d \in Around(r) \cup {r} : d \notin walks[other].skip

\* plans
PlannedFolders == {r \in FolderRoots : walks[r].at = "captured" /\ ~Covered(r)}
PlannedGit     == {i \in DOMAIN git : git[i].captured}

Interrupt ==
    /\ result = "none" /\ Fault("interrupt") /\ canceled' = TRUE
    /\ UNCHANGED <<git, walks, waiting, running, warned, result>>

Plan ==
    /\ result = "none" /\ waiting = {} /\ running = {}
    /\ result' = IF canceled THEN "error" ELSE "planned"
    /\ UNCHANGED <<git, walks, waiting, running, warned, canceled, faults>>

Step ==
    \/ \E t \in waiting : Start(t)
    \/ \E t \in running : Capture(t) \/ AddChild(t)
    \/ \E r \in FolderRoots : StartWalk(r) \/ NextJob(r) \/ EndWalk(r) \/ AddRoots(r)
    \/ \E r \in FolderRoots : \E job \in walks[r].busy : Visit(r, job) \/ Push(r, job)
    \/ Plan

Next == Step \/ Interrupt \/ (result # "none" /\ UNCHANGED vars)

\* The scheduler runs every task and every worker that can go on; no fault has to happen.
Spec == Init /\ [][Next]_vars /\ WF_vars(Step /\ faults' = faults)

-----------------------------------------------------------------------------
(* Properties.                                                             *)

\* A walk by one worker, in the order of the listings.
WalkInOrder == [r \in FolderRoots |->
    LET below == InOrder({d \in Dirs : Within(r, d)})
        Enter(acc, d) ==
            IF (d # r /\ Front(d) \notin acc.dirs) \/ d \in Unreadable \/ Id[d] \in acc.ids THEN acc
            ELSE [ids |-> acc.ids \cup {Id[d]}, dirs |-> IF IsBoundary(r, d) THEN acc.dirs ELSE acc.dirs \cup {d}]
    IN FoldLeft(Enter, [ids |-> {}, dirs |-> {}], below).dirs]

\* folder_walk.go: the timing of the workers changes no walk.  Each walk keeps what one
\* worker keeps that goes in order, although a larger path to a directory may be
\* entered first and its subdirectories queued.
WalkIsDetermined ==
    \A r \in FolderRoots : walks[r].at = "captured" => walks[r].dirs = WalkInOrder[r]

\* A failed root that Git lists file by file: its work tree takes it for plain content.
IsPlain(dir) == Classify(dir) = "failed" /\ Lister(dir) \notin {dir, <<>>}

\* What a search of the operand owes: the directories below it, without those at or
\* below a failed or unreadable directory, a bare repository or an ignored directory.
Reached(o) ==
    {d \in Dirs : Within(o, d) /\
        \A t \in {d} \cup (Around(d) \ Around(o)) :
            /\ t \notin Unreadable /\ (Classify(t) = "failed" => IsPlain(t))
            /\ t # o => t \notin Bare \cup Ignored}

\* A warning names the root of the node that the directory belonged to.
Told(o, d) == \E w \in warned : Within(w, d) /\ (Within(o, w) \/ w \in {RepoOf(o), Lister(o)})

FolderHolds(r) == {Id[d] : d \in walks[r].dirs}
GitHolds(i)    == {Id[d] : d \in {e \in Dirs : Lister(e) = git[i].root /\ ~IsIgnored(e) /\
                                   \E o \in git[i].operands : Within(o, e)}}
Holders(id)    == {<<"folder", r>> : r \in {s \in PlannedFolders : id \in FolderHolds(s)}}
                  \cup {<<"git", git[i].root>> : i \in {j \in PlannedGit : id \in GitHolds(j)}}

\* The header of graph_expand.go: whatever the order of the tasks, each directory that
\* an operand reaches belongs to exactly one node or lies in a node that was named in
\* a warning, and no node holds the files of a failed one.  The code breaks the last
\* part for one form, which is left out here: the work tree around an untracked
\* directory with a broken ".git" entry holds its files, and may be the only one that
\* does, with or without a warning.
HeldOnce ==
    result = "planned" =>
        /\ \A o \in Named : \A d \in Reached(o) : Told(o, d) \/ Cardinality(Holders(Id[d])) = 1
        /\ \A w \in warned : Holders(Id[w]) \subseteq
              {<<"git", Lister(t)>> : t \in {u \in Around(w) \cup {w} : IsPlain(u)}}

\* A task that starts tasks never waits for their slots: the expansion ends.
Ends == <>(result # "none")

=============================================================================
