--------------------------- MODULE CacheEviction ---------------------------
(***************************************************************************)
(* The one limit on the disk that the indexes use (cache_budget.go) and    *)
(* the garbage collection (gc.go, gc_cmd.go).  Searches record the size of *)
(* each corpus in a ledger, and evict what is least recently used until    *)
(* the cache fits; collections do so too, and sweep what crashes left.     *)
(*                                                                         *)
(* Time is the modification time that the file system stores: two events   *)
(* of one tick have one time.  An eviction takes .lock of its corpus and   *)
(* finds .build.lock free, then reads .used, then renames the directory;   *)
(* builds begin in between.  What else the flocks of a corpus do is        *)
(* CorpusLocks.                                                            *)
(***************************************************************************)
EXTENDS Naturals, FiniteSets, FiniteSetsExt

CONSTANTS
    Corpora,     \* numbered in the order of their names
    Units,       \* segments of the store of superseded vectors
    Artifacts,   \* retired runtimes and compiled models
    Searches,
    Uses,        \* the corpora of each search
    Collections, \* seek gc, or the collection after a search
    All,         \* the collections that evict all (seek gc --all)
    Bytes,       \* bound: sizes of a corpus
    Budget,      \* SEEK_CACHE_BUDGET, or 0: the rule of the volume
    Capacity,    \* of the volume
    Others,      \* bytes on the volume that are not Seek's
    MaxAge,      \* providerArtifactMaxAge, buildTmpMaxAge
    MaxTime,     \* bound: ticks
    MaxRuns,     \* bound: runs of searches and collections
    FaultKinds,  \* a subset of {"crash", "remove", "timeout"}
    MaxFaults    \* bound: faults in one behaviour

Actors == Searches \cup Collections
Never  == 0           \* the time of a file that is not there
Old    == 1           \* before every command

Times   == 0..MaxTime

\* A corpus directory: its bytes without the ledger and the build directories,
\* the last write of a published record, .used, .size and the time of its write,
\* and the time of a build directory.
CorpusDirs == [there : BOOLEAN, bytes : Bytes \cup {0}, published : Times, used : Times,
               size : Bytes \cup {0}, sized : Times, build : Times]
NoOne == 0
NoCorpus == [there |-> FALSE, bytes |-> 0, published |-> Never, used |-> Never,
             size |-> 0, sized |-> Never, build |-> Never]

ASSUME ConstantsAssumption ==
    /\ Corpora \subseteq Nat \ {0}
    /\ Uses \in [Searches -> SUBSET Corpora] /\ All \subseteq Collections
    /\ Searches \cap Collections = {}
    /\ Bytes \subseteq Nat \ {0} /\ Bytes # {}
    /\ {Budget, Capacity, Others, MaxAge, MaxTime, MaxRuns, MaxFaults} \subseteq Nat
    /\ MaxTime > Old
    /\ IsFiniteSet(Actors) /\ IsFiniteSet(Corpora) /\ IsFiniteSet(Units) /\ IsFiniteSet(Bytes)
    /\ Corpora \cap (Units \cup Artifacts) = {}

VARIABLES
    now, corpora,
    units,     \* the segments that are there; each has one byte
    trash,     \* bytes in .trash
    artifacts, \* of each: when it was used, and what is at its path
    stamp,     \* the time of .last-gc
    pc, goal,  \* where an actor is, and why it reads ledgers
    started,   \* processStarted
    at,        \* the corpus that an actor works on
    todo,      \* the corpora that it still has to work on
    listed,    \* usedAt of each corpus on its list, or Never
    sizes,     \* the sizes that it read
    measured,  \* bytes that it has measured, or has moved to .trash to remove
    plan,      \* what it evicts
    runs, faults,
    overlap,   \* history: corpora whose ledger was measured before a publish and
               \* written after it, or whose publish a crash cut
    touched,   \* history: the corpora used since an actor began, but not those that
               \* it renames now
    alone      \* history: the actor whose run nobody joined and no fault met

diskVars  == <<corpora, units, trash, artifacts, stamp>>
listVars  == <<started, listed, sizes, plan, runs>>
actorVars == <<pc, goal, at, todo, measured, listVars>>
histVars  == <<overlap, touched, alone>>
vars == <<now, corpora, units, trash, artifacts, stamp, pc, goal, started, at, todo, listed,
          sizes, measured, plan, runs, faults, overlap, touched, alone>>

InSearch     == {"search", "building", "lost", "swapped", "reading"}
InEviction   == {"ledger", "write", "list", "plan", "evict", "look", "rename", "remove", "units",
                 "drain"}
InCollection == {"trash", "orphans", "probed", "artifacts", "retire", "stamp"} \cup InEviction

TypeOK ==
    /\ now \in Times /\ corpora \in [Corpora -> CorpusDirs] /\ units \subseteq Units
    /\ trash \in Nat /\ stamp \in Times
    /\ artifacts \in [Artifacts -> [used : Times, path : {"none", "whole", "part"}, marked : BOOLEAN]]
    /\ \A a \in Searches : pc[a] \in {"start"} \cup InSearch \cup InEviction
    /\ \A a \in Collections : pc[a] \in {"start", "gate"} \cup InCollection
    /\ Cardinality({a \in Collections : pc[a] \in InCollection}) <= 1 \* gc.lock
    /\ goal \in [Actors -> {"none", "check", "total", "record", "plan"}]
    /\ started \in [Actors -> Times] /\ at \in [Actors -> Corpora \cup {NoOne}]
    /\ todo \in [Actors -> SUBSET Corpora] /\ listed \in [Actors -> [Corpora -> Times]]
    /\ sizes \in [Actors -> [Corpora -> Bytes \cup {0}]] /\ measured \in [Actors -> Bytes \cup {0}]
    /\ plan \in [Actors -> SUBSET (Corpora \cup Units \cup Artifacts)]
    /\ \A a \in Actors : pc[a] = "remove" => measured[a] <= trash
    /\ runs \in 0..MaxRuns /\ faults \in 0..MaxFaults /\ overlap \subseteq Corpora
    /\ touched \in [Actors -> SUBSET Corpora] /\ alone \subseteq Actors

NotListed == [d \in Corpora |-> Never]
NoSizes   == [d \in Corpora |-> 0]

\* An old cache: crashes left ledgers unwritten, build directories and trash.
Init ==
    /\ now = Old + 1
    /\ corpora \in [Corpora -> {NoCorpus} \cup
          [there : {TRUE}, bytes : {Max(Bytes)}, published : {Old}, used : {Old}, size : {0},
           sized : {Never}, build : {Never}]]
    /\ units = Units /\ trash = 1
    /\ artifacts = [r \in Artifacts |-> [used |-> Old, path |-> "whole", marked |-> FALSE]]
    /\ stamp = Never
    /\ pc = [a \in Actors |-> "start"] /\ goal = [a \in Actors |-> "none"]
    /\ started = [a \in Actors |-> Never] /\ at = [a \in Actors |-> NoOne]
    /\ todo = [a \in Actors |-> {}] /\ listed = [a \in Actors |-> NotListed]
    /\ sizes = [a \in Actors |-> NoSizes] /\ measured = [a \in Actors |-> 0]
    /\ plan = [a \in Actors |-> {}]
    /\ runs = 0 /\ faults = 0
    /\ overlap = {} /\ touched = [a \in Actors |-> {}] /\ alone = {}

Tick ==
    /\ now < MaxTime
    /\ now' = now + 1
    /\ UNCHANGED <<diskVars, actorVars, faults, histVars>>

-----------------------------------------------------------------------------
(* Sizes and locks.                                                        *)

Sum(f)  == MapThenSumSet(LAMBDA d : f[d], Corpora)
Present == {d \in Corpora : corpora[d].there}

\* Mutant: an equal time is fresh.
StaleIfOlder(d) ==
    /\ corpora[d].published # Never
    /\ corpora[d].sized = Never \/ corpora[d].sized < corpora[d].published

\* ledgerStale: an equal time is stale.
LedgerStale(d) ==
    /\ corpora[d].published # Never
    /\ corpora[d].sized = Never \/ corpora[d].sized <= corpora[d].published

\* corpusSize measures again, or reads the ledger.
NeedsMeasure(d) == corpora[d].there /\ (LedgerStale(d) \/ corpora[d].sized = Never)

Least(x, y) == IF x < y THEN x ELSE y
Minus(x, y) == IF x < y THEN 0 ELSE x - y

FreeBytes ==
    Minus(Capacity, Others + trash + Cardinality(units) + Sum([d \in Corpora |-> corpora[d].bytes]))

\* budgetFromVolume: 10 % of the volume, or what keeps 5 % of it free.
CacheBudget(total) ==
    IF Budget # 0 THEN Budget
    ELSE Least(Capacity \div 10, Minus(total + FreeBytes, Capacity \div 20))

\* The flocks: a search reads or builds a corpus, and one search builds it.
Building(d) == \E s \in Searches : pc[s] \in {"building", "swapped"} /\ at[s] = d
Held(d)     == \E s \in Searches : pc[s] \in {"building", "swapped", "reading"} /\ at[s] = d

\* An eviction has .lock of the corpus: no read begins, and no swap.
Taken(d) == \E a \in Actors : pc[a] \in {"look", "rename"} /\ at[a] = d

-----------------------------------------------------------------------------
(* Steps of every actor.                                                   *)

\* Nobody else's run is alone any more.
Alone(a) == alone' = alone \cap {a}

Goto(a, step) == pc' = [pc EXCEPT ![a] = step]

\* An actor takes the corpora in the order of their names.  (The nodes of a search
\* and the reads of ledgers run side by side; they meet others here.)
IsNext(a, d) == d \in todo[a] /\ \A e \in todo[a] : d <= e

\* The run ends, and the process with it.
End(a) ==
    /\ Goto(a, "start")
    /\ goal' = [goal EXCEPT ![a] = "none"] /\ at' = [at EXCEPT ![a] = NoOne]
    /\ todo' = [todo EXCEPT ![a] = {}] /\ listed' = [listed EXCEPT ![a] = NotListed]
    /\ sizes' = [sizes EXCEPT ![a] = NoSizes] /\ measured' = [measured EXCEPT ![a] = 0]
    /\ plan' = [plan EXCEPT ![a] = {}] /\ UNCHANGED runs
    /\ started' = [started EXCEPT ![a] = Never] /\ touched' = [touched EXCEPT ![a] = {}]

\* A search measures the corpora that it uses, for checkCacheBudget.
Begin(a) ==
    /\ pc[a] = "start"
    /\ runs < MaxRuns /\ runs' = runs + 1
    /\ started' = [started EXCEPT ![a] = now]
    /\ alone' = IF \A b \in Actors : pc[b] = "start" THEN {a} ELSE {}
    /\ IF a \in Searches
       THEN /\ Goto(a, "ledger") /\ goal' = [goal EXCEPT ![a] = "check"]
            /\ todo' = [todo EXCEPT ![a] = Uses[a] \cap Present]
       ELSE Goto(a, "gate") /\ UNCHANGED <<goal, todo>>
    /\ UNCHANGED <<now, diskVars, at, listed, sizes, measured, plan, faults, overlap, touched>>

\* corpusSize with a fresh ledger, or of a corpus that has gone.
ReadLedger(a, d) ==
    /\ pc[a] = "ledger" /\ IsNext(a, d) /\ ~NeedsMeasure(d)
    /\ sizes' = [sizes EXCEPT ![a][d] = corpora[d].size]
    /\ todo' = [todo EXCEPT ![a] = @ \ {d}]
    /\ Alone(a)
    /\ UNCHANGED <<now, diskVars, pc, goal, at, started, listed, measured, plan, runs, faults, overlap, touched>>

\* recordCorpusSize: the sum of the files, then .size.
Measure(a, d) ==
    /\ pc[a] = "ledger" /\ IsNext(a, d) /\ NeedsMeasure(d)
    /\ measured' = [measured EXCEPT ![a] = corpora[d].bytes]
    /\ sizes' = [sizes EXCEPT ![a][d] = corpora[d].bytes]
    /\ at' = [at EXCEPT ![a] = d]
    /\ Goto(a, "write")
    /\ Alone(a)
    /\ UNCHANGED <<now, diskVars, goal, todo, started, listed, plan, runs, faults, overlap, touched>>

\* A measure of d that another actor has still to write, if it is of other bytes.
Pending(a, d) ==
    {e \in {d} : \E b \in Actors \ {a} : pc[b] = "write" /\ at[b] = d /\ measured[b] # corpora[d].bytes}

\* The write fails in a directory that has gone.
WriteLedger(a) ==
    /\ pc[a] = "write"
    /\ LET d == at[a]
       IN /\ corpora' = IF corpora[d].there
                        THEN [corpora EXCEPT ![d].size = measured[a], ![d].sized = now]
                        ELSE corpora
          /\ overlap' = IF measured[a] = corpora[d].bytes THEN (overlap \ {d}) \cup Pending(a, d)
                        ELSE overlap
          /\ todo' = [todo EXCEPT ![a] = @ \ {d}]
    /\ at' = [at EXCEPT ![a] = NoOne] /\ measured' = [measured EXCEPT ![a] = 0]
    /\ Goto(a, "ledger")
    /\ Alone(a)
    /\ UNCHANGED <<now, units, trash, artifacts, stamp, goal, listVars, faults, touched>>

-----------------------------------------------------------------------------
(* A search.                                                               *)

\* The nodes that the search will build: the estimate of each node asks what the
\* build will ask, and the answer can change in between.
Rebuilds(s) == SUBSET Uses[s]

\* The size of a node after its build, from the bytes of the changed documents.
Estimates(rebuilt) == [rebuilt -> Bytes]

\* plannedCacheBytes: what the search rebuilds counts as estimated.
Planned(s, rebuilt, estimate) ==
    MapThenSumSet(LAMBDA d : IF d \in rebuilt THEN estimate[d] ELSE sizes[s][d], Uses[s])

PassBudget(s) ==
    /\ Goto(s, "search") /\ goal' = [goal EXCEPT ![s] = "none"]
    /\ todo' = [todo EXCEPT ![s] = Uses[s]] /\ sizes' = [sizes EXCEPT ![s] = NoSizes]
    /\ UNCHANGED <<at, measured, started, listed, plan, runs, touched>>

\* checkCacheBudget before any build.  The budget of an empty cache is tried
\* first, with no list of the corpora.
CheckBudget(s) ==
    /\ pc[s] = "ledger" /\ goal[s] \in {"check", "total"} /\ todo[s] = {}
    /\ \E rebuilt \in Rebuilds(s) : \E estimate \in Estimates(rebuilt) :
          LET budget == CacheBudget(IF goal[s] = "check" THEN 0
                                    ELSE Sum(sizes[s]) + Cardinality(units))
              fits   == rebuilt = {} \/ Planned(s, rebuilt, estimate) <= budget
          IN \/ fits /\ PassBudget(s)
             \/ /\ ~fits /\ goal[s] = "check"
                /\ goal' = [goal EXCEPT ![s] = "total"] /\ todo' = [todo EXCEPT ![s] = Present]
                /\ UNCHANGED <<pc, at, measured, listVars, touched>>
             \/ ~fits /\ goal[s] = "total" /\ End(s)
    /\ Alone(s)
    /\ UNCHANGED <<now, diskVars, faults, overlap>>

\* touchUsed; the corpus counts as used for every command that runs, except for an
\* eviction that has read its .used and renames it.
Touch(d, dirs) ==
    /\ corpora' = [dirs EXCEPT ![d].used = now]
    /\ touched' = [a \in Actors |-> IF pc[a] = "start" THEN {}
                                   ELSE IF pc[a] = "rename" /\ at[a] = d THEN touched[a]
                                   ELSE touched[a] \cup {d}]

Work(s, d, step) ==
    /\ at' = [at EXCEPT ![s] = d]
    /\ Goto(s, step)
    /\ Alone(s)
    /\ UNCHANGED <<now, units, trash, artifacts, stamp, goal, measured, listVars, faults>>

\* refreshState, acquireBuildLock: the directory, the lock and .used, and a
\* directory for the build.  An eviction does not hold .build.lock.
StartBuild(s, d) ==
    /\ pc[s] = "search" /\ IsNext(s, d) /\ ~Building(d)
    /\ Touch(d, [corpora EXCEPT ![d] =
          [(IF corpora[d].there THEN corpora[d] ELSE NoCorpus) EXCEPT !.there = TRUE, !.build = now]])
    /\ Work(s, d, "building")
    /\ UNCHANGED <<todo, overlap>>

\* The corpus went away before the publish (errCorpusEvicted): the node is tried
\* again.
LoseBuild(s) ==
    /\ pc[s] = "lost"
    /\ Work(s, NoOne, "search")
    /\ UNCHANGED <<corpora, todo, overlap, touched>>

\* The swap, under .lock, changes the bytes of the corpus.
SwapFamily(s) ==
    /\ pc[s] = "building" /\ ~Taken(at[s])
    /\ \E b \in Bytes :
          corpora' = [corpora EXCEPT ![at[s]].bytes = b, ![at[s]].build = Never]
    /\ Goto(s, "swapped")
    /\ Alone(s)
    /\ UNCHANGED <<now, units, trash, artifacts, stamp, goal, at, todo, measured, listVars, faults,
                   overlap, touched>>

\* .state and the other records that ledgerStale looks at.
PublishState(s) ==
    /\ pc[s] = "swapped"
    /\ corpora' = [corpora EXCEPT ![at[s]].published = now]
    /\ overlap' = (overlap \ {at[s]}) \cup Pending(s, at[s])
    /\ Work(s, at[s], "reading")
    /\ UNCHANGED <<todo, touched>>

StartRead(s, d) ==
    /\ pc[s] = "search" /\ IsNext(s, d) /\ corpora[d].there /\ ~Taken(d)
    /\ Work(s, d, "reading")
    /\ UNCHANGED <<corpora, todo, overlap, touched>>

\* A node that has no directory fails.
SkipNode(s, d) ==
    /\ pc[s] = "search" /\ IsNext(s, d) /\ ~corpora[d].there
    /\ todo' = [todo EXCEPT ![s] = @ \ {d}]
    /\ Work(s, NoOne, "search")
    /\ UNCHANGED <<corpora, overlap, touched>>

EndRead(s) ==
    /\ pc[s] = "reading"
    /\ Touch(at[s], corpora)
    /\ todo' = [todo EXCEPT ![s] = @ \ {at[s]}]
    /\ Work(s, NoOne, "search")
    /\ UNCHANGED overlap

\* enforceCacheBudget: a search that published nothing evicts nothing.
Enforce(s) ==
    /\ pc[s] = "search" /\ todo[s] = {}
    /\ LET stale == {d \in Uses[s] : LedgerStale(d)}
       IN IF stale = {} THEN End(s)
          ELSE /\ Goto(s, "ledger") /\ goal' = [goal EXCEPT ![s] = "record"]
               /\ todo' = [todo EXCEPT ![s] = stale]
               /\ UNCHANGED <<at, measured, listVars, touched>>
    /\ Alone(s)
    /\ UNCHANGED <<now, diskVars, faults, overlap>>

EndRecord(s) ==
    /\ pc[s] = "ledger" /\ goal[s] = "record" /\ todo[s] = {}
    /\ Work(s, NoOne, "list")
    /\ UNCHANGED <<corpora, todo, overlap, touched>>

-----------------------------------------------------------------------------
(* A collection, before it lists the corpora.                              *)

\* The throttle, unless --force or --all.  The next collection is not due before
\* a tick has passed.
Throttled(g) ==
    /\ pc[g] = "gate" /\ g \notin All
    /\ stamp = now
    /\ End(g)
    /\ Alone(g)
    /\ UNCHANGED <<now, diskVars, faults, overlap>>

\* Mutant: gc.lock does not exclude.
TakeHeldGcLock(g) ==
    /\ pc[g] = "gate" /\ (g \in All \/ stamp # now)
    /\ Goto(g, "trash")
    /\ Alone(g)
    /\ UNCHANGED <<now, diskVars, goal, at, todo, measured, listVars, faults, overlap, touched>>

\* gc.lock is taken, or another collection has it.
TakeGcLock(g) ==
    /\ pc[g] = "gate" /\ (g \in All \/ stamp # now)
    /\ IF \E h \in Collections : pc[h] \in InCollection
       THEN End(g)
       ELSE Goto(g, "trash") /\ UNCHANGED <<goal, at, todo, measured, listVars, touched>>
    /\ Alone(g)
    /\ UNCHANGED <<now, diskVars, faults, overlap>>

\* drainTrash, before a collection and after an enforcement.  What another
\* process removes now it removes too.
DrainTrash(a) ==
    /\ pc[a] \in {"trash", "drain"}
    /\ trash' = MapThenSumSet(LAMBDA b : measured[b], {b \in Actors \ {a} : pc[b] = "remove"})
    /\ IF pc[a] = "trash"
       THEN Goto(a, "list") /\ UNCHANGED <<goal, at, todo, measured, listVars, touched>>
       ELSE End(a)
    /\ Alone(a)
    /\ UNCHANGED <<now, corpora, units, artifacts, stamp, faults, overlap>>

-----------------------------------------------------------------------------
(* The list, the plan and the evictions.                                   *)

\* enumerateCorpusDirs.
List(a) ==
    /\ pc[a] = "list"
    /\ listed' = [listed EXCEPT ![a] = [d \in Corpora |-> IF d \in Present THEN corpora[d].used ELSE Never]]
    /\ sizes' = [sizes EXCEPT ![a] = NoSizes]
    /\ todo' = [todo EXCEPT ![a] = IF a \in All THEN {} ELSE Present]
    /\ Goto(a, "ledger") /\ goal' = [goal EXCEPT ![a] = "plan"]
    /\ Alone(a)
    /\ UNCHANGED <<now, diskVars, at, measured, started, plan, runs, faults, overlap, touched>>

Listed(a) == {d \in Corpora : listed[a][d] # Never}

\* Mutant: a use in the tick of the start does not count.
UsedAfterStart(a, d) == started[a] < listed[a][d] /\ listed[a][d] <= now + 1

UsedByARunningCommand(a, d) == started[a] <= listed[a][d] /\ listed[a][d] <= now + 1

Keep(a) == IF a \in Searches THEN Uses[a] ELSE {}

Evictable(a) == {d \in Listed(a) \ Keep(a) : ~UsedByARunningCommand(a, d)}

\* In the order of eviction: the least recently used first, then by name.
Before(a, d, e) ==
    listed[a][d] < listed[a][e] \/ (listed[a][d] = listed[a][e] /\ d < e)

\* planCorpusEviction: segments of the unit store first, then corpora, each while
\* the rest is over the budget.
Plan(a) ==
    /\ pc[a] = "ledger" /\ goal[a] = "plan" /\ todo[a] = {}
    /\ LET total  == Sum(sizes[a]) + Cardinality(units)
           budget == CacheBudget(total)
           spare  == IF a \in All THEN Cardinality(units)
                     ELSE Least(Cardinality(units), Minus(total, budget))
           older(d) == {e \in Evictable(a) : Before(a, e, d)}
           left(d)  == total - spare - MapThenSumSet(LAMBDA e : sizes[a][e], older(d))
           due == IF a \in All THEN Listed(a) ELSE {d \in Evictable(a) : left(d) > budget}
       IN \E segments \in {S \in SUBSET units : Cardinality(S) = spare} :
             IF a \in Searches /\ due \cup segments = {}
             THEN End(a)
             ELSE /\ plan' = [plan EXCEPT ![a] = due \cup segments]
                  /\ todo' = [todo EXCEPT ![a] = Listed(a)]
                  /\ goal' = [goal EXCEPT ![a] = "none"] /\ sizes' = [sizes EXCEPT ![a] = NoSizes]
                  /\ Goto(a, IF a \in Searches THEN "evict" ELSE "orphans")
                  /\ UNCHANGED <<at, measured, started, listed, runs, touched>>
    /\ Alone(a)
    /\ UNCHANGED <<now, diskVars, faults, overlap>>

\* Mutant: the age of a build directory is enough.
ProbeNothing(g, d) ==
    /\ pc[g] = "orphans" /\ IsNext(g, d)
    /\ at' = [at EXCEPT ![g] = d]
    /\ Goto(g, "probed")
    /\ Alone(g)
    /\ UNCHANGED <<now, diskVars, goal, todo, measured, listVars, faults, overlap, touched>>

\* sweepCorpusOrphans: build directories are swept only if no build holds the lock.
ProbeBuild(g, d) ==
    /\ pc[g] = "orphans" /\ IsNext(g, d)
    /\ at' = [at EXCEPT ![g] = d]
    /\ Goto(g, IF Building(d) THEN "evict" ELSE "probed")
    /\ Alone(g)
    /\ UNCHANGED <<now, diskVars, goal, todo, measured, listVars, faults, overlap, touched>>

\* sweepOrphanBuildDirs: those that were old when the collection began.
SweepBuildDir(g) ==
    /\ pc[g] = "probed"
    /\ corpora' = [corpora EXCEPT ![at[g]].build = IF @ + MaxAge < started[g] THEN Never ELSE @]
    /\ Goto(g, "evict")
    /\ Alone(g)
    /\ UNCHANGED <<now, units, trash, artifacts, stamp, goal, at, todo, measured, listVars, faults,
                   overlap, touched>>

InEvict(a, d) == pc[a] = "evict" /\ IsNext(a, d)

NextCorpus(a, d) ==
    /\ todo' = [todo EXCEPT ![a] = @ \ {d}] /\ at' = [at EXCEPT ![a] = NoOne]
    /\ Goto(a, IF a \in Searches THEN "evict" ELSE "orphans")

\* evictCorpus takes .lock and finds .build.lock free, which it returns at once.
CanTake(a, d) == d \in plan[a] /\ corpora[d].there /\ ~Held(d) /\ ~Taken(d)

TakeCorpus(a, d) ==
    /\ InEvict(a, d) /\ CanTake(a, d)
    /\ at' = [at EXCEPT ![a] = d]
    /\ Goto(a, "look")
    /\ Alone(a)
    /\ UNCHANGED <<now, diskVars, goal, todo, measured, listVars, faults, overlap, touched>>

\* The corpus is not due, has gone or is in use; or its .used is newer than on the
\* list.
KeepCorpus(a, d) ==
    /\ \/ InEvict(a, d) /\ ~CanTake(a, d)
       \/ pc[a] = "look" /\ at[a] = d /\ corpora[d].used > listed[a][d]
    /\ NextCorpus(a, d)
    /\ Alone(a)
    /\ UNCHANGED <<now, diskVars, goal, measured, listVars, faults, overlap, touched>>

FindUnused(a) ==
    /\ pc[a] = "look" /\ corpora[at[a]].used <= listed[a][at[a]]
    /\ Goto(a, "rename")
    /\ Alone(a)
    /\ UNCHANGED <<now, diskVars, goal, at, todo, measured, listVars, faults, overlap, touched>>

\* The rename to .trash.  A build that began after the probe loses its directory.
Evict(a, d) ==
    /\ pc[a] = "rename" /\ at[a] = d
    /\ corpora' = [corpora EXCEPT ![d] = NoCorpus]
    /\ trash' = trash + corpora[d].bytes
    /\ measured' = [measured EXCEPT ![a] = corpora[d].bytes]
    /\ overlap' = (overlap \ {d}) \cup Pending(a, d)
    /\ pc' = [b \in Actors |-> IF b = a THEN "remove"
                              ELSE IF pc[b] = "building" /\ at[b] = d THEN "lost" ELSE pc[b]]
    /\ Alone(a)
    /\ UNCHANGED <<now, units, artifacts, stamp, goal, at, todo, listVars, faults, touched>>

Fault(kind) ==
    /\ kind \in FaultKinds /\ faults < MaxFaults
    /\ faults' = faults + 1
    /\ alone' = {}

\* A removal that fails leaves its bytes to the next drain.
RemoveEvicted(a) ==
    /\ pc[a] = "remove"
    /\ \/ trash' = trash - measured[a] /\ Alone(a) /\ UNCHANGED faults
       \/ Fault("remove") /\ UNCHANGED trash
    /\ measured' = [measured EXCEPT ![a] = 0]
    /\ NextCorpus(a, at[a])
    /\ UNCHANGED <<now, corpora, units, artifacts, stamp, goal, listVars, overlap, touched>>

\* Mutant: the segments of the plan stay.
KeepUnits(a) ==
    /\ pc[a] \in {"evict", "orphans"} /\ todo[a] = {}
    /\ plan' = [plan EXCEPT ![a] = {}]
    /\ Goto(a, IF a \in Searches THEN "drain" ELSE "artifacts")
    /\ Alone(a)
    /\ UNCHANGED <<now, diskVars, goal, at, todo, measured, started, listed, sizes, runs, faults,
                   overlap, touched>>

EvictUnits(a) ==
    /\ pc[a] \in {"evict", "orphans"} /\ todo[a] = {}
    /\ units' = units \ plan[a]
    /\ plan' = [plan EXCEPT ![a] = {}]
    /\ Goto(a, IF a \in Searches THEN "drain" ELSE "artifacts")
    /\ Alone(a)
    /\ UNCHANGED <<now, corpora, trash, artifacts, stamp, goal, at, todo, measured, started, listed, sizes,
                   runs, faults, overlap, touched>>

-----------------------------------------------------------------------------
(* Retired runtimes and compiled models.                                   *)

Aged(g, r) == artifacts[r].path # "none" /\ artifacts[r].used + MaxAge < started[g]

ListArtifacts(g) ==
    /\ pc[g] = "artifacts"
    /\ plan' = [plan EXCEPT ![g] = {r \in Artifacts : Aged(g, r) \/ artifacts[r].marked}]
    /\ Goto(g, "retire")
    /\ Alone(g)
    /\ UNCHANGED <<now, diskVars, goal, at, todo, measured, started, listed, sizes, runs, faults, overlap,
                   touched>>

Retire(g, r) ==
    /\ pc[g] = "retire" /\ r \in plan[g]
    /\ Alone(g)
    /\ UNCHANGED <<now, corpora, units, trash, stamp, pc, goal, at, todo, measured, started, listed,
                   sizes, runs, faults, overlap, touched>>

\* discardAgedDirs renames a directory that is still aged, so that nobody finds it
\* half removed.
Mark(g, r) ==
    /\ Retire(g, r) /\ ~artifacts[r].marked /\ Aged(g, r)
    /\ artifacts' = [artifacts EXCEPT ![r].path = "none", ![r].marked = TRUE]
    /\ UNCHANGED plan

\* It keeps one that was used since the list.
Spare(g, r) ==
    /\ Retire(g, r) /\ ~artifacts[r].marked /\ ~Aged(g, r)
    /\ plan' = [plan EXCEPT ![g] = @ \ {r}]
    /\ UNCHANGED artifacts

RemoveMarked(g, r) ==
    /\ Retire(g, r) /\ artifacts[r].marked
    /\ artifacts' = [artifacts EXCEPT ![r].marked = FALSE]
    /\ plan' = [plan EXCEPT ![g] = @ \ {r}]

\* installPrivateAsset and touchRuntimeUse; the uses that a collection meets.
UseArtifact(r) ==
    /\ \E g \in Collections : pc[g] \in {"artifacts", "retire"}
    /\ artifacts[r].path # "part" /\ artifacts[r].used # now
    /\ artifacts' = [artifacts EXCEPT ![r].path = "whole", ![r].used = now]
    /\ UNCHANGED <<now, corpora, units, trash, stamp, actorVars, faults, histVars>>

\* touchStamp throttles the next collection.
Stamp(g) ==
    /\ pc[g] = "stamp" \/ (pc[g] = "retire" /\ plan[g] = {})
    /\ stamp' = now
    /\ End(g)
    /\ Alone(g)
    /\ UNCHANGED <<now, corpora, units, trash, artifacts, faults, overlap>>

\* fireOpportunisticGC: after its time it goes on to the stamp.
TimeOut(g) ==
    /\ g \notin All /\ pc[g] \in {"orphans", "retire"}
    /\ Fault("timeout")
    /\ Goto(g, "stamp")
    /\ UNCHANGED <<now, diskVars, goal, at, todo, measured, listVars, overlap, touched>>

\* The process dies; what it did stays.
Crash(a) ==
    /\ pc[a] # "start"
    /\ Fault("crash")
    /\ End(a)
    /\ overlap' = overlap \cup {d \in {at[a]} : pc[a] = "swapped"}
    /\ UNCHANGED <<now, diskVars>>

-----------------------------------------------------------------------------

Search(s) ==
    \/ CheckBudget(s) \/ LoseBuild(s) \/ SwapFamily(s) \/ PublishState(s) \/ EndRead(s) \/ Enforce(s)
    \/ EndRecord(s)
    \/ \E d \in Corpora : StartBuild(s, d) \/ StartRead(s, d) \/ SkipNode(s, d)

Collect(g) ==
    \/ Throttled(g) \/ TakeGcLock(g) \/ SweepBuildDir(g) \/ ListArtifacts(g) \/ Stamp(g) \/ TimeOut(g)
    \/ \E d \in Corpora : ProbeBuild(g, d)
    \/ \E r \in Artifacts : Mark(g, r) \/ Spare(g, r) \/ RemoveMarked(g, r)

Reclaim(a) ==
    \/ WriteLedger(a) \/ DrainTrash(a) \/ List(a) \/ Plan(a) \/ FindUnused(a) \/ RemoveEvicted(a)
    \/ EvictUnits(a)
    \/ \E d \in Corpora : \/ ReadLedger(a, d) \/ Measure(a, d)
                          \/ TakeCorpus(a, d) \/ KeepCorpus(a, d) \/ Evict(a, d)

Next ==
    \/ Tick
    \/ \E s \in Searches : Search(s)
    \/ \E g \in Collections : Collect(g)
    \/ \E a \in Actors : Begin(a) \/ Reclaim(a) \/ Crash(a)
    \/ \E r \in Artifacts : UseArtifact(r)

Spec == Init /\ [][Next]_vars

-----------------------------------------------------------------------------
(* Properties.                                                             *)

\* cache_budget.go, corpusSize: whatever builds, crashes, evictions and other
\* recorders do, a ledger that nobody measures again tells the size of its
\* corpus, except after a publish that overlapped the measure.
LedgerTells ==
    \A d \in Present \ overlap :
        \/ NeedsMeasure(d) \/ corpora[d].published = Never
        \/ \E s \in Searches : pc[s] = "swapped" /\ at[s] = d
        \/ corpora[d].size = corpora[d].bytes

\* cache_budget.go, usedByARunningCommand, and gc.go, evictCorpus: a search keeps
\* its own corpora, and no eviction takes a corpus that some command used since
\* the evictor began and before it looked at .used for the last time, even if all
\* of it was in one tick of the file times.  A use between that look and the rename
\* does not save the corpus.
EvictionSparesUse ==
    [][\A a \in Actors \ All : \A d \in Corpora :
          Evict(a, d) => d \notin touched[a] \cup Keep(a)]_vars

Fits(a) ==
    LET total == Sum([d \in Corpora |-> corpora[d].bytes]) + Cardinality(units)
    IN total <= CacheBudget(total) \/ (units = {} /\ Present \subseteq Keep(a) \cup touched[a])

\* cache_budget.go, enforceCacheBudget, and gc.go, runGC: an eviction that nobody
\* joined and no fault met ends with a cache that fits the budget, or that has
\* only what this command uses.
AloneRunFits ==
    [][\A a \in alone :
          pc[a] \in {"drain", "retire"} /\ pc'[a] = "start" /\ overlap = {} /\ faults' = faults
          => Fits(a)']_vars

\* gc.go, sweepCorpusOrphans and evictCorpus: a sweep never takes the directory of a
\* build, however slow the build is, and an eviction takes none of a build that ran
\* when the evictor began.
SweepSparesBuilds ==
    [][\A d \in Corpora :
          corpora[d].build # Never /\ corpora'[d].build = Never /\ Building(d)
          => \/ \E s \in Searches : at[s] = d /\ SwapFamily(s)
             \/ \E a \in Actors : Evict(a, d) /\ started[a] <= corpora[d].used]_vars

=============================================================================
