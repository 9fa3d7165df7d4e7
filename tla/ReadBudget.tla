------------------------------ MODULE ReadBudget ------------------------------
(***************************************************************************)
(* The two budgets that every build of one seek process shares (caps.go,   *)
(* read_semaphore.go, search_pipeline.go): the build windows, of which a   *)
(* build takes two before it starts, and the weight of the documents that  *)
(* are read and not yet released.  A build runs two lanes at the same time *)
(* (joined_generation.go, runJoinedIndexBuilds): the text shards and the   *)
(* vectors.  Each lane has readers, which take weight before they read a   *)
(* document, and one consumer, which gives the weight back when it no      *)
(* longer needs the content.                                               *)
(*                                                                         *)
(* A document passes unread -> asked -> hand / pending -> gone.  It waits  *)
(* while its request is in the queue of the semaphore; after that its      *)
(* reader reads it and offers it to the consumer.  A named document has    *)
(* no content and no weight; a marked one is named by a reader that keeps  *)
(* the weight until the consumer takes the name (readOneDirtyFile).        *)
(*                                                                         *)
(* The vectors lane is the outline of VectorBuild: the documents in order, *)
(* held until the model has read the batch of their rows.                  *)
(***************************************************************************)
EXTENDS Integers, Sequences, FiniteSets, FiniteSetsExt, SequencesExt

CONSTANTS
    Builds,            \* the builds of the process, of one or more commands
    Nodes,             \* Nodes[b]: the nodes in the graph of the command of b
    Source,            \* Source[b] \in {"git", "folder", "dirty"}: its reader
    Text, Delta,       \* Text[b], Delta[b]: the sizes of the documents to read
    Grown,             \* Grown[b]: those of a delta whose files grow before the reads
    Vectors,           \* Vectors[b]: [size, rows] of each document, <<>> without vectors
    Budget,            \* readBudgetBytes
    MaxWeight,         \* maxReadWeightBytes
    ShardMax,          \* a document above it fills a shard of its own
    LargeParallelism,  \* the documents of one large window
    BatchRows,         \* semanticModelBatchRows
    Workers,           \* the parallelism of the readers
    FaultKinds, MaxFaults

ASSUME BudgetAssumption ==
    /\ MaxWeight \in Nat \ {0} /\ Budget \in Nat /\ Budget >= 6 * MaxWeight
    /\ {Workers, LargeParallelism, BatchRows} \subseteq Nat \ {0}
    /\ IsFiniteSet(Builds) /\ Nodes \in [Builds -> Nat] /\ MaxFaults \in Nat
    /\ {Text, Delta, Grown} \subseteq [Builds -> Seq(Nat)]
    /\ Vectors \in [Builds -> Seq([size : Nat, rows : Nat])]

VARIABLES
    reads,   \* readSemaphore: the weight in use and the queue of its waiters
    slots,   \* buildWindows: the same
    phase,   \* phase[b]: "begin", "wait", "run" or "over"
    lane,    \* lane[l]: the state of one lane
    broken,  \* the builds whose command is interrupted
    faults   \* the number of faults so far

vars == <<reads, slots, phase, lane, broken, faults>>

Least(i, j) == IF i < j THEN i ELSE j
Most(i, j) == IF i < j THEN j ELSE i

(***************************************************************************)
(* The sizes (caps.go)                                                     *)
(***************************************************************************)
Weight(size) == Least(size, MaxWeight)

BuildSlotLimit == Most(1, (Budget - 2 * MaxWeight) \div (2 * MaxWeight))

(* The builds that share the windows: a node each, up to the limit.        *)
Sharers(b) == Least(Most(Nodes[b], 1), BuildSlotLimit)

IndexWindow(b) == (Budget - 2 * MaxWeight) \div (2 * Sharers(b))

BuildWindows == Most(Budget - 2 * MaxWeight, 1)

SlotWeight(b) == Least(Most(2 * IndexWindow(b), 1), BuildWindows)

(***************************************************************************)
(* semaphore.Weighted grants in the order of arrival: a request waits      *)
(* while an earlier one waits, also when there is room for it.             *)
(***************************************************************************)
QueueWeight(q) == FoldLeft(LAMBDA sum, e : sum + e.weight, 0, q)

Notify(sem, size) ==
    LET fits == {n \in 0..Len(sem.queue) :
                    sem.used + QueueWeight(SubSeq(sem.queue, 1, n)) <= size}
        n == Max(fits)
    IN  [used |-> sem.used + QueueWeight(SubSeq(sem.queue, 1, n)),
         queue |-> SubSeq(sem.queue, n + 1, Len(sem.queue))]

(* Mutant: any room is enough.                                           *)
AcquireOver(sem, size, e) ==
    IF sem.used < size /\ sem.queue = <<>>
    THEN [sem EXCEPT !.used = @ + e.weight]
    ELSE [sem EXCEPT !.queue = Append(@, e)]

Acquire(sem, size, e) ==
    Notify([sem EXCEPT !.queue = Append(@, e)], size)

Release(sem, size, weight) == Notify([sem EXCEPT !.used = @ - weight], size)

Withdraw(sem, size, e) ==
    LET n == CHOOSE i \in DOMAIN sem.queue : sem.queue[i] = e
    IN  Notify([sem EXCEPT !.queue = RemoveAt(@, n)], size)

Waits(sem, e) == e \in ToSet(sem.queue)

(***************************************************************************)
(* The lanes                                                               *)
(***************************************************************************)
Lanes == {<<b, "text">> : b \in Builds}
            \cup {<<b, "vectors">> : b \in {b \in Builds : Vectors[b] # <<>>}}

(* The documents that a lane reads in a mode.                              *)
Sizes == [b \in Builds |->
    [full |-> Text[b], delta |-> Delta[b], grown |-> Grown[b], over |-> <<>>,
     vectors |-> [d \in DOMAIN Vectors[b] |-> Vectors[b][d].size]]]

(* A lane at the start of a mode: its stream runs, its consumer listens    *)
(* and has no window open.                                                 *)
Fresh(l, mode) ==
    [mode |-> mode, at |-> [d \in DOMAIN Sizes[l[1]][mode] |-> "unread"],
     doing |-> "receive", window |-> "none", stop |-> FALSE, failed |-> FALSE]

Over(l, failed) == [Fresh(l, "over") EXCEPT !.doing = "over", !.failed = failed]

Size(l, d) == Sizes[l[1]][lane[l].mode][d]
Request(l, d) == [who |-> <<l, d>>, weight |-> Weight(Size(l, d))]
At(l, stages) == {d \in DOMAIN lane[l].at : lane[l].at[d] \in stages}
Waiting(l) == {d \in At(l, {"asked"}) : Waits(reads, Request(l, d))}

InFlight == {"asked", "named", "marked"}
Weighs == {"marked", "hand", "pending", "model"}

(* The documents of a lane that hold weight; the units of weight of some   *)
(* documents, and their content.                                           *)
Granted(l) == At(l, {"asked"}) \ Waiting(l)
Held(l) == At(l, Weighs) \cup Granted(l)
Units(l, docs) == {u \in {l} \X docs \X (1..MaxWeight) : u[3] <= Weight(Size(l, u[2]))}
WeightOf(l, docs) == Cardinality(Units(l, docs))
ContentOf(l, docs) == MapThenSumSet(LAMBDA d : Size(l, d), docs)

(* The context of the stream is done.                                      *)
Stopped(l) == lane[l].stop \/ l[1] \in broken

(* The channel of a lane is closed: no reader has a document, and none     *)
(* starts another.                                                         *)
Closed(l) == At(l, InFlight) = {} /\ (Stopped(l) \/ At(l, {"unread"}) = {})

Move(l, docs, stage) == [d \in DOMAIN lane[l].at |->
                            IF d \in docs THEN stage ELSE lane[l].at[d]]

(* Lane l becomes r and gives back the weight that these documents hold.   *)
Become(l, r, docs) ==
    /\ lane' = [lane EXCEPT ![l] = r]
    /\ reads' = Release(reads, Budget, WeightOf(l, docs \cap Held(l)))
    /\ UNCHANGED <<slots, phase, broken>>

Fault(kind) == kind \in FaultKinds /\ faults < MaxFaults /\ faults' = faults + 1
NoFault == UNCHANGED faults

(***************************************************************************)
(* A build: it takes two windows, runs its lanes and gives them back.      *)
(***************************************************************************)
SlotRequest(b) == [who |-> b, weight |-> SlotWeight(b)]

AskSlot(b) ==
    /\ phase[b] = "begin"
    /\ IF b \in broken
       THEN phase' = [phase EXCEPT ![b] = "over"] /\ UNCHANGED slots
       ELSE /\ phase' = [phase EXCEPT ![b] = "wait"]
            /\ slots' = Acquire(slots, BuildWindows, SlotRequest(b))
    /\ UNCHANGED <<reads, lane, broken, faults>>

CancelSlot(b) ==
    /\ phase[b] = "wait" /\ b \in broken /\ Waits(slots, SlotRequest(b))
    /\ slots' = Withdraw(slots, BuildWindows, SlotRequest(b))
    /\ phase' = [phase EXCEPT ![b] = "over"]
    /\ UNCHANGED <<reads, lane, broken, faults>>

(* Mutant: a delta begins whatever its content.                            *)
TriesAnyDelta(b) == Delta[b] # <<>>

(* A delta whose content reaches the window is not begun.  The files of an *)
(* uncommitted delta can grow before they are read.                        *)
TriesDelta(b) == Delta[b] # <<>> /\ FoldLeft(+, 0, Delta[b]) < IndexWindow(b)

TextModes(b) ==
    IF ~TriesDelta(b) THEN {"full"}
    ELSE {"delta"} \cup IF Source[b] = "dirty" THEN {"grown"} ELSE {}

BeginBuild(b) ==
    /\ phase[b] = "wait" /\ ~Waits(slots, SlotRequest(b))
    /\ phase' = [phase EXCEPT ![b] = "run"]
    /\ \E mode \in TextModes(b) :
          lane' = [l \in Lanes |->
                     IF l[1] # b THEN lane[l]
                     ELSE Fresh(l, IF l[2] = "text" THEN mode ELSE "vectors")]
    /\ UNCHANGED <<reads, slots, broken, faults>>

EndBuild(b) ==
    /\ phase[b] = "run"
    /\ \A l \in Lanes : l[1] = b => lane[l].mode = "over"
    /\ phase' = [phase EXCEPT ![b] = "over"]
    /\ slots' = Release(slots, BuildWindows, SlotWeight(b))
    /\ UNCHANGED <<reads, lane, broken, faults>>

Interrupt(b) ==
    /\ phase[b] # "over" /\ b \notin broken
    /\ Fault("interrupt")
    /\ broken' = broken \cup {b}
    /\ UNCHANGED <<reads, slots, phase, lane>>

(***************************************************************************)
(* The readers.  The reader of Git takes one document at a time.  Workers  *)
(* read the files of a directory, each one document, and take weight in    *)
(* any order.  The in-order stream of the vectors takes weight in the      *)
(* order of the files, for at most two documents more than its workers.    *)
(***************************************************************************)
MayAsk(l, d) ==
    LET earlier == {e \in 1..(d - 1) : lane[l].at[e] \in InFlight \cup {"unread"}}
        folder == Source[l[1]] # "git"
    IN  IF folder /\ l[2] = "text" THEN Cardinality(earlier) < Workers
        ELSE /\ \A e \in earlier : lane[l].at[e] # "unread"
             /\ Waiting(l) = {}
             /\ Cardinality(earlier) < IF folder THEN Workers + 2 ELSE 1

Ask(l, d) ==
    /\ ~Stopped(l) /\ MayAsk(l, d)
    /\ lane' = [lane EXCEPT ![l].at[d] = "asked"]
    /\ reads' = Acquire(reads, Budget, Request(l, d))
    /\ UNCHANGED <<slots, phase, broken, faults>>

(* The context ends while the document waits for its weight.               *)
CancelAsk(l, d) ==
    /\ Stopped(l)
    /\ lane' = [lane EXCEPT ![l].at[d] = "gone"]
    /\ reads' = Withdraw(reads, Budget, Request(l, d))
    /\ UNCHANGED <<slots, phase, broken, faults>>

(* Binary content gives a document by name only.                           *)
ReadBinary(l, d) ==
    /\ Fault("binary")
    /\ IF Source[l[1]] = "dirty" /\ l[2] = "text"
       THEN Become(l, [lane[l] EXCEPT !.at[d] = "marked"], {})
       ELSE Become(l, [lane[l] EXCEPT !.at[d] = "named"], {d})

(* A read fails.  The reader of Git ends; a folder read cancels the        *)
(* stream; a dirty file keeps its name, except when the process has no     *)
(* file descriptors left.                                                  *)
ReadError(l, d) ==
    /\ Fault("read")
    /\ \/ /\ Source[l[1]] = "git"
          /\ Become(l, [lane[l] EXCEPT !.at = Move(l, At(l, {"unread"}) \cup {d}, "gone"),
                                       !.failed = TRUE], {d})
       \/ /\ Source[l[1]] # "git"
          /\ Become(l, [lane[l] EXCEPT !.at[d] = "gone", !.stop = TRUE, !.failed = TRUE], {d})
       \/ /\ Source[l[1]] = "dirty" /\ l[2] = "text"
          /\ Become(l, [lane[l] EXCEPT !.at[d] = "marked"], {})

Offered(l) == Granted(l) \cup At(l, {"named", "marked"})

(* A reader that cannot send drops its document when the context is done.  *)
Drop(l, d) ==
    /\ Stopped(l)
    /\ NoFault
    /\ Become(l, [lane[l] EXCEPT !.at[d] = "gone"], {d})

(* The document that the channel offers: any in the text lane, the next    *)
(* one in the vectors lane.                                                *)
Offers(l, d) ==
    l[2] = "vectors" => \A e \in 1..(d - 1) : e \notin At(l, InFlight)

(***************************************************************************)
(* The consumer of a full text build (indexDocumentsWithRepository).       *)
(* doing: "receive" the next document; "finish" a full large window;       *)
(* "switch": finish the window of the other kind, with a document in hand; *)
(* "add" that document; "drain" the channel after an error; "last": finish *)
(* the open window after the channel is closed.                            *)
(***************************************************************************)
Large(l, d) == lane[l].at[d] \in {"asked", "hand"} /\ Size(l, d) > ShardMax
Kind(l, d) == IF Large(l, d) THEN "large" ELSE "normal"

WindowFull(l, docs) ==
    \/ Cardinality(docs) >= LargeParallelism
    \/ ContentOf(l, docs) >= IndexWindow(l[1])

(* cancelProducer, then drain the channel.                                 *)
Draining(r, d) == [r EXCEPT !.at[d] = "gone", !.doing = "drain", !.stop = TRUE, !.failed = TRUE]

(* Opening a builder for the first document of a window can fail; so can   *)
(* Add.  A normal document is released after Add, a large one with its     *)
(* window.                                                                 *)
Add(l, d) ==
    LET r == lane[l]
        large == Large(l, d)
        placed == [r EXCEPT !.at[d] = IF large THEN "pending" ELSE "gone",
                            !.window = Kind(l, d)]
        full == large /\ WindowFull(l, At(l, {"pending"}) \cup {d})
        given == IF large THEN {} ELSE {d}
    IN  \/ NoFault /\ Become(l, [placed EXCEPT !.doing = IF full THEN "finish" ELSE "receive"], given)
        \/ /\ r.window = "none" /\ Fault("builder")
           /\ Become(l, Draining(r, d), {d})
        \/ /\ Fault("builder")
           /\ Become(l, [placed EXCEPT !.doing = "drain", !.stop = TRUE, !.failed = TRUE], given)

Receive(l, d) ==
    LET r == lane[l] IN
    /\ r.mode = "full" /\ r.doing = "receive" /\ Offers(l, d)
    /\ IF Stopped(l) THEN NoFault /\ Become(l, Draining(r, d), {d})
       ELSE IF r.window \in {"none", Kind(l, d)} THEN Add(l, d)
       ELSE /\ NoFault
            /\ Become(l, [r EXCEPT !.doing = "switch",
                             !.at[d] = IF r.at[d] = "asked" THEN "hand" ELSE "hand name"],
                      IF r.at[d] = "marked" THEN {d} ELSE {})

AddHand(l, d) ==
    /\ lane[l].doing = "add"
    /\ Add(l, d)

Finish(l) ==
    LET r == lane[l]
        pending == At(l, {"pending"})
        hand == At(l, {"hand", "hand name"})
        after == [finish |-> "receive", switch |-> "add", last |-> "over"]
    IN  /\ r.mode = "full" /\ r.doing \in DOMAIN after
        /\ \/ /\ NoFault
              /\ Become(l, IF r.doing = "last" THEN Over(l, r.failed)
                           ELSE [r EXCEPT !.at = Move(l, pending, "gone"),
                                          !.window = "none", !.doing = after[r.doing]], pending)
           \/ /\ Fault("builder")
              /\ Become(l, IF r.doing = "last" THEN Over(l, TRUE)
                           ELSE [r EXCEPT !.at = Move(l, pending \cup hand, "gone"),
                                          !.window = "none", !.doing = "drain",
                                          !.stop = TRUE, !.failed = TRUE],
                        pending \cup hand)

(* Mutant: what is drained keeps its weight.                               *)
DrainOnly(l, d) ==
    /\ lane[l].doing = "drain" /\ Offers(l, d)
    /\ NoFault
    /\ Become(l, [lane[l] EXCEPT !.at[d] = "gone"], {})

Drain(l, d) ==
    /\ lane[l].doing = "drain" /\ Offers(l, d)
    /\ NoFault
    /\ Become(l, [lane[l] EXCEPT !.at[d] = "gone"], {d})

EndFull(l) ==
    LET r == lane[l] IN
    /\ r.mode = "full" /\ r.doing \in {"receive", "drain"} /\ Closed(l)
    /\ NoFault
    /\ Become(l, IF r.window = "none" THEN Over(l, r.failed) ELSE [r EXCEPT !.doing = "last"], {})

(***************************************************************************)
(* The consumer of a delta.  readUncommittedCandidates collects the        *)
(* documents and stops at the window; indexDeltaDocumentsWithRepository    *)
(* holds them to its one Finish.  A failed delta makes a full build.       *)
(***************************************************************************)
CollectDelta(l, d) ==
    LET r == lane[l]
        kept == [r EXCEPT !.at[d] = IF r.at[d] = "asked" THEN "pending" ELSE "gone"]
        held == WeightOf(l, At(l, {"pending"}) \cup ({d} \cap At(l, {"asked"})))
    IN  /\ r.mode \in {"delta", "grown"} /\ r.doing = "receive" /\ Offers(l, d)
        /\ NoFault
        /\ Become(l, IF Source[l[1]] = "dirty" /\ held >= IndexWindow(l[1])
                     THEN [kept EXCEPT !.doing = "drain", !.stop = TRUE] ELSE kept,
                  IF r.at[d] = "marked" THEN {d} ELSE {})

EndCollect(l) ==
    LET r == lane[l]
        pending == At(l, {"pending"})
    IN  /\ r.mode \in {"delta", "grown"} /\ r.doing \in {"receive", "drain"} /\ Closed(l)
        /\ NoFault
        /\ IF r.failed \/ l[1] \in broken THEN Become(l, Over(l, TRUE), pending)
           ELSE IF r.doing = "drain" THEN Become(l, Fresh(l, "full"), pending)
           ELSE Become(l, [r EXCEPT !.doing = "delta"], {})

IndexDelta(l) ==
    LET pending == At(l, {"pending"}) IN
    /\ lane[l].doing = "delta"
    /\ \/ NoFault /\ Become(l, Over(l, FALSE), pending)
       \/ Fault("builder") /\ Become(l, Fresh(l, "full"), pending)

(***************************************************************************)
(* The consumer of the vectors.  A batch goes to the model when its rows   *)
(* are full, one batch at a time; the weight of its documents comes back   *)
(* after the call.                                                         *)
(***************************************************************************)
Rows(l, docs) == MapThenSumSet(LAMBDA d : Vectors[l[1]][d].rows, docs)

TakeVector(l, d) ==
    LET r == lane[l]
        batch == At(l, {"pending"}) \cup {d}
    IN  /\ r.mode = "vectors" /\ r.doing = "receive" /\ Offers(l, d)
        /\ NoFault
        /\ IF Stopped(l) THEN Become(l, Draining(r, d), {d})
           ELSE IF r.at[d] # "asked" THEN Become(l, [r EXCEPT !.at[d] = "gone"], {d})
           ELSE Become(l, [r EXCEPT !.at[d] = "pending",
                              !.doing = IF Rows(l, batch) >= BatchRows THEN "send" ELSE @], {})

SendBatch(l) ==
    LET r == lane[l] IN
    /\ r.mode = "vectors" /\ r.doing \in {"send", "last"} /\ At(l, {"model"}) = {}
    /\ NoFault
    /\ IF At(l, {"pending"}) = {} THEN Become(l, Over(l, r.failed), {})
       ELSE Become(l, [r EXCEPT !.at = Move(l, At(l, {"pending"}), "model"),
                                !.doing = IF r.doing = "last" THEN "last" ELSE "receive"], {})

CallModel(l) ==
    LET r == lane[l]
        read == At(l, {"model"})
        back == [r EXCEPT !.at = Move(l, read, "gone")]
    IN  /\ read # {}
        /\ \/ NoFault /\ Become(l, back, read)
           \/ /\ Fault("model")
              /\ Become(l, [back EXCEPT !.stop = TRUE, !.failed = TRUE,
                               !.doing = IF r.doing = "last" THEN "last" ELSE "drain",
                               !.at = Move(l, read \cup At(l, {"pending"}), "gone")],
                        read \cup At(l, {"pending"}))

EndVectors(l) ==
    LET r == lane[l] IN
    /\ r.mode = "vectors" /\ r.doing \in {"receive", "drain"} /\ Closed(l)
    /\ NoFault
    /\ IF r.doing = "drain"
       THEN Become(l, [r EXCEPT !.at = Move(l, At(l, {"pending"}), "gone"), !.doing = "last"],
                   At(l, {"pending"}))
       ELSE Become(l, [r EXCEPT !.doing = "last"], {})

(***************************************************************************)
(* The specification                                                       *)
(***************************************************************************)
Init ==
    /\ reads = [used |-> 0, queue |-> <<>>]
    /\ slots = [used |-> 0, queue |-> <<>>]
    /\ phase = [b \in Builds |-> "begin"]
    /\ lane = [l \in Lanes |-> Over(l, FALSE)]
    /\ broken = {}
    /\ faults = 0

BuildStep(b) == AskSlot(b) \/ CancelSlot(b) \/ BeginBuild(b) \/ EndBuild(b)

DocStep(l) ==
    \/ \E d \in At(l, {"unread"}) : Ask(l, d)
    \/ \E d \in Waiting(l) : CancelAsk(l, d)
    \/ \E d \in Granted(l) : ReadBinary(l, d) \/ ReadError(l, d)
    \/ \E d \in Offered(l) :
          Drop(l, d) \/ Receive(l, d) \/ Drain(l, d) \/ CollectDelta(l, d) \/ TakeVector(l, d)
    \/ \E d \in At(l, {"hand", "hand name"}) : AddHand(l, d)

LaneStep(l) ==
    \/ Finish(l) \/ EndFull(l) \/ EndCollect(l) \/ IndexDelta(l)
    \/ SendBatch(l) \/ CallModel(l) \/ EndVectors(l)

Progress ==
    \/ \E b \in Builds : BuildStep(b)
    \/ \E l \in Lanes : LaneStep(l) \/ DocStep(l)

Done == (\A b \in Builds : phase[b] = "over") /\ UNCHANGED vars

Next == Progress \/ (\E b \in Builds : Interrupt(b)) \/ Done

Spec == Init /\ [][Next]_vars

(***************************************************************************)
(* Properties                                                              *)
(***************************************************************************)
TypeOK ==
    /\ reads.used \in 0..Budget
    /\ slots.used \in 0..BuildWindows
    /\ phase \in [Builds -> {"begin", "wait", "run", "over"}]
    /\ DOMAIN lane = Lanes
    /\ broken \subseteq Builds
    /\ faults \in 0..MaxFaults

(* Each semaphore counts what the documents and the builds hold, no more   *)
(* and no less, whatever was cut short: a read, a delta, a window or a     *)
(* whole command.  Weight that is not given back is lost for the life of   *)
(* the process; weight given back twice is a panic of the semaphore.       *)
WeightsReturned ==
    /\ reads.used = Cardinality(UNION {Units(l, Held(l)) : l \in Lanes})
    /\ slots.used = MapThenSumSet(SlotWeight,
                        {b \in Builds : phase[b] = "run"
                            \/ (phase[b] = "wait" /\ ~Waits(slots, SlotRequest(b)))})

(* No read waits forever for weight that the windows hold, and no build    *)
(* waits forever for its windows: while a build is not over, somebody has  *)
(* a step.  Every step of Progress moves a document, a lane or a build     *)
(* forward, so every build then ends.                                      *)
NoReadWaitsForever == (\E b \in Builds : phase[b] # "over") => ENABLED Progress
=============================================================================
