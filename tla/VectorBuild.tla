---------------------------- MODULE VectorBuild ----------------------------
(***************************************************************************)
(* The build of one vector generation (semantic_build.go, the build part   *)
(* of semantic_usearch_cgo.go, semantic_usearch_layout.go).                *)
(*                                                                         *)
(* Stages that run at the same time hand their work on over channels that  *)
(* hold nothing: a send waits for its receiver.                            *)
(*                                                                         *)
(*   source -> extraction -> build loop -> encoder -> collector -> graphs  *)
(*                               |  copied rows ------^             ^      *)
(*                               |  shard plans --------------------+      *)
(*                                                                         *)
(* A row of the generation is its number.  rows says which window of which *)
(* file it holds; a model batch, a block and a shard are sets of rows.     *)
(***************************************************************************)
EXTENDS Integers, FiniteSets, Sequences, FiniteSetsExt, SequencesExt

CONSTANTS
    Windows,      \* for each file, in source order, what its windows need:
                  \* a "model" call, or a "copy" of stored vectors
    Anchors,      \* the files whose path hash is an anchor
    Live,         \* shards that a published graph holds, as sets of rows
    ReadBudget,   \* readSemaphore; each file has the largest weight, 1
    CPUs,         \* cpuLimit: extraction workers, CPU gate, shard builds
    CallCPUs,     \* what a model call takes from the gate
    BatchRows,    \* semanticModelBatchRows
    MaxShardRows, MinShardRows, FloorDivisor, AnchorDivisor,
    FaultKinds,   \* a subset of {"read", "window", "model", "disk", "graph", "interrupt"}
    MaxFaults     \* bound: faults in one behaviour

Files == DOMAIN Windows

ASSUME ConstantsAssumption ==
    /\ Windows \in Seq(Seq({"model", "copy"})) /\ Anchors \subseteq Files
    /\ {ReadBudget, CPUs, BatchRows, MaxShardRows, MinShardRows, FloorDivisor, AnchorDivisor} \subseteq Nat \ {0}
    /\ MaxShardRows >= MinShardRows /\ CallCPUs \in Nat /\ MaxFaults \in Nat

\* The rows in file order, whatever stage is slow: <<file, window>>.
AllRows == FlattenSeq([f \in Files |-> [w \in DOMAIN Windows[f] |-> <<f, w>>]])
RowSets == SUBSET (DOMAIN AllRows)

NoCause   == "none"
Causes    == {NoCause, "failure", "canceled"}
NoPlanner == [size |-> 0, held |-> <<>>, open |-> {}]

VARIABLES
    stage,      \* where each file is
    source,     \* streams the files
    alive,      \* extraction workers that have not returned
    loop,       \* the build loop: "receive", "last" sends, "wait"
    next,       \* nextFile
    rows,
    batch,      \* pendingBatch
    todo,       \* what the loop has to send, in order
    failed,
    planner,    \* the shard planner: its size, files that wait for it, the open shard
    encoder,    \* the loop of the encoder: "select", "cpu" with a batch, "emit" a result
    calls,      \* running model calls
    width,      \* the limit of the concurrency controller
    written, blocks, collector, \* rows on disk, full blocks to send
    got, plans, shards, stream, \* the graph stream
    used, leases,               \* readSemaphore and the CPU gate
    canceled, interrupted, causes, result,
    faults

loopVars   == <<loop, next, rows, batch, todo, failed, planner>>
callVars   == <<encoder, calls, width>>
diskVars   == <<written, blocks, collector>>
graphVars  == <<got, plans, shards, stream>>
endVars    == <<interrupted, result>>
vars == <<stage, source, alive, loopVars, callVars, diskVars, graphVars, used, leases, canceled,
          causes, endVars, faults>>

Extracting == {"cpu", "parse"}
Sending    == {"send", "send failure", "send canceled"}
Held       == {"read", "pending"} \cup Extracting \cup Sending

\* As many calls as the processors can start.
CallLimit ==
    LET cost == Max({1, CallCPUs}) IN (CPUs + cost - 1) \div cost

Messages == [to : {"encoder", "collector", "graphs"}, rows : RowSets]
Calls    == [rows : RowSets, cause : Causes \cup {"running"}]

TypeOK ==
    /\ stage \in [Files -> {"unread", "lost", "merged", "dropped"} \cup Held]
    /\ source \in {"open", "ended"} /\ alive \in 0..CPUs
    /\ loop \in {"receive", "last", "wait"} /\ next \in 1..(Len(Windows) + 1)
    /\ rows \in Seq(Files \X Nat) /\ batch \in RowSets /\ Cardinality(batch) < BatchRows
    /\ todo \in Seq(Messages) /\ failed \in BOOLEAN
    /\ planner.size \in 0..MaxShardRows /\ planner.held \in Seq(Files) /\ planner.open \in RowSets
    /\ encoder \in [at : {"select", "ended"}] \cup [at : {"cpu"}, rows : RowSets]
                   \cup [at : {"emit"}, rows : RowSets, cause : Causes]
    /\ calls \subseteq Calls /\ width \in 1..CallLimit
    /\ written \in RowSets /\ blocks \subseteq RowSets /\ collector \in {"select", "ended"}
    /\ got \in RowSets /\ plans \in Seq(RowSets) /\ stream \in {"select", "ended"}
    /\ shards \in Seq([rows : RowSets,
                       state : {"start", "cpu", "build", "linkable", "linked", "whole", "stopped"}])
    /\ used \in 0..ReadBudget /\ leases \in 0..(CPUs - 1 + Max({1, CallCPUs}))
    /\ {canceled, interrupted} \subseteq BOOLEAN
    /\ causes \in [{"source", "extraction", "output", "graphs"} -> Causes]
    /\ result \in {"none", "ok", "failure", "canceled"} /\ faults \in 0..MaxFaults

Init ==
    /\ stage = [f \in Files |-> "unread"] /\ source = "open" /\ alive = CPUs
    /\ loop = "receive" /\ next = 1 /\ rows = <<>> /\ batch = {} /\ todo = <<>> /\ failed = FALSE
    /\ planner = NoPlanner
    /\ encoder = [at |-> "select"] /\ calls = {} /\ width = 1
    /\ written = {} /\ blocks = {} /\ collector = "select"
    /\ got = {} /\ plans = <<>> /\ shards = <<>> /\ stream = "select"
    /\ used = 0 /\ leases = 0 /\ canceled = FALSE /\ interrupted = FALSE
    /\ causes = [s \in {"source", "extraction", "output", "graphs"} |-> NoCause]
    /\ result = "none" /\ faults = 0

Fault(kind) == kind \in FaultKinds /\ faults < MaxFaults /\ faults' = faults + 1

\* The first error of a stage stays.
Tell(s, cause) == causes' = [causes EXCEPT ![s] = IF @ = NoCause THEN cause ELSE @]

Goto(f, place) == stage' = [stage EXCEPT ![f] = place]

-----------------------------------------------------------------------------
(* The source and the extraction workers.                                  *)

InStage(places) == {f \in Files : stage[f] \in places}

\* The source takes the weight of the files in order, and the dispatcher holds one
\* more file.
Take(f) ==
    /\ source = "open" /\ ~canceled
    /\ stage[f] = "unread" /\ \A g \in 1..(f - 1) : stage[g] # "unread"
    /\ Cardinality(InStage({"read"})) < 2 /\ used < ReadBudget
    /\ Goto(f, "read") /\ used' = used + 1
    /\ UNCHANGED <<source, alive, loopVars, callVars, diskVars, graphVars, leases, canceled, causes,
                   endVars, faults>>

\* A source that fails cancels nothing: the stages end the files that they have.
EndSource ==
    /\ source = "open"
    /\ \/ InStage({"unread"}) = {} /\ UNCHANGED <<causes, faults>>
       \/ Fault("read") /\ Tell("source", "failure")
       \/ canceled /\ Tell("source", "canceled") /\ UNCHANGED faults
    /\ source' = "ended"
    /\ UNCHANGED <<stage, alive, loopVars, callVars, diskVars, graphVars, used, leases, canceled, endVars>>

\* dispatchSemanticDocuments gives a worker the next file, or drains the source.
Dispatch(f) ==
    /\ stage[f] = "read" /\ \A g \in 1..(f - 1) : stage[g] # "read"
    /\ \/ Cardinality(InStage(Extracting \cup Sending)) < alive /\ Goto(f, "cpu") /\ UNCHANGED used
       \/ canceled /\ Goto(f, "lost") /\ used' = used - 1
    /\ UNCHANGED <<source, alive, loopVars, callVars, diskVars, graphVars, leases, canceled, causes,
                   endVars, faults>>

\* dynamicCPUGate.acquire: the last task may cross the limit.
CanLease == leases < CPUs

StartExtract(f) ==
    /\ stage[f] = "cpu" /\ CanLease
    /\ Goto(f, "parse") /\ leases' = leases + 1
    /\ UNCHANGED <<source, alive, loopVars, callVars, diskVars, graphVars, used, canceled, causes,
                   endVars, faults>>

\* Mutant: the worker that fails cancels the build itself.
ExtractCancels(f) ==
    /\ stage[f] = "parse" /\ leases' = leases - 1
    /\ \/ Goto(f, "send") /\ UNCHANGED <<faults, canceled>>
       \/ Fault("window") /\ Goto(f, "send failure") /\ canceled' = TRUE
       \/ canceled /\ Goto(f, "send canceled") /\ UNCHANGED <<faults, canceled>>
    /\ UNCHANGED <<source, alive, loopVars, callVars, diskVars, graphVars, used, causes, endVars>>

\* The lease goes before the send.  The loop cancels the build when it has the error.
Extract(f) ==
    /\ stage[f] = "parse" /\ leases' = leases - 1
    /\ \/ Goto(f, "send") /\ UNCHANGED faults
       \/ Fault("window") /\ Goto(f, "send failure")
       \/ canceled /\ Goto(f, "send canceled") /\ UNCHANGED faults
    /\ UNCHANGED <<source, alive, loopVars, callVars, diskVars, graphVars, used, canceled, causes, endVars>>

QuitWorker(f) ==
    /\ canceled /\ stage[f] \in {"cpu"} \cup Sending
    /\ Goto(f, "dropped") /\ used' = used - 1 /\ alive' = alive - 1
    /\ UNCHANGED <<source, loopVars, callVars, diskVars, graphVars, leases, canceled, causes, endVars, faults>>

DispatchEnded == source = "ended" /\ InStage({"read"}) = {}

\* The workers have returned: no file comes, or each one met the cancel.
ExtractedEnded == (DispatchEnded \/ alive = 0) /\ InStage(Extracting \cup Sending) = {}

-----------------------------------------------------------------------------
(* The shard planner.                                                      *)

ShardRowsFor(count) ==
    LET sizes == {s \in MinShardRows..MaxShardRows : \E k \in 0..MaxShardRows : s * 2^k = MaxShardRows}
        fit   == {s \in sizes : s <= count \div CPUs}
    IN IF fit = {} THEN MinShardRows ELSE Max(fit)

IsAnchor(f, count, size) ==
    f \in Anchors \/ count >= Max({1, size \div AnchorDivisor})

\* A long file gets shards of its own; a file that does not fit closes the shard;
\* an anchor closes a shard that is nearly full.
Cut(size, acc, f) ==
    LET of     == {n \in DOMAIN AllRows : AllRows[n][1] = f}
        count  == Cardinality(of)
        first  == Min(of)
        pieces == (count + size - 1) \div size
        Piece(p) == (first + (count * (p - 1)) \div pieces)..(first + (count * p) \div pieces - 1)
        closed == IF acc.open = {} THEN acc.plans ELSE Append(acc.plans, acc.open)
        fits   == Cardinality(acc.open) + count <= size
        open   == IF fits THEN acc.open \cup of ELSE of
        before == IF fits THEN acc.plans ELSE closed
    IN IF count = 0 THEN acc
       ELSE IF count > size
       THEN [open |-> {}, plans |-> closed \o [p \in 1..pieces |-> Piece(p)]]
       ELSE IF Cardinality(open) >= size - size \div FloorDivisor /\ IsAnchor(f, count, size)
       THEN [open |-> {}, plans |-> Append(before, open)]
       ELSE [open |-> open, plans |-> before]

CutAll(size, open, files) ==
    FoldLeft(LAMBDA acc, f : Cut(size, acc, f), [open |-> open, plans |-> <<>>], files)

\* addFile: the size comes from the rows once there are enough of them.
HeldRows(held) == Cardinality({n \in DOMAIN AllRows : AllRows[n][1] \in Range(held)})

Planned(f) ==
    IF planner.size # 0
    THEN LET cut == CutAll(planner.size, planner.open, <<f>>)
         IN [planner |-> [planner EXCEPT !.open = cut.open], plans |-> cut.plans]
    ELSE LET held == Append(planner.held, f)
         IN IF HeldRows(held) < MaxShardRows * CPUs
            THEN [planner |-> [planner EXCEPT !.held = held], plans |-> <<>>]
            ELSE LET size == ShardRowsFor(HeldRows(held))
                     cut  == CutAll(size, {}, held)
                 IN [planner |-> [size |-> size, held |-> <<>>, open |-> cut.open], plans |-> cut.plans]

\* finish
LastPlans ==
    LET size == IF planner.size # 0 THEN planner.size ELSE ShardRowsFor(HeldRows(planner.held))
        cut  == CutAll(size, planner.open, planner.held)
    IN IF cut.open = {} THEN cut.plans ELSE Append(cut.plans, cut.open)

-----------------------------------------------------------------------------
(* The build loop of buildSemanticGeneration.                              *)

Message(to, set) == [to |-> to, rows |-> set]
ToGraphs(sets)   == [i \in DOMAIN sets |-> Message("graphs", sets[i])]

\* The files that a batch still reads.  The sets stand for the counter of
\* semanticBuildOwner: the loop has its own count of a file until the last retain, so a
\* count is zero just when no batch holds the file.  The single steps of retain and done
\* are not told apart.
OwnersOf(set) == {rows[n][1] : n \in set}
OwnedBy(sets) == UNION {OwnersOf(s) : s \in sets}

\* The batches, made or on their way, that hold files: of the loop, of the encoder
\* and of the model.
Batches ==
    {batch} \cup {todo[i].rows : i \in {j \in DOMAIN todo : todo[j].to = "encoder"}}
    \cup (IF encoder.at = "cpu" THEN {encoder.rows} ELSE {})
    \cup {c.rows : c \in {d \in calls : d.cause = "running"}}

\* A batch that ends gives back the files that no other batch reads.
Release(set, others) ==
    used' = used - Cardinality(OwnersOf(set) \ OwnedBy(others))

\* A result that comes in is kept until its turn.
Receive(f) ==
    /\ loop = "receive" /\ todo = <<>> /\ stage[f] \in Sending
    /\ failed \/ stage[next] # "pending"
    /\ IF stage[f] = "send" /\ ~failed /\ ~canceled
       THEN Goto(f, "pending") /\ UNCHANGED <<failed, canceled, causes, used>>
       ELSE /\ Goto(f, "dropped") /\ used' = used - 1 /\ failed' = TRUE
            /\ IF stage[f] = "send" THEN UNCHANGED <<canceled, causes>>
               ELSE /\ Tell("extraction", IF stage[f] = "send failure" THEN "failure" ELSE "canceled")
                    /\ canceled' = TRUE
    /\ UNCHANGED <<source, alive, loop, next, rows, batch, todo, planner, callVars, diskVars, graphVars,
                   leases, endVars, faults>>

\* The windows of a file join the pending batch or go as copies.
Sorted(start, f) ==
    LET Add(acc, w) ==
            LET n == start + w
            IN IF Windows[f][w] = "copy"
               THEN IF Cardinality(acc.copies) + 1 = BatchRows
                    THEN [acc EXCEPT !.out = Append(@, Message("collector", acc.copies \cup {n})), !.copies = {}]
                    ELSE [acc EXCEPT !.copies = @ \cup {n}]
               ELSE IF Cardinality(acc.batch) + 1 = BatchRows
                    THEN [acc EXCEPT !.out = Append(@, Message("encoder", acc.batch \cup {n})), !.batch = {}]
                    ELSE [acc EXCEPT !.batch = @ \cup {n}]
        sorted == FoldLeft(Add, [batch |-> batch, copies |-> {}, out |-> <<>>],
                           [w \in DOMAIN Windows[f] |-> w])
    IN [sorted EXCEPT !.out = IF sorted.copies = {} THEN @ ELSE Append(@, Message("collector", sorted.copies))]

MergeFile(f) ==
    LET of     == [w \in DOMAIN Windows[f] |-> <<f, w>>]
        sorted == Sorted(Len(rows), f)
        plan   == Planned(f)
    IN /\ Goto(f, "merged") /\ rows' = rows \o of
       /\ planner' = IF of = <<>> THEN planner ELSE plan.planner
       /\ todo' = (IF of = <<>> THEN <<>> ELSE ToGraphs(plan.plans)) \o sorted.out
       /\ batch' = sorted.batch
       /\ used' = IF \E w \in DOMAIN Windows[f] : Windows[f][w] = "model" THEN used ELSE used - 1
       /\ UNCHANGED <<source, alive, loop, failed, callVars, diskVars, graphVars, leases, canceled,
                      causes, endVars, faults>>

\* Mutant: the files are merged as they come.
MergeAny(f) ==
    /\ loop = "receive" /\ todo = <<>> /\ ~failed /\ stage[f] = "pending"
    /\ next' = next + 1
    /\ MergeFile(f)

\* The file whose turn it is gets its rows.
Merge(f) ==
    /\ loop = "receive" /\ todo = <<>> /\ ~failed /\ stage[f] = "pending" /\ next = f
    /\ next' = next + 1
    /\ MergeFile(f)

\* After a cancel the loop gives up what it has to send.  What the file has left in
\* the pending batch is given back with that batch, when the files end.
Abandon ==
    /\ canceled /\ todo # <<>>
    /\ LET gone == {todo[i].rows : i \in {j \in DOMAIN todo : todo[j].to = "encoder"}}
       IN used' = used - Cardinality(OwnedBy(gone) \ OwnedBy(Batches \ gone))
    /\ todo' = <<>> /\ failed' = TRUE
    /\ UNCHANGED <<stage, source, alive, loop, next, rows, batch, planner, callVars, diskVars, graphVars,
                   leases, canceled, causes, endVars, faults>>

\* After the last file: the last batch and the last shards, or nothing.
EndFiles ==
    /\ loop = "receive" /\ todo = <<>> /\ ExtractedEnded
    /\ failed \/ InStage({"pending"}) \cap {next} = {}
    /\ loop' = "last" /\ batch' = {}
    /\ stage' = [f \in Files |-> IF stage[f] = "pending" THEN "dropped" ELSE stage[f]]
    /\ LET kept == Cardinality(InStage({"pending"}))
       IN IF failed
          THEN /\ used' = used - kept - Cardinality(OwnersOf(batch) \ OwnedBy(Batches \ {batch}))
               /\ UNCHANGED todo
          ELSE /\ used' = used - kept
               /\ todo' = (IF batch = {} THEN <<>> ELSE <<Message("encoder", batch)>>) \o ToGraphs(LastPlans)
    /\ UNCHANGED <<source, alive, next, rows, failed, planner, callVars, diskVars, graphVars, leases,
                   canceled, causes, endVars, faults>>

CloseChannels ==
    /\ loop = "last" /\ todo = <<>>
    /\ loop' = "wait"
    /\ UNCHANGED <<stage, source, alive, next, rows, batch, todo, failed, planner, callVars, diskVars,
                   graphVars, used, leases, canceled, causes, endVars, faults>>

Sends(to) == todo # <<>> /\ Head(todo).to = to /\ todo' = Tail(todo)

-----------------------------------------------------------------------------
(* encodeSemanticBatches.                                                  *)

\* The next width is at most the double; it also goes back to one that was better.
ProbeWidth == Min({CallLimit, Max({width + 1, 2 * width})})
Widths     == 1..ProbeWidth

\* Mutant: a batch that comes after a cancel is dropped with what it holds.
TakeBatchDrops ==
    /\ encoder.at = "select" /\ Cardinality(calls) < width /\ Sends("encoder")
    /\ encoder' = IF canceled THEN encoder ELSE [at |-> "cpu", rows |-> Head(todo).rows]
    /\ UNCHANGED <<stage, source, alive, loop, next, rows, batch, failed, planner, calls, width, diskVars,
                   graphVars, used, leases, canceled, causes, endVars, faults>>

\* start: a batch that comes after a cancel is given back.
TakeBatch ==
    /\ encoder.at = "select" /\ Cardinality(calls) < width /\ Sends("encoder")
    /\ IF canceled
       THEN Release(Head(todo).rows, Batches \ {Head(todo).rows}) /\ UNCHANGED encoder
       ELSE encoder' = [at |-> "cpu", rows |-> Head(todo).rows] /\ UNCHANGED used
    /\ UNCHANGED <<stage, source, alive, loop, next, rows, batch, failed, planner, calls, width, diskVars,
                   graphVars, leases, canceled, causes, endVars, faults>>

\* The call waits for its processors, or gives its batch back after a cancel.
StartCall ==
    /\ encoder.at = "cpu"
    /\ encoder' = [at |-> "select"]
    /\ \/ /\ CallCPUs = 0 \/ CanLease
          /\ leases' = leases + CallCPUs
          /\ calls' = calls \cup {[rows |-> encoder.rows, cause |-> "running"]}
          /\ UNCHANGED used
       \/ /\ canceled /\ Release(encoder.rows, Batches \ {encoder.rows})
          /\ UNCHANGED <<leases, calls>>
    /\ UNCHANGED <<stage, source, alive, loopVars, width, diskVars, graphVars, canceled, causes, endVars, faults>>

Outcome(cause) ==
    \/ cause = NoCause /\ UNCHANGED faults
    \/ cause = "failure" /\ Fault("model")
    \/ cause = "canceled" /\ canceled /\ UNCHANGED faults

\* A call gives back its lease and its files before the loop takes its result.
EndCall(c, cause) ==
    /\ c \in calls /\ c.cause = "running" /\ Outcome(cause)
    /\ calls' = (calls \ {c}) \cup {[c EXCEPT !.cause = cause]}
    /\ leases' = leases - CallCPUs
    /\ Release(c.rows, Batches \ {c.rows})
    /\ UNCHANGED <<stage, source, alive, loopVars, encoder, width, diskVars, graphVars, canceled, causes,
                   endVars>>

\* finish: a failed call cancels before its result goes on.
TakeResult(c) ==
    /\ encoder.at = "select" /\ c \in calls /\ c.cause # "running"
    /\ calls' = calls \ {c}
    /\ encoder' = [at |-> "emit", rows |-> c.rows, cause |-> c.cause]
    /\ canceled' = (canceled \/ c.cause # NoCause)
    /\ UNCHANGED <<stage, source, alive, loopVars, width, diskVars, graphVars, used, leases, causes,
                   endVars, faults>>

EndEncoder ==
    /\ encoder.at = "select" /\ loop = "wait" /\ calls = {}
    /\ encoder' = [at |-> "ended"]
    /\ UNCHANGED <<stage, source, alive, loopVars, calls, width, diskVars, graphVars, used, leases,
                   canceled, causes, endVars, faults>>

-----------------------------------------------------------------------------
(* collectSemanticBatches.                                                 *)

\* A block goes to the graphs when its rows are on disk; the last one is short.
Block(k) == {n \in DOMAIN AllRows : (n - 1) \div BatchRows = k}
Full(set) == {Block(k) : k \in {j \in 0..(Len(AllRows) \div BatchRows) :
                                   Cardinality(Block(j)) = BatchRows /\ Block(j) \subseteq set}}

Write(set) ==
    \/ /\ written' = written \cup set
       /\ blocks' = blocks \cup (Full(written \cup set) \ Full(written))
       /\ UNCHANGED <<canceled, causes, faults>>
    \/ /\ Fault("disk") /\ Tell("output", "failure") /\ canceled' = TRUE
       /\ UNCHANGED <<written, blocks>>

Ready == collector = "select" /\ blocks = {}

\* Mutant: the collector takes nothing after its first error.
CollectNoMore ==
    /\ Ready /\ encoder.at = "emit" /\ causes["output"] = NoCause
    /\ encoder' = [at |-> "select"] /\ width' \in Widths
    /\ IF encoder.cause # NoCause
       THEN Tell("output", encoder.cause) /\ canceled' = TRUE /\ UNCHANGED <<written, blocks, faults>>
       ELSE Write(encoder.rows)
    /\ UNCHANGED <<stage, source, alive, loopVars, calls, collector, graphVars, used, leases, endVars>>

\* After its first error the collector drains both inputs.
CollectBatch ==
    /\ Ready /\ encoder.at = "emit"
    /\ encoder' = [at |-> "select"] /\ width' \in Widths
    /\ IF causes["output"] # NoCause THEN UNCHANGED <<written, blocks, canceled, causes, faults>>
       ELSE IF encoder.cause # NoCause
       THEN Tell("output", encoder.cause) /\ canceled' = TRUE /\ UNCHANGED <<written, blocks, faults>>
       ELSE Write(encoder.rows)
    /\ UNCHANGED <<stage, source, alive, loopVars, calls, collector, graphVars, used, leases, endVars>>

CollectCopies ==
    /\ Ready /\ Sends("collector")
    /\ IF causes["output"] # NoCause THEN UNCHANGED <<written, blocks, canceled, causes, faults>>
       ELSE Write(Head(todo).rows)
    /\ UNCHANGED <<stage, source, alive, loop, next, rows, batch, failed, planner, callVars, collector,
                   graphVars, used, leases, endVars>>

\* finish sends the rows of the last, short block.
EndCollector ==
    /\ Ready /\ loop = "wait" /\ encoder.at = "ended"
    /\ LET short == written \ UNION Full(written)
       IN blocks' = IF causes["output"] = NoCause /\ written = 1..Cardinality(written) /\ short # {}
                    THEN {short} ELSE {}
    /\ IF causes["output"] = NoCause /\ written # 1..Cardinality(written)
       THEN Tell("output", "failure") /\ canceled' = TRUE
       ELSE UNCHANGED <<canceled, causes>>
    /\ collector' = "ended"
    /\ UNCHANGED <<stage, source, alive, loopVars, callVars, written, graphVars, used, leases, endVars, faults>>

-----------------------------------------------------------------------------
(* buildSemanticUSearchStream.                                             *)

\* The rows from the first that are in.
InRows    == Max({n \in 0..Len(AllRows) : 1..n \subseteq got})
HeadReady == plans # <<>> /\ ~canceled /\ Max(Head(plans)) <= InRows
Running   == {i \in DOMAIN shards : shards[i].state \in {"start", "cpu", "build"}}
Listens   == stream = "select" /\ ~HeadReady

TakeBlock(b) ==
    /\ Listens /\ b \in blocks
    /\ blocks' = blocks \ {b} /\ got' = IF canceled THEN got ELSE got \cup b
    /\ UNCHANGED <<stage, source, alive, loopVars, callVars, written, collector, plans, shards, stream,
                   used, leases, canceled, causes, endVars, faults>>

TakePlan ==
    /\ Listens /\ Sends("graphs")
    /\ plans' = IF canceled THEN plans ELSE Append(plans, Head(todo).rows)
    /\ UNCHANGED <<stage, source, alive, loop, next, rows, batch, failed, planner, callVars, diskVars,
                   got, shards, stream, used, leases, canceled, causes, endVars, faults>>

\* submit: the stream waits when every shard build runs.
Submit ==
    /\ stream = "select" /\ HeadReady /\ Cardinality(Running) < CPUs
    /\ shards' = Append(shards, [rows |-> Head(plans), state |-> "start"])
    /\ plans' = Tail(plans)
    /\ UNCHANGED <<stage, source, alive, loopVars, callVars, diskVars, got, stream, used, leases,
                   canceled, causes, endVars, faults>>

ShardTo(i, state) == shards' = [shards EXCEPT ![i].state = state]

\* Mutant: a shard build takes a processor whatever the gate says.
LeaseFreely(i) ==
    /\ i \in DOMAIN shards /\ shards[i].state = "cpu"
    /\ leases' = leases + 1 /\ ShardTo(i, "build")
    /\ UNCHANGED <<stage, source, alive, loopVars, callVars, diskVars, got, plans, stream, used, canceled,
                   causes, endVars, faults>>

\* prepareSemanticUSearchShard: a published graph of the same rows is verified for a
\* later link, unless its file is damaged.
StartShard(i) ==
    /\ i \in DOMAIN shards /\ shards[i].state = "start"
    /\ \/ canceled /\ ShardTo(i, "stopped")
       \/ ~canceled /\ shards[i].rows \in Live /\ ShardTo(i, "linkable")
       \/ ~canceled /\ ShardTo(i, "cpu")
    /\ UNCHANGED <<stage, source, alive, loopVars, callVars, diskVars, got, plans, stream, used, leases,
                   canceled, causes, endVars, faults>>

LeaseShard(i) ==
    /\ i \in DOMAIN shards /\ shards[i].state = "cpu"
    /\ \/ CanLease /\ leases' = leases + 1 /\ ShardTo(i, "build")
       \/ canceled /\ UNCHANGED leases /\ ShardTo(i, "stopped")
    /\ UNCHANGED <<stage, source, alive, loopVars, callVars, diskVars, got, plans, stream, used, canceled,
                   causes, endVars, faults>>

BuildShard(i) ==
    /\ i \in DOMAIN shards /\ shards[i].state = "build" /\ leases' = leases - 1
    /\ \/ ShardTo(i, "whole") /\ UNCHANGED <<canceled, causes, faults>>
       \/ canceled /\ ShardTo(i, "stopped") /\ UNCHANGED <<canceled, causes, faults>>
       \/ /\ ~canceled /\ Fault("graph") /\ ShardTo(i, "stopped")
          /\ Tell("graphs", "failure") /\ canceled' = TRUE
    /\ UNCHANGED <<stage, source, alive, loopVars, callVars, diskVars, got, plans, stream, used, endVars>>

\* The links come when every shard is there.
EndStream ==
    /\ stream = "select" /\ ~HeadReady
    /\ loop = "wait" /\ collector = "ended" /\ blocks = {} /\ Running = {}
    /\ stream' = "ended"
    /\ IF canceled
       THEN Tell("graphs", "canceled") /\ UNCHANGED <<shards, canceled, faults>>
       ELSE IF plans # <<>> \/ InRows # Cardinality(UNION {shards[i].rows : i \in DOMAIN shards})
       THEN Tell("graphs", "failure") /\ canceled' = TRUE /\ UNCHANGED <<shards, faults>>
       ELSE \/ /\ shards' = [i \in DOMAIN shards |->
                               IF shards[i].state = "linkable" THEN [shards[i] EXCEPT !.state = "linked"]
                               ELSE shards[i]]
               /\ UNCHANGED <<causes, canceled, faults>>
            \/ /\ \E i \in DOMAIN shards : shards[i].state = "linkable"
               /\ Fault("graph") /\ Tell("graphs", "failure") /\ canceled' = TRUE /\ UNCHANGED shards
    /\ UNCHANGED <<stage, source, alive, loopVars, callVars, diskVars, got, plans, used, leases, endVars>>

-----------------------------------------------------------------------------

Interrupt ==
    /\ result = "none" /\ Fault("interrupt")
    /\ interrupted' = TRUE /\ canceled' = TRUE
    /\ UNCHANGED <<stage, source, alive, loopVars, callVars, diskVars, graphVars, used, leases, causes, result>>

Dispatched == Cardinality(InStage({"pending", "merged", "dropped"} \cup Extracting \cup Sending))

\* An error that is not a cancellation comes first.
Cause ==
    IF interrupted THEN "canceled"
    ELSE IF \E s \in DOMAIN causes : causes[s] = "failure" THEN "failure"
    ELSE IF \E s \in DOMAIN causes : causes[s] = "canceled" THEN "canceled"
    ELSE NoCause

Return ==
    /\ result = "none" /\ loop = "wait" /\ collector = "ended" /\ stream = "ended" /\ DispatchEnded
    /\ result' = IF Cause # NoCause THEN Cause
                 ELSE IF Cardinality(written) # Len(rows) \/ failed \/ next # Dispatched + 1 THEN "failure"
                 ELSE "ok"
    /\ UNCHANGED <<stage, source, alive, loopVars, callVars, diskVars, graphVars, used, leases, canceled,
                   causes, interrupted, faults>>

Extraction == \E f \in Files :
    Take(f) \/ Dispatch(f) \/ StartExtract(f) \/ Extract(f) \/ QuitWorker(f)
Loop == (\E f \in Files : Receive(f) \/ Merge(f)) \/ Abandon \/ EndFiles \/ CloseChannels
Encode ==
    \/ TakeBatch \/ StartCall \/ EndEncoder
    \/ \E c \in calls : TakeResult(c) \/ \E cause \in Causes : EndCall(c, cause)
Collect == CollectBatch \/ CollectCopies \/ EndCollector
Graphs ==
    \/ TakePlan \/ Submit \/ EndStream \/ \E b \in blocks : TakeBlock(b)
    \/ \E i \in DOMAIN shards : StartShard(i) \/ LeaseShard(i) \/ BuildShard(i)

Step == EndSource \/ Extraction \/ Loop \/ Encode \/ Collect \/ Graphs \/ Return
Next == Step \/ Interrupt \/ (result # "none" /\ UNCHANGED vars)

\* The scheduler runs every stage that can go on; no fault has to happen.
Spec == Init /\ [][Next]_vars /\ WF_vars(Step /\ faults' = faults)

-----------------------------------------------------------------------------
(* Properties.                                                             *)

\* buildSemanticGeneration: a build that succeeds holds every window of every file,
\* in file order whatever the order in which parsers and models end; and its graph
\* shards cut these rows, in order, with no gap and no row twice.
BuiltWhole ==
    result = "ok" =>
        /\ rows = AllRows /\ written = DOMAIN AllRows
        /\ \A i \in DOMAIN shards :
              /\ shards[i].state \in {"whole", "linked"}
              /\ Min(shards[i].rows) = (IF i = 1 THEN 1 ELSE Max(shards[i - 1].rows) + 1)
              /\ Cardinality(shards[i].rows) = Max(shards[i].rows) - Min(shards[i].rows) + 1
              /\ Cardinality(shards[i].rows) <= MaxShardRows
        /\ UNION {shards[i].rows : i \in DOMAIN shards} = DOMAIN AllRows

\* The stages cancel each other; the build still tells what failed first, and says
\* "canceled" only of a search that was interrupted.
CauseIsTold == result = "canceled" => interrupted

\* The read weight of a file is given back exactly once, on every path: while the
\* build runs it counts the files that a stage still reads, and at the end nothing.
WeightsReturned ==
    /\ used = Cardinality(InStage(Held) \cup OwnedBy(Batches))
    /\ result # "none" => used = 0 /\ leases = 0

\* The files of the pending batch, each with one row in it, leave a read its weight.
\* (The smallest read budget of the code does not, for 128 rows: VectorStalls.)
BatchesFit == BatchRows - 1 < ReadBudget

\* However the stages wait for each other, for weights and for processors, the build
\* ends, if the pending batch cannot hold the whole read budget.
Ends == BatchesFit => <>(result # "none")

=============================================================================
