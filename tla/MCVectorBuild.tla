--------------------------- MODULE MCVectorBuild ---------------------------
(* Four files: one window; a copy and two calls, longer than a shard; no    *)
(* window; a call and a copy.  Two graphs are published, one of them of     *)
(* rows that the planner cuts the same way.                                 *)
EXTENDS VectorBuild

SmallTree  == << <<"model">>, <<"copy", "model", "model">>, <<>>, <<"model", "copy">> >>
SomeGraphs == {{1}, {3, 4}}

\* Seven files of the largest weight with one new window each: an edit of one line.
EditedTree == [f \in 1..7 |-> <<"copy", "model">>]

\* caps.go: the smallest read budget, six files of the largest weight, keeps two of
\* them free beside the windows of the consumers, so no read waits for ever.  The
\* pending model batch of a vector build has no window: it holds every file that has
\* a row in it until it has 128 rows.
NoReadWaitsForever ==
    used = ReadBudget /\ InStage({"unread"}) # {} ~> used < ReadBudget \/ canceled

=============================================================================
