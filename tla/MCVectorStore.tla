--------------------------- MODULE MCVectorStore ---------------------------
(* Two commits that share a blob, which a partial clone may lack.          *)
EXTENDS VectorStore

CONSTANTS b1, b2, v1, v2

TwoCommits == [h \in {1, 2} |-> IF h = 1 THEN {b1, b2} ELSE {b1}]

=============================================================================
