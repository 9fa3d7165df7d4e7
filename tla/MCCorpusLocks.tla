--------------------------- MODULE MCCorpusLocks ---------------------------
(***************************************************************************)
(* Instances of CorpusLocks for TLC.                                       *)
(***************************************************************************)
EXTENDS CorpusLocks, TLC

CONSTANTS c1, c2, c3, e1, e2, n1, n2

\* Commands, sweeps, Git nodes and folders are each alike.  Used only by runs
\* that check no liveness.
Symmetry == Permutations(Commands) \cup Permutations(Evictors)
            \cup Permutations(GitNodes) \cup Permutations(Nodes \ GitNodes)

=============================================================================
