---------------------------- MODULE MCGitCorpus ----------------------------
(***************************************************************************)
(* Instances of GitCorpus for TLC.                                         *)
(***************************************************************************)
EXTENDS GitCorpus, TLC

CONSTANTS f, g, c1, c2, x, y, z

\* Two commits share blob y.
TwoCommits == (1 :> {x, y}) @@ (2 :> {y, z})
=============================================================================
