--------------------------- MODULE MCFolderCorpus ---------------------------
(* An instance of FolderCorpus for TLC: two searches of one file.          *)
EXTENDS FolderCorpus

CONSTANTS a, c1, c2

=============================================================================
