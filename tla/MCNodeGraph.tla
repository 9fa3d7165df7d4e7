---------------------------- MODULE MCNodeGraph ----------------------------
(* A folder <<1>> with a repository that holds a nested one, two paths to   *)
(* one directory, broken ".git" files, a bare repository and a directory    *)
(* that cannot be listed.  In the repository, Git lists the broken gitlink  *)
(* <<1, 1, 3, 2>> as one record and the broken <<1, 1, 3, 1>> file by file. *)
EXTENDS NodeGraph

None   == [type |-> "none"]
Whole  == [type |-> "dir", has |-> {"HEAD", "objects", "refs"}, accepted |-> TRUE]
Broken == [type |-> "file", names |-> "missing", accepted |-> FALSE]

Disk == {<<1>>, <<1, 1>>, <<1, 1, 1>>, <<1, 1, 1, 1>>, <<1, 1, 2>>, <<1, 1, 3>>, <<1, 1, 3, 1>>, <<1, 1, 3, 1, 1>>,
         <<1, 1, 3, 2>>, <<1, 2>>, <<1, 2, 1>>, <<1, 3>>, <<1, 3, 1>>, <<1, 4>>, <<1, 5>>, <<1, 5, 1>>, <<1, 6>>}
\* <<1, 3>> is another path to <<1, 2>>.
Canonical(d) == IF IsPrefix(<<1, 3>>, d) THEN <<1, 2>> \o SubSeq(d, 3, Len(d)) ELSE d
Number(d)    == 1 + Cardinality({e \in Disk : PathLess(e, d)})
DiskId       == [d \in Disk |-> Number(Canonical(d))]
DiskEntry    == [d \in Disk |-> CASE d \in {<<1, 1>>, <<1, 1, 1, 1>>} -> Whole
                                  [] d \in {<<1, 4>>, <<1, 1, 3, 1>>, <<1, 1, 3, 2>>} -> Broken
                                  [] OTHER -> None]
Closed       == {<<1, 5>>}
NotTracked   == {<<1, 1, 2>>}
Submodules   == {<<1, 1, 3, 2>>}
Mirrors      == {<<1, 6>>}
Command      == << <<1>>, <<1, 1, 3>>, <<1, 2, 1>>, <<1, 4>>, <<1, 1, 3, 1, 1>> >>
=============================================================================
