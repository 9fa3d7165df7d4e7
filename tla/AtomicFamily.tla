---------------------------- MODULE AtomicFamily ----------------------------
(***************************************************************************)
(* What the publish of a shard family promises to whoever looks at the     *)
(* index directory while no swap runs: the files that a search may trust   *)
(* change only all together, to the complete family of a finished build.   *)
(* Anything else that happens to them takes the trust away first.          *)
(***************************************************************************)
EXTENDS Naturals

CONSTANTS Names, Sizes

NoFile == [gen |-> 0, size |-> 0]

\* A file of a family: the build that wrote it, and its size.
File == [gen: Nat \ {0}, size: Sizes] \cup {NoFile}

Family == [Names -> File]

VARIABLES
    files,    \* the shard files of the node
    trusted,  \* no .swapping, and the family manifest agrees with the files
    staged    \* the files of the build directory

vars == <<files, trusted, staged>>

TypeOK ==
    /\ files \in Family
    /\ trusted \in BOOLEAN
    /\ staged \in Family

Init ==
    /\ files = [n \in Names |-> NoFile]
    /\ trusted = FALSE
    /\ staged = [n \in Names |-> NoFile]

\* A build fills its directory, or gives it up.
Stage ==
    /\ staged' \in Family
    /\ UNCHANGED <<files, trusted>>

\* The whole build directory becomes the family in one step.
Publish ==
    /\ files' = staged
    /\ trusted' \in BOOLEAN
    /\ UNCHANGED staged

\* A crash or a disk error: nothing is known of the files, and no search trusts
\* them.
Lose ==
    /\ trusted' = FALSE
    /\ files' \in Family
    /\ staged' \in Family

Next == Stage \/ Publish \/ Lose

Spec == Init /\ [][Next]_vars

=============================================================================
