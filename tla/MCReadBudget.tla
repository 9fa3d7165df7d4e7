---------------------------- MODULE MCReadBudget ----------------------------
(* Three builds of two commands on the smallest budget, in units of half a *)
(* largest document: a and b are the nodes of a command with two nodes, c  *)
(* is the only node of another command and takes the whole build budget.   *)
(* The window is one largest document for a and b, and two for c.          *)
EXTENDS ReadBudget

TwoCommands == [a |-> 2, b |-> 2, c |-> 1]
Readers == [a |-> "git", b |-> "folder", c |-> "dirty"]
Full == [a |-> <<3, 1>>, b |-> <<3, 3>>, c |-> <<3, 1, 3>>]
Changed == [a |-> <<3, 3, 3, 3, 3, 3, 3>>, b |-> <<>>, c |-> <<2, 1>>]
Longer == [a |-> <<>>, b |-> <<>>, c |-> <<2, 2>>]
OneFile == [size |-> 3, rows |-> 2]
HalfBatch == [size |-> 3, rows |-> 1]
Meaning == [a |-> <<>>, b |-> <<OneFile, OneFile, OneFile, OneFile>>, c |-> <<HalfBatch>>]
=============================================================================
