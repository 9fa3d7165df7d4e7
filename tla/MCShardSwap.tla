---------------------------- MODULE MCShardSwap ----------------------------
(* An instance of ShardSwap for TLC. *)
EXTENDS ShardSwap

CONSTANTS a, b

=============================================================================
