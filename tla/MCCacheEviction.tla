-------------------------- MODULE MCCacheEviction --------------------------
(***************************************************************************)
(* Instances of CacheEviction for TLC.                                     *)
(***************************************************************************)
EXTENDS CacheEviction, TLC

CONSTANTS s1, s2, g1, g2, u, r

\* The second search also uses the corpus of the first one.
TwoUses == (s1 :> {1}) @@ (s2 :> {1, 2})
=============================================================================
