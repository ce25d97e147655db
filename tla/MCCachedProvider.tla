-------------------------- MODULE MCCachedProvider --------------------------
(* A header query and a query about an account at the same block. *)
EXTENDS CachedProvider, TLC

CONSTANTS header, account

Symmetry == Permutations(Providers) \cup Permutations(Answers)
=============================================================================
