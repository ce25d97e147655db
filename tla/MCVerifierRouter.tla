-------------------------- MODULE MCVerifierRouter --------------------------
(* The router with two accounts, two selectors and three verifiers.  The    *)
(* selectors are interchangeable, and so are the verifiers.                 *)
EXTENDS VerifierRouter, TLC

Symmetry == Permutations(Selectors) \cup Permutations(Verifiers)
=============================================================================
