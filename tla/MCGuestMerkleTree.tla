-------------------------- MODULE MCGuestMerkleTree --------------------------
(* All lists of up to MaxLeaves values, repetitions included: even and odd   *)
(* numbers of leaves, the empty list and the single leaf.                    *)
EXTENDS GuestMerkleTree
=============================================================================
