-------------------------- MODULE MCVerifiedAirdrop --------------------------
(* Two players, two roots; one leaf is in only one of the trees.  A         *)
(* registration is worth 2 points, a play 1 or 2.                           *)
EXTENDS VerifiedAirdrop, TLC

CONSTANTS root1, root2, leaf1, leaf2

MCProvable == (root1 :> {leaf1}) @@ (root2 :> {leaf2})
=============================================================================
