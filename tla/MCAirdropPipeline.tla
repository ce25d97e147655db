-------------------------- MODULE MCAirdropPipeline --------------------------
(* Two publishers with different lists of values, at most one string sent   *)
(* by the owner, a blockhash window of two blocks, reorganisations of one   *)
(* block; one player on the destination, who can be paid once.              *)
EXTENDS AirdropPipeline, TLC

CONSTANTS run1, run2, root1, root2, leaf1, leaf2

MCRootOf == (run1 :> root1) @@ (run2 :> root2)
MCProvable == (root1 :> {leaf1}) @@ (root2 :> {leaf2}) @@ (StringWord :> {})
=============================================================================
