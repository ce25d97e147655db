---------------------------- MODULE MCMerkleTrie ----------------------------
(* Keys that share prefixes of all lengths.  The RLP of the long value makes *)
(* a leaf with two or three nibbles of path 32 bytes long, the least that is *)
(* hashed, and one with a shorter path 30.                                   *)
EXTENDS MerkleTrie, TLC

CONSTANTS short, long

MCKeys == {<<0, 0, 0, 0>>, <<0, 0, 0, 1>>, <<0, 1, 0, 0>>, <<0, 1, 1, 1>>,
           <<1, 0, 0, 0>>}
MCValueLength == (short :> 1) @@ (long :> 28)
=============================================================================
