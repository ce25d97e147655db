---------------------------- MODULE SourceChain ----------------------------
(***************************************************************************)
(* The chain the OApp lives on, as the contracts and the RPC node of the   *)
(* publisher see it: the canonical sequence of blocks, extended one block  *)
(* at a time and occasionally reorganised.                                 *)
(*                                                                         *)
(* A block is identified by its hash, which commits to its content and to  *)
(* all its ancestors; the model's hash of block n is therefore the chain   *)
(* up to n itself.  Blocks mined after a reorganisation carry a new epoch, *)
(* so they differ from the ones they replace even when both are empty.     *)
(***************************************************************************)
EXTENDS Integers, Sequences

CONSTANTS
  Window,       \* how many blocks back the blockhash opcode answers (256)
  MaxReorg,     \* blocks a reorganisation replaces, at most
  MaxHeight,    \* bound on the length of the chain
  MaxEpoch      \* bound on the number of reorganisations

ASSUME ChainAssumption ==
  /\ Window \in Nat \ {0}
  /\ MaxReorg \in Nat /\ MaxHeight \in Nat \ {0} /\ MaxEpoch \in Nat

VARIABLES
  chain,    \* sequence of blocks [epoch, run, payload]
  epoch,
  tip       \* the greatest height the chain has had

chainVars == <<chain, epoch, tip>>

Height == Len(chain)

\* The value no block's hash has: blockhash of a number out of range.
ZeroHash == <<>>

HashOf(n) == IF n \in 1..Height THEN SubSeq(chain, 1, n) ELSE ZeroHash

\* The EVM's blockhash(n) in a transaction of the next block: the hash of one
\* of the last Window blocks, and zero for any other number.
BlockHash(n) == IF n >= Height + 1 - Window THEN HashOf(n) ELSE ZeroHash

\* Faulty variant: only the age of the block is looked at.
ValidateCommitmentAge(commitment) ==
  BlockHash(commitment.blockNumber) # ZeroHash

\* Steel.validateCommitment
ValidateCommitment(commitment) ==
  commitment.blockHash = BlockHash(commitment.blockNumber)

\* A block with at most one transaction of interest is appended.
Mine(run, payload) ==
  /\ Height < MaxHeight
  /\ chain' = Append(chain, [epoch |-> epoch, run |-> run, payload |-> payload])
  /\ tip' = IF Height + 1 > tip THEN Height + 1 ELSE tip
  /\ UNCHANGED epoch

\* The last `depth` blocks are abandoned; what replaces them is mined anew.
\* Blocks more than MaxReorg below the greatest height are final.
Reorg(depth) ==
  /\ epoch < MaxEpoch
  /\ depth < Height /\ Height - depth >= tip - MaxReorg
  /\ chain' = HashOf(Height - depth)
  /\ epoch' = epoch + 1
  /\ UNCHANGED tip
=============================================================================
