----------------------------- MODULE SteelChain -----------------------------
(***************************************************************************)
(* The chain a call is about, as its node may show it: the forks, what a   *)
(* block commits to, and what a query of the EVM asks of a block.          *)
(* Hashes are injective: a state root, a storage root and a block hash are *)
(* modelled by what they commit to (a state, a storage, the chain up to    *)
(* the block).                                                             *)
(***************************************************************************)
EXTENDS ChainSpec, Sequences

CONSTANTS
  Addresses, Slots, Codes, Values,
  Zero,          \* the value of a slot never written
  NoCode,        \* what get_code returns where there is no account
  NoAccount,
  Forks,
  History,       \* [Forks -> Seq of [id, timestamp, rules, state]], where
                 \* rules are those the network itself ran the block under
  BlockNumber    \* the block the environment is created for

Account == [code : Codes, storage : [Slots -> Values]]
State == [Addresses -> Account \cup {NoAccount}]
BlockData == [id : Forks, timestamp : Nat, rules : Nat, state : State]

ASSUME ChainAssumption ==
  /\ BlockNumber \in Nat \ {0}
  /\ Zero \in Values
  /\ NoAccount \notin Account /\ NoCode \notin Codes
  /\ \A f \in Forks : /\ History[f] \in Seq(BlockData)
                      /\ Len(History[f]) = BlockNumber

Block(f, n) == SubSeq(History[f], 1, n)
Blocks == {Block(f, n) : f \in Forks, n \in 1..BlockNumber}
ParentOf(block) == SubSeq(block, 1, Len(block) - 1)
StateOf(block) == block[Len(block)].state
TimestampOf(block) == block[Len(block)].timestamp
RulesOf(block) == block[Len(block)].rules

Query == ({"basic"} \X Addresses) \cup ({"code"} \X Codes)
         \cup ({"storage"} \X Addresses \X Slots)
         \cup ({"blockhash"} \X (1..(BlockNumber - 1)))
Answer == Codes \cup {NoCode} \cup Values \cup Blocks

CodeOf(account) == IF account = NoAccount THEN NoCode ELSE account.code
SlotOf(account, s) == IF account = NoAccount THEN Zero ELSE account.storage[s]

\* The answer to a query, in the state of a block.
Truth(block, q) ==
  CASE q[1] = "basic"     -> CodeOf(StateOf(block)[q[2]])
    [] q[1] = "code"      -> q[2]
    [] q[1] = "storage"   -> SlotOf(StateOf(block)[q[2]], q[3])
    [] q[1] = "blockhash" -> SubSeq(block, 1, q[2])
=============================================================================
