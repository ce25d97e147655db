------------------------------ MODULE ChainSpec ------------------------------
(***************************************************************************)
(* Which rules of the EVM a block is run under.  The releases of the rules *)
(* (SpecId) are numbered in their order; a chain specification gives, for  *)
(* some of them, the block or the second from which they apply.            *)
(***************************************************************************)
EXTENDS Integers

SpecId == 0..255      \* the numbers revm gives the releases; a byte
Unsupported == -1     \* None of spec_id, Err of active_fork

AtBlock(n) == [kind |-> "block", at |-> n]
AtTimestamp(t) == [kind |-> "timestamp", at |-> t]
TBD == [kind |-> "tbd", at |-> 0]

\* Every constructor names at least one fork.
IsChainSpec(spec) ==
  /\ spec.maxSpecId \in SpecId
  /\ DOMAIN spec.hardForks \in (SUBSET SpecId) \ {{}}
  /\ DOMAIN spec.gasConstants \in SUBSET SpecId
  /\ \A id \in DOMAIN spec.hardForks : spec.hardForks[id].at \in Nat

Active(condition, number, timestamp) ==
  \/ condition.kind = "block" /\ condition.at <= number
  \/ condition.kind = "timestamp" /\ condition.at <= timestamp

Latest(ids) == CHOOSE id \in ids : \A other \in ids : other <= id
Earliest(ids) == CHOOSE id \in ids : \A other \in ids : id <= other

\* Faulty variant: the forks are tried in the order of the map.
SpecIdFromFirst(spec, number, timestamp) ==
  LET active == {id \in DOMAIN spec.hardForks :
                   Active(spec.hardForks[id], number, timestamp)}
  IN  IF active = {} THEN Unsupported ELSE Earliest(active)

\* The forks are tried from the latest down.
SpecIdAt(spec, number, timestamp) ==
  LET active == {id \in DOMAIN spec.hardForks :
                   Active(spec.hardForks[id], number, timestamp)}
  IN  IF active = {} THEN Unsupported ELSE Latest(active)

ActiveFork(spec, number, timestamp) ==
  LET id == SpecIdAt(spec, number, timestamp)
  IN  IF id > spec.maxSpecId THEN Unsupported ELSE id

ValidSpecId(spec, id) == /\ Earliest(DOMAIN spec.hardForks) <= id
                         /\ id <= spec.maxSpecId

\* The constants of the latest release up to id that has some, if any.
GasConstants(spec, id) ==
  LET upTo == {key \in DOMAIN spec.gasConstants : key <= id}
  IN  IF upTo = {} THEN {} ELSE {spec.gasConstants[Latest(upTo)]}

NewSingle(chainId, id, constants) ==
  [chainId |-> chainId, maxSpecId |-> id,
   hardForks |-> [key \in {id} |-> AtBlock(0)],
   gasConstants |-> [key \in {id} |-> constants]]

LONDON == 12
MERGE == 15
SHANGHAI == 16
CANCUN == 17

EIP1559_CONSTANTS_DEFAULT ==
  [baseFeeChangeDenominator |-> 8, baseFeeMaxIncreaseDenominator |-> 8,
   baseFeeMaxDecreaseDenominator |-> 8, elasticityMultiplier |-> 2]

Ethereum(chainId, merge, shanghai, cancun) ==
  [chainId |-> chainId, maxSpecId |-> CANCUN,
   hardForks |-> [id \in {MERGE, SHANGHAI, CANCUN} |->
                    CASE id = MERGE    -> AtBlock(merge)
                      [] id = SHANGHAI -> AtTimestamp(shanghai)
                      [] id = CANCUN   -> AtTimestamp(cancun)],
   gasConstants |-> [id \in {LONDON} |-> EIP1559_CONSTANTS_DEFAULT]]

ETH_MAINNET_CHAIN_SPEC == Ethereum(1, 15537394, 1681338455, 1710338135)
ETH_SEPOLIA_CHAIN_SPEC == Ethereum(11155111, 1735371, 1677557088, 1706655072)
=============================================================================
