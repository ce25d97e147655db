--------------------------- MODULE VerifiedAirdrop ---------------------------
(***************************************************************************)
(* The destination contract VerifiedAirdrop: players register, play for    *)
(* points and, once the Merkle root of the airdrop has arrived over        *)
(* LayerZero, claim them as tokens.                                        *)
(*                                                                         *)
(* A transaction that reverts changes nothing: every `require`, the        *)
(* checked arithmetic of Solidity 0.8 and the balance check of the token   *)
(* are guards.                                                             *)
(***************************************************************************)
EXTENDS Integers, FiniteSets

CONSTANTS
  Players,     \* addresses that call the contract
  Roots,       \* 32-byte words a message can carry
  Leaves,      \* leaves callers pass to claim
  NoRoot,      \* bytes32(0), the value before any message
  Provable,    \* [Roots -> SUBSET Leaves]: leaves for which some proof verifies
  REGISTRATION_BONUS_POINTS,
  Awards,      \* points one call of play awards (10..100)
  UNIT,        \* tokens per point (10 ** 18)
  Supply,      \* token balance the contract is deployed with
  MaxUint      \* the largest uint256

ASSUME AirdropAssumption ==
  /\ REGISTRATION_BONUS_POINTS \in Nat \ {0}
  /\ Awards \subseteq Nat \ {0}
  /\ UNIT \in Nat \ {0}
  /\ Supply \in Nat /\ MaxUint \in Nat
  /\ REGISTRATION_BONUS_POINTS <= MaxUint
  /\ Supply <= MaxUint
  /\ Provable \in [Roots -> SUBSET Leaves]
  /\ NoRoot \notin Roots

VARIABLES
  players,          \* mapping(uint256 => address): the entries written
  playerToPoints,
  playerCount,
  merkleRoot,
  merkleRootSet,
  treasury,         \* airdropToken.balanceOf(this)
  balanceOf,        \* airdropToken.balanceOf(player)
  earned,           \* history: points ever awarded to a player
  claims,           \* history: claims a player has made
  usedLeaves        \* history: leaves claims were made with

gameVars  == <<players, playerToPoints, playerCount>>
rootVars  == <<merkleRoot, merkleRootSet>>
tokenVars == <<treasury, balanceOf>>
ghostVars == <<earned, claims, usedLeaves>>
airdropVars == <<gameVars, rootVars, tokenVars, ghostVars>>

AirdropTypeOK ==
  /\ playerCount \in Nat
  /\ DOMAIN players = 0..(playerCount - 1)
  /\ \A i \in DOMAIN players : players[i] \in Players
  /\ playerToPoints \in [Players -> 0..MaxUint]
  /\ merkleRoot \in Roots \cup {NoRoot}
  /\ merkleRootSet \in BOOLEAN
  /\ treasury \in 0..Supply
  /\ balanceOf \in [Players -> Nat]
  /\ earned \in [Players -> Nat]
  /\ claims \in [Players -> Nat]
  /\ usedLeaves \subseteq Leaves

AirdropInit ==
  /\ players = [i \in {} |-> i]
  /\ playerToPoints = [p \in Players |-> 0]
  /\ playerCount = 0
  /\ merkleRoot = NoRoot
  /\ merkleRootSet = FALSE
  /\ treasury = Supply
  /\ balanceOf = [p \in Players |-> 0]
  /\ earned = [p \in Players |-> 0]
  /\ claims = [p \in Players |-> 0]
  /\ usedLeaves = {}

\* Points awarded to p, from either source.
Award(p, points) ==
  /\ playerToPoints' = [playerToPoints EXCEPT ![p] = @ + points]
  /\ earned' = [earned EXCEPT ![p] = @ + points]

\* Faulty variant: a later message replaces the root.
LzReceiveLatest(payload) ==
  /\ merkleRoot' = payload
  /\ merkleRootSet' = TRUE
  /\ UNCHANGED <<gameVars, tokenVars, ghostVars>>

\* _lzReceive: the first message fixes the root, any later one reverts.
LzReceive(payload) ==
  /\ ~merkleRootSet                       \* "Merkle root already set"
  /\ merkleRoot' = payload
  /\ merkleRootSet' = TRUE
  /\ UNCHANGED <<gameVars, tokenVars, ghostVars>>

\* Faulty variant: registering is possible while points are outstanding.
RegisterAnyTime(p) ==
  /\ players' = [i \in DOMAIN players \cup {playerCount} |->
                   IF i = playerCount THEN p ELSE players[i]]
  /\ playerCount' = playerCount + 1
  /\ playerToPoints[p] + REGISTRATION_BONUS_POINTS <= MaxUint
  /\ Award(p, REGISTRATION_BONUS_POINTS)
  /\ UNCHANGED <<rootVars, tokenVars, claims, usedLeaves>>

\* Faulty variant: the count is not advanced.
RegisterUncounted(p) ==
  /\ playerToPoints[p] = 0
  /\ players' = [i \in DOMAIN players \cup {playerCount} |->
                   IF i = playerCount THEN p ELSE players[i]]
  /\ Award(p, REGISTRATION_BONUS_POINTS)
  /\ UNCHANGED <<playerCount, rootVars, tokenVars, claims, usedLeaves>>

Register(p) ==
  /\ playerToPoints[p] = 0                \* "Already registered"
  /\ players' = [i \in DOMAIN players \cup {playerCount} |->
                   IF i = playerCount THEN p ELSE players[i]]
  /\ Award(p, REGISTRATION_BONUS_POINTS)
  /\ playerCount' = playerCount + 1
  /\ UNCHANGED <<rootVars, tokenVars, claims, usedLeaves>>

\* The modifier onlyPlayers.
OnlyPlayers(p) == playerToPoints[p] > 0

Play(p) ==
  /\ OnlyPlayers(p)
  /\ \E points \in Awards :
       /\ playerToPoints[p] + points <= MaxUint
       /\ Award(p, points)
  /\ UNCHANGED <<players, playerCount, rootVars, tokenVars, claims, usedLeaves>>

\* Faulty variant: the points are cleared before they are read.
PayOutCleared(p) ==
  /\ playerToPoints' = [playerToPoints EXCEPT ![p] = 0]
  /\ UNCHANGED tokenVars

\* The points become tokens; the token's transfer reverts when the contract's
\* balance is short, and the points stay.
PayOut(p) ==
  LET amount == playerToPoints[p] * UNIT
  IN  /\ amount <= MaxUint              \* points * 10 ** 18 is checked
      /\ amount <= treasury
      /\ playerToPoints' = [playerToPoints EXCEPT ![p] = 0]
      /\ treasury' = treasury - amount
      /\ balanceOf' = [balanceOf EXCEPT ![p] = @ + amount]

\* claim does not relate the leaf to the caller: anyone may present any leaf
\* of the tree, any number of times.
Claim(p, leaf) ==
  /\ OnlyPlayers(p)
  /\ merkleRootSet                        \* "Merkle root not set"
  /\ merkleRoot # NoRoot /\ leaf \in Provable[merkleRoot]   \* "Invalid Merkle proof"
  /\ PayOut(p)
  /\ claims' = [claims EXCEPT ![p] = @ + 1]
  /\ usedLeaves' = usedLeaves \cup {leaf}
  /\ UNCHANGED <<players, playerCount, rootVars, earned>>

PlayerStep ==
  \E p \in Players : \/ Register(p)
                    \/ Play(p)
                    \/ \E leaf \in Leaves : Claim(p, leaf)

AirdropNext ==
  \/ \E payload \in Roots : LzReceive(payload)
  \/ PlayerStep

AirdropSpec == AirdropInit /\ [][AirdropNext]_airdropVars

-----------------------------------------------------------------------------
(* Properties *)

\* Every point awarded is either still outstanding or was paid as UNIT tokens:
\* no order of register, play and claim loses points or pays them twice.
PaidWhatWasEarned ==
  \A p \in Players :
    balanceOf[p] + playerToPoints[p] * UNIT = earned[p] * UNIT

\* The list has one entry per registration, and registrations alternate with
\* claims: a player is in it once per claim made and once for open points.
ListedOncePerRegistration ==
  \A p \in Players :
    Cardinality({i \in 0..(playerCount - 1) : players[i] = p})
      = claims[p] + (IF playerToPoints[p] > 0 THEN 1 ELSE 0)

\* Claims were paid only for leaves of the root the contract holds.
ClaimsCoveredByRoot ==
  usedLeaves # {} => /\ merkleRootSet
                     /\ usedLeaves \subseteq Provable[merkleRoot]

\* The first message wins: a root that has arrived is never replaced.
RootIsFinal == [][merkleRootSet => UNCHANGED rootVars]_airdropVars

\* A first claim with a valid proof is paid: "balanceOf(bob) > 0" after claim, in
\* testClaim of Airdrop.t.sol (which is commented out and mints 1000000 ether).
FirstClaimCovered ==
  \A p \in Players :
    /\ merkleRootSet /\ Provable[merkleRoot] # {}
    /\ playerToPoints[p] = REGISTRATION_BONUS_POINTS
    /\ \A q \in Players : claims[q] = 0
    => playerToPoints[p] * UNIT <= treasury
=============================================================================
