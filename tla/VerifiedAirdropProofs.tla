------------------------ MODULE VerifiedAirdropProofs ------------------------
(***************************************************************************)
(* Proofs about the destination contract, for any players, roots, awards   *)
(* and unit.                                                               *)
(***************************************************************************)
EXTENDS VerifiedAirdrop, FiniteSetTheorems, TLAPS

-----------------------------------------------------------------------------
(* Type correctness *)

\* Adding an award to a player's points and history.
LEMMA AwardType ==
  ASSUME AirdropTypeOK, NEW p \in Players, NEW points \in Nat,
         playerToPoints[p] + points <= MaxUint, Award(p, points)
  PROVE  /\ playerToPoints' \in [Players -> 0..MaxUint]
         /\ earned' \in [Players -> Nat]
BY AirdropAssumption DEF AirdropTypeOK, Award

\* Every operation of the contract keeps its type.
LEMMA AirdropStepType ==
  ASSUME AirdropTypeOK, [AirdropNext]_airdropVars
  PROVE  AirdropTypeOK'
<1>1. ASSUME NEW payload \in Roots, LzReceive(payload)
      PROVE  AirdropTypeOK'
  BY <1>1 DEF AirdropTypeOK, LzReceive, gameVars, tokenVars, ghostVars
<1>2. ASSUME NEW p \in Players, Register(p)
      PROVE  AirdropTypeOK'
  <2>1. playerToPoints' \in [Players -> 0..MaxUint] /\ earned' \in [Players -> Nat]
    BY <1>2, AwardType, AirdropAssumption DEF Register, AirdropTypeOK
  <2>2. /\ playerCount' \in Nat
        /\ DOMAIN players' = 0..(playerCount' - 1)
        /\ \A i \in DOMAIN players' : players'[i] \in Players
    BY <1>2 DEF Register, AirdropTypeOK
  <2> QED
    BY <1>2, <2>1, <2>2 DEF AirdropTypeOK, Register, rootVars, tokenVars
<1>3. ASSUME NEW p \in Players, Play(p)
      PROVE  AirdropTypeOK'
  <2>1. playerToPoints' \in [Players -> 0..MaxUint] /\ earned' \in [Players -> Nat]
    BY <1>3, AwardType, AirdropAssumption DEF Play
  <2> QED
    BY <1>3, <2>1 DEF AirdropTypeOK, Play, rootVars, tokenVars
<1>4. ASSUME NEW p \in Players, NEW leaf \in Leaves, Claim(p, leaf)
      PROVE  AirdropTypeOK'
  <2> DEFINE amount == playerToPoints[p] * UNIT
  <2>1. amount \in Nat
    BY AirdropAssumption DEF AirdropTypeOK
  <2>2. /\ playerToPoints' \in [Players -> 0..MaxUint]
        /\ claims' \in [Players -> Nat]
    BY <1>4, AirdropAssumption DEF Claim, PayOut, AirdropTypeOK
  <2>3. /\ amount <= treasury
        /\ treasury' = treasury - amount
        /\ balanceOf' = [balanceOf EXCEPT ![p] = @ + amount]
    BY <1>4 DEF Claim, PayOut
  <2> HIDE DEF amount
  <2>4. treasury' \in 0..Supply /\ balanceOf' \in [Players -> Nat]
    BY <2>1, <2>3, AirdropAssumption DEF AirdropTypeOK
  <2> QED
    BY <1>4, <2>2, <2>4 DEF AirdropTypeOK, Claim, rootVars
<1>5. CASE UNCHANGED airdropVars
  BY <1>5
     DEF AirdropTypeOK, airdropVars, gameVars, rootVars, tokenVars, ghostVars
<1> QED
  BY <1>1, <1>2, <1>3, <1>4, <1>5 DEF AirdropNext, PlayerStep

\* The contract's state always has its type; in particular the list of
\* players has no gaps and the contract never pays more than it holds.
THEOREM AirdropTypeCorrect == AirdropSpec => []AirdropTypeOK
<1>1. AirdropInit => AirdropTypeOK
  <2> SUFFICES ASSUME AirdropInit PROVE AirdropTypeOK
    OBVIOUS
  <2>1. DOMAIN players = {}
    BY Zenon DEF AirdropInit
  <2>2. 0..(playerCount - 1) = {}
    BY DEF AirdropInit
  <2>3. playerToPoints \in [Players -> 0..MaxUint]
    BY AirdropAssumption DEF AirdropInit
  <2>4. merkleRoot \in Roots \cup {NoRoot} /\ merkleRootSet \in BOOLEAN
    BY DEF AirdropInit
  <2>5. playerCount \in Nat /\ treasury \in 0..Supply
    BY AirdropAssumption DEF AirdropInit
  <2>6. balanceOf \in [Players -> Nat] /\ earned \in [Players -> Nat]
    BY DEF AirdropInit
  <2>7. claims \in [Players -> Nat] /\ usedLeaves \subseteq Leaves
    BY DEF AirdropInit
  <2> QED
    BY <2>1, <2>2, <2>3, <2>4, <2>5, <2>6, <2>7 DEF AirdropTypeOK
<1>2. AirdropTypeOK /\ [AirdropNext]_airdropVars => AirdropTypeOK'
  BY AirdropStepType
<1> QED
  BY <1>1, <1>2, PTL DEF AirdropSpec

-----------------------------------------------------------------------------
(* Points and tokens *)

\* Tokens per point distribute over a sum of points.
LEMMA UnitDistributes ==
  ASSUME NEW a \in Nat, NEW b \in Nat
  PROVE  (a + b) * UNIT = a * UNIT + b * UNIT
BY AirdropAssumption

\* An award keeps tokens and points worth what was earned.
LEMMA AwardPaid ==
  ASSUME AirdropTypeOK, PaidWhatWasEarned, NEW p \in Players,
         NEW points \in Nat, Award(p, points), UNCHANGED tokenVars
  PROVE  PaidWhatWasEarned'
<1> SUFFICES ASSUME NEW q \in Players
             PROVE  balanceOf'[q] + playerToPoints'[q] * UNIT = earned'[q] * UNIT
  BY DEF PaidWhatWasEarned
<1>1. /\ playerToPoints[q] \in Nat /\ earned[q] \in Nat /\ balanceOf[q] \in Nat
      /\ balanceOf'[q] = balanceOf[q]
      /\ balanceOf[q] + playerToPoints[q] * UNIT = earned[q] * UNIT
  BY AirdropAssumption DEF AirdropTypeOK, PaidWhatWasEarned, tokenVars
<1>2. CASE q = p
  <2>1. /\ playerToPoints'[q] = playerToPoints[q] + points
        /\ earned'[q] = earned[q] + points
    BY <1>2 DEF Award, AirdropTypeOK
  <2>2. /\ (playerToPoints[q] + points) * UNIT
             = playerToPoints[q] * UNIT + points * UNIT
        /\ (earned[q] + points) * UNIT = earned[q] * UNIT + points * UNIT
    BY <1>1, UnitDistributes
  <2>3. /\ playerToPoints[q] * UNIT \in Nat /\ earned[q] * UNIT \in Nat
        /\ points * UNIT \in Nat
    BY <1>1, AirdropAssumption
  <2> QED
    BY <1>1, <2>1, <2>2, <2>3
<1>3. CASE q # p
  BY <1>1, <1>3 DEF Award, AirdropTypeOK
<1> QED
  BY <1>2, <1>3

\* So does a claim, which turns all of a player's points into tokens.
LEMMA ClaimPaid ==
  ASSUME AirdropTypeOK, PaidWhatWasEarned, NEW p \in Players,
         NEW leaf \in Leaves, Claim(p, leaf)
  PROVE  PaidWhatWasEarned'
<1> SUFFICES ASSUME NEW q \in Players
             PROVE  balanceOf'[q] + playerToPoints'[q] * UNIT = earned'[q] * UNIT
  BY DEF PaidWhatWasEarned
<1> DEFINE amount == playerToPoints[p] * UNIT
<1>1. /\ amount \in Nat /\ earned[q] * UNIT \in Nat /\ balanceOf[q] \in Nat
      /\ earned' = earned
      /\ balanceOf[q] + playerToPoints[q] * UNIT = earned[q] * UNIT
  <2>1. /\ playerToPoints[p] \in Nat /\ earned[q] \in Nat /\ balanceOf[q] \in Nat
        /\ UNIT \in Nat
    BY AirdropAssumption DEF AirdropTypeOK
  <2>2. amount \in Nat /\ earned[q] * UNIT \in Nat
    BY <2>1
  <2>3. earned' = earned
    BY DEF Claim
  <2>4. balanceOf[q] + playerToPoints[q] * UNIT = earned[q] * UNIT
    BY DEF PaidWhatWasEarned
  <2> QED
    BY <2>1, <2>2, <2>3, <2>4
<1>2. CASE q = p
  <2>1. balanceOf'[q] = balanceOf[q] + amount /\ playerToPoints'[q] = 0
    BY <1>2 DEF Claim, PayOut, AirdropTypeOK
  <2>2. 0 * UNIT = 0
    BY AirdropAssumption
  <2>3. balanceOf[q] + amount = earned[q] * UNIT
    BY <1>1, <1>2
  <2> HIDE DEF amount
  <2> QED
    BY <1>1, <2>1, <2>2, <2>3
<1>3. CASE q # p
  BY <1>1, <1>3 DEF Claim, PayOut, AirdropTypeOK
<1> QED
  BY <1>2, <1>3

\* Tokens received and points outstanding are worth the points awarded.
THEOREM PaidCorrect == AirdropSpec => []PaidWhatWasEarned
<1>1. AirdropInit => PaidWhatWasEarned
  BY AirdropAssumption DEF AirdropInit, PaidWhatWasEarned
<1>2. ASSUME AirdropTypeOK, PaidWhatWasEarned, [AirdropNext]_airdropVars
      PROVE  PaidWhatWasEarned'
  <2>1. ASSUME NEW p \in Players, Register(p) \/ Play(p)
        PROVE  PaidWhatWasEarned'
    <3>1. PICK points \in Nat : Award(p, points)
      BY <2>1, AirdropAssumption DEF Register, Play
    <3> QED
      BY <1>2, <2>1, <3>1, AwardPaid DEF Register, Play
  <2>2. ASSUME NEW p \in Players, NEW leaf \in Leaves, Claim(p, leaf)
        PROVE  PaidWhatWasEarned'
    BY <1>2, <2>2, ClaimPaid
  <2>3. CASE UNCHANGED <<gameVars, tokenVars, ghostVars>>
    BY <1>2, <2>3 DEF PaidWhatWasEarned, gameVars, tokenVars, ghostVars
  <2> QED
    BY <1>2, <2>1, <2>2, <2>3
       DEF AirdropNext, PlayerStep, LzReceive, airdropVars
<1> QED
  BY <1>1, <1>2, AirdropTypeCorrect, PTL DEF AirdropSpec

-----------------------------------------------------------------------------
(* The list of players *)

\* The entries of p in the list, and what ListedOncePerRegistration says
\* there are.
Entries(p) == {i \in 0..(playerCount - 1) : players[i] = p}
Listings(p) == claims[p] + (IF playerToPoints[p] > 0 THEN 1 ELSE 0)

\* A player has finitely many entries in the list.
LEMMA EntriesFinite ==
  ASSUME AirdropTypeOK, NEW p \in Players
  PROVE  IsFiniteSet(Entries(p))
<1>1. IsFiniteSet(0..(playerCount - 1))
  BY FS_Interval DEF AirdropTypeOK
<1> QED
  BY <1>1, FS_Subset DEF Entries

\* A registration adds one entry, and opens one for the player.
LEMMA RegisterListed ==
  ASSUME AirdropTypeOK, ListedOncePerRegistration,
         NEW p \in Players, Register(p), NEW q \in Players
  PROVE  Cardinality(Entries(q)') = Listings(q)'
<1>1. Cardinality(Entries(q)) = Listings(q)
  BY DEF ListedOncePerRegistration, Entries, Listings
<1>2. /\ playerCount \in Nat
      /\ playerCount' = playerCount + 1
      /\ players'[playerCount] = p
      /\ \A i \in 0..(playerCount - 1) : players'[i] = players[i]
  BY DEF Register, AirdropTypeOK
<1>3. 0..(playerCount' - 1) = (0..(playerCount - 1)) \cup {playerCount}
  BY <1>2
<1>4. CASE q = p
  <2>1. Entries(q)' = Entries(q) \cup {playerCount} /\ playerCount \notin Entries(q)
    BY <1>2, <1>3, <1>4 DEF Entries
  <2>2. Cardinality(Entries(q)') = Cardinality(Entries(q)) + 1
    BY <2>1, EntriesFinite, FS_AddElement
  <2>3. /\ playerToPoints[q] = 0 /\ claims'[q] = claims[q] /\ claims[q] \in Nat
        /\ playerToPoints'[q] = REGISTRATION_BONUS_POINTS
    BY <1>4, AirdropAssumption DEF Register, Award, AirdropTypeOK
  <2>4. Listings(q)' = Listings(q) + 1
    BY <2>3, AirdropAssumption DEF Listings
  <2> QED
    BY <1>1, <2>2, <2>4
<1>5. CASE q # p
  <2>1. Entries(q)' = Entries(q)
    BY <1>2, <1>3, <1>5 DEF Entries
  <2>2. Listings(q)' = Listings(q)
    BY <1>5 DEF Listings, Register, Award, AirdropTypeOK
  <2> QED
    BY <1>1, <2>1, <2>2
<1> QED
  BY <1>4, <1>5

\* Operations that register nobody leave the list and its count alone.
LEMMA UnregisteredStepListed ==
  ASSUME AirdropTypeOK, ListedOncePerRegistration, NEW q \in Players,
         UNCHANGED <<players, playerCount>>, Listings(q)' = Listings(q)
  PROVE  Cardinality(Entries(q)') = Listings(q)'
<1>1. Cardinality(Entries(q)) = Listings(q)
  BY DEF ListedOncePerRegistration, Entries, Listings
<1>2. Entries(q)' = Entries(q)
  BY DEF Entries
<1> QED
  BY <1>1, <1>2

\* A player's entries in the list are the claims made plus the registration
\* still open: points and list never drift apart.
THEOREM ListedCorrect == AirdropSpec => []ListedOncePerRegistration
<1>1. AirdropInit => ListedOncePerRegistration
  <2> SUFFICES ASSUME AirdropInit, NEW p \in Players
               PROVE  Cardinality(Entries(p)) = Listings(p)
    BY DEF ListedOncePerRegistration, Entries, Listings
  <2>1. Entries(p) = {}
    BY DEF AirdropInit, Entries
  <2>2. Listings(p) = 0
    BY DEF AirdropInit, Listings
  <2> QED
    BY <2>1, <2>2, FS_EmptySet
<1>2. ASSUME AirdropTypeOK, ListedOncePerRegistration,
             [AirdropNext]_airdropVars
      PROVE  ListedOncePerRegistration'
  <2> SUFFICES ASSUME NEW q \in Players
               PROVE  Cardinality(Entries(q)') = Listings(q)'
    BY DEF ListedOncePerRegistration, Entries, Listings
  <2>1. ASSUME NEW p \in Players, Register(p)
        PROVE  Cardinality(Entries(q)') = Listings(q)'
    BY <1>2, <2>1, RegisterListed
  <2>2. ASSUME NEW p \in Players, Play(p)
        PROVE  Cardinality(Entries(q)') = Listings(q)'
    <3>1. PICK points \in Awards : Award(p, points)
      BY <2>2 DEF Play
    <3>2. playerToPoints'[q] > 0 <=> playerToPoints[q] > 0
      BY <1>2, <2>2, <3>1, AirdropAssumption
         DEF Award, Play, OnlyPlayers, AirdropTypeOK
    <3>3. Listings(q)' = Listings(q)
      BY <2>2, <3>2 DEF Listings, Play
    <3> QED
      BY <1>2, <2>2, <3>3, UnregisteredStepListed DEF Play
  <2>3. ASSUME NEW p \in Players, NEW leaf \in Leaves, Claim(p, leaf)
        PROVE  Cardinality(Entries(q)') = Listings(q)'
    <3>1. Listings(q)' = Listings(q)
      BY <1>2, <2>3
         DEF Listings, Claim, PayOut, OnlyPlayers, AirdropTypeOK
    <3> QED
      BY <1>2, <2>3, <3>1, UnregisteredStepListed DEF Claim
  <2>4. CASE UNCHANGED <<gameVars, ghostVars>>
    BY <1>2, <2>4, UnregisteredStepListed DEF Listings, gameVars, ghostVars
  <2> QED
    BY <1>2, <2>1, <2>2, <2>3, <2>4
       DEF AirdropNext, PlayerStep, LzReceive, airdropVars
<1> QED
  BY <1>1, <1>2, AirdropTypeCorrect, PTL DEF AirdropSpec

-----------------------------------------------------------------------------
(* The root *)

\* A root that has arrived is never replaced.
THEOREM RootCorrect == AirdropSpec => RootIsFinal
<1>1. [AirdropNext]_airdropVars => [merkleRootSet => UNCHANGED rootVars]_airdropVars
  BY DEF AirdropNext, PlayerStep, LzReceive, Register, Play, Claim
<1> QED
  BY <1>1, PTL DEF AirdropSpec, RootIsFinal

\* Every leaf a claim was paid for is in the tree of the root the contract
\* holds: claims wait for the root, and the root does not move after them.
THEOREM ClaimsCovered == AirdropSpec => []ClaimsCoveredByRoot
<1>1. AirdropInit => ClaimsCoveredByRoot
  BY DEF AirdropInit, ClaimsCoveredByRoot
<1>2. ClaimsCoveredByRoot /\ [AirdropNext]_airdropVars => ClaimsCoveredByRoot'
  <2> SUFFICES ASSUME ClaimsCoveredByRoot, [AirdropNext]_airdropVars
               PROVE  ClaimsCoveredByRoot'
    OBVIOUS
  <2>1. ASSUME NEW payload \in Roots, LzReceive(payload)
        PROVE  ClaimsCoveredByRoot'
    BY <2>1 DEF LzReceive, ClaimsCoveredByRoot, ghostVars
  <2>2. ASSUME NEW p \in Players, NEW leaf \in Leaves, Claim(p, leaf)
        PROVE  ClaimsCoveredByRoot'
    BY <2>2 DEF Claim, ClaimsCoveredByRoot, rootVars
  <2>3. CASE UNCHANGED <<rootVars, usedLeaves>>
    BY <2>3 DEF ClaimsCoveredByRoot, rootVars
  <2> QED
    BY <2>1, <2>2, <2>3
       DEF AirdropNext, PlayerStep, Register, Play, airdropVars, rootVars,
           ghostVars
<1> QED
  BY <1>1, <1>2, PTL DEF AirdropSpec
=============================================================================
