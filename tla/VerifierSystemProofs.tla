------------------------ MODULE VerifierSystemProofs ------------------------
(***************************************************************************)
(* Proofs about the verifier contracts deployed together, for any number   *)
(* of base verifiers, selectors, receipts, accounts and nested calls.      *)
(***************************************************************************)
EXTENDS VerifierSystem, NaturalsInduction, WellFoundedInduction, TLAPS

-----------------------------------------------------------------------------
(* A walk from contract to contract *)

\* Induction over the naturals, for a set: a least number left out would have a
\* predecessor that is in.
LEMMA NatSetInduction ==
  ASSUME NEW S, 0 \in S, \A n \in Nat : n \in S => n + 1 \in S
  PROVE  \A n \in Nat : n \in S
<1> SUFFICES ASSUME Nat \ S # {} PROVE FALSE
  OBVIOUS
<1>1. PICK n \in Nat \ S : \A m \in Nat \ S : ~(<<m, n>> \in OpToRel(<, Nat))
  BY NatLessThanWellFounded, WFMin
<1>2. n - 1 \in Nat /\ n - 1 < n /\ n - 1 + 1 = n
  OBVIOUS
<1>3. <<n - 1, n>> \in OpToRel(<, Nat)
  BY <1>2 DEF OpToRel
<1>4. n - 1 \in S
  BY <1>1, <1>2, <1>3
<1> QED
  BY <1>2, <1>4

Walk(n, hop, c) == CHOOSE at : at = [d \in 0..n |-> IF d = 0 THEN c ELSE hop[at[d-1]]]

\* A walk of n hops exists: one of n - 1 hops is continued by another.
LEMMA WalkExists ==
  ASSUME NEW N \in Nat, NEW hop, NEW c
  PROVE  \E at : at = [d \in 0..N |-> IF d = 0 THEN c ELSE hop[at[d-1]]]
<1> DEFINE S == {n \in Nat : \E at : at = [d \in 0..n |-> IF d = 0 THEN c ELSE hop[at[d-1]]]}
<1>1. 0 \in S
  <2> DEFINE at == [d \in 0..0 |-> c]
  <2>1. at = [d \in 0..0 |-> IF d = 0 THEN c ELSE hop[at[d-1]]]
    OBVIOUS
  <2> QED
    BY <2>1
<1>2. ASSUME NEW n \in Nat, n \in S PROVE n + 1 \in S
  <2>1. PICK at : at = [d \in 0..n |-> IF d = 0 THEN c ELSE hop[at[d-1]]]
    BY <1>2
  <2> DEFINE on == [d \in 0..(n + 1) |-> IF d = n + 1 THEN hop[at[n]] ELSE at[d]]
  <2>2. ASSUME NEW d \in 0..(n + 1)
        PROVE  on[d] = IF d = 0 THEN c ELSE hop[on[d-1]]
    <3>1. CASE d = n + 1
      BY <3>1
    <3>2. CASE d \in 0..n
      <4>1. on[d] = at[d] /\ (d # 0 => on[d-1] = at[d-1])
        BY <3>2
      <4>2. at[d] = IF d = 0 THEN c ELSE hop[at[d-1]]
        BY <2>1, <3>2
      <4> QED
        BY <4>1, <4>2
    <3> QED
      BY <3>1, <3>2
  <2>3. on = [d \in 0..(n + 1) |-> IF d = 0 THEN c ELSE hop[on[d-1]]]
    BY <2>2
  <2> HIDE DEF on
  <2> QED
    BY <2>3
<1> HIDE DEF S
<1>3. \A n \in Nat : n \in S
  BY <1>1, <1>2, NatSetInduction
<1> QED
  BY <1>3 DEF S

\* The hops of a walk, one by one.
LEMMA WalkHops ==
  ASSUME NEW N \in Nat, NEW hop, NEW c
  PROVE  /\ Walk(N, hop, c)[0] = c
         /\ \A d \in 1..N : Walk(N, hop, c)[d] = hop[Walk(N, hop, c)[d-1]]
<1> DEFINE at == Walk(N, hop, c)
<1>1. at = [d \in 0..N |-> IF d = 0 THEN c ELSE hop[at[d-1]]]
  BY WalkExists DEF Walk
<1> QED
  BY <1>1

\* A walk that has come into a set no hop leaves stays in it.
LEMMA WalkStays ==
  ASSUME NEW N \in Nat, NEW hop, NEW c, NEW S, \A x \in S : hop[x] \in S,
         NEW k \in 0..N, Walk(N, hop, c)[k] \in S
  PROVE  Walk(N, hop, c)[N] \in S
<1> DEFINE at == Walk(N, hop, c)
           In == {n \in Nat : k + n <= N => at[k + n] \in S}
<1>1. 0 \in In
  OBVIOUS
<1>2. ASSUME NEW n \in Nat, n \in In PROVE n + 1 \in In
  <2> SUFFICES ASSUME k + (n + 1) <= N PROVE at[k + (n + 1)] \in S
    OBVIOUS
  <2>1. k + (n + 1) \in 1..N /\ k + (n + 1) - 1 = k + n /\ k + n <= N
    OBVIOUS
  <2>2. at[k + (n + 1)] = hop[at[k + n]]
    BY <2>1, WalkHops
  <2> QED
    BY <1>2, <2>1, <2>2
<1> HIDE DEF In
<1>3. N - k \in In
  BY <1>1, <1>2, NatSetInduction
<1>4. N - k \in Nat /\ k + (N - k) = N
  OBVIOUS
<1> QED
  BY <1>3, <1>4 DEF In

-----------------------------------------------------------------------------
(* Where a call ends *)

HopMap(s) == [a \in Contracts \cup {Zero} |-> Hop(a, s)]

\* The next contract, for each kind of contract there is.
LEMMA Hops ==
  ASSUME NEW s
  PROVE  /\ \A b \in Bases : HopMap(s)[b] = b
         /\ HopMap(s)[estopB] = IF bPaused THEN Zero ELSE guardedBase
         /\ HopMap(s)[estopR] = IF aPaused THEN Zero ELSE router
         /\ HopMap(s)[router] = IF verifiers[s] \in Contracts THEN verifiers[s] ELSE Zero
         /\ HopMap(s)[Zero] = Zero
BY SystemAssumption DEF HopMap, Hop, Contracts

\* Decider looks at where the walk is after the greatest number of calls.
LEMMA DeciderIsLast ==
  ASSUME NEW c, NEW s
  PROVE  Decider(c, s) = LET last == Walk(MaxCallDepth, HopMap(s), c)[MaxCallDepth]
                         IN  IF last \in Bases THEN last ELSE Zero
BY DEF Decider, Walk, HopMap

\* A call that comes to a base verifier is decided there.
LEMMA DecidedAt ==
  ASSUME NEW c, NEW s, NEW k \in 0..MaxCallDepth, NEW b \in Bases,
         Walk(MaxCallDepth, HopMap(s), c)[k] = b
  PROVE  Decider(c, s) = b
<1>1. Walk(MaxCallDepth, HopMap(s), c)[MaxCallDepth] \in {b}
  <2> DEFINE S == {b}
  <2>1. \A x \in S : HopMap(s)[x] \in S
    BY Hops
  <2> QED
    BY <2>1, WalkStays, SystemAssumption
<1> QED
  BY <1>1, DeciderIsLast

\* A call that cannot leave a set without base verifiers is not decided.
LEMMA NeverDecided ==
  ASSUME NEW c, NEW s, NEW S, c \in S, S \cap Bases = {},
         \A x \in S : HopMap(s)[x] \in S
  PROVE  Decider(c, s) = Zero
<1>1. Walk(MaxCallDepth, HopMap(s), c)[0] \in S
  BY WalkHops, SystemAssumption
<1>2. Walk(MaxCallDepth, HopMap(s), c)[MaxCallDepth] \in S
  BY <1>1, WalkStays, SystemAssumption
<1> QED
  BY <1>2, DeciderIsLast

\* Where a call made to the router ends that can still make n calls.
ViaRouter(s, n) ==
  IF verifiers[s] \in Bases /\ n >= 1 THEN verifiers[s]
  ELSE IF verifiers[s] = estopB /\ ~bPaused /\ n >= 2 THEN guardedBase
  ELSE Zero

\* A base verifier called directly decides.
LEMMA BaseDecides ==
  ASSUME NEW b \in Bases, NEW s
  PROVE  Decider(b, s) = b
<1>1. 0 \in 0..MaxCallDepth /\ Walk(MaxCallDepth, HopMap(s), b)[0] = b
  BY SystemAssumption, WalkHops
<1> QED
  BY <1>1, DecidedAt

\* The stop behind the router passes a call on to its base verifier, unless it is
\* paused or the call may go no deeper.
LEMMA GuardDecides ==
  ASSUME NEW s
  PROVE  Decider(estopB, s) = IF bPaused \/ MaxCallDepth = 0 THEN Zero ELSE guardedBase
<1> DEFINE N == MaxCallDepth
           at == Walk(N, HopMap(s), estopB)
<1>1. N \in Nat /\ at[0] = estopB /\ \A d \in 1..N : at[d] = HopMap(s)[at[d-1]]
  BY SystemAssumption, WalkHops
<1>2. CASE bPaused
  <2> DEFINE S == {estopB, Zero}
  <2>1. estopB \in S /\ S \cap Bases = {} /\ \A x \in S : HopMap(s)[x] \in S
    BY <1>2, Hops, SystemAssumption DEF Contracts
  <2> QED
    BY <1>2, <2>1, NeverDecided
<1>3. CASE N = 0
  BY <1>1, <1>3, DeciderIsLast, SystemAssumption
<1>4. CASE ~bPaused /\ N # 0
  <2>1. 1 \in 1..N /\ 1 \in 0..N /\ at[1] = guardedBase
    BY <1>1, <1>4, Hops
  <2>2. Decider(estopB, s) = guardedBase
    BY <2>1, DecidedAt, SystemAssumption
  <2> QED
    BY <1>4, <2>2
<1> QED
  BY <1>2, <1>3, <1>4

\* After k calls a call is at the router: a cycle of proxies leads nowhere.
LEMMA RouterReached ==
  ASSUME NEW c \in {router, estopR}, NEW s, NEW k \in 0..MaxCallDepth, k <= 1,
         c = router <=> k = 0, c = estopR => ~aPaused,
         Walk(MaxCallDepth, HopMap(s), c)[k] = router
  PROVE  Decider(c, s) = ViaRouter(s, MaxCallDepth - k)
<1> DEFINE N == MaxCallDepth
           at == Walk(N, HopMap(s), c)
<1>1. N \in Nat /\ at[0] = c /\ at[k] = router /\ \A d \in 1..N : at[d] = HopMap(s)[at[d-1]]
  BY SystemAssumption, WalkHops
<1>2. CASE N = k
  <2>1. Decider(c, s) = Zero
    BY <1>1, <1>2, DeciderIsLast, SystemAssumption
  <2>2. ViaRouter(s, N - k) = Zero
    BY <1>1, <1>2 DEF ViaRouter
  <2> QED
    BY <2>1, <2>2
<1>3. CASE N > k /\ verifiers[s] \in Bases
  <2>1. k + 1 \in 1..N /\ k + 1 \in 0..N /\ k + 1 - 1 = k
    BY <1>1, <1>3
  <2>2. at[k + 1] = verifiers[s]
    BY <1>1, <1>3, <2>1, Hops DEF Contracts
  <2>3. Decider(c, s) = verifiers[s]
    BY <1>3, <2>1, <2>2, DecidedAt
  <2>4. ViaRouter(s, N - k) = verifiers[s]
    BY <1>1, <1>3 DEF ViaRouter
  <2> QED
    BY <2>3, <2>4
<1>4. CASE N > k /\ verifiers[s] = estopB /\ ~bPaused
  <2>1. k + 1 \in 1..N /\ k + 1 - 1 = k
    BY <1>1, <1>4
  <2>2. at[k + 1] = estopB
    BY <1>1, <1>4, <2>1, Hops DEF Contracts
  <2>3. CASE N = k + 1
    <3>1. Decider(c, s) = Zero
      BY <2>2, <2>3, DeciderIsLast, SystemAssumption
    <3>2. ViaRouter(s, N - k) = Zero
      BY <1>1, <1>4, <2>3, SystemAssumption DEF ViaRouter
    <3> QED
      BY <3>1, <3>2
  <2>4. CASE N > k + 1
    <3>1. k + 2 \in 1..N /\ k + 2 \in 0..N /\ k + 2 - 1 = k + 1
      BY <1>1, <2>4
    <3>2. at[k + 2] = guardedBase
      BY <1>1, <1>4, <2>2, <3>1, Hops
    <3>3. Decider(c, s) = guardedBase
      BY <3>1, <3>2, DecidedAt, SystemAssumption
    <3>4. ViaRouter(s, N - k) = guardedBase
      BY <1>1, <1>4, <2>4, SystemAssumption DEF ViaRouter
    <3> QED
      BY <3>3, <3>4
  <2> QED
    BY <1>1, <1>4, <2>3, <2>4
<1>5. CASE verifiers[s] \notin Bases /\ ~(verifiers[s] = estopB /\ ~bPaused)
  <2> DEFINE S == {router, estopR, Zero} \cup IF bPaused THEN {estopB} ELSE {}
  <2>1. c \in S /\ S \cap Bases = {}
    BY SystemAssumption DEF Contracts
  <2>2. \A x \in S : HopMap(s)[x] \in S
    BY <1>5, Hops DEF Contracts
  <2>3. Decider(c, s) = Zero
    BY <2>1, <2>2, NeverDecided
  <2>4. ViaRouter(s, N - k) = Zero
    BY <1>5 DEF ViaRouter
  <2> QED
    BY <2>3, <2>4
<1> QED
  BY <1>1, <1>2, <1>3, <1>4, <1>5

\* A call to the router goes where its entry leads within the depth of a call.
LEMMA RouterDecides ==
  ASSUME NEW s
  PROVE  Decider(router, s) = ViaRouter(s, MaxCallDepth)
<1>1. MaxCallDepth \in Nat /\ Walk(MaxCallDepth, HopMap(s), router)[0] = router
  BY SystemAssumption, WalkHops
<1>2. Decider(router, s) = ViaRouter(s, MaxCallDepth - 0)
  BY <1>1, RouterReached, SystemAssumption
<1> QED
  BY <1>1, <1>2

\* The stop in front of the router uses one of the calls, if it is not paused.
LEMMA FrontDecides ==
  ASSUME NEW s
  PROVE  Decider(estopR, s) = IF aPaused THEN Zero ELSE ViaRouter(s, MaxCallDepth - 1)
<1> DEFINE N == MaxCallDepth
           at == Walk(N, HopMap(s), estopR)
<1>1. N \in Nat /\ at[0] = estopR /\ \A d \in 1..N : at[d] = HopMap(s)[at[d-1]]
  BY SystemAssumption, WalkHops
<1>2. CASE aPaused
  <2> DEFINE S == {estopR, Zero}
  <2>1. estopR \in S /\ S \cap Bases = {} /\ \A x \in S : HopMap(s)[x] \in S
    BY <1>2, Hops, SystemAssumption DEF Contracts
  <2> QED
    BY <1>2, <2>1, NeverDecided
<1>3. CASE ~aPaused /\ N = 0
  <2>1. Decider(estopR, s) = Zero
    BY <1>1, <1>3, DeciderIsLast, SystemAssumption
  <2> QED
    BY <1>3, <2>1 DEF ViaRouter
<1>4. CASE ~aPaused /\ N >= 1
  <2>1. 1 \in 1..N /\ 1 \in 0..N /\ 1 - 1 = 0
    BY <1>1, <1>4
  <2>2. at[1] = router
    BY <1>1, <1>4, <2>1, Hops
  <2>3. Decider(estopR, s) = ViaRouter(s, N - 1)
    BY <1>4, <2>1, <2>2, RouterReached, SystemAssumption
  <2> QED
    BY <1>4, <2>3
<1> QED
  BY <1>1, <1>2, <1>3, <1>4

\* All of it in one formula, which is as true after a step as before it.
Decisions ==
  \A s : /\ \A b \in Bases : Decider(b, s) = b
         /\ Decider(estopB, s) = IF bPaused \/ MaxCallDepth = 0 THEN Zero ELSE guardedBase
         /\ Decider(router, s) = ViaRouter(s, MaxCallDepth)
         /\ Decider(estopR, s) = IF aPaused THEN Zero ELSE ViaRouter(s, MaxCallDepth - 1)

\* The four contracts decide as the lemmas above say, in every state.
LEMMA DecisionsHold == Decisions
BY BaseDecides, GuardDecides, RouterDecides, FrontDecides DEF Decisions

-----------------------------------------------------------------------------
(* What the contracts' steps may change *)

Types ==
  /\ verifiers \in [Selectors -> Contracts \cup {Zero, TOMBSTONE}]
  /\ servedBy \in [Contracts -> [Selectors -> SUBSET Bases]]
  /\ withdrawn \in [Contracts -> SUBSET Receipts]

\* Entries are written once and removed for good, and a stop is for good.
Onward ==
  /\ \A s \in Selectors : /\ verifiers'[s] \in {verifiers[s], TOMBSTONE} \/ verifiers[s] = Zero
                          /\ verifiers[s] = TOMBSTONE => verifiers'[s] = TOMBSTONE
  /\ bPaused => bPaused'
  /\ aPaused => aPaused'

\* Whoever acts, entries and stops go onward only: no step of the router reverts a
\* tombstone or replaces an entry in use, none of a stop unpauses it.
LEMMA StepsOnward ==
  ASSUME Types, Next
  PROVE  Onward /\ verifiers' \in [Selectors -> Contracts \cup {Zero, TOMBSTONE}]
<1>1. CASE RouterStep
  <2>1. aPaused' = aPaused /\ bPaused' = bPaused
    BY <1>1 DEF RouterStep, estopBState, estopRState
  <2>2. CASE UNCHANGED verifiers
    BY <2>1, <2>2 DEF Onward, Types
  <2>3. ASSUME NEW caller \in Accounts, NEW s \in Selectors,
               NEW v \in Contracts \cup {Zero, TOMBSTONE}, R!AddVerifier(caller, s, v)
        PROVE  Onward /\ verifiers' \in [Selectors -> Contracts \cup {Zero, TOMBSTONE}]
    BY <2>1, <2>3, SystemAssumption DEF Onward, Types, R!AddVerifier, R!UNSET
  <2>4. ASSUME NEW caller \in Accounts, NEW s \in Selectors, R!RemoveVerifier(caller, s)
        PROVE  Onward /\ verifiers' \in [Selectors -> Contracts \cup {Zero, TOMBSTONE}]
    BY <2>1, <2>4 DEF Onward, Types, R!RemoveVerifier
  <2> QED
    BY <1>1, <2>2, <2>3, <2>4 DEF RouterStep, R!RouterNext, R!Verify, R!UNSET
<1>2. CASE EstopBStep
  BY <1>2 DEF EstopBStep, EB!EstopActions, EB!EstopByGuardian, EB!EstopByReceipt,
     EB!CallVerify, EB!Pause, routerState, estopRState, Onward, Types
<1>3. CASE EstopRStep
  BY <1>3 DEF EstopRStep, ER!EstopActions, ER!EstopByGuardian, ER!EstopByReceipt,
     ER!CallVerify, ER!Pause, routerState, estopBState, Onward, Types
<1> QED
  BY <1>1, <1>2, <1>3 DEF Next

\* Calls for a selector are not decided at an entry any more: its proxy is stopped,
\* or the router's entry is removed or has a stopped proxy.
Gone(e, s) ==
  \/ e = estopB /\ bPaused
  \/ e = estopR /\ aPaused
  \/ /\ e \in {router, estopR}
     /\ verifiers[s] = TOMBSTONE \/ (verifiers[s] = estopB /\ bPaused)

\* What is gone at an entry does not come back with a step that goes onward.
LEMMA GoneStays ==
  ASSUME Onward, NEW e \in Contracts, NEW s \in Selectors, Gone(e, s)
  PROVE  Gone(e, s)'
BY SystemAssumption DEF Onward, Gone, Contracts

GoneMeansUndecided ==
  \A e \in Contracts, s \in Selectors : Gone(e, s) => Decider(e, s) = Zero

\* A selector that is gone at an entry is decided by nobody there.
LEMMA GoneUndecided == GoneMeansUndecided
<1>1. TOMBSTONE \notin Bases /\ TOMBSTONE # estopB /\ estopB \notin Bases
  BY SystemAssumption DEF Contracts
<1> QED
  BY <1>1, DecisionsHold, SystemAssumption
     DEF Decisions, Gone, ViaRouter, GoneMeansUndecided

\* A step never gives a decided selector another base verifier: either the same
\* one decides it afterwards, or none ever will.
LEMMA SameOrGone ==
  ASSUME Onward, NEW e \in Contracts, NEW s \in Selectors, Decider(e, s) # Zero
  PROVE  Decider(e, s)' = Decider(e, s) \/ Gone(e, s)'
<1>1. Decisions /\ Decisions'
  BY DecisionsHold, PTL
<1>2. CASE e \in Bases
  BY <1>1, <1>2 DEF Decisions
<1>3. CASE e = estopB
  BY <1>1, <1>3 DEF Decisions, Gone
<1>4. CASE e = router
  BY <1>1, <1>4, SystemAssumption DEF Decisions, Gone, ViaRouter, Onward, Contracts
<1>5. CASE e = estopR
  BY <1>1, <1>5, SystemAssumption DEF Decisions, Gone, ViaRouter, Onward, Contracts
<1> QED
  BY <1>2, <1>3, <1>4, <1>5 DEF Contracts

-----------------------------------------------------------------------------
(* The invariant *)

\* An entry has one base verifier at most, which decides now or never again.
ServedInv ==
  \A e \in Contracts, s \in Selectors : \A b \in servedBy[e][s] :
    servedBy[e][s] = {b} /\ (Decider(e, s) = b \/ Gone(e, s))

\* What an entry has stopped verifying is gone there.
WithdrawnInv ==
  \A e \in Contracts : \A r \in withdrawn[e] : Gone(e, r.selector)

Inv == Types /\ ServedInv /\ WithdrawnInv

\* A call is decided by a base verifier or by none.
DecidersTyped == \A e, s : Decider(e, s) \in Bases \cup {Zero} /\ Zero \notin Bases

\* The zero address is no base verifier, so a decider tells whether there is one.
LEMMA DeciderType == DecidersTyped
BY SystemAssumption, DeciderIsLast DEF Contracts, DecidersTyped

\* An entry verifies the receipts the base verifier behind it proves.
LEMMA VerifiedByDecider ==
  ASSUME NEW e, NEW r
  PROVE  r \in Verified(e) <=> /\ r \in Receipts
                               /\ Decider(e, r.selector) \in Bases
                               /\ BaseVerifies(Decider(e, r.selector), r)
BY DEF Verified

\* The types of the histories, before and after a step.
LEMMA RecordType ==
  ASSUME Types, Record
  PROVE  /\ servedBy' \in [Contracts -> [Selectors -> SUBSET Bases]]
         /\ withdrawn' \in [Contracts -> SUBSET Receipts]
         /\ \A e \in Contracts, s \in Selectors :
              servedBy'[e][s] = servedBy[e][s] \cup ({Decider(e, s)'} \ {Zero})
         /\ \A e \in Contracts :
              withdrawn'[e] = withdrawn[e] \cup (Verified(e) \ Verified(e)')
<1>1. DecidersTyped'
  BY DeciderType, PTL
<1>2. \A e, s : Decider(e, s)' \in Bases \cup {Zero}
  BY <1>1 DEF DecidersTyped
<1>3. \A e \in Contracts, s \in Selectors :
        servedBy[e][s] \cup ({Decider(e, s)'} \ {Zero}) \in SUBSET Bases
  BY <1>2 DEF Types
<1>4. \A e \in Contracts : withdrawn[e] \cup (Verified(e) \ Verified(e)') \in SUBSET Receipts
  BY VerifiedByDecider DEF Types
<1>5. servedBy' \in [Contracts -> [Selectors -> SUBSET Bases]]
  BY <1>3 DEF Record
<1>6. withdrawn' \in [Contracts -> SUBSET Receipts]
  BY <1>4 DEF Record
<1> QED
  BY <1>5, <1>6 DEF Record

\* The invariant holds of every step: SameOrGone is what a step does to an entry.
LEMMA InvStep ==
  ASSUME Inv, Next
  PROVE  Inv'
<1>1. Types /\ Record
  BY DEF Inv, Next, RouterStep, EstopBStep, EstopRStep
<1>2. Onward /\ Types'
  BY <1>1, StepsOnward, RecordType DEF Types
<1>3. ServedInv'
  <2> SUFFICES ASSUME NEW e \in Contracts, NEW s \in Selectors, NEW b \in servedBy'[e][s]
               PROVE  servedBy'[e][s] = {b} /\ (Decider(e, s)' = b \/ Gone(e, s)')
    BY DEF ServedInv
  <2>1. servedBy'[e][s] = servedBy[e][s] \cup ({Decider(e, s)'} \ {Zero})
    BY <1>1, RecordType
  <2>2. GoneMeansUndecided'
    BY GoneUndecided, PTL
  <2>3. CASE servedBy[e][s] = {}
    BY <2>1, <2>3
  <2>4. CASE \E c \in servedBy[e][s] : TRUE
    <3>1. PICK c \in servedBy[e][s] : TRUE
      BY <2>4
    <3>2. servedBy[e][s] = {c} /\ (Decider(e, s) = c \/ Gone(e, s))
      BY <3>1 DEF Inv, ServedInv
    <3>3. c \in Bases /\ c # Zero
      BY <1>1, <3>1, DeciderType DEF Types, DecidersTyped
    <3>4. CASE Gone(e, s)'
      <4>1. Decider(e, s)' = Zero
        BY <2>2, <3>4 DEF GoneMeansUndecided
      <4> QED
        BY <2>1, <3>2, <3>4, <4>1
    <3>5. CASE ~Gone(e, s)'
      <4>1. Decider(e, s) = c
        BY <1>2, <3>2, <3>5, GoneStays
      <4>2. Decider(e, s)' = c
        BY <1>2, <3>3, <3>5, <4>1, SameOrGone
      <4> QED
        BY <2>1, <3>2, <4>2
    <3> QED
      BY <3>4, <3>5
  <2> QED
    BY <2>3, <2>4
<1>4. WithdrawnInv'
  <2> SUFFICES ASSUME NEW e \in Contracts, NEW r \in withdrawn'[e]
               PROVE  Gone(e, r.selector)'
    BY DEF WithdrawnInv
  <2>1. r \in Receipts /\ r.selector \in Selectors
    BY <1>2, SystemAssumption DEF Types
  <2>2. CASE r \in withdrawn[e]
    BY <1>2, <2>1, <2>2, GoneStays DEF Inv, WithdrawnInv
  <2>3. CASE r \in Verified(e) /\ r \notin Verified(e)'
    <3>1. Decider(e, r.selector) \in Bases /\ BaseVerifies(Decider(e, r.selector), r)
      BY <2>3, VerifiedByDecider
    <3>2. Decider(e, r.selector) # Zero
      BY <3>1, DeciderType DEF DecidersTyped
    <3>3. Decider(e, r.selector)' # Decider(e, r.selector)
      BY <2>1, <2>3, <3>1 DEF Verified, BaseVerifies, SelectorMatches, ProofHolds
    <3> QED
      BY <1>2, <2>1, <3>2, <3>3, SameOrGone
  <2> QED
    BY <1>1, <2>2, <2>3, RecordType
<1> QED
  BY <1>2, <1>3, <1>4 DEF Inv

\* The histories begin with what the first routing decides.
LEMMA InvInit == Init => Inv
<1> SUFFICES ASSUME Init PROVE Inv
  OBVIOUS
<1>1. \A e, s : Decider(e, s) \in Bases \cup {Zero}
  BY DeciderType DEF DecidersTyped
<1>2. Types
  BY <1>1 DEF Init, Types, R!RouterInit, R!UNSET
<1>3. \A e \in Contracts, s \in Selectors : servedBy[e][s] = {Decider(e, s)} \ {Zero}
  BY DEF Init
<1> QED
  BY <1>2, <1>3 DEF Inv, ServedInv, WithdrawnInv, Init

\* The inductive invariant holds in every behaviour of the deployment.
THEOREM Invariance == Spec => []Inv
<1>1. Inv /\ UNCHANGED vars => Inv'
  <2> SUFFICES ASSUME Inv, UNCHANGED vars PROVE Inv'
    OBVIOUS
  <2> USE DEF vars, routerState, estopBState, estopRState
  <2>1. \A e, s : Decider(e, s)' = Decider(e, s) /\ Gone(e, s)' = Gone(e, s)
    BY DEF Decider, Hop, Gone
  <2> QED
    BY <2>1 DEF Inv, Types, ServedInv, WithdrawnInv
<1> QED
  BY <1>1, InvInit, InvStep, PTL DEF Spec

\* A selector is only ever decided by one base verifier at one entry, through
\* whatever proxies and router entries the calls went.
THEOREM OneDecider == Spec => []OneDeciderAcrossTime
<1>1. Inv => OneDeciderAcrossTime
  BY DEF Inv, ServedInv, OneDeciderAcrossTime
<1> QED
  BY <1>1, Invariance, PTL

\* A receipt that an entry accepted and later rejected is never accepted there
\* again: what is gone is not decided, and Verified asks for a decider.
THEOREM Revoked == Spec => []NeverReaccepted
<1>1. Inv => NeverReaccepted
  <2> SUFFICES ASSUME Inv, NEW e \in Contracts, NEW r \in withdrawn[e], r \in Verified(e)
               PROVE  FALSE
    BY DEF NeverReaccepted
  <2>1. r \in Receipts /\ r.selector \in Selectors
    BY SystemAssumption DEF Inv, Types
  <2>2. Decider(e, r.selector) = Zero
    BY <2>1, GoneUndecided DEF Inv, WithdrawnInv, GoneMeansUndecided
  <2> QED
    BY <2>2, VerifiedByDecider, DeciderType DEF DecidersTyped
<1> QED
  BY <1>1, Invariance, PTL

-----------------------------------------------------------------------------
(* The circuit breakers *)

\* estop(receipt) asks the contract behind the stop, and whatever that is, the
\* answer comes from a base verifier.
THEOREM BreakerProved == Spec => []BreakerNeedsExploit
<1>1. Init => BreakerNeedsExploit
  BY DEF Init, EB!EstopInit, ER!EstopInit, BreakerNeedsExploit
<1>2. ASSUME BreakerNeedsExploit, [Next]_vars
      PROVE  BreakerNeedsExploit'
  <2> SUFFICES ASSUME NEW r \in aTripped' \cup bTripped'
               PROVE  r.claimDigest = ZeroDigest /\ \E b \in Bases : BaseVerifies(b, r)
    BY DEF BreakerNeedsExploit, BaseVerifies, SelectorMatches, ProofHolds
  <2>1. CASE r \in aTripped \cup bTripped
    BY <1>2, <2>1 DEF BreakerNeedsExploit
  <2>2. CASE EstopBStep /\ r \in bTripped' /\ r \notin bTripped
    <3>1. r.claimDigest = ZeroDigest /\ r \in Verified(guardedBase)
      BY <2>2 DEF EstopBStep, EB!EstopActions, EB!EstopByGuardian, EB!EstopByReceipt,
         EB!CallVerify, EB!VerifyIntegrity, EB!historyVars
    <3> QED
      BY <3>1, VerifiedByDecider
  <2>3. CASE EstopRStep /\ r \in aTripped' /\ r \notin aTripped
    <3>1. r.claimDigest = ZeroDigest /\ r \in Verified(router)
      BY <2>3 DEF EstopRStep, ER!EstopActions, ER!EstopByGuardian, ER!EstopByReceipt,
         ER!CallVerify, ER!VerifyIntegrity, ER!historyVars
    <3> QED
      BY <3>1, VerifiedByDecider
  <2> QED
    BY <1>2, <2>1, <2>2, <2>3 DEF Next, RouterStep, EstopBStep, EstopRStep,
       estopBState, estopRState, vars
<1> QED
  BY <1>1, <1>2, PTL DEF Spec

-----------------------------------------------------------------------------
(* The deployment is made of its contracts *)

\* What a stop is asked about is decided behind it, so its own calls leave that
\* alone: no call of either stop changes what the router or the base verifies.
LEMMA BehindUnchanged ==
  /\ Verified(guardedBase)' = Verified(guardedBase)
  /\ UNCHANGED <<verifiers, bPaused>> => Verified(router)' = Verified(router)
<1>1. Decisions /\ Decisions'
  BY DecisionsHold, PTL
<1>2. \A s : Decider(guardedBase, s)' = Decider(guardedBase, s)
  BY <1>1, SystemAssumption DEF Decisions
<1>3. UNCHANGED <<verifiers, bPaused>> => \A s : Decider(router, s)' = Decider(router, s)
  BY <1>1 DEF Decisions, ViaRouter
<1> QED
  BY <1>2, <1>3 DEF Verified, BaseVerifies, SelectorMatches, ProofHolds

\* Every behaviour of the deployment is, contract by contract, a behaviour of the
\* router's specification and of the emergency stop's: to a stop, a step of
\* another contract is a change of what the contract behind it verifies.
THEOREM MadeOfItsContracts == Spec => R!RouterSpec /\ EB!EstopSpec /\ ER!EstopSpec
<1>1. Init => R!RouterInit /\ EB!EstopSpecInit /\ ER!EstopSpecInit
  BY DEF Init, EB!EstopSpecInit, ER!EstopSpecInit, Verified
<1>2. ASSUME [Next]_vars
      PROVE  /\ [R!RouterNext]_R!routerVars
             /\ [EB!EstopNext]_EB!estopVars
             /\ [ER!EstopNext]_ER!estopVars
  <2>1. Verified(guardedBase)' \in SUBSET Receipts /\ Verified(router)' \in SUBSET Receipts
    BY DEF Verified
  <2>2. CASE RouterStep
    <3>1. EB!WrappedChanges
      BY <2>1, <2>2 DEF RouterStep, estopBState, EB!WrappedChanges, EB!historyVars,
         EB!ownableVars
    <3>2. ER!WrappedChanges
      BY <2>1, <2>2 DEF RouterStep, estopRState, ER!WrappedChanges, ER!historyVars,
         ER!ownableVars
    <3> QED
      BY <2>2, <3>1, <3>2 DEF RouterStep, EB!EstopNext, ER!EstopNext
  <2>3. CASE EstopBStep
    <3>1. ER!WrappedChanges
      BY <2>1, <2>3 DEF EstopBStep, estopRState, ER!WrappedChanges, ER!historyVars,
         ER!ownableVars
    <3>2. UNCHANGED R!routerVars
      BY <2>3 DEF EstopBStep, routerState, R!routerVars
    <3> QED
      BY <2>3, <3>1, <3>2, BehindUnchanged DEF EstopBStep, EB!EstopNext, ER!EstopNext
  <2>4. CASE EstopRStep
    <3>1. UNCHANGED EB!estopVars
      BY <2>4, BehindUnchanged DEF EstopRStep, estopBState, EB!estopVars
    <3>2. UNCHANGED R!routerVars
      BY <2>4 DEF EstopRStep, routerState, R!routerVars
    <3>3. Verified(router)' = Verified(router)
      BY <2>4, BehindUnchanged DEF EstopRStep, routerState, estopBState
    <3> QED
      BY <2>4, <3>1, <3>2, <3>3 DEF EstopRStep, ER!EstopNext
  <2>5. CASE UNCHANGED vars
    <3>1. UNCHANGED <<routerState, estopBState, estopRState>>
      BY <2>5 DEF vars
    <3>2. Verified(router)' = Verified(router) /\ Verified(guardedBase)' = Verified(guardedBase)
      BY <3>1, BehindUnchanged DEF routerState, estopBState
    <3> QED
      BY <3>1, <3>2 DEF routerState, estopBState, estopRState, R!routerVars,
         EB!estopVars, ER!estopVars
  <2> QED
    BY <1>2, <2>2, <2>3, <2>4, <2>5 DEF Next
<1> QED
  BY <1>1, <1>2, PTL DEF Spec, R!RouterSpec, EB!EstopSpec, ER!EstopSpec
=============================================================================
