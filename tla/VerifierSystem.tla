--------------------------- MODULE VerifierSystem ---------------------------
(***************************************************************************)
(* The verifier contracts deployed together, as in                         *)
(* version-management-design.md: stateless base verifiers, an emergency    *)
(* stop in front of one of them, a router whose owner maps selectors to    *)
(* any of these contracts, and an application's own emergency stop in      *)
(* front of the router.  A verify call descends through the contracts; the *)
(* depth of the descent is bounded by the gas of the call, so a cycle (the *)
(* router mapped to itself, or to the stop in front of it) reverts.        *)
(***************************************************************************)
EXTENDS Integers

CONSTANTS
  Bases,          \* base verifiers
  guardedBase,    \* the base verifier behind estopB
  SELECTOR,       \* [Bases -> Selectors]: the immutable SELECTOR of a base
  Selectors,
  Receipts,       \* records [selector, proves, claimDigest]
  ZeroDigest,
  router, estopB, estopR,   \* addresses of the three stateful contracts
  Accounts, Admin, Zero, TOMBSTONE,
  MaxCallDepth    \* nested calls a transaction's gas pays for

Contracts == Bases \cup {router, estopB, estopR}

ASSUME SystemAssumption ==
  /\ guardedBase \in Bases
  /\ SELECTOR \in [Bases -> Selectors]
  /\ router # estopB /\ router # estopR /\ estopB # estopR
  /\ {router, estopB, estopR} \cap Bases = {}
  /\ Zero \notin Contracts /\ TOMBSTONE \notin Contracts /\ TOMBSTONE # Zero
  /\ \A r \in Receipts : r.selector \in Selectors
  /\ MaxCallDepth \in Nat

VARIABLES
  verifiers, routed, rOwner, rPending,                      \* the router
  bPaused, bStoppedBy, bTripped, bAnswered, bOwner, bPending,   \* estopB
  aPaused, aStoppedBy, aTripped, aAnswered, aOwner, aPending,   \* estopR
  servedBy,    \* history: the bases that decided an accepted call, per entry
  withdrawn    \* history: receipts an entry accepted and later rejected

routerState == <<verifiers, routed, rOwner, rPending>>
estopBState == <<bPaused, bStoppedBy, bTripped, bAnswered, bOwner, bPending>>
estopRState == <<aPaused, aStoppedBy, aTripped, aAnswered, aOwner, aPending>>
vars == <<routerState, estopBState, estopRState, servedBy, withdrawn>>

-----------------------------------------------------------------------------
(* Descent of a verify call *)

\* The selector names the parameters of the proof system the base was made for.
SelectorMatches(b, r) == r.selector = SELECTOR[b]

\* The rest of the seal proves the claim: a Groth16 proof whose public inputs
\* are the halves of the claim's digest, or the digest itself in the mock.
ProofHolds(r) == r.proves = r.claimDigest

\* _verifyIntegrity of a base verifier; anything else reverts.
BaseVerifies(b, r) == SelectorMatches(b, r) /\ ProofHolds(r)

\* Where a call for `selector` arriving at c goes next: a base verifier
\* decides it, a stopped proxy and a router without a verifier revert (Zero).
Hop(c, selector) ==
  CASE c \in Bases -> c
    [] c = estopB  -> IF bPaused THEN Zero ELSE guardedBase
    [] c = estopR  -> IF aPaused THEN Zero ELSE router
    [] c = router  -> IF verifiers[selector] \in Contracts
                      THEN verifiers[selector] ELSE Zero
    [] OTHER       -> Zero

\* The base verifier that decides a call for `selector` made to c; Zero when
\* the call reverts or still wanders among proxies when its gas is spent.
Decider(c, selector) ==
  LET hop == [a \in Contracts \cup {Zero} |-> Hop(a, selector)]
      at[d \in 0..MaxCallDepth] == IF d = 0 THEN c ELSE hop[at[d-1]]
      last == at[MaxCallDepth]
  IN  IF last \in Bases THEN last ELSE Zero

\* The receipts a call to c verifies now.
Verified(c) ==
  {r \in Receipts : LET b == Decider(c, r.selector)
                    IN  b \in Bases /\ BaseVerifies(b, r)}

-----------------------------------------------------------------------------
(* The contracts *)

R == INSTANCE VerifierRouter
       WITH owner <- rOwner, pendingOwner <- rPending, Verifiers <- Contracts

EB == INSTANCE EmergencyStop
       WITH owner <- bOwner, pendingOwner <- bPending, paused <- bPaused,
            stoppedBy <- bStoppedBy, tripped <- bTripped,
            answered <- bAnswered, verifiable <- Verified(guardedBase)

ER == INSTANCE EmergencyStop
       WITH owner <- aOwner, pendingOwner <- aPending, paused <- aPaused,
            stoppedBy <- aStoppedBy, tripped <- aTripped,
            answered <- aAnswered, verifiable <- Verified(router)

\* What the entries answer now is added to the history.
Record ==
  /\ servedBy' = [e \in Contracts |-> [s \in Selectors |->
                    servedBy[e][s] \cup ({Decider(e, s)'} \ {Zero})]]
  /\ withdrawn' = [e \in Contracts |->
                    withdrawn[e] \cup (Verified(e) \ Verified(e)')]

Init ==
  /\ R!RouterInit
  /\ EB!EstopInit
  /\ ER!EstopInit
  /\ servedBy = [e \in Contracts |-> [s \in Selectors |->
                    {Decider(e, s)} \ {Zero}]]
  /\ withdrawn = [e \in Contracts |-> {}]

RouterStep == R!RouterNext /\ UNCHANGED <<estopBState, estopRState>> /\ Record
EstopBStep == EB!EstopActions /\ UNCHANGED <<routerState, estopRState>> /\ Record
EstopRStep == ER!EstopActions /\ UNCHANGED <<routerState, estopBState>> /\ Record

Next == RouterStep \/ EstopBStep \/ EstopRStep

Spec == Init /\ [][Next]_vars

-----------------------------------------------------------------------------
(* Properties *)

\* The design document's "each identifier can have at most one implementation
\* across time", end to end: through whatever contracts an application calls,
\* a selector is only ever decided by one base verifier.
OneDeciderAcrossTime ==
  \A e \in Contracts, s \in Selectors : \A b, c \in servedBy[e][s] : b = c

\* Revocation is final end to end: a receipt that an entry point accepted and
\* then rejected, because a proxy on its way was stopped or its selector was
\* removed, is never accepted there again, whoever owns the contracts by then.
NeverReaccepted ==
  \A e \in Contracts : withdrawn[e] \cap Verified(e) = {}

\* A proxy is tripped only by proof of an exploit of the proof system: however
\* many contracts stand in between, some base verifier itself verifies the
\* receipt, and its claim is all zeroes.
BreakerNeedsExploit ==
  \A r \in aTripped \cup bTripped :
    r.claimDigest = ZeroDigest /\ \E b \in Bases : BaseVerifies(b, r)
=============================================================================
