--------------------------- MODULE VerifierProofs ---------------------------
(***************************************************************************)
(* Proofs about the two verifier contracts that have an owner, each on its *)
(* own: the router, for any accounts, selectors and verifiers, and the     *)
(* emergency stop, for any accounts and receipts and whatever the contract *)
(* behind it verifies over time.                                           *)
(***************************************************************************)
EXTENDS VerifierRouter, EmergencyStop, TLAPS

-----------------------------------------------------------------------------
(* Ownership *)

\* Every ownership operation leaves owner and pendingOwner addresses.
LEMMA OwnableStepType ==
  ASSUME OwnableTypeOK, OwnableNext
  PROVE  OwnableTypeOK'
BY DEF OwnableTypeOK, OwnableNext, TransferOwnership, AcceptOwnership,
       RenounceOwnership, SetOwner, OnlyOwner

\* Nobody holds an offer of ownership once the owner has renounced.
NoOfferAfterRenounce == owner = Zero => pendingOwner = Zero

\* Only an account passes onlyOwner, so a renounced contract has no owner
\* operations left, and no offer that could be accepted.
LEMMA RenouncedOwnership ==
  ASSUME NoOfferAfterRenounce, OwnableNext
  PROVE  NoOfferAfterRenounce' /\ (owner = Zero => owner' = Zero)
BY OwnableAssumption
   DEF NoOfferAfterRenounce, OwnableNext, TransferOwnership, AcceptOwnership,
       RenounceOwnership, SetOwner, OnlyOwner

-----------------------------------------------------------------------------
(* The router's types *)

\* Every operation of the router keeps its type.
LEMMA RouterStepType ==
  ASSUME RouterTypeOK, [RouterNext]_routerVars
  PROVE  RouterTypeOK'
<1>1. CASE OwnableNext /\ UNCHANGED <<verifiers, routed>>
  BY <1>1, OwnableStepType DEF RouterTypeOK
<1>2. ASSUME NEW caller \in Accounts, NEW s \in Selectors,
             NEW v \in Verifiers \cup {UNSET, TOMBSTONE},
             AddVerifier(caller, s, v)
      PROVE  RouterTypeOK'
  BY <1>2 DEF RouterTypeOK, OwnableTypeOK, AddVerifier, ownableVars
<1>3. ASSUME NEW caller \in Accounts, NEW s \in Selectors,
             RemoveVerifier(caller, s)
      PROVE  RouterTypeOK'
  BY <1>3 DEF RouterTypeOK, OwnableTypeOK, RemoveVerifier, ownableVars
<1>4. ASSUME NEW s \in Selectors, Verify(s)
      PROVE  RouterTypeOK'
  BY <1>4 DEF RouterTypeOK, OwnableTypeOK, Verify, HasVerifier, ownableVars
<1>5. CASE UNCHANGED routerVars
  BY <1>5 DEF RouterTypeOK, OwnableTypeOK, routerVars
<1> QED
  BY <1>1, <1>2, <1>3, <1>4, <1>5 DEF RouterNext

\* The router's state always has its type: the mapping holds a verifier, the
\* unset value or the tombstone for each selector.
THEOREM RouterTypeCorrect == RouterSpec => []RouterTypeOK
<1>1. RouterInit => RouterTypeOK
  BY OwnableAssumption DEF RouterInit, OwnableInit, RouterTypeOK, OwnableTypeOK
<1>2. RouterTypeOK /\ [RouterNext]_routerVars => RouterTypeOK'
  BY RouterStepType
<1> QED
  BY <1>1, <1>2, PTL DEF RouterSpec

-----------------------------------------------------------------------------
(* One implementation across time *)

\* What a call was forwarded to says nothing on its own about the next call:
\* the invariant must also say that the mapping still holds that verifier or
\* has been tombstoned, so that no third value can follow.
RouterInv == RouterTypeOK /\ OneImplementationAcrossTime /\ ServedOrRemoved

\* Every operation keeps the invariant: a call is recorded only when its entry is
\* a verifier, which is replaced by nothing but the tombstone.
LEMMA RouterInvStep ==
  ASSUME RouterInv, [RouterNext]_routerVars
  PROVE  RouterInv'
<1>1. RouterTypeOK'
  BY RouterStepType DEF RouterInv
<1>2. CASE UNCHANGED <<verifiers, routed>>
  BY <1>1, <1>2 DEF RouterInv, OneImplementationAcrossTime, ServedOrRemoved
<1>3. ASSUME NEW caller \in Accounts, NEW s \in Selectors,
             NEW v \in Verifiers \cup {UNSET, TOMBSTONE},
             AddVerifier(caller, s, v)
      PROVE  RouterInv'
  <2>1. routed' = routed /\ routed[s] = {}
    <3>1. verifiers[s] = UNSET /\ routed' = routed
      BY <1>3 DEF AddVerifier
    <3>2. UNSET \notin routed[s] /\ UNSET # TOMBSTONE
      BY RouterAssumption DEF UNSET, RouterInv, RouterTypeOK
    <3> QED
      BY <3>1, <3>2 DEF RouterInv, ServedOrRemoved
  <2>2. \A q \in Selectors : q # s => verifiers'[q] = verifiers[q]
    BY <1>3 DEF AddVerifier, RouterInv, RouterTypeOK
  <2> QED
    BY <1>1, <2>1, <2>2 DEF RouterInv, OneImplementationAcrossTime, ServedOrRemoved
<1>4. ASSUME NEW caller \in Accounts, NEW s \in Selectors,
             RemoveVerifier(caller, s)
      PROVE  RouterInv'
  <2>1. routed' = routed /\ verifiers'[s] = TOMBSTONE
    BY <1>4 DEF RemoveVerifier, RouterInv, RouterTypeOK
  <2>2. \A q \in Selectors : q # s => verifiers'[q] = verifiers[q]
    BY <1>4 DEF RemoveVerifier, RouterInv, RouterTypeOK
  <2> QED
    BY <1>1, <2>1, <2>2 DEF RouterInv, OneImplementationAcrossTime, ServedOrRemoved
<1>5. ASSUME NEW s \in Selectors, Verify(s)
      PROVE  RouterInv'
  <2>1. /\ verifiers' = verifiers
        /\ verifiers[s] # TOMBSTONE
        /\ routed'[s] = routed[s] \cup {verifiers[s]}
        /\ \A q \in Selectors : q # s => routed'[q] = routed[q]
    BY <1>5 DEF Verify, HasVerifier, RouterInv, RouterTypeOK
  <2>2. routed'[s] = {verifiers[s]}
    BY <2>1 DEF RouterInv, ServedOrRemoved
  <2> QED
    BY <1>1, <2>1, <2>2 DEF RouterInv, OneImplementationAcrossTime, ServedOrRemoved
<1> QED
  BY <1>2, <1>3, <1>4, <1>5 DEF RouterNext, routerVars

\* The inductive invariant of the router's mapping and of the calls it served.
THEOREM RouterInvCorrect == RouterSpec => []RouterInv
<1>1. RouterInit => RouterInv
  BY OwnableAssumption
     DEF RouterInit, OwnableInit, RouterInv, RouterTypeOK, OwnableTypeOK,
         OneImplementationAcrossTime, ServedOrRemoved
<1>2. RouterInv /\ [RouterNext]_routerVars => RouterInv'
  BY RouterInvStep
<1> QED
  BY <1>1, <1>2, PTL DEF RouterSpec

\* No selector's calls are ever answered by two different verifiers.
THEOREM OneImplementation == RouterSpec => []OneImplementationAcrossTime
<1>1. RouterInv => OneImplementationAcrossTime
  BY DEF RouterInv
<1> QED
  BY <1>1, RouterInvCorrect, PTL

\* A selector that served a call is served by that verifier or removed.
THEOREM ServedUntilRemoved == RouterSpec => []ServedOrRemoved
<1>1. RouterInv => ServedOrRemoved
  BY DEF RouterInv
<1> QED
  BY <1>1, RouterInvCorrect, PTL

-----------------------------------------------------------------------------
(* Renouncing the router *)

\* After the owner renounced, the owner and the mapping never change again.
THEOREM Renounced == RouterSpec => RenouncedIsFinal
<1>1. RouterInit => NoOfferAfterRenounce
  BY OwnableAssumption DEF RouterInit, OwnableInit, NoOfferAfterRenounce
<1>2. ASSUME NoOfferAfterRenounce, [RouterNext]_routerVars
      PROVE  /\ NoOfferAfterRenounce'
             /\ owner = Zero => UNCHANGED <<owner, verifiers>>
  <2>1. CASE OwnableNext /\ UNCHANGED <<verifiers, routed>>
    BY <1>2, <2>1, RenouncedOwnership
  <2>2. CASE \E caller \in Accounts, s \in Selectors :
               \/ \E v \in Verifiers \cup {UNSET, TOMBSTONE} :
                    AddVerifier(caller, s, v)
               \/ RemoveVerifier(caller, s)
    BY <1>2, <2>2, OwnableAssumption
       DEF AddVerifier, RemoveVerifier, OnlyOwner, ownableVars,
           NoOfferAfterRenounce
  <2>3. CASE \E s \in Selectors : Verify(s)
    BY <1>2, <2>3 DEF Verify, ownableVars, NoOfferAfterRenounce
  <2>4. CASE UNCHANGED routerVars
    BY <1>2, <2>4 DEF routerVars, NoOfferAfterRenounce
  <2> QED
    BY <1>2, <2>1, <2>2, <2>3, <2>4 DEF RouterNext
<1>3. NoOfferAfterRenounce /\ [RouterNext]_routerVars
        => [owner = Zero => UNCHANGED <<owner, verifiers>>]_routerVars
  BY <1>2
<1> QED
  BY <1>1, <1>2, <1>3, PTL DEF RouterSpec, RenouncedIsFinal

-----------------------------------------------------------------------------
(* The router is a write-once map *)

\* The router implements the write-once map: adding a verifier publishes (or,
\* with the tombstone, retires; or, with address(0), stutters), removing one
\* retires, and nothing else touches the map.
THEOREM ImplementsWriteOnceMap == RouterSpec => WriteOnce
<1>1. RouterInit => Map!Init
  BY DEF RouterInit, Map!Init
<1>2. RouterTypeOK /\ [RouterNext]_routerVars => [Map!Next]_verifiers
  <2> SUFFICES ASSUME RouterTypeOK, [RouterNext]_routerVars
               PROVE  [Map!Next]_verifiers
    OBVIOUS
  <2>1. ASSUME NEW caller \in Accounts, NEW s \in Selectors,
               NEW v \in Verifiers \cup {UNSET, TOMBSTONE},
               AddVerifier(caller, s, v)
        PROVE  [Map!Next]_verifiers
    <3>1. CASE v \in Verifiers
      BY <2>1, <3>1 DEF AddVerifier, Map!Next, Map!Publish
    <3>2. CASE v = TOMBSTONE
      BY <2>1, <3>2 DEF AddVerifier, Map!Next, Map!Retire
    <3>3. CASE v = UNSET
      BY <2>1, <3>3 DEF AddVerifier, RouterTypeOK
    <3> QED
      BY <3>1, <3>2, <3>3
  <2>2. ASSUME NEW caller \in Accounts, NEW s \in Selectors,
               RemoveVerifier(caller, s)
        PROVE  [Map!Next]_verifiers
    BY <2>2 DEF RemoveVerifier, Map!Next, Map!Retire
  <2>3. CASE UNCHANGED verifiers
    BY <2>3
  <2> QED
    BY <2>1, <2>2, <2>3 DEF RouterNext, Verify, routerVars
<1> QED
  BY <1>1, <1>2, RouterTypeCorrect, PTL DEF RouterSpec, WriteOnce, Map!Spec

-----------------------------------------------------------------------------
(* The emergency stop's types *)

\* Every operation of the emergency stop keeps its type.
LEMMA EstopStepType ==
  ASSUME EstopTypeOK, [EstopNext]_estopVars
  PROVE  EstopTypeOK'
<1>1. CASE OwnableNext /\ UNCHANGED <<paused, historyVars>> /\ UNCHANGED verifiable
  <2>1. OwnableTypeOK'
    BY <1>1
       DEF EstopTypeOK, OwnableTypeOK, OwnableNext, TransferOwnership,
           AcceptOwnership, RenounceOwnership, SetOwner
  <2> QED
    BY <1>1, <2>1 DEF EstopTypeOK, historyVars
<1>2. ASSUME NEW caller \in Accounts, EstopByGuardian(caller),
             UNCHANGED verifiable
      PROVE  EstopTypeOK'
  BY <1>2
     DEF EstopTypeOK, OwnableTypeOK, EstopByGuardian, Pause, ownableVars
<1>3. ASSUME NEW receipt \in Receipts, EstopByReceipt(receipt),
             UNCHANGED verifiable
      PROVE  EstopTypeOK'
  BY <1>3
     DEF EstopTypeOK, OwnableTypeOK, EstopByReceipt, Pause, ownableVars
<1>4. ASSUME NEW receipt \in Receipts, CallVerify(receipt),
             UNCHANGED verifiable
      PROVE  EstopTypeOK'
  BY <1>4 DEF EstopTypeOK, OwnableTypeOK, CallVerify, ownableVars
<1>5. CASE WrappedChanges
  BY <1>5
     DEF EstopTypeOK, OwnableTypeOK, WrappedChanges, historyVars, ownableVars
<1>6. CASE UNCHANGED estopVars
  BY <1>6 DEF EstopTypeOK, OwnableTypeOK, estopVars
<1> QED
  BY <1>1, <1>2, <1>3, <1>4, <1>5, <1>6 DEF EstopNext, EstopActions

\* The proxy's state always has its type.
THEOREM EstopTypeCorrect == EstopSpec => []EstopTypeOK
<1>1. EstopInit /\ verifiable \in SUBSET Receipts => EstopTypeOK
  BY OwnableAssumption DEF EstopInit, OwnableInit, EstopTypeOK, OwnableTypeOK
<1>2. EstopTypeOK /\ [EstopNext]_estopVars => EstopTypeOK'
  BY EstopStepType
<1> QED
  BY <1>1, <1>2, PTL DEF EstopSpec, EstopSpecInit

-----------------------------------------------------------------------------
(* Stopping is final *)

\* Every operation that succeeds on a stopped proxy is an ownership operation:
\* it leaves the proxy stopped and answers no receipt.
LEMMA StoppedStep ==
  ASSUME paused, [EstopNext]_estopVars
  PROVE  paused' /\ UNCHANGED historyVars
BY DEF EstopNext, EstopActions, EstopByGuardian, EstopByReceipt, CallVerify,
       VerifyIntegrity, Pause, WrappedChanges, historyVars, estopVars

\* "Once stopped, this contract can never be restarted."
THEOREM StopIsFinal == EstopSpec => StoppedForEver
<1>1. [EstopNext]_estopVars
        => [paused => paused' /\ UNCHANGED historyVars]_estopVars
  BY StoppedStep
<1> QED
  BY <1>1, PTL DEF EstopSpec, EstopSpecInit, StoppedForEver

-----------------------------------------------------------------------------
(* Every stop has one cause *)

\* Every operation keeps the one cause of a stop: estop needs an unpaused proxy.
LEMMA CauseStep ==
  ASSUME EstopTypeOK, StoppedWithCause, [EstopNext]_estopVars
  PROVE  StoppedWithCause'
<1>1. CASE UNCHANGED <<paused, stoppedBy, tripped>>
  BY <1>1 DEF StoppedWithCause
<1>2. ASSUME NEW caller \in Accounts, EstopByGuardian(caller)
      PROVE  StoppedWithCause'
  <2>1. stoppedBy = {} /\ tripped = {}
    BY <1>2 DEF EstopByGuardian, Pause, StoppedWithCause, EstopTypeOK
  <2>2. paused' = TRUE /\ stoppedBy' = {caller} /\ tripped' = {}
    BY <1>2, <2>1 DEF EstopByGuardian, Pause
  <2> QED
    BY <2>2 DEF StoppedWithCause
<1>3. ASSUME NEW receipt \in Receipts, EstopByReceipt(receipt)
      PROVE  StoppedWithCause'
  <2>1. stoppedBy = {} /\ tripped = {}
    BY <1>3 DEF EstopByReceipt, Pause, StoppedWithCause, EstopTypeOK
  <2>2. /\ paused' = TRUE /\ stoppedBy' = {} /\ tripped' = {receipt}
        /\ receipt.claimDigest = ZeroDigest
    BY <1>3, <2>1 DEF EstopByReceipt, Pause
  <2> QED
    BY <2>2 DEF StoppedWithCause
<1> QED
  BY <1>1, <1>2, <1>3
     DEF EstopNext, EstopActions, CallVerify, WrappedChanges, historyVars,
         estopVars

\* A stopped proxy was stopped once, by its guardian or by one receipt for
\* the all-zero claim.
THEOREM CauseCorrect == EstopSpec => []StoppedWithCause
<1>1. EstopInit => StoppedWithCause
  BY DEF EstopInit, StoppedWithCause
<1>2. EstopTypeOK /\ StoppedWithCause /\ [EstopNext]_estopVars
        => StoppedWithCause'
  BY CauseStep
<1> QED
  BY <1>1, <1>2, EstopTypeCorrect, PTL DEF EstopSpec, EstopSpecInit

-----------------------------------------------------------------------------
(* Renouncing leaves the circuit breaker *)

\* After renouncement no operation brings back an owner or an offer.
LEMMA RenouncedStep ==
  ASSUME NoOfferAfterRenounce, [EstopNext]_estopVars
  PROVE  /\ NoOfferAfterRenounce'
         /\ owner = Zero =>
              /\ owner' = Zero
              /\ paused' # paused => tripped' \cap verifiable # {}
<1>1. CASE OwnableNext /\ UNCHANGED <<paused, historyVars>>
  BY <1>1, OwnableAssumption
     DEF NoOfferAfterRenounce, OwnableNext, TransferOwnership,
         AcceptOwnership, RenounceOwnership, SetOwner, OnlyOwner
<1>2. ASSUME NEW caller \in Accounts, EstopByGuardian(caller)
      PROVE  owner # Zero /\ UNCHANGED ownableVars
  BY <1>2, OwnableAssumption DEF EstopByGuardian, OnlyOwner
<1>3. ASSUME NEW receipt \in Receipts, EstopByReceipt(receipt)
      PROVE  receipt \in tripped' \cap verifiable /\ UNCHANGED ownableVars
  BY <1>3 DEF EstopByReceipt, VerifyIntegrity
<1>4. CASE UNCHANGED <<ownableVars, paused>>
  BY <1>4 DEF NoOfferAfterRenounce, ownableVars
<1> QED
  BY <1>1, <1>2, <1>3, <1>4
     DEF NoOfferAfterRenounce, EstopNext, EstopActions, CallVerify,
         WrappedChanges, ownableVars, estopVars

\* After the guardian renounced, only a receipt that the contract behind the
\* proxy verifies at that moment can stop it.
THEOREM RenouncedBreaker == EstopSpec => RenouncedLeavesBreaker
<1>1. EstopInit => NoOfferAfterRenounce
  BY OwnableAssumption DEF EstopInit, OwnableInit, NoOfferAfterRenounce
<1>2. NoOfferAfterRenounce /\ [EstopNext]_estopVars
        => /\ NoOfferAfterRenounce'
           /\ [owner = Zero =>
                 /\ owner' = Zero
                 /\ paused' # paused => tripped' \cap verifiable # {}]_estopVars
  BY RenouncedStep
<1> QED
  BY <1>1, <1>2, PTL DEF EstopSpec, EstopSpecInit, RenouncedLeavesBreaker
=============================================================================
