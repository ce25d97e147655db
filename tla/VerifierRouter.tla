--------------------------- MODULE VerifierRouter ---------------------------
(***************************************************************************)
(* RiscZeroVerifierRouter: a mapping from the 4-byte selector at the front *)
(* of a seal to the verifier contract that checks the receipt, managed by  *)
(* an owner.  UNSET is address(0), the value of an entry never written;    *)
(* TOMBSTONE is address(1), the value of an entry that was removed.        *)
(*                                                                         *)
(* The contract puts no condition on the `verifier` argument of            *)
(* addVerifier: the owner may pass a contract, address(0) (which writes    *)
(* the value already there) or address(1) (which retires a selector that   *)
(* never had a verifier, as the comment in removeVerifier says).           *)
(***************************************************************************)
EXTENDS Ownable2Step

CONSTANTS
  Selectors,    \* bytes4 selectors
  Verifiers,    \* addresses of verifier contracts
  TOMBSTONE     \* address(1)

ASSUME RouterAssumption ==
  /\ TOMBSTONE \notin Verifiers /\ Zero \notin Verifiers
  /\ TOMBSTONE # Zero

UNSET == Zero

VARIABLES
  verifiers,    \* mapping(bytes4 => IRiscZeroVerifier)
  routed        \* history: the verifiers calls for a selector were forwarded to

routerVars == <<owner, pendingOwner, verifiers, routed>>

RouterTypeOK ==
  /\ OwnableTypeOK
  /\ verifiers \in [Selectors -> Verifiers \cup {UNSET, TOMBSTONE}]
  /\ routed \in [Selectors -> SUBSET Verifiers]

RouterInit ==
  /\ OwnableInit
  /\ verifiers = [s \in Selectors |-> UNSET]
  /\ routed = [s \in Selectors |-> {}]

\* Faulty variant: an entry in use is overwritten.
AddVerifierOverwriting(caller, s, v) ==
  /\ OnlyOwner(caller)
  /\ verifiers[s] # TOMBSTONE
  /\ verifiers' = [verifiers EXCEPT ![s] = v]
  /\ UNCHANGED <<ownableVars, routed>>

AddVerifier(caller, s, v) ==
  /\ OnlyOwner(caller)
  /\ verifiers[s] # TOMBSTONE        \* SelectorRemoved
  /\ verifiers[s] = UNSET            \* SelectorInUse
  /\ verifiers' = [verifiers EXCEPT ![s] = v]
  /\ UNCHANGED <<ownableVars, routed>>

\* Faulty variant: the entry is deleted, leaving no tombstone.
RemoveVerifierDeleting(caller, s) ==
  /\ OnlyOwner(caller)
  /\ verifiers[s] # UNSET
  /\ verifiers' = [verifiers EXCEPT ![s] = UNSET]
  /\ UNCHANGED <<ownableVars, routed>>

RemoveVerifier(caller, s) ==
  /\ OnlyOwner(caller)
  /\ verifiers[s] # UNSET            \* SelectorUnknown
  /\ verifiers' = [verifiers EXCEPT ![s] = TOMBSTONE]
  /\ UNCHANGED <<ownableVars, routed>>

\* Faulty variant: only removed entries are refused.
HasVerifierOrUnset(s) == verifiers[s] # TOMBSTONE

\* getVerifier: the selectors for which it returns instead of reverting.
HasVerifier(s) == verifiers[s] \notin {UNSET, TOMBSTONE}

\* verify and verifyIntegrity: anyone's call is forwarded to the verifier the
\* seal's selector names; views, they write nothing but the history.
Verify(s) ==
  /\ HasVerifier(s)
  /\ routed' = [routed EXCEPT ![s] = @ \cup {verifiers[s]}]
  /\ UNCHANGED <<ownableVars, verifiers>>

RouterNext ==
  \/ OwnableNext /\ UNCHANGED <<verifiers, routed>>
  \/ \E caller \in Accounts, s \in Selectors :
       \/ \E v \in Verifiers \cup {UNSET, TOMBSTONE} : AddVerifier(caller, s, v)
       \/ RemoveVerifier(caller, s)
  \/ \E s \in Selectors : Verify(s)

RouterSpec == RouterInit /\ [][RouterNext]_routerVars

-----------------------------------------------------------------------------
(* Properties *)

\* "Each selector maps to at most one implementation across time"
\* (removeVerifier's comment, version-management-design.md:84): whatever the
\* owners did in between, two calls with one selector are never answered by
\* two different verifiers.
OneImplementationAcrossTime ==
  \A s \in Selectors : \A v, w \in routed[s] : v = w

\* A selector that has served a call is either still served by the same
\* verifier or gone for good.
ServedOrRemoved ==
  \A s \in Selectors :
    routed[s] # {} => \/ routed[s] = {verifiers[s]}
                      \/ verifiers[s] = TOMBSTONE

\* After renounceOwnership nobody becomes owner again and the list of
\* verifiers is final: no offer of ownership made earlier survives it.
RenouncedIsFinal ==
  [][owner = Zero => UNCHANGED <<owner, verifiers>>]_routerVars

\* The router implements a write-once map.
Map == INSTANCE WriteOnceMap
         WITH Keys <- Selectors, Values <- Verifiers, Empty <- UNSET,
              Retired <- TOMBSTONE, map <- verifiers

WriteOnce == Map!Spec
=============================================================================
