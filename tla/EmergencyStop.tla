---------------------------- MODULE EmergencyStop ----------------------------
(***************************************************************************)
(* RiscZeroVerifierEmergencyStop: a proxy in front of a verifier that its  *)
(* guardian, or anyone who holds a verifying receipt for the all-zero      *)
(* claim, can stop for ever.                                               *)
(*                                                                         *)
(* `verifier` is immutable but what it verifies is not: behind a proxy     *)
(* there may be a router whose entries come and go.  `verifiable` is the   *)
(* set of receipts the wrapped contract verifies at present; a module that *)
(* composes contracts instantiates it with a state function, and this      *)
(* module's own next-state relation lets it change arbitrarily.            *)
(***************************************************************************)
EXTENDS Ownable2Step

CONSTANTS
  Receipts,      \* receipts callers submit: records with a field claimDigest
  ZeroDigest     \* bytes32(0)

VARIABLES
  paused,        \* Pausable._paused
  verifiable,    \* the receipts `verifier` verifies now
  stoppedBy,     \* history: the guardians whose estop() stopped it
  tripped,       \* history: the receipts whose estop(receipt) stopped it
  answered       \* history: the receipts a verify call has succeeded for

estopVars == <<owner, pendingOwner, paused, verifiable, stoppedBy, tripped, answered>>

historyVars == <<stoppedBy, tripped, answered>>

EstopTypeOK ==
  /\ OwnableTypeOK
  /\ paused \in BOOLEAN
  /\ verifiable \subseteq Receipts
  /\ answered \subseteq Receipts
  /\ stoppedBy \subseteq Accounts
  /\ tripped \subseteq Receipts

EstopInit ==
  /\ OwnableInit
  /\ paused = FALSE
  /\ stoppedBy = {}
  /\ tripped = {}
  /\ answered = {}

\* verify and verifyIntegrity return (whenNotPaused, then the wrapped call).
VerifyIntegrity(receipt) == ~paused /\ receipt \in verifiable

\* Faulty variant: stopping twice restarts the contract.
PauseToggling == paused' = ~paused

\* _pause is itself whenNotPaused; nothing in the contract calls _unpause.
Pause ==
  /\ ~paused
  /\ paused' = TRUE

\* estop()
EstopByGuardian(caller) ==
  /\ OnlyOwner(caller)
  /\ Pause
  /\ stoppedBy' = stoppedBy \cup {caller}
  /\ UNCHANGED <<ownableVars, tripped, answered>>

\* Faulty variant: a verifying receipt for any claim will do.
EstopByAnyReceipt(receipt) ==
  /\ VerifyIntegrity(receipt)
  /\ Pause
  /\ tripped' = tripped \cup {receipt}
  /\ UNCHANGED <<ownableVars, stoppedBy, answered>>

\* Faulty variant: the proof of exploit itself is not verified.
EstopByUnverifiedReceipt(receipt) ==
  /\ receipt.claimDigest = ZeroDigest
  /\ Pause
  /\ tripped' = tripped \cup {receipt}
  /\ UNCHANGED <<ownableVars, stoppedBy, answered>>

\* estop(receipt), the circuit breaker: open to any caller.
EstopByReceipt(receipt) ==
  /\ receipt.claimDigest = ZeroDigest     \* InvalidProofOfExploit
  /\ VerifyIntegrity(receipt)
  /\ Pause
  /\ tripped' = tripped \cup {receipt}
  /\ UNCHANGED <<ownableVars, stoppedBy, answered>>

\* verify and verifyIntegrity as called by an application.
CallVerify(receipt) ==
  /\ VerifyIntegrity(receipt)
  /\ answered' = answered \cup {receipt}
  /\ UNCHANGED <<ownableVars, paused, stoppedBy, tripped>>

EstopActions ==
  \/ OwnableNext /\ UNCHANGED <<paused, historyVars>>
  \/ \E caller \in Accounts : EstopByGuardian(caller)
  \/ \E receipt \in Receipts : EstopByReceipt(receipt)
  \/ \E receipt \in Receipts : CallVerify(receipt)

\* The contract behind the proxy changes its mind about a receipt.
WrappedChanges ==
  /\ verifiable' \in SUBSET Receipts
  /\ UNCHANGED <<ownableVars, paused, historyVars>>

EstopNext ==
  \/ EstopActions /\ UNCHANGED verifiable
  \/ WrappedChanges

EstopSpecInit == EstopInit /\ verifiable \in SUBSET Receipts

EstopSpec == EstopSpecInit /\ [][EstopNext]_estopVars

-----------------------------------------------------------------------------
(* Properties *)

\* "Once stopped, this contract can never be restarted" and "when stopped,
\* all calls to the verify and verifyIntegrity functions will revert"
\* (estop's comment): from the step that stops it on, no call is answered,
\* whatever becomes of the owner and of the contract behind.
StoppedForEver ==
  [][paused => paused' /\ UNCHANGED historyVars]_estopVars

\* The circuit breaker trips only on proof of an exploit: a stopped contract
\* was stopped exactly once, by its guardian or by one receipt for the
\* all-zero claim, and a contract that runs was never stopped.
StoppedWithCause ==
  /\ paused = (stoppedBy # {} \/ tripped # {})
  /\ stoppedBy = {} \/ tripped = {}
  /\ \A a, b \in stoppedBy : a = b
  /\ \A q, r \in tripped : q = r /\ r.claimDigest = ZeroDigest

\* A guardian who renounced leaves only the circuit breaker: nobody becomes
\* guardian again, and what stops the contract from then on is a receipt the
\* contract behind it verifies at that moment.
RenouncedLeavesBreaker ==
  [][owner = Zero => /\ owner' = Zero
                     /\ paused' # paused => tripped' \cap verifiable # {}]_estopVars
=============================================================================
