---------------------------- MODULE Ownable2Step ----------------------------
(***************************************************************************)
(* The part of OpenZeppelin's Ownable2Step that the router and the         *)
(* emergency stop inherit.  It is an external dependency: its behaviour is *)
(* the one contracts/test exercises (transfer, accept, renounce).          *)
(*                                                                         *)
(* A call that reverts changes nothing, so it is a step that is not taken: *)
(* every `require` is a guard.                                             *)
(***************************************************************************)

CONSTANTS
  Accounts,   \* addresses that can send transactions
  Admin,      \* the account given to the constructor
  Zero        \* address(0): nobody

ASSUME OwnableAssumption == Admin \in Accounts /\ Zero \notin Accounts

VARIABLES owner, pendingOwner

ownableVars == <<owner, pendingOwner>>

OwnableTypeOK ==
  /\ owner \in Accounts \cup {Zero}
  /\ pendingOwner \in Accounts \cup {Zero}

OwnableInit ==
  /\ owner = Admin
  /\ pendingOwner = Zero

\* modifier onlyOwner
OnlyOwner(caller) == caller = owner

\* Faulty variant: the outstanding offer of ownership is kept.
SetOwnerKeepingOffer(account) == owner' = account /\ UNCHANGED pendingOwner

\* _transferOwnership: taking ownership always drops the outstanding offer.
SetOwner(account) ==
  /\ owner' = account
  /\ pendingOwner' = Zero

TransferOwnership(caller, account) ==
  /\ OnlyOwner(caller)
  /\ pendingOwner' = account
  /\ UNCHANGED owner

AcceptOwnership(caller) ==
  /\ pendingOwner = caller
  /\ SetOwner(caller)

RenounceOwnership(caller) ==
  /\ OnlyOwner(caller)
  /\ SetOwner(Zero)

OwnableNext ==
  \E caller \in Accounts :
    \/ \E account \in Accounts \cup {Zero} : TransferOwnership(caller, account)
    \/ AcceptOwnership(caller)
    \/ RenounceOwnership(caller)
=============================================================================
