-------------------------- MODULE MCVerifierSystem --------------------------
(* Two base verifiers with a selector each.  Receipts: a proof of the claim *)
(* the guarded base accepts, a proof of the all-zero claim, and a seal that *)
(* does not prove its claim; the other base has one ordinary receipt.       *)
EXTENDS VerifierSystem, TLC

CONSTANTS baseA, baseB, selA, selB, digest

MCSelector == (baseA :> selA) @@ (baseB :> selB)

MCReceipts ==
  {[selector |-> selA, proves |-> digest,     claimDigest |-> digest],
   [selector |-> selA, proves |-> ZeroDigest, claimDigest |-> ZeroDigest],
   [selector |-> selB, proves |-> digest,     claimDigest |-> digest],
   [selector |-> selB, proves |-> digest,     claimDigest |-> ZeroDigest]}

\* The histories of the single contracts are checked in their own runs; here
\* states that differ only in them are identified.
View == <<verifiers, rOwner, rPending, bPaused, bOwner, bPending,
          aPaused, bTripped, aTripped, aOwner, aPending, servedBy, withdrawn>>
=============================================================================
