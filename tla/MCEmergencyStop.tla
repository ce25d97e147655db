--------------------------- MODULE MCEmergencyStop ---------------------------
(* One proxy, two accounts; receipts for the all-zero claim and for an      *)
(* ordinary claim.                                                          *)
EXTENDS EmergencyStop

CONSTANTS ordinary

MCReceipts == [claimDigest : {ZeroDigest, ordinary}, seal : {1}]
                \cup {[claimDigest |-> ZeroDigest, seal |-> 2]}
=============================================================================
