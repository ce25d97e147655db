SPECIFICATION Spec
CONSTANTS
  run1 = run1
  run2 = run2
  root1 = root1
  root2 = root2
  leaf1 = leaf1
  leaf2 = leaf2
  Runs = {run1, run2}
  Roots = {root1, root2, word32}
  StringWord = word32
  RootOf <- MCRootOf
  NoRun = norun
  NoPayload = nopayload
  Window = 2
  MaxReorg = 1
  MaxHeight = 4
  MaxEpoch = 1
  Confirmations = 1
  MaxSends = 1
  Players = {alice}
  Leaves = {leaf1, leaf2}
  NoRoot = word0
  Provable <- MCProvable
  REGISTRATION_BONUS_POINTS = 1
  Awards = {1}
  UNIT = 1
  Supply = 1
  MaxUint = 1
INVARIANTS
  TypeOK
  SentRootIsAnchored
  
  RootIsTheOneExecuted
  
PROPERTIES
  ConfirmedIsDelivered
CHECK_DEADLOCK FALSE
