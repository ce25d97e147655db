SPECIFICATION AirdropSpec
CONSTANTS
  Players = {alice, bob}
  root1 = root1
  root2 = root2
  leaf1 = leaf1
  leaf2 = leaf2
  Roots = {root1, root2}
  Leaves = {leaf1, leaf2}
  NoRoot = word0
  Provable <- MCProvable
  REGISTRATION_BONUS_POINTS = 2
  Awards = {1, 2}
  UNIT = 2
  Supply = 1
  MaxUint = 9
INVARIANTS
  FirstClaimCovered
CHECK_DEADLOCK FALSE
