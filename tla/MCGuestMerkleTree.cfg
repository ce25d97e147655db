SPECIFICATION Spec
CONSTANTS
  Values = {v1, v2, v3}
  MaxLeaves = 5
INVARIANTS
  NothingUnhashed
  EveryValueProvable
  RootFixesValues
CHECK_DEADLOCK FALSE
