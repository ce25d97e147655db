SPECIFICATION RouterSpec
CONSTANTS
  Accounts = {admin, other}
  Admin = admin
  Zero = address0
  TOMBSTONE = address1
  Selectors = {s1, s2}
  Verifiers = {v1, v2, v3}
SYMMETRY Symmetry
INVARIANTS
  RouterTypeOK
  OneImplementationAcrossTime
PROPERTIES
  RenouncedIsFinal
  WriteOnce
CHECK_DEADLOCK FALSE
