SPECIFICATION Spec
CONSTANTS
  baseA = baseA
  baseB = baseB
  selA = selA
  selB = selB
  digest = digest
  ZeroDigest = digest0
  Bases = {baseA, baseB}
  guardedBase = baseA
  SELECTOR <- MCSelector
  Selectors = {selA, selB}
  Receipts <- MCReceipts
  router = router
  estopB = estopB
  estopR = estopR
  Accounts = {admin}
  Admin = admin
  Zero = address0
  TOMBSTONE = address1
  MaxCallDepth = 4
VIEW View
INVARIANTS
  OneDeciderAcrossTime
  NeverReaccepted
  BreakerNeedsExploit
CHECK_DEADLOCK FALSE
