SPECIFICATION EstopSpec
CONSTANTS
  Accounts = {guardian, other}
  Admin = guardian
  Zero = address0
  ordinary = ordinary
  ZeroDigest = digest0
  Receipts <- MCReceipts
INVARIANTS
  StoppedWithCause
PROPERTIES
  StoppedForEver
  RenouncedLeavesBreaker
CHECK_DEADLOCK FALSE
