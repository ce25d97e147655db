SPECIFICATION Spec
CONSTANTS
  Nibbles = {0, 1}
  KeyLength = 4
  Keys <- MCKeys
  short = short
  long = long
  Values = {short, long}
  ValueLength <- MCValueLength
  NotFound = NotFound
  Panic = Panic
  MaxAsked = 3
INVARIANTS
  RootPreserved
  AskedAnswered
  NeverWrong
CHECK_DEADLOCK FALSE
