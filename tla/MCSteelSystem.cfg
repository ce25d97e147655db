SPECIFICATION Spec
CONSTANTS
  a = a
  b = b
  code1 = code1
  code2 = code2
  s1 = s1
  zero = zero
  one = one
  s2 = s2
  Addresses = {a, b}
  Slots = {s1, s2}
  Codes = {code1, code2}
  Values = {zero, one}
  Zero = zero
  NoCode = nocode
  NoAccount = noaccount
  Forks = {1, 2, 3, 4}
  History <- MCHistory
  BlockNumber = 2
  HostSpec <- MCHostSpec
  GuestSpec <- MCSpec
  MaxCalls = 2
  MaxQueries = 4
  MaxReorgs = 2
VIEW MCView
INVARIANTS
  TypeOK
  GuestSound
  ProvableOnOneFork
PROPERTIES
  ImplementsProvedCall
CHECK_DEADLOCK FALSE
