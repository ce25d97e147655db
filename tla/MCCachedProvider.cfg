SPECIFICATION CacheSpec
CONSTANTS
  header = header
  account = account
  Queries = {header, account}
  HeaderQueries = {header}
  Answers = {a1, a2}
  None = None
  Absent = Absent
  NoFile = NoFile
  Torn = Torn
  Nobody = Nobody
  Providers = {p1, p2}
  MaxMoves = 2
  MaxFaults = 1
SYMMETRY Symmetry
INVARIANTS
  CacheTypeOK
  AnswersOnceTrue
  TornOnlyByInterruption
  SavedIsKept
CHECK_DEADLOCK FALSE
