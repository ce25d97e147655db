SPECIFICATION Spec
CONSTANTS
  Guests = {g1, g2}
  Journals = {j1, j2}
  Exits <- MCExits
  Assumptions <- MCAssumptions
  Releases = {r1, r2}
  HostRelease = r1
  None = none
SYMMETRY MCSymmetry
INVARIANTS
  AcceptedIsExecuted
  HonestAccepted
  DigestsAgree
  BuildsAgree
