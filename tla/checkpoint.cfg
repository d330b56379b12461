SPECIFICATION Spec
CONSTANTS
  c1 = c1  c2 = c2
  p1 = p1  p2 = p2
  Client = {c1}
  Spot = {p1, p2}
  MaxCheckpoints = 2
  MaxCreates = 3
  MaxActs = 2
  MaxQueue = 2
  MaxReports = 1
  None = None
  Away = Away
SYMMETRY Interchangeable
INVARIANTS
  TypeOK
  CopiesConverge
PROPERTY NoMarkerLeaks
CHECK_DEADLOCK FALSE
