SPECIFICATION Spec
CONSTANTS
  MaxTimers = 2
  Interval <- Intervals
  Repeating <- Repetitions
  Modulus = 4
  VMs = 2
  Careful = TRUE
  MaxActs = 3
INVARIANTS
  TypeOK
  IteratorHeld
  FiresExactly
PROPERTIES
  GapKept
  CountedFinish
  KeepsFiring
