SPECIFICATION Spec
CONSTANTS
  MaxPlayers = 2
  UnsetId = 0
  RetryTicks = 2
  MaxQueue = 3
  Empty = Empty
  Local = Local
  Current = Current
  Former = Former
INVARIANTS
  LocalPlayerKept
CHECK_DEADLOCK FALSE
