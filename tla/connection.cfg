SPECIFICATION FairSpec
CONSTANTS
  MaxPlayers = 2
  UnsetId = 0
  RetryTicks = 2
  MaxQueue = 3
  Empty = Empty
  Local = Local
  Current = Current
  Former = Former
INVARIANTS
  TypeOK
  LinkIsPolled
  QueueIsCurrent
  RosterHeld
PROPERTIES
  RetriesAfterTimeout
  StuckExplained
CHECK_DEADLOCK FALSE
