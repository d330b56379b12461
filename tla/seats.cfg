SPECIFICATION FairSpec
CONSTANTS
  Vehicle = {v1, v2}
  Passengers = 1
  MaxActs = 1
  MaxMoves = 3
  MaxQueue = 1
  None = None
  Own = own
  Watcher = watcher
INVARIANTS
  TypeOK
  SeatedIsKnown
  WatcherUp
  OccupantsHeld
PROPERTIES
  WatcherCatchesUp
