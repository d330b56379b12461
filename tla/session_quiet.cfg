SPECIFICATION Spec
CONSTANTS
  c1 = c1  c2 = c2  c3 = c3
  n1 = n1  n2 = n2
  Client = {c1, c2, c3}
  Name = {n1, n2}
  MaxPlayers = 2
  Outdated = {}
  UnsetId = 1
  Namesakes = TRUE
  Quiet = TRUE
  MaxActs = 1
  NoClient = NoClient
  NoPlayer = NoPlayer
  Local = Local
SYMMETRY Interchangeable
INVARIANTS
  TypeOK
  SlotIsSystemIndex
  OnePlayerPerConnection
  RosterConverges
  NoClientCrash
  ChatUnderAuthor
PROPERTIES
  NoLivePlayerDropped
CHECK_DEADLOCK FALSE
