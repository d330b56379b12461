SPECIFICATION FairSpec
CONSTANTS
  c1 = c1  c2 = c2  c3 = c3
  n1 = n1  n2 = n2
  Client = {c1, c2, c3}
  Name = {n1, n2}
  MaxPlayers = 2
  Outdated = {c3}
  UnsetId = 1
  Namesakes = FALSE
  Quiet = TRUE
  MaxActs = 0
  NoClient = NoClient
  NoPlayer = NoPlayer
  Local = Local
INVARIANTS
  NamesUnique
PROPERTIES
  JoinCompletes
  DepartedRemoved
  ImplementsMembership
CHECK_DEADLOCK FALSE
