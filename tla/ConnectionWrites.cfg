\* Two writes and two reads over two lost connections, with a change of user.
SPECIFICATION Spec
CONSTANTS
  MaxPuts = 2
  MaxListens = 2
  MaxTokens = 2
  MaxRevokes = 0
  MaxDrops = 2
  MaxFails = 0
  MaxOffline = 0
  MaxNudges = 0
CHECK_DEADLOCK FALSE
INVARIANTS
  TypeOK
  UnackedExact
  LastWriteWins
  NothingForgotten
PROPERTIES
  ReadSeesWrites
  StreamSpec
