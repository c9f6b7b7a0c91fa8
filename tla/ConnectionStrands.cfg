\* A connection lost between a read's data and its answer.
SPECIFICATION Spec
CONSTANTS
  MaxPuts = 2
  MaxListens = 2
  MaxTokens = 1
  MaxRevokes = 0
  MaxDrops = 1
  MaxFails = 0
  MaxOffline = 0
  MaxNudges = 0
CHECK_DEADLOCK FALSE
PROPERTIES
  ReadYourWrites
