\* Every fault there is, with one write and one read.
SPECIFICATION FairSpec
CONSTANTS
  MaxPuts = 1
  MaxListens = 1
  MaxTokens = 1
  MaxRevokes = 1
  MaxDrops = 2
  MaxFails = 1
  MaxOffline = 1
  MaxNudges = 1
CHECK_DEADLOCK FALSE
INVARIANTS
  StateMatches
PROPERTIES
  RequestsEnd
