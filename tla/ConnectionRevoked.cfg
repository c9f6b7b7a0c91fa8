\* A revoked token and a reachability notification.
SPECIFICATION Spec
CONSTANTS
  MaxPuts = 0
  MaxListens = 0
  MaxTokens = 1
  MaxRevokes = 1
  MaxDrops = 0
  MaxFails = 0
  MaxOffline = 0
  MaxNudges = 1
CHECK_DEADLOCK FALSE
PROPERTIES
  RevokedTokenRefreshed
