SPECIFICATION FairSpec
CONSTANTS
  None = None
  Conns = {1, 2}
  MaxConnections = 1
  MaxCalls = 2
  MaxTimeouts = 1
  MaxFaults = 1
INVARIANTS ReplyMatches OkMeansDrained OneMoreRequest
PROPERTIES ShutdownDrains
CHECK_DEADLOCK FALSE
