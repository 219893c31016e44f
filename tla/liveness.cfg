CONSTANTS
  x = x  y = y  z = z  shared = shared  spare = spare
  None = None
  Objects = {x, y}
  Payloads = {shared, spare}
  Workers = {w1, w2}
  Attempts = {a1, a2}
  Targets <- TwoTargets
  Class <- AllEphemeral
  Reconstructible = {}
  InitialObjects = {x}
  InitialEdges = {}
  EdgeChoices = {}
  Requests = {"create", "reclaim", "shutdown"}
  FaultSites <- EverySite
  MaxStoreFaults = 1
  MaxBackendFaults = 0
  MaxCrashes = 0
  MaxCorruptions = 0
  MaxArchives = 1
  ArchiveMayVanish = FALSE
SPECIFICATION FairSpec
PROPERTIES RequestsReturn PendingResolved LeftOpenOnlyUnaborted
