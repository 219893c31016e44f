CONSTANTS
  x = x  y = y  z = z  shared = shared  spare = spare
  None = None
  Objects = {x, y}
  Payloads = {shared, spare}
  Workers = {w1, w2}
  Attempts = {a1, a2}
  Targets <- TwoTargets
  Class <- AllEphemeral
  Reconstructible = {}
  InitialObjects = {x}
  InitialEdges = {}
  EdgeChoices = {}
  Requests = {"reclaim", "create", "recover", "shutdown"}
  FaultSites <- RecoverySites
  MaxStoreFaults = 1
  MaxBackendFaults = 1
  MaxCrashes = 2
  MaxCorruptions = 0
  MaxArchives = 1
  ArchiveMayVanish = FALSE
SPECIFICATION Spec
SYMMETRY ModelSymmetry
INVARIANTS OneOpenJournal
PROPERTIES ReclaimedTerminal RecoveryEstablishes RealityWins
