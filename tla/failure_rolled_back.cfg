CONSTANTS
  x = x  y = y  z = z  shared = shared  spare = spare
  None = None
  Objects = {x}
  Payloads = {shared}
  Workers = {w1}
  Attempts = {a1, a2}
  Targets <- SharedTargets
  Class <- AllEphemeral
  Reconstructible = {}
  InitialObjects = {x}
  InitialEdges = {}
  EdgeChoices = {}
  Requests = {"reclaim", "shutdown"}
  FaultSites <- EverySite
  MaxStoreFaults = 1
  MaxBackendFaults = 0
  MaxCrashes = 0
  MaxCorruptions = 0
  MaxArchives = 1
  ArchiveMayVanish = FALSE
SPECIFICATION Spec
SYMMETRY ModelSymmetry
PROPERTIES FailureRolledBack
