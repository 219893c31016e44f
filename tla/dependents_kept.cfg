CONSTANTS
  x = x  y = y  z = z  shared = shared  spare = spare
  None = None
  Objects = {x, y, z}
  Payloads = {shared}
  Workers = {w1, w2}
  Attempts = {a1}
  Targets <- SharedTargets
  Class <- AllEphemeral
  Reconstructible = {x, y}
  InitialObjects = {x, y, z}
  InitialEdges <- DirectEdge
  EdgeChoices <- ChainedEdge
  Requests = {"reclaim", "lineage", "shutdown"}
  FaultSites = {}
  MaxStoreFaults = 0
  MaxBackendFaults = 0
  MaxCrashes = 0
  MaxCorruptions = 0
  MaxArchives = 1
  ArchiveMayVanish = FALSE
SPECIFICATION Spec
SYMMETRY ModelSymmetry
PROPERTIES DependentsKept
