CONSTANTS
  x = x  y = y  z = z  shared = shared  spare = spare
  None = None
  Objects = {x, z}
  Payloads = {shared, spare}
  Workers = {w1, w2}
  Attempts = {a1}
  Targets <- MixedTargets
  Class <- ZCritical
  Reconstructible = {z}
  InitialObjects = {x, z}
  InitialEdges = {}
  EdgeChoices = {}
  Requests = {"reclaim", "verify", "archive", "shutdown"}
  FaultSites <- ArchivePCs
  MaxStoreFaults = 1
  MaxBackendFaults = 1
  MaxCrashes = 1
  MaxCorruptions = 0
  MaxArchives = 2
  ArchiveMayVanish = TRUE
SPECIFICATION Spec
SYMMETRY ModelSymmetry
INVARIANTS DurableCopiesKept ArchiveBacked
PROPERTIES DurableNeverReclaimed
