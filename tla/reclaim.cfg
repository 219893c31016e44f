CONSTANTS
  x = x  y = y  z = z  shared = shared  spare = spare
  None = None
  Objects = {x, y}
  Payloads = {shared}
  Workers = {w1, w2}
  Attempts = {a1, a2}
  Targets <- SharedTargets
  Class <- AllEphemeral
  Reconstructible = {}
  InitialObjects = {}
  InitialEdges = {}
  EdgeChoices <- DirectEdge
  Requests = {"create", "reclaim", "verify", "pin", "unpin", "lineage", "recover", "shutdown"}
  FaultSites <- TransactionSites
  MaxStoreFaults = 1
  MaxBackendFaults = 1
  MaxCrashes = 1
  MaxCorruptions = 1
  MaxArchives = 1
  ArchiveMayVanish = FALSE
SPECIFICATION Spec
SYMMETRY ModelSymmetry
INVARIANTS RefcountCovers LivePayloadPresent JournalCovers ReclaimedOwnsNothing OpenJournalOwned
PROPERTIES LastReferenceOnly FlaggedNeverReclaimed FlagsOnlyByRequest PhysicalFailureFences DependentsKept
CONSTRAINT RotApart
