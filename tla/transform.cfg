SPECIFICATION Spec
CONSTANTS
  Objects = {x, y}
  None = None
  MaxRows = 4
  MaxArchives = 2
  MaxStoreFaults = 1
  MaxBackendFaults = 1
  MaxCrashes = 1
SYMMETRY Symmetry
INVARIANTS PayloadOfEveryRow RefcountExact ArchiveRestorable
PROPERTY CopyLostOnlyInSwap
CHECK_DEADLOCK FALSE
