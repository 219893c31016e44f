SPECIFICATION FairSpec
CONSTANTS
  None = None
  Coords = {1, 2}
  Nodes = {1, 2}
  Name <- SameName
  Budgets <- Mixes
INVARIANT RegistryConsistent
PROPERTIES OperationsInEpochOrder NodesFollow
CHECK_DEADLOCK FALSE
