CONSTANTS
  Nodes = {a, b, c, d}
  Kinds = {"DEPENDS_ON", "SUPERSEDES"}
SPECIFICATION Spec
SYMMETRY NodeSymmetry
INVARIANTS Acyclic ValidateExact DependencyRule SearchesAgree
