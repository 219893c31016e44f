--------------------------- MODULE MCLineageGraph ----------------------------
\* Four nodes and two kinds, one that carries dependencies and one that does
\* not.  Nodes are interchangeable and every property is an invariant.
EXTENDS LineageGraph, TLC

NodeSymmetry == Permutations(Nodes)
==============================================================================
