---------------------------- MODULE LineageGraph -----------------------------
(***************************************************************************)
(* The stored lineage graph as its clients build it: objects are           *)
(* registered, edges added (coordinator.rs add_lineage checks and inserts  *)
(* under one lock, so an addition is one step) and removed.  What the      *)
(* searches of module Lineage return is compared, on every graph that can  *)
(* be built, with definitions that do not search.                          *)
(***************************************************************************)
EXTENDS Lineage

CONSTANTS Nodes,    \* object ids
          Kinds     \* the edge kinds clients use

ASSUME KindsAssumption == Kinds \subseteq EdgeKinds

VARIABLES ids,      \* registered objects (they are never unregistered)
          edges     \* rows of the lineage table

vars == <<ids, edges>>

Candidates == {e \in Edges(Nodes) : e.kind \in Kinds}

Init == ids = {} /\ edges = {}

AddObject(i) ==
  /\ i \notin ids
  /\ ids' = ids \cup {i}
  /\ UNCHANGED edges

AddEdge(e) ==
  /\ AddEdgeLegal(edges, ids, e)
  /\ edges' = edges \cup {e}
  /\ UNCHANGED ids

\* remove_edge asks nothing of the edge: removing an absent one is a no-op.
RemoveEdge(e) ==
  /\ edges' = edges \ {e}
  /\ UNCHANGED ids

Next ==
  \/ \E i \in Nodes : AddObject(i)
  \/ \E e \in Candidates : AddEdge(e)
  \/ \E e \in Candidates : RemoveEdge(e)

Spec == Init /\ [][Next]_vars

TypeOK == ids \subseteq Nodes /\ edges \subseteq Candidates

-----------------------------------------------------------------------------
(* References that do not search. *)

\* A numbering of the nodes in which every edge goes up.
Ranked(E) ==
  \E rank \in [Nodes -> 1 .. Cardinality(Nodes)] :
    \A e \in E : rank[e.parent] < rank[e.child]

\* What every set closed under E and holding S has in common.
LeastClosed(E, S) ==
  {i \in Nodes : \A T \in SUBSET Nodes :
                   (S \subseteq T /\ Children(E, T) \subseteq T) => i \in T}

(* lineage.rs add_edge: no sequence of additions and removals, of edges of  *)
(* any kinds, closes a cycle.                                               *)
Acyclic == Ranked(edges)

(* lineage.rs validate: recovery accepts every graph add_edge can build,    *)
(* and of the graphs one corrupt row away it accepts exactly those without  *)
(* a cycle and without an unregistered end point.                           *)
ValidateExact ==
  /\ Validate(edges, ids)
  /\ \A e \in Candidates :
       LET E == edges \cup {e}
       IN  Validate(E, ids) <=> (OrphanFree(E, ids) /\ Ranked(E))

(* lineage.rs dependency_safe: whatever is dead and whatever can be rebuilt, *)
(* a reclaim is refused exactly if a live node that cannot be rebuilt is     *)
(* reachable over DEPENDS_ON edges alone; edges of other kinds neither block *)
(* it nor hide a blocker.                                                    *)
DependencyRule ==
  \A c \in ids, dead \in SUBSET ids : \A recon \in SUBSET (ids \ dead) :
    DependencySafe(edges, c, recon, dead) <=>
      LET Depends == {e \in edges : e.kind = "DEPENDS_ON"}
          Blockers == LeastClosed(Depends, Children(Depends, {c}))
      IN  Blockers \subseteq dead \cup recon

(* lineage.rs descendants and ancestors search two indexes in opposite      *)
(* directions; they agree with each other and with reaches.                 *)
SearchesAgree ==
  \A i, j \in ids :
    /\ j \in Descendants(edges, i) <=> i \in Ancestors(edges, j)
    /\ Reaches(edges, i, j) <=> (i = j \/ j \in Descendants(edges, i))
    /\ Descendants(edges, i) = LeastClosed(edges, Children(edges, {i}))
==============================================================================
