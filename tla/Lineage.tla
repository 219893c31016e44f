------------------------------- MODULE Lineage -------------------------------
(***************************************************************************)
(* The typed lineage graph of src/lineage.rs as a set of edges: the        *)
(* searches, the guard of add_edge, the dependency check of a reclaim and  *)
(* the validation that recovery runs.  The searches of the code visit a    *)
(* queue; here they are the layers of the same breadth-first search, which *)
(* the order inside the queue cannot change.  Constant-level.              *)
(***************************************************************************)
EXTENDS Naturals, FiniteSets

\* enum EdgeKind.
EdgeKinds == {"DERIVES_FROM", "DEPENDS_ON", "SUPERSEDES", "DUPLICATES"}

\* struct LineageEdge over a set of objects.
Edges(ids) == [parent : ids, child : ids, kind : EdgeKinds]

Children(E, S) == {e.child : e \in {f \in E : f.parent \in S}}
Parents(E, S) == {e.parent : e \in {f \in E : f.child \in S}}

\* The nodes a search along E has seen when its queue is empty: every layer
\* but the last adds a node, so the number of edges bounds their number.
Closure(E, S) ==
  LET layer[n \in Nat] ==
        IF n = 0 THEN S ELSE layer[n - 1] \cup Children(E, layer[n - 1])
  IN  layer[Cardinality(E)]

\* reaches: the start is seen before the first edge is followed.
Reaches(E, start, target) == target \in Closure(E, {start})

\* Mutant: only the direct parents.
AncestorsDirect(E, start) == Parents(E, {start})

\* descendants and ancestors: the start is in only if an edge leads to it.
Descendants(E, start) == Closure(E, Children(E, {start}))
Ancestors(E, start) ==
  LET Reversed == {[parent |-> e.child, child |-> e.parent, kind |-> e.kind]
                     : e \in E}
  IN  Descendants(Reversed, start)

\* Mutant: a path back counts only over edges of the new edge's kind.
AddEdgeLegalSameKind(E, ids, e) ==
  /\ e.parent # e.child
  /\ {e.parent, e.child} \subseteq ids
  /\ e \in E \/ ~Reaches({f \in E : f.kind = e.kind}, e.child, e.parent)

\* add_edge accepts the edge: registered, distinct end points, and no path
\* back, over edges of every kind.  An edge already there is accepted first.
AddEdgeLegal(E, ids, e) ==
  /\ e.parent # e.child
  /\ {e.parent, e.child} \subseteq ids
  /\ e \in E \/ ~Reaches(E, e.child, e.parent)

\* Mutant: only the direct dependents are asked.
DependencySafeDirect(E, candidate, reconstructible, dead) ==
  Children({e \in E : e.kind = "DEPENDS_ON"}, {candidate})
    \subseteq dead \cup reconstructible

\* dependency_safe: only DEPENDS_ON edges are followed, through dead and
\* reconstructible nodes too; a live one that cannot be rebuilt blocks.
DependencySafe(E, candidate, reconstructible, dead) ==
  LET Depends == {e \in E : e.kind = "DEPENDS_ON"}
  IN  Closure(Depends, {candidate}) \ {candidate}
        \subseteq dead \cup reconstructible

\* validate, the orphan part: every end point is a registered object.
OrphanFree(E, ids) == \A e \in E : {e.parent, e.child} \subseteq ids

\* Mutant: one round too few.
KahnStopsEarly(E, ids) ==
  LET left[n \in Nat] ==
        IF n = 0 THEN ids
        ELSE left[n - 1] \ {i \in left[n - 1] :
                              ~\E e \in E : /\ e.child = i
                                            /\ e.parent \in left[n - 1]}
  IN  ids # {} => left[Cardinality(ids) - 1] = {}

\* validate, Kahn's algorithm: nodes without incoming edges leave the graph,
\* layer by layer; the graph is acyclic if none is left.
KahnVisitsAll(E, ids) ==
  LET left[n \in Nat] ==
        IF n = 0 THEN ids
        ELSE left[n - 1] \ {i \in left[n - 1] :
                              ~\E e \in E : /\ e.child = i
                                            /\ e.parent \in left[n - 1]}
  IN  left[Cardinality(ids)] = {}

\* The two adjacency indexes are one set of edges here, so what validate says
\* about their agreement has no counterpart.
Validate(E, ids) == OrphanFree(E, ids) /\ KahnVisitsAll(E, ids)
==============================================================================
