------------------------------ MODULE Lifecycle ------------------------------
(***************************************************************************)
(* The object life cycle of src/lifecycle.rs and the durability classes of *)
(* src/object.rs: which state changes the coordinator may make, which way  *)
(* a reclaim takes through them, and how many valid copies each class must *)
(* keep.  Constant-level: the state machines extend this module.           *)
(***************************************************************************)
EXTENDS Naturals, FiniteSets

\* enum LifecycleState.
LifecycleStates ==
  {"CREATED", "HOT", "WARM", "COLD", "COMPRESSED", "DEDUPED", "ARCHIVED",
   "RECOMPUTABLE", "RECLAIM_PENDING", "RECLAIMED", "FAILED"}

\* The states each state may move to.
Successors ==
  [CREATED         |-> {"HOT", "WARM", "COLD", "FAILED"},
   HOT             |-> {"WARM", "COLD", "COMPRESSED", "ARCHIVED",
                        "RECOMPUTABLE", "DEDUPED", "FAILED"},
   WARM            |-> {"HOT", "COLD", "COMPRESSED", "ARCHIVED",
                        "RECOMPUTABLE", "FAILED"},
   COLD            |-> {"HOT", "WARM", "COMPRESSED", "ARCHIVED",
                        "RECOMPUTABLE", "DEDUPED", "FAILED"},
   COMPRESSED      |-> {"HOT", "WARM", "COLD", "ARCHIVED",
                        "RECOMPUTABLE", "FAILED"},
   DEDUPED         |-> {"HOT", "WARM", "COLD", "ARCHIVED", "RECOMPUTABLE",
                        "RECLAIM_PENDING", "FAILED"},
   ARCHIVED        |-> {"HOT", "WARM", "RECOMPUTABLE", "RECLAIM_PENDING",
                        "FAILED"},
   RECOMPUTABLE    |-> {"HOT", "WARM", "RECLAIM_PENDING", "FAILED"},
   RECLAIM_PENDING |-> {"RECLAIMED", "HOT", "WARM", "FAILED"},
   RECLAIMED       |-> {},
   FAILED          |-> {}]

\* check_transition succeeds: the move is in the table, or it is a no-op.
CheckTransition(from, to) == from = to \/ to \in Successors[from]

\* The states from which reclaim goes through RECOMPUTABLE first.
StagedStates == {"HOT", "WARM", "COLD", "COMPRESSED"}

DurabilityClasses == {"EPHEMERAL", "RECOMPUTABLE", "DURABLE", "CRITICAL"}

\* DurabilityClass::min_valid_copies.
MinValidCopies ==
  [EPHEMERAL |-> 0, RECOMPUTABLE |-> 0, DURABLE |-> 1, CRITICAL |-> 2]

\* The route preflight of reclaim: legal only if every transition on the way
\* to RECLAIM_PENDING is, and a staged object can be rebuilt or thrown away.
ReclaimRouteLegal(state, class, reconstructible) ==
  IF state \in StagedStates
  THEN /\ reconstructible \/ class = "EPHEMERAL"
       /\ CheckTransition(state, "RECOMPUTABLE")
       /\ CheckTransition("RECOMPUTABLE", "RECLAIM_PENDING")
  ELSE CheckTransition(state, "RECLAIM_PENDING")
==============================================================================
