---------------------------- MODULE MCCoordinator ----------------------------
(***************************************************************************)
(* Small instances of the coordinator.  All objects share the payload      *)
(* shared; where the number of payloads of one object matters, all of them *)
(* or only z also have a copy on a second backend, the payload spare.      *)
(***************************************************************************)
EXTENDS CoordinatorProperties, TLC

CONSTANTS x, y, z, shared, spare

SharedTargets == [o \in Objects |-> {shared}]
MixedTargets == [o \in Objects |-> IF o = z THEN {shared, spare} ELSE {shared}]
TwoTargets == [o \in Objects |-> {shared, spare}]

AllEphemeral == [o \in Objects |-> "EPHEMERAL"]
ZCritical == [o \in Objects |-> IF o = z THEN "CRITICAL" ELSE "EPHEMERAL"]

\* y depends on x, and z on y.
DependsOn(child, parent) ==
  [parent |-> parent, child |-> child, kind |-> "DEPENDS_ON"]
DirectEdge == {DependsOn(y, x)}
ChainedEdge == {DependsOn(z, y)}

\* Steps at which a failing statement makes reclaim abort or fence.
AbortingSites == {"survive", "graph", "deps", "start"}
FencingSites == {"delete", "check", "done", "commit"} \cup CommitPCs
\* These, and every step of a registration.
TransactionSites == AbortingSites \cup FencingSites \cup CreatePCs \cup {"heartbeat"}
\* Recovery, and reclaim up to the closure of the reservation by an abort.
RecoverySites ==
  RecoveryPCs \cup (ReclaimPCs \ (FencingSites \cup {"abort_att", "abort_jrnl"}))
EverySite == RecoveryPCs \cup ReclaimPCs \cup {"heartbeat"}

\* Bounds reclaim: payloads are verified only once one has rotted, and from then
\* on objects are neither flagged nor linked and nothing crashes or recovers.
RotApart ==
  IF budget.corrupt = MaxCorruptions
  THEN \A w \in Workers : pc[w] \notin VerifyPCs
  ELSE /\ budget.crash = MaxCrashes /\ ~ActiveRecovery
       /\ edges = InitialEdges /\ \A o \in Objects : object[o].flags = {}

\* Threads and attempts are interchangeable.
ModelSymmetry == Permutations(Workers) \cup Permutations(Attempts)
==============================================================================
