------------------------ MODULE CoordinatorProperties ------------------------
(***************************************************************************)
(* What the coordinator promises, stated over module Coordinator.          *)
(***************************************************************************)
EXTENDS Coordinator

Serving == mode = "up" /\ ~ActiveRecovery

-----------------------------------------------------------------------------
(* Deduplicated payloads. *)

(* dedup.rs, persistence.rs dedup_acquire/dedup_release: whatever the        *)
(* interleaving and whichever statement failed, the reference count of a     *)
(* payload is never below the number of replica rows that point at it.       *)
RefcountCovers ==
  Serving => \A p \in Payloads : dedup[p] >= Cardinality(Owners(p))

(* coordinator.rs reclaim, rollback_replicas_under_guard: a payload that is  *)
(* physically deleted had no row of any object but the one the deleting      *)
(* worker is operating on (ARCHITECTURE.md section 8: shared content         *)
(* survives while any live reference remains).                               *)
LastReferenceOnly ==
  [][\A p \in Payloads :
       (blob[p] # "absent" /\ blob'[p] = "absent")
         => \E w \in Workers : Owners(p) \subseteq {loc[w].obj}]_vars

(* A valid row of a registered object points at a payload that is there,     *)
(* unless an open journal entry of the object has its deletion planned.      *)
LivePayloadPresent ==
  \A o \in Objects, p \in Payloads :
    (o \in Registered /\ rows[o][p] = "valid" /\ blob[p] = "absent")
      => \E a \in OpenAttempts : entry[a].obj = o /\ p \in plan[a]

(* object.rs min_valid_copies: while no payload rots, a registered object    *)
(* owns at least the minimum of its class in payloads that are intact on     *)
(* their backend, whatever is reclaimed around it.                           *)
DurableCopiesKept ==
  \A o \in Registered :
    Cardinality({p \in Rows(o) : blob[p] = "ok"})
      >= MinValidCopies[Class[o]]

(* check_survivability: a reclaim takes all copies of its object, so no      *)
(* object of a class that must keep some is reclaimed, even if verify        *)
(* invalidates its rows or archive adds a record between the two checks.     *)
DurableNeverReclaimed ==
  [][\A o \in Objects :
       (object[o].state # "RECLAIMED" /\ object'[o].state = "RECLAIMED")
         => MinValidCopies[Class[o]] = 0]_vars

(* archive, reclaim and recovery order the record and the payload of an      *)
(* archive so that crashes alone never leave a record without its payload,   *)
(* unless an open journal entry has the deletion of the payload planned.     *)
ArchiveBacked ==
  (budget.store = MaxStoreFaults /\ budget.backend = MaxBackendFaults)
    => \A o \in Objects :
         (arch[o] > 0 /\ ~ablob[o])
           => \E a \in OpenAttempts :
                entry[a].obj = o /\ phase[a] \notin PrePhysical

-----------------------------------------------------------------------------
(* The reclaim transaction. *)

(* coordinator.rs reclaim, abort_reclaim and recovery.rs rollback and        *)
(* commit_after_crash finalize the journal last: an open reservation or      *)
(* attempt always has an open journal entry, and a RECLAIM_PENDING object an *)
(* open reservation, so that recovery finds all it must resolve.             *)
JournalCovers ==
  /\ \A a \in Attempts :
       (resv[a] = "OPEN" \/ attempt[a] = "OPEN") => phase[a] \in OpenPhases
  /\ \A o \in Objects :
       object[o].state = "RECLAIM_PENDING"
         => \E a \in OpenAttempts : entry[a].obj = o /\ resv[a] = "OPEN"

(* A reclaimed object owns neither replica rows nor archive records          *)
(* (recovery.rs repair_dedup_counts refuses to run if one does).             *)
ReclaimedOwnsNothing ==
  \A o \in Dead : Rows(o) = {} /\ arch[o] = 0

(* persistence.rs create_reclaim_reservation: no two journal entries of one  *)
(* object are open at once; reclaim only asks for an open reservation.       *)
OneOpenJournal ==
  \A a, b \in OpenAttempts : entry[a].obj = entry[b].obj => a = b

(* While requests are served with authority, every open journal entry        *)
(* belongs to a reclaim in progress: a reclaim that failed has either rolled *)
(* its entry back or is about to fence the coordinator.                      *)
OpenJournalOwned ==
  (Serving /\ ~lost)
    => \A a \in OpenAttempts : \E w \in Workers : loc[w].att = a

(* ARCHITECTURE.md section 4: "RECLAIMED is terminal."                       *)
ReclaimedTerminal ==
  [][\A o \in Objects : object[o].state = "RECLAIMED"
                          => object'[o].state = "RECLAIMED"]_vars

(* coordinator.rs reclaim's prechecks, pin, set_protected: an object that is *)
(* pinned or protected when the commit is written is never reclaimed, by a   *)
(* reclaim or by recovery.                                                   *)
FlaggedNeverReclaimed ==
  [][\A o \in Objects :
       (object[o].state # "RECLAIMED" /\ object'[o].state = "RECLAIMED")
         => object[o].flags = {}]_vars

(* apply_object_update, abort_reclaim and rollback write whole object rows   *)
(* from copies they read earlier: the flags a client set are changed by no   *)
(* step but that of a request for it.                                        *)
FlagsOnlyByRequest ==
  [][\A o \in Objects : object'[o].flags # object[o].flags
       => \E w \in Workers : pc[w] \in FlagOps /\ loc[w].obj = o]_vars

(* ARCHITECTURE.md section 11: "A failure before physical execution is       *)
(* rolled back."  A reclaim that returns leaves no entry open in a phase     *)
(* before PHYSICAL_STARTED.                                                  *)
FailureRolledBack ==
  [][\A w \in Workers :
       (loc[w].att # None /\ pc'[w] = "idle" /\ mode' = "up" /\ ~lost')
         => phase'[loc[w].att] \notin PrePhysical]_vars

\* The steps before start_journal_physical whose error is returned by ?: the
\* transitions, the VALIDATED update, the planning closure and the statements
\* of abort_reclaim itself.
UnabortedPCs == {"recomputable", "pending", "validate", "plan", "abort"} \cup AbortPCs

(* What holds of FailureRolledBack in coordinator.rs reclaim: an entry is    *)
(* left open before the physical phase only by a failed statement among      *)
(* those whose error is returned by ?.  A failed check, a refused or expired *)
(* wait for the guards, a reference count that is not found, or an error at  *)
(* any other statement is rolled back before the request returns.            *)
LeftOpenOnlyUnaborted ==
  [][\A w \in Workers :
       (/\ loc[w].att # None /\ pc'[w] = "idle" /\ mode' = "up" /\ ~lost'
        /\ phase'[loc[w].att] \in PrePhysical)
         => pc[w] \in UnabortedPCs /\ StatementError(w)]_vars

(* ARCHITECTURE.md section 11: once physical execution has started, an error *)
(* fences and shuts down the coordinator.  A reclaim that returns with an    *)
(* entry open in a physical phase has given up authority.                    *)
PhysicalFailureFences ==
  [][\A w \in Workers :
       (/\ loc[w].att # None /\ pc'[w] = "idle" /\ mode' = "up"
        /\ phase'[loc[w].att] \in OpenPhases \ PrePhysical)
         => lost' /\ stop']_vars

(* lineage.rs dependency_safe, ARCHITECTURE.md section 7: when a reclaim     *)
(* enters its physical phase, no live object that cannot be rebuilt depends  *)
(* on its object, directly or through others.                                *)
DependentsKept ==
  [][\A a \in Attempts :
       (phase[a] = "VALIDATED" /\ phase'[a] = "PHYSICAL_STARTED")
         => DependencySafe(edges, entry[a].obj, Reconstructible, Dead)]_vars

-----------------------------------------------------------------------------
(* Recovery. *)

(* coordinator.rs open, recovery.rs reconcile_store: when the coordinator    *)
(* starts to serve, no journal entry is open, no object is pending, every    *)
(* row has a live object and every reference count is exact.                 *)
RecoveryEstablishes ==
  [][(mode = "starting" /\ mode' = "up")
       => /\ OpenAttempts = {}
          /\ \A o \in Objects : object[o].state # "RECLAIM_PENDING"
          /\ RowsHaveParents
          /\ dedup = ExactCounts]_vars

(* recovery.rs reconcile_entry: recovery commits only what is physically     *)
(* gone and rolls back only what is physically there: an entry it closes as  *)
(* COMMITTED has no planned payload left, one it closes as ROLLED_BACK has   *)
(* all of them.                                                              *)
RealityWins ==
  [][\A a \in Attempts :
       (ActiveRecovery /\ phase[a] \in OpenPhases)
         => /\ phase'[a] = "COMMITTED" => \A p \in plan[a] : blob[p] = "absent"
            /\ phase'[a] = "ROLLED_BACK" => \A p \in plan[a] : blob[p] # "absent"]_vars

-----------------------------------------------------------------------------
(* Liveness. *)

\* A thread takes its next step in the end, also if it has to wait for the
\* lock; a process that was told to stop exits; one that is down is started.
Fairness ==
  /\ \A w \in Workers : SF_vars(WorkerStep(w))
  /\ WF_vars(RecoveryStep)
  /\ WF_vars(Start)
  /\ WF_vars(Exit)

FairSpec == Spec /\ Fairness

(* Every request returns, in whatever state it finds the locks, the guards   *)
(* and the store: begin_payload_operations polls with a deadline, no         *)
(* handler waits for another.                                                *)
RequestsReturn ==
  \A w \in Workers : pc[w] # "idle" ~> pc[w] = "idle"

\* The reclaim of the object has returned and left its entry open.
LeftOpen(o) ==
  /\ mode = "up" /\ ~stop
  /\ \E a \in OpenAttempts :
       entry[a].obj = o /\ \A w \in Workers : loc[w].att # a

\* Recovery cannot decide: of what is to be deleted some is gone and some is
\* there (ARCHITECTURE.md section 18: the journal is kept open).
MixedPresence(o) ==
  /\ mode # "up"
  /\ \E a \in OpenAttempts :
       entry[a].obj = o /\ ~AllPresent(a) /\ ~AllGone(a)

(* An object stays pending for ever in two cases only.  The coordinator      *)
(* serves on with its entry left open: the reclaim returned a statement's    *)
(* error by ? (coordinator.rs:1703), or lost authority by a failed           *)
(* heartbeat, which refuses every request and stops nothing                  *)
(* (coordinator.rs:402).  Or the process was stopped between two deletions   *)
(* and recovery finds mixed presence at every start.  Any other pending      *)
(* object is resolved: its reclaim commits or aborts, or the coordinator is  *)
(* stopped, started again, and recovery decides.                             *)
PendingResolved ==
  \A o \in Objects :
    <>[](object[o].state = "RECLAIM_PENDING") => <>[](LeftOpen(o) \/ MixedPresence(o))
==============================================================================
