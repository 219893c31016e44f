-------------------------- MODULE CoordinatorState ---------------------------
(***************************************************************************)
(* What the coordinator keeps: the rows of its SQLite store, the payloads  *)
(* on the backends, the memory of one coordinator process and the local    *)
(* variables of the requests it is serving.  Every request runs on a       *)
(* thread of its own (a worker) and takes the steps its handler takes; a   *)
(* step is one SQLite statement or one backend call, because that is where *)
(* another worker, an error or a crash can come in.                        *)
(*                                                                         *)
(* A payload is one content hash on one backend, the key of the dedup      *)
(* table.  An object has at most one replica row for a payload, so a row   *)
(* is identified by the two; the archive records of an object share one    *)
(* archive key.                                                            *)
(***************************************************************************)
EXTENDS Lifecycle, Lineage

CONSTANTS
  Objects, Payloads, Workers, Attempts,
  None,               \* not a member of any of them
  Targets,            \* the payloads a registration of each object stores
  Class,              \* durability class of each object
  Reconstructible,    \* objects with a recompute cost
  InitialObjects,     \* objects registered before the run starts
  InitialEdges,       \* lineage recorded before the run starts
  EdgeChoices,        \* lineage edges clients add and remove
  Requests,           \* kinds of requests clients send
  FaultSites,         \* steps whose SQLite statement may fail
  MaxStoreFaults, MaxBackendFaults, MaxCrashes, MaxCorruptions,
  MaxArchives,        \* archive records of one object
  ArchiveMayVanish    \* a restart may come without the archive backend

ASSUME ConstantsAssumption ==
  /\ IsFiniteSet(Objects) /\ IsFiniteSet(Payloads)
  /\ IsFiniteSet(Workers) /\ IsFiniteSet(Attempts)
  /\ None \notin Objects \cup Payloads \cup Workers \cup Attempts
  /\ Targets \in [Objects -> SUBSET Payloads]
  /\ Class \in [Objects -> DurabilityClasses]
  /\ Reconstructible \subseteq Objects
  /\ InitialObjects \subseteq Objects
  /\ InitialEdges \subseteq Edges(InitialObjects)
  /\ EdgeChoices \subseteq Edges(Objects)
  /\ {MaxStoreFaults, MaxBackendFaults, MaxCrashes, MaxCorruptions,
      MaxArchives} \subseteq Nat
  /\ ArchiveMayVanish \in BOOLEAN
\* A registration with fewer copies than its class needs is refused.
ASSUME TargetsAssumption ==
  \A o \in Objects : Cardinality(Targets[o]) >= MinValidCopies[Class[o]]

VARIABLES
  \* SQLite
  object,      \* objects: [state, flags]; state NONE while there is no row
  rows,        \* replicas: none, valid or invalid, per object and payload
  dedup,       \* dedup: reference count of a payload, 0 if there is no row
  arch,        \* archives: number of records of an object
  edges,       \* lineage
  phase,       \* journal: phase of an attempt, NONE before it is created
  entry,       \* journal: prior object and deletion lists of an attempt
  plan,        \* journal: payloads the attempt may physically delete
  resv,        \* reservations: status of the attempt's reservation
  attempt,     \* attempts: status
  \* backends
  blob,        \* payload on its backend: absent, ok or corrupt
  ablob,       \* the object's archive payload exists
  \* coordinator process
  mode,        \* down, starting (recovery runs) or up
  lost,        \* authority_lost
  stop,        \* shutdown
  archiveUp,   \* an archive backend is configured
  grace,       \* workers that loaded authority_lost before it was set
  \* requests
  pc, loc,
  \* reconcile_store
  rpc, rec,
  \* what the environment may still do
  budget

storeVars   == <<object, rows, dedup, arch, edges>>
journalVars == <<phase, entry, plan, resv, attempt>>
physVars    == <<blob, ablob>>
procVars    == <<mode, lost, stop, archiveUp>>
workVars    == <<grace, pc, loc>>
recVars     == <<rpc, rec>>
vars == <<storeVars, journalVars, physVars, procVars, workVars, recVars, budget>>

-----------------------------------------------------------------------------
(* Types. *)

Flags == {"pinned", "protected"}
ObjectRow == [state : LifecycleStates \cup {"NONE"}, flags : SUBSET Flags]
NoObject == [state |-> "NONE", flags |-> {}]

RowStates == {"none", "valid", "invalid"}

\* enum JournalPhase.
OpenPhases == {"RESERVED", "VALIDATED", "PHYSICAL_STARTED", "PHYSICAL_DONE"}
PrePhysical == {"RESERVED", "VALIDATED"}
Phases == OpenPhases \cup {"NONE", "COMMITTED", "ROLLED_BACK"}
ReservationStatus == {"NONE", "OPEN", "RELEASED", "COMMITTED", "EXPIRED"}
AttemptStatus == {"NONE", "OPEN", "ROLLED_BACK", "COMMITTED", "FAILED"}

\* The journal payload: what rollback restores and commit deletes.
JournalEntry ==
  [obj : Objects \cup {None}, prior : ObjectRow,
   rows : [Payloads -> RowStates], arch : Nat]
NoEntry == [obj |-> None, prior |-> NoObject,
            rows |-> [p \in Payloads |-> "none"], arch |-> 0]

\* Steps inside a closure that holds the coordinator lock over several SQLite
\* statements (the first one enters it).
CommitPCs == {"cmt_row", "cmt_release", "cmt_arch", "cmt_obj", "cmt_resv",
              "cmt_att", "cmt_jrnl"}
AbortPCs == {"abort_resv", "abort_att", "abort_jrnl"}
ClosurePCs == CommitPCs \cup AbortPCs \cup {"undo_row", "undo_release", "ver_inval"}

FlagOps == {"touch", "pin", "unpin", "protect", "unprotect"}
CreatePCs == {"create_lock", "create_ref", "create_write", "create_insert",
              "create_row", "create_unref", "create_unblob", "publish",
              "undo_lock", "undo", "undo_row", "undo_release", "undo_blob"}
ReclaimPCs == {"recomputable", "pending", "validate", "survive", "graph",
               "deps", "lock", "plan", "start", "delete", "arch", "check",
               "done", "commit", "fence", "abort"} \cup CommitPCs \cup AbortPCs
VerifyPCs == {"ver_lock", "ver_next", "ver_inval"}
ArchivePCs == {"arc_write", "arc_insert", "arc_obj", "arc_unrow", "arc_unblob"}
PCs == {"idle", "recover"} \cup FlagOps \cup CreatePCs \cup ReclaimPCs
         \cup VerifyPCs \cup ArchivePCs

\* Local variables: the object guard, the payload guards, the attempt, the
\* object as read, what is left to do, what was done, the payload at hand and
\* the lineage as read.
Locals ==
  [obj : Objects \cup {None}, held : SUBSET Payloads,
   att : Attempts \cup {None}, seen : ObjectRow,
   todo : SUBSET Payloads, done : SUBSET Payloads,
   cur : Payloads \cup {None}, kin : SUBSET Edges(Objects)]
NoLocals ==
  [obj |-> None, held |-> {}, att |-> None, seen |-> NoObject,
   todo |-> {}, done |-> {}, cur |-> None, kin |-> {}]

RecoveryPCs == {"off", "scan", "next", "rb_obj", "rb_row", "rb_arch",
                "rb_repair", "rb_resv", "rb_att", "rb_jrnl", "cm_row",
                "cm_release", "cm_arch", "cm_obj", "cm_resv", "cm_att",
                "cm_jrnl", "expire", "repair", "lineage", "end"}
RecoveryLocals ==
  [by : Workers \cup {None}, queue : SUBSET Attempts,
   att : Attempts \cup {None}, todo : SUBSET Payloads,
   cur : Payloads \cup {None}, err : BOOLEAN]
NoRecovery == [by |-> None, queue |-> {}, att |-> None, todo |-> {},
               cur |-> None, err |-> FALSE]

Budget == [store : 0 .. MaxStoreFaults, backend : 0 .. MaxBackendFaults,
           crash : 0 .. MaxCrashes, corrupt : 0 .. MaxCorruptions]

StoreTypeOK ==
  /\ object \in [Objects -> ObjectRow]
  /\ rows \in [Objects -> [Payloads -> RowStates]]
  /\ dedup \in [Payloads -> Nat]
  /\ arch \in [Objects -> Nat]
  /\ edges \subseteq Edges(Objects)

JournalTypeOK ==
  /\ phase \in [Attempts -> Phases]
  /\ entry \in [Attempts -> JournalEntry]
  /\ plan \in [Attempts -> SUBSET Payloads]
  /\ resv \in [Attempts -> ReservationStatus]
  /\ attempt \in [Attempts -> AttemptStatus]

PhysTypeOK ==
  /\ blob \in [Payloads -> {"absent", "ok", "corrupt"}]
  /\ ablob \in [Objects -> BOOLEAN]

ProcTypeOK ==
  /\ mode \in {"down", "starting", "up"}
  /\ lost \in BOOLEAN /\ stop \in BOOLEAN /\ archiveUp \in BOOLEAN

WorkTypeOK ==
  /\ grace \subseteq Workers
  /\ pc \in [Workers -> PCs]
  /\ loc \in [Workers -> Locals]

RecTypeOK == rpc \in RecoveryPCs /\ rec \in RecoveryLocals

(* Every variable of the model keeps its shape: no handler and no recovery   *)
(* step writes a status, a phase or a row its table does not know.           *)
TypeOK ==
  /\ StoreTypeOK /\ JournalTypeOK /\ PhysTypeOK
  /\ ProcTypeOK /\ WorkTypeOK /\ RecTypeOK
  /\ budget \in Budget

-----------------------------------------------------------------------------
(* Queries of the store. *)

OpenAttempts == {a \in Attempts : phase[a] \in OpenPhases}

\* Objects with a replica row for the payload, valid or not.
Owners(p) == {o \in Objects : rows[o][p] # "none"}
Rows(o) == {p \in Payloads : rows[o][p] # "none"}

Registered == {o \in Objects : object[o].state # "NONE"}
Dead == {o \in Objects : object[o].state = "RECLAIMED"}

\* valid_replica_count, and valid_copy_count with the archive records.
ValidRows(r) == {p \in Payloads : r[p] = "valid"}
ValidCopies(o) == Cardinality(ValidRows(rows[o])) + arch[o]

\* validate_replica_parent: rows of a missing or reclaimed object are refused.
ParentAccepts(o) == object[o].state \notin {"NONE", "RECLAIMED"}

\* repair_dedup_counts refuses to run if some row has no live object.
RowsHaveParents == \A o \in Objects : Rows(o) # {} => ParentAccepts(o)

\* The exact counts it writes otherwise.
ExactCounts == [p \in Payloads |-> Cardinality(Owners(p))]

-----------------------------------------------------------------------------
(* Writes of the store, one statement or transaction each. *)

\* update_object, update_object_with_audit: the whole row is replaced.
UpdateObject(o, row) == object' = [object EXCEPT ![o] = row]

\* add_replica, update_replica, delete_replica.
WriteReplica(o, p, row) == rows' = [rows EXCEPT ![o][p] = row]
DeleteReplica(o, p) == rows' = [rows EXCEPT ![o][p] = "none"]

\* dedup_acquire.
DedupAcquire(p) == dedup' = [dedup EXCEPT ![p] = @ + 1]

\* insert_dedup.
DedupInsert(p) == dedup' = [dedup EXCEPT ![p] = 1]

\* dedup_release: the row goes with the last reference; it fails, and changes
\* nothing, if there is none.
DedupRelease(p) == dedup' = [dedup EXCEPT ![p] = IF @ > 0 THEN @ - 1 ELSE 0]

\* insert_archive, delete_archive.
InsertArchive(o) == arch' = [arch EXCEPT ![o] = @ + 1]
DeleteArchiveRow(o) == arch' = [arch EXCEPT ![o] = IF @ > 0 THEN @ - 1 ELSE 0]

\* update_journal_phase: the phases a phase may follow.
PhasePrior ==
  [VALIDATED |-> {"RESERVED"}, PHYSICAL_DONE |-> {"PHYSICAL_STARTED"},
   COMMITTED |-> {"PHYSICAL_STARTED", "PHYSICAL_DONE"},
   ROLLED_BACK |-> OpenPhases]
UpdateJournalPhase(a, to) ==
  /\ phase[a] \in PhasePrior[to]
  /\ phase' = [phase EXCEPT ![a] = to]

-----------------------------------------------------------------------------
(* Guards, the lock and the authority check. *)

ActiveObjects == {loc[w].obj : w \in Workers} \ {None}
ActivePayloads == UNION {loc[w].held : w \in Workers}
ActiveRecovery == rpc # "off"

LockFree == \A w \in Workers : pc[w] \notin ClosurePCs

\* with_inner: authority_lost is loaded first, then the lock is taken.  A
\* worker that loaded it in time gets through once after it was set.
Enter(w) ==
  /\ mode = "up"
  /\ LockFree
  /\ lost => w \in grace
  /\ grace' = grace \ {w}

\* A further statement of a closure that holds the lock.
Within(w) ==
  /\ mode = "up"
  /\ pc[w] \in ClosurePCs
  /\ UNCHANGED grace

\* authority_lost is set by worker w; every other may have loaded it before.
Fence(w) ==
  /\ lost' = TRUE
  /\ grace' = IF lost THEN grace \ {w} ELSE Workers \ {w}

Goto(w, l) == pc' = [pc EXCEPT ![w] = l]

SetLocals(w, l) == loc' = [loc EXCEPT ![w] = l]

\* The handler returns: both guards are dropped.
Return(w) ==
  /\ Goto(w, "idle")
  /\ SetLocals(w, NoLocals)

\* Mutant: an active operation on the object is not looked for.
ObjectOperationUnguarded(o) == ~ActiveRecovery

\* begin_object_operation: one operation per object, none during recovery.
ObjectOperationAllowed(o) == ~ActiveRecovery /\ o \notin ActiveObjects

\* Mutants: the keys of others are ignored; lost authority does not end the
\* polling.
PayloadsUnguarded(P) == ~ActiveRecovery
PollIgnoresAuthority(P) ==
  mode = "up" /\ (ActiveRecovery \/ P \cap ActivePayloads # {} \/ stop)

\* begin_payload_operations polls until all keys are free at once ...
PayloadsFree(P) == ~ActiveRecovery /\ P \cap ActivePayloads = {}
MayPoll == mode = "up" /\ LockFree /\ ~stop /\ ~lost
\* ... and gives up after 30 s, on shutdown and when authority is lost.
PollFails(P) == mode = "up" /\ (~PayloadsFree(P) \/ stop \/ lost)
==============================================================================
