----------------------------- MODULE Coordinator -----------------------------
(***************************************************************************)
(* The coordinator process: it starts, recovers, serves requests on        *)
(* several threads, loses authority, shuts down and crashes; the store and *)
(* the backends fail under it.  The handlers are in ObjectOps and          *)
(* ReclaimOps, the reconciliation in RecoveryOps.                          *)
(***************************************************************************)
EXTENDS ObjectOps, ReclaimOps, RecoveryOps

-----------------------------------------------------------------------------
(* Errors of the store. *)

\* Steps that call with_inner.
EnteringPCs ==
  PCs \ (ClosurePCs \cup {"idle", "recover", "create_lock", "undo_lock",
                          "ver_lock", "lock", "arc_write", "arc_unblob",
                          "arch", "fence"})

\* Mutant: an error before the physical phase is returned without an abort.
ErrorTargetUnaborted(w) ==
  LET l == pc[w]
  IN  CASE l \in {"create_ref", "create_write", "create_unref", "create_unblob"} -> "undo"
        [] l = "create_insert" -> "create_unblob"
        [] l = "create_row" -> "create_unref"
        [] l = "publish" -> IF loc[w].done = {} THEN "idle" ELSE "undo_lock"
        [] l \in {"delete", "check", "done", "commit"} \cup CommitPCs -> "fence"
        [] l = "arc_insert" -> "arc_unblob"
        [] l = "arc_obj" -> "arc_unrow"
        [] OTHER -> "idle"

\* Where the handler goes when a step fails.  A reclaim aborts before the
\* physical phase and fences after it -- but an error in a transition, in the
\* VALIDATED update or in the planning closure is returned as it is.
ErrorTarget(w) ==
  LET l == pc[w]
  IN  CASE l \in {"create_ref", "create_write", "create_unref", "create_unblob"} -> "undo"
        [] l = "create_insert" -> "create_unblob"
        [] l = "create_row" -> "create_unref"
        [] l = "publish" -> IF loc[w].done = {} THEN "idle" ELSE "undo_lock"
        [] l \in {"survive", "graph", "deps", "start"} -> "abort"
        [] l \in {"delete", "check", "done", "commit"} \cup CommitPCs -> "fence"
        [] l = "arc_insert" -> "arc_unblob"
        [] l = "arc_obj" -> "arc_unrow"
        [] OTHER -> "idle"

StepFails(w) ==
  IF ErrorTarget(w) = "idle"
  THEN Return(w)
  ELSE Goto(w, ErrorTarget(w)) /\ UNCHANGED loc

\* The loops over payloads call with_inner only while one is left.
CallsStore(w) ==
  /\ pc[w] \in EnteringPCs
  /\ pc[w] = "check" => plan[loc[w].att] # {}
  /\ pc[w] \in {"delete", "undo_blob"} => loc[w].todo # {}

\* with_inner refuses because authority was lost before.
AuthorityError(w) ==
  /\ CallsStore(w)
  /\ mode = "up"
  /\ lost /\ w \notin grace
  /\ StepFails(w)
  /\ UNCHANGED <<storeVars, journalVars, physVars, procVars, grace, recVars,
                 budget>>

\* A statement inside the closure fails.
StatementError(w) ==
  /\ CallsStore(w) \/ pc[w] \in ClosurePCs
  /\ pc[w] \in FaultSites
  /\ budget.store > 0
  /\ budget' = [budget EXCEPT !.store = @ - 1]
  /\ IF pc[w] \in ClosurePCs THEN Within(w) ELSE Enter(w)
  /\ StepFails(w)
  /\ UNCHANGED <<storeVars, journalVars, physVars, procVars, recVars>>

\* The heartbeat statement of with_inner fails: authority is lost as well,
\* but no shutdown is requested.
EntryHeartbeatError(w) ==
  /\ CallsStore(w)
  /\ "heartbeat" \in FaultSites
  /\ budget.store > 0
  /\ budget' = [budget EXCEPT !.store = @ - 1]
  /\ mode = "up" /\ LockFree
  /\ lost => w \in grace
  /\ Fence(w)
  /\ StepFails(w)
  /\ UNCHANGED <<storeVars, journalVars, physVars, mode, stop, archiveUp,
                 recVars>>

\* The heartbeat thread fails; it sets authority_lost and ends.
HeartbeatThreadError ==
  /\ mode = "up" /\ ~lost
  /\ "heartbeat" \in FaultSites
  /\ budget.store > 0
  /\ budget' = [budget EXCEPT !.store = @ - 1]
  /\ lost' = TRUE
  /\ grace' = Workers
  /\ UNCHANGED <<storeVars, journalVars, physVars, mode, stop, archiveUp,
                 pc, loc, recVars>>

-----------------------------------------------------------------------------
(* Errors of the backends: the call may have had its effect. *)

BackendFault ==
  /\ mode = "up"
  /\ budget.backend > 0
  /\ budget' = [budget EXCEPT !.backend = @ - 1]

WriteError(w) ==
  /\ pc[w] = "create_write"
  /\ BackendFault
  /\ Enter(w)
  /\ \E b \in {blob[loc[w].cur], "ok", "absent"} :
       blob' = [blob EXCEPT ![loc[w].cur] = b]
  /\ Goto(w, "undo")
  /\ UNCHANGED <<storeVars, journalVars, ablob, procVars, loc, recVars>>

\* Deletion of a payload: of a reclaim, or of a compensation.
DeleteError(w, p) ==
  /\ \/ pc[w] = "create_unblob" /\ p = loc[w].cur
     \/ pc[w] \in {"undo_blob", "delete"} /\ p \in loc[w].todo
  /\ BackendFault
  /\ Enter(w)
  /\ \E b \in {blob[p], "absent"} : blob' = [blob EXCEPT ![p] = b]
  /\ CASE pc[w] = "create_unblob" -> Goto(w, "undo") /\ UNCHANGED loc
       [] pc[w] = "delete" -> Goto(w, "fence") /\ UNCHANGED loc
       [] pc[w] = "undo_blob" -> Return(w)
  /\ UNCHANGED <<storeVars, journalVars, ablob, procVars, recVars>>

\* The canonical copy or the existence of a deleted payload cannot be read.
ReadError(w) ==
  /\ \/ pc[w] = "create_ref" /\ \E p \in loc[w].todo : dedup[p] > 0
     \/ pc[w] = "check" /\ plan[loc[w].att] # {}
  /\ BackendFault
  /\ Enter(w)
  /\ Goto(w, IF pc[w] = "check" THEN "fence" ELSE "undo")
  /\ UNCHANGED <<storeVars, journalVars, physVars, procVars, loc, recVars>>

\* verify takes a payload it cannot read for a corrupt one.
VerifyReadError(w, p) ==
  /\ pc[w] = "ver_next"
  /\ p \in loc[w].todo
  /\ BackendFault
  /\ Enter(w)
  /\ Goto(w, "ver_inval")
  /\ SetLocals(w, [loc[w] EXCEPT !.todo = @ \ {p}, !.cur = p])
  /\ UNCHANGED <<storeVars, journalVars, physVars, procVars, recVars>>

ArchiveError(w) ==
  LET o == loc[w].obj
  IN  /\ pc[w] \in {"arc_write", "arc_unblob", "arch"}
      /\ pc[w] = "arch" => archiveUp
      /\ BackendFault
      /\ \E b \in {ablob[o], pc[w] = "arc_write"} : ablob' = [ablob EXCEPT ![o] = b]
      /\ IF pc[w] = "arch" THEN Goto(w, "fence") /\ UNCHANGED loc ELSE Return(w)
      /\ UNCHANGED <<storeVars, journalVars, blob, procVars, grace, recVars>>

\* A payload rots on its backend.
Corrupt(p) ==
  /\ blob[p] = "ok"
  /\ budget.corrupt > 0
  /\ budget' = [budget EXCEPT !.corrupt = @ - 1]
  /\ blob' = [blob EXCEPT ![p] = "corrupt"]
  /\ UNCHANGED <<storeVars, journalVars, ablob, procVars, workVars, recVars>>

-----------------------------------------------------------------------------
(* The process. *)

\* All that was in memory is gone.
Vanish ==
  /\ mode' = "down"
  /\ lost' = FALSE /\ stop' = FALSE
  /\ grace' = {}
  /\ pc' = [w \in Workers |-> "idle"]
  /\ loc' = [w \in Workers |-> NoLocals]
  /\ rpc' = "off" /\ rec' = NoRecovery
  /\ UNCHANGED <<storeVars, journalVars, physVars, archiveUp>>

Crash ==
  /\ mode # "down"
  /\ budget.crash > 0
  /\ budget' = [budget EXCEPT !.crash = @ - 1]
  /\ Vanish

\* The SHUTDOWN request.
RequestShutdown ==
  /\ "shutdown" \in Requests
  /\ mode = "up" /\ ~stop
  /\ stop' = TRUE
  /\ UNCHANGED <<storeVars, journalVars, physVars, mode, lost, archiveUp,
                 workVars, recVars, budget>>

\* run_coordinator leaves its loop once shutdown is requested; the server
\* waits for its connection threads up to a deadline and exits regardless.
Exit ==
  /\ mode = "up" /\ stop
  /\ Vanish
  /\ UNCHANGED budget

\* Coordinator::open: recovery runs before the first request is accepted.
Start ==
  /\ mode = "down"
  /\ mode' = "starting"
  /\ archiveUp' \in (IF ArchiveMayVanish THEN BOOLEAN ELSE {TRUE})
  /\ rpc' = "scan"
  /\ rec' = NoRecovery
  /\ UNCHANGED <<storeVars, journalVars, physVars, lost, stop, workVars, budget>>

\* The RECOVER request: begin_recovery excludes every other operation.
RecoverRequest(w) ==
  /\ "recover" \in Requests
  /\ pc[w] = "idle"
  /\ Enter(w)
  /\ ~ActiveRecovery
  /\ ActiveObjects = {} /\ ActivePayloads = {}
  /\ Goto(w, "recover")
  /\ rpc' = "scan"
  /\ rec' = [NoRecovery EXCEPT !.by = w]
  /\ UNCHANGED <<storeVars, journalVars, physVars, procVars, loc, budget>>

-----------------------------------------------------------------------------
(* The specification. *)

Init ==
  /\ object = [o \in Objects |->
       IF o \notin InitialObjects THEN NoObject
       ELSE [state |-> IF Targets[o] = {} THEN "CREATED" ELSE "HOT", flags |-> {}]]
  /\ rows = [o \in Objects |-> [p \in Payloads |->
       IF o \in InitialObjects /\ p \in Targets[o] THEN "valid" ELSE "none"]]
  /\ dedup = [p \in Payloads |->
       Cardinality({o \in InitialObjects : p \in Targets[o]})]
  /\ arch = [o \in Objects |-> 0]
  /\ edges = InitialEdges
  /\ phase = [a \in Attempts |-> "NONE"]
  /\ entry = [a \in Attempts |-> NoEntry]
  /\ plan = [a \in Attempts |-> {}]
  /\ resv = [a \in Attempts |-> "NONE"]
  /\ attempt = [a \in Attempts |-> "NONE"]
  /\ blob = [p \in Payloads |->
       IF \E o \in InitialObjects : p \in Targets[o] THEN "ok" ELSE "absent"]
  /\ ablob = [o \in Objects |-> FALSE]
  /\ mode = "up" /\ lost = FALSE /\ stop = FALSE /\ archiveUp = TRUE
  /\ grace = {}
  /\ pc = [w \in Workers |-> "idle"]
  /\ loc = [w \in Workers |-> NoLocals]
  /\ rpc = "off" /\ rec = NoRecovery
  /\ budget = [store |-> MaxStoreFaults, backend |-> MaxBackendFaults,
               crash |-> MaxCrashes, corrupt |-> MaxCorruptions]

\* A client's request starts.
Request(w) ==
  \/ \E o \in Objects, kind \in FlagOps : FlagBegin(w, o, kind)
  \/ \E o \in Objects : CreateBegin(w, o)
  \/ \E o \in Objects, a \in Attempts : Reserve(w, o, a)
  \/ \E o \in Objects : VerifyBegin(w, o)
  \/ \E o \in Objects : ArchiveBegin(w, o)
  \/ \E e \in EdgeChoices : AddLineage(w, e)
  \/ \E e \in EdgeChoices : RemoveLineage(w, e)
  \/ RecoverRequest(w)

\* A request in progress takes its next step.
WorkerStep(w) ==
  \/ FlagWrite(w)
  \/ CreateStep(w) \/ ReclaimStep(w) \/ VerifyStep(w) \/ ArchiveStep(w)
  \/ AuthorityError(w)

WorkerFault(w) ==
  \/ StatementError(w) \/ EntryHeartbeatError(w)
  \/ WriteError(w) \/ ReadError(w) \/ ArchiveError(w)
  \/ \E p \in Payloads : DeleteError(w, p)
  \/ \E p \in Payloads : VerifyReadError(w, p)

Process == Start \/ Exit \/ Crash \/ RequestShutdown \/ HeartbeatThreadError

Next ==
  \/ \E w \in Workers : Request(w) \/ WorkerStep(w) \/ WorkerFault(w)
  \/ RecoveryStep
  \/ Process
  \/ \E p \in Payloads : Corrupt(p)

Spec == Init /\ [][Next]_vars
==============================================================================
