------------------------------ MODULE ObjectOps ------------------------------
(***************************************************************************)
(* The handlers of coordinator.rs that register objects, set their flags,  *)
(* verify and archive them and record their lineage.                       *)
(***************************************************************************)
EXTENDS CoordinatorState

-----------------------------------------------------------------------------
(* touch, pin, unpin, set_protected: read the object, write the whole row.  *)

FlagResult(kind, flags) ==
  CASE kind = "pin" -> flags \cup {"pinned"}
    [] kind = "unpin" -> flags \ {"pinned"}
    [] kind = "protect" -> flags \cup {"protected"}
    [] kind = "unprotect" -> flags \ {"protected"}
    [] OTHER -> flags

\* Mutant: the object guard is not taken.
FlagBeginUnguarded(w, o, kind) ==
  /\ kind \in Requests
  /\ pc[w] = "idle"
  /\ Enter(w)
  /\ ~ActiveRecovery
  /\ o \in Registered
  /\ kind \in {"touch", "pin"} => o \notin Dead
  /\ Goto(w, kind)
  /\ SetLocals(w, [loc[w] EXCEPT !.obj = o, !.seen = object[o]])
  /\ UNCHANGED <<storeVars, journalVars, physVars, procVars, recVars, budget>>

FlagBegin(w, o, kind) ==
  /\ kind \in Requests
  /\ pc[w] = "idle"
  /\ Enter(w)
  /\ ObjectOperationAllowed(o)
  /\ o \in Registered
  /\ kind \in {"touch", "pin"} => o \notin Dead
  /\ Goto(w, kind)
  /\ SetLocals(w, [loc[w] EXCEPT !.obj = o, !.seen = object[o]])
  /\ UNCHANGED <<storeVars, journalVars, physVars, procVars, recVars, budget>>

FlagWrite(w) ==
  LET o == loc[w].obj
      kind == pc[w]
  IN  /\ kind \in FlagOps
      /\ Enter(w)
      /\ UpdateObject(o, [loc[w].seen EXCEPT !.flags = FlagResult(kind, @)])
      /\ Return(w)
      /\ UNCHANGED <<rows, dedup, arch, edges, journalVars, physVars,
                     procVars, recVars, budget>>

-----------------------------------------------------------------------------
(* create_object.  A client does not reuse the id of a registration that   *)
(* failed and could not be cleaned up.                                      *)

CreateBegin(w, o) ==
  /\ "create" \in Requests
  /\ pc[w] = "idle"
  /\ Enter(w)
  /\ ObjectOperationAllowed(o)
  /\ o \notin Registered
  /\ Rows(o) = {}
  /\ Goto(w, IF Targets[o] = {} THEN "publish" ELSE "create_lock")
  /\ SetLocals(w, [loc[w] EXCEPT !.obj = o, !.todo = Targets[o]])
  /\ UNCHANGED <<storeVars, journalVars, physVars, procVars, recVars, budget>>

\* store_payload: the payload guards of every target, or the request fails.
CreateLock(w) ==
  /\ pc[w] = "create_lock"
  /\ MayPoll
  /\ PayloadsFree(loc[w].todo)
  /\ Goto(w, "create_ref")
  /\ SetLocals(w, [loc[w] EXCEPT !.held = loc[w].todo])
  /\ UNCHANGED <<storeVars, journalVars, physVars, procVars, grace, recVars,
                 budget>>

CreateLockFails(w) ==
  /\ pc[w] = "create_lock"
  /\ PollFails(loc[w].todo)
  /\ Return(w)
  /\ UNCHANGED <<storeVars, journalVars, physVars, procVars, grace, recVars,
                 budget>>

\* store_payload_on_backend for the next target, read of the dedup row: a
\* payload already there is read back and referenced, otherwise it is written.
CreateAcquire(w, p) ==
  /\ pc[w] = "create_ref"
  /\ p \in loc[w].todo
  /\ Enter(w)
  /\ dedup[p] > 0
  /\ blob[p] = "ok"
  /\ DedupAcquire(p)
  /\ Goto(w, "create_row")
  /\ SetLocals(w, [loc[w] EXCEPT !.cur = p])
  /\ UNCHANGED <<object, rows, arch, edges, journalVars, physVars, procVars,
                 recVars, budget>>

\* The canonical copy is missing or fails its hash: the request fails.
CreateRefuse(w, p) ==
  /\ pc[w] = "create_ref"
  /\ p \in loc[w].todo
  /\ Enter(w)
  /\ dedup[p] > 0
  /\ blob[p] # "ok"
  /\ Goto(w, "undo")
  /\ UNCHANGED <<storeVars, journalVars, physVars, procVars, loc, recVars,
                 budget>>

CreateMiss(w, p) ==
  /\ pc[w] = "create_ref"
  /\ p \in loc[w].todo
  /\ Enter(w)
  /\ dedup[p] = 0
  /\ Goto(w, "create_write")
  /\ SetLocals(w, [loc[w] EXCEPT !.cur = p])
  /\ UNCHANGED <<storeVars, journalVars, physVars, procVars, recVars, budget>>

\* write_payload_to: stored and read back.
CreateWrite(w) ==
  /\ pc[w] = "create_write"
  /\ Enter(w)
  /\ blob' = [blob EXCEPT ![loc[w].cur] = "ok"]
  /\ Goto(w, "create_insert")
  /\ UNCHANGED <<storeVars, journalVars, ablob, procVars, loc, recVars, budget>>

CreateInsert(w) ==
  /\ pc[w] = "create_insert"
  /\ Enter(w)
  /\ dedup[loc[w].cur] = 0
  /\ DedupInsert(loc[w].cur)
  /\ Goto(w, "create_row")
  /\ UNCHANGED <<object, rows, arch, edges, journalVars, physVars, procVars,
                 loc, recVars, budget>>

\* add_replica.  After the last target the payload guards are dropped; the
\* object row is published later.
CreateRow(w) ==
  LET p == loc[w].cur
      left == loc[w].todo \ {p}
  IN  /\ pc[w] = "create_row"
      /\ Enter(w)
      /\ WriteReplica(loc[w].obj, p, "valid")
      /\ Goto(w, IF left = {} THEN "publish" ELSE "create_ref")
      /\ SetLocals(w, [loc[w] EXCEPT !.todo = left, !.done = @ \cup {p},
                                     !.cur = None,
                                     !.held = IF left = {} THEN {} ELSE @])
      /\ UNCHANGED <<object, dedup, arch, edges, journalVars, physVars,
                     procVars, recVars, budget>>

\* create_object_with_audits (the client registers the object unflagged).
Publish(w) ==
  /\ pc[w] = "publish"
  /\ Enter(w)
  /\ object' = [object EXCEPT ![loc[w].obj] =
                  [state |-> IF Targets[loc[w].obj] = {} THEN "CREATED" ELSE "HOT",
                   flags |-> {}]]
  /\ Return(w)
  /\ UNCHANGED <<rows, dedup, arch, edges, journalVars, physVars, procVars,
                 recVars, budget>>

-----------------------------------------------------------------------------
(* Compensation of a failed registration. *)

\* Mutants: the target counts as done although its row was not added; the
\* payload goes with any reference.
CreateUnrefTwice(w) ==
  LET p == loc[w].cur
  IN  /\ pc[w] = "create_unref"
      /\ Enter(w)
      /\ dedup[p] > 0
      /\ DedupRelease(p)
      /\ Goto(w, IF dedup[p] = 1 THEN "create_unblob" ELSE "undo")
      /\ SetLocals(w, [loc[w] EXCEPT !.done = @ \cup {p}])
      /\ UNCHANGED <<object, rows, arch, edges, journalVars, physVars,
                     procVars, recVars, budget>>

CreateUnrefDeletes(w) ==
  LET p == loc[w].cur
  IN  /\ pc[w] = "create_unref"
      /\ Enter(w)
      /\ dedup[p] > 0
      /\ DedupRelease(p)
      /\ Goto(w, "create_unblob")
      /\ UNCHANGED <<object, rows, arch, edges, journalVars, physVars,
                     procVars, loc, recVars, budget>>

\* add_replica failed: its reference is given back, and the payload deleted
\* with the last one.
CreateUnref(w) ==
  LET p == loc[w].cur
  IN  /\ pc[w] = "create_unref"
      /\ Enter(w)
      /\ dedup[p] > 0
      /\ DedupRelease(p)
      /\ Goto(w, IF dedup[p] = 1 THEN "create_unblob" ELSE "undo")
      /\ UNCHANGED <<object, rows, arch, edges, journalVars, physVars,
                     procVars, loc, recVars, budget>>

CreateUnblob(w) ==
  /\ pc[w] = "create_unblob"
  /\ Enter(w)
  /\ blob' = [blob EXCEPT ![loc[w].cur] = "absent"]
  /\ Goto(w, "undo")
  /\ UNCHANGED <<storeVars, journalVars, ablob, procVars, loc, recVars, budget>>

\* rollback_replicas: publishing failed after the payload guards were dropped.
UndoLock(w) ==
  /\ pc[w] = "undo_lock"
  /\ MayPoll
  /\ PayloadsFree(loc[w].done)
  /\ Goto(w, "undo")
  /\ SetLocals(w, [loc[w] EXCEPT !.held = loc[w].done])
  /\ UNCHANGED <<storeVars, journalVars, physVars, procVars, grace, recVars,
                 budget>>

UndoLockFails(w) ==
  /\ pc[w] = "undo_lock"
  /\ PollFails(loc[w].done)
  /\ Return(w)
  /\ UNCHANGED <<storeVars, journalVars, physVars, procVars, grace, recVars,
                 budget>>

\* rollback_replicas_under_guard: one closure deletes the rows and releases
\* the references; the payloads nobody references any more follow.
UndoEnter(w) ==
  /\ pc[w] = "undo"
  /\ Enter(w)
  /\ Goto(w, "undo_row")
  /\ SetLocals(w, [loc[w] EXCEPT !.todo = {}])
  /\ UNCHANGED <<storeVars, journalVars, physVars, procVars, recVars, budget>>

UndoRow(w, p) ==
  /\ pc[w] = "undo_row"
  /\ Within(w)
  /\ p \in loc[w].done
  /\ DeleteReplica(loc[w].obj, p)
  /\ Goto(w, "undo_release")
  /\ SetLocals(w, [loc[w] EXCEPT !.done = @ \ {p}, !.cur = p])
  /\ UNCHANGED <<object, dedup, arch, edges, journalVars, physVars, procVars,
                 recVars, budget>>

\* A missing dedup row would fail the closure; the reference just deleted is
\* counted until this step, so there is one.
UndoRelease(w) ==
  LET p == loc[w].cur
  IN  /\ pc[w] = "undo_release"
      /\ Within(w)
      /\ dedup[p] > 0
      /\ DedupRelease(p)
      /\ Goto(w, "undo_row")
      /\ SetLocals(w, [loc[w] EXCEPT !.cur = None,
                                     !.todo = IF dedup[p] = 1 THEN @ \cup {p} ELSE @])
      /\ UNCHANGED <<object, rows, arch, edges, journalVars, physVars,
                     procVars, recVars, budget>>

UndoLeave(w) ==
  /\ pc[w] = "undo_row"
  /\ Within(w)
  /\ loc[w].done = {}
  /\ Goto(w, "undo_blob")
  /\ UNCHANGED <<storeVars, journalVars, physVars, procVars, loc, recVars,
                 budget>>

UndoBlob(w, p) ==
  /\ pc[w] = "undo_blob"
  /\ Enter(w)
  /\ p \in loc[w].todo
  /\ blob' = [blob EXCEPT ![p] = "absent"]
  /\ SetLocals(w, [loc[w] EXCEPT !.todo = @ \ {p}])
  /\ UNCHANGED <<storeVars, journalVars, ablob, procVars, pc, recVars, budget>>

UndoReturn(w) ==
  /\ pc[w] = "undo_blob"
  /\ mode = "up"
  /\ loc[w].todo = {}
  /\ Return(w)
  /\ UNCHANGED <<storeVars, journalVars, physVars, procVars, grace, recVars,
                 budget>>

CreateStep(w) ==
  \/ CreateLock(w) \/ CreateLockFails(w)
  \/ \E p \in Payloads : CreateAcquire(w, p)
  \/ \E p \in Payloads : CreateRefuse(w, p)
  \/ \E p \in Payloads : CreateMiss(w, p)
  \/ CreateWrite(w) \/ CreateInsert(w) \/ CreateRow(w) \/ Publish(w)
  \/ CreateUnref(w) \/ CreateUnblob(w)
  \/ UndoLock(w) \/ UndoLockFails(w) \/ UndoEnter(w)
  \/ \E p \in Payloads : UndoRow(w, p)
  \/ UndoRelease(w) \/ UndoLeave(w)
  \/ \E p \in Payloads : UndoBlob(w, p)
  \/ UndoReturn(w)

-----------------------------------------------------------------------------
(* verify. *)

VerifyBegin(w, o) ==
  /\ "verify" \in Requests
  /\ pc[w] = "idle"
  /\ Enter(w)
  /\ ObjectOperationAllowed(o)
  /\ o \in Registered
  /\ Rows(o) # {}
  /\ Goto(w, "ver_lock")
  /\ SetLocals(w, [loc[w] EXCEPT !.obj = o, !.todo = Rows(o)])
  /\ UNCHANGED <<storeVars, journalVars, physVars, procVars, recVars, budget>>

VerifyLock(w) ==
  /\ pc[w] = "ver_lock"
  /\ MayPoll
  /\ PayloadsFree(loc[w].todo)
  /\ Goto(w, "ver_next")
  /\ SetLocals(w, [loc[w] EXCEPT !.held = loc[w].todo])
  /\ UNCHANGED <<storeVars, journalVars, physVars, procVars, grace, recVars,
                 budget>>

VerifyLockFails(w) ==
  /\ pc[w] = "ver_lock"
  /\ PollFails(loc[w].todo)
  /\ Return(w)
  /\ UNCHANGED <<storeVars, journalVars, physVars, procVars, grace, recVars,
                 budget>>

\* The payload has its hash: the own row is marked valid.
VerifyGood(w, p) ==
  /\ pc[w] = "ver_next"
  /\ Enter(w)
  /\ p \in loc[w].todo
  /\ blob[p] = "ok"
  /\ WriteReplica(loc[w].obj, p, "valid")
  /\ SetLocals(w, [loc[w] EXCEPT !.todo = @ \ {p}])
  /\ UNCHANGED <<object, dedup, arch, edges, journalVars, physVars, procVars,
                 pc, recVars, budget>>

\* It has not: the closure that invalidates every owner is entered.
VerifyBad(w, p) ==
  /\ pc[w] = "ver_next"
  /\ Enter(w)
  /\ p \in loc[w].todo
  /\ blob[p] # "ok"
  /\ Goto(w, "ver_inval")
  /\ SetLocals(w, [loc[w] EXCEPT !.todo = @ \ {p}, !.cur = p])
  /\ UNCHANGED <<storeVars, journalVars, physVars, procVars, recVars, budget>>

\* The rows of the payload a corrupt read makes verify invalidate.
InvalidatedOwners(p) == {o \in Objects : rows[o][p] = "valid"}

VerifyInvalidate(w, o) ==
  /\ pc[w] = "ver_inval"
  /\ Within(w)
  /\ o \in InvalidatedOwners(loc[w].cur)
  /\ ParentAccepts(o)
  /\ WriteReplica(o, loc[w].cur, "invalid")
  /\ UNCHANGED <<object, dedup, arch, edges, journalVars, physVars, procVars,
                 pc, loc, recVars, budget>>

\* update_replica refuses a row whose object is not published yet.
VerifyInvalidateFails(w, o) ==
  /\ pc[w] = "ver_inval"
  /\ Within(w)
  /\ o \in InvalidatedOwners(loc[w].cur)
  /\ ~ParentAccepts(o)
  /\ Return(w)
  /\ UNCHANGED <<storeVars, journalVars, physVars, procVars, recVars, budget>>

VerifyInvalidated(w) ==
  /\ pc[w] = "ver_inval"
  /\ Within(w)
  /\ InvalidatedOwners(loc[w].cur) = {}
  /\ Goto(w, "ver_next")
  /\ SetLocals(w, [loc[w] EXCEPT !.cur = None])
  /\ UNCHANGED <<storeVars, journalVars, physVars, procVars, recVars, budget>>

VerifyReturn(w) ==
  /\ pc[w] = "ver_next"
  /\ Enter(w)
  /\ loc[w].todo = {}
  /\ Return(w)
  /\ UNCHANGED <<storeVars, journalVars, physVars, procVars, recVars, budget>>

VerifyStep(w) ==
  \/ VerifyLock(w) \/ VerifyLockFails(w)
  \/ \E p \in Payloads : VerifyGood(w, p)
  \/ \E p \in Payloads : VerifyBad(w, p)
  \/ \E o \in Objects : VerifyInvalidate(w, o)
  \/ \E o \in Objects : VerifyInvalidateFails(w, o)
  \/ VerifyInvalidated(w) \/ VerifyReturn(w)

-----------------------------------------------------------------------------
(* archive.  An ARCHIVED object returns its record at once. *)

ArchiveBegin(w, o) ==
  /\ "archive" \in Requests
  /\ pc[w] = "idle"
  /\ Enter(w)
  /\ ObjectOperationAllowed(o)
  /\ o \in Registered
  /\ object[o].state # "ARCHIVED"
  /\ CheckTransition(object[o].state, "ARCHIVED")
  /\ arch[o] < MaxArchives
  /\ archiveUp
  /\ \E p \in ValidRows(rows[o]) : blob[p] = "ok"
  /\ Goto(w, "arc_write")
  /\ SetLocals(w, [loc[w] EXCEPT !.obj = o, !.seen = object[o]])
  /\ UNCHANGED <<storeVars, journalVars, physVars, procVars, recVars, budget>>

\* ArchiveBackend::write, a no-op if the key already holds this content.
ArchiveWrite(w) ==
  /\ pc[w] = "arc_write"
  /\ mode = "up"
  /\ ablob' = [ablob EXCEPT ![loc[w].obj] = TRUE]
  /\ Goto(w, "arc_insert")
  /\ UNCHANGED <<storeVars, journalVars, blob, procVars, grace, loc, recVars,
                 budget>>

ArchiveInsert(w) ==
  /\ pc[w] = "arc_insert"
  /\ Enter(w)
  /\ InsertArchive(loc[w].obj)
  /\ Goto(w, "arc_obj")
  /\ UNCHANGED <<object, rows, dedup, edges, journalVars, physVars, procVars,
                 loc, recVars, budget>>

ArchivePublish(w) ==
  /\ pc[w] = "arc_obj"
  /\ Enter(w)
  /\ UpdateObject(loc[w].obj, [loc[w].seen EXCEPT !.state = "ARCHIVED"])
  /\ Return(w)
  /\ UNCHANGED <<rows, dedup, arch, edges, journalVars, physVars, procVars,
                 recVars, budget>>

\* The object row could not be written: the record goes, then the payload.
ArchiveUnrow(w) ==
  /\ pc[w] = "arc_unrow"
  /\ Enter(w)
  /\ arch[loc[w].obj] > 0
  /\ DeleteArchiveRow(loc[w].obj)
  /\ Goto(w, "arc_unblob")
  /\ UNCHANGED <<object, rows, dedup, edges, journalVars, physVars, procVars,
                 loc, recVars, budget>>

ArchiveUnblob(w) ==
  /\ pc[w] = "arc_unblob"
  /\ mode = "up"
  /\ ablob' = [ablob EXCEPT ![loc[w].obj] = FALSE]
  /\ Return(w)
  /\ UNCHANGED <<storeVars, journalVars, blob, procVars, grace, recVars, budget>>

ArchiveStep(w) ==
  \/ ArchiveWrite(w) \/ ArchiveInsert(w) \/ ArchivePublish(w)
  \/ ArchiveUnrow(w) \/ ArchiveUnblob(w)

-----------------------------------------------------------------------------
(* add_lineage and remove_lineage: one closure, refused while one of the   *)
(* two end points has an operation in progress.                             *)

\* Mutant: the end points are not looked at.
LineageUnguarded(e) == ~ActiveRecovery

LineageAllowed(e) ==
  ~ActiveRecovery /\ {e.parent, e.child} \cap ActiveObjects = {}

AddLineage(w, e) ==
  /\ "lineage" \in Requests
  /\ pc[w] = "idle"
  /\ Enter(w)
  /\ LineageAllowed(e)
  /\ AddEdgeLegal(edges, Registered, e)
  /\ edges' = edges \cup {e}
  /\ UNCHANGED <<object, rows, dedup, arch, journalVars, physVars, procVars,
                 pc, loc, recVars, budget>>

RemoveLineage(w, e) ==
  /\ "lineage" \in Requests
  /\ pc[w] = "idle"
  /\ Enter(w)
  /\ LineageAllowed(e)
  /\ edges' = edges \ {e}
  /\ UNCHANGED <<object, rows, dedup, arch, journalVars, physVars, procVars,
                 pc, loc, recVars, budget>>
==============================================================================
