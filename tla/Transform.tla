------------------------------ MODULE Transform ------------------------------
(***************************************************************************)
(* compress, archive and restore of objects that share their content: how   *)
(* an object moves between its plain payload, its compressed payload and an *)
(* archive, statement by statement, with the compensation of each handler.  *)
(*                                                                           *)
(* One hot backend on disk, whose payloads are named by their content: plain *)
(* or its compressed form; the key is that of the content's dedup row, and a *)
(* payload nobody refers to is overwritten when the content is written again.*)
(* Reclaim and verify are in Coordinator; there an object keeps the payload  *)
(* it was registered with.                                                   *)
(***************************************************************************)
EXTENDS Naturals, Sequences, FiniteSets

CONSTANTS
  Objects,
  None,
  MaxRows,          \* replica rows an object ever has
  MaxArchives,      \* archive records of an object
  MaxStoreFaults, MaxBackendFaults, MaxCrashes

ASSUME TransformAssumption ==
  /\ None \notin Objects /\ IsFiniteSet(Objects)
  /\ {MaxRows, MaxArchives, MaxStoreFaults, MaxBackendFaults, MaxCrashes} \subseteq Nat

VARIABLES
  \* the store
  object,    \* objects: [state, zip], zip is compressed_size and its metadata
  rows,      \* replicas of each object: [id, hash]
  refs,      \* dedup: ref_count of plain and of zip, 0 for no row
  records,   \* archives of each object, in order: the replicas archived
  \* backend and archive
  payload,   \* the payloads that exist
  blobs,     \* archive payloads that exist: [obj, row]
  \* the process
  op,        \* the operation on each object, None if there is none
  lastId,    \* replica ids are never used again
  before,    \* the object row that the operation read first
  budget

storeVars == <<object, rows, refs, records>>
physVars == <<payload, blobs>>
vars == <<storeVars, physVars, op, lastId, before, budget>>

-----------------------------------------------------------------------------
Hashes == {"plain", "zip"}
States == {"HOT", "WARM", "COMPRESSED", "ARCHIVED"}
\* A replica row; its id also names the archive payload made from it.
Row == [id : Nat, hash : Hashes]
Metadata == {"ref", "unref", "unrow", "row", "object"}
\* Where an operation can be.
CompressPCs ==
  {"c_guard", "c_share", "c_write", "c_old", "c_ref", "c_unref", "c_unrow", "c_row",
   "c_object", "c_delete", "c_fix_row", "c_fix_unrow", "c_fix_unref", "c_fix_ref",
   "c_fix_payload"}
ArchivePCs == {"a_write", "a_record", "a_object", "a_fix_record", "a_fix_blob"}
RestorePCs ==
  {"r_hot", "r_guard", "r_share", "r_write", "r_ref", "r_row", "r_object", "r_audit",
   "r_fix_object", "r_fix_row", "r_fix_ref", "r_fix_payload"}
PCs == CompressPCs \cup ArchivePCs \cup RestorePCs
Locals == [pc : PCs, row : Row, old : Nat, wrote : BOOLEAN,
           done : SUBSET Metadata, guard : SUBSET Hashes]
ASSUME NoneAssumption == None \notin Locals

(* Type invariant: every table, payload set and operation keeps its shape. *)
TypeOK ==
  /\ {object, before} \subseteq [Objects -> [state : States, zip : BOOLEAN]]
  /\ rows \in [Objects -> SUBSET Row]
  /\ refs \in [Hashes -> Nat]
  /\ records \in [Objects -> Seq(Row)]
  /\ payload \subseteq Hashes
  /\ blobs \subseteq [obj : Objects, row : Row]
  /\ \A o \in Objects : op[o] = None \/ op[o] \in Locals
  /\ lastId \in [Objects -> Nat]
  /\ budget \in [store : Nat, backend : Nat, crash : Nat]

FirstRow == [id |-> 1, hash |-> "plain"]

\* Every object is registered with the same content.
Init ==
  /\ object = [o \in Objects |-> [state |-> "HOT", zip |-> FALSE]]
  /\ rows = [o \in Objects |-> {FirstRow}]
  /\ refs = [h \in Hashes |-> IF h = "plain" THEN Cardinality(Objects) ELSE 0]
  /\ records = [o \in Objects |-> <<>>]
  /\ payload = {"plain"}
  /\ blobs = {}
  /\ op = [o \in Objects |-> None]
  /\ lastId = [o \in Objects |-> 1]
  /\ before = object
  /\ budget = [store |-> MaxStoreFaults, backend |-> MaxBackendFaults,
               crash |-> MaxCrashes]

Spend(k) == budget[k] > 0 /\ budget' = [budget EXCEPT ![k] = @ - 1]

-----------------------------------------------------------------------------
(* Operations.  begin_object_operation lets one in per object. *)

At(o, l) == op[o] # None /\ op[o].pc = l
Goto(o, l) == op' = [op EXCEPT ![o].pc = l]
\* A statement of the metadata closure went through.
Did(o, s, l) == op' = [op EXCEPT ![o].pc = l, ![o].done = @ \cup {s}]
Return(o) == op' = [op EXCEPT ![o] = None]

Begin(o, l, r) ==
  /\ op[o] = None
  /\ op' = [op EXCEPT ![o] = [pc |-> l, row |-> r, old |-> 0, wrote |-> FALSE,
                              done |-> {}, guard |-> {}]]
  /\ before' = [before EXCEPT ![o] = object[o]]
  /\ UNCHANGED <<storeVars, physVars, lastId, budget>>

Held == UNION {op[o].guard : o \in {x \in Objects : op[x] # None}}

\* begin_payload_operations: waits for the payloads, or gives up after 30 s.
Guard(o, l, H) ==
  /\ H \cap Held = {}
  /\ op' = [op EXCEPT ![o].pc = l, ![o].guard = H]
  /\ UNCHANGED <<storeVars, physVars, lastId, before, budget>>

GuardTimesOut(o) ==
  /\ At(o, "c_guard") \/ At(o, "r_guard")
  /\ (IF At(o, "c_guard") THEN Hashes ELSE {"plain"}) \cap Held # {}
  /\ Return(o)
  /\ UNCHANGED <<storeVars, physVars, lastId, before, budget>>

\* Statements.  A release without a reference is an error; RefcountExact says
\* that it does not come to that.
Acquire(h) == refs' = [refs EXCEPT ![h] = @ + 1]
Unref(h) == refs[h] > 0 /\ refs' = [refs EXCEPT ![h] = @ - 1]
AddRow(o, r) == rows' = [rows EXCEPT ![o] = @ \cup {r}]
DropRow(o, r) == rows' = [rows EXCEPT ![o] = @ \ {r}]
SetObject(o, s, z) == object' = [object EXCEPT ![o] = [state |-> s, zip |-> z]]
NewRow(o, h) == [id |-> lastId[o] + 1, hash |-> h]

-----------------------------------------------------------------------------
(* compress. *)

Plain(o) == {r \in rows[o] : r.hash = "plain"}

\* The primary is read and checked before the payloads are guarded.
CompressBegin(o) ==
  /\ object[o].state \in {"HOT", "WARM"} /\ ~object[o].zip
  /\ lastId[o] < MaxRows
  /\ "plain" \in payload
  /\ \E r \in Plain(o) : Begin(o, "c_guard", r)

CompressGuard(o) == At(o, "c_guard") /\ Guard(o, "c_share", Hashes)

\* Another object may have compressed the same content already.
CompressShare(o) ==
  /\ At(o, "c_share")
  /\ IF refs["zip"] = 0 THEN Goto(o, "c_write")
     ELSE IF "zip" \in payload
     THEN Goto(o, "c_old")
     ELSE Return(o)
  /\ UNCHANGED <<storeVars, physVars, lastId, before, budget>>

CompressWrite(o) ==
  /\ At(o, "c_write")
  /\ payload' = payload \cup {"zip"}
  /\ op' = [op EXCEPT ![o].pc = "c_old", ![o].wrote = TRUE]
  /\ UNCHANGED <<storeVars, blobs, lastId, before, budget>>

\* What a failed write left is deleted again, unless that fails as well.
CompressWriteFails(o) ==
  /\ At(o, "c_write")
  /\ Spend("backend")
  /\ \/ payload' = payload \ {"zip"}
     \/ payload' = payload \cup {"zip"}
  /\ Return(o)
  /\ UNCHANGED <<storeVars, blobs, lastId, before>>

\* The source's dedup row as it is before the metadata changes.  An error here
\* leaves the compressed payload behind.
CompressOld(o) ==
  /\ At(o, "c_old")
  /\ IF refs["plain"] = 0 THEN Return(o)
     ELSE op' = [op EXCEPT ![o].pc = "c_ref", ![o].old = refs["plain"]]
  /\ UNCHANGED <<storeVars, physVars, lastId, before, budget>>

CompressRef(o) ==
  /\ At(o, "c_ref")
  /\ Acquire("zip")
  /\ Did(o, "ref", "c_unref")
  /\ UNCHANGED <<object, rows, records, physVars, lastId, before, budget>>

CompressUnref(o) ==
  /\ At(o, "c_unref")
  /\ Unref("plain")
  /\ Did(o, "unref", "c_unrow")
  /\ UNCHANGED <<object, rows, records, physVars, lastId, before, budget>>

CompressUnrow(o) ==
  /\ At(o, "c_unrow")
  /\ DropRow(o, op[o].row)
  /\ Did(o, "unrow", "c_row")
  /\ UNCHANGED <<object, refs, records, physVars, lastId, before, budget>>

CompressRow(o) ==
  /\ At(o, "c_row")
  /\ AddRow(o, NewRow(o, "zip"))
  /\ lastId' = [lastId EXCEPT ![o] = @ + 1]
  /\ Did(o, "row", "c_object")
  /\ UNCHANGED <<object, refs, records, physVars, before, budget>>

\* Mutant: the source is deleted whoever refers to it.
CompressObjectDeletes(o) ==
  /\ At(o, "c_object")
  /\ SetObject(o, "COMPRESSED", TRUE)
  /\ Goto(o, "c_delete")
  /\ UNCHANGED <<rows, refs, records, physVars, lastId, before, budget>>

\* update_object_with_audit.  The source goes if this was its only reference.
CompressObject(o) ==
  /\ At(o, "c_object")
  /\ SetObject(o, "COMPRESSED", TRUE)
  /\ IF op[o].old = 1 THEN Goto(o, "c_delete") ELSE Return(o)
  /\ UNCHANGED <<rows, refs, records, physVars, lastId, before, budget>>

\* A source that cannot be deleted is noted as a failure.
CompressDelete(o) ==
  /\ At(o, "c_delete")
  /\ \/ payload' = payload \ {"plain"} /\ UNCHANGED budget
     \/ Spend("backend") /\ UNCHANGED payload
  /\ Return(o)
  /\ UNCHANGED <<storeVars, blobs, lastId, before>>

\* Compensation: only what was done is undone, in the reverse order; the first
\* error ends it.
CompressUndoRow(o) ==
  /\ At(o, "c_fix_row")
  /\ IF "row" \in op[o].done THEN DropRow(o, [id |-> lastId[o], hash |-> "zip"])
     ELSE UNCHANGED rows
  /\ Goto(o, "c_fix_unrow")
  /\ UNCHANGED <<object, refs, records, physVars, lastId, before, budget>>

\* Mutant: the source's row is not put back.
CompressUndoNoRow(o) ==
  /\ At(o, "c_fix_unrow")
  /\ Goto(o, "c_fix_unref")
  /\ UNCHANGED <<storeVars, physVars, lastId, before, budget>>

CompressUndoUnrow(o) ==
  /\ At(o, "c_fix_unrow")
  /\ IF "unrow" \in op[o].done THEN AddRow(o, op[o].row) ELSE UNCHANGED rows
  /\ Goto(o, "c_fix_unref")
  /\ UNCHANGED <<object, refs, records, physVars, lastId, before, budget>>

CompressUndoUnref(o) ==
  /\ At(o, "c_fix_unref")
  /\ IF "unref" \in op[o].done THEN Acquire("plain") ELSE UNCHANGED refs
  /\ Goto(o, "c_fix_ref")
  /\ UNCHANGED <<object, rows, records, physVars, lastId, before, budget>>

\* Mutant: the reference to the compressed payload is kept.
CompressUndoNoRef(o) ==
  /\ At(o, "c_fix_ref")
  /\ Goto(o, "c_fix_payload")
  /\ UNCHANGED <<storeVars, physVars, lastId, before, budget>>

CompressUndoRef(o) ==
  /\ At(o, "c_fix_ref")
  /\ IF "ref" \in op[o].done THEN Unref("zip") ELSE UNCHANGED refs
  /\ Goto(o, "c_fix_payload")
  /\ UNCHANGED <<object, rows, records, physVars, lastId, before, budget>>

CompressUndoPayload(o) ==
  /\ At(o, "c_fix_payload")
  /\ \/ payload' = (IF op[o].wrote THEN payload \ {"zip"} ELSE payload)
        /\ UNCHANGED budget
     \/ op[o].wrote /\ Spend("backend") /\ UNCHANGED payload
  /\ Return(o)
  /\ UNCHANGED <<storeVars, blobs, lastId, before>>

-----------------------------------------------------------------------------
(* archive.  The archive key names object and replica, so that a replica that *)
(* is archived again finds its payload there. *)

\* Mutant: any replica will do.
AnyCopy(o) == rows[o]

\* The copy that restore will understand.
ArchivableCopy(o) ==
  {r \in rows[o] : r.hash = IF object[o].zip THEN "zip" ELSE "plain"}

ArchiveBegin(o) ==
  /\ object[o].state # "ARCHIVED"
  /\ Len(records[o]) < MaxArchives
  /\ \E r \in ArchivableCopy(o) : r.hash \in payload /\ Begin(o, "a_write", r)

ArchiveWrite(o) ==
  /\ At(o, "a_write")
  /\ blobs' = blobs \cup {[obj |-> o, row |-> op[o].row]}
  /\ Goto(o, "a_record")
  /\ UNCHANGED <<storeVars, payload, lastId, before, budget>>

\* Nothing is published, or the published payload is removed again.
ArchiveWriteFails(o) ==
  /\ At(o, "a_write")
  /\ Spend("backend")
  /\ Return(o)
  /\ UNCHANGED <<storeVars, physVars, lastId, before>>

ArchiveRecord(o) ==
  /\ At(o, "a_record")
  /\ records' = [records EXCEPT ![o] = Append(@, op[o].row)]
  /\ Goto(o, "a_object")
  /\ UNCHANGED <<object, rows, refs, physVars, lastId, before, budget>>

ArchiveObject(o) ==
  /\ At(o, "a_object")
  /\ SetObject(o, "ARCHIVED", object[o].zip)
  /\ Return(o)
  /\ UNCHANGED <<rows, refs, records, physVars, lastId, before, budget>>

\* Compensation: the record, then the archive payload.
ArchiveUnrecord(o) ==
  /\ At(o, "a_fix_record")
  /\ records' = [records EXCEPT ![o] = SubSeq(@, 1, Len(@) - 1)]
  /\ Goto(o, "a_fix_blob")
  /\ UNCHANGED <<object, rows, refs, physVars, lastId, before, budget>>

ArchiveUnblob(o) ==
  /\ At(o, "a_fix_blob")
  /\ \/ blobs' = blobs \ {[obj |-> o, row |-> op[o].row]} /\ UNCHANGED budget
     \/ Spend("backend") /\ UNCHANGED blobs
  /\ Return(o)
  /\ UNCHANGED <<storeVars, payload, lastId, before>>

-----------------------------------------------------------------------------
(* restore. *)

LastRecord(o) == records[o][Len(records[o])]

\* The latest record can be read and yields the plain content.
Restorable(o) ==
  /\ records[o] # <<>>
  /\ [obj |-> o, row |-> LastRecord(o)] \in blobs
  /\ LastRecord(o).hash = "plain" \/ object[o].zip

RestoreBegin(o) ==
  /\ object[o].state = "ARCHIVED"
  /\ lastId[o] < MaxRows
  /\ Restorable(o)
  /\ Begin(o, "r_hot", LastRecord(o))

\* A replica that still has the content is not stored again.  Of the audit
\* entry that follows nothing depends.
RestoreHot(o) ==
  /\ At(o, "r_hot")
  /\ IF Plain(o) = {}
     THEN Goto(o, "r_guard") /\ UNCHANGED object
     ELSE /\ IF "plain" \in payload THEN SetObject(o, "WARM", FALSE)
             ELSE UNCHANGED object
          /\ Return(o)
  /\ UNCHANGED <<rows, refs, records, physVars, lastId, before, budget>>

RestoreGuard(o) == At(o, "r_guard") /\ Guard(o, "r_share", {"plain"})

RestoreShare(o) ==
  /\ At(o, "r_share")
  /\ IF refs["plain"] = 0 THEN Goto(o, "r_write")
     ELSE IF "plain" \in payload
     THEN Goto(o, "r_ref")
     ELSE Return(o)
  /\ UNCHANGED <<storeVars, physVars, lastId, before, budget>>

RestoreWrite(o) ==
  /\ At(o, "r_write")
  /\ \/ /\ payload' = payload \cup {"plain"}
        /\ op' = [op EXCEPT ![o].pc = "r_ref", ![o].wrote = TRUE]
        /\ UNCHANGED budget
     \/ /\ Spend("backend")
        /\ payload' = payload \cup {"plain"} \/ UNCHANGED payload
        /\ Return(o)
  /\ UNCHANGED <<storeVars, blobs, lastId, before>>

RestoreRef(o) ==
  /\ At(o, "r_ref")
  /\ Acquire("plain")
  /\ Did(o, "ref", "r_row")
  /\ UNCHANGED <<object, rows, records, physVars, lastId, before, budget>>

RestoreRow(o) ==
  /\ At(o, "r_row")
  /\ AddRow(o, NewRow(o, "plain"))
  /\ lastId' = [lastId EXCEPT ![o] = @ + 1]
  /\ Did(o, "row", "r_object")
  /\ UNCHANGED <<object, refs, records, physVars, before, budget>>

RestoreObject(o) ==
  /\ At(o, "r_object")
  /\ SetObject(o, "WARM", FALSE)
  /\ Did(o, "object", "r_audit")
  /\ UNCHANGED <<rows, refs, records, physVars, lastId, before, budget>>

RestoreAudit(o) ==
  /\ At(o, "r_audit")
  /\ Return(o)
  /\ UNCHANGED <<storeVars, physVars, lastId, before, budget>>

RestoreUndoObject(o) ==
  /\ At(o, "r_fix_object")
  /\ IF "object" \in op[o].done
     THEN object' = [object EXCEPT ![o] = before[o]] ELSE UNCHANGED object
  /\ Goto(o, "r_fix_row")
  /\ UNCHANGED <<rows, refs, records, physVars, lastId, before, budget>>

RestoreUndoRow(o) ==
  /\ At(o, "r_fix_row")
  /\ IF "row" \in op[o].done THEN DropRow(o, [id |-> lastId[o], hash |-> "plain"])
     ELSE UNCHANGED rows
  /\ Goto(o, "r_fix_ref")
  /\ UNCHANGED <<object, refs, records, physVars, lastId, before, budget>>

\* The payload goes with its last reference.
RestoreUndoRef(o) ==
  /\ At(o, "r_fix_ref")
  /\ IF "ref" \in op[o].done
     THEN /\ Unref("plain")
          /\ IF refs["plain"] = 1 THEN Goto(o, "r_fix_payload") ELSE Return(o)
     ELSE /\ UNCHANGED refs
          /\ IF op[o].wrote THEN Goto(o, "r_fix_payload") ELSE Return(o)
  /\ UNCHANGED <<object, rows, records, physVars, lastId, before, budget>>

RestoreUndoPayload(o) ==
  /\ At(o, "r_fix_payload")
  /\ \/ payload' = payload \ {"plain"} /\ UNCHANGED budget
     \/ Spend("backend") /\ UNCHANGED payload
  /\ Return(o)
  /\ UNCHANGED <<storeVars, blobs, lastId, before>>

-----------------------------------------------------------------------------
(* Failures. *)

\* Where the error of a statement leads: out of the handler, to the start of
\* the compensation, or, in the compensation, to its end.
ErrorTarget(o) ==
  LET pc == op[o].pc
  IN  CASE pc \in {"c_ref", "c_unref", "c_unrow", "c_row", "c_object"} -> "c_fix_row"
        [] pc \in {"c_fix_row", "c_fix_unrow", "c_fix_unref", "c_fix_ref"} -> "c_fix_payload"
        [] pc = "a_record" -> "a_fix_blob"
        [] pc = "a_object" -> "a_fix_record"
        [] pc \in {"r_ref", "r_row", "r_object", "r_audit"} -> "r_fix_object"
        [] OTHER -> "return"

Statements ==
  {"c_share", "c_old", "c_ref", "c_unref", "c_unrow", "c_row", "c_object",
   "c_fix_row", "c_fix_unrow", "c_fix_unref", "c_fix_ref", "a_record", "a_object",
   "a_fix_record", "r_hot", "r_share", "r_ref", "r_row", "r_object", "r_audit",
   "r_fix_object", "r_fix_row", "r_fix_ref"}

\* A statement fails, or with_inner refuses it.
StoreFails(o) ==
  /\ op[o] # None /\ op[o].pc \in Statements
  /\ Spend("store")
  /\ IF ErrorTarget(o) = "return" THEN Return(o) ELSE Goto(o, ErrorTarget(o))
  /\ UNCHANGED <<storeVars, physVars, lastId, before>>

RowsWith(h) ==
  {x \in Objects \X (UNION {rows[o] : o \in Objects}) :
     x[2] \in rows[x[1]] /\ x[2].hash = h}

\* The process ends.  The next one counts the references again before it
\* serves (repair_dedup_counts), and knows of no operation.
Crash ==
  /\ Spend("crash")
  /\ op' = [o \in Objects |-> None]
  /\ refs' = [h \in Hashes |-> Cardinality(RowsWith(h))]
  /\ UNCHANGED <<object, rows, records, physVars, lastId, before>>

-----------------------------------------------------------------------------
Compress(o) ==
  \/ CompressBegin(o) \/ CompressGuard(o) \/ CompressShare(o) \/ CompressWrite(o)
  \/ CompressWriteFails(o) \/ CompressOld(o) \/ CompressRef(o) \/ CompressUnref(o)
  \/ CompressUnrow(o) \/ CompressRow(o) \/ CompressObject(o) \/ CompressDelete(o)
  \/ CompressUndoRow(o) \/ CompressUndoUnrow(o) \/ CompressUndoUnref(o)
  \/ CompressUndoRef(o) \/ CompressUndoPayload(o)

Archive(o) ==
  \/ ArchiveBegin(o) \/ ArchiveWrite(o) \/ ArchiveWriteFails(o)
  \/ ArchiveRecord(o) \/ ArchiveObject(o)
  \/ ArchiveUnrecord(o) \/ ArchiveUnblob(o)

Restore(o) ==
  \/ RestoreBegin(o) \/ RestoreHot(o) \/ RestoreGuard(o) \/ RestoreShare(o)
  \/ RestoreWrite(o) \/ RestoreRef(o) \/ RestoreRow(o) \/ RestoreObject(o)
  \/ RestoreAudit(o) \/ RestoreUndoObject(o) \/ RestoreUndoRow(o)
  \/ RestoreUndoRef(o) \/ RestoreUndoPayload(o)

\* with_inner holds the lock of the store for a whole closure: between its
\* statements no other request takes a step.
InClosure(o) ==
  op[o] # None /\ op[o].pc \in
    {"c_unref", "c_unrow", "c_row", "c_object", "c_fix_unrow", "c_fix_unref",
     "c_fix_ref", "r_row", "r_object", "r_audit", "r_fix_row", "r_fix_ref"}

Next ==
  \/ \E o \in Objects :
       /\ \A p \in Objects \ {o} : ~InClosure(p)
       /\ Compress(o) \/ Archive(o) \/ Restore(o) \/ GuardTimesOut(o) \/ StoreFails(o)
  \/ Crash

Spec == Init /\ [][Next]_vars

-----------------------------------------------------------------------------
(* Properties. *)

(* No replica row points at a missing payload, with one failing statement,    *)
(* one failing backend call and a crash anywhere: compress and restore write  *)
(* a payload before its row and delete it after, and only with its last       *)
(* reference.  (A second statement that fails in the compensation breaks      *)
(* this, coordinator.rs:2224.)                                                *)
PayloadOfEveryRow == \A o \in Objects : \A r \in rows[o] : r.hash \in payload

(* The reference count of a payload that no operation has guarded is the      *)
(* number of replica rows with its content: a compensation all of whose       *)
(* statements succeed gives back exactly what its closure took.               *)
RefcountExact ==
  \A h \in Hashes \ Held : refs[h] = Cardinality(RowsWith(h))

HasCopy(o) == ArchivableCopy(o) # {}

(* An operation ends with a replica that the object's flags describe, so that *)
(* the object can be read, compressed or archived again.  The one exception   *)
(* is a crash between the two row statements of compress or before their      *)
(* compensation: it loses the row, and recovery does not bring it back.       *)
CopyLostOnlyInSwap ==
  [][\A o \in Objects :
       (op[o] # None /\ op'[o] = None /\ ~HasCopy(o)')
         => /\ budget'.crash < budget.crash
            /\ op[o].pc \in {"c_row", "c_object", "c_fix_row", "c_fix_unrow"}]_vars

(* An archived object can be restored from its latest record, also after      *)
(* earlier records, failed archives and crashes: the payload is there and has *)
(* the form that the object's flags say.                                      *)
ArchiveRestorable ==
  \A o \in Objects :
    op[o] = None /\ object[o].state = "ARCHIVED" => Restorable(o)
==============================================================================
