-------------------------- MODULE Transform_proofs --------------------------
(***************************************************************************)
(* What compress, archive and restore keep for any number of objects,         *)
(* archives, crashes and failing statements and backend calls.               *)
(*                                                                           *)
(* First, an archived object has its payload, whatever fails.  Then the      *)
(* books: reference counts, rows, payloads and the flags of the object row   *)
(* agree, if no statement of a compensation fails; with one failing          *)
(* statement that is no assumption.                                          *)
(***************************************************************************)
EXTENDS Transform, SequenceTheorems, FiniteSetTheorems, TLAPS

Busy(o, pcs) == op[o] # None /\ op[o].pc \in pcs

ObjectRow == [state : States, zip : BOOLEAN]
Fields == {"pc", "row", "old", "wrote", "done", "guard"}

\* The shape of what the operations read and write, reference counts aside.
Shape ==
  /\ object \in [Objects -> ObjectRow] /\ before \in [Objects -> ObjectRow]
  /\ records \in [Objects -> Seq(Row)]
  /\ rows \in [Objects -> SUBSET Row]
  /\ lastId \in [Objects -> Nat]
  /\ DOMAIN op = Objects
  /\ \A o \in Objects : op[o] # None => DOMAIN op[o] = Fields /\ op[o].row \in Row

\* The latest record of the object can be read, and understood with that object row.
RestorableAs(o, row) ==
  /\ records[o] # <<>>
  /\ [obj |-> o, row |-> LastRecord(o)] \in blobs
  /\ LastRecord(o).hash = "plain" \/ row.zip

\* An object is archived only with a payload to restore it from, also while an
\* operation works on it.
ArchivedHasPayload(o) ==
  object[o].state = "ARCHIVED" => RestorableAs(o, object[o])

\* archive works on an object that is not archived yet, with a replica in the form
\* the object row says; its payload is there before its record, and its record is
\* the last one when the object row follows.
ArchiveOrder(o) ==
  /\ Busy(o, ArchivePCs) =>
       /\ object[o].state # "ARCHIVED"
       /\ op[o].row.hash = "plain" \/ object[o].zip
  /\ Busy(o, {"a_record", "a_object"}) => [obj |-> o, row |-> op[o].row] \in blobs
  /\ Busy(o, {"a_object"}) => records[o] # <<>> /\ LastRecord(o) = op[o].row

\* restore works on an object that was restorable when it began, and still is with
\* the row that its compensation writes back.
RestoreReturns(o) == Busy(o, RestorePCs) => RestorableAs(o, before[o])

Sound(o) == ArchivedHasPayload(o) /\ ArchiveOrder(o) /\ RestoreReturns(o)

Inv == Shape /\ \A o \in Objects : Sound(o)

-----------------------------------------------------------------------------
(* Objects that were just registered satisfy the invariant.                  *)
LEMMA InitInv == Init => Inv
<1> SUFFICES ASSUME Init PROVE Inv
  OBVIOUS
<1>1. object \in [Objects -> ObjectRow] /\ before \in [Objects -> ObjectRow]
  BY DEF Init, ObjectRow, States
<1>2. /\ records \in [Objects -> Seq(Row)] /\ rows \in [Objects -> SUBSET Row]
      /\ lastId \in [Objects -> Nat] /\ DOMAIN op = Objects
  BY DEF Init, FirstRow, Row, Hashes
<1>3. \A o \in Objects : op[o] = None /\ object[o].state # "ARCHIVED"
  BY DEF Init
<1> QED
  BY <1>1, <1>2, <1>3 DEF Inv, Shape, Sound, ArchivedHasPayload, ArchiveOrder,
     RestoreReturns, Busy

-----------------------------------------------------------------------------
(* How an operation moves. *)

\* The operations on the other objects are where they were.
Others(o) ==
  /\ DOMAIN op' = Objects
  /\ \A p \in Objects \ {o} : op'[p] = op[p]

\* The operation goes on at l, with the replica it works on.
Moved(o, l) ==
  /\ Others(o)
  /\ DOMAIN op'[o] = Fields /\ op'[o].row = op[o].row
  /\ op'[o].pc = l

\* The operation is over.
Left(o) == Others(o) /\ op'[o] = None

(* Goto and Did move the operation and leave its replica alone.              *)
LEMMA Moves ==
  ASSUME Shape, NEW o \in Objects, op[o] # None, NEW l, NEW s,
         Goto(o, l) \/ Did(o, s, l)
  PROVE  Moved(o, l)
<1>1. DOMAIN op = Objects /\ DOMAIN op[o] = Fields
  BY DEF Shape
<1>2. CASE Goto(o, l)
  BY <1>1, <1>2 DEF Goto, Moved, Others, Fields
<1>3. CASE Did(o, s, l)
  <2>1. op' = [op EXCEPT ![o] = [[op[o] EXCEPT !.pc = l] EXCEPT
                                   !.done = op[o].done \cup {s}]]
    BY <1>1, <1>3 DEF Did, Fields
  <2> QED
    BY <1>1, <2>1 DEF Moved, Others, Fields
<1> QED
  BY <1>2, <1>3

(* So do the steps that note a guard, a payload written or a count read.     *)
LEMMA MovesNoting ==
  ASSUME Shape, NEW o \in Objects, op[o] # None, NEW l, NEW x,
         \/ op' = [op EXCEPT ![o].pc = l, ![o].guard = x]
         \/ op' = [op EXCEPT ![o].pc = l, ![o].wrote = x]
         \/ op' = [op EXCEPT ![o].pc = l, ![o].old = x]
  PROVE  Moved(o, l)
<1>1. DOMAIN op = Objects /\ DOMAIN op[o] = Fields
  BY DEF Shape
<1>2. \E f \in {"guard", "wrote", "old"} :
        op' = [op EXCEPT ![o] = [[op[o] EXCEPT !.pc = l] EXCEPT ![f] = x]]
  BY <1>1 DEF Fields
<1> QED
  BY <1>1, <1>2 DEF Moved, Others, Fields

(* Return ends the operation.                                                *)
LEMMA Leaves ==
  ASSUME Shape, NEW o \in Objects, Return(o)
  PROVE  Left(o)
  BY DEF Shape, Return, Left, Others

(* An object that no step of the operation touched stays sound.              *)
LEMMA Untouched ==
  ASSUME NEW p \in Objects, Sound(p), op'[p] = op[p],
         object'[p] = object[p], before'[p] = before[p], records'[p] = records[p],
         \A r : [obj |-> p, row |-> r] \in blobs => [obj |-> p, row |-> r] \in blobs'
  PROVE  Sound(p)'
  BY DEF Sound, ArchivedHasPayload, ArchiveOrder, RestoreReturns, RestorableAs,
     LastRecord, Busy

-----------------------------------------------------------------------------
(* compress. *)

\* A step of o that begins or continues neither archive nor restore, and makes
\* nothing archived.
Quiet(o) ==
  /\ UNCHANGED <<records, blobs, before>>
  /\ Left(o) \/ \E l \in CompressPCs : Moved(o, l)
  /\ \/ UNCHANGED object
     \/ /\ object'[o].state # "ARCHIVED"
        /\ \A p \in Objects \ {o} : object'[p] = object[p]

(* A quiet step keeps every object sound.                                    *)
LEMMA QuietSound ==
  ASSUME Inv, NEW o \in Objects, Quiet(o)
  PROVE  \A p \in Objects : Sound(p)'
<1>1. \A p \in Objects \ {o} : Sound(p)'
  BY Untouched DEF Inv, Quiet, Left, Moved, Others
<1>2. ~Busy(o, ArchivePCs)' /\ ~Busy(o, RestorePCs)'
  BY DEF Quiet, Left, Moved, Busy, ArchivePCs, RestorePCs, CompressPCs
<1>3. ArchivedHasPayload(o)'
  BY DEF Inv, Sound, Quiet, ArchivedHasPayload, RestorableAs, LastRecord
<1>4. Sound(o)'
  BY <1>2, <1>3 DEF Sound, ArchiveOrder, RestoreReturns, Busy, ArchivePCs
<1> QED
  BY <1>1, <1>4

(* Every step of compress after its first is quiet.                          *)
LEMMA CompressQuiet ==
  ASSUME Inv, NEW o \in Objects, Compress(o), ~CompressBegin(o)
  PROVE  Quiet(o)
<1>0. Shape
  BY DEF Inv
<1>1. UNCHANGED <<records, blobs, before>>
  BY DEF Compress, CompressGuard, CompressShare, CompressWrite, CompressWriteFails,
     CompressOld, CompressRef, CompressUnref, CompressUnrow, CompressRow,
     CompressObject, CompressDelete, CompressUndoRow, CompressUndoUnrow,
     CompressUndoUnref, CompressUndoRef, CompressUndoPayload, Guard, storeVars,
     physVars
<1>2. CASE CompressObject(o)
  <2>1. object' = [object EXCEPT ![o] = [state |-> "COMPRESSED", zip |-> TRUE]]
    BY <1>2 DEF CompressObject, SetObject
  <2>2. /\ object'[o].state # "ARCHIVED"
        /\ \A p \in Objects \ {o} : object'[p] = object[p]
    BY <1>0, <2>1 DEF Shape
  <2>3. Left(o) \/ Moved(o, "c_delete")
    BY <1>0, <1>2, Moves, Leaves DEF CompressObject, At
  <2> QED
    BY <1>1, <2>2, <2>3 DEF Quiet, CompressPCs
<1>3. CASE ~CompressObject(o)
  <2>1. UNCHANGED object
    BY <1>3 DEF Compress, CompressGuard, CompressShare, CompressWrite,
       CompressWriteFails, CompressOld, CompressRef, CompressUnref, CompressUnrow,
       CompressRow, CompressDelete, CompressUndoRow, CompressUndoUnrow,
       CompressUndoUnref, CompressUndoRef, CompressUndoPayload, Guard, storeVars
  <2>2. op[o] # None
    BY <1>3 DEF Compress, CompressGuard, CompressShare, CompressWrite,
       CompressWriteFails, CompressOld, CompressRef, CompressUnref, CompressUnrow,
       CompressRow, CompressDelete, CompressUndoRow, CompressUndoUnrow,
       CompressUndoUnref, CompressUndoRef, CompressUndoPayload, At
  <2>3. \/ Return(o)
        \/ \E l \in CompressPCs : Goto(o, l) \/ \E s \in Metadata : Did(o, s, l)
        \/ \E l \in CompressPCs : \E x :
             \/ op' = [op EXCEPT ![o].pc = l, ![o].guard = x]
             \/ op' = [op EXCEPT ![o].pc = l, ![o].wrote = x]
             \/ op' = [op EXCEPT ![o].pc = l, ![o].old = x]
    <3>1. CASE CompressGuard(o) \/ CompressWrite(o) \/ CompressOld(o)
      BY <3>1 DEF CompressGuard, CompressWrite, CompressOld, Guard, CompressPCs
    <3>2. CASE CompressShare(o) \/ CompressWriteFails(o) \/ CompressDelete(o)
               \/ CompressUndoPayload(o)
      BY <3>2 DEF CompressShare, CompressWriteFails, CompressDelete,
         CompressUndoPayload, CompressPCs
    <3>3. CASE CompressRef(o) \/ CompressUnref(o) \/ CompressUnrow(o) \/ CompressRow(o)
      BY <3>3 DEF CompressRef, CompressUnref, CompressUnrow, CompressRow, CompressPCs,
         Metadata
    <3>4. CASE CompressUndoRow(o) \/ CompressUndoUnrow(o) \/ CompressUndoUnref(o)
               \/ CompressUndoRef(o)
      BY <3>4 DEF CompressUndoRow, CompressUndoUnrow, CompressUndoUnref,
         CompressUndoRef, CompressPCs
    <3> QED
      BY <1>3, <3>1, <3>2, <3>3, <3>4 DEF Compress
  <2>4. Left(o) \/ \E l \in CompressPCs : Moved(o, l)
    BY <1>0, <2>2, <2>3, Moves, MovesNoting, Leaves
  <2> QED
    BY <1>1, <2>1, <2>4 DEF Quiet
<1> QED
  BY <1>2, <1>3

-----------------------------------------------------------------------------
(* restore. *)

\* A step of restore on o: the object becomes warm, or what it was.
Restores(o) ==
  /\ Busy(o, RestorePCs)
  /\ UNCHANGED <<records, blobs, before>>
  /\ Left(o) \/ \E l \in RestorePCs : Moved(o, l)
  /\ \/ UNCHANGED object
     \/ /\ object'[o].state # "ARCHIVED" \/ object'[o] = before[o]
        /\ \A p \in Objects \ {o} : object'[p] = object[p]

(* A step of restore keeps every object sound.                               *)
LEMMA RestoresSound ==
  ASSUME Inv, NEW o \in Objects, Restores(o)
  PROVE  \A p \in Objects : Sound(p)'
<1>1. \A p \in Objects \ {o} : Sound(p)'
  BY Untouched DEF Inv, Restores, Left, Moved, Others
<1>2. ~Busy(o, ArchivePCs)'
  BY DEF Restores, Left, Moved, Busy, ArchivePCs, RestorePCs
<1>3. RestorableAs(o, before[o])' /\ RestorableAs(o, before[o])
  BY DEF Inv, Sound, RestoreReturns, Restores, RestorableAs, LastRecord
<1>4. ArchivedHasPayload(o)'
  BY <1>3 DEF Inv, Sound, Restores, ArchivedHasPayload, RestorableAs, LastRecord
<1>5. Sound(o)'
  BY <1>2, <1>3, <1>4 DEF Sound, ArchiveOrder, RestoreReturns, Busy, ArchivePCs
<1> QED
  BY <1>1, <1>5

(* Every step of restore after its first is one.                             *)
LEMMA RestoreRestores ==
  ASSUME Inv, NEW o \in Objects, Restore(o), ~RestoreBegin(o)
  PROVE  Restores(o)
<1>0. Shape
  BY DEF Inv
<1>1. UNCHANGED <<records, blobs, before>>
  BY DEF Restore, RestoreHot, RestoreGuard, RestoreShare, RestoreWrite, RestoreRef,
     RestoreRow, RestoreObject, RestoreAudit, RestoreUndoObject, RestoreUndoRow,
     RestoreUndoRef, RestoreUndoPayload, Guard, storeVars, physVars
<1>2. Busy(o, RestorePCs)
  BY DEF Restore, RestoreHot, RestoreGuard, RestoreShare, RestoreWrite, RestoreRef,
     RestoreRow, RestoreObject, RestoreAudit, RestoreUndoObject, RestoreUndoRow,
     RestoreUndoRef, RestoreUndoPayload, At, Busy, RestorePCs
<1>3. \/ UNCHANGED object
      \/ /\ object'[o].state # "ARCHIVED" \/ object'[o] = before[o]
         /\ \A p \in Objects \ {o} : object'[p] = object[p]
  <2>1. \/ UNCHANGED object \/ SetObject(o, "WARM", FALSE)
        \/ object' = [object EXCEPT ![o] = before[o]]
    BY DEF Restore, RestoreHot, RestoreGuard, RestoreShare, RestoreWrite, RestoreRef,
       RestoreRow, RestoreObject, RestoreAudit, RestoreUndoObject, RestoreUndoRow,
       RestoreUndoRef, RestoreUndoPayload, Guard, storeVars
  <2> QED
    BY <1>0, <2>1 DEF Shape, SetObject
<1>4. \/ Return(o)
      \/ \E l \in RestorePCs : Goto(o, l) \/ \E s \in Metadata : Did(o, s, l)
      \/ \E l \in RestorePCs : \E x :
           \/ op' = [op EXCEPT ![o].pc = l, ![o].guard = x]
           \/ op' = [op EXCEPT ![o].pc = l, ![o].wrote = x]
           \/ op' = [op EXCEPT ![o].pc = l, ![o].old = x]
  <2>1. CASE RestoreGuard(o) \/ RestoreWrite(o)
    BY <2>1 DEF RestoreGuard, RestoreWrite, Guard, RestorePCs
  <2>2. CASE RestoreHot(o) \/ RestoreShare(o) \/ RestoreAudit(o) \/ RestoreUndoPayload(o)
    BY <2>2 DEF RestoreHot, RestoreShare, RestoreAudit, RestoreUndoPayload, RestorePCs
  <2>3. CASE RestoreRef(o) \/ RestoreRow(o) \/ RestoreObject(o)
    BY <2>3 DEF RestoreRef, RestoreRow, RestoreObject, RestorePCs, Metadata
  <2>4. CASE RestoreUndoObject(o) \/ RestoreUndoRow(o) \/ RestoreUndoRef(o)
    BY <2>4 DEF RestoreUndoObject, RestoreUndoRow, RestoreUndoRef, RestorePCs
  <2> QED
    BY <2>1, <2>2, <2>3, <2>4 DEF Restore
<1>5. Left(o) \/ \E l \in RestorePCs : Moved(o, l)
  BY <1>0, <1>2, <1>4, Moves, MovesNoting, Leaves DEF Busy
<1> QED
  BY <1>1, <1>2, <1>3, <1>5 DEF Restores

-----------------------------------------------------------------------------
(* archive. *)

(* The payload is written before its record, and the record before the       *)
(* object row says ARCHIVED; the compensation takes payload and record away  *)
(* only while it does not.                                                   *)
LEMMA ArchiveSound ==
  ASSUME Inv, NEW o \in Objects, Archive(o), ~ArchiveBegin(o)
  PROVE  \A p \in Objects : Sound(p)'
<1>0. Shape /\ Sound(o)
  BY DEF Inv
<1> DEFINE blob == [obj |-> o, row |-> op[o].row]
<1>1. /\ Busy(o, ArchivePCs)
      /\ object[o].state # "ARCHIVED"
      /\ op[o].row.hash = "plain" \/ object[o].zip
      /\ op[o].row \in Row
  <2>1. Busy(o, ArchivePCs)
    BY DEF Archive, ArchiveWrite, ArchiveWriteFails, ArchiveRecord, ArchiveObject,
       ArchiveUnrecord, ArchiveUnblob, At, Busy, ArchivePCs
  <2> QED
    BY <1>0, <2>1 DEF Sound, ArchiveOrder, Shape, Busy
<1>2. Left(o) \/ \E l \in ArchivePCs : Moved(o, l)
  <2>1. Return(o) \/ \E l \in ArchivePCs : Goto(o, l)
    BY DEF Archive, ArchiveWrite, ArchiveWriteFails, ArchiveRecord, ArchiveObject,
       ArchiveUnrecord, ArchiveUnblob, ArchivePCs
  <2> QED
    BY <1>0, <1>1, <2>1, Moves, Leaves DEF Busy
<1>3. UNCHANGED before
  BY DEF Archive, ArchiveWrite, ArchiveWriteFails, ArchiveRecord, ArchiveObject,
     ArchiveUnrecord, ArchiveUnblob
<1>4. ~Busy(o, RestorePCs)'
  BY <1>2 DEF Left, Moved, Busy, ArchivePCs, RestorePCs
<1>5. \A p \in Objects \ {o} : Sound(p)'
  <2>1. \A p \in Objects \ {o} : records'[p] = records[p] /\ object'[p] = object[p]
    BY <1>0 DEF Archive, ArchiveWrite, ArchiveWriteFails, ArchiveRecord, ArchiveObject,
       ArchiveUnrecord, ArchiveUnblob, SetObject, storeVars, Shape
  <2>2. \A p \in Objects \ {o} : \A r :
          [obj |-> p, row |-> r] \in blobs => [obj |-> p, row |-> r] \in blobs'
    BY DEF Archive, ArchiveWrite, ArchiveWriteFails, ArchiveRecord, ArchiveObject,
       ArchiveUnrecord, ArchiveUnblob, physVars
  <2> QED
    BY <1>2, <1>3, <2>1, <2>2, Untouched DEF Inv, Left, Moved, Others
<1>6. CASE ArchiveWrite(o)
  <2>1. Moved(o, "a_record") /\ UNCHANGED <<object, records>> /\ blob \in blobs'
    BY <1>0, <1>1, <1>6, Moves DEF ArchiveWrite, Busy, storeVars
  <2>2. Sound(o)'
    BY <1>1, <1>4, <2>1 DEF Sound, ArchivedHasPayload, ArchiveOrder, RestoreReturns,
       Busy, Moved
  <2> QED
    BY <1>5, <2>2
<1>7. CASE ArchiveRecord(o)
  <2>1. /\ Moved(o, "a_object") /\ UNCHANGED <<object, blobs>> /\ blob \in blobs
        /\ records' = [records EXCEPT ![o] = Append(records[o], op[o].row)]
    BY <1>0, <1>1, <1>7, Moves DEF ArchiveRecord, Busy, physVars, Sound, ArchiveOrder,
       At
  <2>2. records'[o] = Append(records[o], op[o].row)
    BY <1>0, <2>1 DEF Shape
  <2>3. records'[o] # <<>> /\ records'[o][Len(records'[o])] = op[o].row
    BY <1>0, <1>1, <2>2, AppendProperties DEF Shape
  <2>4. Sound(o)'
    BY <1>1, <1>4, <2>1, <2>3 DEF Sound, ArchivedHasPayload, ArchiveOrder,
       RestoreReturns, Busy, Moved, LastRecord
  <2> QED
    BY <1>5, <2>4
<1>8. CASE ArchiveObject(o)
  <2>1. /\ Left(o) /\ UNCHANGED <<records, blobs>>
        /\ records[o] # <<>> /\ LastRecord(o) = op[o].row /\ blob \in blobs
    BY <1>0, <1>8, Leaves DEF ArchiveObject, Busy, At, physVars, Sound, ArchiveOrder
  <2>2. object'[o].zip = object[o].zip
    BY <1>0, <1>8 DEF ArchiveObject, SetObject, Shape
  <2>3. ArchivedHasPayload(o)'
    BY <1>1, <2>1, <2>2 DEF ArchivedHasPayload, RestorableAs, LastRecord
  <2>4. Sound(o)'
    BY <2>1, <2>3 DEF Sound, ArchiveOrder, RestoreReturns, Busy, Left
  <2> QED
    BY <1>5, <2>4
<1>9. CASE ArchiveWriteFails(o) \/ ArchiveUnrecord(o) \/ ArchiveUnblob(o)
  <2>1. /\ Left(o) \/ Moved(o, "a_fix_blob")
        /\ UNCHANGED object
    BY <1>0, <1>1, <1>9, Moves, Leaves DEF ArchiveWriteFails, ArchiveUnrecord,
       ArchiveUnblob, Busy, storeVars
  <2>2. Sound(o)'
    BY <1>1, <1>4, <2>1 DEF Sound, ArchivedHasPayload, ArchiveOrder, RestoreReturns,
       Busy, Moved, Left
  <2> QED
    BY <1>5, <2>2
<1> QED
  BY <1>6, <1>7, <1>8, <1>9 DEF Archive

-----------------------------------------------------------------------------
(* Beginnings and failures. *)

(* Begin notes the replica and the object row it found.                      *)
LEMMA Begins ==
  ASSUME Shape, NEW o \in Objects, NEW l, NEW r \in Row, Begin(o, l, r)
  PROVE  /\ Others(o) /\ DOMAIN op'[o] = Fields /\ op'[o].row = r /\ op'[o].pc = l
         /\ before' = [before EXCEPT ![o] = object[o]]
         /\ UNCHANGED <<storeVars, physVars, lastId>>
<1>1. DOMAIN op = Objects
  BY DEF Shape
<1> QED
  BY <1>1 DEF Begin, Others, Fields

(* An operation begins on an object in the state it needs.                   *)
LEMMA BeginSound ==
  ASSUME Inv, NEW o \in Objects,
         CompressBegin(o) \/ ArchiveBegin(o) \/ RestoreBegin(o)
  PROVE  \A p \in Objects : Sound(p)'
<1>0. Shape /\ Sound(o) /\ before \in [Objects -> ObjectRow]
  BY DEF Inv, Shape
<1>1. \E l, r : /\ Begin(o, l, r) /\ r \in Row
                /\ \/ l = "c_guard"
                   \/ /\ l = "a_write" /\ object[o].state # "ARCHIVED"
                      /\ r.hash = "plain" \/ object[o].zip
                   \/ l = "r_hot" /\ Restorable(o)
  <2>1. CASE CompressBegin(o)
    BY <1>0, <2>1 DEF CompressBegin, Plain, Shape
  <2>2. CASE ArchiveBegin(o)
    BY <1>0, <2>2 DEF ArchiveBegin, ArchivableCopy, Shape
  <2>3. CASE RestoreBegin(o)
    <3>1. LastRecord(o) \in Row
      <4>1. records[o] \in Seq(Row) /\ records[o] # <<>>
        BY <1>0, <2>3 DEF Shape, RestoreBegin, Restorable
      <4> QED
        BY <4>1 DEF LastRecord
    <3> QED
      BY <2>3, <3>1 DEF RestoreBegin
  <2> QED
    BY <2>1, <2>2, <2>3
<1>2. PICK l, r : /\ Begin(o, l, r) /\ r \in Row
                  /\ \/ l = "c_guard"
                     \/ /\ l = "a_write" /\ object[o].state # "ARCHIVED"
                        /\ r.hash = "plain" \/ object[o].zip
                     \/ l = "r_hot" /\ Restorable(o)
  BY <1>1
<1>3. /\ Others(o) /\ op'[o].row = r /\ op'[o].pc = l
      /\ before'[o] = object[o] /\ \A p \in Objects \ {o} : before'[p] = before[p]
      /\ UNCHANGED <<object, records, blobs>>
  BY <1>0, <1>2, Begins DEF storeVars, physVars
<1>4. \A p \in Objects \ {o} : Sound(p)'
  BY <1>3, Untouched DEF Inv, Others
<1>5. ArchivedHasPayload(o)'
  BY <1>0, <1>3 DEF Sound, ArchivedHasPayload, RestorableAs, LastRecord
<1>6. ArchiveOrder(o)'
  BY <1>2, <1>3 DEF ArchiveOrder, Busy, ArchivePCs
<1>7. RestoreReturns(o)'
  BY <1>2, <1>3 DEF RestoreReturns, Busy, RestorePCs, Restorable, RestorableAs,
     LastRecord
<1> QED
  BY <1>4, <1>5, <1>6, <1>7 DEF Sound

(* An operation that leaves without having done anything keeps every object  *)
(* sound.                                                                    *)
LEMMA LeavesSound ==
  ASSUME Inv, NEW o \in Objects, Left(o), UNCHANGED <<object, records, blobs, before>>
  PROVE  \A p \in Objects : Sound(p)'
  BY QuietSound DEF Quiet

(* A failing statement leads to the compensation of its own handler.         *)
LEMMA FailsSound ==
  ASSUME Inv, NEW o \in Objects, StoreFails(o)
  PROVE  \A p \in Objects : Sound(p)'
<1>0. Shape /\ Sound(o) /\ op[o] # None
      /\ UNCHANGED <<object, records, blobs, before>>
  BY DEF Inv, StoreFails, storeVars, physVars
<1>1. CASE ErrorTarget(o) = "return"
  BY <1>0, <1>1, Leaves, LeavesSound DEF StoreFails
<1>2. CASE ErrorTarget(o) # "return"
  <2>1. Moved(o, ErrorTarget(o))
    BY <1>0, <1>2, Moves DEF StoreFails
  <2>2. CASE op[o].pc \in CompressPCs
    <3>1. ErrorTarget(o) \in CompressPCs
      BY <1>2, <2>2 DEF ErrorTarget, CompressPCs
    <3> QED
      BY <1>0, <2>1, <3>1, QuietSound DEF Quiet
  <2>3. CASE op[o].pc \in RestorePCs
    <3>1. ErrorTarget(o) \in RestorePCs
      BY <1>2, <2>3 DEF ErrorTarget, RestorePCs
    <3> QED
      BY <1>0, <2>1, <2>3, <3>1, RestoresSound DEF Restores, Busy
  <2>4. CASE op[o].pc \in ArchivePCs
    <3>1. ErrorTarget(o) \in {"a_fix_blob", "a_fix_record"}
      BY <1>2, <2>4 DEF ErrorTarget, ArchivePCs
    <3>2. \A p \in Objects \ {o} : Sound(p)'
      BY <1>0, <2>1, Untouched DEF Inv, Moved, Others
    <3>3. ArchivedHasPayload(o)'
      BY <1>0 DEF Sound, ArchivedHasPayload, RestorableAs, LastRecord
    <3>4. ArchiveOrder(o)'
      BY <1>0, <2>1, <2>4, <3>1 DEF Sound, ArchiveOrder, Busy, Moved, ArchivePCs
    <3>5. RestoreReturns(o)'
      BY <2>1, <3>1 DEF RestoreReturns, Busy, Moved, RestorePCs
    <3> QED
      BY <3>2, <3>3, <3>4, <3>5 DEF Sound
  <2>5. op[o].pc \in CompressPCs \cup RestorePCs \cup ArchivePCs
    BY DEF StoreFails, Statements, CompressPCs, RestorePCs, ArchivePCs
  <2> QED
    BY <2>2, <2>3, <2>4, <2>5
<1> QED
  BY <1>1, <1>2

-----------------------------------------------------------------------------
(* Shape. *)

(* A row that is moved from one table to another is a row.                   *)
LEMMA RowsShape ==
  ASSUME Shape, NEW o \in Objects,
         \/ UNCHANGED rows
         \/ \E r : DropRow(o, r)
         \/ op[o] # None /\ AddRow(o, op[o].row)
         \/ \E h \in Hashes : AddRow(o, NewRow(o, h))
  PROVE  rows' \in [Objects -> SUBSET Row]
<1>1. \A h \in Hashes : NewRow(o, h) \in Row
  BY DEF NewRow, Row, Shape
<1>2. rows \in [Objects -> SUBSET Row] /\ (op[o] # None => op[o].row \in Row)
  BY DEF Shape
<1>3. CASE UNCHANGED rows
  BY <1>2, <1>3
<1>4. CASE \E r : DropRow(o, r)
  BY <1>2, <1>4 DEF DropRow
<1>5. CASE \E r \in Row : AddRow(o, r)
  BY <1>2, <1>5 DEF AddRow
<1> QED
  BY <1>1, <1>2, <1>3, <1>4, <1>5

(* An object row that is written is an object row.                           *)
LEMMA ObjectShape ==
  ASSUME Shape, NEW o \in Objects,
         \/ UNCHANGED object
         \/ \E s \in States, z \in BOOLEAN : SetObject(o, s, z)
         \/ object' = [object EXCEPT ![o] = before[o]]
  PROVE  object' \in [Objects -> ObjectRow]
<1>1. object \in [Objects -> ObjectRow] /\ before[o] \in ObjectRow
  BY DEF Shape
<1>2. CASE \E s \in States, z \in BOOLEAN : SetObject(o, s, z)
  <2>1. PICK s \in States, z \in BOOLEAN : SetObject(o, s, z)
    BY <1>2
  <2>2. [state |-> s, zip |-> z] \in ObjectRow
    BY DEF ObjectRow
  <2> QED
    BY <1>1, <2>1, <2>2 DEF SetObject
<1>3. CASE ~\E s \in States, z \in BOOLEAN : SetObject(o, s, z)
  BY <1>1, <1>3
<1> QED
  BY <1>2, <1>3

(* An operation that moves or leaves keeps the shape of operations.          *)
LEMMA OpShape ==
  ASSUME Shape, NEW o \in Objects, Left(o) \/ \E l : op[o] # None /\ Moved(o, l)
  PROVE  /\ DOMAIN op' = Objects
         /\ \A p \in Objects : op'[p] # None => DOMAIN op'[p] = Fields /\ op'[p].row \in Row
  BY DEF Shape, Left, Moved, Others

(* Every step of an operation keeps the shape.                               *)
LEMMA ShapeStep ==
  ASSUME Inv, NEW o \in Objects,
         Compress(o) \/ Archive(o) \/ Restore(o) \/ GuardTimesOut(o) \/ StoreFails(o)
  PROVE  Shape'
<1>0. Shape
  BY DEF Inv
<1>1. CASE CompressBegin(o) \/ ArchiveBegin(o) \/ RestoreBegin(o)
  <2>1. \E l : \E r \in Row : Begin(o, l, r)
    <3>1. RestoreBegin(o) => LastRecord(o) \in Row
      <4>1. RestoreBegin(o) => records[o] \in Seq(Row) /\ records[o] # <<>>
        BY <1>0 DEF Shape, RestoreBegin, Restorable
      <4> QED
        BY <4>1 DEF LastRecord
    <3> QED
      BY <1>0, <1>1, <3>1 DEF CompressBegin, ArchiveBegin, RestoreBegin, Plain,
         ArchivableCopy, Shape
  <2>2. /\ DOMAIN op' = Objects
        /\ \A p \in Objects : op'[p] # None => DOMAIN op'[p] = Fields /\ op'[p].row \in Row
        /\ before' = [before EXCEPT ![o] = object[o]]
        /\ UNCHANGED <<object, records, rows, lastId>>
    <3>1. PICK l : \E r \in Row : Begin(o, l, r)
      BY <2>1
    <3>2. /\ Others(o) /\ DOMAIN op'[o] = Fields /\ op'[o].row \in Row
          /\ before' = [before EXCEPT ![o] = object[o]]
          /\ UNCHANGED <<object, records, rows, lastId>>
      BY <1>0, <3>1, Begins DEF storeVars
    <3> QED
      BY <1>0, <3>2 DEF Shape, Others
  <2>3. object \in [Objects -> ObjectRow] /\ before' \in [Objects -> ObjectRow]
    BY <1>0, <2>2 DEF Shape
  <2> QED
    BY <1>0, <2>2, <2>3 DEF Shape
<1>2. CASE /\ Compress(o) \/ Restore(o)
           /\ ~CompressBegin(o) /\ ~RestoreBegin(o)
  <2>0. CASE Compress(o)
    <3>1. /\ DOMAIN op' = Objects
          /\ \A p \in Objects : op'[p] # None => DOMAIN op'[p] = Fields /\ op'[p].row \in Row
          /\ UNCHANGED <<records, before>>
      <4>1. op[o] # None
        BY <1>2, <2>0 DEF Compress, CompressGuard, CompressShare, CompressWrite,
           CompressWriteFails, CompressOld, CompressRef, CompressUnref, CompressUnrow,
           CompressRow, CompressObject, CompressDelete, CompressUndoRow,
           CompressUndoUnrow, CompressUndoUnref, CompressUndoRef, CompressUndoPayload,
           At
      <4> QED
        BY <1>0, <1>2, <2>0, <4>1, CompressQuiet, OpShape DEF Quiet
    <3>2. object' \in [Objects -> ObjectRow]
      <4>1. UNCHANGED object \/ SetObject(o, "COMPRESSED", TRUE)
        BY <1>2, <2>0 DEF Compress, CompressGuard, CompressShare, CompressWrite,
           CompressWriteFails, CompressOld, CompressRef, CompressUnref, CompressUnrow,
           CompressRow, CompressObject, CompressDelete, CompressUndoRow,
           CompressUndoUnrow, CompressUndoUnref, CompressUndoRef, CompressUndoPayload,
           Guard, storeVars
      <4> QED
        BY <1>0, <4>1, ObjectShape DEF States
    <3>3. rows' \in [Objects -> SUBSET Row]
      <4>1. \/ UNCHANGED rows
            \/ \E r : DropRow(o, r)
            \/ op[o] # None /\ AddRow(o, op[o].row)
            \/ \E h \in Hashes : AddRow(o, NewRow(o, h))
        BY <1>2, <2>0 DEF Compress, CompressGuard, CompressShare, CompressWrite,
           CompressWriteFails, CompressOld, CompressRef, CompressUnref, CompressUnrow,
           CompressRow, CompressObject, CompressDelete, CompressUndoRow,
           CompressUndoUnrow, CompressUndoUnref, CompressUndoRef, CompressUndoPayload,
           Guard, storeVars, At, Hashes
      <4> QED
        BY <1>0, <4>1, RowsShape
    <3>4. lastId' \in [Objects -> Nat]
      <4>1. UNCHANGED lastId \/ lastId' = [lastId EXCEPT ![o] = @ + 1]
        BY <1>2, <2>0 DEF Compress, CompressGuard, CompressShare, CompressWrite,
           CompressWriteFails, CompressOld, CompressRef, CompressUnref, CompressUnrow,
           CompressRow, CompressObject, CompressDelete, CompressUndoRow,
           CompressUndoUnrow, CompressUndoUnref, CompressUndoRef, CompressUndoPayload,
           Guard
      <4> QED
        <5>1. lastId \in [Objects -> Nat]
          BY <1>0 DEF Shape
        <5> QED
          BY <4>1, <5>1
    <3> QED
      BY <1>0, <3>1, <3>2, <3>3, <3>4 DEF Shape
  <2>1. CASE Restore(o)
    <3>1. /\ DOMAIN op' = Objects
          /\ \A p \in Objects : op'[p] # None => DOMAIN op'[p] = Fields /\ op'[p].row \in Row
          /\ UNCHANGED <<records, before>>
      BY <1>0, <1>2, <2>1, RestoreRestores, OpShape DEF Restores, Busy
    <3>2. object' \in [Objects -> ObjectRow]
      <4>1. \/ UNCHANGED object \/ SetObject(o, "WARM", FALSE)
            \/ object' = [object EXCEPT ![o] = before[o]]
        BY <1>2, <2>1 DEF Restore, RestoreHot, RestoreGuard, RestoreShare,
           RestoreWrite, RestoreRef, RestoreRow, RestoreObject, RestoreAudit,
           RestoreUndoObject, RestoreUndoRow, RestoreUndoRef, RestoreUndoPayload,
           Guard, storeVars
      <4> QED
        BY <1>0, <4>1, ObjectShape DEF States
    <3>3. rows' \in [Objects -> SUBSET Row]
      <4>1. \/ UNCHANGED rows
            \/ \E r : DropRow(o, r)
            \/ \E h \in Hashes : AddRow(o, NewRow(o, h))
        BY <1>2, <2>1 DEF Restore, RestoreHot, RestoreGuard, RestoreShare,
           RestoreWrite, RestoreRef, RestoreRow, RestoreObject, RestoreAudit,
           RestoreUndoObject, RestoreUndoRow, RestoreUndoRef, RestoreUndoPayload,
           Guard, storeVars, Hashes
      <4> QED
        BY <1>0, <4>1, RowsShape
    <3>4. lastId' \in [Objects -> Nat]
      <4>1. UNCHANGED lastId \/ lastId' = [lastId EXCEPT ![o] = @ + 1]
        BY <1>2, <2>1 DEF Restore, RestoreHot, RestoreGuard, RestoreShare,
           RestoreWrite, RestoreRef, RestoreRow, RestoreObject, RestoreAudit,
           RestoreUndoObject, RestoreUndoRow, RestoreUndoRef, RestoreUndoPayload,
           Guard
      <4> QED
        <5>1. lastId \in [Objects -> Nat]
          BY <1>0 DEF Shape
        <5> QED
          BY <4>1, <5>1
    <3> QED
      BY <1>0, <3>1, <3>2, <3>3, <3>4 DEF Shape
  <2> QED
    BY <1>2, <2>0, <2>1
<1>3. CASE Archive(o) /\ ~ArchiveBegin(o)
  <2>1. /\ DOMAIN op' = Objects
        /\ \A p \in Objects : op'[p] # None => DOMAIN op'[p] = Fields /\ op'[p].row \in Row
    <3>1. op[o] # None /\ (Return(o) \/ \E l \in ArchivePCs : Goto(o, l))
      BY <1>3 DEF Archive, ArchiveWrite, ArchiveWriteFails, ArchiveRecord, ArchiveObject,
         ArchiveUnrecord, ArchiveUnblob, ArchivePCs, At
    <3> QED
      BY <1>0, <3>1, Moves, Leaves, OpShape
  <2>2. object' \in [Objects -> ObjectRow]
    <3>1. UNCHANGED object \/ SetObject(o, "ARCHIVED", object[o].zip)
      BY <1>3 DEF Archive, ArchiveWrite, ArchiveWriteFails, ArchiveRecord, ArchiveObject,
         ArchiveUnrecord, ArchiveUnblob, storeVars
    <3> QED
      BY <1>0, <3>1, ObjectShape DEF States, Shape, ObjectRow
  <2>3. records' \in [Objects -> Seq(Row)]
    <3>1. CASE ArchiveRecord(o)
      <4>1. op[o].row \in Row
        BY <1>0, <3>1 DEF Shape, ArchiveRecord, At
      <4>2. Append(records[o], op[o].row) \in Seq(Row)
        BY <1>0, <4>1, AppendProperties DEF Shape
      <4> QED
        BY <1>0, <3>1, <4>2 DEF Shape, ArchiveRecord
    <3>2. CASE ArchiveUnrecord(o)
      <4>1. SubSeq(records[o], 1, Len(records[o]) - 1) \in Seq(Row)
        BY <1>0 DEF Shape
      <4> QED
        BY <1>0, <3>2, <4>1 DEF Shape, ArchiveUnrecord
    <3>3. CASE UNCHANGED records
      BY <1>0, <3>3 DEF Shape
    <3> QED
      BY <1>3, <3>1, <3>2, <3>3 DEF Archive, ArchiveWrite, ArchiveWriteFails,
         ArchiveObject, ArchiveUnblob, storeVars
  <2>4. UNCHANGED <<rows, lastId, before>>
    BY <1>3 DEF Archive, ArchiveWrite, ArchiveWriteFails, ArchiveRecord, ArchiveObject,
       ArchiveUnrecord, ArchiveUnblob, storeVars
  <2> QED
    BY <1>0, <2>1, <2>2, <2>3, <2>4 DEF Shape
<1>4. CASE GuardTimesOut(o) \/ StoreFails(o)
  <2>1. UNCHANGED <<object, rows, records, lastId, before>>
    BY <1>4 DEF GuardTimesOut, StoreFails, storeVars
  <2>2. Left(o) \/ \E l : op[o] # None /\ Moved(o, l)
    BY <1>0, <1>4, Moves, Leaves DEF GuardTimesOut, StoreFails
  <2> QED
    BY <1>0, <2>1, <2>2, OpShape DEF Shape
<1> QED
  BY <1>1, <1>2, <1>3, <1>4 DEF Compress, Archive, Restore

-----------------------------------------------------------------------------
(* Every step of an operation, and a crash anywhere in it, keeps the         *)
(* invariant.                                                                *)
LEMMA InvStep == Inv /\ [Next]_vars => Inv'
<1> SUFFICES ASSUME Inv, [Next]_vars PROVE Inv'
  OBVIOUS
<1>1. ASSUME NEW o \in Objects,
             Compress(o) \/ Archive(o) \/ Restore(o) \/ GuardTimesOut(o) \/ StoreFails(o)
      PROVE  Inv'
  <2>1. CASE CompressBegin(o) \/ ArchiveBegin(o) \/ RestoreBegin(o)
    BY <1>1, <2>1, BeginSound, ShapeStep DEF Inv
  <2>2. CASE Compress(o) /\ ~CompressBegin(o)
    BY <1>1, <2>2, CompressQuiet, QuietSound, ShapeStep DEF Inv
  <2>3. CASE Archive(o) /\ ~ArchiveBegin(o)
    BY <1>1, <2>3, ArchiveSound, ShapeStep DEF Inv
  <2>4. CASE Restore(o) /\ ~RestoreBegin(o)
    BY <1>1, <2>4, RestoreRestores, RestoresSound, ShapeStep DEF Inv
  <2>5. CASE GuardTimesOut(o)
    <3>1. Left(o) /\ UNCHANGED <<object, records, blobs, before>>
      BY <2>5, Leaves DEF GuardTimesOut, storeVars, physVars, Inv
    <3> QED
      BY <1>1, <3>1, LeavesSound, ShapeStep DEF Inv
  <2>6. CASE StoreFails(o)
    BY <1>1, <2>6, FailsSound, ShapeStep DEF Inv
  <2> QED
    BY <1>1, <2>1, <2>2, <2>3, <2>4, <2>5, <2>6
<1>2. CASE Crash
  <2>1. /\ DOMAIN op' = Objects /\ \A o \in Objects : op'[o] = None
        /\ UNCHANGED <<object, rows, records, blobs, lastId, before>>
    BY <1>2 DEF Crash, physVars
  <2>2. Shape'
    BY <2>1 DEF Inv, Shape
  <2>3. \A o \in Objects : Sound(o)'
    BY <2>1 DEF Inv, Sound, ArchivedHasPayload, ArchiveOrder, RestoreReturns,
       RestorableAs, LastRecord, Busy
  <2> QED
    BY <2>2, <2>3 DEF Inv
<1>3. CASE UNCHANGED vars
  <2>1. Shape'
    BY <1>3 DEF Inv, Shape, vars, storeVars
  <2>2. \A o \in Objects : Sound(o)'
    BY <1>3, Untouched DEF Inv, vars, storeVars, physVars
  <2> QED
    BY <2>1, <2>2 DEF Inv
<1> QED
  BY <1>1, <1>2, <1>3 DEF Next

(* An archived object can be restored from its latest record, for any number *)
(* of objects, archives, crashes and failing statements and backend calls.   *)
THEOREM ArchivesRestorable == Spec => []ArchiveRestorable
<1>1. Init => Inv
  BY InitInv
<1>2. Inv /\ [Next]_vars => Inv'
  BY InvStep
<1>3. Inv => ArchiveRestorable
  BY DEF Inv, Sound, ArchivedHasPayload, RestorableAs, ArchiveRestorable, Restorable
<1> QED
  BY <1>1, <1>2, <1>3, PTL DEF Spec

-----------------------------------------------------------------------------
(* References, rows and payloads.                                            *)
(*                                                                           *)
(* compress and restore change them one statement after the other, and their *)
(* compensations undo what was done.  Below, a statement of a compensation   *)
(* does not fail: after such an error the rest of the compensation is        *)
(* skipped, and the tables disagree until the next process has counted.      *)

\* The statements of the compensations.
FixPCs ==
  {"c_fix_row", "c_fix_unrow", "c_fix_unref", "c_fix_ref",
   "r_fix_object", "r_fix_row", "r_fix_ref"}

CompensationGoes == \A o \in Objects : Busy(o, FixPCs) => ~StoreFails(o)

\* The operations while they hold their payloads.
CompressGuarded == CompressPCs \ {"c_guard"}
RestoreGuarded == RestorePCs \ {"r_hot", "r_guard"}

\* What of the metadata closure stands: it was done, and not undone since.
RowIn(o) ==
  /\ "row" \in op[o].done
  /\ op[o].pc \notin {"c_fix_unrow", "c_fix_unref", "c_fix_ref", "c_fix_payload",
                      "r_fix_ref", "r_fix_payload"}
UnrowIn(o) ==
  /\ "unrow" \in op[o].done
  /\ op[o].pc \notin {"c_fix_unref", "c_fix_ref", "c_fix_payload"}
UnrefIn(o) ==
  "unref" \in op[o].done /\ op[o].pc \notin {"c_fix_ref", "c_fix_payload"}
RefIn(o) ==
  "ref" \in op[o].done /\ op[o].pc \notin {"c_fix_payload", "r_fix_payload"}
ObjectIn(o) ==
  /\ "object" \in op[o].done
  /\ op[o].pc \notin {"r_fix_row", "r_fix_ref", "r_fix_payload"}

One(b) == IF b THEN 1 ELSE 0
Count(h) == Cardinality(RowsWith(h))
Newest(o, h) == [id |-> lastId[o], hash |-> h]
GuardOf(o) == IF op[o] = None THEN {} ELSE op[o].guard

\* An operation holds the payloads that its handler guards.
Guarded(o) ==
  /\ Busy(o, CompressGuarded) => op[o].guard = Hashes
  /\ Busy(o, RestoreGuarded) => op[o].guard = {"plain"}
  /\ Busy(o, ArchivePCs \cup {"c_guard", "r_hot", "r_guard"}) => op[o].guard = {}
  /\ op[o] # None => op[o] \in Locals

\* The statements of the closure that went through, by the place of the operation.
CompressDone(o) ==
  /\ Busy(o, {"c_guard", "c_share", "c_write", "c_old", "c_ref"}) => op[o].done = {}
  /\ Busy(o, {"c_unref"}) => op[o].done = {"ref"}
  /\ Busy(o, {"c_unrow"}) => op[o].done = {"ref", "unref"}
  /\ Busy(o, {"c_row"}) => op[o].done = {"ref", "unref", "unrow"}
  /\ Busy(o, {"c_object", "c_delete"}) => op[o].done = {"ref", "unref", "unrow", "row"}
  /\ Busy(o, {"c_fix_row", "c_fix_unrow", "c_fix_unref", "c_fix_ref", "c_fix_payload"}) =>
       op[o].done \in {{}, {"ref"}, {"ref", "unref"}, {"ref", "unref", "unrow"},
                       {"ref", "unref", "unrow", "row"}}

RestoreDone(o) ==
  /\ Busy(o, {"r_hot", "r_guard", "r_share", "r_write", "r_ref"}) => op[o].done = {}
  /\ Busy(o, {"r_row"}) => op[o].done = {"ref"}
  /\ Busy(o, {"r_object"}) => op[o].done = {"ref", "row"}
  /\ Busy(o, {"r_audit"}) => op[o].done = {"ref", "row", "object"}
  /\ Busy(o, {"r_fix_object", "r_fix_row", "r_fix_ref", "r_fix_payload"}) =>
       op[o].done \in {{}, {"ref"}, {"ref", "row"}, {"ref", "row", "object"}}

\* compress swaps the row of the source for the new one; the object row follows
\* last.
CompressRows(o) ==
  Busy(o, CompressPCs) =>
    /\ object[o].state # "ARCHIVED" /\ (object[o].zip <=> op[o].pc = "c_delete")
    /\ op[o].row.hash = "plain" /\ op[o].row.id <= lastId[o]
    /\ op[o].row \in rows[o] <=> ~UnrowIn(o)
    /\ RowIn(o) => Newest(o, "zip") \in rows[o]

\* The source's payload is there for the compensation, the compressed one for the
\* new row.
CompressPayloads(o) ==
  /\ Busy(o, CompressPCs \ {"c_delete"}) /\ UnrowIn(o) => "plain" \in payload
  /\ Busy(o, {"c_old", "c_ref", "c_unref", "c_unrow", "c_row"}) => "zip" \in payload

\* The counts differ from the rows by what the closure has done of one and not yet
\* of the other.  Nobody else refers to a payload that the operation wrote.
CompressRefs(o) ==
  /\ Busy(o, {"c_guard", "c_share", "c_write"}) => ~op[o].wrote
  /\ Busy(o, {"c_write"}) => refs["zip"] = 0
  /\ Busy(o, CompressPCs) /\ op[o].wrote => refs["zip"] = One(RefIn(o))
  /\ Busy(o, {"c_delete"}) => op[o].old = 1
  /\ Busy(o, {"c_ref", "c_unref", "c_unrow", "c_row", "c_object", "c_delete"}) =>
       op[o].old = refs["plain"] + One(UnrefIn(o))
  /\ Busy(o, CompressGuarded) =>
       /\ refs["plain"] + One(UnrefIn(o)) = Count("plain") + One(UnrowIn(o))
       /\ refs["zip"] + One(RowIn(o)) = Count("zip") + One(RefIn(o))

\* restore adds a plain replica to an object that has compressed ones.
RestoreRows(o) ==
  /\ Busy(o, RestorePCs) =>
       /\ ~ObjectIn(o) => object[o] = before[o]
       /\ ObjectIn(o) => ~object[o].zip
       /\ RowIn(o) => Newest(o, "plain") \in rows[o]
  /\ Busy(o, RestorePCs \ {"r_hot"}) =>
       before[o].zip /\ \E r \in rows[o] : r.hash = "zip"

RestoreRefs(o) ==
  /\ Busy(o, {"r_hot", "r_guard", "r_share", "r_write"}) => ~op[o].wrote
  /\ Busy(o, {"r_write", "r_fix_payload"}) => refs["plain"] = 0
  /\ Busy(o, RestorePCs) /\ op[o].wrote => refs["plain"] = One(RefIn(o))
  /\ Busy(o, {"r_ref", "r_row"}) => "plain" \in payload
  /\ Busy(o, RestoreGuarded) =>
       refs["plain"] + One(RowIn(o)) = Count("plain") + One(RefIn(o))

\* Only between the two row statements of compress and before their compensation
\* is an object without a replica in the form its row says.
SwapPCs == {"c_row", "c_object", "c_fix_row", "c_fix_unrow"}
CopyKept(o) ==
  object[o].state = "ARCHIVED" \/ (op[o] # None /\ op[o].pc \notin SwapPCs)
    => HasCopy(o)

\* Replica ids are never used again.
RowIds(o) == \A r \in rows[o] : r.id <= lastId[o]

Balanced(o) ==
  /\ Guarded(o) /\ CompressDone(o) /\ RestoreDone(o)
  /\ CompressRows(o) /\ CompressPayloads(o) /\ CompressRefs(o)
  /\ RestoreRows(o) /\ RestoreRefs(o) /\ CopyKept(o) /\ RowIds(o)

\* No two operations hold the same payload.
Disjoint == \A o, p \in Objects : o # p => GuardOf(o) \cap GuardOf(p) = {}

\* A payload that nobody holds is counted exactly.
FreeExact ==
  \A h \in Hashes : (\A o \in Objects : h \notin GuardOf(o)) => refs[h] = Count(h)

Ledger ==
  /\ refs \in [Hashes -> Nat]
  /\ budget \in [store : Nat, backend : Nat, crash : Nat]
  /\ \A h \in Hashes : IsFiniteSet(RowsWith(h))
  /\ Disjoint /\ PayloadOfEveryRow /\ FreeExact

Books == Ledger /\ \A o \in Objects : Balanced(o)

-----------------------------------------------------------------------------
(* The rows with a content. *)

(* The set of rows with a content follows the tables of the objects.         *)
LEMMA RowsWithSame ==
  ASSUME NEW h, \A p \in Objects : \A r : r.hash = h => (r \in rows'[p] <=> r \in rows[p])
  PROVE  RowsWith(h)' = RowsWith(h)
<1>1. \A x : x \in RowsWith(h) => x = <<x[1], x[2]>>
  BY DEF RowsWith
<1>2. \A x : x \in RowsWith(h)' => x = <<x[1], x[2]>>
  BY DEF RowsWith
<1>3. \A p, r : <<p, r>> \in RowsWith(h) <=> p \in Objects /\ r \in rows[p] /\ r.hash = h
  BY DEF RowsWith
<1>4. \A p, r : <<p, r>> \in RowsWith(h)' <=> p \in Objects /\ r \in rows'[p] /\ r.hash = h
  BY DEF RowsWith
<1>5. \A p, r : <<p, r>> \in RowsWith(h)' <=> <<p, r>> \in RowsWith(h)
  BY <1>3, <1>4
<1> QED
  BY <1>1, <1>2, <1>5

(* A new row counts.                                                         *)
LEMMA RowsWithAdded ==
  ASSUME Shape, Ledger, NEW o \in Objects, NEW r \in Row, r \notin rows[o], AddRow(o, r)
  PROVE  /\ Count(r.hash)' = Count(r.hash) + 1
         /\ IsFiniteSet(RowsWith(r.hash))'
         /\ \A h : h # r.hash => RowsWith(h)' = RowsWith(h)
         /\ rows'[o] = rows[o] \cup {r}
         /\ \A p \in Objects \ {o} : rows'[p] = rows[p]
<1>0. r.hash \in Hashes
  BY DEF Row
<1>1. rows'[o] = rows[o] \cup {r} /\ \A p \in Objects \ {o} : rows'[p] = rows[p]
  BY DEF Shape, AddRow
<1>2. \A h : h # r.hash => RowsWith(h)' = RowsWith(h)
  BY <1>1, RowsWithSame
<1>3. PICK g : g = r.hash
  OBVIOUS
<1>4. RowsWith(g)' = RowsWith(g) \cup {<<o, r>>}
  <2>1. \A x : x \in RowsWith(g) => x = <<x[1], x[2]>>
    BY DEF RowsWith
  <2>2. \A x : x \in RowsWith(g)' => x = <<x[1], x[2]>>
    BY DEF RowsWith
  <2>3. \A p, q : <<p, q>> \in RowsWith(g) <=> p \in Objects /\ q \in rows[p] /\ q.hash = g
    BY DEF RowsWith
  <2>4. \A p, q : <<p, q>> \in RowsWith(g)' <=> p \in Objects /\ q \in rows'[p] /\ q.hash = g
    BY DEF RowsWith
  <2>5. \A p, q : <<p, q>> \in RowsWith(g)' <=> <<p, q>> \in RowsWith(g) \cup {<<o, r>>}
    BY <1>1, <1>3, <2>3, <2>4
  <2> QED
    BY <2>1, <2>2, <2>5
<1>5. <<o, r>> \notin RowsWith(g)
  BY DEF RowsWith
<1>6. IsFiniteSet(RowsWith(g))
  BY <1>0, <1>3 DEF Ledger
<1>7. /\ IsFiniteSet(RowsWith(g) \cup {<<o, r>>})
      /\ Cardinality(RowsWith(g) \cup {<<o, r>>}) = Cardinality(RowsWith(g)) + 1
  BY <1>5, <1>6, FS_AddElement
<1>8. IsFiniteSet(RowsWith(g))' /\ Count(g)' = Count(g) + 1
  BY <1>4, <1>7 DEF Count
<1> QED
  BY <1>1, <1>2, <1>3, <1>8

(* A row that goes counts no more.                                           *)
LEMMA RowsWithDropped ==
  ASSUME Shape, Ledger, NEW o \in Objects, NEW r \in Row, r \in rows[o], DropRow(o, r)
  PROVE  /\ Count(r.hash)' = Count(r.hash) - 1
         /\ IsFiniteSet(RowsWith(r.hash))'
         /\ \A h : h # r.hash => RowsWith(h)' = RowsWith(h)
         /\ rows'[o] = rows[o] \ {r}
         /\ \A p \in Objects \ {o} : rows'[p] = rows[p]
<1>0. r.hash \in Hashes
  BY DEF Row
<1>1. rows'[o] = rows[o] \ {r} /\ \A p \in Objects \ {o} : rows'[p] = rows[p]
  BY DEF Shape, DropRow
<1>2. \A h : h # r.hash => RowsWith(h)' = RowsWith(h)
  BY <1>1, RowsWithSame
<1>3. PICK g : g = r.hash
  OBVIOUS
<1>4. RowsWith(g)' = RowsWith(g) \ {<<o, r>>}
  <2>1. \A x : x \in RowsWith(g) => x = <<x[1], x[2]>>
    BY DEF RowsWith
  <2>2. \A x : x \in RowsWith(g)' => x = <<x[1], x[2]>>
    BY DEF RowsWith
  <2>3. \A p, q : <<p, q>> \in RowsWith(g) <=> p \in Objects /\ q \in rows[p] /\ q.hash = g
    BY DEF RowsWith
  <2>4. \A p, q : <<p, q>> \in RowsWith(g)' <=> p \in Objects /\ q \in rows'[p] /\ q.hash = g
    BY DEF RowsWith
  <2>5. \A p, q : <<p, q>> \in RowsWith(g)' <=> <<p, q>> \in RowsWith(g) \ {<<o, r>>}
    BY <1>1, <1>3, <2>3, <2>4
  <2> QED
    BY <2>1, <2>2, <2>5
<1>5. <<o, r>> \in RowsWith(g)
  BY <1>3 DEF RowsWith
<1>6. IsFiniteSet(RowsWith(g))
  BY <1>0, <1>3 DEF Ledger
<1>7. /\ IsFiniteSet(RowsWith(g) \ {<<o, r>>})
      /\ Cardinality(RowsWith(g) \ {<<o, r>>}) = Cardinality(RowsWith(g)) - 1
  BY <1>5, <1>6, FS_RemoveElement
<1>8. IsFiniteSet(RowsWith(g))' /\ Count(g)' = Count(g) - 1
  BY <1>4, <1>7 DEF Count
<1> QED
  BY <1>1, <1>2, <1>3, <1>8

(* Counts are natural numbers, and a content that counts nothing has no row.  *)
LEMMA CountsRows ==
  ASSUME Ledger, NEW h \in Hashes
  PROVE  /\ Count(h) \in Nat
         /\ Count(h) = 0 => RowsWith(h) = {}
         /\ Count(h) = 0 => \A p \in Objects : \A r \in rows[p] : r.hash # h
<1>1. IsFiniteSet(RowsWith(h))
  BY DEF Ledger
<1>2. Count(h) \in Nat /\ (Count(h) = 0 => RowsWith(h) = {})
  BY <1>1, FS_CardinalityType, FS_EmptySet DEF Count
<1>3. \A p \in Objects : \A r \in rows[p] : r.hash = h => <<p, r>> \in RowsWith(h)
  BY DEF RowsWith
<1> QED
  BY <1>2, <1>3

(* Objects that were just registered have a row each.                        *)
LEMMA InitBooks == Init => Books
<1> SUFFICES ASSUME Init PROVE Books
  OBVIOUS
<1>1. /\ \A o \in Objects : rows[o] = {FirstRow} /\ op[o] = None /\ lastId[o] = 1
                            /\ object[o].state = "HOT"
      /\ payload = {"plain"}
  BY DEF Init
<1>2. RowsWith("zip") = {}
  BY <1>1 DEF RowsWith, FirstRow
<1>3. RowsWith("plain") = Objects \X {FirstRow}
  <2>1. \A x : x \in RowsWith("plain") => x = <<x[1], x[2]>>
    BY DEF RowsWith
  <2>2. \A p, r : <<p, r>> \in RowsWith("plain") <=> p \in Objects /\ r = FirstRow
    BY <1>1 DEF RowsWith, FirstRow
  <2> QED
    BY <2>1, <2>2
<1>4. IsFiniteSet(Objects) /\ Cardinality(Objects) \in Nat
  BY TransformAssumption, FS_CardinalityType
<1>5. IsFiniteSet(RowsWith("plain")) /\ Count("plain") = Cardinality(Objects)
  <2>1. IsFiniteSet({FirstRow}) /\ Cardinality({FirstRow}) = 1
    BY FS_Singleton
  <2>2. /\ IsFiniteSet(Objects \X {FirstRow})
        /\ Cardinality(Objects \X {FirstRow}) = Cardinality(Objects) * 1
    BY <1>4, <2>1, FS_Product
  <2> QED
    BY <1>3, <1>4, <2>2 DEF Count
<1>6. IsFiniteSet(RowsWith("zip")) /\ Count("zip") = 0
  BY <1>2, FS_EmptySet DEF Count
<1>7. refs \in [Hashes -> Nat] /\ \A h \in Hashes : refs[h] = Count(h)
  BY <1>4, <1>5, <1>6 DEF Init, Hashes
<1>8. budget \in [store : Nat, backend : Nat, crash : Nat]
  BY TransformAssumption DEF Init
<1>9. \A h \in Hashes : IsFiniteSet(RowsWith(h))
  BY <1>5, <1>6 DEF Hashes
<1>10. Disjoint /\ PayloadOfEveryRow /\ FreeExact
  BY <1>1, <1>7 DEF Disjoint, GuardOf, PayloadOfEveryRow, FirstRow, FreeExact
<1>11. ASSUME NEW o \in Objects PROVE Balanced(o)
  BY <1>1 DEF Balanced, Guarded, CompressDone, RestoreDone, CompressRows,
     CompressPayloads, CompressRefs, RestoreRows, RestoreRefs, CopyKept, RowIds, Busy,
     FirstRow
<1> QED
  BY <1>7, <1>8, <1>9, <1>10, <1>11 DEF Books, Ledger

-----------------------------------------------------------------------------
(* What one operation does to the others. *)

\* A step of o leaves the other objects alone, and every payload it does not hold.
Frame(o) ==
  /\ Others(o)
  /\ \A p \in Objects \ {o} :
       /\ rows'[p] = rows[p] /\ object'[p] = object[p]
       /\ before'[p] = before[p] /\ lastId'[p] = lastId[p]
  /\ \A h \in Hashes \ GuardOf(o) :
       /\ refs'[h] = refs[h] /\ (h \in payload' <=> h \in payload)
       /\ RowsWith(h)' = RowsWith(h)

(* The other operations keep their books.                                    *)
LEMMA OthersBalanced ==
  ASSUME Books, NEW o \in Objects, Frame(o), NEW p \in Objects \ {o}
  PROVE  Balanced(p)' /\ GuardOf(p)' = GuardOf(p)
<1>1. /\ op'[p] = op[p] /\ rows'[p] = rows[p] /\ object'[p] = object[p]
      /\ before'[p] = before[p] /\ lastId'[p] = lastId[p]
  BY DEF Frame, Others
<1>2. Balanced(p)
  BY DEF Books
<1>3. GuardOf(p)' = GuardOf(p) /\ GuardOf(p) \cap GuardOf(o) = {}
  BY <1>1 DEF GuardOf, Books, Ledger, Disjoint
<1>4. /\ \A pcs : Busy(p, pcs)' <=> Busy(p, pcs)
      /\ RowIn(p)' = RowIn(p) /\ UnrowIn(p)' = UnrowIn(p)
      /\ UnrefIn(p)' = UnrefIn(p) /\ RefIn(p)' = RefIn(p)
      /\ ObjectIn(p)' = ObjectIn(p)
      /\ Newest(p, "zip")' = Newest(p, "zip") /\ Newest(p, "plain")' = Newest(p, "plain")
      /\ HasCopy(p)' <=> HasCopy(p)
  BY <1>1 DEF Busy, RowIn, UnrowIn, UnrefIn, RefIn, ObjectIn, Newest, HasCopy,
     ArchivableCopy
<1>5. Guarded(p)' /\ CompressDone(p)' /\ RestoreDone(p)'
  BY <1>1, <1>2, <1>4 DEF Balanced, Guarded, CompressDone, RestoreDone
<1>6. CompressRows(p)' /\ RestoreRows(p)' /\ CopyKept(p)' /\ RowIds(p)'
  BY <1>1, <1>2, <1>4 DEF Balanced, CompressRows, RestoreRows, CopyKept, RowIds
<1>7. CASE Busy(p, CompressGuarded)
  <2>1. \A h \in Hashes : h \notin GuardOf(o)
    BY <1>2, <1>3, <1>7 DEF Balanced, Guarded, GuardOf, Busy
  <2>2. /\ refs'["plain"] = refs["plain"] /\ refs'["zip"] = refs["zip"]
        /\ "plain" \in payload' <=> "plain" \in payload
        /\ "zip" \in payload' <=> "zip" \in payload
        /\ Count("plain")' = Count("plain") /\ Count("zip")' = Count("zip")
    BY <2>1 DEF Frame, Hashes, Count
  <2>3. ~Busy(p, RestorePCs)
    BY <1>7 DEF Busy, CompressGuarded, CompressPCs, RestorePCs
  <2>4. CompressPayloads(p)' /\ CompressRefs(p)'
    BY <1>1, <1>2, <1>4, <2>2 DEF Balanced, CompressPayloads, CompressRefs
  <2>5. RestoreRefs(p)'
    BY <1>4, <2>3 DEF RestoreRefs, Busy, RestorePCs, RestoreGuarded
  <2> QED
    BY <1>3, <1>5, <1>6, <2>4, <2>5 DEF Balanced
<1>8. CASE Busy(p, RestoreGuarded)
  <2>1. "plain" \notin GuardOf(o)
    BY <1>2, <1>3, <1>8 DEF Balanced, Guarded, GuardOf, Busy
  <2>2. /\ refs'["plain"] = refs["plain"] /\ Count("plain")' = Count("plain")
        /\ "plain" \in payload' <=> "plain" \in payload
    BY <2>1 DEF Frame, Hashes, Count
  <2>3. ~Busy(p, CompressPCs)
    BY <1>8 DEF Busy, RestoreGuarded, RestorePCs, CompressPCs
  <2>4. RestoreRefs(p)'
    BY <1>1, <1>2, <1>4, <2>2 DEF Balanced, RestoreRefs
  <2>5. CompressPayloads(p)' /\ CompressRefs(p)'
    BY <1>4, <2>3 DEF CompressPayloads, CompressRefs, Busy, CompressPCs, CompressGuarded
  <2> QED
    BY <1>3, <1>5, <1>6, <2>4, <2>5 DEF Balanced
<1>9. CASE ~Busy(p, CompressGuarded) /\ ~Busy(p, RestoreGuarded)
  <2>1. CompressPayloads(p)' /\ CompressRefs(p)'
    <3>1. Busy(p, CompressPCs) => op[p].pc = "c_guard"
      BY <1>9 DEF Busy, CompressGuarded
    <3>2. Busy(p, CompressPCs) => ~op[p].wrote /\ op[p].done = {}
      BY <1>2, <3>1 DEF Balanced, CompressRefs, CompressDone, Busy
    <3> QED
      BY <1>1, <1>9, <3>1, <3>2 DEF CompressPayloads, CompressRefs, Busy, CompressPCs,
         CompressGuarded, UnrowIn
  <2>2. RestoreRefs(p)'
    <3>1. Busy(p, RestorePCs) => op[p].pc \in {"r_hot", "r_guard"}
      BY <1>9 DEF Busy, RestoreGuarded
    <3>2. Busy(p, RestorePCs) => ~op[p].wrote
      BY <1>2, <3>1 DEF Balanced, RestoreRefs, Busy
    <3> QED
      BY <1>1, <1>9, <3>1, <3>2 DEF RestoreRefs, Busy, RestorePCs, RestoreGuarded
  <2> QED
    BY <1>3, <1>5, <1>6, <2>1, <2>2 DEF Balanced
<1> QED
  BY <1>7, <1>8, <1>9

\* What a step of o shows for its own object and the payloads it holds: a payload
\* goes when no row has it, a new row has its payload, and a payload that is let go
\* is counted exactly.
Own(o) ==
  /\ refs' \in [Hashes -> Nat]
  /\ budget' \in [store : Nat, backend : Nat, crash : Nat]
  /\ \A h \in Hashes : IsFiniteSet(RowsWith(h))'
  /\ \A h \in Hashes : h \in payload \ payload' =>
       \A p \in Objects : \A r \in rows[p] : r.hash # h
  /\ \A r \in rows'[o] : r \in rows[o] \/ r.hash \in payload'
  /\ GuardOf(o)' \subseteq GuardOf(o) \/ GuardOf(o)' \cap Held = {}
  /\ \A h \in GuardOf(o) \ GuardOf(o)' : refs'[h] = Count(h)'
  /\ Balanced(o)'

(* A step that keeps to its own object and payloads keeps the books.         *)
LEMMA StepBooks ==
  ASSUME Shape, Books, NEW o \in Objects, Frame(o), Own(o)
  PROVE  Books'
<1>1. \A p \in Objects \ {o} : Balanced(p)' /\ GuardOf(p)' = GuardOf(p)
  BY OthersBalanced
<1>2. \A p \in Objects : Balanced(p)'
  BY <1>1 DEF Own
<1>3. Disjoint'
  <2>1. ASSUME NEW p \in Objects \ {o} PROVE GuardOf(o)' \cap GuardOf(p)' = {}
    <3>1. GuardOf(p) \subseteq Held
      BY DEF Held, GuardOf
    <3>2. GuardOf(o) \cap GuardOf(p) = {}
      BY DEF Books, Ledger, Disjoint
    <3> QED
      BY <1>1, <3>1, <3>2 DEF Own
  <2>2. ASSUME NEW p \in Objects \ {o}, NEW q \in Objects \ {o}, p # q
        PROVE  GuardOf(p)' \cap GuardOf(q)' = {}
    BY <1>1, <2>2 DEF Books, Ledger, Disjoint
  <2>3. \A p, q \in Objects : p # q => GuardOf(p)' \cap GuardOf(q)' = {}
    BY <2>1, <2>2
  <2> QED
    BY <2>3 DEF Disjoint
<1>4. PayloadOfEveryRow'
  <2>1. ASSUME NEW p \in Objects, NEW r \in rows'[p] PROVE r.hash \in payload'
    <3>1. CASE r \in rows[p]
      <4>1. r.hash \in payload /\ r.hash \in Hashes
        BY <3>1 DEF Books, Ledger, PayloadOfEveryRow, Shape, Row
      <4> QED
        BY <3>1, <4>1 DEF Own
    <3>2. CASE r \notin rows[p]
      BY <2>1, <3>2 DEF Own, Frame
    <3> QED
      BY <3>1, <3>2
  <2> QED
    BY <2>1 DEF PayloadOfEveryRow
<1>5. FreeExact'
  <2>1. ASSUME NEW h \in Hashes, \A p \in Objects : h \notin GuardOf(p)'
        PROVE  refs'[h] = Count(h)'
    <3>1. CASE h \in GuardOf(o)
      BY <2>1, <3>1 DEF Own
    <3>2. CASE h \notin GuardOf(o)
      <4>1. refs[h] = Count(h)
        BY <1>1, <2>1, <3>2 DEF Books, Ledger, FreeExact
      <4>2. refs'[h] = refs[h] /\ RowsWith(h)' = RowsWith(h)
        BY <3>2 DEF Frame
      <4> QED
        BY <4>1, <4>2 DEF Count
    <3> QED
      BY <3>1, <3>2
  <2> QED
    BY <2>1 DEF FreeExact
<1> QED
  BY <1>2, <1>3, <1>4, <1>5 DEF Books, Ledger, Own

-----------------------------------------------------------------------------
(* Where the operation goes, with all that it notes. *)

To(o, l, done, wrote, old, guard) ==
  /\ Others(o)
  /\ op'[o] \in Locals /\ op'[o] # None
  /\ op'[o].pc = l /\ op'[o].row = op[o].row
  /\ op'[o].done = done /\ op'[o].wrote = wrote
  /\ op'[o].old = old /\ op'[o].guard = guard

\* The operation goes on with what it had noted.
Goes(o, l) == To(o, l, op[o].done, op[o].wrote, op[o].old, op[o].guard)

(* The record of the operation after a step.                                 *)
LEMMA ToRecord ==
  ASSUME DOMAIN op = Objects, NEW o \in Objects, NEW v \in Locals,
         op' = [op EXCEPT ![o] = v]
  PROVE  Others(o) /\ op'[o] = v /\ op'[o] \in Locals /\ op'[o] # None
  BY NoneAssumption DEF Others

(* Goto.                                                                     *)
LEMMA GotoGoes ==
  ASSUME Shape, NEW o \in Objects, op[o] \in Locals, NEW l \in PCs, Goto(o, l)
  PROVE  Goes(o, l)
<1>1. PICK v : v = [op[o] EXCEPT !.pc = l]
  OBVIOUS
<1>2. v \in Locals /\ v.pc = l /\ v.row = op[o].row /\ v.done = op[o].done
      /\ v.wrote = op[o].wrote /\ v.old = op[o].old /\ v.guard = op[o].guard
  BY <1>1 DEF Locals
<1>3. op' = [op EXCEPT ![o] = v] /\ DOMAIN op = Objects
  BY <1>1 DEF Goto, Shape
<1> QED
  BY <1>2, <1>3, ToRecord DEF Goes, To

(* Did.                                                                      *)
LEMMA DidGoes ==
  ASSUME Shape, NEW o \in Objects, op[o] \in Locals, NEW l \in PCs,
         NEW s \in Metadata, Did(o, s, l)
  PROVE  To(o, l, op[o].done \cup {s}, op[o].wrote, op[o].old, op[o].guard)
<1>1. PICK v : v = [[op[o] EXCEPT !.pc = l] EXCEPT !.done = op[o].done \cup {s}]
  OBVIOUS
<1>2. v \in Locals /\ v.pc = l /\ v.row = op[o].row /\ v.done = op[o].done \cup {s}
      /\ v.wrote = op[o].wrote /\ v.old = op[o].old /\ v.guard = op[o].guard
  BY <1>1 DEF Locals
<1>3. op' = [op EXCEPT ![o] = v] /\ DOMAIN op = Objects
  BY <1>1 DEF Did, Shape, Locals
<1> QED
  BY <1>2, <1>3, ToRecord DEF To

(* A step that notes a guard.                                               *)
LEMMA GuardGoes ==
  ASSUME Shape, NEW o \in Objects, op[o] \in Locals, NEW l \in PCs,
         NEW x \in SUBSET Hashes, op' = [op EXCEPT ![o].pc = l, ![o].guard = x]
  PROVE  To(o, l, op[o].done, op[o].wrote, op[o].old, x)
<1>1. PICK v : v = [[op[o] EXCEPT !.pc = l] EXCEPT !.guard = x]
  OBVIOUS
<1>2. v \in Locals /\ v.pc = l /\ v.row = op[o].row /\ v.done = op[o].done
      /\ v.wrote = op[o].wrote /\ v.old = op[o].old /\ v.guard = x
  BY <1>1 DEF Locals
<1>3. op' = [op EXCEPT ![o] = v] /\ DOMAIN op = Objects
  BY <1>1 DEF Shape, Locals
<1> QED
  BY <1>2, <1>3, ToRecord DEF To

(* A step that notes a payload written.                                     *)
LEMMA WroteGoes ==
  ASSUME Shape, NEW o \in Objects, op[o] \in Locals, NEW l \in PCs,
         NEW x \in BOOLEAN, op' = [op EXCEPT ![o].pc = l, ![o].wrote = x]
  PROVE  To(o, l, op[o].done, x, op[o].old, op[o].guard)
<1>1. PICK v : v = [[op[o] EXCEPT !.pc = l] EXCEPT !.wrote = x]
  OBVIOUS
<1>2. v \in Locals /\ v.pc = l /\ v.row = op[o].row /\ v.done = op[o].done
      /\ v.wrote = x /\ v.old = op[o].old /\ v.guard = op[o].guard
  BY <1>1 DEF Locals
<1>3. op' = [op EXCEPT ![o] = v] /\ DOMAIN op = Objects
  BY <1>1 DEF Shape, Locals
<1> QED
  BY <1>2, <1>3, ToRecord DEF To

(* A step that notes a count read.                                          *)
LEMMA OldGoes ==
  ASSUME Shape, NEW o \in Objects, op[o] \in Locals, NEW l \in PCs,
         NEW x \in Nat, op' = [op EXCEPT ![o].pc = l, ![o].old = x]
  PROVE  To(o, l, op[o].done, op[o].wrote, x, op[o].guard)
<1>1. PICK v : v = [[op[o] EXCEPT !.pc = l] EXCEPT !.old = x]
  OBVIOUS
<1>2. v \in Locals /\ v.pc = l /\ v.row = op[o].row /\ v.done = op[o].done
      /\ v.wrote = op[o].wrote /\ v.old = x /\ v.guard = op[o].guard
  BY <1>1 DEF Locals
<1>3. op' = [op EXCEPT ![o] = v] /\ DOMAIN op = Objects
  BY <1>1 DEF Shape, Locals
<1> QED
  BY <1>2, <1>3, ToRecord DEF To

(* The first step.                                                           *)
LEMMA BeginGoes ==
  ASSUME Shape, NEW o \in Objects, NEW l \in PCs, NEW r \in Row, Begin(o, l, r)
  PROVE  /\ Others(o) /\ op'[o] \in Locals /\ op'[o] # None
         /\ op'[o].pc = l /\ op'[o].row = r /\ op'[o].done = {} /\ ~op'[o].wrote
         /\ op'[o].guard = {}
         /\ before'[o] = object[o] /\ \A p \in Objects \ {o} : before'[p] = before[p]
<1>1. PICK v : v = [pc |-> l, row |-> r, old |-> 0, wrote |-> FALSE, done |-> {},
                    guard |-> {}]
  OBVIOUS
<1>2. v \in Locals /\ v.pc = l /\ v.row = r /\ v.done = {} /\ ~v.wrote /\ v.guard = {}
  BY <1>1 DEF Locals
<1>3. op' = [op EXCEPT ![o] = v] /\ DOMAIN op = Objects
  BY <1>1 DEF Shape, Begin
<1>4. before'[o] = object[o] /\ \A p \in Objects \ {o} : before'[p] = before[p]
  BY DEF Shape, Begin
<1> QED
  BY <1>2, <1>3, <1>4, ToRecord

-----------------------------------------------------------------------------
(* The steps of compress. *)

(* The places of the handlers are places.                                    *)
LEMMA PCsAre ==
  /\ CompressPCs \subseteq PCs /\ ArchivePCs \subseteq PCs /\ RestorePCs \subseteq PCs
  /\ "c_share" \in PCs
  BY DEF PCs, CompressPCs

(* What the books say of the object of a step.                               *)
LEMMA OwnBefore ==
  ASSUME Inv, Books, NEW o \in Objects
  PROVE  /\ Shape /\ Ledger /\ Balanced(o)
         /\ op[o] # None => op[o] \in Locals /\ GuardOf(o) = op[o].guard
         /\ op[o] = None => GuardOf(o) = {}
         /\ refs \in [Hashes -> Nat] /\ refs["plain"] \in Nat /\ refs["zip"] \in Nat
         /\ Count("plain") \in Nat /\ Count("zip") \in Nat
<1>1. Shape /\ Ledger /\ Balanced(o)
  BY DEF Inv, Books
<1>2. refs \in [Hashes -> Nat] /\ refs["plain"] \in Nat /\ refs["zip"] \in Nat
  BY <1>1 DEF Ledger, Hashes
<1>3. Count("plain") \in Nat /\ Count("zip") \in Nat
  BY <1>1, CountsRows DEF Hashes
<1> QED
  BY <1>1, <1>2, <1>3 DEF Balanced, Guarded, GuardOf

\* Rows and counts are as they were.
Kept ==
  /\ \A h \in Hashes : RowsWith(h)' = RowsWith(h) /\ IsFiniteSet(RowsWith(h))'
  /\ Count("plain")' = Count("plain") /\ Count("zip")' = Count("zip")

LEMMA SameRows ==
  ASSUME Ledger, UNCHANGED rows
  PROVE  Kept
<1>1. \A h \in Hashes : RowsWith(h)' = RowsWith(h)
  BY DEF RowsWith
<1>2. Count("plain")' = Count("plain") /\ Count("zip")' = Count("zip")
  BY <1>1 DEF Count, Hashes
<1> QED
  BY <1>1, <1>2 DEF Ledger, Kept

(* An operation that is over owes nothing.                                   *)
LEMMA LeftBalanced ==
  ASSUME NEW o \in Objects, op'[o] = None, RowIds(o)',
         object'[o].state = "ARCHIVED" => HasCopy(o)'
  PROVE  Balanced(o)' /\ GuardOf(o)' = {}
  BY DEF Balanced, Guarded, CompressDone, RestoreDone, CompressRows, CompressPayloads,
     CompressRefs, RestoreRows, RestoreRefs, CopyKept, Busy, GuardOf

(* What is to be shown of an operation in compress.                          *)
LEMMA CompressBalanced ==
  ASSUME NEW o \in Objects, NEW l \in CompressGuarded, NEW d, NEW w, NEW n,
         To(o, l, d, w, n, Hashes), CompressDone(o)', CompressRows(o)',
         CompressPayloads(o)', CompressRefs(o)', CopyKept(o)', RowIds(o)'
  PROVE  Balanced(o)' /\ GuardOf(o)' = Hashes
<1>0. \A pcs : Busy(o, pcs)' <=> l \in pcs
  BY DEF Busy, To
<1>1. /\ l \notin RestorePCs /\ l \notin RestoreGuarded
      /\ l \notin ArchivePCs \cup {"c_guard", "r_hot", "r_guard"}
      /\ l \in CompressPCs
  BY DEF CompressPCs, CompressGuarded, RestorePCs, RestoreGuarded, ArchivePCs
<1>2. Guarded(o)' /\ GuardOf(o)' = Hashes
  BY <1>0, <1>1 DEF Guarded, To, GuardOf
<1>3. RestoreDone(o)'
  BY <1>0, <1>1 DEF RestoreDone, RestorePCs
<1>4. RestoreRows(o)' /\ RestoreRefs(o)'
  BY <1>0, <1>1 DEF RestoreRows, RestoreRefs, RestorePCs, RestoreGuarded
<1> QED
  BY <1>2, <1>3, <1>4 DEF Balanced

(* The payloads are guarded when nobody else holds them.                     *)
LEMMA CompressGuardBooks ==
  ASSUME Inv, Books, NEW o \in Objects, CompressGuard(o)
  PROVE  Frame(o) /\ Own(o)
<1>0. /\ Shape /\ Ledger /\ Balanced(o) /\ op[o] \in Locals /\ At(o, "c_guard")
      /\ GuardOf(o) = {}
  BY OwnBefore DEF CompressGuard, Balanced, Guarded, Busy, At, GuardOf
<1>1. UNCHANGED <<object, rows, refs, payload, lastId, before, budget>>
  BY DEF CompressGuard, Guard, storeVars, physVars
<1>2. To(o, "c_share", op[o].done, op[o].wrote, op[o].old, Hashes)
  <2>1. op' = [op EXCEPT ![o].pc = "c_share", ![o].guard = Hashes]
    BY DEF CompressGuard, Guard
  <2>2. Hashes \in SUBSET Hashes
    OBVIOUS
  <2> QED
    BY <1>0, <2>1, <2>2, PCsAre, GuardGoes
<1>3. Kept
  BY <1>0, <1>1, SameRows
<1>4. Frame(o)
  BY <1>1, <1>2, <1>3 DEF Frame, To, Kept
<1>5. refs["plain"] = Count("plain") /\ refs["zip"] = Count("zip")
  <2>1. \A p \in Objects : GuardOf(p) \subseteq Held
    BY DEF GuardOf, Held
  <2>2. Hashes \cap Held = {}
    BY DEF CompressGuard, Guard
  <2> QED
    BY <1>0, <2>1, <2>2 DEF Ledger, FreeExact, Hashes
<1>6. Balanced(o)' /\ GuardOf(o)' = Hashes
  <2>0. \A pcs : Busy(o, pcs)' <=> "c_share" \in pcs
    BY <1>2 DEF Busy, To
  <2>1. op[o].done = {} /\ ~op[o].wrote
    BY <1>0 DEF Balanced, CompressDone, CompressRefs, Busy, At
  <2>2. ~RowIn(o)' /\ ~UnrowIn(o)' /\ ~RefIn(o)' /\ ~UnrefIn(o)' /\ ~UnrowIn(o)
    BY <1>2, <2>1 DEF RowIn, UnrowIn, RefIn, UnrefIn, To
  <2>3. CompressDone(o)'
    BY <1>2, <2>0, <2>1 DEF CompressDone, To
  <2>4. CompressRows(o)' /\ RowIds(o)' /\ CopyKept(o)'
    BY <1>0, <1>1, <1>2, <2>0, <2>2 DEF Balanced, CompressRows, RowIds, CopyKept, Busy,
       At, To, CompressPCs, SwapPCs, HasCopy, ArchivableCopy
  <2>5. CompressPayloads(o)' /\ CompressRefs(o)'
    BY <1>0, <1>1, <1>2, <1>3, <1>5, <2>0, <2>1, <2>2, OwnBefore DEF CompressPayloads,
       CompressRefs, Kept, One, To
  <2> QED
    BY <1>2, <2>3, <2>4, <2>5, CompressBalanced DEF CompressGuarded, CompressPCs
<1> QED
  BY <1>0, <1>1, <1>3, <1>4, <1>6 DEF Own, Ledger, Kept, CompressGuard, Guard

(* What the books say of an operation in compress that holds its payloads.   *)
LEMMA CompressBefore ==
  ASSUME Inv, Books, NEW o \in Objects, Busy(o, CompressGuarded)
  PROVE  /\ Shape /\ Ledger /\ Balanced(o) /\ op[o] \in Locals /\ op[o] # None
         /\ GuardOf(o) = Hashes /\ op[o].guard = Hashes
         /\ op[o].row.hash = "plain" /\ op[o].row \in Row /\ op[o].row.id <= lastId[o]
         /\ object[o].state # "ARCHIVED"
         /\ refs["plain"] + One(UnrefIn(o)) = Count("plain") + One(UnrowIn(o))
         /\ refs["zip"] + One(RowIn(o)) = Count("zip") + One(RefIn(o))
  BY OwnBefore DEF Balanced, Guarded, CompressRows, CompressRefs, Busy,
     CompressGuarded, GuardOf, Shape

\* A step of o changes only rows of o.
OwnRows(o) ==
  \A p \in Objects \ {o} :
    /\ rows'[p] = rows[p] /\ object'[p] = object[p]
    /\ before'[p] = before[p] /\ lastId'[p] = lastId[p]

\* The tables have their types.
Typed ==
  /\ refs' \in [Hashes -> Nat]
  /\ budget' \in [store : Nat, backend : Nat, crash : Nat]
  /\ \A h \in Hashes : IsFiniteSet(RowsWith(h))'

(* A fault is taken from the budget.                                         *)
LEMMA SpendTyped ==
  ASSUME Ledger, NEW k \in {"store", "backend", "crash"}, Spend(k)
  PROVE  budget' \in [store : Nat, backend : Nat, crash : Nat]
<1>1. budget \in [store : Nat, backend : Nat, crash : Nat] /\ budget[k] > 0
      /\ budget' = [budget EXCEPT ![k] = @ - 1]
  BY DEF Ledger, Spend
<1> QED
  BY <1>1

(* compress gives its payloads back when counts and rows agree.              *)
LEMMA CompressLeaves ==
  ASSUME Inv, Books, NEW o \in Objects, Busy(o, CompressGuarded), Return(o),
         UNCHANGED <<rows, refs, lastId, before>>, OwnRows(o),
         object'[o].state # "ARCHIVED",
         budget' \in [store : Nat, backend : Nat, crash : Nat],
         refs["plain"] = Count("plain"), refs["zip"] = Count("zip"),
         \A h \in Hashes : h \in payload \ payload' => refs[h] = 0
  PROVE  Frame(o) /\ Own(o)
<1>0. Shape /\ Ledger /\ Balanced(o) /\ GuardOf(o) = Hashes
  BY CompressBefore
<1>1. Others(o) /\ op'[o] = None
  BY <1>0, Leaves DEF Left
<1>2. Kept
  BY <1>0, SameRows
<1>3. Frame(o)
  BY <1>0, <1>1 DEF Frame, OwnRows
<1>4. Balanced(o)' /\ GuardOf(o)' = {}
  BY <1>0, <1>1, LeftBalanced DEF Balanced, RowIds
<1>5. \A h \in Hashes : refs'[h] = Count(h)'
  BY <1>2 DEF Kept, Hashes
<1>6. \A h \in Hashes : h \in payload \ payload' =>
        \A p \in Objects : \A r \in rows[p] : r.hash # h
  <2>1. \A h \in Hashes : refs[h] = Count(h)
    BY DEF Hashes
  <2> QED
    BY <1>0, <2>1, CountsRows
<1>7. refs' \in [Hashes -> Nat] /\ \A h \in Hashes : IsFiniteSet(RowsWith(h))'
  BY <1>0, <1>2 DEF Ledger, Kept
<1> QED
  BY <1>0, <1>3, <1>4, <1>5, <1>6, <1>7 DEF Own

(* A step inside compress.                                                   *)
LEMMA CompressGoes ==
  ASSUME Inv, Books, NEW o \in Objects, Busy(o, CompressGuarded),
         NEW l \in CompressGuarded, NEW d, NEW w, NEW n,
         To(o, l, d, w, n, Hashes), OwnRows(o), Typed, payload \subseteq payload',
         \A r \in rows'[o] : r \in rows[o] \/ r.hash \in payload',
         CompressDone(o)', CompressRows(o)', CompressPayloads(o)', CompressRefs(o)',
         CopyKept(o)', RowIds(o)'
  PROVE  Frame(o) /\ Own(o)
<1>0. GuardOf(o) = Hashes
  BY CompressBefore
<1>1. Balanced(o)' /\ GuardOf(o)' = Hashes
  BY CompressBalanced
<1>2. Frame(o)
  BY <1>0 DEF Frame, OwnRows, To
<1> QED
  BY <1>0, <1>1, <1>2 DEF Own, Typed

(* The compressed payload is shared when somebody refers to it, else written.  *)
LEMMA CompressShareBooks ==
  ASSUME Inv, Books, NEW o \in Objects, CompressShare(o)
  PROVE  Frame(o) /\ Own(o)
<1>0. Busy(o, CompressGuarded) /\ op[o].pc = "c_share"
  BY DEF CompressShare, At, Busy, CompressGuarded, CompressPCs
<1>1. /\ Shape /\ Ledger /\ Balanced(o) /\ op[o] \in Locals /\ op[o].guard = Hashes
      /\ object[o].state # "ARCHIVED" /\ op[o].done = {} /\ ~op[o].wrote
  BY <1>0, CompressBefore DEF Balanced, CompressDone, CompressRefs, Busy
<1>2. UNCHANGED <<object, rows, refs, payload, lastId, before, budget>>
  BY DEF CompressShare, storeVars, physVars
<1>3. refs["plain"] = Count("plain") /\ refs["zip"] = Count("zip")
      /\ refs["plain"] \in Nat /\ refs["zip"] \in Nat
  BY <1>0, <1>1, CompressBefore, OwnBefore DEF One, UnrefIn, UnrowIn, RowIn, RefIn
<1>4. OwnRows(o) /\ budget' \in [store : Nat, backend : Nat, crash : Nat]
  BY <1>1, <1>2 DEF OwnRows, Ledger
<1>5. CASE Return(o)
  BY <1>0, <1>1, <1>2, <1>3, <1>4, <1>5, CompressLeaves
<1>6. ASSUME NEW l \in {"c_write", "c_old"}, Goto(o, l),
             l = "c_write" => refs["zip"] = 0, l = "c_old" => "zip" \in payload
      PROVE  Frame(o) /\ Own(o)
  <2>1. l \in CompressGuarded /\ l \in PCs
    BY DEF CompressGuarded, CompressPCs, PCs
  <2>2. To(o, l, {}, op[o].wrote, op[o].old, Hashes)
    BY <1>1, <1>6, <2>1, GotoGoes DEF Goes
  <2>3. Kept
    BY <1>1, <1>2, SameRows
  <2>4. Typed
    BY <1>1, <1>2, <1>4, <2>3 DEF Typed, Kept, Ledger
  <2>5. \A pcs : Busy(o, pcs)' <=> l \in pcs
    BY <2>2 DEF Busy, To
  <2>6. ~RowIn(o)' /\ ~UnrowIn(o)' /\ ~RefIn(o)' /\ ~UnrefIn(o)' /\ ~UnrowIn(o)
    BY <1>1, <2>2 DEF RowIn, UnrowIn, RefIn, UnrefIn, To
  <2>7. CompressDone(o)'
    BY <2>2, <2>5 DEF CompressDone, To
  <2>8. CompressRows(o)' /\ RowIds(o)' /\ CopyKept(o)'
    BY <1>0, <1>1, <1>2, <2>1, <2>2, <2>5, <2>6 DEF Balanced, CompressRows, RowIds,
       CopyKept, Busy, To, CompressPCs, SwapPCs, HasCopy, ArchivableCopy
  <2>9. CompressPayloads(o)' /\ CompressRefs(o)'
    BY <1>1, <1>2, <1>3, <1>6, <2>2, <2>3, <2>5, <2>6 DEF CompressPayloads,
       CompressRefs, Kept, One, To
  <2> QED
    BY <1>0, <1>2, <1>4, <2>1, <2>2, <2>4, <2>7, <2>8, <2>9, CompressGoes
<1> QED
  BY <1>5, <1>6 DEF CompressShare

(* The compressed payload is written before anything refers to it.           *)
LEMMA CompressWriteBooks ==
  ASSUME Inv, Books, NEW o \in Objects, CompressWrite(o)
  PROVE  Frame(o) /\ Own(o)
<1>0. Busy(o, CompressGuarded) /\ op[o].pc = "c_write"
  BY DEF CompressWrite, At, Busy, CompressGuarded, CompressPCs
<1>1. /\ Shape /\ Ledger /\ Balanced(o) /\ op[o] \in Locals /\ op[o].guard = Hashes
      /\ op[o].done = {} /\ refs["zip"] = 0
  BY <1>0, CompressBefore DEF Balanced, CompressDone, CompressRefs, Busy
<1>2. UNCHANGED <<object, rows, refs, lastId, before, budget>>
      /\ payload' = payload \cup {"zip"}
  BY DEF CompressWrite, storeVars, physVars
<1>3. To(o, "c_old", {}, TRUE, op[o].old, Hashes)
  <2>1. op' = [op EXCEPT ![o].pc = "c_old", ![o].wrote = TRUE] /\ "c_old" \in PCs
    BY DEF CompressWrite, PCs, CompressPCs
  <2> QED
    BY <1>1, <2>1, WroteGoes
<1>4. Kept
  BY <1>1, <1>2, SameRows
<1>5. Typed /\ OwnRows(o)
  BY <1>1, <1>2, <1>4 DEF Typed, Kept, Ledger, OwnRows
<1>6. \A pcs : Busy(o, pcs)' <=> "c_old" \in pcs
  BY <1>3 DEF Busy, To
<1>7. /\ ~RowIn(o)' /\ ~UnrowIn(o)' /\ ~RefIn(o)' /\ ~UnrefIn(o)'
      /\ ~RowIn(o) /\ ~UnrowIn(o) /\ ~RefIn(o) /\ ~UnrefIn(o)
  BY <1>1, <1>3 DEF RowIn, UnrowIn, RefIn, UnrefIn, To
<1>8. CompressDone(o)'
  BY <1>3, <1>6 DEF CompressDone, To
<1>9. CompressRows(o)' /\ RowIds(o)' /\ CopyKept(o)'
  BY <1>0, <1>1, <1>2, <1>3, <1>6, <1>7 DEF Balanced, CompressRows, RowIds, CopyKept,
     Busy, To, CompressPCs, SwapPCs, HasCopy, ArchivableCopy
<1>10. CompressPayloads(o)' /\ CompressRefs(o)'
  BY <1>0, <1>1, <1>2, <1>3, <1>4, <1>6, <1>7, CompressBefore, OwnBefore
     DEF CompressPayloads, CompressRefs, Kept, One, To
<1>11. "c_old" \in CompressGuarded
  BY DEF CompressGuarded, CompressPCs
<1> QED
  BY <1>0, <1>2, <1>3, <1>5, <1>8, <1>9, <1>10, <1>11, CompressGoes

(* A write that fails leaves no row behind, whatever it leaves of the payload. *)
LEMMA CompressWriteFailsBooks ==
  ASSUME Inv, Books, NEW o \in Objects, CompressWriteFails(o)
  PROVE  Frame(o) /\ Own(o)
<1>0. Busy(o, CompressGuarded) /\ op[o].pc = "c_write"
  BY DEF CompressWriteFails, At, Busy, CompressGuarded, CompressPCs
<1>1. /\ Ledger /\ op[o].done = {} /\ refs["zip"] = 0 /\ object[o].state # "ARCHIVED"
  BY <1>0, CompressBefore DEF Balanced, CompressDone, CompressRefs, Busy
<1>2. /\ UNCHANGED <<object, rows, refs, lastId, before>> /\ Spend("backend")
      /\ Return(o)
      /\ payload' = payload \ {"zip"} \/ payload' = payload \cup {"zip"}
  BY DEF CompressWriteFails, storeVars, physVars
<1>3. budget' \in [store : Nat, backend : Nat, crash : Nat]
  BY <1>1, <1>2, SpendTyped
<1>4. refs["plain"] = Count("plain") /\ refs["zip"] = Count("zip")
  BY <1>0, <1>1, CompressBefore, OwnBefore DEF One, UnrefIn, UnrowIn, RowIn, RefIn
<1>5. \A h \in Hashes : h \in payload \ payload' => refs[h] = 0
  BY <1>1, <1>2
<1>6. OwnRows(o)
  BY <1>2 DEF OwnRows
<1> QED
  BY <1>0, <1>1, <1>2, <1>3, <1>4, <1>5, <1>6, CompressLeaves

(* The count of the source is read while it is exact.                        *)
LEMMA CompressOldBooks ==
  ASSUME Inv, Books, NEW o \in Objects, CompressOld(o)
  PROVE  Frame(o) /\ Own(o)
<1>0. Busy(o, CompressGuarded) /\ op[o].pc = "c_old"
  BY DEF CompressOld, At, Busy, CompressGuarded, CompressPCs
<1>1. /\ Shape /\ Ledger /\ Balanced(o) /\ op[o] \in Locals /\ op[o].guard = Hashes
      /\ op[o].done = {} /\ "zip" \in payload /\ object[o].state # "ARCHIVED"
      /\ op[o].wrote => refs["zip"] = One(RefIn(o))
  BY <1>0, CompressBefore DEF Balanced, CompressDone, CompressRefs, CompressPayloads,
     Busy, CompressGuarded
<1>2. UNCHANGED <<object, rows, refs, payload, lastId, before, budget>>
  BY DEF CompressOld, storeVars, physVars
<1>3. ~RowIn(o) /\ ~UnrowIn(o) /\ ~RefIn(o) /\ ~UnrefIn(o)
  BY <1>1 DEF RowIn, UnrowIn, RefIn, UnrefIn
<1>4. refs["plain"] = Count("plain") /\ refs["zip"] = Count("zip")
      /\ refs["plain"] \in Nat /\ refs["zip"] \in Nat
  BY <1>0, <1>3, CompressBefore, OwnBefore DEF One
<1>5. OwnRows(o) /\ budget' \in [store : Nat, backend : Nat, crash : Nat]
  BY <1>1, <1>2 DEF OwnRows, Ledger
<1>6. CASE Return(o)
  BY <1>0, <1>1, <1>2, <1>4, <1>5, <1>6, CompressLeaves
<1>7. CASE op' = [op EXCEPT ![o].pc = "c_ref", ![o].old = refs["plain"]]
  <2>1. "c_ref" \in CompressGuarded /\ "c_ref" \in PCs
    BY DEF CompressGuarded, CompressPCs, PCs
  <2>2. To(o, "c_ref", {}, op[o].wrote, refs["plain"], Hashes)
    BY <1>1, <1>4, <1>7, <2>1, OldGoes
  <2>3. Kept
    BY <1>1, <1>2, SameRows
  <2>4. Typed
    BY <1>1, <1>2, <1>5, <2>3 DEF Typed, Kept, Ledger
  <2>5. \A pcs : Busy(o, pcs)' <=> "c_ref" \in pcs
    BY <2>2 DEF Busy, To
  <2>6. ~RowIn(o)' /\ ~UnrowIn(o)' /\ ~RefIn(o)' /\ ~UnrefIn(o)'
    BY <2>2 DEF RowIn, UnrowIn, RefIn, UnrefIn, To
  <2>7. CompressDone(o)'
    BY <2>2, <2>5 DEF CompressDone, To
  <2>8. CompressRows(o)' /\ RowIds(o)' /\ CopyKept(o)'
    BY <1>0, <1>1, <1>2, <1>3, <2>1, <2>2, <2>5, <2>6 DEF Balanced, CompressRows, RowIds,
       CopyKept, Busy, To, CompressPCs, SwapPCs, HasCopy, ArchivableCopy
  <2>9. CompressPayloads(o)' /\ CompressRefs(o)'
    BY <1>1, <1>2, <1>3, <1>4, <2>2, <2>3, <2>5, <2>6 DEF CompressPayloads,
       CompressRefs, Kept, One, To
  <2> QED
    BY <1>0, <1>2, <1>5, <2>1, <2>2, <2>4, <2>7, <2>8, <2>9, CompressGoes
<1> QED
  BY <1>6, <1>7 DEF CompressOld

(* The new reference comes first.                                            *)
LEMMA CompressRefBooks ==
  ASSUME Inv, Books, NEW o \in Objects, CompressRef(o)
  PROVE  Frame(o) /\ Own(o)
<1>0. Busy(o, CompressGuarded) /\ op[o].pc = "c_ref"
  BY DEF CompressRef, At, Busy, CompressGuarded, CompressPCs
<1>1. /\ Shape /\ Ledger /\ Balanced(o) /\ op[o] \in Locals /\ op[o].guard = Hashes
      /\ op[o].done = {} /\ "zip" \in payload
      /\ op[o].wrote => refs["zip"] = One(RefIn(o))
      /\ op[o].old = refs["plain"] + One(UnrefIn(o))
  BY <1>0, CompressBefore DEF Balanced, CompressDone, CompressRefs, CompressPayloads,
     Busy, CompressGuarded
<1>2. /\ UNCHANGED <<object, rows, payload, lastId, before, budget>>
      /\ refs' = [refs EXCEPT !["zip"] = @ + 1]
  BY DEF CompressRef, Acquire, physVars
<1>3. ~RowIn(o) /\ ~UnrowIn(o) /\ ~RefIn(o) /\ ~UnrefIn(o)
  BY <1>1 DEF RowIn, UnrowIn, RefIn, UnrefIn
<1>4. refs["plain"] = Count("plain") /\ refs["zip"] = Count("zip")
      /\ refs["plain"] \in Nat /\ refs["zip"] \in Nat
  BY <1>0, <1>3, CompressBefore, OwnBefore DEF One
<1>5. /\ refs'["zip"] = refs["zip"] + 1 /\ refs'["plain"] = refs["plain"]
      /\ refs' \in [Hashes -> Nat]
  BY <1>1, <1>2 DEF Ledger, Hashes
<1>6. "c_unref" \in CompressGuarded /\ "c_unref" \in PCs /\ "ref" \in Metadata
  BY DEF CompressGuarded, CompressPCs, PCs, Metadata
<1>7. To(o, "c_unref", {"ref"}, op[o].wrote, op[o].old, Hashes)
  <2>1. Did(o, "ref", "c_unref") /\ op[o].done \cup {"ref"} = {"ref"}
    BY <1>1 DEF CompressRef
  <2>2. Shape /\ op[o] \in Locals
    BY <1>1
  <2>3. To(o, "c_unref", op[o].done \cup {"ref"}, op[o].wrote, op[o].old, op[o].guard)
    BY <1>6, <2>1, <2>2, DidGoes
  <2> QED
    BY <1>1, <2>1, <2>3
<1>8. Kept
  BY <1>1, <1>2, SameRows
<1>9. Typed /\ OwnRows(o)
  BY <1>1, <1>2, <1>5, <1>8 DEF Typed, Kept, Ledger, OwnRows
<1>10. \A pcs : Busy(o, pcs)' <=> "c_unref" \in pcs
  BY <1>7 DEF Busy, To
<1>11. ~RowIn(o)' /\ ~UnrowIn(o)' /\ RefIn(o)' /\ ~UnrefIn(o)'
  BY <1>7 DEF RowIn, UnrowIn, RefIn, UnrefIn, To
<1>12. CompressDone(o)'
  BY <1>7, <1>10 DEF CompressDone, To
<1>13. CompressRows(o)' /\ RowIds(o)' /\ CopyKept(o)'
  BY <1>0, <1>1, <1>2, <1>3, <1>7, <1>10, <1>11 DEF Balanced, CompressRows, RowIds,
     CopyKept, Busy, To, CompressPCs, SwapPCs, HasCopy, ArchivableCopy
<1>14. CompressPayloads(o)' /\ CompressRefs(o)'
  BY <1>1, <1>2, <1>3, <1>4, <1>5, <1>7, <1>8, <1>10, <1>11 DEF CompressPayloads,
     CompressRefs, Kept, One, To
<1> QED
  BY <1>0, <1>2, <1>6, <1>7, <1>9, <1>12, <1>13, <1>14, CompressGoes

(* The reference of the source goes.                                         *)
LEMMA CompressUnrefBooks ==
  ASSUME Inv, Books, NEW o \in Objects, CompressUnref(o)
  PROVE  Frame(o) /\ Own(o)
<1>0. Busy(o, CompressGuarded) /\ op[o].pc = "c_unref"
  BY DEF CompressUnref, At, Busy, CompressGuarded, CompressPCs
<1>1. /\ Shape /\ Ledger /\ Balanced(o) /\ op[o] \in Locals /\ op[o].guard = Hashes
      /\ op[o].done = {"ref"} /\ "zip" \in payload
      /\ op[o].wrote => refs["zip"] = One(RefIn(o))
      /\ op[o].old = refs["plain"] + One(UnrefIn(o))
  BY <1>0, CompressBefore DEF Balanced, CompressDone, CompressRefs, CompressPayloads,
     Busy, CompressGuarded
<1>2. /\ UNCHANGED <<object, rows, payload, lastId, before, budget>>
      /\ refs["plain"] > 0 /\ refs' = [refs EXCEPT !["plain"] = @ - 1]
  BY DEF CompressUnref, Unref, physVars
<1>3. ~RowIn(o) /\ ~UnrowIn(o) /\ RefIn(o) /\ ~UnrefIn(o)
  BY <1>0, <1>1 DEF RowIn, UnrowIn, RefIn, UnrefIn
<1>4. refs["plain"] = Count("plain") /\ refs["zip"] = Count("zip") + 1
      /\ refs["plain"] \in Nat /\ refs["zip"] \in Nat
  BY <1>0, <1>3, CompressBefore, OwnBefore DEF One
<1>5. /\ refs'["zip"] = refs["zip"] /\ refs'["plain"] = refs["plain"] - 1
      /\ refs' \in [Hashes -> Nat]
  BY <1>1, <1>2 DEF Ledger, Hashes
<1>6. "c_unrow" \in CompressGuarded /\ "c_unrow" \in PCs /\ "unref" \in Metadata
  BY DEF CompressGuarded, CompressPCs, PCs, Metadata
<1>7. To(o, "c_unrow", {"ref", "unref"}, op[o].wrote, op[o].old, Hashes)
  <2>1. Did(o, "unref", "c_unrow") /\ op[o].done \cup {"unref"} = {"ref", "unref"}
    BY <1>1 DEF CompressUnref
  <2>2. Shape /\ op[o] \in Locals
    BY <1>1
  <2>3. To(o, "c_unrow", op[o].done \cup {"unref"}, op[o].wrote, op[o].old, op[o].guard)
    BY <1>6, <2>1, <2>2, DidGoes
  <2> QED
    BY <1>1, <2>1, <2>3
<1>8. Kept
  BY <1>1, <1>2, SameRows
<1>9. Typed /\ OwnRows(o)
  BY <1>1, <1>2, <1>5, <1>8 DEF Typed, Kept, Ledger, OwnRows
<1>10. \A pcs : Busy(o, pcs)' <=> "c_unrow" \in pcs
  BY <1>7 DEF Busy, To
<1>11. ~RowIn(o)' /\ ~UnrowIn(o)' /\ RefIn(o)' /\ UnrefIn(o)'
  BY <1>7 DEF RowIn, UnrowIn, RefIn, UnrefIn, To
<1>12. CompressDone(o)'
  BY <1>7, <1>10 DEF CompressDone, To
<1>13. CompressRows(o)' /\ RowIds(o)' /\ CopyKept(o)'
  BY <1>0, <1>1, <1>2, <1>3, <1>7, <1>10, <1>11 DEF Balanced, CompressRows, RowIds,
     CopyKept, Busy, To, CompressPCs, SwapPCs, HasCopy, ArchivableCopy
<1>14. CompressPayloads(o)' /\ CompressRefs(o)'
  BY <1>1, <1>2, <1>3, <1>4, <1>5, <1>7, <1>8, <1>10, <1>11 DEF CompressPayloads,
     CompressRefs, Kept, One, To
<1> QED
  BY <1>0, <1>2, <1>6, <1>7, <1>9, <1>12, <1>13, <1>14, CompressGoes

(* The row of the source goes; its payload stays for the compensation.       *)
LEMMA CompressUnrowBooks ==
  ASSUME Inv, Books, NEW o \in Objects, CompressUnrow(o)
  PROVE  Frame(o) /\ Own(o)
<1>0. Busy(o, CompressGuarded) /\ op[o].pc = "c_unrow"
  BY DEF CompressUnrow, At, Busy, CompressGuarded, CompressPCs
<1>1. /\ Shape /\ Ledger /\ Balanced(o) /\ op[o] \in Locals /\ op[o].guard = Hashes
      /\ op[o].done = {"ref", "unref"} /\ "zip" \in payload
      /\ op[o].wrote => refs["zip"] = One(RefIn(o))
      /\ op[o].old = refs["plain"] + One(UnrefIn(o))
      /\ op[o].row.hash = "plain" /\ op[o].row \in Row /\ op[o].row.id <= lastId[o]
      /\ ~object[o].zip /\ object[o].state # "ARCHIVED"
  BY <1>0, CompressBefore DEF Balanced, CompressDone, CompressRefs, CompressPayloads,
     CompressRows, Busy, CompressGuarded
<1>2. /\ UNCHANGED <<object, refs, payload, lastId, before, budget>>
      /\ DropRow(o, op[o].row)
  BY DEF CompressUnrow, physVars
<1>3. ~RowIn(o) /\ ~UnrowIn(o) /\ RefIn(o) /\ UnrefIn(o)
  BY <1>0, <1>1 DEF RowIn, UnrowIn, RefIn, UnrefIn
<1>4. refs["plain"] + 1 = Count("plain") /\ refs["zip"] = Count("zip") + 1
      /\ refs["plain"] \in Nat /\ refs["zip"] \in Nat
      /\ Count("plain") \in Nat /\ Count("zip") \in Nat
  BY <1>0, <1>3, CompressBefore, OwnBefore DEF One
<1>5. op[o].row \in rows[o] /\ "plain" \in payload
  <2>1. op[o].row \in rows[o]
    BY <1>0, <1>1, <1>3 DEF Balanced, CompressRows, Busy, CompressGuarded
  <2> QED
    BY <1>1, <2>1 DEF Ledger, PayloadOfEveryRow
<1>6. "c_row" \in CompressGuarded /\ "c_row" \in PCs /\ "unrow" \in Metadata
  BY DEF CompressGuarded, CompressPCs, PCs, Metadata
<1>7. To(o, "c_row", {"ref", "unref", "unrow"}, op[o].wrote, op[o].old, Hashes)
  <2>1. Did(o, "unrow", "c_row")
        /\ op[o].done \cup {"unrow"} = {"ref", "unref", "unrow"}
    BY <1>1 DEF CompressUnrow
  <2>2. Shape /\ op[o] \in Locals
    BY <1>1
  <2>3. To(o, "c_row", op[o].done \cup {"unrow"}, op[o].wrote, op[o].old, op[o].guard)
    BY <1>6, <2>1, <2>2, DidGoes
  <2> QED
    BY <1>1, <2>1, <2>3
<1>8. /\ Count("plain")' = Count("plain") - 1 /\ Count("zip")' = Count("zip")
      /\ \A h \in Hashes : IsFiniteSet(RowsWith(h))'
      /\ rows'[o] = rows[o] \ {op[o].row}
      /\ \A p \in Objects \ {o} : rows'[p] = rows[p]
  <2>1. PICK r \in Row : r = op[o].row
    BY <1>1
  <2>2. /\ Count("plain")' = Count("plain") - 1 /\ IsFiniteSet(RowsWith("plain"))'
        /\ RowsWith("zip")' = RowsWith("zip")
        /\ rows'[o] = rows[o] \ {r} /\ \A p \in Objects \ {o} : rows'[p] = rows[p]
    BY <1>1, <1>2, <1>5, <2>1, RowsWithDropped
  <2> QED
    BY <1>1, <2>1, <2>2 DEF Ledger, Count, Hashes
<1>9. Typed /\ OwnRows(o)
  BY <1>1, <1>2, <1>8 DEF Typed, Ledger, OwnRows
<1>10. \A pcs : Busy(o, pcs)' <=> "c_row" \in pcs
  BY <1>7 DEF Busy, To
<1>11. ~RowIn(o)' /\ UnrowIn(o)' /\ RefIn(o)' /\ UnrefIn(o)'
  BY <1>7 DEF RowIn, UnrowIn, RefIn, UnrefIn, To
<1>12. CompressDone(o)'
  BY <1>7, <1>10 DEF CompressDone, To
<1>13. CompressRows(o)' /\ RowIds(o)' /\ CopyKept(o)'
  BY <1>1, <1>2, <1>7, <1>8, <1>10, <1>11 DEF Balanced, CompressRows, RowIds, CopyKept,
     To, CompressPCs, SwapPCs
<1>14. CompressPayloads(o)' /\ CompressRefs(o)'
  BY <1>1, <1>2, <1>3, <1>4, <1>5, <1>7, <1>8, <1>10, <1>11 DEF CompressPayloads,
     CompressRefs, One, To
<1> QED
  BY <1>0, <1>2, <1>6, <1>7, <1>8, <1>9, <1>12, <1>13, <1>14, CompressGoes

(* The new row has its payload.                                              *)
LEMMA CompressRowBooks ==
  ASSUME Inv, Books, NEW o \in Objects, CompressRow(o)
  PROVE  Frame(o) /\ Own(o)
<1>0. Busy(o, CompressGuarded) /\ op[o].pc = "c_row"
  BY DEF CompressRow, At, Busy, CompressGuarded, CompressPCs
<1>1. /\ Shape /\ Ledger /\ Balanced(o) /\ op[o] \in Locals /\ op[o].guard = Hashes
      /\ op[o].done = {"ref", "unref", "unrow"} /\ "zip" \in payload
      /\ op[o].wrote => refs["zip"] = One(RefIn(o))
      /\ op[o].old = refs["plain"] + One(UnrefIn(o))
      /\ op[o].row.hash = "plain" /\ op[o].row \in Row /\ op[o].row.id <= lastId[o]
      /\ RowIds(o)
      /\ ~object[o].zip /\ object[o].state # "ARCHIVED"
  BY <1>0, CompressBefore DEF Balanced, CompressDone, CompressRefs, CompressPayloads,
     CompressRows, Busy, CompressGuarded
<1>2. /\ UNCHANGED <<object, refs, payload, before, budget>>
      /\ AddRow(o, NewRow(o, "zip")) /\ lastId' = [lastId EXCEPT ![o] = @ + 1]
  BY DEF CompressRow, physVars
<1>3. ~RowIn(o) /\ UnrowIn(o) /\ RefIn(o) /\ UnrefIn(o)
  BY <1>0, <1>1 DEF RowIn, UnrowIn, RefIn, UnrefIn
<1>4. refs["plain"] = Count("plain") /\ refs["zip"] = Count("zip") + 1
      /\ refs["plain"] \in Nat /\ refs["zip"] \in Nat
      /\ Count("plain") \in Nat /\ Count("zip") \in Nat
  BY <1>0, <1>3, CompressBefore, OwnBefore DEF One
<1>5. op[o].row \notin rows[o] /\ "plain" \in payload
  BY <1>0, <1>1, <1>3 DEF Balanced, CompressRows, CompressPayloads, Busy,
     CompressGuarded
<1>6. "c_object" \in CompressGuarded /\ "c_object" \in PCs /\ "row" \in Metadata
  BY DEF CompressGuarded, CompressPCs, PCs, Metadata
<1>7. To(o, "c_object", {"ref", "unref", "unrow", "row"}, op[o].wrote, op[o].old, Hashes)
  <2>1. Did(o, "row", "c_object")
        /\ op[o].done \cup {"row"} = {"ref", "unref", "unrow", "row"}
    BY <1>1 DEF CompressRow
  <2>2. Shape /\ op[o] \in Locals
    BY <1>1
  <2>3. To(o, "c_object", op[o].done \cup {"row"}, op[o].wrote, op[o].old, op[o].guard)
    BY <1>6, <2>1, <2>2, DidGoes
  <2> QED
    BY <1>1, <2>1, <2>3
<1>8. PICK r \in Row : r = NewRow(o, "zip") /\ r \notin rows[o] /\ r.hash = "zip"
                       /\ r = Newest(o, "zip")' /\ r.id = lastId'[o]
                       /\ lastId[o] <= lastId'[o]
                       /\ \A p \in Objects \ {o} : lastId'[p] = lastId[p]
  <2>1. /\ lastId[o] \in Nat /\ lastId'[o] = lastId[o] + 1
        /\ \A p \in Objects \ {o} : lastId'[p] = lastId[p]
    BY <1>1, <1>2 DEF Shape
  <2>2. NewRow(o, "zip") \in Row /\ NewRow(o, "zip").id = lastId[o] + 1
    BY <2>1 DEF NewRow, Row, Hashes
  <2>3. NewRow(o, "zip") \notin rows[o]
    BY <1>1, <2>1, <2>2 DEF RowIds
  <2> QED
    BY <2>1, <2>2, <2>3 DEF NewRow, Newest
<1>9. /\ Count("zip")' = Count("zip") + 1 /\ Count("plain")' = Count("plain")
      /\ \A h \in Hashes : IsFiniteSet(RowsWith(h))'
      /\ rows'[o] = rows[o] \cup {r}
      /\ \A p \in Objects \ {o} : rows'[p] = rows[p]
  <2>1. /\ Count("zip")' = Count("zip") + 1 /\ IsFiniteSet(RowsWith("zip"))'
        /\ RowsWith("plain")' = RowsWith("plain")
        /\ rows'[o] = rows[o] \cup {r} /\ \A p \in Objects \ {o} : rows'[p] = rows[p]
    BY <1>1, <1>2, <1>8, RowsWithAdded
  <2> QED
    BY <1>1, <2>1 DEF Ledger, Count, Hashes
<1>10. Typed /\ OwnRows(o)
  BY <1>1, <1>2, <1>8, <1>9 DEF Typed, Ledger, OwnRows
<1>11. \A pcs : Busy(o, pcs)' <=> "c_object" \in pcs
  BY <1>7 DEF Busy, To
<1>12. RowIn(o)' /\ UnrowIn(o)' /\ RefIn(o)' /\ UnrefIn(o)'
  BY <1>7 DEF RowIn, UnrowIn, RefIn, UnrefIn, To
<1>13. CompressDone(o)'
  BY <1>7, <1>11 DEF CompressDone, To
<1>14. CompressRows(o)' /\ CopyKept(o)'
  <2>1. op[o].row.id <= lastId'[o]
    <3>1. op[o].row.id \in Nat /\ lastId[o] \in Nat /\ lastId'[o] \in Nat
      BY <1>1, <1>8 DEF Shape, Row
    <3> QED
      BY <1>1, <1>8, <3>1
  <2> QED
    BY <1>1, <1>2, <1>5, <1>7, <1>8, <1>9, <1>11, <1>12, <2>1 DEF CompressRows,
       CopyKept, To, CompressPCs, SwapPCs
<1>15. RowIds(o)'
  <2>1. \A q \in rows[o] : q.id \in Nat /\ q.id <= lastId[o]
    BY <1>1 DEF RowIds, Shape, Row
  <2>2. lastId[o] \in Nat /\ lastId'[o] \in Nat
    BY <1>1, <1>8 DEF Shape, Row
  <2> QED
    BY <1>8, <1>9, <2>1, <2>2 DEF RowIds
<1>16. CompressPayloads(o)' /\ CompressRefs(o)'
  BY <1>1, <1>2, <1>3, <1>4, <1>5, <1>7, <1>9, <1>11, <1>12 DEF CompressPayloads,
     CompressRefs, One, To
<1> QED
  BY <1>0, <1>1, <1>2, <1>6, <1>7, <1>8, <1>9, <1>10, <1>13, <1>14, <1>15, <1>16,
     CompressGoes

(* The object row follows when the new row is there; compress ends, or goes  *)
(* on to delete a source that nobody refers to.                              *)
LEMMA CompressObjectBooks ==
  ASSUME Inv, Books, NEW o \in Objects, CompressObject(o)
  PROVE  Frame(o) /\ Own(o)
<1>0. Busy(o, CompressGuarded) /\ op[o].pc = "c_object"
  BY DEF CompressObject, At, Busy, CompressGuarded, CompressPCs
<1>1. /\ Shape /\ Ledger /\ Balanced(o) /\ op[o] \in Locals /\ op[o].guard = Hashes
      /\ op[o].done = {"ref", "unref", "unrow", "row"}
      /\ op[o].wrote => refs["zip"] = One(RefIn(o))
      /\ op[o].old = refs["plain"] + One(UnrefIn(o))
  BY <1>0, CompressBefore DEF Balanced, CompressDone, CompressRefs, Busy,
     CompressGuarded
<1>2. /\ UNCHANGED <<rows, refs, payload, lastId, before, budget>>
      /\ SetObject(o, "COMPRESSED", TRUE)
  BY DEF CompressObject, physVars
<1>3. RowIn(o) /\ UnrowIn(o) /\ RefIn(o) /\ UnrefIn(o)
  BY <1>0, <1>1 DEF RowIn, UnrowIn, RefIn, UnrefIn
<1>4. refs["plain"] = Count("plain") /\ refs["zip"] = Count("zip")
      /\ refs["plain"] \in Nat /\ refs["zip"] \in Nat
  BY <1>0, <1>3, CompressBefore, OwnBefore DEF One
<1>5. /\ object'[o].state = "COMPRESSED" /\ object'[o].zip
      /\ \A p \in Objects \ {o} : object'[p] = object[p]
  BY <1>1, <1>2 DEF Shape, SetObject
<1>6. OwnRows(o) /\ budget' \in [store : Nat, backend : Nat, crash : Nat]
  BY <1>1, <1>2, <1>5 DEF OwnRows, Ledger
<1>7. CASE Return(o)
  BY <1>0, <1>2, <1>4, <1>5, <1>6, <1>7, CompressLeaves
<1>8. CASE Goto(o, "c_delete") /\ op[o].old = 1
  <2>1. "c_delete" \in CompressGuarded /\ "c_delete" \in PCs
    BY DEF CompressGuarded, CompressPCs, PCs
  <2>2. To(o, "c_delete", {"ref", "unref", "unrow", "row"}, op[o].wrote, op[o].old,
           Hashes)
    BY <1>1, <1>8, <2>1, GotoGoes DEF Goes
  <2>3. Kept
    BY <1>1, <1>2, SameRows
  <2>4. Typed
    BY <1>1, <1>2, <1>6, <2>3 DEF Typed, Kept, Ledger
  <2>5. \A pcs : Busy(o, pcs)' <=> "c_delete" \in pcs
    BY <2>2 DEF Busy, To
  <2>6. RowIn(o)' /\ UnrowIn(o)' /\ RefIn(o)' /\ UnrefIn(o)'
    BY <2>2 DEF RowIn, UnrowIn, RefIn, UnrefIn, To
  <2>7. CompressDone(o)'
    BY <2>2, <2>5 DEF CompressDone, To
  <2>8. /\ op[o].row.hash = "plain" /\ op[o].row.id <= lastId[o]
        /\ op[o].row \notin rows[o] /\ Newest(o, "zip") \in rows[o]
    BY <1>0, <1>1, <1>3 DEF Balanced, CompressRows, Busy, CompressGuarded
  <2>9. CompressRows(o)' /\ RowIds(o)'
    BY <1>1, <1>2, <1>5, <2>2, <2>5, <2>6, <2>8 DEF Balanced, CompressRows, RowIds, To,
       CompressPCs, Newest
  <2>10. CopyKept(o)'
    <3>1. Newest(o, "zip").hash = "zip"
      BY DEF Newest
    <3> QED
      BY <1>2, <1>5, <2>8, <3>1 DEF CopyKept, HasCopy, ArchivableCopy
  <2>11. CompressPayloads(o)' /\ CompressRefs(o)'
    BY <1>1, <1>2, <1>3, <1>4, <1>8, <2>2, <2>3, <2>5, <2>6 DEF CompressPayloads,
       CompressRefs, Kept, One, To
  <2> QED
    BY <1>0, <1>2, <1>6, <2>1, <2>2, <2>4, <2>7, <2>9, <2>10, <2>11, CompressGoes
<1> QED
  BY <1>7, <1>8 DEF CompressObject

(* A source is deleted when its last reference was this operation's.         *)
LEMMA CompressDeleteBooks ==
  ASSUME Inv, Books, NEW o \in Objects, CompressDelete(o)
  PROVE  Frame(o) /\ Own(o)
<1>0. Busy(o, CompressGuarded) /\ op[o].pc = "c_delete"
  BY DEF CompressDelete, At, Busy, CompressGuarded, CompressPCs
<1>1. /\ Ledger /\ op[o].done = {"ref", "unref", "unrow", "row"}
      /\ op[o].old = refs["plain"] + One(UnrefIn(o)) /\ object[o].state # "ARCHIVED"
      /\ op[o].old = 1
  BY <1>0, CompressBefore DEF Balanced, CompressDone, CompressRefs, Busy,
     CompressGuarded
<1>2. /\ UNCHANGED <<object, rows, refs, lastId, before>> /\ Return(o)
      /\ \/ payload' = payload \ {"plain"} /\ UNCHANGED budget
         \/ UNCHANGED payload /\ Spend("backend")
  BY DEF CompressDelete, storeVars
<1>3. RowIn(o) /\ UnrowIn(o) /\ RefIn(o) /\ UnrefIn(o)
  BY <1>0, <1>1 DEF RowIn, UnrowIn, RefIn, UnrefIn
<1>4. refs["plain"] = Count("plain") /\ refs["zip"] = Count("zip") /\ refs["plain"] = 0
  BY <1>0, <1>1, <1>3, CompressBefore, OwnBefore DEF One
<1>5. budget' \in [store : Nat, backend : Nat, crash : Nat]
  BY <1>1, <1>2, SpendTyped DEF Ledger
<1>6. \A h \in Hashes : h \in payload \ payload' => refs[h] = 0
  BY <1>2, <1>4
<1>7. OwnRows(o)
  BY <1>2 DEF OwnRows
<1> QED
  BY <1>0, <1>1, <1>2, <1>4, <1>5, <1>6, <1>7, CompressLeaves

\* A prefix of the statements of compress.
CompressUndone(done) ==
  done \in {{}, {"ref"}, {"ref", "unref"}, {"ref", "unref", "unrow"},
            {"ref", "unref", "unrow", "row"}}

(* The new row goes if it was added.                                        *)
LEMMA CompressUndoRowBooks ==
  ASSUME Inv, Books, NEW o \in Objects, CompressUndoRow(o)
  PROVE  Frame(o) /\ Own(o)
<1>0. Busy(o, CompressGuarded) /\ op[o].pc = "c_fix_row"
  BY DEF CompressUndoRow, At, Busy, CompressGuarded, CompressPCs
<1>1. /\ Shape /\ Ledger /\ Balanced(o) /\ op[o] \in Locals /\ op[o].guard = Hashes
      /\ CompressUndone(op[o].done) /\ RowIds(o)
      /\ op[o].wrote => refs["zip"] = One(RefIn(o))
      /\ op[o].row.hash = "plain" /\ op[o].row \in Row /\ op[o].row.id <= lastId[o]
      /\ ~object[o].zip /\ object[o].state # "ARCHIVED"
      /\ op[o].row \in rows[o] <=> ~UnrowIn(o)
      /\ RowIn(o) => Newest(o, "zip") \in rows[o]
      /\ UnrowIn(o) => "plain" \in payload
  BY <1>0, CompressBefore DEF Balanced, CompressDone, CompressRefs, CompressPayloads,
     CompressRows, Busy, CompressGuarded, CompressUndone
<1>2. /\ refs["plain"] + One(UnrefIn(o)) = Count("plain") + One(UnrowIn(o))
      /\ refs["zip"] + One(RowIn(o)) = Count("zip") + One(RefIn(o))
      /\ refs["plain"] \in Nat /\ refs["zip"] \in Nat
      /\ Count("plain") \in Nat /\ Count("zip") \in Nat
  BY <1>0, CompressBefore, OwnBefore
<1>3. "c_fix_unrow" \in CompressGuarded /\ "c_fix_unrow" \in PCs
  BY DEF CompressGuarded, CompressPCs, PCs
<1>4. To(o, "c_fix_unrow", op[o].done, op[o].wrote, op[o].old, Hashes)
  BY <1>1, <1>3, GotoGoes DEF CompressUndoRow, Goes
<1>5. \A pcs : Busy(o, pcs)' <=> "c_fix_unrow" \in pcs
  BY <1>4 DEF Busy, To
<1>6. CompressDone(o)'
  BY <1>1, <1>4, <1>5 DEF CompressDone, CompressUndone, To
<1>7. /\ RowIn(o) <=> "row" \in op[o].done
      /\ ~RowIn(o)' /\ (UnrowIn(o)' <=> UnrowIn(o))
      /\ (RefIn(o)' <=> RefIn(o)) /\ (UnrefIn(o)' <=> UnrefIn(o))
  BY <1>0, <1>4 DEF RowIn, UnrowIn, RefIn, UnrefIn, To
<1>8. /\ UNCHANGED <<object, refs, payload, lastId, before, budget>>
      /\ IF RowIn(o) THEN DropRow(o, Newest(o, "zip")) ELSE UNCHANGED rows
  BY <1>7 DEF CompressUndoRow, Newest, physVars
<1>9. /\ Count("zip")' = Count("zip") - One(RowIn(o)) /\ Count("plain")' = Count("plain")
      /\ \A h \in Hashes : IsFiniteSet(RowsWith(h))'
      /\ rows'[o] \subseteq rows[o]
      /\ \A q \in rows[o] : q.hash = "plain" => q \in rows'[o]
      /\ \A p \in Objects \ {o} : rows'[p] = rows[p]
  <2>1. CASE RowIn(o)
    <3>1. PICK r \in Row : r = Newest(o, "zip") /\ r.hash = "zip" /\ r \in rows[o]
      BY <1>1, <2>1 DEF Newest, Shape
    <3>2. /\ Count("zip")' = Count("zip") - 1 /\ IsFiniteSet(RowsWith("zip"))'
          /\ RowsWith("plain")' = RowsWith("plain")
          /\ rows'[o] = rows[o] \ {r} /\ \A p \in Objects \ {o} : rows'[p] = rows[p]
      BY <1>1, <1>8, <2>1, <3>1, RowsWithDropped
    <3>3. \A h \in Hashes : IsFiniteSet(RowsWith(h))'
      BY <1>1, <3>2 DEF Ledger, Hashes
    <3>4. Count("plain")' = Count("plain")
      BY <3>2 DEF Count
    <3> QED
      BY <1>2, <2>1, <3>1, <3>2, <3>3, <3>4 DEF One
  <2>2. CASE ~RowIn(o)
    BY <1>1, <1>2, <1>8, <2>2, SameRows DEF Kept, One
  <2> QED
    BY <2>1, <2>2
<1>10. Typed /\ OwnRows(o)
  BY <1>1, <1>8, <1>9 DEF Typed, Ledger, OwnRows
<1>11. CompressRows(o)' /\ RowIds(o)' /\ CopyKept(o)'
  BY <1>1, <1>4, <1>5, <1>7, <1>8, <1>9 DEF CompressRows, RowIds, CopyKept, To,
     CompressPCs, SwapPCs
<1>12. CompressPayloads(o)'
  BY <1>1, <1>5, <1>7, <1>8 DEF CompressPayloads
<1>13. CompressRefs(o)'
  BY <1>1, <1>2, <1>4, <1>5, <1>7, <1>8, <1>9 DEF CompressRefs, One, To
<1> QED
  BY <1>0, <1>3, <1>4, <1>6, <1>8, <1>9, <1>10, <1>11, <1>12, <1>13, CompressGoes

(* The row of the source comes back; its payload is still there.            *)
LEMMA CompressUndoUnrowBooks ==
  ASSUME Inv, Books, NEW o \in Objects, CompressUndoUnrow(o)
  PROVE  Frame(o) /\ Own(o)
<1>0. Busy(o, CompressGuarded) /\ op[o].pc = "c_fix_unrow"
  BY DEF CompressUndoUnrow, At, Busy, CompressGuarded, CompressPCs
<1>1. /\ Shape /\ Ledger /\ Balanced(o) /\ op[o] \in Locals /\ op[o].guard = Hashes
      /\ CompressUndone(op[o].done) /\ RowIds(o)
      /\ op[o].wrote => refs["zip"] = One(RefIn(o))
      /\ op[o].row.hash = "plain" /\ op[o].row \in Row /\ op[o].row.id <= lastId[o]
      /\ ~object[o].zip /\ object[o].state # "ARCHIVED"
      /\ op[o].row \in rows[o] <=> ~UnrowIn(o)
      /\ RowIn(o) => Newest(o, "zip") \in rows[o]
      /\ UnrowIn(o) => "plain" \in payload
  BY <1>0, CompressBefore DEF Balanced, CompressDone, CompressRefs, CompressPayloads,
     CompressRows, Busy, CompressGuarded, CompressUndone
<1>2. /\ refs["plain"] + One(UnrefIn(o)) = Count("plain") + One(UnrowIn(o))
      /\ refs["zip"] + One(RowIn(o)) = Count("zip") + One(RefIn(o))
      /\ refs["plain"] \in Nat /\ refs["zip"] \in Nat
      /\ Count("plain") \in Nat /\ Count("zip") \in Nat
  BY <1>0, CompressBefore, OwnBefore
<1>3. "c_fix_unref" \in CompressGuarded /\ "c_fix_unref" \in PCs
  BY DEF CompressGuarded, CompressPCs, PCs
<1>4. To(o, "c_fix_unref", op[o].done, op[o].wrote, op[o].old, Hashes)
  BY <1>1, <1>3, GotoGoes DEF CompressUndoUnrow, Goes
<1>5. \A pcs : Busy(o, pcs)' <=> "c_fix_unref" \in pcs
  BY <1>4 DEF Busy, To
<1>6. CompressDone(o)'
  BY <1>1, <1>4, <1>5 DEF CompressDone, CompressUndone, To
<1>7. /\ UnrowIn(o) <=> "unrow" \in op[o].done
      /\ ~RowIn(o) /\ ~RowIn(o)' /\ ~UnrowIn(o)'
      /\ (RefIn(o)' <=> RefIn(o)) /\ (UnrefIn(o)' <=> UnrefIn(o))
  BY <1>0, <1>4 DEF RowIn, UnrowIn, RefIn, UnrefIn, To
<1>8. /\ UNCHANGED <<object, refs, payload, lastId, before, budget>>
      /\ IF UnrowIn(o) THEN AddRow(o, op[o].row) ELSE UNCHANGED rows
  BY <1>7 DEF CompressUndoUnrow, physVars
<1>9. /\ Count("plain")' = Count("plain") + One(UnrowIn(o)) /\ Count("zip")' = Count("zip")
      /\ \A h \in Hashes : IsFiniteSet(RowsWith(h))'
      /\ rows'[o] = rows[o] \cup {op[o].row}
      /\ \A p \in Objects \ {o} : rows'[p] = rows[p]
  <2>1. CASE UnrowIn(o)
    <3>1. PICK r \in Row : r = op[o].row /\ r.hash = "plain" /\ r \notin rows[o]
      BY <1>1, <2>1
    <3>2. /\ Count("plain")' = Count("plain") + 1 /\ IsFiniteSet(RowsWith("plain"))'
          /\ RowsWith("zip")' = RowsWith("zip")
          /\ rows'[o] = rows[o] \cup {r} /\ \A p \in Objects \ {o} : rows'[p] = rows[p]
      BY <1>1, <1>8, <2>1, <3>1, RowsWithAdded
    <3>3. \A h \in Hashes : IsFiniteSet(RowsWith(h))'
      BY <1>1, <3>2 DEF Ledger, Hashes
    <3>4. Count("zip")' = Count("zip")
      BY <3>2 DEF Count
    <3> QED
      BY <1>2, <2>1, <3>1, <3>2, <3>3, <3>4 DEF One
  <2>2. CASE ~UnrowIn(o)
    <3>1. Kept /\ rows[o] = rows[o] \cup {op[o].row}
      BY <1>1, <1>8, <2>2, SameRows
    <3> QED
      BY <1>2, <1>8, <2>2, <3>1 DEF Kept, One
  <2> QED
    BY <2>1, <2>2
<1>10. Typed /\ OwnRows(o)
  BY <1>1, <1>8, <1>9 DEF Typed, Ledger, OwnRows
<1>11. op[o].row.hash \in payload /\ op[o].row.id <= lastId[o]
  <2>1. UnrowIn(o) => op[o].row.hash \in payload
    BY <1>1
  <2>2. ~UnrowIn(o) => op[o].row.hash \in payload
    BY <1>1 DEF Ledger, PayloadOfEveryRow
  <2>3. op[o].row.id <= lastId[o]
    BY <1>0, <1>1 DEF Balanced, CompressRows, Busy, CompressGuarded
  <2> QED
    BY <2>1, <2>2, <2>3
<1>12. CompressRows(o)' /\ RowIds(o)' /\ CopyKept(o)'
  BY <1>1, <1>4, <1>5, <1>7, <1>8, <1>9, <1>11 DEF CompressRows, RowIds, CopyKept, To,
     CompressPCs, HasCopy, ArchivableCopy
<1>13. CompressPayloads(o)'
  BY <1>1, <1>5, <1>7, <1>8 DEF CompressPayloads
<1>14. CompressRefs(o)'
  BY <1>1, <1>2, <1>4, <1>5, <1>7, <1>8, <1>9 DEF CompressRefs, One, To
<1> QED
  BY <1>0, <1>3, <1>4, <1>6, <1>8, <1>9, <1>10, <1>11, <1>12, <1>13, <1>14, CompressGoes

(* Its reference follows.                                                   *)
LEMMA CompressUndoUnrefBooks ==
  ASSUME Inv, Books, NEW o \in Objects, CompressUndoUnref(o)
  PROVE  Frame(o) /\ Own(o)
<1>0. Busy(o, CompressGuarded) /\ op[o].pc = "c_fix_unref"
  BY DEF CompressUndoUnref, At, Busy, CompressGuarded, CompressPCs
<1>1. /\ Shape /\ Ledger /\ Balanced(o) /\ op[o] \in Locals /\ op[o].guard = Hashes
      /\ CompressUndone(op[o].done) /\ RowIds(o)
      /\ op[o].wrote => refs["zip"] = One(RefIn(o))
      /\ op[o].row.hash = "plain" /\ op[o].row \in Row /\ op[o].row.id <= lastId[o]
      /\ ~object[o].zip /\ object[o].state # "ARCHIVED"
      /\ op[o].row \in rows[o] <=> ~UnrowIn(o)
      /\ RowIn(o) => Newest(o, "zip") \in rows[o]
      /\ UnrowIn(o) => "plain" \in payload
  BY <1>0, CompressBefore DEF Balanced, CompressDone, CompressRefs, CompressPayloads,
     CompressRows, Busy, CompressGuarded, CompressUndone
<1>2. /\ refs["plain"] + One(UnrefIn(o)) = Count("plain") + One(UnrowIn(o))
      /\ refs["zip"] + One(RowIn(o)) = Count("zip") + One(RefIn(o))
      /\ refs["plain"] \in Nat /\ refs["zip"] \in Nat
      /\ Count("plain") \in Nat /\ Count("zip") \in Nat
  BY <1>0, CompressBefore, OwnBefore
<1>3. "c_fix_ref" \in CompressGuarded /\ "c_fix_ref" \in PCs
  BY DEF CompressGuarded, CompressPCs, PCs
<1>4. To(o, "c_fix_ref", op[o].done, op[o].wrote, op[o].old, Hashes)
  BY <1>1, <1>3, GotoGoes DEF CompressUndoUnref, Goes
<1>5. \A pcs : Busy(o, pcs)' <=> "c_fix_ref" \in pcs
  BY <1>4 DEF Busy, To
<1>6. CompressDone(o)'
  BY <1>1, <1>4, <1>5 DEF CompressDone, CompressUndone, To
<1>7. /\ UnrefIn(o) <=> "unref" \in op[o].done
      /\ ~RowIn(o) /\ ~RowIn(o)' /\ ~UnrowIn(o) /\ ~UnrowIn(o)'
      /\ ~UnrefIn(o)' /\ (RefIn(o)' <=> RefIn(o))
  BY <1>0, <1>4 DEF RowIn, UnrowIn, RefIn, UnrefIn, To
<1>8. /\ UNCHANGED <<object, rows, payload, lastId, before, budget>>
      /\ IF UnrefIn(o) THEN Acquire("plain") ELSE UNCHANGED refs
  BY <1>7 DEF CompressUndoUnref, physVars
<1>9. /\ refs'["plain"] = refs["plain"] + One(UnrefIn(o)) /\ refs'["zip"] = refs["zip"]
      /\ refs' \in [Hashes -> Nat]
  <2>1. refs \in [Hashes -> Nat]
    BY <1>1 DEF Ledger
  <2>2. CASE UnrefIn(o)
    BY <1>2, <1>8, <2>1, <2>2 DEF Acquire, Unref, Hashes, One
  <2>3. CASE ~UnrefIn(o)
    BY <1>2, <1>8, <2>1, <2>3 DEF One
  <2> QED
    BY <2>2, <2>3
<1>10. Kept
  BY <1>1, <1>8, SameRows
<1>11. Typed /\ OwnRows(o)
  BY <1>1, <1>8, <1>9, <1>10 DEF Typed, Kept, Ledger, OwnRows
<1>12. CompressRows(o)' /\ RowIds(o)' /\ CopyKept(o)'
  BY <1>1, <1>4, <1>5, <1>7, <1>8 DEF CompressRows, RowIds, CopyKept, To,
     CompressPCs, HasCopy, ArchivableCopy
<1>13. CompressPayloads(o)'
  BY <1>1, <1>5, <1>7, <1>8 DEF CompressPayloads
<1>14. CompressRefs(o)'
  BY <1>1, <1>2, <1>4, <1>5, <1>7, <1>8, <1>9, <1>10 DEF CompressRefs, Kept, One, To
<1> QED
  BY <1>0, <1>3, <1>4, <1>6, <1>8, <1>11, <1>12, <1>13, <1>14, CompressGoes

(* The new reference goes.                                                  *)
LEMMA CompressUndoRefBooks ==
  ASSUME Inv, Books, NEW o \in Objects, CompressUndoRef(o)
  PROVE  Frame(o) /\ Own(o)
<1>0. Busy(o, CompressGuarded) /\ op[o].pc = "c_fix_ref"
  BY DEF CompressUndoRef, At, Busy, CompressGuarded, CompressPCs
<1>1. /\ Shape /\ Ledger /\ Balanced(o) /\ op[o] \in Locals /\ op[o].guard = Hashes
      /\ CompressUndone(op[o].done) /\ RowIds(o)
      /\ op[o].wrote => refs["zip"] = One(RefIn(o))
      /\ op[o].row.hash = "plain" /\ op[o].row \in Row /\ op[o].row.id <= lastId[o]
      /\ ~object[o].zip /\ object[o].state # "ARCHIVED"
      /\ op[o].row \in rows[o] <=> ~UnrowIn(o)
      /\ RowIn(o) => Newest(o, "zip") \in rows[o]
      /\ UnrowIn(o) => "plain" \in payload
  BY <1>0, CompressBefore DEF Balanced, CompressDone, CompressRefs, CompressPayloads,
     CompressRows, Busy, CompressGuarded, CompressUndone
<1>2. /\ refs["plain"] + One(UnrefIn(o)) = Count("plain") + One(UnrowIn(o))
      /\ refs["zip"] + One(RowIn(o)) = Count("zip") + One(RefIn(o))
      /\ refs["plain"] \in Nat /\ refs["zip"] \in Nat
      /\ Count("plain") \in Nat /\ Count("zip") \in Nat
  BY <1>0, CompressBefore, OwnBefore
<1>3. "c_fix_payload" \in CompressGuarded /\ "c_fix_payload" \in PCs
  BY DEF CompressGuarded, CompressPCs, PCs
<1>4. To(o, "c_fix_payload", op[o].done, op[o].wrote, op[o].old, Hashes)
  BY <1>1, <1>3, GotoGoes DEF CompressUndoRef, Goes
<1>5. \A pcs : Busy(o, pcs)' <=> "c_fix_payload" \in pcs
  BY <1>4 DEF Busy, To
<1>6. CompressDone(o)'
  BY <1>1, <1>4, <1>5 DEF CompressDone, CompressUndone, To
<1>7. /\ RefIn(o) <=> "ref" \in op[o].done
      /\ ~RowIn(o) /\ ~RowIn(o)' /\ ~UnrowIn(o) /\ ~UnrowIn(o)'
      /\ ~RefIn(o)' /\ ~UnrefIn(o)' /\ ~UnrefIn(o)
  BY <1>0, <1>4 DEF RowIn, UnrowIn, RefIn, UnrefIn, To
<1>8. /\ UNCHANGED <<object, rows, payload, lastId, before, budget>>
      /\ IF RefIn(o) THEN Unref("zip") ELSE UNCHANGED refs
  BY <1>7 DEF CompressUndoRef, physVars
<1>9. /\ refs'["zip"] = refs["zip"] - One(RefIn(o)) /\ refs'["plain"] = refs["plain"]
      /\ refs' \in [Hashes -> Nat]
  <2>1. refs \in [Hashes -> Nat]
    BY <1>1 DEF Ledger
  <2>2. CASE RefIn(o)
    BY <1>2, <1>8, <2>1, <2>2 DEF Acquire, Unref, Hashes, One
  <2>3. CASE ~RefIn(o)
    BY <1>2, <1>8, <2>1, <2>3 DEF One
  <2> QED
    BY <2>2, <2>3
<1>10. Kept
  BY <1>1, <1>8, SameRows
<1>11. Typed /\ OwnRows(o)
  BY <1>1, <1>8, <1>9, <1>10 DEF Typed, Kept, Ledger, OwnRows
<1>12. CompressRows(o)' /\ RowIds(o)' /\ CopyKept(o)'
  BY <1>1, <1>4, <1>5, <1>7, <1>8 DEF CompressRows, RowIds, CopyKept, To,
     CompressPCs, HasCopy, ArchivableCopy
<1>13. CompressPayloads(o)'
  BY <1>1, <1>5, <1>7, <1>8 DEF CompressPayloads
<1>14. CompressRefs(o)'
  <2>1. /\ refs'["plain"] = Count("plain")' /\ refs'["zip"] = Count("zip")'
        /\ op[o].wrote => refs'["zip"] = 0 /\ refs["zip"] \in Nat
        /\ refs'["plain"] \in Nat /\ refs'["zip"] \in Nat
    BY <1>1, <1>2, <1>7, <1>9, <1>10 DEF Kept, One, Hashes
  <2>2. Busy(o, CompressGuarded)' /\ op'[o].wrote = op[o].wrote
    BY <1>3, <1>4, <1>5 DEF To
  <2> QED
    BY <1>5, <1>7, <2>1, <2>2 DEF CompressRefs, One
<1> QED
  BY <1>0, <1>3, <1>4, <1>6, <1>8, <1>11, <1>12, <1>13, <1>14, CompressGoes

(* A payload that compress wrote goes when no row has it.                   *)
LEMMA CompressUndoPayloadBooks ==
  ASSUME Inv, Books, NEW o \in Objects, CompressUndoPayload(o)
  PROVE  Frame(o) /\ Own(o)
<1>0. Busy(o, CompressGuarded) /\ op[o].pc = "c_fix_payload"
  BY DEF CompressUndoPayload, At, Busy, CompressGuarded, CompressPCs
<1>1. /\ Ledger /\ object[o].state # "ARCHIVED"
      /\ op[o].wrote => refs["zip"] = One(RefIn(o))
  BY <1>0, CompressBefore DEF Balanced, CompressRefs, Busy, CompressGuarded
<1>2. /\ UNCHANGED <<object, rows, refs, lastId, before>> /\ Return(o)
      /\ UNCHANGED payload \/ (op[o].wrote /\ payload' = payload \ {"zip"})
      /\ UNCHANGED budget \/ Spend("backend")
  BY DEF CompressUndoPayload, storeVars
<1>3. ~RowIn(o) /\ ~UnrowIn(o) /\ ~RefIn(o) /\ ~UnrefIn(o)
  BY <1>0 DEF RowIn, UnrowIn, RefIn, UnrefIn
<1>4. refs["plain"] = Count("plain") /\ refs["zip"] = Count("zip")
  BY <1>0, <1>3, CompressBefore, OwnBefore DEF One
<1>5. budget' \in [store : Nat, backend : Nat, crash : Nat]
  BY <1>1, <1>2, SpendTyped DEF Ledger
<1>6. \A h \in Hashes : h \in payload \ payload' => refs[h] = 0
  BY <1>1, <1>2, <1>3 DEF One
<1>7. OwnRows(o)
  BY <1>2 DEF OwnRows
<1> QED
  BY <1>0, <1>1, <1>2, <1>4, <1>5, <1>6, <1>7, CompressLeaves

(* A failing statement of the closure leads to the compensation, with what   *)
(* was done; before the closure it ends compress.                            *)
LEMMA CompressFailsBooks ==
  ASSUME Inv, Books, NEW o \in Objects, StoreFails(o), Busy(o, CompressPCs),
         ~Busy(o, FixPCs)
  PROVE  Frame(o) /\ Own(o)
<1>0. /\ Busy(o, CompressGuarded)
      /\ op[o].pc \in {"c_share", "c_old", "c_ref", "c_unref", "c_unrow", "c_row",
                       "c_object"}
  BY DEF StoreFails, Statements, Busy, CompressPCs, CompressGuarded, FixPCs
<1>1. /\ Shape /\ Ledger /\ Balanced(o) /\ op[o] \in Locals /\ op[o].guard = Hashes
      /\ object[o].state # "ARCHIVED"
      /\ op[o].wrote => refs["zip"] = One(RefIn(o))
      /\ refs["plain"] + One(UnrefIn(o)) = Count("plain") + One(UnrowIn(o))
      /\ refs["zip"] + One(RowIn(o)) = Count("zip") + One(RefIn(o))
      /\ refs["plain"] \in Nat /\ refs["zip"] \in Nat
      /\ Count("plain") \in Nat /\ Count("zip") \in Nat
  BY <1>0, CompressBefore, OwnBefore DEF Balanced, CompressRefs, Busy, CompressGuarded
<1>2. UNCHANGED <<object, rows, refs, payload, lastId, before>> /\ Spend("store")
  BY DEF StoreFails, storeVars, physVars
<1>3. OwnRows(o) /\ budget' \in [store : Nat, backend : Nat, crash : Nat]
  BY <1>1, <1>2, SpendTyped DEF OwnRows
<1>4. CASE op[o].pc \in {"c_share", "c_old"}
  <2>1. Return(o)
    BY <1>4 DEF StoreFails, ErrorTarget
  <2>2. op[o].done = {}
    BY <1>0, <1>1, <1>4 DEF Balanced, CompressDone, Busy
  <2>3. refs["plain"] = Count("plain") /\ refs["zip"] = Count("zip")
    BY <1>1, <2>2 DEF One, UnrefIn, UnrowIn, RowIn, RefIn
  <2> QED
    BY <1>0, <1>1, <1>2, <1>3, <2>1, <2>3, CompressLeaves
<1>5. CASE op[o].pc \in {"c_ref", "c_unref", "c_unrow", "c_row", "c_object"}
  <2>1. Goto(o, "c_fix_row")
    BY <1>5 DEF StoreFails, ErrorTarget
  <2>2. "c_fix_row" \in CompressGuarded /\ "c_fix_row" \in PCs
    BY DEF CompressGuarded, CompressPCs, PCs
  <2>3. To(o, "c_fix_row", op[o].done, op[o].wrote, op[o].old, Hashes)
    BY <1>1, <2>1, <2>2, GotoGoes DEF Goes
  <2>4. Kept
    BY <1>1, <1>2, SameRows
  <2>5. Typed
    BY <1>1, <1>2, <1>3, <2>4 DEF Typed, Kept, Ledger
  <2>6. \A pcs : Busy(o, pcs)' <=> "c_fix_row" \in pcs
    BY <2>3 DEF Busy, To
  <2>7. /\ (RowIn(o)' <=> RowIn(o)) /\ (UnrowIn(o)' <=> UnrowIn(o))
        /\ (RefIn(o)' <=> RefIn(o)) /\ (UnrefIn(o)' <=> UnrefIn(o))
    BY <1>5, <2>3 DEF RowIn, UnrowIn, RefIn, UnrefIn, To
  <2>8. CompressDone(o)'
    <3>1. CompressUndone(op[o].done)
      BY <1>0, <1>1, <1>5 DEF Balanced, CompressDone, Busy, CompressUndone
    <3> QED
      BY <2>3, <2>6, <3>1 DEF CompressDone, CompressUndone, To
  <2>9. CompressRows(o)' /\ RowIds(o)'
    BY <1>0, <1>1, <1>2, <1>5, <2>3, <2>6, <2>7 DEF Balanced, CompressRows, RowIds, Busy,
       To, CompressPCs, CompressGuarded, Newest
  <2>10. CopyKept(o)'
    BY <1>1, <1>2, <2>3 DEF CopyKept, To, SwapPCs
  <2>11. CompressPayloads(o)'
    BY <1>0, <1>1, <1>2, <1>5, <2>6, <2>7 DEF Balanced, CompressPayloads, Busy,
       CompressGuarded
  <2>12. CompressRefs(o)'
    BY <1>1, <1>2, <2>3, <2>4, <2>6, <2>7 DEF CompressRefs, Kept, One, To
  <2> QED
    BY <1>0, <1>2, <1>3, <2>2, <2>3, <2>5, <2>8, <2>9, <2>10, <2>11, <2>12, CompressGoes
<1> QED
  BY <1>0, <1>4, <1>5

-----------------------------------------------------------------------------
(* Steps that hold no payload. *)

(* Such a step changes no count, no row and no payload.                      *)
LEMMA FreeStep ==
  ASSUME Inv, Books, NEW o \in Objects, GuardOf(o) = {}, GuardOf(o)' = {}, Others(o),
         UNCHANGED <<rows, refs, payload, lastId>>,
         \A p \in Objects \ {o} : object'[p] = object[p] /\ before'[p] = before[p],
         budget' \in [store : Nat, backend : Nat, crash : Nat], Balanced(o)'
  PROVE  Frame(o) /\ Own(o)
<1>1. Ledger /\ Kept
  BY SameRows DEF Books
<1>2. Frame(o)
  BY <1>1 DEF Frame, Kept
<1> QED
  BY <1>1, <1>2 DEF Own, Ledger, Kept

(* An operation that begins has a replica that the object's row describes.   *)
LEMMA BeginBooks ==
  ASSUME Inv, Books, NEW o \in Objects,
         CompressBegin(o) \/ ArchiveBegin(o) \/ RestoreBegin(o)
  PROVE  Frame(o) /\ Own(o)
<1>0. Shape /\ Ledger /\ Balanced(o)
  BY DEF Inv, Books
<1>1. PICK l \in {"c_guard", "a_write", "r_hot"}, r \in Row :
         /\ Begin(o, l, r)
         /\ l = "c_guard" => /\ r \in rows[o] /\ r.hash = "plain" /\ ~object[o].zip
                             /\ object[o].state # "ARCHIVED"
         /\ HasCopy(o)
  <2>1. CASE CompressBegin(o)
    <3>1. PICK r \in Plain(o) : Begin(o, "c_guard", r)
      BY <2>1 DEF CompressBegin
    <3>2. r \in rows[o] /\ r.hash = "plain" /\ r \in Row
      BY <1>0 DEF Plain, Shape
    <3>3. object[o].state # "ARCHIVED" /\ ~object[o].zip
      BY <2>1 DEF CompressBegin
    <3> QED
      BY <3>1, <3>2, <3>3 DEF HasCopy, ArchivableCopy
  <2>2. CASE ArchiveBegin(o)
    <3>1. PICK r \in ArchivableCopy(o) : Begin(o, "a_write", r)
      BY <2>2 DEF ArchiveBegin
    <3>2. r \in Row
      BY <1>0 DEF ArchivableCopy, Shape
    <3> QED
      BY <3>1, <3>2 DEF HasCopy
  <2>3. CASE RestoreBegin(o)
    <3>1. LastRecord(o) \in Row
      <4>1. records[o] \in Seq(Row) /\ records[o] # <<>>
        BY <1>0, <2>3 DEF Shape, RestoreBegin, Restorable
      <4> QED
        BY <4>1 DEF LastRecord
    <3>2. HasCopy(o)
      BY <1>0, <2>3 DEF Balanced, CopyKept, RestoreBegin
    <3> QED
      BY <2>3, <3>1, <3>2 DEF RestoreBegin
  <2> QED
    BY <2>1, <2>2, <2>3
<1>2. l \in PCs
  BY DEF PCs, CompressPCs, ArchivePCs, RestorePCs
<1>3. /\ Others(o) /\ op'[o] \in Locals /\ op'[o] # None
      /\ op'[o].pc = l /\ op'[o].row = r /\ op'[o].done = {} /\ ~op'[o].wrote
      /\ op'[o].guard = {}
      /\ before'[o] = object[o] /\ \A p \in Objects \ {o} : before'[p] = before[p]
  BY <1>0, <1>1, <1>2, BeginGoes
<1>4. UNCHANGED <<object, rows, refs, payload, lastId, budget>> /\ op[o] = None
  BY <1>1 DEF Begin, storeVars, physVars
<1>5. GuardOf(o) = {} /\ GuardOf(o)' = {}
  BY <1>3, <1>4 DEF GuardOf
<1>6. \A pcs : Busy(o, pcs)' <=> l \in pcs
  BY <1>3 DEF Busy
<1>7. ~RowIn(o)' /\ ~UnrowIn(o)' /\ ~ObjectIn(o)'
  BY <1>3 DEF RowIn, UnrowIn, ObjectIn
<1>8. Guarded(o)'
  BY <1>1, <1>3, <1>6 DEF Guarded, CompressGuarded, RestoreGuarded, CompressPCs,
     RestorePCs
<1>9. CompressDone(o)' /\ RestoreDone(o)'
  BY <1>1, <1>3, <1>6 DEF CompressDone, RestoreDone
<1>10. CompressRows(o)' /\ RowIds(o)'
  BY <1>0, <1>1, <1>3, <1>4, <1>6, <1>7 DEF CompressRows, RowIds, Balanced, CompressPCs
<1>11. CompressPayloads(o)' /\ CompressRefs(o)'
  BY <1>1, <1>3, <1>6, <1>7 DEF CompressPayloads, CompressRefs, CompressGuarded,
     CompressPCs
<1>12. RestoreRows(o)' /\ RestoreRefs(o)'
  BY <1>1, <1>3, <1>4, <1>6, <1>7 DEF RestoreRows, RestoreRefs, RestoreGuarded,
     RestorePCs
<1>13. CopyKept(o)'
  BY <1>1, <1>4 DEF CopyKept, HasCopy, ArchivableCopy
<1>14. Balanced(o)'
  BY <1>8, <1>9, <1>10, <1>11, <1>12, <1>13 DEF Balanced
<1> QED
  BY <1>0, <1>3, <1>4, <1>5, <1>14, FreeStep DEF Ledger

(* archive, and its failures, leave the replicas alone.                      *)
LEMMA ArchiveBooks ==
  ASSUME Inv, Books, NEW o \in Objects, Busy(o, ArchivePCs),
         (Archive(o) /\ ~ArchiveBegin(o)) \/ StoreFails(o)
  PROVE  Frame(o) /\ Own(o)
<1>0. /\ Shape /\ Ledger /\ Balanced(o) /\ op[o] # None /\ op[o] \in Locals
      /\ op[o].guard = {} /\ GuardOf(o) = {} /\ HasCopy(o)
  BY OwnBefore DEF Balanced, Guarded, Busy, CopyKept, ArchivePCs, SwapPCs
<1>1. UNCHANGED <<rows, refs, payload, lastId, before>>
  BY DEF Archive, ArchiveWrite, ArchiveWriteFails, ArchiveRecord, ArchiveObject,
     ArchiveUnrecord, ArchiveUnblob, StoreFails, storeVars, physVars
<1>2. UNCHANGED budget \/ Spend("backend") \/ Spend("store")
  BY DEF Archive, ArchiveWrite, ArchiveWriteFails, ArchiveRecord, ArchiveObject,
     ArchiveUnrecord, ArchiveUnblob, StoreFails
<1>3. budget' \in [store : Nat, backend : Nat, crash : Nat]
  BY <1>0, <1>2, SpendTyped DEF Ledger
<1>4. object'[o].zip = object[o].zip /\ \A p \in Objects \ {o} : object'[p] = object[p]
  <2>1. UNCHANGED object \/ SetObject(o, "ARCHIVED", object[o].zip)
    BY DEF Archive, ArchiveWrite, ArchiveWriteFails, ArchiveRecord, ArchiveObject,
       ArchiveUnrecord, ArchiveUnblob, StoreFails, storeVars
  <2> QED
    BY <1>0, <2>1 DEF SetObject, Shape
<1>5. HasCopy(o)' /\ RowIds(o)'
  BY <1>0, <1>1, <1>4 DEF HasCopy, ArchivableCopy, Balanced, RowIds
<1>6. Return(o) \/ \E l \in ArchivePCs : Goto(o, l)
  <2>1. CASE StoreFails(o)
    BY <2>1 DEF StoreFails, ErrorTarget, Busy, ArchivePCs
  <2>2. CASE Archive(o) /\ ~ArchiveBegin(o)
    BY <2>2 DEF Archive, ArchiveWrite, ArchiveWriteFails, ArchiveRecord, ArchiveObject,
       ArchiveUnrecord, ArchiveUnblob, ArchivePCs
  <2> QED
    BY <2>1, <2>2
<1>7. CASE Return(o)
  <2>1. Others(o) /\ op'[o] = None
    BY <1>0, <1>7, Leaves DEF Left
  <2>2. Balanced(o)' /\ GuardOf(o)' = {}
    BY <1>5, <2>1, LeftBalanced
  <2> QED
    BY <1>0, <1>1, <1>3, <1>4, <2>1, <2>2, FreeStep
<1>8. CASE \E l \in ArchivePCs : Goto(o, l)
  <2>1. PICK l \in ArchivePCs : Goto(o, l)
    BY <1>8
  <2>2. Goes(o, l)
    BY <1>0, <2>1, GotoGoes DEF PCs
  <2>3. \A pcs : Busy(o, pcs)' <=> l \in pcs
    BY <2>2 DEF Busy, Goes, To
  <2>4. l \notin CompressPCs /\ l \notin RestorePCs
    BY DEF CompressPCs, RestorePCs, ArchivePCs
  <2>5. Guarded(o)' /\ GuardOf(o)' = {}
    BY <1>0, <2>2, <2>3, <2>4 DEF Guarded, GuardOf, Goes, To, CompressGuarded,
       RestoreGuarded
  <2>6. CompressDone(o)' /\ RestoreDone(o)' /\ CompressRows(o)' /\ CompressPayloads(o)'
    BY <2>3, <2>4 DEF CompressDone, RestoreDone, CompressRows, CompressPayloads,
       CompressPCs, RestorePCs
  <2>7. CompressRefs(o)' /\ RestoreRows(o)' /\ RestoreRefs(o)' /\ CopyKept(o)'
    BY <1>5, <2>3, <2>4 DEF CompressRefs, RestoreRows, RestoreRefs, CopyKept,
       CompressPCs, RestorePCs, CompressGuarded, RestoreGuarded
  <2>8. Balanced(o)'
    BY <1>5, <2>5, <2>6, <2>7 DEF Balanced
  <2>9. Others(o)
    BY <2>2 DEF Goes, To
  <2> QED
    BY <1>0, <1>1, <1>3, <1>4, <2>5, <2>8, <2>9, FreeStep
<1> QED
  BY <1>6, <1>7, <1>8

(* A request that does not get its payloads gives up with nothing done.      *)
LEMMA TimesOutBooks ==
  ASSUME Inv, Books, NEW o \in Objects, GuardTimesOut(o)
  PROVE  Frame(o) /\ Own(o)
<1>0. /\ Shape /\ Ledger /\ Balanced(o) /\ op[o] # None
      /\ op[o].pc \in {"c_guard", "r_guard"} /\ GuardOf(o) = {}
  BY OwnBefore DEF GuardTimesOut, At, Balanced, Guarded, Busy
<1>1. UNCHANGED <<object, rows, refs, payload, lastId, before, budget>> /\ Return(o)
  BY DEF GuardTimesOut, storeVars, physVars
<1>2. Others(o) /\ op'[o] = None
  BY <1>0, <1>1, Leaves DEF Left
<1>3. HasCopy(o)' /\ RowIds(o)'
  BY <1>0, <1>1 DEF Balanced, RowIds, CopyKept, SwapPCs, HasCopy, ArchivableCopy
<1>4. Balanced(o)' /\ GuardOf(o)' = {}
  BY <1>2, <1>3, LeftBalanced
<1> QED
  BY <1>0, <1>1, <1>2, <1>4, FreeStep DEF Ledger

-----------------------------------------------------------------------------
(* The steps of restore. *)

(* What is to be shown of an operation in restore.                           *)
LEMMA RestoreBalanced ==
  ASSUME NEW o \in Objects, NEW l \in RestorePCs, NEW d, NEW w, NEW n, NEW g,
         To(o, l, d, w, n, g), g = (IF l \in RestoreGuarded THEN {"plain"} ELSE {}),
         RestoreDone(o)', RestoreRows(o)', RestoreRefs(o)', CopyKept(o)', RowIds(o)'
  PROVE  Balanced(o)' /\ GuardOf(o)' = g
<1>0. \A pcs : Busy(o, pcs)' <=> l \in pcs
  BY DEF Busy, To
<1>1. l \notin CompressPCs /\ l \notin CompressGuarded /\ l \notin ArchivePCs
      /\ (l \in {"c_guard", "r_hot", "r_guard"} => l \notin RestoreGuarded)
  BY DEF CompressPCs, CompressGuarded, RestorePCs, RestoreGuarded, ArchivePCs
<1>2. Guarded(o)' /\ GuardOf(o)' = g
  BY <1>0, <1>1 DEF Guarded, To, GuardOf
<1>3. CompressDone(o)' /\ CompressRows(o)' /\ CompressPayloads(o)' /\ CompressRefs(o)'
  BY <1>0, <1>1 DEF CompressDone, CompressRows, CompressPayloads, CompressRefs,
     CompressPCs
<1> QED
  BY <1>2, <1>3 DEF Balanced

(* What the books say of an operation in restore that holds its payload.     *)
LEMMA RestoreBefore ==
  ASSUME Inv, Books, NEW o \in Objects, Busy(o, RestoreGuarded)
  PROVE  /\ Shape /\ Ledger /\ Balanced(o) /\ op[o] \in Locals /\ op[o] # None
         /\ GuardOf(o) = {"plain"} /\ op[o].guard = {"plain"} /\ HasCopy(o) /\ RowIds(o)
         /\ before[o].zip /\ \E r \in rows[o] : r.hash = "zip"
         /\ ~ObjectIn(o) => object[o] = before[o]
         /\ ObjectIn(o) => ~object[o].zip
         /\ RowIn(o) => Newest(o, "plain") \in rows[o]
         /\ op[o].wrote => refs["plain"] = One(RefIn(o))
         /\ refs["plain"] + One(RowIn(o)) = Count("plain") + One(RefIn(o))
         /\ refs["plain"] \in Nat /\ Count("plain") \in Nat
<1>1. Busy(o, RestorePCs) /\ Busy(o, RestorePCs \ {"r_hot"}) /\ op[o].pc \notin SwapPCs
  BY DEF Busy, RestoreGuarded, RestorePCs, SwapPCs
<1> QED
  BY <1>1, OwnBefore DEF Balanced, Guarded, RestoreRows, RestoreRefs, CopyKept, Busy,
     GuardOf

(* restore gives its payload back when count and rows agree.                 *)
LEMMA RestoreLeaves ==
  ASSUME Inv, Books, NEW o \in Objects, Busy(o, RestoreGuarded), Return(o),
         UNCHANGED <<object, rows, lastId, before>>,
         refs' \in [Hashes -> Nat], refs'["zip"] = refs["zip"],
         refs'["plain"] = Count("plain"),
         budget' \in [store : Nat, backend : Nat, crash : Nat],
         "zip" \in payload' <=> "zip" \in payload,
         "plain" \in payload \ payload' => Count("plain") = 0
  PROVE  Frame(o) /\ Own(o)
<1>0. Shape /\ Ledger /\ Balanced(o) /\ GuardOf(o) = {"plain"} /\ HasCopy(o) /\ RowIds(o)
  BY RestoreBefore
<1>1. Others(o) /\ op'[o] = None
  BY <1>0, Leaves DEF Left
<1>2. Kept
  BY <1>0, SameRows
<1>3. Frame(o)
  BY <1>0, <1>1, <1>2 DEF Frame, Kept, Hashes
<1>4. Balanced(o)' /\ GuardOf(o)' = {}
  BY <1>0, <1>1, LeftBalanced DEF RowIds, HasCopy, ArchivableCopy
<1>5. \A h \in Hashes : h \in payload \ payload' =>
        \A p \in Objects : \A r \in rows[p] : r.hash # h
  BY <1>0, CountsRows DEF Hashes
<1> QED
  BY <1>0, <1>2, <1>3, <1>4, <1>5 DEF Own, Kept

(* A step inside restore that holds the payload.                             *)
LEMMA RestoreGoes ==
  ASSUME Inv, Books, NEW o \in Objects, Busy(o, RestoreGuarded),
         NEW l \in RestoreGuarded, NEW d, NEW w, NEW n,
         To(o, l, d, w, n, {"plain"}), OwnRows(o), Typed,
         refs'["zip"] = refs["zip"], RowsWith("zip")' = RowsWith("zip"),
         "zip" \in payload' <=> "zip" \in payload, payload \subseteq payload',
         \A r \in rows'[o] : r \in rows[o] \/ r.hash \in payload',
         RestoreDone(o)', RestoreRows(o)', RestoreRefs(o)', CopyKept(o)', RowIds(o)'
  PROVE  Frame(o) /\ Own(o)
<1>0. GuardOf(o) = {"plain"} /\ l \in RestorePCs
  BY RestoreBefore DEF RestoreGuarded
<1>1. Balanced(o)' /\ GuardOf(o)' = {"plain"}
  BY <1>0, RestoreBalanced
<1>2. Frame(o)
  BY <1>0 DEF Frame, OwnRows, To, Hashes
<1> QED
  BY <1>0, <1>1, <1>2 DEF Own, Typed

(* An object that has a plain replica is warm again; any other has only      *)
(* compressed ones.                                                          *)
LEMMA RestoreHotBooks ==
  ASSUME Inv, Books, NEW o \in Objects, RestoreHot(o)
  PROVE  Frame(o) /\ Own(o)
<1>0. /\ Shape /\ Ledger /\ Balanced(o) /\ op[o] # None /\ op[o] \in Locals
      /\ op[o].pc = "r_hot" /\ op[o].guard = {} /\ GuardOf(o) = {}
      /\ op[o].done = {} /\ ~op[o].wrote /\ HasCopy(o) /\ RowIds(o)
  BY OwnBefore DEF RestoreHot, At, Balanced, Guarded, RestoreDone, RestoreRefs,
     CopyKept, SwapPCs, Busy
<1>1. object[o] = before[o]
  BY <1>0 DEF Balanced, RestoreRows, Busy, RestorePCs, ObjectIn
<1>2. UNCHANGED <<rows, refs, payload, lastId, before, budget>>
  BY DEF RestoreHot, physVars
<1>3. CASE Plain(o) # {}
  <2>1. /\ Return(o)
        /\ UNCHANGED object \/ SetObject(o, "WARM", FALSE)
    BY <1>3 DEF RestoreHot
  <2>2. /\ UNCHANGED object \/ object'[o].state = "WARM"
        /\ \A p \in Objects \ {o} : object'[p] = object[p]
    BY <1>0, <2>1 DEF SetObject, Shape
  <2>3. Others(o) /\ op'[o] = None
    BY <1>0, <2>1, Leaves DEF Left
  <2>4. Balanced(o)' /\ GuardOf(o)' = {}
    BY <1>0, <1>2, <2>2, <2>3, LeftBalanced DEF RowIds, HasCopy, ArchivableCopy
  <2> QED
    BY <1>0, <1>2, <2>2, <2>3, <2>4, FreeStep DEF Ledger
<1>4. CASE Plain(o) = {}
  <2>1. Goto(o, "r_guard") /\ UNCHANGED object
    BY <1>4 DEF RestoreHot
  <2>2. "r_guard" \in PCs /\ "r_guard" \in RestorePCs /\ "r_guard" \notin RestoreGuarded
    BY DEF PCs, RestorePCs, RestoreGuarded
  <2>3. To(o, "r_guard", {}, op[o].wrote, op[o].old, {})
    BY <1>0, <2>1, <2>2, GotoGoes DEF Goes
  <2>4. object[o].zip /\ \E r \in rows[o] : r.hash = "zip"
    BY <1>0, <1>4 DEF HasCopy, ArchivableCopy, Plain
  <2>5. \A pcs : Busy(o, pcs)' <=> "r_guard" \in pcs
    BY <2>3 DEF Busy, To
  <2>6. ~RowIn(o)' /\ ~ObjectIn(o)'
    BY <2>3 DEF RowIn, ObjectIn, To
  <2>7. RestoreDone(o)' /\ CopyKept(o)' /\ RowIds(o)'
    BY <1>0, <1>2, <2>1, <2>3, <2>5 DEF RestoreDone, CopyKept, RowIds, To, HasCopy,
       ArchivableCopy
  <2>8. RestoreRows(o)' /\ RestoreRefs(o)'
    BY <1>0, <1>1, <1>2, <2>1, <2>2, <2>3, <2>4, <2>5, <2>6 DEF RestoreRows, RestoreRefs,
       To
  <2>9. Balanced(o)' /\ GuardOf(o)' = {}
    BY <2>2, <2>3, <2>7, <2>8, RestoreBalanced
  <2>10. Others(o)
    BY <2>3 DEF To
  <2> QED
    BY <1>0, <1>2, <2>1, <2>9, <2>10, FreeStep DEF Ledger
<1> QED
  BY <1>3, <1>4

(* The payload is guarded when nobody else holds it.                         *)
LEMMA RestoreGuardBooks ==
  ASSUME Inv, Books, NEW o \in Objects, RestoreGuard(o)
  PROVE  Frame(o) /\ Own(o)
<1>0. /\ Shape /\ Ledger /\ Balanced(o) /\ op[o] # None /\ op[o] \in Locals
      /\ op[o].pc = "r_guard" /\ GuardOf(o) = {}
      /\ op[o].done = {} /\ ~op[o].wrote /\ HasCopy(o) /\ RowIds(o)
  BY OwnBefore DEF RestoreGuard, At, Balanced, Guarded, RestoreDone, RestoreRefs,
     CopyKept, SwapPCs, Busy
<1>1. /\ object[o] = before[o] /\ before[o].zip /\ \E r \in rows[o] : r.hash = "zip"
  BY <1>0 DEF Balanced, RestoreRows, Busy, RestorePCs, ObjectIn
<1>2. UNCHANGED <<object, rows, refs, payload, lastId, before, budget>>
  BY DEF RestoreGuard, Guard, storeVars, physVars
<1>3. "r_share" \in PCs /\ "r_share" \in RestorePCs /\ "r_share" \in RestoreGuarded
  BY DEF PCs, RestorePCs, RestoreGuarded
<1>4. To(o, "r_share", {}, op[o].wrote, op[o].old, {"plain"})
  <2>1. op' = [op EXCEPT ![o].pc = "r_share", ![o].guard = {"plain"}]
    BY DEF RestoreGuard, Guard
  <2>2. {"plain"} \in SUBSET Hashes
    BY DEF Hashes
  <2> QED
    BY <1>0, <1>3, <2>1, <2>2, GuardGoes
<1>5. Kept
  BY <1>0, <1>2, SameRows
<1>6. Frame(o)
  BY <1>2, <1>4, <1>5 DEF Frame, To, Kept
<1>7. refs["plain"] = Count("plain") /\ {"plain"} \cap Held = {}
  <2>1. \A p \in Objects : GuardOf(p) \subseteq Held
    BY DEF GuardOf, Held
  <2>2. {"plain"} \cap Held = {}
    BY DEF RestoreGuard, Guard
  <2> QED
    BY <1>0, <2>1, <2>2 DEF Ledger, FreeExact, Hashes
<1>8. \A pcs : Busy(o, pcs)' <=> "r_share" \in pcs
  BY <1>4 DEF Busy, To
<1>9. ~RowIn(o)' /\ ~ObjectIn(o)' /\ ~RefIn(o)'
  BY <1>4 DEF RowIn, ObjectIn, RefIn, To
<1>10. RestoreDone(o)' /\ CopyKept(o)' /\ RowIds(o)'
  BY <1>0, <1>2, <1>4, <1>8 DEF RestoreDone, CopyKept, RowIds, To, HasCopy,
     ArchivableCopy
<1>11. RestoreRows(o)'
  BY <1>1, <1>2, <1>8, <1>9 DEF RestoreRows
<1>12. RestoreRefs(o)'
  BY <1>0, <1>2, <1>4, <1>5, <1>7, <1>8, <1>9 DEF RestoreRefs, To, Kept, One
<1>13. Balanced(o)' /\ GuardOf(o)' = {"plain"}
  BY <1>3, <1>4, <1>10, <1>11, <1>12, RestoreBalanced
<1> QED
  BY <1>0, <1>2, <1>5, <1>6, <1>7, <1>13 DEF Own, Ledger, Kept

(* A payload that somebody refers to is shared, any other is written.        *)
LEMMA RestoreShareBooks ==
  ASSUME Inv, Books, NEW o \in Objects, RestoreShare(o)
  PROVE  Frame(o) /\ Own(o)
<1>0. Busy(o, RestoreGuarded) /\ op[o].pc = "r_share"
  BY DEF RestoreShare, At, Busy, RestoreGuarded, RestorePCs
<1>1. /\ Shape /\ Ledger /\ Balanced(o) /\ op[o] \in Locals /\ op[o].guard = {"plain"}
      /\ op[o].done = {} /\ ~op[o].wrote
  BY <1>0, RestoreBefore DEF Balanced, RestoreDone, RestoreRefs, Busy
<1>2. UNCHANGED <<object, rows, refs, payload, lastId, before, budget>>
  BY DEF RestoreShare, storeVars, physVars
<1>3. ~RowIn(o) /\ ~RefIn(o) /\ ~ObjectIn(o)
  BY <1>1 DEF RowIn, RefIn, ObjectIn
<1>4. refs["plain"] = Count("plain") /\ refs["plain"] \in Nat /\ refs' \in [Hashes -> Nat]
  BY <1>0, <1>1, <1>2, <1>3, RestoreBefore DEF One, Ledger
<1>5. OwnRows(o) /\ budget' \in [store : Nat, backend : Nat, crash : Nat]
  BY <1>1, <1>2 DEF OwnRows, Ledger
<1>6. CASE Return(o)
  BY <1>0, <1>2, <1>4, <1>5, <1>6, RestoreLeaves
<1>7. ASSUME NEW l \in {"r_write", "r_ref"}, Goto(o, l),
             l = "r_write" => refs["plain"] = 0, l = "r_ref" => "plain" \in payload
      PROVE  Frame(o) /\ Own(o)
  <2>1. l \in RestoreGuarded /\ l \in PCs
    BY DEF RestoreGuarded, RestorePCs, PCs
  <2>2. To(o, l, {}, op[o].wrote, op[o].old, {"plain"})
    BY <1>1, <1>7, <2>1, GotoGoes DEF Goes
  <2>3. Kept
    BY <1>1, <1>2, SameRows
  <2>4. Typed
    BY <1>2, <1>4, <1>5, <2>3 DEF Typed, Kept
  <2>5. \A pcs : Busy(o, pcs)' <=> l \in pcs
    BY <2>2 DEF Busy, To
  <2>6. ~RowIn(o)' /\ ~RefIn(o)' /\ ~ObjectIn(o)'
    BY <2>2 DEF RowIn, RefIn, ObjectIn, To
  <2>7. RestoreDone(o)' /\ CopyKept(o)' /\ RowIds(o)'
    BY <1>0, <1>2, <2>2, <2>5, RestoreBefore DEF RestoreDone, CopyKept, RowIds, To,
       HasCopy, ArchivableCopy
  <2>8. RestoreRows(o)'
    BY <1>0, <1>2, <1>3, <2>5, <2>6, RestoreBefore DEF RestoreRows
  <2>9. RestoreRefs(o)'
    BY <1>1, <1>2, <1>4, <1>7, <2>2, <2>3, <2>5, <2>6 DEF RestoreRefs, Kept, One, To
  <2> QED
    BY <1>0, <1>2, <1>5, <2>1, <2>2, <2>3, <2>4, <2>7, <2>8, <2>9, RestoreGoes
       DEF Kept, Hashes
<1> QED
  BY <1>6, <1>7 DEF RestoreShare

(* The payload is written before anything refers to it.                      *)
LEMMA RestoreWriteBooks ==
  ASSUME Inv, Books, NEW o \in Objects, RestoreWrite(o)
  PROVE  Frame(o) /\ Own(o)
<1>0. Busy(o, RestoreGuarded) /\ op[o].pc = "r_write"
  BY DEF RestoreWrite, At, Busy, RestoreGuarded, RestorePCs
<1>1. /\ Shape /\ Ledger /\ Balanced(o) /\ op[o] \in Locals /\ op[o].guard = {"plain"}
      /\ op[o].done = {} /\ refs["plain"] = 0
  BY <1>0, RestoreBefore DEF Balanced, RestoreDone, RestoreRefs, Busy
<1>2. UNCHANGED <<object, rows, refs, lastId, before>>
  BY DEF RestoreWrite, storeVars
<1>3. ~RowIn(o) /\ ~RefIn(o) /\ ~ObjectIn(o)
  BY <1>1 DEF RowIn, RefIn, ObjectIn
<1>4. refs["plain"] = Count("plain") /\ refs["plain"] \in Nat /\ refs' \in [Hashes -> Nat]
  BY <1>0, <1>1, <1>2, <1>3, RestoreBefore DEF One, Ledger
<1>5. UNCHANGED payload \/ payload' = payload \cup {"plain"}
  BY DEF RestoreWrite
<1>6. OwnRows(o) /\ budget' \in [store : Nat, backend : Nat, crash : Nat]
  <2>1. UNCHANGED budget \/ Spend("backend")
    BY DEF RestoreWrite
  <2> QED
    BY <1>1, <1>2, <2>1, SpendTyped DEF OwnRows, Ledger
<1>7. CASE Return(o)
  BY <1>0, <1>2, <1>4, <1>5, <1>6, <1>7, RestoreLeaves
<1>8. CASE /\ payload' = payload \cup {"plain"}
           /\ op' = [op EXCEPT ![o].pc = "r_ref", ![o].wrote = TRUE]
  <2>1. "r_ref" \in RestoreGuarded /\ "r_ref" \in PCs
    BY DEF RestoreGuarded, RestorePCs, PCs
  <2>2. To(o, "r_ref", {}, TRUE, op[o].old, {"plain"})
    BY <1>1, <1>8, <2>1, WroteGoes
  <2>3. Kept
    BY <1>1, <1>2, SameRows
  <2>4. Typed
    BY <1>2, <1>4, <1>6, <2>3 DEF Typed, Kept
  <2>5. \A pcs : Busy(o, pcs)' <=> "r_ref" \in pcs
    BY <2>2 DEF Busy, To
  <2>6. ~RowIn(o)' /\ ~RefIn(o)' /\ ~ObjectIn(o)'
    BY <2>2 DEF RowIn, RefIn, ObjectIn, To
  <2>7. RestoreDone(o)' /\ CopyKept(o)' /\ RowIds(o)'
    BY <1>0, <1>2, <2>2, <2>5, RestoreBefore DEF RestoreDone, CopyKept, RowIds, To,
       HasCopy, ArchivableCopy
  <2>8. RestoreRows(o)'
    BY <1>0, <1>2, <1>3, <2>5, <2>6, RestoreBefore DEF RestoreRows
  <2>9. RestoreRefs(o)'
    BY <1>1, <1>2, <1>4, <1>8, <2>2, <2>3, <2>5, <2>6 DEF RestoreRefs, Kept, One, To
  <2> QED
    BY <1>0, <1>2, <1>6, <1>8, <2>1, <2>2, <2>3, <2>4, <2>7, <2>8, <2>9, RestoreGoes
       DEF Kept, Hashes
<1> QED
  BY <1>7, <1>8 DEF RestoreWrite

(* The reference comes before the row.                                       *)
LEMMA RestoreRefBooks ==
  ASSUME Inv, Books, NEW o \in Objects, RestoreRef(o)
  PROVE  Frame(o) /\ Own(o)
<1>0. Busy(o, RestoreGuarded) /\ op[o].pc = "r_ref"
  BY DEF RestoreRef, At, Busy, RestoreGuarded, RestorePCs
<1>1. /\ Shape /\ Ledger /\ Balanced(o) /\ op[o] \in Locals /\ op[o].guard = {"plain"}
      /\ op[o].done = {} /\ "plain" \in payload
  BY <1>0, RestoreBefore DEF Balanced, RestoreDone, RestoreRefs, Busy
<1>2. /\ UNCHANGED <<object, rows, payload, lastId, before, budget>>
      /\ refs' = [refs EXCEPT !["plain"] = @ + 1]
  BY DEF RestoreRef, Acquire, physVars
<1>3. ~RowIn(o) /\ ~RefIn(o) /\ ~ObjectIn(o)
  BY <1>1 DEF RowIn, RefIn, ObjectIn
<1>4. refs["plain"] = Count("plain") /\ refs["plain"] \in Nat
      /\ (op[o].wrote => refs["plain"] = 0)
  BY <1>0, <1>3, RestoreBefore DEF One
<1>5. /\ refs'["plain"] = refs["plain"] + 1 /\ refs'["zip"] = refs["zip"]
      /\ refs' \in [Hashes -> Nat]
  BY <1>1, <1>2 DEF Ledger, Hashes
<1>6. "r_row" \in RestoreGuarded /\ "r_row" \in PCs /\ "ref" \in Metadata
  BY DEF RestoreGuarded, RestorePCs, PCs, Metadata
<1>7. To(o, "r_row", {"ref"}, op[o].wrote, op[o].old, {"plain"})
  <2>1. Did(o, "ref", "r_row") /\ op[o].done \cup {"ref"} = {"ref"}
    BY <1>1 DEF RestoreRef
  <2>2. Shape /\ op[o] \in Locals
    BY <1>1
  <2>3. To(o, "r_row", op[o].done \cup {"ref"}, op[o].wrote, op[o].old, op[o].guard)
    BY <1>6, <2>1, <2>2, DidGoes
  <2> QED
    BY <1>1, <2>1, <2>3
<1>8. Kept
  BY <1>1, <1>2, SameRows
<1>9. Typed /\ OwnRows(o)
  BY <1>1, <1>2, <1>5, <1>8 DEF Typed, Kept, Ledger, OwnRows
<1>10. \A pcs : Busy(o, pcs)' <=> "r_row" \in pcs
  BY <1>7 DEF Busy, To
<1>11. ~RowIn(o)' /\ RefIn(o)' /\ ~ObjectIn(o)'
  BY <1>7 DEF RowIn, RefIn, ObjectIn, To
<1>12. RestoreDone(o)' /\ CopyKept(o)' /\ RowIds(o)'
  BY <1>0, <1>2, <1>7, <1>10, RestoreBefore DEF RestoreDone, CopyKept, RowIds, To,
     HasCopy, ArchivableCopy
<1>13. RestoreRows(o)'
  BY <1>0, <1>2, <1>3, <1>10, <1>11, RestoreBefore DEF RestoreRows
<1>14. RestoreRefs(o)'
  BY <1>1, <1>2, <1>4, <1>5, <1>7, <1>8, <1>10, <1>11 DEF RestoreRefs, Kept, One, To
<1> QED
  BY <1>0, <1>2, <1>5, <1>6, <1>7, <1>8, <1>9, <1>12, <1>13, <1>14, RestoreGoes
     DEF Kept, Hashes

(* The new row has its payload.                                              *)
LEMMA RestoreRowBooks ==
  ASSUME Inv, Books, NEW o \in Objects, RestoreRow(o)
  PROVE  Frame(o) /\ Own(o)
<1>0. Busy(o, RestoreGuarded) /\ op[o].pc = "r_row"
  BY DEF RestoreRow, At, Busy, RestoreGuarded, RestorePCs
<1>1. /\ Shape /\ Ledger /\ Balanced(o) /\ op[o] \in Locals /\ op[o].guard = {"plain"}
      /\ op[o].done = {"ref"} /\ "plain" \in payload
  BY <1>0, RestoreBefore DEF Balanced, RestoreDone, RestoreRefs, Busy
<1>2. /\ UNCHANGED <<object, refs, payload, before, budget>>
      /\ AddRow(o, NewRow(o, "plain")) /\ lastId' = [lastId EXCEPT ![o] = @ + 1]
  BY DEF RestoreRow, physVars
<1>3. ~RowIn(o) /\ RefIn(o) /\ ~ObjectIn(o)
  BY <1>0, <1>1 DEF RowIn, RefIn, ObjectIn
<1>4. /\ refs["plain"] = Count("plain") + 1 /\ refs["plain"] \in Nat
      /\ Count("plain") \in Nat /\ (op[o].wrote => refs["plain"] = 1)
      /\ RowIds(o)
  BY <1>0, <1>3, RestoreBefore DEF One
<1>5. "r_object" \in RestoreGuarded /\ "r_object" \in PCs /\ "row" \in Metadata
  BY DEF RestoreGuarded, RestorePCs, PCs, Metadata
<1>6. To(o, "r_object", {"ref", "row"}, op[o].wrote, op[o].old, {"plain"})
  <2>1. Did(o, "row", "r_object") /\ op[o].done \cup {"row"} = {"ref", "row"}
    BY <1>1 DEF RestoreRow
  <2>2. Shape /\ op[o] \in Locals
    BY <1>1
  <2>3. To(o, "r_object", op[o].done \cup {"row"}, op[o].wrote, op[o].old, op[o].guard)
    BY <1>5, <2>1, <2>2, DidGoes
  <2> QED
    BY <1>1, <2>1, <2>3
<1>7. PICK r \in Row : r = NewRow(o, "plain") /\ r \notin rows[o] /\ r.hash = "plain"
                       /\ r = Newest(o, "plain")' /\ r.id = lastId'[o]
                       /\ lastId[o] <= lastId'[o]
                       /\ \A p \in Objects \ {o} : lastId'[p] = lastId[p]
  <2>1. /\ lastId[o] \in Nat /\ lastId'[o] = lastId[o] + 1
        /\ \A p \in Objects \ {o} : lastId'[p] = lastId[p]
    BY <1>1, <1>2 DEF Shape
  <2>2. NewRow(o, "plain") \in Row /\ NewRow(o, "plain").id = lastId[o] + 1
    BY <2>1 DEF NewRow, Row, Hashes
  <2>3. NewRow(o, "plain") \notin rows[o]
    BY <1>4, <2>1, <2>2 DEF RowIds
  <2> QED
    BY <2>1, <2>2, <2>3 DEF NewRow, Newest
<1>8. /\ Count("plain")' = Count("plain") + 1 /\ RowsWith("zip")' = RowsWith("zip")
      /\ \A h \in Hashes : IsFiniteSet(RowsWith(h))'
      /\ rows'[o] = rows[o] \cup {r}
      /\ \A p \in Objects \ {o} : rows'[p] = rows[p]
  <2>1. /\ Count("plain")' = Count("plain") + 1 /\ IsFiniteSet(RowsWith("plain"))'
        /\ RowsWith("zip")' = RowsWith("zip")
        /\ rows'[o] = rows[o] \cup {r} /\ \A p \in Objects \ {o} : rows'[p] = rows[p]
    BY <1>1, <1>2, <1>7, RowsWithAdded
  <2> QED
    BY <1>1, <2>1 DEF Ledger, Hashes
<1>9. Typed /\ OwnRows(o)
  BY <1>1, <1>2, <1>7, <1>8 DEF Typed, Ledger, OwnRows
<1>10. \A pcs : Busy(o, pcs)' <=> "r_object" \in pcs
  BY <1>6 DEF Busy, To
<1>11. RowIn(o)' /\ RefIn(o)' /\ ~ObjectIn(o)'
  BY <1>6 DEF RowIn, RefIn, ObjectIn, To
<1>12. RestoreDone(o)'
  BY <1>6, <1>10 DEF RestoreDone, To
<1>13. RowIds(o)'
  <2>1. \A q \in rows[o] : q.id \in Nat /\ q.id <= lastId[o]
    BY <1>1, <1>4 DEF RowIds, Shape, Row
  <2>2. lastId[o] \in Nat /\ lastId'[o] \in Nat
    BY <1>1, <1>7 DEF Shape, Row
  <2> QED
    BY <1>7, <1>8, <2>1, <2>2 DEF RowIds
<1>14. RestoreRows(o)' /\ CopyKept(o)'
  BY <1>0, <1>2, <1>3, <1>7, <1>8, <1>10, <1>11, RestoreBefore DEF RestoreRows, CopyKept,
     HasCopy, ArchivableCopy
<1>15. RestoreRefs(o)'
  BY <1>1, <1>2, <1>4, <1>6, <1>8, <1>10, <1>11 DEF RestoreRefs, One, To
<1> QED
  BY <1>0, <1>1, <1>2, <1>5, <1>6, <1>7, <1>8, <1>9, <1>12, <1>13, <1>14, <1>15,
     RestoreGoes

(* The object is warm when its plain row is there.                           *)
LEMMA RestoreObjectBooks ==
  ASSUME Inv, Books, NEW o \in Objects, RestoreObject(o)
  PROVE  Frame(o) /\ Own(o)
<1>0. Busy(o, RestoreGuarded) /\ op[o].pc = "r_object"
  BY DEF RestoreObject, At, Busy, RestoreGuarded, RestorePCs
<1>1. /\ Shape /\ Ledger /\ Balanced(o) /\ op[o] \in Locals /\ op[o].guard = {"plain"}
      /\ op[o].done = {"ref", "row"}
  BY <1>0, RestoreBefore DEF Balanced, RestoreDone, Busy
<1>2. /\ UNCHANGED <<rows, refs, payload, lastId, before, budget>>
      /\ SetObject(o, "WARM", FALSE)
  BY DEF RestoreObject, physVars
<1>3. RowIn(o) /\ RefIn(o)
  BY <1>0, <1>1 DEF RowIn, RefIn
<1>4. /\ refs["plain"] = Count("plain") /\ refs["plain"] \in Nat
      /\ (op[o].wrote => refs["plain"] = 1)
      /\ Newest(o, "plain") \in rows[o] /\ before[o].zip
      /\ \E r \in rows[o] : r.hash = "zip"
  BY <1>0, <1>3, RestoreBefore DEF One
<1>5. object'[o].zip = FALSE /\ \A p \in Objects \ {o} : object'[p] = object[p]
  BY <1>1, <1>2 DEF Shape, SetObject
<1>6. "r_audit" \in RestoreGuarded /\ "r_audit" \in PCs /\ "object" \in Metadata
  BY DEF RestoreGuarded, RestorePCs, PCs, Metadata
<1>7. To(o, "r_audit", {"ref", "row", "object"}, op[o].wrote, op[o].old, {"plain"})
  <2>1. Did(o, "object", "r_audit")
        /\ op[o].done \cup {"object"} = {"ref", "row", "object"}
    BY <1>1 DEF RestoreObject
  <2>2. Shape /\ op[o] \in Locals
    BY <1>1
  <2>3. To(o, "r_audit", op[o].done \cup {"object"}, op[o].wrote, op[o].old, op[o].guard)
    BY <1>6, <2>1, <2>2, DidGoes
  <2> QED
    BY <1>1, <2>1, <2>3
<1>8. Kept
  BY <1>1, <1>2, SameRows
<1>9. Typed /\ OwnRows(o)
  BY <1>1, <1>2, <1>5, <1>8 DEF Typed, Kept, Ledger, OwnRows
<1>10. \A pcs : Busy(o, pcs)' <=> "r_audit" \in pcs
  BY <1>7 DEF Busy, To
<1>11. RowIn(o)' /\ RefIn(o)' /\ ObjectIn(o)'
  BY <1>7 DEF RowIn, RefIn, ObjectIn, To
<1>12. RestoreDone(o)' /\ RowIds(o)'
  BY <1>0, <1>2, <1>7, <1>10, RestoreBefore DEF RestoreDone, RowIds, To
<1>13. RestoreRows(o)'
  BY <1>2, <1>4, <1>5, <1>10, <1>11 DEF RestoreRows, Newest
<1>14. CopyKept(o)'
  <2>1. Newest(o, "plain").hash = "plain"
    BY DEF Newest
  <2> QED
    BY <1>2, <1>4, <1>5, <2>1 DEF CopyKept, HasCopy, ArchivableCopy
<1>15. RestoreRefs(o)'
  BY <1>2, <1>4, <1>7, <1>8, <1>10, <1>11 DEF RestoreRefs, Kept, One, To
<1> QED
  BY <1>0, <1>2, <1>6, <1>7, <1>8, <1>9, <1>12, <1>13, <1>14, <1>15, RestoreGoes
     DEF Kept, Hashes

(* restore ends with everything done.                                        *)
LEMMA RestoreAuditBooks ==
  ASSUME Inv, Books, NEW o \in Objects, RestoreAudit(o)
  PROVE  Frame(o) /\ Own(o)
<1>0. Busy(o, RestoreGuarded) /\ op[o].pc = "r_audit"
  BY DEF RestoreAudit, At, Busy, RestoreGuarded, RestorePCs
<1>1. Ledger /\ op[o].done = {"ref", "row", "object"}
  BY <1>0, RestoreBefore DEF Balanced, RestoreDone, Busy
<1>2. UNCHANGED <<object, rows, refs, payload, lastId, before, budget>> /\ Return(o)
  BY DEF RestoreAudit, storeVars, physVars
<1>3. RowIn(o) /\ RefIn(o)
  BY <1>0, <1>1 DEF RowIn, RefIn
<1>4. refs["plain"] = Count("plain")
  BY <1>0, <1>3, RestoreBefore DEF One
<1>5. refs' \in [Hashes -> Nat] /\ budget' \in [store : Nat, backend : Nat, crash : Nat]
  BY <1>1, <1>2 DEF Ledger
<1> QED
  BY <1>0, <1>2, <1>4, <1>5, RestoreLeaves

\* A prefix of the statements of restore.
RestoreUndone(done) ==
  done \in {{}, {"ref"}, {"ref", "row"}, {"ref", "row", "object"}}

(* The object row is again what restore read first.                          *)
LEMMA RestoreUndoObjectBooks ==
  ASSUME Inv, Books, NEW o \in Objects, RestoreUndoObject(o)
  PROVE  Frame(o) /\ Own(o)
<1>0. Busy(o, RestoreGuarded) /\ op[o].pc = "r_fix_object"
  BY DEF RestoreUndoObject, At, Busy, RestoreGuarded, RestorePCs
<1>1. /\ Shape /\ Ledger /\ Balanced(o) /\ op[o] \in Locals /\ op[o].guard = {"plain"}
      /\ RestoreUndone(op[o].done)
  BY <1>0, RestoreBefore DEF Balanced, RestoreDone, Busy, RestoreUndone
<1>2. UNCHANGED <<rows, refs, payload, lastId, before, budget>>
  BY DEF RestoreUndoObject, physVars
<1>3. "r_fix_row" \in RestoreGuarded /\ "r_fix_row" \in PCs
  BY DEF RestoreGuarded, RestorePCs, PCs
<1>4. To(o, "r_fix_row", op[o].done, op[o].wrote, op[o].old, {"plain"})
  BY <1>1, <1>3, GotoGoes DEF RestoreUndoObject, Goes
<1>5. /\ ObjectIn(o) <=> "object" \in op[o].done
      /\ ~ObjectIn(o)' /\ (RowIn(o)' <=> RowIn(o)) /\ (RefIn(o)' <=> RefIn(o))
  BY <1>0, <1>4 DEF RowIn, RefIn, ObjectIn, To
<1>6. object'[o] = before[o] /\ \A p \in Objects \ {o} : object'[p] = object[p]
  <2>1. CASE ObjectIn(o)
    BY <1>1, <1>5, <2>1 DEF RestoreUndoObject, Shape
  <2>2. CASE ~ObjectIn(o)
    BY <1>0, <1>5, <2>2, RestoreBefore DEF RestoreUndoObject
  <2> QED
    BY <2>1, <2>2
<1>7. Kept
  BY <1>1, <1>2, SameRows
<1>8. Typed /\ OwnRows(o)
  BY <1>1, <1>2, <1>6, <1>7 DEF Typed, Kept, Ledger, OwnRows
<1>9. \A pcs : Busy(o, pcs)' <=> "r_fix_row" \in pcs
  BY <1>4 DEF Busy, To
<1>10. RestoreDone(o)' /\ RowIds(o)'
  BY <1>0, <1>1, <1>2, <1>4, <1>9, RestoreBefore DEF RestoreDone, RestoreUndone, RowIds,
     To
<1>11. RestoreRows(o)' /\ CopyKept(o)'
  BY <1>0, <1>2, <1>5, <1>6, <1>9, RestoreBefore DEF RestoreRows, Newest, CopyKept,
     HasCopy, ArchivableCopy
<1>12. RestoreRefs(o)'
  BY <1>0, <1>2, <1>4, <1>5, <1>7, <1>9, RestoreBefore DEF RestoreRefs, Kept, One, To
<1> QED
  BY <1>0, <1>2, <1>3, <1>4, <1>7, <1>8, <1>10, <1>11, <1>12, RestoreGoes
     DEF Kept, Hashes

(* The new row goes if it was added; the compressed ones stay.               *)
LEMMA RestoreUndoRowBooks ==
  ASSUME Inv, Books, NEW o \in Objects, RestoreUndoRow(o)
  PROVE  Frame(o) /\ Own(o)
<1>0. Busy(o, RestoreGuarded) /\ op[o].pc = "r_fix_row"
  BY DEF RestoreUndoRow, At, Busy, RestoreGuarded, RestorePCs
<1>1. /\ Shape /\ Ledger /\ Balanced(o) /\ op[o] \in Locals /\ op[o].guard = {"plain"}
      /\ RestoreUndone(op[o].done)
  BY <1>0, RestoreBefore DEF Balanced, RestoreDone, Busy, RestoreUndone
<1>2. UNCHANGED <<object, refs, payload, lastId, before, budget>>
  BY DEF RestoreUndoRow, physVars
<1>3. "r_fix_ref" \in RestoreGuarded /\ "r_fix_ref" \in PCs
  BY DEF RestoreGuarded, RestorePCs, PCs
<1>4. To(o, "r_fix_ref", op[o].done, op[o].wrote, op[o].old, {"plain"})
  BY <1>1, <1>3, GotoGoes DEF RestoreUndoRow, Goes
<1>5. /\ RowIn(o) <=> "row" \in op[o].done
      /\ ~ObjectIn(o) /\ ~ObjectIn(o)' /\ ~RowIn(o)' /\ (RefIn(o)' <=> RefIn(o))
  BY <1>0, <1>4 DEF RowIn, RefIn, ObjectIn, To
<1>6. IF RowIn(o) THEN DropRow(o, Newest(o, "plain")) ELSE UNCHANGED rows
  BY <1>5 DEF RestoreUndoRow, Newest
<1>7. /\ Count("plain")' = Count("plain") - One(RowIn(o))
      /\ RowsWith("zip")' = RowsWith("zip")
      /\ \A h \in Hashes : IsFiniteSet(RowsWith(h))'
      /\ rows'[o] \subseteq rows[o]
      /\ \A q \in rows[o] : q.hash = "zip" => q \in rows'[o]
      /\ \A p \in Objects \ {o} : rows'[p] = rows[p]
  <2>0. Count("plain") \in Nat
    BY <1>0, RestoreBefore
  <2>1. CASE RowIn(o)
    <3>1. PICK r \in Row : r = Newest(o, "plain") /\ r.hash = "plain" /\ r \in rows[o]
      BY <1>0, <1>1, <2>1, RestoreBefore DEF Newest, Shape
    <3>2. /\ Count("plain")' = Count("plain") - 1 /\ IsFiniteSet(RowsWith("plain"))'
          /\ RowsWith("zip")' = RowsWith("zip")
          /\ rows'[o] = rows[o] \ {r} /\ \A p \in Objects \ {o} : rows'[p] = rows[p]
      BY <1>1, <1>6, <2>1, <3>1, RowsWithDropped
    <3>3. \A h \in Hashes : IsFiniteSet(RowsWith(h))'
      BY <1>1, <3>2 DEF Ledger, Hashes
    <3> QED
      BY <2>0, <2>1, <3>1, <3>2, <3>3 DEF One
  <2>2. CASE ~RowIn(o)
    BY <1>1, <1>6, <2>0, <2>2, SameRows DEF Kept, One, Hashes
  <2> QED
    BY <2>1, <2>2
<1>8. Typed /\ OwnRows(o)
  BY <1>1, <1>2, <1>7 DEF Typed, Ledger, OwnRows
<1>9. \A pcs : Busy(o, pcs)' <=> "r_fix_ref" \in pcs
  BY <1>4 DEF Busy, To
<1>10. RestoreDone(o)' /\ RowIds(o)'
  BY <1>0, <1>1, <1>2, <1>4, <1>7, <1>9, RestoreBefore DEF RestoreDone, RestoreUndone,
     RowIds, To
<1>11. RestoreRows(o)' /\ CopyKept(o)'
  BY <1>0, <1>2, <1>5, <1>7, <1>9, RestoreBefore DEF RestoreRows, CopyKept, HasCopy,
     ArchivableCopy
<1>12. RestoreRefs(o)'
  BY <1>0, <1>2, <1>4, <1>5, <1>7, <1>9, RestoreBefore DEF RestoreRefs, One, To
<1> QED
  BY <1>0, <1>2, <1>3, <1>4, <1>7, <1>8, <1>10, <1>11, <1>12, RestoreGoes

(* The reference goes if it was taken, and with the last one the payload.    *)
LEMMA RestoreUndoRefBooks ==
  ASSUME Inv, Books, NEW o \in Objects, RestoreUndoRef(o)
  PROVE  Frame(o) /\ Own(o)
<1>0. Busy(o, RestoreGuarded) /\ op[o].pc = "r_fix_ref"
  BY DEF RestoreUndoRef, At, Busy, RestoreGuarded, RestorePCs
<1>1. /\ Shape /\ Ledger /\ Balanced(o) /\ op[o] \in Locals /\ op[o].guard = {"plain"}
      /\ RestoreUndone(op[o].done)
  BY <1>0, RestoreBefore DEF Balanced, RestoreDone, Busy, RestoreUndone
<1>2. UNCHANGED <<object, rows, payload, lastId, before, budget>>
  BY DEF RestoreUndoRef, physVars
<1>3. (RefIn(o) <=> "ref" \in op[o].done) /\ ~RowIn(o) /\ ~ObjectIn(o)
  BY <1>0 DEF RefIn, RowIn, ObjectIn
<1>4. /\ refs["plain"] = Count("plain") + One(RefIn(o)) /\ refs["plain"] \in Nat
      /\ Count("plain") \in Nat /\ (op[o].wrote => refs["plain"] = One(RefIn(o)))
  BY <1>0, <1>3, RestoreBefore DEF One
<1>5. /\ refs'["plain"] = Count("plain") /\ refs'["zip"] = refs["zip"]
      /\ refs' \in [Hashes -> Nat]
      /\ Return(o) \/ (Goto(o, "r_fix_payload") /\ Count("plain") = 0)
  <2>1. refs \in [Hashes -> Nat]
    BY <1>1 DEF Ledger
  <2>2. CASE RefIn(o)
    <3>1. /\ refs' = [refs EXCEPT !["plain"] = @ - 1] /\ refs["plain"] > 0
          /\ IF refs["plain"] = 1 THEN Goto(o, "r_fix_payload") ELSE Return(o)
      BY <1>3, <2>2 DEF RestoreUndoRef, Unref
    <3> QED
      BY <1>4, <2>1, <2>2, <3>1 DEF One, Hashes
  <2>3. CASE ~RefIn(o)
    <3>1. /\ UNCHANGED refs
          /\ IF op[o].wrote THEN Goto(o, "r_fix_payload") ELSE Return(o)
      BY <1>3, <2>3 DEF RestoreUndoRef
    <3> QED
      BY <1>4, <2>1, <2>3, <3>1 DEF One
  <2> QED
    BY <2>2, <2>3
<1>6. OwnRows(o) /\ budget' \in [store : Nat, backend : Nat, crash : Nat]
  BY <1>1, <1>2 DEF OwnRows, Ledger
<1>7. CASE Return(o)
  BY <1>0, <1>2, <1>5, <1>6, <1>7, RestoreLeaves
<1>8. CASE Goto(o, "r_fix_payload") /\ Count("plain") = 0
  <2>1. "r_fix_payload" \in RestoreGuarded /\ "r_fix_payload" \in PCs
    BY DEF RestoreGuarded, RestorePCs, PCs
  <2>2. To(o, "r_fix_payload", op[o].done, op[o].wrote, op[o].old, {"plain"})
    BY <1>1, <1>8, <2>1, GotoGoes DEF Goes
  <2>3. Kept
    BY <1>1, <1>2, SameRows
  <2>4. Typed
    BY <1>5, <1>6, <2>3 DEF Typed, Kept
  <2>5. \A pcs : Busy(o, pcs)' <=> "r_fix_payload" \in pcs
    BY <2>2 DEF Busy, To
  <2>6. ~RowIn(o)' /\ ~RefIn(o)' /\ ~ObjectIn(o)'
    BY <2>2 DEF RowIn, RefIn, ObjectIn, To
  <2>7. RestoreDone(o)' /\ RowIds(o)'
    BY <1>0, <1>1, <1>2, <2>2, <2>5, RestoreBefore DEF RestoreDone, RestoreUndone,
       RowIds, To
  <2>8. RestoreRows(o)' /\ CopyKept(o)'
    BY <1>0, <1>2, <1>3, <2>5, <2>6, RestoreBefore DEF RestoreRows, CopyKept, HasCopy,
       ArchivableCopy
  <2>9. RestoreRefs(o)'
    BY <1>5, <1>8, <2>3, <2>5, <2>6 DEF RestoreRefs, Kept, One
  <2> QED
    BY <1>0, <1>2, <1>5, <1>6, <2>1, <2>2, <2>3, <2>4, <2>7, <2>8, <2>9, RestoreGoes
       DEF Kept, Hashes
<1> QED
  BY <1>5, <1>7, <1>8

(* A payload that restore wrote goes when no row has it.                     *)
LEMMA RestoreUndoPayloadBooks ==
  ASSUME Inv, Books, NEW o \in Objects, RestoreUndoPayload(o)
  PROVE  Frame(o) /\ Own(o)
<1>0. Busy(o, RestoreGuarded) /\ op[o].pc = "r_fix_payload"
  BY DEF RestoreUndoPayload, At, Busy, RestoreGuarded, RestorePCs
<1>1. Ledger /\ refs["plain"] = 0
  BY <1>0, RestoreBefore DEF Balanced, RestoreRefs, Busy
<1>2. /\ UNCHANGED <<object, rows, refs, lastId, before>> /\ Return(o)
      /\ UNCHANGED payload \/ payload' = payload \ {"plain"}
      /\ UNCHANGED budget \/ Spend("backend")
  BY DEF RestoreUndoPayload, storeVars
<1>3. refs["plain"] = Count("plain")
  <2>1. ~RowIn(o) /\ ~RefIn(o)
    BY <1>0 DEF RowIn, RefIn
  <2> QED
    BY <1>0, <2>1, RestoreBefore DEF One
<1>4. refs' \in [Hashes -> Nat] /\ budget' \in [store : Nat, backend : Nat, crash : Nat]
  BY <1>1, <1>2, SpendTyped DEF Ledger
<1> QED
  BY <1>0, <1>1, <1>2, <1>3, <1>4, RestoreLeaves

(* A failing statement of the closure leads to the compensation, with what   *)
(* was done; before the closure it ends restore.                             *)
LEMMA RestoreFailsBooks ==
  ASSUME Inv, Books, NEW o \in Objects, StoreFails(o), Busy(o, RestorePCs),
         ~Busy(o, FixPCs)
  PROVE  Frame(o) /\ Own(o)
<1>0. op[o].pc \in {"r_hot", "r_share", "r_ref", "r_row", "r_object", "r_audit"}
      /\ op[o] # None
  BY DEF StoreFails, Statements, Busy, RestorePCs, FixPCs
<1>1. Shape /\ Ledger /\ Balanced(o) /\ op[o] \in Locals /\ HasCopy(o) /\ RowIds(o)
  BY <1>0, OwnBefore DEF Balanced, Guarded, CopyKept, SwapPCs
<1>2. UNCHANGED <<object, rows, refs, payload, lastId, before>> /\ Spend("store")
  BY DEF StoreFails, storeVars, physVars
<1>3. /\ OwnRows(o) /\ budget' \in [store : Nat, backend : Nat, crash : Nat]
      /\ refs' \in [Hashes -> Nat]
  BY <1>1, <1>2, SpendTyped DEF OwnRows, Ledger
<1>4. CASE op[o].pc = "r_hot"
  <2>1. Return(o)
    BY <1>4 DEF StoreFails, ErrorTarget
  <2>2. Others(o) /\ op'[o] = None
    BY <1>1, <2>1, Leaves DEF Left
  <2>3. GuardOf(o) = {}
    BY <1>0, <1>1, <1>4 DEF Balanced, Guarded, Busy, GuardOf
  <2>4. Balanced(o)' /\ GuardOf(o)' = {}
    BY <1>1, <1>2, <2>2, LeftBalanced DEF RowIds, HasCopy, ArchivableCopy
  <2> QED
    BY <1>2, <1>3, <2>2, <2>3, <2>4, FreeStep
<1>5. CASE op[o].pc = "r_share"
  <2>1. Return(o) /\ Busy(o, RestoreGuarded)
    BY <1>0, <1>5 DEF StoreFails, ErrorTarget, Busy, RestoreGuarded, RestorePCs
  <2>2. op[o].done = {}
    BY <1>0, <1>1, <1>5 DEF Balanced, RestoreDone, Busy
  <2>3. refs["plain"] = Count("plain")
    BY <2>1, <2>2, RestoreBefore DEF One, RowIn, RefIn
  <2> QED
    BY <1>2, <1>3, <2>1, <2>3, RestoreLeaves
<1>6. CASE op[o].pc \in {"r_ref", "r_row", "r_object", "r_audit"}
  <2>1. Goto(o, "r_fix_object") /\ Busy(o, RestoreGuarded)
    BY <1>0, <1>6 DEF StoreFails, ErrorTarget, Busy, RestoreGuarded, RestorePCs
  <2>2. "r_fix_object" \in RestoreGuarded /\ "r_fix_object" \in PCs
    BY DEF RestoreGuarded, RestorePCs, PCs
  <2>3. To(o, "r_fix_object", op[o].done, op[o].wrote, op[o].old, {"plain"})
    <3>1. Goes(o, "r_fix_object")
      BY <1>1, <2>1, <2>2, GotoGoes
    <3>2. op[o].guard = {"plain"}
      BY <2>1, RestoreBefore
    <3> QED
      BY <3>1, <3>2 DEF Goes
  <2>4. Kept
    BY <1>1, <1>2, SameRows
  <2>5. Typed
    BY <1>3, <2>4 DEF Typed, Kept
  <2>6. \A pcs : Busy(o, pcs)' <=> "r_fix_object" \in pcs
    BY <2>3 DEF Busy, To
  <2>7. /\ (RowIn(o)' <=> RowIn(o)) /\ (RefIn(o)' <=> RefIn(o))
        /\ (ObjectIn(o)' <=> ObjectIn(o))
    BY <1>6, <2>3 DEF RowIn, RefIn, ObjectIn, To
  <2>8. RestoreDone(o)' /\ RowIds(o)'
    <3>1. RestoreUndone(op[o].done)
      BY <1>0, <1>1, <1>6 DEF Balanced, RestoreDone, Busy, RestoreUndone
    <3> QED
      BY <1>1, <1>2, <2>3, <2>6, <3>1 DEF RestoreDone, RestoreUndone, RowIds, To
  <2>9. RestoreRows(o)' /\ CopyKept(o)'
    BY <1>1, <1>2, <2>1, <2>6, <2>7, RestoreBefore DEF RestoreRows, Newest, CopyKept,
       HasCopy, ArchivableCopy
  <2>10. RestoreRefs(o)'
    BY <1>2, <2>1, <2>3, <2>4, <2>6, <2>7, RestoreBefore DEF RestoreRefs, Kept, One, To
  <2> QED
    BY <1>2, <1>3, <2>1, <2>2, <2>3, <2>4, <2>5, <2>8, <2>9, <2>10, RestoreGoes
       DEF Kept, Hashes
<1> QED
  BY <1>0, <1>4, <1>5, <1>6

-----------------------------------------------------------------------------
(* Every step keeps the books; a crash makes the next process count.         *)
LEMMA BooksStep ==
  Inv /\ Books /\ [Next]_vars /\ [CompensationGoes]_vars => Books'
<1> SUFFICES ASSUME Inv, Books, [Next]_vars, [CompensationGoes]_vars PROVE Books'
  OBVIOUS
<1>0. Shape /\ Ledger
  BY DEF Inv, Books
<1>1. ASSUME NEW o \in Objects, CompensationGoes,
             Compress(o) \/ Archive(o) \/ Restore(o) \/ GuardTimesOut(o) \/ StoreFails(o)
      PROVE  Books'
  <2>1. CASE CompressBegin(o) \/ ArchiveBegin(o) \/ RestoreBegin(o)
    BY <1>0, <2>1, BeginBooks, StepBooks
  <2>2. CASE Compress(o) /\ ~CompressBegin(o)
    <3>1. Frame(o) /\ Own(o)
      BY <2>2, CompressGuardBooks, CompressShareBooks, CompressWriteBooks,
         CompressWriteFailsBooks, CompressOldBooks, CompressRefBooks,
         CompressUnrefBooks, CompressUnrowBooks, CompressRowBooks, CompressObjectBooks,
         CompressDeleteBooks, CompressUndoRowBooks, CompressUndoUnrowBooks,
         CompressUndoUnrefBooks, CompressUndoRefBooks, CompressUndoPayloadBooks
         DEF Compress
    <3> QED
      BY <1>0, <3>1, StepBooks
  <2>3. CASE Archive(o) /\ ~ArchiveBegin(o)
    <3>1. Busy(o, ArchivePCs)
      BY <2>3 DEF Archive, ArchiveWrite, ArchiveWriteFails, ArchiveRecord,
         ArchiveObject, ArchiveUnrecord, ArchiveUnblob, At, Busy, ArchivePCs
    <3> QED
      BY <1>0, <2>3, <3>1, ArchiveBooks, StepBooks
  <2>4. CASE Restore(o) /\ ~RestoreBegin(o)
    <3>1. Frame(o) /\ Own(o)
      BY <2>4, RestoreHotBooks, RestoreGuardBooks, RestoreShareBooks, RestoreWriteBooks,
         RestoreRefBooks, RestoreRowBooks, RestoreObjectBooks, RestoreAuditBooks,
         RestoreUndoObjectBooks, RestoreUndoRowBooks, RestoreUndoRefBooks,
         RestoreUndoPayloadBooks DEF Restore
    <3> QED
      BY <1>0, <3>1, StepBooks
  <2>5. CASE GuardTimesOut(o)
    BY <1>0, <2>5, TimesOutBooks, StepBooks
  <2>6. CASE StoreFails(o)
    <3>1. /\ ~Busy(o, FixPCs)
          /\ Busy(o, CompressPCs) \/ Busy(o, ArchivePCs) \/ Busy(o, RestorePCs)
      <4>1. op[o] # None /\ op[o].pc \in Statements
        BY <2>6 DEF StoreFails
      <4>2. Busy(o, CompressPCs) \/ Busy(o, ArchivePCs) \/ Busy(o, RestorePCs)
        BY <4>1 DEF Busy, Statements, CompressPCs, ArchivePCs, RestorePCs
      <4> QED
        BY <1>1, <2>6, <4>2 DEF CompensationGoes
    <3> QED
      BY <1>0, <2>6, <3>1, CompressFailsBooks, ArchiveBooks, RestoreFailsBooks, StepBooks
  <2> QED
    BY <1>1, <2>1, <2>2, <2>3, <2>4, <2>5, <2>6
<1>2. CASE Crash
  <2>1. /\ \A o \in Objects : op'[o] = None
        /\ refs' = [h \in Hashes |-> Cardinality(RowsWith(h))] /\ Spend("crash")
        /\ UNCHANGED <<object, rows, payload, lastId, before>>
    BY <1>2 DEF Crash, physVars
  <2>2. budget' \in [store : Nat, backend : Nat, crash : Nat]
    BY <1>0, <2>1, SpendTyped
  <2>3. \A h \in Hashes : RowsWith(h)' = RowsWith(h) /\ IsFiniteSet(RowsWith(h))'
    BY <1>0, <2>1, SameRows DEF Kept
  <2>4. refs' \in [Hashes -> Nat]
    BY <1>0, <2>1, CountsRows DEF Count
  <2>5. FreeExact'
    BY <2>1, <2>3 DEF FreeExact, Count
  <2>6. Disjoint' /\ PayloadOfEveryRow'
    BY <1>0, <2>1 DEF Disjoint, GuardOf, Ledger, PayloadOfEveryRow
  <2>7. ASSUME NEW o \in Objects PROVE Balanced(o)'
    <3>1. RowIds(o)' /\ (object'[o].state = "ARCHIVED" => HasCopy(o)')
      BY <2>1 DEF Books, Balanced, RowIds, CopyKept, HasCopy, ArchivableCopy
    <3> QED
      BY <2>1, <3>1, LeftBalanced
  <2> QED
    BY <2>2, <2>3, <2>4, <2>5, <2>6, <2>7 DEF Books, Ledger
<1>3. CASE UNCHANGED vars
  <2>1. UNCHANGED <<object, rows, refs, payload, op, lastId, before, budget>>
    BY <1>3 DEF vars, storeVars, physVars
  <2>2. Kept
    BY <1>0, <2>1, SameRows
  <2>3. \A o \in Objects : GuardOf(o)' = GuardOf(o)
    BY <2>1 DEF GuardOf
  <2>4. Ledger'
    <3>1. Disjoint' /\ PayloadOfEveryRow'
      BY <1>0, <2>1, <2>3 DEF Ledger, Disjoint, PayloadOfEveryRow
    <3>2. FreeExact'
      BY <1>0, <2>1, <2>2, <2>3 DEF Ledger, FreeExact, Kept, Count
    <3> QED
      BY <1>0, <2>1, <2>2, <3>1, <3>2 DEF Ledger, Kept
  <2>5. ASSUME NEW o \in Objects PROVE Balanced(o)'
    <3>1. Balanced(o)
      BY DEF Books
    <3>2. /\ \A pcs : Busy(o, pcs)' <=> Busy(o, pcs)
          /\ RowIn(o)' = RowIn(o) /\ UnrowIn(o)' = UnrowIn(o)
          /\ UnrefIn(o)' = UnrefIn(o) /\ RefIn(o)' = RefIn(o)
          /\ ObjectIn(o)' = ObjectIn(o)
          /\ HasCopy(o)' <=> HasCopy(o)
          /\ Newest(o, "zip")' = Newest(o, "zip")
          /\ Newest(o, "plain")' = Newest(o, "plain")
      BY <2>1 DEF Busy, RowIn, UnrowIn, UnrefIn, RefIn, ObjectIn, Newest, HasCopy,
         ArchivableCopy
    <3>3. Guarded(o)' /\ CompressDone(o)' /\ RestoreDone(o)'
      BY <2>1, <3>1, <3>2 DEF Balanced, Guarded, CompressDone, RestoreDone
    <3>4. CompressRows(o)' /\ RestoreRows(o)' /\ CopyKept(o)' /\ RowIds(o)'
      BY <2>1, <3>1, <3>2 DEF Balanced, CompressRows, RestoreRows, CopyKept, RowIds
    <3>5. CompressPayloads(o)' /\ CompressRefs(o)' /\ RestoreRefs(o)'
      BY <2>1, <2>2, <3>1, <3>2 DEF Balanced, CompressPayloads, CompressRefs, RestoreRefs,
         Kept
    <3> QED
      BY <3>3, <3>4, <3>5 DEF Balanced
  <2> QED
    BY <2>4, <2>5 DEF Books
<1> QED
  BY <1>1, <1>2, <1>3 DEF Next

(* The statements between the first and the last of a handler do not return. *)
LEMMA GoesOn ==
  ASSUME Shape, NEW o \in Objects, op[o] \in Locals,
         \/ CompressBegin(o) \/ CompressGuard(o) \/ CompressWrite(o) \/ CompressRef(o)
         \/ CompressUnref(o) \/ CompressUnrow(o) \/ CompressRow(o) \/ CompressUndoRow(o)
         \/ CompressUndoUnrow(o) \/ CompressUndoUnref(o) \/ CompressUndoRef(o)
         \/ ArchiveBegin(o) \/ ArchiveWrite(o) \/ ArchiveRecord(o) \/ ArchiveUnrecord(o)
         \/ RestoreBegin(o) \/ RestoreGuard(o) \/ RestoreRef(o) \/ RestoreRow(o)
         \/ RestoreObject(o) \/ RestoreUndoObject(o) \/ RestoreUndoRow(o)
  PROVE  op'[o] # None
<1>1. \A l \in PCs : Goto(o, l) => op'[o] # None
  BY GotoGoes DEF Goes, To
<1>2. \A l \in PCs, s \in Metadata : Did(o, s, l) => op'[o] # None
  BY DidGoes DEF To
<1>3. CASE CompressBegin(o) \/ ArchiveBegin(o) \/ RestoreBegin(o)
  BY <1>3, NoneAssumption DEF CompressBegin, ArchiveBegin, RestoreBegin, Begin
<1>4. CASE CompressGuard(o)
  <2>1. op' = [op EXCEPT ![o].pc = "c_share", ![o].guard = Hashes]
    BY <1>4 DEF CompressGuard, Guard
  <2>2. "c_share" \in PCs /\ Hashes \in SUBSET Hashes
    BY DEF PCs, CompressPCs
  <2> QED
    BY <2>1, <2>2, GuardGoes DEF To
<1>5. CASE RestoreGuard(o)
  <2>1. op' = [op EXCEPT ![o].pc = "r_share", ![o].guard = {"plain"}]
    BY <1>5 DEF RestoreGuard, Guard
  <2>2. "r_share" \in PCs /\ {"plain"} \in SUBSET Hashes
    BY DEF PCs, RestorePCs, Hashes
  <2> QED
    BY <2>1, <2>2, GuardGoes DEF To
<1>6. CASE CompressWrite(o)
  <2>1. op' = [op EXCEPT ![o].pc = "c_old", ![o].wrote = TRUE]
    BY <1>6 DEF CompressWrite
  <2>2. "c_old" \in PCs
    BY DEF PCs, CompressPCs
  <2> QED
    BY <2>1, <2>2, WroteGoes DEF To
<1>7. CASE CompressRef(o) \/ CompressUnref(o) \/ CompressUnrow(o) \/ CompressRow(o)
           \/ RestoreRef(o) \/ RestoreRow(o) \/ RestoreObject(o)
  <2>1. \E l \in PCs, s \in Metadata : Did(o, s, l)
    BY <1>7 DEF CompressRef, CompressUnref, CompressUnrow, CompressRow, RestoreRef,
       RestoreRow, RestoreObject, PCs, CompressPCs, RestorePCs, Metadata
  <2> QED
    BY <1>2, <2>1
<1>8. CASE CompressUndoRow(o) \/ CompressUndoUnrow(o) \/ CompressUndoUnref(o)
           \/ CompressUndoRef(o) \/ ArchiveWrite(o) \/ ArchiveRecord(o)
           \/ ArchiveUnrecord(o) \/ RestoreUndoObject(o) \/ RestoreUndoRow(o)
  <2>1. \E l \in PCs : Goto(o, l)
    BY <1>8 DEF CompressUndoRow, CompressUndoUnrow, CompressUndoUnref, CompressUndoRef,
       ArchiveWrite, ArchiveRecord, ArchiveUnrecord, RestoreUndoObject, RestoreUndoRow,
       PCs, CompressPCs, ArchivePCs, RestorePCs
  <2> QED
    BY <1>1, <2>1
<1> QED
  BY <1>3, <1>4, <1>5, <1>6, <1>7, <1>8

(* An operation that returns leaves a replica that the object's row          *)
(* describes.                                                                *)
LEMMA ReturnHasCopy ==
  ASSUME Inv, Books, NEW o \in Objects, op[o] # None, op'[o] = None,
         Compress(o) \/ Archive(o) \/ Restore(o) \/ GuardTimesOut(o) \/ StoreFails(o)
  PROVE  HasCopy(o)'
<1>0. /\ Shape /\ Balanced(o) /\ op[o] \in Locals
      /\ object \in [Objects -> [state : States, zip : BOOLEAN]]
  BY DEF Inv, Books, Shape, ObjectRow, Balanced, Guarded
<1>1. CASE UNCHANGED <<object, rows>> /\ op[o].pc \notin SwapPCs
  <2>1. HasCopy(o)
    BY <1>0, <1>1 DEF Balanced, CopyKept
  <2> QED
    BY <1>1, <2>1 DEF HasCopy, ArchivableCopy
<1>2. CASE CompressObject(o)
  <2>1. object'[o].zip /\ rows' = rows
    BY <1>0, <1>2 DEF CompressObject, SetObject
  <2>2. Newest(o, "zip") \in rows[o]
    <3>1. Busy(o, CompressPCs) /\ Busy(o, {"c_object", "c_delete"}) /\ op[o].pc = "c_object"
      BY <1>2 DEF CompressObject, At, Busy, CompressPCs
    <3>2. RowIn(o)
      BY <1>0, <3>1 DEF Balanced, CompressDone, RowIn
    <3> QED
      BY <1>0, <3>1, <3>2 DEF Balanced, CompressRows
  <2> QED
    BY <2>1, <2>2 DEF HasCopy, ArchivableCopy, Newest
<1>3. CASE ArchiveObject(o)
  <2>1. object'[o].zip = object[o].zip /\ rows' = rows
    BY <1>0, <1>3 DEF ArchiveObject, SetObject
  <2>2. HasCopy(o)
    BY <1>0, <1>3 DEF Balanced, CopyKept, ArchiveObject, At, SwapPCs
  <2> QED
    BY <2>1, <2>2 DEF HasCopy, ArchivableCopy
<1>4. CASE RestoreHot(o)
  <2>1. ~Goto(o, "r_guard")
    BY <1>0, GotoGoes DEF Goes, To, PCs, RestorePCs
  <2>2. Plain(o) # {} /\ rows' = rows /\ (object' = object \/ ~object'[o].zip)
    BY <1>0, <1>4, <2>1 DEF RestoreHot, SetObject
  <2>3. CASE object' = object
    BY <1>1, <1>4, <2>2, <2>3 DEF RestoreHot, At, SwapPCs
  <2>4. CASE ~object'[o].zip
    BY <2>2, <2>4 DEF HasCopy, ArchivableCopy, Plain
  <2> QED
    BY <2>2, <2>3, <2>4
<1>5. CASE StoreFails(o)
  <2>1. UNCHANGED <<object, rows>>
    BY <1>5 DEF StoreFails, storeVars
  <2>2. CASE op[o].pc \in SwapPCs
    <3>1. ErrorTarget(o) \in {"c_fix_row", "c_fix_payload"}
      BY <2>2 DEF ErrorTarget, SwapPCs
    <3>2. Goto(o, ErrorTarget(o)) /\ ErrorTarget(o) \in PCs
      BY <1>5, <3>1 DEF StoreFails, PCs, CompressPCs
    <3> QED
      BY <1>0, <3>2, GotoGoes DEF Goes, To
  <2> QED
    BY <1>1, <2>1, <2>2
<1>6. CASE CompressShare(o) \/ CompressWriteFails(o) \/ CompressOld(o)
           \/ CompressDelete(o) \/ CompressUndoPayload(o)
  BY <1>1, <1>6 DEF CompressShare, CompressWriteFails, CompressOld, CompressDelete,
     CompressUndoPayload, storeVars, At, SwapPCs
<1>7. CASE ArchiveWriteFails(o) \/ ArchiveUnblob(o)
  BY <1>1, <1>7 DEF ArchiveWriteFails, ArchiveUnblob, storeVars, At, SwapPCs
<1>8. CASE RestoreShare(o) \/ RestoreWrite(o) \/ RestoreAudit(o) \/ RestoreUndoRef(o)
           \/ RestoreUndoPayload(o) \/ GuardTimesOut(o)
  BY <1>1, <1>8 DEF RestoreShare, RestoreWrite, RestoreAudit, RestoreUndoRef,
     RestoreUndoPayload, GuardTimesOut, storeVars, At, SwapPCs
<1> QED
  BY <1>0, <1>2, <1>3, <1>4, <1>5, <1>6, <1>7, <1>8, GoesOn
     DEF Compress, Archive, Restore

(* An operation of another object does not end that of o.                    *)
LEMMA OthersGoOn ==
  ASSUME Shape, NEW o \in Objects, NEW p \in Objects \ {o},
         Compress(p) \/ Archive(p) \/ Restore(p) \/ GuardTimesOut(p) \/ StoreFails(p)
  PROVE  op'[o] = op[o]
<1>1. \A l : Goto(p, l) => op'[o] = op[o]
  BY DEF Goto, Shape
<1>2. \A l, s : Did(p, s, l) => op'[o] = op[o]
  BY DEF Did, Shape
<1>3. Return(p) => op'[o] = op[o]
  BY DEF Return, Shape
<1>4. \A l, h : Guard(p, l, h) => op'[o] = op[o]
  BY DEF Guard, Shape
<1>5. \A l, r : Begin(p, l, r) => op'[o] = op[o]
  BY DEF Begin, Shape
<1>6. CASE Compress(p)
  <2>1. CASE CompressWrite(p) \/ CompressOld(p)
    BY <1>3, <2>1 DEF CompressWrite, CompressOld, Shape
  <2> QED
    BY <1>1, <1>2, <1>3, <1>4, <1>5, <1>6, <2>1 DEF Compress, CompressBegin,
       CompressGuard, CompressShare, CompressWriteFails, CompressRef, CompressUnref,
       CompressUnrow, CompressRow, CompressObject, CompressDelete, CompressUndoRow,
       CompressUndoUnrow, CompressUndoUnref, CompressUndoRef, CompressUndoPayload
<1>7. CASE Archive(p)
  BY <1>1, <1>3, <1>5, <1>7 DEF Archive, ArchiveBegin, ArchiveWrite, ArchiveWriteFails,
     ArchiveRecord, ArchiveObject, ArchiveUnrecord, ArchiveUnblob
<1>8. CASE Restore(p)
  <2>1. CASE RestoreWrite(p)
    BY <1>3, <2>1 DEF RestoreWrite, Shape
  <2> QED
    BY <1>1, <1>2, <1>3, <1>4, <1>5, <1>8, <2>1 DEF Restore, RestoreBegin, RestoreHot,
       RestoreGuard, RestoreShare, RestoreRef, RestoreRow, RestoreObject, RestoreAudit,
       RestoreUndoObject, RestoreUndoRow, RestoreUndoRef, RestoreUndoPayload
<1> QED
  BY <1>1, <1>3, <1>6, <1>7, <1>8 DEF GuardTimesOut, StoreFails

(* No operation ends without a replica that the object's row describes,      *)
(* except by a crash while compress swaps the rows.                          *)
LEMMA CopyStep ==
  ASSUME Inv, Books, Next, NEW o \in Objects,
         op[o] # None, op'[o] = None, ~HasCopy(o)'
  PROVE  budget'.crash < budget.crash /\ op[o].pc \in SwapPCs
<1>1. ASSUME NEW p \in Objects,
             Compress(p) \/ Archive(p) \/ Restore(p) \/ GuardTimesOut(p) \/ StoreFails(p)
      PROVE  FALSE
  BY <1>1, ReturnHasCopy, OthersGoOn DEF Inv
<1>2. Crash
  BY <1>1 DEF Next
<1>3. UNCHANGED <<object, rows>> /\ Spend("crash")
  BY <1>2 DEF Crash
<1>4. ~HasCopy(o)
  BY <1>3 DEF HasCopy, ArchivableCopy
<1>5. op[o].pc \in SwapPCs
  BY <1>4 DEF Books, Balanced, CopyKept
<1>6. budget'.crash < budget.crash
  BY <1>3 DEF Books, Ledger, Spend
<1> QED
  BY <1>5, <1>6

-----------------------------------------------------------------------------
(* Where no statement of a compensation fails, the books are kept.           *)
LEMMA SpecBooks == Spec /\ [][CompensationGoes]_vars => [](Inv /\ Books)
<1>1. Init => Inv /\ Books
  BY InitInv, InitBooks
<1>2. Inv /\ Books /\ [Next]_vars /\ [CompensationGoes]_vars => (Inv /\ Books)'
  BY InvStep, BooksStep
<1> QED
  BY <1>1, <1>2, PTL DEF Spec

(* The reference count of a payload that no operation has guarded is the     *)
(* number of rows with its content, for any number of objects, replicas,     *)
(* failing statements and backend calls and crashes, if no statement of a    *)
(* compensation fails: the closures of compress and restore and their        *)
(* compensations give back exactly what they took.                           *)
THEOREM RefcountsExact == Spec /\ [][CompensationGoes]_vars => []RefcountExact
<1>1. Inv /\ Books => RefcountExact
  <2> SUFFICES ASSUME Books, NEW h \in Hashes \ Held PROVE refs[h] = Count(h)
    BY DEF RefcountExact, Count
  <2>1. \A o \in Objects : h \notin GuardOf(o)
    BY DEF Held, GuardOf
  <2> QED
    BY <2>1 DEF Books, Ledger, FreeExact
<1> QED
  BY <1>1, SpecBooks, PTL

(* Every replica row has its payload, for any number of objects, replicas,   *)
(* failing statements and backend calls and crashes, if no statement of a    *)
(* compensation fails: a payload is deleted only when the counts and the     *)
(* rows both say that nobody refers to it.                                   *)
THEOREM RowsHavePayloads == Spec /\ [][CompensationGoes]_vars => []PayloadOfEveryRow
<1>1. Inv /\ Books => PayloadOfEveryRow
  BY DEF Books, Ledger
<1> QED
  BY <1>1, SpecBooks, PTL

(* An operation that ends without a replica that the object's row describes  *)
(* ends by a crash between the two row statements of compress or before      *)
(* their compensation, for any number of objects, failures and crashes, if   *)
(* no statement of a compensation fails.                                     *)
THEOREM CopiesLostOnlyInSwap ==
  Spec /\ [][CompensationGoes]_vars => CopyLostOnlyInSwap
<1>1. Inv /\ Books /\ [Next]_vars =>
        [\A o \in Objects :
           (op[o] # None /\ op'[o] = None /\ ~HasCopy(o)')
             => /\ budget'.crash < budget.crash
                /\ op[o].pc \in {"c_row", "c_object", "c_fix_row", "c_fix_unrow"}]_vars
  <2> SUFFICES ASSUME Inv, Books, Next, NEW o \in Objects,
                      op[o] # None, op'[o] = None, ~HasCopy(o)'
               PROVE  /\ budget'.crash < budget.crash
                      /\ op[o].pc \in {"c_row", "c_object", "c_fix_row", "c_fix_unrow"}
    OBVIOUS
  <2> QED
    BY CopyStep DEF SwapPCs
<1> QED
  BY <1>1, SpecBooks, PTL DEF Spec, CopyLostOnlyInSwap

-----------------------------------------------------------------------------
(* With one failing statement the hypothesis above holds. *)

\* A compensation runs only after a statement has failed.
Paid ==
  /\ budget \in [store : Nat, backend : Nat, crash : Nat]
  /\ budget.store <= MaxStoreFaults
  /\ \A o \in Objects : Busy(o, FixPCs) => budget.store < MaxStoreFaults

(* Only a failing statement takes an operation into its compensation.        *)
LEMMA FixReached ==
  ASSUME Shape, NEW o \in Objects, Busy(o, FixPCs)',
         Compress(o) \/ Archive(o) \/ Restore(o) \/ GuardTimesOut(o)
  PROVE  Busy(o, FixPCs)
<1>1. ~Return(o)
  BY Leaves DEF Left, Busy
<1>2. ASSUME NEW l, op[o] # None, Goto(o, l) PROVE l \in FixPCs
  BY <1>2, Moves DEF Moved, Busy
<1>3. ASSUME NEW l, NEW s, op[o] # None, Did(o, s, l) PROVE l \in FixPCs
  BY <1>3, Moves DEF Moved, Busy
<1>4. ASSUME NEW l, NEW x, op[o] # None,
             \/ op' = [op EXCEPT ![o].pc = l, ![o].guard = x]
             \/ op' = [op EXCEPT ![o].pc = l, ![o].wrote = x]
             \/ op' = [op EXCEPT ![o].pc = l, ![o].old = x]
      PROVE  l \in FixPCs
  BY <1>4, MovesNoting DEF Moved, Busy
<1>5. ASSUME NEW l \in {"c_guard", "a_write", "r_hot"}, NEW r, Begin(o, l, r) PROVE FALSE
  BY <1>5 DEF Begin, Shape, Busy, FixPCs
<1>6. CASE CompressBegin(o) \/ ArchiveBegin(o) \/ RestoreBegin(o)
  BY <1>5, <1>6 DEF CompressBegin, ArchiveBegin, RestoreBegin
<1>7. CASE CompressGuard(o) \/ RestoreGuard(o)
  BY <1>4, <1>7 DEF CompressGuard, RestoreGuard, Guard, At, FixPCs
<1>8. CASE CompressWrite(o) \/ CompressOld(o)
  BY <1>1, <1>4, <1>8 DEF CompressWrite, CompressOld, At, FixPCs
<1>9. CASE RestoreWrite(o)
  BY <1>1, <1>4, <1>9 DEF RestoreWrite, At, FixPCs
<1>10. CASE CompressRef(o) \/ CompressUnref(o) \/ CompressUnrow(o) \/ CompressRow(o)
            \/ RestoreRef(o) \/ RestoreRow(o) \/ RestoreObject(o)
  <2>1. op[o] # None /\ \E l \in PCs \ FixPCs, s \in Metadata : Did(o, s, l)
    BY <1>10 DEF CompressRef, CompressUnref, CompressUnrow, CompressRow, RestoreRef,
       RestoreRow, RestoreObject, At, PCs, CompressPCs, RestorePCs, FixPCs, Metadata
  <2> QED
    BY <1>3, <2>1
<1>11. CASE CompressUndoRow(o) \/ CompressUndoUnrow(o) \/ CompressUndoUnref(o)
            \/ CompressUndoRef(o) \/ RestoreUndoObject(o) \/ RestoreUndoRow(o)
            \/ RestoreUndoRef(o)
  BY <1>11 DEF CompressUndoRow, CompressUndoUnrow, CompressUndoUnref, CompressUndoRef,
     RestoreUndoObject, RestoreUndoRow, RestoreUndoRef, At, Busy, FixPCs
<1>12. CASE CompressShare(o) \/ CompressWriteFails(o) \/ CompressObject(o)
            \/ CompressDelete(o) \/ CompressUndoPayload(o)
  <2>1. op[o] # None /\ \E l \in PCs \ FixPCs : Goto(o, l)
    BY <1>1, <1>12 DEF CompressShare, CompressWriteFails, CompressObject,
       CompressDelete, CompressUndoPayload, At, PCs, CompressPCs, FixPCs
  <2> QED
    BY <1>2, <2>1
<1>13. CASE ArchiveWrite(o) \/ ArchiveWriteFails(o) \/ ArchiveRecord(o)
            \/ ArchiveObject(o) \/ ArchiveUnrecord(o) \/ ArchiveUnblob(o)
  BY <1>1, <1>2, <1>13 DEF ArchiveWrite, ArchiveWriteFails, ArchiveRecord, ArchiveObject,
     ArchiveUnrecord, ArchiveUnblob, At, FixPCs
<1>14. CASE RestoreHot(o) \/ RestoreShare(o) \/ RestoreAudit(o)
            \/ RestoreUndoPayload(o) \/ GuardTimesOut(o)
  <2>1. op[o] # None /\ \E l \in PCs \ FixPCs : Goto(o, l)
    BY <1>1, <1>14 DEF RestoreHot, RestoreShare, RestoreAudit, RestoreUndoPayload,
       GuardTimesOut, At, PCs, RestorePCs, FixPCs
  <2> QED
    BY <1>2, <2>1
<1> QED
  BY <1>6, <1>7, <1>8, <1>9, <1>10, <1>11, <1>12, <1>13, <1>14
     DEF Compress, Archive, Restore

(* No step gives back a failure, and a failing statement takes one.          *)
LEMMA BudgetSpent ==
  ASSUME Paid, NEW o \in Objects,
         Compress(o) \/ Archive(o) \/ Restore(o) \/ GuardTimesOut(o) \/ StoreFails(o)
  PROVE  /\ budget' \in [store : Nat, backend : Nat, crash : Nat]
         /\ budget'.store <= budget.store
         /\ StoreFails(o) => budget'.store < budget.store
<1>1. UNCHANGED budget \/ Spend("backend") \/ Spend("store")
  BY DEF Compress, CompressBegin, CompressGuard, CompressShare, CompressWrite,
     CompressWriteFails, CompressOld, CompressRef, CompressUnref, CompressUnrow,
     CompressRow, CompressObject, CompressDelete, CompressUndoRow, CompressUndoUnrow,
     CompressUndoUnref, CompressUndoRef, CompressUndoPayload, Archive, ArchiveBegin,
     ArchiveWrite, ArchiveWriteFails, ArchiveRecord, ArchiveObject, ArchiveUnrecord,
     ArchiveUnblob, Restore, RestoreBegin, RestoreHot, RestoreGuard, RestoreShare,
     RestoreWrite, RestoreRef, RestoreRow, RestoreObject, RestoreAudit,
     RestoreUndoObject, RestoreUndoRow, RestoreUndoRef, RestoreUndoPayload,
     GuardTimesOut, StoreFails, Begin, Guard
<1>2. CASE UNCHANGED budget \/ Spend("backend")
  <2>1. ~StoreFails(o)
    BY <1>2 DEF StoreFails, Spend, Paid
  <2> QED
    BY <1>2, <2>1 DEF Spend, Paid
<1>3. CASE Spend("store")
  BY <1>3 DEF Spend, Paid
<1> QED
  BY <1>1, <1>2, <1>3

(* The hypothesis on compensations holds wherever at most one statement      *)
(* fails: the results above are then results of the specification alone.     *)
THEOREM OneFaultCompensates ==
  MaxStoreFaults <= 1 /\ Spec => [][CompensationGoes]_vars
<1> SUFFICES ASSUME MaxStoreFaults <= 1 PROVE Spec => [][CompensationGoes]_vars
  OBVIOUS
<1>1. Init => Inv /\ Paid
  <2>1. Init => Paid
    BY TransformAssumption DEF Init, Paid, Busy
  <2> QED
    BY <2>1, InitInv
<1>2. Inv /\ Paid /\ [Next]_vars => (Inv /\ Paid)'
  <2> SUFFICES ASSUME Inv, Paid, [Next]_vars PROVE Paid'
    BY InvStep
  <2>1. MaxStoreFaults \in Nat
    BY TransformAssumption
  <2>2. ASSUME NEW o \in Objects,
               Compress(o) \/ Archive(o) \/ Restore(o) \/ GuardTimesOut(o) \/ StoreFails(o)
        PROVE  Paid'
    <3>1. /\ budget' \in [store : Nat, backend : Nat, crash : Nat]
          /\ budget'.store <= budget.store
          /\ StoreFails(o) => budget'.store < budget.store
      BY <2>2, BudgetSpent
    <3>2. ASSUME NEW p \in Objects, Busy(p, FixPCs)' PROVE budget'.store < MaxStoreFaults
      <4>1. CASE p = o
        BY <2>1, <2>2, <3>1, <3>2, <4>1, FixReached DEF Inv, Paid
      <4>2. CASE p # o
        <5>1. op'[p] = op[p]
          BY <2>2, <4>2, OthersGoOn DEF Inv
        <5> QED
          BY <2>1, <3>1, <3>2, <5>1 DEF Paid, Busy
      <4> QED
        BY <4>1, <4>2
    <3> QED
      BY <2>1, <3>1, <3>2 DEF Paid
  <2>3. CASE Crash
    BY <2>1, <2>3 DEF Crash, Spend, Paid, Busy
  <2>4. CASE UNCHANGED vars
    BY <2>4 DEF vars, Paid, Busy
  <2> QED
    BY <2>2, <2>3, <2>4 DEF Next
<1>3. Paid => CompensationGoes
  BY TransformAssumption DEF Paid, CompensationGoes, StoreFails, Spend
<1> QED
  BY <1>1, <1>2, <1>3, PTL DEF Spec
==============================================================================
