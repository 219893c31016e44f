------------------------- MODULE Coordinator_proofs --------------------------
(***************************************************************************)
(* Proofs about module Coordinator, for every set of objects, payloads,    *)
(* workers and attempts and for any number of faults and crashes: its      *)
(* types, and JournalCovers -- whatever fails, recovery finds all it must  *)
(* resolve in the journal.                                                 *)
(***************************************************************************)
EXTENDS CoordinatorProperties, FiniteSetTheorems, TLAPS

-----------------------------------------------------------------------------
(* Type correctness. *)

\* The steps of recovery that work on a journal entry.
AtEntry == EntryPCs \cup {"cm_release"}

\* While recovery works on an entry it has one.
RecoveryHasEntry == rpc \in AtEntry => rec.att \in Attempts

\* The steps that add the payload at hand to a set of payloads, and those
\* that lead there.
PayloadPCs == {"create_write", "create_insert", "create_row", "undo_release"}

\* At these steps a worker has one.
WorkerHasPayload ==
  \A w \in Workers : pc[w] \in PayloadPCs => loc[w].cur \in Payloads

TypeInv == TypeOK /\ RecoveryHasEntry /\ WorkerHasPayload

\* The number of rows that point at a payload is a number.
LEMMA OwnersCount ==
  ASSUME NEW p \in Payloads
  PROVE  Cardinality(Owners(p)) \in Nat
<1>1. IsFiniteSet(Objects)
  BY ConstantsAssumption DEF ConstantsAssumption
<1>2. IsFiniteSet(Owners(p))
  BY <1>1, FS_Subset DEF Owners
<1> QED
  BY <1>2, FS_CardinalityType

LEMMA ExactCountsType == ExactCounts \in [Payloads -> Nat]
BY OwnersCount DEF ExactCounts

LEMMA InitType == Init => TypeInv
<1> SUFFICES ASSUME Init PROVE TypeInv
  OBVIOUS
<1>1. \A p \in Payloads : Cardinality({o \in InitialObjects : p \in Targets[o]}) \in Nat
  <2> TAKE p \in Payloads
  <2>1. IsFiniteSet(Objects) /\ InitialObjects \subseteq Objects
    BY ConstantsAssumption DEF ConstantsAssumption
  <2>2. IsFiniteSet({o \in InitialObjects : p \in Targets[o]})
    BY <2>1, FS_Subset
  <2> QED
    BY <2>2, FS_CardinalityType
<1>2. object \in [Objects -> ObjectRow]
  BY DEF Init, ObjectRow, NoObject, LifecycleStates
<1>3. /\ rows \in [Objects -> [Payloads -> RowStates]]
      /\ dedup \in [Payloads -> Nat]
      /\ arch \in [Objects -> Nat]
      /\ edges \subseteq Edges(Objects)
  BY <1>1, ConstantsAssumption DEF Init, RowStates, ConstantsAssumption, Edges
<1>4. /\ phase \in [Attempts -> Phases]
      /\ entry \in [Attempts -> JournalEntry]
      /\ plan \in [Attempts -> SUBSET Payloads]
      /\ resv \in [Attempts -> ReservationStatus]
      /\ attempt \in [Attempts -> AttemptStatus]
  BY DEF Init, Phases, JournalEntry, NoEntry, RowStates, ObjectRow, NoObject,
         ReservationStatus, AttemptStatus
<1>5. /\ blob \in [Payloads -> {"absent", "ok", "corrupt"}]
      /\ ablob \in [Objects -> BOOLEAN]
      /\ mode \in {"down", "starting", "up"}
      /\ lost \in BOOLEAN /\ stop \in BOOLEAN /\ archiveUp \in BOOLEAN
      /\ grace \subseteq Workers
  BY DEF Init
<1>6. /\ pc \in [Workers -> PCs]
      /\ loc \in [Workers -> Locals]
  BY DEF Init, PCs, Locals, NoLocals, ObjectRow, NoObject
<1>9. WorkerHasPayload
  BY DEF Init, WorkerHasPayload, PayloadPCs
<1>7. rpc \in RecoveryPCs /\ rec \in RecoveryLocals /\ RecoveryHasEntry
  BY DEF Init, RecoveryPCs, RecoveryLocals, NoRecovery, RecoveryHasEntry,
         AtEntry, EntryPCs
<1>8. budget \in Budget
  BY ConstantsAssumption DEF Init, Budget, ConstantsAssumption
<1> QED
  BY <1>2, <1>3, <1>4, <1>5, <1>6, <1>7, <1>8, <1>9
  DEF TypeInv, TypeOK, StoreTypeOK, JournalTypeOK, PhysTypeOK, ProcTypeOK,
      WorkTypeOK, RecTypeOK

-----------------------------------------------------------------------------
(* What a step leaves alone keeps its type, and what the writes of the store *)
(* and of a worker's variables put there has its type.                       *)

LEMMA StillTyped ==
  ASSUME TypeInv
  PROVE  /\ UNCHANGED storeVars => StoreTypeOK'
         /\ UNCHANGED journalVars => JournalTypeOK'
         /\ UNCHANGED physVars => PhysTypeOK'
         /\ UNCHANGED procVars => ProcTypeOK'
         /\ UNCHANGED workVars => WorkTypeOK' /\ WorkerHasPayload'
         /\ UNCHANGED recVars => RecTypeOK' /\ RecoveryHasEntry'
         /\ UNCHANGED budget => (budget \in Budget)'
BY DEF TypeInv, TypeOK, StoreTypeOK, JournalTypeOK, PhysTypeOK, ProcTypeOK,
       WorkTypeOK, RecTypeOK, RecoveryHasEntry, WorkerHasPayload,
       storeVars, journalVars, physVars, procVars, workVars, recVars

LEMMA ObjectRowUpdate ==
  ASSUME NEW r \in ObjectRow
  PROVE  /\ \A s \in LifecycleStates : [r EXCEPT !.state = s] \in ObjectRow
         /\ \A F \in SUBSET Flags : [r EXCEPT !.flags = F] \in ObjectRow
         /\ r.flags \in SUBSET Flags
BY DEF ObjectRow

LEMMA ObjectTyped ==
  ASSUME TypeInv, NEW o \in Objects
  PROVE  object[o] \in ObjectRow
BY DEF TypeInv, TypeOK, StoreTypeOK

LEMMA UpdateObjectType ==
  ASSUME TypeInv, NEW o, NEW row, o \in Objects => row \in ObjectRow,
         UpdateObject(o, row), UNCHANGED <<rows, dedup, arch, edges>>
  PROVE  StoreTypeOK'
BY DEF TypeInv, TypeOK, StoreTypeOK, UpdateObject

LEMMA ReplicaType ==
  ASSUME TypeInv, NEW o, NEW p, NEW row \in RowStates,
         rows' = [rows EXCEPT ![o][p] = row],
         UNCHANGED <<object, dedup, arch, edges>>
  PROVE  StoreTypeOK'
BY DEF TypeInv, TypeOK, StoreTypeOK

LEMMA DedupType ==
  ASSUME TypeInv, NEW p,
         DedupAcquire(p) \/ DedupInsert(p) \/ DedupRelease(p),
         UNCHANGED <<object, rows, arch, edges>>
  PROVE  StoreTypeOK'
BY DEF TypeInv, TypeOK, StoreTypeOK, DedupAcquire, DedupInsert, DedupRelease

LEMMA ArchiveType ==
  ASSUME TypeInv, NEW o, InsertArchive(o) \/ DeleteArchiveRow(o),
         UNCHANGED <<object, rows, dedup, edges>>
  PROVE  StoreTypeOK'
BY DEF TypeInv, TypeOK, StoreTypeOK, InsertArchive, DeleteArchiveRow

LEMMA BlobType ==
  ASSUME TypeInv, NEW p, NEW b,
         p \in Payloads => b \in {"absent", "ok", "corrupt"},
         blob' = [blob EXCEPT ![p] = b], UNCHANGED ablob
  PROVE  PhysTypeOK'
BY DEF TypeInv, TypeOK, PhysTypeOK

LEMMA ArchiveBlobType ==
  ASSUME TypeInv, NEW o, NEW b, o \in Objects => b \in BOOLEAN,
         ablob' = [ablob EXCEPT ![o] = b], UNCHANGED blob
  PROVE  PhysTypeOK'
BY DEF TypeInv, TypeOK, PhysTypeOK

LEMMA PhaseType ==
  ASSUME TypeInv, NEW a, NEW s \in Phases,
         phase' = [phase EXCEPT ![a] = s],
         UNCHANGED <<entry, plan, resv, attempt>>
  PROVE  JournalTypeOK'
BY DEF TypeInv, TypeOK, JournalTypeOK

LEMMA GraceType ==
  ASSUME TypeInv, NEW w \in Workers,
         Enter(w) \/ Within(w) \/ Fence(w) \/ UNCHANGED grace
  PROVE  grace' \subseteq Workers
BY DEF TypeInv, TypeOK, WorkTypeOK, Enter, Within, Fence

LEMMA LocalsFields ==
  ASSUME TypeInv, NEW w \in Workers
  PROVE  /\ loc[w] \in Locals
         /\ loc[w].obj \in Objects \cup {None}
         /\ loc[w].held \subseteq Payloads
         /\ loc[w].att \in Attempts \cup {None}
         /\ loc[w].seen \in ObjectRow
         /\ loc[w].todo \subseteq Payloads
         /\ loc[w].done \subseteq Payloads
         /\ loc[w].cur \in Payloads \cup {None}
         /\ loc[w].kin \subseteq Edges(Objects)
<1>1. loc[w] \in Locals
  BY DEF TypeInv, TypeOK, WorkTypeOK
<1> QED
  BY <1>1 DEF Locals

LEMMA AtPayload ==
  ASSUME TypeInv, NEW w \in Workers, pc[w] \in PayloadPCs
  PROVE  loc[w].cur \in Payloads
BY DEF TypeInv, WorkerHasPayload

LEMMA WorkerUpdate ==
  ASSUME TypeInv, NEW w \in Workers, NEW l \in PCs, NEW r \in Locals,
         l \in PayloadPCs => r.cur \in Payloads,
         Goto(w, l), SetLocals(w, r),
         grace' \subseteq Workers
  PROVE  WorkTypeOK' /\ WorkerHasPayload'
BY DEF TypeInv, TypeOK, WorkTypeOK, WorkerHasPayload, Goto, SetLocals

LEMMA WorkerLocals ==
  ASSUME TypeInv, NEW w \in Workers, NEW r \in Locals,
         pc[w] \notin PayloadPCs,
         UNCHANGED pc, SetLocals(w, r),
         grace' \subseteq Workers
  PROVE  WorkTypeOK' /\ WorkerHasPayload'
BY DEF TypeInv, TypeOK, WorkTypeOK, WorkerHasPayload, Goto, SetLocals

LEMMA WorkerGoto ==
  ASSUME TypeInv, NEW w \in Workers, NEW l \in PCs,
         l \in PayloadPCs => loc[w].cur \in Payloads,
         Goto(w, l), UNCHANGED loc,
         grace' \subseteq Workers
  PROVE  WorkTypeOK' /\ WorkerHasPayload'
BY DEF TypeInv, TypeOK, WorkTypeOK, WorkerHasPayload, Goto, SetLocals

LEMMA WorkerStays ==
  ASSUME TypeInv, UNCHANGED <<pc, loc>>, grace' \subseteq Workers
  PROVE  WorkTypeOK' /\ WorkerHasPayload'
BY DEF TypeInv, TypeOK, WorkTypeOK, WorkerHasPayload

LEMMA WorkerReturn ==
  ASSUME TypeInv, NEW w \in Workers, Return(w), grace' \subseteq Workers
  PROVE  WorkTypeOK' /\ WorkerHasPayload'
<1>1. NoLocals \in Locals
  BY DEF NoLocals, Locals, NoObject, ObjectRow
<1>2. "idle" \in PCs /\ "idle" \notin PayloadPCs
  BY DEF PCs, PayloadPCs
<1> QED
  BY <1>1, <1>2, WorkerUpdate DEF Return

LEMMA PublishType ==
  ASSUME TypeInv, NEW w \in Workers, Publish(w)
  PROVE  StoreTypeOK'
<1> DEFINE o == loc[w].obj
           row == [state |-> IF Targets[o] = {} THEN "CREATED" ELSE "HOT",
                   flags |-> {}]
<1>1. row \in ObjectRow
  BY DEF ObjectRow, LifecycleStates
<1>2. UpdateObject(o, row) /\ UNCHANGED <<rows, dedup, arch, edges>>
  BY DEF Publish, UpdateObject
<1> QED
  BY <1>1, <1>2, UpdateObjectType

LEMMA ReserveType ==
  ASSUME TypeInv, NEW w \in Workers, NEW o \in Objects, NEW a \in Attempts,
         Reserve(w, o, a)
  PROVE  JournalTypeOK'
<1> DEFINE e == [obj |-> o, prior |-> object[o], rows |-> rows[o],
                 arch |-> arch[o]]
<1>1. e \in JournalEntry
  BY ObjectTyped DEF TypeInv, TypeOK, StoreTypeOK, JournalEntry
<1>2. entry' = [entry EXCEPT ![a] = e]
  BY DEF Reserve
<1> QED
  BY <1>1, <1>2 DEF Reserve, TypeInv, TypeOK, JournalTypeOK, Phases,
     OpenPhases, ReservationStatus, AttemptStatus

\* A request starts.
LEMMA RequestType ==
  ASSUME TypeInv, NEW w \in Workers, Request(w)
  PROVE  TypeInv'
<1>1. ASSUME NEW o \in Objects, NEW kind \in FlagOps,
             FlagBegin(w, o, kind) PROVE TypeInv'
  <2> DEFINE r == [loc[w] EXCEPT !.obj = o, !.seen = object[o]]
  <2>1. r \in Locals
    BY <1>1, LocalsFields, ObjectTyped DEF Locals
  <2>2. SetLocals(w, r)
    BY <1>1 DEF FlagBegin
  <2>3. WorkTypeOK' /\ WorkerHasPayload'
    BY <1>1, <2>1, <2>2, GraceType, WorkerUpdate
    DEF FlagBegin, PCs, FlagOps, CreatePCs, ReclaimPCs, VerifyPCs, ArchivePCs,
        PayloadPCs
  <2> QED
    BY <1>1, <2>3, StillTyped DEF FlagBegin, TypeInv, TypeOK
<1>2. ASSUME NEW o \in Objects, CreateBegin(w, o)
      PROVE  TypeInv'
  <2> DEFINE r == [loc[w] EXCEPT !.obj = o, !.todo = Targets[o]]
  <2>1. r \in Locals
    BY <1>2, LocalsFields, ConstantsAssumption DEF ConstantsAssumption, Locals
  <2>2. SetLocals(w, r)
    BY <1>2 DEF CreateBegin
  <2>3. WorkTypeOK' /\ WorkerHasPayload'
    BY <1>2, <2>1, <2>2, GraceType, WorkerUpdate
    DEF CreateBegin, PCs, FlagOps, CreatePCs, ReclaimPCs, VerifyPCs,
        ArchivePCs, PayloadPCs
  <2> QED
    BY <1>2, <2>3, StillTyped DEF CreateBegin, TypeInv, TypeOK
<1>3. ASSUME NEW o \in Objects, NEW a \in Attempts,
             Reserve(w, o, a) PROVE TypeInv'
  <2> DEFINE r == [loc[w] EXCEPT !.obj = o, !.att = a,
                                    !.seen = object[o], !.todo = Rows(o)]
  <2>1. r \in Locals
    BY <1>3, LocalsFields, ObjectTyped DEF Rows, Locals
  <2>2. SetLocals(w, r)
    BY <1>3 DEF Reserve
  <2>3. WorkTypeOK' /\ WorkerHasPayload'
    BY <1>3, <2>1, <2>2, GraceType, WorkerUpdate
    DEF Reserve, PCs, FlagOps, CreatePCs, ReclaimPCs, VerifyPCs, ArchivePCs,
        PayloadPCs
  <2>4. JournalTypeOK'
    BY <1>3, ObjectTyped, ReserveType DEF Reserve
  <2> QED
    BY <1>3, <2>3, <2>4, StillTyped DEF Reserve, TypeInv, TypeOK
<1>4. ASSUME NEW o \in Objects, VerifyBegin(w, o)
      PROVE  TypeInv'
  <2> DEFINE r == [loc[w] EXCEPT !.obj = o, !.todo = Rows(o)]
  <2>1. r \in Locals
    BY <1>4, LocalsFields DEF Rows, Locals
  <2>2. SetLocals(w, r)
    BY <1>4 DEF VerifyBegin
  <2>3. WorkTypeOK' /\ WorkerHasPayload'
    BY <1>4, <2>1, <2>2, GraceType, WorkerUpdate
    DEF VerifyBegin, PCs, FlagOps, CreatePCs, ReclaimPCs, VerifyPCs,
        ArchivePCs, PayloadPCs
  <2> QED
    BY <1>4, <2>3, StillTyped DEF VerifyBegin, TypeInv, TypeOK
<1>5. ASSUME NEW o \in Objects, ArchiveBegin(w, o)
      PROVE  TypeInv'
  <2> DEFINE r == [loc[w] EXCEPT !.obj = o, !.seen = object[o]]
  <2>1. r \in Locals
    BY <1>5, LocalsFields, ObjectTyped DEF Locals
  <2>2. SetLocals(w, r)
    BY <1>5 DEF ArchiveBegin
  <2>3. WorkTypeOK' /\ WorkerHasPayload'
    BY <1>5, <2>1, <2>2, GraceType, WorkerUpdate
    DEF ArchiveBegin, PCs, FlagOps, CreatePCs, ReclaimPCs, VerifyPCs,
        ArchivePCs, PayloadPCs
  <2> QED
    BY <1>5, <2>3, StillTyped DEF ArchiveBegin, TypeInv, TypeOK
<1>6. ASSUME NEW e \in EdgeChoices, AddLineage(w, e)
      PROVE  TypeInv'
  <2>1. WorkTypeOK' /\ WorkerHasPayload'
    BY <1>6, GraceType, WorkerStays DEF AddLineage
  <2>2. StoreTypeOK'
    BY <1>6, ConstantsAssumption
    DEF AddLineage, ConstantsAssumption, TypeInv, TypeOK, StoreTypeOK
  <2> QED
    BY <1>6, <2>1, <2>2, StillTyped DEF AddLineage, TypeInv, TypeOK
<1>7. ASSUME NEW e \in EdgeChoices, RemoveLineage(w, e)
      PROVE  TypeInv'
  <2>1. WorkTypeOK' /\ WorkerHasPayload'
    BY <1>7, GraceType, WorkerStays DEF RemoveLineage
  <2>2. StoreTypeOK'
    BY <1>7 DEF RemoveLineage, TypeInv, TypeOK, StoreTypeOK
  <2> QED
    BY <1>7, <2>1, <2>2, StillTyped DEF RemoveLineage, TypeInv, TypeOK
<1>8. CASE RecoverRequest(w)
  <2>1. WorkTypeOK' /\ WorkerHasPayload'
    BY <1>8, GraceType, WorkerGoto
    DEF RecoverRequest, PCs, FlagOps, CreatePCs, ReclaimPCs, VerifyPCs,
        ArchivePCs, PayloadPCs
  <2>2. RecTypeOK' /\ RecoveryHasEntry'
    BY <1>8
    DEF RecoverRequest, NoRecovery, RecoveryLocals, RecTypeOK, RecoveryPCs,
        RecoveryHasEntry, AtEntry, EntryPCs
  <2> QED
    BY <1>8, <2>1, <2>2, StillTyped DEF RecoverRequest, TypeInv, TypeOK
<1> QED
  BY <1>1, <1>2, <1>3, <1>4, <1>5, <1>6, <1>7, <1>8 DEF Request

LEMMA FlagWriteType ==
  ASSUME TypeInv, NEW w \in Workers, FlagWrite(w)
  PROVE  StoreTypeOK'
<1> DEFINE s == loc[w].seen
           F == FlagResult(pc[w], s.flags)
<1>1. F \in SUBSET Flags
  BY LocalsFields, ObjectRowUpdate DEF FlagResult, Flags
<1>2. [s EXCEPT !.flags = F] \in ObjectRow
  BY <1>1, LocalsFields, ObjectRowUpdate
<1>3. UpdateObject(loc[w].obj, [s EXCEPT !.flags = F])
  BY DEF FlagWrite
<1> QED
  BY <1>2, <1>3, UpdateObjectType DEF FlagWrite


\* A registration or its compensation goes on.
LEMMA CreateType ==
  ASSUME TypeInv, NEW w \in Workers, CreateStep(w)
  PROVE  TypeInv'
<1>1. CASE CreateLock(w)
  <2> DEFINE r == [loc[w] EXCEPT !.held = loc[w].todo]
  <2>1. r \in Locals
    BY <1>1, LocalsFields DEF Locals
  <2>2. SetLocals(w, r)
    BY <1>1 DEF CreateLock
  <2>3. WorkTypeOK' /\ WorkerHasPayload'
    BY <1>1, <2>1, <2>2, GraceType, WorkerUpdate
    DEF CreateLock, PCs, CreatePCs, PayloadPCs
  <2> QED
    BY <1>1, <2>3, StillTyped DEF CreateLock, TypeInv, TypeOK
<1>2. CASE CreateLockFails(w)
  <2>1. WorkTypeOK' /\ WorkerHasPayload'
    BY <1>2, GraceType, WorkerReturn DEF CreateLockFails
  <2> QED
    BY <1>2, <2>1, StillTyped DEF CreateLockFails, TypeInv, TypeOK
<1>3. ASSUME NEW p \in Payloads, CreateAcquire(w, p)
      PROVE  TypeInv'
  <2> DEFINE r == [loc[w] EXCEPT !.cur = p]
  <2>1. r \in Locals
    BY <1>3, LocalsFields DEF Locals
  <2>2. SetLocals(w, r)
    BY <1>3 DEF CreateAcquire
  <2>3. r.cur = p
    BY LocalsFields DEF Locals
  <2>4. WorkTypeOK' /\ WorkerHasPayload'
    BY <1>3, <2>1, <2>2, <2>3, GraceType, WorkerUpdate
    DEF CreateAcquire, PCs, CreatePCs, PayloadPCs
  <2>5. StoreTypeOK'
    BY <1>3, DedupType DEF CreateAcquire
  <2> QED
    BY <1>3, <2>4, <2>5, StillTyped DEF CreateAcquire, TypeInv, TypeOK
<1>4. ASSUME NEW p \in Payloads, CreateRefuse(w, p)
      PROVE  TypeInv'
  <2>1. WorkTypeOK' /\ WorkerHasPayload'
    BY <1>4, GraceType, WorkerGoto
    DEF CreateRefuse, PCs, CreatePCs, PayloadPCs
  <2> QED
    BY <1>4, <2>1, StillTyped DEF CreateRefuse, TypeInv, TypeOK
<1>5. ASSUME NEW p \in Payloads, CreateMiss(w, p)
      PROVE  TypeInv'
  <2> DEFINE r == [loc[w] EXCEPT !.cur = p]
  <2>1. r \in Locals
    BY <1>5, LocalsFields DEF Locals
  <2>2. SetLocals(w, r)
    BY <1>5 DEF CreateMiss
  <2>3. r.cur = p
    BY LocalsFields DEF Locals
  <2>4. WorkTypeOK' /\ WorkerHasPayload'
    BY <1>5, <2>1, <2>2, <2>3, GraceType, WorkerUpdate
    DEF CreateMiss, PCs, CreatePCs, PayloadPCs
  <2> QED
    BY <1>5, <2>4, StillTyped DEF CreateMiss, TypeInv, TypeOK
<1>6. CASE CreateWrite(w)
  <2>1. WorkTypeOK' /\ WorkerHasPayload'
    BY <1>6, GraceType, WorkerGoto
    DEF CreateWrite, PCs, CreatePCs, PayloadPCs, TypeInv, WorkerHasPayload
  <2>2. PhysTypeOK'
    BY <1>6, BlobType DEF CreateWrite
  <2> QED
    BY <1>6, <2>1, <2>2, StillTyped DEF CreateWrite, TypeInv, TypeOK
<1>7. CASE CreateInsert(w)
  <2>1. WorkTypeOK' /\ WorkerHasPayload'
    BY <1>7, GraceType, WorkerGoto
    DEF CreateInsert, PCs, CreatePCs, PayloadPCs, TypeInv, WorkerHasPayload
  <2>2. StoreTypeOK'
    BY <1>7, DedupType DEF CreateInsert
  <2> QED
    BY <1>7, <2>1, <2>2, StillTyped DEF CreateInsert, TypeInv, TypeOK
<1>8. CASE CreateRow(w)
  <2> DEFINE r == [loc[w] EXCEPT !.todo = @ \ {loc[w].cur},
                                    !.done = @ \cup {loc[w].cur}, !.cur = None,
                   !.held = IF loc[w].todo \ {loc[w].cur} = {} THEN {} ELSE @]
  <2>1. r \in Locals
    BY <1>8, LocalsFields, AtPayload DEF CreateRow, PayloadPCs, Locals
  <2>2. SetLocals(w, r)
    BY <1>8 DEF CreateRow
  <2>3. WorkTypeOK' /\ WorkerHasPayload'
    BY <1>8, <2>1, <2>2, GraceType, WorkerUpdate
    DEF CreateRow, PCs, CreatePCs, PayloadPCs
  <2>4. StoreTypeOK'
    BY <1>8, ReplicaType DEF CreateRow, RowStates, WriteReplica, DeleteReplica
  <2> QED
    BY <1>8, <2>3, <2>4, StillTyped DEF CreateRow, TypeInv, TypeOK
<1>9. CASE Publish(w)
  <2>1. WorkTypeOK' /\ WorkerHasPayload'
    BY <1>9, GraceType, WorkerReturn DEF Publish
  <2>2. StoreTypeOK'
    BY <1>9, PublishType DEF Publish
  <2> QED
    BY <1>9, <2>1, <2>2, StillTyped DEF Publish, TypeInv, TypeOK
<1>10. CASE CreateUnref(w)
  <2>1. WorkTypeOK' /\ WorkerHasPayload'
    BY <1>10, GraceType, WorkerGoto
    DEF CreateUnref, PCs, CreatePCs, PayloadPCs
  <2>2. StoreTypeOK'
    BY <1>10, DedupType DEF CreateUnref
  <2> QED
    BY <1>10, <2>1, <2>2, StillTyped DEF CreateUnref, TypeInv, TypeOK
<1>11. CASE CreateUnblob(w)
  <2>1. WorkTypeOK' /\ WorkerHasPayload'
    BY <1>11, GraceType, WorkerGoto
    DEF CreateUnblob, PCs, CreatePCs, PayloadPCs
  <2>2. PhysTypeOK'
    BY <1>11, BlobType DEF CreateUnblob
  <2> QED
    BY <1>11, <2>1, <2>2, StillTyped DEF CreateUnblob, TypeInv, TypeOK
<1>12. CASE UndoLock(w)
  <2> DEFINE r == [loc[w] EXCEPT !.held = loc[w].done]
  <2>1. r \in Locals
    BY <1>12, LocalsFields DEF Locals
  <2>2. SetLocals(w, r)
    BY <1>12 DEF UndoLock
  <2>3. WorkTypeOK' /\ WorkerHasPayload'
    BY <1>12, <2>1, <2>2, GraceType, WorkerUpdate
    DEF UndoLock, PCs, CreatePCs, PayloadPCs
  <2> QED
    BY <1>12, <2>3, StillTyped DEF UndoLock, TypeInv, TypeOK
<1>13. CASE UndoLockFails(w)
  <2>1. WorkTypeOK' /\ WorkerHasPayload'
    BY <1>13, GraceType, WorkerReturn DEF UndoLockFails
  <2> QED
    BY <1>13, <2>1, StillTyped DEF UndoLockFails, TypeInv, TypeOK
<1>14. CASE UndoEnter(w)
  <2> DEFINE r == [loc[w] EXCEPT !.todo = {}]
  <2>1. r \in Locals
    BY <1>14, LocalsFields DEF Locals
  <2>2. SetLocals(w, r)
    BY <1>14 DEF UndoEnter
  <2>3. WorkTypeOK' /\ WorkerHasPayload'
    BY <1>14, <2>1, <2>2, GraceType, WorkerUpdate
    DEF UndoEnter, PCs, CreatePCs, PayloadPCs
  <2> QED
    BY <1>14, <2>3, StillTyped DEF UndoEnter, TypeInv, TypeOK
<1>15. ASSUME NEW p \in Payloads, UndoRow(w, p)
       PROVE  TypeInv'
  <2> DEFINE r == [loc[w] EXCEPT !.done = @ \ {p}, !.cur = p]
  <2>1. r \in Locals
    BY <1>15, LocalsFields DEF Locals
  <2>2. SetLocals(w, r)
    BY <1>15 DEF UndoRow
  <2>3. r.cur = p
    BY LocalsFields DEF Locals
  <2>4. WorkTypeOK' /\ WorkerHasPayload'
    BY <1>15, <2>1, <2>2, <2>3, GraceType, WorkerUpdate
    DEF UndoRow, PCs, CreatePCs, PayloadPCs
  <2>5. StoreTypeOK'
    BY <1>15, ReplicaType DEF UndoRow, RowStates, WriteReplica, DeleteReplica
  <2> QED
    BY <1>15, <2>4, <2>5, StillTyped DEF UndoRow, TypeInv, TypeOK
<1>16. CASE UndoRelease(w)
  <2> DEFINE r == [loc[w] EXCEPT !.cur = None,
                   !.todo = IF dedup[loc[w].cur] = 1 THEN @ \cup {loc[w].cur} ELSE @]
  <2>1. r \in Locals
    <3>1. loc[w].cur \in Payloads
      BY <1>16, AtPayload DEF UndoRelease, PayloadPCs
    <3>2. \E T \in SUBSET Payloads : r = [loc[w] EXCEPT !.cur = None, !.todo = T]
      BY <3>1, LocalsFields
    <3> HIDE DEF r
    <3> QED
      BY <3>2, LocalsFields DEF Locals
  <2>2. SetLocals(w, r)
    BY <1>16 DEF UndoRelease
  <2>3. WorkTypeOK' /\ WorkerHasPayload'
    BY <1>16, <2>1, <2>2, GraceType, WorkerUpdate
    DEF UndoRelease, PCs, CreatePCs, PayloadPCs
  <2>4. StoreTypeOK'
    BY <1>16, DedupType DEF UndoRelease
  <2> QED
    BY <1>16, <2>3, <2>4, StillTyped DEF UndoRelease, TypeInv, TypeOK
<1>17. CASE UndoLeave(w)
  <2>1. WorkTypeOK' /\ WorkerHasPayload'
    BY <1>17, GraceType, WorkerGoto DEF UndoLeave, PCs, CreatePCs, PayloadPCs
  <2> QED
    BY <1>17, <2>1, StillTyped DEF UndoLeave, TypeInv, TypeOK
<1>18. ASSUME NEW p \in Payloads, UndoBlob(w, p)
       PROVE  TypeInv'
  <2> DEFINE r == [loc[w] EXCEPT !.todo = @ \ {p}]
  <2>1. r \in Locals
    BY <1>18, LocalsFields DEF Locals
  <2>2. SetLocals(w, r)
    BY <1>18 DEF UndoBlob
  <2>3. WorkTypeOK' /\ WorkerHasPayload'
    BY <1>18, <2>1, <2>2, GraceType, WorkerLocals DEF UndoBlob, PayloadPCs
  <2>4. PhysTypeOK'
    BY <1>18, BlobType DEF UndoBlob
  <2> QED
    BY <1>18, <2>3, <2>4, StillTyped DEF UndoBlob, TypeInv, TypeOK
<1>19. CASE UndoReturn(w)
  <2>1. WorkTypeOK' /\ WorkerHasPayload'
    BY <1>19, GraceType, WorkerReturn DEF UndoReturn
  <2> QED
    BY <1>19, <2>1, StillTyped DEF UndoReturn, TypeInv, TypeOK
<1> QED
  BY <1>1, <1>2, <1>3, <1>4, <1>5, <1>6, <1>7, <1>8, <1>9, <1>10, <1>11,
     <1>12, <1>13, <1>14, <1>15, <1>16, <1>17, <1>18, <1>19 DEF CreateStep

\* A verification goes on.
LEMMA VerifyType ==
  ASSUME TypeInv, NEW w \in Workers, VerifyStep(w)
  PROVE  TypeInv'
<1>1. CASE VerifyLock(w)
  <2> DEFINE r == [loc[w] EXCEPT !.held = loc[w].todo]
  <2>1. r \in Locals
    BY <1>1, LocalsFields DEF Locals
  <2>2. SetLocals(w, r)
    BY <1>1 DEF VerifyLock
  <2>3. WorkTypeOK' /\ WorkerHasPayload'
    BY <1>1, <2>1, <2>2, GraceType, WorkerUpdate
    DEF VerifyLock, PCs, VerifyPCs, PayloadPCs
  <2> QED
    BY <1>1, <2>3, StillTyped DEF VerifyLock, TypeInv, TypeOK
<1>2. CASE VerifyLockFails(w)
  <2>1. WorkTypeOK' /\ WorkerHasPayload'
    BY <1>2, GraceType, WorkerReturn DEF VerifyLockFails
  <2> QED
    BY <1>2, <2>1, StillTyped DEF VerifyLockFails, TypeInv, TypeOK
<1>3. ASSUME NEW p \in Payloads, VerifyGood(w, p)
      PROVE  TypeInv'
  <2> DEFINE r == [loc[w] EXCEPT !.todo = @ \ {p}]
  <2>1. r \in Locals
    BY <1>3, LocalsFields DEF Locals
  <2>2. SetLocals(w, r)
    BY <1>3 DEF VerifyGood
  <2>3. WorkTypeOK' /\ WorkerHasPayload'
    BY <1>3, <2>1, <2>2, GraceType, WorkerLocals DEF VerifyGood, PayloadPCs
  <2>4. StoreTypeOK'
    BY <1>3, ReplicaType
    DEF VerifyGood, RowStates, WriteReplica, DeleteReplica
  <2> QED
    BY <1>3, <2>3, <2>4, StillTyped DEF VerifyGood, TypeInv, TypeOK
<1>4. ASSUME NEW p \in Payloads, VerifyBad(w, p)
      PROVE  TypeInv'
  <2> DEFINE r == [loc[w] EXCEPT !.todo = @ \ {p}, !.cur = p]
  <2>1. r \in Locals
    BY <1>4, LocalsFields DEF Locals
  <2>2. SetLocals(w, r)
    BY <1>4 DEF VerifyBad
  <2>3. WorkTypeOK' /\ WorkerHasPayload'
    BY <1>4, <2>1, <2>2, GraceType, WorkerUpdate
    DEF VerifyBad, PCs, VerifyPCs, PayloadPCs
  <2> QED
    BY <1>4, <2>3, StillTyped DEF VerifyBad, TypeInv, TypeOK
<1>5. ASSUME NEW o \in Objects, VerifyInvalidate(w, o)
      PROVE  TypeInv'
  <2>1. WorkTypeOK' /\ WorkerHasPayload'
    BY <1>5, GraceType, WorkerStays DEF VerifyInvalidate
  <2>2. StoreTypeOK'
    BY <1>5, ReplicaType
    DEF VerifyInvalidate, RowStates, WriteReplica, DeleteReplica
  <2> QED
    BY <1>5, <2>1, <2>2, StillTyped DEF VerifyInvalidate, TypeInv, TypeOK
<1>6. ASSUME NEW o \in Objects, VerifyInvalidateFails(w, o)
      PROVE  TypeInv'
  <2>1. WorkTypeOK' /\ WorkerHasPayload'
    BY <1>6, GraceType, WorkerReturn DEF VerifyInvalidateFails
  <2> QED
    BY <1>6, <2>1, StillTyped DEF VerifyInvalidateFails, TypeInv, TypeOK
<1>7. CASE VerifyInvalidated(w)
  <2> DEFINE r == [loc[w] EXCEPT !.cur = None]
  <2>1. r \in Locals
    BY <1>7, LocalsFields DEF Locals
  <2>2. SetLocals(w, r)
    BY <1>7 DEF VerifyInvalidated
  <2>3. WorkTypeOK' /\ WorkerHasPayload'
    BY <1>7, <2>1, <2>2, GraceType, WorkerUpdate
    DEF VerifyInvalidated, PCs, VerifyPCs, PayloadPCs
  <2> QED
    BY <1>7, <2>3, StillTyped DEF VerifyInvalidated, TypeInv, TypeOK
<1>8. CASE VerifyReturn(w)
  <2>1. WorkTypeOK' /\ WorkerHasPayload'
    BY <1>8, GraceType, WorkerReturn DEF VerifyReturn
  <2> QED
    BY <1>8, <2>1, StillTyped DEF VerifyReturn, TypeInv, TypeOK
<1> QED
  BY <1>1, <1>2, <1>3, <1>4, <1>5, <1>6, <1>7, <1>8 DEF VerifyStep

\* An archival goes on.
LEMMA ArchiveStepType ==
  ASSUME TypeInv, NEW w \in Workers, ArchiveStep(w)
  PROVE  TypeInv'
<1>1. CASE ArchiveWrite(w)
  <2>1. WorkTypeOK' /\ WorkerHasPayload'
    BY <1>1, GraceType, WorkerGoto
    DEF ArchiveWrite, PCs, ArchivePCs, PayloadPCs
  <2>2. PhysTypeOK'
    BY <1>1, ArchiveBlobType DEF ArchiveWrite
  <2> QED
    BY <1>1, <2>1, <2>2, StillTyped DEF ArchiveWrite, TypeInv, TypeOK
<1>2. CASE ArchiveInsert(w)
  <2>1. WorkTypeOK' /\ WorkerHasPayload'
    BY <1>2, GraceType, WorkerGoto
    DEF ArchiveInsert, PCs, ArchivePCs, PayloadPCs
  <2>2. StoreTypeOK'
    BY <1>2, ArchiveType DEF ArchiveInsert
  <2> QED
    BY <1>2, <2>1, <2>2, StillTyped DEF ArchiveInsert, TypeInv, TypeOK
<1>3. CASE ArchivePublish(w)
  <2>1. WorkTypeOK' /\ WorkerHasPayload'
    BY <1>3, GraceType, WorkerReturn DEF ArchivePublish
  <2>2. StoreTypeOK'
    BY <1>3, LocalsFields, ObjectRowUpdate, UpdateObjectType
    DEF ArchivePublish, LifecycleStates
  <2> QED
    BY <1>3, <2>1, <2>2, StillTyped DEF ArchivePublish, TypeInv, TypeOK
<1>4. CASE ArchiveUnrow(w)
  <2>1. WorkTypeOK' /\ WorkerHasPayload'
    BY <1>4, GraceType, WorkerGoto
    DEF ArchiveUnrow, PCs, ArchivePCs, PayloadPCs
  <2>2. StoreTypeOK'
    BY <1>4, ArchiveType DEF ArchiveUnrow
  <2> QED
    BY <1>4, <2>1, <2>2, StillTyped DEF ArchiveUnrow, TypeInv, TypeOK
<1>5. CASE ArchiveUnblob(w)
  <2>1. WorkTypeOK' /\ WorkerHasPayload'
    BY <1>5, GraceType, WorkerReturn DEF ArchiveUnblob
  <2>2. PhysTypeOK'
    BY <1>5, ArchiveBlobType DEF ArchiveUnblob
  <2> QED
    BY <1>5, <2>1, <2>2, StillTyped DEF ArchiveUnblob, TypeInv, TypeOK
<1> QED
  BY <1>1, <1>2, <1>3, <1>4, <1>5 DEF ArchiveStep

\* A reclaim goes on.
LEMMA ReclaimType ==
  ASSUME TypeInv, NEW w \in Workers, ReclaimStep(w)
  PROVE  TypeInv'
<1>1. CASE ToRecomputable(w)
  <2>1. WorkTypeOK' /\ WorkerHasPayload'
    BY <1>1, GraceType, WorkerGoto
    DEF ToRecomputable, Transition, PCs, ReclaimPCs, CommitPCs, AbortPCs,
        PayloadPCs
  <2>2. StoreTypeOK'
    BY <1>1, LocalsFields, ObjectRowUpdate, UpdateObjectType
    DEF ToRecomputable, Transition, LifecycleStates
  <2> QED
    BY <1>1, <2>1, <2>2, StillTyped
    DEF ToRecomputable, Transition, TypeInv, TypeOK
<1>2. CASE ToPending(w)
  <2>1. WorkTypeOK' /\ WorkerHasPayload'
    BY <1>2, GraceType, WorkerGoto
    DEF ToPending, Transition, PCs, ReclaimPCs, CommitPCs, AbortPCs,
        PayloadPCs
  <2>2. StoreTypeOK'
    BY <1>2, LocalsFields, ObjectRowUpdate, UpdateObjectType
    DEF ToPending, Transition, LifecycleStates
  <2> QED
    BY <1>2, <2>1, <2>2, StillTyped DEF ToPending, Transition, TypeInv, TypeOK
<1>3. CASE ReclaimValidated(w)
  <2>1. WorkTypeOK' /\ WorkerHasPayload'
    BY <1>3, GraceType, WorkerGoto
    DEF ReclaimValidated, PCs, ReclaimPCs, CommitPCs, AbortPCs, PayloadPCs
  <2>2. JournalTypeOK'
    BY <1>3, PhaseType
    DEF ReclaimValidated, UpdateJournalPhase, PhasePrior, Phases, OpenPhases
  <2> QED
    BY <1>3, <2>1, <2>2, StillTyped DEF ReclaimValidated, TypeInv, TypeOK
<1>4. CASE Survive(w)
  <2>1. WorkTypeOK' /\ WorkerHasPayload'
    BY <1>4, GraceType, WorkerGoto
    DEF Survive, PCs, ReclaimPCs, CommitPCs, AbortPCs, PayloadPCs
  <2> QED
    BY <1>4, <2>1, StillTyped DEF Survive, TypeInv, TypeOK
<1>5. CASE ReadGraph(w)
  <2> DEFINE r == [loc[w] EXCEPT !.kin = edges]
  <2>1. r \in Locals
    BY <1>5, LocalsFields DEF TypeInv, TypeOK, StoreTypeOK, Locals
  <2>2. SetLocals(w, r)
    BY <1>5 DEF ReadGraph
  <2>3. WorkTypeOK' /\ WorkerHasPayload'
    BY <1>5, <2>1, <2>2, GraceType, WorkerUpdate
    DEF ReadGraph, PCs, ReclaimPCs, CommitPCs, AbortPCs, PayloadPCs
  <2> QED
    BY <1>5, <2>3, StillTyped DEF ReadGraph, TypeInv, TypeOK
<1>6. CASE CheckDependencies(w)
  <2> DEFINE r == [loc[w] EXCEPT !.kin = {}]
  <2>1. r \in Locals
    BY <1>6, LocalsFields DEF Locals
  <2>2. SetLocals(w, r)
    BY <1>6 DEF CheckDependencies
  <2>3. WorkTypeOK' /\ WorkerHasPayload'
    BY <1>6, <2>1, <2>2, GraceType, WorkerUpdate
    DEF CheckDependencies, PCs, ReclaimPCs, CommitPCs, AbortPCs, PayloadPCs
  <2> QED
    BY <1>6, <2>3, StillTyped DEF CheckDependencies, TypeInv, TypeOK
<1>7. CASE ReclaimLock(w)
  <2> DEFINE r == [loc[w] EXCEPT !.held = loc[w].todo]
  <2>1. r \in Locals
    BY <1>7, LocalsFields DEF Locals
  <2>2. SetLocals(w, r)
    BY <1>7 DEF ReclaimLock
  <2>3. WorkTypeOK' /\ WorkerHasPayload'
    BY <1>7, <2>1, <2>2, GraceType, WorkerUpdate
    DEF ReclaimLock, PCs, ReclaimPCs, CommitPCs, AbortPCs, PayloadPCs
  <2> QED
    BY <1>7, <2>3, StillTyped DEF ReclaimLock, TypeInv, TypeOK
<1>8. CASE ReclaimLockFails(w)
  <2>1. WorkTypeOK' /\ WorkerHasPayload'
    BY <1>8, GraceType, WorkerGoto
    DEF ReclaimLockFails, PCs, ReclaimPCs, CommitPCs, AbortPCs, PayloadPCs
  <2> QED
    BY <1>8, <2>1, StillTyped DEF ReclaimLockFails, TypeInv, TypeOK
<1>9. CASE PlanDeletions(w)
  <2> DEFINE r == [loc[w] EXCEPT !.todo = LastReferences(loc[w].todo)]
             counted == \A p \in loc[w].todo : dedup[p] > 0
  <2>1. r \in Locals
    BY LocalsFields DEF LastReferences, Locals
  <2>2. WorkTypeOK' /\ WorkerHasPayload'
    <3>1. CASE counted
      <4>1. Goto(w, "start") /\ SetLocals(w, r)
        BY <1>9, <3>1 DEF PlanDeletions
      <4> QED
        BY <1>9, <2>1, <4>1, GraceType, WorkerUpdate
        DEF PlanDeletions, PCs, ReclaimPCs, PayloadPCs
    <3>2. CASE ~counted
      <4>1. Return(w)
        BY <1>9, <3>2 DEF PlanDeletions
      <4> QED
        BY <1>9, <4>1, GraceType, WorkerReturn DEF PlanDeletions
    <3> QED
      BY <3>1, <3>2
  <2> QED
    BY <1>9, <2>2, StillTyped DEF PlanDeletions, TypeInv, TypeOK
<1>10. CASE StartPhysical(w)
  <2>1. WorkTypeOK' /\ WorkerHasPayload'
    BY <1>10, GraceType, WorkerGoto
    DEF StartPhysical, PCs, ReclaimPCs, CommitPCs, AbortPCs, PayloadPCs
  <2>2. JournalTypeOK'
    BY <1>10, LocalsFields
    DEF StartPhysical, TypeInv, TypeOK, JournalTypeOK, Phases, OpenPhases
  <2> QED
    BY <1>10, <2>1, <2>2, StillTyped DEF StartPhysical, TypeInv, TypeOK
<1>11. ASSUME NEW p \in Payloads, DeletePayload(w, p)
       PROVE  TypeInv'
  <2> DEFINE r == [loc[w] EXCEPT !.todo = @ \ {p}]
  <2>1. r \in Locals
    BY <1>11, LocalsFields DEF Locals
  <2>2. SetLocals(w, r)
    BY <1>11 DEF DeletePayload
  <2>3. WorkTypeOK' /\ WorkerHasPayload'
    BY <1>11, <2>1, <2>2, GraceType, WorkerLocals
    DEF DeletePayload, PayloadPCs
  <2>4. PhysTypeOK'
    BY <1>11, BlobType DEF DeletePayload
  <2> QED
    BY <1>11, <2>3, <2>4, StillTyped DEF DeletePayload, TypeInv, TypeOK
<1>12. CASE DeletedAll(w)
  <2>1. WorkTypeOK' /\ WorkerHasPayload'
    BY <1>12, GraceType, WorkerGoto
    DEF DeletedAll, PCs, ReclaimPCs, CommitPCs, AbortPCs, PayloadPCs
  <2> QED
    BY <1>12, <2>1, StillTyped DEF DeletedAll, TypeInv, TypeOK
<1>13. CASE DeleteArchive(w)
  <2>1. WorkTypeOK' /\ WorkerHasPayload'
    BY <1>13, GraceType, WorkerGoto
    DEF DeleteArchive, PCs, ReclaimPCs, CommitPCs, AbortPCs, PayloadPCs
  <2>2. PhysTypeOK'
    BY <1>13, ArchiveBlobType DEF DeleteArchive
  <2> QED
    BY <1>13, <2>1, <2>2, StillTyped DEF DeleteArchive, TypeInv, TypeOK
<1>14. CASE ArchiveMissing(w)
  <2>1. WorkTypeOK' /\ WorkerHasPayload'
    BY <1>14, GraceType, WorkerReturn DEF ArchiveMissing
  <2> QED
    BY <1>14, <2>1, StillTyped DEF ArchiveMissing, TypeInv, TypeOK
<1>15. CASE CheckDeleted(w)
  <2>1. WorkTypeOK' /\ WorkerHasPayload'
    BY <1>15, GraceType, WorkerGoto
    DEF CheckDeleted, PCs, ReclaimPCs, CommitPCs, AbortPCs, PayloadPCs
  <2> QED
    BY <1>15, <2>1, StillTyped DEF CheckDeleted, TypeInv, TypeOK
<1>16. CASE PhysicalDone(w)
  <2>1. WorkTypeOK' /\ WorkerHasPayload'
    BY <1>16, GraceType, WorkerGoto
    DEF PhysicalDone, PCs, ReclaimPCs, CommitPCs, AbortPCs, PayloadPCs
  <2>2. JournalTypeOK'
    BY <1>16, PhaseType
    DEF PhysicalDone, UpdateJournalPhase, PhasePrior, Phases, OpenPhases
  <2> QED
    BY <1>16, <2>1, <2>2, StillTyped DEF PhysicalDone, TypeInv, TypeOK
<1>17. CASE CommitEnter(w)
  <2> DEFINE r == [loc[w] EXCEPT !.todo = EntryRows(loc[w].att)]
  <2>1. r \in Locals
    BY <1>17, LocalsFields DEF EntryRows, Locals
  <2>2. SetLocals(w, r)
    BY <1>17 DEF CommitEnter
  <2>3. WorkTypeOK' /\ WorkerHasPayload'
    BY <1>17, <2>1, <2>2, GraceType, WorkerUpdate
    DEF CommitEnter, PCs, ReclaimPCs, CommitPCs, AbortPCs, PayloadPCs
  <2> QED
    BY <1>17, <2>3, StillTyped DEF CommitEnter, TypeInv, TypeOK
<1>18. ASSUME NEW p \in Payloads, CommitRow(w, p)
       PROVE  TypeInv'
  <2> DEFINE r == [loc[w] EXCEPT !.todo = @ \ {p}, !.cur = p]
  <2>1. r \in Locals
    BY <1>18, LocalsFields DEF Locals
  <2>2. SetLocals(w, r)
    BY <1>18 DEF CommitRow
  <2>3. WorkTypeOK' /\ WorkerHasPayload'
    BY <1>18, <2>1, <2>2, GraceType, WorkerUpdate
    DEF CommitRow, PCs, ReclaimPCs, CommitPCs, AbortPCs, PayloadPCs
  <2>4. StoreTypeOK'
    BY <1>18, ReplicaType
    DEF CommitRow, RowStates, WriteReplica, DeleteReplica
  <2> QED
    BY <1>18, <2>3, <2>4, StillTyped DEF CommitRow, TypeInv, TypeOK
<1>19. CASE CommitRelease(w)
  <2> DEFINE r == [loc[w] EXCEPT !.cur = None]
  <2>1. r \in Locals
    BY <1>19, LocalsFields DEF Locals
  <2>2. SetLocals(w, r)
    BY <1>19 DEF CommitRelease
  <2>3. WorkTypeOK' /\ WorkerHasPayload'
    BY <1>19, <2>1, <2>2, GraceType, WorkerUpdate
    DEF CommitRelease, PCs, ReclaimPCs, CommitPCs, AbortPCs, PayloadPCs
  <2>4. StoreTypeOK'
    BY <1>19, DedupType DEF CommitRelease
  <2> QED
    BY <1>19, <2>3, <2>4, StillTyped DEF CommitRelease, TypeInv, TypeOK
<1>20. CASE CommitRowsDone(w)
  <2>1. WorkTypeOK' /\ WorkerHasPayload'
    BY <1>20, GraceType, WorkerGoto
    DEF CommitRowsDone, PCs, ReclaimPCs, CommitPCs, AbortPCs, PayloadPCs
  <2> QED
    BY <1>20, <2>1, StillTyped DEF CommitRowsDone, TypeInv, TypeOK
<1>21. CASE CommitArchive(w)
  <2>1. WorkTypeOK' /\ WorkerHasPayload'
    BY <1>21, GraceType, WorkerGoto
    DEF CommitArchive, PCs, ReclaimPCs, CommitPCs, AbortPCs, PayloadPCs
  <2>2. StoreTypeOK'
    BY <1>21, ArchiveType DEF CommitArchive
  <2> QED
    BY <1>21, <2>1, <2>2, StillTyped DEF CommitArchive, TypeInv, TypeOK
<1>22. CASE CommitObject(w)
  <2>1. WorkTypeOK' /\ WorkerHasPayload'
    BY <1>22, GraceType, WorkerGoto
    DEF CommitObject, PCs, ReclaimPCs, CommitPCs, AbortPCs, PayloadPCs
  <2>2. StoreTypeOK'
    BY <1>22, LocalsFields, ObjectRowUpdate, UpdateObjectType
    DEF CommitObject, LifecycleStates
  <2> QED
    BY <1>22, <2>1, <2>2, StillTyped DEF CommitObject, TypeInv, TypeOK
<1>23. CASE CommitReservation(w)
  <2>1. WorkTypeOK' /\ WorkerHasPayload'
    BY <1>23, GraceType, WorkerGoto
    DEF CommitReservation, CloseReservation, PCs, ReclaimPCs, CommitPCs,
        AbortPCs, PayloadPCs
  <2>2. JournalTypeOK'
    BY <1>23
    DEF CommitReservation, CloseReservation, TypeInv, TypeOK, JournalTypeOK,
        ReservationStatus
  <2> QED
    BY <1>23, <2>1, <2>2, StillTyped
    DEF CommitReservation, CloseReservation, TypeInv, TypeOK
<1>24. CASE CommitAttempt(w)
  <2>1. WorkTypeOK' /\ WorkerHasPayload'
    BY <1>24, GraceType, WorkerGoto
    DEF CommitAttempt, CloseAttempt, PCs, ReclaimPCs, CommitPCs, AbortPCs,
        PayloadPCs
  <2>2. JournalTypeOK'
    BY <1>24 DEF CommitAttempt, CloseAttempt, TypeInv, TypeOK, JournalTypeOK,
        AttemptStatus
  <2> QED
    BY <1>24, <2>1, <2>2, StillTyped
    DEF CommitAttempt, CloseAttempt, TypeInv, TypeOK
<1>25. CASE CommitJournal(w)
  <2>1. WorkTypeOK' /\ WorkerHasPayload'
    BY <1>25, GraceType, WorkerReturn DEF CommitJournal, CloseJournal
  <2>2. JournalTypeOK'
    BY <1>25, PhaseType
    DEF CommitJournal, CloseJournal, UpdateJournalPhase, PhasePrior, Phases,
        OpenPhases
  <2> QED
    BY <1>25, <2>1, <2>2, StillTyped
    DEF CommitJournal, CloseJournal, TypeInv, TypeOK
<1>26. CASE Indeterminate(w)
  <2>1. WorkTypeOK' /\ WorkerHasPayload'
    BY <1>26, GraceType, WorkerReturn DEF Indeterminate
  <2>2. ProcTypeOK'
    BY <1>26 DEF Indeterminate, Fence, TypeInv, TypeOK, ProcTypeOK
  <2> QED
    BY <1>26, <2>1, <2>2, StillTyped DEF Indeterminate, TypeInv, TypeOK
<1>27. CASE AbortObject(w)
  <2>1. WorkTypeOK' /\ WorkerHasPayload'
    BY <1>27, GraceType, WorkerGoto
    DEF AbortObject, PCs, ReclaimPCs, CommitPCs, AbortPCs, PayloadPCs
  <2>2. StoreTypeOK'
    BY <1>27, LocalsFields, ObjectRowUpdate, UpdateObjectType
    DEF AbortObject, LifecycleStates
  <2> QED
    BY <1>27, <2>1, <2>2, StillTyped DEF AbortObject, TypeInv, TypeOK
<1>28. CASE AbortReservation(w)
  <2>1. WorkTypeOK' /\ WorkerHasPayload'
    BY <1>28, GraceType, WorkerGoto
    DEF AbortReservation, CloseReservation, PCs, ReclaimPCs, CommitPCs,
        AbortPCs, PayloadPCs
  <2>2. JournalTypeOK'
    BY <1>28
    DEF AbortReservation, CloseReservation, TypeInv, TypeOK, JournalTypeOK,
        ReservationStatus
  <2> QED
    BY <1>28, <2>1, <2>2, StillTyped
    DEF AbortReservation, CloseReservation, TypeInv, TypeOK
<1>29. CASE AbortAttempt(w)
  <2>1. WorkTypeOK' /\ WorkerHasPayload'
    BY <1>29, GraceType, WorkerGoto
    DEF AbortAttempt, CloseAttempt, PCs, ReclaimPCs, CommitPCs, AbortPCs,
        PayloadPCs
  <2>2. JournalTypeOK'
    BY <1>29 DEF AbortAttempt, CloseAttempt, TypeInv, TypeOK, JournalTypeOK,
        AttemptStatus
  <2> QED
    BY <1>29, <2>1, <2>2, StillTyped
    DEF AbortAttempt, CloseAttempt, TypeInv, TypeOK
<1>30. CASE AbortJournal(w)
  <2>1. WorkTypeOK' /\ WorkerHasPayload'
    BY <1>30, GraceType, WorkerReturn DEF AbortJournal, CloseJournal
  <2>2. JournalTypeOK'
    BY <1>30, PhaseType
    DEF AbortJournal, CloseJournal, UpdateJournalPhase, PhasePrior, Phases,
        OpenPhases
  <2> QED
    BY <1>30, <2>1, <2>2, StillTyped
    DEF AbortJournal, CloseJournal, TypeInv, TypeOK
<1> QED
  BY <1>1, <1>2, <1>3, <1>4, <1>5, <1>6, <1>7, <1>8, <1>9, <1>10, <1>11,
     <1>12, <1>13, <1>14, <1>15, <1>16, <1>17, <1>18, <1>19, <1>20, <1>21,
     <1>22, <1>23, <1>24, <1>25, <1>26, <1>27, <1>28, <1>29, <1>30
  DEF ReclaimStep

-----------------------------------------------------------------------------
(* Errors of the store and of the backends. *)

LEMMA ErrorTargetType ==
  ASSUME NEW w \in Workers
  PROVE  ErrorTarget(w) \in PCs \ PayloadPCs
BY Zenon DEF ErrorTarget, PCs, CreatePCs, ReclaimPCs, ArchivePCs, PayloadPCs

LEMMA StepFailsType ==
  ASSUME TypeInv, NEW w \in Workers, StepFails(w), grace' \subseteq Workers
  PROVE  WorkTypeOK' /\ WorkerHasPayload'
<1>1. CASE ErrorTarget(w) = "idle"
  BY <1>1, WorkerReturn DEF StepFails
<1>2. CASE ErrorTarget(w) # "idle"
  <2>1. Goto(w, ErrorTarget(w)) /\ UNCHANGED loc
    BY <1>2 DEF StepFails
  <2> QED
    BY <2>1, ErrorTargetType, WorkerGoto
<1> QED
  BY <1>1, <1>2

LEMMA BudgetType ==
  ASSUME TypeInv
  PROVE  /\ budget.store > 0 => [budget EXCEPT !.store = @ - 1] \in Budget
         /\ budget.backend > 0 => [budget EXCEPT !.backend = @ - 1] \in Budget
         /\ budget.crash > 0 => [budget EXCEPT !.crash = @ - 1] \in Budget
         /\ budget.corrupt > 0 => [budget EXCEPT !.corrupt = @ - 1] \in Budget
<1>1. budget \in Budget
  BY DEF TypeInv, TypeOK
<1>2. {MaxStoreFaults, MaxBackendFaults, MaxCrashes, MaxCorruptions} \subseteq Nat
  BY ConstantsAssumption DEF ConstantsAssumption
<1> QED
  BY <1>1, <1>2 DEF Budget

\* A step of a worker fails.
LEMMA WorkerFaultType ==
  ASSUME TypeInv, NEW w \in Workers, WorkerFault(w)
  PROVE  TypeInv'
<1>1. CASE StatementError(w)
  <2>1. budget' \in Budget
    BY <1>1, BudgetType DEF StatementError
  <2>2. WorkTypeOK' /\ WorkerHasPayload'
    BY <1>1, GraceType, StepFailsType DEF StatementError
  <2> QED
    BY <1>1, <2>1, <2>2, StillTyped DEF StatementError, TypeInv, TypeOK
<1>2. CASE EntryHeartbeatError(w)
  <2>1. budget' \in Budget
    BY <1>2, BudgetType DEF EntryHeartbeatError
  <2>2. WorkTypeOK' /\ WorkerHasPayload'
    BY <1>2, GraceType, StepFailsType DEF EntryHeartbeatError
  <2>3. ProcTypeOK'
    BY <1>2 DEF EntryHeartbeatError, Fence, TypeInv, TypeOK, ProcTypeOK
  <2> QED
    BY <1>2, <2>1, <2>2, <2>3, StillTyped
    DEF EntryHeartbeatError, TypeInv, TypeOK
<1>3. CASE WriteError(w)
  <2>1. budget' \in Budget
    BY <1>3, BudgetType DEF WriteError, BackendFault
  <2>2. WorkTypeOK' /\ WorkerHasPayload'
    BY <1>3, GraceType, WorkerGoto DEF WriteError, PCs, CreatePCs, PayloadPCs
  <2>3. PICK b \in {blob[loc[w].cur], "ok", "absent"} :
          blob' = [blob EXCEPT ![loc[w].cur] = b]
    BY <1>3 DEF WriteError
  <2>4. loc[w].cur \in Payloads => b \in {"absent", "ok", "corrupt"}
    BY DEF TypeInv, TypeOK, PhysTypeOK
  <2>5. PhysTypeOK'
    BY <1>3, <2>3, <2>4, BlobType DEF WriteError
  <2> QED
    BY <1>3, <2>1, <2>2, <2>5, StillTyped DEF WriteError, TypeInv, TypeOK
<1>4. CASE ReadError(w)
  <2>1. budget' \in Budget
    BY <1>4, BudgetType DEF ReadError, BackendFault
  <2>2. WorkTypeOK' /\ WorkerHasPayload'
    BY <1>4, GraceType, WorkerGoto
    DEF ReadError, PCs, CreatePCs, ReclaimPCs, PayloadPCs
  <2> QED
    BY <1>4, <2>1, <2>2, StillTyped DEF ReadError, TypeInv, TypeOK
<1>5. CASE ArchiveError(w)
  <2>1. budget' \in Budget
    BY <1>5, BudgetType DEF ArchiveError, BackendFault
  <2>2. (Goto(w, "fence") /\ UNCHANGED loc) \/ Return(w)
    BY <1>5 DEF ArchiveError
  <2>3. WorkTypeOK' /\ WorkerHasPayload'
    BY <1>5, <2>2, GraceType, WorkerGoto, WorkerReturn
    DEF ArchiveError, PCs, ReclaimPCs, PayloadPCs
  <2>4. PICK b \in {ablob[loc[w].obj], pc[w] = "arc_write"} :
          ablob' = [ablob EXCEPT ![loc[w].obj] = b]
    BY <1>5 DEF ArchiveError
  <2>5. loc[w].obj \in Objects => b \in BOOLEAN
    BY DEF TypeInv, TypeOK, PhysTypeOK
  <2>6. PhysTypeOK'
    BY <1>5, <2>4, <2>5, ArchiveBlobType DEF ArchiveError
  <2> QED
    BY <1>5, <2>1, <2>3, <2>6, StillTyped DEF ArchiveError, TypeInv, TypeOK
<1>6. ASSUME NEW p \in Payloads, DeleteError(w, p) PROVE TypeInv'
  <2>1. budget' \in Budget
    BY <1>6, BudgetType DEF DeleteError, BackendFault
  <2>2. (\E l \in {"undo", "fence"} : Goto(w, l) /\ UNCHANGED loc) \/ Return(w)
    BY <1>6, Zenon DEF DeleteError
  <2>3. WorkTypeOK' /\ WorkerHasPayload'
    BY <1>6, <2>2, GraceType, WorkerGoto, WorkerReturn
    DEF DeleteError, PCs, CreatePCs, ReclaimPCs, PayloadPCs
  <2>4. PICK b \in {blob[p], "absent"} : blob' = [blob EXCEPT ![p] = b]
    BY <1>6 DEF DeleteError
  <2>5. b \in {"absent", "ok", "corrupt"}
    BY DEF TypeInv, TypeOK, PhysTypeOK
  <2>6. PhysTypeOK'
    BY <1>6, <2>4, <2>5, BlobType DEF DeleteError
  <2> QED
    BY <1>6, <2>1, <2>3, <2>6, StillTyped DEF DeleteError, TypeInv, TypeOK
<1>7. ASSUME NEW p \in Payloads, VerifyReadError(w, p) PROVE TypeInv'
  <2> DEFINE r == [loc[w] EXCEPT !.todo = @ \ {p}, !.cur = p]
  <2>1. budget' \in Budget
    BY <1>7, BudgetType DEF VerifyReadError, BackendFault
  <2>2. r \in Locals
    BY LocalsFields DEF Locals
  <2>3. SetLocals(w, r)
    BY <1>7 DEF VerifyReadError
  <2>4. WorkTypeOK' /\ WorkerHasPayload'
    BY <1>7, <2>2, <2>3, GraceType, WorkerUpdate
    DEF VerifyReadError, PCs, VerifyPCs, PayloadPCs
  <2> QED
    BY <1>7, <2>1, <2>4, StillTyped DEF VerifyReadError, TypeInv, TypeOK
<1> QED
  BY <1>1, <1>2, <1>3, <1>4, <1>5, <1>6, <1>7 DEF WorkerFault

\* A request in progress takes its next step.
LEMMA WorkerStepType ==
  ASSUME TypeInv, NEW w \in Workers, WorkerStep(w)
  PROVE  TypeInv'
<1>1. CASE FlagWrite(w)
  <2>1. WorkTypeOK' /\ WorkerHasPayload'
    BY <1>1, GraceType, WorkerReturn DEF FlagWrite
  <2> QED
    BY <1>1, <2>1, FlagWriteType, StillTyped DEF FlagWrite, TypeInv, TypeOK
<1>2. CASE AuthorityError(w)
  <2>1. WorkTypeOK' /\ WorkerHasPayload'
    BY <1>2, GraceType, StepFailsType DEF AuthorityError
  <2> QED
    BY <1>2, <2>1, StillTyped DEF AuthorityError, TypeInv, TypeOK
<1> QED
  BY <1>1, <1>2, CreateType, ReclaimType, VerifyType, ArchiveStepType
  DEF WorkerStep

-----------------------------------------------------------------------------
(* Recovery. *)

LEMMA RecTyped ==
  ASSUME TypeInv
  PROVE  rpc \in RecoveryPCs /\ rec \in RecoveryLocals
BY DEF TypeInv, TypeOK, RecTypeOK

\* A step inside an entry stays at the entry.
LEMMA RecoveryMoves ==
  ASSUME TypeInv, NEW l \in RecoveryPCs, l \in AtEntry => rpc \in AtEntry,
         RecGoto(l), UNCHANGED rec
  PROVE  RecTypeOK' /\ RecoveryHasEntry'
BY DEF TypeInv, TypeOK, RecTypeOK, RecoveryHasEntry, RecGoto

LEMMA RecoverySet ==
  ASSUME TypeInv, NEW l \in RecoveryPCs, NEW r \in RecoveryLocals,
         l \in AtEntry => r.att \in Attempts, rpc' = l, rec' = r
  PROVE  RecTypeOK' /\ RecoveryHasEntry'
BY DEF RecTypeOK, RecoveryHasEntry

LEMMA RecoveryErr ==
  ASSUME TypeInv, EntryFails \/ RecoveryFails
  PROVE  RecTypeOK' /\ RecoveryHasEntry'
<1>1. [rec EXCEPT !.err = TRUE] \in RecoveryLocals
  BY RecTyped DEF RecoveryLocals
<1> QED
  BY <1>1, RecoverySet
  DEF EntryFails, RecoveryFails, RecoveryPCs, AtEntry, EntryPCs

\* The entry at hand.
LEMMA EntryTyped ==
  ASSUME TypeInv, rpc \in AtEntry
  PROVE  /\ rec.att \in Attempts
         /\ entry[rec.att].prior \in ObjectRow
         /\ entry[rec.att].rows \in [Payloads -> RowStates]
         /\ entry[rec.att].arch \in Nat
<1>1. rec.att \in Attempts
  BY DEF TypeInv, RecoveryHasEntry
<1>2. entry[rec.att] \in JournalEntry
  BY <1>1 DEF TypeInv, TypeOK, JournalTypeOK
<1> QED
  BY <1>1, <1>2 DEF JournalEntry

LEMMA ExactDedupType ==
  ASSUME TypeInv, dedup' = ExactCounts, UNCHANGED <<object, rows, arch, edges>>
  PROVE  StoreTypeOK'
BY ExactCountsType DEF TypeInv, TypeOK, StoreTypeOK

LEMMA ArchiveCountType ==
  ASSUME TypeInv, NEW o, NEW n, o \in Objects => n \in Nat,
         arch' = [arch EXCEPT ![o] = n], UNCHANGED <<object, rows, dedup, edges>>
  PROVE  StoreTypeOK'
BY DEF TypeInv, TypeOK, StoreTypeOK

\* reconcile_store takes its next step.
LEMMA RecoveryType ==
  ASSUME TypeInv, RecoveryStep
  PROVE  TypeInv'
<1>1. CASE RecScan
  <2>1. [rec EXCEPT !.queue = OpenAttempts] \in RecoveryLocals
    BY RecTyped DEF RecoveryLocals, OpenAttempts
  <2>2. RecTypeOK' /\ RecoveryHasEntry'
    BY <1>1, <2>1, RecoverySet
    DEF RecScan, RecAt, RecoveryPCs, AtEntry, EntryPCs
  <2> QED
    BY <1>1, <2>2, StillTyped DEF RecScan, TypeInv, TypeOK
<1>2. ASSUME NEW a \in Attempts, RecNext(a) PROVE TypeInv'
  <2>1. rpc' \in RecoveryPCs
    BY <1>2 DEF RecNext, RecoveryPCs
  <2>2. rec' \in RecoveryLocals
    BY <1>2, RecTyped DEF RecNext, RecoveryLocals, JournalRows
  <2>3. rec'.att = a
    BY <1>2, RecTyped DEF RecNext, RecoveryLocals
  <2>4. RecTypeOK' /\ RecoveryHasEntry'
    BY <1>2, <2>1, <2>2, <2>3 DEF RecNext, RecTypeOK, RecoveryHasEntry
  <2> QED
    BY <1>2, <2>4, StillTyped DEF RecNext, TypeInv, TypeOK
<1>3. CASE RecQueueEmpty
  <2>1. RecTypeOK' /\ RecoveryHasEntry'
    BY <1>3, RecoveryMoves
    DEF RecQueueEmpty, RecAt, RecoveryPCs, AtEntry, EntryPCs
  <2> QED
    BY <1>3, <2>1, StillTyped DEF RecQueueEmpty, TypeInv, TypeOK
<1>4. CASE RollbackObject
  <2>1. RecTypeOK' /\ RecoveryHasEntry'
    BY <1>4, RecoveryMoves
    DEF RollbackObject, RecAt, RecoveryPCs, AtEntry, EntryPCs
  <2>2. rpc \in AtEntry
    BY <1>4 DEF RollbackObject, RecAt, AtEntry, EntryPCs
  <2>3. StoreTypeOK'
    BY <1>4, <2>2, EntryTyped, ObjectTyped, UpdateObjectType
    DEF RollbackObject, RestoredObject
  <2> QED
    BY <1>4, <2>1, <2>3, StillTyped DEF RollbackObject, TypeInv, TypeOK
<1>5. ASSUME NEW p \in Payloads, RollbackRow(p) PROVE TypeInv'
  <2>1. [rec EXCEPT !.todo = @ \ {p}] \in RecoveryLocals
    BY RecTyped DEF RecoveryLocals
  <2>2. [rec EXCEPT !.todo = @ \ {p}].att = rec.att
    BY RecTyped DEF RecoveryLocals
  <2>3. rpc \in AtEntry /\ rec.att \in Attempts
    BY <1>5, EntryTyped DEF RollbackRow, RecAt, AtEntry, EntryPCs
  <2>4. RecTypeOK' /\ RecoveryHasEntry'
    BY <1>5, <2>1, <2>2, <2>3, RecTyped, RecoverySet DEF RollbackRow
  <2>5. StoreTypeOK'
    BY <1>5, <2>3, EntryTyped, ReplicaType DEF RollbackRow, WriteReplica
  <2> QED
    BY <1>5, <2>4, <2>5, StillTyped DEF RollbackRow, TypeInv, TypeOK
<1>6. ASSUME NEW p \in Payloads, RollbackRowConflict(p) PROVE TypeInv'
  <2>1. RecTypeOK' /\ RecoveryHasEntry'
    BY <1>6, RecoveryErr DEF RollbackRowConflict
  <2> QED
    BY <1>6, <2>1, StillTyped DEF RollbackRowConflict, TypeInv, TypeOK
<1>7. CASE RollbackRowsDone
  <2>1. RecTypeOK' /\ RecoveryHasEntry'
    BY <1>7, RecoveryMoves
    DEF RollbackRowsDone, RecAt, RecoveryPCs, AtEntry, EntryPCs
  <2> QED
    BY <1>7, <2>1, StillTyped DEF RollbackRowsDone, TypeInv, TypeOK
<1>8. CASE RollbackArchive
  <2>1. RecTypeOK' /\ RecoveryHasEntry'
    BY <1>8, RecoveryMoves
    DEF RollbackArchive, RecAt, RecoveryPCs, AtEntry, EntryPCs
  <2>2. rpc \in AtEntry
    BY <1>8 DEF RollbackArchive, RecAt, AtEntry, EntryPCs
  <2>3. StoreTypeOK'
    BY <1>8, <2>2, EntryTyped
    DEF RollbackArchive, TypeInv, TypeOK, StoreTypeOK
  <2> QED
    BY <1>8, <2>1, <2>3, StillTyped DEF RollbackArchive, TypeInv, TypeOK
<1>9. CASE RollbackRepair
  <2>1. (RecGoto("rb_resv") /\ UNCHANGED rec) \/ EntryFails
    BY <1>9 DEF RollbackRepair
  <2>2. RecTypeOK' /\ RecoveryHasEntry'
    BY <1>9, <2>1, RecoveryMoves, RecoveryErr
    DEF RollbackRepair, RecAt, RecoveryPCs, AtEntry, EntryPCs
  <2>3. StoreTypeOK'
    BY <1>9, ExactDedupType, StillTyped DEF RollbackRepair, storeVars
  <2> QED
    BY <1>9, <2>2, <2>3, StillTyped DEF RollbackRepair, TypeInv, TypeOK
<1>10. CASE RollbackReservation
  <2>1. RecTypeOK' /\ RecoveryHasEntry'
    BY <1>10, RecoveryMoves
    DEF RollbackReservation, RecReservation, RecAt, RecoveryPCs, AtEntry,
        EntryPCs
  <2>2. JournalTypeOK'
    BY <1>10
    DEF RollbackReservation, RecReservation, TypeInv, TypeOK, JournalTypeOK,
        ReservationStatus
  <2> QED
    BY <1>10, <2>1, <2>2, StillTyped
    DEF RollbackReservation, RecReservation, TypeInv, TypeOK
<1>11. CASE RollbackAttempt
  <2>1. (RecGoto("rb_jrnl") /\ UNCHANGED rec) \/ EntryFails
    BY <1>11 DEF RollbackAttempt, RecAttempt
  <2>2. RecTypeOK' /\ RecoveryHasEntry'
    BY <1>11, <2>1, RecoveryMoves, RecoveryErr
    DEF RollbackAttempt, RecAttempt, RecAt, RecoveryPCs, AtEntry, EntryPCs
  <2>3. JournalTypeOK'
    BY <1>11 DEF RollbackAttempt, RecAttempt, TypeInv, TypeOK, JournalTypeOK,
        AttemptStatus
  <2> QED
    BY <1>11, <2>2, <2>3, StillTyped
    DEF RollbackAttempt, RecAttempt, TypeInv, TypeOK
<1>12. CASE RollbackJournal
  <2>1. RecTypeOK' /\ RecoveryHasEntry'
    BY <1>12, RecoveryMoves
    DEF RollbackJournal, RecJournal, RecAt, RecoveryPCs, AtEntry, EntryPCs
  <2>2. JournalTypeOK'
    BY <1>12, PhaseType
    DEF RollbackJournal, RecJournal, UpdateJournalPhase, PhasePrior, Phases,
        OpenPhases
  <2> QED
    BY <1>12, <2>1, <2>2, StillTyped
    DEF RollbackJournal, RecJournal, TypeInv, TypeOK
<1>13. ASSUME NEW p \in Payloads, RecCommitRow(p) PROVE TypeInv'
  <2>1. [rec EXCEPT !.todo = @ \ {p}, !.cur = p] \in RecoveryLocals
    BY RecTyped DEF RecoveryLocals
  <2>2. [rec EXCEPT !.todo = @ \ {p}, !.cur = p].att = rec.att
    BY RecTyped DEF RecoveryLocals
  <2>3. rec.att \in Attempts
    BY <1>13, EntryTyped DEF RecCommitRow, RecAt, AtEntry, EntryPCs
  <2>4. RecTypeOK' /\ RecoveryHasEntry'
    BY <1>13, <2>1, <2>2, <2>3, RecoverySet DEF RecCommitRow, RecoveryPCs
  <2>5. StoreTypeOK'
    BY <1>13, ReplicaType DEF RecCommitRow, DeleteReplica, RowStates
  <2> QED
    BY <1>13, <2>4, <2>5, StillTyped DEF RecCommitRow, TypeInv, TypeOK
<1>14. CASE RecCommitRelease
  <2>1. [rec EXCEPT !.cur = None] \in RecoveryLocals
    BY RecTyped DEF RecoveryLocals
  <2>2. [rec EXCEPT !.cur = None].att = rec.att
    BY RecTyped DEF RecoveryLocals
  <2>3. rec.att \in Attempts
    BY <1>14, EntryTyped DEF RecCommitRelease, RecAt, AtEntry, EntryPCs
  <2>4. RecTypeOK' /\ RecoveryHasEntry'
    BY <1>14, <2>1, <2>2, <2>3, RecoverySet DEF RecCommitRelease, RecoveryPCs
  <2>5. StoreTypeOK'
    BY <1>14, DedupType DEF RecCommitRelease
  <2> QED
    BY <1>14, <2>4, <2>5, StillTyped DEF RecCommitRelease, TypeInv, TypeOK
<1>15. CASE RecCommitRowsDone
  <2>1. RecTypeOK' /\ RecoveryHasEntry'
    BY <1>15, RecoveryMoves
    DEF RecCommitRowsDone, RecAt, RecoveryPCs, AtEntry, EntryPCs
  <2> QED
    BY <1>15, <2>1, StillTyped DEF RecCommitRowsDone, TypeInv, TypeOK
<1>16. CASE RecCommitArchive
  <2>1. RecTypeOK' /\ RecoveryHasEntry'
    BY <1>16, RecoveryMoves
    DEF RecCommitArchive, RecAt, RecoveryPCs, AtEntry, EntryPCs
  <2>2. rpc \in AtEntry
    BY <1>16 DEF RecCommitArchive, RecAt, AtEntry, EntryPCs
  <2>3. \A o \in Objects : arch[o] \in Nat
    BY DEF TypeInv, TypeOK, StoreTypeOK
  <2>4. \A m, n \in Nat : (IF m > n THEN m - n ELSE 0) \in Nat
    OBVIOUS
  <2>5. StoreTypeOK'
    BY <1>16, <2>2, <2>3, <2>4, EntryTyped, ArchiveCountType
    DEF RecCommitArchive
  <2> QED
    BY <1>16, <2>1, <2>5, StillTyped DEF RecCommitArchive, TypeInv, TypeOK
<1>17. CASE RecCommitObject
  <2>1. RecTypeOK' /\ RecoveryHasEntry'
    BY <1>17, RecoveryMoves
    DEF RecCommitObject, RecAt, RecoveryPCs, AtEntry, EntryPCs
  <2>2. StoreTypeOK'
    BY <1>17, ObjectTyped, ObjectRowUpdate, UpdateObjectType
    DEF RecCommitObject, LifecycleStates
  <2> QED
    BY <1>17, <2>1, <2>2, StillTyped DEF RecCommitObject, TypeInv, TypeOK
<1>18. CASE RecCommitReservation
  <2>1. RecTypeOK' /\ RecoveryHasEntry'
    BY <1>18, RecoveryMoves
    DEF RecCommitReservation, RecReservation, RecAt, RecoveryPCs, AtEntry,
        EntryPCs
  <2>2. JournalTypeOK'
    BY <1>18
    DEF RecCommitReservation, RecReservation, TypeInv, TypeOK, JournalTypeOK,
        ReservationStatus
  <2> QED
    BY <1>18, <2>1, <2>2, StillTyped
    DEF RecCommitReservation, RecReservation, TypeInv, TypeOK
<1>19. CASE RecCommitAttempt
  <2>1. (RecGoto("cm_jrnl") /\ UNCHANGED rec) \/ EntryFails
    BY <1>19 DEF RecCommitAttempt, RecAttempt
  <2>2. RecTypeOK' /\ RecoveryHasEntry'
    BY <1>19, <2>1, RecoveryMoves, RecoveryErr
    DEF RecCommitAttempt, RecAttempt, RecAt, RecoveryPCs, AtEntry, EntryPCs
  <2>3. JournalTypeOK'
    BY <1>19 DEF RecCommitAttempt, RecAttempt, TypeInv, TypeOK, JournalTypeOK,
        AttemptStatus
  <2> QED
    BY <1>19, <2>2, <2>3, StillTyped
    DEF RecCommitAttempt, RecAttempt, TypeInv, TypeOK
<1>20. CASE RecCommitJournal
  <2>1. RecTypeOK' /\ RecoveryHasEntry'
    BY <1>20, RecoveryMoves
    DEF RecCommitJournal, RecJournal, RecAt, RecoveryPCs, AtEntry, EntryPCs
  <2>2. JournalTypeOK'
    BY <1>20, PhaseType
    DEF RecCommitJournal, RecJournal, UpdateJournalPhase, PhasePrior, Phases,
        OpenPhases
  <2> QED
    BY <1>20, <2>1, <2>2, StillTyped
    DEF RecCommitJournal, RecJournal, TypeInv, TypeOK
<1>21. CASE RecExpire
  <2>1. RecTypeOK' /\ RecoveryHasEntry'
    BY <1>21, RecoveryMoves
    DEF RecExpire, RecAt, RecoveryPCs, AtEntry, EntryPCs
  <2>2. object' \in [Objects -> ObjectRow]
    BY <1>21, ObjectTyped, ObjectRowUpdate DEF RecExpire, LifecycleStates
  <2>3. StoreTypeOK'
    BY <1>21, <2>2 DEF RecExpire, TypeInv, TypeOK, StoreTypeOK
  <2>4. JournalTypeOK'
    BY <1>21 DEF RecExpire, TypeInv, TypeOK, JournalTypeOK, ReservationStatus,
        AttemptStatus
  <2> QED
    BY <1>21, <2>1, <2>3, <2>4, StillTyped DEF RecExpire, TypeInv, TypeOK
<1>22. CASE RecRepair
  <2>1. (RecGoto("lineage") /\ UNCHANGED rec) \/ RecoveryFails
    BY <1>22 DEF RecRepair
  <2>2. RecTypeOK' /\ RecoveryHasEntry'
    BY <1>22, <2>1, RecoveryMoves, RecoveryErr
    DEF RecRepair, RecAt, RecoveryPCs, AtEntry, EntryPCs
  <2>3. StoreTypeOK'
    BY <1>22, ExactDedupType, StillTyped DEF RecRepair, storeVars
  <2> QED
    BY <1>22, <2>2, <2>3, StillTyped DEF RecRepair, TypeInv, TypeOK
<1>23. CASE RecLineage
  <2>1. rec' \in RecoveryLocals
    BY <1>23, RecTyped DEF RecLineage, RecoveryLocals
  <2>2. RecTypeOK' /\ RecoveryHasEntry'
    BY <1>23, <2>1
    DEF RecLineage, RecGoto, RecTypeOK, RecoveryHasEntry, RecAt, RecoveryPCs,
        AtEntry, EntryPCs
  <2> QED
    BY <1>23, <2>2, StillTyped DEF RecLineage, TypeInv, TypeOK
<1>24. CASE RecEnd
  <2>1. NoRecovery \in RecoveryLocals
    BY DEF NoRecovery, RecoveryLocals
  <2>2. RecTypeOK' /\ RecoveryHasEntry'
    BY <1>24, <2>1, RecoverySet
    DEF RecEnd, RecAt, RecoveryPCs, AtEntry, EntryPCs
  <2>3. rec.by \in Workers \cup {None}
    BY RecTyped DEF RecoveryLocals
  <2>4. WorkTypeOK' /\ WorkerHasPayload'
    BY <1>24, <2>3, GraceType, WorkerReturn, WorkerStays, StillTyped
    DEF RecEnd, TypeInv, TypeOK, WorkTypeOK
  <2>5. ProcTypeOK'
    BY <1>24 DEF RecEnd, TypeInv, TypeOK, ProcTypeOK
  <2> QED
    BY <1>24, <2>2, <2>4, <2>5, StillTyped DEF RecEnd, TypeInv, TypeOK
<1>25. CASE RecStoreError
  <2>1. budget' \in Budget
    BY <1>25, BudgetType DEF RecStoreError
  <2>2. EntryFails \/ RecoveryFails
        \/ (rpc = "cm_release" /\ rpc' = "cm_row" /\ rec' = [rec EXCEPT !.cur = None])
    BY <1>25, Zenon DEF RecStoreError
  <2>3. [rec EXCEPT !.cur = None] \in RecoveryLocals
        /\ [rec EXCEPT !.cur = None].att = rec.att
    BY RecTyped DEF RecoveryLocals
  <2>4. rpc = "cm_release" => rec.att \in Attempts
    BY EntryTyped DEF AtEntry
  <2>5. RecTypeOK' /\ RecoveryHasEntry'
    BY <2>2, <2>3, <2>4, RecoveryErr, RecoverySet DEF RecoveryPCs
  <2> QED
    BY <1>25, <2>1, <2>5, StillTyped DEF RecStoreError, TypeInv, TypeOK
<1>26. CASE RecRepairPartial
  <2>1. budget' \in Budget
    BY <1>26, BudgetType DEF RecRepairPartial
  <2>2. RecTypeOK' /\ RecoveryHasEntry'
    BY <1>26, RecoveryErr DEF RecRepairPartial
  <2>3. StoreTypeOK'
    BY <1>26, ExactCountsType
    DEF RecRepairPartial, TypeInv, TypeOK, StoreTypeOK
  <2> QED
    BY <1>26, <2>1, <2>2, <2>3, StillTyped
    DEF RecRepairPartial, TypeInv, TypeOK
<1>27. ASSUME NEW a \in Attempts, RecBackendError(a) PROVE TypeInv'
  <2>1. budget' \in Budget
    BY <1>27, BudgetType DEF RecBackendError
  <2>2. [rec EXCEPT !.queue = @ \ {a}, !.err = TRUE] \in RecoveryLocals
    BY RecTyped DEF RecoveryLocals
  <2>3. RecTypeOK' /\ RecoveryHasEntry'
    BY <1>27, <2>2, RecTyped, RecoverySet
    DEF RecBackendError, RecAt, RecoveryPCs, AtEntry, EntryPCs
  <2> QED
    BY <1>27, <2>1, <2>3, StillTyped DEF RecBackendError, TypeInv, TypeOK
<1> QED
  BY <1>1, <1>2, <1>3, <1>4, <1>5, <1>6, <1>7, <1>8, <1>9, <1>10, <1>11,
     <1>12, <1>13, <1>14, <1>15, <1>16, <1>17, <1>18, <1>19, <1>20, <1>21,
     <1>22, <1>23, <1>24, <1>25, <1>26, <1>27 DEF RecoveryStep

-----------------------------------------------------------------------------
(* The process. *)

LEMMA VanishType ==
  ASSUME TypeInv, Vanish, budget' \in Budget
  PROVE  TypeInv'
<1>1. NoLocals \in Locals
  BY DEF NoLocals, Locals, NoObject, ObjectRow
<1>2. WorkTypeOK' /\ WorkerHasPayload'
  BY <1>1 DEF Vanish, WorkTypeOK, WorkerHasPayload, PCs, PayloadPCs
<1>3. RecTypeOK' /\ RecoveryHasEntry'
  BY DEF Vanish, NoRecovery, RecoveryLocals, RecTypeOK, RecoveryPCs,
         RecoveryHasEntry, AtEntry, EntryPCs
<1>4. ProcTypeOK'
  BY DEF Vanish, TypeInv, TypeOK, ProcTypeOK
<1> QED
  BY <1>2, <1>3, <1>4, StillTyped DEF Vanish, TypeInv, TypeOK

LEMMA ProcessType ==
  ASSUME TypeInv, Process
  PROVE  TypeInv'
<1>1. CASE Start
  <2>1. RecTypeOK' /\ RecoveryHasEntry'
    BY <1>1 DEF Start, NoRecovery, RecoveryLocals, RecTypeOK, RecoveryPCs,
                RecoveryHasEntry, AtEntry, EntryPCs
  <2>2. ProcTypeOK'
    BY <1>1 DEF Start, TypeInv, TypeOK, ProcTypeOK
  <2> QED
    BY <1>1, <2>1, <2>2, StillTyped DEF Start, TypeInv, TypeOK
<1>2. CASE Exit
  BY <1>2, VanishType DEF Exit, TypeInv, TypeOK
<1>3. CASE Crash
  BY <1>3, BudgetType, VanishType DEF Crash
<1>4. CASE RequestShutdown
  <2>1. ProcTypeOK'
    BY <1>4 DEF RequestShutdown, TypeInv, TypeOK, ProcTypeOK
  <2> QED
    BY <1>4, <2>1, StillTyped DEF RequestShutdown, TypeInv, TypeOK
<1>5. CASE HeartbeatThreadError
  <2>1. budget' \in Budget
    BY <1>5, BudgetType DEF HeartbeatThreadError
  <2>2. ProcTypeOK'
    BY <1>5 DEF HeartbeatThreadError, TypeInv, TypeOK, ProcTypeOK
  <2>3. WorkTypeOK' /\ WorkerHasPayload'
    BY <1>5, WorkerStays DEF HeartbeatThreadError
  <2> QED
    BY <1>5, <2>1, <2>2, <2>3, StillTyped
    DEF HeartbeatThreadError, TypeInv, TypeOK
<1> QED
  BY <1>1, <1>2, <1>3, <1>4, <1>5 DEF Process

LEMMA CorruptType ==
  ASSUME TypeInv, NEW p \in Payloads, Corrupt(p)
  PROVE  TypeInv'
<1>1. budget' \in Budget
  BY BudgetType DEF Corrupt
<1>2. PhysTypeOK'
  BY BlobType DEF Corrupt
<1> QED
  BY <1>1, <1>2, StillTyped DEF Corrupt, TypeInv, TypeOK

LEMMA NextType == TypeInv /\ [Next]_vars => TypeInv'
<1> SUFFICES ASSUME TypeInv, [Next]_vars PROVE TypeInv'
  OBVIOUS
<1>1. CASE UNCHANGED vars
  BY <1>1, StillTyped DEF vars, TypeInv, TypeOK
<1> QED
  BY <1>1, RequestType, WorkerStepType, WorkerFaultType, RecoveryType,
     ProcessType, CorruptType DEF Next

(* No handler, no error path, no recovery step and no crash writes a status,  *)
(* a phase or a row its table does not know, and every reference count stays  *)
(* a number, whatever number of requests, faults and restarts there is.  The  *)
(* counts need RecoveryHasEntry and WorkerHasPayload: the entry recovery      *)
(* works on and the payload a registration has at hand exist when they are    *)
(* written.                                                                   *)
THEOREM TypeCorrect == Spec => []TypeOK
<1>1. Spec => []TypeInv
  BY InitType, NextType, PTL DEF Spec
<1>2. TypeInv => TypeOK
  BY DEF TypeInv
<1> QED
  BY <1>1, <1>2, PTL

-----------------------------------------------------------------------------
(* The journal covers what is open: the invariant. *)

\* begin_object_operation: two requests never work on one object ...
GuardsExclusive ==
  \A v, w \in Workers : loc[v].obj = loc[w].obj => v = w \/ loc[v].obj = None

\* ... and none works while recovery does, or before the process serves.
RecoveryExclusive ==
  (rpc # "off" \/ mode # "up") => \A w \in Workers : loc[w].obj = None

\* What a journal entry restores is never a pending object.
EntriesKnown ==
  \A a \in Attempts :
    /\ phase[a] # "NONE" => entry[a].obj \in Objects
    /\ entry[a].prior.state # "RECLAIM_PENDING"

\* A request in progress works on an object, and a reclaim for an attempt.
WorkerOwns(w) ==
  /\ IF pc[w] \in {"idle", "recover"}
     THEN loc[w] = NoLocals
     ELSE loc[w].obj \in Objects
  /\ pc[w] \in ReclaimPCs => loc[w].att \in Attempts
  /\ loc[w].att \in Attempts
       => /\ loc[w].obj \in Objects
          /\ entry[loc[w].att].obj = loc[w].obj
          /\ phase[loc[w].att] # "NONE"

\* The rows a request writes from copies, and the order in which it closes
\* object, reservation, attempt and journal.
WorkerOrder(w) ==
  /\ pc[w] \in FlagOps => loc[w].seen.state = object[loc[w].obj].state
  /\ pc[w] \in ReclaimPCs => loc[w].seen.state # "RECLAIM_PENDING"
  /\ pc[w] \in {"recomputable", "pending"} => resv[loc[w].att] = "OPEN"
  /\ pc[w] \in {"abort_resv", "cmt_resv"}
       => object[loc[w].obj].state # "RECLAIM_PENDING"
  /\ pc[w] \in {"abort_att", "cmt_att", "abort_jrnl", "cmt_jrnl"}
       => resv[loc[w].att] # "OPEN"
  /\ pc[w] \in {"abort_jrnl", "cmt_jrnl"} => attempt[loc[w].att] # "OPEN"

\* The same for recovery.
RecoveryOrder ==
  /\ \A a \in rec.queue : phase[a] # "NONE"
  /\ rpc \in AtEntry => phase[rec.att] # "NONE"
  /\ rpc \in {"rb_row", "rb_arch", "rb_repair", "rb_resv", "cm_resv"}
       => object[entry[rec.att].obj].state # "RECLAIM_PENDING"
  /\ rpc \in {"rb_att", "cm_att", "rb_jrnl", "cm_jrnl"}
       => resv[rec.att] # "OPEN"
  /\ rpc \in {"rb_jrnl", "cm_jrnl"} => attempt[rec.att] # "OPEN"

JournalInv ==
  /\ GuardsExclusive /\ RecoveryExclusive /\ EntriesKnown
  /\ \A w \in Workers : WorkerOwns(w) /\ WorkerOrder(w)
  /\ RecoveryOrder
  /\ JournalCovers

-----------------------------------------------------------------------------
(* Steps of one worker. *)

CoversAttempt(a) ==
  (resv[a] = "OPEN" \/ attempt[a] = "OPEN") => phase[a] \in OpenPhases

CoversObject(o) ==
  object[o].state = "RECLAIM_PENDING"
    => \E a \in Attempts : /\ phase[a] \in OpenPhases
                           /\ entry[a].obj = o
                           /\ resv[a] = "OPEN"

LEMMA CoversParts ==
  JournalCovers <=> /\ \A a \in Attempts : CoversAttempt(a)
                    /\ \A o \in Objects : CoversObject(o)
BY DEF JournalCovers, CoversAttempt, CoversObject, OpenAttempts

\* What a request in progress leaves alone: the other requests, the other
\* objects and the other attempts.
WorkerFrame(w) ==
  /\ UNCHANGED <<entry, mode, rpc, rec>>
  /\ pc[w] \notin {"idle", "recover"}
  /\ \A v \in Workers \ {w} : pc'[v] = pc[v] /\ loc'[v] = loc[v]
  /\ \/ loc'[w] = NoLocals
     \/ loc'[w].obj = loc[w].obj /\ loc'[w].att = loc[w].att
  /\ \A o \in Objects : o # loc[w].obj => object'[o] = object[o]
  /\ \A a \in Attempts : a # loc[w].att =>
       phase'[a] = phase[a] /\ resv'[a] = resv[a] /\ attempt'[a] = attempt[a]
  /\ \A a \in Attempts : phase'[a] = "NONE" <=> phase[a] = "NONE"

LEMMA LocalsOf ==
  ASSUME TypeInv, NEW w \in Workers
  PROVE  /\ loc[w].obj \in Objects \cup {None}
         /\ loc[w].att \in Attempts \cup {None}
         /\ None \notin Objects /\ None \notin Attempts
         /\ NoLocals.obj = None /\ NoLocals.att = None
BY LocalsFields, ConstantsAssumption DEF ConstantsAssumption, NoLocals

\* While a request is in progress there is no recovery.
LEMMA NoRecoveryNow ==
  ASSUME TypeInv, JournalInv, NEW w \in Workers, pc[w] \notin {"idle", "recover"}
  PROVE  rpc = "off" /\ mode = "up" /\ loc[w].obj \in Objects
BY LocalsOf DEF JournalInv, WorkerOwns, RecoveryExclusive

\* Two requests neither share an object nor an attempt.
LEMMA Disjoint ==
  ASSUME TypeInv, JournalInv, NEW v \in Workers, NEW w \in Workers, v # w,
         loc[v].obj \in Objects
  PROVE  /\ loc[v].obj # loc[w].obj
         /\ loc[v].att \in Attempts => loc[v].att # loc[w].att
BY LocalsOf DEF JournalInv, GuardsExclusive, WorkerOwns

LEMMA FrameKeeps ==
  ASSUME TypeInv, JournalInv, NEW w \in Workers, WorkerFrame(w),
         WorkerOwns(w)', WorkerOrder(w)',
         NEW o \in Objects, o = loc[w].obj, CoversObject(o)',
         NEW a, a = loc[w].att, a \in Attempts => CoversAttempt(a)'
  PROVE  JournalInv'
<1>1. rpc = "off" /\ rpc' = "off" /\ mode' = "up"
  BY NoRecoveryNow DEF WorkerFrame
<1>2. GuardsExclusive'
  <2> SUFFICES ASSUME NEW u \in Workers, NEW v \in Workers,
                      loc'[u].obj = loc'[v].obj, u # v
               PROVE  loc'[u].obj = None
    BY DEF GuardsExclusive
  <2>1. \A x \in Workers : loc'[x].obj = None \/ loc'[x].obj = loc[x].obj
    BY LocalsOf DEF WorkerFrame
  <2> QED
    BY <2>1 DEF JournalInv, GuardsExclusive
<1>3. RecoveryExclusive'
  BY <1>1 DEF RecoveryExclusive
<1>4. EntriesKnown'
  BY DEF EntriesKnown, WorkerFrame, JournalInv
<1>5. ASSUME NEW v \in Workers PROVE WorkerOwns(v)' /\ WorkerOrder(v)'
  <2>1. CASE v = w
    BY <2>1
  <2>2. CASE v # w
    <3>1. pc'[v] = pc[v] /\ loc'[v] = loc[v] /\ entry' = entry
      BY <2>2 DEF WorkerFrame
    <3>2. WorkerOwns(v) /\ WorkerOrder(v)
      BY DEF JournalInv
    <3>3. WorkerOwns(v)'
      BY <3>1, <3>2 DEF WorkerOwns, WorkerFrame
    <3>4. CASE pc[v] \in {"idle", "recover"}
      BY <3>1, <3>3, <3>4
      DEF WorkerOrder, FlagOps, ReclaimPCs, CommitPCs, AbortPCs
    <3>5. CASE pc[v] \notin {"idle", "recover"}
      <4>1. loc[v].obj \in Objects /\ object'[loc[v].obj] = object[loc[v].obj]
        BY <2>2, <3>5, NoRecoveryNow, Disjoint DEF WorkerFrame
      <4>2. loc[v].att \in Attempts => /\ resv'[loc[v].att] = resv[loc[v].att]
                                       /\ attempt'[loc[v].att] = attempt[loc[v].att]
        BY <2>2, <4>1, Disjoint DEF WorkerFrame
      <4>3. pc[v] \in ReclaimPCs => loc[v].att \in Attempts
        BY <3>2 DEF WorkerOwns
      <4> QED
        BY <3>1, <3>2, <3>3, <4>1, <4>2, <4>3
        DEF WorkerOrder, ReclaimPCs, CommitPCs, AbortPCs
    <3> QED
      BY <3>3, <3>4, <3>5
  <2> QED
    BY <2>1, <2>2
<1>6. RecoveryOrder'
  <2>1. rec.queue \subseteq Attempts
    BY RecTyped DEF RecoveryLocals
  <2> QED
    BY <1>1, <2>1 DEF RecoveryOrder, WorkerFrame, JournalInv, AtEntry, EntryPCs
<1>7. JournalCovers'
  <2>1. ASSUME NEW b \in Attempts PROVE CoversAttempt(b)'
    BY CoversParts DEF WorkerFrame, JournalInv, CoversAttempt
  <2>2. ASSUME NEW q \in Objects PROVE CoversObject(q)'
    <3>1. CASE q = o
      BY <3>1
    <3>2. CASE q # o
      <4> SUFFICES ASSUME object'[q].state = "RECLAIM_PENDING"
                   PROVE  CoversObject(q)'
        BY DEF CoversObject
      <4>1. object[q].state = "RECLAIM_PENDING"
        BY <3>2 DEF WorkerFrame
      <4>2. PICK b \in Attempts : /\ phase[b] \in OpenPhases
                                 /\ entry[b].obj = q /\ resv[b] = "OPEN"
        BY <4>1, CoversParts DEF JournalInv, CoversObject
      <4>3. b # a
        BY <3>2, <4>2 DEF JournalInv, WorkerOwns
      <4> QED
        BY <4>2, <4>3 DEF CoversObject, WorkerFrame
    <3> QED
      BY <3>1, <3>2
  <2> QED
    BY <2>1, <2>2
    DEF JournalCovers, CoversAttempt, CoversObject, OpenAttempts
<1> QED
  BY <1>2, <1>3, <1>4, <1>5, <1>6, <1>7 DEF JournalInv

\* Most steps touch neither objects nor the journal, and lead to a step that
\* WorkerOrder says nothing about.
Untouched == UNCHANGED <<object, phase, entry, resv, attempt, mode, rpc, rec>>

OrderedPCs ==
  FlagOps \cup AbortPCs
    \cup {"recomputable", "pending", "cmt_resv", "cmt_att", "cmt_jrnl"}

QuietPCs == PCs \ (OrderedPCs \cup {"idle", "recover"})

Kept(l, r) == r.obj = l.obj /\ r.att = l.att /\ r.seen = l.seen

LEMMA QuietSets ==
  /\ CreatePCs \cup VerifyPCs \cup ArchivePCs \subseteq QuietPCs \ ReclaimPCs
  /\ ReclaimPCs \ OrderedPCs \subseteq QuietPCs
BY DEF QuietPCs, OrderedPCs, PCs, CreatePCs, VerifyPCs, ArchivePCs, ReclaimPCs,
       CommitPCs, AbortPCs, FlagOps

LEMMA GotoFrame ==
  ASSUME TypeInv, NEW w \in Workers, NEW l, Goto(w, l)
  PROVE  pc'[w] = l /\ \A v \in Workers \ {w} : pc'[v] = pc[v]
BY DEF TypeInv, TypeOK, WorkTypeOK, Goto

LEMMA LocalsFrame ==
  ASSUME TypeInv, NEW w \in Workers, NEW r, SetLocals(w, r)
  PROVE  loc'[w] = r /\ \A v \in Workers \ {w} : loc'[v] = loc[v]
BY DEF TypeInv, TypeOK, WorkTypeOK, SetLocals

\* Nothing this module is about changes.
LEMMA Nothing ==
  ASSUME TypeInv, JournalInv, Untouched, UNCHANGED <<pc, loc>>
  PROVE  JournalInv'
BY DEF JournalInv, Untouched, GuardsExclusive, RecoveryExclusive, EntriesKnown,
       WorkerOwns, WorkerOrder, RecoveryOrder, JournalCovers, OpenAttempts

\* The worker goes to a step l with local variables r.
LEMMA QuietMove ==
  ASSUME TypeInv, JournalInv, NEW w \in Workers, Untouched,
         pc[w] \notin {"idle", "recover"},
         NEW l, l \in QuietPCs \/ (l = pc[w] /\ l \notin OrderedPCs),
         l \in ReclaimPCs => pc[w] \in ReclaimPCs,
         NEW r, Kept(loc[w], r),
         pc'[w] = l, loc'[w] = r,
         \A v \in Workers \ {w} : pc'[v] = pc[v] /\ loc'[v] = loc[v]
  PROVE  JournalInv'
<1> DEFINE o == loc[w].obj
           a == loc[w].att
<1>1. o \in Objects /\ WorkerOwns(w) /\ WorkerOrder(w)
  BY NoRecoveryNow DEF JournalInv
<1>2. WorkerFrame(w)
  BY DEF WorkerFrame, Untouched, Kept
<1>3. WorkerOwns(w)'
  BY <1>1 DEF WorkerOwns, Untouched, Kept, QuietPCs
<1>4. WorkerOrder(w)'
  BY <1>1 DEF WorkerOrder, Untouched, Kept, QuietPCs, OrderedPCs, AbortPCs
<1>5. CoversObject(o) /\ (a \in Attempts => CoversAttempt(a))
  BY <1>1, CoversParts DEF JournalInv
<1>6. ASSUME NEW q, q = o PROVE CoversObject(q)'
  BY <1>5, <1>6 DEF CoversObject, Untouched
<1>7. ASSUME NEW b, b = a PROVE b \in Attempts => CoversAttempt(b)'
  BY <1>5, <1>7 DEF CoversAttempt, Untouched
<1> QED
  BY <1>1, <1>2, <1>3, <1>4, <1>6, <1>7, FrameKeeps

LEMMA QuietGoto ==
  ASSUME TypeInv, JournalInv, NEW w \in Workers, Untouched,
         pc[w] \notin {"idle", "recover"},
         NEW l \in QuietPCs, l \in ReclaimPCs => pc[w] \in ReclaimPCs,
         Goto(w, l), UNCHANGED loc
  PROVE  JournalInv'
BY GotoFrame, QuietMove DEF Kept

LEMMA QuietLocals ==
  ASSUME TypeInv, JournalInv, NEW w \in Workers, Untouched,
         pc[w] \notin {"idle", "recover"},
         NEW l \in QuietPCs, l \in ReclaimPCs => pc[w] \in ReclaimPCs,
         NEW r, Kept(loc[w], r), Goto(w, l), SetLocals(w, r)
  PROVE  JournalInv'
BY GotoFrame, LocalsFrame, QuietMove

LEMMA QuietStay ==
  ASSUME TypeInv, JournalInv, NEW w \in Workers, Untouched,
         pc[w] \in QuietPCs,
         NEW r, Kept(loc[w], r), UNCHANGED pc, SetLocals(w, r)
  PROVE  JournalInv'
BY LocalsFrame, QuietMove DEF QuietPCs

\* The request returns; the journal may have been closed for good.
LEMMA ReturnOwns ==
  ASSUME TypeInv, NEW w \in Workers, Return(w)
  PROVE  /\ WorkerOwns(w)' /\ WorkerOrder(w)'
         /\ pc'[w] = "idle" /\ loc'[w] = NoLocals
         /\ \A v \in Workers \ {w} : pc'[v] = pc[v] /\ loc'[v] = loc[v]
<1>1. /\ pc'[w] = "idle" /\ loc'[w] = NoLocals
      /\ \A v \in Workers \ {w} : pc'[v] = pc[v] /\ loc'[v] = loc[v]
  BY GotoFrame, LocalsFrame DEF Return
<1> QED
  BY <1>1, LocalsOf
  DEF WorkerOwns, WorkerOrder, FlagOps, ReclaimPCs, CommitPCs, AbortPCs

LEMMA QuietReturn ==
  ASSUME TypeInv, JournalInv, NEW w \in Workers, Untouched,
         pc[w] \notin {"idle", "recover"}, Return(w)
  PROVE  JournalInv'
<1> DEFINE o == loc[w].obj
           a == loc[w].att
<1>1. o \in Objects
  BY NoRecoveryNow
<1>2. WorkerFrame(w)
  BY ReturnOwns DEF WorkerFrame, Untouched
<1>3. CoversObject(o) /\ (a \in Attempts => CoversAttempt(a))
  BY <1>1, CoversParts DEF JournalInv
<1>4. ASSUME NEW q, q = o PROVE CoversObject(q)'
  BY <1>3, <1>4 DEF CoversObject, Untouched
<1>5. ASSUME NEW b, b = a PROVE b \in Attempts => CoversAttempt(b)'
  BY <1>3, <1>5 DEF CoversAttempt, Untouched
<1> QED
  BY <1>1, <1>2, <1>4, <1>5, ReturnOwns, FrameKeeps

-----------------------------------------------------------------------------
(* Steps that write the object of a request or close its attempt. *)

LEMMA UpdateFrame ==
  ASSUME TypeInv, NEW o \in Objects, NEW row, UpdateObject(o, row)
  PROVE  object'[o] = row /\ \A q \in Objects \ {o} : object'[q] = object[q]
BY DEF TypeInv, TypeOK, StoreTypeOK, UpdateObject

\* The object row is written and the request returns.
LEMMA ObjectReturn ==
  ASSUME TypeInv, JournalInv, NEW w \in Workers,
         pc[w] \notin {"idle", "recover"},
         NEW o, o = loc[w].obj, NEW row, UpdateObject(o, row),
         row.state = "RECLAIM_PENDING" => object[o].state = "RECLAIM_PENDING",
         UNCHANGED <<phase, entry, resv, attempt, mode, rpc, rec>>, Return(w)
  PROVE  JournalInv'
<1>1. o \in Objects
  BY NoRecoveryNow
<1>2. object'[o] = row /\ \A q \in Objects \ {o} : object'[q] = object[q]
  BY <1>1, UpdateFrame
<1>3. WorkerFrame(w)
  BY <1>2, ReturnOwns DEF WorkerFrame
<1>4. CoversObject(o)'
  BY <1>1, <1>2, CoversParts DEF CoversObject, JournalInv
<1>5. ASSUME NEW a \in Attempts PROVE CoversAttempt(a)'
  BY CoversParts DEF CoversAttempt, JournalInv
<1> QED
  BY <1>1, <1>3, <1>4, <1>5, ReturnOwns, FrameKeeps

\* A reclaim writes the object row and goes on.
LEMMA ObjectGoto ==
  ASSUME TypeInv, JournalInv, NEW w \in Workers, pc[w] \in ReclaimPCs,
         NEW l \in {"pending", "validate", "cmt_resv", "abort_resv"},
         l = "pending" => pc[w] = "recomputable",
         NEW o, o = loc[w].obj, NEW row, UpdateObject(o, row),
         row.state = "RECLAIM_PENDING" => l = "validate" /\ pc[w] = "pending",
         UNCHANGED <<phase, entry, resv, attempt, mode, rpc, rec, loc>>,
         Goto(w, l)
  PROVE  JournalInv'
<1> DEFINE a == loc[w].att
<1>1. pc[w] \notin {"idle", "recover"}
  BY DEF ReclaimPCs, CommitPCs, AbortPCs
<1>2. o \in Objects /\ WorkerOwns(w) /\ WorkerOrder(w)
  BY <1>1, NoRecoveryNow DEF JournalInv
<1>3. object'[o] = row /\ \A q \in Objects \ {o} : object'[q] = object[q]
  BY <1>2, UpdateFrame
<1>4. pc'[w] = l /\ \A v \in Workers \ {w} : pc'[v] = pc[v]
  BY GotoFrame
<1>5. WorkerFrame(w)
  BY <1>1, <1>3, <1>4 DEF WorkerFrame
<1>6. WorkerOwns(w)'
  BY <1>2, <1>4 DEF WorkerOwns
<1>7. WorkerOrder(w)'
  BY <1>2, <1>3, <1>4 DEF WorkerOrder, FlagOps, AbortPCs
<1>8. a \in Attempts /\ entry[a].obj = o
  BY <1>2 DEF WorkerOwns
<1>9. \A b \in Attempts : CoversAttempt(b)
  BY CoversParts DEF JournalInv
<1>10. CoversObject(o)'
  BY <1>2, <1>3, <1>8, <1>9 DEF CoversObject, CoversAttempt, WorkerOrder
<1>11. ASSUME NEW b \in Attempts PROVE CoversAttempt(b)'
  BY <1>9 DEF CoversAttempt
<1> QED
  BY <1>2, <1>5, <1>6, <1>7, <1>10, <1>11, FrameKeeps

\* The journal goes from an open phase to another.
LEMMA PhaseGoto ==
  ASSUME TypeInv, JournalInv, NEW w \in Workers, pc[w] \in ReclaimPCs,
         NEW l \in {"survive", "delete", "commit"},
         NEW to \in OpenPhases, phase[loc[w].att] \in OpenPhases,
         phase' = [phase EXCEPT ![loc[w].att] = to],
         UNCHANGED <<object, entry, resv, attempt, mode, rpc, rec, loc>>,
         Goto(w, l)
  PROVE  JournalInv'
<1> DEFINE o == loc[w].obj
           a == loc[w].att
<1>1. pc[w] \notin {"idle", "recover"}
  BY DEF ReclaimPCs, CommitPCs, AbortPCs
<1>2. o \in Objects /\ a \in Attempts /\ WorkerOwns(w) /\ WorkerOrder(w)
  BY <1>1, NoRecoveryNow DEF JournalInv, WorkerOwns
<1>3. phase'[a] = to /\ \A b \in Attempts \ {a} : phase'[b] = phase[b]
  BY <1>2 DEF TypeInv, TypeOK, JournalTypeOK
<1>4. pc'[w] = l /\ \A v \in Workers \ {w} : pc'[v] = pc[v]
  BY GotoFrame
<1>5. to # "NONE" /\ phase[a] # "NONE"
  BY DEF OpenPhases
<1>6. WorkerFrame(w)
  BY <1>1, <1>3, <1>4, <1>5 DEF WorkerFrame
<1>7. WorkerOwns(w)'
  BY <1>2, <1>3, <1>4, <1>5 DEF WorkerOwns
<1>8. WorkerOrder(w)'
  BY <1>2, <1>4 DEF WorkerOrder, FlagOps
<1>9. ASSUME NEW q \in Objects PROVE CoversObject(q)'
  BY <1>3, CoversParts DEF JournalInv, CoversObject
<1>10. ASSUME NEW b \in Attempts PROVE CoversAttempt(b)'
  BY <1>3, CoversParts DEF JournalInv, CoversAttempt
<1> QED
  BY <1>2, <1>6, <1>7, <1>8, <1>9, <1>10, FrameKeeps

\* The reservation is closed after the object left RECLAIM_PENDING.
LEMMA CloseReservationKeeps ==
  ASSUME TypeInv, JournalInv, NEW w \in Workers,
         NEW from \in {"cmt_resv", "abort_resv"}, NEW status, status # "OPEN",
         NEW next \in {"cmt_att", "abort_att"},
         CloseReservation(w, from, status, next)
  PROVE  JournalInv'
<1> DEFINE o == loc[w].obj
           a == loc[w].att
<1>1. pc[w] \in ReclaimPCs /\ pc[w] \notin {"idle", "recover"}
  BY DEF CloseReservation, ReclaimPCs, CommitPCs, AbortPCs
<1>2. o \in Objects /\ a \in Attempts /\ WorkerOwns(w) /\ WorkerOrder(w)
  BY <1>1, NoRecoveryNow DEF JournalInv, WorkerOwns
<1>3. /\ UNCHANGED <<object, phase, entry, attempt, mode, rpc, rec, loc>>
      /\ pc[w] = from /\ Goto(w, next) /\ resv' = [resv EXCEPT ![a] = status]
  BY DEF CloseReservation, storeVars, procVars, recVars
<1>4. resv'[a] = status /\ \A b \in Attempts \ {a} : resv'[b] = resv[b]
  BY <1>2, <1>3 DEF TypeInv, TypeOK, JournalTypeOK
<1>5. pc'[w] = next /\ \A v \in Workers \ {w} : pc'[v] = pc[v]
  BY <1>3, GotoFrame
<1>6. WorkerFrame(w)
  BY <1>1, <1>3, <1>4, <1>5 DEF WorkerFrame
<1>7. WorkerOwns(w)'
  BY <1>2, <1>3, <1>5 DEF WorkerOwns
<1>8. WorkerOrder(w)'
  BY <1>1, <1>2, <1>3, <1>4, <1>5 DEF WorkerOrder, FlagOps
<1>9. object[o].state # "RECLAIM_PENDING"
  BY <1>2, <1>3 DEF WorkerOrder
<1>10. ASSUME NEW q, q = o PROVE CoversObject(q)'
  BY <1>3, <1>9, <1>10 DEF CoversObject
<1>11. ASSUME NEW b \in Attempts PROVE CoversAttempt(b)'
  BY <1>3, <1>4, CoversParts DEF JournalInv, CoversAttempt
<1> QED
  BY <1>2, <1>6, <1>7, <1>8, <1>10, <1>11, FrameKeeps

\* The attempt is closed after the reservation.
LEMMA CloseAttemptKeeps ==
  ASSUME TypeInv, JournalInv, NEW w \in Workers,
         NEW from \in {"cmt_att", "abort_att"}, NEW status, status # "OPEN",
         NEW next \in {"cmt_jrnl", "abort_jrnl"},
         CloseAttempt(w, from, status, next)
  PROVE  JournalInv'
<1> DEFINE o == loc[w].obj
           a == loc[w].att
<1>1. pc[w] \in ReclaimPCs /\ pc[w] \notin {"idle", "recover"}
  BY DEF CloseAttempt, ReclaimPCs, CommitPCs, AbortPCs
<1>2. o \in Objects /\ a \in Attempts /\ WorkerOwns(w) /\ WorkerOrder(w)
  BY <1>1, NoRecoveryNow DEF JournalInv, WorkerOwns
<1>3. /\ UNCHANGED <<object, phase, entry, resv, mode, rpc, rec, loc>>
      /\ pc[w] = from /\ Goto(w, next)
      /\ attempt' = [attempt EXCEPT ![a] = status]
  BY DEF CloseAttempt, storeVars, procVars, recVars
<1>4. attempt'[a] = status /\ \A b \in Attempts \ {a} : attempt'[b] = attempt[b]
  BY <1>2, <1>3 DEF TypeInv, TypeOK, JournalTypeOK
<1>5. pc'[w] = next /\ \A v \in Workers \ {w} : pc'[v] = pc[v]
  BY <1>3, GotoFrame
<1>6. WorkerFrame(w)
  BY <1>1, <1>3, <1>4, <1>5 DEF WorkerFrame
<1>7. WorkerOwns(w)'
  BY <1>2, <1>3, <1>5 DEF WorkerOwns
<1>8. WorkerOrder(w)'
  BY <1>1, <1>2, <1>3, <1>4, <1>5 DEF WorkerOrder, FlagOps
<1>9. ASSUME NEW q \in Objects PROVE CoversObject(q)'
  BY <1>3, CoversParts DEF JournalInv, CoversObject
<1>10. ASSUME NEW b \in Attempts PROVE CoversAttempt(b)'
  BY <1>3, <1>4, CoversParts DEF JournalInv, CoversAttempt
<1> QED
  BY <1>2, <1>6, <1>7, <1>8, <1>9, <1>10, FrameKeeps

\* The journal is closed last.
LEMMA CloseJournalKeeps ==
  ASSUME TypeInv, JournalInv, NEW w \in Workers,
         NEW from \in {"cmt_jrnl", "abort_jrnl"},
         NEW status \in {"COMMITTED", "ROLLED_BACK"},
         CloseJournal(w, from, status)
  PROVE  JournalInv'
<1> DEFINE o == loc[w].obj
           a == loc[w].att
<1>1. pc[w] \in ReclaimPCs /\ pc[w] \notin {"idle", "recover"}
  BY DEF CloseJournal, ReclaimPCs, CommitPCs, AbortPCs
<1>2. o \in Objects /\ a \in Attempts /\ WorkerOwns(w) /\ WorkerOrder(w)
  BY <1>1, NoRecoveryNow DEF JournalInv, WorkerOwns
<1>3. /\ UNCHANGED <<object, entry, resv, attempt, mode, rpc, rec>>
      /\ pc[w] = from /\ Return(w) /\ phase' = [phase EXCEPT ![a] = status]
  BY DEF CloseJournal, UpdateJournalPhase, storeVars, procVars, recVars
<1>4. phase'[a] = status /\ \A b \in Attempts \ {a} : phase'[b] = phase[b]
  BY <1>2, <1>3 DEF TypeInv, TypeOK, JournalTypeOK
<1>5. resv[a] # "OPEN" /\ attempt[a] # "OPEN" /\ phase[a] # "NONE"
  BY <1>2, <1>3 DEF WorkerOrder, WorkerOwns
<1>6. WorkerFrame(w)
  BY <1>1, <1>3, <1>4, <1>5, ReturnOwns DEF WorkerFrame
<1>7. ASSUME NEW q \in Objects PROVE CoversObject(q)'
  BY <1>3, <1>4, <1>5, CoversParts DEF JournalInv, CoversObject
<1>8. ASSUME NEW b \in Attempts PROVE CoversAttempt(b)'
  BY <1>3, <1>4, <1>5, CoversParts DEF JournalInv, CoversAttempt
<1> QED
  BY <1>2, <1>3, <1>6, <1>7, <1>8, ReturnOwns, FrameKeeps

\* A registration or its compensation goes on.
LEMMA CreateKeeps ==
  ASSUME TypeInv, JournalInv, NEW w \in Workers, CreateStep(w)
  PROVE  JournalInv'
<1>1. CASE CreateLock(w)
  <2> DEFINE r == [loc[w] EXCEPT !.held = loc[w].todo]
  <2>1. Untouched /\ pc[w] \notin {"idle", "recover"} /\ SetLocals(w, r)
    BY <1>1
    DEF CreateLock, Untouched, storeVars, journalVars, procVars, recVars
  <2>2. Kept(loc[w], r)
    BY LocalsFields DEF Locals, Kept
  <2> QED
    BY <1>1, <2>1, <2>2, QuietSets, QuietLocals DEF CreateLock, CreatePCs
<1>2. CASE CreateLockFails(w)
  <2>1. Untouched /\ pc[w] \notin {"idle", "recover"}
    BY <1>2
    DEF CreateLockFails, Untouched, storeVars, journalVars, procVars, recVars
  <2> QED
    BY <1>2, <2>1, QuietReturn DEF CreateLockFails
<1>3. ASSUME NEW p \in Payloads, CreateAcquire(w, p)
      PROVE  JournalInv'
  <2> DEFINE r == [loc[w] EXCEPT !.cur = p]
  <2>1. Untouched /\ pc[w] \notin {"idle", "recover"} /\ SetLocals(w, r)
    BY <1>3
    DEF CreateAcquire, Untouched, storeVars, journalVars, procVars, recVars
  <2>2. Kept(loc[w], r)
    BY LocalsFields DEF Locals, Kept
  <2> QED
    BY <1>3, <2>1, <2>2, QuietSets, QuietLocals DEF CreateAcquire, CreatePCs
<1>4. ASSUME NEW p \in Payloads, CreateRefuse(w, p)
      PROVE  JournalInv'
  <2>1. Untouched /\ pc[w] \notin {"idle", "recover"}
    BY <1>4
    DEF CreateRefuse, Untouched, storeVars, journalVars, procVars, recVars
  <2> QED
    BY <1>4, <2>1, QuietSets, QuietGoto DEF CreateRefuse, CreatePCs
<1>5. ASSUME NEW p \in Payloads, CreateMiss(w, p)
      PROVE  JournalInv'
  <2> DEFINE r == [loc[w] EXCEPT !.cur = p]
  <2>1. Untouched /\ pc[w] \notin {"idle", "recover"} /\ SetLocals(w, r)
    BY <1>5
    DEF CreateMiss, Untouched, storeVars, journalVars, procVars, recVars
  <2>2. Kept(loc[w], r)
    BY LocalsFields DEF Locals, Kept
  <2> QED
    BY <1>5, <2>1, <2>2, QuietSets, QuietLocals DEF CreateMiss, CreatePCs
<1>6. CASE CreateWrite(w)
  <2>1. Untouched /\ pc[w] \notin {"idle", "recover"}
    BY <1>6
    DEF CreateWrite, Untouched, storeVars, journalVars, procVars, recVars
  <2> QED
    BY <1>6, <2>1, QuietSets, QuietGoto DEF CreateWrite, CreatePCs
<1>7. CASE CreateInsert(w)
  <2>1. Untouched /\ pc[w] \notin {"idle", "recover"}
    BY <1>7
    DEF CreateInsert, Untouched, storeVars, journalVars, procVars, recVars
  <2> QED
    BY <1>7, <2>1, QuietSets, QuietGoto DEF CreateInsert, CreatePCs
<1>8. CASE CreateRow(w)
  <2> DEFINE r == [loc[w] EXCEPT !.todo = @ \ {loc[w].cur},
                                    !.done = @ \cup {loc[w].cur}, !.cur = None,
                   !.held = IF loc[w].todo \ {loc[w].cur} = {} THEN {} ELSE @]
  <2>1. Untouched /\ pc[w] \notin {"idle", "recover"} /\ SetLocals(w, r)
    BY <1>8
    DEF CreateRow, Untouched, storeVars, journalVars, procVars, recVars
  <2>2. Kept(loc[w], r)
    BY LocalsFields DEF Locals, Kept
  <2> QED
    BY <1>8, <2>1, <2>2, QuietSets, QuietLocals DEF CreateRow, CreatePCs
<1>9. CASE Publish(w)
  <2> DEFINE row == [state |-> IF Targets[loc[w].obj] = {} THEN "CREATED" ELSE "HOT",
                     flags |-> {}]
  <2>1. /\ UNCHANGED <<phase, entry, resv, attempt, mode, rpc, rec>>
        /\ pc[w] \notin {"idle", "recover"} /\ Return(w)
        /\ UpdateObject(loc[w].obj, row)
    BY <1>9 DEF Publish, UpdateObject, journalVars, procVars, recVars
  <2>2. row.state # "RECLAIM_PENDING"
    OBVIOUS
  <2> QED
    BY <2>1, <2>2, ObjectReturn
<1>10. CASE CreateUnref(w)
  <2>1. Untouched /\ pc[w] \notin {"idle", "recover"}
    BY <1>10
    DEF CreateUnref, Untouched, storeVars, journalVars, procVars, recVars
  <2> QED
    BY <1>10, <2>1, QuietSets, QuietGoto DEF CreateUnref, CreatePCs
<1>11. CASE CreateUnblob(w)
  <2>1. Untouched /\ pc[w] \notin {"idle", "recover"}
    BY <1>11
    DEF CreateUnblob, Untouched, storeVars, journalVars, procVars, recVars
  <2> QED
    BY <1>11, <2>1, QuietSets, QuietGoto DEF CreateUnblob, CreatePCs
<1>12. CASE UndoLock(w)
  <2> DEFINE r == [loc[w] EXCEPT !.held = loc[w].done]
  <2>1. Untouched /\ pc[w] \notin {"idle", "recover"} /\ SetLocals(w, r)
    BY <1>12
    DEF UndoLock, Untouched, storeVars, journalVars, procVars, recVars
  <2>2. Kept(loc[w], r)
    BY LocalsFields DEF Locals, Kept
  <2> QED
    BY <1>12, <2>1, <2>2, QuietSets, QuietLocals DEF UndoLock, CreatePCs
<1>13. CASE UndoLockFails(w)
  <2>1. Untouched /\ pc[w] \notin {"idle", "recover"}
    BY <1>13
    DEF UndoLockFails, Untouched, storeVars, journalVars, procVars, recVars
  <2> QED
    BY <1>13, <2>1, QuietReturn DEF UndoLockFails
<1>14. CASE UndoEnter(w)
  <2> DEFINE r == [loc[w] EXCEPT !.todo = {}]
  <2>1. Untouched /\ pc[w] \notin {"idle", "recover"} /\ SetLocals(w, r)
    BY <1>14
    DEF UndoEnter, Untouched, storeVars, journalVars, procVars, recVars
  <2>2. Kept(loc[w], r)
    BY LocalsFields DEF Locals, Kept
  <2> QED
    BY <1>14, <2>1, <2>2, QuietSets, QuietLocals DEF UndoEnter, CreatePCs
<1>15. ASSUME NEW p \in Payloads, UndoRow(w, p)
      PROVE  JournalInv'
  <2> DEFINE r == [loc[w] EXCEPT !.done = @ \ {p}, !.cur = p]
  <2>1. Untouched /\ pc[w] \notin {"idle", "recover"} /\ SetLocals(w, r)
    BY <1>15 DEF UndoRow, Untouched, storeVars, journalVars, procVars, recVars
  <2>2. Kept(loc[w], r)
    BY LocalsFields DEF Locals, Kept
  <2> QED
    BY <1>15, <2>1, <2>2, QuietSets, QuietLocals DEF UndoRow, CreatePCs
<1>16. CASE UndoRelease(w)
  <2> DEFINE r == [loc[w] EXCEPT !.cur = None,
                   !.todo = IF dedup[loc[w].cur] = 1 THEN @ \cup {loc[w].cur} ELSE @]
  <2>1. Untouched /\ pc[w] \notin {"idle", "recover"} /\ SetLocals(w, r)
    BY <1>16
    DEF UndoRelease, Untouched, storeVars, journalVars, procVars, recVars
  <2>2. Kept(loc[w], r)
    BY LocalsFields DEF Locals, Kept
  <2> QED
    BY <1>16, <2>1, <2>2, QuietSets, QuietLocals DEF UndoRelease, CreatePCs
<1>17. CASE UndoLeave(w)
  <2>1. Untouched /\ pc[w] \notin {"idle", "recover"}
    BY <1>17
    DEF UndoLeave, Untouched, storeVars, journalVars, procVars, recVars
  <2> QED
    BY <1>17, <2>1, QuietSets, QuietGoto DEF UndoLeave, CreatePCs
<1>18. ASSUME NEW p \in Payloads, UndoBlob(w, p)
      PROVE  JournalInv'
  <2> DEFINE r == [loc[w] EXCEPT !.todo = @ \ {p}]
  <2>1. Untouched /\ pc[w] \notin {"idle", "recover"} /\ SetLocals(w, r)
    BY <1>18
    DEF UndoBlob, Untouched, storeVars, journalVars, procVars, recVars
  <2>2. Kept(loc[w], r)
    BY LocalsFields DEF Locals, Kept
  <2> QED
    BY <1>18, <2>1, <2>2, QuietSets, QuietStay DEF UndoBlob, CreatePCs
<1>19. CASE UndoReturn(w)
  <2>1. Untouched /\ pc[w] \notin {"idle", "recover"}
    BY <1>19
    DEF UndoReturn, Untouched, storeVars, journalVars, procVars, recVars
  <2> QED
    BY <1>19, <2>1, QuietReturn DEF UndoReturn
<1> QED
  BY <1>1, <1>2, <1>3, <1>4, <1>5, <1>6, <1>7, <1>8, <1>9, <1>10, <1>11,
     <1>12, <1>13, <1>14, <1>15, <1>16, <1>17, <1>18, <1>19
  DEF CreateStep

\* A verification goes on.
LEMMA VerifyKeeps ==
  ASSUME TypeInv, JournalInv, NEW w \in Workers, VerifyStep(w)
  PROVE  JournalInv'
<1>1. CASE VerifyLock(w)
  <2> DEFINE r == [loc[w] EXCEPT !.held = loc[w].todo]
  <2>1. Untouched /\ pc[w] \notin {"idle", "recover"} /\ SetLocals(w, r)
    BY <1>1
    DEF VerifyLock, Untouched, storeVars, journalVars, procVars, recVars
  <2>2. Kept(loc[w], r)
    BY LocalsFields DEF Locals, Kept
  <2> QED
    BY <1>1, <2>1, <2>2, QuietSets, QuietLocals DEF VerifyLock, VerifyPCs
<1>2. CASE VerifyLockFails(w)
  <2>1. Untouched /\ pc[w] \notin {"idle", "recover"}
    BY <1>2
    DEF VerifyLockFails, Untouched, storeVars, journalVars, procVars, recVars
  <2> QED
    BY <1>2, <2>1, QuietReturn DEF VerifyLockFails
<1>3. ASSUME NEW p \in Payloads, VerifyGood(w, p)
      PROVE  JournalInv'
  <2> DEFINE r == [loc[w] EXCEPT !.todo = @ \ {p}]
  <2>1. Untouched /\ pc[w] \notin {"idle", "recover"} /\ SetLocals(w, r)
    BY <1>3
    DEF VerifyGood, Untouched, storeVars, journalVars, procVars, recVars
  <2>2. Kept(loc[w], r)
    BY LocalsFields DEF Locals, Kept
  <2> QED
    BY <1>3, <2>1, <2>2, QuietSets, QuietStay DEF VerifyGood, VerifyPCs
<1>4. ASSUME NEW p \in Payloads, VerifyBad(w, p)
      PROVE  JournalInv'
  <2> DEFINE r == [loc[w] EXCEPT !.todo = @ \ {p}, !.cur = p]
  <2>1. Untouched /\ pc[w] \notin {"idle", "recover"} /\ SetLocals(w, r)
    BY <1>4
    DEF VerifyBad, Untouched, storeVars, journalVars, procVars, recVars
  <2>2. Kept(loc[w], r)
    BY LocalsFields DEF Locals, Kept
  <2> QED
    BY <1>4, <2>1, <2>2, QuietSets, QuietLocals DEF VerifyBad, VerifyPCs
<1>5. ASSUME NEW o \in Objects, VerifyInvalidate(w, o)
      PROVE  JournalInv'
    BY <1>5, Nothing
    DEF VerifyInvalidate, Untouched, storeVars, journalVars, procVars, recVars
<1>6. ASSUME NEW o \in Objects, VerifyInvalidateFails(w, o)
      PROVE  JournalInv'
  <2>1. Untouched /\ pc[w] \notin {"idle", "recover"}
    BY <1>6
    DEF VerifyInvalidateFails, Untouched, storeVars, journalVars, procVars,
        recVars
  <2> QED
    BY <1>6, <2>1, QuietReturn DEF VerifyInvalidateFails
<1>7. CASE VerifyInvalidated(w)
  <2> DEFINE r == [loc[w] EXCEPT !.cur = None]
  <2>1. Untouched /\ pc[w] \notin {"idle", "recover"} /\ SetLocals(w, r)
    BY <1>7
    DEF VerifyInvalidated, Untouched, storeVars, journalVars, procVars,
        recVars
  <2>2. Kept(loc[w], r)
    BY LocalsFields DEF Locals, Kept
  <2> QED
    BY <1>7, <2>1, <2>2, QuietSets, QuietLocals
    DEF VerifyInvalidated, VerifyPCs
<1>8. CASE VerifyReturn(w)
  <2>1. Untouched /\ pc[w] \notin {"idle", "recover"}
    BY <1>8
    DEF VerifyReturn, Untouched, storeVars, journalVars, procVars, recVars
  <2> QED
    BY <1>8, <2>1, QuietReturn DEF VerifyReturn
<1> QED
  BY <1>1, <1>2, <1>3, <1>4, <1>5, <1>6, <1>7, <1>8 DEF VerifyStep

\* An archival goes on.
LEMMA ArchiveKeeps ==
  ASSUME TypeInv, JournalInv, NEW w \in Workers, ArchiveStep(w)
  PROVE  JournalInv'
<1>1. CASE ArchiveWrite(w)
  <2>1. Untouched /\ pc[w] \notin {"idle", "recover"}
    BY <1>1
    DEF ArchiveWrite, Untouched, storeVars, journalVars, procVars, recVars
  <2> QED
    BY <1>1, <2>1, QuietSets, QuietGoto DEF ArchiveWrite, ArchivePCs
<1>2. CASE ArchiveInsert(w)
  <2>1. Untouched /\ pc[w] \notin {"idle", "recover"}
    BY <1>2
    DEF ArchiveInsert, Untouched, storeVars, journalVars, procVars, recVars
  <2> QED
    BY <1>2, <2>1, QuietSets, QuietGoto DEF ArchiveInsert, ArchivePCs
<1>3. CASE ArchivePublish(w)
  <2> DEFINE row == [loc[w].seen EXCEPT !.state = "ARCHIVED"]
  <2>1. /\ UNCHANGED <<phase, entry, resv, attempt, mode, rpc, rec>>
        /\ pc[w] \notin {"idle", "recover"} /\ Return(w)
        /\ UpdateObject(loc[w].obj, row)
    BY <1>3 DEF ArchivePublish, UpdateObject, journalVars, procVars, recVars
  <2>2. row.state # "RECLAIM_PENDING"
    BY LocalsFields DEF ObjectRow
  <2> QED
    BY <2>1, <2>2, ObjectReturn
<1>4. CASE ArchiveUnrow(w)
  <2>1. Untouched /\ pc[w] \notin {"idle", "recover"}
    BY <1>4
    DEF ArchiveUnrow, Untouched, storeVars, journalVars, procVars, recVars
  <2> QED
    BY <1>4, <2>1, QuietSets, QuietGoto DEF ArchiveUnrow, ArchivePCs
<1>5. CASE ArchiveUnblob(w)
  <2>1. Untouched /\ pc[w] \notin {"idle", "recover"}
    BY <1>5
    DEF ArchiveUnblob, Untouched, storeVars, journalVars, procVars, recVars
  <2> QED
    BY <1>5, <2>1, QuietReturn DEF ArchiveUnblob
<1> QED
  BY <1>1, <1>2, <1>3, <1>4, <1>5 DEF ArchiveStep

\* A reclaim goes on.
LEMMA ReclaimKeeps ==
  ASSUME TypeInv, JournalInv, NEW w \in Workers, ReclaimStep(w)
  PROVE  JournalInv'
<1>1. CASE ToRecomputable(w)
  <2> DEFINE row == [loc[w].seen EXCEPT !.state = "RECOMPUTABLE"]
  <2>1. /\ UNCHANGED <<phase, entry, resv, attempt, mode, rpc, rec, loc>>
        /\ UpdateObject(loc[w].obj, row) /\ Goto(w, "pending")
    BY <1>1 DEF ToRecomputable, Transition, journalVars, procVars, recVars
  <2>2. row.state = "RECOMPUTABLE"
    BY LocalsFields DEF ObjectRow
  <2> QED
    BY <1>1, <2>1, <2>2, ObjectGoto
    DEF ToRecomputable, Transition, ReclaimPCs, CommitPCs, AbortPCs
<1>2. CASE ToPending(w)
  <2> DEFINE row == [loc[w].seen EXCEPT !.state = "RECLAIM_PENDING"]
  <2>1. /\ UNCHANGED <<phase, entry, resv, attempt, mode, rpc, rec, loc>>
        /\ UpdateObject(loc[w].obj, row) /\ Goto(w, "validate")
    BY <1>2 DEF ToPending, Transition, journalVars, procVars, recVars
  <2>2. row.state = "RECLAIM_PENDING"
    BY LocalsFields DEF ObjectRow
  <2> QED
    BY <1>2, <2>1, <2>2, ObjectGoto
    DEF ToPending, Transition, ReclaimPCs, CommitPCs, AbortPCs
<1>3. CASE ReclaimValidated(w)
  <2>1. /\ UNCHANGED <<object, entry, resv, attempt, mode, rpc, rec, loc>>
        /\ phase[loc[w].att] \in OpenPhases /\ Goto(w, "survive")
        /\ phase' = [phase EXCEPT ![loc[w].att] = "VALIDATED"]
    BY <1>3 DEF ReclaimValidated, UpdateJournalPhase, PhasePrior, OpenPhases, storeVars, procVars,
       recVars
  <2> QED
    BY <1>3, <2>1, PhaseGoto DEF ReclaimValidated, OpenPhases, ReclaimPCs
<1>4. CASE Survive(w)
  <2>1. Untouched /\ pc[w] \notin {"idle", "recover"}
    BY <1>4 DEF Survive, Untouched, storeVars, journalVars, procVars, recVars
  <2> QED
    BY <1>4, <2>1, QuietSets, QuietGoto
    DEF Survive, ReclaimPCs, CommitPCs, AbortPCs, OrderedPCs, FlagOps
<1>5. CASE ReadGraph(w)
  <2> DEFINE r == [loc[w] EXCEPT !.kin = edges]
  <2>1. Untouched /\ pc[w] \notin {"idle", "recover"} /\ SetLocals(w, r)
    BY <1>5
    DEF ReadGraph, Untouched, storeVars, journalVars, procVars, recVars
  <2>2. Kept(loc[w], r)
    BY LocalsFields DEF Locals, Kept
  <2> QED
    BY <1>5, <2>1, <2>2, QuietSets, QuietLocals
    DEF ReadGraph, ReclaimPCs, CommitPCs, AbortPCs, OrderedPCs, FlagOps
<1>6. CASE CheckDependencies(w)
  <2> DEFINE r == [loc[w] EXCEPT !.kin = {}]
  <2>1. Untouched /\ pc[w] \notin {"idle", "recover"} /\ SetLocals(w, r)
    BY <1>6
    DEF CheckDependencies, Untouched, storeVars, journalVars, procVars,
        recVars
  <2>2. Kept(loc[w], r)
    BY LocalsFields DEF Locals, Kept
  <2> QED
    BY <1>6, <2>1, <2>2, QuietSets, QuietLocals
    DEF CheckDependencies, ReclaimPCs, CommitPCs, AbortPCs, OrderedPCs,
        FlagOps
<1>7. CASE ReclaimLock(w)
  <2> DEFINE r == [loc[w] EXCEPT !.held = loc[w].todo]
  <2>1. Untouched /\ pc[w] \notin {"idle", "recover"} /\ SetLocals(w, r)
    BY <1>7
    DEF ReclaimLock, Untouched, storeVars, journalVars, procVars, recVars
  <2>2. Kept(loc[w], r)
    BY LocalsFields DEF Locals, Kept
  <2> QED
    BY <1>7, <2>1, <2>2, QuietSets, QuietLocals
    DEF ReclaimLock, ReclaimPCs, CommitPCs, AbortPCs, OrderedPCs, FlagOps
<1>8. CASE ReclaimLockFails(w)
  <2>1. Untouched /\ pc[w] \notin {"idle", "recover"}
    BY <1>8
    DEF ReclaimLockFails, Untouched, storeVars, journalVars, procVars, recVars
  <2> QED
    BY <1>8, <2>1, QuietSets, QuietGoto
    DEF ReclaimLockFails, ReclaimPCs, CommitPCs, AbortPCs, OrderedPCs, FlagOps
<1>9. CASE PlanDeletions(w)
  <2> DEFINE r == [loc[w] EXCEPT !.todo = LastReferences(loc[w].todo)]
  <2>1. Untouched /\ pc[w] = "plan"
    BY <1>9 DEF PlanDeletions, Untouched, storeVars, journalVars, procVars,
       recVars
  <2>2. (Goto(w, "start") /\ SetLocals(w, r)) \/ Return(w)
    BY <1>9 DEF PlanDeletions
  <2>3. Kept(loc[w], r)
    BY LocalsFields DEF Locals, Kept
  <2> QED
    BY <2>1, <2>2, <2>3, QuietSets, QuietLocals, QuietReturn
    DEF ReclaimPCs, OrderedPCs, AbortPCs, FlagOps
<1>10. CASE StartPhysical(w)
  <2>1. /\ UNCHANGED <<object, entry, resv, attempt, mode, rpc, rec, loc>>
        /\ phase[loc[w].att] \in OpenPhases /\ Goto(w, "delete")
        /\ phase' = [phase EXCEPT ![loc[w].att] = "PHYSICAL_STARTED"]
    BY <1>10 DEF StartPhysical, OpenPhases, storeVars, procVars,
       recVars
  <2> QED
    BY <1>10, <2>1, PhaseGoto DEF StartPhysical, OpenPhases, ReclaimPCs
<1>11. ASSUME NEW p \in Payloads, DeletePayload(w, p)
      PROVE  JournalInv'
  <2> DEFINE r == [loc[w] EXCEPT !.todo = @ \ {p}]
  <2>1. Untouched /\ pc[w] \notin {"idle", "recover"} /\ SetLocals(w, r)
    BY <1>11
    DEF DeletePayload, Untouched, storeVars, journalVars, procVars, recVars
  <2>2. Kept(loc[w], r)
    BY LocalsFields DEF Locals, Kept
  <2> QED
    BY <1>11, <2>1, <2>2, QuietSets, QuietStay
    DEF DeletePayload, ReclaimPCs, CommitPCs, AbortPCs, OrderedPCs, FlagOps
<1>12. CASE DeletedAll(w)
  <2>1. Untouched /\ pc[w] \notin {"idle", "recover"}
    BY <1>12
    DEF DeletedAll, Untouched, storeVars, journalVars, procVars, recVars
  <2> QED
    BY <1>12, <2>1, QuietSets, QuietGoto
    DEF DeletedAll, ReclaimPCs, CommitPCs, AbortPCs, OrderedPCs, FlagOps
<1>13. CASE DeleteArchive(w)
  <2>1. Untouched /\ pc[w] \notin {"idle", "recover"}
    BY <1>13
    DEF DeleteArchive, Untouched, storeVars, journalVars, procVars, recVars
  <2> QED
    BY <1>13, <2>1, QuietSets, QuietGoto
    DEF DeleteArchive, ReclaimPCs, CommitPCs, AbortPCs, OrderedPCs, FlagOps
<1>14. CASE ArchiveMissing(w)
  <2>1. Untouched /\ pc[w] \notin {"idle", "recover"}
    BY <1>14
    DEF ArchiveMissing, Untouched, storeVars, journalVars, procVars, recVars
  <2> QED
    BY <1>14, <2>1, QuietReturn DEF ArchiveMissing
<1>15. CASE CheckDeleted(w)
  <2>1. Untouched /\ pc[w] \notin {"idle", "recover"}
    BY <1>15
    DEF CheckDeleted, Untouched, storeVars, journalVars, procVars, recVars
  <2> QED
    BY <1>15, <2>1, QuietSets, QuietGoto
    DEF CheckDeleted, ReclaimPCs, CommitPCs, AbortPCs, OrderedPCs, FlagOps
<1>16. CASE PhysicalDone(w)
  <2>1. /\ UNCHANGED <<object, entry, resv, attempt, mode, rpc, rec, loc>>
        /\ phase[loc[w].att] \in OpenPhases /\ Goto(w, "commit")
        /\ phase' = [phase EXCEPT ![loc[w].att] = "PHYSICAL_DONE"]
    BY <1>16 DEF PhysicalDone, UpdateJournalPhase, PhasePrior, OpenPhases, storeVars, procVars,
       recVars
  <2> QED
    BY <1>16, <2>1, PhaseGoto DEF PhysicalDone, OpenPhases, ReclaimPCs
<1>17. CASE CommitEnter(w)
  <2> DEFINE r == [loc[w] EXCEPT !.todo = EntryRows(loc[w].att)]
  <2>1. Untouched /\ pc[w] \notin {"idle", "recover"} /\ SetLocals(w, r)
    BY <1>17
    DEF CommitEnter, Untouched, storeVars, journalVars, procVars, recVars
  <2>2. Kept(loc[w], r)
    BY LocalsFields DEF Locals, Kept
  <2> QED
    BY <1>17, <2>1, <2>2, QuietSets, QuietLocals
    DEF CommitEnter, ReclaimPCs, CommitPCs, AbortPCs, OrderedPCs, FlagOps
<1>18. ASSUME NEW p \in Payloads, CommitRow(w, p)
      PROVE  JournalInv'
  <2> DEFINE r == [loc[w] EXCEPT !.todo = @ \ {p}, !.cur = p]
  <2>1. Untouched /\ pc[w] \notin {"idle", "recover"} /\ SetLocals(w, r)
    BY <1>18
    DEF CommitRow, Untouched, storeVars, journalVars, procVars, recVars
  <2>2. Kept(loc[w], r)
    BY LocalsFields DEF Locals, Kept
  <2> QED
    BY <1>18, <2>1, <2>2, QuietSets, QuietLocals
    DEF CommitRow, ReclaimPCs, CommitPCs, AbortPCs, OrderedPCs, FlagOps
<1>19. CASE CommitRelease(w)
  <2> DEFINE r == [loc[w] EXCEPT !.cur = None]
  <2>1. Untouched /\ pc[w] \notin {"idle", "recover"} /\ SetLocals(w, r)
    BY <1>19
    DEF CommitRelease, Untouched, storeVars, journalVars, procVars, recVars
  <2>2. Kept(loc[w], r)
    BY LocalsFields DEF Locals, Kept
  <2> QED
    BY <1>19, <2>1, <2>2, QuietSets, QuietLocals
    DEF CommitRelease, ReclaimPCs, CommitPCs, AbortPCs, OrderedPCs, FlagOps
<1>20. CASE CommitRowsDone(w)
  <2>1. Untouched /\ pc[w] \notin {"idle", "recover"}
    BY <1>20
    DEF CommitRowsDone, Untouched, storeVars, journalVars, procVars, recVars
  <2> QED
    BY <1>20, <2>1, QuietSets, QuietGoto
    DEF CommitRowsDone, ReclaimPCs, CommitPCs, AbortPCs, OrderedPCs, FlagOps
<1>21. CASE CommitArchive(w)
  <2>1. Untouched /\ pc[w] \notin {"idle", "recover"}
    BY <1>21
    DEF CommitArchive, Untouched, storeVars, journalVars, procVars, recVars
  <2> QED
    BY <1>21, <2>1, QuietSets, QuietGoto
    DEF CommitArchive, ReclaimPCs, CommitPCs, AbortPCs, OrderedPCs, FlagOps
<1>22. CASE CommitObject(w)
  <2> DEFINE row == [loc[w].seen EXCEPT !.state = "RECLAIMED"]
  <2>1. /\ UNCHANGED <<phase, entry, resv, attempt, mode, rpc, rec, loc>>
        /\ UpdateObject(loc[w].obj, row) /\ Goto(w, "cmt_resv")
    BY <1>22 DEF CommitObject, journalVars, procVars, recVars
  <2>2. row.state = "RECLAIMED"
    BY LocalsFields DEF ObjectRow
  <2> QED
    BY <1>22, <2>1, <2>2, ObjectGoto
    DEF CommitObject, ReclaimPCs, CommitPCs, AbortPCs
<1>23. CASE CommitReservation(w)
  BY <1>23, CloseReservationKeeps DEF CommitReservation
<1>24. CASE CommitAttempt(w)
  BY <1>24, CloseAttemptKeeps DEF CommitAttempt
<1>25. CASE CommitJournal(w)
  BY <1>25, CloseJournalKeeps DEF CommitJournal
<1>26. CASE Indeterminate(w)
  <2>1. Untouched /\ pc[w] \notin {"idle", "recover"}
    BY <1>26
    DEF Indeterminate, Untouched, storeVars, journalVars, procVars, recVars
  <2> QED
    BY <1>26, <2>1, QuietReturn DEF Indeterminate
<1>27. CASE AbortObject(w)
  <2> DEFINE row == loc[w].seen
  <2>1. /\ UNCHANGED <<phase, entry, resv, attempt, mode, rpc, rec, loc>>
        /\ UpdateObject(loc[w].obj, row) /\ Goto(w, "abort_resv")
    BY <1>27 DEF AbortObject, journalVars, procVars, recVars
  <2>2. row.state # "RECLAIM_PENDING"
    BY <1>27 DEF AbortObject, JournalInv, WorkerOrder, ReclaimPCs
  <2> QED
    BY <1>27, <2>1, <2>2, ObjectGoto
    DEF AbortObject, ReclaimPCs, CommitPCs, AbortPCs
<1>28. CASE AbortReservation(w)
  BY <1>28, CloseReservationKeeps DEF AbortReservation
<1>29. CASE AbortAttempt(w)
  BY <1>29, CloseAttemptKeeps DEF AbortAttempt
<1>30. CASE AbortJournal(w)
  BY <1>30, CloseJournalKeeps DEF AbortJournal
<1> QED
  BY <1>1, <1>2, <1>3, <1>4, <1>5, <1>6, <1>7, <1>8, <1>9, <1>10, <1>11,
     <1>12, <1>13, <1>14, <1>15, <1>16, <1>17, <1>18, <1>19, <1>20, <1>21,
     <1>22, <1>23, <1>24, <1>25, <1>26, <1>27, <1>28, <1>29, <1>30
  DEF ReclaimStep

\* A step of a request fails.
LEMMA ErrorTargets ==
  ASSUME NEW w \in Workers
  PROVE  \/ ErrorTarget(w) = "idle"
         \/ ErrorTarget(w) \in CreatePCs \cup ArchivePCs
         \/ ErrorTarget(w) \in {"abort", "fence"} /\ pc[w] \in ReclaimPCs
<1> DEFINE Undone == {"idle", "undo", "undo_lock", "create_unref",
                      "create_unblob", "arc_unrow", "arc_unblob"}
           Aborting == {"survive", "graph", "deps", "start"}
           Fencing == {"delete", "check", "done", "commit"} \cup CommitPCs
<1>1. CASE pc[w] \notin Aborting /\ pc[w] \notin Fencing
  <2>1. ErrorTarget(w) \in Undone
    BY <1>1, Zenon DEF ErrorTarget
  <2> QED
    BY <2>1 DEF CreatePCs, ArchivePCs
<1>2. CASE pc[w] \in Aborting \cup Fencing
  <2>1. ErrorTarget(w) \in Undone \cup {"abort", "fence"}
    BY Zenon DEF ErrorTarget
  <2> QED
    BY <1>2, <2>1 DEF CreatePCs, ArchivePCs, ReclaimPCs
<1> QED
  BY <1>1, <1>2

LEMMA StepFailsKeeps ==
  ASSUME TypeInv, JournalInv, NEW w \in Workers, Untouched,
         pc[w] \notin {"idle", "recover"}, StepFails(w)
  PROVE  JournalInv'
<1>1. CASE ErrorTarget(w) = "idle"
  BY <1>1, QuietReturn DEF StepFails
<1>2. CASE ErrorTarget(w) # "idle"
  <2>1. Goto(w, ErrorTarget(w)) /\ UNCHANGED loc
    BY <1>2 DEF StepFails
  <2>2. {"abort", "fence"} \subseteq ReclaimPCs \ OrderedPCs
    BY DEF ReclaimPCs, OrderedPCs, AbortPCs, FlagOps
  <2> QED
    BY <1>2, <2>1, <2>2, ErrorTargets, QuietSets, QuietGoto
<1> QED
  BY <1>1, <1>2

LEMMA WorkerFaultKeeps ==
  ASSUME TypeInv, JournalInv, NEW w \in Workers, WorkerFault(w)
  PROVE  JournalInv'
<1>1. CASE StatementError(w)
  <2>1. Untouched
    BY <1>1 DEF StatementError, Untouched, storeVars, journalVars, procVars,
       recVars
  <2>2. pc[w] \notin {"idle", "recover"}
    BY <1>1 DEF StatementError, CallsStore, EnteringPCs, ClosurePCs, CommitPCs,
       AbortPCs
  <2> QED
    BY <1>1, <2>1, <2>2, StepFailsKeeps DEF StatementError
<1>2. CASE EntryHeartbeatError(w)
  <2>1. Untouched
    BY <1>2 DEF EntryHeartbeatError, Untouched, storeVars, journalVars, recVars
  <2>2. pc[w] \notin {"idle", "recover"}
    BY <1>2 DEF EntryHeartbeatError, CallsStore, EnteringPCs
  <2> QED
    BY <1>2, <2>1, <2>2, StepFailsKeeps DEF EntryHeartbeatError
<1>3. CASE WriteError(w)
  <2>1. Untouched
    BY <1>3 DEF WriteError, Untouched, storeVars, journalVars, procVars, recVars
  <2> QED
    BY <1>3, <2>1, QuietSets, QuietGoto DEF WriteError, CreatePCs
<1>4. CASE ReadError(w)
  <2>1. Untouched /\ UNCHANGED loc
    BY <1>4 DEF ReadError, Untouched, storeVars, journalVars, procVars, recVars
  <2>2. \/ pc[w] = "create_ref" /\ Goto(w, "undo")
        \/ pc[w] = "check" /\ Goto(w, "fence")
    BY <1>4 DEF ReadError
  <2> QED
    BY <2>1, <2>2, QuietSets, QuietGoto
    DEF CreatePCs, ReclaimPCs, OrderedPCs, AbortPCs, FlagOps
<1>5. CASE ArchiveError(w)
  <2>1. Untouched
    BY <1>5 DEF ArchiveError, Untouched, storeVars, journalVars, procVars, recVars
  <2>2. \/ pc[w] = "arch" /\ Goto(w, "fence") /\ UNCHANGED loc
        \/ pc[w] \notin {"idle", "recover"} /\ Return(w)
    BY <1>5 DEF ArchiveError
  <2> QED
    BY <2>1, <2>2, QuietSets, QuietGoto, QuietReturn
    DEF ReclaimPCs, OrderedPCs, AbortPCs, FlagOps
<1>6. ASSUME NEW p \in Payloads, DeleteError(w, p) PROVE JournalInv'
  <2>1. Untouched
    BY <1>6 DEF DeleteError, Untouched, storeVars, journalVars, procVars, recVars
  <2>2. \/ pc[w] = "create_unblob" /\ Goto(w, "undo") /\ UNCHANGED loc
        \/ pc[w] = "delete" /\ Goto(w, "fence") /\ UNCHANGED loc
        \/ pc[w] = "undo_blob" /\ Return(w)
    BY <1>6, Zenon DEF DeleteError
  <2> QED
    BY <2>1, <2>2, QuietSets, QuietGoto, QuietReturn
    DEF CreatePCs, ReclaimPCs, OrderedPCs, AbortPCs, FlagOps
<1>7. ASSUME NEW p \in Payloads, VerifyReadError(w, p) PROVE JournalInv'
  <2> DEFINE r == [loc[w] EXCEPT !.todo = @ \ {p}, !.cur = p]
  <2>1. Untouched /\ SetLocals(w, r)
    BY <1>7 DEF VerifyReadError, Untouched, storeVars, journalVars, procVars,
       recVars
  <2>2. Kept(loc[w], r)
    BY LocalsFields DEF Locals, Kept
  <2> QED
    BY <1>7, <2>1, <2>2, QuietSets, QuietLocals DEF VerifyReadError, VerifyPCs
<1> QED
  BY <1>1, <1>2, <1>3, <1>4, <1>5, <1>6, <1>7 DEF WorkerFault

LEMMA WorkerStepKeeps ==
  ASSUME TypeInv, JournalInv, NEW w \in Workers, WorkerStep(w)
  PROVE  JournalInv'
<1>1. CASE FlagWrite(w)
  <2> DEFINE row == [loc[w].seen EXCEPT !.flags = FlagResult(pc[w], @)]
  <2>1. /\ UNCHANGED <<phase, entry, resv, attempt, mode, rpc, rec>>
        /\ pc[w] \in FlagOps /\ Return(w) /\ UpdateObject(loc[w].obj, row)
    BY <1>1 DEF FlagWrite, journalVars, procVars, recVars
  <2>2. row.state = loc[w].seen.state
    BY LocalsFields DEF ObjectRow
  <2>3. loc[w].seen.state = object[loc[w].obj].state
    BY <2>1 DEF JournalInv, WorkerOrder
  <2>4. pc[w] \notin {"idle", "recover"}
    BY <2>1 DEF FlagOps
  <2> QED
    BY <2>1, <2>2, <2>3, <2>4, ObjectReturn
<1>2. CASE AuthorityError(w)
  <2>1. Untouched
    BY <1>2 DEF AuthorityError, Untouched, storeVars, journalVars, procVars,
       recVars
  <2>2. pc[w] \notin {"idle", "recover"}
    BY <1>2 DEF AuthorityError, CallsStore, EnteringPCs
  <2> QED
    BY <1>2, <2>1, <2>2, StepFailsKeeps DEF AuthorityError
<1> QED
  BY <1>1, <1>2, CreateKeeps, ReclaimKeeps, VerifyKeeps, ArchiveKeeps
  DEF WorkerStep

-----------------------------------------------------------------------------
(* Requests begin. *)

LEMMA GuardTaken ==
  ASSUME TypeInv, JournalInv, NEW w \in Workers, NEW o \in Objects,
         pc[w] = "idle", mode = "up", ObjectOperationAllowed(o),
         \A v \in Workers \ {w} : loc'[v] = loc[v],
         loc'[w].obj = o, UNCHANGED <<mode, rpc>>
  PROVE  GuardsExclusive' /\ RecoveryExclusive'
<1>1. rpc = "off" /\ \A v \in Workers : loc[v].obj # o
  BY LocalsOf
  DEF ObjectOperationAllowed, ActiveRecovery, ActiveObjects
<1> QED
  BY <1>1 DEF JournalInv, GuardsExclusive, RecoveryExclusive

\* A request other than a reclaim takes its object guard.
LEMMA BeginKeeps ==
  ASSUME TypeInv, JournalInv, NEW w \in Workers, NEW o \in Objects, Untouched,
         pc[w] = "idle", mode = "up", ObjectOperationAllowed(o),
         NEW l \in FlagOps \cup CreatePCs \cup VerifyPCs \cup ArchivePCs,
         NEW r, r.obj = o, r.att = loc[w].att,
         l \in FlagOps => r.seen.state = object[o].state,
         Goto(w, l), SetLocals(w, r)
  PROVE  JournalInv'
<1>1. pc'[w] = l /\ \A v \in Workers \ {w} : pc'[v] = pc[v]
  BY GotoFrame
<1>2. loc'[w] = r /\ \A v \in Workers \ {w} : loc'[v] = loc[v]
  BY LocalsFrame
<1>3. GuardsExclusive' /\ RecoveryExclusive'
  BY <1>2, GuardTaken DEF Untouched
<1>4. r.att = None /\ None \notin Attempts
  BY LocalsOf DEF JournalInv, WorkerOwns
<1>5. l \notin {"idle", "recover"} \cup ReclaimPCs
  BY QuietSets DEF QuietPCs, FlagOps, ReclaimPCs, CommitPCs, AbortPCs
<1>6. WorkerOwns(w)'
  BY <1>1, <1>2, <1>4, <1>5 DEF WorkerOwns
<1>7. WorkerOrder(w)'
  BY <1>1, <1>2, <1>5
  DEF WorkerOrder, Untouched, ReclaimPCs, CommitPCs, AbortPCs
<1>8. ASSUME NEW v \in Workers PROVE WorkerOwns(v)' /\ WorkerOrder(v)'
  BY <1>1, <1>2, <1>6, <1>7 DEF JournalInv, WorkerOwns, WorkerOrder, Untouched
<1>9. EntriesKnown' /\ RecoveryOrder' /\ JournalCovers'
  BY DEF JournalInv, Untouched, EntriesKnown, RecoveryOrder, JournalCovers,
         OpenAttempts
<1> QED
  BY <1>3, <1>8, <1>9 DEF JournalInv

\* A reclaim reserves.  By JournalCovers the object is not pending: it would
\* have an open reservation.
LEMMA ReserveKeeps ==
  ASSUME TypeInv, JournalInv, NEW w \in Workers, NEW o \in Objects,
         NEW a \in Attempts, Reserve(w, o, a)
  PROVE  JournalInv'
<1> DEFINE e == [obj |-> o, prior |-> object[o], rows |-> rows[o],
                 arch |-> arch[o]]
           r == [loc[w] EXCEPT !.obj = o, !.att = a, !.seen = object[o],
                               !.todo = Rows(o)]
<1>1. /\ pc[w] = "idle" /\ mode = "up" /\ phase[a] = "NONE"
      /\ ObjectOperationAllowed(o) /\ ~HasOpenReservation(o)
      /\ SetLocals(w, r)
      /\ UNCHANGED <<object, mode, rpc, rec>>
  BY DEF Reserve, Enter, ReclaimAllowed, storeVars, procVars, recVars
<1>2. /\ phase' = [phase EXCEPT ![a] = "RESERVED"]
      /\ entry' = [entry EXCEPT ![a] = e]
      /\ resv' = [resv EXCEPT ![a] = "OPEN"]
      /\ attempt' = [attempt EXCEPT ![a] = "OPEN"]
  BY DEF Reserve
<1>3. PICK l \in {"recomputable", "validate", "pending"} : Goto(w, l)
  BY Zenon DEF Reserve
<1>4. pc'[w] = l /\ \A v \in Workers \ {w} : pc'[v] = pc[v]
  BY <1>3, GotoFrame
<1>5. loc'[w] = r /\ \A v \in Workers \ {w} : loc'[v] = loc[v]
  BY <1>1, LocalsFrame
<1>6. r.obj = o /\ r.att = a /\ r.seen = object[o]
  BY LocalsFields DEF Locals
<1>7. /\ phase'[a] = "RESERVED" /\ entry'[a] = e
      /\ resv'[a] = "OPEN" /\ attempt'[a] = "OPEN"
      /\ \A b \in Attempts \ {a} :
           /\ phase'[b] = phase[b] /\ entry'[b] = entry[b]
           /\ resv'[b] = resv[b] /\ attempt'[b] = attempt[b]
  BY <1>2 DEF TypeInv, TypeOK, JournalTypeOK
<1>8. object[o].state # "RECLAIM_PENDING"
  BY <1>1, CoversParts DEF JournalInv, CoversObject, HasOpenReservation
<1>9. GuardsExclusive' /\ RecoveryExclusive'
  BY <1>1, <1>5, <1>6, GuardTaken
<1>10. EntriesKnown'
  BY <1>7, <1>8 DEF JournalInv, EntriesKnown
<1>11. WorkerOwns(w)'
  BY <1>4, <1>5, <1>6, <1>7 DEF WorkerOwns
<1>12. WorkerOrder(w)'
  BY <1>4, <1>5, <1>6, <1>7, <1>8 DEF WorkerOrder, FlagOps
<1>13. ASSUME NEW v \in Workers, v # w PROVE WorkerOwns(v)' /\ WorkerOrder(v)'
  <2>1. WorkerOwns(v) /\ WorkerOrder(v) /\ pc'[v] = pc[v] /\ loc'[v] = loc[v]
    BY <1>4, <1>5, <1>13 DEF JournalInv
  <2>2. loc[v].att \in Attempts => loc[v].att # a
    BY <1>1, <2>1 DEF WorkerOwns
  <2>3. WorkerOwns(v)'
    BY <1>7, <2>1, <2>2 DEF WorkerOwns
  <2>4. pc[v] \in ReclaimPCs => loc[v].att \in Attempts
    BY <2>1 DEF WorkerOwns
  <2>5. WorkerOrder(v)'
    BY <1>1, <1>7, <2>1, <2>2, <2>4
    DEF WorkerOrder, ReclaimPCs, CommitPCs, AbortPCs
  <2> QED
    BY <2>3, <2>5
<1>14. RecoveryOrder'
  <2>1. rpc = "off" /\ rpc' = "off" /\ rec' = rec /\ rec.queue \subseteq Attempts
    BY <1>1, RecTyped
    DEF ObjectOperationAllowed, ActiveRecovery, RecoveryLocals
  <2> QED
    BY <1>7, <2>1 DEF JournalInv, RecoveryOrder, AtEntry, EntryPCs
<1>15. ASSUME NEW b \in Attempts PROVE CoversAttempt(b)'
  BY <1>7, CoversParts DEF JournalInv, CoversAttempt, OpenPhases
<1>16. ASSUME NEW q \in Objects PROVE CoversObject(q)'
  <2>1. ~(phase[a] \in OpenPhases)
    BY <1>1 DEF OpenPhases
  <2> QED
    BY <1>1, <1>7, <2>1, CoversParts DEF JournalInv, CoversObject
<1>17. JournalCovers'
  BY <1>15, <1>16 DEF JournalCovers, CoversAttempt, CoversObject, OpenAttempts
<1> QED
  BY <1>9, <1>10, <1>11, <1>12, <1>13, <1>14, <1>17 DEF JournalInv

LEMMA RequestKeeps ==
  ASSUME TypeInv, JournalInv, NEW w \in Workers, Request(w)
  PROVE  JournalInv'
<1>1. ASSUME NEW o \in Objects, NEW kind \in FlagOps, FlagBegin(w, o, kind)
      PROVE  JournalInv'
  <2> DEFINE r == [loc[w] EXCEPT !.obj = o, !.seen = object[o]]
  <2>1. Untouched /\ mode = "up" /\ SetLocals(w, r)
    BY <1>1 DEF FlagBegin, Enter, Untouched, storeVars, journalVars, procVars,
       recVars
  <2>2. r.obj = o /\ r.att = loc[w].att /\ r.seen = object[o]
    BY LocalsFields DEF Locals
  <2> QED
    BY <1>1, <2>1, <2>2, BeginKeeps DEF FlagBegin
<1>2. ASSUME NEW o \in Objects, CreateBegin(w, o) PROVE JournalInv'
  <2> DEFINE r == [loc[w] EXCEPT !.obj = o, !.todo = Targets[o]]
  <2>1. Untouched /\ mode = "up" /\ SetLocals(w, r)
    BY <1>2 DEF CreateBegin, Enter, Untouched, storeVars, journalVars, procVars,
       recVars
  <2>2. r.obj = o /\ r.att = loc[w].att
    BY LocalsFields DEF Locals
  <2> QED
    BY <1>2, <2>1, <2>2, BeginKeeps DEF CreateBegin, CreatePCs, FlagOps
<1>3. ASSUME NEW o \in Objects, NEW a \in Attempts, Reserve(w, o, a)
      PROVE  JournalInv'
  BY <1>3, ReserveKeeps
<1>4. ASSUME NEW o \in Objects, VerifyBegin(w, o) PROVE JournalInv'
  <2> DEFINE r == [loc[w] EXCEPT !.obj = o, !.todo = Rows(o)]
  <2>1. Untouched /\ mode = "up" /\ SetLocals(w, r)
    BY <1>4 DEF VerifyBegin, Enter, Untouched, storeVars, journalVars, procVars,
       recVars
  <2>2. r.obj = o /\ r.att = loc[w].att
    BY LocalsFields DEF Locals
  <2> QED
    BY <1>4, <2>1, <2>2, BeginKeeps DEF VerifyBegin, VerifyPCs, FlagOps
<1>5. ASSUME NEW o \in Objects, ArchiveBegin(w, o) PROVE JournalInv'
  <2> DEFINE r == [loc[w] EXCEPT !.obj = o, !.seen = object[o]]
  <2>1. Untouched /\ mode = "up" /\ SetLocals(w, r)
    BY <1>5 DEF ArchiveBegin, Enter, Untouched, storeVars, journalVars, procVars,
       recVars
  <2>2. r.obj = o /\ r.att = loc[w].att
    BY LocalsFields DEF Locals
  <2> QED
    BY <1>5, <2>1, <2>2, BeginKeeps DEF ArchiveBegin, ArchivePCs, FlagOps
<1>6. ASSUME NEW d \in EdgeChoices, AddLineage(w, d) \/ RemoveLineage(w, d)
      PROVE  JournalInv'
  BY <1>6, Nothing DEF AddLineage, RemoveLineage, Untouched, journalVars,
     procVars, recVars
<1>7. CASE RecoverRequest(w)
  <2>1. /\ UNCHANGED <<object, phase, entry, resv, attempt, mode, loc>>
        /\ pc[w] = "idle" /\ Goto(w, "recover") /\ ActiveObjects = {}
        /\ rpc' = "scan" /\ rec' = [NoRecovery EXCEPT !.by = w]
    BY <1>7 DEF RecoverRequest, storeVars, journalVars, procVars
  <2>2. \A v \in Workers : loc[v].obj = None
    BY <2>1 DEF ActiveObjects
  <2>3. pc'[w] = "recover" /\ \A v \in Workers \ {w} : pc'[v] = pc[v]
    BY <2>1, GotoFrame
  <2>4. GuardsExclusive' /\ RecoveryExclusive' /\ EntriesKnown'
    BY <2>1, <2>2 DEF JournalInv, GuardsExclusive, RecoveryExclusive, EntriesKnown
  <2>5. ASSUME NEW v \in Workers PROVE WorkerOwns(v)' /\ WorkerOrder(v)'
    BY <2>1, <2>3
    DEF JournalInv, WorkerOwns, WorkerOrder, FlagOps, ReclaimPCs, CommitPCs,
        AbortPCs
  <2>6. RecoveryOrder' /\ JournalCovers'
    BY <2>1 DEF JournalInv, RecoveryOrder, NoRecovery, AtEntry, EntryPCs,
       JournalCovers, OpenAttempts
  <2> QED
    BY <2>4, <2>5, <2>6 DEF JournalInv
<1> QED
  BY <1>1, <1>2, <1>3, <1>4, <1>5, <1>6, <1>7 DEF Request

-----------------------------------------------------------------------------
(* Recovery and the process. *)

\* While recovery works, or before the process serves, no request has an
\* object or an attempt.
LEMMA AllIdle ==
  ASSUME TypeInv, JournalInv, rpc # "off" \/ mode # "up", NEW w \in Workers
  PROVE  pc[w] \in {"idle", "recover"} /\ loc[w] = NoLocals
BY LocalsOf DEF JournalInv, RecoveryExclusive, WorkerOwns

LEMMA IdleKeeps ==
  ASSUME TypeInv,
         \A w \in Workers : pc'[w] \in {"idle", "recover"} /\ loc'[w] = NoLocals
  PROVE  /\ GuardsExclusive' /\ RecoveryExclusive'
         /\ \A w \in Workers : WorkerOwns(w)' /\ WorkerOrder(w)'
<1>1. \A w \in Workers : loc'[w].obj = None /\ loc'[w].att \notin Attempts
  BY LocalsOf
<1>2. GuardsExclusive' /\ RecoveryExclusive'
  BY <1>1 DEF GuardsExclusive, RecoveryExclusive
<1>3. ASSUME NEW w \in Workers PROVE WorkerOwns(w)' /\ WorkerOrder(w)'
  BY <1>1
  DEF WorkerOwns, WorkerOrder, FlagOps, ReclaimPCs, CommitPCs, AbortPCs
<1> QED
  BY <1>2, <1>3

\* A step of recovery leaves the requests alone.
LEMMA RecoveryFrame ==
  ASSUME TypeInv, JournalInv, rpc # "off" \/ mode # "up", UNCHANGED <<pc, loc>>,
         EntriesKnown', RecoveryOrder', JournalCovers'
  PROVE  JournalInv'
<1>1. \A w \in Workers : pc'[w] \in {"idle", "recover"} /\ loc'[w] = NoLocals
  BY AllIdle
<1> QED
  BY <1>1, IdleKeeps DEF JournalInv

RestoredPCs == {"rb_row", "rb_arch", "rb_repair", "rb_resv", "cm_resv"}
ClosingPCs == {"rb_att", "cm_att", "rb_jrnl", "cm_jrnl"}

JournalUntouched == UNCHANGED <<object, phase, entry, resv, attempt, pc, loc>>

\* Most steps of recovery touch neither objects nor the journal.
LEMMA RecoveryQuiet ==
  ASSUME TypeInv, JournalInv, rpc # "off" \/ mode # "up", JournalUntouched,
         rec'.queue \subseteq rec.queue,
         rpc' \in AtEntry => rec'.att = rec.att /\ rpc \in AtEntry,
         rpc' \in RestoredPCs => rpc \in RestoredPCs,
         rpc' \notin ClosingPCs
  PROVE  JournalInv'
<1>1. EntriesKnown' /\ JournalCovers'
  BY DEF JournalInv, JournalUntouched, EntriesKnown, JournalCovers, OpenAttempts
<1>2. RestoredPCs \subseteq AtEntry
  BY DEF RestoredPCs, AtEntry, EntryPCs
<1>3. RecoveryOrder'
  BY <1>2 DEF JournalInv, JournalUntouched, RecoveryOrder, RestoredPCs, ClosingPCs
<1> QED
  BY <1>1, <1>3, RecoveryFrame DEF JournalUntouched


\* An entry under recovery has an object.
LEMMA EntryAtHand ==
  ASSUME TypeInv, JournalInv, rpc \in AtEntry
  PROVE  /\ rec.att \in Attempts /\ phase[rec.att] # "NONE"
         /\ entry[rec.att].obj \in Objects
         /\ entry[rec.att].prior.state # "RECLAIM_PENDING"
BY DEF TypeInv, RecoveryHasEntry, JournalInv, RecoveryOrder, EntriesKnown

\* Recovery writes the object row: it is no longer pending.
LEMMA RecoveryObject ==
  ASSUME TypeInv, JournalInv, rpc \in AtEntry,
         UNCHANGED <<phase, entry, resv, attempt, rec, pc, loc>>,
         NEW row, row.state # "RECLAIM_PENDING",
         UpdateObject(entry[rec.att].obj, row), rpc' \in RestoredPCs
  PROVE  JournalInv'
<1> DEFINE o == entry[rec.att].obj
<1>1. object'[o] = row /\ \A q \in Objects \ {o} : object'[q] = object[q]
  BY EntryAtHand, UpdateFrame
<1>2. ASSUME NEW b \in Attempts PROVE CoversAttempt(b)'
  BY CoversParts DEF JournalInv, CoversAttempt
<1>3. ASSUME NEW q \in Objects PROVE CoversObject(q)'
  BY <1>1, CoversParts DEF JournalInv, CoversObject
<1>4. EntriesKnown' /\ JournalCovers'
  BY <1>2, <1>3
  DEF JournalInv, EntriesKnown, JournalCovers, CoversAttempt, CoversObject,
      OpenAttempts
<1>5. RecoveryOrder'
  BY <1>1, EntryAtHand DEF JournalInv, RecoveryOrder, RestoredPCs
<1>6. rpc # "off"
  BY DEF AtEntry, EntryPCs
<1> QED
  BY <1>4, <1>5, <1>6, RecoveryFrame

\* Recovery closes the reservation once the object is settled.
LEMMA RecoveryReservation ==
  ASSUME TypeInv, JournalInv, NEW from \in {"rb_resv", "cm_resv"},
         NEW status, status # "OPEN", NEW next \in {"rb_att", "cm_att"},
         RecReservation(from, status, next)
  PROVE  JournalInv'
<1> DEFINE a == rec.att
<1>1. /\ UNCHANGED <<object, phase, entry, attempt, rec, pc, loc>>
      /\ resv' = [resv EXCEPT ![a] = IF @ = "OPEN" THEN status ELSE @]
      /\ rpc = from /\ rpc' = next
  BY DEF RecReservation, RecAt, RecGoto, storeVars, workVars
<1>2. rpc \in AtEntry /\ rpc # "off"
  BY <1>1 DEF AtEntry, EntryPCs
<1>3. resv'[a] # "OPEN" /\ \A b \in Attempts \ {a} : resv'[b] = resv[b]
  BY <1>1, <1>2, EntryAtHand DEF TypeInv, TypeOK, JournalTypeOK
<1>4. object[entry[a].obj].state # "RECLAIM_PENDING"
  BY <1>1 DEF JournalInv, RecoveryOrder
<1>5. ASSUME NEW b \in Attempts PROVE CoversAttempt(b)'
  BY <1>1, <1>3, CoversParts DEF JournalInv, CoversAttempt
<1>6. ASSUME NEW q \in Objects PROVE CoversObject(q)'
  BY <1>1, <1>3, <1>4, CoversParts DEF JournalInv, CoversObject
<1>7. EntriesKnown' /\ JournalCovers'
  BY <1>1, <1>5, <1>6
  DEF JournalInv, EntriesKnown, JournalCovers, CoversAttempt, CoversObject,
      OpenAttempts
<1>8. RecoveryOrder'
  BY <1>1, <1>2, <1>3 DEF JournalInv, RecoveryOrder
<1> QED
  BY <1>1, <1>2, <1>7, <1>8, RecoveryFrame

\* ... then the attempt, unless it has another outcome already ...
LEMMA RecoveryAttempt ==
  ASSUME TypeInv, JournalInv, NEW from \in {"rb_att", "cm_att"},
         NEW status, status # "OPEN", NEW next \in {"rb_jrnl", "cm_jrnl"},
         RecAttempt(from, status, next)
  PROVE  JournalInv'
<1> DEFINE a == rec.att
<1>1. /\ UNCHANGED <<object, phase, entry, resv, pc, loc>>
      /\ rpc = from /\ rpc \in AtEntry /\ rpc # "off"
  BY DEF RecAttempt, RecAt, storeVars, workVars, AtEntry, EntryPCs
<1>2. CASE attempt[a] \in {"OPEN", status}
  <2>1. attempt' = [attempt EXCEPT ![a] = status] /\ rpc' = next /\ rec' = rec
    BY <1>2 DEF RecAttempt, RecGoto
  <2>2. attempt'[a] = status /\ \A b \in Attempts \ {a} : attempt'[b] = attempt[b]
    BY <1>1, <2>1, EntryAtHand DEF TypeInv, TypeOK, JournalTypeOK
  <2>3. ASSUME NEW b \in Attempts PROVE CoversAttempt(b)'
    BY <1>1, <2>2, CoversParts DEF JournalInv, CoversAttempt
  <2>4. ASSUME NEW q \in Objects PROVE CoversObject(q)'
    BY <1>1, CoversParts DEF JournalInv, CoversObject
  <2>5. EntriesKnown' /\ JournalCovers'
    BY <1>1, <2>3, <2>4
    DEF JournalInv, EntriesKnown, JournalCovers, CoversAttempt, CoversObject,
        OpenAttempts
  <2>6. RecoveryOrder'
    BY <1>1, <2>1, <2>2 DEF JournalInv, RecoveryOrder
  <2> QED
    BY <1>1, <2>5, <2>6, RecoveryFrame
<1>3. CASE attempt[a] \notin {"OPEN", status}
  <2>1. attempt' = attempt /\ rpc' = "next" /\ rec' = [rec EXCEPT !.err = TRUE]
    BY <1>3 DEF RecAttempt, EntryFails
  <2>2. rec'.queue = rec.queue
    BY <2>1, RecTyped DEF RecoveryLocals
  <2>3. JournalUntouched
    BY <1>1, <2>1 DEF JournalUntouched
  <2> QED
    BY <1>1, <2>1, <2>2, <2>3, RecoveryQuiet
    DEF AtEntry, EntryPCs, RestoredPCs, ClosingPCs
<1> QED
  BY <1>2, <1>3

\* ... and the journal last.
LEMMA RecoveryJournal ==
  ASSUME TypeInv, JournalInv, NEW from \in {"rb_jrnl", "cm_jrnl"},
         NEW status \in {"COMMITTED", "ROLLED_BACK"}, RecJournal(from, status)
  PROVE  JournalInv'
<1> DEFINE a == rec.att
<1>1. /\ UNCHANGED <<object, entry, resv, attempt, rec, pc, loc>>
      /\ phase' = [phase EXCEPT ![a] = status]
      /\ rpc = from /\ rpc' = "next"
  BY DEF RecJournal, RecAt, RecGoto, UpdateJournalPhase, storeVars, workVars
<1>2. rpc \in AtEntry /\ rpc # "off"
  BY <1>1 DEF AtEntry, EntryPCs
<1>3. phase'[a] = status /\ \A b \in Attempts \ {a} : phase'[b] = phase[b]
  BY <1>1, <1>2, EntryAtHand DEF TypeInv, TypeOK, JournalTypeOK
<1>4. resv[a] # "OPEN" /\ attempt[a] # "OPEN"
  BY <1>1 DEF JournalInv, RecoveryOrder
<1>5. ASSUME NEW b \in Attempts PROVE CoversAttempt(b)'
  BY <1>1, <1>3, <1>4, CoversParts DEF JournalInv, CoversAttempt
<1>6. ASSUME NEW q \in Objects PROVE CoversObject(q)'
  BY <1>1, <1>3, <1>4, CoversParts DEF JournalInv, CoversObject
<1>7. JournalCovers'
  BY <1>5, <1>6 DEF JournalCovers, CoversAttempt, CoversObject, OpenAttempts
<1>8. EntriesKnown'
  BY <1>1, <1>2, <1>3, EntryAtHand DEF JournalInv, EntriesKnown
<1>9. RecoveryOrder'
  <2>1. \A b \in rec.queue : phase'[b] # "NONE"
    BY <1>3, RecTyped DEF JournalInv, RecoveryOrder, RecoveryLocals
  <2> QED
    BY <1>1, <2>1 DEF RecoveryOrder, AtEntry, EntryPCs
<1> QED
  BY <1>1, <1>2, <1>7, <1>8, <1>9, RecoveryFrame

\* Recovery takes an entry from its queue.
LEMMA RecoveryNext ==
  ASSUME TypeInv, JournalInv, NEW a \in Attempts, RecNext(a)
  PROVE  JournalInv'
<1> DEFINE r == [rec EXCEPT !.queue = @ \ {a},
                            !.att = a,
                            !.todo = JournalRows(a),
                            !.err = @ \/ ~(RollsBack(a) \/ Commits(a))]
<1>1. /\ JournalUntouched /\ rpc = "next" /\ a \in rec.queue /\ rec' = r
      /\ rpc' \in {"rb_obj", "cm_row", "next"}
  BY DEF RecNext, RecAt, JournalUntouched, storeVars, journalVars, workVars
<1>2. r.att = a /\ r.queue = rec.queue \ {a}
  BY RecTyped DEF RecoveryLocals
<1>3. phase[a] # "NONE"
  BY <1>1 DEF JournalInv, RecoveryOrder
<1>4. EntriesKnown' /\ JournalCovers'
  BY <1>1 DEF JournalInv, JournalUntouched, EntriesKnown, JournalCovers,
     OpenAttempts
<1>5. RecoveryOrder'
  BY <1>1, <1>2, <1>3 DEF JournalInv, JournalUntouched, RecoveryOrder
<1> QED
  BY <1>1, <1>4, <1>5, RecoveryFrame DEF JournalUntouched

\* By JournalCovers no reservation is without an open journal.
LEMMA RecoveryExpire ==
  ASSUME TypeInv, JournalInv, RecExpire
  PROVE  JournalInv'
<1>1. Abandoned = {}
  BY DEF Abandoned, JournalInv, JournalCovers
<1>2. /\ object' = [o \in Objects |-> object[o]]
      /\ resv' = [a \in Attempts |-> resv[a]]
      /\ attempt' = [a \in Attempts |-> attempt[a]]
  BY <1>1 DEF RecExpire
<1>3. object' = object /\ resv' = resv /\ attempt' = attempt
  BY <1>2 DEF TypeInv, TypeOK, StoreTypeOK, JournalTypeOK
<1>4. JournalUntouched /\ rec' = rec /\ rpc = "expire" /\ rpc' = "repair"
  BY <1>3 DEF RecExpire, RecAt, RecGoto, JournalUntouched, workVars
<1> QED
  BY <1>4, RecoveryQuiet DEF AtEntry, EntryPCs, RestoredPCs, ClosingPCs

\* Recovery ends.
LEMMA RecoveryEnd ==
  ASSUME TypeInv, JournalInv, RecEnd
  PROVE  JournalInv'
<1>1. /\ UNCHANGED <<object, phase, entry, resv, attempt>>
      /\ rpc = "end" /\ rpc' = "off" /\ rec' = NoRecovery
  BY DEF RecEnd, RecAt, storeVars, journalVars
<1>2. \A w \in Workers : pc[w] \in {"idle", "recover"} /\ loc[w] = NoLocals
  BY <1>1, AllIdle
<1>3. \A w \in Workers : pc'[w] \in {"idle", "recover"} /\ loc'[w] = NoLocals
  <2>1. CASE rec.by = None
    BY <1>2, <2>1 DEF RecEnd
  <2>2. CASE rec.by # None
    <3>1. rec.by \in Workers /\ Return(rec.by)
      BY <2>2, RecTyped DEF RecEnd, RecoveryLocals
    <3> QED
      BY <1>2, <3>1, ReturnOwns
  <2> QED
    BY <2>1, <2>2
<1>4. EntriesKnown' /\ RecoveryOrder' /\ JournalCovers'
  BY <1>1 DEF JournalInv, EntriesKnown, RecoveryOrder, JournalCovers,
     OpenAttempts, NoRecovery, AtEntry, EntryPCs
<1> QED
  BY <1>3, <1>4, IdleKeeps DEF JournalInv

LEMMA RecoveryKeeps ==
  ASSUME TypeInv, JournalInv, RecoveryStep
  PROVE  JournalInv'
<1> USE DEF RecAt, RecGoto
<1>1. CASE RecScan
  <2> DEFINE r == [rec EXCEPT !.queue = OpenAttempts]
  <2>1. JournalUntouched /\ rpc = "scan" /\ rpc' = "next" /\ rec' = r
    BY <1>1 DEF RecScan, JournalUntouched, storeVars, journalVars, workVars
  <2>2. r.queue = OpenAttempts /\ \A a \in OpenAttempts : phase[a] # "NONE"
    BY RecTyped DEF RecoveryLocals, OpenAttempts, OpenPhases
  <2>3. EntriesKnown' /\ JournalCovers'
    BY <2>1 DEF JournalInv, JournalUntouched, EntriesKnown, JournalCovers,
       OpenAttempts
  <2>4. RecoveryOrder'
    BY <2>1, <2>2 DEF JournalUntouched, RecoveryOrder, AtEntry, EntryPCs
  <2> QED
    BY <2>1, <2>3, <2>4, RecoveryFrame DEF JournalUntouched
<1>2. ASSUME NEW a \in Attempts, RecNext(a) PROVE JournalInv'
  BY <1>2, RecoveryNext
<1>3. CASE RollbackObject
  <2> DEFINE row == RestoredObject(object[entry[rec.att].obj], entry[rec.att].prior)
  <2>1. /\ UNCHANGED <<phase, entry, resv, attempt, rec, pc, loc>>
        /\ rpc = "rb_obj" /\ rpc' = "rb_row"
        /\ UpdateObject(entry[rec.att].obj, row)
    BY <1>3 DEF RollbackObject, journalVars, workVars
  <2>2. rpc \in AtEntry /\ rpc' \in RestoredPCs
    BY <2>1 DEF AtEntry, EntryPCs, RestoredPCs
  <2>3. row.state # "RECLAIM_PENDING"
    BY <2>2, EntryAtHand DEF RestoredObject
  <2> QED
    BY <2>1, <2>2, <2>3, RecoveryObject
<1>4. CASE RecCommitObject
  <2> DEFINE row == [object[entry[rec.att].obj] EXCEPT !.state = "RECLAIMED"]
  <2>1. /\ UNCHANGED <<phase, entry, resv, attempt, rec, pc, loc>>
        /\ rpc = "cm_obj" /\ rpc' = "cm_resv"
        /\ UpdateObject(entry[rec.att].obj, row)
    BY <1>4 DEF RecCommitObject, journalVars, workVars
  <2>2. rpc \in AtEntry /\ rpc' \in RestoredPCs
    BY <2>1 DEF AtEntry, EntryPCs, RestoredPCs
  <2>3. row.state # "RECLAIM_PENDING"
    BY <2>2, EntryAtHand, ObjectTyped DEF ObjectRow
  <2> QED
    BY <2>1, <2>2, <2>3, RecoveryObject
<1>5. CASE RollbackReservation \/ RecCommitReservation
  BY <1>5, RecoveryReservation DEF RollbackReservation, RecCommitReservation
<1>6. CASE RollbackAttempt \/ RecCommitAttempt
  BY <1>6, RecoveryAttempt DEF RollbackAttempt, RecCommitAttempt
<1>7. CASE RollbackJournal \/ RecCommitJournal
  BY <1>7, RecoveryJournal DEF RollbackJournal, RecCommitJournal
<1>8. CASE RecExpire
  BY <1>8, RecoveryExpire
<1>9. CASE RecEnd
  BY <1>9, RecoveryEnd
<1>10. CASE RecQueueEmpty
  <2>1. JournalUntouched /\ rpc # "off"
    BY <1>10 DEF RecQueueEmpty, JournalUntouched, storeVars, journalVars, workVars
  <2>3. rec'.queue \subseteq rec.queue /\ rec'.att = rec.att
    BY <1>10, RecTyped DEF RecQueueEmpty, EntryFails, RecoveryFails, RecoveryLocals
  <2>4. /\ rpc' \in AtEntry => rpc \in AtEntry
        /\ rpc' \in RestoredPCs => rpc \in RestoredPCs
        /\ rpc' \notin ClosingPCs
    BY <1>10 DEF RecQueueEmpty, EntryFails, RecoveryFails, AtEntry, EntryPCs,
       RestoredPCs, ClosingPCs
  <2> QED
    BY <2>1, <2>3, <2>4, RecoveryQuiet
<1>11. ASSUME NEW p \in Payloads, RollbackRow(p) PROVE JournalInv'
  <2>1. JournalUntouched /\ rpc # "off"
    BY <1>11 DEF RollbackRow, JournalUntouched, storeVars, journalVars, workVars
  <2>3. rec'.queue \subseteq rec.queue /\ rec'.att = rec.att
    BY <1>11, RecTyped DEF RollbackRow, EntryFails, RecoveryFails, RecoveryLocals
  <2>4. /\ rpc' \in AtEntry => rpc \in AtEntry
        /\ rpc' \in RestoredPCs => rpc \in RestoredPCs
        /\ rpc' \notin ClosingPCs
    BY <1>11 DEF RollbackRow, EntryFails, RecoveryFails, AtEntry, EntryPCs,
       RestoredPCs, ClosingPCs
  <2> QED
    BY <2>1, <2>3, <2>4, RecoveryQuiet
<1>12. ASSUME NEW p \in Payloads, RollbackRowConflict(p) PROVE JournalInv'
  <2>1. JournalUntouched /\ rpc # "off"
    BY <1>12 DEF RollbackRowConflict, JournalUntouched, storeVars, journalVars, workVars
  <2>3. rec'.queue \subseteq rec.queue /\ rec'.att = rec.att
    BY <1>12, RecTyped DEF RollbackRowConflict, EntryFails, RecoveryFails, RecoveryLocals
  <2>4. /\ rpc' \in AtEntry => rpc \in AtEntry
        /\ rpc' \in RestoredPCs => rpc \in RestoredPCs
        /\ rpc' \notin ClosingPCs
    BY <1>12 DEF RollbackRowConflict, EntryFails, RecoveryFails, AtEntry, EntryPCs,
       RestoredPCs, ClosingPCs
  <2> QED
    BY <2>1, <2>3, <2>4, RecoveryQuiet
<1>13. CASE RollbackRowsDone
  <2>1. JournalUntouched /\ rpc # "off"
    BY <1>13 DEF RollbackRowsDone, JournalUntouched, storeVars, journalVars, workVars
  <2>3. rec'.queue \subseteq rec.queue /\ rec'.att = rec.att
    BY <1>13, RecTyped DEF RollbackRowsDone, EntryFails, RecoveryFails, RecoveryLocals
  <2>4. /\ rpc' \in AtEntry => rpc \in AtEntry
        /\ rpc' \in RestoredPCs => rpc \in RestoredPCs
        /\ rpc' \notin ClosingPCs
    BY <1>13 DEF RollbackRowsDone, EntryFails, RecoveryFails, AtEntry, EntryPCs,
       RestoredPCs, ClosingPCs
  <2> QED
    BY <2>1, <2>3, <2>4, RecoveryQuiet
<1>14. CASE RollbackArchive
  <2>1. JournalUntouched /\ rpc # "off"
    BY <1>14 DEF RollbackArchive, JournalUntouched, storeVars, journalVars, workVars
  <2>3. rec'.queue \subseteq rec.queue /\ rec'.att = rec.att
    BY <1>14, RecTyped DEF RollbackArchive, EntryFails, RecoveryFails, RecoveryLocals
  <2>4. /\ rpc' \in AtEntry => rpc \in AtEntry
        /\ rpc' \in RestoredPCs => rpc \in RestoredPCs
        /\ rpc' \notin ClosingPCs
    BY <1>14 DEF RollbackArchive, EntryFails, RecoveryFails, AtEntry, EntryPCs,
       RestoredPCs, ClosingPCs
  <2> QED
    BY <2>1, <2>3, <2>4, RecoveryQuiet
<1>15. CASE RollbackRepair
  <2>1. JournalUntouched /\ rpc # "off"
    BY <1>15 DEF RollbackRepair, JournalUntouched, storeVars, journalVars, workVars
  <2>3. rec'.queue \subseteq rec.queue /\ rec'.att = rec.att
    BY <1>15, RecTyped DEF RollbackRepair, EntryFails, RecoveryFails, RecoveryLocals
  <2>4. /\ rpc' \in AtEntry => rpc \in AtEntry
        /\ rpc' \in RestoredPCs => rpc \in RestoredPCs
        /\ rpc' \notin ClosingPCs
    BY <1>15 DEF RollbackRepair, EntryFails, RecoveryFails, AtEntry, EntryPCs,
       RestoredPCs, ClosingPCs
  <2> QED
    BY <2>1, <2>3, <2>4, RecoveryQuiet
<1>16. ASSUME NEW p \in Payloads, RecCommitRow(p) PROVE JournalInv'
  <2>1. JournalUntouched /\ rpc # "off"
    BY <1>16 DEF RecCommitRow, JournalUntouched, storeVars, journalVars, workVars
  <2>3. rec'.queue \subseteq rec.queue /\ rec'.att = rec.att
    BY <1>16, RecTyped DEF RecCommitRow, EntryFails, RecoveryFails, RecoveryLocals
  <2>4. /\ rpc' \in AtEntry => rpc \in AtEntry
        /\ rpc' \in RestoredPCs => rpc \in RestoredPCs
        /\ rpc' \notin ClosingPCs
    BY <1>16 DEF RecCommitRow, EntryFails, RecoveryFails, AtEntry, EntryPCs,
       RestoredPCs, ClosingPCs
  <2> QED
    BY <2>1, <2>3, <2>4, RecoveryQuiet
<1>17. CASE RecCommitRelease
  <2>1. JournalUntouched /\ rpc # "off"
    BY <1>17 DEF RecCommitRelease, JournalUntouched, storeVars, journalVars, workVars
  <2>3. rec'.queue \subseteq rec.queue /\ rec'.att = rec.att
    BY <1>17, RecTyped DEF RecCommitRelease, EntryFails, RecoveryFails, RecoveryLocals
  <2>4. /\ rpc' \in AtEntry => rpc \in AtEntry
        /\ rpc' \in RestoredPCs => rpc \in RestoredPCs
        /\ rpc' \notin ClosingPCs
    BY <1>17 DEF RecCommitRelease, EntryFails, RecoveryFails, AtEntry, EntryPCs,
       RestoredPCs, ClosingPCs
  <2> QED
    BY <2>1, <2>3, <2>4, RecoveryQuiet
<1>18. CASE RecCommitRowsDone
  <2>1. JournalUntouched /\ rpc # "off"
    BY <1>18 DEF RecCommitRowsDone, JournalUntouched, storeVars, journalVars, workVars
  <2>3. rec'.queue \subseteq rec.queue /\ rec'.att = rec.att
    BY <1>18, RecTyped DEF RecCommitRowsDone, EntryFails, RecoveryFails, RecoveryLocals
  <2>4. /\ rpc' \in AtEntry => rpc \in AtEntry
        /\ rpc' \in RestoredPCs => rpc \in RestoredPCs
        /\ rpc' \notin ClosingPCs
    BY <1>18 DEF RecCommitRowsDone, EntryFails, RecoveryFails, AtEntry, EntryPCs,
       RestoredPCs, ClosingPCs
  <2> QED
    BY <2>1, <2>3, <2>4, RecoveryQuiet
<1>19. CASE RecCommitArchive
  <2>1. JournalUntouched /\ rpc # "off"
    BY <1>19 DEF RecCommitArchive, JournalUntouched, storeVars, journalVars, workVars
  <2>3. rec'.queue \subseteq rec.queue /\ rec'.att = rec.att
    BY <1>19, RecTyped DEF RecCommitArchive, EntryFails, RecoveryFails, RecoveryLocals
  <2>4. /\ rpc' \in AtEntry => rpc \in AtEntry
        /\ rpc' \in RestoredPCs => rpc \in RestoredPCs
        /\ rpc' \notin ClosingPCs
    BY <1>19 DEF RecCommitArchive, EntryFails, RecoveryFails, AtEntry, EntryPCs,
       RestoredPCs, ClosingPCs
  <2> QED
    BY <2>1, <2>3, <2>4, RecoveryQuiet
<1>20. CASE RecRepair
  <2>1. JournalUntouched /\ rpc # "off"
    BY <1>20 DEF RecRepair, JournalUntouched, storeVars, journalVars, workVars
  <2>3. rec'.queue \subseteq rec.queue /\ rec'.att = rec.att
    BY <1>20, RecTyped DEF RecRepair, EntryFails, RecoveryFails, RecoveryLocals
  <2>4. /\ rpc' \in AtEntry => rpc \in AtEntry
        /\ rpc' \in RestoredPCs => rpc \in RestoredPCs
        /\ rpc' \notin ClosingPCs
    BY <1>20 DEF RecRepair, EntryFails, RecoveryFails, AtEntry, EntryPCs,
       RestoredPCs, ClosingPCs
  <2> QED
    BY <2>1, <2>3, <2>4, RecoveryQuiet
<1>21. CASE RecLineage
  <2>1. JournalUntouched /\ rpc # "off"
    BY <1>21 DEF RecLineage, JournalUntouched, storeVars, journalVars, workVars
  <2>3. rec'.queue \subseteq rec.queue /\ rec'.att = rec.att
    BY <1>21, RecTyped DEF RecLineage, EntryFails, RecoveryFails, RecoveryLocals
  <2>4. /\ rpc' \in AtEntry => rpc \in AtEntry
        /\ rpc' \in RestoredPCs => rpc \in RestoredPCs
        /\ rpc' \notin ClosingPCs
    BY <1>21 DEF RecLineage, EntryFails, RecoveryFails, AtEntry, EntryPCs,
       RestoredPCs, ClosingPCs
  <2> QED
    BY <2>1, <2>3, <2>4, RecoveryQuiet
<1>22. CASE RecStoreError
  <2>1. JournalUntouched /\ rpc # "off"
    BY <1>22 DEF RecStoreError, JournalUntouched, storeVars, journalVars, workVars, RecoveryPCs
  <2>2. \/ EntryFails \/ RecoveryFails
        \/ /\ rpc = "cm_release" /\ rpc' = "cm_row"
           /\ rec' = [rec EXCEPT !.cur = None]
    BY <1>22, Zenon DEF RecStoreError
  <2>3. rec'.queue \subseteq rec.queue /\ rec'.att = rec.att
    BY <2>2, RecTyped DEF EntryFails, RecoveryFails, RecoveryLocals
  <2>4. /\ rpc' \in AtEntry => rpc \in AtEntry
        /\ rpc' \in RestoredPCs => rpc \in RestoredPCs
        /\ rpc' \notin ClosingPCs
    BY <2>2 DEF EntryFails, RecoveryFails, AtEntry, EntryPCs,
       RestoredPCs, ClosingPCs
  <2> QED
    BY <2>1, <2>3, <2>4, RecoveryQuiet
<1>23. CASE RecRepairPartial
  <2>1. JournalUntouched /\ rpc # "off"
    BY <1>23 DEF RecRepairPartial, JournalUntouched, storeVars, journalVars, workVars, RecoveryPCs
  <2>3. rec'.queue \subseteq rec.queue /\ rec'.att = rec.att
    BY <1>23, RecTyped DEF RecRepairPartial, EntryFails, RecoveryFails, RecoveryLocals
  <2>4. /\ rpc' \in AtEntry => rpc \in AtEntry
        /\ rpc' \in RestoredPCs => rpc \in RestoredPCs
        /\ rpc' \notin ClosingPCs
    BY <1>23 DEF RecRepairPartial, EntryFails, RecoveryFails, AtEntry, EntryPCs,
       RestoredPCs, ClosingPCs
  <2> QED
    BY <2>1, <2>3, <2>4, RecoveryQuiet
<1>24. ASSUME NEW a \in Attempts, RecBackendError(a) PROVE JournalInv'
  <2>1. JournalUntouched /\ rpc # "off"
    BY <1>24 DEF RecBackendError, JournalUntouched, storeVars, journalVars, workVars
  <2>3. rec'.queue \subseteq rec.queue /\ rec'.att = rec.att
    BY <1>24, RecTyped DEF RecBackendError, EntryFails, RecoveryFails, RecoveryLocals
  <2>4. /\ rpc' \in AtEntry => rpc \in AtEntry
        /\ rpc' \in RestoredPCs => rpc \in RestoredPCs
        /\ rpc' \notin ClosingPCs
    BY <1>24 DEF RecBackendError, EntryFails, RecoveryFails, AtEntry, EntryPCs,
       RestoredPCs, ClosingPCs
  <2> QED
    BY <2>1, <2>3, <2>4, RecoveryQuiet
<1> QED
  BY <1>1, <1>2, <1>3, <1>4, <1>5, <1>6, <1>7, <1>8, <1>9, <1>10, <1>11,
     <1>12, <1>13, <1>14, <1>15, <1>16, <1>17, <1>18, <1>19, <1>20, <1>21,
     <1>22, <1>23, <1>24 DEF RecoveryStep

LEMMA ProcessKeeps ==
  ASSUME TypeInv, JournalInv, Process
  PROVE  JournalInv'
<1>1. CASE Start
  <2>1. /\ UNCHANGED <<object, phase, entry, resv, attempt, pc, loc>>
        /\ mode # "up" /\ rpc' = "scan" /\ rec' = NoRecovery
    BY <1>1 DEF Start, storeVars, journalVars, workVars
  <2>2. EntriesKnown' /\ RecoveryOrder' /\ JournalCovers'
    BY <2>1 DEF JournalInv, EntriesKnown, RecoveryOrder, JournalCovers,
       OpenAttempts, NoRecovery, AtEntry, EntryPCs
  <2> QED
    BY <2>1, <2>2, RecoveryFrame
<1>2. CASE Vanish
  <2>1. /\ UNCHANGED <<object, phase, entry, resv, attempt>>
        /\ rpc' = "off" /\ rec' = NoRecovery
        /\ \A w \in Workers : pc'[w] = "idle" /\ loc'[w] = NoLocals
    BY <1>2 DEF Vanish, storeVars, journalVars
  <2>2. EntriesKnown' /\ RecoveryOrder' /\ JournalCovers'
    BY <2>1 DEF JournalInv, EntriesKnown, RecoveryOrder, JournalCovers,
       OpenAttempts, NoRecovery, AtEntry, EntryPCs
  <2> QED
    BY <2>1, <2>2, IdleKeeps DEF JournalInv
<1>3. CASE RequestShutdown \/ HeartbeatThreadError
  <2>1. Untouched /\ UNCHANGED <<pc, loc>>
    BY <1>3 DEF RequestShutdown, HeartbeatThreadError, Untouched, storeVars,
       journalVars, workVars, recVars
  <2> QED
    BY <2>1, Nothing
<1> QED
  BY <1>1, <1>2, <1>3 DEF Process, Exit, Crash

LEMMA InitJournal == Init => JournalInv
<1> SUFFICES ASSUME Init PROVE JournalInv
  OBVIOUS
<1>1. \A w \in Workers : pc[w] = "idle" /\ loc[w] = NoLocals
  BY DEF Init
<1>2. \A w \in Workers : loc[w].obj = None /\ loc[w].att \notin Attempts
  BY <1>1, ConstantsAssumption DEF ConstantsAssumption, NoLocals
<1>3. GuardsExclusive /\ RecoveryExclusive
  BY <1>2 DEF GuardsExclusive, RecoveryExclusive
<1>4. ASSUME NEW w \in Workers PROVE WorkerOwns(w) /\ WorkerOrder(w)
  BY <1>1, <1>2
  DEF WorkerOwns, WorkerOrder, FlagOps, ReclaimPCs, CommitPCs, AbortPCs
<1>5. \A a \in Attempts :
        /\ phase[a] = "NONE" /\ resv[a] = "NONE" /\ attempt[a] = "NONE"
        /\ entry[a] = NoEntry
  BY DEF Init
<1>6. EntriesKnown
  BY <1>5 DEF EntriesKnown, NoEntry, NoObject
<1>7. RecoveryOrder
  BY DEF Init, RecoveryOrder, NoRecovery, AtEntry, EntryPCs
<1>8. \A o \in Objects : object[o].state # "RECLAIM_PENDING"
  BY DEF Init, NoObject
<1>9. JournalCovers
  BY <1>5, <1>8 DEF JournalCovers
<1> QED
  BY <1>3, <1>4, <1>6, <1>7, <1>9 DEF JournalInv

LEMMA NextJournal == TypeInv /\ JournalInv /\ [Next]_vars => JournalInv'
<1> SUFFICES ASSUME TypeInv, JournalInv, [Next]_vars PROVE JournalInv'
  OBVIOUS
<1>1. CASE UNCHANGED vars
  BY <1>1, Nothing DEF vars, Untouched, storeVars, journalVars, procVars,
     workVars, recVars
<1>2. ASSUME NEW p \in Payloads, Corrupt(p) PROVE JournalInv'
  BY <1>2, Nothing DEF Corrupt, Untouched, storeVars, journalVars, procVars,
     workVars, recVars
<1> QED
  BY <1>1, <1>2, RequestKeeps, WorkerStepKeeps, WorkerFaultKeeps, RecoveryKeeps,
     ProcessKeeps DEF Next

(* The journal is written first and finalized last, on every path: by the     *)
(* reclaim that commits, by abort_reclaim, and by recovery rolling back or    *)
(* committing after a crash.  So whatever statements and backend calls fail,  *)
(* however many workers there are and wherever the process crashes, an open   *)
(* reservation or attempt has an open journal entry, and a RECLAIM_PENDING    *)
(* object has one with an open reservation: the next recovery finds it.  The  *)
(* object guards carry the argument (GuardsExclusive, RecoveryExclusive): a   *)
(* handler writes back the row it read before, and closes what it opened,     *)
(* with nobody else at that object or attempt in between.                     *)
THEOREM JournalAlwaysCovers == Spec => []JournalCovers
<1>1. Spec => []TypeInv
  BY InitType, NextType, PTL DEF Spec
<1>2. Spec => []JournalInv
  BY <1>1, InitJournal, NextJournal, PTL DEF Spec
<1>3. JournalInv => JournalCovers
  BY DEF JournalInv
<1> QED
  BY <1>2, <1>3, PTL
==============================================================================
