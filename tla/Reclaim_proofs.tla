--------------------------- MODULE Reclaim_proofs ----------------------------
(***************************************************************************)
(* The reclaim transaction against everything else, for every set of       *)
(* objects, payloads, workers and attempts, any number of crashes, and     *)
(* faults except those named.  Unless an abort fails half way no object    *)
(* has two open journal entries, RECLAIMED is terminal and a row lacks its *)
(* payload only while an open entry plans that deletion; if nothing fails  *)
(* at all, the same holds of an archive record.  Where the statements      *)
(* whose error reclaim returns as it is do not fail, a failure before the  *)
(* physical phase is rolled back, open entries are owned and only requests *)
(* change flags.  As in Payload_proofs, no RECOVER request comes.          *)
(***************************************************************************)
EXTENDS Payload_proofs

-----------------------------------------------------------------------------
(* Who writes what. *)

\* Object rows are written by seven actions of a request, reservations by two.
LEMMA FailWrites ==
  ASSUME NEW w \in Workers, WorkerFault(w) \/ AuthorityError(w)
  PROVE  UNCHANGED <<object, rows, arch, phase, plan, resv>>
BY Zenon DEF WorkerFault, AuthorityError, StatementError, EntryHeartbeatError, WriteError,
   ReadError, ArchiveError, DeleteError, VerifyReadError, storeVars, journalVars

LEMMA CreateWrites ==
  ASSUME NEW w \in Workers, CreateStep(w)
  PROVE  UNCHANGED <<phase, plan, resv, ablob>> /\ (object' = object \/ Publish(w))
<1>1. CASE \/ CreateLock(w) \/ CreateLockFails(w) \/ CreateWrite(w) \/ CreateInsert(w)
           \/ CreateRow(w) \/ Publish(w)
           \/ \E p \in Payloads : CreateAcquire(w, p) \/ CreateRefuse(w, p) \/ CreateMiss(w, p)
  BY <1>1, Zenon DEF CreateLock, CreateLockFails, CreateWrite, CreateInsert, CreateRow,
     Publish, CreateAcquire, CreateRefuse, CreateMiss, storeVars, journalVars, physVars
<1>2. CASE \/ CreateUnref(w) \/ CreateUnblob(w) \/ UndoLock(w) \/ UndoLockFails(w)
           \/ UndoEnter(w) \/ UndoRelease(w) \/ UndoLeave(w) \/ UndoReturn(w)
           \/ \E p \in Payloads : UndoRow(w, p) \/ UndoBlob(w, p)
  BY <1>2, Zenon DEF CreateUnref, CreateUnblob, UndoLock, UndoLockFails, UndoEnter,
     UndoRelease, UndoLeave, UndoReturn, UndoRow, UndoBlob, storeVars, journalVars, physVars
<1> QED
  BY <1>1, <1>2 DEF CreateStep

LEMMA VerifyWrites ==
  ASSUME NEW w \in Workers, VerifyStep(w)
  PROVE  UNCHANGED <<object, phase, plan, resv, ablob>>
BY Zenon DEF VerifyStep, VerifyLock, VerifyLockFails, VerifyGood, VerifyBad, VerifyInvalidate,
   VerifyInvalidateFails, VerifyInvalidated, VerifyReturn, storeVars, journalVars, physVars

LEMMA ArchiveWrites ==
  ASSUME NEW w \in Workers, ArchiveStep(w)
  PROVE  /\ UNCHANGED <<rows, phase, plan, resv>> /\ (object' = object \/ ArchivePublish(w))
         /\ pc[w] \in ArchivePCs
BY DEF ArchiveStep, ArchiveWrite, ArchiveInsert, ArchivePublish, ArchiveUnrow,
   ArchiveUnblob, storeVars, journalVars, ArchivePCs

LEMMA ReclaimWrites ==
  ASSUME NEW w \in Workers, ReclaimStep(w)
  PROVE  /\ \/ object' = object \/ ToRecomputable(w) \/ ToPending(w) \/ CommitObject(w)
            \/ AbortObject(w)
         /\ resv' = resv \/ AbortReservation(w) \/ CommitReservation(w)
         /\ plan' = plan \/ StartPhysical(w)
         /\ \/ phase' = phase \/ ReclaimValidated(w) \/ StartPhysical(w) \/ PhysicalDone(w)
            \/ CommitJournal(w) \/ AbortJournal(w)
         /\ rows' = rows \/ \E p \in Payloads : CommitRow(w, p)
         /\ ablob' = ablob \/ DeleteArchive(w)
<1>1. CASE \/ ToRecomputable(w) \/ ToPending(w) \/ ReclaimValidated(w) \/ Survive(w)
           \/ ReadGraph(w) \/ CheckDependencies(w)
  BY <1>1, Zenon DEF ToRecomputable, ToPending, Transition, ReclaimValidated, Survive, ReadGraph,
     CheckDependencies, storeVars, journalVars, physVars
<1>2. CASE \/ ReclaimLock(w) \/ ReclaimLockFails(w) \/ PlanDeletions(w) \/ StartPhysical(w)
           \/ (\E p \in Payloads : DeletePayload(w, p)) \/ DeletedAll(w)
  BY <1>2, Zenon DEF ReclaimLock, ReclaimLockFails, PlanDeletions, StartPhysical, DeletePayload,
     DeletedAll, storeVars, journalVars, physVars
<1>3. CASE \/ DeleteArchive(w) \/ ArchiveMissing(w) \/ CheckDeleted(w) \/ PhysicalDone(w)
           \/ CommitEnter(w) \/ (\E p \in Payloads : CommitRow(w, p)) \/ CommitRelease(w)
  BY <1>3, Zenon DEF DeleteArchive, ArchiveMissing, CheckDeleted, PhysicalDone, CommitEnter,
     CommitRow, CommitRelease, storeVars, journalVars, physVars
<1>4. CASE \/ CommitRowsDone(w) \/ CommitArchive(w) \/ CommitObject(w)
           \/ CommitReservation(w) \/ CommitAttempt(w) \/ CommitJournal(w)
  BY <1>4, Zenon DEF CommitRowsDone, CommitArchive, CommitObject, CommitReservation,
     CommitAttempt, CommitJournal, CloseReservation, CloseAttempt, CloseJournal,
     storeVars, journalVars, physVars
<1>5. CASE \/ Indeterminate(w) \/ AbortObject(w) \/ AbortReservation(w)
           \/ AbortAttempt(w) \/ AbortJournal(w)
  BY <1>5, Zenon DEF Indeterminate, AbortObject, AbortReservation, AbortAttempt, AbortJournal,
     CloseReservation, CloseAttempt, CloseJournal, storeVars, journalVars, physVars
<1> QED
  BY <1>1, <1>2, <1>3, <1>4, <1>5 DEF ReclaimStep

\* Each kind of request has steps of its own.
LEMMA RequestPCs ==
  ASSUME NEW w \in Workers
  PROVE  /\ CreateStep(w) => pc[w] \in CreatePCs
         /\ VerifyStep(w) => pc[w] \in VerifyPCs
         /\ ArchiveStep(w) => pc[w] \in ArchivePCs
         /\ FlagWrite(w) => pc[w] \in FlagOps
<1>1. ASSUME CreateStep(w) PROVE pc[w] \in CreatePCs
  BY <1>1 DEF CreateStep, CreateLock, CreateLockFails, CreateWrite, CreateInsert, CreateRow,
     Publish, CreateAcquire, CreateRefuse, CreateMiss, CreateUnref, CreateUnblob, UndoLock,
     UndoLockFails, UndoEnter, UndoRelease, UndoLeave, UndoReturn, UndoRow, UndoBlob,
     CreatePCs
<1>2. ASSUME VerifyStep(w) PROVE pc[w] \in VerifyPCs
  BY <1>2 DEF VerifyStep, VerifyLock, VerifyLockFails, VerifyGood, VerifyBad,
     VerifyInvalidate, VerifyInvalidateFails, VerifyInvalidated, VerifyReturn, VerifyPCs
<1> QED
  BY <1>1, <1>2, ArchiveWrites DEF FlagWrite

\* RECLAIMED is final for the requests: nobody who writes the row has an object
\* that is reclaimed.
LEMMA ReclaimedStays ==
  ASSUME TypeInv, JournalInv, LedgerInv, NEW w \in Workers,
         WorkerStep(w) \/ WorkerFault(w), NEW q \in Objects, object[q].state = "RECLAIMED"
  PROVE  object'[q].state = "RECLAIMED"
<1>0. WorkStep(w)
  BY WorkerWork, FaultWork
<1>1. PICK o \in Objects : o = loc[w].obj
  BY <1>0, NoRecoveryNow DEF WorkStep
<1>2. /\ q # o => object'[q] = object[q]
      /\ Holds(pc[w], loc[w]) /\ WorkerOrder(w)
  BY <1>0, <1>1 DEF WorkStep, WritesObject, LedgerInv, JournalInv
<1>3. CASE object' = object
  BY <1>3
<1>4. CASE FlagWrite(w)
  <2> DEFINE row == [loc[w].seen EXCEPT !.flags = FlagResult(pc[w], @)]
  <2>1. UpdateObject(o, row) /\ pc[w] \in FlagOps
    BY <1>1, <1>4 DEF FlagWrite
  <2>2. row.state = loc[w].seen.state
    BY LocalsFields DEF ObjectRow
  <2>3. object'[o] = row
    BY <2>1, UpdateFrame
  <2> QED
    BY <1>1, <1>2, <2>1, <2>2, <2>3 DEF WorkerOrder
<1>5. CASE Publish(w) \/ ArchivePublish(w)
  <2>1. pc[w] \in CreatePCs \cup ArchivePCs
    BY <1>5 DEF Publish, ArchivePublish, CreatePCs, ArchivePCs
  <2> QED
    BY <1>1, <1>2, <2>1 DEF Holds
<1>6. CASE ToRecomputable(w) \/ ToPending(w) \/ AbortObject(w)
  <2>1. pc[w] \in BeforePCs
    BY <1>6 DEF ToRecomputable, ToPending, Transition, AbortObject, BeforePCs
  <2> QED
    BY <1>1, <1>2, <2>1 DEF Holds
<1>7. CASE CommitObject(w)
  <2> DEFINE row == [loc[w].seen EXCEPT !.state = "RECLAIMED"]
  <2>1. UpdateObject(o, row) /\ row.state = "RECLAIMED"
    BY <1>1, <1>7, LocalsFields DEF CommitObject, ObjectRow
  <2> QED
    BY <1>2, <2>1, UpdateFrame
<1> QED
  BY <1>3, <1>4, <1>5, <1>6, <1>7, FailWrites, CreateWrites, VerifyWrites, ArchiveWrites,
     ReclaimWrites DEF WorkerStep

-----------------------------------------------------------------------------
(* One open entry for each object. *)

\* The steps of a reclaim at which its reservation is still open, or its
\* object reclaimed.
ReservedPCs == ReclaimPCs \ {"abort_att", "abort_jrnl"}

Reserved(c, l) ==
  c \in ReservedPCs => resv[l.att] = "OPEN" \/ object[l.obj].state = "RECLAIMED"

\* Why reclaim refuses an object that has an open entry.
Accounted(a) ==
  \/ resv[a] = "OPEN"
  \/ object[entry[a].obj].state = "RECLAIMED"
  \/ \E w \in Workers : loc[w].att = a

SingleInv ==
  /\ OneOpenJournal
  /\ mode = "up" => \A a \in OpenAttempts : Accounted(a)
  /\ \A w \in Workers : Reserved(pc[w], loc[w])

\* A worker's own entry is open, and no entry is opened by a request in
\* progress.
LEMMA OpenStays ==
  ASSUME TypeInv, JournalInv, RecoveryInv, NEW w \in Workers, WorkStep(w)
  PROVE  /\ OpenAttempts' \subseteq OpenAttempts
         /\ loc[w].att \in Attempts => loc[w].att \in OpenAttempts
<1>1. ReclaimSound(w)
  BY DEF RecoveryInv
<1>2. pc[w] \in ReclaimPCs => loc[w].att \in Attempts
  BY DEF JournalInv, WorkerOwns
<1>3. loc[w].att \in Attempts => phase[loc[w].att] \in OpenPhases
  BY <1>1, ReclaimSides DEF ReclaimSound, PrePhysical, OpenPhases
<1>4. ASSUME NEW b \in Attempts, phase'[b] \in OpenPhases PROVE phase[b] \in OpenPhases
  <2>1. b = loc[w].att \/ phase'[b] = phase[b]
    BY DEF WorkStep, WritesJournal
  <2> QED
    BY <1>3, <1>4, <2>1
<1> QED
  BY <1>3, <1>4 DEF OpenAttempts

LEMMA SingleStep ==
  ASSUME TypeInv, JournalInv, RecoveryInv, LedgerInv, SingleInv,
         NEW w \in Workers, WorkStep(w),
         NEW o \in Objects, o = loc[w].obj,
         \A a \in Attempts : a # loc[w].att => resv'[a] = resv[a],
         \A q \in Objects : object[q].state = "RECLAIMED" => object'[q].state = "RECLAIMED",
         Reserved(pc[w], loc[w])',
         (pc'[w] = "idle" /\ loc[w].att \in Attempts)
           => \/ phase'[loc[w].att] \notin OpenPhases
              \/ resv'[loc[w].att] = "OPEN"
              \/ object'[o].state = "RECLAIMED"
  PROVE  SingleInv'
<1>1. /\ OpenAttempts' \subseteq OpenAttempts /\ UNCHANGED <<entry, mode>> /\ mode = "up"
      /\ \A v \in Workers \ {w} : pc'[v] = pc[v] /\ loc'[v] = loc[v]
  BY OpenStays, NoRecoveryNow DEF WorkStep
<1>2. OneOpenJournal'
  BY <1>1 DEF SingleInv, OneOpenJournal
<1>3. ASSUME NEW a \in OpenAttempts' PROVE Accounted(a)'
  <2>0. a \in OpenAttempts /\ a \in Attempts /\ phase'[a] \in OpenPhases
    BY <1>1, <1>3 DEF OpenAttempts
  <2>1. Accounted(a)
    BY <1>1, <2>0 DEF SingleInv
  <2>2. entry[a].obj \in Objects
    BY <2>0 DEF OpenAttempts, OpenPhases, JournalInv, EntriesKnown
  <2>3. CASE a = loc[w].att /\ pc'[w] # "idle"
    <3>1. loc'[w].att = a
      BY <2>3 DEF WorkStep, Returns, GoesOn, Kept
    <3> QED
      BY <3>1 DEF Accounted
  <2>4. CASE a = loc[w].att /\ pc'[w] = "idle"
    <3>1. entry[a].obj = o
      BY <2>0, <2>4 DEF JournalInv, WorkerOwns
    <3> QED
      BY <1>1, <2>0, <2>4, <3>1 DEF Accounted
  <2>5. CASE a # loc[w].att
    <3>1. resv'[a] = resv[a] /\ \A v \in Workers : loc[v].att = a => loc'[v].att = a
      BY <1>1, <2>0, <2>5
    <3> QED
      BY <1>1, <2>1, <2>2, <3>1 DEF Accounted
  <2> QED
    BY <2>3, <2>4, <2>5
<1>4. ASSUME NEW v \in Workers PROVE Reserved(pc[v], loc[v])'
  <2>1. CASE v = w
    BY <2>1
  <2>2. CASE v # w
    <3>1. pc'[v] = pc[v] /\ loc'[v] = loc[v] /\ Reserved(pc[v], loc[v])
      BY <1>1, <2>2 DEF SingleInv
    <3>2. pc[v] \in ReservedPCs
            => /\ loc[v].obj \in Objects /\ loc[v].att \in Attempts
               /\ loc[v].att # loc[w].att
      BY <2>2, Disjoint DEF ReservedPCs, JournalInv, WorkerOwns
    <3> QED
      BY <3>1, <3>2 DEF Reserved
  <2> QED
    BY <2>1, <2>2
<1> QED
  BY <1>2, <1>3, <1>4 DEF SingleInv

\* A statement of abort_reclaim fails once the reservation is closed.
AbortFails(w) == pc[w] \in {"abort_att", "abort_jrnl"} /\ StatementError(w)

\* An abort that has closed the reservation goes on to close the entry, unless
\* a statement fails.
LEMMA AbortCloses ==
  ASSUME TypeInv, JournalInv, NEW w \in Workers, ~AbortFails(w),
         WorkerStep(w) \/ WorkerFault(w), pc[w] \in {"abort_att", "abort_jrnl"}
  PROVE  \/ pc'[w] = "abort_jrnl"
         \/ pc'[w] = "idle" /\ phase'[loc[w].att] \notin OpenPhases
<1>1. pc[w] \in ClosurePCs /\ pc[w] \notin EnteringPCs /\ pc[w] \in AbortPCs
  BY DEF ClosurePCs, EnteringPCs, AbortPCs
<1>2. CASE WorkerFault(w) \/ AuthorityError(w)
  <2>1. ~StatementError(w)
    BY DEF AbortFails
  <2> QED
    BY <1>1, <1>2, <2>1 DEF WorkerFault, AuthorityError, EntryHeartbeatError, CallsStore,
       WriteError, ReadError, ArchiveError, DeleteError, VerifyReadError
<1>3. CASE AbortAttempt(w)
  BY <1>3, GotoFrame DEF AbortAttempt, CloseAttempt
<1>4. CASE AbortJournal(w)
  <2>1. loc[w].att \in Attempts
    BY <1>1, ReclaimSides DEF JournalInv, WorkerOwns, ReclaimPCs
  <2>2. phase' = [phase EXCEPT ![loc[w].att] = "ROLLED_BACK"] /\ Return(w)
    BY <1>4 DEF AbortJournal, CloseJournal, UpdateJournalPhase
  <2>3. phase'[loc[w].att] = "ROLLED_BACK"
    BY <2>1, <2>2 DEF TypeInv, TypeOK, JournalTypeOK
  <2> QED
    BY <2>2, <2>3, ReturnOwns DEF OpenPhases
<1>5. CASE CreateStep(w) \/ VerifyStep(w) \/ ArchiveStep(w) \/ FlagWrite(w)
  <2>1. pc[w] \in CreatePCs \cup VerifyPCs \cup ArchivePCs \cup FlagOps
    BY <1>5, RequestPCs
  <2> QED
    BY <1>1, <2>1 DEF CreatePCs, VerifyPCs, ArchivePCs, FlagOps
<1>6. CASE ReclaimStep(w) /\ ~AbortAttempt(w) /\ ~AbortJournal(w)
  <2>1. ~(\/ ToRecomputable(w) \/ ToPending(w) \/ ReclaimValidated(w) \/ Survive(w)
          \/ ReadGraph(w) \/ CheckDependencies(w) \/ ReclaimLock(w) \/ ReclaimLockFails(w)
          \/ PlanDeletions(w) \/ StartPhysical(w) \/ DeletedAll(w)
          \/ \E p \in Payloads : DeletePayload(w, p))
    BY DEF ToRecomputable, ToPending, Transition, ReclaimValidated, Survive, ReadGraph,
       CheckDependencies, ReclaimLock, ReclaimLockFails, PlanDeletions, StartPhysical,
       DeletePayload, DeletedAll
  <2>2. ~(\/ DeleteArchive(w) \/ ArchiveMissing(w) \/ CheckDeleted(w) \/ PhysicalDone(w)
          \/ CommitEnter(w) \/ (\E p \in Payloads : CommitRow(w, p)) \/ CommitRelease(w)
          \/ CommitRowsDone(w) \/ CommitArchive(w) \/ CommitObject(w)
          \/ CommitReservation(w) \/ CommitAttempt(w) \/ CommitJournal(w)
          \/ Indeterminate(w) \/ AbortObject(w) \/ AbortReservation(w))
    BY DEF DeleteArchive, ArchiveMissing, CheckDeleted, PhysicalDone, CommitEnter,
       CommitRow, CommitRelease, CommitRowsDone, CommitArchive, CommitObject,
       CommitReservation, CommitAttempt, CommitJournal, CloseReservation, CloseAttempt,
       CloseJournal, Indeterminate, AbortObject, AbortReservation
  <2> QED
    BY <1>6, <2>1, <2>2 DEF ReclaimStep
<1> QED
  BY <1>2, <1>3, <1>4, <1>5, <1>6 DEF WorkerStep

LEMMA WorkerSingle ==
  ASSUME TypeInv, JournalInv, RecoveryInv, LedgerInv, SingleInv,
         NEW w \in Workers, ~AbortFails(w), WorkerStep(w) \/ WorkerFault(w)
  PROVE  SingleInv'
<1>0. WorkStep(w)
  BY WorkerWork, FaultWork
<1>1. PICK o \in Objects : o = loc[w].obj
  BY <1>0, NoRecoveryNow DEF WorkStep
<1> DEFINE a == loc[w].att
<1>2. /\ Reserved(pc[w], loc[w]) /\ Holds(pc[w], loc[w])
      /\ pc[w] \in ReclaimPCs => a \in Attempts
      /\ a \in Attempts => pc[w] \in ReclaimPCs
  BY DEF SingleInv, LedgerInv, JournalInv, WorkerOwns, RecoveryInv, ReclaimSound
<1>3. \A q \in Objects : object[q].state = "RECLAIMED" => object'[q].state = "RECLAIMED"
  BY ReclaimedStays
<1>4. /\ pc'[w] \in ReclaimPCs => pc[w] \in ReclaimPCs /\ loc'[w].obj = o /\ loc'[w].att = a
      /\ "idle" \notin ReclaimPCs
  BY <1>0, <1>1, ReclaimSides DEF WorkStep, Returns, GoesOn, Kept
<1>5. CASE resv' = resv
  <2>1. pc'[w] \in ReservedPCs => pc[w] \in ReservedPCs
    BY <1>4, AbortCloses DEF ReservedPCs
  <2>2. Reserved(pc[w], loc[w])'
    BY <1>1, <1>2, <1>3, <1>4, <1>5, <2>1 DEF Reserved, ReservedPCs
  <2>3. ASSUME pc'[w] = "idle", a \in Attempts
        PROVE  \/ phase'[a] \notin OpenPhases
               \/ resv'[a] = "OPEN"
               \/ object'[o].state = "RECLAIMED"
    <3>1. CASE pc[w] \in ReservedPCs
      BY <1>1, <1>2, <1>3, <1>5, <3>1 DEF Reserved
    <3>2. CASE pc[w] \notin ReservedPCs
      BY <1>2, <2>3, <3>2, AbortCloses DEF ReservedPCs
    <3> QED
      BY <3>1, <3>2
  <2> QED
    BY <1>0, <1>1, <1>3, <1>5, <2>2, <2>3, SingleStep
<1>6. CASE AbortReservation(w) \/ CommitReservation(w)
  <2>1. /\ \/ pc[w] = "abort_resv" /\ pc'[w] = "abort_att"
           \/ pc[w] = "cmt_resv" /\ pc'[w] = "cmt_att"
        /\ \E s : resv' = [resv EXCEPT ![a] = s]
    BY <1>6, GotoFrame DEF AbortReservation, CommitReservation, CloseReservation
  <2>2. \A b \in Attempts : b # a => resv'[b] = resv[b]
    BY <2>1 DEF TypeInv, TypeOK, JournalTypeOK
  <2>3. pc'[w] = "cmt_att" => object'[o].state = "RECLAIMED"
    BY <1>1, <1>2, <1>3, <2>1 DEF Holds, ClosedPCs
  <2>4. Reserved(pc[w], loc[w])'
    BY <1>4, <2>1, <2>3 DEF Reserved, ReservedPCs
  <2> QED
    BY <1>0, <1>1, <1>3, <2>1, <2>2, <2>4, SingleStep
<1>7. CASE FlagWrite(w)
  BY <1>5, <1>7 DEF FlagWrite, journalVars
<1> QED
  BY <1>5, <1>6, <1>7, FailWrites, CreateWrites, VerifyWrites, ArchiveWrites, ReclaimWrites
  DEF WorkerStep

LEMMA ReserveSingle ==
  ASSUME TypeInv, JournalInv, SingleInv, NEW w \in Workers, NEW o \in Objects,
         NEW a \in Attempts, Reserve(w, o, a)
  PROVE  SingleInv'
<1> DEFINE e == [obj |-> o, prior |-> object[o], rows |-> rows[o], arch |-> arch[o]]
           r == [loc[w] EXCEPT !.obj = o, !.att = a, !.seen = object[o], !.todo = Rows(o)]
<1>1. /\ pc[w] = "idle" /\ phase[a] = "NONE" /\ mode = "up" /\ o \notin ActiveObjects
      /\ object[o].state # "RECLAIMED" /\ ~HasOpenReservation(o)
      /\ phase' = [phase EXCEPT ![a] = "RESERVED"] /\ entry' = [entry EXCEPT ![a] = e]
      /\ resv' = [resv EXCEPT ![a] = "OPEN"] /\ UNCHANGED <<object, mode>>
      /\ SetLocals(w, r)
  BY DEF Reserve, Enter, ObjectOperationAllowed, ReclaimAllowed, storeVars, procVars
<1>2. /\ entry'[a].obj = o /\ resv'[a] = "OPEN"
      /\ \A b \in Attempts \ {a} : /\ phase'[b] = phase[b] /\ entry'[b] = entry[b]
                                   /\ resv'[b] = resv[b]
  BY <1>1 DEF TypeInv, TypeOK, JournalTypeOK
<1>3. ASSUME NEW b \in OpenAttempts PROVE entry[b].obj # o /\ b \in Attempts \ {a}
  <2>1. b \in Attempts /\ b # a
    BY <1>1, <1>3 DEF OpenAttempts, OpenPhases
  <2>2. Accounted(b)
    BY <1>1, <1>3 DEF SingleInv
  <2>3. ASSUME NEW v \in Workers, loc[v].att = b, entry[b].obj = o PROVE FALSE
    <3>1. loc[v].obj = o
      BY <2>1, <2>3 DEF JournalInv, WorkerOwns
    <3>2. o # None
      BY ConstantsAssumption DEF ConstantsAssumption
    <3> QED
      BY <1>1, <3>1, <3>2 DEF ActiveObjects
  <2> QED
    BY <1>1, <2>1, <2>2, <2>3 DEF Accounted, HasOpenReservation
<1>4. OpenAttempts' \subseteq OpenAttempts \cup {a}
  BY <1>2 DEF OpenAttempts
<1>5. OneOpenJournal'
  BY <1>2, <1>3, <1>4 DEF SingleInv, OneOpenJournal
<1>6. loc'[w] = r /\ \A v \in Workers \ {w} : loc'[v] = loc[v]
  BY <1>1, LocalsFrame
<1>7. r.att = a /\ r.obj = o
  BY LocalsFields DEF Locals
<1>8. loc[w].att = None /\ None \notin Attempts
  BY <1>1, IdleHasNone, LocalsOf
<1>9. ASSUME NEW b \in OpenAttempts' PROVE Accounted(b)'
  <2>1. CASE b = a
    BY <1>2, <2>1 DEF Accounted
  <2>2. CASE b # a
    <3>1. b \in OpenAttempts /\ Accounted(b) /\ b \in Attempts \ {a}
      BY <1>1, <1>3, <1>4, <1>9, <2>2 DEF SingleInv
    <3>2. resv'[b] = resv[b] /\ entry'[b] = entry[b] /\ object' = object
      BY <1>1, <1>2, <3>1
    <3>3. \A v \in Workers : loc[v].att = b => loc'[v].att = b
      BY <1>6, <1>8, <3>1
    <3> QED
      BY <3>1, <3>2, <3>3 DEF Accounted
  <2> QED
    BY <2>1, <2>2
<1>10. \A v \in Workers \ {w} : pc'[v] = pc[v]
  <2>1. \E c \in {"recomputable", "validate", "pending"} : Goto(w, c)
    BY Zenon DEF Reserve
  <2> QED
    BY <2>1, GotoFrame
<1>11. ASSUME NEW v \in Workers PROVE Reserved(pc[v], loc[v])'
  <2>1. CASE v = w
    BY <1>2, <1>6, <1>7, <2>1 DEF Reserved
  <2>2. CASE v # w
    <3>1. pc'[v] = pc[v] /\ loc'[v] = loc[v] /\ Reserved(pc[v], loc[v])
      BY <1>6, <1>10, <2>2 DEF SingleInv
    <3>2. pc[v] \in ReservedPCs => loc[v].att \in Attempts \ {a}
      BY <1>1 DEF ReservedPCs, JournalInv, WorkerOwns
    <3> QED
      BY <1>1, <1>2, <3>1, <3>2 DEF Reserved
  <2> QED
    BY <2>1, <2>2
<1> QED
  BY <1>5, <1>9, <1>11 DEF SingleInv

\* A request that opens no entry.
LEMMA BeginSingle ==
  ASSUME TypeInv, JournalInv, SingleInv, NEW w \in Workers,
         UNCHANGED <<object, phase, entry, resv, mode>>, pc[w] = "idle",
         pc'[w] \notin ReclaimPCs,
         \A v \in Workers \ {w} : pc'[v] = pc[v] /\ loc'[v] = loc[v]
  PROVE  SingleInv'
<1>1. OpenAttempts' = OpenAttempts /\ OneOpenJournal'
  BY DEF SingleInv, OneOpenJournal, OpenAttempts
<1>2. loc[w].att = None /\ None \notin OpenAttempts
  BY IdleHasNone, LocalsOf DEF OpenAttempts
<1>3. ASSUME NEW a \in OpenAttempts, Accounted(a) PROVE Accounted(a)'
  BY <1>2, <1>3 DEF Accounted
<1>4. ASSUME NEW v \in Workers PROVE Reserved(pc[v], loc[v])'
  BY DEF SingleInv, Reserved, ReservedPCs
<1> QED
  BY <1>1, <1>3, <1>4 DEF SingleInv

LEMMA RequestSingle ==
  ASSUME TypeInv, JournalInv, SingleInv, "recover" \notin Requests,
         NEW w \in Workers, Request(w)
  PROVE  SingleInv'
<1>1. ASSUME NEW c, c \notin ReclaimPCs, Goto(w, c), NEW l, SetLocals(w, l),
             UNCHANGED <<object, phase, entry, resv, mode>>, pc[w] = "idle"
      PROVE  SingleInv'
  BY <1>1, GotoFrame, LocalsFrame, BeginSingle
<1>2. ASSUME NEW o \in Objects, NEW kind \in FlagOps, FlagBegin(w, o, kind)
      PROVE  SingleInv'
  BY <1>1, <1>2, ReclaimSides DEF FlagBegin, storeVars, journalVars, procVars
<1>3. ASSUME NEW o \in Objects, CreateBegin(w, o) PROVE SingleInv'
  <2>1. "publish" \notin ReclaimPCs /\ "create_lock" \notin ReclaimPCs
    BY DEF ReclaimPCs, CommitPCs, AbortPCs
  <2> QED
    BY <1>1, <1>3, <2>1 DEF CreateBegin, storeVars, journalVars, procVars
<1>4. ASSUME NEW o \in Objects, VerifyBegin(w, o) \/ ArchiveBegin(w, o) PROVE SingleInv'
  <2>1. "ver_lock" \notin ReclaimPCs /\ "arc_write" \notin ReclaimPCs
    BY DEF ReclaimPCs, CommitPCs, AbortPCs
  <2> QED
    BY <1>1, <1>4, <2>1 DEF VerifyBegin, ArchiveBegin, storeVars, journalVars, procVars
<1>5. CASE \E e \in EdgeChoices : AddLineage(w, e) \/ RemoveLineage(w, e)
  <2>1. pc[w] = "idle" /\ UNCHANGED <<object, phase, entry, resv, mode, pc, loc>>
    BY <1>5 DEF AddLineage, RemoveLineage, journalVars, procVars
  <2> QED
    BY <2>1, ReclaimSides, BeginSingle
<1> QED
  BY <1>2, <1>3, <1>4, <1>5, ReserveSingle DEF Request, RecoverRequest

-----------------------------------------------------------------------------
(* Recovery writes the journal only to close its entry. *)

LEMMA RecoveryWrites ==
  ASSUME RecoveryStep
  PROVE  /\ UNCHANGED <<entry, plan, blob, ablob>>
         /\ phase' = phase \/ RollbackJournal \/ RecCommitJournal
<1>1. CASE \/ RecScan \/ RecQueueEmpty \/ RecExpire \/ RecRepair \/ RecLineage \/ RecEnd
           \/ RecStoreError \/ RecRepairPartial
           \/ \E a \in Attempts : RecNext(a) \/ RecBackendError(a)
  BY <1>1, Zenon DEF RecScan, RecQueueEmpty, RecExpire, RecRepair, RecLineage, RecEnd,
     RecStoreError, RecRepairPartial, RecNext, RecBackendError, journalVars, physVars
<1>2. CASE \/ RollbackObject \/ RollbackRowsDone \/ RollbackArchive \/ RollbackRepair
           \/ RecCommitRelease \/ RecCommitRowsDone \/ RecCommitArchive \/ RecCommitObject
           \/ \E p \in Payloads : RollbackRow(p) \/ RollbackRowConflict(p) \/ RecCommitRow(p)
  BY <1>2, Zenon DEF RollbackObject, RollbackRowsDone, RollbackArchive, RollbackRepair,
     RecCommitRelease, RecCommitRowsDone, RecCommitArchive, RecCommitObject, RollbackRow,
     RollbackRowConflict, RecCommitRow, journalVars, physVars
<1>3. CASE \/ RollbackReservation \/ RollbackAttempt \/ RollbackJournal
           \/ RecCommitReservation \/ RecCommitAttempt \/ RecCommitJournal
  BY <1>3, Zenon DEF RollbackReservation, RollbackAttempt, RollbackJournal,
     RecCommitReservation, RecCommitAttempt, RecCommitJournal, RecReservation, RecAttempt,
     RecJournal, physVars
<1> QED
  BY <1>1, <1>2, <1>3 DEF RecoveryStep

LEMMA RecoveryCloses ==
  ASSUME TypeInv, RecoveryStep
  PROVE  /\ OpenAttempts' \subseteq OpenAttempts
         /\ \A a \in OpenAttempts' : phase'[a] = phase[a]
<1>1. CASE phase' = phase
  BY <1>1 DEF OpenAttempts
<1>2. CASE RollbackJournal \/ RecCommitJournal
  <2>1. \E s \in {"ROLLED_BACK", "COMMITTED"} : phase' = [phase EXCEPT ![rec.att] = s]
    BY <1>2 DEF RollbackJournal, RecCommitJournal, RecJournal, UpdateJournalPhase
  <2> QED
    BY <2>1 DEF TypeInv, TypeOK, JournalTypeOK, OpenAttempts, OpenPhases
<1> QED
  BY <1>1, <1>2, RecoveryWrites

\* At the end of recovery the process serves, if it does, without an open entry.
LEMMA RecoveryModes ==
  ASSUME TypeInv, JournalInv, RecoveryInv, PayloadInv, RecoveryStep
  PROVE  /\ mode # "up"
         /\ mode' = "up" => OpenAttempts = {}
         /\ \A w \in Workers : pc'[w] \in {"idle", "recover"}
<1>1. rpc # "off" /\ (RecEnd \/ UNCHANGED <<mode, pc, loc>>)
  BY RecoveryOutside
<1>2. mode # "up" /\ \A w \in Workers : pc[w] \in {"idle", "recover"}
  BY <1>1, AllIdle DEF PayloadInv
<1>3. CASE UNCHANGED <<mode, pc, loc>>
  BY <1>2, <1>3
<1>4. CASE RecEnd
  <2>1. mode = "starting"
    BY <1>2, <1>4 DEF RecEnd, RecAt, TypeInv, TypeOK, ProcTypeOK
  <2>2. SoundStep
    BY <1>4, EndSound
  <2>3. mode' = "up" => OpenAttempts = {}
    BY <2>1, <2>2 DEF SoundStep, StartStep
  <2>4. UNCHANGED pc \/ pc' = [pc EXCEPT ![rec.by] = "idle"]
    BY <1>4, Zenon DEF RecEnd, Return, Goto
  <2> QED
    BY <1>2, <2>3, <2>4 DEF TypeInv, TypeOK, WorkTypeOK
<1> QED
  BY <1>1, <1>3, <1>4

LEMMA NextSingle ==
  ASSUME "recover" \notin Requests
  PROVE  TypeInv /\ JournalInv /\ RecoveryInv /\ PayloadInv /\ LedgerInv /\ SingleInv
           /\ [Next]_vars /\ (\A w \in Workers : ~AbortFails(w)) => SingleInv'
<1> SUFFICES ASSUME TypeInv, JournalInv, RecoveryInv, PayloadInv, LedgerInv, SingleInv,
                    [Next]_vars, \A w \in Workers : ~AbortFails(w)
             PROVE  SingleInv'
  OBVIOUS
<1>1. ASSUME UNCHANGED <<object, phase, entry, resv, mode, pc, loc>> PROVE SingleInv'
  BY <1>1 DEF SingleInv, OneOpenJournal, OpenAttempts, Accounted, Reserved
<1>2. ASSUME OpenAttempts' \subseteq OpenAttempts, entry' = entry,
             mode' = "up" => OpenAttempts = {},
             \A w \in Workers : pc'[w] \in {"idle", "recover"}
      PROVE  SingleInv'
  <2>1. OneOpenJournal'
    BY <1>2 DEF SingleInv, OneOpenJournal
  <2>2. \A w \in Workers : Reserved(pc[w], loc[w])'
    BY <1>2, ReclaimSides DEF Reserved, ReservedPCs
  <2> QED
    BY <1>2, <2>1, <2>2 DEF SingleInv
<1>3. CASE UNCHANGED vars
  BY <1>1, <1>3 DEF vars, storeVars, journalVars, procVars, workVars
<1>4. CASE RecoveryStep
  BY <1>2, <1>4, RecoveryCloses, RecoveryModes, RecoveryWrites
<1>5. CASE Process
  <2>1. CASE Start
    <3>1. UNCHANGED <<phase, entry, pc>> /\ mode = "down" /\ mode' = "starting"
      BY <2>1 DEF Start, journalVars, workVars
    <3> QED
      BY <1>2, <3>1, AllIdle DEF OpenAttempts
  <2>2. CASE Exit \/ Crash
    BY <1>2, <2>2 DEF Exit, Crash, Vanish, journalVars, OpenAttempts
  <2>3. CASE RequestShutdown \/ HeartbeatThreadError
    BY <1>1, <2>3 DEF RequestShutdown, HeartbeatThreadError, storeVars, journalVars, workVars
  <2> QED
    BY <1>5, <2>1, <2>2, <2>3 DEF Process
<1>6. ASSUME NEW p \in Payloads, Corrupt(p) PROVE SingleInv'
  BY <1>1, <1>6 DEF Corrupt, storeVars, journalVars, procVars, workVars
<1> QED
  BY <1>3, <1>4, <1>5, <1>6, WorkerSingle, RequestSingle DEF Next

LEMMA InitSingle == Init => SingleInv
<1> SUFFICES ASSUME Init PROVE SingleInv
  OBVIOUS
<1>1. OpenAttempts = {} /\ \A w \in Workers : pc[w] = "idle"
  BY DEF Init, OpenAttempts, OpenPhases
<1> QED
  BY <1>1, ReclaimSides DEF SingleInv, OneOpenJournal, Reserved, ReservedPCs

LEMMA AlwaysSingle ==
  ASSUME "recover" \notin Requests, {"abort_att", "abort_jrnl"} \cap FaultSites = {}
  PROVE  Spec => []SingleInv
<1>1. TypeInv /\ JournalInv /\ RecoveryInv /\ PayloadInv /\ LedgerInv /\ SingleInv
        /\ [Next]_vars => SingleInv'
  <2>1. \A w \in Workers : ~AbortFails(w)
    BY DEF AbortFails, StatementError
  <2> QED
    BY <2>1, NextSingle
<1> QED
  BY <1>1, InitSingle, AlwaysSound, AlwaysPayloads, AlwaysLedger, PTL DEF Spec

(* persistence.rs create_reclaim_reservation: reclaim asks only for an open   *)
(* reservation, and still no object gets two open entries, whatever fails or  *)
(* crashes, as long as the last two statements of abort_reclaim succeed.      *)
(* If one of them fails, the reservation is closed and the entry stays open.  *)
THEOREM NoSecondJournal ==
  ASSUME "recover" \notin Requests, {"abort_att", "abort_jrnl"} \cap FaultSites = {}
  PROVE  Spec => []OneOpenJournal
<1>1. SingleInv => OneOpenJournal
  BY DEF SingleInv
<1> QED
  BY <1>1, AlwaysSingle, PTL

-----------------------------------------------------------------------------
(* RECLAIMED is terminal. *)

\* Something has been taken from the object of an entry, ...
Taken(a) ==
  \/ object[entry[a].obj].state = "RECLAIMED"
  \/ ~(EntryRows(a) \subseteq Rows(entry[a].obj))

\* ... which recovery then has to commit: the backends answer that all is gone.
Finished(a) ==
  /\ phase[a] \in PhysicalPhases
  /\ \A p \in plan[a] : blob[p] = "absent"
  /\ ~ArchivePresent(a)
  /\ NoPhysicalWork(a) => phase[a] = "PHYSICAL_DONE"

\* And it stays so: its reclaim has the guards of the payloads, or nobody gets
\* them any more.
Sealed(a) ==
  \/ \E w \in Workers : loc[w].att = a
  \/ lost /\ \A v \in Workers : loc[v].held \cap plan[a] = {}

\* At step c of a reclaim with local variables l.
CheckedPCs == {"done", "commit"} \cup CommitPCs
LivePCs == {"delete", "arch", "check", "done", "commit", "cmt_row", "cmt_release",
            "cmt_arch", "cmt_obj"}

Deleted(c, l) ==
  /\ c \in AfterPCs => plan[l.att] \subseteq l.held
  /\ c = "delete" => l.todo \subseteq plan[l.att]
  /\ c \in CheckedPCs \cup {"check"} => ~ArchivePresent(l.att)
  /\ c \in CheckedPCs => \A p \in plan[l.att] : blob[p] = "absent"
  /\ c \in CheckedPCs \ {"done"} => phase[l.att] = "PHYSICAL_DONE"
  /\ c \in LivePCs => object[l.obj].state # "RECLAIMED"

TerminalInv ==
  /\ \A a \in Attempts : plan[a] \subseteq EntryRows(a)
  /\ \A a \in OpenAttempts : Taken(a) => Finished(a) /\ (mode = "up" => Sealed(a))
  /\ \A w \in Workers : Deleted(pc[w], loc[w])
  /\ rpc \in RecCommitPCs => Finished(rec.att)
  /\ rpc \in RollbackPCs => ~Finished(rec.att)

LEMMA DeletedSides ==
  /\ CheckedPCs \cup LivePCs \subseteq AfterPCs
  /\ AfterPCs \cap ({"idle", "recover"} \cup BeforePCs \cup CreatePCs \cup VerifyPCs
                    \cup ArchivePCs \cup FlagOps) = {}
BY DEF CheckedPCs, LivePCs, AfterPCs, BeforePCs, CommitPCs, AbortPCs, CreatePCs, VerifyPCs,
   ArchivePCs, FlagOps

-----------------------------------------------------------------------------
(* Guards and the archive payload. *)

LEMMA HeldKept ==
  ASSUME TypeInv, NEW w \in Workers
  PROVE  /\ UNCHANGED loc => loc'[w].held = loc[w].held
         /\ Return(w) => loc'[w].held = {}
         /\ \A x : SetLocals(w, [loc[w] EXCEPT !.todo = x]) => loc'[w].held = loc[w].held
         /\ \A x : SetLocals(w, [loc[w] EXCEPT !.cur = x]) => loc'[w].held = loc[w].held
         /\ \A x : SetLocals(w, [loc[w] EXCEPT !.kin = x]) => loc'[w].held = loc[w].held
         /\ \A x, y : SetLocals(w, [loc[w] EXCEPT !.todo = x, !.cur = y])
                        => loc'[w].held = loc[w].held
         /\ \A x, y : SetLocals(w, [loc[w] EXCEPT !.done = x, !.cur = y])
                        => loc'[w].held = loc[w].held
         /\ \A x, y : SetLocals(w, [loc[w] EXCEPT !.cur = x, !.todo = y])
                        => loc'[w].held = loc[w].held
         /\ \A x, y, z, u :
              SetLocals(w, [loc[w] EXCEPT !.todo = x, !.done = y, !.cur = z, !.held = u])
                => loc'[w].held = u
<1>1. loc[w] \in Locals /\ NoLocals.held = {}
  BY LocalsFields DEF NoLocals
<1>2. ASSUME Return(w) PROVE loc'[w].held = {}
  BY <1>1, <1>2, LocalsFrame DEF Return
<1>3. ASSUME NEW r, SetLocals(w, r) PROVE loc'[w] = r
  BY <1>3, LocalsFrame
<1> QED
  BY <1>1, <1>2, <1>3 DEF Locals

\* Without authority nobody gets a payload guard.
LEMMA HeldShrinks ==
  ASSUME TypeInv, NEW w \in Workers, WorkerStep(w) \/ WorkerFault(w), lost
  PROVE  loc'[w].held \subseteq loc[w].held
<1> DEFINE Same == loc'[w].held \subseteq loc[w].held
<1>0. ~MayPoll
  BY DEF MayPoll
<1>1. CASE AuthorityError(w) \/ StatementError(w) \/ EntryHeartbeatError(w)
  <2>1. Return(w) \/ UNCHANGED loc
    BY <1>1, Zenon DEF AuthorityError, StatementError, EntryHeartbeatError, StepFails
  <2> QED
    BY <2>1, HeldKept
<1>2. CASE WriteError(w) \/ ReadError(w) \/ ArchiveError(w) \/ \E p \in Payloads : DeleteError(w, p)
  <2>1. Return(w) \/ UNCHANGED loc
    BY <1>2, Zenon DEF WriteError, ReadError, ArchiveError, DeleteError
  <2> QED
    BY <2>1, HeldKept
<1>3. ASSUME NEW p \in Payloads, VerifyReadError(w, p) PROVE Same
  BY <1>3, HeldKept DEF VerifyReadError
<1>4. CASE CreateStep(w)
  <2>1. CASE \/ CreateLock(w) \/ UndoLock(w)
    BY <1>0, <2>1 DEF CreateLock, UndoLock
  <2>2. CASE \/ CreateLockFails(w) \/ CreateWrite(w) \/ CreateInsert(w) \/ Publish(w)
             \/ CreateUnref(w) \/ CreateUnblob(w) \/ UndoLockFails(w) \/ UndoLeave(w)
             \/ UndoReturn(w) \/ \E p \in Payloads : CreateRefuse(w, p)
    <3>1. Return(w) \/ UNCHANGED loc
      BY <2>2, Zenon DEF CreateLockFails, CreateWrite, CreateInsert, Publish, CreateUnref,
         CreateUnblob, UndoLockFails, UndoLeave, UndoReturn, CreateRefuse
    <3> QED
      BY <3>1, HeldKept
  <2>3. ASSUME NEW p \in Payloads,
               CreateAcquire(w, p) \/ CreateMiss(w, p) \/ UndoRow(w, p) \/ UndoBlob(w, p)
        PROVE  Same
    BY <2>3, HeldKept DEF CreateAcquire, CreateMiss, UndoRow, UndoBlob
  <2>4. CASE CreateRow(w)
    <3>1. \E x, y, z, u : /\ SetLocals(w, [loc[w] EXCEPT !.todo = x, !.done = y, !.cur = z,
                                                         !.held = u])
                          /\ u \subseteq loc[w].held
      BY <2>4 DEF CreateRow
    <3> QED
      BY <3>1, HeldKept
  <2>5. CASE UndoEnter(w) \/ UndoRelease(w)
    <3>1. \/ \E x : SetLocals(w, [loc[w] EXCEPT !.todo = x])
          \/ \E x, y : SetLocals(w, [loc[w] EXCEPT !.cur = x, !.todo = y])
      BY <2>5 DEF UndoEnter, UndoRelease
    <3> QED
      BY <3>1, HeldKept
  <2> QED
    BY <1>4, <2>1, <2>2, <2>3, <2>4, <2>5 DEF CreateStep
<1>5. CASE VerifyStep(w)
  <2>1. CASE VerifyLock(w)
    BY <1>0, <2>1 DEF VerifyLock
  <2>2. CASE \/ VerifyLockFails(w) \/ VerifyReturn(w)
             \/ \E o \in Objects : VerifyInvalidate(w, o) \/ VerifyInvalidateFails(w, o)
    <3>1. Return(w) \/ UNCHANGED loc
      BY <2>2, Zenon DEF VerifyLockFails, VerifyReturn, VerifyInvalidate, VerifyInvalidateFails
    <3> QED
      BY <3>1, HeldKept
  <2>3. CASE VerifyInvalidated(w) \/ \E p \in Payloads : VerifyGood(w, p) \/ VerifyBad(w, p)
    BY <2>3, HeldKept DEF VerifyInvalidated, VerifyGood, VerifyBad
  <2> QED
    BY <1>5, <2>1, <2>2, <2>3 DEF VerifyStep
<1>6. CASE ArchiveStep(w) \/ FlagWrite(w)
  <2>1. Return(w) \/ UNCHANGED loc
    BY <1>6, Zenon DEF ArchiveStep, ArchiveWrite, ArchiveInsert, ArchivePublish, ArchiveUnrow,
       ArchiveUnblob, FlagWrite
  <2> QED
    BY <2>1, HeldKept
<1>7. CASE ReclaimStep(w)
  <2>1. CASE ReclaimLock(w)
    BY <1>0, <2>1 DEF ReclaimLock
  <2>2. CASE \/ ToRecomputable(w) \/ ToPending(w) \/ ReclaimValidated(w) \/ Survive(w)
             \/ ReclaimLockFails(w) \/ StartPhysical(w) \/ DeletedAll(w) \/ DeleteArchive(w)
             \/ ArchiveMissing(w) \/ CheckDeleted(w) \/ PhysicalDone(w)
    <3>1. Return(w) \/ UNCHANGED loc
      BY <2>2, Zenon DEF ToRecomputable, ToPending, Transition, ReclaimValidated, Survive,
         ReclaimLockFails, StartPhysical, DeletedAll, DeleteArchive, ArchiveMissing,
         CheckDeleted, PhysicalDone
    <3> QED
      BY <3>1, HeldKept
  <2>3. CASE \/ CommitRowsDone(w) \/ CommitArchive(w) \/ CommitObject(w)
             \/ CommitReservation(w) \/ CommitAttempt(w) \/ CommitJournal(w)
             \/ Indeterminate(w) \/ AbortObject(w) \/ AbortReservation(w)
             \/ AbortAttempt(w) \/ AbortJournal(w)
    <3>1. Return(w) \/ UNCHANGED loc
      BY <2>3, Zenon DEF CommitRowsDone, CommitArchive, CommitObject, CommitReservation,
         CommitAttempt, CommitJournal, CloseReservation, CloseAttempt, CloseJournal,
         Indeterminate, AbortObject, AbortReservation, AbortAttempt, AbortJournal
    <3> QED
      BY <3>1, HeldKept
  <2>4. CASE ReadGraph(w) \/ CheckDependencies(w)
    BY <2>4, HeldKept DEF ReadGraph, CheckDependencies
  <2>5. CASE PlanDeletions(w)
    <3>1. Return(w) \/ \E x : SetLocals(w, [loc[w] EXCEPT !.todo = x])
      BY <2>5, Zenon DEF PlanDeletions
    <3> QED
      BY <3>1, HeldKept
  <2>6. CASE CommitEnter(w) \/ CommitRelease(w)
    BY <2>6, HeldKept DEF CommitEnter, CommitRelease
  <2>7. ASSUME NEW p \in Payloads, DeletePayload(w, p) \/ CommitRow(w, p) PROVE Same
    BY <2>7, HeldKept DEF DeletePayload, CommitRow
  <2> QED
    BY <1>7, <2>1, <2>2, <2>3, <2>4, <2>5, <2>6, <2>7 DEF ReclaimStep
<1> QED
  BY <1>1, <1>2, <1>3, <1>4, <1>5, <1>6, <1>7 DEF WorkerStep, WorkerFault

\* An archive payload is written only by archive, for its own object.
LEMMA ArchivePayload ==
  ASSUME TypeInv, JournalInv, NEW w \in Workers, WorkerStep(w) \/ WorkerFault(w),
         NEW q \in Objects, ~ablob[q], ablob'[q]
  PROVE  q = loc[w].obj /\ pc[w] \in ArchivePCs
<1>0. ablob \in [Objects -> BOOLEAN]
  BY DEF TypeInv, TypeOK, PhysTypeOK
<1>1. CASE ablob' = ablob
  BY <1>1
<1>2. CASE ArchiveStep(w)
  <2>1. pc[w] \in ArchivePCs
    BY <1>2, ArchiveWrites
  <2>2. ablob' = ablob \/ \E b : ablob' = [ablob EXCEPT ![loc[w].obj] = b]
    BY <1>2, Zenon DEF ArchiveStep, ArchiveWrite, ArchiveInsert, ArchivePublish, ArchiveUnrow,
       ArchiveUnblob, physVars
  <2>3. q = loc[w].obj
    BY <1>0, <2>2
  <2> QED
    BY <2>1, <2>3
<1>3. CASE DeleteArchive(w)
  <2>1. ablob' = [ablob EXCEPT ![loc[w].obj] = FALSE]
    BY <1>3 DEF DeleteArchive
  <2> QED
    BY <1>0, <2>1
<1>4. CASE ArchiveError(w)
  <2>1. PICK b \in {ablob[loc[w].obj], pc[w] = "arc_write"} :
               ablob' = [ablob EXCEPT ![loc[w].obj] = b]
    BY <1>4 DEF ArchiveError
  <2>2. q = loc[w].obj /\ b
    BY <1>0, <2>1
  <2>3. pc[w] = "arc_write"
    BY <2>1, <2>2
  <2> QED
    BY <2>2, <2>3 DEF ArchivePCs
<1>5. CASE WorkerFault(w) /\ ~ArchiveError(w)
  BY <1>1, <1>5, Zenon DEF WorkerFault, StatementError, EntryHeartbeatError, WriteError,
     ReadError, DeleteError, VerifyReadError, physVars
<1>6. CASE AuthorityError(w) \/ FlagWrite(w)
  BY <1>1, <1>6 DEF AuthorityError, FlagWrite, physVars
<1> QED
  BY <1>1, <1>2, <1>3, <1>4, <1>5, <1>6, CreateWrites, VerifyWrites, ReclaimWrites
  DEF WorkerStep

-----------------------------------------------------------------------------
(* Entries whose deletions are done. *)

LEMMA FinishedKeeps ==
  ASSUME NEW b, Finished(b), phase'[b] = phase[b], plan'[b] = plan[b], entry'[b] = entry[b],
         \A p \in plan[b] : blob[p] = "absent" => blob'[p] = "absent",
         ~ArchivePresent(b)'
  PROVE  Finished(b)'
<1>1. NoPhysicalWork(b)' <=> NoPhysicalWork(b)
  BY DEF NoPhysicalWork
<1> QED
  BY <1>1 DEF Finished

\* Nobody has both the guards of another's planned payloads and the right to
\* touch them.
LEMMA SealedKeeps ==
  ASSUME TypeInv, JournalInv, RecoveryInv, PayloadInv, LedgerInv, TerminalInv,
         NEW w \in Workers, WorkStep(w), PayloadStep(w), Touches(w),
         WorkerStep(w) \/ WorkerFault(w),
         NEW b \in Attempts, b # loc[w].att, Finished(b), Sealed(b)
  PROVE  Finished(b)' /\ Sealed(b)'
<1>1. /\ mode = "up" /\ entry' = entry /\ phase'[b] = phase[b] /\ plan'[b] = plan[b]
      /\ \A v \in Workers \ {w} : pc'[v] = pc[v] /\ loc'[v] = loc[v]
      /\ lost => lost'
  BY NoRecoveryNow DEF WorkStep, WritesJournal
<1>2. phase[b] \in PhysicalPhases
  BY DEF Finished
<1>3. PICK q \in Objects : q = entry[b].obj
  BY <1>2, ReclaimSides DEF JournalInv, EntriesKnown
<1>4. loc[w].held \cap plan[b] = {}
  <2>1. ASSUME NEW v \in Workers, loc[v].att = b PROVE plan[b] \subseteq loc[v].held /\ v # w
    <3>1. pc[v] \in ReclaimPCs /\ ReclaimSound(v) /\ Deleted(pc[v], loc[v])
      BY <2>1 DEF RecoveryInv, ReclaimSound, TerminalInv
    <3>2. pc[v] \in AfterPCs
      BY <1>2, <2>1, <3>1, ReclaimSides DEF ReclaimSound, PhysicalPhases
    <3> QED
      BY <2>1, <3>1, <3>2 DEF Deleted
  <2> QED
    BY <2>1 DEF Sealed, PayloadInv
<1>5. ASSUME NEW p \in plan[b], blob[p] = "absent" PROVE blob'[p] = "absent"
  <2>1. p \in Payloads /\ p \notin loc[w].held
    BY <1>4, <1>5 DEF TypeInv, TypeOK, JournalTypeOK
  <2>2. ~AtHand(w, p)
    BY <1>1, <2>1, AtHandGuarded
  <2> QED
    BY <1>5, <2>1, <2>2 DEF Touches
<1>6. ~ArchivePresent(b)'
  <2> SUFFICES ASSUME entry[b].arch > 0, ablob'[q] PROVE FALSE
    BY <1>1, <1>3 DEF ArchivePresent
  <2>1. ~ablob[q]
    BY <1>3 DEF Finished, ArchivePresent
  <2>2. q = loc[w].obj /\ pc[w] \in ArchivePCs
    BY <2>1, ArchivePayload
  <2>3. object[q].state \notin {"RECLAIM_PENDING", "RECLAIMED"}
    BY <2>2 DEF LedgerInv, Holds
  <2>4. b \in PhysicalOf(q)
    BY <1>2, <1>3 DEF PhysicalOf
  <2> QED
    BY <1>1, <2>3, <2>4, NoPhysical
<1>7. Finished(b)'
  BY <1>1, <1>5, <1>6, FinishedKeeps
<1>8. Sealed(b)'
  <2>1. CASE \E v \in Workers : loc[v].att = b
    BY <1>1, <2>1 DEF Sealed
  <2>2. CASE lost /\ \A v \in Workers : loc[v].held \cap plan[b] = {}
    <3>1. loc'[w].held \subseteq loc[w].held
      BY <2>2, HeldShrinks
    <3> QED
      BY <1>1, <2>2, <3>1 DEF Sealed
  <2> QED
    BY <2>1, <2>2 DEF Sealed
<1> QED
  BY <1>7, <1>8

\* A step of one request, seen from the entries: what is left to show is what
\* it does to its own.
LEMMA TerminalStep ==
  ASSUME TypeInv, JournalInv, RecoveryInv, PayloadInv, LedgerInv, SingleInv, TerminalInv,
         NEW w \in Workers, WorkStep(w), PayloadStep(w), Touches(w),
         WorkerStep(w) \/ WorkerFault(w),
         NEW o \in Objects, o = loc[w].obj, NEW a, a = loc[w].att,
         a \in Attempts => /\ plan'[a] \subseteq EntryRows(a)
                           /\ (phase'[a] \in OpenPhases /\ Taken(a)')
                                => Finished(a)' /\ Sealed(a)',
         Deleted(pc[w], loc[w])',
         a \notin Attempts => Rows(o) \subseteq Rows(o)' \/ EntriesOf(o) = {}
  PROVE  TerminalInv'
<1>1. /\ mode = "up" /\ rpc = "off" /\ UNCHANGED <<entry, mode, rpc, rec>>
      /\ \A v \in Workers \ {w} : pc'[v] = pc[v] /\ loc'[v] = loc[v]
      /\ pc[w] \in ReclaimPCs => a \in Attempts
      /\ a \in Attempts => entry[a].obj = o
  BY NoRecoveryNow DEF WorkStep, JournalInv, WorkerOwns
<1>2. /\ OpenAttempts' \subseteq OpenAttempts
      /\ a \in Attempts => a \in OpenAttempts
  BY OpenStays
<1>3. \A b \in Attempts : b # a => phase'[b] = phase[b] /\ plan'[b] = plan[b]
  BY DEF WorkStep, WritesJournal
<1>4. \A b : EntryRows(b)' = EntryRows(b)
  BY <1>1 DEF EntryRows
<1>5. \A q \in Objects \ {o} : object'[q] = object[q] /\ Rows(q)' = Rows(q)
  <2>1. \A q \in Objects \ {o} : object'[q] = object[q]
    BY DEF WorkStep, WritesObject
  <2>2. \A q \in Objects \ {o} : Rows(q)' = Rows(q)
    BY DEF PayloadStep, Rows
  <2> QED
    BY <2>1, <2>2
<1>6. ASSUME NEW b \in Attempts PROVE plan'[b] \subseteq EntryRows(b)'
  BY <1>3, <1>4 DEF TerminalInv
<1>7. ASSUME NEW b \in OpenAttempts', Taken(b)' PROVE Finished(b)' /\ Sealed(b)'
  <2>1. b \in OpenAttempts /\ b \in Attempts /\ phase'[b] \in OpenPhases
    BY <1>2, <1>7 DEF OpenAttempts
  <2>2. CASE b = a
    BY <1>7, <2>1, <2>2
  <2>3. CASE b # a
    <3>1. PICK q \in Objects : q = entry[b].obj
      BY <2>1 DEF OpenAttempts, OpenPhases, JournalInv, EntriesKnown
    <3>2. \/ object'[q].state = "RECLAIMED" \/ ~(EntryRows(b) \subseteq Rows(q)')
      BY <1>1, <1>4, <1>7, <3>1 DEF Taken
    <3>3. Taken(b)
      <4>1. CASE q # o
        BY <1>5, <3>1, <3>2, <4>1 DEF Taken
      <4>2. CASE q = o
        <5>1. a \notin Attempts
          BY <1>1, <1>2, <2>1, <2>3, <3>1, <4>2 DEF SingleInv, OneOpenJournal
        <5>2. object'[o].state = "RECLAIMED" => object[o].state = "RECLAIMED"
          BY <1>1, <5>1 DEF WorkStep, WritesObject, Reclaims
        <5>3. b \in EntriesOf(o)
          BY <2>1, <3>1, <4>2 DEF EntriesOf
        <5> QED
          BY <3>1, <3>2, <4>2, <5>1, <5>2, <5>3 DEF Taken
      <4> QED
        BY <4>1, <4>2
    <3>4. Finished(b) /\ Sealed(b)
      BY <1>1, <2>1, <3>3 DEF TerminalInv
    <3> QED
      BY <2>1, <2>3, <3>4, SealedKeeps
  <2> QED
    BY <2>2, <2>3
<1>8. ASSUME NEW v \in Workers PROVE Deleted(pc[v], loc[v])'
  <2>1. CASE v = w
    BY <2>1
  <2>2. CASE v # w /\ pc[v] \notin AfterPCs
    <3>1. pc'[v] \notin AfterPCs
      BY <1>1, <2>2
    <3>2. pc'[v] \notin CheckedPCs \cup LivePCs \cup {"delete", "check"}
      BY <3>1, DeletedSides DEF AfterPCs
    <3> QED
      BY <3>1, <3>2 DEF Deleted
  <2>3. CASE v # w /\ pc[v] \in AfterPCs
    <3> DEFINE l == loc[v]
               b == loc[v].att
    <3>1. /\ pc'[v] = pc[v] /\ l' = l /\ Deleted(pc[v], l)
          /\ l.held \cap loc[w].held = {}
      BY <1>1, <2>3 DEF TerminalInv, PayloadInv
    <3>2. /\ l.obj \in Objects /\ l.obj # o /\ b \in Attempts /\ b # a
          /\ entry[b].obj = l.obj
      BY <2>3, DeletedSides, ReclaimSides, NoRecoveryNow, Disjoint DEF JournalInv, WorkerOwns
    <3>3. phase'[b] = phase[b] /\ plan'[b] = plan[b] /\ object'[l.obj] = object[l.obj]
      BY <1>3, <1>5, <3>2
    <3>4. plan[b] \subseteq l.held /\ plan[b] \subseteq Payloads
      BY <2>3, <3>1, <3>2 DEF Deleted, TypeInv, TypeOK, JournalTypeOK
    <3>5. ASSUME NEW p \in plan[b] PROVE blob'[p] = blob[p]
      <4>1. p \in Payloads /\ p \notin loc[w].held
        BY <3>1, <3>4, <3>5
      <4>2. ~AtHand(w, p)
        BY <1>1, <4>1, AtHandGuarded
      <4> QED
        BY <4>1, <4>2 DEF Touches
    <3>6. ArchivePresent(b)' => ArchivePresent(b)
      <4>1. ablob'[l.obj] => ablob[l.obj]
        BY <3>2, ArchivePayload
      <4> QED
        BY <1>1, <3>2, <4>1 DEF ArchivePresent
    <3> QED
      BY <3>1, <3>3, <3>5, <3>6 DEF Deleted
  <2> QED
    BY <2>1, <2>2, <2>3
<1>9. "off" \notin RecCommitPCs \cup RollbackPCs
  BY DEF RecCommitPCs, RollbackPCs
<1> QED
  BY <1>1, <1>6, <1>7, <1>8, <1>9 DEF TerminalInv

-----------------------------------------------------------------------------
(* The steps of a reclaim. *)

LEMMA ReclaimOrFails ==
  ASSUME NEW w \in Workers, WorkerStep(w) \/ WorkerFault(w), pc[w] \in ReclaimPCs
  PROVE  ReclaimStep(w) \/ WorkerFault(w) \/ AuthorityError(w)
<1>1. ReclaimPCs \cap (CreatePCs \cup VerifyPCs \cup ArchivePCs \cup FlagOps) = {}
  BY DEF ReclaimPCs, CreatePCs, VerifyPCs, ArchivePCs, FlagOps, CommitPCs, AbortPCs
<1> QED
  BY <1>1, RequestPCs DEF WorkerStep

\* Any other request leaves the rows of an object that has an open entry.
LEMMA OtherRows ==
  ASSUME TypeInv, JournalInv, PayloadInv, LedgerInv, NEW w \in Workers,
         WorkerStep(w) \/ WorkerFault(w), loc[w].att \notin Attempts,
         NEW o \in Objects, o = loc[w].obj
  PROVE  Rows(o) \subseteq Rows(o)' \/ EntriesOf(o) = {}
<1>1. CASE rows' = rows
  BY <1>1, RowsSame
<1>2. CASE CreateStep(w)
  <2>1. object[o].state = "NONE"
    BY <1>2, RequestPCs DEF LedgerInv, Holds
  <2> QED
    BY <2>1 DEF LedgerInv, ObjectHolds
<1>3. CASE VerifyStep(w)
  BY <1>3, VerifySame DEF SameLedger
<1>4. ~ReclaimStep(w)
  BY ReclaimPC DEF JournalInv, WorkerOwns
<1>5. CASE FlagWrite(w)
  BY <1>1, <1>5 DEF FlagWrite
<1> QED
  BY <1>1, <1>2, <1>3, <1>4, <1>5, FailWrites, ArchiveWrites DEF WorkerStep

\* Before start_journal_physical nothing is taken from the object.
LEMMA BeforeTerminal ==
  ASSUME TypeInv, JournalInv, RecoveryInv, PayloadInv, LedgerInv, SingleInv, TerminalInv,
         NEW w \in Workers, WorkerStep(w) \/ WorkerFault(w), pc[w] \in BeforePCs
  PROVE  TerminalInv'
<1>1. WorkStep(w) /\ PayloadStep(w) /\ Touches(w)
  BY WorkerWork, FaultWork, WorkerPayloads, FaultPayloads, RequestTouches
<1>2. PICK o \in Objects : o = loc[w].obj
  BY <1>1, NoRecoveryNow DEF WorkStep
<1>3. PICK a \in Attempts : a = loc[w].att
  BY ReclaimSides DEF JournalInv, WorkerOwns
<1>4. /\ entry[a].obj = o /\ phase[a] \in PrePhysical /\ loc[w].seen.state # "RECLAIMED"
      /\ entry' = entry /\ mode = "up"
  BY <1>1, <1>2, <1>3, ReclaimSides, NoRecoveryNow
  DEF JournalInv, WorkerOwns, RecoveryInv, ReclaimSound, WorkStep
<1>5. /\ PhysicalOf(o) = {} /\ object[o].state # "RECLAIMED"
      /\ Facts(pc[w], loc[w])
  BY <1>2 DEF LedgerInv, Holds, PayloadInv
<1>6. EntryRows(a) \subseteq Rows(o)
  <2>1. a \in EntriesOf(o)
    BY <1>4 DEF EntriesOf, OpenAttempts, OpenPhases, PrePhysical
  <2> QED
    BY <1>4, <1>5, <2>1 DEF LedgerInv, ObjectHolds, RollbackGives
<1>7. ReclaimStep(w) \/ WorkerFault(w) \/ AuthorityError(w)
  BY ReclaimOrFails, ReclaimSides
<1>8. rows' = rows
  BY <1>7, FailWrites, ReclaimWrites DEF CommitRow, BeforePCs, AbortPCs
<1>9. object'[o].state # "RECLAIMED"
  <2>1. CASE object' = object
    BY <1>5, <2>1
  <2>2. CASE ToRecomputable(w) \/ ToPending(w)
    <3>1. PICK to \in {"RECOMPUTABLE", "RECLAIM_PENDING"} :
                 UpdateObject(o, [loc[w].seen EXCEPT !.state = to])
      BY <1>2, <2>2 DEF ToRecomputable, ToPending, Transition
    <3>2. object'[o] = [loc[w].seen EXCEPT !.state = to]
      BY <3>1, UpdateFrame
    <3> QED
      BY <3>2, LocalsFields DEF ObjectRow
  <2>3. CASE AbortObject(w)
    <3>1. object'[o] = loc[w].seen
      BY <1>2, <2>3, UpdateFrame DEF AbortObject
    <3> QED
      BY <1>4, <3>1
  <2>4. ~CommitObject(w)
    BY DEF CommitObject, BeforePCs, AbortPCs
  <2> QED
    BY <1>7, <2>1, <2>2, <2>3, <2>4, FailWrites, ReclaimWrites
<1>10. ~Taken(a)'
  <2>1. Rows(o)' = Rows(o) /\ EntryRows(a)' = EntryRows(a)
    BY <1>4, <1>8, RowsSame DEF EntryRows
  <2> QED
    BY <1>4, <1>6, <1>9, <2>1 DEF Taken
<1>11. CASE StartPhysical(w)
  <2>1. /\ pc[w] = "start" /\ plan' = [plan EXCEPT ![a] = loc[w].todo]
        /\ pc'[w] = "delete" /\ loc' = loc /\ object' = object
    BY <1>3, <1>11, GotoFrame DEF StartPhysical, storeVars
  <2>2. /\ loc[w].todo \subseteq EntryRows(a) /\ EntryRows(a) \subseteq loc[w].held
        /\ plan'[a] = loc[w].todo
    BY <1>3, <1>5, <2>1 DEF Facts, Guarded, LockedPCs, TypeInv, TypeOK, JournalTypeOK
  <2>3. "delete" \notin CheckedPCs \cup {"check"}
    BY DEF CheckedPCs, CommitPCs
  <2>4. Deleted(pc[w], loc[w])'
    BY <1>2, <1>3, <1>5, <2>1, <2>2, <2>3 DEF Deleted, CheckedPCs, CommitPCs
  <2> QED
    BY <1>1, <1>2, <1>3, <1>10, <2>2, <2>4, TerminalStep
<1>12. CASE ~StartPhysical(w)
  <2>1. plan' = plan
    BY <1>7, <1>12, FailWrites, ReclaimWrites
  <2>2. phase'[a] \notin PhysicalPhases
    <3>1. CASE phase' = phase
      BY <1>4, <3>1, ReclaimSides DEF PhysicalPhases
    <3>2. CASE ReclaimValidated(w) \/ AbortJournal(w)
      <4>1. \E s \in {"VALIDATED", "ROLLED_BACK"} : phase' = [phase EXCEPT ![a] = s]
        BY <1>3, <3>2 DEF ReclaimValidated, AbortJournal, CloseJournal, UpdateJournalPhase
      <4> QED
        BY <4>1, ReclaimSides DEF TypeInv, TypeOK, JournalTypeOK
    <3>3. ~PhysicalDone(w) /\ ~CommitJournal(w)
      BY DEF PhysicalDone, CommitJournal, CloseJournal, BeforePCs, AbortPCs
    <3> QED
      BY <1>7, <1>12, <3>1, <3>2, <3>3, FailWrites, ReclaimWrites
  <2>3. pc'[w] \notin AfterPCs
    BY <1>1, <1>3, <2>2, ReclaimSides DEF WorkStep, Returns, GoesOn
  <2>4. pc'[w] \notin CheckedPCs \cup LivePCs \cup {"delete", "check"}
    BY <2>3, DeletedSides DEF AfterPCs
  <2>5. Deleted(pc[w], loc[w])'
    BY <2>3, <2>4 DEF Deleted
  <2>6. plan'[a] \subseteq EntryRows(a)
    BY <2>1 DEF TerminalInv
  <2> QED
    BY <1>1, <1>2, <1>3, <1>10, <2>5, <2>6, TerminalStep
<1> QED
  BY <1>11, <1>12

\* A reclaim in its physical phase.
LEMMA AfterFacts ==
  ASSUME TypeInv, JournalInv, RecoveryInv, PayloadInv, LedgerInv, TerminalInv,
         NEW w \in Workers, pc[w] \in AfterPCs, mode = "up",
         NEW o \in Objects, o = loc[w].obj, NEW a \in Attempts, a = loc[w].att
  PROVE  /\ entry[a].obj = o /\ phase[a] \in PhysicalPhases /\ plan[a] \subseteq loc[w].held
         /\ plan[a] \subseteq EntryRows(a) /\ Deleted(pc[w], loc[w])
         /\ pc[w] \in {"delete", "arch", "check", "done", "commit"} => ~Taken(a)
         /\ pc[w] \in CheckedPCs \ {"done"} => Finished(a)
         /\ Taken(a) => Finished(a)
<1>1. /\ entry[a].obj = o /\ phase[a] \in PhysicalPhases /\ Deleted(pc[w], loc[w])
      /\ plan[a] \subseteq EntryRows(a)
  BY DeletedSides, ReclaimSides DEF JournalInv, WorkerOwns, RecoveryInv, ReclaimSound, TerminalInv
<1>2. ASSUME pc[w] \in {"delete", "arch", "check", "done", "commit"} PROVE ~Taken(a)
  <2>1. EntryRows(a) \subseteq Rows(o)
    BY <1>2 DEF PayloadInv, Facts, RowsThere, LockedPCs
  <2>2. object[o].state # "RECLAIMED"
    BY <1>1, <1>2 DEF Deleted, LivePCs
  <2> QED
    BY <1>1, <2>1, <2>2 DEF Taken
<1>3. ASSUME pc[w] \in CheckedPCs \ {"done"} PROVE Finished(a)
  BY <1>1, <1>3 DEF Deleted, Finished
<1>4. a \in OpenAttempts
  BY <1>1 DEF OpenAttempts, PhysicalPhases
<1>5. plan[a] \subseteq loc[w].held
  BY <1>1 DEF Deleted
<1> QED
  BY <1>1, <1>2, <1>3, <1>4, <1>5 DEF TerminalInv

\* It goes on to step c.
LEMMA AfterStep ==
  ASSUME TypeInv, JournalInv, RecoveryInv, PayloadInv, LedgerInv, SingleInv, TerminalInv,
         NEW w \in Workers, WorkerStep(w) \/ WorkerFault(w), pc[w] \in AfterPCs,
         NEW o \in Objects, o = loc[w].obj, NEW a \in Attempts, a = loc[w].att,
         NEW c \in AfterPCs, pc'[w] = c, plan' = plan, loc'[w].held = loc[w].held,
         c = "delete" => loc'[w].todo \subseteq plan[a],
         c \in CheckedPCs \cup {"check"} => ~ArchivePresent(a)',
         c \in CheckedPCs => \A p \in plan[a] : blob'[p] = "absent",
         c \in CheckedPCs \ {"done"} => phase'[a] = "PHYSICAL_DONE",
         c \in LivePCs => object'[o].state # "RECLAIMED",
         ~Taken(a)' \/ Finished(a)'
  PROVE  TerminalInv'
<1>1. WorkStep(w) /\ PayloadStep(w) /\ Touches(w)
  BY WorkerWork, FaultWork, WorkerPayloads, FaultPayloads, RequestTouches
<1>2. plan[a] \subseteq loc[w].held /\ plan[a] \subseteq EntryRows(a)
  BY <1>1, AfterFacts, NoRecoveryNow DEF WorkStep
<1>3. loc'[w].att = a /\ loc'[w].obj = o
  BY <1>1, ReclaimSides DEF WorkStep, Returns, GoesOn, Kept
<1>4. Sealed(a)'
  BY <1>3 DEF Sealed
<1>5. Deleted(pc[w], loc[w])'
  <2>1. plan'[a] = plan[a]
    OBVIOUS
  <2> QED
    BY <1>2, <1>3, <2>1 DEF Deleted
<1> QED
  BY <1>1, <1>2, <1>4, <1>5, TerminalStep

\* It returns: the entry is closed, or nothing was taken, or authority is lost.
LEMMA AfterReturns ==
  ASSUME TypeInv, JournalInv, RecoveryInv, PayloadInv, LedgerInv, SingleInv, TerminalInv,
         NEW w \in Workers, WorkerStep(w), pc[w] \in AfterPCs,
         NEW o \in Objects, o = loc[w].obj, NEW a \in Attempts, a = loc[w].att,
         plan' = plan, Return(w),
         \/ phase'[a] \notin OpenPhases
         \/ ~Taken(a)'
         \/ UNCHANGED <<storeVars, journalVars, physVars>> /\ lost'
  PROVE  TerminalInv'
<1>1. WorkStep(w) /\ PayloadStep(w) /\ Touches(w) /\ mode = "up" /\ entry' = entry
  BY WorkerWork, WorkerPayloads, RequestTouches, NoRecoveryNow DEF WorkStep
<1>2. /\ plan[a] \subseteq loc[w].held /\ plan[a] \subseteq EntryRows(a)
      /\ Taken(a) => Finished(a)
  BY <1>1, AfterFacts
<1>3. pc'[w] = "idle" /\ loc'[w].held = {}
  BY ReturnOwns, HeldKept
<1>4. Deleted(pc[w], loc[w])'
  <2>1. pc'[w] \notin AfterPCs \cup CheckedPCs \cup LivePCs \cup {"delete", "check"}
    BY <1>3, DeletedSides DEF AfterPCs
  <2> QED
    BY <2>1 DEF Deleted
<1>5. ASSUME UNCHANGED <<storeVars, journalVars, physVars>>, lost', Taken(a)'
      PROVE  Finished(a)' /\ Sealed(a)'
  <2>1. Taken(a)
    BY <1>5 DEF storeVars, journalVars, Taken, EntryRows, Rows
  <2>2. Finished(a)'
    BY <1>2, <1>5, <2>1 DEF journalVars, physVars, Finished, ArchivePresent, NoPhysicalWork
  <2>3. \A v \in Workers : loc'[v].held \cap plan[a] = {}
    BY <1>1, <1>2, <1>3 DEF WorkStep, PayloadInv
  <2> QED
    BY <1>5, <2>2, <2>3 DEF Sealed
<1> QED
  BY <1>1, <1>2, <1>4, <1>5, TerminalStep

\* An error in the physical phase leads to indeterminate_reclaim.
LEMMA AfterFails ==
  ASSUME TypeInv, JournalInv, NEW w \in Workers, WorkerFault(w) \/ AuthorityError(w),
         pc[w] \in AfterPCs
  PROVE  /\ pc'[w] = "fence" /\ loc' = loc
         /\ pc[w] \in {"delete", "arch"} \/ UNCHANGED physVars
<1>1. ASSUME StepFails(w), pc[w] \in {"delete", "check", "done", "commit"} \cup CommitPCs
      PROVE  pc'[w] = "fence" /\ loc' = loc
  <2>1. ErrorTarget(w) = "fence"
    <3>1. CASE pc[w] = "delete" \/ pc[w] = "check" \/ pc[w] = "done" \/ pc[w] = "commit"
      BY <3>1 DEF ErrorTarget
    <3>2. CASE pc[w] \in CommitPCs
      BY <3>2 DEF ErrorTarget, CommitPCs
    <3> QED
      BY <1>1, <3>1, <3>2
  <2>2. Goto(w, "fence") /\ UNCHANGED loc
    BY <1>1, <2>1 DEF StepFails
  <2> QED
    BY <2>2, GotoFrame
<1>2. CASE AuthorityError(w) \/ StatementError(w) \/ EntryHeartbeatError(w)
  <2>1. StepFails(w) /\ UNCHANGED physVars /\ (CallsStore(w) \/ pc[w] \in ClosurePCs)
    BY <1>2, Zenon DEF AuthorityError, StatementError, EntryHeartbeatError
  <2>2. pc[w] \notin {"arch", "fence"}
    BY <2>1 DEF CallsStore, EnteringPCs, ClosurePCs, CommitPCs, AbortPCs
  <2> QED
    BY <1>1, <2>1, <2>2 DEF AfterPCs
<1>3. CASE ReadError(w)
  <2>1. pc[w] = "check"
    BY <1>3 DEF ReadError, AfterPCs, CommitPCs
  <2> QED
    BY <1>3, <2>1, GotoFrame DEF ReadError, physVars
<1>4. CASE ArchiveError(w)
  <2>1. pc[w] = "arch"
    BY <1>4 DEF ArchiveError, AfterPCs, CommitPCs
  <2> QED
    BY <1>4, <2>1, GotoFrame DEF ArchiveError
<1>5. ASSUME NEW p \in Payloads, DeleteError(w, p)
      PROVE  pc[w] = "delete" /\ pc'[w] = "fence" /\ loc' = loc
  <2>1. pc[w] = "delete"
    BY <1>5 DEF DeleteError, AfterPCs, CommitPCs
  <2>2. Goto(w, "fence") /\ UNCHANGED loc
    BY <1>5, <2>1 DEF DeleteError
  <2> QED
    BY <2>1, <2>2, GotoFrame
<1>6. ~WriteError(w) /\ ~\E p \in Payloads : VerifyReadError(w, p)
  BY DEF WriteError, VerifyReadError, AfterPCs, CommitPCs
<1> QED
  BY <1>2, <1>3, <1>4, <1>5, <1>6 DEF WorkerFault

\* The physical phase up to PHYSICAL_DONE.
LEMMA DeletesTerminal ==
  ASSUME TypeInv, JournalInv, RecoveryInv, PayloadInv, LedgerInv, SingleInv, TerminalInv,
         NEW w \in Workers,
         \/ \E p \in Payloads : DeletePayload(w, p)
         \/ DeletedAll(w) \/ DeleteArchive(w) \/ ArchiveMissing(w)
         \/ CheckDeleted(w) \/ PhysicalDone(w) \/ CommitEnter(w)
  PROVE  TerminalInv'
<1>0. WorkerStep(w) /\ WorkStep(w)
  <2>1. WorkerStep(w)
    BY DEF WorkerStep, ReclaimStep
  <2> QED
    BY <2>1, WorkerWork
<1>1. /\ pc[w] \in {"delete", "arch", "check", "done", "commit"}
      /\ UNCHANGED <<object, rows, plan, entry>> /\ mode = "up"
  BY <1>0, NoRecoveryNow DEF DeletePayload, DeletedAll, DeleteArchive, ArchiveMissing, CheckDeleted,
     PhysicalDone, CommitEnter, storeVars, journalVars, WorkStep
<1>2. pc[w] \in AfterPCs /\ pc[w] \in LivePCs
  BY <1>1 DEF AfterPCs, LivePCs
<1>3. PICK o \in Objects : o = loc[w].obj
  BY <1>0, NoRecoveryNow DEF WorkStep
<1>4. PICK a \in Attempts : a = loc[w].att
  BY <1>2, ReclaimSides DEF JournalInv, WorkerOwns
<1>5. entry[a].obj = o /\ ~Taken(a) /\ Deleted(pc[w], loc[w])
  BY <1>1, <1>2, <1>3, <1>4, AfterFacts
<1>6. ~Taken(a)' /\ object'[o].state # "RECLAIMED"
  BY <1>1, <1>2, <1>3, <1>5 DEF Taken, EntryRows, Rows, Deleted
<1>7. ASSUME NEW p \in Payloads, DeletePayload(w, p) PROVE TerminalInv'
  <2>1. /\ pc[w] = "delete" /\ pc'[w] = "delete"
        /\ SetLocals(w, [loc[w] EXCEPT !.todo = @ \ {p}])
    BY <1>7 DEF DeletePayload
  <2>2. loc'[w].todo = loc[w].todo \ {p} /\ loc'[w].held = loc[w].held
    BY <2>1, LocalsFrame, LocalsFields DEF Locals
  <2>3. loc'[w].todo \subseteq plan[a]
    BY <1>4, <1>5, <2>1, <2>2 DEF Deleted
  <2>4. "delete" \in AfterPCs /\ "delete" \notin CheckedPCs \cup {"check"}
    BY DEF AfterPCs, CheckedPCs, CommitPCs
  <2> QED
    BY <1>0, <1>1, <1>2, <1>3, <1>4, <1>6, <2>1, <2>2, <2>3, <2>4, AfterStep
<1>8. CASE DeletedAll(w) /\ entry[a].arch > 0
  <2>1. pc'[w] = "arch" /\ loc' = loc
    BY <1>4, <1>8, GotoFrame DEF DeletedAll
  <2>2. "arch" \in AfterPCs /\ "arch" \notin CheckedPCs \cup {"check", "delete"}
    BY DEF AfterPCs, CheckedPCs, CommitPCs
  <2> QED
    BY <1>0, <1>1, <1>2, <1>3, <1>4, <1>6, <2>1, <2>2, AfterStep
<1>9. CASE (DeletedAll(w) /\ ~(entry[a].arch > 0)) \/ DeleteArchive(w)
  <2>1. pc'[w] = "check" /\ loc' = loc
    <3>1. Goto(w, "check") /\ UNCHANGED loc
      BY <1>4, <1>9 DEF DeletedAll, DeleteArchive
    <3> QED
      BY <3>1, GotoFrame
  <2>2. ~ArchivePresent(a)'
    <3>1. CASE ~(entry[a].arch > 0)
      BY <1>1, <3>1 DEF ArchivePresent
    <3>2. CASE DeleteArchive(w)
      <4>1. ablob'[o] = FALSE
        BY <1>3, <3>2 DEF DeleteArchive, TypeInv, TypeOK, PhysTypeOK
      <4> QED
        BY <1>1, <1>5, <4>1 DEF ArchivePresent
    <3> QED
      BY <1>9, <3>1, <3>2
  <2>3. "check" \in AfterPCs /\ "check" \notin CheckedPCs \cup {"delete"}
    BY DEF AfterPCs, CheckedPCs, CommitPCs
  <2> QED
    BY <1>0, <1>1, <1>2, <1>3, <1>4, <1>6, <2>1, <2>2, <2>3, AfterStep
<1>10. CASE ArchiveMissing(w)
  BY <1>0, <1>1, <1>2, <1>3, <1>4, <1>6, <1>10, AfterReturns DEF ArchiveMissing
<1>11. ASSUME pc[w] \in CheckedPCs \cup {"check"}, UNCHANGED ablob PROVE ~ArchivePresent(a)'
  BY <1>1, <1>4, <1>5, <1>11 DEF Deleted, ArchivePresent
<1>12. CASE CheckDeleted(w) /\ \A p \in plan[a] : blob[p] = "absent"
  <2>1. pc[w] = "check" /\ pc'[w] = "done" /\ loc' = loc /\ UNCHANGED <<blob, ablob>>
    BY <1>4, <1>12, GotoFrame DEF CheckDeleted, physVars
  <2>2. "done" \in AfterPCs
    BY DEF AfterPCs
  <2> QED
    BY <1>0, <1>1, <1>2, <1>3, <1>4, <1>6, <1>11, <1>12, <2>1, <2>2, AfterStep
<1>13. CASE CheckDeleted(w) /\ ~\A p \in plan[a] : blob[p] = "absent"
  <2>1. pc'[w] = "fence" /\ loc' = loc
    BY <1>4, <1>13, GotoFrame DEF CheckDeleted
  <2>2. "fence" \in AfterPCs /\ "fence" \notin CheckedPCs \cup {"check", "delete"}
    BY DEF AfterPCs, CheckedPCs, CommitPCs
  <2> QED
    BY <1>0, <1>1, <1>2, <1>3, <1>4, <1>6, <2>1, <2>2, AfterStep
<1>14. ASSUME pc[w] \in CheckedPCs PROVE \A p \in plan[a] : blob[p] = "absent"
  BY <1>4, <1>5, <1>14 DEF Deleted
<1>15. CASE PhysicalDone(w)
  <2>1. /\ pc[w] = "done" /\ pc'[w] = "commit" /\ loc' = loc /\ UNCHANGED <<blob, ablob>>
        /\ phase' = [phase EXCEPT ![a] = "PHYSICAL_DONE"]
    BY <1>4, <1>15, GotoFrame DEF PhysicalDone, physVars, UpdateJournalPhase
  <2>2. phase'[a] = "PHYSICAL_DONE"
    BY <2>1 DEF TypeInv, TypeOK, JournalTypeOK
  <2>3. {"done", "commit"} \subseteq CheckedPCs /\ "commit" \in AfterPCs
    BY DEF AfterPCs, CheckedPCs
  <2> QED
    BY <1>0, <1>1, <1>2, <1>3, <1>4, <1>6, <1>11, <1>14, <2>1, <2>2, <2>3, AfterStep
<1>16. CASE CommitEnter(w)
  <2>1. /\ pc[w] = "commit" /\ pc'[w] = "cmt_row" /\ UNCHANGED <<phase, blob, ablob>>
        /\ loc'[w].held = loc[w].held
    BY <1>16, GotoFrame, HeldKept DEF CommitEnter, physVars, journalVars
  <2>2. {"commit", "cmt_row"} \subseteq CheckedPCs \ {"done"} /\ "cmt_row" \in AfterPCs
    BY DEF AfterPCs, CheckedPCs, CommitPCs
  <2>3. phase[a] = "PHYSICAL_DONE"
    BY <1>4, <1>5, <2>1, <2>2 DEF Deleted
  <2> QED
    BY <1>0, <1>1, <1>2, <1>3, <1>4, <1>6, <1>11, <1>14, <2>1, <2>2, <2>3, AfterStep
<1> QED
  BY <1>7, <1>8, <1>9, <1>10, <1>12, <1>13, <1>15, <1>16

\* The commit closure.
LEMMA CommitTerminal ==
  ASSUME TypeInv, JournalInv, RecoveryInv, PayloadInv, LedgerInv, SingleInv, TerminalInv,
         NEW w \in Workers,
         \/ \E p \in Payloads : CommitRow(w, p)
         \/ CommitRelease(w) \/ CommitRowsDone(w) \/ CommitArchive(w) \/ CommitObject(w)
         \/ CommitReservation(w) \/ CommitAttempt(w) \/ CommitJournal(w) \/ Indeterminate(w)
  PROVE  TerminalInv'
<1>0. WorkerStep(w) /\ WorkStep(w)
  <2>1. WorkerStep(w)
    BY DEF WorkerStep, ReclaimStep
  <2> QED
    BY <2>1, WorkerWork
<1>1. /\ pc[w] \in CommitPCs \cup {"fence"}
      /\ UNCHANGED <<plan, entry, blob, ablob>> /\ mode = "up"
  <2>1. UNCHANGED <<plan, entry, blob, ablob>>
    BY Zenon DEF CommitRow, CommitRelease, CommitRowsDone, CommitArchive, CommitObject,
       CommitReservation, CommitAttempt, CommitJournal, CloseReservation, CloseAttempt,
       CloseJournal, Indeterminate, journalVars, physVars
  <2>2. pc[w] \in CommitPCs \cup {"fence"}
    BY DEF CommitRow, CommitRelease, CommitRowsDone, CommitArchive, CommitObject,
       CommitReservation, CommitAttempt, CommitJournal, CloseReservation, CloseAttempt,
       CloseJournal, Indeterminate, CommitPCs
  <2> QED
    BY <1>0, <2>1, <2>2, NoRecoveryNow DEF WorkStep
<1>2. pc[w] \in AfterPCs
  BY <1>1 DEF AfterPCs
<1>3. PICK o \in Objects : o = loc[w].obj
  BY <1>0, NoRecoveryNow DEF WorkStep
<1>4. PICK a \in Attempts : a = loc[w].att
  BY <1>2, ReclaimSides DEF JournalInv, WorkerOwns
<1>5. Deleted(pc[w], loc[w])
  BY <1>1, <1>2, <1>3, <1>4, AfterFacts
<1>6. CommitPCs \subseteq CheckedPCs \ {"done"} /\ CommitPCs \cup {"fence"} \subseteq AfterPCs
  BY DEF CheckedPCs, CommitPCs, AfterPCs
\* The entry is finished, and a further step of the closure keeps it so.
<1>7. ASSUME NEW c \in CommitPCs \cup {"fence"}, pc'[w] = c, pc[w] \in CommitPCs, phase' = phase,
             loc'[w].held = loc[w].held, c \in LivePCs => object'[o].state # "RECLAIMED"
      PROVE  TerminalInv'
  <2>1. /\ Finished(a) /\ ~ArchivePresent(a) /\ phase[a] = "PHYSICAL_DONE"
        /\ \A p \in plan[a] : blob[p] = "absent"
    <3>1. pc[w] \in CheckedPCs \ {"done"}
      BY <1>6, <1>7
    <3> QED
      BY <1>1, <1>2, <1>3, <1>4, <1>5, <3>1, AfterFacts DEF Deleted
  <2>2. ~ArchivePresent(a)'
    BY <1>1, <2>1 DEF ArchivePresent
  <2>3. Finished(a)'
    BY <1>1, <1>7, <2>1, <2>2, FinishedKeeps
  <2>4. c # "delete" /\ c \in AfterPCs
    BY <1>6, <1>7 DEF CommitPCs
  <2> QED
    BY <1>0, <1>1, <1>2, <1>3, <1>4, <1>7, <2>1, <2>2, <2>3, <2>4, AfterStep
<1>8. pc[w] \in LivePCs => object[o].state # "RECLAIMED"
  BY <1>3, <1>5 DEF Deleted
<1>9. CASE \E p \in Payloads : CommitRow(w, p)
  <2>1. /\ pc[w] = "cmt_row" /\ pc'[w] = "cmt_release" /\ UNCHANGED <<phase, object>>
        /\ loc'[w].held = loc[w].held
    BY <1>9, GotoFrame, HeldKept DEF CommitRow, journalVars
  <2> QED
    BY <1>7, <1>8, <2>1 DEF CommitPCs, LivePCs
<1>10. CASE CommitRelease(w)
  <2>1. /\ pc[w] = "cmt_release" /\ UNCHANGED <<phase, object>>
        /\ \E c \in {"cmt_row", "fence"} : Goto(w, c)
    BY <1>10, Zenon DEF CommitRelease, journalVars
  <2>2. pc'[w] \in {"cmt_row", "fence"} /\ loc'[w].held = loc[w].held
    BY <1>10, <2>1, GotoFrame, HeldKept DEF CommitRelease
  <2> QED
    BY <1>7, <1>8, <2>1, <2>2 DEF CommitPCs, LivePCs
<1>11. CASE CommitRowsDone(w) \/ CommitArchive(w)
  <2>1. /\ pc[w] \in {"cmt_row", "cmt_arch"} /\ UNCHANGED <<phase, object, loc>>
        /\ \E c \in {"cmt_arch", "cmt_obj"} : Goto(w, c)
    BY <1>11, Zenon DEF CommitRowsDone, CommitArchive, journalVars, storeVars
  <2>2. pc'[w] \in {"cmt_arch", "cmt_obj"}
    BY <2>1, GotoFrame
  <2> QED
    BY <1>7, <1>8, <2>1, <2>2 DEF CommitPCs, LivePCs
<1>12. CASE CommitObject(w) \/ CommitReservation(w) \/ CommitAttempt(w)
  <2>1. /\ pc[w] \in CommitPCs /\ UNCHANGED <<phase, loc>>
        /\ \E c \in {"cmt_resv", "cmt_att", "cmt_jrnl"} : Goto(w, c)
    BY <1>12 DEF CommitObject, CommitReservation, CommitAttempt, CloseReservation, CloseAttempt,
       CommitPCs, journalVars
  <2>2. pc'[w] \in {"cmt_resv", "cmt_att", "cmt_jrnl"}
    BY <2>1, GotoFrame
  <2> QED
    BY <1>7, <2>1, <2>2 DEF CommitPCs, LivePCs
<1>13. CASE CommitJournal(w)
  <2>1. Return(w) /\ phase' = [phase EXCEPT ![a] = "COMMITTED"]
    BY <1>4, <1>13 DEF CommitJournal, CloseJournal, UpdateJournalPhase
  <2>2. phase'[a] \notin OpenPhases
    BY <2>1 DEF TypeInv, TypeOK, JournalTypeOK, OpenPhases
  <2> QED
    BY <1>0, <1>1, <1>2, <1>3, <1>4, <2>1, <2>2, AfterReturns
<1>14. CASE Indeterminate(w)
  <2>1. Return(w) /\ lost' /\ UNCHANGED <<storeVars, journalVars, physVars>>
    BY <1>14 DEF Indeterminate, Fence
  <2> QED
    BY <1>0, <1>1, <1>2, <1>3, <1>4, <2>1, AfterReturns
<1> QED
  BY <1>9, <1>10, <1>11, <1>12, <1>13, <1>14

LEMMA AfterTerminal ==
  ASSUME TypeInv, JournalInv, RecoveryInv, PayloadInv, LedgerInv, SingleInv, TerminalInv,
         NEW w \in Workers, WorkerStep(w) \/ WorkerFault(w), pc[w] \in AfterPCs
  PROVE  TerminalInv'
<1>1. ReclaimStep(w) \/ WorkerFault(w) \/ AuthorityError(w)
  BY ReclaimOrFails, ReclaimSides
<1>2. CASE WorkerFault(w) \/ AuthorityError(w)
  <2>0. WorkStep(w)
    BY WorkerWork, FaultWork
  <2>1. PICK o \in Objects : o = loc[w].obj
    BY <2>0, NoRecoveryNow DEF WorkStep
  <2>2. PICK a \in Attempts : a = loc[w].att
    BY ReclaimSides DEF JournalInv, WorkerOwns
  <2>3. UNCHANGED <<object, rows, phase, plan, entry>> /\ mode = "up"
    BY <1>2, <2>0, FailWrites, NoRecoveryNow DEF WorkStep
  <2>4. /\ pc'[w] = "fence" /\ loc' = loc
        /\ pc[w] \in {"delete", "arch"} \/ UNCHANGED physVars
    BY <1>2, AfterFails
  <2>5. /\ Taken(a) => Finished(a)
        /\ pc[w] \in {"delete", "arch"} => ~Taken(a)
    BY <2>1, <2>2, <2>3, AfterFacts
  <2>6. Taken(a)' => Taken(a)
    BY <2>3 DEF Taken, EntryRows, Rows
  <2>7. ~Taken(a)' \/ Finished(a)'
    BY <2>3, <2>4, <2>5, <2>6 DEF Finished, ArchivePresent, NoPhysicalWork, physVars
  <2>8. "fence" \in AfterPCs /\ "fence" \notin CheckedPCs \cup LivePCs \cup {"check", "delete"}
    BY DEF AfterPCs, CheckedPCs, LivePCs, CommitPCs
  <2> QED
    BY <2>1, <2>2, <2>3, <2>4, <2>7, <2>8, AfterStep
<1>3. CASE ReclaimStep(w)
  <2>1. ~(\/ ToRecomputable(w) \/ ToPending(w) \/ ReclaimValidated(w) \/ Survive(w)
          \/ ReadGraph(w) \/ CheckDependencies(w) \/ ReclaimLock(w) \/ ReclaimLockFails(w)
          \/ PlanDeletions(w) \/ StartPhysical(w))
    BY DEF ToRecomputable, ToPending, Transition, ReclaimValidated, Survive, ReadGraph,
       CheckDependencies, ReclaimLock, ReclaimLockFails, PlanDeletions, StartPhysical,
       AfterPCs, CommitPCs
  <2>2. ~(AbortObject(w) \/ AbortReservation(w) \/ AbortAttempt(w) \/ AbortJournal(w))
    BY DEF AbortObject, AbortReservation, AbortAttempt, AbortJournal, CloseReservation,
       CloseAttempt, CloseJournal, AfterPCs, CommitPCs
  <2> QED
    BY <1>3, <2>1, <2>2, DeletesTerminal, CommitTerminal DEF ReclaimStep
<1> QED
  BY <1>1, <1>2, <1>3

LEMMA WorkerTerminal ==
  ASSUME TypeInv, JournalInv, RecoveryInv, PayloadInv, LedgerInv, SingleInv, TerminalInv,
         NEW w \in Workers, WorkerStep(w) \/ WorkerFault(w)
  PROVE  TerminalInv'
<1>1. WorkStep(w) /\ PayloadStep(w) /\ Touches(w)
  BY WorkerWork, FaultWork, WorkerPayloads, FaultPayloads, RequestTouches
<1>2. PICK o \in Objects : o = loc[w].obj
  BY <1>1, NoRecoveryNow DEF WorkStep
<1>3. CASE pc[w] \notin ReclaimPCs
  <2>1. PICK a : a = loc[w].att
    OBVIOUS
  <2>2. a \notin Attempts
    BY <1>3, <2>1 DEF RecoveryInv, ReclaimSound
  <2>3. pc'[w] \notin ReclaimPCs
    BY <1>1, <1>3, ReclaimSides DEF WorkStep, Returns, GoesOn
  <2>4. pc'[w] \notin AfterPCs \cup CheckedPCs \cup LivePCs \cup {"delete", "check"}
    BY <2>3, DeletedSides, ReclaimSides DEF AfterPCs
  <2>5. Deleted(pc[w], loc[w])'
    BY <2>4 DEF Deleted
  <2>6. Rows(o) \subseteq Rows(o)' \/ EntriesOf(o) = {}
    BY <1>2, <2>1, <2>2, OtherRows
  <2> QED
    BY <1>1, <1>2, <2>1, <2>2, <2>5, <2>6, TerminalStep
<1> QED
  BY <1>3, ReclaimSides, BeforeTerminal, AfterTerminal

-----------------------------------------------------------------------------
(* Requests that start, recovery and the process. *)

LEMMA BeginTerminal ==
  ASSUME TypeInv, JournalInv, PayloadInv, TerminalInv, NEW w \in Workers,
         pc[w] = "idle", mode = "up",
         UNCHANGED <<object, rows, plan, blob, ablob, mode, lost, rpc, rec>>,
         \A b \in Attempts : \/ phase'[b] = phase[b] /\ entry'[b] = entry[b]
                             \/ phase[b] = "NONE" /\ plan[b] = {} /\ ~Taken(b)',
         pc'[w] \notin ReclaimPCs \ BeforePCs, loc'[w].held = {},
         \A v \in Workers \ {w} : pc'[v] = pc[v] /\ loc'[v] = loc[v]
  PROVE  TerminalInv'
<1>1. rpc = "off" /\ "off" \notin RecCommitPCs \cup RollbackPCs
  BY DEF PayloadInv, RecCommitPCs, RollbackPCs
<1>2. loc[w].att = None /\ None \notin Attempts
  BY IdleHasNone, LocalsOf
<1>3. ASSUME NEW b \in Attempts PROVE plan'[b] \subseteq EntryRows(b)'
  BY DEF TerminalInv, EntryRows
<1>4. ASSUME NEW b \in OpenAttempts', Taken(b)' PROVE Finished(b)' /\ Sealed(b)'
  <2>1. /\ b \in OpenAttempts /\ b \in Attempts /\ phase'[b] = phase[b] /\ entry'[b] = entry[b]
    BY <1>4 DEF OpenAttempts
  <2>2. Taken(b)
    BY <1>4, <2>1 DEF Taken, EntryRows, Rows
  <2>3. Finished(b) /\ Sealed(b)
    BY <2>1, <2>2 DEF TerminalInv
  <2>4. Finished(b)'
    BY <2>1, <2>3 DEF Finished, ArchivePresent, NoPhysicalWork
  <2>5. Sealed(b)'
    BY <1>2, <2>1, <2>3 DEF Sealed
  <2> QED
    BY <2>4, <2>5
<1>5. ASSUME NEW v \in Workers PROVE Deleted(pc[v], loc[v])'
  <2>1. CASE v = w \/ pc[v] \notin AfterPCs
    <3>1. pc'[v] \notin AfterPCs
      BY <2>1, ReclaimSides
    <3>2. pc'[v] \notin CheckedPCs \cup LivePCs \cup {"delete", "check"}
      BY <3>1, DeletedSides DEF AfterPCs
    <3> QED
      BY <3>1, <3>2 DEF Deleted
  <2>2. CASE v # w /\ pc[v] \in AfterPCs
    <3>1. /\ pc'[v] = pc[v] /\ loc'[v] = loc[v] /\ Deleted(pc[v], loc[v])
          /\ phase'[loc[v].att] = phase[loc[v].att] /\ entry'[loc[v].att] = entry[loc[v].att]
      BY <2>2, ReclaimSides DEF TerminalInv, JournalInv, WorkerOwns
    <3> QED
      BY <3>1 DEF Deleted, ArchivePresent
  <2> QED
    BY <2>1, <2>2
<1> QED
  BY <1>1, <1>3, <1>4, <1>5 DEF TerminalInv

LEMMA RequestTerminal ==
  ASSUME TypeInv, JournalInv, RecoveryInv, PayloadInv, TerminalInv, "recover" \notin Requests,
         NEW w \in Workers, Request(w)
  PROVE  TerminalInv'
<1>1. pc[w] = "idle" => loc[w] = NoLocals /\ NoLocals.held = {} /\ loc[w].held = {}
  BY IdleHasNone DEF NoLocals
<1> DEFINE Begins ==
      /\ pc[w] = "idle" /\ mode = "up"
      /\ UNCHANGED <<object, rows, phase, entry, plan, blob, ablob, mode, lost, rpc, rec>>
<1>2. ASSUME NEW c, c \notin ReclaimPCs, Goto(w, c), NEW r, SetLocals(w, r), Begins,
             loc'[w].held = loc[w].held
      PROVE  TerminalInv'
  BY <1>1, <1>2, GotoFrame, LocalsFrame, BeginTerminal
<1> HIDE DEF Begins
<1>8. /\ \A x, y : SetLocals(w, [loc[w] EXCEPT !.obj = x, !.seen = y])
                      => loc'[w].held = loc[w].held
      /\ \A x, y : SetLocals(w, [loc[w] EXCEPT !.obj = x, !.todo = y])
                      => loc'[w].held = loc[w].held
      /\ \A x, y, z, u :
           SetLocals(w, [loc[w] EXCEPT !.obj = x, !.att = y, !.seen = z, !.todo = u])
             => loc'[w].held = loc[w].held
  <2>1. loc[w] \in Locals
    BY LocalsFields
  <2>2. ASSUME NEW r, SetLocals(w, r) PROVE loc'[w] = r
    BY <2>2, LocalsFrame
  <2> QED
    BY <2>1, <2>2 DEF Locals
<1>3. ASSUME NEW o \in Objects, NEW kind \in FlagOps, FlagBegin(w, o, kind)
      PROVE  TerminalInv'
  <2>1. loc'[w].held = loc[w].held /\ \E r : SetLocals(w, r)
    BY <1>3, <1>8 DEF FlagBegin
  <2>2. Begins /\ Goto(w, kind)
    BY <1>3 DEF Begins, FlagBegin, Enter, storeVars, journalVars, procVars, physVars, recVars
  <2>3. kind \notin ReclaimPCs
    BY <1>1, <2>1, <2>2, ReclaimSides DEF Begins
  <2> QED
    BY <1>2, <2>1, <2>2, <2>3
<1>4. ASSUME NEW o \in Objects, CreateBegin(w, o) PROVE TerminalInv'
  <2>1. loc'[w].held = loc[w].held /\ \E r : SetLocals(w, r)
    BY <1>4, <1>8 DEF CreateBegin
  <2>2. PICK c \in {"publish", "create_lock"} : Goto(w, c)
    BY <1>4, Zenon DEF CreateBegin
  <2>3. Begins
    BY <1>4 DEF Begins, CreateBegin, Enter, storeVars, journalVars, procVars, physVars, recVars
  <2>4. c \notin ReclaimPCs
    BY <1>1, <2>1, <2>2, <2>3 DEF Begins, ReclaimPCs, CommitPCs, AbortPCs
  <2> QED
    BY <1>2, <2>1, <2>2, <2>3, <2>4
<1>5. ASSUME NEW o \in Objects, VerifyBegin(w, o) \/ ArchiveBegin(w, o) PROVE TerminalInv'
  <2>1. loc'[w].held = loc[w].held /\ \E r : SetLocals(w, r)
    BY <1>5, <1>8 DEF VerifyBegin, ArchiveBegin
  <2>2. PICK c \in {"ver_lock", "arc_write"} : Goto(w, c)
    BY <1>5, Zenon DEF VerifyBegin, ArchiveBegin
  <2>3. Begins
    BY <1>5 DEF Begins, VerifyBegin, ArchiveBegin, Enter, storeVars, journalVars, procVars, physVars,
       recVars
  <2>4. c \notin ReclaimPCs
    BY <1>1, <2>1, <2>2, <2>3 DEF Begins, ReclaimPCs, CommitPCs, AbortPCs
  <2> QED
    BY <1>2, <2>1, <2>2, <2>3, <2>4
<1>6. ASSUME NEW e \in EdgeChoices, AddLineage(w, e) \/ RemoveLineage(w, e) PROVE TerminalInv'
  <2>1. /\ pc[w] = "idle" /\ mode = "up" /\ UNCHANGED <<pc, loc>>
        /\ UNCHANGED <<object, rows, phase, entry, plan, blob, ablob, mode, lost, rpc, rec>>
    BY <1>6 DEF AddLineage, RemoveLineage, Enter, journalVars, procVars, physVars, recVars
  <2> QED
    BY <1>1, <2>1, ReclaimSides, BeginTerminal
<1>7. ASSUME NEW o \in Objects, NEW a \in Attempts, Reserve(w, o, a) PROVE TerminalInv'
  <2> DEFINE e == [obj |-> o, prior |-> object[o], rows |-> rows[o], arch |-> arch[o]]
  <2>1. /\ pc[w] = "idle" /\ phase[a] = "NONE" /\ mode = "up"
        /\ object[o].state # "RECLAIMED"
        /\ phase' = [phase EXCEPT ![a] = "RESERVED"] /\ entry' = [entry EXCEPT ![a] = e]
        /\ UNCHANGED <<object, rows, plan, blob, ablob, mode, lost, rpc, rec>>
    BY <1>7 DEF Reserve, Enter, ReclaimAllowed, storeVars, procVars, physVars, recVars
  <2>2. loc'[w].held = loc[w].held /\ \E r : SetLocals(w, r)
    BY <1>7, <1>8 DEF Reserve
  <2>3. PICK c \in {"recomputable", "validate", "pending"} : Goto(w, c)
    BY <1>7, Zenon DEF Reserve
  <2>4. /\ entry'[a].obj = o /\ entry'[a].rows = rows[o]
        /\ \A b \in Attempts \ {a} : phase'[b] = phase[b] /\ entry'[b] = entry[b]
    BY <2>1 DEF TypeInv, TypeOK, JournalTypeOK
  <2>5. ~Taken(a)'
    BY <2>1, <2>4 DEF Taken, EntryRows, Rows
  <2>6. plan[a] = {}
    BY <2>1 DEF RecoveryInv, EntrySound
  <2>7. /\ pc'[w] \in BeforePCs /\ loc'[w].held = {}
        /\ \A v \in Workers \ {w} : pc'[v] = pc[v] /\ loc'[v] = loc[v]
    BY <1>1, <2>1, <2>2, <2>3, GotoFrame, LocalsFrame DEF BeforePCs
  <2> QED
    BY <2>1, <2>4, <2>5, <2>6, <2>7, BeginTerminal
<1> QED
  BY <1>3, <1>4, <1>5, <1>6, <1>7 DEF Request, RecoverRequest

\* What recovery reads decides, and then it stays with its entry.
LEMMA DecidesOne ==
  ASSUME TypeInv, NEW a \in Attempts
  PROVE  /\ Commits(a) => Finished(a)
         /\ RollsBack(a) => ~Finished(a)
<1>1. entry[a].arch \in Nat
  BY ArchiveNumbers
<1>2. Commits(a) => Finished(a)
  BY <1>1 DEF Commits, Finished, AllGone, Present, ArchivePresent, NoPhysicalWork, PhysicalPhases,
     OpenPhases, PrePhysical
<1>3. phase[a] \in PrePhysical => phase[a] \notin PhysicalPhases
  BY DEF PrePhysical, PhysicalPhases
<1>4. AllPresent(a) /\ ~NoPhysicalWork(a) => ~Finished(a)
  BY <1>1 DEF AllPresent, Present, ArchivePresent, NoPhysicalWork, Finished
<1>5. phase[a] = "PHYSICAL_STARTED" /\ NoPhysicalWork(a) => ~Finished(a)
  BY DEF Finished
<1> QED
  BY <1>2, <1>3, <1>4, <1>5 DEF RollsBack, Finished

LEMMA RecoveryDecides ==
  ASSUME TypeInv, RecoveryStep, rpc' \in RollbackPCs \cup RecCommitPCs
  PROVE  /\ phase' = phase
         /\ \/ /\ rec'.att = rec.att
               /\ rpc' \in RollbackPCs => rpc \in RollbackPCs
               /\ rpc' \in RecCommitPCs => rpc \in RecCommitPCs
            \/ \E a \in Attempts : /\ rec'.att = a
                                   /\ rpc' \in RollbackPCs => RollsBack(a)
                                   /\ rpc' \in RecCommitPCs => Commits(a)
<1> USE DEF RecAt, RecGoto, RollbackPCs, RecCommitPCs
<1>0. rec \in RecoveryLocals
  BY RecTyped
<1>1. CASE RecScan \/ RecQueueEmpty \/ RecEnd \/ RecExpire \/ RecRepair \/ RecLineage
  BY <1>1 DEF RecScan, RecQueueEmpty, RecEnd, RecExpire, RecRepair, RecLineage, RecoveryFails
<1>2. CASE \E a \in Attempts : RecBackendError(a)
  BY <1>2 DEF RecBackendError
<1>3. ASSUME NEW a \in Attempts, RecNext(a)
      PROVE  /\ phase' = phase /\ rec'.att = a
             /\ rpc' \in RollbackPCs => RollsBack(a)
             /\ rpc' \in RecCommitPCs => Commits(a)
  <2>1. phase' = phase /\ rec'.att = a
    BY <1>0, <1>3 DEF RecNext, RecoveryLocals, journalVars
  <2>2. /\ rpc' = "rb_obj" => RollsBack(a)
        /\ rpc' = "cm_row" => Commits(a)
        /\ rpc' \in {"rb_obj", "cm_row", "next"}
    BY <1>3 DEF RecNext
  <2> QED
    BY <2>1, <2>2
<1>4. CASE RollbackObject \/ RollbackRowsDone \/ RollbackArchive
  BY <1>4 DEF RollbackObject, RollbackRowsDone, RollbackArchive, journalVars
<1>5. CASE RollbackRepair \/ \E p \in Payloads : RollbackRowConflict(p)
  BY <1>5 DEF RollbackRepair, RollbackRowConflict, EntryFails, journalVars
<1>6. ASSUME NEW p \in Payloads, RollbackRow(p)
      PROVE  phase' = phase /\ rec'.att = rec.att /\ rpc' = rpc
  BY <1>0, <1>6 DEF RollbackRow, RecoveryLocals, journalVars
<1>7. ASSUME NEW p \in Payloads, RecCommitRow(p)
      PROVE  phase' = phase /\ rec'.att = rec.att /\ rpc = "cm_row" /\ rpc' = "cm_release"
  BY <1>0, <1>7 DEF RecCommitRow, RecoveryLocals, journalVars
<1>8. ASSUME RecCommitRelease
      PROVE  phase' = phase /\ rec'.att = rec.att /\ rpc = "cm_release" /\ rpc' = "cm_row"
  BY <1>0, <1>8 DEF RecCommitRelease, RecoveryLocals, journalVars
<1>9. CASE RecCommitRowsDone \/ RecCommitArchive \/ RecCommitObject
  BY <1>9 DEF RecCommitRowsDone, RecCommitArchive, RecCommitObject, journalVars
<1>10. CASE RollbackReservation \/ RecCommitReservation
  BY <1>10 DEF RollbackReservation, RecCommitReservation, RecReservation
<1>11. CASE RollbackAttempt \/ RecCommitAttempt
  BY <1>11 DEF RollbackAttempt, RecCommitAttempt, RecAttempt, EntryFails
<1>12. CASE RollbackJournal \/ RecCommitJournal
  BY <1>12 DEF RollbackJournal, RecCommitJournal, RecJournal
<1>13. CASE RecStoreError
  <2>1. /\ phase' = phase
        /\ \/ EntryFails \/ RecoveryFails
           \/ rpc = "cm_release" /\ rpc' = "cm_row" /\ rec' = [rec EXCEPT !.cur = None]
    BY <1>13, Zenon DEF RecStoreError, journalVars
  <2>2. rpc = "cm_release" /\ rpc' = "cm_row" /\ rec' = [rec EXCEPT !.cur = None]
    BY <2>1 DEF EntryFails, RecoveryFails
  <2> QED
    BY <1>0, <2>1, <2>2 DEF RecoveryLocals
<1>14. CASE RecRepairPartial
  <2>1. EntryFails \/ RecoveryFails
    BY <1>14, Zenon DEF RecRepairPartial
  <2> QED
    BY <2>1 DEF EntryFails, RecoveryFails
<1> QED
  BY <1>1, <1>2, <1>3, <1>4, <1>5, <1>6, <1>7, <1>8, <1>9, <1>10, <1>11, <1>12, <1>13, <1>14
  DEF RecoveryStep

\* Only a commit takes from an object, and only from that of its own entry.
LEMMA RecoveryTakes ==
  ASSUME TypeInv, JournalInv, RecoveryInv, LedgerInv, RecoveryStep,
         NEW b \in Attempts, Taken(b)', entry' = entry, ~Taken(b)
  PROVE  rpc \in RecCommitPCs /\ entry[b].obj = entry[rec.att].obj
<1> DEFINE o == entry[b].obj
           q == entry[rec.att].obj
<1>1. CASE object' = object /\ rows' = rows
  BY <1>1 DEF Taken, EntryRows, Rows
<1>2. ASSUME rpc \in AtEntry PROVE q \in Objects /\ entry[rec.att].prior.state # "RECLAIMED"
  BY <1>2, AtHandHolds
<1>3. CASE RollbackObject
  <2>1. /\ rpc \in AtEntry /\ rows' = rows
        /\ UpdateObject(q, RestoredObject(object[q], entry[rec.att].prior))
    BY <1>3 DEF RollbackObject, RecAt, AtEntry, EntryPCs
  <2>2. /\ object'[q].state # "RECLAIMED"
        /\ \A r \in Objects \ {q} : object'[r] = object[r]
    BY <1>2, <2>1, UpdateFrame DEF RestoredObject
  <2>3. Rows(o)' = Rows(o) /\ EntryRows(b)' = EntryRows(b)
    BY <2>1, RowsSame DEF EntryRows
  <2>4. object'[o].state = "RECLAIMED" /\ object[o].state # "RECLAIMED"
    BY <2>1, <2>3 DEF Taken, Rows
  <2>5. object' = [object EXCEPT ![q] = RestoredObject(object[q], entry[rec.att].prior)]
    BY <2>1 DEF UpdateObject
  <2> QED
    BY <1>2, <2>1, <2>2, <2>4, <2>5 DEF TypeInv, TypeOK, StoreTypeOK
<1>4. CASE RecCommitObject
  <2>1. /\ rpc \in AtEntry /\ rpc \in RecCommitPCs /\ rows' = rows
        /\ UpdateObject(q, [object[q] EXCEPT !.state = "RECLAIMED"])
    BY <1>4 DEF RecCommitObject, RecAt, AtEntry, EntryPCs, RecCommitPCs
  <2>2. Rows(o)' = Rows(o) /\ EntryRows(b)' = EntryRows(b)
    BY <2>1, RowsSame DEF EntryRows
  <2>3. object'[o].state = "RECLAIMED" /\ object[o].state # "RECLAIMED"
    BY <2>1, <2>2 DEF Taken, Rows
  <2>4. o # q => object'[o] = object[o]
    BY <1>2, <2>1 DEF UpdateObject, TypeInv, TypeOK, StoreTypeOK
  <2> QED
    BY <2>1, <2>3, <2>4
<1>5. ASSUME NEW p \in Payloads, RollbackRow(p) PROVE FALSE
  <2>1. /\ rpc \in AtEntry /\ object' = object
        /\ rows' = [rows EXCEPT ![q][p] = entry[rec.att].rows[p]]
        /\ rows[q][p] \in {"none", entry[rec.att].rows[p]}
    BY <1>5 DEF RollbackRow, WriteReplica, RecAt, AtEntry, EntryPCs
  <2>2. \A s \in Payloads : rows[o][s] # "none" => rows'[o][s] # "none"
    BY <1>2, <2>1 DEF TypeInv, TypeOK, StoreTypeOK
  <2> QED
    BY <2>1, <2>2 DEF Taken, EntryRows, Rows
<1>6. ASSUME NEW p \in Payloads, RecCommitRow(p)
      PROVE  rpc \in RecCommitPCs /\ o = q
  <2>1. /\ rpc \in AtEntry /\ rpc \in RecCommitPCs /\ object' = object
        /\ rows' = [rows EXCEPT ![q][p] = "none"]
    BY <1>6 DEF RecCommitRow, DeleteReplica, RecAt, AtEntry, EntryPCs, RecCommitPCs
  <2>2. o # q => \A s \in Payloads : rows'[o][s] = rows[o][s]
    BY <1>2, <2>1 DEF TypeInv, TypeOK, StoreTypeOK
  <2> QED
    BY <2>1, <2>2 DEF Taken, EntryRows, Rows
<1> QED
  BY <1>1, <1>3, <1>4, <1>5, <1>6, RecoveryRecords

LEMMA RecoveryTerminal ==
  ASSUME TypeInv, JournalInv, RecoveryInv, PayloadInv, LedgerInv, SingleInv, TerminalInv,
         RecoveryStep
  PROVE  TerminalInv'
<1>1. /\ UNCHANGED <<entry, plan, blob, ablob>>
      /\ OpenAttempts' \subseteq OpenAttempts
      /\ \A a \in OpenAttempts' : phase'[a] = phase[a]
      /\ mode' = "up" => OpenAttempts = {}
      /\ \A w \in Workers : pc'[w] \in {"idle", "recover"}
  BY RecoveryWrites, RecoveryCloses, RecoveryModes
<1>2. ASSUME NEW a \in Attempts, phase'[a] = phase[a] PROVE Finished(a)' = Finished(a)
  BY <1>1, <1>2 DEF Finished, ArchivePresent, NoPhysicalWork
<1>3. \A a \in Attempts : plan'[a] \subseteq EntryRows(a)'
  BY <1>1 DEF TerminalInv, EntryRows
<1>4. ASSUME NEW a \in OpenAttempts', Taken(a)' PROVE Finished(a)' /\ mode' # "up"
  <2>1. a \in OpenAttempts /\ a \in Attempts /\ phase'[a] = phase[a]
    BY <1>1 DEF OpenAttempts
  <2>2. CASE Taken(a)
    BY <1>1, <1>2, <2>1, <2>2 DEF TerminalInv
  <2>3. CASE ~Taken(a)
    <3>1. rpc \in RecCommitPCs /\ entry[a].obj = entry[rec.att].obj
      BY <1>1, <1>4, <2>1, <2>3, RecoveryTakes
    <3>2. rpc \in AtEntry
      BY <3>1 DEF RecCommitPCs, AtEntry, EntryPCs
    <3>3. a = rec.att
      BY <2>1, <3>1, <3>2, AtHandHolds DEF SingleInv, OneOpenJournal
    <3> QED
      BY <1>1, <1>2, <2>1, <3>1, <3>3 DEF TerminalInv
  <2> QED
    BY <2>2, <2>3
<1>5. ASSUME NEW w \in Workers PROVE Deleted(pc[w], loc[w])'
  <2>1. pc'[w] \notin AfterPCs
    BY <1>1, DeletedSides
  <2>2. pc'[w] \notin CheckedPCs \cup LivePCs \cup {"delete", "check"}
    BY <2>1, DeletedSides DEF AfterPCs
  <2> QED
    BY <2>1, <2>2 DEF Deleted
<1>6. /\ rpc' \in RecCommitPCs => Finished(rec.att)'
      /\ rpc' \in RollbackPCs => ~Finished(rec.att)'
  <2> SUFFICES ASSUME rpc' \in RollbackPCs \cup RecCommitPCs
               PROVE  /\ rpc' \in RecCommitPCs => Finished(rec.att)'
                      /\ rpc' \in RollbackPCs => ~Finished(rec.att)'
    OBVIOUS
  <2>1. PICK a \in Attempts : a = rec'.att
    <3>1. rpc' \in AtEntry
      BY DEF RollbackPCs, RecCommitPCs, AtEntry, EntryPCs
    <3>2. TypeInv'
      BY RecoveryType
    <3> QED
      BY <3>1, <3>2 DEF TypeInv, RecoveryHasEntry
  <2>2. Finished(rec.att)' = Finished(a)
    <3>1. phase' = phase
      BY RecoveryDecides
    <3> QED
      BY <1>1, <2>1, <3>1 DEF Finished, ArchivePresent, NoPhysicalWork
  <2>3. /\ rpc' \in RecCommitPCs => Finished(a)
        /\ rpc' \in RollbackPCs => ~Finished(a)
    BY <2>1, RecoveryDecides, DecidesOne DEF TerminalInv
  <2> QED
    BY <2>2, <2>3
<1> QED
  BY <1>3, <1>4, <1>5, <1>6 DEF TerminalInv

\* The process, and a payload that rots.
LEMMA StillTerminal ==
  ASSUME TypeInv, JournalInv, TerminalInv,
         UNCHANGED <<object, rows, phase, entry, plan, ablob>>,
         \A p \in Payloads : (blob'[p] = "absent") <=> (blob[p] = "absent"),
         \/ UNCHANGED <<mode, pc, loc, rpc, rec>> /\ (lost => lost')
         \/ /\ mode' # "up" /\ rpc' \notin RecCommitPCs \cup RollbackPCs
            /\ \A w \in Workers : pc'[w] \in {"idle", "recover"}
  PROVE  TerminalInv'
<1>1. \A a \in Attempts : plan[a] \subseteq Payloads /\ plan'[a] \subseteq EntryRows(a)'
  BY DEF TerminalInv, EntryRows
<1>2. ASSUME NEW a \in Attempts
      PROVE  /\ Finished(a)' <=> Finished(a)
             /\ Taken(a)' <=> Taken(a)
  <2>1. ArchivePresent(a)' <=> ArchivePresent(a)
    BY DEF ArchivePresent
  <2>2. (\A p \in plan[a] : blob'[p] = "absent") <=> (\A p \in plan[a] : blob[p] = "absent")
    BY <1>1
  <2>3. Finished(a)' <=> Finished(a)
    BY <2>1, <2>2 DEF Finished, NoPhysicalWork
  <2>4. Taken(a)' <=> Taken(a)
    BY DEF Taken, EntryRows, Rows
  <2> QED
    BY <2>3, <2>4
<1>3. OpenAttempts' = OpenAttempts /\ OpenAttempts \subseteq Attempts
  BY DEF OpenAttempts
<1>4. CASE UNCHANGED <<mode, pc, loc, rpc, rec>> /\ (lost => lost')
  <2>1. ASSUME NEW a \in OpenAttempts', Taken(a)'
        PROVE  Finished(a)' /\ (mode' = "up" => Sealed(a)')
    <3>1. Finished(a) /\ (mode = "up" => Sealed(a))
      BY <1>2, <1>3, <2>1 DEF TerminalInv
    <3>2. Sealed(a) => Sealed(a)'
      BY <1>4 DEF Sealed
    <3> QED
      BY <1>2, <1>3, <1>4, <2>1, <3>1, <3>2
  <2>2. ASSUME NEW w \in Workers PROVE Deleted(pc[w], loc[w])'
    <3>1. Deleted(pc[w], loc[w])
      BY DEF TerminalInv
    <3>2. pc[w] \in CheckedPCs => loc[w].att \in Attempts
      BY DeletedSides, ReclaimSides DEF JournalInv, WorkerOwns
    <3> QED
      BY <1>1, <1>4, <3>1, <3>2 DEF Deleted, ArchivePresent
  <2>3. /\ rpc' \in RecCommitPCs => Finished(rec.att)'
        /\ rpc' \in RollbackPCs => ~Finished(rec.att)'
    <3>1. rpc \in RecCommitPCs \cup RollbackPCs => rec.att \in Attempts
      BY DEF TypeInv, RecoveryHasEntry, RecCommitPCs, RollbackPCs, AtEntry, EntryPCs
    <3>2. rpc \in RecCommitPCs \cup RollbackPCs => (Finished(rec.att)' <=> Finished(rec.att))
      BY <1>1, <1>4, <3>1 DEF Finished, ArchivePresent, NoPhysicalWork
    <3> QED
      BY <1>4, <3>2 DEF TerminalInv
  <2> QED
    BY <1>1, <2>1, <2>2, <2>3 DEF TerminalInv
<1>5. CASE /\ mode' # "up" /\ rpc' \notin RecCommitPCs \cup RollbackPCs
           /\ \A w \in Workers : pc'[w] \in {"idle", "recover"}
  <2>1. ASSUME NEW a \in OpenAttempts', Taken(a)' PROVE Finished(a)'
    BY <1>2, <1>3, <2>1 DEF TerminalInv
  <2>2. ASSUME NEW w \in Workers PROVE Deleted(pc[w], loc[w])'
    <3>1. pc'[w] \notin AfterPCs
      BY <1>5, DeletedSides
    <3>2. pc'[w] \notin CheckedPCs \cup LivePCs \cup {"delete", "check"}
      BY <3>1, DeletedSides DEF AfterPCs
    <3> QED
      BY <3>1, <3>2 DEF Deleted
  <2> QED
    BY <1>1, <1>5, <2>1, <2>2 DEF TerminalInv
<1> QED
  BY <1>4, <1>5

LEMMA NextTerminal ==
  ASSUME "recover" \notin Requests
  PROVE  TypeInv /\ JournalInv /\ RecoveryInv /\ PayloadInv /\ LedgerInv /\ SingleInv
           /\ TerminalInv /\ [Next]_vars => TerminalInv'
<1> SUFFICES ASSUME TypeInv, JournalInv, RecoveryInv, PayloadInv, LedgerInv, SingleInv,
                    TerminalInv, [Next]_vars
             PROVE  TerminalInv'
  OBVIOUS
<1>1. CASE UNCHANGED vars
  <2>1. /\ UNCHANGED <<object, rows, phase, entry, plan, blob, ablob>>
        /\ UNCHANGED <<mode, lost, pc, loc, rpc, rec>>
    BY <1>1 DEF vars, storeVars, journalVars, physVars, procVars, workVars, recVars
  <2> QED
    BY <2>1, StillTerminal
<1>2. CASE Process
  <2>0. "off" \notin RecCommitPCs \cup RollbackPCs /\ "scan" \notin RecCommitPCs \cup RollbackPCs
    BY DEF RecCommitPCs, RollbackPCs
  <2>1. CASE Start
    <3>1. /\ UNCHANGED <<object, rows, phase, entry, plan, blob, ablob, pc>>
          /\ mode = "down" /\ mode' = "starting" /\ rpc' = "scan"
      BY <2>1 DEF Start, storeVars, journalVars, physVars, workVars
    <3>2. \A w \in Workers : pc'[w] \in {"idle", "recover"}
      BY <3>1, AllIdle
    <3> QED
      BY <2>0, <3>1, <3>2, StillTerminal
  <2>2. CASE Exit \/ Crash
    <3>1. /\ UNCHANGED <<object, rows, phase, entry, plan, blob, ablob>>
          /\ mode' = "down" /\ rpc' = "off" /\ \A w \in Workers : pc'[w] = "idle"
      BY <2>2 DEF Exit, Crash, Vanish, storeVars, journalVars, physVars
    <3> QED
      BY <2>0, <3>1, StillTerminal
  <2>3. CASE RequestShutdown \/ HeartbeatThreadError
    <3>1. /\ UNCHANGED <<object, rows, phase, entry, plan, blob, ablob>>
          /\ UNCHANGED <<mode, pc, loc, rpc, rec>> /\ (lost => lost')
      BY <2>3 DEF RequestShutdown, HeartbeatThreadError, storeVars, journalVars, physVars,
         workVars, recVars
    <3> QED
      BY <3>1, StillTerminal
  <2> QED
    BY <1>2, <2>1, <2>2, <2>3 DEF Process
<1>3. ASSUME NEW p \in Payloads, Corrupt(p) PROVE TerminalInv'
  <2>1. /\ UNCHANGED <<object, rows, phase, entry, plan, ablob, mode, lost, pc, loc, rpc, rec>>
        /\ blob[p] = "ok" /\ blob' = [blob EXCEPT ![p] = "corrupt"]
    BY <1>3 DEF Corrupt, storeVars, journalVars, procVars, workVars, recVars
  <2>2. \A s \in Payloads : (blob'[s] = "absent") <=> (blob[s] = "absent")
    BY <2>1 DEF TypeInv, TypeOK, PhysTypeOK
  <2> QED
    BY <2>1, <2>2, StillTerminal
<1> QED
  BY <1>1, <1>2, <1>3, WorkerTerminal, RequestTerminal, RecoveryTerminal DEF Next

LEMMA InitTerminal == Init => TerminalInv
<1> SUFFICES ASSUME Init PROVE TerminalInv
  OBVIOUS
<1>1. OpenAttempts = {} /\ \A a \in Attempts : plan[a] = {}
  BY DEF Init, OpenAttempts, OpenPhases
<1>2. ASSUME NEW w \in Workers PROVE Deleted(pc[w], loc[w])
  <2>1. pc[w] \notin AfterPCs
    BY DeletedSides DEF Init
  <2>2. pc[w] \notin CheckedPCs \cup LivePCs \cup {"delete", "check"}
    BY <2>1, DeletedSides DEF AfterPCs
  <2> QED
    BY <2>1, <2>2 DEF Deleted
<1>3. rpc \notin RecCommitPCs \cup RollbackPCs
  BY DEF Init, RecCommitPCs, RollbackPCs
<1> QED
  BY <1>1, <1>2, <1>3 DEF TerminalInv

LEMMA AlwaysTerminal ==
  ASSUME "recover" \notin Requests, {"abort_att", "abort_jrnl"} \cap FaultSites = {}
  PROVE  Spec => []TerminalInv
<1>1. TypeInv /\ JournalInv /\ RecoveryInv /\ PayloadInv /\ LedgerInv /\ SingleInv
        /\ TerminalInv /\ [Next]_vars => TerminalInv'
  BY NextTerminal
<1> QED
  BY <1>1, InitTerminal, AlwaysSound, AlwaysPayloads, AlwaysLedger, AlwaysSingle, PTL DEF Spec

\* A step leaves a RECLAIMED object RECLAIMED.
LEMMA TerminalKept ==
  ASSUME TypeInv, JournalInv, RecoveryInv, LedgerInv, TerminalInv, [Next]_vars,
         NEW o \in Objects, object[o].state = "RECLAIMED"
  PROVE  object'[o].state = "RECLAIMED"
<1>1. CASE UNCHANGED vars \/ Process \/ \E p \in Payloads : Corrupt(p)
  <2>1. object' = object
    BY <1>1 DEF vars, Process, Start, Exit, Crash, Vanish, RequestShutdown,
       HeartbeatThreadError, Corrupt, storeVars
  <2> QED
    BY <2>1
<1>2. ASSUME NEW w \in Workers, Request(w) PROVE object'[o].state = "RECLAIMED"
  <2>1. object' = object
    BY <1>2, Zenon DEF Request, FlagBegin, CreateBegin, Reserve, VerifyBegin, ArchiveBegin,
       AddLineage, RemoveLineage, RecoverRequest, storeVars
  <2> QED
    BY <2>1
<1>3. CASE RecoveryStep
  <2> DEFINE q == entry[rec.att].obj
  <2>1. CASE RollbackObject
    <3>1. /\ rpc \in AtEntry /\ rpc \in RollbackPCs
          /\ object' = [object EXCEPT ![q] = RestoredObject(object[q], entry[rec.att].prior)]
      BY <2>1 DEF RollbackObject, UpdateObject, RecAt, AtEntry, EntryPCs, RollbackPCs
    <3>2. q # o
      <4>1. rec.att \in OpenAttempts /\ ~Finished(rec.att)
        BY <3>1, AtHandHolds DEF TerminalInv
      <4>2. ~Taken(rec.att)
        BY <4>1 DEF TerminalInv
      <4> QED
        BY <4>2 DEF Taken
    <3> QED
      BY <3>1, <3>2 DEF TypeInv, TypeOK, StoreTypeOK
  <2>2. CASE RecCommitObject
    <3>1. /\ rpc \in AtEntry
          /\ object' = [object EXCEPT ![q] = [object[q] EXCEPT !.state = "RECLAIMED"]]
      BY <2>2 DEF RecCommitObject, UpdateObject, RecAt, AtEntry, EntryPCs
    <3>2. q \in Objects
      BY <3>1, AtHandHolds
    <3> QED
      BY <3>1, <3>2 DEF TypeInv, TypeOK, StoreTypeOK, ObjectRow
  <2>3. CASE \E p \in Payloads : RollbackRow(p) \/ RecCommitRow(p)
    BY <2>3 DEF RollbackRow, RecCommitRow
  <2> QED
    BY <1>3, <2>1, <2>2, <2>3, RecoveryRecords
<1> QED
  BY <1>1, <1>2, <1>3, ReclaimedStays DEF Next

(* lifecycle.rs: RECLAIMED is terminal, although recovery restores prior rows *)
(* without asking the state machine.  A RECLAIMED object can still have an    *)
(* open entry, its commit having failed half way; recovery then finds its     *)
(* payloads and its archive gone and commits it, never rolls it back.  The    *)
(* hypothesis is needed: if an abort closes the reservation and cannot close  *)
(* the entry, a second reclaim may reclaim the object while the first one's   *)
(* entry still asks for a rollback (run reclaimed_terminal).                  *)
THEOREM ReclaimedIsTerminal ==
  ASSUME "recover" \notin Requests, {"abort_att", "abort_jrnl"} \cap FaultSites = {}
  PROVE  Spec => ReclaimedTerminal
<1>1. TypeInv /\ JournalInv /\ RecoveryInv /\ LedgerInv /\ TerminalInv /\ [Next]_vars
        => [\A o \in Objects : object[o].state = "RECLAIMED"
                                 => object'[o].state = "RECLAIMED"]_vars
  BY TerminalKept
<1> QED
  BY <1>1, AlwaysTerminal, AlwaysSound, AlwaysLedger, PTL DEF Spec, ReclaimedTerminal

-----------------------------------------------------------------------------
(* Payloads of rows. *)

\* An open entry has the deletion of the payload planned.
Backed(o, p) == \E a \in OpenAttempts : entry[a].obj = o /\ p \in plan[a]

WrittenPCs == {"create_insert", "create_row"}
Written(c, l) == c \in WrittenPCs => blob[l.cur] # "absent"

\* The last steps of recovery's commit.
RecClosePCs == {"cm_resv", "cm_att", "cm_jrnl"}

PresentInv ==
  /\ \A o \in Objects : \A p \in Rows(o) : blob[p] = "absent" => Backed(o, p)
  /\ \A w \in Workers : Written(pc[w], loc[w])
  /\ rpc \in RecClosePCs => Rows(entry[rec.att].obj) = {}

LEMMA NotWritten ==
  ASSUME NEW c, c \notin StoredPCs, NEW l
  PROVE  Written(c, l)
BY DEF Written, WrittenPCs, StoredPCs

\* A reclaim in its physical phase keeps the plan, and closes the entry only
\* when the object has no rows.
LEMMA AfterKeeps ==
  ASSUME TypeInv, JournalInv, RecoveryInv, LedgerInv, NEW w \in Workers,
         WorkerStep(w) \/ WorkerFault(w), pc[w] \in AfterPCs,
         NEW o \in Objects, o = loc[w].obj, NEW a \in Attempts, a = loc[w].att
  PROVE  plan' = plan /\ (phase'[a] \in OpenPhases \/ Rows(o) = {})
<1>1. WorkStep(w) /\ (ReclaimStep(w) \/ WorkerFault(w) \/ AuthorityError(w))
  BY WorkerWork, FaultWork, ReclaimOrFails, ReclaimSides
<1>2. ~StartPhysical(w) /\ ~ReclaimValidated(w) /\ ~AbortJournal(w)
  <2>1. {"start", "validate", "abort_jrnl"} \subseteq BeforePCs
    BY DEF BeforePCs, AbortPCs
  <2> QED
    BY <2>1, ReclaimSides DEF StartPhysical, ReclaimValidated, AbortJournal, CloseJournal
<1>3. plan' = plan
  BY <1>1, <1>2, FailWrites, ReclaimWrites
<1>4. phase[a] \in PhysicalPhases /\ PhysicalPhases \subseteq OpenPhases
  BY DEF RecoveryInv, ReclaimSound, PhysicalPhases
<1>5. CASE phase' = phase
  BY <1>3, <1>4, <1>5
<1>6. CASE PhysicalDone(w)
  <2>1. pc'[w] \in AfterPCs
    BY <1>6, GotoFrame DEF PhysicalDone, AfterPCs
  <2> QED
    BY <1>1, <1>3, <1>4, <2>1, ReclaimSides DEF WorkStep, WritesJournal
<1>7. CASE CommitJournal(w)
  <2>1. pc[w] \in ClosedPCs
    BY <1>7 DEF CommitJournal, CloseJournal, ClosedPCs
  <2>2. object[o].state = "RECLAIMED"
    BY <2>1 DEF LedgerInv, Holds
  <2> QED
    BY <1>3, <2>2 DEF LedgerInv, ObjectHolds
<1> QED
  BY <1>1, <1>2, <1>5, <1>6, <1>7, FailWrites, ReclaimWrites

\* So the payloads that are absent keep their entry.
LEMMA BackedKept ==
  ASSUME TypeInv, JournalInv, RecoveryInv, LedgerInv, NEW w \in Workers,
         WorkerStep(w) \/ WorkerFault(w), NEW q \in Objects, NEW p \in Rows(q), Backed(q, p)
  PROVE  Backed(q, p)'
<1>1. WorkStep(w)
  BY WorkerWork, FaultWork
<1>2. PICK a \in OpenAttempts : entry[a].obj = q /\ p \in plan[a]
  BY DEF Backed
<1>3. a \in Attempts /\ phase[a] \in OpenPhases /\ entry' = entry
  BY <1>1 DEF OpenAttempts, WorkStep
<1>4. CASE a # loc[w].att
  <2>1. phase'[a] = phase[a] /\ plan'[a] = plan[a]
    BY <1>1, <1>3, <1>4 DEF WorkStep, WritesJournal
  <2> QED
    BY <1>2, <1>3, <2>1 DEF Backed, OpenAttempts
<1>5. CASE a = loc[w].att
  <2>1. pc[w] \in ReclaimPCs /\ loc[w].obj = q
    BY <1>2, <1>3, <1>5 DEF RecoveryInv, ReclaimSound, JournalInv, WorkerOwns
  <2>2. pc[w] \notin BeforePCs
    BY <1>2, <1>3, <1>5 DEF RecoveryInv, ReclaimSound, EntrySound
  <2>3. pc[w] \in AfterPCs
    BY <2>1, <2>2, ReclaimSides
  <2>4. plan' = plan /\ phase'[a] \in OpenPhases
    BY <1>3, <1>5, <2>1, <2>3, AfterKeeps
  <2> QED
    BY <1>2, <1>3, <2>4 DEF Backed, OpenAttempts
<1> QED
  BY <1>4, <1>5

\* A step of one request, seen from the payloads of rows.
LEMMA PresentStep ==
  ASSUME TypeInv, JournalInv, RecoveryInv, PayloadInv, LedgerInv, TerminalInv, PresentInv,
         NEW w \in Workers, WorkerStep(w) \/ WorkerFault(w),
         NEW o \in Objects, o = loc[w].obj,
         \A p \in Rows(o)' : p \in Rows(o) \/ blob'[p] # "absent",
         Written(pc[w], loc[w])'
  PROVE  PresentInv'
<1>1. WorkStep(w) /\ PayloadStep(w) /\ Touches(w)
  BY WorkerWork, FaultWork, WorkerPayloads, FaultPayloads, RequestTouches
<1>2. /\ mode = "up" /\ UNCHANGED <<entry, rpc, rec>>
      /\ \A v \in Workers \ {w} : pc'[v] = pc[v] /\ loc'[v] = loc[v]
  BY <1>1 DEF PayloadStep, WorkStep
<1>3. ASSUME NEW p \in Payloads, blob'[p] # blob[p]
      PROVE  /\ p \in loc[w].held /\ AtHand(w, p)
             /\ pc[w] \in CreatePCs => Owners(p) = {}
             /\ \A q \in Owners(p) : q = o
  <2>1. AtHand(w, p)
    BY <1>1, <1>3 DEF Touches
  <2> QED
    BY <1>2, <2>1, AtHandGuarded
<1>4. ASSUME NEW q \in Objects, NEW p \in Rows(q)', blob'[p] = "absent"
      PROVE  Backed(q, p)'
  <2>1. p \in Payloads /\ p \in Rows(q)
    <3>1. CASE q = o
      BY <1>4, <3>1 DEF Rows
    <3>2. CASE q # o
      BY <1>1, <1>4, <3>2 DEF PayloadStep, Rows
    <3> QED
      BY <3>1, <3>2
  <2>2. q \in Owners(p)
    BY <2>1 DEF Rows, Owners
  <2>3. CASE blob[p] = "absent"
    <3>1. Backed(q, p)
      BY <2>1, <2>3 DEF PresentInv
    <3> QED
      BY <2>1, <3>1, BackedKept
  <2>4. CASE blob[p] # "absent"
    <3>1. AtHand(w, p) /\ pc[w] \notin CreatePCs /\ q = o
      BY <1>3, <1>4, <2>1, <2>2, <2>4
    <3>2. pc[w] = "delete" /\ p \in loc[w].todo
      BY <3>1 DEF AtHand, CreatePCs
    <3>3. loc[w].att \in Attempts /\ entry[loc[w].att].obj = q
      BY <3>1, <3>2 DEF JournalInv, WorkerOwns, ReclaimPCs
    <3>4. p \in plan[loc[w].att] /\ phase[loc[w].att] \in OpenPhases
      BY <3>2 DEF TerminalInv, Deleted, RecoveryInv, ReclaimSound, AfterPCs, PhysicalPhases
    <3>5. Backed(q, p)
      BY <3>3, <3>4 DEF Backed, OpenAttempts
    <3> QED
      BY <2>1, <3>5, BackedKept
  <2> QED
    BY <2>3, <2>4
<1>5. ASSUME NEW v \in Workers PROVE Written(pc[v], loc[v])'
  <2>1. CASE v = w
    BY <2>1
  <2>2. CASE v # w /\ pc[v] \in WrittenPCs
    <3>1. /\ pc'[v] = pc[v] /\ loc'[v] = loc[v] /\ Written(pc[v], loc[v])
          /\ Facts(pc[v], loc[v]) /\ loc[v].held \cap loc[w].held = {}
      BY <1>2, <2>2 DEF PresentInv, PayloadInv
    <3>2. loc[v].cur \in loc[v].held /\ blob[loc[v].cur] # "absent"
      BY <2>2, <3>1 DEF Written, WrittenPCs, Facts, Guarded, StoringPCs
    <3>3. loc[v].cur \in Payloads /\ loc[v].cur \notin loc[w].held
      BY <3>1, <3>2, LocalsFields
    <3>4. blob'[loc[v].cur] = blob[loc[v].cur]
      BY <1>3, <3>3
    <3> QED
      BY <3>1, <3>2, <3>4 DEF Written
  <2>3. CASE v # w /\ pc[v] \notin WrittenPCs
    BY <1>2, <2>3 DEF Written
  <2> QED
    BY <2>1, <2>2, <2>3
<1>6. rpc' \notin RecClosePCs
  BY <1>2 DEF PayloadInv, RecClosePCs
<1> QED
  BY <1>4, <1>5, <1>6 DEF PresentInv

\* Every request but a registration only removes rows and writes no payload.
LEMMA OtherPresent ==
  ASSUME TypeInv, JournalInv, RecoveryInv, PayloadInv, LedgerInv, TerminalInv, PresentInv,
         NEW w \in Workers, WorkerStep(w) \/ WorkerFault(w), ~CreateStep(w)
  PROVE  PresentInv'
<1>1. WorkStep(w)
  BY WorkerWork, FaultWork
<1>2. PICK o \in Objects : o = loc[w].obj
  BY <1>1, NoRecoveryNow DEF WorkStep
<1>3. ASSUME Rows(o)' \subseteq Rows(o), pc'[w] \notin StoredPCs PROVE PresentInv'
  <2>1. Written(pc[w], loc[w])'
    BY <1>3 DEF Written, WrittenPCs, StoredPCs
  <2> QED
    BY <1>2, <1>3, <2>1, PresentStep
<1>4. CASE WorkerFault(w) \/ AuthorityError(w)
  BY <1>3, <1>4, FailWrites, RowsSame, FaultStored
<1>5. CASE VerifyStep(w)
  BY <1>3, <1>5, VerifySame, StoredSides DEF SameLedger
<1>6. CASE FlagWrite(w)
  <2>1. rows' = rows /\ Return(w)
    BY <1>6 DEF FlagWrite
  <2> QED
    BY <1>3, <2>1, RowsSame, ReturnOwns, StoredSides
<1>7. CASE ArchiveStep(w)
  <2>1. rows' = rows /\ pc'[w] \in ArchivePCs \cup {"idle"}
    BY <1>7, GotoFrame, ReturnOwns
    DEF ArchiveStep, ArchiveWrite, ArchiveInsert, ArchivePublish, ArchiveUnrow,
        ArchiveUnblob, ArchivePCs, storeVars
  <2> QED
    BY <1>3, <2>1, RowsSame, StoredSides
<1>8. CASE ReclaimStep(w)
  <2>1. pc'[w] \in ReclaimPCs \cup {"idle"}
    BY <1>1, <1>8, ReclaimPC, ReclaimSides DEF WorkStep, Returns, GoesOn
  <2>2. Rows(o)' \subseteq Rows(o)
    <3>1. CASE rows' = rows
      BY <3>1, RowsSame
    <3>2. ASSUME NEW p \in Payloads, CommitRow(w, p) PROVE Rows(o)' \subseteq Rows(o)
      <4>1. rows' = [rows EXCEPT ![o][p] = "none"]
        BY <1>2, <3>2 DEF CommitRow, DeleteReplica
      <4>2. \A s \in Payloads : rows'[o][s] # "none" => rows[o][s] # "none"
        BY <4>1 DEF TypeInv, TypeOK, StoreTypeOK
      <4> QED
        BY <4>2 DEF Rows
    <3> QED
      BY <1>8, <3>1, <3>2, ReclaimWrites
  <2> QED
    BY <1>3, <2>1, <2>2, StoredSides
<1> QED
  BY <1>4, <1>5, <1>6, <1>7, <1>8 DEF WorkerStep

\* A registration adds a row after its payload has been read back or written.
LEMMA CreatePresent ==
  ASSUME TypeInv, JournalInv, RecoveryInv, PayloadInv, LedgerInv, TerminalInv, PresentInv,
         NEW w \in Workers, CreateStep(w)
  PROVE  PresentInv'
<1>0. WorkerStep(w) /\ WorkStep(w) /\ mode = "up"
  BY CreateWork, CreatePayloads DEF PayloadStep, WorkerStep
<1>1. PICK o \in Objects : o = loc[w].obj
  BY <1>0, NoRecoveryNow DEF WorkStep
<1>2. Facts(pc[w], loc[w]) /\ Written(pc[w], loc[w])
  BY DEF PayloadInv, PresentInv
<1>3. ASSUME Rows(o)' \subseteq Rows(o), Written(pc[w], loc[w])' PROVE PresentInv'
  BY <1>0, <1>1, <1>3, PresentStep
<1>4. ASSUME Rows(o)' \subseteq Rows(o), pc'[w] \notin WrittenPCs PROVE PresentInv'
  BY <1>3, <1>4 DEF Written
<1>5. ASSUME NEW p \in Payloads, CreateAcquire(w, p) PROVE PresentInv'
  <2> DEFINE r == [loc[w] EXCEPT !.cur = p]
  <2>1. rows' = rows /\ blob' = blob /\ blob[p] = "ok" /\ loc'[w] = r
    BY <1>5, LocalsFrame DEF CreateAcquire, physVars
  <2>2. r.cur = p
    BY LocalsFields DEF Locals
  <2>3. Written(pc[w], loc[w])'
    BY <2>1, <2>2 DEF Written
  <2> QED
    BY <1>3, <2>1, <2>3, RowsSame
<1>6. CASE CreateWrite(w)
  <2>1. /\ pc[w] = "create_write" /\ rows' = rows /\ loc' = loc
        /\ blob' = [blob EXCEPT ![loc[w].cur] = "ok"]
    BY <1>6 DEF CreateWrite, storeVars
  <2>2. loc[w].cur \in Payloads
    BY <1>2, <2>1, LocalsFields DEF Facts, Guarded, StoringPCs
  <2>3. Written(pc[w], loc[w])'
    BY <2>1, <2>2 DEF Written, TypeInv, TypeOK, PhysTypeOK
  <2> QED
    BY <1>3, <2>1, <2>3, RowsSame
<1>7. CASE CreateInsert(w)
  <2>1. pc[w] = "create_insert" /\ rows' = rows /\ loc' = loc /\ blob' = blob
    BY <1>7 DEF CreateInsert, physVars
  <2>2. Written(pc[w], loc[w])'
    BY <1>2, <2>1 DEF Written, WrittenPCs
  <2> QED
    BY <1>3, <2>1, <2>2, RowsSame
<1>8. CASE CreateRow(w)
  <2>1. /\ pc[w] = "create_row" /\ blob' = blob
        /\ pc'[w] \in {"publish", "create_ref"}
        /\ rows' = [rows EXCEPT ![o][loc[w].cur] = "valid"]
    BY <1>1, <1>8, GotoFrame DEF CreateRow, WriteReplica, physVars
  <2>2. loc[w].cur \in Payloads /\ blob[loc[w].cur] # "absent"
    BY <1>2, <2>1, CurAt DEF Written, WrittenPCs
  <2>3. \A s \in Payloads : s # loc[w].cur => rows'[o][s] = rows[o][s]
    BY <2>1, <2>2 DEF TypeInv, TypeOK, StoreTypeOK
  <2>4. \A s \in Rows(o)' : s \in Rows(o) \/ blob'[s] # "absent"
    BY <2>1, <2>2, <2>3 DEF Rows
  <2>5. Written(pc[w], loc[w])'
    BY <2>1 DEF Written, WrittenPCs
  <2> QED
    BY <1>0, <1>1, <2>4, <2>5, PresentStep
<1>9. CASE CreateLock(w) \/ \E p \in Payloads : CreateMiss(w, p)
  <2>1. rows' = rows /\ pc'[w] \in {"create_ref", "create_write"}
    BY <1>9, GotoFrame DEF CreateLock, CreateMiss, storeVars
  <2> QED
    BY <1>4, <2>1, RowsSame DEF WrittenPCs
<1>10. CASE CreateLockFails(w) \/ UndoLockFails(w) \/ UndoReturn(w) \/ Publish(w)
  <2>1. rows' = rows /\ Return(w)
    BY <1>10 DEF CreateLockFails, UndoLockFails, UndoReturn, Publish, storeVars
  <2> QED
    BY <1>4, <2>1, RowsSame, ReturnOwns DEF WrittenPCs
<1>11. CASE \/ \E p \in Payloads : CreateRefuse(w, p)
            \/ CreateUnref(w) \/ CreateUnblob(w) \/ UndoLock(w) \/ UndoEnter(w)
            \/ UndoRelease(w) \/ UndoLeave(w)
  <2>1. /\ rows' = rows
        /\ \E c \in {"undo", "create_unblob"} \cup UndoingPCs : Goto(w, c)
    BY <1>11 DEF CreateRefuse, CreateUnref, CreateUnblob, UndoLock, UndoEnter,
       UndoRelease, UndoLeave, storeVars, UndoingPCs
  <2>2. pc'[w] \notin WrittenPCs
    BY <2>1, GotoFrame DEF WrittenPCs, UndoingPCs
  <2> QED
    BY <1>4, <2>1, <2>2, RowsSame
<1>12. ASSUME NEW p \in Payloads, UndoRow(w, p) PROVE PresentInv'
  <2>1. rows' = [rows EXCEPT ![o][p] = "none"] /\ pc'[w] \notin WrittenPCs
    BY <1>1, <1>12, GotoFrame DEF UndoRow, DeleteReplica, WrittenPCs
  <2>2. \A s \in Payloads : rows'[o][s] # "none" => rows[o][s] # "none"
    BY <2>1 DEF TypeInv, TypeOK, StoreTypeOK
  <2> QED
    BY <1>4, <2>1, <2>2 DEF Rows
<1>13. ASSUME NEW p \in Payloads, UndoBlob(w, p) PROVE PresentInv'
  <2>1. rows' = rows /\ pc'[w] = pc[w] /\ pc[w] = "undo_blob"
    BY <1>13 DEF UndoBlob, storeVars
  <2> QED
    BY <1>4, <2>1, RowsSame DEF WrittenPCs
<1> QED
  BY <1>5, <1>6, <1>7, <1>8, <1>9, <1>10, <1>11, <1>12, <1>13 DEF CreateStep

\* Steps that leave rows, payloads and open entries: requests that begin, the
\* process, and a payload that rots.
LEMMA StillPresent ==
  ASSUME TypeInv, JournalInv, PayloadInv, PresentInv, UNCHANGED <<rows, plan>>,
         \A p \in Payloads : (blob'[p] = "absent") <=> (blob[p] = "absent"),
         \A b \in OpenAttempts : phase'[b] = phase[b] /\ entry'[b] = entry[b],
         \A w \in Workers : \/ pc'[w] \notin WrittenPCs
                            \/ pc'[w] = pc[w] /\ loc'[w] = loc[w],
         rpc' \in RecClosePCs => UNCHANGED <<rpc, rec, entry>>
  PROVE  PresentInv'
<1>1. ASSUME NEW o \in Objects, NEW p \in Rows(o)', blob'[p] = "absent"
      PROVE  Backed(o, p)'
  <2>1. p \in Rows(o) /\ p \in Payloads
    BY <1>1 DEF Rows
  <2>2. Backed(o, p)
    BY <1>1, <2>1 DEF PresentInv
  <2> QED
    BY <2>2 DEF Backed, OpenAttempts
<1>2. ASSUME NEW w \in Workers PROVE Written(pc[w], loc[w])'
  <2>1. CASE pc'[w] \notin WrittenPCs
    BY <2>1 DEF Written
  <2>2. CASE pc'[w] \in WrittenPCs /\ pc'[w] = pc[w] /\ loc'[w] = loc[w]
    <3>1. Written(pc[w], loc[w]) /\ loc[w].cur \in Payloads
      BY <2>2, CurAt DEF PresentInv, WrittenPCs
    <3> QED
      BY <2>2, <3>1 DEF Written
  <2> QED
    BY <2>1, <2>2
<1>3. rpc' \in RecClosePCs => Rows(entry[rec.att].obj)' = {}
  BY DEF PresentInv, Rows
<1> QED
  BY <1>1, <1>2, <1>3 DEF PresentInv

LEMMA RequestPresent ==
  ASSUME TypeInv, JournalInv, PayloadInv, PresentInv, "recover" \notin Requests,
         NEW w \in Workers, Request(w)
  PROVE  PresentInv'
<1>1. /\ UNCHANGED <<rows, plan, blob, rpc>> /\ mode = "up"
      /\ \A b \in OpenAttempts : phase'[b] = phase[b] /\ entry'[b] = entry[b]
  <2>1. CASE \E o \in Objects, a \in Attempts : Reserve(w, o, a)
    <3>1. PICK o \in Objects, a \in Attempts : Reserve(w, o, a)
      BY <2>1
    <3> DEFINE e == [obj |-> o, prior |-> object[o], rows |-> rows[o], arch |-> arch[o]]
    <3>2. /\ phase[a] = "NONE" /\ mode = "up"
          /\ phase' = [phase EXCEPT ![a] = "RESERVED"] /\ entry' = [entry EXCEPT ![a] = e]
          /\ UNCHANGED <<rows, plan, blob, rpc>>
      BY <3>1 DEF Reserve, Enter, storeVars, physVars, recVars
    <3>3. \A b \in Attempts \ {a} : phase'[b] = phase[b] /\ entry'[b] = entry[b]
      BY <3>2 DEF TypeInv, TypeOK, JournalTypeOK
    <3> QED
      BY <3>2, <3>3 DEF OpenAttempts, OpenPhases, PrePhysical
  <2>2. CASE ~\E o \in Objects, a \in Attempts : Reserve(w, o, a)
    BY <2>2, Zenon DEF Request, FlagBegin, CreateBegin, VerifyBegin, ArchiveBegin, AddLineage,
       RemoveLineage, RecoverRequest, Enter, storeVars, journalVars, physVars, recVars
  <2> QED
    BY <2>1, <2>2
<1>2. rpc' \notin RecClosePCs
  BY <1>1 DEF PayloadInv, RecClosePCs
<1>3. ASSUME NEW v \in Workers
      PROVE  pc'[v] \notin WrittenPCs \/ (pc'[v] = pc[v] /\ loc'[v] = loc[v])
  <2>1. ASSUME NEW c, c \notin WrittenPCs, Goto(w, c), NEW r, SetLocals(w, r)
        PROVE  pc'[v] \notin WrittenPCs \/ (pc'[v] = pc[v] /\ loc'[v] = loc[v])
    BY <2>1, GotoFrame, LocalsFrame
  <2>2. CASE \E o \in Objects, kind \in FlagOps : FlagBegin(w, o, kind)
    <3>1. \E kind \in FlagOps : Goto(w, kind) /\ \E r : SetLocals(w, r)
      BY <2>2 DEF FlagBegin
    <3>2. FlagOps \cap WrittenPCs = {}
      BY DEF FlagOps, WrittenPCs
    <3> QED
      BY <2>1, <3>1, <3>2
  <2>3. CASE \/ \E o \in Objects : CreateBegin(w, o) \/ VerifyBegin(w, o) \/ ArchiveBegin(w, o)
             \/ \E o \in Objects, a \in Attempts : Reserve(w, o, a)
    <3>1. \E c \in {"publish", "create_lock", "ver_lock", "arc_write", "recomputable",
                    "validate", "pending"} : Goto(w, c)
      BY <2>3, Zenon DEF CreateBegin, VerifyBegin, ArchiveBegin, Reserve
    <3>2. \E r : SetLocals(w, r)
      BY <2>3, Zenon DEF CreateBegin, VerifyBegin, ArchiveBegin, Reserve
    <3> QED
      BY <2>1, <3>1, <3>2 DEF WrittenPCs
  <2>4. CASE \E e \in EdgeChoices : AddLineage(w, e) \/ RemoveLineage(w, e)
    BY <2>4 DEF AddLineage, RemoveLineage
  <2> QED
    BY <2>2, <2>3, <2>4 DEF Request, RecoverRequest
<1> QED
  BY <1>1, <1>2, <1>3, StillPresent

\* Recovery adds no row, and closes an entry when its payloads are there or its
\* object has no rows.
LEMMA RecoveryRows ==
  ASSUME TypeInv, JournalInv, RecoveryInv, LedgerInv, TerminalInv, RecoveryStep,
         NEW o \in Objects
  PROVE  Rows(o)' \subseteq Rows(o)
<1> DEFINE q == entry[rec.att].obj
<1>1. CASE rows' = rows
  BY <1>1, RowsSame
<1>2. ASSUME NEW p \in Payloads, RollbackRow(p) PROVE Rows(o)' \subseteq Rows(o)
  <2>1. /\ rpc = "rb_row" /\ p \in rec.todo
        /\ rows' = [rows EXCEPT ![q][p] = entry[rec.att].rows[p]]
    BY <1>2 DEF RollbackRow, WriteReplica, RecAt
  <2>2. rpc \in AtEntry /\ rpc \in RollbackPCs
    BY <2>1 DEF AtEntry, EntryPCs, RollbackPCs
  <2>3. /\ rec.att \in OpenAttempts /\ EntryHolds(rec.att) /\ q \in Objects
        /\ ~Finished(rec.att)
    BY <2>2, AtHandHolds DEF TerminalInv
  <2>4. EntryRows(rec.att) \subseteq Rows(q)
    BY <2>3 DEF TerminalInv, Taken
  <2>5. p \in Rows(q)
    BY <2>1, <2>3, <2>4 DEF EntryHolds
  <2>6. \A s \in Payloads : rows'[o][s] = rows[o][s] \/ (o = q /\ s = p)
    BY <2>1, <2>3 DEF TypeInv, TypeOK, StoreTypeOK
  <2> QED
    BY <2>5, <2>6 DEF Rows
<1>3. ASSUME NEW p \in Payloads, RecCommitRow(p) PROVE Rows(o)' \subseteq Rows(o)
  <2>1. rpc \in AtEntry /\ rows' = [rows EXCEPT ![q][p] = "none"]
    BY <1>3 DEF RecCommitRow, DeleteReplica, RecAt, AtEntry, EntryPCs
  <2>2. q \in Objects
    BY <2>1, AtHandHolds
  <2>3. \A s \in Payloads : rows'[o][s] # "none" => rows[o][s] # "none"
    BY <2>1, <2>2 DEF TypeInv, TypeOK, StoreTypeOK
  <2> QED
    BY <2>3 DEF Rows
<1> QED
  BY <1>1, <1>2, <1>3, RecoveryRecords DEF RollbackObject, RecCommitObject

\* An entry at its end is one whose commit took all rows.
LEMMA RecoveryCloseSteps ==
  ASSUME TypeInv, RecoveryStep, rpc' \in RecClosePCs
  PROVE  rows' = rows /\ rec'.att = rec.att /\ rpc \in RecClosePCs \cup {"cm_obj"}
<1> USE DEF RecAt, RecGoto, RecClosePCs, storeVars
<1>0. rec \in RecoveryLocals
  BY RecTyped
<1>1. CASE RecCommitObject \/ RecCommitReservation
  BY <1>1 DEF RecCommitObject, RecCommitReservation, RecReservation
<1>2. CASE RecCommitAttempt \/ RollbackAttempt
  BY <1>2 DEF RecCommitAttempt, RollbackAttempt, RecAttempt, EntryFails
<1>3. CASE RecScan \/ RecQueueEmpty \/ RecEnd \/ RecExpire \/ RecRepair \/ RecLineage
  BY <1>3 DEF RecScan, RecQueueEmpty, RecEnd, RecExpire, RecRepair, RecLineage, RecoveryFails
<1>4. CASE \E a \in Attempts : RecNext(a) \/ RecBackendError(a)
  BY <1>4 DEF RecNext, RecBackendError
<1>5. CASE \/ RollbackObject \/ RollbackRowsDone \/ RollbackArchive \/ RollbackRepair
           \/ \E p \in Payloads : RollbackRow(p) \/ RollbackRowConflict(p)
  BY <1>5 DEF RollbackObject, RollbackRowsDone, RollbackArchive, RollbackRepair, RollbackRow,
     RollbackRowConflict, EntryFails
<1>6. CASE \/ RecCommitRelease \/ RecCommitRowsDone \/ RecCommitArchive
           \/ \E p \in Payloads : RecCommitRow(p)
  BY <1>6 DEF RecCommitRelease, RecCommitRowsDone, RecCommitArchive, RecCommitRow
<1>7. CASE RollbackReservation \/ RollbackJournal \/ RecCommitJournal
  BY <1>7 DEF RollbackReservation, RollbackJournal, RecCommitJournal, RecReservation, RecJournal
<1>8. CASE RecStoreError \/ RecRepairPartial
  <2>1. \/ EntryFails \/ RecoveryFails
        \/ rpc' = "cm_row"
    BY <1>8, Zenon DEF RecStoreError, RecRepairPartial
  <2> QED
    BY <2>1 DEF EntryFails, RecoveryFails
<1> QED
  BY <1>1, <1>2, <1>3, <1>4, <1>5, <1>6, <1>7, <1>8 DEF RecoveryStep

LEMMA RecoveryPresent ==
  ASSUME TypeInv, JournalInv, RecoveryInv, PayloadInv, LedgerInv, SingleInv, TerminalInv,
         PresentInv, RecoveryStep
  PROVE  PresentInv'
<1> DEFINE q == entry[rec.att].obj
<1>1. /\ UNCHANGED <<entry, plan, blob>>
      /\ \A w \in Workers : pc'[w] \in {"idle", "recover"}
  BY RecoveryWrites, RecoveryModes
<1>2. ASSUME NEW o \in Objects, NEW p \in Rows(o)', blob'[p] = "absent"
      PROVE  Backed(o, p)'
  <2>1. p \in Rows(o) /\ p \in Payloads /\ blob[p] = "absent"
    BY <1>1, <1>2, RecoveryRows DEF Rows
  <2>2. PICK a \in OpenAttempts : entry[a].obj = o /\ p \in plan[a]
    BY <2>1 DEF PresentInv, Backed
  <2>3. phase'[a] = phase[a]
    <3>1. CASE phase' = phase
      BY <3>1
    <3>2. CASE RollbackJournal \/ RecCommitJournal
      <4>1. /\ \/ rpc \in RollbackPCs
               \/ rpc = "cm_jrnl"
            /\ \E s : phase' = [phase EXCEPT ![rec.att] = s]
            /\ rpc \in AtEntry
        BY <3>2 DEF RollbackJournal, RecCommitJournal, RecJournal, UpdateJournalPhase, RecAt,
           RollbackPCs, AtEntry, EntryPCs
      <4>2. a # rec.att
        <5>1. ASSUME a = rec.att, rpc \in RollbackPCs PROVE FALSE
          BY <2>1, <2>2, <5>1 DEF RecoveryInv, DecisionSound
        <5>2. ASSUME a = rec.att, rpc = "cm_jrnl" PROVE FALSE
          BY <2>1, <2>2, <5>2 DEF PresentInv, RecClosePCs
        <5> QED
          BY <4>1, <5>1, <5>2
      <4>3. a \in Attempts
        BY DEF OpenAttempts
      <4> QED
        BY <4>1, <4>2, <4>3 DEF TypeInv, TypeOK, JournalTypeOK
    <3> QED
      BY <3>1, <3>2, RecoveryWrites
  <2> QED
    BY <1>1, <2>2, <2>3 DEF Backed, OpenAttempts
<1>3. ASSUME NEW w \in Workers PROVE Written(pc[w], loc[w])'
  BY <1>1 DEF Written, WrittenPCs
<1>4. ASSUME rpc' \in RecClosePCs PROVE Rows(entry[rec.att].obj)' = {}
  <2>1. rows' = rows /\ rec'.att = rec.att /\ rpc \in RecClosePCs \cup {"cm_obj"}
    BY <1>4, RecoveryCloseSteps
  <2>2. Rows(q) = {}
    <3>1. CASE rpc \in RecClosePCs
      BY <3>1 DEF PresentInv
    <3>2. CASE rpc = "cm_obj"
      <4>1. rpc \in AtEntry
        BY <3>2 DEF AtEntry, EntryPCs
      <4> QED
        BY <3>2, <4>1, AtHandHolds DEF EntryHolds
    <3> QED
      BY <2>1, <3>1, <3>2
  <2> QED
    BY <1>1, <2>1, <2>2 DEF Rows
<1> QED
  BY <1>2, <1>3, <1>4 DEF PresentInv

LEMMA NextPresent ==
  ASSUME "recover" \notin Requests
  PROVE  TypeInv /\ JournalInv /\ RecoveryInv /\ PayloadInv /\ LedgerInv /\ SingleInv
           /\ TerminalInv /\ PresentInv /\ [Next]_vars => PresentInv'
<1> SUFFICES ASSUME TypeInv, JournalInv, RecoveryInv, PayloadInv, LedgerInv, SingleInv,
                    TerminalInv, PresentInv, [Next]_vars
             PROVE  PresentInv'
  OBVIOUS
<1>1. CASE UNCHANGED vars
  <2>1. UNCHANGED <<rows, phase, entry, plan, blob, pc, loc, rpc, rec>>
    BY <1>1 DEF vars, storeVars, journalVars, physVars, workVars, recVars
  <2> QED
    BY <2>1, StillPresent
<1>2. CASE Process
  <2>1. /\ UNCHANGED <<rows, phase, entry, plan, blob>>
        /\ UNCHANGED <<pc, loc>> \/ \A w \in Workers : pc'[w] = "idle"
        /\ UNCHANGED <<rpc, rec>> \/ rpc' \in {"off", "scan"}
    BY <1>2 DEF Process, Start, Exit, Crash, Vanish, RequestShutdown, HeartbeatThreadError,
       storeVars, journalVars, physVars, workVars, recVars
  <2>2. \A w \in Workers : pc'[w] \notin WrittenPCs \/ (pc'[w] = pc[w] /\ loc'[w] = loc[w])
    BY <2>1 DEF WrittenPCs
  <2>3. rpc' \in RecClosePCs => UNCHANGED <<rpc, rec, entry>>
    BY <2>1 DEF RecClosePCs
  <2> QED
    BY <2>1, <2>2, <2>3, StillPresent
<1>3. ASSUME NEW p \in Payloads, Corrupt(p) PROVE PresentInv'
  <2>1. /\ UNCHANGED <<rows, phase, entry, plan, pc, loc, rpc, rec>>
        /\ blob[p] = "ok" /\ blob' = [blob EXCEPT ![p] = "corrupt"]
    BY <1>3 DEF Corrupt, storeVars, journalVars, workVars, recVars
  <2>2. \A s \in Payloads : (blob'[s] = "absent") <=> (blob[s] = "absent")
    BY <2>1 DEF TypeInv, TypeOK, PhysTypeOK
  <2> QED
    BY <2>1, <2>2, StillPresent
<1>4. ASSUME NEW w \in Workers, WorkerStep(w) \/ WorkerFault(w) PROVE PresentInv'
  BY <1>4, CreatePresent, OtherPresent DEF WorkerStep
<1> QED
  BY <1>1, <1>2, <1>3, <1>4, RequestPresent, RecoveryPresent DEF Next

LEMMA InitPresent == Init => PresentInv
<1> SUFFICES ASSUME Init PROVE PresentInv
  OBVIOUS
<1>1. ASSUME NEW o \in Objects, NEW p \in Rows(o) PROVE blob[p] # "absent"
  <2>1. p \in Payloads /\ o \in InitialObjects /\ p \in Targets[o]
    BY DEF Init, Rows
  <2> QED
    BY <2>1 DEF Init
<1>2. ASSUME NEW w \in Workers PROVE Written(pc[w], loc[w])
  BY DEF Init, Written, WrittenPCs
<1>3. rpc \notin RecClosePCs
  BY DEF Init, RecClosePCs
<1> QED
  BY <1>1, <1>2, <1>3 DEF PresentInv

(* register, reclaim and recovery: a row is added only after its payload was  *)
(* written or read back, the payload is deleted only if the journal has its   *)
(* deletion, and the entry that says so stays open until the rows are gone or *)
(* the payload has been seen on its backend.  So whatever fails or crashes, a *)
(* row whose payload is missing has an open entry for recovery to decide.     *)
THEOREM RowsHaveTheirPayload ==
  ASSUME "recover" \notin Requests, {"abort_att", "abort_jrnl"} \cap FaultSites = {}
  PROVE  Spec => []LivePayloadPresent
<1>1. TypeInv /\ JournalInv /\ RecoveryInv /\ PayloadInv /\ LedgerInv /\ SingleInv
        /\ TerminalInv /\ PresentInv /\ [Next]_vars => PresentInv'
  BY NextPresent
<1>2. PresentInv => LivePayloadPresent
  BY DEF PresentInv, LivePayloadPresent, Registered, Rows, Backed
<1> QED
  BY <1>1, <1>2, InitPresent, AlwaysSound, AlwaysPayloads, AlwaysLedger, AlwaysSingle,
     AlwaysTerminal, PTL DEF Spec

-----------------------------------------------------------------------------
(* Errors before the physical phase. *)

\* The planning closure finds a reference count for every row.
LEMMA PlanFindsCounts ==
  ASSUME TypeInv, JournalInv, PayloadInv, NEW w \in Workers, pc[w] = "plan", mode = "up"
  PROVE  \A p \in loc[w].todo : dedup[p] > 0
<1>1. Facts(pc[w], loc[w]) /\ loc[w].todo \subseteq Payloads
  BY LocalsFields DEF PayloadInv
<1>2. loc[w].todo \subseteq Rows(loc[w].obj)
  BY <1>1 DEF Facts, Guarded, RowsThere, UnlockedPCs, LockedPCs
<1>3. loc[w].obj \in Objects
  BY DEF JournalInv, WorkerOwns
<1>4. ASSUME NEW p \in loc[w].todo PROVE dedup[p] > 0
  <2>1. p \in Payloads /\ loc[w].obj \in Owners(p)
    BY <1>1, <1>2, <1>3 DEF Rows, Owners
  <2>2. Owners(p) \subseteq Objects /\ IsFiniteSet(Objects)
    BY ConstantsAssumption DEF ConstantsAssumption, Owners
  <2>3. IsFiniteSet(Owners(p)) /\ Cardinality(Owners(p)) \in Nat
    BY <2>2, FS_Subset, FS_CardinalityType
  <2>4. Cardinality(Owners(p)) # 0
    BY <2>1, <2>3, FS_EmptySet
  <2>5. dedup[p] >= Cardinality(Owners(p)) /\ dedup[p] \in Nat
    BY <2>1 DEF PayloadInv, Covered, TypeInv, TypeOK, StoreTypeOK
  <2> QED
    BY <2>3, <2>4, <2>5
<1> QED
  BY <1>4

\* A reclaim that returns before the physical phase has closed its entry, or
\* authority is lost, or a statement failed whose error is returned by ?.
LEMMA BeforeReturns ==
  ASSUME TypeInv, JournalInv, RecoveryInv, PayloadInv,
         NEW w \in Workers, WorkerStep(w) \/ WorkerFault(w),
         pc[w] \in BeforePCs, pc'[w] = "idle"
  PROVE  \/ lost'
         \/ phase'[loc[w].att] \notin OpenPhases
         \/ pc[w] \in UnabortedPCs /\ StatementError(w)
<1>1. ReclaimStep(w) \/ WorkerFault(w) \/ AuthorityError(w)
  BY ReclaimOrFails, ReclaimSides
<1>2. CASE AuthorityError(w)
  BY <1>2 DEF AuthorityError, procVars
<1>3. CASE EntryHeartbeatError(w)
  BY <1>3 DEF EntryHeartbeatError, Fence
<1>4. CASE StatementError(w)
  <2> SUFFICES ASSUME pc[w] \notin UnabortedPCs PROVE FALSE
    BY <1>4
  <2>1. /\ CallsStore(w) \/ pc[w] \in ClosurePCs
        /\ StepFails(w)
    BY <1>4, Zenon DEF StatementError
  <2>2. pc[w] # "lock"
    BY <2>1 DEF CallsStore, EnteringPCs, ClosurePCs, CommitPCs, AbortPCs
  <2>3. pc[w] = "survive" \/ pc[w] = "graph" \/ pc[w] = "deps" \/ pc[w] = "start"
    BY <2>2 DEF BeforePCs, UnabortedPCs
  <2>4. ErrorTarget(w) = "abort"
    BY <2>3 DEF ErrorTarget, CommitPCs
  <2>5. Goto(w, "abort")
    BY <2>1, <2>4 DEF StepFails
  <2> QED
    BY <2>5, GotoFrame
<1>5. ~(\/ WriteError(w) \/ ReadError(w) \/ ArchiveError(w)
        \/ \E p \in Payloads : DeleteError(w, p) \/ VerifyReadError(w, p))
  BY DEF WriteError, ReadError, ArchiveError, DeleteError, VerifyReadError, BeforePCs,
     AbortPCs
<1>6. CASE ReclaimStep(w)
  <2>1. ASSUME NEW c \in BeforePCs \cup {"delete"}, Goto(w, c) PROVE FALSE
    BY <2>1, GotoFrame DEF BeforePCs, AbortPCs
  <2>2. CASE \/ ToRecomputable(w) \/ ToPending(w) \/ ReclaimValidated(w) \/ Survive(w)
             \/ ReadGraph(w) \/ CheckDependencies(w)
    <3>1. \E c \in BeforePCs \cup {"delete"} : Goto(w, c)
      BY <2>2, Zenon DEF ToRecomputable, ToPending, Transition, ReclaimValidated, Survive,
         ReadGraph, CheckDependencies, BeforePCs
    <3> QED
      BY <2>1, <3>1
  <2>3. CASE \/ ReclaimLock(w) \/ ReclaimLockFails(w) \/ StartPhysical(w)
             \/ AbortObject(w) \/ AbortReservation(w) \/ AbortAttempt(w)
    <3>1. \E c \in BeforePCs \cup {"delete"} : Goto(w, c)
      BY <2>3, Zenon DEF ReclaimLock, ReclaimLockFails, StartPhysical, AbortObject,
         AbortReservation, AbortAttempt, CloseReservation, CloseAttempt, BeforePCs, AbortPCs
    <3> QED
      BY <2>1, <3>1
  <2>4. CASE PlanDeletions(w)
    <3>1. pc[w] = "plan" /\ mode = "up"
      BY <2>4 DEF PlanDeletions, Enter
    <3>2. Goto(w, "start")
      BY <2>4, <3>1, PlanFindsCounts DEF PlanDeletions
    <3> QED
      BY <2>1, <3>2 DEF BeforePCs
  <2>5. CASE AbortJournal(w)
    <3>1. loc[w].att \in Attempts
      BY ReclaimSides DEF JournalInv, WorkerOwns
    <3>2. phase' = [phase EXCEPT ![loc[w].att] = "ROLLED_BACK"]
      BY <2>5 DEF AbortJournal, CloseJournal, UpdateJournalPhase
    <3>3. phase'[loc[w].att] = "ROLLED_BACK"
      BY <3>1, <3>2 DEF TypeInv, TypeOK, JournalTypeOK
    <3> QED
      BY <3>3 DEF OpenPhases
  <2>6. ~(\/ (\E p \in Payloads : DeletePayload(w, p)) \/ DeletedAll(w) \/ DeleteArchive(w)
          \/ ArchiveMissing(w) \/ CheckDeleted(w) \/ PhysicalDone(w) \/ CommitEnter(w)
          \/ (\E p \in Payloads : CommitRow(w, p)) \/ CommitRelease(w)
          \/ CommitRowsDone(w) \/ CommitArchive(w) \/ CommitObject(w)
          \/ CommitReservation(w) \/ CommitAttempt(w) \/ CommitJournal(w)
          \/ Indeterminate(w))
    BY DEF DeletePayload, DeletedAll, DeleteArchive, ArchiveMissing, CheckDeleted,
       PhysicalDone, CommitEnter, CommitRow, CommitRelease, CommitRowsDone, CommitArchive,
       CommitObject, CommitReservation, CommitAttempt, CommitJournal, CloseReservation,
       CloseAttempt, CloseJournal, Indeterminate, BeforePCs, AbortPCs
  <2> QED
    BY <1>6, <2>2, <2>3, <2>4, <2>5, <2>6 DEF ReclaimStep
<1> QED
  BY <1>1, <1>2, <1>3, <1>4, <1>5, <1>6 DEF WorkerFault

\* Whenever a reclaim returns: the entry is closed, or authority is lost, or
\* the archive backend was missing in the physical phase, or a statement failed
\* whose error is returned by ?.
LEMMA ReclaimReturns ==
  ASSUME TypeInv, JournalInv, RecoveryInv, PayloadInv,
         NEW w \in Workers, WorkerStep(w) \/ WorkerFault(w),
         loc[w].att \in Attempts, pc'[w] = "idle"
  PROVE  \/ lost'
         \/ phase'[loc[w].att] \notin OpenPhases
         \/ ~archiveUp /\ phase'[loc[w].att] \notin PrePhysical
         \/ pc[w] \in UnabortedPCs /\ StatementError(w)
<1>1. WorkStep(w)
  BY WorkerWork, FaultWork
<1>2. ReclaimSound(w)
  BY DEF RecoveryInv
<1>3. CASE pc[w] \in BeforePCs
  BY <1>3, BeforeReturns
<1>4. CASE pc[w] \in AfterPCs
  <2>1. Returns(w)
    BY <1>1, <1>4, ReclaimSides DEF WorkStep, GoesOn
  <2>2. phase'[loc[w].att] \notin PrePhysical
    BY <1>1, <1>2, <1>4, ReclaimSides
    DEF WorkStep, WritesJournal, ReclaimSound, PhysicalPhases, PrePhysical
  <2> QED
    BY <1>4, <2>1, <2>2 DEF Returns
<1> QED
  BY <1>2, <1>3, <1>4, ReclaimSides DEF ReclaimSound

\* A request begins in a thread that has none, and opens at most its own entry.
LEMMA RequestFrame ==
  ASSUME TypeInv, "recover" \notin Requests, NEW w \in Workers, Request(w)
  PROVE  /\ pc[w] = "idle" /\ UNCHANGED <<mode, lost>>
         /\ \A v \in Workers \ {w} : pc'[v] = pc[v] /\ loc'[v] = loc[v]
         /\ \A a \in OpenAttempts' : a \in OpenAttempts \/ loc'[w].att = a
<1> DEFINE Framed ==
             /\ pc[w] = "idle" /\ UNCHANGED <<mode, lost>>
             /\ \A v \in Workers \ {w} : pc'[v] = pc[v] /\ loc'[v] = loc[v]
             /\ \A a \in OpenAttempts' : a \in OpenAttempts \/ loc'[w].att = a
<1>1. ASSUME NEW c, Goto(w, c), NEW l, SetLocals(w, l), UNCHANGED <<phase, mode, lost>>,
             pc[w] = "idle"
      PROVE  Framed
  BY <1>1, GotoFrame, LocalsFrame DEF OpenAttempts
<1>2. ASSUME NEW o \in Objects, NEW kind \in FlagOps, FlagBegin(w, o, kind)
      PROVE  Framed
  BY <1>1, <1>2 DEF FlagBegin, journalVars, procVars
<1>3. ASSUME NEW o \in Objects, CreateBegin(w, o) PROVE Framed
  BY <1>1, <1>3 DEF CreateBegin, journalVars, procVars
<1>4. ASSUME NEW o \in Objects, VerifyBegin(w, o) \/ ArchiveBegin(w, o) PROVE Framed
  BY <1>1, <1>4 DEF VerifyBegin, ArchiveBegin, journalVars, procVars
<1>5. CASE \E e \in EdgeChoices : AddLineage(w, e) \/ RemoveLineage(w, e)
  <2>1. pc[w] = "idle" /\ UNCHANGED <<phase, mode, lost, pc, loc>>
    BY <1>5 DEF AddLineage, RemoveLineage, journalVars, procVars
  <2> QED
    BY <2>1 DEF OpenAttempts
<1>6. ASSUME NEW o \in Objects, NEW a \in Attempts, Reserve(w, o, a) PROVE Framed
  <2> DEFINE r == [loc[w] EXCEPT !.obj = o, !.att = a, !.seen = object[o], !.todo = Rows(o)]
  <2>1. /\ pc[w] = "idle" /\ phase' = [phase EXCEPT ![a] = "RESERVED"]
        /\ UNCHANGED <<mode, lost>> /\ SetLocals(w, r)
    BY <1>6 DEF Reserve, procVars
  <2>2. \E c \in {"recomputable", "validate", "pending"} : Goto(w, c)
    BY <1>6, Zenon DEF Reserve
  <2>3. r.att = a
    BY LocalsFields DEF Locals
  <2>4. \A b \in Attempts \ {a} : phase'[b] = phase[b]
    BY <2>1 DEF TypeInv, TypeOK, JournalTypeOK
  <2>5. loc'[w] = r /\ \A v \in Workers \ {w} : loc'[v] = loc[v]
    BY <2>1, LocalsFrame
  <2>6. \A v \in Workers \ {w} : pc'[v] = pc[v]
    BY <2>2, GotoFrame
  <2>7. \A b \in OpenAttempts' : b \in OpenAttempts \/ loc'[w].att = b
    BY <2>3, <2>4, <2>5 DEF OpenAttempts
  <2> QED
    BY <2>1, <2>5, <2>6, <2>7
<1> QED
  BY <1>2, <1>3, <1>4, <1>5, <1>6 DEF Request, RecoverRequest

\* A step that ends no reclaim, for what its end has to leave.
LEMMA ReclaimsGoOn ==
  ASSUME TypeInv, JournalInv, RecoveryInv, PayloadInv, "recover" \notin Requests,
         [Next]_vars, mode' = "up", NEW w \in Workers, loc[w].att \in Attempts
  PROVE  \/ loc'[w] = loc[w] /\ pc'[w] = pc[w]
         \/ WorkerStep(w) \/ WorkerFault(w)
<1>1. pc[w] \notin {"idle", "recover"} /\ loc[w].obj # None
  BY ReclaimSides, LocalsOf, ConstantsAssumption
  DEF RecoveryInv, ReclaimSound, JournalInv, WorkerOwns, ConstantsAssumption
<1>2. ASSUME NEW v \in Workers, Request(v) PROVE loc'[w] = loc[w] /\ pc'[w] = pc[w]
  BY <1>1, <1>2, RequestFrame
<1>3. ASSUME NEW v \in Workers, WorkerStep(v) \/ WorkerFault(v), v # w
      PROVE  loc'[w] = loc[w] /\ pc'[w] = pc[w]
  BY <1>3, WorkerWork, FaultWork DEF WorkStep
<1>4. ~RecoveryStep
  <2>1. mode = "up"
    BY <1>1 DEF JournalInv, RecoveryExclusive
  <2> QED
    BY <2>1, RecoveryModes
<1>5. CASE Process
  BY <1>5 DEF Process, Start, Exit, Crash, Vanish, RequestShutdown, HeartbeatThreadError,
     workVars
<1>6. ASSUME NEW p \in Payloads, Corrupt(p) PROVE loc'[w] = loc[w] /\ pc'[w] = pc[w]
  BY <1>6 DEF Corrupt, workVars
<1>7. CASE UNCHANGED vars
  BY <1>7 DEF vars, workVars
<1> QED
  BY <1>2, <1>3, <1>4, <1>5, <1>6, <1>7 DEF Next

LeftOpenStep ==
  \A w \in Workers :
    (/\ loc[w].att # None /\ pc'[w] = "idle" /\ mode' = "up" /\ ~lost'
     /\ phase'[loc[w].att] \in PrePhysical)
      => pc[w] \in UnabortedPCs /\ StatementError(w)

LEMMA NextLeftOpen ==
  ASSUME "recover" \notin Requests
  PROVE  TypeInv /\ JournalInv /\ RecoveryInv /\ PayloadInv /\ [Next]_vars
           => LeftOpenStep
<1> SUFFICES ASSUME TypeInv, JournalInv, RecoveryInv, PayloadInv, [Next]_vars,
                    NEW w \in Workers, loc[w].att # None, pc'[w] = "idle", mode' = "up", ~lost',
                    phase'[loc[w].att] \in PrePhysical
             PROVE  pc[w] \in UnabortedPCs /\ StatementError(w)
  BY DEF LeftOpenStep
<1>1. loc[w].att \in Attempts
  BY LocalsFields
<1>2. pc[w] # "idle"
  BY <1>1, ReclaimSides DEF RecoveryInv, ReclaimSound
<1>3. WorkerStep(w) \/ WorkerFault(w)
  BY <1>1, <1>2, ReclaimsGoOn
<1>4. phase'[loc[w].att] \in OpenPhases
  BY DEF PrePhysical, OpenPhases
<1> QED
  BY <1>1, <1>3, <1>4, ReclaimReturns

(* coordinator.rs reclaim: whichever statements and backend calls fail, any   *)
(* number of them, a reclaim that returns with authority and an entry open    *)
(* before the physical phase has just met a failed statement of a transition, *)
(* of the VALIDATED update, of the planning closure or of abort_reclaim,      *)
(* whose error it returns by ?.  In every other case the entry is rolled back *)
(* (or past the start of the physical phase) when the request returns.        *)
THEOREM LeftOpenByReturnedErrors ==
  ASSUME "recover" \notin Requests
  PROVE  Spec => LeftOpenOnlyUnaborted
<1>1. TypeInv /\ JournalInv /\ RecoveryInv /\ PayloadInv /\ [Next]_vars => [LeftOpenStep]_vars
  BY NextLeftOpen
<1>2. LeftOpenStep =>
        \A w \in Workers :
          (/\ loc[w].att # None /\ pc'[w] = "idle" /\ mode' = "up" /\ ~lost'
           /\ phase'[loc[w].att] \in PrePhysical)
            => pc[w] \in UnabortedPCs /\ StatementError(w)
  BY DEF LeftOpenStep
<1> QED
  BY <1>1, <1>2, AlwaysSound, AlwaysPayloads, PTL DEF Spec, LeftOpenOnlyUnaborted

\* Where these statements do not fail, the last case does not arise.
LEMMA NoneUnaborted ==
  ASSUME UnabortedPCs \cap FaultSites = {}, NEW w \in Workers
  PROVE  ~(pc[w] \in UnabortedPCs /\ StatementError(w))
<1>1. StatementError(w) => pc[w] \in FaultSites
  BY Zenon DEF StatementError
<1> QED
  BY <1>1

\* The entries that are open while requests are served with authority.
OwnedInv ==
  (mode = "up" /\ ~lost) => \A a \in OpenAttempts : \E w \in Workers : loc[w].att = a

LEMMA NextOwned ==
  ASSUME "recover" \notin Requests, UnabortedPCs \cap FaultSites = {}, ~ArchiveMayVanish
  PROVE  TypeInv /\ JournalInv /\ RecoveryInv /\ PayloadInv /\ OwnedInv /\ [Next]_vars
           => OwnedInv'
<1> SUFFICES ASSUME TypeInv, JournalInv, RecoveryInv, PayloadInv, OwnedInv, [Next]_vars,
                    mode' = "up", ~lost', NEW a \in OpenAttempts'
             PROVE  \E w \in Workers : loc'[w].att = a
  BY DEF OwnedInv
<1>0. a \in Attempts /\ phase'[a] \in OpenPhases /\ archiveUp
  BY DEF OpenAttempts, RecoveryInv, Fenced
<1>1. ASSUME a \in OpenAttempts, mode = "up", ~lost
      PROVE  \E w \in Workers : loc'[w].att = a
  <2>1. PICK w \in Workers : loc[w].att = a
    BY <1>1 DEF OwnedInv
  <2>2. CASE loc'[w] = loc[w]
    BY <2>1, <2>2
  <2>3. CASE WorkerStep(w) \/ WorkerFault(w)
    <3>1. WorkStep(w)
      BY <2>3, WorkerWork, FaultWork
    <3>2. pc'[w] # "idle"
      BY <1>0, <2>1, <2>3, ReclaimReturns, NoneUnaborted
    <3>3. loc'[w].att = a
      BY <2>1, <3>1, <3>2 DEF WorkStep, Returns, GoesOn, Kept
    <3> QED
      BY <3>3
  <2> QED
    BY <1>0, <2>1, <2>2, <2>3, ReclaimsGoOn
<1>2. CASE \E w \in Workers : Request(w)
  <2>1. PICK w \in Workers : Request(w)
    BY <1>2
  <2> QED
    BY <1>1, <2>1, RequestFrame
<1>3. CASE \E w \in Workers : WorkerStep(w) \/ WorkerFault(w)
  <2>1. PICK w \in Workers : WorkerStep(w) \/ WorkerFault(w)
    BY <1>3
  <2>2. WorkStep(w)
    BY <2>1, WorkerWork, FaultWork
  <2>3. a \in OpenAttempts /\ mode = "up" /\ ~lost
    BY <2>2, OpenStays DEF WorkStep
  <2> QED
    BY <1>1, <2>3
<1>4. CASE RecoveryStep
  BY <1>4, RecoveryModes, RecoveryCloses
<1>5. CASE Process \/ (\E p \in Payloads : Corrupt(p)) \/ UNCHANGED vars
  <2>1. UNCHANGED phase /\ mode = "up" /\ ~lost
    BY <1>5 DEF Process, Start, Exit, Crash, Vanish, RequestShutdown, HeartbeatThreadError,
       Corrupt, vars, journalVars, procVars
  <2> QED
    BY <1>1, <2>1 DEF OpenAttempts
<1> QED
  BY <1>2, <1>3, <1>4, <1>5 DEF Next

(* Every open journal entry belongs to a reclaim in progress as long as the   *)
(* coordinator serves with authority: recovery leaves none open when it lets  *)
(* the process serve, a failure before the physical phase closes the entry    *)
(* (LeftOpenByReturnedErrors) and one after it gives up authority before the    *)
(* reclaim returns.  Where the archive backend may be missing the latter is   *)
(* not so (ArchiveMissing).                                                   *)
THEOREM OpenEntriesOwned ==
  ASSUME "recover" \notin Requests, UnabortedPCs \cap FaultSites = {}, ~ArchiveMayVanish
  PROVE  Spec => []OpenJournalOwned
<1>1. TypeInv /\ JournalInv /\ RecoveryInv /\ PayloadInv /\ OwnedInv /\ [Next]_vars
        => OwnedInv'
  BY NextOwned
<1>2. Init => OwnedInv
  BY DEF Init, OwnedInv, OpenAttempts, OpenPhases
<1>3. OwnedInv => OpenJournalOwned
  BY DEF OwnedInv, OpenJournalOwned, Serving
<1> QED
  BY <1>1, <1>2, <1>3, AlwaysSound, AlwaysPayloads, PTL DEF Spec

-----------------------------------------------------------------------------
(* The flags of an object. *)

\* The copies of object rows that are written back: what a journal entry or a
\* request in progress would restore has the flags the row has.
CopyKnown(w) ==
  /\ pc[w] \in ArchivePCs => loc[w].seen.flags = object[loc[w].obj].flags
  /\ pc[w] \in FlagOps => loc[w].seen.state # "NONE"

FlagInv ==
  /\ \A a \in OpenAttempts : EntryFenced(a)
  /\ \A w \in Workers : CopyKnown(w)
  /\ \A o \in Objects : object[o].state = "NONE" => object[o].flags = {}

\* A request writes the row of its own object, with the flags it finds there
\* unless it is one that sets them.
LEMMA WorkerFlags ==
  ASSUME TypeInv, JournalInv, RecoveryInv, LedgerInv, FlagInv, NEW w \in Workers,
         WorkerStep(w) \/ WorkerFault(w), NEW o \in Objects, object'[o] # object[o]
  PROVE  /\ o = loc[w].obj /\ object'[o].state # "NONE"
         /\ pc[w] \notin FlagOps => object'[o].flags = object[o].flags
<1>0. WorkStep(w)
  BY WorkerWork, FaultWork
<1>1. /\ o = loc[w].obj
      /\ Holds(pc[w], loc[w]) /\ ReclaimSound(w) /\ CopyKnown(w)
  BY <1>0 DEF WorkStep, WritesObject, LedgerInv, RecoveryInv, FlagInv
<1>2. loc[w].seen \in ObjectRow
  BY LocalsFields
<1>3. CASE object' = object
  BY <1>3
<1>4. CASE FlagWrite(w)
  <2> DEFINE row == [loc[w].seen EXCEPT !.flags = FlagResult(pc[w], @)]
  <2>1. UpdateObject(o, row) /\ pc[w] \in FlagOps
    BY <1>1, <1>4 DEF FlagWrite
  <2>2. row.state = loc[w].seen.state
    BY <1>2 DEF ObjectRow
  <2>3. object'[o] = row
    BY <2>1, UpdateFrame
  <2> QED
    BY <1>1, <2>1, <2>2, <2>3 DEF CopyKnown
<1>5. CASE Publish(w)
  <2> DEFINE row == [state |-> IF Targets[o] = {} THEN "CREATED" ELSE "HOT", flags |-> {}]
  <2>1. UpdateObject(o, row) /\ pc[w] \in CreatePCs
    BY <1>1, <1>5 DEF Publish, UpdateObject, CreatePCs
  <2>2. object'[o] = row /\ row.flags = {} /\ row.state # "NONE"
    BY <2>1, UpdateFrame
  <2>3. object[o].flags = {}
    BY <1>1, <2>1 DEF Holds, FlagInv
  <2> QED
    BY <1>1, <2>2, <2>3
<1>6. CASE ArchivePublish(w)
  <2> DEFINE row == [loc[w].seen EXCEPT !.state = "ARCHIVED"]
  <2>1. UpdateObject(o, row) /\ pc[w] \in ArchivePCs
    BY <1>1, <1>6 DEF ArchivePublish, ArchivePCs
  <2>2. row.flags = loc[w].seen.flags /\ row.state = "ARCHIVED"
    BY <1>2 DEF ObjectRow
  <2>3. object'[o] = row
    BY <2>1, UpdateFrame
  <2> QED
    BY <1>1, <2>1, <2>2, <2>3 DEF CopyKnown
<1>7. CASE ReclaimStep(w) /\ object' # object
  <2>1. ToRecomputable(w) \/ ToPending(w) \/ CommitObject(w) \/ AbortObject(w)
    BY <1>7, ReclaimWrites
  <2>2. pc[w] \in ReclaimPCs
    BY <2>1 DEF ToRecomputable, ToPending, Transition, CommitObject, AbortObject, ReclaimPCs,
       CommitPCs
  <2>3. object'[o].flags = object[o].flags
    BY <1>0, <1>1, <2>2 DEF WorkStep, WritesObject, ReclaimSound
  <2>4. \/ \E s \in {"RECOMPUTABLE", "RECLAIM_PENDING", "RECLAIMED"} :
             UpdateObject(o, [loc[w].seen EXCEPT !.state = s])
        \/ UpdateObject(o, loc[w].seen)
    BY <1>1, <2>1 DEF ToRecomputable, ToPending, Transition, CommitObject, AbortObject
  <2>5. \A s \in {"RECOMPUTABLE", "RECLAIM_PENDING", "RECLAIMED"} :
          [loc[w].seen EXCEPT !.state = s].state # "NONE"
    BY <1>2 DEF ObjectRow
  <2>6. loc[w].seen.state # "NONE"
    BY <1>1, <2>2 DEF Holds
  <2>7. object'[o].state # "NONE"
    BY <2>4, <2>5, <2>6, UpdateFrame
  <2> QED
    BY <1>1, <2>3, <2>7
<1> QED
  BY <1>3, <1>4, <1>5, <1>6, <1>7, FailWrites, CreateWrites, VerifyWrites, ArchiveWrites
  DEF WorkerStep

\* A request in progress leaves an open entry fenced.
LEMMA WorkerFences ==
  ASSUME "recover" \notin Requests, UnabortedPCs \cap FaultSites = {}, ~ArchiveMayVanish,
         TypeInv, JournalInv, RecoveryInv, PayloadInv, LedgerInv, FlagInv, NEW w \in Workers,
         WorkerStep(w) \/ WorkerFault(w), NEW b \in OpenAttempts'
  PROVE  EntryFenced(b)'
<1>0. WorkStep(w)
  BY WorkerWork, FaultWork
<1>1. /\ b \in Attempts /\ b \in OpenAttempts /\ EntryFenced(b) /\ entry' = entry
      /\ phase'[b] \in OpenPhases /\ mode = "up"
  BY <1>0, OpenStays, NoRecoveryNow DEF WorkStep, FlagInv, OpenAttempts
<1>2. PICK q \in Objects : q = entry[b].obj
  BY <1>1 DEF OpenAttempts, OpenPhases, PrePhysical, JournalInv, EntriesKnown
<1>3. \A v \in Workers \ {w} : pc'[v] = pc[v] /\ loc'[v] = loc[v]
  BY <1>0 DEF WorkStep
<1>4. CASE loc[w].att = b
  <2>1. pc[w] \in ReclaimPCs /\ loc[w].obj = q
    BY <1>1, <1>2, <1>4 DEF RecoveryInv, ReclaimSound, JournalInv, WorkerOwns
  <2>2. object'[q].flags = {}
    BY <1>1, <1>2, <2>1, WorkerFlags, ReclaimSides DEF EntryFenced
  <2>3. CASE GoesOn(w)
    BY <1>1, <1>2, <1>4, <2>2, <2>3 DEF EntryFenced, GoesOn, Kept
  <2>4. CASE Returns(w)
    <3>1. archiveUp
      BY DEF RecoveryInv, Fenced
    <3>2. lost'
      BY <1>1, <1>4, <2>4, <3>1, ReclaimReturns, NoneUnaborted DEF Returns
    <3>3. \A v \in Workers : loc'[v].obj # q
      <4> TAKE v \in Workers
      <4>1. CASE v = w
        BY <2>4, <4>1, LocalsOf DEF Returns
      <4>2. CASE v # w
        BY <1>3, <2>1, <4>2, Disjoint
      <4> QED
        BY <4>1, <4>2
    <3> QED
      BY <1>1, <1>2, <2>2, <3>2, <3>3 DEF EntryFenced
  <2> QED
    BY <1>0, <2>3, <2>4 DEF WorkStep
<1>5. CASE loc[w].att # b /\ \E v \in Workers : loc[v].att = b
  <2>1. PICK v \in Workers : loc[v].att = b
    BY <1>5
  <2>2. v # w /\ loc'[v].att = b
    BY <1>3, <1>5, <2>1
  <2>3. loc[v].obj = q
    BY <1>1, <1>2, <2>1 DEF JournalInv, WorkerOwns
  <2>4. loc[w].obj # q
    BY <2>2, <2>3, Disjoint
  <2>5. object'[q] = object[q]
    BY <2>4, WorkerFlags
  <2> QED
    BY <1>1, <1>2, <2>2, <2>5 DEF EntryFenced
<1>6. CASE ~\E v \in Workers : loc[v].att = b
  <2>1. lost /\ \A v \in Workers : loc[v].obj = q => v \notin grace
    BY <1>1, <1>2, <1>6 DEF EntryFenced
  <2>2. lost' /\ grace' \subseteq grace
    BY <1>0, <2>1 DEF WorkStep
  <2>3. object'[q].flags = {}
    <3>1. CASE object'[q] = object[q]
      BY <1>1, <1>2, <3>1 DEF EntryFenced
    <3>2. CASE object'[q] # object[q]
      <4>1. q = loc[w].obj
        BY <3>2, WorkerFlags
      <4>2. pc[w] \in ReclaimPCs
        BY <1>0, <2>1, <3>2, <4>1 DEF WorkStep, WritesObject
      <4> QED
        BY <1>1, <1>2, <3>2, <4>2, WorkerFlags, ReclaimSides DEF EntryFenced
    <3> QED
      BY <3>1, <3>2
  <2>4. \A v \in Workers : loc'[v].obj = q => loc[v].obj = q
    BY <1>0, <1>3, LocalsOf DEF WorkStep, Returns, GoesOn, Kept
  <2> QED
    BY <1>1, <1>2, <2>1, <2>2, <2>3, <2>4 DEF EntryFenced
<1> QED
  BY <1>4, <1>5, <1>6

\* Requests of one kind stay so, and no step leads to one that sets flags.
LEMMA GoesWhere ==
  ASSUME TypeInv, JournalInv, RecoveryInv, PayloadInv, NEW w \in Workers,
         WorkerStep(w) \/ WorkerFault(w)
  PROVE  /\ pc'[w] \in ArchivePCs => pc[w] \in ArchivePCs
         /\ pc'[w] \notin FlagOps
<1>0. WorkStep(w)
  BY WorkerWork, FaultWork
<1>1. /\ {"idle", "fence", "abort", "undo", "undo_lock", "create_unref", "create_unblob",
          "ver_inval"} \cap (ArchivePCs \cup FlagOps) = {}
      /\ (CreatePCs \cup VerifyPCs \cup ReclaimPCs) \cap (ArchivePCs \cup FlagOps) = {}
      /\ ArchivePCs \cap FlagOps = {}
  BY DEF ArchivePCs, FlagOps, CreatePCs, VerifyPCs, ReclaimPCs, CommitPCs, AbortPCs
<1>2. CASE pc[w] \in ReclaimPCs
  <2>1. pc'[w] \in ReclaimPCs \cup {"idle"}
    BY <1>0, <1>2, ReclaimSides DEF WorkStep, Returns, GoesOn
  <2> QED
    BY <1>1, <2>1
<1>3. CASE StepFails(w) /\ pc[w] \notin ReclaimPCs
  <2>1. \/ ErrorTarget(w) \in {"idle", "undo", "undo_lock", "create_unref", "create_unblob",
                               "abort", "fence"}
        \/ /\ ErrorTarget(w) \in {"arc_unrow", "arc_unblob"}
           /\ pc[w] \in {"arc_insert", "arc_obj"}
    <3>1. CASE pc[w] \in {"arc_insert", "arc_obj"}
      BY <3>1 DEF ErrorTarget, CommitPCs
    <3>2. CASE pc[w] \notin {"arc_insert", "arc_obj"}
      BY <3>2 DEF ErrorTarget
    <3> QED
      BY <3>1, <3>2
  <2>2. pc'[w] = ErrorTarget(w)
    BY <1>3, GotoFrame, ReturnOwns DEF StepFails
  <2>3. "arc_insert" \in ArchivePCs /\ "arc_obj" \in ArchivePCs
        /\ "arc_unrow" \in ArchivePCs /\ "arc_unblob" \in ArchivePCs
    BY DEF ArchivePCs
  <2> QED
    BY <1>1, <2>1, <2>2, <2>3
<1>4. CASE WriteError(w) \/ ReadError(w) \/ ArchiveError(w)
           \/ \E p \in Payloads : DeleteError(w, p) \/ VerifyReadError(w, p)
  <2>1. \/ \E c \in {"undo", "fence", "ver_inval"} : Goto(w, c)
        \/ Return(w)
    BY <1>4, Zenon DEF WriteError, ReadError, ArchiveError, DeleteError, VerifyReadError
  <2>2. pc'[w] \in {"undo", "fence", "ver_inval", "idle"}
    BY <2>1, GotoFrame, ReturnOwns
  <2> QED
    BY <1>1, <2>2
<1>5. CASE CreateStep(w)
  <2>1. \/ \E c \in CreatePCs : Goto(w, c)
        \/ Return(w) \/ UNCHANGED pc
    <3>1. CASE \/ CreateLock(w) \/ CreateLockFails(w) \/ CreateWrite(w) \/ CreateInsert(w)
               \/ CreateRow(w) \/ Publish(w)
               \/ \E p \in Payloads : CreateAcquire(w, p) \/ CreateRefuse(w, p) \/ CreateMiss(w, p)
      BY <3>1, Zenon DEF CreateLock, CreateLockFails, CreateWrite, CreateInsert, CreateRow,
         Publish, CreateAcquire, CreateRefuse, CreateMiss, CreatePCs
    <3>2. CASE \/ CreateUnref(w) \/ CreateUnblob(w) \/ UndoLock(w) \/ UndoLockFails(w)
               \/ UndoEnter(w) \/ UndoRelease(w) \/ UndoLeave(w) \/ UndoReturn(w)
               \/ \E p \in Payloads : UndoRow(w, p) \/ UndoBlob(w, p)
      BY <3>2, Zenon DEF CreateUnref, CreateUnblob, UndoLock, UndoLockFails, UndoEnter,
         UndoRelease, UndoLeave, UndoReturn, UndoRow, UndoBlob, CreatePCs
    <3> QED
      BY <1>5, <3>1, <3>2 DEF CreateStep
  <2>2. pc'[w] \in CreatePCs \cup {"idle"}
    BY <1>5, <2>1, GotoFrame, ReturnOwns, RequestPCs
  <2> QED
    BY <1>1, <2>2
<1>6. CASE VerifyStep(w)
  BY <1>1, <1>6, VerifySame
<1>7. CASE ArchiveStep(w)
  <2>1. pc[w] \in ArchivePCs /\ (Return(w) \/ \E c \in ArchivePCs : Goto(w, c))
    BY <1>7, ArchiveWrites, Zenon DEF ArchiveStep, ArchiveWrite, ArchiveInsert, ArchivePublish,
       ArchiveUnrow, ArchiveUnblob, ArchivePCs
  <2>2. pc'[w] \in ArchivePCs \cup {"idle"}
    BY <2>1, GotoFrame, ReturnOwns
  <2> QED
    BY <1>1, <2>1, <2>2
<1>8. CASE FlagWrite(w)
  BY <1>1, <1>8, ReturnOwns DEF FlagWrite
<1>9. ReclaimStep(w) => pc[w] \in ReclaimPCs
  BY ReclaimPC
<1> QED
  BY <1>2, <1>3, <1>4, <1>5, <1>6, <1>7, <1>8, <1>9
  DEF WorkerStep, WorkerFault, AuthorityError, StatementError, EntryHeartbeatError

LEMMA WorkerFlagInv ==
  ASSUME "recover" \notin Requests, UnabortedPCs \cap FaultSites = {}, ~ArchiveMayVanish,
         TypeInv, JournalInv, RecoveryInv, PayloadInv, LedgerInv, FlagInv, NEW w \in Workers,
         WorkerStep(w) \/ WorkerFault(w)
  PROVE  FlagInv'
<1>0. WorkStep(w)
  BY WorkerWork, FaultWork
<1>1. \A a \in OpenAttempts' : EntryFenced(a)'
  BY WorkerFences
<1>2. ASSUME NEW v \in Workers PROVE CopyKnown(v)'
  <2>0. CopyKnown(v)
    BY DEF FlagInv
  <2>1. CASE v # w
    <3>1. pc'[v] = pc[v] /\ loc'[v] = loc[v]
      BY <1>0, <2>1 DEF WorkStep
    <3>2. CASE pc[v] \in ArchivePCs
      <4>1. loc[v].obj \in Objects
        BY <3>2, NoRecoveryNow DEF ArchivePCs
      <4>2. loc[v].obj # loc[w].obj
        BY <2>1, <4>1, Disjoint
      <4>3. object'[loc[v].obj] = object[loc[v].obj]
        BY <4>1, <4>2, WorkerFlags
      <4> QED
        BY <2>0, <3>1, <4>3 DEF CopyKnown
    <3>3. CASE pc[v] \notin ArchivePCs
      BY <2>0, <3>1, <3>3 DEF CopyKnown
    <3> QED
      BY <3>2, <3>3
  <2>2. CASE v = w /\ pc'[w] = "idle"
    BY <2>2 DEF CopyKnown, ArchivePCs, FlagOps
  <2>3. CASE v = w /\ pc'[w] # "idle"
    <3>1. Kept(loc[w], loc'[w]) /\ GoesOn(w) /\ loc[w].obj \in Objects
      BY <1>0, <2>3, NoRecoveryNow DEF WorkStep, Returns, GoesOn
    <3>2. /\ pc'[w] \in ArchivePCs => pc[w] \in ArchivePCs
          /\ pc'[w] \notin FlagOps
      BY <2>3, GoesWhere
    <3>3. ASSUME pc[w] \in ArchivePCs
          PROVE  object'[loc[w].obj].flags = object[loc[w].obj].flags
      <4>1. pc[w] \notin FlagOps
        BY <3>3 DEF ArchivePCs, FlagOps
      <4> QED
        BY <3>1, <4>1, WorkerFlags
    <3> QED
      BY <2>0, <2>3, <3>1, <3>2, <3>3 DEF CopyKnown, Kept
  <2> QED
    BY <2>1, <2>2, <2>3
<1>3. \A o \in Objects : object'[o].state = "NONE" => object'[o].flags = {}
  BY WorkerFlags DEF FlagInv
<1> QED
  BY <1>1, <1>2, <1>3 DEF FlagInv

\* A request that opens no entry begins.
LEMMA BeginFlags ==
  ASSUME TypeInv, JournalInv, FlagInv, NEW w \in Workers, NEW c, NEW l,
         Goto(w, c), SetLocals(w, l), Enter(w), pc[w] = "idle",
         UNCHANGED <<object, phase, entry, procVars>>,
         c \in ArchivePCs => l.seen = object[l.obj],
         c \in FlagOps => l.seen.state # "NONE"
  PROVE  FlagInv'
<1>1. /\ pc'[w] = c /\ loc'[w] = l /\ UNCHANGED <<mode, lost>> /\ mode = "up"
      /\ \A v \in Workers \ {w} : pc'[v] = pc[v] /\ loc'[v] = loc[v]
      /\ grace' = grace \ {w}
  BY GotoFrame, LocalsFrame DEF Enter, procVars
<1>2. loc[w].att = None
  BY IdleHasNone
<1>3. ASSUME NEW a \in OpenAttempts' PROVE EntryFenced(a)'
  <2>1. a \in OpenAttempts /\ EntryFenced(a) /\ a # None
    BY LocalsOf DEF FlagInv, OpenAttempts
  <2>2. CASE \E v \in Workers : loc[v].att = a
    BY <1>1, <1>2, <2>1, <2>2 DEF EntryFenced
  <2>3. CASE ~\E v \in Workers : loc[v].att = a
    <3>1. lost /\ \A v \in Workers : loc[v].obj = entry[a].obj => v \notin grace
      BY <1>1, <2>1, <2>3 DEF EntryFenced
    <3> QED
      BY <1>1, <2>1, <3>1 DEF EntryFenced
  <2> QED
    BY <2>2, <2>3
<1>4. ASSUME NEW v \in Workers PROVE CopyKnown(v)'
  BY <1>1 DEF FlagInv, CopyKnown
<1> QED
  BY <1>3, <1>4 DEF FlagInv

LEMMA RequestFlags ==
  ASSUME TypeInv, JournalInv, RecoveryInv, FlagInv, "recover" \notin Requests,
         NEW w \in Workers, Request(w)
  PROVE  FlagInv'
<1>1. ASSUME NEW o \in Objects, NEW kind \in FlagOps, FlagBegin(w, o, kind) PROVE FlagInv'
  <2> DEFINE l == [loc[w] EXCEPT !.obj = o, !.seen = object[o]]
  <2>1. /\ Goto(w, kind) /\ SetLocals(w, l) /\ Enter(w) /\ pc[w] = "idle"
        /\ UNCHANGED <<object, phase, entry, procVars>> /\ object[o].state # "NONE"
    BY <1>1 DEF FlagBegin, storeVars, journalVars, Registered
  <2>2. l.seen = object[o] /\ kind \notin ArchivePCs
    BY LocalsFields DEF Locals, FlagOps, ArchivePCs
  <2> HIDE DEF l
  <2> QED
    BY <2>1, <2>2, BeginFlags
<1>2. ASSUME NEW o \in Objects, ArchiveBegin(w, o) PROVE FlagInv'
  <2> DEFINE l == [loc[w] EXCEPT !.obj = o, !.seen = object[o]]
  <2>1. /\ Goto(w, "arc_write") /\ SetLocals(w, l) /\ Enter(w) /\ pc[w] = "idle"
        /\ UNCHANGED <<object, phase, entry, procVars>>
    BY <1>2 DEF ArchiveBegin, storeVars, journalVars
  <2>2. l.seen = object[l.obj] /\ "arc_write" \notin FlagOps
    BY LocalsFields DEF Locals, FlagOps
  <2> HIDE DEF l
  <2> QED
    BY <2>1, <2>2, BeginFlags
<1>3. ASSUME NEW o \in Objects, CreateBegin(w, o) \/ VerifyBegin(w, o) PROVE FlagInv'
  <2>1. \E c \in {"publish", "create_lock", "ver_lock"} : Goto(w, c)
    BY <1>3, Zenon DEF CreateBegin, VerifyBegin
  <2>2. /\ \E l : SetLocals(w, l)
        /\ Enter(w) /\ pc[w] = "idle" /\ UNCHANGED <<object, phase, entry, procVars>>
    BY <1>3 DEF CreateBegin, VerifyBegin, storeVars, journalVars
  <2>3. {"publish", "create_lock", "ver_lock"} \cap (ArchivePCs \cup FlagOps) = {}
    BY DEF ArchivePCs, FlagOps
  <2> QED
    BY <2>1, <2>2, <2>3, BeginFlags
<1>4. CASE \E e \in EdgeChoices : AddLineage(w, e) \/ RemoveLineage(w, e)
  <2>1. UNCHANGED <<object, phase, entry, mode, lost, pc, loc>> /\ grace' = grace \ {w}
    BY <1>4 DEF AddLineage, RemoveLineage, Enter, journalVars, procVars
  <2>2. \A a \in OpenAttempts : EntryFenced(a) => EntryFenced(a)'
    BY <2>1 DEF EntryFenced
  <2> QED
    BY <2>1, <2>2 DEF FlagInv, CopyKnown, OpenAttempts
<1>5. ASSUME NEW o \in Objects, NEW a \in Attempts, Reserve(w, o, a) PROVE FlagInv'
  <2> DEFINE e == [obj |-> o, prior |-> object[o], rows |-> rows[o], arch |-> arch[o]]
             r == [loc[w] EXCEPT !.obj = o, !.att = a, !.seen = object[o], !.todo = Rows(o)]
  <2>1. /\ pc[w] = "idle" /\ mode = "up" /\ phase[a] = "NONE"
        /\ object[o].flags = {} /\ SetLocals(w, r)
        /\ grace' = grace \ {w}
        /\ UNCHANGED <<object, mode, lost>>
    BY <1>5 DEF Reserve, Enter, ReclaimAllowed, storeVars, procVars
  <2>2. PICK c \in {"recomputable", "validate", "pending"} : Goto(w, c)
    BY <1>5, Zenon DEF Reserve
  <2>3. pc'[w] = c /\ \A v \in Workers \ {w} : pc'[v] = pc[v]
    BY <2>2, GotoFrame
  <2>4. loc'[w] = r /\ \A v \in Workers \ {w} : loc'[v] = loc[v]
    BY <2>1, LocalsFrame
  <2>5. r.obj = o /\ r.att = a
    BY LocalsFields DEF Locals
  <2>6. /\ entry'[a] = e
        /\ \A b \in Attempts \ {a} : phase'[b] = phase[b] /\ entry'[b] = entry[b]
    BY <1>5 DEF Reserve, TypeInv, TypeOK, JournalTypeOK
  <2>7. ASSUME NEW b \in OpenAttempts' PROVE EntryFenced(b)'
    <3>1. CASE b = a
      <4>1. entry'[b].obj = o /\ loc'[w].att = b /\ object'[o].flags = {}
        BY <2>1, <2>4, <2>5, <2>6, <3>1
      <4> QED
        BY <4>1 DEF EntryFenced
    <3>2. CASE b # a
      <4>1. b \in OpenAttempts /\ EntryFenced(b) /\ entry'[b] = entry[b]
        BY <2>6, <3>2 DEF FlagInv, OpenAttempts
      <4>2. loc[w].att # b
        BY <2>1, <4>1, IdleHasNone, LocalsOf DEF OpenAttempts
      <4>3. CASE \E v \in Workers : loc[v].att = b
        BY <2>1, <2>4, <4>1, <4>2, <4>3 DEF EntryFenced
      <4>4. CASE ~\E v \in Workers : loc[v].att = b
        <5>1. lost /\ \A v \in Workers : loc[v].obj = entry[b].obj => v \notin grace
          BY <2>1, <4>1, <4>4 DEF EntryFenced
        <5> QED
          BY <2>1, <2>4, <4>1, <5>1 DEF EntryFenced
      <4> QED
        BY <4>3, <4>4
    <3> QED
      BY <3>1, <3>2
  <2>8. ASSUME NEW v \in Workers PROVE CopyKnown(v)'
    BY <2>1, <2>3, <2>4 DEF FlagInv, CopyKnown, ArchivePCs, FlagOps
  <2> QED
    BY <2>1, <2>7, <2>8 DEF FlagInv
<1> QED
  BY <1>1, <1>2, <1>3, <1>4, <1>5 DEF Request, RecoverRequest

\* Recovery writes rows of objects of open entries only, which have no flags.
LEMMA RecoveryFlags ==
  ASSUME TypeInv, JournalInv, RecoveryInv, LedgerInv, FlagInv, RecoveryStep
  PROVE  \A o \in Objects : /\ object'[o].flags = object[o].flags
                            /\ object'[o].state = "NONE" => object[o].state = "NONE"
<1> DEFINE q == entry[rec.att].obj
<1>1. CASE object' = object
  BY <1>1
<1>2. CASE RollbackObject \/ RecCommitObject
  <2>1. rpc \in AtEntry
    BY <1>2 DEF RollbackObject, RecCommitObject, RecAt, AtEntry, EntryPCs
  <2>2. /\ rec.att \in Attempts /\ rec.att \in OpenAttempts /\ q \in Objects
        /\ entry[rec.att].prior.flags = {} /\ entry[rec.att].prior.state # "NONE"
    BY <2>1, EntryAtHand DEF RecoveryInv, EntrySound, LedgerInv, RecoveryHolds
  <2>3. object[q].flags = {} /\ object[q] \in ObjectRow
    BY <2>2 DEF FlagInv, EntryFenced, TypeInv, TypeOK, StoreTypeOK
  <2>4. CASE RollbackObject
    <3> DEFINE row == RestoredObject(object[q], entry[rec.att].prior)
    <3>1. UpdateObject(q, row)
      BY <2>4 DEF RollbackObject
    <3>2. row.flags = {} /\ row.state # "NONE"
      BY <2>2, <2>3 DEF RestoredObject
    <3>3. object'[q] = row /\ \A o \in Objects \ {q} : object'[o] = object[o]
      BY <2>2, <3>1, UpdateFrame
    <3> QED
      BY <2>3, <3>2, <3>3
  <2>5. CASE RecCommitObject
    <3> DEFINE row == [object[q] EXCEPT !.state = "RECLAIMED"]
    <3>1. UpdateObject(q, row)
      BY <2>5 DEF RecCommitObject
    <3>2. row.flags = object[q].flags /\ row.state = "RECLAIMED"
      BY <2>3 DEF ObjectRow
    <3>3. object'[q] = row /\ \A o \in Objects \ {q} : object'[o] = object[o]
      BY <2>2, <3>1, UpdateFrame
    <3> QED
      BY <3>2, <3>3
  <2> QED
    BY <1>2, <2>4, <2>5
<1>3. CASE \E p \in Payloads : RollbackRow(p) \/ RecCommitRow(p)
  BY <1>3 DEF RollbackRow, RecCommitRow
<1> QED
  BY <1>1, <1>2, <1>3, RecoveryRecords

FlagsStep ==
  \A o \in Objects : object'[o].flags # object[o].flags
    => \E w \in Workers : pc[w] \in FlagOps /\ loc[w].obj = o

LEMMA NextFlags ==
  ASSUME "recover" \notin Requests, UnabortedPCs \cap FaultSites = {}, ~ArchiveMayVanish
  PROVE  TypeInv /\ JournalInv /\ RecoveryInv /\ PayloadInv /\ LedgerInv /\ FlagInv
           /\ [Next]_vars => FlagInv' /\ FlagsStep
<1> SUFFICES ASSUME TypeInv, JournalInv, RecoveryInv, PayloadInv, LedgerInv, FlagInv,
                    [Next]_vars
             PROVE  FlagInv' /\ FlagsStep
  OBVIOUS
<1>1. ASSUME NEW w \in Workers, WorkerStep(w) \/ WorkerFault(w) PROVE FlagInv' /\ FlagsStep
  BY <1>1, WorkerFlagInv, WorkerFlags DEF FlagsStep
<1>2. ASSUME NEW w \in Workers, Request(w) PROVE FlagInv' /\ FlagsStep
  <2>1. object' = object
    BY <1>2, Zenon DEF Request, FlagBegin, CreateBegin, VerifyBegin, ArchiveBegin, AddLineage,
       RemoveLineage, Reserve, RecoverRequest, storeVars
  <2> QED
    BY <1>2, <2>1, RequestFlags DEF FlagsStep
<1>3. CASE RecoveryStep
  <2>1. /\ OpenAttempts' \subseteq OpenAttempts /\ entry' = entry
        /\ mode' = "up" => OpenAttempts = {}
        /\ \A w \in Workers : pc'[w] \in {"idle", "recover"}
    BY <1>3, RecoveryCloses, RecoveryModes, RecoveryWrites
  <2>2. \A o \in Objects : /\ object'[o].flags = object[o].flags
                           /\ object'[o].state = "NONE" => object[o].state = "NONE"
    BY <1>3, RecoveryFlags
  <2>3. ASSUME NEW a \in OpenAttempts' PROVE EntryFenced(a)'
    <3>1. a \in OpenAttempts /\ EntryFenced(a) /\ entry[a].obj \in Objects
      BY <2>1 DEF FlagInv, OpenAttempts, OpenPhases, PrePhysical, JournalInv, EntriesKnown
    <3> QED
      BY <2>1, <2>2, <3>1 DEF EntryFenced
  <2>4. \A w \in Workers : CopyKnown(w)'
    BY <2>1 DEF CopyKnown, ArchivePCs, FlagOps
  <2> QED
    BY <2>2, <2>3, <2>4 DEF FlagInv, FlagsStep
<1>4. ASSUME UNCHANGED <<object, phase, entry, pc, loc>>,
             \/ UNCHANGED <<mode, lost, grace>>
             \/ mode' # "up"
             \/ mode' = mode /\ ~lost
      PROVE  FlagInv' /\ FlagsStep
  <2>1. OpenAttempts' = OpenAttempts
    BY <1>4 DEF OpenAttempts
  <2>2. ASSUME NEW a \in OpenAttempts PROVE EntryFenced(a)'
    BY <1>4 DEF FlagInv, EntryFenced
  <2>3. ASSUME NEW v \in Workers PROVE CopyKnown(v)'
    BY <1>4 DEF FlagInv, CopyKnown
  <2> QED
    BY <1>4, <2>1, <2>2, <2>3 DEF FlagInv, FlagsStep
<1>5. CASE Process
  <2>1. CASE Vanish
    <3>1. /\ UNCHANGED <<object, phase, entry>> /\ mode' # "up"
          /\ \A w \in Workers : pc'[w] = "idle"
      BY <2>1 DEF Vanish, storeVars, journalVars
    <3>2. OpenAttempts' = OpenAttempts /\ \A a \in OpenAttempts : EntryFenced(a)'
      BY <3>1 DEF OpenAttempts, FlagInv, EntryFenced
    <3>3. \A w \in Workers : CopyKnown(w)'
      BY <3>1 DEF CopyKnown, ArchivePCs, FlagOps
    <3> QED
      BY <3>1, <3>2, <3>3 DEF FlagInv, FlagsStep
  <2>2. CASE Start \/ RequestShutdown \/ HeartbeatThreadError
    BY <1>4, <2>2 DEF Start, RequestShutdown, HeartbeatThreadError, storeVars, journalVars,
       workVars
  <2> QED
    BY <1>5, <2>1, <2>2 DEF Process, Exit, Crash
<1>6. ASSUME NEW p \in Payloads, Corrupt(p) PROVE FlagInv' /\ FlagsStep
  BY <1>4, <1>6 DEF Corrupt, storeVars, journalVars, procVars, workVars
<1>7. CASE UNCHANGED vars
  BY <1>4, <1>7 DEF vars, storeVars, journalVars, procVars, workVars
<1> QED
  BY <1>1, <1>2, <1>3, <1>5, <1>6, <1>7 DEF Next

LEMMA InitFlags == Init => FlagInv
<1> SUFFICES ASSUME Init PROVE FlagInv
  OBVIOUS
<1>1. OpenAttempts = {} /\ \A w \in Workers : pc[w] = "idle"
  BY DEF Init, OpenAttempts, OpenPhases
<1>2. \A o \in Objects : object[o].flags = {}
  BY DEF Init, NoObject
<1> QED
  BY <1>1, <1>2 DEF FlagInv, CopyKnown, ArchivePCs, FlagOps

(* apply_object_update, archive, reclaim and its abort, and recovery's        *)
(* rollback all write an object row from a copy read in an earlier closure or *)
(* kept in the journal.  None of them loses a pin or a protection set in the  *)
(* meantime: the object guard covers the time between the read and the write, *)
(* and a journal entry outlives the guard only where authority is lost before *)
(* the guard is dropped, so that no request that still gets through has its   *)
(* object.  An entry that a failed statement leaves open while the            *)
(* coordinator serves would break this: hence the hypotheses of               *)
(* OpenEntriesOwned.                                                          *)
THEOREM FlagsSetByRequest ==
  ASSUME "recover" \notin Requests, UnabortedPCs \cap FaultSites = {}, ~ArchiveMayVanish
  PROVE  Spec => FlagsOnlyByRequest
<1>1. TypeInv /\ JournalInv /\ RecoveryInv /\ PayloadInv /\ LedgerInv /\ FlagInv
        /\ [Next]_vars => FlagInv' /\ [FlagsStep]_vars
  BY NextFlags
<1>2. FlagsStep =>
        \A o \in Objects : object'[o].flags # object[o].flags
          => \E w \in Workers : pc[w] \in FlagOps /\ loc[w].obj = o
  BY DEF FlagsStep
<1> QED
  BY <1>1, <1>2, InitFlags, AlwaysSound, AlwaysPayloads, AlwaysLedger, PTL
  DEF Spec, FlagsOnlyByRequest

-----------------------------------------------------------------------------
(* The payload behind an archive record. *)

\* No statement and no backend call has failed so far.
Unspent == budget.store = MaxStoreFaults /\ budget.backend = MaxBackendFaults

\* At step c with local variables l, if nothing has failed: nothing is fenced
\* or taken back, and deletion has come as far as the step says.
Progress(c, l) ==
  /\ c \notin {"fence", "arc_unrow", "arc_unblob"}
  /\ c = "arc_insert" => ablob[l.obj]
  /\ c = "delete" => \A p \in plan[l.att] \ l.todo : blob[p] = "absent"
  /\ c \in {"arch", "check"} => \A p \in plan[l.att] : blob[p] = "absent"

RecordBacked(o) == (arch[o] > 0 /\ ~ablob[o]) => PhysicalOf(o) # {}

\* Rolling back entry a adds no record without its payload.
GivesBacked(a) ==
  phase[a] \in PrePhysical \/ entry[a].arch = 0 \/ ablob[entry[a].obj]

ArchiveInv ==
  /\ ~lost
  /\ \A w \in Workers : Progress(pc[w], loc[w])
  /\ \A o \in Objects : RecordBacked(o)
  /\ \A a \in Attempts :
       phase[a] \in PrePhysical => entry[a].arch <= arch[entry[a].obj]
  /\ rpc \in RollbackPCs => GivesBacked(rec.att)
  /\ rpc \in RecClosePCs => arch[entry[rec.att].obj] = 0

\* Two open entries of one object take a failure, so its absence is part of it.
UnspentInv == Unspent => SingleInv /\ TerminalInv /\ ArchiveInv

\* A fault is not taken back.
LEMMA NothingSpent ==
  ASSUME TypeInv, [Next]_vars, Unspent'
  PROVE  /\ Unspent
         /\ \A w \in Workers : ~WorkerFault(w)
         /\ ~HeartbeatThreadError /\ ~RecStoreError /\ ~RecRepairPartial
         /\ \A a \in Attempts : ~RecBackendError(a)
<1> DEFINE Same == budget'.store = budget.store /\ budget'.backend = budget.backend
           Spent == \/ budget' = [budget EXCEPT !.store = @ - 1]
                    \/ budget' = [budget EXCEPT !.backend = @ - 1]
<1>0. /\ budget \in Budget
      /\ budget.store \in 0 .. MaxStoreFaults /\ budget.backend \in 0 .. MaxBackendFaults
      /\ MaxStoreFaults \in Nat /\ MaxBackendFaults \in Nat
  BY ConstantsAssumption DEF ConstantsAssumption, TypeInv, TypeOK, Budget
<1>1. ~Spent
  BY <1>0 DEF Unspent, Budget
<1>2. \A w \in Workers : WorkerFault(w) => Spent
  BY Zenon DEF WorkerFault, StatementError, EntryHeartbeatError, WriteError, ReadError,
     ArchiveError, DeleteError, VerifyReadError, BackendFault
<1>3. HeartbeatThreadError \/ RecStoreError \/ RecRepairPartial => Spent
  BY Zenon DEF HeartbeatThreadError, RecStoreError, RecRepairPartial
<1>4. \A a \in Attempts : RecBackendError(a) => Spent
  BY Zenon DEF RecBackendError
<1>5. \A w \in Workers : Request(w) => budget' = budget
  <2> SUFFICES ASSUME NEW w \in Workers, Request(w) PROVE budget' = budget
    OBVIOUS
  <2>1. \A o \in Objects, a \in Attempts : Reserve(w, o, a) => budget' = budget
    BY DEF Reserve
  <2>2. \A o \in Objects, kind \in FlagOps : FlagBegin(w, o, kind) => budget' = budget
    BY DEF FlagBegin
  <2>3. \A o \in Objects :
          CreateBegin(w, o) \/ VerifyBegin(w, o) \/ ArchiveBegin(w, o) => budget' = budget
    BY DEF CreateBegin, VerifyBegin, ArchiveBegin
  <2>4. \A e \in EdgeChoices : AddLineage(w, e) \/ RemoveLineage(w, e) => budget' = budget
    BY DEF AddLineage, RemoveLineage
  <2> QED
    BY <2>1, <2>2, <2>3, <2>4 DEF Request, RecoverRequest
<1>6. \A w \in Workers : WorkerStep(w) => budget' = budget
  <2> SUFFICES ASSUME NEW w \in Workers, WorkerStep(w) PROVE budget' = budget
    OBVIOUS
  <2>1. CASE CreateStep(w)
    BY <2>1, Zenon DEF CreateStep, CreateLock, CreateLockFails, CreateWrite, CreateInsert,
       CreateRow, Publish, CreateAcquire, CreateRefuse, CreateMiss, CreateUnref, CreateUnblob,
       UndoLock, UndoLockFails, UndoEnter, UndoRelease, UndoLeave, UndoReturn, UndoRow, UndoBlob
  <2>2. CASE VerifyStep(w) \/ ArchiveStep(w)
    BY <2>2, Zenon DEF VerifyStep, VerifyLock, VerifyLockFails, VerifyGood, VerifyBad,
       VerifyInvalidate, VerifyInvalidateFails, VerifyInvalidated, VerifyReturn, ArchiveStep,
       ArchiveWrite, ArchiveInsert, ArchivePublish, ArchiveUnrow, ArchiveUnblob
  <2>3. CASE ReclaimStep(w)
    BY <2>3, Zenon DEF ReclaimStep, ToRecomputable, ToPending, Transition, ReclaimValidated,
       Survive, ReadGraph, CheckDependencies, ReclaimLock, ReclaimLockFails, PlanDeletions,
       StartPhysical, DeletePayload, DeletedAll, DeleteArchive, ArchiveMissing, CheckDeleted,
       PhysicalDone, CommitEnter, CommitRow, CommitRelease, CommitRowsDone, CommitArchive,
       CommitObject, CommitReservation, CommitAttempt, CommitJournal, CloseReservation,
       CloseAttempt, CloseJournal, Indeterminate, AbortObject, AbortReservation, AbortAttempt,
       AbortJournal
  <2>4. CASE FlagWrite(w) \/ AuthorityError(w)
    BY <2>4, Zenon DEF FlagWrite, AuthorityError
  <2> QED
    BY <2>1, <2>2, <2>3, <2>4 DEF WorkerStep
<1>7. RecoveryStep => \/ budget' = budget
                      \/ RecStoreError \/ RecRepairPartial
                      \/ \E a \in Attempts : RecBackendError(a)
  BY Zenon DEF RecoveryStep, RecScan, RecQueueEmpty, RecEnd, RecExpire, RecRepair, RecLineage,
     RecNext, RollbackObject, RollbackRow, RollbackRowConflict, RollbackRowsDone,
     RollbackArchive, RollbackRepair, RecCommitRow, RecCommitRelease, RecCommitRowsDone,
     RecCommitArchive, RecCommitObject, RollbackReservation, RollbackAttempt, RollbackJournal,
     RecCommitReservation, RecCommitAttempt, RecCommitJournal, RecReservation, RecAttempt,
     RecJournal
<1>8. Process => Same \/ HeartbeatThreadError
  <2>1. Start \/ Exit \/ RequestShutdown => budget' = budget
    BY DEF Start, Exit, RequestShutdown
  <2>2. Crash => Same
    BY <1>0 DEF Crash, Budget
  <2> QED
    BY <2>1, <2>2 DEF Process
<1>9. \A p \in Payloads : Corrupt(p) => Same
  BY <1>0 DEF Corrupt, Budget
<1>10. Same
  BY <1>1, <1>2, <1>3, <1>4, <1>5, <1>6, <1>7, <1>8, <1>9 DEF Next, vars
<1> QED
  BY <1>1, <1>2, <1>3, <1>4, <1>10 DEF Unspent

-----------------------------------------------------------------------------
(* A step of one request, seen from the archive. *)

LEMMA RecordWrites ==
  ASSUME NEW w \in Workers, WorkerStep(w)
  PROVE  /\ arch' = arch \/ ArchiveInsert(w) \/ ArchiveUnrow(w) \/ CommitArchive(w)
         /\ ablob' = ablob \/ ArchiveWrite(w) \/ ArchiveUnblob(w) \/ DeleteArchive(w)
         /\ lost' = lost \/ Indeterminate(w)
<1> USE DEF storeVars, physVars, procVars
<1>1. CASE CreateStep(w)
  <2>1. CASE \/ CreateLock(w) \/ CreateLockFails(w) \/ CreateWrite(w) \/ CreateInsert(w)
             \/ CreateRow(w) \/ Publish(w)
             \/ \E p \in Payloads : CreateAcquire(w, p) \/ CreateRefuse(w, p) \/ CreateMiss(w, p)
    BY <2>1, Zenon DEF CreateLock, CreateLockFails, CreateWrite, CreateInsert, CreateRow,
       Publish, CreateAcquire, CreateRefuse, CreateMiss
  <2>2. CASE \/ CreateUnref(w) \/ CreateUnblob(w) \/ UndoLock(w) \/ UndoLockFails(w)
             \/ UndoEnter(w) \/ UndoRelease(w) \/ UndoLeave(w) \/ UndoReturn(w)
             \/ \E p \in Payloads : UndoRow(w, p) \/ UndoBlob(w, p)
    BY <2>2, Zenon DEF CreateUnref, CreateUnblob, UndoLock, UndoLockFails, UndoEnter,
       UndoRelease, UndoLeave, UndoReturn, UndoRow, UndoBlob
  <2> QED
    BY <1>1, <2>1, <2>2 DEF CreateStep
<1>2. CASE VerifyStep(w) \/ ArchiveStep(w)
  BY <1>2, Zenon DEF VerifyStep, VerifyLock, VerifyLockFails, VerifyGood, VerifyBad,
     VerifyInvalidate, VerifyInvalidateFails, VerifyInvalidated, VerifyReturn, ArchiveStep,
     ArchiveWrite, ArchiveInsert, ArchivePublish, ArchiveUnrow, ArchiveUnblob
<1>3. CASE ReclaimStep(w)
  <2>1. CASE \/ ToRecomputable(w) \/ ToPending(w) \/ ReclaimValidated(w) \/ Survive(w)
             \/ ReadGraph(w) \/ CheckDependencies(w) \/ ReclaimLock(w) \/ ReclaimLockFails(w)
             \/ PlanDeletions(w) \/ StartPhysical(w) \/ DeletedAll(w)
             \/ \E p \in Payloads : DeletePayload(w, p)
    BY <2>1, Zenon DEF ToRecomputable, ToPending, Transition, ReclaimValidated, Survive,
       ReadGraph, CheckDependencies, ReclaimLock, ReclaimLockFails, PlanDeletions,
       StartPhysical, DeletedAll, DeletePayload
  <2>2. CASE \/ DeleteArchive(w) \/ ArchiveMissing(w) \/ CheckDeleted(w) \/ PhysicalDone(w)
             \/ CommitEnter(w) \/ (\E p \in Payloads : CommitRow(w, p)) \/ CommitRelease(w)
             \/ CommitRowsDone(w) \/ CommitArchive(w) \/ CommitObject(w)
    BY <2>2, Zenon DEF DeleteArchive, ArchiveMissing, CheckDeleted, PhysicalDone, CommitEnter,
       CommitRow, CommitRelease, CommitRowsDone, CommitArchive, CommitObject
  <2>3. CASE \/ CommitReservation(w) \/ CommitAttempt(w) \/ CommitJournal(w)
             \/ Indeterminate(w) \/ AbortObject(w) \/ AbortReservation(w)
             \/ AbortAttempt(w) \/ AbortJournal(w)
    BY <2>3, Zenon DEF CommitReservation, CommitAttempt, CommitJournal, CloseReservation,
       CloseAttempt, CloseJournal, Indeterminate, AbortObject, AbortReservation, AbortAttempt,
       AbortJournal
  <2> QED
    BY <1>3, <2>1, <2>2, <2>3 DEF ReclaimStep
<1>4. CASE FlagWrite(w) \/ AuthorityError(w)
  BY <1>4, Zenon DEF FlagWrite, AuthorityError
<1> QED
  BY <1>1, <1>2, <1>3, <1>4 DEF WorkerStep

\* The only entry in a physical phase is closed when the records are gone.
LEMMA PhysicalStays ==
  ASSUME TypeInv, JournalInv, RecoveryInv, LedgerInv, NEW w \in Workers, WorkerStep(w),
         NEW o \in Objects, arch[o] > 0, PhysicalOf(o) # {}
  PROVE  PhysicalOf(o)' # {}
<1>0. WorkStep(w)
  BY WorkerWork
<1>1. PICK b \in Attempts : phase[b] \in PhysicalPhases /\ entry[b].obj = o
  BY DEF PhysicalOf
<1>2. entry' = entry
  BY <1>0 DEF WorkStep
<1> SUFFICES phase'[b] \in PhysicalPhases
  BY <1>1, <1>2 DEF PhysicalOf
<1>3. CASE phase'[b] = phase[b]
  BY <1>1, <1>3
<1>4. CASE phase'[b] # phase[b]
  <2>1. b = loc[w].att /\ pc[w] \in ReclaimPCs
    BY <1>0, <1>4 DEF WorkStep, WritesJournal
  <2>2. pc[w] \in AfterPCs /\ loc[w].obj = o
    BY <1>1, <2>1, ReclaimSides DEF RecoveryInv, ReclaimSound, JournalInv, WorkerOwns,
       PrePhysical
  <2>3. ~CommitJournal(w)
    <3>1. CommitJournal(w) => pc[w] = "cmt_jrnl"
      BY DEF CommitJournal, CloseJournal
    <3>2. pc[w] = "cmt_jrnl" => object[o].state = "RECLAIMED"
      BY <2>2 DEF LedgerInv, Holds, ClosedPCs
    <3> QED
      BY <3>1, <3>2 DEF LedgerInv, ObjectHolds
  <2>4. ~ReclaimValidated(w) /\ ~StartPhysical(w) /\ ~AbortJournal(w)
    BY <2>2, ReclaimSides DEF ReclaimValidated, StartPhysical, AbortJournal, CloseJournal,
       BeforePCs, AbortPCs
  <2>5. ReclaimStep(w)
    <3>1. ReclaimStep(w) \/ AuthorityError(w)
      <4>1. ReclaimPCs \cap (CreatePCs \cup VerifyPCs \cup ArchivePCs \cup FlagOps) = {}
        BY DEF ReclaimPCs, CreatePCs, VerifyPCs, ArchivePCs, FlagOps, CommitPCs, AbortPCs
      <4> QED
        BY <2>1, <4>1, RequestPCs DEF WorkerStep
    <3> QED
      BY <1>4, <3>1, FailWrites
  <2>6. PhysicalDone(w)
    BY <1>4, <2>3, <2>4, <2>5, ReclaimWrites
  <2>7. phase' = [phase EXCEPT ![b] = "PHYSICAL_DONE"]
    BY <2>1, <2>6 DEF PhysicalDone, UpdateJournalPhase
  <2> QED
    BY <1>1, <2>7, ReclaimSides DEF TypeInv, TypeOK, JournalTypeOK
<1> QED
  BY <1>3, <1>4

LEMMA BackedStep ==
  ASSUME TypeInv, JournalInv, RecoveryInv, PayloadInv, LedgerInv, SingleInv, TerminalInv,
         ArchiveInv, NEW w \in Workers, WorkerStep(w), Progress(pc[w], loc[w])'
  PROVE  ArchiveInv'
<1>0. WorkStep(w) /\ Touches(w)
  BY WorkerWork, RequestTouches
<1>1. PICK o \in Objects : o = loc[w].obj
  BY <1>0, NoRecoveryNow DEF WorkStep
<1> DEFINE a == loc[w].att
<1>2. /\ mode = "up" /\ rpc' = "off" /\ entry' = entry
      /\ \A v \in Workers \ {w} : pc'[v] = pc[v] /\ loc'[v] = loc[v]
      /\ pc[w] \in ReclaimPCs => a \in Attempts
      /\ a \in Attempts => entry[a].obj = o /\ a \in OpenAttempts
      /\ \A b \in Attempts : b # a => phase'[b] = phase[b] /\ plan'[b] = plan[b]
  BY <1>0, <1>1, NoRecoveryNow, OpenStays
  DEF WorkStep, WritesJournal, JournalInv, WorkerOwns
<1>3. /\ pc[w] \notin {"fence", "arc_unrow", "arc_unblob"}
      /\ pc[w] = "arc_insert" => ablob[o]
  BY <1>1 DEF ArchiveInv, Progress
<1>4. /\ arch' = arch \/ ArchiveInsert(w) \/ CommitArchive(w)
      /\ ablob' = ablob \/ ArchiveWrite(w) \/ DeleteArchive(w)
      /\ ~lost'
  BY <1>3, RecordWrites DEF ArchiveInv, ArchiveUnrow, ArchiveUnblob, Indeterminate
<1>5. ArchiveInsert(w) => /\ ablob[o] /\ ablob' = ablob
                          /\ arch' = [arch EXCEPT ![o] = @ + 1]
  BY <1>1, <1>3 DEF ArchiveInsert, InsertArchive, physVars
<1>6. CommitArchive(w) => /\ pc[w] = "cmt_arch" /\ phase' = phase
                          /\ arch' = [arch EXCEPT ![o] = IF @ > 0 THEN @ - 1 ELSE 0]
  BY <1>1 DEF CommitArchive, DeleteArchiveRow, journalVars
<1>7. DeleteArchive(w) => /\ pc[w] = "arch" /\ phase' = phase
                          /\ ablob' = [ablob EXCEPT ![o] = FALSE]
  BY <1>1 DEF DeleteArchive, journalVars
<1>8. ArchiveWrite(w) => ablob' = [ablob EXCEPT ![o] = TRUE]
  BY <1>1 DEF ArchiveWrite
<1>9. arch \in [Objects -> Nat] /\ ablob \in [Objects -> BOOLEAN]
  BY DEF TypeInv, TypeOK, StoreTypeOK, PhysTypeOK
<1>10. \A q \in Objects \ {o} : arch'[q] = arch[q] /\ ablob'[q] = ablob[q]
  BY <1>4, <1>5, <1>6, <1>7, <1>8, <1>9
<1>11. CommitArchive(w) \/ DeleteArchive(w) => a \in PhysicalOf(o) /\ phase' = phase
  <2>1. CommitArchive(w) \/ DeleteArchive(w) => pc[w] \in AfterPCs
    BY <1>6, <1>7 DEF AfterPCs, CommitPCs
  <2>2. pc[w] \in AfterPCs => phase[a] \in PhysicalPhases
    BY DEF RecoveryInv, ReclaimSound
  <2> QED
    BY <1>2, <1>6, <1>7, <2>1, <2>2, ReclaimSides DEF PhysicalOf
<1>12. ASSUME NEW q \in Objects PROVE RecordBacked(q)'
  <2> SUFFICES ASSUME arch'[q] > 0, ~ablob'[q] PROVE PhysicalOf(q)' # {}
    BY DEF RecordBacked
  <2>1. CASE CommitArchive(w) \/ DeleteArchive(w)
    <3>1. PhysicalOf(q)' = PhysicalOf(q)
      BY <1>2, <1>11, <2>1 DEF PhysicalOf
    <3>2. CASE q = o
      BY <1>11, <2>1, <3>1, <3>2
    <3>3. CASE q # o
      <4>1. arch[q] > 0 /\ ~ablob[q]
        BY <1>10, <3>3
      <4> QED
        BY <3>1, <4>1 DEF ArchiveInv, RecordBacked
    <3> QED
      BY <3>2, <3>3
  <2>2. CASE ~CommitArchive(w) /\ ~DeleteArchive(w)
    <3>1. arch[q] > 0 /\ ~ablob[q]
      <4>1. CASE q # o
        BY <1>10, <4>1
      <4>2. CASE q = o
        BY <1>4, <1>5, <1>8, <1>9, <2>2, <4>2
      <4> QED
        BY <4>1, <4>2
    <3>2. PhysicalOf(q) # {}
      BY <3>1 DEF ArchiveInv, RecordBacked
    <3> QED
      BY <3>1, <3>2, PhysicalStays
  <2> QED
    BY <2>1, <2>2
<1>13. ASSUME NEW b \in Attempts, phase'[b] \in PrePhysical
       PROVE  entry'[b].arch <= arch'[entry'[b].obj]
  <2>1. phase[b] \in PrePhysical
    <3>1. CASE b # a
      BY <1>2, <1>13, <3>1
    <3>2. CASE b = a
      <4>1. phase'[a] = phase[a] \/ pc[w] \in BeforePCs
        BY <1>0, <1>13, <3>2, ReclaimSides
        DEF WorkStep, WritesJournal, PrePhysical
      <4> QED
        BY <1>13, <3>2, <4>1 DEF RecoveryInv, ReclaimSound
    <3> QED
      BY <3>1, <3>2
  <2>2. PICK q \in Objects : q = entry[b].obj
    BY <2>1 DEF JournalInv, EntriesKnown, PrePhysical
  <2>3. entry[b].arch <= arch[q] /\ entry[b].arch \in Nat
    BY <2>1, <2>2, ArchiveNumbers DEF ArchiveInv
  <2>4. arch[q] <= arch'[q] /\ arch'[q] \in Nat
    <3>1. CASE q # o
      BY <1>9, <1>10, <3>1
    <3>2. CASE q = o
      <4>1. ~CommitArchive(w)
        <5>1. b \in OpenAttempts
          BY <2>1 DEF OpenAttempts, OpenPhases, PrePhysical
        <5>2. CommitArchive(w) => a \in OpenAttempts /\ entry[a].obj = o
          BY <1>2, <1>11 DEF PhysicalOf
        <5>3. CommitArchive(w) => a = b
          BY <2>2, <3>2, <5>1, <5>2 DEF SingleInv, OneOpenJournal
        <5> QED
          BY <1>11, <2>1, <5>3, ReclaimSides DEF PhysicalOf, PrePhysical
      <4> QED
        BY <1>4, <1>5, <1>9, <3>2, <4>1
    <3> QED
      BY <3>1, <3>2
  <2>5. arch[q] \in Nat /\ entry'[b].arch = entry[b].arch /\ entry'[b].obj = q
    BY <1>2, <1>9, <2>2
  <2> QED
    BY <2>3, <2>4, <2>5
<1>14. ASSUME NEW v \in Workers PROVE Progress(pc[v], loc[v])'
  <2>1. CASE v = w
    BY <2>1
  <2>2. CASE v # w
    <3> DEFINE l == loc[v]
               b == loc[v].att
    <3>1. pc'[v] = pc[v] /\ l' = l /\ Progress(pc[v], l)
      BY <1>2, <2>2 DEF ArchiveInv
    <3>2. pc[v] = "arc_insert" => ablob'[l.obj]
      <4> SUFFICES ASSUME pc[v] = "arc_insert" PROVE ablob'[l.obj]
        OBVIOUS
      <4>1. l.obj \in Objects /\ l.obj # o
        BY <1>1, <2>2, NoRecoveryNow, Disjoint
      <4> QED
        BY <1>10, <3>1, <4>1 DEF Progress
    <3>3. ASSUME pc[v] \in {"delete", "arch", "check"}
          PROVE  plan'[b] = plan[b] /\ \A p \in plan[b] : blob'[p] = blob[p]
      <4>1. pc[v] \in AfterPCs
        BY <3>3 DEF AfterPCs
      <4>2. b \in Attempts /\ b # a
        BY <2>2, <4>1, ReclaimSides, NoRecoveryNow, Disjoint DEF JournalInv, WorkerOwns
      <4>3. plan[b] \subseteq l.held /\ plan[b] \subseteq Payloads
        BY <4>1, <4>2 DEF TerminalInv, Deleted, TypeInv, TypeOK, JournalTypeOK
      <4>4. ASSUME NEW p \in plan[b] PROVE blob'[p] = blob[p]
        <5>1. p \in Payloads /\ p \notin loc[w].held
          BY <2>2, <4>3, <4>4 DEF PayloadInv
        <5>2. ~AtHand(w, p)
          BY <1>2, <5>1, AtHandGuarded
        <5> QED
          BY <1>0, <5>1, <5>2 DEF Touches
      <4> QED
        BY <1>2, <4>2, <4>4
    <3> QED
      BY <3>1, <3>2, <3>3 DEF Progress
  <2> QED
    BY <2>1, <2>2
<1>15. "off" \notin RollbackPCs \cup RecClosePCs
  BY DEF RollbackPCs, RecClosePCs
<1> QED
  BY <1>2, <1>4, <1>12, <1>13, <1>14, <1>15 DEF ArchiveInv

LEMMA OwnProgress ==
  ASSUME TypeInv, JournalInv, RecoveryInv, PayloadInv, LedgerInv, TerminalInv, ArchiveInv,
         NEW w \in Workers, WorkerStep(w)
  PROVE  Progress(pc[w], loc[w])'
<1> DEFINE a == loc[w].att
           Marked == {"fence", "arc_unrow", "arc_unblob", "arc_insert", "delete", "arch", "check"}
<1>0. WorkStep(w) /\ Progress(pc[w], loc[w]) /\ ~AuthorityError(w) /\ mode = "up"
  BY WorkerWork, NoRecoveryNow DEF ArchiveInv, AuthorityError, WorkStep
<1>1. ASSUME pc'[w] \notin Marked PROVE Progress(pc[w], loc[w])'
  BY <1>1 DEF Progress
<1>2. CASE pc[w] \notin ReclaimPCs \cup ArchivePCs
  <2>1. pc'[w] \notin ReclaimPCs \cup ArchivePCs
    <3>1. pc'[w] \notin ArchivePCs
      BY <1>2, GoesWhere
    <3>2. pc'[w] \notin ReclaimPCs
      BY <1>0, <1>2, ReclaimSides DEF WorkStep, Returns, GoesOn
    <3> QED
      BY <3>1, <3>2
  <2>2. Marked \subseteq ReclaimPCs \cup ArchivePCs
    BY DEF ReclaimPCs, ArchivePCs
  <2> QED
    BY <1>1, <2>1, <2>2
<1>3. CASE pc[w] \in ArchivePCs
  <2>1. ArchiveWrite(w) \/ ArchiveInsert(w) \/ ArchivePublish(w)
    <3>1. ArchivePCs \cap (ReclaimPCs \cup CreatePCs \cup VerifyPCs \cup FlagOps) = {}
      BY DEF ReclaimPCs, CreatePCs, VerifyPCs, ArchivePCs, FlagOps, CommitPCs, AbortPCs
    <3>2. ArchiveStep(w)
      BY <1>0, <1>3, <3>1, RequestPCs, ReclaimPC DEF WorkerStep
    <3> QED
      BY <1>0, <3>2 DEF ArchiveStep, ArchiveUnrow, ArchiveUnblob, Progress
  <2>2. CASE ArchiveWrite(w)
    <3>1. pc'[w] = "arc_insert" /\ loc' = loc /\ loc[w].obj \in Objects
          /\ ablob' = [ablob EXCEPT ![loc[w].obj] = TRUE]
      BY <1>0, <2>2, GotoFrame, NoRecoveryNow DEF ArchiveWrite, WorkStep
    <3>2. ablob'[loc[w].obj]
      BY <3>1 DEF TypeInv, TypeOK, PhysTypeOK
    <3> QED
      BY <3>1, <3>2 DEF Progress
  <2>3. CASE ArchiveInsert(w) \/ ArchivePublish(w)
    <3>1. Goto(w, "arc_obj") \/ Return(w)
      BY <2>3 DEF ArchiveInsert, ArchivePublish
    <3> QED
      BY <1>1, <3>1, GotoFrame, ReturnOwns
  <2> QED
    BY <2>1, <2>2, <2>3
<1>4. pc[w] \in ReclaimPCs => a \in Attempts /\ ReclaimStep(w)
  <2>1. ~WorkerStep(w) \/ ReclaimStep(w) \/ pc[w] \notin ReclaimPCs
    <3>1. ReclaimPCs \cap (CreatePCs \cup VerifyPCs \cup ArchivePCs \cup FlagOps) = {}
      BY DEF ReclaimPCs, CreatePCs, VerifyPCs, ArchivePCs, FlagOps, CommitPCs, AbortPCs
    <3> QED
      BY <1>0, <3>1, RequestPCs DEF WorkerStep
  <2> QED
    BY <2>1 DEF JournalInv, WorkerOwns
<1>5. CASE pc[w] \in BeforePCs
  <2>0. a \in Attempts /\ ReclaimStep(w) /\ phase[a] \in PrePhysical
    BY <1>4, <1>5, ReclaimSides DEF RecoveryInv, ReclaimSound
  <2>1. CASE StartPhysical(w)
    <3>1. pc'[w] = "delete" /\ loc' = loc /\ plan' = [plan EXCEPT ![a] = loc[w].todo]
      BY <2>1, GotoFrame DEF StartPhysical
    <3>2. plan'[a] = loc[w].todo
      BY <2>0, <3>1 DEF TypeInv, TypeOK, JournalTypeOK
    <3> QED
      BY <3>1, <3>2 DEF Progress
  <2>2. CASE ~StartPhysical(w)
    <3>1. phase'[a] \notin PhysicalPhases
      <4>1. CASE phase' = phase
        BY <2>0, <4>1, ReclaimSides DEF PrePhysical
      <4>2. CASE ReclaimValidated(w)
        <5>1. phase' = [phase EXCEPT ![a] = "VALIDATED"]
          BY <4>2 DEF ReclaimValidated, UpdateJournalPhase
        <5> QED
          BY <2>0, <5>1, ReclaimSides DEF TypeInv, TypeOK, JournalTypeOK
      <4>3. CASE CommitJournal(w) \/ AbortJournal(w)
        <5>1. \E s \in {"COMMITTED", "ROLLED_BACK"} : phase' = [phase EXCEPT ![a] = s]
          BY <4>3 DEF CommitJournal, AbortJournal, CloseJournal, UpdateJournalPhase
        <5> QED
          BY <2>0, <5>1, ReclaimSides DEF TypeInv, TypeOK, JournalTypeOK
      <4>4. ~PhysicalDone(w)
        BY <1>5 DEF PhysicalDone, BeforePCs, AbortPCs
      <4> QED
        BY <2>0, <2>2, <4>1, <4>2, <4>3, <4>4, ReclaimWrites
    <3>2. pc'[w] \in BeforePCs \cup {"idle"}
      BY <1>0, <1>5, <3>1, ReclaimSides DEF WorkStep, Returns, GoesOn
    <3>3. Marked \cap (BeforePCs \cup {"idle"}) = {}
      BY DEF BeforePCs, AbortPCs
    <3> QED
      BY <1>1, <3>2, <3>3
  <2> QED
    BY <2>1, <2>2
<1>6. CASE pc[w] \in AfterPCs
  <2>0. /\ a \in Attempts /\ ReclaimStep(w) /\ ~Indeterminate(w)
        /\ plan[a] \subseteq Payloads /\ blob \in [Payloads -> {"absent", "ok", "corrupt"}]
    BY <1>0, <1>4, <1>6, ReclaimSides
    DEF Progress, Indeterminate, TypeInv, TypeOK, JournalTypeOK, PhysTypeOK
  <2>1. ASSUME NEW p \in Payloads, DeletePayload(w, p) PROVE Progress(pc[w], loc[w])'
    <3> DEFINE r == [loc[w] EXCEPT !.todo = @ \ {p}]
    <3>1. /\ pc' = pc /\ pc[w] = "delete" /\ SetLocals(w, r) /\ plan' = plan
          /\ blob' = [blob EXCEPT ![p] = "absent"]
      BY <2>1 DEF DeletePayload, journalVars
    <3>2. loc'[w] = r
      BY <3>1, LocalsFrame
    <3>3. r.att = a /\ r.todo = loc[w].todo \ {p}
      BY LocalsFields DEF Locals
    <3>4. \A q \in plan[a] \ (loc[w].todo \ {p}) : blob'[q] = "absent"
      BY <1>0, <2>0, <3>1 DEF Progress
    <3> QED
      BY <3>1, <3>2, <3>3, <3>4 DEF Progress
  <2>2. CASE DeletedAll(w)
    <3>1. /\ \E c \in {"arch", "check"} : Goto(w, c)
          /\ UNCHANGED <<loc, plan, blob>> /\ pc[w] = "delete" /\ loc[w].todo = {}
      BY <2>2, Zenon DEF DeletedAll, journalVars, physVars
    <3>2. pc'[w] \in {"arch", "check"}
      BY <3>1, GotoFrame
    <3> QED
      BY <1>0, <3>1, <3>2 DEF Progress
  <2>3. CASE DeleteArchive(w)
    <3>1. pc'[w] = "check" /\ UNCHANGED <<loc, plan, blob>> /\ pc[w] = "arch"
      BY <2>3, GotoFrame DEF DeleteArchive, journalVars
    <3> QED
      BY <1>0, <3>1 DEF Progress
  <2>4. CASE CheckDeleted(w)
    <3>1. \A p \in plan[a] : blob[p] = "absent"
      BY <1>0, <2>4 DEF CheckDeleted, Progress
    <3>2. Goto(w, "done")
      BY <2>4, <3>1 DEF CheckDeleted
    <3> QED
      BY <1>1, <3>2, GotoFrame
  <2>5. CASE CommitRelease(w)
    <3>1. pc[w] = "cmt_release" /\ Facts(pc[w], loc[w])
      BY <2>5 DEF CommitRelease, PayloadInv
    <3>2. PICK p \in Payloads : p = loc[w].cur
      BY <3>1 DEF Facts, Guarded, EntryRows
    <3>3. dedup[p] > Cardinality(Owners(p)) /\ Cardinality(Owners(p)) \in Nat
      BY <1>0, <3>1, <3>2, OneOwner, NoRecoveryNow DEF PayloadInv, Covered, InFlight, CountedPCs, WorkStep
    <3>4. dedup[p] > 0
      BY <3>3 DEF TypeInv, TypeOK, StoreTypeOK
    <3>5. Goto(w, "cmt_row")
      BY <2>5, <3>2, <3>4 DEF CommitRelease
    <3> QED
      BY <1>1, <3>5, GotoFrame
  <2>6. CASE \/ ArchiveMissing(w) \/ PhysicalDone(w) \/ CommitEnter(w) \/ CommitRowsDone(w)
             \/ CommitArchive(w) \/ CommitObject(w) \/ CommitReservation(w) \/ CommitAttempt(w)
             \/ CommitJournal(w) \/ \E p \in Payloads : CommitRow(w, p)
    <3>1. Return(w) \/ \E c \in {"commit"} \cup CommitPCs : Goto(w, c)
      BY <2>6, Zenon DEF ArchiveMissing, PhysicalDone, CommitEnter, CommitRowsDone,
         CommitArchive, CommitObject, CommitReservation, CommitAttempt, CommitJournal,
         CloseReservation, CloseAttempt, CloseJournal, CommitRow, CommitPCs
    <3>2. pc'[w] \in {"idle", "commit"} \cup CommitPCs
      BY <3>1, GotoFrame, ReturnOwns
    <3> QED
      BY <1>1, <3>2 DEF CommitPCs
  <2>7. ~(\/ ToRecomputable(w) \/ ToPending(w) \/ ReclaimValidated(w) \/ Survive(w)
          \/ ReadGraph(w) \/ CheckDependencies(w) \/ ReclaimLock(w) \/ ReclaimLockFails(w)
          \/ PlanDeletions(w) \/ StartPhysical(w) \/ AbortObject(w) \/ AbortReservation(w)
          \/ AbortAttempt(w) \/ AbortJournal(w))
    BY <1>6 DEF ToRecomputable, ToPending, Transition, ReclaimValidated, Survive, ReadGraph,
       CheckDependencies, ReclaimLock, ReclaimLockFails, PlanDeletions, StartPhysical,
       AbortObject, AbortReservation, AbortAttempt, AbortJournal, CloseReservation,
       CloseAttempt, CloseJournal, AfterPCs, CommitPCs
  <2> QED
    BY <2>0, <2>1, <2>2, <2>3, <2>4, <2>5, <2>6, <2>7 DEF ReclaimStep
<1> QED
  BY <1>2, <1>3, <1>5, <1>6, ReclaimSides

-----------------------------------------------------------------------------
(* The other steps, seen from the archive. *)

\* The process, and a payload that rots.
LEMMA StillBacked ==
  ASSUME TypeInv, JournalInv, ArchiveInv, UNCHANGED <<phase, entry, arch, ablob>>, ~lost',
         \/ \A w \in Workers : pc'[w] \in {"idle", "recover"}
         \/ /\ UNCHANGED <<pc, loc, plan>>
            /\ \A p \in Payloads : (blob'[p] = "absent") <=> (blob[p] = "absent"),
         rpc' \in {"off", "scan"} \/ UNCHANGED <<rpc, rec>>
  PROVE  ArchiveInv'
<1>1. ASSUME NEW w \in Workers PROVE Progress(pc[w], loc[w])'
  <2>1. CASE pc'[w] \in {"idle", "recover"}
    BY <2>1 DEF Progress
  <2>2. CASE pc'[w] \notin {"idle", "recover"}
    <3>1. pc[w] \in {"delete", "arch", "check"} => plan[loc[w].att] \subseteq Payloads
      BY DEF JournalInv, WorkerOwns, ReclaimPCs, TypeInv, TypeOK, JournalTypeOK
    <3> QED
      BY <2>2, <3>1 DEF ArchiveInv, Progress
  <2> QED
    BY <2>1, <2>2
<1>2. {"off", "scan"} \cap (RollbackPCs \cup RecClosePCs) = {}
  BY DEF RollbackPCs, RecClosePCs
<1> QED
  BY <1>1, <1>2 DEF ArchiveInv, RecordBacked, GivesBacked, PhysicalOf

\* A request begins before the first step that has to have come somewhere.
LEMMA BeginBacked ==
  ASSUME TypeInv, JournalInv, PayloadInv, ArchiveInv, "recover" \notin Requests,
         NEW w \in Workers, Request(w), mode = "up", UNCHANGED <<arch, ablob, blob, plan, rpc>>,
         pc'[w] \notin {"fence", "arc_unrow", "arc_unblob", "arc_insert", "delete", "arch",
                        "check"},
         \A a \in Attempts :
           \/ phase'[a] = phase[a] /\ entry'[a] = entry[a]
           \/ /\ phase[a] = "NONE" /\ phase'[a] = "RESERVED"
              /\ entry'[a].obj \in Objects /\ entry'[a].arch = arch[entry'[a].obj]
  PROVE  ArchiveInv'
<1>1. rpc = "off" /\ rpc' = "off" /\ "off" \notin RollbackPCs \cup RecClosePCs
  BY DEF PayloadInv, RollbackPCs, RecClosePCs
<1>2. ~lost' /\ \A v \in Workers \ {w} : pc'[v] = pc[v] /\ loc'[v] = loc[v]
  BY RequestFrame DEF ArchiveInv
<1>3. \A v \in Workers : Progress(pc[v], loc[v])'
  BY <1>2 DEF ArchiveInv, Progress
<1>4. \A o \in Objects : PhysicalOf(o) \subseteq PhysicalOf(o)'
  BY ReclaimSides DEF PhysicalOf, PhysicalPhases
<1>5. \A o \in Objects : RecordBacked(o)'
  BY <1>4 DEF ArchiveInv, RecordBacked
<1>6. \A a \in Attempts : phase'[a] \in PrePhysical => entry'[a].arch <= arch'[entry'[a].obj]
  BY ArchiveNumbers DEF ArchiveInv
<1> QED
  BY <1>1, <1>2, <1>3, <1>5, <1>6 DEF ArchiveInv

LEMMA RequestBacked ==
  ASSUME TypeInv, JournalInv, PayloadInv, ArchiveInv, "recover" \notin Requests,
         NEW w \in Workers, Request(w)
  PROVE  ArchiveInv'
<1> DEFINE Begins == {"publish", "create_lock", "ver_lock", "arc_write", "recomputable",
                      "validate", "pending", "idle"} \cup FlagOps
           Framed == mode = "up" /\ UNCHANGED <<arch, ablob, blob, plan, rpc>>
<1>0. Begins \cap {"fence", "arc_unrow", "arc_unblob", "arc_insert", "delete", "arch",
                   "check"} = {}
  BY DEF FlagOps
<1>1. ASSUME UNCHANGED <<phase, entry>>, Framed, pc'[w] \in Begins PROVE ArchiveInv'
  BY <1>0, <1>1, BeginBacked
<1>2. ASSUME NEW o \in Objects, NEW kind \in FlagOps, FlagBegin(w, o, kind) PROVE ArchiveInv'
  <2>1. Goto(w, kind) /\ Framed /\ UNCHANGED <<phase, entry>>
    BY <1>2 DEF FlagBegin, Enter, storeVars, journalVars, physVars, procVars, recVars
  <2> QED
    BY <1>1, <2>1, GotoFrame
<1>3. ASSUME NEW o \in Objects, CreateBegin(w, o) \/ VerifyBegin(w, o) \/ ArchiveBegin(w, o)
      PROVE  ArchiveInv'
  <2>1. \E c \in {"publish", "create_lock", "ver_lock", "arc_write"} : Goto(w, c)
    BY <1>3, Zenon DEF CreateBegin, VerifyBegin, ArchiveBegin
  <2>2. Framed /\ UNCHANGED <<phase, entry>>
    BY <1>3 DEF CreateBegin, VerifyBegin, ArchiveBegin, Enter, storeVars, journalVars,
       physVars, procVars, recVars
  <2> QED
    BY <1>1, <2>1, <2>2, GotoFrame
<1>4. CASE \E e \in EdgeChoices : AddLineage(w, e) \/ RemoveLineage(w, e)
  <2>1. pc[w] = "idle" /\ pc' = pc /\ Framed /\ UNCHANGED <<phase, entry>>
    BY <1>4 DEF AddLineage, RemoveLineage, Enter, journalVars, physVars, procVars, recVars
  <2> QED
    BY <1>1, <2>1
<1>5. ASSUME NEW o \in Objects, NEW a \in Attempts, Reserve(w, o, a) PROVE ArchiveInv'
  <2> DEFINE e == [obj |-> o, prior |-> object[o], rows |-> rows[o], arch |-> arch[o]]
  <2>1. /\ Framed /\ phase[a] = "NONE"
        /\ phase' = [phase EXCEPT ![a] = "RESERVED"] /\ entry' = [entry EXCEPT ![a] = e]
    BY <1>5 DEF Reserve, Enter, storeVars, physVars, procVars, recVars
  <2>2. PICK c \in {"recomputable", "validate", "pending"} : Goto(w, c)
    BY <1>5, Zenon DEF Reserve
  <2>3. pc'[w] \in Begins
    BY <2>2, GotoFrame
  <2>4. /\ phase'[a] = "RESERVED" /\ entry'[a] = e
        /\ \A b \in Attempts \ {a} : phase'[b] = phase[b] /\ entry'[b] = entry[b]
    BY <2>1 DEF TypeInv, TypeOK, JournalTypeOK
  <2>5. entry'[a].obj = o /\ entry'[a].arch = arch[o]
    BY <2>4
  <2> QED
    BY <1>0, <2>1, <2>3, <2>4, <2>5, BeginBacked
<1> QED
  BY <1>2, <1>3, <1>4, <1>5 DEF Request, RecoverRequest

LEMMA RecoveryArchives ==
  ASSUME RecoveryStep
  PROVE  /\ lost' = lost
         /\ arch' = arch \/ RollbackArchive \/ RecCommitArchive
<1> USE DEF storeVars, procVars
<1>1. CASE \/ RecScan \/ RecQueueEmpty \/ RecExpire \/ RecRepair \/ RecLineage \/ RecEnd
           \/ RecStoreError \/ RecRepairPartial
           \/ \E a \in Attempts : RecNext(a) \/ RecBackendError(a)
  BY <1>1, Zenon DEF RecScan, RecQueueEmpty, RecExpire, RecRepair, RecLineage, RecEnd,
     RecStoreError, RecRepairPartial, RecNext, RecBackendError
<1>2. CASE \/ RollbackObject \/ RollbackRowsDone \/ RollbackArchive \/ RollbackRepair
           \/ RecCommitRelease \/ RecCommitRowsDone \/ RecCommitArchive \/ RecCommitObject
           \/ \E p \in Payloads : RollbackRow(p) \/ RollbackRowConflict(p) \/ RecCommitRow(p)
  BY <1>2, Zenon DEF RollbackObject, RollbackRowsDone, RollbackArchive, RollbackRepair,
     RecCommitRelease, RecCommitRowsDone, RecCommitArchive, RecCommitObject, RollbackRow,
     RollbackRowConflict, RecCommitRow
<1>3. CASE \/ RollbackReservation \/ RollbackAttempt \/ RollbackJournal
           \/ RecCommitReservation \/ RecCommitAttempt \/ RecCommitJournal
  BY <1>3, Zenon DEF RollbackReservation, RollbackAttempt, RollbackJournal,
     RecCommitReservation, RecCommitAttempt, RecCommitJournal, RecReservation, RecAttempt,
     RecJournal
<1> QED
  BY <1>1, <1>2, <1>3 DEF RecoveryStep

\* Rolling back finds the archive payload or adds no record; committing takes
\* every record before it closes the entry.
LEMMA RecoveryBacked ==
  ASSUME TypeInv, JournalInv, RecoveryInv, PayloadInv, LedgerInv, SingleInv, ArchiveInv,
         RecoveryStep
  PROVE  ArchiveInv'
<1> DEFINE a == rec.att
           o == entry[rec.att].obj
<1>1. /\ UNCHANGED <<entry, plan, blob, ablob>> /\ ~lost'
      /\ OpenAttempts' \subseteq OpenAttempts
      /\ \A b \in OpenAttempts' : phase'[b] = phase[b]
      /\ \A w \in Workers : pc'[w] \in {"idle", "recover"}
  BY RecoveryWrites, RecoveryCloses, RecoveryModes, RecoveryArchives DEF ArchiveInv
<1>2. \A w \in Workers : Progress(pc[w], loc[w])'
  BY <1>1 DEF Progress
<1>3. arch \in [Objects -> Nat] /\ \A b \in Attempts : entry[b].arch \in Nat
  BY ArchiveNumbers DEF TypeInv, TypeOK, StoreTypeOK
<1>4. ASSUME RollbackArchive
      PROVE  /\ phase' = phase /\ a \in Attempts /\ o \in Objects /\ GivesBacked(a)
             /\ arch' = [arch EXCEPT ![o] = IF @ < entry[a].arch THEN entry[a].arch ELSE @]
  <2>1. /\ rpc = "rb_arch" /\ phase' = phase
        /\ arch' = [arch EXCEPT ![o] = IF @ < entry[a].arch THEN entry[a].arch ELSE @]
    BY <1>4 DEF RollbackArchive, RecAt, journalVars
  <2>2. rpc \in AtEntry /\ rpc \in RollbackPCs
    BY <2>1 DEF AtEntry, EntryPCs, RollbackPCs
  <2> QED
    BY <2>1, <2>2, AtHandHolds DEF ArchiveInv
<1>5. ASSUME RecCommitArchive
      PROVE  /\ phase' = phase /\ a \in PhysicalOf(o) /\ o \in Objects
             /\ a \in OpenAttempts
             /\ arch' = [arch EXCEPT ![o] = IF @ > entry[a].arch THEN @ - entry[a].arch ELSE 0]
  <2>1. /\ rpc = "cm_arch" /\ phase' = phase
        /\ arch' = [arch EXCEPT ![o] = IF @ > entry[a].arch THEN @ - entry[a].arch ELSE 0]
    BY <1>5 DEF RecCommitArchive, RecAt, journalVars
  <2>2. rpc \in AtEntry /\ rpc \in RecCommitPCs
    BY <2>1 DEF AtEntry, EntryPCs, RecCommitPCs
  <2> QED
    BY <2>1, <2>2, AtHandHolds
<1>6. ASSUME NEW b \in Attempts, phase'[b] \in PrePhysical
      PROVE  entry'[b].arch <= arch'[entry'[b].obj]
  <2>1. b \in OpenAttempts' /\ b \in OpenAttempts /\ phase[b] \in PrePhysical
    BY <1>1, <1>6 DEF OpenAttempts, OpenPhases, PrePhysical
  <2>2. PICK q \in Objects : q = entry[b].obj
    BY <2>1 DEF JournalInv, EntriesKnown, PrePhysical
  <2>3. entry[b].arch <= arch[q]
    BY <2>1, <2>2 DEF ArchiveInv
  <2>4. arch[q] <= arch'[q] /\ arch'[q] \in Nat
    <3>1. CASE arch' = arch
      BY <1>3, <3>1
    <3>2. CASE RollbackArchive
      BY <1>3, <1>4, <3>2
    <3>3. CASE RecCommitArchive
      <4>1. q # o
        <5>1. a # b
          BY <1>5, <2>1, <3>3, ReclaimSides DEF PhysicalOf, PrePhysical
        <5> QED
          BY <1>5, <2>1, <2>2, <3>3, <5>1 DEF SingleInv, OneOpenJournal
      <4> QED
        BY <1>3, <1>5, <3>3, <4>1
    <3> QED
      BY <3>1, <3>2, <3>3, RecoveryArchives
  <2> QED
    BY <1>1, <1>3, <2>2, <2>3, <2>4
<1>7. ASSUME NEW q \in Objects PROVE RecordBacked(q)'
  <2> SUFFICES ASSUME arch'[q] > 0, ~ablob'[q] PROVE PhysicalOf(q)' # {}
    BY DEF RecordBacked
  <2>1. arch[q] > 0 \/ RecCommitArchive
    <3>1. CASE RollbackArchive
      <4>1. CASE q # o
        BY <1>3, <1>4, <3>1, <4>1
      <4>2. CASE q = o
        <5>1. phase[a] \in PrePhysical \/ entry[a].arch = 0
          BY <1>1, <1>4, <3>1, <4>2 DEF GivesBacked
        <5>2. phase[a] \in PrePhysical => entry[a].arch <= arch[o]
          BY <1>4, <3>1 DEF ArchiveInv
        <5> QED
          BY <1>3, <1>4, <3>1, <4>2, <5>1, <5>2
      <4> QED
        BY <4>1, <4>2
    <3> QED
      BY <3>1, RecoveryArchives
  <2>2. arch[q] > 0 /\ ~ablob[q]
    <3>1. CASE RecCommitArchive
      <4>1. entry[a].arch \in Nat
        BY <1>3, <1>5, <3>1 DEF OpenAttempts
      <4>2. CASE q = o
        BY <1>1, <1>3, <1>5, <3>1, <4>1, <4>2
      <4>3. CASE q # o
        BY <1>1, <1>3, <1>5, <3>1, <4>3
      <4> QED
        BY <4>2, <4>3
    <3> QED
      BY <1>1, <2>1, <3>1
  <2>3. PICK b \in Attempts : phase[b] \in PhysicalPhases /\ entry[b].obj = q
    BY <2>2 DEF ArchiveInv, RecordBacked, PhysicalOf
  <2>4. ASSUME phase'[b] # phase[b] PROVE FALSE
    <3>1. RollbackJournal \/ RecCommitJournal
      BY <2>4, RecoveryWrites
    <3>2. /\ rpc \in AtEntry /\ rpc \in RollbackPCs \cup RecClosePCs
          /\ \E s : phase' = [phase EXCEPT ![a] = s]
      BY <3>1 DEF RollbackJournal, RecCommitJournal, RecJournal, UpdateJournalPhase, RecAt,
         AtEntry, EntryPCs, RollbackPCs, RecClosePCs
    <3>3. b = a /\ q = o
      BY <2>3, <2>4, <3>2 DEF TypeInv, TypeOK, JournalTypeOK
    <3>4. arch[o] # 0 /\ ~ablob[o]
      BY <2>2, <3>3
    <3>5. rpc \in RollbackPCs /\ GivesBacked(a)
      BY <3>2, <3>4 DEF ArchiveInv
    <3>6. entry[a].arch = 0
      BY <2>3, <3>3, <3>4, <3>5, ReclaimSides DEF GivesBacked, PrePhysical
    <3>7. arch[q] <= entry[a].arch
      BY <2>3, <3>3 DEF LedgerInv, ObjectHolds, CommitTakes, PhysicalOf, Lists
    <3> QED
      BY <1>3, <2>2, <3>6, <3>7
  <2> QED
    BY <1>1, <2>3, <2>4 DEF PhysicalOf
<1>8. rpc' \in RollbackPCs => GivesBacked(rec.att)'
  <2> SUFFICES ASSUME rpc' \in RollbackPCs PROVE GivesBacked(rec.att)'
    OBVIOUS
  <2>1. /\ phase' = phase
        /\ \/ rec'.att = rec.att /\ rpc \in RollbackPCs
           \/ \E b \in Attempts : rec'.att = b /\ RollsBack(b)
    BY RecoveryDecides
  <2>2. PICK b : b = rec'.att
    OBVIOUS
  <2>3. GivesBacked(b)
    <3>1. \A c \in Attempts : RollsBack(c) => GivesBacked(c)
      BY <1>3 DEF RollsBack, GivesBacked, NoPhysicalWork, AllPresent, ArchivePresent
    <3> QED
      BY <2>1, <2>2, <3>1 DEF ArchiveInv
  <2> QED
    BY <1>1, <2>1, <2>2, <2>3 DEF GivesBacked
<1>9. rpc' \in RecClosePCs => (arch[entry[rec.att].obj] = 0)'
  <2> SUFFICES ASSUME rpc' \in RecClosePCs PROVE arch'[entry'[rec'.att].obj] = 0
    OBVIOUS
  <2>1. rec'.att = rec.att /\ rpc \in RecClosePCs \cup {"cm_obj"}
    BY RecoveryCloseSteps
  <2>2. arch' = arch
    BY <2>1, RecoveryArchives DEF RollbackArchive, RecCommitArchive, RecAt, RecClosePCs
  <2>3. arch[o] = 0
    <3>1. CASE rpc \in RecClosePCs
      BY <3>1 DEF ArchiveInv
    <3>2. CASE rpc = "cm_obj"
      <4>1. rpc \in AtEntry
        BY <3>2 DEF AtEntry, EntryPCs
      <4> QED
        BY <3>2, <4>1, AtHandHolds DEF EntryHolds
    <3> QED
      BY <2>1, <3>1, <3>2
  <2> QED
    BY <1>1, <2>1, <2>2, <2>3
<1> QED
  BY <1>1, <1>2, <1>6, <1>7, <1>8, <1>9 DEF ArchiveInv

\* A spent budget says nothing, and nothing is spent but by a fault.
LEMMA NextUnspent ==
  ASSUME "recover" \notin Requests
  PROVE  TypeInv /\ JournalInv /\ RecoveryInv /\ PayloadInv /\ LedgerInv /\ UnspentInv
           /\ [Next]_vars => UnspentInv'
<1> SUFFICES ASSUME TypeInv, JournalInv, RecoveryInv, PayloadInv, LedgerInv, UnspentInv,
                    [Next]_vars, Unspent'
             PROVE  SingleInv' /\ TerminalInv' /\ ArchiveInv'
  BY DEF UnspentInv
<1>1. /\ SingleInv /\ TerminalInv /\ ArchiveInv
      /\ \A w \in Workers : ~WorkerFault(w)
      /\ ~HeartbeatThreadError
  BY NothingSpent DEF UnspentInv
<1>2. SingleInv'
  BY <1>1, NextSingle DEF AbortFails, WorkerFault
<1>3. TerminalInv'
  BY <1>1, NextTerminal
<1>4. CASE UNCHANGED vars
  <2>1. UNCHANGED <<phase, entry, plan, arch, blob, ablob, lost, pc, loc, rpc, rec>>
    BY <1>4 DEF vars, storeVars, journalVars, physVars, procVars, workVars, recVars
  <2> QED
    BY <1>1, <1>2, <1>3, <2>1, StillBacked DEF ArchiveInv
<1>5. CASE Process
  <2>1. CASE Start
    <3>1. /\ UNCHANGED <<phase, entry, plan, arch, blob, ablob, lost, pc, loc>>
          /\ rpc' = "scan"
      BY <2>1 DEF Start, storeVars, journalVars, physVars, workVars
    <3> QED
      BY <1>1, <1>2, <1>3, <3>1, StillBacked DEF ArchiveInv
  <2>2. CASE Exit \/ Crash
    <3>1. /\ UNCHANGED <<phase, entry, arch, ablob>> /\ ~lost' /\ rpc' = "off"
          /\ \A w \in Workers : pc'[w] = "idle"
      BY <2>2 DEF Exit, Crash, Vanish, storeVars, journalVars, physVars
    <3> QED
      BY <1>1, <1>2, <1>3, <3>1, StillBacked
  <2>3. CASE RequestShutdown
    <3>1. UNCHANGED <<phase, entry, plan, arch, blob, ablob, lost, pc, loc, rpc, rec>>
      BY <2>3 DEF RequestShutdown, storeVars, journalVars, physVars, workVars, recVars
    <3> QED
      BY <1>1, <1>2, <1>3, <3>1, StillBacked DEF ArchiveInv
  <2> QED
    BY <1>1, <1>5, <2>1, <2>2, <2>3 DEF Process
<1>6. ASSUME NEW p \in Payloads, Corrupt(p) PROVE ArchiveInv'
  <2>1. /\ UNCHANGED <<phase, entry, plan, arch, ablob, lost, pc, loc, rpc, rec>>
        /\ blob[p] = "ok" /\ blob' = [blob EXCEPT ![p] = "corrupt"]
    BY <1>6 DEF Corrupt, storeVars, journalVars, procVars, workVars, recVars
  <2>2. \A s \in Payloads : (blob'[s] = "absent") <=> (blob[s] = "absent")
    BY <2>1 DEF TypeInv, TypeOK, PhysTypeOK
  <2> QED
    BY <1>1, <2>1, <2>2, StillBacked DEF ArchiveInv
<1>7. ASSUME NEW w \in Workers, WorkerStep(w) PROVE ArchiveInv'
  BY <1>1, <1>7, OwnProgress, BackedStep
<1> QED
  BY <1>1, <1>2, <1>3, <1>4, <1>5, <1>6, <1>7, RequestBacked, RecoveryBacked DEF Next

LEMMA InitUnspent == Init => UnspentInv
<1> SUFFICES ASSUME Init PROVE ArchiveInv
  BY InitSingle, InitTerminal DEF UnspentInv
<1>1. /\ ~lost /\ \A w \in Workers : pc[w] = "idle"
      /\ \A o \in Objects : arch[o] = 0
      /\ \A a \in Attempts : phase[a] = "NONE"
      /\ rpc = "scan" \/ rpc = "off"
  BY DEF Init
<1>2. {"off", "scan"} \cap (RollbackPCs \cup RecClosePCs) = {} /\ "NONE" \notin PrePhysical
  BY DEF RollbackPCs, RecClosePCs, PrePhysical
<1> QED
  BY <1>1, <1>2 DEF ArchiveInv, Progress, RecordBacked

(* archive writes the payload before the record; reclaim deletes the payload  *)
(* only under a journal entry that plans it, and the record before it closes  *)
(* the entry; recovery closes such an entry by adding records back if it      *)
(* finds the payload, and by deleting them all otherwise.  So whatever        *)
(* crashes, restarts and losses of the archive backend come in between, a     *)
(* record without its payload belongs to an open entry past its prephysical   *)
(* phases.  Failed statements and backend calls are left out: the             *)
(* compensation of a failed archive deletes a payload that an earlier record  *)
(* of the object may name.                                                    *)
THEOREM ArchiveRecordsBacked ==
  ASSUME "recover" \notin Requests
  PROVE  Spec => []ArchiveBacked
<1>1. UnspentInv => ArchiveBacked
  <2> SUFFICES ASSUME ArchiveInv, NEW o \in Objects, arch[o] > 0, ~ablob[o]
               PROVE  \E a \in OpenAttempts : entry[a].obj = o /\ phase[a] \notin PrePhysical
    BY DEF UnspentInv, Unspent, ArchiveBacked
  <2>1. PICK a \in Attempts : phase[a] \in PhysicalPhases /\ entry[a].obj = o
    BY DEF ArchiveInv, RecordBacked, PhysicalOf
  <2> QED
    BY <2>1 DEF PhysicalPhases, OpenAttempts
<1>2. TypeInv /\ JournalInv /\ RecoveryInv /\ PayloadInv /\ LedgerInv /\ UnspentInv
        /\ [Next]_vars => UnspentInv'
  BY NextUnspent
<1>3. Spec => [](TypeInv /\ JournalInv /\ RecoveryInv /\ PayloadInv /\ LedgerInv)
  BY AlwaysSound, AlwaysPayloads, AlwaysLedger, PTL
<1> QED
  BY <1>1, <1>2, <1>3, InitUnspent, PTL DEF Spec
==============================================================================
