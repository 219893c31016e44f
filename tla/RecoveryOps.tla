---------------------------- MODULE RecoveryOps ------------------------------
(***************************************************************************)
(* reconcile_store of src/recovery.rs, statement by statement: it runs in  *)
(* Coordinator::open before any request is served, and as the RECOVER      *)
(* request while no object or payload operation is active.                 *)
(***************************************************************************)
EXTENDS CoordinatorState

RecAt(l) == rpc = l /\ mode # "down"

RecGoto(l) == rpc' = l

\* The entry at hand is left open and its error reported.
EntryFails == rpc' = "next" /\ rec' = [rec EXCEPT !.err = TRUE]

\* reconcile_store itself fails.
RecoveryFails == rpc' = "end" /\ rec' = [rec EXCEPT !.err = TRUE]

JournalRows(a) == {p \in Payloads : entry[a].rows[p] # "none"}

RecScan ==
  /\ RecAt("scan")
  /\ rpc' = "next"
  /\ rec' = [rec EXCEPT !.queue = OpenAttempts]
  /\ UNCHANGED <<storeVars, journalVars, physVars, procVars, workVars, budget>>

\* The physical_state callback: the planned payloads, the archive payload if
\* the entry has archive deletions.
Present(a) == {p \in plan[a] : blob[p] # "absent"}
ArchivePresent(a) == entry[a].arch > 0 /\ ablob[entry[a].obj]
\* Mutant: archive payloads are not asked for.
AllReplicasPresent(a) == Present(a) = plan[a]

AllPresent(a) ==
  Present(a) = plan[a] /\ (entry[a].arch > 0 => ArchivePresent(a))
AllGone(a) == Present(a) = {} /\ ~ArchivePresent(a)

NoPhysicalWork(a) == plan[a] = {} /\ entry[a].arch = 0

\* Payloads cannot be asked for without authority, nor archives without their
\* backend.
Answers(a) == (plan[a] # {} => ~lost) /\ (entry[a].arch > 0 => archiveUp)

\* Mutant: the backends are asked only once deletion is known to be complete.
RollsBackUnasked(a) ==
  \/ phase[a] \in PrePhysical \cup {"PHYSICAL_STARTED"}
  \/ /\ phase[a] = "PHYSICAL_DONE"
     /\ ~NoPhysicalWork(a) /\ Answers(a) /\ AllPresent(a)

RollsBack(a) ==
  \/ phase[a] \in PrePhysical
  \/ phase[a] = "PHYSICAL_STARTED" /\ NoPhysicalWork(a)
  \/ /\ phase[a] \in {"PHYSICAL_STARTED", "PHYSICAL_DONE"}
     /\ ~NoPhysicalWork(a) /\ Answers(a) /\ AllPresent(a)

\* Mutant: a deletion is finished only if it is known to be complete.
CommitsKnownDone(a) ==
  /\ phase[a] = "PHYSICAL_DONE"
  /\ NoPhysicalWork(a) \/ (Answers(a) /\ AllGone(a))

Commits(a) ==
  \/ phase[a] = "PHYSICAL_DONE" /\ NoPhysicalWork(a)
  \/ /\ phase[a] \in {"PHYSICAL_STARTED", "PHYSICAL_DONE"}
     /\ ~NoPhysicalWork(a) /\ Answers(a) /\ AllGone(a)

\* reconcile_entry for the next open entry.  The queue is ordered by creation
\* time in milliseconds and then by a random id: any order can occur.
RecNext(a) ==
  /\ RecAt("next")
  /\ a \in rec.queue
  /\ rpc' = IF RollsBack(a) THEN "rb_obj" ELSE IF Commits(a) THEN "cm_row" ELSE "next"
  /\ rec' = [rec EXCEPT !.queue = @ \ {a},
                        !.att = a,
                        !.todo = JournalRows(a),
                        !.err = @ \/ ~(RollsBack(a) \/ Commits(a))]
  /\ UNCHANGED <<storeVars, journalVars, physVars, procVars, workVars, budget>>

RecQueueEmpty ==
  /\ RecAt("next")
  /\ rec.queue = {}
  /\ RecGoto("expire")
  /\ UNCHANGED <<storeVars, journalVars, physVars, procVars, workVars, rec,
                 budget>>

-----------------------------------------------------------------------------
(* rollback. *)

\* The whole prior row is restored, but only if the state differs.
RestoredObject(now, prior) == IF now.state # prior.state THEN prior ELSE now

RollbackObject ==
  LET a == rec.att
      o == entry[a].obj
  IN  /\ RecAt("rb_obj")
      /\ UpdateObject(o, RestoredObject(object[o], entry[a].prior))
      /\ RecGoto("rb_row")
      /\ UNCHANGED <<rows, dedup, arch, edges, journalVars, physVars, procVars,
                     workVars, rec, budget>>

\* restore_rollback_metadata: a missing row is added back as it was, a row
\* that is there must agree with the journal.
RollbackRow(p) ==
  LET a == rec.att
      o == entry[a].obj
  IN  /\ RecAt("rb_row")
      /\ p \in rec.todo
      /\ rows[o][p] \in {"none", entry[a].rows[p]}
      /\ WriteReplica(o, p, entry[a].rows[p])
      /\ rec' = [rec EXCEPT !.todo = @ \ {p}]
      /\ UNCHANGED <<object, dedup, arch, edges, journalVars, physVars,
                     procVars, workVars, rpc, budget>>

RollbackRowConflict(p) ==
  LET a == rec.att
      o == entry[a].obj
  IN  /\ RecAt("rb_row")
      /\ p \in rec.todo
      /\ rows[o][p] \notin {"none", entry[a].rows[p]}
      /\ EntryFails
      /\ UNCHANGED <<storeVars, journalVars, physVars, procVars, workVars,
                     budget>>

RollbackRowsDone ==
  /\ RecAt("rb_row")
  /\ rec.todo = {}
  /\ RecGoto("rb_arch")
  /\ UNCHANGED <<storeVars, journalVars, physVars, procVars, workVars, rec,
                 budget>>

\* Missing archive records are added back.
RollbackArchive ==
  LET a == rec.att
      o == entry[a].obj
  IN  /\ RecAt("rb_arch")
      /\ arch' = [arch EXCEPT ![o] = IF @ < entry[a].arch THEN entry[a].arch ELSE @]
      /\ RecGoto("rb_repair")
      /\ UNCHANGED <<object, rows, dedup, edges, journalVars, physVars,
                     procVars, workVars, rec, budget>>

RollbackRepair ==
  /\ RecAt("rb_repair")
  /\ IF RowsHaveParents
     THEN dedup' = ExactCounts /\ RecGoto("rb_resv") /\ UNCHANGED rec
     ELSE EntryFails /\ UNCHANGED dedup
  /\ UNCHANGED <<object, rows, arch, edges, journalVars, physVars, procVars,
                 workVars, budget>>

-----------------------------------------------------------------------------
(* commit_after_crash. *)

RecCommitRow(p) ==
  LET o == entry[rec.att].obj
  IN  /\ RecAt("cm_row")
      /\ p \in rec.todo
      /\ DeleteReplica(o, p)
      /\ rpc' = "cm_release"
      /\ rec' = [rec EXCEPT !.todo = @ \ {p}, !.cur = p]
      /\ UNCHANGED <<object, dedup, arch, edges, journalVars, physVars,
                     procVars, workVars, budget>>

\* The reference is released even if the row had gone before the crash; the
\* repair at the end is authoritative.
RecCommitRelease ==
  LET p == rec.cur
  IN  /\ RecAt("cm_release")
      /\ DedupRelease(p)
      /\ rpc' = "cm_row"
      /\ rec' = [rec EXCEPT !.cur = None]
      /\ UNCHANGED <<object, rows, arch, edges, journalVars, physVars,
                     procVars, workVars, budget>>

RecCommitRowsDone ==
  /\ RecAt("cm_row")
  /\ rec.todo = {}
  /\ RecGoto("cm_arch")
  /\ UNCHANGED <<storeVars, journalVars, physVars, procVars, workVars, rec,
                 budget>>

RecCommitArchive ==
  LET o == entry[rec.att].obj
  IN  /\ RecAt("cm_arch")
      /\ arch' = [arch EXCEPT ![o] =
                    IF @ > entry[rec.att].arch THEN @ - entry[rec.att].arch ELSE 0]
      /\ RecGoto("cm_obj")
      /\ UNCHANGED <<object, rows, dedup, edges, journalVars, physVars,
                     procVars, workVars, rec, budget>>

RecCommitObject ==
  LET o == entry[rec.att].obj
  IN  /\ RecAt("cm_obj")
      /\ UpdateObject(o, [object[o] EXCEPT !.state = "RECLAIMED"])
      /\ RecGoto("cm_resv")
      /\ UNCHANGED <<rows, dedup, arch, edges, journalVars, physVars, procVars,
                     workVars, rec, budget>>

-----------------------------------------------------------------------------
(* Both end by closing the reservation, the attempt and, last, the journal. *)

\* update_reservation_for_attempt: the reservation may be closed already.
RecReservation(from, status, next) ==
  LET a == rec.att
  IN  /\ RecAt(from)
      /\ resv' = [resv EXCEPT ![a] = IF @ = "OPEN" THEN status ELSE @]
      /\ RecGoto(next)
      /\ UNCHANGED <<storeVars, phase, entry, plan, attempt, physVars, procVars,
                     workVars, rec, budget>>

\* reconcile_attempt: the same status is accepted, another one refused.
RecAttempt(from, status, next) ==
  LET a == rec.att
  IN  /\ RecAt(from)
      /\ IF attempt[a] \in {"OPEN", status}
         THEN /\ attempt' = [attempt EXCEPT ![a] = status]
              /\ RecGoto(next)
              /\ UNCHANGED rec
         ELSE EntryFails /\ UNCHANGED attempt
      /\ UNCHANGED <<storeVars, phase, entry, plan, resv, physVars, procVars,
                     workVars, budget>>

RecJournal(from, status) ==
  LET a == rec.att
  IN  /\ RecAt(from)
      /\ UpdateJournalPhase(a, status)
      /\ RecGoto("next")
      /\ UNCHANGED <<storeVars, entry, plan, resv, attempt, physVars, procVars,
                     workVars, rec, budget>>

RollbackReservation == RecReservation("rb_resv", "RELEASED", "rb_att")
RollbackAttempt == RecAttempt("rb_att", "ROLLED_BACK", "rb_jrnl")
RollbackJournal == RecJournal("rb_jrnl", "ROLLED_BACK")
RecCommitReservation == RecReservation("cm_resv", "COMMITTED", "cm_att")
RecCommitAttempt == RecAttempt("cm_att", "COMMITTED", "cm_jrnl")
RecCommitJournal == RecJournal("cm_jrnl", "COMMITTED")

-----------------------------------------------------------------------------
(* Steps 2 to 4 of reconcile_store. *)

\* Open reservations without an open journal: their pending object fails.
Abandoned == {a \in Attempts : resv[a] = "OPEN" /\ phase[a] \notin OpenPhases}

RecExpire ==
  /\ RecAt("expire")
  /\ \E E \in SUBSET Abandoned :     \* those past expires_at_ms
       LET failed == {entry[a].obj : a \in E}
       IN  /\ object' = [o \in Objects |->
                          IF o \in failed /\ object[o].state = "RECLAIM_PENDING"
                          THEN [object[o] EXCEPT !.state = "FAILED"]
                          ELSE object[o]]
           /\ resv' = [a \in Attempts |-> IF a \in E THEN "EXPIRED" ELSE resv[a]]
           /\ attempt' = [a \in Attempts |-> IF a \in E THEN "FAILED" ELSE attempt[a]]
  /\ RecGoto("repair")
  /\ UNCHANGED <<rows, dedup, arch, edges, phase, entry, plan, physVars,
                 procVars, workVars, rec, budget>>

RecRepair ==
  /\ RecAt("repair")
  /\ IF RowsHaveParents
     THEN dedup' = ExactCounts /\ RecGoto("lineage") /\ UNCHANGED rec
     ELSE RecoveryFails /\ UNCHANGED dedup
  /\ UNCHANGED <<object, rows, arch, edges, journalVars, physVars, procVars,
                 workVars, budget>>

RecLineage ==
  /\ RecAt("lineage")
  /\ rec' = [rec EXCEPT !.err = @ \/ ~Validate(edges, Registered)]
  /\ RecGoto("end")
  /\ UNCHANGED <<storeVars, journalVars, physVars, procVars, workVars, budget>>

\* Mutant: open ignores the errors in the report.
RecEndServes ==
  /\ RecAt("end")
  /\ rpc' = "off"
  /\ rec' = NoRecovery
  /\ IF rec.by = None
     THEN mode' = "up" /\ UNCHANGED <<pc, loc>>
     ELSE Return(rec.by) /\ UNCHANGED mode
  /\ UNCHANGED <<storeVars, journalVars, physVars, lost, stop, archiveUp,
                 grace, budget>>

\* open serves requests only if recovery reported no error; the RECOVER
\* request returns its report either way.
RecEnd ==
  /\ RecAt("end")
  /\ rpc' = "off"
  /\ rec' = NoRecovery
  /\ IF rec.by = None
     THEN mode' = (IF rec.err THEN "down" ELSE "up") /\ UNCHANGED <<pc, loc>>
     ELSE Return(rec.by) /\ UNCHANGED mode
  /\ UNCHANGED <<storeVars, journalVars, physVars, lost, stop, archiveUp,
                 grace, budget>>

\* A statement fails.  A failed release is ignored; an error inside an entry
\* leaves the entry open; any other ends the reconciliation.
EntryPCs == {"rb_obj", "rb_row", "rb_arch", "rb_repair", "rb_resv", "rb_att",
             "rb_jrnl", "cm_row", "cm_arch", "cm_obj", "cm_resv", "cm_att",
             "cm_jrnl"}

RecStoreError ==
  /\ mode # "down"
  /\ rpc \in FaultSites \cap (RecoveryPCs \ {"off", "next"})
  /\ budget.store > 0
  /\ budget' = [budget EXCEPT !.store = @ - 1]
  /\ CASE rpc \in EntryPCs -> EntryFails
       [] rpc = "cm_release" -> rpc' = "cm_row" /\ rec' = [rec EXCEPT !.cur = None]
       [] OTHER -> RecoveryFails
  /\ UNCHANGED <<storeVars, journalVars, physVars, procVars, workVars>>

\* repair_dedup_counts fails half way: some rows are exact, others untouched.
RecRepairPartial ==
  /\ mode # "down"
  /\ rpc \in FaultSites \cap {"rb_repair", "repair"}
  /\ RowsHaveParents
  /\ budget.store > 0
  /\ budget' = [budget EXCEPT !.store = @ - 1]
  /\ \E P \in SUBSET Payloads :
       dedup' = [p \in Payloads |-> IF p \in P THEN ExactCounts[p] ELSE dedup[p]]
  /\ IF rpc = "repair" THEN RecoveryFails ELSE EntryFails
  /\ UNCHANGED <<object, rows, arch, edges, journalVars, physVars, procVars,
                 workVars>>

\* A backend does not answer the existence query of an entry.
RecBackendError(a) ==
  /\ RecAt("next")
  /\ a \in rec.queue
  /\ phase[a] \notin PrePhysical
  /\ ~NoPhysicalWork(a)
  /\ budget.backend > 0
  /\ budget' = [budget EXCEPT !.backend = @ - 1]
  /\ rec' = [rec EXCEPT !.queue = @ \ {a}, !.err = TRUE]
  /\ UNCHANGED <<storeVars, journalVars, physVars, procVars, workVars, rpc>>

RecoveryStep ==
  \/ RecScan
  \/ \E a \in Attempts : RecNext(a)
  \/ RecQueueEmpty
  \/ RollbackObject
  \/ \E p \in Payloads : RollbackRow(p)
  \/ \E p \in Payloads : RollbackRowConflict(p)
  \/ RollbackRowsDone \/ RollbackArchive \/ RollbackRepair
  \/ RollbackReservation \/ RollbackAttempt \/ RollbackJournal
  \/ \E p \in Payloads : RecCommitRow(p)
  \/ RecCommitRelease \/ RecCommitRowsDone \/ RecCommitArchive
  \/ RecCommitObject
  \/ RecCommitReservation \/ RecCommitAttempt \/ RecCommitJournal
  \/ RecExpire \/ RecRepair \/ RecLineage \/ RecEnd
  \/ RecStoreError \/ RecRepairPartial
  \/ \E a \in Attempts : RecBackendError(a)
==============================================================================
