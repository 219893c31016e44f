----------------------------- MODULE ReclaimOps ------------------------------
(***************************************************************************)
(* Coordinator::reclaim: reserve, validate, execute, verify and commit one *)
(* object, with abort_reclaim before the physical phase and                *)
(* indeterminate_reclaim after it.                                         *)
(***************************************************************************)
EXTENDS CoordinatorState

\* Mutant: the copies that go are not subtracted.
SurvivesBefore(o, e) == ValidCopies(o) >= MinValidCopies[Class[o]]

\* What check_survivability leaves of an object when the copies in the
\* journal entry go (both subtractions saturate at zero).
Survives(o, e) ==
  LET gone == Cardinality(ValidRows(e.rows)) + e.arch
      remain == IF ValidCopies(o) > gone THEN ValidCopies(o) - gone ELSE 0
  IN  remain >= MinValidCopies[Class[o]]

\* Mutant: open reservations do not exclude each other.
NoReservationSeen(o) == FALSE

HasOpenReservation(o) ==
  \E a \in Attempts : entry[a].obj = o /\ resv[a] = "OPEN"

\* The prechecks that do not depend on time or policy.  The policy verdict,
\* the force flag and the retention deadline can only refuse; a refusal
\* changes nothing, so the request simply does not happen.
ReclaimAllowed(o) ==
  /\ o \in Registered
  /\ object[o].flags = {}
  /\ object[o].state \notin {"RECLAIMED", "FAILED"}
  /\ ~HasOpenReservation(o)
  /\ ReclaimRouteLegal(object[o].state, Class[o], o \in Reconstructible)

\* begin_object_operation up to create_reclaim_reservation.  Nothing another
\* worker does to this object can come between: the object guard is held, and
\* an invalidation of a row by verify may as well come after.
Reserve(w, o, a) ==
  LET e == [obj |-> o, prior |-> object[o], rows |-> rows[o], arch |-> arch[o]]
  IN  /\ "reclaim" \in Requests
      /\ pc[w] = "idle"
      /\ phase[a] = "NONE"
      /\ Enter(w)
      /\ ObjectOperationAllowed(o)
      /\ ReclaimAllowed(o)
      /\ Survives(o, e)
      /\ phase' = [phase EXCEPT ![a] = "RESERVED"]
      /\ entry' = [entry EXCEPT ![a] = e]
      /\ resv' = [resv EXCEPT ![a] = "OPEN"]
      /\ attempt' = [attempt EXCEPT ![a] = "OPEN"]
      /\ Goto(w, CASE object[o].state \in StagedStates -> "recomputable"
                   [] object[o].state = "RECLAIM_PENDING" -> "validate"
                   [] OTHER -> "pending")
      /\ SetLocals(w, [loc[w] EXCEPT !.obj = o, !.att = a, !.seen = object[o],
                                     !.todo = Rows(o)])
      /\ UNCHANGED <<storeVars, plan, physVars, procVars, recVars, budget>>

\* apply_transition writes the row as read, in its new state.
Transition(w, from, to, next) ==
  /\ pc[w] = from
  /\ Enter(w)
  /\ UpdateObject(loc[w].obj, [loc[w].seen EXCEPT !.state = to])
  /\ Goto(w, next)
  /\ UNCHANGED <<rows, dedup, arch, edges, journalVars, physVars, procVars,
                 loc, recVars, budget>>

ToRecomputable(w) == Transition(w, "recomputable", "RECOMPUTABLE", "pending")
ToPending(w) == Transition(w, "pending", "RECLAIM_PENDING", "validate")

ReclaimValidated(w) ==
  LET a == loc[w].att
  IN  /\ pc[w] = "validate"
      /\ Enter(w)
      /\ UpdateJournalPhase(a, "VALIDATED")
      /\ Goto(w, "survive")
      /\ UNCHANGED <<storeVars, entry, plan, resv, attempt, physVars, procVars,
                     loc, recVars, budget>>

Survive(w) ==
  /\ pc[w] = "survive"
  /\ Enter(w)
  /\ Goto(w, IF Survives(loc[w].obj, entry[loc[w].att]) THEN "graph" ELSE "abort")
  /\ UNCHANGED <<storeVars, journalVars, physVars, procVars, loc, recVars,
                 budget>>

\* check_dependencies reads the graph first ...
ReadGraph(w) ==
  /\ pc[w] = "graph"
  /\ Enter(w)
  /\ Goto(w, "deps")
  /\ SetLocals(w, [loc[w] EXCEPT !.kin = edges])
  /\ UNCHANGED <<storeVars, journalVars, physVars, procVars, recVars, budget>>

\* ... and the objects later.
CheckDependencies(w) ==
  LET safe == DependencySafe(loc[w].kin, loc[w].obj, Reconstructible, Dead)
  IN  /\ pc[w] = "deps"
      /\ Enter(w)
      /\ Goto(w, IF safe THEN "lock" ELSE "abort")
      /\ SetLocals(w, [loc[w] EXCEPT !.kin = {}])
      /\ UNCHANGED <<storeVars, journalVars, physVars, procVars, recVars, budget>>

ReclaimLock(w) ==
  /\ pc[w] = "lock"
  /\ MayPoll
  /\ PayloadsFree(loc[w].todo)
  /\ Goto(w, "plan")
  /\ SetLocals(w, [loc[w] EXCEPT !.held = loc[w].todo])
  /\ UNCHANGED <<storeVars, journalVars, physVars, procVars, grace, recVars,
                 budget>>

\* Mutant: the timeout is returned without an abort.
ReclaimLockUnaborted(w) ==
  /\ pc[w] = "lock"
  /\ PollFails(loc[w].todo)
  /\ Return(w)
  /\ UNCHANGED <<storeVars, journalVars, physVars, procVars, grace, recVars,
                 budget>>

ReclaimLockFails(w) ==
  /\ pc[w] = "lock"
  /\ PollFails(loc[w].todo)
  /\ Goto(w, "abort")
  /\ UNCHANGED <<storeVars, journalVars, physVars, procVars, grace, loc,
                 recVars, budget>>

\* Mutant: the reference count is not asked.
AllReferences(P) == P

\* The payloads of which the object holds the only reference.
LastReferences(P) == {p \in P : dedup[p] = 1}

\* A row without a dedup row is an error that leaves reclaim unaborted.
PlanDeletions(w) ==
  /\ pc[w] = "plan"
  /\ Enter(w)
  /\ IF \A p \in loc[w].todo : dedup[p] > 0
     THEN /\ Goto(w, "start")
          /\ SetLocals(w, [loc[w] EXCEPT !.todo = LastReferences(loc[w].todo)])
     ELSE Return(w)
  /\ UNCHANGED <<storeVars, journalVars, physVars, procVars, recVars, budget>>

\* start_journal_physical: plan and phase in one statement.
StartPhysical(w) ==
  LET a == loc[w].att
  IN  /\ pc[w] = "start"
      /\ Enter(w)
      /\ phase[a] = "VALIDATED"
      /\ phase' = [phase EXCEPT ![a] = "PHYSICAL_STARTED"]
      /\ plan' = [plan EXCEPT ![a] = loc[w].todo]
      /\ Goto(w, "delete")
      /\ UNCHANGED <<storeVars, entry, resv, attempt, physVars, procVars, loc,
                     recVars, budget>>

DeletePayload(w, p) ==
  /\ pc[w] = "delete"
  /\ Enter(w)
  /\ p \in loc[w].todo
  /\ blob' = [blob EXCEPT ![p] = "absent"]
  /\ SetLocals(w, [loc[w] EXCEPT !.todo = @ \ {p}])
  /\ UNCHANGED <<storeVars, journalVars, ablob, procVars, pc, recVars, budget>>

DeletedAll(w) ==
  /\ pc[w] = "delete"
  /\ mode = "up"
  /\ loc[w].todo = {}
  /\ Goto(w, IF entry[loc[w].att].arch > 0 THEN "arch" ELSE "check")
  /\ UNCHANGED <<storeVars, journalVars, physVars, procVars, grace, loc,
                 recVars, budget>>

\* The archive backend is looked up without the authority check.
DeleteArchive(w) ==
  /\ pc[w] = "arch"
  /\ mode = "up"
  /\ LockFree
  /\ archiveUp
  /\ ablob' = [ablob EXCEPT ![loc[w].obj] = FALSE]
  /\ Goto(w, "check")
  /\ UNCHANGED <<storeVars, journalVars, blob, procVars, grace, loc, recVars,
                 budget>>

\* No such backend: the error leaves reclaim without indeterminate_reclaim.
ArchiveMissing(w) ==
  /\ pc[w] = "arch"
  /\ mode = "up"
  /\ LockFree
  /\ ~archiveUp
  /\ Return(w)
  /\ UNCHANGED <<storeVars, journalVars, physVars, procVars, grace, recVars,
                 budget>>

\* payload_exists for every payload of the plan, if there is one.
CheckDeleted(w) ==
  LET a == loc[w].att
      gone == \A p \in plan[a] : blob[p] = "absent"
  IN  /\ pc[w] = "check"
      /\ IF plan[a] = {} THEN mode = "up" /\ UNCHANGED grace ELSE Enter(w)
      /\ Goto(w, IF gone THEN "done" ELSE "fence")
      /\ UNCHANGED <<storeVars, journalVars, physVars, procVars, loc, recVars,
                     budget>>

PhysicalDone(w) ==
  LET a == loc[w].att
  IN  /\ pc[w] = "done"
      /\ Enter(w)
      /\ UpdateJournalPhase(a, "PHYSICAL_DONE")
      /\ Goto(w, "commit")
      /\ UNCHANGED <<storeVars, entry, plan, resv, attempt, physVars, procVars,
                     loc, recVars, budget>>

-----------------------------------------------------------------------------
(* The commit closure. *)

EntryRows(a) == {p \in Payloads : entry[a].rows[p] # "none"}

\* Mutant: only the rows of deleted payloads are released.
CommitPlannedOnly(w) ==
  /\ pc[w] = "commit"
  /\ Enter(w)
  /\ Goto(w, "cmt_row")
  /\ SetLocals(w, [loc[w] EXCEPT !.todo = plan[loc[w].att]])
  /\ UNCHANGED <<storeVars, journalVars, physVars, procVars, recVars, budget>>

CommitEnter(w) ==
  /\ pc[w] = "commit"
  /\ Enter(w)
  /\ Goto(w, "cmt_row")
  /\ SetLocals(w, [loc[w] EXCEPT !.todo = EntryRows(loc[w].att)])
  /\ UNCHANGED <<storeVars, journalVars, physVars, procVars, recVars, budget>>

CommitRow(w, p) ==
  /\ pc[w] = "cmt_row"
  /\ Within(w)
  /\ p \in loc[w].todo
  /\ DeleteReplica(loc[w].obj, p)
  /\ Goto(w, "cmt_release")
  /\ SetLocals(w, [loc[w] EXCEPT !.todo = @ \ {p}, !.cur = p])
  /\ UNCHANGED <<object, dedup, arch, edges, journalVars, physVars, procVars,
                 recVars, budget>>

CommitRelease(w) ==
  LET p == loc[w].cur
  IN  /\ pc[w] = "cmt_release"
      /\ Within(w)
      /\ DedupRelease(p)
      /\ Goto(w, IF dedup[p] > 0 THEN "cmt_row" ELSE "fence")
      /\ SetLocals(w, [loc[w] EXCEPT !.cur = None])
      /\ UNCHANGED <<object, rows, arch, edges, journalVars, physVars, procVars,
                     recVars, budget>>

CommitRowsDone(w) ==
  /\ pc[w] = "cmt_row"
  /\ Within(w)
  /\ loc[w].todo = {}
  /\ Goto(w, IF arch[loc[w].obj] > 0 THEN "cmt_arch" ELSE "cmt_obj")
  /\ UNCHANGED <<storeVars, journalVars, physVars, procVars, loc, recVars,
                 budget>>

CommitArchive(w) ==
  LET o == loc[w].obj
  IN  /\ pc[w] = "cmt_arch"
      /\ Within(w)
      /\ DeleteArchiveRow(o)
      /\ Goto(w, IF arch[o] > 1 THEN "cmt_arch" ELSE "cmt_obj")
      /\ UNCHANGED <<object, rows, dedup, edges, journalVars, physVars,
                     procVars, loc, recVars, budget>>

CommitObject(w) ==
  /\ pc[w] = "cmt_obj"
  /\ Within(w)
  /\ UpdateObject(loc[w].obj, [loc[w].seen EXCEPT !.state = "RECLAIMED"])
  /\ Goto(w, "cmt_resv")
  /\ UNCHANGED <<rows, dedup, arch, edges, journalVars, physVars, procVars,
                 loc, recVars, budget>>

\* update_reservation and update_attempt succeed only on OPEN rows; the rows
\* of a running attempt are, because nobody else writes them.
CloseReservation(w, from, status, next) ==
  LET a == loc[w].att
  IN  /\ pc[w] = from
      /\ Within(w)
      /\ resv[a] = "OPEN"
      /\ resv' = [resv EXCEPT ![a] = status]
      /\ Goto(w, next)
      /\ UNCHANGED <<storeVars, phase, entry, plan, attempt, physVars, procVars,
                     loc, recVars, budget>>

CloseAttempt(w, from, status, next) ==
  LET a == loc[w].att
  IN  /\ pc[w] = from
      /\ Within(w)
      /\ attempt[a] = "OPEN"
      /\ attempt' = [attempt EXCEPT ![a] = status]
      /\ Goto(w, next)
      /\ UNCHANGED <<storeVars, phase, entry, plan, resv, physVars, procVars,
                     loc, recVars, budget>>

CloseJournal(w, from, status) ==
  LET a == loc[w].att
  IN  /\ pc[w] = from
      /\ Within(w)
      /\ UpdateJournalPhase(a, status)
      /\ Return(w)
      /\ UNCHANGED <<storeVars, entry, plan, resv, attempt, physVars, procVars,
                     recVars, budget>>

CommitReservation(w) == CloseReservation(w, "cmt_resv", "COMMITTED", "cmt_att")
CommitAttempt(w) == CloseAttempt(w, "cmt_att", "COMMITTED", "cmt_jrnl")
CommitJournal(w) == CloseJournal(w, "cmt_jrnl", "COMMITTED")

-----------------------------------------------------------------------------
\* Mutant: authority is given up, but nothing stops the process.
IndeterminateRuns(w) ==
  /\ pc[w] = "fence"
  /\ mode = "up"
  /\ LockFree
  /\ Fence(w)
  /\ Return(w)
  /\ UNCHANGED <<storeVars, journalVars, physVars, mode, stop, archiveUp,
                 recVars, budget>>

(* indeterminate_reclaim: record the failure if the store lets it, give up *)
(* authority and shut down; the journal stays open for recovery.            *)
Indeterminate(w) ==
  /\ pc[w] = "fence"
  /\ mode = "up"
  /\ LockFree
  /\ Fence(w)
  /\ stop' = TRUE
  /\ Return(w)
  /\ UNCHANGED <<storeVars, journalVars, physVars, mode, archiveUp, recVars,
                 budget>>

\* Mutant: the journal is finalized without reservation and attempt.
AbortJournalOnly(w) ==
  /\ pc[w] = "abort"
  /\ Enter(w)
  /\ UpdateObject(loc[w].obj, loc[w].seen)
  /\ Goto(w, "abort_jrnl")
  /\ UNCHANGED <<rows, dedup, arch, edges, journalVars, physVars, procVars,
                 loc, recVars, budget>>

(* abort_reclaim, one closure: object, reservation, attempt, journal. *)
AbortObject(w) ==
  /\ pc[w] = "abort"
  /\ Enter(w)
  /\ UpdateObject(loc[w].obj, loc[w].seen)
  /\ Goto(w, "abort_resv")
  /\ UNCHANGED <<rows, dedup, arch, edges, journalVars, physVars, procVars,
                 loc, recVars, budget>>

AbortReservation(w) == CloseReservation(w, "abort_resv", "RELEASED", "abort_att")
AbortAttempt(w) == CloseAttempt(w, "abort_att", "ROLLED_BACK", "abort_jrnl")
AbortJournal(w) == CloseJournal(w, "abort_jrnl", "ROLLED_BACK")

ReclaimStep(w) ==
  \/ ToRecomputable(w) \/ ToPending(w) \/ ReclaimValidated(w) \/ Survive(w)
  \/ ReadGraph(w) \/ CheckDependencies(w)
  \/ ReclaimLock(w) \/ ReclaimLockFails(w) \/ PlanDeletions(w)
  \/ StartPhysical(w)
  \/ \E p \in Payloads : DeletePayload(w, p)
  \/ DeletedAll(w) \/ DeleteArchive(w) \/ ArchiveMissing(w)
  \/ CheckDeleted(w) \/ PhysicalDone(w)
  \/ CommitEnter(w)
  \/ \E p \in Payloads : CommitRow(w, p)
  \/ CommitRelease(w) \/ CommitRowsDone(w) \/ CommitArchive(w)
  \/ CommitObject(w) \/ CommitReservation(w) \/ CommitAttempt(w)
  \/ CommitJournal(w)
  \/ Indeterminate(w)
  \/ AbortObject(w) \/ AbortReservation(w) \/ AbortAttempt(w)
  \/ AbortJournal(w)
==============================================================================
