------------------------------ MODULE Authority ------------------------------
(***************************************************************************)
(* The claim on the store: the coordinator row, the processes that claim    *)
(* it, keep it fresh, are taken over and give it back, and the threads       *)
(* whose closures ask for it.                                                *)
(*                                                                           *)
(* A process is one boot.  The clock appears as what it decides: the row is  *)
(* fresh, stale or released (last_seen_ms = 0).  What the closures do is in   *)
(* Coordinator; here one is admitted, executes statements and ends.           *)
(***************************************************************************)
EXTENDS Naturals, FiniteSets

CONSTANTS
  Coords,       \* coordinator processes
  Threads,      \* connection threads of a process
  None,
  MaxPauses,    \* a live holder is not scheduled for the stale window
  MaxFaults     \* processes killed, statements and listeners that fail

ASSUME AuthorityAssumption ==
  /\ None \notin Coords
  /\ {MaxPauses, MaxFaults} \subseteq Nat

VARIABLES
  row,        \* table coordinator: [epoch, holder, seen]
  mode,       \* where open, or run_coordinator, is
  mine,       \* epoch
  lost,       \* authority_lost
  hb,         \* the heartbeat thread runs
  thr,        \* the connection threads
  admitted,   \* history: epoch of the last closure with_inner let in
  budget      \* what the environment may still do

vars == <<row, mode, mine, lost, hb, thr, admitted, budget>>

-----------------------------------------------------------------------------
Modes == {"new", "claimed", "recovering", "reconciled", "opened", "up",
          "draining", "closing", "released", "gone"}
\* Modes in which connection threads run.
Serving == {"up", "draining", "closing", "released"}
\* No request; between two closures of one; authority_lost loaded; inside a
\* closure; its statements executed.
ThreadPCs == {"idle", "busy", "loaded", "inside", "applied"}
InClosure == {"inside", "applied"}

(* Type invariant: the claim row, the processes and their threads keep their  *)
(* shape.                                                                    *)
TypeOK ==
  /\ row \in [epoch : Nat, holder : Coords \cup {None},
              seen : {"fresh", "stale", "released"}]
  /\ mode \in [Coords -> Modes]
  /\ mine \in [Coords -> Nat]
  /\ lost \in [Coords -> BOOLEAN]
  /\ hb \in [Coords -> BOOLEAN]
  /\ thr \in [Coords -> [Threads -> ThreadPCs]]
  /\ admitted \in Nat
  /\ budget \in [pause : Nat, fault : Nat]

Init ==
  /\ row = [epoch |-> 0, holder |-> None, seen |-> "released"]
  /\ mode = [c \in Coords |-> "new"]
  /\ mine = [c \in Coords |-> 0]
  /\ lost = [c \in Coords |-> FALSE]
  /\ hb = [c \in Coords |-> FALSE]
  /\ thr = [c \in Coords |-> [t \in Threads |-> "idle"]]
  /\ admitted = 0
  /\ budget = [pause |-> MaxPauses, fault |-> MaxFaults]

Spend(k) == budget[k] > 0 /\ budget' = [budget EXCEPT ![k] = @ - 1]

-----------------------------------------------------------------------------
(* The row. *)

\* coordinator_heartbeat and release_coordinator match process, boot, epoch.
Holds(c) == row.holder = c /\ row.epoch = mine[c]

\* coordinator_heartbeat keeps the later time, so it also makes a released
\* claim fresh again.
Refresh == row' = [row EXCEPT !.seen = "fresh"]

\* release_coordinator: no effect for a process that was taken over.
GiveBack(c) == row' = IF Holds(c) THEN [row EXCEPT !.seen = "released"] ELSE row

Beating(c) == hb[c] /\ mode[c] \in {"opened", "up", "draining", "closing"}

\* The stale window passes without a heartbeat.
GoesStale ==
  /\ row.seen = "fresh"
  /\ row' = [row EXCEPT !.seen = "stale"]
  /\ IF \E c \in Coords : row.holder = c /\ Beating(c)
       THEN Spend("pause") ELSE UNCHANGED budget
  /\ UNCHANGED <<mode, mine, lost, hb, thr, admitted>>

\* Mutant: only a claim that was given back may be taken.
ClaimableReleased == row.epoch = 0 \/ row.seen = "released"

\* claim_coordinator refuses while the claim is fresh, and the process exits.
Claimable == row.epoch = 0 \/ row.seen # "fresh"

-----------------------------------------------------------------------------
(* Coordinator::open. *)

Claim(c) ==
  /\ mode[c] = "new"
  /\ Claimable
  /\ row' = [epoch |-> row.epoch + 1, holder |-> c, seen |-> "fresh"]
  /\ mine' = [mine EXCEPT ![c] = row.epoch + 1]
  /\ mode' = [mode EXCEPT ![c] = "claimed"]
  /\ UNCHANGED <<lost, hb, thr, admitted, budget>>

\* begin_recovery is the first to ask for authority.
RecoverBegin(c) ==
  /\ mode[c] = "claimed"
  /\ Holds(c)
  /\ Refresh
  /\ admitted' = mine[c]
  /\ mode' = [mode EXCEPT ![c] = "recovering"]
  /\ UNCHANGED <<mine, lost, hb, thr, budget>>

\* reconcile_store writes the store without asking again who holds it.
RecoverStatement(c) ==
  /\ mode[c] = "recovering"
  /\ mode' = [mode EXCEPT ![c] = "reconciled"]
  /\ UNCHANGED <<row, mine, lost, hb, thr, admitted, budget>>

\* payload_exists, on the way, goes through with_inner; an error is noted and
\* the next journal entry is taken up all the same.
RecoverAsks(c) ==
  /\ mode[c] \in {"recovering", "reconciled"}
  /\ ~lost[c]
  /\ \/ Holds(c) /\ Refresh /\ admitted' = mine[c] /\ UNCHANGED lost
     \/ ~Holds(c) /\ lost' = [lost EXCEPT ![c] = TRUE] /\ UNCHANGED <<row, admitted>>
  /\ UNCHANGED <<mode, mine, hb, thr, budget>>

\* So does the audit entry that ends it; only then does the heartbeat thread
\* start.
RecoverDone(c) ==
  /\ mode[c] = "reconciled"
  /\ ~lost[c] /\ Holds(c)
  /\ Refresh
  /\ admitted' = mine[c]
  /\ mode' = [mode EXCEPT ![c] = "opened"]
  /\ hb' = [hb EXCEPT ![c] = TRUE]
  /\ UNCHANGED <<mine, lost, thr, budget>>

\* Taken over meanwhile: open fails and gives nothing back.
RecoverFenced(c) ==
  /\ mode[c] \in {"claimed", "reconciled"}
  /\ lost[c] \/ ~Holds(c)
  /\ lost' = [lost EXCEPT ![c] = TRUE]
  /\ mode' = [mode EXCEPT ![c] = "gone"]
  /\ UNCHANGED <<row, mine, hb, thr, admitted, budget>>

\* open or Server::new fails after the claim: Drop gives it back, unless
\* authority was lost.
StartFails(c) ==
  /\ mode[c] \in {"claimed", "reconciled", "opened"}
  /\ Spend("fault")
  /\ IF lost[c] THEN UNCHANGED row ELSE GiveBack(c)
  /\ mode' = [mode EXCEPT ![c] = "gone"]
  /\ hb' = [hb EXCEPT ![c] = FALSE]
  /\ UNCHANGED <<mine, lost, thr, admitted>>

\* Server::new binds the listener and the server starts.
Bind(c) ==
  /\ mode[c] = "opened"
  /\ mode' = [mode EXCEPT ![c] = "up"]
  /\ UNCHANGED <<row, mine, lost, hb, thr, admitted, budget>>

-----------------------------------------------------------------------------
(* The heartbeat thread. *)

Heartbeat(c) ==
  /\ Beating(c)
  /\ Holds(c)
  /\ Refresh
  /\ UNCHANGED <<mode, mine, lost, hb, thr, admitted, budget>>

\* It ends when the row is no longer its own, or cannot be written.
HeartbeatRejected(c) ==
  /\ Beating(c)
  /\ IF Holds(c) THEN Spend("fault") ELSE UNCHANGED budget
  /\ lost' = [lost EXCEPT ![c] = TRUE]
  /\ hb' = [hb EXCEPT ![c] = FALSE]
  /\ UNCHANGED <<row, mode, mine, thr, admitted>>

-----------------------------------------------------------------------------
(* The end of run_coordinator. *)

LockFree(c) == \A t \in Threads : thr[c][t] \notin InClosure

\* Ctrl-C or a SHUTDOWN request: no new connections, the rest drains.  The
\* request also ends the heartbeat thread; after Ctrl-C it beats until release.
Drain(c) ==
  /\ mode[c] = "up"
  /\ mode' = [mode EXCEPT ![c] = "draining"]
  /\ hb' \in {hb, [hb EXCEPT ![c] = FALSE]}
  /\ UNCHANGED <<row, mine, lost, thr, admitted, budget>>

\* retire_stale_nodes, once the server has drained or its deadline has passed.
RetireAtEnd(c) ==
  /\ mode[c] = "draining"
  /\ LockFree(c)
  /\ mode' = [mode EXCEPT ![c] = "closing"]
  /\ \/ lost[c] /\ UNCHANGED <<row, lost, admitted>>
     \/ ~lost[c] /\ Holds(c) /\ Refresh /\ admitted' = mine[c] /\ UNCHANGED lost
     \/ ~lost[c] /\ ~Holds(c) /\ lost' = [lost EXCEPT ![c] = TRUE]
          /\ UNCHANGED <<row, admitted>>
  /\ UNCHANGED <<mine, hb, thr, budget>>

\* Mutant: the lock is not taken.
ReleaseUnlocked(c) ==
  /\ mode[c] = "closing"
  /\ GiveBack(c)
  /\ lost' = [lost EXCEPT ![c] = Holds(c) \/ @]
  /\ hb' = [hb EXCEPT ![c] = FALSE]
  /\ mode' = [mode EXCEPT ![c] = "released"]
  /\ UNCHANGED <<mine, thr, admitted, budget>>

\* Mutant: a process that was taken over does not get past its release.
ReleaseIfHeld(c) ==
  /\ mode[c] = "closing"
  /\ LockFree(c)
  /\ Holds(c)
  /\ GiveBack(c)
  /\ lost' = [lost EXCEPT ![c] = TRUE]
  /\ hb' = [hb EXCEPT ![c] = FALSE]
  /\ mode' = [mode EXCEPT ![c] = "released"]
  /\ UNCHANGED <<mine, thr, admitted, budget>>

\* release: the heartbeat thread is stopped, the row is given back under the
\* lock, then authority_lost is set.
Release(c) ==
  /\ mode[c] = "closing"
  /\ LockFree(c)
  /\ GiveBack(c)
  /\ lost' = [lost EXCEPT ![c] = Holds(c) \/ @]
  /\ hb' = [hb EXCEPT ![c] = FALSE]
  /\ mode' = [mode EXCEPT ![c] = "released"]
  /\ UNCHANGED <<mine, thr, admitted, budget>>

\* The process ends, with its threads.
Ends(c) ==
  /\ mode' = [mode EXCEPT ![c] = "gone"]
  /\ hb' = [hb EXCEPT ![c] = FALSE]
  /\ thr' = [thr EXCEPT ![c] = [t \in Threads |-> "idle"]]
  /\ UNCHANGED <<row, mine, lost, admitted>>

Exit(c) == mode[c] = "released" /\ Ends(c) /\ UNCHANGED budget

Crash(c) == mode[c] \notin {"new", "gone"} /\ Ends(c) /\ Spend("fault")

-----------------------------------------------------------------------------
(* with_inner. *)

SetThread(c, t, l) == thr' = [thr EXCEPT ![c][t] = l]

\* Requests come in until the server is shut down; one may take many closures.
Request(c, t) ==
  /\ mode[c] = "up"
  /\ thr[c][t] = "idle"
  /\ SetThread(c, t, "busy")
  /\ UNCHANGED <<row, mode, mine, lost, hb, admitted, budget>>

RequestEnds(c, t) ==
  /\ mode[c] \in Serving
  /\ thr[c][t] = "busy"
  /\ SetThread(c, t, "idle")
  /\ UNCHANGED <<row, mode, mine, lost, hb, admitted, budget>>

\* authority_lost is loaded first.
Load(c, t) ==
  /\ mode[c] \in Serving
  /\ thr[c][t] = "busy"
  /\ ~lost[c]
  /\ SetThread(c, t, "loaded")
  /\ UNCHANGED <<row, mode, mine, lost, hb, admitted, budget>>

\* Mutant: the lock is enough.
EnterUnchecked(c, t) ==
  /\ mode[c] \in Serving
  /\ thr[c][t] = "loaded"
  /\ LockFree(c)
  /\ Refresh
  /\ admitted' = mine[c]
  /\ SetThread(c, t, "inside")
  /\ UNCHANGED <<mode, mine, lost, hb, budget>>

\* Then the lock is taken, and the heartbeat decides.
Enter(c, t) ==
  /\ mode[c] \in Serving
  /\ thr[c][t] = "loaded"
  /\ LockFree(c)
  /\ Holds(c)
  /\ Refresh
  /\ admitted' = mine[c]
  /\ SetThread(c, t, "inside")
  /\ UNCHANGED <<mode, mine, lost, hb, budget>>

Rejected(c, t) ==
  /\ mode[c] \in Serving
  /\ thr[c][t] = "loaded"
  /\ LockFree(c)
  /\ IF Holds(c) THEN Spend("fault") ELSE UNCHANGED budget
  /\ lost' = [lost EXCEPT ![c] = TRUE]
  /\ SetThread(c, t, "busy")
  /\ UNCHANGED <<row, mode, mine, hb, admitted>>

\* Nothing is asked again before, or between, the statements of the closure.
Statement(c, t) ==
  /\ mode[c] \in Serving
  /\ thr[c][t] = "inside"
  /\ SetThread(c, t, "applied")
  /\ UNCHANGED <<row, mode, mine, lost, hb, admitted, budget>>

Leave(c, t) ==
  /\ mode[c] \in Serving
  /\ thr[c][t] = "applied"
  /\ SetThread(c, t, "busy")
  /\ UNCHANGED <<row, mode, mine, lost, hb, admitted, budget>>

-----------------------------------------------------------------------------
Opening(c) ==
  \/ Claim(c) \/ RecoverBegin(c) \/ RecoverStatement(c) \/ RecoverAsks(c)
  \/ RecoverDone(c) \/ RecoverFenced(c) \/ StartFails(c) \/ Bind(c)

Closing(c) ==
  \/ Drain(c) \/ RetireAtEnd(c) \/ Release(c) \/ Exit(c) \/ Crash(c)

WithInner(c, t) ==
  \/ Request(c, t) \/ RequestEnds(c, t)
  \/ Load(c, t) \/ Enter(c, t) \/ Rejected(c, t)
  \/ Statement(c, t) \/ Leave(c, t)

Next ==
  \/ GoesStale
  \/ \E c \in Coords :
       \/ Opening(c) \/ Heartbeat(c) \/ HeartbeatRejected(c) \/ Closing(c)
       \/ \E t \in Threads : WithInner(c, t)

Spec == Init /\ [][Next]_vars

\* The clock moves on, a process that exits on a refused claim is started
\* again, open, run_coordinator and closures go on, and a handler, which asks
\* for the lock a bounded number of times, ends.
ProcessGoesOn(c) ==
  \/ Claim(c) \/ RecoverBegin(c) \/ RecoverStatement(c) \/ RecoverDone(c)
  \/ RecoverFenced(c) \/ Bind(c) \/ RetireAtEnd(c) \/ Release(c) \/ Exit(c)

ThreadGoesOn(c, t) ==
  \/ Enter(c, t)
  \/ Rejected(c, t) /\ ~Holds(c)
  \/ Statement(c, t) \/ Leave(c, t)

Fairness ==
  /\ WF_vars(UNCHANGED budget /\ GoesStale)
  /\ \A c \in Coords :
       /\ WF_vars(ProcessGoesOn(c))
       /\ \A t \in Threads :
            WF_vars(ThreadGoesOn(c, t)) /\ SF_vars(RequestEnds(c, t))

FairSpec == Spec /\ Fairness

-----------------------------------------------------------------------------
(* Properties. *)

Abstract == INSTANCE Fencing WITH term <- row.epoch, grant <- mine

(* The claim implements Fencing: an epoch is granted to one process only, and *)
(* with_inner admits a closure only for the process with the latest epoch,    *)
(* whatever pauses, takeovers, releases and late heartbeats come between.     *)
FencingImplemented == Abstract!FencingSpec

(* A claim that was given back is not given back under a running closure: no  *)
(* thread of the holder is between two statements while it is released, so a  *)
(* process that takes it over after a clean shutdown finds no half of one.    *)
ReleasedBetweenClosures ==
  row.seen = "released" =>
    \A c \in Coords : row.holder = c => LockFree(c)

(* A coordinator that was taken over winds down: from then on the threads it  *)
(* has inside closures only get fewer, and at most one of its closures, the   *)
(* one that was admitted before, still executes statements.                   *)
SupersededWindsDown ==
  [][\A c \in Coords : mine[c] > 0 /\ row.epoch > mine[c] =>
       \A t \in Threads : thr'[c][t] \in InClosure => thr[c][t] \in InClosure]_vars

(* A crashed coordinator does not lock the store: when no process runs and    *)
(* one is started, it gets its claim, at the latest after the stale window.   *)
AuthorityRecovers ==
  (\E c \in Coords : mode[c] = "new")
    /\ (\A c \in Coords : mode[c] \in {"new", "gone"})
    ~> (\E c \in Coords : mode[c] \notin {"new", "gone"})

(* A process that was told to stop ends, and gives its claim back or has lost *)
(* it: neither a closure under way nor a takeover keeps it from exiting.      *)
ShutdownEnds ==
  \A c \in Coords : mode[c] = "draining" ~> mode[c] = "gone"
==============================================================================
