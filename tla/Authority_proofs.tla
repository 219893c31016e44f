-------------------------- MODULE Authority_proofs --------------------------
(***************************************************************************)
(* What Authority promises for any number of processes, threads, pauses and *)
(* faults: its claim implements Fencing, a process that was taken over winds *)
(* down, and a claim is only given back between closures.                    *)
(***************************************************************************)
EXTENDS Authority, TLAPS

\* No process has an epoch above the row's, and it has one once it has claimed.
EpochsGranted ==
  \A c \in Coords :
    /\ mine[c] <= row.epoch
    /\ mode[c] = "new" <=> mine[c] = 0

\* Threads only work in processes that serve.
ThreadsServe ==
  \A c \in Coords :
    mode[c] \notin Serving => \A t \in Threads : thr[c][t] = "idle"

\* A step that Fencing allows.
FencingAllows == [Abstract!FencingNext]_(Abstract!fencingVars)

\* A step that takes no thread of a superseded process into a closure.
WindsDown ==
  \A c \in Coords : mine[c] > 0 /\ row.epoch > mine[c] =>
    \A t \in Threads : thr'[c][t] \in InClosure => thr[c][t] \in InClosure

Inv == TypeOK /\ EpochsGranted /\ ThreadsServe /\ ReleasedBetweenClosures

-----------------------------------------------------------------------------
(* The state a store without a claim starts from satisfies the invariant.    *)
LEMMA InitInv == Init => Inv
  BY AuthorityAssumption DEF Init, Inv, TypeOK, Modes, ThreadPCs, EpochsGranted,
     ThreadsServe, ReleasedBetweenClosures, LockFree, InClosure

(* Every step of open, run_coordinator, the heartbeat thread and with_inner  *)
(* keeps the types.                                                          *)
LEMMA TypeStep ==
  ASSUME TypeOK, [Next]_vars
  PROVE  TypeOK'
<1>1. CASE GoesStale
  BY <1>1 DEF GoesStale, Beating, Spend, TypeOK, Modes, ThreadPCs
<1>2. ASSUME NEW c \in Coords, Claim(c) PROVE TypeOK'
  BY <1>2 DEF Claim, Claimable, TypeOK, Modes, ThreadPCs
<1>3. ASSUME NEW c \in Coords, RecoverBegin(c) PROVE TypeOK'
  BY <1>3 DEF RecoverBegin, Holds, Refresh, TypeOK, Modes, ThreadPCs
<1>4. ASSUME NEW c \in Coords, RecoverStatement(c) PROVE TypeOK'
  BY <1>4 DEF RecoverStatement, TypeOK, Modes, ThreadPCs
<1>5. ASSUME NEW c \in Coords, RecoverAsks(c) PROVE TypeOK'
  <2>1. row' \in [epoch : Nat, holder : Coords \cup {None},
                 seen : {"fresh", "stale", "released"}]
    BY <1>5 DEF RecoverAsks, Refresh, TypeOK
  <2>2. lost' \in [Coords -> BOOLEAN]
    BY <1>5 DEF RecoverAsks, TypeOK
  <2>3. admitted' \in Nat
    BY <1>5 DEF RecoverAsks, TypeOK
  <2> QED
    BY <1>5, <2>1, <2>2, <2>3 DEF RecoverAsks, TypeOK, Modes, ThreadPCs
<1>6. ASSUME NEW c \in Coords, RecoverDone(c) PROVE TypeOK'
  BY <1>6 DEF RecoverDone, Holds, Refresh, TypeOK, Modes, ThreadPCs
<1>7. ASSUME NEW c \in Coords, RecoverFenced(c) PROVE TypeOK'
  BY <1>7 DEF RecoverFenced, Holds, TypeOK, Modes, ThreadPCs
<1>8. ASSUME NEW c \in Coords, StartFails(c) PROVE TypeOK'
  <2>1. row' \in [epoch : Nat, holder : Coords \cup {None},
                 seen : {"fresh", "stale", "released"}]
    BY <1>8 DEF StartFails, GiveBack, TypeOK
  <2>2. lost' \in [Coords -> BOOLEAN]
    BY <1>8 DEF StartFails, TypeOK
  <2>3. admitted' \in Nat
    BY <1>8 DEF StartFails, TypeOK
  <2> QED
    BY <1>8, <2>1, <2>2, <2>3 DEF StartFails, Spend, TypeOK, Modes, ThreadPCs
<1>9. ASSUME NEW c \in Coords, Bind(c) PROVE TypeOK'
  BY <1>9 DEF Bind, TypeOK, Modes, ThreadPCs
<1>10. ASSUME NEW c \in Coords, Heartbeat(c) PROVE TypeOK'
  BY <1>10 DEF Heartbeat, Beating, Holds, Refresh, TypeOK, Modes, ThreadPCs
<1>11. ASSUME NEW c \in Coords, HeartbeatRejected(c) PROVE TypeOK'
  BY <1>11 DEF HeartbeatRejected, Beating, Holds, Spend, TypeOK, Modes,
     ThreadPCs
<1>12. ASSUME NEW c \in Coords, Drain(c) PROVE TypeOK'
  BY <1>12 DEF Drain, TypeOK, Modes, ThreadPCs
<1>13. ASSUME NEW c \in Coords, RetireAtEnd(c) PROVE TypeOK'
  <2>1. row' \in [epoch : Nat, holder : Coords \cup {None},
                 seen : {"fresh", "stale", "released"}]
    BY <1>13 DEF RetireAtEnd, Refresh, TypeOK
  <2>2. lost' \in [Coords -> BOOLEAN]
    BY <1>13 DEF RetireAtEnd, TypeOK
  <2>3. admitted' \in Nat
    BY <1>13 DEF RetireAtEnd, TypeOK
  <2> QED
    BY <1>13, <2>1, <2>2, <2>3 DEF RetireAtEnd, TypeOK, Modes, ThreadPCs
<1>14. ASSUME NEW c \in Coords, Release(c) PROVE TypeOK'
  BY <1>14 DEF Release, LockFree, GiveBack, Holds, TypeOK, Modes, ThreadPCs
<1>15. ASSUME NEW c \in Coords, Exit(c) PROVE TypeOK'
  BY <1>15 DEF Exit, Ends, TypeOK, Modes, ThreadPCs
<1>16. ASSUME NEW c \in Coords, Crash(c) PROVE TypeOK'
  BY <1>16 DEF Crash, Ends, Spend, TypeOK, Modes, ThreadPCs
<1>17. ASSUME NEW c \in Coords, NEW t \in Threads, Request(c, t)
      PROVE  TypeOK'
  BY <1>17 DEF Request, SetThread, TypeOK, Modes, ThreadPCs
<1>18. ASSUME NEW c \in Coords, NEW t \in Threads, RequestEnds(c, t)
      PROVE  TypeOK'
  BY <1>18 DEF RequestEnds, SetThread, TypeOK, Modes, ThreadPCs
<1>19. ASSUME NEW c \in Coords, NEW t \in Threads, Load(c, t)
      PROVE  TypeOK'
  BY <1>19 DEF Load, SetThread, TypeOK, Modes, ThreadPCs
<1>20. ASSUME NEW c \in Coords, NEW t \in Threads, Enter(c, t)
      PROVE  TypeOK'
  BY <1>20 DEF Enter, LockFree, Holds, Refresh, SetThread, TypeOK, Modes,
     ThreadPCs
<1>21. ASSUME NEW c \in Coords, NEW t \in Threads, Rejected(c, t)
      PROVE  TypeOK'
  BY <1>21 DEF Rejected, LockFree, Holds, Spend, SetThread, TypeOK, Modes,
     ThreadPCs
<1>22. ASSUME NEW c \in Coords, NEW t \in Threads, Statement(c, t)
      PROVE  TypeOK'
  BY <1>22 DEF Statement, SetThread, TypeOK, Modes, ThreadPCs
<1>23. ASSUME NEW c \in Coords, NEW t \in Threads, Leave(c, t)
      PROVE  TypeOK'
  BY <1>23 DEF Leave, SetThread, TypeOK, Modes, ThreadPCs
<1>24. CASE UNCHANGED vars
  BY <1>24 DEF vars, TypeOK, Modes, ThreadPCs
<1> QED
  BY <1>1, <1>2, <1>3, <1>4, <1>5, <1>6, <1>7, <1>8, <1>9, <1>10, <1>11,
     <1>12, <1>13, <1>14, <1>15, <1>16, <1>17, <1>18, <1>19, <1>20, <1>21,
     <1>22, <1>23, <1>24 DEF Next, Opening, Closing, WithInner

(* Only a claim moves epochs, and it hands out the next one.                 *)
LEMMA GrantedStep ==
  ASSUME TypeOK, EpochsGranted, [Next]_vars
  PROVE  EpochsGranted'
<1>1. CASE GoesStale
  BY <1>1 DEF GoesStale, Beating, Spend, TypeOK, Modes, ThreadPCs, EpochsGranted
<1>2. ASSUME NEW c \in Coords, Claim(c) PROVE EpochsGranted'
  BY <1>2 DEF Claim, Claimable, TypeOK, Modes, ThreadPCs, EpochsGranted
<1>3. ASSUME NEW c \in Coords, RecoverBegin(c) PROVE EpochsGranted'
  BY <1>3 DEF RecoverBegin, Holds, Refresh, TypeOK, Modes, ThreadPCs,
     EpochsGranted
<1>4. ASSUME NEW c \in Coords, RecoverStatement(c) PROVE EpochsGranted'
  BY <1>4 DEF RecoverStatement, TypeOK, Modes, ThreadPCs, EpochsGranted
<1>5. ASSUME NEW c \in Coords, RecoverAsks(c) PROVE EpochsGranted'
  BY <1>5 DEF RecoverAsks, Holds, Refresh, TypeOK, Modes, ThreadPCs,
     EpochsGranted
<1>6. ASSUME NEW c \in Coords, RecoverDone(c) PROVE EpochsGranted'
  BY <1>6 DEF RecoverDone, Holds, Refresh, TypeOK, Modes, ThreadPCs,
     EpochsGranted
<1>7. ASSUME NEW c \in Coords, RecoverFenced(c) PROVE EpochsGranted'
  BY <1>7 DEF RecoverFenced, Holds, TypeOK, Modes, ThreadPCs, EpochsGranted
<1>8. ASSUME NEW c \in Coords, StartFails(c) PROVE EpochsGranted'
  BY <1>8 DEF StartFails, Spend, GiveBack, Holds, TypeOK, Modes, ThreadPCs,
     EpochsGranted
<1>9. ASSUME NEW c \in Coords, Bind(c) PROVE EpochsGranted'
  BY <1>9 DEF Bind, TypeOK, Modes, ThreadPCs, EpochsGranted
<1>10. ASSUME NEW c \in Coords, Heartbeat(c) PROVE EpochsGranted'
  BY <1>10 DEF Heartbeat, Beating, Holds, Refresh, TypeOK, Modes, ThreadPCs,
     EpochsGranted
<1>11. ASSUME NEW c \in Coords, HeartbeatRejected(c) PROVE EpochsGranted'
  BY <1>11 DEF HeartbeatRejected, Beating, Holds, Spend, TypeOK, Modes,
     ThreadPCs, EpochsGranted
<1>12. ASSUME NEW c \in Coords, Drain(c) PROVE EpochsGranted'
  BY <1>12 DEF Drain, TypeOK, Modes, ThreadPCs, EpochsGranted
<1>13. ASSUME NEW c \in Coords, RetireAtEnd(c) PROVE EpochsGranted'
  BY <1>13 DEF RetireAtEnd, LockFree, Holds, Refresh, TypeOK, Modes,
     ThreadPCs, EpochsGranted
<1>14. ASSUME NEW c \in Coords, Release(c) PROVE EpochsGranted'
  BY <1>14 DEF Release, LockFree, GiveBack, Holds, TypeOK, Modes, ThreadPCs,
     EpochsGranted
<1>15. ASSUME NEW c \in Coords, Exit(c) PROVE EpochsGranted'
  BY <1>15 DEF Exit, Ends, TypeOK, Modes, ThreadPCs, EpochsGranted
<1>16. ASSUME NEW c \in Coords, Crash(c) PROVE EpochsGranted'
  BY <1>16 DEF Crash, Ends, Spend, TypeOK, Modes, ThreadPCs, EpochsGranted
<1>17. ASSUME NEW c \in Coords, NEW t \in Threads, Request(c, t)
      PROVE  EpochsGranted'
  BY <1>17 DEF Request, SetThread, TypeOK, Modes, ThreadPCs, EpochsGranted
<1>18. ASSUME NEW c \in Coords, NEW t \in Threads, RequestEnds(c, t)
      PROVE  EpochsGranted'
  BY <1>18 DEF RequestEnds, SetThread, TypeOK, Modes, ThreadPCs, EpochsGranted
<1>19. ASSUME NEW c \in Coords, NEW t \in Threads, Load(c, t)
      PROVE  EpochsGranted'
  BY <1>19 DEF Load, SetThread, TypeOK, Modes, ThreadPCs, EpochsGranted
<1>20. ASSUME NEW c \in Coords, NEW t \in Threads, Enter(c, t)
      PROVE  EpochsGranted'
  BY <1>20 DEF Enter, LockFree, Holds, Refresh, SetThread, TypeOK, Modes,
     ThreadPCs, EpochsGranted
<1>21. ASSUME NEW c \in Coords, NEW t \in Threads, Rejected(c, t)
      PROVE  EpochsGranted'
  BY <1>21 DEF Rejected, LockFree, Holds, Spend, SetThread, TypeOK, Modes,
     ThreadPCs, EpochsGranted
<1>22. ASSUME NEW c \in Coords, NEW t \in Threads, Statement(c, t)
      PROVE  EpochsGranted'
  BY <1>22 DEF Statement, SetThread, TypeOK, Modes, ThreadPCs, EpochsGranted
<1>23. ASSUME NEW c \in Coords, NEW t \in Threads, Leave(c, t)
      PROVE  EpochsGranted'
  BY <1>23 DEF Leave, SetThread, TypeOK, Modes, ThreadPCs, EpochsGranted
<1>24. CASE UNCHANGED vars
  BY <1>24 DEF vars, TypeOK, Modes, ThreadPCs, EpochsGranted
<1> QED
  BY <1>1, <1>2, <1>3, <1>4, <1>5, <1>6, <1>7, <1>8, <1>9, <1>10, <1>11,
     <1>12, <1>13, <1>14, <1>15, <1>16, <1>17, <1>18, <1>19, <1>20, <1>21,
     <1>22, <1>23, <1>24 DEF Next, Opening, Closing, WithInner

(* Threads begin to work while the server runs and end with the process.     *)
LEMMA ServeStep ==
  ASSUME TypeOK, ThreadsServe, [Next]_vars
  PROVE  ThreadsServe'
<1>1. CASE GoesStale
  BY <1>1 DEF GoesStale, Beating, Spend, TypeOK, Modes, ThreadPCs,
     ThreadsServe, Serving
<1>2. ASSUME NEW c \in Coords, Claim(c) PROVE ThreadsServe'
  BY <1>2 DEF Claim, Claimable, TypeOK, Modes, ThreadPCs, ThreadsServe, Serving
<1>3. ASSUME NEW c \in Coords, RecoverBegin(c) PROVE ThreadsServe'
  BY <1>3 DEF RecoverBegin, Holds, Refresh, TypeOK, Modes, ThreadPCs,
     ThreadsServe, Serving
<1>4. ASSUME NEW c \in Coords, RecoverStatement(c) PROVE ThreadsServe'
  BY <1>4 DEF RecoverStatement, TypeOK, Modes, ThreadPCs, ThreadsServe, Serving
<1>5. ASSUME NEW c \in Coords, RecoverAsks(c) PROVE ThreadsServe'
  BY <1>5 DEF RecoverAsks, Holds, Refresh, TypeOK, Modes, ThreadPCs,
     ThreadsServe, Serving
<1>6. ASSUME NEW c \in Coords, RecoverDone(c) PROVE ThreadsServe'
  BY <1>6 DEF RecoverDone, Holds, Refresh, TypeOK, Modes, ThreadPCs,
     ThreadsServe, Serving
<1>7. ASSUME NEW c \in Coords, RecoverFenced(c) PROVE ThreadsServe'
  BY <1>7 DEF RecoverFenced, Holds, TypeOK, Modes, ThreadPCs, ThreadsServe,
     Serving
<1>8. ASSUME NEW c \in Coords, StartFails(c) PROVE ThreadsServe'
  BY <1>8 DEF StartFails, Spend, GiveBack, Holds, TypeOK, Modes, ThreadPCs,
     ThreadsServe, Serving
<1>9. ASSUME NEW c \in Coords, Bind(c) PROVE ThreadsServe'
  BY <1>9 DEF Bind, TypeOK, Modes, ThreadPCs, ThreadsServe, Serving
<1>10. ASSUME NEW c \in Coords, Heartbeat(c) PROVE ThreadsServe'
  BY <1>10 DEF Heartbeat, Beating, Holds, Refresh, TypeOK, Modes, ThreadPCs,
     ThreadsServe, Serving
<1>11. ASSUME NEW c \in Coords, HeartbeatRejected(c) PROVE ThreadsServe'
  BY <1>11 DEF HeartbeatRejected, Beating, Holds, Spend, TypeOK, Modes,
     ThreadPCs, ThreadsServe, Serving
<1>12. ASSUME NEW c \in Coords, Drain(c) PROVE ThreadsServe'
  BY <1>12 DEF Drain, TypeOK, Modes, ThreadPCs, ThreadsServe, Serving
<1>13. ASSUME NEW c \in Coords, RetireAtEnd(c) PROVE ThreadsServe'
  BY <1>13 DEF RetireAtEnd, LockFree, Holds, Refresh, TypeOK, Modes,
     ThreadPCs, ThreadsServe, Serving
<1>14. ASSUME NEW c \in Coords, Release(c) PROVE ThreadsServe'
  BY <1>14 DEF Release, LockFree, GiveBack, Holds, TypeOK, Modes, ThreadPCs,
     ThreadsServe, Serving
<1>15. ASSUME NEW c \in Coords, Exit(c) PROVE ThreadsServe'
  BY <1>15 DEF Exit, Ends, TypeOK, Modes, ThreadPCs, ThreadsServe, Serving
<1>16. ASSUME NEW c \in Coords, Crash(c) PROVE ThreadsServe'
  BY <1>16 DEF Crash, Ends, Spend, TypeOK, Modes, ThreadPCs, ThreadsServe,
     Serving
<1>17. ASSUME NEW c \in Coords, NEW t \in Threads, Request(c, t)
      PROVE  ThreadsServe'
  BY <1>17 DEF Request, SetThread, TypeOK, Modes, ThreadPCs, ThreadsServe,
     Serving
<1>18. ASSUME NEW c \in Coords, NEW t \in Threads, RequestEnds(c, t)
      PROVE  ThreadsServe'
  BY <1>18 DEF RequestEnds, SetThread, TypeOK, Modes, ThreadPCs,
     ThreadsServe, Serving
<1>19. ASSUME NEW c \in Coords, NEW t \in Threads, Load(c, t)
      PROVE  ThreadsServe'
  BY <1>19 DEF Load, SetThread, TypeOK, Modes, ThreadPCs, ThreadsServe, Serving
<1>20. ASSUME NEW c \in Coords, NEW t \in Threads, Enter(c, t)
      PROVE  ThreadsServe'
  BY <1>20 DEF Enter, LockFree, Holds, Refresh, SetThread, TypeOK, Modes,
     ThreadPCs, ThreadsServe, Serving
<1>21. ASSUME NEW c \in Coords, NEW t \in Threads, Rejected(c, t)
      PROVE  ThreadsServe'
  BY <1>21 DEF Rejected, LockFree, Holds, Spend, SetThread, TypeOK, Modes,
     ThreadPCs, ThreadsServe, Serving
<1>22. ASSUME NEW c \in Coords, NEW t \in Threads, Statement(c, t)
      PROVE  ThreadsServe'
  BY <1>22 DEF Statement, SetThread, TypeOK, Modes, ThreadPCs, ThreadsServe,
     Serving
<1>23. ASSUME NEW c \in Coords, NEW t \in Threads, Leave(c, t)
      PROVE  ThreadsServe'
  BY <1>23 DEF Leave, SetThread, TypeOK, Modes, ThreadPCs, ThreadsServe, Serving
<1>24. CASE UNCHANGED vars
  BY <1>24 DEF vars, TypeOK, Modes, ThreadPCs, ThreadsServe, Serving
<1> QED
  BY <1>1, <1>2, <1>3, <1>4, <1>5, <1>6, <1>7, <1>8, <1>9, <1>10, <1>11,
     <1>12, <1>13, <1>14, <1>15, <1>16, <1>17, <1>18, <1>19, <1>20, <1>21,
     <1>22, <1>23, <1>24 DEF Next, Opening, Closing, WithInner

(* Whoever gives the claim back has the lock, or has no threads yet; whoever *)
(* enters a closure makes the claim fresh.                                   *)
LEMMA ReleasedStep ==
  ASSUME TypeOK, ThreadsServe, ReleasedBetweenClosures, [Next]_vars
  PROVE  ReleasedBetweenClosures'
<1>1. CASE GoesStale
  BY <1>1 DEF GoesStale, Beating, Spend, TypeOK, Modes, ThreadPCs,
     ReleasedBetweenClosures, LockFree, InClosure
<1>2. ASSUME NEW c \in Coords, Claim(c) PROVE ReleasedBetweenClosures'
  BY <1>2 DEF Claim, Claimable, TypeOK, Modes, ThreadPCs,
     ReleasedBetweenClosures, LockFree, InClosure
<1>3. ASSUME NEW c \in Coords, RecoverBegin(c) PROVE ReleasedBetweenClosures'
  BY <1>3 DEF RecoverBegin, Holds, Refresh, TypeOK, Modes, ThreadPCs,
     ReleasedBetweenClosures, LockFree, InClosure
<1>4. ASSUME NEW c \in Coords, RecoverStatement(c) PROVE ReleasedBetweenClosures'
  BY <1>4 DEF RecoverStatement, TypeOK, Modes, ThreadPCs,
     ReleasedBetweenClosures, LockFree, InClosure
<1>5. ASSUME NEW c \in Coords, RecoverAsks(c) PROVE ReleasedBetweenClosures'
  BY <1>5 DEF RecoverAsks, Holds, Refresh, TypeOK, Modes, ThreadPCs,
     ReleasedBetweenClosures, LockFree, InClosure
<1>6. ASSUME NEW c \in Coords, RecoverDone(c) PROVE ReleasedBetweenClosures'
  BY <1>6 DEF RecoverDone, Holds, Refresh, TypeOK, Modes, ThreadPCs,
     ReleasedBetweenClosures, LockFree, InClosure
<1>7. ASSUME NEW c \in Coords, RecoverFenced(c) PROVE ReleasedBetweenClosures'
  BY <1>7 DEF RecoverFenced, Holds, TypeOK, Modes, ThreadPCs,
     ReleasedBetweenClosures, LockFree, InClosure
<1>8. ASSUME NEW c \in Coords, StartFails(c) PROVE ReleasedBetweenClosures'
  BY <1>8 DEF StartFails, Spend, GiveBack, Holds, TypeOK, Modes, ThreadPCs,
     ReleasedBetweenClosures, LockFree, InClosure, ThreadsServe, Serving
<1>9. ASSUME NEW c \in Coords, Bind(c) PROVE ReleasedBetweenClosures'
  BY <1>9 DEF Bind, TypeOK, Modes, ThreadPCs, ReleasedBetweenClosures,
     LockFree, InClosure
<1>10. ASSUME NEW c \in Coords, Heartbeat(c) PROVE ReleasedBetweenClosures'
  BY <1>10 DEF Heartbeat, Beating, Holds, Refresh, TypeOK, Modes, ThreadPCs,
     ReleasedBetweenClosures, LockFree, InClosure
<1>11. ASSUME NEW c \in Coords, HeartbeatRejected(c)
      PROVE  ReleasedBetweenClosures'
  BY <1>11 DEF HeartbeatRejected, Beating, Holds, Spend, TypeOK, Modes,
     ThreadPCs, ReleasedBetweenClosures, LockFree, InClosure
<1>12. ASSUME NEW c \in Coords, Drain(c) PROVE ReleasedBetweenClosures'
  BY <1>12 DEF Drain, TypeOK, Modes, ThreadPCs, ReleasedBetweenClosures,
     LockFree, InClosure
<1>13. ASSUME NEW c \in Coords, RetireAtEnd(c) PROVE ReleasedBetweenClosures'
  BY <1>13 DEF RetireAtEnd, LockFree, Holds, Refresh, TypeOK, Modes,
     ThreadPCs, ReleasedBetweenClosures, LockFree, InClosure
<1>14. ASSUME NEW c \in Coords, Release(c) PROVE ReleasedBetweenClosures'
  BY <1>14 DEF Release, LockFree, GiveBack, Holds, TypeOK, Modes, ThreadPCs,
     ReleasedBetweenClosures, LockFree, InClosure
<1>15. ASSUME NEW c \in Coords, Exit(c) PROVE ReleasedBetweenClosures'
  BY <1>15 DEF Exit, Ends, TypeOK, Modes, ThreadPCs,
     ReleasedBetweenClosures, LockFree, InClosure
<1>16. ASSUME NEW c \in Coords, Crash(c) PROVE ReleasedBetweenClosures'
  BY <1>16 DEF Crash, Ends, Spend, TypeOK, Modes, ThreadPCs,
     ReleasedBetweenClosures, LockFree, InClosure
<1>17. ASSUME NEW c \in Coords, NEW t \in Threads, Request(c, t)
      PROVE  ReleasedBetweenClosures'
  BY <1>17 DEF Request, SetThread, TypeOK, Modes, ThreadPCs,
     ReleasedBetweenClosures, LockFree, InClosure
<1>18. ASSUME NEW c \in Coords, NEW t \in Threads, RequestEnds(c, t)
      PROVE  ReleasedBetweenClosures'
  BY <1>18 DEF RequestEnds, SetThread, TypeOK, Modes, ThreadPCs,
     ReleasedBetweenClosures, LockFree, InClosure
<1>19. ASSUME NEW c \in Coords, NEW t \in Threads, Load(c, t)
      PROVE  ReleasedBetweenClosures'
  BY <1>19 DEF Load, SetThread, TypeOK, Modes, ThreadPCs,
     ReleasedBetweenClosures, LockFree, InClosure
<1>20. ASSUME NEW c \in Coords, NEW t \in Threads, Enter(c, t)
      PROVE  ReleasedBetweenClosures'
  BY <1>20 DEF Enter, LockFree, Holds, Refresh, SetThread, TypeOK, Modes,
     ThreadPCs, ReleasedBetweenClosures, LockFree, InClosure
<1>21. ASSUME NEW c \in Coords, NEW t \in Threads, Rejected(c, t)
      PROVE  ReleasedBetweenClosures'
  BY <1>21 DEF Rejected, LockFree, Holds, Spend, SetThread, TypeOK, Modes,
     ThreadPCs, ReleasedBetweenClosures, LockFree, InClosure
<1>22. ASSUME NEW c \in Coords, NEW t \in Threads, Statement(c, t)
      PROVE  ReleasedBetweenClosures'
  BY <1>22 DEF Statement, SetThread, TypeOK, Modes, ThreadPCs,
     ReleasedBetweenClosures, LockFree, InClosure
<1>23. ASSUME NEW c \in Coords, NEW t \in Threads, Leave(c, t)
      PROVE  ReleasedBetweenClosures'
  BY <1>23 DEF Leave, SetThread, TypeOK, Modes, ThreadPCs,
     ReleasedBetweenClosures, LockFree, InClosure
<1>24. CASE UNCHANGED vars
  BY <1>24 DEF vars, TypeOK, Modes, ThreadPCs, ReleasedBetweenClosures,
     LockFree, InClosure
<1> QED
  BY <1>1, <1>2, <1>3, <1>4, <1>5, <1>6, <1>7, <1>8, <1>9, <1>10, <1>11,
     <1>12, <1>13, <1>14, <1>15, <1>16, <1>17, <1>18, <1>19, <1>20, <1>21,
     <1>22, <1>23, <1>24 DEF Next, Opening, Closing, WithInner

(* Every step keeps the invariant.                                           *)
LEMMA InvStep == Inv /\ [Next]_vars => Inv'
  BY TypeStep, GrantedStep, ServeStep, ReleasedStep DEF Inv

(* So it always holds.                                                       *)
LEMMA InvAlways == Spec => []Inv
  BY InitInv, InvStep, PTL DEF Spec

(* Every variable of the claim, its processes and their threads keeps its type. *)
THEOREM AuthorityTypeCorrect == Spec => []TypeOK
  BY InvAlways, PTL DEF Inv

(* release_coordinator never runs between two statements of a closure of the  *)
(* holder: release takes the lock, and Drop after a failed start has no        *)
(* threads to wait for.                                                        *)
THEOREM ReleaseBetweenClosures == Spec => []ReleasedBetweenClosures
  BY InvAlways, PTL DEF Inv

(* A step of the claim is a step of Fencing or leaves it alone: a claim is a *)
(* Grant, a heartbeat with a closure or an audit entry after it an Admit.    *)
LEMMA FencingStep ==
  ASSUME TypeOK, EpochsGranted, [Next]_vars
  PROVE  FencingAllows
<1>1. CASE GoesStale
  BY <1>1 DEF GoesStale, Beating, Spend, FencingAllows,
     Abstract!fencingVars, TypeOK
<1>2. ASSUME NEW c \in Coords, Claim(c) PROVE FencingAllows
  BY <1>2 DEF Claim, Claimable, FencingAllows, Abstract!fencingVars, TypeOK,
     EpochsGranted, Abstract!FencingNext, Abstract!Grant
<1>3. ASSUME NEW c \in Coords, RecoverBegin(c) PROVE FencingAllows
  BY <1>3 DEF RecoverBegin, Holds, Refresh, FencingAllows,
     Abstract!fencingVars, TypeOK, EpochsGranted, Abstract!FencingNext,
     Abstract!Admit, Abstract!Current
<1>4. ASSUME NEW c \in Coords, RecoverStatement(c) PROVE FencingAllows
  BY <1>4 DEF RecoverStatement, FencingAllows, Abstract!fencingVars
<1>5. ASSUME NEW c \in Coords, RecoverAsks(c) PROVE FencingAllows
  BY <1>5 DEF RecoverAsks, Holds, Refresh, FencingAllows,
     Abstract!fencingVars, TypeOK, EpochsGranted, Abstract!FencingNext,
     Abstract!Admit, Abstract!Current
<1>6. ASSUME NEW c \in Coords, RecoverDone(c) PROVE FencingAllows
  BY <1>6 DEF RecoverDone, Holds, Refresh, FencingAllows,
     Abstract!fencingVars, TypeOK, EpochsGranted, Abstract!FencingNext,
     Abstract!Admit, Abstract!Current
<1>7. ASSUME NEW c \in Coords, RecoverFenced(c) PROVE FencingAllows
  BY <1>7 DEF RecoverFenced, Holds, FencingAllows, Abstract!fencingVars
<1>8. ASSUME NEW c \in Coords, StartFails(c) PROVE FencingAllows
  BY <1>8 DEF StartFails, Spend, GiveBack, Holds, FencingAllows,
     Abstract!fencingVars, TypeOK
<1>9. ASSUME NEW c \in Coords, Bind(c) PROVE FencingAllows
  BY <1>9 DEF Bind, FencingAllows, Abstract!fencingVars
<1>10. ASSUME NEW c \in Coords, Heartbeat(c) PROVE FencingAllows
  BY <1>10 DEF Heartbeat, Beating, Holds, Refresh, FencingAllows,
     Abstract!fencingVars, TypeOK
<1>11. ASSUME NEW c \in Coords, HeartbeatRejected(c) PROVE FencingAllows
  BY <1>11 DEF HeartbeatRejected, Beating, Holds, Spend, FencingAllows,
     Abstract!fencingVars
<1>12. ASSUME NEW c \in Coords, Drain(c) PROVE FencingAllows
  BY <1>12 DEF Drain, FencingAllows, Abstract!fencingVars
<1>13. ASSUME NEW c \in Coords, RetireAtEnd(c) PROVE FencingAllows
  BY <1>13 DEF RetireAtEnd, LockFree, Holds, Refresh, FencingAllows,
     Abstract!fencingVars, TypeOK, EpochsGranted, Abstract!FencingNext,
     Abstract!Admit, Abstract!Current
<1>14. ASSUME NEW c \in Coords, Release(c) PROVE FencingAllows
  BY <1>14 DEF Release, LockFree, GiveBack, Holds, FencingAllows,
     Abstract!fencingVars, TypeOK
<1>15. ASSUME NEW c \in Coords, Exit(c) PROVE FencingAllows
  BY <1>15 DEF Exit, Ends, FencingAllows, Abstract!fencingVars
<1>16. ASSUME NEW c \in Coords, Crash(c) PROVE FencingAllows
  BY <1>16 DEF Crash, Ends, Spend, FencingAllows, Abstract!fencingVars
<1>17. ASSUME NEW c \in Coords, NEW t \in Threads, Request(c, t)
      PROVE  FencingAllows
  BY <1>17 DEF Request, SetThread, FencingAllows, Abstract!fencingVars
<1>18. ASSUME NEW c \in Coords, NEW t \in Threads, RequestEnds(c, t)
      PROVE  FencingAllows
  BY <1>18 DEF RequestEnds, SetThread, FencingAllows, Abstract!fencingVars
<1>19. ASSUME NEW c \in Coords, NEW t \in Threads, Load(c, t)
      PROVE  FencingAllows
  BY <1>19 DEF Load, SetThread, FencingAllows, Abstract!fencingVars
<1>20. ASSUME NEW c \in Coords, NEW t \in Threads, Enter(c, t)
      PROVE  FencingAllows
  BY <1>20 DEF Enter, LockFree, Holds, Refresh, SetThread, FencingAllows,
     Abstract!fencingVars, TypeOK, EpochsGranted, Abstract!FencingNext,
     Abstract!Admit, Abstract!Current, Serving
<1>21. ASSUME NEW c \in Coords, NEW t \in Threads, Rejected(c, t)
      PROVE  FencingAllows
  BY <1>21 DEF Rejected, LockFree, Holds, Spend, SetThread, FencingAllows,
     Abstract!fencingVars
<1>22. ASSUME NEW c \in Coords, NEW t \in Threads, Statement(c, t)
      PROVE  FencingAllows
  BY <1>22 DEF Statement, SetThread, FencingAllows, Abstract!fencingVars
<1>23. ASSUME NEW c \in Coords, NEW t \in Threads, Leave(c, t)
      PROVE  FencingAllows
  BY <1>23 DEF Leave, SetThread, FencingAllows, Abstract!fencingVars
<1>24. CASE UNCHANGED vars
  BY <1>24 DEF vars, FencingAllows, Abstract!fencingVars
<1> QED
  BY <1>1, <1>2, <1>3, <1>4, <1>5, <1>6, <1>7, <1>8, <1>9, <1>10, <1>11,
     <1>12, <1>13, <1>14, <1>15, <1>16, <1>17, <1>18, <1>19, <1>20, <1>21,
     <1>22, <1>23, <1>24 DEF Next, Opening, Closing, WithInner

(* The claim on the store, with its clock, pauses, late heartbeats, releases  *)
(* and failed starts, implements Fencing: each epoch goes to one process, and  *)
(* with_inner lets a closure in only for the process with the latest epoch.    *)
THEOREM ClaimImplementsFencing == Spec => FencingImplemented
<1>1. Init => Abstract!FencingInit
  BY DEF Init, Abstract!FencingInit
<1>2. Inv /\ [Next]_vars => [Abstract!FencingNext]_(Abstract!fencingVars)
  BY FencingStep DEF Inv, FencingAllows
<1> QED
  BY <1>1, <1>2, InvAlways, PTL DEF Spec, FencingImplemented, Abstract!FencingSpec

(* Only Enter takes a thread into a closure, and it found the row its own.   *)
LEMMA WindStep ==
  ASSUME TypeOK, [Next]_vars
  PROVE  WindsDown
<1>1. CASE GoesStale
  BY <1>1 DEF GoesStale, Beating, Spend, TypeOK, InClosure, WindsDown
<1>2. ASSUME NEW c \in Coords, Claim(c) PROVE WindsDown
  BY <1>2 DEF Claim, Claimable, TypeOK, InClosure, WindsDown
<1>3. ASSUME NEW c \in Coords, RecoverBegin(c) PROVE WindsDown
  BY <1>3 DEF RecoverBegin, Holds, Refresh, TypeOK, InClosure, WindsDown
<1>4. ASSUME NEW c \in Coords, RecoverStatement(c) PROVE WindsDown
  BY <1>4 DEF RecoverStatement, TypeOK, InClosure, WindsDown
<1>5. ASSUME NEW c \in Coords, RecoverAsks(c) PROVE WindsDown
  BY <1>5 DEF RecoverAsks, Holds, Refresh, TypeOK, InClosure, WindsDown
<1>6. ASSUME NEW c \in Coords, RecoverDone(c) PROVE WindsDown
  BY <1>6 DEF RecoverDone, Holds, Refresh, TypeOK, InClosure, WindsDown
<1>7. ASSUME NEW c \in Coords, RecoverFenced(c) PROVE WindsDown
  BY <1>7 DEF RecoverFenced, Holds, TypeOK, InClosure, WindsDown
<1>8. ASSUME NEW c \in Coords, StartFails(c) PROVE WindsDown
  BY <1>8 DEF StartFails, Spend, GiveBack, Holds, TypeOK, InClosure, WindsDown
<1>9. ASSUME NEW c \in Coords, Bind(c) PROVE WindsDown
  BY <1>9 DEF Bind, TypeOK, InClosure, WindsDown
<1>10. ASSUME NEW c \in Coords, Heartbeat(c) PROVE WindsDown
  BY <1>10 DEF Heartbeat, Beating, Holds, Refresh, TypeOK, InClosure, WindsDown
<1>11. ASSUME NEW c \in Coords, HeartbeatRejected(c) PROVE WindsDown
  BY <1>11 DEF HeartbeatRejected, Beating, Holds, Spend, TypeOK, InClosure,
     WindsDown
<1>12. ASSUME NEW c \in Coords, Drain(c) PROVE WindsDown
  BY <1>12 DEF Drain, TypeOK, InClosure, WindsDown
<1>13. ASSUME NEW c \in Coords, RetireAtEnd(c) PROVE WindsDown
  BY <1>13 DEF RetireAtEnd, LockFree, Holds, Refresh, TypeOK, InClosure,
     WindsDown
<1>14. ASSUME NEW c \in Coords, Release(c) PROVE WindsDown
  BY <1>14 DEF Release, LockFree, GiveBack, Holds, TypeOK, InClosure, WindsDown
<1>15. ASSUME NEW c \in Coords, Exit(c) PROVE WindsDown
  BY <1>15 DEF Exit, Ends, TypeOK, InClosure, WindsDown
<1>16. ASSUME NEW c \in Coords, Crash(c) PROVE WindsDown
  BY <1>16 DEF Crash, Ends, Spend, TypeOK, InClosure, WindsDown
<1>17. ASSUME NEW c \in Coords, NEW t \in Threads, Request(c, t)
      PROVE  WindsDown
  BY <1>17 DEF Request, SetThread, TypeOK, InClosure, WindsDown
<1>18. ASSUME NEW c \in Coords, NEW t \in Threads, RequestEnds(c, t)
      PROVE  WindsDown
  BY <1>18 DEF RequestEnds, SetThread, TypeOK, InClosure, WindsDown
<1>19. ASSUME NEW c \in Coords, NEW t \in Threads, Load(c, t)
      PROVE  WindsDown
  BY <1>19 DEF Load, SetThread, TypeOK, InClosure, WindsDown
<1>20. ASSUME NEW c \in Coords, NEW t \in Threads, Enter(c, t)
      PROVE  WindsDown
  BY <1>20 DEF Enter, LockFree, Holds, Refresh, SetThread, TypeOK,
     InClosure, WindsDown
<1>21. ASSUME NEW c \in Coords, NEW t \in Threads, Rejected(c, t)
      PROVE  WindsDown
  BY <1>21 DEF Rejected, LockFree, Holds, Spend, SetThread, TypeOK,
     InClosure, WindsDown
<1>22. ASSUME NEW c \in Coords, NEW t \in Threads, Statement(c, t)
      PROVE  WindsDown
  BY <1>22 DEF Statement, SetThread, TypeOK, InClosure, WindsDown
<1>23. ASSUME NEW c \in Coords, NEW t \in Threads, Leave(c, t)
      PROVE  WindsDown
  BY <1>23 DEF Leave, SetThread, TypeOK, InClosure, WindsDown
<1>24. CASE UNCHANGED vars
  BY <1>24 DEF vars, TypeOK, InClosure, WindsDown
<1> QED
  BY <1>1, <1>2, <1>3, <1>4, <1>5, <1>6, <1>7, <1>8, <1>9, <1>10, <1>11,
     <1>12, <1>13, <1>14, <1>15, <1>16, <1>17, <1>18, <1>19, <1>20, <1>21,
     <1>22, <1>23, <1>24 DEF Next, Opening, Closing, WithInner

(* A process whose claim was taken over winds down: from then on its threads  *)
(* enter no closure, so that only what was let in before still writes.        *)
THEOREM SupersededAlwaysWindsDown == Spec => SupersededWindsDown
<1>1. Inv /\ [Next]_vars => [WindsDown]_vars
  BY WindStep DEF Inv
<1> QED
  BY <1>1, InvAlways, PTL DEF Spec, SupersededWindsDown, WindsDown
=============================================================================
