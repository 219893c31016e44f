--------------------------- MODULE Recovery_proofs ---------------------------
(***************************************************************************)
(* What a reclaim and recovery decide, for every set of objects, payloads, *)
(* workers and attempts and for any number of faults and crashes: which    *)
(* objects end up reclaimed, that recovery follows what is physically      *)
(* there, and what a coordinator that starts to serve can rely on.         *)
(***************************************************************************)
EXTENDS Coordinator_proofs

-----------------------------------------------------------------------------
(* The invariant. *)

\* Phases in which payloads may be gone.
PhysicalPhases == OpenPhases \ PrePhysical

\* The steps of a reclaim before and after start_journal_physical.
BeforePCs == {"recomputable", "pending", "validate", "survive", "graph", "deps",
              "lock", "plan", "start", "abort"} \cup AbortPCs
AfterPCs == {"delete", "arch", "check", "done", "commit", "fence"} \cup CommitPCs

\* The steps of recovery that roll back, and those that commit.
RollbackPCs == {"rb_obj", "rb_row", "rb_arch", "rb_repair", "rb_resv",
                "rb_att", "rb_jrnl"}
RecCommitPCs == {"cm_row", "cm_release", "cm_arch", "cm_obj", "cm_resv",
                 "cm_att", "cm_jrnl"}

\* What check_survivability, the flags and the state of the object allowed
\* when the entry was written, and that only start_journal_physical plans
\* deletions.
EntrySound(a) ==
  /\ phase[a] # "NONE" => MinValidCopies[Class[entry[a].obj]] = 0
  /\ entry[a].prior.flags = {} /\ entry[a].prior.state # "RECLAIMED"
  /\ phase[a] \in PrePhysical \cup {"NONE"} => plan[a] = {}

\* A reclaim knows the phase its entry is in, and nobody has flagged its
\* object since the prechecks.
ReclaimSound(w) ==
  /\ loc[w].att \in Attempts => pc[w] \in ReclaimPCs
  /\ pc[w] \in BeforePCs => phase[loc[w].att] \in PrePhysical
  /\ pc[w] \in AfterPCs => phase[loc[w].att] \in PhysicalPhases
  /\ pc[w] \in ReclaimPCs
       => /\ loc[w].seen.flags = {} /\ loc[w].seen.state # "RECLAIMED"
          /\ object[loc[w].obj].flags = {}

\* What the backends said of the entry at hand is still true.
DecisionSound ==
  /\ rpc \in RollbackPCs => \A p \in plan[rec.att] : blob[p] # "absent"
  /\ rpc \in RecCommitPCs => /\ phase[rec.att] \in PhysicalPhases
                             /\ \A p \in plan[rec.att] : blob[p] = "absent"

\* Unless recovery reports an error, an open entry is yet to be reconciled,
\* and once the counts are repaired they stay exact.
RecoveryCovers ==
  (rpc # "off" /\ ~rec.err)
    => /\ \A a \in OpenAttempts :
            rpc = "scan" \/ a \in rec.queue \/ (rpc \in AtEntry /\ a = rec.att)
       /\ rpc \in {"expire", "repair", "lineage", "end"} => rec.queue = {}
       /\ rpc \in {"lineage", "end"} => RowsHaveParents /\ dedup = ExactCounts

\* Without a vanishing archive backend: an entry in a physical phase belongs
\* to a reclaim in progress, or the process has lost authority and no request
\* that may still write has its object.
EntryFenced(a) ==
  /\ object[entry[a].obj].flags = {}
  /\ mode = "up"
       => \/ \E w \in Workers : loc[w].att = a
          \/ lost /\ \A v \in Workers : loc[v].obj = entry[a].obj => v \notin grace

Fenced ==
  ~ArchiveMayVanish
    => archiveUp /\ \A a \in Attempts : phase[a] \in PhysicalPhases => EntryFenced(a)

RecoveryInv ==
  /\ \A a \in Attempts : EntrySound(a)
  /\ \A w \in Workers : ReclaimSound(w)
  /\ DecisionSound
  /\ RecoveryCovers
  /\ mode = "starting" => rpc # "off" /\ rec.by = None
  /\ Fenced

-----------------------------------------------------------------------------
(* What the properties ask of a step. *)

\* An object becomes RECLAIMED.
Reclaims(o) == object[o].state # "RECLAIMED" /\ object'[o].state = "RECLAIMED"

DurableStep == \A o \in Objects : Reclaims(o) => MinValidCopies[Class[o]] = 0

FlaggedStep == \A o \in Objects : Reclaims(o) => object[o].flags = {}

FencesStep ==
  \A w \in Workers :
    (/\ loc[w].att # None /\ pc'[w] = "idle" /\ mode' = "up"
     /\ phase'[loc[w].att] \in PhysicalPhases)
      => lost' /\ stop'

RealityStep ==
  \A a \in Attempts :
    (ActiveRecovery /\ phase[a] \in OpenPhases)
      => /\ phase'[a] = "COMMITTED" => \A p \in plan[a] : blob[p] = "absent"
         /\ phase'[a] = "ROLLED_BACK" => \A p \in plan[a] : blob[p] # "absent"

StartStep ==
  (mode = "starting" /\ mode' = "up")
    => /\ OpenAttempts = {}
       /\ \A o \in Objects : object[o].state # "RECLAIM_PENDING"
       /\ RowsHaveParents
       /\ dedup = ExactCounts

SoundStep ==
  /\ DurableStep /\ RealityStep /\ StartStep
  /\ ~ArchiveMayVanish => FlaggedStep /\ FencesStep

-----------------------------------------------------------------------------
(* Steps of a request in progress. *)

\* Where the request goes: it returns, or goes on for the same object and
\* attempt, on the same side of start_journal_physical unless the journal is
\* now in a physical phase.
Returns(w) ==
  /\ pc'[w] = "idle" /\ loc'[w] = NoLocals
  /\ pc[w] \in AfterPCs
       => (lost' /\ stop') \/ ~archiveUp \/ phase'[loc[w].att] \notin OpenPhases

GoesOn(w) ==
  /\ Kept(loc[w], loc'[w])
  /\ \/ pc[w] \in BeforePCs /\ pc'[w] \in BeforePCs
     \/ pc[w] \in AfterPCs /\ pc'[w] \in AfterPCs
     \/ /\ pc[w] \in BeforePCs /\ pc'[w] \in AfterPCs
        /\ phase'[loc[w].att] \in PhysicalPhases
     \/ pc[w] \notin ReclaimPCs /\ pc'[w] \notin ReclaimPCs

\* What it does to the journal ...
WritesJournal(w) ==
  LET a == loc[w].att
  IN  \/ UNCHANGED <<phase, plan>>
      \/ /\ pc[w] \in ReclaimPCs
         /\ \A b \in Attempts \ {a} : phase'[b] = phase[b] /\ plan'[b] = plan[b]
         /\ \/ /\ pc[w] \in BeforePCs /\ pc'[w] \in BeforePCs
               /\ phase'[a] \in PrePhysical /\ plan' = plan
            \/ pc'[w] \in AfterPCs /\ phase'[a] \in PhysicalPhases
            \/ pc'[w] = "idle" /\ phase'[a] \in {"COMMITTED", "ROLLED_BACK"}

\* ... and to object rows.
WritesObject(w) ==
  \A o \in Objects :
    object'[o] # object[o]
      => /\ o = loc[w].obj
         /\ IF pc[w] \in ReclaimPCs
            THEN object'[o].flags = loc[w].seen.flags
            ELSE (lost => w \in grace) /\ ~Reclaims(o)

WorkStep(w) ==
  /\ pc[w] \notin {"idle", "recover"}
  /\ UNCHANGED <<entry, mode, archiveUp, rpc, rec>>
  /\ lost => lost' /\ grace' \subseteq grace
  /\ \A v \in Workers \ {w} : pc'[v] = pc[v] /\ loc'[v] = loc[v]
  /\ Returns(w) \/ GoesOn(w)
  /\ WritesJournal(w)
  /\ WritesObject(w)

LEMMA ReclaimSides ==
  /\ ReclaimPCs = BeforePCs \cup AfterPCs
  /\ BeforePCs \cap AfterPCs = {}
  /\ {"idle", "recover"} \cap ReclaimPCs = {}
  /\ FlagOps \cap ReclaimPCs = {}
  /\ PhysicalPhases = {"PHYSICAL_STARTED", "PHYSICAL_DONE"}
BY DEF ReclaimPCs, BeforePCs, AfterPCs, AbortPCs, CommitPCs, FlagOps,
   PhysicalPhases, OpenPhases, PrePhysical

\* An idle worker has no attempt.
LEMMA IdleHasNone ==
  ASSUME TypeInv, JournalInv, NEW w \in Workers, pc[w] \in {"idle", "recover"}
  PROVE  loc[w] = NoLocals /\ loc[w].obj = None /\ loc[w].att = None
BY LocalsOf DEF JournalInv, WorkerOwns

LEMMA WorkKeeps ==
  ASSUME TypeInv, JournalInv, RecoveryInv, NEW w \in Workers, WorkStep(w)
  PROVE  RecoveryInv' /\ SoundStep
<1> DEFINE o == loc[w].obj
           a == loc[w].att
<1>1. rpc = "off" /\ mode = "up" /\ o \in Objects
  BY NoRecoveryNow DEF WorkStep
<1>2. /\ UNCHANGED <<entry, mode, archiveUp, rpc, rec>>
      /\ lost => lost' /\ grace' \subseteq grace
      /\ \A v \in Workers \ {w} : pc'[v] = pc[v] /\ loc'[v] = loc[v]
  BY DEF WorkStep
<1>3. /\ pc[w] \in ReclaimPCs => a \in Attempts
      /\ a \in Attempts => entry[a].obj = o /\ phase[a] # "NONE"
      /\ ReclaimSound(w) /\ a \in Attempts \cup {None} /\ None \notin Attempts
  BY LocalsOf DEF JournalInv, WorkerOwns, RecoveryInv
<1>4. \A b \in Attempts : b # a => phase'[b] = phase[b] /\ plan'[b] = plan[b]
  BY DEF WorkStep, WritesJournal
<1>5. \A q \in Objects : q # o => object'[q] = object[q]
  BY DEF WorkStep, WritesObject
<1>6. pc[w] \in ReclaimPCs => object'[o].flags = {}
  BY <1>1, <1>3 DEF WorkStep, WritesObject, ReclaimSound
<1>7. ASSUME a \in Attempts
      PROVE  /\ phase'[a] # "NONE"
             /\ phase'[a] \in PrePhysical => phase[a] \in PrePhysical /\ plan'[a] = plan[a]
  BY <1>3, <1>7, ReclaimSides
  DEF WorkStep, WritesJournal, ReclaimSound, PrePhysical
<1>8. ASSUME NEW b \in Attempts PROVE EntrySound(b)'
  <2>1. EntrySound(b)
    BY DEF RecoveryInv
  <2>2. CASE b # a
    BY <1>2, <1>4, <2>1, <2>2 DEF EntrySound
  <2>3. CASE b = a
    BY <1>2, <1>3, <1>7, <2>1, <2>3 DEF EntrySound
  <2> QED
    BY <2>2, <2>3
<1>9. ASSUME NEW v \in Workers PROVE ReclaimSound(v)'
  <2>1. CASE v # w
    <3>1. pc'[v] = pc[v] /\ loc'[v] = loc[v] /\ ReclaimSound(v)
      BY <1>2, <2>1 DEF RecoveryInv
    <3>2. CASE pc[v] \in {"idle", "recover"}
      BY <3>1, <3>2, IdleHasNone, ReclaimSides, LocalsOf DEF ReclaimSound
    <3>3. CASE pc[v] \notin {"idle", "recover"}
      <4>1. loc[v].obj \in Objects /\ loc[v].obj # o
            /\ (loc[v].att \in Attempts => loc[v].att # a)
            /\ (pc[v] \in ReclaimPCs => loc[v].att \in Attempts)
        BY <2>1, <3>3, NoRecoveryNow, Disjoint DEF JournalInv, WorkerOwns
      <4> QED
        BY <1>4, <1>5, <3>1, <4>1, ReclaimSides DEF ReclaimSound
    <3> QED
      BY <3>2, <3>3
  <2>2. CASE v = w /\ Returns(w)
    BY <2>2, LocalsOf, ReclaimSides DEF Returns, ReclaimSound
  <2>3. CASE v = w /\ GoesOn(w)
    <3>1. /\ loc'[w].obj = o /\ loc'[w].att = a /\ loc'[w].seen = loc[w].seen
          /\ pc'[w] \in ReclaimPCs <=> pc[w] \in ReclaimPCs
      BY <2>3, ReclaimSides DEF GoesOn, Kept
    <3>2. pc'[w] \in BeforePCs => pc[w] \in BeforePCs /\ phase'[a] \in PrePhysical
      BY <1>3, <2>3, ReclaimSides
      DEF GoesOn, WorkStep, WritesJournal, ReclaimSound
    <3>3. pc'[w] \in AfterPCs => phase'[a] \in PhysicalPhases
      BY <1>3, <2>3, ReclaimSides
      DEF GoesOn, WorkStep, WritesJournal, ReclaimSound
    <3> QED
      BY <1>3, <1>6, <2>3, <3>1, <3>2, <3>3 DEF ReclaimSound
  <2> QED
    BY <2>1, <2>2, <2>3 DEF WorkStep
<1>10. DecisionSound' /\ RecoveryCovers'
       /\ (mode' = "starting" => rpc' # "off" /\ rec'.by = None)
  BY <1>1, <1>2 DEF DecisionSound, RecoveryCovers, RollbackPCs, RecCommitPCs
<1>11. Fenced'
  <2> SUFFICES ASSUME ~ArchiveMayVanish, NEW b \in Attempts,
                      phase'[b] \in PhysicalPhases
               PROVE  EntryFenced(b)'
    BY <1>2 DEF RecoveryInv, Fenced
  <2>0. archiveUp /\ \A c \in Attempts : phase[c] \in PhysicalPhases => EntryFenced(c)
    BY DEF RecoveryInv, Fenced
  <2>1. CASE b = a
    <3>1. pc[w] \in ReclaimPCs
      BY <1>3, <2>1 DEF ReclaimSound
    <3>2. object'[entry'[b].obj].flags = {}
      BY <1>2, <1>3, <1>6, <2>1, <3>1
    <3>3. CASE GoesOn(w)
      BY <2>1, <3>2, <3>3 DEF EntryFenced, GoesOn, Kept
    <3>4. CASE Returns(w)
      <4>1. pc[w] \in AfterPCs
        BY <1>3, <2>1, <3>1, <3>4, ReclaimSides
        DEF ReclaimSound, Returns, WorkStep, WritesJournal, PrePhysical
      <4>2. lost'
        BY <2>0, <2>1, <3>4, <4>1 DEF Returns, PhysicalPhases
      <4>3. \A v \in Workers : loc'[v].obj # o
        <5> TAKE v \in Workers
        <5>1. CASE v = w
          BY <1>1, <3>4, <5>1, LocalsOf DEF Returns
        <5>2. CASE v # w
          BY <1>1, <1>2, <5>2, Disjoint
        <5> QED
          BY <5>1, <5>2
      <4> QED
        BY <1>2, <1>3, <2>1, <3>2, <4>2, <4>3 DEF EntryFenced
    <3> QED
      BY <3>3, <3>4 DEF WorkStep
  <2>2. CASE b # a
    <3>1. EntryFenced(b) /\ phase[b] \in PhysicalPhases
      BY <1>4, <2>0, <2>2
    <3>2. ASSUME NEW v \in Workers, loc[v].att = b
          PROVE  object'[entry'[b].obj] = object[entry[b].obj] /\ loc'[v].att = b
      <4>1. v # w /\ loc'[v] = loc[v]
        BY <1>2, <2>2, <3>2
      <4>2. loc[v].obj = entry[b].obj /\ loc[v].obj \in Objects
        BY <3>2 DEF JournalInv, WorkerOwns
      <4>3. loc[v].obj # o
        BY <4>1, <4>2, Disjoint
      <4> QED
        BY <1>2, <1>5, <3>2, <4>1, <4>2, <4>3
    <3>3. CASE \E v \in Workers : loc[v].att = b
      BY <3>1, <3>2, <3>3 DEF EntryFenced
    <3>4. CASE ~\E v \in Workers : loc[v].att = b
      <4>1. lost /\ \A v \in Workers : loc[v].obj = entry[b].obj => v \notin grace
        BY <1>1, <3>1, <3>4 DEF EntryFenced
      <4>2. object'[entry[b].obj].flags = {}
        <5>1. entry[b].obj \in Objects
          BY <3>1, ReclaimSides DEF JournalInv, EntriesKnown
        <5>2. CASE object'[entry[b].obj] = object[entry[b].obj]
          BY <3>1, <5>2 DEF EntryFenced
        <5>3. CASE object'[entry[b].obj] # object[entry[b].obj]
          BY <1>3, <1>6, <4>1, <5>1, <5>3 DEF WorkStep, WritesObject
        <5> QED
          BY <5>2, <5>3
      <4>3. \A v \in Workers : loc'[v].obj = entry[b].obj => loc[v].obj = entry[b].obj
        <5> TAKE v \in Workers
        <5>1. entry[b].obj \in Objects
          BY <3>1, ReclaimSides DEF JournalInv, EntriesKnown
        <5> QED
          BY <1>2, <5>1, LocalsOf DEF WorkStep, Returns, GoesOn, Kept
      <4> QED
        BY <1>2, <4>1, <4>2, <4>3 DEF EntryFenced
    <3> QED
      BY <3>3, <3>4
  <2> QED
    BY <2>1, <2>2
<1>12. DurableStep
  <2> SUFFICES ASSUME NEW q \in Objects, Reclaims(q)
               PROVE  MinValidCopies[Class[q]] = 0
    BY DEF DurableStep
  <2>1. q = o /\ pc[w] \in ReclaimPCs
    BY DEF WorkStep, WritesObject, Reclaims
  <2> QED
    BY <1>3, <2>1 DEF RecoveryInv, EntrySound
<1>13. FlaggedStep
  BY <1>3 DEF FlaggedStep, WorkStep, WritesObject, Reclaims, ReclaimSound
<1>14. ~ArchiveMayVanish => FencesStep
  <2> SUFFICES ASSUME ~ArchiveMayVanish, NEW v \in Workers,
                      loc[v].att # None, pc'[v] = "idle",
                      phase'[loc[v].att] \in PhysicalPhases
               PROVE  lost' /\ stop'
    BY DEF FencesStep
  <2>1. archiveUp
    BY DEF RecoveryInv, Fenced
  <2>2. v = w
    BY <1>2, IdleHasNone
  <2>3. Returns(w)
    BY <2>2, ReclaimSides, <1>3 DEF WorkStep, GoesOn, ReclaimSound
  <2>4. pc[w] \in AfterPCs
    BY <1>3, <2>2, <2>3, ReclaimSides
    DEF ReclaimSound, Returns, WorkStep, WritesJournal, PrePhysical
  <2> QED
    BY <2>1, <2>2, <2>3, <2>4 DEF Returns, PhysicalPhases
<1>15. RealityStep /\ StartStep
  BY <1>1 DEF RealityStep, StartStep, ActiveRecovery
<1> QED
  BY <1>8, <1>9, <1>10, <1>11, <1>12, <1>13, <1>14, <1>15
  DEF RecoveryInv, SoundStep

\* A step that writes neither object rows nor the journal.
Silent(w) ==
  /\ UNCHANGED <<object, phase, plan, entry, mode, archiveUp, rpc, rec>>
  /\ lost => lost' /\ grace' \subseteq grace
  /\ pc[w] \notin {"idle", "recover"}

SameSide(k, l) ==
  \/ k \in BeforePCs /\ l \in BeforePCs
  \/ k \in AfterPCs /\ l \in AfterPCs
  \/ k \notin ReclaimPCs /\ l \notin ReclaimPCs

\* The local variables a step may change.
LocalsMove(w) ==
  /\ Kept(loc[w], loc'[w])
  /\ \A v \in Workers \ {w} : loc'[v] = loc[v]

LEMMA LocalsMoved ==
  ASSUME TypeInv, NEW w \in Workers
  PROVE  /\ UNCHANGED loc => LocalsMove(w)
         /\ \A x : SetLocals(w, [loc[w] EXCEPT !.held = x]) => LocalsMove(w)
         /\ \A x : SetLocals(w, [loc[w] EXCEPT !.todo = x]) => LocalsMove(w)
         /\ \A x : SetLocals(w, [loc[w] EXCEPT !.cur = x]) => LocalsMove(w)
         /\ \A x : SetLocals(w, [loc[w] EXCEPT !.kin = x]) => LocalsMove(w)
         /\ \A x, y : SetLocals(w, [loc[w] EXCEPT !.todo = x, !.cur = y])
                        => LocalsMove(w)
         /\ \A x, y : SetLocals(w, [loc[w] EXCEPT !.done = x, !.cur = y])
                        => LocalsMove(w)
         /\ \A x, y : SetLocals(w, [loc[w] EXCEPT !.cur = x, !.todo = y])
                        => LocalsMove(w)
         /\ \A x, y, z, u :
              SetLocals(w, [loc[w] EXCEPT !.todo = x, !.done = y, !.cur = z,
                                          !.held = u])
                => LocalsMove(w)
<1>1. UNCHANGED loc => LocalsMove(w)
  BY DEF LocalsMove, Kept
<1>2. ASSUME NEW r, SetLocals(w, r), Kept(loc[w], r) PROVE LocalsMove(w)
  BY <1>2, LocalsFrame DEF LocalsMove
<1>3. \A x : Kept(loc[w], [loc[w] EXCEPT !.held = x])
  BY LocalsFields DEF Locals, Kept
<1>4. \A x : Kept(loc[w], [loc[w] EXCEPT !.todo = x])
  BY LocalsFields DEF Locals, Kept
<1>5. \A x : Kept(loc[w], [loc[w] EXCEPT !.cur = x])
  BY LocalsFields DEF Locals, Kept
<1>6. \A x : Kept(loc[w], [loc[w] EXCEPT !.kin = x])
  BY LocalsFields DEF Locals, Kept
<1>7. \A x, y : Kept(loc[w], [loc[w] EXCEPT !.todo = x, !.cur = y])
  BY LocalsFields DEF Locals, Kept
<1>8. \A x, y : Kept(loc[w], [loc[w] EXCEPT !.done = x, !.cur = y])
  BY LocalsFields DEF Locals, Kept
<1>9. \A x, y, z, u :
       Kept(loc[w], [loc[w] EXCEPT !.todo = x, !.done = y, !.cur = z, !.held = u])
  BY LocalsFields DEF Locals, Kept
<1>10. \A x, y : Kept(loc[w], [loc[w] EXCEPT !.cur = x, !.todo = y])
  BY LocalsFields DEF Locals, Kept
<1> QED
  BY <1>1, <1>2, <1>3, <1>4, <1>5, <1>6, <1>7, <1>8, <1>9, <1>10

LEMMA SilentGoto ==
  ASSUME TypeInv, NEW w \in Workers, Silent(w), LocalsMove(w),
         NEW l, SameSide(pc[w], l), Goto(w, l)
  PROVE  WorkStep(w)
BY GotoFrame
DEF WorkStep, Silent, GoesOn, SameSide, WritesJournal, WritesObject, LocalsMove

LEMMA SilentStay ==
  ASSUME TypeInv, NEW w \in Workers, Silent(w), LocalsMove(w), UNCHANGED pc
  PROVE  WorkStep(w)
BY ReclaimSides DEF WorkStep, Silent, GoesOn, WritesJournal, WritesObject, LocalsMove

LEMMA SilentReturn ==
  ASSUME TypeInv, NEW w \in Workers, Silent(w), Return(w),
         pc[w] \notin AfterPCs \/ (lost' /\ stop') \/ ~archiveUp
  PROVE  WorkStep(w)
BY GotoFrame, LocalsFrame
DEF WorkStep, Silent, Return, Returns, WritesJournal, WritesObject

\* A request other than a reclaim writes its object row and returns.
LEMMA ObjectWriteReturn ==
  ASSUME TypeInv, JournalInv, NEW w \in Workers,
         pc[w] \notin ReclaimPCs \cup {"idle", "recover"},
         UNCHANGED <<phase, plan, entry, mode, archiveUp, rpc, rec>>,
         lost => w \in grace /\ lost' /\ grace' \subseteq grace,
         NEW row, UpdateObject(loc[w].obj, row), Return(w),
         row.state = "RECLAIMED" => object[loc[w].obj].state = "RECLAIMED"
  PROVE  WorkStep(w)
<1>1. /\ pc'[w] = "idle" /\ loc'[w] = NoLocals
      /\ \A v \in Workers \ {w} : pc'[v] = pc[v] /\ loc'[v] = loc[v]
  BY ReturnOwns
<1>2. loc[w].obj \in Objects
  BY NoRecoveryNow
<1>3. /\ object'[loc[w].obj] = row
      /\ \A q \in Objects \ {loc[w].obj} : object'[q] = object[q]
  BY <1>2, UpdateFrame
<1>4. WritesObject(w)
  BY <1>3 DEF WritesObject, Reclaims
<1> QED
  BY <1>1, <1>4, ReclaimSides DEF WorkStep, Returns, WritesJournal

LEMMA OtherPCs ==
  /\ CreatePCs \cap ReclaimPCs = {} /\ VerifyPCs \cap ReclaimPCs = {}
  /\ ArchivePCs \cap ReclaimPCs = {}
BY DEF CreatePCs, VerifyPCs, ArchivePCs, ReclaimPCs, CommitPCs, AbortPCs

LEMMA CreateWork ==
  ASSUME TypeInv, JournalInv, NEW w \in Workers, CreateStep(w)
  PROVE  WorkStep(w)
<1> USE DEF Silent, Enter, Within, storeVars, journalVars, procVars, recVars
<1>1. CASE \/ CreateWrite(w) \/ CreateInsert(w) \/ CreateUnref(w)
           \/ CreateUnblob(w) \/ UndoLeave(w)
           \/ \E p \in Payloads : CreateRefuse(w, p)
  <2>1. Silent(w) /\ pc[w] \in CreatePCs /\ UNCHANGED loc
    BY <1>1
    DEF CreateWrite, CreateInsert, CreateUnref, CreateUnblob, UndoLeave,
        CreateRefuse, CreatePCs
  <2>2. PICK l \in CreatePCs : Goto(w, l)
    BY <1>1
    DEF CreateWrite, CreateInsert, CreateUnref, CreateUnblob, UndoLeave,
        CreateRefuse, CreatePCs
  <2> QED
    BY <2>1, <2>2, LocalsMoved, OtherPCs, SilentGoto DEF SameSide
<1>2. CASE CreateLock(w) \/ UndoLock(w) \/ CreateRow(w)
  <2>1. Silent(w) /\ pc[w] \in CreatePCs
    BY <1>2 DEF CreateLock, UndoLock, CreateRow, CreatePCs
  <2>2. LocalsMove(w)
    BY <1>2, LocalsMoved DEF CreateLock, UndoLock, CreateRow
  <2>3. PICK l \in CreatePCs : Goto(w, l)
    BY <1>2 DEF CreateLock, UndoLock, CreateRow, CreatePCs
  <2> QED
    BY <2>1, <2>2, <2>3, OtherPCs, SilentGoto DEF SameSide
<1>3. ASSUME NEW p \in Payloads, CreateAcquire(w, p) \/ CreateMiss(w, p)
      PROVE  WorkStep(w)
  <2>1. Silent(w) /\ pc[w] \in CreatePCs
    BY <1>3 DEF CreateAcquire, CreateMiss, CreatePCs
  <2>2. LocalsMove(w)
    BY <1>3, LocalsMoved DEF CreateAcquire, CreateMiss
  <2>3. PICK l \in CreatePCs : Goto(w, l)
    BY <1>3 DEF CreateAcquire, CreateMiss, CreatePCs
  <2> QED
    BY <2>1, <2>2, <2>3, OtherPCs, SilentGoto DEF SameSide
<1>4. CASE UndoEnter(w) \/ UndoRelease(w)
  <2>1. Silent(w) /\ pc[w] \in CreatePCs
    BY <1>4 DEF UndoEnter, UndoRelease, CreatePCs
  <2>2. LocalsMove(w)
    BY <1>4, LocalsMoved DEF UndoEnter, UndoRelease
  <2>3. PICK l \in CreatePCs : Goto(w, l)
    BY <1>4 DEF UndoEnter, UndoRelease, CreatePCs
  <2> QED
    BY <2>1, <2>2, <2>3, OtherPCs, SilentGoto DEF SameSide
<1>5. ASSUME NEW p \in Payloads, UndoBlob(w, p) PROVE WorkStep(w)
  <2>1. Silent(w) /\ UNCHANGED pc
    BY <1>5 DEF UndoBlob
  <2>2. LocalsMove(w)
    BY <1>5, LocalsMoved DEF UndoBlob
  <2> QED
    BY <2>1, <2>2, SilentStay
<1>6. CASE CreateLockFails(w) \/ UndoLockFails(w) \/ UndoReturn(w)
  <2>1. Silent(w) /\ pc[w] \in CreatePCs /\ Return(w)
    BY <1>6 DEF CreateLockFails, UndoLockFails, UndoReturn, CreatePCs
  <2> QED
    BY <2>1, OtherPCs, ReclaimSides, SilentReturn
<1>7. CASE Publish(w)
  <2> DEFINE row == [state |-> IF Targets[loc[w].obj] = {} THEN "CREATED" ELSE "HOT",
                     flags |-> {}]
  <2>1. /\ UNCHANGED <<phase, plan, entry, mode, archiveUp, rpc, rec>>
        /\ lost => w \in grace /\ lost' /\ grace' \subseteq grace
        /\ pc[w] = "publish" /\ Return(w) /\ UpdateObject(loc[w].obj, row)
    BY <1>7 DEF Publish, UpdateObject
  <2>2. row.state # "RECLAIMED"
    OBVIOUS
  <2> QED
    BY <2>1, <2>2, ObjectWriteReturn, OtherPCs DEF CreatePCs
<1>8. ASSUME NEW p \in Payloads, UndoRow(w, p)
      PROVE  WorkStep(w)
  <2>1. Silent(w) /\ pc[w] \in CreatePCs
    BY <1>8 DEF UndoRow, CreatePCs
  <2>2. LocalsMove(w)
    BY <1>8, LocalsMoved DEF UndoRow
  <2>3. PICK l \in CreatePCs : Goto(w, l)
    BY <1>8 DEF UndoRow, CreatePCs
  <2> QED
    BY <2>1, <2>2, <2>3, OtherPCs, SilentGoto DEF SameSide
<1> QED
  BY <1>1, <1>2, <1>3, <1>4, <1>5, <1>6, <1>7, <1>8 DEF CreateStep

LEMMA VerifyWork ==
  ASSUME TypeInv, NEW w \in Workers, VerifyStep(w)
  PROVE  WorkStep(w)
<1> USE DEF Silent, Enter, Within, storeVars, journalVars, procVars, recVars
<1>1. CASE VerifyLock(w) \/ VerifyInvalidated(w)
  <2>1. Silent(w) /\ pc[w] \in VerifyPCs
    BY <1>1 DEF VerifyLock, VerifyInvalidated, VerifyPCs
  <2>2. LocalsMove(w)
    BY <1>1, LocalsMoved DEF VerifyLock, VerifyInvalidated
  <2>3. Goto(w, "ver_next")
    BY <1>1 DEF VerifyLock, VerifyInvalidated
  <2> QED
    BY <2>1, <2>2, <2>3, OtherPCs, SilentGoto DEF SameSide, VerifyPCs
<1>2. ASSUME NEW p \in Payloads, VerifyBad(w, p) PROVE WorkStep(w)
  <2>1. Silent(w) /\ pc[w] \in VerifyPCs /\ Goto(w, "ver_inval")
    BY <1>2 DEF VerifyBad, VerifyPCs
  <2>2. LocalsMove(w)
    BY <1>2, LocalsMoved DEF VerifyBad
  <2> QED
    BY <2>1, <2>2, OtherPCs, SilentGoto DEF SameSide, VerifyPCs
<1>3. ASSUME NEW p \in Payloads, VerifyGood(w, p) PROVE WorkStep(w)
  <2>1. Silent(w) /\ UNCHANGED pc
    BY <1>3 DEF VerifyGood
  <2>2. LocalsMove(w)
    BY <1>3, LocalsMoved DEF VerifyGood
  <2> QED
    BY <2>1, <2>2, SilentStay
<1>4. ASSUME NEW o \in Objects, VerifyInvalidate(w, o) PROVE WorkStep(w)
  <2>1. Silent(w) /\ UNCHANGED <<pc, loc>>
    BY <1>4 DEF VerifyInvalidate
  <2> QED
    BY <2>1, LocalsMoved, SilentStay
<1>5. CASE \/ VerifyLockFails(w) \/ VerifyReturn(w)
           \/ \E o \in Objects : VerifyInvalidateFails(w, o)
  <2>1. Silent(w) /\ pc[w] \in VerifyPCs /\ Return(w)
    BY <1>5 DEF VerifyLockFails, VerifyReturn, VerifyInvalidateFails, VerifyPCs
  <2> QED
    BY <2>1, OtherPCs, ReclaimSides, SilentReturn
<1> QED
  BY <1>1, <1>2, <1>3, <1>4, <1>5 DEF VerifyStep

LEMMA ArchiveWork ==
  ASSUME TypeInv, JournalInv, NEW w \in Workers, ArchiveStep(w)
  PROVE  WorkStep(w)
<1> USE DEF Silent, Enter, storeVars, journalVars, procVars, recVars
<1>1. CASE ArchiveWrite(w) \/ ArchiveInsert(w) \/ ArchiveUnrow(w)
  <2>1. Silent(w) /\ pc[w] \in ArchivePCs /\ UNCHANGED loc
    BY <1>1 DEF ArchiveWrite, ArchiveInsert, ArchiveUnrow, ArchivePCs
  <2>2. PICK l \in ArchivePCs : Goto(w, l)
    BY <1>1 DEF ArchiveWrite, ArchiveInsert, ArchiveUnrow, ArchivePCs
  <2> QED
    BY <2>1, <2>2, LocalsMoved, OtherPCs, SilentGoto DEF SameSide
<1>2. CASE ArchiveUnblob(w)
  <2>1. Silent(w) /\ pc[w] \in ArchivePCs /\ Return(w)
    BY <1>2 DEF ArchiveUnblob, ArchivePCs
  <2> QED
    BY <2>1, OtherPCs, ReclaimSides, SilentReturn
<1>3. CASE ArchivePublish(w)
  <2> DEFINE row == [loc[w].seen EXCEPT !.state = "ARCHIVED"]
  <2>1. /\ UNCHANGED <<phase, plan, entry, mode, archiveUp, rpc, rec>>
        /\ lost => w \in grace /\ lost' /\ grace' \subseteq grace
        /\ pc[w] = "arc_obj" /\ Return(w) /\ UpdateObject(loc[w].obj, row)
    BY <1>3 DEF ArchivePublish
  <2>2. row.state # "RECLAIMED"
    BY LocalsFields DEF ObjectRow
  <2> QED
    BY <2>1, <2>2, ObjectWriteReturn, OtherPCs DEF ArchivePCs
<1> QED
  BY <1>1, <1>2, <1>3 DEF ArchiveStep

\* A reclaim writes its object row, from the copy it read, and goes on.
LEMMA ObjectWriteGoto ==
  ASSUME TypeInv, JournalInv, NEW w \in Workers, pc[w] \in ReclaimPCs,
         UNCHANGED <<phase, plan, entry, mode, archiveUp, rpc, rec, loc>>,
         lost => lost' /\ grace' \subseteq grace,
         NEW row, UpdateObject(loc[w].obj, row), row.flags = loc[w].seen.flags,
         NEW l, SameSide(pc[w], l), Goto(w, l)
  PROVE  WorkStep(w)
<1>1. pc[w] \notin {"idle", "recover"}
  BY ReclaimSides
<1>2. loc[w].obj \in Objects
  BY <1>1, NoRecoveryNow
<1>3. /\ object'[loc[w].obj] = row
      /\ \A q \in Objects \ {loc[w].obj} : object'[q] = object[q]
  BY <1>2, UpdateFrame
<1>4. WritesObject(w)
  BY <1>3 DEF WritesObject
<1>5. GoesOn(w) /\ \A v \in Workers \ {w} : pc'[v] = pc[v] /\ loc'[v] = loc[v]
  BY GotoFrame DEF GoesOn, SameSide, Kept
<1> QED
  BY <1>1, <1>4, <1>5 DEF WorkStep, WritesJournal

\* It writes its journal entry.
LEMMA JournalWrite ==
  ASSUME TypeInv, JournalInv, NEW w \in Workers, pc[w] \in ReclaimPCs,
         UNCHANGED <<object, entry, mode, archiveUp, rpc, rec>>,
         lost => lost' /\ grace' \subseteq grace,
         NEW a, a = loc[w].att, NEW to, phase' = [phase EXCEPT ![a] = to],
         \A b \in Attempts \ {a} : plan'[b] = plan[b], NEW l, Goto(w, l),
         \/ /\ UNCHANGED loc /\ UNCHANGED plan /\ to \in PrePhysical
            /\ pc[w] \in BeforePCs /\ l \in BeforePCs
         \/ UNCHANGED loc /\ to \in PhysicalPhases /\ l \in AfterPCs
         \/ /\ SetLocals(w, NoLocals) /\ to \in {"COMMITTED", "ROLLED_BACK"}
            /\ l = "idle"
  PROVE  WorkStep(w)
<1>1. pc[w] \notin {"idle", "recover"} /\ a \in Attempts
  BY ReclaimSides DEF JournalInv, WorkerOwns
<1>2. /\ phase'[a] = to
      /\ \A b \in Attempts \ {a} : phase'[b] = phase[b] /\ plan'[b] = plan[b]
  BY <1>1 DEF TypeInv, TypeOK, JournalTypeOK
<1>3. pc'[w] = l /\ \A v \in Workers \ {w} : pc'[v] = pc[v]
  BY GotoFrame
<1>4. WritesJournal(w)
  BY <1>2, <1>3 DEF WritesJournal
<1>5. WritesObject(w)
  BY DEF WritesObject
<1>6. CASE UNCHANGED loc
  <2>1. Kept(loc[w], loc'[w])
    BY <1>6 DEF Kept
  <2>2. GoesOn(w) \/ Returns(w)
    BY <1>2, <1>3, <1>6, <2>1, LocalsFrame, ReclaimSides DEF GoesOn, Returns, OpenPhases
  <2> QED
    BY <1>1, <1>3, <1>4, <1>5, <1>6, <2>2 DEF WorkStep
<1>7. CASE SetLocals(w, NoLocals) /\ to \in {"COMMITTED", "ROLLED_BACK"} /\ l = "idle"
  <2>1. loc'[w] = NoLocals /\ \A v \in Workers \ {w} : loc'[v] = loc[v]
    BY <1>7, LocalsFrame
  <2>2. Returns(w)
    BY <1>2, <1>3, <1>7, <2>1 DEF Returns, OpenPhases
  <2> QED
    BY <1>1, <1>3, <1>4, <1>5, <2>1, <2>2 DEF WorkStep
<1> QED
  BY <1>6, <1>7

LEMMA ReclaimWork ==
  ASSUME TypeInv, JournalInv, NEW w \in Workers, ReclaimStep(w)
  PROVE  WorkStep(w)
<1> USE DEF Silent, Enter, Within, storeVars, journalVars, procVars, recVars
<1>1. CASE \/ Survive(w) \/ ReclaimLockFails(w)
           \/ AbortReservation(w) \/ AbortAttempt(w)
  <2>1. Silent(w) /\ pc[w] \in BeforePCs /\ UNCHANGED loc
    BY <1>1
    DEF Survive, ReclaimLockFails, AbortReservation, AbortAttempt,
        CloseReservation, CloseAttempt, BeforePCs, AbortPCs
  <2>2. PICK l \in BeforePCs : Goto(w, l)
    BY <1>1
    DEF Survive, ReclaimLockFails, AbortReservation, AbortAttempt,
        CloseReservation, CloseAttempt, BeforePCs, AbortPCs
  <2> QED
    BY <2>1, <2>2, LocalsMoved, SilentGoto DEF SameSide
<1>2. CASE ReadGraph(w) \/ CheckDependencies(w) \/ ReclaimLock(w)
  <2>1. Silent(w) /\ pc[w] \in BeforePCs
    BY <1>2 DEF ReadGraph, CheckDependencies, ReclaimLock, BeforePCs
  <2>2. LocalsMove(w)
    BY <1>2, LocalsMoved DEF ReadGraph, CheckDependencies, ReclaimLock
  <2>3. PICK l \in BeforePCs : Goto(w, l)
    BY <1>2 DEF ReadGraph, CheckDependencies, ReclaimLock, BeforePCs
  <2> QED
    BY <2>1, <2>2, <2>3, SilentGoto DEF SameSide
<1>3. CASE PlanDeletions(w)
  <2>1. Silent(w) /\ pc[w] = "plan"
    BY <1>3 DEF PlanDeletions
  <2>2. \/ Goto(w, "start") /\ LocalsMove(w)
        \/ Return(w)
    BY <1>3, LocalsMoved DEF PlanDeletions
  <2>3. pc[w] \in BeforePCs /\ pc[w] \notin AfterPCs /\ "start" \in BeforePCs
    BY <2>1, ReclaimSides DEF BeforePCs
  <2> QED
    BY <2>1, <2>2, <2>3, SilentGoto, SilentReturn DEF SameSide
<1>4. ASSUME NEW p \in Payloads, DeletePayload(w, p) PROVE WorkStep(w)
  <2>1. Silent(w) /\ UNCHANGED pc
    BY <1>4 DEF DeletePayload
  <2>2. LocalsMove(w)
    BY <1>4, LocalsMoved DEF DeletePayload
  <2> QED
    BY <2>1, <2>2, SilentStay
<1>5. CASE DeletedAll(w) \/ DeleteArchive(w) \/ CheckDeleted(w)
  <2>1. Silent(w) /\ pc[w] \in AfterPCs /\ UNCHANGED loc
    BY <1>5 DEF DeletedAll, DeleteArchive, CheckDeleted, AfterPCs
  <2>2. PICK l \in AfterPCs : Goto(w, l)
    BY <1>5 DEF DeletedAll, DeleteArchive, CheckDeleted, AfterPCs
  <2> QED
    BY <2>1, <2>2, LocalsMoved, SilentGoto DEF SameSide
<1>6. CASE \/ CommitRowsDone(w) \/ CommitArchive(w)
           \/ CommitReservation(w) \/ CommitAttempt(w)
  <2>1. Silent(w) /\ pc[w] \in AfterPCs /\ UNCHANGED loc
    BY <1>6
    DEF CommitRowsDone, CommitArchive, CommitReservation, CommitAttempt,
        CloseReservation, CloseAttempt, AfterPCs, CommitPCs
  <2>2. PICK l \in AfterPCs : Goto(w, l)
    BY <1>6
    DEF CommitRowsDone, CommitArchive, CommitReservation, CommitAttempt,
        CloseReservation, CloseAttempt, AfterPCs, CommitPCs
  <2> QED
    BY <2>1, <2>2, LocalsMoved, SilentGoto DEF SameSide
<1>7. CASE CommitEnter(w) \/ CommitRelease(w)
  <2>1. Silent(w) /\ pc[w] \in AfterPCs
    BY <1>7 DEF CommitEnter, CommitRelease, AfterPCs, CommitPCs
  <2>2. LocalsMove(w)
    BY <1>7, LocalsMoved DEF CommitEnter, CommitRelease
  <2>3. PICK l \in AfterPCs : Goto(w, l)
    BY <1>7 DEF CommitEnter, CommitRelease, AfterPCs, CommitPCs
  <2> QED
    BY <2>1, <2>2, <2>3, SilentGoto DEF SameSide
<1>8. ASSUME NEW p \in Payloads, CommitRow(w, p) PROVE WorkStep(w)
  <2>1. Silent(w) /\ pc[w] \in AfterPCs /\ Goto(w, "cmt_release")
    BY <1>8 DEF CommitRow, AfterPCs, CommitPCs
  <2>2. LocalsMove(w)
    BY <1>8, LocalsMoved DEF CommitRow
  <2> QED
    BY <2>1, <2>2, SilentGoto DEF SameSide, AfterPCs, CommitPCs
<1>9. CASE ArchiveMissing(w)
  <2>1. Silent(w) /\ ~archiveUp /\ Return(w)
    BY <1>9 DEF ArchiveMissing
  <2> QED
    BY <2>1, SilentReturn
<1>10. CASE Indeterminate(w)
  <2>1. Silent(w) /\ lost' /\ stop' /\ Return(w)
    BY <1>10 DEF Indeterminate, Fence
  <2> QED
    BY <2>1, SilentReturn
<1>11. ASSUME NEW s, NEW l, pc[w] \in BeforePCs, l \in BeforePCs,
              Transition(w, pc[w], s, l)
       PROVE  WorkStep(w)
  <2> DEFINE row == [loc[w].seen EXCEPT !.state = s]
  <2>1. /\ UNCHANGED <<phase, plan, entry, mode, archiveUp, rpc, rec, loc>>
        /\ lost => lost' /\ grace' \subseteq grace
        /\ UpdateObject(loc[w].obj, row) /\ Goto(w, l)
    BY <1>11 DEF Transition
  <2>2. row.flags = loc[w].seen.flags
    BY LocalsFields DEF ObjectRow
  <2>3. SameSide(pc[w], l) /\ pc[w] \in ReclaimPCs
    BY <1>11, ReclaimSides DEF SameSide
  <2> QED
    BY <2>1, <2>2, <2>3, ObjectWriteGoto
<1>18. CASE ToRecomputable(w)
  <2>1. Transition(w, pc[w], "RECOMPUTABLE", "pending") /\ pc[w] = "recomputable"
    BY <1>18 DEF ToRecomputable, Transition
  <2> QED
    BY <1>11, <2>1 DEF BeforePCs
<1>19. CASE ToPending(w)
  <2>1. Transition(w, pc[w], "RECLAIM_PENDING", "validate") /\ pc[w] = "pending"
    BY <1>19 DEF ToPending, Transition
  <2> QED
    BY <1>11, <2>1 DEF BeforePCs
<1>12. CASE CommitObject(w)
  <2> DEFINE row == [loc[w].seen EXCEPT !.state = "RECLAIMED"]
  <2>1. /\ UNCHANGED <<phase, plan, entry, mode, archiveUp, rpc, rec, loc>>
        /\ lost => lost' /\ grace' \subseteq grace
        /\ pc[w] = "cmt_obj"
        /\ UpdateObject(loc[w].obj, row) /\ Goto(w, "cmt_resv")
    BY <1>12 DEF CommitObject
  <2>2. row.flags = loc[w].seen.flags
    BY LocalsFields DEF ObjectRow
  <2>3. SameSide(pc[w], "cmt_resv") /\ pc[w] \in ReclaimPCs
    BY <2>1, ReclaimSides DEF SameSide, AfterPCs, CommitPCs
  <2> QED
    BY <2>1, <2>2, <2>3, ObjectWriteGoto
<1>13. CASE AbortObject(w)
  <2>1. /\ UNCHANGED <<phase, plan, entry, mode, archiveUp, rpc, rec, loc>>
        /\ lost => lost' /\ grace' \subseteq grace
        /\ pc[w] = "abort"
        /\ UpdateObject(loc[w].obj, loc[w].seen) /\ Goto(w, "abort_resv")
    BY <1>13 DEF AbortObject
  <2>2. SameSide(pc[w], "abort_resv") /\ pc[w] \in ReclaimPCs
    BY <2>1, ReclaimSides DEF SameSide, BeforePCs, AbortPCs
  <2> QED
    BY <2>1, <2>2, ObjectWriteGoto
<1>14. CASE ReclaimValidated(w)
  <2>1. /\ UNCHANGED <<object, entry, mode, archiveUp, rpc, rec, loc, plan>>
        /\ lost => lost' /\ grace' \subseteq grace
        /\ pc[w] = "validate" /\ Goto(w, "survive")
        /\ phase' = [phase EXCEPT ![loc[w].att] = "VALIDATED"]
    BY <1>14 DEF ReclaimValidated, UpdateJournalPhase
  <2>2. /\ pc[w] \in BeforePCs /\ pc[w] \in ReclaimPCs
        /\ "survive" \in BeforePCs /\ "VALIDATED" \in PrePhysical
    BY <2>1, ReclaimSides DEF BeforePCs, PrePhysical
  <2> QED
    BY <2>1, <2>2, JournalWrite
<1>15. CASE StartPhysical(w)
  <2>1. /\ UNCHANGED <<object, entry, mode, archiveUp, rpc, rec, loc>>
        /\ lost => lost' /\ grace' \subseteq grace
        /\ pc[w] = "start" /\ Goto(w, "delete")
        /\ phase' = [phase EXCEPT ![loc[w].att] = "PHYSICAL_STARTED"]
        /\ plan' = [plan EXCEPT ![loc[w].att] = loc[w].todo]
    BY <1>15 DEF StartPhysical
  <2>2. /\ pc[w] \in ReclaimPCs
        /\ "delete" \in AfterPCs /\ "PHYSICAL_STARTED" \in PhysicalPhases
    BY <2>1, ReclaimSides DEF BeforePCs, AfterPCs
  <2>3. \A b \in Attempts \ {loc[w].att} : plan'[b] = plan[b]
    BY <2>1 DEF TypeInv, TypeOK, JournalTypeOK
  <2> QED
    BY <2>1, <2>2, <2>3, JournalWrite
<1>16. CASE PhysicalDone(w)
  <2>1. /\ UNCHANGED <<object, entry, mode, archiveUp, rpc, rec, loc, plan>>
        /\ lost => lost' /\ grace' \subseteq grace
        /\ pc[w] = "done" /\ Goto(w, "commit")
        /\ phase' = [phase EXCEPT ![loc[w].att] = "PHYSICAL_DONE"]
    BY <1>16 DEF PhysicalDone, UpdateJournalPhase
  <2>2. /\ pc[w] \in ReclaimPCs
        /\ "commit" \in AfterPCs /\ "PHYSICAL_DONE" \in PhysicalPhases
    BY <2>1, ReclaimSides DEF AfterPCs
  <2> QED
    BY <2>1, <2>2, JournalWrite
<1>17. CASE CommitJournal(w) \/ AbortJournal(w)
  <2>1. /\ UNCHANGED <<object, entry, mode, archiveUp, rpc, rec, plan>>
        /\ lost => lost' /\ grace' \subseteq grace
        /\ pc[w] \in {"cmt_jrnl", "abort_jrnl"}
        /\ Goto(w, "idle") /\ SetLocals(w, NoLocals)
    BY <1>17 DEF CommitJournal, AbortJournal, CloseJournal, Return
  <2>2. PICK s \in {"COMMITTED", "ROLLED_BACK"} :
          phase' = [phase EXCEPT ![loc[w].att] = s]
    BY <1>17 DEF CommitJournal, AbortJournal, CloseJournal, UpdateJournalPhase
  <2>3. pc[w] \in ReclaimPCs
    BY <2>1, ReclaimSides DEF BeforePCs, AfterPCs, AbortPCs, CommitPCs
  <2> QED
    BY <2>1, <2>2, <2>3, JournalWrite
<1> QED
  BY <1>1, <1>2, <1>3, <1>4, <1>5, <1>6, <1>7, <1>8, <1>9, <1>10, <1>11,
     <1>12, <1>13, <1>14, <1>15, <1>16, <1>17, <1>18, <1>19
  DEF ReclaimStep

\* An error before the physical phase aborts or returns, one after it fences.
LEMMA StepFailsWork ==
  ASSUME TypeInv, NEW w \in Workers, Silent(w),
         pc[w] \in EnteringPCs \cup ClosurePCs, StepFails(w)
  PROVE  WorkStep(w)
<1>1. ErrorTarget(w) = "idle" => pc[w] \notin AfterPCs
  <2> SUFFICES ASSUME pc[w] \in AfterPCs PROVE ErrorTarget(w) # "idle"
    OBVIOUS
  <2>1. pc[w] \in {"delete", "check", "done", "commit"} \cup CommitPCs
    BY DEF AfterPCs, EnteringPCs, ClosurePCs, AbortPCs, CommitPCs
  <2>2. ErrorTarget(w) = "fence"
    BY <2>1, Zenon DEF ErrorTarget, CommitPCs
  <2> QED
    BY <2>2
<1>2. ErrorTarget(w) # "idle" => SameSide(pc[w], ErrorTarget(w))
  <2>1. CASE pc[w] \in {"survive", "graph", "deps", "start"}
    <3>1. ErrorTarget(w) = "abort"
      BY <2>1, Zenon DEF ErrorTarget, CommitPCs
    <3> QED
      BY <2>1, <3>1 DEF SameSide, BeforePCs
  <2>2. CASE pc[w] \in {"delete", "check", "done", "commit"} \cup CommitPCs
    <3>1. ErrorTarget(w) = "fence"
      BY <2>2, Zenon DEF ErrorTarget, CommitPCs
    <3> QED
      BY <2>2, <3>1 DEF SameSide, AfterPCs
  <2>3. CASE pc[w] \notin {"survive", "graph", "deps", "start", "delete", "check",
                         "done", "commit"} \cup CommitPCs
    <3>1. \/ ErrorTarget(w) = "idle"
          \/ /\ ErrorTarget(w) \in {"undo", "undo_lock", "create_unref",
                                   "create_unblob", "arc_unrow", "arc_unblob"}
             /\ pc[w] \in {"create_ref", "create_write", "create_unref",
                           "create_unblob", "create_insert", "create_row",
                           "publish", "arc_insert", "arc_obj"}
      BY <2>3, Zenon DEF ErrorTarget
    <3> QED
      BY <3>1, OtherPCs DEF SameSide, CreatePCs, ArchivePCs
  <2> QED
    BY <2>1, <2>2, <2>3
<1>3. CASE ErrorTarget(w) = "idle"
  BY <1>1, <1>3, SilentReturn DEF StepFails
<1>4. CASE ErrorTarget(w) # "idle"
  BY <1>2, <1>4, LocalsMoved, SilentGoto DEF StepFails
<1> QED
  BY <1>3, <1>4

LEMMA FaultWork ==
  ASSUME TypeInv, NEW w \in Workers, WorkerFault(w)
  PROVE  WorkStep(w)
<1> USE DEF Silent, storeVars, journalVars, procVars, recVars
<1>1. CASE StatementError(w)
  <2>1. pc[w] \in EnteringPCs \cup ClosurePCs /\ StepFails(w)
    BY <1>1 DEF StatementError, CallsStore
  <2>2. pc[w] \notin {"idle", "recover"}
    BY <2>1 DEF EnteringPCs, ClosurePCs, CommitPCs, AbortPCs
  <2>3. Silent(w)
    BY <1>1, <2>2 DEF StatementError, Enter, Within
  <2> QED
    BY <2>1, <2>3, StepFailsWork
<1>2. CASE EntryHeartbeatError(w)
  <2>1. pc[w] \in EnteringPCs \cup ClosurePCs /\ StepFails(w)
    BY <1>2 DEF EntryHeartbeatError, CallsStore
  <2>2. pc[w] \notin {"idle", "recover"}
    BY <1>2 DEF EntryHeartbeatError, CallsStore, EnteringPCs
  <2>3. Silent(w)
    BY <1>2, <2>2 DEF EntryHeartbeatError, Fence
  <2> QED
    BY <2>1, <2>3, StepFailsWork
<1>3. CASE WriteError(w)
  <2>1. Silent(w) /\ pc[w] = "create_write" /\ Goto(w, "undo") /\ UNCHANGED loc
    BY <1>3 DEF WriteError, Enter
  <2> QED
    BY <2>1, OtherPCs, LocalsMoved, SilentGoto DEF SameSide, CreatePCs
<1>4. CASE ReadError(w)
  <2>1. Silent(w) /\ UNCHANGED loc
    BY <1>4 DEF ReadError, Enter
  <2>2. \/ pc[w] = "create_ref" /\ Goto(w, "undo")
        \/ pc[w] = "check" /\ Goto(w, "fence")
    BY <1>4 DEF ReadError
  <2>3. SameSide("create_ref", "undo") /\ SameSide("check", "fence")
    BY OtherPCs DEF SameSide, CreatePCs, AfterPCs
  <2> QED
    BY <2>1, <2>2, <2>3, LocalsMoved, SilentGoto
<1>5. CASE ArchiveError(w)
  <2>1. Silent(w)
    BY <1>5 DEF ArchiveError
  <2>2. \/ pc[w] = "arch" /\ Goto(w, "fence") /\ UNCHANGED loc
        \/ pc[w] \in ArchivePCs /\ Return(w)
    BY <1>5 DEF ArchiveError, ArchivePCs
  <2>3. SameSide("arch", "fence")
    BY DEF SameSide, AfterPCs
  <2> QED
    BY <2>1, <2>2, <2>3, OtherPCs, ReclaimSides, LocalsMoved, SilentGoto,
       SilentReturn
<1>6. ASSUME NEW p \in Payloads, DeleteError(w, p) PROVE WorkStep(w)
  <2>1. Silent(w)
    BY <1>6 DEF DeleteError, Enter
  <2>2. \/ pc[w] = "create_unblob" /\ Goto(w, "undo") /\ UNCHANGED loc
        \/ pc[w] = "delete" /\ Goto(w, "fence") /\ UNCHANGED loc
        \/ pc[w] = "undo_blob" /\ Return(w)
    BY <1>6, Zenon DEF DeleteError
  <2>3. /\ SameSide("create_unblob", "undo") /\ SameSide("delete", "fence")
        /\ "undo_blob" \notin AfterPCs
    BY OtherPCs, ReclaimSides DEF SameSide, CreatePCs, AfterPCs
  <2> QED
    BY <2>1, <2>2, <2>3, LocalsMoved, SilentGoto, SilentReturn
<1>7. ASSUME NEW p \in Payloads, VerifyReadError(w, p) PROVE WorkStep(w)
  <2>1. Silent(w) /\ pc[w] \in VerifyPCs /\ Goto(w, "ver_inval")
    BY <1>7 DEF VerifyReadError, Enter, VerifyPCs
  <2>2. LocalsMove(w)
    BY <1>7, LocalsMoved DEF VerifyReadError
  <2> QED
    BY <2>1, <2>2, OtherPCs, SilentGoto DEF SameSide, VerifyPCs
<1> QED
  BY <1>1, <1>2, <1>3, <1>4, <1>5, <1>6, <1>7 DEF WorkerFault

LEMMA WorkerWork ==
  ASSUME TypeInv, JournalInv, NEW w \in Workers, WorkerStep(w)
  PROVE  WorkStep(w)
<1>1. CASE FlagWrite(w)
  <2> DEFINE row == [loc[w].seen EXCEPT !.flags = FlagResult(pc[w], @)]
  <2>1. /\ UNCHANGED <<phase, plan, entry, mode, archiveUp, rpc, rec>>
        /\ lost => w \in grace /\ lost' /\ grace' \subseteq grace
        /\ pc[w] \in FlagOps /\ Return(w) /\ UpdateObject(loc[w].obj, row)
    BY <1>1 DEF FlagWrite, Enter, journalVars, procVars, recVars
  <2>2. row.state = loc[w].seen.state
    BY LocalsFields DEF ObjectRow
  <2>3. loc[w].seen.state = object[loc[w].obj].state
    BY <2>1 DEF JournalInv, WorkerOrder
  <2>4. pc[w] \notin ReclaimPCs \cup {"idle", "recover"}
    BY <2>1, ReclaimSides DEF FlagOps
  <2> QED
    BY <2>1, <2>2, <2>3, <2>4, ObjectWriteReturn
<1>2. CASE AuthorityError(w)
  <2>1. pc[w] \in EnteringPCs \cup ClosurePCs /\ StepFails(w)
    BY <1>2 DEF AuthorityError, CallsStore
  <2>2. Silent(w)
    BY <1>2
    DEF AuthorityError, CallsStore, EnteringPCs, Silent, storeVars, journalVars,
        procVars, recVars
  <2> QED
    BY <2>1, <2>2, StepFailsWork
<1> QED
  BY <1>1, <1>2, CreateWork, ReclaimWork, VerifyWork, ArchiveWork DEF WorkerStep

-----------------------------------------------------------------------------
(* Requests begin. *)

\* check_survivability takes all copies of the object into account.
LEMMA SurvivesNone ==
  ASSUME TypeInv, NEW o \in Objects, NEW e, e.rows = rows[o], e.arch = arch[o],
         Survives(o, e)
  PROVE  MinValidCopies[Class[o]] = 0
<1>1. IsFiniteSet(ValidRows(rows[o]))
  BY ConstantsAssumption, FS_Subset DEF ConstantsAssumption, ValidRows
<1>2. Cardinality(ValidRows(rows[o])) \in Nat
  BY <1>1, FS_CardinalityType
<1>3. ValidCopies(o) \in Nat
  BY <1>2 DEF ValidCopies, TypeInv, TypeOK, StoreTypeOK
<1>4. ValidCopies(o) = Cardinality(ValidRows(e.rows)) + e.arch
  BY DEF ValidCopies
<1>5. 0 >= MinValidCopies[Class[o]]
  BY <1>3, <1>4 DEF Survives
<1>6. MinValidCopies[Class[o]] \in Nat
  BY ConstantsAssumption
  DEF ConstantsAssumption, MinValidCopies, DurabilityClasses
<1> QED
  BY <1>5, <1>6

\* A step that leaves objects, journal and recovery alone, by which the worker
\* w gets to l with an object o but without an attempt.
LEMMA BeginSound ==
  ASSUME TypeInv, JournalInv, RecoveryInv, NEW w \in Workers,
         UNCHANGED <<object, phase, plan, entry, mode, archiveUp, rpc, rec>>,
         Enter(w), UNCHANGED lost, pc[w] = "idle", rpc = "off",
         pc'[w] \notin ReclaimPCs, loc'[w].att = None,
         \A v \in Workers \ {w} : pc'[v] = pc[v] /\ loc'[v] = loc[v]
  PROVE  RecoveryInv' /\ SoundStep
<1>1. w \notin grace' /\ grace' \subseteq grace /\ mode = "up"
  BY DEF Enter
<1>2. None \notin Attempts
  BY LocalsOf
<1>3. \A a \in Attempts : EntrySound(a)'
  BY DEF RecoveryInv, EntrySound
<1>4. ASSUME NEW v \in Workers PROVE ReclaimSound(v)'
  <2>1. CASE v = w
    BY <1>2, <2>1, ReclaimSides DEF ReclaimSound
  <2>2. CASE v # w
    BY <2>2 DEF RecoveryInv, ReclaimSound
  <2> QED
    BY <2>1, <2>2
<1>5. DecisionSound' /\ RecoveryCovers'
      /\ (mode' = "starting" => rpc' # "off" /\ rec'.by = None)
  BY <1>1 DEF DecisionSound, RecoveryCovers, RollbackPCs, RecCommitPCs
<1>6. Fenced'
  <2> SUFFICES ASSUME ~ArchiveMayVanish, NEW b \in Attempts,
                      phase'[b] \in PhysicalPhases
               PROVE  EntryFenced(b)'
    BY DEF RecoveryInv, Fenced
  <2>1. EntryFenced(b)
    BY DEF RecoveryInv, Fenced
  <2>2. \A v \in Workers : loc[v].att = b => v # w
    BY <1>2, IdleHasNone
  <2>3. CASE \E v \in Workers : loc[v].att = b
    BY <2>1, <2>2, <2>3 DEF EntryFenced
  <2>4. CASE ~\E v \in Workers : loc[v].att = b
    BY <1>1, <2>1, <2>4 DEF EntryFenced
  <2> QED
    BY <2>3, <2>4
<1>7. ~ArchiveMayVanish => FencesStep
  BY IdleHasNone DEF FencesStep
<1> QED
  BY <1>1, <1>3, <1>4, <1>5, <1>6, <1>7
  DEF RecoveryInv, SoundStep, DurableStep, FlaggedStep, Reclaims, RealityStep,
      StartStep, ActiveRecovery

\* Reserve.
LEMMA ReserveSound ==
  ASSUME TypeInv, JournalInv, RecoveryInv, NEW w \in Workers, NEW o \in Objects,
         NEW a \in Attempts, Reserve(w, o, a)
  PROVE  RecoveryInv' /\ SoundStep
<1> DEFINE e == [obj |-> o, prior |-> object[o], rows |-> rows[o],
                 arch |-> arch[o]]
           r == [loc[w] EXCEPT !.obj = o, !.att = a, !.seen = object[o],
                               !.todo = Rows(o)]
<1>1. /\ pc[w] = "idle" /\ mode = "up" /\ phase[a] = "NONE" /\ rpc = "off"
      /\ object[o].flags = {} /\ object[o].state # "RECLAIMED"
      /\ Survives(o, e) /\ SetLocals(w, r)
      /\ grace' = grace \ {w}
      /\ UNCHANGED <<object, plan, mode, lost, archiveUp, rpc, rec>>
  BY DEF Reserve, Enter, ReclaimAllowed, ObjectOperationAllowed, ActiveRecovery,
     storeVars, procVars, recVars
<1>2. PICK l \in {"recomputable", "validate", "pending"} : Goto(w, l)
  BY Zenon DEF Reserve
<1>3. pc'[w] = l /\ \A v \in Workers \ {w} : pc'[v] = pc[v]
  BY <1>2, GotoFrame
<1>4. loc'[w] = r /\ \A v \in Workers \ {w} : loc'[v] = loc[v]
  BY <1>1, LocalsFrame
<1>5. r.obj = o /\ r.att = a /\ r.seen = object[o]
  BY LocalsFields DEF Locals
<1>6. /\ phase'[a] = "RESERVED" /\ entry'[a] = e
      /\ \A b \in Attempts \ {a} : phase'[b] = phase[b] /\ entry'[b] = entry[b]
  BY DEF Reserve, TypeInv, TypeOK, JournalTypeOK
<1>7. l \in BeforePCs /\ l \notin AfterPCs /\ "RESERVED" \in PrePhysical
      /\ "RESERVED" \notin PhysicalPhases
  BY <1>2, ReclaimSides DEF BeforePCs, PrePhysical
<1>8. ASSUME NEW b \in Attempts PROVE EntrySound(b)'
  <2>1. EntrySound(b)
    BY DEF RecoveryInv
  <2>2. CASE b # a
    BY <1>1, <1>6, <2>1, <2>2 DEF EntrySound
  <2>3. CASE b = a
    <3>1. MinValidCopies[Class[o]] = 0
      BY <1>1, SurvivesNone
    <3>2. plan[a] = {}
      BY <1>1, <2>1, <2>3 DEF EntrySound
    <3> QED
      BY <1>1, <1>6, <2>3, <3>1, <3>2 DEF EntrySound
  <2> QED
    BY <2>2, <2>3
<1>9. ASSUME NEW v \in Workers PROVE ReclaimSound(v)'
  <2>1. CASE v = w
    <3>1. loc'[v].obj = o /\ loc'[v].att = a /\ loc'[v].seen = object[o]
      BY <1>4, <1>5, <2>1
    <3>2. pc'[v] \in BeforePCs /\ pc'[v] \notin AfterPCs /\ pc'[v] \in ReclaimPCs
      BY <1>3, <1>7, <2>1, ReclaimSides
    <3>3. phase'[a] \in PrePhysical /\ object' = object
      BY <1>1, <1>6, <1>7
    <3> HIDE DEF r, e
    <3> QED
      BY <1>1, <3>1, <3>2, <3>3 DEF ReclaimSound
  <2>2. CASE v # w
    <3>1. pc'[v] = pc[v] /\ loc'[v] = loc[v] /\ ReclaimSound(v) /\ WorkerOwns(v)
      BY <1>3, <1>4, <2>2 DEF RecoveryInv, JournalInv
    <3>2. loc[v].att \in Attempts => loc[v].att # a
      BY <1>1, <3>1 DEF WorkerOwns
    <3> QED
      BY <1>1, <1>6, <3>1, <3>2, ReclaimSides DEF ReclaimSound, WorkerOwns
  <2> QED
    BY <2>1, <2>2
<1>10. DecisionSound' /\ RecoveryCovers'
      /\ (mode' = "starting" => rpc' # "off" /\ rec'.by = None)
  BY <1>1 DEF DecisionSound, RecoveryCovers, RollbackPCs, RecCommitPCs
<1>11. Fenced'
  <2> SUFFICES ASSUME ~ArchiveMayVanish, NEW b \in Attempts,
                      phase'[b] \in PhysicalPhases
               PROVE  EntryFenced(b)'
    BY <1>1 DEF RecoveryInv, Fenced
  <2>1. b # a /\ phase'[b] = phase[b] /\ entry'[b] = entry[b]
    BY <1>6, <1>7
  <2>2. EntryFenced(b)
    BY <2>1 DEF RecoveryInv, Fenced
  <2>3. loc[w].att # b
    BY <1>1, IdleHasNone, LocalsOf
  <2>4. CASE \E v \in Workers : loc[v].att = b
    BY <1>1, <1>4, <2>1, <2>2, <2>3, <2>4 DEF EntryFenced
  <2>5. CASE ~\E v \in Workers : loc[v].att = b
    <3>1. lost /\ \A v \in Workers : loc[v].obj = entry[b].obj => v \notin grace
      BY <1>1, <2>2, <2>5 DEF EntryFenced
    <3> QED
      BY <1>1, <1>4, <2>1, <2>2, <3>1 DEF EntryFenced
  <2> QED
    BY <2>4, <2>5
<1>12. FencesStep
  BY <1>1, <1>2, <1>3, IdleHasNone DEF FencesStep
<1> QED
  BY <1>1, <1>8, <1>9, <1>10, <1>11, <1>12
  DEF RecoveryInv, SoundStep, DurableStep, FlaggedStep, Reclaims, RealityStep,
      StartStep, ActiveRecovery

LEMMA RequestSound ==
  ASSUME TypeInv, JournalInv, RecoveryInv, NEW w \in Workers, Request(w)
  PROVE  RecoveryInv' /\ SoundStep
<1> USE DEF storeVars, journalVars, procVars, recVars
<1>1. ASSUME NEW r, r.att = loc[w].att, NEW l \in PCs \ ReclaimPCs,
             Goto(w, l), SetLocals(w, r), Enter(w), pc[w] = "idle", rpc = "off",
             UNCHANGED <<object, phase, plan, entry, procVars, recVars>>
      PROVE  RecoveryInv' /\ SoundStep
  <2>1. /\ pc'[w] = l /\ loc'[w] = r
        /\ \A v \in Workers \ {w} : pc'[v] = pc[v] /\ loc'[v] = loc[v]
    BY <1>1, GotoFrame, LocalsFrame
  <2>2. r.att = None
    BY <1>1, IdleHasNone
  <2> QED
    BY <1>1, <2>1, <2>2, BeginSound
<1>2. FlagOps \cup CreatePCs \cup VerifyPCs \cup ArchivePCs \subseteq PCs \ ReclaimPCs
  BY OtherPCs, ReclaimSides DEF PCs
<1>3. ASSUME NEW o \in Objects, NEW kind \in FlagOps, FlagBegin(w, o, kind)
      PROVE  RecoveryInv' /\ SoundStep
  <2> DEFINE r == [loc[w] EXCEPT !.obj = o, !.seen = object[o]]
  <2>1. r.att = loc[w].att
    BY LocalsFields DEF Locals
  <2>2. /\ Goto(w, kind) /\ SetLocals(w, r) /\ Enter(w) /\ pc[w] = "idle"
        /\ rpc = "off" /\ UNCHANGED <<object, phase, plan, entry, procVars, recVars>>
    BY <1>3 DEF FlagBegin, ObjectOperationAllowed, ActiveRecovery
  <2> QED
    BY <1>1, <1>2, <2>1, <2>2
<1>4. ASSUME NEW o \in Objects, CreateBegin(w, o) PROVE RecoveryInv' /\ SoundStep
  <2> DEFINE r == [loc[w] EXCEPT !.obj = o, !.todo = Targets[o]]
  <2>1. r.att = loc[w].att
    BY LocalsFields DEF Locals
  <2>2. PICK l \in CreatePCs : Goto(w, l)
    BY <1>4 DEF CreateBegin, CreatePCs
  <2>3. /\ SetLocals(w, r) /\ Enter(w) /\ pc[w] = "idle"
        /\ rpc = "off" /\ UNCHANGED <<object, phase, plan, entry, procVars, recVars>>
    BY <1>4 DEF CreateBegin, ObjectOperationAllowed, ActiveRecovery
  <2> QED
    BY <1>1, <1>2, <2>1, <2>2, <2>3
<1>5. ASSUME NEW o \in Objects, VerifyBegin(w, o) PROVE RecoveryInv' /\ SoundStep
  <2> DEFINE r == [loc[w] EXCEPT !.obj = o, !.todo = Rows(o)]
  <2>1. r.att = loc[w].att
    BY LocalsFields DEF Locals
  <2>2. /\ Goto(w, "ver_lock") /\ SetLocals(w, r) /\ Enter(w) /\ pc[w] = "idle"
        /\ rpc = "off" /\ UNCHANGED <<object, phase, plan, entry, procVars, recVars>>
    BY <1>5 DEF VerifyBegin, ObjectOperationAllowed, ActiveRecovery
  <2> QED
    BY <1>1, <1>2, <2>1, <2>2 DEF VerifyPCs
<1>6. ASSUME NEW o \in Objects, ArchiveBegin(w, o) PROVE RecoveryInv' /\ SoundStep
  <2> DEFINE r == [loc[w] EXCEPT !.obj = o, !.seen = object[o]]
  <2>1. r.att = loc[w].att
    BY LocalsFields DEF Locals
  <2>2. /\ Goto(w, "arc_write") /\ SetLocals(w, r) /\ Enter(w) /\ pc[w] = "idle"
        /\ rpc = "off" /\ UNCHANGED <<object, phase, plan, entry, procVars, recVars>>
    BY <1>6 DEF ArchiveBegin, ObjectOperationAllowed, ActiveRecovery
  <2> QED
    BY <1>1, <1>2, <2>1, <2>2 DEF ArchivePCs
<1>7. ASSUME NEW d \in EdgeChoices, AddLineage(w, d) \/ RemoveLineage(w, d)
      PROVE  RecoveryInv' /\ SoundStep
  <2>1. /\ UNCHANGED <<object, phase, plan, entry, procVars, recVars, pc, loc>>
        /\ Enter(w) /\ pc[w] = "idle" /\ rpc = "off"
    BY <1>7 DEF AddLineage, RemoveLineage, LineageAllowed, ActiveRecovery
  <2> QED
    BY <2>1, BeginSound, IdleHasNone, ReclaimSides
<1>8. CASE RecoverRequest(w)
  <2>1. /\ UNCHANGED <<object, phase, plan, entry, procVars, loc, blob>>
        /\ Enter(w) /\ pc[w] = "idle" /\ rpc = "off" /\ Goto(w, "recover")
        /\ rpc' = "scan" /\ rec' = [NoRecovery EXCEPT !.by = w]
        /\ \A v \in Workers : loc[v].obj = None
    BY <1>8 DEF RecoverRequest, ActiveRecovery, ActiveObjects, physVars
  <2>2. pc'[w] = "recover" /\ \A v \in Workers \ {w} : pc'[v] = pc[v]
    BY <2>1, GotoFrame
  <2>3. grace' \subseteq grace /\ mode = "up"
    BY <2>1 DEF Enter
  <2>4. \A a \in Attempts : EntrySound(a)'
    BY <2>1 DEF RecoveryInv, EntrySound
  <2>5. ASSUME NEW v \in Workers PROVE ReclaimSound(v)'
    BY <2>1, <2>2, IdleHasNone, LocalsOf, ReclaimSides DEF RecoveryInv, ReclaimSound
  <2>6. DecisionSound' /\ RecoveryCovers'
    BY <2>1 DEF DecisionSound, RecoveryCovers, RollbackPCs, RecCommitPCs
  <2>7. Fenced'
    BY <2>1, <2>3 DEF RecoveryInv, Fenced, EntryFenced
  <2>8. ~ArchiveMayVanish => FencesStep
    BY <2>1, <2>2, IdleHasNone DEF FencesStep
  <2> QED
    BY <2>1, <2>3, <2>4, <2>5, <2>6, <2>7, <2>8
    DEF RecoveryInv, SoundStep, DurableStep, FlaggedStep, Reclaims, RealityStep,
        StartStep, ActiveRecovery
<1> QED
  BY <1>3, <1>4, <1>5, <1>6, <1>7, <1>8, ReserveSound DEF Request

-----------------------------------------------------------------------------
(* Recovery. *)

\* What a step of recovery may do: it reclaims the object of the entry at
\* hand when it commits the entry, and closes that entry.
RecWork ==
  /\ rpc # "off" /\ rpc' # "off" /\ rec'.by = rec.by
  /\ UNCHANGED <<entry, plan, blob, mode, lost, archiveUp, grace, pc, loc>>
  /\ \A o \in Objects :
       /\ object'[o].flags \in {object[o].flags, {}}
       /\ Reclaims(o) => rpc = "cm_obj" /\ o = entry[rec.att].obj
  /\ \A a \in Attempts :
       phase'[a] # phase[a]
         => /\ a = rec.att
            /\ \/ rpc = "rb_jrnl" /\ phase'[a] = "ROLLED_BACK"
               \/ rpc = "cm_jrnl" /\ phase'[a] = "COMMITTED"

LEMMA EntrySides ==
  /\ AtEntry = RollbackPCs \cup RecCommitPCs
  /\ RollbackPCs \cap RecCommitPCs = {}
  /\ {"off", "scan", "next", "expire", "repair", "lineage", "end"} \cap AtEntry = {}
BY DEF AtEntry, EntryPCs, RollbackPCs, RecCommitPCs

LEMMA RecWorkKeeps ==
  ASSUME TypeInv, JournalInv, RecoveryInv, RecWork, DecisionSound', RecoveryCovers'
  PROVE  RecoveryInv' /\ SoundStep
<1>1. \A w \in Workers : /\ pc[w] \in {"idle", "recover"} /\ pc[w] \notin ReclaimPCs
                         /\ loc[w].obj = None /\ loc[w].att = None
  BY AllIdle, IdleHasNone, ReclaimSides DEF RecWork
<1>2. ASSUME NEW a \in Attempts PROVE EntrySound(a)'
  <2>1. EntrySound(a) /\ entry' = entry /\ plan' = plan
    BY DEF RecoveryInv, RecWork
  <2>2. phase'[a] = phase[a] \/ (phase[a] # "NONE" /\ phase'[a] \in {"ROLLED_BACK", "COMMITTED"})
    BY EntryAtHand, EntrySides DEF RecWork, RollbackPCs, RecCommitPCs
  <2> QED
    BY <2>1, <2>2 DEF EntrySound, PrePhysical
<1>3. ASSUME NEW w \in Workers PROVE ReclaimSound(w)'
  BY <1>1, ReclaimSides, LocalsOf DEF ReclaimSound, RecWork
<1>4. ASSUME NEW a \in Attempts, phase'[a] \in PhysicalPhases
      PROVE  phase[a] \in PhysicalPhases
  BY <1>4, ReclaimSides DEF RecWork
<1>5. Fenced'
  <2> SUFFICES ASSUME ~ArchiveMayVanish, NEW a \in Attempts,
                      phase'[a] \in PhysicalPhases
               PROVE  EntryFenced(a)'
    BY DEF RecoveryInv, Fenced, RecWork
  <2>1. EntryFenced(a) /\ entry[a].obj \in Objects
    BY <1>4, ReclaimSides DEF RecoveryInv, Fenced, JournalInv, EntriesKnown
  <2> QED
    BY <2>1 DEF EntryFenced, RecWork
<1>6. ASSUME NEW o \in Objects, Reclaims(o)
      PROVE  /\ MinValidCopies[Class[o]] = 0
             /\ ~ArchiveMayVanish => object[o].flags = {}
  <2>1. rpc = "cm_obj" /\ o = entry[rec.att].obj /\ rpc \in RecCommitPCs
    BY <1>6 DEF RecWork, RecCommitPCs
  <2>2. rec.att \in Attempts /\ phase[rec.att] # "NONE"
        /\ phase[rec.att] \in PhysicalPhases
    BY <2>1, EntryAtHand, EntrySides DEF RecoveryInv, DecisionSound
  <2> QED
    BY <2>1, <2>2 DEF RecoveryInv, EntrySound, Fenced, EntryFenced
<1>7. DurableStep /\ (~ArchiveMayVanish => FlaggedStep)
  BY <1>6 DEF DurableStep, FlaggedStep
<1>8. FencesStep
  BY <1>1 DEF FencesStep
<1>9. RealityStep
  <2> SUFFICES ASSUME NEW a \in Attempts, phase[a] \in OpenPhases
               PROVE  /\ phase'[a] = "COMMITTED" => \A p \in plan[a] : blob[p] = "absent"
                      /\ phase'[a] = "ROLLED_BACK" => \A p \in plan[a] : blob[p] # "absent"
    BY DEF RealityStep
  <2>1. /\ phase'[a] = "COMMITTED" => rpc \in RecCommitPCs /\ a = rec.att
        /\ phase'[a] = "ROLLED_BACK" => rpc \in RollbackPCs /\ a = rec.att
    BY DEF RecWork, OpenPhases, RecCommitPCs, RollbackPCs
  <2> QED
    BY <2>1 DEF RecoveryInv, DecisionSound
<1>10. StartStep /\ (mode' = "starting" => rpc' # "off" /\ rec'.by = None)
  BY DEF StartStep, RecWork, RecoveryInv
<1> QED
  BY <1>2, <1>3, <1>5, <1>7, <1>8, <1>9, <1>10 DEF RecoveryInv, SoundStep

\* Most steps write neither object rows nor the journal's phases.
RecQuiet ==
  /\ rpc # "off" /\ rpc' # "off" /\ rec'.by = rec.by
  /\ UNCHANGED <<object, phase, entry, plan, blob, mode, lost, archiveUp, grace,
                 pc, loc>>

LEMMA QuietWork ==
  ASSUME TypeInv, RecQuiet
  PROVE  RecWork
BY DEF RecQuiet, RecWork, Reclaims

\* A step goes on with the entry at hand.
LEMMA SameEntry ==
  ASSUME TypeInv, RecoveryInv, UNCHANGED <<phase, plan, blob>>,
         rec'.att = rec.att, rec'.queue = rec.queue, rec'.err = rec.err,
         \/ rpc \in RollbackPCs /\ rpc' \in RollbackPCs
         \/ rpc \in RecCommitPCs /\ rpc' \in RecCommitPCs
  PROVE  DecisionSound' /\ RecoveryCovers'
<1>1. DecisionSound'
  BY EntrySides DEF RecoveryInv, DecisionSound
<1>2. RecoveryCovers'
  BY EntrySides DEF RecoveryInv, RecoveryCovers, OpenAttempts
<1> QED
  BY <1>1, <1>2

\* An error is reported.
LEMMA ErrorReported ==
  ASSUME TypeInv, EntryFails \/ RecoveryFails
  PROVE  DecisionSound' /\ RecoveryCovers' /\ rpc' # "off"
<1>1. rec'.err /\ rpc' \in {"next", "end"}
  BY RecTyped DEF EntryFails, RecoveryFails, RecoveryLocals
<1> QED
  BY <1>1 DEF DecisionSound, RecoveryCovers, RollbackPCs, RecCommitPCs

\* What the backends said of an entry.
LEMMA Decided ==
  ASSUME TypeInv, RecoveryInv, NEW a \in Attempts
  PROVE  /\ RollsBack(a) => \A p \in plan[a] : blob[p] # "absent"
         /\ Commits(a) => /\ phase[a] \in PhysicalPhases
                          /\ \A p \in plan[a] : blob[p] = "absent"
<1>1. phase[a] \in PrePhysical => plan[a] = {}
  BY DEF RecoveryInv, EntrySound
<1>2. plan[a] \subseteq Payloads
  BY DEF TypeInv, TypeOK, JournalTypeOK
<1>3. AllPresent(a) => \A p \in plan[a] : blob[p] # "absent"
  BY DEF AllPresent, Present
<1>4. AllGone(a) => \A p \in plan[a] : blob[p] = "absent"
  BY DEF AllGone, Present
<1> QED
  BY <1>1, <1>3, <1>4, ReclaimSides DEF RollsBack, Commits, NoPhysicalWork

\* A quiet step inside an entry, and one that ends in an error.
LEMMA EntryGoesOn ==
  ASSUME TypeInv, JournalInv, RecoveryInv, RecQuiet,
         rec'.att = rec.att, rec'.queue = rec.queue, rec'.err = rec.err,
         \/ rpc \in RollbackPCs /\ rpc' \in RollbackPCs
         \/ rpc \in RecCommitPCs /\ rpc' \in RecCommitPCs
  PROVE  RecoveryInv' /\ SoundStep
BY QuietWork, SameEntry, RecWorkKeeps DEF RecQuiet

LEMMA EntryIsLeft ==
  ASSUME TypeInv, JournalInv, RecoveryInv, RecQuiet, EntryFails \/ RecoveryFails
  PROVE  RecoveryInv' /\ SoundStep
BY QuietWork, ErrorReported, RecWorkKeeps

\* Recovery writes the object row of the entry at hand.
LEMMA EntryObject ==
  ASSUME TypeInv, JournalInv, RecoveryInv, NEW row,
         UNCHANGED <<phase, entry, plan, blob, mode, lost, archiveUp, grace, pc,
                     loc, rec>>,
         UpdateObject(entry[rec.att].obj, row),
         row.flags \in {object[entry[rec.att].obj].flags, {}},
         row.state = "RECLAIMED"
           => rpc = "cm_obj" \/ object[entry[rec.att].obj].state = "RECLAIMED",
         \/ rpc \in RollbackPCs /\ rpc' \in RollbackPCs
         \/ rpc \in RecCommitPCs /\ rpc' \in RecCommitPCs
  PROVE  RecoveryInv' /\ SoundStep
<1> DEFINE o == entry[rec.att].obj
<1>1. rpc # "off" /\ rpc' # "off" /\ rpc \in AtEntry
  BY EntrySides
<1>2. object'[o] = row /\ \A q \in Objects \ {o} : object'[q] = object[q]
  BY <1>1, EntryAtHand, UpdateFrame
<1>3. RecWork
  BY <1>1, <1>2 DEF RecWork, Reclaims
<1> QED
  BY <1>3, SameEntry, RecWorkKeeps

\* Recovery closes the journal of the entry at hand.
LEMMA EntryJournal ==
  ASSUME TypeInv, JournalInv, RecoveryInv,
         RecJournal("rb_jrnl", "ROLLED_BACK") \/ RecJournal("cm_jrnl", "COMMITTED")
  PROVE  RecoveryInv' /\ SoundStep
<1>1. PICK from, status :
        /\ \/ from = "rb_jrnl" /\ status = "ROLLED_BACK"
           \/ from = "cm_jrnl" /\ status = "COMMITTED"
        /\ RecJournal(from, status)
  OBVIOUS
<1>2. /\ UNCHANGED <<object, entry, plan, blob, mode, lost, archiveUp, grace, pc,
                     loc, rec>>
      /\ rpc = from /\ rpc' = "next"
      /\ phase' = [phase EXCEPT ![rec.att] = status]
  BY <1>1 DEF RecJournal, RecAt, RecGoto, UpdateJournalPhase, storeVars,
     physVars, procVars, workVars
<1>3. rpc \in AtEntry /\ rec.att \in Attempts
  BY <1>1, <1>2, EntryAtHand DEF AtEntry, EntryPCs
<1>4. /\ phase'[rec.att] = status
      /\ \A b \in Attempts \ {rec.att} : phase'[b] = phase[b]
  BY <1>2, <1>3 DEF TypeInv, TypeOK, JournalTypeOK
<1>5. RecWork
  BY <1>1, <1>2, <1>3, <1>4 DEF RecWork, Reclaims, AtEntry, EntryPCs
<1>6. DecisionSound'
  BY <1>2 DEF DecisionSound, RollbackPCs, RecCommitPCs
<1>7. RecoveryCovers'
  <2>1. status \notin OpenPhases
    BY <1>1 DEF OpenPhases
  <2>2. rpc \notin {"off", "scan", "expire", "repair", "lineage", "end"}
    BY <1>1, <1>2
  <2> QED
    BY <1>2, <1>3, <1>4, <2>1, <2>2
    DEF RecoveryInv, RecoveryCovers, OpenAttempts, AtEntry, EntryPCs
<1> QED
  BY <1>5, <1>6, <1>7, RecWorkKeeps

\* Recovery ends: without an error there is nothing left open.
LEMMA EndSound ==
  ASSUME TypeInv, JournalInv, RecoveryInv, RecEnd
  PROVE  RecoveryInv' /\ SoundStep
<1>1. /\ rpc = "end" /\ rpc' = "off" /\ rec' = NoRecovery /\ rpc \notin AtEntry
      /\ UNCHANGED <<object, phase, entry, plan, blob, lost, archiveUp, grace>>
  BY DEF RecEnd, RecAt, storeVars, journalVars, physVars, AtEntry, EntryPCs
<1>2. \A w \in Workers : pc[w] \in {"idle", "recover"} /\ loc[w] = NoLocals
                         /\ loc[w].att = None /\ loc[w].obj = None
  BY <1>1, AllIdle, IdleHasNone
<1>3. \A w \in Workers : pc'[w] \in {"idle", "recover"} /\ loc'[w] = NoLocals
  <2>1. CASE rec.by = None
    BY <1>2, <2>1 DEF RecEnd
  <2>2. CASE rec.by # None
    <3>1. rec.by \in Workers /\ Return(rec.by)
      BY <2>2, RecTyped DEF RecEnd, RecoveryLocals
    <3> QED
      BY <1>2, <3>1, ReturnOwns
  <2> QED
    BY <2>1, <2>2
<1>4. mode' = mode \/ mode' = "down" \/ (mode' = "up" /\ ~rec.err)
  BY DEF RecEnd
<1>5. ASSUME ~rec.err
      PROVE  /\ OpenAttempts = {} /\ RowsHaveParents /\ dedup = ExactCounts
             /\ \A o \in Objects : object[o].state # "RECLAIM_PENDING"
  <2>1. rec.queue = {} /\ RowsHaveParents /\ dedup = ExactCounts
    BY <1>1, <1>5 DEF RecoveryInv, RecoveryCovers
  <2>2. OpenAttempts = {}
    BY <1>1, <1>5, <2>1 DEF RecoveryInv, RecoveryCovers
  <2> QED
    BY <2>1, <2>2 DEF JournalInv, JournalCovers
<1>6. \A a \in Attempts : EntrySound(a)'
  BY <1>1 DEF RecoveryInv, EntrySound
<1>7. ASSUME NEW w \in Workers PROVE ReclaimSound(w)'
  <2>1. loc'[w].att \notin Attempts /\ pc'[w] \notin ReclaimPCs
    BY <1>3, ReclaimSides, LocalsOf
  <2> QED
    BY <2>1, ReclaimSides DEF ReclaimSound
<1>8. DecisionSound' /\ RecoveryCovers'
  BY <1>1 DEF DecisionSound, RecoveryCovers, RollbackPCs, RecCommitPCs
<1>9. mode' # "starting"
  BY DEF RecEnd, RecoveryInv
<1>10. Fenced'
  <2> SUFFICES ASSUME ~ArchiveMayVanish, NEW a \in Attempts,
                      phase[a] \in PhysicalPhases
               PROVE  EntryFenced(a)'
    BY <1>1 DEF RecoveryInv, Fenced
  <2>1. EntryFenced(a) /\ a \in OpenAttempts
    BY DEF RecoveryInv, Fenced, PhysicalPhases, OpenAttempts
  <2>2. \A w \in Workers : loc'[w].att = loc[w].att /\ loc'[w].obj = loc[w].obj
    BY <1>2, <1>3
  <2>3. mode' = mode \/ mode' = "down"
    BY <1>4, <1>5, <2>1
  <2> QED
    BY <1>1, <2>1, <2>2, <2>3 DEF EntryFenced
<1>11. StartStep
  BY <1>4, <1>5 DEF StartStep
<1>12. DurableStep /\ FlaggedStep /\ RealityStep
  BY <1>1 DEF DurableStep, FlaggedStep, Reclaims, RealityStep, OpenPhases
<1>13. FencesStep
  BY <1>2 DEF FencesStep
<1> QED
  BY <1>6, <1>7, <1>8, <1>9, <1>10, <1>11, <1>12, <1>13
  DEF RecoveryInv, SoundStep

\* Recovery takes an entry from its queue.
LEMMA NextSound ==
  ASSUME TypeInv, JournalInv, RecoveryInv, NEW a \in Attempts, RecNext(a)
  PROVE  RecoveryInv' /\ SoundStep
<1> DEFINE r == [rec EXCEPT !.queue = @ \ {a},
                            !.att = a,
                            !.todo = JournalRows(a),
                            !.err = @ \/ ~(RollsBack(a) \/ Commits(a))]
<1>1. /\ rpc = "next" /\ a \in rec.queue /\ rec' = r
      /\ UNCHANGED <<object, phase, entry, plan, blob, mode, lost, archiveUp,
                     grace, pc, loc>>
  BY DEF RecNext, RecAt, storeVars, journalVars, physVars, procVars, workVars
<1>2. /\ rec'.att = a /\ rec'.queue = rec.queue \ {a} /\ rec'.by = rec.by
      /\ rec'.err <=> rec.err \/ ~(RollsBack(a) \/ Commits(a))
  BY <1>1, RecTyped DEF RecoveryLocals
<1>3. /\ rpc' \in {"rb_obj", "cm_row", "next"}
      /\ rpc' = "rb_obj" => RollsBack(a)
      /\ rpc' = "cm_row" => Commits(a)
      /\ rpc' = "next" => ~RollsBack(a) /\ ~Commits(a)
  BY DEF RecNext
<1>4. RecWork
  BY <1>1, <1>2, <1>3, QuietWork DEF RecQuiet
<1>5. DecisionSound'
  BY <1>1, <1>2, <1>3, Decided DEF DecisionSound, RollbackPCs, RecCommitPCs
<1>6. RecoveryCovers'
  <2>1. ASSUME ~rec'.err PROVE rpc' \in AtEntry
    BY <1>2, <1>3, <2>1 DEF AtEntry, EntryPCs
  <2>2. ASSUME ~rec.err, NEW b \in OpenAttempts PROVE b \in rec.queue
    BY <1>1, <2>2 DEF RecoveryInv, RecoveryCovers, AtEntry, EntryPCs
  <2> QED
    BY <1>1, <1>2, <1>3, <2>1, <2>2 DEF RecoveryCovers, OpenAttempts
<1> QED
  BY <1>4, <1>5, <1>6, RecWorkKeeps

LEMMA RecoverySound ==
  ASSUME TypeInv, JournalInv, RecoveryInv, RecoveryStep
  PROVE  RecoveryInv' /\ SoundStep
<1> USE DEF RecAt, RecGoto
<1>1. CASE RecScan
  <2>1. /\ rpc = "scan" /\ rpc' = "next" /\ rec' = [rec EXCEPT !.queue = OpenAttempts]
        /\ UNCHANGED <<object, phase, entry, plan, blob, mode, lost, archiveUp,
                       grace, pc, loc>>
    BY <1>1 DEF RecScan, storeVars, journalVars, physVars, procVars,
       workVars
  <2>2. rec'.queue = OpenAttempts /\ rec'.by = rec.by
    BY <2>1, RecTyped DEF RecoveryLocals, OpenAttempts
  <2>3. DecisionSound' /\ RecoveryCovers'
    BY <2>1, <2>2 DEF DecisionSound, RecoveryCovers, RollbackPCs, RecCommitPCs,
       OpenAttempts
  <2> QED
    BY <2>1, <2>2, <2>3, QuietWork, RecWorkKeeps DEF RecQuiet
<1>2. ASSUME NEW a \in Attempts, RecNext(a) PROVE RecoveryInv' /\ SoundStep
  BY <1>2, NextSound
<1>3. CASE RecQueueEmpty
  <2>1. /\ rpc = "next" /\ rpc' = "expire" /\ rec' = rec /\ rec.queue = {}
        /\ UNCHANGED <<object, phase, entry, plan, blob, mode, lost, archiveUp,
                       grace, pc, loc>>
    BY <1>3 DEF RecQueueEmpty, storeVars, journalVars, physVars, procVars,
       workVars
  <2>2. DecisionSound'
    BY <2>1 DEF DecisionSound, RollbackPCs, RecCommitPCs
  <2>3. RecoveryCovers'
    BY <2>1 DEF RecoveryInv, RecoveryCovers, OpenAttempts, AtEntry, EntryPCs
  <2> QED
    BY <2>1, <2>2, <2>3, QuietWork, RecWorkKeeps DEF RecQuiet
<1>4. CASE RollbackObject
  <2> DEFINE o == entry[rec.att].obj
             row == RestoredObject(object[o], entry[rec.att].prior)
  <2>1. /\ rpc = "rb_obj" /\ rpc' = "rb_row" /\ UpdateObject(o, row)
        /\ UNCHANGED <<phase, entry, plan, blob, mode, lost, archiveUp, grace, pc,
                       loc, rec>>
    BY <1>4 DEF RollbackObject, storeVars, journalVars, physVars, procVars,
       workVars
  <2>2. rpc \in RollbackPCs /\ rpc' \in RollbackPCs /\ rpc \in AtEntry
    BY <2>1, EntrySides DEF RollbackPCs
  <2>3. entry[rec.att].prior.flags = {} /\ entry[rec.att].prior.state # "RECLAIMED"
    BY <2>2, EntryAtHand DEF RecoveryInv, EntrySound
  <2>4. /\ row.flags \in {object[o].flags, {}}
        /\ row.state = "RECLAIMED" => object[o].state = "RECLAIMED"
    BY <2>3 DEF RestoredObject
  <2> QED
    BY <2>1, <2>2, <2>4, EntryObject
<1>5. CASE RecCommitObject
  <2> DEFINE o == entry[rec.att].obj
             row == [object[o] EXCEPT !.state = "RECLAIMED"]
  <2>1. /\ rpc = "cm_obj" /\ rpc' = "cm_resv" /\ UpdateObject(o, row)
        /\ UNCHANGED <<phase, entry, plan, blob, mode, lost, archiveUp, grace, pc,
                       loc, rec>>
    BY <1>5 DEF RecCommitObject, storeVars, journalVars, physVars, procVars,
       workVars
  <2>2. rpc \in RecCommitPCs /\ rpc' \in RecCommitPCs /\ rpc \in AtEntry
    BY <2>1, EntrySides DEF RecCommitPCs
  <2>3. row.flags = object[o].flags
    BY <2>2, EntryAtHand, ObjectTyped DEF ObjectRow
  <2> QED
    BY <2>1, <2>2, <2>3, EntryObject
<1>6. CASE RollbackJournal \/ RecCommitJournal
  BY <1>6, EntryJournal DEF RollbackJournal, RecCommitJournal
<1>7. CASE RecEnd
  BY <1>7, EndSound
<1>8. ASSUME NEW p \in Payloads, RollbackRow(p) PROVE RecoveryInv' /\ SoundStep
  <2>1. RecQuiet /\ rec'.att = rec.att /\ rec'.queue = rec.queue /\ rec'.err = rec.err
    BY <1>8, RecTyped DEF RollbackRow, RecQuiet, RecoveryLocals,
       storeVars, journalVars, physVars, procVars,
       workVars
  <2>2. rpc \in RollbackPCs /\ rpc' \in RollbackPCs
    BY <1>8 DEF RollbackRow, RollbackPCs
  <2> QED
    BY <2>1, <2>2, EntryGoesOn
<1>9. CASE RollbackRowsDone
  <2>1. RecQuiet /\ rec'.att = rec.att /\ rec'.queue = rec.queue /\ rec'.err = rec.err
    BY <1>9, RecTyped DEF RollbackRowsDone, RecQuiet, RecoveryLocals,
       storeVars, journalVars, physVars, procVars,
       workVars
  <2>2. rpc \in RollbackPCs /\ rpc' \in RollbackPCs
    BY <1>9 DEF RollbackRowsDone, RollbackPCs
  <2> QED
    BY <2>1, <2>2, EntryGoesOn
<1>10. CASE RollbackArchive
  <2>1. RecQuiet /\ rec'.att = rec.att /\ rec'.queue = rec.queue /\ rec'.err = rec.err
    BY <1>10, RecTyped DEF RollbackArchive, RecQuiet, RecoveryLocals,
       storeVars, journalVars, physVars, procVars,
       workVars
  <2>2. rpc \in RollbackPCs /\ rpc' \in RollbackPCs
    BY <1>10 DEF RollbackArchive, RollbackPCs
  <2> QED
    BY <2>1, <2>2, EntryGoesOn
<1>11. ASSUME NEW p \in Payloads, RecCommitRow(p) PROVE RecoveryInv' /\ SoundStep
  <2>1. RecQuiet /\ rec'.att = rec.att /\ rec'.queue = rec.queue /\ rec'.err = rec.err
    BY <1>11, RecTyped DEF RecCommitRow, RecQuiet, RecoveryLocals,
       storeVars, journalVars, physVars, procVars,
       workVars
  <2>2. rpc \in RecCommitPCs /\ rpc' \in RecCommitPCs
    BY <1>11 DEF RecCommitRow, RecCommitPCs
  <2> QED
    BY <2>1, <2>2, EntryGoesOn
<1>12. CASE RecCommitRelease
  <2>1. RecQuiet /\ rec'.att = rec.att /\ rec'.queue = rec.queue /\ rec'.err = rec.err
    BY <1>12, RecTyped DEF RecCommitRelease, RecQuiet, RecoveryLocals,
       storeVars, journalVars, physVars, procVars,
       workVars
  <2>2. rpc \in RecCommitPCs /\ rpc' \in RecCommitPCs
    BY <1>12 DEF RecCommitRelease, RecCommitPCs
  <2> QED
    BY <2>1, <2>2, EntryGoesOn
<1>13. CASE RecCommitRowsDone
  <2>1. RecQuiet /\ rec'.att = rec.att /\ rec'.queue = rec.queue /\ rec'.err = rec.err
    BY <1>13, RecTyped DEF RecCommitRowsDone, RecQuiet, RecoveryLocals,
       storeVars, journalVars, physVars, procVars,
       workVars
  <2>2. rpc \in RecCommitPCs /\ rpc' \in RecCommitPCs
    BY <1>13 DEF RecCommitRowsDone, RecCommitPCs
  <2> QED
    BY <2>1, <2>2, EntryGoesOn
<1>14. CASE RecCommitArchive
  <2>1. RecQuiet /\ rec'.att = rec.att /\ rec'.queue = rec.queue /\ rec'.err = rec.err
    BY <1>14, RecTyped DEF RecCommitArchive, RecQuiet, RecoveryLocals,
       storeVars, journalVars, physVars, procVars,
       workVars
  <2>2. rpc \in RecCommitPCs /\ rpc' \in RecCommitPCs
    BY <1>14 DEF RecCommitArchive, RecCommitPCs
  <2> QED
    BY <2>1, <2>2, EntryGoesOn
<1>15. CASE RollbackReservation
  <2>1. RecQuiet /\ rec'.att = rec.att /\ rec'.queue = rec.queue /\ rec'.err = rec.err
    BY <1>15, RecTyped DEF RollbackReservation, RecReservation, RecQuiet, RecoveryLocals,
       storeVars, journalVars, physVars, procVars,
       workVars
  <2>2. rpc \in RollbackPCs /\ rpc' \in RollbackPCs
    BY <1>15 DEF RollbackReservation, RecReservation, RollbackPCs
  <2> QED
    BY <2>1, <2>2, EntryGoesOn
<1>16. CASE RecCommitReservation
  <2>1. RecQuiet /\ rec'.att = rec.att /\ rec'.queue = rec.queue /\ rec'.err = rec.err
    BY <1>16, RecTyped DEF RecCommitReservation, RecReservation, RecQuiet, RecoveryLocals,
       storeVars, journalVars, physVars, procVars,
       workVars
  <2>2. rpc \in RecCommitPCs /\ rpc' \in RecCommitPCs
    BY <1>16 DEF RecCommitReservation, RecReservation, RecCommitPCs
  <2> QED
    BY <2>1, <2>2, EntryGoesOn
<1>17. CASE RollbackRepair
  <2>1. CASE EntryFails
    <3>1. RecQuiet
      BY <1>17, <2>1, RecTyped
      DEF RollbackRepair, RecQuiet, EntryFails, RecoveryLocals,
          storeVars, journalVars, physVars, procVars, workVars
    <3> QED
      BY <2>1, <3>1, EntryIsLeft
  <2>2. CASE ~EntryFails
    <3>1. RecQuiet /\ rec' = rec
      BY <1>17, <2>2 DEF RollbackRepair, RecQuiet,
         storeVars, journalVars, physVars, procVars, workVars
    <3>2. rpc \in RollbackPCs /\ rpc' \in RollbackPCs
      BY <1>17, <2>2 DEF RollbackRepair, RollbackPCs
    <3> QED
      BY <3>1, <3>2, EntryGoesOn
  <2> QED
    BY <2>1, <2>2
<1>18. CASE RollbackAttempt
  <2>1. CASE EntryFails
    <3>1. RecQuiet
      BY <1>18, <2>1, RecTyped
      DEF RollbackAttempt, RecAttempt, RecQuiet, EntryFails, RecoveryLocals,
          storeVars, journalVars, physVars, procVars, workVars
    <3> QED
      BY <2>1, <3>1, EntryIsLeft
  <2>2. CASE ~EntryFails
    <3>1. RecQuiet /\ rec' = rec
      BY <1>18, <2>2 DEF RollbackAttempt, RecAttempt, RecQuiet,
         storeVars, journalVars, physVars, procVars, workVars
    <3>2. rpc \in RollbackPCs /\ rpc' \in RollbackPCs
      BY <1>18, <2>2 DEF RollbackAttempt, RecAttempt, RollbackPCs
    <3> QED
      BY <3>1, <3>2, EntryGoesOn
  <2> QED
    BY <2>1, <2>2
<1>19. CASE RecCommitAttempt
  <2>1. CASE EntryFails
    <3>1. RecQuiet
      BY <1>19, <2>1, RecTyped
      DEF RecCommitAttempt, RecAttempt, RecQuiet, EntryFails, RecoveryLocals,
          storeVars, journalVars, physVars, procVars, workVars
    <3> QED
      BY <2>1, <3>1, EntryIsLeft
  <2>2. CASE ~EntryFails
    <3>1. RecQuiet /\ rec' = rec
      BY <1>19, <2>2 DEF RecCommitAttempt, RecAttempt, RecQuiet,
         storeVars, journalVars, physVars, procVars, workVars
    <3>2. rpc \in RecCommitPCs /\ rpc' \in RecCommitPCs
      BY <1>19, <2>2 DEF RecCommitAttempt, RecAttempt, RecCommitPCs
    <3> QED
      BY <3>1, <3>2, EntryGoesOn
  <2> QED
    BY <2>1, <2>2
<1>20. ASSUME NEW p \in Payloads, RollbackRowConflict(p) PROVE RecoveryInv' /\ SoundStep
  <2>1. RecQuiet /\ (EntryFails \/ RecoveryFails)
    BY <1>20, RecTyped DEF RollbackRowConflict, RecQuiet, EntryFails, RecoveryFails,
       RecoveryLocals, RecoveryPCs, storeVars, journalVars, physVars, procVars, workVars
  <2> QED
    BY <2>1, EntryIsLeft
<1>21. CASE RecRepairPartial
  <2>1. RecQuiet /\ (EntryFails \/ RecoveryFails)
    BY <1>21, RecTyped DEF RecRepairPartial, RecQuiet, EntryFails, RecoveryFails,
       RecoveryLocals, RecoveryPCs, storeVars, journalVars, physVars, procVars, workVars
  <2> QED
    BY <2>1, EntryIsLeft
<1>22. CASE RecExpire
  <2>1. Abandoned = {}
    BY DEF Abandoned, JournalInv, JournalCovers
  <2>2. object' = [o \in Objects |-> object[o]]
    BY <1>22, <2>1 DEF RecExpire
  <2>3. object' = object
    BY <2>2 DEF TypeInv, TypeOK, StoreTypeOK
  <2>4. /\ rpc = "expire" /\ rpc' = "repair" /\ rec' = rec
        /\ UNCHANGED <<phase, entry, plan, blob, mode, lost, archiveUp, grace, pc, loc>>
    BY <1>22 DEF RecExpire, physVars, procVars, workVars
  <2>5. DecisionSound'
    BY <2>4 DEF DecisionSound, RollbackPCs, RecCommitPCs
  <2>6. RecoveryCovers'
    BY <2>4 DEF RecoveryInv, RecoveryCovers, OpenAttempts, AtEntry, EntryPCs
  <2> QED
    BY <2>3, <2>4, <2>5, <2>6, QuietWork, RecWorkKeeps DEF RecQuiet
<1>23. CASE RecRepair
  <2>1. /\ rpc = "repair"
        /\ UNCHANGED <<object, rows, phase, entry, plan, blob, mode, lost,
                       archiveUp, grace, pc, loc>>
    BY <1>23 DEF RecRepair, storeVars, journalVars, physVars, procVars,
       workVars
  <2>2. CASE RowsHaveParents
    <3>1. rpc' = "lineage" /\ rec' = rec /\ dedup' = ExactCounts
      BY <1>23, <2>2 DEF RecRepair
    <3>2. DecisionSound'
      BY <3>1 DEF DecisionSound, RollbackPCs, RecCommitPCs
    <3>3. RowsHaveParents' /\ ExactCounts' = ExactCounts /\ OpenAttempts' = OpenAttempts
      BY <2>1, <2>2
      DEF RowsHaveParents, Rows, ParentAccepts, ExactCounts, Owners, OpenAttempts
    <3>4. RecoveryCovers'
      BY <2>1, <3>1, <3>3 DEF RecoveryInv, RecoveryCovers, AtEntry, EntryPCs
    <3> QED
      BY <2>1, <3>1, <3>2, <3>4, QuietWork, RecWorkKeeps DEF RecQuiet
  <2>3. CASE ~RowsHaveParents
    <3>1. RecQuiet /\ RecoveryFails
      BY <1>23, <2>1, <2>3, RecTyped
      DEF RecRepair, RecQuiet, RecoveryFails, RecoveryLocals
    <3> QED
      BY <3>1, EntryIsLeft
  <2> QED
    BY <2>2, <2>3
<1>24. CASE RecLineage
  <2> DEFINE r == [rec EXCEPT !.err = @ \/ ~Validate(edges, Registered)]
  <2>1. /\ rpc = "lineage" /\ rpc' = "end" /\ rec' = r
        /\ UNCHANGED <<object, rows, dedup, phase, entry, plan, blob, mode, lost,
                       archiveUp, grace, pc, loc>>
    BY <1>24 DEF RecLineage, storeVars, journalVars, physVars, procVars,
       workVars
  <2>2. /\ rec'.queue = rec.queue /\ rec'.att = rec.att /\ rec'.by = rec.by
        /\ rec.err => rec'.err
    BY <2>1, RecTyped DEF RecoveryLocals
  <2>3. DecisionSound'
    BY <2>1 DEF DecisionSound, RollbackPCs, RecCommitPCs
  <2>4. RowsHaveParents' = RowsHaveParents /\ ExactCounts' = ExactCounts
        /\ OpenAttempts' = OpenAttempts
    BY <2>1
    DEF RowsHaveParents, Rows, ParentAccepts, ExactCounts, Owners, OpenAttempts
  <2>5. RecoveryCovers'
    BY <2>1, <2>2, <2>4 DEF RecoveryInv, RecoveryCovers, AtEntry, EntryPCs
  <2> QED
    BY <2>1, <2>2, <2>3, <2>5, QuietWork, RecWorkKeeps DEF RecQuiet
<1>25. CASE RecStoreError
  <2>1. \/ EntryFails \/ RecoveryFails
        \/ /\ rpc = "cm_release" /\ rpc' = "cm_row"
           /\ rec' = [rec EXCEPT !.cur = None]
    BY <1>25, Zenon DEF RecStoreError
  <2>2. RecQuiet
    BY <1>25, <2>1, RecTyped
    DEF RecStoreError, RecQuiet, EntryFails, RecoveryFails, RecoveryLocals,
        RecoveryPCs, storeVars, journalVars, physVars, procVars, workVars
  <2>3. CASE EntryFails \/ RecoveryFails
    BY <2>2, <2>3, EntryIsLeft
  <2>4. CASE rpc = "cm_release" /\ rpc' = "cm_row" /\ rec' = [rec EXCEPT !.cur = None]
    <3>1. rec'.att = rec.att /\ rec'.queue = rec.queue /\ rec'.err = rec.err
      BY <2>4, RecTyped DEF RecoveryLocals
    <3> QED
      BY <2>2, <2>4, <3>1, EntryGoesOn DEF RecCommitPCs
  <2> QED
    BY <2>1, <2>3, <2>4
<1>26. ASSUME NEW a \in Attempts, RecBackendError(a) PROVE RecoveryInv' /\ SoundStep
  <2>1. /\ rpc = "next" /\ rpc' = rpc /\ rec' = [rec EXCEPT !.queue = @ \ {a}, !.err = TRUE]
        /\ UNCHANGED <<object, phase, entry, plan, blob, mode, lost, archiveUp,
                       grace, pc, loc>>
    BY <1>26 DEF RecBackendError, storeVars, journalVars, physVars, procVars,
       workVars
  <2>2. rec'.err /\ rec'.by = rec.by
    BY <2>1, RecTyped DEF RecoveryLocals
  <2>3. DecisionSound' /\ RecoveryCovers'
    BY <2>1, <2>2 DEF DecisionSound, RecoveryCovers, RollbackPCs, RecCommitPCs
  <2> QED
    BY <2>1, <2>2, <2>3, QuietWork, RecWorkKeeps DEF RecQuiet
<1> QED
  BY <1>1, <1>2, <1>3, <1>4, <1>5, <1>6, <1>7, <1>8, <1>9, <1>10,
     <1>11, <1>12, <1>13, <1>14, <1>15, <1>16, <1>17, <1>18, <1>19, <1>20,
     <1>21, <1>22, <1>23, <1>24, <1>25, <1>26
  DEF RecoveryStep

-----------------------------------------------------------------------------
(* The process, and the theorems. *)

\* A step that writes nothing these properties are about.
LEMMA QuietSound ==
  ASSUME TypeInv, JournalInv, RecoveryInv,
         UNCHANGED <<object, rows, dedup, phase, entry, plan, mode, archiveUp,
                     pc, loc, rpc, rec>>,
         \A p \in Payloads : blob'[p] = "absent" <=> blob[p] = "absent",
         \/ UNCHANGED <<lost, grace>>
         \/ ~lost /\ lost'
  PROVE  RecoveryInv' /\ SoundStep
<1>1. \A a \in Attempts : EntrySound(a)'
  BY DEF RecoveryInv, EntrySound
<1>2. \A w \in Workers : ReclaimSound(w)'
  BY DEF RecoveryInv, ReclaimSound
<1>3. DecisionSound'
  <2>1. rpc \in AtEntry => rec.att \in Attempts /\ plan[rec.att] \subseteq Payloads
    BY EntryAtHand DEF TypeInv, TypeOK, JournalTypeOK
  <2> QED
    BY <2>1, EntrySides DEF RecoveryInv, DecisionSound
<1>4. RecoveryCovers'
  BY DEF RecoveryInv, RecoveryCovers, RowsHaveParents, Rows, ParentAccepts,
     ExactCounts, Owners, OpenAttempts
<1>5. Fenced'
  <2> SUFFICES ASSUME ~ArchiveMayVanish, NEW a \in Attempts,
                      phase[a] \in PhysicalPhases
               PROVE  EntryFenced(a)'
    BY DEF RecoveryInv, Fenced
  <2>1. EntryFenced(a)
    BY DEF RecoveryInv, Fenced
  <2> QED
    BY <2>1 DEF EntryFenced
<1>6. FencesStep
  BY IdleHasNone DEF FencesStep
<1>7. DurableStep /\ FlaggedStep /\ RealityStep /\ StartStep
  BY DEF DurableStep, FlaggedStep, Reclaims, RealityStep, StartStep, OpenPhases
<1> QED
  BY <1>1, <1>2, <1>3, <1>4, <1>5, <1>6, <1>7 DEF RecoveryInv, SoundStep

LEMMA ProcessSound ==
  ASSUME TypeInv, JournalInv, RecoveryInv, Process
  PROVE  RecoveryInv' /\ SoundStep
<1>1. ASSUME UNCHANGED <<object, phase, entry, plan>>,
             mode' # "up", mode' = "starting" => rpc' = "scan",
             rpc' \in {"off", "scan"}, rec' = NoRecovery,
             ~ArchiveMayVanish => archiveUp',
             \A w \in Workers : pc'[w] \in {"idle", "recover"} /\ loc'[w] = NoLocals
      PROVE  RecoveryInv' /\ SoundStep
  <2>1. \A a \in Attempts : EntrySound(a)'
    BY <1>1 DEF RecoveryInv, EntrySound
  <2>2. ASSUME NEW w \in Workers PROVE ReclaimSound(w)'
    <3>1. loc'[w].att \notin Attempts /\ pc'[w] \notin ReclaimPCs
      BY <1>1, ReclaimSides, LocalsOf
    <3> QED
      BY <3>1, ReclaimSides DEF ReclaimSound
  <2>3. DecisionSound' /\ RecoveryCovers'
    BY <1>1 DEF DecisionSound, RecoveryCovers, RollbackPCs, RecCommitPCs
  <2>4. Fenced'
    BY <1>1 DEF RecoveryInv, Fenced, EntryFenced
  <2>5. mode' = "starting" => rpc' # "off" /\ rec'.by = None
    BY <1>1 DEF NoRecovery
  <2>6. DurableStep /\ FlaggedStep /\ FencesStep /\ RealityStep /\ StartStep
    BY <1>1 DEF DurableStep, FlaggedStep, Reclaims, FencesStep, RealityStep,
       StartStep, OpenPhases
  <2> QED
    BY <2>1, <2>2, <2>3, <2>4, <2>5, <2>6 DEF RecoveryInv, SoundStep
<1>2. CASE Start
  <2>1. /\ UNCHANGED <<object, phase, entry, plan, pc, loc>>
        /\ mode = "down" /\ mode' = "starting" /\ rpc' = "scan"
        /\ rec' = NoRecovery /\ (~ArchiveMayVanish => archiveUp')
    BY <1>2 DEF Start, storeVars, journalVars, workVars
  <2>2. \A w \in Workers : pc'[w] \in {"idle", "recover"} /\ loc'[w] = NoLocals
    BY <2>1, AllIdle
  <2> QED
    BY <1>1, <2>1, <2>2
<1>3. CASE Vanish
  <2>1. /\ UNCHANGED <<object, phase, entry, plan, archiveUp>>
        /\ mode' = "down" /\ rpc' = "off" /\ rec' = NoRecovery
        /\ \A w \in Workers : pc'[w] = "idle" /\ loc'[w] = NoLocals
    BY <1>3 DEF Vanish, storeVars, journalVars
  <2>2. ~ArchiveMayVanish => archiveUp
    BY DEF RecoveryInv, Fenced
  <2> QED
    BY <1>1, <2>1, <2>2
<1>4. CASE RequestShutdown
  <2>1. UNCHANGED <<object, rows, dedup, phase, entry, plan, blob, mode,
                    archiveUp, pc, loc, rpc, rec, lost, grace>>
    BY <1>4 DEF RequestShutdown, storeVars, journalVars, physVars, workVars, recVars
  <2> QED
    BY <2>1, QuietSound
<1>5. CASE HeartbeatThreadError
  <2>1. /\ UNCHANGED <<object, rows, dedup, phase, entry, plan, blob, mode,
                       archiveUp, pc, loc, rpc, rec>>
        /\ ~lost /\ lost'
    BY <1>5 DEF HeartbeatThreadError, storeVars, journalVars, physVars, recVars
  <2> QED
    BY <2>1, QuietSound
<1> QED
  BY <1>2, <1>3, <1>4, <1>5 DEF Process, Exit, Crash

LEMMA InitRecovery == Init => RecoveryInv
<1> SUFFICES ASSUME Init PROVE RecoveryInv
  OBVIOUS
<1>1. \A w \in Workers : pc[w] = "idle" /\ loc[w] = NoLocals
  BY DEF Init
<1>2. \A w \in Workers : loc[w].att \notin Attempts /\ pc[w] \notin ReclaimPCs
  BY <1>1, ReclaimSides, ConstantsAssumption DEF ConstantsAssumption, NoLocals
<1>3. \A a \in Attempts : phase[a] = "NONE" /\ entry[a] = NoEntry /\ plan[a] = {}
  BY DEF Init
<1>4. \A a \in Attempts : EntrySound(a)
  BY <1>3 DEF EntrySound, NoEntry, NoObject
<1>5. \A w \in Workers : ReclaimSound(w)
  BY <1>2, ReclaimSides DEF ReclaimSound
<1>6. DecisionSound /\ RecoveryCovers
  BY DEF Init, DecisionSound, RecoveryCovers, RollbackPCs, RecCommitPCs
<1>7. Fenced
  BY <1>3, ReclaimSides DEF Init, Fenced
<1> QED
  BY <1>4, <1>5, <1>6, <1>7 DEF Init, RecoveryInv

LEMMA NextRecovery ==
  TypeInv /\ JournalInv /\ RecoveryInv /\ [Next]_vars => RecoveryInv' /\ SoundStep
<1> SUFFICES ASSUME TypeInv, JournalInv, RecoveryInv, [Next]_vars
             PROVE  RecoveryInv' /\ SoundStep
  OBVIOUS
<1>1. CASE UNCHANGED vars
  BY <1>1, QuietSound DEF vars, storeVars, journalVars, physVars, procVars,
     workVars, recVars
<1>2. ASSUME NEW p \in Payloads, Corrupt(p) PROVE RecoveryInv' /\ SoundStep
  <2>1. /\ UNCHANGED <<object, rows, dedup, phase, entry, plan, mode, archiveUp,
                       pc, loc, rpc, rec, lost, grace>>
        /\ blob[p] = "ok" /\ blob' = [blob EXCEPT ![p] = "corrupt"]
    BY <1>2 DEF Corrupt, storeVars, journalVars, procVars, workVars, recVars
  <2>2. \A q \in Payloads : blob'[q] = "absent" <=> blob[q] = "absent"
    BY <2>1 DEF TypeInv, TypeOK, PhysTypeOK
  <2> QED
    BY <2>1, <2>2, QuietSound
<1> QED
  BY <1>1, <1>2, RequestSound, WorkerWork, FaultWork, WorkKeeps, RecoverySound,
     ProcessSound DEF Next

\* What holds in every behaviour.
LEMMA AlwaysSound == Spec => [](TypeInv /\ JournalInv /\ RecoveryInv)
<1>1. Spec => []TypeInv
  BY InitType, NextType, PTL DEF Spec
<1>2. Spec => []JournalInv
  BY <1>1, InitJournal, NextJournal, PTL DEF Spec
<1>3. Spec => []RecoveryInv
  BY <1>1, <1>2, InitRecovery, NextRecovery, PTL DEF Spec
<1> QED
  BY <1>1, <1>2, <1>3, PTL

(* A reclaim takes all copies of its object, so check_survivability lets it   *)
(* start only for a class that needs none (EntrySound).  The check is made    *)
(* when the journal entry is written: whatever verify, archive, a crash or    *)
(* recovery do to the copies afterwards, only the object of such an entry can *)
(* become RECLAIMED, by the commit of the reclaim or by commit_after_crash.   *)
THEOREM NoDurableReclaim == Spec => DurableNeverReclaimed
<1>1. TypeInv /\ JournalInv /\ RecoveryInv /\ [Next]_vars => [DurableStep]_vars
  BY NextRecovery DEF SoundStep
<1>2. DurableStep =>
        \A o \in Objects :
           (object[o].state # "RECLAIMED" /\ object'[o].state = "RECLAIMED")
             => MinValidCopies[Class[o]] = 0
  BY DEF DurableStep, Reclaims
<1> QED
  BY <1>1, <1>2, AlwaysSound, PTL DEF Spec, DurableNeverReclaimed

(* reconcile_entry decides by what the backends hold, and nobody deletes or   *)
(* writes a planned payload between the question and the end of the entry     *)
(* (DecisionSound): no request runs during recovery.  So an entry recovery    *)
(* closes as COMMITTED has none of its planned payloads left and one it closes*)
(* as ROLLED_BACK all of them, however often statements fail, the process     *)
(* crashes in the middle and recovery starts over.                            *)
THEOREM RecoveryFollowsReality == Spec => RealityWins
<1>1. TypeInv /\ JournalInv /\ RecoveryInv /\ [Next]_vars => [RealityStep]_vars
  BY NextRecovery DEF SoundStep
<1>2. RealityStep =>
        \A a \in Attempts :
           (ActiveRecovery /\ phase[a] \in OpenPhases)
             => /\ phase'[a] = "COMMITTED" => \A p \in plan[a] : blob[p] = "absent"
                /\ phase'[a] = "ROLLED_BACK" => \A p \in plan[a] : blob[p] # "absent"
  BY DEF RealityStep
<1> QED
  BY <1>1, <1>2, AlwaysSound, PTL DEF Spec, RealityWins

(* Coordinator::open serves only after a report without errors, and such a    *)
(* report means that every entry that was open has been closed and the counts *)
(* repaired (RecoveryCovers): a failed statement or an entry left open always *)
(* ends in an error.  With JournalCovers no object is left pending.           *)
THEOREM StartsReconciled == Spec => RecoveryEstablishes
<1>1. TypeInv /\ JournalInv /\ RecoveryInv /\ [Next]_vars => [StartStep]_vars
  BY NextRecovery DEF SoundStep
<1>2. StartStep =>
        ((mode = "starting" /\ mode' = "up")
           => /\ OpenAttempts = {}
              /\ \A o \in Objects : object[o].state # "RECLAIM_PENDING"
              /\ RowsHaveParents
              /\ dedup = ExactCounts)
  BY DEF StartStep
<1> QED
  BY <1>1, <1>2, AlwaysSound, PTL DEF Spec, RecoveryEstablishes

(* Where the archive backend is always configured, a pinned or protected      *)
(* object is never reclaimed, by a reclaim or by recovery: the prechecks see  *)
(* no flag, the object guard keeps pin and set_protected away while the       *)
(* reclaim runs, and after an error in the physical phase the coordinator has *)
(* lost authority before the guard is dropped, so that none of the requests   *)
(* that still get through has that object (Fenced).                           *)
THEOREM NoFlaggedReclaim ==
  ASSUME ~ArchiveMayVanish
  PROVE  Spec => FlaggedNeverReclaimed
<1>1. TypeInv /\ JournalInv /\ RecoveryInv /\ [Next]_vars => [FlaggedStep]_vars
  BY NextRecovery DEF SoundStep
<1>2. FlaggedStep =>
        \A o \in Objects :
           (object[o].state # "RECLAIMED" /\ object'[o].state = "RECLAIMED")
             => object[o].flags = {}
  BY DEF FlaggedStep, Reclaims
<1> QED
  BY <1>1, <1>2, AlwaysSound, PTL DEF Spec, FlaggedNeverReclaimed

(* Under the same condition a reclaim that ends with its entry open in a      *)
(* physical phase has fenced the coordinator and asked it to stop, whichever  *)
(* statement or backend call failed.  Without an archive backend the reclaim  *)
(* of an archived object returns its error unfenced (coordinator.rs, the      *)
(* lookup of the archive backend before the deletion): hence the hypothesis.  *)
THEOREM ReclaimErrorsFence ==
  ASSUME ~ArchiveMayVanish
  PROVE  Spec => PhysicalFailureFences
<1>1. TypeInv /\ JournalInv /\ RecoveryInv /\ [Next]_vars => [FencesStep]_vars
  BY NextRecovery DEF SoundStep
<1>2. FencesStep =>
        \A w \in Workers :
           (/\ loc[w].att # None /\ pc'[w] = "idle" /\ mode' = "up"
            /\ phase'[loc[w].att] \in OpenPhases \ PrePhysical)
             => lost' /\ stop'
  BY DEF FencesStep, PhysicalPhases
<1> QED
  BY <1>1, <1>2, AlwaysSound, PTL DEF Spec, PhysicalFailureFences
==============================================================================
