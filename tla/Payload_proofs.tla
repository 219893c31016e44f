--------------------------- MODULE Payload_proofs ----------------------------
(***************************************************************************)
(* Shared payloads and the records of an object, for every set of objects, *)
(* payloads, workers and attempts and for any number of faults and         *)
(* crashes: a reference count never falls below the number of rows that    *)
(* point at the payload, a payload is deleted only by the last object that *)
(* refers to it, a RECLAIMED object has no rows and no archive records,    *)
(* and while nothing rots a registered object keeps its minimum of copies. *)
(*                                                                         *)
(* All are proved for a coordinator that gets no RECOVER request.  Such a  *)
(* request returns its report and goes on serving even if a statement of   *)
(* recovery failed, for example between the row of a rollback and the      *)
(* repair of the counts; at the start of the process the same failure      *)
(* keeps it down.                                                          *)
(***************************************************************************)
EXTENDS Recovery_proofs

-----------------------------------------------------------------------------
(* The invariant. *)

\* The steps between a reference and its row, where the count includes a
\* reference no row shows yet or any more.
CountedPCs == {"create_row", "create_unref", "undo_release", "cmt_release"}
InFlight(w, p) == pc[w] \in CountedPCs /\ loc[w].cur = p

Covered(p) ==
  /\ dedup[p] >= Cardinality(Owners(p))
  /\ \A w \in Workers : InFlight(w, p) => dedup[p] > Cardinality(Owners(p))

\* The steps of a reclaim before it has its payload guards, and after.
UnlockedPCs == {"recomputable", "pending", "validate", "survive", "graph",
                "deps", "lock"}
LockedPCs == {"plan", "start", "delete", "arch", "check", "done", "commit"}
ReleasingPCs == {"cmt_row", "cmt_release"}

\* The steps of a registration that store a payload, and those that take the
\* stored ones back.
StoringPCs == {"create_write", "create_insert", "create_row", "create_unref",
               "create_unblob"}
UndoingPCs == {"undo_row", "undo_release", "undo_blob"}

\* At step c with local variables l: the payloads at hand are guarded.
Guarded(c, l) ==
  /\ c = "create_lock" => l.done = {}
  /\ c \in StoringPCs \cup {"create_ref"} => l.todo \cup l.done \subseteq l.held
  /\ c \in StoringPCs => l.cur \in l.todo
  /\ c \in UndoingPCs \cup {"undo"} => l.done \subseteq l.held
  /\ c \in UndoingPCs => l.todo \subseteq l.held /\ l.todo \cap l.done = {}
  /\ c = "undo_release" => l.cur \in l.held \ (l.todo \cup l.done)
  /\ c \in UnlockedPCs \cup {"plan"} => l.todo = EntryRows(l.att)
  /\ c \in LockedPCs \cup ReleasingPCs => EntryRows(l.att) \subseteq l.held
  /\ c \in {"start", "delete"} \cup ReleasingPCs => l.todo \subseteq EntryRows(l.att)
  /\ c = "cmt_release" => l.cur \in EntryRows(l.att) \ l.todo

\* The rows it was given or has added are still there.
RowsThere(c, l) ==
  /\ c \in CreatePCs => l.done \subseteq Rows(l.obj)
  /\ c \in UnlockedPCs \cup LockedPCs => EntryRows(l.att) \subseteq Rows(l.obj)
  /\ c \in VerifyPCs \cup ReleasingPCs => l.todo \subseteq Rows(l.obj)

\* Nobody else refers to what it is about to write or to delete.
Unreferenced(c, l) ==
  /\ c \in {"create_write", "create_insert", "create_unblob"} => dedup[l.cur] = 0
  /\ c \in UndoingPCs => \A p \in l.todo : dedup[p] = 0
  /\ c \in {"start", "delete"} => \A p \in l.todo : Owners(p) \subseteq {l.obj}

Facts(c, l) == Guarded(c, l) /\ RowsThere(c, l) /\ Unreferenced(c, l)

PayloadInv ==
  /\ rpc # "off" => mode # "up"
  /\ \A v, w \in Workers : v # w => loc[v].held \cap loc[w].held = {}
  /\ \A w \in Workers : Facts(pc[w], loc[w])
  /\ mode = "up" => \A p \in Payloads : Covered(p)

-----------------------------------------------------------------------------
(* Counting the rows of a payload. *)

\* An object's row is added, removed, or the only one.
LEMMA OneOwner ==
  ASSUME NEW p \in Payloads, NEW o \in Objects
  PROVE  /\ IsFiniteSet(Owners(p)) /\ Cardinality(Owners(p)) \in Nat
         /\ Cardinality(Owners(p) \cup {o}) \in Nat
         /\ Cardinality(Owners(p) \cup {o}) <= Cardinality(Owners(p)) + 1
         /\ o \in Owners(p)
              => Cardinality(Owners(p) \ {o}) = Cardinality(Owners(p)) - 1
         /\ (o \in Owners(p) /\ Cardinality(Owners(p)) <= 1)
              => Owners(p) \subseteq {o}
<1>1. IsFiniteSet(Objects)
  BY ConstantsAssumption DEF ConstantsAssumption
<1>2. IsFiniteSet(Owners(p))
  BY <1>1, FS_Subset DEF Owners
<1>3. Cardinality(Owners(p)) \in Nat
  BY <1>2, FS_CardinalityType
<1>4. Cardinality(Owners(p) \cup {o}) =
        IF o \in Owners(p) THEN Cardinality(Owners(p)) ELSE Cardinality(Owners(p)) + 1
  BY <1>2, FS_AddElement
<1>5. /\ IsFiniteSet(Owners(p) \ {o})
      /\ Cardinality(Owners(p) \ {o}) =
           IF o \in Owners(p) THEN Cardinality(Owners(p)) - 1 ELSE Cardinality(Owners(p))
  BY <1>2, FS_RemoveElement
<1>6. Cardinality(Owners(p) \ {o}) \in Nat
  BY <1>5, FS_CardinalityType
<1>7. ASSUME o \in Owners(p), Cardinality(Owners(p)) <= 1
      PROVE  Owners(p) \subseteq {o}
  <2>1. Cardinality(Owners(p) \ {o}) = 0
    BY <1>3, <1>5, <1>6, <1>7
  <2>2. Owners(p) \ {o} = {}
    BY <1>5, <2>1, FS_EmptySet
  <2> QED
    BY <2>2
<1> QED
  BY <1>2, <1>3, <1>4, <1>5, <1>7

\* A payload without a reference has no row.
LEMMA NoOwner ==
  ASSUME NEW p \in Payloads, Cardinality(Owners(p)) <= 0
  PROVE  Owners(p) = {}
<1>1. IsFiniteSet(Objects)
  BY ConstantsAssumption DEF ConstantsAssumption
<1>2. IsFiniteSet(Owners(p))
  BY <1>1, FS_Subset DEF Owners
<1>3. Cardinality(Owners(p)) \in Nat
  BY <1>2, FS_CardinalityType
<1>4. Cardinality(Owners(p)) = 0
  BY <1>3
<1> QED
  BY <1>2, <1>4, FS_EmptySet

-----------------------------------------------------------------------------
(* Steps of one worker. *)

\* What a step of a request may do: it moves only itself, takes only guards
\* that are free, and adds and removes rows of its own object and references
\* only at payloads it has the guard of.
PayloadStep(w) ==
  /\ mode = "up" /\ UNCHANGED <<mode, rpc>>
  /\ \A v \in Workers \ {w} :
       /\ pc'[v] = pc[v] /\ loc'[v] = loc[v]
       /\ loc'[w].held \cap loc[v].held = {}
  /\ \A a \in Attempts : phase[a] # "NONE" => entry'[a] = entry[a]
  /\ \A o \in Objects, p \in Payloads :
       \/ rows'[o][p] = "none" <=> rows[o][p] = "none"
       \/ o = loc[w].obj /\ p \in loc[w].held
  /\ Facts(pc[w], loc[w])'
  /\ \A p \in Payloads :
       IF p \in loc[w].held
       THEN /\ dedup'[p] >= Cardinality(Owners(p)')
            /\ InFlight(w, p)' => dedup'[p] > Cardinality(Owners(p)')
       ELSE dedup'[p] = dedup[p] /\ ~InFlight(w, p)'

\* A counted payload is guarded.
LEMMA FlightGuarded ==
  ASSUME TypeInv, PayloadInv, NEW w \in Workers, NEW p \in Payloads, InFlight(w, p)
  PROVE  p \in loc[w].held
BY DEF PayloadInv, Facts, Guarded, InFlight, CountedPCs, StoringPCs, ReleasingPCs

LEMMA StepKeepsPayloads ==
  ASSUME TypeInv, JournalInv, PayloadInv, NEW w \in Workers, PayloadStep(w)
  PROVE  PayloadInv'
<1>1. \A v \in Workers \ {w} : pc'[v] = pc[v] /\ loc'[v] = loc[v]
  BY DEF PayloadStep
<1>2. rpc' # "off" => mode' # "up"
  BY DEF PayloadStep, PayloadInv
<1>3. \A u, v \in Workers : u # v => loc'[u].held \cap loc'[v].held = {}
  BY DEF PayloadStep, PayloadInv
<1>4. ASSUME NEW v \in Workers PROVE Facts(pc[v], loc[v])'
  <2>1. CASE v = w
    BY <2>1 DEF PayloadStep
  <2>2. CASE v # w
    <3> DEFINE c == pc[v]
               l == loc[v]
    <3>1. /\ c' = c /\ l' = l
          /\ l.held \cap loc[w].held = {}
          /\ Facts(c, l)
      BY <1>1, <2>2 DEF PayloadInv
    <3>2. CASE c \in {"idle", "recover"}
      <4>1. c' \in {"idle", "recover"}
        BY <3>1, <3>2
      <4> QED
        BY <4>1 DEF Facts, Guarded, RowsThere, Unreferenced, StoringPCs, UndoingPCs,
           UnlockedPCs, LockedPCs, ReleasingPCs, CreatePCs, VerifyPCs
    <3>3. CASE c \notin {"idle", "recover"}
      <4>1. l.obj \in Objects /\ l.obj # loc[w].obj
        BY <2>2, <3>3, NoRecoveryNow, Disjoint
      <4>2. \A p \in Payloads : rows'[l.obj][p] = "none" <=> rows[l.obj][p] = "none"
        BY <4>1 DEF PayloadStep
      <4>3. Rows(l.obj)' = Rows(l.obj)
        BY <3>1, <4>2 DEF Rows
      <4>4. \A p \in l.held : p \in Payloads /\ dedup'[p] = dedup[p] /\ Owners(p)' = Owners(p)
        BY <3>1, LocalsFields DEF PayloadStep, Owners
      <4>5. c \in ReclaimPCs => EntryRows(l.att)' = EntryRows(l.att)
        BY <3>1 DEF PayloadStep, EntryRows, JournalInv, WorkerOwns
      <4>6. /\ UnlockedPCs \cup LockedPCs \cup ReleasingPCs \subseteq ReclaimPCs
            /\ {"plan", "start", "delete", "cmt_release"} \subseteq ReclaimPCs
        BY DEF UnlockedPCs, LockedPCs, ReleasingPCs, ReclaimPCs, CommitPCs
      <4>7. Guarded(c, l)'
        BY <3>1, <4>5, <4>6 DEF Facts, Guarded
      <4>8. RowsThere(c, l)'
        BY <3>1, <4>3, <4>5, <4>6 DEF Facts, RowsThere
      <4>9. /\ c \in StoringPCs => l.cur \in l.held
            /\ c \in UndoingPCs \cup {"start", "delete"} => l.todo \subseteq l.held
        BY <3>1 DEF Facts, Guarded, LockedPCs
      <4>10. Unreferenced(c, l)'
        BY <3>1, <4>4, <4>9 DEF Facts, Unreferenced, StoringPCs
      <4> QED
        BY <4>7, <4>8, <4>10 DEF Facts
    <3> QED
      BY <3>2, <3>3
  <2> QED
    BY <2>1, <2>2
<1>5. ASSUME NEW p \in Payloads PROVE Covered(p)'
  <2>1. Covered(p)
    BY DEF PayloadStep, PayloadInv
  <2>2. \A v \in Workers \ {w} : InFlight(v, p)' <=> InFlight(v, p)
    BY <1>1 DEF InFlight
  <2>3. CASE p \in loc[w].held
    <3>1. \A v \in Workers \ {w} : ~InFlight(v, p)
      BY <2>3, FlightGuarded DEF PayloadInv
    <3> QED
      BY <2>2, <2>3, <3>1 DEF Covered, PayloadStep
  <2>4. CASE p \notin loc[w].held
    <3>1. Owners(p)' = Owners(p)
      BY <2>4 DEF PayloadStep, Owners
    <3>2. dedup'[p] = dedup[p] /\ ~InFlight(w, p)'
      BY <2>4 DEF PayloadStep
    <3> QED
      BY <2>1, <2>2, <3>1, <3>2 DEF Covered
  <2> QED
    BY <2>3, <2>4
<1> QED
  BY <1>2, <1>3, <1>4, <1>5 DEF PayloadInv

\* Neither rows nor references nor entries change, in a process that serves.
SameRows == mode = "up" /\ UNCHANGED <<rows, dedup, entry, mode, rpc>>

\* The steps the invariant says something about.
FactPCs == CreatePCs \cup VerifyPCs \cup UnlockedPCs \cup LockedPCs \cup ReleasingPCs

LEMMA NoFacts ==
  ASSUME NEW c, c \notin FactPCs, NEW l
  PROVE  Facts(c, l) /\ c \notin CountedPCs
BY DEF FactPCs, Facts, Guarded, RowsThere, Unreferenced, StoringPCs, UndoingPCs,
   UnlockedPCs, LockedPCs, ReleasingPCs, CreatePCs, VerifyPCs, CountedPCs

\* The worker goes to step c with local variables l.
LEMMA QuietPayloads ==
  ASSUME TypeInv, PayloadInv, NEW w \in Workers, SameRows,
         NEW c, NEW l, pc'[w] = c, loc'[w] = l,
         \A v \in Workers \ {w} : pc'[v] = pc[v] /\ loc'[v] = loc[v],
         l.held \subseteq loc[w].held \/ l.held \cap ActivePayloads = {},
         Facts(c, l),
         c \in CountedPCs => pc[w] \in CountedPCs /\ l.cur = loc[w].cur
  PROVE  PayloadStep(w)
<1>1. mode = "up" /\ UNCHANGED <<rows, dedup, entry, mode, rpc>>
  BY DEF SameRows
<1>2. \A v \in Workers \ {w} : l.held \cap loc[v].held = {}
  BY DEF PayloadInv, ActivePayloads
<1>3. Facts(pc[w], loc[w])'
  <2>1. /\ \A a : EntryRows(a)' = EntryRows(a)
        /\ \A o : Rows(o)' = Rows(o)
        /\ \A p : Owners(p)' = Owners(p)
    BY <1>1 DEF EntryRows, Rows, Owners
  <2> QED
    BY <1>1, <2>1 DEF Facts, Guarded, RowsThere, Unreferenced
<1>4. ASSUME NEW p \in Payloads
      PROVE  /\ Covered(p) /\ Owners(p)' = Owners(p)
             /\ InFlight(w, p)' => InFlight(w, p) /\ p \in loc[w].held
  BY <1>1, FlightGuarded DEF PayloadInv, Owners, InFlight
<1> QED
  BY <1>1, <1>2, <1>3, <1>4 DEF PayloadStep, Covered

LEMMA QuietTo ==
  ASSUME TypeInv, PayloadInv, NEW w \in Workers, SameRows, NEW c,
         Goto(w, c), UNCHANGED loc, Facts(c, loc[w]),
         c \in CountedPCs => pc[w] \in CountedPCs
  PROVE  PayloadStep(w)
BY GotoFrame, QuietPayloads

LEMMA QuietWith ==
  ASSUME TypeInv, PayloadInv, NEW w \in Workers, SameRows, NEW c, NEW l,
         Goto(w, c), SetLocals(w, l),
         l.held \subseteq loc[w].held \/ l.held \cap ActivePayloads = {},
         Facts(c, l), c \notin CountedPCs
  PROVE  PayloadStep(w)
BY GotoFrame, LocalsFrame, QuietPayloads

LEMMA QuietHere ==
  ASSUME TypeInv, PayloadInv, NEW w \in Workers, SameRows, NEW l,
         UNCHANGED pc, SetLocals(w, l), l.held \subseteq loc[w].held,
         Facts(pc[w], l), pc[w] \notin CountedPCs
  PROVE  PayloadStep(w)
BY LocalsFrame, QuietPayloads

LEMMA QuietBack ==
  ASSUME TypeInv, PayloadInv, NEW w \in Workers, SameRows, Return(w)
  PROVE  PayloadStep(w)
<1>1. /\ pc'[w] = "idle" /\ loc'[w] = NoLocals
      /\ \A v \in Workers \ {w} : pc'[v] = pc[v] /\ loc'[v] = loc[v]
  BY ReturnOwns
<1>2. NoLocals.held \subseteq loc[w].held
  BY DEF NoLocals
<1>3. "idle" \notin FactPCs
  BY DEF FactPCs, CreatePCs, VerifyPCs, UnlockedPCs, LockedPCs, ReleasingPCs
<1> QED
  BY <1>1, <1>2, <1>3, NoFacts, QuietPayloads

\* The worker writes rows or references of a payload it has the guard of.
LEMMA OwnPayload ==
  ASSUME TypeInv, PayloadInv, NEW w \in Workers,
         mode = "up", UNCHANGED <<entry, mode, rpc>>,
         \A v \in Workers \ {w} : pc'[v] = pc[v] /\ loc'[v] = loc[v],
         loc'[w].held \subseteq loc[w].held,
         NEW p \in loc[w].held,
         \A q \in Payloads \ {p} : dedup'[q] = dedup[q],
         \A o \in Objects, q \in Payloads :
           \/ rows'[o][q] = "none" <=> rows[o][q] = "none"
           \/ o = loc[w].obj /\ q = p,
         Facts(pc[w], loc[w])',
         dedup'[p] >= Cardinality(Owners(p)'),
         pc'[w] \in CountedPCs => loc'[w].cur = p /\ dedup'[p] > Cardinality(Owners(p)')
  PROVE  PayloadStep(w)
<1>1. \A v \in Workers \ {w} : loc'[w].held \cap loc[v].held = {}
  BY DEF PayloadInv
<1>2. ASSUME NEW q \in Payloads, q # p
      PROVE  /\ Covered(q) /\ Owners(q)' = Owners(q) /\ dedup'[q] = dedup[q]
             /\ ~InFlight(w, q)'
  BY <1>2 DEF PayloadInv, Owners, InFlight
<1> QED
  BY <1>1, <1>2 DEF PayloadStep, Covered, InFlight

\* add_replica and delete_replica of one row, dedup_release of one reference.
LEMMA RowAdded ==
  ASSUME TypeInv, NEW o \in Objects, NEW p \in Payloads,
         rows' = [rows EXCEPT ![o][p] = "valid"]
  PROVE  /\ \A q \in Objects, s \in Payloads :
              \/ rows'[q][s] = "none" <=> rows[q][s] = "none"
              \/ q = o /\ s = p
         /\ Cardinality(Owners(p)) \in Nat /\ Cardinality(Owners(p)') \in Nat
         /\ Cardinality(Owners(p)') <= Cardinality(Owners(p)) + 1
         /\ Rows(o) \cup {p} \subseteq Rows(o)'
<1>1. /\ rows'[o][p] = "valid"
      /\ \A q \in Objects, s \in Payloads : rows'[q][s] = rows[q][s] \/ (q = o /\ s = p)
  BY DEF TypeInv, TypeOK, StoreTypeOK
<1>2. Owners(p)' = Owners(p) \cup {o} /\ Rows(o) \cup {p} \subseteq Rows(o)'
  BY <1>1 DEF Owners, Rows
<1> QED
  BY <1>1, <1>2, OneOwner

LEMMA RowDeleted ==
  ASSUME TypeInv, NEW o \in Objects, NEW p \in Rows(o),
         rows' = [rows EXCEPT ![o][p] = "none"]
  PROVE  /\ \A q \in Objects, s \in Payloads :
              \/ rows'[q][s] = "none" <=> rows[q][s] = "none"
              \/ q = o /\ s = p
         /\ Cardinality(Owners(p)) \in Nat
         /\ Cardinality(Owners(p)') = Cardinality(Owners(p)) - 1
         /\ Rows(o)' = Rows(o) \ {p}
<1>1. p \in Payloads /\ o \in Owners(p)
  BY DEF Rows, Owners
<1>2. /\ rows'[o][p] = "none"
      /\ \A q \in Objects, s \in Payloads : rows'[q][s] = rows[q][s] \/ (q = o /\ s = p)
  BY <1>1 DEF TypeInv, TypeOK, StoreTypeOK
<1>3. Owners(p)' = Owners(p) \ {o} /\ Rows(o)' = Rows(o) \ {p}
  BY <1>1, <1>2 DEF Owners, Rows
<1> QED
  BY <1>1, <1>2, <1>3, OneOwner

LEMMA RowsSame ==
  ASSUME rows' = rows
  PROVE  /\ \A p : Owners(p)' = Owners(p)
         /\ \A o : Rows(o)' = Rows(o)
BY DEF Owners, Rows

LEMMA Released ==
  ASSUME TypeInv, NEW p \in Payloads, dedup[p] > 0, DedupRelease(p)
  PROVE  /\ dedup[p] \in Nat /\ dedup'[p] = dedup[p] - 1
         /\ \A q \in Payloads \ {p} : dedup'[q] = dedup[q]
BY DEF DedupRelease, TypeInv, TypeOK, StoreTypeOK

\* What the invariant says of the request that takes a step.
LEMMA FactsNow ==
  ASSUME TypeInv, JournalInv, PayloadInv, NEW w \in Workers, mode = "up"
  PROVE  /\ Facts(pc[w], loc[w])
         /\ \A p \in Payloads : Covered(p) /\ dedup[p] \in Nat
         /\ pc[w] \in FactPCs => loc[w].obj \in Objects
<1>1. "idle" \notin FactPCs /\ "recover" \notin FactPCs
  BY DEF FactPCs, CreatePCs, VerifyPCs, UnlockedPCs, LockedPCs, ReleasingPCs
<1> QED
  BY <1>1, NoRecoveryNow DEF PayloadInv, TypeInv, TypeOK, StoreTypeOK

\* The object and the payload at hand.
LEMMA CurAt ==
  ASSUME TypeInv, JournalInv, PayloadInv, NEW w \in Workers
  PROVE  /\ pc[w] \in CreatePCs \cup ReleasingPCs => loc[w].obj \in Objects
         /\ pc[w] \in {"create_insert", "create_row", "create_unref",
                       "undo_release", "cmt_release"} => loc[w].cur \in Payloads
<1>1. "idle" \notin CreatePCs \cup ReleasingPCs /\ "recover" \notin CreatePCs \cup ReleasingPCs
  BY DEF CreatePCs, ReleasingPCs
<1> QED
  BY <1>1, NoRecoveryNow, LocalsFields
  DEF PayloadInv, Facts, Guarded, StoringPCs, ReleasingPCs, EntryRows

LEMMA CreatePayloads ==
  ASSUME TypeInv, JournalInv, PayloadInv, NEW w \in Workers, CreateStep(w)
  PROVE  PayloadStep(w)
<1>1. CASE CreateLock(w)
  <2> DEFINE r == [loc[w] EXCEPT !.held = loc[w].todo]
  <2>1. SameRows /\ SetLocals(w, r)
    BY <1>1 DEF CreateLock, SameRows, storeVars, journalVars, procVars, recVars,
       Enter, Within, MayPoll, PollFails
  <2>2. Facts(pc[w], loc[w])
    BY <2>1, FactsNow DEF SameRows
  <2>3. /\ r.obj = loc[w].obj /\ r.held = loc[w].todo /\ r.att = loc[w].att
        /\ r.todo = loc[w].todo /\ r.done = loc[w].done /\ r.cur = loc[w].cur
    BY LocalsFields DEF Locals
  <2>4. Facts("create_ref", r)
    BY <1>1, <2>2, <2>3 DEF CreateLock, Facts, Guarded, RowsThere, Unreferenced,
       StoringPCs, UndoingPCs, UnlockedPCs, LockedPCs, ReleasingPCs, CreatePCs,
       VerifyPCs, CountedPCs
  <2> QED
    BY <1>1, <2>1, <2>3, <2>4, QuietWith DEF CreateLock, CountedPCs,
       PayloadsFree
<1>2. CASE CreateLockFails(w)
  <2>1. SameRows
    BY <1>2 DEF CreateLockFails, SameRows, storeVars, journalVars, procVars,
       recVars, Enter, Within, MayPoll, PollFails
  <2> QED
    BY <1>2, <2>1, QuietBack DEF CreateLockFails
<1>3. ASSUME NEW p \in Payloads, CreateAcquire(w, p) PROVE PayloadStep(w)
  <2> DEFINE r == [loc[w] EXCEPT !.cur = p]
  <2>1. /\ mode = "up" /\ UNCHANGED <<rows, entry, mode, rpc>>
        /\ pc[w] = "create_ref" /\ p \in loc[w].todo
        /\ dedup' = [dedup EXCEPT ![p] = @ + 1]
        /\ Goto(w, "create_row") /\ SetLocals(w, r)
    BY <1>3 DEF CreateAcquire, DedupAcquire, Enter, journalVars, procVars,
       recVars
  <2>2. /\ pc'[w] = "create_row" /\ loc'[w] = r
        /\ \A v \in Workers \ {w} : pc'[v] = pc[v] /\ loc'[v] = loc[v]
    BY <2>1, GotoFrame, LocalsFrame
  <2>3. /\ r.obj = loc[w].obj /\ r.held = loc[w].held /\ r.att = loc[w].att
        /\ r.todo = loc[w].todo /\ r.done = loc[w].done /\ r.cur = p
    BY LocalsFields DEF Locals
  <2>4. Facts(pc[w], loc[w]) /\ Covered(p) /\ dedup[p] \in Nat
    BY <2>1, FactsNow
  <2>5. /\ dedup'[p] = dedup[p] + 1
        /\ \A q \in Payloads \ {p} : dedup'[q] = dedup[q]
    BY <2>1 DEF TypeInv, TypeOK, StoreTypeOK
  <2>6. /\ p \in loc[w].held /\ Cardinality(Owners(p)) \in Nat
        /\ Owners(p)' = Owners(p) /\ \A o : Rows(o)' = Rows(o)
    BY <2>1, <2>4, OwnersCount, RowsSame DEF Facts, Guarded
  <2>7. Facts(pc[w], loc[w])'
    BY <2>1, <2>2, <2>3, <2>4, <2>6 DEF Facts, Guarded, RowsThere, Unreferenced,
       StoringPCs, UndoingPCs, UnlockedPCs, LockedPCs, ReleasingPCs, CreatePCs,
       VerifyPCs, CountedPCs
  <2>8. /\ loc'[w].held = loc[w].held /\ loc'[w].cur = p
        /\ dedup'[p] >= Cardinality(Owners(p)') /\ dedup'[p] > Cardinality(Owners(p)')
    BY <2>2, <2>3, <2>4, <2>5, <2>6 DEF Covered
  <2> HIDE DEF r
  <2> QED
    BY <2>1, <2>2, <2>5, <2>6, <2>7, <2>8, OwnPayload
<1>4. ASSUME NEW p \in Payloads, CreateRefuse(w, p) PROVE PayloadStep(w)
  <2>1. SameRows /\ UNCHANGED loc
    BY <1>4 DEF CreateRefuse, SameRows, storeVars, journalVars, procVars,
       recVars, Enter, Within, MayPoll, PollFails
  <2>2. Facts(pc[w], loc[w])
    BY <2>1, FactsNow DEF SameRows
  <2>3. Facts("undo", loc[w])
    BY <1>4, <2>2 DEF CreateRefuse, Facts, Guarded, RowsThere, Unreferenced,
       StoringPCs, UndoingPCs, UnlockedPCs, LockedPCs, ReleasingPCs, CreatePCs,
       VerifyPCs, CountedPCs
  <2> QED
    BY <1>4, <2>1, <2>3, QuietTo DEF CreateRefuse, CountedPCs
<1>5. ASSUME NEW p \in Payloads, CreateMiss(w, p) PROVE PayloadStep(w)
  <2> DEFINE r == [loc[w] EXCEPT !.cur = p]
  <2>1. SameRows /\ SetLocals(w, r)
    BY <1>5 DEF CreateMiss, SameRows, storeVars, journalVars, procVars, recVars,
       Enter, Within, MayPoll, PollFails
  <2>2. Facts(pc[w], loc[w])
    BY <2>1, FactsNow DEF SameRows
  <2>3. /\ r.obj = loc[w].obj /\ r.held = loc[w].held /\ r.att = loc[w].att
        /\ r.todo = loc[w].todo /\ r.done = loc[w].done /\ r.cur = p
    BY LocalsFields DEF Locals
  <2>4. Facts("create_write", r)
    BY <1>5, <2>2, <2>3 DEF CreateMiss, Facts, Guarded, RowsThere, Unreferenced,
       StoringPCs, UndoingPCs, UnlockedPCs, LockedPCs, ReleasingPCs, CreatePCs,
       VerifyPCs, CountedPCs
  <2> QED
    BY <1>5, <2>1, <2>3, <2>4, QuietWith DEF CreateMiss, CountedPCs
<1>6. CASE CreateWrite(w)
  <2>1. SameRows /\ UNCHANGED loc
    BY <1>6 DEF CreateWrite, SameRows, storeVars, journalVars, procVars,
       recVars, Enter, Within, MayPoll, PollFails
  <2>2. Facts(pc[w], loc[w])
    BY <2>1, FactsNow DEF SameRows
  <2>3. Facts("create_insert", loc[w])
    BY <1>6, <2>2 DEF CreateWrite, Facts, Guarded, RowsThere, Unreferenced,
       StoringPCs, UndoingPCs, UnlockedPCs, LockedPCs, ReleasingPCs, CreatePCs,
       VerifyPCs, CountedPCs
  <2> QED
    BY <1>6, <2>1, <2>3, QuietTo DEF CreateWrite, CountedPCs
<1>7. CASE CreateInsert(w)
  <2>0. PICK p \in Payloads : p = loc[w].cur
    BY <1>7, CurAt DEF CreateInsert
  <2>1. /\ mode = "up" /\ UNCHANGED <<rows, entry, mode, rpc, loc>>
        /\ pc[w] = "create_insert" /\ dedup[p] = 0
        /\ dedup' = [dedup EXCEPT ![p] = 1]
        /\ Goto(w, "create_row")
    BY <1>7, <2>0 DEF CreateInsert, DedupInsert, Enter, journalVars, procVars,
       recVars
  <2>2. /\ pc'[w] = "create_row" /\ loc'[w] = loc[w]
        /\ \A v \in Workers \ {w} : pc'[v] = pc[v] /\ loc'[v] = loc[v]
    BY <2>1, GotoFrame
  <2>3. Facts(pc[w], loc[w]) /\ p \in loc[w].held
    BY <2>0, <2>1, FactsNow, LocalsFields DEF Facts, Guarded, StoringPCs
  <2>4. Covered(p) /\ Cardinality(Owners(p)) \in Nat
    BY <2>0, <2>1, <2>3, FactsNow, OwnersCount
  <2>5. /\ dedup'[p] = 1
        /\ \A q \in Payloads \ {p} : dedup'[q] = dedup[q]
    BY <2>1, <2>3 DEF TypeInv, TypeOK, StoreTypeOK
  <2>6. Owners(p)' = Owners(p) /\ \A o : Rows(o)' = Rows(o)
    BY <2>1, RowsSame
  <2>7. Facts(pc[w], loc[w])'
    BY <2>0, <2>1, <2>2, <2>3, <2>6 DEF Facts, Guarded, RowsThere, Unreferenced,
       StoringPCs, UndoingPCs, UnlockedPCs, LockedPCs, ReleasingPCs, CreatePCs,
       VerifyPCs, CountedPCs
  <2>8. dedup'[p] >= Cardinality(Owners(p)') /\ dedup'[p] > Cardinality(Owners(p)')
    BY <2>1, <2>4, <2>5, <2>6 DEF Covered
  <2> QED
    BY <2>0, <2>1, <2>2, <2>3, <2>5, <2>7, <2>8, OwnPayload
<1>8. CASE CreateRow(w)
  <2>0. PICK p \in Payloads, o \in Objects : p = loc[w].cur /\ o = loc[w].obj
    BY <1>8, CurAt DEF CreateRow, CreatePCs
  <2> DEFINE left == loc[w].todo \ {p}
             c == IF left = {} THEN "publish" ELSE "create_ref"
             r == [loc[w] EXCEPT !.todo = left, !.done = @ \cup {p}, !.cur = None,
                                 !.held = IF left = {} THEN {} ELSE @]
  <2>1. /\ mode = "up" /\ UNCHANGED <<dedup, entry, mode, rpc>>
        /\ pc[w] = "create_row"
        /\ rows' = [rows EXCEPT ![o][p] = "valid"]
        /\ Goto(w, c) /\ SetLocals(w, r)
    BY <1>8, <2>0 DEF CreateRow, WriteReplica, Enter, journalVars, procVars,
       recVars
  <2>2. /\ pc'[w] = c /\ loc'[w] = r
        /\ \A v \in Workers \ {w} : pc'[v] = pc[v] /\ loc'[v] = loc[v]
    BY <2>1, GotoFrame, LocalsFrame
  <2>3. /\ r.obj = o /\ r.todo = left /\ r.done = loc[w].done \cup {p}
        /\ r.held = IF left = {} THEN {} ELSE loc[w].held
    BY <2>0, LocalsFields DEF Locals
  <2>4. Facts(pc[w], loc[w]) /\ p \in loc[w].held
    BY <2>0, <2>1, FactsNow DEF Facts, Guarded, StoringPCs
  <2>5. Covered(p) /\ InFlight(w, p) /\ dedup[p] \in Nat
    BY <2>0, <2>1, FactsNow DEF InFlight, CountedPCs
  <2>6. /\ \A q \in Objects, s \in Payloads :
             \/ rows'[q][s] = "none" <=> rows[q][s] = "none"
             \/ q = o /\ s = p
        /\ Cardinality(Owners(p)) \in Nat /\ Cardinality(Owners(p)') \in Nat
        /\ Cardinality(Owners(p)') <= Cardinality(Owners(p)) + 1
        /\ Rows(o) \cup {p} \subseteq Rows(o)'
    BY <2>1, RowAdded
  <2>7. pc'[w] \notin CountedPCs /\ loc'[w].held \subseteq loc[w].held
    BY <2>2, <2>3 DEF CountedPCs
  <2>8. dedup'[p] >= Cardinality(Owners(p)')
    BY <2>1, <2>5, <2>6 DEF Covered
  <2>9. Facts(pc[w], loc[w])'
    BY <2>0, <2>1, <2>2, <2>3, <2>4, <2>6 DEF Facts, Guarded, RowsThere,
       Unreferenced, StoringPCs, UndoingPCs, UnlockedPCs, LockedPCs,
       ReleasingPCs, CreatePCs, VerifyPCs, CountedPCs
  <2> HIDE DEF r, c
  <2> QED
    BY <2>0, <2>1, <2>2, <2>4, <2>6, <2>7, <2>8, <2>9, OwnPayload
<1>9. CASE Publish(w)
  <2>1. SameRows
    BY <1>9 DEF Publish, SameRows, storeVars, journalVars, procVars, recVars,
       Enter, Within, MayPoll, PollFails
  <2> QED
    BY <1>9, <2>1, QuietBack DEF Publish
<1>10. CASE CreateUnref(w)
  <2>0. PICK p \in Payloads : p = loc[w].cur
    BY <1>10, CurAt DEF CreateUnref
  <2> DEFINE c == IF dedup[p] = 1 THEN "create_unblob" ELSE "undo"
  <2>1. /\ mode = "up" /\ UNCHANGED <<rows, entry, mode, rpc, loc>>
        /\ pc[w] = "create_unref" /\ dedup[p] > 0
        /\ DedupRelease(p)
        /\ Goto(w, c)
    BY <1>10, <2>0 DEF CreateUnref, Enter, journalVars, procVars, recVars
  <2>2. /\ pc'[w] = c /\ loc'[w] = loc[w]
        /\ \A v \in Workers \ {w} : pc'[v] = pc[v] /\ loc'[v] = loc[v]
    BY <2>1, GotoFrame
  <2>3. Facts(pc[w], loc[w]) /\ p \in loc[w].held
    BY <2>0, <2>1, FactsNow, LocalsFields DEF Facts, Guarded, StoringPCs
  <2>4. Covered(p) /\ InFlight(w, p) /\ dedup[p] \in Nat /\ Cardinality(Owners(p)) \in Nat
    BY <2>0, <2>1, <2>3, FactsNow, OwnersCount DEF InFlight, CountedPCs
  <2>5. /\ dedup'[p] = dedup[p] - 1
        /\ \A q \in Payloads \ {p} : dedup'[q] = dedup[q]
    BY <2>1, Released
  <2>6. Owners(p)' = Owners(p) /\ \A o : Rows(o)' = Rows(o)
    BY <2>1, RowsSame
  <2>7. dedup'[p] >= Cardinality(Owners(p)')
    BY <2>4, <2>5, <2>6 DEF Covered
  <2>8. c = "create_unblob" => dedup'[p] = 0
    BY <2>4, <2>5
  <2>9. Facts(pc[w], loc[w])'
    BY <2>0, <2>1, <2>2, <2>3, <2>6, <2>8 DEF Facts, Guarded, RowsThere,
       Unreferenced, StoringPCs, UndoingPCs, UnlockedPCs, LockedPCs,
       ReleasingPCs, CreatePCs, VerifyPCs, CountedPCs
  <2>10. c \notin CountedPCs
    BY DEF CountedPCs
  <2> QED
    BY <2>0, <2>1, <2>2, <2>3, <2>5, <2>7, <2>9, <2>10, OwnPayload
<1>11. CASE CreateUnblob(w)
  <2>1. SameRows /\ UNCHANGED loc
    BY <1>11 DEF CreateUnblob, SameRows, storeVars, journalVars, procVars,
       recVars, Enter, Within, MayPoll, PollFails
  <2>2. Facts(pc[w], loc[w])
    BY <2>1, FactsNow DEF SameRows
  <2>3. Facts("undo", loc[w])
    BY <1>11, <2>2 DEF CreateUnblob, Facts, Guarded, RowsThere, Unreferenced,
       StoringPCs, UndoingPCs, UnlockedPCs, LockedPCs, ReleasingPCs, CreatePCs,
       VerifyPCs, CountedPCs
  <2> QED
    BY <1>11, <2>1, <2>3, QuietTo DEF CreateUnblob, CountedPCs
<1>12. CASE UndoLock(w)
  <2> DEFINE r == [loc[w] EXCEPT !.held = loc[w].done]
  <2>1. SameRows /\ SetLocals(w, r)
    BY <1>12 DEF UndoLock, SameRows, storeVars, journalVars, procVars, recVars,
       Enter, Within, MayPoll, PollFails
  <2>2. Facts(pc[w], loc[w])
    BY <2>1, FactsNow DEF SameRows
  <2>3. /\ r.obj = loc[w].obj /\ r.held = loc[w].done /\ r.att = loc[w].att
        /\ r.todo = loc[w].todo /\ r.done = loc[w].done /\ r.cur = loc[w].cur
    BY LocalsFields DEF Locals
  <2>4. Facts("undo", r)
    BY <1>12, <2>2, <2>3 DEF UndoLock, Facts, Guarded, RowsThere, Unreferenced,
       StoringPCs, UndoingPCs, UnlockedPCs, LockedPCs, ReleasingPCs, CreatePCs,
       VerifyPCs, CountedPCs
  <2> QED
    BY <1>12, <2>1, <2>3, <2>4, QuietWith DEF UndoLock, CountedPCs, PayloadsFree
<1>13. CASE UndoLockFails(w)
  <2>1. SameRows
    BY <1>13 DEF UndoLockFails, SameRows, storeVars, journalVars, procVars,
       recVars, Enter, Within, MayPoll, PollFails
  <2> QED
    BY <1>13, <2>1, QuietBack DEF UndoLockFails
<1>14. CASE UndoEnter(w)
  <2> DEFINE r == [loc[w] EXCEPT !.todo = {}]
  <2>1. SameRows /\ SetLocals(w, r)
    BY <1>14 DEF UndoEnter, SameRows, storeVars, journalVars, procVars, recVars,
       Enter, Within, MayPoll, PollFails
  <2>2. Facts(pc[w], loc[w])
    BY <2>1, FactsNow DEF SameRows
  <2>3. /\ r.obj = loc[w].obj /\ r.held = loc[w].held /\ r.att = loc[w].att
        /\ r.todo = {} /\ r.done = loc[w].done /\ r.cur = loc[w].cur
    BY LocalsFields DEF Locals
  <2>4. Facts("undo_row", r)
    BY <1>14, <2>2, <2>3 DEF UndoEnter, Facts, Guarded, RowsThere, Unreferenced,
       StoringPCs, UndoingPCs, UnlockedPCs, LockedPCs, ReleasingPCs, CreatePCs,
       VerifyPCs, CountedPCs
  <2> QED
    BY <1>14, <2>1, <2>3, <2>4, QuietWith DEF UndoEnter, CountedPCs
<1>15. ASSUME NEW p \in Payloads, UndoRow(w, p) PROVE PayloadStep(w)
  <2>0. PICK o \in Objects : o = loc[w].obj
    BY <1>15, CurAt DEF UndoRow, CreatePCs
  <2> DEFINE r == [loc[w] EXCEPT !.done = @ \ {p}, !.cur = p]
  <2>1. /\ mode = "up" /\ UNCHANGED <<dedup, entry, mode, rpc>>
        /\ pc[w] = "undo_row" /\ p \in loc[w].done
        /\ rows' = [rows EXCEPT ![o][p] = "none"]
        /\ Goto(w, "undo_release") /\ SetLocals(w, r)
    BY <1>15, <2>0 DEF UndoRow, DeleteReplica, Within, journalVars, procVars,
       recVars
  <2>2. /\ pc'[w] = "undo_release" /\ loc'[w] = r
        /\ \A v \in Workers \ {w} : pc'[v] = pc[v] /\ loc'[v] = loc[v]
    BY <2>1, GotoFrame, LocalsFrame
  <2>3. /\ r.obj = o /\ r.held = loc[w].held /\ r.todo = loc[w].todo
        /\ r.done = loc[w].done \ {p} /\ r.cur = p
    BY <2>0, LocalsFields DEF Locals
  <2>4. Facts(pc[w], loc[w]) /\ Covered(p) /\ dedup[p] \in Nat
    BY <2>1, FactsNow
  <2>5. p \in loc[w].held /\ p \in Rows(o)
    BY <2>0, <2>1, <2>4 DEF Facts, Guarded, RowsThere, UndoingPCs, CreatePCs
  <2>6. /\ \A q \in Objects, s \in Payloads :
             \/ rows'[q][s] = "none" <=> rows[q][s] = "none"
             \/ q = o /\ s = p
        /\ Cardinality(Owners(p)) \in Nat
        /\ Cardinality(Owners(p)') = Cardinality(Owners(p)) - 1
        /\ Rows(o)' = Rows(o) \ {p}
    BY <2>1, <2>5, RowDeleted
  <2>7. /\ loc'[w].held = loc[w].held /\ loc'[w].cur = p
        /\ dedup'[p] >= Cardinality(Owners(p)') /\ dedup'[p] > Cardinality(Owners(p)')
    BY <2>1, <2>2, <2>3, <2>4, <2>6 DEF Covered
  <2>8. Facts(pc[w], loc[w])'
    BY <2>0, <2>1, <2>2, <2>3, <2>4, <2>5, <2>6 DEF Facts, Guarded, RowsThere,
       Unreferenced, StoringPCs, UndoingPCs, UnlockedPCs, LockedPCs,
       ReleasingPCs, CreatePCs, VerifyPCs, CountedPCs
  <2> HIDE DEF r
  <2> QED
    BY <2>0, <2>1, <2>2, <2>5, <2>6, <2>7, <2>8, OwnPayload
<1>16. CASE UndoRelease(w)
  <2>0. PICK p \in Payloads : p = loc[w].cur
    BY <1>16, CurAt DEF UndoRelease
  <2> DEFINE r == [loc[w] EXCEPT !.cur = None,
                                 !.todo = IF dedup[p] = 1 THEN @ \cup {p} ELSE @]
  <2>1. /\ mode = "up" /\ UNCHANGED <<rows, entry, mode, rpc>>
        /\ pc[w] = "undo_release" /\ dedup[p] > 0
        /\ DedupRelease(p)
        /\ Goto(w, "undo_row") /\ SetLocals(w, r)
    BY <1>16, <2>0 DEF UndoRelease, Within, journalVars, procVars, recVars
  <2>2. /\ pc'[w] = "undo_row" /\ loc'[w] = r
        /\ \A v \in Workers \ {w} : pc'[v] = pc[v] /\ loc'[v] = loc[v]
    BY <2>1, GotoFrame, LocalsFrame
  <2>3. /\ r.obj = loc[w].obj /\ r.held = loc[w].held /\ r.done = loc[w].done
        /\ r.todo = IF dedup[p] = 1 THEN loc[w].todo \cup {p} ELSE loc[w].todo
    BY LocalsFields DEF Locals
  <2>4. /\ Facts(pc[w], loc[w]) /\ p \in loc[w].held
        /\ loc[w].todo \subseteq Payloads
    BY <2>0, <2>1, FactsNow, LocalsFields DEF Facts, Guarded
  <2>5. Covered(p) /\ InFlight(w, p) /\ dedup[p] \in Nat /\ Cardinality(Owners(p)) \in Nat
    BY <2>0, <2>1, <2>4, FactsNow, OwnersCount DEF InFlight, CountedPCs
  <2>6. /\ dedup'[p] = dedup[p] - 1
        /\ \A q \in Payloads \ {p} : dedup'[q] = dedup[q]
    BY <2>1, Released
  <2>7. Owners(p)' = Owners(p) /\ \A o : Rows(o)' = Rows(o)
    BY <2>1, RowsSame
  <2>8. dedup'[p] >= Cardinality(Owners(p)')
    BY <2>5, <2>6, <2>7 DEF Covered
  <2>9. \A q \in r.todo : dedup'[q] = 0
    BY <2>1, <2>3, <2>4, <2>5, <2>6 DEF Facts, Guarded, Unreferenced, UndoingPCs
  <2>10. Facts(pc[w], loc[w])'
    BY <2>0, <2>1, <2>2, <2>3, <2>4, <2>7, <2>9 DEF Facts, Guarded, RowsThere,
       Unreferenced, StoringPCs, UndoingPCs, UnlockedPCs, LockedPCs,
       ReleasingPCs, CreatePCs, VerifyPCs, CountedPCs
  <2>11. pc'[w] \notin CountedPCs /\ loc'[w].held = loc[w].held
    BY <2>2, <2>3 DEF CountedPCs
  <2> HIDE DEF r
  <2> QED
    BY <2>1, <2>2, <2>4, <2>6, <2>7, <2>8, <2>10, <2>11, OwnPayload
<1>17. CASE UndoLeave(w)
  <2>1. SameRows /\ UNCHANGED loc
    BY <1>17 DEF UndoLeave, SameRows, storeVars, journalVars, procVars, recVars,
       Enter, Within, MayPoll, PollFails
  <2>2. Facts(pc[w], loc[w])
    BY <2>1, FactsNow DEF SameRows
  <2>3. Facts("undo_blob", loc[w])
    BY <1>17, <2>2 DEF UndoLeave, Facts, Guarded, RowsThere, Unreferenced,
       StoringPCs, UndoingPCs, UnlockedPCs, LockedPCs, ReleasingPCs, CreatePCs,
       VerifyPCs, CountedPCs
  <2> QED
    BY <1>17, <2>1, <2>3, QuietTo DEF UndoLeave, CountedPCs
<1>18. ASSUME NEW p \in Payloads, UndoBlob(w, p) PROVE PayloadStep(w)
  <2> DEFINE r == [loc[w] EXCEPT !.todo = @ \ {p}]
  <2>1. SameRows /\ SetLocals(w, r)
    BY <1>18 DEF UndoBlob, SameRows, storeVars, journalVars, procVars, recVars,
       Enter, Within, MayPoll, PollFails
  <2>2. Facts(pc[w], loc[w])
    BY <2>1, FactsNow DEF SameRows
  <2>3. /\ r.obj = loc[w].obj /\ r.held = loc[w].held /\ r.att = loc[w].att
        /\ r.todo = loc[w].todo \ {p} /\ r.done = loc[w].done /\ r.cur = loc[w].cur
    BY LocalsFields DEF Locals
  <2>4. Facts(pc[w], r)
    BY <1>18, <2>2, <2>3 DEF UndoBlob, Facts, Guarded, RowsThere, Unreferenced,
       StoringPCs, UndoingPCs, UnlockedPCs, LockedPCs, ReleasingPCs, CreatePCs,
       VerifyPCs, CountedPCs
  <2> QED
    BY <1>18, <2>1, <2>3, <2>4, QuietHere DEF UndoBlob, CountedPCs
<1>19. CASE UndoReturn(w)
  <2>1. SameRows
    BY <1>19 DEF UndoReturn, SameRows, storeVars, journalVars, procVars,
       recVars, Enter, Within, MayPoll, PollFails
  <2> QED
    BY <1>19, <2>1, QuietBack DEF UndoReturn
<1> QED
  BY <1>1, <1>2, <1>3, <1>4, <1>5, <1>6, <1>7, <1>8, <1>9, <1>10, <1>11,
     <1>12, <1>13, <1>14, <1>15, <1>16, <1>17, <1>18, <1>19
  DEF CreateStep

\* A verify changes a row's mark, never whether there is one.
LEMMA MarkPayloads ==
  ASSUME TypeInv, JournalInv, PayloadInv, NEW w \in Workers, mode = "up",
         UNCHANGED <<dedup, entry, mode, rpc, pc>>, pc[w] \in VerifyPCs,
         NEW o \in Objects, NEW p \in Rows(o), NEW mark, mark # "none",
         rows' = [rows EXCEPT ![o][p] = mark],
         \A v \in Workers \ {w} : loc'[v] = loc[v],
         loc'[w].obj = loc[w].obj, loc'[w].held = loc[w].held,
         loc'[w].todo \subseteq loc[w].todo
  PROVE  PayloadStep(w)
<1>1. Facts(pc[w], loc[w]) /\ pc[w] \notin CountedPCs /\ loc[w].obj \in Objects
  BY FactsNow DEF CountedPCs, VerifyPCs, FactPCs
<1>2. p \in Payloads /\ rows[o][p] # "none"
  BY DEF Rows
<1>3. \A q \in Objects, s \in Payloads : rows'[q][s] = "none" <=> rows[q][s] = "none"
  BY <1>2 DEF TypeInv, TypeOK, StoreTypeOK
<1>4. /\ \A s \in Payloads : Owners(s)' = Owners(s)
      /\ \A q \in Objects : Rows(q)' = Rows(q)
  BY <1>3 DEF Owners, Rows
<1>5. Facts(pc[w], loc[w])'
  BY <1>1, <1>4 DEF Facts, Guarded, RowsThere, Unreferenced, StoringPCs, UndoingPCs,
     UnlockedPCs, LockedPCs, ReleasingPCs, CreatePCs, VerifyPCs
<1>6. \A v \in Workers \ {w} : loc'[w].held \cap loc[v].held = {}
  BY DEF PayloadInv
<1>7. \A s \in Payloads : Covered(s) /\ ~InFlight(w, s)'
  BY <1>1 DEF PayloadInv, InFlight
<1> QED
  BY <1>3, <1>4, <1>5, <1>6, <1>7 DEF PayloadStep, Covered

\* The steps after the rows are gone, and those that never had any.
LEMMA Beyond ==
  FactPCs \cap ({"idle", "recover", "fence", "abort", "cmt_arch", "cmt_obj", "cmt_resv",
                 "cmt_att", "cmt_jrnl"} \cup AbortPCs \cup ArchivePCs \cup FlagOps) = {}
BY DEF FactPCs, CreatePCs, VerifyPCs, UnlockedPCs, LockedPCs, ReleasingPCs, AbortPCs,
   ArchivePCs, FlagOps

LEMMA VerifyPayloads ==
  ASSUME TypeInv, JournalInv, PayloadInv, NEW w \in Workers, VerifyStep(w)
  PROVE  PayloadStep(w)
<1>1. CASE VerifyLock(w)
  <2> DEFINE r == [loc[w] EXCEPT !.held = loc[w].todo]
  <2>1. SameRows /\ SetLocals(w, r)
    BY <1>1 DEF VerifyLock, SameRows, storeVars, journalVars, procVars, recVars,
       Enter, Within, MayPoll, PollFails
  <2>2. Facts(pc[w], loc[w])
    BY <2>1, FactsNow DEF SameRows
  <2>3. /\ r.obj = loc[w].obj /\ r.held = loc[w].todo /\ r.att = loc[w].att
        /\ r.todo = loc[w].todo /\ r.done = loc[w].done /\ r.cur = loc[w].cur
    BY LocalsFields DEF Locals
  <2>4. Facts("ver_next", r)
    BY <1>1, <2>2, <2>3 DEF VerifyLock, Facts, Guarded, RowsThere, Unreferenced,
       StoringPCs, UndoingPCs, UnlockedPCs, LockedPCs, ReleasingPCs, CreatePCs,
       VerifyPCs, CountedPCs
  <2> QED
    BY <1>1, <2>1, <2>3, <2>4, QuietWith DEF VerifyLock, CountedPCs,
       PayloadsFree
<1>2. CASE VerifyLockFails(w)
  <2>1. SameRows
    BY <1>2 DEF VerifyLockFails, SameRows, storeVars, journalVars, procVars,
       recVars, Enter, Within, MayPoll, PollFails
  <2> QED
    BY <1>2, <2>1, QuietBack DEF VerifyLockFails
<1>3. ASSUME NEW p \in Payloads, VerifyGood(w, p) PROVE PayloadStep(w)
  <2> DEFINE r == [loc[w] EXCEPT !.todo = @ \ {p}]
  <2>0. PICK o \in Objects : o = loc[w].obj
    BY <1>3, NoRecoveryNow DEF VerifyGood
  <2>1. /\ mode = "up" /\ UNCHANGED <<dedup, entry, mode, rpc, pc>>
        /\ pc[w] = "ver_next" /\ p \in loc[w].todo
        /\ rows' = [rows EXCEPT ![o][p] = "valid"] /\ SetLocals(w, r)
    BY <1>3, <2>0 DEF VerifyGood, WriteReplica, Enter, journalVars, procVars,
       recVars
  <2>2. p \in Rows(o)
    BY <2>0, <2>1, FactsNow DEF Facts, RowsThere, VerifyPCs
  <2>3. /\ loc'[w] = r /\ \A v \in Workers \ {w} : loc'[v] = loc[v]
        /\ r.obj = loc[w].obj /\ r.held = loc[w].held /\ r.todo \subseteq loc[w].todo
    BY <2>1, LocalsFrame, LocalsFields DEF Locals
  <2> HIDE DEF r
  <2> QED
    BY <2>1, <2>2, <2>3, MarkPayloads DEF VerifyPCs
<1>4. ASSUME NEW p \in Payloads, VerifyBad(w, p) PROVE PayloadStep(w)
  <2> DEFINE r == [loc[w] EXCEPT !.todo = @ \ {p}, !.cur = p]
  <2>1. SameRows /\ SetLocals(w, r)
    BY <1>4 DEF VerifyBad, SameRows, storeVars, journalVars, procVars, recVars,
       Enter, Within, MayPoll, PollFails
  <2>2. Facts(pc[w], loc[w])
    BY <2>1, FactsNow DEF SameRows
  <2>3. /\ r.obj = loc[w].obj /\ r.held = loc[w].held /\ r.att = loc[w].att
        /\ r.todo = loc[w].todo \ {p} /\ r.done = loc[w].done /\ r.cur = p
    BY LocalsFields DEF Locals
  <2>4. Facts("ver_inval", r)
    BY <1>4, <2>2, <2>3 DEF VerifyBad, Facts, Guarded, RowsThere, Unreferenced,
       StoringPCs, UndoingPCs, UnlockedPCs, LockedPCs, ReleasingPCs, CreatePCs,
       VerifyPCs, CountedPCs
  <2> QED
    BY <1>4, <2>1, <2>3, <2>4, QuietWith DEF VerifyBad, CountedPCs
<1>5. ASSUME NEW o \in Objects, VerifyInvalidate(w, o) PROVE PayloadStep(w)
  <2>1. /\ mode = "up" /\ UNCHANGED <<dedup, entry, mode, rpc, pc, loc>>
        /\ pc[w] = "ver_inval" /\ rows[o][loc[w].cur] = "valid"
        /\ rows' = [rows EXCEPT ![o][loc[w].cur] = "invalid"]
    BY <1>5 DEF VerifyInvalidate, InvalidatedOwners, WriteReplica, Within,
       journalVars,
       procVars, recVars
  <2>2. CASE loc[w].cur \in Payloads
    <3>1. loc[w].cur \in Rows(o)
      BY <2>1, <2>2 DEF Rows
    <3> QED
      BY <2>1, <3>1, MarkPayloads DEF VerifyPCs
  <2>3. CASE loc[w].cur \notin Payloads
    <3>1. rows' = rows
      BY <2>1, <2>3 DEF TypeInv, TypeOK, StoreTypeOK
    <3> QED
      BY <2>1, <3>1, FactsNow, QuietPayloads DEF SameRows
  <2> QED
    BY <2>2, <2>3
<1>6. ASSUME NEW o \in Objects, VerifyInvalidateFails(w, o) PROVE PayloadStep(w)
  <2>1. SameRows
    BY <1>6 DEF VerifyInvalidateFails, SameRows, storeVars, journalVars,
       procVars, recVars, Enter, Within, MayPoll, PollFails
  <2> QED
    BY <1>6, <2>1, QuietBack DEF VerifyInvalidateFails
<1>7. CASE VerifyInvalidated(w)
  <2> DEFINE r == [loc[w] EXCEPT !.cur = None]
  <2>1. SameRows /\ SetLocals(w, r)
    BY <1>7 DEF VerifyInvalidated, SameRows, storeVars, journalVars, procVars,
       recVars, Enter, Within, MayPoll, PollFails
  <2>2. Facts(pc[w], loc[w])
    BY <2>1, FactsNow DEF SameRows
  <2>3. /\ r.obj = loc[w].obj /\ r.held = loc[w].held /\ r.att = loc[w].att
        /\ r.todo = loc[w].todo /\ r.done = loc[w].done /\ r.cur = None
    BY LocalsFields DEF Locals
  <2>4. Facts("ver_next", r)
    BY <1>7, <2>2, <2>3 DEF VerifyInvalidated, Facts, Guarded, RowsThere,
       Unreferenced, StoringPCs, UndoingPCs, UnlockedPCs, LockedPCs,
       ReleasingPCs, CreatePCs, VerifyPCs, CountedPCs
  <2> QED
    BY <1>7, <2>1, <2>3, <2>4, QuietWith DEF VerifyInvalidated, CountedPCs
<1>8. CASE VerifyReturn(w)
  <2>1. SameRows
    BY <1>8 DEF VerifyReturn, SameRows, storeVars, journalVars, procVars,
       recVars, Enter, Within, MayPoll, PollFails
  <2> QED
    BY <1>8, <2>1, QuietBack DEF VerifyReturn
<1> QED
  BY <1>1, <1>2, <1>3, <1>4, <1>5, <1>6, <1>7, <1>8
  DEF VerifyStep

LEMMA ArchivePayloads ==
  ASSUME TypeInv, JournalInv, PayloadInv, NEW w \in Workers, ArchiveStep(w)
  PROVE  PayloadStep(w)
<1>1. CASE ArchiveWrite(w)
  <2>1. SameRows /\ UNCHANGED loc
    BY <1>1 DEF ArchiveWrite, SameRows, storeVars, journalVars, procVars,
       recVars, Enter, Within, MayPoll, PollFails
  <2> QED
    BY <1>1, <2>1, Beyond, NoFacts, QuietTo DEF ArchiveWrite, ArchivePCs
<1>2. CASE ArchiveInsert(w)
  <2>1. SameRows /\ UNCHANGED loc
    BY <1>2 DEF ArchiveInsert, SameRows, storeVars, journalVars, procVars,
       recVars, Enter, Within, MayPoll, PollFails
  <2> QED
    BY <1>2, <2>1, Beyond, NoFacts, QuietTo DEF ArchiveInsert, ArchivePCs
<1>3. CASE ArchivePublish(w)
  <2>1. SameRows
    BY <1>3 DEF ArchivePublish, SameRows, storeVars, journalVars, procVars,
       recVars, Enter, Within, MayPoll, PollFails
  <2> QED
    BY <1>3, <2>1, QuietBack DEF ArchivePublish
<1>4. CASE ArchiveUnrow(w)
  <2>1. SameRows /\ UNCHANGED loc
    BY <1>4 DEF ArchiveUnrow, SameRows, storeVars, journalVars, procVars,
       recVars, Enter, Within, MayPoll, PollFails
  <2> QED
    BY <1>4, <2>1, Beyond, NoFacts, QuietTo DEF ArchiveUnrow, ArchivePCs
<1>5. CASE ArchiveUnblob(w)
  <2>1. SameRows
    BY <1>5 DEF ArchiveUnblob, SameRows, storeVars, journalVars, procVars,
       recVars, Enter, Within, MayPoll, PollFails
  <2> QED
    BY <1>5, <2>1, QuietBack DEF ArchiveUnblob
<1> QED
  BY <1>1, <1>2, <1>3, <1>4, <1>5
  DEF ArchiveStep

LEMMA ReclaimPayloads ==
  ASSUME TypeInv, JournalInv, PayloadInv, NEW w \in Workers, ReclaimStep(w)
  PROVE  PayloadStep(w)
<1>1. CASE ToRecomputable(w)
  <2>1. SameRows /\ UNCHANGED loc
    BY <1>1 DEF ToRecomputable, SameRows, storeVars, journalVars, procVars,
       recVars, Enter, Within, MayPoll, PollFails, Transition
  <2>2. Facts(pc[w], loc[w])
    BY <2>1, FactsNow DEF SameRows
  <2>3. Facts("pending", loc[w])
    BY <1>1, <2>2 DEF ToRecomputable, Transition, Facts, Guarded, RowsThere,
       Unreferenced, StoringPCs, UndoingPCs, UnlockedPCs, LockedPCs,
       ReleasingPCs, CreatePCs, VerifyPCs, CountedPCs
  <2> QED
    BY <1>1, <2>1, <2>3, QuietTo DEF ToRecomputable, Transition, CountedPCs
<1>2. CASE ToPending(w)
  <2>1. SameRows /\ UNCHANGED loc
    BY <1>2 DEF ToPending, SameRows, storeVars, journalVars, procVars, recVars,
       Enter, Within, MayPoll, PollFails, Transition
  <2>2. Facts(pc[w], loc[w])
    BY <2>1, FactsNow DEF SameRows
  <2>3. Facts("validate", loc[w])
    BY <1>2, <2>2 DEF ToPending, Transition, Facts, Guarded, RowsThere,
       Unreferenced, StoringPCs, UndoingPCs, UnlockedPCs, LockedPCs,
       ReleasingPCs, CreatePCs, VerifyPCs, CountedPCs
  <2> QED
    BY <1>2, <2>1, <2>3, QuietTo DEF ToPending, Transition, CountedPCs
<1>3. CASE ReclaimValidated(w)
  <2>1. SameRows /\ UNCHANGED loc
    BY <1>3 DEF ReclaimValidated, SameRows, storeVars, journalVars, procVars,
       recVars, Enter, Within, MayPoll, PollFails
  <2>2. Facts(pc[w], loc[w])
    BY <2>1, FactsNow DEF SameRows
  <2>3. Facts("survive", loc[w])
    BY <1>3, <2>2 DEF ReclaimValidated, Facts, Guarded, RowsThere, Unreferenced,
       StoringPCs, UndoingPCs, UnlockedPCs, LockedPCs, ReleasingPCs, CreatePCs,
       VerifyPCs, CountedPCs
  <2> QED
    BY <1>3, <2>1, <2>3, QuietTo DEF ReclaimValidated, CountedPCs
<1>4. CASE Survive(w)
  <2> DEFINE c == IF Survives(loc[w].obj, entry[loc[w].att]) THEN "graph" ELSE "abort"
  <2>1. SameRows /\ Goto(w, c) /\ UNCHANGED loc
    BY <1>4 DEF Survive, SameRows, storeVars, journalVars, procVars, recVars,
       Enter, Within
  <2>2. Facts(pc[w], loc[w])
    BY <2>1, FactsNow DEF SameRows
  <2>3. c \in {"graph", "abort"} /\ c \notin CountedPCs
    BY DEF CountedPCs
  <2> HIDE DEF c
  <2>5. Facts(c, loc[w])
    BY <1>4, <2>2, <2>3 DEF Survive, Facts, Guarded, RowsThere, Unreferenced,
       StoringPCs, UndoingPCs, UnlockedPCs, LockedPCs, ReleasingPCs, CreatePCs,
       VerifyPCs, CountedPCs
  <2> QED
    BY <2>1, <2>3, <2>5, QuietTo
<1>5. CASE ReadGraph(w)
  <2> DEFINE r == [loc[w] EXCEPT !.kin = edges]
  <2>1. SameRows /\ SetLocals(w, r)
    BY <1>5 DEF ReadGraph, SameRows, storeVars, journalVars, procVars, recVars,
       Enter, Within, MayPoll, PollFails
  <2>2. Facts(pc[w], loc[w])
    BY <2>1, FactsNow DEF SameRows
  <2>3. /\ r.obj = loc[w].obj /\ r.held = loc[w].held /\ r.att = loc[w].att
        /\ r.todo = loc[w].todo /\ r.done = loc[w].done /\ r.cur = loc[w].cur
    BY LocalsFields DEF Locals
  <2>4. Facts("deps", r)
    BY <1>5, <2>2, <2>3 DEF ReadGraph, Facts, Guarded, RowsThere, Unreferenced,
       StoringPCs, UndoingPCs, UnlockedPCs, LockedPCs, ReleasingPCs, CreatePCs,
       VerifyPCs, CountedPCs
  <2> QED
    BY <1>5, <2>1, <2>3, <2>4, QuietWith DEF ReadGraph, CountedPCs
<1>6. CASE CheckDependencies(w)
  <2> DEFINE c == IF DependencySafe(loc[w].kin, loc[w].obj, Reconstructible, Dead) THEN "lock" ELSE "abort"
             r == [loc[w] EXCEPT !.kin = {}]
  <2>1. SameRows /\ Goto(w, c) /\ SetLocals(w, r)
    BY <1>6 DEF CheckDependencies, SameRows, storeVars, journalVars, procVars,
       recVars, Enter, Within
  <2>2. Facts(pc[w], loc[w])
    BY <2>1, FactsNow DEF SameRows
  <2>3. c \in {"lock", "abort"} /\ c \notin CountedPCs
    BY DEF CountedPCs
  <2>4. /\ r.obj = loc[w].obj /\ r.held = loc[w].held /\ r.att = loc[w].att
        /\ r.todo = loc[w].todo /\ r.done = loc[w].done /\ r.cur = loc[w].cur
    BY LocalsFields DEF Locals
  <2> HIDE DEF c
  <2>5. Facts(c, r)
    BY <1>6, <2>2, <2>3, <2>4 DEF CheckDependencies, Facts, Guarded, RowsThere,
       Unreferenced, StoringPCs, UndoingPCs, UnlockedPCs, LockedPCs,
       ReleasingPCs, CreatePCs, VerifyPCs, CountedPCs
  <2> QED
    BY <2>1, <2>3, <2>4, <2>5, QuietWith
<1>7. CASE ReclaimLock(w)
  <2> DEFINE r == [loc[w] EXCEPT !.held = loc[w].todo]
  <2>1. SameRows /\ SetLocals(w, r)
    BY <1>7 DEF ReclaimLock, SameRows, storeVars, journalVars, procVars,
       recVars, Enter, Within, MayPoll, PollFails
  <2>2. Facts(pc[w], loc[w])
    BY <2>1, FactsNow DEF SameRows
  <2>3. /\ r.obj = loc[w].obj /\ r.held = loc[w].todo /\ r.att = loc[w].att
        /\ r.todo = loc[w].todo /\ r.done = loc[w].done /\ r.cur = loc[w].cur
    BY LocalsFields DEF Locals
  <2>4. Facts("plan", r)
    BY <1>7, <2>2, <2>3 DEF ReclaimLock, Facts, Guarded, RowsThere,
       Unreferenced, StoringPCs, UndoingPCs, UnlockedPCs, LockedPCs,
       ReleasingPCs, CreatePCs, VerifyPCs, CountedPCs
  <2> QED
    BY <1>7, <2>1, <2>3, <2>4, QuietWith DEF ReclaimLock, CountedPCs,
       PayloadsFree
<1>8. CASE ReclaimLockFails(w)
  <2>1. SameRows /\ UNCHANGED loc
    BY <1>8 DEF ReclaimLockFails, SameRows, storeVars, journalVars, procVars,
       recVars, Enter, Within, MayPoll, PollFails
  <2> QED
    BY <1>8, <2>1, Beyond, NoFacts, QuietTo DEF ReclaimLockFails
<1>9. CASE PlanDeletions(w)
  <2>1. SameRows /\ pc[w] = "plan"
    BY <1>9 DEF PlanDeletions, SameRows, storeVars, journalVars, procVars,
       recVars,
       Enter
  <2>2. CASE Return(w)
    BY <2>1, <2>2, QuietBack
  <2>3. CASE ~Return(w)
    <3> DEFINE o == loc[w].obj
               r == [loc[w] EXCEPT !.todo = LastReferences(loc[w].todo)]
    <3>1. Goto(w, "start") /\ SetLocals(w, r)
      BY <1>9, <2>3 DEF PlanDeletions
    <3>2. Facts(pc[w], loc[w]) /\ o \in Objects
      BY <2>1, FactsNow DEF SameRows, FactPCs, LockedPCs
    <3>3. /\ r.obj = o /\ r.held = loc[w].held /\ r.att = loc[w].att
          /\ r.todo = LastReferences(loc[w].todo) /\ r.done = loc[w].done
      BY LocalsFields DEF Locals
    <3>4. /\ EntryRows(loc[w].att) \subseteq Rows(o)
          /\ loc[w].todo = EntryRows(loc[w].att)
      BY <2>1, <3>2 DEF Facts, Guarded, RowsThere, LockedPCs
    <3>5. ASSUME NEW q \in r.todo PROVE Owners(q) \subseteq {o}
      <4>1. q \in Payloads /\ dedup[q] = 1 /\ q \in Rows(o)
        BY <3>3, <3>4, <3>5 DEF LastReferences, EntryRows
      <4>2. Covered(q) /\ o \in Owners(q)
        BY <2>1, <3>2, <4>1, FactsNow DEF SameRows, Rows, Owners
      <4>3. Cardinality(Owners(q)) <= 1
        BY <4>1, <4>2 DEF Covered
      <4> QED
        BY <3>2, <4>1, <4>2, <4>3, OneOwner
    <3>6. r.todo \subseteq loc[w].todo
      BY <3>3 DEF LastReferences
    <3>7. Facts("start", r)
      BY <2>1, <3>2, <3>3, <3>4, <3>5, <3>6 DEF Facts, Guarded, RowsThere,
         Unreferenced, StoringPCs, UndoingPCs, UnlockedPCs, LockedPCs,
         ReleasingPCs, CreatePCs, VerifyPCs, CountedPCs
    <3> QED
      BY <2>1, <3>1, <3>3, <3>7, QuietWith DEF CountedPCs
  <2> QED
    BY <2>2, <2>3
<1>10. CASE StartPhysical(w)
  <2>1. SameRows /\ UNCHANGED loc
    BY <1>10 DEF StartPhysical, SameRows, storeVars, journalVars, procVars,
       recVars, Enter, Within, MayPoll, PollFails
  <2>2. Facts(pc[w], loc[w])
    BY <2>1, FactsNow DEF SameRows
  <2>3. Facts("delete", loc[w])
    BY <1>10, <2>2 DEF StartPhysical, Facts, Guarded, RowsThere, Unreferenced,
       StoringPCs, UndoingPCs, UnlockedPCs, LockedPCs, ReleasingPCs, CreatePCs,
       VerifyPCs, CountedPCs
  <2> QED
    BY <1>10, <2>1, <2>3, QuietTo DEF StartPhysical, CountedPCs
<1>11. ASSUME NEW p \in Payloads, DeletePayload(w, p) PROVE PayloadStep(w)
  <2> DEFINE r == [loc[w] EXCEPT !.todo = @ \ {p}]
  <2>1. SameRows /\ SetLocals(w, r)
    BY <1>11 DEF DeletePayload, SameRows, storeVars, journalVars, procVars,
       recVars, Enter, Within, MayPoll, PollFails
  <2>2. Facts(pc[w], loc[w])
    BY <2>1, FactsNow DEF SameRows
  <2>3. /\ r.obj = loc[w].obj /\ r.held = loc[w].held /\ r.att = loc[w].att
        /\ r.todo = loc[w].todo \ {p} /\ r.done = loc[w].done /\ r.cur = loc[w].cur
    BY LocalsFields DEF Locals
  <2>4. Facts(pc[w], r)
    BY <1>11, <2>2, <2>3 DEF DeletePayload, Facts, Guarded, RowsThere,
       Unreferenced, StoringPCs, UndoingPCs, UnlockedPCs, LockedPCs,
       ReleasingPCs, CreatePCs, VerifyPCs, CountedPCs
  <2> QED
    BY <1>11, <2>1, <2>3, <2>4, QuietHere DEF DeletePayload, CountedPCs
<1>12. CASE DeletedAll(w)
  <2> DEFINE c == IF entry[loc[w].att].arch > 0 THEN "arch" ELSE "check"
  <2>1. SameRows /\ Goto(w, c) /\ UNCHANGED loc
    BY <1>12 DEF DeletedAll, SameRows, storeVars, journalVars, procVars,
       recVars, Enter, Within
  <2>2. Facts(pc[w], loc[w])
    BY <2>1, FactsNow DEF SameRows
  <2>3. c \in {"arch", "check"} /\ c \notin CountedPCs
    BY DEF CountedPCs
  <2> HIDE DEF c
  <2>5. Facts(c, loc[w])
    BY <1>12, <2>2, <2>3 DEF DeletedAll, Facts, Guarded, RowsThere,
       Unreferenced, StoringPCs, UndoingPCs, UnlockedPCs, LockedPCs,
       ReleasingPCs, CreatePCs, VerifyPCs, CountedPCs
  <2> QED
    BY <2>1, <2>3, <2>5, QuietTo
<1>13. CASE DeleteArchive(w)
  <2>1. SameRows /\ UNCHANGED loc
    BY <1>13 DEF DeleteArchive, SameRows, storeVars, journalVars, procVars,
       recVars, Enter, Within, MayPoll, PollFails
  <2>2. Facts(pc[w], loc[w])
    BY <2>1, FactsNow DEF SameRows
  <2>3. Facts("check", loc[w])
    BY <1>13, <2>2 DEF DeleteArchive, Facts, Guarded, RowsThere, Unreferenced,
       StoringPCs, UndoingPCs, UnlockedPCs, LockedPCs, ReleasingPCs, CreatePCs,
       VerifyPCs, CountedPCs
  <2> QED
    BY <1>13, <2>1, <2>3, QuietTo DEF DeleteArchive, CountedPCs
<1>14. CASE ArchiveMissing(w)
  <2>1. SameRows
    BY <1>14 DEF ArchiveMissing, SameRows, storeVars, journalVars, procVars,
       recVars, Enter, Within, MayPoll, PollFails
  <2> QED
    BY <1>14, <2>1, QuietBack DEF ArchiveMissing
<1>15. CASE CheckDeleted(w)
  <2> DEFINE c == IF \A p \in plan[loc[w].att] : blob[p] = "absent" THEN "done" ELSE "fence"
  <2>1. SameRows /\ Goto(w, c) /\ UNCHANGED loc
    BY <1>15 DEF CheckDeleted, SameRows, storeVars, journalVars, procVars,
       recVars, Enter, Within
  <2>2. Facts(pc[w], loc[w])
    BY <2>1, FactsNow DEF SameRows
  <2>3. c \in {"done", "fence"} /\ c \notin CountedPCs
    BY DEF CountedPCs
  <2> HIDE DEF c
  <2>5. Facts(c, loc[w])
    BY <1>15, <2>2, <2>3 DEF CheckDeleted, Facts, Guarded, RowsThere,
       Unreferenced, StoringPCs, UndoingPCs, UnlockedPCs, LockedPCs,
       ReleasingPCs, CreatePCs, VerifyPCs, CountedPCs
  <2> QED
    BY <2>1, <2>3, <2>5, QuietTo
<1>16. CASE PhysicalDone(w)
  <2>1. SameRows /\ UNCHANGED loc
    BY <1>16 DEF PhysicalDone, SameRows, storeVars, journalVars, procVars,
       recVars, Enter, Within, MayPoll, PollFails
  <2>2. Facts(pc[w], loc[w])
    BY <2>1, FactsNow DEF SameRows
  <2>3. Facts("commit", loc[w])
    BY <1>16, <2>2 DEF PhysicalDone, Facts, Guarded, RowsThere, Unreferenced,
       StoringPCs, UndoingPCs, UnlockedPCs, LockedPCs, ReleasingPCs, CreatePCs,
       VerifyPCs, CountedPCs
  <2> QED
    BY <1>16, <2>1, <2>3, QuietTo DEF PhysicalDone, CountedPCs
<1>17. CASE CommitEnter(w)
  <2> DEFINE r == [loc[w] EXCEPT !.todo = EntryRows(loc[w].att)]
  <2>1. SameRows /\ SetLocals(w, r)
    BY <1>17 DEF CommitEnter, SameRows, storeVars, journalVars, procVars,
       recVars, Enter, Within, MayPoll, PollFails
  <2>2. Facts(pc[w], loc[w])
    BY <2>1, FactsNow DEF SameRows
  <2>3. /\ r.obj = loc[w].obj /\ r.held = loc[w].held /\ r.att = loc[w].att
        /\ r.todo = EntryRows(loc[w].att) /\ r.done = loc[w].done /\ r.cur = loc[w].cur
    BY LocalsFields DEF Locals
  <2>4. Facts("cmt_row", r)
    BY <1>17, <2>2, <2>3 DEF CommitEnter, Facts, Guarded, RowsThere,
       Unreferenced, StoringPCs, UndoingPCs, UnlockedPCs, LockedPCs,
       ReleasingPCs, CreatePCs, VerifyPCs, CountedPCs
  <2> QED
    BY <1>17, <2>1, <2>3, <2>4, QuietWith DEF CommitEnter, CountedPCs
<1>18. ASSUME NEW p \in Payloads, CommitRow(w, p) PROVE PayloadStep(w)
  <2>0. PICK o \in Objects : o = loc[w].obj
    BY <1>18, CurAt DEF CommitRow, ReleasingPCs
  <2> DEFINE r == [loc[w] EXCEPT !.todo = @ \ {p}, !.cur = p]
  <2>1. /\ mode = "up" /\ UNCHANGED <<dedup, entry, mode, rpc>>
        /\ pc[w] = "cmt_row" /\ p \in loc[w].todo
        /\ rows' = [rows EXCEPT ![o][p] = "none"]
        /\ Goto(w, "cmt_release") /\ SetLocals(w, r)
    BY <1>18, <2>0 DEF CommitRow, DeleteReplica, Within, journalVars, procVars,
       recVars
  <2>2. /\ pc'[w] = "cmt_release" /\ loc'[w] = r
        /\ \A v \in Workers \ {w} : pc'[v] = pc[v] /\ loc'[v] = loc[v]
    BY <2>1, GotoFrame, LocalsFrame
  <2>3. /\ r.obj = o /\ r.held = loc[w].held /\ r.att = loc[w].att
        /\ r.todo = loc[w].todo \ {p} /\ r.done = loc[w].done /\ r.cur = p
    BY <2>0, LocalsFields DEF Locals
  <2>4. Facts(pc[w], loc[w]) /\ Covered(p) /\ dedup[p] \in Nat
    BY <2>1, FactsNow
  <2>5. p \in loc[w].held /\ p \in Rows(o)
    BY <2>0, <2>1, <2>4 DEF Facts, Guarded, RowsThere, ReleasingPCs
  <2>6. /\ \A q \in Objects, s \in Payloads :
             \/ rows'[q][s] = "none" <=> rows[q][s] = "none"
             \/ q = o /\ s = p
        /\ Cardinality(Owners(p)) \in Nat
        /\ Cardinality(Owners(p)') = Cardinality(Owners(p)) - 1
        /\ Rows(o)' = Rows(o) \ {p}
    BY <2>1, <2>5, RowDeleted
  <2>7. /\ loc'[w].held = loc[w].held /\ loc'[w].cur = p
        /\ dedup'[p] >= Cardinality(Owners(p)') /\ dedup'[p] > Cardinality(Owners(p)')
    BY <2>1, <2>2, <2>3, <2>4, <2>6 DEF Covered
  <2>8. \A a : EntryRows(a)' = EntryRows(a)
    BY <2>1 DEF EntryRows
  <2>9. Facts(pc[w], loc[w])'
    BY <2>0, <2>1, <2>2, <2>3, <2>4, <2>5, <2>6, <2>8 DEF Facts, Guarded,
       RowsThere, Unreferenced, StoringPCs, UndoingPCs, UnlockedPCs, LockedPCs,
       ReleasingPCs, CreatePCs, VerifyPCs, CountedPCs
  <2> HIDE DEF r
  <2> QED
    BY <2>0, <2>1, <2>2, <2>5, <2>6, <2>7, <2>9, OwnPayload
<1>19. CASE CommitRelease(w)
  <2>0. PICK p \in Payloads : p = loc[w].cur
    BY <1>19, CurAt DEF CommitRelease
  <2> DEFINE r == [loc[w] EXCEPT !.cur = None]
  <2>1. /\ mode = "up" /\ UNCHANGED <<rows, entry, mode, rpc>>
        /\ pc[w] = "cmt_release" /\ DedupRelease(p)
        /\ Goto(w, IF dedup[p] > 0 THEN "cmt_row" ELSE "fence") /\ SetLocals(w, r)
    BY <1>19, <2>0 DEF CommitRelease, Within, journalVars, procVars, recVars
  <2>2. /\ Facts(pc[w], loc[w]) /\ p \in loc[w].held
    BY <2>0, <2>1, FactsNow DEF Facts, Guarded, ReleasingPCs
  <2>3. Covered(p) /\ InFlight(w, p) /\ dedup[p] \in Nat /\ Cardinality(Owners(p)) \in Nat
    BY <2>0, <2>1, FactsNow, OwnersCount DEF InFlight, CountedPCs
  <2>4. dedup[p] > 0
    BY <2>3 DEF Covered
  <2>5. /\ pc'[w] = "cmt_row" /\ loc'[w] = r
        /\ \A v \in Workers \ {w} : pc'[v] = pc[v] /\ loc'[v] = loc[v]
    BY <2>1, <2>4, GotoFrame, LocalsFrame
  <2>6. /\ r.obj = loc[w].obj /\ r.held = loc[w].held /\ r.att = loc[w].att
        /\ r.todo = loc[w].todo
    BY LocalsFields DEF Locals
  <2>7. /\ dedup'[p] = dedup[p] - 1
        /\ \A q \in Payloads \ {p} : dedup'[q] = dedup[q]
    BY <2>1, <2>4, Released
  <2>8. /\ Owners(p)' = Owners(p) /\ \A o : Rows(o)' = Rows(o)
        /\ \A a : EntryRows(a)' = EntryRows(a)
    BY <2>1, RowsSame DEF EntryRows
  <2>9. dedup'[p] >= Cardinality(Owners(p)')
    BY <2>3, <2>7, <2>8 DEF Covered
  <2>10. Facts(pc[w], loc[w])'
    BY <2>1, <2>2, <2>5, <2>6, <2>8 DEF Facts, Guarded, RowsThere, Unreferenced,
       StoringPCs, UndoingPCs, UnlockedPCs, LockedPCs, ReleasingPCs, CreatePCs,
       VerifyPCs, CountedPCs
  <2>11. pc'[w] \notin CountedPCs /\ loc'[w].held = loc[w].held
    BY <2>5, <2>6 DEF CountedPCs
  <2> HIDE DEF r
  <2> QED
    BY <2>1, <2>2, <2>5, <2>7, <2>8, <2>9, <2>10, <2>11, OwnPayload
<1>20. CASE CommitRowsDone(w)
  <2> DEFINE c == IF arch[loc[w].obj] > 0 THEN "cmt_arch" ELSE "cmt_obj"
  <2>1. SameRows /\ Goto(w, c) /\ UNCHANGED loc
    BY <1>20 DEF CommitRowsDone, SameRows, storeVars, journalVars, procVars,
       recVars, Enter, Within
  <2>2. Facts(pc[w], loc[w])
    BY <2>1, FactsNow DEF SameRows
  <2>3. c \in {"cmt_arch", "cmt_obj"} /\ c \notin CountedPCs
    BY DEF CountedPCs
  <2> HIDE DEF c
  <2>5. Facts(c, loc[w])
    BY <1>20, <2>2, <2>3 DEF CommitRowsDone, Facts, Guarded, RowsThere,
       Unreferenced, StoringPCs, UndoingPCs, UnlockedPCs, LockedPCs,
       ReleasingPCs, CreatePCs, VerifyPCs, CountedPCs
  <2> QED
    BY <2>1, <2>3, <2>5, QuietTo
<1>21. CASE CommitArchive(w)
  <2> DEFINE c == IF arch[loc[w].obj] > 1 THEN "cmt_arch" ELSE "cmt_obj"
  <2>1. SameRows /\ Goto(w, c) /\ UNCHANGED loc
    BY <1>21 DEF CommitArchive, SameRows, storeVars, journalVars, procVars,
       recVars, Enter, Within
  <2>2. Facts(pc[w], loc[w])
    BY <2>1, FactsNow DEF SameRows
  <2>3. c \in {"cmt_arch", "cmt_obj"} /\ c \notin CountedPCs
    BY DEF CountedPCs
  <2> HIDE DEF c
  <2>5. Facts(c, loc[w])
    BY <1>21, <2>2, <2>3 DEF CommitArchive, Facts, Guarded, RowsThere,
       Unreferenced, StoringPCs, UndoingPCs, UnlockedPCs, LockedPCs,
       ReleasingPCs, CreatePCs, VerifyPCs, CountedPCs
  <2> QED
    BY <2>1, <2>3, <2>5, QuietTo
<1>22. CASE CommitObject(w)
  <2>1. SameRows /\ UNCHANGED loc
    BY <1>22 DEF CommitObject, SameRows, storeVars, journalVars, procVars,
       recVars, Enter, Within, MayPoll, PollFails
  <2> QED
    BY <1>22, <2>1, Beyond, NoFacts, QuietTo DEF CommitObject
<1>23. CASE CommitReservation(w)
  <2>1. SameRows /\ UNCHANGED loc
    BY <1>23 DEF CommitReservation, SameRows, storeVars, journalVars, procVars,
       recVars, Enter, Within, MayPoll, PollFails, CloseReservation
  <2> QED
    BY <1>23, <2>1, Beyond, NoFacts, QuietTo DEF CommitReservation,
       CloseReservation
<1>24. CASE CommitAttempt(w)
  <2>1. SameRows /\ UNCHANGED loc
    BY <1>24 DEF CommitAttempt, SameRows, storeVars, journalVars, procVars,
       recVars, Enter, Within, MayPoll, PollFails, CloseAttempt
  <2> QED
    BY <1>24, <2>1, Beyond, NoFacts, QuietTo DEF CommitAttempt, CloseAttempt
<1>25. CASE CommitJournal(w)
  <2>1. SameRows /\ Return(w)
    BY <1>25 DEF CommitJournal, SameRows, storeVars, journalVars, procVars,
       recVars, Enter, Within, MayPoll, PollFails, CloseJournal
  <2> QED
    BY <2>1, QuietBack
<1>26. CASE Indeterminate(w)
  <2>1. SameRows
    BY <1>26 DEF Indeterminate, SameRows, storeVars, journalVars, procVars,
       recVars, Enter, Within, MayPoll, PollFails
  <2> QED
    BY <1>26, <2>1, QuietBack DEF Indeterminate
<1>27. CASE AbortObject(w)
  <2>1. SameRows /\ UNCHANGED loc
    BY <1>27 DEF AbortObject, SameRows, storeVars, journalVars, procVars,
       recVars, Enter, Within, MayPoll, PollFails
  <2> QED
    BY <1>27, <2>1, Beyond, NoFacts, QuietTo DEF AbortObject, AbortPCs
<1>28. CASE AbortReservation(w)
  <2>1. SameRows /\ UNCHANGED loc
    BY <1>28 DEF AbortReservation, SameRows, storeVars, journalVars, procVars,
       recVars, Enter, Within, MayPoll, PollFails, CloseReservation
  <2> QED
    BY <1>28, <2>1, Beyond, NoFacts, QuietTo DEF AbortReservation,
       CloseReservation, AbortPCs
<1>29. CASE AbortAttempt(w)
  <2>1. SameRows /\ UNCHANGED loc
    BY <1>29 DEF AbortAttempt, SameRows, storeVars, journalVars, procVars,
       recVars, Enter, Within, MayPoll, PollFails, CloseAttempt
  <2> QED
    BY <1>29, <2>1, Beyond, NoFacts, QuietTo DEF AbortAttempt, CloseAttempt,
       AbortPCs
<1>30. CASE AbortJournal(w)
  <2>1. SameRows /\ Return(w)
    BY <1>30 DEF AbortJournal, SameRows, storeVars, journalVars, procVars,
       recVars, Enter, Within, MayPoll, PollFails, CloseJournal
  <2> QED
    BY <2>1, QuietBack
<1> QED
  BY <1>1, <1>2, <1>3, <1>4, <1>5, <1>6, <1>7, <1>8, <1>9, <1>10, <1>11,
     <1>12, <1>13, <1>14, <1>15, <1>16, <1>17, <1>18, <1>19, <1>20, <1>21,
     <1>22, <1>23, <1>24, <1>25, <1>26, <1>27, <1>28, <1>29, <1>30
  DEF ReclaimStep

-----------------------------------------------------------------------------
(* Errors and requests. *)

LEMMA FailPayloads ==
  ASSUME TypeInv, JournalInv, PayloadInv, NEW w \in Workers, SameRows, StepFails(w)
  PROVE  PayloadStep(w)
<1>1. Facts(pc[w], loc[w])
  BY FactsNow DEF SameRows
<1>2. CASE ErrorTarget(w) = "idle"
  BY <1>2, QuietBack DEF StepFails
<1>3. ASSUME ErrorTarget(w) # "idle",
             Facts(ErrorTarget(w), loc[w]),
             ErrorTarget(w) \in CountedPCs => pc[w] \in CountedPCs
      PROVE  PayloadStep(w)
  BY <1>3, QuietTo DEF StepFails
<1>4. CASE pc[w] \in {"create_ref", "create_write", "create_unref", "create_unblob"}
  <2>1. ErrorTarget(w) = "undo"
    BY <1>4 DEF ErrorTarget, CommitPCs
  <2>2. Facts("undo", loc[w])
    BY <1>1, <1>4 DEF Facts, Guarded, RowsThere, Unreferenced, StoringPCs,
       UndoingPCs, UnlockedPCs, LockedPCs, ReleasingPCs, CreatePCs, VerifyPCs
  <2> QED
    BY <1>3, <2>1, <2>2 DEF CountedPCs
<1>5. CASE pc[w] = "create_insert"
  <2>1. ErrorTarget(w) = "create_unblob"
    BY <1>5 DEF ErrorTarget, CommitPCs
  <2>2. Facts("create_unblob", loc[w])
    BY <1>1, <1>5 DEF Facts, Guarded, RowsThere, Unreferenced, StoringPCs,
       UndoingPCs, UnlockedPCs, LockedPCs, ReleasingPCs, CreatePCs, VerifyPCs
  <2> QED
    BY <1>3, <2>1, <2>2 DEF CountedPCs
<1>6. CASE pc[w] = "create_row"
  <2>1. ErrorTarget(w) = "create_unref"
    BY <1>6 DEF ErrorTarget, CommitPCs
  <2>2. Facts("create_unref", loc[w])
    BY <1>1, <1>6 DEF Facts, Guarded, RowsThere, Unreferenced, StoringPCs,
       UndoingPCs, UnlockedPCs, LockedPCs, ReleasingPCs, CreatePCs, VerifyPCs
  <2> QED
    BY <1>3, <1>6, <2>1, <2>2 DEF CountedPCs
<1>7. CASE pc[w] = "publish"
  <2>1. ErrorTarget(w) \in {"idle", "undo_lock"}
    BY <1>7 DEF ErrorTarget, CommitPCs
  <2>2. Facts("undo_lock", loc[w])
    BY <1>1, <1>7 DEF Facts, Guarded, RowsThere, Unreferenced, StoringPCs,
       UndoingPCs, UnlockedPCs, LockedPCs, ReleasingPCs, CreatePCs, VerifyPCs
  <2> QED
    BY <1>2, <1>3, <2>1, <2>2 DEF CountedPCs
<1>8. CASE pc[w] \notin {"create_ref", "create_write", "create_unref",
                         "create_unblob", "create_insert", "create_row", "publish"}
  <2>1. ErrorTarget(w) \in {"idle", "abort", "fence", "arc_unblob", "arc_unrow"}
    BY <1>8, Zenon DEF ErrorTarget
  <2>2. ErrorTarget(w) \notin FactPCs
    BY <2>1, Beyond DEF ArchivePCs
  <2> QED
    BY <1>2, <1>3, <2>2, NoFacts
<1> QED
  BY <1>4, <1>5, <1>6, <1>7, <1>8

LEMMA FaultPayloads ==
  ASSUME TypeInv, JournalInv, PayloadInv, NEW w \in Workers, WorkerFault(w)
  PROVE  PayloadStep(w)
<1>1. CASE StatementError(w)
  <2>1. SameRows /\ StepFails(w)
    BY <1>1 DEF StatementError, SameRows, storeVars, journalVars, procVars, recVars,
       Enter, Within
  <2> QED
    BY <2>1, FailPayloads
<1>2. CASE EntryHeartbeatError(w)
  <2>1. SameRows /\ StepFails(w)
    BY <1>2 DEF EntryHeartbeatError, SameRows, storeVars, journalVars, recVars
  <2> QED
    BY <2>1, FailPayloads
<1>3. CASE WriteError(w)
  <2>1. /\ SameRows /\ UNCHANGED loc /\ Goto(w, "undo")
        /\ pc[w] = "create_write"
    BY <1>3 DEF WriteError, BackendFault, SameRows, storeVars, journalVars,
       procVars, recVars
  <2>2. Facts("undo", loc[w])
    BY <2>1, FactsNow DEF SameRows, Facts, Guarded, RowsThere, Unreferenced,
       StoringPCs, UndoingPCs, UnlockedPCs, LockedPCs, ReleasingPCs, CreatePCs,
       VerifyPCs
  <2> QED
    BY <2>1, <2>2, QuietTo DEF CountedPCs
<1>4. CASE ReadError(w)
  <2>1. /\ SameRows /\ UNCHANGED loc
        /\ \/ pc[w] = "create_ref" /\ Goto(w, "undo")
           \/ Goto(w, "fence")
    BY <1>4 DEF ReadError, BackendFault, SameRows, storeVars, journalVars,
       procVars, recVars
  <2>2. pc[w] = "create_ref" => Facts("undo", loc[w])
    BY <2>1, FactsNow DEF SameRows, Facts, Guarded, RowsThere, Unreferenced,
       StoringPCs, UndoingPCs, UnlockedPCs, LockedPCs, ReleasingPCs, CreatePCs,
       VerifyPCs
  <2> QED
    BY <2>1, <2>2, Beyond, NoFacts, QuietTo DEF CountedPCs
<1>5. CASE ArchiveError(w)
  <2>1. /\ SameRows
        /\ Return(w) \/ (Goto(w, "fence") /\ UNCHANGED loc)
    BY <1>5 DEF ArchiveError, BackendFault, SameRows, storeVars, journalVars,
       procVars, recVars
  <2> QED
    BY <2>1, Beyond, NoFacts, QuietTo, QuietBack
<1>6. ASSUME NEW p \in Payloads, DeleteError(w, p) PROVE PayloadStep(w)
  <2>1. SameRows
    BY <1>6 DEF DeleteError, BackendFault, SameRows, storeVars, journalVars,
       procVars, recVars
  <2>2. \/ pc[w] = "create_unblob" /\ Goto(w, "undo") /\ UNCHANGED loc
        \/ Goto(w, "fence") /\ UNCHANGED loc
        \/ Return(w)
    BY <1>6, Zenon DEF DeleteError
  <2>3. pc[w] = "create_unblob" => Facts("undo", loc[w])
    BY <2>1, FactsNow DEF SameRows, Facts, Guarded, RowsThere, Unreferenced,
       StoringPCs, UndoingPCs, UnlockedPCs, LockedPCs, ReleasingPCs, CreatePCs,
       VerifyPCs
  <2> QED
    BY <2>1, <2>2, <2>3, Beyond, NoFacts, QuietTo, QuietBack DEF CountedPCs
<1>7. ASSUME NEW p \in Payloads, VerifyReadError(w, p) PROVE PayloadStep(w)
  <2> DEFINE r == [loc[w] EXCEPT !.todo = @ \ {p}, !.cur = p]
  <2>1. /\ SameRows /\ Goto(w, "ver_inval") /\ SetLocals(w, r)
        /\ pc[w] = "ver_next"
    BY <1>7 DEF VerifyReadError, BackendFault, SameRows, storeVars, journalVars,
       procVars, recVars
  <2>2. /\ r.obj = loc[w].obj /\ r.held = loc[w].held
        /\ r.todo = loc[w].todo \ {p}
    BY LocalsFields DEF Locals
  <2>3. Facts("ver_inval", r)
    BY <2>1, <2>2, FactsNow DEF SameRows, Facts, Guarded, RowsThere, Unreferenced,
       StoringPCs, UndoingPCs, UnlockedPCs, LockedPCs, ReleasingPCs, CreatePCs,
       VerifyPCs
  <2> QED
    BY <2>1, <2>2, <2>3, QuietWith DEF CountedPCs
<1> QED
  BY <1>1, <1>2, <1>3, <1>4, <1>5, <1>6, <1>7 DEF WorkerFault

LEMMA WorkerPayloads ==
  ASSUME TypeInv, JournalInv, PayloadInv, NEW w \in Workers, WorkerStep(w)
  PROVE  PayloadStep(w)
<1>1. CASE FlagWrite(w)
  <2>1. SameRows /\ Return(w)
    BY <1>1 DEF FlagWrite, Enter, SameRows, journalVars, procVars, recVars
  <2> QED
    BY <2>1, QuietBack
<1>2. CASE AuthorityError(w)
  <2>1. SameRows /\ StepFails(w)
    BY <1>2 DEF AuthorityError, SameRows, storeVars, journalVars, procVars, recVars
  <2> QED
    BY <2>1, FailPayloads
<1> QED
  BY <1>1, <1>2, CreatePayloads, ReclaimPayloads, VerifyPayloads, ArchivePayloads
  DEF WorkerStep

LEMMA RequestPayloads ==
  ASSUME TypeInv, JournalInv, PayloadInv, "recover" \notin Requests,
         NEW w \in Workers, Request(w)
  PROVE  PayloadStep(w)
<1>0. pc[w] = "idle" => loc[w] = NoLocals
  BY IdleHasNone
<1>1. ASSUME NEW o \in Objects, NEW kind \in FlagOps, FlagBegin(w, o, kind)
      PROVE  PayloadStep(w)
  <2> DEFINE r == [loc[w] EXCEPT !.obj = o, !.seen = object[o]]
  <2>1. SameRows /\ Goto(w, kind) /\ SetLocals(w, r)
    BY <1>1 DEF FlagBegin, Enter, SameRows, storeVars, journalVars, procVars, recVars
  <2>2. r.held = loc[w].held
    BY LocalsFields DEF Locals
  <2> QED
    BY <2>1, <2>2, Beyond, NoFacts, QuietWith
<1>2. ASSUME NEW o \in Objects, CreateBegin(w, o) PROVE PayloadStep(w)
  <2> DEFINE r == [loc[w] EXCEPT !.obj = o, !.todo = Targets[o]]
             c == IF Targets[o] = {} THEN "publish" ELSE "create_lock"
  <2>1. SameRows /\ Goto(w, c) /\ SetLocals(w, r) /\ loc[w] = NoLocals
    BY <1>0, <1>2 DEF CreateBegin, Enter, SameRows, storeVars, journalVars,
       procVars, recVars
  <2>2. r.held = loc[w].held /\ r.done = {}
    BY <2>1 DEF NoLocals
  <2>3. c \in {"publish", "create_lock"} /\ c \notin CountedPCs
    BY DEF CountedPCs
  <2> HIDE DEF c, r
  <2>4. Facts(c, r)
    BY <2>2, <2>3 DEF Facts, Guarded, RowsThere, Unreferenced, StoringPCs,
       UndoingPCs, UnlockedPCs, LockedPCs, ReleasingPCs, CreatePCs, VerifyPCs
  <2> QED
    BY <2>1, <2>2, <2>3, <2>4, QuietWith
<1>3. ASSUME NEW o \in Objects, NEW a \in Attempts, Reserve(w, o, a)
      PROVE  PayloadStep(w)
  <2> DEFINE r == [loc[w] EXCEPT !.obj = o, !.att = a, !.seen = object[o],
                                 !.todo = Rows(o)]
             e == [obj |-> o, prior |-> object[o], rows |-> rows[o], arch |-> arch[o]]
             c == CASE object[o].state \in StagedStates -> "recomputable"
                    [] object[o].state = "RECLAIM_PENDING" -> "validate"
                    [] OTHER -> "pending"
  <2>1. /\ mode = "up" /\ UNCHANGED <<rows, dedup, mode, rpc>>
        /\ phase[a] = "NONE" /\ entry' = [entry EXCEPT ![a] = e]
        /\ Goto(w, c) /\ SetLocals(w, r) /\ loc[w] = NoLocals
    BY <1>0, <1>3 DEF Reserve, Enter, storeVars, procVars, recVars
  <2>2. c \in {"recomputable", "validate", "pending"}
    BY Zenon
  <2>3. /\ r.obj = o /\ r.att = a /\ r.todo = Rows(o) /\ r.held = {}
    BY <2>1 DEF NoLocals
  <2>4. /\ pc'[w] = c /\ loc'[w] = r
        /\ \A v \in Workers \ {w} : pc'[v] = pc[v] /\ loc'[v] = loc[v]
    BY <2>1, GotoFrame, LocalsFrame
  <2>5. /\ EntryRows(a)' = Rows(o) /\ Rows(o)' = Rows(o)
        /\ \A b \in Attempts \ {a} : entry'[b] = entry[b]
    BY <2>1 DEF EntryRows, Rows, TypeInv, TypeOK, JournalTypeOK
  <2> HIDE DEF c, r
  <2>6. Facts(pc[w], loc[w])'
    BY <2>2, <2>3, <2>4, <2>5 DEF Facts, Guarded, RowsThere, Unreferenced,
       StoringPCs, UndoingPCs, UnlockedPCs, LockedPCs, ReleasingPCs, CreatePCs,
       VerifyPCs
  <2>7. loc[w].held = {} /\ loc'[w].held = {} /\ pc'[w] \notin CountedPCs
    BY <2>1, <2>2, <2>3, <2>4 DEF NoLocals, CountedPCs
  <2> QED
    BY <2>1, <2>4, <2>5, <2>6, <2>7 DEF PayloadStep, InFlight
<1>4. ASSUME NEW o \in Objects, VerifyBegin(w, o) PROVE PayloadStep(w)
  <2> DEFINE r == [loc[w] EXCEPT !.obj = o, !.todo = Rows(o)]
  <2>1. SameRows /\ Goto(w, "ver_lock") /\ SetLocals(w, r)
    BY <1>4 DEF VerifyBegin, Enter, SameRows, storeVars, journalVars, procVars,
       recVars
  <2>2. r.held = loc[w].held /\ r.obj = o /\ r.todo = Rows(o)
    BY LocalsFields DEF Locals
  <2>3. Facts("ver_lock", r)
    BY <2>2 DEF Facts, Guarded, RowsThere, Unreferenced, StoringPCs,
       UndoingPCs, UnlockedPCs, LockedPCs, ReleasingPCs, CreatePCs, VerifyPCs
  <2> QED
    BY <2>1, <2>2, <2>3, QuietWith DEF CountedPCs
<1>5. ASSUME NEW o \in Objects, ArchiveBegin(w, o) PROVE PayloadStep(w)
  <2> DEFINE r == [loc[w] EXCEPT !.obj = o, !.seen = object[o]]
  <2>1. SameRows /\ Goto(w, "arc_write") /\ SetLocals(w, r)
    BY <1>5 DEF ArchiveBegin, Enter, SameRows, storeVars, journalVars, procVars,
       recVars
  <2>2. r.held = loc[w].held
    BY LocalsFields DEF Locals
  <2> QED
    BY <2>1, <2>2, Beyond, NoFacts, QuietWith DEF ArchivePCs
<1>6. ASSUME NEW e \in EdgeChoices, AddLineage(w, e) \/ RemoveLineage(w, e)
      PROVE  PayloadStep(w)
  <2>1. SameRows /\ UNCHANGED <<pc, loc>>
    BY <1>6 DEF AddLineage, RemoveLineage, Enter, SameRows, journalVars, procVars,
       recVars
  <2> QED
    BY <2>1, FactsNow, QuietPayloads DEF SameRows
<1>7. CASE RecoverRequest(w)
  BY <1>7 DEF RecoverRequest
<1> QED
  BY <1>1, <1>2, <1>3, <1>4, <1>5, <1>6, <1>7 DEF Request

-----------------------------------------------------------------------------
(* Recovery and the process. *)

\* No request is in progress, and if the process serves the counts are exact.
LEMMA IdlePayloads ==
  ASSUME TypeInv,
         \A w \in Workers : pc'[w] \in {"idle", "recover"} /\ loc'[w] = NoLocals,
         rpc' # "off" => mode' # "up",
         mode' = "up" => dedup' = ExactCounts'
  PROVE  PayloadInv'
<1>1. \A w \in Workers : loc'[w].held = {}
  BY DEF NoLocals
<1>2. \A w \in Workers : pc'[w] \notin CountedPCs
  BY DEF CountedPCs
<1>3. ASSUME NEW w \in Workers PROVE Facts(pc[w], loc[w])'
  <2>1. pc'[w] \notin FactPCs
    BY Beyond
  <2> QED
    BY <2>1 DEF FactPCs, Facts, Guarded, RowsThere, Unreferenced, StoringPCs,
       UndoingPCs, UnlockedPCs, LockedPCs, ReleasingPCs, CreatePCs, VerifyPCs
<1>4. ASSUME mode' = "up", NEW p \in Payloads PROVE Covered(p)'
  <2>1. dedup'[p] = Cardinality(Owners(p)') /\ Cardinality(Owners(p)') \in Nat
    <3>1. IsFiniteSet(Objects)
      BY ConstantsAssumption DEF ConstantsAssumption
    <3>2. IsFiniteSet(Owners(p)')
      BY <3>1, FS_Subset DEF Owners
    <3> QED
      BY <1>4, <3>2, FS_CardinalityType DEF ExactCounts
  <2>2. \A w \in Workers : ~InFlight(w, p)'
    BY <1>2 DEF InFlight
  <2> QED
    BY <2>1, <2>2 DEF Covered
<1> QED
  BY <1>1, <1>3, <1>4 DEF PayloadInv

\* A step of recovery leaves the requests and the payloads alone.
LEMMA RecoveryOutside ==
  ASSUME RecoveryStep
  PROVE  rpc # "off" /\ blob' = blob /\ (RecEnd \/ UNCHANGED <<mode, pc, loc>>)
<1> USE DEF RecAt, storeVars, journalVars, physVars, procVars, workVars
<1>1. CASE RecScan \/ RecQueueEmpty \/ \E a \in Attempts : RecNext(a) \/ RecBackendError(a)
  BY <1>1 DEF RecScan, RecQueueEmpty, RecNext, RecBackendError
<1>2. CASE \/ RollbackObject \/ RollbackRowsDone \/ RollbackArchive \/ RollbackRepair
           \/ \E p \in Payloads : RollbackRow(p) \/ RollbackRowConflict(p)
  BY <1>2 DEF RollbackObject, RollbackRowsDone, RollbackArchive, RollbackRepair,
     RollbackRow, RollbackRowConflict
<1>3. CASE \/ RollbackReservation \/ RollbackAttempt \/ RollbackJournal
           \/ RecCommitReservation \/ RecCommitAttempt \/ RecCommitJournal
  BY <1>3 DEF RollbackReservation, RollbackAttempt, RollbackJournal,
     RecCommitReservation, RecCommitAttempt, RecCommitJournal, RecReservation,
     RecAttempt, RecJournal
<1>4. CASE \/ RecCommitRelease \/ RecCommitRowsDone \/ RecCommitArchive \/ RecCommitObject
           \/ \E p \in Payloads : RecCommitRow(p)
  BY <1>4 DEF RecCommitRelease, RecCommitRowsDone, RecCommitArchive, RecCommitObject,
     RecCommitRow
<1>5. CASE RecExpire \/ RecRepair \/ RecLineage
  BY <1>5 DEF RecExpire, RecRepair, RecLineage
<1>6. CASE RecStoreError \/ RecRepairPartial
  BY <1>6 DEF RecStoreError, RecRepairPartial
<1>7. CASE RecEnd
  BY <1>7 DEF RecEnd
<1> QED
  BY <1>1, <1>2, <1>3, <1>4, <1>5, <1>6, <1>7 DEF RecoveryStep

LEMMA RecoveryPayloads ==
  ASSUME TypeInv, JournalInv, RecoveryInv, PayloadInv, RecoveryStep
  PROVE  PayloadInv'
<1>1. rpc # "off" /\ mode # "up" /\ (RecEnd \/ UNCHANGED <<mode, pc, loc>>)
  BY RecoveryOutside DEF PayloadInv
<1>2. \A w \in Workers : pc[w] \in {"idle", "recover"} /\ loc[w] = NoLocals
  BY <1>1, AllIdle
<1>3. CASE UNCHANGED <<mode, pc, loc>>
  BY <1>1, <1>2, <1>3, IdlePayloads
<1>4. CASE RecEnd
  <2>1. /\ mode = "starting" /\ rpc = "end" /\ rec.by = None /\ rpc' = "off"
        /\ mode' = (IF rec.err THEN "down" ELSE "up")
        /\ UNCHANGED <<pc, loc, rows, dedup>>
    BY <1>1, <1>4 DEF RecEnd, RecAt, RecoveryInv, TypeInv, TypeOK, ProcTypeOK, storeVars
  <2>2. mode' = "up" => dedup' = ExactCounts'
    BY <2>1 DEF RecoveryInv, RecoveryCovers, ExactCounts, Owners
  <2> QED
    BY <1>2, <2>1, <2>2, IdlePayloads
<1> QED
  BY <1>1, <1>3, <1>4

\* Nothing the invariant mentions changes.
LEMMA StillPayloads ==
  ASSUME PayloadInv, UNCHANGED <<rows, dedup, entry, mode, pc, loc, rpc>>
  PROVE  PayloadInv'
BY DEF PayloadInv, Facts, Guarded, RowsThere, Unreferenced, Covered, InFlight,
   Rows, Owners, EntryRows

LEMMA ProcessPayloads ==
  ASSUME TypeInv, JournalInv, PayloadInv, Process
  PROVE  PayloadInv'
<1>1. CASE Start
  <2>1. mode = "down" /\ mode' = "starting" /\ UNCHANGED <<pc, loc>>
    BY <1>1 DEF Start, workVars
  <2> QED
    BY <2>1, AllIdle, IdlePayloads
<1>2. CASE Vanish
  BY <1>2, IdlePayloads DEF Vanish
<1>3. CASE RequestShutdown \/ HeartbeatThreadError
  BY <1>3, StillPayloads DEF RequestShutdown, HeartbeatThreadError, storeVars,
     journalVars, workVars, recVars
<1> QED
  BY <1>1, <1>2, <1>3 DEF Process, Exit, Crash

LEMMA InitPayloads == Init => PayloadInv
<1> SUFFICES ASSUME Init PROVE PayloadInv
  OBVIOUS
<1>1. \A w \in Workers : pc[w] = "idle" /\ loc[w] = NoLocals /\ loc[w].held = {}
  BY DEF Init, NoLocals
<1>2. \A w \in Workers : Facts(pc[w], loc[w]) /\ pc[w] \notin CountedPCs
  BY <1>1, Beyond, NoFacts
<1>3. ASSUME NEW p \in Payloads PROVE Covered(p)
  <2>1. Owners(p) = {o \in InitialObjects : p \in Targets[o]}
    BY ConstantsAssumption DEF ConstantsAssumption, Init, Owners
  <2>2. dedup[p] = Cardinality(Owners(p))
    BY <2>1 DEF Init
  <2> QED
    BY <1>2, <2>2, OwnersCount DEF Covered, InFlight
<1> QED
  BY <1>1, <1>2, <1>3 DEF Init, PayloadInv

LEMMA NextPayloads ==
  ASSUME "recover" \notin Requests
  PROVE  TypeInv /\ JournalInv /\ RecoveryInv /\ PayloadInv /\ [Next]_vars => PayloadInv'
<1> SUFFICES ASSUME TypeInv, JournalInv, RecoveryInv, PayloadInv, [Next]_vars
             PROVE  PayloadInv'
  OBVIOUS
<1>1. CASE UNCHANGED vars \/ \E p \in Payloads : Corrupt(p)
  BY <1>1, StillPayloads DEF vars, Corrupt, storeVars, journalVars, procVars,
     workVars, recVars
<1> QED
  BY <1>1, RequestPayloads, WorkerPayloads, FaultPayloads, StepKeepsPayloads,
     RecoveryPayloads, ProcessPayloads DEF Next

LEMMA AlwaysPayloads ==
  ASSUME "recover" \notin Requests
  PROVE  Spec => []PayloadInv
<1>1. Init => PayloadInv
  BY InitPayloads
<1>2. TypeInv /\ JournalInv /\ RecoveryInv /\ PayloadInv /\ [Next]_vars => PayloadInv'
  BY NextPayloads
<1> QED
  BY <1>1, <1>2, AlwaysSound, PTL DEF Spec

(* dedup_acquire before add_replica and delete_replica before dedup_release,  *)
(* all under the guard of the payload: whatever two registrations, reclaims   *)
(* and compensations do at once, whichever statements fail and wherever the   *)
(* process crashes, a serving coordinator never counts fewer references than  *)
(* there are rows.  After a crash the exact counts of recovery are what       *)
(* serving starts from (RecoveryCovers).                                      *)
THEOREM CountsCoverRows ==
  ASSUME "recover" \notin Requests
  PROVE  Spec => []RefcountCovers
<1>1. PayloadInv => RefcountCovers
  BY DEF PayloadInv, Covered, RefcountCovers, Serving
<1> QED
  BY <1>1, AlwaysPayloads, PTL

-----------------------------------------------------------------------------
(* Who may delete a payload. *)

\* The payload at hand of a request that writes or deletes one.
AtHand(w, p) ==
  \/ pc[w] \in {"create_write", "create_unblob"} /\ p = loc[w].cur
  \/ pc[w] \in {"undo_blob", "delete"} /\ p \in loc[w].todo

Touches(w) ==
  \/ blob' = blob
  \/ \E p \in Payloads :
       mode = "up" /\ AtHand(w, p) /\ \A q \in Payloads \ {p} : blob'[q] = blob[q]

LastStep ==
  \A p \in Payloads :
    (blob[p] # "absent" /\ blob'[p] = "absent")
      => \E w \in Workers : Owners(p) \subseteq {loc[w].obj}

LEMMA OnlyOwner ==
  ASSUME TypeInv, PayloadInv, NEW w \in Workers, NEW p \in Payloads, mode = "up",
         AtHand(w, p)
  PROVE  Owners(p) \subseteq {loc[w].obj}
<1>1. Facts(pc[w], loc[w]) /\ Covered(p)
  BY DEF PayloadInv
<1>2. CASE pc[w] = "delete"
  BY <1>1, <1>2 DEF AtHand, Facts, Unreferenced
<1>3. CASE pc[w] # "delete"
  <2>1. dedup[p] = 0
    BY <1>1, <1>3 DEF AtHand, Facts, Unreferenced, UndoingPCs
  <2>2. Cardinality(Owners(p)) <= 0
    BY <1>1, <2>1 DEF Covered
  <2> QED
    BY <2>2, NoOwner
<1> QED
  BY <1>2, <1>3

LEMMA TouchesOne ==
  ASSUME TypeInv, NEW w \in Workers, NEW p \in Payloads, NEW b, mode = "up",
         AtHand(w, p), blob' = [blob EXCEPT ![p] = b]
  PROVE  Touches(w)
<1>1. \A q \in Payloads \ {p} : blob'[q] = blob[q]
  BY DEF TypeInv, TypeOK, PhysTypeOK
<1> QED
  BY <1>1 DEF Touches

LEMMA CreateTouches ==
  ASSUME TypeInv, JournalInv, PayloadInv, NEW w \in Workers, CreateStep(w)
  PROVE  Touches(w)
<1>1. CASE CreateWrite(w) \/ CreateUnblob(w)
  <2>1. /\ mode = "up" /\ pc[w] \in {"create_write", "create_unblob"}
        /\ blob' = [blob EXCEPT ![loc[w].cur] = "ok"]
             \/ blob' = [blob EXCEPT ![loc[w].cur] = "absent"]
    BY <1>1 DEF CreateWrite, CreateUnblob, Enter
  <2>2. PICK p \in Payloads : p = loc[w].cur
    BY <2>1, LocalsFields DEF PayloadInv, Facts, Guarded, StoringPCs
  <2>3. AtHand(w, p)
    BY <2>1, <2>2 DEF AtHand
  <2> QED
    BY <2>1, <2>2, <2>3, TouchesOne
<1>2. ASSUME NEW p \in Payloads, UndoBlob(w, p) PROVE Touches(w)
  BY <1>2, TouchesOne DEF UndoBlob, Enter, AtHand
<1>3. CASE \/ CreateLock(w) \/ CreateLockFails(w)
           \/ \E p \in Payloads : CreateAcquire(w, p) \/ CreateRefuse(w, p) \/ CreateMiss(w, p)
           \/ CreateInsert(w) \/ CreateRow(w) \/ Publish(w) \/ CreateUnref(w)
  BY <1>3 DEF CreateLock, CreateLockFails, CreateAcquire, CreateRefuse, CreateMiss,
     CreateInsert, CreateRow, Publish, CreateUnref, physVars, Touches
<1>4. CASE \/ UndoLock(w) \/ UndoLockFails(w) \/ UndoEnter(w)
           \/ (\E p \in Payloads : UndoRow(w, p))
           \/ UndoRelease(w) \/ UndoLeave(w) \/ UndoReturn(w)
  BY <1>4 DEF UndoLock, UndoLockFails, UndoEnter, UndoRow, UndoRelease, UndoLeave,
     UndoReturn, physVars, Touches
<1> QED
  BY <1>1, <1>2, <1>3, <1>4 DEF CreateStep

LEMMA ReclaimTouches ==
  ASSUME TypeInv, NEW w \in Workers, ReclaimStep(w)
  PROVE  Touches(w)
<1>1. ASSUME NEW p \in Payloads, DeletePayload(w, p) PROVE Touches(w)
  BY <1>1, TouchesOne DEF DeletePayload, Enter, AtHand
<1>2. CASE ToRecomputable(w) \/ ToPending(w) \/ CommitObject(w) \/ AbortObject(w)
  BY <1>2, Zenon DEF ToRecomputable, ToPending, Transition, CommitObject, AbortObject,
     physVars, Touches
<1>3. CASE \/ ReclaimValidated(w) \/ Survive(w) \/ ReadGraph(w) \/ CheckDependencies(w)
           \/ ReclaimLock(w)
  BY <1>3, Zenon DEF ReclaimValidated, Survive, ReadGraph, CheckDependencies,
     ReclaimLock, physVars, Touches
<1>4. CASE ReclaimLockFails(w) \/ PlanDeletions(w) \/ StartPhysical(w)
  BY <1>4, Zenon DEF ReclaimLockFails, PlanDeletions, StartPhysical, physVars, Touches
<1>5. CASE DeletedAll(w) \/ DeleteArchive(w) \/ ArchiveMissing(w) \/ CheckDeleted(w)
  BY <1>5, Zenon DEF DeletedAll, DeleteArchive, ArchiveMissing, CheckDeleted,
     physVars, Touches
<1>6. CASE PhysicalDone(w) \/ CommitEnter(w) \/ Indeterminate(w)
  BY <1>6, Zenon DEF PhysicalDone, CommitEnter, Indeterminate, physVars, Touches
<1>7. CASE \E p \in Payloads : CommitRow(w, p)
  BY <1>7, Zenon DEF CommitRow, physVars, Touches
<1>8. CASE CommitRelease(w) \/ CommitRowsDone(w) \/ CommitArchive(w)
  BY <1>8, Zenon DEF CommitRelease, CommitRowsDone, CommitArchive, physVars, Touches
<1>9. CASE \/ CommitReservation(w) \/ CommitAttempt(w)
           \/ AbortReservation(w) \/ AbortAttempt(w)
  BY <1>9, Zenon DEF CommitReservation, CommitAttempt, AbortReservation, AbortAttempt,
     CloseReservation, CloseAttempt, physVars, Touches
<1>10. CASE CommitJournal(w) \/ AbortJournal(w)
  BY <1>10, Zenon DEF CommitJournal, AbortJournal, CloseJournal, physVars, Touches
<1> QED
  BY <1>1, <1>2, <1>3, <1>4, <1>5, <1>6, <1>7, <1>8, <1>9, <1>10 DEF ReclaimStep

LEMMA FaultTouches ==
  ASSUME TypeInv, PayloadInv, NEW w \in Workers, WorkerFault(w)
  PROVE  Touches(w)
<1>1. CASE WriteError(w)
  <2>1. /\ mode = "up" /\ pc[w] = "create_write"
        /\ \E b : blob' = [blob EXCEPT ![loc[w].cur] = b]
    BY <1>1 DEF WriteError, BackendFault
  <2>2. PICK p \in Payloads : p = loc[w].cur
    BY <2>1, LocalsFields DEF PayloadInv, Facts, Guarded, StoringPCs
  <2>3. AtHand(w, p)
    BY <2>1, <2>2 DEF AtHand
  <2> QED
    BY <2>1, <2>2, <2>3, TouchesOne
<1>2. ASSUME NEW p \in Payloads, DeleteError(w, p) PROVE Touches(w)
  <2>1. /\ mode = "up" /\ AtHand(w, p)
        /\ \E b : blob' = [blob EXCEPT ![p] = b]
    BY <1>2, Zenon DEF DeleteError, BackendFault, AtHand
  <2> QED
    BY <2>1, TouchesOne
<1>3. CASE \/ StatementError(w) \/ EntryHeartbeatError(w) \/ ReadError(w) \/ ArchiveError(w)
           \/ \E p \in Payloads : VerifyReadError(w, p)
  BY <1>3 DEF StatementError, EntryHeartbeatError, ReadError, ArchiveError,
     VerifyReadError, physVars, Touches
<1> QED
  BY <1>1, <1>2, <1>3 DEF WorkerFault

LEMMA RequestTouches ==
  ASSUME TypeInv, JournalInv, PayloadInv, NEW w \in Workers,
         Request(w) \/ WorkerStep(w) \/ WorkerFault(w)
  PROVE  Touches(w)
<1>1. CASE Request(w)
  BY <1>1 DEF Request, FlagBegin, CreateBegin, Reserve, VerifyBegin, ArchiveBegin,
     AddLineage, RemoveLineage, RecoverRequest, physVars, Touches
<1>2. CASE VerifyStep(w)
  BY <1>2 DEF VerifyStep, VerifyLock, VerifyLockFails, VerifyGood, VerifyBad,
     VerifyInvalidate, VerifyInvalidateFails, VerifyInvalidated, VerifyReturn,
     physVars, Touches
<1>3. CASE ArchiveStep(w)
  BY <1>3 DEF ArchiveStep, ArchiveWrite, ArchiveInsert, ArchivePublish, ArchiveUnrow,
     ArchiveUnblob, physVars, Touches
<1>4. CASE FlagWrite(w) \/ AuthorityError(w)
  BY <1>4 DEF FlagWrite, AuthorityError, physVars, Touches
<1> QED
  BY <1>1, <1>2, <1>3, <1>4, CreateTouches, ReclaimTouches, FaultTouches DEF WorkerStep

LEMMA NextDeletes ==
  TypeInv /\ JournalInv /\ PayloadInv /\ [Next]_vars => [LastStep]_vars
<1> SUFFICES ASSUME TypeInv, JournalInv, PayloadInv, [Next]_vars PROVE LastStep \/ vars' = vars
  OBVIOUS
<1>1. ASSUME NEW w \in Workers, Request(w) \/ WorkerStep(w) \/ WorkerFault(w)
      PROVE  LastStep
  <2>1. Touches(w)
    BY <1>1, RequestTouches
  <2> QED
    BY <2>1, OnlyOwner DEF Touches, LastStep
<1>2. CASE RecoveryStep
  BY <1>2, RecoveryOutside DEF LastStep
<1>3. CASE Process
  BY <1>3 DEF Process, Start, Exit, Crash, Vanish, RequestShutdown,
     HeartbeatThreadError, physVars, LastStep
<1>4. ASSUME NEW p \in Payloads, Corrupt(p) PROVE LastStep
  BY <1>4 DEF Corrupt, LastStep, TypeInv, TypeOK, PhysTypeOK
<1> QED
  BY <1>1, <1>2, <1>3, <1>4 DEF Next

(* plan_physical_deletions deletes a payload only if its count is one, and a  *)
(* compensation only what dedup_release said nobody refers to.  Since counts  *)
(* cover rows and the payload guards outlive the deletion, whoever deletes a  *)
(* payload, a failing backend included, has the only object that refers to    *)
(* it: no other object loses its content.                                     *)
THEOREM LastReferenceDeletes ==
  ASSUME "recover" \notin Requests
  PROVE  Spec => LastReferenceOnly
<1>1. TypeInv /\ JournalInv /\ PayloadInv /\ [Next]_vars => [LastStep]_vars
  BY NextDeletes
<1>2. LastStep =>
        \A p \in Payloads :
          (blob[p] # "absent" /\ blob'[p] = "absent")
            => \E w \in Workers : Owners(p) \subseteq {loc[w].obj}
  BY DEF LastStep
<1> QED
  BY <1>1, <1>2, AlwaysSound, AlwaysPayloads, PTL DEF Spec, LastReferenceOnly

-----------------------------------------------------------------------------
(* What a reclaimed object owns. *)

EntriesOf(o) == {a \in OpenAttempts : entry[a].obj = o}
PhysicalOf(o) == {a \in Attempts : phase[a] \in PhysicalPhases /\ entry[a].obj = o}

\* Entry a lists at least these rows and this many archive records.
Lists(a, R, n) == R \subseteq EntryRows(a) /\ n <= entry[a].arch

\* Committing an entry in a physical phase takes all the object has, and all
\* that rolling back another entry of the object could give back to it.
CommitTakes(o) ==
  \A a \in PhysicalOf(o) :
    /\ Lists(a, Rows(o), arch[o])
    /\ \A b \in EntriesOf(o) : Lists(a, EntryRows(b), entry[b].arch)
    /\ mode = "up" => object[o].state \in {"RECLAIM_PENDING", "RECLAIMED"}

\* An entry left open before its physical phase lists no more than the object
\* has, as long as nothing was taken from the object.
RollbackGives(o) ==
  (mode = "up" /\ PhysicalOf(o) = {} /\ object[o].state # "RECLAIMED")
    => \A b \in EntriesOf(o) : EntryRows(b) \subseteq Rows(o) /\ entry[b].arch <= arch[o]

ObjectHolds(o) ==
  /\ object[o].state = "RECLAIMED" => Rows(o) = {} /\ arch[o] = 0
  /\ object[o].state = "NONE" => EntriesOf(o) = {}
  /\ CommitTakes(o) /\ RollbackGives(o)

\* The steps of a reclaim at which its object is pending.
PendingPCs == {"validate", "survive", "graph", "deps", "lock", "plan", "start"}
ClosedPCs == {"cmt_resv", "cmt_att", "cmt_jrnl"}
RecordedPCs == {"arc_obj", "arc_unrow"}

\* At step c with local variables l.
Holds(c, l) ==
  /\ c \in ReclaimPCs => l.seen.state # "NONE"
  /\ c \in BeforePCs => /\ PhysicalOf(l.obj) = {}
                        /\ Lists(l.att, Rows(l.obj), arch[l.obj])
                        /\ object[l.obj].state # "RECLAIMED"
  /\ c \in PendingPCs => object[l.obj].state = "RECLAIM_PENDING"
  /\ c \in ReleasingPCs => Rows(l.obj) \subseteq l.todo
  /\ c \in {"cmt_arch", "cmt_obj"} => Rows(l.obj) = {}
  /\ c = "cmt_obj" => arch[l.obj] = 0
  /\ c \in ClosedPCs => object[l.obj].state = "RECLAIMED"
  /\ c \in CreatePCs => object[l.obj].state = "NONE"
  /\ c \in ArchivePCs
       => object[l.obj].state \notin {"NONE", "RECLAIM_PENDING", "RECLAIMED"}
  /\ c \in RecordedPCs => \A b \in EntriesOf(l.obj) : entry[b].arch < arch[l.obj]

\* The same for recovery and the entry at hand.
EntryHolds(a) ==
  /\ rpc \in {"rb_obj", "rb_row"} => rec.todo \subseteq EntryRows(a)
  /\ rpc \in {"rb_row", "rb_arch"} => object[entry[a].obj].state # "RECLAIMED"
  /\ rpc \in {"cm_row", "cm_release"} => Rows(entry[a].obj) \subseteq rec.todo
  /\ rpc \in {"cm_arch", "cm_obj"} => Rows(entry[a].obj) = {}
  /\ rpc = "cm_obj" => arch[entry[a].obj] = 0

RecoveryHolds ==
  /\ rpc = "off" => rec.queue = {}
  /\ rec.queue \subseteq OpenAttempts
  /\ rpc \in AtEntry
       => rec.att \in OpenAttempts \ rec.queue /\ EntryHolds(rec.att)

LedgerInv ==
  /\ \A o \in Objects : ObjectHolds(o)
  /\ \A a \in Attempts : phase[a] # "NONE" => entry[a].prior.state # "NONE"
  /\ \A w \in Workers : Holds(pc[w], loc[w])
  /\ RecoveryHolds

-----------------------------------------------------------------------------
(* Steps of one worker. *)

LedgerPCs == BeforePCs \cup CommitPCs \cup CreatePCs \cup ArchivePCs

LEMMA IdleHolds ==
  ASSUME NEW w \in Workers, pc'[w] \in {"idle", "recover"}
  PROVE  Holds(pc[w], loc[w])'
BY DEF Holds, BeforePCs, PendingPCs, ReleasingPCs, ClosedPCs, RecordedPCs, ReclaimPCs,
   CommitPCs, AbortPCs, CreatePCs, ArchivePCs

\* What the sets and the invariant of an object depend on.
LEMMA SameObject ==
  ASSUME NEW o, ObjectHolds(o), UNCHANGED <<entry, mode>>,
         object'[o].state = object[o].state, Rows(o)' = Rows(o), arch'[o] = arch[o],
         \A a \in Attempts : entry[a].obj = o => phase'[a] = phase[a]
  PROVE  /\ ObjectHolds(o)' /\ EntriesOf(o)' = EntriesOf(o)
         /\ PhysicalOf(o)' = PhysicalOf(o) /\ \A a : EntryRows(a)' = EntryRows(a)
<1>1. EntriesOf(o)' = EntriesOf(o) /\ PhysicalOf(o)' = PhysicalOf(o)
  BY DEF EntriesOf, PhysicalOf, OpenAttempts
<1>2. \A a : EntryRows(a)' = EntryRows(a)
  BY DEF EntryRows
<1> QED
  BY <1>1, <1>2 DEF ObjectHolds, CommitTakes, RollbackGives, Lists

LEMMA LedgerKeeps ==
  ASSUME TypeInv, JournalInv, LedgerInv, NEW w \in Workers, WorkStep(w),
         NEW o \in Objects, o = loc[w].obj,
         \A q \in Objects \ {o} : Rows(q)' = Rows(q) /\ arch'[q] = arch[q],
         ObjectHolds(o)', Holds(pc[w], loc[w])'
  PROVE  LedgerInv'
<1>1. /\ rpc = "off" /\ UNCHANGED <<entry, mode, rpc, rec>>
      /\ \A v \in Workers \ {w} : pc'[v] = pc[v] /\ loc'[v] = loc[v]
  BY NoRecoveryNow DEF WorkStep
<1>2. \A q \in Objects \ {o} : object'[q] = object[q]
  BY DEF WorkStep, WritesObject
<1>3. \A a \in Attempts : phase'[a] # phase[a]
        => entry[a].obj = o /\ phase[a] # "NONE"
  BY DEF WorkStep, WritesJournal, JournalInv, WorkerOwns
<1>4. ASSUME NEW q \in Objects \ {o}
      PROVE  /\ ObjectHolds(q)' /\ EntriesOf(q)' = EntriesOf(q)
             /\ PhysicalOf(q)' = PhysicalOf(q) /\ \A a : EntryRows(a)' = EntryRows(a)
  BY <1>1, <1>2, <1>3, SameObject DEF LedgerInv
<1>5. ASSUME NEW v \in Workers PROVE Holds(pc[v], loc[v])'
  <2>1. CASE v = w
    BY <2>1
  <2>2. CASE v # w /\ pc[v] \in {"idle", "recover"}
    BY <1>1, <2>2, IdleHolds
  <2>3. CASE v # w /\ pc[v] \notin {"idle", "recover"}
    <3> DEFINE c == pc[v]
               l == loc[v]
    <3>1. l.obj \in Objects \ {o} /\ Holds(c, l) /\ c' = c /\ l' = l
      BY <1>1, <2>3, NoRecoveryNow, Disjoint DEF LedgerInv
    <3>2. /\ object'[l.obj] = object[l.obj] /\ Rows(l.obj)' = Rows(l.obj)
          /\ arch'[l.obj] = arch[l.obj] /\ EntriesOf(l.obj)' = EntriesOf(l.obj)
          /\ PhysicalOf(l.obj)' = PhysicalOf(l.obj) /\ EntryRows(l.att)' = EntryRows(l.att)
      BY <1>2, <1>4, <3>1
    <3> QED
      BY <1>1, <3>1, <3>2 DEF Holds, Lists
  <2> QED
    BY <2>1, <2>2, <2>3
<1>6. RecoveryHolds'
  <2>1. "off" \notin AtEntry /\ rec.queue = {}
    BY <1>1 DEF LedgerInv, RecoveryHolds, AtEntry, EntryPCs
  <2> QED
    BY <1>1, <2>1 DEF RecoveryHolds
<1> QED
  BY <1>1, <1>3, <1>4, <1>5, <1>6 DEF LedgerInv

\* Nothing the invariant says of objects and entries changes.
SameLedger ==
  /\ UNCHANGED <<phase, entry, arch, mode, rpc, rec>>
  /\ \A o \in Objects : object'[o].state = object[o].state /\ Rows(o)' = Rows(o)

\* Step d asks for nothing that step c does not ask for.
Stays(c, d) ==
  \/ d \notin LedgerPCs
  \/ c \in CreatePCs /\ d \in CreatePCs
  \/ c \in PendingPCs /\ d \in PendingPCs
  \/ c \in BeforePCs /\ d \in BeforePCs \ PendingPCs
  \/ c \in RecordedPCs /\ d \in RecordedPCs
  \/ c \in ArchivePCs /\ d \in ArchivePCs \ RecordedPCs
  \/ c \in ClosedPCs /\ d \in ClosedPCs

LEMMA Sides ==
  /\ PendingPCs \subseteq BeforePCs /\ RecordedPCs \subseteq ArchivePCs
  /\ ClosedPCs \cup ReleasingPCs \cup {"cmt_arch", "cmt_obj"} = CommitPCs
  /\ BeforePCs \cap (CommitPCs \cup CreatePCs \cup ArchivePCs) = {}
  /\ CommitPCs \cap (CreatePCs \cup ArchivePCs) = {}
  /\ CreatePCs \cap ArchivePCs = {}
  /\ ClosedPCs \cap (ReleasingPCs \cup {"cmt_arch", "cmt_obj"}) = {}
  /\ ReclaimPCs \cap (CreatePCs \cup ArchivePCs) = {}
  /\ BeforePCs \cup CommitPCs \subseteq ReclaimPCs
  /\ "idle" \notin LedgerPCs
BY DEF ReclaimPCs, PendingPCs, BeforePCs, RecordedPCs, ArchivePCs, ClosedPCs,
   ReleasingPCs, CommitPCs, CreatePCs, AbortPCs, LedgerPCs

LEMMA QuietLedger ==
  ASSUME TypeInv, JournalInv, LedgerInv, NEW w \in Workers, WorkStep(w),
         SameLedger, Stays(pc[w], pc'[w])
  PROVE  LedgerInv'
<1>1. PICK o \in Objects : o = loc[w].obj
  BY NoRecoveryNow DEF WorkStep
<1>2. /\ ObjectHolds(o)' /\ EntriesOf(o)' = EntriesOf(o)
      /\ PhysicalOf(o)' = PhysicalOf(o) /\ \A a : EntryRows(a)' = EntryRows(a)
  BY SameObject DEF LedgerInv, SameLedger
<1>3. Holds(pc[w], loc[w])'
  <2>1. CASE Returns(w)
    BY <2>1, IdleHolds DEF Returns
  <2>2. CASE GoesOn(w)
    <3> DEFINE c == pc[w]
               d == pc'[w]
    <3>1. /\ loc'[w].obj = o /\ loc'[w].att = loc[w].att /\ loc'[w].seen = loc[w].seen
          /\ d \in ReclaimPCs => c \in ReclaimPCs
      BY <1>1, <2>2, ReclaimSides DEF GoesOn, Kept
    <3>2. Holds(c, loc[w])
      BY DEF LedgerInv
    <3>3. /\ d \in BeforePCs => c \in BeforePCs
          /\ d \in PendingPCs => c \in PendingPCs
          /\ d \notin ReleasingPCs \cup {"cmt_arch", "cmt_obj"}
          /\ d \in ClosedPCs => c \in ClosedPCs
          /\ d \in CreatePCs => c \in CreatePCs
          /\ d \in ArchivePCs => c \in ArchivePCs
          /\ d \in RecordedPCs => c \in RecordedPCs
      BY Sides DEF Stays, LedgerPCs
    <3>4. /\ object'[o].state = object[o].state /\ Rows(o)' = Rows(o)
          /\ arch' = arch /\ entry' = entry
      BY DEF SameLedger
    <3> HIDE DEF c, d
    <3> QED
      BY <1>1, <1>2, <3>1, <3>2, <3>3, <3>4 DEF Holds, Lists, c, d
  <2> QED
    BY <2>1, <2>2 DEF WorkStep
<1> QED
  BY <1>1, <1>2, <1>3, LedgerKeeps DEF SameLedger

\* An object without an open entry.
LEMMA NoEntriesHold ==
  ASSUME NEW o, EntriesOf(o) = {}, UNCHANGED <<phase, entry>>,
         object'[o].state # "RECLAIMED"
  PROVE  ObjectHolds(o)'
<1>1. EntriesOf(o)' = {} /\ PhysicalOf(o)' = {}
  BY DEF EntriesOf, PhysicalOf, OpenAttempts, PhysicalPhases
<1> QED
  BY <1>1 DEF ObjectHolds, CommitTakes, RollbackGives

LEMMA CreateLedger ==
  ASSUME TypeInv, JournalInv, LedgerInv, NEW w \in Workers, CreateStep(w)
  PROVE  LedgerInv'
<1>0. WorkStep(w)
  BY CreateWork
<1>1. ASSUME SameLedger, pc[w] \in CreatePCs,
             (\E c \in CreatePCs : Goto(w, c)) \/ Return(w) \/ UNCHANGED pc
      PROVE  LedgerInv'
  BY <1>0, <1>1, GotoFrame, ReturnOwns, QuietLedger, Sides DEF Stays
<1>2. CASE \/ CreateLock(w) \/ CreateLockFails(w)
           \/ \E p \in Payloads : CreateAcquire(w, p) \/ CreateRefuse(w, p) \/ CreateMiss(w, p)
           \/ CreateWrite(w) \/ CreateInsert(w)
  <2>1. SameLedger
    BY <1>2 DEF CreateLock, CreateLockFails, CreateAcquire, CreateRefuse, CreateMiss,
       CreateWrite, CreateInsert, storeVars, journalVars, procVars, recVars,
       SameLedger, Rows
  <2> QED
    BY <1>1, <1>2, <2>1 DEF CreateLock, CreateLockFails, CreateAcquire, CreateRefuse,
       CreateMiss, CreateWrite, CreateInsert, CreatePCs
<1>3. CASE \/ CreateUnref(w) \/ CreateUnblob(w) \/ UndoLock(w) \/ UndoLockFails(w)
           \/ UndoEnter(w) \/ UndoRelease(w) \/ UndoLeave(w) \/ UndoReturn(w)
           \/ \E p \in Payloads : UndoBlob(w, p)
  <2>1. SameLedger
    BY <1>3 DEF CreateUnref, CreateUnblob, UndoLock, UndoLockFails, UndoEnter,
       UndoRelease, UndoLeave, UndoReturn, UndoBlob, storeVars, journalVars, procVars,
       recVars, SameLedger, Rows
  <2> QED
    BY <1>1, <1>3, <2>1 DEF CreateUnref, CreateUnblob, UndoLock, UndoLockFails,
       UndoEnter, UndoRelease, UndoLeave, UndoReturn, UndoBlob, CreatePCs
<1>4. PICK o \in Objects : o = loc[w].obj
  BY <1>0, NoRecoveryNow DEF WorkStep
<1>5. pc[w] \in CreatePCs => object[o].state = "NONE" /\ EntriesOf(o) = {}
  BY <1>4 DEF LedgerInv, Holds, ObjectHolds
<1>6. CASE CreateRow(w) \/ \E p \in Payloads : UndoRow(w, p)
  <2>1. /\ UNCHANGED <<object, phase, entry, arch>> /\ pc[w] \in CreatePCs
        /\ \E p, m : rows' = [rows EXCEPT ![o][p] = m]
        /\ Goto(w, "undo_release") \/ \E c \in CreatePCs : Goto(w, c)
    BY <1>4, <1>6 DEF CreateRow, UndoRow, WriteReplica, DeleteReplica, journalVars,
       CreatePCs
  <2>2. \A q \in Objects \ {o} : Rows(q)' = Rows(q)
    BY <2>1 DEF Rows, TypeInv, TypeOK, StoreTypeOK
  <2>3. pc'[w] \in CreatePCs
    BY <2>1, GotoFrame DEF CreatePCs
  <2>4. loc'[w].obj = o
    BY <1>0, <1>4, <2>3, Sides, ReclaimSides DEF WorkStep, Returns, GoesOn, Kept, LedgerPCs
  <2>5. Holds(pc[w], loc[w])'
    <3>1. /\ pc'[w] \notin ReclaimPCs \cup BeforePCs \cup PendingPCs \cup CommitPCs
          /\ pc'[w] \notin ArchivePCs \cup RecordedPCs
      BY <2>3, Sides
    <3>2. pc'[w] \notin ReleasingPCs \cup ClosedPCs \cup {"cmt_arch", "cmt_obj"}
      BY <3>1, Sides
    <3> QED
      BY <1>5, <2>1, <2>4, <3>1, <3>2 DEF Holds
  <2> QED
    BY <1>0, <1>4, <1>5, <2>1, <2>2, <2>5, NoEntriesHold, LedgerKeeps
<1>7. CASE Publish(w)
  <2> DEFINE row == [state |-> IF Targets[o] = {} THEN "CREATED" ELSE "HOT", flags |-> {}]
  <2>1. /\ UNCHANGED <<rows, phase, entry, arch>> /\ pc[w] \in CreatePCs /\ Return(w)
        /\ UpdateObject(o, row) /\ row.state \in {"CREATED", "HOT"}
    BY <1>4, <1>7 DEF Publish, UpdateObject, journalVars, CreatePCs
  <2>2. object'[o].state # "RECLAIMED"
    BY <2>1, UpdateFrame
  <2>3. \A q \in Objects : Rows(q)' = Rows(q)
    BY <2>1 DEF Rows
  <2> QED
    BY <1>0, <1>4, <1>5, <2>1, <2>2, <2>3, ReturnOwns, IdleHolds, NoEntriesHold,
       LedgerKeeps
<1> QED
  BY <1>2, <1>3, <1>6, <1>7 DEF CreateStep

LEMMA MarkedRows ==
  ASSUME TypeInv, NEW o \in Objects, NEW p \in Rows(o), NEW mark, mark # "none",
         rows' = [rows EXCEPT ![o][p] = mark]
  PROVE  \A q \in Objects : Rows(q)' = Rows(q)
<1>1. \A q \in Objects, s \in Payloads : rows'[q][s] = "none" <=> rows[q][s] = "none"
  BY DEF Rows, TypeInv, TypeOK, StoreTypeOK
<1> QED
  BY <1>1 DEF Rows

\* verify only marks rows.
LEMMA VerifySame ==
  ASSUME TypeInv, JournalInv, PayloadInv, NEW w \in Workers, VerifyStep(w)
  PROVE  SameLedger /\ object' = object /\ pc'[w] \in VerifyPCs \cup {"idle"}
<1>1. ASSUME SameLedger, object' = object, pc[w] \in VerifyPCs,
             (\E c \in VerifyPCs : Goto(w, c)) \/ Return(w) \/ UNCHANGED pc
      PROVE  SameLedger /\ object' = object /\ pc'[w] \in VerifyPCs \cup {"idle"}
  BY <1>1, GotoFrame, ReturnOwns
<1>2. CASE \/ VerifyLock(w) \/ VerifyLockFails(w) \/ VerifyInvalidated(w) \/ VerifyReturn(w)
           \/ \E p \in Payloads : VerifyBad(w, p)
           \/ \E o \in Objects : VerifyInvalidateFails(w, o)
  <2>1. SameLedger /\ object' = object
    BY <1>2 DEF VerifyLock, VerifyLockFails, VerifyInvalidated, VerifyReturn, VerifyBad,
       VerifyInvalidateFails, storeVars, journalVars, procVars, recVars, SameLedger, Rows
  <2> QED
    BY <1>1, <1>2, <2>1 DEF VerifyLock, VerifyLockFails, VerifyInvalidated, VerifyReturn,
       VerifyBad, VerifyInvalidateFails, VerifyPCs
<1>3. ASSUME NEW p \in Payloads, VerifyGood(w, p)
      PROVE  SameLedger /\ object' = object /\ pc'[w] \in VerifyPCs \cup {"idle"}
  <2>0. PICK o \in Objects : o = loc[w].obj
    BY <1>3, NoRecoveryNow DEF VerifyGood
  <2>1. /\ mode = "up" /\ UNCHANGED <<object, phase, entry, arch, mode, rpc, rec, pc>>
        /\ pc[w] = "ver_next" /\ p \in loc[w].todo
        /\ rows' = [rows EXCEPT ![o][p] = "valid"]
    BY <1>3, <2>0 DEF VerifyGood, WriteReplica, Enter, journalVars, procVars, recVars
  <2>2. p \in Rows(o)
    BY <2>0, <2>1, FactsNow DEF Facts, RowsThere, VerifyPCs
  <2>3. SameLedger
    BY <2>1, <2>2, MarkedRows DEF SameLedger
  <2> QED
    BY <1>1, <2>1, <2>3 DEF VerifyPCs
<1>4. ASSUME NEW o \in Objects, VerifyInvalidate(w, o)
      PROVE  SameLedger /\ object' = object /\ pc'[w] \in VerifyPCs \cup {"idle"}
  <2>1. /\ UNCHANGED <<object, phase, entry, arch, mode, rpc, rec, pc>>
        /\ pc[w] = "ver_inval" /\ rows[o][loc[w].cur] = "valid"
        /\ rows' = [rows EXCEPT ![o][loc[w].cur] = "invalid"]
    BY <1>4 DEF VerifyInvalidate, InvalidatedOwners, WriteReplica, Within, journalVars,
       procVars, recVars
  <2>2. CASE loc[w].cur \in Payloads
    <3>1. PICK p \in Rows(o) : p = loc[w].cur
      BY <2>1, <2>2 DEF Rows
    <3>2. \A q \in Objects : Rows(q)' = Rows(q)
      BY <2>1, <3>1, MarkedRows
    <3> QED
      BY <1>1, <2>1, <3>2 DEF SameLedger, VerifyPCs
  <2>3. CASE loc[w].cur \notin Payloads
    <3>1. rows' = rows
      BY <2>1, <2>3 DEF TypeInv, TypeOK, StoreTypeOK
    <3> QED
      BY <1>1, <2>1, <3>1, RowsSame DEF SameLedger, VerifyPCs
  <2> QED
    BY <2>2, <2>3
<1> QED
  BY <1>2, <1>3, <1>4 DEF VerifyStep

LEMMA VerifyLedger ==
  ASSUME TypeInv, JournalInv, PayloadInv, LedgerInv, NEW w \in Workers, VerifyStep(w)
  PROVE  LedgerInv'
<1>1. (VerifyPCs \cup {"idle"}) \cap LedgerPCs = {}
  BY DEF LedgerPCs, VerifyPCs, BeforePCs, AbortPCs, CommitPCs, CreatePCs, ArchivePCs
<1> QED
  BY <1>1, VerifyWork, VerifySame, QuietLedger DEF Stays

\* An object that is neither pending nor reclaimed has no entry in a physical
\* phase while requests are served.
LEMMA NoPhysical ==
  ASSUME LedgerInv, mode = "up", NEW o \in Objects,
         object[o].state \notin {"RECLAIM_PENDING", "RECLAIMED"}
  PROVE  PhysicalOf(o) = {}
BY DEF LedgerInv, ObjectHolds, CommitTakes

LEMMA ArchiveLedger ==
  ASSUME TypeInv, JournalInv, LedgerInv, NEW w \in Workers, ArchiveStep(w)
  PROVE  LedgerInv'
<1>0. WorkStep(w)
  BY ArchiveWork
<1>1. CASE ArchiveWrite(w) \/ ArchiveUnblob(w)
  <2>1. SameLedger
    BY <1>1 DEF ArchiveWrite, ArchiveUnblob, storeVars, journalVars, procVars, recVars,
       SameLedger, Rows
  <2>2. Stays(pc[w], pc'[w])
    BY <1>1, GotoFrame, ReturnOwns, Sides
    DEF ArchiveWrite, ArchiveUnblob, Stays, ArchivePCs, RecordedPCs
  <2> QED
    BY <1>0, <2>1, <2>2, QuietLedger
<1>2. PICK o \in Objects : o = loc[w].obj
  BY <1>0, NoRecoveryNow DEF WorkStep
<1>3. pc[w] \in ArchivePCs
  BY DEF ArchiveStep, ArchiveWrite, ArchiveInsert, ArchivePublish, ArchiveUnrow,
     ArchiveUnblob, ArchivePCs
<1>4. /\ object[o].state \notin {"NONE", "RECLAIM_PENDING", "RECLAIMED"}
      /\ pc[w] \in RecordedPCs => \A b \in EntriesOf(o) : entry[b].arch < arch[o]
      /\ mode = "up" /\ PhysicalOf(o) = {}
      /\ \A b \in EntriesOf(o) :
           EntryRows(b) \subseteq Rows(o) /\ entry[b].arch <= arch[o] /\ entry[b].arch \in Nat
      /\ arch[o] \in Nat
  <2>1. /\ object[o].state \notin {"NONE", "RECLAIM_PENDING", "RECLAIMED"}
        /\ pc[w] \in RecordedPCs => \A b \in EntriesOf(o) : entry[b].arch < arch[o]
    BY <1>2, <1>3 DEF LedgerInv, Holds
  <2>2. mode = "up" /\ PhysicalOf(o) = {}
    BY <1>0, <2>1, NoRecoveryNow, NoPhysical DEF WorkStep
  <2>3. RollbackGives(o)
    BY DEF LedgerInv, ObjectHolds
  <2>4. arch[o] \in Nat /\ \A b \in Attempts : entry[b].arch \in Nat
    BY DEF TypeInv, TypeOK, StoreTypeOK, JournalTypeOK, JournalEntry
  <2> QED
    BY <2>1, <2>2, <2>3, <2>4 DEF RollbackGives, EntriesOf, OpenAttempts
\* The rows and the entries of the object stay as they are.
<1>5. ASSUME UNCHANGED <<rows, phase, entry>>,
             object'[o].state \notin {"NONE", "RECLAIMED"},
             \A b \in EntriesOf(o) : entry[b].arch <= arch'[o]
      PROVE  ObjectHolds(o)' /\ EntriesOf(o)' = EntriesOf(o)
  <2>1. /\ EntriesOf(o)' = EntriesOf(o) /\ PhysicalOf(o)' = PhysicalOf(o)
        /\ Rows(o)' = Rows(o) /\ \A b : EntryRows(b)' = EntryRows(b)
    BY <1>5 DEF EntriesOf, PhysicalOf, OpenAttempts, Rows, EntryRows
  <2> QED
    BY <1>4, <1>5, <2>1 DEF ObjectHolds, CommitTakes, RollbackGives
<1>6. ASSUME UNCHANGED <<object, rows, phase, entry, loc>>,
             NEW n \in Nat, arch' = [arch EXCEPT ![o] = n],
             \A b \in EntriesOf(o) : entry[b].arch <= n,
             NEW c \in ArchivePCs, Goto(w, c),
             c \in RecordedPCs => \A b \in EntriesOf(o) : entry[b].arch < n
      PROVE  LedgerInv'
  <2>1. arch'[o] = n /\ \A q \in Objects \ {o} : arch'[q] = arch[q]
    BY <1>6 DEF TypeInv, TypeOK, StoreTypeOK
  <2>2. pc'[w] = c /\ loc'[w].obj = o
    BY <1>2, <1>6, GotoFrame
  <2>3. ObjectHolds(o)' /\ EntriesOf(o)' = EntriesOf(o)
    BY <1>4, <1>5, <1>6, <2>1
  <2>4. /\ c \notin ReclaimPCs \cup BeforePCs \cup PendingPCs \cup CommitPCs \cup CreatePCs
        /\ c \notin ReleasingPCs \cup ClosedPCs \cup {"cmt_arch", "cmt_obj"}
    BY <1>6, Sides
  <2>5. Holds(pc[w], loc[w])'
    BY <1>4, <1>6, <2>1, <2>2, <2>3, <2>4 DEF Holds
  <2> QED
    BY <1>0, <1>2, <1>6, <2>1, <2>3, <2>5, RowsSame, LedgerKeeps
<1>7. CASE ArchiveInsert(w)
  <2>1. /\ UNCHANGED <<object, rows, phase, entry, loc>> /\ Goto(w, "arc_obj")
        /\ arch' = [arch EXCEPT ![o] = arch[o] + 1]
    BY <1>2, <1>7 DEF ArchiveInsert, InsertArchive, journalVars
  <2>2. PICK n \in Nat : n = arch[o] + 1
    BY <1>4
  <2>3. \A b \in EntriesOf(o) : entry[b].arch < n /\ entry[b].arch <= n
    BY <1>4, <2>2
  <2> QED
    BY <1>6, <2>1, <2>2, <2>3 DEF ArchivePCs
<1>8. CASE ArchiveUnrow(w)
  <2>1. /\ UNCHANGED <<object, rows, phase, entry, loc>> /\ Goto(w, "arc_unblob")
        /\ arch[o] > 0 /\ arch' = [arch EXCEPT ![o] = arch[o] - 1] /\ pc[w] \in RecordedPCs
    BY <1>2, <1>4, <1>8 DEF ArchiveUnrow, DeleteArchiveRow, journalVars, RecordedPCs
  <2>2. PICK n \in Nat : n = arch[o] - 1
    BY <1>4, <2>1
  <2>3. \A b \in EntriesOf(o) : entry[b].arch <= n
    BY <1>4, <2>1, <2>2
  <2> QED
    BY <1>6, <2>1, <2>2, <2>3 DEF ArchivePCs, RecordedPCs
<1>9. CASE ArchivePublish(w)
  <2> DEFINE row == [loc[w].seen EXCEPT !.state = "ARCHIVED"]
  <2>1. /\ UNCHANGED <<rows, arch, phase, entry>> /\ Return(w) /\ UpdateObject(o, row)
    BY <1>2, <1>9 DEF ArchivePublish, journalVars
  <2>2. object'[o].state = "ARCHIVED"
    BY <2>1, UpdateFrame, LocalsFields DEF ObjectRow
  <2> QED
    BY <1>0, <1>2, <1>4, <1>5, <2>1, <2>2, RowsSame, ReturnOwns, IdleHolds, LedgerKeeps
<1> QED
  BY <1>1, <1>7, <1>8, <1>9 DEF ArchiveStep

-----------------------------------------------------------------------------
(* A reclaim. *)

\* Some of the object's entries are closed, or move on within their side.
LEMMA ClosedEntries ==
  ASSUME NEW o, ObjectHolds(o), UNCHANGED <<entry, mode>>,
         object'[o].state = object[o].state, Rows(o)' = Rows(o), arch'[o] = arch[o],
         EntriesOf(o)' \subseteq EntriesOf(o), PhysicalOf(o)' \subseteq PhysicalOf(o),
         object[o].state = "RECLAIMED" \/ PhysicalOf(o)' = PhysicalOf(o)
  PROVE  ObjectHolds(o)'
<1>1. \A b : EntryRows(b)' = EntryRows(b)
  BY DEF EntryRows
<1> QED
  BY <1>1 DEF ObjectHolds, CommitTakes, RollbackGives, Lists

\* An entry in a physical phase is being committed.
LEMMA CommittedRows ==
  ASSUME NEW o, ObjectHolds(o), UNCHANGED <<phase, entry, mode>>,
         NEW a \in PhysicalOf(o), Rows(o)' \subseteq Rows(o),
         arch[o] \in Nat, arch'[o] \in Nat, arch'[o] <= arch[o],
         \A b \in Attempts : entry[b].arch \in Nat,
         \/ object'[o].state = object[o].state
         \/ object'[o].state = "RECLAIMED" /\ Rows(o)' = {} /\ arch'[o] = 0
  PROVE  ObjectHolds(o)'
<1>1. /\ EntriesOf(o)' = EntriesOf(o) /\ PhysicalOf(o)' = PhysicalOf(o)
      /\ \A b : EntryRows(b)' = EntryRows(b)
  BY DEF EntriesOf, PhysicalOf, OpenAttempts, EntryRows
<1>2. \A b \in PhysicalOf(o) : entry[b].arch \in Nat
  BY DEF PhysicalOf
<1>3. CommitTakes(o)'
  BY <1>1, <1>2 DEF ObjectHolds, CommitTakes, Lists
<1>4. RollbackGives(o)'
  BY <1>1 DEF RollbackGives
<1>5. object'[o].state = "RECLAIMED" => Rows(o)' = {} /\ arch'[o] = 0
  BY DEF ObjectHolds
<1>6. object'[o].state = "NONE" => EntriesOf(o)' = {}
  BY <1>1 DEF ObjectHolds
<1> QED
  BY <1>3, <1>4, <1>5, <1>6 DEF ObjectHolds

\* Every other step stays with what the request knows.
LEMMA ReclaimQuiet ==
  ASSUME TypeInv, JournalInv, LedgerInv, NEW w \in Workers, WorkStep(w),
         \/ Survive(w) \/ ReadGraph(w) \/ CheckDependencies(w) \/ ReclaimLock(w)
         \/ ReclaimLockFails(w) \/ PlanDeletions(w)
         \/ \E p \in Payloads : DeletePayload(w, p)
         \/ DeletedAll(w) \/ DeleteArchive(w) \/ ArchiveMissing(w) \/ CheckDeleted(w)
         \/ Indeterminate(w) \/ CommitReservation(w) \/ CommitAttempt(w)
         \/ AbortReservation(w) \/ AbortAttempt(w)
  PROVE  LedgerInv'
<1>1. CASE \/ Survive(w) \/ ReadGraph(w) \/ CheckDependencies(w) \/ ReclaimLock(w)
           \/ ReclaimLockFails(w) \/ PlanDeletions(w) \/ Indeterminate(w)
  <2>1. SameLedger
    BY <1>1 DEF Survive, ReadGraph, CheckDependencies, ReclaimLock, ReclaimLockFails,
       PlanDeletions, Indeterminate, storeVars, journalVars, procVars, recVars,
       SameLedger, Rows
  <2>2. \/ pc'[w] = "idle"
        \/ pc[w] \in PendingPCs /\ pc'[w] \in PendingPCs \cup {"abort"}
    BY <1>1, GotoFrame, ReturnOwns
    DEF Survive, ReadGraph, CheckDependencies, ReclaimLock, ReclaimLockFails,
        PlanDeletions, Indeterminate, PendingPCs
  <2>3. "abort" \in BeforePCs \ PendingPCs
    BY DEF BeforePCs, PendingPCs
  <2> QED
    BY <2>1, <2>2, <2>3, Sides, QuietLedger DEF Stays
<1>2. CASE \/ \E p \in Payloads : DeletePayload(w, p)
           \/ DeletedAll(w) \/ DeleteArchive(w) \/ ArchiveMissing(w) \/ CheckDeleted(w)
  <2>1. SameLedger
    BY <1>2 DEF DeletePayload, DeletedAll, DeleteArchive, ArchiveMissing, CheckDeleted,
       storeVars, journalVars, procVars, recVars, SameLedger, Rows
  <2>2. pc'[w] \in {"idle", "delete", "arch", "check", "done", "fence"}
    BY <1>2, GotoFrame, ReturnOwns
    DEF DeletePayload, DeletedAll, DeleteArchive, ArchiveMissing, CheckDeleted
  <2>3. {"idle", "delete", "arch", "check", "done", "fence"} \cap LedgerPCs = {}
    BY DEF LedgerPCs, BeforePCs, AbortPCs, CommitPCs, CreatePCs, ArchivePCs
  <2> QED
    BY <2>1, <2>2, <2>3, QuietLedger DEF Stays
<1>3. CASE \/ CommitReservation(w) \/ CommitAttempt(w)
           \/ AbortReservation(w) \/ AbortAttempt(w)
  <2>1. SameLedger
    BY <1>3 DEF CommitReservation, CommitAttempt, AbortReservation, AbortAttempt,
       CloseReservation, CloseAttempt, storeVars, procVars, recVars, SameLedger, Rows
  <2>2. \/ pc[w] \in ClosedPCs /\ pc'[w] \in ClosedPCs
        \/ pc[w] \in AbortPCs /\ pc'[w] \in AbortPCs
    BY <1>3, GotoFrame
    DEF CommitReservation, CommitAttempt, AbortReservation, AbortAttempt,
        CloseReservation, CloseAttempt, ClosedPCs, AbortPCs
  <2>3. AbortPCs \subseteq BeforePCs \ PendingPCs
    BY DEF AbortPCs, BeforePCs, PendingPCs
  <2> QED
    BY <2>1, <2>2, <2>3, QuietLedger DEF Stays
<1> QED
  BY <1>1, <1>2, <1>3

LEMMA ReclaimPC ==
  ASSUME NEW w \in Workers, ReclaimStep(w)
  PROVE  pc[w] \in ReclaimPCs
BY DEF ReclaimStep, ToRecomputable, ToPending, Transition, ReclaimValidated, Survive,
   ReadGraph, CheckDependencies, ReclaimLock, ReclaimLockFails, PlanDeletions,
   StartPhysical, DeletePayload, DeletedAll, DeleteArchive, ArchiveMissing,
   CheckDeleted, PhysicalDone, CommitEnter, CommitRow, CommitRelease, CommitRowsDone,
   CommitArchive, CommitObject, CommitReservation, CommitAttempt, CommitJournal,
   CloseReservation, CloseAttempt, CloseJournal, Indeterminate, AbortObject,
   AbortReservation, AbortAttempt, AbortJournal, ReclaimPCs, CommitPCs, AbortPCs

LEMMA ReclaimLedger ==
  ASSUME TypeInv, JournalInv, RecoveryInv, LedgerInv, NEW w \in Workers, ReclaimStep(w)
  PROVE  LedgerInv'
<1>0. WorkStep(w) /\ pc[w] \in ReclaimPCs
  BY ReclaimWork, ReclaimPC
<1>1. PICK o \in Objects, a \in Attempts :
        /\ o = loc[w].obj /\ a = loc[w].att /\ entry[a].obj = o
        /\ mode = "up" /\ ObjectHolds(o) /\ Holds(pc[w], loc[w]) /\ ReclaimSound(w)
  BY <1>0, ReclaimSides, NoRecoveryNow DEF JournalInv, WorkerOwns, RecoveryInv, LedgerInv
<1>2. /\ a \in EntriesOf(o)
      /\ pc[w] \in AfterPCs => a \in PhysicalOf(o)
      /\ loc[w].seen.state \notin {"RECLAIMED", "NONE"} /\ loc[w].seen \in ObjectRow
  BY <1>0, <1>1, ReclaimSides, LocalsFields
  DEF ReclaimSound, EntriesOf, PhysicalOf, OpenAttempts, Holds, PhysicalPhases,
      PrePhysical, OpenPhases
<1>3. arch[o] \in Nat /\ arch[o] >= 0 /\ \A b \in Attempts : entry[b].arch \in Nat
  BY DEF TypeInv, TypeOK, StoreTypeOK, JournalTypeOK, JournalEntry
<1>4. pc[w] \in BeforePCs
        => /\ PhysicalOf(o) = {} /\ Lists(a, Rows(o), arch[o])
           /\ object[o].state # "RECLAIMED"
           /\ \A b \in EntriesOf(o) : EntryRows(b) \subseteq Rows(o) /\ entry[b].arch <= arch[o]
  BY <1>1 DEF Holds, ObjectHolds, RollbackGives
<1>5. UNCHANGED <<entry, mode>>
  BY <1>0 DEF WorkStep
\* What a step of the commit knows.
<1>6. ASSUME NEW d \in AfterPCs, pc'[w] = d, loc'[w].obj = o,
             loc'[w].seen = loc[w].seen,
             d \in ReleasingPCs => Rows(o)' \subseteq loc'[w].todo,
             d \in {"cmt_arch", "cmt_obj"} => Rows(o)' = {},
             d = "cmt_obj" => arch'[o] = 0,
             d \in ClosedPCs => object'[o].state = "RECLAIMED"
      PROVE  Holds(pc[w], loc[w])'
  <2>1. /\ d \notin BeforePCs \cup PendingPCs \cup CreatePCs \cup ArchivePCs \cup RecordedPCs
    BY <1>6, Sides, ReclaimSides
  <2> QED
    BY <1>2, <1>6, <2>1 DEF Holds
<1>7. ASSUME UNCHANGED <<rows, arch, phase, loc>>, pc[w] \in BeforePCs,
             NEW row, UpdateObject(o, row), row.state \notin {"RECLAIMED", "NONE"},
             NEW d \in BeforePCs, Goto(w, d),
             d \in PendingPCs => row.state = "RECLAIM_PENDING"
      PROVE  LedgerInv'
  <2>1. object'[o] = row /\ pc'[w] = d
    BY <1>7, UpdateFrame, GotoFrame
  <2>2. /\ EntriesOf(o)' = EntriesOf(o) /\ PhysicalOf(o)' = PhysicalOf(o)
        /\ Rows(o)' = Rows(o) /\ \A b : EntryRows(b)' = EntryRows(b)
    BY <1>5, <1>7 DEF EntriesOf, PhysicalOf, OpenAttempts, Rows, EntryRows
  <2>3. ObjectHolds(o)'
    BY <1>4, <1>5, <1>7, <2>1, <2>2 DEF ObjectHolds, CommitTakes, RollbackGives
  <2>4. d \notin CommitPCs \cup CreatePCs \cup ArchivePCs \cup RecordedPCs
    BY <1>7, Sides
  <2>5. d \notin ReleasingPCs \cup ClosedPCs \cup {"cmt_arch", "cmt_obj"}
    BY <2>4, Sides
  <2>6. Holds(pc[w], loc[w])'
    BY <1>1, <1>2, <1>4, <1>5, <1>7, <2>1, <2>2, <2>4, <2>5 DEF Holds, Lists
  <2> QED
    BY <1>0, <1>1, <1>7, <2>3, <2>6, RowsSame, LedgerKeeps
<1>8. CASE ToRecomputable(w)
  <2> DEFINE row == [loc[w].seen EXCEPT !.state = "RECOMPUTABLE"]
  <2>1. /\ UNCHANGED <<rows, arch, phase, loc>> /\ UpdateObject(o, row)
        /\ pc[w] = "recomputable" /\ Goto(w, "pending")
    BY <1>1, <1>8 DEF ToRecomputable, Transition, journalVars
  <2>2. row.state = "RECOMPUTABLE"
    BY <1>2 DEF ObjectRow
  <2> HIDE DEF row
  <2> QED
    BY <1>7, <2>1, <2>2 DEF BeforePCs, PendingPCs
<1>9. CASE ToPending(w)
  <2> DEFINE row == [loc[w].seen EXCEPT !.state = "RECLAIM_PENDING"]
  <2>1. /\ UNCHANGED <<rows, arch, phase, loc>> /\ UpdateObject(o, row)
        /\ pc[w] = "pending" /\ Goto(w, "validate")
    BY <1>1, <1>9 DEF ToPending, Transition, journalVars
  <2>2. row.state = "RECLAIM_PENDING"
    BY <1>2 DEF ObjectRow
  <2> HIDE DEF row
  <2> QED
    BY <1>7, <2>1, <2>2 DEF BeforePCs, PendingPCs
<1>10. CASE AbortObject(w)
  <2>1. /\ UNCHANGED <<rows, arch, phase, loc>> /\ UpdateObject(o, loc[w].seen)
        /\ pc[w] = "abort" /\ Goto(w, "abort_resv")
    BY <1>1, <1>10 DEF AbortObject, journalVars
  <2> QED
    BY <1>2, <1>7, <2>1 DEF BeforePCs, AbortPCs, PendingPCs
\* The journal moves on; the store stays as it is.
<1>11. ASSUME UNCHANGED <<object, rows, arch>>, NEW to \in Phases,
              phase' = [phase EXCEPT ![a] = to]
       PROVE  /\ EntriesOf(o)' = IF to \in OpenPhases THEN EntriesOf(o) ELSE EntriesOf(o) \ {a}
              /\ PhysicalOf(o)' = IF to \in PhysicalPhases
                                  THEN PhysicalOf(o) \cup {a} ELSE PhysicalOf(o) \ {a}
              /\ \A q : Rows(q)' = Rows(q)
              /\ \A b : EntryRows(b)' = EntryRows(b)
  <2>1. phase'[a] = to /\ \A b \in Attempts \ {a} : phase'[b] = phase[b]
    BY <1>11 DEF TypeInv, TypeOK, JournalTypeOK
  <2>2. EntriesOf(o)' = IF to \in OpenPhases THEN EntriesOf(o) ELSE EntriesOf(o) \ {a}
    BY <1>1, <1>2, <1>5, <2>1 DEF EntriesOf, OpenAttempts
  <2>3. PhysicalOf(o)' = IF to \in PhysicalPhases
                         THEN PhysicalOf(o) \cup {a} ELSE PhysicalOf(o) \ {a}
    BY <1>1, <1>5, <2>1 DEF PhysicalOf
  <2>4. \A b : EntryRows(b)' = EntryRows(b)
    BY <1>5 DEF EntryRows
  <2> QED
    BY <1>11, <2>2, <2>3, <2>4, RowsSame
<1>12. CASE ReclaimValidated(w)
  <2>1. /\ UNCHANGED <<object, rows, arch, loc>> /\ pc[w] = "validate" /\ Goto(w, "survive")
        /\ phase' = [phase EXCEPT ![a] = "VALIDATED"]
    BY <1>1, <1>12 DEF ReclaimValidated, UpdateJournalPhase, storeVars
  <2>2. /\ {"validate", "survive"} \subseteq BeforePCs \cap PendingPCs
        /\ "VALIDATED" \in (Phases \cap OpenPhases) \ PhysicalPhases
    BY DEF BeforePCs, PendingPCs, Phases, OpenPhases, PhysicalPhases, PrePhysical
  <2>3. /\ EntriesOf(o)' = EntriesOf(o) /\ PhysicalOf(o)' = {} /\ PhysicalOf(o) = {}
        /\ \A q : Rows(q)' = Rows(q)
        /\ \A b : EntryRows(b)' = EntryRows(b)
    BY <1>4, <1>11, <2>1, <2>2
  <2>4. ObjectHolds(o)'
    BY <1>1, <1>5, <2>1, <2>3, ClosedEntries
  <2>5. "survive" \notin CommitPCs \cup CreatePCs \cup ArchivePCs \cup RecordedPCs
    BY <2>2, Sides
  <2>6. "survive" \notin ReleasingPCs \cup ClosedPCs
    BY <2>5, Sides
  <2>7. pc'[w] = "survive" /\ object[o].state = "RECLAIM_PENDING"
    BY <1>1, <2>1, <2>2, GotoFrame DEF Holds
  <2>8. Holds(pc[w], loc[w])'
    BY <1>1, <1>2, <1>4, <1>5, <2>1, <2>2, <2>3, <2>5, <2>6, <2>7 DEF Holds, Lists
  <2> QED
    BY <1>0, <1>1, <2>1, <2>3, <2>4, <2>8, LedgerKeeps
<1>13. CASE StartPhysical(w)
  <2>1. /\ UNCHANGED <<object, rows, arch, loc>> /\ pc[w] = "start" /\ Goto(w, "delete")
        /\ phase' = [phase EXCEPT ![a] = "PHYSICAL_STARTED"]
    BY <1>1, <1>13 DEF StartPhysical, storeVars
  <2>2. /\ "start" \in BeforePCs \cap PendingPCs
        /\ "PHYSICAL_STARTED" \in Phases \cap PhysicalPhases \cap OpenPhases
    BY DEF BeforePCs, PendingPCs, Phases, OpenPhases, PhysicalPhases, PrePhysical
  <2>3. /\ EntriesOf(o)' = EntriesOf(o) /\ PhysicalOf(o)' = {a}
        /\ \A q : Rows(q)' = Rows(q)
        /\ \A b : EntryRows(b)' = EntryRows(b)
    BY <1>4, <1>11, <2>1, <2>2
  <2>4. object[o].state = "RECLAIM_PENDING"
    BY <1>1, <2>1, <2>2 DEF Holds
  <2>5. /\ Lists(a, Rows(o), arch[o])
        /\ \A b \in EntriesOf(o) : Lists(a, EntryRows(b), entry[b].arch)
    <3>1. ASSUME NEW b \in EntriesOf(o) PROVE Lists(a, EntryRows(b), entry[b].arch)
      <4>1. EntryRows(b) \subseteq Rows(o) /\ entry[b].arch <= arch[o] /\ entry[b].arch \in Nat
        BY <1>3, <1>4, <2>1, <2>2 DEF EntriesOf, OpenAttempts
      <4>2. Rows(o) \subseteq EntryRows(a) /\ arch[o] <= entry[a].arch /\ entry[a].arch \in Nat
        BY <1>3, <1>4, <2>1, <2>2 DEF Lists
      <4> QED
        BY <1>3, <4>1, <4>2 DEF Lists
    <3> QED
      BY <1>4, <2>1, <2>2, <3>1
  <2>6. ObjectHolds(o)'
    BY <1>1, <1>5, <2>1, <2>3, <2>4, <2>5 DEF ObjectHolds, CommitTakes, RollbackGives, Lists
  <2>7. Holds(pc[w], loc[w])'
    BY <1>1, <1>6, <2>1, GotoFrame DEF AfterPCs, ReleasingPCs, ClosedPCs
  <2> QED
    BY <1>0, <1>1, <2>1, <2>3, <2>6, <2>7, LedgerKeeps
<1>14. CASE PhysicalDone(w)
  <2>1. /\ UNCHANGED <<object, rows, arch, loc>> /\ pc[w] = "done" /\ Goto(w, "commit")
        /\ phase' = [phase EXCEPT ![a] = "PHYSICAL_DONE"]
    BY <1>1, <1>14 DEF PhysicalDone, UpdateJournalPhase, storeVars
  <2>2. {"done", "commit"} \subseteq AfterPCs
        /\ "PHYSICAL_DONE" \in Phases \cap PhysicalPhases \cap OpenPhases
    BY DEF AfterPCs, Phases, OpenPhases, PhysicalPhases, PrePhysical
  <2>3. /\ EntriesOf(o)' = EntriesOf(o) /\ PhysicalOf(o)' = PhysicalOf(o)
        /\ \A q : Rows(q)' = Rows(q)
    BY <1>2, <1>11, <2>1, <2>2
  <2>4. ObjectHolds(o)'
    BY <1>1, <1>5, <2>1, <2>3, ClosedEntries
  <2>5. Holds(pc[w], loc[w])'
    BY <1>1, <1>6, <2>1, <2>2, GotoFrame DEF ReleasingPCs, ClosedPCs
  <2> QED
    BY <1>0, <1>1, <2>1, <2>3, <2>4, <2>5, LedgerKeeps
<1>15. CASE CommitJournal(w) \/ AbortJournal(w)
  <2>1. /\ UNCHANGED <<object, rows, arch>> /\ Return(w)
        /\ \/ pc[w] = "cmt_jrnl" /\ phase' = [phase EXCEPT ![a] = "COMMITTED"]
           \/ pc[w] = "abort_jrnl" /\ phase' = [phase EXCEPT ![a] = "ROLLED_BACK"]
    BY <1>1, <1>15
    DEF CommitJournal, AbortJournal, CloseJournal, UpdateJournalPhase, storeVars
  <2>2. {"COMMITTED", "ROLLED_BACK"} \subseteq Phases
        /\ {"COMMITTED", "ROLLED_BACK"} \cap (OpenPhases \cup PhysicalPhases) = {}
    BY DEF Phases, OpenPhases, PhysicalPhases
  <2>3. /\ EntriesOf(o)' \subseteq EntriesOf(o)
        /\ PhysicalOf(o)' = PhysicalOf(o) \ {a}
        /\ \A q : Rows(q)' = Rows(q)
    BY <1>11, <2>1, <2>2
  <2>4. object[o].state = "RECLAIMED" \/ PhysicalOf(o) = {}
    BY <1>1, <1>4, <2>1 DEF Holds, ClosedPCs, BeforePCs, AbortPCs
  <2>5. ObjectHolds(o)'
    BY <1>1, <1>5, <2>1, <2>3, <2>4, ClosedEntries
  <2> QED
    BY <1>0, <1>1, <2>1, <2>3, <2>5, ReturnOwns, IdleHolds, LedgerKeeps
\* The store changes, the journal does not.
<1>16. CASE CommitEnter(w) \/ CommitRelease(w)
  <2>1. /\ UNCHANGED <<object, rows, arch, phase>>
        /\ \/ /\ pc[w] = "commit" /\ Goto(w, "cmt_row")
              /\ SetLocals(w, [loc[w] EXCEPT !.todo = EntryRows(a)])
           \/ /\ pc[w] = "cmt_release"
              /\ Goto(w, "cmt_row") \/ Goto(w, "fence")
              /\ SetLocals(w, [loc[w] EXCEPT !.cur = None])
    BY <1>1, <1>16 DEF CommitEnter, CommitRelease, storeVars, journalVars
  <2>2. pc[w] \in AfterPCs /\ {"cmt_row", "fence"} \subseteq AfterPCs
    BY <2>1 DEF AfterPCs, CommitPCs
  <2>3. Rows(o) \subseteq EntryRows(a)
    BY <1>1, <1>2, <2>2 DEF ObjectHolds, CommitTakes, Lists
  <2>4. pc[w] = "cmt_release" => Rows(o) \subseteq loc[w].todo
    BY <1>1 DEF Holds, ReleasingPCs
  <2>5. /\ loc'[w].obj = o /\ loc'[w].seen = loc[w].seen
        /\ \/ pc[w] = "commit" /\ loc'[w].todo = EntryRows(a)
           \/ pc[w] = "cmt_release" /\ loc'[w].todo = loc[w].todo
    BY <1>1, <2>1, LocalsFrame, LocalsFields DEF Locals
  <2>6. Rows(o)' \subseteq loc'[w].todo /\ \A q : Rows(q)' = Rows(q)
    BY <2>1, <2>3, <2>4, <2>5, RowsSame
  <2>7. PICK d \in {"cmt_row", "fence"} : pc'[w] = d
    BY <2>1, GotoFrame
  <2>8. Holds(pc[w], loc[w])'
    BY <1>6, <2>2, <2>5, <2>6, <2>7 DEF ReleasingPCs, ClosedPCs
  <2>9. ObjectHolds(o)'
    BY <1>1, <1>5, <2>1, <2>6, SameObject
  <2> QED
    BY <1>0, <1>1, <2>1, <2>6, <2>8, <2>9, LedgerKeeps
<1>17. ASSUME NEW p \in Payloads, CommitRow(w, p) PROVE LedgerInv'
  <2> DEFINE r == [loc[w] EXCEPT !.todo = @ \ {p}, !.cur = p]
  <2>1. /\ UNCHANGED <<object, arch, phase>> /\ pc[w] = "cmt_row" /\ Goto(w, "cmt_release")
        /\ rows' = [rows EXCEPT ![o][p] = "none"] /\ SetLocals(w, r)
    BY <1>1, <1>17 DEF CommitRow, DeleteReplica, journalVars
  <2>2. /\ r.obj = o /\ r.seen = loc[w].seen /\ r.todo = loc[w].todo \ {p}
    BY <1>1, LocalsFields DEF Locals
  <2>3. Rows(o)' = Rows(o) \ {p} /\ \A q \in Objects \ {o} : Rows(q)' = Rows(q)
    BY <2>1 DEF Rows, TypeInv, TypeOK, StoreTypeOK
  <2>4. loc'[w] = r /\ pc'[w] = "cmt_release"
    BY <2>1, LocalsFrame, GotoFrame
  <2>5. Rows(o) \subseteq loc[w].todo /\ pc[w] \in AfterPCs /\ "cmt_release" \in AfterPCs
    BY <1>1, <2>1 DEF Holds, ReleasingPCs, AfterPCs, CommitPCs
  <2> HIDE DEF r
  <2>6. Holds(pc[w], loc[w])'
    BY <1>6, <2>2, <2>3, <2>4, <2>5 DEF ClosedPCs
  <2>7. ObjectHolds(o)'
    BY <1>1, <1>2, <1>3, <1>5, <2>1, <2>3, <2>5, CommittedRows
  <2> QED
    BY <1>0, <1>1, <2>1, <2>3, <2>6, <2>7, LedgerKeeps
<1>18. CASE CommitRowsDone(w)
  <2>1. /\ UNCHANGED <<object, rows, arch, phase, loc>> /\ pc[w] = "cmt_row"
        /\ loc[w].todo = {}
        /\ Goto(w, IF arch[o] > 0 THEN "cmt_arch" ELSE "cmt_obj")
    BY <1>1, <1>18 DEF CommitRowsDone, storeVars, journalVars
  <2>2. Rows(o) = {} /\ \A q : Rows(q)' = Rows(q)
    BY <1>1, <2>1, RowsSame DEF Holds, ReleasingPCs
  <2>3. /\ pc'[w] \in {"cmt_arch", "cmt_obj"} /\ {"cmt_arch", "cmt_obj"} \subseteq AfterPCs
        /\ pc'[w] = "cmt_obj" => arch'[o] = 0
    BY <1>3, <2>1, GotoFrame DEF AfterPCs, CommitPCs
  <2>4. Holds(pc[w], loc[w])'
    BY <1>1, <1>6, <2>1, <2>2, <2>3 DEF ReleasingPCs, ClosedPCs
  <2>5. ObjectHolds(o)'
    BY <1>1, <1>5, <2>1, <2>2, SameObject
  <2> QED
    BY <1>0, <1>1, <2>1, <2>2, <2>4, <2>5, LedgerKeeps
<1>19. CASE CommitArchive(w)
  <2> DEFINE n == IF arch[o] > 0 THEN arch[o] - 1 ELSE 0
  <2>1. /\ UNCHANGED <<object, rows, phase, loc>> /\ pc[w] = "cmt_arch"
        /\ arch' = [arch EXCEPT ![o] = n]
        /\ Goto(w, IF arch[o] > 1 THEN "cmt_arch" ELSE "cmt_obj")
    BY <1>1, <1>19 DEF CommitArchive, DeleteArchiveRow, journalVars
  <2>2. arch'[o] = n /\ \A q \in Objects \ {o} : arch'[q] = arch[q]
    BY <2>1 DEF TypeInv, TypeOK, StoreTypeOK
  <2>3. /\ n \in Nat /\ n <= arch[o] /\ (~(arch[o] > 1) => n = 0)
    BY <1>3
  <2>4. /\ pc'[w] \in {"cmt_arch", "cmt_obj"} /\ {"cmt_arch", "cmt_obj"} \subseteq AfterPCs
        /\ pc'[w] = "cmt_obj" => arch'[o] = 0
    BY <2>1, <2>2, <2>3, GotoFrame DEF AfterPCs, CommitPCs
  <2>5. Rows(o) = {} /\ \A q : Rows(q)' = Rows(q)
    BY <1>1, <2>1, RowsSame DEF Holds
  <2> HIDE DEF n
  <2>6. Holds(pc[w], loc[w])'
    BY <1>1, <1>6, <2>1, <2>4, <2>5 DEF ReleasingPCs, ClosedPCs
  <2>7. ObjectHolds(o)'
    BY <1>1, <1>2, <1>3, <1>5, <2>1, <2>2, <2>3, <2>4, <2>5, CommittedRows
  <2> QED
    BY <1>0, <1>1, <2>2, <2>5, <2>6, <2>7, LedgerKeeps
<1>20. CASE CommitObject(w)
  <2> DEFINE row == [loc[w].seen EXCEPT !.state = "RECLAIMED"]
  <2>1. /\ UNCHANGED <<rows, arch, phase, loc>> /\ pc[w] = "cmt_obj"
        /\ UpdateObject(o, row) /\ Goto(w, "cmt_resv")
    BY <1>1, <1>20 DEF CommitObject, journalVars
  <2>2. object'[o].state = "RECLAIMED" /\ pc'[w] = "cmt_resv"
    BY <1>2, <2>1, UpdateFrame, GotoFrame DEF ObjectRow
  <2>3. Rows(o) = {} /\ arch[o] = 0 /\ \A q : Rows(q)' = Rows(q)
    BY <1>1, <2>1, RowsSame DEF Holds
  <2>4. {"cmt_obj", "cmt_resv"} \subseteq AfterPCs
    BY DEF AfterPCs, CommitPCs
  <2>5. Holds(pc[w], loc[w])'
    BY <1>1, <1>6, <2>1, <2>2, <2>4 DEF ReleasingPCs
  <2>6. ObjectHolds(o)'
    BY <1>1, <1>2, <1>3, <1>5, <2>1, <2>2, <2>3, <2>4, CommittedRows
  <2> QED
    BY <1>0, <1>1, <2>1, <2>3, <2>5, <2>6, LedgerKeeps
<1> QED
  BY <1>0, <1>8, <1>9, <1>10, <1>12, <1>13, <1>14, <1>15, <1>16, <1>17, <1>18, <1>19,
     <1>20, ReclaimQuiet DEF ReclaimStep

-----------------------------------------------------------------------------
(* Errors and requests. *)

LEMMA FailLedger ==
  ASSUME TypeInv, JournalInv, LedgerInv, NEW w \in Workers, WorkStep(w), SameLedger,
         StepFails(w)
  PROVE  LedgerInv'
<1>1. pc'[w] = ErrorTarget(w)
  BY GotoFrame, ReturnOwns DEF StepFails
<1>2. ASSUME Stays(pc[w], ErrorTarget(w)) PROVE LedgerInv'
  BY <1>1, <1>2, QuietLedger
<1>3. CASE pc[w] \in {"create_ref", "create_write", "create_unref", "create_unblob",
                      "create_insert", "create_row", "publish"}
  <2>1. ErrorTarget(w) \in {"undo", "create_unblob", "create_unref", "undo_lock", "idle"}
    BY <1>3 DEF ErrorTarget, CommitPCs
  <2> QED
    BY <1>2, <1>3, <2>1, Sides DEF Stays, CreatePCs
<1>4. CASE pc[w] \in {"survive", "graph", "deps", "start"}
  <2>1. ErrorTarget(w) = "abort"
    BY <1>4, Zenon DEF ErrorTarget, CommitPCs
  <2> QED
    BY <1>2, <1>4, <2>1 DEF Stays, BeforePCs, PendingPCs
<1>5. CASE pc[w] = "arc_insert"
  <2>1. ErrorTarget(w) = "arc_unblob"
    BY <1>5 DEF ErrorTarget, CommitPCs
  <2> QED
    BY <1>2, <1>5, <2>1 DEF Stays, ArchivePCs, RecordedPCs
<1>6. CASE pc[w] = "arc_obj"
  <2>1. ErrorTarget(w) = "arc_unrow"
    BY <1>6 DEF ErrorTarget, CommitPCs
  <2> QED
    BY <1>2, <1>6, <2>1 DEF Stays, RecordedPCs
<1>7. CASE pc[w] \notin {"create_ref", "create_write", "create_unref", "create_unblob",
                         "create_insert", "create_row", "publish", "survive", "graph",
                         "deps", "start", "arc_insert", "arc_obj"}
  <2>1. ErrorTarget(w) \in {"idle", "fence"}
    BY <1>7, Zenon DEF ErrorTarget
  <2>2. {"idle", "fence"} \cap LedgerPCs = {}
    BY DEF LedgerPCs, BeforePCs, AbortPCs, CommitPCs, CreatePCs, ArchivePCs
  <2> QED
    BY <1>2, <2>1, <2>2 DEF Stays
<1> QED
  BY <1>3, <1>4, <1>5, <1>6, <1>7

LEMMA FaultLedger ==
  ASSUME TypeInv, JournalInv, LedgerInv, NEW w \in Workers, WorkerFault(w)
  PROVE  LedgerInv'
<1>0. WorkStep(w)
  BY FaultWork
<1>1. CASE StatementError(w) \/ EntryHeartbeatError(w)
  <2>1. SameLedger /\ StepFails(w)
    BY <1>1 DEF StatementError, EntryHeartbeatError, storeVars, journalVars, procVars,
       recVars, SameLedger, Rows
  <2> QED
    BY <1>0, <2>1, FailLedger
<1>2. CASE WriteError(w) \/ ReadError(w) \/ ArchiveError(w)
  <2>1. SameLedger
    BY <1>2 DEF WriteError, ReadError, ArchiveError, BackendFault, storeVars, journalVars,
       procVars, recVars, SameLedger, Rows
  <2>2. \/ pc[w] \in CreatePCs /\ pc'[w] = "undo"
        \/ pc'[w] \in {"fence", "idle"}
    BY <1>2, GotoFrame, ReturnOwns DEF WriteError, ReadError, ArchiveError, CreatePCs
  <2>3. "undo" \in CreatePCs /\ {"idle", "fence"} \cap LedgerPCs = {}
    BY DEF LedgerPCs, BeforePCs, AbortPCs, CommitPCs, CreatePCs, ArchivePCs
  <2> QED
    BY <1>0, <2>1, <2>2, <2>3, QuietLedger DEF Stays
<1>3. ASSUME NEW p \in Payloads, DeleteError(w, p) PROVE LedgerInv'
  <2>1. SameLedger
    BY <1>3 DEF DeleteError, BackendFault, storeVars, journalVars, procVars, recVars,
       SameLedger, Rows
  <2>2. \/ pc[w] = "create_unblob" /\ Goto(w, "undo")
        \/ Goto(w, "fence") \/ Return(w)
    BY <1>3, Zenon DEF DeleteError
  <2>3. \/ pc[w] \in CreatePCs /\ pc'[w] = "undo"
        \/ pc'[w] \in {"fence", "idle"}
    BY <2>2, GotoFrame, ReturnOwns DEF CreatePCs
  <2>4. "undo" \in CreatePCs /\ {"idle", "fence"} \cap LedgerPCs = {}
    BY DEF LedgerPCs, BeforePCs, AbortPCs, CommitPCs, CreatePCs, ArchivePCs
  <2> QED
    BY <1>0, <2>1, <2>3, <2>4, QuietLedger DEF Stays
<1>4. ASSUME NEW p \in Payloads, VerifyReadError(w, p) PROVE LedgerInv'
  <2>1. SameLedger
    BY <1>4 DEF VerifyReadError, BackendFault, storeVars, journalVars, procVars, recVars,
       SameLedger, Rows
  <2>2. pc'[w] = "ver_inval" /\ "ver_inval" \notin LedgerPCs
    BY <1>4, GotoFrame DEF VerifyReadError, LedgerPCs, BeforePCs, AbortPCs, CommitPCs,
       CreatePCs, ArchivePCs
  <2> QED
    BY <1>0, <2>1, <2>2, QuietLedger DEF Stays
<1> QED
  BY <1>1, <1>2, <1>3, <1>4 DEF WorkerFault

LEMMA WorkerLedger ==
  ASSUME TypeInv, JournalInv, RecoveryInv, PayloadInv, LedgerInv, NEW w \in Workers,
         WorkerStep(w)
  PROVE  LedgerInv'
<1>0. WorkStep(w)
  BY WorkerWork
<1>1. CASE FlagWrite(w)
  <2> DEFINE row == [loc[w].seen EXCEPT !.flags = FlagResult(pc[w], @)]
  <2>1. PICK o \in Objects : o = loc[w].obj
    BY <1>0, NoRecoveryNow DEF WorkStep
  <2>2. /\ UNCHANGED <<rows, phase, entry, arch, mode, rpc, rec>>
        /\ pc[w] \in FlagOps /\ Return(w) /\ UpdateObject(o, row)
    BY <1>1, <2>1 DEF FlagWrite, Enter, journalVars, procVars, recVars
  <2>3. row.state = loc[w].seen.state
    BY LocalsFields DEF ObjectRow
  <2>4. loc[w].seen.state = object[o].state
    BY <2>1, <2>2 DEF JournalInv, WorkerOrder
  <2>5. object'[o] = row /\ \A q \in Objects \ {o} : object'[q] = object[q]
    BY <2>2, UpdateFrame
  <2> HIDE DEF row
  <2>6. SameLedger
    BY <2>2, <2>3, <2>4, <2>5, RowsSame DEF SameLedger
  <2> QED
    BY <1>0, <2>2, <2>6, ReturnOwns, Sides, QuietLedger DEF Stays
<1>2. CASE AuthorityError(w)
  <2>1. SameLedger /\ StepFails(w)
    BY <1>2 DEF AuthorityError, storeVars, journalVars, procVars, recVars, SameLedger, Rows
  <2> QED
    BY <1>0, <2>1, FailLedger
<1> QED
  BY <1>1, <1>2, CreateLedger, ReclaimLedger, VerifyLedger, ArchiveLedger DEF WorkerStep

\* A request begins, or nothing this is about changes.
LEMMA BeginLedger ==
  ASSUME LedgerInv, NEW w \in Workers,
         UNCHANGED <<object, rows, arch, phase, entry, mode, rpc, rec>>,
         \A v \in Workers \ {w} : pc'[v] = pc[v] /\ loc'[v] = loc[v],
         Holds(pc[w], loc[w])' \/ (pc'[w] = pc[w] /\ loc'[w] = loc[w])
  PROVE  LedgerInv'
<1>1. /\ \A o : /\ Rows(o)' = Rows(o) /\ EntriesOf(o)' = EntriesOf(o)
                /\ PhysicalOf(o)' = PhysicalOf(o)
      /\ \A a : EntryRows(a)' = EntryRows(a)
  BY DEF Rows, EntriesOf, PhysicalOf, OpenAttempts, EntryRows
<1>2. ASSUME NEW o \in Objects PROVE ObjectHolds(o)'
  BY <1>1 DEF LedgerInv, ObjectHolds, CommitTakes, RollbackGives, Lists
<1>3. ASSUME NEW v \in Workers, pc'[v] = pc[v], loc'[v] = loc[v]
      PROVE  Holds(pc[v], loc[v])'
  <2>1. Holds(pc[v], loc[v])
    BY DEF LedgerInv
  <2> QED
    BY <1>1, <1>3, <2>1 DEF Holds, Lists
<1>4. \A v \in Workers : Holds(pc[v], loc[v])'
  BY <1>3
<1>5. RecoveryHolds'
  BY <1>1 DEF LedgerInv, RecoveryHolds, EntryHolds, OpenAttempts
<1> QED
  BY <1>2, <1>4, <1>5 DEF LedgerInv

LEMMA ReserveLedger ==
  ASSUME TypeInv, JournalInv, LedgerInv, NEW w \in Workers, NEW o \in Objects,
         NEW a \in Attempts, Reserve(w, o, a)
  PROVE  LedgerInv'
<1> DEFINE e == [obj |-> o, prior |-> object[o], rows |-> rows[o], arch |-> arch[o]]
           r == [loc[w] EXCEPT !.obj = o, !.att = a, !.seen = object[o], !.todo = Rows(o)]
<1>1. /\ pc[w] = "idle" /\ mode = "up" /\ phase[a] = "NONE"
      /\ ObjectOperationAllowed(o) /\ ReclaimAllowed(o)
      /\ SetLocals(w, r) /\ UNCHANGED <<object, rows, arch, mode, rpc, rec>>
      /\ phase' = [phase EXCEPT ![a] = "RESERVED"] /\ entry' = [entry EXCEPT ![a] = e]
  BY DEF Reserve, Enter, storeVars, procVars, recVars
<1>2. PICK c \in {"recomputable", "validate", "pending"} :
        Goto(w, c) /\ (c = "validate" => object[o].state = "RECLAIM_PENDING")
  BY Zenon DEF Reserve
<1>3. /\ pc'[w] = c /\ loc'[w] = r
      /\ \A v \in Workers \ {w} : pc'[v] = pc[v] /\ loc'[v] = loc[v]
  BY <1>1, <1>2, GotoFrame, LocalsFrame
<1>4. r.obj = o /\ r.att = a /\ r.seen = object[o]
  BY LocalsFields DEF Locals
<1>5. /\ phase'[a] = "RESERVED" /\ entry'[a] = e
      /\ \A b \in Attempts \ {a} : phase'[b] = phase[b] /\ entry'[b] = entry[b]
  BY <1>1 DEF TypeInv, TypeOK, JournalTypeOK
<1>6. e.obj = o /\ e.prior = object[o] /\ e.rows = rows[o] /\ e.arch = arch[o]
  OBVIOUS
<1> HIDE DEF e, r
<1>7. object[o].state \notin {"NONE", "RECLAIMED", "RECLAIM_PENDING"}
  BY <1>1, CoversParts
  DEF ReclaimAllowed, Registered, HasOpenReservation, JournalInv, CoversObject
<1>8. PhysicalOf(o) = {}
  BY <1>1, <1>7, NoPhysical
<1>9. /\ \A q : Rows(q)' = Rows(q)
      /\ EntryRows(a)' = Rows(o) /\ \A b \in Attempts \ {a} : EntryRows(b)' = EntryRows(b)
  BY <1>1, <1>5, <1>6, RowsSame DEF EntryRows, Rows
<1>10. \A q \in Objects :
         /\ EntriesOf(q)' = (IF q = o THEN EntriesOf(q) \cup {a} ELSE EntriesOf(q))
         /\ PhysicalOf(q)' = PhysicalOf(q)
         /\ a \notin EntriesOf(q) /\ a \notin PhysicalOf(q)
         /\ EntriesOf(q) \cup PhysicalOf(q) \subseteq Attempts
  BY <1>1, <1>5, <1>6 DEF EntriesOf, PhysicalOf, OpenAttempts, OpenPhases, PrePhysical,
     PhysicalPhases
<1>11. arch[o] \in Nat /\ arch[o] <= arch[o]
  BY DEF TypeInv, TypeOK, StoreTypeOK
<1>12. ASSUME NEW q \in Objects PROVE ObjectHolds(q)'
  <2>1. ObjectHolds(q)
    BY DEF LedgerInv
  <2>2. CASE q = o
    <3>1. \A b \in EntriesOf(o) : EntryRows(b) \subseteq Rows(o) /\ entry[b].arch <= arch[o]
      BY <1>1, <1>7, <1>8, <2>1, <2>2 DEF ObjectHolds, RollbackGives
    <3>2. \A b \in EntriesOf(o)' : EntryRows(b)' \subseteq Rows(o)' /\ entry'[b].arch <= arch'[o]
      <4> SUFFICES ASSUME NEW b \in EntriesOf(o) \cup {a}
                   PROVE  EntryRows(b)' \subseteq Rows(o)' /\ entry'[b].arch <= arch'[o]
        BY <1>10
      <4>1. CASE b = a
        BY <1>1, <1>5, <1>6, <1>9, <1>11, <4>1
      <4>2. CASE b # a
        BY <1>1, <1>5, <1>9, <1>10, <3>1, <4>2
      <4> QED
        BY <4>1, <4>2
    <3>3. PhysicalOf(o)' = {}
      BY <1>8, <1>10
    <3> QED
      BY <1>1, <1>7, <2>2, <3>2, <3>3 DEF ObjectHolds, CommitTakes, RollbackGives
  <2>3. CASE q # o
    <3>1. /\ EntriesOf(q)' = EntriesOf(q) /\ PhysicalOf(q)' = PhysicalOf(q)
          /\ \A b \in EntriesOf(q) \cup PhysicalOf(q) :
               entry'[b] = entry[b] /\ EntryRows(b)' = EntryRows(b)
      BY <1>5, <1>9, <1>10, <2>3
    <3> QED
      BY <1>1, <1>9, <2>1, <3>1 DEF ObjectHolds, CommitTakes, RollbackGives, Lists
  <2> QED
    BY <2>2, <2>3
<1>13. Holds(pc[w], loc[w])'
  <2>1. c \in BeforePCs /\ (c \in PendingPCs => c = "validate")
    BY DEF BeforePCs, PendingPCs
  <2>2. /\ c \notin CommitPCs \cup CreatePCs \cup ArchivePCs \cup RecordedPCs
        /\ c \notin ReleasingPCs \cup ClosedPCs \cup {"cmt_arch", "cmt_obj"}
    BY <2>1, Sides
  <2>3. PhysicalOf(o)' = {}
    BY <1>8, <1>10
  <2>4. Lists(a, Rows(o), arch[o])'
    BY <1>1, <1>5, <1>6, <1>9, <1>11 DEF Lists
  <2> QED
    BY <1>1, <1>2, <1>3, <1>4, <1>7, <2>1, <2>2, <2>3, <2>4 DEF Holds
<1>14. ASSUME NEW v \in Workers PROVE Holds(pc[v], loc[v])'
  <2>1. CASE v = w
    BY <1>13, <2>1
  <2>2. CASE v # w /\ pc[v] \in {"idle", "recover"}
    BY <1>3, <2>2, IdleHolds
  <2>3. CASE v # w /\ pc[v] \notin {"idle", "recover"}
    <3> DEFINE d == pc[v]
               l == loc[v]
    <3>1. /\ d' = d /\ l' = l /\ Holds(d, l) /\ l.obj \in Objects
          /\ d \in BeforePCs => l.att \in Attempts /\ l.att # a
      BY <1>1, <1>3, <2>3, NoRecoveryNow, Sides DEF LedgerInv, JournalInv, WorkerOwns
    <3>2. l.obj # o
      BY <1>1, <2>3, <3>1, LocalsOf DEF ObjectOperationAllowed, ActiveObjects
    <3>3. /\ object'[l.obj] = object[l.obj] /\ Rows(l.obj)' = Rows(l.obj)
          /\ arch'[l.obj] = arch[l.obj] /\ EntriesOf(l.obj)' = EntriesOf(l.obj)
          /\ PhysicalOf(l.obj)' = PhysicalOf(l.obj)
          /\ \A b \in EntriesOf(l.obj) : entry'[b] = entry[b]
          /\ d \in BeforePCs => EntryRows(l.att)' = EntryRows(l.att)
                                /\ entry'[l.att] = entry[l.att]
      BY <1>1, <1>5, <1>9, <1>10, <3>1, <3>2
    <3> QED
      BY <3>1, <3>3 DEF Holds, Lists
  <2> QED
    BY <2>1, <2>2, <2>3
<1>15. RecoveryHolds'
  <2>1. rpc = "off" /\ "off" \notin AtEntry /\ rec.queue = {}
    BY <1>1 DEF ObjectOperationAllowed, ActiveRecovery, LedgerInv, RecoveryHolds, AtEntry,
       EntryPCs
  <2> QED
    BY <1>1, <2>1 DEF RecoveryHolds
<1>16. \A b \in Attempts : phase'[b] # "NONE" => entry'[b].prior.state # "NONE"
  BY <1>5, <1>6, <1>7 DEF LedgerInv
<1> QED
  BY <1>12, <1>14, <1>15, <1>16 DEF LedgerInv

LEMMA RequestLedger ==
  ASSUME TypeInv, JournalInv, LedgerInv, "recover" \notin Requests,
         NEW w \in Workers, Request(w)
  PROVE  LedgerInv'
<1>1. ASSUME UNCHANGED <<object, rows, arch, phase, entry, mode, rpc, rec>>,
             NEW c, Goto(w, c), NEW r, SetLocals(w, r), r.obj \in Objects,
             \/ c \notin LedgerPCs \cup ReclaimPCs
             \/ c \in CreatePCs /\ object[r.obj].state = "NONE"
             \/ /\ c \in ArchivePCs \ RecordedPCs
                /\ object[r.obj].state \notin {"NONE", "RECLAIM_PENDING", "RECLAIMED"}
      PROVE  LedgerInv'
  <2>1. /\ pc'[w] = c /\ loc'[w] = r
        /\ \A v \in Workers \ {w} : pc'[v] = pc[v] /\ loc'[v] = loc[v]
    BY <1>1, GotoFrame, LocalsFrame
  <2>2. /\ c \notin ReclaimPCs \cup BeforePCs \cup PendingPCs \cup CommitPCs \cup RecordedPCs
        /\ c \notin ReleasingPCs \cup ClosedPCs \cup {"cmt_arch", "cmt_obj"}
        /\ c \in CreatePCs => object[r.obj].state = "NONE"
        /\ c \in ArchivePCs
             => object[r.obj].state \notin {"NONE", "RECLAIM_PENDING", "RECLAIMED"}
    BY <1>1, Sides DEF LedgerPCs
  <2>3. Holds(pc[w], loc[w])'
    BY <1>1, <2>1, <2>2 DEF Holds
  <2> QED
    BY <1>1, <2>1, <2>3, BeginLedger
<1>2. ASSUME NEW o \in Objects, NEW kind \in FlagOps, FlagBegin(w, o, kind)
      PROVE  LedgerInv'
  <2> DEFINE r == [loc[w] EXCEPT !.obj = o, !.seen = object[o]]
  <2>1. /\ UNCHANGED <<object, rows, arch, phase, entry, mode, rpc, rec>>
        /\ Goto(w, kind) /\ SetLocals(w, r)
    BY <1>2 DEF FlagBegin, storeVars, journalVars, procVars, recVars
  <2>2. r.obj = o
    BY LocalsFields DEF Locals
  <2>3. FlagOps \cap (LedgerPCs \cup ReclaimPCs) = {}
    BY DEF FlagOps, LedgerPCs, BeforePCs, AbortPCs, CommitPCs, CreatePCs, ArchivePCs,
       ReclaimPCs
  <2> HIDE DEF r
  <2> QED
    BY <1>1, <2>1, <2>2, <2>3
<1>3. ASSUME NEW o \in Objects, CreateBegin(w, o) PROVE LedgerInv'
  <2> DEFINE r == [loc[w] EXCEPT !.obj = o, !.todo = Targets[o]]
             c == IF Targets[o] = {} THEN "publish" ELSE "create_lock"
  <2>1. /\ UNCHANGED <<object, rows, arch, phase, entry, mode, rpc, rec>>
        /\ Goto(w, c) /\ SetLocals(w, r) /\ object[o].state = "NONE"
    BY <1>3 DEF CreateBegin, Registered, storeVars, journalVars, procVars, recVars
  <2>2. r.obj = o /\ c \in CreatePCs
    BY LocalsFields DEF Locals, CreatePCs
  <2> HIDE DEF r, c
  <2> QED
    BY <1>1, <2>1, <2>2
<1>4. ASSUME NEW o \in Objects, VerifyBegin(w, o) PROVE LedgerInv'
  <2> DEFINE r == [loc[w] EXCEPT !.obj = o, !.todo = Rows(o)]
  <2>1. /\ UNCHANGED <<object, rows, arch, phase, entry, mode, rpc, rec>>
        /\ Goto(w, "ver_lock") /\ SetLocals(w, r)
    BY <1>4 DEF VerifyBegin, storeVars, journalVars, procVars, recVars
  <2>2. r.obj = o
    BY LocalsFields DEF Locals
  <2>3. "ver_lock" \notin LedgerPCs \cup ReclaimPCs
    BY DEF LedgerPCs, BeforePCs, AbortPCs, CommitPCs, CreatePCs, ArchivePCs, ReclaimPCs
  <2> HIDE DEF r
  <2> QED
    BY <1>1, <2>1, <2>2, <2>3
<1>5. ASSUME NEW o \in Objects, ArchiveBegin(w, o) PROVE LedgerInv'
  <2> DEFINE r == [loc[w] EXCEPT !.obj = o, !.seen = object[o]]
  <2>1. /\ UNCHANGED <<object, rows, arch, phase, entry, mode, rpc, rec>>
        /\ Goto(w, "arc_write") /\ SetLocals(w, r)
        /\ object[o].state # "NONE" /\ CheckTransition(object[o].state, "ARCHIVED")
    BY <1>5 DEF ArchiveBegin, Registered, storeVars, journalVars, procVars, recVars
  <2>2. r.obj = o /\ "arc_write" \in ArchivePCs \ RecordedPCs
    BY LocalsFields DEF Locals, ArchivePCs, RecordedPCs
  <2>3. object[o].state \notin {"NONE", "RECLAIM_PENDING", "RECLAIMED"}
    BY <2>1 DEF CheckTransition, Successors
  <2> HIDE DEF r
  <2> QED
    BY <1>1, <2>1, <2>2, <2>3
<1>6. ASSUME NEW d \in EdgeChoices, AddLineage(w, d) \/ RemoveLineage(w, d)
      PROVE  LedgerInv'
  <2>1. UNCHANGED <<object, rows, arch, phase, entry, mode, rpc, rec, pc, loc>>
    BY <1>6 DEF AddLineage, RemoveLineage, journalVars, procVars, recVars
  <2> QED
    BY <2>1, BeginLedger
<1>7. ~RecoverRequest(w)
  BY DEF RecoverRequest
<1> QED
  BY <1>2, <1>3, <1>4, <1>5, <1>6, <1>7, ReserveLedger DEF Request

-----------------------------------------------------------------------------
(* Recovery. *)

\* An object is as it was, or still as the invariant says.
SameOrHolds(o) ==
  \/ object'[o].state = object[o].state /\ Rows(o)' = Rows(o) /\ arch'[o] = arch[o]
  \/ ObjectHolds(o)'

LEMMA RecKeeps ==
  ASSUME TypeInv, JournalInv, PayloadInv, LedgerInv, rpc # "off", rpc' # "off",
         UNCHANGED <<phase, entry, mode, pc, loc>>,
         \A o \in Objects : SameOrHolds(o),
         rec'.queue \subseteq OpenAttempts,
         rpc' \in AtEntry => /\ rec'.att \in OpenAttempts \ rec'.queue
                             /\ EntryHolds(rec.att)'
  PROVE  LedgerInv'
<1>1. \A w \in Workers : pc[w] \in {"idle", "recover"}
  BY AllIdle DEF PayloadInv
<1>2. \A w \in Workers : Holds(pc[w], loc[w])'
  BY <1>1, IdleHolds
<1>3. ASSUME NEW o \in Objects PROVE ObjectHolds(o)'
  BY <1>3, SameObject DEF LedgerInv, SameOrHolds
<1>4. OpenAttempts' = OpenAttempts
  BY DEF OpenAttempts
<1>5. RecoveryHolds'
  BY <1>4 DEF RecoveryHolds
<1> QED
  BY <1>2, <1>3, <1>5 DEF LedgerInv

\* A step that says nothing new of an entry.
LEMMA RecLedger ==
  ASSUME TypeInv, JournalInv, PayloadInv, LedgerInv, rpc # "off", rpc' # "off",
         UNCHANGED <<object, rows, arch, phase, entry, mode, pc, loc>>,
         rec'.queue \subseteq rec.queue,
         \/ rpc' \notin AtEntry
         \/ /\ rpc \in AtEntry /\ UNCHANGED <<rec>>
            /\ rpc' \in {"rb_obj", "rb_row", "rb_arch", "cm_row", "cm_release", "cm_arch",
                         "cm_obj"} => EntryHolds(rec.att)'
  PROVE  LedgerInv'
<1>1. \A o : Rows(o)' = Rows(o)
  BY DEF Rows
<1>2. rec'.queue \subseteq OpenAttempts
  BY DEF LedgerInv, RecoveryHolds
<1>3. rpc' \in AtEntry => /\ rec'.att \in OpenAttempts \ rec'.queue
                          /\ EntryHolds(rec.att)'
  BY DEF LedgerInv, RecoveryHolds, EntryHolds
<1> QED
  BY <1>1, <1>2, <1>3, RecKeeps DEF SameOrHolds

\* An error that recovery reports.
LEMMA FailsLedger ==
  ASSUME TypeInv, JournalInv, PayloadInv, LedgerInv, rpc # "off",
         UNCHANGED <<object, rows, arch, phase, entry, mode, pc, loc>>,
         EntryFails \/ RecoveryFails
  PROVE  LedgerInv'
<1>1. rec'.queue = rec.queue /\ rpc' \in {"next", "end"}
  BY RecTyped DEF EntryFails, RecoveryFails, RecoveryLocals
<1>2. {"next", "end"} \cap AtEntry = {}
  BY EntrySides
<1> QED
  BY <1>1, <1>2, RecLedger

\* The entry at hand.
LEMMA AtHandHolds ==
  ASSUME TypeInv, JournalInv, RecoveryInv, LedgerInv, rpc \in AtEntry
  PROVE  /\ rec.att \in OpenAttempts \ rec.queue /\ EntryHolds(rec.att)
         /\ rec.att \in Attempts /\ entry[rec.att].obj \in Objects
         /\ ObjectHolds(entry[rec.att].obj)
         /\ rec.att \in EntriesOf(entry[rec.att].obj)
         /\ entry[rec.att].prior.state \notin {"NONE", "RECLAIMED"}
         /\ rpc \in RecCommitPCs => rec.att \in PhysicalOf(entry[rec.att].obj)
<1>1. /\ rec.att \in Attempts /\ phase[rec.att] # "NONE"
      /\ entry[rec.att].obj \in Objects
  BY EntryAtHand
<1>2. rec.att \in OpenAttempts \ rec.queue /\ EntryHolds(rec.att)
  BY DEF LedgerInv, RecoveryHolds
<1>3. rpc \in RecCommitPCs => phase[rec.att] \in PhysicalPhases
  BY DEF RecoveryInv, DecisionSound
<1> QED
  BY <1>1, <1>2, <1>3 DEF LedgerInv, RecoveryInv, EntrySound, EntriesOf, PhysicalOf

\* Numbers of archive records.
LEMMA ArchiveNumbers ==
  ASSUME TypeInv
  PROVE  /\ \A o \in Objects : arch[o] \in Nat
         /\ \A a \in Attempts : entry[a].arch \in Nat
BY DEF TypeInv, TypeOK, StoreTypeOK, JournalTypeOK, JournalEntry

LEMMA EntryStarts ==
  ASSUME TypeInv, JournalInv, RecoveryInv, PayloadInv, LedgerInv, mode # "up",
         NEW a \in Attempts, RecNext(a)
  PROVE  LedgerInv'
<1>1. /\ rpc = "next" /\ a \in rec.queue /\ a \in OpenAttempts
      /\ rec'.queue = rec.queue \ {a} /\ rec'.att = a /\ rec'.todo = EntryRows(a)
      /\ rpc' = (IF RollsBack(a) THEN "rb_obj" ELSE IF Commits(a) THEN "cm_row" ELSE "next")
      /\ UNCHANGED <<object, rows, arch, phase, entry, mode, pc, loc>>
  BY RecTyped DEF RecNext, RecAt, JournalRows, EntryRows, LedgerInv, RecoveryHolds,
     storeVars, journalVars, procVars, workVars
<1>2. \A o \in Objects : SameOrHolds(o)
  BY <1>1, RowsSame DEF SameOrHolds
<1>3. entry[a].obj \in Objects
  BY <1>1 DEF JournalInv, EntriesKnown, OpenAttempts, OpenPhases, PrePhysical,
     PhysicalPhases
<1>4. rpc' = "cm_row" => Rows(entry[a].obj) \subseteq EntryRows(a)
  <2>1. rpc' = "cm_row" => phase[a] \in PhysicalPhases
    <3>1. rpc' = "cm_row" => Commits(a)
      BY DEF RecNext
    <3> QED
      BY <3>1, Decided
  <2>2. rpc' = "cm_row" => a \in PhysicalOf(entry[a].obj)
    BY <2>1 DEF PhysicalOf
  <2> QED
    BY <1>3, <2>2 DEF LedgerInv, ObjectHolds, CommitTakes, Lists
<1>5. rpc' \in AtEntry => EntryHolds(rec.att)'
  <2>1. EntryRows(a)' = EntryRows(a) /\ Rows(entry[a].obj)' = Rows(entry[a].obj)
    BY <1>1, RowsSame DEF EntryRows
  <2> QED
    BY <1>1, <1>4, <2>1 DEF EntryHolds
<1>6. rec'.queue \subseteq OpenAttempts
  BY <1>1 DEF LedgerInv, RecoveryHolds
<1> QED
  BY <1>1, <1>2, <1>5, <1>6, RecKeeps

\* A rollback gives the object what its entry lists.
LEMMA RollbackLedger ==
  ASSUME TypeInv, JournalInv, RecoveryInv, PayloadInv, LedgerInv, mode # "up",
         \/ RollbackObject \/ RollbackRowsDone \/ RollbackArchive \/ RollbackRepair
         \/ \E p \in Payloads : RollbackRow(p) \/ RollbackRowConflict(p)
  PROVE  LedgerInv'
<1>1. /\ rpc \in AtEntry /\ rpc # "off" /\ rpc' # "off"
      /\ UNCHANGED <<phase, entry, mode, pc, loc>>
  BY DEF RollbackObject, RollbackRowsDone, RollbackArchive, RollbackRepair, RollbackRow,
     RollbackRowConflict, RecAt, RecGoto, EntryFails, AtEntry, EntryPCs, journalVars,
     procVars, workVars
<1> DEFINE a == rec.att
<1>2. PICK o \in Objects : o = entry[a].obj
  BY <1>1, AtHandHolds
<1>3. /\ a \in OpenAttempts \ rec.queue /\ a \in Attempts /\ a \in EntriesOf(o)
      /\ EntryHolds(a) /\ ObjectHolds(o)
      /\ entry[a].prior.state \notin {"NONE", "RECLAIMED"}
  BY <1>1, <1>2, AtHandHolds
<1>4. /\ EntriesOf(o)' = EntriesOf(o) /\ PhysicalOf(o)' = PhysicalOf(o)
      /\ \A b : EntryRows(b)' = EntryRows(b)
      /\ EntriesOf(o) \cup PhysicalOf(o) \subseteq Attempts
  BY <1>1 DEF EntriesOf, PhysicalOf, OpenAttempts, EntryRows
<1>5. rec.queue \subseteq OpenAttempts
  BY DEF LedgerInv, RecoveryHolds
<1>6. ASSUME object'[o].state \notin {"NONE", "RECLAIMED"},
             \A b \in PhysicalOf(o) : Lists(b, Rows(o), arch[o])'
      PROVE  ObjectHolds(o)'
  <2>1. \A b \in PhysicalOf(o), c \in EntriesOf(o) : Lists(b, EntryRows(c), entry[c].arch)'
    BY <1>1, <1>3, <1>4 DEF ObjectHolds, CommitTakes, Lists
  <2> QED
    BY <1>1, <1>4, <1>6, <2>1 DEF ObjectHolds, CommitTakes, RollbackGives
<1>7. CASE RollbackObject
  <2>1. /\ UpdateObject(o, RestoredObject(object[o], entry[a].prior))
        /\ rpc' = "rb_row" /\ UNCHANGED <<rows, arch, rec>>
    BY <1>2, <1>7 DEF RollbackObject, RecGoto
  <2>2. /\ \A q \in Objects \ {o} : object'[q] = object[q]
        /\ object'[o].state = entry[a].prior.state
    BY <2>1, UpdateFrame DEF RestoredObject
  <2>3. \A b \in PhysicalOf(o) : Lists(b, Rows(o), arch[o])'
    BY <1>1, <1>3, <1>4, <2>1, RowsSame DEF ObjectHolds, CommitTakes, Lists
  <2>4. ObjectHolds(o)'
    BY <1>3, <1>6, <2>2, <2>3
  <2>5. EntryHolds(rec.att)'
    <3>1. rec.todo \subseteq EntryRows(a)
      BY <1>3, <1>7 DEF EntryHolds, RollbackObject, RecAt
    <3> QED
      BY <1>1, <1>2, <1>3, <1>4, <2>1, <2>2, <3>1 DEF EntryHolds
  <2> QED
    BY <1>1, <1>3, <1>5, <2>1, <2>2, <2>4, <2>5, RowsSame, RecKeeps DEF SameOrHolds
<1>8. ASSUME NEW p \in Payloads, RollbackRow(p) PROVE LedgerInv'
  <2>1. /\ rpc = "rb_row" /\ p \in rec.todo /\ UNCHANGED <<object, arch, rpc>>
        /\ rows' = [rows EXCEPT ![o][p] = entry[a].rows[p]]
        /\ rec'.todo = rec.todo \ {p} /\ rec'.att = a /\ rec'.queue = rec.queue
    BY <1>2, <1>8, RecTyped DEF RollbackRow, RecAt, WriteReplica
  <2>2. p \in EntryRows(a) /\ rec.todo \subseteq EntryRows(a) /\ object[o].state # "RECLAIMED"
    BY <1>2, <1>3, <2>1 DEF EntryHolds
  <2>3. /\ \A q \in Objects \ {o} : Rows(q)' = Rows(q)
        /\ Rows(o)' \subseteq Rows(o) \cup {p}
    BY <2>1 DEF Rows, TypeInv, TypeOK, StoreTypeOK
  <2>4. \A b \in PhysicalOf(o) : Lists(b, Rows(o), arch[o])'
    BY <1>1, <1>3, <1>4, <2>1, <2>2, <2>3 DEF ObjectHolds, CommitTakes, Lists
  <2>5. object[o].state # "NONE"
    BY <1>3 DEF ObjectHolds
  <2>6. ObjectHolds(o)'
    BY <1>6, <2>1, <2>2, <2>4, <2>5
  <2>7. EntryHolds(rec.att)'
    BY <1>1, <1>2, <1>4, <2>1, <2>2 DEF EntryHolds
  <2> QED
    BY <1>1, <1>3, <1>5, <2>1, <2>3, <2>6, <2>7, RecKeeps DEF SameOrHolds
<1>9. CASE RollbackArchive
  <2>1. /\ rpc = "rb_arch" /\ rpc' = "rb_repair" /\ UNCHANGED <<object, rows, rec>>
        /\ arch' = [arch EXCEPT ![o] = IF @ < entry[a].arch THEN entry[a].arch ELSE @]
    BY <1>2, <1>9 DEF RollbackArchive, RecAt, RecGoto
  <2>2. /\ \A q \in Objects \ {o} : arch'[q] = arch[q]
        /\ arch'[o] \in {arch[o], entry[a].arch}
    BY <2>1 DEF TypeInv, TypeOK, StoreTypeOK
  <2>3. \A b \in PhysicalOf(o) : Lists(b, Rows(o), arch[o])'
    BY <1>1, <1>3, <1>4, <2>1, <2>2, RowsSame DEF ObjectHolds, CommitTakes, Lists
  <2>4. object[o].state \notin {"NONE", "RECLAIMED"}
    BY <1>2, <1>3, <2>1 DEF ObjectHolds, EntryHolds
  <2>5. ObjectHolds(o)'
    BY <1>6, <2>1, <2>3, <2>4
  <2>6. EntryHolds(rec.att)'
    BY <2>1 DEF EntryHolds
  <2> QED
    BY <1>1, <1>3, <1>5, <2>1, <2>2, <2>5, <2>6, RowsSame, RecKeeps DEF SameOrHolds
<1>10. CASE RollbackRowsDone
  <2>1. /\ rpc = "rb_row" /\ rpc' = "rb_arch" /\ UNCHANGED <<object, rows, arch, rec>>
    BY <1>10 DEF RollbackRowsDone, RecAt, RecGoto, storeVars
  <2>2. EntryHolds(rec.att)'
    BY <1>1, <1>3, <2>1 DEF EntryHolds
  <2> QED
    BY <1>1, <2>1, <2>2, RecLedger
<1>11. CASE RollbackRepair \/ \E p \in Payloads : RollbackRowConflict(p)
  <2>1. UNCHANGED <<object, rows, arch>>
    BY <1>11 DEF RollbackRepair, RollbackRowConflict, storeVars
  <2>2. CASE EntryFails
    BY <1>1, <2>1, <2>2, FailsLedger
  <2>3. CASE ~EntryFails
    <3>1. UNCHANGED rec /\ rpc' = "rb_resv"
      BY <1>11, <2>3 DEF RollbackRepair, RollbackRowConflict, RecGoto
    <3> QED
      BY <1>1, <2>1, <3>1, RecLedger
  <2> QED
    BY <2>2, <2>3
<1> QED
  BY <1>7, <1>8, <1>9, <1>10, <1>11

\* A commit takes all the object has.
LEMMA RecCommitLedger ==
  ASSUME TypeInv, JournalInv, RecoveryInv, PayloadInv, LedgerInv, mode # "up",
         \/ RecCommitRelease \/ RecCommitRowsDone \/ RecCommitArchive \/ RecCommitObject
         \/ \E p \in Payloads : RecCommitRow(p)
  PROVE  LedgerInv'
<1>1. /\ rpc \in RecCommitPCs /\ rpc # "off" /\ rpc' # "off"
      /\ UNCHANGED <<phase, entry, mode, pc, loc>>
  BY DEF RecCommitRelease, RecCommitRowsDone, RecCommitArchive, RecCommitObject,
     RecCommitRow, RecAt, RecGoto, RecCommitPCs, journalVars, procVars, workVars
<1> DEFINE a == rec.att
<1>2. rpc \in AtEntry
  BY <1>1, EntrySides
<1>3. PICK o \in Objects : o = entry[a].obj
  BY <1>2, AtHandHolds
<1>4. /\ a \in OpenAttempts \ rec.queue /\ a \in Attempts /\ a \in PhysicalOf(o)
      /\ EntryHolds(a) /\ ObjectHolds(o)
  BY <1>1, <1>2, <1>3, AtHandHolds
<1>5. rec.queue \subseteq OpenAttempts /\ entry'[a] = entry[a]
  BY <1>1 DEF LedgerInv, RecoveryHolds
<1>6. /\ \A b \in Attempts : entry[b].arch \in Nat
      /\ \A q \in Objects : arch[q] \in Nat
  BY ArchiveNumbers
<1>7. ASSUME NEW p \in Payloads, RecCommitRow(p) PROVE LedgerInv'
  <2>1. /\ rpc = "cm_row" /\ rpc' = "cm_release" /\ UNCHANGED <<object, arch>>
        /\ rows' = [rows EXCEPT ![o][p] = "none"]
        /\ rec' = [rec EXCEPT !.todo = @ \ {p}, !.cur = p]
    BY <1>3, <1>7 DEF RecCommitRow, RecAt, DeleteReplica
  <2>0. rec'.todo = rec.todo \ {p} /\ rec'.att = a /\ rec'.queue = rec.queue
    BY <2>1, RecTyped DEF RecoveryLocals
  <2>2. /\ \A q \in Objects \ {o} : Rows(q)' = Rows(q)
        /\ Rows(o)' = Rows(o) \ {p}
    BY <2>1 DEF Rows, TypeInv, TypeOK, StoreTypeOK
  <2>3. ObjectHolds(o)'
    BY <1>1, <1>4, <1>6, <2>1, <2>2, CommittedRows
  <2>4. EntryHolds(rec.att)'
    BY <1>3, <1>4, <1>5, <2>0, <2>1, <2>2 DEF EntryHolds
  <2> QED
    BY <1>1, <1>4, <1>5, <2>0, <2>1, <2>2, <2>3, <2>4, RecKeeps DEF SameOrHolds
<1>8. CASE RecCommitRelease
  <2>1. /\ rpc = "cm_release" /\ rpc' = "cm_row" /\ UNCHANGED <<object, rows, arch>>
        /\ rec'.todo = rec.todo /\ rec'.att = a /\ rec'.queue = rec.queue
    BY <1>8, RecTyped DEF RecCommitRelease, RecAt
  <2>2. EntryHolds(rec.att)'
    BY <1>3, <1>4, <1>5, <2>1, RowsSame DEF EntryHolds
  <2> QED
    BY <1>1, <1>4, <1>5, <2>1, <2>2, RowsSame, RecKeeps DEF SameOrHolds
<1>9. CASE RecCommitRowsDone
  <2>1. /\ rpc = "cm_row" /\ rpc' = "cm_arch" /\ UNCHANGED <<object, rows, arch, rec>>
        /\ rec.todo = {}
    BY <1>9 DEF RecCommitRowsDone, RecAt, RecGoto, storeVars
  <2>2. EntryHolds(rec.att)'
    BY <1>3, <1>4, <1>5, <2>1, RowsSame DEF EntryHolds
  <2> QED
    BY <1>1, <1>2, <2>1, <2>2, RecLedger
<1>10. CASE RecCommitArchive
  <2>1. /\ rpc = "cm_arch" /\ rpc' = "cm_obj" /\ UNCHANGED <<object, rows, rec>>
        /\ arch' = [arch EXCEPT ![o] =
                      IF @ > entry[a].arch THEN @ - entry[a].arch ELSE 0]
    BY <1>3, <1>10 DEF RecCommitArchive, RecAt, RecGoto
  <2>2. arch[o] <= entry[a].arch
    BY <1>4 DEF ObjectHolds, CommitTakes, Lists
  <2>3. ~(arch[o] > entry[a].arch)
    BY <1>4, <1>6, <2>2
  <2>4. (\A q \in Objects \ {o} : arch'[q] = arch[q]) /\ arch'[o] = 0
    BY <2>1, <2>3 DEF TypeInv, TypeOK, StoreTypeOK
  <2>5. 0 \in Nat /\ 0 <= arch[o]
    BY <1>6
  <2>6. ObjectHolds(o)'
    BY <1>1, <1>4, <1>6, <2>1, <2>4, <2>5, RowsSame, CommittedRows
  <2>7. EntryHolds(rec.att)'
    BY <1>3, <1>4, <1>5, <2>1, <2>4, RowsSame DEF EntryHolds
  <2> QED
    BY <1>1, <1>4, <1>5, <2>1, <2>4, <2>6, <2>7, RowsSame, RecKeeps DEF SameOrHolds
<1>11. CASE RecCommitObject
  <2> DEFINE row == [object[o] EXCEPT !.state = "RECLAIMED"]
  <2>1. /\ rpc = "cm_obj" /\ rpc' = "cm_resv" /\ UNCHANGED <<rows, arch, rec>>
        /\ UpdateObject(o, row)
    BY <1>3, <1>11 DEF RecCommitObject, RecAt, RecGoto
  <2>2. row.state = "RECLAIMED"
    BY ObjectTyped DEF ObjectRow
  <2> HIDE DEF row
  <2>3. /\ \A q \in Objects \ {o} : object'[q] = object[q]
        /\ object'[o].state = "RECLAIMED"
    BY <2>1, <2>2, UpdateFrame
  <2>4. Rows(o) = {} /\ arch[o] = 0
    BY <1>3, <1>4, <2>1 DEF EntryHolds
  <2>5. arch[o] <= arch[o]
    BY <1>6
  <2>6. ObjectHolds(o)'
    BY <1>1, <1>4, <1>6, <2>1, <2>3, <2>4, <2>5, RowsSame, CommittedRows
  <2>7. EntryHolds(rec.att)'
    BY <2>1 DEF EntryHolds
  <2> QED
    BY <1>1, <1>4, <1>5, <2>1, <2>3, <2>6, <2>7, RowsSame, RecKeeps DEF SameOrHolds
<1> QED
  BY <1>7, <1>8, <1>9, <1>10, <1>11

\* The entry at hand is closed.
LEMMA ClosesLedger ==
  ASSUME TypeInv, JournalInv, RecoveryInv, PayloadInv, LedgerInv, mode # "up",
         \/ RollbackReservation \/ RollbackAttempt \/ RollbackJournal
         \/ RecCommitReservation \/ RecCommitAttempt \/ RecCommitJournal
  PROVE  LedgerInv'
<1>1. /\ rpc \in AtEntry /\ rpc # "off" /\ rpc' # "off"
      /\ UNCHANGED <<object, rows, arch, entry, mode, pc, loc>>
  BY DEF RollbackReservation, RollbackAttempt, RollbackJournal, RecCommitReservation,
     RecCommitAttempt, RecCommitJournal, RecReservation, RecAttempt, RecJournal, RecAt,
     RecGoto, EntryFails, AtEntry, EntryPCs, storeVars, procVars, workVars
<1>2. CASE RollbackReservation \/ RollbackAttempt \/ RecCommitReservation \/ RecCommitAttempt
  <2>1. UNCHANGED phase
    BY <1>2 DEF RollbackReservation, RollbackAttempt, RecCommitReservation,
       RecCommitAttempt, RecReservation, RecAttempt
  <2>2. CASE EntryFails
    BY <1>1, <2>1, <2>2, FailsLedger
  <2>3. CASE ~EntryFails
    <3>1. UNCHANGED rec /\ rpc' \in {"rb_att", "rb_jrnl", "cm_att", "cm_jrnl"}
      BY <1>2, <2>3 DEF RollbackReservation, RollbackAttempt, RecCommitReservation,
         RecCommitAttempt, RecReservation, RecAttempt, RecGoto
    <3> QED
      BY <1>1, <2>1, <3>1, RecLedger
  <2> QED
    BY <2>2, <2>3
<1>3. CASE RollbackJournal \/ RecCommitJournal
  <2>1. PICK s \in {"ROLLED_BACK", "COMMITTED"} :
          /\ phase' = [phase EXCEPT ![rec.att] = s] /\ rpc' = "next" /\ UNCHANGED rec
    BY <1>3 DEF RollbackJournal, RecCommitJournal, RecJournal, RecGoto, UpdateJournalPhase
  <2>2. rec.att \in Attempts /\ rec.att \in OpenAttempts \ rec.queue
    BY <1>1, AtHandHolds
  <2>3. /\ phase'[rec.att] = s
        /\ \A b \in Attempts \ {rec.att} : phase'[b] = phase[b]
    BY <2>1, <2>2 DEF TypeInv, TypeOK, JournalTypeOK
  <2>4. s \notin OpenPhases \cup PhysicalPhases
    BY DEF OpenPhases, PrePhysical, PhysicalPhases
  <2>5. OpenAttempts' = OpenAttempts \ {rec.att}
    BY <2>2, <2>3, <2>4 DEF OpenAttempts
  <2>6. ASSUME NEW o \in Objects PROVE ObjectHolds(o)'
    <3>1. EntriesOf(o)' \subseteq EntriesOf(o) /\ PhysicalOf(o)' \subseteq PhysicalOf(o)
      BY <1>1, <2>2, <2>3, <2>4, <2>5 DEF EntriesOf, PhysicalOf
    <3>2. ObjectHolds(o) /\ Rows(o)' = Rows(o) /\ \A b : EntryRows(b)' = EntryRows(b)
      BY <1>1, RowsSame DEF LedgerInv, EntryRows
    <3> QED
      BY <1>1, <3>1, <3>2 DEF ObjectHolds, CommitTakes, RollbackGives, Lists
  <2>7. \A w \in Workers : pc[w] \in {"idle", "recover"}
    BY <1>1, AllIdle
  <2>8. \A w \in Workers : Holds(pc[w], loc[w])'
    BY <1>1, <2>7, IdleHolds
  <2>9. RecoveryHolds'
    <3>1. "next" \notin AtEntry
      BY EntrySides
    <3> QED
      BY <2>1, <2>2, <2>5, <3>1 DEF LedgerInv, RecoveryHolds
  <2>10. \A b \in Attempts : phase'[b] # "NONE" => entry'[b].prior.state # "NONE"
    BY <1>1, <2>2, <2>3, AtHandHolds DEF LedgerInv
  <2> QED
    BY <2>6, <2>8, <2>9, <2>10 DEF LedgerInv
<1> QED
  BY <1>2, <1>3

\* Nobody is at work, and if the process serves no entry is open.
LEMMA RestsLedger ==
  ASSUME LedgerInv, UNCHANGED <<object, rows, arch, phase, entry>>,
         \A w \in Workers : pc'[w] \in {"idle", "recover"},
         mode' = "up" => OpenAttempts = {},
         rpc' \notin AtEntry, rec'.queue = {}
  PROVE  LedgerInv'
<1>1. ASSUME NEW o \in Objects PROVE ObjectHolds(o)'
  <2>1. /\ EntriesOf(o)' = EntriesOf(o) /\ PhysicalOf(o)' = PhysicalOf(o)
        /\ Rows(o)' = Rows(o) /\ \A b : EntryRows(b)' = EntryRows(b)
    BY RowsSame DEF EntriesOf, PhysicalOf, OpenAttempts, EntryRows
  <2>2. mode' = "up" => EntriesOf(o) = {} /\ PhysicalOf(o) = {}
    BY DEF EntriesOf, PhysicalOf, OpenAttempts, OpenPhases, PhysicalPhases
  <2>3. ObjectHolds(o)
    BY DEF LedgerInv
  <2> QED
    BY <2>1, <2>2, <2>3 DEF ObjectHolds, CommitTakes, RollbackGives, Lists
<1>2. \A w \in Workers : Holds(pc[w], loc[w])'
  BY IdleHolds
<1>3. RecoveryHolds'
  BY DEF RecoveryHolds
<1> QED
  BY <1>1, <1>2, <1>3 DEF LedgerInv

LEMMA RecoveryLedger ==
  ASSUME TypeInv, JournalInv, RecoveryInv, PayloadInv, LedgerInv, RecoveryStep
  PROVE  LedgerInv'
<1>1. rpc # "off" /\ mode # "up" /\ (RecEnd \/ UNCHANGED <<mode, pc, loc>>)
  BY RecoveryOutside DEF PayloadInv
<1>2. CASE RecScan
  <2>1. /\ rpc' = "next" /\ rec'.queue = OpenAttempts
        /\ UNCHANGED <<object, rows, arch, phase, entry, mode, pc, loc>>
    BY <1>2, RecTyped DEF RecScan, RecoveryLocals, storeVars, journalVars, procVars, workVars
  <2>2. "next" \notin AtEntry
    BY EntrySides
  <2> QED
    BY <1>1, <2>1, <2>2, RowsSame, RecKeeps DEF SameOrHolds
<1>3. CASE RecQueueEmpty
  <2>1. /\ rpc' = "expire" /\ rec' = rec
        /\ UNCHANGED <<object, rows, arch, phase, entry, mode, pc, loc>>
    BY <1>3 DEF RecQueueEmpty, RecGoto, storeVars, journalVars, procVars, workVars
  <2> QED
    BY <1>1, <2>1, EntrySides, RecLedger
<1>4. CASE RecExpire
  <2>1. Abandoned = {}
    BY DEF Abandoned, JournalInv, JournalCovers
  <2>2. object' = [o \in Objects |-> object[o]]
    BY <1>4, <2>1 DEF RecExpire
  <2>3. object' = object
    BY <2>2 DEF TypeInv, TypeOK, StoreTypeOK
  <2>4. /\ rpc' = "repair" /\ rec' = rec
        /\ UNCHANGED <<rows, arch, phase, entry, mode, pc, loc>>
    BY <1>4 DEF RecExpire, RecGoto, procVars, workVars
  <2> QED
    BY <1>1, <2>3, <2>4, EntrySides, RecLedger
<1>5. CASE RecRepair
  <2>1. UNCHANGED <<object, rows, arch, phase, entry, mode, pc, loc>>
    BY <1>5 DEF RecRepair, journalVars, procVars, workVars
  <2>2. CASE RecoveryFails
    BY <1>1, <2>1, <2>2, FailsLedger
  <2>3. CASE ~RecoveryFails
    <3>1. rpc' = "lineage" /\ rec' = rec
      BY <1>5, <2>3 DEF RecRepair, RecGoto
    <3> QED
      BY <1>1, <2>1, <3>1, EntrySides, RecLedger
  <2> QED
    BY <2>2, <2>3
<1>6. CASE RecLineage
  <2>1. /\ rpc' = "end" /\ rec'.queue = rec.queue
        /\ UNCHANGED <<object, rows, arch, phase, entry, mode, pc, loc>>
    BY <1>6, RecTyped DEF RecLineage, RecGoto, RecoveryLocals, storeVars, journalVars,
       procVars, workVars
  <2> QED
    BY <1>1, <2>1, EntrySides, RecLedger
<1>7. CASE RecEnd
  <2>1. /\ mode = "starting" /\ rpc = "end" /\ rec.by = None /\ rpc' = "off"
        /\ rec' = NoRecovery /\ mode' = (IF rec.err THEN "down" ELSE "up")
        /\ UNCHANGED <<pc, loc, object, rows, arch, phase, entry>>
    BY <1>1, <1>7 DEF RecEnd, RecAt, RecoveryInv, TypeInv, TypeOK, ProcTypeOK, storeVars,
       journalVars
  <2>2. mode' = "up" => OpenAttempts = {}
    BY <2>1, EntrySides DEF RecoveryInv, RecoveryCovers
  <2>3. rpc' \notin AtEntry /\ rec'.queue = {}
    BY <2>1, EntrySides DEF NoRecovery
  <2>4. \A w \in Workers : pc[w] \in {"idle", "recover"}
    BY <1>1, AllIdle
  <2> QED
    BY <2>1, <2>2, <2>3, <2>4, RestsLedger
<1>8. CASE RecStoreError
  <2>1. UNCHANGED <<object, rows, arch, phase, entry, mode, pc, loc>>
    BY <1>8 DEF RecStoreError, storeVars, journalVars, procVars, workVars
  <2>2. \/ EntryFails \/ RecoveryFails
        \/ rpc = "cm_release" /\ rpc' = "cm_row" /\ rec' = [rec EXCEPT !.cur = None]
    BY <1>8, Zenon DEF RecStoreError
  <2>3. CASE EntryFails \/ RecoveryFails
    BY <1>1, <2>1, <2>3, FailsLedger
  <2>4. CASE rpc = "cm_release" /\ rpc' = "cm_row" /\ rec' = [rec EXCEPT !.cur = None]
    <3>1. rec'.att = rec.att /\ rec'.queue = rec.queue /\ rec'.todo = rec.todo
      BY <2>4, RecTyped DEF RecoveryLocals
    <3>2. rpc \in AtEntry
      BY <2>4 DEF AtEntry
    <3>3. rec.att \in OpenAttempts \ rec.queue /\ EntryHolds(rec.att)
      BY <3>2, AtHandHolds
    <3>4. EntryHolds(rec.att)'
      BY <2>1, <2>4, <3>1, <3>3, RowsSame DEF EntryHolds
    <3>5. rec'.queue \subseteq OpenAttempts
      BY <3>1 DEF LedgerInv, RecoveryHolds
    <3> QED
      BY <1>1, <2>1, <2>4, <3>1, <3>3, <3>4, <3>5, RowsSame, RecKeeps DEF SameOrHolds
  <2> QED
    BY <2>2, <2>3, <2>4
<1>9. CASE RecRepairPartial
  <2>1. UNCHANGED <<object, rows, arch, phase, entry, mode, pc, loc>>
    BY <1>9 DEF RecRepairPartial, journalVars, procVars, workVars
  <2>2. EntryFails \/ RecoveryFails
    BY <1>9, Zenon DEF RecRepairPartial
  <2> QED
    BY <1>1, <2>1, <2>2, FailsLedger
<1>10. ASSUME NEW a \in Attempts, RecBackendError(a) PROVE LedgerInv'
  <2>1. /\ rpc = "next" /\ rpc' = "next" /\ rec'.queue = rec.queue \ {a}
        /\ UNCHANGED <<object, rows, arch, phase, entry, mode, pc, loc>>
    BY <1>10, RecTyped DEF RecBackendError, RecAt, RecoveryLocals, storeVars, journalVars,
       procVars, workVars
  <2> QED
    BY <1>1, <2>1, EntrySides, RecLedger
<1>11. ASSUME NEW a \in Attempts, RecNext(a) PROVE LedgerInv'
  BY <1>1, <1>11, EntryStarts
<1>12. CASE \/ RollbackObject \/ RollbackRowsDone \/ RollbackArchive \/ RollbackRepair
            \/ \E p \in Payloads : RollbackRow(p) \/ RollbackRowConflict(p)
  BY <1>1, <1>12, RollbackLedger
<1>13. CASE \/ RecCommitRelease \/ RecCommitRowsDone \/ RecCommitArchive \/ RecCommitObject
            \/ \E p \in Payloads : RecCommitRow(p)
  BY <1>1, <1>13, RecCommitLedger
<1>14. CASE \/ RollbackReservation \/ RollbackAttempt \/ RollbackJournal
            \/ RecCommitReservation \/ RecCommitAttempt \/ RecCommitJournal
  BY <1>1, <1>14, ClosesLedger
<1> QED
  BY <1>2, <1>3, <1>4, <1>5, <1>6, <1>7, <1>8, <1>9, <1>10, <1>11, <1>12, <1>13, <1>14
  DEF RecoveryStep

-----------------------------------------------------------------------------
(* The process, and the theorem. *)

LEMMA StillLedger ==
  ASSUME LedgerInv, UNCHANGED <<object, rows, arch, phase, entry, mode, pc, loc, rpc, rec>>
  PROVE  LedgerInv'
BY RowsSame DEF LedgerInv, ObjectHolds, CommitTakes, RollbackGives, Lists, EntriesOf,
   PhysicalOf, OpenAttempts, EntryRows, Holds, RecoveryHolds, EntryHolds

LEMMA ProcessLedger ==
  ASSUME TypeInv, JournalInv, LedgerInv, Process
  PROVE  LedgerInv'
<1>1. CASE Start
  <2>1. /\ mode = "down" /\ mode' = "starting" /\ rpc' = "scan" /\ rec' = NoRecovery
        /\ UNCHANGED <<pc, loc, object, rows, arch, phase, entry>>
    BY <1>1 DEF Start, workVars, storeVars, journalVars
  <2>2. \A w \in Workers : pc[w] \in {"idle", "recover"}
    BY <2>1, AllIdle
  <2>3. rpc' \notin AtEntry /\ rec'.queue = {}
    BY <2>1, EntrySides DEF NoRecovery
  <2> QED
    BY <2>1, <2>2, <2>3, RestsLedger
<1>2. CASE Vanish
  <2>1. /\ mode' = "down" /\ rpc' = "off" /\ rec' = NoRecovery
        /\ \A w \in Workers : pc'[w] = "idle"
        /\ UNCHANGED <<object, rows, arch, phase, entry>>
    BY <1>2 DEF Vanish, storeVars, journalVars
  <2>2. rpc' \notin AtEntry /\ rec'.queue = {}
    BY <2>1, EntrySides DEF NoRecovery
  <2> QED
    BY <2>1, <2>2, RestsLedger
<1>3. CASE RequestShutdown \/ HeartbeatThreadError
  BY <1>3, StillLedger DEF RequestShutdown, HeartbeatThreadError, storeVars,
     journalVars, workVars, recVars
<1> QED
  BY <1>1, <1>2, <1>3 DEF Process, Exit, Crash

LEMMA InitLedger == Init => LedgerInv
<1> SUFFICES ASSUME Init PROVE LedgerInv
  OBVIOUS
<1>1. OpenAttempts = {} /\ \A a \in Attempts : phase[a] = "NONE"
  BY DEF Init, OpenAttempts, OpenPhases, PrePhysical, PhysicalPhases
<1>2. ASSUME NEW o \in Objects PROVE ObjectHolds(o)
  <2>1. EntriesOf(o) = {} /\ PhysicalOf(o) = {}
    <3>1. "NONE" \notin PhysicalPhases
      BY DEF PhysicalPhases, OpenPhases
    <3>2. EntriesOf(o) = {}
      BY <1>1 DEF EntriesOf
    <3>3. PhysicalOf(o) = {}
      BY <1>1, <3>1 DEF PhysicalOf
    <3> QED
      BY <3>2, <3>3
  <2>2. object[o].state \in {"NONE", "CREATED", "HOT"}
    BY DEF Init, NoObject
  <2> QED
    BY <2>1, <2>2 DEF ObjectHolds, CommitTakes, RollbackGives
<1>3. ASSUME NEW w \in Workers PROVE Holds(pc[w], loc[w])
  <2>1. pc[w] = "idle"
    BY DEF Init
  <2> QED
    BY <2>1 DEF Holds, BeforePCs, PendingPCs, ReleasingPCs, ClosedPCs, RecordedPCs,
       ReclaimPCs, CommitPCs, AbortPCs, CreatePCs, ArchivePCs
<1>4. RecoveryHolds
  <2>1. rpc = "off" /\ rec.queue = {}
    BY DEF Init, NoRecovery
  <2> QED
    BY <2>1, EntrySides DEF RecoveryHolds
<1> QED
  BY <1>1, <1>2, <1>3, <1>4 DEF LedgerInv

LEMMA NextLedger ==
  ASSUME "recover" \notin Requests
  PROVE  TypeInv /\ JournalInv /\ RecoveryInv /\ PayloadInv /\ LedgerInv /\ [Next]_vars
           => LedgerInv'
<1> SUFFICES ASSUME TypeInv, JournalInv, RecoveryInv, PayloadInv, LedgerInv, [Next]_vars
             PROVE  LedgerInv'
  OBVIOUS
<1>1. CASE UNCHANGED vars \/ \E p \in Payloads : Corrupt(p)
  BY <1>1, StillLedger DEF vars, Corrupt, storeVars, journalVars, procVars,
     workVars, recVars
<1> QED
  BY <1>1, RequestLedger, WorkerLedger, FaultLedger, RecoveryLedger, ProcessLedger DEF Next

LEMMA AlwaysLedger ==
  ASSUME "recover" \notin Requests
  PROVE  Spec => []LedgerInv
<1>1. Init => LedgerInv
  BY InitLedger
<1>2. TypeInv /\ JournalInv /\ RecoveryInv /\ PayloadInv /\ LedgerInv /\ [Next]_vars
        => LedgerInv'
  BY NextLedger
<1> QED
  BY <1>1, <1>2, AlwaysSound, AlwaysPayloads, PTL DEF Spec

(* delete_reclaimed_metadata removes the replica and archive records that the *)
(* journal entry lists, and commit_after_crash does the same after a restart. *)
(* An object ends as RECLAIMED only with all of them gone, and nothing brings *)
(* one back: whatever a second open entry of the object lists, left behind by *)
(* an abort that failed, the entry committed lists too (CommitTakes), and a   *)
(* rollback first makes the object live again.                                *)
THEOREM ReclaimedHoldsNothing ==
  ASSUME "recover" \notin Requests
  PROVE  Spec => []ReclaimedOwnsNothing
<1>1. LedgerInv => ReclaimedOwnsNothing
  BY DEF LedgerInv, ObjectHolds, ReclaimedOwnsNothing, Dead
<1> QED
  BY <1>1, AlwaysLedger, PTL

-----------------------------------------------------------------------------
(* The copies of objects that must keep some. *)

Durable(o) == MinValidCopies[Class[o]] # 0

\* Every payload of the registration has a row of the object and is intact.
Intact(o) == Targets[o] \subseteq {p \in Rows(o) : blob[p] = "ok"}

\* The steps of a registration that has not failed.
StoredPCs == {"create_lock", "create_ref", "create_write", "create_insert",
              "create_row", "publish"}

\* At step c with local variables l: what is done is stored, and what is not
\* done is left to do.
Stored(c, l) ==
  /\ c \in StoredPCs => /\ Targets[l.obj] \subseteq l.todo \cup l.done
                        /\ \A p \in l.done : blob[p] = "ok"
  /\ c = "publish" => Targets[l.obj] \subseteq l.done
  /\ c \in {"create_insert", "create_row"} => blob[l.cur] = "ok"

CopiesInv ==
  /\ \A o \in Objects : Durable(o) /\ object[o].state # "NONE" => Intact(o)
  /\ \A w \in Workers : Stored(pc[w], loc[w])

LEMMA NotStored ==
  ASSUME NEW c, c \notin StoredPCs, NEW l
  PROVE  Stored(c, l)
BY DEF Stored, StoredPCs

LEMMA StoredSides ==
  /\ StoredPCs \subseteq CreatePCs
  /\ StoredPCs \cap ({"idle", "recover", "undo", "undo_lock", "create_unref",
                      "create_unblob", "abort", "fence"} \cup ReclaimPCs \cup ArchivePCs
                      \cup VerifyPCs \cup FlagOps \cup UndoingPCs) = {}
BY DEF StoredPCs, CreatePCs, ReclaimPCs, ArchivePCs, VerifyPCs, FlagOps, UndoingPCs,
   CommitPCs, AbortPCs

\* A payload at hand is guarded, and nobody's copy but the own object's, which
\* is not registered yet or may lose all its copies.
LEMMA AtHandGuarded ==
  ASSUME TypeInv, JournalInv, RecoveryInv, PayloadInv, LedgerInv,
         NEW w \in Workers, NEW p \in Payloads, mode = "up", AtHand(w, p)
  PROVE  /\ p \in loc[w].held
         /\ pc[w] \in CreatePCs => Owners(p) = {}
         /\ \A o \in Owners(p) : ~Durable(o) /\ o = loc[w].obj
<1>1. Facts(pc[w], loc[w]) /\ Covered(p)
  BY DEF PayloadInv
<1>2. p \in loc[w].held
  BY <1>1 DEF AtHand, Facts, Guarded, StoringPCs, UndoingPCs, LockedPCs
<1>3. pc[w] # "delete" => Owners(p) = {}
  <2> SUFFICES ASSUME pc[w] # "delete" PROVE Owners(p) = {}
    OBVIOUS
  <2>1. dedup[p] = 0
    BY <1>1 DEF AtHand, Facts, Unreferenced, UndoingPCs
  <2> QED
    BY <1>1, <2>1, NoOwner DEF Covered
<1>4. "delete" \notin CreatePCs /\ "delete" \in ReclaimPCs
  BY DEF CreatePCs, ReclaimPCs
<1>5. ASSUME NEW o \in Owners(p) PROVE ~Durable(o) /\ o = loc[w].obj
  <2>1. pc[w] = "delete" /\ o = loc[w].obj
    BY <1>3, <1>5, OnlyOwner
  <2>2. loc[w].att \in Attempts /\ entry[loc[w].att].obj = o /\ phase[loc[w].att] # "NONE"
    BY <1>4, <2>1 DEF JournalInv, WorkerOwns
  <2> QED
    BY <2>1, <2>2 DEF RecoveryInv, EntrySound, Durable
<1> QED
  BY <1>2, <1>3, <1>4, <1>5

\* A step of one request, seen from the copies.
LEMMA CopiesStep ==
  ASSUME TypeInv, JournalInv, RecoveryInv, PayloadInv, LedgerInv, CopiesInv,
         NEW w \in Workers, WorkStep(w), PayloadStep(w), Touches(w),
         NEW o \in Objects, o = loc[w].obj,
         Durable(o) /\ object'[o].state # "NONE"
           => \/ object[o].state # "NONE" /\ Rows(o) \subseteq Rows(o)'
              \/ Intact(o)',
         Stored(pc[w], loc[w])'
  PROVE  CopiesInv'
<1>1. mode = "up" /\ \A v \in Workers \ {w} : pc'[v] = pc[v] /\ loc'[v] = loc[v]
  BY DEF PayloadStep
<1>2. ASSUME NEW p \in Payloads, blob'[p] # blob[p]
      PROVE  /\ p \in loc[w].held /\ AtHand(w, p)
             /\ \A q \in Owners(p) : ~Durable(q) /\ q = loc[w].obj
  <2>1. AtHand(w, p)
    BY <1>2 DEF Touches
  <2> QED
    BY <1>1, <2>1, AtHandGuarded
<1>3. ASSUME NEW q \in Objects, Durable(q), object[q].state # "NONE", Rows(q) \subseteq Rows(q)'
      PROVE  Intact(q)'
  <2>1. ASSUME NEW p \in Targets[q] PROVE p \in Rows(q)' /\ blob'[p] = "ok"
    <3>1. p \in Rows(q) /\ p \in Payloads /\ blob[p] = "ok"
      BY <1>3, <2>1 DEF CopiesInv, Intact, Rows
    <3>2. q \in Owners(p)
      BY <3>1 DEF Rows, Owners
    <3> QED
      BY <1>2, <1>3, <3>1, <3>2
  <2> QED
    BY <2>1 DEF Intact
<1>4. ASSUME NEW q \in Objects, Durable(q), object'[q].state # "NONE"
      PROVE  Intact(q)'
  <2>1. CASE q = o
    BY <1>3, <1>4, <2>1
  <2>2. CASE q # o
    <3>1. object'[q] = object[q]
      BY <2>2 DEF WorkStep, WritesObject
    <3>2. Rows(q)' = Rows(q)
      BY <2>2 DEF PayloadStep, Rows
    <3> QED
      BY <1>3, <1>4, <3>1, <3>2
  <2> QED
    BY <2>1, <2>2
<1>5. ASSUME NEW v \in Workers PROVE Stored(pc[v], loc[v])'
  <2>1. CASE v = w
    BY <2>1
  <2>2. CASE v # w /\ pc[v] \notin StoredPCs
    <3>1. pc'[v] \notin StoredPCs
      BY <1>1, <2>2
    <3> QED
      BY <3>1 DEF Stored, StoredPCs
  <2>3. CASE v # w /\ pc[v] \in StoredPCs
    <3> DEFINE c == pc[v]
               l == loc[v]
    <3>1. /\ c' = c /\ l' = l /\ Stored(c, l) /\ Facts(c, l)
          /\ l.held \cap loc[w].held = {}
      BY <1>1, <2>3 DEF CopiesInv, PayloadInv
    <3>2. l.obj \in Objects /\ l.obj # loc[w].obj
      BY <2>3, StoredSides, NoRecoveryNow, Disjoint
    <3>3. ASSUME NEW p \in l.done PROVE blob'[p] = "ok"
      <4>1. blob[p] = "ok" /\ p \in Rows(l.obj)
        BY <2>3, <3>1, <3>3, StoredSides DEF Stored, Facts, RowsThere
      <4>2. p \in Payloads /\ l.obj \in Owners(p)
        BY <3>2, <4>1 DEF Rows, Owners
      <4> QED
        BY <1>2, <3>2, <4>1, <4>2
    <3>4. ASSUME c \in {"create_insert", "create_row"} PROVE blob'[l.cur] = "ok"
      <4>1. blob[l.cur] = "ok" /\ l.cur \in l.held
        BY <3>1, <3>4 DEF Stored, Facts, Guarded, StoringPCs
      <4>2. l.cur \in Payloads /\ l.cur \notin loc[w].held
        BY <3>1, <4>1, LocalsFields
      <4> QED
        BY <1>2, <4>1, <4>2
    <3> QED
      BY <3>1, <3>3, <3>4 DEF Stored
  <2> QED
    BY <2>1, <2>2, <2>3
<1> QED
  BY <1>4, <1>5 DEF CopiesInv

LEMMA FailStored ==
  ASSUME TypeInv, NEW w \in Workers, StepFails(w)
  PROVE  pc'[w] \notin StoredPCs
<1>1. ErrorTarget(w) \in {"idle", "undo", "undo_lock", "create_unref", "create_unblob",
                          "arc_unrow", "arc_unblob", "abort", "fence"}
  BY Zenon DEF ErrorTarget
<1>2. ErrorTarget(w) \notin StoredPCs /\ "idle" \notin StoredPCs
  BY <1>1 DEF StoredPCs
<1>3. CASE ErrorTarget(w) = "idle"
  BY <1>2, <1>3, ReturnOwns DEF StepFails
<1>4. CASE ErrorTarget(w) # "idle"
  BY <1>2, <1>4, GotoFrame DEF StepFails
<1> QED
  BY <1>3, <1>4

\* Rows and objects stay: failing steps, flags, verify and archive.
SparesRows ==
  \A o \in Objects :
    /\ object'[o].state = "NONE" <=> object[o].state = "NONE"
    /\ Rows(o) \subseteq Rows(o)'

LEMMA SparesCopies ==
  ASSUME TypeInv, JournalInv, RecoveryInv, PayloadInv, LedgerInv, CopiesInv,
         NEW w \in Workers, WorkStep(w), PayloadStep(w), Touches(w),
         SparesRows, pc'[w] \notin StoredPCs
  PROVE  CopiesInv'
<1>1. PICK o \in Objects : o = loc[w].obj
  BY NoRecoveryNow DEF WorkStep
<1>2. Stored(pc[w], loc[w])'
  BY DEF Stored, StoredPCs
<1>3. Durable(o) /\ object'[o].state # "NONE"
        => object[o].state # "NONE" /\ Rows(o) \subseteq Rows(o)'
  BY DEF SparesRows
<1> QED
  BY <1>1, <1>2, <1>3, CopiesStep

LEMMA CreateCopies ==
  ASSUME TypeInv, JournalInv, RecoveryInv, PayloadInv, LedgerInv, CopiesInv,
         NEW w \in Workers, CreateStep(w)
  PROVE  CopiesInv'
<1>0. WorkStep(w) /\ PayloadStep(w) /\ Touches(w) /\ mode = "up"
  BY CreateWork, CreatePayloads, CreateTouches DEF PayloadStep
<1>1. PICK o \in Objects : o = loc[w].obj
  BY <1>0, NoRecoveryNow DEF WorkStep
<1>2. /\ Facts(pc[w], loc[w]) /\ Stored(pc[w], loc[w])
      /\ pc[w] \in CreatePCs => object[o].state = "NONE"
  BY <1>1 DEF PayloadInv, CopiesInv, LedgerInv, Holds
<1>3. ASSUME pc[w] \in CreatePCs, object' = object, Stored(pc[w], loc[w])'
      PROVE  CopiesInv'
  BY <1>0, <1>1, <1>2, <1>3, CopiesStep
<1>4. ASSUME NEW p \in loc[w].done, pc[w] \in CreatePCs
      PROVE  p \in Payloads /\ p \in Rows(o) /\ blob'[p] = blob[p]
  <2>1. p \in Rows(o)
    BY <1>1, <1>2, <1>4 DEF Facts, RowsThere
  <2>2. p \in Payloads /\ Owners(p) # {}
    BY <2>1 DEF Rows, Owners
  <2>3. ~AtHand(w, p)
    BY <1>0, <1>4, <2>2, AtHandGuarded
  <2> QED
    BY <1>0, <2>1, <2>2, <2>3 DEF Touches
<1>5. CASE CreateLock(w)
  <2> DEFINE r == [loc[w] EXCEPT !.held = loc[w].todo]
  <2>1. /\ pc[w] = "create_lock" /\ object' = object /\ pc'[w] = "create_ref"
        /\ loc'[w] = r
    BY <1>5, GotoFrame, LocalsFrame DEF CreateLock, storeVars
  <2>2. r.obj = loc[w].obj /\ r.todo = loc[w].todo /\ r.done = loc[w].done
    BY LocalsFields DEF Locals
  <2>3. Stored(pc[w], loc[w])'
    BY <1>2, <1>4, <2>1, <2>2 DEF Stored, StoredPCs, CreatePCs
  <2> QED
    BY <1>3, <2>1, <2>3 DEF CreatePCs
<1>6. ASSUME NEW p \in Payloads, CreateAcquire(w, p) \/ CreateMiss(w, p) PROVE CopiesInv'
  <2> DEFINE r == [loc[w] EXCEPT !.cur = p]
  <2>1. /\ pc[w] = "create_ref" /\ object' = object /\ blob' = blob
        /\ pc'[w] = "create_write" \/ (pc'[w] = "create_row" /\ blob[p] = "ok")
        /\ loc'[w] = r
    BY <1>6, GotoFrame, LocalsFrame DEF CreateAcquire, CreateMiss, storeVars, physVars
  <2>2. /\ r.obj = loc[w].obj /\ r.todo = loc[w].todo /\ r.done = loc[w].done
        /\ r.cur = p
    BY LocalsFields DEF Locals
  <2>3. Stored(pc[w], loc[w])'
    BY <1>2, <2>1, <2>2 DEF Stored, StoredPCs
  <2> QED
    BY <1>3, <2>1, <2>3 DEF CreatePCs
<1>7. CASE CreateWrite(w)
  <2>1. /\ pc[w] = "create_write" /\ object' = object /\ loc' = loc
        /\ blob' = [blob EXCEPT ![loc[w].cur] = "ok"] /\ pc'[w] = "create_insert"
    BY <1>7, GotoFrame DEF CreateWrite, storeVars
  <2>2. loc[w].cur \in Payloads
    BY <1>2, <2>1, LocalsFields DEF Facts, Guarded, StoringPCs
  <2>3. blob'[loc[w].cur] = "ok"
    BY <2>1, <2>2 DEF TypeInv, TypeOK, PhysTypeOK
  <2>4. Stored(pc[w], loc[w])'
    BY <1>2, <1>4, <2>1, <2>3 DEF Stored, StoredPCs, CreatePCs
  <2> QED
    BY <1>3, <2>1, <2>4 DEF CreatePCs
<1>8. CASE CreateInsert(w)
  <2>1. /\ pc[w] = "create_insert" /\ object' = object /\ loc' = loc /\ blob' = blob
        /\ pc'[w] = "create_row"
    BY <1>8, GotoFrame DEF CreateInsert, physVars
  <2>2. Stored(pc[w], loc[w])'
    BY <1>2, <2>1 DEF Stored, StoredPCs
  <2> QED
    BY <1>3, <2>1, <2>2 DEF CreatePCs
<1>9. CASE CreateRow(w)
  <2> DEFINE p == loc[w].cur
             left == loc[w].todo \ {p}
             r == [loc[w] EXCEPT !.todo = left, !.done = @ \cup {p}, !.cur = None,
                                 !.held = IF left = {} THEN {} ELSE @]
  <2>1. /\ pc[w] = "create_row" /\ object' = object /\ blob' = blob
        /\ pc'[w] = (IF left = {} THEN "publish" ELSE "create_ref")
        /\ loc'[w] = r
    BY <1>9, GotoFrame, LocalsFrame DEF CreateRow, physVars
  <2>2. r.obj = loc[w].obj /\ r.todo = left /\ r.done = loc[w].done \cup {p}
    BY LocalsFields DEF Locals
  <2>3. Stored(pc[w], loc[w])'
    BY <1>2, <2>1, <2>2 DEF Stored, StoredPCs
  <2> QED
    BY <1>3, <2>1, <2>3 DEF CreatePCs
<1>10. CASE Publish(w)
  <2>1. /\ pc[w] = "publish" /\ rows' = rows /\ blob' = blob /\ pc'[w] = "idle"
    BY <1>10, ReturnOwns DEF Publish, physVars
  <2>2. Intact(o)
    BY <1>1, <1>2, <1>4, <2>1 DEF Stored, StoredPCs, Intact, CreatePCs
  <2>3. Intact(o)'
    BY <2>1, <2>2, RowsSame DEF Intact
  <2>4. Stored(pc[w], loc[w])'
    BY <2>1 DEF Stored, StoredPCs
  <2> QED
    BY <1>0, <1>1, <2>3, <2>4, CopiesStep
<1>11. ASSUME pc[w] \in CreatePCs, object' = object, pc'[w] \notin StoredPCs
       PROVE  CopiesInv'
  <2>1. Stored(pc[w], loc[w])'
    BY <1>11 DEF Stored, StoredPCs
  <2> QED
    BY <1>3, <1>11, <2>1
<1>12. CASE CreateLockFails(w) \/ UndoLockFails(w) \/ UndoReturn(w)
  <2>1. pc[w] \in CreatePCs /\ object' = object /\ Return(w)
    BY <1>12 DEF CreateLockFails, UndoLockFails, UndoReturn, storeVars, CreatePCs
  <2> QED
    BY <1>11, <2>1, ReturnOwns, StoredSides
<1>13. CASE \/ \E p \in Payloads : CreateRefuse(w, p) \/ UndoRow(w, p)
            \/ CreateUnref(w) \/ CreateUnblob(w) \/ UndoLock(w) \/ UndoEnter(w)
            \/ UndoRelease(w) \/ UndoLeave(w)
  <2>1. /\ pc[w] \in CreatePCs /\ object' = object
        /\ \E c \in {"undo", "create_unblob"} \cup UndoingPCs : Goto(w, c)
    BY <1>13 DEF CreateRefuse, UndoRow, CreateUnref, CreateUnblob, UndoLock, UndoEnter,
       UndoRelease, UndoLeave, storeVars, CreatePCs, UndoingPCs
  <2> QED
    BY <1>11, <2>1, GotoFrame, StoredSides
<1>14. CASE \E p \in Payloads : UndoBlob(w, p)
  BY <1>11, <1>14, StoredSides DEF UndoBlob, storeVars, CreatePCs, UndoingPCs
<1> QED
  BY <1>5, <1>6, <1>7, <1>8, <1>9, <1>10, <1>12, <1>13, <1>14 DEF CreateStep

LEMMA OtherCopies ==
  ASSUME TypeInv, JournalInv, RecoveryInv, PayloadInv, LedgerInv, CopiesInv,
         NEW w \in Workers, VerifyStep(w) \/ ArchiveStep(w) \/ FlagWrite(w)
  PROVE  CopiesInv'
<1>0. WorkerStep(w)
  BY DEF WorkerStep
<1>1. WorkStep(w) /\ PayloadStep(w) /\ Touches(w)
  BY <1>0, WorkerWork, WorkerPayloads, RequestTouches
<1>2. PICK o \in Objects : o = loc[w].obj
  BY <1>1, NoRecoveryNow DEF WorkStep
<1>3. CASE VerifyStep(w)
  <2>1. SameLedger /\ object' = object /\ pc'[w] \in VerifyPCs \cup {"idle"}
    BY <1>3, VerifySame
  <2> QED
    BY <1>1, <2>1, StoredSides, SparesCopies DEF SameLedger, SparesRows
<1>4. CASE FlagWrite(w)
  <2> DEFINE row == [loc[w].seen EXCEPT !.flags = FlagResult(pc[w], @)]
  <2>1. rows' = rows /\ pc[w] \in FlagOps /\ Return(w) /\ UpdateObject(o, row)
    BY <1>2, <1>4 DEF FlagWrite
  <2>2. row.state = loc[w].seen.state
    BY LocalsFields DEF ObjectRow
  <2>3. loc[w].seen.state = object[o].state
    BY <1>2, <2>1 DEF JournalInv, WorkerOrder
  <2>4. object'[o] = row /\ \A q \in Objects \ {o} : object'[q] = object[q]
    BY <2>1, UpdateFrame
  <2> HIDE DEF row
  <2>5. SparesRows
    BY <2>1, <2>2, <2>3, <2>4, RowsSame DEF SparesRows
  <2> QED
    BY <1>1, <2>1, <2>5, ReturnOwns, StoredSides, SparesCopies
<1>5. CASE ArchiveStep(w)
  <2>1. rows' = rows /\ pc[w] \in ArchivePCs /\ pc'[w] \in ArchivePCs \cup {"idle"}
    BY <1>5, GotoFrame, ReturnOwns
    DEF ArchiveStep, ArchiveWrite, ArchiveInsert, ArchivePublish, ArchiveUnrow,
        ArchiveUnblob, ArchivePCs, storeVars
  <2>2. object[o].state # "NONE"
    BY <1>2, <2>1 DEF LedgerInv, Holds
  <2>3. \A q \in Objects : object'[q].state = "NONE" <=> object[q].state = "NONE"
    <3>1. CASE ArchivePublish(w)
      <4> DEFINE row == [loc[w].seen EXCEPT !.state = "ARCHIVED"]
      <4>1. UpdateObject(o, row) /\ row.state = "ARCHIVED"
        BY <1>2, <3>1, LocalsFields DEF ArchivePublish, ObjectRow
      <4>2. object'[o] = row /\ \A q \in Objects \ {o} : object'[q] = object[q]
        BY <4>1, UpdateFrame
      <4> QED
        BY <2>2, <4>1, <4>2
    <3>2. CASE ~ArchivePublish(w)
      <4>1. object' = object
        BY <1>5, <3>2 DEF ArchiveStep, ArchiveWrite, ArchiveInsert, ArchiveUnrow,
           ArchiveUnblob, storeVars
      <4> QED
        BY <4>1
    <3> QED
      BY <3>1, <3>2
  <2> QED
    BY <1>1, <2>1, <2>3, RowsSame, StoredSides, SparesCopies DEF SparesRows
<1> QED
  BY <1>3, <1>4, <1>5

\* A reclaim has an object that may lose its copies.
LEMMA ReclaimCopies ==
  ASSUME TypeInv, JournalInv, RecoveryInv, PayloadInv, LedgerInv, CopiesInv,
         NEW w \in Workers, ReclaimStep(w)
  PROVE  CopiesInv'
<1>1. WorkerStep(w)
  BY DEF WorkerStep
<1>2. WorkStep(w) /\ PayloadStep(w) /\ Touches(w)
  BY <1>1, WorkerWork, WorkerPayloads, RequestTouches
<1>3. PICK o \in Objects : o = loc[w].obj
  BY <1>2, NoRecoveryNow DEF WorkStep
<1>4. pc[w] \in ReclaimPCs
  BY ReclaimPC
<1>5. ~Durable(o)
  <2>1. loc[w].att \in Attempts /\ entry[loc[w].att].obj = o /\ phase[loc[w].att] # "NONE"
    BY <1>3, <1>4 DEF JournalInv, WorkerOwns
  <2> QED
    BY <2>1 DEF RecoveryInv, EntrySound, Durable
<1>6. pc'[w] \in ReclaimPCs \cup {"idle"}
  BY <1>2, <1>4, ReclaimSides DEF WorkStep, Returns, GoesOn
<1>7. Stored(pc[w], loc[w])'
  <2>1. pc'[w] \notin StoredPCs
    BY <1>6, StoredSides
  <2> QED
    BY <2>1 DEF Stored, StoredPCs
<1> QED
  BY <1>2, <1>3, <1>5, <1>7, CopiesStep

\* A step that fails leaves the registration.
LEMMA FaultStored ==
  ASSUME TypeInv, NEW w \in Workers, WorkerFault(w) \/ AuthorityError(w)
  PROVE  pc'[w] \notin StoredPCs
<1>1. CASE AuthorityError(w) \/ StatementError(w) \/ EntryHeartbeatError(w)
  BY <1>1, FailStored DEF AuthorityError, StatementError, EntryHeartbeatError
<1>2. CASE WriteError(w) \/ ReadError(w) \/ ArchiveError(w)
  <2>1. pc'[w] \in {"undo", "fence", "idle"}
    BY <1>2, GotoFrame, ReturnOwns DEF WriteError, ReadError, ArchiveError
  <2> QED
    BY <2>1 DEF StoredPCs
<1>3. ASSUME NEW p \in Payloads, DeleteError(w, p) PROVE pc'[w] \notin StoredPCs
  <2>1. Goto(w, "undo") \/ Goto(w, "fence") \/ Return(w)
    BY <1>3, Zenon DEF DeleteError
  <2>2. pc'[w] \in {"undo", "fence", "idle"}
    BY <2>1, GotoFrame, ReturnOwns
  <2> QED
    BY <2>2 DEF StoredPCs
<1>4. ASSUME NEW p \in Payloads, VerifyReadError(w, p) PROVE pc'[w] \notin StoredPCs
  BY <1>4, GotoFrame DEF VerifyReadError, StoredPCs
<1> QED
  BY <1>1, <1>2, <1>3, <1>4 DEF WorkerFault

LEMMA FaultCopies ==
  ASSUME TypeInv, JournalInv, RecoveryInv, PayloadInv, LedgerInv, CopiesInv,
         NEW w \in Workers, WorkerFault(w) \/ AuthorityError(w)
  PROVE  CopiesInv'
<1>1. WorkStep(w) /\ PayloadStep(w) /\ Touches(w)
  BY FaultWork, WorkerWork, FaultPayloads, WorkerPayloads, RequestTouches DEF WorkerStep
<1>2. object' = object /\ rows' = rows
  BY Zenon DEF WorkerFault, AuthorityError, StatementError, EntryHeartbeatError, WriteError,
     ReadError, ArchiveError, DeleteError, VerifyReadError, storeVars
<1>3. SparesRows
  BY <1>2, RowsSame DEF SparesRows
<1>4. pc'[w] \notin StoredPCs
  BY FaultStored
<1> QED
  BY <1>1, <1>3, <1>4, SparesCopies

LEMMA RequestCopies ==
  ASSUME TypeInv, JournalInv, CopiesInv, NEW w \in Workers, Request(w)
  PROVE  CopiesInv'
<1>1. UNCHANGED <<object, rows, blob>> /\ pc[w] = "idle"
  BY Zenon DEF Request, FlagBegin, CreateBegin, Reserve, VerifyBegin, ArchiveBegin,
     AddLineage, RemoveLineage, RecoverRequest, storeVars, physVars
<1>2. ASSUME NEW o \in Objects PROVE Intact(o)' <=> Intact(o)
  BY <1>1, RowsSame DEF Intact
<1>3. ASSUME \A v \in Workers \ {w} : pc'[v] = pc[v] /\ loc'[v] = loc[v],
             Stored(pc[w], loc[w])'
      PROVE  CopiesInv'
  <2>1. ASSUME NEW v \in Workers PROVE Stored(pc[v], loc[v])'
    BY <1>1, <1>3 DEF CopiesInv, Stored
  <2> QED
    BY <1>1, <1>2, <2>1 DEF CopiesInv
<1>4. ASSUME NEW c, Goto(w, c), c \notin StoredPCs,
             \/ \E l : SetLocals(w, l)
             \/ UNCHANGED loc
      PROVE  CopiesInv'
  <2>1. \A v \in Workers \ {w} : pc'[v] = pc[v] /\ loc'[v] = loc[v]
    BY <1>4, GotoFrame, LocalsFrame
  <2>2. pc'[w] \notin StoredPCs
    BY <1>4, GotoFrame
  <2>3. Stored(pc[w], loc[w])'
    BY <2>2 DEF Stored, StoredPCs
  <2> QED
    BY <1>3, <2>1, <2>3
<1>5. ASSUME NEW o \in Objects, NEW kind \in FlagOps, FlagBegin(w, o, kind)
      PROVE  CopiesInv'
  BY <1>4, <1>5, StoredSides DEF FlagBegin
<1>6. ASSUME NEW o \in Objects, CreateBegin(w, o) PROVE CopiesInv'
  <2> DEFINE r == [loc[w] EXCEPT !.obj = o, !.todo = Targets[o]]
  <2>1. /\ pc'[w] = (IF Targets[o] = {} THEN "publish" ELSE "create_lock")
        /\ loc'[w] = r
        /\ \A v \in Workers \ {w} : pc'[v] = pc[v] /\ loc'[v] = loc[v]
    BY <1>6, GotoFrame, LocalsFrame DEF CreateBegin
  <2>2. r.obj = o /\ r.todo = Targets[o] /\ r.done = {}
    BY <1>1, IdleHasNone, LocalsFields DEF Locals, NoLocals
  <2>3. Stored(pc[w], loc[w])'
    BY <2>1, <2>2 DEF Stored, StoredPCs
  <2> QED
    BY <1>3, <2>1, <2>3
<1>7. ASSUME NEW o \in Objects, NEW a \in Attempts, Reserve(w, o, a) PROVE CopiesInv'
  <2>1. \E c \in {"recomputable", "validate", "pending"} : Goto(w, c)
    BY <1>7, Zenon DEF Reserve
  <2>2. {"recomputable", "validate", "pending"} \cap StoredPCs = {}
    BY DEF StoredPCs
  <2> QED
    BY <1>4, <1>7, <2>1, <2>2 DEF Reserve
<1>8. ASSUME NEW o \in Objects, VerifyBegin(w, o) \/ ArchiveBegin(w, o) PROVE CopiesInv'
  <2>1. "ver_lock" \notin StoredPCs /\ "arc_write" \notin StoredPCs
    BY DEF StoredPCs
  <2> QED
    BY <1>4, <1>8, <2>1 DEF VerifyBegin, ArchiveBegin
<1>9. CASE RecoverRequest(w)
  BY <1>4, <1>9, StoredSides DEF RecoverRequest
<1>10. CASE \E e \in EdgeChoices : AddLineage(w, e) \/ RemoveLineage(w, e)
  <2>1. UNCHANGED <<pc, loc>>
    BY <1>10 DEF AddLineage, RemoveLineage
  <2> QED
    BY <1>1, <1>2, <2>1 DEF CopiesInv, Stored
<1> QED
  BY <1>5, <1>6, <1>7, <1>8, <1>9, <1>10 DEF Request

\* Four actions of recovery write object rows and replica rows; none of the
\* reservations expires, because those that are open have an open entry.
LEMMA RecoveryRecords ==
  ASSUME TypeInv, JournalInv, RecoveryStep
  PROVE  \/ object' = object /\ rows' = rows
         \/ RollbackObject \/ RecCommitObject
         \/ \E p \in Payloads : RollbackRow(p) \/ RecCommitRow(p)
<1>1. CASE RecExpire
  <2>1. Abandoned = {}
    BY DEF Abandoned, JournalInv, JournalCovers
  <2>2. object' = [p \in Objects |-> object[p]] /\ rows' = rows
    BY <1>1, <2>1 DEF RecExpire
  <2> QED
    BY <2>2 DEF TypeInv, TypeOK, StoreTypeOK
<1>2. CASE RecScan \/ RecQueueEmpty \/ \E a \in Attempts : RecNext(a) \/ RecBackendError(a)
  BY <1>2, Zenon DEF RecScan, RecQueueEmpty, RecNext, RecBackendError, storeVars
<1>3. CASE \/ RollbackRowsDone \/ RollbackArchive \/ RollbackRepair
           \/ \E p \in Payloads : RollbackRowConflict(p)
  BY <1>3, Zenon DEF RollbackRowsDone, RollbackArchive, RollbackRepair,
     RollbackRowConflict, storeVars
<1>4. CASE \/ RollbackReservation \/ RollbackAttempt \/ RollbackJournal
           \/ RecCommitReservation \/ RecCommitAttempt \/ RecCommitJournal
  BY <1>4, Zenon DEF RollbackReservation, RollbackAttempt, RollbackJournal,
     RecCommitReservation, RecCommitAttempt, RecCommitJournal, RecReservation, RecAttempt,
     RecJournal, storeVars
<1>5. CASE RecCommitRelease \/ RecCommitRowsDone \/ RecCommitArchive
  BY <1>5, Zenon DEF RecCommitRelease, RecCommitRowsDone, RecCommitArchive, storeVars
<1>6. CASE RecRepair \/ RecLineage \/ RecEnd \/ RecStoreError \/ RecRepairPartial
  BY <1>6, Zenon DEF RecRepair, RecLineage, RecEnd, RecStoreError, RecRepairPartial,
     storeVars
<1> QED
  BY <1>1, <1>2, <1>3, <1>4, <1>5, <1>6 DEF RecoveryStep

\* Recovery changes the state and the rows of objects of entries only.
LEMMA RecoverySpares ==
  ASSUME TypeInv, JournalInv, RecoveryInv, RecoveryStep, NEW o \in Objects, Durable(o)
  PROVE  object'[o].state = object[o].state /\ Rows(o)' = Rows(o)
<1> DEFINE q == entry[rec.att].obj
<1>1. ASSUME rpc \in AtEntry PROVE q \in Objects /\ q # o
  <2>1. rec.att \in Attempts /\ phase[rec.att] # "NONE" /\ q \in Objects
    BY <1>1, EntryAtHand
  <2> QED
    BY <2>1 DEF RecoveryInv, EntrySound, Durable
<1>2. CASE object' = object /\ rows' = rows
  BY <1>2, RowsSame
<1>3. CASE RollbackObject \/ RecCommitObject
  <2>1. /\ rpc \in AtEntry /\ rows' = rows
        /\ \E r : object' = [object EXCEPT ![q] = r]
    BY <1>3 DEF RollbackObject, RecCommitObject, UpdateObject, RecAt, AtEntry, EntryPCs
  <2> QED
    BY <1>1, <2>1, RowsSame DEF TypeInv, TypeOK, StoreTypeOK
<1>4. CASE \E p \in Payloads : RollbackRow(p) \/ RecCommitRow(p)
  <2>1. /\ rpc \in AtEntry /\ object' = object
        /\ \E p, r : rows' = [rows EXCEPT ![q][p] = r]
    BY <1>4 DEF RollbackRow, RecCommitRow, WriteReplica, DeleteReplica, RecAt, AtEntry,
       EntryPCs
  <2>2. rows'[o] = rows[o]
    BY <1>1, <2>1 DEF TypeInv, TypeOK, StoreTypeOK
  <2> QED
    BY <2>1, <2>2 DEF Rows
<1> QED
  BY <1>2, <1>3, <1>4, RecoveryRecords

\* Nobody registers, and the copies stay.
LEMMA IdleCopies ==
  ASSUME CopiesInv, blob' = blob, \A w \in Workers : pc'[w] \notin StoredPCs,
         \A o \in Objects : Durable(o) => /\ object'[o].state = object[o].state
                                          /\ Rows(o)' = Rows(o)
  PROVE  CopiesInv'
<1>1. ASSUME NEW o \in Objects, Durable(o), object'[o].state # "NONE" PROVE Intact(o)'
  BY <1>1 DEF CopiesInv, Intact
<1>2. ASSUME NEW w \in Workers PROVE Stored(pc[w], loc[w])'
  BY <1>2 DEF Stored, StoredPCs
<1> QED
  BY <1>1, <1>2 DEF CopiesInv

LEMMA NextCopies ==
  ASSUME "recover" \notin Requests, MaxCorruptions = 0
  PROVE  TypeInv /\ JournalInv /\ RecoveryInv /\ PayloadInv /\ LedgerInv /\ CopiesInv
           /\ [Next]_vars => CopiesInv'
<1> SUFFICES ASSUME TypeInv, JournalInv, RecoveryInv, PayloadInv, LedgerInv, CopiesInv,
                    [Next]_vars
             PROVE  CopiesInv'
  OBVIOUS
<1>1. ASSUME UNCHANGED <<object, rows, blob, pc, loc>> PROVE CopiesInv'
  BY <1>1, RowsSame DEF CopiesInv, Intact, Stored
<1>2. CASE UNCHANGED vars
  BY <1>1, <1>2 DEF vars, storeVars, physVars, workVars
<1>3. ASSUME NEW w \in Workers, WorkerStep(w) PROVE CopiesInv'
  BY <1>3, CreateCopies, ReclaimCopies, OtherCopies, FaultCopies DEF WorkerStep
<1>4. CASE RecoveryStep
  <2>1. /\ rpc # "off" /\ blob' = blob /\ (RecEnd \/ UNCHANGED pc)
    BY <1>4, RecoveryOutside
  <2>2. \A w \in Workers : pc[w] \in {"idle", "recover"}
    BY <2>1, AllIdle
  <2>3. \A w \in Workers : pc'[w] \in {"idle", "recover"}
    <3>1. CASE UNCHANGED pc
      BY <2>2, <3>1
    <3>2. CASE RecEnd
      <4>1. UNCHANGED pc \/ pc' = [pc EXCEPT ![rec.by] = "idle"]
        BY <3>2, Zenon DEF RecEnd, Return, Goto
      <4> QED
        BY <2>2, <4>1 DEF TypeInv, TypeOK, WorkTypeOK
    <3> QED
      BY <2>1, <3>1, <3>2
  <2> QED
    BY <1>4, <2>1, <2>3, RecoverySpares, StoredSides, IdleCopies
<1>5. CASE Process
  <2>1. UNCHANGED <<object, rows, blob>> /\ (UNCHANGED <<pc, loc>> \/ \A w \in Workers : pc'[w] = "idle")
    BY <1>5 DEF Process, Start, Exit, Crash, Vanish, RequestShutdown,
       HeartbeatThreadError, storeVars, physVars, workVars
  <2> QED
    BY <1>1, <2>1, RowsSame, StoredSides, IdleCopies
<1>6. ASSUME NEW p \in Payloads, Corrupt(p) PROVE FALSE
  <2>1. budget.corrupt \in 0 .. 0
    BY DEF TypeInv, TypeOK, Budget
  <2> QED
    BY <1>6, <2>1 DEF Corrupt
<1> QED
  BY <1>2, <1>3, <1>4, <1>5, <1>6, RequestCopies, FaultCopies DEF Next

LEMMA InitCopies == Init => CopiesInv
<1> SUFFICES ASSUME Init PROVE CopiesInv
  OBVIOUS
<1>1. ASSUME NEW o \in Objects, object[o].state # "NONE" PROVE Intact(o)
  <2>1. o \in InitialObjects /\ Targets[o] \subseteq Payloads
    BY <1>1, ConstantsAssumption DEF ConstantsAssumption, Init, NoObject
  <2> QED
    BY <2>1 DEF Init, Intact, Rows
<1>2. ASSUME NEW w \in Workers PROVE Stored(pc[w], loc[w])
  BY <1>2, StoredSides, NotStored DEF Init
<1> QED
  BY <1>1, <1>2 DEF CopiesInv

(* object.rs min_valid_copies: store_payload refuses a registration with fewer *)
(* copies than its class needs, reclaim one of a class that must keep some,    *)
(* and a payload is deleted only by the last object that refers to it.  As     *)
(* long as no payload rots on its backend, a registered object therefore has   *)
(* its minimum of copies in intact payloads, whatever fails or crashes: from   *)
(* the moment it is published, every payload it was registered with is there.  *)
THEOREM DurableKeepsCopies ==
  ASSUME "recover" \notin Requests, MaxCorruptions = 0
  PROVE  Spec => []DurableCopiesKept
<1>1. Init => CopiesInv
  BY InitCopies
<1>2. TypeInv /\ JournalInv /\ RecoveryInv /\ PayloadInv /\ LedgerInv /\ CopiesInv
        /\ [Next]_vars => CopiesInv'
  BY NextCopies
<1>3. CopiesInv => DurableCopiesKept
  <2> SUFFICES ASSUME CopiesInv, NEW o \in Registered
               PROVE  Cardinality({p \in Rows(o) : blob[p] = "ok"}) >= MinValidCopies[Class[o]]
    BY DEF DurableCopiesKept
  <2> DEFINE S == {p \in Rows(o) : blob[p] = "ok"}
             n == MinValidCopies[Class[o]]
  <2>1. o \in Objects /\ object[o].state # "NONE"
    BY DEF Registered
  <2>2. IsFiniteSet(Payloads) /\ n \in Nat /\ Cardinality(Targets[o]) >= n
    BY <2>1, ConstantsAssumption, TargetsAssumption
    DEF ConstantsAssumption, TargetsAssumption, MinValidCopies, DurabilityClasses
  <2>3. IsFiniteSet(S)
    BY <2>2, FS_Subset DEF Rows
  <2>4. Cardinality(S) \in Nat
    BY <2>3, FS_CardinalityType
  <2>5. CASE Durable(o)
    <3>1. Targets[o] \subseteq S
      BY <2>1, <2>5 DEF CopiesInv, Intact
    <3>2. IsFiniteSet(Targets[o]) /\ Cardinality(Targets[o]) <= Cardinality(S)
      BY <2>3, <3>1, FS_Subset
    <3>3. Cardinality(Targets[o]) \in Nat
      BY <3>2, FS_CardinalityType
    <3> QED
      BY <2>2, <2>4, <3>2, <3>3
  <2>6. CASE ~Durable(o)
    BY <2>4, <2>6 DEF Durable
  <2> QED
    BY <2>5, <2>6
<1> QED
  BY <1>1, <1>2, <1>3, AlwaysSound, AlwaysPayloads, AlwaysLedger, PTL DEF Spec
==============================================================================
