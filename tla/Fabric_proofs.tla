---------------------------- MODULE Fabric_proofs ----------------------------
(***************************************************************************)
(* What the node registry and the node's epoch keep for any number of        *)
(* coordinators and nodes, whatever their names, and whatever requests are   *)
(* late, calls time out, audit entries fail and nodes stop.                  *)
(***************************************************************************)
EXTENDS Fabric, TLAPS

\* A node has no epoch until it is registered, and has let in no operation of an
\* epoch above the one it has.
EpochsFollowed ==
  \A n \in Nodes :
    /\ accepted[n] <= nepoch[n]
    /\ nmode[n] \in {"off", "starting"} => nepoch[n] = 0

\* A step that takes no node back to an earlier epoch.
NeverBack == \A n \in Nodes : nepoch'[n] >= nepoch[n] /\ accepted'[n] >= accepted[n]

Inv == TypeOK /\ RegistryConsistent /\ EpochsFollowed

Registry == [Coords -> [Nodes -> {"none", "fresh", "expired"}]]
CallRecord == [to : Coords \cup {None}, job : Jobs, reply : Nat \cup {None}]

-----------------------------------------------------------------------------
(* Empty registries and nodes that were not started satisfy the invariant.   *)
LEMMA InitInv == Init => Inv
<1> SUFFICES ASSUME Init PROVE Inv
  OBVIOUS
<1>1. call \in [Nodes -> CallRecord]
  BY DEF Init, NoCall, CallRecord, Jobs
<1>2. TypeOK
  BY <1>1, FabricAssumption DEF Init, FencingInit, TypeOK, FencingTypeOK, NoEpoch,
     CallRecord
<1>3. RegistryConsistent
  BY DEF Init, RegistryConsistent, NamesUnique, PressureOfRegistered
<1>4. EpochsFollowed
  BY DEF Init, EpochsFollowed, NoEpoch
<1> QED
  BY <1>2, <1>3, <1>4 DEF Inv

-----------------------------------------------------------------------------
(* The registry. *)

\* What TypeOK says of the registry.
RegistryTyped == reg \in Registry /\ pressure \in [Coords -> SUBSET Nodes]

(* Dropping registrations with their pressure, as retire_stale_nodes does,   *)
(* keeps the registry consistent.                                            *)
LEMMA DropConsistent ==
  ASSUME RegistryTyped, RegistryConsistent,
         NEW c \in Coords, NEW S \in SUBSET Nodes, Drop(c, S)
  PROVE  RegistryTyped' /\ RegistryConsistent'
<1> USE DEF RegistryTyped, Registry
<1> DEFINE row == [n \in Nodes |-> IF n \in S THEN "none" ELSE reg[c][n]]
<1>1. reg' = [reg EXCEPT ![c] = row] /\ pressure' = [pressure EXCEPT ![c] = @ \ S]
  BY DEF Drop
<1>2. RegistryTyped'
  BY <1>1
<1>3. \A d \in Coords, n \in Nodes :
        /\ reg'[d][n] # "none" => reg[d][n] # "none"
        /\ n \in pressure'[d] => n \in pressure[d] /\ (d = c => n \notin S)
        /\ (d = c => n \notin S) => reg'[d][n] = reg[d][n]
  BY <1>1
<1>4. NamesUnique'
  BY <1>3 DEF RegistryConsistent, NamesUnique
<1>5. PressureOfRegistered'
  BY <1>2, <1>3 DEF RegistryConsistent, PressureOfRegistered
<1> QED
  BY <1>2, <1>4, <1>5 DEF RegistryConsistent

(* node_register retires what has expired, and takes the name only when no   *)
(* other live registration has it.                                           *)
LEMMA RegisterConsistent ==
  ASSUME RegistryTyped, RegistryConsistent,
         NEW c \in Coords, NEW n \in Nodes, Register(c, n)
  PROVE  RegistryTyped' /\ RegistryConsistent'
<1> USE DEF RegistryTyped, Registry
<1> DEFINE old == Expired(c)
           held == NameHeld(c, n, old)
           row == [m \in Nodes |-> IF m = n /\ ~held THEN "fresh"
                                   ELSE IF m \in old THEN "none" ELSE reg[c][m]]
<1>1. reg' = [reg EXCEPT ![c] = row] /\ pressure' = [pressure EXCEPT ![c] = @ \ old]
  BY DEF Register
<1>2. old \subseteq Nodes
  BY DEF Expired
<1>3. held <=> \E m \in Nodes \ (old \cup {n}) : Name[m] = Name[n] /\ reg[c][m] # "none"
  BY DEF NameHeld
<1> HIDE DEF old, held
<1>4. RegistryTyped'
  BY <1>1
<1>5. \A m \in Nodes : reg'[c][m] = row[m]
  BY <1>1
<1>6. \A d \in Coords : d # c => reg'[d] = reg[d] /\ pressure'[d] = pressure[d]
  BY <1>1
<1>7. \A m \in Nodes : m # n /\ reg'[c][m] # "none" => m \notin old /\ reg[c][m] # "none"
  BY <1>5
<1>8. held /\ reg'[c][n] # "none" => n \notin old /\ reg[c][n] # "none"
  BY <1>5
<1>9. \A l, m \in Nodes :
        Name[l] = Name[m] /\ reg'[c][l] # "none" /\ reg'[c][m] # "none" => l = m
  <2> SUFFICES ASSUME NEW l \in Nodes, NEW m \in Nodes, Name[l] = Name[m],
                      reg'[c][l] # "none", reg'[c][m] # "none", l # m
               PROVE  FALSE
    OBVIOUS
  <2>1. CASE l # n /\ m # n
    BY <2>1, <1>7 DEF RegistryConsistent, NamesUnique
  <2>2. CASE l = n
    BY <2>2, <1>3, <1>7, <1>8 DEF RegistryConsistent, NamesUnique
  <2>3. CASE m = n
    BY <2>3, <1>3, <1>7, <1>8 DEF RegistryConsistent, NamesUnique
  <2> QED
    BY <2>1, <2>2, <2>3
<1>10. NamesUnique'
  BY <1>6, <1>9 DEF RegistryConsistent, NamesUnique
<1>11. \A m \in pressure'[c] : reg'[c][m] # "none"
  <2> SUFFICES ASSUME NEW m \in pressure'[c] PROVE reg'[c][m] # "none"
    OBVIOUS
  <2>1. m \in Nodes /\ m \in pressure[c] /\ m \notin old
    BY <1>1
  <2>2. reg[c][m] # "none"
    BY <2>1 DEF RegistryConsistent, PressureOfRegistered
  <2> QED
    BY <1>5, <2>1, <2>2
<1>12. PressureOfRegistered'
  BY <1>6, <1>11 DEF RegistryConsistent, PressureOfRegistered
<1> QED
  BY <1>4, <1>10, <1>12 DEF RegistryConsistent

(* A request of a node that is served, on time or late, keeps the registry   *)
(* consistent.                                                               *)
LEMMA HandleConsistent ==
  ASSUME RegistryTyped, RegistryConsistent,
         NEW c \in Coords, NEW n \in Nodes, NEW job \in Jobs, Handle(c, n, job)
  PROVE  RegistryTyped' /\ RegistryConsistent'
<1>1. CASE Register(c, n)
  BY <1>1, RegisterConsistent
<1>2. CASE Beat(c, n)
  <2>1. /\ RegistryTyped' /\ pressure' = pressure
        /\ \A d \in Coords, m \in Nodes : reg'[d][m] # "none" <=> reg[d][m] # "none"
    BY <1>2 DEF Beat, RegistryTyped, Registry
  <2> QED
    BY <2>1 DEF RegistryTyped, RegistryConsistent, NamesUnique, PressureOfRegistered
<1>3. CASE Report(c, n)
  <2>1. RegistryTyped' /\ reg' = reg
    BY <1>3 DEF Report, RegistryTyped
  <2>2. \A d \in Coords : \A m \in pressure'[d] :
          m \in pressure[d] \/ (d = c /\ m = n /\ reg[c][n] # "none")
    BY <1>3 DEF Report, RegistryTyped
  <2> QED
    BY <2>1, <2>2 DEF RegistryConsistent, NamesUnique, PressureOfRegistered
<1> QED
  BY <1>1, <1>2, <1>3 DEF Handle

(* Every step of coordinators and nodes keeps the registry consistent.       *)
LEMMA RegistryStep ==
  ASSUME TypeOK, RegistryConsistent, [Next]_vars
  PROVE  RegistryTyped' /\ RegistryConsistent'
<1>0. RegistryTyped
  BY DEF TypeOK, RegistryTyped, Registry
<1>1. CASE UNCHANGED <<reg, pressure>>
  BY <1>0, <1>1 DEF RegistryTyped, RegistryConsistent, NamesUnique,
     PressureOfRegistered
<1>2. ASSUME NEW c \in Coords, CoordStep(c)
      PROVE  RegistryTyped' /\ RegistryConsistent'
  <2>0. CASE AuthorityLost(c)
    BY <1>1, <2>0 DEF AuthorityLost, coordVars
  <2>1. CASE Start(c)
    BY <1>1, <2>1 DEF Start
  <2>2. CASE End(c)
    BY <1>0, <2>2 DEF End, RegistryTyped, Registry, RegistryConsistent, NamesUnique,
       PressureOfRegistered
  <2>3. CASE RetireStale(c)
    BY <1>0, <2>3, DropConsistent DEF RetireStale, Expired
  <2>4. ASSUME NEW r \in late, ServeLate(c, r)
        PROVE  RegistryTyped' /\ RegistryConsistent'
    <3>1. r.node \in Nodes /\ r.job \in Jobs
      BY DEF TypeOK, Request
    <3> QED
      BY <1>0, <2>4, <3>1, HandleConsistent DEF ServeLate
  <2>5. ASSUME NEW n \in Nodes, ServeCall(c, n)
        PROVE  RegistryTyped' /\ RegistryConsistent'
    <3>1. call[n].job \in Jobs
      BY DEF TypeOK
    <3> QED
      BY <1>0, <2>5, <3>1, HandleConsistent DEF ServeCall
  <2>6. ASSUME NEW n \in Nodes, AuditFails(c, n)
        PROVE  RegistryTyped' /\ RegistryConsistent'
    BY <1>0, <2>6, DropConsistent, RegisterConsistent DEF AuditFails, Expired
  <2>7. ASSUME NEW n \in Nodes, Lapse(c, n)
        PROVE  RegistryTyped' /\ RegistryConsistent'
    <3>1. /\ RegistryTyped' /\ pressure' = pressure
          /\ \A d \in Coords, m \in Nodes : reg'[d][m] # "none" <=> reg[d][m] # "none"
      BY <1>0, <2>7 DEF Lapse, RegistryTyped, Registry
    <3> QED
      BY <3>1 DEF RegistryTyped, RegistryConsistent, NamesUnique, PressureOfRegistered
  <2>8. ASSUME NEW n \in Nodes, RefuseCall(c, n) \/ NodeOperation(c, n)
        PROVE  RegistryTyped' /\ RegistryConsistent'
    BY <1>1, <2>8 DEF RefuseCall, NodeOperation, coordVars
  <2> QED
    BY <1>2, <2>0, <2>1, <2>2, <2>3, <2>4, <2>5, <2>6, <2>7, <2>8 DEF CoordStep
<1>3. ASSUME NEW n \in Nodes, NodeStep(n)
      PROVE  RegistryTyped' /\ RegistryConsistent'
  <2>1. UNCHANGED <<reg, pressure>>
    BY <1>3 DEF NodeStep, ConnectFails, BadReply, NextCall, Started, CycleEnds,
       CallBreaks, CallTimesOut, NodeStop, NodeStart, Connect, CycleFails, coordVars
  <2> QED
    BY <1>1, <2>1
<1>4. CASE (\E o \in ops : OperationServed(o)) \/ UNCHANGED vars
  BY <1>1, <1>4 DEF OperationServed, vars, coordVars
<1> QED
  BY <1>2, <1>3, <1>4 DEF Next

-----------------------------------------------------------------------------
(* Types. *)

(* A budget that is spent stays one.                                         *)
LEMMA SpendType ==
  ASSUME budget \in BudgetType,
         NEW k \in {"start", "lapse", "stop", "op", "fault"}, Spend(k)
  PROVE  budget' \in BudgetType
<1>1. budget[k] \in Nat /\ budget[k] - 1 \in Nat
  BY DEF BudgetType, Spend
<1>2. budget' = [budget EXCEPT ![k] = budget[k] - 1]
  BY DEF Spend
<1> QED
  BY <1>1, <1>2 DEF BudgetType

(* A reply to a call is an epoch or an error.                                *)
LEMMA SetReplyType ==
  ASSUME call \in [Nodes -> CallRecord], NEW n \in Nodes, NEW r \in Nat, SetReply(n, r)
  PROVE  call' \in [Nodes -> CallRecord]
<1>1. [call[n] EXCEPT !.reply = r] \in CallRecord
  BY DEF CallRecord
<1>2. call' = [call EXCEPT ![n] = [call[n] EXCEPT !.reply = r]]
  BY DEF SetReply
<1> QED
  BY <1>1, <1>2

(* A request is sent to a coordinator.                                       *)
LEMMA SendType ==
  ASSUME call \in [Nodes -> CallRecord], NEW n \in Nodes,
         NEW c \in Coords \cup {None}, NEW job \in Jobs, Send(n, c, job)
  PROVE  call' \in [Nodes -> CallRecord]
<1>1. [to |-> c, job |-> job, reply |-> None] \in CallRecord
  BY DEF CallRecord
<1> QED
  BY <1>1 DEF Send

(* The claim moves only as Fencing lets it.                                  *)
LEMMA FencingTyped ==
  ASSUME FencingTypeOK, NEW c \in Coords, Grant(c) \/ Admit(c) \/ UNCHANGED fencingVars
  PROVE  FencingTypeOK'
  BY DEF FencingTypeOK, Grant, Admit, fencingVars

(* Every step on the coordinators' side keeps the types.                     *)
LEMMA CoordType ==
  ASSUME TypeOK, RegistryTyped', NEW c \in Coords, CoordStep(c)
  PROVE  TypeOK'
<1>1. call \in [Nodes -> CallRecord] /\ grant \in [Coords -> Nat]
  BY DEF TypeOK, CallRecord, FencingTypeOK
<1>2. FencingTypeOK'
  <2>1. Grant(c) \/ Admit(c) \/ UNCHANGED fencingVars
    BY DEF CoordStep, Start, AuthorityLost, End, RetireStale, ServeLate, ServeCall, RefuseCall,
       AuditFails, Lapse, NodeOperation, Handle
  <2> QED
    BY <2>1, FencingTyped DEF TypeOK
<1>3. up' \in [Coords -> {"new", "up", "fenced", "gone"}]
  BY DEF CoordStep, Start, AuthorityLost, End, RetireStale, ServeLate, ServeCall, RefuseCall,
     AuditFails, Lapse, NodeOperation, coordVars, TypeOK
<1>4. late' \subseteq Request
  BY DEF CoordStep, Start, AuthorityLost, End, RetireStale, ServeLate, ServeCall, RefuseCall,
     AuditFails, Lapse, NodeOperation, coordVars, TypeOK
<1>5. call' \in [Nodes -> CallRecord]
  <2>1. CASE UNCHANGED call
    BY <1>1, <2>1
  <2>2. ASSUME NEW n \in Nodes, ServeCall(c, n) \/ RefuseCall(c, n) \/ AuditFails(c, n)
        PROVE  call' \in [Nodes -> CallRecord]
    <3>1. \E r \in Nat : SetReply(n, r)
      BY <1>1, <2>2 DEF ServeCall, RefuseCall, AuditFails, ReplyOf, ErrorReply
    <3> QED
      BY <1>1, <3>1, SetReplyType
  <2> QED
    BY <2>1, <2>2 DEF CoordStep, Start, AuthorityLost, End, RetireStale, ServeLate, Lapse,
       NodeOperation, nodeVars
<1>6. budget' \in BudgetType
  <2>1. \/ UNCHANGED budget
        \/ \E k \in {"start", "lapse", "stop", "op", "fault"} : Spend(k)
    BY DEF CoordStep, Start, AuthorityLost, End, RetireStale, ServeLate, ServeCall, RefuseCall,
       AuditFails, Lapse, NodeOperation
  <2> QED
    BY <2>1, SpendType DEF TypeOK
<1>7. ops' \subseteq [node : Nodes, epoch : Nat]
  BY <1>1 DEF CoordStep, Start, AuthorityLost, End, RetireStale, ServeLate, ServeCall, RefuseCall,
     AuditFails, Lapse, NodeOperation, TypeOK
<1>8. UNCHANGED <<nmode, nepoch, registered, accepted>>
  BY DEF CoordStep, Start, AuthorityLost, End, RetireStale, ServeLate, ServeCall, RefuseCall,
     AuditFails, Lapse, NodeOperation, nodeVars
<1> QED
  BY <1>2, <1>3, <1>4, <1>5, <1>6, <1>7, <1>8
     DEF TypeOK, RegistryTyped, Registry, CallRecord

(* Every step on a node's side keeps the types.                              *)
LEMMA NodeType ==
  ASSUME TypeOK, RegistryTyped', NEW n \in Nodes, NodeStep(n)
  PROVE  TypeOK'
<1>1. call \in [Nodes -> CallRecord]
  BY DEF TypeOK, CallRecord
<1>2. UNCHANGED <<fencingVars, up, accepted>>
  BY DEF NodeStep, ConnectFails, BadReply, NextCall, Started, CycleEnds, CallBreaks,
     CallTimesOut, NodeStop, NodeStart, Connect, CycleFails, coordVars
<1>3. FencingTypeOK'
  BY <1>2 DEF FencingTypeOK, fencingVars, TypeOK
<1>4. call[n] \in CallRecord /\ NoCall \in CallRecord
  BY <1>1 DEF NoCall, CallRecord, Jobs
<1>5. late' \subseteq Request
  <2>1. CASE CallAbandoned(n)
    <3>1. CASE late' = late
      BY <3>1 DEF TypeOK
    <3>2. CASE call[n].to \in Coords
      <4>1. [to |-> call[n].to, node |-> n, job |-> call[n].job] \in Request
        BY <1>4, <3>2 DEF CallRecord, Request
      <4> QED
        BY <2>1, <4>1 DEF CallAbandoned, TypeOK
    <3> QED
      BY <1>4, <2>1, <3>1, <3>2 DEF CallAbandoned, CallRecord
  <2>2. CASE UNCHANGED late
    BY <2>2 DEF TypeOK
  <2> QED
    BY <2>1, <2>2 DEF NodeStep, ConnectFails, BadReply, NextCall, Started, CycleEnds,
       CallBreaks, CallTimesOut, NodeStop, NodeStart, Connect, CycleFails, coordVars
<1>6. nmode' \in [Nodes -> {"off", "starting", "on", "gone"}]
  BY DEF NodeStep, ConnectFails, BadReply, NextCall, Started, CycleEnds, CallBreaks,
     CallTimesOut, NodeStop, NodeStart, Connect, CycleFails, TypeOK
<1>7. nepoch' \in [Nodes -> Nat]
  <2>1. CASE UNCHANGED nepoch
    BY <2>1 DEF TypeOK
  <2>2. CASE NextCall(n) \/ Started(n)
    <3>1. call[n].reply \in Nat
      BY <1>4, <2>2 DEF NextCall, Started, GoodReply, CallRecord
    <3> QED
      BY <2>2, <3>1 DEF NextCall, Started, TypeOK
  <2> QED
    BY <2>1, <2>2 DEF NodeStep, ConnectFails, BadReply, CycleEnds, CallBreaks,
       CallTimesOut, NodeStop, NodeStart, Connect, CycleFails
<1>8. registered' \in [Nodes -> BOOLEAN]
  <2>1. \/ UNCHANGED registered
        \/ \E b \in BOOLEAN : registered' = [registered EXCEPT ![n] = b]
    BY DEF NodeStep, ConnectFails, BadReply, NextCall, Started, CycleEnds, CallBreaks,
       CallTimesOut, NodeStop, NodeStart, Connect, CycleFails
  <2> QED
    BY <2>1 DEF TypeOK
<1>9. call' \in [Nodes -> CallRecord]
  <2>1. CASE UNCHANGED call
    BY <1>1, <2>1
  <2>2. CASE call' = [call EXCEPT ![n] = NoCall]
    BY <1>1, <1>4, <2>2
  <2>3. CASE \E c \in Coords \cup {None}, job \in Jobs : Send(n, c, job)
    BY <1>1, <2>3, SendType
  <2>4. CASE NextCall(n)
    <3>1. call[n].to \in Coords \cup {None}
      BY <1>4 DEF CallRecord
    <3> QED
      BY <2>3, <2>4, <3>1 DEF NextCall, Jobs
  <2>5. ASSUME NEW c \in Coords, NodeStart(n, c) \/ Connect(n, c)
        PROVE  call' \in [Nodes -> CallRecord]
    BY <2>3, <2>5 DEF NodeStart, Connect, Jobs
  <2> QED
    BY <2>1, <2>2, <2>4, <2>5 DEF NodeStep, ConnectFails, BadReply, Started, CycleEnds,
       CallBreaks, CallTimesOut, NodeStop, CycleFails
<1>10. budget' \in BudgetType
  <2>1. \/ UNCHANGED budget
        \/ \E k \in {"start", "lapse", "stop", "op", "fault"} : Spend(k)
    BY DEF NodeStep, ConnectFails, BadReply, NextCall, Started, CycleEnds, CallBreaks,
       CallTimesOut, NodeStop, NodeStart, Connect
  <2> QED
    BY <2>1, SpendType DEF TypeOK
<1>11. ops' \subseteq [node : Nodes, epoch : Nat]
  BY DEF NodeStep, ConnectFails, BadReply, NextCall, Started, CycleEnds, CallBreaks,
     CallTimesOut, NodeStop, NodeStart, Connect, CycleFails, TypeOK
<1> QED
  BY <1>2, <1>3, <1>5, <1>6, <1>7, <1>8, <1>9, <1>10, <1>11
     DEF TypeOK, RegistryTyped, Registry, CallRecord

-----------------------------------------------------------------------------
(* Epochs. *)

(* run_heartbeat_cycle refuses a reply below the node's epoch, Node::start    *)
(* stores its first one, and the handler lets in only the epoch the node has. *)
LEMMA EpochStep ==
  ASSUME TypeOK, EpochsFollowed, [Next]_vars
  PROVE  EpochsFollowed' /\ NeverBack
<1>0. /\ nepoch \in [Nodes -> Nat] /\ accepted \in [Nodes -> Nat]
      /\ nmode \in [Nodes -> {"off", "starting", "on", "gone"}]
  BY DEF TypeOK
<1>1. CASE /\ UNCHANGED <<nepoch, accepted>>
           /\ \A n \in Nodes : nmode'[n] \in {"off", "starting"} =>
                                nmode[n] \in {"off", "starting"}
  BY <1>0, <1>1 DEF EpochsFollowed, NeverBack
<1>2. ASSUME NEW c \in Coords, CoordStep(c) PROVE EpochsFollowed' /\ NeverBack
  BY <1>1, <1>2 DEF CoordStep, Start, AuthorityLost, End, RetireStale, ServeLate, ServeCall,
     RefuseCall, AuditFails, Lapse, NodeOperation, nodeVars
<1>3. ASSUME NEW n \in Nodes, NodeStep(n) PROVE EpochsFollowed' /\ NeverBack
  <2>1. CASE NextCall(n) \/ Started(n)
    <3>1. call[n].reply \in Nat /\ call[n].reply >= nepoch[n]
      BY <1>0, <2>1 DEF NextCall, Started, GoodReply, TypeOK, EpochsFollowed
    <3>2. /\ nepoch' = [nepoch EXCEPT ![n] = call[n].reply] /\ accepted' = accepted
          /\ nmode' = [nmode EXCEPT ![n] = "on"]
      BY <1>0, <2>1 DEF NextCall, Started
    <3> QED
      BY <1>0, <3>1, <3>2 DEF EpochsFollowed, NeverBack
  <2>2. CASE ~(NextCall(n) \/ Started(n))
    <3>1. UNCHANGED <<nepoch, accepted>>
      BY <1>3, <2>2 DEF NodeStep, ConnectFails, BadReply, CycleEnds, CallBreaks,
         CallTimesOut, NodeStop, NodeStart, Connect, CycleFails
    <3>2. \/ UNCHANGED nmode
          \/ nmode' = [nmode EXCEPT ![n] = "gone"]
          \/ nmode[n] = "off" /\ nmode' = [nmode EXCEPT ![n] = "starting"]
          \/ nmode' = [nmode EXCEPT ![n] = IF @ = "starting" THEN "gone" ELSE @]
      BY <1>3, <2>2 DEF NodeStep, ConnectFails, BadReply, CycleEnds, CallBreaks,
         CallTimesOut, NodeStop, NodeStart, Connect, CycleFails
    <3> QED
      BY <1>0, <1>1, <3>1, <3>2
  <2> QED
    BY <2>1, <2>2
<1>4. ASSUME NEW o \in ops, OperationServed(o) PROVE EpochsFollowed' /\ NeverBack
  <2>1. o.node \in Nodes /\ o.epoch \in Nat
    BY DEF TypeOK
  <2>2. UNCHANGED <<nepoch, nmode>>
    BY <1>4 DEF OperationServed, nodeVars
  <2>3. \/ UNCHANGED accepted
        \/ accepted' = [accepted EXCEPT ![o.node] = nepoch[o.node]]
    BY <1>4 DEF OperationServed, Accepts
  <2> QED
    BY <1>0, <2>1, <2>2, <2>3 DEF EpochsFollowed, NeverBack
<1>5. CASE UNCHANGED vars
  BY <1>1, <1>5 DEF vars, nodeVars
<1> QED
  BY <1>2, <1>3, <1>4, <1>5 DEF Next

-----------------------------------------------------------------------------
(* Every step keeps the invariant.                                           *)
LEMMA InvStep == Inv /\ [Next]_vars => Inv'
<1> SUFFICES ASSUME Inv, [Next]_vars PROVE Inv'
  OBVIOUS
<1>1. RegistryTyped' /\ RegistryConsistent'
  BY RegistryStep DEF Inv
<1>2. EpochsFollowed'
  BY EpochStep DEF Inv
<1>3. ASSUME NEW o \in ops, OperationServed(o) PROVE TypeOK'
  <2>1. o.node \in Nodes /\ o.epoch \in Nat
    BY DEF Inv, TypeOK
  <2>2. accepted' \in [Nodes -> Nat]
    BY <1>3, <2>1 DEF OperationServed, Inv, TypeOK
  <2> QED
    BY <1>3, <2>2 DEF OperationServed, Inv, TypeOK, FencingTypeOK, fencingVars,
       coordVars, nodeVars
<1>4. ASSUME UNCHANGED vars PROVE TypeOK'
  BY <1>4 DEF Inv, TypeOK, FencingTypeOK, vars, fencingVars, coordVars, nodeVars
<1>5. TypeOK'
  BY <1>1, <1>3, <1>4, CoordType, NodeType DEF Next, Inv
<1> QED
  BY <1>1, <1>2, <1>5 DEF Inv

(* The invariant holds in every reachable state.                             *)
LEMMA AlwaysInv == Spec => []Inv
<1>1. Init => Inv
  BY InitInv
<1>2. Inv /\ [Next]_vars => Inv'
  BY InvStep
<1> QED
  BY <1>1, <1>2, PTL DEF Spec

(* A registry has at most one registration per node name, and pressure only  *)
(* of registered nodes: node_for_backend is never ambiguous, whatever is     *)
(* served late, lapses, races with a retirement or fails half way.           *)
THEOREM RegistryStaysConsistent == Spec => []RegistryConsistent
<1>1. Inv => RegistryConsistent
  BY DEF Inv
<1> QED
  BY <1>1, AlwaysInv, PTL

(* A node lets in operations in the order of the epochs they were sent       *)
(* under, whatever was delayed and however often the store was taken over.   *)
THEOREM NodesNeverGoBack == Spec => OperationsInEpochOrder
<1>1. Inv /\ [Next]_vars => [\A n \in Nodes : accepted'[n] >= accepted[n]]_vars
  <2> SUFFICES ASSUME Inv, [Next]_vars
               PROVE  \A n \in Nodes : accepted'[n] >= accepted[n]
    OBVIOUS
  <2>1. NeverBack
    BY EpochStep DEF Inv
  <2> QED
    BY <2>1 DEF NeverBack
<1> QED
  BY <1>1, AlwaysInv, PTL DEF Spec, OperationsInEpochOrder

(* The coordinators and nodes of Fabric move the claim only as Fencing       *)
(* allows, so that what holds here holds of any claim that implements        *)
(* Fencing, Authority's among them.                                          *)
LEMMA FabricKeepsToFencing == Spec => FencingSpec
<1>1. Init => FencingInit
  BY DEF Init
<1>2. [Next]_vars => [FencingNext]_fencingVars
  <2> SUFFICES ASSUME [Next]_vars PROVE [FencingNext]_fencingVars
    OBVIOUS
  <2>1. ASSUME NEW c \in Coords, CoordStep(c)
        PROVE  Grant(c) \/ Admit(c) \/ UNCHANGED fencingVars
    BY <2>1 DEF CoordStep, Start, AuthorityLost, End, RetireStale, ServeLate, ServeCall, RefuseCall,
       AuditFails, Lapse, NodeOperation, Handle
  <2>2. ASSUME NEW n \in Nodes, NodeStep(n) PROVE UNCHANGED fencingVars
    BY <2>2 DEF NodeStep, ConnectFails, BadReply, NextCall, Started, CycleEnds,
       CallBreaks, CallTimesOut, NodeStop, NodeStart, Connect, CycleFails
  <2>3. CASE (\E o \in ops : OperationServed(o)) \/ UNCHANGED vars
    BY <2>3 DEF OperationServed, vars
  <2> QED
    BY <2>1, <2>2, <2>3 DEF Next, FencingNext
<1> QED
  BY <1>1, <1>2, PTL DEF Spec, FencingSpec
==============================================================================
