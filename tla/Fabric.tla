-------------------------------- MODULE Fabric --------------------------------
(***************************************************************************)
(* The nodes and the coordinators they talk to: registration, heartbeats,   *)
(* retirement, routing and the operations a coordinator has a node execute. *)
(*                                                                          *)
(* Who holds the store is taken from Fencing, which Authority implements:    *)
(* with_inner is the action Admit, and a coordinator that was taken over     *)
(* runs on until it is stopped.  A node process is one boot; its             *)
(* registration is fresh or, once its heartbeats stayed away, expired.       *)
(***************************************************************************)
EXTENDS Fencing, FiniteSets

CONSTANTS
  Nodes,         \* node processes, numbered in the order they are started
  Name,          \* the name each of them registers
  None,
  Budgets        \* what the environment may do: how often a node is started,
                 \* a live one is not heard for the heartbeat timeout, one is
                 \* stopped, an operation is sent to one, and a call times
                 \* out, an audit entry is not written or authority is lost

BudgetType == [start : Nat, lapse : Nat, stop : Nat, op : Nat, fault : Nat]

ASSUME FabricAssumption ==
  /\ Coords \subseteq Nat /\ Nodes \subseteq Nat
  /\ None \notin Nat
  /\ Budgets \subseteq BudgetType

VARIABLES
  \* coordinator processes
  up,           \* new, up, fenced (authority_lost) or gone
  reg,          \* inner.nodes: none, fresh or expired
  pressure,     \* nodes whose pressure is kept
  late,         \* requests of nodes that no longer wait for the reply
  \* node processes
  nmode,        \* off, starting, on or gone
  nepoch,       \* coordinator_epoch
  registered,   \* of the heartbeat loop
  call,         \* the call under way: [to, job, reply]
  ops,          \* operations on the way to a node: [node, epoch]
  accepted,     \* history: epoch of the last operation a node let in
  budget

coordVars == <<up, reg, pressure, late>>
nodeVars == <<nmode, nepoch, registered, call>>
vars == <<fencingVars, coordVars, nodeVars, ops, accepted, budget>>

-----------------------------------------------------------------------------
Jobs == {"register", "beat", "press"}
Request == [to : Coords, node : Nodes, job : Jobs]
NoCall == [to |-> None, job |-> "beat", reply |-> None]
ErrorReply == 0
NoEpoch == 0          \* u64::MAX, which no coordinator speaks

(* Type invariant: the claim, the registry, the calls and the operations under *)
(* way keep their shape.                                                       *)
TypeOK ==
  /\ FencingTypeOK
  /\ up \in [Coords -> {"new", "up", "fenced", "gone"}]
  /\ reg \in [Coords -> [Nodes -> {"none", "fresh", "expired"}]]
  /\ pressure \in [Coords -> SUBSET Nodes]
  /\ late \subseteq Request
  /\ nmode \in [Nodes -> {"off", "starting", "on", "gone"}]
  /\ nepoch \in [Nodes -> Nat]
  /\ registered \in [Nodes -> BOOLEAN]
  /\ call \in [Nodes -> [to : Coords \cup {None}, job : Jobs,
                         reply : Nat \cup {None}]]
  /\ ops \subseteq [node : Nodes, epoch : Nat]
  /\ accepted \in [Nodes -> Nat]
  /\ budget \in BudgetType

Init ==
  /\ FencingInit
  /\ up = [c \in Coords |-> "new"]
  /\ reg = [c \in Coords |-> [n \in Nodes |-> "none"]]
  /\ pressure = [c \in Coords |-> {}]
  /\ late = {}
  /\ nmode = [n \in Nodes |-> "off"]
  /\ nepoch = [n \in Nodes |-> NoEpoch]
  /\ registered = [n \in Nodes |-> FALSE]
  /\ call = [n \in Nodes |-> NoCall]
  /\ ops = {}
  /\ accepted = [n \in Nodes |-> 0]
  /\ budget \in Budgets

Spend(k) == budget[k] > 0 /\ budget' = [budget EXCEPT ![k] = @ - 1]

-----------------------------------------------------------------------------
(* Coordinator processes. *)

\* open and the start of the server.  The node registry starts empty.
\* Processes are numbered in the order they start.
Start(c) ==
  /\ up[c] = "new"
  /\ \A d \in Coords : d < c => up[d] # "new"
  /\ Grant(c)
  /\ up' = [up EXCEPT ![c] = "up"]
  /\ UNCHANGED <<reg, pressure, late, nodeVars, ops, accepted, budget>>

\* The process runs, and accepts connections.
Runs(c) == up[c] \in {"up", "fenced"}

\* The heartbeat statement of a coordinator that holds the store fails: it
\* loses authority all the same, and goes on running.
AuthorityLost(c) ==
  /\ up[c] = "up"
  /\ Spend("fault")
  /\ up' = [up EXCEPT ![c] = "fenced"]
  /\ UNCHANGED <<fencingVars, reg, pressure, late, nodeVars, ops, accepted>>

\* The process ends: what it knew of nodes goes with it.
End(c) ==
  /\ Runs(c)
  /\ up' = [up EXCEPT ![c] = "gone"]
  /\ reg' = [reg EXCEPT ![c] = [n \in Nodes |-> "none"]]
  /\ pressure' = [pressure EXCEPT ![c] = {}]
  /\ late' = {r \in late : r.to # c}
  /\ UNCHANGED <<fencingVars, nodeVars, ops, accepted, budget>>

-----------------------------------------------------------------------------
(* The registry. *)

Expired(c) == {n \in Nodes : reg[c][n] = "expired"}

\* A registration goes, and the pressure reported under it.
Drop(c, S) ==
  /\ reg' = [reg EXCEPT ![c] = [n \in Nodes |-> IF n \in S THEN "none" ELSE @[n]]]
  /\ pressure' = [pressure EXCEPT ![c] = @ \ S]

\* Some other registration, not in S, has the name.
NameHeld(c, n, S) ==
  \E m \in Nodes \ (S \cup {n}) : Name[m] = Name[n] /\ reg[c][m] # "none"

\* Mutant: expired registrations are not in the way, and not removed.
RegisterKeepsExpired(c, n) ==
  /\ reg' = IF NameHeld(c, n, Expired(c)) THEN reg
            ELSE [reg EXCEPT ![c][n] = "fresh"]
  /\ UNCHANGED pressure

\* node_register: expired registrations are retired, another live one with the
\* same name refuses the request, the same id is refreshed.
Register(c, n) ==
  LET old == Expired(c)
      held == NameHeld(c, n, old)
  IN  /\ reg' = [reg EXCEPT ![c] =
           [m \in Nodes |-> IF m = n /\ ~held THEN "fresh"
                            ELSE IF m \in old THEN "none" ELSE @[m]]]
      /\ pressure' = [pressure EXCEPT ![c] = @ \ old]

\* node_heartbeat.
Beat(c, n) ==
  /\ reg' = [reg EXCEPT ![c][n] = IF @ = "none" THEN @ ELSE "fresh"]
  /\ UNCHANGED pressure

\* node_report_pressure.
Report(c, n) ==
  /\ pressure' = [pressure EXCEPT ![c] = IF reg[c][n] = "none" THEN @ ELSE @ \cup {n}]
  /\ UNCHANGED reg

\* with_inner, and the method in it.
Handle(c, n, job) ==
  /\ up[c] = "up"
  /\ Admit(c)
  /\ \/ job = "register" /\ Register(c, n)
     \/ job = "beat" /\ Beat(c, n)
     \/ job = "press" /\ Report(c, n)

\* The epoch of the coordinator, or an error: name taken, node unknown.
ReplyOf(c, n, job) ==
  IF \/ job = "register" /\ NameHeld(c, n, Expired(c))
     \/ job # "register" /\ reg[c][n] = "none"
  THEN ErrorReply ELSE grant[c]

SetReply(n, r) == call' = [call EXCEPT ![n].reply = r]

\* A connection thread serves the request of a node that waits ...
ServeCall(c, n) ==
  /\ call[n].to = c /\ call[n].reply = None
  /\ Handle(c, n, call[n].job)
  /\ SetReply(n, ReplyOf(c, n, call[n].job))
  /\ UNCHANGED <<up, late, nmode, nepoch, registered, ops, accepted, budget>>

\* ... or that has given up.
ServeLate(c, r) ==
  /\ r \in late /\ r.to = c
  /\ Handle(c, r.node, r.job)
  /\ late' = late \ {r}
  /\ UNCHANGED <<up, nodeVars, ops, accepted, budget>>

\* with_inner of a coordinator that was taken over or lost authority.
RefuseCall(c, n) ==
  /\ call[n].to = c /\ call[n].reply = None
  /\ Runs(c)
  /\ up[c] = "fenced" \/ ~Current(c)
  /\ SetReply(n, ErrorReply)
  /\ UNCHANGED <<fencingVars, coordVars, nmode, nepoch, registered, ops, accepted,
                 budget>>

\* The audit entry of a retirement, or of the new registration, is not
\* written: the caller gets the error, the registry stays as it is by then.
AuditFails(c, n) ==
  /\ call[n].to = c /\ call[n].reply = None /\ call[n].job = "register"
  /\ up[c] = "up"
  /\ Admit(c)
  /\ Spend("fault")
  /\ \/ \E S \in SUBSET Expired(c) : S # {} /\ Drop(c, S)
     \/ /\ reg[c][n] # "fresh" /\ ~NameHeld(c, n, Expired(c))
        /\ Register(c, n)
  /\ SetReply(n, ErrorReply)
  /\ UNCHANGED <<up, late, nmode, nepoch, registered, ops, accepted>>

\* retire_stale_nodes.  An audit entry that is not written ends it, with only
\* some of the expired registrations gone.
RetireStale(c) ==
  /\ up[c] = "up"
  /\ Admit(c)
  /\ \E S \in SUBSET Expired(c) :
       /\ Drop(c, S)
       /\ IF S = Expired(c) THEN UNCHANGED budget ELSE Spend("fault")
  /\ UNCHANGED <<up, late, nodeVars, ops, accepted>>

\* The heartbeat timeout passes without a heartbeat of the node.
Lapse(c, n) ==
  /\ reg[c][n] = "fresh"
  /\ reg' = [reg EXCEPT ![c][n] = "expired"]
  /\ IF nmode[n] = "on" THEN Spend("lapse") ELSE UNCHANGED budget
  /\ UNCHANGED <<fencingVars, up, pressure, late, nodeVars, ops, accepted>>

\* node_for_backend: the backends of a node carry its name; an expired
\* registration still routes, two of one name would be refused.
OwnersOf(c, name) == {n \in Nodes : Name[n] = name /\ reg[c][n] # "none"}

\* node_operation reads the address under the lock and sends the operation,
\* with the coordinator's own epoch, on a connection of its own.  The call ends
\* with a reply or after 15 s; the node may then still be at it.
NodeOperation(c, n) ==
  /\ up[c] = "up"
  /\ OwnersOf(c, Name[n]) = {n}
  /\ nmode[n] \in {"starting", "on"}
  /\ Admit(c)
  /\ ops' = ops \cup {[node |-> n, epoch |-> grant[c]]}
  /\ Spend("op")
  /\ UNCHANGED <<coordVars, nodeVars, accepted>>

-----------------------------------------------------------------------------
(* Nodes: Node::start and the heartbeat thread, one connection per cycle. *)

Send(n, c, job) ==
  call' = [call EXCEPT ![n] = [to |-> c, job |-> job, reply |-> None]]

\* Node::start binds its listener and registers.
NodeStart(n, c) ==
  /\ nmode[n] = "off"
  /\ \A m \in Nodes : m < n => nmode[m] # "off"
  /\ Runs(c)
  /\ nmode' = [nmode EXCEPT ![n] = "starting"]
  /\ Send(n, c, "register")
  /\ Spend("start")
  /\ UNCHANGED <<fencingVars, coordVars, nepoch, registered, ops, accepted>>

\* A cycle opens a connection and registers first if it has to.
Connect(n, c) ==
  /\ nmode[n] = "on" /\ call[n] = NoCall
  /\ Runs(c)
  /\ Send(n, c, IF registered[n] THEN "beat" ELSE "register")
  /\ UNCHANGED <<fencingVars, coordVars, nmode, nepoch, registered, ops, accepted,
                 budget>>

ConnectFails(n) ==
  /\ nmode[n] = "on" /\ call[n] = NoCall
  /\ \A c \in Coords : ~Runs(c)
  /\ registered' = [registered EXCEPT ![n] = FALSE]
  /\ UNCHANGED <<fencingVars, coordVars, nmode, nepoch, call, ops, accepted, budget>>

\* Any error ends the cycle, and the next one registers again; Node::start
\* returns it.
CycleFails(n) ==
  /\ registered' = [registered EXCEPT ![n] = FALSE]
  /\ call' = [call EXCEPT ![n] = NoCall]
  /\ nmode' = [nmode EXCEPT ![n] = IF @ = "starting" THEN "gone" ELSE @]
  /\ UNCHANGED <<fencingVars, up, reg, pressure, nepoch, ops, accepted>>

\* A reply whose epoch is below the node's own is an error like any other.
GoodReply(n) ==
  /\ call[n].reply \notin {None, ErrorReply}
  /\ nmode[n] = "on" => call[n].reply >= nepoch[n]

BadReply(n) ==
  /\ call[n].reply # None
  /\ ~GoodReply(n)
  /\ call[n].job # "press"
  /\ UNCHANGED <<late, budget>>
  /\ CycleFails(n)

\* Mutant: the replies of a cycle do not move the epoch.
NextCallKeepsEpoch(n) ==
  /\ nmode[n] = "on" /\ call[n].job # "press" /\ GoodReply(n)
  /\ UNCHANGED nepoch
  /\ registered' = [registered EXCEPT ![n] = TRUE]
  /\ Send(n, call[n].to, IF call[n].job = "register" THEN "beat" ELSE "press")
  /\ UNCHANGED <<fencingVars, coordVars, nmode, ops, accepted, budget>>

\* run_heartbeat_cycle: a registration is followed by a heartbeat and that by a
\* pressure report, on the same connection.
NextCall(n) ==
  /\ nmode[n] = "on" /\ call[n].job # "press" /\ GoodReply(n)
  /\ nepoch' = [nepoch EXCEPT ![n] = call[n].reply]
  /\ registered' = [registered EXCEPT ![n] = TRUE]
  /\ Send(n, call[n].to, IF call[n].job = "register" THEN "beat" ELSE "press")
  /\ UNCHANGED <<fencingVars, coordVars, nmode, ops, accepted, budget>>

\* Node::start stores the epoch of its registration and starts its threads.
Started(n) ==
  /\ nmode[n] = "starting" /\ GoodReply(n)
  /\ nmode' = [nmode EXCEPT ![n] = "on"]
  /\ nepoch' = [nepoch EXCEPT ![n] = call[n].reply]
  /\ registered' = [registered EXCEPT ![n] = TRUE]
  /\ call' = [call EXCEPT ![n] = NoCall]
  /\ UNCHANGED <<fencingVars, coordVars, ops, accepted, budget>>

\* What the coordinator says of a pressure report does not matter.
CycleEnds(n) ==
  /\ call[n].job = "press" /\ call[n].reply # None
  /\ call' = [call EXCEPT ![n] = NoCall]
  /\ UNCHANGED <<fencingVars, coordVars, nmode, nepoch, registered, ops, accepted,
                 budget>>

\* The coordinator went away with the connection.
CallBreaks(n) ==
  /\ call[n].to # None /\ call[n].reply = None
  /\ ~Runs(call[n].to)
  /\ UNCHANGED <<late, budget>>
  /\ CycleFails(n)

\* A request that was sent may still be served when its node does not wait
\* for the reply any more.
CallAbandoned(n) ==
  \/ UNCHANGED late
  \/ /\ call[n].to # None /\ call[n].reply = None
     /\ late' = late \cup {[to |-> call[n].to, node |-> n, job |-> call[n].job]}

\* The reply does not come in time; the coordinator may still be at it.
CallTimesOut(n) ==
  /\ call[n].to # None /\ call[n].reply = None
  /\ Spend("fault")
  /\ CallAbandoned(n)
  /\ CycleFails(n)

\* A node is killed or shuts down: no coordinator is told.
NodeStop(n) ==
  /\ nmode[n] \in {"starting", "on"}
  /\ Spend("stop")
  /\ nmode' = [nmode EXCEPT ![n] = "gone"]
  /\ call' = [call EXCEPT ![n] = NoCall]
  /\ ops' = {o \in ops : o.node # n}
  /\ CallAbandoned(n)
  /\ UNCHANGED <<fencingVars, up, reg, pressure, nepoch, registered, accepted>>

-----------------------------------------------------------------------------
(* Nodes: the operation handler. *)

\* Mutant: the epoch of the operation is not compared.
AcceptsAny(o) == TRUE

\* The epoch of an operation must be the one the node has now; it is not
\* looked at again while the backend works.
Accepts(o) == o.epoch = nepoch[o.node]

\* build_handler.
OperationServed(o) ==
  /\ nmode[o.node] \in {"starting", "on"}
  /\ ops' = ops \ {o}
  /\ accepted' = IF Accepts(o) THEN [accepted EXCEPT ![o.node] = o.epoch]
                 ELSE accepted
  /\ UNCHANGED <<fencingVars, coordVars, nodeVars, budget>>

-----------------------------------------------------------------------------
CoordStep(c) ==
  \/ Start(c) \/ AuthorityLost(c) \/ End(c) \/ RetireStale(c)
  \/ \E r \in late : ServeLate(c, r)
  \/ \E n \in Nodes :
       \/ ServeCall(c, n) \/ RefuseCall(c, n) \/ AuditFails(c, n)
       \/ Lapse(c, n) \/ NodeOperation(c, n)

NodeStep(n) ==
  \/ ConnectFails(n) \/ BadReply(n) \/ NextCall(n) \/ Started(n) \/ CycleEnds(n)
  \/ CallBreaks(n) \/ CallTimesOut(n) \/ NodeStop(n)
  \/ \E c \in Coords : NodeStart(n, c) \/ Connect(n, c)

Next ==
  \/ \E c \in Coords : CoordStep(c)
  \/ \E n \in Nodes : NodeStep(n)
  \/ \E o \in ops : OperationServed(o)

Spec == Init /\ [][Next]_vars

\* Threads go on, the clock moves, and the address nodes are given does not
\* lead them past the coordinator that is up for ever.
NodeGoesOn(n) ==
  \/ BadReply(n) \/ NextCall(n) \/ Started(n) \/ CycleEnds(n) \/ CallBreaks(n)

Fairness ==
  /\ \A n \in Nodes : WF_vars(NodeGoesOn(n))
  /\ \A c \in Coords, n \in Nodes :
       /\ WF_vars(ServeCall(c, n) \/ RefuseCall(c, n))
       /\ WF_vars(UNCHANGED budget /\ Lapse(c, n))
       /\ SF_vars(Connect(n, c))

FairSpec == Spec /\ Fairness

-----------------------------------------------------------------------------
(* Properties. *)

\* At most one registration per node name in a registry.
NamesUnique ==
  \A c \in Coords : \A n, m \in Nodes :
    Name[n] = Name[m] /\ reg[c][n] # "none" /\ reg[c][m] # "none" => n = m

\* Pressure is only kept for registered nodes.
PressureOfRegistered ==
  \A c \in Coords : \A n \in pressure[c] : reg[c][n] # "none"

(* node_for_backend never finds two owners of a backend, and no pressure is    *)
(* left behind by a node that nobody would remove: not when a node restarts    *)
(* within its lease, not for a request served after its node gave up, not for  *)
(* a report that races with a retirement, and not when an audit entry fails    *)
(* half way.                                                                   *)
RegistryConsistent == NamesUnique /\ PressureOfRegistered

(* A node never goes back: once it let in an operation of one epoch it lets    *)
(* in none of an earlier epoch, however late that one was sent.                *)
OperationsInEpochOrder ==
  [][\A n \in Nodes : accepted'[n] >= accepted[n]]_vars

Serving(c) == up[c] = "up" /\ Current(c)
Rival(n) == \E m \in Nodes \ {n} : Name[m] = Name[n] /\ nmode[m] = "on"

(* After a takeover every running node registers with the new coordinator and  *)
(* learns its epoch, unless another running node has its name: neither lost     *)
(* replies nor the registration a crashed boot left behind keep it out.         *)
NodesFollow ==
  \A n \in Nodes :
    nmode[n] = "on" /\ (\E c \in Coords : Serving(c))
      ~> \/ \E c \in Coords : Serving(c) /\ reg[c][n] # "none" /\ nepoch[n] = grant[c]
         \/ Rival(n) \/ nmode[n] # "on" \/ ~\E c \in Coords : Serving(c)
==============================================================================
