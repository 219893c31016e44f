------------------------------ MODULE Transport ------------------------------
(***************************************************************************)
(* The framed connections between clients and a server: Client::call,       *)
(* Server::serve with its connection limit and its drain, and the connection *)
(* threads.  Coordinators and nodes both run such a server.                  *)
(*                                                                           *)
(* A frame is its request id; what it carries, and the magic, the length and *)
(* the checksum that make a frame valid, are left out.  A read that times    *)
(* out in the middle of a frame leaves the rest of it in the stream.         *)
(***************************************************************************)
EXTENDS Naturals, Sequences, FiniteSets

CONSTANTS
  Conns,            \* connections, each of a client of its own, numbered in
                    \* the order they are opened
  None,
  MaxConnections,   \* max_connections
  MaxCalls,         \* calls per client
  MaxTimeouts,      \* calls and frames that time out
  MaxFaults         \* accept errors, handlers that panic or outlast the drain

ASSUME TransportAssumption ==
  /\ Conns \subseteq Nat /\ None \notin Nat
  /\ MaxConnections \in Nat \ {0}
  /\ {MaxCalls, MaxTimeouts, MaxFaults} \subseteq Nat

VARIABLES
  srv,        \* where serve is
  fresh,      \* the connection whose thread runs but is not in the list yet
  flag,       \* shutdown
  listed,     \* threads
  thread,     \* the connection threads
  req,        \* the request each thread has read
  cut,        \* connections whose socket request_shutdown shut down
  backlog,    \* connections the listener has not accepted
  client,     \* the clients: [pc, calls, id, answer]
  sent,       \* requests in the stream to the server
  replies,    \* replies in the stream to the client: [id, nth, part]
  after,      \* history: handlers begun after shutdown was requested
  budget

serverVars == <<srv, fresh, flag, listed, backlog>>
threadVars == <<thread, req, after>>
streamVars == <<sent, replies>>
vars == <<serverVars, threadVars, cut, client, streamVars, budget>>

-----------------------------------------------------------------------------
Running == {"check", "read", "handle", "write"}
Ended == {"finished", "panicked"}

\* A request is the number of the call and the id it was sent with.
RequestFrame == [nth : Nat, id : Nat]
\* An error reply to a frame that could not be read has id 0.
ReplyFrame == [nth : Nat, id : Nat, part : {"whole", "rest"}]
NoRequest == [nth |-> 0, id |-> 0]

(* Type invariant: server loop, threads, clients and streams keep their shape. *)
TypeOK ==
  /\ srv \in {"loop", "accept", "push", "drain", "ok", "failed", "gone"}
  /\ fresh \in Conns \cup {None}
  /\ flag \in BOOLEAN
  /\ listed \subseteq Conns /\ cut \subseteq Conns /\ backlog \subseteq Conns
  /\ thread \in [Conns -> Running \cup Ended \cup {"none", "refused"}]
  /\ req \in [Conns -> RequestFrame]
  /\ client \in [Conns -> [pc : {"off", "idle", "waiting", "closed"},
                           calls : Nat, id : Nat, answer : Nat]]
  /\ sent \in [Conns -> Seq(RequestFrame)]
  /\ replies \in [Conns -> Seq(ReplyFrame)]
  /\ after \in [Conns -> Nat]
  /\ budget \in [timeout : Nat, fault : Nat]

Init ==
  /\ srv = "loop" /\ fresh = None /\ flag = FALSE
  /\ listed = {} /\ cut = {} /\ backlog = {}
  /\ thread = [c \in Conns |-> "none"]
  /\ req = [c \in Conns |-> NoRequest]
  /\ client = [c \in Conns |-> [pc |-> "off", calls |-> 0, id |-> 0,
                             answer |-> 0]]
  /\ sent = [c \in Conns |-> <<>>]
  /\ replies = [c \in Conns |-> <<>>]
  /\ after = [c \in Conns |-> 0]
  /\ budget = [timeout |-> MaxTimeouts, fault |-> MaxFaults]

Spend(k) == budget[k] > 0 /\ budget' = [budget EXCEPT ![k] = @ - 1]

\* The list keeps a handle of the socket until its thread is joined, so the
\* connection stays open after the thread has ended.
ServerEndOpen(c) ==
  /\ c \notin cut
  /\ c \in backlog \cup listed \cup {fresh} \/ thread[c] \in Running

-----------------------------------------------------------------------------
(* Server::serve. *)

ServeLoop ==
  /\ srv = "loop"
  /\ srv' = IF flag THEN "drain" ELSE "accept"
  /\ UNCHANGED <<fresh, flag, listed, backlog, threadVars, cut, client, streamVars,
                 budget>>

\* Nothing to accept: sleep, look at the flag again.
AcceptNothing ==
  /\ srv = "accept" /\ backlog = {}
  /\ srv' = "loop"
  /\ UNCHANGED <<fresh, flag, listed, backlog, threadVars, cut, client, streamVars,
                 budget>>

AtCapacity(active) == Cardinality(active) >= MaxConnections

\* Ended threads are joined first, and a panic of one of them ends the server.
\* At capacity the connection is closed; otherwise its thread starts ...
Accept(c) ==
  /\ srv = "accept" /\ c \in backlog
  /\ backlog' = backlog \ {c}
  /\ LET active == {d \in listed : thread[d] \notin Ended} IN
       /\ listed' = active
       /\ IF \E d \in listed : thread[d] = "panicked"
          THEN /\ srv' = "failed" /\ fresh' = None
               /\ thread' = [thread EXCEPT ![c] = "refused"]
          ELSE IF AtCapacity(active)
          THEN /\ srv' = "loop" /\ fresh' = None
               /\ thread' = [thread EXCEPT ![c] = "refused"]
          ELSE /\ srv' = "push" /\ fresh' = c
               /\ thread' = [thread EXCEPT ![c] = "check"]
  /\ UNCHANGED <<flag, req, after, cut, client, streamVars, budget>>

\* ... and is then put in the list.
Push ==
  /\ srv = "push"
  /\ listed' = listed \cup {fresh}
  /\ fresh' = None
  /\ srv' = "loop"
  /\ UNCHANGED <<flag, backlog, threadVars, cut, client, streamVars, budget>>

\* A socket option of the accepted connection fails: serve returns the error,
\* whether or not shutdown is requested.
SocketFails(c) ==
  /\ srv = "accept" /\ c \in backlog
  /\ Spend("fault")
  /\ \A d \in listed : thread[d] # "panicked"
  /\ listed' = {d \in listed : thread[d] \notin Ended}
  /\ ~AtCapacity(listed')
  /\ srv' = "failed"
  /\ backlog' = backlog \ {c}
  /\ thread' = [thread EXCEPT ![c] = "refused"]
  /\ UNCHANGED <<fresh, flag, req, after, cut, client, streamVars>>

\* The listener fails.
AcceptFails ==
  /\ srv = "accept"
  /\ Spend("fault")
  /\ srv' = IF flag THEN "drain" ELSE "failed"
  /\ UNCHANGED <<fresh, flag, listed, backlog, threadVars, cut, client, streamVars>>

AllEnded == \A c \in listed : thread[c] \in Ended

Drained ==
  /\ srv = "drain"
  /\ AllEnded
  /\ srv' = IF \E c \in listed : thread[c] = "panicked" THEN "failed" ELSE "ok"
  /\ listed' = {}
  /\ UNCHANGED <<fresh, flag, backlog, threadVars, cut, client, streamVars, budget>>

\* Mutant: what still runs at the deadline is not looked at.
DrainDeadlineOk ==
  /\ srv = "drain"
  /\ Spend("fault")
  /\ srv' = "ok"
  /\ UNCHANGED <<fresh, flag, listed, backlog, threadVars, cut, client, streamVars>>

\* A handler takes longer than the 10 s of the drain.
DrainDeadline ==
  /\ srv = "drain"
  /\ ~AllEnded
  /\ Spend("fault")
  /\ srv' = "failed"
  /\ UNCHANGED <<fresh, flag, listed, backlog, threadVars, cut, client, streamVars>>

\* request_shutdown sets the flag, and then shuts down the listed sockets.  The
\* signal handler and the end of run_coordinator both call it.
RequestShutdown ==
  /\ ~flag
  /\ flag' = TRUE
  /\ UNCHANGED <<srv, fresh, listed, backlog, threadVars, cut, client, streamVars,
                 budget>>

CutSockets ==
  /\ flag /\ srv # "gone"
  /\ cut' = cut \cup listed
  /\ UNCHANGED <<serverVars, threadVars, client, streamVars, budget>>

\* The process ends once serve has returned, with whatever still runs.
ProcessEnds ==
  /\ srv \in {"ok", "failed"}
  /\ srv' = "gone"
  /\ thread' = [c \in Conns |-> IF thread[c] \in Running THEN "finished" ELSE thread[c]]
  /\ listed' = {} /\ backlog' = {} /\ fresh' = None
  /\ UNCHANGED <<flag, req, after, cut, client, streamVars, budget>>

-----------------------------------------------------------------------------
(* handle_connection. *)

SetThread(c, l) == thread' = [thread EXCEPT ![c] = l]

\* Mutant: the flag is only looked at by serve.
ThreadCheckNothing(c) ==
  /\ thread[c] = "check"
  /\ SetThread(c, "read")
  /\ UNCHANGED <<serverVars, req, after, cut, client, streamVars, budget>>

ThreadCheck(c) ==
  /\ thread[c] = "check"
  /\ SetThread(c, IF flag THEN "finished" ELSE "read")
  /\ UNCHANGED <<serverVars, req, after, cut, client, streamVars, budget>>

ThreadRead(c) ==
  /\ thread[c] = "read" /\ sent[c] # <<>>
  /\ req' = [req EXCEPT ![c] = Head(sent[c])]
  /\ sent' = [sent EXCEPT ![c] = Tail(@)]
  /\ after' = [after EXCEPT ![c] = IF flag THEN @ + 1 ELSE @]
  /\ SetThread(c, "handle")
  /\ UNCHANGED <<serverVars, cut, client, replies, budget>>

\* Written to the stream if both ends are there.
Answer(c, nth, id) ==
  replies' = IF c \in cut \/ client[c].pc = "closed" THEN replies
             ELSE [replies EXCEPT ![c] =
                     Append(@, [nth |-> nth, id |-> id, part |-> "whole"])]

\* A frame does not arrive within the read timeout: an error reply, and the
\* thread ends.
ThreadSlowFrame(c) ==
  /\ thread[c] = "read" /\ sent[c] # <<>>
  /\ Spend("timeout")
  /\ sent' = [sent EXCEPT ![c] = Tail(@)]
  /\ Answer(c, Head(sent[c]).nth, 0)
  /\ SetThread(c, "finished")
  /\ UNCHANGED <<serverVars, req, after, cut, client>>

\* The end of the stream; what was sent before may be lost with it.
ThreadEof(c) ==
  /\ thread[c] = "read"
  /\ client[c].pc = "closed" \/ c \in cut
  /\ SetThread(c, "finished")
  /\ UNCHANGED <<serverVars, req, after, cut, client, streamVars, budget>>

\* Mutant: an idle thread reads on.
ThreadPollNothing(c) ==
  /\ thread[c] = "read" /\ sent[c] = <<>>
  /\ UNCHANGED vars

\* The read times out between frames, which is how an idle thread polls ...
ThreadPoll(c) ==
  /\ thread[c] = "read" /\ sent[c] = <<>>
  /\ SetThread(c, IF flag THEN "finished" ELSE "check")
  /\ UNCHANGED <<serverVars, req, after, cut, client, streamVars, budget>>

\* ... and ends after timeout_ms without a request.
ThreadIdles(c) ==
  /\ thread[c] = "read" /\ sent[c] = <<>>
  /\ SetThread(c, "finished")
  /\ UNCHANGED <<serverVars, req, after, cut, client, streamVars, budget>>

ThreadHandle(c) ==
  /\ thread[c] = "handle"
  /\ SetThread(c, "write")
  /\ UNCHANGED <<serverVars, req, after, cut, client, streamVars, budget>>

ThreadPanics(c) ==
  /\ thread[c] = "handle"
  /\ Spend("fault")
  /\ SetThread(c, "panicked")
  /\ UNCHANGED <<serverVars, req, after, cut, client, streamVars>>

\* A reply that cannot be written ends the thread; the first write to a peer
\* that has closed may still succeed.
ThreadWrite(c) ==
  /\ thread[c] = "write"
  /\ Answer(c, req[c].nth, req[c].id)
  /\ \/ c \in cut /\ SetThread(c, "finished")
     \/ c \notin cut /\ SetThread(c, "check")
     \/ client[c].pc = "closed" /\ SetThread(c, "finished")
  /\ UNCHANGED <<serverVars, req, after, cut, client, sent, budget>>

-----------------------------------------------------------------------------
(* Client. *)

SetPc(c, l) == client' = [client EXCEPT ![c].pc = l]

Connect(c) ==
  /\ client[c].pc = "off" /\ srv # "gone"
  /\ \A d \in Conns : d < c => client[d].pc # "off"
  /\ SetPc(c, "idle")
  /\ backlog' = backlog \cup {c}
  /\ UNCHANGED <<srv, fresh, flag, listed, threadVars, cut, streamVars, budget>>

\* Mutant: the id does not advance.
FreshIdSame(c) == 1

\* next_request_id starts at 1.
FreshId(c) == client[c].calls + 1

\* A call on a connection the server has closed fails in the write or the read.
Call(c) ==
  /\ client[c].pc = "idle" /\ client[c].calls < MaxCalls
  /\ client' = [client EXCEPT ![c] =
       [pc |-> IF ServerEndOpen(c) \/ replies[c] # <<>> THEN "waiting" ELSE "idle",
        calls |-> @.calls + 1, id |-> FreshId(c), answer |-> 0]]
  /\ sent' = IF ServerEndOpen(c)
             THEN [sent EXCEPT ![c] =
                     Append(@, [nth |-> client[c].calls + 1, id |-> FreshId(c)])]
             ELSE sent
  /\ UNCHANGED <<serverVars, threadVars, cut, replies, budget>>

\* The rest of an earlier frame is no frame, and a reply with another id is not
\* this call's: both are errors.  An error leaves the connection usable.
Receive(c) ==
  /\ client[c].pc = "waiting" /\ replies[c] # <<>>
  /\ LET r == Head(replies[c])
         mine == r.part = "whole" /\ r.id = client[c].id
     IN  /\ client' = [client EXCEPT ![c].pc = "idle",
                                     ![c].answer = IF mine THEN r.nth ELSE 0]
         /\ replies' = IF r.part = "rest" THEN replies
                       ELSE [replies EXCEPT ![c] = Tail(@)]
  /\ UNCHANGED <<serverVars, threadVars, cut, sent, budget>>

ReceiveEof(c) ==
  /\ client[c].pc = "waiting" /\ replies[c] = <<>>
  /\ ~ServerEndOpen(c)
  /\ SetPc(c, "idle")
  /\ UNCHANGED <<serverVars, threadVars, cut, streamVars, budget>>

\* The deadline passes, before the reply or in the middle of it.
CallTimesOut(c) ==
  /\ client[c].pc = "waiting"
  /\ IF ServerEndOpen(c) /\ thread[c] \notin Ended
       THEN Spend("timeout") ELSE UNCHANGED budget
  /\ SetPc(c, "idle")
  /\ \/ UNCHANGED replies
     \/ /\ replies[c] # <<>>
        /\ replies' = [replies EXCEPT ![c][1].part = "rest"]
  /\ UNCHANGED <<serverVars, threadVars, cut, sent>>

\* The client goes away, also in the middle of a call.
Close(c) ==
  /\ client[c].pc \in {"idle", "waiting"}
  /\ SetPc(c, "closed")
  /\ replies' = [replies EXCEPT ![c] = <<>>]
  /\ UNCHANGED <<serverVars, threadVars, cut, sent, budget>>

-----------------------------------------------------------------------------
Serve ==
  \/ ServeLoop \/ AcceptNothing \/ Push \/ AcceptFails \/ Drained \/ DrainDeadline
  \/ \E c \in Conns : Accept(c) \/ SocketFails(c)

HandleConnection(c) ==
  \/ ThreadCheck(c) \/ ThreadRead(c) \/ ThreadSlowFrame(c) \/ ThreadEof(c)
  \/ ThreadPoll(c) \/ ThreadIdles(c) \/ ThreadHandle(c) \/ ThreadPanics(c)
  \/ ThreadWrite(c)

ClientStep(c) ==
  \/ Connect(c) \/ Call(c) \/ Receive(c) \/ ReceiveEof(c) \/ CallTimesOut(c)
  \/ Close(c)

Next ==
  \/ Serve \/ RequestShutdown \/ CutSockets \/ ProcessEnds
  \/ \E c \in Conns : HandleConnection(c) \/ ClientStep(c)

Spec == Init /\ [][Next]_vars

\* Threads are scheduled and socket reads time out; neither the drain deadline
\* nor the idle limit, nor any client, is counted on.
ThreadGoesOn(c) ==
  \/ ThreadCheck(c) \/ ThreadRead(c) \/ ThreadEof(c) \/ ThreadPoll(c)
  \/ ThreadHandle(c) \/ ThreadWrite(c)

Fairness ==
  /\ WF_vars(ServeLoop \/ AcceptNothing \/ Push \/ Drained \/ \E c \in Conns : Accept(c))
  /\ \A c \in Conns : WF_vars(ThreadGoesOn(c))

FairSpec == Spec /\ Fairness

-----------------------------------------------------------------------------
(* Properties. *)

(* A call that returns a reply returns the reply to its own request: not the   *)
(* one to an earlier call that had timed out, and not what follows a frame the *)
(* client read half of.                                                        *)
ReplyMatches ==
  \A c \in Conns : client[c].answer \in {0, client[c].calls}

(* serve returns Ok only when nothing runs any more, a connection that was      *)
(* accepted while shutdown was requested included: what the owner does next,   *)
(* retire nodes and give the claim back, races with no request.                 *)
OkMeansDrained ==
  srv = "ok" => \A c \in Conns : thread[c] \notin Running

(* After shutdown was requested a connection begins at most one more request,  *)
(* however many are in its stream and whether or not its socket was in the     *)
(* list that request_shutdown went through.                                    *)
OneMoreRequest == \A c \in Conns : after[c] <= 1

(* Shutdown ends serve without the drain deadline: clients that stay connected *)
(* and silent, half-read frames and connections that came in last do not keep  *)
(* it waiting.                                                                 *)
ShutdownDrains == flag ~> srv \in {"ok", "failed", "gone"}
==============================================================================
