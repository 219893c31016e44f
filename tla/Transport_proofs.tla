-------------------------- MODULE Transport_proofs --------------------------
(***************************************************************************)
(* What Client::call, Server::serve and handle_connection keep for any       *)
(* number of connections, calls, timeouts and faults, whatever the           *)
(* connection limit: a reply belongs to the call that gets it, serve returns *)
(* Ok only with nothing running, and shutdown admits at most one more        *)
(* request of a connection.                                                  *)
(***************************************************************************)
EXTENDS Transport, SequenceTheorems, TLAPS

\* A request carries the number of its call, and a whole reply to one too; the
\* error reply to a frame that could not be read carries 0.
NumberedRequest == {f \in RequestFrame : f.id = f.nth}
NumberedReply == {r \in ReplyFrame : r.id \in {0, r.nth}}

\* What is in the streams and in the threads is numbered.
FramesNumbered ==
  /\ sent \in [Conns -> Seq(NumberedRequest)]
  /\ req \in [Conns -> NumberedRequest]
  /\ replies \in [Conns -> Seq(NumberedReply)]

\* A client waits for the last number it gave out, which is not 0.
ClientNumbered ==
  \A c \in Conns :
    /\ client[c].id = client[c].calls
    /\ client[c].pc = "waiting" => client[c].calls # 0

\* A connection thread that runs is in the list, or is about to be put there.
RunningListed ==
  /\ \A c \in Conns : thread[c] \in Running => c \in listed \cup {fresh}
  /\ fresh # None <=> srv = "push"
  /\ srv = "ok" => listed = {}

\* A connection that began a request after shutdown was requested reads no more.
ReadsNoMore ==
  \A c \in Conns : after[c] # 0 => flag /\ thread[c] # "read"

Inv ==
  /\ TypeOK
  /\ FramesNumbered /\ ClientNumbered /\ ReplyMatches
  /\ RunningListed
  /\ ReadsNoMore /\ OneMoreRequest

-----------------------------------------------------------------------------
(* A server that has not accepted anything satisfies the invariant.          *)
LEMMA InitInv == Init => Inv
<1> SUFFICES ASSUME Init PROVE Inv
  OBVIOUS
<1> USE DEF Init
<1>1. TypeOK
  <2>1. <<>> \in Seq(RequestFrame) /\ <<>> \in Seq(ReplyFrame)
    OBVIOUS
  <2>2. /\ sent \in [Conns -> Seq(RequestFrame)]
        /\ replies \in [Conns -> Seq(ReplyFrame)]
    BY <2>1
  <2>3. req \in [Conns -> RequestFrame]
    BY DEF RequestFrame, NoRequest
  <2>4. /\ after \in [Conns -> Nat]
        /\ budget \in [timeout : Nat, fault : Nat]
    BY TransportAssumption
  <2> QED
    BY <2>2, <2>3, <2>4 DEF TypeOK
<1>2. FramesNumbered
  BY DEF FramesNumbered, NumberedRequest, NumberedReply, RequestFrame, NoRequest
<1>3. ClientNumbered /\ ReplyMatches
  BY DEF ClientNumbered, ReplyMatches
<1>4. RunningListed
  BY DEF RunningListed, Running
<1>5. ReadsNoMore /\ OneMoreRequest
  BY DEF ReadsNoMore, OneMoreRequest
<1> QED
  BY <1>1, <1>2, <1>3, <1>4, <1>5 DEF Inv

-----------------------------------------------------------------------------
(* Frames. *)

(* What is taken from a stream of numbered frames, and what is left of it,   *)
(* is numbered.                                                              *)
LEMMA StreamHead ==
  ASSUME NEW S, NEW s \in Seq(S), s # <<>>
  PROVE  Head(s) \in S /\ Tail(s) \in Seq(S)
  BY HeadTailProperties

(* Answer writes the number it was given to the stream, or nothing.          *)
LEMMA AnswerNumbered ==
  ASSUME TypeOK, FramesNumbered, NEW c \in Conns, NEW nth \in Nat,
         NEW id \in {0, nth}, Answer(c, nth, id)
  PROVE  replies' \in [Conns -> Seq(NumberedReply)]
<1>1. [nth |-> nth, id |-> id, part |-> "whole"] \in NumberedReply
  BY DEF NumberedReply, ReplyFrame
<1>2. Append(replies[c], [nth |-> nth, id |-> id, part |-> "whole"])
        \in Seq(NumberedReply)
  BY <1>1, AppendProperties DEF FramesNumbered
<1> QED
  BY <1>2 DEF Answer, FramesNumbered

(* A numbered stream is a stream of frames.                                  *)
LEMMA NumberedFrames ==
  ASSUME FramesNumbered'
  PROVE  /\ req' \in [Conns -> RequestFrame]
         /\ sent' \in [Conns -> Seq(RequestFrame)]
         /\ replies' \in [Conns -> Seq(ReplyFrame)]
<1>1. NumberedRequest \subseteq RequestFrame /\ NumberedReply \subseteq ReplyFrame
  BY DEF NumberedRequest, NumberedReply
<1>2. Seq(NumberedRequest) \subseteq Seq(RequestFrame)
  BY <1>1
<1>3. Seq(NumberedReply) \subseteq Seq(ReplyFrame)
  BY <1>1
<1> QED
  BY <1>1, <1>2, <1>3 DEF FramesNumbered

(* The threads answer a request with its own number.                         *)
LEMMA FramesStep ==
  ASSUME Inv, [Next]_vars
  PROVE  FramesNumbered'
<1> USE DEF Inv
<1>1. ASSUME NEW c \in Conns, ThreadRead(c) PROVE FramesNumbered'
  <2>1. Head(sent[c]) \in NumberedRequest /\ Tail(sent[c]) \in Seq(NumberedRequest)
    BY <1>1, StreamHead DEF ThreadRead, FramesNumbered
  <2> QED
    BY <1>1, <2>1 DEF ThreadRead, FramesNumbered
<1>2. ASSUME NEW c \in Conns, ThreadSlowFrame(c) PROVE FramesNumbered'
  <2>1. Head(sent[c]) \in NumberedRequest /\ Tail(sent[c]) \in Seq(NumberedRequest)
    BY <1>2, StreamHead DEF ThreadSlowFrame, FramesNumbered
  <2>2. Head(sent[c]).nth \in Nat
    BY <2>1 DEF NumberedRequest, RequestFrame
  <2>3. replies' \in [Conns -> Seq(NumberedReply)]
    BY <1>2, <2>2, AnswerNumbered DEF ThreadSlowFrame
  <2> QED
    BY <1>2, <2>1, <2>3 DEF ThreadSlowFrame, FramesNumbered
<1>3. ASSUME NEW c \in Conns, ThreadWrite(c) PROVE FramesNumbered'
  <2>1. req[c].nth \in Nat /\ req[c].id \in {0, req[c].nth}
    BY DEF FramesNumbered, NumberedRequest, RequestFrame
  <2>2. replies' \in [Conns -> Seq(NumberedReply)]
    BY <1>3, <2>1, AnswerNumbered DEF ThreadWrite
  <2> QED
    BY <1>3, <2>2 DEF ThreadWrite, FramesNumbered
<1>4. ASSUME NEW c \in Conns, Call(c) PROVE FramesNumbered'
  <2>1. [nth |-> client[c].calls + 1, id |-> FreshId(c)] \in NumberedRequest
    <3>1. client[c].calls \in Nat
      BY DEF TypeOK
    <3> QED
      BY <3>1 DEF NumberedRequest, RequestFrame, FreshId
  <2>2. Append(sent[c], [nth |-> client[c].calls + 1, id |-> FreshId(c)])
          \in Seq(NumberedRequest)
    BY <2>1, AppendProperties DEF FramesNumbered
  <2> QED
    BY <1>4, <2>2 DEF Call, FramesNumbered, threadVars
<1>5. ASSUME NEW c \in Conns, Receive(c) PROVE FramesNumbered'
  <2>1. Tail(replies[c]) \in Seq(NumberedReply)
    BY <1>5, StreamHead DEF Receive, FramesNumbered
  <2> QED
    BY <1>5, <2>1 DEF Receive, FramesNumbered, threadVars
<1>6. ASSUME NEW c \in Conns, CallTimesOut(c) PROVE FramesNumbered'
  <2>1. CASE UNCHANGED replies
    BY <1>6, <2>1 DEF CallTimesOut, FramesNumbered, threadVars
  <2>2. CASE /\ replies[c] # <<>>
             /\ replies' = [replies EXCEPT ![c][1].part = "rest"]
    <3>1. /\ replies[c][1] \in NumberedReply /\ 1 \in DOMAIN replies[c]
      BY <2>2, HeadTailProperties DEF FramesNumbered
    <3>2. [replies[c][1] EXCEPT !.part = "rest"] \in NumberedReply
      BY <3>1 DEF NumberedReply, ReplyFrame
    <3>3. [replies[c] EXCEPT ![1] = [replies[c][1] EXCEPT !.part = "rest"]]
            \in Seq(NumberedReply)
      BY <3>1, <3>2, ExceptSeq DEF FramesNumbered
    <3>4. replies' = [replies EXCEPT ![c] =
                       [replies[c] EXCEPT ![1] =
                          [replies[c][1] EXCEPT !.part = "rest"]]]
      BY <2>2
    <3> QED
      BY <1>6, <3>3, <3>4 DEF CallTimesOut, FramesNumbered, threadVars
  <2> QED
    BY <1>6, <2>1, <2>2 DEF CallTimesOut
<1>7. ASSUME NEW c \in Conns, Close(c) PROVE FramesNumbered'
  BY <1>7 DEF Close, FramesNumbered, threadVars
<1>8. CASE UNCHANGED <<sent, req, replies>>
  BY <1>8 DEF FramesNumbered
<1>9. ASSUME NEW c \in Conns, HandleConnection(c) PROVE FramesNumbered'
  BY <1>9, <1>1, <1>2, <1>3, <1>8 DEF HandleConnection, ThreadCheck, ThreadEof,
     ThreadPoll, ThreadIdles, ThreadHandle, ThreadPanics, streamVars
<1>10. ASSUME NEW c \in Conns, ClientStep(c) PROVE FramesNumbered'
  BY <1>10, <1>4, <1>5, <1>6, <1>7, <1>8 DEF ClientStep, Connect, ReceiveEof,
     streamVars, threadVars
<1>11. CASE Serve \/ RequestShutdown \/ CutSockets \/ ProcessEnds \/ UNCHANGED vars
  <2>1. UNCHANGED <<sent, req, replies>>
    BY <1>11 DEF Serve, ServeLoop, AcceptNothing, Push, AcceptFails, Drained,
       DrainDeadline, Accept, SocketFails, RequestShutdown, CutSockets, ProcessEnds, vars,
       threadVars, streamVars
  <2> QED
    BY <2>1, <1>8
<1> QED
  BY <1>9, <1>10, <1>11 DEF Next

-----------------------------------------------------------------------------
(* Types. *)

(* A fault or a timeout that happens was allowed for.                        *)
LEMMA SpendType ==
  ASSUME TypeOK, NEW k \in {"timeout", "fault"}, Spend(k)
  PROVE  budget' \in [timeout : Nat, fault : Nat]
<1>1. budget \in [timeout : Nat, fault : Nat]
  BY DEF TypeOK
<1>2. budget[k] \in Nat /\ budget[k] > 0 /\ budget[k] - 1 \in Nat
  BY <1>1 DEF Spend
<1>3. budget' = [budget EXCEPT ![k] = budget[k] - 1]
  BY DEF Spend
<1> QED
  BY <1>1, <1>2, <1>3

ClientRecord ==
  [pc : {"off", "idle", "waiting", "closed"}, calls : Nat, id : Nat, answer : Nat]

(* A client that changes only where it is, stays a client.                   *)
LEMMA SetPcType ==
  ASSUME client \in [Conns -> ClientRecord], NEW c \in Conns,
         NEW l \in {"off", "idle", "waiting", "closed"}, SetPc(c, l)
  PROVE  /\ client' \in [Conns -> ClientRecord]
         /\ client' = [client EXCEPT ![c] = [client[c] EXCEPT !.pc = l]]
<1>1. client' = [client EXCEPT ![c] = [client[c] EXCEPT !.pc = l]]
  BY DEF SetPc
<1>2. [client[c] EXCEPT !.pc = l] \in ClientRecord
  BY DEF ClientRecord
<1> QED
  BY <1>1, <1>2

(* The server loop keeps the types.                                          *)
LEMMA ServeType ==
  ASSUME TypeOK, RunningListed,
         Serve \/ RequestShutdown \/ CutSockets \/ ProcessEnds
  PROVE  TypeOK'
<1> USE TransportAssumption DEF TypeOK, threadVars, serverVars, streamVars
<1>0. CASE Push
  BY <1>0 DEF Push, RunningListed
<1>1. CASE ServeLoop \/ AcceptNothing
  BY <1>1 DEF ServeLoop, AcceptNothing
<1>2. CASE AcceptFails \/ DrainDeadline
  <2>1. budget' \in [timeout : Nat, fault : Nat]
    BY <1>2, SpendType DEF AcceptFails, DrainDeadline
  <2> QED
    BY <1>2, <2>1 DEF AcceptFails, DrainDeadline
<1>3. CASE Drained
  BY <1>3 DEF Drained
<1>4. ASSUME NEW c \in Conns, Accept(c) PROVE TypeOK'
  <2>1. /\ listed' \subseteq Conns /\ backlog' \subseteq Conns
        /\ fresh' \in Conns \cup {None}
        /\ srv' \in {"failed", "loop", "push"}
    BY <1>4 DEF Accept
  <2>2. thread' \in [Conns -> Running \cup Ended \cup {"none", "refused"}]
    BY <1>4 DEF Accept, Running
  <2> QED
    BY <1>4, <2>1, <2>2 DEF Accept
<1>7. ASSUME NEW c \in Conns, SocketFails(c) PROVE TypeOK'
  <2>1. budget' \in [timeout : Nat, fault : Nat]
    BY <1>7, SpendType DEF SocketFails
  <2>2. thread' \in [Conns -> Running \cup Ended \cup {"none", "refused"}]
    BY <1>7 DEF SocketFails
  <2> QED
    BY <1>7, <2>1, <2>2 DEF SocketFails
<1>5. CASE RequestShutdown \/ CutSockets
  BY <1>5 DEF RequestShutdown, CutSockets
<1>6. CASE ProcessEnds
  <2>1. thread' \in [Conns -> Running \cup Ended \cup {"none", "refused"}]
    BY <1>6 DEF ProcessEnds, Ended
  <2> QED
    BY <1>6, <2>1 DEF ProcessEnds
<1> QED
  BY <1>0, <1>1, <1>2, <1>3, <1>4, <1>5, <1>6, <1>7 DEF Serve

(* The connection threads keep the types.                                    *)
LEMMA HandleType ==
  ASSUME TypeOK, FramesNumbered', NEW c \in Conns, HandleConnection(c)
  PROVE  TypeOK'
<1>1. \E l \in Running \cup Ended : SetThread(c, l)
  BY DEF HandleConnection, ThreadCheck, ThreadRead, ThreadSlowFrame, ThreadEof,
     ThreadPoll, ThreadIdles, ThreadHandle, ThreadPanics, ThreadWrite, Running, Ended
<1>2. thread' \in [Conns -> Running \cup Ended \cup {"none", "refused"}]
  BY <1>1 DEF SetThread, TypeOK
<1>3. budget' \in [timeout : Nat, fault : Nat]
  <2>1. UNCHANGED budget \/ Spend("timeout") \/ Spend("fault")
    BY DEF HandleConnection, ThreadCheck, ThreadRead, ThreadSlowFrame, ThreadEof,
       ThreadPoll, ThreadIdles, ThreadHandle, ThreadPanics, ThreadWrite
  <2> QED
    BY <2>1, SpendType DEF TypeOK
<1>4. after' \in [Conns -> Nat]
  BY DEF HandleConnection, ThreadCheck, ThreadRead, ThreadSlowFrame, ThreadEof,
     ThreadPoll, ThreadIdles, ThreadHandle, ThreadPanics, ThreadWrite, TypeOK
<1>5. UNCHANGED <<serverVars, cut, client>>
  BY DEF HandleConnection, ThreadCheck, ThreadRead, ThreadSlowFrame, ThreadEof,
     ThreadPoll, ThreadIdles, ThreadHandle, ThreadPanics, ThreadWrite
<1> QED
  BY <1>2, <1>3, <1>4, <1>5, NumberedFrames DEF TypeOK, serverVars

(* The clients keep the types.                                               *)
LEMMA ClientType ==
  ASSUME TypeOK, FramesNumbered, FramesNumbered', NEW c \in Conns, ClientStep(c)
  PROVE  TypeOK'
<1>0. client \in [Conns -> ClientRecord]
  BY DEF TypeOK, ClientRecord
<1>1. client' \in [Conns -> ClientRecord]
  <2>1. CASE Connect(c) \/ ReceiveEof(c) \/ CallTimesOut(c) \/ Close(c)
    BY <1>0, <2>1, SetPcType DEF Connect, ReceiveEof, CallTimesOut, Close
  <2>2. CASE Call(c)
    <3>1. client[c].calls \in Nat
      BY <1>0 DEF ClientRecord
    <3>2. \E l \in {"waiting", "idle"} :
            client' = [client EXCEPT ![c] =
              [pc |-> l, calls |-> client[c].calls + 1,
               id |-> client[c].calls + 1, answer |-> 0]]
      BY <2>2 DEF Call, FreshId
    <3>3. \A l \in {"waiting", "idle"} :
            [pc |-> l, calls |-> client[c].calls + 1,
             id |-> client[c].calls + 1, answer |-> 0] \in ClientRecord
      BY <3>1 DEF ClientRecord
    <3> QED
      BY <1>0, <3>2, <3>3
  <2>3. CASE Receive(c)
    <3>1. Head(replies[c]) \in NumberedReply
      BY <2>3, StreamHead DEF Receive, FramesNumbered
    <3>2. Head(replies[c]).nth \in Nat
      BY <3>1 DEF NumberedReply, ReplyFrame
    <3>3. \E a \in Nat :
            client' = [client EXCEPT ![c] =
                         [client[c] EXCEPT !.pc = "idle", !.answer = a]]
      BY <2>3, <3>2 DEF Receive
    <3>4. \A a \in Nat :
            [client[c] EXCEPT !.pc = "idle", !.answer = a] \in ClientRecord
      BY <1>0 DEF ClientRecord
    <3> QED
      BY <1>0, <3>3, <3>4
  <2> QED
    BY <2>1, <2>2, <2>3 DEF ClientStep
<1>2. backlog' \subseteq Conns
  BY DEF ClientStep, Connect, Call, Receive, ReceiveEof, CallTimesOut, Close,
     TypeOK, serverVars
<1>4. budget' \in [timeout : Nat, fault : Nat]
  <2>1. UNCHANGED budget \/ Spend("timeout")
    BY DEF ClientStep, Connect, Call, Receive, ReceiveEof, CallTimesOut, Close
  <2> QED
    BY <2>1, SpendType DEF TypeOK
<1>3. UNCHANGED <<srv, fresh, flag, listed, threadVars, cut>>
  BY DEF ClientStep, Connect, Call, Receive, ReceiveEof, CallTimesOut, Close,
     serverVars
<1> QED
  BY <1>1, <1>2, <1>3, <1>4, NumberedFrames DEF TypeOK, threadVars, ClientRecord

-----------------------------------------------------------------------------
(* Safety. *)

(* A client that takes a reply for its own waits for the number that reply   *)
(* carries.                                                                  *)
LEMMA ClientMatches ==
  ASSUME Inv, NEW c \in Conns, ClientStep(c)
  PROVE  ClientNumbered' /\ ReplyMatches'
<1> USE DEF Inv
<1>0. client \in [Conns -> ClientRecord]
  BY DEF TypeOK, ClientRecord
<1>1. CASE Connect(c) \/ ReceiveEof(c) \/ CallTimesOut(c) \/ Close(c)
  <2>1. \E l \in {"idle", "closed"} : SetPc(c, l)
    BY <1>1 DEF Connect, ReceiveEof, CallTimesOut, Close
  <2>2. \E l \in {"idle", "closed"} :
          client' = [client EXCEPT ![c] = [client[c] EXCEPT !.pc = l]]
    BY <1>0, <2>1, SetPcType
  <2> QED
    BY <1>0, <2>2 DEF ClientRecord, ClientNumbered, ReplyMatches
<1>2. CASE Call(c)
  BY <1>2 DEF Call, FreshId, TypeOK, ClientNumbered, ReplyMatches
<1>3. CASE Receive(c)
  <2> DEFINE r == Head(replies[c])
  <2>1. r \in NumberedReply
    BY <1>3, StreamHead DEF Receive, FramesNumbered
  <2>2. r.id \in {0, r.nth} /\ r.nth \in Nat
    BY <2>1 DEF NumberedReply, ReplyFrame
  <2>3. client[c].id = client[c].calls /\ client[c].calls # 0
    BY <1>3 DEF Receive, ClientNumbered
  <2>4. r.id = client[c].id => r.nth = client[c].calls
    BY <2>2, <2>3
  <2> HIDE DEF r
  <2>5. \E a \in {0, client[c].calls} :
          client' = [client EXCEPT ![c].pc = "idle", ![c].answer = a]
    BY <1>3, <2>4 DEF Receive, r
  <2> QED
    BY <2>5 DEF TypeOK, ClientNumbered, ReplyMatches
<1> QED
  BY <1>1, <1>2, <1>3 DEF ClientStep

(* A thread that starts is put in the list before serve looks at the flag    *)
(* again, and the drain joins the whole list.                                *)
LEMMA ServeListed ==
  ASSUME Inv, Serve \/ RequestShutdown \/ CutSockets \/ ProcessEnds
  PROVE  RunningListed'
<1> USE TransportAssumption DEF Inv, TypeOK, RunningListed, threadVars, serverVars
<1>1. CASE ServeLoop \/ AcceptNothing \/ Push \/ AcceptFails \/ DrainDeadline
  BY <1>1 DEF ServeLoop, AcceptNothing, Push, AcceptFails, DrainDeadline
<1>2. CASE Drained
  BY <1>2 DEF Drained, AllEnded, Running, Ended
<1>3. ASSUME NEW c \in Conns, Accept(c) PROVE RunningListed'
  <2>1. fresh = None /\ srv # "ok"
    BY <1>3 DEF Accept
  <2>2. \A d \in Conns : d # c => thread'[d] = thread[d]
    BY <1>3 DEF Accept
  <2>3. \A d \in listed : thread[d] \in Running => d \in listed'
    BY <1>3 DEF Accept, Running, Ended
  <2>4. thread'[c] \in Running => fresh' = c
    BY <1>3 DEF Accept, Running
  <2>5. (fresh' # None <=> srv' = "push") /\ srv' # "ok"
    BY <1>3 DEF Accept
  <2> QED
    BY <2>1, <2>2, <2>3, <2>4, <2>5
<1>4. CASE RequestShutdown \/ CutSockets
  BY <1>4 DEF RequestShutdown, CutSockets
<1>5. CASE ProcessEnds
  BY <1>5 DEF ProcessEnds, Running
<1>6. ASSUME NEW c \in Conns, SocketFails(c) PROVE RunningListed'
  BY <1>6 DEF SocketFails, Running, Ended
<1> QED
  BY <1>1, <1>2, <1>3, <1>4, <1>5, <1>6 DEF Serve

(* A connection thread neither starts nor leaves the list by itself, and one *)
(* that has begun a request since shutdown sees the flag before it reads.    *)
LEMMA HandleSafe ==
  ASSUME Inv, NEW c \in Conns, HandleConnection(c)
  PROVE  RunningListed' /\ ReadsNoMore' /\ OneMoreRequest'
<1> USE DEF Inv
<1>1. thread[c] \in Running
  BY DEF HandleConnection, ThreadCheck, ThreadRead, ThreadSlowFrame, ThreadEof,
     ThreadPoll, ThreadIdles, ThreadHandle, ThreadPanics, ThreadWrite, Running
<1>2. /\ UNCHANGED serverVars
      /\ \A d \in Conns : d # c => thread'[d] = thread[d]
  <2>1. UNCHANGED serverVars /\ \E l \in Running \cup Ended : SetThread(c, l)
    BY DEF Running, Ended, HandleConnection, ThreadCheck, ThreadRead, ThreadSlowFrame, ThreadEof,
       ThreadPoll, ThreadIdles, ThreadHandle, ThreadPanics, ThreadWrite
  <2> QED
    BY <2>1 DEF SetThread, TypeOK
<1>3. RunningListed'
  BY <1>1, <1>2 DEF RunningListed, serverVars
<1>4. CASE ThreadRead(c)
  <2>1. after[c] = 0
    BY <1>4 DEF ThreadRead, ReadsNoMore
  <2>2. after' = [after EXCEPT ![c] = IF flag THEN 1 ELSE 0]
    BY <1>4, <2>1 DEF ThreadRead
  <2>3. thread'[c] = "handle" /\ flag' = flag
    BY <1>2, <1>4 DEF ThreadRead, SetThread, serverVars, TypeOK
  <2>4. after \in [Conns -> Nat]
    BY DEF TypeOK
  <2>5. /\ after'[c] = IF flag THEN 1 ELSE 0
        /\ \A d \in Conns : d # c => after'[d] = after[d]
    BY <2>2, <2>4
  <2>6. ReadsNoMore'
    BY <1>2, <2>3, <2>5 DEF ReadsNoMore
  <2>7. OneMoreRequest'
    BY <2>5 DEF OneMoreRequest
  <2> QED
    BY <1>3, <2>6, <2>7
<1>5. CASE ~ThreadRead(c)
  <2>1. UNCHANGED after /\ (thread'[c] = "read" => ~flag)
    BY <1>5 DEF HandleConnection, ThreadCheck, ThreadSlowFrame, ThreadEof,
       ThreadPoll, ThreadIdles, ThreadHandle, ThreadPanics, ThreadWrite, SetThread,
       TypeOK
  <2> QED
    BY <1>2, <1>3, <2>1 DEF ReadsNoMore, OneMoreRequest, serverVars
<1> QED
  BY <1>4, <1>5

(* Every step of server, threads and clients keeps the invariant.            *)
LEMMA InvStep == Inv /\ [Next]_vars => Inv'
<1> SUFFICES ASSUME Inv, [Next]_vars PROVE Inv'
  OBVIOUS
<1>0. FramesNumbered'
  BY FramesStep
<1>1. CASE Serve \/ RequestShutdown \/ CutSockets \/ ProcessEnds
  <2>1. UNCHANGED <<client, after>>
    BY <1>1 DEF Serve, ServeLoop, AcceptNothing, Push, AcceptFails, Drained,
       DrainDeadline, Accept, SocketFails, RequestShutdown, CutSockets, ProcessEnds, threadVars
  <2>2. \A c \in Conns : thread'[c] = "read" => thread[c] = "read"
    BY <1>1 DEF Serve, ServeLoop, AcceptNothing, Push, AcceptFails, Drained,
       DrainDeadline, Accept, SocketFails, RequestShutdown, CutSockets, ProcessEnds, threadVars,
       Inv, TypeOK
  <2>3. flag => flag'
    BY <1>1 DEF Serve, ServeLoop, AcceptNothing, Push, AcceptFails, Drained,
       DrainDeadline, Accept, SocketFails, RequestShutdown, CutSockets, ProcessEnds, serverVars
  <2>4. ClientNumbered' /\ ReplyMatches' /\ ReadsNoMore' /\ OneMoreRequest'
    BY <2>1, <2>2, <2>3 DEF Inv, ClientNumbered, ReplyMatches, ReadsNoMore,
       OneMoreRequest
  <2> QED
    BY <1>0, <1>1, <2>4, ServeType, ServeListed DEF Inv
<1>2. ASSUME NEW c \in Conns, HandleConnection(c) PROVE Inv'
  <2>1. UNCHANGED client
    BY <1>2 DEF HandleConnection, ThreadCheck, ThreadRead, ThreadSlowFrame, ThreadEof,
       ThreadPoll, ThreadIdles, ThreadHandle, ThreadPanics, ThreadWrite
  <2>2. ClientNumbered' /\ ReplyMatches'
    BY <2>1 DEF Inv, ClientNumbered, ReplyMatches
  <2> QED
    BY <1>0, <1>2, <2>2, HandleType, HandleSafe DEF Inv
<1>3. ASSUME NEW c \in Conns, ClientStep(c) PROVE Inv'
  <2>1. UNCHANGED <<srv, fresh, flag, listed, threadVars>>
    BY <1>3 DEF ClientStep, Connect, Call, Receive, ReceiveEof, CallTimesOut, Close,
       serverVars
  <2>2. RunningListed' /\ ReadsNoMore' /\ OneMoreRequest'
    BY <2>1 DEF Inv, RunningListed, ReadsNoMore, OneMoreRequest, threadVars
  <2> QED
    BY <1>0, <1>3, <2>2, ClientType, ClientMatches DEF Inv
<1>4. CASE UNCHANGED vars
  BY <1>0, <1>4 DEF vars, serverVars, threadVars, streamVars, Inv, TypeOK,
     ClientNumbered, ReplyMatches, RunningListed, ReadsNoMore, OneMoreRequest
<1> QED
  BY <1>1, <1>2, <1>3, <1>4 DEF Next

(* The invariant holds in every reachable state.                             *)
LEMMA AlwaysInv == Spec => []Inv
<1>1. Init => Inv
  BY InitInv
<1>2. Inv /\ [Next]_vars => Inv'
  BY InvStep
<1> QED
  BY <1>1, <1>2, PTL DEF Spec

-----------------------------------------------------------------------------
(* Client::call gives a reply only to the call whose request it answers,     *)
(* however many earlier calls on the connection timed out, before their      *)
(* reply or in the middle of it.                                             *)
THEOREM RepliesMatch == Spec => []ReplyMatches
<1>1. Inv => ReplyMatches
  BY DEF Inv
<1> QED
  BY <1>1, AlwaysInv, PTL

(* Server::serve returns Ok only when no connection thread runs, whatever    *)
(* was accepted, panicked or outlasted the drain before.                     *)
THEOREM OkIsDrained == Spec => []OkMeansDrained
<1>1. Inv => OkMeansDrained
  BY TransportAssumption DEF Inv, RunningListed, OkMeansDrained
<1> QED
  BY <1>1, AlwaysInv, PTL

(* After request_shutdown a connection begins at most one more request, with *)
(* any number of requests in its stream.                                     *)
THEOREM ShutdownAdmitsOne == Spec => []OneMoreRequest
<1>1. Inv => OneMoreRequest
  BY DEF Inv
<1> QED
  BY <1>1, AlwaysInv, PTL
==============================================================================
