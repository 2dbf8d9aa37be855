------------------------- MODULE RoutingServiceProofs -------------------------
(***************************************************************************)
(* Proof that Routing implements MuxService, for any number of clients,    *)
(* sockets, invokeids, requests and failures.                              *)
(***************************************************************************)
EXTENDS RoutingMappingsProofs

-----------------------------------------------------------------------------
(* Where the requests are. *)

ReqsOf(S) == {p.req : p \in S}

\* The requests that were read and are not sent to the server.
UnsentReqs ==
    {q.pdu.req : q \in Range(r_in_messages)}
        \cup (IF held_in = None THEN {} ELSE {held_in.pdu.req})
        \cup ReqsOf(OutPdus)

\* The replies that wait for the client at socket s.
RepliesAt(s) == Range(w_in_messages[s]) \cup ({w_buffer[s]} \ {None})

\* The requests that were sent to the server.
ForwardedReqs ==
    ReqsOf(server) \cup ReqsOf(Range(r_out_messages))
        \cup ReqsOf({held_out} \ {None})
        \cup UNION {ReqsOf(RepliesAt(s)) : s \in Socket}

\* The requests that the server has, and the replies that are not routed yet.
AwaitedPdus == server \cup Range(r_out_messages) \cup InHand

AwaitedReqs == ReqsOf(AwaitedPdus)

RoutedReqs == UNION {ReqsOf(RepliesAt(s)) : s \in connections}

\* The requests that a cleanup of the connection to the server does not lose.
Live ==
    UnsentReqs \cup ReqsOf(Range(r_out_messages)) \cup ReqsOf(InHand)
        \cup RoutedReqs \cup (IF is_out_connection_OK THEN ReqsOf(server) ELSE {})

Connected == {owner[s] : s \in connections}

\* What was sent to the server comes before what was not.
ForwardedInOrder ==
    \A r \in ForwardedReqs :
        /\ r[2] <= sent[r[1]]
        /\ \A q \in UnsentReqs : Precedes(r, q)

Once(q) == \A i, j \in 1 .. Len(q) : q[i].req = q[j].req => i = j

\* The server answers a request once, and its reply is taken in hand once.
AnsweredOnce ==
    /\ \A p, q \in server : p.req = q.req => p = q
    /\ Once(r_out_messages)
    /\ ReqsOf(server) \cap ReqsOf(Range(r_out_messages)) = {}
    /\ held_out # None =>
           held_out.req \notin ReqsOf(server) \cup ReqsOf(Range(r_out_messages))

\* Of the replies that wait at socket s, each was routed once.
RoutedOnceAt(s) ==
    /\ Once(w_in_messages[s])
    /\ ReqsOf(RepliesAt(s)) \cap AwaitedReqs = {}
    /\ w_buffer[s] # None =>
           w_buffer[s].req \notin ReqsOf(Range(w_in_messages[s]))

RoutedOnce == \A s \in connections : RoutedOnceAt(s)

\* The mapping that routes the reply to request r under invokeid id.
Mapped(r, id) ==
    \E m \in socket_to_recv_unicast_msg :
        m.req = r /\ m.invokeid_generated = id

\* The reply to a request of a connected client will find its mapping.
StillMapped ==
    /\ \A p \in OutPdus \cup AwaitedPdus :
           p.req[1] \in Connected => Mapped(p.req, p.invokeid)
    /\ pc = "send" /\ held_in.pdu.req[1] \in Connected =>
           Mapped(held_in.pdu.req, invokeid_gen_counter)

Settled(r) == Contains(received[r[1]], Mux!Reply(r)) \/ r \in Unencodable

\* No request of a connected client has disappeared.
Conserved ==
    \A c \in Connected : \A n \in 1 .. sent[c] :
        <<c, n>> \in Live \/ Settled(<<c, n>>)

\* The replies carry the invokeids that clients use.
InvokeidsOriginal ==
    \A s \in Socket : \A p \in RepliesAt(s) : p.invokeid \in 1 .. MaxRequests

ServiceInv ==
    /\ ForwardedInOrder
    /\ AnsweredOnce
    /\ InvokeidsOriginal
    /\ idClash \/ RoutedOnce
    /\ idClash \/ OutConnectionLocked \/ StillMapped
    /\ \/ idClash
       \/ OutConnectionLocked
       \/ is_out_connection_OK /\ out_failed
       \/ Conserved

-----------------------------------------------------------------------------

\* The muxer starts with empty queues and buffers.
LEMMA InitEmpty ==
    ASSUME Init
    PROVE  /\ Range(r_out_messages) = {} /\ Len(r_out_messages) = 0
           /\ \A s \in Socket : Range(w_in_messages[s]) = {}
           /\ UnsentReqs = {} /\ ForwardedReqs = {}
           /\ OutPdus = {} /\ InHand = {}
<1>1. /\ Range(r_in_messages) = {} /\ Range(w_out_messages) = {}
      /\ Range(r_out_messages) = {}
      /\ \A s \in Socket : Range(w_in_messages[s]) = {}
      /\ Len(r_out_messages) = 0
  BY DEF Init, Range
<1> QED
  BY <1>1 DEF Init, UnsentReqs, ForwardedReqs, OutPdus, InHand, ReqsOf,
              RepliesAt

\* The muxer starts without any request.
LEMMA InitServiceInv == Init => ServiceInv
<1> SUFFICES ASSUME Init PROVE ServiceInv
  OBVIOUS
<1>1. /\ Range(r_out_messages) = {} /\ Len(r_out_messages) = 0
      /\ \A s \in Socket : Range(w_in_messages[s]) = {}
  BY InitEmpty
<1>2. UnsentReqs = {} /\ ForwardedReqs = {} /\ OutPdus = {} /\ InHand = {}
  BY InitEmpty
<1>3. ForwardedInOrder /\ RoutedOnce /\ Conserved
  BY <1>2 DEF Init, ForwardedInOrder, RoutedOnce, Conserved, Connected
<1>4. AnsweredOnce
  BY <1>1 DEF Init, AnsweredOnce, Once, ReqsOf
<1>5. StillMapped
  BY <1>1, <1>2 DEF Init, StillMapped, AwaitedPdus
<1>6. InvokeidsOriginal
  BY <1>1 DEF Init, InvokeidsOriginal, RepliesAt
<1> QED
  BY <1>3, <1>4, <1>5, <1>6 DEF ServiceInv
-----------------------------------------------------------------------------
(* The order of what was sent and what was not. *)

\* The queues are sequences, and whatever is in one has its type.
LEMMA QueuesTyped ==
    ASSUME TypeOK
    PROVE  /\ r_in_messages \in Seq(InMessage)
           /\ w_out_messages \in Seq(Pdu)
           /\ r_out_messages \in Seq(Pdu)
           /\ \A s \in Socket : w_in_messages[s] \in Seq(Pdu)
           /\ \A s \in Socket : w_buffer[s] # None => w_buffer[s] \in Pdu
           /\ held_out # None => held_out \in Pdu
           /\ held_in # None => held_in \in InMessage
BY DEF TypeOK, QueuesTypeOK, ClientSideTypeOK, ProcessingTypeOK

\* Whatever was read is a request: a client and a number.
LEMMA ReqsTyped ==
    ASSUME TypeOK
    PROVE  /\ UnsentReqs \subseteq Request /\ ForwardedReqs \subseteq Request
           /\ \A r \in Request : r[1] \in Client /\ r[2] \in 1 .. MaxRequests
<1>1. /\ \A q \in Range(r_in_messages) : q \in InMessage
      /\ \A p \in Range(w_out_messages) \cup Range(r_out_messages) : p \in Pdu
      /\ \A s \in Socket : \A p \in Range(w_in_messages[s]) : p \in Pdu
  BY QueuesTyped, RangeOfSeq DEF Range
<1>2. \A s \in Socket : \A p \in RepliesAt(s) : p \in Pdu
  BY <1>1, QueuesTyped DEF RepliesAt
<1>3. \A p \in server \cup OutPdus : p \in Pdu
  BY <1>1 DEF TypeOK, EnvironmentTypeOK, OutConnectionTypeOK, OutPdus
<1>4. UnsentReqs \subseteq Request
  BY <1>1, <1>3, QueuesTyped DEF UnsentReqs, ReqsOf, InMessage, Pdu
<1>5. ForwardedReqs \subseteq Request
  BY <1>1, <1>2, <1>3, QueuesTyped DEF ForwardedReqs, ReqsOf, Pdu
<1> QED
  BY <1>4, <1>5 DEF Request

\* Taking the first element of a queue takes nothing else.
LEMMA TakeRange ==
    ASSUME NEW S, NEW q \in Seq(S), q # <<>>
    PROVE  Range(q) = {Head(q)} \cup Range(Tail(q))
<1>1. /\ Len(q) \in Nat /\ Len(q) > 0 /\ Head(q) = q[1]
      /\ Range(q) = {q[i] : i \in 1 .. Len(q)}
      /\ Range(Tail(q)) = {q[i] : i \in 2 .. Len(q)}
  BY TakeElements
<1>2. 1 .. Len(q) = {1} \cup (2 .. Len(q))
  BY <1>1
<1> QED
  BY <1>1, <1>2

\* What the client side does with the replies adds none.
LEMMA RepliesLeft ==
    ASSUME TypeOK, NEW s \in Socket,
           \/ DropClient(s) \/ WriteDataToInBuffer(s) \/ WriteInSocket(s)
           \/ FreeInvalidMessage(s)
    PROVE  \A t \in Socket : RepliesAt(t)' \subseteq RepliesAt(t)
<1> USE QueuesTyped DEF TypeOK, QueuesTypeOK, ClientSideTypeOK
<1>1. CASE DropClient(s) \/ WriteInSocket(s)
  BY <1>1 DEF DropClient, WriteInSocket, queue_vars, RepliesAt
<1>2. CASE WriteDataToInBuffer(s)
  <2>1. Range(w_in_messages[s]) = {Head(w_in_messages[s])} \cup Range(Tail(w_in_messages[s]))
    BY <1>2, TakeRange DEF WriteDataToInBuffer
  <2> QED
    BY <1>2, <2>1 DEF WriteDataToInBuffer, RepliesAt
<1>3. CASE FreeInvalidMessage(s)
  <2>1. PICK i \in 1 .. Len(w_in_messages[s]) :
            w_in_messages' = [w_in_messages EXCEPT ![s] = RemoveAt(@, i)]
    BY <1>3 DEF FreeInvalidMessage
  <2>2. Range(RemoveAt(w_in_messages[s], i)) \subseteq Range(w_in_messages[s])
    BY RemoveAtContents
  <2> QED
    BY <1>3, <2>1, <2>2 DEF FreeInvalidMessage, RepliesAt, in_vars
<1> QED
  BY <1>1, <1>2, <1>3

\* A step that neither reads a request nor sends one.
NothingSent ==
    /\ UnsentReqs' \subseteq UnsentReqs
    /\ ForwardedReqs' \subseteq ForwardedReqs
    /\ sent' = sent

\* Apart from reading requests, comm_r and comm_w send nothing for the clients.
LEMMA ClientSideSendsNothing ==
    ASSUME TypeOK, TypeOK', ClientSide,
           \A s \in Socket : ~ReadInSocket(s)
    PROVE  NothingSent
<1> USE QueuesTyped
<1>1. ASSUME NEW c \in Client, NEW s \in Socket, AcceptClient(c, s)
      PROVE  NothingSent
  <2>1. ForwardedReqs' \subseteq ForwardedReqs
    BY <1>1 DEF AcceptClient, ForwardedReqs, ReqsOf, RepliesAt, queue_vars,
                env_vars, proc_vars, TypeOK, ClientSideTypeOK
  <2>2. UnsentReqs' = UnsentReqs /\ sent' = sent
    BY <1>1 DEF AcceptClient, UnsentReqs, OutPdus, queue_vars, env_vars,
                proc_vars, out_vars
  <2> QED
    BY <2>1, <2>2 DEF NothingSent
<1>3. ASSUME NEW s \in Socket,
             DropClient(s) \/ WriteDataToInBuffer(s) \/ WriteInSocket(s)
               \/ FreeInvalidMessage(s)
      PROVE  NothingSent
  <2>1. /\ UNCHANGED <<server, r_out_messages, held_out, sent>>
        /\ UnsentReqs' = UnsentReqs
    BY <1>3 DEF DropClient, WriteDataToInBuffer, WriteInSocket,
                FreeInvalidMessage, queue_vars, env_vars, proc_vars, out_vars,
                UnsentReqs, OutPdus
  <2>2. \A t \in Socket : RepliesAt(t)' \subseteq RepliesAt(t)
    BY <1>3, RepliesLeft
  <2> QED
    BY <2>1, <2>2 DEF NothingSent, ForwardedReqs, ReqsOf
<1> QED
  BY <1>1, <1>3 DEF ClientSide

\* Apart from writing to the server, comm_r and comm_w send it nothing.
LEMMA ServerSideSendsNothing ==
    ASSUME OrderInv, TypeOK', ServerSide, ~WriteOutSocket
    PROVE  NothingSent
<1> USE QueuesTyped DEF OrderInv
<1>1. ASSUME NEW p \in server, ReadOutSocket(p)
      PROVE  NothingSent
  <2>1. Range(r_out_messages') = Range(r_out_messages) \cup {p}
    BY <1>1, AppendContents DEF ReadOutSocket, TypeOK, EnvironmentTypeOK
  <2>2. ReqsOf(server') \cup ReqsOf(Range(r_out_messages'))
            \subseteq ReqsOf(server) \cup ReqsOf(Range(r_out_messages))
    BY <1>1, <2>1 DEF ReadOutSocket, ReqsOf
  <2>3. UNCHANGED <<held_out, w_in_messages, w_buffer, sent>>
    BY <1>1 DEF ReadOutSocket, proc_vars, in_vars
  <2>4. ForwardedReqs' \subseteq ForwardedReqs
    BY <2>2, <2>3 DEF ForwardedReqs, RepliesAt
  <2>5. UnsentReqs' = UnsentReqs
    BY <1>1 DEF ReadOutSocket, proc_vars, in_vars, UnsentReqs, OutPdus, out_vars
  <2> QED
    BY <2>3, <2>4, <2>5 DEF NothingSent
<1>2. CASE OutSocketFails \/ DetectFailure
  <2>1. /\ UNCHANGED <<held_out, w_in_messages, w_buffer, sent, r_out_messages>>
        /\ server' \subseteq server
    BY <1>2 DEF OutSocketFails, DetectFailure, proc_vars, in_vars, queue_vars,
                env_vars
  <2>2. ForwardedReqs' \subseteq ForwardedReqs
    BY <2>1 DEF ForwardedReqs, ReqsOf, RepliesAt
  <2>3. UnsentReqs' = UnsentReqs
    BY <1>2 DEF OutSocketFails, DetectFailure, proc_vars, queue_vars, out_vars,
                UnsentReqs, OutPdus
  <2> QED
    BY <2>1, <2>2, <2>3 DEF NothingSent
<1>3. CASE WriteDataToOutBuffer
  <2>1. OutPdus' = OutPdus
    <3>1. Range(w_out_messages) = {Head(w_out_messages)} \cup Range(w_out_messages')
      BY <1>3, TakeRange DEF WriteDataToOutBuffer
    <3>2. Head(w_out_messages) # None
      BY <1>3, TakeContents, RoutingAssumption
      DEF WriteDataToOutBuffer, RoutingAssumption
    <3> QED
      BY <1>3, <3>1, <3>2 DEF WriteDataToOutBuffer, OutPdus
  <2>2. UnsentReqs' = UnsentReqs
    BY <1>3, <2>1 DEF WriteDataToOutBuffer, UnsentReqs, proc_vars, ReqsOf
  <2>3. ForwardedReqs' = ForwardedReqs /\ sent' = sent
    BY <1>3 DEF WriteDataToOutBuffer, ForwardedReqs, ReqsOf, RepliesAt,
                in_vars, proc_vars, env_vars
  <2> QED
    BY <2>2, <2>3 DEF NothingSent
<1> QED
  BY <1>1, <1>2, <1>3 DEF ServerSide

\* Connecting, taking replies and requests in hand, routing replies and
\* mapping and forwarding requests sends nothing.
LEMMA ProcessingSendsNothing ==
    ASSUME OrderInv, TypeOK', Processing
    PROVE  NothingSent
<1> USE QueuesTyped DEF OrderInv
<1>1. CASE \/ CheckOutput \/ ConnectToOutput \/ EnterLookup \/ EndRoute
           \/ MapRequest
  <2>1. /\ UNCHANGED <<w_in_messages, w_buffer, sent, r_out_messages>>
        /\ held_out' \in {held_out, None} /\ server' \subseteq server
    BY <1>1 DEF CheckOutput, ConnectToOutput, EnterLookup, EndRoute, MapRequest,
                in_vars, queue_vars, env_vars
  <2>2. ForwardedReqs' \subseteq ForwardedReqs
    BY <2>1 DEF ForwardedReqs, ReqsOf, RepliesAt
  <2>3. UnsentReqs' = UnsentReqs
    BY <1>1 DEF CheckOutput, ConnectToOutput, EnterLookup, EndRoute, MapRequest,
                queue_vars, out_vars, UnsentReqs, OutPdus
  <2> QED
    BY <2>1, <2>2, <2>3 DEF NothingSent
<1>2. CASE TakeOutMessage
  <2>1. /\ UNCHANGED <<w_in_messages, w_buffer, sent, server>>
        /\ UnsentReqs' = UnsentReqs
    BY <1>2 DEF TakeOutMessage, in_vars, env_vars, out_vars, UnsentReqs, OutPdus
  <2>2. ReqsOf(Range(r_out_messages')) \cup ReqsOf({held_out'} \ {None})
            \subseteq ReqsOf(Range(r_out_messages))
                          \cup ReqsOf({held_out} \ {None})
    <3>1. CASE r_out_messages = <<>>
      BY <1>2, <3>1 DEF TakeOutMessage
    <3>2. CASE r_out_messages # <<>>
      <4>1. Range(r_out_messages) = {held_out'} \cup Range(r_out_messages')
        BY <1>2, <3>2, TakeRange DEF TakeOutMessage
      <4> QED
        BY <4>1 DEF ReqsOf
    <3> QED
      BY <3>1, <3>2
  <2>3. ForwardedReqs' \subseteq ForwardedReqs
    <3>1. /\ ReqsOf(server') = ReqsOf(server)
          /\ \A s \in Socket : ReqsOf(RepliesAt(s))' = ReqsOf(RepliesAt(s))
      BY <2>1 DEF ReqsOf, RepliesAt
    <3> QED
      BY <2>2, <3>1 DEF ForwardedReqs
  <2> QED
    BY <2>1, <2>3 DEF NothingSent
<1>3. ASSUME NEW m \in socket_to_recv_unicast_msg, RouteReply(m)
      PROVE  NothingSent
  <2>1. /\ UNCHANGED <<w_buffer, sent, r_out_messages, server, held_out>>
        /\ UnsentReqs' = UnsentReqs
    BY <1>3 DEF RouteReply, in_vars, env_vars, proc_vars, out_vars, UnsentReqs,
                OutPdus
  <2>2. m.socket \in Socket /\ held_out \in Pdu /\ m.invokeid_original \in Nat
    BY <1>3 DEF RouteReply, TypeOK, MappingsTypeOK, Mapping, ProcessingTypeOK
  <2> DEFINE y == [held_out EXCEPT !.invokeid = m.invokeid_original]
  <2>3. y \in Pdu /\ y.req = held_out.req
    BY <2>2 DEF Pdu
  <2>4. \A s \in Socket :
          w_in_messages'[s] = IF s = m.socket THEN Append(w_in_messages[s], y)
                                              ELSE w_in_messages[s]
    BY <1>3, <2>2 DEF RouteReply, TypeOK, QueuesTypeOK
  <2> HIDE DEF y
  <2>5. \A s \in Socket : RepliesAt(s)' \subseteq RepliesAt(s) \cup {y}
    <3> TAKE s \in Socket
    <3>1. Range(Append(w_in_messages[s], y)) = Range(w_in_messages[s]) \cup {y}
      BY <2>3, AppendContents
    <3> QED
      BY <2>1, <2>4, <3>1 DEF RepliesAt
  <2>6. held_out \in {held_out} \ {None}
    BY <2>2, RoutingAssumption DEF RoutingAssumption
  <2>7. held_out.req \in ForwardedReqs
    BY <2>6 DEF ForwardedReqs, ReqsOf
  <2>8. \A s \in Socket : ReqsOf(RepliesAt(s)') \subseteq ForwardedReqs
    <3> TAKE s \in Socket
    <3>1. \A p \in RepliesAt(s)' : p \in RepliesAt(s) \/ p.req = held_out.req
      BY <2>3, <2>5
    <3>2. \A p \in RepliesAt(s) : p.req \in ForwardedReqs
      BY DEF ForwardedReqs, ReqsOf
    <3> QED
      BY <2>7, <3>1, <3>2 DEF ReqsOf
  <2>9. ForwardedReqs' \subseteq ForwardedReqs
    BY <2>1, <2>8 DEF ForwardedReqs, ReqsOf
  <2> QED
    BY <2>1, <2>9 DEF NothingSent
<1>4. CASE TakeInMessage
  <2>1. /\ UNCHANGED <<w_in_messages, w_buffer, sent, r_out_messages, server,
                       held_out>>
        /\ OutPdus' = OutPdus
    BY <1>4 DEF TakeInMessage, in_vars, env_vars, out_vars, OutPdus
  <2>2. ForwardedReqs' = ForwardedReqs
    BY <2>1 DEF ForwardedReqs, ReqsOf, RepliesAt
  <2>3. UnsentReqs' \subseteq UnsentReqs
    <3>1. CASE r_in_messages = <<>>
      BY <1>4, <2>1, <3>1 DEF TakeInMessage, UnsentReqs, ReqsOf
    <3>2. CASE r_in_messages # <<>>
      <4>1. Range(r_in_messages) = {held_in'} \cup Range(r_in_messages')
        BY <1>4, <3>2, TakeRange DEF TakeInMessage
      <4>2. ReqsOf(OutPdus)' = ReqsOf(OutPdus)
        BY <2>1 DEF ReqsOf
      <4> QED
        BY <4>1, <4>2 DEF UnsentReqs
    <3> QED
      BY <3>1, <3>2
  <2> QED
    BY <2>1, <2>2, <2>3 DEF NothingSent
<1>5. CASE ForwardRequest
  <2>1. /\ UNCHANGED <<w_in_messages, w_buffer, sent, r_out_messages, server,
                       held_out, r_in_messages, out_w_buffer>>
        /\ held_in # None /\ held_in' = None
    BY <1>5 DEF ForwardRequest, in_vars, env_vars, out_vars, TypeOK,
                ProcessingTypeOK
  <2>2. ForwardedReqs' = ForwardedReqs
    BY <2>1 DEF ForwardedReqs, ReqsOf, RepliesAt
  <2> DEFINE x == [held_in.pdu EXCEPT !.invokeid = invokeid_gen_counter]
  <2>3. x \in Pdu /\ x.req = held_in.pdu.req
    <3>1. held_in.pdu \in Pdu
      BY <2>1 DEF InMessage
    <3>2. invokeid_gen_counter \in Nat
      BY RoutingAssumption DEF RoutingAssumption, TypeOK, MappingsTypeOK
    <3> QED
      BY <3>1, <3>2 DEF Pdu
  <2>4. w_out_messages' \in {w_out_messages, Append(w_out_messages, x)}
    BY <1>5 DEF ForwardRequest
  <2> HIDE DEF x
  <2>5. Range(w_out_messages') \subseteq Range(w_out_messages) \cup {x}
    BY <2>3, <2>4, AppendContents
  <2>6. ReqsOf(OutPdus') \subseteq ReqsOf(OutPdus) \cup {held_in.pdu.req}
    BY <2>1, <2>3, <2>5 DEF ReqsOf, OutPdus
  <2>7. UnsentReqs' \subseteq UnsentReqs
    BY <2>1, <2>6 DEF UnsentReqs, ReqsOf
  <2> QED
    BY <2>1, <2>2, <2>7 DEF NothingSent
<1> QED
  BY <1>1, <1>2, <1>3, <1>4, <1>5 DEF Processing

\* The cleanup only takes away.
LEMMA CleanupSendsNothing ==
    ASSUME TypeOK, Cleanup
    PROVE  NothingSent
<1>1. /\ UNCHANGED <<server, held_out, held_in, sent>>
      /\ r_out_messages' \in {r_out_messages, <<>>}
      /\ r_in_messages' \in {r_in_messages, <<>>}
      /\ w_out_messages' \in {w_out_messages, <<>>}
      /\ out_w_buffer' \in {out_w_buffer, None}
      /\ \A s \in Socket : /\ w_in_messages'[s] \in {w_in_messages[s], <<>>}
                           /\ w_buffer'[s] \in {w_buffer[s], None}
  BY DEF Cleanup, BeginCleanup, FreeRInMessages, FreeWInMessages,
         FreeROutMessages, FreeWOutMessages, RemoveMappingsFor,
         EndRemoveMappings, RemoveConnection, EndCleanup, Rearm, in_vars,
         queue_vars, proc_vars, out_vars, env_vars, TypeOK, ClientSideTypeOK
<1>2. Range(<<>>) = {}
  BY DEF Range
<1>3. /\ Range(r_out_messages') \subseteq Range(r_out_messages)
      /\ Range(r_in_messages') \subseteq Range(r_in_messages)
      /\ OutPdus' \subseteq OutPdus
      /\ \A s \in Socket : RepliesAt(s)' \subseteq RepliesAt(s)
  BY <1>1, <1>2 DEF OutPdus, RepliesAt
<1>4. UnsentReqs' \subseteq UnsentReqs
  BY <1>1, <1>3 DEF UnsentReqs, ReqsOf
<1>5. ForwardedReqs' \subseteq ForwardedReqs
  BY <1>1, <1>3 DEF ForwardedReqs, ReqsOf
<1> QED
  BY <1>1, <1>4, <1>5 DEF NothingSent

\* The request that is read is the next one of its client.
LEMMA ReadInSocketReads ==
    ASSUME TypeOK, TypeOK', NEW s \in Socket, ReadInSocket(s),
           NEW c, c = owner[s], NEW n, n = sent[c] + 1
    PROVE  /\ c \in Client /\ sent[c] \in Nat
           /\ sent' = [sent EXCEPT ![c] = n]
           /\ UnsentReqs' = UnsentReqs \cup {<<c, n>>}
           /\ ForwardedReqs' = ForwardedReqs
<1> DEFINE e == [socket |-> s, pdu |-> [invokeid |-> n, req |-> <<c, n>>]]
<1>1. /\ c \in Client /\ sent[c] \in Nat
      /\ sent' = [sent EXCEPT ![c] = n]
      /\ r_in_messages' = Append(r_in_messages, e)
      /\ UNCHANGED <<in_vars, w_in_messages, r_out_messages, w_out_messages,
                     proc_vars, out_vars, server>>
  BY DEF ReadInSocket, TypeOK, ClientSideTypeOK, EnvironmentTypeOK
<1>2. e \in InMessage /\ e.pdu.req = <<c, n>>
  <2>1. n \in 1 .. MaxRequests
    BY <1>1, RoutingAssumption
    DEF ReadInSocket, RoutingAssumption, TypeOK, EnvironmentTypeOK
  <2> QED
    BY <1>1, <2>1 DEF InMessage, Pdu, Request
<1> HIDE DEF e
<1>3. Range(r_in_messages') = Range(r_in_messages) \cup {e}
  <2>1. r_in_messages' \in Seq(InMessage) /\ r_in_messages \in Seq(InMessage)
    BY DEF TypeOK, QueuesTypeOK
  <2> QED
    BY <1>1, <1>2, <2>1, AppendContents
<1>4. UnsentReqs' = UnsentReqs \cup {<<c, n>>}
  <2>1. OutPdus' = OutPdus /\ held_in' = held_in
    BY <1>1 DEF OutPdus, proc_vars, out_vars
  <2>2. ReqsOf(OutPdus)' = ReqsOf(OutPdus)
    BY <2>1 DEF ReqsOf
  <2>3. {q.pdu.req : q \in Range(r_in_messages')}
            = {q.pdu.req : q \in Range(r_in_messages)} \cup {<<c, n>>}
    <3>1. \A A : {q.pdu.req : q \in A \cup {e}}
                     = {q.pdu.req : q \in A} \cup {e.pdu.req}
      OBVIOUS
    <3> QED
      BY <1>2, <1>3, <3>1
  <2> QED
    BY <2>1, <2>2, <2>3 DEF UnsentReqs
<1>5. ForwardedReqs' = ForwardedReqs
  <2>1. /\ UNCHANGED <<r_out_messages, server, held_out, w_in_messages,
                       w_buffer>>
    BY <1>1 DEF in_vars, proc_vars
  <2> QED
    BY <2>1 DEF ForwardedReqs, ReqsOf, RepliesAt
<1> QED
  BY <1>1, <1>4, <1>5

\* The request that is written to the server was the first of its client that
\* was not sent.
LEMMA WriteOutSocketSends ==
    ASSUME OrderInv, WriteOutSocket, NEW x, x = out_w_buffer.req
    PROVE  /\ x \in UnsentReqs /\ UnsentReqs' \subseteq UnsentReqs
           /\ ForwardedReqs' = ForwardedReqs \cup {x}
           /\ sent' = sent
           /\ x[2] <= sent[x[1]]
           /\ \A q \in UnsentReqs' : Precedes(x, q)
<1> USE DEF OrderInv
<1>1. /\ UNCHANGED <<held_out, w_in_messages, w_buffer, sent, r_out_messages,
                     r_in_messages, held_in, w_out_messages>>
      /\ out_w_buffer # None /\ out_w_buffer' = None
      /\ server' = server \cup {out_w_buffer}
  BY DEF WriteOutSocket, in_vars, queue_vars, proc_vars
<1>2. ReqsOf(server') = ReqsOf(server) \cup {x}
  BY <1>1 DEF ReqsOf
<1>3. OutPdus' = Range(w_out_messages) /\ OutPdus = OutPdus' \cup {out_w_buffer}
  BY <1>1 DEF OutPdus
<1>4. ReqsOf(OutPdus)' \subseteq ReqsOf(OutPdus) /\ x \in ReqsOf(OutPdus)
  BY <1>3 DEF ReqsOf
<1>5. x \in UnsentReqs /\ UnsentReqs' \subseteq UnsentReqs
  BY <1>1, <1>4 DEF UnsentReqs
<1>6. ForwardedReqs' = ForwardedReqs \cup {x}
  <2>1. \A s \in Socket : ReqsOf(RepliesAt(s))' = ReqsOf(RepliesAt(s))
    BY <1>1 DEF RepliesAt, ReqsOf
  <2>2. /\ ReqsOf(Range(r_out_messages))' = ReqsOf(Range(r_out_messages))
        /\ ReqsOf({held_out} \ {None})' = ReqsOf({held_out} \ {None})
    BY <1>1 DEF ReqsOf
  <2> QED
    BY <1>2, <2>1, <2>2 DEF ForwardedReqs
<1>7. x[2] <= sent[x[1]]
  BY <1>3 DEF AllSent
<1>8. \A q \in UnsentReqs' : Precedes(x, q)
  <2>1. \A q \in Range(r_in_messages) : Precedes(x, q.pdu.req)
    BY <1>3 DEF WaitingInOrder
  <2>2. held_in # None => Precedes(x, held_in.pdu.req)
    BY <1>3 DEF HeldInOrder
  <2>3. \A p \in OutPdus' : Precedes(x, p.req)
    BY <1>1, <1>3 DEF QueuesInOrder
  <2> QED
    BY <1>1, <2>1, <2>2, <2>3 DEF UnsentReqs, ReqsOf
<1> QED
  BY <1>1, <1>5, <1>6, <1>7, <1>8

\* Every other step, stuttering included, neither reads nor sends a request.
LEMMA StepSendsNothing ==
    ASSUME OrderInv, [Next]_vars, ~WriteOutSocket,
           \A s \in Socket : ~ReadInSocket(s)
    PROVE  NothingSent
<1>1. TypeOK /\ TypeOK'
  BY StepTypeOK DEF OrderInv
<1>2. CASE UNCHANGED vars
  <2>1. UnsentReqs' = UnsentReqs /\ sent' = sent
    BY <1>2 DEF vars, queue_vars, proc_vars, out_vars, env_vars, UnsentReqs,
                OutPdus
  <2>2. ForwardedReqs' = ForwardedReqs
    BY <1>2 DEF vars, in_vars, queue_vars, proc_vars, env_vars, ForwardedReqs,
                ReqsOf, RepliesAt
  <2> QED
    BY <2>1, <2>2 DEF NothingSent
<1> QED
  BY <1>1, <1>2, ClientSideSendsNothing, ServerSideSendsNothing,
     ProcessingSendsNothing, CleanupSendsNothing DEF Next

\* Every step, stuttering included, keeps what was sent before what was not.
LEMMA StepForwardedInOrder ==
    ASSUME OrderInv, ForwardedInOrder, [Next]_vars PROVE ForwardedInOrder'
<1>1. TypeOK /\ TypeOK'
  BY StepTypeOK DEF OrderInv
<1>2. ASSUME NEW s \in Socket, ReadInSocket(s)
      PROVE  ForwardedInOrder'
  <2> PICK c, n : c = owner[s] /\ n = sent[c] + 1
    OBVIOUS
  <2>1. /\ c \in Client /\ sent[c] \in Nat
        /\ sent' = [sent EXCEPT ![c] = n]
        /\ UnsentReqs' = UnsentReqs \cup {<<c, n>>}
        /\ ForwardedReqs' = ForwardedReqs
    BY <1>1, <1>2, ReadInSocketReads
  <2>2. \A r \in ForwardedReqs :
          r[1] \in Client /\ r[2] \in Nat /\ r[2] <= sent[r[1]]
    BY <1>1, ReqsTyped, RoutingAssumption
    DEF ForwardedInOrder, RoutingAssumption
  <2>3. \A r \in ForwardedReqs : Precedes(r, <<c, n>>) /\ r[2] <= sent'[r[1]]
    BY <1>1, <2>1, <2>2 DEF Precedes, TypeOK, EnvironmentTypeOK
  <2> QED
    BY <2>1, <2>3 DEF ForwardedInOrder
<1>3. CASE WriteOutSocket
  <2> PICK x : x = out_w_buffer.req
    OBVIOUS
  <2> QED
    BY <1>3, WriteOutSocketSends DEF ForwardedInOrder
<1>4. CASE NothingSent
  BY <1>4 DEF NothingSent, ForwardedInOrder
<1> QED
  BY <1>2, <1>3, <1>4, StepSendsNothing

\* No request is both sent and not sent.
LEMMA UnsentNotForwarded ==
    ASSUME TypeOK, ForwardedInOrder
    PROVE  UnsentReqs \cap ForwardedReqs = {}
BY ReqsTyped, RoutingAssumption
DEF ForwardedInOrder, Precedes, RoutingAssumption
-----------------------------------------------------------------------------
(* Each request is answered once. *)

\* Appending another request keeps a queue free of repetitions.
LEMMA OnceAppend ==
    ASSUME NEW q \in Seq(Pdu), NEW e \in Pdu, Once(q),
           e.req \notin ReqsOf(Range(q))
    PROVE  Once(Append(q, e))
<1>1. /\ Len(q) \in Nat /\ Len(Append(q, e)) = Len(q) + 1
      /\ \A i \in 1 .. Len(q) : Append(q, e)[i] = q[i]
      /\ Append(q, e)[Len(q) + 1] = e
  BY AppendProperties, LenProperties
<1>2. \A i \in 1 .. Len(q) : q[i].req # e.req
  <2>1. \A i \in 1 .. Len(q) : q[i] \in Range(q)
    BY LenProperties DEF Range
  <2> QED
    BY <2>1 DEF ReqsOf
<1> QED
  BY <1>1, <1>2 DEF Once

\* In such a queue, the first request is not among the others.
LEMMA OnceTake ==
    ASSUME NEW q \in Seq(Pdu), q # <<>>, Once(q)
    PROVE  /\ Once(Tail(q))
           /\ Head(q).req \notin ReqsOf(Range(Tail(q)))
<1>1. /\ Len(q) \in Nat /\ Len(q) > 0
      /\ Head(q) = q[1]
      /\ Len(Tail(q)) = Len(q) - 1
      /\ \A i \in 1 .. Len(Tail(q)) : Tail(q)[i] = q[i + 1]
      /\ Range(Tail(q)) = {q[i] : i \in 2 .. Len(q)}
  BY TakeElements
<1>2. Once(Tail(q))
  BY <1>1 DEF Once
<1>3. \A i \in 2 .. Len(q) : q[i].req # q[1].req
  BY <1>1 DEF Once
<1> QED
  BY <1>1, <1>2, <1>3 DEF ReqsOf

\* A step at the end of which no other reply is in hand.
LEMMA HandOnlyEmptied ==
    ASSUME held_out' = held_out,
           \/ pc' \notin {"lookup", "route"}
           \/ /\ pc \in {"lookup", "route"} /\ pc' \in {pc, "route"}
              /\ pc = "route" => socket_to_recv_unicast_msg'
                                     \subseteq socket_to_recv_unicast_msg
    PROVE  InHand' \subseteq InHand
BY DEF InHand, Matching

\* What is awaited was awaited before, or has just been sent.
LEMMA StepAwaited ==
    ASSUME OrderInv, [Next]_vars
    PROVE  AwaitedPdus' \subseteq AwaitedPdus \cup ({out_w_buffer} \ {None})
<1> USE QueuesTyped DEF OrderInv
<1>1. TypeOK'
  BY StepTypeOK
<1>2. CASE \E p \in server : ReadOutSocket(p)
  <2>1. PICK p \in server : ReadOutSocket(p)
    BY <1>2
  <2>2. Range(r_out_messages') = Range(r_out_messages) \cup {p}
    BY <2>1, AppendContents DEF ReadOutSocket, TypeOK, EnvironmentTypeOK
  <2>3. InHand' = InHand /\ server' \subseteq server
    BY <2>1 DEF ReadOutSocket, proc_vars, map_vars, InHand, Matching
  <2> QED
    BY <2>2, <2>3 DEF AwaitedPdus
<1>3. CASE WriteOutSocket
  <2>1. /\ r_out_messages' = r_out_messages /\ InHand' = InHand
        /\ out_w_buffer # None /\ server' = server \cup {out_w_buffer}
    BY <1>3 DEF WriteOutSocket, proc_vars, map_vars, queue_vars, InHand,
                Matching
  <2> QED
    BY <2>1 DEF AwaitedPdus
<1>4. CASE TakeOutMessage
  <2>1. server' = server
    BY <1>4 DEF TakeOutMessage, env_vars
  <2>2. Range(r_out_messages') \cup InHand' \subseteq Range(r_out_messages)
    <3>1. CASE r_out_messages = <<>>
      BY <1>4, <3>1 DEF TakeOutMessage, InHand
    <3>2. CASE r_out_messages # <<>>
      <4>1. Range(r_out_messages) = {held_out'} \cup Range(r_out_messages')
        BY <1>4, <3>2, TakeRange DEF TakeOutMessage
      <4> QED
        BY <4>1 DEF InHand
    <3> QED
      BY <3>1, <3>2
  <2> QED
    BY <2>1, <2>2 DEF AwaitedPdus
<1>5. ASSUME server' \subseteq server,
             r_out_messages' \in {r_out_messages, <<>>},
             InHand' \subseteq InHand
      PROVE  AwaitedPdus' \subseteq AwaitedPdus
  <2>1. Range(r_out_messages') \subseteq Range(r_out_messages)
    BY <1>5 DEF Range
  <2> QED
    BY <1>5, <2>1 DEF AwaitedPdus
<1>6. CASE ClientSide
  <2>1. UNCHANGED <<server, r_out_messages, held_out, pc>>
    BY <1>6 DEF ClientSide, AcceptClient, ReadInSocket, DropClient,
                WriteDataToInBuffer, WriteInSocket, FreeInvalidMessage,
                queue_vars, env_vars, proc_vars
  <2>2. pc = "route" => socket_to_recv_unicast_msg' = socket_to_recv_unicast_msg
    BY <1>6 DEF ClientSide, AcceptClient, ReadInSocket, DropClient,
                WriteDataToInBuffer, WriteInSocket, FreeInvalidMessage,
                map_vars, MappingsLocked
  <2> QED
    BY <1>5, <2>1, <2>2, HandOnlyEmptied
<1>7. CASE OutSocketFails \/ DetectFailure \/ WriteDataToOutBuffer
  <2>1. /\ UNCHANGED <<r_out_messages, held_out, pc, socket_to_recv_unicast_msg>>
        /\ server' \subseteq server
    BY <1>7 DEF OutSocketFails, DetectFailure, WriteDataToOutBuffer,
                queue_vars, env_vars, proc_vars, map_vars
  <2> QED
    BY <1>5, <2>1, HandOnlyEmptied
<1>8. CASE \/ CheckOutput \/ ConnectToOutput \/ TakeInMessage \/ MapRequest
           \/ ForwardRequest \/ EnterLookup \/ EndRoute
  <2>1. r_out_messages' = r_out_messages /\ server' \subseteq server
    BY <1>8 DEF CheckOutput, ConnectToOutput, TakeInMessage, MapRequest,
                ForwardRequest, EnterLookup, EndRoute, queue_vars, env_vars
  <2>2. InHand' \subseteq InHand
    <3>1. CASE EnterLookup
      BY <3>1, HandOnlyEmptied DEF EnterLookup, proc_vars
    <3>2. CASE ~EnterLookup
      BY <1>8, <3>2 DEF CheckOutput, ConnectToOutput, TakeInMessage, MapRequest,
                ForwardRequest, EndRoute, InHand
    <3> QED
      BY <3>1, <3>2
  <2> QED
    BY <1>5, <2>1, <2>2
<1>9. ASSUME NEW m \in socket_to_recv_unicast_msg, RouteReply(m)
      PROVE  AwaitedPdus' \subseteq AwaitedPdus
  BY <1>5, <1>9, HandOnlyEmptied DEF RouteReply, proc_vars, env_vars
<1>10. CASE Cleanup
  <2>1. /\ UNCHANGED <<server, held_out, pc>>
        /\ r_out_messages' \in {r_out_messages, <<>>}
        /\ socket_to_recv_unicast_msg' \subseteq socket_to_recv_unicast_msg
    BY <1>10 DEF Cleanup, BeginCleanup, FreeRInMessages, FreeWInMessages,
           FreeROutMessages, FreeWOutMessages, RemoveMappingsFor,
           EndRemoveMappings, RemoveConnection, EndCleanup, Rearm,
           queue_vars, proc_vars, map_vars, env_vars
  <2> QED
    BY <1>5, <2>1, HandOnlyEmptied
<1>11. CASE UNCHANGED vars
  BY <1>5, <1>11, HandOnlyEmptied
  DEF vars, queue_vars, proc_vars, map_vars, env_vars
<1> QED
  BY <1>2, <1>3, <1>4, <1>6, <1>7, <1>8, <1>9, <1>10, <1>11
  DEF Next, ServerSide, Processing

\* Every step, stuttering included, leaves one reply to a request.
LEMMA StepAnsweredOnce ==
    ASSUME OrderInv, ForwardedInOrder, AnsweredOnce, [Next]_vars
    PROVE  AnsweredOnce'
<1> USE QueuesTyped DEF OrderInv
<1>1. TypeOK'
  BY StepTypeOK
<1>2. CASE \E p \in server : ReadOutSocket(p)
  <2>1. PICK p \in server : ReadOutSocket(p)
    BY <1>2
  <2>2. /\ p \in Pdu /\ held_out' = held_out /\ server' = server \ {p}
        /\ r_out_messages' = Append(r_out_messages, p)
    BY <2>1 DEF ReadOutSocket, TypeOK, EnvironmentTypeOK, proc_vars
  <2>3. Range(r_out_messages') = Range(r_out_messages) \cup {p}
    BY <2>2, AppendContents
  <2>4. p.req \in ReqsOf(server) /\ p.req \notin ReqsOf(Range(r_out_messages))
    BY DEF AnsweredOnce, ReqsOf
  <2>5. Once(r_out_messages')
    BY <2>2, <2>4, OnceAppend DEF AnsweredOnce
  <2>6. ReqsOf(server') = ReqsOf(server) \ {p.req}
    BY <2>2 DEF AnsweredOnce, ReqsOf
  <2>7. ReqsOf(Range(r_out_messages')) = ReqsOf(Range(r_out_messages)) \cup {p.req}
    BY <2>3 DEF ReqsOf
  <2> QED
    BY <2>2, <2>4, <2>5, <2>6, <2>7 DEF AnsweredOnce
<1>3. CASE WriteOutSocket
  <2>1. /\ UNCHANGED <<r_out_messages, held_out>>
        /\ server' = server \cup {out_w_buffer}
    BY <1>3 DEF WriteOutSocket, queue_vars, proc_vars
  <2>2. out_w_buffer.req \notin ForwardedReqs
    <3> PICK x : x = out_w_buffer.req
      OBVIOUS
    <3> QED
      BY <1>3, WriteOutSocketSends, UnsentNotForwarded
  <2>3. /\ out_w_buffer.req \notin ReqsOf(server)
        /\ out_w_buffer.req \notin ReqsOf(Range(r_out_messages))
        /\ held_out # None => out_w_buffer.req # held_out.req
    BY <2>2 DEF ForwardedReqs, ReqsOf
  <2>4. ReqsOf(server') = ReqsOf(server) \cup {out_w_buffer.req}
    BY <2>1 DEF ReqsOf
  <2>5. \A p, q \in server' : p.req = q.req => p = q
    BY <2>1, <2>3 DEF AnsweredOnce, ReqsOf
  <2>6. /\ Once(r_out_messages')
        /\ ReqsOf(Range(r_out_messages')) = ReqsOf(Range(r_out_messages))
        /\ held_out' = held_out
    BY <2>1 DEF AnsweredOnce
  <2>7. /\ ReqsOf(server') \cap ReqsOf(Range(r_out_messages')) = {}
        /\ held_out' # None =>
             held_out'.req \notin ReqsOf(server') \cup ReqsOf(Range(r_out_messages'))
    BY <2>3, <2>4, <2>6 DEF AnsweredOnce
  <2> QED
    BY <2>5, <2>6, <2>7 DEF AnsweredOnce
<1>4. CASE TakeOutMessage
  <2>1. server' = server
    BY <1>4 DEF TakeOutMessage, env_vars
  <2>2. CASE r_out_messages = <<>>
    BY <1>4, <2>1, <2>2 DEF TakeOutMessage, AnsweredOnce
  <2>3. CASE r_out_messages # <<>>
    <3>1. /\ held_out' = Head(r_out_messages)
          /\ r_out_messages' = Tail(r_out_messages)
      BY <1>4, <2>3 DEF TakeOutMessage
    <3>2. Range(r_out_messages) = {held_out'} \cup Range(r_out_messages')
      BY <2>3, <3>1, TakeRange
    <3>3. /\ Once(r_out_messages')
          /\ held_out'.req \notin ReqsOf(Range(r_out_messages'))
      BY <2>3, <3>1, OnceTake DEF AnsweredOnce
    <3>4. ReqsOf(Range(r_out_messages))
              = {held_out'.req} \cup ReqsOf(Range(r_out_messages'))
      BY <3>2 DEF ReqsOf
    <3> QED
      BY <2>1, <3>3, <3>4 DEF AnsweredOnce
  <2> QED
    BY <2>2, <2>3
<1>5. ASSUME server' \subseteq server,
             r_out_messages' \in {r_out_messages, <<>>},
             held_out' \in {held_out, None}
      PROVE  AnsweredOnce'
  <2>1. Range(r_out_messages') \subseteq Range(r_out_messages)
    BY <1>5 DEF Range
  <2>2. ReqsOf(server') \subseteq ReqsOf(server)
        /\ ReqsOf(Range(r_out_messages')) \subseteq ReqsOf(Range(r_out_messages))
    BY <1>5, <2>1 DEF ReqsOf
  <2>3. Once(r_out_messages')
    BY <1>5 DEF AnsweredOnce, Once
  <2> QED
    BY <1>5, <2>2, <2>3 DEF AnsweredOnce
<1>6. CASE ClientSide
  BY <1>5, <1>6 DEF ClientSide, AcceptClient, ReadInSocket, DropClient,
    WriteDataToInBuffer, WriteInSocket, FreeInvalidMessage, queue_vars,
    env_vars, proc_vars
<1>7. CASE OutSocketFails \/ DetectFailure \/ WriteDataToOutBuffer
  BY <1>5, <1>7 DEF OutSocketFails, DetectFailure, WriteDataToOutBuffer,
    queue_vars, env_vars, proc_vars
<1>8. CASE Processing /\ ~TakeOutMessage
  BY <1>5, <1>8 DEF Processing, CheckOutput, ConnectToOutput, TakeInMessage,
    MapRequest, ForwardRequest, EnterLookup, EndRoute, RouteReply, queue_vars,
    proc_vars, env_vars
<1>9. CASE Cleanup
  BY <1>5, <1>9 DEF Cleanup, BeginCleanup, FreeRInMessages, FreeWInMessages,
    FreeROutMessages, FreeWOutMessages, RemoveMappingsFor, EndRemoveMappings,
    RemoveConnection, EndCleanup, Rearm, queue_vars, proc_vars, env_vars
<1>10. CASE UNCHANGED vars
  BY <1>5, <1>10 DEF vars, queue_vars, proc_vars, env_vars
<1> QED
  BY <1>2, <1>3, <1>4, <1>6, <1>7, <1>8, <1>9, <1>10 DEF Next, ServerSide

\* Every step, stuttering included, leaves the replies the invokeids of the
\* clients.
LEMMA StepInvokeidsOriginal ==
    ASSUME TypeOK, RequestsAttributed, InvokeidsOriginal, [Next]_vars
    PROVE  InvokeidsOriginal'
<1> USE QueuesTyped
<1>1. ASSUME NEW m \in socket_to_recv_unicast_msg, RouteReply(m)
      PROVE  InvokeidsOriginal'
  <2>1. /\ m.socket \in Socket /\ held_out \in Pdu
        /\ m.invokeid_original \in 1 .. MaxRequests
        /\ m.invokeid_original \in Nat
    BY <1>1, RoutingAssumption
    DEF RouteReply, TypeOK, MappingsTypeOK, Mapping, ProcessingTypeOK,
        RequestsAttributed, Request, RoutingAssumption
  <2>2. PICK y : y = [held_out EXCEPT !.invokeid = m.invokeid_original]
    OBVIOUS
  <2>3. y \in Pdu /\ y.invokeid = m.invokeid_original
    BY <2>1, <2>2 DEF Pdu
  <2>4. \A s \in Socket :
          /\ w_buffer'[s] = w_buffer[s]
          /\ w_in_messages'[s] = IF s = m.socket THEN Append(w_in_messages[s], y)
                                                 ELSE w_in_messages[s]
    BY <1>1, <2>1, <2>2 DEF RouteReply, TypeOK, QueuesTypeOK, in_vars
  <2>5. \A s \in Socket : RepliesAt(s)' \subseteq RepliesAt(s) \cup {y}
    <3> TAKE s \in Socket
    <3>1. Range(Append(w_in_messages[s], y)) = Range(w_in_messages[s]) \cup {y}
      BY <2>3, AppendContents
    <3> QED
      BY <2>4, <3>1 DEF RepliesAt
  <2> QED
    BY <2>1, <2>3, <2>5 DEF InvokeidsOriginal
<1>2. ASSUME \A s \in Socket : RepliesAt(s)' \subseteq RepliesAt(s)
      PROVE  InvokeidsOriginal'
  BY <1>2 DEF InvokeidsOriginal
<1>3. ASSUME \A s \in Socket : /\ w_in_messages'[s] \in {w_in_messages[s], <<>>}
                               /\ w_buffer'[s] \in {w_buffer[s], None}
      PROVE  InvokeidsOriginal'
  <2>1. Range(<<>>) = {}
    BY DEF Range
  <2>2. \A s \in Socket : RepliesAt(s)' \subseteq RepliesAt(s)
    BY <1>3, <2>1 DEF RepliesAt
  <2> QED
    BY <1>2, <2>2
<1>4. CASE ClientSide
  <2>1. ASSUME NEW c \in Client, NEW s \in Socket, AcceptClient(c, s)
        PROVE  InvokeidsOriginal'
    BY <1>3, <2>1 DEF AcceptClient, queue_vars, TypeOK, ClientSideTypeOK
  <2>2. ASSUME NEW s \in Socket, ReadInSocket(s)
        PROVE  InvokeidsOriginal'
    BY <1>3, <2>2 DEF ReadInSocket, in_vars
  <2>3. ASSUME NEW s \in Socket,
               DropClient(s) \/ WriteDataToInBuffer(s) \/ WriteInSocket(s)
                 \/ FreeInvalidMessage(s)
        PROVE  InvokeidsOriginal'
    BY <1>2, <2>3, RepliesLeft
  <2> QED
    BY <1>4, <2>1, <2>2, <2>3 DEF ClientSide
<1>5. CASE ServerSide
  BY <1>3, <1>5 DEF ServerSide, ReadOutSocket, WriteOutSocket, OutSocketFails,
    DetectFailure, WriteDataToOutBuffer, queue_vars, in_vars
<1>6. CASE Processing /\ ~(\E m \in socket_to_recv_unicast_msg : RouteReply(m))
  BY <1>3, <1>6 DEF Processing, CheckOutput, ConnectToOutput, TakeInMessage,
    TakeOutMessage, MapRequest, ForwardRequest, EnterLookup, EndRoute,
    queue_vars, in_vars
<1>7. CASE Cleanup
  BY <1>3, <1>7 DEF Cleanup, BeginCleanup, FreeRInMessages, FreeWInMessages,
    FreeROutMessages, FreeWOutMessages, RemoveMappingsFor, EndRemoveMappings,
    RemoveConnection, EndCleanup, Rearm, queue_vars, in_vars, TypeOK,
    ClientSideTypeOK
<1>8. CASE UNCHANGED vars
  BY <1>3, <1>8 DEF vars, queue_vars, in_vars
<1> QED
  BY <1>1, <1>4, <1>5, <1>6, <1>7, <1>8 DEF Next

\* While no invokeid clashed, the mapping through which a reply is routed to a
\* connected client is the one of its request, and the hand is empty then.
LEMMA RouteReplyRoutes ==
    ASSUME OrderInv, RightClientInv, ~idClash,
           NEW m \in socket_to_recv_unicast_msg, RouteReply(m),
           m.socket \in connections
    PROVE  m.req = held_out.req /\ InHand = {held_out} /\ InHand' = {}
<1>1. /\ pc = "route" /\ pc' = "route" /\ held_out' = held_out
      /\ held_out \in InFlight
      /\ m \in Matching
      /\ socket_to_recv_unicast_msg' = socket_to_recv_unicast_msg \ {m}
  BY RoutingAssumption
  DEF RouteReply, proc_vars, InFlight, OrderInv, TypeOK, ProcessingTypeOK,
      RoutingAssumption
<1>2. m.req = held_out.req
  BY <1>1 DEF RightClientInv, InvokeidsDistinct, Matching
<1>3. \A k \in socket_to_recv_unicast_msg' : k.req # held_out.req
  BY <1>1, <1>2 DEF OrderInv, MappingsUnique
<1> QED
  BY <1>1, <1>2, <1>3 DEF InHand, Matching

\* While no invokeid clashes, every step, stuttering included, leaves each
\* reply in one place.
LEMMA StepRoutedOnce ==
    ASSUME HandleReuse = FALSE, OrderInv, RightClientInv, ForwardedInOrder,
           AnsweredOnce, ~idClash, RoutedOnce, [Next]_vars
    PROVE  RoutedOnce'
<1> USE QueuesTyped DEF OrderInv
<1>1. TypeOK'
  BY StepTypeOK
<1>2. AwaitedReqs' \subseteq AwaitedReqs \cup UnsentReqs
  BY StepAwaited DEF AwaitedReqs, ReqsOf, UnsentReqs, OutPdus
<1>3. ASSUME NEW s \in connections, RepliesAt(s)' \subseteq RepliesAt(s)
      PROVE  ReqsOf(RepliesAt(s))' \cap AwaitedReqs' = {}
  <2>1. s \in Socket
    BY DEF TypeOK, ClientSideTypeOK
  <2>2. ReqsOf(RepliesAt(s)) \cap AwaitedReqs = {}
    BY DEF RoutedOnce, RoutedOnceAt
  <2>3. ReqsOf(RepliesAt(s)) \cap UnsentReqs = {}
    <3>1. ReqsOf(RepliesAt(s)) \subseteq ForwardedReqs
      BY <2>1 DEF ForwardedReqs
    <3> QED
      BY <3>1, UnsentNotForwarded
  <2>4. ReqsOf(RepliesAt(s))' \subseteq ReqsOf(RepliesAt(s))
    BY <1>3 DEF ReqsOf
  <2> QED
    BY <1>2, <2>2, <2>3, <2>4
<1>4. ASSUME NEW s \in connections,
             w_in_messages'[s] \in {w_in_messages[s], <<>>},
             w_buffer'[s] \in {w_buffer[s], None}
      PROVE  RoutedOnceAt(s)'
  <2>1. RoutedOnceAt(s)
    BY DEF RoutedOnce
  <2>2. Range(<<>>) = {} /\ Once(<<>>)
    BY DEF Range, Once
  <2>3. /\ RepliesAt(s)' \subseteq RepliesAt(s)
        /\ Range(w_in_messages'[s]) \subseteq Range(w_in_messages[s])
    BY <1>4, <2>2 DEF RepliesAt
  <2>4. Once(w_in_messages'[s])
    BY <1>4, <2>1, <2>2 DEF RoutedOnceAt
  <2>5. w_buffer'[s] # None =>
            w_buffer'[s].req \notin ReqsOf(Range(w_in_messages'[s]))
    BY <1>4, <2>1, <2>3 DEF RoutedOnceAt, ReqsOf
  <2> QED
    BY <1>3, <2>3, <2>4, <2>5 DEF RoutedOnceAt
<1>5. ASSUME connections' \subseteq connections,
             \A s \in connections' :
                /\ w_in_messages'[s] \in {w_in_messages[s], <<>>}
                /\ w_buffer'[s] \in {w_buffer[s], None}
      PROVE  RoutedOnce'
  BY <1>4, <1>5 DEF RoutedOnce
<1>6. CASE ClientSide
  <2>1. ASSUME NEW c \in Client, NEW s \in Socket, AcceptClient(c, s)
        PROVE  RoutedOnce'
    <3>1. /\ w_in_messages' = w_in_messages
          /\ connections' = connections \cup {s}
          /\ w_buffer' = [w_buffer EXCEPT ![s] = None]
          /\ owner[s] = None
      BY <2>1 DEF AcceptClient, queue_vars
    <3>2. w_in_messages[s] = <<>>
      BY <3>1 DEF RightClientInv, UnusedHandlesEmpty
    <3>3. w_buffer'[s] = None
      BY <3>1 DEF TypeOK, ClientSideTypeOK
    <3>4. Range(<<>>) = {} /\ Once(<<>>)
      BY DEF Range, Once
    <3>5. RepliesAt(s)' = {}
      BY <3>1, <3>2, <3>3, <3>4 DEF RepliesAt
    <3>6. RoutedOnceAt(s)'
      BY <3>1, <3>2, <3>3, <3>4, <3>5 DEF RoutedOnceAt, ReqsOf
    <3>7. \A t \in connections : w_buffer'[t] \in {w_buffer[t], None}
      BY <3>1 DEF TypeOK, ClientSideTypeOK
    <3> QED
      BY <1>4, <3>1, <3>6, <3>7 DEF RoutedOnce
  <2>2. ASSUME NEW s \in Socket, WriteDataToInBuffer(s)
        PROVE  RoutedOnce'
    <3>1. /\ s \in connections /\ connections' = connections
          /\ w_in_messages[s] \in Seq(Pdu) /\ w_in_messages[s] # <<>>
          /\ w_buffer'[s] = Head(w_in_messages[s])
          /\ w_in_messages'[s] = Tail(w_in_messages[s])
          /\ \A t \in connections \ {s} : /\ w_in_messages'[t] = w_in_messages[t]
                                          /\ w_buffer'[t] = w_buffer[t]
      BY <2>2 DEF WriteDataToInBuffer, TypeOK, ClientSideTypeOK, QueuesTypeOK
    <3>2. /\ Once(Tail(w_in_messages[s]))
          /\ Head(w_in_messages[s]).req
                \notin ReqsOf(Range(Tail(w_in_messages[s])))
      BY <3>1, OnceTake DEF RoutedOnce, RoutedOnceAt
    <3>3. RepliesAt(s)' \subseteq RepliesAt(s)
      BY <2>2, RepliesLeft
    <3>4. RoutedOnceAt(s)'
      BY <1>3, <3>1, <3>2, <3>3 DEF RoutedOnceAt
    <3> QED
      BY <1>4, <3>1, <3>4 DEF RoutedOnce
  <2>3. ASSUME NEW s \in Socket,
               \/ ReadInSocket(s) \/ DropClient(s) \/ WriteInSocket(s)
               \/ FreeInvalidMessage(s)
        PROVE  RoutedOnce'
    BY <1>5, <2>3 DEF ReadInSocket, DropClient, WriteInSocket,
      FreeInvalidMessage, in_vars, queue_vars, TypeOK, ClientSideTypeOK,
      QueuesTypeOK
  <2> QED
    BY <1>6, <2>1, <2>2, <2>3 DEF ClientSide
<1>7. ASSUME NEW m \in socket_to_recv_unicast_msg, RouteReply(m)
      PROVE  RoutedOnce'
  <2>1. m.socket \in Socket /\ held_out \in Pdu /\ m.invokeid_original \in Nat
    BY <1>7 DEF RouteReply, TypeOK, MappingsTypeOK, Mapping, ProcessingTypeOK
  <2>2. PICK y : y = [held_out EXCEPT !.invokeid = m.invokeid_original]
    OBVIOUS
  <2>3. y \in Pdu /\ y.req = held_out.req
    BY <2>1, <2>2 DEF Pdu
  <2>4. /\ UNCHANGED <<connections, w_buffer, server, r_out_messages>>
        /\ w_in_messages' = [w_in_messages EXCEPT ![m.socket] = Append(@, y)]
    BY <1>7, <2>2 DEF RouteReply, in_vars, env_vars
  <2>5. \A s \in connections \ {m.socket} : RoutedOnceAt(s)'
    <3>1. \A s \in connections \ {m.socket} :
              w_in_messages'[s] = w_in_messages[s] /\ w_buffer'[s] = w_buffer[s]
      BY <2>1, <2>4 DEF TypeOK, ClientSideTypeOK, QueuesTypeOK
    <3> QED
      BY <1>4, <3>1
  <2>6. ASSUME m.socket \in connections
        PROVE  RoutedOnceAt(m.socket)'
    <3>1. PICK s \in connections : s = m.socket
      BY <2>6
    <3>2. /\ w_in_messages'[s] = Append(w_in_messages[s], y)
          /\ w_buffer'[s] = w_buffer[s]
          /\ w_in_messages[s] \in Seq(Pdu)
      BY <2>1, <2>4, <3>1 DEF TypeOK, QueuesTypeOK
    <3>3. /\ InHand = {held_out} /\ InHand' = {}
      BY <1>7, <2>6, RouteReplyRoutes
    <3>4. y.req \notin ReqsOf(server) \cup ReqsOf(Range(r_out_messages))
      BY <2>1, <2>3, RoutingAssumption DEF AnsweredOnce, RoutingAssumption
    <3>5. y.req \notin ReqsOf(RepliesAt(s))
      BY <2>3, <3>3 DEF RoutedOnce, RoutedOnceAt, AwaitedReqs, AwaitedPdus,
                         ReqsOf
    <3>6. Range(w_in_messages'[s]) = Range(w_in_messages[s]) \cup {y}
      BY <2>3, <3>2, AppendContents
    <3>7. Once(w_in_messages'[s])
      BY <2>3, <3>2, <3>5, OnceAppend
      DEF RoutedOnce, RoutedOnceAt, RepliesAt, ReqsOf
    <3>8. RepliesAt(s)' = RepliesAt(s) \cup {y}
      BY <3>2, <3>6 DEF RepliesAt
    <3>9. /\ AwaitedReqs' \subseteq AwaitedReqs
          /\ y.req \notin AwaitedReqs'
      BY <2>4, <3>3, <3>4 DEF AwaitedReqs, AwaitedPdus, ReqsOf
    <3>10. ReqsOf(RepliesAt(s))' \cap AwaitedReqs' = {}
      <4>1. ReqsOf(RepliesAt(s))' = ReqsOf(RepliesAt(s)) \cup {y.req}
        BY <3>8 DEF ReqsOf
      <4> QED
        BY <3>9, <4>1 DEF RoutedOnce, RoutedOnceAt
    <3>11. w_buffer'[s] # None =>
              w_buffer'[s].req \notin ReqsOf(Range(w_in_messages'[s]))
      <4>1. w_buffer[s] # None => w_buffer[s].req \in ReqsOf(RepliesAt(s))
        BY DEF RepliesAt, ReqsOf
      <4>2. ReqsOf(Range(w_in_messages'[s]))
                = ReqsOf(Range(w_in_messages[s])) \cup {y.req}
        BY <3>6 DEF ReqsOf
      <4> QED
        BY <3>2, <3>5, <4>1, <4>2 DEF RoutedOnce, RoutedOnceAt
    <3>12. RoutedOnceAt(s)'
      BY <3>7, <3>10, <3>11 DEF RoutedOnceAt
    <3> QED
      BY <1>7, <3>1, <3>12 DEF RouteReply
  <2> QED
    BY <2>4, <2>5, <2>6 DEF RoutedOnce
<1>8. CASE ServerSide
  BY <1>5, <1>8 DEF ServerSide, ReadOutSocket, WriteOutSocket, OutSocketFails,
    DetectFailure, WriteDataToOutBuffer, queue_vars, in_vars
<1>9. CASE Processing /\ ~(\E m \in socket_to_recv_unicast_msg : RouteReply(m))
  BY <1>5, <1>9 DEF Processing, CheckOutput, ConnectToOutput, TakeInMessage,
    TakeOutMessage, MapRequest, ForwardRequest, EnterLookup, EndRoute,
    queue_vars, in_vars
<1>10. CASE Cleanup
  BY <1>5, <1>10 DEF Cleanup, BeginCleanup, FreeRInMessages, FreeWInMessages,
    FreeROutMessages, FreeWOutMessages, RemoveMappingsFor, EndRemoveMappings,
    RemoveConnection, EndCleanup, Rearm, queue_vars, in_vars, TypeOK,
    ClientSideTypeOK
<1>11. CASE UNCHANGED vars
  BY <1>5, <1>11 DEF vars, queue_vars, in_vars
<1> QED
  BY <1>6, <1>7, <1>8, <1>9, <1>10, <1>11 DEF Next
-----------------------------------------------------------------------------
(* Mappings stay as long as they are needed. *)

\* A client is at one socket; while it is connected, so is the socket that its
\* mappings are for.
LEMMA MappedSocketConnected ==
    ASSUME TypeOK, RequestsAttributed, RepliesCounted,
           NEW m \in socket_to_recv_unicast_msg, m.req[1] \in Connected
    PROVE  m.socket \in connections
<1>1. m.socket \in Socket /\ m.req[1] \in Client /\ owner[m.socket] = m.req[1]
  BY DEF RequestsAttributed, TypeOK, MappingsTypeOK, Mapping, Request
<1>2. PICK s \in connections : owner[s] = m.req[1]
  BY DEF Connected
<1>3. s \in Socket
  BY DEF TypeOK, ClientSideTypeOK
<1> QED
  BY <1>1, <1>2, <1>3 DEF RepliesCounted

\* When the only connection of a client goes, so does the client.
LEMMA DisconnectedClientGone ==
    ASSUME TypeOK, RepliesCounted, NEW s \in connections,
           owner' = owner, connections' = connections \ {s}
    PROVE  Connected' = Connected \ {owner[s]}
BY DEF Connected, RepliesCounted, TypeOK, ClientSideTypeOK

\* A client that connects has sent no request.
LEMMA AcceptClientConnects ==
    ASSUME OrderInv, ForwardedInOrder, HandleReuse = FALSE,
           NEW c \in Client, NEW s \in Socket, AcceptClient(c, s)
    PROVE  /\ Connected' = Connected \cup {c}
           /\ c \notin Connected
           /\ \A r \in UnsentReqs \cup ForwardedReqs : r[1] # c
<1>1. c \notin Connected /\ Connected' = Connected \cup {c}
  <2>1. /\ s \notin connections /\ connections' = connections \cup {s}
        /\ owner' = [owner EXCEPT ![s] = c]
        /\ \A t \in Socket : owner[t] # c
    BY DEF AcceptClient
  <2> QED
    BY <2>1 DEF Connected, OrderInv, TypeOK, ClientSideTypeOK
<1>2. \A r \in UnsentReqs \cup ForwardedReqs :
          r[2] \in Nat /\ r[2] > 0 /\ r[2] <= sent[r[1]]
  <2>1. \A r \in UnsentReqs : r[2] <= sent[r[1]]
    BY DEF OrderInv, AllSent, UnsentReqs, ReqsOf
  <2> QED
    BY <2>1, ReqsTyped, RoutingAssumption
    DEF OrderInv, ForwardedInOrder, RoutingAssumption
<1>3. sent[c] = 0
  BY DEF AcceptClient
<1> QED
  BY <1>1, <1>2, <1>3

\* Forwarding is the only step that puts a PDU on the way to the server.
LEMMA StepOutPdus ==
    ASSUME TypeOK, [Next]_vars, ~ForwardRequest
    PROVE  OutPdus' \subseteq OutPdus
<1> USE QueuesTyped
<1>1. CASE WriteDataToOutBuffer
  <2>1. Range(w_out_messages) = {Head(w_out_messages)} \cup Range(w_out_messages')
    BY <1>1, TakeRange DEF WriteDataToOutBuffer
  <2>2. Head(w_out_messages) # None
    BY <1>1, TakeContents, RoutingAssumption
    DEF WriteDataToOutBuffer, RoutingAssumption
  <2> QED
    BY <1>1, <2>1, <2>2 DEF WriteDataToOutBuffer, OutPdus
<1>2. ASSUME w_out_messages' \in {w_out_messages, <<>>},
             out_w_buffer' \in {out_w_buffer, None}
      PROVE  OutPdus' \subseteq OutPdus
  <2>1. Range(<<>>) = {}
    BY DEF Range
  <2> QED
    BY <1>2, <2>1 DEF OutPdus
<1>3. CASE ClientSide
  BY <1>2, <1>3 DEF ClientSide, AcceptClient, ReadInSocket, DropClient,
    WriteDataToInBuffer, WriteInSocket, FreeInvalidMessage, queue_vars,
    out_vars
<1>4. CASE ServerSide /\ ~WriteDataToOutBuffer
  BY <1>2, <1>4 DEF ServerSide, ReadOutSocket, WriteOutSocket, OutSocketFails,
    DetectFailure, queue_vars, out_vars
<1>5. CASE Processing
  BY <1>2, <1>5 DEF Processing, CheckOutput, ConnectToOutput, TakeInMessage,
    TakeOutMessage, MapRequest, RouteReply, EnterLookup, EndRoute,
    queue_vars, out_vars
<1>6. CASE Cleanup
  BY <1>2, <1>6 DEF Cleanup, BeginCleanup, FreeRInMessages, FreeWInMessages,
    FreeROutMessages, FreeWOutMessages, RemoveMappingsFor, EndRemoveMappings,
    RemoveConnection, EndCleanup, Rearm, queue_vars, out_vars
<1>7. CASE UNCHANGED vars
  BY <1>2, <1>7 DEF vars, queue_vars, out_vars
<1> QED
  BY <1>1, <1>3, <1>4, <1>5, <1>6, <1>7 DEF Next

\* Every PDU on the way belongs to a request that was read.
LEMMA OnTheWayTyped ==
    ASSUME TypeOK
    PROVE  ReqsOf(OutPdus \cup AwaitedPdus) \subseteq UnsentReqs \cup ForwardedReqs
<1>1. InHand \subseteq {held_out} \ {None}
  BY RoutingAssumption DEF InHand, TypeOK, ProcessingTypeOK, RoutingAssumption
<1> QED
  BY <1>1 DEF AwaitedPdus, ReqsOf, UnsentReqs, ForwardedReqs

\* A step that puts nothing on the way, maps and connects nobody, and removes
\* mappings of clients that go, at most.
LEMMA NothingMappedKeepsMapped ==
    ASSUME StillMapped,
           OutPdus' \cup AwaitedPdus' \subseteq OutPdus \cup AwaitedPdus,
           Connected' \subseteq Connected,
           pc' = "send" => /\ pc = "send" /\ held_in' = held_in
                           /\ invokeid_gen_counter' = invokeid_gen_counter,
           \A m \in socket_to_recv_unicast_msg :
               m.req[1] \in Connected' => m \in socket_to_recv_unicast_msg'
    PROVE  StillMapped'
<1>1. \A r, id : r[1] \in Connected' /\ Mapped(r, id) => Mapped(r, id)'
  BY DEF Mapped
<1>2. \A p \in OutPdus' \cup AwaitedPdus' :
          p.req[1] \in Connected' => Mapped(p.req, p.invokeid)'
  BY <1>1 DEF StillMapped
<1>3. pc' = "send" /\ held_in'.pdu.req[1] \in Connected' =>
          Mapped(held_in.pdu.req, invokeid_gen_counter)'
  BY <1>1 DEF StillMapped
<1> QED
  BY <1>2, <1>3 DEF StillMapped, Mapped

\* While no invokeid clashes and the cleanup does not hold
\* csec_out_connection, every step keeps the mappings that are needed.
LEMMA StepStillMapped ==
    ASSUME HandleReuse = FALSE, OrderInv, RightClientInv, RepliesCounted,
           ForwardedInOrder, AnsweredOnce, ~idClash, StillMapped,
           ~OutConnectionLocked, ~OutConnectionLocked', [Next]_vars
    PROVE  StillMapped'
<1> USE DEF OrderInv
<1>1. OutPdus' \cup AwaitedPdus' \subseteq OutPdus \cup AwaitedPdus
        \/ ForwardRequest
  <2>1. {out_w_buffer} \ {None} \subseteq OutPdus
    BY DEF OutPdus
  <2> QED
    BY <2>1, StepAwaited, StepOutPdus
<1>2. ASSUME ~ForwardRequest,
             UNCHANGED <<connections, owner, invokeid_gen_counter>>,
             pc' = "send" => pc = "send" /\ held_in' = held_in,
             socket_to_recv_unicast_msg' = socket_to_recv_unicast_msg
      PROVE  StillMapped'
  <2>1. Connected' = Connected
    BY <1>2 DEF Connected
  <2> QED
    BY <1>1, <1>2, <2>1, NothingMappedKeepsMapped
<1>3. ASSUME NEW c \in Client, NEW s \in Socket, AcceptClient(c, s)
      PROVE  StillMapped'
  <2>1. /\ UNCHANGED <<pc, held_in, invokeid_gen_counter,
                       socket_to_recv_unicast_msg>>
        /\ OutPdus' \cup AwaitedPdus' \subseteq OutPdus \cup AwaitedPdus
    BY <1>1, <1>3 DEF AcceptClient, proc_vars, map_vars, ForwardRequest
  <2>2. /\ Connected' = Connected \cup {c}
        /\ \A r \in UnsentReqs \cup ForwardedReqs : r[1] # c
    BY <1>3, AcceptClientConnects
  <2>3. \A p \in OutPdus \cup AwaitedPdus : p.req[1] # c
    BY <2>2, OnTheWayTyped DEF ReqsOf
  <2>4. pc = "send" => held_in.pdu.req[1] # c
    <3>1. pc = "send" => held_in.pdu.req \in UnsentReqs
      BY DEF UnsentReqs, TypeOK, ProcessingTypeOK
    <3> QED
      BY <2>2, <3>1
  <2>5. \A r, id : Mapped(r, id)' = Mapped(r, id)
    BY <2>1 DEF Mapped
  <2>6. \A p \in OutPdus' \cup AwaitedPdus' :
            p.req[1] \in Connected' => Mapped(p.req, p.invokeid)'
    BY <2>1, <2>2, <2>3, <2>5 DEF StillMapped
  <2>7. pc' = "send" /\ held_in'.pdu.req[1] \in Connected' =>
            Mapped(held_in.pdu.req, invokeid_gen_counter)'
    BY <2>1, <2>2, <2>4, <2>5 DEF StillMapped
  <2> QED
    BY <2>1, <2>6, <2>7 DEF StillMapped, Mapped
<1>4. ASSUME NEW s \in Socket, DropClient(s)
      PROVE  StillMapped'
  <2>1. /\ s \in connections /\ connections' = connections \ {s}
        /\ UNCHANGED <<owner, pc, held_in, invokeid_gen_counter>>
        /\ socket_to_recv_unicast_msg' =
               socket_to_recv_unicast_msg \ MappingsFor(s)
    BY <1>4 DEF DropClient, proc_vars
  <2>2. Connected' = Connected \ {owner[s]}
    BY <2>1, DisconnectedClientGone
  <2>3. \A m \in MappingsFor(s) : m.req[1] = owner[s]
    BY DEF MappingsFor, RightClientInv, RequestsAttributed
  <2>4. ~ForwardRequest
    BY <2>1 DEF ForwardRequest
  <2> QED
    BY <1>1, <2>1, <2>2, <2>3, <2>4, NothingMappedKeepsMapped
<1>5. CASE ClientSide
  BY <1>2, <1>3, <1>4, <1>5 DEF ClientSide, ReadInSocket, WriteDataToInBuffer,
    WriteInSocket, FreeInvalidMessage, in_vars, proc_vars, map_vars,
    ForwardRequest
<1>6. CASE ServerSide
  BY <1>2, <1>6 DEF ServerSide, ReadOutSocket, OutSocketFails, DetectFailure,
    WriteDataToOutBuffer, WriteOutSocket, in_vars, proc_vars, map_vars,
    ForwardRequest
<1>7. CASE \/ CheckOutput \/ ConnectToOutput \/ TakeOutMessage \/ EnterLookup
           \/ EndRoute \/ TakeInMessage
  BY <1>2, <1>7 DEF CheckOutput, ConnectToOutput, TakeOutMessage, EnterLookup,
    EndRoute, TakeInMessage, in_vars, map_vars, ForwardRequest
<1>8. ASSUME NEW m \in socket_to_recv_unicast_msg, RouteReply(m)
      PROVE  StillMapped'
  <2>1. /\ UNCHANGED <<connections, owner, pc, server, r_out_messages>>
        /\ pc = "route"
        /\ socket_to_recv_unicast_msg' = socket_to_recv_unicast_msg \ {m}
        /\ ~ForwardRequest
    BY <1>8 DEF RouteReply, in_vars, proc_vars, env_vars, ForwardRequest
  <2>2. Connected' = Connected
    BY <2>1 DEF Connected
  <2>3. ASSUME NEW p \in OutPdus' \cup AwaitedPdus', p.req[1] \in Connected',
               m.req = p.req
        PROVE  FALSE
    <3>1. m.socket \in connections
      BY <2>2, <2>3, MappedSocketConnected DEF RightClientInv
    <3>2. m.req = held_out.req /\ InHand' = {}
      BY <1>8, <3>1, RouteReplyRoutes
    <3>3. held_out # None
      BY <2>1 DEF TypeOK, ProcessingTypeOK
    <3>4. p \notin server \cup Range(r_out_messages)
      BY <2>3, <3>2, <3>3 DEF AnsweredOnce, ReqsOf
    <3>5. p \in OutPdus
      BY <2>1, <2>3, <3>2, <3>4, StepOutPdus DEF AwaitedPdus
    <3>6. p.req \in UnsentReqs /\ held_out.req \in ForwardedReqs
      BY <3>3, <3>5 DEF UnsentReqs, ForwardedReqs, ReqsOf
    <3> QED
      BY <2>3, <3>2, <3>6, UnsentNotForwarded
  <2>4. \A p \in OutPdus' \cup AwaitedPdus' :
            p.req[1] \in Connected' => Mapped(p.req, p.invokeid)'
    BY <1>1, <2>1, <2>2, <2>3 DEF StillMapped, Mapped
  <2> QED
    BY <2>1, <2>4 DEF StillMapped, Mapped
<1>9. CASE MapRequest
  <2>1. /\ UNCHANGED <<connections, owner, held_in>>
        /\ pc' = "send" /\ ~ForwardRequest
        /\ invokeid_gen_counter' = generate_invokeid
        /\ socket_to_recv_unicast_msg \subseteq socket_to_recv_unicast_msg'
    BY <1>9 DEF MapRequest, in_vars, ForwardRequest
  <2> DEFINE k == [socket |-> held_in.socket,
                   invokeid_original |-> held_in.pdu.invokeid,
                   invokeid_generated |-> generate_invokeid,
                   req |-> held_in.pdu.req]
  <2>4. k \in socket_to_recv_unicast_msg'
    BY <1>9 DEF MapRequest
  <2>2. Connected' = Connected
    BY <2>1 DEF Connected
  <2>3. \A p \in OutPdus' \cup AwaitedPdus' :
            p.req[1] \in Connected' => Mapped(p.req, p.invokeid)'
    BY <1>1, <2>1, <2>2 DEF StillMapped, Mapped
  <2> QED
    BY <2>1, <2>3, <2>4 DEF StillMapped, Mapped
<1>10. CASE ForwardRequest
  <2>1. /\ UNCHANGED <<connections, owner, out_w_buffer, server, r_out_messages,
                       held_out, socket_to_recv_unicast_msg>>
        /\ pc = "send" /\ pc' = "connect"
        /\ held_in # None /\ held_in \in InMessage
    BY <1>10, QueuesTyped
    DEF ForwardRequest, in_vars, out_vars, env_vars, map_vars, TypeOK,
        ProcessingTypeOK
  <2>2. PICK x : x = [held_in.pdu EXCEPT !.invokeid = invokeid_gen_counter]
    OBVIOUS
  <2>3. /\ x \in Pdu /\ x.req = held_in.pdu.req
        /\ x.invokeid = invokeid_gen_counter
    <3>1. held_in.pdu \in Pdu
      BY <2>1 DEF InMessage
    <3>2. invokeid_gen_counter \in Nat
      BY RoutingAssumption DEF RoutingAssumption, TypeOK, MappingsTypeOK
    <3> QED
      BY <2>2, <3>1, <3>2 DEF Pdu
  <2>4. w_out_messages' \in {w_out_messages, Append(w_out_messages, x)}
    BY <1>10, <2>2 DEF ForwardRequest
  <2>5. OutPdus' \subseteq OutPdus \cup {x}
    <3>1. Range(w_out_messages') \subseteq Range(w_out_messages) \cup {x}
      BY <2>3, <2>4, QueuesTyped, AppendContents
    <3> QED
      BY <2>1, <3>1 DEF OutPdus
  <2>6. InHand' = {} /\ Connected' = Connected
    BY <2>1 DEF InHand, Connected
  <2>7. AwaitedPdus' \subseteq AwaitedPdus
    BY <2>1, <2>6 DEF AwaitedPdus
  <2>8. \A p \in OutPdus' \cup AwaitedPdus' :
            p.req[1] \in Connected' => Mapped(p.req, p.invokeid)'
    BY <2>1, <2>3, <2>5, <2>6, <2>7 DEF StillMapped, Mapped
  <2> QED
    BY <2>1, <2>8 DEF StillMapped, Mapped
<1>11. CASE Cleanup
  <2>1. CASE Rearm
    BY <1>2, <2>1 DEF Rearm, in_vars, proc_vars, map_vars, ForwardRequest
  <2> QED
    BY <1>11, <2>1 DEF Cleanup, OutConnectionLocked, BeginCleanup,
      FreeRInMessages, FreeWInMessages, FreeROutMessages, FreeWOutMessages,
      RemoveMappingsFor, EndRemoveMappings, RemoveConnection, EndCleanup
<1>12. CASE UNCHANGED vars
  BY <1>2, <1>12 DEF vars, in_vars, proc_vars, map_vars, ForwardRequest
<1> QED
  BY <1>5, <1>6, <1>7, <1>8, <1>9, <1>10, <1>11, <1>12
  DEF Next, Processing
-----------------------------------------------------------------------------
(* Requests do not disappear. *)

\* What is pending, place by place.
LEMMA PendingPlaces ==
    ASSUME OrderInv
    PROVE  Pending = UnsentReqs \cup AwaitedReqs \cup RoutedReqs
<1>1. Range(Pipeline) =
          OutPdus \cup (IF held_in = None THEN {} ELSE {held_in.pdu})
              \cup {q.pdu : q \in Range(r_in_messages)}
  BY PipelineOrdered
<1>2. ReqsOf(Range(Pipeline)) = UnsentReqs
  <2>1. ReqsOf({q.pdu : q \in Range(r_in_messages)})
            = {q.pdu.req : q \in Range(r_in_messages)}
    BY DEF ReqsOf
  <2>2. ReqsOf(IF held_in = None THEN {} ELSE {held_in.pdu})
            = IF held_in = None THEN {} ELSE {held_in.pdu.req}
    BY DEF ReqsOf
  <2>3. \A A, B, C : ReqsOf(A \cup B \cup C) = ReqsOf(A) \cup ReqsOf(B) \cup ReqsOf(C)
    BY DEF ReqsOf
  <2>4. ReqsOf(Range(Pipeline)) =
            ReqsOf(OutPdus)
                \cup ReqsOf(IF held_in = None THEN {} ELSE {held_in.pdu})
                \cup ReqsOf({q.pdu : q \in Range(r_in_messages)})
    BY <1>1, <2>3
  <2> QED
    BY <2>1, <2>2, <2>4 DEF UnsentReqs
<1>3. RoutedReqs =
          ReqsOf((UNION {Range(w_in_messages[s]) : s \in connections})
                     \cup ({w_buffer[s] : s \in connections} \ {None}))
  <2>1. (UNION {Range(w_in_messages[s]) : s \in connections})
            \cup ({w_buffer[s] : s \in connections} \ {None})
            = UNION {RepliesAt(s) : s \in connections}
    BY DEF RepliesAt
  <2>2. UNION {ReqsOf(RepliesAt(s)) : s \in connections}
            = ReqsOf(UNION {RepliesAt(s) : s \in connections})
    BY DEF ReqsOf
  <2> QED
    BY <2>1, <2>2 DEF RoutedReqs
<1>4. Pending = ReqsOf(Range(Pipeline)) \cup AwaitedReqs \cup RoutedReqs
  BY <1>3 DEF Pending, AwaitedReqs, AwaitedPdus, ReqsOf
<1> QED
  BY <1>2, <1>4

\* While no cleanup goes on, what was read stays until it is sent.
LEMMA UnsentStays ==
    ASSUME OrderInv, [Next]_vars, ~OutConnectionLocked, ~OutConnectionLocked',
           NEW r \in UnsentReqs
    PROVE  \/ r \in UnsentReqs'
           \/ is_out_connection_OK' /\ r \in ReqsOf(server')
           \/ r \in Unencodable
<1> USE QueuesTyped DEF OrderInv
<1>1. TypeOK'
  BY StepTypeOK
<1>2. CASE UNCHANGED <<r_in_messages, held_in, w_out_messages, out_w_buffer>>
  BY <1>2 DEF UnsentReqs, ReqsOf, OutPdus
<1>3. ASSUME NEW s \in Socket, ReadInSocket(s)
      PROVE  r \in UnsentReqs'
  BY <1>1, <1>3, ReadInSocketReads
<1>4. CASE ClientSide
  BY <1>2, <1>3, <1>4 DEF ClientSide, AcceptClient, DropClient,
    WriteDataToInBuffer, WriteInSocket, FreeInvalidMessage, queue_vars,
    out_vars, proc_vars
<1>5. CASE WriteDataToOutBuffer
  <2>1. /\ Range(w_out_messages) = {Head(w_out_messages)} \cup Range(w_out_messages')
        /\ Head(w_out_messages) \in Pdu
        /\ UNCHANGED <<r_in_messages, held_in>>
        /\ out_w_buffer = None
        /\ out_w_buffer' = Head(w_out_messages)
    BY <1>5, TakeRange, TakeContents DEF WriteDataToOutBuffer, proc_vars
  <2>2. OutPdus' = OutPdus
    BY <2>1, RoutingAssumption DEF OutPdus, RoutingAssumption
  <2> QED
    BY <2>1, <2>2 DEF UnsentReqs, ReqsOf
<1>6. CASE WriteOutSocket
  <2>1. /\ UNCHANGED <<r_in_messages, held_in, w_out_messages>>
        /\ server' = server \cup {out_w_buffer}
        /\ is_out_connection_OK'
    BY <1>6 DEF WriteOutSocket, queue_vars, proc_vars
  <2>2. OutPdus \subseteq OutPdus' \cup {out_w_buffer}
    BY <1>6, <2>1, RoutingAssumption
    DEF OutPdus, RoutingAssumption, WriteOutSocket, TypeOK, QueuesTypeOK
  <2> QED
    BY <2>1, <2>2 DEF UnsentReqs, ReqsOf
<1>7. CASE ServerSide /\ ~WriteDataToOutBuffer /\ ~WriteOutSocket
  BY <1>2, <1>7 DEF ServerSide, ReadOutSocket, OutSocketFails, DetectFailure,
    queue_vars, out_vars, proc_vars
<1>8. CASE TakeInMessage
  <2>1. held_in = None
    BY <1>8 DEF TakeInMessage, HeldInOrder
  <2>2. OutPdus' = OutPdus
    BY <1>8 DEF TakeInMessage, OutPdus, out_vars
  <2>3. CASE r_in_messages = <<>>
    BY <1>2, <1>8, <2>3 DEF TakeInMessage, out_vars
  <2>4. CASE r_in_messages # <<>>
    <3>1. /\ Range(r_in_messages) = {held_in'} \cup Range(r_in_messages')
          /\ held_in' \in InMessage
      BY <1>8, <2>4, TakeRange, TakeContents DEF TakeInMessage
    <3>2. held_in' # None
      BY <3>1, RoutingAssumption DEF RoutingAssumption
    <3> QED
      BY <2>1, <2>2, <3>1, <3>2 DEF UnsentReqs, ReqsOf
  <2> QED
    BY <2>3, <2>4
<1>9. CASE ForwardRequest
  <2>1. /\ UNCHANGED <<out_w_buffer, r_in_messages>>
        /\ held_in # None /\ held_in \in InMessage
    BY <1>9 DEF ForwardRequest, out_vars, TypeOK, ProcessingTypeOK
  <2>2. PICK x : x = [held_in.pdu EXCEPT !.invokeid = invokeid_gen_counter]
    OBVIOUS
  <2>3. x \in Pdu /\ x.req = held_in.pdu.req
    <3>1. held_in.pdu \in Pdu
      BY <2>1 DEF InMessage
    <3>2. invokeid_gen_counter \in Nat
      BY RoutingAssumption DEF RoutingAssumption, TypeOK, MappingsTypeOK
    <3> QED
      BY <2>2, <3>1, <3>2 DEF Pdu
  <2>4. \/ w_out_messages' = w_out_messages /\ held_in.pdu.req \in Unencodable
        \/ w_out_messages' = Append(w_out_messages, x)
    BY <1>9, <2>2 DEF ForwardRequest
  <2>5. /\ Range(w_out_messages) \subseteq Range(w_out_messages')
        /\ held_in.pdu.req \in Unencodable \/ x \in Range(w_out_messages')
    <3>1. Range(Append(w_out_messages, x)) = Range(w_out_messages) \cup {x}
      BY <2>3, AppendContents
    <3> QED
      BY <2>4, <3>1
  <2>6. /\ OutPdus \subseteq OutPdus'
        /\ held_in.pdu.req \in Unencodable \/ x \in OutPdus'
    BY <2>1, <2>5 DEF OutPdus
  <2> QED
    BY <2>1, <2>3, <2>6 DEF UnsentReqs, ReqsOf
<1>10. CASE Processing /\ ~TakeInMessage /\ ~ForwardRequest
  BY <1>2, <1>10 DEF Processing, CheckOutput, ConnectToOutput, TakeOutMessage,
    MapRequest, RouteReply, EnterLookup, EndRoute, queue_vars, out_vars,
    proc_vars
<1>11. CASE Cleanup
  <2>1. CASE Rearm
    BY <1>2, <2>1 DEF Rearm, queue_vars, out_vars, proc_vars
  <2> QED
    BY <1>11, <2>1 DEF Cleanup, OutConnectionLocked, BeginCleanup,
      FreeRInMessages, FreeWInMessages, FreeROutMessages, FreeWOutMessages,
      RemoveMappingsFor, EndRemoveMappings, RemoveConnection, EndCleanup
<1>12. CASE UNCHANGED vars
  BY <1>2, <1>12 DEF vars, queue_vars, out_vars, proc_vars
<1> QED
  BY <1>4, <1>5, <1>6, <1>7, <1>8, <1>9, <1>10, <1>11, <1>12
  DEF Next, ServerSide

\* While the connection to the server is up, what was sent stays at the server
\* until it is answered.
LEMMA ServerStays ==
    ASSUME OrderInv, [Next]_vars, ~OutConnectionLocked', is_out_connection_OK,
           ~out_failed', NEW r \in ReqsOf(server)
    PROVE  \/ is_out_connection_OK' /\ r \in ReqsOf(server')
           \/ r \in ReqsOf(Range(r_out_messages'))
<1> USE DEF OrderInv
<1>1. CASE is_out_connection_OK' /\ server \subseteq server'
  BY <1>1 DEF ReqsOf
<1>2. ASSUME NEW p \in server, ReadOutSocket(p)
      PROVE  \/ is_out_connection_OK' /\ r \in ReqsOf(server')
             \/ r \in ReqsOf(Range(r_out_messages'))
  <2>1. /\ is_out_connection_OK' /\ server' = server \ {p}
        /\ r_out_messages' = Append(r_out_messages, p)
        /\ p \in Pdu /\ r_out_messages \in Seq(Pdu)
    BY <1>2 DEF ReadOutSocket, out_vars, TypeOK, EnvironmentTypeOK, QueuesTypeOK
  <2>2. p \in Range(r_out_messages')
    BY <2>1, AppendContents
  <2> QED
    BY <2>1, <2>2 DEF ReqsOf
<1>3. CASE Cleanup
  BY <1>1, <1>3 DEF Cleanup, OutConnectionLocked, BeginCleanup,
    FreeRInMessages, FreeWInMessages, FreeROutMessages, FreeWOutMessages,
    RemoveMappingsFor, EndRemoveMappings, RemoveConnection, EndCleanup, Rearm,
    out_vars, env_vars
<1>4. CASE ClientSide
  BY <1>1, <1>4 DEF ClientSide, AcceptClient, ReadInSocket, DropClient,
    WriteDataToInBuffer, WriteInSocket, FreeInvalidMessage, env_vars, out_vars
<1>5. CASE ServerSide
  BY <1>1, <1>2, <1>5 DEF ServerSide, WriteOutSocket, OutSocketFails,
    DetectFailure, WriteDataToOutBuffer, env_vars, out_vars
<1>6. CASE Processing
  BY <1>1, <1>6 DEF Processing, CheckOutput, ConnectToOutput, TakeOutMessage,
    TakeInMessage, MapRequest, ForwardRequest, RouteReply, EnterLookup,
    EndRoute, env_vars, out_vars
<1>7. CASE UNCHANGED vars
  BY <1>1, <1>7 DEF vars, env_vars, out_vars
<1> QED
  BY <1>3, <1>4, <1>5, <1>6, <1>7 DEF Next

\* While no invokeid clashes and no cleanup goes on, a reply stays until it is
\* routed to its client, if that is still connected.
LEMMA RepliesStay ==
    ASSUME OrderInv, RightClientInv, RepliesCounted, ~idClash, StillMapped,
           ~OutConnectionLocked, ~OutConnectionLocked', [Next]_vars,
           NEW r \in ReqsOf(Range(r_out_messages) \cup InHand),
           r[1] \in Connected'
    PROVE  r \in ReqsOf(Range(r_out_messages') \cup InHand') \cup RoutedReqs'
<1> USE QueuesTyped DEF OrderInv
<1> DEFINE Goal == r \in ReqsOf(Range(r_out_messages') \cup InHand')
                             \cup RoutedReqs'
<1>1. ASSUME Range(r_out_messages) \subseteq Range(r_out_messages'),
             InHand \subseteq InHand'
      PROVE  Goal
  BY <1>1 DEF ReqsOf
<1>2. ASSUME Range(r_out_messages) \subseteq Range(r_out_messages'),
             UNCHANGED <<held_out, pc>>,
             pc = "route" =>
                 socket_to_recv_unicast_msg' = socket_to_recv_unicast_msg
      PROVE  Goal
  <2>1. InHand' = InHand
    BY <1>2 DEF InHand, Matching
  <2> QED
    BY <1>1, <1>2, <2>1
<1>3. CASE ClientSide
  BY <1>2, <1>3 DEF ClientSide, AcceptClient, ReadInSocket, DropClient,
    WriteDataToInBuffer, WriteInSocket, FreeInvalidMessage, MappingsLocked,
    queue_vars, map_vars, proc_vars
<1>4. CASE ServerSide
  <2>1. ASSUME NEW p \in server, ReadOutSocket(p)
        PROVE  Goal
    <3>1. Range(r_out_messages') = Range(r_out_messages) \cup {p}
      BY <2>1, AppendContents DEF ReadOutSocket, TypeOK, EnvironmentTypeOK
    <3> QED
      BY <1>2, <2>1, <3>1 DEF ReadOutSocket, map_vars, proc_vars
  <2> QED
    BY <1>2, <1>4, <2>1 DEF ServerSide, OutSocketFails, DetectFailure,
      WriteDataToOutBuffer, WriteOutSocket, queue_vars, map_vars, proc_vars
<1>5. CASE \/ CheckOutput \/ ConnectToOutput \/ TakeInMessage \/ MapRequest
           \/ ForwardRequest \/ EndRoute
  <2>1. r_out_messages' = r_out_messages /\ InHand = {}
    BY <1>5 DEF CheckOutput, ConnectToOutput, TakeInMessage, MapRequest,
      ForwardRequest, EndRoute, InHand, queue_vars
  <2> QED
    BY <1>1, <2>1
<1>6. CASE TakeOutMessage
  <2>1. InHand = {}
    BY <1>6 DEF TakeOutMessage, InHand
  <2>2. CASE r_out_messages = <<>>
    BY <1>1, <1>6, <2>1, <2>2 DEF TakeOutMessage
  <2>3. CASE r_out_messages # <<>>
    <3>1. Range(r_out_messages) = {held_out'} \cup Range(r_out_messages')
      BY <1>6, <2>3, TakeRange DEF TakeOutMessage
    <3>2. InHand' = {held_out'}
      BY <1>6, <2>3 DEF TakeOutMessage, InHand
    <3> QED
      BY <2>1, <3>1, <3>2 DEF ReqsOf
  <2> QED
    BY <2>2, <2>3
<1>7. CASE EnterLookup
  <2>1. /\ UNCHANGED <<connections, owner, r_out_messages, held_out,
                       socket_to_recv_unicast_msg>>
        /\ InHand = {held_out} /\ pc' = "route"
    BY <1>7 DEF EnterLookup, InHand, in_vars, queue_vars, map_vars
  <2>2. CASE r = held_out.req
    <3>1. Mapped(held_out.req, held_out.invokeid)
      BY <2>1, <2>2 DEF StillMapped, Connected, AwaitedPdus
    <3>2. InHand' = {held_out}
      BY <2>1, <3>1 DEF Mapped, InHand, Matching
    <3> QED
      BY <1>1, <2>1, <3>2
  <2>3. CASE r # held_out.req
    BY <2>1, <2>3 DEF ReqsOf
  <2> QED
    BY <2>2, <2>3
<1>8. ASSUME NEW m \in socket_to_recv_unicast_msg, RouteReply(m)
      PROVE  Goal
  <2>1. /\ UNCHANGED <<connections, owner, w_buffer, r_out_messages, held_out, pc>>
        /\ socket_to_recv_unicast_msg' = socket_to_recv_unicast_msg \ {m}
        /\ pc = "route"
        /\ m.socket \in Socket /\ m.invokeid_original \in Nat
        /\ held_out \in Pdu
    BY <1>8 DEF RouteReply, in_vars, proc_vars, TypeOK, ProcessingTypeOK,
                MappingsTypeOK, Mapping
  <2>2. CASE r \in ReqsOf(Range(r_out_messages))
    BY <2>1, <2>2 DEF ReqsOf
  <2>3. CASE r \notin ReqsOf(Range(r_out_messages))
    <3>1. PICK k \in Matching : k.req = held_out.req /\ r = held_out.req
      BY <2>1, <2>3 DEF InHand, ReqsOf
    <3>2. CASE k # m
      <4>1. InHand' = {held_out}
        BY <2>1, <3>1, <3>2 DEF InHand, Matching
      <4> QED
        BY <3>1, <4>1 DEF ReqsOf
    <3>3. CASE k = m
      <4>1. m.socket \in connections
        BY <2>1, <3>1, <3>3, MappedSocketConnected
        DEF Connected, RightClientInv
      <4>2. PICK y : y = [held_out EXCEPT !.invokeid = m.invokeid_original]
        OBVIOUS
      <4>3. y \in Pdu /\ y.req = r
        BY <2>1, <3>1, <4>2 DEF Pdu
      <4>4. /\ w_in_messages'[m.socket] = Append(w_in_messages[m.socket], y)
            /\ w_in_messages[m.socket] \in Seq(Pdu)
        BY <1>8, <2>1, <4>2 DEF RouteReply, TypeOK, QueuesTypeOK
      <4>5. y \in Range(w_in_messages'[m.socket])
        BY <4>3, <4>4, AppendContents
      <4>6. r \in ReqsOf(RepliesAt(m.socket))'
        BY <4>3, <4>5 DEF RepliesAt, ReqsOf
      <4> QED
        BY <2>1, <4>1, <4>6 DEF RoutedReqs
    <3> QED
      BY <3>2, <3>3
  <2> QED
    BY <2>2, <2>3
<1>9. CASE Cleanup
  <2>1. CASE Rearm
    BY <1>2, <2>1 DEF Rearm, queue_vars, map_vars, proc_vars
  <2> QED
    BY <1>9, <2>1 DEF Cleanup, OutConnectionLocked, BeginCleanup,
      FreeRInMessages, FreeWInMessages, FreeROutMessages, FreeWOutMessages,
      RemoveMappingsFor, EndRemoveMappings, RemoveConnection, EndCleanup
<1>10. CASE UNCHANGED vars
  BY <1>2, <1>10 DEF vars, queue_vars, map_vars, proc_vars
<1> QED
  BY <1>3, <1>4, <1>5, <1>6, <1>7, <1>8, <1>9, <1>10 DEF Next, Processing

\* While no invokeid clashes and no cleanup goes on, a reply that waits for a
\* connected client waits until it is received.
LEMMA RoutedStays ==
    ASSUME OrderInv, RightClientInv, RepliesCounted, ~idClash,
           ~OutConnectionLocked, ~OutConnectionLocked', [Next]_vars,
           NEW r \in RoutedReqs, r[1] \in Connected'
    PROVE  r \in RoutedReqs' \/ Settled(r)'
<1> USE QueuesTyped DEF OrderInv
<1>1. PICK t \in connections : r \in ReqsOf(RepliesAt(t))
  BY DEF RoutedReqs
<1>2. t \in Socket
  BY DEF TypeOK, ClientSideTypeOK
<1>3. ASSUME t \in connections', RepliesAt(t) \subseteq RepliesAt(t)'
      PROVE  r \in RoutedReqs'
  <2>1. r \in ReqsOf(RepliesAt(t))'
    BY <1>1, <1>3 DEF ReqsOf
  <2> QED
    BY <1>3, <2>1 DEF RoutedReqs
<1>4. ASSUME t \in connections', w_in_messages'[t] = w_in_messages[t],
             w_buffer'[t] = w_buffer[t]
      PROVE  r \in RoutedReqs'
  BY <1>3, <1>4 DEF RepliesAt
<1>5. ASSUME NEW s \in Socket, DropClient(s)
      PROVE  r \in RoutedReqs'
  <2>1. CASE s = t
    <3>1. r[1] = owner[t]
      BY <1>1 DEF RightClientInv, RepliesAttributed, RepliesAt, ReqsOf,
                  IsReplyTo
    <3>2. Connected' = Connected \ {owner[t]}
      BY <1>5, <2>1, DisconnectedClientGone DEF DropClient
    <3> QED
      BY <3>1, <3>2
  <2>2. CASE s # t
    BY <1>2, <1>4, <1>5, <2>2
    DEF DropClient, queue_vars, TypeOK, ClientSideTypeOK
  <2> QED
    BY <2>1, <2>2
<1>6. ASSUME NEW s \in Socket, WriteDataToInBuffer(s)
      PROVE  r \in RoutedReqs'
  <2>1. CASE s = t
    <3>1. /\ t \in connections' /\ w_buffer[t] = None
          /\ w_in_messages[t] \in Seq(Pdu) /\ w_in_messages[t] # <<>>
          /\ w_buffer'[t] = Head(w_in_messages[t])
          /\ w_in_messages'[t] = Tail(w_in_messages[t])
      BY <1>2, <1>6, <2>1
      DEF WriteDataToInBuffer, TypeOK, ClientSideTypeOK, QueuesTypeOK
    <3>2. /\ Range(w_in_messages[t])
                 = {Head(w_in_messages[t])} \cup Range(Tail(w_in_messages[t]))
          /\ Head(w_in_messages[t]) # None
      BY <3>1, TakeRange, TakeContents, RoutingAssumption DEF RoutingAssumption
    <3>3. RepliesAt(t) \subseteq RepliesAt(t)'
      BY <3>1, <3>2 DEF RepliesAt
    <3> QED
      BY <1>3, <3>1, <3>3
  <2>2. CASE s # t
    BY <1>2, <1>4, <1>6, <2>2
    DEF WriteDataToInBuffer, TypeOK, ClientSideTypeOK, QueuesTypeOK
  <2> QED
    BY <2>1, <2>2
<1>7. ASSUME NEW s \in Socket, WriteInSocket(s)
      PROVE  r \in RoutedReqs' \/ Settled(r)'
  <2>1. CASE s = t
    <3>1. /\ t \in connections' /\ w_buffer[t] # None /\ w_buffer[t] \in Pdu
          /\ w_buffer'[t] = None /\ w_in_messages' = w_in_messages
          /\ owner[t] \in Client
          /\ received'[owner[t]] = Append(received[owner[t]], w_buffer[t])
      BY <1>2, <1>7, <2>1 DEF WriteInSocket, queue_vars, TypeOK,
        ClientSideTypeOK, EnvironmentTypeOK
    <3>2. CASE r = w_buffer[t].req
      <4>1. r[1] = owner[t] /\ w_buffer[t].invokeid = r[2]
        BY <3>1, <3>2 DEF RightClientInv, RepliesAttributed, IsReplyTo
      <4>2. w_buffer[t] = Mux!Reply(r)
        BY <3>1, <3>2, <4>1 DEF Mux!Reply, Pdu
      <4>3. /\ received[r[1]] \in Seq(Pdu)
            /\ received'[r[1]] = Append(received[r[1]], Mux!Reply(r))
        BY <3>1, <4>1, <4>2 DEF TypeOK, EnvironmentTypeOK
      <4>4. Contains(received'[r[1]], Mux!Reply(r))
        <5>1. PICK q, e : /\ q = received[r[1]] /\ e = Mux!Reply(r)
                          /\ q \in Seq(Pdu) /\ e \in Pdu
          BY <3>1, <4>2, <4>3
        <5>2. /\ Len(q) \in Nat /\ Len(Append(q, e)) = Len(q) + 1
              /\ Append(q, e)[Len(q) + 1] = e
          BY <5>1
        <5>3. Contains(Append(q, e), e)
          BY <5>2 DEF Contains
        <5> QED
          BY <4>3, <5>1, <5>3
      <4> QED
        BY <4>4 DEF Settled
    <3>3. CASE r # w_buffer[t].req
      <4>1. r \in ReqsOf(RepliesAt(t))'
        BY <1>1, <3>1, <3>3 DEF RepliesAt, ReqsOf
      <4> QED
        BY <3>1, <4>1 DEF RoutedReqs
    <3> QED
      BY <3>2, <3>3
  <2>2. CASE s # t
    BY <1>2, <1>4, <1>7, <2>2
    DEF WriteInSocket, queue_vars, TypeOK, ClientSideTypeOK, QueuesTypeOK
  <2> QED
    BY <2>1, <2>2
<1>8. CASE ClientSide
  <2>1. ASSUME NEW c \in Client, NEW s \in Socket, AcceptClient(c, s)
        PROVE  r \in RoutedReqs'
    BY <1>2, <1>4, <2>1 DEF AcceptClient, queue_vars, TypeOK, ClientSideTypeOK
  <2>2. ASSUME NEW s \in Socket, ReadInSocket(s) \/ FreeInvalidMessage(s)
        PROVE  r \in RoutedReqs'
    BY <1>2, <1>4, <2>2 DEF ReadInSocket, FreeInvalidMessage, in_vars, TypeOK,
      QueuesTypeOK
  <2> QED
    BY <1>5, <1>6, <1>7, <1>8, <2>1, <2>2 DEF ClientSide
<1>9. ASSUME NEW m \in socket_to_recv_unicast_msg, RouteReply(m)
      PROVE  r \in RoutedReqs'
  <2>1. /\ UNCHANGED <<connections, w_buffer>>
        /\ m.socket \in Socket /\ m.invokeid_original \in Nat
        /\ held_out \in Pdu
    BY <1>9 DEF RouteReply, in_vars, TypeOK, ProcessingTypeOK,
                MappingsTypeOK, Mapping
  <2>2. PICK y : y = [held_out EXCEPT !.invokeid = m.invokeid_original]
    OBVIOUS
  <2>3. y \in Pdu
    BY <2>1, <2>2 DEF Pdu
  <2>4. \/ w_in_messages'[t] = w_in_messages[t]
        \/ w_in_messages'[t] = Append(w_in_messages[t], y)
    BY <1>2, <1>9, <2>2 DEF RouteReply, TypeOK, QueuesTypeOK
  <2>5. Range(Append(w_in_messages[t], y)) = Range(w_in_messages[t]) \cup {y}
    BY <1>2, <2>3, AppendContents
  <2> QED
    BY <1>3, <2>1, <2>4, <2>5 DEF RepliesAt
<1>10. CASE ServerSide
  BY <1>4, <1>10 DEF ServerSide, ReadOutSocket, OutSocketFails, DetectFailure,
    WriteDataToOutBuffer, WriteOutSocket, queue_vars, in_vars
<1>11. CASE Processing /\ ~(\E m \in socket_to_recv_unicast_msg : RouteReply(m))
  BY <1>4, <1>11 DEF Processing, CheckOutput, ConnectToOutput, TakeInMessage,
    TakeOutMessage, MapRequest, ForwardRequest, EnterLookup, EndRoute,
    queue_vars, in_vars
<1>12. CASE Cleanup
  <2>1. CASE Rearm
    BY <1>4, <2>1 DEF Rearm, queue_vars, in_vars
  <2> QED
    BY <1>12, <2>1 DEF Cleanup, OutConnectionLocked, BeginCleanup,
      FreeRInMessages, FreeWInMessages, FreeROutMessages, FreeWOutMessages,
      RemoveMappingsFor, EndRemoveMappings, RemoveConnection, EndCleanup
<1>13. CASE UNCHANGED vars
  BY <1>4, <1>13 DEF vars, queue_vars, in_vars
<1> QED
  BY <1>5, <1>6, <1>7, <1>8, <1>9, <1>10, <1>11, <1>12, <1>13 DEF Next

\* Once an invokeid has clashed, that remains recorded.
LEMMA ClashStays ==
    ASSUME idClash, [Next]_vars
    PROVE  idClash'
<1>1. CASE ClientSide
  BY <1>1 DEF ClientSide, AcceptClient, ReadInSocket, DropClient,
    WriteDataToInBuffer, WriteInSocket, FreeInvalidMessage, map_vars
<1>2. CASE ServerSide
  BY <1>2 DEF ServerSide, ReadOutSocket, OutSocketFails, DetectFailure,
    WriteDataToOutBuffer, WriteOutSocket, map_vars
<1>3. CASE Processing
  BY <1>3 DEF Processing, CheckOutput, ConnectToOutput, TakeInMessage,
    TakeOutMessage, MapRequest, ForwardRequest, RouteReply, EnterLookup,
    EndRoute, map_vars
<1>4. CASE Cleanup
  BY <1>4 DEF Cleanup, BeginCleanup, FreeRInMessages, FreeWInMessages,
    FreeROutMessages, FreeWOutMessages, RemoveMappingsFor, EndRemoveMappings,
    RemoveConnection, EndCleanup, Rearm, map_vars
<1> QED
  BY <1>1, <1>2, <1>3, <1>4 DEF Next, vars, map_vars

\* While no cleanup begins, the connection to the server stays as it is, or
\* breaks.
LEMMA StaysUp ==
    ASSUME TypeOK, is_out_connection_OK, ~OutConnectionLocked', [Next]_vars
    PROVE  is_out_connection_OK' /\ (out_failed => out_failed')
<1> USE DEF TypeOK, OutConnectionTypeOK
<1>1. CASE ClientSide
  BY <1>1 DEF ClientSide, AcceptClient, ReadInSocket, DropClient,
    WriteDataToInBuffer, WriteInSocket, FreeInvalidMessage, out_vars
<1>2. CASE ServerSide
  BY <1>2 DEF ServerSide, ReadOutSocket, OutSocketFails, DetectFailure,
    WriteDataToOutBuffer, WriteOutSocket, out_vars
<1>3. CASE Processing
  BY <1>3 DEF Processing, CheckOutput, ConnectToOutput, TakeInMessage,
    TakeOutMessage, MapRequest, ForwardRequest, RouteReply, EnterLookup,
    EndRoute, out_vars
<1>4. CASE Cleanup
  BY <1>4 DEF Cleanup, OutConnectionLocked, BeginCleanup, FreeRInMessages,
    FreeWInMessages, FreeROutMessages, FreeWOutMessages, RemoveMappingsFor,
    EndRemoveMappings, RemoveConnection, EndCleanup, Rearm, out_vars
<1> QED
  BY <1>1, <1>2, <1>3, <1>4 DEF Next, vars, out_vars

\* When the cleanup releases csec_out_connection, no client is connected.
LEMMA UnlocksWithoutClients ==
    ASSUME OutConnectionLocked, ~OutConnectionLocked', [Next]_vars
    PROVE  Connected' = {}
<1>1. ASSUME cleaning' = cleaning
      PROVE  FALSE
  BY <1>1 DEF OutConnectionLocked
<1>2. CASE ClientSide \/ ServerSide
  BY <1>1, <1>2 DEF ClientSide, AcceptClient, ReadInSocket, DropClient,
    WriteDataToInBuffer, WriteInSocket, FreeInvalidMessage, ServerSide,
    ReadOutSocket, OutSocketFails, DetectFailure, WriteDataToOutBuffer,
    WriteOutSocket, clean_vars
<1>3. CASE Processing
  BY <1>1, <1>3 DEF Processing, CheckOutput, ConnectToOutput, TakeInMessage,
    TakeOutMessage, MapRequest, ForwardRequest, RouteReply, EnterLookup,
    EndRoute, clean_vars
<1>4. CASE Cleanup
  BY <1>4 DEF Cleanup, OutConnectionLocked, BeginCleanup, FreeRInMessages,
    FreeWInMessages, FreeROutMessages, FreeWOutMessages, RemoveMappingsFor,
    EndRemoveMappings, RemoveConnection, EndCleanup, Rearm, in_vars, Connected
<1> QED
  BY <1>1, <1>2, <1>3, <1>4 DEF Next, vars, clean_vars

\* What a client has received it keeps.
LEMMA SettledStays ==
    ASSUME TypeOK, [Next]_vars, NEW r \in Request, Settled(r)
    PROVE  Settled(r)'
<1>1. CASE received' = received
  BY <1>1 DEF Settled
<1>2. ASSUME NEW s \in Socket, WriteInSocket(s)
      PROVE  Settled(r)'
  <2>1. /\ owner[s] \in Client /\ w_buffer[s] \in Pdu /\ r[1] \in Client
        /\ received' = [received EXCEPT ![owner[s]] = Append(@, w_buffer[s])]
    BY <1>2, ReqsTyped
    DEF WriteInSocket, TypeOK, ClientSideTypeOK
  <2>2. /\ received[r[1]] \in Seq(Pdu)
        /\ received'[r[1]] \in {received[r[1]],
                                Append(received[r[1]], w_buffer[s])}
    BY <2>1 DEF TypeOK, EnvironmentTypeOK
  <2>3. ASSUME NEW e, Contains(received[r[1]], e)
        PROVE  Contains(received'[r[1]], e)
    BY <2>1, <2>2, <2>3 DEF Contains
  <2> QED
    BY <2>3 DEF Settled
<1>3. CASE ClientSide
  BY <1>1, <1>2, <1>3 DEF ClientSide, AcceptClient, ReadInSocket, DropClient,
    WriteDataToInBuffer, FreeInvalidMessage, env_vars
<1>4. CASE ServerSide
  BY <1>1, <1>4 DEF ServerSide, ReadOutSocket, OutSocketFails, DetectFailure,
    WriteDataToOutBuffer, WriteOutSocket, env_vars
<1>5. CASE Processing
  BY <1>1, <1>5 DEF Processing, CheckOutput, ConnectToOutput, TakeInMessage,
    TakeOutMessage, MapRequest, ForwardRequest, RouteReply, EnterLookup,
    EndRoute, env_vars
<1>6. CASE Cleanup
  BY <1>1, <1>6 DEF Cleanup, BeginCleanup, FreeRInMessages, FreeWInMessages,
    FreeROutMessages, FreeWOutMessages, RemoveMappingsFor, EndRemoveMappings,
    RemoveConnection, EndCleanup, Rearm, env_vars
<1>7. CASE UNCHANGED vars
  BY <1>1, <1>7 DEF vars, env_vars
<1> QED
  BY <1>3, <1>4, <1>5, <1>6, <1>7 DEF Next

\* The steps that connect nobody and read no request.
LEMMA OthersConnectNobody ==
    ASSUME [Next]_vars, \A c \in Client, s \in Socket : ~AcceptClient(c, s),
           \A s \in Socket : ~ReadInSocket(s)
    PROVE  Connected' \subseteq Connected /\ sent' = sent
<1>1. owner' = owner /\ connections' \subseteq connections /\ sent' = sent
  <2>1. CASE ClientSide
    BY <2>1 DEF ClientSide, DropClient, WriteDataToInBuffer, WriteInSocket,
      FreeInvalidMessage, in_vars, env_vars
  <2>2. CASE ServerSide
    BY <2>2 DEF ServerSide, ReadOutSocket, OutSocketFails, DetectFailure,
      WriteDataToOutBuffer, WriteOutSocket, in_vars, env_vars
  <2>3. CASE Processing
    BY <2>3 DEF Processing, CheckOutput, ConnectToOutput, TakeInMessage,
      TakeOutMessage, MapRequest, ForwardRequest, RouteReply, EnterLookup,
      EndRoute, in_vars, env_vars
  <2>4. CASE Cleanup
    BY <2>4 DEF Cleanup, BeginCleanup, FreeRInMessages, FreeWInMessages,
      FreeROutMessages, FreeWOutMessages, RemoveMappingsFor,
      EndRemoveMappings, RemoveConnection, EndCleanup, Rearm, in_vars, env_vars
  <2> QED
    BY <2>1, <2>2, <2>3, <2>4 DEF Next, vars, in_vars, env_vars
<1> QED
  BY <1>1 DEF Connected

\* While no invokeid clashes, no cleanup goes on and the connection to the
\* server is not broken, no request of a connected client disappears.
LEMMA StepConserved ==
    ASSUME HandleReuse = FALSE, OrderInv, RightClientInv, RepliesCounted,
           ForwardedInOrder, ~idClash, StillMapped, Conserved,
           ~OutConnectionLocked, ~OutConnectionLocked',
           ~(is_out_connection_OK' /\ out_failed'), [Next]_vars
    PROVE  Conserved'
<1> USE DEF OrderInv
<1>1. TypeOK'
  BY StepTypeOK
<1>2. ASSUME NEW r \in Live, r[1] \in Connected'
      PROVE  r \in Live' \/ Settled(r)'
  <2>1. CASE r \in UnsentReqs
    BY <2>1, UnsentStays DEF Live, Settled
  <2>2. CASE r \in ReqsOf(Range(r_out_messages)) \cup ReqsOf(InHand)
    <3>1. r \in ReqsOf(Range(r_out_messages) \cup InHand)
      BY <2>2 DEF ReqsOf
    <3>2. r \in ReqsOf(Range(r_out_messages') \cup InHand') \cup RoutedReqs'
      BY <1>2, <3>1, RepliesStay
    <3> QED
      BY <3>2 DEF Live, ReqsOf
  <2>3. CASE r \in RoutedReqs
    BY <1>2, <2>3, RoutedStays DEF Live
  <2>4. CASE is_out_connection_OK /\ r \in ReqsOf(server)
    <3>1. ~out_failed'
      BY <2>4, StaysUp
    <3> QED
      BY <2>4, <3>1, ServerStays DEF Live
  <2> QED
    BY <1>2, <2>1, <2>2, <2>3, <2>4 DEF Live
<1>3. ASSUME NEW c \in Connected, c \in Connected', NEW n \in 1 .. sent[c]
      PROVE  <<c, n>> \in Live' \/ Settled(<<c, n>>)'
  <2>1. c \in Client /\ sent[c] \in 0 .. MaxRequests
    BY DEF Connected, TypeOK, ClientSideTypeOK, EnvironmentTypeOK
  <2>2. <<c, n>> \in Request
    BY <2>1, RoutingAssumption DEF Request, RoutingAssumption
  <2>3. <<c, n>> \in Live \/ Settled(<<c, n>>)
    BY DEF Conserved
  <2>4. CASE Settled(<<c, n>>)
    BY <2>2, <2>4, SettledStays
  <2>5. CASE <<c, n>> \in Live
    BY <1>2, <1>3, <2>5
  <2> QED
    BY <2>3, <2>4, <2>5
<1>4. ASSUME NEW d \in Client, NEW s \in Socket, AcceptClient(d, s)
      PROVE  Conserved'
  <2>1. /\ Connected' = Connected \cup {d} /\ sent' = sent /\ sent[d] = 0
    BY <1>4, AcceptClientConnects DEF AcceptClient, env_vars
  <2>2. ASSUME NEW c \in Connected', NEW n \in 1 .. sent'[c]
        PROVE  c \in Connected /\ n \in 1 .. sent[c]
    BY <2>1, <2>2
  <2> QED
    BY <1>3, <2>2 DEF Conserved
<1>5. ASSUME NEW s \in Socket, ReadInSocket(s)
      PROVE  Conserved'
  <2>1. PICK d, k : d = owner[s] /\ k = sent[d] + 1
    OBVIOUS
  <2>2. /\ d \in Client /\ sent[d] \in Nat
        /\ sent' = [sent EXCEPT ![d] = k]
        /\ <<d, k>> \in UnsentReqs'
    BY <1>1, <1>5, <2>1, ReadInSocketReads
  <2>3. Connected' = Connected
    BY <1>5 DEF ReadInSocket, in_vars, Connected
  <2>4. \A c \in Connected : c \in Client
    BY DEF Connected, TypeOK, ClientSideTypeOK
  <2>5. ASSUME NEW c \in Connected', NEW n \in 1 .. sent'[c]
        PROVE  n \in 1 .. sent[c] \/ <<c, n>> = <<d, k>>
    BY <2>1, <2>2, <2>3, <2>4, <2>5 DEF TypeOK, EnvironmentTypeOK
  <2>6. <<d, k>> \in Live'
    BY <2>2 DEF Live
  <2> QED
    BY <1>3, <2>3, <2>5, <2>6 DEF Conserved
<1>6. CASE /\ \A c \in Client, s \in Socket : ~AcceptClient(c, s)
           /\ \A s \in Socket : ~ReadInSocket(s)
  <2>1. Connected' \subseteq Connected /\ sent' = sent
    BY <1>6, OthersConnectNobody
  <2> QED
    BY <1>3, <2>1 DEF Conserved
<1> QED
  BY <1>4, <1>5, <1>6

\* Every step, stuttering included, keeps the invariant.
LEMMA StepServiceInv ==
    ASSUME HandleReuse = FALSE
    PROVE  OrderInv /\ RightClientInv /\ RepliesCounted /\ ServiceInv
               /\ [Next]_vars => ServiceInv'
<1> SUFFICES ASSUME OrderInv, RightClientInv, RepliesCounted, ServiceInv,
                    [Next]_vars
             PROVE  ServiceInv'
  OBVIOUS
<1>1. ForwardedInOrder' /\ AnsweredOnce' /\ InvokeidsOriginal'
  BY StepForwardedInOrder, StepAnsweredOnce, StepInvokeidsOriginal
  DEF ServiceInv, OrderInv, RightClientInv
<1>2. idClash => idClash'
  BY ClashStays
<1>3. idClash' \/ RoutedOnce'
  BY <1>2, StepRoutedOnce DEF ServiceInv
<1>4. ASSUME OutConnectionLocked, ~OutConnectionLocked'
      PROVE  StillMapped' /\ Conserved'
  <2>1. Connected' = {}
    BY <1>4, UnlocksWithoutClients
  <2> QED
    BY <2>1 DEF StillMapped, Conserved
<1>5. idClash' \/ OutConnectionLocked' \/ StillMapped'
  BY <1>2, <1>4, StepStillMapped DEF ServiceInv
<1>6. ASSUME ~idClash', ~OutConnectionLocked',
             ~(is_out_connection_OK' /\ out_failed')
      PROVE  Conserved'
  <2>1. CASE OutConnectionLocked
    BY <1>4, <1>6, <2>1
  <2>2. CASE ~OutConnectionLocked
    <3>1. ~(is_out_connection_OK /\ out_failed)
      BY <1>6, StaysUp DEF OrderInv
    <3>2. ~idClash /\ StillMapped /\ Conserved /\ ForwardedInOrder
      BY <1>2, <1>6, <2>2, <3>1 DEF ServiceInv
    <3> QED
      BY <1>6, <2>2, <3>2, StepConserved
  <2> QED
    BY <2>1, <2>2
<1> QED
  BY <1>1, <1>3, <1>5, <1>6 DEF ServiceInv

(***************************************************************************)
(* In every reachable state, what was sent to the server comes before what *)
(* was not, the server answers each request once, the reply to a connected *)
(* client finds its mapping (protocol.c:177), and, away from failures, no  *)
(* request of a connected client has disappeared.                          *)
(***************************************************************************)
LEMMA ServiceInvCorrect ==
    ASSUME HandleReuse = FALSE
    PROVE  Spec => [](OrderInv /\ RightClientInv /\ RepliesCounted /\ ServiceInv)
<1> DEFINE Inv == OrderInv /\ RightClientInv /\ RepliesCounted /\ ServiceInv
<1>1. Init => Inv
  BY InitOrderInv, InitRightClientInv, InitRepliesCounted, InitServiceInv
<1>2. Inv /\ [Next]_vars => Inv'
  BY StepOrderInv, StepKeepsRightClient, StepRepliesCounted, StepServiceInv
<1> QED
  BY <1>1, <1>2, PTL DEF Spec

-----------------------------------------------------------------------------
(* What is pending, from step to step. *)

PendingPlaced == Pending = UnsentReqs \cup AwaitedReqs \cup RoutedReqs

LEMMA PendingPlacesNext ==
    OrderInv' => Pending' = UnsentReqs' \cup AwaitedReqs' \cup RoutedReqs'
<1>1. OrderInv => PendingPlaced
  BY PendingPlaces DEF PendingPlaced
<1>2. OrderInv' => PendingPlaced'
  BY <1>1, PTL
<1> QED
  BY <1>2 DEF PendingPlaced

\* Nothing waits for a client that connects, and nothing else changes.
LEMMA AcceptClientRoutesNothing ==
    ASSUME HandleReuse = FALSE, RightClientInv,
           NEW c \in Client, NEW s \in Socket, AcceptClient(c, s)
    PROVE  RoutedReqs' = RoutedReqs
<1> USE DEF RightClientInv, TypeOK, ClientSideTypeOK
<1>1. /\ s \notin connections /\ connections' = connections \cup {s}
      /\ w_in_messages' = w_in_messages /\ w_in_messages[s] = <<>>
      /\ w_buffer'[s] = None
      /\ \A t \in connections : w_buffer'[t] = w_buffer[t]
  BY DEF AcceptClient, queue_vars, UnusedHandlesEmpty
<1>2. Range(<<>>) = {}
  BY DEF Range
<1>3. ReqsOf(RepliesAt(s))' = {}
  BY <1>1, <1>2 DEF RepliesAt, ReqsOf
<1>4. \A t \in connections : ReqsOf(RepliesAt(t))' = ReqsOf(RepliesAt(t))
  BY <1>1 DEF RepliesAt, ReqsOf
<1> QED
  BY <1>1, <1>3, <1>4 DEF RoutedReqs

\* While no invokeid clashes, no client has a reply that was not one of its
\* replies before, or in hand.
LEMMA StepRouted ==
    ASSUME HandleReuse = FALSE, OrderInv, RightClientInv, ~idClash, [Next]_vars
    PROVE  RoutedReqs' \subseteq RoutedReqs \cup ReqsOf(InHand)
<1> USE QueuesTyped DEF OrderInv
<1>1. ASSUME connections' \subseteq connections,
             \A s \in connections' : RepliesAt(s)' \subseteq RepliesAt(s)
      PROVE  RoutedReqs' \subseteq RoutedReqs
  BY <1>1 DEF RoutedReqs, ReqsOf
<1>2. ASSUME connections' \subseteq connections,
             \A s \in connections' :
                /\ w_in_messages'[s] \in {w_in_messages[s], <<>>}
                /\ w_buffer'[s] \in {w_buffer[s], None}
      PROVE  RoutedReqs' \subseteq RoutedReqs
  <2>1. Range(<<>>) = {}
    BY DEF Range
  <2>2. \A s \in connections' : RepliesAt(s)' \subseteq RepliesAt(s)
    BY <1>2, <2>1 DEF RepliesAt
  <2> QED
    BY <1>1, <1>2, <2>2
<1>3. ASSUME NEW c \in Client, NEW s \in Socket, AcceptClient(c, s)
      PROVE  RoutedReqs' = RoutedReqs
  BY <1>3, AcceptClientRoutesNothing
<1>4. ASSUME NEW s \in Socket,
             DropClient(s) \/ WriteDataToInBuffer(s) \/ WriteInSocket(s)
               \/ FreeInvalidMessage(s)
      PROVE  RoutedReqs' \subseteq RoutedReqs
  <2>1. connections' \subseteq connections
    BY <1>4 DEF DropClient, WriteDataToInBuffer, WriteInSocket,
                FreeInvalidMessage, in_vars
  <2> QED
    BY <1>1, <1>4, <2>1, RepliesLeft DEF TypeOK, ClientSideTypeOK
<1>5. CASE ClientSide
  <2>1. ASSUME NEW s \in Socket, ReadInSocket(s)
        PROVE  RoutedReqs' \subseteq RoutedReqs
    BY <1>2, <2>1 DEF ReadInSocket, in_vars
  <2> QED
    BY <1>3, <1>4, <1>5, <2>1 DEF ClientSide
<1>6. CASE ServerSide
  BY <1>2, <1>6 DEF ServerSide, ReadOutSocket, OutSocketFails, DetectFailure,
    WriteDataToOutBuffer, WriteOutSocket, queue_vars, in_vars
<1>7. ASSUME NEW m \in socket_to_recv_unicast_msg, RouteReply(m)
      PROVE  RoutedReqs' \subseteq RoutedReqs \cup ReqsOf(InHand)
  <2>1. /\ UNCHANGED <<connections, w_buffer>>
        /\ m.socket \in Socket /\ m.invokeid_original \in Nat
        /\ held_out \in Pdu
    BY <1>7 DEF RouteReply, in_vars, TypeOK, ProcessingTypeOK,
                MappingsTypeOK, Mapping
  <2>2. PICK y : y = [held_out EXCEPT !.invokeid = m.invokeid_original]
    OBVIOUS
  <2>3. y \in Pdu /\ y.req = held_out.req
    BY <2>1, <2>2 DEF Pdu
  <2>4. \A s \in connections :
            w_in_messages'[s] = IF s = m.socket THEN Append(w_in_messages[s], y)
                                                ELSE w_in_messages[s]
    BY <1>7, <2>2 DEF RouteReply, TypeOK, ClientSideTypeOK, QueuesTypeOK
  <2>5. \A s \in connections :
            Range(Append(w_in_messages[s], y)) = Range(w_in_messages[s]) \cup {y}
    BY <2>3, AppendContents DEF TypeOK, ClientSideTypeOK
  <2>6. ASSUME NEW s \in connections
        PROVE  ReqsOf(RepliesAt(s))' \subseteq RoutedReqs \cup ReqsOf(InHand)
    <3>1. CASE s = m.socket
      <4>1. InHand = {held_out}
        BY <1>7, <3>1, RouteReplyRoutes
      <4>2. RepliesAt(s)' = RepliesAt(s) \cup {y}
        BY <2>1, <2>4, <2>5, <3>1 DEF RepliesAt
      <4> QED
        BY <2>3, <4>1, <4>2 DEF ReqsOf, RoutedReqs
    <3>2. CASE s # m.socket
      <4>1. RepliesAt(s)' = RepliesAt(s)
        BY <2>1, <2>4, <3>2 DEF RepliesAt
      <4> QED
        BY <4>1 DEF ReqsOf, RoutedReqs
    <3> QED
      BY <3>1, <3>2
  <2> QED
    BY <2>1, <2>6 DEF RoutedReqs
<1>8. CASE Processing /\ ~(\E m \in socket_to_recv_unicast_msg : RouteReply(m))
  BY <1>2, <1>8 DEF Processing, CheckOutput, ConnectToOutput, TakeInMessage,
    TakeOutMessage, MapRequest, ForwardRequest, EnterLookup, EndRoute,
    queue_vars, in_vars
<1>9. CASE Cleanup
  BY <1>2, <1>9 DEF Cleanup, BeginCleanup, FreeRInMessages, FreeWInMessages,
    FreeROutMessages, FreeWOutMessages, RemoveMappingsFor, EndRemoveMappings,
    RemoveConnection, EndCleanup, Rearm, queue_vars, in_vars, TypeOK,
    ClientSideTypeOK
<1>10. CASE UNCHANGED vars
  BY <1>2, <1>10 DEF vars, queue_vars, in_vars
<1> QED
  BY <1>5, <1>6, <1>7, <1>8, <1>9, <1>10 DEF Next

\* While no invokeid clashes, reading from a client is the only step that adds
\* to what is pending.
LEMMA StepPendingShrinks ==
    ASSUME HandleReuse = FALSE, OrderInv, RightClientInv, ~idClash,
           [Next]_vars, \A s \in Socket : ~ReadInSocket(s)
    PROVE  Pending' \subseteq Pending
<1>1. OrderInv'
  BY StepOrderInv
<1>2. UnsentReqs' \subseteq UnsentReqs
  <2>1. CASE WriteOutSocket
    <3> PICK x : x = out_w_buffer.req
      OBVIOUS
    <3> QED
      BY <2>1, WriteOutSocketSends
  <2>2. CASE ~WriteOutSocket
    BY <2>2, StepSendsNothing DEF NothingSent
  <2> QED
    BY <2>1, <2>2
<1>3. AwaitedReqs' \subseteq AwaitedReqs \cup UnsentReqs
  BY StepAwaited DEF AwaitedReqs, ReqsOf, UnsentReqs, OutPdus
<1>4. ReqsOf(InHand) \subseteq AwaitedReqs
  BY DEF AwaitedReqs, AwaitedPdus, ReqsOf
<1>5. Pending = UnsentReqs \cup AwaitedReqs \cup RoutedReqs
  BY PendingPlaces
<1>6. Pending' = UnsentReqs' \cup AwaitedReqs' \cup RoutedReqs'
  BY <1>1, PendingPlacesNext
<1> QED
  BY <1>2, <1>3, <1>4, <1>5, <1>6, StepRouted

\* The request that is read becomes pending.
LEMMA ReadInSocketAddsPending ==
    ASSUME OrderInv, OrderInv', NEW s \in Socket, ReadInSocket(s),
           NEW c, c = owner[s], NEW n, n = sent[c] + 1
    PROVE  Pending' = Pending \cup {<<c, n>>}
<1>1. UnsentReqs' = UnsentReqs \cup {<<c, n>>}
  BY ReadInSocketReads DEF OrderInv
<1>2. AwaitedReqs' = AwaitedReqs /\ RoutedReqs' = RoutedReqs
  BY DEF ReadInSocket, AwaitedReqs, AwaitedPdus, InHand, Matching, RoutedReqs,
         RepliesAt, ReqsOf, in_vars, map_vars, proc_vars
<1> QED
  BY <1>1, <1>2, PendingPlaces, PendingPlacesNext

\* The request whose reply is written to its client is no longer pending, while
\* no invokeid clashed.
LEMMA WriteInSocketAnswers ==
    ASSUME OrderInv, OrderInv', RightClientInv, RepliesCounted,
           ForwardedInOrder, RoutedOnce, ~idClash,
           NEW s \in Socket, WriteInSocket(s), NEW r, r = w_buffer[s].req
    PROVE  /\ r \in Pending /\ Pending' = Pending \ {r}
           /\ r[1] = owner[s] /\ w_buffer[s] = Mux!Reply(r)
<1> USE QueuesTyped DEF OrderInv
<1>1. /\ s \in connections /\ connections' = connections
      /\ w_buffer[s] # None /\ w_buffer[s] \in Pdu
      /\ w_buffer' = [w_buffer EXCEPT ![s] = None]
      /\ w_in_messages' = w_in_messages
      /\ w_buffer'[s] = None
      /\ \A t \in connections \ {s} : w_buffer'[t] = w_buffer[t]
  BY DEF WriteInSocket, queue_vars, TypeOK, ClientSideTypeOK
<1>2. r[1] = owner[s] /\ w_buffer[s].invokeid = r[2]
  BY <1>1 DEF RightClientInv, RepliesAttributed, IsReplyTo
<1>3. w_buffer[s] = Mux!Reply(r)
  BY <1>1, <1>2 DEF Mux!Reply, Pdu
<1>4. UnsentReqs' = UnsentReqs /\ AwaitedReqs' = AwaitedReqs
  BY DEF WriteInSocket, UnsentReqs, OutPdus, AwaitedReqs, AwaitedPdus, InHand,
         Matching, ReqsOf, queue_vars, map_vars, proc_vars, out_vars
<1>5. r \in ReqsOf(RepliesAt(s)) /\ r \in RoutedReqs /\ r \in ForwardedReqs
  BY <1>1 DEF RepliesAt, ReqsOf, RoutedReqs, ForwardedReqs
<1>6. r \notin UnsentReqs /\ r \notin AwaitedReqs
  BY <1>1, <1>5, UnsentNotForwarded DEF RoutedOnce, RoutedOnceAt
<1>7. ReqsOf(RepliesAt(s))' = ReqsOf(RepliesAt(s)) \ {r}
  <2>1. r \notin ReqsOf(Range(w_in_messages[s]))
    BY <1>1 DEF RoutedOnce, RoutedOnceAt
  <2> QED
    BY <1>1, <2>1 DEF RepliesAt, ReqsOf
<1>8. ASSUME NEW t \in connections, t # s
      PROVE  /\ ReqsOf(RepliesAt(t))' = ReqsOf(RepliesAt(t))
             /\ r \notin ReqsOf(RepliesAt(t))
  <2>1. \A p \in RepliesAt(t) : p.req[1] = owner[t]
    BY DEF RightClientInv, RepliesAttributed, RepliesAt, IsReplyTo
  <2>2. owner[t] # owner[s]
    BY <1>8, <1>1 DEF RepliesCounted, TypeOK, ClientSideTypeOK
  <2> QED
    BY <1>1, <1>2, <1>8, <2>1, <2>2 DEF RepliesAt, ReqsOf
<1>9. RoutedReqs' = RoutedReqs \ {r}
  BY <1>1, <1>7, <1>8 DEF RoutedReqs
<1> QED
  BY <1>2, <1>3, <1>4, <1>5, <1>6, <1>9, PendingPlaces, PendingPlacesNext
-----------------------------------------------------------------------------
(* The steps of Routing as steps of MuxService. *)

RoutingInv == OrderInv /\ RightClientInv /\ RepliesCounted /\ ServiceInv

\* The values that Mux gives to the variables of MuxService.
PendingService == IF idClash THEN {} ELSE Pending

Broken == out_failed \/ do_cleanup \/ cleaning # "off"

service_vars ==
    <<{owner[s] : s \in connections}, sent, IF idClash THEN {} ELSE Pending,
      received, out_failed \/ do_cleanup \/ cleaning # "off", idClash>>

Promise == idClash \/ Broken \/ Mux!NobodyLeftOut

\* Away from failures, no connected client waits in vain.
LEMMA PromiseKept == RoutingInv => Promise
<1> SUFFICES ASSUME RoutingInv, ~idClash, ~Broken PROVE Mux!NobodyLeftOut
  BY DEF Promise
<1>1. Conserved
  BY DEF RoutingInv, ServiceInv, Broken, OutConnectionLocked
<1>2. Live \subseteq Pending
  <2>1. Pending = UnsentReqs \cup AwaitedReqs \cup RoutedReqs
    BY PendingPlaces DEF RoutingInv
  <2> QED
    BY <2>1 DEF Live, AwaitedReqs, AwaitedPdus, ReqsOf
<1>3. ASSUME NEW r \in Mux!Lost, r[1] \in Connected, r \notin Unencodable
      PROVE  FALSE
  <2>1. /\ r \in Client \X (1 .. MaxRequests) /\ r[2] <= sent[r[1]]
        /\ r \notin Pending
        /\ ~Mux!Contains(received[r[1]], Mux!Reply(r))
    BY <1>3 DEF Mux!Lost
  <2>2. r[2] \in 1 .. sent[r[1]] /\ r = <<r[1], r[2]>>
    BY <2>1 DEF RoutingInv, OrderInv, TypeOK, EnvironmentTypeOK
  <2>3. r \in Live \/ Settled(r)
    BY <1>1, <1>3, <2>2 DEF Conserved
  <2>4. ~Contains(received[r[1]], Mux!Reply(r))
    BY <2>1 DEF Contains, Mux!Contains
  <2> QED
    BY <1>2, <1>3, <2>1, <2>3, <2>4 DEF Settled
<1> QED
  BY <1>3 DEF Mux!NobodyLeftOut, Connected

LEMMA PromiseKeptNext == RoutingInv' => Promise'
  BY PromiseKept, PTL

\* A step that neither connects nor disconnects a client, reads no request and
\* writes no reply.
LEMMA OthersLose ==
    ASSUME RoutingInv, RoutingInv',
           UNCHANGED <<connections, owner, sent, received, idClash>>,
           PendingService' \subseteq PendingService
    PROVE  Mux!Next
<1>1. Promise'
  BY PromiseKeptNext
<1>2. Broken \in BOOLEAN /\ Broken' \in BOOLEAN
  BY DEF Broken
<1>3. CASE Broken' = Broken
  <2>1. Mux!Lose
    BY <1>1, <1>3 DEF Mux!Lose, Promise, Broken, PendingService
  <2> QED
    BY <2>1 DEF Mux!Next
<1>4. CASE ~Broken /\ Broken'
  <2>1. Mux!Fail
    BY <1>4 DEF Mux!Fail, Broken, PendingService
  <2> QED
    BY <2>1 DEF Mux!Next
<1>5. CASE Broken /\ ~Broken'
  <2>1. Mux!Recover
    BY <1>1, <1>5 DEF Mux!Recover, Promise, Broken, PendingService
  <2> QED
    BY <2>1 DEF Mux!Next
<1> QED
  BY <1>2, <1>3, <1>4, <1>5

\* Accepting a client is Connect.
LEMMA AcceptClientConnectsMux ==
    ASSUME HandleReuse = FALSE, RoutingInv, RoutingInv',
           NEW c \in Client, NEW s \in Socket, AcceptClient(c, s)
    PROVE  Mux!Next
<1>1. Connected' = Connected \cup {c} /\ c \notin Connected
  BY AcceptClientConnects DEF RoutingInv, ServiceInv
<1>2. /\ sent[c] = 0
      /\ UNCHANGED <<sent, received, idClash, out_failed, do_cleanup, cleaning>>
  BY DEF AcceptClient, map_vars, out_vars, clean_vars, env_vars
<1>3. Pending' = Pending
  <2>1. UnsentReqs' = UnsentReqs /\ AwaitedReqs' = AwaitedReqs
    BY DEF AcceptClient, UnsentReqs, OutPdus, AwaitedReqs, AwaitedPdus, InHand,
           Matching, ReqsOf, queue_vars, map_vars, proc_vars, out_vars, env_vars
  <2>2. RoutedReqs' = RoutedReqs
    BY AcceptClientRoutesNothing DEF RoutingInv
  <2> QED
    BY <2>1, <2>2, PendingPlaces, PendingPlacesNext DEF RoutingInv
<1>4. Mux!Connect(c)
  BY <1>1, <1>2, <1>3 DEF Mux!Connect, Connected
<1> QED
  BY <1>4 DEF Mux!Next

\* Reading a request is Ask.
LEMMA ReadInSocketAsks ==
    ASSUME RoutingInv, RoutingInv', NEW s \in Socket, ReadInSocket(s)
    PROVE  Mux!Next
<1>1. PICK c, n : c = owner[s] /\ n = sent[c] + 1
  OBVIOUS
<1>2. /\ c \in Client /\ c \in Connected
      /\ sent[c] < MaxRequests /\ sent' = [sent EXCEPT ![c] = @ + 1]
  BY <1>1 DEF ReadInSocket, Connected, RoutingInv, OrderInv, TypeOK,
              ClientSideTypeOK
<1>3. UNCHANGED <<connections, owner, received, idClash, out_failed,
                  do_cleanup, cleaning>>
  BY DEF ReadInSocket, in_vars, map_vars, out_vars, clean_vars
<1>4. Pending' = Pending \cup {<<c, sent[c] + 1>>}
  BY <1>1, ReadInSocketAddsPending DEF RoutingInv
<1>5. Mux!Ask(c)
  BY <1>2, <1>3, <1>4 DEF Mux!Ask, Connected
<1> QED
  BY <1>2, <1>5 DEF Mux!Next

\* Writing a reply is Answer, or AnswerWrongly once an invokeid clashed.
LEMMA WriteInSocketAnswersMux ==
    ASSUME RoutingInv, RoutingInv', NEW s \in Socket, WriteInSocket(s)
    PROVE  Mux!Next
<1>1. PICK c, p : c = owner[s] /\ p = w_buffer[s]
  OBVIOUS
<1>2. /\ s \in connections /\ c \in Client /\ c \in Connected
      /\ p \in Pdu /\ p # None
      /\ received' = [received EXCEPT ![c] = Append(@, p)]
      /\ UNCHANGED <<connections, owner, sent, idClash, out_failed,
                     do_cleanup, cleaning>>
  BY <1>1 DEF WriteInSocket, map_vars, out_vars, clean_vars, Connected,
              RoutingInv, OrderInv, TypeOK, ClientSideTypeOK
<1>3. CASE ~idClash
  <2>1. PICK r : r = p.req
    OBVIOUS
  <2>2. /\ r \in Pending /\ Pending' = Pending \ {r}
        /\ r[1] = c /\ p = Mux!Reply(r)
    BY <1>1, <1>3, <2>1, WriteInSocketAnswers DEF RoutingInv, ServiceInv
  <2>3. Mux!Answer(r)
    BY <1>2, <1>3, <2>2 DEF Mux!Answer, Connected
  <2> QED
    BY <1>3, <2>2, <2>3 DEF Mux!Next
<1>4. CASE idClash
  <2>1. p.req \in Client \X (1 .. MaxRequests) /\ p.invokeid \in 1 .. MaxRequests
    BY <1>1, <1>2 DEF RoutingInv, ServiceInv, InvokeidsOriginal, RepliesAt,
                      Pdu, Request
  <2>2. p = [invokeid |-> p.invokeid, req |-> p.req]
    BY <1>2 DEF Pdu
  <2>3. Len(received[c]) < sent[c]
    <3>1. TypeOK /\ RepliesCounted
      BY DEF RoutingInv, OrderInv
    <3>2. /\ Len(received[c]) \in Nat /\ sent[c] \in Nat /\ Waiting(s) \in Nat
          /\ Len(w_in_messages[s]) \in Nat
          /\ Cardinality(Unanswered(c)) \in Nat
      BY <1>2, <3>1, CountsTyped, UnansweredFinite DEF Counts
    <3>3. /\ Replies(c, s) + Cardinality(Unanswered(c)) <= sent[c]
          /\ Replies(c, s) = Len(received[c]) + Waiting(s)
      BY <1>1, <1>2, <3>1 DEF RepliesCounted, Replies
    <3>4. Waiting(s) = 1 + Len(w_in_messages[s])
      BY <1>1, <1>2 DEF Waiting
    <3>5. PICK a, b, u, w : /\ a = Len(received[c]) /\ b = sent[c]
                            /\ u = Cardinality(Unanswered(c)) /\ w = Waiting(s)
      OBVIOUS
    <3>6. /\ a \in Nat /\ b \in Nat /\ u \in Nat /\ w \in Nat
          /\ (a + w) + u <= b
      BY <3>2, <3>3, <3>5
    <3>7. w > 0
      BY <3>2, <3>4, <3>5
    <3> QED
      BY <3>5, <3>6, <3>7
  <2>4. Mux!AnswerWrongly(c)
    BY <1>2, <1>4, <2>1, <2>2, <2>3 DEF Mux!AnswerWrongly, Connected
  <2> QED
    BY <1>2, <2>4 DEF Mux!Next
<1> QED
  BY <1>3, <1>4

\* Removing a connection is Disconnect.
LEMMA RemovalDisconnects ==
    ASSUME HandleReuse = FALSE, RoutingInv, RoutingInv', [Next]_vars,
           NEW s \in Socket, DropClient(s) \/ RemoveConnection(s)
    PROVE  Mux!Next
<1>1. /\ s \in connections /\ connections' = connections \ {s}
      /\ UNCHANGED <<owner, sent, received, idClash, out_failed, do_cleanup,
                     cleaning>>
  BY DEF DropClient, RemoveConnection, map_vars, out_vars, clean_vars, env_vars
<1> PICK c : c = owner[s]
  OBVIOUS
<1>2. c \in Client /\ c \in Connected
  BY <1>1 DEF Connected, RoutingInv, OrderInv, TypeOK, ClientSideTypeOK
<1>3. Connected' = Connected \ {c}
  BY <1>1, DisconnectedClientGone DEF RoutingInv, OrderInv
<1>4. PendingService' \subseteq PendingService
  <2>1. \A t \in Socket : ~ReadInSocket(t)
    BY <1>1 DEF ReadInSocket, in_vars
  <2> QED
    BY <1>1, <2>1, StepPendingShrinks DEF RoutingInv, PendingService
<1>5. Promise'
  BY PromiseKeptNext
<1>6. Mux!Disconnect(c)
  BY <1>1, <1>2, <1>3, <1>4, <1>5
  DEF Mux!Disconnect, Connected, PendingService, Promise, Broken
<1> QED
  BY <1>2, <1>6 DEF Mux!Next

\* Generating an invokeid that is in use is Clash.
LEMMA MapRequestClashes ==
    ASSUME MapRequest, idClash'
    PROVE  Mux!Next
<1>1. UNCHANGED <<connections, owner, sent, received, out_failed, do_cleanup,
                  cleaning>>
  BY DEF MapRequest, in_vars, out_vars, clean_vars, env_vars
<1>2. Mux!Clash
  BY <1>1 DEF Mux!Clash
<1> QED
  BY <1>2 DEF Mux!Next

\* Every step of the muxer, stuttering included, is a step of MuxService.
LEMMA StepSimulates ==
    ASSUME HandleReuse = FALSE, RoutingInv, RoutingInv', [Next]_vars
    PROVE  Mux!Next
<1>1. ASSUME UNCHANGED <<connections, owner, sent, received, idClash>>
      PROVE  Mux!Next
  <2>1. CASE \E s \in Socket : ReadInSocket(s)
    BY <2>1, ReadInSocketAsks
  <2>2. CASE \A s \in Socket : ~ReadInSocket(s)
    <3>1. PendingService' \subseteq PendingService
      BY <1>1, <2>2, StepPendingShrinks DEF RoutingInv, PendingService
    <3> QED
      BY <1>1, <3>1, OthersLose
  <2> QED
    BY <2>1, <2>2
<1>2. CASE ClientSide
  <2>1. ASSUME NEW s \in Socket, WriteDataToInBuffer(s) \/ FreeInvalidMessage(s)
        PROVE  Mux!Next
    BY <1>1, <2>1
    DEF WriteDataToInBuffer, FreeInvalidMessage, in_vars, map_vars, env_vars
  <2> QED
    BY <1>2, <2>1, AcceptClientConnectsMux, ReadInSocketAsks,
       RemovalDisconnects, WriteInSocketAnswersMux
    DEF ClientSide
<1>3. CASE ServerSide
  BY <1>1, <1>3 DEF ServerSide, ReadOutSocket, OutSocketFails, DetectFailure,
    WriteDataToOutBuffer, WriteOutSocket, in_vars, map_vars, env_vars
<1>4. CASE MapRequest
  <2>1. CASE idClash'
    BY <1>4, <2>1, MapRequestClashes
  <2>2. CASE ~idClash'
    BY <1>1, <1>4, <2>2
    DEF MapRequest, in_vars, env_vars, RoutingInv, OrderInv, TypeOK,
        MappingsTypeOK
  <2> QED
    BY <2>1, <2>2
<1>5. CASE Processing /\ ~MapRequest
  BY <1>1, <1>5 DEF Processing, CheckOutput, ConnectToOutput, TakeInMessage,
    TakeOutMessage, ForwardRequest, RouteReply, EnterLookup, EndRoute,
    in_vars, map_vars, env_vars
<1>6. CASE Cleanup
  BY <1>1, <1>6, RemovalDisconnects
  DEF Cleanup, BeginCleanup, FreeRInMessages, FreeWInMessages,
    FreeROutMessages, FreeWOutMessages, RemoveMappingsFor, EndRemoveMappings,
    EndCleanup, Rearm, in_vars, map_vars, env_vars
<1>7. CASE UNCHANGED vars
  BY <1>1, <1>7 DEF vars, in_vars, map_vars, env_vars
<1> QED
  BY <1>2, <1>3, <1>4, <1>5, <1>6, <1>7 DEF Next

(***************************************************************************)
(* The muxer keeps the promise of MuxService, for any number of clients,   *)
(* handles, requests and failures and every interleaving of its threads,   *)
(* if the system does not reuse the handle of a closed socket: a connected *)
(* client is answered at most once per request, and no request of a        *)
(* connected client disappears but with a failure whose cleanup            *)
(* disconnects that client before it ends (dispatcher.c:233-247).          *)
(***************************************************************************)
THEOREM ImplementsMuxServiceCorrect ==
    ASSUME HandleReuse = FALSE PROVE Spec => ImplementsMuxService
<1>1. Init => Mux!Init
  <2> SUFFICES ASSUME Init PROVE Mux!Init
    OBVIOUS
  <2>1. Pending = {}
    <3>1. UnsentReqs = {} /\ AwaitedReqs = {} /\ RoutedReqs = {}
      BY InitEmpty DEF Init, AwaitedReqs, AwaitedPdus, RoutedReqs, ReqsOf
    <3> QED
      BY <3>1, PendingPlaces, InitOrderInv
  <2> QED
    BY <2>1 DEF Init, Mux!Init
<1>2. Spec => []RoutingInv
  BY ServiceInvCorrect DEF RoutingInv
<1>3. RoutingInv /\ RoutingInv' /\ [Next]_vars => [Mux!Next]_service_vars
  BY StepSimulates
<1>4. RoutingInv /\ RoutingInv' /\ [Next]_vars =>
        [Mux!Next]_<<{owner[s] : s \in connections}, sent,
                     IF idClash THEN {} ELSE Pending, received,
                     out_failed \/ do_cleanup \/ cleaning # "off", idClash>>
  BY <1>3 DEF service_vars
<1> QED
  BY <1>1, <1>2, <1>4, PTL
  DEF Spec, ImplementsMuxService, Mux!Spec, Mux!vars
=============================================================================
