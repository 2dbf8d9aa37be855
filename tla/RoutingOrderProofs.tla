-------------------------- MODULE RoutingOrderProofs --------------------------
(***************************************************************************)
(* More proofs about Routing: the requests of a client stay in order, and  *)
(* a client receives no more replies than it sent requests.                *)
(***************************************************************************)
EXTENDS RoutingProofs, FiniteSets, FiniteSetTheorems

-----------------------------------------------------------------------------
(* The order of requests: what RequestsStayInOrder rests on. *)

\* Of two requests of one client, r1 was sent first.
Precedes(r1, r2) == r1[1] = r2[1] => r1[2] < r2[2]

\* The PDUs that the processing thread has forwarded and that are not sent.
OutPdus == Range(w_out_messages) \cup ({out_w_buffer} \ {None})

\* The queues are in order, and the w_buffer comes first.
QueuesInOrder ==
    /\ \A i, j \in 1 .. Len(r_in_messages) :
           i < j => Precedes(r_in_messages[i].pdu.req, r_in_messages[j].pdu.req)
    /\ \A i, j \in 1 .. Len(w_out_messages) :
           i < j => Precedes(w_out_messages[i].req, w_out_messages[j].req)
    /\ out_w_buffer # None => \A p \in Range(w_out_messages) :
                                  Precedes(out_w_buffer.req, p.req)

\* What waits in r_in_messages comes after everything else.
WaitingInOrder ==
    \A q \in Range(r_in_messages) :
        /\ held_in # None => Precedes(held_in.pdu.req, q.pdu.req)
        /\ \A p \in OutPdus : Precedes(p.req, q.pdu.req)
        /\ \A m \in socket_to_recv_unicast_msg : Precedes(m.req, q.pdu.req)

\* The message in hand comes after what was forwarded and mapped, but for its
\* own mapping.
HeldInOrder ==
    held_in # None =>
        /\ pc \in {"map", "send"}
        /\ \A p \in OutPdus : Precedes(p.req, held_in.pdu.req)
        /\ \A m \in socket_to_recv_unicast_msg :
               \/ Precedes(m.req, held_in.pdu.req)
               \/ pc = "send" /\ m.req = held_in.pdu.req

\* What the client sends next comes after everything.
AllSent ==
    /\ \A q \in Range(r_in_messages) : q.pdu.req[2] <= sent[q.pdu.req[1]]
    /\ held_in # None => held_in.pdu.req[2] <= sent[held_in.pdu.req[1]]
    /\ \A p \in OutPdus : p.req[2] <= sent[p.req[1]]
    /\ \A m \in socket_to_recv_unicast_msg : m.req[2] <= sent[m.req[1]]

\* There is one mapping for a request.
MappingsUnique ==
    \A m1, m2 \in socket_to_recv_unicast_msg : m1.req = m2.req => m1 = m2

OrderInv ==
    /\ TypeOK
    /\ QueuesInOrder
    /\ WaitingInOrder
    /\ HeldInOrder
    /\ AllSent
    /\ MappingsUnique

-----------------------------------------------------------------------------
(* The number of replies. *)

\* The requests of c, by their numbers, that may still lead to a reply.
Unanswered(c) ==
    {n \in 1 .. sent[c] :
        \/ \E q \in Range(r_in_messages) : q.pdu.req = <<c, n>>
        \/ pc = "map" /\ held_in.pdu.req = <<c, n>>
        \/ \E m \in socket_to_recv_unicast_msg : m.req = <<c, n>>}

\* The replies that wait for socket s.
Waiting(s) == (IF w_buffer[s] = None THEN 0 ELSE 1) + Len(w_in_messages[s])

\* The replies that client c has or will get at socket s.
Replies(c, s) == Len(received[c]) + Waiting(s)

RepliesCounted ==
    /\ \A s, t \in Socket, c \in Client : owner[s] = c /\ owner[t] = c => s = t
    /\ \A c \in Client :
           (\A s \in Socket : owner[s] # c) => received[c] = <<>>
    /\ \A s \in Socket, c \in Client :
           owner[s] = c => Replies(c, s) + Cardinality(Unanswered(c)) <= sent[c]

-----------------------------------------------------------------------------
(* Proof of the order. *)

\* Of one queue, the first element and the others.
LEMMA TakeElements ==
    ASSUME NEW S, NEW q \in Seq(S), q # <<>>
    PROVE  /\ Len(q) \in Nat /\ Len(q) > 0
           /\ Head(q) = q[1]
           /\ Len(Tail(q)) = Len(q) - 1
           /\ \A i \in 1 .. Len(Tail(q)) : Tail(q)[i] = q[i + 1]
           /\ Range(q) = {q[i] : i \in 1 .. Len(q)}
           /\ Range(Tail(q)) = {q[i] : i \in 2 .. Len(q)}
<1>1. /\ Tail(q) \in Seq(S)
      /\ Len(Tail(q)) = Len(q) - 1
      /\ \A i \in 1 .. Len(Tail(q)) : Tail(q)[i] = q[i + 1]
  BY HeadTailProperties
<1>2. DOMAIN q = 1 .. Len(q) /\ DOMAIN Tail(q) = 1 .. Len(Tail(q))
      /\ Len(q) \in Nat /\ Len(q) # 0
  BY <1>1, LenProperties, EmptySeq
<1>3. Head(q) = q[1]
  OBVIOUS
<1>4. Range(q) = {q[i] : i \in 1 .. Len(q)}
  BY <1>2 DEF Range
<1>5. Range(Tail(q)) = {q[i] : i \in 2 .. Len(q)}
  <2>1. Range(Tail(q)) \subseteq {q[i] : i \in 2 .. Len(q)}
    <3>1. \A i \in 1 .. Len(Tail(q)) : i + 1 \in 2 .. Len(q)
      BY <1>1, <1>2
    <3> QED
      BY <1>1, <1>2, <3>1 DEF Range
  <2>2. ASSUME NEW i \in 2 .. Len(q) PROVE q[i] \in Range(Tail(q))
    <3>1. i - 1 \in 1 .. Len(Tail(q)) /\ (i - 1) + 1 = i
      BY <1>1, <1>2
    <3>2. Tail(q)[i - 1] = q[i]
      BY <1>1, <3>1
    <3> QED
      BY <1>2, <3>1, <3>2 DEF Range
  <2> QED
    BY <2>1, <2>2
<1> QED
  BY <1>1, <1>2, <1>3, <1>4, <1>5

\* Every request that is somewhere in the muxer has a client and a number.
LEMMA RequestsTyped ==
    ASSUME TypeOK
    PROVE  /\ \A r \in Request : r[1] \in Client /\ r[2] \in Nat
           /\ \A q \in Range(r_in_messages) : q.pdu.req \in Request
           /\ held_in # None => held_in.pdu.req \in Request
           /\ \A p \in OutPdus : p.req \in Request
           /\ \A m \in socket_to_recv_unicast_msg : m.req \in Request
           /\ \A c \in Client : sent[c] \in Nat
<1>1. \A r \in Request : r[1] \in Client /\ r[2] \in Nat
  BY DEF Request
<1>2. /\ \A q \in Range(r_in_messages) : q \in InMessage
      /\ \A p \in Range(w_out_messages) : p \in Pdu
  BY RangeOfSeq DEF TypeOK, QueuesTypeOK
<1>3. \A c \in Client : sent[c] \in Nat
  BY RoutingAssumption DEF RoutingAssumption, TypeOK, EnvironmentTypeOK
<1> QED
  BY <1>1, <1>2, <1>3
  DEF InMessage, Pdu, Mapping, OutPdus, TypeOK, ProcessingTypeOK,
      OutConnectionTypeOK, MappingsTypeOK

\* The muxer starts with nothing that could be out of order.
LEMMA InitOrderInv == Init => OrderInv
<1> SUFFICES ASSUME Init PROVE OrderInv
  OBVIOUS
<1>1. /\ Range(r_in_messages) = {} /\ Range(w_out_messages) = {}
      /\ Len(r_in_messages) = 0 /\ Len(w_out_messages) = 0
  BY DEF Init, Range
<1>2. OutPdus = {}
  BY <1>1 DEF Init, OutPdus
<1> QED
  BY <1>1, <1>2, InitTypeOK
  DEF Init, OrderInv, QueuesInOrder, WaitingInOrder, HeldInOrder, AllSent,
      MappingsUnique

\* A step that takes requests and mappings away and does not move the others.
NothingMoved ==
    /\ r_in_messages' \in {r_in_messages, <<>>}
    /\ w_out_messages' \in {w_out_messages, <<>>}
    /\ out_w_buffer' \in {out_w_buffer, None}
    /\ held_in' = held_in
    /\ held_in # None => pc' = pc
    /\ socket_to_recv_unicast_msg' \subseteq socket_to_recv_unicast_msg
    /\ sent' = sent

\* Such a step keeps the order.
LEMMA NothingMovedKeepsOrder ==
    ASSUME OrderInv, NothingMoved, TypeOK' PROVE OrderInv'
<1> USE DEF NothingMoved, OrderInv
<1>1. Range(<<>>) = {} /\ Len(<<>>) = 0
  BY DEF Range
<1>2. /\ Range(r_in_messages') \subseteq Range(r_in_messages)
      /\ Range(w_out_messages') \subseteq Range(w_out_messages)
  BY <1>1
<1>3. OutPdus' \subseteq OutPdus
  BY <1>2 DEF OutPdus
<1>4. QueuesInOrder'
  BY <1>1, <1>2 DEF QueuesInOrder, Precedes
<1>5. WaitingInOrder'
  BY <1>2, <1>3 DEF WaitingInOrder, Precedes
<1>6. HeldInOrder'
  BY <1>3 DEF HeldInOrder, Precedes
<1>7. AllSent'
  BY <1>2, <1>3 DEF AllSent
<1>8. MappingsUnique'
  BY DEF MappingsUnique
<1> QED
  BY <1>4, <1>5, <1>6, <1>7, <1>8

\* A request that is read from a client comes last.
LEMMA ReadInSocketKeepsOrder ==
    ASSUME OrderInv, TypeOK', NEW s \in Socket, ReadInSocket(s)
    PROVE  OrderInv'
<1> DEFINE c == owner[s]
           n == sent[c] + 1
           q == [socket |-> s, pdu |-> [invokeid |-> n, req |-> <<c, n>>]]
<1> TypeOK
  BY DEF OrderInv
<1> USE DEF in_vars, map_vars, proc_vars, out_vars, clean_vars
<1>1. c \in Client /\ n \in 1 .. MaxRequests /\ sent[c] \in Nat
  BY RoutingAssumption
  DEF ReadInSocket, TypeOK, ClientSideTypeOK, EnvironmentTypeOK,
      RoutingAssumption
<1>2. q \in InMessage /\ q.pdu.req = <<c, n>>
  BY <1>1 DEF InMessage, Pdu, Request
<1>3. /\ r_in_messages' = Append(r_in_messages, q)
      /\ sent' = [sent EXCEPT ![c] = n]
      /\ UNCHANGED <<w_out_messages, out_w_buffer, held_in, pc,
                     socket_to_recv_unicast_msg>>
  BY DEF ReadInSocket
<1> HIDE DEF q
<1>4. /\ Len(r_in_messages) \in Nat
      /\ Len(r_in_messages') = Len(r_in_messages) + 1
      /\ \A i \in 1 .. Len(r_in_messages) :
             r_in_messages'[i] = r_in_messages[i]
      /\ r_in_messages'[Len(r_in_messages) + 1] = q
      /\ Range(r_in_messages') = Range(r_in_messages) \cup {q}
      /\ \A i \in 1 .. Len(r_in_messages) :
             r_in_messages[i] \in Range(r_in_messages)
  <2>1. r_in_messages \in Seq(InMessage)
    BY DEF TypeOK, QueuesTypeOK
  <2> QED
    BY <1>2, <1>3, <2>1, AppendProperties, AppendContents, LenProperties
    DEF Range
<1>5. \A r \in Request : r[2] <= sent[r[1]] => Precedes(r, q.pdu.req)
  BY <1>1, <1>2, RequestsTyped DEF Precedes
<1>6. \A r \in Request : r[2] <= sent[r[1]] => r[2] <= sent'[r[1]]
  BY <1>1, <1>3, RequestsTyped
<1>7. OutPdus' = OutPdus
  BY <1>3 DEF OutPdus
<1>8. AllSent'
  <2>1. q.pdu.req[2] <= sent'[q.pdu.req[1]]
    BY <1>1, <1>2, <1>3 DEF TypeOK, EnvironmentTypeOK
  <2> QED
    BY <1>3, <1>4, <1>6, <1>7, <2>1, RequestsTyped DEF OrderInv, AllSent
<1>9. QueuesInOrder'
  <2>1. \A i \in 1 .. Len(r_in_messages) :
            Precedes(r_in_messages[i].pdu.req, q.pdu.req)
    BY <1>4, <1>5, RequestsTyped DEF OrderInv, AllSent
  <2>2. ASSUME NEW i \in 1 .. Len(r_in_messages'),
               NEW j \in 1 .. Len(r_in_messages'), i < j
        PROVE  Precedes(r_in_messages'[i].pdu.req, r_in_messages'[j].pdu.req)
    <3>1. CASE j = Len(r_in_messages) + 1
      BY <1>4, <2>1, <2>2, <3>1
    <3>2. CASE j \in 1 .. Len(r_in_messages)
      BY <1>4, <2>2, <3>2 DEF OrderInv, QueuesInOrder
    <3> QED
      BY <1>4, <3>1, <3>2
  <2> QED
    BY <1>3, <2>2 DEF OrderInv, QueuesInOrder, Precedes
<1>10. WaitingInOrder'
  <2>1. \A p \in OutPdus : Precedes(p.req, q.pdu.req)
    BY <1>5, RequestsTyped DEF OrderInv, AllSent
  <2>2. \A m \in socket_to_recv_unicast_msg : Precedes(m.req, q.pdu.req)
    BY <1>5, RequestsTyped DEF OrderInv, AllSent
  <2>3. held_in # None => Precedes(held_in.pdu.req, q.pdu.req)
    BY <1>5, RequestsTyped DEF OrderInv, AllSent
  <2> QED
    BY <1>3, <1>4, <1>7, <2>1, <2>2, <2>3
    DEF OrderInv, WaitingInOrder, Precedes
<1>11. HeldInOrder' /\ MappingsUnique'
  BY <1>3, <1>7 DEF OrderInv, HeldInOrder, MappingsUnique, Precedes
<1> QED
  BY <1>8, <1>9, <1>10, <1>11 DEF OrderInv

\* A request that moves into the w_buffer stays before the others.
LEMMA WriteDataToOutBufferKeepsOrder ==
    ASSUME OrderInv, TypeOK', WriteDataToOutBuffer PROVE OrderInv'
<1> DEFINE q == w_out_messages
<1> TypeOK
  BY DEF OrderInv
<1> USE DEF in_vars, map_vars, proc_vars, clean_vars, env_vars
<1>1. q \in Seq(Pdu) /\ q # <<>>
  BY DEF WriteDataToOutBuffer, TypeOK, QueuesTypeOK
<1>2. /\ out_w_buffer' = Head(q) /\ w_out_messages' = Tail(q)
      /\ UNCHANGED <<r_in_messages, held_in, pc, socket_to_recv_unicast_msg,
                     sent>>
  BY DEF WriteDataToOutBuffer
<1>3. OutPdus' \subseteq OutPdus
  BY <1>1, <1>2, TakeContents DEF OutPdus
<1>4. QueuesInOrder'
  <2>1. /\ \A i, j \in 1 .. Len(Tail(q)) : i < j =>
               Precedes(Tail(q)[i].req, Tail(q)[j].req)
        /\ \A p \in Range(Tail(q)) : Precedes(Head(q).req, p.req)
    <3> HIDE DEF q
    <3>1. \A i, j \in 1 .. Len(q) : i < j => Precedes(q[i].req, q[j].req)
      BY DEF OrderInv, QueuesInOrder, q
    <3>2. \A i \in 1 .. Len(Tail(q)) :
              i + 1 \in 1 .. Len(q) /\ Tail(q)[i] = q[i + 1]
      BY <1>1, TakeElements
    <3>3. \A i \in 2 .. Len(q) : i \in 1 .. Len(q) /\ 1 < i
      OBVIOUS
    <3> QED
      BY <1>1, <3>1, <3>2, <3>3, TakeElements
  <2> QED
    BY <1>2, <2>1 DEF OrderInv, QueuesInOrder, Precedes
<1>5. WaitingInOrder' /\ HeldInOrder' /\ AllSent' /\ MappingsUnique'
  BY <1>2, <1>3
  DEF OrderInv, WaitingInOrder, HeldInOrder, AllSent, MappingsUnique, Precedes
<1> QED
  BY <1>4, <1>5 DEF OrderInv

\* The message that is taken in hand comes before the others that wait.
LEMMA TakeInMessageKeepsOrder ==
    ASSUME OrderInv, TypeOK', TakeInMessage PROVE OrderInv'
<1> DEFINE q == r_in_messages
<1> TypeOK
  BY DEF OrderInv
<1> USE DEF in_vars, map_vars, out_vars, clean_vars, env_vars
<1>1. CASE r_in_messages = <<>>
  <2>1. NothingMoved
    BY <1>1 DEF TakeInMessage, NothingMoved, OrderInv, HeldInOrder
  <2> QED
    BY <2>1, NothingMovedKeepsOrder
<1>2. CASE r_in_messages # <<>>
  <2>1. /\ held_in' = Head(q) /\ r_in_messages' = Tail(q) /\ pc' = "map"
        /\ UNCHANGED <<w_out_messages, out_w_buffer,
                       socket_to_recv_unicast_msg, sent>>
        /\ OutPdus' = OutPdus
    BY <1>2 DEF TakeInMessage, OutPdus
  <2>2. /\ Head(q) \in Range(q) /\ Range(Tail(q)) \subseteq Range(q)
        /\ \A i, j \in 1 .. Len(Tail(q)) : i < j =>
               Precedes(Tail(q)[i].pdu.req, Tail(q)[j].pdu.req)
        /\ \A x \in Range(Tail(q)) : Precedes(Head(q).pdu.req, x.pdu.req)
    <3>1. q \in Seq(InMessage) /\ q # <<>>
      BY <1>2 DEF TypeOK, QueuesTypeOK
    <3>2. \A i, j \in 1 .. Len(q) :
              i < j => Precedes(q[i].pdu.req, q[j].pdu.req)
      BY DEF OrderInv, QueuesInOrder
    <3> HIDE DEF q
    <3>3. \A i \in 1 .. Len(Tail(q)) :
              i + 1 \in 1 .. Len(q) /\ Tail(q)[i] = q[i + 1]
      BY <3>1, TakeElements
    <3>4. \A i \in 2 .. Len(q) : i \in 1 .. Len(q) /\ 1 < i
      OBVIOUS
    <3> QED
      BY <3>1, <3>2, <3>3, <3>4, TakeElements, TakeContents
  <2>3. QueuesInOrder'
    BY <2>1, <2>2 DEF OrderInv, QueuesInOrder, Precedes
  <2>4. WaitingInOrder'
    BY <2>1, <2>2 DEF OrderInv, WaitingInOrder, Precedes
  <2>5. HeldInOrder'
    BY <2>1, <2>2 DEF OrderInv, WaitingInOrder, HeldInOrder, Precedes
  <2>6. AllSent' /\ MappingsUnique'
    BY <2>1, <2>2 DEF OrderInv, AllSent, MappingsUnique
  <2> QED
    BY <2>3, <2>4, <2>5, <2>6 DEF OrderInv
<1> QED
  BY <1>1, <1>2

\* The mapping for the message in hand is the last one.
LEMMA MapRequestKeepsOrder ==
    ASSUME OrderInv, TypeOK', MapRequest PROVE OrderInv'
<1> DEFINE m == [socket |-> held_in.socket,
                 invokeid_original |-> held_in.pdu.invokeid,
                 invokeid_generated |-> generate_invokeid,
                 req |-> held_in.pdu.req]
<1> TypeOK
  BY DEF OrderInv
<1> USE DEF in_vars, queue_vars, out_vars, clean_vars, env_vars
<1>1. /\ socket_to_recv_unicast_msg' = socket_to_recv_unicast_msg \cup {m}
      /\ pc = "map" /\ pc' = "send" /\ held_in # None
      /\ UNCHANGED <<r_in_messages, w_out_messages, out_w_buffer, held_in,
                     sent>>
      /\ OutPdus' = OutPdus
  BY DEF MapRequest, OutPdus, TypeOK, ProcessingTypeOK
<1>2. m.req = held_in.pdu.req
  OBVIOUS
<1> HIDE DEF m
<1>3. \A x \in socket_to_recv_unicast_msg : x.req # m.req
  BY <1>1, <1>2, RequestsTyped DEF OrderInv, HeldInOrder, Precedes
<1>4. QueuesInOrder'
  BY <1>1 DEF OrderInv, QueuesInOrder, Precedes
<1>5. WaitingInOrder'
  BY <1>1, <1>2 DEF OrderInv, WaitingInOrder, Precedes
<1>6. HeldInOrder'
  BY <1>1, <1>2 DEF OrderInv, HeldInOrder, Precedes
<1>7. AllSent' /\ MappingsUnique'
  BY <1>1, <1>2, <1>3 DEF OrderInv, AllSent, MappingsUnique
<1> QED
  BY <1>4, <1>5, <1>6, <1>7 DEF OrderInv

\* The request that is forwarded comes after those forwarded before.
LEMMA ForwardRequestKeepsOrder ==
    ASSUME OrderInv, TypeOK', ForwardRequest PROVE OrderInv'
<1> DEFINE p == [held_in.pdu EXCEPT !.invokeid = invokeid_gen_counter]
           q == w_out_messages
<1> TypeOK
  BY DEF OrderInv
<1> USE DEF in_vars, map_vars, out_vars, clean_vars, env_vars
<1>1. /\ p \in Pdu /\ p.req = held_in.pdu.req
      /\ held_in # None /\ q \in Seq(Pdu)
  <2>1. held_in # None /\ held_in.pdu \in Pdu /\ q \in Seq(Pdu)
    BY DEF ForwardRequest, TypeOK, ProcessingTypeOK, QueuesTypeOK, InMessage
  <2>2. invokeid_gen_counter \in Nat
    BY RoutingAssumption DEF TypeOK, MappingsTypeOK, RoutingAssumption
  <2> QED
    BY <2>1, <2>2 DEF Pdu
<1>2. /\ w_out_messages' \in {q, Append(q, p)}
      /\ held_in' = None
      /\ UNCHANGED <<r_in_messages, out_w_buffer, socket_to_recv_unicast_msg,
                     sent>>
  BY DEF ForwardRequest
<1> HIDE DEF p
<1>3. /\ Range(w_out_messages') \subseteq Range(w_out_messages) \cup {p}
      /\ OutPdus' \subseteq OutPdus \cup {p}
  <2>1. Range(Append(q, p)) = Range(q) \cup {p}
    BY <1>1, AppendContents
  <2> QED
    BY <1>2, <2>1 DEF OutPdus
<1>4. QueuesInOrder'
  <2>1. /\ Len(q) \in Nat
        /\ Len(Append(q, p)) = Len(q) + 1
        /\ \A i \in 1 .. Len(q) : Append(q, p)[i] = q[i] /\ q[i] \in OutPdus
        /\ Append(q, p)[Len(q) + 1] = p
    BY <1>1, AppendProperties, LenProperties DEF OutPdus, Range
  <2>2. \A x \in OutPdus : Precedes(x.req, p.req)
    BY <1>1 DEF OrderInv, HeldInOrder
  <2>3. \A i, j \in 1 .. Len(q) : i < j => Precedes(q[i].req, q[j].req)
    BY DEF OrderInv, QueuesInOrder
  <2>4. \A i, j \in 1 .. Len(Append(q, p)) :
            i < j => Precedes(Append(q, p)[i].req, Append(q, p)[j].req)
    <3> HIDE DEF q
    <3> SUFFICES ASSUME NEW i \in 1 .. Len(Append(q, p)),
                        NEW j \in 1 .. Len(Append(q, p)), i < j
                 PROVE  Precedes(Append(q, p)[i].req, Append(q, p)[j].req)
      OBVIOUS
    <3>1. i \in 1 .. Len(q)
      BY <2>1
    <3>2. CASE j = Len(q) + 1
      BY <2>1, <2>2, <3>1, <3>2
    <3>3. CASE j \in 1 .. Len(q)
      BY <2>1, <2>3, <3>1, <3>3
    <3> QED
      BY <2>1, <3>2, <3>3
  <2>5. \A i, j \in 1 .. Len(w_out_messages') :
            i < j => Precedes(w_out_messages'[i].req, w_out_messages'[j].req)
    BY <1>2, <2>3, <2>4
  <2>6. out_w_buffer # None =>
            \A x \in Range(w_out_messages') : Precedes(out_w_buffer.req, x.req)
    BY <1>3, <2>2 DEF OrderInv, QueuesInOrder, OutPdus
  <2> QED
    BY <1>2, <2>5, <2>6 DEF OrderInv, QueuesInOrder, Precedes
<1>5. WaitingInOrder'
  BY <1>1, <1>2, <1>3 DEF OrderInv, WaitingInOrder, Precedes
<1>6. HeldInOrder'
  BY <1>2 DEF HeldInOrder
<1>7. AllSent' /\ MappingsUnique'
  BY <1>1, <1>2, <1>3 DEF OrderInv, AllSent, MappingsUnique
<1> QED
  BY <1>4, <1>5, <1>6, <1>7 DEF OrderInv

\* Every step, stuttering included, keeps the order.
LEMMA StepOrderInv == OrderInv /\ [Next]_vars => OrderInv'
<1> SUFFICES ASSUME OrderInv, [Next]_vars PROVE OrderInv'
  OBVIOUS
<1>1. TypeOK /\ TypeOK' /\ HeldInOrder
  BY StepTypeOK DEF OrderInv
<1> USE DEF in_vars, queue_vars, map_vars, proc_vars, out_vars, clean_vars,
            env_vars
<1>2. CASE ClientSide
  <2>1. ASSUME NEW s \in Socket,
               \/ \E c \in Client : AcceptClient(c, s)
               \/ DropClient(s) \/ WriteDataToInBuffer(s) \/ WriteInSocket(s)
               \/ FreeInvalidMessage(s)
        PROVE  NothingMoved
    BY <2>1
    DEF AcceptClient, DropClient, WriteDataToInBuffer, WriteInSocket,
        FreeInvalidMessage, NothingMoved
  <2> QED
    BY <1>1, <1>2, <2>1, NothingMovedKeepsOrder, ReadInSocketKeepsOrder
    DEF ClientSide
<1>3. CASE ServerSide
  <2>1. ASSUME \/ \E p \in server : ReadOutSocket(p)
               \/ OutSocketFails \/ DetectFailure \/ WriteOutSocket
        PROVE  NothingMoved
    BY <2>1
    DEF ReadOutSocket, OutSocketFails, DetectFailure, WriteOutSocket,
        NothingMoved
  <2> QED
    BY <1>1, <1>3, <2>1, NothingMovedKeepsOrder, WriteDataToOutBufferKeepsOrder
    DEF ServerSide
<1>4. CASE Processing
  <2>1. ASSUME \/ CheckOutput \/ ConnectToOutput \/ TakeOutMessage
               \/ EnterLookup \/ EndRoute
        PROVE  NothingMoved
    BY <1>1, <2>1
    DEF CheckOutput, ConnectToOutput, TakeOutMessage, EnterLookup, EndRoute,
        NothingMoved, HeldInOrder
  <2>2. ASSUME NEW m \in socket_to_recv_unicast_msg, RouteReply(m)
        PROVE  NothingMoved
    BY <2>2 DEF RouteReply, NothingMoved
  <2> QED
    BY <1>1, <1>4, <2>1, <2>2, NothingMovedKeepsOrder,
       TakeInMessageKeepsOrder, MapRequestKeepsOrder, ForwardRequestKeepsOrder
    DEF Processing
<1>5. CASE Cleanup
  <2>1. ASSUME \/ BeginCleanup \/ FreeRInMessages \/ FreeWInMessages
               \/ FreeROutMessages \/ FreeWOutMessages
               \/ EndRemoveMappings \/ EndCleanup \/ Rearm
        PROVE  NothingMoved
    BY <2>1
    DEF BeginCleanup, FreeRInMessages, FreeWInMessages, FreeROutMessages,
        FreeWOutMessages, EndRemoveMappings, EndCleanup, Rearm, NothingMoved
  <2>2. ASSUME NEW s \in Socket, RemoveMappingsFor(s) \/ RemoveConnection(s)
        PROVE  NothingMoved
    BY <2>2 DEF RemoveMappingsFor, RemoveConnection, NothingMoved
  <2> QED
    BY <1>1, <1>5, <2>1, <2>2, NothingMovedKeepsOrder DEF Cleanup
<1>6. CASE UNCHANGED vars
  BY <1>1, <1>6, NothingMovedKeepsOrder DEF vars, NothingMoved
<1> QED
  BY <1>2, <1>3, <1>4, <1>5, <1>6 DEF Next

\* In every reachable state the requests are in order.
LEMMA OrderInvCorrect == Spec => []OrderInv
  BY InitOrderInv, StepOrderInv, PTL DEF Spec

\* A queue of PDUs that is in order.
Ordered(q) ==
    \A i, j \in 1 .. Len(q) : i < j => Precedes(q[i].req, q[j].req)

\* One queue behind the other is in order if the first comes before the second.
LEMMA ConcatenationOrdered ==
    ASSUME NEW a \in Seq(Pdu), NEW b \in Seq(Pdu), Ordered(a), Ordered(b),
           \A x \in Range(a), y \in Range(b) : Precedes(x.req, y.req)
    PROVE  /\ a \o b \in Seq(Pdu) /\ Ordered(a \o b)
           /\ Range(a \o b) = Range(a) \cup Range(b)
<1>1. /\ a \o b \in Seq(Pdu) /\ Len(a \o b) = Len(a) + Len(b)
      /\ \A i \in 1 .. Len(a) + Len(b) :
             (a \o b)[i] = IF i <= Len(a) THEN a[i] ELSE b[i - Len(a)]
      /\ Len(a) \in Nat /\ Len(b) \in Nat
  BY ConcatProperties, LenProperties
<1>2. Range(a \o b) = Range(a) \cup Range(b)
  BY RangeConcatenation
<1>3. /\ \A i \in 1 .. Len(a) : a[i] \in Range(a)
      /\ \A i \in 1 .. Len(b) : b[i] \in Range(b)
  BY LenProperties DEF Range
<1>4. ASSUME NEW i \in 1 .. Len(a \o b), NEW j \in 1 .. Len(a \o b), i < j
      PROVE  Precedes((a \o b)[i].req, (a \o b)[j].req)
  <2>1. CASE j <= Len(a)
    <3>1. i \in 1 .. Len(a) /\ j \in 1 .. Len(a)
      BY <1>1, <1>4, <2>1
    <3> QED
      BY <1>1, <1>4, <2>1, <3>1 DEF Ordered
  <2>2. CASE i <= Len(a) /\ ~(j <= Len(a))
    <3>1. i \in 1 .. Len(a) /\ j - Len(a) \in 1 .. Len(b)
      BY <1>1, <2>2
    <3>2. (a \o b)[i] = a[i] /\ (a \o b)[j] = b[j - Len(a)]
      BY <1>1, <2>2
    <3> QED
      BY <1>3, <3>1, <3>2
  <2>3. CASE ~(i <= Len(a))
    <3>1. /\ i - Len(a) \in 1 .. Len(b) /\ j - Len(a) \in 1 .. Len(b)
          /\ i - Len(a) < j - Len(a) /\ ~(j <= Len(a))
      BY <1>1, <1>4, <2>3
    <3>2. (a \o b)[i] = b[i - Len(a)] /\ (a \o b)[j] = b[j - Len(a)]
      BY <1>1, <2>3, <3>1
    <3> QED
      BY <3>1, <3>2 DEF Ordered
  <2> QED
    BY <1>1, <2>1, <2>2, <2>3
<1> QED
  BY <1>1, <1>2, <1>4 DEF Ordered

\* The PDU of a buffer, as a queue.
LEMMA SingletonOrdered ==
    ASSUME NEW p \in Pdu
    PROVE  <<p>> \in Seq(Pdu) /\ Ordered(<<p>>) /\ Range(<<p>>) = {p}
  BY DEF Ordered, Range

\* The requests that wait in the muxer are in order, and they are what is in
\* r_in_messages, in hand, in w_out_messages and in the w_buffer.
LEMMA PipelineOrdered ==
    ASSUME OrderInv
    PROVE  /\ Ordered(Pipeline)
           /\ Range(Pipeline) =
                  OutPdus \cup (IF held_in = None THEN {} ELSE {held_in.pdu})
                      \cup {q.pdu : q \in Range(r_in_messages)}
<1> DEFINE b == Buffered(out_w_buffer)
           w == w_out_messages
           h == IF held_in = None THEN <<>> ELSE <<held_in.pdu>>
           r == [i \in DOMAIN r_in_messages |-> r_in_messages[i].pdu]
<1> USE DEF OrderInv
<1>1. /\ w \in Seq(Pdu) /\ r_in_messages \in Seq(InMessage)
      /\ out_w_buffer # None => out_w_buffer \in Pdu
      /\ held_in # None => held_in.pdu \in Pdu
  BY DEF TypeOK, QueuesTypeOK, OutConnectionTypeOK, ProcessingTypeOK,
         InMessage
<1>2. /\ <<>> \in Seq(Pdu) /\ Ordered(<<>>) /\ Range(<<>>) = {}
  BY DEF Ordered, Range
<1>3. /\ b \in Seq(Pdu) /\ Ordered(b)
      /\ Range(b) = {out_w_buffer} \ {None}
  BY <1>1, <1>2, SingletonOrdered DEF Buffered
<1>4. /\ h \in Seq(Pdu) /\ Ordered(h)
      /\ Range(h) = IF held_in = None THEN {} ELSE {held_in.pdu}
  BY <1>1, <1>2, SingletonOrdered
<1>5. /\ r \in Seq(Pdu) /\ Ordered(r)
      /\ Range(r) = {q.pdu : q \in Range(r_in_messages)}
  <2>1. /\ DOMAIN r_in_messages = 1 .. Len(r_in_messages)
        /\ Len(r_in_messages) \in Nat
        /\ \A i \in 1 .. Len(r_in_messages) : r_in_messages[i] \in InMessage
    BY <1>1, LenProperties, ElementOfSeq
  <2>2. \A i \in 1 .. Len(r_in_messages) : r[i] \in Pdu
    BY <2>1 DEF InMessage
  <2>3. r \in Seq(Pdu) /\ Len(r) = Len(r_in_messages)
    BY <2>1, <2>2
  <2>4. Ordered(r)
    BY <2>1, <2>3 DEF Ordered, QueuesInOrder
  <2> QED
    BY <2>1, <2>3, <2>4 DEF Range
<1>6. Ordered(w)
  BY DEF QueuesInOrder, Ordered
<1> HIDE DEF b, h, r
<1>7. /\ b \o w \in Seq(Pdu) /\ Ordered(b \o w)
      /\ Range(b \o w) = OutPdus
  <2>1. \A x \in Range(b), y \in Range(w) : Precedes(x.req, y.req)
    BY <1>3 DEF QueuesInOrder
  <2> QED
    BY <1>1, <1>3, <1>6, <2>1, ConcatenationOrdered DEF OutPdus
<1>8. /\ (b \o w) \o h \in Seq(Pdu) /\ Ordered((b \o w) \o h)
      /\ Range((b \o w) \o h) = OutPdus \cup Range(h)
  <2>1. \A x \in OutPdus, y \in Range(h) : Precedes(x.req, y.req)
    BY <1>4 DEF HeldInOrder
  <2> QED
    BY <1>4, <1>7, <2>1, ConcatenationOrdered
<1>9. /\ Ordered(((b \o w) \o h) \o r)
      /\ Range(((b \o w) \o h) \o r) = OutPdus \cup Range(h) \cup Range(r)
  <2>1. \A x \in OutPdus \cup Range(h), y \in Range(r) :
            Precedes(x.req, y.req)
    BY <1>4, <1>5 DEF WaitingInOrder
  <2> QED
    BY <1>5, <1>8, <2>1, ConcatenationOrdered
<1>10. Pipeline = ((b \o w) \o h) \o r
  BY DEF Pipeline, b, h, r
<1> QED
  BY <1>4, <1>5, <1>9, <1>10

(***************************************************************************)
(* The requests of each client leave the muxer in the order in which they  *)
(* were read, for any number of clients and requests and whatever is       *)
(* cleaned up in between: r_in_messages, the message in hand,              *)
(* w_out_messages and the w_buffer (dispatcher.c:482, protocol.c:49,       *)
(* dispatcher.c:652) are one FIFO.                                         *)
(***************************************************************************)
THEOREM RequestsStayInOrderCorrect == Spec => []RequestsStayInOrder
<1>1. OrderInv => RequestsStayInOrder
  BY PipelineOrdered DEF RequestsStayInOrder, Ordered, Precedes
<1> QED
  BY <1>1, OrderInvCorrect, PTL

-----------------------------------------------------------------------------
(* Proof of the number of replies. *)

\* The numbers of the unanswered requests of a client are a finite set.
LEMMA UnansweredFinite ==
    ASSUME TypeOK, NEW c \in Client
    PROVE  /\ Unanswered(c) \subseteq 1 .. sent[c]
           /\ sent[c] \in Nat
           /\ IsFiniteSet(Unanswered(c))
           /\ Cardinality(Unanswered(c)) \in Nat
<1>1. sent[c] \in Nat
  BY RequestsTyped
<1>2. Unanswered(c) \subseteq 1 .. sent[c]
  BY DEF Unanswered
<1>3. IsFiniteSet(1 .. sent[c])
  BY <1>1, FS_Interval
<1> QED
  BY <1>1, <1>2, <1>3, FS_Subset, FS_CardinalityType

\* What is counted is a number.
Counts ==
    /\ \A s \in Socket :
           /\ w_in_messages[s] \in Seq(Pdu)
           /\ Waiting(s) \in Nat
    /\ \A c \in Client :
           /\ received[c] \in Seq(Pdu) /\ Len(received[c]) \in Nat
           /\ sent[c] \in Nat

LEMMA CountsTyped == TypeOK => Counts
<1> SUFFICES ASSUME TypeOK PROVE Counts
  OBVIOUS
<1>1. /\ \A s \in Socket : w_in_messages[s] \in Seq(Pdu)
      /\ \A c \in Client : received[c] \in Seq(Pdu) /\ sent[c] \in Nat
  BY RequestsTyped DEF TypeOK, QueuesTypeOK, EnvironmentTypeOK
<1>2. /\ \A s \in Socket : Len(w_in_messages[s]) \in Nat
      /\ \A c \in Client : Len(received[c]) \in Nat
  BY <1>1, LenProperties
<1>3. ASSUME NEW s \in Socket PROVE Waiting(s) \in Nat
  <2> DEFINE w == Len(w_in_messages[s])
  <2>1. w \in Nat /\ Waiting(s) = (IF w_buffer[s] = None THEN 0 ELSE 1) + w
    BY <1>2 DEF Waiting
  <2> HIDE DEF w
  <2> QED
    BY <2>1
<1> QED
  BY <1>1, <1>2, <1>3 DEF Counts

LEMMA CountsTypedNext == TypeOK' => Counts'
  BY CountsTyped, PTL

\* Nobody has been sent a reply when the muxer starts.
LEMMA InitRepliesCounted == Init => RepliesCounted
<1> SUFFICES ASSUME Init PROVE RepliesCounted
  OBVIOUS
<1> QED
  BY RoutingAssumption DEF Init, RepliesCounted, RoutingAssumption

\* A step that reads nothing from a client and brings no reply nearer to one.
NothingAnswered ==
    /\ UNCHANGED <<owner, received, sent>>
    /\ \A s \in Socket : Waiting(s)' <= Waiting(s)
    /\ \A c \in Client : Unanswered(c)' \subseteq Unanswered(c)

\* Such a step keeps the count.
LEMMA NothingAnsweredKeepsCount ==
    ASSUME TypeOK, TypeOK', RepliesCounted, NothingAnswered
    PROVE  RepliesCounted'
<1> USE DEF NothingAnswered
<1>1. Counts /\ Counts'
  BY CountsTyped, CountsTypedNext
<1>2. ASSUME NEW s \in Socket, NEW c \in Client, owner[s] = c
      PROVE  Replies(c, s)' + Cardinality(Unanswered(c)') <= sent[c]
  <2>1. IsFiniteSet(Unanswered(c)) /\ Cardinality(Unanswered(c)) \in Nat
    BY UnansweredFinite
  <2>2. /\ Cardinality(Unanswered(c)') <= Cardinality(Unanswered(c))
        /\ Cardinality(Unanswered(c)') \in Nat
    BY <2>1, FS_Subset, FS_CardinalityType
  <2>3. Replies(c, s) + Cardinality(Unanswered(c)) <= sent[c]
    BY <1>2 DEF RepliesCounted
  <2>4. /\ Replies(c, s)' <= Replies(c, s)
        /\ Replies(c, s) \in Nat /\ Replies(c, s)' \in Nat /\ sent[c] \in Nat
    BY <1>1 DEF Counts, Replies
  <2> QED
    BY <2>1, <2>2, <2>3, <2>4
<1> QED
  BY <1>2 DEF RepliesCounted

\* What is taken away is not answered any more.
LEMMA NothingMovedIsUnanswered ==
    ASSUME TypeOK, TypeOK', NothingMoved, NEW c \in Client
    PROVE  Unanswered(c)' \subseteq Unanswered(c)
<1>1. /\ Range(r_in_messages') \subseteq Range(r_in_messages)
      /\ socket_to_recv_unicast_msg' \subseteq socket_to_recv_unicast_msg
      /\ sent' = sent
  BY DEF NothingMoved, Range
<1>2. pc' = "map" => pc = "map" /\ held_in' = held_in
  BY DEF NothingMoved, TypeOK, ProcessingTypeOK
<1> QED
  BY <1>1, <1>2 DEF Unanswered

\* Where nothing moves, or only towards the client or into oblivion, the
\* replies that wait become no more.
NothingDelivered ==
    /\ UNCHANGED <<owner, received, sent>>
    /\ \A s \in Socket :
           \/ w_in_messages'[s] = w_in_messages[s]
                /\ w_buffer'[s] \in {w_buffer[s], None}
           \/ w_in_messages'[s] = <<>> /\ w_buffer'[s] = w_buffer[s]
           \/ /\ w_in_messages[s] # <<>>
              /\ w_in_messages'[s] = Tail(w_in_messages[s])
              /\ w_buffer[s] = None
           \/ /\ w_buffer'[s] = w_buffer[s]
              /\ \E i \in 1 .. Len(w_in_messages[s]) :
                     w_in_messages'[s] = RemoveAt(w_in_messages[s], i)

\* Taking out an element makes a queue shorter (q_free).
LEMMA RemoveAtLength ==
    ASSUME NEW S, NEW q \in Seq(S), NEW i \in 1 .. Len(q)
    PROVE  Len(RemoveAt(q, i)) = Len(q) - 1
<1> DEFINE a == SubSeq(q, 1, i - 1)
           b == SubSeq(q, i + 1, Len(q))
<1>1. Len(q) \in Nat
  BY LenProperties
<1>2. a \in Seq(S) /\ Len(a) = i - 1
  BY <1>1
<1>3. b \in Seq(S) /\ Len(b) = Len(q) - i
  BY <1>1
<1>4. RemoveAt(q, i) = a \o b
  BY DEF RemoveAt
<1> HIDE DEF a, b
<1>5. Len(a \o b) = Len(a) + Len(b)
  BY <1>2, <1>3, ConcatProperties
<1> QED
  BY <1>1, <1>2, <1>3, <1>4, <1>5

LEMMA NothingDeliveredCount ==
    ASSUME TypeOK, TypeOK', NothingDelivered, NEW s \in Socket
    PROVE  Waiting(s)' <= Waiting(s)
<1> DEFINE q == w_in_messages[s]
           k == Len(q)
           l == Len(w_in_messages'[s])
<1>1. q \in Seq(Pdu) /\ k \in Nat /\ l \in Nat
  BY CountsTyped, CountsTypedNext, LenProperties DEF Counts
<1>2. /\ Waiting(s) = (IF w_buffer[s] = None THEN 0 ELSE 1) + k
      /\ Waiting(s)' = (IF w_buffer'[s] = None THEN 0 ELSE 1) + l
  BY DEF Waiting
<1>3. \/ l = k /\ w_buffer'[s] \in {w_buffer[s], None}
      \/ l <= k /\ w_buffer'[s] = w_buffer[s]
      \/ k > 0 /\ l = k - 1 /\ w_buffer[s] = None
  <2>1. CASE w_in_messages'[s] = q /\ w_buffer'[s] \in {w_buffer[s], None}
    BY <2>1
  <2>2. CASE w_in_messages'[s] = <<>> /\ w_buffer'[s] = w_buffer[s]
    <3>1. l = 0
      BY <2>2
    <3> QED
      BY <1>1, <2>2, <3>1
  <2>3. CASE /\ q # <<>> /\ w_in_messages'[s] = Tail(q)
             /\ w_buffer[s] = None
    BY <1>1, <2>3, TakeElements
  <2>4. CASE /\ w_buffer'[s] = w_buffer[s]
             /\ \E i \in 1 .. Len(q) : w_in_messages'[s] = RemoveAt(q, i)
    <3>1. l = k - 1
      BY <1>1, <2>4, RemoveAtLength
    <3> QED
      BY <1>1, <2>4, <3>1
  <2> QED
    BY <2>1, <2>2, <2>3, <2>4 DEF NothingDelivered
<1> HIDE DEF k, l
<1> QED
  BY <1>1, <1>2, <1>3

\* A step that neither moves nor delivers anything keeps the count.
LEMMA NothingDeliveredKeepsCount ==
    ASSUME TypeOK, TypeOK', RepliesCounted, NothingMoved, NothingDelivered
    PROVE  RepliesCounted'
<1>1. NothingAnswered
  BY NothingMovedIsUnanswered, NothingDeliveredCount
  DEF NothingAnswered, NothingDelivered
<1> QED
  BY <1>1, NothingAnsweredKeepsCount

\* A request that is taken in hand, mapped or forwarded is no more unanswered
\* than before.
LEMMA ProcessingKeepsCount ==
    ASSUME OrderInv, TypeOK', RepliesCounted,
           TakeInMessage \/ MapRequest \/ ForwardRequest \/ WriteDataToOutBuffer
    PROVE  RepliesCounted'
<1> TypeOK
  BY DEF OrderInv
<1> USE DEF in_vars, queue_vars, map_vars, out_vars, clean_vars, env_vars
<1>1. NothingDelivered /\ sent' = sent
  BY DEF TakeInMessage, MapRequest, ForwardRequest, WriteDataToOutBuffer,
         NothingDelivered
<1>2. ASSUME NEW c \in Client PROVE Unanswered(c)' \subseteq Unanswered(c)
  <2>1. CASE TakeInMessage
    <3>1. r_in_messages # <<>> =>
              /\ Head(r_in_messages) \in Range(r_in_messages)
              /\ Range(Tail(r_in_messages)) \subseteq Range(r_in_messages)
      BY TakeContents DEF TypeOK, QueuesTypeOK
    <3> QED
      BY <1>1, <2>1, <3>1 DEF TakeInMessage, Unanswered
  <2>2. CASE MapRequest
    BY <1>1, <2>2 DEF MapRequest, Unanswered
  <2>3. CASE ForwardRequest \/ WriteDataToOutBuffer
    BY <1>1, <2>3
    DEF ForwardRequest, WriteDataToOutBuffer, proc_vars, Unanswered
  <2> QED
    BY <2>1, <2>2, <2>3
<1>3. NothingAnswered
  BY <1>1, <1>2, NothingDeliveredCount
  DEF NothingAnswered, NothingDelivered
<1> QED
  BY <1>3, NothingAnsweredKeepsCount

\* A new client has sent and received nothing.
LEMMA AcceptClientKeepsCount ==
    ASSUME HandleReuse = FALSE, TypeOK, TypeOK', UnusedHandlesEmpty,
           RepliesCounted, NEW d \in Client, NEW t \in Socket,
           AcceptClient(d, t)
    PROVE  RepliesCounted'
<1> USE DEF queue_vars, map_vars, proc_vars, out_vars, clean_vars, env_vars
<1>1. /\ owner[t] = None /\ sent[d] = 0 /\ \A s \in Socket : owner[s] # d
      /\ owner' = [owner EXCEPT ![t] = d]
      /\ w_buffer' = [w_buffer EXCEPT ![t] = None]
      /\ UNCHANGED <<w_in_messages, received, sent>>
      /\ \A c \in Client : Unanswered(c)' = Unanswered(c)
  BY DEF AcceptClient, Unanswered
<1>2. /\ \A s \in Socket : owner'[s] = IF s = t THEN d ELSE owner[s]
      /\ w_buffer'[t] = None
      /\ \A s \in Socket \ {t} : w_buffer'[s] = w_buffer[s]
  BY <1>1 DEF TypeOK, ClientSideTypeOK
<1>3. received[d] = <<>> /\ w_in_messages[t] = <<>>
  BY <1>1 DEF RepliesCounted, UnusedHandlesEmpty
<1>4. Replies(d, t)' + Cardinality(Unanswered(d)') <= sent[d]
  <2>1. Unanswered(d) = {} /\ Cardinality({}) = 0
    BY <1>1, FS_EmptySet DEF Unanswered
  <2>2. Len(received'[d]) = 0 /\ Len(w_in_messages'[t]) = 0
    BY <1>1, <1>3
  <2>3. Replies(d, t)' = 0
    BY <1>2, <2>2 DEF Replies, Waiting
  <2> QED
    BY <1>1, <2>1, <2>3
<1>5. ASSUME NEW s \in Socket, NEW c \in Client, owner'[s] = c
      PROVE  Replies(c, s)' + Cardinality(Unanswered(c)') <= sent[c]
  <2>1. CASE s = t
    BY <1>2, <1>4, <1>5, <2>1
  <2>2. CASE s # t
    <3>1. owner[s] = c /\ Replies(c, s)' = Replies(c, s)
      BY <1>1, <1>2, <1>5, <2>2 DEF Replies, Waiting
    <3> QED
      BY <1>1, <3>1 DEF RepliesCounted
  <2> QED
    BY <2>1, <2>2
<1>6. \A s, u \in Socket, c \in Client :
          owner'[s] = c /\ owner'[u] = c => s = u
  BY <1>1, <1>2 DEF RepliesCounted
<1>7. ASSUME NEW c \in Client, \A s \in Socket : owner'[s] # c
      PROVE  received'[c] = <<>>
  <2>1. \A s \in Socket : owner[s] # c
    BY <1>1, <1>2, <1>7, RoutingAssumption DEF RoutingAssumption
  <2> QED
    BY <1>1, <2>1 DEF RepliesCounted
<1> QED
  BY <1>1, <1>5, <1>6, <1>7 DEF RepliesCounted

\* A request that is read is one more sent and at most one more unanswered.
LEMMA ReadInSocketKeepsCount ==
    ASSUME TypeOK, TypeOK', RepliesCounted, NEW t \in Socket, ReadInSocket(t)
    PROVE  RepliesCounted'
<1> DEFINE d == owner[t]
           n == sent[d] + 1
           q == [socket |-> t, pdu |-> [invokeid |-> n, req |-> <<d, n>>]]
<1> USE DEF in_vars, map_vars, proc_vars, out_vars, clean_vars
<1>1. d \in Client /\ n \in 1 .. MaxRequests /\ sent[d] \in Nat
  BY RoutingAssumption
  DEF ReadInSocket, TypeOK, ClientSideTypeOK, EnvironmentTypeOK,
      RoutingAssumption
<1>2. q \in InMessage /\ q.pdu.req = <<d, n>>
  BY <1>1 DEF InMessage, Pdu, Request
<1>3. /\ r_in_messages' = Append(r_in_messages, q)
      /\ sent' = [sent EXCEPT ![d] = n]
      /\ UNCHANGED <<owner, received, w_buffer, w_in_messages, held_in, pc,
                     socket_to_recv_unicast_msg>>
  BY DEF ReadInSocket
<1> HIDE DEF q
<1>4. Range(r_in_messages') = Range(r_in_messages) \cup {q}
  BY <1>2, <1>3, AppendContents DEF TypeOK, QueuesTypeOK
<1>5. /\ sent'[d] = sent[d] + 1
      /\ \A c \in Client \ {d} : sent'[c] = sent[c]
  BY <1>1, <1>3 DEF TypeOK, EnvironmentTypeOK
<1>6. \A c \in Client : c = d => Unanswered(c)' \subseteq Unanswered(c) \cup {n}
  BY <1>1, <1>2, <1>3, <1>4, <1>5 DEF Unanswered
<1>7. \A c \in Client \ {d} : Unanswered(c)' \subseteq Unanswered(c)
  BY <1>2, <1>3, <1>4, <1>5 DEF Unanswered
<1>8. \A s \in Socket, c \in Client : Replies(c, s)' = Replies(c, s)
  BY <1>3 DEF Replies, Waiting
<1>9. ASSUME NEW s \in Socket, NEW c \in Client, owner[s] = c
      PROVE  Replies(c, s) + Cardinality(Unanswered(c)') <= sent'[c]
  <2>1. /\ IsFiniteSet(Unanswered(c)) /\ Cardinality(Unanswered(c)) \in Nat
        /\ Replies(c, s) \in Nat /\ sent[c] \in Nat
    BY UnansweredFinite, CountsTyped DEF Counts, Replies
  <2>2. Replies(c, s) + Cardinality(Unanswered(c)) <= sent[c]
    BY <1>9 DEF RepliesCounted
  <2>3. CASE c = d
    <3> DEFINE V == Unanswered(c) \cup {n}
    <3>1. /\ IsFiniteSet(V) /\ Cardinality(V) \in Nat
          /\ Cardinality(V) <= Cardinality(Unanswered(c)) + 1
      <4> DEFINE U == Unanswered(c)
      <4> HIDE DEF U, n
      <4>1. /\ IsFiniteSet(U \cup {n})
            /\ \/ Cardinality(U \cup {n}) = Cardinality(U)
               \/ Cardinality(U \cup {n}) = Cardinality(U) + 1
        BY <2>1, FS_AddElement DEF U
      <4> QED
        BY <2>1, <4>1 DEF U
    <3>2. Unanswered(c)' \subseteq V
      BY <1>6, <2>3
    <3> HIDE DEF V
    <3>3. /\ Cardinality(Unanswered(c)') \in Nat
          /\ Cardinality(Unanswered(c)') <= Cardinality(V)
      BY <3>1, <3>2, FS_Subset, FS_CardinalityType
    <3> QED
      BY <1>5, <2>1, <2>2, <2>3, <3>1, <3>3
  <2>4. CASE c # d
    <3>1. /\ Cardinality(Unanswered(c)') \in Nat
          /\ Cardinality(Unanswered(c)') <= Cardinality(Unanswered(c))
      BY <1>7, <2>1, <2>4, FS_Subset, FS_CardinalityType
    <3> QED
      BY <1>5, <2>1, <2>2, <2>4, <3>1
  <2> QED
    BY <2>3, <2>4
<1> QED
  BY <1>3, <1>8, <1>9 DEF RepliesCounted

\* A reply that is sent waits no longer.
LEMMA WriteInSocketKeepsCount ==
    ASSUME TypeOK, TypeOK', RepliesCounted, NEW t \in Socket, WriteInSocket(t)
    PROVE  RepliesCounted'
<1> DEFINE d == owner[t]
<1> USE DEF queue_vars, map_vars, proc_vars, out_vars, clean_vars
<1>1. d \in Client /\ w_buffer[t] # None /\ w_buffer[t] \in Pdu
  BY DEF WriteInSocket, TypeOK, ClientSideTypeOK
<1>2. /\ received' = [received EXCEPT ![d] = Append(@, w_buffer[t])]
      /\ w_buffer' = [w_buffer EXCEPT ![t] = None]
      /\ UNCHANGED <<owner, sent, w_in_messages>>
      /\ \A c \in Client : Unanswered(c)' = Unanswered(c)
  BY DEF WriteInSocket, Unanswered
<1>3. /\ received'[d] = Append(received[d], w_buffer[t])
      /\ \A c \in Client \ {d} : received'[c] = received[c]
      /\ w_buffer'[t] = None
      /\ \A s \in Socket \ {t} : w_buffer'[s] = w_buffer[s]
  BY <1>1, <1>2 DEF TypeOK, ClientSideTypeOK, EnvironmentTypeOK
<1>4. Len(received'[d]) = Len(received[d]) + 1 /\ Len(received[d]) \in Nat
  BY <1>1, <1>3, CountsTyped, AppendProperties DEF Counts
<1>5. Waiting(t) = Waiting(t)' + 1 /\ Waiting(t)' \in Nat
  <2> DEFINE w == Len(w_in_messages[t])
  <2>1. /\ w \in Nat
        /\ Waiting(t) = (IF w_buffer[t] = None THEN 0 ELSE 1) + w
        /\ Waiting(t)' = (IF w_buffer'[t] = None THEN 0 ELSE 1) + w
    BY <1>2, CountsTyped, LenProperties DEF Counts, Waiting
  <2> HIDE DEF w
  <2> QED
    BY <1>1, <1>3, <2>1
<1>6. ASSUME NEW s \in Socket, NEW c \in Client, owner[s] = c
      PROVE  Replies(c, s)' = Replies(c, s)
  <2>1. CASE s = t
    <3>1. c = d
      BY <1>6, <2>1
    <3>2. /\ Replies(c, s) = Len(received[d]) + Waiting(t)
          /\ Replies(c, s)' = Len(received'[d]) + Waiting(t)'
      BY <2>1, <3>1 DEF Replies
    <3> QED
      BY <1>4, <1>5, <3>2
  <2>2. CASE s # t
    <3>1. c # d
      BY <1>1, <1>6, <2>2 DEF RepliesCounted
    <3> QED
      BY <1>2, <1>3, <2>2, <3>1 DEF Replies, Waiting
  <2> QED
    BY <2>1, <2>2
<1>7. ASSUME NEW c \in Client, \A s \in Socket : owner'[s] # c
      PROVE  received'[c] = <<>>
  BY <1>2, <1>3, <1>7 DEF RepliesCounted
<1> QED
  BY <1>2, <1>6, <1>7 DEF RepliesCounted

\* A reply that is routed answers its request.
LEMMA RouteReplyKeepsCount ==
    ASSUME OrderInv, TypeOK', RequestsAttributed, RepliesCounted,
           NEW m \in socket_to_recv_unicast_msg, RouteReply(m)
    PROVE  RepliesCounted'
<1> DEFINE p == [held_out EXCEPT !.invokeid = m.invokeid_original]
           d == m.req[1]
           n == m.req[2]
           t == m.socket
<1> TypeOK
  BY DEF OrderInv
<1> USE DEF in_vars, proc_vars, out_vars, clean_vars, env_vars
<1>1. /\ t \in Socket /\ d \in Client /\ n \in Nat /\ n >= 1
      /\ m.req = <<d, n>> /\ owner[t] = d /\ n <= sent[d]
      /\ pc = "route" /\ p \in Pdu
  <2>1. m \in Mapping /\ m.req \in Request
    BY DEF TypeOK, MappingsTypeOK, Mapping
  <2>2. d \in Client /\ n \in 1 .. MaxRequests /\ m.req = <<d, n>>
    BY <2>1 DEF Request
  <2>3. pc = "route" /\ held_out \in Pdu
    BY DEF RouteReply, TypeOK, ProcessingTypeOK
  <2>4. p \in Pdu
    BY <2>1, <2>3 DEF Pdu, Mapping
  <2>5. t \in Socket /\ owner[t] = d /\ n <= sent[d]
    BY <2>1 DEF Mapping, RequestsAttributed, OrderInv, AllSent
  <2> HIDE DEF p, d, n, t
  <2> QED
    BY <2>2, <2>3, <2>4, <2>5, RoutingAssumption DEF RoutingAssumption
<1>2. /\ w_in_messages' = [w_in_messages EXCEPT ![t] = Append(@, p)]
      /\ socket_to_recv_unicast_msg' = socket_to_recv_unicast_msg \ {m}
      /\ UNCHANGED <<owner, sent, received, w_buffer, r_in_messages, pc,
                     held_in>>
  BY DEF RouteReply
<1> HIDE DEF p, d, n, t
<1>3. /\ w_in_messages'[t] = Append(w_in_messages[t], p)
      /\ \A s \in Socket \ {t} : w_in_messages'[s] = w_in_messages[s]
  BY <1>1, <1>2 DEF TypeOK, QueuesTypeOK
<1>4. Waiting(t)' = Waiting(t) + 1
  <2> DEFINE w == Len(w_in_messages[t])
             v == Len(w_in_messages'[t])
  <2>1. w \in Nat /\ v = w + 1
    BY <1>1, <1>3, CountsTyped, LenProperties, AppendProperties DEF Counts
  <2>2. /\ Waiting(t) = (IF w_buffer[t] = None THEN 0 ELSE 1) + w
        /\ Waiting(t)' = (IF w_buffer[t] = None THEN 0 ELSE 1) + v
    BY <1>2 DEF Waiting
  <2> HIDE DEF w, v
  <2> QED
    BY <2>1, <2>2
<1>5. \A s \in Socket \ {t} : Waiting(s)' = Waiting(s)
  BY <1>2, <1>3 DEF Waiting
<1>6. \A c \in Client : Unanswered(c)' \subseteq Unanswered(c)
  BY <1>2 DEF Unanswered
<1>7. n \in Unanswered(d) /\ n \notin Unanswered(d)'
  <2>1. n \in Unanswered(d)
    BY <1>1, RequestsTyped DEF Unanswered
  <2>2. \A q \in Range(r_in_messages) : q.pdu.req # <<d, n>>
    BY <1>1 DEF OrderInv, WaitingInOrder, Precedes
  <2>3. \A x \in socket_to_recv_unicast_msg' : x.req # <<d, n>>
    BY <1>1, <1>2 DEF OrderInv, MappingsUnique
  <2> QED
    BY <1>1, <1>2, <2>1, <2>2, <2>3 DEF Unanswered
<1>8. ASSUME NEW s \in Socket, NEW c \in Client, owner[s] = c
      PROVE  Replies(c, s)' + Cardinality(Unanswered(c)') <= sent[c]
  <2>1. /\ IsFiniteSet(Unanswered(c)) /\ Cardinality(Unanswered(c)) \in Nat
        /\ Len(received[c]) \in Nat /\ Waiting(s) \in Nat /\ sent[c] \in Nat
    BY UnansweredFinite, CountsTyped DEF Counts
  <2>2. Replies(c, s) + Cardinality(Unanswered(c)) <= sent[c]
    BY <1>8 DEF RepliesCounted
  <2>3. /\ Replies(c, s) = Len(received[c]) + Waiting(s)
        /\ Replies(c, s)' = Len(received[c]) + Waiting(s)'
    BY <1>2 DEF Replies
  <2>4. CASE s = t
    <3>1. c = d
      BY <1>1, <1>8, <2>4
    <3> DEFINE V == Unanswered(c) \ {n}
    <3>2. /\ IsFiniteSet(V) /\ Cardinality(V) \in Nat
          /\ Cardinality(V) = Cardinality(Unanswered(c)) - 1
      BY <1>7, <2>1, <3>1, FS_RemoveElement, FS_CardinalityType
    <3>3. Unanswered(c)' \subseteq V
      BY <1>6, <1>7, <3>1
    <3> HIDE DEF V
    <3>4. /\ Cardinality(Unanswered(c)') \in Nat
          /\ Cardinality(Unanswered(c)') <= Cardinality(V)
      BY <3>2, <3>3, FS_Subset, FS_CardinalityType
    <3> QED
      BY <1>4, <2>1, <2>2, <2>3, <2>4, <3>2, <3>4
  <2>5. CASE s # t
    <3>1. /\ Cardinality(Unanswered(c)') \in Nat
          /\ Cardinality(Unanswered(c)') <= Cardinality(Unanswered(c))
      BY <1>6, <2>1, FS_Subset, FS_CardinalityType
    <3>2. Waiting(s)' = Waiting(s)
      BY <1>5, <2>5
    <3> QED
      BY <2>1, <2>2, <2>3, <3>1, <3>2
  <2> QED
    BY <2>4, <2>5
<1> QED
  BY <1>2, <1>8 DEF RepliesCounted

\* Every step, stuttering included, keeps the count.
LEMMA StepRepliesCounted ==
    ASSUME HandleReuse = FALSE
    PROVE  OrderInv /\ RightClientInv /\ RepliesCounted /\ [Next]_vars
               => RepliesCounted'
<1> SUFFICES ASSUME OrderInv, RightClientInv, RepliesCounted, [Next]_vars
             PROVE  RepliesCounted'
  OBVIOUS
<1>1. /\ TypeOK /\ TypeOK' /\ RequestsAttributed /\ UnusedHandlesEmpty
      /\ HeldInOrder
  BY StepTypeOK DEF OrderInv, RightClientInv
<1> USE DEF in_vars, queue_vars, map_vars, proc_vars, out_vars, clean_vars,
            env_vars
<1>2. CASE ClientSide
  <2>1. ASSUME NEW s \in Socket,
               \/ DropClient(s) \/ WriteDataToInBuffer(s)
               \/ FreeInvalidMessage(s)
        PROVE  NothingMoved /\ NothingDelivered
    <3>1. NothingMoved
      BY <2>1
      DEF DropClient, WriteDataToInBuffer, FreeInvalidMessage, NothingMoved
    <3>2. NothingDelivered
      BY <1>1, <2>1
      DEF DropClient, WriteDataToInBuffer, FreeInvalidMessage,
          NothingDelivered, TypeOK, ClientSideTypeOK, QueuesTypeOK
    <3> QED
      BY <3>1, <3>2
  <2> QED
    BY <1>1, <1>2, <2>1, NothingDeliveredKeepsCount, AcceptClientKeepsCount,
       ReadInSocketKeepsCount, WriteInSocketKeepsCount
    DEF ClientSide
<1>3. CASE ServerSide
  <2>1. ASSUME \/ \E p \in server : ReadOutSocket(p)
               \/ OutSocketFails \/ DetectFailure \/ WriteOutSocket
        PROVE  NothingMoved /\ NothingDelivered
    BY <2>1
    DEF ReadOutSocket, OutSocketFails, DetectFailure, WriteOutSocket,
        NothingMoved, NothingDelivered
  <2> QED
    BY <1>1, <1>3, <2>1, NothingDeliveredKeepsCount, ProcessingKeepsCount
    DEF ServerSide
<1>4. CASE Processing
  <2>1. ASSUME \/ CheckOutput \/ ConnectToOutput \/ TakeOutMessage
               \/ EnterLookup \/ EndRoute
        PROVE  NothingMoved /\ NothingDelivered
    BY <1>1, <2>1
    DEF CheckOutput, ConnectToOutput, TakeOutMessage, EnterLookup, EndRoute,
        NothingMoved, NothingDelivered, HeldInOrder
  <2> QED
    BY <1>1, <1>4, <2>1, NothingDeliveredKeepsCount, ProcessingKeepsCount,
       RouteReplyKeepsCount
    DEF Processing
<1>5. CASE Cleanup
  <2>1. ASSUME \/ BeginCleanup \/ FreeRInMessages \/ FreeWInMessages
               \/ FreeROutMessages \/ FreeWOutMessages
               \/ EndRemoveMappings \/ EndCleanup \/ Rearm
        PROVE  NothingMoved /\ NothingDelivered
    BY <2>1
    DEF BeginCleanup, FreeRInMessages, FreeWInMessages, FreeROutMessages,
        FreeWOutMessages, EndRemoveMappings, EndCleanup, Rearm, NothingMoved,
        NothingDelivered
  <2>2. ASSUME NEW s \in Socket, RemoveMappingsFor(s) \/ RemoveConnection(s)
        PROVE  NothingMoved /\ NothingDelivered
    BY <1>1, <2>2
    DEF RemoveMappingsFor, RemoveConnection, NothingMoved, NothingDelivered,
        TypeOK, ClientSideTypeOK
  <2> QED
    BY <1>1, <1>5, <2>1, <2>2, NothingDeliveredKeepsCount DEF Cleanup
<1>6. CASE UNCHANGED vars
  <2>1. NothingMoved /\ NothingDelivered
    BY <1>6 DEF vars, NothingMoved, NothingDelivered
  <2> QED
    BY <1>1, <2>1, NothingDeliveredKeepsCount
<1> QED
  BY <1>2, <1>3, <1>4, <1>5, <1>6 DEF Next

(***************************************************************************)
(* A client never receives more replies than it sent requests, for any     *)
(* number of clients and requests, invokeid clashes and cleanups included: *)
(* every request is in one place only until its mapping is used and        *)
(* deleted (protocol.c:204-210), and a reply moves from w_in_messages to   *)
(* the w_buffer to the client without being copied (dispatcher.c:688-714). *)
(***************************************************************************)
THEOREM NoExtraRepliesCorrect ==
    ASSUME HandleReuse = FALSE PROVE Spec => []NoExtraReplies
<1> DEFINE Inv == OrderInv /\ RightClientInv /\ RepliesCounted
<1>1. Init => Inv
  BY InitOrderInv, InitRightClientInv, InitRepliesCounted
<1>2. Inv /\ [Next]_vars => Inv'
  BY StepOrderInv, StepKeepsRightClient, StepRepliesCounted
<1>3. Inv => NoExtraReplies
  <2> SUFFICES ASSUME OrderInv, RepliesCounted, NEW c \in Client
               PROVE  Len(received[c]) <= sent[c]
    BY DEF NoExtraReplies
  <2>1. TypeOK /\ sent[c] \in Nat /\ Len(received[c]) \in Nat
    BY CountsTyped DEF OrderInv, Counts
  <2>2. CASE \A s \in Socket : owner[s] # c
    <3>1. received[c] = <<>> /\ Len(<<>>) = 0
      BY <2>2 DEF RepliesCounted
    <3> QED
      BY <2>1, <3>1
  <2>3. ASSUME NEW s \in Socket, owner[s] = c
        PROVE  Len(received[c]) <= sent[c]
    <3>1. Replies(c, s) + Cardinality(Unanswered(c)) <= sent[c]
      BY <2>3 DEF RepliesCounted
    <3>2. /\ Cardinality(Unanswered(c)) \in Nat /\ Waiting(s) \in Nat
          /\ Replies(c, s) = Len(received[c]) + Waiting(s)
      BY <2>1, UnansweredFinite, CountsTyped DEF Counts, Replies
    <3> QED
      BY <2>1, <3>1, <3>2
  <2> QED
    BY <2>2, <2>3
<1> QED
  BY <1>1, <1>2, <1>3, PTL DEF Spec

=============================================================================
