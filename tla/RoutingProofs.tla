---------------------------- MODULE RoutingProofs ----------------------------
(***************************************************************************)
(* Proofs about Routing, for any number of clients, sockets, invokeids,    *)
(* requests and failures.                                                  *)
(***************************************************************************)
EXTENDS Routing, SequenceTheorems, TLAPS

-----------------------------------------------------------------------------
(* What q_put and q_get do to the contents of a queue. *)

\* Appending adds the new element and nothing else (q_put).
LEMMA AppendContents ==
    ASSUME NEW S, NEW q \in Seq(S), NEW e \in S
    PROVE  /\ Append(q, e) \in Seq(S)
           /\ Range(Append(q, e)) = Range(q) \cup {e}
<1>1. /\ Append(q, e) \in Seq(S)
      /\ Len(Append(q, e)) = Len(q) + 1
      /\ \A i \in 1 .. Len(q) : Append(q, e)[i] = q[i]
      /\ Append(q, e)[Len(q) + 1] = e
  BY AppendProperties
<1>2. DOMAIN q = 1 .. Len(q) /\ DOMAIN Append(q, e) = 1 .. Len(Append(q, e))
      /\ Len(q) \in Nat
  BY <1>1, LenProperties
<1> QED
  BY <1>1, <1>2 DEF Range

\* Taking the first element leaves a part of the contents (q_get).
LEMMA TakeContents ==
    ASSUME NEW S, NEW q \in Seq(S), q # <<>>
    PROVE  /\ Head(q) \in S /\ Head(q) \in Range(q)
           /\ Tail(q) \in Seq(S)
           /\ Range(Tail(q)) \subseteq Range(q)
<1>1. /\ Head(q) \in S
      /\ Tail(q) \in Seq(S)
      /\ Len(Tail(q)) = Len(q) - 1
      /\ \A i \in 1 .. Len(Tail(q)) : Tail(q)[i] = q[i + 1]
  BY HeadTailProperties
<1>2. DOMAIN q = 1 .. Len(q) /\ DOMAIN Tail(q) = 1 .. Len(Tail(q))
      /\ Len(q) \in Nat /\ Len(q) # 0
  BY <1>1, LenProperties, EmptySeq
<1>3. Head(q) = q[1]
  OBVIOUS
<1> QED
  BY <1>1, <1>2, <1>3 DEF Range

\* Removing an element from the middle leaves a part of the contents (q_free).
LEMMA RemoveAtContents ==
    ASSUME NEW S, NEW q \in Seq(S), NEW i \in 1 .. Len(q)
    PROVE  /\ RemoveAt(q, i) \in Seq(S)
           /\ Range(RemoveAt(q, i)) \subseteq Range(q)
<1>1. DOMAIN q = 1 .. Len(q) /\ Len(q) \in Nat
  BY LenProperties
<1> DEFINE a == SubSeq(q, 1, i - 1)
           b == SubSeq(q, i + 1, Len(q))
<1>2. a \in Seq(S) /\ Range(a) \subseteq Range(q)
  <2>1. a \in Seq(S) /\ Len(a) = i - 1 /\ \A j \in 1 .. i - 1 : a[j] = q[j]
    BY <1>1
  <2> HIDE DEF a
  <2>2. DOMAIN a = 1 .. i - 1
    BY <2>1, LenProperties
  <2> QED
    BY <1>1, <2>1, <2>2 DEF Range
<1>3. b \in Seq(S) /\ Range(b) \subseteq Range(q)
  <2>1. /\ b \in Seq(S) /\ Len(b) = Len(q) - i
        /\ \A j \in 1 .. Len(q) - i : b[j] = q[i + j]
    BY <1>1
  <2> HIDE DEF b
  <2>2. DOMAIN b = 1 .. Len(q) - i
    BY <2>1, LenProperties
  <2> QED
    BY <1>1, <2>1, <2>2 DEF Range
<1>4. RemoveAt(q, i) = a \o b
  BY DEF RemoveAt
<1> HIDE DEF a, b
<1>5. a \o b \in Seq(S)
  BY <1>2, <1>3
<1>6. Range(a \o b) = Range(a) \cup Range(b)
  BY <1>2, <1>3, RangeConcatenation
<1> QED
  BY <1>2, <1>3, <1>4, <1>5, <1>6

-----------------------------------------------------------------------------
(* Type correctness. *)


\* generate_invokeid returns a value from 1 to MAX_INVOKEID.
LEMMA GeneratedInvokeid ==
    ASSUME invokeid_gen_counter \in 0 .. MaxInvokeid
    PROVE  generate_invokeid \in 1 .. MaxInvokeid
<1>1. MaxInvokeid \in Nat /\ MaxInvokeid > 0 /\ invokeid_gen_counter \in Nat
  BY RoutingAssumption DEF RoutingAssumption
<1>2. invokeid_gen_counter % MaxInvokeid \in 0 .. MaxInvokeid - 1
  BY <1>1
<1> QED
  BY <1>1, <1>2 DEF generate_invokeid

\* The muxer starts with values of the right types.
LEMMA InitTypeOK == Init => TypeOK
<1> SUFFICES ASSUME Init PROVE TypeOK
  OBVIOUS
<1>1. ClientSideTypeOK /\ OutConnectionTypeOK /\ CleanupTypeOK
  BY DEF Init, ClientSideTypeOK, OutConnectionTypeOK, CleanupTypeOK, Cleaning
<1>2. QueuesTypeOK /\ EnvironmentTypeOK
  <2>1. <<>> \in Seq(Pdu) /\ <<>> \in Seq(InMessage)
    BY EmptySeq
  <2> QED
    BY <2>1, RoutingAssumption
    DEF Init, QueuesTypeOK, EnvironmentTypeOK, RoutingAssumption
<1>3. MappingsTypeOK
  <2>1. 0 \in 0 .. MaxInvokeid
    BY RoutingAssumption DEF RoutingAssumption
  <2>2. FALSE \in BOOLEAN
    OBVIOUS
  <2> QED
    BY <2>1, <2>2 DEF Init, MappingsTypeOK
<1>4. ProcessingTypeOK
  BY DEF Init, ProcessingTypeOK, Pc
<1> QED
  BY <1>1, <1>2, <1>3, <1>4 DEF TypeOK

\* A part of the state that a step leaves alone keeps its type.
LEMMA UnchangedTypeOK ==
    ASSUME TypeOK
    PROVE  /\ UNCHANGED in_vars => ClientSideTypeOK'
           /\ UNCHANGED queue_vars => QueuesTypeOK'
           /\ UNCHANGED map_vars => MappingsTypeOK'
           /\ UNCHANGED proc_vars => ProcessingTypeOK'
           /\ UNCHANGED out_vars => OutConnectionTypeOK'
           /\ UNCHANGED clean_vars => CleanupTypeOK'
           /\ UNCHANGED env_vars => EnvironmentTypeOK'
<1>1. UNCHANGED in_vars => ClientSideTypeOK'
  BY DEF TypeOK, in_vars, ClientSideTypeOK
<1>2. UNCHANGED queue_vars => QueuesTypeOK'
  BY DEF TypeOK, queue_vars, QueuesTypeOK
<1>3. UNCHANGED map_vars => MappingsTypeOK'
  BY DEF TypeOK, map_vars, MappingsTypeOK
<1>4. UNCHANGED proc_vars => ProcessingTypeOK'
  BY DEF TypeOK, proc_vars, ProcessingTypeOK
<1>5. UNCHANGED out_vars => OutConnectionTypeOK'
  BY DEF TypeOK, out_vars, OutConnectionTypeOK
<1>6. UNCHANGED clean_vars => CleanupTypeOK'
  BY DEF TypeOK, clean_vars, CleanupTypeOK
<1>7. UNCHANGED env_vars => EnvironmentTypeOK'
  BY DEF TypeOK, env_vars, EnvironmentTypeOK
<1> QED
  BY <1>1, <1>2, <1>3, <1>4, <1>5, <1>6, <1>7

\* What comm_r and comm_w do for the clients keeps the types.
LEMMA ClientSideStepTypeOK == TypeOK /\ ClientSide => TypeOK'
<1> SUFFICES ASSUME TypeOK, ClientSide PROVE TypeOK'
  OBVIOUS
<1> USE UnchangedTypeOK DEF TypeOK
<1>1. CASE \E c \in Client, s \in Socket : AcceptClient(c, s)
  BY <1>1, RoutingAssumption
  DEF AcceptClient, ClientSideTypeOK, RoutingAssumption
<1>2. ASSUME NEW s \in Socket, ReadInSocket(s) PROVE TypeOK'
  <2>1. owner[s] \in Client /\ sent[owner[s]] + 1 \in 1 .. MaxRequests
    BY <1>2, RoutingAssumption
    DEF ReadInSocket, ClientSideTypeOK, EnvironmentTypeOK, RoutingAssumption
  <2>2. EnvironmentTypeOK'
    BY <1>2, <2>1, RoutingAssumption
    DEF ReadInSocket, EnvironmentTypeOK, RoutingAssumption
  <2>3. [socket |-> s, pdu |-> [invokeid |-> sent[owner[s]] + 1,
           req |-> <<owner[s], sent[owner[s]] + 1>>]] \in InMessage
    BY <2>1 DEF InMessage, Pdu, Request
  <2>4. QueuesTypeOK'
    BY <1>2, <2>3, AppendContents DEF ReadInSocket, QueuesTypeOK
  <2> QED
    BY <1>2, <2>2, <2>4 DEF ReadInSocket
<1>3. ASSUME NEW s \in Socket, DropClient(s) PROVE TypeOK'
  BY <1>3 DEF DropClient, ClientSideTypeOK, MappingsTypeOK
<1>4. ASSUME NEW s \in Socket, WriteDataToInBuffer(s) PROVE TypeOK'
  <2>1. Head(w_in_messages[s]) \in Pdu /\ Tail(w_in_messages[s]) \in Seq(Pdu)
    BY <1>4, TakeContents DEF WriteDataToInBuffer, QueuesTypeOK
  <2>2. QueuesTypeOK'
    BY <1>4, <2>1 DEF WriteDataToInBuffer, QueuesTypeOK
  <2>3. ClientSideTypeOK'
    BY <1>4, <2>1 DEF WriteDataToInBuffer, ClientSideTypeOK
  <2> QED
    BY <1>4, <2>2, <2>3 DEF WriteDataToInBuffer
<1>5. ASSUME NEW s \in Socket, WriteInSocket(s) PROVE TypeOK'
  <2>1. owner[s] \in Client /\ w_buffer[s] \in Pdu
    BY <1>5 DEF WriteInSocket, ClientSideTypeOK
  <2>2. Append(received[owner[s]], w_buffer[s]) \in Seq(Pdu)
    BY <2>1, AppendContents DEF EnvironmentTypeOK
  <2>3. EnvironmentTypeOK'
    BY <1>5, <2>1, <2>2 DEF WriteInSocket, EnvironmentTypeOK
  <2>4. ClientSideTypeOK'
    BY <1>5 DEF WriteInSocket, ClientSideTypeOK
  <2> QED
    BY <1>5, <2>3, <2>4 DEF WriteInSocket
<1>6. ASSUME NEW s \in Socket, FreeInvalidMessage(s) PROVE TypeOK'
  <2>1. PICK i \in 1 .. Len(w_in_messages[s]) :
            w_in_messages' = [w_in_messages EXCEPT ![s] = RemoveAt(@, i)]
    BY <1>6 DEF FreeInvalidMessage
  <2>2. RemoveAt(w_in_messages[s], i) \in Seq(Pdu)
    BY RemoveAtContents DEF QueuesTypeOK
  <2>3. QueuesTypeOK'
    BY <1>6, <2>1, <2>2 DEF FreeInvalidMessage, QueuesTypeOK
  <2> QED
    BY <1>6, <2>3 DEF FreeInvalidMessage
<1> QED
  BY <1>1, <1>2, <1>3, <1>4, <1>5, <1>6 DEF ClientSide

\* What comm_r and comm_w do for the server keeps the types.
LEMMA ServerSideStepTypeOK == TypeOK /\ ServerSide => TypeOK'
<1> SUFFICES ASSUME TypeOK, ServerSide PROVE TypeOK'
  OBVIOUS
<1> USE UnchangedTypeOK DEF TypeOK
<1>1. ASSUME NEW p \in server, ReadOutSocket(p) PROVE TypeOK'
  <2>1. Append(r_out_messages, p) \in Seq(Pdu)
    BY AppendContents DEF QueuesTypeOK, EnvironmentTypeOK
  <2>2. QueuesTypeOK' /\ EnvironmentTypeOK'
    BY <1>1, <2>1 DEF ReadOutSocket, QueuesTypeOK, EnvironmentTypeOK
  <2> QED
    BY <1>1, <2>2 DEF ReadOutSocket
<1>2. CASE OutSocketFails
  BY <1>2, RoutingAssumption
  DEF OutSocketFails, OutConnectionTypeOK, EnvironmentTypeOK,
      RoutingAssumption
<1>3. CASE DetectFailure
  BY <1>3 DEF DetectFailure, CleanupTypeOK
<1>4. CASE WriteDataToOutBuffer
  <2>1. Head(w_out_messages) \in Pdu /\ Tail(w_out_messages) \in Seq(Pdu)
    BY <1>4, TakeContents DEF WriteDataToOutBuffer, QueuesTypeOK
  <2> QED
    BY <1>4, <2>1 DEF WriteDataToOutBuffer, QueuesTypeOK, OutConnectionTypeOK
<1>5. CASE WriteOutSocket
  BY <1>5 DEF WriteOutSocket, OutConnectionTypeOK, EnvironmentTypeOK
<1> QED
  BY <1>1, <1>2, <1>3, <1>4, <1>5 DEF ServerSide

\* Connecting, routing replies and forwarding requests keep the types.
LEMMA ProcessingStepTypeOK == TypeOK /\ Processing => TypeOK'
<1> SUFFICES ASSUME TypeOK, Processing PROVE TypeOK'
  OBVIOUS
<1> USE UnchangedTypeOK DEF TypeOK
<1>1. CASE CheckOutput
  BY <1>1 DEF CheckOutput, ProcessingTypeOK, Pc
<1>2. CASE ConnectToOutput
  BY <1>2 DEF ConnectToOutput, ProcessingTypeOK, Pc, OutConnectionTypeOK,
              EnvironmentTypeOK
<1>3. CASE TakeOutMessage
  <2>1. CASE r_out_messages = <<>>
    BY <1>3, <2>1 DEF TakeOutMessage, ProcessingTypeOK, Pc, QueuesTypeOK
  <2>2. CASE r_out_messages # <<>>
    <3>1. Head(r_out_messages) \in Pdu /\ Tail(r_out_messages) \in Seq(Pdu)
      BY <2>2, TakeContents DEF QueuesTypeOK
    <3>2. QueuesTypeOK'
      BY <1>3, <2>2, <3>1 DEF TakeOutMessage, QueuesTypeOK
    <3>3. ProcessingTypeOK'
      BY <1>3, <2>2, <3>1, RoutingAssumption
      DEF TakeOutMessage, ProcessingTypeOK, Pc, RoutingAssumption
    <3> QED
      BY <1>3, <3>2, <3>3 DEF TakeOutMessage
  <2> QED
    BY <2>1, <2>2
<1>4. CASE EnterLookup
  BY <1>4 DEF EnterLookup, ProcessingTypeOK, Pc
<1>5. ASSUME NEW m \in socket_to_recv_unicast_msg, RouteReply(m) PROVE TypeOK'
  <2>1. m \in Mapping /\ held_out \in Pdu
    BY <1>5 DEF RouteReply, MappingsTypeOK, ProcessingTypeOK
  <2>2. [held_out EXCEPT !.invokeid = m.invokeid_original] \in Pdu
    BY <2>1 DEF Mapping, Pdu
  <2>3. Append(w_in_messages[m.socket],
               [held_out EXCEPT !.invokeid = m.invokeid_original]) \in Seq(Pdu)
    BY <2>1, <2>2, AppendContents DEF QueuesTypeOK, Mapping
  <2>4. QueuesTypeOK'
    BY <1>5, <2>1, <2>3 DEF RouteReply, QueuesTypeOK
  <2>5. MappingsTypeOK'
    BY <1>5 DEF RouteReply, MappingsTypeOK
  <2> QED
    BY <1>5, <2>4, <2>5 DEF RouteReply
<1>6. CASE EndRoute
  BY <1>6 DEF EndRoute, ProcessingTypeOK, Pc
<1>7. CASE TakeInMessage
  <2>1. CASE r_in_messages = <<>>
    BY <1>7, <2>1 DEF TakeInMessage, ProcessingTypeOK, Pc, QueuesTypeOK
  <2>2. CASE r_in_messages # <<>>
    <3>1. /\ Head(r_in_messages) \in InMessage
          /\ Tail(r_in_messages) \in Seq(InMessage)
      BY <2>2, TakeContents DEF QueuesTypeOK
    <3>2. QueuesTypeOK'
      BY <1>7, <2>2, <3>1 DEF TakeInMessage, QueuesTypeOK
    <3>3. ProcessingTypeOK'
      BY <1>7, <2>2, <3>1, RoutingAssumption
      DEF TakeInMessage, ProcessingTypeOK, Pc, RoutingAssumption
    <3> QED
      BY <1>7, <3>2, <3>3 DEF TakeInMessage
  <2> QED
    BY <2>1, <2>2
<1>8. CASE MapRequest
  <2>1. generate_invokeid \in 1 .. MaxInvokeid
    BY GeneratedInvokeid DEF MappingsTypeOK
  <2>2. held_in \in InMessage
    BY <1>8 DEF MapRequest, ProcessingTypeOK
  <2>3. [socket |-> held_in.socket,
         invokeid_original |-> held_in.pdu.invokeid,
         invokeid_generated |-> generate_invokeid,
         req |-> held_in.pdu.req] \in Mapping
    BY <2>1, <2>2, RoutingAssumption
    DEF Mapping, InMessage, Pdu, RoutingAssumption
  <2>4. MappingsTypeOK'
    <3>1. invokeid_gen_counter' \in 0 .. MaxInvokeid
      BY <1>8, <2>1, RoutingAssumption DEF MapRequest, RoutingAssumption
    <3>2. socket_to_recv_unicast_msg' \subseteq Mapping
      BY <1>8, <2>3 DEF MapRequest, MappingsTypeOK
    <3>3. idClash' \in BOOLEAN
      BY <1>8, Zenon DEF MapRequest, MappingsTypeOK
    <3> QED
      BY <3>1, <3>2, <3>3 DEF MappingsTypeOK
  <2>5. ProcessingTypeOK'
    BY <1>8, <2>2 DEF MapRequest, ProcessingTypeOK, Pc
  <2> QED
    BY <1>8, <2>4, <2>5 DEF MapRequest
<1>9. CASE ForwardRequest
  <2>1. [held_in.pdu EXCEPT !.invokeid = invokeid_gen_counter] \in Pdu
    BY <1>9, RoutingAssumption
    DEF ForwardRequest, ProcessingTypeOK, MappingsTypeOK, InMessage, Pdu,
        RoutingAssumption
  <2>2. Append(w_out_messages,
           [held_in.pdu EXCEPT !.invokeid = invokeid_gen_counter]) \in Seq(Pdu)
    BY <2>1, AppendContents DEF QueuesTypeOK
  <2>3. QueuesTypeOK'
    BY <1>9, <2>2 DEF ForwardRequest, QueuesTypeOK
  <2>4. ProcessingTypeOK'
    BY <1>9 DEF ForwardRequest, ProcessingTypeOK, Pc
  <2> QED
    BY <1>9, <2>3, <2>4 DEF ForwardRequest
<1> QED
  BY <1>1, <1>2, <1>3, <1>4, <1>5, <1>6, <1>7, <1>8, <1>9 DEF Processing

\* Every iteration of the cleanup keeps the types.
LEMMA CleanupStepTypeOK == TypeOK /\ Cleanup => TypeOK'
<1> SUFFICES ASSUME TypeOK, Cleanup PROVE TypeOK'
  OBVIOUS
<1> USE UnchangedTypeOK DEF TypeOK
<1>1. CASE BeginCleanup
  BY <1>1 DEF BeginCleanup, OutConnectionTypeOK, CleanupTypeOK, Cleaning
<1>2. CASE \/ FreeRInMessages \/ FreeWInMessages
           \/ FreeROutMessages \/ FreeWOutMessages
  <2>1. <<>> \in Seq(Pdu) /\ <<>> \in Seq(InMessage)
    BY EmptySeq
  <2>2. QueuesTypeOK'
    BY <1>2, <2>1 DEF FreeRInMessages, FreeWInMessages, FreeROutMessages,
                      FreeWOutMessages, QueuesTypeOK
  <2>3. CleanupTypeOK'
    BY <1>2 DEF FreeRInMessages, FreeWInMessages, FreeROutMessages,
                FreeWOutMessages, CleanupTypeOK, Cleaning
  <2> QED
    BY <1>2, <2>2, <2>3 DEF FreeRInMessages, FreeWInMessages,
                            FreeROutMessages, FreeWOutMessages
<1>3. ASSUME NEW s \in Socket, RemoveMappingsFor(s) PROVE TypeOK'
  BY <1>3 DEF RemoveMappingsFor, MappingsTypeOK, CleanupTypeOK
<1>4. CASE EndRemoveMappings
  BY <1>4 DEF EndRemoveMappings, CleanupTypeOK, Cleaning
<1>5. ASSUME NEW s \in Socket, RemoveConnection(s) PROVE TypeOK'
  BY <1>5 DEF RemoveConnection, ClientSideTypeOK, MappingsTypeOK, CleanupTypeOK
<1>6. CASE EndCleanup
  BY <1>6 DEF EndCleanup, CleanupTypeOK, Cleaning
<1>7. CASE Rearm
  BY <1>7 DEF Rearm, CleanupTypeOK, Cleaning
<1> QED
  BY <1>1, <1>2, <1>3, <1>4, <1>5, <1>6, <1>7 DEF Cleanup

\* Every step, stuttering included, keeps the types.
LEMMA StepTypeOK == TypeOK /\ [Next]_vars => TypeOK'
<1>1. TypeOK /\ UNCHANGED vars => TypeOK'
  BY UnchangedTypeOK DEF vars, TypeOK
<1> QED
  BY <1>1, ClientSideStepTypeOK, ServerSideStepTypeOK, ProcessingStepTypeOK,
     CleanupStepTypeOK DEF Next

(***************************************************************************)
(* The variables keep their types; in particular the processing thread     *)
(* has a message in hand whenever it works on one, and every connection    *)
(* has a client.                                                           *)
(***************************************************************************)
THEOREM TypeCorrect == Spec => []TypeOK
  BY InitTypeOK, StepTypeOK, PTL DEF Spec

-----------------------------------------------------------------------------
(* Replies reach the right client. *)

\* The muxer starts with nothing that could be attributed wrongly.
LEMMA InitRightClientInv == Init => RightClientInv
<1> SUFFICES ASSUME Init PROVE RightClientInv
  OBVIOUS
<1>1. TypeOK
  BY InitTypeOK
<1>2. Range(r_in_messages) = {}
  BY DEF Init, Range
<1>3. RequestsAttributed
  BY <1>2 DEF Init, RequestsAttributed
<1>4. UnusedHandlesEmpty
  BY DEF Init, UnusedHandlesEmpty
<1>5. InvokeidsDistinct
  BY DEF Init, InvokeidsDistinct
<1>6. RepliesAttributed
  BY DEF Init, RepliesAttributed
<1>7. RightClient
  <2>1. \A c \in Client : Len(received[c]) = 0
    BY DEF Init
  <2> QED
    BY <2>1 DEF RightClient
<1> QED
  BY <1>1, <1>3, <1>4, <1>5, <1>6, <1>7 DEF RightClientInv

\* A step that only takes messages, mappings and connections away, or moves
\* PDUs along between the muxer's server side and the server.
NothingNew ==
    /\ UNCHANGED <<owner, received, idClash, invokeid_gen_counter>>
    /\ connections' \subseteq connections
    /\ socket_to_recv_unicast_msg' \subseteq socket_to_recv_unicast_msg
    /\ InFlight' \subseteq InFlight
    /\ Range(r_in_messages') \subseteq Range(r_in_messages)
    /\ held_in' \in {held_in, None}
    /\ pc' = "send" => pc = "send" /\ held_in' = held_in
    /\ \A s \in Socket :
           /\ w_buffer'[s] \in {w_buffer[s], None}
           /\ Range(w_in_messages'[s]) \subseteq Range(w_in_messages[s])
           /\ w_in_messages[s] = <<>> => w_in_messages'[s] = <<>>

\* A step that adds no message, no mapping and no PDU under way, and changes
\* no owner, keeps the attributions.
LEMMA NothingNewKeepsRightClient ==
    ASSUME RightClientInv, NothingNew, TypeOK' PROVE RightClientInv'
<1> USE DEF NothingNew
<1>1. connections \subseteq Socket
  BY DEF RightClientInv, TypeOK, ClientSideTypeOK
<1>2. RequestsAttributed'
  BY DEF RightClientInv, RequestsAttributed, IsReplyTo
<1>3. UnusedHandlesEmpty'
  BY DEF RightClientInv, UnusedHandlesEmpty
<1>4. InvokeidsDistinct => InvokeidsDistinct'
  BY DEF InvokeidsDistinct
<1>5. RepliesAttributed => RepliesAttributed'
  BY <1>1 DEF RepliesAttributed, IsReplyTo
<1>6. RightClient => RightClient'
  BY DEF RightClient, IsReplyTo
<1> QED
  BY <1>2, <1>3, <1>4, <1>5, <1>6 DEF RightClientInv

\* Reading from, writing to and losing the server moves PDUs, it makes none.
LEMMA ServerSideKeepsRightClient ==
    ASSUME RightClientInv, ServerSide, TypeOK' PROVE RightClientInv'
<1> TypeOK
  BY DEF RightClientInv
<1> USE DEF in_vars, queue_vars, map_vars, proc_vars, out_vars, clean_vars,
            env_vars
<1>1. ASSUME NEW p \in server, ReadOutSocket(p) PROVE NothingNew
  <2>1. Range(r_out_messages') = Range(r_out_messages) \cup {p}
    BY <1>1, AppendContents
    DEF ReadOutSocket, TypeOK, QueuesTypeOK, EnvironmentTypeOK
  <2>2. InFlight' \subseteq InFlight
    BY <1>1, <2>1 DEF ReadOutSocket, InFlight
  <2> QED
    BY <1>1, <2>2 DEF ReadOutSocket, NothingNew
<1>2. CASE OutSocketFails
  BY <1>2, NothingNewKeepsRightClient DEF OutSocketFails, NothingNew, InFlight
<1>3. CASE DetectFailure
  BY <1>3, NothingNewKeepsRightClient DEF DetectFailure, NothingNew, InFlight
<1>4. ASSUME WriteDataToOutBuffer PROVE NothingNew
  <2>1. /\ Head(w_out_messages) \in Range(w_out_messages)
        /\ Range(Tail(w_out_messages)) \subseteq Range(w_out_messages)
    BY <1>4, TakeContents DEF WriteDataToOutBuffer, TypeOK, QueuesTypeOK
  <2>2. InFlight' \subseteq InFlight
    BY <1>4, <2>1 DEF WriteDataToOutBuffer, InFlight
  <2> QED
    BY <1>4, <2>2 DEF WriteDataToOutBuffer, NothingNew
<1>5. CASE WriteOutSocket
  BY <1>5, NothingNewKeepsRightClient DEF WriteOutSocket, NothingNew, InFlight
<1> QED
  BY <1>1, <1>2, <1>3, <1>4, <1>5, NothingNewKeepsRightClient DEF ServerSide

\* The cleanup only takes away.
LEMMA CleanupKeepsRightClient ==
    ASSUME RightClientInv, Cleanup, TypeOK' PROVE RightClientInv'
<1> TypeOK
  BY DEF RightClientInv
<1> USE DEF in_vars, queue_vars, map_vars, proc_vars, out_vars, clean_vars,
            env_vars
<1>1. Range(<<>>) = {}
  BY DEF Range
<1>2. CASE BeginCleanup
  BY <1>2, NothingNewKeepsRightClient DEF BeginCleanup, NothingNew, InFlight
<1>3. CASE FreeRInMessages
  BY <1>1, <1>3, NothingNewKeepsRightClient
  DEF FreeRInMessages, NothingNew, InFlight
<1>4. CASE FreeWInMessages
  BY <1>1, <1>4, NothingNewKeepsRightClient
  DEF FreeWInMessages, NothingNew, InFlight
<1>5. CASE FreeROutMessages
  BY <1>1, <1>5, NothingNewKeepsRightClient
  DEF FreeROutMessages, NothingNew, InFlight
<1>6. CASE FreeWOutMessages
  BY <1>1, <1>6, NothingNewKeepsRightClient
  DEF FreeWOutMessages, NothingNew, InFlight
<1>7. ASSUME NEW s \in Socket, RemoveMappingsFor(s) PROVE NothingNew
  BY <1>7 DEF RemoveMappingsFor, NothingNew, InFlight
<1>8. CASE EndRemoveMappings
  BY <1>8, NothingNewKeepsRightClient
  DEF EndRemoveMappings, NothingNew, InFlight
<1>9. ASSUME NEW s \in Socket, RemoveConnection(s) PROVE NothingNew
  BY <1>9 DEF RemoveConnection, NothingNew, InFlight, TypeOK, ClientSideTypeOK
<1>10. CASE EndCleanup
  BY <1>10, NothingNewKeepsRightClient DEF EndCleanup, NothingNew, InFlight
<1>11. CASE Rearm
  BY <1>11, NothingNewKeepsRightClient DEF Rearm, NothingNew, InFlight
<1> QED
  BY <1>2, <1>3, <1>4, <1>5, <1>6, <1>7, <1>8, <1>9, <1>10, <1>11,
     NothingNewKeepsRightClient DEF Cleanup

\* A mapping, a held request and a queued request belong to a socket that was
\* given out.
LEMMA AttributedSocketsOwned ==
    ASSUME TypeOK, RequestsAttributed
    PROVE  /\ \A q \in Range(r_in_messages) :
                  q.socket \in Socket /\ owner[q.socket] # None
           /\ held_in # None =>
                  held_in.socket \in Socket /\ owner[held_in.socket] # None
           /\ \A m \in socket_to_recv_unicast_msg :
                  m.socket \in Socket /\ owner[m.socket] # None
<1>1. None \notin Client
  BY RoutingAssumption DEF RoutingAssumption
<1>2. \A q \in Range(r_in_messages) : q \in InMessage
  BY RangeOfSeq DEF TypeOK, QueuesTypeOK
<1>3. \A q \in InMessage : q.pdu.req[1] \in Client /\ q.socket \in Socket
  BY DEF InMessage, Pdu, Request
<1>4. \A m \in Mapping : m.req[1] \in Client /\ m.socket \in Socket
  BY DEF Mapping, Request
<1> QED
  BY <1>1, <1>2, <1>3, <1>4
  DEF RequestsAttributed, IsReplyTo, TypeOK, ProcessingTypeOK, MappingsTypeOK

\* Clients that come, go, send and receive keep the attributions, when a
\* handle is not used twice.
LEMMA ClientSideKeepsRightClient ==
    ASSUME RightClientInv, ClientSide, TypeOK', HandleReuse = FALSE
    PROVE  RightClientInv'
<1> TypeOK /\ RequestsAttributed /\ UnusedHandlesEmpty
  BY DEF RightClientInv
<1> USE DEF in_vars, queue_vars, map_vars, proc_vars, out_vars, clean_vars,
            env_vars
<1>1. ASSUME NEW c \in Client, NEW s \in Socket, AcceptClient(c, s)
      PROVE  RightClientInv'
  <2>1. owner[s] = None /\ w_in_messages[s] = <<>>
    BY <1>1 DEF AcceptClient, UnusedHandlesEmpty
  <2>2. \A t \in Socket : owner[t] # None => owner'[t] = owner[t]
    BY <1>1, <2>1 DEF AcceptClient, TypeOK, ClientSideTypeOK
  <2>3. RequestsAttributed'
    BY <1>1, <2>2, AttributedSocketsOwned
    DEF AcceptClient, RequestsAttributed, IsReplyTo
  <2>4. UnusedHandlesEmpty'
    BY <1>1, <2>2 DEF AcceptClient, UnusedHandlesEmpty
  <2>5. InvokeidsDistinct => InvokeidsDistinct'
    BY <1>1, <2>1, AttributedSocketsOwned
    DEF AcceptClient, InvokeidsDistinct, InFlight
  <2>6. ASSUME RepliesAttributed PROVE RepliesAttributed'
    <3>1. w_buffer'[s] = None /\ Range(w_in_messages'[s]) = {}
      BY <1>1, <2>1 DEF AcceptClient, TypeOK, ClientSideTypeOK, Range
    <3>2. \A t \in connections : t \in Socket /\ owner'[t] = owner[t]
            /\ w_buffer'[t] = w_buffer[t] /\ w_in_messages'[t] = w_in_messages[t]
      BY <1>1, <2>2 DEF AcceptClient, TypeOK, ClientSideTypeOK
    <3>3. connections' = connections \cup {s}
      BY <1>1 DEF AcceptClient
    <3> QED
      BY <2>6, <3>1, <3>2, <3>3 DEF RepliesAttributed, IsReplyTo
  <2>7. RightClient => RightClient'
    BY <1>1 DEF AcceptClient, RightClient, IsReplyTo
  <2> QED
    BY <1>1, <2>3, <2>4, <2>5, <2>6, <2>7 DEF AcceptClient, RightClientInv
<1>2. ASSUME NEW s \in Socket, ReadInSocket(s) PROVE RightClientInv'
  <2> DEFINE n == sent[owner[s]] + 1
             q == [socket |-> s, pdu |-> [invokeid |-> n,
                                          req |-> <<owner[s], n>>]]
  <2>1. owner[s] \in Client /\ n \in 1 .. MaxRequests
    BY <1>2, RoutingAssumption
    DEF ReadInSocket, TypeOK, ClientSideTypeOK, EnvironmentTypeOK,
        RoutingAssumption
  <2>2. q \in InMessage
    BY <2>1 DEF InMessage, Pdu, Request
  <2>3. q.socket = s /\ IsReplyTo(q.pdu, owner[s])
    BY DEF IsReplyTo
  <2>4. r_in_messages' = Append(r_in_messages, q)
    BY <1>2 DEF ReadInSocket
  <2> HIDE DEF q
  <2>5. Range(r_in_messages') = Range(r_in_messages) \cup {q}
    BY <2>2, <2>4, AppendContents DEF TypeOK, QueuesTypeOK
  <2>6. RequestsAttributed'
    BY <1>2, <2>3, <2>5 DEF ReadInSocket, RequestsAttributed, IsReplyTo
  <2>7. /\ UnusedHandlesEmpty'
        /\ InvokeidsDistinct => InvokeidsDistinct'
        /\ RepliesAttributed => RepliesAttributed'
        /\ RightClient => RightClient'
    BY <1>2 DEF ReadInSocket, UnusedHandlesEmpty, InvokeidsDistinct, InFlight,
                RepliesAttributed, RightClient, IsReplyTo
  <2> QED
    BY <1>2, <2>6, <2>7 DEF ReadInSocket, RightClientInv
<1>3. ASSUME NEW s \in Socket, DropClient(s) PROVE NothingNew
  BY <1>3 DEF DropClient, NothingNew, InFlight, TypeOK, ClientSideTypeOK
<1>4. ASSUME NEW s \in Socket, WriteDataToInBuffer(s) PROVE RightClientInv'
  <2>1. /\ Head(w_in_messages[s]) \in Range(w_in_messages[s])
        /\ Range(Tail(w_in_messages[s])) \subseteq Range(w_in_messages[s])
    BY <1>4, TakeContents DEF WriteDataToInBuffer, TypeOK, QueuesTypeOK
  <2>2. \A t \in Socket :
            /\ Range(w_in_messages'[t]) \subseteq Range(w_in_messages[t])
            /\ w_in_messages[t] = <<>> => w_in_messages'[t] = <<>>
            /\ \/ w_buffer'[t] = w_buffer[t]
               \/ w_buffer'[t] \in Range(w_in_messages[t])
    BY <1>4, <2>1
    DEF WriteDataToInBuffer, TypeOK, QueuesTypeOK, ClientSideTypeOK
  <2>3. RepliesAttributed => RepliesAttributed'
    BY <1>4, <2>2
    DEF WriteDataToInBuffer, RepliesAttributed, IsReplyTo, TypeOK,
        ClientSideTypeOK
  <2>4. UnusedHandlesEmpty'
    BY <1>4, <2>2 DEF WriteDataToInBuffer, UnusedHandlesEmpty
  <2>5. /\ RequestsAttributed'
        /\ InvokeidsDistinct => InvokeidsDistinct'
        /\ RightClient => RightClient'
    BY <1>4 DEF WriteDataToInBuffer, RequestsAttributed, InvokeidsDistinct,
                InFlight, RightClient, IsReplyTo
  <2> QED
    BY <1>4, <2>3, <2>4, <2>5 DEF WriteDataToInBuffer, RightClientInv
<1>5. ASSUME NEW s \in Socket, WriteInSocket(s) PROVE RightClientInv'
  <2> DEFINE c == owner[s]
  <2>1. c \in Client /\ w_buffer[s] \in Pdu /\ received[c] \in Seq(Pdu)
    BY <1>5
    DEF WriteInSocket, TypeOK, ClientSideTypeOK, EnvironmentTypeOK
  <2>2. /\ received'[c] = Append(received[c], w_buffer[s])
        /\ \A d \in Client : d # c => received'[d] = received[d]
    BY <1>5, <2>1 DEF WriteInSocket, TypeOK, EnvironmentTypeOK
  <2>3. /\ Len(received'[c]) = Len(received[c]) + 1
        /\ \A i \in 1 .. Len(received[c]) : received'[c][i] = received[c][i]
        /\ received'[c][Len(received[c]) + 1] = w_buffer[s]
        /\ Len(received[c]) \in Nat
    BY <2>1, <2>2, AppendProperties, LenProperties
  <2>4. ASSUME RepliesAttributed, RightClient, ~idClash PROVE RightClient'
    <3>1. IsReplyTo(w_buffer[s], c)
      BY <1>5, <2>4 DEF WriteInSocket, RepliesAttributed
    <3>2. \A i \in 1 .. Len(received'[c]) : IsReplyTo(received'[c][i], c)
      <4>1. \A i \in 1 .. Len(received[c]) : IsReplyTo(received[c][i], c)
        BY <2>1, <2>4 DEF RightClient
      <4> QED
        BY <2>3, <3>1, <4>1
    <3>3. \A d \in Client : \A i \in 1 .. Len(received'[d]) :
              IsReplyTo(received'[d][i], d)
      BY <2>2, <2>4, <3>2 DEF RightClient
    <3> QED
      BY <3>3 DEF RightClient, IsReplyTo
  <2>5. RepliesAttributed => RepliesAttributed'
    BY <1>5 DEF WriteInSocket, RepliesAttributed, IsReplyTo, TypeOK,
                ClientSideTypeOK
  <2>6. /\ RequestsAttributed'
        /\ UnusedHandlesEmpty'
        /\ InvokeidsDistinct => InvokeidsDistinct'
    BY <1>5 DEF WriteInSocket, RequestsAttributed, UnusedHandlesEmpty,
                InvokeidsDistinct, InFlight, IsReplyTo
  <2> QED
    BY <1>5, <2>4, <2>5, <2>6 DEF WriteInSocket, RightClientInv
<1>6. ASSUME NEW s \in Socket, FreeInvalidMessage(s) PROVE NothingNew
  <2>1. PICK i \in 1 .. Len(w_in_messages[s]) :
            w_in_messages' = [w_in_messages EXCEPT ![s] = RemoveAt(@, i)]
    BY <1>6 DEF FreeInvalidMessage
  <2>2. /\ Range(RemoveAt(w_in_messages[s], i)) \subseteq Range(w_in_messages[s])
        /\ w_in_messages[s] # <<>>
    BY RemoveAtContents DEF TypeOK, QueuesTypeOK
  <2>3. \A t \in Socket :
            /\ Range(w_in_messages'[t]) \subseteq Range(w_in_messages[t])
            /\ w_in_messages[t] = <<>> => w_in_messages'[t] = <<>>
    BY <2>1, <2>2 DEF TypeOK, QueuesTypeOK
  <2> QED
    BY <1>6, <2>3 DEF FreeInvalidMessage, NothingNew, InFlight
<1> QED
  BY <1>1, <1>2, <1>3, <1>4, <1>5, <1>6, NothingNewKeepsRightClient
  DEF ClientSide

\* A reply is put into w_in_messages of the client that its mapping is for,
\* and answers the request that the mapping was made for.
LEMMA RouteReplyKeepsRightClient ==
    ASSUME RightClientInv, TypeOK',
           NEW m \in socket_to_recv_unicast_msg, RouteReply(m)
    PROVE  RightClientInv'
<1> DEFINE p == [held_out EXCEPT !.invokeid = m.invokeid_original]
<1> TypeOK /\ RequestsAttributed /\ UnusedHandlesEmpty
  BY DEF RightClientInv
<1> USE DEF in_vars, queue_vars, map_vars, proc_vars, out_vars, clean_vars,
            env_vars
<1>1. /\ m \in Mapping /\ held_out \in Pdu /\ held_out \in InFlight
      /\ m.invokeid_generated = held_out.invokeid
      /\ m.socket \in Socket /\ owner[m.socket] # None
      /\ p \in Pdu
  <2>1. m \in Mapping /\ held_out \in Pdu /\ held_out # None
    BY DEF RouteReply, TypeOK, MappingsTypeOK, ProcessingTypeOK
  <2>2. m.invokeid_generated = held_out.invokeid
    BY DEF RouteReply, Matching
  <2>3. p \in Pdu
    BY <2>1 DEF Mapping, Pdu
  <2> QED
    BY <2>1, <2>2, <2>3, AttributedSocketsOwned DEF InFlight
<1>2. /\ w_in_messages[m.socket] \in Seq(Pdu)
      /\ w_in_messages'[m.socket] = Append(w_in_messages[m.socket], p)
      /\ \A s \in Socket \ {m.socket} : w_in_messages'[s] = w_in_messages[s]
  BY <1>1 DEF RouteReply, TypeOK, QueuesTypeOK
<1>3. Range(w_in_messages'[m.socket]) = Range(w_in_messages[m.socket]) \cup {p}
  BY <1>1, <1>2, AppendContents
<1>4. ASSUME InvokeidsDistinct, m.socket \in connections
      PROVE  IsReplyTo(p, owner[m.socket])
  <2>1. m.req = held_out.req
    BY <1>1, <1>4 DEF InvokeidsDistinct
  <2>2. owner[m.socket] = m.req[1] /\ m.invokeid_original = m.req[2]
    BY DEF RequestsAttributed
  <2> QED
    BY <1>1, <2>1, <2>2 DEF IsReplyTo, Pdu
<1>5. ASSUME InvokeidsDistinct, RepliesAttributed PROVE RepliesAttributed'
  <2>1. connections \subseteq Socket
    BY DEF TypeOK, ClientSideTypeOK
  <2> HIDE DEF p
  <2>2. \A s \in connections : \A x \in Range(w_in_messages'[s]) :
            IsReplyTo(x, owner[s])
    BY <1>2, <1>3, <1>4, <1>5, <2>1 DEF RepliesAttributed
  <2> QED
    BY <1>5, <2>2 DEF RouteReply, RepliesAttributed, IsReplyTo
<1>6. UnusedHandlesEmpty'
  BY <1>1, <1>2 DEF RouteReply, UnusedHandlesEmpty
<1>7. /\ RequestsAttributed'
      /\ InvokeidsDistinct => InvokeidsDistinct'
      /\ RightClient => RightClient'
  BY DEF RouteReply, RequestsAttributed, InvokeidsDistinct, InFlight,
         RightClient, IsReplyTo
<1> QED
  BY <1>5, <1>6, <1>7 DEF RouteReply, RightClientInv

\* A new mapping is for the client that sent the request, under an invokeid
\* that no other request uses, or idClash records that one does.
LEMMA MapRequestKeepsRightClient ==
    ASSUME RightClientInv, TypeOK', MapRequest PROVE RightClientInv'
<1> DEFINE id == generate_invokeid
           m == [socket |-> held_in.socket,
                 invokeid_original |-> held_in.pdu.invokeid,
                 invokeid_generated |-> id,
                 req |-> held_in.pdu.req]
<1> TypeOK /\ RequestsAttributed /\ UnusedHandlesEmpty
  BY DEF RightClientInv
<1> USE DEF in_vars, queue_vars, map_vars, proc_vars, out_vars, clean_vars,
            env_vars
<1>1. IsReplyTo(held_in.pdu, owner[held_in.socket])
  BY DEF MapRequest, TypeOK, ProcessingTypeOK, RequestsAttributed
<1>2. /\ m.socket = held_in.socket /\ m.invokeid_original = held_in.pdu.invokeid
      /\ m.invokeid_generated = id /\ m.req = held_in.pdu.req
  OBVIOUS
<1>3. /\ socket_to_recv_unicast_msg' = socket_to_recv_unicast_msg \cup {m}
      /\ invokeid_gen_counter' = id
      /\ idClash' = (idClash \/ InUse(id))
      /\ pc' = "send" /\ held_in' = held_in
      /\ InFlight' = InFlight
      /\ UNCHANGED <<in_vars, queue_vars, received>>
  BY DEF MapRequest, InFlight
<1> HIDE DEF m, id
<1>4. RequestsAttributed'
  BY <1>1, <1>2, <1>3 DEF RequestsAttributed, IsReplyTo
<1>5. ASSUME InvokeidsDistinct, ~InUse(id) PROVE InvokeidsDistinct'
  <2>1. \A p \in InFlight : p.invokeid # id
    BY <1>5 DEF InUse
  <2>2. \A x \in socket_to_recv_unicast_msg :
            x.socket \in connections => x.invokeid_generated # id
    BY <1>5 DEF InUse
  <2> QED
    BY <1>2, <1>3, <1>5, <2>1, <2>2 DEF InvokeidsDistinct
<1>6. /\ UnusedHandlesEmpty'
      /\ RepliesAttributed => RepliesAttributed'
      /\ RightClient => RightClient'
  BY <1>3 DEF UnusedHandlesEmpty, RepliesAttributed, RightClient, IsReplyTo
<1> QED
  BY <1>3, <1>4, <1>5, <1>6 DEF RightClientInv

\* The request goes out under the invokeid of its mapping.
LEMMA ForwardRequestKeepsRightClient ==
    ASSUME RightClientInv, TypeOK', ForwardRequest PROVE RightClientInv'
<1> DEFINE p == [held_in.pdu EXCEPT !.invokeid = invokeid_gen_counter]
<1> TypeOK /\ RequestsAttributed /\ UnusedHandlesEmpty
  BY DEF RightClientInv
<1> USE DEF in_vars, queue_vars, map_vars, proc_vars, out_vars, clean_vars,
            env_vars
<1>1. p \in Pdu /\ p.invokeid = invokeid_gen_counter /\ p.req = held_in.pdu.req
  BY RoutingAssumption
  DEF ForwardRequest, TypeOK, ProcessingTypeOK, MappingsTypeOK, InMessage, Pdu,
      RoutingAssumption
<1>2. w_out_messages' \in {w_out_messages, Append(w_out_messages, p)}
  BY DEF ForwardRequest
<1> HIDE DEF p
<1>3. Range(w_out_messages') \subseteq Range(w_out_messages) \cup {p}
  BY <1>1, <1>2, AppendContents DEF TypeOK, QueuesTypeOK
<1>4. InFlight' \subseteq InFlight \cup {p}
  BY <1>3 DEF ForwardRequest, InFlight
<1>5. InvokeidsDistinct => InvokeidsDistinct'
  BY <1>1, <1>4 DEF ForwardRequest, InvokeidsDistinct
<1>6. /\ RequestsAttributed'
      /\ UnusedHandlesEmpty'
      /\ RepliesAttributed => RepliesAttributed'
      /\ RightClient => RightClient'
  BY DEF ForwardRequest, RequestsAttributed, UnusedHandlesEmpty,
         RepliesAttributed, RightClient, IsReplyTo
<1> QED
  BY <1>5, <1>6 DEF ForwardRequest, RightClientInv

\* The processing thread keeps the attributions.
LEMMA ProcessingKeepsRightClient ==
    ASSUME RightClientInv, Processing, TypeOK' PROVE RightClientInv'
<1> TypeOK /\ RequestsAttributed
  BY DEF RightClientInv
<1> USE DEF in_vars, queue_vars, map_vars, proc_vars, out_vars, clean_vars,
            env_vars
<1>1. CASE CheckOutput
  BY <1>1, NothingNewKeepsRightClient DEF CheckOutput, NothingNew, InFlight
<1>2. CASE ConnectToOutput
  BY <1>2, NothingNewKeepsRightClient DEF ConnectToOutput, NothingNew, InFlight
<1>3. ASSUME TakeOutMessage PROVE NothingNew
  <2>1. InFlight' \subseteq InFlight
    <3>1. CASE r_out_messages = <<>>
      BY <1>3, <3>1 DEF TakeOutMessage, InFlight
    <3>2. CASE r_out_messages # <<>>
      <4>1. /\ Head(r_out_messages) \in Range(r_out_messages)
            /\ Range(Tail(r_out_messages)) \subseteq Range(r_out_messages)
        BY <3>2, TakeContents DEF TypeOK, QueuesTypeOK
      <4> QED
        BY <1>3, <3>2, <4>1 DEF TakeOutMessage, InFlight
    <3> QED
      BY <3>1, <3>2
  <2> QED
    BY <1>3, <2>1 DEF TakeOutMessage, NothingNew
<1>4. CASE EnterLookup
  BY <1>4, NothingNewKeepsRightClient DEF EnterLookup, NothingNew, InFlight
<1>5. CASE EndRoute
  BY <1>5, NothingNewKeepsRightClient DEF EndRoute, NothingNew, InFlight
<1>6. ASSUME TakeInMessage PROVE RightClientInv'
  <2>1. RequestsAttributed'
    <3>1. CASE r_in_messages = <<>>
      BY <1>6, <3>1 DEF TakeInMessage, RequestsAttributed, IsReplyTo
    <3>2. CASE r_in_messages # <<>>
      <4>1. /\ Head(r_in_messages) \in Range(r_in_messages)
            /\ Range(Tail(r_in_messages)) \subseteq Range(r_in_messages)
        BY <3>2, TakeContents DEF TypeOK, QueuesTypeOK
      <4> QED
        BY <1>6, <3>2, <4>1 DEF TakeInMessage, RequestsAttributed, IsReplyTo
    <3> QED
      BY <3>1, <3>2
  <2>2. /\ pc' # "send" /\ InFlight' = InFlight
        /\ UNCHANGED <<in_vars, map_vars, received, w_in_messages>>
    BY <1>6 DEF TakeInMessage, InFlight
  <2>3. InvokeidsDistinct => InvokeidsDistinct'
    BY <2>2 DEF InvokeidsDistinct
  <2>4. UnusedHandlesEmpty'
    BY <2>2 DEF RightClientInv, UnusedHandlesEmpty
  <2>5. RepliesAttributed => RepliesAttributed'
    BY <2>2 DEF RepliesAttributed, IsReplyTo
  <2>6. RightClient => RightClient'
    BY <2>2 DEF RightClient, IsReplyTo
  <2> QED
    BY <2>1, <2>2, <2>3, <2>4, <2>5, <2>6 DEF RightClientInv
<1> QED
  BY <1>1, <1>2, <1>3, <1>4, <1>5, <1>6, NothingNewKeepsRightClient,
     RouteReplyKeepsRightClient, MapRequestKeepsRightClient,
     ForwardRequestKeepsRightClient DEF Processing

\* Every step, stuttering included, keeps the attributions.
LEMMA StepKeepsRightClient ==
    ASSUME HandleReuse = FALSE
    PROVE  RightClientInv /\ [Next]_vars => RightClientInv'
<1> SUFFICES ASSUME RightClientInv, [Next]_vars PROVE RightClientInv'
  OBVIOUS
<1>1. TypeOK'
  BY StepTypeOK DEF RightClientInv
<1>2. CASE UNCHANGED vars
  BY <1>1, <1>2, NothingNewKeepsRightClient
  DEF NothingNew, InFlight, vars, in_vars, queue_vars, map_vars, proc_vars,
      out_vars, clean_vars, env_vars
<1> QED
  BY <1>1, <1>2, ClientSideKeepsRightClient, ServerSideKeepsRightClient,
     ProcessingKeepsRightClient, CleanupKeepsRightClient DEF Next

(***************************************************************************)
(* The inductive invariant itself: requests, mappings and replies never    *)
(* lose the client they belong to, from the read (dispatcher.c:482) to the *)
(* w_buffer of the client's connection (dispatcher.c:703).                 *)
(***************************************************************************)
THEOREM RightClientInvCorrect ==
    ASSUME HandleReuse = FALSE PROVE Spec => []RightClientInv
<1> QED
  BY InitRightClientInv, StepKeepsRightClient, PTL DEF Spec

(***************************************************************************)
(* For every number of clients, handles and requests, every interleaving   *)
(* of the four threads and every failure of the connection to the server:  *)
(* if the system does not reuse the handle of a closed socket, a client    *)
(* receives answers to its own requests only, under its own invokeids, as  *)
(* long as no invokeid was generated that was still in use.                *)
(***************************************************************************)
THEOREM RightClientCorrect ==
    ASSUME HandleReuse = FALSE PROVE Spec => []RightClient
<1>1. RightClientInv => RightClient
  BY DEF RightClientInv, RightClient
<1> QED
  BY <1>1, RightClientInvCorrect, PTL

=============================================================================
