------------------------- MODULE RoutingMappingsProofs -------------------------
(***************************************************************************)
(* Proof that no mapping of Routing is left behind: MappingsBacked.        *)
(***************************************************************************)
EXTENDS RoutingOrderProofs

-----------------------------------------------------------------------------
(* The mappings. *)

\* The PDUs with a generated invokeid that are not at the server.
InMuxer ==
    Range(w_out_messages) \cup Range(r_out_messages)
        \cup ({out_w_buffer, held_out} \ {None})

BackedInMuxer(m) ==
    \/ \E p \in InMuxer : p.invokeid = m.invokeid_generated /\ p.req = m.req
    \/ pc = "send" /\ held_in.pdu.req = m.req

OnlyAfterFailure ==
    /\ do_cleanup \/ cleaning # "off" \/ out_failed \/ late_read => failures > 0
    /\ ~is_out_connection_OK /\ failures = 0 => server = {}

HandsInvariant ==
    /\ held_out # None => pc \in {"lookup", "route"}
    /\ pc = "send" => \A m \in socket_to_recv_unicast_msg :
           m.req = held_in.pdu.req => m.invokeid_generated = invokeid_gen_counter

BackedWithoutServer ==
    ~is_out_connection_OK /\ ~OutConnectionLocked /\ ~idClash =>
        \A m \in socket_to_recv_unicast_msg :
            \/ m.socket \notin connections
            \/ m.req \in Unencodable
            \/ BackedInMuxer(m)

MappingsInv ==
    /\ OnlyAfterFailure
    /\ HandsInvariant
    /\ BackedWithoutServer
    /\ MappingsBacked

-----------------------------------------------------------------------------

LEMMA InitMappingsInv == Init => MappingsInv
<1> SUFFICES ASSUME Init PROVE MappingsInv
  OBVIOUS
<1> QED
  BY DEF Init, MappingsInv, OnlyAfterFailure, HandsInvariant,
         BackedWithoutServer, MappingsBacked

\* Only a failure of the connection to the server leads to a cleanup.
LEMMA StepOnlyAfterFailure ==
    ASSUME TypeOK, OnlyAfterFailure, [Next]_vars PROVE OnlyAfterFailure'
<1> USE DEF in_vars, queue_vars, map_vars, proc_vars, out_vars, clean_vars,
            env_vars, OnlyAfterFailure
<1> DEFINE Same == UNCHANGED <<do_cleanup, cleaning, is_out_connection_OK,
                               out_failed, late_read, server, failures>>
<1>1. CASE ClientSide
  <2>1. Same
    BY <1>1
    DEF ClientSide, AcceptClient, ReadInSocket, DropClient,
        WriteDataToInBuffer, WriteInSocket, FreeInvalidMessage
  <2> QED
    BY <2>1
<1>2. CASE ServerSide
  <2>1. failures \in Nat
    BY RoutingAssumption DEF TypeOK, EnvironmentTypeOK, RoutingAssumption
  <2> QED
    BY <1>2, <2>1
    DEF ServerSide, ReadOutSocket, OutSocketFails, DetectFailure,
        WriteDataToOutBuffer, WriteOutSocket
<1>3. CASE Processing
  <2>1. CASE ConnectToOutput
    <3>1. /\ is_out_connection_OK' /\ ~out_failed' /\ ~late_read'
          /\ UNCHANGED <<do_cleanup, cleaning, failures>>
      BY <2>1 DEF ConnectToOutput
    <3> QED
      BY <3>1
  <2>2. CASE ~ConnectToOutput
    <3>1. Same
      BY <1>3, <2>2
      DEF Processing, CheckOutput, TakeOutMessage, EnterLookup, RouteReply,
          EndRoute, TakeInMessage, MapRequest, ForwardRequest
    <3> QED
      BY <3>1
  <2> QED
    BY <2>1, <2>2
<1>4. CASE Cleanup
  <2>1. failures > 0 /\ UNCHANGED <<server, failures>>
    BY <1>4
    DEF Cleanup, BeginCleanup, FreeRInMessages, FreeWInMessages,
        FreeROutMessages, FreeWOutMessages, RemoveMappingsFor,
        EndRemoveMappings, RemoveConnection, EndCleanup, Rearm
  <2>2. ~(failures' = 0) /\ failures' > 0
    BY <2>1
  <2> QED
    BY <2>2
<1>5. CASE UNCHANGED vars
  BY <1>5 DEF vars
<1> QED
  BY <1>1, <1>2, <1>3, <1>4, <1>5 DEF Next

\* The counter is the invokeid of the request in hand until it is forwarded.
LEMMA StepHandsInvariant ==
    ASSUME OrderInv, HandsInvariant, [Next]_vars PROVE HandsInvariant'
<1> USE DEF in_vars, queue_vars, map_vars, proc_vars, out_vars, clean_vars,
            env_vars, HandsInvariant
<1>1. CASE ClientSide
  BY <1>1
  DEF ClientSide, AcceptClient, ReadInSocket, DropClient, WriteDataToInBuffer,
      WriteInSocket, FreeInvalidMessage
<1>2. CASE ServerSide
  BY <1>2
  DEF ServerSide, ReadOutSocket, OutSocketFails, DetectFailure,
      WriteDataToOutBuffer, WriteOutSocket
<1>3. CASE Processing
  <2>1. CASE MapRequest
    <3>1. held_in # None /\ held_in.pdu.req \in Request
      BY <2>1, RequestsTyped DEF MapRequest, OrderInv, HeldInOrder, TypeOK,
         ProcessingTypeOK
    <3>2. \A m \in socket_to_recv_unicast_msg : m.req # held_in.pdu.req
      BY <2>1, <3>1, RequestsTyped
      DEF MapRequest, OrderInv, HeldInOrder, Precedes
    <3> QED
      BY <2>1, <3>2 DEF MapRequest
  <2> QED
    BY <1>3, <2>1
    DEF Processing, CheckOutput, ConnectToOutput, TakeOutMessage, EnterLookup,
        RouteReply, EndRoute, TakeInMessage, ForwardRequest
<1>4. CASE Cleanup
  BY <1>4
  DEF Cleanup, BeginCleanup, FreeRInMessages, FreeWInMessages,
      FreeROutMessages, FreeWOutMessages, RemoveMappingsFor,
      EndRemoveMappings, RemoveConnection, EndCleanup, Rearm
<1>5. CASE UNCHANGED vars
  BY <1>5 DEF vars
<1> QED
  BY <1>1, <1>2, <1>3, <1>4, <1>5 DEF Next

\* A step that takes no generated invokeid off the way, away from a cleanup.
NothingLost ==
    /\ InMuxer \subseteq InMuxer'
    /\ InFlight \subseteq InFlight'
    /\ socket_to_recv_unicast_msg' \subseteq socket_to_recv_unicast_msg
    /\ pc = "send" => pc' = "send" /\ held_in' = held_in
    /\ idClash' = idClash
    /\ \A m \in socket_to_recv_unicast_msg' :
           m.socket \in connections' => m.socket \in connections
    /\ OutConnectionLocked' = OutConnectionLocked
    /\ UNCHANGED <<out_failed, failures>>
    /\ ~is_out_connection_OK' => ~is_out_connection_OK

\* Such a step keeps the mappings backed.
LEMMA NothingLostKeepsMappings ==
    ASSUME BackedWithoutServer, MappingsBacked, NothingLost
    PROVE  BackedWithoutServer' /\ MappingsBacked'
<1> USE DEF NothingLost
<1>1. \A m \in socket_to_recv_unicast_msg :
          /\ Backed(m) => Backed(m)'
          /\ BackedInMuxer(m) => BackedInMuxer(m)'
  BY DEF Backed, BackedInMuxer
<1>2. BackedWithoutServer'
  BY <1>1 DEF BackedWithoutServer
<1>3. MappingsBacked'
  BY <1>1 DEF MappingsBacked
<1> QED
  BY <1>2, <1>3

\* While the cleanup thread holds csec_out_connection, every mapping may have
\* lost its request.
LEMMA LockedKeepsMappings ==
    ASSUME OnlyAfterFailure', OutConnectionLocked'
    PROVE  BackedWithoutServer' /\ MappingsBacked'
<1>1. (failures > 0)'
  BY DEF OnlyAfterFailure, OutConnectionLocked
<1> QED
  BY <1>1 DEF BackedWithoutServer, MappingsBacked

\* The steps at the clients' side lose nothing that a mapping of a connected
\* client needs; a new connection has no mappings.
LEMMA ClientSideKeepsMappings ==
    ASSUME HandleReuse = FALSE, RightClientInv, MappingsInv, ClientSide
    PROVE  BackedWithoutServer' /\ MappingsBacked'
<1> USE DEF in_vars, queue_vars, map_vars, proc_vars, out_vars, clean_vars,
            env_vars
<1>1. /\ UNCHANGED <<w_out_messages, r_out_messages, out_w_buffer, held_out,
                     server, pc, held_in, idClash, cleaning, out_failed,
                     failures, is_out_connection_OK>>
      /\ socket_to_recv_unicast_msg' \subseteq socket_to_recv_unicast_msg
  BY DEF ClientSide, AcceptClient, ReadInSocket, DropClient,
         WriteDataToInBuffer, WriteInSocket, FreeInvalidMessage
<1>2. ASSUME NEW m \in socket_to_recv_unicast_msg', m.socket \in connections'
      PROVE  m.socket \in connections
  <2>1. m \in socket_to_recv_unicast_msg
    BY <1>1
  <2>2. ASSUME NEW c \in Client, NEW s \in Socket, AcceptClient(c, s)
        PROVE  m.socket \in connections
    <3>1. owner[s] = None /\ connections' = connections \cup {s}
      BY <2>2 DEF AcceptClient
    <3>2. owner[m.socket] # None
      BY <2>1, AttributedSocketsOwned DEF RightClientInv
    <3> QED
      BY <1>2, <3>1, <3>2
  <2>3. CASE connections' \subseteq connections
    BY <1>2, <2>3
  <2> QED
    BY <2>2, <2>3
    DEF ClientSide, ReadInSocket, DropClient, WriteDataToInBuffer,
        WriteInSocket, FreeInvalidMessage
<1>3. NothingLost
  BY <1>1, <1>2 DEF NothingLost, InMuxer, InFlight, OutConnectionLocked
<1> QED
  BY <1>3, NothingLostKeepsMappings DEF MappingsInv

\* At the server's side a PDU moves, or everything at the server is lost with
\* the connection.
LEMMA ServerSideKeepsMappings ==
    ASSUME TypeOK, MappingsInv, OnlyAfterFailure', ServerSide
    PROVE  BackedWithoutServer' /\ MappingsBacked'
<1> USE DEF in_vars, queue_vars, map_vars, proc_vars, out_vars, clean_vars,
            env_vars
<1>1. UNCHANGED <<socket_to_recv_unicast_msg, connections, pc, held_in,
                  held_out, idClash, cleaning, is_out_connection_OK>>
  BY DEF ServerSide, ReadOutSocket, OutSocketFails, DetectFailure,
         WriteDataToOutBuffer, WriteOutSocket
<1>2. ASSUME NEW p \in server, ReadOutSocket(p) PROVE NothingLost
  <2>1. Range(r_out_messages') = Range(r_out_messages) \cup {p}
    BY <1>2, AppendContents
    DEF ReadOutSocket, TypeOK, QueuesTypeOK, EnvironmentTypeOK
  <2> QED
    BY <1>1, <1>2, <2>1
    DEF ReadOutSocket, NothingLost, InMuxer, InFlight, OutConnectionLocked
<1>3. CASE OutSocketFails
  <2>1. out_failed' /\ failures' > 0 /\ UNCHANGED queue_vars
        /\ UNCHANGED out_w_buffer
    BY <1>3 DEF OutSocketFails, OnlyAfterFailure
  <2>2. InMuxer' = InMuxer
    BY <1>1, <2>1 DEF InMuxer
  <2>3. BackedWithoutServer'
    BY <1>1, <2>2
    DEF MappingsInv, BackedWithoutServer, BackedInMuxer, OutConnectionLocked
  <2> QED
    BY <2>1, <2>3 DEF MappingsBacked
<1>4. CASE DetectFailure
  BY <1>1, <1>4, NothingLostKeepsMappings
  DEF DetectFailure, NothingLost, InMuxer, InFlight, OutConnectionLocked,
      MappingsInv
<1>5. CASE WriteDataToOutBuffer
  <2>1. /\ w_out_messages \in Seq(Pdu) /\ w_out_messages # <<>>
        /\ out_w_buffer' = Head(w_out_messages)
        /\ w_out_messages' = Tail(w_out_messages)
        /\ out_w_buffer = None
    BY <1>5 DEF WriteDataToOutBuffer, TypeOK, QueuesTypeOK
  <2>2. Range(w_out_messages)
            \subseteq Range(w_out_messages') \cup {out_w_buffer'}
    <3>1. \A i \in 1 .. Len(w_out_messages) :
              i = 1 \/ i \in 2 .. Len(w_out_messages)
      OBVIOUS
    <3> QED
      BY <2>1, <3>1, TakeElements
  <2>3. \A p \in Range(w_out_messages) : p # None
    BY <2>1, RangeOfSeq, RoutingAssumption DEF RoutingAssumption
  <2>4. NothingLost
    BY <1>1, <1>5, <2>1, <2>2, <2>3
    DEF WriteDataToOutBuffer, NothingLost, InMuxer, InFlight,
        OutConnectionLocked
  <2> QED
    BY <2>4, NothingLostKeepsMappings DEF MappingsInv
<1>6. CASE WriteOutSocket
  <2>1. /\ InFlight \subseteq InFlight'
        /\ UNCHANGED <<out_failed, failures>>
    BY <1>1, <1>6 DEF WriteOutSocket, InFlight
  <2>2. is_out_connection_OK'
    BY <1>6 DEF WriteOutSocket
  <2>3. MappingsBacked'
    BY <1>1, <2>1
    DEF MappingsInv, MappingsBacked, Backed, OutConnectionLocked
  <2> QED
    BY <2>2, <2>3 DEF BackedWithoutServer
<1> QED
  BY <1>2, <1>3, <1>4, <1>5, <1>6, NothingLostKeepsMappings
  DEF ServerSide, MappingsInv

\* A new connection to the server: what was at the server is lost, but only
\* after a failure, and then the requests of connected clients are elsewhere.
LEMMA ConnectToOutputKeepsMappings ==
    ASSUME TypeOK, MappingsInv, ConnectToOutput
    PROVE  BackedWithoutServer' /\ MappingsBacked'
<1> USE DEF in_vars, queue_vars, map_vars, out_vars, clean_vars, env_vars
<1>1. /\ pc = "connect" /\ pc' = "out" /\ ~is_out_connection_OK
      /\ is_out_connection_OK' /\ server' = {} /\ ~OutConnectionLocked
      /\ UNCHANGED <<w_out_messages, r_out_messages, out_w_buffer, held_out,
                     socket_to_recv_unicast_msg, connections, idClash,
                     failures>>
  BY DEF ConnectToOutput
<1>2. \A m \in socket_to_recv_unicast_msg : BackedInMuxer(m) => Backed(m)'
  BY <1>1 DEF BackedInMuxer, Backed, InMuxer, InFlight
<1>3. ASSUME NEW m \in socket_to_recv_unicast_msg, failures > 0
      PROVE  \/ Backed(m)' \/ m.req \in Unencodable \/ idClash'
             \/ failures' > 0 /\ m.socket \notin connections'
  BY <1>1, <1>2, <1>3 DEF MappingsInv, BackedWithoutServer
<1>4. ASSUME NEW m \in socket_to_recv_unicast_msg, ~(failures > 0)
      PROVE  Backed(m)' \/ m.req \in Unencodable \/ idClash'
  <2>1. server = {} \/ failures # 0
    BY <1>1 DEF MappingsInv, OnlyAfterFailure
  <2>2. Backed(m) \/ m.req \in Unencodable \/ idClash
    BY <1>4 DEF MappingsInv, MappingsBacked
  <2>3. CASE server = {}
    <3>1. Backed(m) => Backed(m)'
      BY <1>1, <2>3 DEF Backed, InFlight
    <3> QED
      BY <1>1, <2>2, <3>1
  <2>4. ~(failures # 0)
    <3>1. failures \in Nat
      BY RoutingAssumption DEF TypeOK, EnvironmentTypeOK, RoutingAssumption
    <3> QED
      BY <1>4, <3>1
  <2> QED
    BY <2>1, <2>3, <2>4
<1>5. MappingsBacked'
  BY <1>1, <1>3, <1>4 DEF MappingsBacked
<1> QED
  BY <1>1, <1>5 DEF BackedWithoutServer

\* What the processing thread does with the queues and the mappings.
LEMMA ProcessingKeepsMappings ==
    ASSUME TypeOK, MappingsInv, Processing
    PROVE  BackedWithoutServer' /\ MappingsBacked'
<1> USE DEF in_vars, queue_vars, map_vars, proc_vars, out_vars, clean_vars,
            env_vars
<1>1. CASE CheckOutput \/ EnterLookup \/ TakeInMessage
  <2>1. NothingLost
    BY <1>1
    DEF CheckOutput, EnterLookup, TakeInMessage, NothingLost, InMuxer,
        InFlight, OutConnectionLocked
  <2> QED
    BY <2>1, NothingLostKeepsMappings DEF MappingsInv
<1>2. CASE TakeOutMessage
  <2>1. held_out = None
    BY <1>2 DEF TakeOutMessage, MappingsInv, HandsInvariant
  <2>2. r_out_messages # <<>> =>
            Range(r_out_messages)
                = Range(Tail(r_out_messages)) \cup {Head(r_out_messages)}
    <3>1. r_out_messages \in Seq(Pdu)
      BY DEF TypeOK, QueuesTypeOK
    <3>2. \A i \in 1 .. Len(r_out_messages) :
              i = 1 \/ i \in 2 .. Len(r_out_messages)
      OBVIOUS
    <3> QED
      BY <3>1, <3>2, TakeElements, TakeContents
  <2>3. \A p \in Range(r_out_messages) : p # None
    BY RangeOfSeq, RoutingAssumption
    DEF RoutingAssumption, TypeOK, QueuesTypeOK
  <2>4. NothingLost
    BY <1>2, <2>1, <2>2, <2>3
    DEF TakeOutMessage, NothingLost, InMuxer, InFlight, OutConnectionLocked
  <2> QED
    BY <2>4, NothingLostKeepsMappings DEF MappingsInv
<1>3. ASSUME NEW m \in socket_to_recv_unicast_msg, RouteReply(m)
      PROVE  NothingLost
  BY <1>3 DEF RouteReply, NothingLost, InMuxer, InFlight, OutConnectionLocked
<1>4. CASE EndRoute
  <2>1. /\ pc = "route" /\ pc' = "in"
        /\ InMuxer \subseteq InMuxer' \cup {held_out}
        /\ InFlight \subseteq InFlight' \cup {held_out}
        /\ \A m \in socket_to_recv_unicast_msg :
               m.invokeid_generated # held_out.invokeid
        /\ UNCHANGED <<socket_to_recv_unicast_msg, connections, idClash,
                       cleaning, out_failed, failures, is_out_connection_OK>>
    BY <1>4 DEF EndRoute, Matching, InMuxer, InFlight
  <2>2. \A m \in socket_to_recv_unicast_msg :
            /\ BackedInMuxer(m) => BackedInMuxer(m)'
            /\ Backed(m) => Backed(m)'
    BY <2>1 DEF BackedInMuxer, Backed
  <2>3. BackedWithoutServer'
    BY <2>1, <2>2 DEF MappingsInv, BackedWithoutServer, OutConnectionLocked
  <2>4. MappingsBacked'
    BY <2>1, <2>2 DEF MappingsInv, MappingsBacked, OutConnectionLocked
  <2> QED
    BY <2>3, <2>4
<1>5. CASE MapRequest
  <2> DEFINE n == [socket |-> held_in.socket,
                   invokeid_original |-> held_in.pdu.invokeid,
                   invokeid_generated |-> generate_invokeid,
                   req |-> held_in.pdu.req]
  <2>1. /\ socket_to_recv_unicast_msg' = socket_to_recv_unicast_msg \cup {n}
        /\ pc = "map" /\ pc' = "send" /\ held_in' = held_in
        /\ InMuxer' = InMuxer /\ InFlight' = InFlight
        /\ idClash => idClash'
        /\ UNCHANGED <<connections, cleaning, out_failed, failures,
                       is_out_connection_OK>>
    BY <1>5 DEF MapRequest, InMuxer, InFlight
  <2>2. ASSUME NEW m, m = n PROVE BackedInMuxer(m)' /\ Backed(m)'
    BY <2>1, <2>2 DEF BackedInMuxer, Backed
  <2> HIDE DEF n
  <2>3. \A m \in socket_to_recv_unicast_msg :
            /\ BackedInMuxer(m) => BackedInMuxer(m)'
            /\ Backed(m) => Backed(m)'
    BY <2>1 DEF BackedInMuxer, Backed
  <2>4. \A m \in socket_to_recv_unicast_msg' :
            m = n \/ m \in socket_to_recv_unicast_msg
    BY <2>1
  <2>5. BackedWithoutServer'
    <3> SUFFICES ASSUME ~is_out_connection_OK', ~OutConnectionLocked',
                        ~idClash', NEW m \in socket_to_recv_unicast_msg'
                 PROVE  \/ m.socket \notin connections'
                        \/ m.req \in Unencodable
                        \/ BackedInMuxer(m)'
      BY DEF BackedWithoutServer
    <3>1. CASE m = n
      BY <2>2, <3>1
    <3>2. CASE m \in socket_to_recv_unicast_msg
      BY <2>1, <2>3, <3>2
      DEF MappingsInv, BackedWithoutServer, OutConnectionLocked
    <3> QED
      BY <2>4, <3>1, <3>2
  <2>6. MappingsBacked'
    <3> SUFFICES ASSUME ~idClash', NEW m \in socket_to_recv_unicast_msg'
                 PROVE  \/ Backed(m)'
                        \/ m.req \in Unencodable
                        \/ failures' > 0 /\ \/ m.socket \notin connections'
                                            \/ OutConnectionLocked'
                                            \/ out_failed'
      BY DEF MappingsBacked
    <3>1. CASE m = n
      BY <2>2, <3>1
    <3>2. CASE m \in socket_to_recv_unicast_msg
      BY <2>1, <2>3, <3>2 DEF MappingsInv, MappingsBacked, OutConnectionLocked
    <3> QED
      BY <2>4, <3>1, <3>2
  <2> QED
    BY <2>5, <2>6
<1>6. CASE ForwardRequest
  <2> DEFINE p == [held_in.pdu EXCEPT !.invokeid = invokeid_gen_counter]
  <2>1. /\ pc = "send" /\ pc' = "connect"
        /\ w_out_messages' = IF held_in.pdu.req \in Unencodable
                               THEN w_out_messages
                               ELSE Append(w_out_messages, p)
        /\ UNCHANGED <<socket_to_recv_unicast_msg, connections, idClash,
                       r_out_messages, out_w_buffer, held_out, server,
                       cleaning, out_failed, failures, is_out_connection_OK>>
    BY <1>6 DEF ForwardRequest
  <2>2. /\ p \in Pdu /\ p.req = held_in.pdu.req
        /\ p.invokeid = invokeid_gen_counter
        /\ w_out_messages \in Seq(Pdu)
    <3>1. held_in.pdu \in Pdu /\ w_out_messages \in Seq(Pdu)
      BY <2>1 DEF TypeOK, ProcessingTypeOK, QueuesTypeOK, InMessage
    <3>2. invokeid_gen_counter \in Nat
      BY RoutingAssumption DEF TypeOK, MappingsTypeOK, RoutingAssumption
    <3> QED
      BY <3>1, <3>2 DEF Pdu
  <2> HIDE DEF p
  <2>3. Range(Append(w_out_messages, p)) = Range(w_out_messages) \cup {p}
    BY <2>2, AppendContents
  <2>4. /\ InMuxer \subseteq InMuxer' /\ InFlight \subseteq InFlight'
        /\ held_in.pdu.req \notin Unencodable =>
               p \in InMuxer' /\ p \in InFlight'
    BY <2>1, <2>3 DEF InMuxer, InFlight
  <2>5. \A m \in socket_to_recv_unicast_msg :
            m.req = held_in.pdu.req =>
                m.invokeid_generated = invokeid_gen_counter
    BY <2>1 DEF MappingsInv, HandsInvariant
  <2>6. \A m \in socket_to_recv_unicast_msg :
            /\ BackedInMuxer(m) => m.req \in Unencodable \/ BackedInMuxer(m)'
            /\ Backed(m) => m.req \in Unencodable \/ Backed(m)'
    BY <2>1, <2>2, <2>4, <2>5 DEF BackedInMuxer, Backed
  <2>7. BackedWithoutServer'
    BY <2>1, <2>6 DEF MappingsInv, BackedWithoutServer, OutConnectionLocked
  <2>8. MappingsBacked'
    BY <2>1, <2>6 DEF MappingsInv, MappingsBacked, OutConnectionLocked
  <2> QED
    BY <2>7, <2>8
<1> QED
  BY <1>1, <1>2, <1>3, <1>4, <1>5, <1>6, NothingLostKeepsMappings,
     ConnectToOutputKeepsMappings
  DEF Processing, MappingsInv

\* A cleanup loses requests while it holds csec_out_connection; when it
\* releases it, no client is connected.
LEMMA CleanupKeepsMappings ==
    ASSUME MappingsInv, OnlyAfterFailure', Cleanup
    PROVE  BackedWithoutServer' /\ MappingsBacked'
<1> USE DEF in_vars, queue_vars, map_vars, proc_vars, out_vars, clean_vars,
            env_vars
<1>1. CASE EndCleanup
  <2>1. connections' = {}
    BY <1>1 DEF EndCleanup
  <2>2. failures' > 0
    BY <1>1 DEF EndCleanup, OnlyAfterFailure
  <2> QED
    BY <2>1, <2>2 DEF BackedWithoutServer, MappingsBacked
<1>2. CASE Rearm
  <2>1. NothingLost
    BY <1>2
    DEF Rearm, NothingLost, InMuxer, InFlight, OutConnectionLocked
  <2> QED
    BY <2>1, NothingLostKeepsMappings DEF MappingsInv
<1>3. CASE ~EndCleanup /\ ~Rearm
  <2>1. OutConnectionLocked'
    BY <1>3
    DEF Cleanup, BeginCleanup, FreeRInMessages, FreeWInMessages,
        FreeROutMessages, FreeWOutMessages, RemoveMappingsFor,
        EndRemoveMappings, RemoveConnection, OutConnectionLocked
  <2> QED
    BY <2>1, LockedKeepsMappings
<1> QED
  BY <1>1, <1>2, <1>3

\* Every step, stuttering included, keeps the mappings backed.
LEMMA StepMappingsInv ==
    ASSUME HandleReuse = FALSE
    PROVE  OrderInv /\ RightClientInv /\ MappingsInv /\ [Next]_vars
               => MappingsInv'
<1> SUFFICES ASSUME OrderInv, RightClientInv, MappingsInv, [Next]_vars
             PROVE  MappingsInv'
  OBVIOUS
<1>1. TypeOK
  BY DEF OrderInv
<1>2. OnlyAfterFailure' /\ HandsInvariant'
  BY <1>1, StepOnlyAfterFailure, StepHandsInvariant DEF MappingsInv
<1>3. CASE UNCHANGED vars
  <2>1. NothingLost
    BY <1>3
    DEF vars, in_vars, queue_vars, map_vars, proc_vars, out_vars, clean_vars,
        env_vars, NothingLost, InMuxer, InFlight, OutConnectionLocked
  <2> QED
    BY <1>2, <2>1, NothingLostKeepsMappings DEF MappingsInv
<1>4. CASE Next
  <2>1. BackedWithoutServer' /\ MappingsBacked'
    BY <1>1, <1>2, <1>4, ClientSideKeepsMappings, ServerSideKeepsMappings,
       ProcessingKeepsMappings, CleanupKeepsMappings
    DEF Next
  <2> QED
    BY <1>2, <2>1 DEF MappingsInv
<1> QED
  BY <1>3, <1>4

(***************************************************************************)
(* No mapping is left behind for a connected client, for any number of     *)
(* clients, requests and failures and every interleaving of the four       *)
(* threads: the entry that protocol.c:78 puts into the table has its       *)
(* request or its reply under way until protocol.c:204-210 deletes it,     *)
(* unless the request could not be encoded, an invokeid was reused, or the *)
(* connection to the server broke and is not yet cleaned up.               *)
(***************************************************************************)
THEOREM MappingsBackedCorrect ==
    ASSUME HandleReuse = FALSE PROVE Spec => []MappingsBacked
<1> DEFINE Inv == OrderInv /\ RightClientInv /\ MappingsInv
<1>1. Init => Inv
  BY InitOrderInv, InitRightClientInv, InitMappingsInv
<1>2. Inv /\ [Next]_vars => Inv'
  BY StepOrderInv, StepKeepsRightClient, StepMappingsInv
<1>3. Inv => MappingsBacked
  BY DEF MappingsInv
<1> QED
  BY <1>1, <1>2, <1>3, PTL DEF Spec

=============================================================================
