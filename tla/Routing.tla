------------------------------- MODULE Routing -------------------------------
(***************************************************************************)
(* The data path of the muxer: how a request of a client reaches the       *)
(* server under an invokeid of the muxer's own, and how the reply finds    *)
(* its way back.  It covers src/muxer/protocol.c, mapping.c, connection.c, *)
(* message.c and the data handling of dispatcher.c.                        *)
(*                                                                         *)
(* One action is one critical section (or one iteration of a loop that     *)
(* releases a lock between iterations).  The threads are                   *)
(*   comm_r   AcceptClient, ReadInSocket, DropClient, ReadOutSocket,       *)
(*            DetectFailure                                                *)
(*   process  ConnectToOutput ... ForwardRequest, sequenced by pc          *)
(*   comm_w   WriteDataToOutBuffer, WriteOutSocket, WriteDataToInBuffer,   *)
(*            WriteInSocket, FreeInvalidMessage, DropClient                *)
(*   cleanup  BeginCleanup ... Rearm, sequenced by cleaning                *)
(* The events that wake the threads and the barrier that stops them are    *)
(* left out: here a thread may take its next step at any time, also while  *)
(* the cleanup thread works, which the barrier does not exclude.           *)
(***************************************************************************)
EXTENDS Naturals, Sequences, SequencesExt

CONSTANTS
    Client,       \* the clients; a client that reconnects is another member
    Socket,       \* the values a SOCKET handle may have
    None,         \* no client, no message
    MaxInvokeid,  \* MAX_INVOKEID of generate_invokeid, 32767 in the code
    MaxRequests,  \* bound: requests a client sends
    MaxFailures,  \* bound: failures of the connection to the server
    HandleReuse,  \* may the system give a closed handle to a new connection?
    Unencodable   \* the requests that encode_in_pdu fails on

\* What the muxer forwards: the n-th request of a client.
Request == Client \X (1 .. MaxRequests)

\* A PDU is the invokeid it carries and, as its payload, the request it is
\* or answers.  The muxer never looks at the payload.
Pdu == [invokeid : Nat, req : Request]

InMessage == [socket : Socket, pdu : Pdu]

\* req is a history variable: the request the mapping was made for.
Mapping == [socket : Socket, invokeid_original : Nat,
            invokeid_generated : Nat, req : Request]

ASSUME RoutingAssumption ==
    /\ MaxInvokeid \in Nat \ {0}
    /\ MaxRequests \in Nat
    /\ MaxFailures \in Nat
    /\ HandleReuse \in BOOLEAN
    /\ Unencodable \subseteq Request
    /\ None \notin Client /\ None \notin Pdu /\ None \notin InMessage

VARIABLES
    connections,            \* the sockets in the list connections
    owner,                  \* the client at the other end of each socket
    w_buffer,               \* the PDU in the w_buffer of each connection
    r_in_messages,
    w_in_messages,          \* per socket: the order across sockets is not used
    r_out_messages,
    w_out_messages,
    out_w_buffer,           \* the PDU in out_connection.w_buffer
    socket_to_recv_unicast_msg,
    invokeid_gen_counter,
    pc,                     \* where the processing thread is
    held_in, held_out,      \* the message it works on
    is_out_connection_OK,
    out_failed,             \* out_connection.socket is broken
    late_read,              \* comm_r saw is_out_connection_OK before a cleanup
    do_cleanup,             \* h_event_do_cleanup
    cleaning,               \* where the cleanup thread is
    swept,                  \* sockets its current loop over connections did
    server,                 \* the PDUs the server has still to answer
    sent, received,         \* per client: requests sent, replies received
    failures,
    idClash                 \* has an invokeid been generated that was in use?

in_vars == <<connections, owner, w_buffer>>
queue_vars == <<r_in_messages, w_in_messages, r_out_messages, w_out_messages>>
map_vars == <<socket_to_recv_unicast_msg, invokeid_gen_counter, idClash>>
proc_vars == <<pc, held_in, held_out>>
out_vars == <<is_out_connection_OK, out_failed, late_read, out_w_buffer>>
clean_vars == <<do_cleanup, cleaning, swept>>
env_vars == <<server, sent, received, failures>>
vars == <<in_vars, queue_vars, map_vars, proc_vars, out_vars, clean_vars,
          env_vars>>

Pc == {"connect", "out", "lookup", "route", "in", "map", "send"}

Cleaning == {"off", "r_in", "w_in", "r_out", "w_out", "mappings",
             "connections", "rearm"}

ClientSideTypeOK ==
    /\ connections \subseteq Socket
    /\ owner \in [Socket -> Client \cup {None}]
    /\ w_buffer \in [Socket -> Pdu \cup {None}]
    /\ \A s \in connections : owner[s] # None

QueuesTypeOK ==
    /\ r_in_messages \in Seq(InMessage)
    /\ w_in_messages \in [Socket -> Seq(Pdu)]
    /\ r_out_messages \in Seq(Pdu)
    /\ w_out_messages \in Seq(Pdu)

MappingsTypeOK ==
    /\ socket_to_recv_unicast_msg \subseteq Mapping
    /\ invokeid_gen_counter \in 0 .. MaxInvokeid
    /\ idClash \in BOOLEAN

ProcessingTypeOK ==
    /\ pc \in Pc
    /\ held_in \in InMessage \cup {None}
    /\ held_out \in Pdu \cup {None}
    /\ pc \in {"map", "send"} => held_in # None
    /\ pc \in {"lookup", "route"} => held_out # None

OutConnectionTypeOK ==
    /\ is_out_connection_OK \in BOOLEAN
    /\ out_failed \in BOOLEAN
    /\ late_read \in BOOLEAN
    /\ out_w_buffer \in Pdu \cup {None}

CleanupTypeOK ==
    /\ do_cleanup \in BOOLEAN
    /\ cleaning \in Cleaning
    /\ swept \subseteq Socket

EnvironmentTypeOK ==
    /\ server \subseteq Pdu
    /\ sent \in [Client -> 0 .. MaxRequests]
    /\ received \in [Client -> Seq(Pdu)]
    /\ failures \in 0 .. MaxFailures

TypeOK ==
    /\ ClientSideTypeOK
    /\ QueuesTypeOK
    /\ MappingsTypeOK
    /\ ProcessingTypeOK
    /\ OutConnectionTypeOK
    /\ CleanupTypeOK
    /\ EnvironmentTypeOK

Init ==
    /\ connections = {}
    /\ owner = [s \in Socket |-> None]
    /\ w_buffer = [s \in Socket |-> None]
    /\ r_in_messages = <<>>
    /\ w_in_messages = [s \in Socket |-> <<>>]
    /\ r_out_messages = <<>>
    /\ w_out_messages = <<>>
    /\ out_w_buffer = None
    /\ socket_to_recv_unicast_msg = {}
    /\ invokeid_gen_counter = 0
    /\ pc = "connect"
    /\ held_in = None
    /\ held_out = None
    /\ is_out_connection_OK = FALSE
    /\ out_failed = FALSE
    /\ late_read = FALSE
    /\ do_cleanup = FALSE
    /\ cleaning = "off"
    /\ swept = {}
    /\ server = {}
    /\ sent = [c \in Client |-> 0]
    /\ received = [c \in Client |-> <<>>]
    /\ failures = 0
    /\ idClash = FALSE

(***************************************************************************)
(* Locks that are held from one action to another.  All others are taken   *)
(* and released within one action.                                         *)
(***************************************************************************)

\* csec_out_connection: cleanup() holds it from its first to its last line.
OutConnectionLocked == cleaning \notin {"off", "rearm"}

\* csec_connections: held by the loops of remove_all_mappings and
\* remove_all_connections from their first iteration to their last.
ConnectionsLocked == swept # {}

\* csec_socket_to_recv_unicast_msg: held while a reply is being routed.
MappingsLocked == pc = "route"

MappingsFor(s) ==
    {m \in socket_to_recv_unicast_msg : m.socket = s}

(***************************************************************************)
(* comm_r and comm_w: the client side.                                     *)
(***************************************************************************)

\* read_listener_socket: client c connects and is given handle s.
AcceptClient(c, s) ==
    /\ ~ConnectionsLocked
    /\ s \notin connections
    /\ \A t \in Socket : owner[t] # c
    /\ sent[c] = 0
    /\ HandleReuse \/ owner[s] = None
    /\ connections' = connections \cup {s}
    /\ owner' = [owner EXCEPT ![s] = c]
    /\ w_buffer' = [w_buffer EXCEPT ![s] = None]
    /\ UNCHANGED <<queue_vars, map_vars, proc_vars, out_vars, clean_vars,
                   env_vars>>

\* read_in_socket, read_data_from_in_buffer: one PDU arrives at socket s.
\* Clients number their requests independently, so invokeids collide.
ReadInSocket(s) ==
    LET c == owner[s]
        n == sent[c] + 1
    IN  /\ ~ConnectionsLocked
        /\ s \in connections
        /\ sent[c] < MaxRequests
        /\ sent' = [sent EXCEPT ![c] = n]
        /\ r_in_messages' = Append(r_in_messages,
               [socket |-> s, pdu |-> [invokeid |-> n, req |-> <<c, n>>]])
        /\ UNCHANGED <<in_vars, w_in_messages, r_out_messages, w_out_messages,
                       map_vars, proc_vars, out_vars, clean_vars, server,
                       received, failures>>

\* shutdown_connection and remove_connection, when a read (read_in_socket) or
\* a write (write_in_socket) fails or the client closed the connection.
DropClient(s) ==
    /\ ~ConnectionsLocked /\ ~MappingsLocked
    /\ s \in connections
    /\ connections' = connections \ {s}
    /\ w_buffer' = [w_buffer EXCEPT ![s] = None]
    /\ socket_to_recv_unicast_msg' =
           socket_to_recv_unicast_msg \ MappingsFor(s)
    /\ UNCHANGED <<owner, queue_vars, invokeid_gen_counter, idClash, proc_vars,
                   out_vars, clean_vars, env_vars>>

\* Fault: the message is copied but not taken out of w_in_messages.
WriteDataToInBufferKeepsMessage(s) ==
    /\ ~ConnectionsLocked
    /\ s \in connections
    /\ w_buffer[s] = None
    /\ w_in_messages[s] # <<>>
    /\ w_buffer' = [w_buffer EXCEPT ![s] = Head(w_in_messages[s])]
    /\ UNCHANGED <<connections, owner, queue_vars, map_vars, proc_vars,
                   out_vars, clean_vars, env_vars>>

\* write_data_to_in_buffer, for the connection with socket s: the first
\* message for s moves into the empty w_buffer.
WriteDataToInBuffer(s) ==
    /\ ~ConnectionsLocked
    /\ s \in connections
    /\ w_buffer[s] = None
    /\ w_in_messages[s] # <<>>
    /\ w_buffer' = [w_buffer EXCEPT ![s] = Head(w_in_messages[s])]
    /\ w_in_messages' = [w_in_messages EXCEPT ![s] = Tail(w_in_messages[s])]
    /\ UNCHANGED <<connections, owner, r_in_messages, r_out_messages,
                   w_out_messages, map_vars, proc_vars, out_vars, clean_vars,
                   env_vars>>

\* write_in_socket, write_data: the w_buffer goes out to the client.
WriteInSocket(s) ==
    /\ ~ConnectionsLocked
    /\ s \in connections
    /\ w_buffer[s] # None
    /\ w_buffer' = [w_buffer EXCEPT ![s] = None]
    /\ received' = [received EXCEPT ![owner[s]] = Append(@, w_buffer[s])]
    /\ UNCHANGED <<connections, owner, queue_vars, map_vars, proc_vars,
                   out_vars, clean_vars, server, sent, failures>>

\* free_w_in_messages_mapped_to_invalid_sockets, every 1000th iteration of
\* comm_w: the check and the release of one message.  csec_connections is
\* released between two messages, so a connection may come or go between them.
FreeInvalidMessage(s) ==
    /\ ~ConnectionsLocked
    /\ s \notin connections
    /\ \E i \in 1 .. Len(w_in_messages[s]) :
           w_in_messages' = [w_in_messages EXCEPT ![s] = RemoveAt(@, i)]
    /\ UNCHANGED <<in_vars, r_in_messages, r_out_messages, w_out_messages,
                   map_vars, proc_vars, out_vars, clean_vars, env_vars>>

(***************************************************************************)
(* comm_r and comm_w: the server side.                                     *)
(***************************************************************************)

\* read_out_socket, read_data_from_out_buffer: the reply to PDU p arrives.
\* is_out_connection_OK is read before csec_out_connection is entered, so
\* comm_r may still read once from the old socket after a cleanup.
ReadOutSocket(p) ==
    /\ ~OutConnectionLocked
    /\ is_out_connection_OK \/ late_read
    /\ ~out_failed
    /\ p \in server
    /\ server' = server \ {p}
    /\ r_out_messages' = Append(r_out_messages, p)
    /\ UNCHANGED <<in_vars, r_in_messages, w_in_messages, w_out_messages,
                   map_vars, proc_vars, out_vars, clean_vars, sent, received,
                   failures>>

\* The connection to the server breaks; what the server had still to answer
\* is lost.
OutSocketFails ==
    /\ is_out_connection_OK \/ late_read
    /\ ~out_failed
    /\ failures < MaxFailures
    /\ out_failed' = TRUE
    /\ failures' = failures + 1
    /\ server' = {}
    /\ UNCHANGED <<in_vars, queue_vars, map_vars, proc_vars,
                   is_out_connection_OK, late_read, out_w_buffer, clean_vars,
                   sent, received>>

\* read_out_socket or write_out_socket sees the error and asks for a cleanup.
DetectFailure ==
    /\ ~OutConnectionLocked
    /\ is_out_connection_OK \/ late_read
    /\ out_failed
    /\ do_cleanup' = TRUE
    /\ UNCHANGED <<in_vars, queue_vars, map_vars, proc_vars, out_vars,
                   cleaning, swept, env_vars>>

\* Fault: a PDU that is still in the w_buffer is overwritten.
WriteDataToOutBufferOverwrites ==
    /\ ~OutConnectionLocked
    /\ w_out_messages # <<>>
    /\ out_w_buffer' = Head(w_out_messages)
    /\ w_out_messages' = Tail(w_out_messages)
    /\ UNCHANGED <<in_vars, r_in_messages, w_in_messages, r_out_messages,
                   map_vars, proc_vars, is_out_connection_OK, out_failed,
                   late_read, clean_vars, env_vars>>

\* write_data_to_out_buffer; is_out_connection_OK is not looked at.
WriteDataToOutBuffer ==
    /\ ~OutConnectionLocked
    /\ out_w_buffer = None
    /\ w_out_messages # <<>>
    /\ out_w_buffer' = Head(w_out_messages)
    /\ w_out_messages' = Tail(w_out_messages)
    /\ UNCHANGED <<in_vars, r_in_messages, w_in_messages, r_out_messages,
                   map_vars, proc_vars, is_out_connection_OK, out_failed,
                   late_read, clean_vars, env_vars>>

\* write_out_socket, write_data: the PDU goes out to the server.
WriteOutSocket ==
    /\ ~OutConnectionLocked
    /\ is_out_connection_OK
    /\ ~out_failed
    /\ out_w_buffer # None
    /\ server' = server \cup {out_w_buffer}
    /\ out_w_buffer' = None
    /\ UNCHANGED <<in_vars, queue_vars, map_vars, proc_vars,
                   is_out_connection_OK, out_failed, late_read, clean_vars,
                   sent, received, failures>>

(***************************************************************************)
(* The processing thread: process_data, over and over.                     *)
(***************************************************************************)

\* process_data, when the connection is up.
CheckOutput ==
    /\ pc = "connect"
    /\ ~OutConnectionLocked
    /\ is_out_connection_OK
    /\ pc' = "out"
    /\ UNCHANGED <<in_vars, queue_vars, map_vars, held_in, held_out, out_vars,
                   clean_vars, env_vars>>

\* process_data and connect_to_output; a failed attempt changes nothing.
\* The new socket replaces the old one, and with it goes what the server had
\* still to send there.  out_connection.w_buffer is kept.
ConnectToOutput ==
    /\ pc = "connect"
    /\ ~OutConnectionLocked
    /\ ~is_out_connection_OK
    /\ is_out_connection_OK' = TRUE
    /\ out_failed' = FALSE
    /\ late_read' = FALSE
    /\ server' = {}
    /\ pc' = "out"
    /\ UNCHANGED <<in_vars, queue_vars, map_vars, held_in, held_out,
                   out_w_buffer, clean_vars, sent, received, failures>>

\* process_incoming_out_messages up to the decoding.
TakeOutMessage ==
    /\ pc = "out"
    /\ IF r_out_messages = <<>>
         THEN /\ pc' = "in"
              /\ UNCHANGED <<held_out, r_out_messages>>
         ELSE /\ pc' = "lookup"
              /\ held_out' = Head(r_out_messages)
              /\ r_out_messages' = Tail(r_out_messages)
    /\ UNCHANGED <<in_vars, r_in_messages, w_in_messages, w_out_messages,
                   map_vars, held_in, out_vars, clean_vars, env_vars>>

\* process_incoming_out_messages enters csec_socket_to_recv_unicast_msg.
EnterLookup ==
    /\ pc = "lookup"
    /\ pc' = "route"
    /\ UNCHANGED <<in_vars, queue_vars, map_vars, held_in, held_out, out_vars,
                   clean_vars, env_vars>>

\* Fault: the invokeid of the reply is not compared.
MatchingAny == socket_to_recv_unicast_msg

\* The mappings that the reply in hand matches.
Matching ==
    {m \in socket_to_recv_unicast_msg :
        m.invokeid_generated = held_out.invokeid}

\* Fault: the reply goes out under the generated invokeid.
RouteReplyGenerated(m) ==
    /\ pc = "route"
    /\ m \in Matching
    /\ w_in_messages' = [w_in_messages EXCEPT ![m.socket] =
           Append(@, held_out)]
    /\ socket_to_recv_unicast_msg' = socket_to_recv_unicast_msg \ {m}
    /\ UNCHANGED <<in_vars, r_in_messages, r_out_messages, w_out_messages,
                   invokeid_gen_counter, idClash, proc_vars, out_vars,
                   clean_vars, env_vars>>

\* One iteration of its loop: the reply, with the original invokeid, is put
\* into w_in_messages, and the mapping is deleted.
RouteReply(m) ==
    /\ pc = "route"
    /\ m \in Matching
    /\ w_in_messages' = [w_in_messages EXCEPT ![m.socket] =
           Append(@, [held_out EXCEPT !.invokeid = m.invokeid_original])]
    /\ socket_to_recv_unicast_msg' = socket_to_recv_unicast_msg \ {m}
    /\ UNCHANGED <<in_vars, r_in_messages, r_out_messages, w_out_messages,
                   invokeid_gen_counter, idClash, proc_vars, out_vars,
                   clean_vars, env_vars>>

\* The loop is done; a reply that matched nothing is dropped.
EndRoute ==
    /\ pc = "route"
    /\ Matching = {}
    /\ pc' = "in"
    /\ held_out' = None
    /\ UNCHANGED <<in_vars, queue_vars, map_vars, held_in, out_vars,
                   clean_vars, env_vars>>

\* process_incoming_in_messages up to the decoding.
TakeInMessage ==
    /\ pc = "in"
    /\ IF r_in_messages = <<>>
         THEN /\ pc' = "connect"
              /\ UNCHANGED <<held_in, r_in_messages>>
         ELSE /\ pc' = "map"
              /\ held_in' = Head(r_in_messages)
              /\ r_in_messages' = Tail(r_in_messages)
    /\ UNCHANGED <<in_vars, w_in_messages, r_out_messages, w_out_messages,
                   map_vars, held_out, out_vars, clean_vars, env_vars>>

\* Fault: the counter does not wrap round.
generate_invokeid_unbounded == invokeid_gen_counter + 1

generate_invokeid == (invokeid_gen_counter % MaxInvokeid) + 1

\* The PDUs that carry a generated invokeid: on the way to the server, at the
\* server, and on the way back.
InFlight ==
    server \cup Range(w_out_messages) \cup Range(r_out_messages)
        \cup ({out_w_buffer, held_out} \ {None})

\* Is id still the invokeid of a PDU or of a request of a connected client?
InUse(id) ==
    \/ \E p \in InFlight : p.invokeid = id
    \/ \E m \in socket_to_recv_unicast_msg :
           m.invokeid_generated = id /\ m.socket \in connections

\* put_into_socket_to_recv_unicast_msg.  Nobody checks that the client is
\* still connected, nor that the invokeid is free.
MapRequest ==
    /\ pc = "map"
    /\ invokeid_gen_counter' = generate_invokeid
    /\ socket_to_recv_unicast_msg' = socket_to_recv_unicast_msg \cup
           {[socket |-> held_in.socket,
             invokeid_original |-> held_in.pdu.invokeid,
             invokeid_generated |-> generate_invokeid,
             req |-> held_in.pdu.req]}
    /\ idClash' = (idClash \/ InUse(generate_invokeid))
    /\ pc' = "send"
    /\ UNCHANGED <<in_vars, queue_vars, held_in, held_out, out_vars,
                   clean_vars, env_vars>>

\* Fault: the request is put at the head of w_out_messages.
ForwardRequestAtHead ==
    /\ pc = "send"
    /\ w_out_messages' =
           IF held_in.pdu.req \in Unencodable THEN w_out_messages
           ELSE <<[held_in.pdu EXCEPT !.invokeid = invokeid_gen_counter]>>
                  \o w_out_messages
    /\ held_in' = None
    /\ pc' = "connect"
    /\ UNCHANGED <<in_vars, r_in_messages, w_in_messages, r_out_messages,
                   map_vars, held_out, out_vars, clean_vars, env_vars>>

\* The rest of process_incoming_in_messages.  The invokeid is read from the
\* counter; when the PDU cannot be encoded the mapping stays.
ForwardRequest ==
    /\ pc = "send"
    /\ w_out_messages' =
           IF held_in.pdu.req \in Unencodable THEN w_out_messages
           ELSE Append(w_out_messages,
                  [held_in.pdu EXCEPT !.invokeid = invokeid_gen_counter])
    /\ held_in' = None
    /\ pc' = "connect"
    /\ UNCHANGED <<in_vars, r_in_messages, w_in_messages, r_out_messages,
                   map_vars, held_out, out_vars, clean_vars, env_vars>>

(***************************************************************************)
(* The cleanup thread.                                                     *)
(***************************************************************************)

\* thread_cleanup enters cleanup().  comm_r may just have found
\* is_out_connection_OK true and be waiting for csec_out_connection.
BeginCleanup ==
    /\ cleaning = "off"
    /\ do_cleanup
    /\ cleaning' = "r_in"
    /\ late_read' \in {is_out_connection_OK, FALSE}
    /\ is_out_connection_OK' = FALSE
    /\ out_w_buffer' = None
    /\ UNCHANGED <<in_vars, queue_vars, map_vars, proc_vars, out_failed,
                   do_cleanup, swept, env_vars>>

\* remove_all_messages: free_r_in_messages, then w_in, r_out and w_out.
FreeRInMessages ==
    /\ cleaning = "r_in"
    /\ cleaning' = "w_in"
    /\ r_in_messages' = <<>>
    /\ UNCHANGED <<in_vars, w_in_messages, r_out_messages, w_out_messages,
                   map_vars, proc_vars, out_vars, do_cleanup, swept, env_vars>>

FreeWInMessages ==
    /\ cleaning = "w_in"
    /\ cleaning' = "r_out"
    /\ w_in_messages' = [s \in Socket |-> <<>>]
    /\ UNCHANGED <<in_vars, r_in_messages, r_out_messages, w_out_messages,
                   map_vars, proc_vars, out_vars, do_cleanup, swept, env_vars>>

FreeROutMessages ==
    /\ cleaning = "r_out"
    /\ cleaning' = "w_out"
    /\ r_out_messages' = <<>>
    /\ UNCHANGED <<in_vars, r_in_messages, w_in_messages, w_out_messages,
                   map_vars, proc_vars, out_vars, do_cleanup, swept, env_vars>>

FreeWOutMessages ==
    /\ cleaning = "w_out"
    /\ cleaning' = "mappings"
    /\ w_out_messages' = <<>>
    /\ UNCHANGED <<in_vars, r_in_messages, w_in_messages, r_out_messages,
                   map_vars, proc_vars, out_vars, do_cleanup, swept, env_vars>>

\* remove_all_mappings: one iteration, remove_all_mappings_for(s) ...
RemoveMappingsFor(s) ==
    /\ cleaning = "mappings"
    /\ ~MappingsLocked
    /\ s \in connections \ swept
    /\ swept' = swept \cup {s}
    /\ socket_to_recv_unicast_msg' =
           socket_to_recv_unicast_msg \ MappingsFor(s)
    /\ UNCHANGED <<in_vars, queue_vars, invokeid_gen_counter, idClash,
                   proc_vars, out_vars, do_cleanup, cleaning, env_vars>>

\* Fault: cleanup() does not call remove_all_connections.
EndRemoveMappingsEndsCleanup ==
    /\ cleaning = "mappings"
    /\ connections \subseteq swept
    /\ swept' = {}
    /\ cleaning' = "rearm"
    /\ UNCHANGED <<in_vars, queue_vars, map_vars, proc_vars, out_vars,
                   do_cleanup, env_vars>>

\* ... and the end of its loop, which releases csec_connections.
EndRemoveMappings ==
    /\ cleaning = "mappings"
    /\ connections \subseteq swept
    /\ swept' = {}
    /\ cleaning' = "connections"
    /\ UNCHANGED <<in_vars, queue_vars, map_vars, proc_vars, out_vars,
                   do_cleanup, env_vars>>

\* remove_all_connections: one iteration, shutdown_connection and
\* remove_connection ...
RemoveConnection(s) ==
    /\ cleaning = "connections"
    /\ ~MappingsLocked
    /\ s \in connections
    /\ swept' = swept \cup {s}
    /\ connections' = connections \ {s}
    /\ w_buffer' = [w_buffer EXCEPT ![s] = None]
    /\ socket_to_recv_unicast_msg' =
           socket_to_recv_unicast_msg \ MappingsFor(s)
    /\ UNCHANGED <<owner, queue_vars, invokeid_gen_counter, idClash, proc_vars,
                   out_vars, do_cleanup, cleaning, env_vars>>

\* ... and the end of its loop and of cleanup(), which releases
\* csec_connections and csec_out_connection.
EndCleanup ==
    /\ cleaning = "connections"
    /\ connections = {}
    /\ swept' = {}
    /\ cleaning' = "rearm"
    /\ UNCHANGED <<in_vars, queue_vars, map_vars, proc_vars, out_vars,
                   do_cleanup, env_vars>>

\* thread_cleanup resets h_event_do_cleanup, also when it was set meanwhile.
Rearm ==
    /\ cleaning = "rearm"
    /\ cleaning' = "off"
    /\ do_cleanup' = FALSE
    /\ UNCHANGED <<in_vars, queue_vars, map_vars, proc_vars, out_vars, swept,
                   env_vars>>

-----------------------------------------------------------------------------

ClientSide ==
    \/ \E c \in Client, s \in Socket : AcceptClient(c, s)
    \/ \E s \in Socket : \/ ReadInSocket(s)
                         \/ DropClient(s)
                         \/ WriteDataToInBuffer(s)
                         \/ WriteInSocket(s)
                         \/ FreeInvalidMessage(s)

ServerSide ==
    \/ \E p \in server : ReadOutSocket(p)
    \/ OutSocketFails
    \/ DetectFailure
    \/ WriteDataToOutBuffer
    \/ WriteOutSocket

Processing ==
    \/ CheckOutput
    \/ ConnectToOutput
    \/ TakeOutMessage
    \/ EnterLookup
    \/ \E m \in socket_to_recv_unicast_msg : RouteReply(m)
    \/ EndRoute
    \/ TakeInMessage
    \/ MapRequest
    \/ ForwardRequest

Cleanup ==
    \/ BeginCleanup
    \/ FreeRInMessages
    \/ FreeWInMessages
    \/ FreeROutMessages
    \/ FreeWOutMessages
    \/ \E s \in Socket : RemoveMappingsFor(s)
    \/ EndRemoveMappings
    \/ \E s \in Socket : RemoveConnection(s)
    \/ EndCleanup
    \/ Rearm

Next == ClientSide \/ ServerSide \/ Processing \/ Cleanup

Spec == Init /\ [][Next]_vars

\* A round of comm_w that ends with a message in one of its queues sets
\* h_event_new_message for a further one (dispatcher.c:914).  Bytes that are
\* left in a buffer alone do not.
CommWGoesOn == w_out_messages # <<>> \/ \E s \in Socket : w_in_messages[s] # <<>>

(***************************************************************************)
(* The threads run, the server answers and the clients read what they are  *)
(* sent; no client has to connect, to send or to go, and nothing has to    *)
(* fail.  comm_w writes only in its rounds: what a round puts into a       *)
(* buffer and cannot send has to go out only as long as there are further  *)
(* rounds.                                                                 *)
(***************************************************************************)
Fairness ==
    /\ WF_vars(Processing)
    /\ WF_vars(Cleanup)
    /\ WF_vars(DetectFailure)
    /\ \A p \in [invokeid : 1 .. MaxInvokeid, req : Request] :
           WF_vars(ReadOutSocket(p))
    /\ WF_vars(WriteDataToOutBuffer)
    /\ WF_vars(CommWGoesOn /\ WriteOutSocket)
    /\ \A s \in Socket : /\ WF_vars(WriteDataToInBuffer(s))
                         /\ WF_vars(CommWGoesOn /\ WriteInSocket(s))

FairSpec == Spec /\ Fairness

-----------------------------------------------------------------------------

\* p is an answer to one of c's own requests, under the invokeid c chose.
IsReplyTo(p, c) == p.req[1] = c /\ p.invokeid = p.req[2]

(***************************************************************************)
(* A client only ever receives answers to its own requests, under its own  *)
(* invokeids: the loop over socket_to_recv_unicast_msg (protocol.c:177)    *)
(* picks the right client whatever clients came, went or were cleaned up   *)
(* in between, as long as generate_invokeid (protocol.c:115) did not wrap  *)
(* round to an invokeid that was still in use.                             *)
(***************************************************************************)
RightClient ==
    idClash \/ \A c \in Client : \A i \in 1 .. Len(received[c]) :
                   IsReplyTo(received[c][i], c)

\* What RightClient rests on.  Requests are taken in, held and mapped with
\* the socket of the client that sent them.
RequestsAttributed ==
    /\ \A q \in Range(r_in_messages) : IsReplyTo(q.pdu, owner[q.socket])
    /\ held_in # None => IsReplyTo(held_in.pdu, owner[held_in.socket])
    /\ \A m \in socket_to_recv_unicast_msg :
           owner[m.socket] = m.req[1] /\ m.invokeid_original = m.req[2]

\* A generated invokeid stands for one request of a connected client.
InvokeidsDistinct ==
    /\ \A m \in socket_to_recv_unicast_msg : \A p \in InFlight :
           m.socket \in connections /\ m.invokeid_generated = p.invokeid
               => m.req = p.req
    /\ pc = "send" => \A m \in socket_to_recv_unicast_msg :
           m.socket \in connections
             /\ m.invokeid_generated = invokeid_gen_counter
               => m.req = held_in.pdu.req

\* What waits for a connected client is an answer to that client.
RepliesAttributed ==
    \A s \in connections :
        /\ w_buffer[s] # None => IsReplyTo(w_buffer[s], owner[s])
        /\ \A p \in Range(w_in_messages[s]) : IsReplyTo(p, owner[s])

\* Nothing waits for a handle that was never given out.
UnusedHandlesEmpty ==
    \A s \in Socket : owner[s] = None => w_in_messages[s] = <<>>

(***************************************************************************)
(* The inductive strengthening of RightClient: from the moment a request   *)
(* is read from a socket (dispatcher.c:482) to the moment its reply is put *)
(* into the w_buffer of that socket's connection (dispatcher.c:703), the   *)
(* muxer never loses track of whose it is.                                 *)
(***************************************************************************)
RightClientInv ==
    /\ TypeOK
    /\ RequestsAttributed
    /\ UnusedHandlesEmpty
    /\ idClash \/ (InvokeidsDistinct /\ RepliesAttributed /\ RightClient)

(***************************************************************************)
(* README.md:4 says that the muxer connects clients to the server          *)
(* "transparently", and protocol.c:174 that a reply is put into            *)
(* w_in_messages "of the socket mapped to invokeid": a client receives     *)
(* nothing but answers to its own requests.  It does not hold when the     *)
(* handle of a closed socket is given to a new connection.                 *)
(***************************************************************************)
Transparent ==
    \A c \in Client : \A i \in 1 .. Len(received[c]) :
        IsReplyTo(received[c][i], c)

(***************************************************************************)
(* A client receives no more replies than it sent requests, invokeid       *)
(* clashes included: a mapping is used once (protocol.c:204-210), and no   *)
(* reply is duplicated between w_in_messages and the w_buffer.             *)
(***************************************************************************)
NoExtraReplies ==
    \A c \in Client : Len(received[c]) <= sent[c]

\* The mapping m has its request on the way to the server or its reply on the
\* way back.
Backed(m) ==
    \/ \E p \in InFlight :
           p.invokeid = m.invokeid_generated /\ p.req = m.req
    \/ pc = "send" /\ held_in.pdu.req = m.req

(***************************************************************************)
(* No mapping is left behind for a connected client: each one still has a  *)
(* request or a reply under way that will remove it, unless the request    *)
(* could not be encoded (protocol.c:86-98 returns without removing the     *)
(* mapping), an invokeid was reused, or the connection to the server broke *)
(* and is not yet cleaned up.  Mappings of departed clients may outlive    *)
(* their requests only after such a failure.                               *)
(***************************************************************************)
MappingsBacked ==
    \A m \in socket_to_recv_unicast_msg :
        \/ Backed(m)
        \/ m.req \in Unencodable
        \/ idClash
        \/ failures > 0 /\ \/ m.socket \notin connections
                           \/ OutConnectionLocked
                           \/ out_failed

Buffered(p) == IF p = None THEN <<>> ELSE <<p>>

\* The requests the muxer has taken in and not yet sent, the oldest first.
Pipeline ==
    Buffered(out_w_buffer) \o w_out_messages
        \o (IF held_in = None THEN <<>> ELSE <<held_in.pdu>>)
        \o [i \in DOMAIN r_in_messages |-> r_in_messages[i].pdu]

(***************************************************************************)
(* The requests of one client leave the muxer in the order they came in:   *)
(* r_in_messages, the message in hand, w_out_messages and the w_buffer     *)
(* are one FIFO.                                                           *)
(***************************************************************************)
RequestsStayInOrder ==
    \A i, j \in 1 .. Len(Pipeline) :
        i < j /\ Pipeline[i].req[1] = Pipeline[j].req[1]
            => Pipeline[i].req[2] < Pipeline[j].req[2]

(***************************************************************************)
(* In the end every request read from a client is answered or its client   *)
(* is disconnected.  A failure of the connection to the server is no       *)
(* excuse: h_event_do_cleanup may be reset after a new failure has set it  *)
(* (dispatcher.c:265-267), requests may slip past cleanup(), and still no  *)
(* client waits forever on an open connection.  There are two exceptions:  *)
(* an invokeid was reused, or the request or its reply is left in a buffer *)
(* of comm_w, which does not go round again for it alone                   *)
(* (dispatcher.c:890, 914).                                                *)
(***************************************************************************)
Answered(c, n) ==
    \E i \in 1 .. Len(received[c]) : received[c][i].req = <<c, n>>

Excused(c) ==
    \/ \A s \in connections : owner[s] # c
    \/ idClash

LeftInBuffer(c, n) ==
    /\ ~CommWGoesOn
    /\ \E p \in {out_w_buffer} \cup {w_buffer[s] : s \in connections} :
           p # None /\ p.req = <<c, n>>

RequestAnswered ==
    \A c \in Client : \A n \in 1 .. MaxRequests :
        <>[](sent[c] >= n =>
                 Answered(c, n) \/ Excused(c) \/ LeftInBuffer(c, n))

(***************************************************************************)
(* What the clients are promised (MuxService), in terms of the muxer: a    *)
(* request is pending from the read that takes it in (dispatcher.c:482) to *)
(* the write of its reply (dispatcher.c:836), as long as it is in a queue, *)
(* in a buffer, in the hands of the processing thread or at the server.    *)
(***************************************************************************)
\* The reply in hand still has to be routed.
InHand ==
    IF \/ pc = "lookup"
       \/ pc = "route" /\ \E m \in Matching : m.req = held_out.req
      THEN {held_out} ELSE {}

Pending ==
    {p.req : p \in Range(Pipeline) \cup server \cup Range(r_out_messages)
                      \cup InHand
                      \cup (UNION {Range(w_in_messages[s]) : s \in connections})
                      \cup ({w_buffer[s] : s \in connections} \ {None})}

Mux == INSTANCE MuxService WITH
    connected <- {owner[s] : s \in connections},
    asked <- sent,
    pending <- IF idClash THEN {} ELSE Pending,
    broken <- out_failed \/ do_cleanup \/ cleaning # "off",
    clash <- idClash

(***************************************************************************)
(* The threads, queues, mappings and the cleanup together keep the         *)
(* promise: a connected client is answered at most once per request, and   *)
(* no request of a connected client disappears, except with a failure      *)
(* whose cleanup disconnects that client before it ends                    *)
(* (dispatcher.c:233-247).                                                 *)
(***************************************************************************)
ImplementsMuxService == Mux!Spec
=============================================================================
