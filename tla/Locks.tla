-------------------------------- MODULE Locks --------------------------------
(***************************************************************************)
(* The critical sections of src/muxer and how the threads nest them.  A    *)
(* procedure is the sequence of its EnterCriticalSection and               *)
(* LeaveCriticalSection calls.  A loop whose body is a nested section is   *)
(* there with one or two rounds: between two rounds a procedure holds what *)
(* it held before the first.  A procedure that may or may not enter a      *)
(* nested section is there once for each of the two.                       *)
(*                                                                         *)
(* A thread that is in no procedure holds nothing; in which order it calls *)
(* them (module Dispatcher) makes no difference here.  csec_app_state is   *)
(* left out: only the Ctrl-C handler enters it.                            *)
(***************************************************************************)
EXTENDS Naturals, Sequences

VARIABLES
    procedure,  \* the name of the procedure that each thread is in, or "none"
    calls,      \* the calls that it has still to make
    owner       \* of each critical section, the thread that is in it

vars == <<procedure, calls, owner>>

Thread == {"process", "comm_r", "comm_w", "cleanup"}

Lock == {"out_connection", "connections", "r_in_messages", "w_in_messages",
         "r_out_messages", "w_out_messages", "socket_to_recv_unicast_msg",
         "socket_to_recv_multicast_msg"}

\* The calls of a section that nests body.
Section(l, body) == <<<<"enter", l>>>> \o body \o <<<<"leave", l>>>>

\* process_data and connect_to_output, write_out_socket, the end of
\* thread_comm_write.
out_connection == Section("out_connection", <<>>)

\* setup_r_fd_set, setup_w_fd_set, read_listener_socket, and the loops of
\* read_in_socket and write_in_socket when there is nothing to do.
visit_connections == Section("connections", <<>>)

\* Fault: the return for an empty queue leaves without leaving.
take_in_message_stays == <<<<"enter", "r_in_messages">>>>

take_in_message == Section("r_in_messages", <<>>)

put_into_socket_to_recv_unicast_msg ==
    Section("socket_to_recv_unicast_msg", <<>>)

put_pdu_into_w_out_messages == Section("w_out_messages", <<>>)

take_out_message == Section("r_out_messages", <<>>)

route_out_message ==
    Section("socket_to_recv_unicast_msg", Section("w_in_messages", <<>>))

read_out_socket == Section("out_connection", Section("r_out_messages", <<>>))

read_in_socket == Section("connections", Section("r_in_messages", <<>>))

\* remove_all_mappings_for, called by remove_connection for the connection
\* that read_in_socket or write_in_socket found broken.
remove_all_mappings_for ==
    Section("socket_to_recv_unicast_msg", <<>>)
      \o Section("socket_to_recv_multicast_msg", <<>>)

remove_connection == Section("connections", remove_all_mappings_for)

write_data_to_out_buffer ==
    Section("out_connection", Section("w_out_messages", <<>>))

\* Fault: the two sections are entered the other way round.
write_data_to_in_buffer_swapped ==
    Section("w_in_messages", Section("connections", <<>>))

write_data_to_in_buffer ==
    Section("connections", Section("w_in_messages", <<>>))

free_w_in_messages_mapped_to_invalid_sockets ==
    Section("w_in_messages",
            Section("connections", <<>>) \o Section("connections", <<>>))

\* remove_all_messages, remove_all_mappings and remove_all_connections.
cleanup ==
    Section("out_connection",
            Section("r_in_messages", <<>>) \o Section("w_in_messages", <<>>)
              \o Section("r_out_messages", <<>>)
              \o Section("w_out_messages", <<>>)
              \o Section("connections",
                         remove_all_mappings_for \o remove_all_mappings_for)
              \o Section("connections",
                         remove_all_mappings_for \o remove_all_mappings_for))

\* What each thread may call.
Procedures ==
    [process |-> [out_connection |-> out_connection,
                  take_out_message |-> take_out_message,
                  route_out_message |-> route_out_message,
                  take_in_message |-> take_in_message,
                  put_into_socket_to_recv_unicast_msg |->
                      put_into_socket_to_recv_unicast_msg,
                  put_pdu_into_w_out_messages |-> put_pdu_into_w_out_messages],
     comm_r  |-> [visit_connections |-> visit_connections,
                  out_connection |-> out_connection,
                  read_out_socket |-> read_out_socket,
                  read_in_socket |-> read_in_socket,
                  remove_connection |-> remove_connection],
     comm_w  |-> [write_data_to_out_buffer |-> write_data_to_out_buffer,
                  free_w_in_messages_mapped_to_invalid_sockets |->
                      free_w_in_messages_mapped_to_invalid_sockets,
                  write_data_to_in_buffer |-> write_data_to_in_buffer,
                  visit_connections |-> visit_connections,
                  out_connection |-> out_connection,
                  remove_connection |-> remove_connection],
     cleanup |-> [cleanup |-> cleanup]]

\* The critical sections that t has still to leave without entering them.
ToLeave(t) ==
    {l \in Lock : \E i \in DOMAIN calls[t] :
         /\ calls[t][i] = <<"leave", l>>
         /\ \A j \in 1 .. i - 1 : calls[t][j] # <<"enter", l>>}

\* A thread owns what it has to leave, and only that.
TypeOK ==
    /\ \A t \in Thread :
         procedure[t] \in DOMAIN Procedures[t] \cup {"none"}
    /\ calls \in [Thread -> Seq({"enter", "leave"} \X Lock)]
    /\ owner \in [Lock -> Thread \cup {"none"}]
    /\ \A t \in Thread : ToLeave(t) = {l \in Lock : owner[l] = t}

Init ==
    /\ procedure = [t \in Thread |-> "none"]
    /\ calls = [t \in Thread |-> <<>>]
    /\ owner = [l \in Lock |-> "none"]

Call(t, p) ==
    /\ procedure[t] = "none"
    /\ procedure' = [procedure EXCEPT ![t] = p]
    /\ calls' = [calls EXCEPT ![t] = Procedures[t][p]]
    /\ UNCHANGED owner

EnterCriticalSection(t, l) ==
    /\ calls[t] # <<>>
    /\ Head(calls[t]) = <<"enter", l>>
    /\ owner[l] = "none"
    /\ owner' = [owner EXCEPT ![l] = t]
    /\ calls' = [calls EXCEPT ![t] = Tail(calls[t])]
    /\ UNCHANGED procedure

\* The procedure returns with its last call.
LeaveCriticalSection(t, l) ==
    /\ calls[t] # <<>>
    /\ Head(calls[t]) = <<"leave", l>>
    /\ owner' = [owner EXCEPT ![l] = "none"]
    /\ calls' = [calls EXCEPT ![t] = Tail(calls[t])]
    /\ procedure' = IF Len(calls[t]) = 1
                      THEN [procedure EXCEPT ![t] = "none"] ELSE procedure

Next ==
    \E t \in Thread :
        \/ \E p \in DOMAIN Procedures[t] : Call(t, p)
        \/ \E l \in Lock : EnterCriticalSection(t, l)
        \/ \E l \in Lock : LeaveCriticalSection(t, l)

Spec == Init /\ [][Next]_vars

-----------------------------------------------------------------------------

\* t waits for a critical section that u is in.
WaitsFor(t, u) ==
    /\ calls[t] # <<>>
    /\ Head(calls[t])[1] = "enter"
    /\ owner[Head(calls[t])[2]] = u

\* Everyone in S waits for somebody in S: none of them ever goes on.
Deadlocked(S) ==
    /\ S # {}
    /\ \A t \in S : \E u \in S : WaitsFor(t, u)

(***************************************************************************)
(* free_w_in_messages_mapped_to_invalid_sockets enters w_in_messages first *)
(* and connections second (dispatcher.c:628, 638), against the order of    *)
(* everyone else.  The threads can lock each other out there, and only     *)
(* there, and it takes three of them: comm_w in that procedure, process    *)
(* putting a reply into w_in_messages with the mappings locked             *)
(* (protocol.c:172, 274), and comm_r or cleanup removing the mappings of a *)
(* connection with the connections locked (mapping.c:48).  As long as      *)
(* comm_w is elsewhere somebody can always go on.                          *)
(***************************************************************************)
OnlyPurgeDeadlocks ==
    \A S \in SUBSET Thread :
        Deadlocked(S) =>
            /\ {"comm_w", "process"} \subseteq S
            /\ procedure["comm_w"] =
                   "free_w_in_messages_mapped_to_invalid_sockets"
            /\ procedure["process"] = "route_out_message"
            /\ \E t \in S \ {"comm_w", "process"} :
                   /\ procedure[t] \in {"remove_connection", "cleanup"}
                   /\ owner["connections"] = t
=============================================================================
