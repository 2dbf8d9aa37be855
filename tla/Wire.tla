-------------------------------- MODULE Wire --------------------------------
(***************************************************************************)
(* The bytes between the muxer and the server: the two buffers of          *)
(* out_connection, how PDUs get into them and out of them, and what a      *)
(* cleanup and the next connection make of what is left in them.           *)
(*                                                                         *)
(* recv and send take any number of bytes.  A client's connection has the  *)
(* same buffers and functions (read_data, write_data), but it is removed   *)
(* with its buffers and never connected again.                             *)
(***************************************************************************)
EXTENDS Codec

CONSTANTS
    Requests,       \* the messages that the muxer sends
    Replies,        \* the messages that the server sends
    MaxRequests,    \* bound: messages put into w_buffer
    MaxReplies,     \* bound: messages the server sends
    MaxFailures     \* bound: failures of the connection and late reports of one

ASSUME WireAssumption ==
    /\ \A m \in Requests :
          /\ m \in [invokeid : asn1SccSint, command : Seq(Byte)]
          /\ IsConstraintValid(m.command)
    /\ \A m \in Replies :
          /\ m \in [invokeid : asn1SccSint, command : Seq(Byte),
                    result : Seq(Byte)]
          /\ IsConstraintValid(m.command) /\ IsConstraintValid(m.result)
    /\ MaxRequests \in Nat /\ MaxReplies \in Nat /\ MaxFailures \in Nat

VARIABLES
    is_out_connection_OK,
    late_read,      \* comm_r saw is_out_connection_OK before a cleanup
    do_cleanup,     \* h_event_do_cleanup
    broken,         \* is the connection of the socket broken?
    r_buffer, w_buffer,     \* of out_connection, up to r_ and w_buffer_ptr
    from_server,    \* the bytes that recv has still to deliver
    \* What happened on this connection:
    read_pdus,      \* the PDUs put into r_out_messages
    replied,        \* the messages the server sent
    written,        \* the messages put into w_buffer
    to_server,      \* the bytes sent
    comm_w_ended,   \* has comm_w left its loop?
    stale,          \* is there anything of an old connection in r_buffer?
    \* Counters for the bounds:
    request_count, reply_count, failures

status_vars == <<is_out_connection_OK, late_read, do_cleanup, broken>>
read_vars == <<r_buffer, from_server, read_pdus, replied, stale>>
write_vars == <<w_buffer, written, to_server, comm_w_ended>>
count_vars == <<request_count, reply_count, failures>>
vars == <<status_vars, read_vars, write_vars, count_vars>>

TypeOK ==
    /\ is_out_connection_OK \in BOOLEAN /\ late_read \in BOOLEAN
    /\ do_cleanup \in BOOLEAN /\ broken \in BOOLEAN /\ stale \in BOOLEAN
    /\ comm_w_ended \in BOOLEAN
    /\ r_buffer \in Seq(Byte) /\ Len(r_buffer) <= BUFFER_KSIZE
    /\ w_buffer \in Seq(Byte) /\ Len(w_buffer) <= BUFFER_KSIZE
    /\ from_server \in Seq(Byte) /\ to_server \in Seq(Byte)
    /\ read_pdus \in Seq(Seq(Byte))
    /\ replied \in Seq(Replies) /\ written \in Seq(Requests)
    /\ request_count \in 0 .. MaxRequests
    /\ reply_count \in 0 .. MaxReplies
    /\ failures \in 0 .. MaxFailures

Init ==
    /\ is_out_connection_OK = FALSE
    /\ late_read = FALSE
    /\ do_cleanup = FALSE
    /\ broken = FALSE
    /\ stale = FALSE
    /\ comm_w_ended = FALSE
    /\ r_buffer = <<>> /\ w_buffer = <<>>
    /\ from_server = <<>> /\ to_server = <<>>
    /\ read_pdus = <<>> /\ replied = <<>> /\ written = <<>>
    /\ request_count = 0 /\ reply_count = 0 /\ failures = 0

(***************************************************************************)
(* comm_w.                                                                 *)
(***************************************************************************)

\* write_data_to_out_buffer, also when the connection is not up.
WriteDataToOutBuffer(m) ==
    /\ ~comm_w_ended
    /\ w_buffer = <<>>
    /\ request_count < MaxRequests
    /\ request_count' = request_count + 1
    /\ w_buffer' = Frame(InputType_Encode(m))
    /\ written' = Append(written, m)
    /\ UNCHANGED <<status_vars, read_vars, to_server, comm_w_ended,
                   reply_count, failures>>

\* Fault: the rest of the data is not moved to the start of the buffer.
WriteDataNotMoved(bytes) ==
    /\ ~comm_w_ended
    /\ is_out_connection_OK /\ ~broken
    /\ bytes \in 1 .. Len(w_buffer)
    /\ to_server' = to_server \o SubSeq(w_buffer, 1, bytes)
    /\ w_buffer' = SubSeq(w_buffer, 1, Len(w_buffer) - bytes)
    /\ UNCHANGED <<status_vars, read_vars, written, comm_w_ended, count_vars>>

\* write_data: send takes so many bytes.  A send that fails is Fails.
WriteData(bytes) ==
    /\ ~comm_w_ended
    /\ is_out_connection_OK /\ ~broken
    /\ bytes \in 1 .. Len(w_buffer)
    /\ to_server' = to_server \o SubSeq(w_buffer, 1, bytes)
    /\ w_buffer' = SubSeq(w_buffer, bytes + 1, Len(w_buffer))
    /\ UNCHANGED <<status_vars, read_vars, written, comm_w_ended, count_vars>>

\* After Ctrl-C comm_w sends once more and shuts the socket down, whether the
\* connection is up or not: after a cleanup the socket is the old one, and
\* what it takes belongs to no connection that the muxer still counts.
LastWrite(bytes) ==
    /\ ~comm_w_ended
    /\ comm_w_ended' = TRUE
    /\ bytes \in 0 .. Len(w_buffer)
    /\ broken => bytes = 0
    /\ to_server' = IF is_out_connection_OK
                      THEN to_server \o SubSeq(w_buffer, 1, bytes)
                      ELSE to_server
    /\ w_buffer' = SubSeq(w_buffer, bytes + 1, Len(w_buffer))
    /\ broken' = TRUE
    /\ from_server' = <<>>
    /\ UNCHANGED <<is_out_connection_OK, late_read, do_cleanup, r_buffer,
                   read_pdus, replied, stale, written, count_vars>>

(***************************************************************************)
(* comm_r.                                                                 *)
(***************************************************************************)

\* Fault: recv is given the size of the buffer.
ReadDataWholeBuffer(bytes) ==
    LET buffer == r_buffer \o SubSeq(from_server, 1, bytes)
    IN  /\ is_out_connection_OK \/ late_read
        /\ bytes \in 1 .. Len(from_server)
        /\ from_server' = SubSeq(from_server, bytes + 1, Len(from_server))
        /\ read_pdus' = read_pdus \o PdusIn(buffer)
        /\ r_buffer' = RestOf(buffer)
        /\ stale' = (stale \/ late_read)
        /\ late_read' = FALSE
        /\ UNCHANGED <<is_out_connection_OK, do_cleanup, broken, replied,
                       write_vars, count_vars>>

\* read_data and read_data_from_out_buffer: recv delivers so many bytes, and
\* the PDUs that are complete are put into r_out_messages.
ReadData(bytes) ==
    LET buffer == r_buffer \o SubSeq(from_server, 1, bytes)
    IN  /\ is_out_connection_OK \/ late_read
        /\ bytes \in 1 .. Len(from_server)
        /\ bytes <= BUFFER_KSIZE - Len(r_buffer)
        /\ from_server' = SubSeq(from_server, bytes + 1, Len(from_server))
        /\ read_pdus' = read_pdus \o PdusIn(buffer)
        /\ r_buffer' = RestOf(buffer)
        /\ stale' = (stale \/ late_read)
        /\ late_read' = FALSE
        /\ UNCHANGED <<is_out_connection_OK, do_cleanup, broken, replied,
                       write_vars, count_vars>>

\* recv into a full buffer returns 0, as it does when the server has closed
\* the connection.
ReadFullBuffer ==
    /\ is_out_connection_OK \/ late_read
    /\ from_server # <<>>
    /\ Len(r_buffer) = BUFFER_KSIZE
    /\ do_cleanup' = TRUE
    /\ late_read' = FALSE
    /\ UNCHANGED <<is_out_connection_OK, broken, read_vars, write_vars,
                   count_vars>>

(***************************************************************************)
(* A failure, the cleanup and the next connection.                         *)
(***************************************************************************)

\* The connection breaks and a thread reports it, or the report of an earlier
\* failure comes late; then the connection still works.
Fails ==
    /\ is_out_connection_OK \/ late_read
    /\ failures < MaxFailures
    /\ failures' = failures + 1
    /\ do_cleanup' = TRUE
    /\ late_read' = FALSE
    /\ \/ broken' = TRUE /\ from_server' = <<>>
       \/ UNCHANGED <<broken, from_server>>
    /\ UNCHANGED <<is_out_connection_OK, r_buffer, read_pdus,
                   replied, stale, write_vars, request_count, reply_count>>

\* Fault: r_buffer_ptr is not reset.
CleanupKeepsReadBuffer ==
    /\ do_cleanup
    /\ is_out_connection_OK' = FALSE
    /\ do_cleanup' = FALSE
    /\ late_read' \in {FALSE, is_out_connection_OK}
    /\ w_buffer' = <<>>
    /\ stale' = FALSE
    /\ written' = <<>> /\ to_server' = <<>>
    /\ UNCHANGED <<broken, r_buffer, from_server, read_pdus, replied,
                   comm_w_ended, count_vars>>

\* cleanup().  comm_r may have tested is_out_connection_OK before it and be
\* waiting for csec_out_connection.
Cleanup ==
    /\ do_cleanup
    /\ is_out_connection_OK' = FALSE
    /\ do_cleanup' = FALSE
    /\ late_read' \in {FALSE, is_out_connection_OK}
    /\ r_buffer' = <<>> /\ w_buffer' = <<>>
    /\ stale' = FALSE
    /\ written' = <<>> /\ to_server' = <<>>
    /\ UNCHANGED <<broken, from_server, read_pdus, replied, comm_w_ended,
                   count_vars>>

\* connect_to_output: a new socket; the buffers stay as they are.  A late read
\* does not find the new socket in its read set.
ConnectToOutput ==
    /\ ~is_out_connection_OK
    /\ is_out_connection_OK' = TRUE
    /\ late_read' = FALSE
    /\ broken' = FALSE
    /\ from_server' = <<>>
    /\ read_pdus' = <<>> /\ replied' = <<>>
    /\ stale' = (stale /\ r_buffer # <<>>)
    /\ UNCHANGED <<do_cleanup, r_buffer, write_vars, count_vars>>

\* The server sends a message on its end of the connection.
ServerSends(m) ==
    /\ is_out_connection_OK \/ late_read
    /\ ~broken
    /\ reply_count < MaxReplies
    /\ reply_count' = reply_count + 1
    /\ replied' = Append(replied, m)
    /\ from_server' = from_server \o Frame(OutputType_Encode(m))
    /\ UNCHANGED <<status_vars, r_buffer, read_pdus, stale, write_vars,
                   request_count, failures>>

\* All bounds are reached, or comm_r and comm_w wait for something to do or
\* have ended.
Idle ==
    /\ is_out_connection_OK /\ ~do_cleanup
    /\ w_buffer = <<>> \/ comm_w_ended
    /\ from_server = <<>>
    /\ UNCHANGED vars

-----------------------------------------------------------------------------

Next ==
    \/ \E m \in Requests : WriteDataToOutBuffer(m)
    \/ \E bytes \in 1 .. BUFFER_KSIZE : WriteData(bytes) \/ ReadData(bytes)
    \/ \E bytes \in 0 .. BUFFER_KSIZE : LastWrite(bytes)
    \/ ReadFullBuffer
    \/ Fails
    \/ Cleanup
    \/ ConnectToOutput
    \/ \E m \in Replies : ServerSends(m)
    \/ Idle

Spec == Init /\ [][Next]_vars

-----------------------------------------------------------------------------

Frames(pdus) == FlattenSeq([i \in DOMAIN pdus |-> Frame(pdus[i])])

InputPdus(messages) == [i \in DOMAIN messages |-> InputType_Encode(messages[i])]
OutputPdus(messages) == [i \in DOMAIN messages |-> OutputType_Encode(messages[i])]

(***************************************************************************)
(* However recv cuts the replies into pieces (pdu.c:24-54), the PDUs that  *)
(* are taken out are those the server sent, in order, and all that have    *)
(* arrived: with what is left in r_buffer they are a beginning of what was *)
(* sent.  It holds on every connection of the muxer, unless comm_r read    *)
(* from the old socket after a cleanup.                                    *)
(***************************************************************************)
FramesIntact ==
    is_out_connection_OK /\ ~stale =>
        /\ IsPrefix(read_pdus, OutputPdus(replied))
        /\ IsPrefix(Frames(read_pdus) \o r_buffer, Frames(OutputPdus(replied)))
        /\ ~CompleteAt(r_buffer, 1)

(***************************************************************************)
(* The server receives a beginning of the requests that were put into the  *)
(* w_buffer, whatever parts send takes (dispatcher.c:774-784), whatever a  *)
(* cleanup interrupts, and from the last write of comm_w, too              *)
(* (dispatcher.c:921): no connection starts in the middle of a PDU, and    *)
(* until that write nothing is lost.  It says nothing of the socket of an  *)
(* earlier connection, to which the last write may go after a cleanup.     *)
(***************************************************************************)
RequestsIntact ==
    is_out_connection_OK =>
        LET requests == Frames(InputPdus(written))
        IN  /\ IsPrefix(to_server, requests)
            /\ ~comm_w_ended => to_server \o w_buffer = requests

(***************************************************************************)
(* recv is never called with no room left (dispatcher.c:376), where its    *)
(* result 0 would be taken for a closed connection: a PDU that is not      *)
(* complete leaves room for the rest of it.                                *)
(***************************************************************************)
BufferHasRoom ==
    is_out_connection_OK /\ ~stale => Len(r_buffer) < BUFFER_KSIZE

\* What process_incoming_out_messages makes of a PDU for the invokeid of the
\* client that asked.
Reencoded(pdu, invokeid_original) ==
    OutputType_Encode([OutputType_Decode(pdu) EXCEPT
                           !.invokeid = invokeid_original])

(***************************************************************************)
(* The muxer changes nothing of a reply but its invokeid (protocol.c:193): *)
(* what the client decodes is what the server encoded, for every invokeid  *)
(* the client may have chosen, and the new PDU fits the buffer (which no    *)
(* statement but an assertion looks at, pdu.c:59).                         *)
(***************************************************************************)
ContentsKept ==
    is_out_connection_OK /\ ~stale =>
        \A i \in DOMAIN read_pdus :
            LET m == OutputType_Decode(read_pdus[i])
            IN  /\ m = replied[i]
                /\ \A id \in asn1SccSint :
                     LET pdu == Reencoded(read_pdus[i], id)
                     IN  /\ OutputType_Decode(pdu) = [m EXCEPT !.invokeid = id]
                         /\ Len(Frame(pdu)) <= BUFFER_KSIZE
=============================================================================
