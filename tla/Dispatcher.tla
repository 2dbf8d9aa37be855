----------------------------- MODULE Dispatcher -----------------------------
(***************************************************************************)
(* The threads of src/muxer/dispatcher.c and the events they synchronise   *)
(* with: main, the cleanup thread, the three workers (process, comm_r and  *)
(* comm_w) and the Ctrl-C handler, which Windows runs in a thread of its   *)
(* own.  Messages are counted, not told apart (module Routing does that),  *)
(* and one client connection stands for all of them.                       *)
(*                                                                         *)
(* A step ends before the next operation on an event, a flag, a queue or a *)
(* socket that another thread can see; a few operations that commute with  *)
(* everything the others do in between share a step.                       *)
(***************************************************************************)
EXTENDS Naturals, FiniteSets

CONSTANTS
    MaxRequests,  \* bound: requests read from clients
    MaxFailures,  \* bound: failures of a connection to the server
    MaxClients,   \* bound: connections accepted
    Parts,        \* bound: the sends that a full w_buffer may take
    Interrupt     \* may Ctrl-C be pressed?

ASSUME DispatcherAssumption ==
    /\ MaxRequests \in Nat /\ MaxFailures \in Nat /\ MaxClients \in Nat
    /\ Parts \in Nat \ {0}
    /\ Interrupt \in BOOLEAN

VARIABLES
    is_app_active,
    pc,                     \* where each thread is
    h_event_start_threads, h_event_do_cleanup, h_event_cleanup_ended,
    h_event_process_data,   \* auto-reset
    h_event_new_message,    \* auto-reset
    stopped,                \* h_stop_events, manual reset
    ended,                  \* h_end_events
    r_in, r_out, w_in, w_out,   \* the lengths of the message queues
    connected,              \* is there a client connection?
    in_w_buffer,            \* how many parts are left in its w_buffer
    out_w_buffer,           \* the same for out_connection
    is_out_connection_OK,
    out_socket,             \* the state of out_connection.socket
    abandoned,              \* working sockets to the server that were replaced
    out_locked,             \* is csec_out_connection held from step to step?
    missed,                 \* history: the workers whose events the cleanup
                            \* thread had set for the last time when Ctrl-C
                            \* came
    late_start,             \* history: has main started the workers while the
                            \* cleanup thread had them stopped?
    r_ready, w_ready,       \* what select reported to comm_r and comm_w, and
                            \* they have not looked at yet
    server,                 \* requests the server has still to answer
    sent, failures, accepted    \* counters for the bounds

app_vars == <<is_app_active, missed, late_start>>
event_vars == <<h_event_start_threads, h_event_do_cleanup,
                h_event_cleanup_ended, h_event_process_data,
                h_event_new_message, stopped, ended>>
queue_vars == <<r_in, r_out, w_in, w_out>>
client_vars == <<connected, in_w_buffer>>
out_vars == <<out_w_buffer, is_out_connection_OK, out_socket, abandoned,
              out_locked>>
ready_vars == <<r_ready, w_ready>>
env_vars == <<server, sent, failures, accepted>>
vars == <<app_vars, pc, event_vars, queue_vars, client_vars, out_vars,
          ready_vars, env_vars>>

Worker == {"process", "comm_r", "comm_w"}
Thread == Worker \cup {"main", "cleanup", "sigint"}

\* Where the cleanup thread is from the reset of h_event_start_threads to the
\* SetEvent that starts the workers again.
Stopping == {"wake", "wake_process", "barrier", "clean", "remove", "reset",
             "rearm", "rearm_process", "restart"}

Label == Stopping \cup
         {"spawn", "wait", "done", "idle", "flag", "while", "wait_end",
          "begin", "start", "go", "loop", "ended",
          "wait_data", "connect", "take_out", "signal_out", "take_in",
          "signal_in", "recheck",
          "wait_message", "fill_out", "fill_in", "select", "check_out",
          "write_out", "write_in", "shutdown", "drain",
          "read_out", "read_in"}

TypeOK ==
    /\ is_app_active \in BOOLEAN
    /\ missed \subseteq Worker /\ late_start \in BOOLEAN
    /\ pc \in [Thread -> Label]
    /\ h_event_start_threads \in BOOLEAN /\ h_event_do_cleanup \in BOOLEAN
    /\ h_event_cleanup_ended \in BOOLEAN
    /\ h_event_process_data \in BOOLEAN /\ h_event_new_message \in BOOLEAN
    /\ stopped \in [Worker -> BOOLEAN] /\ ended \in [Worker -> BOOLEAN]
    /\ r_in \in 0 .. MaxRequests /\ r_out \in 0 .. MaxRequests
    /\ w_in \in 0 .. MaxRequests /\ w_out \in 0 .. MaxRequests
    /\ connected \in BOOLEAN
    /\ in_w_buffer \in 0 .. Parts /\ out_w_buffer \in 0 .. Parts
    /\ is_out_connection_OK \in BOOLEAN
    /\ out_socket \in {"none", "up", "failed"}
    /\ abandoned \in 0 .. MaxFailures + 1
    /\ out_locked \in BOOLEAN
    /\ r_ready \subseteq {"in", "out"} /\ w_ready \subseteq {"in", "out"}
    /\ server \in 0 .. MaxRequests
    /\ sent \in 0 .. MaxRequests
    /\ failures \in 0 .. MaxFailures
    /\ accepted \in 0 .. MaxClients

\* create_events; main is in spawn_threads, about to create the threads or to
\* set h_event_start_threads, which was created set.
Init ==
    /\ is_app_active = TRUE
    /\ missed = {} /\ late_start = FALSE
    /\ pc = [t \in Thread |-> CASE t \in Worker -> "begin"
                                [] t = "main" -> "spawn"
                                [] t = "sigint" -> "idle"
                                [] t = "cleanup" -> "wait"]
    /\ h_event_start_threads = TRUE
    /\ h_event_do_cleanup = FALSE
    /\ h_event_cleanup_ended = FALSE
    /\ h_event_process_data = FALSE
    /\ h_event_new_message = FALSE
    /\ stopped = [t \in Worker |-> FALSE]
    /\ ended = [t \in Worker |-> FALSE]
    /\ r_in = 0 /\ r_out = 0 /\ w_in = 0 /\ w_out = 0
    /\ connected = FALSE
    /\ in_w_buffer = 0 /\ out_w_buffer = 0
    /\ is_out_connection_OK = FALSE
    /\ out_socket = "none"
    /\ abandoned = 0
    /\ out_locked = FALSE
    /\ r_ready = {} /\ w_ready = {}
    /\ server = 0 /\ sent = 0 /\ failures = 0 /\ accepted = 0

\* Thread t goes from one place to another, while the program runs.
Goes(t, from, to) ==
    /\ pc["main"] # "done"
    /\ pc[t] = from
    /\ pc' = [pc EXCEPT ![t] = to]

(***************************************************************************)
(* main and the Ctrl-C handler.                                            *)
(***************************************************************************)

\* The last line of spawn_threads.  The threads run by then, and the cleanup
\* thread may have reset the event.
MainStarts ==
    /\ Goes("main", "spawn", "wait")
    /\ h_event_start_threads' = TRUE
    /\ late_start' = (pc["cleanup"] \in Stopping)
    /\ UNCHANGED <<is_app_active, missed, h_event_do_cleanup,
                   h_event_cleanup_ended, h_event_process_data,
                   h_event_new_message, stopped, ended, queue_vars,
                   client_vars, out_vars, ready_vars, env_vars>>

MainEnds ==
    /\ Goes("main", "wait", "done")
    /\ h_event_cleanup_ended
    /\ UNCHANGED <<app_vars, event_vars, queue_vars, client_vars,
                   out_vars, ready_vars, env_vars>>

\* sigint_handler: the flag first, then the event.
SigintFlag ==
    /\ Interrupt
    /\ Goes("sigint", "idle", "flag")
    /\ is_app_active' = FALSE
    /\ missed' = CASE pc["cleanup"] = "rearm_process" -> {"comm_w"}
                   [] pc["cleanup"] \in {"restart", "while"}
                        -> {"comm_w", "process"}
                   [] OTHER -> {}
    /\ UNCHANGED <<late_start, event_vars, queue_vars, client_vars, out_vars, ready_vars,
                   env_vars>>

SigintEvent ==
    /\ Goes("sigint", "flag", "done")
    /\ h_event_do_cleanup' = TRUE
    /\ UNCHANGED <<app_vars, h_event_start_threads,
                   h_event_cleanup_ended, h_event_process_data,
                   h_event_new_message, stopped, ended, queue_vars,
                   client_vars, out_vars, ready_vars, env_vars>>

(***************************************************************************)
(* The cleanup thread.                                                     *)
(***************************************************************************)

\* Fault: h_event_start_threads is not reset.
StopWorkersNoReset ==
    /\ Goes("cleanup", "wait", "wake")
    /\ h_event_do_cleanup
    /\ UNCHANGED <<app_vars, event_vars, queue_vars, client_vars,
                   out_vars, ready_vars, env_vars>>

\* Only this thread resets h_event_do_cleanup, so the wait and the reset of
\* h_event_start_threads are one step.
StopWorkers ==
    /\ Goes("cleanup", "wait", "wake")
    /\ h_event_do_cleanup
    /\ h_event_start_threads' = FALSE
    /\ UNCHANGED <<app_vars, h_event_do_cleanup, h_event_cleanup_ended,
                   h_event_process_data, h_event_new_message, stopped, ended,
                   queue_vars, client_vars, out_vars, ready_vars, env_vars>>

\* Fault: comm_w is not woken.
WakeCommWNot ==
    /\ Goes("cleanup", "wake", "wake_process")
    /\ UNCHANGED <<app_vars, event_vars, queue_vars, client_vars,
                   out_vars, ready_vars, env_vars>>

WakeCommW ==
    /\ Goes("cleanup", "wake", "wake_process")
    /\ h_event_new_message' = TRUE
    /\ UNCHANGED <<app_vars, h_event_start_threads, h_event_do_cleanup,
                   h_event_cleanup_ended, h_event_process_data, stopped, ended,
                   queue_vars, client_vars, out_vars, ready_vars, env_vars>>

WakeProcess ==
    /\ Goes("cleanup", "wake_process", "barrier")
    /\ h_event_process_data' = TRUE
    /\ UNCHANGED <<app_vars, h_event_start_threads, h_event_do_cleanup,
                   h_event_cleanup_ended, h_event_new_message, stopped, ended,
                   queue_vars, client_vars, out_vars, ready_vars, env_vars>>

\* A worker that has passed its wait for h_event_start_threads but has not
\* yet reset its stop event counts as stopped.
Barrier ==
    /\ Goes("cleanup", "barrier", "clean")
    /\ \A t \in Worker : stopped[t]
    /\ UNCHANGED <<app_vars, event_vars, queue_vars, client_vars,
                   out_vars, ready_vars, env_vars>>

\* cleanup() up to remove_all_connections, which it calls in
\* csec_out_connection.  out_connection.socket is not closed.
CleanUp ==
    /\ Goes("cleanup", "clean", "remove")
    /\ ~out_locked
    /\ out_locked' = TRUE
    /\ is_out_connection_OK' = FALSE
    /\ out_w_buffer' = 0
    /\ r_in' = 0 /\ r_out' = 0 /\ w_in' = 0 /\ w_out' = 0
    /\ UNCHANGED <<app_vars, event_vars, client_vars, out_socket, abandoned,
                   ready_vars, env_vars>>

\* csec_connections is held by remove_all_connections, and by nobody else
\* from one step to another.
ConnectionsLocked == pc["cleanup"] = "remove"

\* remove_all_connections and the end of cleanup().  The sockets of clients do
\* not block (dispatcher.c:353), so that shutdown_connection reads what there
\* is and does not wait for the client to close its end.
RemoveConnections ==
    /\ Goes("cleanup", "remove", "reset")
    /\ out_locked' = FALSE
    /\ connected' = FALSE
    /\ in_w_buffer' = 0
    /\ UNCHANGED <<app_vars, event_vars, queue_vars, out_w_buffer,
                   is_out_connection_OK, out_socket, abandoned, ready_vars,
                   env_vars>>

\* A failure that was reported since cleanup() is forgotten.
ResetDoCleanup ==
    /\ Goes("cleanup", "reset", "rearm")
    /\ h_event_do_cleanup' = FALSE
    /\ UNCHANGED <<app_vars, h_event_start_threads, h_event_cleanup_ended,
                   h_event_process_data, h_event_new_message, stopped, ended,
                   queue_vars, client_vars, out_vars, ready_vars, env_vars>>

\* Fault: comm_w is not woken to see that the program ends.
RearmCommWNot ==
    /\ Goes("cleanup", "rearm", "rearm_process")
    /\ UNCHANGED <<app_vars, event_vars, queue_vars, client_vars,
                   out_vars, ready_vars, env_vars>>

\* A comm_w that the barrier counted as stopped but that had passed its wait
\* for h_event_start_threads may take the event at once.
RearmCommW ==
    /\ Goes("cleanup", "rearm", "rearm_process")
    /\ h_event_new_message' = TRUE
    /\ UNCHANGED <<app_vars, h_event_start_threads, h_event_do_cleanup,
                   h_event_cleanup_ended, h_event_process_data, stopped, ended,
                   queue_vars, client_vars, out_vars, ready_vars, env_vars>>

RearmProcess ==
    /\ Goes("cleanup", "rearm_process", "restart")
    /\ h_event_process_data' = TRUE
    /\ UNCHANGED <<app_vars, h_event_start_threads, h_event_do_cleanup,
                   h_event_cleanup_ended, h_event_new_message, stopped, ended,
                   queue_vars, client_vars, out_vars, ready_vars, env_vars>>

RestartWorkers ==
    /\ Goes("cleanup", "restart", "while")
    /\ h_event_start_threads' = TRUE
    /\ late_start' = FALSE
    /\ UNCHANGED <<is_app_active, missed, h_event_do_cleanup,
                   h_event_cleanup_ended, h_event_process_data,
                   h_event_new_message, stopped, ended, queue_vars,
                   client_vars, out_vars, ready_vars, env_vars>>

CleanupLoop ==
    /\ Goes("cleanup", "while", IF is_app_active THEN "wait" ELSE "wait_end")
    /\ UNCHANGED <<app_vars, event_vars, queue_vars, client_vars,
                   out_vars, ready_vars, env_vars>>

\* All workers have ended, or ten seconds have passed.
SignalCleanupEnded ==
    /\ Goes("cleanup", "wait_end", "done")
    /\ h_event_cleanup_ended' = TRUE
    /\ UNCHANGED <<app_vars, h_event_start_threads, h_event_do_cleanup,
                   h_event_process_data, h_event_new_message, stopped, ended,
                   queue_vars, client_vars, out_vars, ready_vars, env_vars>>

(***************************************************************************)
(* What the workers have in common: the ends of their loops.               *)
(***************************************************************************)

\* A thread that runs for the first time.
Begin(t) ==
    /\ Goes(t, "begin", "start")
    /\ stopped' = [stopped EXCEPT ![t] = TRUE]
    /\ UNCHANGED <<app_vars, h_event_start_threads, h_event_do_cleanup,
                   h_event_cleanup_ended, h_event_process_data,
                   h_event_new_message, ended, queue_vars, client_vars,
                   out_vars, ready_vars, env_vars>>

WaitStart(t) ==
    /\ Goes(t, "start", "go")
    /\ h_event_start_threads
    /\ UNCHANGED <<app_vars, event_vars, queue_vars, client_vars,
                   out_vars, ready_vars, env_vars>>

ResetStopped(t) ==
    /\ Goes(t, "go", CASE t = "process" -> "wait_data"
                       [] t = "comm_w"  -> "wait_message"
                       [] t = "comm_r"  -> "select")
    /\ stopped' = [stopped EXCEPT ![t] = FALSE]
    /\ UNCHANGED <<app_vars, h_event_start_threads, h_event_do_cleanup,
                   h_event_cleanup_ended, h_event_process_data,
                   h_event_new_message, ended, queue_vars, client_vars,
                   out_vars, ready_vars, env_vars>>

\* The test of is_app_active and the stop and end events that are set after it.
Loop(t) ==
    /\ \/ /\ is_app_active
          /\ Goes(t, "loop", "start")
          /\ stopped' = [stopped EXCEPT ![t] = TRUE]
          /\ UNCHANGED ended
       \/ /\ ~is_app_active
          /\ t # "comm_w"
          /\ Goes(t, "loop", "ended")
          /\ stopped' = [stopped EXCEPT ![t] = TRUE]
          /\ ended' = [ended EXCEPT ![t] = TRUE]
       \/ /\ ~is_app_active
          /\ t = "comm_w"
          /\ Goes(t, "loop", "shutdown")
          /\ UNCHANGED <<stopped, ended>>
    /\ UNCHANGED <<app_vars, h_event_start_threads, h_event_do_cleanup,
                   h_event_cleanup_ended, h_event_process_data,
                   h_event_new_message, queue_vars, client_vars, out_vars,
                   ready_vars, env_vars>>

(***************************************************************************)
(* thread_processing.                                                      *)
(***************************************************************************)

WaitProcessData ==
    /\ Goes("process", "wait_data", "connect")
    /\ h_event_process_data
    /\ h_event_process_data' = FALSE
    /\ UNCHANGED <<app_vars, h_event_start_threads, h_event_do_cleanup,
                   h_event_cleanup_ended, h_event_new_message, stopped, ended,
                   queue_vars, client_vars, out_vars, ready_vars, env_vars>>

\* process_data, when the connection is up.
SkipConnect ==
    /\ Goes("process", "connect", "take_out")
    /\ ~out_locked
    /\ is_out_connection_OK
    /\ UNCHANGED <<app_vars, event_vars, queue_vars, client_vars,
                   out_vars, ready_vars, env_vars>>

\* connect_to_output assigns s, a new socket or INVALID_SOCKET, over the one
\* that is there.
ReplaceOutSocket(s) ==
    /\ out_socket' = s
    /\ abandoned' = IF out_socket = "up" THEN abandoned + 1 ELSE abandoned
    /\ server' = 0
    /\ r_ready' = r_ready \ {"out"}
    /\ w_ready' = w_ready \ {"out"}

\* connect_to_output fails; getaddrinfo fails before the socket is touched.
ConnectFails ==
    /\ Goes("process", "connect", "recheck")
    /\ ~out_locked
    /\ ~is_out_connection_OK
    /\ \/ ReplaceOutSocket("none")
       \/ UNCHANGED <<out_socket, abandoned, server, ready_vars>>
    /\ UNCHANGED <<app_vars, event_vars, queue_vars, client_vars,
                   out_w_buffer, is_out_connection_OK, out_locked, sent,
                   failures, accepted>>

\* connect_to_output succeeds.
ConnectToOutput ==
    /\ Goes("process", "connect", "take_out")
    /\ ~out_locked
    /\ ~is_out_connection_OK
    /\ is_out_connection_OK' = TRUE
    /\ ReplaceOutSocket("up")
    /\ UNCHANGED <<app_vars, event_vars, queue_vars, client_vars,
                   out_w_buffer, out_locked, sent, failures, accepted>>

\* process_incoming_out_messages; a reply without a mapping is dropped.
TakeOut ==
    /\ \/ /\ r_out = 0
          /\ Goes("process", "take_out", "take_in")
          /\ UNCHANGED <<r_out, w_in>>
       \/ /\ r_out > 0
          /\ r_out' = r_out - 1
          /\ \/ /\ Goes("process", "take_out", "signal_out")
                /\ w_in' = w_in + 1
             \/ /\ Goes("process", "take_out", "take_in")
                /\ ~connected
                /\ UNCHANGED w_in
    /\ UNCHANGED <<app_vars, event_vars, r_in, w_out, client_vars,
                   out_vars, ready_vars, env_vars>>

SignalNewMessage(from, to) ==
    /\ Goes("process", from, to)
    /\ h_event_new_message' = TRUE
    /\ UNCHANGED <<app_vars, h_event_start_threads, h_event_do_cleanup,
                   h_event_cleanup_ended, h_event_process_data, stopped, ended,
                   queue_vars, client_vars, out_vars, ready_vars, env_vars>>

\* process_incoming_in_messages.
TakeIn ==
    /\ \/ /\ r_in = 0
          /\ Goes("process", "take_in", "recheck")
          /\ UNCHANGED <<r_in, w_out>>
       \/ /\ r_in > 0
          /\ Goes("process", "take_in", "signal_in")
          /\ r_in' = r_in - 1
          /\ w_out' = w_out + 1
    /\ UNCHANGED <<app_vars, event_vars, r_out, w_in, client_vars,
                   out_vars, ready_vars, env_vars>>

\* Fault: only r_in_messages is looked at again.
RecheckReadRequestsOnly ==
    /\ Goes("process", "recheck", "loop")
    /\ h_event_process_data' = (h_event_process_data \/ r_in > 0)
    /\ UNCHANGED <<app_vars, h_event_start_threads, h_event_do_cleanup,
                   h_event_cleanup_ended, h_event_new_message, stopped, ended,
                   queue_vars, client_vars, out_vars, ready_vars, env_vars>>

RecheckRead ==
    /\ Goes("process", "recheck", "loop")
    /\ h_event_process_data' = (h_event_process_data \/ r_in > 0 \/ r_out > 0)
    /\ UNCHANGED <<app_vars, h_event_start_threads, h_event_do_cleanup,
                   h_event_cleanup_ended, h_event_new_message, stopped, ended,
                   queue_vars, client_vars, out_vars, ready_vars, env_vars>>

(***************************************************************************)
(* thread_comm_write.                                                      *)
(***************************************************************************)

WaitNewMessage ==
    /\ Goes("comm_w", "wait_message", "fill_out")
    /\ h_event_new_message
    /\ h_event_new_message' = FALSE
    /\ UNCHANGED <<app_vars, h_event_start_threads, h_event_do_cleanup,
                   h_event_cleanup_ended, h_event_process_data, stopped, ended,
                   queue_vars, client_vars, out_vars, ready_vars, env_vars>>

\* write_data_to_out_buffer.
FillOut ==
    /\ Goes("comm_w", "fill_out", "fill_in")
    /\ ~out_locked
    /\ IF out_w_buffer = 0 /\ w_out > 0
         THEN out_w_buffer' = Parts /\ w_out' = w_out - 1
         ELSE UNCHANGED <<out_w_buffer, w_out>>
    /\ UNCHANGED <<app_vars, event_vars, r_in, r_out, w_in, client_vars,
                   is_out_connection_OK, out_socket, abandoned, out_locked,
                   ready_vars, env_vars>>

\* Fault: an empty queue is not told from one with a message.
FillInUntested ==
    /\ Goes("comm_w", "fill_in", "select")
    /\ ~ConnectionsLocked
    /\ IF connected /\ in_w_buffer = 0
         THEN in_w_buffer' = Parts /\ w_in' = w_in - 1
         ELSE UNCHANGED <<in_w_buffer, w_in>>
    /\ UNCHANGED <<app_vars, event_vars, r_in, r_out, w_out, connected,
                   out_vars, ready_vars, env_vars>>

\* write_data_to_in_buffer ...
FillIn ==
    /\ Goes("comm_w", "fill_in", "select")
    /\ ~ConnectionsLocked
    /\ IF connected /\ in_w_buffer = 0 /\ w_in > 0
         THEN in_w_buffer' = Parts /\ w_in' = w_in - 1
         ELSE UNCHANGED <<in_w_buffer, w_in>>
    /\ UNCHANGED <<app_vars, event_vars, r_in, r_out, w_out, connected,
                   out_vars, ready_vars, env_vars>>

\* ... and free_w_in_messages_mapped_to_invalid_sockets, once in a while.
Purge ==
    /\ Goes("comm_w", "fill_in", "select")
    /\ ~ConnectionsLocked
    /\ ~connected
    /\ w_in > 0
    /\ w_in' = 0
    /\ UNCHANGED <<app_vars, event_vars, r_in, r_out, w_out, client_vars,
                   out_vars, ready_vars, env_vars>>

\* setup_w_fd_set.
WriteSet ==
    (IF is_out_connection_OK THEN {"out"} ELSE {})
        \cup (IF connected THEN {"in"} ELSE {})

\* select without timeout: it fails when no socket is given to it, and else
\* waits for a socket to become writable.
SelectWrite(ready) ==
    /\ ~ConnectionsLocked
    /\ \/ /\ WriteSet = {} /\ ready = {}
          /\ Goes("comm_w", "select", "recheck")
       \/ /\ ready # {} /\ ready \subseteq WriteSet
          /\ Goes("comm_w", "select", "check_out")
    /\ w_ready' = ready
    /\ UNCHANGED <<app_vars, event_vars, queue_vars, client_vars,
                   out_vars, r_ready, env_vars>>

CheckOutWrite ==
    /\ Goes("comm_w", "check_out",
            IF is_out_connection_OK THEN "write_out" ELSE "write_in")
    /\ w_ready' = IF is_out_connection_OK THEN w_ready ELSE w_ready \ {"out"}
    /\ UNCHANGED <<app_vars, event_vars, queue_vars, client_vars,
                   out_vars, r_ready, env_vars>>

\* send takes all or a part of the w_buffer of out_connection.
SendOut ==
    IF out_w_buffer > 0 /\ out_socket = "up"
      THEN /\ out_w_buffer' \in 0 .. out_w_buffer - 1
           /\ server' = IF out_w_buffer' = 0 THEN server + 1 ELSE server
      ELSE UNCHANGED <<out_w_buffer, server>>

\* write_out_socket: a broken socket is reported by the except set or by send.
WriteOut ==
    /\ Goes("comm_w", "write_out", "write_in")
    /\ ~out_locked
    /\ IF "out" \in w_ready
         THEN SendOut
         ELSE UNCHANGED <<out_w_buffer, server>>
    /\ h_event_do_cleanup' =
           (h_event_do_cleanup \/ ("out" \in w_ready /\ out_socket = "failed"))
    /\ w_ready' = w_ready \ {"out"}
    /\ UNCHANGED <<app_vars, h_event_start_threads,
                   h_event_cleanup_ended, h_event_process_data,
                   h_event_new_message, stopped, ended, queue_vars,
                   client_vars, is_out_connection_OK, out_socket, abandoned,
                   out_locked, r_ready, sent, failures, accepted>>

\* write_in_socket: send takes all or a part of the buffer, or fails.
WriteIn ==
    /\ Goes("comm_w", "write_in", "recheck")
    /\ ~ConnectionsLocked
    /\ IF "in" \in w_ready /\ connected
         THEN \/ /\ in_w_buffer > 0
                 /\ in_w_buffer' \in 0 .. in_w_buffer - 1
                 /\ UNCHANGED connected
              \/ in_w_buffer = 0 /\ UNCHANGED client_vars
              \/ connected' = FALSE /\ in_w_buffer' = 0
         ELSE UNCHANGED client_vars
    /\ w_ready' = {}
    /\ UNCHANGED <<app_vars, event_vars, queue_vars, out_vars, r_ready,
                   env_vars>>

\* Fault: the queues are not looked at again.
RecheckWriteNever ==
    /\ Goes("comm_w", "recheck", "loop")
    /\ UNCHANGED <<app_vars, event_vars, queue_vars, client_vars,
                   out_vars, ready_vars, env_vars>>

RecheckWrite ==
    /\ Goes("comm_w", "recheck", "loop")
    /\ h_event_new_message' = (h_event_new_message \/ w_in > 0 \/ w_out > 0)
    /\ UNCHANGED <<app_vars, h_event_start_threads, h_event_do_cleanup,
                   h_event_cleanup_ended, h_event_process_data, stopped, ended,
                   queue_vars, client_vars, out_vars, ready_vars, env_vars>>

\* After the loop: write_data, then shutdown_connection, which holds
\* csec_out_connection and reads until the server closes its end, ...
ShutdownOut ==
    /\ Goes("comm_w", "shutdown", "drain")
    /\ ~out_locked
    /\ out_locked' = TRUE
    /\ SendOut
    /\ UNCHANGED <<app_vars, event_vars, queue_vars, client_vars,
                   is_out_connection_OK, out_socket, abandoned, ready_vars,
                   sent, failures, accepted>>

\* ... which it does.  The replies that are read meanwhile are lost.
ServerCloses ==
    /\ Goes("comm_w", "drain", "ended")
    /\ out_locked' = FALSE
    /\ out_socket' = "none"
    /\ server' = 0
    /\ stopped' = [stopped EXCEPT !["comm_w"] = TRUE]
    /\ ended' = [ended EXCEPT !["comm_w"] = TRUE]
    /\ UNCHANGED <<app_vars, h_event_start_threads, h_event_do_cleanup,
                   h_event_cleanup_ended, h_event_process_data,
                   h_event_new_message, queue_vars, client_vars, out_w_buffer,
                   is_out_connection_OK, abandoned, ready_vars, sent, failures,
                   accepted>>

(***************************************************************************)
(* thread_comm_read.                                                       *)
(***************************************************************************)

\* select with a timeout of two seconds, and read_listener_socket.
SelectRead ==
    /\ Goes("comm_r", "select", "check_out")
    /\ ~ConnectionsLocked
    /\ \E ready \in SUBSET {"in", "out"} :
         /\ "out" \in ready <=> /\ is_out_connection_OK
                                /\ server > 0 \/ out_socket = "failed"
         /\ "in" \in ready => connected
         /\ r_ready' = ready
    /\ \/ UNCHANGED <<connected, accepted>>
       \/ /\ ~connected
          /\ accepted < MaxClients
          /\ connected' = TRUE
          /\ accepted' = accepted + 1
    /\ UNCHANGED <<app_vars, event_vars, queue_vars, in_w_buffer,
                   out_vars, w_ready, server, sent, failures>>

CheckOutRead ==
    /\ Goes("comm_r", "check_out",
            IF is_out_connection_OK THEN "read_out" ELSE "read_in")
    /\ r_ready' = IF is_out_connection_OK THEN r_ready ELSE r_ready \ {"out"}
    /\ UNCHANGED <<app_vars, event_vars, queue_vars, client_vars,
                   out_vars, w_ready, env_vars>>

\* read_out_socket: a reply is put into r_out_messages, or the socket is
\* broken, or there is nothing to read.
ReadOut ==
    /\ ~out_locked
    /\ LET readable == "out" \in r_ready
       IN  \/ /\ readable /\ out_socket = "up" /\ server > 0
              /\ Goes("comm_r", "read_out", "signal_out")
              /\ server' = server - 1
              /\ r_out' = r_out + 1
              /\ UNCHANGED h_event_do_cleanup
           \/ /\ readable /\ out_socket = "failed"
              /\ Goes("comm_r", "read_out", "read_in")
              /\ h_event_do_cleanup' = TRUE
              /\ UNCHANGED <<server, r_out>>
           \/ /\ ~readable \/ out_socket = "none"
                 \/ (out_socket = "up" /\ server = 0)
              /\ Goes("comm_r", "read_out", "read_in")
              /\ UNCHANGED <<server, r_out, h_event_do_cleanup>>
    /\ r_ready' = r_ready \ {"out"}
    /\ UNCHANGED <<app_vars, h_event_start_threads,
                   h_event_cleanup_ended, h_event_process_data,
                   h_event_new_message, stopped, ended, r_in, w_in, w_out,
                   client_vars, out_vars, w_ready, sent, failures, accepted>>

\* read_in_socket: a request is put into r_in_messages, or the client is
\* gone, or there is nothing to read.
ReadIn ==
    /\ ~ConnectionsLocked
    /\ \/ /\ "in" \in r_ready /\ connected /\ sent < MaxRequests
          /\ Goes("comm_r", "read_in", "signal_in")
          /\ sent' = sent + 1
          /\ r_in' = r_in + 1
          /\ UNCHANGED client_vars
       \/ /\ "in" \in r_ready /\ connected
          /\ Goes("comm_r", "read_in", "loop")
          /\ connected' = FALSE /\ in_w_buffer' = 0
          /\ UNCHANGED <<sent, r_in>>
       \/ /\ ~("in" \in r_ready /\ connected)
          /\ Goes("comm_r", "read_in", "loop")
          /\ UNCHANGED <<sent, r_in, client_vars>>
    /\ r_ready' = {}
    /\ UNCHANGED <<app_vars, event_vars, r_out, w_in, w_out, out_vars,
                   w_ready, server, failures, accepted>>

SignalProcessData(from, to) ==
    /\ Goes("comm_r", from, to)
    /\ h_event_process_data' = TRUE
    /\ UNCHANGED <<app_vars, h_event_start_threads, h_event_do_cleanup,
                   h_event_cleanup_ended, h_event_new_message, stopped, ended,
                   queue_vars, client_vars, out_vars, ready_vars, env_vars>>

(***************************************************************************)
(* The connection to the server breaks.                                    *)
(***************************************************************************)

OutSocketFails ==
    /\ pc["main"] # "done"
    /\ out_socket = "up"
    /\ failures < MaxFailures
    /\ out_socket' = "failed"
    /\ failures' = failures + 1
    /\ server' = 0
    /\ UNCHANGED <<app_vars, pc, event_vars, queue_vars, client_vars,
                   out_w_buffer, is_out_connection_OK, abandoned, out_locked,
                   ready_vars, sent, accepted>>

Terminated == pc["main"] = "done" /\ UNCHANGED vars

-----------------------------------------------------------------------------

CleanupThread ==
    \/ StopWorkers
    \/ WakeCommW
    \/ WakeProcess
    \/ Barrier
    \/ CleanUp
    \/ RemoveConnections
    \/ ResetDoCleanup
    \/ RearmCommW
    \/ RearmProcess
    \/ RestartWorkers
    \/ CleanupLoop
    \/ SignalCleanupEnded

AnyWorker(t) ==
    \/ Begin(t)
    \/ WaitStart(t)
    \/ ResetStopped(t)
    \/ Loop(t)

Process ==
    \/ AnyWorker("process")
    \/ WaitProcessData
    \/ SkipConnect
    \/ ConnectFails
    \/ ConnectToOutput
    \/ TakeOut
    \/ SignalNewMessage("signal_out", "take_in")
    \/ TakeIn
    \/ SignalNewMessage("signal_in", "recheck")
    \/ RecheckRead

CommW ==
    \/ AnyWorker("comm_w")
    \/ WaitNewMessage
    \/ FillOut
    \/ FillIn
    \/ Purge
    \/ \E ready \in SUBSET {"in", "out"} : SelectWrite(ready)
    \/ CheckOutWrite
    \/ WriteOut
    \/ WriteIn
    \/ RecheckWrite
    \/ ShutdownOut
    \/ ServerCloses

CommR ==
    \/ AnyWorker("comm_r")
    \/ SelectRead
    \/ CheckOutRead
    \/ ReadOut
    \/ SignalProcessData("signal_out", "read_in")
    \/ ReadIn
    \/ SignalProcessData("signal_in", "loop")

Main == MainStarts \/ MainEnds

Next ==
    \/ Main
    \/ SigintFlag
    \/ SigintEvent
    \/ CleanupThread
    \/ Process
    \/ CommW
    \/ CommR
    \/ OutSocketFails
    \/ Terminated

Spec == Init /\ [][Next]_vars

(***************************************************************************)
(* Windows runs every thread that can run, and the handler of Ctrl-C, once *)
(* started, finishes; the server closes its end of a connection that the   *)
(* muxer shuts down (winsock.c:128-136 waits for it without a timeout, as  *)
(* the socket to the server blocks).                                       *)
(***************************************************************************)
ThreadFairness ==
    /\ WF_vars(Main)
    /\ WF_vars(SigintEvent)
    /\ WF_vars(CleanupThread)
    /\ WF_vars(Process)
    /\ WF_vars(CommW)
    /\ WF_vars(CommR)

(***************************************************************************)
(* For messages to get through, the server must also accept one of         *)
(* infinitely many attempts to connect, a socket that is asked for         *)
(* infinitely often must infinitely often be writable, and the thousandth  *)
(* iteration of comm_w must come.                                          *)
(***************************************************************************)
Fairness ==
    /\ ThreadFairness
    /\ SF_vars(ConnectToOutput)
    /\ SF_vars(Purge)
    /\ SF_vars(SelectWrite({"in", "out"}))

FairSpec == Spec /\ Fairness

-----------------------------------------------------------------------------

(***************************************************************************)
(* No lost wake-up: a worker never waits for its event while a queue it    *)
(* serves holds a message, unless the thread that put the message is about *)
(* to set the event.  The queues are tested again before the loop starts   *)
(* over (dispatcher.c:914, 949), without a lock and after the auto-reset   *)
(* event was consumed, and cleanup() empties them in between.              *)
(***************************************************************************)
NoSleepingOnWork ==
    /\ pc["process"] = "wait_data" /\ ~h_event_process_data
           => \/ r_in = 0 /\ r_out = 0
              \/ pc["comm_r"] \in {"signal_in", "signal_out"}
    /\ pc["comm_w"] = "wait_message" /\ ~h_event_new_message
           => \/ w_in = 0 /\ w_out = 0
              \/ pc["process"] \in {"signal_in", "signal_out"}

(***************************************************************************)
(* The stop events do not stop the workers: a worker that has passed its   *)
(* wait for h_event_start_threads and not yet reset its stop event         *)
(* (dispatcher.c:943-944) goes through its loop once while cleanup() runs. *)
(* What holds is that nobody passes the wait between the reset of the      *)
(* event (dispatcher.c:258) and the SetEvent that ends the cleanup (271),  *)
(* unless main's own SetEvent (969) comes in between.                      *)
(***************************************************************************)
NoIterationDuringCleanup ==
    [][pc["cleanup"] \in Stopping /\ ~late_start
         => \A t \in Worker : ~(pc[t] = "start" /\ pc'[t] = "go")]_vars

(***************************************************************************)
(* Once the cleanup thread waits for the workers to end, none of them is   *)
(* left waiting for an event that nobody will set: after Ctrl-C, the       *)
(* events that thread_cleanup sets (dispatcher.c:269-271) bring every      *)
(* worker to its test of is_app_active, so that the ten seconds of         *)
(* dispatcher.c:275 are not needed and main (dispatcher.c:118) does not    *)
(* delete the critical sections of threads that are still running.  The    *)
(* exception is a Ctrl-C between the SetEvent for a worker (269 for        *)
(* comm_w, 270 for process) and the test in line 273: a worker that has    *)
(* gone round with that event before Ctrl-C waits for another one, which   *)
(* never comes.  comm_w then sends nothing more and does not close the     *)
(* connection to the server.                                               *)
(***************************************************************************)
NobodyLeftWaiting ==
    pc["cleanup"] \in {"wait_end", "done"} =>
        /\ \A t \in Worker : pc[t] = "start" => h_event_start_threads
        /\ pc["process"] = "wait_data" /\ "process" \notin missed
             => h_event_process_data
        /\ pc["comm_w"] = "wait_message" /\ "comm_w" \notin missed
             => h_event_new_message

(***************************************************************************)
(* A cleanup that was asked for completes, and Ctrl-C ends the program:    *)
(* the two SetEvents before the barrier (dispatcher.c:260-261) always      *)
(* bring every worker to its stop event, whatever it was doing, also when  *)
(* Ctrl-C comes while a cleanup is running that resets its event           *)
(* (dispatcher.c:267), and when the server never accepts a connection      *)
(* again.                                                                  *)
(***************************************************************************)
CleanupsAndShutdownComplete ==
    pc["cleanup"] = "wake" \/ ~is_app_active
        ~> IF is_app_active THEN pc["cleanup"] = "wait"
                            ELSE pc["main"] = "done"

(***************************************************************************)
(* Messages do not stay in the queues: the loops come round until they are *)
(* empty, also when process_data takes one message of each queue while     *)
(* comm_r puts the next one behind it (dispatcher.c:949).                  *)
(***************************************************************************)
QueuesDrain ==
    r_in + r_out + w_in + w_out > 0
        ~> (r_in + r_out + w_in + w_out = 0 \/ ~is_app_active)

(***************************************************************************)
(* dispatcher.c:735 adds the sockets to the write set because "this keeps  *)
(* the loop going...", and dispatcher.c:778 keeps the part of the buffer   *)
(* that was not sent for the next round: what is in a client's w_buffer is *)
(* eventually sent.  It is not: the loop looks at the queues only.         *)
(***************************************************************************)
LoopKeepsGoing ==
    in_w_buffer > 0 ~> (in_w_buffer = 0 \/ ~is_app_active)

(***************************************************************************)
(* README.md:4: "at any time the server is aware of only one client, the   *)
(* muxer".  It is not so: neither cleanup() nor connect_to_output closes   *)
(* the socket that is replaced.                                            *)
(***************************************************************************)
ServerSeesOneClient ==
    abandoned + (IF out_socket = "up" THEN 1 ELSE 0) <= 1
=============================================================================
