---------------------------- MODULE MCDispatcher ----------------------------
(***************************************************************************)
(* Instances of Dispatcher for TLC.                                        *)
(***************************************************************************)
EXTENDS Dispatcher

\* Nothing is under way, nothing has failed, and nobody has pressed Ctrl-C.
Quiet ==
    /\ is_app_active = TRUE
    /\ missed = {} /\ late_start = FALSE
    /\ h_event_start_threads = TRUE
    /\ h_event_do_cleanup = FALSE
    /\ h_event_cleanup_ended = FALSE
    /\ h_event_process_data = FALSE
    /\ h_event_new_message = FALSE
    /\ ended = [t \in Worker |-> FALSE]
    /\ r_in = 0 /\ r_out = 0 /\ w_in = 0 /\ w_out = 0
    /\ in_w_buffer = 0 /\ out_w_buffer = 0
    /\ abandoned = 0
    /\ out_locked = FALSE
    /\ r_ready = {} /\ w_ready = {}
    /\ server = 0 /\ failures = 0

\* There is no connection yet.
Unconnected ==
    /\ connected = FALSE
    /\ is_out_connection_OK = FALSE
    /\ out_socket = "none"

(***************************************************************************)
(* A state that every run of the muxer comes to: a client has sent its     *)
(* request, which made process connect to the server, has got its answer   *)
(* and has stayed or left; all threads wait for something to do.  Starting *)
(* here instead of in Init, failures and Ctrl-C are checked against a      *)
(* connection that is up without all the ways that lead to it.             *)
(***************************************************************************)
InitConnected ==
    /\ Quiet
    /\ pc = [main |-> "wait", cleanup |-> "wait", sigint |-> "idle",
             process |-> "wait_data", comm_w |-> "wait_message",
             comm_r |-> "select"]
    /\ stopped = [t \in Worker |-> FALSE]
    /\ connected \in BOOLEAN
    /\ is_out_connection_OK = TRUE
    /\ out_socket = "up"
    /\ sent = MaxRequests /\ accepted = MaxClients

\* Bound: a failure comes when at most one request was sent; the second one is
\* sent before the cleanup for it, during it or later.
FailureBeforeSecondRequest == failures' # failures => sent <= 1

\* The muxer has started, and all workers are about to begin their first round.
InitStarted ==
    /\ Quiet /\ Unconnected
    /\ pc = [main |-> "wait", cleanup |-> "wait", sigint |-> "idle",
             process |-> "start", comm_w |-> "start", comm_r |-> "start"]
    /\ stopped = [t \in Worker |-> TRUE]
    /\ sent = 0 /\ accepted = 0

FairSpecStarted == InitStarted /\ [][Next]_vars /\ Fairness

\* All variables but `abandoned`, a count that no action and neither of the
\* properties of DispatcherShutdown reads: states that differ in it only have
\* the same future.
WithoutAbandoned ==
    <<app_vars, pc, event_vars, queue_vars, client_vars, out_w_buffer,
      is_out_connection_OK, out_socket, out_locked, ready_vars, env_vars>>

FairSpecConnected == InitConnected /\ [][Next]_vars /\ ThreadFairness
=============================================================================
