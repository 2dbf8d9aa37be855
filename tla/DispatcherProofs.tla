--------------------------- MODULE DispatcherProofs ---------------------------
(***************************************************************************)
(* Proofs about Dispatcher, for any number of requests, failures, clients  *)
(* and parts of a buffer, with and without Ctrl-C.                         *)
(***************************************************************************)
EXTENDS Dispatcher, TLAPS

-----------------------------------------------------------------------------
(* The inductive invariant. *)

\* TypeOK, without the bounds on the counters.
ThreadsTypeOK ==
    /\ is_app_active \in BOOLEAN
    /\ pc \in [Thread -> Label]

NotesTypeOK ==
    /\ missed \subseteq Worker
    /\ late_start \in BOOLEAN

EventsTypeOK ==
    /\ h_event_start_threads \in BOOLEAN /\ h_event_do_cleanup \in BOOLEAN
    /\ h_event_cleanup_ended \in BOOLEAN
    /\ h_event_process_data \in BOOLEAN /\ h_event_new_message \in BOOLEAN
    /\ stopped \in [Worker -> BOOLEAN] /\ ended \in [Worker -> BOOLEAN]

ConnectionsTypeOK ==
    /\ connected \in BOOLEAN
    /\ is_out_connection_OK \in BOOLEAN
    /\ out_socket \in {"none", "up", "failed"}
    /\ out_locked \in BOOLEAN
    /\ r_ready \subseteq {"in", "out"} /\ w_ready \subseteq {"in", "out"}

CountersTypeOK ==
    /\ r_in \in Nat /\ r_out \in Nat /\ w_in \in Nat /\ w_out \in Nat
    /\ in_w_buffer \in 0 .. Parts /\ out_w_buffer \in 0 .. Parts
    /\ server \in Nat
    /\ abandoned \in Nat
    /\ sent \in 0 .. MaxRequests
    /\ failures \in 0 .. MaxFailures
    /\ accepted \in 0 .. MaxClients

\* A request that was read from a client is in one place or lost: in a queue,
\* in the w_buffer, at the server, or as its reply in a queue.
RequestsConserved ==
    r_in + w_out + (IF out_w_buffer > 0 THEN 1 ELSE 0) + server + r_out + w_in
        <= sent

\* Does the cleanup thread still have to do a cleanup for an event that was
\* set?
CleanupPending ==
    \/ pc["cleanup"] \in {"wake", "wake_process", "barrier", "clean"}
    \/ /\ pc["cleanup"] \in {"wait", "rearm", "rearm_process", "restart",
                             "while"}
       /\ h_event_do_cleanup

\* The working sockets to the server that were replaced, or will be without
\* another failure: each one is paid for by a failure or by Ctrl-C.
AbandonedPaid ==
    abandoned + (IF out_socket = "up" /\ ~is_out_connection_OK THEN 1 ELSE 0)
              + (IF out_socket = "failed" \/ CleanupPending THEN 1 ELSE 0)
        <= failures + (IF pc["sigint"] = "done" THEN 1 ELSE 0)

\* From the second look at its queues to the wait for its event, a worker
\* misses no message.
WorkSignalled ==
    /\ pc["process"] \in {"begin", "loop", "start", "go", "wait_data"}
         /\ ~h_event_process_data
           => \/ r_in = 0 /\ r_out = 0
              \/ pc["comm_r"] \in {"signal_in", "signal_out"}
    /\ pc["comm_w"] \in {"begin", "loop", "start", "go", "wait_message"}
         /\ ~h_event_new_message
           => \/ w_in = 0 /\ w_out = 0
              \/ pc["process"] \in {"signal_in", "signal_out"}

\* h_event_start_threads is reset as long as the cleanup thread is at work,
\* unless main sets it late.
StartEventHeld ==
    /\ h_event_start_threads <=> pc["cleanup"] \notin Stopping \/ late_start
    /\ late_start => pc["cleanup"] \in Stopping

\* After Ctrl-C and the SetEvent for a worker that follows, that worker finds
\* its event set if it may wait once more.
ProcessSignalled ==
    "process" \notin missed
      /\ pc["cleanup"] \in {"restart", "while", "wait_end", "done"}
      /\ pc["process"] \in {"begin", "start", "go", "wait_data"}
        => h_event_process_data

CommWSignalled ==
    "comm_w" \notin missed
      /\ pc["cleanup"] \in {"rearm_process", "restart", "while", "wait_end",
                            "done"}
      /\ pc["comm_w"] \in {"begin", "start", "go", "wait_message"}
        => h_event_new_message

EndSignalled ==
    /\ is_app_active <=> pc["sigint"] = "idle"
    /\ pc["cleanup"] \in {"wait_end", "done"} => ~is_app_active
    /\ ~is_app_active => ProcessSignalled /\ CommWSignalled

DispatcherInv ==
    /\ ThreadsTypeOK
    /\ NotesTypeOK
    /\ EventsTypeOK
    /\ ConnectionsTypeOK
    /\ CountersTypeOK
    /\ RequestsConserved
    /\ AbandonedPaid
    /\ WorkSignalled
    /\ StartEventHeld
    /\ EndSignalled

-----------------------------------------------------------------------------
(* Types. *)

\* The places where a thread can be.
LEMMA LabelFacts ==
    /\ "wake" \in Label /\ "wake_process" \in Label /\ "barrier" \in Label
    /\ "clean" \in Label /\ "remove" \in Label /\ "reset" \in Label
    /\ "rearm" \in Label /\ "rearm_process" \in Label /\ "restart" \in Label
    /\ "spawn" \in Label /\ "wait" \in Label /\ "done" \in Label
    /\ "idle" \in Label /\ "flag" \in Label /\ "while" \in Label
    /\ "wait_end" \in Label /\ "begin" \in Label /\ "start" \in Label
    /\ "go" \in Label /\ "loop" \in Label /\ "ended" \in Label
    /\ "wait_data" \in Label /\ "connect" \in Label /\ "take_out" \in Label
    /\ "signal_out" \in Label /\ "take_in" \in Label /\ "signal_in" \in Label
    /\ "recheck" \in Label /\ "wait_message" \in Label /\ "fill_out" \in Label
    /\ "fill_in" \in Label /\ "select" \in Label /\ "check_out" \in Label
    /\ "write_out" \in Label /\ "write_in" \in Label /\ "shutdown" \in Label
    /\ "drain" \in Label /\ "read_out" \in Label /\ "read_in" \in Label
  BY DEF Label, Stopping

\* At the start no worker runs yet.
LEMMA InitThreadsTypeOK == Init => ThreadsTypeOK
<1> SUFFICES ASSUME Init PROVE ThreadsTypeOK
  OBVIOUS
<1>1. pc \in [Thread -> Label]
  BY LabelFacts DEF Init, Thread, Worker
<1> QED
  BY <1>1 DEF Init, ThreadsTypeOK

\* A step of a thread ends in one of the places.
LEMMA GoesTypeOK ==
    ASSUME pc \in [Thread -> Label], NEW t, NEW from, NEW to \in Label,
           Goes(t, from, to)
    PROVE  pc' \in [Thread -> Label]
  BY DEF Goes

\* Every thread stays in the program.
LEMMA StepPcTypeOK ==
    ASSUME pc \in [Thread -> Label], [Next]_vars
    PROVE  pc' \in [Thread -> Label]
<1> USE LabelFacts, GoesTypeOK
<1>1. CASE Main \/ SigintFlag \/ SigintEvent
  BY <1>1 DEF Main, MainStarts, MainEnds, SigintFlag, SigintEvent
<1>2. CASE CleanupThread
  <2>1. CASE CleanupLoop
    <3>1. (IF is_app_active THEN "wait" ELSE "wait_end") \in Label
      OBVIOUS
    <3> QED
      BY <2>1, <3>1 DEF CleanupLoop
  <2>2. CASE \/ StopWorkers \/ WakeCommW \/ WakeProcess \/ Barrier \/ CleanUp
    BY <2>2 DEF StopWorkers, WakeCommW, WakeProcess, Barrier, CleanUp
  <2>3. CASE \/ RemoveConnections \/ ResetDoCleanup \/ RearmCommW
             \/ RearmProcess \/ RestartWorkers \/ SignalCleanupEnded
    BY <2>3
    DEF RemoveConnections, ResetDoCleanup, RearmCommW, RearmProcess,
        RestartWorkers, SignalCleanupEnded
  <2> QED
    BY <1>2, <2>1, <2>2, <2>3 DEF CleanupThread
<1>3. ASSUME NEW t \in Worker, AnyWorker(t) PROVE pc' \in [Thread -> Label]
  <2>1. CASE Begin(t) \/ WaitStart(t)
    BY <2>1 DEF Begin, WaitStart
  <2>2. CASE ResetStopped(t)
    <3>1. (CASE t = "process" -> "wait_data"
             [] t = "comm_w"  -> "wait_message"
             [] t = "comm_r"  -> "select") \in Label
      BY DEF Worker
    <3> QED
      BY <2>2, <3>1 DEF ResetStopped
  <2>3. CASE Loop(t)
    BY <2>3 DEF Loop
  <2> QED
    BY <1>3, <2>1, <2>2, <2>3 DEF AnyWorker
<1>4. CASE Process
  <2>1. CASE WaitProcessData \/ SkipConnect \/ ConnectFails \/ ConnectToOutput
    BY <2>1 DEF WaitProcessData, SkipConnect, ConnectFails, ConnectToOutput
  <2>2. CASE TakeOut \/ TakeIn \/ RecheckRead
    BY <2>2 DEF TakeOut, TakeIn, RecheckRead
  <2>3. CASE \/ SignalNewMessage("signal_out", "take_in")
             \/ SignalNewMessage("signal_in", "recheck")
    BY <2>3 DEF SignalNewMessage
  <2> QED
    BY <1>3, <1>4, <2>1, <2>2, <2>3 DEF Process, Worker
<1>5. CASE CommW
  <2>1. CASE WaitNewMessage \/ FillOut \/ FillIn \/ Purge
    BY <2>1 DEF WaitNewMessage, FillOut, FillIn, Purge
  <2>2. ASSUME NEW ready, SelectWrite(ready) PROVE pc' \in [Thread -> Label]
    BY <2>2 DEF SelectWrite
  <2>3. CASE CheckOutWrite
    <3>1. (IF is_out_connection_OK THEN "write_out" ELSE "write_in") \in Label
      OBVIOUS
    <3> QED
      BY <2>3, <3>1 DEF CheckOutWrite
  <2>4. CASE \/ WriteOut \/ WriteIn \/ RecheckWrite \/ ShutdownOut
             \/ ServerCloses
    BY <2>4 DEF WriteOut, WriteIn, RecheckWrite, ShutdownOut, ServerCloses
  <2> QED
    BY <1>3, <1>5, <2>1, <2>2, <2>3, <2>4 DEF CommW, Worker
<1>6. CASE CommR
  <2>1. CASE SelectRead \/ ReadOut \/ ReadIn
    BY <2>1 DEF SelectRead, ReadOut, ReadIn
  <2>2. CASE CheckOutRead
    <3>1. (IF is_out_connection_OK THEN "read_out" ELSE "read_in") \in Label
      OBVIOUS
    <3> QED
      BY <2>2, <3>1 DEF CheckOutRead
  <2>3. CASE \/ SignalProcessData("signal_out", "read_in")
             \/ SignalProcessData("signal_in", "loop")
    BY <2>3 DEF SignalProcessData
  <2> QED
    BY <1>3, <1>6, <2>1, <2>2, <2>3 DEF CommR, Worker
<1>7. CASE OutSocketFails \/ Terminated \/ UNCHANGED vars
  BY <1>7 DEF OutSocketFails, Terminated, vars
<1> QED
  BY <1>1, <1>2, <1>4, <1>5, <1>6, <1>7 DEF Next

\* is_app_active and the two notes on late SetEvents have their types.
LEMMA StepAppTypeOK ==
    ASSUME is_app_active \in BOOLEAN, NotesTypeOK, [Next]_vars
    PROVE  is_app_active' \in BOOLEAN /\ NotesTypeOK'
<1> USE DEF NotesTypeOK, app_vars
<1>1. CASE MainStarts
  <2>1. (pc["cleanup"] \in Stopping) \in BOOLEAN
    OBVIOUS
  <2>2. late_start' = (pc["cleanup"] \in Stopping)
    BY <1>1, Zenon DEF MainStarts
  <2>3. late_start' \in BOOLEAN
    BY <2>1, <2>2, Zenon
  <2> QED
    BY <1>1, <2>3 DEF MainStarts
<1>2. CASE MainEnds \/ SigintEvent
  BY <1>2 DEF MainEnds, SigintEvent
<1>3. CASE SigintFlag
  <2>1. missed' \in {{}, {"comm_w"}, {"comm_w", "process"}}
    BY <1>3, Zenon DEF SigintFlag
  <2> QED
    BY <1>3, <2>1 DEF SigintFlag, Worker
<1>4. CASE CleanupThread
  BY <1>4
  DEF CleanupThread, StopWorkers, WakeCommW, WakeProcess, Barrier, CleanUp,
      RemoveConnections, ResetDoCleanup, RearmCommW, RearmProcess,
      RestartWorkers, CleanupLoop, SignalCleanupEnded
<1>5. ASSUME NEW t, AnyWorker(t) PROVE UNCHANGED app_vars
  BY <1>5 DEF AnyWorker, Begin, WaitStart, ResetStopped, Loop
<1>6. CASE Process
  BY <1>5, <1>6
  DEF Process, WaitProcessData, SkipConnect, ConnectFails, ConnectToOutput,
      TakeOut, SignalNewMessage, TakeIn, RecheckRead
<1>7. CASE CommW
  BY <1>5, <1>7
  DEF CommW, WaitNewMessage, FillOut, FillIn, Purge, SelectWrite,
      CheckOutWrite, WriteOut, WriteIn, RecheckWrite, ShutdownOut, ServerCloses
<1>8. CASE CommR
  BY <1>5, <1>8
  DEF CommR, SelectRead, CheckOutRead, ReadOut, ReadIn, SignalProcessData
<1>9. CASE OutSocketFails \/ Terminated \/ UNCHANGED vars
  BY <1>9 DEF OutSocketFails, Terminated, vars
<1> QED
  BY <1>1, <1>2, <1>3, <1>4, <1>6, <1>7, <1>8, <1>9 DEF Main, Next

\* Both together.
LEMMA StepThreadsTypeOK ==
    ASSUME ThreadsTypeOK, NotesTypeOK, [Next]_vars
    PROVE  ThreadsTypeOK' /\ NotesTypeOK'
  BY StepPcTypeOK, StepAppTypeOK DEF ThreadsTypeOK

\* Every event is set or reset.
LEMMA StepEventsTypeOK ==
    ASSUME EventsTypeOK, [Next]_vars PROVE EventsTypeOK'
<1> USE DEF EventsTypeOK, event_vars
<1>1. CASE Main \/ SigintFlag \/ SigintEvent
  BY <1>1 DEF Main, MainStarts, MainEnds, SigintFlag, SigintEvent
<1>2. CASE CleanupThread
  BY <1>2
  DEF CleanupThread, StopWorkers, WakeCommW, WakeProcess, Barrier, CleanUp,
      RemoveConnections, ResetDoCleanup, RearmCommW, RearmProcess,
      RestartWorkers, CleanupLoop, SignalCleanupEnded
<1>3. ASSUME NEW t \in Worker, AnyWorker(t) PROVE EventsTypeOK'
  BY <1>3 DEF AnyWorker, Begin, WaitStart, ResetStopped, Loop
<1>4. CASE Process
  BY <1>3, <1>4
  DEF Process, WaitProcessData, SkipConnect, ConnectFails, ConnectToOutput,
      TakeOut, SignalNewMessage, TakeIn, RecheckRead, Worker
<1>5. CASE CommW
  BY <1>3, <1>5
  DEF CommW, WaitNewMessage, FillOut, FillIn, Purge, SelectWrite,
      CheckOutWrite, WriteOut, WriteIn, RecheckWrite, ShutdownOut,
      ServerCloses, Worker
<1>6. CASE CommR
  BY <1>3, <1>6
  DEF CommR, SelectRead, CheckOutRead, ReadOut, ReadIn, SignalProcessData,
      Worker
<1>7. CASE OutSocketFails \/ Terminated \/ UNCHANGED vars
  BY <1>7 DEF OutSocketFails, Terminated, vars
<1> QED
  BY <1>1, <1>2, <1>4, <1>5, <1>6, <1>7 DEF Next

\* The connections are in one of their states.
LEMMA StepConnectionsTypeOK ==
    ASSUME ConnectionsTypeOK, [Next]_vars PROVE ConnectionsTypeOK'
<1> USE DEF ConnectionsTypeOK, client_vars, out_vars, ready_vars
<1>1. CASE Main \/ SigintFlag \/ SigintEvent
  BY <1>1 DEF Main, MainStarts, MainEnds, SigintFlag, SigintEvent
<1>2. CASE CleanupThread
  BY <1>2
  DEF CleanupThread, StopWorkers, WakeCommW, WakeProcess, Barrier, CleanUp,
      RemoveConnections, ResetDoCleanup, RearmCommW, RearmProcess,
      RestartWorkers, CleanupLoop, SignalCleanupEnded
<1>3. ASSUME NEW t \in Worker, AnyWorker(t) PROVE ConnectionsTypeOK'
  BY <1>3 DEF AnyWorker, Begin, WaitStart, ResetStopped, Loop
<1>4. CASE Process
  BY <1>3, <1>4
  DEF Process, WaitProcessData, SkipConnect, ConnectFails, ConnectToOutput,
      ReplaceOutSocket, TakeOut, SignalNewMessage, TakeIn, RecheckRead, Worker
<1>5. CASE CommW
  BY <1>3, <1>5
  DEF CommW, WaitNewMessage, FillOut, FillIn, Purge, SelectWrite,
      CheckOutWrite, WriteOut, WriteIn, RecheckWrite, ShutdownOut,
      ServerCloses, Worker
<1>6. CASE CommR
  BY <1>3, <1>6
  DEF CommR, SelectRead, CheckOutRead, ReadOut, ReadIn, SignalProcessData,
      Worker
<1>7. CASE OutSocketFails \/ Terminated \/ UNCHANGED vars
  BY <1>7 DEF OutSocketFails, Terminated, vars
<1> QED
  BY <1>1, <1>2, <1>4, <1>5, <1>6, <1>7 DEF Next

\* The counters count.
LEMMA StepCountersTypeOK ==
    ASSUME CountersTypeOK, [Next]_vars PROVE CountersTypeOK'
<1> USE DispatcherAssumption
    DEF CountersTypeOK, DispatcherAssumption, queue_vars, client_vars,
        out_vars, env_vars
<1>1. CASE Main \/ SigintFlag \/ SigintEvent
  BY <1>1 DEF Main, MainStarts, MainEnds, SigintFlag, SigintEvent
<1>2. CASE CleanupThread
  BY <1>2
  DEF CleanupThread, StopWorkers, WakeCommW, WakeProcess, Barrier, CleanUp,
      RemoveConnections, ResetDoCleanup, RearmCommW, RearmProcess,
      RestartWorkers, CleanupLoop, SignalCleanupEnded
<1>3. ASSUME NEW t \in Worker, AnyWorker(t) PROVE CountersTypeOK'
  BY <1>3 DEF AnyWorker, Begin, WaitStart, ResetStopped, Loop
<1>4. CASE Process
  BY <1>3, <1>4
  DEF Process, WaitProcessData, SkipConnect, ConnectFails, ConnectToOutput,
      ReplaceOutSocket, TakeOut, SignalNewMessage, TakeIn, RecheckRead, Worker
<1>5. CASE CommW
  BY <1>3, <1>5
  DEF CommW, WaitNewMessage, FillOut, FillIn, Purge, SelectWrite,
      CheckOutWrite, SendOut, WriteOut, WriteIn, RecheckWrite, ShutdownOut,
      ServerCloses, Worker
<1>6. CASE CommR
  BY <1>3, <1>6
  DEF CommR, SelectRead, CheckOutRead, ReadOut, ReadIn, SignalProcessData,
      Worker
<1>7. CASE OutSocketFails \/ Terminated \/ UNCHANGED vars
  BY <1>7 DEF OutSocketFails, Terminated, vars
<1> QED
  BY <1>1, <1>2, <1>4, <1>5, <1>6, <1>7 DEF Next

-----------------------------------------------------------------------------
(* The counters are related. *)

\* A request moves on, or is lost, but there is never one more than was sent.
LEMMA StepRequestsConserved ==
    ASSUME CountersTypeOK, RequestsConserved, [Next]_vars
    PROVE  RequestsConserved'
<1> USE DispatcherAssumption
    DEF CountersTypeOK, RequestsConserved, DispatcherAssumption, queue_vars,
        client_vars, out_vars, env_vars
<1>1. CASE Main \/ SigintFlag \/ SigintEvent
  BY <1>1 DEF Main, MainStarts, MainEnds, SigintFlag, SigintEvent
<1>2. CASE CleanUp
  BY <1>2 DEF CleanUp
<1>3. CASE CleanupThread /\ ~CleanUp
  BY <1>3
  DEF CleanupThread, StopWorkers, WakeCommW, WakeProcess, Barrier, RemoveConnections,
      ResetDoCleanup, RearmCommW, RearmProcess, RestartWorkers, CleanupLoop,
      SignalCleanupEnded
<1>4. ASSUME NEW t \in Worker, AnyWorker(t) PROVE RequestsConserved'
  BY <1>4 DEF AnyWorker, Begin, WaitStart, ResetStopped, Loop
<1>5. CASE TakeOut
  BY <1>5 DEF TakeOut
<1>6. CASE TakeIn
  BY <1>6 DEF TakeIn
<1>7. CASE ConnectFails \/ ConnectToOutput
  BY <1>7 DEF ConnectFails, ConnectToOutput, ReplaceOutSocket
<1>8. CASE Process /\ ~TakeOut /\ ~TakeIn /\ ~ConnectFails /\ ~ConnectToOutput
  BY <1>4, <1>8
  DEF Process, WaitProcessData, SkipConnect, SignalNewMessage, RecheckRead,
      Worker
<1>9. CASE FillOut
  BY <1>9 DEF FillOut
<1>10. CASE FillIn \/ Purge
  BY <1>10 DEF FillIn, Purge
<1>11. ASSUME SendOut, UNCHANGED <<queue_vars, sent>> PROVE RequestsConserved'
  BY <1>11 DEF SendOut
<1>12. CASE WriteOut
  BY <1>11, <1>12 DEF WriteOut
<1>13. CASE ShutdownOut
  BY <1>11, <1>13 DEF ShutdownOut
<1>14. CASE ServerCloses
  BY <1>14 DEF ServerCloses
<1>15. CASE \/ WaitNewMessage \/ CheckOutWrite \/ WriteIn \/ RecheckWrite
            \/ \E ready \in SUBSET {"in", "out"} : SelectWrite(ready)
  BY <1>15 DEF WaitNewMessage, SelectWrite, CheckOutWrite, WriteIn, RecheckWrite
<1>16. CASE ReadOut
  BY <1>16 DEF ReadOut
<1>17. CASE ReadIn
  BY <1>17 DEF ReadIn
<1>18. CASE CommR /\ ~ReadOut /\ ~ReadIn
  BY <1>4, <1>18 DEF CommR, SelectRead, CheckOutRead, SignalProcessData, Worker
<1>19. CASE OutSocketFails \/ Terminated \/ UNCHANGED vars
  BY <1>19 DEF OutSocketFails, Terminated, vars
<1>20. CASE CommW
  BY <1>4, <1>9, <1>10, <1>12, <1>13, <1>14, <1>15, <1>20 DEF CommW, Worker
<1> QED
  BY <1>1, <1>2, <1>3, <1>5, <1>6, <1>7, <1>8, <1>16, <1>17, <1>18, <1>19,
     <1>20 DEF Next

\* A working socket is replaced only after a cleanup, and a cleanup is asked
\* for only by a failure, once before the socket is replaced, and by Ctrl-C.
LEMMA StepAbandonedPaid ==
    ASSUME ThreadsTypeOK, EventsTypeOK, ConnectionsTypeOK, CountersTypeOK,
           AbandonedPaid, [Next]_vars
    PROVE  AbandonedPaid'
<1> USE DEF ThreadsTypeOK, EventsTypeOK, ConnectionsTypeOK, CountersTypeOK,
            AbandonedPaid, CleanupPending, Goes, out_vars, event_vars, env_vars,
            Thread, Worker
<1>1. CASE Main \/ SigintFlag
  BY <1>1 DEF Main, MainStarts, MainEnds, SigintFlag
<1>2. CASE SigintEvent
  BY <1>2 DEF SigintEvent
<1>3. CASE StopWorkers \/ WakeCommW \/ WakeProcess \/ Barrier
  BY <1>3 DEF StopWorkers, WakeCommW, WakeProcess, Barrier
<1>4. CASE CleanUp
  BY <1>4 DEF CleanUp
<1>5. CASE \/ RemoveConnections \/ ResetDoCleanup \/ RearmCommW \/ RearmProcess
           \/ RestartWorkers
  <2>1. CASE RemoveConnections
    BY <2>1 DEF RemoveConnections
  <2>2. CASE ResetDoCleanup
    BY <2>2 DEF ResetDoCleanup
  <2>3. CASE RearmCommW \/ RearmProcess
    BY <2>3 DEF RearmCommW, RearmProcess
  <2>4. CASE RestartWorkers
    BY <2>4 DEF RestartWorkers
  <2> QED
    BY <1>5, <2>1, <2>2, <2>3, <2>4
<1>6. CASE CleanupLoop \/ SignalCleanupEnded
  BY <1>6 DEF CleanupLoop, SignalCleanupEnded
<1>7. ASSUME NEW t \in Worker, AnyWorker(t) PROVE AbandonedPaid'
  BY <1>7 DEF AnyWorker, Begin, WaitStart, ResetStopped, Loop
<1>8. CASE ConnectFails
  BY <1>8 DEF ConnectFails, ReplaceOutSocket
<1>9. CASE ConnectToOutput
  BY <1>9 DEF ConnectToOutput, ReplaceOutSocket
<1>10. CASE Process /\ ~ConnectFails /\ ~ConnectToOutput
  BY <1>7, <1>10
  DEF Process, WaitProcessData, SkipConnect, TakeOut, SignalNewMessage, TakeIn,
      RecheckRead
<1>11. CASE WriteOut
  BY <1>11 DEF WriteOut
<1>12. CASE ShutdownOut
  BY <1>12 DEF ShutdownOut
<1>13. CASE ServerCloses
  BY <1>13 DEF ServerCloses
<1>14. CASE CommW /\ ~WriteOut /\ ~ShutdownOut /\ ~ServerCloses
  BY <1>7, <1>14
  DEF CommW, WaitNewMessage, FillOut, FillIn, Purge, SelectWrite,
      CheckOutWrite, WriteIn, RecheckWrite
<1>15. CASE ReadOut
  BY <1>15 DEF ReadOut
<1>16. CASE CommR /\ ~ReadOut
  BY <1>7, <1>16
  DEF CommR, SelectRead, CheckOutRead, ReadIn, SignalProcessData
<1>17. CASE OutSocketFails
  BY <1>17 DEF OutSocketFails
<1>18. CASE Terminated \/ UNCHANGED vars
  BY <1>18 DEF Terminated, vars
<1> QED
  BY <1>1, <1>2, <1>3, <1>4, <1>5, <1>6, <1>8, <1>9, <1>10, <1>11, <1>12,
     <1>13, <1>14, <1>15, <1>16, <1>17, <1>18 DEF CleanupThread, Next

-----------------------------------------------------------------------------
(* The events are related to what the threads do. *)

\* A worker on its way to its wait has its event set or its queues empty, or
\* the one who put a message is about to set the event.
LEMMA StepWorkSignalled ==
    ASSUME ThreadsTypeOK, EventsTypeOK, CountersTypeOK, WorkSignalled,
           [Next]_vars
    PROVE  WorkSignalled'
<1> USE DEF ThreadsTypeOK, EventsTypeOK, CountersTypeOK, WorkSignalled, Goes,
            event_vars, queue_vars, Thread, Worker
<1>1. CASE Main \/ SigintFlag \/ SigintEvent
  BY <1>1 DEF Main, MainStarts, MainEnds, SigintFlag, SigintEvent
<1>2. CASE WakeCommW \/ WakeProcess \/ RearmCommW \/ RearmProcess
  BY <1>2 DEF WakeCommW, WakeProcess, RearmCommW, RearmProcess
<1>3. CASE CleanUp
  BY <1>3 DEF CleanUp
<1>4. CASE \/ StopWorkers \/ Barrier \/ RemoveConnections \/ ResetDoCleanup
           \/ RestartWorkers \/ CleanupLoop \/ SignalCleanupEnded
  BY <1>4
  DEF StopWorkers, Barrier, RemoveConnections, ResetDoCleanup, RestartWorkers,
      CleanupLoop, SignalCleanupEnded
<1>5. ASSUME NEW t \in Worker, AnyWorker(t) PROVE WorkSignalled'
  <2>1. CASE Begin(t)
    BY <1>5, <2>1 DEF Begin
  <2>2. CASE WaitStart(t)
    BY <1>5, <2>2 DEF WaitStart
  <2>3. CASE ResetStopped(t)
    BY <1>5, <2>3 DEF ResetStopped
  <2>4. CASE Loop(t)
    BY <1>5, <2>4 DEF Loop
  <2> QED
    BY <1>5, <2>1, <2>2, <2>3, <2>4 DEF AnyWorker
<1>6. CASE WaitProcessData
  BY <1>6 DEF WaitProcessData
<1>7. CASE SkipConnect \/ ConnectFails \/ ConnectToOutput
  BY <1>7 DEF SkipConnect, ConnectFails, ConnectToOutput
<1>8. CASE TakeOut \/ TakeIn
  BY <1>8 DEF TakeOut, TakeIn
<1>9. CASE \/ SignalNewMessage("signal_out", "take_in")
           \/ SignalNewMessage("signal_in", "recheck")
  BY <1>9 DEF SignalNewMessage
<1>10. CASE RecheckRead
  <2>1. ~h_event_process_data' => ~(r_in > 0) /\ ~(r_out > 0)
    BY <1>10, Zenon DEF RecheckRead
  <2>2. ~h_event_process_data' => r_in' = 0 /\ r_out' = 0
    BY <1>10, <2>1 DEF RecheckRead
  <2> QED
    BY <1>10, <2>2 DEF RecheckRead
<1>11. CASE WaitNewMessage
  BY <1>11 DEF WaitNewMessage
<1>12. CASE FillOut \/ FillIn \/ Purge
  BY <1>12 DEF FillOut, FillIn, Purge
<1>13. CASE \/ \E ready \in SUBSET {"in", "out"} : SelectWrite(ready)
            \/ CheckOutWrite \/ WriteOut \/ WriteIn
            \/ ShutdownOut \/ ServerCloses
  BY <1>13
  DEF SelectWrite, CheckOutWrite, WriteOut, WriteIn, ShutdownOut, ServerCloses
<1>14. CASE RecheckWrite
  <2>1. ~h_event_new_message' => ~(w_in > 0) /\ ~(w_out > 0)
    BY <1>14, Zenon DEF RecheckWrite
  <2>2. ~h_event_new_message' => w_in' = 0 /\ w_out' = 0
    BY <1>14, <2>1 DEF RecheckWrite
  <2> QED
    BY <1>14, <2>2 DEF RecheckWrite
<1>15. CASE SelectRead \/ CheckOutRead
  BY <1>15 DEF SelectRead, CheckOutRead
<1>16. CASE ReadOut \/ ReadIn
  BY <1>16 DEF ReadOut, ReadIn
<1>17. CASE \/ SignalProcessData("signal_out", "read_in")
            \/ SignalProcessData("signal_in", "loop")
  BY <1>17 DEF SignalProcessData
<1>18. CASE OutSocketFails \/ Terminated \/ UNCHANGED vars
  BY <1>18 DEF OutSocketFails, Terminated, vars
<1>19. CASE CleanupThread
  BY <1>2, <1>3, <1>4, <1>19 DEF CleanupThread
<1>20. CASE Process
  BY <1>5, <1>6, <1>7, <1>8, <1>9, <1>10, <1>20 DEF Process
<1>21. CASE CommW
  BY <1>5, <1>11, <1>12, <1>13, <1>14, <1>21 DEF CommW
<1>22. CASE CommR
  BY <1>5, <1>15, <1>16, <1>17, <1>22 DEF CommR
<1> QED
  BY <1>1, <1>18, <1>19, <1>20, <1>21, <1>22 DEF Next

\* Only the cleanup thread touches h_event_start_threads.
LEMMA StepStartEventHeld ==
    ASSUME ThreadsTypeOK, StartEventHeld, [Next]_vars PROVE StartEventHeld'
<1> USE DEF ThreadsTypeOK, StartEventHeld, Goes, event_vars, app_vars, Thread,
            Worker
<1>1. CASE Main \/ SigintFlag \/ SigintEvent
  <2>1. pc'["cleanup"] = pc["cleanup"]
    BY <1>1 DEF Main, MainStarts, MainEnds, SigintFlag, SigintEvent
  <2>2. CASE MainStarts
    <3>1. /\ h_event_start_threads'
          /\ late_start' <=> pc["cleanup"] \in Stopping
      BY <2>2, Zenon DEF MainStarts
    <3> QED
      BY <2>1, <3>1
  <2>3. CASE MainEnds \/ SigintFlag \/ SigintEvent
    BY <2>1, <2>3 DEF MainEnds, SigintFlag, SigintEvent
  <2> QED
    BY <1>1, <2>2, <2>3 DEF Main
<1>2. CASE CleanupThread
  <2> USE DEF Stopping
  <2>1. CASE StopWorkers
    BY <2>1 DEF StopWorkers
  <2>2. CASE WakeCommW \/ WakeProcess \/ Barrier \/ CleanUp
    BY <2>2 DEF WakeCommW, WakeProcess, Barrier, CleanUp
  <2>3. CASE \/ RemoveConnections \/ ResetDoCleanup \/ RearmCommW
             \/ RearmProcess
    BY <2>3 DEF RemoveConnections, ResetDoCleanup, RearmCommW, RearmProcess
  <2>4. CASE RestartWorkers
    BY <2>4 DEF RestartWorkers
  <2>5. CASE CleanupLoop \/ SignalCleanupEnded
    BY <2>5 DEF CleanupLoop, SignalCleanupEnded
  <2> QED
    BY <1>2, <2>1, <2>2, <2>3, <2>4, <2>5 DEF CleanupThread
<1>3. ASSUME NEW t \in Worker, AnyWorker(t) PROVE StartEventHeld'
  BY <1>3 DEF AnyWorker, Begin, WaitStart, ResetStopped, Loop
<1>4. CASE Process
  BY <1>3, <1>4
  DEF Process, WaitProcessData, SkipConnect, ConnectFails, ConnectToOutput,
      TakeOut, SignalNewMessage, TakeIn, RecheckRead
<1>5. CASE CommW
  BY <1>3, <1>5
  DEF CommW, WaitNewMessage, FillOut, FillIn, Purge, SelectWrite,
      CheckOutWrite, WriteOut, WriteIn, RecheckWrite, ShutdownOut, ServerCloses
<1>6. CASE CommR
  BY <1>3, <1>6
  DEF CommR, SelectRead, CheckOutRead, ReadOut, ReadIn, SignalProcessData
<1>7. CASE OutSocketFails \/ Terminated \/ UNCHANGED vars
  BY <1>7 DEF OutSocketFails, Terminated, vars
<1> QED
  BY <1>1, <1>2, <1>4, <1>5, <1>6, <1>7 DEF Next

\* Who tests is_app_active after the last rearming does not wait again, and
\* who has tested it before finds the event set.
LEMMA StepEndSignalled ==
    ASSUME ThreadsTypeOK, EventsTypeOK, EndSignalled, [Next]_vars
    PROVE  EndSignalled'
<1> USE DEF ThreadsTypeOK, EventsTypeOK, EndSignalled, ProcessSignalled,
            CommWSignalled, Goes, app_vars,
            event_vars, Thread, Worker
<1>1. CASE Main \/ SigintEvent
  BY <1>1 DEF Main, MainStarts, MainEnds, SigintEvent
<1>2. CASE SigintFlag
  <2>1. /\ pc["cleanup"] \in {"rearm_process", "restart", "while"}
             => "comm_w" \in missed'
        /\ pc["cleanup"] \in {"restart", "while"} => "process" \in missed'
    BY <1>2 DEF SigintFlag
  <2>2. /\ is_app_active /\ ~is_app_active'
        /\ pc'["sigint"] = "flag"
        /\ pc'["cleanup"] = pc["cleanup"]
    BY <1>2 DEF SigintFlag
  <2> QED
    BY <2>1, <2>2
<1>3. CASE \/ StopWorkers \/ WakeCommW \/ WakeProcess \/ Barrier \/ CleanUp
           \/ RemoveConnections \/ ResetDoCleanup
  BY <1>3 DEF StopWorkers, WakeCommW, WakeProcess, Barrier, CleanUp,
     RemoveConnections, ResetDoCleanup
<1>4. CASE RearmCommW \/ RearmProcess \/ RestartWorkers
  BY <1>4 DEF RearmCommW, RearmProcess, RestartWorkers
<1>5. CASE CleanupLoop \/ SignalCleanupEnded
  BY <1>5 DEF CleanupLoop, SignalCleanupEnded
<1>6. ASSUME NEW t \in Worker, AnyWorker(t) PROVE EndSignalled'
  <2>1. CASE Begin(t)
    BY <1>6, <2>1 DEF Begin
  <2>4. CASE WaitStart(t)
    BY <1>6, <2>4 DEF WaitStart
  <2>2. CASE ResetStopped(t)
    BY <1>6, <2>2 DEF ResetStopped
  <2>3. CASE Loop(t)
    BY <1>6, <2>3 DEF Loop
  <2> QED
    BY <1>6, <2>1, <2>2, <2>3, <2>4 DEF AnyWorker
<1>7. CASE Process
  BY <1>6, <1>7
  DEF Process, WaitProcessData, SkipConnect, ConnectFails, ConnectToOutput,
      TakeOut, SignalNewMessage, TakeIn, RecheckRead
<1>8. CASE CommW
  BY <1>6, <1>8
  DEF CommW, WaitNewMessage, FillOut, FillIn, Purge, SelectWrite,
      CheckOutWrite, WriteOut, WriteIn, RecheckWrite, ShutdownOut, ServerCloses
<1>9. CASE CommR
  BY <1>6, <1>9
  DEF CommR, SelectRead, CheckOutRead, ReadOut, ReadIn, SignalProcessData
<1>10. CASE OutSocketFails \/ Terminated \/ UNCHANGED vars
  BY <1>10 DEF OutSocketFails, Terminated, vars
<1> QED
  BY <1>1, <1>2, <1>3, <1>4, <1>5, <1>7, <1>8, <1>9, <1>10
  DEF CleanupThread, Next

-----------------------------------------------------------------------------
(* The invariant, and what follows from it. *)

\* The muxer starts with no message, no failure and all threads waiting.
LEMMA InitDispatcherInv == Init => DispatcherInv
<1> SUFFICES ASSUME Init PROVE DispatcherInv
  OBVIOUS
<1>1. ThreadsTypeOK /\ NotesTypeOK
  BY InitThreadsTypeOK DEF Init, NotesTypeOK
<1>2. /\ \A t \in Worker : pc[t] = "begin"
      /\ pc["sigint"] = "idle" /\ pc["cleanup"] = "wait"
  BY DEF Init, Thread, Worker
<1>3. EventsTypeOK /\ ConnectionsTypeOK
  BY DEF Init, EventsTypeOK, ConnectionsTypeOK
<1>4. CountersTypeOK
  BY DispatcherAssumption DEF Init, CountersTypeOK, DispatcherAssumption
<1>5. RequestsConserved /\ AbandonedPaid
  <2>1. ~CleanupPending
    BY <1>2 DEF Init, CleanupPending
  <2> QED
    BY <1>2, <2>1 DEF Init, RequestsConserved, AbandonedPaid
<1>6. WorkSignalled /\ StartEventHeld /\ EndSignalled
  BY <1>2 DEF Init, WorkSignalled, StartEventHeld, EndSignalled, Stopping
<1> QED
  BY <1>1, <1>3, <1>4, <1>5, <1>6 DEF DispatcherInv

\* Every step, stuttering included, keeps the invariant.
LEMMA StepDispatcherInv == DispatcherInv /\ [Next]_vars => DispatcherInv'
<1> SUFFICES ASSUME DispatcherInv, [Next]_vars PROVE DispatcherInv'
  OBVIOUS
<1> USE DEF DispatcherInv
<1>1. /\ ThreadsTypeOK' /\ NotesTypeOK' /\ EventsTypeOK'
      /\ ConnectionsTypeOK' /\ CountersTypeOK'
  BY StepThreadsTypeOK, StepEventsTypeOK, StepConnectionsTypeOK,
     StepCountersTypeOK
<1>2. RequestsConserved' /\ AbandonedPaid'
  BY StepRequestsConserved, StepAbandonedPaid
<1>3. WorkSignalled' /\ StartEventHeld' /\ EndSignalled'
  BY StepWorkSignalled, StepStartEventHeld, StepEndSignalled
<1> QED
  BY <1>1, <1>2, <1>3

\* In every reachable state the invariant holds.
LEMMA DispatcherInvCorrect == Spec => []DispatcherInv
  BY InitDispatcherInv, StepDispatcherInv, PTL DEF Spec

(***************************************************************************)
(* No queue ever holds more messages than requests were read               *)
(* (dispatcher.c:482), and no more working sockets to the server are       *)
(* replaced than there were failures, and one for Ctrl-C                   *)
(* (protocol.c:296): the bounds of TypeOK.                                 *)
(***************************************************************************)
THEOREM DispatcherTypeCorrect == Spec => []TypeOK
<1>1. DispatcherInv => TypeOK
  BY DispatcherAssumption
  DEF DispatcherInv, TypeOK, ThreadsTypeOK, NotesTypeOK, EventsTypeOK,
      ConnectionsTypeOK, CountersTypeOK, RequestsConserved, AbandonedPaid, DispatcherAssumption
<1> QED
  BY <1>1, DispatcherInvCorrect, PTL

(***************************************************************************)
(* A connection to the server that works is given up without being closed  *)
(* at most once per failure of another one, and once for Ctrl-C: a failure *)
(* that is reported twice, or while its cleanup is still running           *)
(* (dispatcher.c:267), does not make the muxer abandon more sockets.       *)
(***************************************************************************)
THEOREM AbandonedBounded == Spec => [](abandoned <= failures + 1)
<1>1. DispatcherInv => abandoned <= failures + 1
  BY DEF DispatcherInv, AbandonedPaid, CountersTypeOK
<1> QED
  BY <1>1, DispatcherInvCorrect, PTL

(***************************************************************************)
(* No wake-up is lost, for any number of messages in the queues: a worker  *)
(* never waits for an event that is not set while there is something to do *)
(* for it, unless another thread is about to set it.                       *)
(***************************************************************************)
THEOREM NoSleepingOnWorkCorrect == Spec => []NoSleepingOnWork
<1>1. DispatcherInv => NoSleepingOnWork
  BY DEF DispatcherInv, WorkSignalled, NoSleepingOnWork
<1> QED
  BY <1>1, DispatcherInvCorrect, PTL

(***************************************************************************)
(* When the cleanup thread waits for the workers to end, no worker waits   *)
(* for an event that nobody will set, unless Ctrl-C came between the       *)
(* SetEvent for this worker (dispatcher.c:269, 270) and the test of        *)
(* is_app_active (273).                                                    *)
(***************************************************************************)
THEOREM NobodyLeftWaitingCorrect == Spec => []NobodyLeftWaiting
<1>1. DispatcherInv => NobodyLeftWaiting
  BY DEF DispatcherInv, EndSignalled, ProcessSignalled, CommWSignalled,
     StartEventHeld, Stopping, NobodyLeftWaiting
<1> QED
  BY <1>1, DispatcherInvCorrect, PTL

\* The only way from the start of the loop goes through WaitStart.
LEMMA OnlyWaitStartStarts ==
    ASSUME ThreadsTypeOK, [Next]_vars, NEW t \in Worker,
           pc[t] = "start", pc'[t] = "go"
    PROVE  WaitStart(t)
<1> USE DEF ThreadsTypeOK, Goes, Thread, Worker
<1>1. CASE Main \/ SigintFlag \/ SigintEvent
  BY <1>1 DEF Main, MainStarts, MainEnds, SigintFlag, SigintEvent
<1>2. CASE CleanupThread
  BY <1>2
  DEF CleanupThread, StopWorkers, WakeCommW, WakeProcess, Barrier, CleanUp,
      RemoveConnections, ResetDoCleanup, RearmCommW, RearmProcess,
      RestartWorkers, CleanupLoop, SignalCleanupEnded
<1>3. ASSUME NEW u \in Worker, AnyWorker(u) PROVE WaitStart(t)
  <2>1. ~Begin(u) /\ ~ResetStopped(u) /\ ~Loop(u)
    BY DEF Begin, ResetStopped, Loop
  <2>2. u # t => ~WaitStart(u)
    BY DEF WaitStart
  <2> QED
    BY <1>3, <2>1, <2>2 DEF AnyWorker
<1>4. CASE Process
  BY <1>3, <1>4
  DEF Process, WaitProcessData, SkipConnect, ConnectFails, ConnectToOutput,
      TakeOut, SignalNewMessage, TakeIn, RecheckRead
<1>5. CASE CommW
  BY <1>3, <1>5
  DEF CommW, WaitNewMessage, FillOut, FillIn, Purge, SelectWrite,
      CheckOutWrite, WriteOut, WriteIn, RecheckWrite, ShutdownOut, ServerCloses
<1>6. CASE CommR
  BY <1>3, <1>6
  DEF CommR, SelectRead, CheckOutRead, ReadOut, ReadIn, SignalProcessData
<1>7. CASE OutSocketFails \/ Terminated \/ UNCHANGED vars
  BY <1>7 DEF OutSocketFails, Terminated, vars
<1> QED
  BY <1>1, <1>2, <1>4, <1>5, <1>6, <1>7 DEF Next

(***************************************************************************)
(* From the reset of h_event_start_threads to the SetEvent that ends the   *)
(* cleanup (dispatcher.c:258-271) no worker passes its wait for that       *)
(* event, unless main sets it in between (969).  A worker that has passed  *)
(* the wait before is not stopped.                                         *)
(***************************************************************************)
THEOREM NoIterationDuringCleanupCorrect == Spec => NoIterationDuringCleanup
<1>1. DispatcherInv /\ [Next]_vars =>
          (pc["cleanup"] \in Stopping /\ ~late_start
             => \A t \in Worker : ~(pc[t] = "start" /\ pc'[t] = "go"))
  <2> SUFFICES ASSUME DispatcherInv, [Next]_vars, NEW t \in Worker,
                      pc["cleanup"] \in Stopping, ~late_start
               PROVE  ~(pc[t] = "start" /\ pc'[t] = "go")
    OBVIOUS
  <2>1. ~h_event_start_threads
    BY DEF DispatcherInv, StartEventHeld
  <2>2. ~WaitStart(t)
    BY <2>1 DEF WaitStart
  <2> QED
    BY <2>2, OnlyWaitStartStarts DEF DispatcherInv
<1> QED
  BY <1>1, DispatcherInvCorrect, PTL DEF Spec, NoIterationDuringCleanup

=============================================================================
