# Formal models of the muxer

The muxer stands between many clients and one server. A client's request is
given an invokeid of the muxer's own, sent to the server over the muxer's only
connection, and the reply that comes back under that invokeid is given the
client's invokeid again and sent to that client. Six threads, eight critical
sections and a dozen Windows events do this in about 1600 lines of C
(`src/muxer`, `src/common`); the messages and their encoding (`src/messages`)
are generated by ASN1SCC.

This directory holds TLA+ models of that program, the configurations that check
them with TLC, and the proofs that TLAPS checks. `PROJECT.json` maps every
definition to the lines it stands for.

## 1. The parts of the system

| part | code | state it keeps | operations |
|---|---|---|---|
| message routing | `muxer/protocol.c`, `mapping.c`, `message.c`, `connection.c` | `connections`, the four message queues, `socket_to_recv_unicast_msg`, the invokeid counter, a `w_buffer` per connection | accept, read, drop a connection; map, encode and forward a request; route a reply; fill and send a buffer; free messages for invalid sockets; take everything down |
| dispatcher | `muxer/dispatcher.c` | `is_app_active`, the events, `out_connection`, the fd sets | the loops of comm_r, comm_w, process and cleanup; main; the Ctrl-C handler |
| message queue | `common/queue.c`, `queue.h` | head, tail, next pointers | `q_alloc`, `q_put`, `q_get`, `q_free` |
| critical sections | all of `muxer` | who is in which | enter, leave |
| framing | `common/pdu.c`, `read_data`, `write_data` | `r_buffer`, `w_buffer` of a connection | split the bytes received into PDUs, send what fits |
| messages | `messages/*` (generated) | none | decode and encode, PER |
| configuration | `common/config.c`, `common/str.h`, `muxer/global.c` | `global_config` | read the file line by line, once, before the threads start |
| logging | `common/logging.c` | `log_file`, the log, the saved logs, the index file | write a line; when the log is full, rename it, count the index up, remove the oldest saved log, open a new one |
| test programs | `test_client`, `test_server` | | the environment: a client sends a request and reads the reply, the server answers each request under the invokeid it came with |

How they interact. comm_r puts what it reads into `r_in_messages` (requests) and
`r_out_messages` (replies) and sets `h_event_process_data`. process takes one of
each per round, and puts replies into `w_in_messages` and requests into
`w_out_messages`, and sets `h_event_new_message`. comm_w copies one message into
each empty `w_buffer` and sends from the buffers. Whoever sees an error of the
server's socket sets `h_event_do_cleanup`; the cleanup thread resets
`h_event_start_threads`, waits until the three workers have set their stop
events, takes down all queues, mappings and connections, and starts them again.
Ctrl-C clears `is_app_active` and asks for a cleanup too.

What is hard about it:

* the stop events do not stop the workers (a worker resets its own after the
  wait for `h_event_start_threads`), so that `cleanup()` interleaves with them;
* flags and queue heads are read outside of the critical sections;
* a message changes hands between three threads, and between two steps its
  client may go, the server may fail, or everything may be taken down;
* the auto-reset events are consumed before the queues are looked at;
* two invokeids with the same value exist when the counter wraps round;
* `select` in comm_w, the barrier and `shutdown_connection` wait without timeout;
* the critical sections are nested in orders that do not agree.

`PROJECT.json` lists each of them with its line ("hazards") and the properties
that would be violated if the code got it wrong.

What makes each part correct. Routing: a reply goes to the client that asked,
once; requests keep their order; a mapping lives exactly as long as its request;
every client is answered or disconnected. Dispatcher: no wake-up is lost, queues
drain, a cleanup and a shutdown end, no worker gets past its wait for
`h_event_start_threads` while the cleanup thread keeps it reset, no worker is
left waiting when the program ends. Queue: it is a FIFO queue, and nobody reads
freed memory.
Critical sections: no deadlock. Framing: the PDUs that are taken out are those
that were put in, however the bytes are cut. Messages: decoding what was encoded
gives it back. Configuration: it is what the file says. Logging: no line
is lost but with a log that is removed for its age, and logging does not end the
program. The code keeps some of these only in part: where it does not, the
property names the exception, and section 3 lists them.

## 2. The modules

`Routing`, `Dispatcher`, `Queue` and `Locks` look at the same program, each from
the side that its properties need. They are not composed: the product is out of
TLC's reach, and each states which part of the others it leaves free.

### Routing

The data path, with messages told apart and the threads free to run at any time.
One action is one critical section, or one iteration of a loop that releases a
lock between iterations.

| actions | code |
|---|---|
| `AcceptClient`, `ReadInSocket`, `DropClient` | comm_r: `read_listener_socket`, `read_in_socket` with `read_data_from_in_buffer`, `shutdown_connection` with `remove_connection` |
| `ReadOutSocket`, `DetectFailure` | comm_r: `read_out_socket`; `late_read`, which the cleanup sets and the next connection resets, is the window between the test of `is_out_connection_OK` and the lock |
| `ConnectToOutput` ... `ForwardRequest` | process: `process_data`, sequenced by `pc` |
| `WriteDataToOutBuffer`, `WriteOutSocket`, `WriteDataToInBuffer`, `WriteInSocket`, `FreeInvalidMessage` | comm_w |
| `BeginCleanup` ... `Rearm` | `cleanup()`, one queue, mapping or connection at a time, sequenced by `cleaning` |

`owner`, `server`, `sent`, `received` and `idClash` are the environment and
history. `w_in_messages` is a function from sockets to sequences, because nothing
in the code depends on the order of messages for different sockets. A PDU carries
its invokeid and, as a payload the muxer never looks at, the request it belongs
to. The events and the barrier are not here: every step the code can take is a
step of the model, and some that the barrier rules out are too. That makes the
safety properties stronger than the code needs. Every PDU arrives whole: that
is what `Wire` is about. An encoding that fails (`Unencodable`) cannot happen
with the two messages of `messages.asn1`, as `Wire` shows; the path exists in
the code and would be taken with others. Only the run RoutingWrap has such a
request.

### MuxService

What the clients are promised, without queues, invokeids or threads: a client
connects, asks and is answered (`Answer`), each request at most once and with
its own answer. A request may disappear with the connection to the server, or
when it cannot be encoded, or with its client; but a connected client that lost
one is disconnected before the connection to the server counts as whole again
(the guard of `Recover`). After a clash of invokeids only the number of replies
is bounded.

`Routing` implements it (`ImplementsMuxService`). The mapping takes the owners of
the sockets in `connections` for the connected clients, and for the pending
requests all that are in a queue, a buffer or a hand, or at the server; a reply
in hand counts as long as its mapping exists, one in `w_in_messages` as long as
its client is connected. The connection is broken from the failure to the end
of the last cleanup and the new connection. What makes the refinement hold is
the order of `cleanup()`: queues first, connections last, all with
`csec_out_connection` held.

### Dispatcher

The threads and the events, with messages counted. A step ends before the next
operation on an event, flag, queue or socket another thread can see. `pc` is where
each thread is. The start is in `spawn_threads`: the workers and the cleanup
thread run, and main has still to set `h_event_start_threads` (`MainStarts`,
dispatcher.c:969), so that Ctrl-C and a cleanup may come before it. `cleanup()`
is two steps: what it frees first (`CleanUp`), and `RemoveConnections`, until
which `csec_out_connection` is held; the client sockets do not block, so that
`shutdown_connection` does not wait for the clients. Lines 267 to 273 are a step
each (`ResetDoCleanup`, `RearmCommW`, `RearmProcess`, `RestartWorkers`, `CleanupLoop`),
as a worker that slipped past the barrier, or Ctrl-C, may come between any two.
Two variables are history: `missed` has the workers whose events the cleanup
thread had already set for the last time when Ctrl-C came, and `late_start` says that
main has started the workers while the cleanup thread had them stopped. `stopped`
and `ended` are the arrays `h_stop_events` and `h_end_events`. One client connection stands for all. A `w_buffer` is sent in up
to `Parts` parts. The handles that `select` reported are forgotten once they have
been looked at, as every `fd_set` is filled anew.

### Queue and Fifo

`Fifo` is a queue with one consumer: what `queue.h` promises. `Queue` is the
linked list, store by store, as two of the four queues are used, and `Queue`
implements `Fifo` under the mapping `contents <- Contents, held <- qe["comm_w"]`
(property `ImplementsFifo`). `q_free` on `w_out_messages` runs outside of the
queue's critical section and therefore sees the single stores of `q_put`.
`q_free` is given an entry that `q_get` has taken out already: that it then
removes nothing and changes no tail is part of what is checked.

### Locks

Each procedure as the sequence of the critical sections it enters and leaves,
each thread as the set of procedures it calls. The same nesting is visible in
the guards of `Routing` (`OutConnectionLocked`, `ConnectionsLocked`,
`MappingsLocked`), but there a thread never holds one lock while it waits for
another.

### Codec and Wire

`Codec` has the functions of `messages.c`, as far as the muxer uses them, of
`pdu.c` and of the macros `ENCODE_PDU` and `DECODE_PDU`, as operators on sequences of
bytes: all fields of the two messages take whole bytes, so no bits are needed.
An integer is encoded as in the code: in one half word if it fits and in two
otherwise, and the bytes of a negative one are turned round (`AppendByte`). `CodecAssumption` says which sizes the code relies on; with 256 values to a byte,
8 bytes to a word and 1024 bytes to a buffer it holds, and it is why neither
encoding nor decoding runs out of space: a decoder that is given bytes that are
no message reads zeros until its buffer ends, and never gets that far.

`Wire` has `out_connection` with its two buffers byte by byte: `WriteData` and
`ReadData` let `send` and `recv` take any number of bytes, `Cleanup` empties the
buffers, `ConnectToOutput` does not. `LastWrite` is the `write_data` of comm_w after
its loop (dispatcher.c:921), which nothing guards and after which it shuts the socket
down. The messages a server may send are a
constant. The history variables `written`, `replied`, `to_server` and
`read_pdus` are those of one connection of the muxer. A late read, after the
cleanup and from the old socket, may leave a part of a PDU in `r_buffer`, in
front of what the next connection delivers; `stale` marks it, and the
properties say nothing of that connection until the rest is consumed or the
buffer is emptied: the muxer may take any two bytes for a header there. What
`Routing` says of PDUs, which arrive whole in it, leaves out the same connections.

### Config and Logging

`Config` has `read_line`, `split`, `trim_ws` and `read_config` with its helpers as
operators on files, which are sequences of symbols (a keyword, a number, a word,
a blank, a delimiter, the end of a line, the character 255 that `read_line` takes
for the end of the file). Next to them stands what a reader of the file expects
(`IsAsWritten`), written without lines and splits: the last "=" that is the first
of its line and has nothing but the key before it decides. For that reader only a
newline ends a line, and a port is the number that is written; `Number` gives the
values of the numbers, and `atoi` with the store into a `USHORT` is the code's alone. `Overruns` says
whether `read_line` stores the terminating NUL behind its buffer.

`Logging` starts with main, whose first line is logged before the configuration
is read, and then lets all threads log. `log_printf` and `reset_log_file` are one
action per call to the C runtime, since `log_file` is read anew for each one. The
runtime and the file system are external: a stream is a slot in a table, the
first free slot is used by the next open, an open file is neither renamed nor
opened against its share mode, and a rename does not replace a file. Any open of
the log may also be refused for reasons outside of the process (no directory, no
permission, another instance); `refused` notes that this happened to `log_printf`,
whose next line writes to NULL. The index and the saved logs are not refused in
this way. That makes
what happens after `fclose(log_file)` visible: the index file takes the slot that
other threads still hold as `log_file`. An operation on NULL or on a closed stream
is undefined: it fails, or the runtime ends the program (`RuntimeError`). `Exit`
may come at any step, as main does not wait for threads that log their last line;
the files stay, and `Restart` begins anew. `fopen_s` and `fscanf_s` of the index
are one step, as are its `fprintf` and `fclose`. `Log` lets all threads log as soon as
main has read the configuration, a little earlier than the code starts them.

### Proof modules

`RoutingProofs`, `RoutingOrderProofs`, `RoutingMappingsProofs` and
`RoutingServiceProofs` extend `Routing`, each the one before; `DispatcherProofs`,
`QueueProofs`, `WireProofs` and `LoggingProofs` extend their component. They hold the inductive invariants, the lemmas and the theorems of section 4 and add
nothing to the specifications.

### MC modules

`MCRouting`, `MCDispatcher`, `MCQueue`, `MCWire`, `MCLogging` hold what the configurations
need: the request that cannot be encoded, messages, configuration files, the
symmetry sets, and two initial states in which nothing is under way (`Quiet`):
`InitStarted`, all threads before their first round, for the liveness of the queues,
and `InitConnected`, with the connection to the server up (a state that the first
request and its answer lead to), for the shutdown. The operators whose comment
begins with "Fault:" are not part of a specification: each is a definition with a
bug that its author could have made, and shows that a property notices it.

## 3. The runs

| run | instance | shows |
|---|---|---|
| RoutingWrap | 2 clients of 2 requests, 2 invokeids, no failure, one request that cannot be encoded | `TypeOK`, `RightClient`, `NoExtraReplies`, `RequestsStayInOrder`, `MappingsBacked`, `ImplementsMuxService` |
| RoutingFailures | 2 clients of 1 request, 2 failures | `RightClientInv`, `MappingsBacked`, `ImplementsMuxService`, and `RequestAnswered` under fairness |
| RoutingHandleReuse | 2 clients, 1 handle, handles reused | `Transparent` is violated |
| DispatcherSafety | 1 client, 2 requests, 1 failure before the second | `TypeOK`, `NoSleepingOnWork`, `NoIterationDuringCleanup` |
| DispatcherDrain | workers started, 1 client, 2 requests | `QueuesDrain` under fairness |
| DispatcherShutdown | connection up, Ctrl-C, 1 client, 1 request, 1 failure | `NobodyLeftWaiting`, and `CleanupsAndShutdownComplete` under fairness of the threads |
| DispatcherPartialSend | 1 client, 1 request, a send of a part | `LoopKeepsGoing` is violated |
| DispatcherReplacedSocket | 1 failure | `ServerSeesOneClient` is violated |
| Queue | 4 addresses | `TypeOK`, `WellFormed`, `NoUseAfterFree`, `AssertionsHold`, `ImplementsFifo` |
| Locks | all procedures | `TypeOK`, `OnlyPurgeDeadlocks` |
| Wire | 2 replies out of 6, 2 requests, 1 failure, a last write, base 4 | `TypeOK`, `FramesIntact`, `RequestsIntact`, `BufferHasRoom`, `ContentsKept` |
| Logging | 988 configurations; 2 threads, 6 lines, 2 lines to a log, 1 saved log, 2 starts | `TypeOK`, `ConfigAsWritten`, `LinesFitTheirBuffer`, `LinesKept`, `SavedLogsBounded`, `LoggingDoesNotEndProgram` |

Why the bounds are enough. RoutingWrap: two invokeids for four requests make the
counter reach values in use; two clients number their requests alike, so that the
invokeids of clients collide too. RoutingFailures: the second failure can come
before the cleanup for the first has ended, which is where its event is reset. In
DispatcherSafety and DispatcherDrain, two requests are needed for a queue to hold
a message behind the one that process takes: with one, no queue would have to be
looked at again. In DispatcherSafety the failure comes before the second request is
sent (`FailureBeforeSecondRequest`), which may then come at any step of the cleanup;
for the other order there are the theorems, as its states double the time of the
run. DispatcherShutdown starts with the connection up, because the
process thread would not connect before a first request and nothing could fail;
the failure comes before, in or after the cleanup that Ctrl-C asks for, with a
client that is connected or has left. Its `VIEW` leaves out the count `abandoned`,
which no action reads. Queue: three entries in the list and one
being freed distinguish head, middle and tail, and an address is used again. Locks has
no bound: the state space is finite. Wire counts in base 4 instead of 256, with 2
bytes to an integer instead of 8 and 16 to a buffer instead of 1024: every size
that the code distinguishes still occurs (integers of one byte and of two, of both
signs and at their limits, octet strings of one byte and of `Radix` bytes, two
PDUs in one buffer, a PDU with a header of two digits, a full buffer), and a byte
is cut off anywhere. Two messages each way and one failure put a cleanup before,
into and after a PDU. The longest reply takes 15 bytes of the 16 of a buffer; in the code
it takes 525 of 1024, so that the instance is the harder one. Logging: six lines fill a log
of two lines three times, so that the oldest saved log is removed; the restart may
come after any step of a rotation, and what follows it has rotations that find the
leftovers and use the index again. The configuration files have two lines, the
second of which may be about the same key, and end with or without a line end; some
have a line between them that is cut at a character 255, and one of the two ports
is above 65535;
with `MAX_BUF_LEN` 3 a line grows its buffer up to three times.

### Fairness

Routing: the work of process and of the cleanup thread is weakly fair, and so are
the reads of comm_r, the answer of the server to each request, and what comm_w does
in a round; connecting, sending, leaving and failing are not. comm_w looks at all
queues and all buffers in a round, but a round only starts when
`h_event_new_message` is set (dispatcher.c:890), and it is set again only for queues
that are not empty (914). Writing a buffer is therefore fair only while a queue has
a message (`CommWGoesOn`); a message that is alone in its buffer may stay there.
Dispatcher: each thread is weakly fair (`ThreadFairness`), which takes for granted
that a `select` that waits returns at some time and that the server, when its
connection is shut down, closes it (`recv` at winsock.c:130 waits for it, as that
socket blocks; the sockets of clients do not, and nothing is assumed of them);
cleanup and shutdown need no more, not even that the server accepts a connection
again.
`QueuesDrain` needs strong fairness of three things that depend on the world: the
server accepts one of infinitely many attempts to connect, a socket asked for
infinitely often is writable again and again, and comm_w reaches its thousandth
iteration. Neither
module has the deadlock of `Locks` in it: liveness is shown for runs in which it
does not happen. A `select` that fails because a socket was closed after the set
was built is modelled only where no socket is left in the set; with another one
in it the next round takes its place.

### What the violated properties show

1. `RoutingHandleReuse`: messages and mappings are kept under a socket handle.
   Windows may give the handle of a closed socket to the next client, which is
   then sent the reply to a request of the client that left. The README calls the
   muxer transparent.
2. `DispatcherReplacedSocket`: after a cleanup the old socket is neither closed
   nor shut down when `connect_to_output` stores a new one over it. A failure
   reported late causes a cleanup of a connection that works, and the server then
   has two connections of the muxer, where the README promises one.
3. `DispatcherPartialSend`: what `send` did not take stays in the `w_buffer`, but
   comm_w only goes on when a queue holds a message, so that the end of a reply
   waits for another message. The comment at `dispatcher.c:735` says that the
   loop keeps going.

### What the excuses in properties that hold show

Some properties name the one way in which the code fails, and say that it is the
only one; without the excuse TLC shows a trace.

* `NobodyLeftWaiting` excepts a Ctrl-C between the last SetEvent for a worker
  (`dispatcher.c:269` for comm_w, 270 for process) and the test in line 273. A worker
  that passed the barrier with a step of its own still to do can use that event up
  before Ctrl-C. The handler sets an event the cleanup thread no longer waits for, and
  nobody sets that of the worker again; comm_w, which waits for a message, never
  ends, the connection to the server is not shut down, and the program ends by the
  timeout of ten seconds, deleting critical sections that are in use.
* `NoIterationDuringCleanup` excepts a start of the workers by main (`dispatcher.c:969`)
  that comes after a cleanup has begun: Ctrl-C is handled as soon as the events exist.
  And it speaks of the wait for `h_event_start_threads` only: a worker past that wait
  goes through its loop once more while `cleanup()` runs.
* `RequestAnswered` excepts what is left in a buffer of comm_w while both kinds of
  queues are empty (`LeftInBuffer`, see `DispatcherPartialSend`), and clients whose
  invokeids clashed.
* `AssertionsHold`: `q_free` outside of the critical section may read `head` before
  and `tail` after the stores of a `q_put`, and the assertion in `queue.c:29-30`
  then fails in a debug build; in a release build nothing is lost
  (`ImplementsFifo`). No other assertion of `queue.c` and `queue.h` can fail.
* `OnlyPurgeDeadlocks` says that every deadlock has
  `free_w_in_messages_mapped_to_invalid_sockets` (`w_in_messages`, then
  `connections`), the routing of a reply (mappings, then `w_in_messages`) and the
  removal of a connection (`connections`, then mappings) in it. That one can happen.
* `LinesKept` and `LoggingDoesNotEndProgram`: one thread that logs while another one
  is in `reset_log_file`, or two that open the log at once, is enough for `vfprintf`
  with a closed stream or NULL, which ends the program or loses the line.
* `LoggingDoesNotEndProgram`: the result of the open in `logging.c:72` is not tested, so
  that a log that cannot be opened ends the program with its first line. A log that
  `reset_log_file` could not open (57) does not by itself: the next line tries again.
* `LinesKept`: a program that ends between the rename and the write
  of the index makes the next rotation rename to a name that is taken; it then
  empties the log without having saved it.
* `SavedLogsBounded`: a program that ends before the remove leaves a saved log that is
  never removed.
* `ConfigAsWritten`: `read_line` keeps the character in a `char` and takes 255 for the
  end of the file, which cuts a line in two; and a port above 65535 becomes another
  one (`global.c:30`).
* `LinesFitTheirBuffer`: a line of 128, 256, ... characters in `muxer.config` is
  terminated one byte behind its buffer.

## 4. The proofs

All theorems hold for every value of the constants that the named assumptions of
the modules allow. None of them is about liveness or uses `ENABLED`.

| module | theorem | of the run's property |
|---|---|---|
| RoutingProofs | `TypeCorrect` | `TypeOK` |
| RoutingProofs | `RightClientInvCorrect`, `RightClientCorrect` | `RightClientInv`, `RightClient` |
| RoutingOrderProofs | `RequestsStayInOrderCorrect` | `RequestsStayInOrder` |
| RoutingOrderProofs | `NoExtraRepliesCorrect` | `NoExtraReplies` |
| RoutingMappingsProofs | `MappingsBackedCorrect` | `MappingsBacked` |
| RoutingServiceProofs | `ImplementsMuxServiceCorrect` | `ImplementsMuxService`, a refinement |
| DispatcherProofs | `DispatcherTypeCorrect`, `NoSleepingOnWorkCorrect`, `NobodyLeftWaitingCorrect` | `TypeOK`, `NoSleepingOnWork`, `NobodyLeftWaiting` |
| DispatcherProofs | `NoIterationDuringCleanupCorrect` | `NoIterationDuringCleanup`, of steps |
| DispatcherProofs | `AbandonedBounded` | none: it bounds what `ServerSeesOneClient` denies |
| QueueProofs | `QueueTypeCorrect`, `WellFormedCorrect`, `NoUseAfterFreeCorrect`, `AssertionsHoldCorrect` | `TypeOK`, `WellFormed`, `NoUseAfterFree`, `AssertionsHold` |
| QueueProofs | `ImplementsFifoCorrect` | `ImplementsFifo`, a refinement |
| WireProofs | `WireTypeCorrect`, `FramesIntactCorrect`, `RequestsIntactCorrect`, `BufferHasRoomCorrect`, `ContentsKeptCorrect` | `TypeOK`, `FramesIntact`, `RequestsIntact`, `BufferHasRoom`, `ContentsKept` |
| WireProofs | `InputDecoded`, `OutputDecoded` | none: decoding inverts encoding, for every message |
| LoggingProofs | `LoggingTypeCorrect`, `LinesKeptCorrect`, `SavedLogsBoundedCorrect`, `LoggingDoesNotEndProgramCorrect` | `TypeOK`, `LinesKept`, `SavedLogsBounded`, `LoggingDoesNotEndProgram` |
| LoggingProofs | `ConfigAsWrittenCorrect`, `LinesFitTheirBufferCorrect` | `ConfigAsWritten`, `LinesFitTheirBuffer` |

Every inductive invariant was checked by TLC before it was proved.

### Routing

`RoutingAssumption` is all that is assumed, but that `RightClient`, `NoExtraReplies`,
`MappingsBacked` and `ImplementsMuxService` need `HandleReuse = FALSE`: the violated run RoutingHandleReuse
shows what happens otherwise. `RequestsStayInOrder` needs no such hypothesis.

`RightClient` speaks of what clients have received and says nothing of what is
under way. `RightClientInv` strengthens it along the path of a message:
`RequestsAttributed` (what is in `r_in_messages`, in hand or mapped belongs to
the owner of its socket), `InvokeidsDistinct` (a mapping of a connected client
and a PDU to or from the server that carry the same generated invokeid stand for
the same request), `RepliesAttributed` (what is in `w_in_messages` and the
`w_buffer` of a connected client is for that client) and `UnusedHandlesEmpty`.
The last three hold until an invokeid is generated that is in use (`idClash`).

`RequestsStayInOrder` is a property of the queue of one step. `OrderInv` follows a
request from its client on: each queue is in order (`QueuesInOrder`), what is in
`r_in_messages` comes after all that is further on (`WaitingInOrder`), the request in
hand comes between (`HeldInOrder`), and what the client sends next after all of
these (`AllSent`). RoutingWrap checks the property without failures; the theorem
has cleanups and new connections too.

`NoExtraReplies` says that replies received are no more than requests sent. A reply
uses up a mapping, and a mapping stands for a request that has left its queue:
`RepliesCounted` bounds, for each connected client, the replies it has or will get
(received, in its `w_buffer`, in `w_in_messages`) together with its requests that may
still lead to one (in `r_in_messages`, in hand, mapped). It is the removal of the
mapping in the same critical section as the reading of it that makes this
hold when invokeids clash.

`MappingsBacked` speaks of a connection that is up. During a cleanup mappings have
lost what they wait for, and a new connection must not begin with one of those:
`MappingsInv` says what the mappings are backed by while there is no connection
(`BackedWithoutServer`), that only a failure leads there (`OnlyAfterFailure`), and
what the processing thread has in hand between two critical sections
(`HandsInvariant`). Its proof uses `RightClientInv` and `OrderInv`.

`ImplementsMuxService` needs all of these and `ServiceInv`. What was sent to the server
comes before what was not (`ForwardedInOrder`), from which it follows that no request
is sent twice; the server has a request once and its reply is taken in hand once
(`AnsweredOnce`), and waits for its client in one place (`RoutedOnce`): so it is known
which request stops being pending when a reply is written to a client. The reply to a
request of a connected client finds its mapping (`StillMapped`): so a reply that
matches nothing is dropped only when its client is gone. And what a connected client
has sent is in the muxer, at the server, answered or cannot be encoded (`Conserved`),
which holds away from failures: not while the cleanup has `csec_out_connection`, and
not between the failure of a connection and its cleanup. Without a connection to the
server the requests that are left there do not count (`Live`): the next connection
forgets them, and `Conserved` says that no connected client waits for one. When the
cleanup ends no client is connected (`UnlocksWithoutClients`), and it holds again.
`StepSimulates` then names for each action the action of `MuxService` it is: `Connect`,
`Ask`, `Answer` (`AnswerWrongly` after a clash), `Disconnect` and `Clash` are one action
each, and every other step is `Lose`, `Fail` or `Recover`, by what it does to `broken`
(`OthersLose`).

### Dispatcher

No assumption is needed but `DispatcherAssumption`. `RequestsConserved` bounds all counts
by the requests that were sent: a message is in one place. `WorkSignalled` says
where a worker must be for its queues to hold a message with its event not set;
it is what the reset of the event before the second look at the queues is for.
`StartEventHeld` ties `h_event_start_threads` to the part of the cleanup thread that
keeps it reset, with the exception of `late_start`, from which
`NoIterationDuringCleanup` follows for every step. `EndSignalled` is
`NobodyLeftWaiting` from the SetEvent for each worker on (`ProcessSignalled`,
`CommWSignalled`), for the workers that are not in `missed`. The theorems start at
`Init`, also where a run starts later. `AbandonedPaid` counts,
next to the replaced sockets, the cleanups that are still to come without another
failure.

### Queue

`QueueAssumption` says that there are finitely many addresses and that NULL is neither
one of them nor a thread. `Contents` follows the pointers of the list by a recursive
definition. `Chain` says without recursion that the pointers lead through a given
sequence of distinct entries, and `ContentsOfChain` that this sequence is then what
the recursive definition finds. Its induction over the positions in the list is
that of `IntervalInduction`, which follows from the pigeonhole principle. The lemmas on
`Chain` say what storing a pointer does to the sequence (`ChainAppend`, `ChainTail`,
`ChainRemove`). `QueueInv` says where everyone is: the owners of the critical sections
(`Locking`), the tail, which is behind while an entry is put and while the walk of
`q_free` has taken out the last one (`ListInv`, `TailBehind`), the entry of process before and
after it is linked (`PutInv`), the entry of comm_w, which is no longer in
`w_out_messages` and still in `w_in_messages` (`FreeInv`), and the walk, which has not
passed the entry it looks for (`WalkInv`). The step lemmas name the new sequence for
each action, so that the same lemmas give the invariant and the step of `Fifo` that
each step is (`StepSimulates`).

### Wire

`CodecAssumption` says which sizes the code relies on, `WireAssumption` that the messages
are of their types and within their size constraints; the code's 256, 8 and 1024
satisfy them. How many bytes a buffer has, where it is cut and what the bytes are is
arbitrary.

`Codec` defines the loop of `read_pdus_from_recv_buffer` (`Boundary`), the powers of the
radix (`Values`) and the decoding of an integer as recursive functions. `Recursion` says
that such a function exists; it is put together from its beginnings, which are unique by
`Induction`, and that holds because every set of numbers has a least one. From this
follow `ValuesProperties`, `BoundaryProperties` and `PduCountProperties` (the loop ends).

`FrameAt` says that the loop, when it stands at the start of a frame, finds its header
and takes it exactly when all of it has arrived. By induction over the frames, `Reading`
says of any beginning of the frames of some PDUs that the first of these are read, and
that the bytes left begin the frames of the others. `WireInv` needs no more than what that lemma
takes and gives: `RepliesKept` says that the PDUs not yet read (`rest`) have as
their frames what is in `r_buffer`, what recv has still to deliver and, after the
connection broke, what was lost (`Awaited`); `OldBytesAreStale` says why a new connection
begins with an empty buffer. `FramesIntact` follows as frames are concatenated
(`FramesConcat`), `BufferHasRoom` because the first PDU of `rest` would be complete in a
full buffer.

`RequestsIntact` needs that what is in `w_buffer` is the end of the last request
that was put there (`RequestsKept`): until comm_w has ended, the bytes sent and `ToSend`
make up the requests written.

`ContentsKept` is about the contents of a PDU. That the code writes an integer in two
half words and turns the bytes of a negative one round makes no difference
(`Halves`, `Turned`, `LowerDigits`, `NonNegativeEncoded`, with `ValuesProduct` for the
powers of the radix): it is sent as the bytes
`(v \div Values[n - i]) % Radix`; after i bytes the loop of the decoder holds
`v \div Values[n - i]` (`IntegerDecoded`), where `SignByte` is its beginning, `NextByte` a
round of it and `Shifted` says that the word never loses a bit. `IntegerLength` says
that the length the encoder chooses is enough for the value and its sign.

### Logging

`LoggingAssumption` says that there are finitely many threads and that the values
that stand for no file and for no number are none. `LogInv` has three layers. The
first always holds: main is alone until the configuration is read (`Alone`), a
thread on its way to a line has one left (`LinesBounded`), every reset has a line
of its own (`Numbered`, which keeps the indexes in their type), and the streams of
the index file belong to the threads that opened them (`StreamsOwned`), so that
every open finds a free slot by the pigeonhole principle (`SlotForEveryOpen`). The
second holds until two threads race: one thread resets and is alone
(`OneResets`), and outside of a reset the log is open, unless the open was refused
from outside (`StreamsQuiet`): only in `log_printf` does that lead to a write to NULL. The third holds
until the program ends in the middle of a reset: the index file says which logs
are saved (`IndexQuiet`), so that the rename never finds its name taken and nothing
is emptied that was not saved.

`TypeOK` needs the types of what is read, too (`ConfigInv`). The lines of a file are a
function of the place where a line starts, defined from the end of the file on
(`Lines`), and the configuration is a fold over them (`Reads`); that such functions
exist is proved by induction, as in `WireProofs`. `ConfigAssumption` says that the
numbers that occur in a file are natural numbers, and `LoggingAssumption` that a
file, if there is one, is a sequence of symbols. For `LinesFitTheirBuffer` the size
of the buffer after n characters has a closed form (`BufferFor`), which
`BufferSize` proves equal to the recursion that the code computes.

`ConfigAsWritten` speaks of files without a cut line (`HasCutLine`), where the lines of
`read_line` are those that newlines end. It compares what `read_config` makes of a file, line by line, with
`IsAsWritten`, which knows no lines. `Written` says the same of the assignments
before one place of the file (`Before`). `StepLine` is the step from the place where a
line starts to the place where the next one does, unless the program aborts on
an address that is too long: the line adds at most one assignment, its first "="
(`NewAssignment`, with `KeyIsFirst`: nothing that `trim_ws` leaves as a key has a "=" in
it), and what it says is the value that `IsAsWritten` looks up (`LastAssignment`,
`AddressRead`). `ReadConfigIs` is the induction over the lines (`FirstLine`). Beneath are
lemmas about parts of texts, for any part of any text: `TrimIs`, `SplitPart`,
`StripsIs` (`trim_ws` computes what the relation `Strips` describes) and
`AddressParts` (to trim a value before or after it is split comes to the same).

### Only model-checked

* Liveness under fairness (`RequestAnswered`, `QueuesDrain`, `CleanupsAndShutdownComplete`):
  out of the prover's reach.
* `Locks`, which has no constants: TLC visits all its states.

## 5. Not modelled

* The setting up of winsock: it runs once, before the threads start, and only calls
  the Windows API. (`inet_pton` does not take the default name "localhost", and the
  address to bind to is then what was on the stack.)
* What the lines of the log say, and the static buffer in which all threads compose
  the messages for errors (`winsock.c:86`).
* Multicast: `mapping.c` has a list for it, but nothing ever puts an entry into
  it. Only its critical section occurs (`Locks`).
* The client connections byte by byte: they use the functions that `Wire` models
  for the server's, and are never connected again.
* Ctrl-C before the events are created, and a start with Ctrl-C before
  `dispatcher.c:969` in a run: the theorems about `Dispatcher` begin there, the run with
  Ctrl-C begins later.
* Between `dispatcher.c:350` and 353 an accepted socket still blocks, and could be read
  or shut down like that.
* What the server gets over a socket that was replaced: the last write may go there,
  and a whole PDU may follow a part of another.
* The index file and the saved logs refused for reasons outside of the process.
* What becomes of the PDUs of a connection on which a late read left bytes of
  the one before.
* The test programs: they take every `recv` for whole PDUs in a buffer of 512 bytes
  (`src/README.md` says that fragmentation was not considered); `Routing` and `Wire` have clients and a server that may do what those do
  and more.
* The encodings BER, XER and ACN, and real numbers: runtime functions of ASN1SCC that
  no message of the muxer uses.
* What a deleted critical section does to a worker that main did not wait for.

## 6. Plan

1. What a late read of a part of a PDU does to the next connection, against the
   assertion in `pdu.c:24`.
2. `Peers`: the loops of the test client and the test server over `Codec`, and what
   they need of `recv` to understand each other.
