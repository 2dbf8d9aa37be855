-------------------------------- MODULE Logging --------------------------------
(***************************************************************************)
(* The log of the muxer (src/common/logging.c) from the start of main:     *)
(* main logs its first line, reads the configuration, and from then on all *)
(* threads log through the one log_file, without a lock.  When the log is  *)
(* full, reset_log_file closes it, renames it and opens a new one, step by *)
(* step under the other threads.  The program may end, or be ended, at any *)
(* point: main does not wait for threads that are still logging.           *)
(*                                                                         *)
(* The C runtime and the file system are modelled as the code relies on    *)
(* them: a FILE is a slot in the table of streams, a closed slot is used   *)
(* again by the next open (the first free one), an open file can be        *)
(* neither renamed nor opened against its share mode, and a rename does    *)
(* not replace a file.  The log may be refused for reasons outside of the  *)
(* program, too: there is no directory for it, or another program has it   *)
(* open.  The index and the saved logs are not refused in this way.  To    *)
(* use NULL or a closed stream fails or ends the program.  A line is its   *)
(* number; the log's size is counted in lines.                             *)
(***************************************************************************)
EXTENDS Config, FiniteSets

CONSTANTS
    Thread,            \* main and others that log
    Main,
    NULL,
    Missing,           \* there is no such file
    Empty, Unreadable, \* contents of the index file that are no number
    MAX_LOG_SIZE,      \* in lines
    MAX_NO_LOG_FILES,  \* how many saved logs are kept, 10 in the code
    MaxLines,          \* bound: how many lines are written
    Environment,       \* pairs of a config file and a bound on the lines
    MaxStarts          \* bound: how often the program is started

ASSUME LoggingAssumption ==
    /\ IsFiniteSet(Thread) /\ Main \in Thread
    /\ MaxLines \in Nat /\ \A e \in Environment : e.lines \in 0 .. MaxLines
    /\ \A e \in Environment : e.file = Missing \/ e.file \in Seq(STRING)
    /\ MAX_LOG_SIZE \in Nat /\ MAX_NO_LOG_FILES \in Nat
    /\ MaxStarts \in Nat \ {0}
    /\ NULL \notin Nat
    /\ Missing \notin Nat /\ Empty \notin Nat /\ Unreadable \notin Nat
    /\ Empty # Missing /\ Unreadable # Missing
    /\ \A S \in SUBSET (1 .. MaxLines) : S # Missing

VARIABLES
    environment,  \* muxer.config, or Missing, and the number of lines
    phase,        \* how far main is
    config,       \* global_config
    log,          \* the lines in muxer.log
    saved,        \* the lines in muxer.log.1, muxer.log.2, ...
    index_file,   \* muxer.log.index
    stream,       \* what each slot of the stream table is open for
    log_file,     \* a slot, or NULL
    pc,           \* where each thread is in log_printf or reset_log_file
    index, findex,\* its local variables
    lines,        \* history: how many lines were written
    removed,      \* history: the lines in saved logs that were removed
    raced,        \* history: has a thread logged while another one reset,
                  \* or opened the log while another one was about to?
    refused,      \* history: was log_printf refused the log from outside?
    torn,         \* history: has the program ended at a step of Tearing?
    died,         \* did the C runtime end the program?
    starts

start_vars == <<environment, phase, config, died, starts>>
disk_vars == <<log, saved, index_file>>
thread_vars == <<pc, index, findex, raced>>
history_vars == <<lines, removed, torn, refused>>
vars == <<start_vars, disk_vars, stream, log_file, thread_vars, history_vars>>

Slot == 1 .. Cardinality(Thread) + 2
Line == 1 .. MaxLines
Index == 1 .. MaxLines + 1

Resetting == {"close", "read_index", "rename", "close_index", "open_index",
              "write_index", "remove", "reopen"}

\* The log has been renamed, and the index file is not written or the oldest
\* log not removed.
Tearing == {"close_index", "open_index", "write_index", "remove"}

TypeOK ==
    /\ environment \in Environment
    /\ phase \in {"begin", "config", "up", "ended"}
    /\ DOMAIN config = DOMAIN Default
    /\ \A k \in Address : config[k].port \in Port
    /\ log \in (SUBSET Line) \cup {Missing}
    /\ saved \in [Index -> (SUBSET Line) \cup {Missing}]
    /\ index_file \in Index \cup {Missing, Empty, Unreadable}
    /\ stream \in [Slot -> {"closed", "log", "index_r", "index_w"}]
    /\ log_file \in Slot \cup {NULL}
    /\ pc \in [Thread -> {"idle", "test", "open", "write", "size"}
                             \cup Resetting]
    /\ index \in [Thread -> Index \cup {NULL}]
    /\ findex \in [Thread -> Slot \cup {NULL}]
    /\ lines \in 0 .. MaxLines
    /\ removed \subseteq Line
    /\ raced \in BOOLEAN /\ torn \in BOOLEAN /\ refused \in BOOLEAN
    /\ died \in BOOLEAN
    /\ starts \in 1 .. MaxStarts

Init ==
    /\ phase = "begin"
    /\ config = Default
    /\ stream = [s \in Slot |-> "closed"]
    /\ log_file = NULL
    /\ pc = [t \in Thread |-> "idle"]
    /\ index = [t \in Thread |-> NULL]
    /\ findex = [t \in Thread |-> NULL]
    /\ died = FALSE
    /\ environment \in Environment
    /\ log = Missing
    /\ saved = [i \in Index |-> Missing]
    /\ index_file = Missing
    /\ lines = 0 /\ removed = {}
    /\ raced = FALSE /\ torn = FALSE /\ refused = FALSE
    /\ starts = 1

(***************************************************************************)
(* Files and streams.                                                      *)
(***************************************************************************)

Open(file) == \E s \in Slot : stream[s] = file

FreeSlot == Min({s \in Slot : stream[s] = "closed"})

\* Does the program itself leave the file to be opened?  _fsopen opens the log
\* for writing, with _SH_DENYWR; fopen_s shares a file that it reads with
\* readers, and one that it writes with nobody.
LogOpens == ~Open("log")
IndexOpensToRead == index_file # Missing /\ ~Open("index_w")
IndexOpensToWrite == ~Open("index_r") /\ ~Open("index_w")

Opened(file) == [stream EXCEPT ![FreeSlot] = file]
Closed(s) == IF s = NULL THEN stream ELSE [stream EXCEPT ![s] = "closed"]

\* log_file is NULL or was closed by another thread.
Dangling == log_file # NULL => stream[log_file] = "closed"

\* Thread t takes a step; is it while another thread resets the log or is
\* about to open it?
Goes(t, from, to) ==
    /\ phase # "ended"
    /\ pc[t] = from
    /\ pc' = [pc EXCEPT ![t] = to]
    /\ raced' = (raced \/ \E u \in Thread \ {t} :
                     \/ pc[u] \in Resetting
                     \/ from \in Resetting /\ pc[u] # "idle"
                     \/ from = "open" /\ pc[u] = "open")

(***************************************************************************)
(* The start of main.                                                      *)
(***************************************************************************)

\* main logs its first line with the flags that are compiled in.
LogBegin ==
    /\ phase = "begin"
    /\ Default.LOG_DEBUG
    /\ lines < environment.lines
    /\ Goes(Main, "idle", "test")
    /\ phase' = "config"
    /\ UNCHANGED <<environment, config, died, starts, disk_vars, stream,
                   log_file, index, findex, history_vars>>

\* read_config: without a file it exits, and nobody is told, because errors
\* are not logged by default.  The other threads are started after it.
\* The stream of muxer.config stays open; it only keeps a slot of its own.
ReadConfig ==
    LET file == environment.file
    IN  /\ phase = "config"
        /\ pc[Main] = "idle"
        /\ IF file = Missing
             THEN phase' = "ended" /\ UNCHANGED config
             ELSE /\ config' = read_config(file)
                  /\ phase' = IF config'.aborted THEN "ended" ELSE "up"
        /\ stream' = IF phase' = "ended" THEN [s \in Slot |-> "closed"]
                     ELSE stream
        /\ log_file' = IF phase' = "ended" THEN NULL ELSE log_file
        /\ UNCHANGED <<environment, died, starts, disk_vars, thread_vars,
                       history_vars>>

(***************************************************************************)
(* log_printf.                                                             *)
(***************************************************************************)

\* log_info_printf, log_debug_printf and log_error_printf.
Log(t, flag) ==
    /\ phase = "up"
    /\ config[flag]
    /\ lines + Cardinality({u \in Thread : pc[u] \in {"test", "open", "write"}})
           < environment.lines
    /\ Goes(t, "idle", "test")
    /\ UNCHANGED <<start_vars, disk_vars, stream, log_file, index, findex,
                   history_vars>>

TestLogFile(t) ==
    /\ Goes(t, "test", IF log_file = NULL THEN "open" ELSE "write")
    /\ UNCHANGED <<start_vars, disk_vars, stream, log_file, index, findex,
                   history_vars>>

\* _fsopen for appending.
OpenLogFile(t) ==
    /\ Goes(t, "open", "write")
    /\ \/ /\ LogOpens
          /\ log_file' = FreeSlot
          /\ stream' = Opened("log")
          /\ log' = IF log = Missing THEN {} ELSE log
          /\ UNCHANGED refused
       \/ /\ log_file' = NULL
          /\ refused' = (refused \/ LogOpens)
          /\ UNCHANGED <<stream, log>>
    /\ UNCHANGED <<start_vars, saved, index_file, index, findex, lines, removed,
                   torn>>

\* vfprintf and fflush, to whatever the slot is open for by now.
WriteLine(t) ==
    /\ Goes(t, "write", "size")
    /\ log_file # NULL
    /\ lines' = lines + 1
    /\ log' = IF stream[log_file] = "log" THEN log \cup {lines'} ELSE log
    /\ index_file' = IF stream[log_file] = "index_w" THEN Unreadable
                     ELSE index_file
    /\ UNCHANGED <<start_vars, saved, stream, log_file, index, findex, removed,
                   torn, refused>>

\* ftell; it fails for a closed stream, and the index file is never large.
TestSize(t) ==
    /\ log_file # NULL
    /\ Goes(t, "size",
            IF stream[log_file] = "log" /\ Cardinality(log) > MAX_LOG_SIZE
              THEN "close" ELSE "idle")
    /\ UNCHANGED <<start_vars, disk_vars, stream, log_file, index, findex,
                   history_vars>>

(***************************************************************************)
(* reset_log_file.                                                         *)
(***************************************************************************)

CloseLogFile(t) ==
    /\ Goes(t, "close", "read_index")
    /\ log_file # NULL
    /\ stream' = Closed(log_file)
    /\ UNCHANGED <<start_vars, disk_vars, log_file, index, findex,
                   history_vars>>

\* Fault: the index is not counted up.
ReadIndexOnly(t) ==
    /\ Goes(t, "read_index", "rename")
    /\ findex' = [findex EXCEPT ![t] =
                      IF IndexOpensToRead THEN FreeSlot ELSE NULL]
    /\ stream' = IF IndexOpensToRead THEN Opened("index_r") ELSE stream
    /\ index' = [index EXCEPT ![t] =
                     IF IndexOpensToRead /\ index_file \in Index
                       THEN index_file ELSE 1]
    /\ UNCHANGED <<start_vars, disk_vars, log_file, history_vars>>

ReadIndex(t) ==
    /\ Goes(t, "read_index", "rename")
    /\ findex' = [findex EXCEPT ![t] =
                      IF IndexOpensToRead THEN FreeSlot ELSE NULL]
    /\ stream' = IF IndexOpensToRead THEN Opened("index_r") ELSE stream
    /\ index' = [index EXCEPT ![t] =
                     IF IndexOpensToRead /\ index_file \in Index
                       THEN index_file + 1 ELSE 1]
    /\ UNCHANGED <<start_vars, disk_vars, log_file, history_vars>>

\* The result of rename is not tested.
RenameLog(t) ==
    /\ Goes(t, "rename", "close_index")
    /\ IF log # Missing /\ ~Open("log") /\ saved[index[t]] = Missing
         THEN /\ saved' = [saved EXCEPT ![index[t]] = log]
              /\ log' = Missing
         ELSE UNCHANGED <<saved, log>>
    /\ UNCHANGED <<start_vars, index_file, stream, log_file, index, findex,
                   history_vars>>

CloseIndex(t) ==
    /\ Goes(t, "close_index", "open_index")
    /\ stream' = Closed(findex[t])
    /\ UNCHANGED <<start_vars, disk_vars, log_file, index, findex,
                   history_vars>>

\* fopen_s for writing empties the file.
OpenIndex(t) ==
    /\ Goes(t, "open_index",
            IF IndexOpensToWrite THEN "write_index" ELSE "remove")
    /\ IF IndexOpensToWrite
         THEN /\ findex' = [findex EXCEPT ![t] = FreeSlot]
              /\ stream' = Opened("index_w")
              /\ index_file' = Empty
         ELSE UNCHANGED <<findex, stream, index_file>>
    /\ UNCHANGED <<start_vars, log, saved, log_file, index, history_vars>>

\* fprintf and fclose; what another thread wrote into the file before makes
\* it unreadable.
WriteIndex(t) ==
    /\ Goes(t, "write_index", "remove")
    /\ index_file' = IF stream[findex[t]] = "index_w" /\ index_file = Empty
                       THEN index[t] ELSE index_file
    /\ stream' = Closed(findex[t])
    /\ UNCHANGED <<start_vars, log, saved, log_file, index, findex,
                   history_vars>>

\* Fault: one saved log too many is kept.
RemoveOldestButOne(t) ==
    LET oldest == index[t] - MAX_NO_LOG_FILES - 1
    IN  /\ Goes(t, "remove", "reopen")
        /\ IF index[t] > MAX_NO_LOG_FILES + 1 /\ saved[oldest] # Missing
             THEN /\ saved' = [saved EXCEPT ![oldest] = Missing]
                  /\ removed' = removed \cup saved[oldest]
             ELSE UNCHANGED <<saved, removed>>
        /\ UNCHANGED <<start_vars, log, index_file, stream, log_file, index,
                       findex, lines, torn, refused>>

RemoveOldest(t) ==
    LET oldest == index[t] - MAX_NO_LOG_FILES
    IN  /\ Goes(t, "remove", "reopen")
        /\ IF index[t] > MAX_NO_LOG_FILES /\ saved[oldest] # Missing
             THEN /\ saved' = [saved EXCEPT ![oldest] = Missing]
                  /\ removed' = removed \cup saved[oldest]
             ELSE UNCHANGED <<saved, removed>>
        /\ UNCHANGED <<start_vars, log, index_file, stream, log_file, index,
                       findex, lines, torn, refused>>

\* Fault: the new log is not opened.
ReopenNothing(t) ==
    /\ Goes(t, "reopen", "idle")
    /\ UNCHANGED <<start_vars, disk_vars, stream, log_file, index, findex,
                   history_vars>>

\* _fsopen for writing empties a log that could not be renamed.  When the log
\* is refused, the next log_printf tries again.
ReopenLogFile(t) ==
    /\ Goes(t, "reopen", "idle")
    /\ \/ /\ LogOpens
          /\ log_file' = FreeSlot
          /\ stream' = Opened("log")
          /\ log' = {}
       \/ /\ log_file' = NULL
          /\ UNCHANGED <<stream, log>>
    /\ UNCHANGED <<start_vars, saved, index_file, index, findex,
                   history_vars>>

(***************************************************************************)
(* The end of the program, and its next start.                             *)
(***************************************************************************)

Ends ==
    /\ phase # "ended"
    /\ phase' = "ended"
    /\ stream' = [s \in Slot |-> "closed"]
    /\ log_file' = NULL
    /\ torn' = (torn \/ \E t \in Thread : pc[t] \in Tearing)
    /\ pc' = [t \in Thread |-> "idle"]
    /\ index' = [t \in Thread |-> NULL]
    /\ findex' = [t \in Thread |-> NULL]
    /\ UNCHANGED <<environment, config, starts, disk_vars, raced, lines,
                   removed, refused>>

\* The user, the system or the end of main.
Exit == Ends /\ UNCHANGED died

\* vfprintf, ftell or fclose with NULL or with a closed stream.
RuntimeError(t) ==
    /\ pc[t] \in {"write", "size", "close"}
    /\ Dangling
    /\ Ends
    /\ died' = TRUE

Restart ==
    /\ phase = "ended"
    /\ starts < MaxStarts
    /\ starts' = starts + 1
    /\ phase' = "begin"
    /\ config' = Default
    /\ UNCHANGED <<environment, died, disk_vars, stream, log_file, thread_vars,
                   history_vars>>

-----------------------------------------------------------------------------

LogPrintf(t) ==
    \/ \E flag \in Flag : Log(t, flag)
    \/ TestLogFile(t)
    \/ OpenLogFile(t)
    \/ WriteLine(t)
    \/ TestSize(t)

ResetLogFile(t) ==
    \/ CloseLogFile(t)
    \/ ReadIndex(t)
    \/ RenameLog(t)
    \/ CloseIndex(t)
    \/ OpenIndex(t)
    \/ WriteIndex(t)
    \/ RemoveOldest(t)
    \/ ReopenLogFile(t)

Next ==
    \/ LogBegin
    \/ ReadConfig
    \/ \E t \in Thread : LogPrintf(t) \/ ResetLogFile(t) \/ RuntimeError(t)
    \/ Exit
    \/ Restart

Spec == Init /\ [][Next]_vars

-----------------------------------------------------------------------------

(***************************************************************************)
(* When main goes on, global_config is what muxer.config says              *)
(* (global.c:37-81): the last line about a key counts, however lines,      *)
(* blanks, delimiters and what makes no sense are mixed.  There are two    *)
(* exceptions: a line with a "=" that read_line (config.c:26) cuts at a    *)
(* character 255, and a port above 65535, which is stored as another one   *)
(* (global.c:30).                                                          *)
(***************************************************************************)
ConfigAsWritten ==
    phase = "up" => \/ HasCutLine(environment.file)
                    \/ IsAsWritten(config, environment.file)

(***************************************************************************)
(* read_line (config.c:26-37) never writes behind its buffer, but for the  *)
(* NUL of a line whose length is a multiple of MAX_BUF_LEN: the buffer     *)
(* grows only when another character comes.                                *)
(***************************************************************************)
LinesFitTheirBuffer ==
    phase = "up" =>
        \A line \in Range(read_lines(environment.file)) :
            Overruns(line) => line # <<>> /\ Len(line) % MAX_BUF_LEN = 0

\* The saved logs that are left, and the log.
Kept ==
    UNION (({log} \cup {saved[i] : i \in Index}) \ {Missing})

(***************************************************************************)
(* No line is lost but with a saved log that was removed for its age, as   *)
(* long as no thread logs while another one is in reset_log_file           *)
(* (logging.c:34-57), no two open the log at once (logging.c:69-72) and    *)
(* the program does not end between the rename and the remove: a log that  *)
(* cannot be renamed, because the index was not written, is emptied.       *)
(***************************************************************************)
LinesKept ==
    raced \/ torn \/ 1 .. lines \subseteq Kept \cup removed

(***************************************************************************)
(* There are never more than MAX_NO_LOG_FILES saved logs, whenever the     *)
(* program ends and starts, with the one that is about to be removed       *)
(* (logging.c:55), unless threads raced or the program ended between the   *)
(* rename and the remove.                                                  *)
(***************************************************************************)
SavedLogsBounded ==
    LET count == Cardinality({i \in Index : saved[i] # Missing})
        removing == \E t \in Thread : pc[t] \in Tearing
    IN  raced \/ torn
          \/ count <= MAX_NO_LOG_FILES + (IF removing THEN 1 ELSE 0)

(***************************************************************************)
(* Logging ends the program only when a thread logged while another one    *)
(* was in reset_log_file, when two threads opened the log at once, or when *)
(* the open in log_printf was refused from outside (logging.c:72): its     *)
(* result is not tested.  That reset_log_file could not open the log       *)
(* (logging.c:57), or what an earlier run left behind, is no excuse.       *)
(***************************************************************************)
LoggingDoesNotEndProgram == died => raced \/ refused
=============================================================================
