-------------------------------- MODULE Fifo --------------------------------
(***************************************************************************)
(* What src/common/queue.h promises its users: a queue of entries with one *)
(* consumer.  An entry is put at the end and stays where it is until the   *)
(* consumer takes it, from the front (q_get) or, in the queues that are    *)
(* searched for the messages of a socket, from anywhere.  The consumer     *)
(* gets the entry that it takes, and no entry leaves otherwise but when    *)
(* the whole queue is emptied.                                             *)
(***************************************************************************)
EXTENDS Sequences, SequencesExt

CONSTANTS Entry, NULL

VARIABLES
    contents,   \* the entries, the oldest first
    held,       \* the entry that the consumer works on, or NULL
    searched    \* is it a queue that entries are removed from anywhere?

Init ==
    /\ contents = <<>>
    /\ held = NULL
    /\ searched \in BOOLEAN

Put(e) ==
    /\ e \notin Range(contents)
    /\ e # held
    /\ contents' = Append(contents, e)
    /\ UNCHANGED held

Get ==
    /\ ~searched
    /\ held = NULL
    /\ contents # <<>>
    /\ held' = Head(contents)
    /\ contents' = Tail(contents)

Find ==
    /\ searched
    /\ held = NULL
    /\ held' \in Range(contents)
    /\ UNCHANGED contents

Unlink ==
    /\ searched
    /\ \E i \in DOMAIN contents :
          contents[i] = held /\ contents' = RemoveAt(contents, i)
    /\ UNCHANGED held

Free ==
    /\ held # NULL
    /\ held \notin Range(contents)
    /\ held' = NULL
    /\ UNCHANGED contents

\* The cleanup thread empties the queue, but not under the consumer.
Clear ==
    /\ held = NULL
    /\ contents' = <<>>
    /\ UNCHANGED held

Next ==
    /\ \/ \E e \in Entry : Put(e)
       \/ Get
       \/ Find
       \/ Unlink
       \/ Free
       \/ Clear
    /\ UNCHANGED searched

Spec == Init /\ [][Next]_<<contents, held, searched>>
=============================================================================
