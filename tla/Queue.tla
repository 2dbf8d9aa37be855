------------------------------- MODULE Queue --------------------------------
(***************************************************************************)
(* The linked list of src/common/queue.c and queue.h, and how the threads  *)
(* of the muxer use it.  A put is a sequence of stores under the critical  *)
(* section of the queue, but q_free walks the list of w_out_messages       *)
(* outside of it (dispatcher.c:607), so that it sees the stores one by one.*)
(* Module Fifo is the queue they promise.                                  *)
(*                                                                         *)
(* The queue is one of                                                     *)
(*   w_out_messages  process puts, comm_w takes the first entry with q_get *)
(*                   and frees it later, holding csec_out_connection only; *)
(*   w_in_messages   process puts, comm_w searches the list and frees an   *)
(*                   entry in the middle of it, in the critical section.   *)
(* cleanup() empties both.  r_in_messages and r_out_messages are handled   *)
(* as w_in_messages is, with the consumer taking the first entry.          *)
(***************************************************************************)
EXTENDS Naturals, Sequences, FiniteSets, SequencesExt

CONSTANTS
    Entry,  \* the addresses q_alloc may return
    NULL

Thread == {"process", "comm_w"}

ASSUME QueueAssumption == NULL \notin Entry \cup Thread /\ IsFiniteSet(Entry)

VARIABLES
    list,               \* which queue this is
    head, tail, next,
    allocated,          \* the entries that are allocated
    csec,               \* the owner of the queue's critical section, or NULL
    csec_out_connection,    \* the same
    pc,
    qe,                 \* the entry that a thread puts or frees
    m_qe, m_qe_prev     \* where q_free is

list_vars == <<head, tail, next>>
walk_vars == <<m_qe, m_qe_prev>>
lock_vars == <<csec, csec_out_connection>>
vars == <<list, list_vars, allocated, lock_vars, pc, qe, walk_vars>>

Pointer == Entry \cup {NULL}

TypeOK ==
    /\ list \in {"w_in_messages", "w_out_messages"}
    /\ head \in Pointer /\ tail \in Pointer
    /\ next \in [Entry -> Pointer]
    /\ allocated \subseteq Entry
    /\ csec \in Thread \cup {NULL}
    /\ csec_out_connection \in {"comm_w", NULL}
    /\ pc \in [process : {"idle", "enter", "link", "tail", "head"},
               comm_w : {"idle", "head", "assert", "unlink", "walk", "free"}]
    /\ qe \in [Thread -> Pointer]
    /\ m_qe \in Pointer /\ m_qe_prev \in Pointer
    /\ csec # NULL => pc[csec] # "idle"
    /\ csec_out_connection # NULL => pc["comm_w"] # "idle"

Init ==
    /\ list \in {"w_in_messages", "w_out_messages"}
    /\ head = NULL /\ tail = NULL
    /\ next = [e \in Entry |-> NULL]
    /\ allocated = {}
    /\ csec = NULL /\ csec_out_connection = NULL
    /\ pc = [process |-> "idle", comm_w |-> "idle"]
    /\ qe = [t \in Thread |-> NULL]
    /\ m_qe = NULL /\ m_qe_prev = NULL

Goes(t, from, to) ==
    /\ pc[t] = from
    /\ pc' = [pc EXCEPT ![t] = to]

\* The n-th pointer of the list, from 0, and NULL from its end on.
Link ==
    LET at[n \in Nat] ==
            IF n = 0 THEN head
            ELSE IF at[n - 1] = NULL THEN NULL
            ELSE next[at[n - 1]]
    IN  at

Acyclic == Link[Cardinality(Entry)] = NULL

Length ==
    Cardinality({n \in 0 .. Cardinality(Entry) - 1 : Link[n] # NULL})

\* The list as a sequence of entries.
Contents == [i \in 1 .. Length |-> Link[i - 1]]

(***************************************************************************)
(* process: put_pdu_into_w_in_messages and put_pdu_into_w_out_messages.    *)
(***************************************************************************)

\* q_alloc; an address that was freed may be used again.
Alloc(e) ==
    /\ Goes("process", "idle", "enter")
    /\ e \notin allocated
    /\ allocated' = allocated \cup {e}
    /\ next' = [next EXCEPT ![e] = NULL]
    /\ qe' = [qe EXCEPT !["process"] = e]
    /\ UNCHANGED <<list, head, tail, lock_vars, walk_vars>>

\* q_put looks for the entry in the list: it is new, so it is not there.
EnterPut ==
    /\ Goes("process", "enter", "link")
    /\ csec = NULL
    /\ csec' = "process"
    /\ UNCHANGED <<list, list_vars, allocated, csec_out_connection, qe,
                   walk_vars>>

PutLink ==
    /\ Goes("process", "link", "tail")
    /\ next' = IF tail = NULL THEN next
               ELSE [next EXCEPT ![tail] = qe["process"]]
    /\ UNCHANGED <<list, head, tail, allocated, lock_vars, qe, walk_vars>>

PutTail ==
    /\ Goes("process", "tail", "head")
    /\ next' = [next EXCEPT ![qe["process"]] = NULL]
    /\ tail' = qe["process"]
    /\ UNCHANGED <<list, head, allocated, lock_vars, qe, walk_vars>>

\* Fault: the head is always replaced.
PutHeadAlways ==
    /\ Goes("process", "head", "idle")
    /\ head' = qe["process"]
    /\ csec' = NULL
    /\ qe' = [qe EXCEPT !["process"] = NULL]
    /\ UNCHANGED <<list, tail, next, allocated, csec_out_connection,
                   walk_vars>>

PutHead ==
    /\ Goes("process", "head", "idle")
    /\ head' = IF head = NULL THEN qe["process"] ELSE head
    /\ csec' = NULL
    /\ qe' = [qe EXCEPT !["process"] = NULL]
    /\ UNCHANGED <<list, tail, next, allocated, csec_out_connection,
                   walk_vars>>

(***************************************************************************)
(* comm_w: write_data_to_out_buffer, write_data_to_in_buffer and           *)
(* free_w_in_messages_mapped_to_invalid_sockets.                           *)
(***************************************************************************)

\* Fault: q_get leaves the tail when it takes the last entry.
GetKeepsTail ==
    /\ list = "w_out_messages"
    /\ Goes("comm_w", "idle", "head")
    /\ csec = NULL /\ csec_out_connection = NULL
    /\ head # NULL
    /\ qe' = [qe EXCEPT !["comm_w"] = head]
    /\ head' = next[head]
    /\ csec_out_connection' = "comm_w"
    /\ UNCHANGED <<list, tail, next, allocated, csec, walk_vars>>

\* q_get in the critical section, which is left again.
Get ==
    /\ list = "w_out_messages"
    /\ Goes("comm_w", "idle", "head")
    /\ csec = NULL /\ csec_out_connection = NULL
    /\ head # NULL
    /\ qe' = [qe EXCEPT !["comm_w"] = head]
    /\ tail' = IF tail = head THEN NULL ELSE tail
    /\ head' = next[head]
    /\ csec_out_connection' = "comm_w"
    /\ UNCHANGED <<list, next, allocated, csec, walk_vars>>

\* A message of w_in_messages is for the right socket, or for none.
Find(e) ==
    /\ list = "w_in_messages"
    /\ Goes("comm_w", "idle", "head")
    /\ csec = NULL
    /\ e \in Range(Contents)
    /\ qe' = [qe EXCEPT !["comm_w"] = e]
    /\ csec' = "comm_w"
    /\ UNCHANGED <<list, list_vars, allocated, csec_out_connection, walk_vars>>

\* q_free: if (q->head == NULL) ...
FreeHead ==
    /\ Goes("comm_w", "head", IF head = NULL THEN "assert" ELSE "unlink")
    /\ UNCHANGED <<list, list_vars, allocated, lock_vars, qe, walk_vars>>

\* ... assert(q->tail == NULL), which is nothing in a release build.
FreeAssert ==
    /\ Goes("comm_w", "assert", "unlink")
    /\ UNCHANGED <<list, list_vars, allocated, lock_vars, qe, walk_vars>>

\* The entry is the first one, or the list is walked, or it is empty.
FreeUnlink ==
    LET e == qe["comm_w"]
    IN  /\ \/ /\ head = NULL
              /\ Goes("comm_w", "unlink", "free")
              /\ UNCHANGED <<head, tail, walk_vars>>
           \/ /\ e = head
              /\ Goes("comm_w", "unlink", "free")
              /\ head' = IF e = tail THEN NULL ELSE next[head]
              /\ tail' = IF e = tail THEN NULL ELSE tail
              /\ UNCHANGED walk_vars
           \/ /\ head # NULL /\ e # head
              /\ Goes("comm_w", "unlink", "walk")
              /\ m_qe_prev' = head
              /\ m_qe' = next[head]
              /\ UNCHANGED <<head, tail>>
        /\ UNCHANGED <<list, next, allocated, lock_vars, qe>>

\* Fault: the tail is not moved back.
FreeWalkKeepsTail ==
    LET e == qe["comm_w"]
    IN  /\ \/ /\ m_qe = NULL
              /\ Goes("comm_w", "walk", "free")
              /\ UNCHANGED <<next, m_qe, m_qe_prev>>
           \/ /\ m_qe # NULL
              /\ Goes("comm_w", "walk", "walk")
              /\ IF m_qe = e
                   THEN /\ next' = [next EXCEPT ![m_qe_prev] = next[m_qe]]
                        /\ UNCHANGED m_qe_prev
                   ELSE /\ m_qe_prev' = m_qe
                        /\ UNCHANGED next
              /\ m_qe' = next[m_qe]
        /\ UNCHANGED <<list, head, tail, allocated, lock_vars, qe>>

\* One round of the loop, or its end and the test of the tail.
FreeWalk ==
    LET e == qe["comm_w"]
    IN  /\ \/ /\ m_qe = NULL
              /\ Goes("comm_w", "walk", "free")
              /\ tail' = IF e # head /\ e = tail THEN m_qe_prev ELSE tail
              /\ UNCHANGED <<next, m_qe, m_qe_prev>>
           \/ /\ m_qe # NULL
              /\ Goes("comm_w", "walk", "walk")
              /\ IF m_qe = e
                   THEN /\ next' = [next EXCEPT ![m_qe_prev] = next[m_qe]]
                        /\ UNCHANGED m_qe_prev
                   ELSE /\ m_qe_prev' = m_qe
                        /\ UNCHANGED next
              /\ m_qe' = next[m_qe]
              /\ UNCHANGED tail
        /\ UNCHANGED <<list, head, allocated, lock_vars, qe>>

\* Fault: the critical section of the queue is not left.
FreeEntryStays ==
    /\ Goes("comm_w", "free", "idle")
    /\ allocated' = allocated \ {qe["comm_w"]}
    /\ qe' = [qe EXCEPT !["comm_w"] = NULL]
    /\ m_qe' = NULL /\ m_qe_prev' = NULL
    /\ csec_out_connection' = NULL
    /\ UNCHANGED <<list, list_vars, csec>>

\* free, and the end of the critical sections that comm_w is in.
FreeEntry ==
    /\ Goes("comm_w", "free", "idle")
    /\ allocated' = allocated \ {qe["comm_w"]}
    /\ qe' = [qe EXCEPT !["comm_w"] = NULL]
    /\ m_qe' = NULL /\ m_qe_prev' = NULL
    /\ csec' = IF csec = "comm_w" THEN NULL ELSE csec
    /\ csec_out_connection' = NULL
    /\ UNCHANGED <<list, list_vars>>

(***************************************************************************)
(* The cleanup thread: free_w_in_messages and free_w_out_messages, called  *)
(* by cleanup() in csec_out_connection.                                    *)
(***************************************************************************)

\* Fault: cleanup() does not enter csec_out_connection.
FreeMessagesUnlocked ==
    /\ csec = NULL
    /\ head # NULL
    /\ allocated' = allocated \ Range(Contents)
    /\ head' = NULL /\ tail' = NULL
    /\ UNCHANGED <<list, next, lock_vars, pc, qe, walk_vars>>

FreeMessages ==
    /\ csec = NULL /\ csec_out_connection = NULL
    /\ head # NULL
    /\ allocated' = allocated \ Range(Contents)
    /\ head' = NULL /\ tail' = NULL
    /\ UNCHANGED <<list, next, lock_vars, pc, qe, walk_vars>>

-----------------------------------------------------------------------------

Next ==
    \/ \E e \in Entry : Alloc(e) \/ Find(e)
    \/ EnterPut
    \/ PutLink
    \/ PutTail
    \/ PutHead
    \/ Get
    \/ FreeHead
    \/ FreeAssert
    \/ FreeUnlink
    \/ FreeWalk
    \/ FreeEntry
    \/ FreeMessages

Spec == Init /\ [][Next]_vars

-----------------------------------------------------------------------------

(***************************************************************************)
(* Between two operations the list is one: it has an end, its tail is its  *)
(* last entry, and head and tail are NULL together.  q_get leaves the next *)
(* pointer of the entry it takes (queue.h:62), q_free looks for an entry   *)
(* that is no longer there (queue.c:47), and an address that was freed is  *)
(* used again.                                                             *)
(***************************************************************************)
WellFormed ==
    /\ Acyclic
    /\ csec = NULL =>
         IF Contents = <<>> THEN tail = NULL ELSE tail = Last(Contents)

(***************************************************************************)
(* No entry is used after it was freed: neither the list nor the walk of   *)
(* q_free, which is outside of the queue's critical section for            *)
(* w_out_messages, ever holds a freed entry.  It rests on                  *)
(* csec_out_connection, which both comm_w and cleanup() happen to be in.   *)
(***************************************************************************)
NoUseAfterFree ==
    /\ Acyclic => Range(Contents) \subseteq allocated
    /\ tail # NULL => tail \in allocated
    /\ {m_qe, m_qe_prev} \subseteq allocated \cup {NULL}

(***************************************************************************)
(* The list implements the queue of module Fifo, whatever steps of a put   *)
(* an unlocked q_free comes between: entries are lost, duplicated or       *)
(* reordered by none of them, and q_free removes the entry it was given or *)
(* nothing.                                                                *)
(***************************************************************************)
Abstract == INSTANCE Fifo WITH
    contents <- Contents,
    held <- qe["comm_w"],
    searched <- list = "w_in_messages"

ImplementsFifo == Abstract!Spec

(***************************************************************************)
(* The assertions of q_put (queue.h:44) and q_free (queue.c:29-65) hold    *)
(* where they are evaluated, with one exception: that an empty queue has   *)
(* no tail (queue.c:29-30).  q_free is called for w_out_messages outside   *)
(* of the queue's critical section (dispatcher.c:607) and may read head    *)
(* before and tail after the stores of a put.  That is the only way: it    *)
(* takes a put that has stored the tail, and is harmless in a build        *)
(* without assertions, as ImplementsFifo shows.                            *)
(***************************************************************************)
PutSeen == list = "w_out_messages" /\ (pc["process"] = "head" \/ head # NULL)

AssertionsHold ==
    /\ pc["process"] = "link" /\ tail # NULL => head # NULL
    /\ pc["comm_w"] = "assert" => tail = NULL \/ PutSeen
    /\ pc["comm_w"] = "unlink" /\ head = qe["comm_w"] => tail # NULL
    /\ pc["comm_w"] = "walk" =>
           head # NULL /\ tail # NULL /\ m_qe_prev # NULL
=============================================================================
