------------------------------ MODULE MuxService ------------------------------
(***************************************************************************)
(* What the muxer promises its clients, whatever goes on inside: a client  *)
(* connects, asks and is answered, each request at most once and only with *)
(* its own answer.  Requests get lost with the connection to the server,   *)
(* but then their clients are disconnected before a new one serves         *)
(* anybody.  Invokeids that clash are the exception: from then on only the *)
(* number of replies is bounded, and nothing counts as pending.            *)
(***************************************************************************)
EXTENDS Naturals, Sequences, SequencesExt

CONSTANTS
    Client,
    MaxRequests,   \* bound: requests a client sends
    Unencodable    \* the requests <<client, number>> that are never answered

VARIABLES
    connected,     \* the clients that are connected
    asked,         \* how many requests each client has sent
    pending,       \* the requests that may still be answered
    received,      \* the replies each client has received, in order
    broken,        \* is the connection to the server broken or being replaced?
    clash          \* has an invokeid been used for two requests?

vars == <<connected, asked, pending, received, broken, clash>>

Reply(r) == [invokeid |-> r[2], req |-> r]

\* The requests that were sent and will not be answered any more.
Lost ==
    {r \in Client \X (1 .. MaxRequests) :
        /\ r[2] <= asked[r[1]]
        /\ r \notin pending
        /\ ~Contains(received[r[1]], Reply(r))}

\* No connected client waits for an answer that will not come.
NobodyLeftOut ==
    \A r \in Lost : r[1] \notin connected \/ r \in Unencodable

Init ==
    /\ connected = {}
    /\ asked = [c \in Client |-> 0]
    /\ pending = {}
    /\ received = [c \in Client |-> <<>>]
    /\ broken = FALSE
    /\ clash = FALSE

Connect(c) ==
    /\ c \notin connected /\ asked[c] = 0
    /\ connected' = connected \cup {c}
    /\ UNCHANGED <<asked, pending, received, broken, clash>>

Ask(c) ==
    /\ c \in connected /\ asked[c] < MaxRequests
    /\ asked' = [asked EXCEPT ![c] = @ + 1]
    /\ pending' = IF clash THEN {} ELSE pending \cup {<<c, asked[c] + 1>>}
    /\ UNCHANGED <<connected, received, broken, clash>>

Answer(r) ==
    /\ r \in pending /\ r[1] \in connected
    /\ pending' = pending \ {r}
    /\ received' = [received EXCEPT ![r[1]] = Append(@, Reply(r))]
    /\ UNCHANGED <<connected, asked, broken, clash>>

\* With clashing invokeids a client may get the reply to any request.
AnswerWrongly(c) ==
    /\ clash
    /\ c \in connected /\ Len(received[c]) < asked[c]
    /\ \E r \in Client \X (1 .. MaxRequests), n \in 1 .. MaxRequests :
           received' = [received EXCEPT ![c] =
                            Append(@, [invokeid |-> n, req |-> r])]
    /\ UNCHANGED <<connected, asked, pending, broken, clash>>

\* A client goes or is dropped, and perhaps requests of its own with it.
Disconnect(c) ==
    /\ c \in connected
    /\ connected' = connected \ {c}
    /\ pending' \subseteq pending
    /\ clash \/ broken \/ NobodyLeftOut'
    /\ UNCHANGED <<asked, received, broken, clash>>

Lose ==
    /\ pending' \subseteq pending
    /\ clash \/ broken \/ NobodyLeftOut'
    /\ UNCHANGED <<connected, asked, received, broken, clash>>

Fail ==
    /\ ~broken /\ broken'
    /\ pending' \subseteq pending
    /\ UNCHANGED <<connected, asked, received, clash>>

Recover ==
    /\ broken /\ ~broken'
    /\ pending' \subseteq pending
    /\ clash \/ NobodyLeftOut'
    /\ UNCHANGED <<connected, asked, received, clash>>

Clash ==
    /\ clash' = TRUE
    /\ pending' = {}
    /\ UNCHANGED <<connected, asked, received, broken>>

Next ==
    \/ \E c \in Client : \/ Connect(c)
                         \/ Ask(c)
                         \/ AnswerWrongly(c)
                         \/ Disconnect(c)
    \/ \E r \in pending : Answer(r)
    \/ Lose
    \/ Fail
    \/ Recover
    \/ Clash

Spec == Init /\ [][Next]_vars
=============================================================================
