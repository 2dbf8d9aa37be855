------------------------------ MODULE MCRouting ------------------------------
(***************************************************************************)
(* Instances of Routing for TLC.                                           *)
(***************************************************************************)
EXTENDS Routing, TLC

CONSTANTS c1, c2

\* Clients and handles are interchangeable.
Symmetric == Permutations(Client) \cup Permutations(Socket)

SocketSymmetric == Permutations(Socket)

\* The first request of c1 does not fit the encoder's buffer.
FirstRequestOfC1 == {<<c1, 1>>}
=============================================================================
