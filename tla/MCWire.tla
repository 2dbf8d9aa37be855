------------------------------- MODULE MCWire -------------------------------
(***************************************************************************)
(* Instances of Wire for TLC: four values to a byte and two bytes to a     *)
(* word, so that the longest messages are a few bytes long.                *)
(***************************************************************************)
EXTENDS Wire

\* Invokeids at the limits of one and of two bytes, of both signs; octet
\* strings of the smallest and the greatest size, with zeros and without.
MCReplies ==
    {[invokeid |-> -8, command |-> <<0, 1, 2, 3>>, result |-> <<3, 3, 3, 3>>],
     [invokeid |-> -3, command |-> <<0>>,          result |-> <<2, 0>>],
     [invokeid |-> -2, command |-> <<3>>,          result |-> <<0>>],
     [invokeid |->  1, command |-> <<0>>,          result |-> <<1, 0, 3>>],
     [invokeid |->  2, command |-> <<0, 0>>,       result |-> <<0, 0, 0, 0>>],
     [invokeid |->  7, command |-> <<3, 2, 1, 0>>, result |-> <<0, 1, 2, 3>>]}

MCRequests ==
    {[invokeid |-> 2, command |-> <<1, 0>>]}
=============================================================================
