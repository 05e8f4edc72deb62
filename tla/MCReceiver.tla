------------------------------ MODULE MCReceiver ------------------------------
(***************************************************************************)
(* Instances of module Receiver for TLC: streams of three packets of every *)
(* kind, names and payloads empty or not, flags and reserved opcodes, and  *)
(* what the libraries send for calls of their methods.                     *)
(***************************************************************************)
EXTENDS Receiver

Kinds == {
  <<0, 0>>,                                    \* set namespace, empty name
  <<17, 2, 5, 0>>,                             \* track event, with a flag
  <<3, 1, 0, 3, 6, 7, 8, 3>>,                  \* trigger event
  <<3, 0, 0, 0>>,                              \* the same, all empty
  <<24, 1, 3>>,                                \* a reserved opcode
  <<6, 5, 1, 2, 3, 4, 5>> }                    \* a name longer than the array

\* Calls of each shape; a name of 257 bytes, which is sent with the length 1, and
\* whose other bytes make packets.
Short == [op |-> 6, name |-> <<5>>, payload |-> <<>>]
Event == [op |-> 3, name |-> <<5, 6>>, payload |-> <<7>>]
Empty == [op |-> 3, name |-> <<>>, payload |-> <<>>]
Long  == [op |-> 1, name |-> [i \in 1..257 |-> 1], payload |-> <<>>]

MCCalls == {<<Short, Event, Empty>>, <<Event, Short, Event>>, <<Event, Long, Short>>}

MCStreams ==
  {p \o q \o r : p \in Kinds, q \in Kinds, r \in Kinds} \cup {Written(calls) : calls \in MCCalls}

=============================================================================
