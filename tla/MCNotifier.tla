------------------------------ MODULE MCNotifier ------------------------------
(***************************************************************************)
(* Instances of module Notifier for TLC: events and counter changes with   *)
(* names and payloads of several lengths, and values of one and two bytes. *)
(***************************************************************************)
EXTENDS Notifier

MCStreams == {<<>>}

MCNotices == {
  [op |-> 1, name |-> <<5>>,    payload |-> <<>>],
  [op |-> 1, name |-> <<>>,     payload |-> <<2, 0, 6>>],
  [op |-> 2, name |-> <<5, 2>>, value |-> 1],
  [op |-> 2, name |-> <<>>,     value |-> 259] }

=============================================================================
