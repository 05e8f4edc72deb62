--------------------------- MODULE MCArduinoClient ---------------------------
(***************************************************************************)
(* Instances of module ArduinoClient for TLC: an event with a short        *)
(* payload and one with a payload that a WiFiClient cannot hold, and a     *)
(* counter.                                                                *)
(***************************************************************************)
EXTENDS ArduinoClient

MCEvent   == {<<5>>}
MCCounter == {<<6>>}

MCNotices == {
  [op |-> 1, name |-> <<5>>, payload |-> <<2>>],
  [op |-> 1, name |-> <<5>>, payload |-> <<1, 0, 0, 0, 7>>],
  [op |-> 2, name |-> <<6>>, value |-> 258] }

=============================================================================
