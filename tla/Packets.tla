------------------------------- MODULE Packets -------------------------------
(***************************************************************************)
(* The packets as bytes.  Those that the server sends, as src/Client.cpp   *)
(* builds them, for the modules of the two libraries that read them: a     *)
(* notice is an event, [op, name, payload], or a counter's change, [op,    *)
(* name, value].  And those that the libraries send, for the server's      *)
(* parser: a call is [op, name, payload].  Names and payloads are          *)
(* sequences of bytes.                                                     *)
(***************************************************************************)
EXTENDS Naturals, Sequences, SequencesExt

version          == 0
event_triggered  == 1
counter_changed  == 2
protocol_version == 1

trigger_event == 3

\* value >> (i * 8).
Shifted(value, i) ==
  LET right[j \in 0..i] == IF j = 0 THEN value ELSE right[j - 1] \div 256 IN right[i]

\* A number in n bytes, each truncated to uint8_t.
BigEndian(value, n) == [i \in 1..n |-> Shifted(value, n - i) % 256]

\* Client::send_protocol_version.
version_packet == <<version, protocol_version>>

\* Client::send_event and send_counter_event.
packet(n) ==
  IF n.op = event_triggered
  THEN <<event_triggered>> \o BigEndian(Len(n.name), 1) \o BigEndian(Len(n.payload), 2)
         \o n.name \o n.payload
  ELSE <<counter_changed>> \o BigEndian(Len(n.name), 1) \o BigEndian(n.value, 4) \o n.name

\* Mutant: the payload's length is sent before the name's.
request_swapped(call) ==
  <<call.op>>
  \o (IF call.op = trigger_event
      THEN BigEndian(Len(call.payload), 2) \o BigEndian(Len(call.name), 1)
           \o call.name \o call.payload
      ELSE BigEndian(Len(call.name), 1) \o call.name)

\* Details::send of the C++ and of the Arduino library: name.size() is pushed as
\* a char, payload.size() is a uint16_t first, and both strings go out whole.
request(call) ==
  <<call.op>> \o BigEndian(Len(call.name), 1)
  \o (IF call.op = trigger_event
      THEN BigEndian(Len(call.payload), 2) \o call.name \o call.payload
      ELSE call.name)

\* The number in some bytes, as the libraries' loops put it together.
Number(bytes) ==
  LET left[i \in 0..Len(bytes)] == IF i = 0 THEN 0 ELSE left[i - 1] * 256 + bytes[i]
  IN  left[Len(bytes)]

=============================================================================
