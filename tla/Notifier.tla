------------------------------- MODULE Notifier -------------------------------
(***************************************************************************)
(* The way back: what the server's Client::send writes to a non-blocking   *)
(* socket, and what the C++ client library makes of it.                    *)
(*                                                                         *)
(* Client::send_protocol_version, send_event and send_counter_event build  *)
(* a packet and pass it to ::send, whose result nobody compares with the   *)
(* packet's size.  Client::Details::receive fills an InputBuffer ("the     *)
(* same class that the server uses") and runs its steps while it has the   *)
(* bytes for the next one.  Here "stream" is what the socket took, and     *)
(* "peer" is the server.                                                   *)
(***************************************************************************)
EXTENDS PacketFields

CONSTANTS
  Notice,    \* the events and counter changes that may be sent: records
             \* [op, name, payload] or [op, name, value]
  Room,      \* bytes the sockets hold between send and recv
  MaxNotices \* bound: notices sent on one connection

\* A new socket takes the version whole.
ASSUME RoomForVersion == Room \in Nat /\ Room >= Len(version_packet)
ASSUME NoticesNatural == MaxNotices \in Nat
\* The server has names, payloads and values from packets of the same format.
ASSUME NoticesFit ==
  /\ version_packet \in Seq(Byte)
  /\ \A n \in Notice :
       /\ \/ n \in [op : {event_triggered}, name : Seq(Byte), payload : Seq(Byte)]
             /\ Shifted(Len(n.payload), 1) < 256
          \/ n \in [op : {counter_changed}, name : Seq(Byte), value : Nat]
             /\ Shifted(n.value, 3) < 256
       /\ Len(n.name) < 256
       /\ packet(n) \in Seq(Byte)

\* phase is Details::receive: "recv", "process", its loop, or "thrown", left by an
\* exception; the other variables of PacketFields are those of Details.
VARIABLES
  counter_value,  \* Details::counter_value
  sent,           \* history: the notices sent
  written,        \* history: those of them that the socket took whole
  torn,           \* history: it took a part of one
  called          \* history: the notices whose listeners were called

details == <<opcode, name_length, counter_value, payload_length, name, payload>>
outbox == <<sent, written, torn>>
notifierVars == <<bufferVars, phase, step, details, outbox, called>>

-----------------------------------------------------------------------------
(***************************************************************************)
(* The server.                                                             *)
(***************************************************************************)
\* What the sockets can take at once.
Free == Room - (Len(stream) - received)

\* ::send takes all, a part, or (EAGAIN) nothing; in the last two cases there
\* was no room for all.
send(bytes, n) ==
  /\ n \in 0..Len(bytes)
  /\ IF Len(bytes) <= Free THEN n = Len(bytes) ELSE n <= Free
  /\ stream' = stream \o SubSeq(bytes, 1, n)

\* Client::send_event and send_counter_event.
Notify(notice) ==
  /\ peer = "open"
  /\ Len(sent) < MaxNotices
  /\ sent' = Append(sent, notice)
  /\ \E n \in 0..Len(packet(notice)) :
       /\ send(packet(notice), n)
       /\ written' = IF n = Len(packet(notice)) THEN Append(written, notice) ELSE written
       /\ torn' = (torn \/ n \in 1..(Len(packet(notice)) - 1))
  /\ UNCHANGED <<buffer, peer, connected, received, taken, phase, step, details, called>>

\* Client::~Client, or the end of the server.
ServerLeaves == PeerLeaves /\ UNCHANGED <<phase, step, details, outbox, called>>

-----------------------------------------------------------------------------
(***************************************************************************)
(* The client library.                                                     *)
(***************************************************************************)
Needed ==
  CASE step \in {"header", "protocol_version", "name_length"} -> 1
    [] step = "payload_length" -> 2
    [] step = "counter_value"  -> 4
    [] step = "name"           -> name_length
    [] step = "payload"        -> payload_length
    [] step \in {"call_counter_listeners", "call_event_listeners"} -> 0

\* Mutant: a counter's value is read as soon as two of its bytes are there.
can_process_early ==
  avaliable(buffer) >= (IF step = "counter_value" THEN 2 ELSE Needed)

can_process_input == avaliable(buffer) >= Needed

\* One call of process_input in step s that reads n bytes; less are read if the
\* buffer has less.
Processing(s, n) ==
  /\ phase = "process"
  /\ step = s
  /\ can_process_input
  /\ Get(IF n <= avaliable(buffer) THEN n ELSE avaliable(buffer))
  /\ UNCHANGED outbox

Read(n) == peek(buffer, IF n <= avaliable(buffer) THEN n ELSE avaliable(buffer))

receive ==
  /\ phase = "recv"
  /\ ReceiveError \/ \E n \in 1..Len(stream) : Receive(n)
  /\ phase' = "process"
  /\ UNCHANGED <<step, details, outbox, called>>

\* The DisconnectedException of InputBuffer::receive_input leaves run or fetch.
disconnected ==
  /\ phase = "recv"
  /\ ReceiveNothing
  /\ phase' = "thrown"
  /\ UNCHANGED <<step, details, outbox, called>>

\* Mutant: an opcode the client does not know is taken for a notice.
process_header_any ==
  /\ Processing("header", 1)
  /\ opcode' = Read(1)[1] % 16
  /\ step' = IF opcode' = version THEN "protocol_version" ELSE "name_length"
  /\ UNCHANGED <<phase, name_length, counter_value, payload_length, name, payload, called>>

\* An opcode the client does not know leaves the step at header.
process_header ==
  /\ Processing("header", 1)
  /\ opcode' = Read(1)[1] % 16
  /\ step' = CASE opcode' = version -> "protocol_version"
               [] opcode' \in {event_triggered, counter_changed} -> "name_length"
               [] OTHER -> "header"
  /\ UNCHANGED <<phase, name_length, counter_value, payload_length, name, payload, called>>

\* An UnsupportedProtocolException leaves run or fetch; the step stays.
process_version ==
  /\ Processing("protocol_version", 1)
  /\ IF Read(1)[1] = protocol_version
     THEN step' = "header" /\ UNCHANGED phase
     ELSE phase' = "thrown" /\ UNCHANGED step
  /\ UNCHANGED <<details, called>>

process_name_length ==
  /\ Processing("name_length", 1)
  /\ name_length' = Read(1)[1]
  /\ step' = IF opcode = event_triggered THEN "payload_length" ELSE "counter_value"
  /\ UNCHANGED <<phase, opcode, counter_value, payload_length, name, payload, called>>

process_counter_value ==
  /\ Processing("counter_value", 4)
  /\ counter_value' = Number(Read(4))
  /\ step' = "name"
  /\ UNCHANGED <<phase, opcode, name_length, payload_length, name, payload, called>>

process_payload_length ==
  /\ Processing("payload_length", 2)
  /\ payload_length' = Number(Read(2))
  /\ step' = "name"
  /\ UNCHANGED <<phase, opcode, name_length, counter_value, name, payload, called>>

process_name ==
  /\ Processing("name", name_length)
  /\ name' = Read(name_length)
  /\ step' = IF opcode = event_triggered THEN "payload" ELSE "call_counter_listeners"
  /\ UNCHANGED <<phase, opcode, name_length, counter_value, payload_length, payload, called>>

process_payload ==
  /\ Processing("payload", payload_length)
  /\ payload' = Read(payload_length)
  /\ step' = "call_event_listeners"
  /\ UNCHANGED <<phase, opcode, name_length, counter_value, payload_length, name, called>>

\* What the listeners do is module CppClient.
call_listeners ==
  /\ \/ /\ Processing("call_event_listeners", 0)
        /\ called' = Append(called, [op |-> event_triggered, name |-> name, payload |-> payload])
     \/ /\ Processing("call_counter_listeners", 0)
        /\ called' = Append(called, [op |-> counter_changed, name |-> name, value |-> counter_value])
  /\ step' = "header"
  /\ UNCHANGED <<phase, details>>

\* The loop of receive ends, and run calls it again.
processed_all ==
  /\ phase = "process"
  /\ ~can_process_input
  /\ phase' = "recv"
  /\ UNCHANGED <<bufferVars, step, details, outbox, called>>

-----------------------------------------------------------------------------
\* The constructor of the server's Client has sent the version.
NotifierInit ==
  /\ buffer         = NewBuffer
  /\ peer           = "open"
  /\ connected      = TRUE
  /\ stream         = version_packet
  /\ received       = 0
  /\ taken          = 0
  /\ phase          = "recv"
  /\ step           = "header"
  /\ opcode         = version
  /\ name_length    = 0
  /\ counter_value  = 0
  /\ payload_length = 0
  /\ name           = <<>>
  /\ payload        = <<>>
  /\ sent           = <<>>
  /\ written        = <<>>
  /\ torn           = FALSE
  /\ called         = <<>>

NotifierNext ==
  \/ \E notice \in Notice : Notify(notice)
  \/ ServerLeaves
  \/ receive
  \/ disconnected
  \/ process_header
  \/ process_version
  \/ process_name_length
  \/ process_counter_value
  \/ process_payload_length
  \/ process_name
  \/ process_payload
  \/ call_listeners
  \/ processed_all

NotifierSpec == NotifierInit /\ [][NotifierNext]_notifierVars

-----------------------------------------------------------------------------
(***************************************************************************)
(* Properties.                                                             *)
(***************************************************************************)

\* Every variable has its type; numbers fit the fields of Details, and the steps
\* after the header are those of a notice.
NotifierTypeOK ==
  /\ phase \in {"recv", "process", "thrown"}
  /\ step \in {"header", "protocol_version", "name_length", "counter_value", "payload_length",
               "name", "payload", "call_counter_listeners", "call_event_listeners"}
  /\ opcode \in 0..15
  /\ step \in {"name_length", "counter_value", "payload_length", "name", "payload"}
       => opcode \in {event_triggered, counter_changed}
  /\ name_length \in 0..255
  /\ counter_value \in Nat
  /\ payload_length \in 0..UINT16_MAX
  /\ name \in Seq(Byte) /\ payload \in Seq(Byte)
  /\ stream \in Seq(Byte) /\ received \in 0..Len(stream) /\ taken \in 0..received
  /\ Len(stream) - received <= Room
  /\ sent \in Seq(Notice) /\ written \in Seq(Notice) /\ torn \in BOOLEAN

\* Until a packet is cut short, the client calls its listeners for the packets
\* that the socket took, in order, each once, with the names, payloads and
\* values the server sent; a packet lost as a whole is missing and disturbs
\* nothing.  When all has arrived and the client waits again, it missed none.
CallsAreNotices ==
  ~torn => /\ IsPrefix(called, written)
           /\ (phase = "recv" /\ received = Len(stream)) => called = written
           /\ phase = "thrown" => ~connected

\* notes/output.txt gives the format of what the server sends: packets, each with
\* the name and payload whose lengths it announces.  So the client never calls a
\* listener for something that was not sent.
FormatKept == \A i \in DOMAIN called : called[i] \in ToSet(sent)

=============================================================================
