------------------------------- MODULE Receiver -------------------------------
(***************************************************************************)
(* One connection of the server from recv to the handlers of Client:       *)
(* Client::receive_input fills the InputBuffer, Client::parse_input runs   *)
(* Client::Parser as long as it has the bytes for its next step.           *)
(*                                                                         *)
(* A packet that is processed is appended to a history; what its handler   *)
(* does is module WhiteBell.                                               *)
(***************************************************************************)
EXTENDS PacketFields

CONSTANT
  Calls     \* sequences of calls of a library's methods; what they send are streams

\* phase is "select", where the server waits, or "parse", in the loop of
\* parse_input; the other variables of PacketFields are those of Client::Parser.
VARIABLE
  handled   \* history: the calls of handlers, as [op, name, payload]

fields == <<opcode, name_length, payload_length, name, payload>>
vars   == <<bufferVars, phase, step, fields, handled>>

\* Parser::opcode before the first packet, and for reserved ones.
undefined == 16

\* What calls of a library's methods send.
Written(calls) == FlattenSeq([i \in DOMAIN calls |-> request(calls[i])])

\* Only "trigger event" has a payload.
CallRecords == [op : 0..7, name : Seq(Byte), payload : Seq(Byte)]

ASSUME CallsAreStreams ==
  \A calls \in Calls :
    /\ calls \in Seq(CallRecords)
    /\ \A i \in DOMAIN calls : calls[i].op # trigger_event => calls[i].payload = <<>>
    /\ Written(calls) \in Streams

-----------------------------------------------------------------------------
required_input_size ==
  CASE step = "header"         -> 1
    [] step = "name_length"    -> 1
    [] step = "payload_length" -> 2
    [] step = "name"           -> name_length
    [] step = "payload"        -> payload_length
    [] step = "process"        -> 0

\* Mutant: one byte too many is asked for.
can_parse_late == avaliable(buffer) > required_input_size

can_parse == avaliable(buffer) >= required_input_size

\* The order of the steps: only "trigger event" has a payload.
NextStep ==
  CASE step = "header"         -> "name_length"
    [] step = "name_length"    -> IF opcode = trigger_event THEN "payload_length" ELSE "name"
    [] step = "payload_length" -> "name"
    [] step = "name"           -> IF opcode = trigger_event THEN "payload" ELSE "process"
    [] step = "payload"        -> "process"
    [] step = "process"        -> "header"

\* Mutant: the opcodes reserved for future ideas are taken as they are.
OpcodeAsIs(header) == header % 16

\* The low four bits, if they are an operation of the protocol.
OpcodeOf(header) == IF header % 16 > 7 THEN undefined ELSE header % 16

\* Mutant: the two bytes of a length are swapped.
LittleEndian(bytes) == bytes[1] + bytes[2] * 256

PayloadLength(bytes) == bytes[1] * 256 + bytes[2]

\* parse() in step s, which reads n bytes.
Parsing(s, n) ==
  /\ phase = "parse"
  /\ step = s
  /\ can_parse
  /\ Get(n)
  /\ step' = NextStep
  /\ UNCHANGED phase

-----------------------------------------------------------------------------
Init ==
  /\ BufferInit
  /\ phase          = "select"
  /\ step           = "header"
  /\ opcode         = undefined
  /\ name_length    = 0
  /\ payload_length = 0
  /\ name           = <<>>
  /\ payload        = <<>>
  /\ handled        = <<>>

Leave == PeerLeaves /\ UNCHANGED <<phase, step, fields, handled>>

\* Client::receive_input returns, whether recv worked or not, and parse_input
\* is called.
ReceiveInput ==
  /\ phase = "select"
  /\ ReceiveError \/ \E n \in 1..Len(stream) : Receive(n)
  /\ phase' = "parse"
  /\ UNCHANGED <<step, fields, handled>>

\* Client::receive_input throws; parse_input is not called.
Disconnected ==
  /\ phase = "select"
  /\ ReceiveNothing
  /\ UNCHANGED <<phase, step, fields, handled>>

parse_header ==
  /\ Parsing("header", 1)
  /\ opcode' = OpcodeOf(peek(buffer, 1)[1])
  /\ UNCHANGED <<name_length, payload_length, name, payload, handled>>

read_name_length ==
  /\ Parsing("name_length", 1)
  /\ name_length' = peek(buffer, 1)[1]
  /\ UNCHANGED <<opcode, payload_length, name, payload, handled>>

read_payload_length ==
  /\ Parsing("payload_length", 2)
  /\ payload_length' = PayloadLength(peek(buffer, 2))
  /\ UNCHANGED <<opcode, name_length, name, payload, handled>>

read_name ==
  /\ Parsing("name", name_length)
  /\ name' = peek(buffer, name_length)
  /\ UNCHANGED <<opcode, name_length, payload_length, payload, handled>>

read_payload ==
  /\ Parsing("payload", payload_length)
  /\ payload' = peek(buffer, payload_length)
  /\ UNCHANGED <<opcode, name_length, payload_length, name, handled>>

Call(op, nm, pl) == [op |-> op, name |-> nm, payload |-> IF op = trigger_event THEN pl ELSE <<>>]

process_packet ==
  /\ Parsing("process", 0)
  /\ handled' = IF opcode = undefined THEN handled
                ELSE Append(handled, Call(opcode, name, payload))
  /\ UNCHANGED fields

\* The loop of parse_input ends.
ParsedAll ==
  /\ phase = "parse"
  /\ ~can_parse
  /\ phase' = "select"
  /\ UNCHANGED <<bufferVars, step, fields, handled>>

Next ==
  \/ Leave
  \/ ReceiveInput
  \/ Disconnected
  \/ parse_header
  \/ read_name_length
  \/ read_payload_length
  \/ read_name
  \/ read_payload
  \/ process_packet
  \/ ParsedAll

Spec == Init /\ [][Next]_vars

-----------------------------------------------------------------------------
(***************************************************************************)
(* Properties.                                                             *)
(***************************************************************************)

\* Every field of the parser has its type.
TypeOK ==
  /\ BufferTypeOK
  /\ phase \in {"select", "parse"}
  /\ step \in {"header", "name_length", "payload_length", "name", "payload", "process"}
  /\ opcode \in 0..7 \cup {undefined}
  /\ name_length \in 0..UINT8_MAX
  /\ payload_length \in 0..UINT16_MAX
  /\ name \in Seq(Byte)
  /\ payload \in Seq(Byte)
  /\ handled \in Seq(CallRecords)

\* The packet that starts at byte i of s, by the format of notes/input.txt: its
\* name, its payload and the next packet start there.
OpAt(s, i)      == s[i] % 16
NameAt(s, i)    == i + (IF OpAt(s, i) = trigger_event THEN 4 ELSE 2)
PayloadAt(s, i) == NameAt(s, i) + s[i + 1]
NextAt(s, i)    ==
  PayloadAt(s, i) + (IF OpAt(s, i) = trigger_event THEN (s[i + 2] * 256) + s[i + 3] ELSE 0)

Whole(s, i) == i < Len(s) /\ NameAt(s, i) <= Len(s) + 1 /\ NextAt(s, i) <= Len(s) + 1

PacketAt(s, i) ==
  [op      |-> OpAt(s, i),
   name    |-> SubSeq(s, NameAt(s, i), PayloadAt(s, i) - 1),
   payload |-> SubSeq(s, PayloadAt(s, i), NextAt(s, i) - 1)]

\* The packets of s from byte i on, reserved opcodes left out, and whatever is
\* incomplete at its end.
PacketsFrom(s) ==
  LET packets[i \in 1..Len(s) + 1] ==
        IF ~Whole(s, i) THEN <<>>
        ELSE (IF OpAt(s, i) > 7 THEN <<>> ELSE <<PacketAt(s, i)>>) \o packets[NextAt(s, i)]
  IN  packets

PacketsOf(s) == PacketsFrom(s)[1]

Arrived == SubSeq(stream, 1, received)

\* However recv cuts the stream, and however the array is moved and resized, the
\* handlers are called for the packets of the stream, in order, each once, and
\* for all that have arrived before the server waits again.
FramingExact ==
  LET whole == PacketsOf(Arrived)
  IN  /\ Len(handled) <= Len(whole) /\ handled = SubSeq(whole, 1, Len(handled))
      /\ phase = "select" => handled = whole

Fits(call) == Len(call.name) <= UINT8_MAX /\ Len(call.payload) <= UINT16_MAX

\* How many calls there are before the first one that does not fit.
Fitting(calls) ==
  CHOOSE k \in 0..Len(calls) : /\ \A i \in 1..k : Fits(calls[i])
                               /\ k < Len(calls) => ~Fits(calls[k + 1])

\* What a program calls is what the server does, in order, each once and nothing
\* else, up to the first name or payload that is longer than the protocol can
\* tell: of that one the library sends all the bytes, with a length that is cut.
CallsUnderstood ==
  \A calls \in Calls :
    stream = Written(calls) =>
      /\ \A i \in DOMAIN handled : i <= Fitting(calls) => handled[i] = calls[i]
      /\ Fitting(calls) = Len(calls) => Len(handled) <= Len(calls)
      /\ phase = "select" /\ received = Len(stream) => Len(handled) >= Fitting(calls)

\* The server waits only when the parser lacks bytes, and what it lacks bounds
\* what is left in the buffer: the assumption that module InputBuffer makes of
\* its user.
WaitsForMore ==
  phase = "select" => /\ avaliable(buffer) < required_input_size
                      /\ avaliable(buffer) <= Limit

=============================================================================
