---------------------------- MODULE ArduinoClient ----------------------------
(***************************************************************************)
(* A sketch that uses the Arduino (ESP8266) library, the WiFiClient below  *)
(* it and the server's Client object for its connection.                   *)
(*                                                                         *)
(* The library has no buffer of its own: a step is done when the           *)
(* WiFiClient holds the bytes it reads.  It looks at no result of connect  *)
(* and write, nor at the version.  A sketch has one thread, and calls      *)
(* fetch from its loop; but a callback may call fetch as well, and that    *)
(* process() runs inside the call of the first.                            *)
(***************************************************************************)
EXTENDS Subscriptions, Packets, FiniteSets

CONSTANTS
  Notice,     \* the notices that may be sent; see Packets
  Window,     \* bytes that a WiFiClient holds
  MaxNotices, \* bound: notices sent on the connection
  MaxDepth    \* bound: calls of fetch inside each other

Byte == 0..255

\* The server has names, payloads and values from packets of the same format.
ASSUME NoticesFit ==
  \A n \in Notice :
    /\ \/ n \in [op : {event_triggered}, name : Event, payload : Seq(Byte)]
          /\ Shifted(Len(n.payload), 1) < 256
       \/ n \in [op : {counter_changed}, name : Counter, value : Nat]
          /\ Shifted(n.value, 3) < 256
    /\ n.name \in Seq(Byte) /\ Len(n.name) < 256
ASSUME WindowNatural == Window \in Nat /\ MaxNotices \in Nat /\ MaxDepth \in Nat \ {0}

VARIABLES
  owed,      \* the counters whose values the server still has to send for the
             \* packet that it handles
  linked,    \* the TCP connection holds: connect succeeded, and nothing broke it
  stream,    \* history: all the bytes the server sent
  arrived,   \* how many of them the WiFiClient has had
  taken,     \* how many of them the library has read
  details,   \* [step, opcode, name_length, counter_value, payload_length, name,
             \* payload]: the fields of Details
  stack,     \* for each process() that runs, the listeners it has to wait for:
             \* <<>> at the head of its loop, else the first one is being called
  sent,      \* history: the notices sent
  processed, \* history: the notices whose listeners were looked up, each with
             \* the value of taken
  nested,    \* history: a callback has called fetch
  cut        \* history: a process() set the step back in the middle of a packet

network == <<owed, linked, stream, arrived>>
history == <<sent, nested>>
vars    == <<subscriptions, network, taken, details, stack, history, processed, cut>>

available == arrived - taken

Top == IF stack = <<>> THEN <<>> ELSE stack[Len(stack)]

\* At the head of the loop of process().
AtLoop == stack # <<>> /\ Top = <<>>

Replaced(list) == [stack EXCEPT ![Len(stack)] = list]

-----------------------------------------------------------------------------
(***************************************************************************)
(* What the sketch may call, from its loop or from a callback.             *)
(***************************************************************************)
MayCall == ~AtLoop

untouched == <<network, taken, details, stack, history, processed, cut>>

track(n, cb) == MayCall /\ AddListener(n, cb) /\ UNCHANGED untouched

\* No sketch removes a callback it has not registered: erase(end()) is undefined.
untrack_callback(n, cb) ==
  MayCall /\ ~Unregistered(n, cb) /\ RemoveListener(n, cb) /\ UNCHANGED untouched

untrack(n) == MayCall /\ RemoveAll(n) /\ UNCHANGED untouched

set_namespace == MayCall /\ SetNamespace /\ UNCHANGED untouched

Called(depth) ==
  /\ Len(stack) = depth
  /\ stack' = Append(stack, <<>>)
  /\ nested' = (nested \/ depth > 0)
  /\ UNCHANGED <<subscriptions, network, taken, details, sent, processed, cut>>

\* By loop(), and by a callback.
fetch == Called(0)

fetch_again == \E depth \in 1..MaxDepth - 1 : Len(stack) = depth /\ Top # <<>> /\ Called(depth)

-----------------------------------------------------------------------------
(***************************************************************************)
(* Details::process.                                                       *)
(***************************************************************************)
Needed ==
  CASE details.step \in {"header", "protocol_version", "name_length"} -> 1
    [] details.step = "payload_length" -> 2
    [] details.step = "counter_value"  -> 4
    [] details.step = "name"           -> details.name_length
    [] details.step = "payload"        -> details.payload_length
    [] details.step \in {"call_counter_listeners", "call_event_listeners"} -> 0

\* Mutant: a counter's value is read as soon as two of its bytes are there.
can_process_early == available >= (IF details.step = "counter_value" THEN 2 ELSE Needed)

\* Mutant: one byte more than the step reads.
can_process_later == available > Needed

can_process_input == available >= Needed

\* One call of process_input, in step s.
Processing(s) ==
  /\ AtLoop
  /\ details.step = s
  /\ can_process_input
  /\ UNCHANGED <<subscriptions, network, history>>

\* WiFiClient::read, of the bytes the step needs; less if there are less.
Input == SubSeq(stream, taken + 1, IF Needed <= available THEN taken + Needed ELSE arrived)

Reading(s) ==
  /\ Processing(s)
  /\ taken' = taken + Len(Input)
  /\ UNCHANGED <<stack, processed, cut>>

\* Mutant: an opcode the client does not know is taken for a notice.
process_header_any ==
  /\ Reading("header")
  /\ LET opcode == Input[1] % 16
     IN  details' = [details EXCEPT
           !.opcode = opcode,
           !.step   = IF opcode = version THEN "protocol_version" ELSE "name_length"]

\* An opcode the client does not know leaves the step at header.
process_header ==
  /\ Reading("header")
  /\ LET opcode == Input[1] % 16
     IN  details' = [details EXCEPT
           !.opcode = opcode,
           !.step   = CASE opcode = version -> "protocol_version"
                        [] opcode \in {event_triggered, counter_changed} -> "name_length"
                        [] OTHER -> "header"]

process_version == Reading("protocol_version") /\ details' = [details EXCEPT !.step = "header"]

process_name_length ==
  /\ Reading("name_length")
  /\ details' = [details EXCEPT
       !.name_length = Input[1],
       !.step = IF details.opcode = event_triggered THEN "payload_length" ELSE "counter_value"]

process_counter_value ==
  /\ Reading("counter_value")
  /\ details' = [details EXCEPT !.counter_value = Number(Input), !.step = "name"]

process_payload_length ==
  /\ Reading("payload_length")
  /\ details' = [details EXCEPT !.payload_length = Number(Input), !.step = "name"]

process_name ==
  /\ Reading("name")
  /\ details' = [details EXCEPT
       !.name = Input,
       !.step = IF details.opcode = event_triggered THEN "payload" ELSE "call_counter_listeners"]

process_payload ==
  /\ Reading("payload")
  /\ details' = [details EXCEPT !.payload = Input, !.step = "call_event_listeners"]

\* The lookup and the copy of the list; without listeners the step is reset at
\* once, else after their calls.
Calling(notice, names) ==
  /\ IF notice.name \in Keys \cap names
     THEN stack' = Replaced(listeners[notice.name]) /\ UNCHANGED details
     ELSE details' = [details EXCEPT !.step = "header"] /\ UNCHANGED stack
  /\ processed' = Append(processed, [notice |-> notice, at |-> taken])
  /\ UNCHANGED <<taken, cut>>

call_event_listeners ==
  /\ Processing("call_event_listeners")
  /\ Calling([op |-> event_triggered, name |-> details.name, payload |-> details.payload], Event)

call_counter_listeners ==
  /\ Processing("call_counter_listeners")
  /\ Calling([op |-> counter_changed, name |-> details.name, value |-> details.counter_value],
             Counter)

\* A callback returns.  After the last one process_input sets the step, whatever
\* a process() inside the call has made of it.
listener_returns ==
  /\ Top # <<>>
  /\ stack' = Replaced(Tail(Top))
  /\ IF Tail(Top) = <<>>
     THEN /\ details' = [details EXCEPT !.step = "header"]
          /\ cut' = (cut \/ details.step \notin {"header", "call_event_listeners",
                                                 "call_counter_listeners"})
     ELSE UNCHANGED <<details, cut>>
  /\ UNCHANGED <<subscriptions, network, taken, history, processed>>

\* The loop ends for want of bytes, and with it process() and fetch.
process_returns ==
  /\ AtLoop
  /\ ~can_process_input
  /\ stack' = SubSeq(stack, 1, Len(stack) - 1)
  /\ UNCHANGED <<subscriptions, network, taken, details, history, processed, cut>>

-----------------------------------------------------------------------------
(***************************************************************************)
(* The network and the server.                                             *)
(***************************************************************************)
Arrive ==
  /\ linked
  /\ \E n \in 1..Window - available :
       arrived + n <= Len(stream) /\ arrived' = arrived + n
  /\ UNCHANGED <<subscriptions, owed, linked, stream, taken, details, stack, history, processed, cut>>

\* Nothing more arrives, and what is written goes nowhere; what has arrived can
\* still be read.
Break ==
  /\ linked
  /\ linked' = FALSE
  /\ UNCHANGED <<subscriptions, owed, stream, arrived, taken, details, stack, history, processed, cut>>

Send(notice) ==
  /\ linked
  /\ Len(sent) < MaxNotices
  /\ sent' = Append(sent, notice)
  /\ stream' = stream \o packet(notice)

unheard == <<linked, arrived, taken, details, stack, processed, nested, cut>>

\* An event is triggered, or a counter changed, by anyone in the namespace.
Notify(notice) ==
  /\ owed = {}
  /\ placed /\ notice.name \in tracked
  /\ Send(notice)
  /\ UNCHANGED <<subscriptions, owed, unheard>>

\* Client::track_event and its siblings, Client::set_namespace.
Handle ==
  /\ linked
  /\ owed = {}
  /\ HandleRequest
  /\ owed' = Greeted
  /\ UNCHANGED <<stream, sent, unheard>>

\* Namespace::add_counter_listener, for each counter by itself.
Greet(notice) ==
  /\ notice.name \in owed
  /\ owed' = owed \ {notice.name}
  /\ Send(notice)
  /\ UNCHANGED <<subscriptions, unheard>>

-----------------------------------------------------------------------------
\* connect may have failed: the constructor does not look.
Init ==
  /\ listeners = NoListeners
  /\ requests  = <<>>
  /\ tracked   = {}
  /\ placed    = FALSE
  /\ owed      = {}
  /\ linked    \in BOOLEAN
  /\ stream    = version_packet
  /\ arrived   = 0
  /\ taken     = 0
  /\ details   = [step |-> "header", opcode |-> version, name_length |-> 0,
                  counter_value |-> 0, payload_length |-> 0, name |-> <<>>, payload |-> <<>>]
  /\ stack     = <<>>
  /\ sent      = <<>>
  /\ processed = <<>>
  /\ nested    = FALSE
  /\ cut       = FALSE

\* What the sketch's loop and the library do by themselves.
Step ==
  \/ fetch
  \/ process_header
  \/ process_version
  \/ process_name_length
  \/ process_counter_value
  \/ process_payload_length
  \/ process_name
  \/ process_payload
  \/ call_event_listeners
  \/ call_counter_listeners
  \/ listener_returns
  \/ process_returns

Methods ==
  \/ \E n \in Name : \/ untrack(n)
                     \/ \E cb \in Callback : track(n, cb) \/ untrack_callback(n, cb)
  \/ set_namespace
  \/ fetch_again

Next ==
  \/ Step
  \/ Methods
  \/ Arrive
  \/ Break
  \/ Handle
  \/ \E notice \in Notice : Notify(notice) \/ Greet(notice)

\* loop() is called again and again, callbacks return, and what was sent arrives
\* when there is room for it.
Spec == Init /\ [][Next]_vars /\ WF_vars(Step) /\ WF_vars(Arrive)

-----------------------------------------------------------------------------
(***************************************************************************)
(* Properties.                                                             *)
(***************************************************************************)

\* Every variable has its type; the steps after the header are those of a notice,
\* also when the packets' bounds are lost.
TypeOK ==
  /\ SubscriptionsTypeOK
  /\ owed \subseteq Counter
  /\ linked \in BOOLEAN
  /\ stream \in Seq(Byte)
  /\ arrived \in 0..Len(stream)
  /\ taken \in 0..arrived
  /\ available <= Window
  /\ details.step \in {"header", "protocol_version", "name_length", "counter_value",
                       "payload_length", "name", "payload", "call_counter_listeners",
                       "call_event_listeners"}
  /\ details.step \in {"name_length", "counter_value", "payload_length", "name", "payload"}
       => details.opcode \in {event_triggered, counter_changed}
  /\ details.name_length \in Byte
  /\ details.payload_length \in Nat /\ details.payload_length < 65536
  /\ stack \in Seq(Seq(Callback)) /\ Len(stack) <= MaxDepth
  /\ sent \in Seq(Notice)
  /\ nested \in BOOLEAN /\ cut \in BOOLEAN

\* The first time that the notice which ends there is processed.
First(i) == i = 1 \/ processed[i].at # processed[i - 1].at

\* The place of the i-th notice that was processed among them, without the
\* repetitions.
Place(i) == Cardinality({j \in 1..i : First(j)})

\* The library calls listeners for what the server sent, in order and each notice
\* once.  A callback that calls fetch has the same notice processed again, as the
\* step is still that of the call; all else stays in order, until the first
\* process() sets the step back while the second one's packet is half read.
NoticesInOrder ==
  /\ cut => nested
  /\ ~cut => \A i \in DOMAIN processed :
               Place(i) \in DOMAIN sent /\ processed[i].notice = sent[Place(i)]
  /\ ~nested => \A i \in DOMAIN processed : First(i)

\* No field of the first i notices is longer than what a WiFiClient holds.
Holdable(i) ==
  \A j \in 1..i :
    /\ Len(sent[j].name) <= Window
    /\ sent[j].op = event_triggered => Len(sent[j].payload) <= Window

\* Every notice gets to its listeners, though nobody but loop() asks for it, as
\* long as the connection holds, no callback calls fetch, and no notice up to it
\* has a field that never is there as a whole: behind such a notice the library
\* waits for ever.
NoticesProcessed ==
  \A i \in 1..MaxNotices :
    (Len(sent) >= i /\ Holdable(i)) ~> (Place(Len(processed)) >= i \/ nested \/ ~linked)

=============================================================================
