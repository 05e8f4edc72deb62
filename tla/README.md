# WhiteBell: specifications, model checking and proofs

WhiteBell is a message repeater: one single-threaded C++ server on a TCP or UNIX
socket, and client libraries for C++, Arduino and PHP. Clients choose a
namespace, send and receive named events, and count themselves in named counters
that others watch. This directory holds TLA+ modules translated from the source,
TLC configurations that check them on small instances, and proofs checked by
TLAPS. Paths below are those of the repository.

## 1. Inventory

| component | state | operations | interacts with |
|---|---|---|---|
| Namespaces and subscriptions (`src/Namespace.cpp`, `src/Client.cpp`, part of `src/Server.cpp`) | `Server::connections`, `Server::namespaces` (weak pointers), a `Client`'s namespace and its tracked events, tracked counters, joined counters; a `Namespace`'s listener lists (vectors of weak pointers in maps) | the eight packets of `notes/input.txt`, accept, disconnect | called by the parser, sends to sockets |
| Input buffer (`src/Client_InputBuffer.cpp`; the C++ library has the same class) | one array, `read_ptr`, `write_ptr`, `size` | `receive` (compact, grow, `recv`, shrink), `get` | filled by the event loop, emptied by the parser |
| Connection parser (`src/Client_Parser.cpp`) | step, opcode, lengths, name, payload | `can_parse`, `parse` and its steps | takes bytes from the buffer, calls the handlers |
| Event loop (`src/Server.cpp`) | the `fd_set`, the queue `unprocessed`, descriptors | `fill_with_fd`, `select`, queue, accept one, serve the queue | the kernel, every client |
| Sending (`Client::send*`) | none but the socket | build a packet, one `::send` | the peer's receiving code |
| Process life cycle (`main.cpp`, constructors and destructor of `Server`) | the pointer `server`, the bound address, the socket's file | start, bind, signal, delete, exit | the next process |
| C++ library (`clients/c++`) | listener maps, `running`, parser fields, an input buffer | track, untrack, fetch, run, stop | a program with a second thread and callbacks |
| Arduino library (`clients/Arduino_ESP8266`) | listener maps, parser fields; no buffer of its own | track, untrack, fetch | a sketch whose loop and callbacks call it, the `WiFiClient` |
| PHP library (`clients/php`) | listener arrays, `inputBuffer`, `processingStep`, `running` | the same on a non-blocking socket | a script with callbacks |

What is hard here:

* **Double bookkeeping.** Each subscription is in a `Client` and in a `Namespace`.
  Removing a client from a list it is not in runs into `erase(end())`. The lists
  must agree after any sequence of handlers, moves between namespaces and
  disconnections.
* **Lifetimes.** Namespaces live as long as a client holds them, the server keeps
  weak pointers only; entries expire and are reclaimed by searches that pass them.
* **Stale readiness.** `select`'s answer is used after clients were accepted,
  served and removed in the same round.
* **Cut streams.** Packets arrive cut anywhere, in an array that is compacted,
  doubled and halved between two `recv`s.
* **Partial failure.** Short writes, refused writes, `SIGPIPE`, no descriptor left.
* **Packets on their way** while a program adds and removes listeners, in
  callbacks too; between programs, what the server says is about a time when it had
  met some of the requests and not others.
* **Small windows.** The Arduino library waits until the `WiFiClient` holds all of a
  field, and its callbacks may call `fetch` again.
* **Signals** that delete the server at any moment, and what the next start finds.

`PROJECT.json` lists each of these at its line under "hazards", with the properties
that would catch it. Where there are none a note says why: the uninitialised `sin_addr`,
`SIGPIPE` (the liveness of the loop is promised only as long as it does not come), descriptors
of 1024 and more, names that are too long, and of the PHP library its index 0, a packet that
the socket cuts, a server that sends without pause and the end of the stream.

## 2. Modules

| module | models | kind |
|---|---|---|
| `WhiteBell` | the objects, handlers and the packets they send | core |
| `Broker` | what clients are promised; no objects, no lists | abstract specification |
| `Session` | `WhiteBell`, its clients' programs and the queues between them | composition |
| `InputBuffer` | the array | component |
| `PacketFields` | `InputBuffer` with the step and the fields of the packet that is being read | used by `Receiver`, `Notifier` |
| `Receiver` | `InputBuffer` with the server's parser on top | composition |
| `EventLoop` | `run_main_thread`, peers and the kernel's part | component |
| `Notifier` | the server's `send`, and `InputBuffer` with the C++ library's parser | composition |
| `Packets` | the packets as bytes, as the server and the libraries build them | used by `Receiver`, `Notifier`, `ArduinoClient` |
| `Subscriptions` | a library's map of listeners, the packets sent for it and the server's lists | used by the next three |
| `CppClient` | the C++ library's threads and callbacks, and both queues to the server | composition |
| `ArduinoClient` | a sketch, the Arduino library, the `WiFiClient` and the server's end | composition |
| `PhpClient` | a script, the PHP library with its buffer, and both queues | composition |
| `Lifecycle` | starts, signals, ends | component |
| `WhiteBell_proofs` | theorems about `WhiteBell`, `Broker` and `Session` | proofs |
| `InputBuffer_proofs` | theorems about `InputBuffer`, `Receiver` and `Notifier` | proofs |
| `EventLoop_proofs`, `CppClient_proofs`, `PhpClient_proofs`, `ArduinoClient_proofs`, `Lifecycle_proofs` | theorems about the module they are named after | proofs |
| `Subscriptions_proofs` | lemmas about a queue of packets that start and end tracking, and about the steps of `Subscriptions`, for the three clients | proofs |
| `MC*` | instances for TLC | model checking |

The definitions named `... Mutant:` in a comment are not used by any
specification. Each is a plausible bug of the definition after it, kept so that
the properties can be tried against it.

### WhiteBell

A variable per field that matters; names as in the source. The server is single
threaded and a packet is processed to its end before the next, so a handler is
one action, down to the last `Client::send`. `SetNamespace(c, nm)` is
`Client::set_namespace`: leave the old object (telling its trackers), search and
perhaps create, enter the new one (being told its counters, telling its
trackers). `Disconnect` is `Server::remove_client` with `~Client` and perhaps
`~Namespace`. Other abstractions:

* A `client_list` is a function from clients to the number of occurrences. The
  order of a vector decides only the order in which different clients are sent to.
  The occurrence that `erase(end())` removes is modelled (`Found`): with libstdc++
  it is the last element, whoever it is.
* The order of `Server::namespaces` is not modelled: on a hit, any part of the
  expired entries may be the part the scan passed.
* Identities of destroyed `Namespace` objects are used again; a `Client`'s only
  when no list refers to it, as its control block lives as long.
* `events_sent`, `counts_sent` hold what the last step sent; `shown` is a history
  of the last value a tracker was told. A send is reliable here; what a socket may
  do to it is in `Notifier`.

`Broker` has only connected clients, the name each one is in, and its wishes.
`WhiteBell!Service` maps a client's object to the object's name and the history
`shown` to `told`; the run `namespaces` checks that every step of the server is a
step of the service, or none.

### Session

`WhiteBell` with a queue each way between every client and its program. A program's
call appends a packet to `requests`; `Serve` is the server taking the next one, that
is, one handler of `WhiteBell`, and `Delivered` puts what the handler sends behind what
is on its way already. `inbox` has a queue per counter: values of one counter arrive in
the order in which they were sent, and which of two counters' values comes first is left
open, which allows more than the one socket does and changes nothing that is said of a
counter. `receive` is a program's library, which looks the counter up and calls its
listeners. A connection may end with anything in its queues (`Leave`), and the same
program may come back. Only counters: an event leaves nothing behind that could be
right or wrong later. Sockets are never full here, and a library's list has one
entry per counter; `Notifier` and `CppClient` are about those.

### InputBuffer, Receiver, Notifier

Pointers are offsets. The contents of the array are modelled, a cell outside the
unread part being `Junk`. `Limit` is what a parser may leave unread when it
waits; `Receiver` shows (`WaitsForMore`) that its parser keeps to it. The peer may
close or reset its connection anywhere; `recv` then fails once, and returns 0
after that. `recv` is not assumed to fail otherwise, which `select` and a single
reader justify.

`Receiver` and `Notifier` read packets into fields of the same names (`PacketFields`), and so
what is shown of the array serves both; each has its own steps.
`Receiver` appends handled packets to a history and compares it with `PacketsOf`, a
reference definition of the format of `notes/input.txt`: where the parts of the packet
that starts at a byte begin (`OpAt`, `NameAt`, `PayloadAt`, `NextAt`), whether the bytes
for them are there (`Whole`), and so on from the next one (`PacketsFrom`). Where the
stream is what a library sends (`Packets!request`), it is also compared with the calls
of its methods. Those are records with an operation, a name and a payload of bytes
(`CallRecords`; `CallsAreStreams`), of any length. `Notifier` has the other
direction: encoders of the server's `Client::send_*`, a socket that takes a packet
whole, in part or not at all when it is full, and `Client::Details` of the C++
library.

### EventLoop

Descriptors, `fd_set`, the queue, one accept per round, `accept4` without a free
descriptor, and peers that connect, send, close and reset between any two system
calls. A handler sends to any of the connections. Data for a peer that closed
provokes a reset, and a send after the reset raises `SIGPIPE`, which ends the
process (`alive`). A queue that is served one client at a time keeps the moments
between two clients visible.

### CppClient, PhpClient

The code for events and for counters is the same up to names, and so one map
(`Subscriptions`, which both extend) models both; a name is an event or a counter, since
the server tells a value only to those who begin to track a counter. `Greeted` says whom
it tells what for the packet that it handles: who tracks a counter, if it was not tracked
and the client has a namespace (`placed`), and whoever chooses a namespace, for every counter that
it tracks already. `CppClient` and `ArduinoClient` begin without a namespace, and
their program may choose one at any time (`set_namespace`) and again; `owed` holds the
counters whose values a handler has still to send, as the list of the client may have any
order. Which namespace is chosen makes no difference to one connection: the values come the same.
In `PhpClient` the connection begins with the namespace on its way, as `connectUNIX` and
`connectTCP` send it. The program calls the library from
its own code or from callbacks. In `CppClient` a second thread may call `stop` at
any time, as the chat example's threads could; the library has no locks, so the
program is assumed to leave the maps to the receiving thread once it runs. Packets
are whole.
`erase(end())` on the vector of function pointers either ends the program or takes
the last one away. In `PhpClient` `send` may be refused, or the socket may take a part of a
packet (`torn`), which `send` reports as a success; what the server makes of the bytes behind it is any choice of
the program's names (`Misread`), and the packets that follow are not followed any more. Index
0 counts as "not found", and `callEventListeners` leaves the step when there is no listener.

### ArduinoClient

The library has the C++ library's listeners (`Subscriptions`) and parser, without a
buffer: a step is taken when `WiFiClient::available` says that all its bytes are
there. `stream`, `arrived` and `taken` are the bytes sent, those that reached the
`WiFiClient`, which holds `Window` of them, and those read. One action per function of
`Client_Details_processing.cpp`. `stack` has an element for each `process()` that
runs: a callback may call `fetch`, and the inner `process()` works on the same
fields; `process_input` sets the step after the callbacks (lines 80 and 85), over
whatever the inner one made of it. Notices are assumed to fit the packet's fields
(`NoticesFit`): names of at most 255 bytes, payloads of at most 65535, values of 32
bits. The server has the first two from packets with fields of the same size; a value is
the length of a vector. `Place(i)` is how many different notices are among the first i
lookups, as one that was looked up twice stands at the same byte (`First`). `connect` may fail and the connection may break
without anybody noticing.

### Lifecycle

One process at a time, restarted any number of times; the kernel's side is the
socket's file (UNIX) or connections that the server closed first (TCP). Signal
handlers are a stack: a signal is blocked during its own handler only. What is
done to a deleted or half-deleted server is undefined and may end the process, and so
is deleting it while the loop changes the clients (`Changing`): between `accept4` and the
end of `add_client`, and from `queue_clients_with_input` to the end of the queue,
where a signal may meet `connections.insert` or `erase`, a handler or an allocation half done. An
address that was never initialised may make `bind` fail.

## 3. Runs

| run | instance | states | shows |
|---|---|---|---|
| `namespaces` | 3 clients, 2 names, 1 event, 1 counter, 5 objects | 16 thousand, with symmetry of clients and objects | `ListsExact`, `OneNamespacePerName`, `TrackersCurrent`, `TableBounded`, `ImplementsBroker` |
| `session` | 2 programs, 2 names, 1 counter, 3 objects, 5 calls or ends of a connection | 534 thousand | `QuietMeansCurrent`, `AllLearn` |
| `receiver` | 216 streams of 3 packets of 6 kinds, 3 of what libraries send, array of 4, `Limit` 4 | 151 thousand | `UnreadIsNext`, `OnlyLeaversDisconnected`, `MemoryBounded`, `FramingExact`, `CallsUnderstood`, `WaitsForMore` |
| `event_loop` | 3 peers, 2 descriptors, backlog 1, 2 packets each | 337 thousand | `ReadyStaysReady`, liveness |
| `notifier` | 3 notices of 4 kinds, sockets of 12 bytes | 3.3 million | `CallsAreNotices` |
| `format` | the same | | a violation: see 6 |
| `cpp_client` | 1 event, 1 counter, 2 callbacks, 2 listeners a name, 2 packets each way | 11.5 million | `SubscriptionsAgree`, `CountersTold`, `EachCalledOnce`, `StopsInRun` |
| `cpp_stop` | 1 callback | | a violation: see 6 |
| `arduino` | 3 kinds of notices, 2 of them sent, a `WiFiClient` of 4 bytes, 1 callback, 2 listeners, `fetch` inside `fetch` | 1.3 million | `SubscriptionsAgree`, `NoticesInOrder`, `NoticesProcessed` |
| `php_client` | 2 names, 2 callbacks, 2 packets each way, refused and cut ones | 3.1 million | `AgreeUnlessRefused`, when the loop hangs, `ListenersCalled` |
| `php_run` | the same, 1 callback | | a violation: see 6 |
| `lifecycle` | 2 connections, 4 signals | 21 thousand | what ends leave behind |

Why the bounds are enough. Three clients give one that acts, one that shares its
namespace and one that does not, and a list with someone to erase by mistake; four
objects are one for each client and the one that is being left, and with a fifth
`TableBounded` is not true for want of objects. In `session` one program moves, counts
or leaves while the other's request is on its way; five calls are two namespaces, a
listener, a count and one more that undoes any of them. The streams of `receiver` make
the array compact, double and halve, which the mutants of these three functions show; its
thresholds are those of the code on a smaller initial size, the least at which halving
leaves four cells. The kinds of packets have empty and non-empty names and
payloads, flags, reserved opcodes and a name that is longer than the array; one of the
calls has a name of 257 bytes, which is sent with the length 1. In `arduino` one payload
fits the window and another does not, and two notices let the inner `process()` stop in
the middle of the second one. With two
descriptors and three peers one always meets `EMFILE`. In the clients, two packets
each way let an old answer meet a new registration, and a registration come before the
namespace; two listeners are the least at
which index 0 differs. Four signals allow a nested handler in each of two lives.

Symmetry is used in runs without liveness properties, over sets whose elements no
definition tells apart. `CHOOSE` in `WhiteBell!Found` picks a client, but only when
the list does not hold the one that is looked for, which `ListsExact` excludes.

**Fairness.** `EventLoop`: `WF_vars(Loop)`. The loop consists of system calls that
return: the client sockets are non-blocking, accepting follows `select`, and
`select` itself is a step only when something is readable; the process is not
stopped for ever. No fairness is assumed of peers. `PhpClient`: `WF_vars(Step)`,
the statements of the library and callbacks that return; neither the server nor
the program is obliged to do anything, and the number of packets the server sends
is bounded, as `fetch` goes on as long as there is something to receive.
`Lifecycle`: `WF_vars(Handler)`, a handler that was called runs. `Session`: the server
serves each client that has sent something, which is what `EventLoop` shows of it, and
each program goes on receiving; what programs ask for is theirs to decide. `ArduinoClient`:
`WF_vars(Step)`, a sketch's `loop()` is called for ever and calls `fetch`
(`examples/04`, `loop.cpp:40-43`), and its callbacks return; `WF_vars(Arrive)`, TCP
delivers while the connection holds and the window is open.

**Deadlock** is checked for `WhiteBell` (someone can always connect, leave or
ask) and `ArduinoClient` (`loop()` goes on). The other systems may stop: a peer has sent everything, a connection is over,
a program waits in `recv` for packets nobody sends.

## 4. Theorems

For all values of the constants that satisfy the `ASSUME`s.

* `WhiteBell_proofs!TypeCorrect`, `ListsAgree`: `Spec => []TypeOK`,
  `Spec => []ListsExact`. `Inv == TypeOK /\ ListsExact` is inductive. `ListsExact`
  needs `TypeOK` for the lists' shapes and for "a client that is not connected is
  in no namespace"; `TypeOK` needs `ListsExact` in turn, as erasing a client that
  is not there has no well-typed result. The lemmas about `AddTo` and `RemoveFrom`
  say that adding or removing client c turns the exact list of a set S of members
  into that of S with or without c, the empty set standing for "no key"; each
  handler then changes `Members` and the lists alike.
* `WhiteBell_proofs!NamesUnique`: `Spec => []OneNamespacePerName`, inductive with
  `Inv`. A search that finds a live object of the name returns the only one; a
  search that ends without one has seen every live object, as all are in the
  table, and it erases expired entries only.
* `WhiteBell_proofs!TableStaysBounded`: `Spec => []TableBounded`. A search that adds
  an entry has passed all others and kept only those that some client owns; there
  are no more of these than clients (`LiveBounded`, by a surjection).
* `WhiteBell_proofs!TrackersInformed`: `Spec => []TrackersCurrent`. `Know` says the
  same by way of the lists: the length of an exact list is the number of its
  members (`SizeOfList`), a broadcast reaches each of them once (`BroadcastTells`),
  and the packets of a handler are received in order (`ApplyInOrder`). A change of
  namespace is a departure (`LeavingTells`) and an arrival (`EnteringTells`), one
  after the other, and so it does not matter that both may be in one object.
* `WhiteBell_proofs!ServerImplementsService`: `Spec => ImplementsBroker`. The initial
  state maps to the service's, and each handler to one operation (`AcceptConnects`,
  `DisconnectLeaves`, `SetNamespaceMoves`, ...). The states it needs are `Good`:
  `Inv`, one object per name (so that "same object" is "same name", `ScopeIsSpace`),
  `Know`, and `NoShow`: nothing is told to who does not track or has no namespace.
* `WhiteBell_proofs!SessionsRunTheServer`: `SessionSpec => Spec`, so all of the above is so
  among the programs as well. `SessionTypeCorrect`, `QuietSessionsCurrent`:
  `SessionTypeOK` and `QuietMeansCurrent` of every reachable state, from the invariant
  `SessionInv`: `Good`, the types, and `Agreement` of each program with its client object.
  What a program asked for last is what the server comes to (`Ends`): the last packet of
  the queue that is about it says so, or there is none and the server has it already. For
  tracking this is not enough: the server greets only who was not tracking yet, so between
  two packets that start it there must be one that ends it (`Alternate`). Then, unless a
  packet that starts it is still on its way, the last value in `inbox`, or else the last
  one heard, is what the server told last (`Hears`); and that is current, by `Know`.
* `InputBuffer_proofs!BufferTypeCorrect`, `BufferIsQueue`, `NoLiveClientDropped`,
  `BufferMemoryBounded`, of `BufferSpec`. The inductive invariant adds to the four properties the
  range of the size, a power of two from 4 up, and what separates the two pointers
  from the array's end: after `ensure_some_free_space` at least a quarter is
  empty, so that `recv` has room; a failed `recv` halves the array once and no
  more.
* `InputBuffer_proofs!ReceiverTypeCorrect`, `ParserReadsStream`, `NoLiveConnectionDropped`,
  `ConnectionMemoryBounded`: `TypeOK` and the same properties of `Receiver`'s `Spec`.
  Each step of the parser is a `get` of the bytes that it has seen to be there
  (`ParsingInv`), which are bytes of the stream (`PeekBytes`), so that the fields have
  their ranges; and as long as they do, the parser never asks for a negative number of
  bytes, or for more than 65535.
* `InputBuffer_proofs!ParserWaits`: `UINT16_MAX - 1 <= Limit => (Spec => []WaitsForMore)`.
  `InputBuffer` lets `receive` be called with at most `Limit` bytes unread; the
  server's parser returns to `select` with fewer than it asks for (`Lacking`), so for
  the code's lengths the guard excludes nothing.
* `InputBuffer_proofs!FramesOfTheStream`: `Spec => []FramingExact`. The invariant (`FrameInv`)
  has a byte p where the packet starts that the parser is in: what it has read so far are
  the fields of that packet (`Here`), and any stream that agrees up to p has the calls
  made so far as its first packets (`Settled`). That a step of the parser moves along the
  reference definition is then one packet's matter (`SamePacket`, `SettledNext`), and
  where the parser lacks bytes the packet at p is not whole (`LackingIsNotWhole`).
  `PacketsFrom` is a recursive function: that a function with these values exists
  (`PacketsDefined`) is shown from the end of the stream, a byte at a time. This and the
  other inductions over data use no induction theorem: the set of numbers for which a
  claim fails would have a least member (`HasLeast`, from the well-foundedness of `<`).
* `InputBuffer_proofs!CallsArrive`: `Spec => []CallsUnderstood`. What `request` writes has the
  layout that the format reads (`EventRequest`, `NameRequest`, `RequestAt`), the requests of a
  sequence of calls stand one after the other in the stream (`FlattenIs`, `SumsBegin`), and
  so `PacketsOf` begins with the calls before the first that does not fit
  (`PacketsOfCalls`).
* `InputBuffer_proofs!NotifierTypeCorrect`: `NotifierSpec => []NotifierTypeOK`. `NotifierInv`
  is `BufferInv`, the types of `Details`' fields and of what is called and sent, and
  `Starved`: the client goes back to `recv` only when it has fewer bytes than its step needs.
* `InputBuffer_proofs!NoticesArrive`: `NotifierSpec => []CallsAreNotices`. `NoticesInv`: a
  packet was cut short, or there is a B that says where each packet of the stream ends
  (`Frames`), the calls made are the first of the notices written (`CalledFirst`), and the
  step and the fields are those of the packet after them (`Reached`). A step of `Details`
  reads the field that the server's `send_*` wrote there (`EventPacket`, `CounterPacket`);
  a notice that the socket takes makes B longer and leaves what it said (`NotifyFollows`),
  and one that it refuses changes nothing. That none is missed is `NoticeWaits`: while a
  notice was written whole and not called, a client that has all the bytes of the stream
  has those that its step needs, which `Starved` excludes in `recv`.
* `EventLoop_proofs!LoopTypeCorrect`, `LoopReady`: `Spec => []TypeOK`,
  `Spec => []ReadyStaysReady`. Clients have descriptors of their own, as a new one
  takes the lowest that is free (`FdInv`), and so a descriptor that `select` returned
  stands for one client, which stays readable until it is served (`ReadyInv`); an order
  of the clients that were selected has each of them once (`OrderOnce`, as it has as
  many places as they are); whoever is served or removed left the queue first
  (`PopQueue`).
* `CppClient_proofs!CppSubscriptions`, `PhpClient_proofs!PhpSubscriptions`,
  `ArduinoClient_proofs!ArduinoSubscriptions`:
  `Spec => []SubscriptionsAgree`, of the PHP library `Spec => []AgreeUnlessRefused`, inductive once the variables have their types. It
  is a statement about each name by itself (`Agrees`): the last packet about it that
  is on its way says whether it has listeners, or else the server's list does. A
  packet that is sent is the last one (`SendAgrees`), and one that is handled leaves
  those after it (`HandleAgrees`). For the C++ and the Arduino library this is said of the
  steps of module `Subscriptions` first (`SubscriptionsInit`, `SubscriptionsNext`: whatever else a
  system does, as long as each step is a `SubscriptionStep` or leaves the three
  variables alone). Where `send` refuses a packet nothing more is said
  of its name (`RefuseAgrees`), and nothing of any name where the socket took a part of
  it (`NothingAgrees`).
* `CppClient_proofs!CppTypeCorrect`: `Spec => []TypeOK`, from the types of the
  subscriptions and of the program's variables, `running` apart.
* `CppClient_proofs!CppCallsOnce`: `Spec => []EachCalledOnce`. `CallsInv` adds what is
  so after a crash in the middle of the calls, and that no more are called than were
  copied; a callback changes the map, never the copy.
* `CppClient_proofs!CppStops`: `Spec => []StopsInRun`. `Stopped`: once stop was called
  in `run`'s loop, by whichever thread, `running` stays false until `run` returns.
  `ReceivesInv`: after it `run` is never in `recv` again, unless it waited there already
  (`in_recv`), and then that `recv` is the last. What has arrived is still processed.
* `CppClient_proofs!CppCountersTold`: `Spec => []CountersTold`. `ToldInv`: once a namespace was
  chosen, or the choice is on its way (`Placing`), a counter with listeners was told since the
  last choice, or its value is on its way (`Pending`): a packet that starts tracking it, a
  choice of a namespace, the server's debt (`owed`) or a notice to the program, of which
  none is lost when the program's calls and the packets that `recv` took are worked off
  (`NothingLeft`). The server tells a value for a packet that starts tracking because the
  name is not in its list when the packet comes, which is that packets that
  start and end tracking a name alternate (`Alternates`, `SendAlternates`, `HandleAlternates`);
  and for a choice because the name is in its list by then or is tracked by a packet
  that comes later (`TrackOnItsWay`, from the last packet about the name, `LastOfSome`).
* `ArduinoClient_proofs!ArduinoTypeCorrect`: `Spec => []TypeOK`; `SketchInv` is the types and
  `SubscriptionsInv`. The range of what is read depends on how a number is put together from
  its bytes (`NumberOfTwo`, `NumberOfFour`).
* `ArduinoClient_proofs!ArduinoOrder`: `Spec => []NoticesInOrder`. `OrderInv`: there is a B
  that says where each packet of the stream ends (`Frames`), and until a step was set
  back (`cut`) the notices processed are those that end at B[1], B[2], ... (`Past`), and
  the step and the fields are those of the packet after them (`Here`). A step then reads the
  field that `packet` wrote there (`EventPacket`, `CounterPacket`; `LengthArrives`,
  `ValueArrives`). `NestInv` says what only a callback that calls `fetch` can upset.
* `PhpClient_proofs!PhpTypeCorrect`: `Spec => []TypeOK`, with the lists' lengths
  (`Lists`), which bound what a `foreach` has still to call.
* `PhpClient_proofs!PhpSpins`: `Spec => []SpinsOnlyAfterRemoval`. A name is known
  when it has or had listeners; until a packet is torn only packets about known names are
  on their way, in the server's list or in the buffer (`OnlyKnown`).

* `Lifecycle_proofs!LifecycleTypeCorrect`, `UnixBindExplained`, `LoopEnds`: `Spec => []TypeOK`,
  `Spec => []UnixBindFails`, `Spec => []LoopNeverResumes`. One inductive invariant: a handler that has met a server
  is not interrupted by main until the process ends (`HandlersHaveServer`); an address
  that is not the server's own was noted in `left` (`PeerIsNoted`); and a socket's file
  is there because the server has it in use and has not got to its removal, or because
  of what is in `left` (`FileHasReason`), which is what the next `bind` meets.

Assumptions on the constants: finitely many clients, null and "no key" are distinct
from objects and lists; the initial size is a power of two between 4 and 2^18, and
`Limit` is at most 65535, the longest payload; a byte has eight bits.

A library's calls and the server's notices are sequences of bytes (`CallsAreStreams`,
`NoticesFit`), events and counters are different names (`NamesDisjoint`), and the model values
for a namespace's name and for "no name" are none of them (`SpaceIsNoName`,
`NoNameIsNone`). The socket of a PHP program has room for the packet that
chooses the namespace (`SocketTakesOne`). Notices fit their fields: names are
shorter than 256 bytes, lengths of payloads have 16 bits and values 32. The socket of a
client that was just accepted takes the version (`RoomForVersion`).

Every invariant of a passing run is proved, and so is the refinement `ImplementsBroker`.
Only model-checked: all liveness and fairness, which TLAPS does not do: `AllLearn`, `InputServed`, `LeaverRemoved`, `ConnectorAccepted`,
`NoticesProcessed`, `ListenersCalled`, `SignalEnds`. The runs that find a violation have
nothing to prove.

## 5. What is not modelled

`cstring_t`, the examples and the build files; `connect` and `socket` of the C++ and PHP
libraries and failures of `listen`; the contents of messages beyond what framing needs.
Payloads of 65536 bytes and more, which `Client_Details.cpp:116` cuts like the long
names of `receiver`. The end of the stream in `PhpClient`, its reading byte by byte, and what a
PHP program's calls after a torn packet do at the server beyond its lists (`Misread`; its `setNamespace` after
the first, `triggerEvent`, `joinCounter` and `leaveCounter` are left out altogether);
callbacks of the C++ and PHP libraries that call `run` or `fetch` themselves
(`ArduinoClient` has that). More than 1024 descriptors (`FD_SET`). `recv` failing for a
reason other than a reset.

## 6. Where the code and its text differ

* `format`: after a short write (`src/Client.cpp:193`) what the server sends is no
  longer in the format of `notes/output.txt`, and the client calls listeners for
  what nobody sent.
* `cpp_stop`: `Client.hpp:25` says stop ends `run` after the next message. A stop
  from another thread that comes before `run` sets `running` (`Client.cpp:40`) is
  lost.
* `php_run`: `count_me.php:18` says `run` receives and calls back. A packet on its
  way when its last listener is removed hangs the library
  (`WhiteBellClient.php:458`, `:472`).

Without a run: `notes/input.txt:33` promises an immediate answer to "track counter". A client
without a namespace gets none (`src/Client.cpp:139`): it hears the value when it chooses a
namespace, and never if it does not, and so `CountersTold` and `QuietMeansCurrent` want a
namespace before they promise anything. A repeated "track counter" is dropped as well
(`src/Client.cpp:134`), which does no harm: the libraries never send one twice without "stop
tracking" between. A name of 256 bytes or more
leaves the C++ and Arduino libraries with its length modulo 256
(`Client_Details.cpp:104`), and the server takes the rest of it for packets, where the PHP
library throws `InputTooLong`; `CallsUnderstood` stops there. An Arduino callback that
calls `fetch` is called again for the same notice, and a payload longer than the
`WiFiClient` can hold stops the library for good.

## 7. Plan

Done: the modules above, most important first (`WhiteBell`, its service, its
lists' and its service's proofs; buffer and its proofs; parser; loop; sending; clients
and their subscriptions' proofs; life cycle; programs together with the server; the
Arduino library; the proofs of every invariant).

Next: `PhpClient`, the end of the stream, and the steps that read a packet.

A new module's questions replace or join those of a run that is there already, where
they ask the same of a smaller system; the runs are meant to stay few.
