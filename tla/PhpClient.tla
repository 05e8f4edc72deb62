------------------------------ MODULE PhpClient ------------------------------
(***************************************************************************)
(* A program that uses clients/php/WhiteBellClient.php, and the two queues *)
(* between it and the server's Client object for its connection.           *)
(*                                                                         *)
(* The map of listeners and the server's end are those of Subscriptions;   *)
(* the library's methods are not, and MaxOnWay is what the socket holds.   *)
(* Packets to the program are whole; of the steps of processInput only two *)
(* remain: the packet's name is read (with all that comes before it), and  *)
(* its listeners are called.  The end of the stream, which fetch cannot    *)
(* tell from "nothing there yet", is not modelled.                         *)
(*                                                                         *)
(* The behaviours begin when connectUNIX or connectTCP returns: it has     *)
(* sent the namespace.  A later setNamespace, triggerEvent, joinCounter    *)
(* and leaveCounter change neither side's lists and are left out.          *)
(***************************************************************************)
EXTENDS Subscriptions

CONSTANTS
  NoName,       \* no packet is being processed
  MaxNotices    \* bound: packets the server sends in all

ASSUME NoticesNatural == MaxNotices \in Nat
ASSUME SocketTakesOne == MaxOnWay \in Nat \ {0}
ASSUME NoNameIsNone == NoName \notin Name

VARIABLES
  running,
  phase,        \* where the program is: its own code, select, the loop of fetch,
                \* the loop of processInputBuffer, or in a callback
  inputBuffer,  \* the names of the packets in it
  step,         \* processingStep: "header" for all up to the payload, or "call"
  name,         \* name of the packet that is processed
  todo,         \* how many listeners foreach has still to call
  notices,      \* packets to the program, not yet received
  sent,         \* history: the number of packets the server sent
  torn,         \* history: the socket took a part of a packet
  refused,      \* history: names of packets that send refused; all names once a
                \* packet was torn
  removed       \* history: names that had listeners and were removed

library == <<listeners, running, phase, inputBuffer, step, name, todo>>
network == <<requests, notices, tracked, placed, sent>>
losses  == <<torn, refused>>
history == <<losses, removed>>
vars    == <<library, network, history>>

-----------------------------------------------------------------------------
(***************************************************************************)
(* Methods a program may call.                                             *)
(***************************************************************************)
MayCall == phase \in {"program", "call"}

\* send: the socket does not block.  A packet it has no room for is lost, or what
\* there is room for is taken, which send returns as a success; whatever follows
\* is then read by the server as something else.
send(op, n) ==
  LET full == Len(requests) >= MaxOnWay
  IN  \/ ~torn /\ ~full
         /\ requests' = Append(requests, [op |-> op, name |-> n]) /\ UNCHANGED losses
      \/ ~torn /\ full
         /\ refused' = refused \cup {n} /\ UNCHANGED <<requests, torn>>
      \/ ~torn /\ full
         /\ torn' = TRUE /\ refused' = Name /\ UNCHANGED requests
      \/ torn /\ UNCHANGED <<requests, losses>>

\* Mutant: the first listener of a name is not stored.
addListenerSendsOnly(n, cb) ==
  /\ MayCall
  /\ IF n \in Keys
     THEN /\ Len(listeners[n]) < MaxListeners
          /\ listeners' = [listeners EXCEPT ![n] = Append(@, cb)]
          /\ UNCHANGED <<requests, losses>>
     ELSE send("track", n) /\ UNCHANGED listeners
  /\ UNCHANGED <<running, phase, inputBuffer, step, name, todo, notices, tracked, placed, sent, removed>>

addListener(n, cb) ==
  /\ MayCall
  /\ IF n \in Keys
     THEN /\ Len(listeners[n]) < MaxListeners
          /\ listeners' = [listeners EXCEPT ![n] = Append(@, cb)]
          /\ UNCHANGED <<requests, losses>>
     ELSE /\ MaxListeners > 0
          /\ listeners' = [m \in Keys \cup {n} |-> IF m = n THEN <<cb>> ELSE listeners[m]]
          /\ send("track", n)
  /\ UNCHANGED <<running, phase, inputBuffer, step, name, todo, notices, tracked, placed, sent, removed>>

\* Mutant: the server is not told.
removeSilently(n) ==
  /\ MayCall
  /\ n \in Keys
  /\ listeners' = Without(n)
  /\ removed' = removed \cup {n}
  /\ UNCHANGED <<running, phase, inputBuffer, step, name, todo, network, losses>>

\* removeEventListener and removeCounterListener without a callback.
removeAll(n) ==
  /\ MayCall
  /\ n \in Keys
  /\ listeners' = Without(n)
  /\ send("untrack", n)
  /\ removed' = removed \cup {n}
  /\ UNCHANGED <<running, phase, inputBuffer, step, name, todo, notices, tracked, placed, sent>>

\* Mutant: index 0 is found, and nobody counts what is left.
removeAnyListener(n, cb) ==
  /\ MayCall
  /\ n \in Keys
  /\ \E i \in 1..Len(listeners[n]) :
       /\ listeners[n][i] = cb
       /\ listeners' = [listeners EXCEPT ![n] = Erased(@, i)]
  /\ UNCHANGED <<running, phase, inputBuffer, step, name, todo, network, history>>

\* removeEventListener and removeCounterListener with a callback.  array_search
\* finds its first index, and index 0 is taken for "not found": the first listener
\* of a name stays, and so does the key.
removeListener(n, cb) ==
  /\ MayCall
  /\ n \in Keys
  /\ \E i \in 2..Len(listeners[n]) :
       /\ listeners[n][i] = cb
       /\ \A j \in 1..i - 1 : listeners[n][j] # cb
       /\ listeners' = [listeners EXCEPT ![n] = Erased(@, i)]
  /\ UNCHANGED <<running, phase, inputBuffer, step, name, todo, network, history>>

stop ==
  /\ phase = "call"
  /\ running
  /\ running' = FALSE
  /\ UNCHANGED <<listeners, phase, inputBuffer, step, name, todo, network, history>>

run ==
  /\ phase = "program"
  /\ ~running
  /\ running' = TRUE
  /\ phase' = "select"
  /\ UNCHANGED <<listeners, inputBuffer, step, name, todo, network, history>>

-----------------------------------------------------------------------------
(***************************************************************************)
(* Receiving.                                                              *)
(***************************************************************************)
\* socket_select of run sees something to read; after a timeout it is called
\* again.
select ==
  /\ phase = "select"
  /\ notices # <<>>
  /\ phase' = "recv"
  /\ UNCHANGED <<listeners, running, inputBuffer, step, name, todo, network, history>>

fetch ==
  /\ phase = "program"
  /\ phase' = "recv"
  /\ UNCHANGED <<listeners, running, inputBuffer, step, name, todo, network, history>>

\* The loop of fetch goes on as long as socket_recv returns something.
receive ==
  /\ phase = "recv"
  /\ \E n \in 1..Len(notices) :
       /\ inputBuffer' = inputBuffer \o SubSeq(notices, 1, n)
       /\ notices' = SubSeq(notices, n + 1, Len(notices))
  /\ UNCHANGED <<listeners, running, phase, step, name, todo, requests, tracked, placed, sent, history>>

nothing_received ==
  /\ phase = "recv"
  /\ notices = <<>>
  /\ phase' = "process"
  /\ UNCHANGED <<listeners, running, inputBuffer, step, name, todo, network, history>>

\* processInput, from processHeader to processName or processPayload.
read_packet ==
  /\ phase = "process"
  /\ step = "header"
  /\ inputBuffer # <<>>
  /\ name' = Head(inputBuffer)
  /\ inputBuffer' = Tail(inputBuffer)
  /\ step' = "call"
  /\ UNCHANGED <<listeners, running, phase, todo, network, history>>

\* callEventListeners, callCounterListeners: foreach goes through a copy of the
\* array.  Without listeners they return before they reset processingStep.
call_listeners ==
  /\ phase = "process"
  /\ step = "call"
  /\ IF name \in Keys
     THEN phase' = "call" /\ todo' = Len(listeners[name])
     ELSE UNCHANGED <<phase, todo>>
  /\ UNCHANGED <<listeners, running, inputBuffer, step, name, network, history>>

call_next ==
  /\ phase = "call"
  /\ todo > 0
  /\ todo' = todo - 1
  /\ UNCHANGED <<listeners, running, phase, inputBuffer, step, name, network, history>>

\* Mutant: processingStep is not reset.
called_none_reset ==
  /\ phase = "call"
  /\ todo = 0
  /\ phase' = "process"
  /\ UNCHANGED <<listeners, running, inputBuffer, step, name, todo, network, history>>

called_all ==
  /\ phase = "call"
  /\ todo = 0
  /\ phase' = "process"
  /\ step' = "header"
  /\ name' = NoName
  /\ UNCHANGED <<listeners, running, inputBuffer, todo, network, history>>

\* fetch returns; run goes on unless it was stopped.
processed_all ==
  /\ phase = "process"
  /\ step = "header"
  /\ inputBuffer = <<>>
  /\ phase' = IF running THEN "select" ELSE "program"
  /\ UNCHANGED <<listeners, running, inputBuffer, step, name, todo, network, history>>

-----------------------------------------------------------------------------
(***************************************************************************)
(* The server's end of the connection.                                     *)
(***************************************************************************)
Handle ==
  /\ HandleRequest
  /\ UNCHANGED <<running, phase, inputBuffer, step, name, todo, notices, sent, history>>

\* What the server makes of the bytes behind a torn packet.
Misread ==
  /\ torn /\ requests = <<>>
  /\ tracked' \in SUBSET Name
  /\ UNCHANGED <<library, requests, notices, placed, sent, history>>

\* The answer to "track counter", an event, or a counter that changed.
Notify(n) ==
  /\ placed /\ n \in tracked
  /\ sent < MaxNotices
  /\ sent' = sent + 1
  /\ notices' = Append(notices, n)
  /\ UNCHANGED <<library, requests, tracked, placed, history>>

-----------------------------------------------------------------------------
Init ==
  /\ listeners   = NoListeners
  /\ running     = FALSE
  /\ phase       = "program"
  /\ inputBuffer = <<>>
  /\ step        = "header"
  /\ name        = NoName
  /\ todo        = 0
  /\ requests    = <<[op |-> "set_namespace", name |-> Space]>>
  /\ notices     = <<>>
  /\ tracked     = {}
  /\ placed      = FALSE
  /\ sent        = 0
  /\ torn        = FALSE
  /\ refused     = {}
  /\ removed     = {}

\* The steps the interpreter takes by itself.
Step ==
  \/ select
  \/ receive
  \/ nothing_received
  \/ read_packet
  \/ call_listeners
  \/ call_next
  \/ called_all
  \/ processed_all

Methods ==
  \/ \E n \in Name : \/ removeAll(n)
                     \/ \E cb \in Callback : addListener(n, cb) \/ removeListener(n, cb)
  \/ stop
  \/ run
  \/ fetch

Next == Step \/ Methods \/ Handle \/ Misread \/ \E n \in Name : Notify(n)

\* The program does not stop between two statements of the library, and its
\* callbacks return; what they and the server do is up to them.
Spec == Init /\ [][Next]_vars /\ WF_vars(Step)

-----------------------------------------------------------------------------
(***************************************************************************)
(* Properties.                                                             *)
(***************************************************************************)

\* Every variable has its type; a key has a listener.
TypeOK ==
  /\ SubscriptionsTypeOK
  /\ running \in BOOLEAN
  /\ phase \in {"program", "select", "recv", "process", "call"}
  /\ inputBuffer \in Seq(Name)
  /\ step \in {"header", "call"}
  /\ name \in Name \cup {NoName}
  /\ todo \in 0..MaxListeners
  /\ Len(requests) <= MaxOnWay
  /\ torn \in BOOLEAN
  /\ notices \in Seq(Name)
  /\ sent \in 0..MaxNotices
  /\ refused \subseteq Name /\ removed \subseteq Name

\* The processing loop goes round for ever.
Spinning == phase = "process" /\ step = "call" /\ name \notin Keys

\* Whatever is on its way, the server ends up tracking exactly the names with
\* listeners, unless send refused a packet about the name, or let one be torn:
\* then the library's map and the server differ for good, since nothing sends it
\* again.
AgreeUnlessRefused ==
  /\ \A i \in DOMAIN requests :
       requests[i].name \notin refused /\ LastRequest(i) =>
         (requests[i].op = "track" <=> requests[i].name \in Keys)
  /\ \A n \in Name \ refused :
       (\A i \in DOMAIN requests : requests[i].name # n) => (n \in tracked <=> n \in Keys)

\* The loop only hangs on a packet that was on its way when the last listener of
\* its name was removed: a name that always had listeners never hangs it, and one
\* that never had any hangs it only if the server misread a torn packet.
SpinsOnlyAfterRemoval == Spinning => torn \/ name \in removed

Waiting(n) == running /\ n \in Keys /\ \E i \in DOMAIN inputBuffer : inputBuffer[i] = n

CalledOrRemoved(n) == (phase = "call" /\ name = n) \/ n \notin Keys

\* A packet that has arrived and has listeners reaches them, unless the loop
\* hangs on another one.
ListenersCalled == \A n \in Name : Waiting(n) ~> (CalledOrRemoved(n) \/ Spinning)

\* examples/02 - php console - counter/count_me.php:18 says of run: "Recieves the
\* triggered counter events and calls callback."
RunCallsListeners == \A n \in Name : Waiting(n) ~> CalledOrRemoved(n)

=============================================================================
