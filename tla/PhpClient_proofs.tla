--------------------------- MODULE PhpClient_proofs ---------------------------
(***************************************************************************)
(* Theorems about module PhpClient: the library's map of listeners and the *)
(* server's lists agree, whatever is on its way between them; and where    *)
(* the loop that processes the buffer can hang.                            *)
(***************************************************************************)
EXTENDS PhpClient, Subscriptions_proofs

\* The property, name by name.
LEMMA AgreeUnlessRefusedIsAgrees ==
  ASSUME QueueOK
  PROVE  AgreeUnlessRefused <=> Agrees(requests, Keys, tracked, Name \ refused)
<1>1. \A i \in DOMAIN requests : requests[i] \in Request(Name)
  BY DEF QueueOK
<1>2. \A r \in Request(Name) : r.name \in Name \/ (r.op # "track" /\ r.name = Space)
  BY DEF Request
<1>3. Space \notin Keys
  BY SpaceIsNoName DEF QueueOK, Name
<1> QED
  BY <1>1, <1>2, <1>3 DEF AgreeUnlessRefused, Agrees, AgreesOn, Latest, LastRequest, Mentions

(***************************************************************************)
(* The invariant.                                                          *)
(***************************************************************************)
Inv ==
  /\ QueueOK
  /\ refused \subseteq Name
  /\ torn => refused = Name
  /\ Agrees(requests, Keys, tracked, Name \ refused)

\* The client starts without listeners, the server without names.
LEMMA InitInv == Init => Inv
<1> DEFINE r == [op |-> "set_namespace", name |-> Space]
<1> SUFFICES ASSUME Init PROVE Inv
  OBVIOUS
<1>1. requests = <<r>> /\ Keys = {} /\ tracked = {} /\ refused = {} /\ ~torn
  BY DEF Init, NoListeners, Keys
<1>2. r \in Request(Name) /\ r.name \notin Name
  BY IsRequest
<1> HIDE DEF r
<1>3. requests \in Seq(Request(Name)) /\ DOMAIN requests = {1} /\ requests[1] = r
  BY <1>1, <1>2
<1>4. Agrees(requests, Keys, tracked, Name)
  BY <1>1, <1>2, <1>3 DEF Agrees, AgreesOn
<1> QED BY <1>1, <1>3, <1>4 DEF Inv, QueueOK

\* Nothing is claimed of names that packets may have been lost of.
LEMMA NothingAgrees ==
  \A q, K, T : Agrees(q, K, T, Name \ Name)
BY DEF Agrees

\* A method that adds the key of n or removes it, and sends the packet for it or
\* has it refused.
LEMMA SendInv ==
  ASSUME Inv, NEW n \in Name, NEW op \in {"track", "untrack"}, send(op, n),
         Keys' \subseteq Name, tracked' = tracked,
         \A m \in Name : m # n => (m \in Keys' <=> m \in Keys),
         op = "track" <=> n \in Keys'
  PROVE  Inv'
<1> DEFINE r == [op |-> op, name |-> n]
           L == Keys'
<1>0. L \subseteq Name /\ r \in Request(Name) /\ r.name = n /\ r.op = op
  BY IsRequest
<1>1. CASE requests' = Append(requests, r) /\ UNCHANGED losses
  <2>1. Agrees(Append(requests, r), L, tracked, Name \ refused)
    <3> HIDE DEF L, r
    <3> QED BY <1>0, SendAgrees DEF Inv, QueueOK, L
  <2>2. Append(requests, r) \in Seq(Request(Name))
    <3> HIDE DEF r
    <3> QED BY <1>0 DEF Inv, QueueOK
  <2> QED BY <1>1, <2>1, <2>2 DEF Inv, QueueOK, losses
<1>2. CASE ~torn /\ refused' = refused \cup {n} /\ UNCHANGED <<requests, torn>>
  <2>1. Agrees(requests, L, tracked, (Name \ refused) \ {n})
    <3> HIDE DEF L
    <3> QED BY RefuseAgrees DEF Inv, L
  <2>2. Name \ (refused \cup {n}) = (Name \ refused) \ {n}
    OBVIOUS
  <2> QED BY <1>2, <2>1, <2>2 DEF Inv, QueueOK
<1>3. CASE refused' = Name /\ requests' = requests
  BY <1>3, NothingAgrees DEF Inv, QueueOK
<1>4. CASE torn /\ UNCHANGED <<requests, losses>>
  BY <1>3, <1>4 DEF Inv, losses
<1> QED BY <1>1, <1>2, <1>3, <1>4 DEF send

\* A step that leaves the keys and the packets to the server alone.
LEMMA OtherInv ==
  ASSUME Inv, Keys' = Keys, UNCHANGED <<requests, tracked, losses>>
  PROVE  Inv'
BY DEF Inv, QueueOK, losses

\* addEventListener and addCounterListener.
LEMMA PhpAddInv ==
  ASSUME Inv, NEW n \in Name, NEW cb \in Callback, addListener(n, cb)
  PROVE  Inv'
<1>1. CASE n \in Keys
  BY <1>1, OtherInv DEF addListener, Keys
<1>2. CASE n \notin Keys
  <2>1. Keys' = Keys \cup {n} /\ send("track", n) /\ tracked' = tracked
    BY <1>2 DEF addListener, Keys
  <2> QED BY <2>1, SendInv DEF Inv, QueueOK
<1> QED BY <1>1, <1>2

\* removeEventListener and removeCounterListener without a callback.
LEMMA PhpRemoveAllInv ==
  ASSUME Inv, NEW n \in Name, removeAll(n)
  PROVE  Inv'
<1>1. Keys' = Keys \ {n} /\ send("untrack", n) /\ tracked' = tracked
  BY DEF removeAll, Without, Keys
<1> QED BY <1>1, SendInv DEF Inv, QueueOK

\* With a callback: the key stays, as the first listener does.
LEMMA PhpRemoveInv ==
  ASSUME Inv, NEW n \in Name, NEW cb \in Callback, removeListener(n, cb)
  PROVE  Inv'
<1>1. Keys' = Keys
  BY DEF removeListener, Keys
<1> QED BY <1>1, OtherInv DEF removeListener, network, history

\* The server's end: Client::track_event and its siblings.
LEMMA PhpHandleInv ==
  ASSUME Inv, Handle
  PROVE  Inv'
<1> DEFINE U == Tracking(tracked, Head(requests))
<1>1. /\ requests # <<>> /\ requests' = Tail(requests) /\ tracked' = U
      /\ Keys' = Keys /\ UNCHANGED <<torn, refused>>
  BY DEF Handle, HandleRequest, history, losses, Keys
<1>2. requests \in Seq(Request(Name)) /\ Keys \in SUBSET Name /\ tracked \in SUBSET Name
      /\ refused \in SUBSET Name /\ Name \ refused \in SUBSET Name
  BY DEF Inv, QueueOK
<1>3. Agrees(Tail(requests), Keys, U, Name \ refused)
  BY <1>1, <1>2, HandleAgrees, IsRequest DEF Inv
<1>4. Tail(requests) \in Seq(Request(Name)) /\ Head(requests) \in Request(Name)
  BY <1>1, <1>2
<1>5. U \subseteq Name
  BY <1>2, <1>4, TrackingOne, IsRequest
<1> HIDE DEF U
<1> QED BY <1>1, <1>2, <1>3, <1>4, <1>5 DEF Inv, QueueOK

\* Behind a torn packet the server may track anything.
LEMMA MisreadInv ==
  ASSUME Inv, Misread
  PROVE  Inv'
<1>1. torn /\ Keys' = Keys /\ tracked' \subseteq Name /\ UNCHANGED <<requests, torn, refused>>
  BY DEF Misread, library, history, losses, Keys
<1>2. refused = Name
  BY <1>1 DEF Inv
<1> QED BY <1>1, <1>2, NothingAgrees DEF Inv, QueueOK

\* Receiving and calling listeners changes neither side's lists.
LEMMA StepInv ==
  ASSUME Inv, Step
  PROVE  Inv'
<1>1. listeners' = listeners /\ UNCHANGED <<requests, tracked, losses>>
  BY DEF Step, select, receive, nothing_received, read_packet, call_listeners, call_next,
         called_all, processed_all, network, history
<1> QED BY <1>1, OtherInv DEF Keys

\* The invariant is inductive.
LEMMA NextInv == Inv /\ [Next]_vars => Inv'
<1> SUFFICES ASSUME Inv, [Next]_vars PROVE Inv'
  OBVIOUS
<1>1. CASE Step
  BY <1>1, StepInv
<1>2. ASSUME NEW n \in Name, removeAll(n) PROVE Inv'
  BY <1>2, PhpRemoveAllInv
<1>3. ASSUME NEW n \in Name, NEW cb \in Callback, addListener(n, cb) \/ removeListener(n, cb)
      PROVE  Inv'
  BY <1>3, PhpAddInv, PhpRemoveInv
<1>4. CASE stop \/ run \/ fetch
  <2>1. listeners' = listeners /\ UNCHANGED <<requests, tracked, losses>>
    BY <1>4 DEF stop, run, fetch, network, history
  <2> QED BY <2>1, OtherInv DEF Keys
<1>5. CASE Handle
  BY <1>5, PhpHandleInv
<1>6. ASSUME NEW n \in Name, Notify(n) PROVE Inv'
  BY <1>6, OtherInv DEF Notify, library, history, Keys
<1>7. CASE UNCHANGED vars
  BY <1>7, OtherInv DEF vars, library, network, history, Keys
<1>8. CASE Misread
  BY <1>8, MisreadInv
<1> QED BY <1>1, <1>2, <1>3, <1>4, <1>5, <1>6, <1>7, <1>8 DEF Next, Methods

\* Once it has handled what is on its way, the server tracks exactly the names
\* that have listeners, but for those of which send refused a packet, and until it
\* let one be torn; for any number of names, callbacks and packets on their way.
THEOREM PhpSubscriptions == Spec => []AgreeUnlessRefused
<1>1. Inv => AgreeUnlessRefused
  BY AgreeUnlessRefusedIsAgrees DEF Inv
<1> QED BY <1>1, InitInv, NextInv, PTL DEF Spec

(***************************************************************************)
(* Where the loop can hang.  Known names have listeners or had them; a     *)
(* name is known before its first packet is sent, and stays known.  Behind *)
(* a torn packet nothing is known.                                         *)
(***************************************************************************)
Known == Keys \cup removed

OnlyKnown ==
  /\ requests \in Seq(Request(Known))
  /\ tracked \subseteq Known
  /\ notices \in Seq(Known)
  /\ inputBuffer \in Seq(Known)
  /\ step = "call" => name \in Known

\* Nothing is on its way at the start.
LEMMA InitKnown == Init => OnlyKnown
<1>1. [op |-> "set_namespace", name |-> Space] \in Request(Known)
  BY DEF Request
<1> QED BY <1>1 DEF Init, OnlyKnown

\* A sequence stays one of known names when more names are known.
LEMMA MoreKnown ==
  ASSUME NEW K, NEW L, K \subseteq L
  PROVE  Seq(K) \subseteq Seq(L) /\ Seq(Request(K)) \subseteq Seq(Request(L))
<1>1. Request(K) \subseteq Request(L)
  BY DEF Request
<1>2. ASSUME NEW A, NEW B, A \subseteq B PROVE Seq(A) \subseteq Seq(B)
  <2> SUFFICES ASSUME NEW s \in Seq(A) PROVE s \in Seq(B)
    OBVIOUS
  <2> QED BY <1>2
<1> QED BY <1>1, <1>2

\* A method that may send a packet about a name that is known from now on.
LEMMA SendKnown ==
  ASSUME OnlyKnown, NEW n \in Known', NEW op \in {"track", "untrack"},
         send(op, n) \/ requests' = requests,
         Known \subseteq Known', UNCHANGED <<tracked, notices, inputBuffer, step, name>>
  PROVE  OnlyKnown'
<1> DEFINE K == Known
           L == Known'
           r == [op |-> op, name |-> n]
<1>1. K \subseteq L /\ n \in L
  OBVIOUS
<1>2. requests \in Seq(Request(L)) /\ notices \in Seq(L) /\ inputBuffer \in Seq(L)
      /\ tracked \subseteq L /\ (step = "call" => name \in L)
  <2>1. requests \in Seq(Request(K)) /\ notices \in Seq(K) /\ inputBuffer \in Seq(K)
        /\ tracked \subseteq K /\ (step = "call" => name \in K)
    BY DEF OnlyKnown
  <2> HIDE DEF K, L
  <2> QED BY <1>1, <2>1, MoreKnown
<1>3. requests' = requests \/ requests' = Append(requests, r)
  BY DEF send
<1>4. r \in Request(L)
  BY <1>1 DEF Request
<1>5. requests' \in Seq(Request(L))
  <2>1. CASE requests' = requests
    BY <1>2, <2>1
  <2>2. CASE requests' = Append(requests, r)
    <3> DEFINE R == Request(L)
    <3>1. requests \in Seq(R) /\ r \in R
      BY <1>2, <1>4
    <3> HIDE DEF R, r
    <3>2. Append(requests, r) \in Seq(R)
      BY <3>1
    <3> QED BY <2>2, <3>2 DEF R
  <2> QED BY <1>3, <2>1, <2>2
<1> QED BY <1>2, <1>5 DEF OnlyKnown

\* The methods that change listeners.
LEMMA MethodKnown ==
  ASSUME OnlyKnown, NEW n \in Name,
         removeAll(n) \/ \E cb \in Callback : addListener(n, cb) \/ removeListener(n, cb)
  PROVE  OnlyKnown'
<1>1. CASE removeAll(n)
  <2>1. Known \subseteq Known' /\ n \in Known' /\ send("untrack", n)
    BY <1>1 DEF removeAll, Without, Known, Keys
  <2> QED BY <1>1, <2>1, SendKnown DEF removeAll
<1>2. ASSUME NEW cb \in Callback, addListener(n, cb) PROVE OnlyKnown'
  <2>1. Known \subseteq Known' /\ n \in Known' /\ (send("track", n) \/ requests' = requests)
    BY <1>2 DEF addListener, Known, Keys
  <2> QED BY <1>2, <2>1, SendKnown DEF addListener
<1>3. ASSUME NEW cb \in Callback, removeListener(n, cb) PROVE OnlyKnown'
  <2>1. Known \subseteq Known' /\ n \in Known' /\ requests' = requests
    BY <1>3 DEF removeListener, Known, Keys, network, history
  <2> QED BY <1>3, <2>1, SendKnown DEF removeListener, network
<1> QED BY <1>1, <1>2, <1>3

\* Receiving moves names along, and calling listeners moves none.
LEMMA StepKnown ==
  ASSUME OnlyKnown, Step
  PROVE  OnlyKnown'
<1>1. Known' = Known /\ requests' = requests /\ tracked' = tracked
  BY DEF Step, select, receive, nothing_received, read_packet, call_listeners, call_next,
         called_all, processed_all, network, history, Known, Keys
<1>2. CASE receive
  <2>1. PICK n \in 1..Len(notices) :
          /\ inputBuffer' = inputBuffer \o SubSeq(notices, 1, n)
          /\ notices' = SubSeq(notices, n + 1, Len(notices))
    BY <1>2 DEF receive
  <2>2. notices \in Seq(Known) /\ inputBuffer \in Seq(Known)
    BY DEF OnlyKnown
  <2>3. SubSeq(notices, 1, n) \in Seq(Known) /\ notices' \in Seq(Known)
    BY <2>1, <2>2
  <2>4. inputBuffer' \in Seq(Known)
    BY <2>1, <2>2, <2>3
  <2>5. step' = step /\ name' = name
    BY <1>2 DEF receive
  <2> QED BY <1>1, <2>3, <2>4, <2>5 DEF OnlyKnown
<1>3. CASE read_packet
  <2>1. inputBuffer # <<>> /\ name' = Head(inputBuffer) /\ inputBuffer' = Tail(inputBuffer)
        /\ notices' = notices
    BY <1>3 DEF read_packet, network
  <2>2. name' \in Known /\ inputBuffer' \in Seq(Known)
    BY <2>1 DEF OnlyKnown
  <2> QED BY <1>1, <2>1, <2>2 DEF OnlyKnown
<1>4. CASE select \/ nothing_received \/ call_listeners \/ call_next \/ called_all \/ processed_all
  <2>1. /\ UNCHANGED <<notices, inputBuffer>>
        /\ UNCHANGED <<step, name>> \/ step' = "header"
    BY <1>4 DEF select, nothing_received, call_listeners, call_next, called_all,
                processed_all, network
  <2> QED BY <1>1, <2>1 DEF OnlyKnown
<1> QED BY <1>2, <1>3, <1>4 DEF Step

\* The server tracks, and sends, names that it was asked to track.
LEMMA ServerKnown ==
  ASSUME OnlyKnown, Handle \/ \E n \in Name : Notify(n)
  PROVE  OnlyKnown'
<1>1. Known' = Known /\ UNCHANGED <<inputBuffer, step, name>>
  BY DEF Handle, HandleRequest, Notify, library, history, Known, Keys
<1>2. CASE Handle
  <2>1. requests # <<>> /\ requests \in Seq(Request(Known))
    BY <1>2 DEF Handle, HandleRequest, OnlyKnown
  <2>2. Head(requests) \in Request(Known) /\ requests' \in Seq(Request(Known))
    BY <1>2, <2>1 DEF Handle, HandleRequest
  <2>3. tracked' \subseteq Known
    <3>1. tracked' = Tracking(tracked, Head(requests)) /\ tracked \subseteq Known
      BY <1>2 DEF Handle, HandleRequest, OnlyKnown
    <3> QED BY <2>2, <3>1 DEF Tracking, Request
  <2> QED BY <1>1, <1>2, <2>2, <2>3 DEF OnlyKnown, Handle
<1>3. ASSUME NEW n \in Name, Notify(n) PROVE OnlyKnown'
  <2>1. n \in Known /\ notices' = Append(notices, n) /\ UNCHANGED <<requests, tracked>>
    BY <1>3 DEF Notify, OnlyKnown
  <2>2. notices' \in Seq(Known)
    BY <2>1 DEF OnlyKnown
  <2> QED BY <1>1, <2>1, <2>2 DEF OnlyKnown
<1> QED BY <1>2, <1>3

\* Nothing mends the stream.
LEMMA TornStays == torn /\ [Next]_vars => torn'
<1> SUFFICES ASSUME torn, [Next]_vars PROVE torn'
  OBVIOUS
<1>1. ASSUME NEW op, NEW n, send(op, n) PROVE torn'
  BY <1>1 DEF send, losses
<1>2. ASSUME UNCHANGED losses PROVE torn'
  BY <1>2 DEF losses
<1>3. ASSUME NEW n \in Name, NEW cb \in Callback, addListener(n, cb) PROVE torn'
  BY <1>1, <1>2, <1>3 DEF addListener, losses
<1>4. ASSUME NEW n \in Name, removeAll(n) PROVE torn'
  BY <1>1, <1>4 DEF removeAll
<1>5. ASSUME NEW n \in Name, NEW cb \in Callback, removeListener(n, cb) PROVE torn'
  BY <1>2, <1>5 DEF removeListener, history
<1>6. ASSUME Step \/ stop \/ run \/ fetch PROVE torn'
  BY <1>2, <1>6 DEF Step, select, receive, nothing_received, read_packet, call_listeners,
                    call_next, called_all, processed_all, stop, run, fetch, history
<1>7. ASSUME Handle \/ Misread \/ UNCHANGED vars PROVE torn'
  BY <1>2, <1>7 DEF Handle, Misread, vars, history
<1>8. ASSUME NEW n \in Name, Notify(n) PROVE torn'
  BY <1>2, <1>8 DEF Notify, history
<1> QED BY <1>3, <1>4, <1>5, <1>6, <1>7, <1>8 DEF Next, Methods

\* Known names stay known on their way.
LEMMA NextKnown == (torn \/ OnlyKnown) /\ [Next]_vars => (torn \/ OnlyKnown)'
<1> SUFFICES ASSUME ~torn, OnlyKnown, [Next]_vars PROVE OnlyKnown'
  BY TornStays
<1>1. CASE Step
  BY <1>1, StepKnown
<1>2. ASSUME NEW n \in Name,
             removeAll(n) \/ \E cb \in Callback : addListener(n, cb) \/ removeListener(n, cb)
      PROVE  OnlyKnown'
  BY <1>2, MethodKnown
<1>3. CASE stop \/ run \/ fetch \/ UNCHANGED vars
  <2>1. UNCHANGED <<listeners, removed, requests, tracked, notices, inputBuffer, step, name>>
    BY <1>3 DEF stop, run, fetch, vars, library, network, history
  <2> QED BY <2>1 DEF OnlyKnown, Known, Keys
<1>4. CASE Handle \/ \E n \in Name : Notify(n)
  BY <1>4, ServerKnown
<1>5. CASE Misread
  BY <1>5 DEF Misread
<1> QED BY <1>1, <1>2, <1>3, <1>4, <1>5 DEF Next, Methods

\* The loop that processes the buffer hangs on a packet only if the program once
\* removed the last listener of its name, or the socket took a part of a packet.
THEOREM PhpSpins == Spec => []SpinsOnlyAfterRemoval
<1>1. torn \/ OnlyKnown => SpinsOnlyAfterRemoval
  BY DEF OnlyKnown, Known, SpinsOnlyAfterRemoval, Spinning
<1> QED BY <1>1, InitKnown, NextKnown, PTL DEF Spec

(***************************************************************************)
(* The types.  A foreach never has more listeners to call than a name may  *)
(* have.                                                                   *)
(***************************************************************************)
Lists == \A n \in Keys : listeners[n] \in Seq(Callback) /\ Len(listeners[n]) \in 1..MaxListeners

ProgramTypeOK ==
  /\ phase \in {"program", "select", "recv", "process", "call"}
  /\ inputBuffer \in Seq(Name)
  /\ step \in {"header", "call"}
  /\ name \in Name \cup {NoName}
  /\ todo \in 0..MaxListeners
  /\ Len(requests) <= MaxOnWay
  /\ notices \in Seq(Name)
  /\ sent \in 0..MaxNotices
  /\ removed \subseteq Name

Types == Inv /\ Lists /\ ProgramTypeOK

Flags == running \in BOOLEAN /\ placed \in BOOLEAN /\ torn \in BOOLEAN

\* They are what the run checks.
LEMMA TypesSuffice == Types /\ Flags => TypeOK
<1>1. ASSUME NEW s \in Seq(Callback), Len(s) \in 1..MaxListeners PROVE s # <<>>
  <2>1. Len(<<>>) = 0 /\ Len(s) # 0
    BY <1>1
  <2> QED BY <2>1
<1>2. Lists => Callbacks
  BY <1>1 DEF Lists, Callbacks
<1> QED
  BY <1>2 DEF Types, Flags, TypeOK, Inv, QueueOK, SubscriptionsTypeOK, Callbacks,
              ProgramTypeOK, Request

LEMMA TypesInit == Init => Types /\ Flags
<1> SUFFICES ASSUME Init PROVE Types /\ Flags
  OBVIOUS
<1>1. Inv
  BY InitInv
<1>2. Lists
  BY DEF Init, NoListeners, Lists, Keys
<1>3. ProgramTypeOK
  <2>1. Len(requests) = 1
    BY DEF Init
  <2> QED BY <2>1, BoundsNatural, NoticesNatural, SocketTakesOne DEF Init, ProgramTypeOK
<1>4. Flags
  BY DEF Init, Flags
<1> QED BY <1>1, <1>2, <1>3, <1>4 DEF Types

\* One more listener, and one less, are lists of listeners.
LEMMA ListAppend ==
  ASSUME NEW s \in Seq(Callback), NEW cb \in Callback
  PROVE  Append(s, cb) \in Seq(Callback) /\ Len(Append(s, cb)) = Len(s) + 1
OBVIOUS

LEMMA ListErased ==
  ASSUME NEW s \in Seq(Callback), NEW i \in 2..Len(s)
  PROVE  Erased(s, i) \in Seq(Callback) /\ Len(Erased(s, i)) = Len(s) - 1
<1>1. s # <<>>
  <2>1. Len(<<>>) = 0 /\ Len(s) # 0
    OBVIOUS
  <2> QED BY <2>1
<1>2. Erased(s, i) \in Seq(Callback)
  BY <1>1, ErasedType
<1>3. DOMAIN Erased(s, i) = 1..Len(s) - 1 /\ Len(s) - 1 \in Nat
  BY DEF Erased
<1> QED BY <1>2, <1>3

\* What send does to the queue.
LEMMA SendBounded ==
  ASSUME Inv, Len(requests) <= MaxOnWay, NEW op, NEW n, [op |-> op, name |-> n] \in Request(Name),
         send(op, n)
  PROVE  Len(requests') <= MaxOnWay
<1> DEFINE r == [op |-> op, name |-> n]
<1>1. requests \in Seq(Request(Name)) /\ r \in Request(Name)
  BY DEF Inv, QueueOK
<1> HIDE DEF r
<1>2. Len(Append(requests, r)) = Len(requests) + 1 /\ Len(requests) \in Nat
  BY <1>1
<1>3. \/ requests' = requests
      \/ Len(requests) < MaxOnWay /\ requests' = Append(requests, r)
  BY <1>2, BoundsNatural DEF send, r
<1> QED BY <1>2, <1>3, BoundsNatural

\* The methods that change listeners.
LEMMA MethodTypes ==
  ASSUME Types, Inv', NEW n \in Name,
         removeAll(n) \/ \E cb \in Callback : addListener(n, cb) \/ removeListener(n, cb)
  PROVE  Types'
<1>1. UNCHANGED <<running, phase, inputBuffer, step, name, todo, notices, sent>>
  BY DEF removeAll, addListener, removeListener, network
<1>2. Lists'
  <2>1. CASE removeAll(n)
    <3>1. Keys' = Keys \ {n} /\ \A m \in Keys' : listeners'[m] = listeners[m]
      BY <2>1 DEF removeAll, Without, Keys
    <3> QED BY <3>1 DEF Types, Lists
  <2>2. ASSUME NEW cb \in Callback, addListener(n, cb), n \in Keys PROVE Lists'
    <3>1. /\ Keys' = Keys /\ Len(listeners[n]) < MaxListeners
          /\ listeners'[n] = Append(listeners[n], cb)
          /\ \A m \in Keys \ {n} : listeners'[m] = listeners[m]
      BY <2>2 DEF addListener, Keys
    <3>2. Append(listeners[n], cb) \in Seq(Callback)
          /\ Len(Append(listeners[n], cb)) \in 1..MaxListeners
      BY <2>2, <3>1, ListAppend, BoundsNatural DEF Types, Lists
    <3> QED BY <3>1, <3>2 DEF Types, Lists
  <2>3. ASSUME NEW cb \in Callback, addListener(n, cb), n \notin Keys PROVE Lists'
    <3>1. /\ Keys' = Keys \cup {n} /\ MaxListeners > 0
          /\ listeners'[n] = <<cb>>
          /\ \A m \in Keys : listeners'[m] = listeners[m]
      BY <2>3 DEF addListener, Keys
    <3>2. <<cb>> \in Seq(Callback) /\ Len(<<cb>>) \in 1..MaxListeners
      BY <3>1, BoundsNatural
    <3> QED BY <3>1, <3>2 DEF Types, Lists
  <2>4. ASSUME NEW cb \in Callback, removeListener(n, cb) PROVE Lists'
    <3>1. PICK i \in 2..Len(listeners[n]) : listeners' = [listeners EXCEPT ![n] = Erased(@, i)]
      BY <2>4 DEF removeListener
    <3>2. n \in Keys /\ listeners[n] \in Seq(Callback) /\ Len(listeners[n]) \in 1..MaxListeners
      BY <2>4 DEF removeListener, Types, Lists
    <3>3. /\ Keys' = Keys /\ listeners'[n] = Erased(listeners[n], i)
          /\ \A m \in Keys \ {n} : listeners'[m] = listeners[m]
      BY <3>1, <3>2 DEF Keys
    <3>4. Erased(listeners[n], i) \in Seq(Callback)
          /\ Len(Erased(listeners[n], i)) = Len(listeners[n]) - 1
      BY <3>2, ListErased
    <3>5. Len(Erased(listeners[n], i)) \in 1..MaxListeners
      BY <3>2, <3>4, BoundsNatural
    <3> QED BY <3>3, <3>4, <3>5 DEF Types, Lists
  <2> QED BY <2>1, <2>2, <2>3, <2>4
<1>3. Len(requests') <= MaxOnWay
  <2>1. /\ [op |-> "track", name |-> n] \in Request(Name)
        /\ [op |-> "untrack", name |-> n] \in Request(Name)
    BY DEF Request
  <2>2. send("track", n) \/ send("untrack", n) \/ requests' = requests
    BY DEF removeAll, addListener, removeListener, network
  <2> QED BY <2>1, <2>2, SendBounded DEF Types, ProgramTypeOK
<1>4. removed' \subseteq Name
  BY DEF removeAll, addListener, removeListener, history, Types, ProgramTypeOK
<1>5. ProgramTypeOK'
  BY <1>1, <1>3, <1>4 DEF Types, ProgramTypeOK
<1> QED BY <1>2, <1>5 DEF Types

\* The steps of the interpreter, and stop, run and fetch.
LEMMA ProgramTypes ==
  ASSUME Lists, ProgramTypeOK, Inv, Step \/ stop \/ run \/ fetch
  PROVE  ProgramTypeOK'
<1>1. UNCHANGED <<requests, sent, removed>>
  BY DEF Step, select, receive, nothing_received, read_packet, call_listeners, call_next,
         called_all, processed_all, stop, run, fetch, network, history
<1>2. CASE receive
  <2>1. PICK n \in 1..Len(notices) :
          /\ inputBuffer' = inputBuffer \o SubSeq(notices, 1, n)
          /\ notices' = SubSeq(notices, n + 1, Len(notices))
    BY <1>2 DEF receive
  <2>2. notices \in Seq(Name) /\ inputBuffer \in Seq(Name)
    BY DEF ProgramTypeOK
  <2>3. SubSeq(notices, 1, n) \in Seq(Name) /\ notices' \in Seq(Name)
    BY <2>1, <2>2
  <2>4. inputBuffer' \in Seq(Name)
    BY <2>1, <2>2, <2>3
  <2>5. UNCHANGED <<phase, step, name, todo>>
    BY <1>2 DEF receive
  <2> QED BY <1>1, <2>3, <2>4, <2>5 DEF ProgramTypeOK
<1>3. CASE read_packet
  <2>1. /\ inputBuffer # <<>> /\ name' = Head(inputBuffer) /\ inputBuffer' = Tail(inputBuffer)
        /\ step' = "call" /\ UNCHANGED <<phase, todo, notices>>
    BY <1>3 DEF read_packet, network
  <2>2. name' \in Name /\ inputBuffer' \in Seq(Name)
    BY <2>1 DEF ProgramTypeOK
  <2> QED BY <1>1, <2>1, <2>2 DEF ProgramTypeOK
<1>4. CASE call_listeners
  <2>1. UNCHANGED <<inputBuffer, step, name, notices>>
    BY <1>4 DEF call_listeners, network
  <2>2. CASE name \in Keys
    <3>1. phase' = "call" /\ todo' = Len(listeners[name])
      BY <1>4, <2>2 DEF call_listeners
    <3>2. todo' \in 0..MaxListeners
      BY <2>2, <3>1, BoundsNatural DEF Lists
    <3> QED BY <1>1, <2>1, <3>1, <3>2 DEF ProgramTypeOK
  <2>3. CASE name \notin Keys
    BY <1>1, <1>4, <2>1, <2>3 DEF call_listeners, ProgramTypeOK
  <2> QED BY <2>2, <2>3
<1>5. CASE call_next
  <2>1. todo' \in 0..MaxListeners
    BY <1>5, BoundsNatural DEF call_next, ProgramTypeOK
  <2> QED BY <1>1, <1>5, <2>1 DEF call_next, network, ProgramTypeOK
<1>6. CASE select \/ nothing_received \/ called_all \/ processed_all \/ stop \/ run \/ fetch
  <2>1. /\ UNCHANGED <<inputBuffer, todo, notices>>
        /\ name' \in {name, NoName}
        /\ step' \in {step, "header"}
        /\ phase' \in {phase, "program", "select", "recv", "process"}
    BY <1>6 DEF select, nothing_received, called_all, processed_all, stop, run, fetch, network
  <2> QED BY <1>1, <2>1 DEF ProgramTypeOK
<1> QED BY <1>2, <1>3, <1>4, <1>5, <1>6 DEF Step

LEMMA StepTypes ==
  ASSUME Types, Inv', Step \/ stop \/ run \/ fetch
  PROVE  Types'
<1>1. listeners' = listeners
  BY DEF Step, select, receive, nothing_received, read_packet, call_listeners, call_next,
         called_all, processed_all, stop, run, fetch
<1>2. Lists'
  BY <1>1 DEF Types, Lists, Keys
<1>3. ProgramTypeOK'
  BY ProgramTypes DEF Types
<1> QED BY <1>2, <1>3 DEF Types

\* The server's end.
LEMMA ServerTypes ==
  ASSUME Types, Inv', Handle \/ \E n \in Name : Notify(n)
  PROVE  Types'
<1>1. UNCHANGED <<listeners, running, phase, inputBuffer, step, name, todo, removed>>
  BY DEF Handle, HandleRequest, Notify, library, history
<1>2. CASE Handle
  <2>1. requests # <<>> /\ requests' = Tail(requests) /\ UNCHANGED <<notices, sent>>
    BY <1>2 DEF Handle, HandleRequest
  <2>2. requests \in Seq(Request(Name)) /\ Len(requests) <= MaxOnWay
    BY DEF Types, Inv, QueueOK, ProgramTypeOK
  <2>3. Len(requests') <= MaxOnWay
    BY <2>1, <2>2, BoundsNatural
  <2> QED BY <1>1, <2>1, <2>3 DEF Types, Lists, Keys, ProgramTypeOK
<1>3. ASSUME NEW n \in Name, Notify(n) PROVE Types'
  <2>1. /\ notices' = Append(notices, n) /\ UNCHANGED requests
        /\ sent < MaxNotices /\ sent' = sent + 1
    BY <1>3 DEF Notify
  <2>2. notices' \in Seq(Name)
    BY <2>1 DEF Types, ProgramTypeOK
  <2>3. sent' \in 0..MaxNotices
    BY <2>1, NoticesNatural DEF Types, ProgramTypeOK
  <2> QED BY <1>1, <2>1, <2>2, <2>3 DEF Types, Lists, Keys, ProgramTypeOK
<1> QED BY <1>2, <1>3

LEMMA MisreadTypes ==
  ASSUME Types, Inv', Misread
  PROVE  Types'
BY DEF Misread, library, history, Types, Lists, Keys, ProgramTypeOK

LEMMA TypesNext == Types /\ [Next]_vars => Types'
<1> SUFFICES ASSUME Types, [Next]_vars PROVE Types'
  OBVIOUS
<1>1. Inv'
  BY NextInv DEF Types
<1>2. CASE Step \/ stop \/ run \/ fetch
  BY <1>1, <1>2, StepTypes
<1>3. ASSUME NEW n \in Name,
             removeAll(n) \/ \E cb \in Callback : addListener(n, cb) \/ removeListener(n, cb)
      PROVE  Types'
  BY <1>1, <1>3, MethodTypes
<1>4. CASE Handle \/ \E n \in Name : Notify(n)
  BY <1>1, <1>4, ServerTypes
<1>5. CASE UNCHANGED vars
  BY <1>1, <1>5 DEF vars, library, network, history, Types, Lists, Keys, ProgramTypeOK
<1>6. CASE Misread
  BY <1>1, <1>6, MisreadTypes
<1> QED BY <1>2, <1>3, <1>4, <1>5, <1>6 DEF Next, Methods

\* running, placed and torn are set to truth values only.
LEMMA FlagsNext ==
  ASSUME Flags, [Next]_vars
  PROVE  Flags'
<1>1. ASSUME NEW op, NEW n, send(op, n) PROVE torn' \in BOOLEAN
  BY <1>1 DEF send, losses, Flags
<1>2. ASSUME UNCHANGED losses PROVE torn' \in BOOLEAN
  BY <1>2 DEF losses, Flags
<1>3. ASSUME NEW n \in Name, removeAll(n) \/ \E cb \in Callback : addListener(n, cb)
      PROVE  Flags'
  <2>1. UNCHANGED <<running, placed>> /\ ((\E op : send(op, n)) \/ UNCHANGED losses)
    BY <1>3 DEF addListener, removeAll, losses
  <2> QED BY <1>1, <1>2, <2>1 DEF Flags
<1>4. ASSUME NEW n \in Name, NEW cb \in Callback, removeListener(n, cb) PROVE Flags'
  BY <1>2, <1>4 DEF removeListener, network, history, Flags
<1>5. ASSUME Step PROVE Flags'
  BY <1>2, <1>5 DEF Step, select, receive, nothing_received, read_packet, call_listeners,
                    call_next, called_all, processed_all, network, history, Flags
<1>6. ASSUME stop \/ run \/ fetch PROVE Flags'
  BY <1>2, <1>6 DEF stop, run, fetch, network, history, Flags
<1>7. ASSUME Handle PROVE Flags'
  BY <1>2, <1>7 DEF Handle, HandleRequest, history, Flags
<1>8. ASSUME Misread \/ UNCHANGED vars \/ \E n \in Name : Notify(n) PROVE Flags'
  BY <1>2, <1>8 DEF Misread, Notify, vars, library, network, history, Flags
<1> QED BY <1>3, <1>4, <1>5, <1>6, <1>7, <1>8 DEF Next, Methods

\* Every variable of the library, of its two queues and of the server's end keeps
\* its type, and a name that is a key has a listener: index 0, which
\* removeEventListener takes for "not found", is never removed by itself.
THEOREM PhpTypeCorrect == Spec => []TypeOK
BY TypesSuffice, TypesInit, TypesNext, FlagsNext, PTL DEF Spec

===============================================================================
