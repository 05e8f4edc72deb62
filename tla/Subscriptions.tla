---------------------------- MODULE Subscriptions ----------------------------
(***************************************************************************)
(* The listeners of a program and what the server knows of them: the map   *)
(* of callbacks that the C++ and the Arduino library keep with the same    *)
(* code, the packets they send for it, and the lists of the server's       *)
(* Client object.  The PHP library keeps the same map by other methods     *)
(* (module PhpClient).                                                     *)
(*                                                                         *)
(* The methods for events and for counters are the same code on two maps;  *)
(* here there is one map, of events and counters.                          *)
(***************************************************************************)
EXTENDS Naturals, Sequences

CONSTANTS
  Event,        \* names of events
  Counter,      \* names of counters
  Space,        \* the name of a namespace: which one does not matter here
  Callback,     \* functions of the program
  MaxListeners, \* bound: callbacks registered for a name
  MaxOnWay      \* bound: packets on their way to the server

ASSUME NamesDisjoint == Event \cap Counter = {}
ASSUME SpaceIsNoName == Space \notin Event \cup Counter
ASSUME BoundsNatural == MaxListeners \in Nat /\ MaxOnWay \in Nat

VARIABLES
  listeners,  \* Details::event_listeners and counter_listeners: a function
              \* whose domain is the keys
  requests,   \* packets to the server, not yet handled
  tracked,    \* the names in the server's tracked_events and tracked_counters
  placed      \* the server's Client::_namespace is set

subscriptions == <<listeners, requests, tracked, placed>>

Name == Event \cup Counter

Keys == DOMAIN listeners

NoListeners == [n \in {} |-> <<>>]

-----------------------------------------------------------------------------
Ask(op, n) ==
  /\ Len(requests) < MaxOnWay
  /\ requests' = Append(requests, [op |-> op, name |-> n])

Without(n) == [m \in Keys \ {n} |-> listeners[m]]

\* track_event, track_counter.
AddListener(n, cb) ==
  /\ IF n \in Keys
     THEN /\ Len(listeners[n]) < MaxListeners
          /\ listeners' = [listeners EXCEPT ![n] = Append(@, cb)]
          /\ UNCHANGED requests
     ELSE /\ MaxListeners > 0
          /\ listeners' = [m \in Keys \cup {n} |-> IF m = n THEN <<cb>> ELSE listeners[m]]
          /\ Ask("track", n)
  /\ UNCHANGED <<tracked, placed>>

\* The position of std::find, one past the end if the callback is not there.
Position(s, cb) ==
  CHOOSE i \in 1..Len(s) + 1 :
    /\ \A j \in 1..i - 1 : s[j] # cb
    /\ i <= Len(s) => s[i] = cb

Unregistered(n, cb) == n \in Keys /\ Position(listeners[n], cb) > Len(listeners[n])

\* vector::erase.  erase(end()) moves the -1 elements behind it, which either
\* ends the program or does nothing, and takes the last element away.
Erased(s, i) ==
  [j \in 1..Len(s) - 1 |-> IF j < i THEN s[j] ELSE s[j + 1]]

\* Mutant: the key stays when its last callback is removed, and the server is
\* not told.
RemoveListenerOnly(n, cb) ==
  /\ n \in Keys
  /\ listeners' = [listeners EXCEPT ![n] = Erased(@, Position(@, cb))]
  /\ UNCHANGED <<requests, tracked, placed>>

\* untrack_event, untrack_counter with a callback.
RemoveListener(n, cb) ==
  /\ n \in Keys
  /\ LET rest == Erased(listeners[n], Position(listeners[n], cb))
     IN  IF rest = <<>>
         THEN listeners' = Without(n) /\ Ask("untrack", n)
         ELSE listeners' = [listeners EXCEPT ![n] = rest] /\ UNCHANGED requests
  /\ UNCHANGED <<tracked, placed>>

\* Mutant: the packet is sent only for a name that is no key.
RemoveAllSilently(n) ==
  /\ IF n \in Keys THEN UNCHANGED requests ELSE Ask("untrack", n)
  /\ listeners' = Without(n)
  /\ UNCHANGED <<tracked, placed>>

\* untrack_event, untrack_counter without a callback.
RemoveAll(n) ==
  /\ Ask("untrack", n)
  /\ listeners' = Without(n)
  /\ UNCHANGED <<tracked, placed>>

\* set_namespace.
SetNamespace == Ask("set_namespace", Space) /\ UNCHANGED <<listeners, tracked, placed>>

\* What the server tracks of T once it has handled the packet r.
Tracking(T, r) ==
  CASE r.op = "track"         -> T \cup {r.name}
    [] r.op = "untrack"       -> T \ {r.name}
    [] r.op = "set_namespace" -> T

\* The server's Client::track_event and its siblings, and Client::set_namespace.
HandleRequest ==
  /\ requests # <<>>
  /\ requests' = Tail(requests)
  /\ tracked' = Tracking(tracked, Head(requests))
  /\ placed' = (placed \/ Head(requests).op = "set_namespace")
  /\ UNCHANGED listeners

\* Mutant: a namespace does not tell its values to those who come in.
GreetedFirstTime ==
  {c \in Counter \ tracked :
     placed /\ Head(requests).op = "track" /\ Head(requests).name = c}

\* The counters whose values the server sends for the oldest packet.  A namespace
\* tells the value of a counter to whoever begins to listen to it:
\* Client::track_counter has it do so the first time, if there is a namespace, and
\* Client::set_namespace for every counter that the client tracks.
Greeted ==
  {c \in Counter :
     \/ Head(requests).op = "set_namespace" /\ c \in tracked
     \/ placed /\ Head(requests).op = "track" /\ Head(requests).name = c /\ c \notin tracked}

\* What may happen to the four.
SubscriptionStep ==
  \/ \E n \in Name : \/ \E cb \in Callback : AddListener(n, cb) \/ RemoveListener(n, cb)
                     \/ RemoveAll(n)
  \/ SetNamespace
  \/ HandleRequest

-----------------------------------------------------------------------------
(***************************************************************************)
(* Properties.                                                             *)
(***************************************************************************)

\* The map, the queue and the lists have their types; a key has a callback.
SubscriptionsTypeOK ==
  /\ Keys \subseteq Name
  /\ \A n \in Keys : listeners[n] \in Seq(Callback) /\ listeners[n] # <<>>
  /\ requests \in Seq([op : {"track", "untrack"}, name : Name]
                     \cup [op : {"set_namespace"}, name : {Space}])
  /\ tracked \subseteq Name
  /\ placed \in BOOLEAN

\* The server will track a name once it has handled what is on its way.
LastRequest(i) == \A j \in DOMAIN requests : j > i => requests[j].name # requests[i].name

\* The library tells the server of its first listener and of the end of its last
\* one, never of those between: whatever is on its way, the server ends up
\* tracking exactly the names that have listeners.
SubscriptionsAgree ==
  /\ \A i \in DOMAIN requests :
       LastRequest(i) => (requests[i].op = "track" <=> requests[i].name \in Keys)
  /\ \A n \in Name :
       (\A i \in DOMAIN requests : requests[i].name # n) => (n \in tracked <=> n \in Keys)

=============================================================================
