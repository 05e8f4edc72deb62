------------------------------ MODULE WhiteBell ------------------------------
(***************************************************************************)
(* The object graph of the WhiteBell server: Server, Client and Namespace  *)
(* objects, the weak and shared pointers between them, and the packets the *)
(* server hands to its clients' sockets.                                   *)
(*                                                                         *)
(* The server is single threaded (Server::run_main_thread): a packet is    *)
(* parsed and processed to the end before the next one, so each action     *)
(* below is one whole handler, from Parser::process_packet down to the     *)
(* last Client::send.  How packets arrive is module Receiver, and when     *)
(* module EventLoop.                                                       *)
(*                                                                         *)
(* A client_list (vector<weak_ptr<Client>>) is modelled by the number of   *)
(* times each client occurs in it; the order of a vector decides nothing   *)
(* but the order of packets to different clients.  A name that is no key   *)
(* of a std::map maps to Absent.                                           *)
(***************************************************************************)
EXTENDS Naturals, Sequences, FiniteSets

CONSTANTS
  Client,    \* identities of Client objects, one per accepted connection
  Event,     \* names of events
  Counter,   \* names of counters
  NsName,    \* names of namespaces
  NsObj,     \* identities of Namespace objects
  None,      \* a null shared_ptr; no value
  Absent     \* "map.find(name) == map.end()"

ASSUME ClientsFinite == IsFiniteSet(Client)
ASSUME NullIsNoObject == None \notin NsObj /\ None \notin NsName
ASSUME NullIsNoCount == None \notin Nat
ASSUME AbsentIsNoList == Absent \notin [Client -> Nat]

VARIABLES
  connections,        \* Server::connections, the owners of the Client objects
  namespaces,         \* Server::namespaces, weak pointers, expired ones too
  space,              \* Client::_namespace, the only owners of Namespaces
  tracked_events,     \* Client::tracked_events   (vectors without duplicates,
  tracked_counters,   \* Client::tracked_counters  since every push_back comes
  joined_counters,    \* Client::joined_counters   after a failed std::find)
  ns_name,            \* Namespace::_name, None for an object not allocated
  event_listeners,    \* Namespace::event_listeners
  counter_listeners,  \* Namespace::counter_listeners
  counters,           \* Namespace::counters
  events_sent,        \* copies of each event sent to each client by this step
  counts_sent,        \* counter values sent to each client by this step
  shown               \* history: last value a client was told of a counter
                      \* it tracks

maps   == <<event_listeners, counter_listeners, counters>>
lists  == <<tracked_events, tracked_counters, joined_counters>>
vars   == <<connections, namespaces, space, lists, ns_name, maps,
            events_sent, counts_sent, shown>>

-----------------------------------------------------------------------------
(***************************************************************************)
(* client_list, and the maps from names to client_lists.                   *)
(***************************************************************************)
NoClients == [c \in Client |-> 0]

ClientList == [Client -> Nat]

push_back(l, c) ==
  IF l = Absent THEN [NoClients EXCEPT ![c] = 1] ELSE [l EXCEPT ![c] = @ + 1]

\* The loop that looks for a client by owner_before.  When it reaches end(),
\* the erase(end()) that follows drops the vector's last element, whoever it is.
Found(l, c) == IF l[c] > 0 THEN c ELSE CHOOSE d \in Client : l[d] > 0

\* Mutant: the key stays in the map when its last client is erased.
erase_keeps_key(l, c) ==
  IF l = Absent THEN Absent ELSE [l EXCEPT ![Found(l, c)] = @ - 1]

erase(l, c) ==
  LET rest == [l EXCEPT ![Found(l, c)] = @ - 1]
  IN  CASE l = Absent       -> Absent
        [] rest = NoClients -> Absent
        [] OTHER            -> rest

size(l) ==
  IF l = Absent THEN 0 ELSE Cardinality(UNION {{d} \X (1..l[d]) : d \in Client})

\* Client c is added to, or removed from, the lists of the names N in object o.
\* Nothing happens when o is null (Client tests _namespace before each call).
AddTo(m, o, N, c) ==
  [p \in NsObj |-> [n \in DOMAIN m[p] |->
    IF p = o /\ n \in N THEN push_back(m[p][n], c) ELSE m[p][n]]]

RemoveFrom(m, o, N, c) ==
  [p \in NsObj |-> [n \in DOMAIN m[p] |->
    IF p = o /\ n \in N THEN erase(m[p][n], c) ELSE m[p][n]]]

-----------------------------------------------------------------------------
(***************************************************************************)
(* Packets.  A listener is sent a packet for each of its occurrences in    *)
(* the list, provided its weak_ptr locks.                                  *)
(***************************************************************************)
Copies(m, o, n, d) ==
  IF o = None \/ d \notin connections THEN 0
  ELSE IF m[o][n] = Absent THEN 0 ELSE m[o][n][d]

Silence == [d \in Client |-> [k \in Counter |-> <<>>]]

\* Namespace::trigger_counter_event for each counter of K in object o, with the
\* listeners cl and the counters ct of that moment.
Broadcast(cl, ct, o, K) ==
  [d \in Client |-> [k \in Counter |->
    IF k \in K THEN [i \in 1..Copies(cl, o, k, d) |-> size(ct[o][k])]
               ELSE <<>>]]

\* Mutant: who comes to a namespace is not told.
NoGreeting(ct, o, K, c) == Silence

\* Namespace::add_counter_listener tells client c the present values.
Greeting(ct, o, K, c) ==
  [d \in Client |-> [k \in Counter |->
    IF d = c /\ k \in K /\ o # None THEN <<size(ct[o][k])>> ELSE <<>>]]

Followed(a, b) == [d \in Client |-> [k \in Counter |-> a[d][k] \o b[d][k]]]

SendCounts(sent) ==
  /\ counts_sent' = sent
  /\ shown' = [d \in Client |-> [k \in Counter |->
       IF k \notin tracked_counters'[d] THEN None
       ELSE IF sent[d][k] = <<>> THEN shown[d][k]
       ELSE sent[d][k][Len(sent[d][k])]]]

NoEvents == [d \in Client |-> [e \in Event |-> 0]]

-----------------------------------------------------------------------------
(***************************************************************************)
(* Lifetimes.  Only Client::_namespace holds a shared_ptr<Namespace> past  *)
(* the end of a handler, and only Server::connections a shared_ptr<Client>.*)
(***************************************************************************)
Live(o) == \E d \in connections : space[d] = o

\* weak_ptrs keep the control block of a Client, and so its identity for
\* owner_before, from being used again.
Referenced(c) ==
  \E o \in NsObj :
    \/ \E e \in Event : event_listeners[o][e] # Absent /\ event_listeners[o][e][c] > 0
    \/ \E k \in Counter :
         \/ counter_listeners[o][k] # Absent /\ counter_listeners[o][k][c] > 0
         \/ counters[o][k] # Absent /\ counters[o][k][c] > 0

\* ~Namespace of the objects whose last owner the step has dropped.
Owned(o) == \E d \in connections' : space'[d] = o

Surviving(m) ==
  [o \in NsObj |-> IF Owned(o) THEN m[o] ELSE [n \in DOMAIN m[o] |-> Absent]]

\* Mutant: the Client object outlives its connection and keeps its namespace.
ClientKeepsNamespace(c) ==
  /\ space'            = space
  /\ tracked_events'   = [tracked_events EXCEPT ![c] = {}]
  /\ tracked_counters' = [tracked_counters EXCEPT ![c] = {}]
  /\ joined_counters'  = [joined_counters EXCEPT ![c] = {}]

ClientDestroyed(c) ==
  /\ space'            = [space EXCEPT ![c] = None]
  /\ tracked_events'   = [tracked_events EXCEPT ![c] = {}]
  /\ tracked_counters' = [tracked_counters EXCEPT ![c] = {}]
  /\ joined_counters'  = [joined_counters EXCEPT ![c] = {}]

-----------------------------------------------------------------------------
(***************************************************************************)
(* Server::get_namespace: the first live object of that name, or a new one.*)
(***************************************************************************)
Expired == {p \in namespaces : ~Live(p)}

\* Mutant: the comparison of names never succeeds.
NeverNamed(nm) == {p \in namespaces : Live(p) /\ ns_name[p] = None}

Named(nm) == {p \in namespaces : Live(p) /\ ns_name[p] = nm}

\* Mutant: expired entries are skipped and not erased.
KeptAll == namespaces

Kept == namespaces \ Expired

\* On a hit the scan stops: the expired entries before the match are erased,
\* those behind it stay.  The order of the vector is not modelled, so any part
\* of the expired entries may be the part that is passed.
get_namespace(nm, o) ==
  \/ /\ o \in Named(nm)
     /\ \E passed \in SUBSET Expired : namespaces' = namespaces \ passed
  \/ /\ Named(nm) = {}
     /\ ~Live(o)
     /\ namespaces' = Kept \cup {o}

-----------------------------------------------------------------------------
(***************************************************************************)
(* The handlers.                                                           *)
(***************************************************************************)
Init ==
  /\ connections       = {}
  /\ namespaces        = {}
  /\ space             = [c \in Client |-> None]
  /\ tracked_events    = [c \in Client |-> {}]
  /\ tracked_counters  = [c \in Client |-> {}]
  /\ joined_counters   = [c \in Client |-> {}]
  /\ ns_name           = [o \in NsObj |-> None]
  /\ event_listeners   = [o \in NsObj |-> [e \in Event |-> Absent]]
  /\ counter_listeners = [o \in NsObj |-> [k \in Counter |-> Absent]]
  /\ counters          = [o \in NsObj |-> [k \in Counter |-> Absent]]
  /\ events_sent       = NoEvents
  /\ counts_sent       = Silence
  /\ shown             = [c \in Client |-> [k \in Counter |-> None]]

\* Server::add_client.  The version packet that the constructor sends carries no
\* event and no counter.
Accept(c) ==
  /\ c \notin connections
  /\ ~Referenced(c)
  /\ connections' = connections \cup {c}
  /\ events_sent' = NoEvents
  /\ UNCHANGED <<namespaces, space, lists, ns_name, maps>>
  /\ SendCounts(Silence)

\* Mutant: Namespace::remove_client forgets the joined counters.
JoinedKeysNone(c) == {}

\* The joined counters that leave_counter finds in the client's namespace.
JoinedKeys(c) ==
  IF space[c] = None THEN {}
  ELSE {k \in joined_counters[c] : counters[space[c]][k] # Absent}

\* Client::set_namespace: Namespace::remove_client on the old object,
\* get_namespace while the old one is still owned, Namespace::add_client.
SetNamespace(c, nm) ==
  \E o \in NsObj :
    LET old == space[c]
        E   == tracked_events[c]
        T   == tracked_counters[c]
        J   == joined_counters[c]
        cl1 == RemoveFrom(counter_listeners, old, T, c)
        ct1 == RemoveFrom(counters, old, J, c)
        cl2 == AddTo(cl1, o, T, c)
        ct2 == AddTo(ct1, o, J, c)
    IN  /\ c \in connections
        /\ get_namespace(nm, o)
        /\ UNCHANGED <<connections, lists>>
        /\ space'             = [space EXCEPT ![c] = o]
        /\ ns_name'           = [p \in NsObj |-> IF p = o THEN nm
                                  ELSE IF Owned(p) THEN ns_name[p] ELSE None]
        /\ event_listeners'   = Surviving(AddTo(RemoveFrom(event_listeners, old, E, c), o, E, c))
        /\ counter_listeners' = Surviving(cl2)
        /\ counters'          = Surviving(ct2)
        /\ events_sent'       = NoEvents
        /\ SendCounts(Followed(Followed(Broadcast(cl1, ct1, old, JoinedKeys(c)),
                                        Greeting(ct1, o, T, c)),
                               Broadcast(cl2, ct2, o, J)))

\* Mutant: std::find is not asked before push_back.
Unguarded(N, n) == {n}

\* std::find before push_back: a name already in the vector is not added again.
Missing(N, n) == {n} \ N

\* Client::track_event.
TrackEvent(c, e) ==
  /\ c \in connections
  /\ tracked_events' = [tracked_events EXCEPT ![c] = @ \cup {e}]
  /\ event_listeners' = AddTo(event_listeners, space[c], Missing(tracked_events[c], e), c)
  /\ events_sent' = NoEvents
  /\ UNCHANGED <<connections, namespaces, space, tracked_counters, joined_counters,
                 ns_name, counter_listeners, counters>>
  /\ SendCounts(Silence)

\* Client::untrack_event.
UntrackEvent(c, e) ==
  /\ c \in connections
  /\ tracked_events' = [tracked_events EXCEPT ![c] = @ \ {e}]
  /\ event_listeners' = RemoveFrom(event_listeners, space[c], {e} \cap tracked_events[c], c)
  /\ events_sent' = NoEvents
  /\ UNCHANGED <<connections, namespaces, space, tracked_counters, joined_counters,
                 ns_name, counter_listeners, counters>>
  /\ SendCounts(Silence)

\* Client::trigger_event, Namespace::trigger_event.
TriggerEvent(c, e) ==
  /\ c \in connections
  /\ events_sent' = [d \in Client |-> [n \in Event |->
       IF n = e THEN Copies(event_listeners, space[c], n, d) ELSE 0]]
  /\ UNCHANGED <<connections, namespaces, space, lists, ns_name, maps>>
  /\ SendCounts(Silence)

\* Client::track_counter.
TrackCounter(c, k) ==
  LET new == Missing(tracked_counters[c], k)
  IN  /\ c \in connections
      /\ tracked_counters' = [tracked_counters EXCEPT ![c] = @ \cup {k}]
      /\ counter_listeners' = AddTo(counter_listeners, space[c], new, c)
      /\ events_sent' = NoEvents
      /\ UNCHANGED <<connections, namespaces, space, tracked_events, joined_counters,
                     ns_name, event_listeners, counters>>
      /\ SendCounts(Greeting(counters, space[c], new, c))

\* Client::untrack_counter.
UntrackCounter(c, k) ==
  /\ c \in connections
  /\ tracked_counters' = [tracked_counters EXCEPT ![c] = @ \ {k}]
  /\ counter_listeners' = RemoveFrom(counter_listeners, space[c], {k} \cap tracked_counters[c], c)
  /\ events_sent' = NoEvents
  /\ UNCHANGED <<connections, namespaces, space, tracked_events, joined_counters,
                 ns_name, event_listeners, counters>>
  /\ SendCounts(Silence)

\* Client::join_counter.
JoinCounter(c, k) ==
  LET new == Missing(joined_counters[c], k)
      ct  == AddTo(counters, space[c], new, c)
  IN  /\ c \in connections
      /\ joined_counters' = [joined_counters EXCEPT ![c] = @ \cup {k}]
      /\ counters' = ct
      /\ events_sent' = NoEvents
      /\ UNCHANGED <<connections, namespaces, space, tracked_events, tracked_counters,
                     ns_name, event_listeners, counter_listeners>>
      /\ SendCounts(Broadcast(counter_listeners, ct, space[c], new))

\* Client::leave_counter.
LeaveCounter(c, k) ==
  LET ct == RemoveFrom(counters, space[c], {k} \cap joined_counters[c], c)
  IN  /\ c \in connections
      /\ joined_counters' = [joined_counters EXCEPT ![c] = @ \ {k}]
      /\ counters' = ct
      /\ events_sent' = NoEvents
      /\ UNCHANGED <<connections, namespaces, space, tracked_events, tracked_counters,
                     ns_name, event_listeners, counter_listeners>>
      /\ SendCounts(Broadcast(counter_listeners, ct, space[c], {k} \cap JoinedKeys(c)))

\* Server::remove_client, after a DisconnectedException, and ~Client.
Disconnect(c) ==
  LET o  == space[c]
      cl == RemoveFrom(counter_listeners, o, tracked_counters[c], c)
      ct == RemoveFrom(counters, o, joined_counters[c], c)
  IN  /\ c \in connections
      /\ connections' = connections \ {c}
      /\ ClientDestroyed(c)
      /\ ns_name' = [p \in NsObj |-> IF Owned(p) THEN ns_name[p] ELSE None]
      /\ event_listeners' = Surviving(RemoveFrom(event_listeners, o, tracked_events[c], c))
      /\ counter_listeners' = Surviving(cl)
      /\ counters' = Surviving(ct)
      /\ events_sent' = NoEvents
      /\ UNCHANGED namespaces
      /\ SendCounts(Broadcast(cl, ct, o, JoinedKeys(c)))

Next ==
  \E c \in Client :
    \/ Accept(c)
    \/ Disconnect(c)
    \/ \E nm \in NsName : SetNamespace(c, nm)
    \/ \E k \in Counter : \/ TrackCounter(c, k)
                          \/ UntrackCounter(c, k)
                          \/ JoinCounter(c, k)
                          \/ LeaveCounter(c, k)
    \/ \E e \in Event : \/ TrackEvent(c, e)
                        \/ UntrackEvent(c, e)
                        \/ TriggerEvent(c, e)

Spec == Init /\ [][Next]_vars

-----------------------------------------------------------------------------
(***************************************************************************)
(* Properties.                                                             *)
(***************************************************************************)

\* Every variable has its type, and a Client object that is no connection of
\* the server holds no namespace and tracks nothing (Server::remove_client).
TypeOK ==
  /\ connections \subseteq Client
  /\ namespaces \subseteq NsObj
  /\ space \in [Client -> NsObj \cup {None}]
  /\ tracked_events \in [Client -> SUBSET Event]
  /\ tracked_counters \in [Client -> SUBSET Counter]
  /\ joined_counters \in [Client -> SUBSET Counter]
  /\ ns_name \in [NsObj -> NsName \cup {None}]
  /\ event_listeners \in [NsObj -> [Event -> ClientList \cup {Absent}]]
  /\ counter_listeners \in [NsObj -> [Counter -> ClientList \cup {Absent}]]
  /\ counters \in [NsObj -> [Counter -> ClientList \cup {Absent}]]
  /\ events_sent \in [Client -> [Event -> Nat]]
  /\ counts_sent \in [Client -> [Counter -> Seq(Nat)]]
  /\ shown \in [Client -> [Counter -> Nat \cup {None}]]
  /\ \A c \in Client \ connections :
       space[c] = None /\ tracked_events[c] = {} /\ tracked_counters[c] = {}
                       /\ joined_counters[c] = {}

\* The list that holds the clients of S once each, or no key if S is empty.
ListOf(S) ==
  IF S = {} THEN Absent ELSE [c \in Client |-> IF c \in S THEN 1 ELSE 0]

Members(o, choice, n) == {c \in Client : space[c] = o /\ n \in choice[c]}

\* The two copies of every subscription agree: the lists of a Namespace hold a
\* client once if the client is in that namespace and tracks (or joined) the
\* name, and no one else; a list that becomes empty is removed from its map.
\* Each container.erase(itr) of Namespace.cpp relies on it: the loop before it
\* must find the client.
ListsExact ==
  \A o \in NsObj :
    /\ \A e \in Event : event_listeners[o][e] = ListOf(Members(o, tracked_events, e))
    /\ \A k \in Counter :
         /\ counter_listeners[o][k] = ListOf(Members(o, tracked_counters, k))
         /\ counters[o][k] = ListOf(Members(o, joined_counters, k))

\* Two clients that chose the same name share one Namespace object, whatever
\* was created, dropped and found before; a namespace in use is never lost from
\* Server::namespaces.
OneNamespacePerName ==
  \A o, p \in NsObj :
    /\ Live(o) => o \in namespaces /\ ns_name[o] # None
    /\ Live(o) /\ Live(p) /\ ns_name[o] = ns_name[p] => o = p

\* Server::namespaces holds expired entries until a search passes them, but
\* never more entries than there are clients, and one more: the namespace a
\* client leaves is still owned while the one it enters is looked up.
TableBounded == Cardinality(namespaces) <= Cardinality(Client) + 1

\* A client that tracks a counter has been told the number of connected clients
\* of its namespace that joined it, whoever changed it and by whatever handler
\* (join, leave, change of namespace, disconnection).
CountOf(c, k) ==
  Cardinality({d \in connections : space[d] = space[c] /\ k \in joined_counters[d]})

TrackersCurrent ==
  \A c \in connections : \A k \in tracked_counters[c] :
    space[c] # None => shown[c][k] = CountOf(c, k)

\* The abstract service: the name of a client's Namespace object is the scope
\* it is in, and the history variable is what it has been told.
Scope == [c \in Client |-> IF space[c] = None THEN None ELSE ns_name[space[c]]]

Service == INSTANCE Broker WITH
  online <- connections, member <- Scope, listens <- tracked_events,
  watches <- tracked_counters, joined <- joined_counters,
  delivered <- events_sent, told <- shown

\* The server implements the service of module Broker: its objects, pointers and
\* double bookkeeping are not visible to clients.
ImplementsBroker == Service!Spec

=============================================================================
