--------------------------- MODULE WhiteBell_proofs ---------------------------
(***************************************************************************)
(* Theorems about module WhiteBell, and about the server among its         *)
(* clients' programs (module Session), for every value of the constants.   *)
(***************************************************************************)
EXTENDS Session, FiniteSetTheorems, TLAPS

(***************************************************************************)
(* The lists of clients.                                                   *)
(***************************************************************************)

\* ListOf(S) is a list, and push_back and erase on such lists are union and
\* difference: the loop that looks for the client finds it.
LEMMA ListOfType ==
  ASSUME NEW S
  PROVE  ListOf(S) \in ClientList \cup {Absent}
BY DEF ListOf, ClientList

\* push_back of a client that is not in the list.
LEMMA PushBackExact ==
  ASSUME NEW S \in SUBSET Client, NEW c \in Client, c \notin S
  PROVE  push_back(ListOf(S), c) = ListOf(S \cup {c})
<1>1. CASE S = {}
  BY <1>1 DEF push_back, ListOf, NoClients
<1>2. CASE S # {}
  <2> DEFINE l == [d \in Client |-> IF d \in S THEN 1 ELSE 0]
  <2>1. ListOf(S) = l /\ l # Absent
    BY <1>2, AbsentIsNoList DEF ListOf
  <2>2. push_back(ListOf(S), c) = [l EXCEPT ![c] = @ + 1]
    BY <2>1 DEF push_back
  <2> QED BY <1>2, <2>2 DEF ListOf
<1> QED BY <1>1, <1>2

\* The loop of remove_event_listener, remove_counter_listener and leave_counter
\* finds the client, and the key goes with the last of the list.
LEMMA EraseExact ==
  ASSUME NEW S \in SUBSET Client, NEW c \in S
  PROVE  erase(ListOf(S), c) = ListOf(S \ {c})
<1> DEFINE l    == [d \in Client |-> IF d \in S THEN 1 ELSE 0]
           rest == [d \in Client |-> IF d \in S \ {c} THEN 1 ELSE 0]
<1>1. ListOf(S) = l /\ l # Absent /\ l \in [Client -> Nat]
  BY AbsentIsNoList DEF ListOf
<1>2. Found(l, c) = c
  BY DEF Found
<1>3. [l EXCEPT ![Found(l, c)] = @ - 1] = rest
  BY <1>2
<1>4. erase(ListOf(S), c) = IF rest = NoClients THEN Absent ELSE rest
  BY <1>1, <1>3 DEF erase
<1>5. rest = NoClients <=> S \ {c} = {}
  BY DEF NoClients
<1> QED
  BY <1>4, <1>5 DEF ListOf

(***************************************************************************)
(* One of the maps of the Namespaces, with the client's side of it: the    *)
(* namespace of each client (s) and the names it chose (ch).               *)
(***************************************************************************)
In(s, ch, p, n) == {c \in Client : s[c] = p /\ n \in ch[c]}

Exact(m, N, s, ch) ==
  /\ m \in [NsObj -> [N -> ClientList \cup {Absent}]]
  /\ \A p \in NsObj, n \in N : m[p][n] = ListOf(In(s, ch, p, n))

\* ListsExact speaks of the three maps separately.
LEMMA ListsExactIsExact ==
  ASSUME TypeOK
  PROVE  ListsExact <=> /\ Exact(event_listeners, Event, space, tracked_events)
                        /\ Exact(counter_listeners, Counter, space, tracked_counters)
                        /\ Exact(counters, Counter, space, joined_counters)
BY DEF TypeOK, ListsExact, Exact, Members, In

Spaces == [Client -> NsObj \cup {None}]

\* A map of lists is exact if each of its lists is.
LEMMA ExactByCells ==
  ASSUME NEW r, NEW N, NEW s, NEW ch,
         r = [p \in NsObj |-> [n \in N |-> ListOf(In(s, ch, p, n))]]
  PROVE  Exact(r, N, s, ch)
<1>1. ASSUME NEW p \in NsObj, NEW n \in N
      PROVE  ListOf(In(s, ch, p, n)) \in ClientList \cup {Absent}
  BY ListOfType
<1>2. \A p \in NsObj : [n \in N |-> ListOf(In(s, ch, p, n))] \in [N -> ClientList \cup {Absent}]
  BY <1>1
<1>3. r \in [NsObj -> [N -> ClientList \cup {Absent}]]
  BY <1>2
<1>4. \A p \in NsObj, n \in N : r[p][n] = ListOf(In(s, ch, p, n))
  OBVIOUS
<1> QED BY <1>3, <1>4 DEF Exact

\* Namespace::remove_client: the client leaves every list of its namespace.
LEMMA RemoveClientExact ==
  ASSUME NEW m, NEW N, NEW s \in Spaces, NEW ch \in [Client -> SUBSET N],
         NEW c \in Client, Exact(m, N, s, ch)
  PROVE  Exact(RemoveFrom(m, s[c], ch[c], c), N, [s EXCEPT ![c] = None], ch)
<1> DEFINE r == RemoveFrom(m, s[c], ch[c], c)
           t == [s EXCEPT ![c] = None]
<1>1. ASSUME NEW p \in NsObj, NEW n \in N
      PROVE  r[p][n] = ListOf(In(t, ch, p, n))
  <2>1. r[p][n] = IF p = s[c] /\ n \in ch[c] THEN erase(m[p][n], c) ELSE m[p][n]
    BY DEF RemoveFrom, Exact
  <2>2. CASE p = s[c] /\ n \in ch[c]
    <3>1. c \in In(s, ch, p, n) /\ In(s, ch, p, n) \in SUBSET Client
      BY <2>2 DEF In
    <3>2. In(t, ch, p, n) = In(s, ch, p, n) \ {c}
      BY <2>2, NullIsNoObject DEF In, Spaces
    <3> QED BY <2>1, <2>2, <3>1, <3>2, EraseExact DEF Exact
  <2>3. CASE ~(p = s[c] /\ n \in ch[c])
    <3>1. In(t, ch, p, n) = In(s, ch, p, n)
      BY <2>3, NullIsNoObject DEF In, Spaces
    <3> QED BY <2>1, <2>3, <3>1 DEF Exact
  <2> QED BY <2>2, <2>3
<1>2. r = [p \in NsObj |-> [i \in N |-> r[p][i]]]
  BY DEF RemoveFrom, Exact
<1> HIDE DEF r, t
<1>3. r = [p \in NsObj |-> [i \in N |-> ListOf(In(t, ch, p, i))]]
  BY <1>1, <1>2
<1>4. Exact(r, N, t, ch)
  BY <1>3, ExactByCells
<1> QED BY <1>4 DEF r, t

\* Namespace::add_client: a client that is in no namespace enters object o.
LEMMA AddClientExact ==
  ASSUME NEW m, NEW N, NEW s \in Spaces, NEW ch \in [Client -> SUBSET N],
         NEW c \in Client, NEW o \in NsObj, s[c] = None, Exact(m, N, s, ch)
  PROVE  Exact(AddTo(m, o, ch[c], c), N, [s EXCEPT ![c] = o], ch)
<1> DEFINE r == AddTo(m, o, ch[c], c)
           t == [s EXCEPT ![c] = o]
<1>1. ASSUME NEW p \in NsObj, NEW n \in N
      PROVE  r[p][n] = ListOf(In(t, ch, p, n))
  <2>1. r[p][n] = IF p = o /\ n \in ch[c] THEN push_back(m[p][n], c) ELSE m[p][n]
    BY DEF AddTo, Exact
  <2>2. c \notin In(s, ch, p, n) /\ In(s, ch, p, n) \in SUBSET Client
    BY NullIsNoObject DEF In
  <2>3. CASE p = o /\ n \in ch[c]
    <3>1. In(t, ch, p, n) = In(s, ch, p, n) \cup {c}
      BY <2>3, NullIsNoObject DEF In, Spaces
    <3> QED BY <2>1, <2>2, <2>3, <3>1, PushBackExact DEF Exact
  <2>4. CASE ~(p = o /\ n \in ch[c])
    <3>1. In(t, ch, p, n) = In(s, ch, p, n)
      BY <2>4, NullIsNoObject DEF In, Spaces
    <3> QED BY <2>1, <2>4, <3>1 DEF Exact
  <2> QED BY <2>3, <2>4
<1>2. r = [p \in NsObj |-> [i \in N |-> r[p][i]]]
  BY DEF AddTo, Exact
<1> HIDE DEF r, t
<1>3. r = [p \in NsObj |-> [i \in N |-> ListOf(In(t, ch, p, i))]]
  BY <1>1, <1>2
<1>4. Exact(r, N, t, ch)
  BY <1>3, ExactByCells
<1> QED BY <1>4 DEF r, t

\* One name is added: the client's own vector and the list of its namespace.
LEMMA AddNameExact ==
  ASSUME NEW m, NEW N, NEW s \in Spaces, NEW ch \in [Client -> SUBSET N],
         NEW c \in Client, NEW n \in N, Exact(m, N, s, ch)
  PROVE  Exact(AddTo(m, s[c], Missing(ch[c], n), c), N, s,
               [ch EXCEPT ![c] = @ \cup {n}])
<1> DEFINE r  == AddTo(m, s[c], Missing(ch[c], n), c)
           cg == [ch EXCEPT ![c] = @ \cup {n}]
<1>1. ASSUME NEW p \in NsObj, NEW i \in N
      PROVE  r[p][i] = ListOf(In(s, cg, p, i))
  <2>1. r[p][i] = IF p = s[c] /\ i \in Missing(ch[c], n)
                  THEN push_back(m[p][i], c) ELSE m[p][i]
    BY DEF AddTo, Exact
  <2>2. CASE p = s[c] /\ i \in Missing(ch[c], n)
    <3>1. c \notin In(s, ch, p, i) /\ In(s, ch, p, i) \in SUBSET Client
      BY <2>2 DEF In, Missing
    <3>2. In(s, cg, p, i) = In(s, ch, p, i) \cup {c}
      BY <2>2 DEF In, Missing
    <3> QED BY <2>1, <2>2, <3>1, <3>2, PushBackExact DEF Exact
  <2>3. CASE ~(p = s[c] /\ i \in Missing(ch[c], n))
    <3>1. In(s, cg, p, i) = In(s, ch, p, i)
      BY <2>3 DEF In, Missing
    <3> QED BY <2>1, <2>3, <3>1 DEF Exact
  <2> QED BY <2>2, <2>3
<1>2. r = [p \in NsObj |-> [i \in N |-> r[p][i]]]
  BY DEF AddTo, Exact
<1> HIDE DEF r, cg
<1>3. r = [p \in NsObj |-> [i \in N |-> ListOf(In(s, cg, p, i))]]
  BY <1>1, <1>2
<1>4. Exact(r, N, s, cg)
  BY <1>3, ExactByCells
<1> QED BY <1>4 DEF r, cg

\* One name is removed from both.
LEMMA RemoveNameExact ==
  ASSUME NEW m, NEW N, NEW s \in Spaces, NEW ch \in [Client -> SUBSET N],
         NEW c \in Client, NEW n \in N, Exact(m, N, s, ch)
  PROVE  Exact(RemoveFrom(m, s[c], {n} \cap ch[c], c), N, s,
               [ch EXCEPT ![c] = @ \ {n}])
<1> DEFINE r  == RemoveFrom(m, s[c], {n} \cap ch[c], c)
           cg == [ch EXCEPT ![c] = @ \ {n}]
<1>1. ASSUME NEW p \in NsObj, NEW i \in N
      PROVE  r[p][i] = ListOf(In(s, cg, p, i))
  <2>1. r[p][i] = IF p = s[c] /\ i \in {n} \cap ch[c]
                  THEN erase(m[p][i], c) ELSE m[p][i]
    BY DEF RemoveFrom, Exact
  <2>2. CASE p = s[c] /\ i \in {n} \cap ch[c]
    <3>1. c \in In(s, ch, p, i) /\ In(s, ch, p, i) \in SUBSET Client
      BY <2>2 DEF In
    <3>2. In(s, cg, p, i) = In(s, ch, p, i) \ {c}
      BY <2>2 DEF In
    <3> QED BY <2>1, <2>2, <3>1, <3>2, EraseExact DEF Exact
  <2>3. CASE ~(p = s[c] /\ i \in {n} \cap ch[c])
    <3>1. In(s, cg, p, i) = In(s, ch, p, i)
      BY <2>3 DEF In
    <3> QED BY <2>1, <2>3, <3>1 DEF Exact
  <2> QED BY <2>2, <2>3
<1>2. r = [p \in NsObj |-> [i \in N |-> r[p][i]]]
  BY DEF RemoveFrom, Exact
<1> HIDE DEF r, cg
<1>3. r = [p \in NsObj |-> [i \in N |-> ListOf(In(s, cg, p, i))]]
  BY <1>1, <1>2
<1>4. Exact(r, N, s, cg)
  BY <1>3, ExactByCells
<1> QED BY <1>4 DEF r, cg

\* A client in no namespace may change its own vectors without a trace.
LEMMA OutsiderExact ==
  ASSUME NEW m, NEW N, NEW s \in Spaces, NEW ch \in [Client -> SUBSET N],
         NEW c \in Client, NEW S \in SUBSET N, s[c] = None, Exact(m, N, s, ch)
  PROVE  Exact(m, N, s, [ch EXCEPT ![c] = S])
<1>1. ASSUME NEW p \in NsObj, NEW n \in N
      PROVE  In(s, [ch EXCEPT ![c] = S], p, n) = In(s, ch, p, n)
  BY NullIsNoObject DEF In
<1> QED BY <1>1 DEF Exact

\* The destructor of a Namespace finds its maps empty: the last owner removed
\* itself from every list before it dropped the object.
LEMMA SurvivingExact ==
  ASSUME NEW m, NEW N, NEW ch, Exact(m, N, space', ch),
         \A d \in Client \ connections' : space'[d] = None
  PROVE  Surviving(m) = m
<1>1. ASSUME NEW p \in NsObj, ~Owned(p), NEW n \in N
      PROVE  m[p][n] = Absent
  <2>1. In(space', ch, p, n) = {}
    BY <1>1, NullIsNoObject DEF In, Owned
  <2> QED BY <2>1 DEF Exact, ListOf
<1>2. ASSUME NEW p \in NsObj
      PROVE  Surviving(m)[p] = m[p]
  <2>1. m[p] \in [N -> ClientList \cup {Absent}]
    BY DEF Exact
  <2>2. CASE Owned(p)
    BY <2>2 DEF Surviving
  <2>3. CASE ~Owned(p)
    BY <2>1, <2>3, <1>1 DEF Surviving
  <2> QED BY <2>2, <2>3
<1> QED BY <1>2 DEF Surviving, Exact

(***************************************************************************)
(* Sizes of lists, and packets.                                            *)
(***************************************************************************)

\* A list has finitely many entries.
LEMMA SizeType ==
  ASSUME NEW l \in ClientList \cup {Absent}
  PROVE  size(l) \in Nat
<1>1. CASE l = Absent
  BY <1>1 DEF size
<1>2. CASE l # Absent
  <2> DEFINE Entries(d) == {d} \X (1..l[d])
             f == [d \in Client |-> Entries(d)]
             E == {Entries(d) : d \in Client}
  <2>1. f \in Surjection(Client, E)
    BY DEF Surjection
  <2>2. IsFiniteSet(E)
    BY <2>1, ClientsFinite, FS_Surjection
  <2>3. ASSUME NEW d \in Client PROVE IsFiniteSet(Entries(d))
    <3>1. l[d] \in Nat
      BY <1>2 DEF ClientList
    <3>2. IsFiniteSet({d})
      BY FS_Singleton
    <3>3. 1 \in Int /\ l[d] \in Int
      BY <3>1
    <3>4. IsFiniteSet(1..l[d])
      BY <3>3, FS_Interval
    <3> QED BY <3>2, <3>4, FS_Product
  <2>4. IsFiniteSet(UNION E)
    BY <2>2, <2>3, FS_UNION
  <2>5. size(l) = Cardinality(UNION E)
    BY <1>2 DEF size
  <2> QED BY <2>4, <2>5, FS_CardinalityType
<1> QED BY <1>1, <1>2

Packets == [Client -> [Counter -> Seq(Nat)]]

Counts(m) == m \in [NsObj -> [Counter -> ClientList \cup {Absent}]]

\* The number of packets a listener gets is a number.
LEMMA CopiesType ==
  ASSUME NEW N, NEW m \in [NsObj -> [N -> ClientList \cup {Absent}]],
         NEW o \in NsObj \cup {None}, NEW n \in N, NEW d \in Client
  PROVE  Copies(m, o, n, d) \in Nat
BY DEF Copies, ClientList

\* The same value sent n times.
LEMMA ConstantSequence ==
  ASSUME NEW n \in Nat, NEW v \in Nat
  PROVE  [i \in 1..n |-> v] \in Seq(Nat)
OBVIOUS

\* A handler that sends no counter.
LEMMA SilenceType == Silence \in Packets
BY DEF Silence, Packets

\* Namespace::trigger_counter_event sends numbers.
LEMMA BroadcastType ==
  ASSUME NEW cl, NEW ct, Counts(cl), Counts(ct), NEW o \in NsObj \cup {None}, NEW K
  PROVE  Broadcast(cl, ct, o, K) \in Packets
<1>1. ASSUME NEW d \in Client, NEW k \in Counter, k \in K
      PROVE  [i \in 1..Copies(cl, o, k, d) |-> size(ct[o][k])] \in Seq(Nat)
  <2>1. Copies(cl, o, k, d) \in Nat
    BY CopiesType DEF Counts
  <2>2. CASE o = None
    BY <2>2 DEF Copies
  <2>3. CASE o # None
    <3>1. size(ct[o][k]) \in Nat
      BY <2>3, SizeType DEF Counts
    <3> QED BY <2>1, <3>1, ConstantSequence
  <2> QED BY <2>2, <2>3
<1> QED BY <1>1 DEF Broadcast, Packets

\* Namespace::add_counter_listener sends a number.
LEMMA GreetingType ==
  ASSUME NEW ct, Counts(ct), NEW o \in NsObj \cup {None}, NEW K, NEW c \in Client
  PROVE  Greeting(ct, o, K, c) \in Packets
<1>1. ASSUME NEW k \in Counter, o # None
      PROVE  <<size(ct[o][k])>> \in Seq(Nat)
  <2>1. size(ct[o][k]) \in Nat
    BY <1>1, SizeType DEF Counts
  <2> QED BY <2>1
<1> QED BY <1>1 DEF Greeting, Packets

\* Two groups of packets in a row.
LEMMA FollowedType ==
  ASSUME NEW a \in Packets, NEW b \in Packets
  PROVE  Followed(a, b) \in Packets
BY DEF Followed, Packets

\* What a client was last told of a counter is a number, or nothing yet.
LEMMA SendCountsType ==
  ASSUME NEW sent \in Packets, TypeOK, SendCounts(sent)
  PROVE  /\ counts_sent' \in [Client -> [Counter -> Seq(Nat)]]
         /\ shown' \in [Client -> [Counter -> Nat \cup {None}]]
<1>1. ASSUME NEW d \in Client, NEW k \in Counter, sent[d][k] # <<>>
      PROVE  sent[d][k][Len(sent[d][k])] \in Nat
  BY <1>1 DEF Packets
<1>2. \A d \in Client, k \in Counter : shown[d][k] \in Nat \cup {None}
  BY DEF TypeOK
<1> QED BY <1>1, <1>2 DEF SendCounts, Packets

(***************************************************************************)
(* The inductive invariant, and one lemma per handler.                     *)
(***************************************************************************)
Inv == TypeOK /\ ListsExact

\* What the clients' side of a state must satisfy.
ClientsOK ==
  /\ connections \subseteq Client
  /\ namespaces \subseteq NsObj
  /\ space \in Spaces
  /\ tracked_events \in [Client -> SUBSET Event]
  /\ tracked_counters \in [Client -> SUBSET Counter]
  /\ joined_counters \in [Client -> SUBSET Counter]
  /\ ns_name \in [NsObj -> NsName \cup {None}]
  /\ \A c \in Client \ connections :
       space[c] = None /\ tracked_events[c] = {} /\ tracked_counters[c] = {}
                       /\ joined_counters[c] = {}

MapsExact ==
  /\ Exact(event_listeners, Event, space, tracked_events)
  /\ Exact(counter_listeners, Counter, space, tracked_counters)
  /\ Exact(counters, Counter, space, joined_counters)

PacketsOK ==
  /\ events_sent \in [Client -> [Event -> Nat]]
  /\ counts_sent \in [Client -> [Counter -> Seq(Nat)]]
  /\ shown \in [Client -> [Counter -> Nat \cup {None}]]

\* The invariant, regrouped: the clients' side, the maps, the packets.
LEMMA InvParts == Inv <=> ClientsOK /\ MapsExact /\ PacketsOK
BY DEF Inv, TypeOK, ListsExact, ClientsOK, MapsExact, PacketsOK, Exact, In, Members, Spaces

\* The types of the three maps.
LEMMA InvMaps ==
  ASSUME Inv
  PROVE  /\ event_listeners \in [NsObj -> [Event -> ClientList \cup {Absent}]]
         /\ Counts(counter_listeners) /\ Counts(counters)
BY DEF Inv, TypeOK, Counts

\* A handler that sends no event.
LEMMA NoEventsType == NoEvents \in [Client -> [Event -> Nat]]
BY DEF NoEvents

\* Packets of the right type keep the packets' part of the invariant.
LEMMA PacketsStep ==
  ASSUME Inv, NEW sent \in Packets, SendCounts(sent),
         events_sent' \in [Client -> [Event -> Nat]]
  PROVE  PacketsOK'
BY SendCountsType DEF PacketsOK, Inv

\* The server starts in a state of the invariant.
LEMMA InitInv == Init => Inv
<1> SUFFICES ASSUME Init PROVE Inv
  OBVIOUS
<1>1. ClientsOK
  BY DEF Init, ClientsOK, Spaces
<1>2. \A p, n, ch : In(space, ch, p, n) = {} \/ p = None
  BY DEF Init, In
<1>3. MapsExact
  BY <1>2, NullIsNoObject DEF Init, MapsExact, Exact, ListOf
<1>4. PacketsOK
  BY NoEventsType, SilenceType DEF Init, PacketsOK, Packets
<1> QED BY <1>1, <1>3, <1>4, InvParts

\* Server::add_client keeps it.
LEMMA AcceptInv ==
  ASSUME Inv, NEW c \in Client, Accept(c)
  PROVE  Inv'
<1>1. ClientsOK /\ MapsExact
  BY InvParts
<1>2. ClientsOK'
  BY <1>1 DEF Accept, ClientsOK, lists
<1>3. MapsExact'
  BY <1>1 DEF Accept, MapsExact, Exact, In, lists, maps
<1>4. PacketsOK'
  BY PacketsStep, SilenceType, NoEventsType DEF Accept
<1> QED BY <1>2, <1>3, <1>4, InvParts, PTL

\* Client::set_namespace keeps it: the client leaves every list of its old object
\* before it enters the lists of the new one, which may be the same object.
LEMMA SetNamespaceInv ==
  ASSUME Inv, NEW c \in Client, NEW nm \in NsName, SetNamespace(c, nm)
  PROVE  Inv'
<1> DEFINE old == space[c]
           E   == tracked_events[c]
           T   == tracked_counters[c]
           J   == joined_counters[c]
           out == [space EXCEPT ![c] = None]
           cl1 == RemoveFrom(counter_listeners, old, T, c)
           ct1 == RemoveFrom(counters, old, J, c)
           ev1 == RemoveFrom(event_listeners, old, E, c)
<1>1. PICK o \in NsObj :
        /\ c \in connections
        /\ get_namespace(nm, o)
        /\ UNCHANGED <<connections, lists>>
        /\ space' = [space EXCEPT ![c] = o]
        /\ ns_name' = [p \in NsObj |-> IF p = o THEN nm
                        ELSE IF Owned(p) THEN ns_name[p] ELSE None]
        /\ event_listeners' = Surviving(AddTo(ev1, o, E, c))
        /\ counter_listeners' = Surviving(AddTo(cl1, o, T, c))
        /\ counters' = Surviving(AddTo(ct1, o, J, c))
        /\ events_sent' = NoEvents
        /\ SendCounts(Followed(Followed(Broadcast(cl1, ct1, old, JoinedKeys(c)),
                                        Greeting(ct1, o, T, c)),
                               Broadcast(AddTo(cl1, o, T, c), AddTo(ct1, o, J, c), o, J)))
  BY DEF SetNamespace
<1>2. ClientsOK /\ MapsExact
  BY InvParts
<1>3. ClientsOK'
  <2>1. namespaces' \subseteq NsObj
    BY <1>1, <1>2 DEF get_namespace, Kept, ClientsOK
  <2>2. ns_name' \in [NsObj -> NsName \cup {None}]
    BY <1>1, <1>2 DEF ClientsOK
  <2> QED BY <1>1, <1>2, <2>1, <2>2 DEF ClientsOK, Spaces, lists
<1>4. /\ out \in Spaces /\ out[c] = None /\ [out EXCEPT ![c] = o] = space'
      /\ \A d \in Client \ connections' : space'[d] = None
      /\ tracked_events' = tracked_events /\ tracked_counters' = tracked_counters
      /\ joined_counters' = joined_counters
  BY <1>1, <1>2 DEF ClientsOK, Spaces, lists
<1>5. /\ Exact(ev1, Event, out, tracked_events)
      /\ Exact(cl1, Counter, out, tracked_counters)
      /\ Exact(ct1, Counter, out, joined_counters)
  BY <1>2, RemoveClientExact DEF MapsExact, ClientsOK
<1>6. /\ Exact(AddTo(ev1, o, E, c), Event, space', tracked_events)
      /\ Exact(AddTo(cl1, o, T, c), Counter, space', tracked_counters)
      /\ Exact(AddTo(ct1, o, J, c), Counter, space', joined_counters)
  <2> HIDE DEF out, ev1, cl1, ct1
  <2> QED BY <1>2, <1>4, <1>5, AddClientExact DEF ClientsOK
<1>7. MapsExact'
  BY <1>1, <1>4, <1>6, SurvivingExact DEF MapsExact
<1>8. PacketsOK'
  <2>1. Counts(cl1) /\ Counts(ct1) /\ Counts(AddTo(cl1, o, T, c)) /\ Counts(AddTo(ct1, o, J, c))
    BY <1>5, <1>6 DEF Counts, Exact
  <2>2. old \in NsObj \cup {None}
    BY <1>2 DEF ClientsOK, Spaces
  <2>3. /\ Broadcast(cl1, ct1, old, JoinedKeys(c)) \in Packets
        /\ Greeting(ct1, o, T, c) \in Packets
        /\ Broadcast(AddTo(cl1, o, T, c), AddTo(ct1, o, J, c), o, J) \in Packets
    BY <2>1, <2>2, BroadcastType, GreetingType
  <2>4. Followed(Followed(Broadcast(cl1, ct1, old, JoinedKeys(c)), Greeting(ct1, o, T, c)),
                 Broadcast(AddTo(cl1, o, T, c), AddTo(ct1, o, J, c), o, J)) \in Packets
    BY <2>3, FollowedType
  <2> QED BY <1>1, <2>4, PacketsStep, NoEventsType
<1> QED BY <1>3, <1>7, <1>8, InvParts, PTL

\* Client::track_event on an invariant state leads to an invariant state.
LEMMA TrackEventInv ==
  ASSUME Inv, NEW c \in Client, NEW e \in Event, TrackEvent(c, e)
  PROVE  Inv'
<1>1. ClientsOK /\ MapsExact
  BY InvParts
<1>2. ClientsOK'
  BY <1>1 DEF TrackEvent, ClientsOK
<1>3. MapsExact'
  BY <1>1, AddNameExact DEF TrackEvent, MapsExact, ClientsOK
<1>4. PacketsOK'
  BY PacketsStep, SilenceType, NoEventsType DEF TrackEvent
<1> QED BY <1>2, <1>3, <1>4, InvParts, PTL

\* Client::untrack_event does too.
LEMMA UntrackEventInv ==
  ASSUME Inv, NEW c \in Client, NEW e \in Event, UntrackEvent(c, e)
  PROVE  Inv'
<1>1. ClientsOK /\ MapsExact
  BY InvParts
<1>2. ClientsOK'
  BY <1>1 DEF UntrackEvent, ClientsOK
<1>3. MapsExact'
  BY <1>1, RemoveNameExact DEF UntrackEvent, MapsExact, ClientsOK
<1>4. PacketsOK'
  BY PacketsStep, SilenceType, NoEventsType DEF UntrackEvent
<1> QED BY <1>2, <1>3, <1>4, InvParts, PTL

\* Client::trigger_event changes no list and sends a number of copies.
LEMMA TriggerEventInv ==
  ASSUME Inv, NEW c \in Client, NEW e \in Event, TriggerEvent(c, e)
  PROVE  Inv'
<1>1. ClientsOK /\ MapsExact
  BY InvParts
<1>2. ClientsOK' /\ MapsExact'
  BY <1>1 DEF TriggerEvent, ClientsOK, MapsExact, Exact, In, lists, maps
<1>3. \A n \in Event, d \in Client : Copies(event_listeners, space[c], n, d) \in Nat
  <2>1. space[c] \in NsObj \cup {None}
    BY <1>1 DEF ClientsOK, Spaces
  <2> QED BY <2>1, CopiesType, InvMaps
<1>4. events_sent' \in [Client -> [Event -> Nat]]
  BY <1>3 DEF TriggerEvent
<1>5. PacketsOK'
  BY <1>4, PacketsStep, SilenceType DEF TriggerEvent
<1> QED BY <1>2, <1>5, InvParts, PTL

\* Client::track_counter, which also greets the client with a value.
LEMMA TrackCounterInv ==
  ASSUME Inv, NEW c \in Client, NEW k \in Counter, TrackCounter(c, k)
  PROVE  Inv'
<1>1. ClientsOK /\ MapsExact
  BY InvParts
<1>2. ClientsOK'
  BY <1>1 DEF TrackCounter, ClientsOK
<1>3. MapsExact'
  BY <1>1, AddNameExact DEF TrackCounter, MapsExact, ClientsOK
<1>4. Greeting(counters, space[c], Missing(tracked_counters[c], k), c) \in Packets
  <2>1. space[c] \in NsObj \cup {None}
    BY <1>1 DEF ClientsOK, Spaces
  <2> QED BY <2>1, InvMaps, GreetingType
<1>5. PacketsOK'
  BY <1>4, PacketsStep, NoEventsType DEF TrackCounter
<1> QED BY <1>2, <1>3, <1>5, InvParts, PTL

\* Client::untrack_counter.
LEMMA UntrackCounterInv ==
  ASSUME Inv, NEW c \in Client, NEW k \in Counter, UntrackCounter(c, k)
  PROVE  Inv'
<1>1. ClientsOK /\ MapsExact
  BY InvParts
<1>2. ClientsOK'
  BY <1>1 DEF UntrackCounter, ClientsOK
<1>3. MapsExact'
  BY <1>1, RemoveNameExact DEF UntrackCounter, MapsExact, ClientsOK
<1>4. PacketsOK'
  BY PacketsStep, SilenceType, NoEventsType DEF UntrackCounter
<1> QED BY <1>2, <1>3, <1>4, InvParts, PTL

\* Client::join_counter: the list grows by the client, and its length is told.
LEMMA JoinCounterInv ==
  ASSUME Inv, NEW c \in Client, NEW k \in Counter, JoinCounter(c, k)
  PROVE  Inv'
<1> DEFINE ct == AddTo(counters, space[c], Missing(joined_counters[c], k), c)
<1>1. ClientsOK /\ MapsExact
  BY InvParts
<1>2. ClientsOK'
  BY <1>1 DEF JoinCounter, ClientsOK
<1>3. Exact(ct, Counter, space, [joined_counters EXCEPT ![c] = @ \cup {k}])
  BY <1>1, AddNameExact DEF MapsExact, ClientsOK
<1>4. MapsExact'
  BY <1>1, <1>3 DEF JoinCounter, MapsExact
<1>5. Broadcast(counter_listeners, ct, space[c], Missing(joined_counters[c], k)) \in Packets
  <2>1. space[c] \in NsObj \cup {None}
    BY <1>1 DEF ClientsOK, Spaces
  <2>2. Counts(ct)
    BY <1>3 DEF Exact, Counts
  <2> QED BY <2>1, <2>2, InvMaps, BroadcastType
<1>6. PacketsOK'
  BY <1>5, PacketsStep, NoEventsType DEF JoinCounter
<1> QED BY <1>2, <1>4, <1>6, InvParts, PTL

\* Client::leave_counter.
LEMMA LeaveCounterInv ==
  ASSUME Inv, NEW c \in Client, NEW k \in Counter, LeaveCounter(c, k)
  PROVE  Inv'
<1> DEFINE ct == RemoveFrom(counters, space[c], {k} \cap joined_counters[c], c)
<1>1. ClientsOK /\ MapsExact
  BY InvParts
<1>2. ClientsOK'
  BY <1>1 DEF LeaveCounter, ClientsOK
<1>3. Exact(ct, Counter, space, [joined_counters EXCEPT ![c] = @ \ {k}])
  BY <1>1, RemoveNameExact DEF MapsExact, ClientsOK
<1>4. MapsExact'
  BY <1>1, <1>3 DEF LeaveCounter, MapsExact
<1>5. Broadcast(counter_listeners, ct, space[c], {k} \cap JoinedKeys(c)) \in Packets
  <2>1. space[c] \in NsObj \cup {None}
    BY <1>1 DEF ClientsOK, Spaces
  <2>2. Counts(ct)
    BY <1>3 DEF Exact, Counts
  <2> QED BY <2>1, <2>2, InvMaps, BroadcastType
<1>6. PacketsOK'
  BY <1>5, PacketsStep, NoEventsType DEF LeaveCounter
<1> QED BY <1>2, <1>4, <1>6, InvParts, PTL

\* Server::remove_client: the client leaves the lists, then its object and its
\* vectors are gone.
LEMMA DisconnectInv ==
  ASSUME Inv, NEW c \in Client, Disconnect(c)
  PROVE  Inv'
<1> DEFINE o   == space[c]
           out == [space EXCEPT ![c] = None]
           ev  == RemoveFrom(event_listeners, o, tracked_events[c], c)
           cl  == RemoveFrom(counter_listeners, o, tracked_counters[c], c)
           ct  == RemoveFrom(counters, o, joined_counters[c], c)
<1>1. ClientsOK /\ MapsExact
  BY InvParts
<1>2. ClientsOK'
  <2>1. ns_name' \in [NsObj -> NsName \cup {None}]
    BY <1>1 DEF Disconnect, ClientsOK
  <2> QED BY <1>1, <2>1 DEF Disconnect, ClientDestroyed, ClientsOK, Spaces
<1>3. /\ Exact(ev, Event, out, tracked_events)
      /\ Exact(cl, Counter, out, tracked_counters)
      /\ Exact(ct, Counter, out, joined_counters)
  BY <1>1, RemoveClientExact DEF MapsExact, ClientsOK
<1>4. /\ out \in Spaces /\ out[c] = None /\ out = space'
      /\ \A d \in Client \ connections' : space'[d] = None
  BY <1>1, <1>2 DEF ClientsOK, Spaces, Disconnect, ClientDestroyed
<1>5. /\ Exact(ev, Event, space', tracked_events')
      /\ Exact(cl, Counter, space', tracked_counters')
      /\ Exact(ct, Counter, space', joined_counters')
  <2> HIDE DEF out, ev, cl, ct
  <2>1. /\ tracked_events \in [Client -> SUBSET Event]
        /\ tracked_counters \in [Client -> SUBSET Counter]
        /\ joined_counters \in [Client -> SUBSET Counter]
    BY <1>1 DEF ClientsOK
  <2>2. Exact(ev, Event, out, [tracked_events EXCEPT ![c] = {}])
    BY <1>3, <1>4, <2>1, OutsiderExact
  <2>3. Exact(cl, Counter, out, [tracked_counters EXCEPT ![c] = {}])
    BY <1>3, <1>4, <2>1, OutsiderExact
  <2>4. Exact(ct, Counter, out, [joined_counters EXCEPT ![c] = {}])
    BY <1>3, <1>4, <2>1, OutsiderExact
  <2> QED BY <1>4, <2>2, <2>3, <2>4 DEF Disconnect, ClientDestroyed
<1>6. MapsExact'
  BY <1>4, <1>5, SurvivingExact DEF MapsExact, Disconnect
<1>7. Broadcast(cl, ct, o, JoinedKeys(c)) \in Packets
  <2>1. o \in NsObj \cup {None}
    BY <1>1 DEF ClientsOK, Spaces
  <2>2. Counts(cl) /\ Counts(ct)
    BY <1>3 DEF Exact, Counts
  <2> QED BY <2>1, <2>2, BroadcastType
<1>8. PacketsOK'
  BY <1>7, PacketsStep, NoEventsType DEF Disconnect
<1> QED BY <1>2, <1>6, <1>8, InvParts, PTL

\* The invariant is inductive.
LEMMA NextInv == Inv /\ [Next]_vars => Inv'
<1> SUFFICES ASSUME Inv, [Next]_vars PROVE Inv'
  OBVIOUS
<1>1. ASSUME NEW c \in Client, Accept(c) PROVE Inv'
  BY <1>1, AcceptInv
<1>2. ASSUME NEW c \in Client, Disconnect(c) PROVE Inv'
  BY <1>2, DisconnectInv
<1>3. ASSUME NEW c \in Client, NEW nm \in NsName, SetNamespace(c, nm) PROVE Inv'
  BY <1>3, SetNamespaceInv
<1>4. ASSUME NEW c \in Client, NEW e \in Event,
             TrackEvent(c, e) \/ UntrackEvent(c, e) \/ TriggerEvent(c, e)
      PROVE  Inv'
  BY <1>4, TrackEventInv, UntrackEventInv, TriggerEventInv
<1>5. ASSUME NEW c \in Client, NEW k \in Counter,
             \/ TrackCounter(c, k) \/ UntrackCounter(c, k)
             \/ JoinCounter(c, k) \/ LeaveCounter(c, k)
      PROVE  Inv'
  BY <1>5, TrackCounterInv, UntrackCounterInv, JoinCounterInv, LeaveCounterInv
<1>6. CASE UNCHANGED vars
  <2>1. ClientsOK /\ MapsExact /\ PacketsOK
    BY InvParts
  <2>2. ClientsOK' /\ MapsExact' /\ PacketsOK'
    <3>1. ClientsOK'
      BY <2>1, <1>6 DEF vars, lists, ClientsOK
    <3>2. MapsExact'
      BY <2>1, <1>6 DEF vars, lists, maps, MapsExact, Exact, In
    <3>3. PacketsOK'
      BY <2>1, <1>6 DEF vars, PacketsOK
    <3> QED BY <3>1, <3>2, <3>3
  <2> QED BY <2>2, InvParts, PTL
<1> QED BY <1>1, <1>2, <1>3, <1>4, <1>5, <1>6 DEF Next

\* Every variable has its type, and what is no connection holds nothing.
THEOREM TypeCorrect == Spec => []TypeOK
<1>1. Inv => TypeOK
  BY DEF Inv
<1> QED BY <1>1, InitInv, NextInv, PTL DEF Spec

\* The loops of Namespace.cpp that look for a client always find it: the lists
\* of the namespaces agree with the vectors of the clients.
THEOREM ListsAgree == Spec => []ListsExact
<1>1. Inv => ListsExact
  BY DEF Inv
<1> QED BY <1>1, InitInv, NextInv, PTL DEF Spec

(***************************************************************************)
(* One Namespace object per name.                                          *)
(***************************************************************************)

\* A handler that moves nobody and looks nothing up leaves the table as it is.
LEMMA StayingKeepsNames ==
  ASSUME OneNamespacePerName,
         UNCHANGED <<connections, namespaces, space, ns_name>>
  PROVE  OneNamespacePerName'
BY DEF OneNamespacePerName, Live

\* Server::add_client: a new client is in no namespace.
LEMMA AcceptKeepsNames ==
  ASSUME Inv, OneNamespacePerName, NEW c \in Client, Accept(c)
  PROVE  OneNamespacePerName'
<1>1. space[c] = None
  BY DEF Accept, Inv, TypeOK
<1>2. ASSUME NEW o \in NsObj PROVE Live(o)' => Live(o)
  BY <1>1, NullIsNoObject DEF Accept, Live
<1>3. namespaces' = namespaces /\ ns_name' = ns_name
  BY DEF Accept
<1> QED BY <1>2, <1>3 DEF OneNamespacePerName

\* Server::remove_client: what is still owned was owned before, and ~Namespace
\* does not touch the others.
LEMMA DisconnectKeepsNames ==
  ASSUME Inv, OneNamespacePerName, NEW c \in Client, Disconnect(c)
  PROVE  OneNamespacePerName'
<1>1. ASSUME NEW o \in NsObj, Live(o)'
      PROVE  Live(o) /\ ns_name'[o] = ns_name[o]
  <2>1. PICK d \in connections \ {c} : space'[d] = o
    BY <1>1 DEF Disconnect, Live
  <2>2. space[d] = o
    BY <2>1 DEF Disconnect, ClientDestroyed, Inv, TypeOK
  <2>3. Owned(o)
    BY <1>1 DEF Live, Owned
  <2> QED BY <2>1, <2>2, <2>3 DEF Disconnect, Live
<1>2. namespaces' = namespaces
  BY DEF Disconnect
<1> QED BY <1>1, <1>2 DEF OneNamespacePerName

\* Server::get_namespace: a search that finds a live object of the name returns
\* the only one there is; a search that ends without one has seen every live
\* object, since all of them are in the table; and neither erases a live entry.
LEMMA SetNamespaceKeepsNames ==
  ASSUME Inv, OneNamespacePerName,
         NEW c \in Client, NEW nm \in NsName, SetNamespace(c, nm)
  PROVE  OneNamespacePerName'
<1>1. PICK o \in NsObj :
        /\ get_namespace(nm, o)
        /\ connections' = connections
        /\ space' = [space EXCEPT ![c] = o]
        /\ ns_name' = [p \in NsObj |-> IF p = o THEN nm
                        ELSE IF Owned(p) THEN ns_name[p] ELSE None]
  BY DEF SetNamespace
<1>2. ns_name'[o] = nm /\ nm # None
  BY <1>1, NullIsNoObject
<1>3. o \in namespaces'
  BY <1>1 DEF get_namespace, Named, Expired
<1>4. ASSUME NEW p \in NsObj, p # o, Live(p)'
      PROVE  Live(p) /\ ns_name'[p] = ns_name[p] /\ p \in namespaces'
  <2>1. PICK d \in connections : space'[d] = p
    BY <1>1, <1>4 DEF Live
  <2>2. space[d] = p
    BY <1>1, <1>4, <2>1 DEF Inv, TypeOK
  <2>3. Live(p)
    BY <2>2 DEF Live
  <2>4. Owned(p)
    BY <1>4 DEF Live, Owned
  <2>5. p \in namespaces
    BY <2>3 DEF OneNamespacePerName
  <2>6. p \in namespaces'
    BY <1>1, <2>3, <2>5 DEF get_namespace, Kept, Expired
  <2> QED BY <1>1, <1>4, <2>3, <2>4, <2>6
<1>5. ASSUME NEW p \in NsObj, p # o, Live(p)'
      PROVE  ns_name'[p] # nm
  <2>1. Live(p) /\ ns_name'[p] = ns_name[p] /\ p \in namespaces
    BY <1>4, <1>5 DEF OneNamespacePerName
  <2>2. CASE o \in Named(nm)
    BY <1>5, <2>1, <2>2 DEF Named, OneNamespacePerName
  <2>3. CASE Named(nm) = {}
    BY <2>1, <2>3 DEF Named
  <2> QED BY <1>1, <2>2, <2>3 DEF get_namespace
<1>6. ASSUME NEW p \in NsObj, Live(p)'
      PROVE  p \in namespaces' /\ ns_name'[p] # None
  BY <1>2, <1>3, <1>4, <1>6 DEF OneNamespacePerName
<1>7. ASSUME NEW p \in NsObj, NEW q \in NsObj, Live(p)', Live(q)', ns_name'[p] = ns_name'[q]
      PROVE  p = q
  <2>1. CASE p = o \/ q = o
    BY <1>2, <1>5, <1>7, <2>1
  <2>2. CASE p # o /\ q # o
    BY <1>4, <1>7, <2>2 DEF OneNamespacePerName
  <2> QED BY <2>1, <2>2
<1> QED BY <1>6, <1>7 DEF OneNamespacePerName

\* Every handler keeps one object per name.
LEMMA NextKeepsNames == Inv /\ OneNamespacePerName /\ [Next]_vars => OneNamespacePerName'
<1> SUFFICES ASSUME Inv, OneNamespacePerName, [Next]_vars PROVE OneNamespacePerName'
  OBVIOUS
<1>1. ASSUME NEW c \in Client, NEW e \in Event,
             TrackEvent(c, e) \/ UntrackEvent(c, e) \/ TriggerEvent(c, e)
      PROVE  OneNamespacePerName'
  BY <1>1, StayingKeepsNames DEF TrackEvent, UntrackEvent, TriggerEvent
<1>2. ASSUME NEW c \in Client, NEW k \in Counter,
             \/ TrackCounter(c, k) \/ UntrackCounter(c, k)
             \/ JoinCounter(c, k) \/ LeaveCounter(c, k)
      PROVE  OneNamespacePerName'
  BY <1>2, StayingKeepsNames DEF TrackCounter, UntrackCounter, JoinCounter, LeaveCounter
<1>3. CASE UNCHANGED vars
  BY <1>3, StayingKeepsNames DEF vars
<1> QED
  BY <1>1, <1>2, <1>3, AcceptKeepsNames, DisconnectKeepsNames, SetNamespaceKeepsNames DEF Next

\* Clients that chose the same name are in the same namespace.
THEOREM NamesUnique == Spec => []OneNamespacePerName
<1>1. Init => OneNamespacePerName
  BY DEF Init, OneNamespacePerName, Live
<1> QED BY <1>1, InitInv, NextInv, NextKeepsNames, PTL DEF Spec

(***************************************************************************)
(* The size of the table.                                                  *)
(***************************************************************************)

\* Every client owns at most one object.
LEMMA LiveBounded ==
  ASSUME TypeOK
  PROVE  /\ IsFiniteSet({space[d] : d \in Client})
         /\ Cardinality({space[d] : d \in Client}) <= Cardinality(Client)
<1> DEFINE T == {space[d] : d \in Client}
<1>1. space \in Surjection(Client, T)
  BY DEF TypeOK, Surjection
<1> QED BY <1>1, ClientsFinite, FS_Surjection

\* Server::get_namespace: a search that adds an entry has passed all the others
\* and kept those that are owned; one that finds its name adds none.
LEMMA SetNamespaceKeepsBound ==
  ASSUME TypeOK, IsFiniteSet(namespaces), TableBounded,
         NEW c \in Client, NEW nm \in NsName, SetNamespace(c, nm)
  PROVE  IsFiniteSet(namespaces') /\ TableBounded'
<1>1. PICK o \in NsObj : get_namespace(nm, o)
  BY DEF SetNamespace
<1>2. CASE \E passed \in SUBSET Expired : namespaces' = namespaces \ passed
  <2>1. namespaces' \in SUBSET namespaces
    BY <1>2
  <2>2. IsFiniteSet(namespaces') /\ Cardinality(namespaces') <= Cardinality(namespaces)
    BY <2>1, FS_Subset
  <2>3. /\ Cardinality(namespaces') \in Nat /\ Cardinality(namespaces) \in Nat
        /\ Cardinality(Client) \in Nat
    BY <2>2, ClientsFinite, FS_CardinalityType
  <2> QED BY <2>2, <2>3 DEF TableBounded
<1>3. CASE namespaces' = Kept \cup {o}
  <2> DEFINE T == {space[d] : d \in Client}
  <2>1. Kept \in SUBSET T
    BY DEF Kept, Expired, Live, TypeOK
  <2>2. IsFiniteSet(T) /\ Cardinality(T) <= Cardinality(Client)
    BY LiveBounded
  <2>3. IsFiniteSet(Kept) /\ Cardinality(Kept) <= Cardinality(T)
    <3> HIDE DEF T
    <3> QED BY <2>1, <2>2, FS_Subset
  <2>4. /\ IsFiniteSet(Kept \cup {o})
        /\ Cardinality(Kept \cup {o}) = IF o \in Kept THEN Cardinality(Kept) ELSE Cardinality(Kept) + 1
    BY <2>3, FS_AddElement
  <2>5. Cardinality(Kept) \in Nat /\ Cardinality(T) \in Nat /\ Cardinality(Client) \in Nat
    BY <2>2, <2>3, ClientsFinite, FS_CardinalityType
  <2> HIDE DEF T
  <2>6. Cardinality(Kept \cup {o}) <= Cardinality(Client) + 1
    BY <2>2, <2>3, <2>4, <2>5
  <2> QED BY <1>3, <2>4, <2>6 DEF TableBounded
<1> QED BY <1>1, <1>2, <1>3 DEF get_namespace

TableOK == IsFiniteSet(namespaces) /\ TableBounded

\* No other handler touches the table.
LEMMA NextKeepsBound == TypeOK /\ TableOK /\ [Next]_vars => TableOK'
<1> SUFFICES ASSUME TypeOK, IsFiniteSet(namespaces), TableBounded, [Next]_vars
             PROVE  IsFiniteSet(namespaces') /\ TableBounded'
  BY DEF TableOK
<1>1. CASE namespaces' = namespaces
  BY <1>1 DEF TableBounded
<1>2. ASSUME NEW c \in Client, NEW nm \in NsName, SetNamespace(c, nm)
      PROVE  IsFiniteSet(namespaces') /\ TableBounded'
  BY <1>2, SetNamespaceKeepsBound
<1>3. ASSUME NEW c \in Client, Accept(c) \/ Disconnect(c) PROVE namespaces' = namespaces
  BY <1>3 DEF Accept, Disconnect
<1>4. ASSUME NEW c \in Client, NEW e \in Event,
             TrackEvent(c, e) \/ UntrackEvent(c, e) \/ TriggerEvent(c, e)
      PROVE  namespaces' = namespaces
  BY <1>4 DEF TrackEvent, UntrackEvent, TriggerEvent
<1>5. ASSUME NEW c \in Client, NEW k \in Counter,
             \/ TrackCounter(c, k) \/ UntrackCounter(c, k)
             \/ JoinCounter(c, k) \/ LeaveCounter(c, k)
      PROVE  namespaces' = namespaces
  BY <1>5 DEF TrackCounter, UntrackCounter, JoinCounter, LeaveCounter
<1>6. CASE UNCHANGED vars
  BY <1>1, <1>6 DEF vars
<1> QED BY <1>1, <1>2, <1>3, <1>4, <1>5, <1>6 DEF Next

\* Namespaces that come and go do not make the table grow without end.
THEOREM TableStaysBounded == Spec => []TableBounded
<1>1. Init => TableOK
  <2>1. Cardinality({}) = 0 /\ IsFiniteSet({}) /\ Cardinality(Client) \in Nat
    BY FS_EmptySet, ClientsFinite, FS_CardinalityType
  <2> QED BY <2>1 DEF Init, TableOK, TableBounded
<1>2. Inv => TypeOK
  BY DEF Inv
<1>3. TableOK => TableBounded
  BY DEF TableOK
<1> QED BY <1>1, <1>2, <1>3, InitInv, NextInv, NextKeepsBound, PTL DEF Spec

-----------------------------------------------------------------------------
(***************************************************************************)
(* What clients are told.  Trackers of counters are told every change,     *)
(* which rests on the exactness of the lists, and, with that, the server   *)
(* implements the service (Broker): every handler is an operation of it.   *)
(***************************************************************************)

(***************************************************************************)
(* The length of a list is the number of the clients in it.                *)
(***************************************************************************)

\* A set of clients is finite.
LEMMA ClientsAreFinite ==
  ASSUME NEW S \in SUBSET Client
  PROVE  IsFiniteSet(S) /\ Cardinality(S) \in Nat
BY ClientsFinite, FS_Subset, FS_CardinalityType

\* client_list::size of an exact list.
LEMMA SizeOfList ==
  ASSUME NEW S \in SUBSET Client
  PROVE  size(ListOf(S)) = Cardinality(S)
<1>1. CASE S = {}
  BY <1>1, FS_EmptySet DEF size, ListOf
<1>2. CASE S # {}
  <2> DEFINE l == [d \in Client |-> IF d \in S THEN 1 ELSE 0]
             U == UNION {{d} \X (1..l[d]) : d \in Client}
  <2>1. ListOf(S) = l /\ l # Absent
    BY <1>2, AbsentIsNoList DEF ListOf
  <2>2. size(ListOf(S)) = Cardinality(U)
    BY <2>1 DEF size
  <2>3. U = S \X {1}
    <3>1. ASSUME NEW d \in Client PROVE {d} \X (1..l[d]) = IF d \in S THEN {<<d, 1>>} ELSE {}
      <4>1. CASE d \in S
        <5>1. 1..l[d] = {1}
          BY <4>1
        <5> QED BY <4>1, <5>1
      <4>2. CASE d \notin S
        <5>1. 1..l[d] = {}
          BY <4>2
        <5> QED BY <4>2, <5>1
      <4> QED BY <4>1, <4>2
    <3> HIDE DEF l
    <3>2. U \subseteq S \X {1}
      BY <3>1
    <3>3. ASSUME NEW d \in S PROVE <<d, 1>> \in U
      BY <3>1
    <3> QED BY <3>2, <3>3
  <2>4. Cardinality(S \X {1}) = Cardinality(S)
    <3>1. IsFiniteSet(S) /\ Cardinality(S) \in Nat
      BY ClientsAreFinite
    <3>2. IsFiniteSet({1}) /\ Cardinality({1}) = 1
      BY FS_Singleton
    <3>3. Cardinality(S \X {1}) = Cardinality(S) * Cardinality({1})
      BY <3>1, <3>2, FS_Product
    <3> QED BY <3>1, <3>2, <3>3
  <2> HIDE DEF U
  <2> QED BY <2>2, <2>3, <2>4
<1> QED BY <1>1, <1>2

(***************************************************************************)
(* What a client knows after some packets about a counter.                 *)
(***************************************************************************)
Told(v, s) == IF s = <<>> THEN v ELSE s[Len(s)]

Apply(x, sent) == [d \in Client |-> [k \in Counter |-> Told(x[d][k], sent[d][k])]]

Values == [Client -> [Counter -> Nat \cup {None}]]

\* Packets of one handler are received in the order they are sent.
LEMMA ToldInOrder ==
  ASSUME NEW v, NEW s \in Seq(Nat), NEW t \in Seq(Nat)
  PROVE  Told(v, s \o t) = Told(Told(v, s), t)
<1>1. CASE t = <<>>
  <2>1. s \o t = s
    BY <1>1
  <2> QED BY <1>1, <2>1 DEF Told
<1>2. CASE t # <<>>
  <2>1. /\ s \o t # <<>>
        /\ (s \o t)[Len(s \o t)] = t[Len(t)]
    BY <1>2
  <2> QED BY <1>2, <2>1 DEF Told
<1> QED BY <1>1, <1>2

\* The same for all clients and counters.
LEMMA ApplyInOrder ==
  ASSUME NEW x, NEW a \in Packets, NEW b \in Packets
  PROVE  Apply(x, Followed(a, b)) = Apply(Apply(x, a), b)
<1>1. ASSUME NEW d \in Client, NEW k \in Counter
      PROVE  Told(x[d][k], a[d][k] \o b[d][k]) = Told(Told(x[d][k], a[d][k]), b[d][k])
  BY ToldInOrder DEF Packets
<1> QED BY <1>1 DEF Apply, Followed

\* A handler that sends nothing tells nothing.
LEMMA ApplySilence ==
  ASSUME NEW x \in Values
  PROVE  Apply(x, Silence) = x
BY DEF Apply, Silence, Told, Values

Count(s, jn, o, k) == Cardinality(In(s, jn, o, k))

Reached(y, x, s, tr, t, jn, o, K) ==
  \A d \in Client \cap connections, k \in Counter :
    y[d][k] = IF k \in K /\ o # None /\ s[d] = o /\ k \in tr[d]
              THEN Count(t, jn, o, k) ELSE x[d][k]

\* Namespace::trigger_counter_event reaches each listener in the namespace once,
\* with the length of the list.
LEMMA BroadcastTells ==
  ASSUME NEW x, NEW cl, NEW ct, NEW s, NEW t, NEW tr, NEW jn,
         Exact(cl, Counter, s, tr), Exact(ct, Counter, t, jn),
         NEW o \in NsObj \cup {None}, NEW K
  PROVE  Reached(Apply(x, Broadcast(cl, ct, o, K)), x, s, tr, t, jn, o, K)
<1> SUFFICES ASSUME NEW d \in Client \cap connections, NEW k \in Counter
             PROVE  Apply(x, Broadcast(cl, ct, o, K))[d][k] =
                      IF k \in K /\ o # None /\ s[d] = o /\ k \in tr[d]
                      THEN Count(t, jn, o, k) ELSE x[d][k]
  BY DEF Reached
<1> DEFINE b == Broadcast(cl, ct, o, K)[d][k]
<1>0. Apply(x, Broadcast(cl, ct, o, K))[d][k] = Told(x[d][k], b)
  BY DEF Apply
<1>1. CASE k \in K /\ o # None /\ s[d] = o /\ k \in tr[d]
  <2>1. cl[o][k] = ListOf(In(s, tr, o, k)) /\ d \in In(s, tr, o, k)
    BY <1>1 DEF Exact, In
  <2>2. cl[o][k] # Absent /\ cl[o][k][d] = 1
    BY <2>1, AbsentIsNoList DEF ListOf
  <2>3. Copies(cl, o, k, d) = 1
    BY <1>1, <2>2 DEF Copies
  <2>4. size(ct[o][k]) = Count(t, jn, o, k)
    <3>1. In(t, jn, o, k) \in SUBSET Client
      BY DEF In
    <3> QED BY <1>1, <3>1, SizeOfList DEF Exact, Count
  <2>5. b = [i \in 1..1 |-> Count(t, jn, o, k)]
    BY <1>1, <2>3, <2>4 DEF Broadcast
  <2>6. b # <<>> /\ b[Len(b)] = Count(t, jn, o, k)
    <3> HIDE DEF b
    <3> QED BY <2>5
  <2> QED BY <1>0, <1>1, <2>6 DEF Told
<1>2. CASE ~(k \in K /\ o # None /\ s[d] = o /\ k \in tr[d])
  <2>1. k \in K => Copies(cl, o, k, d) = 0
    <3>1. CASE o = None
      BY <3>1 DEF Copies
    <3>2. CASE o # None /\ k \in K
      <4>1. cl[o][k] = ListOf(In(s, tr, o, k)) /\ d \notin In(s, tr, o, k)
        BY <1>2, <3>2 DEF Exact, In
      <4>2. cl[o][k] = Absent \/ cl[o][k][d] = 0
        BY <4>1 DEF ListOf
      <4> QED BY <3>2, <4>2 DEF Copies
    <3> QED BY <3>1, <3>2
  <2>2. b = <<>>
    BY <2>1 DEF Broadcast
  <2> QED BY <1>0, <1>2, <2>2 DEF Told
<1> QED BY <1>1, <1>2

Greeted(y, x, t, jn, o, K, c) ==
  \A d \in Client, k \in Counter :
    y[d][k] = IF d = c /\ k \in K /\ o # None THEN Count(t, jn, o, k) ELSE x[d][k]

\* Namespace::add_counter_listener tells one client the lengths.
LEMMA GreetingTells ==
  ASSUME NEW x, NEW ct, NEW t, NEW jn, Exact(ct, Counter, t, jn),
         NEW o \in NsObj \cup {None}, NEW K, NEW c \in Client
  PROVE  Greeted(Apply(x, Greeting(ct, o, K, c)), x, t, jn, o, K, c)
<1> SUFFICES ASSUME NEW d \in Client, NEW k \in Counter
             PROVE  Apply(x, Greeting(ct, o, K, c))[d][k] =
                      IF d = c /\ k \in K /\ o # None THEN Count(t, jn, o, k) ELSE x[d][k]
  BY DEF Greeted
<1> DEFINE g == Greeting(ct, o, K, c)[d][k]
<1>0. Apply(x, Greeting(ct, o, K, c))[d][k] = Told(x[d][k], g)
  BY DEF Apply
<1>1. CASE d = c /\ k \in K /\ o # None
  <2>1. size(ct[o][k]) = Count(t, jn, o, k)
    <3>1. In(t, jn, o, k) \in SUBSET Client
      BY DEF In
    <3> QED BY <1>1, <3>1, SizeOfList DEF Exact, Count
  <2>2. g = <<Count(t, jn, o, k)>>
    BY <1>1, <2>1 DEF Greeting
  <2>3. g # <<>> /\ g[Len(g)] = Count(t, jn, o, k)
    <3> HIDE DEF g
    <3> QED BY <2>2
  <2> QED BY <1>0, <1>1, <2>3 DEF Told
<1>2. CASE ~(d = c /\ k \in K /\ o # None)
  <2>1. g = <<>>
    BY <1>2 DEF Greeting
  <2> QED BY <1>0, <1>2, <2>1 DEF Told
<1> QED BY <1>1, <1>2

(***************************************************************************)
(* Every tracker knows the count of its namespace (x is what each client   *)
(* was last told).                                                         *)
(***************************************************************************)
Current(x, s, tr, jn) ==
  \A d \in Client : \A k \in tr[d] : s[d] # None => x[d][k] = Count(s, jn, s[d], k)

\* Who tracks a counter is connected.
Connected(tr) == \A d \in Client : tr[d] # {} => d \in connections

\* The property, in the words of this module.
LEMMA TrackersCurrentIsCurrent ==
  ASSUME ClientsOK
  PROVE  TrackersCurrent <=> Current(shown, space, tracked_counters, joined_counters)
<1>1. ASSUME NEW c \in Client, NEW k \in Counter, space[c] # None
      PROVE  CountOf(c, k) = Count(space, joined_counters, space[c], k)
  <2>1. {d \in connections : space[d] = space[c] /\ k \in joined_counters[d]}
          = In(space, joined_counters, space[c], k)
    BY <1>1 DEF ClientsOK, In
  <2> QED BY <2>1 DEF CountOf, Count
<1>2. \A c \in Client : tracked_counters[c] # {} => c \in connections
  BY DEF ClientsOK
<1>3. \A c \in Client : tracked_counters[c] \subseteq Counter
  BY DEF ClientsOK
<1>4. connections \subseteq Client
  BY DEF ClientsOK
<1> HIDE DEF ClientsOK
<1> QED BY <1>1, <1>2, <1>3, <1>4 DEF TrackersCurrent, Current

\* Namespace::remove_client tells the trackers that stay.
LEMMA LeavingTells ==
  ASSUME NEW x, NEW cl, NEW ct, NEW s \in Spaces,
         NEW tr \in [Client -> SUBSET Counter], NEW jn \in [Client -> SUBSET Counter],
         NEW c \in Client, NEW K,
         \A k \in Counter : k \in K <=> s[c] # None /\ k \in jn[c],
         Connected(tr), Current(x, s, tr, jn),
         Exact(cl, Counter, [s EXCEPT ![c] = None], tr),
         Exact(ct, Counter, [s EXCEPT ![c] = None], jn)
  PROVE  Current(Apply(x, Broadcast(cl, ct, s[c], K)), [s EXCEPT ![c] = None], tr, jn)
<1> DEFINE t == [s EXCEPT ![c] = None]
           y == Apply(x, Broadcast(cl, ct, s[c], K))
<1> SUFFICES ASSUME NEW d \in Client, NEW k \in tr[d], t[d] # None
             PROVE  y[d][k] = Count(t, jn, t[d], k)
  BY DEF Current
<1>1. /\ d # c /\ t[d] = s[d] /\ s[d] # None /\ d \in connections
      /\ k \in Counter /\ s[c] \in NsObj \cup {None} /\ s[d] \in NsObj
  BY DEF Spaces, Connected
<1>2. y[d][k] = IF k \in K /\ s[c] # None /\ t[d] = s[c] THEN Count(t, jn, s[c], k) ELSE x[d][k]
  <2>1. Reached(y, x, t, tr, t, jn, s[c], K)
    BY <1>1, BroadcastTells
  <2> HIDE DEF t, y
  <2> QED BY <1>1, <2>1 DEF Reached
<1>3. x[d][k] = Count(s, jn, s[d], k)
  BY <1>1 DEF Current
<1>4. CASE k \in K /\ s[c] # None /\ t[d] = s[c]
  BY <1>2, <1>4
<1>5. CASE ~(k \in K /\ s[c] # None /\ t[d] = s[c])
  <2>1. In(t, jn, s[d], k) = In(s, jn, s[d], k)
    BY <1>1, <1>5 DEF In
  <2> HIDE DEF t, y
  <2> QED BY <1>1, <1>2, <1>3, <1>5, <2>1 DEF Count
<1> QED BY <1>4, <1>5

\* Namespace::add_client tells the newcomer, and then the trackers that are there.
LEMMA EnteringTells ==
  ASSUME NEW x, NEW cl, NEW ct0, NEW ct, NEW s \in Spaces,
         NEW tr \in [Client -> SUBSET Counter], NEW jn \in [Client -> SUBSET Counter],
         NEW c \in Client, s[c] = None, NEW o \in NsObj,
         Connected(tr), Current(x, s, tr, jn),
         Exact(ct0, Counter, s, jn),
         Exact(cl, Counter, [s EXCEPT ![c] = o], tr),
         Exact(ct, Counter, [s EXCEPT ![c] = o], jn)
  PROVE  Current(Apply(Apply(x, Greeting(ct0, o, tr[c], c)), Broadcast(cl, ct, o, jn[c])),
                 [s EXCEPT ![c] = o], tr, jn)
<1> DEFINE t == [s EXCEPT ![c] = o]
           y == Apply(x, Greeting(ct0, o, tr[c], c))
           z == Apply(y, Broadcast(cl, ct, o, jn[c]))
<1> SUFFICES ASSUME NEW d \in Client, NEW k \in tr[d], t[d] # None
             PROVE  z[d][k] = Count(t, jn, t[d], k)
  BY DEF Current
<1>1. /\ d \in connections /\ k \in Counter /\ o \in NsObj \cup {None} /\ o # None
      /\ t[d] = IF d = c THEN o ELSE s[d]
      /\ t[d] \in NsObj
  BY NullIsNoObject DEF Spaces, Connected
<1>2. y[d][k] = IF d = c THEN Count(s, jn, o, k) ELSE x[d][k]
  <2>1. Greeted(y, x, s, jn, o, tr[c], c)
    BY <1>1, GreetingTells
  <2> HIDE DEF t, y
  <2> QED BY <1>1, <2>1 DEF Greeted
<1>3. z[d][k] = IF k \in jn[c] /\ t[d] = o THEN Count(t, jn, o, k) ELSE y[d][k]
  <2>1. Reached(z, y, t, tr, t, jn, o, jn[c])
    <3> HIDE DEF y
    <3> QED BY <1>1, BroadcastTells
  <2> HIDE DEF t, y, z
  <2> QED BY <1>1, <2>1 DEF Reached
<1>4. y[d][k] = Count(s, jn, t[d], k)
  <2>1. CASE d = c
    BY <1>1, <1>2, <2>1
  <2>2. CASE d # c
    <3>1. s[d] = t[d] /\ s[d] # None
      BY <1>1, <2>2
    <3>2. x[d][k] = Count(s, jn, s[d], k)
      BY <3>1 DEF Current
    <3> HIDE DEF t, y
    <3> QED BY <1>2, <2>2, <3>1, <3>2
  <2> QED BY <2>1, <2>2
<1>5. CASE k \in jn[c] /\ t[d] = o
  BY <1>3, <1>5
<1>6. CASE ~(k \in jn[c] /\ t[d] = o)
  <2>1. In(t, jn, t[d], k) = In(s, jn, t[d], k)
    BY <1>1, <1>6 DEF In, Spaces
  <2> HIDE DEF t, y, z
  <2> QED BY <1>3, <1>4, <1>6, <2>1 DEF Count
<1> QED BY <1>5, <1>6

\* Namespace::join_counter and leave_counter tell the trackers of one counter.
LEMMA CountingTells ==
  ASSUME NEW x, NEW cl, NEW ct, NEW s \in Spaces,
         NEW tr \in [Client -> SUBSET Counter], NEW jn \in [Client -> SUBSET Counter],
         NEW jm \in [Client -> SUBSET Counter], NEW c \in Client, NEW k \in Counter, NEW K,
         \A d \in Client : d # c => jm[d] = jn[d],
         \A n \in Counter : n # k => (n \in jm[c] <=> n \in jn[c]),
         \A n \in Counter : n \in K => n = k,
         k \in K \/ s[c] = None \/ jm = jn,
         Connected(tr), Current(x, s, tr, jn),
         Exact(cl, Counter, s, tr), Exact(ct, Counter, s, jm)
  PROVE  Current(Apply(x, Broadcast(cl, ct, s[c], K)), s, tr, jm)
<1> DEFINE y == Apply(x, Broadcast(cl, ct, s[c], K))
<1> SUFFICES ASSUME NEW d \in Client, NEW n \in tr[d], s[d] # None
             PROVE  y[d][n] = Count(s, jm, s[d], n)
  BY DEF Current
<1>1. d \in connections /\ n \in Counter /\ s[c] \in NsObj \cup {None}
  BY DEF Spaces, Connected
<1>2. y[d][n] = IF n \in K /\ s[c] # None /\ s[d] = s[c] THEN Count(s, jm, s[c], n) ELSE x[d][n]
  <2>1. Reached(y, x, s, tr, s, jm, s[c], K)
    BY <1>1, BroadcastTells
  <2> HIDE DEF y
  <2> QED BY <1>1, <2>1 DEF Reached
<1>3. x[d][n] = Count(s, jn, s[d], n)
  BY DEF Current
<1>4. CASE n \in K /\ s[c] # None /\ s[d] = s[c]
  BY <1>2, <1>4
<1>5. CASE ~(n \in K /\ s[c] # None /\ s[d] = s[c])
  <2>1. In(s, jm, s[d], n) = In(s, jn, s[d], n)
    <3>1. ASSUME NEW e \in Client, s[e] = s[d] PROVE n \in jm[e] <=> n \in jn[e]
      BY <1>1, <1>5, <3>1
    <3> QED BY <3>1 DEF In
  <2> HIDE DEF y
  <2> QED BY <1>2, <1>3, <1>5, <2>1 DEF Count
<1> QED BY <1>4, <1>5

\* SendCounts makes the history follow the packets.
LEMMA ShownIsCurrent ==
  ASSUME NEW sent \in Packets, SendCounts(sent),
         tracked_counters' \in [Client -> SUBSET Counter],
         Current(Apply(shown, sent), space', tracked_counters', joined_counters')
  PROVE  Current(shown', space', tracked_counters', joined_counters')
<1>1. ASSUME NEW d \in Client, NEW k \in tracked_counters'[d]
      PROVE  shown'[d][k] = Apply(shown, sent)[d][k]
  BY DEF SendCounts, Apply, Told
<1> HIDE DEF SendCounts
<1> QED BY <1>1 DEF Current

(***************************************************************************)
(* The handlers.                                                           *)
(***************************************************************************)
Know == Current(shown, space, tracked_counters, joined_counters)

\* What the handlers' lemmas take from the invariant.
LEMMA InvFacts ==
  ASSUME Inv
  PROVE  /\ ClientsOK /\ MapsExact
         /\ shown \in Values
         /\ space \in Spaces
         /\ tracked_counters \in [Client -> SUBSET Counter]
         /\ joined_counters \in [Client -> SUBSET Counter]
         /\ Connected(tracked_counters)
         /\ Exact(counter_listeners, Counter, space, tracked_counters)
         /\ Exact(counters, Counter, space, joined_counters)
<1>1. ClientsOK /\ MapsExact /\ PacketsOK
  BY InvParts
<1> QED BY <1>1 DEF ClientsOK, MapsExact, PacketsOK, Connected, Values

\* A handler that sends no counter, moves no tracker and changes no count.
LEMMA SilenceKnow ==
  ASSUME Inv, Know, SendCounts(Silence), Inv',
         \A d \in Client : tracked_counters'[d] \subseteq tracked_counters[d],
         space' = space, joined_counters' = joined_counters
  PROVE  Know'
<1>1. Apply(shown, Silence) = shown
  BY InvFacts, ApplySilence
<1>2. Current(shown, space', tracked_counters', joined_counters')
  BY DEF Know, Current
<1>3. tracked_counters' \in [Client -> SUBSET Counter]
  BY DEF Inv, TypeOK
<1>4. Current(shown', space', tracked_counters', joined_counters')
  BY <1>1, <1>2, <1>3, SilenceType, ShownIsCurrent
<1> QED BY <1>4 DEF Know

\* Client::track_counter: the new tracker is told the count.
LEMMA TrackCounterKnow ==
  ASSUME Inv, Know, Inv', NEW c \in Client, NEW k \in Counter, TrackCounter(c, k)
  PROVE  Know'
<1> DEFINE new  == Missing(tracked_counters[c], k)
           sent == Greeting(counters, space[c], new, c)
           y    == Apply(shown, sent)
<1>1. /\ space' = space /\ joined_counters' = joined_counters
      /\ tracked_counters' = [tracked_counters EXCEPT ![c] = @ \cup {k}]
      /\ SendCounts(sent)
  BY DEF TrackCounter
<1>2. space[c] \in NsObj \cup {None}
  BY InvFacts DEF Spaces
<1>3. Greeted(y, shown, space, joined_counters, space[c], new, c)
  BY <1>2, InvFacts, GreetingTells
<1>4. sent \in Packets
  BY <1>2, InvMaps, GreetingType
<1>5. tracked_counters' \in [Client -> SUBSET Counter]
  BY DEF Inv, TypeOK
<1>6. Current(y, space', tracked_counters', joined_counters')
  <2> SUFFICES ASSUME NEW d \in Client, NEW n \in tracked_counters'[d], space[d] # None
               PROVE  y[d][n] = Count(space, joined_counters, space[d], n)
    BY <1>1 DEF Current
  <2>1. n \in Counter
    BY <1>5
  <2>2. CASE d = c /\ n \in new
    <3> HIDE DEF y
    <3> QED BY <1>3, <2>1, <2>2 DEF Greeted
  <2>3. CASE ~(d = c /\ n \in new)
    <3>1. n \in tracked_counters[d]
      BY <1>1, <2>3, InvFacts DEF Missing
    <3>2. shown[d][n] = Count(space, joined_counters, space[d], n)
      BY <3>1 DEF Know, Current
    <3>3. y[d][n] = shown[d][n]
      <4> HIDE DEF y
      <4> QED BY <1>3, <2>1, <2>3 DEF Greeted
    <3> QED BY <3>2, <3>3
  <2> QED BY <2>2, <2>3
<1>7. Current(shown', space', tracked_counters', joined_counters')
  <2> HIDE DEF sent
  <2> QED BY <1>1, <1>4, <1>5, <1>6, ShownIsCurrent
<1> QED BY <1>7 DEF Know

\* Client::join_counter: the trackers are told the new count.
LEMMA JoinCounterKnow ==
  ASSUME Inv, Know, Inv', NEW c \in Client, NEW k \in Counter, JoinCounter(c, k)
  PROVE  Know'
<1> DEFINE new  == Missing(joined_counters[c], k)
           ct   == AddTo(counters, space[c], new, c)
           jm   == [joined_counters EXCEPT ![c] = @ \cup {k}]
           sent == Broadcast(counter_listeners, ct, space[c], new)
<1>1. /\ space' = space /\ tracked_counters' = tracked_counters
      /\ joined_counters' = jm
      /\ SendCounts(sent)
  BY DEF JoinCounter
<1>2. Exact(ct, Counter, space, jm)
  BY InvFacts, AddNameExact
<1>3. /\ jm \in [Client -> SUBSET Counter]
      /\ \A d \in Client : d # c => jm[d] = joined_counters[d]
      /\ \A n \in Counter : n # k => (n \in jm[c] <=> n \in joined_counters[c])
      /\ \A n \in Counter : n \in new => n = k
      /\ k \in new \/ space[c] = None \/ jm = joined_counters
  BY InvFacts DEF Missing
<1>4. Current(Apply(shown, sent), space, tracked_counters, jm)
  <2>1. Know /\ space \in Spaces
    BY InvFacts
  <2> HIDE DEF ct, jm, new
  <2> QED BY <1>2, <1>3, <2>1, InvFacts, CountingTells DEF Know
<1>5. sent \in Packets
  <2>1. Counts(ct)
    BY <1>2 DEF Exact, Counts
  <2>2. space[c] \in NsObj \cup {None}
    BY InvFacts DEF Spaces
  <2> QED BY <2>1, <2>2, InvMaps, BroadcastType
<1>6. tracked_counters' \in [Client -> SUBSET Counter]
  BY DEF Inv, TypeOK
<1>7. Current(shown', space', tracked_counters', joined_counters')
  <2> HIDE DEF sent, jm
  <2> QED BY <1>1, <1>4, <1>5, <1>6, ShownIsCurrent
<1> QED BY <1>7 DEF Know

\* A counter that a client of a namespace joined is a key of its map.
LEMMA JoinedKeysExact ==
  ASSUME Inv, NEW c \in Client, NEW k \in Counter
  PROVE  k \in JoinedKeys(c) <=> space[c] # None /\ k \in joined_counters[c]
<1>1. ASSUME space[c] # None, k \in joined_counters[c]
      PROVE  counters[space[c]][k] # Absent
  <2>1. space[c] \in NsObj
    BY <1>1, InvFacts DEF Spaces
  <2>2. counters[space[c]][k] = ListOf(In(space, joined_counters, space[c], k))
    BY <2>1, InvFacts DEF Exact
  <2>3. c \in In(space, joined_counters, space[c], k)
    BY <1>1 DEF In
  <2> QED BY <2>2, <2>3, AbsentIsNoList DEF ListOf
<1> QED BY <1>1 DEF JoinedKeys

\* Client::leave_counter.
LEMMA LeaveCounterKnow ==
  ASSUME Inv, Know, Inv', NEW c \in Client, NEW k \in Counter, LeaveCounter(c, k)
  PROVE  Know'
<1> DEFINE K    == {k} \cap JoinedKeys(c)
           ct   == RemoveFrom(counters, space[c], {k} \cap joined_counters[c], c)
           jm   == [joined_counters EXCEPT ![c] = @ \ {k}]
           sent == Broadcast(counter_listeners, ct, space[c], K)
<1>1. /\ space' = space /\ tracked_counters' = tracked_counters
      /\ joined_counters' = jm
      /\ SendCounts(sent)
  BY DEF LeaveCounter
<1>2. Exact(ct, Counter, space, jm)
  BY InvFacts, RemoveNameExact
<1>3. /\ jm \in [Client -> SUBSET Counter]
      /\ \A d \in Client : d # c => jm[d] = joined_counters[d]
      /\ \A n \in Counter : n # k => (n \in jm[c] <=> n \in joined_counters[c])
      /\ \A n \in Counter : n \in K => n = k
      /\ k \in K \/ space[c] = None \/ jm = joined_counters
  BY InvFacts, JoinedKeysExact
<1>4. Current(Apply(shown, sent), space, tracked_counters, jm)
  <2>1. Know /\ space \in Spaces
    BY InvFacts
  <2> HIDE DEF ct, jm, K
  <2> QED BY <1>2, <1>3, <2>1, InvFacts, CountingTells DEF Know
<1>5. sent \in Packets
  <2>1. Counts(ct)
    BY <1>2 DEF Exact, Counts
  <2>2. space[c] \in NsObj \cup {None}
    BY InvFacts DEF Spaces
  <2> QED BY <2>1, <2>2, InvMaps, BroadcastType
<1>6. tracked_counters' \in [Client -> SUBSET Counter]
  BY DEF Inv, TypeOK
<1>7. Current(shown', space', tracked_counters', joined_counters')
  <2> HIDE DEF sent, jm
  <2> QED BY <1>1, <1>4, <1>5, <1>6, ShownIsCurrent
<1> QED BY <1>7 DEF Know

\* Server::remove_client: the trackers that stay are told.
LEMMA DisconnectKnow ==
  ASSUME Inv, Know, Inv', NEW c \in Client, Disconnect(c)
  PROVE  Know'
<1> DEFINE out  == [space EXCEPT ![c] = None]
           cl   == RemoveFrom(counter_listeners, space[c], tracked_counters[c], c)
           ct   == RemoveFrom(counters, space[c], joined_counters[c], c)
           sent == Broadcast(cl, ct, space[c], JoinedKeys(c))
           y    == Apply(shown, sent)
<1>1. /\ space' = out
      /\ tracked_counters' = [tracked_counters EXCEPT ![c] = {}]
      /\ joined_counters' = [joined_counters EXCEPT ![c] = {}]
      /\ SendCounts(sent)
  BY DEF Disconnect, ClientDestroyed
<1>2. /\ Exact(cl, Counter, out, tracked_counters)
      /\ Exact(ct, Counter, out, joined_counters)
  BY InvFacts, RemoveClientExact
<1>3. Current(y, out, tracked_counters, joined_counters)
  <2>1. \A k \in Counter : k \in JoinedKeys(c) <=> space[c] # None /\ k \in joined_counters[c]
    BY JoinedKeysExact
  <2> HIDE DEF cl, ct
  <2> QED BY <1>2, <2>1, InvFacts, LeavingTells DEF Know
<1>4. Current(y, space', tracked_counters', joined_counters')
  <2> SUFFICES ASSUME NEW d \in Client, NEW k \in tracked_counters'[d], out[d] # None
               PROVE  y[d][k] = Count(out, joined_counters', out[d], k)
    BY <1>1 DEF Current
  <2>1. d # c /\ k \in tracked_counters[d]
    BY <1>1, InvFacts DEF Spaces
  <2>2. y[d][k] = Count(out, joined_counters, out[d], k)
    <3> HIDE DEF y, out
    <3> QED BY <1>3, <2>1 DEF Current
  <2>3. In(out, joined_counters', out[d], k) = In(out, joined_counters, out[d], k)
    BY <1>1, InvFacts DEF In, Spaces
  <2> HIDE DEF y, out
  <2> QED BY <2>2, <2>3 DEF Count
<1>5. sent \in Packets
  <2>1. Counts(cl) /\ Counts(ct)
    BY <1>2 DEF Exact, Counts
  <2>2. space[c] \in NsObj \cup {None}
    BY InvFacts DEF Spaces
  <2> QED BY <2>1, <2>2, BroadcastType
<1>6. tracked_counters' \in [Client -> SUBSET Counter]
  BY DEF Inv, TypeOK
<1>7. Current(shown', space', tracked_counters', joined_counters')
  <2> HIDE DEF sent, out
  <2> QED BY <1>1, <1>4, <1>5, <1>6, ShownIsCurrent
<1> QED BY <1>7 DEF Know

\* Client::set_namespace: those who stay in the old namespace are told that the
\* client left, the client what it finds, and those in the new one that it came,
\* in this order; the two namespaces may be the same.
LEMMA SetNamespaceKnow ==
  ASSUME Inv, Know, Inv', NEW c \in Client, NEW nm \in NsName, SetNamespace(c, nm)
  PROVE  Know'
<1> DEFINE old == space[c]
           T   == tracked_counters[c]
           J   == joined_counters[c]
           out == [space EXCEPT ![c] = None]
           cl1 == RemoveFrom(counter_listeners, old, T, c)
           ct1 == RemoveFrom(counters, old, J, c)
<1>1. PICK o \in NsObj :
        /\ UNCHANGED lists
        /\ space' = [space EXCEPT ![c] = o]
        /\ SendCounts(Followed(Followed(Broadcast(cl1, ct1, old, JoinedKeys(c)),
                                        Greeting(ct1, o, T, c)),
                               Broadcast(AddTo(cl1, o, T, c), AddTo(ct1, o, J, c), o, J)))
  BY DEF SetNamespace
<1> DEFINE cl2 == AddTo(cl1, o, T, c)
           ct2 == AddTo(ct1, o, J, c)
           b1  == Broadcast(cl1, ct1, old, JoinedKeys(c))
           g   == Greeting(ct1, o, T, c)
           b2  == Broadcast(cl2, ct2, o, J)
<1>2. /\ out \in Spaces /\ out[c] = None /\ [out EXCEPT ![c] = o] = space'
      /\ tracked_counters' = tracked_counters /\ joined_counters' = joined_counters
  BY <1>1, InvFacts DEF lists, Spaces
<1>3. /\ Exact(cl1, Counter, out, tracked_counters)
      /\ Exact(ct1, Counter, out, joined_counters)
  BY InvFacts, RemoveClientExact
<1>4. /\ Exact(cl2, Counter, [out EXCEPT ![c] = o], tracked_counters)
      /\ Exact(ct2, Counter, [out EXCEPT ![c] = o], joined_counters)
  <2> HIDE DEF out, cl1, ct1
  <2> QED BY <1>2, <1>3, InvFacts, AddClientExact
<1>5. Current(Apply(shown, b1), out, tracked_counters, joined_counters)
  <2>1. \A k \in Counter : k \in JoinedKeys(c) <=> space[c] # None /\ k \in joined_counters[c]
    BY JoinedKeysExact
  <2> HIDE DEF cl1, ct1
  <2> QED BY <1>3, <2>1, InvFacts, LeavingTells DEF Know
<1>6. Current(Apply(Apply(Apply(shown, b1), g), b2), [out EXCEPT ![c] = o],
              tracked_counters, joined_counters)
  <2> HIDE DEF out, cl1, ct1, cl2, ct2, b1
  <2> QED BY <1>2, <1>3, <1>4, <1>5, InvFacts, EnteringTells
<1>7. b1 \in Packets /\ g \in Packets /\ b2 \in Packets
  <2>1. Counts(cl1) /\ Counts(ct1) /\ Counts(cl2) /\ Counts(ct2)
    BY <1>3, <1>4 DEF Exact, Counts
  <2>2. old \in NsObj \cup {None}
    BY InvFacts DEF Spaces
  <2> HIDE DEF cl1, ct1, cl2, ct2, old
  <2> QED BY <2>1, <2>2, BroadcastType, GreetingType
<1>8. Apply(shown, Followed(Followed(b1, g), b2)) = Apply(Apply(Apply(shown, b1), g), b2)
  <2> HIDE DEF b1, g, b2
  <2>1. Followed(b1, g) \in Packets
    BY <1>7, FollowedType
  <2> QED BY <1>7, <2>1, ApplyInOrder
<1>9. Current(Apply(shown, Followed(Followed(b1, g), b2)), space',
              tracked_counters', joined_counters')
  <2> HIDE DEF b1, g, b2, out
  <2> QED BY <1>2, <1>6, <1>8
<1>10. tracked_counters' \in [Client -> SUBSET Counter]
  BY DEF Inv, TypeOK
<1>11. Current(shown', space', tracked_counters', joined_counters')
  <2>1. SendCounts(Followed(Followed(b1, g), b2))
    BY <1>1
  <2> HIDE DEF b1, g, b2
  <2>2. Followed(Followed(b1, g), b2) \in Packets
    BY <1>7, FollowedType
  <2> QED BY <1>9, <1>10, <2>1, <2>2, ShownIsCurrent
<1> QED BY <1>11 DEF Know

\* Every handler keeps the trackers informed.
LEMMA NextKnow == Inv /\ Know /\ [Next]_vars /\ Inv' => Know'
<1> SUFFICES ASSUME Inv, Know, [Next]_vars, Inv' PROVE Know'
  OBVIOUS
<1>1. ASSUME NEW c \in Client, Accept(c) PROVE Know'
  BY <1>1, SilenceKnow DEF Accept, lists
<1>2. ASSUME NEW c \in Client, Disconnect(c) PROVE Know'
  BY <1>2, DisconnectKnow
<1>3. ASSUME NEW c \in Client, NEW nm \in NsName, SetNamespace(c, nm) PROVE Know'
  BY <1>3, SetNamespaceKnow
<1>4. ASSUME NEW c \in Client, NEW e \in Event,
             TrackEvent(c, e) \/ UntrackEvent(c, e) \/ TriggerEvent(c, e)
      PROVE  Know'
  BY <1>4, SilenceKnow DEF TrackEvent, UntrackEvent, TriggerEvent, lists
<1>5. ASSUME NEW c \in Client, NEW k \in Counter, UntrackCounter(c, k) PROVE Know'
  <2>1. \A d \in Client : tracked_counters'[d] \subseteq tracked_counters[d]
    BY <1>5, InvFacts DEF UntrackCounter
  <2> QED BY <1>5, <2>1, SilenceKnow DEF UntrackCounter
<1>6. ASSUME NEW c \in Client, NEW k \in Counter,
             TrackCounter(c, k) \/ JoinCounter(c, k) \/ LeaveCounter(c, k)
      PROVE  Know'
  BY <1>6, TrackCounterKnow, JoinCounterKnow, LeaveCounterKnow
<1>7. CASE UNCHANGED vars
  BY <1>7 DEF vars, lists, Know, Current, Count, In
<1> QED BY <1>1, <1>2, <1>3, <1>4, <1>5, <1>6, <1>7 DEF Next

\* Whoever tracks a counter in a namespace was last told the present number of
\* the clients there that joined it.
THEOREM TrackersInformed == Spec => []TrackersCurrent
<1>1. Init => Know
  BY DEF Init, Know, Current
<1>2. Inv /\ Know => TrackersCurrent
  BY InvFacts, TrackersCurrentIsCurrent DEF Know
<1> QED BY <1>1, <1>2, InitInv, NextInv, NextKnow, PTL DEF Spec

-----------------------------------------------------------------------------
(***************************************************************************)
(* The service.                                                            *)
(***************************************************************************)

\* A client knows no count of a counter it does not track, or without a namespace.
NoShow ==
  \A d \in Client, k \in Counter :
    k \notin tracked_counters[d] \/ space[d] = None => shown[d][k] = None

Good == Inv /\ OneNamespacePerName /\ Know /\ NoShow

(***************************************************************************)
(* The mapping.                                                            *)
(***************************************************************************)

\* A client is in a scope when it is in a namespace, and clients are in one
\* scope when they are in one object.
LEMMA ScopeIsSpace ==
  ASSUME Inv, OneNamespacePerName
  PROVE  /\ \A c \in Client : Scope[c] = None <=> space[c] = None
         /\ \A c, d \in Client :
              space[c] # None => (Scope[d] = Scope[c] <=> space[d] = space[c])
<1>1. ASSUME NEW c \in Client, space[c] # None
      PROVE  space[c] \in NsObj /\ Live(space[c]) /\ Scope[c] = ns_name[space[c]] /\ Scope[c] # None
  <2>1. c \in connections /\ space[c] \in NsObj
    BY <1>1 DEF Inv, TypeOK
  <2>2. Live(space[c])
    BY <2>1 DEF Live
  <2>3. Scope[c] = ns_name[space[c]]
    BY <1>1 DEF Scope
  <2> QED BY <2>1, <2>2, <2>3 DEF OneNamespacePerName
<1>2. ASSUME NEW c \in Client, space[c] = None PROVE Scope[c] = None
  BY <1>2 DEF Scope
<1>3. ASSUME NEW c \in Client, NEW d \in Client, space[c] # None, Scope[d] = Scope[c]
      PROVE  space[d] = space[c]
  <2>1. space[d] # None
    BY <1>1, <1>2, <1>3
  <2>2. /\ space[c] \in NsObj /\ space[d] \in NsObj
        /\ Live(space[c]) /\ Live(space[d])
        /\ ns_name[space[c]] = ns_name[space[d]]
    BY <1>1, <1>3, <2>1
  <2> QED BY <2>2 DEF OneNamespacePerName
<1>4. ASSUME NEW c \in Client, NEW d \in Client, space[d] = space[c]
      PROVE  Scope[d] = Scope[c]
  BY <1>4 DEF Scope
<1> QED BY <1>1, <1>2, <1>3, <1>4

\* The history variable is what the service would have told.
ToldOfService ==
  shown = [c \in Client |-> [k \in Counter |->
            IF k \in tracked_counters[c] /\ Scope[c] # None
            THEN Service!Value(connections, Scope, joined_counters, Scope[c], k) ELSE None]]

\* In a good state every client was told what the service tells.
LEMMA GoodTold == Good => ToldOfService
<1> SUFFICES ASSUME Good PROVE ToldOfService
  OBVIOUS
<1>1. ASSUME NEW c \in Client, NEW k \in Counter, k \in tracked_counters[c], Scope[c] # None
      PROVE  shown[c][k] = Service!Value(connections, Scope, joined_counters, Scope[c], k)
  <2>1. space[c] # None
    BY <1>1, ScopeIsSpace DEF Good
  <2>2. {d \in connections : Scope[d] = Scope[c] /\ k \in joined_counters[d]}
          = In(space, joined_counters, space[c], k)
    <3>1. connections \subseteq Client /\ \A d \in Client : d \notin connections => space[d] = None
      BY DEF Good, Inv, TypeOK
    <3>2. \A d \in Client : Scope[d] = Scope[c] <=> space[d] = space[c]
      BY <2>1, ScopeIsSpace DEF Good
    <3> QED BY <2>1, <3>1, <3>2 DEF In
  <2>3. shown[c][k] = Count(space, joined_counters, space[c], k)
    BY <1>1, <2>1 DEF Good, Know, Current
  <2>4. Service!Value(connections, Scope, joined_counters, Scope[c], k)
          = Cardinality({d \in connections : Scope[d] = Scope[c] /\ k \in joined_counters[d]})
    BY DEF Service!Value, Service!Cardinality, Cardinality
  <2> QED BY <2>2, <2>3, <2>4 DEF Count
<1>2. ASSUME NEW c \in Client, NEW k \in Counter, k \notin tracked_counters[c] \/ Scope[c] = None
      PROVE  shown[c][k] = None
  BY <1>2, ScopeIsSpace DEF Good, NoShow
<1>3. shown \in [Client -> [Counter -> Nat \cup {None}]]
  BY DEF Good, Inv, TypeOK
<1> HIDE DEF Good
<1> QED BY <1>1, <1>2, <1>3 DEF ToldOfService

\* Every step from a good state to a good state tells what the service tells.
LEMMA GoodTells == Good' => Service!Tell
<1>1. Good' => ToldOfService'
  BY GoodTold, PTL
<1>2. ToldOfService' => Service!Tell
  BY DEF ToldOfService, Service!Tell
<1> QED BY <1>1, <1>2

(***************************************************************************)
(* The handlers.                                                           *)
(***************************************************************************)

\* Handlers that move nobody leave the scopes as they are.
LEMMA ScopeStays ==
  ASSUME UNCHANGED <<space, ns_name>>
  PROVE  Scope' = Scope
BY DEF Scope

\* Server::add_client.
LEMMA AcceptConnects ==
  ASSUME Good', NEW c \in Client, Accept(c)
  PROVE  Service!Connect(c)
<1>1. Scope' = Scope /\ Service!Tell
  BY GoodTells, ScopeStays DEF Accept
<1> QED BY <1>1 DEF Accept, lists, Service!Connect, NoEvents, Service!Nothing

\* Server::remove_client.
LEMMA DisconnectLeaves ==
  ASSUME Good, Good', NEW c \in Client, Disconnect(c)
  PROVE  Service!Leave(c)
<1>1. Scope' = [Scope EXCEPT ![c] = None]
  <2>1. space' = [space EXCEPT ![c] = None] /\ space \in [Client -> NsObj \cup {None}]
    BY DEF Disconnect, ClientDestroyed, Good, Inv, TypeOK
  <2>2. ASSUME NEW d \in Client, d # c, space[d] # None
        PROVE  ns_name'[space[d]] = ns_name[space[d]]
    <3>1. d \in connections' /\ space'[d] = space[d] /\ space[d] \in NsObj
      BY <2>1, <2>2 DEF Disconnect, Good, Inv, TypeOK
    <3>2. Owned(space[d])
      BY <3>1 DEF Owned
    <3> QED BY <3>1, <3>2 DEF Disconnect
  <2> QED BY <2>1, <2>2 DEF Scope
<1>2. Service!Tell
  BY GoodTells
<1> QED BY <1>1, <1>2 DEF Disconnect, ClientDestroyed, Service!Leave, NoEvents, Service!Nothing

\* Client::set_namespace, whichever object it found or created.
LEMMA SetNamespaceMoves ==
  ASSUME Good, Good', NEW c \in Client, NEW nm \in NsName, SetNamespace(c, nm)
  PROVE  Service!Move(c, nm)
<1>1. PICK o \in NsObj :
        /\ get_namespace(nm, o)
        /\ c \in connections
        /\ UNCHANGED <<connections, lists>>
        /\ space' = [space EXCEPT ![c] = o]
        /\ ns_name' = [p \in NsObj |-> IF p = o THEN nm
                        ELSE IF Owned(p) THEN ns_name[p] ELSE None]
        /\ events_sent' = NoEvents
  BY DEF SetNamespace
<1>2. Scope' = [Scope EXCEPT ![c] = nm]
  <2>1. space \in [Client -> NsObj \cup {None}]
    BY DEF Good, Inv, TypeOK
  <2>2. ASSUME NEW d \in Client, d # c, space[d] # None
        PROVE  ns_name'[space[d]] = ns_name[space[d]]
    <3>1. d \in connections' /\ space'[d] = space[d] /\ space[d] \in NsObj
      BY <1>1, <2>1, <2>2 DEF Good, Inv, TypeOK
    <3>2. Owned(space[d])
      BY <3>1 DEF Owned
    <3>3. CASE space[d] = o
      <4>1. Live(o)
        BY <1>1, <3>1, <3>3 DEF Live
      <4>2. ns_name[o] = nm
        BY <1>1, <4>1 DEF get_namespace, Named
      <4> QED BY <1>1, <3>3, <4>2
    <3>4. CASE space[d] # o
      BY <1>1, <3>1, <3>2, <3>4
    <3> QED BY <3>3, <3>4
  <2>3. space'[c] = o /\ o # None /\ ns_name'[o] = nm
    BY <1>1, <2>1, NullIsNoObject
  <2>4. \A d \in Client : d # c => space'[d] = space[d]
    BY <1>1, <2>1
  <2> QED BY <2>2, <2>3, <2>4 DEF Scope
<1>3. Service!Tell
  BY GoodTells
<1> QED BY <1>1, <1>2, <1>3 DEF lists, Service!Move, NoEvents, Service!Nothing

\* Client::track_event and untrack_event.
LEMMA TrackingListens ==
  ASSUME Good, Good', NEW c \in Client, NEW e \in Event, TrackEvent(c, e) \/ UntrackEvent(c, e)
  PROVE  \E E \in SUBSET Event : Service!Listen(c, E)
<1>1. Scope' = Scope /\ Service!Tell
  BY GoodTells, ScopeStays DEF TrackEvent, UntrackEvent
<1>2. PICK E \in SUBSET Event :
        /\ c \in connections
        /\ tracked_events' = [tracked_events EXCEPT ![c] = E]
        /\ UNCHANGED <<connections, joined_counters, tracked_counters>>
        /\ events_sent' = NoEvents
  <2>1. tracked_events[c] \in SUBSET Event
    BY DEF Good, Inv, TypeOK
  <2>2. CASE TrackEvent(c, e)
    <3> USE <2>1
    <3> WITNESS tracked_events[c] \cup {e} \in SUBSET Event
    <3> QED BY <2>2 DEF TrackEvent
  <2>3. CASE UntrackEvent(c, e)
    <3> USE <2>1
    <3> WITNESS tracked_events[c] \ {e} \in SUBSET Event
    <3> QED BY <2>3 DEF UntrackEvent
  <2> QED BY <2>2, <2>3
<1>3. Service!Listen(c, E)
  BY <1>1, <1>2 DEF Service!Listen, NoEvents, Service!Nothing
<1> QED BY <1>3

\* Client::track_counter and untrack_counter.
LEMMA TrackingWatches ==
  ASSUME Good, Good', NEW c \in Client, NEW k \in Counter,
         TrackCounter(c, k) \/ UntrackCounter(c, k)
  PROVE  \E K \in SUBSET Counter : Service!Watch(c, K)
<1>1. Scope' = Scope /\ Service!Tell
  BY GoodTells, ScopeStays DEF TrackCounter, UntrackCounter
<1>2. PICK K \in SUBSET Counter :
        /\ c \in connections
        /\ tracked_counters' = [tracked_counters EXCEPT ![c] = K]
        /\ UNCHANGED <<connections, joined_counters, tracked_events>>
        /\ events_sent' = NoEvents
  <2>1. tracked_counters[c] \in SUBSET Counter
    BY DEF Good, Inv, TypeOK
  <2>2. CASE TrackCounter(c, k)
    <3> USE <2>1
    <3> WITNESS tracked_counters[c] \cup {k} \in SUBSET Counter
    <3> QED BY <2>2 DEF TrackCounter
  <2>3. CASE UntrackCounter(c, k)
    <3> USE <2>1
    <3> WITNESS tracked_counters[c] \ {k} \in SUBSET Counter
    <3> QED BY <2>3 DEF UntrackCounter
  <2> QED BY <2>2, <2>3
<1>3. Service!Watch(c, K)
  BY <1>1, <1>2 DEF Service!Watch, NoEvents, Service!Nothing
<1> QED BY <1>3

\* Client::join_counter and leave_counter.
LEMMA CountingJoins ==
  ASSUME Good, Good', NEW c \in Client, NEW k \in Counter,
         JoinCounter(c, k) \/ LeaveCounter(c, k)
  PROVE  \E K \in SUBSET Counter : Service!Join(c, K)
<1>1. Scope' = Scope /\ Service!Tell
  BY GoodTells, ScopeStays DEF JoinCounter, LeaveCounter
<1>2. PICK K \in SUBSET Counter :
        /\ c \in connections
        /\ joined_counters' = [joined_counters EXCEPT ![c] = K]
        /\ UNCHANGED <<connections, tracked_counters, tracked_events>>
        /\ events_sent' = NoEvents
  <2>1. joined_counters[c] \in SUBSET Counter
    BY DEF Good, Inv, TypeOK
  <2>2. CASE JoinCounter(c, k)
    <3> USE <2>1
    <3> WITNESS joined_counters[c] \cup {k} \in SUBSET Counter
    <3> QED BY <2>2 DEF JoinCounter
  <2>3. CASE LeaveCounter(c, k)
    <3> USE <2>1
    <3> WITNESS joined_counters[c] \ {k} \in SUBSET Counter
    <3> QED BY <2>3 DEF LeaveCounter
  <2> QED BY <2>2, <2>3
<1>3. Service!Join(c, K)
  BY <1>1, <1>2 DEF Service!Join, NoEvents, Service!Nothing
<1> QED BY <1>3

\* Client::trigger_event: one packet for each listener of the sender's scope.
LEMMA TriggerPublishes ==
  ASSUME Good, Good', NEW c \in Client, NEW e \in Event, TriggerEvent(c, e)
  PROVE  Service!Publish(c, e)
<1>1. Scope' = Scope /\ Service!Tell
  BY GoodTells, ScopeStays DEF TriggerEvent
<1>2. ASSUME NEW d \in Client
      PROVE  Copies(event_listeners, space[c], e, d) =
               IF Scope[c] # None /\ Scope[d] = Scope[c] /\ e \in tracked_events[d] THEN 1 ELSE 0
  <2>1. CASE space[c] = None
    BY <2>1, ScopeIsSpace DEF Good, Copies
  <2>2. CASE space[c] # None
    <3>1. space[c] \in NsObj
      BY <2>2 DEF Good, Inv, TypeOK
    <3>2. event_listeners[space[c]][e] = ListOf(Members(space[c], tracked_events, e))
      BY <3>1 DEF Good, Inv, ListsExact
    <3>3. d \in Members(space[c], tracked_events, e) <=> space[d] = space[c] /\ e \in tracked_events[d]
      BY DEF Members
    <3>4. Scope[c] # None /\ (Scope[d] = Scope[c] <=> space[d] = space[c])
      BY <2>2, ScopeIsSpace DEF Good
    <3>5. space[d] = space[c] => d \in connections
      BY <2>2 DEF Good, Inv, TypeOK
    <3>6. CASE d \in Members(space[c], tracked_events, e)
      <4>1. event_listeners[space[c]][e] # Absent /\ event_listeners[space[c]][e][d] = 1
        BY <3>2, <3>6, AbsentIsNoList DEF ListOf
      <4> QED BY <2>2, <3>3, <3>4, <3>5, <3>6, <4>1 DEF Copies
    <3>7. CASE d \notin Members(space[c], tracked_events, e)
      <4>1. event_listeners[space[c]][e] = Absent \/ event_listeners[space[c]][e][d] = 0
        BY <3>2, <3>7 DEF ListOf
      <4> QED BY <3>3, <3>4, <3>7, <4>1 DEF Copies
    <3> QED BY <3>6, <3>7
  <2> QED BY <2>1, <2>2
<1>3. events_sent' = [d \in Client |-> [n \in Event |->
        IF n = e /\ Scope[c] # None /\ Scope[d] = Scope[c] /\ e \in tracked_events[d] THEN 1 ELSE 0]]
  BY <1>2 DEF TriggerEvent
<1> QED BY <1>1, <1>3 DEF TriggerEvent, lists, Service!Publish

(***************************************************************************)
(* Nothing is known without a namespace.                                   *)
(***************************************************************************)

\* Every handler keeps it: a client without a namespace is in no list, and so is
\* told nothing; a counter that is no longer tracked is forgotten.
LEMMA ToldNothing ==
  ASSUME NoShow, NEW sent \in Packets, SendCounts(sent),
         \A d \in Client : \A k \in tracked_counters'[d] :
           k \in Counter /\ space'[d] = None => space[d] = None /\ Apply(shown, sent)[d][k] = shown[d][k]
  PROVE  NoShow'
<1> SUFFICES ASSUME NEW d \in Client, NEW k \in Counter,
                    k \notin tracked_counters'[d] \/ space'[d] = None
             PROVE  shown'[d][k] = None
  BY DEF NoShow
<1>1. CASE k \notin tracked_counters'[d]
  BY <1>1 DEF SendCounts
<1>2. CASE k \in tracked_counters'[d]
  <2>1. shown'[d][k] = Apply(shown, sent)[d][k]
    BY <1>2 DEF SendCounts, Apply, Told
  <2>2. space[d] = None /\ Apply(shown, sent)[d][k] = shown[d][k]
    BY <1>2
  <2>3. shown[d][k] = None
    BY <2>2 DEF NoShow
  <2> QED BY <2>1, <2>2, <2>3
<1> QED BY <1>1, <1>2

\* A handler that sends no counter.
LEMMA SilenceNoShow ==
  ASSUME Inv, NoShow, SendCounts(Silence), space' = space
  PROVE  NoShow'
<1>1. Apply(shown, Silence) = shown
  BY InvFacts, ApplySilence
<1> QED BY <1>1, SilenceType, ToldNothing

\* Namespace::trigger_counter_event passes over who is in no namespace.
LEMMA BroadcastNotTo ==
  ASSUME NEW x, NEW cl, NEW ct, NEW s, NEW t, NEW tr, NEW jn,
         Exact(cl, Counter, s, tr), Exact(ct, Counter, t, jn),
         NEW o \in NsObj \cup {None}, NEW K, NEW d \in Client, d \in connections,
         NEW k \in Counter, s[d] = None
  PROVE  Apply(x, Broadcast(cl, ct, o, K))[d][k] = x[d][k]
<1> DEFINE y == Apply(x, Broadcast(cl, ct, o, K))
<1>1. Reached(y, x, s, tr, t, jn, o, K)
  BY BroadcastTells
<1> HIDE DEF y
<1>2. y[d][k] = x[d][k]
  BY <1>1 DEF Reached
<1> QED BY <1>2 DEF y

\* Client::track_counter without a namespace is not answered.
LEMMA TrackCounterNoShow ==
  ASSUME Inv, Inv', NoShow, NEW c \in Client, NEW k \in Counter, TrackCounter(c, k)
  PROVE  NoShow'
<1> DEFINE new  == Missing(tracked_counters[c], k)
           sent == Greeting(counters, space[c], new, c)
           y    == Apply(shown, sent)
<1>1. space[c] \in NsObj \cup {None}
  BY InvFacts DEF Spaces
<1>2. Greeted(y, shown, space, joined_counters, space[c], new, c)
  BY <1>1, InvFacts, GreetingTells
<1>3. sent \in Packets
  BY <1>1, InvMaps, GreetingType
<1>4. space' = space /\ SendCounts(sent)
  BY DEF TrackCounter
<1>5. ASSUME NEW d \in Client, NEW n \in Counter, space[d] = None
      PROVE  y[d][n] = shown[d][n]
  <2> HIDE DEF y
  <2> QED BY <1>2, <1>5 DEF Greeted
<1> HIDE DEF sent
<1> QED BY <1>3, <1>4, <1>5, ToldNothing

\* Client::join_counter and leave_counter.
LEMMA CountingNoShow ==
  ASSUME Inv, Inv', NoShow, NEW c \in Client, NEW ct, NEW jm, NEW K,
         Exact(ct, Counter, space, jm),
         SendCounts(Broadcast(counter_listeners, ct, space[c], K)),
         space' = space, tracked_counters' = tracked_counters
  PROVE  NoShow'
<1> DEFINE sent == Broadcast(counter_listeners, ct, space[c], K)
<1>1. space[c] \in NsObj \cup {None}
  BY InvFacts DEF Spaces
<1>2. sent \in Packets
  <2>1. Counts(ct)
    BY DEF Exact, Counts
  <2> QED BY <1>1, <2>1, InvMaps, BroadcastType
<1>3. ASSUME NEW d \in Client, NEW k \in tracked_counters'[d], k \in Counter, space'[d] = None
      PROVE  Apply(shown, sent)[d][k] = shown[d][k]
  <2>1. d \in connections
    BY <1>3, InvFacts DEF Connected
  <2> QED BY <1>1, <1>3, <2>1, InvFacts, BroadcastNotTo
<1>4. SendCounts(sent)
  OBVIOUS
<1> HIDE DEF sent
<1> QED BY <1>2, <1>3, <1>4, ToldNothing

\* The same for the lists of the two handlers.
LEMMA JoinLeaveNoShow ==
  ASSUME Inv, Inv', NoShow, NEW c \in Client, NEW k \in Counter,
         JoinCounter(c, k) \/ LeaveCounter(c, k)
  PROVE  NoShow'
<1>1. CASE JoinCounter(c, k)
  <2> DEFINE ct == AddTo(counters, space[c], Missing(joined_counters[c], k), c)
  <2>1. Exact(ct, Counter, space, [joined_counters EXCEPT ![c] = @ \cup {k}])
    BY InvFacts, AddNameExact
  <2>2. SendCounts(Broadcast(counter_listeners, ct, space[c], Missing(joined_counters[c], k)))
    BY <1>1 DEF JoinCounter
  <2> HIDE DEF ct
  <2> QED BY <1>1, <2>1, <2>2, CountingNoShow DEF JoinCounter
<1>2. CASE LeaveCounter(c, k)
  <2> DEFINE ct == RemoveFrom(counters, space[c], {k} \cap joined_counters[c], c)
  <2>1. Exact(ct, Counter, space, [joined_counters EXCEPT ![c] = @ \ {k}])
    BY InvFacts, RemoveNameExact
  <2>2. SendCounts(Broadcast(counter_listeners, ct, space[c], {k} \cap JoinedKeys(c)))
    BY <1>2 DEF LeaveCounter
  <2> HIDE DEF ct
  <2> QED BY <1>2, <2>1, <2>2, CountingNoShow DEF LeaveCounter
<1> QED BY <1>1, <1>2

\* Server::remove_client.
LEMMA DisconnectNoShow ==
  ASSUME Inv, Inv', NoShow, NEW c \in Client, Disconnect(c)
  PROVE  NoShow'
<1> DEFINE out  == [space EXCEPT ![c] = None]
           cl   == RemoveFrom(counter_listeners, space[c], tracked_counters[c], c)
           ct   == RemoveFrom(counters, space[c], joined_counters[c], c)
           sent == Broadcast(cl, ct, space[c], JoinedKeys(c))
<1>1. /\ space' = out
      /\ tracked_counters' = [tracked_counters EXCEPT ![c] = {}]
      /\ SendCounts(sent)
  BY DEF Disconnect, ClientDestroyed
<1>2. /\ Exact(cl, Counter, out, tracked_counters)
      /\ Exact(ct, Counter, out, joined_counters)
  BY InvFacts, RemoveClientExact
<1>3. space[c] \in NsObj \cup {None}
  BY InvFacts DEF Spaces
<1>4. sent \in Packets
  <2>1. Counts(cl) /\ Counts(ct)
    BY <1>2 DEF Exact, Counts
  <2> QED BY <1>3, <2>1, BroadcastType
<1>5. ASSUME NEW d \in Client, NEW k \in tracked_counters'[d], k \in Counter, space'[d] = None
      PROVE  space[d] = None /\ Apply(shown, sent)[d][k] = shown[d][k]
  <2>1. d # c /\ d \in connections
    BY <1>1, <1>5, InvFacts DEF Connected
  <2>2. space[d] = None /\ out[d] = None
    BY <1>1, <1>5, <2>1, InvFacts DEF Spaces
  <2> HIDE DEF out, cl, ct
  <2> QED BY <1>2, <1>3, <2>1, <2>2, <1>5, BroadcastNotTo
<1> HIDE DEF sent, out
<1> QED BY <1>1, <1>4, <1>5, ToldNothing

\* Client::set_namespace.
LEMMA SetNamespaceNoShow ==
  ASSUME Inv, Inv', NoShow, NEW c \in Client, NEW nm \in NsName, SetNamespace(c, nm)
  PROVE  NoShow'
<1> DEFINE old == space[c]
           T   == tracked_counters[c]
           J   == joined_counters[c]
           out == [space EXCEPT ![c] = None]
           cl1 == RemoveFrom(counter_listeners, old, T, c)
           ct1 == RemoveFrom(counters, old, J, c)
<1>1. PICK o \in NsObj :
        /\ UNCHANGED lists
        /\ space' = [space EXCEPT ![c] = o]
        /\ SendCounts(Followed(Followed(Broadcast(cl1, ct1, old, JoinedKeys(c)),
                                        Greeting(ct1, o, T, c)),
                               Broadcast(AddTo(cl1, o, T, c), AddTo(ct1, o, J, c), o, J)))
  BY DEF SetNamespace
<1> DEFINE cl2 == AddTo(cl1, o, T, c)
           ct2 == AddTo(ct1, o, J, c)
           b1  == Broadcast(cl1, ct1, old, JoinedKeys(c))
           g   == Greeting(ct1, o, T, c)
           b2  == Broadcast(cl2, ct2, o, J)
<1>2. /\ out \in Spaces /\ out[c] = None /\ [out EXCEPT ![c] = o] = space'
      /\ tracked_counters' = tracked_counters
      /\ old \in NsObj \cup {None} /\ o \in NsObj \cup {None}
  BY <1>1, InvFacts DEF lists, Spaces
<1>3. /\ Exact(cl1, Counter, out, tracked_counters)
      /\ Exact(ct1, Counter, out, joined_counters)
  BY InvFacts, RemoveClientExact
<1>4. /\ Exact(cl2, Counter, space', tracked_counters)
      /\ Exact(ct2, Counter, space', joined_counters)
  <2> HIDE DEF out, cl1, ct1
  <2> QED BY <1>2, <1>3, InvFacts, AddClientExact
<1>5. b1 \in Packets /\ g \in Packets /\ b2 \in Packets
  <2>1. Counts(cl1) /\ Counts(ct1) /\ Counts(cl2) /\ Counts(ct2)
    BY <1>3, <1>4 DEF Exact, Counts
  <2> HIDE DEF cl1, ct1, cl2, ct2, old
  <2> QED BY <1>2, <2>1, BroadcastType, GreetingType
<1>6. /\ Followed(b1, g) \in Packets
      /\ Followed(Followed(b1, g), b2) \in Packets
      /\ Apply(shown, Followed(Followed(b1, g), b2)) = Apply(Apply(Apply(shown, b1), g), b2)
  <2> HIDE DEF b1, g, b2
  <2>1. Followed(b1, g) \in Packets
    BY <1>5, FollowedType
  <2> QED BY <1>5, <2>1, FollowedType, ApplyInOrder
<1>7. ASSUME NEW d \in Client, NEW k \in tracked_counters'[d], k \in Counter, space'[d] = None
      PROVE  /\ space[d] = None
             /\ Apply(Apply(Apply(shown, b1), g), b2)[d][k] = shown[d][k]
  <2>1. d # c /\ d \in connections /\ space[d] = None /\ out[d] = None
    BY <1>1, <1>2, <1>7, NullIsNoObject, InvFacts DEF Connected, Spaces
  <2>2. Apply(shown, b1)[d][k] = shown[d][k]
    <3> HIDE DEF out, cl1, ct1, old
    <3> QED BY <1>2, <1>3, <1>7, <2>1, BroadcastNotTo
  <2>3. Apply(Apply(shown, b1), g)[d][k] = Apply(shown, b1)[d][k]
    <3> DEFINE x == Apply(shown, b1)
               y == Apply(x, g)
    <3> HIDE DEF x
    <3>1. Greeted(y, x, out, joined_counters, o, T, c)
      <4> HIDE DEF out, ct1, T
      <4> QED BY <1>2, <1>3, GreetingTells
    <3> HIDE DEF y
    <3>2. y[d][k] = x[d][k]
      BY <1>7, <2>1, <3>1 DEF Greeted
    <3> QED BY <3>2 DEF x, y
  <2>4. Apply(Apply(Apply(shown, b1), g), b2)[d][k] = Apply(Apply(shown, b1), g)[d][k]
    <3> HIDE DEF b1, g, cl2, ct2, J
    <3> QED BY <1>2, <1>4, <1>7, <2>1, BroadcastNotTo
  <2> QED BY <2>1, <2>2, <2>3, <2>4
<1>8. SendCounts(Followed(Followed(b1, g), b2))
  BY <1>1
<1> HIDE DEF b1, g, b2
<1> QED BY <1>6, <1>7, <1>8, ToldNothing

(***************************************************************************)
(* The refinement.                                                         *)
(***************************************************************************)

\* Every handler keeps NoShow.
LEMMA NextNoShow == Inv /\ NoShow /\ [Next]_vars /\ Inv' => NoShow'
<1> SUFFICES ASSUME Inv, NoShow, [Next]_vars, Inv' PROVE NoShow'
  OBVIOUS
<1>1. ASSUME NEW c \in Client, Accept(c) PROVE NoShow'
  BY <1>1, SilenceNoShow DEF Accept
<1>2. ASSUME NEW c \in Client, Disconnect(c) PROVE NoShow'
  BY <1>2, DisconnectNoShow
<1>3. ASSUME NEW c \in Client, NEW nm \in NsName, SetNamespace(c, nm) PROVE NoShow'
  BY <1>3, SetNamespaceNoShow
<1>4. ASSUME NEW c \in Client, NEW e \in Event,
             TrackEvent(c, e) \/ UntrackEvent(c, e) \/ TriggerEvent(c, e)
      PROVE  NoShow'
  BY <1>4, SilenceNoShow DEF TrackEvent, UntrackEvent, TriggerEvent
<1>5. ASSUME NEW c \in Client, NEW k \in Counter, UntrackCounter(c, k) PROVE NoShow'
  BY <1>5, SilenceNoShow DEF UntrackCounter
<1>6. ASSUME NEW c \in Client, NEW k \in Counter,
             TrackCounter(c, k) \/ JoinCounter(c, k) \/ LeaveCounter(c, k)
      PROVE  NoShow'
  BY <1>6, TrackCounterNoShow, JoinLeaveNoShow
<1>7. CASE UNCHANGED vars
  BY <1>7 DEF vars, lists, NoShow
<1> QED BY <1>1, <1>2, <1>3, <1>4, <1>5, <1>6, <1>7 DEF Next

\* The good states are an invariant.
LEMMA GoodInvariant == Init => Good
<1>1. Init => OneNamespacePerName
  BY DEF Init, OneNamespacePerName, Live
<1>2. Init => Know
  BY DEF Init, Know, Current
<1>3. Init => NoShow
  BY DEF Init, NoShow
<1> QED BY <1>1, <1>2, <1>3, InitInv DEF Good

\* And every step leads from one to another.
LEMMA GoodStep == Good /\ [Next]_vars => Good'
<1>1. Good /\ [Next]_vars => Inv'
  BY NextInv DEF Good
<1>2. Good /\ [Next]_vars => OneNamespacePerName'
  BY NextKeepsNames DEF Good
<1>3. Good /\ [Next]_vars => Know'
  BY <1>1, NextKnow DEF Good
<1>4. Good /\ [Next]_vars => NoShow'
  BY <1>1, NextNoShow DEF Good
<1> QED BY <1>1, <1>2, <1>3, <1>4 DEF Good

\* The server starts as the service does.
LEMMA InitImplements == Init => Service!Init
BY DEF Init, Scope, Service!Init, NoEvents, Service!Nothing

\* Every step of the server is a step of the service.
LEMMA StepImplements == Good /\ [Next]_vars => [Service!Next]_(Service!vars)
<1> SUFFICES ASSUME Good, [Next]_vars PROVE [Service!Next]_(Service!vars)
  OBVIOUS
<1>1. Good'
  BY GoodStep
<1>2. ASSUME NEW c \in Client, Accept(c) PROVE Service!Next
  BY <1>1, <1>2, AcceptConnects DEF Service!Next
<1>3. ASSUME NEW c \in Client, Disconnect(c) PROVE Service!Next
  BY <1>1, <1>3, DisconnectLeaves DEF Service!Next
<1>4. ASSUME NEW c \in Client, NEW nm \in NsName, SetNamespace(c, nm) PROVE Service!Next
  BY <1>1, <1>4, SetNamespaceMoves DEF Service!Next
<1>5. ASSUME NEW c \in Client, NEW e \in Event, TrackEvent(c, e) \/ UntrackEvent(c, e)
      PROVE  Service!Next
  BY <1>1, <1>5, TrackingListens DEF Service!Next
<1>6. ASSUME NEW c \in Client, NEW e \in Event, TriggerEvent(c, e) PROVE Service!Next
  BY <1>1, <1>6, TriggerPublishes DEF Service!Next
<1>7. ASSUME NEW c \in Client, NEW k \in Counter, TrackCounter(c, k) \/ UntrackCounter(c, k)
      PROVE  Service!Next
  BY <1>1, <1>7, TrackingWatches DEF Service!Next
<1>8. ASSUME NEW c \in Client, NEW k \in Counter, JoinCounter(c, k) \/ LeaveCounter(c, k)
      PROVE  Service!Next
  BY <1>1, <1>8, CountingJoins DEF Service!Next
<1>9. CASE UNCHANGED vars
  BY <1>9, ScopeStays DEF vars, lists, Service!vars
<1> QED BY <1>2, <1>3, <1>4, <1>5, <1>6, <1>7, <1>8, <1>9 DEF Next

\* The server implements the service: its objects, weak pointers and double
\* bookkeeping are invisible to clients.
THEOREM ServerImplementsService == Spec => ImplementsBroker
<1>1. Spec => []Good
  BY GoodInvariant, GoodStep, PTL DEF Spec
<1> QED BY <1>1, InitImplements, StepImplements, PTL DEF Spec, ImplementsBroker, Service!Spec

-----------------------------------------------------------------------------
(***************************************************************************)
(* The programs (module Session).  A program's packets are handled in the  *)
(* order it sent them, so that what it asked for last is what the server   *)
(* comes to: of each pair of opposite packets, the one that says what is   *)
(* wanted is behind all of the other one.                                  *)
(***************************************************************************)
Packet(op, n) == [op |-> op, name |-> n]

\* Behind every packet of others there is the packet last, and it is there at all
\* unless what it asks for holds already (x is in D).
Ends(q, last, others, x, D) ==
  /\ \A i \in DOMAIN q : q[i] \in others => \E m \in DOMAIN q : m > i /\ q[m] = last
  /\ x \in D \/ \E m \in DOMAIN q : q[m] = last

\* Never two packets on without a packet off between them, the first one counted
\* that was handled already (x is in D).
Alternate(q, on, off, x, D) ==
  \A j \in DOMAIN q : q[j] = on =>
    /\ x \in D => \E m \in DOMAIN q : m < j /\ q[m] = off
    /\ \A i \in DOMAIN q : i < j /\ q[i] = on =>
         \E m \in DOMAIN q : i < m /\ m < j /\ q[m] = off

\* The positions of a queue with one more packet.
LEMMA AppendAt ==
  ASSUME NEW R, NEW q \in Seq(R), NEW r \in R
  PROVE  /\ DOMAIN Append(q, r) = 1..Len(q) + 1
         /\ DOMAIN q = 1..Len(q) /\ Len(q) \in Nat
         /\ Append(q, r)[Len(q) + 1] = r
         /\ \A i \in DOMAIN q : i \in DOMAIN Append(q, r) /\ Append(q, r)[i] = q[i]
OBVIOUS

\* And of one whose first packet is taken away.
LEMMA TailAt ==
  ASSUME NEW R, NEW q \in Seq(R), q # <<>>
  PROVE  /\ DOMAIN Tail(q) = 1..Len(q) - 1
         /\ DOMAIN q = 1..Len(q) /\ Len(q) \in Nat \ {0}
         /\ Head(q) = q[1] /\ 1 \in DOMAIN q
         /\ \A i \in DOMAIN Tail(q) : i + 1 \in DOMAIN q /\ Tail(q)[i] = q[i + 1]
         /\ \A i \in DOMAIN q : i > 1 => i - 1 \in DOMAIN Tail(q) /\ Tail(q)[i - 1] = q[i]
OBVIOUS

\* The packet last is sent.
LEMMA EndsAppendLast ==
  ASSUME NEW R, NEW q \in Seq(R), NEW last \in R, NEW others, last \notin others, NEW x, NEW D
  PROVE  Ends(Append(q, last), last, others, x, D)
<1> DEFINE p == Append(q, last)
<1>1. /\ DOMAIN p = 1..Len(q) + 1 /\ Len(q) \in Nat /\ p[Len(q) + 1] = last
  BY AppendAt
<1> HIDE DEF p
<1>2. Len(q) + 1 \in DOMAIN p
  BY <1>1
<1>3. \A i \in DOMAIN p : p[i] \in others => Len(q) + 1 > i
  BY <1>1
<1>4. Ends(p, last, others, x, D)
  BY <1>1, <1>2, <1>3 DEF Ends
<1> QED BY <1>4 DEF p

\* Another packet is sent, and none of the others.
LEMMA EndsAppend ==
  ASSUME NEW R, NEW q \in Seq(R), NEW r \in R, NEW last, NEW others, r \notin others, NEW x, NEW D,
         Ends(q, last, others, x, D)
  PROVE  Ends(Append(q, r), last, others, x, D)
<1> DEFINE p == Append(q, r)
<1>1. /\ DOMAIN p = 1..Len(q) + 1 /\ DOMAIN q = 1..Len(q) /\ Len(q) \in Nat
      /\ p[Len(q) + 1] = r
      /\ \A i \in DOMAIN q : i \in DOMAIN p /\ p[i] = q[i]
  BY AppendAt
<1> HIDE DEF p
<1>2. \A i \in DOMAIN p : p[i] \in others => i \in DOMAIN q
  BY <1>1
<1>3. Ends(p, last, others, x, D)
  BY <1>1, <1>2 DEF Ends
<1> QED BY <1>3 DEF p

\* The oldest packet is handled.
LEMMA EndsTail ==
  ASSUME NEW R, NEW q \in Seq(R), q # <<>>, NEW last, NEW others, NEW x, NEW D, NEW y, NEW E,
         Ends(q, last, others, x, D),
         Head(q) = last => y \in E,
         Head(q) \notin others /\ x \in D => y \in E
  PROVE  Ends(Tail(q), last, others, y, E)
<1> DEFINE p == Tail(q)
<1>1. /\ DOMAIN q = 1..Len(q) /\ Len(q) \in Nat /\ Head(q) = q[1] /\ 1 \in DOMAIN q
      /\ DOMAIN p = 1..Len(q) - 1
      /\ \A i \in DOMAIN p : i + 1 \in DOMAIN q /\ p[i] = q[i + 1]
      /\ \A i \in DOMAIN q : i > 1 => i - 1 \in DOMAIN p /\ p[i - 1] = q[i]
  BY TailAt
<1> HIDE DEF p
<1>2. ASSUME NEW i \in DOMAIN p, p[i] \in others
      PROVE  \E m \in DOMAIN p : m > i /\ p[m] = last
  <2>1. PICK m \in DOMAIN q : m > i + 1 /\ q[m] = last
    BY <1>1, <1>2 DEF Ends
  <2>2. m - 1 \in DOMAIN p /\ m - 1 > i /\ p[m - 1] = last
    BY <1>1, <2>1
  <2> QED BY <2>2
<1>3. y \in E \/ \E m \in DOMAIN p : p[m] = last
  <2>1. ASSUME NEW m \in DOMAIN q, m > 1, q[m] = last PROVE \E n \in DOMAIN p : p[n] = last
    BY <1>1, <2>1
  <2>2. CASE Head(q) = last
    BY <2>2
  <2>3. CASE Head(q) \in others
    BY <1>1, <2>1, <2>3 DEF Ends
  <2>4. CASE Head(q) \notin others /\ Head(q) # last
    <3>1. \A m \in DOMAIN q : q[m] = last => m > 1
      BY <1>1, <2>4
    <3> QED BY <2>1, <2>4, <3>1 DEF Ends
  <2> QED BY <2>2, <2>3, <2>4
<1>4. Ends(p, last, others, y, E)
  BY <1>2, <1>3 DEF Ends
<1> QED BY <1>4 DEF p

\* The packet on is sent when the queue ends in off, or off holds.
LEMMA AlternateAppendOn ==
  ASSUME NEW R, NEW q \in Seq(R), NEW on \in R, NEW off, on # off, NEW x, NEW D, NEW U,
         Ends(q, off, {on}, x, U), x \in D => x \notin U,
         Alternate(q, on, off, x, D)
  PROVE  Alternate(Append(q, on), on, off, x, D)
<1> DEFINE p == Append(q, on)
<1>1. /\ DOMAIN p = 1..Len(q) + 1 /\ DOMAIN q = 1..Len(q) /\ Len(q) \in Nat
      /\ p[Len(q) + 1] = on
      /\ \A i \in DOMAIN q : i \in DOMAIN p /\ p[i] = q[i]
  BY AppendAt
<1> HIDE DEF p
<1> SUFFICES ASSUME NEW j \in DOMAIN p, p[j] = on
             PROVE  /\ x \in D => \E m \in DOMAIN p : m < j /\ p[m] = off
                    /\ \A i \in DOMAIN p : i < j /\ p[i] = on =>
                         \E m \in DOMAIN p : i < m /\ m < j /\ p[m] = off
  BY DEF Alternate, p
<1>2. CASE j \in DOMAIN q
  <2>1. \A i \in DOMAIN p : i < j => i \in DOMAIN q
    BY <1>1, <1>2
  <2> QED BY <1>1, <1>2, <2>1 DEF Alternate
<1>3. CASE j \notin DOMAIN q
  <2>1. \A i \in DOMAIN q : i < j
    BY <1>1, <1>3
  <2>2. \A i \in DOMAIN p : i < j => i \in DOMAIN q
    BY <1>1, <1>3
  <2>3. x \in D => \E m \in DOMAIN q : q[m] = off
    BY DEF Ends
  <2>4. \A i \in DOMAIN q : q[i] = on => \E m \in DOMAIN q : m > i /\ q[m] = off
    BY DEF Ends
  <2>5. \A i \in DOMAIN q, m \in DOMAIN q : m > i <=> i < m
    BY <1>1
  <2> QED BY <1>1, <2>1, <2>2, <2>3, <2>4, <2>5
<1> QED BY <1>2, <1>3

\* Another packet is sent.
LEMMA AlternateAppend ==
  ASSUME NEW R, NEW q \in Seq(R), NEW r \in R, NEW on, NEW off, r # on, NEW x, NEW D,
         Alternate(q, on, off, x, D)
  PROVE  Alternate(Append(q, r), on, off, x, D)
<1> DEFINE p == Append(q, r)
<1>1. /\ DOMAIN p = 1..Len(q) + 1 /\ DOMAIN q = 1..Len(q) /\ Len(q) \in Nat
      /\ p[Len(q) + 1] = r
      /\ \A i \in DOMAIN q : i \in DOMAIN p /\ p[i] = q[i]
  BY AppendAt
<1> HIDE DEF p
<1>2. \A i \in DOMAIN p : p[i] = on => i \in DOMAIN q
  BY <1>1
<1>3. Alternate(p, on, off, x, D)
  BY <1>1, <1>2 DEF Alternate
<1> QED BY <1>3 DEF p

\* The oldest packet is handled.
LEMMA AlternateTail ==
  ASSUME NEW R, NEW q \in Seq(R), q # <<>>, NEW on, NEW off, on # off, NEW x, NEW D, NEW E,
         Alternate(q, on, off, x, D),
         Head(q) = off => x \notin E,
         Head(q) \notin {on, off} /\ x \in E => x \in D
  PROVE  Alternate(Tail(q), on, off, x, E)
<1> DEFINE p == Tail(q)
<1>1. /\ DOMAIN q = 1..Len(q) /\ Len(q) \in Nat /\ Head(q) = q[1] /\ 1 \in DOMAIN q
      /\ DOMAIN p = 1..Len(q) - 1
      /\ \A i \in DOMAIN p : i + 1 \in DOMAIN q /\ p[i] = q[i + 1]
      /\ \A i \in DOMAIN q : i > 1 => i - 1 \in DOMAIN p /\ p[i - 1] = q[i]
  BY TailAt
<1> HIDE DEF p
<1> SUFFICES ASSUME NEW j \in DOMAIN p, p[j] = on
             PROVE  /\ x \in E => \E m \in DOMAIN p : m < j /\ p[m] = off
                    /\ \A i \in DOMAIN p : i < j /\ p[i] = on =>
                         \E m \in DOMAIN p : i < m /\ m < j /\ p[m] = off
  BY DEF Alternate, p
<1>2. j + 1 \in DOMAIN q /\ q[j + 1] = on
  BY <1>1
<1>3. ASSUME NEW i \in DOMAIN q, i < j + 1, NEW m \in DOMAIN q, i < m, m < j + 1, q[m] = off
      PROVE  m - 1 \in DOMAIN p /\ i - 1 < m - 1 /\ m - 1 < j /\ p[m - 1] = off
  BY <1>1, <1>3
<1>4. ASSUME NEW i \in DOMAIN p, i < j, p[i] = on
      PROVE  \E m \in DOMAIN p : i < m /\ m < j /\ p[m] = off
  <2>1. i + 1 \in DOMAIN q /\ q[i + 1] = on /\ i + 1 < j + 1
    BY <1>1, <1>4
  <2>2. PICK m \in DOMAIN q : i + 1 < m /\ m < j + 1 /\ q[m] = off
    BY <1>2, <2>1 DEF Alternate
  <2>3. m - 1 \in DOMAIN p /\ i < m - 1 /\ m - 1 < j /\ p[m - 1] = off
    BY <1>1, <2>2
  <2> QED BY <2>3
<1>5. ASSUME x \in E
      PROVE  \E m \in DOMAIN p : m < j /\ p[m] = off
  <2>1. CASE Head(q) = on
    <3>1. 1 < j + 1
      BY <1>1
    <3>2. PICK m \in DOMAIN q : 1 < m /\ m < j + 1 /\ q[m] = off
      BY <1>1, <1>2, <2>1, <3>1 DEF Alternate
    <3> QED BY <1>1, <1>3, <3>1, <3>2
  <2>2. CASE Head(q) \notin {on, off}
    <3>1. PICK m \in DOMAIN q : m < j + 1 /\ q[m] = off
      BY <1>2, <1>5, <2>2 DEF Alternate
    <3>2. m > 1
      BY <1>1, <2>2, <3>1
    <3>3. m - 1 \in DOMAIN p /\ m - 1 < j /\ p[m - 1] = off
      BY <1>1, <3>1, <3>2
    <3> QED BY <3>3
  <2> QED BY <1>5, <2>1, <2>2
<1> QED BY <1>4, <1>5

\* What client c asked for last is what the server comes to: the namespace, ...
SpaceAgrees(c) ==
  Ends(requests[c], Packet("set_namespace", wanted[c].space),
       {Packet("set_namespace", nm) : nm \in NsName \ {wanted[c].space}},
       Scope[c], {wanted[c].space})

\* ... the counters that count it, ...
JoinAgrees(c, k) ==
  IF k \in wanted[c].joined
  THEN Ends(requests[c], Packet("join_counter", k), {Packet("leave_counter", k)},
            k, joined_counters[c])
  ELSE Ends(requests[c], Packet("leave_counter", k), {Packet("join_counter", k)},
            k, Counter \ joined_counters[c])

\* ... and those it is told of; it never asks twice for those.
TrackAgrees(c, k) ==
  /\ IF k \in listening[c]
     THEN Ends(requests[c], Packet("track_counter", k), {Packet("untrack_counter", k)},
               k, tracked_counters[c])
     ELSE Ends(requests[c], Packet("untrack_counter", k), {Packet("track_counter", k)},
               k, Counter \ tracked_counters[c])
  /\ Alternate(requests[c], Packet("track_counter", k), Packet("untrack_counter", k),
               k, tracked_counters[c])

ClientAgrees(c) ==
  /\ SpaceAgrees(c)
  /\ \A k \in Counter : JoinAgrees(c, k) /\ TrackAgrees(c, k)

\* No packet that has the server greet the listeners of c is on its way.
Tracking(c, k) == \A i \in DOMAIN requests[c] : requests[c][i] # Packet("track_counter", k)

\* What listeners hear when they have received all is what the server told last.
Hears(c, k) ==
  k \in listening[c] /\ Tracking(c, k) /\ Scope[c] # None =>
    Told(heard[c][k], inbox[c][k]) = shown[c][k]

Agrees(c) == ClientAgrees(c) /\ \A k \in Counter : Hears(c, k)

Agreement == \A c \in Client : Agrees(c)

SessionInv == Good /\ SessionTypeOK /\ Agreement

-----------------------------------------------------------------------------
\* A packet, a program and a queue have their types.
LEMMA PacketType ==
  /\ \A nm \in NsName : Packet("set_namespace", nm) \in Request
  /\ \A k \in Counter, op \in {"track_counter", "untrack_counter", "join_counter", "leave_counter"} :
       Packet(op, k) \in Request
BY DEF Packet, Request

\* Packets are the same if what they ask for is.
LEMMA SamePacket ==
  ASSUME NEW r \in Request, NEW op, NEW n
  PROVE  r = Packet(op, n) <=> r.op = op /\ r.name = n
BY DEF Packet, Request

LEMMA PacketFields ==
  ASSUME NEW op, NEW n
  PROVE  Packet(op, n).op = op /\ Packet(op, n).name = n
BY DEF Packet

\* The steps of the programs leave the server alone, its own are those of
\* WhiteBell.
LEMMA ServerSteps == SessionTypeOK /\ SessionNext => [Next]_vars
<1> SUFFICES ASSUME SessionTypeOK, NEW c \in Client,
                    \/ Connect(c)
                    \/ Leave(c)
                    \/ \E nm \in NsName : set_namespace(c, nm)
                    \/ \E k \in Counter : \/ track_counter(c, k)
                                          \/ untrack_counter(c, k)
                                          \/ join_counter(c, k)
                                          \/ leave_counter(c, k)
                    \/ Serve(c)
                    \/ receive(c)
             PROVE  [Next]_vars
  BY DEF SessionNext
<1>1. CASE Connect(c)
  BY <1>1 DEF Connect, Next
<1>2. CASE Leave(c)
  BY <1>2 DEF Leave, Next
<1>3. ASSUME NEW nm \in NsName, set_namespace(c, nm) PROVE UNCHANGED vars
  BY <1>3 DEF set_namespace, send
<1>4. ASSUME NEW k \in Counter,
             track_counter(c, k) \/ untrack_counter(c, k) \/ join_counter(c, k) \/ leave_counter(c, k)
      PROVE  UNCHANGED vars
  BY <1>4 DEF track_counter, untrack_counter, join_counter, leave_counter, send
<1>5. CASE Serve(c)
  <2>1. Head(requests[c]) \in Request
    BY <1>5 DEF Serve, SessionTypeOK
  <2> DEFINE r == Head(requests[c])
  <2>2. Handler(c, r) /\ r \in Request
    BY <1>5, <2>1 DEF Serve
  <2> HIDE DEF r
  <2>3. CASE r.op = "set_namespace"
    <3>1. r.name \in NsName
      BY <2>2, <2>3 DEF Request
    <3> QED BY <2>2, <2>3, <3>1 DEF Handler, Next
  <2>4. CASE r.op # "set_namespace"
    <3>1. r.name \in Counter
      BY <2>2, <2>4 DEF Request
    <3> QED BY <2>2, <2>4, <3>1 DEF Handler, Next
  <2> QED BY <2>3, <2>4
<1>6. CASE receive(c)
  BY <1>6 DEF receive
<1> QED BY <1>1, <1>2, <1>3, <1>4, <1>5, <1>6

(***************************************************************************)
(* What a handler does to who is where and who asked for what.             *)
(***************************************************************************)
LEMMA HandlerEffects ==
  ASSUME Good, Good', NEW c \in Client, NEW r \in Request, Handler(c, r)
  PROVE  /\ c \in connections /\ connections' = connections
         /\ Scope' = [Scope EXCEPT ![c] = IF r.op = "set_namespace" THEN r.name ELSE @]
         /\ tracked_counters' = [tracked_counters EXCEPT ![c] =
              IF r.op = "track_counter" THEN @ \cup {r.name}
              ELSE IF r.op = "untrack_counter" THEN @ \ {r.name} ELSE @]
         /\ joined_counters' = [joined_counters EXCEPT ![c] =
              IF r.op = "join_counter" THEN @ \cup {r.name}
              ELSE IF r.op = "leave_counter" THEN @ \ {r.name} ELSE @]
<1> DEFINE n == r.name
<1>0. /\ Scope = [Scope EXCEPT ![c] = @]
      /\ tracked_counters = [tracked_counters EXCEPT ![c] = @]
      /\ joined_counters = [joined_counters EXCEPT ![c] = @]
  BY DEF Scope, Good, Inv, TypeOK
<1>1. CASE r.op = "set_namespace" /\ SetNamespace(c, n)
  <2>1. n \in NsName
    BY <1>1 DEF Request
  <2>2. Service!Move(c, n)
    BY <1>1, <2>1, SetNamespaceMoves
  <2> QED BY <1>0, <1>1, <2>2 DEF Service!Move
<1>2. CASE r.op = "track_counter" /\ TrackCounter(c, n)
  <2>1. Scope' = Scope
    BY <1>2, ScopeStays DEF TrackCounter
  <2> QED BY <1>0, <1>2, <2>1 DEF TrackCounter
<1>3. CASE r.op = "untrack_counter" /\ UntrackCounter(c, n)
  <2>1. Scope' = Scope
    BY <1>3, ScopeStays DEF UntrackCounter
  <2> QED BY <1>0, <1>3, <2>1 DEF UntrackCounter
<1>4. CASE r.op = "join_counter" /\ JoinCounter(c, n)
  <2>1. Scope' = Scope
    BY <1>4, ScopeStays DEF JoinCounter
  <2> QED BY <1>0, <1>4, <2>1 DEF JoinCounter
<1>5. CASE r.op = "leave_counter" /\ LeaveCounter(c, n)
  <2>1. Scope' = Scope
    BY <1>5, ScopeStays DEF LeaveCounter
  <2> QED BY <1>0, <1>5, <2>1 DEF LeaveCounter
<1> QED BY <1>1, <1>2, <1>3, <1>4, <1>5 DEF Handler

\* The history variable follows the packets of the step.
LEMMA HandlersSend ==
  ASSUME Good', NEW c \in Client, NEW r \in Request,
         Handler(c, r) \/ Disconnect(c) \/ Accept(c)
  PROVE  SendCounts(counts_sent') /\ counts_sent' \in Packets
<1>1. \E sent : SendCounts(sent)
  <2>1. CASE Handler(c, r)
    <3>1. ASSUME SetNamespace(c, r.name) PROVE \E sent : SendCounts(sent)
      BY <3>1 DEF SetNamespace
    <3>2. ASSUME TrackCounter(c, r.name) \/ UntrackCounter(c, r.name)
          PROVE  \E sent : SendCounts(sent)
      BY <3>2 DEF TrackCounter, UntrackCounter
    <3>3. ASSUME JoinCounter(c, r.name) \/ LeaveCounter(c, r.name)
          PROVE  \E sent : SendCounts(sent)
      BY <3>3 DEF JoinCounter, LeaveCounter
    <3> QED BY <2>1, <3>1, <3>2, <3>3 DEF Handler
  <2>2. CASE Disconnect(c)
    BY <2>2 DEF Disconnect
  <2>3. CASE Accept(c)
    BY <2>3 DEF Accept
  <2> QED BY <2>1, <2>2, <2>3
<1>2. SendCounts(counts_sent')
  <2>1. PICK sent : SendCounts(sent)
    BY <1>1
  <2>2. counts_sent' = sent
    BY <2>1 DEF SendCounts
  <2> QED BY <2>1, <2>2
<1>3. counts_sent' \in Packets
  BY DEF Good, Inv, TypeOK, Packets
<1> QED BY <1>2, <1>3

\* Who comes to a namespace is told of the counters it tracks.
LEMMA MovedIsTold ==
  ASSUME Inv, NEW c \in Client, NEW nm, SetNamespace(c, nm), NEW k \in tracked_counters[c]
  PROVE  counts_sent'[c][k] # <<>>
<1> DEFINE old == space[c]
           T   == tracked_counters[c]
           J   == joined_counters[c]
           out == [space EXCEPT ![c] = None]
           cl1 == RemoveFrom(counter_listeners, old, T, c)
           ct1 == RemoveFrom(counters, old, J, c)
<1>1. PICK o \in NsObj :
        SendCounts(Followed(Followed(Broadcast(cl1, ct1, old, JoinedKeys(c)),
                                     Greeting(ct1, o, T, c)),
                            Broadcast(AddTo(cl1, o, T, c), AddTo(ct1, o, J, c), o, J)))
  BY DEF SetNamespace
<1> DEFINE cl2 == AddTo(cl1, o, T, c)
           ct2 == AddTo(ct1, o, J, c)
           b1  == Broadcast(cl1, ct1, old, JoinedKeys(c))
           g   == Greeting(ct1, o, T, c)
           b2  == Broadcast(cl2, ct2, o, J)
<1>2. /\ Exact(cl1, Counter, out, tracked_counters)
      /\ Exact(ct1, Counter, out, joined_counters)
  BY InvFacts, RemoveClientExact
<1>3. out \in Spaces /\ out[c] = None
  BY InvFacts DEF Spaces
<1>4. /\ Exact(cl2, Counter, [out EXCEPT ![c] = o], tracked_counters)
      /\ Exact(ct2, Counter, [out EXCEPT ![c] = o], joined_counters)
  <2> HIDE DEF out, cl1, ct1
  <2> QED BY <1>2, <1>3, InvFacts, AddClientExact
<1>5. b1 \in Packets /\ g \in Packets /\ b2 \in Packets
  <2>1. Counts(cl1) /\ Counts(ct1) /\ Counts(cl2) /\ Counts(ct2)
    BY <1>2, <1>4 DEF Exact, Counts
  <2>2. old \in NsObj \cup {None}
    BY InvFacts DEF Spaces
  <2> HIDE DEF cl1, ct1, cl2, ct2, old
  <2> QED BY <2>1, <2>2, BroadcastType, GreetingType
<1>6. k \in Counter /\ c \in Client /\ o # None
  BY InvFacts, NullIsNoObject
<1>7. g[c][k] # <<>>
  BY <1>6 DEF Greeting
<1>8. counts_sent'[c][k] = (b1[c][k] \o g[c][k]) \o b2[c][k]
  <2>1. counts_sent' = Followed(Followed(b1, g), b2)
    BY <1>1 DEF SendCounts
  <2> HIDE DEF b1, g, b2
  <2> QED BY <1>6, <2>1 DEF Followed
<1>9. \A x, y, z \in Seq(Nat) : y # <<>> => (x \o y) \o z # <<>>
  OBVIOUS
<1>10. b1[c][k] \in Seq(Nat) /\ g[c][k] \in Seq(Nat) /\ b2[c][k] \in Seq(Nat)
  <2> HIDE DEF b1, g, b2
  <2> QED BY <1>5, <1>6 DEF Packets
<1> HIDE DEF b1, g, b2
<1> QED BY <1>7, <1>8, <1>9, <1>10

\* And so is who starts to track one in a namespace.
LEMMA TrackerIsTold ==
  ASSUME Inv, NEW c \in Client, NEW k \in Counter, TrackCounter(c, k),
         k \notin tracked_counters[c], space[c] # None
  PROVE  counts_sent'[c][k] # <<>>
<1>1. counts_sent'[c][k] = <<size(counters[space[c]][k])>>
  BY DEF TrackCounter, SendCounts, Greeting, Missing
<1> QED BY <1>1

(***************************************************************************)
(* A program sends a packet; it stays with the rest of what was agreed.    *)
(***************************************************************************)

\* What a packet says of the queue of its sender.
Sends(c, r) ==
  /\ requests[c] \in Seq(Request) /\ r \in Request
  /\ requests'[c] = Append(requests[c], r)
  /\ UNCHANGED vars

LEMMA SendsNothingElse ==
  ASSUME NEW c, NEW r, Sends(c, r)
  PROVE  Scope' = Scope /\ UNCHANGED <<tracked_counters, joined_counters, shown, connections>>
BY ScopeStays DEF Sends, vars, lists

LEMMA SpaceKept ==
  ASSUME NEW c, NEW r, Sends(c, r), SpaceAgrees(c),
         r.op # "set_namespace", wanted'[c].space = wanted[c].space
  PROVE  SpaceAgrees(c)'
<1> DEFINE w == wanted[c].space
           O == {Packet("set_namespace", nm) : nm \in NsName \ {w}}
<1>1. r \notin O
  BY PacketFields
<1>2. Ends(Append(requests[c], r), Packet("set_namespace", w), O, Scope[c], {w})
  <2> HIDE DEF O, w
  <2> QED BY <1>1, EndsAppend DEF SpaceAgrees, Sends, O, w
<1>3. Scope'[c] = Scope[c]
  BY SendsNothingElse
<1> QED BY <1>2, <1>3 DEF SpaceAgrees, Sends

LEMMA JoinKept ==
  ASSUME NEW c, NEW r, NEW k, Sends(c, r), JoinAgrees(c, k),
         ~(r.op \in {"join_counter", "leave_counter"} /\ r.name = k),
         k \in wanted'[c].joined <=> k \in wanted[c].joined
  PROVE  JoinAgrees(c, k)'
<1> DEFINE j == Packet("join_counter", k)
           l == Packet("leave_counter", k)
<1>1. r \notin {j} /\ r \notin {l}
  BY PacketFields
<1>2. joined_counters' = joined_counters /\ requests'[c] = Append(requests[c], r)
      /\ requests[c] \in Seq(Request) /\ r \in Request
  BY SendsNothingElse DEF Sends
<1> HIDE DEF j, l
<1>3. \A D : Ends(requests[c], j, {l}, k, D) => Ends(Append(requests[c], r), j, {l}, k, D)
  BY <1>1, <1>2, EndsAppend
<1>4. \A D : Ends(requests[c], l, {j}, k, D) => Ends(Append(requests[c], r), l, {j}, k, D)
  BY <1>1, <1>2, EndsAppend
<1> QED BY <1>2, <1>3, <1>4 DEF JoinAgrees, j, l

LEMMA TrackKept ==
  ASSUME NEW c, NEW r, NEW k, Sends(c, r), TrackAgrees(c, k),
         ~(r.op \in {"track_counter", "untrack_counter"} /\ r.name = k),
         k \in listening'[c] <=> k \in listening[c]
  PROVE  TrackAgrees(c, k)'
<1> DEFINE t == Packet("track_counter", k)
           u == Packet("untrack_counter", k)
<1>1. r # t /\ r \notin {t} /\ r \notin {u}
  BY PacketFields
<1>2. tracked_counters' = tracked_counters /\ requests'[c] = Append(requests[c], r)
      /\ requests[c] \in Seq(Request) /\ r \in Request
  BY SendsNothingElse DEF Sends
<1> HIDE DEF t, u
<1>3. \A D : Ends(requests[c], t, {u}, k, D) => Ends(Append(requests[c], r), t, {u}, k, D)
  BY <1>1, <1>2, EndsAppend
<1>4. \A D : Ends(requests[c], u, {t}, k, D) => Ends(Append(requests[c], r), u, {t}, k, D)
  BY <1>1, <1>2, EndsAppend
<1>5. \A D : Alternate(requests[c], t, u, k, D) => Alternate(Append(requests[c], r), t, u, k, D)
  BY <1>1, <1>2, AlternateAppend
<1> QED BY <1>2, <1>3, <1>4, <1>5 DEF TrackAgrees, t, u

\* Client::set_namespace of the library.
LEMMA SpaceSent ==
  ASSUME NEW c, NEW nm \in NsName, Sends(c, Packet("set_namespace", nm)), wanted'[c].space = nm
  PROVE  SpaceAgrees(c)'
<1> DEFINE r == Packet("set_namespace", nm)
           O == {Packet("set_namespace", x) : x \in NsName \ {nm}}
<1>1. r \notin O
  BY PacketFields
<1>2. Ends(Append(requests[c], r), r, O, Scope'[c], {nm})
  <2> HIDE DEF O, r
  <2> QED BY <1>1, EndsAppendLast DEF Sends, r
<1> QED BY <1>2 DEF SpaceAgrees, Sends

\* Client::join_counter and leave_counter.
LEMMA JoinSent ==
  ASSUME NEW c, NEW k \in Counter, NEW op \in {"join_counter", "leave_counter"},
         Sends(c, Packet(op, k)), k \in wanted'[c].joined <=> op = "join_counter"
  PROVE  JoinAgrees(c, k)'
<1> DEFINE j == Packet("join_counter", k)
           l == Packet("leave_counter", k)
           q == requests[c]
<1>1. j \notin {l} /\ l \notin {j}
  BY PacketFields
<1>2. q \in Seq(Request) /\ Packet(op, k) \in Request /\ requests'[c] = Append(q, Packet(op, k))
  BY DEF Sends
<1>3. CASE op = "join_counter"
  <2>1. \A D : Ends(Append(q, j), j, {l}, k, D)
    <3> HIDE DEF j, l, q
    <3> QED BY <1>1, <1>2, <1>3, EndsAppendLast DEF j
  <2> QED BY <1>2, <1>3, <2>1 DEF JoinAgrees
<1>4. CASE op = "leave_counter"
  <2>1. \A D : Ends(Append(q, l), l, {j}, k, D)
    <3> HIDE DEF j, l, q
    <3> QED BY <1>1, <1>2, <1>4, EndsAppendLast DEF l
  <2> QED BY <1>2, <1>4, <2>1 DEF JoinAgrees
<1> QED BY <1>3, <1>4

\* Client::track_counter, for a first listener, ...
LEMMA TrackSent ==
  ASSUME NEW c, NEW k \in Counter, Sends(c, Packet("track_counter", k)), TrackAgrees(c, k),
         k \notin listening[c], k \in listening'[c]
  PROVE  TrackAgrees(c, k)'
<1> DEFINE t == Packet("track_counter", k)
           u == Packet("untrack_counter", k)
           q == requests[c]
           D == tracked_counters[c]
<1>1. t \notin {u} /\ t # u
  BY PacketFields
<1>2. q \in Seq(Request) /\ t \in Request /\ requests'[c] = Append(q, t)
      /\ tracked_counters' = tracked_counters
  BY SendsNothingElse DEF Sends
<1>3. Ends(q, u, {t}, k, Counter \ D) /\ Alternate(q, t, u, k, D)
  BY DEF TrackAgrees
<1>4. Ends(Append(q, t), t, {u}, k, D)
  <2> HIDE DEF t, u, q, D
  <2> QED BY <1>1, <1>2, EndsAppendLast
<1>5. Alternate(Append(q, t), t, u, k, D)
  <2>1. k \in D => k \notin Counter \ D
    OBVIOUS
  <2> HIDE DEF t, u, q, D
  <2> QED BY <1>1, <1>2, <1>3, <2>1, AlternateAppendOn
<1> QED BY <1>2, <1>4, <1>5 DEF TrackAgrees

\* ... and untrack_counter.
LEMMA UntrackSent ==
  ASSUME NEW c, NEW k \in Counter, Sends(c, Packet("untrack_counter", k)), TrackAgrees(c, k),
         k \notin listening'[c]
  PROVE  TrackAgrees(c, k)'
<1> DEFINE t == Packet("track_counter", k)
           u == Packet("untrack_counter", k)
           q == requests[c]
           D == tracked_counters[c]
<1>1. u \notin {t} /\ u # t
  BY PacketFields
<1>2. q \in Seq(Request) /\ u \in Request /\ requests'[c] = Append(q, u)
      /\ tracked_counters' = tracked_counters
  BY SendsNothingElse DEF Sends
<1>3. Alternate(q, t, u, k, D)
  BY DEF TrackAgrees
<1>4. Ends(Append(q, u), u, {t}, k, Counter \ D)
  <2> HIDE DEF t, u, q, D
  <2> QED BY <1>1, <1>2, EndsAppendLast
<1>5. Alternate(Append(q, u), t, u, k, D)
  <2> HIDE DEF t, u, q, D
  <2> QED BY <1>1, <1>2, <1>3, AlternateAppend
<1> QED BY <1>2, <1>4, <1>5 DEF TrackAgrees

(***************************************************************************)
(* The server handles a packet of client c.                                *)
(***************************************************************************)
Served(c, r) ==
  /\ requests[c] \in Seq(Request) /\ requests[c] # <<>> /\ r = Head(requests[c])
  /\ r \in Request
  /\ requests'[c] = Tail(requests[c])

LEMMA SpaceServed ==
  ASSUME NEW c, NEW r, Served(c, r), SpaceAgrees(c), wanted' = wanted,
         Scope'[c] = IF r.op = "set_namespace" THEN r.name ELSE Scope[c]
  PROVE  SpaceAgrees(c)'
<1> DEFINE w == wanted[c].space
           l == Packet("set_namespace", w)
           O == {Packet("set_namespace", nm) : nm \in NsName \ {w}}
<1>1. r = l => Scope'[c] \in {w}
  BY PacketFields
<1>2. r \notin O /\ Scope[c] \in {w} => Scope'[c] \in {w}
  <2>1. CASE r.op = "set_namespace"
    <3>1. r = Packet("set_namespace", r.name) /\ r.name \in NsName
      BY <2>1, SamePacket DEF Served, Request
    <3> QED BY <2>1, <3>1
  <2>2. CASE r.op # "set_namespace"
    BY <2>2
  <2> QED BY <2>1, <2>2
<1>3. Ends(requests[c], l, O, Scope[c], {w})
  BY DEF SpaceAgrees
<1>4. Ends(Tail(requests[c]), l, O, Scope'[c], {w})
  <2> HIDE DEF l, O, w
  <2> QED BY <1>1, <1>2, <1>3, EndsTail DEF Served
<1> QED BY <1>4 DEF SpaceAgrees, Served

LEMMA JoinServed ==
  ASSUME NEW c, NEW r, NEW k \in Counter, Served(c, r), JoinAgrees(c, k), wanted' = wanted,
         joined_counters'[c] = IF r.op = "join_counter" THEN joined_counters[c] \cup {r.name}
           ELSE IF r.op = "leave_counter" THEN joined_counters[c] \ {r.name} ELSE joined_counters[c]
  PROVE  JoinAgrees(c, k)'
<1> DEFINE j == Packet("join_counter", k)
           l == Packet("leave_counter", k)
           D == joined_counters[c]
           E == joined_counters'[c]
<1>1. /\ r = j => k \in E
      /\ r = l => k \in Counter \ E
      /\ r \notin {l} /\ k \in D => k \in E
      /\ r \notin {j} /\ k \in Counter \ D => k \in Counter \ E
  BY SamePacket DEF Served
<1>2. CASE k \in wanted[c].joined
  <2>1. Ends(requests[c], j, {l}, k, D)
    BY <1>2 DEF JoinAgrees
  <2>2. Ends(Tail(requests[c]), j, {l}, k, E)
    <3> HIDE DEF j, l, D, E
    <3> QED BY <1>1, <2>1, EndsTail DEF Served
  <2> QED BY <1>2, <2>2 DEF JoinAgrees, Served
<1>3. CASE k \notin wanted[c].joined
  <2>1. Ends(requests[c], l, {j}, k, Counter \ D)
    BY <1>3 DEF JoinAgrees
  <2>2. Ends(Tail(requests[c]), l, {j}, k, Counter \ E)
    <3> HIDE DEF j, l, D, E
    <3> QED BY <1>1, <2>1, EndsTail DEF Served
  <2> QED BY <1>3, <2>2 DEF JoinAgrees, Served
<1> QED BY <1>2, <1>3

LEMMA TrackServed ==
  ASSUME NEW c, NEW r, NEW k \in Counter, Served(c, r), TrackAgrees(c, k), listening' = listening,
         tracked_counters'[c] = IF r.op = "track_counter" THEN tracked_counters[c] \cup {r.name}
           ELSE IF r.op = "untrack_counter" THEN tracked_counters[c] \ {r.name}
           ELSE tracked_counters[c]
  PROVE  TrackAgrees(c, k)'
<1> DEFINE t == Packet("track_counter", k)
           u == Packet("untrack_counter", k)
           D == tracked_counters[c]
           E == tracked_counters'[c]
<1>1. /\ r = t => k \in E
      /\ r = u => k \in Counter \ E
      /\ r = u => k \notin E
      /\ r \notin {u} /\ k \in D => k \in E
      /\ r \notin {t} /\ k \in Counter \ D => k \in Counter \ E
      /\ r \notin {t, u} /\ k \in E => k \in D
      /\ t # u
  BY SamePacket, PacketFields DEF Served
<1>2. Alternate(Tail(requests[c]), t, u, k, E)
  <2>1. Alternate(requests[c], t, u, k, D)
    BY DEF TrackAgrees
  <2> HIDE DEF t, u, D, E
  <2> QED BY <1>1, <2>1, AlternateTail DEF Served
<1>3. CASE k \in listening[c]
  <2>1. Ends(requests[c], t, {u}, k, D)
    BY <1>3 DEF TrackAgrees
  <2>2. Ends(Tail(requests[c]), t, {u}, k, E)
    <3> HIDE DEF t, u, D, E
    <3> QED BY <1>1, <2>1, EndsTail DEF Served
  <2> QED BY <1>2, <1>3, <2>2 DEF TrackAgrees, Served
<1>4. CASE k \notin listening[c]
  <2>1. Ends(requests[c], u, {t}, k, Counter \ D)
    BY <1>4 DEF TrackAgrees
  <2>2. Ends(Tail(requests[c]), u, {t}, k, Counter \ E)
    <3> HIDE DEF t, u, D, E
    <3> QED BY <1>1, <2>1, EndsTail DEF Served
  <2> QED BY <1>2, <1>4, <2>2 DEF TrackAgrees, Served
<1> QED BY <1>3, <1>4

\* A client that nobody did anything to, ...
LEMMA SameAgrees ==
  ASSUME NEW d, ClientAgrees(d),
         requests'[d] = requests[d], wanted'[d] = wanted[d], listening'[d] = listening[d],
         Scope'[d] = Scope[d], tracked_counters'[d] = tracked_counters[d],
         joined_counters'[d] = joined_counters[d]
  PROVE  ClientAgrees(d)'
BY DEF ClientAgrees, SpaceAgrees, JoinAgrees, TrackAgrees

\* ... and one whose connection is gone.
LEMMA NobodyAgrees ==
  ASSUME NEW d, requests[d] = <<>>, wanted[d] = Nothing, listening[d] = {},
         Scope[d] = None, tracked_counters[d] = {}, joined_counters[d] = {}
  PROVE  ClientAgrees(d)
<1>1. wanted[d].space = None /\ wanted[d].joined = {}
  BY DEF Nothing
<1>2. DOMAIN requests[d] = {}
  OBVIOUS
<1> QED BY <1>1, <1>2 DEF ClientAgrees, SpaceAgrees, JoinAgrees, TrackAgrees, Ends, Alternate


(***************************************************************************)
(* The steps of the programs.                                              *)
(***************************************************************************)

\* Their types.
LEMMA SendType ==
  ASSUME SessionTypeOK, NEW c \in Client, NEW op, NEW n, Packet(op, n) \in Request,
         send(c, op, n),
         listening' \in [Client -> SUBSET Counter],
         heard' \in [Client -> [Counter -> Nat \cup {None}]],
         wanted' \in [Client -> [space : NsName \cup {None}, joined : SUBSET Counter]],
         \A d \in Client \ {c} : listening'[d] = listening[d] /\ wanted'[d] = wanted[d]
  PROVE  /\ SessionTypeOK'
         /\ Sends(c, Packet(op, n))
         /\ \A d \in Client \ {c} : requests'[d] = requests[d]
<1> DEFINE r == Packet(op, n)
<1>1. requests' = [requests EXCEPT ![c] = Append(@, r)]
  BY DEF send, Packet
<1>2. /\ c \in connections /\ calls < MaxCalls /\ calls' = calls + 1
      /\ UNCHANGED <<vars, inbox>> /\ connections' = connections
  BY DEF send, Calls, vars
<1>3. requests \in [Client -> Seq(Request)] /\ r \in Request
  BY DEF SessionTypeOK
<1>4. Append(requests[c], r) \in Seq(Request)
  BY <1>3
<1> HIDE DEF r
<1>5. /\ requests' \in [Client -> Seq(Request)]
      /\ requests'[c] = Append(requests[c], r)
      /\ \A d \in Client \ {c} : requests'[d] = requests[d]
  BY <1>1, <1>3, <1>4
<1>6. calls' \in 0..MaxCalls
  BY <1>2, CallsNatural DEF SessionTypeOK
<1>7. inbox' = inbox /\ connections' = connections
  BY <1>2
<1>8. \A d \in Client \ connections' :
        requests'[d] = <<>> /\ inbox'[d] = Silence[d] /\ listening'[d] = {} /\ wanted'[d] = Nothing
  BY <1>2, <1>5 DEF SessionTypeOK
<1>9. SessionTypeOK'
  <2>1. inbox' \in [Client -> [Counter -> Seq(Nat)]]
    BY <1>7 DEF SessionTypeOK
  <2> QED BY <1>5, <1>6, <1>8, <2>1 DEF SessionTypeOK, Silence
<1>10. Sends(c, r)
  BY <1>2, <1>3, <1>5 DEF Sends
<1> QED BY <1>5, <1>9, <1>10 DEF r

\* A packet that is not there now was not there before, and is not the one sent.
LEMMA TrackingBefore ==
  ASSUME NEW c, NEW r, NEW k, Sends(c, r), Tracking(c, k)'
  PROVE  Tracking(c, k) /\ r # Packet("track_counter", k)
<1> DEFINE q == requests[c]
<1>1. requests'[c] = Append(q, r) /\ q \in Seq(Request) /\ r \in Request
  BY DEF Sends
<1> HIDE DEF q
<1>2. /\ Append(q, r)[Len(q) + 1] = r /\ Len(q) + 1 \in DOMAIN Append(q, r)
      /\ \A i \in DOMAIN q : i \in DOMAIN Append(q, r) /\ Append(q, r)[i] = q[i]
  BY <1>1, AppendAt
<1> QED BY <1>1, <1>2 DEF Tracking, q

\* What they say to client c concerns nobody else.
LEMMA OthersAgree ==
  ASSUME NEW d, Agrees(d), UNCHANGED vars, requests'[d] = requests[d], wanted'[d] = wanted[d],
         listening'[d] = listening[d], heard'[d] = heard[d], inbox'[d] = inbox[d]
  PROVE  Agrees(d)'
<1>1. Scope' = Scope /\ UNCHANGED <<tracked_counters, joined_counters, shown>>
  BY ScopeStays DEF vars, lists
<1>2. ClientAgrees(d)'
  BY <1>1, SameAgrees DEF Agrees
<1>3. ASSUME NEW k \in Counter PROVE Hears(d, k)'
  BY <1>1 DEF Hears, Tracking, Agrees
<1> QED BY <1>2, <1>3 DEF Agrees

\* Nor does it make a listener miss something.
LEMMA StillHears ==
  ASSUME NEW c, NEW r, NEW k, Sends(c, r), Hears(c, k), inbox' = inbox,
         k \in listening'[c] /\ r # Packet("track_counter", k) =>
           k \in listening[c] /\ heard'[c][k] = heard[c][k]
  PROVE  Hears(c, k)'
<1>1. Scope' = Scope /\ UNCHANGED <<tracked_counters, joined_counters, shown>>
  BY SendsNothingElse
<1>2. ASSUME Tracking(c, k)', k \in listening'[c]
      PROVE  Tracking(c, k) /\ k \in listening[c] /\ heard'[c][k] = heard[c][k]
  BY <1>2, TrackingBefore
<1> QED BY <1>1, <1>2 DEF Hears

\* Client::set_namespace.
LEMMA set_namespaceKeeps ==
  ASSUME SessionTypeOK, Agreement, NEW c \in Client, NEW nm \in NsName, set_namespace(c, nm)
  PROVE  SessionTypeOK' /\ Agreement'
<1> DEFINE r == Packet("set_namespace", nm)
<1>1. /\ send(c, "set_namespace", nm) /\ UNCHANGED <<heard, listening>>
      /\ wanted' = [wanted EXCEPT ![c].space = nm] /\ inbox' = inbox /\ UNCHANGED vars
  BY DEF set_namespace, send
<1>2. /\ wanted' \in [Client -> [space : NsName \cup {None}, joined : SUBSET Counter]]
      /\ \A d \in Client \ {c} : wanted'[d] = wanted[d]
      /\ wanted'[c].space = nm /\ wanted'[c].joined = wanted[c].joined
  BY <1>1 DEF SessionTypeOK
<1>3. r \in Request
  BY PacketType
<1>4. /\ listening' \in [Client -> SUBSET Counter]
      /\ heard' \in [Client -> [Counter -> Nat \cup {None}]]
  BY <1>1 DEF SessionTypeOK
<1>5. SessionTypeOK' /\ Sends(c, r) /\ \A d \in Client \ {c} : requests'[d] = requests[d]
  BY <1>1, <1>2, <1>3, <1>4, SendType
<1>6. r.op = "set_namespace" /\ r.name = nm /\ \A k : r # Packet("track_counter", k)
  BY PacketFields
<1>7. ASSUME NEW d \in Client \ {c} PROVE Agrees(d)'
  BY <1>1, <1>2, <1>5, OthersAgree DEF Agreement
<1> HIDE DEF r
<1>8. SpaceAgrees(c)'
  BY <1>2, <1>5, SpaceSent DEF r
<1>9. ASSUME NEW k \in Counter PROVE JoinAgrees(c, k)' /\ TrackAgrees(c, k)' /\ Hears(c, k)'
  <2>1. JoinAgrees(c, k) /\ TrackAgrees(c, k) /\ Hears(c, k)
    BY DEF Agreement, Agrees, ClientAgrees
  <2>2. JoinAgrees(c, k)'
    BY <1>2, <1>5, <1>6, <2>1, JoinKept
  <2>3. TrackAgrees(c, k)'
    BY <1>1, <1>5, <1>6, <2>1, TrackKept
  <2>4. Hears(c, k)'
    BY <1>1, <1>5, <2>1, StillHears
  <2> QED BY <2>2, <2>3, <2>4
<1>10. Agrees(c)'
  BY <1>8, <1>9 DEF Agrees, ClientAgrees
<1> QED BY <1>5, <1>7, <1>10 DEF Agreement

\* Client::join_counter and leave_counter.
LEMMA join_counterKeeps ==
  ASSUME SessionTypeOK, Agreement, NEW c \in Client, NEW j \in Counter,
         join_counter(c, j) \/ leave_counter(c, j)
  PROVE  SessionTypeOK' /\ Agreement'
<1>1. PICK op \in {"join_counter", "leave_counter"} :
        /\ send(c, op, j) /\ UNCHANGED <<heard, listening>>
        /\ wanted' = [wanted EXCEPT ![c].joined = IF op = "join_counter" THEN @ \cup {j} ELSE @ \ {j}]
  BY DEF join_counter, leave_counter
<1> DEFINE r == Packet(op, j)
<1>2. inbox' = inbox /\ UNCHANGED vars
  BY <1>1 DEF send
<1>3. /\ wanted' \in [Client -> [space : NsName \cup {None}, joined : SUBSET Counter]]
      /\ \A d \in Client \ {c} : wanted'[d] = wanted[d]
      /\ wanted'[c].space = wanted[c].space
      /\ j \in wanted'[c].joined <=> op = "join_counter"
      /\ \A k : k # j => (k \in wanted'[c].joined <=> k \in wanted[c].joined)
  BY <1>1 DEF SessionTypeOK
<1>4. r \in Request
  BY PacketType
<1>5. /\ listening' \in [Client -> SUBSET Counter]
      /\ heard' \in [Client -> [Counter -> Nat \cup {None}]]
  BY <1>1 DEF SessionTypeOK
<1>6. SessionTypeOK' /\ Sends(c, r) /\ \A d \in Client \ {c} : requests'[d] = requests[d]
  BY <1>1, <1>3, <1>4, <1>5, SendType
<1>7. r.op = op /\ r.name = j /\ \A k : r # Packet("track_counter", k)
  BY PacketFields
<1>8. ASSUME NEW d \in Client \ {c} PROVE Agrees(d)'
  BY <1>1, <1>2, <1>3, <1>6, OthersAgree DEF Agreement
<1> HIDE DEF r
<1>9. SpaceAgrees(c)'
  <2>1. SpaceAgrees(c)
    BY DEF Agreement, Agrees, ClientAgrees
  <2> QED BY <1>3, <1>6, <1>7, <2>1, SpaceKept
<1>10. ASSUME NEW k \in Counter PROVE JoinAgrees(c, k)' /\ TrackAgrees(c, k)' /\ Hears(c, k)'
  <2>1. JoinAgrees(c, k) /\ TrackAgrees(c, k) /\ Hears(c, k)
    BY DEF Agreement, Agrees, ClientAgrees
  <2>2. CASE k = j
    <3>1. JoinAgrees(c, j)'
      BY <1>3, <1>6, JoinSent DEF r
    <3> QED BY <1>1, <1>2, <1>6, <1>7, <2>1, <2>2, <3>1, TrackKept, StillHears
  <2>3. CASE k # j
    <3>1. JoinAgrees(c, k)'
      BY <1>3, <1>6, <1>7, <2>1, <2>3, JoinKept
    <3> QED BY <1>1, <1>2, <1>6, <1>7, <2>1, <3>1, TrackKept, StillHears
  <2> QED BY <2>2, <2>3
<1>11. Agrees(c)'
  BY <1>9, <1>10 DEF Agrees, ClientAgrees
<1> QED BY <1>6, <1>8, <1>11 DEF Agreement

\* Client::track_counter and untrack_counter.
LEMMA track_counterKeeps ==
  ASSUME SessionTypeOK, Agreement, NEW c \in Client, NEW j \in Counter,
         track_counter(c, j) \/ untrack_counter(c, j)
  PROVE  SessionTypeOK' /\ Agreement'
<1>1. PICK op \in {"track_counter", "untrack_counter"} :
        /\ send(c, op, j) /\ UNCHANGED wanted
        /\ listening' = [listening EXCEPT ![c] = IF op = "track_counter" THEN @ \cup {j} ELSE @ \ {j}]
        /\ heard' = [heard EXCEPT ![c][j] = None]
        /\ op = "track_counter" => j \notin listening[c]
  BY DEF track_counter, untrack_counter
<1> DEFINE r == Packet(op, j)
<1>2. inbox' = inbox /\ UNCHANGED vars
  BY <1>1 DEF send
<1>3. /\ listening' \in [Client -> SUBSET Counter]
      /\ \A d \in Client \ {c} : listening'[d] = listening[d]
      /\ j \in listening'[c] <=> op = "track_counter"
      /\ \A k : k # j => (k \in listening'[c] <=> k \in listening[c])
  BY <1>1 DEF SessionTypeOK
<1>4. /\ heard' \in [Client -> [Counter -> Nat \cup {None}]]
      /\ \A d \in Client \ {c} : heard'[d] = heard[d]
      /\ \A k \in Counter \ {j} : heard'[c][k] = heard[c][k]
  BY <1>1 DEF SessionTypeOK
<1>5. r \in Request
  BY PacketType
<1>6. wanted' \in [Client -> [space : NsName \cup {None}, joined : SUBSET Counter]]
  BY <1>1 DEF SessionTypeOK
<1>7. SessionTypeOK' /\ Sends(c, r) /\ \A d \in Client \ {c} : requests'[d] = requests[d]
  BY <1>1, <1>3, <1>4, <1>5, <1>6, SendType
<1>8. r.op = op /\ r.name = j /\ (op = "track_counter" => r = Packet("track_counter", j))
  BY PacketFields
<1>9. ASSUME NEW d \in Client \ {c} PROVE Agrees(d)'
  BY <1>1, <1>2, <1>3, <1>4, <1>7, OthersAgree DEF Agreement
<1> HIDE DEF r
<1>10. SpaceAgrees(c)'
  <2>1. SpaceAgrees(c)
    BY DEF Agreement, Agrees, ClientAgrees
  <2> QED BY <1>1, <1>7, <1>8, <2>1, SpaceKept
<1>11. ASSUME NEW k \in Counter PROVE JoinAgrees(c, k)' /\ TrackAgrees(c, k)' /\ Hears(c, k)'
  <2>1. JoinAgrees(c, k) /\ TrackAgrees(c, k) /\ Hears(c, k)
    BY DEF Agreement, Agrees, ClientAgrees
  <2>2. JoinAgrees(c, k)'
    BY <1>1, <1>7, <1>8, <2>1, JoinKept
  <2>3. CASE k = j /\ op = "track_counter"
    <3>1. TrackAgrees(c, k)'
      BY <1>1, <1>3, <1>7, <2>1, <2>3, TrackSent DEF r
    <3>2. Hears(c, k)'
      BY <1>2, <1>7, <1>8, <2>1, <2>3, StillHears
    <3> QED BY <2>2, <3>1, <3>2
  <2>4. CASE k = j /\ op = "untrack_counter"
    <3>1. TrackAgrees(c, k)'
      BY <1>3, <1>7, <2>1, <2>4, UntrackSent DEF r
    <3>2. Hears(c, k)'
      BY <1>3, <2>4 DEF Hears
    <3> QED BY <2>2, <3>1, <3>2
  <2>5. CASE k # j
    <3>1. TrackAgrees(c, k)'
      BY <1>3, <1>7, <1>8, <2>1, <2>5, TrackKept
    <3>2. Hears(c, k)'
      BY <1>2, <1>3, <1>4, <1>7, <2>1, <2>5, StillHears
    <3> QED BY <2>2, <3>1, <3>2
  <2> QED BY <2>3, <2>4, <2>5
<1>12. Agrees(c)'
  BY <1>10, <1>11 DEF Agrees, ClientAgrees
<1> QED BY <1>7, <1>9, <1>12 DEF Agreement

\* A queue without packets.
LEMMA NoLength ==
  ASSUME NEW R, NEW q \in Seq(R)
  PROVE  q = <<>> <=> Len(q) = 0
OBVIOUS

\* What is received next is the first of what is on its way.
LEMMA ToldNext ==
  ASSUME NEW v, NEW s \in Seq(Nat), s # <<>>
  PROVE  Told(Head(s), Tail(s)) = Told(v, s)
<1>1. Len(s) \in Nat \ {0} /\ Head(s) = s[1] /\ Len(Tail(s)) = Len(s) - 1
  BY TailAt
<1>2. Tail(s) = <<>> <=> Len(s) = 1
  <2>1. Tail(s) \in Seq(Nat)
    BY <1>1
  <2>2. Tail(s) = <<>> <=> Len(Tail(s)) = 0
    BY <2>1, NoLength
  <2> QED BY <1>1, <2>2
<1>3. Len(s) # 1 => Tail(s)[Len(Tail(s))] = s[Len(s)]
  BY <1>1
<1> QED BY <1>1, <1>2, <1>3 DEF Told

LEMMA receiveKeeps ==
  ASSUME SessionTypeOK, Agreement, NEW c \in Client, receive(c)
  PROVE  SessionTypeOK' /\ Agreement'
<1>1. PICK j \in Counter :
        /\ inbox[c][j] # <<>>
        /\ heard' = IF j \in listening[c]
                    THEN [heard EXCEPT ![c][j] = Head(inbox[c][j])] ELSE heard
        /\ inbox' = [inbox EXCEPT ![c][j] = Tail(@)]
  BY DEF receive
<1>2. /\ UNCHANGED vars /\ UNCHANGED <<requests, listening, wanted, calls>>
      /\ connections' = connections
  BY DEF receive, programs, vars
<1>3. inbox[c][j] \in Seq(Nat) /\ heard \in [Client -> [Counter -> Nat \cup {None}]]
      /\ inbox \in [Client -> [Counter -> Seq(Nat)]]
  BY DEF SessionTypeOK
<1>4. Head(inbox[c][j]) \in Nat /\ Tail(inbox[c][j]) \in Seq(Nat)
  BY <1>1, <1>3
<1>5. /\ inbox' \in [Client -> [Counter -> Seq(Nat)]]
      /\ \A d \in Client \ {c} : inbox'[d] = inbox[d]
      /\ \A k \in Counter \ {j} : inbox'[c][k] = inbox[c][k]
      /\ inbox'[c][j] = Tail(inbox[c][j])
  BY <1>1, <1>3, <1>4
<1>6. /\ heard' \in [Client -> [Counter -> Nat \cup {None}]]
      /\ \A d \in Client \ {c} : heard'[d] = heard[d]
      /\ \A k \in Counter \ {j} : heard'[c][k] = heard[c][k]
      /\ j \in listening[c] => heard'[c][j] = Head(inbox[c][j])
  BY <1>1, <1>3, <1>4
<1>7. c \in connections
  <2>1. Silence[c][j] = <<>>
    BY DEF Silence
  <2> QED BY <1>1, <2>1 DEF SessionTypeOK
<1>8. SessionTypeOK'
  BY <1>2, <1>5, <1>6, <1>7 DEF SessionTypeOK, Silence
<1>9. ASSUME NEW d \in Client \ {c} PROVE Agrees(d)'
  BY <1>2, <1>5, <1>6, OthersAgree DEF Agreement
<1>10. Scope' = Scope /\ UNCHANGED <<tracked_counters, joined_counters, shown>>
  BY <1>2, ScopeStays DEF vars, lists
<1>11. ClientAgrees(c)'
  BY <1>2, <1>10, SameAgrees DEF Agreement, Agrees
<1>12. ASSUME NEW k \in Counter PROVE Hears(c, k)'
  <2>1. Hears(c, k)
    BY DEF Agreement, Agrees
  <2>2. CASE k # j
    BY <1>2, <1>5, <1>6, <1>10, <2>1, <2>2 DEF Hears, Tracking
  <2>3. CASE k = j
    <3>1. j \in listening[c] => Told(heard'[c][j], inbox'[c][j]) = Told(heard[c][j], inbox[c][j])
      BY <1>1, <1>3, <1>5, <1>6, ToldNext
    <3> QED BY <1>2, <1>10, <2>1, <2>3, <3>1 DEF Hears, Tracking
  <2> QED BY <2>2, <2>3
<1>13. Agrees(c)'
  BY <1>11, <1>12 DEF Agrees
<1> QED BY <1>8, <1>9, <1>13 DEF Agreement

(***************************************************************************)
(* The steps of the server.                                                *)
(***************************************************************************)

\* What the step sends to client d, who tracks counter k, comes last; if it sends
\* nothing it tells nothing new.
LEMMA SentIsHeard ==
  ASSUME NEW d \in Client, NEW k \in Counter, inbox[d][k] \in Seq(Nat),
         SendCounts(counts_sent'), counts_sent' \in Packets, d \in connections', Delivered,
         k \in tracked_counters'[d], heard'[d][k] = heard[d][k],
         counts_sent'[d][k] = <<>> => Told(heard[d][k], inbox[d][k]) = shown[d][k]
  PROVE  Told(heard'[d][k], inbox'[d][k]) = shown'[d][k]
<1>1. inbox'[d][k] = inbox[d][k] \o counts_sent'[d][k] /\ counts_sent'[d][k] \in Seq(Nat)
  BY DEF Delivered, Packets
<1>2. shown'[d][k] = Told(shown[d][k], counts_sent'[d][k])
  BY DEF SendCounts, Told
<1>3. Told(heard[d][k], inbox'[d][k]) = Told(Told(heard[d][k], inbox[d][k]), counts_sent'[d][k])
  BY <1>1, ToldInOrder
<1>4. CASE counts_sent'[d][k] = <<>>
  BY <1>2, <1>3, <1>4
<1>5. CASE counts_sent'[d][k] # <<>>
  BY <1>2, <1>3, <1>5 DEF Told
<1> QED BY <1>4, <1>5

\* The queues keep their types.
LEMMA DeliveredType ==
  ASSUME SessionTypeOK, counts_sent' \in Packets, Delivered
  PROVE  /\ inbox' \in [Client -> [Counter -> Seq(Nat)]]
         /\ \A d \in Client \ connections' : inbox'[d] = Silence'[d]
<1>1. ASSUME NEW d \in Client, NEW k \in Counter
      PROVE  inbox[d][k] \o counts_sent'[d][k] \in Seq(Nat)
  BY DEF SessionTypeOK, Packets
<1>2. <<>> \in Seq(Nat)
  OBVIOUS
<1>3. inbox' \in [Client -> [Counter -> Seq(Nat)]]
  BY <1>1, <1>2 DEF Delivered
<1>4. ASSUME NEW d \in Client \ connections' PROVE inbox'[d] = Silence'[d]
  BY DEF Delivered, Silence
<1> QED BY <1>3, <1>4

\* A listener who asks for nothing more, and is in a namespace, is tracked.
LEMMA ListenerTracked ==
  ASSUME NEW d \in Client, NEW k \in Counter, TrackAgrees(d, k), k \in listening[d], Tracking(d, k)
  PROVE  k \in tracked_counters[d]
BY DEF TrackAgrees, Ends, Tracking

\* The step does nothing to d but tell it something.
LEMMA BystanderAgrees ==
  ASSUME SessionTypeOK, Good, Good', NEW d \in Client, Agrees(d),
         SendCounts(counts_sent'), counts_sent' \in Packets, Delivered,
         d \in connections => d \in connections',
         requests'[d] = requests[d], wanted'[d] = wanted[d], listening'[d] = listening[d],
         heard'[d] = heard[d], Scope'[d] = Scope[d],
         tracked_counters'[d] = tracked_counters[d], joined_counters'[d] = joined_counters[d]
  PROVE  Agrees(d)'
<1>1. ClientAgrees(d)'
  BY SameAgrees DEF Agrees
<1>2. ASSUME NEW k \in Counter, k \in listening'[d], Tracking(d, k)', Scope'[d] # None
      PROVE  Told(heard'[d][k], inbox'[d][k]) = shown'[d][k]
  <2>1. k \in listening[d] /\ Tracking(d, k) /\ Scope[d] # None
    BY <1>2 DEF Tracking
  <2>2. Told(heard[d][k], inbox[d][k]) = shown[d][k]
    BY <2>1 DEF Agrees, Hears
  <2>3. k \in tracked_counters'[d]
    BY <2>1, ListenerTracked DEF Agrees, ClientAgrees
  <2>4. inbox[d][k] \in Seq(Nat)
    BY DEF SessionTypeOK
  <2>5. d \in connections'
    BY <2>1 DEF SessionTypeOK
  <2> QED BY <2>2, <2>3, <2>4, <2>5, SentIsHeard
<1>3. \A k \in Counter : Hears(d, k)'
  BY <1>2 DEF Hears
<1> QED BY <1>1, <1>3 DEF Agrees

LEMMA ConnectKeeps ==
  ASSUME SessionTypeOK, Agreement, Good, Good', NEW c \in Client, Connect(c)
  PROVE  SessionTypeOK' /\ Agreement'
<1>1. Accept(c) /\ Delivered /\ UNCHANGED <<requests, heard, listening, wanted, calls>>
  BY DEF Connect, programs
<1>2. SendCounts(counts_sent') /\ counts_sent' \in Packets
  <2>1. counts_sent' \in Packets
    BY DEF Good, Inv, TypeOK, Packets
  <2>2. SendCounts(Silence)
    BY <1>1 DEF Accept
  <2>3. counts_sent' = Silence
    BY <2>2 DEF SendCounts
  <2> QED BY <2>1, <2>2, <2>3
<1>3. /\ connections' = connections \cup {c}
      /\ UNCHANGED <<space, ns_name, tracked_counters, joined_counters>>
  BY <1>1 DEF Accept, lists
<1>4. Scope' = Scope
  BY <1>3, ScopeStays
<1>5. SessionTypeOK'
  BY <1>1, <1>2, <1>3, DeliveredType DEF SessionTypeOK
<1>6. ASSUME NEW d \in Client PROVE Agrees(d)'
  BY <1>1, <1>2, <1>3, <1>4, BystanderAgrees DEF Agreement
<1> QED BY <1>5, <1>6 DEF Agreement

LEMMA LeaveKeeps ==
  ASSUME SessionTypeOK, Agreement, Good, Good', NEW c \in Client, Leave(c)
  PROVE  SessionTypeOK' /\ Agreement'
<1>1. /\ Disconnect(c) /\ Delivered
      /\ requests' = [requests EXCEPT ![c] = <<>>]
      /\ heard' = [heard EXCEPT ![c] = [k \in Counter |-> None]]
      /\ listening' = [listening EXCEPT ![c] = {}]
      /\ wanted' = [wanted EXCEPT ![c] = Nothing]
      /\ calls < MaxCalls /\ calls' = calls + 1
  BY DEF Leave, Dropped, Calls
<1>2. SendCounts(counts_sent') /\ counts_sent' \in Packets
  <2>1. counts_sent' \in Packets
    BY DEF Good, Inv, TypeOK, Packets
  <2>2. \E sent : SendCounts(sent)
    BY <1>1 DEF Disconnect
  <2> QED BY <2>1, <2>2 DEF SendCounts
<1>3. /\ connections' = connections \ {c}
      /\ Scope' = [Scope EXCEPT ![c] = None]
      /\ tracked_counters' = [tracked_counters EXCEPT ![c] = {}]
      /\ joined_counters' = [joined_counters EXCEPT ![c] = {}]
  BY <1>1, DisconnectLeaves DEF Service!Leave
<1>4. SessionTypeOK'
  <2>1. <<>> \in Seq(Request) /\ Nothing \in [space : NsName \cup {None}, joined : SUBSET Counter]
    BY DEF Nothing
  <2>2. /\ requests' \in [Client -> Seq(Request)]
        /\ listening' \in [Client -> SUBSET Counter]
        /\ heard' \in [Client -> [Counter -> Nat \cup {None}]]
        /\ wanted' \in [Client -> [space : NsName \cup {None}, joined : SUBSET Counter]]
    BY <1>1, <2>1 DEF SessionTypeOK
  <2>3. calls' \in 0..MaxCalls
    BY <1>1, CallsNatural DEF SessionTypeOK
  <2>4. \A d \in Client \ connections' :
          requests'[d] = <<>> /\ listening'[d] = {} /\ wanted'[d] = Nothing
    BY <1>1, <1>3 DEF SessionTypeOK
  <2> QED BY <1>1, <1>2, <2>2, <2>3, <2>4, DeliveredType DEF SessionTypeOK
<1>5. ASSUME NEW d \in Client \ {c} PROVE Agrees(d)'
  <2>1. /\ requests'[d] = requests[d] /\ wanted'[d] = wanted[d] /\ listening'[d] = listening[d]
        /\ heard'[d] = heard[d]
    BY <1>1 DEF SessionTypeOK
  <2>2. /\ Scope'[d] = Scope[d] /\ tracked_counters'[d] = tracked_counters[d]
        /\ joined_counters'[d] = joined_counters[d]
    BY <1>3 DEF Scope, Good, Inv, TypeOK
  <2> QED BY <1>1, <1>2, <1>3, <2>1, <2>2, BystanderAgrees DEF Agreement
<1>6. Agrees(c)'
  <2>1. requests'[c] = <<>> /\ wanted'[c] = Nothing /\ listening'[c] = {}
    BY <1>1 DEF SessionTypeOK
  <2>2. Scope'[c] = None /\ tracked_counters'[c] = {} /\ joined_counters'[c] = {}
    BY <1>3 DEF Scope, Good, Inv, TypeOK
  <2>3. ClientAgrees(c)'
    <3>1. wanted'[c].space = None /\ wanted'[c].joined = {} /\ DOMAIN requests'[c] = {}
      BY <2>1 DEF Nothing
    <3> QED
      BY <2>1, <2>2, <3>1 DEF ClientAgrees, SpaceAgrees, JoinAgrees, TrackAgrees, Ends, Alternate
  <2>4. \A k \in Counter : Hears(c, k)'
    BY <2>1 DEF Hears
  <2> QED BY <2>3, <2>4 DEF Agrees
<1> QED BY <1>4, <1>5, <1>6 DEF Agreement

\* A packet is handled.
LEMMA ServeKeeps ==
  ASSUME SessionTypeOK, Agreement, Good, Good', NEW c \in Client, Serve(c)
  PROVE  SessionTypeOK' /\ Agreement'
<1> DEFINE r == Head(requests[c])
<1>1. /\ requests[c] # <<>> /\ Handler(c, r) /\ Delivered
      /\ requests' = [requests EXCEPT ![c] = Tail(@)]
      /\ UNCHANGED <<heard, listening, wanted, calls>>
  BY DEF Serve, programs
<1>2. requests[c] \in Seq(Request) /\ r \in Request /\ Tail(requests[c]) \in Seq(Request)
  BY <1>1 DEF SessionTypeOK
<1>3. Served(c, r)
  BY <1>1, <1>2 DEF Served, SessionTypeOK
<1>4. r = requests[c][1] /\ 1 \in DOMAIN requests[c] /\ 1 \in Nat
  BY <1>1, <1>2, TailAt
<1> HIDE DEF r
<1>5. SendCounts(counts_sent') /\ counts_sent' \in Packets
  BY <1>1, <1>2, HandlersSend
<1>6. /\ c \in connections /\ connections' = connections
      /\ Scope' = [Scope EXCEPT ![c] = IF r.op = "set_namespace" THEN r.name ELSE @]
      /\ tracked_counters' = [tracked_counters EXCEPT ![c] =
           IF r.op = "track_counter" THEN @ \cup {r.name}
           ELSE IF r.op = "untrack_counter" THEN @ \ {r.name} ELSE @]
      /\ joined_counters' = [joined_counters EXCEPT ![c] =
           IF r.op = "join_counter" THEN @ \cup {r.name}
           ELSE IF r.op = "leave_counter" THEN @ \ {r.name} ELSE @]
  BY <1>1, <1>2, HandlerEffects
<1>7. /\ Scope = [d \in Client |-> Scope[d]]
      /\ tracked_counters \in [Client -> SUBSET Counter]
      /\ joined_counters \in [Client -> SUBSET Counter]
      /\ requests \in [Client -> Seq(Request)]
  BY DEF Scope, Good, Inv, TypeOK, SessionTypeOK
<1>8. SessionTypeOK'
  <2>1. requests' \in [Client -> Seq(Request)]
    BY <1>1, <1>2, <1>7
  <2>2. \A d \in Client \ connections' : requests'[d] = <<>>
    BY <1>1, <1>6, <1>7 DEF SessionTypeOK
  <2>3. \A d \in Client \ connections' : listening'[d] = {} /\ wanted'[d] = Nothing
    BY <1>1, <1>6 DEF SessionTypeOK
  <2>4. /\ listening' \in [Client -> SUBSET Counter]
        /\ heard' \in [Client -> [Counter -> Nat \cup {None}]]
        /\ wanted' \in [Client -> [space : NsName \cup {None}, joined : SUBSET Counter]]
        /\ calls' \in 0..MaxCalls
    BY <1>1 DEF SessionTypeOK
  <2>5. /\ inbox' \in [Client -> [Counter -> Seq(Nat)]]
        /\ \A d \in Client \ connections' : inbox'[d] = Silence'[d]
    BY <1>1, <1>5, DeliveredType
  <2> QED BY <2>1, <2>2, <2>3, <2>4, <2>5 DEF SessionTypeOK
<1>9. ASSUME NEW d \in Client \ {c} PROVE Agrees(d)'
  <2>1. requests'[d] = requests[d]
    BY <1>1, <1>7
  <2>2. /\ Scope'[d] = Scope[d] /\ tracked_counters'[d] = tracked_counters[d]
        /\ joined_counters'[d] = joined_counters[d]
    BY <1>6, <1>7
  <2>3. Agrees(d)
    BY DEF Agreement
  <2> QED BY <1>1, <1>5, <1>6, <2>1, <2>2, <2>3, BystanderAgrees
<1>10. /\ Scope'[c] = IF r.op = "set_namespace" THEN r.name ELSE Scope[c]
       /\ tracked_counters'[c] = IF r.op = "track_counter" THEN tracked_counters[c] \cup {r.name}
            ELSE IF r.op = "untrack_counter" THEN tracked_counters[c] \ {r.name}
            ELSE tracked_counters[c]
       /\ joined_counters'[c] = IF r.op = "join_counter" THEN joined_counters[c] \cup {r.name}
            ELSE IF r.op = "leave_counter" THEN joined_counters[c] \ {r.name} ELSE joined_counters[c]
  BY <1>6, <1>7
<1>11. Agrees(c)
  BY DEF Agreement
<1>12. ClientAgrees(c)'
  <2>1. SpaceAgrees(c)'
    BY <1>1, <1>3, <1>10, <1>11, SpaceServed DEF Agrees, ClientAgrees
  <2>2. ASSUME NEW k \in Counter PROVE JoinAgrees(c, k)' /\ TrackAgrees(c, k)'
    <3>1. JoinAgrees(c, k) /\ TrackAgrees(c, k)
      BY <1>11 DEF Agrees, ClientAgrees
    <3>2. JoinAgrees(c, k)'
      BY <1>1, <1>3, <1>10, <3>1, JoinServed
    <3>3. TrackAgrees(c, k)'
      BY <1>1, <1>3, <1>10, <3>1, TrackServed
    <3> QED BY <3>2, <3>3
  <2> QED BY <2>1, <2>2 DEF ClientAgrees
<1>13. ASSUME NEW k \in Counter, k \in listening'[c], Tracking(c, k)', Scope'[c] # None
       PROVE  Told(heard'[c][k], inbox'[c][k]) = shown'[c][k]
  <2>1. TrackAgrees(c, k)'
    BY <1>12 DEF ClientAgrees
  <2>2. k \in tracked_counters'[c]
    BY <1>13, <2>1 DEF TrackAgrees, Ends, Tracking
  <2>3. TrackAgrees(c, k) /\ Hears(c, k) /\ k \in listening[c]
    BY <1>1, <1>11, <1>13 DEF Agrees, ClientAgrees
  <2>4. Inv /\ (Scope[c] = None <=> space[c] = None)
    BY ScopeIsSpace DEF Good
  <2>5. counts_sent'[c][k] = <<>> => Told(heard[c][k], inbox[c][k]) = shown[c][k]
    <3>1. CASE r = Packet("track_counter", k)
      <4>1. r.op = "track_counter" /\ r.name = k
        BY <3>1, PacketFields
      <4>2. space[c] # None /\ TrackCounter(c, k)
        BY <1>1, <1>10, <1>13, <2>4, <4>1 DEF Handler
      <4>3. k \notin tracked_counters[c]
        <5>1. ~ \E m \in DOMAIN requests[c] : m < 1
          BY <1>1, <1>2, TailAt
        <5> QED BY <1>4, <2>3, <3>1, <5>1 DEF TrackAgrees, Alternate
      <4> QED BY <2>4, <4>2, <4>3, TrackerIsTold
    <3>2. CASE r # Packet("track_counter", k)
      <4>1. Tracking(c, k)
        <5>1. /\ \A i \in DOMAIN requests[c] : i > 1 =>
                   i - 1 \in DOMAIN Tail(requests[c]) /\ Tail(requests[c])[i - 1] = requests[c][i]
              /\ DOMAIN requests[c] = 1..Len(requests[c]) /\ Len(requests[c]) \in Nat
          BY <1>1, <1>2, TailAt
        <5>2. \A i \in DOMAIN Tail(requests[c]) : Tail(requests[c])[i] # Packet("track_counter", k)
          BY <1>3, <1>13 DEF Tracking, Served
        <5>3. \A i \in DOMAIN requests[c] : i > 1 \/ i = 1
          BY <5>1
        <5> QED BY <1>4, <3>2, <5>1, <5>2, <5>3 DEF Tracking
      <4>2. CASE Scope[c] = None
        <5>1. SetNamespace(c, r.name)
          BY <1>1, <1>10, <1>13, <4>2 DEF Handler
        <5>2. k \in tracked_counters[c]
          BY <2>3, <4>1, ListenerTracked
        <5> QED BY <2>4, <5>1, <5>2, MovedIsTold
      <4>3. CASE Scope[c] # None
        BY <2>3, <4>1, <4>3 DEF Hears
      <4> QED BY <4>2, <4>3
    <3> QED BY <3>1, <3>2
  <2>6. inbox[c][k] \in Seq(Nat) /\ c \in connections' /\ heard'[c][k] = heard[c][k]
    BY <1>1, <1>6 DEF SessionTypeOK
  <2> QED BY <1>1, <1>5, <2>2, <2>5, <2>6, SentIsHeard
<1>14. \A k \in Counter : Hears(c, k)'
  BY <1>13 DEF Hears
<1>15. Agrees(c)'
  BY <1>12, <1>14 DEF Agrees
<1> QED BY <1>8, <1>9, <1>15 DEF Agreement

-----------------------------------------------------------------------------
\* The agreement holds at the start, when everyone is a stranger, ...
LEMMA SessionStarts == SessionInit => SessionInv
<1> SUFFICES ASSUME SessionInit PROVE SessionInv
  OBVIOUS
<1>1. Good
  BY GoodInvariant DEF SessionInit
<1>2. SessionTypeOK
  <2>1. <<>> \in Seq(Request) /\ <<>> \in Seq(Nat)
    OBVIOUS
  <2>2. Nothing \in [space : NsName \cup {None}, joined : SUBSET Counter]
    BY DEF Nothing
  <2>3. inbox \in [Client -> [Counter -> Seq(Nat)]]
    BY <2>1 DEF SessionInit, Silence
  <2>4. calls \in 0..MaxCalls
    BY CallsNatural DEF SessionInit
  <2> QED BY <2>1, <2>2, <2>3, <2>4 DEF SessionInit, SessionTypeOK
<1>3. ASSUME NEW c \in Client PROVE Agrees(c)
  <2>1. /\ requests[c] = <<>> /\ wanted[c] = Nothing /\ listening[c] = {} /\ Scope[c] = None
        /\ tracked_counters[c] = {} /\ joined_counters[c] = {}
    BY DEF SessionInit, Init, Scope
  <2>2. ClientAgrees(c)
    BY <2>1, NobodyAgrees
  <2> QED BY <2>1, <2>2 DEF Agrees, Hears
<1> QED BY <1>1, <1>2, <1>3 DEF SessionInv, Agreement

\* ... and every step keeps it.
LEMMA SessionStep == SessionInv /\ [SessionNext]_sessions => SessionInv'
<1> SUFFICES ASSUME SessionInv, [SessionNext]_sessions PROVE SessionInv'
  OBVIOUS
<1>1. SessionTypeOK /\ Agreement /\ Good
  BY DEF SessionInv
<1>2. Good'
  <2>1. [Next]_vars
    BY <1>1, ServerSteps DEF sessions
  <2> QED BY <1>1, <2>1, GoodStep
<1>3. CASE SessionNext
  <2>1. PICK c \in Client :
          \/ Connect(c)
          \/ Leave(c)
          \/ \E nm \in NsName : set_namespace(c, nm)
          \/ \E k \in Counter : \/ track_counter(c, k)
                                \/ untrack_counter(c, k)
                                \/ join_counter(c, k)
                                \/ leave_counter(c, k)
          \/ Serve(c)
          \/ receive(c)
    BY <1>3 DEF SessionNext
  <2>2. SessionTypeOK' /\ Agreement'
    BY <1>1, <1>2, <2>1, ConnectKeeps, LeaveKeeps, set_namespaceKeeps, track_counterKeeps,
       join_counterKeeps, ServeKeeps, receiveKeeps
  <2> QED BY <1>2, <2>2 DEF SessionInv
<1>4. CASE UNCHANGED sessions
  <2>1. /\ UNCHANGED <<requests, inbox, heard, listening, wanted, calls>> /\ UNCHANGED vars
        /\ connections' = connections
    BY <1>4 DEF sessions, programs, vars
  <2>2. SessionTypeOK'
    BY <1>1, <2>1 DEF SessionTypeOK, Silence
  <2>3. \A d \in Client : Agrees(d)'
    BY <1>1, <2>1, OthersAgree DEF Agreement
  <2> QED BY <1>2, <2>2, <2>3 DEF SessionInv, Agreement
<1> QED BY <1>3, <1>4

\* When nothing is on its way the agreement is about what is, ...
LEMMA QuietAgrees ==
  ASSUME SessionInv, Quiet, NEW d \in Client
  PROVE  /\ Scope[d] = wanted[d].space
         /\ \A k \in Counter : /\ k \in wanted[d].joined <=> k \in joined_counters[d]
                               /\ k \in listening[d] => k \in tracked_counters[d]
                               /\ k \in listening[d] /\ Scope[d] # None =>
                                    heard[d][k] = shown[d][k]
<1>1. requests[d] = <<>> /\ DOMAIN requests[d] = {}
  BY DEF Quiet
<1>2. Agrees(d)
  BY DEF SessionInv, Agreement
<1>3. Scope[d] = wanted[d].space
  BY <1>1, <1>2 DEF Agrees, ClientAgrees, SpaceAgrees, Ends
<1>4. ASSUME NEW k \in Counter
      PROVE  /\ k \in wanted[d].joined <=> k \in joined_counters[d]
             /\ k \in listening[d] => k \in tracked_counters[d]
             /\ k \in listening[d] /\ Scope[d] # None => heard[d][k] = shown[d][k]
  <2>1. JoinAgrees(d, k) /\ TrackAgrees(d, k) /\ Hears(d, k)
    BY <1>2 DEF Agrees, ClientAgrees
  <2>2. k \in wanted[d].joined <=> k \in joined_counters[d]
    BY <1>1, <2>1 DEF JoinAgrees, Ends
  <2>3. k \in listening[d] => k \in tracked_counters[d]
    BY <1>1, <2>1 DEF TrackAgrees, Ends
  <2>4. k \in listening[d] /\ Scope[d] # None => heard[d][k] = shown[d][k]
    <3>1. Tracking(d, k)
      BY <1>1 DEF Tracking
    <3>2. inbox[d][k] = <<>>
      BY DEF Quiet, Silence
    <3> QED BY <2>1, <3>1, <3>2 DEF Hears, Told
  <2> QED BY <2>2, <2>3, <2>4
<1> QED BY <1>3, <1>4

\* ... and what is shown is the population that was asked for.
LEMMA AgreementIsCurrent == SessionInv => QuietMeansCurrent
<1> SUFFICES ASSUME SessionInv, Quiet, NEW c \in connections, NEW k \in listening[c],
                    wanted[c].space # None
             PROVE  heard[c][k] = Population(c, k)
  BY DEF QuietMeansCurrent, AllCurrent
<1>1. Good /\ connections \subseteq Client /\ c \in Client /\ k \in Counter
  BY DEF SessionInv, Good, Inv, TypeOK, SessionTypeOK
<1>2. /\ k \in tracked_counters[c] /\ Scope[c] = wanted[c].space
      /\ heard[c][k] = shown[c][k]
  BY <1>1, QuietAgrees
<1>3. shown[c][k] = Service!Value(connections, Scope, joined_counters, Scope[c], k)
  BY <1>1, <1>2, GoodTold DEF ToldOfService
<1>4. {d \in connections : Scope[d] = Scope[c] /\ k \in joined_counters[d]}
        = {d \in connections : wanted[d].space = wanted[c].space /\ k \in wanted[d].joined}
  BY <1>1, <1>2, QuietAgrees
<1>5. Service!Value(connections, Scope, joined_counters, Scope[c], k)
        = Cardinality({d \in connections : Scope[d] = Scope[c] /\ k \in joined_counters[d]})
  BY DEF Service!Value, Service!Cardinality, Cardinality
<1> QED BY <1>2, <1>3, <1>4, <1>5 DEF Population

\* The packets, programs and queues have their types, and nothing outlives its
\* connection: the server's Client and the library's lists go with the socket.
THEOREM SessionTypeCorrect == SessionSpec => []SessionTypeOK
<1>1. SessionInv => SessionTypeOK
  BY DEF SessionInv
<1> QED BY <1>1, SessionStarts, SessionStep, PTL DEF SessionSpec

\* Once nothing is on its way, every listener was told last how many programs are
\* in its namespace and joined its counter, in terms of what the programs asked
\* for: for any number of programs, namespaces and calls, however their requests
\* were interleaved.
THEOREM QuietSessionsCurrent == SessionSpec => []QuietMeansCurrent
BY AgreementIsCurrent, SessionStarts, SessionStep, PTL DEF SessionSpec

\* The server among its programs is the server of module WhiteBell, so that what
\* is proved of that one holds here.
THEOREM SessionsRunTheServer == SessionSpec => Spec
<1>1. SessionInit => Init
  BY DEF SessionInit
<1>2. SessionTypeOK /\ [SessionNext]_sessions => [Next]_vars
  BY ServerSteps DEF sessions
<1> QED BY <1>1, <1>2, SessionTypeCorrect, PTL DEF SessionSpec, Spec

==============================================================================
