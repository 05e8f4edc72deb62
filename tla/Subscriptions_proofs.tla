------------------------- MODULE Subscriptions_proofs -------------------------
(***************************************************************************)
(* Lemmas about module Subscriptions, for the clients that extend it:      *)
(* whatever is on its way between them, the library's map of listeners and *)
(* the server's lists agree, and stay of their types.                      *)
(***************************************************************************)
EXTENDS Subscriptions, WellFoundedInduction, TLAPS

(***************************************************************************)
(* The packets a library sends when it starts and stops tracking a name,   *)
(* and when it chooses a namespace.  N is the set of names.                *)
(***************************************************************************)
Request(N) == [op : {"track", "untrack"}, name : N] \cup [op : {"set_namespace"}, name : {Space}]

(***************************************************************************)
(* Agreement of a queue q of requests with a set K of keys and the set T   *)
(* of tracked names, about the names of M.                                 *)
(***************************************************************************)
Latest(q, i) == \A j \in DOMAIN q : j > i => q[j].name # q[i].name

Mentions(q, n) == \E i \in DOMAIN q : q[i].name = n

AgreesOn(q, K, T, n) ==
  /\ \A i \in DOMAIN q : q[i].name = n /\ Latest(q, i) => (q[i].op = "track" <=> n \in K)
  /\ ~Mentions(q, n) => (n \in T <=> n \in K)

Agrees(q, K, T, M) == \A n \in M : AgreesOn(q, K, T, n)

\* A packet that is sent is the last one about its name, and none of another.
LEMMA AppendLast ==
  ASSUME NEW N, NEW q \in Seq(Request(N)), NEW r \in Request(N)
  PROVE  /\ Append(q, r) \in Seq(Request(N))
         /\ DOMAIN Append(q, r) = 1..Len(q) + 1
         /\ DOMAIN q = 1..Len(q) /\ Len(q) \in Nat
         /\ Append(q, r)[Len(q) + 1] = r
         /\ \A i \in 1..Len(q) : Append(q, r)[i] = q[i]
OBVIOUS

\* Sending a packet that says whether the name in it is a key.
LEMMA SendAgrees ==
  ASSUME NEW N, NEW q \in Seq(Request(N)), NEW K \in SUBSET N, NEW L \in SUBSET N,
         NEW T \in SUBSET N, NEW M \in SUBSET N, NEW r \in Request(N),
         Agrees(q, K, T, M),
         \A m \in N : m # r.name => (m \in L <=> m \in K),
         r.name \in M => (r.op = "track" <=> r.name \in L)
  PROVE  Agrees(Append(q, r), L, T, M)
<1> DEFINE n == r.name
           p == Append(q, r)
<1>2. /\ DOMAIN p = 1..Len(q) + 1 /\ DOMAIN q = 1..Len(q) /\ Len(q) \in Nat
      /\ p[Len(q) + 1] = r
      /\ \A i \in 1..Len(q) : p[i] = q[i]
  BY AppendLast
<1>3. r.name = n
  OBVIOUS
<1> HIDE DEF p, n
<1> SUFFICES ASSUME NEW m \in M PROVE AgreesOn(p, L, T, m)
  BY DEF Agrees, p
<1>4. CASE m = n
  <2>1. ASSUME NEW i \in DOMAIN p, p[i].name = n, Latest(p, i)
        PROVE  p[i] = r
    <3>1. i \in 1..Len(q) + 1 /\ Len(q) + 1 \in DOMAIN p
      BY <1>2, <2>1
    <3>2. ~(Len(q) + 1 > i)
      BY <1>2, <1>3, <2>1, <3>1 DEF Latest
    <3>3. i = Len(q) + 1
      BY <1>2, <3>1, <3>2
    <3> QED BY <1>2, <3>3
  <2>2. Mentions(p, n)
    <3>1. Len(q) + 1 \in DOMAIN p
      BY <1>2
    <3> QED BY <1>2, <1>3, <3>1 DEF Mentions
  <2> QED BY <1>3, <1>4, <2>1, <2>2 DEF AgreesOn
<1>5. CASE m # n
  <2>0. AgreesOn(q, K, T, m) /\ (m \in L <=> m \in K)
    BY <1>3, <1>5 DEF Agrees
  <2>1. ASSUME NEW i \in DOMAIN p, p[i].name = m, Latest(p, i)
        PROVE  i \in DOMAIN q /\ p[i] = q[i] /\ Latest(q, i)
    <3>1. i # Len(q) + 1
      BY <1>2, <1>3, <1>5, <2>1
    <3>2. i \in DOMAIN q
      BY <1>2, <3>1
    <3>3. \A j \in DOMAIN q : j \in DOMAIN p /\ p[j] = q[j]
      BY <1>2
    <3> QED BY <2>1, <3>2, <3>3 DEF Latest
  <2>2. Mentions(q, m) => Mentions(p, m)
    <3>1. \A j \in DOMAIN q : j \in DOMAIN p /\ p[j] = q[j]
      BY <1>2
    <3> QED BY <3>1 DEF Mentions
  <2> QED BY <2>0, <2>1, <2>2 DEF AgreesOn
<1> QED BY <1>4, <1>5

\* A packet that send refused: nothing is claimed of its name any more.
LEMMA RefuseAgrees ==
  ASSUME NEW q, NEW K, NEW L, NEW T, NEW M, NEW n,
         Agrees(q, K, T, M),
         \A m \in M : m # n => (m \in L <=> m \in K)
  PROVE  Agrees(q, L, T, M \ {n})
BY DEF Agrees, AgreesOn

\* What the server tracks changes with the packet's name only.
LEMMA TrackingOne ==
  ASSUME NEW N, Space \notin N, NEW r \in Request(N), NEW T \in SUBSET N
  PROVE  /\ Tracking(T, r) \in SUBSET N
         /\ \A m : m # r.name => (m \in Tracking(T, r) <=> m \in T)
         /\ r.op = "track" <=> r.name \in Tracking(T, r)
         /\ r.op = "untrack" => r.name \notin Tracking(T, r)
         /\ r = [op |-> r.op, name |-> r.name]
<1>1. CASE r.op = "set_namespace"
  <2>1. r.name = Space /\ Tracking(T, r) = T /\ r = [op |-> r.op, name |-> r.name]
    BY <1>1 DEF Request, Tracking
  <2> QED BY <1>1, <2>1
<1>2. CASE r.op = "track"
  <2>1. r.name \in N /\ Tracking(T, r) = T \cup {r.name} /\ r = [op |-> r.op, name |-> r.name]
    BY <1>2 DEF Request, Tracking
  <2> QED BY <1>2, <2>1
<1>3. CASE r.op = "untrack"
  <2>1. r.name \in N /\ Tracking(T, r) = T \ {r.name} /\ r = [op |-> r.op, name |-> r.name]
    BY <1>3 DEF Request, Tracking
  <2> QED BY <1>3, <2>1
<1> QED BY <1>1, <1>2, <1>3 DEF Request

\* The server handles the oldest packet.
LEMMA HandleAgrees ==
  ASSUME NEW N, Space \notin N, NEW q \in Seq(Request(N)), q # <<>>,
         NEW K \in SUBSET N, NEW T \in SUBSET N, NEW M \in SUBSET N,
         Agrees(q, K, T, M)
  PROVE  Agrees(Tail(q), K, Tracking(T, Head(q)), M)
<1> DEFINE p == Tail(q)
           U == Tracking(T, Head(q))
<1>1. /\ DOMAIN p = 1..Len(q) - 1 /\ DOMAIN q = 1..Len(q) /\ Len(q) \in Nat \ {0}
      /\ \A i \in 1..Len(q) - 1 : p[i] = q[i + 1]
      /\ Head(q) = q[1] /\ q[1] \in Request(N)
  OBVIOUS
<1>2. \A m : m # q[1].name => (m \in U <=> m \in T)
  BY <1>1, TrackingOne
<1>3. q[1].op = "track" <=> q[1].name \in U
  BY <1>1, TrackingOne
<1> HIDE DEF p, U
<1> SUFFICES ASSUME NEW m \in M PROVE AgreesOn(p, K, U, m)
  BY DEF Agrees, p, U
<1>4. AgreesOn(q, K, T, m)
  BY DEF Agrees
<1>5. ASSUME NEW i \in DOMAIN p, p[i].name = m, Latest(p, i)
      PROVE  p[i].op = "track" <=> m \in K
  <2>1. i + 1 \in DOMAIN q /\ q[i + 1] = p[i]
    BY <1>1
  <2>2. ASSUME NEW j \in DOMAIN q, j > i + 1 PROVE q[j].name # m
    <3>1. j - 1 \in DOMAIN p /\ p[j - 1] = q[j] /\ j - 1 > i
      BY <1>1, <2>2
    <3> QED BY <1>5, <3>1 DEF Latest
  <2>3. Latest(q, i + 1)
    BY <1>5, <2>1, <2>2 DEF Latest
  <2> QED BY <1>4, <1>5, <2>1, <2>3 DEF AgreesOn
<1>6. ASSUME ~Mentions(p, m)
      PROVE  m \in U <=> m \in K
  <2>1. \A j \in DOMAIN q : j > 1 => q[j].name # m
    <3> SUFFICES ASSUME NEW j \in DOMAIN q, j > 1 PROVE q[j].name # m
      OBVIOUS
    <3>1. j - 1 \in DOMAIN p /\ p[j - 1] = q[j]
      BY <1>1
    <3> QED BY <1>6, <3>1 DEF Mentions
  <2>2. CASE q[1].name = m
    <3>1. 1 \in DOMAIN q /\ Latest(q, 1)
      BY <1>1, <2>1, <2>2 DEF Latest
    <3> QED BY <1>3, <1>4, <2>2, <3>1 DEF AgreesOn
  <2>3. CASE q[1].name # m
    <3>1. ~Mentions(q, m)
      BY <1>1, <2>1, <2>3 DEF Mentions
    <3> QED BY <1>2, <1>4, <2>3, <3>1 DEF AgreesOn
  <2> QED BY <2>2, <2>3
<1> QED BY <1>5, <1>6 DEF AgreesOn

(***************************************************************************)
(* The variables of module Subscriptions.                                  *)
(***************************************************************************)
Callbacks == \A n \in Keys : listeners[n] \in Seq(Callback) /\ listeners[n] # <<>>

\* What the queue to the server and the library's map must satisfy for agreement.
QueueOK ==
  /\ Keys \subseteq Name
  /\ requests \in Seq(Request(Name))
  /\ tracked \subseteq Name

\* The property, name by name.
LEMMA SubscriptionsAgreeIsAgrees ==
  ASSUME QueueOK
  PROVE  SubscriptionsAgree <=> Agrees(requests, Keys, tracked, Name)
<1>1. \A i \in DOMAIN requests : requests[i] \in Request(Name)
  BY DEF QueueOK
<1>2. \A r \in Request(Name) : r.name \in Name \/ (r.op # "track" /\ r.name = Space)
  BY DEF Request
<1>3. Space \notin Keys
  BY SpaceIsNoName DEF QueueOK, Name
<1> QED
  BY <1>1, <1>2, <1>3 DEF SubscriptionsAgree, Agrees, AgreesOn, Latest, LastRequest, Mentions

(***************************************************************************)
(* The invariant.                                                          *)
(***************************************************************************)
SubscriptionsInv == QueueOK /\ Agrees(requests, Keys, tracked, Name) /\ Callbacks

\* It is what the runs check.
LEMMA SubscriptionsInvImplies ==
  SubscriptionsInv /\ placed \in BOOLEAN => SubscriptionsAgree /\ SubscriptionsTypeOK
BY SubscriptionsAgreeIsAgrees
   DEF SubscriptionsInv, SubscriptionsTypeOK, QueueOK, Request, Callbacks

\* The program starts without listeners, the server without names.
LEMMA SubscriptionsInit ==
  listeners = NoListeners /\ requests = <<>> /\ tracked = {} => SubscriptionsInv
BY DEF NoListeners, SubscriptionsInv, QueueOK, Keys, Callbacks, Agrees, AgreesOn, Mentions

\* A method that sends a packet, which says whether the name in it is a key from
\* now on.
LEMMA AskInv ==
  ASSUME SubscriptionsInv, NEW op, NEW n, [op |-> op, name |-> n] \in Request(Name), Ask(op, n),
         Keys' \subseteq Name, tracked' = tracked,
         \A m \in Name : m # n => (m \in Keys' <=> m \in Keys),
         n \in Name => (op = "track" <=> n \in Keys'), Callbacks'
  PROVE  SubscriptionsInv'
<1> DEFINE r == [op |-> op, name |-> n]
           L == Keys'
<1>1. L \subseteq Name /\ r.name = n /\ r.op = op
  OBVIOUS
<1>2. Agrees(Append(requests, r), L, tracked, Name)
  <2> HIDE DEF L, r
  <2> QED BY <1>1, SendAgrees DEF SubscriptionsInv, QueueOK, L, r
<1>3. Append(requests, r) \in Seq(Request(Name))
  <2> HIDE DEF r
  <2> QED BY DEF SubscriptionsInv, QueueOK, r
<1>4. requests' = Append(requests, r)
  BY DEF Ask
<1> QED BY <1>2, <1>3, <1>4 DEF SubscriptionsInv, QueueOK

\* The packets of the methods.
LEMMA IsRequest ==
  /\ \A n \in Name : /\ [op |-> "track", name |-> n] \in Request(Name)
                     /\ [op |-> "untrack", name |-> n] \in Request(Name)
  /\ [op |-> "set_namespace", name |-> Space] \in Request(Name)
  /\ Space \notin Name
BY SpaceIsNoName DEF Request, Name

\* A step that leaves the keys and the packets to the server alone.
LEMMA SameKeysInv ==
  ASSUME SubscriptionsInv, Keys' = Keys, UNCHANGED <<requests, tracked>>, Callbacks'
  PROVE  SubscriptionsInv'
BY DEF SubscriptionsInv, QueueOK

\* Erasing any one element of a list leaves a list.
LEMMA ErasedType ==
  ASSUME NEW s \in Seq(Callback), s # <<>>, NEW i
  PROVE  Erased(s, i) \in Seq(Callback)
<1> DEFINE n == Len(s) - 1
           f == Erased(s, i)
<1>1. n \in Nat
  OBVIOUS
<1>2. \A j \in 1..n : s[j] \in Callback /\ s[j + 1] \in Callback
  OBVIOUS
<1>3. f \in [1..n -> Callback]
  BY <1>2 DEF Erased
<1> HIDE DEF n, f
<1>4. f \in Seq(Callback)
  BY <1>1, <1>3
<1> QED BY <1>4 DEF f

\* track_event and track_counter: the first callback of a name adds its key.
LEMMA AddInv ==
  ASSUME SubscriptionsInv, NEW n \in Name, NEW cb \in Callback, AddListener(n, cb)
  PROVE  SubscriptionsInv'
<1>1. CASE n \in Keys
  <2>1. Keys' = Keys /\ requests' = requests /\ tracked' = tracked
    BY <1>1 DEF AddListener, Keys
  <2>2. listeners' = [listeners EXCEPT ![n] = Append(listeners[n], cb)]
    BY <1>1 DEF AddListener
  <2>3. ASSUME NEW s \in Seq(Callback)
        PROVE  Append(s, cb) \in Seq(Callback) /\ Append(s, cb) # <<>>
    <3>1. Append(s, cb) \in Seq(Callback) /\ Len(Append(s, cb)) = Len(s) + 1 /\ Len(s) \in Nat
      OBVIOUS
    <3>2. Len(<<>>) = 0
      OBVIOUS
    <3> QED BY <3>1, <3>2
  <2>4. Callbacks'
    BY <1>1, <2>2, <2>3 DEF Keys, Callbacks, SubscriptionsInv
  <2> QED BY <2>1, <2>4, SameKeysInv
<1>2. CASE n \notin Keys
  <2>1. Keys' = Keys \cup {n} /\ Ask("track", n) /\ tracked' = tracked
    BY <1>2 DEF AddListener, Keys
  <2>2. listeners' = [m \in Keys \cup {n} |-> IF m = n THEN <<cb>> ELSE listeners[m]]
    BY <1>2 DEF AddListener
  <2>3. <<cb>> \in Seq(Callback) /\ <<cb>> # <<>>
    OBVIOUS
  <2>4. ASSUME NEW m \in Keys'
        PROVE  listeners'[m] \in Seq(Callback) /\ listeners'[m] # <<>>
    <3>1. CASE m = n
      <4>1. listeners'[m] = <<cb>>
        BY <2>2, <3>1
      <4> QED BY <2>3, <4>1
    <3>2. CASE m # n
      <4>1. m \in Keys /\ listeners'[m] = listeners[m]
        BY <2>1, <2>2, <3>2
      <4> QED BY <4>1 DEF Callbacks, SubscriptionsInv
    <3> QED BY <3>1, <3>2
  <2>5. Callbacks'
    BY <2>4 DEF Callbacks
  <2> QED BY <2>1, <2>5, AskInv, IsRequest DEF SubscriptionsInv, QueueOK
<1> QED BY <1>1, <1>2

\* untrack_event and untrack_counter without a callback, of any name.
LEMMA RemoveAllInv ==
  ASSUME SubscriptionsInv, NEW n \in Name, RemoveAll(n)
  PROVE  SubscriptionsInv'
<1>1. Keys' = Keys \ {n} /\ Ask("untrack", n) /\ tracked' = tracked
  BY DEF RemoveAll, Without, Keys
<1>2. Callbacks'
  BY DEF RemoveAll, Without, Keys, Callbacks, SubscriptionsInv
<1> QED BY <1>1, <1>2, AskInv, IsRequest DEF SubscriptionsInv, QueueOK

\* With a callback: the key goes with the last one.
LEMMA RemoveInv ==
  ASSUME SubscriptionsInv, NEW n \in Name, NEW cb \in Callback, RemoveListener(n, cb)
  PROVE  SubscriptionsInv'
<1> DEFINE rest == Erased(listeners[n], Position(listeners[n], cb))
<1>1. tracked' = tracked /\ n \in Keys
  BY DEF RemoveListener
<1>2. CASE rest = <<>>
  <2>1. Keys' = Keys \ {n} /\ Ask("untrack", n) /\ listeners' = Without(n)
    BY <1>2 DEF RemoveListener, Without, Keys
  <2>2. Callbacks'
    BY <2>1 DEF Without, Keys, Callbacks, SubscriptionsInv
  <2> QED BY <1>1, <2>1, <2>2, AskInv, IsRequest DEF SubscriptionsInv, QueueOK
<1>3. CASE rest # <<>>
  <2>1. Keys' = Keys /\ requests' = requests /\ listeners' = [listeners EXCEPT ![n] = rest]
    BY <1>3 DEF RemoveListener, Keys
  <2>2. rest \in Seq(Callback)
    BY <1>1, ErasedType DEF Callbacks, SubscriptionsInv
  <2> HIDE DEF rest
  <2>3. Callbacks'
    BY <1>1, <1>3, <2>1, <2>2 DEF Keys, Callbacks, SubscriptionsInv
  <2> QED BY <1>1, <2>1, <2>3, SameKeysInv
<1> QED BY <1>2, <1>3

\* set_namespace.
LEMMA SetNamespaceInv ==
  ASSUME SubscriptionsInv, SetNamespace
  PROVE  SubscriptionsInv'
<1>1. Keys' = Keys /\ Ask("set_namespace", Space) /\ tracked' = tracked /\ Callbacks'
  BY DEF SetNamespace, Keys, Callbacks, SubscriptionsInv
<1> QED BY <1>1, AskInv, IsRequest DEF SubscriptionsInv, QueueOK

\* The server's end: Client::track_event and its siblings.
LEMMA HandleInv ==
  ASSUME SubscriptionsInv, HandleRequest
  PROVE  SubscriptionsInv'
<1> DEFINE U == Tracking(tracked, Head(requests))
<1>1. /\ requests # <<>> /\ requests' = Tail(requests) /\ tracked' = U
      /\ Keys' = Keys /\ Callbacks'
  BY DEF HandleRequest, Keys, Callbacks, SubscriptionsInv
<1>2. requests \in Seq(Request(Name)) /\ Keys \in SUBSET Name /\ tracked \in SUBSET Name
  BY DEF SubscriptionsInv, QueueOK
<1>3. Agrees(Tail(requests), Keys, U, Name)
  BY <1>1, <1>2, HandleAgrees, IsRequest DEF SubscriptionsInv
<1>4. Tail(requests) \in Seq(Request(Name)) /\ Head(requests) \in Request(Name)
  BY <1>1, <1>2
<1>5. U \subseteq Name
  BY <1>2, <1>4, TrackingOne, IsRequest
<1> HIDE DEF U
<1> QED BY <1>1, <1>2, <1>3, <1>4, <1>5 DEF SubscriptionsInv, QueueOK

\* Every step that is one of Subscriptions, or leaves its variables alone, keeps
\* the invariant.
LEMMA SubscriptionsNext ==
  SubscriptionsInv /\ [SubscriptionStep]_subscriptions => SubscriptionsInv'
<1>1. CASE UNCHANGED subscriptions
  BY <1>1 DEF subscriptions, SubscriptionsInv, QueueOK, Keys, Callbacks
<1>2. ASSUME SubscriptionsInv, SubscriptionStep PROVE SubscriptionsInv'
  BY <1>2, AddInv, RemoveInv, RemoveAllInv, SetNamespaceInv, HandleInv DEF SubscriptionStep
<1> QED BY <1>1, <1>2

\* Some of the first n numbers have a last one.
LEMMA LastOfSome ==
  ASSUME NEW n \in Nat, NEW S \in SUBSET (1..n), S # {}
  PROVE  \E i \in S : \A j \in S : j <= i
<1> DEFINE Left == {n - i : i \in S}
<1>1. Left \subseteq Nat /\ Left # {}
  <2>1. \A i \in S : n - i \in Nat
    OBVIOUS
  <2>2. PICK i \in S : TRUE
    OBVIOUS
  <2>3. n - i \in Left
    OBVIOUS
  <2> QED BY <2>1, <2>3
<1>2. IsWellFoundedOn(OpToRel(<, Nat), Nat)
  BY NatLessThanWellFounded
<1>3. PICK x \in Left : \A y \in Left : ~ (<<y, x>> \in OpToRel(<, Nat))
  <2> HIDE DEF Left
  <2> QED BY <1>1, <1>2, WFMin, Zenon
<1>4. \A y \in Left : ~(y < x)
  <2> HIDE DEF Left
  <2> QED BY <1>1, <1>3, Zenon DEF OpToRel
<1>5. PICK i \in S : x = n - i
  OBVIOUS
<1>6. ASSUME NEW j \in S PROVE j <= i
  <2>1. n - j \in Left
    OBVIOUS
  <2> HIDE DEF Left
  <2>2. ~(n - j < n - i)
    BY <1>4, <1>5, <2>1, Zenon
  <2>3. i \in Nat /\ j \in Nat
    OBVIOUS
  <2> QED BY <2>2, <2>3
<1> QED BY <1>6

\* A name with listeners that the server does not track has a packet on its way
\* that starts tracking it.
LEMMA TrackOnItsWay ==
  ASSUME SubscriptionsInv, NEW n \in Keys, n \notin tracked
  PROVE  \E i \in DOMAIN requests : requests[i] = [op |-> "track", name |-> n]
<1>1. requests \in Seq(Request(Name)) /\ n \in Name /\ AgreesOn(requests, Keys, tracked, n)
  BY DEF SubscriptionsInv, QueueOK, Agrees
<1> DEFINE About == {i \in DOMAIN requests : requests[i].name = n}
<1>2. DOMAIN requests = 1..Len(requests) /\ Len(requests) \in Nat
  BY <1>1
<1>3. About # {} /\ About \subseteq 1..Len(requests)
  BY <1>1, <1>2 DEF AgreesOn, Mentions
<1>4. PICK i \in About : \A j \in About : j <= i
  BY <1>2, <1>3, LastOfSome
<1>5. Latest(requests, i)
  BY <1>2, <1>4 DEF Latest
<1>6. requests[i].op = "track" /\ requests[i].name = n
  BY <1>1, <1>5 DEF AgreesOn
<1>7. requests[i] \in Request(Name)
  BY <1>1
<1>8. requests[i] = [op |-> "track", name |-> n]
  BY <1>6, <1>7 DEF Request
<1> QED BY <1>8

\* Nothing takes a client out of its namespace but another one.
LEMMA PlacedNext ==
  placed \in BOOLEAN /\ [SubscriptionStep]_subscriptions
  => placed' \in BOOLEAN /\ (placed => placed')
BY DEF SubscriptionStep, AddListener, RemoveListener, RemoveAll, SetNamespace, HandleRequest,
       subscriptions

(***************************************************************************)
(* Between two packets that start tracking a name there is one that ends   *)
(* it.  Position 0 of a queue q stands for what the server has handled,    *)
(* the one behind the end for what the library sends next.                 *)
(***************************************************************************)
Starts(q, T, n, i) == IF i = 0 THEN n \in T ELSE q[i] = [op |-> "track", name |-> n]

MayStart(q, K, n, j) == IF j = Len(q) + 1 THEN n \notin K ELSE Starts(q, {}, n, j)

Ends(q, n, k) == q[k] = [op |-> "untrack", name |-> n]

AlternatesFor(q, K, T, n) ==
  \A i \in 0..Len(q), j \in 1..Len(q) + 1 :
    i < j /\ Starts(q, T, n, i) /\ MayStart(q, K, n, j) => \E k \in i + 1..j - 1 : Ends(q, n, k)

Alternates(q, K, T, N) == \A n \in N : AlternatesFor(q, K, T, n)

\* The first packet for a name that becomes a key, or one that says that it is
\* none, or one about no name.
LEMMA SendAlternates ==
  ASSUME NEW N, NEW q \in Seq(Request(N)), NEW K, NEW L, NEW T, NEW op, NEW n,
         [op |-> op, name |-> n] \in Request(N),
         Alternates(q, K, T, N),
         \A m \in N : m # n => (m \in L <=> m \in K),
         n \in N => (op = "track" <=> n \in L) /\ (op # "track" => op = "untrack"),
         op = "track" => n \notin K
  PROVE  Alternates(Append(q, [op |-> op, name |-> n]), L, T, N)
<1> DEFINE r == [op |-> op, name |-> n]
           p == Append(q, r)
<1>1. r \in Request(N)
  OBVIOUS
<1>2. /\ Len(p) = Len(q) + 1 /\ Len(q) \in Nat
      /\ p[Len(q) + 1] = r
      /\ \A i \in 1..Len(q) : p[i] = q[i]
  <2> HIDE DEF r
  <2> QED BY <1>1
<1>3. r.name = n /\ r.op = op
  OBVIOUS
<1> HIDE DEF p, r
<1> SUFFICES ASSUME NEW m \in N, NEW i \in 0..Len(p), NEW j \in 1..Len(p) + 1,
                    i < j, Starts(p, T, m, i), MayStart(p, L, m, j)
             PROVE  \E k \in i + 1..j - 1 : Ends(p, m, k)
  BY DEF Alternates, AlternatesFor, p, r
<1>4. ASSUME i <= Len(q), NEW l \in 1..Len(q) + 1, l <= j, i < l, MayStart(q, K, m, l)
      PROVE  \E k \in i + 1..j - 1 : Ends(p, m, k)
  <2>1. Starts(q, T, m, i)
    BY <1>2, <1>4 DEF Starts
  <2>2. i \in 0..Len(q)
    BY <1>2, <1>4
  <2>3. PICK k \in i + 1..l - 1 : Ends(q, m, k)
    BY <1>4, <2>1, <2>2 DEF Alternates, AlternatesFor
  <2>4. k \in 1..Len(q) /\ k \in i + 1..j - 1
    BY <1>2, <1>4, <2>2
  <2>5. Ends(p, m, k)
    BY <1>2, <2>3, <2>4 DEF Ends
  <2> QED BY <2>4, <2>5
<1>5. CASE j <= Len(q)
  <2>1. j \in 1..Len(q) + 1 /\ i <= Len(q) /\ j # Len(q) + 1 /\ j # Len(p) + 1 /\ j # 0
    BY <1>2, <1>5
  <2>2. MayStart(q, K, m, j)
    BY <1>2, <1>5, <2>1 DEF MayStart, Starts
  <2> QED BY <1>4, <2>1, <2>2
<1>6. CASE j = Len(q) + 1
  <2>1. j \in 1..Len(q) + 1 /\ i <= Len(q) /\ j # Len(p) + 1 /\ j # 0
    BY <1>2, <1>6
  <2>2. r = [op |-> "track", name |-> m]
    BY <1>2, <1>6, <2>1 DEF MayStart, Starts
  <2>3. m = n /\ op = "track"
    BY <1>3, <2>2
  <2>4. MayStart(q, K, m, j)
    BY <1>6, <2>3 DEF MayStart
  <2> QED BY <1>4, <2>1, <2>4
<1>7. CASE j = Len(q) + 2
  <2>1. j = Len(p) + 1 /\ Len(q) + 1 \in 1..Len(q) + 1 /\ Len(q) + 1 <= j
    BY <1>2, <1>7
  <2>2. m \notin L
    BY <2>1 DEF MayStart
  <2>3. CASE i <= Len(q) /\ m # n
    <3>1. MayStart(q, K, m, Len(q) + 1)
      BY <2>2, <2>3 DEF MayStart
    <3>2. i < Len(q) + 1
      BY <1>2, <2>3
    <3> QED BY <1>4, <2>1, <2>3, <3>1, <3>2
  <2>4. CASE i <= Len(q) /\ m = n
    <3>1. Len(q) + 1 \in i + 1..j - 1
      BY <1>2, <1>7, <2>4
    <3>2. op = "untrack"
      BY <2>2, <2>4
    <3>3. Ends(p, m, Len(q) + 1)
      BY <1>2, <2>4, <3>2 DEF Ends, r
    <3> QED BY <3>1, <3>3
  <2>5. CASE i = Len(q) + 1
    <3>1. r = [op |-> "track", name |-> m]
      BY <1>2, <2>5 DEF Starts
    <3>2. m = n /\ op = "track"
      BY <1>3, <3>1
    <3> QED BY <2>2, <3>2
  <2> QED BY <1>2, <2>3, <2>4, <2>5
<1> QED BY <1>2, <1>5, <1>6, <1>7

\* The server handles the oldest packet.
LEMMA HandleAlternates ==
  ASSUME NEW N, Space \notin N, NEW q \in Seq(Request(N)), q # <<>>, NEW K, NEW T \in SUBSET N,
         Alternates(q, K, T, N)
  PROVE  Alternates(Tail(q), K, Tracking(T, Head(q)), N)
<1> DEFINE p == Tail(q)
           U == Tracking(T, Head(q))
<1>1. /\ Len(q) \in Nat \ {0} /\ Len(p) = Len(q) - 1
      /\ \A i \in 1..Len(q) - 1 : p[i] = q[i + 1]
      /\ Head(q) = q[1] /\ q[1] \in Request(N)
  OBVIOUS
<1>2. \A m : m \in U /\ ~Starts(q, T, m, 1) => Starts(q, T, m, 0) /\ ~Ends(q, m, 1)
  <2>1. /\ \A m : m # q[1].name => (m \in U <=> m \in T)
        /\ q[1].op = "track" <=> q[1].name \in U
        /\ q[1].op = "untrack" => q[1].name \notin U
        /\ q[1] = [op |-> q[1].op, name |-> q[1].name]
    BY <1>1, TrackingOne
  <2> HIDE DEF U
  <2>2. ASSUME NEW m, m \in U, ~Starts(q, T, m, 1) PROVE Starts(q, T, m, 0) /\ ~Ends(q, m, 1)
    <3>1. ~(q[1].op = "track" /\ q[1].name = m)
      BY <2>1, <2>2 DEF Starts
    <3>2. m \in T /\ ~(q[1].op = "untrack" /\ q[1].name = m)
      BY <2>1, <2>2, <3>1
    <3>3. ~Ends(q, m, 1)
      BY <3>2 DEF Ends
    <3> QED BY <3>2, <3>3 DEF Starts
  <2> QED BY <2>2
<1> HIDE DEF p, U
<1> SUFFICES ASSUME NEW m \in N, NEW i \in 0..Len(p), NEW j \in 1..Len(p) + 1,
                    i < j, Starts(p, U, m, i), MayStart(p, K, m, j)
             PROVE  \E k \in i + 1..j - 1 : Ends(p, m, k)
  BY DEF Alternates, AlternatesFor, p, U
<1>3. MayStart(q, K, m, j + 1) /\ j + 1 \in 1..Len(q) + 1
  <2>1. j + 1 \in 1..Len(q) + 1 /\ j # 0 /\ j + 1 # 0 /\ (j = Len(p) + 1 <=> j + 1 = Len(q) + 1)
    BY <1>1
  <2>2. j # Len(p) + 1 => p[j] = q[j + 1]
    BY <1>1
  <2> QED BY <2>1, <2>2 DEF MayStart, Starts
<1>4. ASSUME NEW l \in 0..Len(q), l <= i + 1, Starts(q, T, m, l), NEW k \in l + 1..j, Ends(q, m, k),
             k > i + 1
      PROVE  \E h \in i + 1..j - 1 : Ends(p, m, h)
  <2>1. k - 1 \in i + 1..j - 1 /\ k - 1 \in 1..Len(q) - 1 /\ k - 1 + 1 = k
    BY <1>1, <1>4
  <2>2. Ends(p, m, k - 1)
    BY <1>1, <1>4, <2>1 DEF Ends
  <2> QED BY <2>1, <2>2
<1>5. CASE i > 0 \/ Starts(q, T, m, 1)
  <2>1. Starts(q, T, m, i + 1)
    BY <1>1, <1>5 DEF Starts
  <2>2. i + 1 \in 0..Len(q) /\ i + 1 < j + 1
    BY <1>1
  <2>3. PICK k \in i + 1 + 1..j + 1 - 1 : Ends(q, m, k)
    BY <1>3, <2>1, <2>2 DEF Alternates, AlternatesFor
  <2> QED BY <1>4, <2>1, <2>2, <2>3
<1>6. CASE i = 0 /\ ~Starts(q, T, m, 1)
  <2>1. Starts(q, T, m, 0) /\ ~Ends(q, m, 1)
    BY <1>2, <1>6 DEF Starts
  <2>2. 0 \in 0..Len(q) /\ 0 < j + 1
    BY <1>1
  <2>3. PICK k \in 0 + 1..j + 1 - 1 : Ends(q, m, k)
    BY <1>3, <2>1, <2>2 DEF Alternates, AlternatesFor
  <2>4. k \in 0 + 1..j /\ k > i + 1 /\ 0 <= i + 1
    BY <1>6, <2>1, <2>3
  <2> QED BY <1>4, <2>1, <2>2, <2>3, <2>4
<1> QED BY <1>5, <1>6

SubscriptionsAlternate == Alternates(requests, Keys, tracked, Name)

LEMMA AlternateInit ==
  listeners = NoListeners /\ requests = <<>> /\ tracked = {} => SubscriptionsAlternate
BY DEF SubscriptionsAlternate, Alternates, AlternatesFor, Starts

\* The first callback of a name is the only one that is announced.
LEMMA AlternateNext ==
  SubscriptionsInv /\ SubscriptionsAlternate /\ [SubscriptionStep]_subscriptions
  => SubscriptionsAlternate'
<1> SUFFICES ASSUME SubscriptionsInv, SubscriptionsAlternate, [SubscriptionStep]_subscriptions
             PROVE  SubscriptionsAlternate'
  OBVIOUS
<1>1. requests \in Seq(Request(Name))
  BY DEF SubscriptionsInv, QueueOK
<1>2. ASSUME UNCHANGED <<Keys, requests, tracked>> PROVE SubscriptionsAlternate'
  BY <1>2 DEF SubscriptionsAlternate
<1>3. ASSUME NEW op, NEW n, [op |-> op, name |-> n] \in Request(Name), Ask(op, n),
             tracked' = tracked,
             \A m \in Name : m # n => (m \in Keys' <=> m \in Keys),
             n \in Name => (op = "track" <=> n \in Keys') /\ (op # "track" => op = "untrack"),
             op = "track" => n \notin Keys
      PROVE  SubscriptionsAlternate'
  <2>1. requests' = Append(requests, [op |-> op, name |-> n])
    BY <1>3 DEF Ask
  <2>2. Alternates(Append(requests, [op |-> op, name |-> n]), Keys', tracked, Name)
    BY <1>1, <1>3, SendAlternates DEF SubscriptionsAlternate
  <2> QED BY <1>3, <2>1, <2>2 DEF SubscriptionsAlternate
<1>4. ASSUME NEW n \in Name, NEW cb \in Callback, AddListener(n, cb)
      PROVE  SubscriptionsAlternate'
  <2>1. CASE n \in Keys
    BY <1>2, <1>4, <2>1 DEF AddListener, Keys
  <2>2. CASE n \notin Keys
    BY <1>3, <1>4, <2>2, IsRequest DEF AddListener, Keys
  <2> QED BY <2>1, <2>2
<1>5. ASSUME NEW n \in Name, RemoveAll(n) PROVE SubscriptionsAlternate'
  BY <1>3, <1>5, IsRequest DEF RemoveAll, Without, Keys
<1>6. ASSUME NEW n \in Name, NEW cb \in Callback, RemoveListener(n, cb)
      PROVE  SubscriptionsAlternate'
  <2> DEFINE rest == Erased(listeners[n], Position(listeners[n], cb))
  <2>1. CASE rest = <<>>
    <3>1. Keys' = Keys \ {n} /\ Ask("untrack", n) /\ tracked' = tracked
      BY <1>6, <2>1 DEF RemoveListener, Without, Keys
    <3> QED BY <1>3, <3>1, IsRequest
  <2>2. CASE rest # <<>>
    <3>1. listeners' = [listeners EXCEPT ![n] = rest] /\ UNCHANGED <<requests, tracked>>
      BY <1>6, <2>2 DEF RemoveListener
    <3> QED BY <1>2, <3>1 DEF Keys
  <2> QED BY <2>1, <2>2
<1>7. ASSUME HandleRequest PROVE SubscriptionsAlternate'
  <2>1. tracked \in SUBSET Name
    BY DEF SubscriptionsInv, QueueOK
  <2> QED BY <1>1, <1>7, <2>1, HandleAlternates, IsRequest
          DEF HandleRequest, SubscriptionsAlternate, Keys
<1>8. CASE UNCHANGED subscriptions
  BY <1>2, <1>8 DEF subscriptions, Keys
<1>9. ASSUME SetNamespace PROVE SubscriptionsAlternate'
  BY <1>3, <1>9, IsRequest DEF SetNamespace, Keys
<1> QED BY <1>4, <1>5, <1>6, <1>7, <1>8, <1>9 DEF SubscriptionStep

\* The server does not yet track the name that the oldest packet starts tracking.
LEMMA OldestIsNew ==
  ASSUME SubscriptionsInv, SubscriptionsAlternate, requests # <<>>, Head(requests).op = "track"
  PROVE  Head(requests).name \notin tracked
<1>1. Head(requests) = requests[1] /\ requests[1] \in Request(Name) /\ Len(requests) \in Nat \ {0}
  BY DEF SubscriptionsInv, QueueOK
<1>2. PICK n \in Name : requests[1] = [op |-> "track", name |-> n]
  BY <1>1 DEF Request
<1>3. 0 \in 0..Len(requests) /\ 1 \in 1..Len(requests) + 1 /\ 1 # Len(requests) + 1
  BY <1>1
<1>4. MayStart(requests, Keys, n, 1)
  BY <1>2, <1>3 DEF MayStart, Starts
<1>5. n \in tracked => \E k \in 0 + 1..1 - 1 : Ends(requests, n, k)
  <2>1. n \in tracked => Starts(requests, tracked, n, 0)
    BY DEF Starts
  <2>2. AlternatesFor(requests, Keys, tracked, n) /\ 0 < 1
    BY DEF SubscriptionsAlternate, Alternates
  <2> QED BY <1>3, <1>4, <2>1, <2>2 DEF AlternatesFor
<1>6. \A k \in 0 + 1..1 - 1 : FALSE
  OBVIOUS
<1>7. Head(requests).name = n
  BY <1>1, <1>2
<1> QED BY <1>5, <1>6, <1>7

===============================================================================
