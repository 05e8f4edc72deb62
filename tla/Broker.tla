-------------------------------- MODULE Broker --------------------------------
(***************************************************************************)
(* What WhiteBell promises its clients (README.md, notes/features.txt):    *)
(*  - a namespace is a scope, named and nothing more: two clients that     *)
(*    chose the same name are together, any two others never interact;     *)
(*  - an event reaches each client that tracks it in the scope, once;      *)
(*  - a counter is the number of connected clients of the scope that       *)
(*    joined it, and whoever tracks it has been told its present value.    *)
(* There are no Namespace objects here, no listener lists and no table:    *)
(* module WhiteBell is shown to implement this one.                        *)
(***************************************************************************)
EXTENDS Naturals, FiniteSets

CONSTANTS Client, Event, Counter, NsName, None

VARIABLES
  online,    \* the connected clients
  member,    \* the name of the namespace a client chose, or None
  listens,   \* [Client -> SUBSET Event], the events a client asked for
  watches,   \* [Client -> SUBSET Counter], the counters it asked to be told of
  joined,    \* [Client -> SUBSET Counter], the counters that count it
  delivered, \* [Client -> [Event -> Nat]], what the last step delivered
  told       \* [Client -> [Counter -> Nat \cup {None}]]

vars == <<online, member, listens, watches, joined, delivered, told>>

Value(on, mem, jo, nm, k) == Cardinality({d \in on : mem[d] = nm /\ k \in jo[d]})

\* Whoever watches a counter in some scope knows its value after every step.
Tell ==
  told' = [c \in Client |-> [k \in Counter |->
    IF k \in watches'[c] /\ member'[c] # None
    THEN Value(online', member', joined', member'[c], k) ELSE None]]

Nothing == [c \in Client |-> [e \in Event |-> 0]]

Init ==
  /\ online    = {}
  /\ member    = [c \in Client |-> None]
  /\ listens   = [c \in Client |-> {}]
  /\ watches   = [c \in Client |-> {}]
  /\ joined    = [c \in Client |-> {}]
  /\ delivered = Nothing
  /\ told      = [c \in Client |-> [k \in Counter |-> None]]

Connect(c) ==
  /\ c \notin online
  /\ online' = online \cup {c}
  /\ UNCHANGED <<member, listens, watches, joined>>
  /\ delivered' = Nothing
  /\ Tell

Leave(c) ==
  /\ c \in online
  /\ online'  = online \ {c}
  /\ member'  = [member EXCEPT ![c] = None]
  /\ listens' = [listens EXCEPT ![c] = {}]
  /\ watches' = [watches EXCEPT ![c] = {}]
  /\ joined'  = [joined EXCEPT ![c] = {}]
  /\ delivered' = Nothing
  /\ Tell

Move(c, nm) ==
  /\ c \in online
  /\ member' = [member EXCEPT ![c] = nm]
  /\ UNCHANGED <<online, listens, watches, joined>>
  /\ delivered' = Nothing
  /\ Tell

Listen(c, E) ==
  /\ c \in online
  /\ listens' = [listens EXCEPT ![c] = E]
  /\ UNCHANGED <<online, member, watches, joined>>
  /\ delivered' = Nothing
  /\ Tell

Watch(c, K) ==
  /\ c \in online
  /\ watches' = [watches EXCEPT ![c] = K]
  /\ UNCHANGED <<online, member, listens, joined>>
  /\ delivered' = Nothing
  /\ Tell

Join(c, K) ==
  /\ c \in online
  /\ joined' = [joined EXCEPT ![c] = K]
  /\ UNCHANGED <<online, member, listens, watches>>
  /\ delivered' = Nothing
  /\ Tell

Publish(c, e) ==
  /\ c \in online
  /\ delivered' = [d \in Client |-> [n \in Event |->
       IF n = e /\ member[c] # None /\ member[d] = member[c] /\ e \in listens[d]
       THEN 1 ELSE 0]]
  /\ UNCHANGED <<online, member, listens, watches, joined>>
  /\ Tell

Next ==
  \E c \in Client :
    \/ Connect(c)
    \/ Leave(c)
    \/ \E nm \in NsName : Move(c, nm)
    \/ \E E \in SUBSET Event : Listen(c, E)
    \/ \E K \in SUBSET Counter : Watch(c, K) \/ Join(c, K)
    \/ \E e \in Event : Publish(c, e)

Spec == Init /\ [][Next]_vars

=============================================================================
