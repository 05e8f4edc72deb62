------------------------------ MODULE CppClient ------------------------------
(***************************************************************************)
(* A program that uses the C++ client library, and the two queues between  *)
(* it and the server's Client object for its connection.                   *)
(*                                                                         *)
(* The map of listeners and its methods are module Subscriptions.  The     *)
(* methods that send a packet and leave both ends of the subscriptions     *)
(* alone (trigger_event, join_counter, leave_counter) are not modelled.    *)
(*                                                                         *)
(* The library has no locks.  The program keeps to what the examples do:   *)
(* it registers listeners before it starts a thread for run, or in its     *)
(* listeners; only stop may be called from the other thread at any time.   *)
(* Packets are whole here: how they are cut and put together is module     *)
(* Notifier.                                                               *)
(***************************************************************************)
EXTENDS Subscriptions, FiniteSets

CONSTANT
  NoName        \* no packet is being processed

ASSUME NoNameIsNone == NoName \notin Event \cup Counter

VARIABLES
  running,    \* Details::running
  phase,      \* where the thread that receives is
  caller,     \* whether it received by fetch or by run
  arrived,    \* names of the packets in the InputBuffer
  name,       \* the packet whose listeners are called
  copied,     \* the copy of its listeners that the loop goes through
  called,     \* the listeners called so far
  owed,       \* the counters whose values the server still has to send for the
              \* packet that it handles
  notices,    \* packets to the program, not yet received
  told,       \* history: the counters whose present listeners were told since a
              \* namespace was last chosen
  stopping,   \* history: where stop was called: nowhere, before run set
              \* running, while recv waited in run, or elsewhere in run
  receives    \* history: how often recv has returned since

receiving == <<running, phase, caller, arrived, name, copied, called>>
history   == <<told, stopping, receives>>
answering == <<owed, notices>>
vars      == <<subscriptions, receiving, answering, history>>

-----------------------------------------------------------------------------
(***************************************************************************)
(* Methods that a program may call from its listeners, or while it neither *)
(* receives nor has started to.                                            *)
(***************************************************************************)
MayCall == phase \in {"program", "call"}

\* track_event, track_counter.
track(n, cb) ==
  /\ MayCall
  /\ AddListener(n, cb)
  /\ told' = IF n \in Keys THEN told ELSE told \ {n}
  /\ UNCHANGED <<receiving, answering, stopping, receives>>

\* untrack_event, untrack_counter with a callback, and without one.
untrack_callback(n, cb) ==
  MayCall /\ RemoveListener(n, cb) /\ UNCHANGED <<receiving, answering, history>>

untrack(n) == MayCall /\ RemoveAll(n) /\ UNCHANGED <<receiving, answering, history>>

set_namespace ==
  /\ MayCall
  /\ SetNamespace
  /\ told' = {}
  /\ UNCHANGED <<receiving, answering, stopping, receives>>

\* erase(end()).
untrack_crashes(n, cb) ==
  /\ MayCall
  /\ Unregistered(n, cb)
  /\ phase' = "crashed"
  /\ UNCHANGED <<subscriptions, running, caller, arrived, name, copied, called, answering, history>>

\* Bound: stop is called once.
stop ==
  /\ stopping = "no"
  /\ phase \in {"starting", "loop", "recv", "process", "call"}
  /\ caller = "run"
  /\ running' = FALSE
  /\ stopping' = CASE phase = "starting" -> "before_run"
                   [] phase = "recv"     -> "in_recv"
                   [] OTHER              -> "in_run"
  /\ UNCHANGED <<subscriptions, phase, caller, arrived, name, copied, called, answering, told, receives>>

-----------------------------------------------------------------------------
(***************************************************************************)
(* Receiving.                                                              *)
(***************************************************************************)
\* The flag that fetch passes to recv is not one of recv's: fetch waits too.
fetch ==
  /\ phase = "program"
  /\ phase' = "recv"
  /\ caller' = "fetch"
  /\ UNCHANGED <<subscriptions, running, arrived, name, copied, called, answering, history>>

start_thread ==
  /\ phase = "program"
  /\ phase' = "starting"
  /\ caller' = "run"
  /\ UNCHANGED <<subscriptions, running, arrived, name, copied, called, answering, history>>

run ==
  /\ phase = "starting"
  /\ running' = TRUE
  /\ phase' = "loop"
  /\ UNCHANGED <<subscriptions, caller, arrived, name, copied, called, answering, history>>

\* Mutant: running is not looked at again.
run_loop_forever ==
  /\ phase = "loop"
  /\ phase' = "recv"
  /\ UNCHANGED <<subscriptions, running, caller, arrived, name, copied, called, answering, history>>

run_loop ==
  /\ phase = "loop"
  /\ phase' = IF running THEN "recv" ELSE "returned"
  /\ UNCHANGED <<subscriptions, running, caller, arrived, name, copied, called, answering, history>>

\* recv returns n packets.  Bound: the history counts to 2.
receive ==
  /\ phase = "recv"
  /\ \E n \in 1..Len(notices) :
       /\ arrived' = SubSeq(notices, 1, n)
       /\ notices' = SubSeq(notices, n + 1, Len(notices))
  /\ phase' = "process"
  /\ receives' = IF stopping = "no" \/ receives = 2 THEN receives ELSE receives + 1
  /\ UNCHANGED <<subscriptions, running, caller, name, copied, called, owed, told, stopping>>

\* The lookup of call_event_listeners and call_counter_listeners.
find_listeners ==
  /\ phase = "process"
  /\ arrived # <<>>
  /\ arrived' = Tail(arrived)
  /\ IF Head(arrived) \in Keys
     THEN /\ phase' = "call"
          /\ name' = Head(arrived)
          /\ copied' = listeners[Head(arrived)]
          /\ told' = told \cup ({Head(arrived)} \cap Counter)
     ELSE UNCHANGED <<phase, name, copied, told>>
  /\ called' = <<>>
  /\ UNCHANGED <<subscriptions, running, caller, answering, stopping, receives>>

\* Mutant: the loop goes through the list in the map and not through a copy.
ListInMap == IF name \in Keys THEN listeners[name] ELSE <<>>

\* The list that the loop goes through.
Listed == copied

call_next ==
  /\ phase = "call"
  /\ Len(called) < Len(Listed)
  /\ called' = Append(called, Listed[Len(called) + 1])
  /\ UNCHANGED <<subscriptions, running, phase, caller, arrived, name, copied, answering, history>>

called_all ==
  /\ phase = "call"
  /\ Len(called) >= Len(Listed)
  /\ phase' = "process"
  /\ name' = NoName
  /\ UNCHANGED <<subscriptions, running, caller, arrived, copied, called, answering, history>>

processed_all ==
  /\ phase = "process"
  /\ arrived = <<>>
  /\ phase' = IF caller = "run" THEN "loop" ELSE "program"
  /\ UNCHANGED <<subscriptions, running, caller, arrived, name, copied, called, answering, history>>

-----------------------------------------------------------------------------
(***************************************************************************)
(* The server's end of the connection: Client::track_event and its         *)
(* siblings, Client::set_namespace, and whatever makes the server send.    *)
(***************************************************************************)
Handle ==
  /\ owed = {}
  /\ HandleRequest
  /\ owed' = Greeted
  /\ UNCHANGED <<receiving, notices, history>>

\* Namespace::add_counter_listener: one packet for each counter, in the order of
\* the client's list, which may be any.
Greet(c) ==
  /\ c \in owed
  /\ owed' = owed \ {c}
  /\ Len(notices) < MaxOnWay
  /\ notices' = Append(notices, c)
  /\ UNCHANGED <<subscriptions, receiving, history>>

\* An event is triggered, or a counter changed, by anyone in the namespace.
Notify(n) ==
  /\ owed = {}
  /\ placed /\ n \in tracked
  /\ Len(notices) < MaxOnWay
  /\ notices' = Append(notices, n)
  /\ UNCHANGED <<subscriptions, receiving, owed, history>>

-----------------------------------------------------------------------------
Init ==
  /\ listeners = NoListeners
  /\ running   = FALSE
  /\ phase     = "program"
  /\ caller    = "fetch"
  /\ arrived   = <<>>
  /\ name      = NoName
  /\ copied    = <<>>
  /\ called    = <<>>
  /\ requests  = <<>>
  /\ owed      = {}
  /\ notices   = <<>>
  /\ tracked   = {}
  /\ placed    = FALSE
  /\ told      = {}
  /\ stopping  = "no"
  /\ receives  = 0

Next ==
  \/ \E n \in Name :
       \/ \E cb \in Callback :
            track(n, cb) \/ untrack_callback(n, cb) \/ untrack_crashes(n, cb)
       \/ untrack(n)
       \/ Notify(n)
  \/ set_namespace
  \/ stop
  \/ fetch
  \/ start_thread
  \/ run
  \/ run_loop
  \/ receive
  \/ find_listeners
  \/ call_next
  \/ called_all
  \/ processed_all
  \/ Handle
  \/ \E c \in Counter : Greet(c)

Spec == Init /\ [][Next]_vars

-----------------------------------------------------------------------------
(***************************************************************************)
(* Properties.                                                             *)
(***************************************************************************)

\* Every variable has its type; a key of the map has a callback.
TypeOK ==
  /\ SubscriptionsTypeOK
  /\ running \in BOOLEAN
  /\ phase \in {"program", "starting", "loop", "recv", "process", "call", "returned", "crashed"}
  /\ caller \in {"fetch", "run"}
  /\ arrived \in Seq(Name)
  /\ name \in Name \cup {NoName}
  /\ copied \in Seq(Callback) /\ called \in Seq(Callback)
  /\ owed \subseteq Counter
  /\ notices \in Seq(Name)
  /\ told \subseteq Counter
  /\ stopping \in {"no", "before_run", "in_recv", "in_run"}
  /\ receives \in 0..2

Settled ==
  /\ requests = <<>> /\ owed = {} /\ notices = <<>> /\ arrived = <<>>
  /\ phase \notin {"call", "crashed"}

\* Once nothing is on its way, every counter that has listeners has told them a
\* value since it got the first of them and since the program last chose a
\* namespace, even if it was untracked and tracked again meanwhile, or tracked
\* before there was a namespace, and old values were still on their way.  Without
\* a namespace nobody is told anything.
CountersTold == Settled /\ placed => Keys \cap Counter \subseteq told

\* Each callback registered when a packet is looked up is called once, though the
\* callbacks themselves add and remove listeners of that very name.
EachCalledOnce ==
  /\ phase = "call" => called = SubSeq(copied, 1, Len(called))
  /\ phase = "process" /\ called # <<>> => called = copied

\* stop, called from whatever thread while run is in its loop, lets it receive
\* nothing more, or once if it waits for that already.
StopsInRun ==
  /\ stopping = "in_run" => receives = 0
  /\ stopping = "in_recv" => receives <= 1

\* Client.hpp:25 says of stop, whenever it is called: "will stop after next
\* received message".
StopsAfterNext == receives <= 1

=============================================================================
