------------------------------- MODULE Session -------------------------------
(***************************************************************************)
(* The server of module WhiteBell with its clients' programs: between each *)
(* program, which uses a client library, and its Client object there are   *)
(* two queues.  What a program is told of a counter was true when the      *)
(* server sent it, and what it asks for happens when the server gets to    *)
(* it, after what others asked for meanwhile.                              *)
(*                                                                         *)
(* Counters only: events leave no state behind.  Connections are reliable  *)
(* and ordered, and have room for what is sent; where a socket is full is  *)
(* module Notifier, and where a library's lists and packets go different   *)
(* ways CppClient and PhpClient.                                           *)
(***************************************************************************)
EXTENDS WhiteBell

CONSTANT
  MaxCalls   \* bound: calls of the libraries, and ends of connections

ASSUME CallsNatural == MaxCalls \in Nat

VARIABLES
  requests,  \* packets on their way to the server, by client
  inbox,     \* values on their way to each program, by counter: in which order
             \* it receives those of different counters is left open
  listening, \* counters that have listeners in each program
  heard,     \* history: the last value that the present listeners were told
  wanted,    \* history: the namespace and the counters that each program asked
             \* for last, [space, joined]
  calls      \* history: how many there were

programs == <<listening, wanted, calls>>
sessions == <<vars, requests, inbox, heard, programs>>

Nothing == [space |-> None, joined |-> {}]

-----------------------------------------------------------------------------
(***************************************************************************)
(* The libraries.                                                          *)
(***************************************************************************)
Calls == calls < MaxCalls /\ calls' = calls + 1

send(c, op, n) ==
  /\ c \in connections
  /\ Calls
  /\ requests' = [requests EXCEPT ![c] = Append(@, [op |-> op, name |-> n])]
  /\ UNCHANGED <<vars, inbox>>

set_namespace(c, nm) ==
  /\ send(c, "set_namespace", nm)
  /\ wanted' = [wanted EXCEPT ![c].space = nm]
  /\ UNCHANGED <<heard, listening>>

\* The first listener; further ones send nothing.
track_counter(c, k) ==
  /\ k \notin listening[c]
  /\ send(c, "track_counter", k)
  /\ listening' = [listening EXCEPT ![c] = @ \cup {k}]
  /\ heard' = [heard EXCEPT ![c][k] = None]
  /\ UNCHANGED wanted

untrack_counter(c, k) ==
  /\ send(c, "untrack_counter", k)
  /\ listening' = [listening EXCEPT ![c] = @ \ {k}]
  /\ heard' = [heard EXCEPT ![c][k] = None]
  /\ UNCHANGED wanted

join_counter(c, k) ==
  /\ send(c, "join_counter", k)
  /\ wanted' = [wanted EXCEPT ![c].joined = @ \cup {k}]
  /\ UNCHANGED <<heard, listening>>

leave_counter(c, k) ==
  /\ send(c, "leave_counter", k)
  /\ wanted' = [wanted EXCEPT ![c].joined = @ \ {k}]
  /\ UNCHANGED <<heard, listening>>

\* The next packet: listeners of its counter are called, if there are any.
receive(c) ==
  /\ \E k \in Counter :
       /\ inbox[c][k] # <<>>
       /\ heard' = IF k \in listening[c]
                   THEN [heard EXCEPT ![c][k] = Head(inbox[c][k])] ELSE heard
       /\ inbox' = [inbox EXCEPT ![c][k] = Tail(@)]
  /\ UNCHANGED <<vars, requests, programs>>

-----------------------------------------------------------------------------
(***************************************************************************)
(* The server.                                                             *)
(***************************************************************************)
\* What the step sends comes behind what is on its way already; both go with the
\* connection.
Delivered ==
  inbox' = [d \in Client |-> [k \in Counter |->
    IF d \in connections' THEN inbox[d][k] \o counts_sent'[d][k] ELSE <<>>]]

Connect(c) ==
  /\ Accept(c)
  /\ Delivered
  /\ UNCHANGED <<requests, heard, programs>>

Handler(c, r) ==
  \/ r.op = "set_namespace"   /\ SetNamespace(c, r.name)
  \/ r.op = "track_counter"   /\ TrackCounter(c, r.name)
  \/ r.op = "untrack_counter" /\ UntrackCounter(c, r.name)
  \/ r.op = "join_counter"    /\ JoinCounter(c, r.name)
  \/ r.op = "leave_counter"   /\ LeaveCounter(c, r.name)

Serve(c) ==
  /\ requests[c] # <<>>
  /\ Handler(c, Head(requests[c]))
  /\ Delivered
  /\ requests' = [requests EXCEPT ![c] = Tail(@)]
  /\ UNCHANGED <<heard, programs>>

\* Mutant: packets of the old connection are left for the next one.
KeptQueue(q, c) == q

\* The InputBuffer, the Parser and the socket's queues go with the Client.
Dropped(q, c) == [q EXCEPT ![c] = <<>>]

\* The program ends, or its connection breaks, with any of its packets not yet
\* handled.
Leave(c) ==
  /\ Calls
  /\ Disconnect(c)
  /\ requests' = Dropped(requests, c)
  /\ Delivered
  /\ heard' = [heard EXCEPT ![c] = [k \in Counter |-> None]]
  /\ listening' = [listening EXCEPT ![c] = {}]
  /\ wanted' = [wanted EXCEPT ![c] = Nothing]

-----------------------------------------------------------------------------
SessionInit ==
  /\ Init
  /\ requests  = [c \in Client |-> <<>>]
  /\ inbox     = Silence
  /\ listening = [c \in Client |-> {}]
  /\ heard     = [c \in Client |-> [k \in Counter |-> None]]
  /\ wanted    = [c \in Client |-> Nothing]
  /\ calls     = 0

SessionNext ==
  \E c \in Client :
    \/ Connect(c)
    \/ Leave(c)
    \/ \E nm \in NsName : set_namespace(c, nm)
    \/ \E k \in Counter : \/ track_counter(c, k)
                          \/ untrack_counter(c, k)
                          \/ join_counter(c, k)
                          \/ leave_counter(c, k)
    \/ Serve(c)
    \/ receive(c)

\* The server's loop serves everyone who has sent something (EventLoop), and
\* programs receive; what they ask for is up to them.
SessionSpec ==
  /\ SessionInit
  /\ [][SessionNext]_sessions
  /\ \A c \in Client : WF_sessions(Serve(c)) /\ WF_sessions(receive(c))

-----------------------------------------------------------------------------
(***************************************************************************)
(* Properties.                                                             *)
(***************************************************************************)

\* The packets that the library sends.
Request ==
  [op : {"set_namespace"}, name : NsName] \cup
  [op : {"track_counter", "untrack_counter", "join_counter", "leave_counter"}, name : Counter]

\* Every variable has its type, and nothing is on its way where no connection is.
SessionTypeOK ==
  /\ requests \in [Client -> Seq(Request)]
  /\ inbox \in [Client -> [Counter -> Seq(Nat)]]
  /\ listening \in [Client -> SUBSET Counter]
  /\ heard \in [Client -> [Counter -> Nat \cup {None}]]
  /\ wanted \in [Client -> [space : NsName \cup {None}, joined : SUBSET Counter]]
  /\ \A c \in Client \ connections :
       requests[c] = <<>> /\ inbox[c] = Silence[c] /\ listening[c] = {} /\ wanted[c] = Nothing
  /\ calls \in 0..MaxCalls

\* Programs that are connected, asked for the namespace of c, and joined k.
Population(c, k) ==
  Cardinality({d \in connections : wanted[d].space = wanted[c].space /\ k \in wanted[d].joined})

AllCurrent ==
  \A c \in connections : \A k \in listening[c] :
    wanted[c].space # None => heard[c][k] = Population(c, k)

Quiet == inbox = Silence /\ \A c \in Client : requests[c] = <<>>

\* Once nothing is on its way, every listener was told last how many programs are
\* in its namespace and joined its counter, in terms of what the programs asked
\* for: whatever order the server met the requests in, whoever moved, left or
\* came back meanwhile, and though values of a former namespace, or of a time
\* before the listener, arrived in between.
QuietMeansCurrent == Quiet => AllCurrent

\* When the programs ask for nothing more, all of them come to know.
AllLearn == <>[]AllCurrent

=============================================================================
