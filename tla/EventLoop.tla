------------------------------ MODULE EventLoop ------------------------------
(***************************************************************************)
(* Server::run_main_thread: one thread that waits in select, queues the    *)
(* clients whose descriptors are readable, accepts one connection, and     *)
(* serves the queue, while peers connect, send, close and break at any     *)
(* moment between two system calls.                                        *)
(*                                                                         *)
(* What a handler does is module WhiteBell: here it sends to any of the    *)
(* connections.  A Client object is named by its peer: a peer that returns *)
(* is a new one, since it must be removed first.                           *)
(***************************************************************************)
EXTENDS Naturals, Sequences, FiniteSets

CONSTANTS
  Peer,        \* the programs that connect
  MaxFd,       \* the last descriptor the process may open
  MaxPending,  \* config::max_pending_connections
  MaxSent      \* bound: packets a peer sends in one connection

ASSUME MaxFdPositive == MaxFd \in Nat \ {0}
ASSUME MaxPendingPositive == MaxPending \in Nat \ {0}
ASSUME MaxSentNatural == MaxSent \in Nat

VARIABLES
  alive,        \* the process runs
  phase,        \* which function of the loop comes next
  fd,           \* Client::fd, a function on the Server::connections
  ready,        \* connection_set as select left it
  unprocessed,  \* Server::unprocessed
  backlog,      \* the kernel's queue of connections to accept
  sent,         \* packets each peer has sent
  inbound,      \* packets in the socket of each peer, not yet received
  eof,          \* the peer closed its end
  broken        \* the answer to data sent to a peer that closed: none,
                \* provoked (a reset is on its way), reset

server == <<alive, phase, fd, ready, unprocessed>>
net    == <<backlog, sent, inbound, eof, broken>>
vars   == <<server, net>>

server_socket == 0

connections == DOMAIN fd

Descriptors == {fd[p] : p \in connections}

Readable(p) == inbound[p] > 0 \/ eof[p]

-----------------------------------------------------------------------------
Init ==
  /\ alive       = TRUE
  /\ phase       = "select"
  /\ fd          = [p \in {} |-> 0]
  /\ ready       = {}
  /\ unprocessed = <<>>
  /\ backlog     = <<>>
  /\ sent        = [p \in Peer |-> 0]
  /\ inbound     = [p \in Peer |-> 0]
  /\ eof         = [p \in Peer |-> FALSE]
  /\ broken      = [p \in Peer |-> "none"]

(***************************************************************************)
(* The peers.                                                              *)
(***************************************************************************)
Waiting(p) == \E i \in DOMAIN backlog : backlog[i] = p

Connect(p) ==
  /\ p \notin connections /\ ~Waiting(p)
  /\ Len(backlog) < MaxPending
  /\ backlog' = Append(backlog, p)
  /\ UNCHANGED <<server, sent, inbound, eof, broken>>

Open(p) == (p \in connections \/ Waiting(p)) /\ ~eof[p]

Send(p) ==
  /\ Open(p)
  /\ sent[p] < MaxSent
  /\ sent'    = [sent EXCEPT ![p] = @ + 1]
  /\ inbound' = [inbound EXCEPT ![p] = @ + 1]
  /\ UNCHANGED <<server, backlog, eof, broken>>

Close(p) ==
  /\ Open(p)
  /\ eof' = [eof EXCEPT ![p] = TRUE]
  /\ UNCHANGED <<server, backlog, sent, inbound, broken>>

Reset(p) ==
  /\ broken[p] = "provoked"
  /\ broken' = [broken EXCEPT ![p] = "reset"]
  /\ UNCHANGED <<server, backlog, sent, inbound, eof>>

(***************************************************************************)
(* The loop.                                                               *)
(***************************************************************************)

\* Mutant: nfds is the largest descriptor and not one more.
LargestOnly ==
  CHOOSE f \in Descriptors \cup {server_socket} :
    \A g \in Descriptors \cup {server_socket} : g <= f

\* find_largest_fd, and the limit of wait_for_input.
Limit ==
  1 + CHOOSE f \in Descriptors \cup {server_socket} :
        \A g \in Descriptors \cup {server_socket} : g <= f

\* fill_with_fd and select: the descriptors below the limit that are readable.
ReadableFds ==
  {f \in {fd[p] : p \in {q \in connections : Readable(q)}}
         \cup {s \in {server_socket} : backlog # <<>>} : f < Limit}

Select ==
  /\ phase = "select"
  /\ ReadableFds # {}
  /\ ready' = ReadableFds
  /\ phase' = "queue"
  /\ UNCHANGED <<alive, fd, unprocessed, net>>

\* Mutant: a client is queued without a look at the descriptor set.
Everyone == connections

\* Mutant: a round accepts or serves, and does not do both.
UnlessAccepting == {p \in connections : fd[p] \in ready /\ server_socket \notin ready}

Selected == {p \in connections : fd[p] \in ready}

\* The connections are an unordered_set: any order of those that are ready.
Orders(S) == {s \in [1..Cardinality(S) -> S] : \A p \in S : \E i \in DOMAIN s : s[i] = p}

queue_clients_with_input ==
  /\ phase = "queue"
  /\ \E s \in Orders(Selected) : unprocessed' = unprocessed \o s
  /\ ready' = ready \ {fd[p] : p \in Selected}
  /\ phase' = "accept"
  /\ UNCHANGED <<alive, fd, net>>

\* send() to the clients of D.  Data for a peer that closed provokes a reset;
\* after the reset, send raises SIGPIPE, which no one handles.
Deadly(D) == \E d \in D : broken[d] = "reset"

Sending(D) ==
  /\ alive'  = ~Deadly(D)
  /\ broken' = [p \in Peer |-> IF p \in D /\ eof[p] /\ broken[p] = "none"
                               THEN "provoked" ELSE broken[p]]

FreeFds == (1..MaxFd) \ Descriptors

\* accept4 takes the lowest free descriptor; add_client sends the version.
accept_new_client ==
  LET p == Head(backlog)
      f == CHOOSE g \in FreeFds : \A h \in FreeFds : g <= h
  IN  /\ phase = "accept"
      /\ server_socket \in ready
      /\ FreeFds # {}
      /\ backlog' = Tail(backlog)
      /\ fd' = [q \in connections \cup {p} |-> IF q = p THEN f ELSE fd[q]]
      /\ Sending({p})
      /\ ready' = ready \ {server_socket}
      /\ phase' = "process"
      /\ UNCHANGED <<unprocessed, sent, inbound, eof>>

\* accept4 fails: the process has no descriptor left.  The connection stays in
\* the backlog.
accept_fails ==
  /\ phase = "accept"
  /\ server_socket \in ready
  /\ FreeFds = {}
  /\ ready' = ready \ {server_socket}
  /\ phase' = "process"
  /\ UNCHANGED <<alive, fd, unprocessed, net>>

nothing_to_accept ==
  /\ phase = "accept"
  /\ server_socket \notin ready
  /\ phase' = "process"
  /\ UNCHANGED <<alive, fd, ready, unprocessed, net>>

\* process_clients_input, one client p of the queue.
Pop(p) ==
  /\ phase = "process"
  /\ unprocessed # <<>>
  /\ p = Head(unprocessed)
  /\ unprocessed' = Tail(unprocessed)
  /\ UNCHANGED <<phase, ready, backlog>>

\* What recv may return to client p: some of what the peer sent, or nothing
\* (EAGAIN).  A weak_ptr that has expired is passed over.
Got(p) == IF p \in connections /\ inbound[p] > 0 THEN 1..inbound[p] ELSE {0}

\* Mutant: a peer that closed is removed with its last packets unread.
GoneUnread(p) == p \in connections /\ eof[p]

\* Mutant: recv returned 0, and nothing was thrown.
NeverGone(p) == FALSE

Gone(p) == p \in connections /\ inbound[p] = 0 /\ eof[p]

\* The packets are handled, and the handlers send to other clients.
Serve(p) ==
  /\ Pop(p)
  /\ ~Gone(p)
  /\ \E n \in Got(p) :
       /\ inbound' = [inbound EXCEPT ![p] = @ - n]
       /\ \E D \in SUBSET {d \in connections : n > 0} : Sending(D)
  /\ UNCHANGED <<fd, sent, eof>>

\* recv returns 0: remove_client tells the others and closes the descriptor.
Remove(p) ==
  /\ Pop(p)
  /\ Gone(p)
  /\ \E D \in SUBSET (connections \ {p}) :
       /\ alive' = ~Deadly(D)
       /\ broken' = [q \in Peer |->
            IF q = p THEN "none"
            ELSE IF q \in D /\ eof[q] /\ broken[q] = "none" THEN "provoked" ELSE broken[q]]
  /\ fd'   = [q \in connections \ {p} |-> fd[q]]
  /\ sent' = [sent EXCEPT ![p] = 0]
  /\ eof'  = [eof EXCEPT ![p] = FALSE]
  /\ UNCHANGED inbound

QueueEmpty ==
  /\ phase = "process"
  /\ unprocessed = <<>>
  /\ phase' = "select"
  /\ UNCHANGED <<alive, fd, ready, unprocessed, net>>

Loop ==
  /\ alive
  /\ \/ Select
     \/ queue_clients_with_input
     \/ accept_new_client
     \/ accept_fails
     \/ nothing_to_accept
     \/ \E p \in Peer : Serve(p) \/ Remove(p)
     \/ QueueEmpty

Environment == \E p \in Peer : Connect(p) \/ Send(p) \/ Close(p) \/ Reset(p)

Next == Loop \/ (alive /\ Environment)

\* The loop does nothing but system calls that return: select only blocks while
\* nothing is readable, and the other calls never block.
Spec == Init /\ [][Next]_vars /\ WF_vars(Loop)

-----------------------------------------------------------------------------
(***************************************************************************)
(* Properties.                                                             *)
(***************************************************************************)

\* Every variable has its type, and what is not connected has no traffic.
TypeOK ==
  /\ alive \in BOOLEAN
  /\ phase \in {"select", "queue", "accept", "process"}
  /\ connections \subseteq Peer
  /\ \A p \in connections : fd[p] \in 1..MaxFd
  /\ ready \subseteq 0..MaxFd
  /\ unprocessed \in Seq(Peer)
  /\ backlog \in Seq(Peer) /\ Len(backlog) <= MaxPending
  /\ sent \in [Peer -> 0..MaxSent]
  /\ inbound \in [Peer -> 0..MaxSent]
  /\ eof \in [Peer -> BOOLEAN]
  /\ broken \in [Peer -> {"none", "provoked", "reset"}]
  /\ \A p \in Peer : ~(p \in connections \/ Waiting(p)) => ~Readable(p)

\* select's answer is still true when it is used: whoever waits in the queue is
\* there once, is still connected, and has something to receive, so that recv
\* neither blocks nor fails and no weak_ptr has expired.  (process_clients_input
\* runs after clients were accepted and, for all but the first, after others
\* were removed and their descriptors closed.)
ReadyStaysReady ==
  /\ \A i \in DOMAIN unprocessed :
       /\ unprocessed[i] \in connections
       /\ Readable(unprocessed[i])
       /\ \A j \in DOMAIN unprocessed : unprocessed[i] = unprocessed[j] => i = j
  /\ phase \in {"select", "queue"} => unprocessed = <<>>

\* Whoever sends is served: the loop visits every readable client in each round,
\* however busy the others are, unless a write to a broken connection kills the
\* process.
InputServed ==
  \A p \in Peer :
    (p \in connections /\ inbound[p] > 0) ~> (~alive \/ inbound[p] = 0)

\* Whoever closes is removed, and from then on counted no more.
LeaverRemoved ==
  \A p \in Peer : (p \in connections /\ eof[p]) ~> (~alive \/ p \notin connections)

\* Whoever connects is accepted, as soon as a descriptor is free.
ConnectorAccepted ==
  \A p \in Peer : Waiting(p) ~> (~alive \/ p \in connections \/ FreeFds = {})

=============================================================================
