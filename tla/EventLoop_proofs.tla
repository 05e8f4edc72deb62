--------------------------- MODULE EventLoop_proofs ---------------------------
(***************************************************************************)
(* Theorems about module EventLoop, for any number of peers, descriptors,  *)
(* pending connections and packets.                                        *)
(***************************************************************************)
EXTENDS EventLoop, FiniteSetTheorems, FunctionTheorems, WellFoundedInduction,
        SequenceTheorems, TLAPS

\* A set of descriptors has a lowest one.
LEMMA HasLeast ==
  ASSUME NEW S \in SUBSET Nat, S # {}
  PROVE  \E x \in S : \A y \in S : x <= y
<1>1. IsWellFoundedOn(OpToRel(<, Nat), Nat)
  BY NatLessThanWellFounded
<1>2. PICK x \in S : \A y \in S : ~ (<<y, x>> \in OpToRel(<, Nat))
  BY <1>1, WFMin, Zenon
<1>3. \A y \in S : ~(y < x)
  BY <1>2, Zenon DEF OpToRel
<1>4. \A y \in S : x <= y
  BY <1>3
<1> QED BY <1>4

OnceEach(s) == \A i, j \in DOMAIN s : s[i] = s[j] => i = j

\* An order of a finite set has each of its members once: as many places as
\* members, and no member without a place.
LEMMA OrderOnce ==
  ASSUME NEW S, IsFiniteSet(S), NEW s \in Orders(S)
  PROVE  s \in Seq(S) /\ OnceEach(s)
<1> DEFINE n == Cardinality(S)
<1>0. s \in [1..n -> S] /\ \A p \in S : \E i \in DOMAIN s : s[i] = p
  BY DEF Orders
<1>1. n \in Nat
  BY FS_CardinalityType
<1> HIDE DEF n
<1>2. IsFiniteSet(1..n) /\ Cardinality(1..n) = n
  BY <1>1, FS_Interval
<1>3. s \in Surjection(1..n, S)
  BY <1>0, Fun_IsSurj
<1>4. s \in Injection(1..n, S)
  BY <1>2, <1>3, FS_SurjSameCardinalityImpliesInj DEF n
<1>5. OnceEach(s)
  BY <1>0, <1>4, Fun_InjectionProperties DEF OnceEach
<1>6. s \in Seq(S)
  BY <1>0, <1>1, SeqDef
<1> QED BY <1>5, <1>6

-----------------------------------------------------------------------------
(***************************************************************************)
(* The inductive invariant.                                                *)
(***************************************************************************)

\* Finitely many clients, each with a descriptor of its own.
FdInv ==
  /\ connections \subseteq Peer
  /\ IsFiniteSet(connections)
  /\ \A p \in connections : fd[p] \in 1..MaxFd
  /\ \A p, q \in connections : fd[p] = fd[q] => p = q

NetInv ==
  /\ backlog \in Seq(Peer) /\ Len(backlog) <= MaxPending
  /\ sent \in [Peer -> Nat] /\ inbound \in [Peer -> Nat]
  /\ \A p \in Peer : sent[p] <= MaxSent /\ inbound[p] <= sent[p]
  /\ eof \in [Peer -> BOOLEAN]
  /\ broken \in [Peer -> {"none", "provoked", "reset"}]

\* Who is neither connected nor waiting has no traffic.
SilentInv == \A p \in Peer : ~(p \in connections \/ Waiting(p)) => ~Readable(p)

\* What select said is still so when the clients are queued and one is accepted.
ReadyInv ==
  /\ ready \subseteq 0..MaxFd
  /\ phase \in {"queue", "accept"} /\ server_socket \in ready => backlog # <<>>
  /\ phase = "queue" => \A p \in connections : fd[p] \in ready => Readable(p)

\* s holds clients that have something to receive, each once.
Queue(s) ==
  /\ s \in Seq(Peer)
  /\ \A i \in DOMAIN s : s[i] \in connections /\ Readable(s[i])
  /\ OnceEach(s)

QueueInv == Queue(unprocessed) /\ (phase \in {"select", "queue"} => unprocessed = <<>>)

PhaseInv == phase \in {"select", "queue", "accept", "process"}

Inv == FdInv /\ NetInv /\ SilentInv /\ ReadyInv /\ QueueInv /\ PhaseInv

LEMMA Bounds == MaxFd \in Nat \ {0} /\ MaxPending \in Nat \ {0} /\ MaxSent \in Nat
BY MaxFdPositive, MaxPendingPositive, MaxSentNatural

\* Who has something to receive goes on having it, whatever peers do.
LEMMA PeersKeepReadable ==
  ASSUME NetInv, NEW q \in Peer, Connect(q) \/ Send(q) \/ Close(q) \/ Reset(q),
         NEW p \in Peer, Readable(p)
  PROVE  Readable(p)'
<1>1. CASE Connect(q) \/ Reset(q)
  BY <1>1 DEF Connect, Reset, Readable
<1>2. CASE Send(q)
  <2>1. inbound' = [inbound EXCEPT ![q] = @ + 1] /\ eof' = eof
    BY <1>2 DEF Send
  <2>2. CASE inbound[p] > 0
    <3>1. inbound'[p] > 0
      BY <2>1, <2>2 DEF NetInv
    <3> QED BY <3>1 DEF Readable
  <2>3. CASE eof[p]
    BY <2>1, <2>3 DEF Readable
  <2> QED BY <2>2, <2>3 DEF Readable
<1>3. CASE Close(q)
  <2>1. eof' = [eof EXCEPT ![q] = TRUE] /\ inbound' = inbound
    BY <1>3 DEF Close
  <2>2. CASE inbound[p] > 0
    BY <2>1, <2>2 DEF Readable
  <2>3. CASE eof[p]
    <3>1. eof'[p]
      BY <2>1, <2>3 DEF NetInv
    <3> QED BY <3>1 DEF Readable
  <2> QED BY <2>2, <2>3 DEF Readable
<1> QED BY <1>1, <1>2, <1>3

\* The descriptor of a new client is free, that of another is its own.
LEMMA FdNext ==
  ASSUME FdInv, NetInv, ReadyInv, [Next]_vars
  PROVE  FdInv'
<1>1. ASSUME fd' = fd PROVE FdInv'
  BY <1>1 DEF FdInv, connections
<1>2. CASE accept_new_client
  <2> DEFINE p == Head(backlog)
             f == CHOOSE g \in FreeFds : \A h \in FreeFds : g <= h
             D == connections \cup {p}
  <2>1. /\ FreeFds # {}
        /\ fd' = [q \in D |-> IF q = p THEN f ELSE fd[q]]
    BY <1>2 DEF accept_new_client
  <2>2. backlog # <<>> /\ p \in Peer
    BY <1>2 DEF accept_new_client, NetInv, ReadyInv
  <2>3. f \in FreeFds
    <3>1. FreeFds \in SUBSET Nat
      BY Bounds DEF FreeFds
    <3>2. \E g \in FreeFds : \A h \in FreeFds : g <= h
      BY <2>1, <3>1, HasLeast, Zenon
    <3> QED BY <3>2, Zenon
  <2>4. f \in 1..MaxFd /\ \A q \in connections : f # fd[q]
    BY <2>3 DEF FreeFds, Descriptors
  <2> HIDE DEF f
  <2>5. IsFiniteSet(D)
    BY FS_AddElement DEF FdInv
  <2> HIDE DEF p
  <2>6. connections' = D
    BY <2>1 DEF connections
  <2>7. \A q \in D : fd'[q] = IF q = p THEN f ELSE fd[q]
    BY <2>1
  <2>8. connections' \subseteq Peer /\ \A q \in D : fd'[q] \in 1..MaxFd
    BY <2>2, <2>4, <2>6, <2>7 DEF FdInv
  <2>9. ASSUME NEW q \in D, NEW r \in D, fd'[q] = fd'[r] PROVE q = r
    BY <2>4, <2>7, <2>9 DEF FdInv
  <2> QED BY <2>5, <2>6, <2>8, <2>9 DEF FdInv
<1>3. ASSUME NEW p \in Peer, Remove(p) PROVE FdInv'
  <2>1. fd' = [q \in connections \ {p} |-> fd[q]]
    BY <1>3 DEF Remove
  <2>2. connections' = connections \ {p}
    BY <2>1 DEF connections
  <2>3. IsFiniteSet(connections \ {p})
    BY FS_RemoveElement DEF FdInv
  <2> QED BY <2>1, <2>2, <2>3 DEF FdInv
<1>4. ASSUME NEW p \in Peer, Connect(p) \/ Send(p) \/ Close(p) \/ Reset(p) \/ Serve(p)
      PROVE  fd' = fd
  BY <1>4 DEF Connect, Send, Close, Reset, Serve, server
<1>5. ASSUME \/ Select \/ queue_clients_with_input \/ accept_fails \/ nothing_to_accept
             \/ QueueEmpty \/ UNCHANGED vars
      PROVE  fd' = fd
  BY <1>5 DEF Select, queue_clients_with_input, accept_fails, nothing_to_accept, QueueEmpty,
              vars, server
<1> QED BY <1>1, <1>2, <1>3, <1>4, <1>5 DEF Next, Loop, Environment

\* Sending(D) and Remove(p) keep the type of broken.
LEMMA SendingType ==
  ASSUME NetInv, NEW D, Sending(D)
  PROVE  broken' \in [Peer -> {"none", "provoked", "reset"}]
BY DEF NetInv, Sending

\* No packet is received that was not sent, and the backlog is as long as it may be.
LEMMA NetNext ==
  ASSUME NetInv, ReadyInv, [Next]_vars
  PROVE  NetInv'
<1> USE Bounds
<1>1. ASSUME NEW p \in Peer, Connect(p) PROVE NetInv'
  <2>1. backlog' = Append(backlog, p) /\ Len(backlog) < MaxPending
        /\ UNCHANGED <<sent, inbound, eof, broken>>
    BY <1>1 DEF Connect
  <2>2. backlog' \in Seq(Peer) /\ Len(backlog') = Len(backlog) + 1
    BY <2>1 DEF NetInv
  <2>3. Len(backlog') <= MaxPending
    BY <2>1, <2>2 DEF NetInv
  <2> QED BY <2>1, <2>2, <2>3 DEF NetInv
<1>2. ASSUME NEW p \in Peer, Send(p) PROVE NetInv'
  <2>1. /\ sent' = [sent EXCEPT ![p] = @ + 1] /\ sent[p] < MaxSent
        /\ inbound' = [inbound EXCEPT ![p] = @ + 1]
        /\ UNCHANGED <<backlog, eof, broken>>
    BY <1>2 DEF Send
  <2>2. sent' \in [Peer -> Nat] /\ inbound' \in [Peer -> Nat]
    BY <2>1 DEF NetInv
  <2>3. \A q \in Peer : sent'[q] <= MaxSent /\ inbound'[q] <= sent'[q]
    BY <2>1 DEF NetInv
  <2> QED BY <2>1, <2>2, <2>3 DEF NetInv
<1>3. ASSUME NEW p \in Peer, Close(p) \/ Reset(p) PROVE NetInv'
  BY <1>3 DEF NetInv, Close, Reset
<1>4. ASSUME \/ Select \/ queue_clients_with_input \/ accept_fails \/ nothing_to_accept
             \/ QueueEmpty \/ UNCHANGED vars
      PROVE  NetInv'
  <2>1. UNCHANGED <<backlog, sent, inbound, eof, broken>>
    BY <1>4 DEF Select, queue_clients_with_input, accept_fails, nothing_to_accept,
                QueueEmpty, vars, net
  <2> QED BY <2>1 DEF NetInv
<1>5. CASE accept_new_client
  <2>1. backlog # <<>> /\ backlog' = Tail(backlog) /\ UNCHANGED <<sent, inbound, eof>>
    BY <1>5 DEF accept_new_client, ReadyInv
  <2>2. backlog' \in Seq(Peer) /\ Len(backlog') = Len(backlog) - 1 /\ Len(backlog) \in Nat
    BY <2>1 DEF NetInv
  <2>3. Len(backlog') <= MaxPending
    BY <2>2 DEF NetInv
  <2>4. broken' \in [Peer -> {"none", "provoked", "reset"}]
    BY <1>5, SendingType DEF accept_new_client
  <2> QED BY <2>1, <2>2, <2>3, <2>4 DEF NetInv
<1>6. ASSUME NEW p \in Peer, Serve(p) PROVE NetInv'
  <2>1. PICK n \in Got(p) : inbound' = [inbound EXCEPT ![p] = @ - n]
                            /\ \E D \in SUBSET {d \in connections : n > 0} : Sending(D)
    BY <1>6 DEF Serve
  <2>2. UNCHANGED <<backlog, sent, eof>>
    BY <1>6 DEF Serve, Pop
  <2>3. n \in 0..inbound[p]
    BY DEF Got, NetInv
  <2>4. inbound[p] - n \in Nat /\ inbound[p] - n <= inbound[p]
    BY <2>3 DEF NetInv
  <2>5. inbound' \in [Peer -> Nat] /\ \A q \in Peer : inbound'[q] <= inbound[q]
    BY <2>1, <2>4 DEF NetInv
  <2>6. \A q \in Peer : inbound'[q] <= sent'[q]
    BY <2>2, <2>5 DEF NetInv
  <2>7. broken' \in [Peer -> {"none", "provoked", "reset"}]
    BY <2>1, SendingType
  <2> QED BY <2>2, <2>5, <2>6, <2>7 DEF NetInv
<1>7. ASSUME NEW p \in Peer, Remove(p) PROVE NetInv'
  <2>1. /\ inbound[p] = 0
        /\ sent' = [sent EXCEPT ![p] = 0] /\ eof' = [eof EXCEPT ![p] = FALSE]
        /\ UNCHANGED <<backlog, inbound>>
    BY <1>7 DEF Remove, Pop, Gone
  <2>2. broken' \in [Peer -> {"none", "provoked", "reset"}]
    BY <1>7 DEF Remove, NetInv
  <2>3. sent' \in [Peer -> Nat] /\ eof' \in [Peer -> BOOLEAN]
    BY <2>1 DEF NetInv
  <2>4. \A q \in Peer : sent'[q] <= MaxSent /\ inbound'[q] <= sent'[q]
    BY <2>1 DEF NetInv
  <2> QED BY <2>1, <2>2, <2>3, <2>4 DEF NetInv
<1> QED BY <1>1, <1>2, <1>3, <1>4, <1>5, <1>6, <1>7 DEF Next, Loop, Environment
\* What is not the head of a queue is in its tail.
LEMMA TailHas ==
  ASSUME NEW s \in Seq(Peer), NEW i \in DOMAIN s, s[i] # Head(s)
  PROVE  i - 1 \in DOMAIN Tail(s) /\ Tail(s)[i - 1] = s[i]
<1>1. i \in 2..Len(s)
  OBVIOUS
<1> QED BY <1>1

\* Traffic is that of the connected and the waiting.
LEMMA SilentNext ==
  ASSUME FdInv, NetInv, ReadyInv, SilentInv, [Next]_vars
  PROVE  SilentInv'
<1>1. ASSUME UNCHANGED <<fd, backlog, inbound, eof>> PROVE SilentInv'
  BY <1>1 DEF SilentInv, connections, Waiting, Readable
<1>2. ASSUME NEW p \in Peer, Connect(p) PROVE SilentInv'
  <2>1. backlog' = Append(backlog, p) /\ UNCHANGED <<fd, inbound, eof>>
    BY <1>2 DEF Connect, server
  <2>2. \A i \in DOMAIN backlog : i \in DOMAIN backlog' /\ backlog'[i] = backlog[i]
    BY <2>1 DEF NetInv
  <2>3. \A q \in Peer : Waiting(q) => Waiting(q)'
    BY <2>2 DEF Waiting
  <2> QED BY <2>1, <2>3 DEF SilentInv, connections, Readable
<1>3. ASSUME NEW p \in Peer, Send(p) \/ Close(p) PROVE SilentInv'
  <2>1. Open(p) /\ UNCHANGED <<fd, backlog>>
    BY <1>3 DEF Send, Close, server
  <2>2. \A q \in Peer \ {p} : inbound'[q] = inbound[q] /\ eof'[q] = eof[q]
    BY <1>3 DEF Send, Close, NetInv
  <2> SUFFICES ASSUME NEW q \in Peer, ~(q \in connections \/ Waiting(q))
               PROVE  ~Readable(q)'
    BY <2>1 DEF SilentInv, connections, Waiting
  <2>3. q # p
    BY <2>1 DEF Open
  <2>4. ~Readable(q)
    BY DEF SilentInv
  <2> QED BY <2>2, <2>3, <2>4 DEF Readable
<1>4. CASE accept_new_client
  <2> DEFINE p == Head(backlog)
  <2>1. backlog # <<>> /\ backlog' = Tail(backlog) /\ UNCHANGED <<inbound, eof>>
    BY <1>4 DEF accept_new_client, ReadyInv
  <2>2. connections' = connections \cup {p}
    BY <1>4 DEF accept_new_client, connections
  <2>3. ASSUME NEW q \in Peer, Waiting(q), q # p PROVE Waiting(q)'
    <3>1. PICK i \in DOMAIN backlog : backlog[i] = q
      BY <2>3 DEF Waiting
    <3>2. i - 1 \in DOMAIN Tail(backlog) /\ Tail(backlog)[i - 1] = q
      BY <2>3, <3>1, TailHas DEF NetInv
    <3> QED BY <2>1, <3>2 DEF Waiting
  <2> HIDE DEF p
  <2>4. \A q \in Peer : Readable(q)' <=> Readable(q)
    BY <2>1 DEF Readable
  <2> QED BY <2>2, <2>3, <2>4 DEF SilentInv
<1>5. ASSUME NEW p \in Peer, Serve(p) PROVE SilentInv'
  <2>1. PICK n \in Got(p) : inbound' = [inbound EXCEPT ![p] = @ - n]
    BY <1>5 DEF Serve
  <2>2. UNCHANGED <<fd, backlog, eof>>
    BY <1>5 DEF Serve, Pop
  <2>3. n \in 0..inbound[p]
    BY DEF Got, NetInv
  <2>4. ASSUME NEW q \in Peer, inbound'[q] > 0 PROVE inbound[q] > 0
    BY <2>1, <2>3, <2>4 DEF NetInv
  <2>5. \A q \in Peer : Readable(q)' => Readable(q)
    BY <2>2, <2>4 DEF Readable
  <2> QED BY <2>2, <2>5 DEF SilentInv, connections, Waiting
<1>6. ASSUME NEW p \in Peer, Remove(p) PROVE SilentInv'
  <2>1. /\ inbound[p] = 0 /\ eof' = [eof EXCEPT ![p] = FALSE] /\ UNCHANGED <<backlog, inbound>>
        /\ fd' = [q \in connections \ {p} |-> fd[q]]
    BY <1>6 DEF Remove, Pop, Gone
  <2>2. connections' = connections \ {p}
    BY <2>1 DEF connections
  <2>3. ~Readable(p)'
    <3>1. eof'[p] = FALSE /\ ~(inbound'[p] > 0)
      BY <2>1 DEF NetInv
    <3> QED BY <3>1 DEF Readable
  <2>4. \A q \in Peer \ {p} : Readable(q)' <=> Readable(q)
    BY <2>1 DEF Readable, NetInv
  <2> QED BY <2>1, <2>2, <2>3, <2>4 DEF SilentInv, Waiting
<1>7. ASSUME NEW p \in Peer, Reset(p) PROVE UNCHANGED <<fd, backlog, inbound, eof>>
  BY <1>7 DEF Reset, server
<1>8. ASSUME \/ Select \/ queue_clients_with_input \/ accept_fails \/ nothing_to_accept
             \/ QueueEmpty \/ UNCHANGED vars
      PROVE  UNCHANGED <<fd, backlog, inbound, eof>>
  BY <1>8 DEF Select, queue_clients_with_input, accept_fails, nothing_to_accept, QueueEmpty,
              vars, server, net
<1> QED
  BY <1>1, <1>2, <1>3, <1>4, <1>5, <1>6, <1>7, <1>8 DEF Next, Loop, Environment

\* A descriptor that select returned belongs to one client, which is readable.
LEMMA SelectReady ==
  ASSUME FdInv, Select
  PROVE  ReadyInv'
<1>1. ready' = ReadableFds /\ UNCHANGED <<fd, backlog, inbound, eof>> /\ phase' = "queue"
  BY DEF Select, net
<1>2. ready' \subseteq 0..MaxFd
  BY <1>1, Bounds DEF ReadableFds, FdInv, server_socket
<1>3. server_socket \in ready' => backlog # <<>>
  BY <1>1 DEF ReadableFds, FdInv, server_socket
<1>4. ASSUME NEW p \in connections, fd[p] \in ready' PROVE Readable(p)
  <2>1. fd[p] # server_socket
    BY DEF FdInv, server_socket
  <2>2. PICK q \in connections : Readable(q) /\ fd[q] = fd[p]
    BY <1>1, <1>4, <2>1 DEF ReadableFds
  <2> QED BY <2>2 DEF FdInv
<1>5. \A p : Readable(p)' <=> Readable(p)
  BY <1>1 DEF Readable
<1>6. connections' = connections
  BY <1>1 DEF connections
<1> QED BY <1>1, <1>2, <1>3, <1>4, <1>5, <1>6 DEF ReadyInv, server_socket

\* Peers make nothing unreadable, and the loop forgets what it has used.
LEMMA ReadyNext ==
  ASSUME FdInv, NetInv, ReadyInv, [Next]_vars
  PROVE  ReadyInv'
<1>1. CASE Select
  BY <1>1, SelectReady
<1>2. ASSUME NEW q \in Peer, Connect(q) \/ Send(q) \/ Close(q) \/ Reset(q) PROVE ReadyInv'
  <2>1. UNCHANGED <<phase, fd, ready>>
    BY <1>2 DEF Connect, Send, Close, Reset, server
  <2>2. backlog' = backlog \/ backlog' = Append(backlog, q)
    BY <1>2 DEF Connect, Send, Close, Reset
  <2>3. backlog # <<>> => backlog' # <<>>
    BY <2>2 DEF NetInv
  <2>4. \A p \in Peer : Readable(p) => Readable(p)'
    BY <1>2, PeersKeepReadable
  <2>5. connections' = connections /\ connections \subseteq Peer
    BY <2>1 DEF connections, FdInv
  <2> QED BY <2>1, <2>3, <2>4, <2>5 DEF ReadyInv, server_socket
<1>3. CASE queue_clients_with_input
  <2>1. ready' \subseteq ready /\ phase' = "accept" /\ phase = "queue" /\ backlog' = backlog
    BY <1>3 DEF queue_clients_with_input, net
  <2> QED BY <2>1 DEF ReadyInv, server_socket
<1>4. ASSUME accept_new_client \/ accept_fails \/ nothing_to_accept PROVE ReadyInv'
  <2>1. ready' \subseteq ready /\ phase' = "process"
    BY <1>4 DEF accept_new_client, accept_fails, nothing_to_accept
  <2> QED BY <2>1 DEF ReadyInv
<1>5. ASSUME NEW p \in Peer, Serve(p) \/ Remove(p) PROVE ReadyInv'
  <2>1. ready' = ready /\ phase' = "process"
    BY <1>5 DEF Serve, Remove, Pop
  <2> QED BY <2>1 DEF ReadyInv
<1>6. CASE QueueEmpty
  <2>1. ready' = ready /\ phase' = "select"
    BY <1>6 DEF QueueEmpty
  <2> QED BY <2>1 DEF ReadyInv
<1>7. CASE UNCHANGED vars
  BY <1>7 DEF vars, server, net, ReadyInv, server_socket, connections, Readable
<1> QED BY <1>1, <1>2, <1>3, <1>4, <1>5, <1>6, <1>7 DEF Next, Loop, Environment

\* The head of a queue without repetitions is not in its tail.
LEMMA TailWithout ==
  ASSUME NEW s \in Seq(Peer), s # <<>>, OnceEach(s)
  PROVE  /\ Tail(s) \in Seq(Peer) /\ OnceEach(Tail(s))
         /\ \A i \in DOMAIN Tail(s) : /\ Tail(s)[i] # Head(s)
                                      /\ \E j \in DOMAIN s : s[j] = Tail(s)[i]
<1>1. /\ Tail(s) \in Seq(Peer) /\ Len(Tail(s)) = Len(s) - 1 /\ Len(s) \in Nat
      /\ \A i \in 1..Len(s) - 1 : Tail(s)[i] = s[i + 1]
      /\ Head(s) = s[1]
  OBVIOUS
<1>2. DOMAIN s = 1..Len(s) /\ DOMAIN Tail(s) = 1..Len(s) - 1
  BY <1>1
<1>3. \A i \in DOMAIN Tail(s) : i + 1 \in DOMAIN s /\ i + 1 # 1 /\ 1 \in DOMAIN s
  BY <1>1, <1>2
<1>4. \A i, j \in DOMAIN Tail(s) : i + 1 = j + 1 => i = j
  BY <1>2
<1> HIDE DEF OnceEach
<1>5. OnceEach(Tail(s))
  BY <1>1, <1>2, <1>3, <1>4 DEF OnceEach
<1>6. \A i \in DOMAIN Tail(s) : Tail(s)[i] # Head(s)
  BY <1>1, <1>2, <1>3 DEF OnceEach
<1> QED BY <1>1, <1>2, <1>3, <1>5, <1>6

\* Serving the first client of the queue, or removing it, says nothing about the
\* others.
LEMMA PopQueue ==
  ASSUME FdInv, NetInv, QueueInv, NEW p \in Peer, Serve(p) \/ Remove(p)
  PROVE  Queue(unprocessed)'
<1>1. p = Head(unprocessed) /\ unprocessed # <<>> /\ unprocessed' = Tail(unprocessed)
  BY DEF Serve, Remove, Pop
<1>2. /\ unprocessed' \in Seq(Peer) /\ OnceEach(unprocessed')
      /\ \A i \in DOMAIN unprocessed' :
           unprocessed'[i] # p /\ \E j \in DOMAIN unprocessed : unprocessed[j] = unprocessed'[i]
  BY <1>1, TailWithout DEF QueueInv, Queue
<1>3. \A q \in connections \ {p} : q \in connections'
  BY DEF Serve, Remove, connections
<1>4. \A q \in Peer \ {p} : Readable(q)' <=> Readable(q)
  <2>1. \A q \in Peer \ {p} : inbound'[q] = inbound[q] /\ eof'[q] = eof[q]
    BY DEF Serve, Remove, Pop, NetInv
  <2> QED BY <2>1 DEF Readable
<1>5. ASSUME NEW i \in DOMAIN unprocessed'
      PROVE  (unprocessed[i] \in connections /\ Readable(unprocessed[i]))'
  <2>1. unprocessed'[i] # p /\ unprocessed'[i] \in connections /\ Readable(unprocessed'[i])
    BY <1>2 DEF QueueInv, Queue
  <2>2. PICK q \in Peer : q = unprocessed'[i]
    BY <2>1 DEF FdInv
  <2>3. q \in connections' /\ Readable(q)'
    BY <1>3, <1>4, <2>1, <2>2
  <2> QED BY <2>2, <2>3 DEF Readable
<1> QED BY <1>2, <1>5 DEF Queue, OnceEach

\* The queue of a round is an order of the clients whose descriptors are ready.
LEMMA FillQueue ==
  ASSUME FdInv, ReadyInv, QueueInv, queue_clients_with_input
  PROVE  Queue(unprocessed)'
<1>1. unprocessed = <<>> /\ UNCHANGED <<fd, inbound, eof>> /\ phase = "queue"
  BY DEF queue_clients_with_input, QueueInv, net
<1>2. PICK s \in Orders(Selected) : unprocessed' = unprocessed \o s
  BY DEF queue_clients_with_input
<1>3. IsFiniteSet(Selected)
  BY FS_Subset DEF Selected, FdInv
<1>4. s \in Seq(Selected) /\ OnceEach(s)
  BY <1>3, OrderOnce
<1>5. unprocessed' = s
  BY <1>1, <1>2, <1>4
<1>6. \A p \in Selected : p \in Peer /\ p \in connections /\ Readable(p)
  BY <1>1 DEF Selected, ReadyInv, FdInv
<1>7. s \in Seq(Peer) /\ \A i \in DOMAIN s : s[i] \in Selected
  BY <1>4, <1>6
<1>8. \A p : Readable(p)' <=> Readable(p)
  BY <1>1 DEF Readable
<1>9. connections' = connections
  BY <1>1 DEF connections
<1> QED BY <1>4, <1>5, <1>6, <1>7, <1>8, <1>9 DEF Queue, OnceEach

\* Between select and recv nobody in the queue is served, removed or silenced.
LEMMA QueueNext ==
  ASSUME FdInv, NetInv, ReadyInv, QueueInv, [Next]_vars
  PROVE  QueueInv'
<1>1. ASSUME UNCHANGED <<unprocessed>>, connections \subseteq connections',
             \A p \in Peer : Readable(p) => Readable(p)'
      PROVE  Queue(unprocessed)'
  <2>1. \A i \in DOMAIN unprocessed : unprocessed[i] \in Peer
    BY DEF QueueInv, Queue
  <2> QED BY <1>1, <2>1 DEF QueueInv, Queue, OnceEach
<1>2. ASSUME NEW q \in Peer, Connect(q) \/ Send(q) \/ Close(q) \/ Reset(q) PROVE QueueInv'
  <2>1. UNCHANGED <<phase, fd, unprocessed>>
    BY <1>2 DEF Connect, Send, Close, Reset, server
  <2>2. connections' = connections
    BY <2>1 DEF connections
  <2> QED BY <1>1, <1>2, <2>1, <2>2, PeersKeepReadable DEF QueueInv
<1>3. CASE queue_clients_with_input
  <2>1. phase' = "accept"
    BY <1>3 DEF queue_clients_with_input
  <2> QED BY <1>3, <2>1, FillQueue DEF QueueInv
<1>4. ASSUME accept_new_client \/ accept_fails \/ nothing_to_accept PROVE QueueInv'
  <2>1. phase' = "process" /\ UNCHANGED <<unprocessed, inbound, eof>>
    BY <1>4 DEF accept_new_client, accept_fails, nothing_to_accept, net
  <2>2. connections \subseteq connections'
    BY <1>4 DEF accept_new_client, accept_fails, nothing_to_accept, connections
  <2>3. \A p \in Peer : Readable(p) => Readable(p)'
    BY <2>1 DEF Readable
  <2> QED BY <1>1, <2>1, <2>2, <2>3 DEF QueueInv
<1>5. ASSUME NEW p \in Peer, Serve(p) \/ Remove(p) PROVE QueueInv'
  <2>1. phase' = "process"
    BY <1>5 DEF Serve, Remove, Pop
  <2> QED BY <1>5, <2>1, PopQueue DEF QueueInv
<1>6. CASE Select \/ QueueEmpty \/ UNCHANGED vars
  <2>1. UNCHANGED <<fd, unprocessed, inbound, eof>>
    BY <1>6 DEF Select, QueueEmpty, vars, server, net
  <2>2. connections' = connections /\ \A p \in Peer : Readable(p) => Readable(p)'
    BY <2>1 DEF connections, Readable
  <2>3. phase' \in {"select", "queue"} => unprocessed = <<>>
    BY <1>6 DEF Select, QueueEmpty, vars, server, QueueInv
  <2> QED BY <1>1, <2>1, <2>2, <2>3 DEF QueueInv
<1> QED BY <1>2, <1>3, <1>4, <1>5, <1>6 DEF Next, Loop, Environment

LEMMA PhaseNext ==
  ASSUME PhaseInv, [Next]_vars
  PROVE  PhaseInv'
<1>1. ASSUME NEW p \in Peer, Connect(p) \/ Send(p) \/ Close(p) \/ Reset(p) PROVE PhaseInv'
  BY <1>1 DEF Connect, Send, Close, Reset, server, PhaseInv
<1>2. ASSUME NEW p \in Peer, Serve(p) \/ Remove(p) PROVE PhaseInv'
  BY <1>2 DEF Serve, Remove, Pop, PhaseInv
<1>3. ASSUME \/ Select \/ queue_clients_with_input \/ accept_new_client \/ accept_fails
             \/ nothing_to_accept \/ QueueEmpty \/ UNCHANGED vars
      PROVE  PhaseInv'
  BY <1>3 DEF Select, queue_clients_with_input, accept_new_client, accept_fails,
              nothing_to_accept, QueueEmpty, vars, server, PhaseInv
<1> QED BY <1>1, <1>2, <1>3 DEF Next, Loop, Environment

\* A send may clear alive, nothing else does.
LEMMA AliveNext ==
  ASSUME alive \in BOOLEAN, [Next]_vars
  PROVE  alive' \in BOOLEAN
<1>1. ASSUME NEW p \in Peer, Connect(p) \/ Send(p) \/ Close(p) \/ Reset(p)
      PROVE  alive' \in BOOLEAN
  BY <1>1 DEF Connect, Send, Close, Reset, server
<1>2. ASSUME NEW p \in Peer, Serve(p) \/ Remove(p) PROVE alive' \in BOOLEAN
  BY <1>2 DEF Serve, Remove, Sending
<1>3. ASSUME \/ Select \/ queue_clients_with_input \/ accept_new_client \/ accept_fails
             \/ nothing_to_accept \/ QueueEmpty \/ UNCHANGED vars
      PROVE  alive' \in BOOLEAN
  BY <1>3 DEF Select, queue_clients_with_input, accept_new_client, accept_fails, Sending,
              nothing_to_accept, QueueEmpty, vars, server
<1> QED BY <1>1, <1>2, <1>3 DEF Next, Loop, Environment

LEMMA InvInit == Init => Inv /\ alive \in BOOLEAN
<1> SUFFICES ASSUME Init PROVE Inv /\ alive \in BOOLEAN
  OBVIOUS
<1>1. connections = {}
  BY DEF Init, connections
<1>2. FdInv
  BY <1>1, FS_EmptySet DEF FdInv
<1>3. NetInv
  BY Bounds DEF Init, NetInv
<1>4. SilentInv
  BY DEF Init, SilentInv, Readable
<1>5. ReadyInv
  BY DEF Init, ReadyInv
<1>6. QueueInv
  BY DEF Init, QueueInv, Queue, OnceEach
<1>7. PhaseInv /\ alive \in BOOLEAN
  BY DEF Init, PhaseInv
<1> QED BY <1>2, <1>3, <1>4, <1>5, <1>6, <1>7 DEF Inv

LEMMA InvNext == Inv /\ [Next]_vars => Inv'
BY FdNext, NetNext, SilentNext, ReadyNext, QueueNext, PhaseNext DEF Inv

Typed == Inv /\ alive \in BOOLEAN

LEMMA TypedNext == Typed /\ [Next]_vars => Typed'
BY InvNext, AliveNext DEF Typed

\* Every variable of the loop and of the kernel has its type, for any number of
\* peers, descriptors and packets.
THEOREM LoopTypeCorrect == Spec => []TypeOK
<1>1. Init => Typed
  BY InvInit DEF Typed
<1>2. Typed => TypeOK
  <2> SUFFICES ASSUME Typed PROVE TypeOK
    OBVIOUS
  <2>1. FdInv /\ SilentInv /\ alive \in BOOLEAN
    BY DEF Typed, Inv
  <2>2. NetInv /\ ReadyInv /\ QueueInv /\ PhaseInv
    BY DEF Typed, Inv
  <2>3. sent \in [Peer -> 0..MaxSent] /\ inbound \in [Peer -> 0..MaxSent]
    BY <2>2, Bounds DEF NetInv
  <2> QED BY <2>1, <2>2, <2>3 DEF TypeOK, FdInv, NetInv, SilentInv, ReadyInv, QueueInv, Queue,
                                  PhaseInv
<1> QED BY <1>1, <1>2, TypedNext, PTL DEF Spec

\* Whoever waits to be served is connected, has something to receive and is there
\* once, though others were accepted, served and removed since select.
THEOREM LoopReady == Spec => []ReadyStaysReady
<1>1. Inv => ReadyStaysReady
  BY DEF Inv, QueueInv, Queue, OnceEach, ReadyStaysReady
<1>2. Init => Inv
  BY InvInit
<1> QED BY <1>1, <1>2, InvNext, PTL DEF Spec

=============================================================================
