--------------------------- MODULE Lifecycle_proofs ---------------------------
(***************************************************************************)
(* Theorems about module Lifecycle, for any number of connections, starts  *)
(* and signals: who has the server, and what a process leaves to the next. *)
(***************************************************************************)
EXTENDS Lifecycle, TLAPS

Frame == [signal : Signals, at : {"stop", "clients", "path", "exit"}]

\* How far the handlers are that have been called.
Stages(h) == {h[i].at : i \in DOMAIN h}

InLoop == {"loop"} \cup Changing

\* A handler that has met a server has it until the process ends, ...
HandlersHaveServer == Stages(handlers) \subseteq {"stop"} \/ pc \in InLoop

\* ... an address that is not the server's own was written over it, ...
PeerIsNoted == address = "peer" => "path" \in left

\* ... and a file is there while it is used, or a process left it behind.
FileHasReason ==
  family = "AF_UNIX" /\ path =>
    \/ left # {}
    \/ pc \in {"bound", "listening"} \cup InLoop /\ "exit" \notin Stages(handlers)

Flags == path \in BOOLEAN /\ lingering \in BOOLEAN

Types ==
  /\ family \in {"AF_UNIX", "AF_INET"}
  /\ pc \in {"down", "created", "bound", "listening"} \cup InLoop
  /\ server \in {"null", "live", "deleted"} /\ (pc \in InLoop <=> server # "null")
  /\ handlers \in Seq(Frame)
  /\ clients \in 0..MaxClients /\ (pc = "accepted" => clients < MaxClients)
  /\ address \in {"own", "peer"}
  /\ ended \in {"never", "bind", "killed", "null", "undefined", "exit"}
  /\ signals \in 0..MaxSignals
  /\ left \subseteq {"killed", "null", "undefined", "path"}

Inv ==
  /\ Types /\ Flags
  /\ HandlersHaveServer /\ PeerIsNoted /\ FileHasReason
  /\ LoopNeverResumes /\ UnixBindFails

(***************************************************************************)
(* The stack of handlers.                                                  *)
(***************************************************************************)
LEMMA NoStages == Stages(<<>>) = {}
BY DEF Stages

\* The positions of a stack with one more handler on top.
LEMMA Pushed ==
  ASSUME NEW R, NEW h \in Seq(R), NEW r \in R
  PROVE  /\ <<r>> \o h \in Seq(R) /\ <<r>> \o h # <<>>
         /\ DOMAIN (<<r>> \o h) = 1..Len(h) + 1 /\ DOMAIN h = 1..Len(h) /\ Len(h) \in Nat
         /\ (<<r>> \o h)[1] = r
         /\ \A i \in 2..Len(h) + 1 : (<<r>> \o h)[i] = h[i - 1]
OBVIOUS

LEMMA PushedStages ==
  ASSUME NEW R, NEW h \in Seq(R), NEW r \in R
  PROVE  Stages(<<r>> \o h) \subseteq {r.at} \cup Stages(h)
<1> DEFINE p == <<r>> \o h
<1>1. /\ DOMAIN p = 1..Len(h) + 1 /\ DOMAIN h = 1..Len(h) /\ Len(h) \in Nat
      /\ p[1] = r /\ \A i \in 2..Len(h) + 1 : p[i] = h[i - 1]
  BY Pushed
<1> HIDE DEF p
<1>2. ASSUME NEW i \in DOMAIN p PROVE p[i].at \in {r.at} \cup Stages(h)
  <2>1. CASE i = 1
    BY <1>1, <2>1
  <2>2. CASE i # 1
    <3>1. i - 1 \in DOMAIN h /\ p[i] = h[i - 1]
      BY <1>1, <2>2
    <3> QED BY <3>1 DEF Stages
  <2> QED BY <2>1, <2>2
<1>3. Stages(p) \subseteq {r.at} \cup Stages(h)
  BY <1>2 DEF Stages
<1> QED BY <1>3 DEF p

\* The handler on top, and those below it.
LEMMA TopStages ==
  ASSUME NEW h \in Seq(Frame), h # <<>>
  PROVE  /\ Head(h) \in Frame /\ Tail(h) \in Seq(Frame)
         /\ Head(h).at \in Stages(h)
         /\ Stages(Tail(h)) \subseteq Stages(h)
<1>1. /\ Head(h) \in Frame /\ Tail(h) \in Seq(Frame)
      /\ Head(h) = h[1] /\ 1 \in DOMAIN h
      /\ \A i \in DOMAIN Tail(h) : i + 1 \in DOMAIN h /\ Tail(h)[i] = h[i + 1]
  OBVIOUS
<1> QED BY <1>1 DEF Stages

\* The next step of the handler on top.
LEMMA GoesOn ==
  ASSUME Types, NEW step \in {"clients", "path", "exit"}, handlers # <<>>, GoOn(step)
  PROVE  /\ handlers' \in Seq(Frame) /\ handlers' # <<>>
         /\ Stages(handlers') \subseteq {step} \cup Stages(handlers)
<1> DEFINE r == [Head(handlers) EXCEPT !.at = step]
           t == Tail(handlers)
<1>1. /\ handlers \in Seq(Frame)
      /\ Head(handlers) \in Frame /\ t \in Seq(Frame) /\ Stages(t) \subseteq Stages(handlers)
  BY TopStages DEF Types
<1>2. r \in Frame /\ r.at = step
  BY <1>1 DEF Frame
<1>3. handlers' = <<r>> \o t
  BY DEF GoOn
<1> HIDE DEF r, t
<1>4. handlers' \in Seq(Frame) /\ handlers' # <<>> /\ Stages(handlers') \subseteq {step} \cup Stages(t)
  BY <1>1, <1>2, <1>3, Pushed, PushedStages
<1> QED BY <1>1, <1>4

(***************************************************************************)
(* The steps.                                                              *)
(***************************************************************************)
LEMMA InvInit == Init => Inv
<1> SUFFICES ASSUME Init PROVE Inv
  OBVIOUS
<1>1. Types
  <2>1. <<>> \in Seq(Frame)
    OBVIOUS
  <2> QED BY <2>1, BoundsNatural DEF Init, Types, InLoop, Changing
<1>2. Flags
  BY DEF Init, Flags
<1>3. HandlersHaveServer /\ PeerIsNoted /\ FileHasReason /\ LoopNeverResumes /\ UnixBindFails
  BY NoStages DEF Init, HandlersHaveServer, PeerIsNoted, FileHasReason, LoopNeverResumes,
                  UnixBindFails
<1> QED BY <1>1, <1>2, <1>3 DEF Inv

\* The flags are true or false.
LEMMA FlagsNext == Flags /\ [Next]_vars => Flags'
<1> SUFFICES ASSUME Flags, [Next]_vars PROVE Flags'
  OBVIOUS
<1>1. path' \in BOOLEAN
  BY DEF Flags, Next, vars, process, system, Start, bind_socket, bind_fails, listen, constructed,
         accept_new_client, add_client, process_clients_input, input_processed, remove_client,
         Kill, Signal, Handler, handler_stop, handler_undefined,
         disconnect_all_clients, delete_server, handler_exit, Expire, End, Killed, FileAfterDelete
<1>2. lingering' \in BOOLEAN
  BY DEF Flags, Next, vars, process, system, Start, bind_socket, bind_fails, listen, constructed,
         accept_new_client, add_client, process_clients_input, input_processed, remove_client,
         Kill, Signal, Handler, handler_stop, handler_undefined,
         disconnect_all_clients, delete_server, handler_exit, Expire, End, Killed, FileAfterDelete
<1> QED BY <1>1, <1>2 DEF Flags

\* A process that ends leaves something behind, or has no file, or never had one
\* of its own.
LEMMA EndInv ==
  ASSUME Inv, Flags', NEW how \in {"bind", "killed", "null", "undefined", "exit"}, End(how),
         left \subseteq left', left' \subseteq {"killed", "null", "undefined", "path"},
         family = "AF_UNIX" /\ (path \/ how = "bind") => left' # {}
  PROVE  Inv'
<1>1. /\ pc' = "down" /\ ended' = how /\ handlers' = <<>> /\ server' = "null" /\ clients' = 0
      /\ UNCHANGED <<family, address, path, signals>>
  BY DEF End
<1>2. Types'
  <2>1. <<>> \in Seq(Frame)
    OBVIOUS
  <2> QED BY <1>1, <2>1, BoundsNatural DEF Inv, Types, InLoop, Changing
<1>3. HandlersHaveServer' /\ LoopNeverResumes' /\ PeerIsNoted'
  BY <1>1, NoStages DEF Inv, HandlersHaveServer, LoopNeverResumes, PeerIsNoted
<1>4. FileHasReason' /\ UnixBindFails'
  BY <1>1 DEF FileHasReason, UnixBindFails
<1> QED BY <1>2, <1>3, <1>4 DEF Inv

\* What main does in its loop.
LoopStep ==
  \/ accept_new_client
  \/ add_client
  \/ process_clients_input
  \/ input_processed
  \/ remove_client

LEMMA LoopSteps ==
  ASSUME Inv, LoopStep
  PROVE  /\ handlers = <<>> /\ pc \in InLoop /\ pc' \in InLoop
         /\ UNCHANGED <<family, server, handlers, path, ended, signals>>
         /\ clients' \in 0..MaxClients /\ (pc' = "accepted" => clients' < MaxClients)
         /\ \/ UNCHANGED <<address, left>>
            \/ address' = "peer" /\ left' = left \cup {"path"}
BY BoundsNatural
   DEF LoopStep, accept_new_client, add_client, process_clients_input, input_processed, remove_client,
       Main, InLoop, Changing, system, Inv, Types

\* main, from its start to its loop.
LEMMA MainInv ==
  ASSUME Inv, Flags', Start \/ bind_socket \/ listen \/ constructed \/ LoopStep
  PROVE  Inv'
<1>1. Stages(handlers) \subseteq {"stop"} /\ handlers' = handlers
  <2>1. CASE Start
    BY <2>1 DEF Start, Inv, HandlersHaveServer, InLoop, Changing
  <2>2. CASE bind_socket \/ listen \/ constructed
    BY <2>2, NoStages DEF bind_socket, listen, constructed, Main
  <2>3. CASE LoopStep
    BY <2>3, NoStages, LoopSteps
  <2> QED BY <2>1, <2>2, <2>3
<1>2. UNCHANGED <<family, ended, signals>> /\ left \subseteq left'
  <2>1. CASE LoopStep
    BY <2>1, LoopSteps
  <2> QED BY <2>1 DEF Start, bind_socket, listen, constructed
<1>3. Types'
  <2>1. CASE Start
    BY <2>1 DEF Start, Inv, Types, InLoop, Changing
  <2>2. CASE bind_socket \/ listen \/ constructed
    BY <2>2 DEF bind_socket, listen, constructed, Inv, Types, InLoop, Changing
  <2>3. CASE LoopStep
    <3>1. left' \subseteq {"killed", "null", "undefined", "path"} /\ address' \in {"own", "peer"}
      BY <2>3, LoopSteps DEF Inv, Types
    <3> QED BY <2>3, <3>1, LoopSteps DEF Inv, Types
  <2> QED BY <2>1, <2>2, <2>3
<1>4. HandlersHaveServer'
  BY <1>1 DEF HandlersHaveServer
<1>5. PeerIsNoted'
  <2>1. CASE LoopStep
    BY <2>1, LoopSteps DEF Inv, PeerIsNoted
  <2>2. CASE Start \/ bind_socket \/ listen \/ constructed
    BY <2>2 DEF Start, bind_socket, listen, constructed, Inv, PeerIsNoted, process
  <2> QED BY <2>1, <2>2
<1>6. UnixBindFails'
  BY <1>2 DEF Inv, UnixBindFails
<1>7. LoopNeverResumes'
  <2>1. server' = server \/ server' = "live"
    <3>1. CASE LoopStep
      BY <3>1, LoopSteps
    <3> QED BY <3>1 DEF Start, bind_socket, listen, constructed
  <2> QED BY <1>1, <2>1 DEF Inv, LoopNeverResumes
<1>8. FileHasReason'
  <2>1. "exit" \notin Stages(handlers')
    BY <1>1
  <2>2. CASE Start
    BY <1>2, <2>2 DEF Start, system, Inv, FileHasReason, InLoop, Changing
  <2>3. CASE bind_socket
    BY <2>1, <2>3 DEF bind_socket, FileHasReason
  <2>4. CASE listen \/ constructed
    BY <2>1, <2>4 DEF listen, constructed, FileHasReason, InLoop
  <2>5. CASE LoopStep
    BY <2>1, <2>5, LoopSteps DEF FileHasReason
  <2> QED BY <2>2, <2>3, <2>4, <2>5
<1> QED BY <1>3, <1>4, <1>5, <1>6, <1>7, <1>8 DEF Inv

\* A signal is handled before anything else goes on.
LEMMA SignalInv ==
  ASSUME Inv, Flags', NEW s \in Signals, Signal(s)
  PROVE  Inv'
<1> DEFINE r == [signal |-> s, at |-> "stop"]
<1>1. /\ handlers' = <<r>> \o handlers /\ pc # "down"
      /\ UNCHANGED <<family, pc, server, clients, address, path, lingering, ended, left>>
      /\ signals < MaxSignals /\ signals' = signals + 1
  BY DEF Signal, system
<1>2. r \in Frame /\ r.at = "stop" /\ handlers \in Seq(Frame)
  BY DEF Frame, Inv, Types
<1> HIDE DEF r
<1>3. /\ handlers' \in Seq(Frame) /\ handlers' # <<>>
      /\ Stages(handlers') \subseteq {"stop"} \cup Stages(handlers)
  BY <1>1, <1>2, Pushed, PushedStages
<1>4. Types'
  <2>1. signals' \in 0..MaxSignals
    BY <1>1, BoundsNatural DEF Inv, Types
  <2> QED BY <1>1, <1>3, <2>1 DEF Inv, Types
<1>5. HandlersHaveServer' /\ LoopNeverResumes' /\ PeerIsNoted' /\ UnixBindFails'
  BY <1>1, <1>3 DEF Inv, HandlersHaveServer, LoopNeverResumes, PeerIsNoted, UnixBindFails
<1>6. FileHasReason'
  BY <1>1, <1>3 DEF Inv, FileHasReason
<1> QED BY <1>4, <1>5, <1>6 DEF Inv

\* The handler deletes the server, step by step.
LEMMA HandlerInv ==
  ASSUME Inv, Flags',
         \/ handler_stop /\ server # "null"
         \/ disconnect_all_clients
         \/ delete_server
  PROVE  Inv'
<1>1. PICK step \in {"clients", "path", "exit"} :
        /\ handlers # <<>> /\ GoOn(step)
        /\ step = "clients" => handler_stop /\ server # "null"
        /\ step = "path" => disconnect_all_clients
        /\ step = "exit" => delete_server
  BY DEF handler_stop, disconnect_all_clients, delete_server, At
<1>2. /\ handlers' \in Seq(Frame) /\ handlers' # <<>>
      /\ Stages(handlers') \subseteq {step} \cup Stages(handlers)
  BY <1>1, GoesOn DEF Inv
<1>3. pc \in InLoop /\ pc' = pc
  <2>1. CASE handler_stop /\ server # "null"
    BY <2>1 DEF handler_stop, Inv, Types
  <2>2. CASE disconnect_all_clients \/ delete_server
    <3>1. Head(handlers).at \in {"clients", "path"} /\ handlers # <<>> /\ pc' = pc
      BY <2>2 DEF disconnect_all_clients, delete_server, At
    <3>2. Head(handlers).at \in Stages(handlers)
      BY <3>1, TopStages DEF Inv, Types
    <3> QED BY <3>1, <3>2 DEF Inv, HandlersHaveServer
  <2> QED BY <2>1, <2>2
<1>4. /\ UNCHANGED <<family, address, ended, signals, left>>
      /\ clients' \in {clients, 0}
      /\ server' = server \/ server' = "deleted"
  BY DEF handler_stop, disconnect_all_clients, delete_server, system
<1>5. Types'
  <2>1. server' # "null"
    BY <1>3, <1>4 DEF Inv, Types
  <2> QED BY <1>2, <1>3, <1>4, <2>1, BoundsNatural DEF Inv, Types
<1>6. HandlersHaveServer' /\ LoopNeverResumes' /\ PeerIsNoted' /\ UnixBindFails'
  BY <1>2, <1>3, <1>4 DEF Inv, HandlersHaveServer, LoopNeverResumes, PeerIsNoted, UnixBindFails
<1>7. FileHasReason'
  <2>1. CASE step = "exit"
    BY <1>1, <1>4, <2>1 DEF delete_server, FileAfterDelete, FileHasReason, Inv, PeerIsNoted
  <2>2. CASE step # "exit"
    <3>1. path' = path
      BY <1>1, <2>2 DEF handler_stop, disconnect_all_clients, system
    <3> QED BY <1>2, <1>3, <1>4, <2>2, <3>1 DEF Inv, FileHasReason
  <2> QED BY <2>1, <2>2
<1> QED BY <1>5, <1>6, <1>7 DEF Inv

\* The ends of the process.
LEMMA EndsInv ==
  ASSUME Inv, Flags',
         \/ bind_fails
         \/ handler_stop /\ server = "null"
         \/ handler_undefined
         \/ handler_exit
  PROVE  Inv'
<1>0. left \subseteq {"killed", "null", "undefined", "path"}
  BY DEF Inv, Types
<1>1. CASE bind_fails
  <2>1. /\ End("bind") /\ left' = left /\ pc = "created"
        /\ family = "AF_UNIX" => path
    BY <1>1 DEF bind_fails, AddressInUse
  <2>2. family = "AF_UNIX" => left # {}
    BY <2>1 DEF Inv, FileHasReason, InLoop, Changing
  <2> QED BY <1>0, <2>1, <2>2, EndInv
<1>2. CASE handler_stop /\ server = "null"
  <2>1. End("null") /\ left' = left \cup {"null"}
    BY <1>2 DEF handler_stop, Killed
  <2> QED BY <1>0, <2>1, EndInv
<1>3. CASE handler_undefined
  <2>1. End("undefined") /\ left' = left \cup {"undefined"}
    BY <1>3 DEF handler_undefined, Killed
  <2> QED BY <1>0, <2>1, EndInv
<1>4. CASE handler_exit
  <2>1. End("exit") /\ left' = left /\ handlers # <<>> /\ Head(handlers).at = "exit"
    BY <1>4 DEF handler_exit, At
  <2>2. "exit" \in Stages(handlers)
    BY <2>1, TopStages DEF Inv, Types
  <2>3. family = "AF_UNIX" /\ path => left # {}
    BY <2>2 DEF Inv, FileHasReason
  <2> QED BY <1>0, <2>1, <2>3, EndInv
<1> QED BY <1>1, <1>2, <1>3, <1>4

\* A signal that cannot be handled.
LEMMA KillInv ==
  ASSUME Inv, Flags', Kill
  PROVE  Inv'
<1>1. /\ pc' = "down" /\ ended' = "killed" /\ left' = left \cup {"killed"} /\ handlers' = <<>>
      /\ server' = "null" /\ clients' = 0 /\ UNCHANGED <<family, address, path>>
      /\ signals < MaxSignals /\ signals' = signals + 1
  BY DEF Kill
<1>2. Types'
  <2>1. signals' \in 0..MaxSignals /\ clients' \in 0..MaxClients
    BY <1>1, BoundsNatural DEF Inv, Types
  <2>2. handlers' \in Seq(Frame)
    BY <1>1
  <2> QED BY <1>1, <2>1, <2>2 DEF Inv, Types, InLoop, Changing
<1>3. HandlersHaveServer' /\ LoopNeverResumes' /\ PeerIsNoted'
  BY <1>1, NoStages DEF Inv, HandlersHaveServer, LoopNeverResumes, PeerIsNoted
<1>4. FileHasReason' /\ UnixBindFails'
  BY <1>1 DEF FileHasReason, UnixBindFails
<1> QED BY <1>2, <1>3, <1>4 DEF Inv

\* The kernel lets go of a port, and steps that do nothing.
LEMMA ExpireInv ==
  ASSUME Inv, Flags', Expire \/ UNCHANGED vars
  PROVE  Inv'
<1>1. UNCHANGED <<family, pc, server, handlers, clients, address, path, ended, signals, left>>
  BY DEF Expire, vars, process, system
<1> QED BY <1>1 DEF Inv, Types, HandlersHaveServer, PeerIsNoted, FileHasReason, LoopNeverResumes,
                    UnixBindFails

LEMMA InvNext == Inv /\ [Next]_vars => Inv'
<1> SUFFICES ASSUME Inv, [Next]_vars PROVE Inv'
  OBVIOUS
<1>1. Flags'
  BY FlagsNext DEF Inv
<1>2. CASE Start \/ bind_socket \/ listen \/ constructed \/ LoopStep
  BY <1>1, <1>2, MainInv
<1>3. ASSUME NEW s \in Signals, Signal(s) PROVE Inv'
  BY <1>1, <1>3, SignalInv
<1>4. CASE Handler \/ bind_fails
  BY <1>1, <1>4, HandlerInv, EndsInv DEF Handler
<1>5. CASE Kill
  BY <1>1, <1>5, KillInv
<1>6. CASE Expire \/ UNCHANGED vars
  BY <1>1, <1>6, ExpireInv
<1> QED BY <1>2, <1>3, <1>4, <1>5, <1>6 DEF Next, LoopStep

\* Every variable keeps its type, and the global pointer is set exactly while main
\* is in the loop, whatever signals came at what moments.
THEOREM LifecycleTypeCorrect == Spec => []TypeOK
<1>1. Inv => TypeOK
  BY DEF Inv, Types, Flags, TypeOK, Frame, InLoop
<1> QED BY <1>1, InvInit, InvNext, PTL DEF Spec

\* A UNIX server that cannot bind met the file of a process that was killed, that
\* a signal met without a server, in the middle of a change of its data or while
\* another signal was handled, or that had written a client's address over its
\* own; for any number of starts.
THEOREM UnixBindExplained == Spec => []UnixBindFails
<1>1. Inv => UnixBindFails
  BY DEF Inv
<1> QED BY <1>1, InvInit, InvNext, PTL DEF Spec

\* The loop never runs on a deleted server.
THEOREM LoopEnds == Spec => []LoopNeverResumes
<1>1. Inv => LoopNeverResumes
  BY DEF Inv
<1> QED BY <1>1, InvInit, InvNext, PTL DEF Spec

===============================================================================
