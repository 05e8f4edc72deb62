------------------------------ MODULE Lifecycle ------------------------------
(***************************************************************************)
(* The server process from main to its end, over several starts: what a    *)
(* signal handler finds that deletes the server wherever the program is,   *)
(* and what one process leaves behind for the bind of the next.            *)
(*                                                                         *)
(* README.md has the user switch between the two constructors of Server in *)
(* main.cpp; both are modelled.  The connections are counted; what they do *)
(* is module EventLoop.  A round of the loop is cut where it matters to a  *)
(* signal: while it waits, and while it changes what ~Server deletes.      *)
(***************************************************************************)
EXTENDS Naturals, Sequences

CONSTANTS
  MaxClients,  \* bound: connections at a time
  MaxSignals   \* bound: signals in a behaviour

ASSUME BoundsNatural == MaxClients \in Nat /\ MaxSignals \in Nat

VARIABLES
  family,     \* AF_UNIX or AF_INET
  pc,         \* how far main is; down: no process
  server,     \* the global pointer: null, live, deleted
  handlers,   \* calls of signal_callback_handler, the innermost first
  clients,    \* Server::connections
  address,    \* whose address Server::server_address holds
  path,       \* the socket's file exists
  lingering,  \* the port is held by connections that the server closed first
  ended,      \* how the last process ended
  signals,    \* history: signals sent
  left        \* history: what processes ever left behind

process == <<pc, server, handlers, clients, address>>
system  == <<path, lingering>>
vars    == <<family, process, system, ended, signals, left>>

Signals == {"SIGINT", "SIGTERM"}

\* In the middle of accept_new_client, and of the handling of input: connections,
\* unprocessed, a client or a namespace may be half changed.
Changing == {"accepted", "serving"}

-----------------------------------------------------------------------------
\* The end of the process.  The kernel closes its connections.
End(how) ==
  /\ pc' = "down"
  /\ ended' = how
  /\ handlers' = <<>>
  /\ server' = "null"
  /\ clients' = 0
  /\ lingering' = (lingering \/ (family = "AF_INET" /\ (clients > 0 \/ pc = "accepted")))
  /\ UNCHANGED <<family, address, path, signals>>

Killed(how) == End(how) /\ left' = left \cup {how}

\* main: the handlers are installed, the socket is created.
Start ==
  /\ pc = "down"
  /\ pc' = "created"
  /\ address' = "own"
  /\ UNCHANGED <<family, server, handlers, clients, system, ended, signals, left>>

\* Code of main and of the loop runs only while no handler does.
Main == handlers = <<>>

AddressInUse == IF family = "AF_UNIX" THEN path ELSE lingering

bind_socket ==
  /\ Main
  /\ pc = "created"
  /\ ~AddressInUse
  /\ pc' = "bound"
  /\ path' = (path \/ family = "AF_UNIX")
  /\ UNCHANGED <<family, server, handlers, clients, address, lingering, ended, signals, left>>

\* exit(1).  generate_server_address(port) leaves sin_addr uninitialised: the
\* address may be none of this machine's.
bind_fails ==
  /\ Main
  /\ pc = "created"
  /\ AddressInUse \/ family = "AF_INET"
  /\ End("bind")
  /\ UNCHANGED left

listen ==
  /\ Main
  /\ pc = "bound"
  /\ pc' = "listening"
  /\ UNCHANGED <<family, server, handlers, clients, address, system, ended, signals, left>>

\* Mutant: a local variable takes the name of the global pointer.
constructed_in_local ==
  /\ Main
  /\ pc = "listening"
  /\ pc' = "loop"
  /\ UNCHANGED <<family, server, handlers, clients, address, system, ended, signals, left>>

\* The constructor returns: only now is the pointer set.
constructed ==
  /\ Main
  /\ pc = "listening"
  /\ pc' = "loop"
  /\ server' = "live"
  /\ UNCHANGED <<family, handlers, clients, address, system, ended, signals, left>>

\* accept4 writes the peer's address over the server's.  An unbound UNIX socket
\* has none, and a TCP peer's is of the same family.
accept_new_client ==
  /\ Main
  /\ pc = "loop"
  /\ clients < MaxClients
  /\ pc' = "accepted"
  /\ \/ UNCHANGED <<address, left>>
     \/ family = "AF_UNIX" /\ address' = "peer" /\ left' = left \cup {"path"}
  /\ UNCHANGED <<family, server, handlers, clients, system, ended, signals>>

add_client ==
  /\ Main
  /\ pc = "accepted"
  /\ pc' = "loop"
  /\ clients' = clients + 1
  /\ UNCHANGED <<family, server, handlers, address, system, ended, signals, left>>

\* From queue_clients_with_input on; a packet may change anything.
process_clients_input ==
  /\ Main
  /\ pc = "loop"
  /\ clients > 0
  /\ pc' = "serving"
  /\ UNCHANGED <<family, server, handlers, clients, address, system, ended, signals, left>>

input_processed ==
  /\ Main
  /\ pc = "serving"
  /\ pc' = "loop"
  /\ UNCHANGED <<family, server, handlers, clients, address, system, ended, signals, left>>

\* A client closes its end first, so that nothing lingers here.
remove_client ==
  /\ Main
  /\ pc = "serving"
  /\ clients > 0
  /\ clients' = clients - 1
  /\ UNCHANGED <<family, pc, server, handlers, address, system, ended, signals, left>>

\* SIGPIPE, or a signal that cannot be handled.
Kill ==
  /\ pc # "down"
  /\ signals < MaxSignals
  /\ pc' = "down"
  /\ ended' = "killed"
  /\ left' = left \cup {"killed"}
  /\ handlers' = <<>>
  /\ server' = "null"
  /\ clients' = 0
  /\ lingering' = (lingering \/ (family = "AF_INET" /\ (clients > 0 \/ pc = "accepted")))
  /\ signals' = signals + 1
  /\ UNCHANGED <<family, address, path>>

-----------------------------------------------------------------------------
(***************************************************************************)
(* signal_callback_handler.  A signal is blocked while it is handled, the  *)
(* other one is not.                                                       *)
(***************************************************************************)
Signal(s) ==
  /\ pc # "down"
  /\ signals < MaxSignals
  /\ \A i \in DOMAIN handlers : handlers[i].signal # s
  /\ handlers' = <<[signal |-> s, at |-> "stop"]>> \o handlers
  /\ signals' = signals + 1
  /\ UNCHANGED <<family, pc, server, clients, address, system, ended, left>>

At(step) == handlers # <<>> /\ Head(handlers).at = step

GoOn(step) == handlers' = <<[Head(handlers) EXCEPT !.at = step]>> \o Tail(handlers)

\* The server was deleted, an interrupted handler is deleting it, or the loop was
\* interrupted while it changed it: what is done to it is undefined, and may end
\* the process.
Damaged ==
  \/ pc \in Changing
  \/ server = "deleted"
  \/ \E i \in 2..Len(handlers) : handlers[i].at # "stop"

\* server->stop() through a null pointer ends the process.
handler_stop ==
  /\ At("stop")
  /\ IF server = "null" THEN Killed("null")
     ELSE GoOn("clients")
          /\ UNCHANGED <<family, pc, server, clients, address, system, ended, signals, left>>

handler_undefined ==
  /\ handlers # <<>>
  /\ Damaged
  /\ Killed("undefined")

\* ~Server: every connection is closed by the server, ...
disconnect_all_clients ==
  /\ At("clients")
  /\ clients' = 0
  /\ lingering' = (lingering \/ (family = "AF_INET" /\ clients > 0))
  /\ GoOn("path")
  /\ UNCHANGED <<family, pc, server, address, path, ended, signals, left>>

\* Mutant: the file of the socket is not removed.
FileKept == path

\* remove_unix_endpoint: remove(address->sun_path), the address being whoever's.
FileAfterDelete == path /\ (family = "AF_INET" \/ address = "peer")

\* ... then the socket, the file and the object go.
delete_server ==
  /\ At("path")
  /\ path' = FileAfterDelete
  /\ server' = "deleted"
  /\ GoOn("exit")
  /\ UNCHANGED <<family, pc, clients, address, lingering, ended, signals, left>>

\* Mutant: the handler returns to what it interrupted.
handler_returns ==
  /\ At("exit")
  /\ handlers' = Tail(handlers)
  /\ UNCHANGED <<family, pc, server, clients, address, system, ended, signals, left>>

handler_exit ==
  /\ At("exit")
  /\ End("exit")
  /\ UNCHANGED left

\* The kernel lets go of the port.
Expire ==
  /\ lingering
  /\ lingering' = FALSE
  /\ UNCHANGED <<family, process, path, ended, signals, left>>

-----------------------------------------------------------------------------
Init ==
  /\ family    \in {"AF_UNIX", "AF_INET"}
  /\ pc        = "down"
  /\ server    = "null"
  /\ handlers  = <<>>
  /\ clients   = 0
  /\ address   = "own"
  /\ path      = FALSE
  /\ lingering = FALSE
  /\ ended     = "never"
  /\ signals   = 0
  /\ left      = {}

Handler ==
  \/ handler_stop
  \/ handler_undefined
  \/ disconnect_all_clients
  \/ delete_server
  \/ handler_exit

Next ==
  \/ Start
  \/ bind_socket
  \/ bind_fails
  \/ listen
  \/ constructed
  \/ accept_new_client
  \/ add_client
  \/ process_clients_input
  \/ input_processed
  \/ remove_client
  \/ Kill
  \/ \E s \in Signals : Signal(s)
  \/ Handler
  \/ Expire

\* A handler that has been called runs.
Spec == Init /\ [][Next]_vars /\ WF_vars(Handler)

-----------------------------------------------------------------------------
(***************************************************************************)
(* Properties.                                                             *)
(***************************************************************************)

\* Every variable has its type, and the pointer follows the constructor.
TypeOK ==
  /\ family \in {"AF_UNIX", "AF_INET"}
  /\ pc \in {"down", "created", "bound", "listening", "loop"} \cup Changing
  /\ server \in {"null", "live", "deleted"}
  /\ pc \in {"loop"} \cup Changing <=> server # "null"
  /\ handlers \in Seq([signal : Signals, at : {"stop", "clients", "path", "exit"}])
  /\ clients \in 0..MaxClients
  /\ address \in {"own", "peer"}
  /\ path \in BOOLEAN /\ lingering \in BOOLEAN
  /\ ended \in {"never", "bind", "killed", "null", "undefined", "exit"}
  /\ signals \in 0..MaxSignals
  /\ left \subseteq {"killed", "null", "undefined", "path"}

\* A UNIX server that cannot bind met the file of a process that was killed, that
\* a signal reached before its constructor returned, while the loop changed its
\* data or while another signal was handled, or that had written a client's
\* address over its own.
UnixBindFails == family = "AF_UNIX" /\ ended = "bind" => left # {}

\* The loop never runs on a deleted server: as long as there is one, main is
\* interrupted by a handler.
LoopNeverResumes == server = "deleted" => handlers # <<>>

\* Whatever the program was doing, a signal ends it.
SignalEnds == handlers # <<>> ~> pc = "down"

=============================================================================
