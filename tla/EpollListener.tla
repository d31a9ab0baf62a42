----------------------------- MODULE EpollListener -----------------------------
(***************************************************************************)
(* EpollListener (ShipNet/network/listener/EpollListener.cpp) and          *)
(* UnixConnector (ShipNet/network/connector/UnixConnector.cpp): the two    *)
(* sources of connections, the clients, and the descriptor table they      *)
(* share with the event loop.  The actions change this state only; Server  *)
(* adds the event loop.                                                    *)
(*                                                                         *)
(* Descriptor numbers are small integers and the kernel always hands out   *)
(* the lowest free one; number 0 belongs to the process (standard input),  *)
(* number 1 is the epoll descriptor of the event loop.                     *)
(***************************************************************************)
EXTENDS Integers, Sequences, FiniteSetsExt

CONSTANTS
  Clients,      \* peers that connect to the listener
  Servers,      \* peers the application connects to
  Descriptors   \* size of the descriptor table

Peers == Clients \cup Servers

(* What else a number may refer to. *)
Others ==
  {"free", "stdin", "loop", "socket", "epoll", "unconnected", "otherloop"}

ASSUME DescriptorAssumption == Descriptors \in Nat /\ Descriptors >= 2
ASSUME PeerAssumption == Clients \cap Servers = {} /\ Peers \cap Others = {}

VARIABLES
  table,                 \* kernel: what every number refers to
  backlog,               \* kernel: clients waiting in the listening socket
  edge,                  \* kernel: an edge of the listener's epoll
  socketFileDescriptor,  \* members of EpollListener
  epollFileDescriptor,
  listener,              \* where the thread of the listener is
  accepted,              \* ghost: clients handed to the event loop
  bindFailed,            \* ghost: a Bind has failed
  acceptFailed,          \* ghost: accept4 has failed
  foreign                \* ghost: what the listener closed that is not its own

listenerVars == <<table, backlog, edge, socketFileDescriptor, epollFileDescriptor,
                  listener, accepted, bindFailed, acceptFailed, foreign>>

Numbers == 0 .. Descriptors - 1

(* What Bind can fail in. *)
BindSteps == {"socket", "setup", "epoll_create1", "epoll_ctl"}

ListenerInit ==
  /\ table = [f \in Numbers |-> CASE f = 0 -> "stdin" [] f = 1 -> "loop"
                                  [] OTHER -> "free"]
  /\ backlog = <<>> /\ edge = FALSE
  /\ socketFileDescriptor = 0 /\ epollFileDescriptor = 0
  /\ listener = "constructed"
  /\ accepted = {} /\ bindFailed = FALSE /\ acceptFailed = FALSE
  /\ foreign = {}

-----------------------------------------------------------------------------
(* The descriptor table. *)

Free == {f \in Numbers : table[f] = "free"}

(* The result of socket, accept4 or epoll_create1. *)
Lowest(F) == IF F = {} THEN -1 ELSE Min(F)

(* close() of the numbers in F; those that are not open are ignored. *)
Closed(F) == [f \in Numbers |-> IF f \in F THEN "free" ELSE table[f]]

(* The listener closes number f, whatever it refers to. *)
CloseNumber(f) ==
  /\ table' = Closed({f})
  /\ foreign' = foreign \cup ({table[g] : g \in {f} \cap Numbers}
                                \ {"socket", "epoll", "free"})

-----------------------------------------------------------------------------
(* EpollListener. *)

(* Mutant: the failed Bind closes its socket and keeps the number. *)
BindFailsClosing(step) ==
  LET s == Lowest(Free) IN
  /\ listener = "constructed" /\ step = "setup" /\ s # -1
  /\ socketFileDescriptor' = s
  /\ bindFailed' = TRUE
  /\ UNCHANGED <<table, backlog, edge, epollFileDescriptor, listener, accepted,
                 acceptFailed, foreign>>

(* socket(); ioctl, bind and listen ("setup"); epoll_create1; epoll_ctl.    *)
(* The error returns close nothing.                                         *)
BindFails(step) ==
  LET s == IF step = "socket" THEN -1 ELSE Lowest(Free)
      e == IF step = "epoll_ctl" THEN Lowest(Free \ {s}) ELSE -1
  IN
  /\ listener = "constructed"
  /\ step # "socket" => s # -1
  /\ step = "epoll_ctl" => e # -1
  /\ socketFileDescriptor' = s
  /\ epollFileDescriptor' = IF step \in {"epoll_create1", "epoll_ctl"}
                            THEN e ELSE epollFileDescriptor
  /\ table' = [f \in Numbers |-> CASE f = s -> "socket" [] f = e -> "epoll"
                                   [] OTHER -> table[f]]
  /\ bindFailed' = TRUE
  /\ UNCHANGED <<backlog, edge, listener, accepted, acceptFailed, foreign>>

Bind ==
  LET s == Lowest(Free)
      e == Lowest(Free \ {s})
  IN
  /\ listener = "constructed" /\ Cardinality(Free) >= 2
  /\ socketFileDescriptor' = s /\ epollFileDescriptor' = e
  /\ table' = [table EXCEPT ![s] = "socket", ![e] = "epoll"]
  /\ listener' = "bound"
  /\ UNCHANGED <<backlog, edge, accepted, bindFailed, acceptFailed, foreign>>

(* A connection is established as soon as the socket listens. *)
ClientConnects(c) ==
  /\ listener \in {"bound", "wait", "accept", "epollClosed"}
  /\ socketFileDescriptor \in Numbers
  /\ table[socketFileDescriptor] = "socket" /\ ~ acceptFailed
  /\ c \notin accepted /\ \A i \in 1 .. Len(backlog) : backlog[i] # c
  /\ \A f \in Numbers : table[f] # c
  /\ backlog' = Append(backlog, c)
  /\ edge' = (listener # "epollClosed")
  /\ UNCHANGED <<table, socketFileDescriptor, epollFileDescriptor, listener,
                 accepted, bindFailed, acceptFailed, foreign>>

StartListening ==
  /\ listener = "bound"
  /\ listener' = "wait"
  /\ UNCHANGED <<table, backlog, edge, socketFileDescriptor, epollFileDescriptor,
                 accepted, bindFailed, acceptFailed, foreign>>

(* epoll_wait; without an event, or with a number that is not an epoll      *)
(* descriptor, the loop calls it again.                                     *)
ListenerWakes ==
  /\ listener = "wait" /\ edge
  /\ table[epollFileDescriptor] = "epoll" /\ ~ acceptFailed
  /\ listener' = "accept" /\ edge' = FALSE
  /\ UNCHANGED <<table, backlog, socketFileDescriptor, epollFileDescriptor,
                 accepted, bindFailed, acceptFailed, foreign>>

(* Mutant: one client per event. *)
AcceptClientOnce(c) ==
  /\ listener = "accept" /\ backlog # <<>> /\ Head(backlog) = c /\ Free # {}
  /\ table' = [table EXCEPT ![Lowest(Free)] = c]
  /\ backlog' = Tail(backlog)
  /\ accepted' = accepted \cup {c}
  /\ listener' = "wait"
  /\ UNCHANGED <<edge, socketFileDescriptor, epollFileDescriptor, bindFailed,
                 acceptFailed, foreign>>

(* accept4 succeeds and eventLoop->Accept registers the connection. *)
AcceptClient(c) ==
  /\ listener = "accept" /\ backlog # <<>> /\ Head(backlog) = c /\ Free # {}
  /\ table' = [table EXCEPT ![Lowest(Free)] = c]
  /\ backlog' = Tail(backlog)
  /\ accepted' = accepted \cup {c}
  /\ UNCHANGED <<edge, socketFileDescriptor, epollFileDescriptor, listener, bindFailed,
                 acceptFailed, foreign>>

(* EAGAIN. *)
AcceptAgain ==
  /\ listener = "accept" /\ backlog = <<>>
  /\ listener' = "wait"
  /\ UNCHANGED <<table, backlog, edge, socketFileDescriptor, epollFileDescriptor,
                 accepted, bindFailed, acceptFailed, foreign>>

(* Any other error of accept4 (no free number, a client that has gone): the *)
(* listening socket, event.data.fd, and the epoll descriptor are closed and *)
(* the loop goes back to epoll_wait with a number that is no longer its own *)
(* (the first number closed is the lower one, so closing both in one step   *)
(* hands out the same numbers).                                             *)
AcceptFails ==
  /\ listener = "accept" /\ backlog # <<>>
  /\ table' = Closed({socketFileDescriptor, epollFileDescriptor})
  /\ backlog' = <<>> /\ edge' = FALSE
  /\ listener' = "wait" /\ acceptFailed' = TRUE
  /\ UNCHANGED <<socketFileDescriptor, epollFileDescriptor, accepted, bindFailed, foreign>>

(* After accept4 has failed, the number of the epoll descriptor may have    *)
(* been given to the epoll descriptor of another event loop.  epoll_wait    *)
(* then takes an event of that loop, accept4 fails on a number that is no   *)
(* listening socket, and that loop's descriptor is closed.  event.data.fd   *)
(* is half of a pointer then, which is taken to be no open number.          *)
ListenerMisled ==
  /\ listener = "wait" /\ acceptFailed
  /\ table[epollFileDescriptor] = "otherloop"
  /\ CloseNumber(epollFileDescriptor)
  /\ UNCHANGED <<backlog, edge, socketFileDescriptor, epollFileDescriptor, listener,
                 accepted, bindFailed, acceptFailed>>

(* The destructor, while other threads open and close descriptors.          *)
(* StartListening does not return, so it runs before StartListening or not  *)
(* at all.                                                                  *)
DestroyClosesEpoll ==
  /\ listener \in {"constructed", "bound"}
  /\ CloseNumber(epollFileDescriptor)
  /\ listener' = "epollClosed" /\ edge' = FALSE
  /\ UNCHANGED <<backlog, socketFileDescriptor, epollFileDescriptor, accepted, bindFailed,
                 acceptFailed>>

DestroyClosesSocket ==
  /\ listener = "epollClosed"
  /\ CloseNumber(socketFileDescriptor)
  /\ listener' = "socketClosed" /\ backlog' = <<>>
  /\ UNCHANGED <<edge, socketFileDescriptor, epollFileDescriptor, accepted, bindFailed,
                 acceptFailed>>

(* delete eventLoop, whose destructor closes number 1. *)
DestroyDeletesLoop ==
  /\ listener = "socketClosed"
  /\ table' = Closed({1})
  /\ listener' = "destroyed"
  /\ UNCHANGED <<backlog, edge, socketFileDescriptor, epollFileDescriptor, accepted,
                 bindFailed, acceptFailed, foreign>>

-----------------------------------------------------------------------------
(* UnixConnector, on a thread of the application. *)

(* ioctl(FIONBIO) is called without its argument.  It fails, or sets the    *)
(* socket to non-blocking, or leaves it blocking; a non-blocking connect    *)
(* fails with EINPROGRESS.  So a socket that is connected is blocking.      *)
Connect(r) ==
  /\ r \in Servers /\ Free # {} /\ listener # "destroyed"
  /\ \A f \in Numbers : table[f] # r
  /\ table' = [table EXCEPT ![Lowest(Free)] = r]
  /\ UNCHANGED <<backlog, edge, socketFileDescriptor, epollFileDescriptor, listener,
                 accepted, bindFailed, acceptFailed, foreign>>

(* The error returns leave the socket open. *)
ConnectFails ==
  /\ Free # {} /\ listener # "destroyed"
  /\ table' = [table EXCEPT ![Lowest(Free)] = "unconnected"]
  /\ UNCHANGED <<backlog, edge, socketFileDescriptor, epollFileDescriptor, listener,
                 accepted, bindFailed, acceptFailed, foreign>>

(* EpollEventLoop::NewEventLoop: the application makes another event loop. *)
OtherLoop ==
  /\ Free # {} /\ listener # "destroyed"
  /\ table' = [table EXCEPT ![Lowest(Free)] = "otherloop"]
  /\ UNCHANGED <<backlog, edge, socketFileDescriptor, epollFileDescriptor, listener,
                 accepted, bindFailed, acceptFailed, foreign>>

(* The event loop deletes the connection, or Accept could not register it.  *)
ConnectionClosed(p) ==
  /\ \E f \in Numbers : table[f] = p
  /\ table' = [f \in Numbers |-> IF table[f] = p THEN "free" ELSE table[f]]
  /\ UNCHANGED <<backlog, edge, socketFileDescriptor, epollFileDescriptor, listener,
                 accepted, bindFailed, acceptFailed, foreign>>

-----------------------------------------------------------------------------
(* Properties. *)

ListenerTypeOK ==
  /\ table \in [Numbers -> Peers \cup Others]
  /\ backlog \in Seq(Clients)
  /\ socketFileDescriptor \in -1 .. Descriptors - 1
  /\ epollFileDescriptor \in -1 .. Descriptors - 1
  /\ listener \in {"constructed", "bound", "wait", "accept", "epollClosed",
                   "socketClosed", "destroyed"}

(* A listener that is bound reaches its own socket and epoll descriptor     *)
(* through its numbers until accept4 fails; a socket nobody can close is    *)
(* left behind only by a Bind that has failed.  The listener closes what is *)
(* not its own in these cases only: its destructor closes number 0 if no    *)
(* Bind has got as far as epoll_create1, which is standard input, and once  *)
(* more if none was called at all, which is then what another thread has    *)
(* opened in between; and after accept4 has failed its thread may close the *)
(* epoll descriptor of another event loop.                                  *)
ListenerDescriptors ==
  /\ listener \in {"bound", "wait", "accept"} /\ ~ acceptFailed =>
       /\ table[socketFileDescriptor] = "socket"
       /\ table[epollFileDescriptor] = "epoll"
  /\ \A f \in Numbers :
       table[f] \in {"socket", "epoll"} =>
         \/ f \in {socketFileDescriptor, epollFileDescriptor}
         \/ bindFailed
  /\ ~ acceptFailed =>
       /\ foreign # {} => epollFileDescriptor = 0
       /\ foreign \ {"stdin"} # {} => socketFileDescriptor = 0
  /\ acceptFailed => foreign \subseteq {"otherloop"}
=============================================================================
