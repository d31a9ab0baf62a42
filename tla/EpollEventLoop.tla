---------------------------- MODULE EpollEventLoop ----------------------------
(***************************************************************************)
(* EpollEventLoop (ShipNet/network/eventloop/EpollEventLoop.cpp) with the  *)
(* Connection objects it owns, their UnixReadWriteCloser, the threads that *)
(* call Accept (listeners and connectors), the peers and the part of the   *)
(* kernel it relies on: the file descriptor table and an edge-triggered    *)
(* epoll instance.                                                         *)
(*                                                                         *)
(* A connection id names the Connection object, its UnixReadWriteCloser    *)
(* and the socket it was made for; the code reaches a socket only through  *)
(* a descriptor number and an object only through a pointer, and both can  *)
(* be stale: numbers are reused, objects are deleted.                      *)
(***************************************************************************)
EXTENDS Integers, FiniteSets, Sequences

CONSTANTS
  Conns,         \* connections that can be made
  Fds,           \* descriptor numbers
  None,          \* no connection, no socket
  Acceptors,     \* threads that call EpollEventLoop::Accept
  MaxEvents,     \* maxEvents: events taken by one epoll_wait
  MaxInbox,      \* chunks of bytes the receive buffer of a socket holds
  Blocking,      \* connections whose socket blocks: those of UnixConnector
  Interference   \* what may happen while events are being handled

(* "fin":   a peer closes after its event was taken, before it is drained.  *)
(* "close": application code on the loop thread (a packet handler, a task,  *)
(*          an onClose callback) calls Close(), or Write() does after       *)
(*          ECONNRESET.                                                     *)
InterferenceKinds == {"fin", "close"}

ASSUME NoneAssumption == None \notin Conns /\ None \notin Fds
ASSUME MaxAssumption == MaxEvents \in Nat \ {0} /\ MaxInbox \in Nat \ {0}
ASSUME BlockingAssumption == Blocking \subseteq Conns
ASSUME InterferenceAssumption == Interference \subseteq InterferenceKinds

VARIABLES
  fdTable,       \* kernel: the socket every descriptor number refers to
  inbox,         \* kernel: chunks received and not read
  peer,          \* peer: "open", "fin" (orderly shutdown) or "rst" (reset)
  dataPtr,       \* epoll: event.data.ptr of every socket in the interest list
  ready,         \* epoll: sockets with an edge not yet reported
  obj,           \* Connection object: "none", "alive" or "deleted"
  fd,            \* socketFileDescriptor of its UnixReadWriteCloser
  closed,        \* closed of its UnixReadWriteCloser
  epollEvent,    \* epollEvent.data.ptr, a member all Accept calls share
  accepting,     \* the connection each acceptor thread is registering
  pc,            \* where StartLoop is
  batch,         \* events[i..amount-1]: the events still to be handled
  connection,    \* the connection being drained
  disconnected,  \* the local variable of that name
  dropped        \* ghost: connections whose last event was not handled

kernelVars == <<fdTable, inbox, peer, dataPtr, ready>>
objectVars == <<obj, fd, closed>>
acceptVars == <<epollEvent, accepting>>
loopVars == <<pc, batch, connection, disconnected, dropped>>
vars == <<kernelVars, objectVars, acceptVars, loopVars>>

Init ==
  /\ fdTable = [f \in Fds |-> None]
  /\ inbox = [c \in Conns |-> 0]
  /\ peer = [c \in Conns |-> "open"]
  /\ dataPtr = [c \in Conns |-> None]
  /\ ready = {}
  /\ obj = [c \in Conns |-> "none"]
  /\ fd = [c \in Conns |-> None]
  /\ closed = [c \in Conns |-> FALSE]
  /\ epollEvent = None
  /\ accepting = [a \in Acceptors |-> None]
  /\ pc = "tasks"
  /\ batch = <<>>
  /\ connection = None
  /\ disconnected = FALSE
  /\ dropped = {}

-----------------------------------------------------------------------------
(* The kernel. *)

Open(s) == \E f \in Fds : fdTable[f] = s

(* EPOLLIN or EPOLLRDHUP would be reported. *)
HasEvent(s) == inbox[s] > 0 \/ peer[s] # "open"

(* Something arrived at socket s: an edge if s is in the interest list. *)
Edge(s) == ready' = IF dataPtr[s] # None THEN ready \cup {s} ELSE ready

(* Mutant: closed is not looked at. *)
unixCloseAgain(D) ==
  LET numbers == {fd[c] : c \in D}
      sockets == {fdTable[f] : f \in numbers \ {None}}
  IN
  /\ closed' = [c \in Conns |-> closed[c] \/ c \in D]
  /\ fdTable' = [f \in Fds |-> IF f \in numbers THEN None ELSE fdTable[f]]
  /\ dataPtr' = [s \in Conns |-> IF s \in sockets THEN None ELSE dataPtr[s]]
  /\ ready' = ready \ sockets

(* unixClose of the connections in D: close(fd) unless closed.  The kernel *)
(* takes the socket behind the number out of the table and out of epoll.   *)
unixClose(D) ==
  LET numbers == {fd[c] : c \in {d \in D : ~ closed[d]}}
      sockets == {fdTable[f] : f \in numbers \ {None}}
  IN
  /\ closed' = [c \in Conns |-> closed[c] \/ c \in D]
  /\ fdTable' = [f \in Fds |-> IF f \in numbers THEN None ELSE fdTable[f]]
  /\ dataPtr' = [s \in Conns |-> IF s \in sockets THEN None ELSE dataPtr[s]]
  /\ ready' = ready \ sockets

(* The connections one run of application code may close: none or one. *)
MayClose ==
  {{}} \cup {{c} : c \in {d \in Conns : obj[d] = "alive" /\ "close" \in Interference}}

(* Mutant: the destructor forgets its readWriteCloser. *)
DeleteLeavesSocket(c, D) ==
  /\ obj' = [obj EXCEPT ![c] = "deleted"]
  /\ unixClose(D)
  /\ UNCHANGED fd

(* delete connection: the destructor runs onClose(), which may close the    *)
(* connections in D, and deletes the UnixReadWriteCloser.                   *)
Delete(c, D) ==
  /\ obj' = [obj EXCEPT ![c] = "deleted"]
  /\ unixClose(D \cup {c})
  /\ UNCHANGED fd

-----------------------------------------------------------------------------
(* EpollEventLoop::Accept, on the thread of a listener or a connector. *)

(* accept4 or connect gives a descriptor, NewConnection an object, and its *)
(* pointer goes to the shared epollEvent.                                  *)
AcceptNew(a, c, f) ==
  /\ accepting[a] = None /\ obj[c] = "none" /\ fdTable[f] = None
  /\ fdTable' = [fdTable EXCEPT ![f] = c]
  /\ obj' = [obj EXCEPT ![c] = "alive"]
  /\ fd' = [fd EXCEPT ![c] = f]
  /\ epollEvent' = c
  /\ accepting' = [accepting EXCEPT ![a] = c]
  /\ UNCHANGED <<inbox, peer, dataPtr, ready, closed, loopVars>>

(* epoll_ctl(EPOLL_CTL_ADD, fileDescriptor, &epollEvent) succeeds. *)
AcceptAdd(a) ==
  LET s == fdTable[fd[accepting[a]]] IN
  /\ accepting[a] # None /\ s # None
  /\ dataPtr' = [dataPtr EXCEPT ![s] = epollEvent]
  /\ ready' = IF HasEvent(s) THEN ready \cup {s} ELSE ready
  /\ accepting' = [accepting EXCEPT ![a] = None]
  /\ UNCHANGED <<fdTable, inbox, peer, objectVars, epollEvent, loopVars>>

(* epoll_ctl fails: the connection epollEvent points to is deleted. *)
AcceptFail(a, D) ==
  /\ accepting[a] # None /\ D \in MayClose
  /\ Delete(epollEvent, D)
  /\ accepting' = [accepting EXCEPT ![a] = None]
  /\ UNCHANGED <<inbox, peer, epollEvent, loopVars>>

-----------------------------------------------------------------------------
(* The peers. *)

PeerSend(c) ==
  /\ Open(c) /\ peer[c] = "open" /\ inbox[c] < MaxInbox
  /\ inbox' = [inbox EXCEPT ![c] = @ + 1]
  /\ Edge(c)
  /\ UNCHANGED <<fdTable, peer, dataPtr, objectVars, acceptVars, loopVars>>

(* c has an event that was taken without EPOLLRDHUP and is not drained. *)
InHand(c) ==
  \/ pc = "read" /\ connection = c
  \/ \E i \in 1 .. Len(batch) : batch[i].ptr = c /\ ~ batch[i].rdhup

PeerClose(c, how) ==
  /\ Open(c) /\ peer[c] = "open"
  /\ "fin" \in Interference \/ ~ InHand(c)
  /\ peer' = [peer EXCEPT ![c] = how]
  /\ Edge(c)
  /\ UNCHANGED <<fdTable, inbox, dataPtr, objectVars, acceptVars, loopVars>>

-----------------------------------------------------------------------------
(* StartLoop. *)

(* The tasks queued with Execute and Delay. *)
ProceedTasks(D) ==
  /\ pc = "tasks" /\ D \in MayClose
  /\ unixClose(D)
  /\ pc' = "wait"
  /\ UNCHANGED <<inbox, peer, obj, fd, acceptVars, batch, connection,
                 disconnected, dropped>>

Event(s) == [ptr |-> dataPtr[s], rdhup |-> peer[s] # "open"]

(* epoll_wait reports up to maxEvents of the ready sockets that still have *)
(* an event, in some order, and forgets their edges.  The variable         *)
(* disconnected is declared here without a value.                          *)
EpollWait(reported) ==
  LET able == {s \in ready : HasEvent(s)} IN
  /\ pc = "wait" /\ able # {}
  /\ Len(reported) = IF Cardinality(able) < MaxEvents THEN Cardinality(able)
                                                      ELSE MaxEvents
  /\ \A i \in 1 .. Len(reported) : reported[i] \in able
  /\ \A i, j \in 1 .. Len(reported) : reported[i] = reported[j] => i = j
  /\ ready' = {s \in able : \A i \in 1 .. Len(reported) : reported[i] # s}
  /\ batch' = [i \in 1 .. Len(reported) |-> Event(reported[i])]
  /\ pc' = "events"
  /\ disconnected' \in BOOLEAN
  /\ dropped' = {c \in dropped : \A i \in 1 .. Len(batch') : batch'[i].ptr # c}
  /\ UNCHANGED <<fdTable, inbox, peer, dataPtr, objectVars, acceptVars,
                 connection>>

(* The timeout of epoll_wait. *)
EpollTimeout ==
  /\ pc = "wait" /\ \A s \in ready : ~ HasEvent(s)
  /\ pc' = "tasks"
  /\ UNCHANGED <<kernelVars, objectVars, acceptVars, batch, connection, disconnected,
                 dropped>>

(* Mutant: the event is passed over. *)
HandleRdHupIgnored(D) ==
  /\ pc = "events" /\ batch # <<>> /\ Head(batch).rdhup /\ D \in MayClose
  /\ batch' = Tail(batch)
  /\ UNCHANGED <<kernelVars, objectVars, acceptVars, pc, connection, disconnected,
                 dropped>>

HandleRdHup(D) ==
  /\ pc = "events" /\ batch # <<>> /\ Head(batch).rdhup /\ D \in MayClose
  /\ Delete(Head(batch).ptr, D)
  /\ batch' = Tail(batch)
  /\ UNCHANGED <<inbox, peer, acceptVars, pc, connection, disconnected, dropped>>

StartDrain ==
  /\ pc = "events" /\ batch # <<>> /\ ~ Head(batch).rdhup
  /\ connection' = Head(batch).ptr
  /\ batch' = Tail(batch)
  /\ pc' = "read"
  /\ UNCHANGED <<kernelVars, objectVars, acceptVars, disconnected, dropped>>

EndOfBatch ==
  /\ pc = "events" /\ batch = <<>>
  /\ pc' = "tasks"
  /\ UNCHANGED <<kernelVars, objectVars, acceptVars, batch, connection, disconnected,
                 dropped>>

(* The socket read() acts on. *)
Source == fdTable[fd[connection]]

(* Leaving the for loop drops the events that are left. *)
LeaveDrain(leave) ==
  /\ pc' = IF leave THEN "tasks" ELSE "events"
  /\ batch' = IF leave THEN <<>> ELSE batch
  /\ disconnected' = leave
  /\ connection' = None
  /\ dropped' = IF leave THEN dropped \cup {batch[i].ptr : i \in 1 .. Len(batch)}
                         ELSE dropped

(* Mutant: one read per event. *)
ReadBytesOnce(n, D) ==
  /\ pc = "read" /\ ~ closed[connection]
  /\ n \in 1 .. inbox[Source] /\ D \in MayClose
  /\ inbox' = [inbox EXCEPT ![Source] = @ - n]
  /\ unixClose(D)
  /\ LeaveDrain(FALSE)
  /\ UNCHANGED <<peer, obj, fd, acceptVars>>

(* Mutant: one chunk too many is counted as read. *)
ReadBytesOffByOne(n, D) ==
  /\ pc = "read" /\ ~ closed[connection]
  /\ n \in 1 .. inbox[Source] /\ D \in MayClose
  /\ inbox' = [inbox EXCEPT ![Source] = @ - n - 1]
  /\ unixClose(D)
  /\ UNCHANGED <<peer, obj, fd, acceptVars, loopVars>>

(* Read copies n chunks, HandleNewBytes may end in Close. *)
ReadBytes(n, D) ==
  /\ pc = "read" /\ ~ closed[connection]
  /\ n \in 1 .. inbox[Source] /\ D \in MayClose
  /\ inbox' = [inbox EXCEPT ![Source] = @ - n]
  /\ unixClose(D)
  /\ UNCHANGED <<peer, obj, fd, acceptVars, loopVars>>

(* Read returns SuccessErrorable(0), after Close or at the end of the      *)
(* stream; HandleNewBytes gets 0 bytes, and the loop reads again.          *)
ReadNothing(D) ==
  /\ pc = "read" /\ D \in MayClose
  /\ ~ closed[connection] => inbox[Source] = 0 /\ peer[Source] = "fin"
  /\ unixClose(D)
  /\ UNCHANGED <<inbox, peer, obj, fd, acceptVars, loopVars>>

(* Nothing to read yet.  There is no step for a socket that blocks: read()  *)
(* does not return before the peer sends or closes.                         *)
ReadEagain ==
  /\ pc = "read" /\ ~ closed[connection] /\ Source \notin Blocking
  /\ inbox[Source] = 0 /\ peer[Source] = "open"
  /\ LeaveDrain(disconnected)
  /\ UNCHANGED <<kernelVars, objectVars, acceptVars>>

ReadError(D) ==
  /\ pc = "read" /\ ~ closed[connection] /\ D \in MayClose
  /\ inbox[Source] = 0 /\ peer[Source] = "rst"
  /\ Delete(connection, D)
  /\ LeaveDrain(TRUE)
  /\ UNCHANGED <<inbox, peer, acceptVars>>

-----------------------------------------------------------------------------
Accept == \E a \in Acceptors :
  \/ \E c \in Conns, f \in Fds : AcceptNew(a, c, f)
  \/ AcceptAdd(a)
  \/ \E D \in MayClose : AcceptFail(a, D)

Peer == \E c \in Conns : PeerSend(c) \/ PeerClose(c, "fin") \/ PeerClose(c, "rst")

StartLoop ==
  \/ \E D \in MayClose : ProceedTasks(D)
  \/ \E n \in 1 .. MaxEvents : \E reported \in [1 .. n -> ready] : EpollWait(reported)
  \/ EpollTimeout
  \/ \E D \in MayClose : HandleRdHup(D)
  \/ StartDrain
  \/ EndOfBatch
  \/ \E n \in 1 .. MaxInbox, D \in MayClose : ReadBytes(n, D)
  \/ \E D \in MayClose : ReadNothing(D)
  \/ ReadEagain
  \/ \E D \in MayClose : ReadError(D)

Next == Accept \/ Peer \/ StartLoop

Spec == Init /\ [][Next]_vars

(* The loop thread runs, application code on it returns, and a thread      *)
(* inside Accept comes out of it; peers promise nothing.                   *)
Fairness ==
  /\ WF_vars(StartLoop)
  /\ \A a \in Acceptors : WF_vars(AcceptAdd(a) \/ \E D \in MayClose : AcceptFail(a, D))

FairSpec == Spec /\ Fairness

-----------------------------------------------------------------------------
(* Properties. *)

TypeOK ==
  /\ fdTable \in [Fds -> Conns \cup {None}]
  /\ inbox \in [Conns -> 0 .. MaxInbox]
  /\ peer \in [Conns -> {"open", "fin", "rst"}]
  /\ dataPtr \in [Conns -> Conns \cup {None}]
  /\ ready \subseteq Conns
  /\ obj \in [Conns -> {"none", "alive", "deleted"}]
  /\ fd \in [Conns -> Fds \cup {None}]
  /\ closed \in [Conns -> BOOLEAN]
  /\ epollEvent \in Conns \cup {None}
  /\ accepting \in [Acceptors -> Conns \cup {None}]
  /\ pc \in {"tasks", "wait", "events", "read"}
  /\ batch \in Seq([ptr : Conns, rdhup : BOOLEAN])
  /\ connection \in Conns \cup {None}
  /\ disconnected \in BOOLEAN
  /\ dropped \subseteq Conns

(* No pointer the code will follow leads to a deleted Connection: neither   *)
(* the events still in the batch, nor the connection being drained, nor     *)
(* what epoll will report, nor what a failing Accept would delete; and no   *)
(* two events of a batch lead to the same one (it would be deleted twice).  *)
NoUseAfterFree ==
  /\ \A i \in 1 .. Len(batch) : obj[batch[i].ptr] = "alive"
  /\ \A i, j \in 1 .. Len(batch) : batch[i].ptr = batch[j].ptr => i = j
  /\ pc = "read" =>
       /\ obj[connection] = "alive"
       /\ \A i \in 1 .. Len(batch) : batch[i].ptr # connection
  /\ \A s \in Conns : dataPtr[s] # None => obj[dataPtr[s]] = "alive"
  /\ \A a \in Acceptors : accepting[a] # None => obj[epollEvent] = "alive"

(* A UnixReadWriteCloser that is not closed owns its descriptor number: the *)
(* number refers to the socket it was made for, however often numbers are   *)
(* closed and handed out again; a closed or deleted one owns no number, so  *)
(* nothing it does can reach the socket of another connection.              *)
DescriptorOwnership ==
  /\ \A c \in Conns :
       obj[c] # "none" /\ ~ closed[c] => fd[c] # None /\ fdTable[fd[c]] = c
  /\ \A f \in Fds, c \in Conns :
       fdTable[f] = c => obj[c] = "alive" /\ ~ closed[c] /\ fd[c] = f

(* The drain loop reads 0 bytes from a connection that was closed, or whose *)
(* stream has ended, and reads again.                                       *)
Spinning ==
  /\ pc = "read"
  /\ closed[connection] \/ (inbox[Source] = 0 /\ peer[Source] = "fin")

(* The drain waits in read() for a peer that says nothing. *)
Blocked ==
  /\ pc = "read" /\ ~ closed[connection] /\ Source \in Blocking
  /\ inbox[Source] = 0 /\ peer[Source] = "open"

(* The drain has something to read. *)
Reading == pc = "read" /\ ~ closed[connection] /\ inbox[Source] > 0

(* A drain that peers keep from ending: the peer of a blocking socket stays *)
(* silent, or the peer of any socket sends again and again before it is     *)
(* empty.                                                                   *)
HeldByPeer == <>[]Blocked \/ (<>[](pc = "read") /\ []<>Reading)

(* Data that reached a registered connection is read by the loop: no edge   *)
(* of the edge-triggered epoll is lost, unless the connection is closed or  *)
(* deleted before, its event was in the part of a batch that the flag       *)
(* disconnected cut off, or a drain never ends: it spins, or a peer holds   *)
(* it.                                                                      *)
DataServed ==
  \/ HeldByPeer
  \/ \A c \in Conns :
       dataPtr[c] # None /\ inbox[c] > 0 ~>
         inbox[c] = 0 \/ closed[c] \/ c \in dropped \/ Spinning

(* After the peer has gone the Connection is deleted (and its onClose run), *)
(* with the same exceptions, unless somebody on this side has closed it     *)
(* first: that takes it out of epoll, and nobody deletes it.                *)
PeerGoneReaped ==
  \/ HeldByPeer
  \/ \A c \in Conns :
       peer[c] # "open" ~>
         \/ obj[c] = "deleted"
         \/ obj[c] = "alive" /\ closed[c]
         \/ c \in dropped \/ Spinning

(* After the peer has gone the Connection is deleted. *)
GoneConnectionsDeleted == \A c \in Conns : peer[c] # "open" ~> obj[c] = "deleted"
=============================================================================
