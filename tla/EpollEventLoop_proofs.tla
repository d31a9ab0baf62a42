------------------------- MODULE EpollEventLoop_proofs -------------------------
(***************************************************************************)
(* Pointers and descriptor numbers of EpollEventLoop, for any number of    *)
(* connections, numbers and events, as long as only one thread calls       *)
(* Accept (EpollEventLoop.cpp:16 shares epollEvent between all of them).   *)
(***************************************************************************)
EXTENDS EpollEventLoop, TLAPS

OneAcceptor == \A a, b \in Acceptors : a = b

(* A socket in the interest list carries the pointer to its own Connection, *)
(* which is neither closed nor deleted; only such a socket has an edge.     *)
Registered ==
  /\ ready \subseteq {s \in Conns : dataPtr[s] # None}
  /\ \A s \in Conns :
       dataPtr[s] # None => dataPtr[s] = s /\ obj[s] = "alive" /\ ~ closed[s]

(* Before its Connection exists a descriptor is not closed. *)
NotClosedEarly == \A c \in Conns : obj[c] = "none" => ~ closed[c]

(* The connection a thread is registering is the one epollEvent points to,  *)
(* nobody else has its pointer yet, and its number has not been given to    *)
(* another connection even if it was closed meanwhile.                      *)
AcceptInProgress ==
  \A a \in Acceptors : accepting[a] # None =>
    /\ epollEvent = accepting[a]
    /\ obj[accepting[a]] = "alive"
    /\ fd[accepting[a]] \in Fds
    /\ fdTable[fd[accepting[a]]] \in {accepting[a], None}
    /\ dataPtr[accepting[a]] = None
    /\ \A i \in 1 .. Len(batch) : batch[i].ptr # accepting[a]
    /\ pc = "read" => connection # accepting[a]

(* A drain has a connection. *)
Draining == pc = "read" => connection \in Conns

IInv ==
  /\ TypeOK
  /\ Registered /\ NotClosedEarly
  /\ AcceptInProgress /\ Draining
  /\ NoUseAfterFree /\ DescriptorOwnership

-----------------------------------------------------------------------------
(* The initial states. *)

LEMMA InitIInv == Init => IInv
<1> SUFFICES ASSUME Init PROVE IInv OBVIOUS
<1> USE MaxAssumption DEF Init
<1>1. TypeOK
  <2>1. /\ fdTable \in [Fds -> Conns \cup {None}]
        /\ inbox \in [Conns -> 0 .. MaxInbox]
        /\ fd \in [Conns -> Fds \cup {None}]
        /\ accepting \in [Acceptors -> Conns \cup {None}]
        /\ dataPtr \in [Conns -> Conns \cup {None}]
    OBVIOUS
  <2>2. /\ peer \in [Conns -> {"open", "fin", "rst"}]
        /\ obj \in [Conns -> {"none", "alive", "deleted"}]
        /\ closed \in [Conns -> BOOLEAN]
    BY Zenon
  <2>3. batch \in Seq([ptr : Conns, rdhup : BOOLEAN]) OBVIOUS
  <2> QED BY <2>1, <2>2, <2>3 DEF TypeOK
<1>2. Registered /\ NotClosedEarly /\ AcceptInProgress /\ Draining
  BY DEF Registered, NotClosedEarly, AcceptInProgress, Draining
<1>3. NoUseAfterFree BY DEF NoUseAfterFree
<1>4. DescriptorOwnership BY NoneAssumption DEF DescriptorOwnership
<1> QED BY <1>1, <1>2, <1>3, <1>4 DEF IInv

-----------------------------------------------------------------------------
(* close(), by what it does to the connections rather than to the numbers. *)

Closes(D) ==
  /\ closed' = [c \in Conns |-> closed[c] \/ c \in D]
  /\ fdTable' = [f \in Fds |-> IF fdTable[f] \in D THEN None ELSE fdTable[f]]
  /\ dataPtr' = [s \in Conns |-> IF s \in D THEN None ELSE dataPtr[s]]
  /\ ready' = ready \ D

(* unixClose of connections that are alive closes their own sockets and no  *)
(* other, since an open UnixReadWriteCloser owns its number.                *)
LEMMA UnixCloseIsOwn ==
  ASSUME IInv, NEW D, D \subseteq Conns, \A d \in D : obj[d] = "alive", unixClose(D)
  PROVE  Closes(D)
<1> DEFINE numbers == {fd[c] : c \in {d \in D : ~ closed[d]}}
           sockets == {fdTable[f] : f \in numbers \ {None}}
<1> USE NoneAssumption DEF IInv, TypeOK
<1>1. \A d \in D : ~ closed[d] => fd[d] \in Fds /\ fdTable[fd[d]] = d
  BY DEF DescriptorOwnership
<1>2. \A f \in Fds : f \in numbers <=> fdTable[f] \in D
  <2> SUFFICES ASSUME NEW f \in Fds PROVE f \in numbers <=> fdTable[f] \in D OBVIOUS
  <2>1. f \in numbers => fdTable[f] \in D BY <1>1
  <2>2. ASSUME fdTable[f] \in D PROVE f \in numbers
    BY <2>2 DEF DescriptorOwnership
  <2> QED BY <2>1, <2>2
<1>3. sockets = {d \in D : ~ closed[d]}
  <2>1. sockets \subseteq {d \in D : ~ closed[d]} BY <1>1
  <2>2. ASSUME NEW d \in D, ~ closed[d] PROVE d \in sockets
    <3>1. fd[d] \in numbers \ {None} BY <1>1, <2>2
    <3>2. d = fdTable[fd[d]] BY <1>1, <2>2
    <3> QED BY <3>1, <3>2, Zenon
  <2> QED BY <2>1, <2>2
<1>4. \A d \in D : closed[d] => dataPtr[d] = None /\ d \notin ready
  BY DEF Registered
<1>5. closed' = [c \in Conns |-> closed[c] \/ c \in D] BY DEF unixClose
<1>6. fdTable' = [f \in Fds |-> IF fdTable[f] \in D THEN None ELSE fdTable[f]]
  <2>1. fdTable' = [f \in Fds |-> IF f \in numbers THEN None ELSE fdTable[f]]
    BY DEF unixClose
  <2> HIDE DEF numbers
  <2> QED BY <2>1, <1>2
<1>7. dataPtr' = [s \in Conns |-> IF s \in D THEN None ELSE dataPtr[s]]
  <2>1. dataPtr' = [s \in Conns |-> IF s \in sockets THEN None ELSE dataPtr[s]]
    BY DEF unixClose
  <2> HIDE DEF sockets, numbers
  <2> QED BY <2>1, <1>3, <1>4
<1>8. ready' = ready \ D
  <2>1. ready' = ready \ sockets BY DEF unixClose
  <2> HIDE DEF sockets, numbers
  <2> QED BY <2>1, <1>3, <1>4
<1> QED BY <1>5, <1>6, <1>7, <1>8 DEF Closes

-----------------------------------------------------------------------------
(* Accept. *)

(* The conjuncts of IInv that are not about pointers. *)
Counters == NotClosedEarly /\ Draining

LEMMA AcceptNewKeeps ==
  ASSUME IInv, OneAcceptor, NEW a \in Acceptors, NEW c \in Conns, NEW f \in Fds,
         AcceptNew(a, c, f)
  PROVE  IInv'
<1> USE NoneAssumption DEF IInv
<1>1. TypeOK' BY DEF TypeOK, AcceptNew, loopVars
<1>2. Counters'
  BY DEF TypeOK, Counters, NotClosedEarly, Draining, AcceptNew, loopVars
<1>3. Registered' BY DEF TypeOK, Registered, AcceptNew
<1>4. AcceptInProgress'
  BY DEF TypeOK, AcceptInProgress, NoUseAfterFree, Registered, OneAcceptor, AcceptNew, loopVars
<1>5. NoUseAfterFree'
  BY DEF TypeOK, NoUseAfterFree, Registered, OneAcceptor, AcceptNew, loopVars
<1>6. DescriptorOwnership'
  BY DEF TypeOK, DescriptorOwnership, NotClosedEarly, AcceptNew
<1> QED BY <1>1, <1>2, <1>3, <1>4, <1>5, <1>6 DEF Counters

LEMMA AcceptAddKeeps ==
  ASSUME IInv, OneAcceptor, NEW a \in Acceptors, AcceptAdd(a)
  PROVE  IInv'
<1> USE NoneAssumption DEF IInv
<1> DEFINE c == accepting[a]
<1>1. c \in Conns /\ fdTable[fd[c]] = c /\ epollEvent = c
  BY DEF TypeOK, AcceptInProgress, AcceptAdd
<1>2. obj[c] = "alive" /\ ~ closed[c]
  BY <1>1 DEF TypeOK, AcceptInProgress, DescriptorOwnership
<1>3. /\ dataPtr' = [dataPtr EXCEPT ![c] = c]
      /\ ready' \in {ready, ready \cup {c}}
      /\ accepting' = [accepting EXCEPT ![a] = None]
      /\ UNCHANGED <<fdTable, inbox, peer, objectVars, epollEvent, loopVars>>
  BY <1>1 DEF AcceptAdd
<1> HIDE DEF c
<1>4. TypeOK' BY <1>1, <1>3 DEF TypeOK, objectVars, loopVars
<1>5. Counters'
  BY <1>3 DEF Counters, NotClosedEarly, Draining, objectVars, loopVars
<1>6. Registered' BY <1>1, <1>2, <1>3 DEF TypeOK, Registered, objectVars
<1>7. AcceptInProgress' BY <1>3 DEF TypeOK, AcceptInProgress, OneAcceptor
<1>8. NoUseAfterFree'
  BY <1>1, <1>2, <1>3 DEF TypeOK, NoUseAfterFree, OneAcceptor, objectVars, loopVars
<1>9. DescriptorOwnership' BY <1>3 DEF DescriptorOwnership, objectVars
<1> QED BY <1>4, <1>5, <1>6, <1>7, <1>8, <1>9 DEF Counters

-----------------------------------------------------------------------------
(* close and delete. *)

(* The state after a connection d was deleted, whose onClose closed those   *)
(* in D, as far as the kernel and objects go.                               *)
Deletes(d, D) ==
  /\ obj' = [obj EXCEPT ![d] = "deleted"]
  /\ Closes(D \cup {d})
  /\ UNCHANGED <<fd, inbox, peer>>

LEMMA DeleteIsOwn ==
  ASSUME IInv, NEW d \in Conns, obj[d] = "alive", NEW D \in MayClose, Delete(d, D),
         UNCHANGED <<inbox, peer>>
  PROVE  Deletes(d, D)
<1>1. D \cup {d} \subseteq Conns /\ \A c \in D \cup {d} : obj[c] = "alive"
  BY DEF MayClose
<1>2. Closes(D \cup {d}) BY <1>1, UnixCloseIsOwn DEF Delete
<1> QED BY <1>2 DEF Delete, Deletes

(* What closing does to the invariants that do not mention events. *)
LEMMA ClosesKeeps ==
  ASSUME IInv, NEW D, D \subseteq Conns, \A d \in D : obj[d] = "alive", Closes(D),
         UNCHANGED fd,
         \/ UNCHANGED obj
         \/ \E d \in D : obj' = [obj EXCEPT ![d] = "deleted"]
  PROVE  /\ fdTable' \in [Fds -> Conns \cup {None}]
         /\ dataPtr' \in [Conns -> Conns \cup {None}]
         /\ ready' \subseteq Conns
         /\ obj' \in [Conns -> {"none", "alive", "deleted"}]
         /\ closed' \in [Conns -> BOOLEAN]
         /\ Registered' /\ NotClosedEarly' /\ DescriptorOwnership'
<1> USE NoneAssumption DEF IInv
<1>6. /\ obj' \in [Conns -> {"none", "alive", "deleted"}]
      /\ \A c \in Conns : obj'[c] = obj[c] \/ (c \in D /\ obj'[c] = "deleted")
  <2>1. CASE UNCHANGED obj BY <2>1 DEF TypeOK
  <2>2. ASSUME NEW d \in D, obj' = [obj EXCEPT ![d] = "deleted"]
        PROVE  /\ obj' \in [Conns -> {"none", "alive", "deleted"}]
               /\ \A c \in Conns : obj'[c] = obj[c] \/ (c \in D /\ obj'[c] = "deleted")
    BY <2>2 DEF TypeOK
  <2> QED BY <2>1, <2>2
<1>1. closed' \in [Conns -> BOOLEAN] BY Zenon DEF Closes
<1>2. /\ fdTable' \in [Fds -> Conns \cup {None}]
      /\ dataPtr' \in [Conns -> Conns \cup {None}]
      /\ ready' \subseteq Conns
      /\ obj' \in [Conns -> {"none", "alive", "deleted"}]
  BY <1>6 DEF TypeOK, Closes
<1>3. Registered' BY <1>6, <1>2 DEF TypeOK, Registered, Closes
<1>4. NotClosedEarly' BY <1>6, <1>2 DEF TypeOK, NotClosedEarly, Closes
<1>5. DescriptorOwnership'
  <2>1. ASSUME NEW c \in Conns, obj'[c] # "none", ~ closed'[c]
        PROVE  fd'[c] # None /\ fdTable'[fd'[c]] = c
    <3>1. c \notin D /\ ~ closed[c] /\ obj[c] # "none" BY <1>6, <2>1 DEF TypeOK, Closes
    <3>2. fd[c] \in Fds /\ fdTable[fd[c]] = c
      BY <3>1 DEF TypeOK, DescriptorOwnership
    <3> QED BY <3>1, <3>2 DEF Closes
  <2>2. ASSUME NEW f \in Fds, NEW c \in Conns, fdTable'[f] = c
        PROVE  obj'[c] = "alive" /\ ~ closed'[c] /\ fd'[c] = f
    <3>1. fdTable[f] = c /\ c \notin D BY <2>2 DEF Closes
    <3>2. obj[c] = "alive" /\ ~ closed[c] /\ fd[c] = f
      BY <3>1 DEF DescriptorOwnership
    <3> QED BY <1>6, <3>1, <3>2 DEF Closes
  <2> QED BY <2>1, <2>2 DEF DescriptorOwnership
<1> QED BY <1>1, <1>2, <1>3, <1>4, <1>5

(* The same for a connection that is deleted. *)
LEMMA DeletesKeeps ==
  ASSUME IInv, NEW d \in Conns, obj[d] = "alive", NEW D \in MayClose, Deletes(d, D)
  PROVE  /\ fdTable' \in [Fds -> Conns \cup {None}]
         /\ dataPtr' \in [Conns -> Conns \cup {None}]
         /\ ready' \subseteq Conns
         /\ obj' \in [Conns -> {"none", "alive", "deleted"}]
         /\ closed' \in [Conns -> BOOLEAN]
         /\ Registered' /\ NotClosedEarly' /\ DescriptorOwnership'
<1> DEFINE E == D \cup {d}
<1>1. E \subseteq Conns /\ (\A c \in E : obj[c] = "alive") BY DEF MayClose
<1>2. d \in E /\ Closes(E) /\ fd' = fd /\ obj' = [obj EXCEPT ![d] = "deleted"]
  BY DEF Deletes
<1> HIDE DEF E
<1> QED BY <1>1, <1>2, ClosesKeeps

LEMMA AcceptFailKeeps ==
  ASSUME IInv, OneAcceptor, NEW a \in Acceptors, NEW D \in MayClose, AcceptFail(a, D)
  PROVE  IInv'
<1> USE NoneAssumption DEF IInv
<1> DEFINE c == accepting[a]
<1>1. c \in Conns /\ obj[c] = "alive" /\ epollEvent = c
  BY DEF TypeOK, AcceptInProgress, AcceptFail
<1>2. Deletes(c, D) BY <1>1, DeleteIsOwn DEF AcceptFail
<1>3. accepting' = [accepting EXCEPT ![a] = None] /\ UNCHANGED <<epollEvent, loopVars>>
  BY DEF AcceptFail
<1>4. \A i \in 1 .. Len(batch) : batch[i].ptr # c BY <1>1 DEF AcceptInProgress
<1>5. pc = "read" => connection # c BY <1>1 DEF AcceptInProgress
<1> HIDE DEF c
<1>6. /\ fdTable' \in [Fds -> Conns \cup {None}]
      /\ dataPtr' \in [Conns -> Conns \cup {None}]
      /\ ready' \subseteq Conns
      /\ obj' \in [Conns -> {"none", "alive", "deleted"}]
      /\ closed' \in [Conns -> BOOLEAN]
      /\ Registered' /\ NotClosedEarly' /\ DescriptorOwnership'
  BY <1>1, <1>2, DeletesKeeps
<1>7. TypeOK' BY <1>2, <1>3, <1>6 DEF TypeOK, Deletes, loopVars
<1>8. Draining' BY <1>3 DEF Draining, loopVars
<1>9. AcceptInProgress' BY <1>3 DEF TypeOK, AcceptInProgress, OneAcceptor
<1>10. NoUseAfterFree'
  BY <1>1, <1>2, <1>3, <1>4, <1>5, <1>6
     DEF TypeOK, NoUseAfterFree, Registered, OneAcceptor, Deletes, Draining, loopVars
<1> QED BY <1>6, <1>7, <1>8, <1>9, <1>10

-----------------------------------------------------------------------------
(* The peers. *)

LEMMA PeerSendKeeps ==
  ASSUME IInv, NEW c \in Conns, PeerSend(c)
  PROVE  IInv'
<1> USE NoneAssumption, MaxAssumption DEF IInv
<1>1. TypeOK'
  BY DEF TypeOK, PeerSend, Edge, objectVars, acceptVars, loopVars
<1>2. Counters'
  BY DEF TypeOK, Counters, NotClosedEarly, Draining, PeerSend,
         objectVars, loopVars
<1>3. Registered' BY DEF TypeOK, Registered, PeerSend, Edge, objectVars
<1>4. AcceptInProgress' /\ NoUseAfterFree' /\ DescriptorOwnership'
  BY DEF AcceptInProgress, NoUseAfterFree, DescriptorOwnership, PeerSend,
         objectVars, acceptVars, loopVars
<1> QED BY <1>1, <1>2, <1>3, <1>4 DEF Counters

LEMMA PeerCloseKeeps ==
  ASSUME IInv, NEW c \in Conns, NEW how \in {"fin", "rst"}, PeerClose(c, how)
  PROVE  IInv'
<1> USE NoneAssumption DEF IInv
<1>1. TypeOK' BY DEF TypeOK, PeerClose, Edge, objectVars, acceptVars, loopVars
<1>2. Counters'
  BY DEF Counters, NotClosedEarly, Draining, PeerClose,
         objectVars, loopVars
<1>3. Registered' BY DEF TypeOK, Registered, PeerClose, Edge, objectVars
<1>4. AcceptInProgress' /\ NoUseAfterFree' /\ DescriptorOwnership'
  BY DEF AcceptInProgress, NoUseAfterFree, DescriptorOwnership, PeerClose,
         objectVars, acceptVars, loopVars
<1> QED BY <1>1, <1>2, <1>3, <1>4 DEF Counters

-----------------------------------------------------------------------------
(* StartLoop. *)

(* A step that closes connections, deletes none, and leaves the events as   *)
(* they are, or has none and no drain afterwards.                           *)
LEMMA CloseStepKeeps ==
  ASSUME IInv, NEW D \in MayClose, unixClose(D),
         inbox' \in [Conns -> 0 .. MaxInbox],
         UNCHANGED <<peer, obj, fd, acceptVars, batch, connection, disconnected, dropped>>,
         pc' = pc \/ pc' = "wait"
  PROVE  IInv'
<1> USE NoneAssumption DEF IInv
<1>1. D \subseteq Conns /\ \A d \in D : obj[d] = "alive" BY DEF MayClose
<1>2. Closes(D) BY <1>1, UnixCloseIsOwn
<1>3. /\ fdTable' \in [Fds -> Conns \cup {None}]
      /\ dataPtr' \in [Conns -> Conns \cup {None}]
      /\ ready' \subseteq Conns
      /\ closed' \in [Conns -> BOOLEAN]
      /\ Registered' /\ NotClosedEarly' /\ DescriptorOwnership'
  BY <1>1, <1>2, ClosesKeeps
<1>4. TypeOK' BY <1>3 DEF TypeOK, acceptVars
<1>5. Draining' BY DEF Draining
<1>6. AcceptInProgress' BY <1>2 DEF TypeOK, AcceptInProgress, Closes, acceptVars
<1>7. NoUseAfterFree' BY <1>3 DEF TypeOK, NoUseAfterFree, Registered, acceptVars
<1> QED BY <1>3, <1>4, <1>5, <1>6, <1>7

LEMMA ProceedTasksKeeps ==
  ASSUME IInv, NEW D, ProceedTasks(D)
  PROVE  IInv'
<1>1. inbox' \in [Conns -> 0 .. MaxInbox]
  BY DEF IInv, TypeOK, ProceedTasks
<1> QED BY <1>1, CloseStepKeeps DEF ProceedTasks

(* The events of one epoll_wait carry pointers to different connections,    *)
(* all alive and none of them being registered.                             *)
LEMMA EpollWaitKeeps ==
  ASSUME IInv, NEW n \in 1 .. MaxEvents, NEW reported \in [1 .. n -> ready],
         EpollWait(reported)
  PROVE  IInv'
<1> USE NoneAssumption DEF IInv
<1>1. n \in Nat /\ Len(reported) = n BY MaxAssumption
<1>2. \A i \in 1 .. n :
        /\ reported[i] \in ready /\ reported[i] \in Conns
        /\ dataPtr[reported[i]] = reported[i] /\ obj[reported[i]] = "alive"
  BY DEF TypeOK, Registered
<1>3. \A i \in 1 .. n :
        Event(reported[i]) = [ptr |-> reported[i], rdhup |-> peer[reported[i]] # "open"]
  BY <1>2 DEF Event
<1>4. batch' = [i \in 1 .. n |-> [ptr |-> reported[i], rdhup |-> peer[reported[i]] # "open"]]
  BY <1>1, <1>3 DEF EpollWait
<1>5. batch' \in Seq([ptr : Conns, rdhup : BOOLEAN]) /\ Len(batch') = n
  <2>1. \A i \in 1 .. n : (peer[reported[i]] # "open") \in BOOLEAN BY Zenon
  <2>2. \A i \in 1 .. n : [ptr |-> reported[i], rdhup |-> peer[reported[i]] # "open"]
                           \in [ptr : Conns, rdhup : BOOLEAN]
    BY <1>2, <2>1
  <2> QED BY <1>1, <1>4, <2>2
<1>6. \A i \in 1 .. Len(batch') : batch'[i].ptr = reported[i] BY <1>4, <1>5
<1>7. \A i, j \in 1 .. n : reported[i] = reported[j] => i = j
  BY <1>1 DEF EpollWait
<1>8. /\ ready' \subseteq ready /\ dropped' \subseteq dropped /\ pc' = "events"
      /\ disconnected' \in BOOLEAN
      /\ UNCHANGED <<fdTable, inbox, peer, dataPtr, objectVars, acceptVars, connection>>
  BY DEF EpollWait
<1>9. TypeOK' BY <1>5, <1>8 DEF TypeOK, objectVars, acceptVars
<1>10. Counters'
  BY <1>8 DEF Counters, NotClosedEarly, Draining, objectVars
<1>11. Registered' /\ DescriptorOwnership'
  BY <1>8 DEF Registered, DescriptorOwnership, objectVars
<1>12. AcceptInProgress'
  <2>1. \A i \in 1 .. Len(batch') : dataPtr[batch'[i].ptr] = batch'[i].ptr /\ batch'[i].ptr # None
    BY <1>2, <1>5, <1>6
  <2>2. \A a \in Acceptors : accepting[a] # None =>
          \A i \in 1 .. Len(batch') : batch'[i].ptr # accepting[a]
    BY <2>1 DEF AcceptInProgress
  <2> QED BY <1>8, <2>2 DEF AcceptInProgress, objectVars, acceptVars
<1>13. NoUseAfterFree'
  BY <1>2, <1>5, <1>6, <1>7, <1>8 DEF NoUseAfterFree, objectVars, acceptVars
<1> QED BY <1>9, <1>10, <1>11, <1>12, <1>13 DEF Counters

Events == [ptr : Conns, rdhup : BOOLEAN]

(* The events of the next state are those of this one from the k-th on. *)
Suffix(k) ==
  /\ batch' \in Seq(Events)
  /\ \A i \in 1 .. Len(batch') : i + k \in 1 .. Len(batch) /\ batch'[i] = batch[i + k]

LEMMA BatchTyped ==
  ASSUME IInv
  PROVE  /\ batch \in Seq(Events)
         /\ Len(batch) \in Nat
         /\ \A i \in 1 .. Len(batch) : batch[i] \in Events /\ batch[i].ptr \in Conns
<1>1. batch \in Seq(Events) BY DEF IInv, TypeOK, Events
<1>2. \A e \in Events : e.ptr \in Conns BY DEF Events
<1> QED BY <1>1, <1>2

LEMMA SameBatch == ASSUME IInv, batch' = batch PROVE Suffix(0)
BY BatchTyped DEF Suffix

LEMMA EmptyBatch == ASSUME batch' = <<>> PROVE Suffix(0)
BY DEF Suffix

LEMMA HeadOfBatch ==
  ASSUME IInv, batch # <<>>
  PROVE  /\ 1 \in 1 .. Len(batch) /\ Head(batch) = batch[1]
         /\ batch' = Tail(batch) => Suffix(1)
<1>1. batch \in Seq(Events) BY BatchTyped
<1>2. 1 \in 1 .. Len(batch) /\ Head(batch) = batch[1] BY <1>1
<1>3. ASSUME batch' = Tail(batch) PROVE Suffix(1)
  <2>1. Tail(batch) \in Seq(Events) /\ Len(Tail(batch)) = Len(batch) - 1 BY <1>1
  <2>2. \A i \in 1 .. Len(Tail(batch)) :
          i + 1 \in 1 .. Len(batch) /\ Tail(batch)[i] = batch[i + 1]
    BY <1>1, <2>1
  <2> QED BY <1>3, <2>1, <2>2 DEF Suffix
<1> QED BY <1>2, <1>3

(* Steps that only move the loop on, without touching sockets or objects. *)
LEMMA LoopStepKeeps ==
  ASSUME IInv, UNCHANGED <<kernelVars, objectVars, acceptVars>>, Suffix(0),
         pc' \in {"tasks", "wait", "events"},
         connection' \in Conns \cup {None}, disconnected' \in BOOLEAN,
         dropped' \subseteq Conns
  PROVE  IInv'
<1> USE NoneAssumption DEF IInv
<1>1. TypeOK' BY DEF TypeOK, Suffix, Events, kernelVars, objectVars, acceptVars
<1>2. Counters'
  BY DEF Counters, NotClosedEarly, Draining, kernelVars, objectVars
<1>3. Registered' /\ DescriptorOwnership'
  BY DEF Registered, DescriptorOwnership, kernelVars, objectVars
<1>4. \A i \in 1 .. Len(batch') : i \in 1 .. Len(batch) /\ batch'[i] = batch[i]
  BY BatchTyped DEF Suffix
<1>5. AcceptInProgress'
  BY <1>4 DEF AcceptInProgress, kernelVars, objectVars, acceptVars
<1>6. NoUseAfterFree'
  BY <1>4 DEF NoUseAfterFree, kernelVars, objectVars, acceptVars
<1> QED BY <1>1, <1>2, <1>3, <1>5, <1>6 DEF Counters

LEMMA EpollTimeoutKeeps ==
  ASSUME IInv, EpollTimeout
  PROVE  IInv'
<1>1. Suffix(0) BY SameBatch DEF EpollTimeout
<1>2. connection' \in Conns \cup {None} /\ disconnected' \in BOOLEAN /\ dropped' \subseteq Conns
  BY DEF IInv, TypeOK, EpollTimeout
<1> QED BY <1>1, <1>2, LoopStepKeeps DEF EpollTimeout

LEMMA EndOfBatchKeeps ==
  ASSUME IInv, EndOfBatch
  PROVE  IInv'
<1>1. Suffix(0) BY SameBatch DEF EndOfBatch
<1>2. connection' \in Conns \cup {None} /\ disconnected' \in BOOLEAN /\ dropped' \subseteq Conns
  BY DEF IInv, TypeOK, EndOfBatch
<1> QED BY <1>1, <1>2, LoopStepKeeps DEF EndOfBatch

LEMMA HandleRdHupKeeps ==
  ASSUME IInv, NEW D \in MayClose, HandleRdHup(D)
  PROVE  IInv'
<1> USE NoneAssumption DEF IInv
<1> DEFINE c == batch[1].ptr
<1>1. 1 \in 1 .. Len(batch) /\ Head(batch) = batch[1] /\ c \in Conns /\ Suffix(1)
  BY HeadOfBatch, BatchTyped DEF HandleRdHup
<1>2. obj[c] = "alive" BY <1>1 DEF TypeOK, NoUseAfterFree
<1>3. Deletes(c, D) BY <1>1, <1>2, DeleteIsOwn DEF HandleRdHup
<1>4. /\ batch' \in Seq(Events) /\ Len(batch') \in Nat
      /\ \A i \in 1 .. Len(batch') :
           /\ i + 1 \in 1 .. Len(batch) /\ i + 1 # 1
           /\ batch'[i] = batch[i + 1] /\ batch'[i].ptr \in Conns
  BY <1>1, BatchTyped DEF Suffix
<1>5. pc' = "events" /\ UNCHANGED <<acceptVars, connection, disconnected, dropped>>
  BY DEF HandleRdHup
<1>6. /\ \A i \in 1 .. Len(batch') : batch'[i].ptr # c
      /\ \A a \in Acceptors : accepting[a] # None => accepting[a] # c
  <2>1. ASSUME NEW i \in 1 .. Len(batch') PROVE batch'[i].ptr # c
    <3>1. batch[i + 1].ptr # batch[1].ptr BY <1>1, <1>4 DEF NoUseAfterFree
    <3> QED BY <3>1, <1>4
  <2>2. \A a \in Acceptors : accepting[a] # None => accepting[a] # c
    BY <1>1 DEF AcceptInProgress
  <2> QED BY <2>1, <2>2
<1> HIDE DEF c
<1>7. /\ fdTable' \in [Fds -> Conns \cup {None}]
      /\ dataPtr' \in [Conns -> Conns \cup {None}]
      /\ ready' \subseteq Conns
      /\ obj' \in [Conns -> {"none", "alive", "deleted"}]
      /\ closed' \in [Conns -> BOOLEAN]
      /\ Registered' /\ NotClosedEarly' /\ DescriptorOwnership'
  BY <1>1, <1>2, <1>3, DeletesKeeps
<1>8. TypeOK' BY <1>3, <1>4, <1>5, <1>7 DEF TypeOK, Events, Deletes, acceptVars
<1>9. Draining' BY <1>5 DEF Draining
<1>10. AcceptInProgress'
  <2> SUFFICES ASSUME NEW a \in Acceptors, accepting[a] # None
               PROVE  /\ epollEvent = accepting[a]
                      /\ obj'[accepting[a]] = "alive"
                      /\ fd[accepting[a]] \in Fds
                      /\ fdTable'[fd[accepting[a]]] \in {accepting[a], None}
                      /\ dataPtr'[accepting[a]] = None
                      /\ \A i \in 1 .. Len(batch') : batch'[i].ptr # accepting[a]
    BY <1>3, <1>5 DEF AcceptInProgress, Deletes, acceptVars
  <2>1. accepting[a] \in Conns /\ accepting[a] # c BY <1>6 DEF TypeOK
  <2>2. \A i \in 1 .. Len(batch') : batch'[i].ptr # accepting[a]
    BY <1>4 DEF AcceptInProgress
  <2> QED BY <2>1, <2>2, <1>1, <1>3 DEF TypeOK, AcceptInProgress, Deletes, Closes
<1>11. NoUseAfterFree'
  <2>1. \A i \in 1 .. Len(batch') : obj'[batch'[i].ptr] = "alive"
    <3> SUFFICES ASSUME NEW i \in 1 .. Len(batch') PROVE obj'[batch'[i].ptr] = "alive"
      OBVIOUS
    <3>1. obj[batch'[i].ptr] = "alive"
      <4>1. obj[batch[i + 1].ptr] = "alive" BY <1>4 DEF NoUseAfterFree
      <4> QED BY <4>1, <1>4
    <3>2. batch'[i].ptr \in Conns /\ batch'[i].ptr # c BY <1>4, <1>6
    <3> QED BY <1>3, <3>1, <3>2 DEF TypeOK, Deletes
  <2>2. \A i, j \in 1 .. Len(batch') : batch'[i].ptr = batch'[j].ptr => i = j
    BY <1>4 DEF NoUseAfterFree
  <2>3. \A s \in Conns : dataPtr'[s] # None => obj'[dataPtr'[s]] = "alive"
    BY <1>7 DEF Registered
  <2>4. \A a \in Acceptors : accepting'[a] # None => obj'[epollEvent'] = "alive"
    BY <1>8, <1>10 DEF AcceptInProgress
  <2> QED BY <1>5, <2>1, <2>2, <2>3, <2>4 DEF NoUseAfterFree
<1> QED BY <1>7, <1>8, <1>9, <1>10, <1>11

LEMMA StartDrainKeeps ==
  ASSUME IInv, StartDrain
  PROVE  IInv'
<1> USE NoneAssumption DEF IInv
<1>1. 1 \in 1 .. Len(batch) /\ Head(batch) = batch[1] /\ batch[1].ptr \in Conns /\ Suffix(1)
  BY HeadOfBatch, BatchTyped DEF StartDrain
<1>2. /\ batch' \in Seq(Events) /\ Len(batch') \in Nat
      /\ \A i \in 1 .. Len(batch') :
           i + 1 \in 1 .. Len(batch) /\ i + 1 # 1 /\ batch'[i] = batch[i + 1]
  BY <1>1 DEF Suffix
<1>3. /\ connection' = batch[1].ptr /\ pc' = "read"
      /\ UNCHANGED <<kernelVars, objectVars, acceptVars, disconnected, dropped>>
  BY <1>1 DEF StartDrain
<1>4. TypeOK' BY <1>1, <1>2, <1>3 DEF TypeOK, Events, kernelVars, objectVars, acceptVars
<1>5. Counters'
  BY <1>1, <1>3 DEF Counters, NotClosedEarly, Draining, kernelVars, objectVars
<1>6. Registered' /\ DescriptorOwnership'
  BY <1>3 DEF Registered, DescriptorOwnership, kernelVars, objectVars
<1>7. AcceptInProgress'
  <2>1. \A a \in Acceptors : accepting[a] # None =>
          /\ \A i \in 1 .. Len(batch') : batch'[i].ptr # accepting[a]
          /\ batch[1].ptr # accepting[a]
    <3> SUFFICES ASSUME NEW a \in Acceptors, accepting[a] # None
                 PROVE  /\ \A i \in 1 .. Len(batch') : batch'[i].ptr # accepting[a]
                        /\ batch[1].ptr # accepting[a]
      OBVIOUS
    <3>1. \A i \in 1 .. Len(batch) : batch[i].ptr # accepting[a] BY DEF AcceptInProgress
    <3> QED BY <3>1, <1>1, <1>2
  <2>2. UNCHANGED <<epollEvent, accepting, obj, fd, fdTable, dataPtr>>
    BY <1>3 DEF kernelVars, objectVars, acceptVars
  <2> QED BY <1>3, <2>1, <2>2 DEF AcceptInProgress
<1>8. NoUseAfterFree'
  <2>1. \A i \in 1 .. Len(batch') :
          obj[batch'[i].ptr] = "alive" /\ batch'[i].ptr # batch[1].ptr
    BY <1>1, <1>2 DEF NoUseAfterFree
  <2>2. \A i, j \in 1 .. Len(batch') : batch'[i].ptr = batch'[j].ptr => i = j
    <3> SUFFICES ASSUME NEW i \in 1 .. Len(batch'), NEW j \in 1 .. Len(batch'),
                        batch[i + 1].ptr = batch[j + 1].ptr
                 PROVE  i = j
      BY <1>2
    <3>1. i + 1 = j + 1 BY <1>2 DEF NoUseAfterFree
    <3> QED BY <3>1, <1>2
  <2> QED BY <1>1, <1>3, <2>1, <2>2
          DEF NoUseAfterFree, kernelVars, objectVars, acceptVars
<1> QED BY <1>4, <1>5, <1>6, <1>7, <1>8 DEF Counters

(* An open connection that is drained is read from its own socket. *)
LEMMA SourceIsOwn ==
  ASSUME IInv, pc = "read", ~ closed[connection]
  PROVE  Source = connection /\ connection \in Conns
BY DEF IInv, Source, Draining, NoUseAfterFree, DescriptorOwnership

LEMMA ReadBytesKeeps ==
  ASSUME IInv, NEW n \in 1 .. MaxInbox, NEW D, ReadBytes(n, D)
  PROVE  IInv'
<1>1. Source = connection /\ connection \in Conns BY SourceIsOwn DEF ReadBytes
<1>2. n \in Nat /\ n <= inbox[connection]
      /\ inbox' = [inbox EXCEPT ![connection] = @ - n]
  BY <1>1, MaxAssumption DEF ReadBytes, IInv, TypeOK
<1>3. inbox' \in [Conns -> 0 .. MaxInbox]
  BY <1>1, <1>2, MaxAssumption DEF IInv, TypeOK
<1> QED BY <1>3, CloseStepKeeps DEF ReadBytes, loopVars

LEMMA ReadNothingKeeps ==
  ASSUME IInv, NEW D, ReadNothing(D)
  PROVE  IInv'
<1>1. inbox' \in [Conns -> 0 .. MaxInbox]
  BY DEF IInv, TypeOK, ReadNothing
<1> QED BY <1>1, CloseStepKeeps DEF ReadNothing, loopVars

(* What LeaveDrain does to the events. *)
LEMMA LeaveDrainEffect ==
  ASSUME IInv, NEW leave, LeaveDrain(leave), leave \in BOOLEAN
  PROVE  /\ Suffix(0)
         /\ pc' \in {"tasks", "events"} /\ connection' = None
         /\ disconnected' \in BOOLEAN /\ dropped' \subseteq Conns
<1>1. Suffix(0) BY SameBatch, EmptyBatch DEF LeaveDrain
<1>2. pc' \in {"tasks", "events"} /\ connection' = None BY DEF LeaveDrain
<1>3. disconnected' \in BOOLEAN BY DEF LeaveDrain
<1>4. dropped' \subseteq Conns
  <2>1. {batch[i].ptr : i \in 1 .. Len(batch)} \subseteq Conns BY BatchTyped
  <2> QED BY <2>1 DEF IInv, TypeOK, LeaveDrain
<1> QED BY <1>1, <1>2, <1>3, <1>4

LEMMA ReadEagainKeeps ==
  ASSUME IInv, ReadEagain
  PROVE  IInv'
<1>1. disconnected \in BOOLEAN BY DEF IInv, TypeOK
<1> QED BY <1>1, LeaveDrainEffect, LoopStepKeeps DEF ReadEagain

LEMMA ReadErrorKeeps ==
  ASSUME IInv, NEW D \in MayClose, ReadError(D)
  PROVE  IInv'
<1> USE NoneAssumption DEF IInv
<1> DEFINE c == connection
<1>1. /\ batch' = <<>> /\ batch' \in Seq(Events)
      /\ pc' = "tasks" /\ connection' = None
      /\ disconnected' \in BOOLEAN /\ dropped' \subseteq Conns
  <2>1. LeaveDrain(TRUE) BY DEF ReadError
  <2>2. batch' = <<>> /\ pc' = "tasks" BY <2>1 DEF LeaveDrain
  <2> QED BY <2>1, <2>2, LeaveDrainEffect DEF Suffix
<1>2. c \in Conns /\ obj[c] = "alive" BY DEF Draining, NoUseAfterFree, ReadError
<1>3. Deletes(c, D) /\ UNCHANGED acceptVars BY <1>2, DeleteIsOwn DEF ReadError
<1>4. \A a \in Acceptors : accepting[a] # None => accepting[a] # c
  BY DEF AcceptInProgress, ReadError
<1> HIDE DEF c
<1>5. /\ fdTable' \in [Fds -> Conns \cup {None}]
      /\ dataPtr' \in [Conns -> Conns \cup {None}]
      /\ ready' \subseteq Conns
      /\ obj' \in [Conns -> {"none", "alive", "deleted"}]
      /\ closed' \in [Conns -> BOOLEAN]
      /\ Registered' /\ NotClosedEarly' /\ DescriptorOwnership'
  BY <1>2, <1>3, DeletesKeeps
<1>6. TypeOK' BY <1>1, <1>3, <1>5 DEF TypeOK, Events, Deletes, acceptVars
<1>7. Draining' BY <1>1 DEF Draining
<1>8. AcceptInProgress'
  BY <1>1, <1>2, <1>3, <1>4, <1>5
     DEF TypeOK, AcceptInProgress, Deletes, Closes, acceptVars
<1>9. NoUseAfterFree'
  BY <1>1, <1>5, <1>6, <1>8 DEF NoUseAfterFree, Registered, AcceptInProgress
<1> QED BY <1>5, <1>6, <1>7, <1>8, <1>9

-----------------------------------------------------------------------------
LEMMA NextKeepsIInv ==
  ASSUME OneAcceptor
  PROVE  IInv /\ [Next]_vars => IInv'
<1> SUFFICES ASSUME IInv, [Next]_vars PROVE IInv' OBVIOUS
<1>1. ASSUME Accept PROVE IInv'
  BY <1>1, AcceptNewKeeps, AcceptAddKeeps, AcceptFailKeeps DEF Accept
<1>2. ASSUME Peer PROVE IInv'
  BY <1>2, PeerSendKeeps, PeerCloseKeeps DEF Peer
<1>3. ASSUME StartLoop PROVE IInv'
  BY <1>3, ProceedTasksKeeps, EpollWaitKeeps, EpollTimeoutKeeps, HandleRdHupKeeps,
     StartDrainKeeps, EndOfBatchKeeps, ReadBytesKeeps, ReadNothingKeeps,
     ReadEagainKeeps, ReadErrorKeeps DEF StartLoop
<1>4. ASSUME UNCHANGED vars PROVE IInv'
  BY <1>4 DEF IInv, vars, kernelVars, objectVars, acceptVars, loopVars, TypeOK,
     Registered, NotClosedEarly, AcceptInProgress, Draining,
     NoUseAfterFree, DescriptorOwnership
<1> QED BY <1>1, <1>2, <1>3, <1>4 DEF Next

(* Every table and cursor of the loop keeps its type, the pointers in epoll *)
(* lead to the connection of their own socket, and what Accept is           *)
(* registering is known to nobody else.                                     *)
THEOREM InductiveInvariant ==
  ASSUME OneAcceptor
  PROVE  Spec => []IInv
<1>1. Init => IInv BY InitIInv
<1>2. IInv /\ [Next]_vars => IInv' BY NextKeepsIInv
<1> QED BY <1>1, <1>2, PTL DEF Spec

(* The loop never reads a counter below 0 or follows a null pointer from an *)
(* event: every event carries a Connection.                                 *)
THEOREM TypeCorrect ==
  ASSUME OneAcceptor
  PROVE  Spec => []TypeOK
<1>1. IInv => TypeOK BY DEF IInv
<1> QED BY <1>1, InductiveInvariant, PTL

(* With one accepting thread, StartLoop and Accept never touch a deleted    *)
(* Connection, whatever closes and resets come in between.                  *)
THEOREM NoUseAfterDelete ==
  ASSUME OneAcceptor
  PROVE  Spec => []NoUseAfterFree
<1>1. IInv => NoUseAfterFree BY DEF IInv
<1> QED BY <1>1, InductiveInvariant, PTL

(* unixClose, read and epoll_ctl act on the socket their connection was     *)
(* made for, although the kernel hands numbers out again.                   *)
THEOREM DescriptorsOwned ==
  ASSUME OneAcceptor
  PROVE  Spec => []DescriptorOwnership
<1>1. IInv => DescriptorOwnership BY DEF IInv
<1> QED BY <1>1, InductiveInvariant, PTL
=============================================================================
