-------------------------------- MODULE Server --------------------------------
(***************************************************************************)
(* A server process: the thread of an event loop with its tasks            *)
(* (EventLoop), the thread of a listener, a connector and the clients      *)
(* (EpollListener), on one descriptor table.  The loop thread alternates   *)
(* between ProceedTasks and epoll_wait; events of its connections wake it. *)
(* What it does with an event is the subject of EpollEventLoop: here it    *)
(* runs application code and may delete the connection, waits in read, or  *)
(* never gets to the end of what it reads.                                 *)
(***************************************************************************)
EXTENDS EventLoop, EpollListener

CONSTANTS
  Delays,   \* arguments of Delay
  Budgets   \* bound: the calls of each kind a behaviour may make

ASSUME DelaysAssumption == Delays \subseteq Nat

VARIABLES
  loop,     \* where StartLoop is
  timed,    \* epoll_wait of the loop has a timeout (not NO_TIMEOUT)
  signals,  \* connections with an event
  reading,  \* whose socket a drain that has not ended reads, or NoPeer
  left      \* what is left of the budget

NoPeer == "no peer"

loopVars == <<loop, timed, reading>>
vars == <<taskVars, listenerVars, loopVars, signals, left>>

Spend(kind) == left[kind] > 0 /\ left' = [left EXCEPT ![kind] = @ - 1]

Init ==
  /\ TasksInit /\ ListenerInit
  /\ loop = "tasks" /\ timed \in BOOLEAN /\ signals = {} /\ reading = NoPeer
  /\ left \in Budgets

Alive == listener # "destroyed"

-----------------------------------------------------------------------------
(* The loop thread. *)

CallProceedTasks ==
  /\ Alive /\ loop = "tasks" /\ phase = "away"
  /\ phase' = "immediate"
  /\ UNCHANGED <<now, queueVars, listVars, passVars, repeating, remote, tasks,
                 ran, done,
                 listenerVars, loopVars, signals, left>>

InProceedTasks ==
  /\ Alive /\ ProceedTasks
  /\ UNCHANGED <<listenerVars, loopVars, signals, left>>

CallEpollWait ==
  /\ Alive /\ phase = "proceeded"
  /\ phase' = "away" /\ loop' = "wait"
  /\ UNCHANGED <<now, queueVars, listVars, passVars, repeating, remote, tasks,
                 ran, done,
                 listenerVars, timed, reading, signals, left>>

LoopWakes ==
  /\ Alive /\ loop = "wait" /\ signals # {}
  /\ loop' = "events"
  /\ UNCHANGED <<taskVars, listenerVars, timed, reading, signals, left>>

(* Mutant: without an event, epoll_wait is called again. *)
LoopWaitsAgain ==
  /\ Alive /\ loop = "wait" /\ signals = {} /\ timed
  /\ UNCHANGED vars

LoopTimesOut ==
  /\ Alive /\ loop = "wait" /\ signals = {} /\ timed
  /\ loop' = "tasks"
  /\ UNCHANGED <<taskVars, listenerVars, timed, reading, signals, left>>

(* The bytes of the event are read until read returns EAGAIN. *)
EventHandled(p) ==
  /\ Alive /\ loop = "events" /\ reading = NoPeer /\ p \in signals \cap Clients
  /\ signals' = signals \ {p}
  /\ UNCHANGED <<taskVars, listenerVars, loopVars, left>>

(* The socket of a connector blocks: after the bytes of the event, the loop *)
(* waits in read for more, and again after those.                           *)
EventBlocks(p) ==
  /\ Alive /\ loop = "events" /\ reading \in {NoPeer, p} /\ p \in signals \cap Servers
  /\ signals' = signals \ {p} /\ reading' = p
  /\ UNCHANGED <<taskVars, listenerVars, loop, timed, left>>

(* A drain without an end: read returns 0 for ever, at the end of the       *)
(* stream or after the connection was closed on this side, or the peer      *)
(* never stops sending.                                                     *)
DrainGoesOn(p) ==
  /\ Alive /\ loop = "events" /\ reading \in {NoPeer, p} /\ p \in signals
  /\ signals' = signals \ {p} /\ reading' = p /\ loop' = "endless"
  /\ ConnectionClosed(p) \/ UNCHANGED listenerVars
  /\ UNCHANGED <<taskVars, timed, left>>

ConnectionDeleted(p) ==
  /\ Alive /\ loop = "events" /\ reading \in {NoPeer, p} /\ p \in signals
  /\ signals' = signals \ {p} /\ reading' = NoPeer
  /\ ConnectionClosed(p)
  /\ UNCHANGED <<taskVars, loop, timed, left>>

EventsHandled ==
  /\ Alive /\ loop = "events" /\ reading = NoPeer /\ signals = {}
  /\ loop' = "tasks"
  /\ UNCHANGED <<taskVars, listenerVars, timed, reading, signals, left>>

LoopThread ==
  \/ CallProceedTasks \/ InProceedTasks \/ CallEpollWait
  \/ LoopWakes \/ LoopTimesOut \/ EventsHandled
  \/ \E p \in Peers : EventHandled(p) \/ EventBlocks(p) \/ DrainGoesOn(p)
                       \/ ConnectionDeleted(p)

(* Application code on the loop thread: inside a task, or a handler. *)
Submit ==
  /\ Alive /\ (loop = "events" => reading = NoPeer) /\ loop # "wait"
  /\ \/ Execute /\ Spend("execute")
     \/ ExecuteRepeating /\ Spend("repeat")
     \/ \E millis \in Delays : Delay(millis) /\ Spend("delay")
  /\ UNCHANGED <<listenerVars, loopVars, signals>>

-----------------------------------------------------------------------------
(* Other threads and the outside. *)

RemoteExecute ==
  /\ Alive
  /\ RemoteExecuteBegins /\ Spend("remote")
  /\ UNCHANGED <<listenerVars, loopVars, signals>>

RemoteReturns ==
  /\ RemoteExecuteEnds
  /\ UNCHANGED <<listenerVars, loopVars, signals, left>>

Clock == Tick /\ Spend("tick") /\ UNCHANGED <<listenerVars, loopVars, signals>>

ListenerThread ==
  /\ \/ ListenerWakes \/ AcceptAgain
     \/ \E c \in Clients : AcceptClient(c)
  /\ UNCHANGED <<taskVars, loopVars, signals, left>>

ListenerFails ==
  /\ AcceptFails
  /\ Free = {} \/ left["abort"] > 0
  /\ left' = IF Free = {} THEN left ELSE [left EXCEPT !["abort"] = @ - 1]
  /\ UNCHANGED <<taskVars, loopVars, signals>>

ListenerGoesWrong == ListenerMisled /\ UNCHANGED <<taskVars, loopVars, signals, left>>

Application ==
  /\ \/ \E step \in BindSteps : BindFails(step) /\ Spend("bind")
     \/ Bind /\ Spend("bind")
     \/ StartListening /\ UNCHANGED left
     \/ (DestroyClosesEpoll \/ DestroyClosesSocket \/ DestroyDeletesLoop) /\ UNCHANGED left
     \/ \E r \in Servers : Connect(r) /\ Spend("connect")
     \/ ConnectFails /\ Spend("connect")
     \/ OtherLoop /\ Spend("other")
  /\ UNCHANGED <<taskVars, loopVars, signals>>

Network ==
  /\ \/ \E c \in Clients :
          ClientConnects(c) /\ Spend("client") /\ UNCHANGED signals
     \/ \E p \in Peers :
          /\ \E f \in Numbers : table[f] = p
          /\ p \notin signals /\ signals' = signals \cup {p}
          /\ Spend("event")
          /\ UNCHANGED listenerVars
  /\ UNCHANGED <<taskVars, loopVars>>

Next ==
  \/ LoopThread \/ Submit \/ RemoteExecute \/ RemoteReturns \/ Clock
  \/ ListenerThread \/ ListenerFails \/ ListenerGoesWrong \/ Application \/ Network

(* Both threads run, time passes, a push from another thread comes to its   *)
(* end; nothing is assumed of the network and of the application.           *)
Fairness ==
  /\ WF_vars(LoopThread)
  /\ WF_vars(ListenerThread \/ ListenerFails)
  /\ WF_vars(Clock)
  /\ WF_vars(RemoteReturns)

Spec == Init /\ [][Next]_vars /\ Fairness

-----------------------------------------------------------------------------
(* Properties. *)

TypeOK ==
  /\ TasksTypeOK /\ ListenerTypeOK
  /\ loop \in {"tasks", "wait", "events", "endless"}
  /\ signals \subseteq Peers
  /\ reading \in Peers \cup {NoPeer}

InSequence(t, s) == \E i \in 1 .. Len(s) : s[i] = t

(* The loop never comes back: from epoll_wait with NO_TIMEOUT and without   *)
(* an event, or from a drain that waits in read or has no end.              *)
NeverBack ==
  \/ <>[](loop = "wait" /\ ~ timed /\ signals = {})
  \/ <>[](reading # NoPeer)

(* A task given to Execute is run, unless a push of another thread has      *)
(* overlapped with a use of the queue, or the loop never comes back to its  *)
(* tasks: Execute does not wake it.                                         *)
ImmediateTasksRun ==
  \/ NeverBack
  \/ \A t \in 1 .. MaxTasks :
       InSequence(t, executed) ~> InSequence(t, ran) \/ overlapped \/ ~ Alive

(* The clock has started again from 0 since task t was due. *)
Missed(t) ==
  \E i \in 1 .. Len(delayedTasks) :
    /\ delayedTasks[i].task = t
    /\ now \div Modulus > delayedTasks[i].due \div Modulus

(* A delayed task whose time has come is run, unless the 32-bit clock       *)
(* starts again before ProceedTasks sees it, or immediate tasks that        *)
(* execute themselves again never let ProceedTasks get that far, and with   *)
(* the same exceptions as above.                                            *)
DueTasksRun ==
  \/ NeverBack
  \/ []<>(phase = "repeated")
  \/ \A t \in 1 .. MaxTasks :
       (\E i \in 1 .. Len(delayedTasks) :
          delayedTasks[i].task = t /\ delayedTasks[i].due <= now)
       ~> t \in done \/ Missed(t) \/ overlapped \/ ~ Alive

(* A client that is waiting while the listener listens is accepted, in      *)
(* whatever order clients arrive and events are reported, unless accept4    *)
(* has failed.                                                              *)
ClientsAccepted ==
  \A c \in Clients :
    InSequence(c, backlog) /\ listener \in {"wait", "accept"}
    ~> c \in accepted \/ acceptFailed
=============================================================================
