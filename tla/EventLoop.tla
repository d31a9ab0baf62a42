------------------------------- MODULE EventLoop -------------------------------
(***************************************************************************)
(* EventLoop (ShipNet/utils/thread/EventLoop.cpp): the tasks queued with   *)
(* Execute and Delay and their execution by ProceedTasks, against a clock  *)
(* of which deadlines keep only the lower 32 bits.  The actions change     *)
(* this state only; Server says when the loop thread calls ProceedTasks.   *)
(*                                                                         *)
(* Tasks are numbered in the order of the calls.  A task is application    *)
(* code: while one runs, it may call Execute and Delay itself.  One more   *)
(* task, without a number, is always the last of the queue and may execute *)
(* itself again every time it runs.                                        *)
(*                                                                         *)
(* One other thread calls Execute, without a lock.  Its push can take the  *)
(* loop thread by surprise between its reading and its writing the ends of *)
(* the queue.                                                              *)
(***************************************************************************)
EXTENDS Integers, Sequences

CONSTANTS
  Modulus,   \* values of uint32_t
  MaxTime,   \* bound: where the clock stops
  MaxTasks   \* bound: tasks in all

ASSUME ClockAssumption == Modulus \in Nat \ {0} /\ MaxTime \in Nat
ASSUME TaskAssumption == MaxTasks \in Nat

VARIABLES
  now,          \* GetCurrentMillis()
  cells,        \* immediateTasks: the memory of the queue,
  start,        \*   what was popped
  finish,       \*   and what was pushed
  delayedTasks, \* delayedTasks, with the untruncated deadline as a ghost
  phase,        \* where ProceedTasks is
  it,           \* iterator of remove_if
  wasLast,      \* it had no successor when the predicate was called
  passTime,     \* the time remove_if compares with, before it is truncated
  repeating,    \* the task that executes itself again is in the queue
  remote,       \* the push another thread has begun
  tasks,        \* tasks made so far
  ran,          \* ghost: immediate tasks that were run, in that order
  done,         \* ghost: delayed tasks that were run
  executed,     \* ghost: tasks passed to Execute
  postponed,    \* ghost: tasks passed to Delay
  overlapped    \* ghost: the loop thread used the queue during such a push

queueVars == <<cells, start, finish, executed, overlapped>>
listVars == <<delayedTasks, postponed>>
passVars == <<it, wasLast, passTime>>
taskVars == <<now, queueVars, listVars, phase, passVars, repeating,
              remote, tasks, ran, done>>

NoPush == [task |-> 0, slot |-> 0, start |-> 0]

TasksInit ==
  /\ now = 0
  /\ cells = [n \in 1 .. MaxTasks |-> 0] /\ start = 0 /\ finish = 0
  /\ delayedTasks = <<>> /\ postponed = {}
  /\ phase = "away"
  /\ it = 1 /\ wasLast = FALSE /\ passTime = 0
  /\ repeating = FALSE /\ remote = NoPush
  /\ tasks = 0
  /\ ran = <<>> /\ done = {} /\ executed = <<>>
  /\ overlapped = FALSE

(* Mutant: deadlines keep all bits. *)
LowKept(time) == time

Low(time) == time % Modulus

-----------------------------------------------------------------------------
(* Submitting. *)

NewTask == tasks < MaxTasks /\ tasks' = tasks + 1

(* The loop thread is in a task, or handling network events. *)
InApplication == phase \in {"away", "task", "repeated", "delayedTask"}

(* The loop thread uses the queue, maybe in the middle of another's push. *)
UseQueue == overlapped' = (overlapped \/ remote # NoPush)

Execute ==
  /\ NewTask /\ InApplication /\ UseQueue
  /\ cells' = [cells EXCEPT ![finish + 1] = tasks']
  /\ finish' = finish + 1
  /\ executed' = Append(executed, tasks')
  /\ UNCHANGED <<now, start, listVars, phase, passVars, repeating, remote, ran, done>>

(* Execute of the task that executes itself again. *)
ExecuteRepeating ==
  /\ InApplication /\ ~ repeating /\ UseQueue
  /\ repeating' = TRUE
  /\ UNCHANGED <<now, cells, start, finish, executed, listVars, phase, passVars,
                 remote, tasks, ran, done>>

(* Another thread calls Execute: it reads the ends of the queue,            *)
RemoteExecuteBegins ==
  /\ NewTask /\ remote = NoPush
  /\ remote' = [task |-> tasks', slot |-> finish + 1, start |-> start]
  /\ UNCHANGED <<now, queueVars, listVars, phase, passVars, repeating, ran, done>>

(* stores the task and sets the end behind it.  A push that has to make     *)
(* room (std::queue is a std::deque, whose map is reallocated) writes the   *)
(* start as well, as it has read it.                                        *)
RemoteExecuteEnds ==
  /\ remote # NoPush
  /\ cells' = [cells EXCEPT ![remote.slot] = remote.task]
  /\ finish' = remote.slot /\ start' \in {start, remote.start}
  /\ executed' = Append(executed, remote.task)
  /\ remote' = NoPush
  /\ UNCHANGED <<now, overlapped, listVars, phase, passVars, repeating, tasks,
                 ran, done>>

Delayed(task, due) == [task |-> task, deadline |-> Low(due), due |-> due]

(* Mutant: the time of the last pass for the current time. *)
DelayFromLastPass(millis) ==
  /\ NewTask /\ InApplication
  /\ delayedTasks' = Append(delayedTasks,
       [Delayed(tasks', passTime + millis) EXCEPT !.due = now + millis])
  /\ postponed' = postponed \cup {tasks'}
  /\ UNCHANGED <<now, queueVars, phase, passVars, repeating, remote, ran, done>>

Delay(millis) ==
  /\ NewTask /\ InApplication
  /\ delayedTasks' = Append(delayedTasks, Delayed(tasks', now + millis))
  /\ postponed' = postponed \cup {tasks'}
  /\ UNCHANGED <<now, queueVars, phase, passVars, repeating, remote, ran, done>>

-----------------------------------------------------------------------------
(* ProceedTasks. *)

(* immediateTasks.front()(): the task is popped only after it has returned. *)
RunFront ==
  /\ phase = "immediate" /\ start < finish /\ UseQueue
  /\ ran' = Append(ran, cells[start + 1])
  /\ phase' = "task"
  /\ UNCHANGED <<now, cells, start, finish, executed, listVars, passVars, repeating,
                 remote, tasks, done>>

TaskReturns ==
  /\ phase = "task" /\ UseQueue
  /\ start' = start + 1
  /\ phase' = "immediate"
  /\ UNCHANGED <<now, cells, finish, executed, listVars, passVars, repeating,
                 remote, tasks, ran, done>>

(* The same for the task that executes itself again, *)
RunRepeating ==
  /\ phase = "immediate" /\ start = finish /\ repeating /\ UseQueue
  /\ phase' = "repeated"
  /\ UNCHANGED <<now, cells, start, finish, executed, listVars, passVars, repeating,
                 remote, tasks, ran, done>>

(* or, this time, does not. *)
RepeatingReturns ==
  /\ phase = "repeated" /\ UseQueue
  /\ repeating' \in BOOLEAN
  /\ phase' = "immediate"
  /\ UNCHANGED <<now, cells, start, finish, executed, listVars, passVars,
                 remote, tasks, ran, done>>

(* Overlapping uses can leave the end below the start: the code then runs   *)
(* through memory the queue has left; here ProceedTasks stops.              *)
StartPass ==
  /\ phase = "immediate" /\ start = finish /\ ~ repeating
  /\ IF delayedTasks = <<>>
     THEN phase' = "proceeded" /\ UNCHANGED passVars
     ELSE /\ phase' = "pass"
          /\ it' = 1 /\ passTime' = now /\ UNCHANGED wasLast
  /\ UNCHANGED <<now, queueVars, listVars, repeating, remote, tasks, ran, done>>

(* Mutant: < for <=. *)
DueStrictly == delayedTasks[it].deadline < Low(passTime)

Due == delayedTasks[it].deadline <= Low(passTime)

PassOver ==
  /\ phase = "pass" /\ it <= Len(delayedTasks) /\ ~ Due
  /\ it' = it + 1
  /\ UNCHANGED <<now, queueVars, listVars, phase, wasLast, passTime, repeating,
                 remote, tasks, ran, done>>

RunDelayed ==
  /\ phase = "pass" /\ it <= Len(delayedTasks) /\ Due
  /\ done' = done \cup {delayedTasks[it].task}
  /\ wasLast' = (it = Len(delayedTasks))
  /\ phase' = "delayedTask"
  /\ UNCHANGED <<now, queueVars, listVars, it, passTime, repeating, remote, tasks, ran>>

(* Mutant: a task that was added last is erased with the one that ran. *)
EraseToEnd == SubSeq(delayedTasks, 1, it - 1)

Erased == SubSeq(delayedTasks, 1, it - 1) \o SubSeq(delayedTasks, it + 1, Len(delayedTasks))

(* The list node is taken out.  If it was the last one, whether remove_if   *)
(* goes on with what the task has appended depends on the library: it has   *)
(* read the successor before the call of the predicate, or reads it after.  *)
DelayedTaskReturns(goesOn) ==
  /\ phase = "delayedTask"
  /\ ~ wasLast => goesOn
  /\ delayedTasks' = Erased
  /\ phase' = IF goesOn THEN "pass" ELSE "proceeded"
  /\ UNCHANGED <<now, queueVars, postponed, passVars, repeating, remote, tasks, ran, done>>

EndPass ==
  /\ phase = "pass" /\ it > Len(delayedTasks)
  /\ phase' = "proceeded"
  /\ UNCHANGED <<now, queueVars, listVars, passVars, repeating, remote, tasks, ran, done>>

ProceedTasks ==
  \/ RunFront \/ TaskReturns \/ RunRepeating \/ RepeatingReturns
  \/ StartPass \/ PassOver \/ RunDelayed \/ EndPass
  \/ \E goesOn \in BOOLEAN : DelayedTaskReturns(goesOn)

(* The clock. *)
Tick ==
  /\ now < MaxTime
  /\ now' = now + 1
  /\ UNCHANGED <<queueVars, listVars, phase, passVars, repeating, remote, tasks, ran, done>>

-----------------------------------------------------------------------------
(* Properties. *)

TasksTypeOK ==
  /\ now \in 0 .. MaxTime
  /\ start \in 0 .. MaxTasks /\ finish \in 0 .. MaxTasks
  /\ \A i \in 1 .. Len(delayedTasks) :
       delayedTasks[i].task \in 1 .. tasks /\ delayedTasks[i].deadline \in 0 .. Modulus - 1
  /\ phase \in {"away", "immediate", "task", "repeated", "pass", "delayedTask", "proceeded"}
  /\ it \in 1 .. MaxTasks + 1

Queued == SubSeq(cells, start + 1, finish)
Waiting == IF phase = "task" THEN Tail(Queued) ELSE Queued

InList == {delayedTasks[i].task : i \in 1 .. Len(delayedTasks)}
Running == IF phase = "delayedTask" THEN {delayedTasks[it].task} ELSE {}

(* Every task is run once and none is forgotten, although tasks add tasks   *)
(* to the containers ProceedTasks is running over: immediate tasks run in   *)
(* the order of the calls, as long as no push of another thread overlaps    *)
(* with a push, a front or a pop of the loop thread; delayed tasks are      *)
(* either still in the list or done.                                        *)
TasksConserved ==
  /\ ~ overlapped => ran \o Waiting = executed
  /\ InList \cap done = Running /\ InList \cup done = postponed
  /\ \A i, j \in 1 .. Len(delayedTasks) :
       delayedTasks[i].task = delayedTasks[j].task => i = j

(* A delayed task never runs before its time, unless its deadline lies      *)
(* behind the point where the 32-bit clock starts again from 0.             *)
NeverEarly ==
  phase = "delayedTask" =>
    \/ delayedTasks[it].due <= now
    \/ delayedTasks[it].due \div Modulus > passTime \div Modulus
=============================================================================
