----------------------------- MODULE Server_proofs -----------------------------
(***************************************************************************)
(* Server: the task queue, the listener and the connector never disturb    *)
(* each other.  The inductive invariant joins TasksInv, about the task     *)
(* queue of EventLoop, ListenerInv, about the descriptor table, and        *)
(* LoopInv.  First come the lemmas about EventLoop alone: every one of its *)
(* actions keeps TasksInv, from which TasksConserved and NeverEarly follow.*)
(***************************************************************************)
EXTENDS Server, SetInduction

-----------------------------------------------------------------------------
(* The task queue. *)

Phases ==
  {"away", "immediate", "task", "repeated", "pass", "delayedTask", "proceeded"}

DelayedTask == [task : Nat, deadline : Nat, due : Nat]

(* The clock, the number of calls and the cursor of remove_if. *)
ClockInv ==
  /\ now \in 0 .. MaxTime /\ passTime \in 0 .. now
  /\ tasks \in 0 .. MaxTasks
  /\ phase \in Phases
  /\ delayedTasks \in Seq(DelayedTask) /\ Len(delayedTasks) <= tasks
  /\ it \in 1 .. Len(delayedTasks) + 1

(* Deadlines are truncated times, and the task that runs was due by them. *)
DeadlineInv ==
  /\ \A i \in 1 .. Len(delayedTasks) :
       delayedTasks[i].deadline = Low(delayedTasks[i].due)
  /\ phase = "delayedTask" => it <= Len(delayedTasks) /\ Due

(* The delayed tasks: in the list, or done, or both while one runs. *)
ListInv ==
  /\ postponed \subseteq 1 .. tasks
  /\ InList \cap done = Running /\ InList \cup done = postponed
  /\ \A i, j \in 1 .. Len(delayedTasks) :
       delayedTasks[i].task = delayedTasks[j].task => i = j

(* The immediate tasks.  The ends of the queue stay inside the memory even  *)
(* when a push of another thread has overlapped with a use of the queue, as *)
(* such a push writes ends it has read before; until then the memory up to  *)
(* the end is what was given to Execute, and what ran is its beginning.     *)
QueueInv ==
  /\ cells \in [1 .. MaxTasks -> Nat]
  /\ start \in 0 .. tasks /\ finish \in 0 .. tasks
  /\ phase = "task" => start < tasks
  /\ remote \in [task : Nat, slot : 0 .. tasks, start : 0 .. tasks]
  /\ remote # NoPush => remote.slot # 0 /\ remote.start < tasks
  /\ overlapped \in BOOLEAN
  /\ executed \in Seq(Nat) /\ ran \in Seq(Nat)

OrderInv ==
  ~ overlapped =>
    /\ Len(executed) = finish
    /\ \A i \in 1 .. finish : cells[i] = executed[i]
    /\ Len(ran) = (IF phase = "task" THEN start + 1 ELSE start)
    /\ Len(ran) <= finish
    /\ \A i \in 1 .. Len(ran) : ran[i] = executed[i]
    /\ remote # NoPush => remote.slot = finish + 1 /\ remote.start = start

TasksInv == ClockInv /\ DeadlineInv /\ ListInv /\ QueueInv /\ OrderInv

-----------------------------------------------------------------------------
(* Facts about the operators. *)

(* Truncation keeps the order of two times between the same multiples of    *)
(* the modulus.                                                             *)
LEMMA Wrapped ==
  ASSUME NEW d \in Nat, NEW p \in Nat, Low(d) <= Low(p),
         d \div Modulus <= p \div Modulus
  PROVE  d <= p
<1>1. Modulus \in Nat /\ Modulus > 0 BY ClockAssumption
<1>2. ASSUME NEW M \in Nat, M > 0, NEW a \in Nat, NEW b \in Nat, a \div M < b \div M
      PROVE  a < b
  BY <1>2, SMTT(30)
<1>3. ASSUME NEW M \in Nat, M > 0, NEW a \in Nat, NEW b \in Nat,
             a \div M = b \div M, a % M <= b % M
      PROVE  a <= b
  BY <1>3, SMTT(30)
<1>4. d \div Modulus \in Int /\ p \div Modulus \in Int BY <1>1
<1>5. CASE d \div Modulus < p \div Modulus
  <2>1. d < p BY <1>1, <1>2, <1>5
  <2> QED BY <2>1
<1>6. CASE d \div Modulus = p \div Modulus BY <1>1, <1>3, <1>6 DEF Low
<1> QED BY <1>4, <1>5, <1>6

LEMMA LowType ==
  ASSUME NEW d \in Nat
  PROVE  Low(d) \in 0 .. Modulus - 1
BY ClockAssumption DEF Low

(* What the list is after the node at the iterator has been taken out. *)
LEMMA ErasedList ==
  ASSUME delayedTasks \in Seq(DelayedTask), it \in 1 .. Len(delayedTasks)
  PROVE  /\ Erased \in Seq(DelayedTask)
         /\ Len(Erased) = Len(delayedTasks) - 1
         /\ \A i \in 1 .. Len(delayedTasks) - 1 :
              Erased[i] = IF i < it THEN delayedTasks[i] ELSE delayedTasks[i + 1]
<1> DEFINE n == Len(delayedTasks)
           s == SubSeq(delayedTasks, 1, it - 1)
           t == SubSeq(delayedTasks, it + 1, n)
<1>1. n \in Nat OBVIOUS
<1>2. /\ s \in Seq(DelayedTask) /\ Len(s) = it - 1
      /\ \A i \in 1 .. it - 1 : s[i] = delayedTasks[i]
  BY <1>1
<1>3. /\ t \in Seq(DelayedTask) /\ Len(t) = n - it
      /\ \A i \in 1 .. n - it : t[i] = delayedTasks[it + i]
  BY <1>1
<1>4. Erased = s \o t BY DEF Erased
<1> HIDE DEF s, t
<1>5. /\ s \o t \in Seq(DelayedTask)
      /\ Len(s \o t) = n - 1
      /\ \A i \in 1 .. n - 1 : (s \o t)[i] = IF i <= it - 1 THEN s[i] ELSE t[i - (it - 1)]
  <2>1. (it - 1) + (n - it) = n - 1 BY <1>1
  <2>2. s \o t \in Seq(DelayedTask) BY <1>2, <1>3, ConcatProperties
  <2>3. Len(s \o t) = n - 1
    <3>1. Len(s \o t) = Len(s) + Len(t) BY <1>2, <1>3, ConcatProperties
    <3> QED BY <1>2, <1>3, <2>1, <3>1
  <2>4. ASSUME NEW i \in 1 .. n - 1
        PROVE  (s \o t)[i] = IF i <= it - 1 THEN s[i] ELSE t[i - (it - 1)]
    <3>1. i \in 1 .. Len(s) + Len(t) BY <1>1, <1>2, <1>3, <2>1
    <3>2. (s \o t)[i] = IF i <= Len(s) THEN s[i] ELSE t[i - Len(s)]
      BY <1>2, <1>3, <3>1, ConcatProperties
    <3> QED BY <1>2, <3>2
  <2> QED BY <2>2, <2>3, <2>4
<1>6. ASSUME NEW i \in 1 .. n - 1
      PROVE  (s \o t)[i] = IF i < it THEN delayedTasks[i] ELSE delayedTasks[i + 1]
  <2>1. CASE i < it
    <3>1. i \in 1 .. it - 1 /\ i <= it - 1 BY <1>1, <2>1
    <3> QED BY <1>2, <1>5, <2>1, <3>1
  <2>2. CASE ~ (i < it)
    <3>1. i - (it - 1) \in 1 .. n - it BY <1>1, <2>2
    <3>2. it + (i - (it - 1)) = i + 1 BY <1>1
    <3>3. t[i - (it - 1)] = delayedTasks[i + 1] BY <1>3, <3>1, <3>2
    <3>4. ~ (i <= it - 1) BY <1>1, <2>2
    <3>5. (s \o t)[i] = t[i - (it - 1)] BY <1>5, <3>4
    <3> QED BY <2>2, <3>3, <3>5
  <2> QED BY <2>1, <2>2
<1> QED BY <1>4, <1>5, <1>6

-----------------------------------------------------------------------------
(* The initial state. *)

LEMMA TasksInitInv == TasksInit => TasksInv
<1> SUFFICES ASSUME TasksInit PROVE TasksInv OBVIOUS
<1>1. ClockInv
  BY ClockAssumption, TaskAssumption DEF TasksInit, ClockInv, Phases
<1>2. DeadlineInv BY DEF TasksInit, DeadlineInv
<1>3. ListInv BY DEF TasksInit, ListInv, InList, Running
<1>4. QueueInv
  <2>1. cells \in [1 .. MaxTasks -> Nat] BY DEF TasksInit
  <2>2. remote \in [task : Nat, slot : 0 .. tasks, start : 0 .. tasks]
    BY DEF TasksInit, NoPush
  <2>3. overlapped \in BOOLEAN BY Zenon DEF TasksInit
  <2> QED BY <2>1, <2>2, <2>3, TaskAssumption DEF TasksInit, QueueInv
<1>5. OrderInv BY DEF TasksInit, OrderInv
<1> QED BY <1>1, <1>2, <1>3, <1>4, <1>5 DEF TasksInv

-----------------------------------------------------------------------------
(* The submitting actions. *)

LEMMA ExecuteInv == TasksInv /\ Execute => TasksInv'
<1> SUFFICES ASSUME TasksInv, Execute PROVE TasksInv' OBVIOUS
<1> USE DEF listVars, passVars
<1>1. tasks \in Nat /\ MaxTasks \in Nat /\ tasks < MaxTasks /\ tasks' = tasks + 1
  BY TaskAssumption DEF TasksInv, ClockInv, Execute, NewTask
<1>2. finish \in 0 .. tasks BY DEF TasksInv, QueueInv
<1>3. ClockInv' BY <1>1 DEF TasksInv, ClockInv, Execute
<1>4. DeadlineInv' BY DEF TasksInv, DeadlineInv, Execute, Due
<1>5. ListInv'
  BY <1>1 DEF TasksInv, ListInv, Execute, InList, Running
<1>6. overlapped' \in BOOLEAN /\ (~ overlapped' => ~ overlapped /\ remote = NoPush)
  BY Zenon DEF TasksInv, QueueInv, Execute, UseQueue
<1>7. cells' \in [1 .. MaxTasks -> Nat] /\ cells' = [cells EXCEPT ![finish + 1] = tasks + 1]
  BY <1>1, <1>2 DEF TasksInv, QueueInv, Execute
<1>8. executed' \in Seq(Nat) /\ executed' = Append(executed, tasks + 1)
  BY <1>1 DEF TasksInv, QueueInv, Execute
<1>9. QueueInv'
  <2>1. /\ remote' \in [task : Nat, slot : 0 .. tasks', start : 0 .. tasks']
        /\ remote' # NoPush => remote'.slot # 0 /\ remote'.start < tasks'
    BY <1>1 DEF TasksInv, QueueInv, Execute
  <2> QED BY <1>1, <1>2, <1>6, <1>7, <1>8, <2>1 DEF TasksInv, QueueInv, Execute
<1>10. OrderInv'
  <2> SUFFICES ASSUME ~ overlapped' PROVE OrderInv' BY DEF OrderInv
  <2>1. ~ overlapped /\ remote = NoPush BY <1>6
  <2>2. executed \in Seq(Nat) /\ Len(executed) = finish
    BY <2>1 DEF TasksInv, QueueInv, OrderInv
  <2>3. /\ Len(executed') = finish + 1 /\ executed'[finish + 1] = tasks + 1
        /\ \A i \in 1 .. finish : executed'[i] = executed[i]
    BY <1>1, <1>8, <2>2
  <2>4. ASSUME NEW i \in 1 .. finish' PROVE cells'[i] = executed'[i]
    <3>1. i \in 1 .. MaxTasks /\ finish' = finish + 1 BY <1>1, <1>2 DEF Execute
    <3>2. CASE i = finish + 1 BY <1>7, <2>3, <3>1, <3>2 DEF TasksInv, QueueInv
    <3>3. CASE i # finish + 1
      <4>1. i \in 1 .. finish BY <1>2, <3>1, <3>3
      <4> QED BY <1>7, <2>1, <2>3, <3>1, <3>3, <4>1 DEF TasksInv, QueueInv, OrderInv
    <3> QED BY <3>2, <3>3
  <2>5. /\ ran' = ran /\ start' = start /\ phase' = phase /\ finish' = finish + 1
        /\ remote' = remote
    BY DEF Execute
  <2>6. Len(ran) \in Nat /\ Len(ran) <= finish
    BY <2>1 DEF TasksInv, QueueInv, OrderInv
  <2>7. ASSUME NEW i \in 1 .. Len(ran') PROVE ran'[i] = executed'[i]
    BY <1>2, <2>1, <2>3, <2>5, <2>6 DEF TasksInv, OrderInv
  <2> QED BY <1>2, <2>1, <2>3, <2>4, <2>5, <2>6, <2>7 DEF TasksInv, OrderInv
<1> QED BY <1>3, <1>4, <1>5, <1>9, <1>10 DEF TasksInv

LEMMA RemoteBeginsInv == TasksInv /\ RemoteExecuteBegins => TasksInv'
<1> SUFFICES ASSUME TasksInv, RemoteExecuteBegins PROVE TasksInv' OBVIOUS
<1> USE DEF listVars, passVars, queueVars
<1>1. tasks \in Nat /\ MaxTasks \in Nat /\ tasks < MaxTasks /\ tasks' = tasks + 1
  BY TaskAssumption DEF TasksInv, ClockInv, RemoteExecuteBegins, NewTask
<1>2. finish \in 0 .. tasks /\ start \in 0 .. tasks BY DEF TasksInv, QueueInv
<1>3. ClockInv' BY <1>1 DEF TasksInv, ClockInv, RemoteExecuteBegins
<1>4. DeadlineInv' BY DEF TasksInv, DeadlineInv, RemoteExecuteBegins, Due
<1>5. ListInv'
  BY <1>1 DEF TasksInv, ListInv, RemoteExecuteBegins, InList, Running
<1>6. /\ remote' \in [task : Nat, slot : 0 .. tasks', start : 0 .. tasks']
      /\ remote'.slot = finish + 1 /\ remote'.start = start
  BY <1>1, <1>2 DEF RemoteExecuteBegins
<1>7. overlapped' \in BOOLEAN /\ overlapped' = overlapped
  BY Zenon DEF TasksInv, QueueInv, RemoteExecuteBegins
<1>8. QueueInv'
  BY <1>1, <1>2, <1>6, <1>7 DEF TasksInv, QueueInv, RemoteExecuteBegins
<1>9. OrderInv'
  BY <1>6, <1>7 DEF TasksInv, OrderInv, RemoteExecuteBegins
<1> QED BY <1>3, <1>4, <1>5, <1>8, <1>9 DEF TasksInv

LEMMA RemoteEndsInv == TasksInv /\ RemoteExecuteEnds => TasksInv'
<1> SUFFICES ASSUME TasksInv, RemoteExecuteEnds PROVE TasksInv' OBVIOUS
<1> USE DEF listVars, passVars
<1>1. tasks \in Nat /\ MaxTasks \in Nat /\ tasks <= MaxTasks /\ tasks' = tasks
  BY TaskAssumption DEF TasksInv, ClockInv, RemoteExecuteEnds
<1>2. /\ remote.slot \in 1 .. tasks /\ remote.task \in Nat /\ remote # NoPush
      /\ remote.start \in 0 .. tasks - 1
  BY <1>1 DEF TasksInv, QueueInv, RemoteExecuteEnds
<1>3. ClockInv' BY <1>1 DEF TasksInv, ClockInv, RemoteExecuteEnds
<1>4. DeadlineInv' BY DEF TasksInv, DeadlineInv, RemoteExecuteEnds, Due
<1>5. ListInv'
  BY <1>1 DEF TasksInv, ListInv, RemoteExecuteEnds, InList, Running
<1>6. overlapped' \in BOOLEAN /\ overlapped' = overlapped
  BY Zenon DEF TasksInv, QueueInv, RemoteExecuteEnds
<1>7. /\ cells' \in [1 .. MaxTasks -> Nat]
      /\ cells' = [cells EXCEPT ![remote.slot] = remote.task]
  BY <1>1, <1>2 DEF TasksInv, QueueInv, RemoteExecuteEnds
<1>8. executed' \in Seq(Nat) /\ executed' = Append(executed, remote.task)
  BY <1>2 DEF TasksInv, QueueInv, RemoteExecuteEnds
<1>9. QueueInv'
  <2>1. /\ remote' \in [task : Nat, slot : 0 .. tasks', start : 0 .. tasks']
        /\ remote' = NoPush
    BY <1>1 DEF RemoteExecuteEnds, NoPush
  <2>2. start' \in 0 .. tasks' /\ finish' \in 0 .. tasks'
    BY <1>1, <1>2 DEF TasksInv, QueueInv, RemoteExecuteEnds
  <2>3. phase' = "task" => start' < tasks'
    BY <1>1, <1>2 DEF TasksInv, QueueInv, RemoteExecuteEnds
  <2> QED BY <1>6, <1>7, <1>8, <2>1, <2>2, <2>3
          DEF TasksInv, QueueInv, RemoteExecuteEnds
<1>10. OrderInv'
  <2> SUFFICES ASSUME ~ overlapped' PROVE OrderInv' BY DEF OrderInv
  <2>1. /\ ~ overlapped /\ remote.slot = finish + 1 /\ finish \in 0 .. tasks
        /\ remote.start = start
    BY <1>2, <1>6 DEF TasksInv, OrderInv, QueueInv
  <2>2. executed \in Seq(Nat) /\ Len(executed) = finish
    BY <2>1 DEF TasksInv, QueueInv, OrderInv
  <2>3. /\ Len(executed') = finish + 1 /\ executed'[finish + 1] = remote.task
        /\ \A i \in 1 .. finish : executed'[i] = executed[i]
    BY <1>2, <1>8, <2>2
  <2>4. ASSUME NEW i \in 1 .. finish' PROVE cells'[i] = executed'[i]
    <3>1. i \in 1 .. MaxTasks /\ finish' = finish + 1
      BY <1>1, <1>2, <2>1 DEF RemoteExecuteEnds
    <3>2. CASE i = finish + 1 BY <1>7, <2>1, <2>3, <3>1, <3>2 DEF TasksInv, QueueInv
    <3>3. CASE i # finish + 1
      <4>1. i \in 1 .. finish BY <2>1, <3>1, <3>3
      <4> QED BY <1>7, <2>1, <2>3, <3>1, <3>3, <4>1 DEF TasksInv, QueueInv, OrderInv
    <3> QED BY <3>2, <3>3
  <2>5. /\ ran' = ran /\ start' = start /\ phase' = phase /\ finish' = finish + 1
        /\ remote' = NoPush
    BY <2>1 DEF RemoteExecuteEnds
  <2>6. Len(ran) \in Nat /\ Len(ran) <= finish
    BY <2>1 DEF TasksInv, QueueInv, OrderInv
  <2>7. ASSUME NEW i \in 1 .. Len(ran') PROVE ran'[i] = executed'[i]
    BY <2>1, <2>3, <2>5, <2>6 DEF TasksInv, OrderInv
  <2> QED BY <2>1, <2>3, <2>4, <2>5, <2>6, <2>7 DEF TasksInv, OrderInv
<1> QED BY <1>3, <1>4, <1>5, <1>9, <1>10 DEF TasksInv

(* Delay adds a task that is in none of the sets yet. *)
LEMMA DelayInv ==
  ASSUME NEW millis \in Nat, TasksInv, Delay(millis)
  PROVE  TasksInv'
<1> USE DEF queueVars, passVars
<1> DEFINE n == Len(delayedTasks)
           new == Delayed(tasks + 1, now + millis)
<1>1. tasks \in Nat /\ MaxTasks \in Nat /\ tasks < MaxTasks /\ tasks' = tasks + 1
  BY TaskAssumption DEF TasksInv, ClockInv, Delay, NewTask
<1>2. now \in Nat /\ now' = now /\ passTime' = passTime /\ it' = it /\ phase' = phase
  BY ClockAssumption DEF TasksInv, ClockInv, Delay
<1>3. delayedTasks \in Seq(DelayedTask) /\ n \in Nat /\ n <= tasks /\ it \in 1 .. n + 1
  BY DEF TasksInv, ClockInv
<1>4. /\ new \in DelayedTask /\ new.task = tasks + 1
      /\ new.due = now + millis /\ new.deadline = Low(now + millis)
  <2>1. Low(now + millis) \in 0 .. Modulus - 1 BY <1>2, LowType
  <2>2. Low(now + millis) \in Nat BY <2>1, ClockAssumption
  <2> QED BY <1>1, <1>2, <2>2 DEF Delayed, DelayedTask
<1> HIDE DEF new
<1>5. /\ delayedTasks' = Append(delayedTasks, new)
      /\ delayedTasks' \in Seq(DelayedTask) /\ Len(delayedTasks') = n + 1
      /\ delayedTasks'[n + 1] = new
      /\ \A i \in 1 .. n : delayedTasks'[i] = delayedTasks[i]
  <2>1. delayedTasks' = Append(delayedTasks, new) BY <1>1 DEF Delay, new
  <2> QED BY <1>3, <1>4, <2>1
<1>6. ClockInv' BY <1>1, <1>2, <1>3, <1>5 DEF TasksInv, ClockInv
<1>7. DeadlineInv'
  <2>1. ASSUME NEW i \in 1 .. Len(delayedTasks')
        PROVE  delayedTasks'[i].deadline = Low(delayedTasks'[i].due)
    <3>1. CASE i = n + 1 BY <1>4, <1>5, <3>1
    <3>2. CASE i \in 1 .. n BY <1>5, <3>2 DEF TasksInv, DeadlineInv
    <3> QED BY <1>3, <1>5, <3>1, <3>2
  <2>2. ASSUME phase' = "delayedTask" PROVE it' <= Len(delayedTasks') /\ Due'
    <3>1. it <= n /\ Due BY <1>2, <2>2 DEF TasksInv, DeadlineInv
    <3>2. delayedTasks'[it] = delayedTasks[it] BY <1>3, <1>5, <3>1
    <3> QED BY <1>2, <1>3, <1>5, <3>1, <3>2 DEF Due
  <2> QED BY <2>1, <2>2 DEF DeadlineInv
<1>8. InList' = InList \cup {tasks + 1}
  <2>1. InList' = {delayedTasks'[i].task : i \in 1 .. n + 1} BY <1>5 DEF InList
  <2>2. \A i \in 1 .. n : delayedTasks'[i].task = delayedTasks[i].task BY <1>5
  <2>3. delayedTasks'[n + 1].task = tasks + 1 BY <1>4, <1>5
  <2>4. 1 .. n + 1 = (1 .. n) \cup {n + 1} BY <1>3
  <2>5. \A x : x \in InList' <=> x \in InList \/ x = tasks + 1
    BY <2>1, <2>2, <2>3, <2>4 DEF InList
  <2> QED BY <2>5
<1>9. Running' = Running
  <2>1. CASE phase = "delayedTask"
    <3>1. it <= n BY <2>1 DEF TasksInv, DeadlineInv
    <3>2. delayedTasks'[it] = delayedTasks[it] BY <1>3, <1>5, <3>1
    <3> QED BY <1>2, <3>2 DEF Running
  <2>2. CASE phase # "delayedTask" BY <1>2, <2>2 DEF Running
  <2> QED BY <2>1, <2>2
<1>10. postponed' = postponed \cup {tasks + 1} /\ done' = done
  BY <1>1 DEF Delay
<1>11. ListInv'
  <2>1. postponed' \subseteq 1 .. tasks' BY <1>1, <1>10 DEF TasksInv, ListInv
  <2>2. tasks + 1 \notin postponed BY <1>1 DEF TasksInv, ListInv
  <2>3. InList' \cap done' = Running' /\ InList' \cup done' = postponed'
    BY <1>8, <1>9, <1>10, <2>2 DEF TasksInv, ListInv
  <2>4. ASSUME NEW i \in 1 .. n PROVE delayedTasks[i].task # tasks + 1
    BY <2>2 DEF TasksInv, ListInv, InList
  <2>5. ASSUME NEW i \in 1 .. Len(delayedTasks'), NEW j \in 1 .. Len(delayedTasks'),
               delayedTasks'[i].task = delayedTasks'[j].task
        PROVE  i = j
    <3>1. CASE i \in 1 .. n /\ j \in 1 .. n BY <1>5, <2>5, <3>1 DEF TasksInv, ListInv
    <3>2. CASE i = n + 1 /\ j \in 1 .. n BY <1>4, <1>5, <2>4, <2>5, <3>2
    <3>3. CASE i \in 1 .. n /\ j = n + 1 BY <1>4, <1>5, <2>4, <2>5, <3>3
    <3>4. CASE i = n + 1 /\ j = n + 1 BY <3>4
    <3> QED BY <1>3, <1>5, <3>1, <3>2, <3>3, <3>4
  <2> QED BY <2>1, <2>3, <2>5 DEF ListInv
<1>12. QueueInv'
  <2>1. overlapped' \in BOOLEAN BY Zenon DEF TasksInv, QueueInv, Delay
  <2>2. /\ remote' \in [task : Nat, slot : 0 .. tasks', start : 0 .. tasks']
        /\ remote' # NoPush => remote'.slot # 0 /\ remote'.start < tasks'
    BY <1>1 DEF TasksInv, QueueInv, Delay
  <2> QED BY <1>1, <2>1, <2>2 DEF TasksInv, QueueInv, Delay
<1>13. OrderInv' BY DEF TasksInv, OrderInv, Delay
<1> QED BY <1>6, <1>7, <1>11, <1>12, <1>13 DEF TasksInv

-----------------------------------------------------------------------------
(* ProceedTasks. *)

LEMMA RunFrontInv == TasksInv /\ RunFront => TasksInv'
<1> SUFFICES ASSUME TasksInv, RunFront PROVE TasksInv' OBVIOUS
<1> USE DEF queueVars, listVars, passVars
<1>1. start \in 0 .. tasks /\ finish \in 0 .. tasks /\ start < finish /\ tasks \in Nat
  BY DEF TasksInv, ClockInv, QueueInv, RunFront
<1>2. tasks <= MaxTasks /\ MaxTasks \in Nat
  BY TaskAssumption DEF TasksInv, ClockInv
<1>3. cells[start + 1] \in Nat /\ ran \in Seq(Nat)
  BY <1>1, <1>2 DEF TasksInv, QueueInv
<1>4. ran' = Append(ran, cells[start + 1]) /\ ran' \in Seq(Nat)
  BY <1>3 DEF RunFront
<1>5. ClockInv' BY DEF TasksInv, ClockInv, RunFront, Phases
<1>6. DeadlineInv' BY DEF TasksInv, DeadlineInv, RunFront
<1>7. ListInv' BY DEF TasksInv, ListInv, RunFront, InList, Running
<1>8. overlapped' \in BOOLEAN /\ (~ overlapped' => ~ overlapped /\ remote = NoPush)
  BY Zenon DEF TasksInv, QueueInv, RunFront, UseQueue
<1>9. QueueInv' BY <1>1, <1>4, <1>8 DEF TasksInv, QueueInv, RunFront
<1>10. OrderInv'
  <2> SUFFICES ASSUME ~ overlapped' PROVE OrderInv' BY DEF OrderInv
  <2>1. ~ overlapped BY <1>8
  <2>2. Len(ran) = start BY <2>1 DEF TasksInv, OrderInv, RunFront
  <2>3. /\ Len(ran') = start + 1 /\ ran'[start + 1] = cells[start + 1]
        /\ \A i \in 1 .. start : ran'[i] = ran[i]
    BY <1>1, <1>3, <1>4, <2>2
  <2>4. ASSUME NEW i \in 1 .. Len(ran') PROVE ran'[i] = executed[i]
    <3>1. CASE i = start + 1 BY <1>1, <2>1, <2>3, <3>1 DEF TasksInv, OrderInv
    <3>2. CASE i \in 1 .. start BY <2>1, <2>2, <2>3, <3>2 DEF TasksInv, OrderInv
    <3> QED BY <1>1, <2>3, <3>1, <3>2
  <2> QED BY <1>1, <2>1, <2>3, <2>4 DEF TasksInv, OrderInv, RunFront
<1> QED BY <1>5, <1>6, <1>7, <1>9, <1>10 DEF TasksInv

LEMMA TaskReturnsInv == TasksInv /\ TaskReturns => TasksInv'
<1> SUFFICES ASSUME TasksInv, TaskReturns PROVE TasksInv' OBVIOUS
<1> USE DEF listVars, passVars
<1>1. start \in 0 .. tasks /\ finish \in 0 .. tasks /\ start < tasks /\ tasks \in Nat
  BY DEF TasksInv, ClockInv, QueueInv, TaskReturns
<1>2. ClockInv' BY DEF TasksInv, ClockInv, TaskReturns, Phases
<1>3. DeadlineInv' BY DEF TasksInv, DeadlineInv, TaskReturns
<1>4. ListInv' BY DEF TasksInv, ListInv, TaskReturns, InList, Running
<1>5. overlapped' \in BOOLEAN /\ (~ overlapped' => ~ overlapped /\ remote = NoPush)
  BY Zenon DEF TasksInv, QueueInv, TaskReturns, UseQueue
<1>6. QueueInv' BY <1>1, <1>5 DEF TasksInv, QueueInv, TaskReturns
<1>7. OrderInv' BY <1>1, <1>5 DEF TasksInv, OrderInv, TaskReturns
<1> QED BY <1>2, <1>3, <1>4, <1>6, <1>7 DEF TasksInv

(* The steps that leave the numbered tasks of the queue alone. *)
LEMMA QueueUsed ==
  ASSUME TasksInv, phase' = "task" <=> phase = "task",
         overlapped' = overlapped \/ UseQueue,
         UNCHANGED <<cells, start, finish, executed, remote, tasks, ran>>
  PROVE  QueueInv' /\ OrderInv'
<1>1. overlapped' \in BOOLEAN /\ (~ overlapped' => ~ overlapped)
  BY Zenon DEF TasksInv, QueueInv, UseQueue
<1>2. QueueInv' BY <1>1 DEF TasksInv, QueueInv
<1>3. OrderInv' BY <1>1 DEF TasksInv, OrderInv
<1> QED BY <1>2, <1>3

LEMMA QueueKept ==
  ASSUME TasksInv, phase # "task", phase' # "task",
         UNCHANGED <<queueVars, remote, tasks, ran>>
  PROVE  QueueInv' /\ OrderInv'
BY QueueUsed DEF queueVars

LEMMA ListKept ==
  ASSUME TasksInv, phase # "delayedTask", phase' # "delayedTask",
         UNCHANGED <<listVars, tasks, done>>
  PROVE  ListInv' /\ DeadlineInv'
BY DEF TasksInv, ListInv, DeadlineInv, listVars, InList, Running

LEMMA ExecuteRepeatingInv == TasksInv /\ ExecuteRepeating => TasksInv'
<1> SUFFICES ASSUME TasksInv, ExecuteRepeating PROVE TasksInv' OBVIOUS
<1> USE DEF listVars, passVars
<1>1. ClockInv' BY DEF TasksInv, ClockInv, ExecuteRepeating
<1>2. DeadlineInv' BY DEF TasksInv, DeadlineInv, ExecuteRepeating, Due
<1>3. ListInv' BY DEF TasksInv, ListInv, ExecuteRepeating, InList, Running
<1>4. QueueInv' /\ OrderInv' BY QueueUsed DEF ExecuteRepeating
<1> QED BY <1>1, <1>2, <1>3, <1>4 DEF TasksInv

LEMMA RepeatingInv == TasksInv /\ (RunRepeating \/ RepeatingReturns) => TasksInv'
<1> SUFFICES ASSUME TasksInv, RunRepeating \/ RepeatingReturns PROVE TasksInv' OBVIOUS
<1>1. /\ phase \in {"immediate", "repeated"} /\ phase' \in {"immediate", "repeated"}
      /\ UseQueue
      /\ UNCHANGED <<now, cells, start, finish, executed, listVars, passVars, remote,
                     tasks, ran, done>>
  BY DEF RunRepeating, RepeatingReturns
<1>2. ClockInv' BY <1>1 DEF TasksInv, ClockInv, Phases, listVars, passVars
<1>3. QueueInv' /\ OrderInv' BY <1>1, QueueUsed
<1>4. ListInv' /\ DeadlineInv' BY <1>1, ListKept
<1> QED BY <1>2, <1>3, <1>4 DEF TasksInv

LEMMA StartPassInv == TasksInv /\ StartPass => TasksInv'
<1> SUFFICES ASSUME TasksInv, StartPass PROVE TasksInv' OBVIOUS
<1> USE DEF queueVars, listVars, passVars
<1>1. ClockInv'
  <2>1. now \in Nat /\ Len(delayedTasks) \in Nat BY ClockAssumption DEF TasksInv, ClockInv
  <2>2. CASE delayedTasks = <<>> BY <2>2 DEF TasksInv, ClockInv, StartPass, Phases
  <2>3. CASE delayedTasks # <<>> BY <2>1, <2>3 DEF TasksInv, ClockInv, StartPass, Phases
  <2> QED BY <2>2, <2>3
<1>2. /\ phase \notin {"task", "delayedTask"} /\ phase' \notin {"task", "delayedTask"}
      /\ UNCHANGED <<queueVars, listVars, remote, tasks, ran, done>>
  BY DEF StartPass
<1>3. QueueInv' /\ OrderInv' BY <1>2, QueueKept
<1>4. ListInv' /\ DeadlineInv' BY <1>2, ListKept
<1> QED BY <1>1, <1>3, <1>4 DEF TasksInv

LEMMA PassOverInv == TasksInv /\ PassOver => TasksInv'
<1> SUFFICES ASSUME TasksInv, PassOver PROVE TasksInv' OBVIOUS
<1> USE DEF queueVars, listVars
<1>1. ClockInv' BY DEF TasksInv, ClockInv, PassOver
<1>2. /\ phase \notin {"task", "delayedTask"} /\ phase' \notin {"task", "delayedTask"}
      /\ UNCHANGED <<queueVars, listVars, remote, tasks, ran, done>>
  BY DEF PassOver
<1>3. QueueInv' /\ OrderInv' BY <1>2, QueueKept
<1>4. ListInv' /\ DeadlineInv' BY <1>2, ListKept
<1> QED BY <1>1, <1>3, <1>4 DEF TasksInv

LEMMA EndPassInv == TasksInv /\ EndPass => TasksInv'
<1> SUFFICES ASSUME TasksInv, EndPass PROVE TasksInv' OBVIOUS
<1> USE DEF queueVars, listVars, passVars
<1>1. ClockInv' BY DEF TasksInv, ClockInv, EndPass, Phases
<1>2. /\ phase \notin {"task", "delayedTask"} /\ phase' \notin {"task", "delayedTask"}
      /\ UNCHANGED <<queueVars, listVars, remote, tasks, ran, done>>
  BY DEF EndPass
<1>3. QueueInv' /\ OrderInv' BY <1>2, QueueKept
<1>4. ListInv' /\ DeadlineInv' BY <1>2, ListKept
<1> QED BY <1>1, <1>3, <1>4 DEF TasksInv

(* The task is in the list and was not done: while it runs it is both. *)
LEMMA RunDelayedInv == TasksInv /\ RunDelayed => TasksInv'
<1> SUFFICES ASSUME TasksInv, RunDelayed PROVE TasksInv' OBVIOUS
<1> USE DEF queueVars, listVars
<1>1. ClockInv' BY DEF TasksInv, ClockInv, RunDelayed, Phases
<1>2. DeadlineInv' BY DEF TasksInv, DeadlineInv, RunDelayed, Due
<1>3. QueueInv' /\ OrderInv' BY QueueKept DEF RunDelayed
<1>4. it \in 1 .. Len(delayedTasks) BY DEF TasksInv, ClockInv, RunDelayed
<1>5. delayedTasks[it].task \in InList BY <1>4 DEF InList
<1>6. InList \cap done = {} BY DEF TasksInv, ListInv, Running, RunDelayed
<1>7. /\ InList' = InList /\ done' = done \cup {delayedTasks[it].task}
      /\ Running' = {delayedTasks[it].task} /\ postponed' = postponed
  BY DEF RunDelayed, InList, Running
<1>8. InList' \cap done' = Running' /\ InList' \cup done' = postponed'
  BY <1>5, <1>6, <1>7 DEF TasksInv, ListInv
<1>9. ListInv' BY <1>7, <1>8 DEF TasksInv, ListInv, RunDelayed
<1> QED BY <1>1, <1>2, <1>3, <1>9 DEF TasksInv

(* The node of the task that ran leaves the list, and nothing else does,    *)
(* although the task may have added others behind it.                       *)
LEMMA DelayedTaskReturnsInv ==
  ASSUME NEW goesOn \in BOOLEAN, TasksInv, DelayedTaskReturns(goesOn)
  PROVE  TasksInv'
<1> USE DEF queueVars, passVars
<1> DEFINE n == Len(delayedTasks)
           gone == delayedTasks[it].task
<1>1. /\ delayedTasks \in Seq(DelayedTask) /\ n \in Nat /\ it \in 1 .. n
      /\ phase = "delayedTask"
  BY DEF TasksInv, ClockInv, DeadlineInv, DelayedTaskReturns
<1>2. phase' \in {"pass", "proceeded"} BY DEF DelayedTaskReturns
<1>3. delayedTasks' = Erased BY DEF DelayedTaskReturns
<1>4. /\ delayedTasks' \in Seq(DelayedTask) /\ Len(delayedTasks') = n - 1
      /\ \A i \in 1 .. n - 1 :
           delayedTasks'[i] = IF i < it THEN delayedTasks[i] ELSE delayedTasks[i + 1]
  BY <1>1, <1>3, ErasedList
<1>5. ClockInv'
  BY <1>1, <1>2, <1>4 DEF TasksInv, ClockInv, DelayedTaskReturns, Phases
<1>6. DeadlineInv'
  <2>1. ASSUME NEW i \in 1 .. n - 1
        PROVE  delayedTasks'[i].deadline = Low(delayedTasks'[i].due)
    <3>1. i \in 1 .. n /\ i + 1 \in 1 .. n BY <1>1
    <3> QED BY <1>4, <3>1 DEF TasksInv, DeadlineInv
  <2> QED BY <1>2, <1>4, <2>1 DEF DeadlineInv
<1>7. QueueInv' /\ OrderInv'
  <2>1. phase # "task" /\ phase' # "task" BY <1>1, <1>2
  <2> QED BY <2>1, QueueKept DEF DelayedTaskReturns
<1>8. \A i, j \in 1 .. n : delayedTasks[i].task = delayedTasks[j].task => i = j
  BY DEF TasksInv, ListInv
<1>9. InList' = InList \ {gone}
  <2>1. InList' = {delayedTasks'[i].task : i \in 1 .. n - 1} BY <1>4 DEF InList
  <2>2. ASSUME NEW i \in 1 .. n - 1
        PROVE  delayedTasks'[i].task \in InList \ {gone}
    <3>1. CASE i < it
      <4>1. i \in 1 .. n /\ i # it BY <1>1, <3>1
      <4> QED BY <1>1, <1>4, <1>8, <3>1, <4>1 DEF InList
    <3>2. CASE ~ (i < it)
      <4>1. i + 1 \in 1 .. n /\ i + 1 # it BY <1>1, <3>2
      <4> QED BY <1>1, <1>4, <1>8, <3>2, <4>1 DEF InList
    <3> QED BY <3>1, <3>2
  <2>3. ASSUME NEW x \in InList, x # gone PROVE x \in InList'
    <3>1. PICK i \in 1 .. n : x = delayedTasks[i].task BY DEF InList
    <3>2. i # it BY <2>3, <3>1
    <3>3. CASE i < it
      <4>1. i \in 1 .. n - 1 BY <1>1, <3>3
      <4> QED BY <1>4, <2>1, <3>1, <3>3, <4>1
    <3>4. CASE i > it
      <4>1. i - 1 \in 1 .. n - 1 /\ ~ (i - 1 < it) /\ (i - 1) + 1 = i BY <1>1, <3>4
      <4>2. delayedTasks'[i - 1] = delayedTasks[i] BY <1>4, <4>1
      <4> QED BY <2>1, <3>1, <4>1, <4>2
    <3> QED BY <1>1, <3>2, <3>3, <3>4
  <2> QED BY <2>1, <2>2, <2>3
<1>10. InList \cap done = {gone} /\ InList \cup done = postponed
  BY <1>1 DEF TasksInv, ListInv, Running
<1>11. ListInv'
  <2>1. Running' = {} /\ done' = done /\ postponed' = postponed /\ tasks' = tasks
    BY <1>2 DEF Running, DelayedTaskReturns
  <2>2. InList' \cap done' = Running' /\ InList' \cup done' = postponed'
    BY <1>9, <1>10, <2>1
  <2>3. ASSUME NEW i \in 1 .. n - 1, NEW j \in 1 .. n - 1,
               delayedTasks'[i].task = delayedTasks'[j].task
        PROVE  i = j
    <3> DEFINE k == IF i < it THEN i ELSE i + 1
               l == IF j < it THEN j ELSE j + 1
    <3>1. k \in 1 .. n /\ l \in 1 .. n BY <1>1
    <3>2. delayedTasks'[i] = delayedTasks[k] /\ delayedTasks'[j] = delayedTasks[l]
      BY <1>4
    <3>3. k = l
      <4> HIDE DEF k, l
      <4> QED BY <1>8, <2>3, <3>1, <3>2
    <3> QED BY <1>1, <3>3
  <2> QED BY <1>4, <2>1, <2>2, <2>3 DEF TasksInv, ListInv
<1> QED BY <1>5, <1>6, <1>7, <1>11 DEF TasksInv

LEMMA ProceedTasksInv == TasksInv /\ ProceedTasks => TasksInv'
BY RunFrontInv, TaskReturnsInv, RepeatingInv, StartPassInv, PassOverInv, RunDelayedInv,
   EndPassInv, DelayedTaskReturnsInv, Zenon DEF ProceedTasks

-----------------------------------------------------------------------------
(* The clock, and what the rest of the server does. *)

LEMMA TickInv == TasksInv /\ Tick => TasksInv'
<1> SUFFICES ASSUME TasksInv, Tick PROVE TasksInv' OBVIOUS
<1> USE DEF queueVars, listVars, passVars
<1>1. ClockInv' BY ClockAssumption DEF TasksInv, ClockInv, Tick
<1>2. DeadlineInv' BY DEF TasksInv, DeadlineInv, Tick, Due
<1>3. ListInv' BY DEF TasksInv, ListInv, Tick, InList, Running
<1>4. overlapped' = overlapped /\ overlapped' \in BOOLEAN
  BY Zenon DEF TasksInv, QueueInv, Tick
<1>5. QueueInv' BY <1>4 DEF TasksInv, QueueInv, Tick
<1>6. OrderInv' BY <1>4 DEF TasksInv, OrderInv, Tick
<1> QED BY <1>1, <1>2, <1>3, <1>5, <1>6 DEF TasksInv

(* The loop thread calls ProceedTasks or returns from it. *)
LEMMA CallInv ==
  ASSUME TasksInv, phase \in {"away", "proceeded"}, phase' \in {"away", "immediate"},
         UNCHANGED <<now, queueVars, listVars, passVars, remote, tasks, ran, done>>
  PROVE  TasksInv'
<1>1. ClockInv' BY DEF TasksInv, ClockInv, Phases, listVars, passVars
<1>2. QueueInv' /\ OrderInv' BY QueueKept
<1>3. ListInv' /\ DeadlineInv' BY ListKept
<1> QED BY <1>1, <1>2, <1>3 DEF TasksInv

LEMMA TasksStutter == TasksInv /\ UNCHANGED taskVars => TasksInv'
<1> SUFFICES ASSUME TasksInv, UNCHANGED taskVars PROVE TasksInv' OBVIOUS
<1> USE DEF taskVars, queueVars, listVars, passVars
<1>1. ClockInv' BY DEF TasksInv, ClockInv
<1>2. DeadlineInv' BY DEF TasksInv, DeadlineInv, Due
<1>3. ListInv' BY DEF TasksInv, ListInv, InList, Running
<1>4. overlapped' = overlapped /\ overlapped' \in BOOLEAN BY Zenon DEF TasksInv, QueueInv
<1>5. QueueInv' BY <1>4 DEF TasksInv, QueueInv
<1>6. OrderInv' BY <1>4 DEF TasksInv, OrderInv
<1> QED BY <1>1, <1>2, <1>3, <1>5, <1>6 DEF TasksInv

-----------------------------------------------------------------------------
(* What the invariant says of the properties. *)

LEMMA TasksInvType == TasksInv => TasksTypeOK
<1> SUFFICES ASSUME TasksInv PROVE TasksTypeOK OBVIOUS
<1>1. tasks \in Nat /\ MaxTasks \in Nat /\ tasks <= MaxTasks
  BY TaskAssumption DEF TasksInv, ClockInv
<1>2. start \in 0 .. MaxTasks /\ finish \in 0 .. MaxTasks
  BY <1>1 DEF TasksInv, QueueInv
<1>3. ASSUME NEW i \in 1 .. Len(delayedTasks)
      PROVE  delayedTasks[i].task \in 1 .. tasks /\ delayedTasks[i].deadline \in 0 .. Modulus - 1
  <2>1. delayedTasks[i] \in DelayedTask BY DEF TasksInv, ClockInv
  <2>2. delayedTasks[i].due \in Nat BY <2>1 DEF DelayedTask
  <2>3. delayedTasks[i].deadline \in 0 .. Modulus - 1
    BY <2>2, LowType DEF TasksInv, DeadlineInv
  <2>4. delayedTasks[i].task \in InList BY DEF InList
  <2> QED BY <2>3, <2>4 DEF TasksInv, ListInv
<1>4. it \in 1 .. MaxTasks + 1 BY <1>1 DEF TasksInv, ClockInv
<1> QED BY <1>2, <1>3, <1>4 DEF TasksInv, ClockInv, TasksTypeOK, Phases

LEMMA TasksInvConserved == TasksInv => TasksConserved
<1> SUFFICES ASSUME TasksInv PROVE TasksConserved OBVIOUS
<1>1. ASSUME ~ overlapped PROVE ran \o Waiting = executed
  <2> DEFINE m == Len(ran)
  <2>1. /\ start \in Nat /\ finish \in Nat /\ tasks \in Nat /\ finish <= MaxTasks
        /\ MaxTasks \in Nat /\ start <= finish
        /\ cells \in [1 .. MaxTasks -> Nat]
        /\ executed \in Seq(Nat) /\ ran \in Seq(Nat) /\ m \in Nat
    <3>1. tasks \in 0 .. MaxTasks /\ MaxTasks \in Nat
      BY TaskAssumption DEF TasksInv, ClockInv
    <3>2. /\ start \in 0 .. tasks /\ finish \in 0 .. tasks
          /\ cells \in [1 .. MaxTasks -> Nat]
          /\ executed \in Seq(Nat) /\ ran \in Seq(Nat)
      BY DEF TasksInv, QueueInv
    <3>3. m <= finish /\ m = (IF phase = "task" THEN start + 1 ELSE start)
      BY <1>1 DEF TasksInv, OrderInv
    <3>4. m \in Nat BY <3>2
    <3> HIDE DEF m
    <3>5. start <= finish BY <3>1, <3>2, <3>3, <3>4
    <3> QED BY <3>1, <3>2, <3>4, <3>5
  <2>2. /\ Len(executed) = finish
        /\ \A i \in 1 .. finish : cells[i] = executed[i]
        /\ m = (IF phase = "task" THEN start + 1 ELSE start) /\ m <= finish
        /\ \A i \in 1 .. m : ran[i] = executed[i]
    BY <1>1 DEF TasksInv, OrderInv
  <2>3. cells \in Seq(Nat) /\ Len(cells) = MaxTasks
    BY <2>1, IsASeq, LenProperties
  <2>4. /\ Queued \in Seq(Nat) /\ Len(Queued) = finish - start
        /\ \A i \in 1 .. finish - start : Queued[i] = cells[start + i]
    BY <2>1, <2>3 DEF Queued
  <2>5. /\ Waiting \in Seq(Nat) /\ Len(Waiting) = finish - m
        /\ \A i \in 1 .. finish - m : Waiting[i] = cells[m + i]
    <3>1. CASE phase = "task"
      <4>1. m = start + 1 BY <2>2, <3>1
      <4>2. Queued # <<>> /\ Len(Queued) > 0 BY <2>1, <2>2, <2>4, <4>1
      <4>3. Waiting = Tail(Queued) BY <3>1 DEF Waiting
      <4> HIDE DEF m
      <4>4. /\ Waiting \in Seq(Nat) /\ Len(Waiting) = (finish - start) - 1
            /\ \A i \in 1 .. (finish - start) - 1 : Waiting[i] = Queued[i + 1]
        BY <2>1, <2>4, <4>2, <4>3
      <4>5. ASSUME NEW i \in 1 .. finish - m PROVE Waiting[i] = cells[m + i]
        <5>1. i \in 1 .. (finish - start) - 1 /\ i + 1 \in 1 .. finish - start
              /\ start + (i + 1) = m + i
          BY <2>1, <4>1
        <5> QED BY <2>4, <4>4, <5>1
      <4> QED BY <2>1, <4>1, <4>4, <4>5
    <3>2. CASE phase # "task" BY <2>2, <2>4, <3>2 DEF Waiting
    <3> QED BY <3>1, <3>2
  <2>6. ran \o Waiting \in Seq(Nat) /\ Len(ran \o Waiting) = finish
    <3>1. ran \o Waiting \in Seq(Nat) /\ Len(ran \o Waiting) = m + Len(Waiting)
      BY <2>1, <2>5, ConcatProperties
    <3> QED BY <2>1, <2>5, <3>1
  <2>7. ASSUME NEW i \in 1 .. finish PROVE (ran \o Waiting)[i] = executed[i]
    <3>1. (ran \o Waiting)[i] = IF i <= m THEN ran[i] ELSE Waiting[i - m]
      <4>1. i \in 1 .. m + Len(Waiting) BY <2>1, <2>5
      <4> QED BY <2>1, <2>5, <4>1, ConcatProperties
    <3>2. CASE i <= m
      <4>1. i \in 1 .. m BY <2>1, <3>2
      <4> QED BY <2>2, <3>1, <3>2, <4>1
    <3>3. CASE ~ (i <= m)
      <4>1. i - m \in 1 .. finish - m /\ m + (i - m) = i BY <2>1, <3>3
      <4> QED BY <2>2, <2>5, <3>1, <3>3, <4>1
    <3> QED BY <3>2, <3>3
  <2> QED BY <2>1, <2>2, <2>6, <2>7, SeqEqual
<1>2. /\ InList \cap done = Running /\ InList \cup done = postponed
      /\ \A i, j \in 1 .. Len(delayedTasks) :
           delayedTasks[i].task = delayedTasks[j].task => i = j
  BY DEF TasksInv, ListInv
<1> QED BY <1>1, <1>2 DEF TasksConserved

LEMMA TasksInvNeverEarly == TasksInv => NeverEarly
<1> SUFFICES ASSUME TasksInv, phase = "delayedTask",
                    ~ (delayedTasks[it].due \div Modulus > passTime \div Modulus)
             PROVE  delayedTasks[it].due <= now
  BY DEF NeverEarly
<1>1. it \in 1 .. Len(delayedTasks) /\ Due
  BY DEF TasksInv, ClockInv, DeadlineInv
<1>2. delayedTasks[it] \in DelayedTask BY <1>1 DEF TasksInv, ClockInv
<1>3. delayedTasks[it].due \in Nat BY <1>2 DEF DelayedTask
<1>4. Low(delayedTasks[it].due) <= Low(passTime)
  BY <1>1 DEF TasksInv, DeadlineInv, Due
<1>5. passTime \in Nat /\ now \in Nat /\ passTime <= now
  BY ClockAssumption DEF TasksInv, ClockInv
<1>6. delayedTasks[it].due \div Modulus <= passTime \div Modulus
  BY <1>3, <1>5, ClockAssumption
<1>7. delayedTasks[it].due <= passTime BY <1>3, <1>4, <1>5, <1>6, Wrapped
<1> QED BY <1>3, <1>5, <1>7

-----------------------------------------------------------------------------
(* The listener, and the loop that joins the parts. *)

(* Before the destructor runs. *)
InUse == listener \in {"constructed", "bound", "wait", "accept"}

(* The kernel keeps number 0 for standard input until the destructor runs;  *)
(* the numbers a listener keeps are its own from the failed or successful   *)
(* Bind that stored them until accept4 fails or it closes them.             *)
NumbersInv ==
  /\ acceptFailed => listener = "wait"
  /\ InUse => table[0] = "stdin" /\ (~ acceptFailed => foreign = {})
  /\ listener \in {"constructed", "epollClosed"} =>
       /\ socketFileDescriptor = 0 => epollFileDescriptor = 0
       /\ socketFileDescriptor > 0 => table[socketFileDescriptor] = "socket"
  /\ listener = "constructed" =>
       /\ epollFileDescriptor > 0 => table[epollFileDescriptor] = "epoll"
       /\ ~ bindFailed => socketFileDescriptor = 0 /\ epollFileDescriptor = 0
  /\ listener \in {"bound", "wait", "accept"} /\ ~ acceptFailed =>
       socketFileDescriptor \in Numbers /\ epollFileDescriptor \in Numbers

GhostInv == bindFailed \in BOOLEAN /\ acceptFailed \in BOOLEAN

ListenerInv == ListenerTypeOK /\ GhostInv /\ NumbersInv /\ ListenerDescriptors

LoopInv ==
  /\ loop \in {"tasks", "wait", "events", "endless"}
  /\ signals \subseteq Peers
  /\ reading \in Peers \cup {NoPeer}

IInv == TasksInv /\ ListenerInv /\ LoopInv

-----------------------------------------------------------------------------
(* The descriptor table. *)

LEMMA NumbersFinite ==
  /\ Numbers \subseteq Nat /\ IsFiniteSet(Numbers) /\ 0 \in Numbers /\ 1 \in Numbers
<1>1. Descriptors - 1 \in Int /\ 0 \in Int BY DescriptorAssumption
<1>2. IsFiniteSet(Numbers) BY <1>1, FS_Interval DEF Numbers
<1> QED BY <1>2, DescriptorAssumption DEF Numbers

(* The kernel hands out a number of the set of free ones. *)
LEMMA LowestOf ==
  ASSUME NEW F, F \subseteq Numbers, F # {}
  PROVE  Lowest(F) \in F
<1>1. F \subseteq Nat BY NumbersFinite
<1>2. \E n \in F : \A m \in F : n <= m BY <1>1, LeastNatural
<1>3. Min(F) \in F BY <1>2 DEF Min
<1> QED BY <1>3 DEF Lowest

LEMMA LowestNone == Lowest({}) = -1
BY DEF Lowest

(* A Bind that needs two numbers gets two different ones. *)
LEMMA TwoFree ==
  ASSUME NEW F, F \subseteq Numbers, Cardinality(F) >= 2
  PROVE  F # {} /\ \A s \in F : F \ {s} # {}
<1>1. IsFiniteSet(F) BY NumbersFinite, FS_Subset
<1>2. Cardinality(F) \in Nat BY <1>1, FS_CardinalityType
<1>3. F # {} BY FS_EmptySet
<1>4. ASSUME NEW s \in F PROVE F \ {s} # {}
  <2>1. Cardinality(F \ {s}) = Cardinality(F) - 1 BY <1>1, FS_RemoveElement
  <2> QED BY <1>2, <2>1, FS_EmptySet
<1> QED BY <1>3, <1>4

-----------------------------------------------------------------------------
(* The initial state. *)

LEMMA ListenerInitInv == ListenerInit => ListenerInv
<1> SUFFICES ASSUME ListenerInit PROVE ListenerInv OBVIOUS
<1>1. 0 \in Numbers /\ 1 \in Numbers /\ Numbers \subseteq Nat BY NumbersFinite
<1>2. table \in [Numbers -> {"free", "stdin", "loop"}] /\ table[0] = "stdin"
  BY <1>1 DEF ListenerInit
<1>3. table \in [Numbers -> Peers \cup Others] BY <1>2 DEF Others
<1>4. ListenerTypeOK BY <1>3, DescriptorAssumption DEF ListenerInit, ListenerTypeOK
<1>5. GhostInv BY Zenon DEF ListenerInit, GhostInv
<1>6. acceptFailed = FALSE /\ bindFailed = FALSE BY DEF ListenerInit
<1>7. NumbersInv BY <1>2, <1>6 DEF ListenerInit, NumbersInv, InUse
<1>8. ListenerDescriptors
  <2>1. \A f \in Numbers : table[f] \notin {"socket", "epoll"} BY <1>2
  <2> QED BY <2>1 DEF ListenerInit, ListenerDescriptors
<1> QED BY <1>4, <1>5, <1>7, <1>8 DEF ListenerInv

-----------------------------------------------------------------------------
(* The listener's actions. *)

(* A step that opens and closes numbers of others only, and leaves the      *)
(* listener where it is or inside StartListening.                           *)
LEMMA OthersStep ==
  ASSUME ListenerInv,
         table' \in [Numbers -> Peers \cup Others],
         \A f \in Numbers : table[f] \in {"socket", "epoll", "stdin"} => table'[f] = table[f],
         \A f \in Numbers : table'[f] \in {"socket", "epoll"} => table'[f] = table[f],
         backlog' \in Seq(Clients),
         \/ listener' = listener
         \/ /\ listener \in {"bound", "wait", "accept"} /\ ~ acceptFailed
            /\ listener' \in {"wait", "accept"},
         UNCHANGED <<socketFileDescriptor, epollFileDescriptor, bindFailed,
                     acceptFailed, foreign>>
  PROVE  ListenerInv'
<1>1. 0 \in Numbers BY NumbersFinite
<1>2. acceptFailed' = acceptFailed /\ bindFailed' = bindFailed
      /\ acceptFailed' \in BOOLEAN /\ bindFailed' \in BOOLEAN
  BY Zenon DEF ListenerInv, GhostInv
<1>3. GhostInv' BY <1>2, Zenon DEF GhostInv
<1>4. ListenerTypeOK' BY DEF ListenerInv, ListenerTypeOK
<1>5. /\ socketFileDescriptor \in -1 .. Descriptors - 1
      /\ epollFileDescriptor \in -1 .. Descriptors - 1
      /\ socketFileDescriptor > 0 => socketFileDescriptor \in Numbers
      /\ epollFileDescriptor > 0 => epollFileDescriptor \in Numbers
  BY DescriptorAssumption DEF ListenerInv, ListenerTypeOK, Numbers
<1>6. listener' = listener \/ (listener' \in {"wait", "accept"} /\ InUse /\ ~ acceptFailed)
  BY DEF InUse
<1>7. InUse' => InUse BY <1>6 DEF InUse
<1>8. NumbersInv'
  <2>1. InUse' => table'[0] = "stdin" /\ (~ acceptFailed' => foreign' = {})
    BY <1>1, <1>2, <1>7 DEF ListenerInv, NumbersInv
  <2>2. acceptFailed' => listener' = "wait"
    BY <1>2, <1>6 DEF ListenerInv, NumbersInv
  <2>3. listener' \in {"constructed", "epollClosed"} =>
          /\ socketFileDescriptor' = 0 => epollFileDescriptor' = 0
          /\ socketFileDescriptor' > 0 => table'[socketFileDescriptor'] = "socket"
    BY <1>5, <1>6 DEF ListenerInv, NumbersInv
  <2>4. listener' = "constructed" =>
          /\ epollFileDescriptor' > 0 => table'[epollFileDescriptor'] = "epoll"
          /\ ~ bindFailed' => socketFileDescriptor' = 0 /\ epollFileDescriptor' = 0
    BY <1>2, <1>5, <1>6 DEF ListenerInv, NumbersInv
  <2>5. listener' \in {"bound", "wait", "accept"} /\ ~ acceptFailed' =>
          socketFileDescriptor' \in Numbers /\ epollFileDescriptor' \in Numbers
    BY <1>2 DEF ListenerInv, NumbersInv
  <2> QED BY <2>1, <2>2, <2>3, <2>4, <2>5 DEF NumbersInv
<1>9. ListenerDescriptors'
  <2>1. listener' \in {"bound", "wait", "accept"} /\ ~ acceptFailed' =>
          /\ table'[socketFileDescriptor'] = "socket"
          /\ table'[epollFileDescriptor'] = "epoll"
    BY <1>2 DEF ListenerInv, NumbersInv, ListenerDescriptors
  <2>2. /\ ~ acceptFailed' =>
             /\ foreign' # {} => epollFileDescriptor' = 0
             /\ foreign' \ {"stdin"} # {} => socketFileDescriptor' = 0
        /\ acceptFailed' => foreign' \subseteq {"otherloop"}
    BY <1>2 DEF ListenerInv, ListenerDescriptors
  <2>3. ASSUME NEW f \in Numbers, table'[f] \in {"socket", "epoll"}
        PROVE  f \in {socketFileDescriptor', epollFileDescriptor'} \/ bindFailed'
    BY <1>2, <2>3 DEF ListenerInv, ListenerDescriptors
  <2> QED BY <2>1, <2>2, <2>3 DEF ListenerDescriptors
<1> QED BY <1>3, <1>4, <1>8, <1>9 DEF ListenerInv

LEMMA ListenerStutter == ListenerInv /\ UNCHANGED listenerVars => ListenerInv'
<1> SUFFICES ASSUME ListenerInv, UNCHANGED listenerVars PROVE ListenerInv' OBVIOUS
<1> USE DEF listenerVars
<1>1. table' \in [Numbers -> Peers \cup Others] /\ backlog' \in Seq(Clients)
  BY DEF ListenerInv, ListenerTypeOK
<1> QED BY <1>1, OthersStep

(* A free number is given to a peer, to a socket nobody keeps or to another *)
(* event loop.                                                              *)
LEMMA HandedOut ==
  ASSUME ListenerInv, Free # {}, NEW what \in Peers \cup {"unconnected", "otherloop"},
         table' = [table EXCEPT ![Lowest(Free)] = what], backlog' \in Seq(Clients),
         UNCHANGED <<socketFileDescriptor, epollFileDescriptor, listener,
                     bindFailed, acceptFailed, foreign>>
  PROVE  ListenerInv'
<1>1. Lowest(Free) \in Numbers /\ table[Lowest(Free)] = "free" BY LowestOf DEF Free
<1>2. table \in [Numbers -> Peers \cup Others] BY DEF ListenerInv, ListenerTypeOK
<1>3. what \in Peers \cup Others /\ what \notin {"socket", "epoll"}
  BY PeerAssumption DEF Others
<1>4. table' \in [Numbers -> Peers \cup Others] BY <1>1, <1>2, <1>3
<1>5. \A f \in Numbers : table[f] \in {"socket", "epoll", "stdin"} => table'[f] = table[f]
  BY <1>1, <1>2
<1>6. \A f \in Numbers : table'[f] \in {"socket", "epoll"} => table'[f] = table[f]
  BY <1>1, <1>2, <1>3
<1> QED BY <1>4, <1>5, <1>6, OthersStep

LEMMA AcceptClientInv ==
  ASSUME NEW c \in Clients, ListenerInv, AcceptClient(c)
  PROVE  ListenerInv'
<1>1. backlog' \in Seq(Clients)
  BY DEF ListenerInv, ListenerTypeOK, AcceptClient
<1>2. c \in Peers \cup {"unconnected", "otherloop"} BY DEF Peers
<1> QED BY <1>1, <1>2, HandedOut DEF AcceptClient

LEMMA ConnectInv ==
  ASSUME NEW r \in Servers, ListenerInv, Connect(r)
  PROVE  ListenerInv'
<1>1. backlog' \in Seq(Clients) BY DEF ListenerInv, ListenerTypeOK, Connect
<1>2. r \in Peers \cup {"unconnected", "otherloop"} BY DEF Peers
<1> QED BY <1>1, <1>2, HandedOut DEF Connect

LEMMA ConnectFailsInv == ListenerInv /\ ConnectFails => ListenerInv'
<1> SUFFICES ASSUME ListenerInv, ConnectFails PROVE ListenerInv' OBVIOUS
<1>1. backlog' \in Seq(Clients) BY DEF ListenerInv, ListenerTypeOK, ConnectFails
<1>2. "unconnected" \in Peers \cup {"unconnected", "otherloop"} OBVIOUS
<1> QED BY <1>1, <1>2, HandedOut DEF ConnectFails

LEMMA OtherLoopInv == ListenerInv /\ OtherLoop => ListenerInv'
<1> SUFFICES ASSUME ListenerInv, OtherLoop PROVE ListenerInv' OBVIOUS
<1>1. backlog' \in Seq(Clients) BY DEF ListenerInv, ListenerTypeOK, OtherLoop
<1>2. "otherloop" \in Peers \cup {"unconnected", "otherloop"} OBVIOUS
<1> QED BY <1>1, <1>2, HandedOut DEF OtherLoop

LEMMA ConnectionClosedInv ==
  ASSUME NEW p \in Peers, ListenerInv, ConnectionClosed(p)
  PROVE  ListenerInv'
<1>1. backlog' \in Seq(Clients) BY DEF ListenerInv, ListenerTypeOK, ConnectionClosed
<1>2. table \in [Numbers -> Peers \cup Others] BY DEF ListenerInv, ListenerTypeOK
<1>3. table' = [f \in Numbers |-> IF table[f] = p THEN "free" ELSE table[f]]
  BY DEF ConnectionClosed
<1>4. p \notin {"socket", "epoll", "stdin"} BY PeerAssumption DEF Others
<1>5. table' \in [Numbers -> Peers \cup Others] BY <1>2, <1>3 DEF Others
<1>6. \A f \in Numbers : table[f] \in {"socket", "epoll", "stdin"} => table'[f] = table[f]
  BY <1>3, <1>4
<1>7. \A f \in Numbers : table'[f] \in {"socket", "epoll"} => table'[f] = table[f]
  BY <1>3
<1> QED BY <1>1, <1>5, <1>6, <1>7, OthersStep DEF ConnectionClosed

LEMMA ClientConnectsInv ==
  ASSUME NEW c \in Clients, ListenerInv, ClientConnects(c)
  PROVE  ListenerInv'
<1>1. backlog' \in Seq(Clients) /\ table' \in [Numbers -> Peers \cup Others]
  BY DEF ListenerInv, ListenerTypeOK, ClientConnects
<1> QED BY <1>1, OthersStep DEF ClientConnects

LEMMA StartListeningInv == ListenerInv /\ StartListening => ListenerInv'
<1> SUFFICES ASSUME ListenerInv, StartListening PROVE ListenerInv' OBVIOUS
<1>1. backlog' \in Seq(Clients) /\ table' \in [Numbers -> Peers \cup Others]
  BY DEF ListenerInv, ListenerTypeOK, StartListening
<1>2. ~ acceptFailed BY DEF ListenerInv, NumbersInv, StartListening
<1> QED BY <1>1, <1>2, OthersStep DEF StartListening

LEMMA ListenerWakesInv == ListenerInv /\ ListenerWakes => ListenerInv'
<1> SUFFICES ASSUME ListenerInv, ListenerWakes PROVE ListenerInv' OBVIOUS
<1>1. backlog' \in Seq(Clients) /\ table' \in [Numbers -> Peers \cup Others]
  BY DEF ListenerInv, ListenerTypeOK, ListenerWakes
<1> QED BY <1>1, OthersStep DEF ListenerWakes

LEMMA AcceptAgainInv == ListenerInv /\ AcceptAgain => ListenerInv'
<1> SUFFICES ASSUME ListenerInv, AcceptAgain PROVE ListenerInv' OBVIOUS
<1>1. backlog' \in Seq(Clients) /\ table' \in [Numbers -> Peers \cup Others]
  BY DEF ListenerInv, ListenerTypeOK, AcceptAgain
<1>2. ~ acceptFailed BY DEF ListenerInv, NumbersInv, AcceptAgain
<1> QED BY <1>1, <1>2, OthersStep DEF AcceptAgain

LEMMA AcceptFailsInv == ListenerInv /\ AcceptFails => ListenerInv'
<1> SUFFICES ASSUME ListenerInv, AcceptFails PROVE ListenerInv' OBVIOUS
<1> DEFINE own == {socketFileDescriptor, epollFileDescriptor}
<1>1. table \in [Numbers -> Peers \cup Others] /\ 0 \in Numbers
  BY NumbersFinite DEF ListenerInv, ListenerTypeOK
<1>2. table' = [f \in Numbers |-> IF f \in own THEN "free" ELSE table[f]]
  BY DEF AcceptFails, Closed
<1>3. table' \in [Numbers -> Peers \cup Others] BY <1>1, <1>2 DEF Others
<1>4. listener = "accept" /\ ~ acceptFailed /\ listener' = "wait"
  BY DEF ListenerInv, NumbersInv, AcceptFails
<1>5. acceptFailed' = TRUE /\ bindFailed' = bindFailed BY DEF AcceptFails
<1>6. table[0] = "stdin" /\ foreign = {} /\ foreign' = foreign
  BY <1>4 DEF ListenerInv, NumbersInv, InUse, AcceptFails
<1>7. 0 \notin own BY <1>4, <1>6 DEF ListenerInv, ListenerDescriptors
<1>8. table'[0] = "stdin" BY <1>1, <1>2, <1>6, <1>7
<1>9. ListenerTypeOK'
  <2>1. backlog' \in Seq(Clients) BY DEF AcceptFails
  <2> QED BY <1>3, <1>4, <2>1 DEF ListenerInv, ListenerTypeOK, AcceptFails
<1>10. GhostInv' BY <1>5, Zenon DEF ListenerInv, GhostInv
<1>11. NumbersInv' BY <1>4, <1>5, <1>6, <1>8 DEF NumbersInv, InUse
<1>12. ListenerDescriptors'
  <2>1. ASSUME NEW f \in Numbers, table'[f] \in {"socket", "epoll"} PROVE bindFailed'
    <3>1. f \notin own /\ table'[f] = table[f] BY <1>2, <2>1
    <3> QED BY <1>5, <2>1, <3>1, Zenon DEF ListenerInv, ListenerDescriptors
  <2> QED BY <1>5, <1>6, <2>1 DEF ListenerDescriptors
<1> QED BY <1>9, <1>10, <1>11, <1>12 DEF ListenerInv

(* What closing a number does to the table. *)
LEMMA CloseNumberEffect ==
  ASSUME ListenerInv, NEW g \in -1 .. Descriptors - 1, CloseNumber(g)
  PROVE  /\ table' \in [Numbers -> Peers \cup Others]
         /\ \A f \in Numbers : table'[f] = IF f = g THEN "free" ELSE table[f]
         /\ g \in Numbers /\ table[g] \notin {"socket", "epoll", "free"} =>
              foreign' = foreign \cup {table[g]}
         /\ g \notin Numbers \/ table[g] \in {"socket", "epoll", "free"} => foreign' = foreign
<1>1. table \in [Numbers -> Peers \cup Others] BY DEF ListenerInv, ListenerTypeOK
<1>2. table' = [f \in Numbers |-> IF f = g THEN "free" ELSE table[f]]
  BY DEF CloseNumber, Closed
<1>3. foreign' = foreign \cup ({table[f] : f \in {g} \cap Numbers}
                               \ {"socket", "epoll", "free"})
  BY DEF CloseNumber
<1>4. CASE g \in Numbers
  <2>1. {table[f] : f \in {g} \cap Numbers} = {table[g]} BY <1>4
  <2> QED BY <1>1, <1>2, <1>3, <1>4, <2>1 DEF Others
<1>5. CASE g \notin Numbers
  <2>1. {table[f] : f \in {g} \cap Numbers} = {} BY <1>5
  <2> QED BY <1>1, <1>2, <1>3, <1>5, <2>1 DEF Others
<1> QED BY <1>4, <1>5

LEMMA ListenerMisledInv == ListenerInv /\ ListenerMisled => ListenerInv'
<1> SUFFICES ASSUME ListenerInv, ListenerMisled PROVE ListenerInv' OBVIOUS
<1> DEFINE e == epollFileDescriptor
<1>1. /\ listener = "wait" /\ acceptFailed /\ table[e] = "otherloop"
      /\ UNCHANGED <<backlog, socketFileDescriptor, epollFileDescriptor, listener,
                     bindFailed, acceptFailed>>
  BY DEF ListenerMisled
<1>2. e \in -1 .. Descriptors - 1 /\ 0 \in Numbers /\ table[0] = "stdin" /\ e # 0
  BY <1>1, NumbersFinite DEF ListenerInv, ListenerTypeOK, NumbersInv, InUse
<1>3. /\ table' \in [Numbers -> Peers \cup Others]
      /\ \A f \in Numbers : table'[f] = IF f = e THEN "free" ELSE table[f]
      /\ foreign' \subseteq foreign \cup {"otherloop"}
  BY <1>1, <1>2, CloseNumberEffect DEF ListenerMisled
<1>4. ListenerTypeOK' BY <1>1, <1>3 DEF ListenerInv, ListenerTypeOK
<1>5. GhostInv' BY <1>1, Zenon DEF ListenerInv, GhostInv
<1>6. acceptFailed' BY <1>1
<1>7. NumbersInv' BY <1>1, <1>2, <1>3, <1>6 DEF NumbersInv, InUse
<1>8. ListenerDescriptors'
  <2>1. ASSUME NEW f \in Numbers, table'[f] \in {"socket", "epoll"}
        PROVE  f \in {socketFileDescriptor', epollFileDescriptor'} \/ bindFailed'
    <3>1. table[f] \in {"socket", "epoll"} BY <1>3, <2>1
    <3> QED BY <1>1, <3>1 DEF ListenerInv, ListenerDescriptors
  <2>2. foreign' \subseteq {"otherloop"}
    BY <1>1, <1>3 DEF ListenerInv, ListenerDescriptors
  <2> QED BY <1>6, <2>1, <2>2 DEF ListenerDescriptors
<1> QED BY <1>4, <1>5, <1>7, <1>8 DEF ListenerInv

(* The destructor closes its own epoll descriptor, or 0 if no Bind has      *)
(* stored a number,                                                         *)
LEMMA DestroyClosesEpollInv == ListenerInv /\ DestroyClosesEpoll => ListenerInv'
<1> SUFFICES ASSUME ListenerInv, DestroyClosesEpoll PROVE ListenerInv' OBVIOUS
<1> DEFINE s == socketFileDescriptor
           e == epollFileDescriptor
<1>1. /\ listener \in {"constructed", "bound"} /\ listener' = "epollClosed"
      /\ UNCHANGED <<backlog, socketFileDescriptor, epollFileDescriptor, bindFailed,
                     acceptFailed>>
  BY DEF DestroyClosesEpoll
<1>2. /\ s \in -1 .. Descriptors - 1 /\ e \in -1 .. Descriptors - 1
      /\ 0 \in Numbers /\ Numbers \subseteq Nat
  BY NumbersFinite DEF ListenerInv, ListenerTypeOK
<1>3. table[0] = "stdin" /\ foreign = {} /\ ~ acceptFailed
  BY <1>1 DEF ListenerInv, NumbersInv, InUse
<1>4. /\ s = 0 => e = 0
      /\ s > 0 => table[s] = "socket"
      /\ e > 0 => table[e] = "epoll"
  <2>1. CASE listener = "constructed" BY <2>1 DEF ListenerInv, NumbersInv
  <2>2. CASE listener = "bound"
    <3>1. table[s] = "socket" /\ table[e] = "epoll"
      BY <1>3, <2>2 DEF ListenerInv, ListenerDescriptors
    <3> QED BY <1>3, <3>1
  <2> QED BY <1>1, <2>1, <2>2
<1>5. /\ table' \in [Numbers -> Peers \cup Others]
      /\ \A f \in Numbers : table'[f] = IF f = e THEN "free" ELSE table[f]
      /\ e \in Numbers /\ table[e] \notin {"socket", "epoll", "free"} =>
           foreign' = foreign \cup {table[e]}
      /\ e \notin Numbers \/ table[e] \in {"socket", "epoll", "free"} => foreign' = foreign
  BY <1>2, CloseNumberEffect DEF DestroyClosesEpoll
<1> HIDE DEF s, e
<1>6. foreign' \subseteq {"stdin"} /\ (foreign' # {} => e = 0)
  <2>1. CASE e = 0 BY <1>2, <1>3, <1>5, <2>1
  <2>2. CASE e > 0
    <3>1. foreign' = foreign BY <1>4, <1>5, <2>2
    <3> QED BY <1>3, <3>1
  <2>3. CASE e = -1
    <3>1. e \notin Numbers BY <1>2, <2>3
    <3> QED BY <1>3, <1>5, <3>1
  <2> QED BY <1>2, <2>1, <2>2, <2>3
<1>7. s > 0 => table'[s] = "socket"
  <2> SUFFICES ASSUME s > 0 PROVE table'[s] = "socket" OBVIOUS
  <2>1. s \in Numbers BY <1>2, DescriptorAssumption DEF Numbers
  <2>2. s # e BY <1>4
  <2> QED BY <1>4, <1>5, <2>1, <2>2
<1> USE DEF s, e
<1>8. ListenerTypeOK' BY <1>1, <1>2, <1>5 DEF ListenerInv, ListenerTypeOK
<1>9. GhostInv' BY <1>1, Zenon DEF ListenerInv, GhostInv
<1>10. ~ acceptFailed' BY <1>1, <1>3
<1>11. NumbersInv' BY <1>1, <1>4, <1>7, <1>10 DEF NumbersInv, InUse
<1>12. ListenerDescriptors'
  <2>1. ASSUME NEW f \in Numbers, table'[f] \in {"socket", "epoll"}
        PROVE  f \in {s', e'} \/ bindFailed'
    <3>1. table[f] \in {"socket", "epoll"} BY <1>5, <2>1
    <3> QED BY <1>1, <3>1 DEF ListenerInv, ListenerDescriptors
  <2> QED BY <1>1, <1>6, <1>10, <2>1 DEF ListenerDescriptors
<1> QED BY <1>8, <1>9, <1>11, <1>12 DEF ListenerInv

(* then its own socket, or 0 once more if no Bind was called,               *)
LEMMA DestroyClosesSocketInv == ListenerInv /\ DestroyClosesSocket => ListenerInv'
<1> SUFFICES ASSUME ListenerInv, DestroyClosesSocket PROVE ListenerInv' OBVIOUS
<1> DEFINE s == socketFileDescriptor
           e == epollFileDescriptor
<1>1. /\ listener = "epollClosed" /\ listener' = "socketClosed"
      /\ UNCHANGED <<socketFileDescriptor, epollFileDescriptor, bindFailed, acceptFailed>>
  BY DEF DestroyClosesSocket
<1>2. s \in -1 .. Descriptors - 1 /\ Numbers \subseteq Nat
  BY NumbersFinite DEF ListenerInv, ListenerTypeOK
<1>3. /\ ~ acceptFailed /\ (s = 0 => e = 0) /\ (s > 0 => table[s] = "socket")
      /\ foreign # {} => e = 0
      /\ foreign \ {"stdin"} # {} => s = 0
  BY <1>1 DEF ListenerInv, NumbersInv, ListenerDescriptors
<1>4. /\ table' \in [Numbers -> Peers \cup Others]
      /\ \A f \in Numbers : table'[f] = IF f = s THEN "free" ELSE table[f]
      /\ s \notin Numbers \/ table[s] \in {"socket", "epoll", "free"} => foreign' = foreign
  BY <1>2, CloseNumberEffect DEF DestroyClosesSocket
<1> HIDE DEF s, e
<1>5. (foreign' # {} => e = 0) /\ (foreign' \ {"stdin"} # {} => s = 0)
  <2>1. CASE s = 0 BY <1>3, <2>1
  <2>2. CASE s > 0 BY <1>3, <1>4, <2>2
  <2>3. CASE s = -1
    <3>1. s \notin Numbers BY <1>2, <2>3
    <3> QED BY <1>3, <1>4, <3>1
  <2> QED BY <1>2, <2>1, <2>2, <2>3
<1> USE DEF s, e
<1>6. ListenerTypeOK'
  <2>1. backlog' \in Seq(Clients) BY DEF DestroyClosesSocket
  <2> QED BY <1>1, <1>4, <2>1 DEF ListenerInv, ListenerTypeOK
<1>7. GhostInv' BY <1>1, Zenon DEF ListenerInv, GhostInv
<1>8. ~ acceptFailed' BY <1>1, <1>3
<1>9. NumbersInv' BY <1>1, <1>8 DEF NumbersInv, InUse
<1>10. ListenerDescriptors'
  <2>1. ASSUME NEW f \in Numbers, table'[f] \in {"socket", "epoll"}
        PROVE  f \in {s', e'} \/ bindFailed'
    <3>1. table[f] \in {"socket", "epoll"} BY <1>4, <2>1
    <3> QED BY <1>1, <3>1 DEF ListenerInv, ListenerDescriptors
  <2> QED BY <1>1, <1>5, <1>8, <2>1 DEF ListenerDescriptors
<1> QED BY <1>6, <1>7, <1>9, <1>10 DEF ListenerInv

(* then the epoll descriptor of the event loop.                             *)
LEMMA DestroyDeletesLoopInv == ListenerInv /\ DestroyDeletesLoop => ListenerInv'
<1> SUFFICES ASSUME ListenerInv, DestroyDeletesLoop PROVE ListenerInv' OBVIOUS
<1>1. /\ listener = "socketClosed" /\ listener' = "destroyed"
      /\ UNCHANGED <<backlog, socketFileDescriptor, epollFileDescriptor, bindFailed,
                     acceptFailed, foreign>>
      /\ table' = [f \in Numbers |-> IF f \in {1} THEN "free" ELSE table[f]]
  BY DEF DestroyDeletesLoop, Closed
<1>2. table' \in [Numbers -> Peers \cup Others]
  BY <1>1 DEF ListenerInv, ListenerTypeOK, Others
<1>3. ListenerTypeOK' BY <1>1, <1>2 DEF ListenerInv, ListenerTypeOK
<1>4. GhostInv' BY <1>1, Zenon DEF ListenerInv, GhostInv
<1>5. ~ acceptFailed /\ ~ acceptFailed' BY <1>1 DEF ListenerInv, NumbersInv
<1>6. NumbersInv' BY <1>1, <1>5 DEF NumbersInv, InUse
<1>7. ListenerDescriptors'
  <2>1. ASSUME NEW f \in Numbers, table'[f] \in {"socket", "epoll"}
        PROVE  f \in {socketFileDescriptor', epollFileDescriptor'} \/ bindFailed'
    <3>1. table[f] \in {"socket", "epoll"} BY <1>1, <2>1
    <3> QED BY <1>1, <3>1 DEF ListenerInv, ListenerDescriptors
  <2> QED BY <1>1, <1>5, <2>1 DEF ListenerInv, ListenerDescriptors
<1> QED BY <1>3, <1>4, <1>6, <1>7 DEF ListenerInv

LEMMA BindInv == ListenerInv /\ Bind => ListenerInv'
<1> SUFFICES ASSUME ListenerInv, Bind PROVE ListenerInv' OBVIOUS
<1> DEFINE s == Lowest(Free)
           e == Lowest(Free \ {s})
<1>1. table \in [Numbers -> Peers \cup Others] /\ Numbers \subseteq Nat /\ 0 \in Numbers
  BY NumbersFinite DEF ListenerInv, ListenerTypeOK
<1>2. Free \subseteq Numbers /\ Cardinality(Free) >= 2 BY DEF Free, Bind
<1>3. s \in Free BY <1>2, TwoFree, LowestOf
<1>4. Free \ {s} \subseteq Numbers /\ Free \ {s} # {}
  <2> HIDE DEF s
  <2> QED BY <1>2, <1>3, TwoFree
<1>5. e \in Free \ {s} BY <1>4, LowestOf
<1>6. /\ socketFileDescriptor' = s /\ epollFileDescriptor' = e
      /\ table' = [table EXCEPT ![s] = "socket", ![e] = "epoll"]
      /\ listener = "constructed" /\ listener' = "bound"
      /\ UNCHANGED <<backlog, accepted, bindFailed, acceptFailed, foreign>>
  BY DEF Bind
<1> HIDE DEF s, e
<1>7. /\ table' \in [Numbers -> Peers \cup Others]
      /\ \A f \in Numbers : table'[f] = IF f = e THEN "epoll"
                                        ELSE IF f = s THEN "socket" ELSE table[f]
  BY <1>1, <1>2, <1>3, <1>5, <1>6 DEF Others
<1>8. s \in Numbers /\ e \in Numbers /\ s # e /\ table[s] = "free" /\ table[e] = "free"
  BY <1>3, <1>5 DEF Free
<1>9. table[0] = "stdin" /\ foreign = {} /\ ~ acceptFailed
  BY <1>6 DEF ListenerInv, NumbersInv, InUse
<1>10. table'[0] = "stdin" BY <1>1, <1>7, <1>8, <1>9
<1>11. ListenerTypeOK'
  BY <1>6, <1>7, <1>8, DescriptorAssumption DEF ListenerInv, ListenerTypeOK, Numbers
<1>12. GhostInv' BY <1>6, Zenon DEF ListenerInv, GhostInv
<1>13. NumbersInv' BY <1>6, <1>8, <1>9, <1>10 DEF NumbersInv, InUse
<1>14. ListenerDescriptors'
  <2>1. ASSUME NEW f \in Numbers, table'[f] \in {"socket", "epoll"}, f \notin {s, e}
        PROVE  bindFailed'
    <3>1. table[f] \in {"socket", "epoll"} BY <1>7, <2>1
    <3>2. SUFFICES ASSUME ~ bindFailed PROVE FALSE BY <1>6, Zenon
    <3>3. socketFileDescriptor = 0 /\ epollFileDescriptor = 0
      BY <1>6, <3>2 DEF ListenerInv, NumbersInv
    <3>4. f = 0 BY <3>1, <3>2, <3>3 DEF ListenerInv, ListenerDescriptors
    <3> QED BY <1>9, <3>1, <3>4
  <2>2. table'[s] = "socket" /\ table'[e] = "epoll" BY <1>7, <1>8
  <2> QED BY <1>6, <1>9, <2>1, <2>2 DEF ListenerDescriptors
<1> QED BY <1>11, <1>12, <1>13, <1>14 DEF ListenerInv

(* A failed Bind keeps the numbers it got: those of an earlier failed Bind  *)
(* are lost, but none that is stored refers to anything else.               *)
LEMMA BindFailsInv ==
  ASSUME NEW step \in BindSteps, ListenerInv, BindFails(step)
  PROVE  ListenerInv'
<1> DEFINE s == IF step = "socket" THEN -1 ELSE Lowest(Free)
           e == IF step = "epoll_ctl" THEN Lowest(Free \ {s}) ELSE -1
<1>1. table \in [Numbers -> Peers \cup Others] /\ Numbers \subseteq Nat /\ 0 \in Numbers
  BY NumbersFinite DEF ListenerInv, ListenerTypeOK
<1>2. /\ socketFileDescriptor' = s
      /\ epollFileDescriptor' = IF step \in {"epoll_create1", "epoll_ctl"}
                                THEN e ELSE epollFileDescriptor
      /\ table' = [f \in Numbers |-> CASE f = s -> "socket" [] f = e -> "epoll"
                                       [] OTHER -> table[f]]
      /\ listener = "constructed" /\ listener' = "constructed" /\ bindFailed' = TRUE
      /\ UNCHANGED <<backlog, accepted, acceptFailed, foreign>>
      /\ (step # "socket" => s # -1) /\ (step = "epoll_ctl" => e # -1)
  BY DEF BindFails
<1>3. Free \subseteq Numbers BY DEF Free
<1>4. s = -1 \/ s \in Free
  <2>1. CASE step = "socket" BY <2>1
  <2>2. CASE step # "socket"
    <3>1. Lowest(Free) # -1 BY <1>2, <2>2
    <3>2. Free # {} BY <3>1, LowestNone
    <3> QED BY <1>3, <2>2, <3>2, LowestOf
  <2> QED BY <2>1, <2>2
<1>5. e = -1 \/ e \in Free \ {s}
  <2> HIDE DEF s
  <2>1. CASE step = "epoll_ctl"
    <3>1. Lowest(Free \ {s}) # -1 BY <1>2, <2>1
    <3>2. Free \ {s} # {} BY <3>1, LowestNone
    <3>3. Free \ {s} \subseteq Numbers BY <1>3
    <3>4. Lowest(Free \ {s}) \in Free \ {s} BY <3>2, <3>3, LowestOf
    <3> QED BY <2>1, <3>4
  <2>2. CASE step # "epoll_ctl" BY <2>2
  <2> QED BY <2>1, <2>2
<1> HIDE DEF s, e
<1>6. /\ table' \in [Numbers -> Peers \cup Others]
      /\ \A f \in Numbers : table'[f] = IF f = s THEN "socket"
                                        ELSE IF f = e THEN "epoll" ELSE table[f]
  <2>1. \A f \in Numbers : ~ (f = s /\ f = e) BY <1>1, <1>4, <1>5
  <2>2. ASSUME NEW f \in Numbers
        PROVE  (CASE f = s -> "socket" [] f = e -> "epoll" [] OTHER -> table[f])
                 = IF f = s THEN "socket" ELSE IF f = e THEN "epoll" ELSE table[f]
    BY <2>1
  <2>3. table' = [f \in Numbers |-> IF f = s THEN "socket"
                                    ELSE IF f = e THEN "epoll" ELSE table[f]]
    BY <1>2, <2>2, Zenon
  <2> QED BY <1>1, <2>3 DEF Others
<1>7. table[0] = "stdin" /\ foreign = {} /\ ~ acceptFailed
  BY <1>2 DEF ListenerInv, NumbersInv, InUse
<1>8. 0 \notin Free BY <1>7 DEF Free
<1>9. s # 0 /\ e # 0 BY <1>4, <1>5, <1>8
<1>10. s \in -1 .. Descriptors - 1 /\ e \in -1 .. Descriptors - 1
  <2>1. \A f \in Numbers : f \in -1 .. Descriptors - 1
    BY DescriptorAssumption DEF Numbers
  <2>2. -1 \in -1 .. Descriptors - 1 BY DescriptorAssumption
  <2> QED BY <1>3, <1>4, <1>5, <2>1, <2>2
<1>11. epollFileDescriptor \in -1 .. Descriptors - 1
  BY DEF ListenerInv, ListenerTypeOK
<1>12. ListenerTypeOK' BY <1>2, <1>6, <1>10, <1>11 DEF ListenerInv, ListenerTypeOK
<1>13. GhostInv' BY <1>2, Zenon DEF ListenerInv, GhostInv
<1>14. bindFailed' /\ ~ acceptFailed' BY <1>2, <1>7
<1>15. table'[0] = "stdin" /\ foreign' = {} BY <1>1, <1>2, <1>6, <1>7, <1>9
<1>16. NumbersInv'
  <2>1. s > 0 => table'[s] = "socket" BY <1>3, <1>4, <1>6
  <2>2. epollFileDescriptor' > 0 => table'[epollFileDescriptor'] = "epoll"
    <3>1. CASE step \in {"epoll_create1", "epoll_ctl"} BY <1>2, <1>3, <1>5, <1>6, <3>1
    <3>2. CASE step \notin {"epoll_create1", "epoll_ctl"}
      <4>1. SUFFICES ASSUME epollFileDescriptor > 0
                     PROVE  table'[epollFileDescriptor] = "epoll"
        BY <1>2, <3>2
      <4>2. epollFileDescriptor \in Numbers
        BY <1>11, <4>1, DescriptorAssumption DEF Numbers
      <4>3. table[epollFileDescriptor] = "epoll"
        BY <1>2, <4>1 DEF ListenerInv, NumbersInv
      <4>4. epollFileDescriptor \notin Free BY <4>3 DEF Free
      <4>5. epollFileDescriptor # s /\ epollFileDescriptor # e
        BY <1>4, <1>5, <4>1, <4>4
      <4> QED BY <1>6, <4>2, <4>3, <4>5
    <3> QED BY <3>1, <3>2
  <2> QED BY <1>2, <1>9, <1>14, <1>15, <2>1, <2>2 DEF NumbersInv, InUse
<1>17. ListenerDescriptors' BY <1>2, <1>14, <1>15 DEF ListenerDescriptors
<1> QED BY <1>12, <1>13, <1>16, <1>17 DEF ListenerInv

-----------------------------------------------------------------------------
(* The server. *)

LEMMA InitInv == Init => IInv
<1> SUFFICES ASSUME Init PROVE IInv OBVIOUS
<1>1. TasksInv BY TasksInitInv DEF Init
<1>2. ListenerInv BY ListenerInitInv DEF Init
<1>3. LoopInv BY DEF Init, LoopInv
<1> QED BY <1>1, <1>2, <1>3 DEF IInv

LEMMA LoopThreadInv == IInv /\ LoopThread => IInv'
<1> SUFFICES ASSUME IInv, LoopThread PROVE IInv' OBVIOUS
<1> USE DEF IInv, loopVars
<1>1. CASE CallProceedTasks
  <2>1. TasksInv' BY <1>1, CallInv DEF CallProceedTasks
  <2>2. ListenerInv' BY <1>1, ListenerStutter DEF CallProceedTasks
  <2>3. LoopInv' BY <1>1 DEF CallProceedTasks, LoopInv
  <2> QED BY <2>1, <2>2, <2>3
<1>2. CASE InProceedTasks
  <2>1. TasksInv' BY <1>2, ProceedTasksInv DEF InProceedTasks
  <2>2. ListenerInv' BY <1>2, ListenerStutter DEF InProceedTasks
  <2>3. LoopInv' BY <1>2 DEF InProceedTasks, LoopInv
  <2> QED BY <2>1, <2>2, <2>3
<1>3. CASE CallEpollWait
  <2>1. TasksInv' BY <1>3, CallInv DEF CallEpollWait
  <2>2. ListenerInv' BY <1>3, ListenerStutter DEF CallEpollWait
  <2>3. LoopInv' BY <1>3 DEF CallEpollWait, LoopInv
  <2> QED BY <2>1, <2>2, <2>3
<1>4. CASE LoopWakes \/ LoopTimesOut \/ EventsHandled
  <2>1. TasksInv' BY <1>4, TasksStutter DEF LoopWakes, LoopTimesOut, EventsHandled
  <2>2. ListenerInv' BY <1>4, ListenerStutter DEF LoopWakes, LoopTimesOut, EventsHandled
  <2>3. LoopInv' BY <1>4 DEF LoopWakes, LoopTimesOut, EventsHandled, LoopInv
  <2> QED BY <2>1, <2>2, <2>3
<1>5. ASSUME NEW p \in Peers, EventHandled(p) PROVE IInv'
  <2>1. TasksInv' BY <1>5, TasksStutter DEF EventHandled
  <2>2. ListenerInv' BY <1>5, ListenerStutter DEF EventHandled
  <2>3. LoopInv' BY <1>5 DEF EventHandled, LoopInv
  <2> QED BY <2>1, <2>2, <2>3
<1>6. ASSUME NEW p \in Peers, EventBlocks(p) PROVE IInv'
  <2>1. TasksInv' BY <1>6, TasksStutter DEF EventBlocks
  <2>2. ListenerInv' BY <1>6, ListenerStutter DEF EventBlocks
  <2>3. LoopInv' BY <1>6 DEF EventBlocks, LoopInv
  <2> QED BY <2>1, <2>2, <2>3
<1>7. ASSUME NEW p \in Peers, ConnectionDeleted(p) PROVE IInv'
  <2>1. TasksInv' BY <1>7, TasksStutter DEF ConnectionDeleted
  <2>2. ListenerInv' BY <1>7, ConnectionClosedInv DEF ConnectionDeleted
  <2>3. LoopInv' BY <1>7 DEF ConnectionDeleted, LoopInv
  <2> QED BY <2>1, <2>2, <2>3
<1>8. ASSUME NEW p \in Peers, DrainGoesOn(p) PROVE IInv'
  <2>1. TasksInv' BY <1>8, TasksStutter DEF DrainGoesOn
  <2>2. ListenerInv' BY <1>8, ConnectionClosedInv, ListenerStutter DEF DrainGoesOn
  <2>3. LoopInv' BY <1>8 DEF DrainGoesOn, LoopInv
  <2> QED BY <2>1, <2>2, <2>3
<1> QED BY <1>1, <1>2, <1>3, <1>4, <1>5, <1>6, <1>7, <1>8, Zenon DEF LoopThread

LEMMA LoopKept ==
  ASSUME LoopInv, UNCHANGED loopVars, signals' \subseteq Peers
  PROVE  LoopInv'
BY DEF LoopInv, loopVars

LEMMA CallsInv == IInv /\ (Submit \/ RemoteExecute \/ RemoteReturns \/ Clock) => IInv'
<1> SUFFICES ASSUME IInv, Submit \/ RemoteExecute \/ RemoteReturns \/ Clock PROVE IInv'
  OBVIOUS
<1> USE DEF IInv
<1>1. UNCHANGED listenerVars /\ UNCHANGED loopVars /\ signals' = signals
  BY DEF Submit, RemoteExecute, RemoteReturns, Clock
<1>2. ListenerInv' BY <1>1, ListenerStutter
<1>3. LoopInv' BY <1>1, LoopKept DEF LoopInv
<1>4. TasksInv'
  <2>1. CASE Submit
    <3>1. CASE Execute BY <3>1, ExecuteInv
    <3>2. ASSUME NEW millis \in Delays, Delay(millis) PROVE TasksInv'
      BY <3>2, DelaysAssumption, DelayInv
    <3>3. CASE ExecuteRepeating BY <3>3, ExecuteRepeatingInv
    <3> QED BY <2>1, <3>1, <3>2, <3>3, Zenon DEF Submit
  <2>2. CASE RemoteExecute BY <2>2, RemoteBeginsInv DEF RemoteExecute
  <2>3. CASE RemoteReturns BY <2>3, RemoteEndsInv DEF RemoteReturns
  <2>4. CASE Clock BY <2>4, TickInv DEF Clock
  <2> QED BY <2>1, <2>2, <2>3, <2>4
<1> QED BY <1>2, <1>3, <1>4

LEMMA OutsideInv ==
  IInv /\ (\/ ListenerThread \/ ListenerFails \/ ListenerGoesWrong
           \/ Application \/ Network) => IInv'
<1> SUFFICES ASSUME IInv, \/ ListenerThread \/ ListenerFails \/ ListenerGoesWrong
                          \/ Application \/ Network
             PROVE  IInv'
  OBVIOUS
<1> USE DEF IInv
<1>1. UNCHANGED taskVars /\ UNCHANGED loopVars
  BY DEF ListenerThread, ListenerFails, ListenerGoesWrong, Application, Network
<1>2. TasksInv' BY <1>1, TasksStutter
<1>3. signals' \subseteq Peers
  <2>1. signals \subseteq Peers BY DEF LoopInv
  <2>2. signals' = signals \/ \E p \in Peers : signals' = signals \cup {p}
    BY Zenon DEF ListenerThread, ListenerFails, ListenerGoesWrong, Application, Network
  <2> QED BY <2>1, <2>2
<1>4. LoopInv' BY <1>1, <1>3, LoopKept
<1>5. ListenerInv'
  <2>1. CASE ListenerThread
    BY <2>1, ListenerWakesInv, AcceptAgainInv, AcceptClientInv, Zenon DEF ListenerThread
  <2>2. CASE ListenerFails BY <2>2, AcceptFailsInv DEF ListenerFails
  <2>3. CASE Application
    BY <2>3, BindFailsInv, BindInv, StartListeningInv, DestroyClosesEpollInv,
       DestroyClosesSocketInv, DestroyDeletesLoopInv, ConnectInv, ConnectFailsInv,
       OtherLoopInv, Zenon
    DEF Application
  <2>4. CASE Network
    BY <2>4, ClientConnectsInv, ListenerStutter, Zenon DEF Network
  <2>5. CASE ListenerGoesWrong BY <2>5, ListenerMisledInv DEF ListenerGoesWrong
  <2> QED BY <2>1, <2>2, <2>3, <2>4, <2>5
<1> QED BY <1>2, <1>4, <1>5

LEMMA StutterInv == IInv /\ UNCHANGED vars => IInv'
<1> SUFFICES ASSUME IInv, UNCHANGED vars PROVE IInv' OBVIOUS
<1>1. /\ UNCHANGED taskVars /\ UNCHANGED listenerVars
      /\ UNCHANGED loopVars /\ signals' = signals
  BY DEF vars
<1>2. LoopInv' BY <1>1, LoopKept DEF IInv, LoopInv
<1> QED BY <1>1, <1>2, TasksStutter, ListenerStutter DEF IInv

(* Every behaviour of a server keeps the inductive invariant: the list and  *)
(* the queue of EventLoop.cpp, with the ends of the queue another thread    *)
(* has read but not yet written; the numbers EpollListener.cpp stores, also *)
(* while its destructor has closed one and not the other; and where the     *)
(* loop thread is.                                                          *)
THEOREM InductiveInvariant == Spec => []IInv
<1>1. Init => IInv BY InitInv
<1>2. IInv /\ [Next]_vars => IInv'
  <2>1. IInv /\ Next => IInv'
    BY LoopThreadInv, CallsInv, OutsideInv, Zenon DEF Next
  <2> QED BY <2>1, StutterInv
<1> QED BY <1>1, <1>2, PTL DEF Spec

(* The task queue, the descriptor table and the loop have their types. *)
THEOREM TypeCorrect == Spec => []TypeOK
<1>1. IInv => TypeOK
  BY TasksInvType DEF IInv, ListenerInv, LoopInv, TypeOK
<1> QED BY <1>1, InductiveInvariant, PTL

(* ProceedTasks runs every task once and forgets none, whatever tasks add   *)
(* while it runs: delayed tasks are in the list until they have run,        *)
(* whatever other threads do; immediate tasks run in order only as long as  *)
(* no push of another thread overlaps with a push, a front or a pop of the  *)
(* loop thread, since the queue has no lock.                                *)
THEOREM TasksAreConserved == Spec => []TasksConserved
<1>1. IInv => TasksConserved BY TasksInvConserved DEF IInv
<1> QED BY <1>1, InductiveInvariant, PTL

(* ProceedTasks never runs a delayed task early, except over the point      *)
(* where the truncated clock starts again, for every modulus.               *)
THEOREM TasksNeverEarly == Spec => []NeverEarly
<1>1. IInv => NeverEarly BY TasksInvNeverEarly DEF IInv
<1> QED BY <1>1, InductiveInvariant, PTL

(* The numbers a listener keeps are its own until accept4 fails; its        *)
(* destructor, step by step between those of other threads, closes what is  *)
(* not its own only if no Bind has stored a number, and more than standard  *)
(* input only if none was called; after accept4 has failed only the epoll   *)
(* descriptor of another event loop can be hit.  For every size of the      *)
(* descriptor table and all clients and servers.                            *)
THEOREM ListenerOwnsItsDescriptors == Spec => []ListenerDescriptors
<1>1. IInv => ListenerDescriptors BY DEF IInv, ListenerInv
<1> QED BY <1>1, InductiveInvariant, PTL
=============================================================================
