------------------------ MODULE AsyncTaskPoolProofs -------------------------
(***************************************************************************)
(* IInv is an inductive invariant of AsyncTaskPool, for any number of types*)
(* and tasks: callbacks are called in the order of the tasks because a task*)
(* that runs comes before all that are queued, and a callback posted before*)
(* the task that runs.                                                     *)
(***************************************************************************)
EXTENDS AsyncTaskPool, TLAPS

(* The cases of a step.                                                    *)
LEMMA Steps ==
    ASSUME [Next]_vars
    PROVE  \/ \E t \in Type : \/ Enqueue(t) \/ StopTasks(t) \/ WakeSpuriously(t)
                              \/ Wait(t) \/ End(t) \/ Take(t) \/ Run(t) \/ Post(t)
           \/ GetInstance \/ DestroyInstance \/ NotifyOne \/ StopThread
           \/ NotifyAll \/ Join \/ RunFunction
           \/ UNCHANGED vars
BY DEF Next, Thread, MainContinues

-----------------------------------------------------------------------------
(* Queues.                                                                 *)

(* One element more.                                                       *)
LEMMA AppendParts ==
    ASSUME NEW S, NEW s \in Seq(S), NEW e \in S
    PROVE  /\ Append(s, e) \in Seq(S)
           /\ DOMAIN Append(s, e) = DOMAIN s \cup {Len(s) + 1}
           /\ \A i \in DOMAIN s : Append(s, e)[i] = s[i] /\ i # Len(s) + 1
           /\ Append(s, e)[Len(s) + 1] = e
           /\ ToSet(Append(s, e)) = ToSet(s) \cup {e}
           /\ \A i \in DOMAIN s : s[i] \in ToSet(s)
<1>1. /\ DOMAIN s = 1..Len(s) /\ Len(s) \in Nat
      /\ DOMAIN Append(s, e) = 1..(Len(s) + 1)
      /\ \A i \in 1..Len(s) : Append(s, e)[i] = s[i]
      /\ Append(s, e)[Len(s) + 1] = e
      /\ Append(s, e) \in Seq(S)
  OBVIOUS
<1>2. 1..(Len(s) + 1) = 1..Len(s) \cup {Len(s) + 1}
  BY <1>1
<1>3. \A i \in 1..Len(s) : i # Len(s) + 1
  BY <1>1
<1>4. ToSet(Append(s, e)) = ToSet(s) \cup {e}
  BY <1>1, <1>2 DEF ToSet
<1> QED  BY <1>1, <1>2, <1>3, <1>4 DEF ToSet

LEMMA AppendSet ==
    ASSUME NEW S, NEW s \in Seq(S), NEW e \in S
    PROVE  ToSet(Append(s, e)) = ToSet(s) \cup {e}
BY AppendParts

LEMMA AppendElements ==
    ASSUME NEW q \in Seq(1..MaxTask), NEW n \in 1..MaxTask
    PROVE  \A k : k \in ToSet(Append(q, n)) => k \in ToSet(q) \/ k = n
<1> DEFINE T == 1..MaxTask
<1>1. q \in Seq(T) /\ n \in T
  OBVIOUS
<1> HIDE DEF T
<1>2. ToSet(Append(q, n)) = ToSet(q) \cup {n}
  BY <1>1, AppendSet
<1> QED  BY <1>2

(* Without the first element.                                              *)
LEMMA TailParts ==
    ASSUME NEW S, NEW s \in Seq(S), s # <<>>
    PROVE  /\ Head(s) \in S /\ Tail(s) \in Seq(S)
           /\ Head(s) = s[1] /\ 1 \in DOMAIN s
           /\ \A i \in DOMAIN Tail(s) : /\ i + 1 \in DOMAIN s /\ i + 1 # 1 /\ i \in Int
                                        /\ Tail(s)[i] = s[i + 1]
           /\ ToSet(s) = ToSet(Tail(s)) \cup {Head(s)}
<1>1. /\ DOMAIN s = 1..Len(s) /\ Len(s) \in Nat \ {0}
      /\ DOMAIN Tail(s) = 1..(Len(s) - 1) /\ Head(s) = s[1]
      /\ \A i \in 1..(Len(s) - 1) : Tail(s)[i] = s[i + 1]
      /\ Head(s) \in S /\ Tail(s) \in Seq(S)
  OBVIOUS
<1>2. \A i \in 1..Len(s) : i = 1 \/ (i - 1 \in 1..(Len(s) - 1) /\ Tail(s)[i - 1] = s[i])
  BY <1>1
<1>3. /\ 1 \in 1..Len(s)
      /\ \A i \in 1..(Len(s) - 1) : i + 1 \in 1..Len(s) /\ i + 1 # 1 /\ i \in Int
  BY <1>1
<1>4. ASSUME NEW i \in 1..Len(s)
      PROVE  s[i] \in ToSet(Tail(s)) \cup {Head(s)}
  BY <1>1, <1>2 DEF ToSet
<1>5. ASSUME NEW i \in 1..(Len(s) - 1)
      PROVE  Tail(s)[i] \in ToSet(s)
  BY <1>1, <1>3 DEF ToSet
<1>6. Head(s) \in ToSet(s)
  BY <1>1, <1>3 DEF ToSet
<1>7. ToSet(s) = ToSet(Tail(s)) \cup {Head(s)}
  BY <1>1, <1>4, <1>5, <1>6 DEF ToSet
<1> QED  BY <1>1, <1>3, <1>7

LEMMA EmptyQueue == ToSet(<<>>) = {} /\ DOMAIN <<>> = {}
BY DEF ToSet

-----------------------------------------------------------------------------
(* Types.                                                                  *)
QueueTypes ==
    /\ tasks \in [Type -> Seq(1..MaxTask)]
    /\ taskCallBacks \in [Type -> Seq(1..MaxTask)]
    /\ functions \in Seq(1..MaxTask)
    /\ called \in Seq(1..MaxTask)
    /\ type \in Seq(Type)
    /\ ran \subseteq 1..MaxTask
    /\ dropped \subseteq 1..MaxTask

ThreadTypes ==
    /\ thread \in [Type -> {"none", "test", "blocked", "run", "post", "ended"}]
    /\ task \in [Type -> 0..MaxTask]
    /\ callback \in [Type -> 0..MaxTask]
    /\ stop \in [Type -> BOOLEAN]

MainTypes ==
    /\ instance \in BOOLEAN
    /\ main \in {"idle", "notify", "stop", "wake", "join"}
    /\ current \in 0..MaxType

LEMMA TypeParts == TypeOK <=> QueueTypes /\ ThreadTypes /\ MainTypes
BY DEF TypeOK, QueueTypes, ThreadTypes, MainTypes

LEMMA MainStep ==
    ASSUME TypeOK, MainStands, [Next]_vars
    PROVE  MainTypes' /\ MainStands'
<1>1. MainTypes /\ MaxType \in Nat \ {0}
  BY TypeParts, AsyncTaskPoolAssumption
<1>2. ASSUME NEW t \in Type, Enqueue(t)
      PROVE  MainTypes' /\ MainStands'
  BY <1>1, <1>2 DEF Enqueue, MainTypes, MainStands, Type
<1>3. ASSUME NEW t \in Type,
             \/ StopTasks(t) \/ WakeSpuriously(t) \/ Wait(t) \/ End(t) \/ Take(t)
             \/ Run(t) \/ Post(t)
      PROVE  UNCHANGED <<instance, main, current>>
  BY <1>3 DEF StopTasks, WakeSpuriously, Wait, End, Take, Run, Post, mained
<1>4. CASE GetInstance
  BY <1>1, <1>4 DEF GetInstance, MainTypes, MainStands, mained
<1>5. CASE DestroyInstance \/ NotifyOne \/ StopThread \/ NotifyAll \/ Join
  <2>1. instance' = instance \/ instance' = FALSE
    BY <1>5 DEF DestroyInstance, NotifyOne, StopThread, NotifyAll, Join
  <2>2. instance' \in BOOLEAN
    BY <1>1, <2>1, Zenon DEF MainTypes
  <2>3. CASE DestroyInstance \/ NotifyOne
    BY <1>1, <2>2, <2>3 DEF DestroyInstance, NotifyOne, MainTypes, MainStands, Type
  <2>4. CASE StopThread \/ NotifyAll
    BY <1>1, <2>2, <2>4 DEF StopThread, NotifyAll, MainTypes, MainStands, Type
  <2>5. CASE Join
    BY <1>1, <2>2, <2>5 DEF Join, MainTypes, MainStands, Type
  <2> QED  BY <1>5, <2>3, <2>4, <2>5
<1>6. CASE RunFunction \/ UNCHANGED vars
  BY <1>1, <1>6 DEF RunFunction, MainTypes, MainStands, mained, vars
<1>7. UNCHANGED <<instance, main, current>> => MainTypes' /\ MainStands'
  BY <1>1 DEF MainTypes, MainStands
<1> QED  BY <1>2, <1>3, <1>4, <1>5, <1>6, <1>7, Steps

LEMMA ThreadTypesStep ==
    ASSUME IInv, [Next]_vars
    PROVE  ThreadTypes'
<1>1. ThreadTypes /\ QueueTypes /\ taskCallBacks = tasks
  BY TypeParts DEF IInv, Paired
<1> USE DEF ThreadTypes
<1>2. ASSUME NEW t \in Type, Take(t)
      PROVE  ThreadTypes'
  <2>1. Head(tasks[t]) \in 1..MaxTask
    BY <1>1, <1>2, TailParts DEF Take, QueueTypes
  <2>2. Head(tasks[t]) \in 0..MaxTask
    BY <2>1, AsyncTaskPoolAssumption
  <2> QED  BY <1>1, <1>2, <2>2 DEF Take
<1>3. ASSUME NEW t \in Type,
             \/ Enqueue(t) \/ StopTasks(t) \/ WakeSpuriously(t) \/ Wait(t) \/ End(t)
             \/ Run(t)
      PROVE  ThreadTypes'
  BY <1>1, <1>3 DEF Enqueue, StopTasks, WakeSpuriously, Wait, End, Run, threads, queues
<1>4. ASSUME NEW t \in Type, Post(t)
      PROVE  ThreadTypes'
  <2>1. 0 \in 0..MaxTask
    BY AsyncTaskPoolAssumption
  <2> QED  BY <1>1, <1>4, <2>1 DEF Post, queues
<1>5. CASE GetInstance \/ NotifyOne \/ StopThread \/ NotifyAll
  BY <1>1, <1>5 DEF GetInstance, NotifyOne, StopThread, NotifyAll, Wake, threads, queues
<1>6. CASE DestroyInstance \/ Join \/ RunFunction \/ UNCHANGED vars
  BY <1>1, <1>6 DEF DestroyInstance, Join, RunFunction, threads, queues, vars
<1> QED  BY <1>2, <1>3, <1>4, <1>5, <1>6, Steps

LEMMA PairedStep ==
    ASSUME IInv, [Next]_vars
    PROVE  Paired'
<1>1. Paired /\ ThreadTypes /\ QueueTypes
  BY TypeParts DEF IInv
<1> USE DEF Paired
<1>2. ASSUME NEW t \in Type, Take(t)
      PROVE  Paired'
  BY <1>1, <1>2 DEF Take
<1>3. ASSUME NEW t \in Type,
             \/ Enqueue(t) \/ StopTasks(t) \/ WakeSpuriously(t) \/ Wait(t) \/ End(t)
             \/ Run(t) \/ Post(t)
      PROVE  Paired'
  BY <1>1, <1>3 DEF Enqueue, StopTasks, Drop, WakeSpuriously, Wait, End, Run, Post,
                    threads, queues
<1>4. CASE GetInstance \/ NotifyOne \/ StopThread \/ NotifyAll \/ DestroyInstance \/ Join
           \/ RunFunction \/ UNCHANGED vars
  BY <1>1, <1>4 DEF GetInstance, NotifyOne, StopThread, NotifyAll, DestroyInstance, Join,
                    RunFunction, Drop, threads, queues, vars
<1> QED  BY <1>2, <1>3, <1>4, Steps


(* The main thread empties the queues of a type.                           *)
Drops(t) ==
    /\ dropped' = dropped \cup ToSet(tasks[t])
    /\ tasks' = [tasks EXCEPT ![t] = <<>>]
    /\ taskCallBacks' = [taskCallBacks EXCEPT ![t] = <<>>]
    /\ UNCHANGED <<thread, task, callback, functions, type, ran, called>>

(* A thread may go back to its test, but none takes a task.                *)
Rests ==
    /\ UNCHANGED <<tasks, taskCallBacks, functions, type, ran, dropped, called>>
    /\ \A t \in Type : Working(t)' => thread'[t] = thread[t] /\ task'[t] = task[t]

(* What steps do to tasks and callbacks.                                   *)
LEMMA DataSteps ==
    ASSUME TypeOK, MainStands, [Next]_vars
    PROVE  \/ \E t \in Type : Enqueue(t) \/ Drops(t) \/ Take(t) \/ Run(t) \/ Post(t)
           \/ RunFunction
           \/ Rests
<1>1. ThreadTypes
  BY TypeParts
<1>2. ASSUME NEW t \in Type, StopTasks(t)
      PROVE  Drops(t)
  BY <1>2 DEF StopTasks, Drop, Drops, threads
<1>3. CASE StopThread
  <2>1. PICK t \in Type : t = current
    BY <1>3 DEF StopThread, MainStands
  <2>2. Drops(t)
    BY <1>3, <2>1 DEF StopThread, Drop, Drops, threads
  <2> QED  BY <2>2
<1>4. ASSUME NEW t \in Type, WakeSpuriously(t) \/ Wait(t) \/ End(t)
      PROVE  Rests
  BY <1>1, <1>4 DEF WakeSpuriously, Wait, End, Rests, Working, ThreadTypes, queues, history
<1>5. CASE GetInstance
  BY <1>1, <1>5 DEF GetInstance, Rests, Working, ThreadTypes, history
<1>6. CASE NotifyOne \/ NotifyAll
  BY <1>1, <1>6 DEF NotifyOne, NotifyAll, Wake, Rests, Working, ThreadTypes, queues, history
<1>7. CASE DestroyInstance \/ Join \/ UNCHANGED vars
  BY <1>7 DEF DestroyInstance, Join, vars, Rests, queues, threads, history
<1> QED  BY <1>2, <1>3, <1>4, <1>5, <1>6, <1>7, Steps

(* The number of a new task.                                               *)
LEMMA NewTask ==
    ASSUME TypeOK, Enqueued, NEW t \in Type, Enqueue(t)
    PROVE  /\ Len(type) \in Nat /\ Len(type) < MaxTask /\ DOMAIN type = 1..Len(type)
           /\ type' \in Seq(Type) /\ Len(type') = Len(type) + 1
           /\ Len(type) + 1 \in DOMAIN type' /\ type'[Len(type) + 1] = t
           /\ \A k \in DOMAIN type : k \in DOMAIN type' /\ type'[k] = type[k] /\ k < Len(type) + 1
           /\ Len(type) + 1 \in 1..MaxTask /\ Len(type) + 1 \notin DOMAIN type
           /\ tasks' = [tasks EXCEPT ![t] = Append(@, Len(type) + 1)]
           /\ taskCallBacks' = [taskCallBacks EXCEPT ![t] = Append(@, Len(type) + 1)]
           /\ UNCHANGED <<thread, task, callback, functions, ran, dropped, called>>
<1>1. type \in Seq(Type) /\ MaxTask \in Nat
  BY TypeParts, AsyncTaskPoolAssumption DEF QueueTypes
<1>2. type' = Append(type, t) /\ Len(type) < MaxTask
  BY DEF Enqueue
<1>3. /\ Len(type) \in Nat /\ DOMAIN type = 1..Len(type)
      /\ type' \in Seq(Type) /\ Len(type') = Len(type) + 1
      /\ DOMAIN type' = 1..(Len(type) + 1)
      /\ type'[Len(type) + 1] = t
      /\ \A k \in 1..Len(type) : type'[k] = type[k]
  BY <1>1, <1>2
<1>4. /\ Len(type) + 1 \in 1..(Len(type) + 1) /\ Len(type) + 1 \in 1..MaxTask
      /\ Len(type) + 1 \notin 1..Len(type)
      /\ \A k \in 1..Len(type) : k \in 1..(Len(type) + 1) /\ k < Len(type) + 1
  BY <1>1, <1>2, <1>3
<1>5. /\ tasks' = [tasks EXCEPT ![t] = Append(@, Len(type) + 1)]
      /\ taskCallBacks' = [taskCallBacks EXCEPT ![t] = Append(@, Len(type) + 1)]
      /\ UNCHANGED <<thread, task, callback, functions, ran, dropped, called>>
  BY <1>3 DEF Enqueue, threads
<1> QED  BY <1>2, <1>3, <1>4, <1>5

LEMMA QueueTypesStep ==
    ASSUME IInv, [Next]_vars
    PROVE  QueueTypes' /\ Enqueued'
<1>1. /\ TypeOK /\ MainStands /\ Enqueued /\ QueueTypes /\ TaskTaken
      /\ tasks = taskCallBacks /\ task = callback
      /\ MaxTask \in Nat
  BY TypeParts, AsyncTaskPoolAssumption DEF IInv, Paired
<1>2. DOMAIN type = 1..Len(type) /\ Len(type) \in Nat
      /\ \A k \in DOMAIN type : k \in 1..MaxTask
  <2>1. DOMAIN type = 1..Len(type) /\ Len(type) \in Nat /\ Len(type) <= MaxTask
    BY <1>1 DEF QueueTypes, Enqueued
  <2> QED  BY <1>1, <2>1
<1>3. ASSUME NEW t \in Type, Enqueue(t)
      PROVE  QueueTypes' /\ Enqueued'
  <2>1. tasks[t] \in Seq(1..MaxTask) /\ Len(type) + 1 \in 1..MaxTask
    BY <1>1, <1>3, NewTask DEF QueueTypes
  <2>5. Append(tasks[t], Len(type) + 1) \in Seq(1..MaxTask)
    BY <2>1, AppendParts
  <2>2. QueueTypes'
    BY <1>1, <1>3, <2>5, NewTask DEF QueueTypes
  <2>3. Len(type') <= MaxTask
    BY <1>1, <1>3, NewTask
  <2>4. (ran \cup dropped)' \subseteq DOMAIN type'
    BY <1>1, <1>3, NewTask DEF Enqueued
  <2> QED  BY <2>2, <2>3, <2>4 DEF Enqueued
<1>4. ASSUME NEW t \in Type, Drops(t)
      PROVE  QueueTypes' /\ Enqueued'
  <2>1. ToSet(tasks[t]) \subseteq DOMAIN type
    BY <1>1 DEF IInv, TasksInOrder
  <2>2. <<>> \in Seq(1..MaxTask)
    OBVIOUS
  <2>3. dropped' \subseteq DOMAIN type /\ dropped' \subseteq 1..MaxTask
    BY <1>1, <1>2, <1>4, <2>1 DEF Drops, Enqueued
  <2>4. QueueTypes'
    BY <1>1, <1>4, <2>2, <2>3 DEF Drops, QueueTypes
  <2> QED  BY <1>1, <1>4, <2>3, <2>4 DEF Drops, Enqueued
<1>5. ASSUME NEW t \in Type, Take(t)
      PROVE  QueueTypes' /\ Enqueued'
  <2>1. Tail(tasks[t]) \in Seq(1..MaxTask)
    BY <1>1, <1>5, TailParts DEF Take, QueueTypes
  <2> QED  BY <1>1, <1>5, <2>1 DEF Take, QueueTypes, Enqueued, history
<1>6. ASSUME NEW t \in Type, Run(t)
      PROVE  QueueTypes' /\ Enqueued'
  <2>1. task[t] \in DOMAIN type
    BY <1>1, <1>6 DEF Run, TaskTaken, Working
  <2> QED  BY <1>1, <1>2, <1>6, <2>1 DEF Run, QueueTypes, Enqueued, queues
<1>7. ASSUME NEW t \in Type, Post(t)
      PROVE  QueueTypes' /\ Enqueued'
  <2>1. task[t] \in DOMAIN type
    BY <1>1, <1>7 DEF Post, TaskTaken, Working
  <2>2. Append(functions, task[t]) \in Seq(1..MaxTask)
    BY <1>1, <1>2, <2>1, AppendParts DEF QueueTypes
  <2> QED  BY <1>1, <1>7, <2>2 DEF Post, QueueTypes, Enqueued, queues, history
<1>8. CASE RunFunction
  <2>1. Tail(functions) \in Seq(1..MaxTask) /\ Head(functions) \in 1..MaxTask
    BY <1>1, <1>8, TailParts DEF RunFunction, QueueTypes
  <2>2. Append(called, Head(functions)) \in Seq(1..MaxTask)
    BY <1>1, <2>1, AppendParts DEF QueueTypes
  <2> QED  BY <1>1, <1>8, <2>1, <2>2 DEF RunFunction, QueueTypes, Enqueued, queues
<1>9. CASE Rests
  BY <1>1, <1>9 DEF Rests, QueueTypes, Enqueued
<1> QED  BY <1>1, <1>3, <1>4, <1>5, <1>6, <1>7, <1>8, <1>9, DataSteps


-----------------------------------------------------------------------------
(* The order of tasks and callbacks.                                       *)

(* TasksInOrder, TaskTaken and CallbacksInOrder, type by type.             *)
InOrder(t) ==
    /\ \A k \in ToSet(tasks[t]) : k \in DOMAIN type /\ type[k] = t /\ k \notin ran \cup dropped
    /\ \A i, j \in DOMAIN tasks[t] : i < j => tasks[t][i] < tasks[t][j]

Taken(t) == Working(t) =>
    /\ task[t] \in DOMAIN type /\ type[task[t]] = t
    /\ task[t] \notin dropped
    /\ task[t] \in ran <=> thread[t] = "post"
    /\ \A k \in ToSet(tasks[t]) : task[t] < k

LEMMA ByType ==
    /\ TasksInOrder <=> \A t \in Type : InOrder(t)
    /\ TaskTaken <=> \A t \in Type : Taken(t)
BY DEF TasksInOrder, TaskTaken, InOrder, Taken

(* What a step on type t leaves of another type.                           *)
LEMMA TasksInOrderStep ==
    ASSUME IInv, [Next]_vars
    PROVE  TasksInOrder'
<1>1. /\ TypeOK /\ MainStands /\ Enqueued /\ QueueTypes /\ ThreadTypes
      /\ \A t \in Type : InOrder(t)
      /\ \A t \in Type : Taken(t)
  BY TypeParts, ByType DEF IInv
<1>2. SUFFICES ASSUME NEW u \in Type
               PROVE  InOrder(u)'
  BY DEF TasksInOrder, InOrder
<1>3. ASSUME NEW t \in Type, Enqueue(t)
      PROVE  InOrder(u)'
  <2>1. CASE u # t
    <3>1. tasks'[u] = tasks[u]
      BY <1>1, <1>3, <2>1, NewTask DEF QueueTypes
    <3> QED  BY <1>1, <1>3, <3>1, NewTask DEF InOrder
  <2>2. CASE u = t
    <3> DEFINE q == tasks[t]
               n == Len(type) + 1
    <3>1. q \in Seq(1..MaxTask) /\ n \in 1..MaxTask /\ tasks'[t] = Append(q, n)
      BY <1>1, <1>3, NewTask DEF QueueTypes
    <3>2. \A k \in ToSet(q) : /\ k \in DOMAIN type' /\ type'[k] = t /\ k \notin ran \cup dropped
                              /\ k < n
      BY <1>1, <1>3, NewTask DEF InOrder
    <3>3. n \in DOMAIN type' /\ type'[n] = t /\ n \notin ran \cup dropped
      BY <1>1, <1>3, NewTask DEF Enqueued
    <3>4. ran' = ran /\ dropped' = dropped
      BY <1>1, <1>3, NewTask
    <3>5. \A i, j \in DOMAIN q : i < j => q[i] < q[j]
      BY <1>1 DEF InOrder
    <3>8. Len(q) \in Nat /\ DOMAIN q = 1..Len(q)
      BY <3>1
    <3> HIDE DEF q, n
    <3>6. \A k \in ToSet(Append(q, n)) : k \in DOMAIN type' /\ type'[k] = t /\ k \notin ran' \cup dropped'
      <4>1. \A k : k \in ToSet(Append(q, n)) => k \in ToSet(q) \/ k = n
        BY <3>1, AppendElements
      <4> QED  BY <3>2, <3>3, <3>4, <4>1
    <3>7. ASSUME NEW i \in DOMAIN Append(q, n), NEW j \in DOMAIN Append(q, n), i < j
          PROVE  Append(q, n)[i] < Append(q, n)[j]
      <4>1. i \in DOMAIN q
        BY <3>1, <3>7, <3>8, AppendParts
      <4>2. q[i] \in ToSet(q) /\ Append(q, n)[i] = q[i]
        BY <3>1, <4>1, AppendParts
      <4>3. CASE j \in DOMAIN q
        BY <3>1, <3>5, <3>7, <4>1, <4>2, <4>3, AppendParts
      <4>4. CASE j = Len(q) + 1
        <5>1. Append(q, n)[j] = n
          BY <3>1, <4>4, AppendParts
        <5> QED  BY <3>2, <4>2, <5>1
      <4> QED  BY <3>1, <4>3, <4>4, AppendParts
    <3> QED  BY <2>2, <3>1, <3>6, <3>7 DEF InOrder
  <2> QED  BY <2>1, <2>2
<1>4. ASSUME NEW t \in Type, Drops(t)
      PROVE  InOrder(u)'
  <2>1. CASE u # t
    <3>1. tasks'[u] = tasks[u]
      BY <1>1, <1>4, <2>1 DEF Drops, QueueTypes
    <3>2. \A k \in ToSet(tasks[u]) : k \notin ToSet(tasks[t])
      BY <1>1, <2>1 DEF InOrder
    <3> QED  BY <1>1, <1>4, <3>1, <3>2 DEF InOrder, Drops
  <2>2. CASE u = t
    <3>1. tasks'[u] = <<>>
      BY <1>1, <1>4, <2>2 DEF Drops, QueueTypes
    <3> QED  BY <3>1, EmptyQueue DEF InOrder
  <2> QED  BY <2>1, <2>2
<1>5. ASSUME NEW t \in Type, Take(t)
      PROVE  InOrder(u)'
  <2>0. UNCHANGED <<type, ran, dropped>>
    BY <1>5 DEF Take, history
  <2>1. CASE u # t
    <3>1. tasks'[u] = tasks[u]
      BY <1>1, <1>5, <2>1 DEF Take, QueueTypes
    <3> QED  BY <1>1, <2>0, <3>1 DEF InOrder
  <2>2. CASE u = t
    <3>1. tasks'[t] = Tail(tasks[t]) /\ tasks[t] \in Seq(1..MaxTask) /\ tasks[t] # <<>>
      BY <1>1, <1>5 DEF Take, QueueTypes
    <3> DEFINE q == tasks[t]
    <3>2. /\ \A k \in ToSet(q) : k \in DOMAIN type /\ type[k] = t /\ k \notin ran \cup dropped
          /\ \A i, j \in DOMAIN q : i < j => q[i] < q[j]
      BY <1>1 DEF InOrder
    <3>3. q \in Seq(1..MaxTask) /\ q # <<>> /\ tasks'[t] = Tail(q)
      BY <3>1
    <3> HIDE DEF q
    <3>4. ToSet(Tail(q)) \subseteq ToSet(q)
      BY <3>3, TailParts
    <3>5. \A i, j \in DOMAIN Tail(q) : i < j => Tail(q)[i] < Tail(q)[j]
      BY <3>2, <3>3, TailParts
    <3> QED  BY <2>0, <2>2, <3>2, <3>3, <3>4, <3>5 DEF InOrder
  <2> QED  BY <2>1, <2>2
<1>6. ASSUME NEW t \in Type, Run(t)
      PROVE  InOrder(u)'
  <2>1. task[t] \in DOMAIN type /\ type[task[t]] = t /\ \A k \in ToSet(tasks[t]) : task[t] < k
    BY <1>1, <1>6 DEF Run, Taken, Working
  <2>2. task[t] \notin ToSet(tasks[u])
    <3>1. CASE u = t
      <4>1. task[t] \in Int
        BY <1>1, AsyncTaskPoolAssumption DEF ThreadTypes
      <4> QED  BY <2>1, <3>1, <4>1
    <3>2. CASE u # t
      BY <1>1, <2>1, <3>2 DEF InOrder
    <3> QED  BY <3>1, <3>2
  <2> QED  BY <1>1, <1>6, <2>2 DEF Run, InOrder, queues
<1>7. ASSUME NEW t \in Type, Post(t)
      PROVE  InOrder(u)'
  BY <1>1, <1>7 DEF Post, InOrder, queues, history
<1>8. CASE RunFunction
  BY <1>1, <1>8 DEF RunFunction, InOrder, queues
<1>9. CASE Rests
  BY <1>1, <1>9 DEF Rests, InOrder
<1> QED  BY <1>1, <1>3, <1>4, <1>5, <1>6, <1>7, <1>8, <1>9, DataSteps

LEMMA TaskTakenStep ==
    ASSUME IInv, [Next]_vars
    PROVE  TaskTaken'
<1>1. /\ TypeOK /\ MainStands /\ Enqueued /\ QueueTypes /\ ThreadTypes
      /\ \A t \in Type : InOrder(t)
      /\ \A t \in Type : Taken(t)
  BY TypeParts, ByType DEF IInv
<1>2. SUFFICES ASSUME NEW u \in Type, Working(u)'
               PROVE  Taken(u)'
  BY DEF TaskTaken, Taken
<1>3. ASSUME NEW t \in Type, Enqueue(t)
      PROVE  Taken(u)'
  <2>1. Working(u) /\ thread' = thread /\ task' = task /\ ran' = ran /\ dropped' = dropped
    BY <1>1, <1>2, <1>3, NewTask DEF Working
  <2>2. task[u] \in DOMAIN type /\ type[task[u]] = u /\ \A k \in ToSet(tasks[u]) : task[u] < k
    BY <1>1, <2>1 DEF Taken
  <2>3. task[u] \in DOMAIN type' /\ type'[task[u]] = u /\ task[u] < Len(type) + 1
    BY <1>1, <1>3, <2>2, NewTask
  <2>4. \A k \in ToSet(tasks'[u]) : task[u] < k
    <3>1. CASE u # t
      BY <1>1, <1>3, <2>2, <3>1, NewTask DEF QueueTypes
    <3>2. CASE u = t
      <4> DEFINE q == tasks[t]
                 n == Len(type) + 1
      <4>1. q \in Seq(1..MaxTask) /\ n \in 1..MaxTask /\ tasks'[u] = Append(q, n)
        BY <1>1, <1>3, <3>2, NewTask DEF QueueTypes
      <4>2. task[u] < n /\ \A k \in ToSet(q) : task[u] < k
        BY <2>2, <2>3, <3>2
      <4> HIDE DEF q, n
      <4>3. \A k \in ToSet(Append(q, n)) : task[u] < k
        <5>1. \A k : k \in ToSet(Append(q, n)) => k \in ToSet(q) \/ k = n
          BY <4>1, AppendElements
        <5> QED  BY <4>2, <5>1
      <4> QED  BY <4>1, <4>3
    <3> QED  BY <3>1, <3>2
  <2> QED  BY <1>1, <2>1, <2>3, <2>4 DEF Taken
<1>4. ASSUME NEW t \in Type, Drops(t)
      PROVE  Taken(u)'
  <2>1. Working(u)
    BY <1>2, <1>4 DEF Working, Drops
  <2>2. task[u] \notin ToSet(tasks[t])
    <3>1. CASE u = t
      <4>1. task[u] \in Int
        BY <1>1, AsyncTaskPoolAssumption DEF ThreadTypes
      <4> QED  BY <1>1, <2>1, <3>1, <4>1 DEF Taken
    <3>2. CASE u # t
      BY <1>1, <2>1, <3>2 DEF InOrder, Taken
    <3> QED  BY <3>1, <3>2
  <2>3. ToSet(tasks'[u]) \subseteq ToSet(tasks[u])
    <3>1. CASE u = t
      BY <1>1, <1>4, <3>1, EmptyQueue DEF Drops, QueueTypes
    <3>2. CASE u # t
      BY <1>1, <1>4, <3>2 DEF Drops, QueueTypes
    <3> QED  BY <3>1, <3>2
  <2> QED  BY <1>1, <1>4, <2>1, <2>2, <2>3 DEF Drops, Taken
<1>5. ASSUME NEW t \in Type, Take(t)
      PROVE  Taken(u)'
  <2>0. UNCHANGED <<type, ran, dropped>>
    BY <1>5 DEF Take, history
  <2>1. CASE u # t
    <3>1. tasks'[u] = tasks[u] /\ thread'[u] = thread[u] /\ task'[u] = task[u]
      BY <1>1, <1>5, <2>1 DEF Take, QueueTypes, ThreadTypes
    <3> QED  BY <1>1, <1>2, <2>0, <3>1 DEF Taken, Working
  <2>2. CASE u = t
    <3> DEFINE q == tasks[t]
    <3>1. /\ q \in Seq(1..MaxTask) /\ q # <<>> /\ tasks'[t] = Tail(q)
          /\ task'[t] = Head(q) /\ thread'[t] = "run"
      BY <1>1, <1>5 DEF Take, QueueTypes, ThreadTypes
    <3>2. /\ \A k \in ToSet(q) : k \in DOMAIN type /\ type[k] = t /\ k \notin ran \cup dropped
          /\ \A i, j \in DOMAIN q : i < j => q[i] < q[j]
      BY <1>1 DEF InOrder
    <3>5. DOMAIN q = 1..Len(q)
      BY <3>1
    <3> HIDE DEF q
    <3>3. Head(q) \in DOMAIN type /\ type[Head(q)] = t /\ Head(q) \notin ran \cup dropped
      BY <3>1, <3>2, TailParts
    <3>4. \A k \in ToSet(Tail(q)) : Head(q) < k
      <4>1. ASSUME NEW i \in DOMAIN Tail(q)
            PROVE  Head(q) < Tail(q)[i]
        <5>1. /\ Head(q) = q[1] /\ 1 \in DOMAIN q /\ i + 1 \in DOMAIN q
              /\ i + 1 # 1 /\ i \in Int /\ Tail(q)[i] = q[i + 1]
          BY <3>1, TailParts
        <5>2. 1 < i + 1
          BY <3>5, <5>1
        <5> QED  BY <3>2, <5>1, <5>2
      <4> QED  BY <4>1 DEF ToSet
    <3> QED  BY <2>0, <2>2, <3>1, <3>3, <3>4 DEF Taken
  <2> QED  BY <2>1, <2>2
<1>6. ASSUME NEW t \in Type, Run(t)
      PROVE  Taken(u)'
  <2>1. Taken(u) /\ Working(t) /\ Taken(t)
    BY <1>1, <1>6 DEF Run, Working
  <2>2. UNCHANGED <<tasks, type, task, dropped>>
    BY <1>6 DEF Run, queues
  <2>3. CASE u # t
    <3>1. thread'[u] = thread[u] /\ Working(u)
      BY <1>1, <1>2, <1>6, <2>3 DEF Run, ThreadTypes, Working
    <3>2. task[t] # task[u]
      BY <2>1, <2>3, <3>1 DEF Taken
    <3> QED  BY <1>6, <2>1, <2>2, <3>1, <3>2 DEF Run, Taken
  <2>4. CASE u = t
    <3>1. thread'[t] = "post" /\ task[t] \in ran'
      BY <1>1, <1>6 DEF Run, ThreadTypes
    <3> QED  BY <2>1, <2>2, <2>4, <3>1 DEF Taken
  <2> QED  BY <2>3, <2>4
<1>7. ASSUME NEW t \in Type, Post(t)
      PROVE  Taken(u)'
  <2>1. u # t
    BY <1>1, <1>2, <1>7 DEF Post, ThreadTypes, Working
  <2>2. thread'[u] = thread[u] /\ task'[u] = task[u] /\ UNCHANGED <<tasks, type, ran, dropped>>
    BY <1>1, <1>7, <2>1 DEF Post, ThreadTypes, queues, history
  <2> QED  BY <1>1, <1>2, <2>2 DEF Taken, Working
<1>8. CASE RunFunction
  BY <1>1, <1>2, <1>8 DEF RunFunction, Taken, Working, queues, threads
<1>9. CASE Rests
  <2>1. thread'[u] = thread[u] /\ task'[u] = task[u] /\ UNCHANGED <<tasks, type, ran, dropped>>
    BY <1>2, <1>9 DEF Rests
  <2> QED  BY <1>1, <1>2, <2>1 DEF Taken, Working
<1> QED  BY <1>1, <1>3, <1>4, <1>5, <1>6, <1>7, <1>8, <1>9, DataSteps


(* The order of the callbacks of a queue, and of two queues.               *)
Sorted(q) ==
    \A i, j \in DOMAIN q : i < j /\ type[q[i]] = type[q[j]] => q[i] < q[j]

LEMMA SortedAppend ==
    ASSUME NEW q \in Seq(1..MaxTask), NEW e \in 1..MaxTask, Sorted(q),
           \A k \in ToSet(q) : type[k] = type[e] => k < e
    PROVE  Sorted(Append(q, e))
<1>1. Len(q) \in Nat /\ DOMAIN q = 1..Len(q) /\ DOMAIN Append(q, e) = DOMAIN q \cup {Len(q) + 1}
  BY AppendParts
<1>2. ASSUME NEW i \in DOMAIN Append(q, e), NEW j \in DOMAIN Append(q, e), i < j,
             type[Append(q, e)[i]] = type[Append(q, e)[j]]
      PROVE  Append(q, e)[i] < Append(q, e)[j]
  <2>1. i \in DOMAIN q
    BY <1>1, <1>2
  <2>2. Append(q, e)[i] = q[i] /\ q[i] \in ToSet(q)
    BY <2>1, AppendParts
  <2>3. CASE j \in DOMAIN q
    <3>1. Append(q, e)[j] = q[j]
      BY <2>3, AppendParts
    <3> QED  BY <1>2, <2>1, <2>2, <2>3, <3>1 DEF Sorted
  <2>4. CASE j = Len(q) + 1
    <3>1. Append(q, e)[j] = e
      BY <2>4, AppendParts
    <3> QED  BY <1>2, <2>2, <3>1
  <2> QED  BY <1>1, <2>3, <2>4
<1> QED  BY <1>2 DEF Sorted

LEMMA SortedTail ==
    ASSUME NEW q \in Seq(1..MaxTask), q # <<>>, Sorted(q)
    PROVE  /\ Sorted(Tail(q))
           /\ \A k \in ToSet(Tail(q)) : type[Head(q)] = type[k] => Head(q) < k
<1>1. /\ DOMAIN q = 1..Len(q) /\ Head(q) = q[1] /\ 1 \in DOMAIN q
      /\ \A i \in DOMAIN Tail(q) : /\ i + 1 \in DOMAIN q /\ i + 1 # 1 /\ i \in Int
                                   /\ Tail(q)[i] = q[i + 1]
  BY TailParts
<1>2. Sorted(Tail(q))
  BY <1>1 DEF Sorted
<1>3. ASSUME NEW i \in DOMAIN Tail(q), type[Head(q)] = type[Tail(q)[i]]
      PROVE  Head(q) < Tail(q)[i]
  <2>1. 1 < i + 1
    BY <1>1
  <2> QED  BY <1>1, <1>3, <2>1 DEF Sorted
<1> QED  BY <1>2, <1>3 DEF ToSet

(* A callback stays before what its type has left.                         *)
LEMMA BeforeStep ==
    ASSUME IInv, [Next]_vars, NEW k, \A t \in Type : Before(k, t)
    PROVE  \A t \in Type : Before(k, t)'
<1>1. /\ TypeOK /\ MainStands /\ Enqueued /\ QueueTypes /\ ThreadTypes
      /\ \A t \in Type : InOrder(t)
      /\ \A t \in Type : Taken(t)
  BY TypeParts, ByType DEF IInv
<1>2. SUFFICES ASSUME NEW u \in Type
               PROVE  Before(k, u)'
  OBVIOUS
<1>3. /\ k \in DOMAIN type /\ k \in ran \ dropped
      /\ type[k] = u => /\ Working(u) => k < task[u]
                        /\ \A l \in ToSet(tasks[u]) : k < l
  BY DEF Before
<1>4. ASSUME NEW t \in Type, Enqueue(t)
      PROVE  Before(k, u)'
  <2>1. /\ k \in DOMAIN type' /\ type'[k] = type[k] /\ k < Len(type) + 1
        /\ UNCHANGED <<thread, task, ran, dropped>>
    BY <1>1, <1>3, <1>4, NewTask
  <2>2. ToSet(tasks'[u]) \subseteq ToSet(tasks[u]) \cup {Len(type) + 1}
    <3>1. CASE u # t
      BY <1>1, <1>4, <3>1, NewTask DEF QueueTypes
    <3>2. CASE u = t
      <4> DEFINE q == tasks[t]
                 n == Len(type) + 1
      <4>1. q \in Seq(1..MaxTask) /\ n \in 1..MaxTask /\ tasks'[u] = Append(q, n)
        BY <1>1, <1>4, <3>2, NewTask DEF QueueTypes
      <4> HIDE DEF q, n
      <4>2. ToSet(tasks'[u]) = ToSet(q) \cup {n}
        BY <4>1, AppendSet
      <4> QED  BY <3>2, <4>2 DEF q, n
    <3> QED  BY <3>1, <3>2
  <2> QED  BY <1>3, <2>1, <2>2 DEF Before, Working
<1>5. ASSUME NEW t \in Type, Drops(t)
      PROVE  Before(k, u)'
  <2>1. k \notin ToSet(tasks[t])
    BY <1>1, <1>3 DEF InOrder
  <2>2. ToSet(tasks'[u]) \subseteq ToSet(tasks[u])
    <3>1. CASE u = t
      BY <1>1, <1>5, <3>1, EmptyQueue DEF Drops, QueueTypes
    <3>2. CASE u # t
      BY <1>1, <1>5, <3>2 DEF Drops, QueueTypes
    <3> QED  BY <3>1, <3>2
  <2> QED  BY <1>3, <1>5, <2>1, <2>2 DEF Drops, Before, Working
<1>6. ASSUME NEW t \in Type, Take(t)
      PROVE  Before(k, u)'
  <2>0. UNCHANGED <<type, ran, dropped>>
    BY <1>6 DEF Take, history
  <2>1. CASE u # t
    <3>1. tasks'[u] = tasks[u] /\ thread'[u] = thread[u] /\ task'[u] = task[u]
      BY <1>1, <1>6, <2>1 DEF Take, QueueTypes, ThreadTypes
    <3> QED  BY <1>3, <2>0, <3>1 DEF Before, Working
  <2>2. CASE u = t
    <3> DEFINE q == tasks[t]
    <3>1. /\ q \in Seq(1..MaxTask) /\ q # <<>> /\ tasks'[u] = Tail(q) /\ task'[u] = Head(q)
      BY <1>1, <1>6, <2>2 DEF Take, QueueTypes, ThreadTypes
    <3>2. type[k] = u => \A l \in ToSet(q) : k < l
      BY <1>3, <2>2
    <3> HIDE DEF q
    <3>3. Head(q) \in ToSet(q) /\ ToSet(Tail(q)) \subseteq ToSet(q)
      BY <3>1, TailParts
    <3> QED  BY <1>3, <2>0, <3>1, <3>2, <3>3 DEF Before
  <2> QED  BY <2>1, <2>2
<1>7. ASSUME NEW t \in Type, Run(t)
      PROVE  Before(k, u)'
  <2>1. Working(u)' => Working(u)
    BY <1>1, <1>7 DEF Run, Working, ThreadTypes
  <2>2. UNCHANGED <<tasks, task, type, dropped>> /\ k \in ran'
    BY <1>3, <1>7 DEF Run, queues
  <2> QED  BY <1>3, <2>1, <2>2 DEF Before
<1>8. ASSUME NEW t \in Type, Post(t)
      PROVE  Before(k, u)'
  <2>1. Working(u)' => Working(u) /\ task'[u] = task[u]
    BY <1>1, <1>8 DEF Post, Working, ThreadTypes
  <2>2. UNCHANGED <<tasks, type, ran, dropped>>
    BY <1>8 DEF Post, queues, history
  <2> QED  BY <1>3, <2>1, <2>2 DEF Before
<1>9. CASE RunFunction
  BY <1>3, <1>9 DEF RunFunction, Before, Working, queues, threads
<1>10. CASE Rests
  <2>1. Working(u)' => Working(u) /\ task'[u] = task[u]
    BY <1>10 DEF Rests, Working
  <2>2. UNCHANGED <<tasks, type, ran, dropped>>
    BY <1>10 DEF Rests
  <2> QED  BY <1>3, <2>1, <2>2 DEF Before
<1> QED  BY <1>1, <1>4, <1>5, <1>6, <1>7, <1>8, <1>9, <1>10, DataSteps


Answered == ToSet(functions) \cup ToSet(called)

InTurn == \A k \in ToSet(called), l \in ToSet(functions) : type[k] = type[l] => k < l

LEMMA CallbackParts ==
    CallbacksInOrder <=> /\ \A k \in Answered : \A t \in Type : Before(k, t)
                         /\ Sorted(functions) /\ Sorted(called)
                         /\ InTurn
BY DEF CallbacksInOrder, Answered, Sorted, InTurn

LEMMA CallbacksInOrderStep ==
    ASSUME IInv, [Next]_vars
    PROVE  CallbacksInOrder'
<1>1. /\ TypeOK /\ MainStands /\ Enqueued /\ QueueTypes /\ ThreadTypes
      /\ taskCallBacks = tasks /\ callback = task
      /\ \A t \in Type : InOrder(t)
      /\ \A t \in Type : Taken(t)
      /\ \A k \in Answered : \A t \in Type : Before(k, t)
      /\ Sorted(functions) /\ Sorted(called) /\ InTurn
  BY TypeParts, ByType, CallbackParts DEF IInv, Paired
<1>2. ASSUME NEW k \in Answered
      PROVE  \A t \in Type : Before(k, t)'
  BY <1>1, BeforeStep
<1>3. SUFFICES /\ \A k \in Answered' : \A t \in Type : Before(k, t)'
               /\ Sorted(functions)' /\ Sorted(called)' /\ InTurn'
  BY DEF CallbacksInOrder, Answered, Sorted, InTurn
<1>4. ASSUME NEW t \in Type, Enqueue(t)
      PROVE  /\ \A k \in Answered' : \A u \in Type : Before(k, u)'
             /\ Sorted(functions)' /\ Sorted(called)' /\ InTurn'
  <2>1. 1 \in Type
    BY AsyncTaskPoolAssumption DEF Type
  <2>2. functions' = functions /\ called' = called
    BY <1>1, <1>4, NewTask
  <2>3. \A k \in Answered : type'[k] = type[k]
    BY <1>1, <1>4, <2>1, NewTask DEF Before
  <2>4. /\ \A i \in DOMAIN functions : functions[i] \in Answered
        /\ \A i \in DOMAIN called : called[i] \in Answered
    BY <1>1 DEF Answered, ToSet, QueueTypes
  <2>5. Sorted(functions)' /\ Sorted(called)'
    BY <1>1, <2>2, <2>3, <2>4 DEF Sorted
  <2>6. InTurn'
    BY <1>1, <2>2, <2>3 DEF InTurn, Answered
  <2> QED  BY <1>2, <2>2, <2>5, <2>6 DEF Answered
<1>5. ASSUME UNCHANGED <<functions, called, type>>
      PROVE  /\ \A k \in Answered' : \A t \in Type : Before(k, t)'
             /\ Sorted(functions)' /\ Sorted(called)' /\ InTurn'
  BY <1>1, <1>2, <1>5 DEF Answered, Sorted, InTurn
<1>6. ASSUME NEW t \in Type, Drops(t) \/ Take(t) \/ Run(t)
      PROVE  UNCHANGED <<functions, called, type>>
  BY <1>6 DEF Drops, Take, Run, history, queues
<1>7. ASSUME NEW t \in Type, Post(t)
      PROVE  /\ \A k \in Answered' : \A u \in Type : Before(k, u)'
             /\ Sorted(functions)' /\ Sorted(called)' /\ InTurn'
  <2>0. PICK e : e = task[t]
    OBVIOUS
  <2>1. /\ functions' = Append(functions, e) /\ thread[t] = "post"
        /\ UNCHANGED <<tasks, type, ran, dropped, called>>
    BY <1>1, <1>7, <2>0 DEF Post, queues, history
  <2>2. /\ e \in DOMAIN type /\ type[e] = t /\ e \in ran \ dropped
        /\ \A l \in ToSet(tasks[t]) : e < l
    BY <1>1, <2>0, <2>1 DEF Taken, Working
  <2>3. thread'[t] = "test"
    BY <1>1, <1>7 DEF Post, ThreadTypes
  <2>4. \A k \in Answered : type[k] = t => k < e
    BY <1>1, <2>0, <2>1 DEF Before, Working
  <2>5. e \in 1..MaxTask
    BY <1>1, <2>2 DEF QueueTypes
  <2>6. \A u \in Type : Before(e, u)'
    BY <2>1, <2>2, <2>3 DEF Before, Working
  <2>7. functions \in Seq(1..MaxTask) /\ \A k \in ToSet(functions) : type[k] = type[e] => k < e
    BY <1>1, <2>2, <2>4 DEF QueueTypes, Answered
  <2>8. \A k : k \in ToSet(functions') => k \in ToSet(functions) \/ k = e
    BY <2>1, <2>5, <2>7, AppendElements
  <2>9. Sorted(Append(functions, e))
    BY <1>1, <2>5, <2>7, SortedAppend
  <2>10. Sorted(functions)' /\ Sorted(called)'
    BY <1>1, <2>1, <2>9 DEF Sorted
  <2>11. InTurn'
    BY <1>1, <2>1, <2>2, <2>4, <2>8 DEF InTurn, Answered
  <2>12. \A k \in Answered' : k \in Answered \/ k = e
    BY <2>1, <2>8 DEF Answered
  <2> QED  BY <1>2, <2>6, <2>10, <2>11, <2>12
<1>8. CASE RunFunction
  <2> DEFINE e == Head(functions)
  <2>1. /\ called' = Append(called, e) /\ functions' = Tail(functions) /\ functions # <<>>
        /\ type' = type
    BY <1>8 DEF RunFunction
  <2>2. functions \in Seq(1..MaxTask) /\ called \in Seq(1..MaxTask)
    BY <1>1 DEF QueueTypes
  <2>3. /\ e \in 1..MaxTask /\ ToSet(functions) = ToSet(functions') \cup {e}
        /\ Sorted(functions')
        /\ \A l \in ToSet(functions') : type[e] = type[l] => e < l
    BY <1>1, <2>1, <2>2, TailParts, SortedTail
  <2>4. \A k \in ToSet(called) : type[k] = type[e] => k < e
    BY <1>1, <2>3 DEF InTurn
  <2> HIDE DEF e
  <2>5. \A k : k \in ToSet(called') => k \in ToSet(called) \/ k = e
    BY <2>1, <2>2, <2>3, AppendElements
  <2>6. Sorted(called')
    BY <1>1, <2>1, <2>2, <2>3, <2>4, SortedAppend
  <2>7. Sorted(functions)' /\ Sorted(called)'
    BY <2>1, <2>3, <2>6 DEF Sorted
  <2>8. InTurn'
    BY <1>1, <2>1, <2>3, <2>5 DEF InTurn
  <2>9. \A k \in Answered' : k \in Answered
    BY <2>3, <2>5 DEF Answered
  <2> QED  BY <1>2, <2>7, <2>8, <2>9
<1>9. CASE Rests
  BY <1>5, <1>9 DEF Rests
<1> QED  BY <1>1, <1>4, <1>5, <1>6, <1>7, <1>8, <1>9, DataSteps

-----------------------------------------------------------------------------
LEMMA Initially == Init => IInv
<1> SUFFICES ASSUME Init
             PROVE  IInv
  OBVIOUS
<1> USE AsyncTaskPoolAssumption
<1>1. ToSet(functions) = {} /\ ToSet(called) = {} /\ \A t \in Type : ToSet(tasks[t]) = {}
  BY EmptyQueue DEF Init
<1>2. /\ DOMAIN functions = {} /\ DOMAIN called = {} /\ \A t \in Type : DOMAIN tasks[t] = {}
  BY EmptyQueue DEF Init
<1>3. QueueTypes
  BY DEF Init, QueueTypes
<1>4. ThreadTypes /\ MainTypes
  <2>1. 0 \in 0..MaxTask /\ 0 \in 0..MaxType
    OBVIOUS
  <2>2. ThreadTypes
    BY <2>1 DEF Init, ThreadTypes
  <2>3. instance \in BOOLEAN
    BY Zenon DEF Init
  <2> QED  BY <2>1, <2>2, <2>3 DEF Init, MainTypes
<1>5. Paired /\ MainStands
  BY DEF Init, Paired, MainStands
<1>6. Enqueued
  BY DEF Init, Enqueued
<1>7. TasksInOrder
  BY <1>1, <1>2 DEF TasksInOrder
<1>8. TaskTaken
  BY DEF Init, TaskTaken, Working
<1>9. CallbacksInOrder
  BY <1>1, <1>2 DEF CallbacksInOrder
<1> QED  BY <1>3, <1>4, <1>5, <1>6, <1>7, <1>8, <1>9, TypeParts DEF IInv

LEMMA Inductive ==
    ASSUME IInv, [Next]_vars
    PROVE  IInv'
<1>1. TypeOK' /\ MainStands' /\ Enqueued'
  BY MainStep, ThreadTypesStep, QueueTypesStep
     DEF IInv, TypeOK, QueueTypes, ThreadTypes, MainTypes
<1> QED  BY <1>1, PairedStep, TasksInOrderStep, TaskTakenStep, CallbacksInOrderStep DEF IInv

(* The queues of a pool and the callbacks posted from it are always in the *)
(* order of its tasks, whenever it is stopped or destroyed.                *)
THEOREM Invariance == Spec => []IInv
<1>1. IInv /\ [Next]_vars => IInv'
  BY Inductive
<1> QED  BY <1>1, Initially, PTL DEF Spec

(* The state of a pool keeps its types.                                    *)
THEOREM TypeCorrect == Spec => []TypeOK
<1>1. IInv => TypeOK
  BY DEF IInv
<1> QED  BY <1>1, Invariance, PTL

(* Callbacks are called in the order of the tasks of their type, for tasks *)
(* that have run only, whatever the main thread stops or destroys.         *)
THEOREM CallbacksFollowTasks == Spec => []CallbacksOfTasks
<1>1. ASSUME IInv
      PROVE  CallbacksOfTasks
  <2>1. 1 \in Type
    BY AsyncTaskPoolAssumption DEF Type
  <2>2. \A k \in ToSet(called) : k \in ran \ dropped
    BY <1>1, <2>1 DEF IInv, CallbacksInOrder, Before
  <2>3. \A i \in DOMAIN called : called[i] \in ToSet(called)
    BY DEF ToSet
  <2> QED  BY <1>1, <2>2, <2>3 DEF IInv, CallbacksInOrder, CallbacksOfTasks
<1> QED  BY <1>1, Invariance, PTL
=============================================================================
