--------------------------- MODULE AsyncTaskPool ----------------------------
(***************************************************************************)
(* cocos2d::AsyncTaskPool (src/extensions/assets-manager/CCAsyncTaskPool.h)*)
(* with which AssetsManagerEx decompresses what it has downloaded.  A pool *)
(* has a thread for each type of task, with a queue of tasks and one of    *)
(* their callbacks.  The main thread gets the pool, enqueues, stops and    *)
(* destroys; a thread runs its tasks one at a time and posts the callback  *)
(* of each to the Scheduler, whose queue of functions is used as           *)
(* MainThreadQueue specifies it.  Tasks and callbacks are numbered in the  *)
(* order in which they are enqueued.                                       *)
(***************************************************************************)
EXTENDS Integers, SequencesExt

CONSTANTS
    MaxType,           \* TASK_MAX_TYPE: the types are 1..MaxType
    MaxTask            \* bound: tasks enqueued

ASSUME AsyncTaskPoolAssumption == MaxType \in Nat \ {0} /\ MaxTask \in Nat

VARIABLES
    instance,          \* whether s_asyncTaskPool is there
    tasks,             \* _tasks of each type
    taskCallBacks,     \* _taskCallBacks of each type
    stop,              \* _stop of each type
    thread,            \* where the thread of each type stands
    task,              \* the task it has taken, 0 if none
    callback,          \* and the callback it took with it
    functions,         \* callbacks posted to the Scheduler
    main,              \* where the main thread stands
    current,           \* the type it is notifying or destroying
    type,              \* history: the type of each task enqueued so far
    ran,               \* history: tasks that have run
    dropped,           \* history: tasks taken from a queue without running
    called             \* history: callbacks called, in order

queues == <<tasks, taskCallBacks, stop>>
threads == <<thread, task, callback>>
mained == <<main, current>>
history == <<type, ran, dropped, called>>
vars == <<instance, queues, threads, functions, mained, history>>

Type == 1..MaxType

Init ==
    /\ instance = FALSE
    /\ tasks = [t \in Type |-> <<>>]
    /\ taskCallBacks = [t \in Type |-> <<>>]
    /\ stop = [t \in Type |-> FALSE]
    /\ thread = [t \in Type |-> "none"]
    /\ task = [t \in Type |-> 0]
    /\ callback = [t \in Type |-> 0]
    /\ functions = <<>>
    /\ main = "idle"
    /\ current = 0
    /\ type = <<>>
    /\ ran = {}
    /\ dropped = {}
    /\ called = <<>>
-----------------------------------------------------------------------------
(* The main thread                                                         *)

GetInstance ==
    /\ main = "idle"
    /\ ~instance
    /\ instance' = TRUE
    /\ stop' = [t \in Type |-> FALSE]
    /\ thread' = [t \in Type |-> "test"]
    /\ UNCHANGED <<tasks, taskCallBacks, task, callback, functions, mained, history>>

(* Mutant of Enqueue: it notifies nobody.                                  *)
EnqueueSilently(t) ==
    /\ main = "idle"
    /\ instance
    /\ Len(type) < MaxTask
    /\ type' = Append(type, t)
    /\ tasks' = [tasks EXCEPT ![t] = Append(@, Len(type'))]
    /\ taskCallBacks' = [taskCallBacks EXCEPT ![t] = Append(@, Len(type'))]
    /\ UNCHANGED <<instance, stop, threads, functions, mained, ran, dropped, called>>

Enqueue(t) ==
    /\ main = "idle"
    /\ instance
    /\ Len(type) < MaxTask
    /\ type' = Append(type, t)
    /\ tasks' = [tasks EXCEPT ![t] = Append(@, Len(type'))]
    /\ taskCallBacks' = [taskCallBacks EXCEPT ![t] = Append(@, Len(type'))]
    /\ main' = "notify"
    /\ current' = t
    /\ UNCHANGED <<instance, stop, threads, functions, ran, dropped, called>>

Wake(t) == thread' = [thread EXCEPT ![t] = IF @ = "blocked" THEN "test" ELSE @]

NotifyOne ==
    /\ main = "notify"
    /\ Wake(current)
    /\ main' = "idle"
    /\ current' = 0
    /\ UNCHANGED <<instance, queues, task, callback, functions, history>>

(* Mutant of Drop: it empties one of the queues.                           *)
DropTasks(t) ==
    /\ dropped' = dropped \cup ToSet(tasks[t])
    /\ tasks' = [tasks EXCEPT ![t] = <<>>]
    /\ UNCHANGED taskCallBacks

Drop(t) ==
    /\ dropped' = dropped \cup ToSet(tasks[t])
    /\ tasks' = [tasks EXCEPT ![t] = <<>>]
    /\ taskCallBacks' = [taskCallBacks EXCEPT ![t] = <<>>]

StopTasks(t) ==
    /\ main = "idle"
    /\ instance
    /\ Drop(t)
    /\ UNCHANGED <<instance, stop, threads, functions, mained, type, ran, called>>

DestroyInstance ==
    /\ main = "idle"
    /\ instance
    /\ main' = "stop"
    /\ current' = MaxType
    /\ UNCHANGED <<instance, queues, threads, functions, history>>

(* ~ThreadTasks, for one type after the other.                             *)
StopThread ==
    /\ main = "stop"
    /\ stop' = [stop EXCEPT ![current] = TRUE]
    /\ Drop(current)
    /\ main' = "wake"
    /\ UNCHANGED <<instance, threads, functions, current, type, ran, called>>

NotifyAll ==
    /\ main = "wake"
    /\ Wake(current)
    /\ main' = "join"
    /\ UNCHANGED <<instance, queues, task, callback, functions, current, history>>

Join ==
    /\ main = "join"
    /\ thread[current] = "ended"
    /\ \/ /\ current > 1
          /\ main' = "stop"
          /\ current' = current - 1
          /\ UNCHANGED instance
       \/ /\ current = 1
          /\ main' = "idle"
          /\ current' = 0
          /\ instance' = FALSE
    /\ UNCHANGED <<queues, threads, functions, history>>

RunFunction ==
    /\ main = "idle"
    /\ functions # <<>>
    /\ called' = Append(called, Head(functions))
    /\ functions' = Tail(functions)
    /\ UNCHANGED <<instance, queues, threads, mained, type, ran, dropped>>
-----------------------------------------------------------------------------
(* The thread of a type                                                    *)

(* The predicate of the wait.                                              *)
HasWork(t) == stop[t] \/ tasks[t] # <<>>

Wait(t) ==
    /\ thread[t] = "test"
    /\ ~HasWork(t)
    /\ thread' = [thread EXCEPT ![t] = "blocked"]
    /\ UNCHANGED <<instance, queues, task, callback, functions, mained, history>>

WakeSpuriously(t) ==
    /\ thread[t] = "blocked"
    /\ thread' = [thread EXCEPT ![t] = "test"]
    /\ UNCHANGED <<instance, queues, task, callback, functions, mained, history>>

End(t) ==
    /\ thread[t] = "test"
    /\ stop[t]
    /\ tasks[t] = <<>>
    /\ thread' = [thread EXCEPT ![t] = "ended"]
    /\ UNCHANGED <<instance, queues, task, callback, functions, mained, history>>

Take(t) ==
    /\ thread[t] = "test"
    /\ tasks[t] # <<>>
    /\ task' = [task EXCEPT ![t] = Head(tasks[t])]
    /\ callback' = [callback EXCEPT ![t] = Head(taskCallBacks[t])]
    /\ tasks' = [tasks EXCEPT ![t] = Tail(@)]
    /\ taskCallBacks' = [taskCallBacks EXCEPT ![t] = Tail(@)]
    /\ thread' = [thread EXCEPT ![t] = "run"]
    /\ UNCHANGED <<instance, stop, functions, mained, history>>

Run(t) ==
    /\ thread[t] = "run"
    /\ ran' = ran \cup {task[t]}
    /\ thread' = [thread EXCEPT ![t] = "post"]
    /\ UNCHANGED <<instance, queues, task, callback, functions, mained, type, dropped,
                   called>>

Post(t) ==
    /\ thread[t] = "post"
    /\ functions' = Append(functions, callback[t])
    /\ task' = [task EXCEPT ![t] = 0]
    /\ callback' = [callback EXCEPT ![t] = 0]
    /\ thread' = [thread EXCEPT ![t] = "test"]
    /\ UNCHANGED <<instance, queues, mained, history>>

Thread(t) == Wait(t) \/ End(t) \/ Take(t) \/ Run(t) \/ Post(t)
-----------------------------------------------------------------------------
MainContinues == NotifyOne \/ StopThread \/ NotifyAll \/ Join

Next ==
    \/ \E t \in Type : \/ Enqueue(t) \/ StopTasks(t)
                       \/ Thread(t) \/ WakeSpuriously(t)
    \/ GetInstance \/ DestroyInstance \/ MainContinues \/ RunFunction

Spec == Init /\ [][Next]_vars

(* Threads are scheduled and tasks end; the main thread finishes its calls *)
(* and frames run what is posted, whatever is called between them.         *)
FairSpec ==
    /\ Spec
    /\ WF_vars(MainContinues)
    /\ SF_vars(RunFunction)
    /\ \A t \in Type : WF_vars(Thread(t))
-----------------------------------------------------------------------------
(* Properties                                                              *)

(* Every variable has values of its range.                                 *)
TypeOK ==
    /\ instance \in BOOLEAN
    /\ tasks \in [Type -> Seq(1..MaxTask)]
    /\ taskCallBacks \in [Type -> Seq(1..MaxTask)]
    /\ stop \in [Type -> BOOLEAN]
    /\ thread \in [Type -> {"none", "test", "blocked", "run", "post", "ended"}]
    /\ task \in [Type -> 0..MaxTask]
    /\ callback \in [Type -> 0..MaxTask]
    /\ functions \in Seq(1..MaxTask)
    /\ main \in {"idle", "notify", "stop", "wake", "join"}
    /\ current \in 0..MaxType
    /\ type \in Seq(Type)
    /\ ran \subseteq 1..MaxTask
    /\ dropped \subseteq 1..MaxTask
    /\ called \in Seq(1..MaxTask)

(* A callback is called only for a task that has run, so for none that     *)
(* stopTasks or the destructor dropped, at most once, and those of a type  *)
(* in the order in which its tasks were enqueued, across a stop and across *)
(* the end of a pool that still had its callback to post.                  *)
CallbacksOfTasks ==
    /\ \A i \in DOMAIN called : called[i] \in ran \ dropped
    /\ \A i, j \in DOMAIN called :
           i < j /\ type[called[i]] = type[called[j]] => called[i] < called[j]

(* Each task enqueued is answered by its callback or dropped by a call of  *)
(* the main thread: no wake-up is lost.                                    *)
TasksAnswered ==
    \A k \in 1..MaxTask : k \in DOMAIN type ~> k \in ToSet(called) \cup dropped
-----------------------------------------------------------------------------
(* The inductive invariant behind CallbacksOfTasks.                        *)

(* The two queues of a thread, and what it took from them, go together.    *)
Paired == taskCallBacks = tasks /\ callback = task

(* The main thread is at a type while it notifies or destroys.             *)
MainStands == main # "idle" => current \in Type

(* Its thread has taken a task.                                            *)
Working(t) == thread[t] \in {"run", "post"}

(* Tasks that have been enqueued are those of the history.                 *)
Enqueued ==
    /\ Len(type) <= MaxTask
    /\ ran \cup dropped \subseteq DOMAIN type

(* A queue holds tasks of its type, in order, that have not run yet.       *)
TasksInOrder ==
    \A t \in Type :
        /\ \A k \in ToSet(tasks[t]) :
               k \in DOMAIN type /\ type[k] = t /\ k \notin ran \cup dropped
        /\ \A i, j \in DOMAIN tasks[t] : i < j => tasks[t][i] < tasks[t][j]

(* What a thread took comes before what is left.                           *)
TaskTaken ==
    \A t \in Type : Working(t) =>
        /\ task[t] \in DOMAIN type /\ type[task[t]] = t
        /\ task[t] \notin dropped
        /\ task[t] \in ran <=> thread[t] = "post"
        /\ \A k \in ToSet(tasks[t]) : task[t] < k

(* A callback that is posted, or has been called, is of a task that has run*)
(* and comes before all of its type that have not.                         *)
Before(k, t) ==
    /\ k \in DOMAIN type /\ k \in ran \ dropped
    /\ type[k] = t => /\ Working(t) => k < task[t]
                      /\ \A l \in ToSet(tasks[t]) : k < l

CallbacksInOrder ==
    /\ \A k \in ToSet(functions) \cup ToSet(called) : \A t \in Type : Before(k, t)
    /\ \A i, j \in DOMAIN functions :
           i < j /\ type[functions[i]] = type[functions[j]] => functions[i] < functions[j]
    /\ \A i, j \in DOMAIN called :
           i < j /\ type[called[i]] = type[called[j]] => called[i] < called[j]
    /\ \A k \in ToSet(called), l \in ToSet(functions) : type[k] = type[l] => k < l

IInv ==
    /\ TypeOK
    /\ Paired
    /\ MainStands
    /\ Enqueued
    /\ TasksInOrder
    /\ TaskTaken
    /\ CallbacksInOrder
=============================================================================
