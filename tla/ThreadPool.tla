----------------------------- MODULE ThreadPool -----------------------------
(***************************************************************************)
(* cocos2d::experimental::ThreadPool (src/cocos/base/CCThreadPool.cpp).    *)
(* One owner, the main thread, pushes tasks, stops them, shrinks the pool  *)
(* and destroys it; up to MaxThreads worker threads take tasks from a      *)
(* queue with a mutex of its own, and sleep on a condition variable whose  *)
(* mutex pushTask does not hold while it pushes.                           *)
(*                                                                         *)
(* worker[i] is where the thread of slot i stands, "none" if there is      *)
(* none; "blocked" and "notified" are inside _cv.wait, before and after a  *)
(* notification.  main is where the owner stands; what it does between two *)
(* reads of what workers write is one step.  The clock is abstracted: the  *)
(* shrink interval may or may not have passed.                             *)
(***************************************************************************)
EXTENDS Integers, FiniteSets, SequencesExt

CONSTANTS
    MinThreads,        \* _minThreadNum of a cached pool
    MaxThreads,        \* _maxThreadNum
    ShrinkStep,        \* _shrinkStep
    StretchStep,       \* _stretchStep
    Type,              \* TaskType
    NoType,            \* not a type: no task is being pushed
    MaxTasks           \* bound: tasks pushed over the whole behaviour

ASSUME PoolAssumption ==
    /\ MinThreads \in Nat \ {0}
    /\ MaxThreads \in Nat
    /\ MinThreads <= MaxThreads
    /\ ShrinkStep \in Nat \ {0}
    /\ StretchStep \in Nat \ {0}
    /\ NoType \notin Type
    /\ MaxTasks \in Nat

Slot == 1..MaxThreads
Task == [id : 1..MaxTasks, type : Type]

VARIABLES
    fixedSize,         \* _isFixedSize
    queue,             \* _taskQueue
    mutex,             \* the worker that holds _mutex, 0 if none
    idleNum,           \* _idleThreadNum
    idle,              \* _idleFlags
    abort,             \* _abortFlags
    inited,            \* _initedFlags
    initedNum,         \* _initedThreadNum
    isDone,            \* _isDone
    worker,            \* where the thread of each slot stands
    task,              \* the task it runs, 0 if none
    main,              \* where the main thread stands
    slot,              \* i of the loop in tryShrinkPool
    toJoin,            \* threadIDsToJoin, and the threads stop() joins
    pushing,           \* the type of the task being pushed, or NoType
    stopping,          \* types whose tasks are being stopped
    kept,              \* notStopTasks
    pushed,            \* tasks pushed so far
    requeued,          \* history: tasks stopTasksByType put back
    ran                \* history: tasks that were run to their end

flags == <<idleNum, idle, abort>>
threads == <<worker, task>>
pool == <<inited, initedNum>>
owner == <<main, slot, toJoin, pushing, stopping, kept>>
tasks == <<pushed, requeued, ran>>
vars == <<fixedSize, queue, mutex, flags, pool, isDone, threads, owner, tasks>>

(* A fixed pool has as many threads as it may have.                        *)
MinNum == IF fixedSize THEN MaxThreads ELSE MinThreads

Alive(i) == worker[i] \notin {"none", "exited"}

Init ==
    /\ fixedSize \in BOOLEAN
    /\ queue = <<>>
    /\ mutex = 0
    /\ idleNum = 0
    /\ idle = [i \in Slot |-> FALSE]
    /\ abort = [i \in Slot |-> i > MinNum]
    /\ inited = [i \in Slot |-> i <= MinNum]
    /\ initedNum = MinNum
    /\ isDone = FALSE
    /\ worker = [i \in Slot |-> IF i <= MinNum THEN "pop" ELSE "none"]
    /\ task = [i \in Slot |-> 0]
    /\ main = "idle"
    /\ slot = 0
    /\ toJoin = {}
    /\ pushing = NoType
    /\ stopping = {}
    /\ kept = <<>>
    /\ pushed = 0
    /\ requeued = {}
    /\ ran = {}

-----------------------------------------------------------------------------
(* A worker: the function setThread starts.                                *)

(* Take the first task, to run it next.                                    *)
Take(i, next) ==
    /\ queue # <<>>
    /\ task' = [task EXCEPT ![i] = Head(queue).id]
    /\ queue' = Tail(queue)
    /\ worker' = [worker EXCEPT ![i] = next]

Pop(i) ==
    /\ worker[i] = "pop"
    /\ \/ Take(i, "run")
       \/ /\ queue = <<>>
          /\ worker' = [worker EXCEPT ![i] = "lock"]
          /\ UNCHANGED <<queue, task>>
    /\ UNCHANGED <<fixedSize, mutex, flags, pool, isDone, owner, tasks>>

(* The task returns; an aborted thread goes, whatever is queued.           *)
Finish(i) ==
    /\ worker[i] = "run"
    /\ task' = [task EXCEPT ![i] = 0]
    /\ worker' = [worker EXCEPT ![i] = IF abort[i] THEN "exited" ELSE "pop"]
    /\ ran' = ran \cup {task[i]}
    /\ UNCHANGED <<fixedSize, queue, mutex, flags, pool, isDone, owner, pushed,
                   requeued>>

Lock(i) ==
    /\ worker[i] = "lock"
    /\ mutex = 0
    /\ mutex' = i
    /\ idleNum' = idleNum + 1
    /\ worker' = [worker EXCEPT ![i] = "flag"]
    /\ UNCHANGED <<fixedSize, queue, idle, abort, pool, isDone, task, owner, tasks>>

(* The predicate of _cv.wait, under _mutex: it takes a task if it can, and *)
(* else looks at the flags; if it fails the thread sleeps without _mutex.  *)
Test(i) ==
    \/ Take(i, "unflag") /\ mutex' = i
    \/ /\ queue = <<>>
       /\ isDone \/ abort[i]
       /\ worker' = [worker EXCEPT ![i] = "unflag"]
       /\ mutex' = i
       /\ UNCHANGED <<queue, task>>
    \/ /\ queue = <<>>
       /\ ~ (isDone \/ abort[i])
       /\ worker' = [worker EXCEPT ![i] = "blocked"]
       /\ mutex' = 0
       /\ UNCHANGED <<queue, task>>

FlagIdle(i) ==
    /\ worker[i] = "flag"
    /\ idle' = [idle EXCEPT ![i] = TRUE]
    /\ Test(i)
    /\ UNCHANGED <<fixedSize, idleNum, abort, pool, isDone, owner, tasks>>

(* A notified thread gets _mutex back and tests again.                     *)
Wake(i) ==
    /\ worker[i] = "notified"
    /\ mutex = 0
    /\ Test(i)
    /\ UNCHANGED <<fixedSize, flags, pool, isDone, owner, tasks>>

(* So may one that was not notified.                                       *)
WakeSpuriously(i) ==
    /\ worker[i] = "blocked"
    /\ mutex = 0
    /\ Test(i)
    /\ UNCHANGED <<fixedSize, flags, pool, isDone, owner, tasks>>

Unflag(i) ==
    /\ worker[i] = "unflag"
    /\ idle' = [idle EXCEPT ![i] = FALSE]
    /\ worker' = [worker EXCEPT ![i] = "unlock"]
    /\ UNCHANGED <<fixedSize, queue, mutex, idleNum, abort, pool, isDone, task,
                   owner, tasks>>

(* Mutant: a thread told to finish returns, be it with a task in hand.     *)
UnlockDiscarding(i) ==
    /\ worker[i] = "unlock"
    /\ idleNum' = idleNum - 1
    /\ mutex' = 0
    /\ IF task[i] = 0 \/ abort[i]
       THEN /\ worker' = [worker EXCEPT ![i] = "exited"]
            /\ task' = [task EXCEPT ![i] = 0]
       ELSE worker' = [worker EXCEPT ![i] = "run"] /\ UNCHANGED task
    /\ UNCHANGED <<fixedSize, queue, idle, abort, pool, isDone, owner, tasks>>

(* Without a task the thread returns.                                      *)
Unlock(i) ==
    /\ worker[i] = "unlock"
    /\ idleNum' = idleNum - 1
    /\ mutex' = 0
    /\ worker' = [worker EXCEPT ![i] = IF task[i] = 0 THEN "exited" ELSE "run"]
    /\ UNCHANGED <<fixedSize, queue, idle, abort, pool, isDone, task, owner, tasks>>

Work(i) == Pop(i) \/ Finish(i) \/ Lock(i) \/ FlagIdle(i) \/ Wake(i)
               \/ Unflag(i) \/ Unlock(i)

-----------------------------------------------------------------------------
(* The main thread: pushTask.                                              *)

Goto(place) == main' = place

Blocked == {i \in Slot : worker[i] = "blocked"}

Notify(S) == worker' = [i \in Slot |-> IF i \in S THEN "notified" ELSE worker[i]]

(* Threads are started in the slots of S.                                  *)
Stretch(S) ==
    /\ worker' = [i \in Slot |-> IF i \in S THEN "pop" ELSE worker[i]]
    /\ abort' = [i \in Slot |-> abort[i] /\ i \notin S]
    /\ inited' = [i \in Slot |-> inited[i] \/ i \in S]
    /\ initedNum' = initedNum + Cardinality(S)

(* Mutant: any slot without a waiting thread is taken to be free.          *)
FreeIfNotIdle(count) ==
    {i \in Slot : ~ idle[i] /\ Cardinality({j \in 1..(i - 1) : ~ idle[j]}) < count}

(* The first slots that are not in use, count at most.                     *)
Free(count) ==
    {i \in Slot : ~ inited[i] /\ Cardinality({j \in 1..(i - 1) : ~ inited[j]}) < count}

(* pushTask: a look at how many threads are idle.  When there is none it   *)
(* starts some.                                                            *)
PushTask ==
    /\ main = "idle"
    /\ pushed < MaxTasks
    /\ pushing' \in Type
    /\ \/ /\ ~ fixedSize
          /\ idleNum = 0
          /\ Stretch(Free(StretchStep))
          /\ Goto("push")
       \/ /\ ~ fixedSize
          /\ idleNum > MinNum
          /\ Goto("empty")
          /\ UNCHANGED <<worker, abort, pool>>
       \/ /\ fixedSize \/ idleNum \in 1..MinNum
          /\ Goto("push")
          /\ UNCHANGED <<worker, abort, pool>>
    /\ UNCHANGED <<fixedSize, queue, mutex, idleNum, idle, isDone, task, slot,
                   toJoin, stopping, kept, tasks>>

(* Many are idle: with nothing queued, and long enough after the last      *)
(* time, the pool shrinks first.                                           *)
TestEmpty ==
    /\ main = "empty"
    /\ \/ /\ queue = <<>>
          /\ Goto("scan")
          /\ slot' = 1
       \/ /\ Goto("push")
          /\ UNCHANGED slot
    /\ UNCHANGED <<fixedSize, queue, mutex, flags, pool, isDone, threads, toJoin,
                   pushing, stopping, kept, tasks>>

(* Mutant: no waiting thread is told.                                      *)
PushUntold ==
    /\ main = "push"
    /\ pushed' = pushed + 1
    /\ queue' = Append(queue, [id |-> pushed', type |-> pushing])
    /\ pushing' = NoType
    /\ Goto("idle")
    /\ UNCHANGED <<fixedSize, mutex, flags, pool, isDone, threads, slot,
                   toJoin, stopping, kept, requeued, ran>>

Push ==
    /\ main = "push"
    /\ pushed' = pushed + 1
    /\ queue' = Append(queue, [id |-> pushed', type |-> pushing])
    /\ pushing' = NoType
    /\ Goto("notify")
    /\ UNCHANGED <<fixedSize, mutex, flags, pool, isDone, threads, slot,
                   toJoin, stopping, kept, requeued, ran>>

NotifyOne ==
    /\ main = "notify"
    /\ mutex = 0
    /\ \/ Blocked = {} /\ UNCHANGED worker
       \/ \E i \in Blocked : Notify({i})
    /\ Goto("idle")
    /\ UNCHANGED <<fixedSize, queue, mutex, flags, pool, isDone, task, slot, toJoin,
                   pushing, stopping, kept, tasks>>

-----------------------------------------------------------------------------
(* The main thread: tryShrinkPool, called by pushTask or by the owner.     *)

TryShrinkPool ==
    /\ main = "idle"
    /\ Goto("scan")
    /\ slot' = 1
    /\ UNCHANGED <<fixedSize, queue, mutex, flags, pool, isDone, threads, toJoin,
                   pushing, stopping, kept, tasks>>

(* Mutant: the pool may shrink to nothing.                                 *)
ShrinkStepOnly == ShrinkStep

(* maxThreadNumToJoin                                                      *)
MaxToJoin == IF initedNum - MinNum < ShrinkStep THEN initedNum - MinNum ELSE ShrinkStep

(* One iteration of the loop that picks idle threads.                      *)
Scan ==
    /\ main = "scan"
    /\ \/ /\ slot > MaxThreads \/ Cardinality(toJoin) >= MaxToJoin
          /\ Goto("tell")
          /\ slot' = 0
          /\ UNCHANGED <<abort, toJoin>>
       \/ /\ slot <= MaxThreads
          /\ Cardinality(toJoin) < MaxToJoin
          /\ slot' = slot + 1
          /\ IF idle[slot]
             THEN /\ abort' = [abort EXCEPT ![slot] = TRUE]
                  /\ toJoin' = toJoin \cup {slot}
             ELSE UNCHANGED <<abort, toJoin>>
          /\ UNCHANGED main
    /\ UNCHANGED <<fixedSize, queue, mutex, idleNum, idle, pool, isDone, threads,
                   pushing, stopping, kept, tasks>>

(* Mutant: only one of the waiting threads is told.                        *)
NotifyOneOnly ==
    /\ main \in {"tell", "done"}
    /\ mutex = 0
    /\ \/ Blocked = {} /\ UNCHANGED worker
       \/ \E i \in Blocked : Notify({i})
    /\ Goto(IF main = "tell" THEN "join" ELSE "close")
    /\ UNCHANGED <<fixedSize, queue, mutex, flags, pool, isDone, task, slot, toJoin,
                   pushing, stopping, kept, tasks>>

(* notify_all, in tryShrinkPool and in stop.                               *)
NotifyAll ==
    /\ main \in {"tell", "done"}
    /\ mutex = 0
    /\ Notify(Blocked)
    /\ Goto(IF main = "tell" THEN "join" ELSE "close")
    /\ UNCHANGED <<fixedSize, queue, mutex, flags, pool, isDone, task, slot, toJoin,
                   pushing, stopping, kept, tasks>>

(* One iteration of the loop that joins them; the thread object goes.      *)
Join ==
    /\ main \in {"join", "close"}
    /\ \E i \in toJoin :
          /\ \A j \in toJoin : i <= j
          /\ worker[i] = "exited"
          /\ worker' = [worker EXCEPT ![i] = "none"]
          /\ inited' = [inited EXCEPT ![i] = FALSE]
          /\ initedNum' = initedNum - 1
          /\ toJoin' = toJoin \ {i}
    /\ UNCHANGED <<fixedSize, queue, mutex, flags, isDone, task, main, slot,
                   pushing, stopping, kept, tasks>>

(* tryShrinkPool returns, to pushTask or to the owner.                     *)
Shrunk ==
    /\ main = "join"
    /\ toJoin = {}
    /\ Goto(IF pushing = NoType THEN "idle" ELSE "push")
    /\ UNCHANGED <<fixedSize, queue, mutex, flags, pool, isDone, threads, slot, toJoin,
                   pushing, stopping, kept, tasks>>

-----------------------------------------------------------------------------
(* The main thread: stopAllTasks, stopTasksByType and stop.                *)

StopTasks(S) ==
    /\ main = "idle"
    /\ Goto("drain")
    /\ stopping' = S
    /\ UNCHANGED <<fixedSize, queue, mutex, flags, pool, isDone, threads, slot,
                   toJoin, pushing, kept, tasks>>

StopAllTasks == StopTasks(Type)
StopTasksByType == \E t \in Type : StopTasks({t})

(* One iteration of the loop that empties the queue: tasks of other types  *)
(* are kept aside.                                                         *)
Drain ==
    /\ main = "drain"
    /\ queue # <<>>
    /\ queue' = Tail(queue)
    /\ kept' = IF Head(queue).type \in stopping THEN kept
               ELSE Append(kept, Head(queue))
    /\ UNCHANGED <<fixedSize, mutex, flags, pool, isDone, threads, main, slot,
                   toJoin, pushing, stopping, tasks>>

Drained ==
    /\ main = "drain"
    /\ queue = <<>>
    /\ Goto(IF isDone THEN "closed" ELSE "requeue")
    /\ stopping' = {}
    /\ UNCHANGED <<fixedSize, queue, mutex, flags, pool, isDone, threads, slot, toJoin,
                   pushing, kept, tasks>>

(* One iteration of the loop that puts them back: nobody is notified.      *)
Requeue ==
    /\ main = "requeue"
    /\ kept # <<>>
    /\ queue' = Append(queue, Head(kept))
    /\ kept' = Tail(kept)
    /\ requeued' = requeued \cup {Head(kept).id}
    /\ UNCHANGED <<fixedSize, mutex, flags, pool, isDone, threads, main, slot, toJoin,
                   pushing, stopping, pushed, ran>>

Requeued ==
    /\ main = "requeue"
    /\ kept = <<>>
    /\ Goto("idle")
    /\ UNCHANGED <<fixedSize, queue, mutex, flags, pool, isDone, threads, slot, toJoin,
                   pushing, stopping, kept, tasks>>

(* stop(), from the destructor.                                            *)
Stop ==
    /\ main = "idle"
    /\ isDone' = TRUE
    /\ Goto("done")
    /\ toJoin' = {i \in Slot : inited[i]}
    /\ UNCHANGED <<fixedSize, queue, mutex, flags, pool, threads, slot, pushing,
                   stopping, kept, tasks>>

(* All threads are joined: stopAllTasks for what they may have left.       *)
Stopped ==
    /\ main = "close"
    /\ toJoin = {}
    /\ Goto("drain")
    /\ stopping' = Type
    /\ UNCHANGED <<fixedSize, queue, mutex, flags, pool, isDone, threads, slot, toJoin,
                   pushing, kept, tasks>>

(* A call of the owner, and the steps that lead to its return.             *)
Begin == PushTask \/ TryShrinkPool \/ StopAllTasks \/ StopTasksByType \/ Stop

Continue ==
    \/ TestEmpty \/ Push \/ NotifyOne
    \/ Scan \/ NotifyAll \/ Join \/ Shrunk
    \/ Drain \/ Drained \/ Requeue \/ Requeued \/ Stopped

(* The pool is gone.                                                       *)
Closed == main = "closed" /\ UNCHANGED vars

Next == Begin \/ Continue \/ (\E i \in Slot : Work(i) \/ WakeSpuriously(i)) \/ Closed

Spec == Init /\ [][Next]_vars

(* Threads are scheduled and every task returns; the owner need not call   *)
(* anything, and no wake-up without a notification is counted on.          *)
FairSpec ==
    /\ Spec
    /\ WF_vars(Continue)
    /\ \A i \in Slot : WF_vars(Work(i))

-----------------------------------------------------------------------------
(* Properties.                                                             *)

(* The values each variable ranges over.                                   *)
TypeOK ==
    /\ fixedSize \in BOOLEAN
    /\ queue \in Seq(Task)
    /\ mutex \in Slot \cup {0}
    /\ idleNum \in 0..MaxThreads
    /\ idle \in [Slot -> BOOLEAN]
    /\ abort \in [Slot -> BOOLEAN]
    /\ inited \in [Slot -> BOOLEAN]
    /\ initedNum \in 0..MaxThreads
    /\ isDone \in BOOLEAN
    /\ worker \in [Slot -> {"none", "pop", "run", "lock", "flag", "blocked",
                            "notified", "unflag", "unlock", "exited"}]
    /\ task \in [Slot -> 0..MaxTasks]
    /\ main \in {"idle", "empty", "push", "notify", "scan", "tell", "join", "drain",
                 "requeue", "done", "close", "closed"}
    /\ slot \in 0..(MaxThreads + 1)
    /\ toJoin \subseteq Slot
    /\ pushing \in Type \cup {NoType}
    /\ stopping \subseteq Type
    /\ kept \in Seq(Task)
    /\ pushed \in 0..MaxTasks
    /\ requeued \subseteq 1..MaxTasks
    /\ ran \subseteq 1..MaxTasks

(* The flags that say which slots are in use agree with the threads that   *)
(* are there: none is replaced or forgotten while it can still be joined,  *)
(* and the count of them is exact, whichever stopped in whatever order.    *)
SlotsExact ==
    /\ \A i \in Slot : inited[i] <=> worker[i] # "none"
    /\ initedNum = Cardinality({i \in Slot : inited[i]})

(* Shrinking works from idle flags that may be stale when they are read,   *)
(* and still leaves _minThreadNum threads that have not been told to go.   *)
NeverBelowMin ==
    ~ isDone => Cardinality({i \in Slot : Alive(i) /\ ~ abort[i]}) >= MinNum

(* A thread that has been told to go, or a slot that is free, never keeps  *)
(* its idle flag: what shrinking picks next is there and not yet joined.   *)
IdleFlagsLive == \A i \in Slot : idle[i] => Alive(i) /\ inited[i]

(* "The destructor waits for all the functions in the queue to be          *)
(* finished": what stop() clears away after it joined all threads is empty.*)
StopDropsNothing == isDone /\ main \in {"drain", "closed"} => queue = <<>>

(* What makes these inductive.                                             *)

(* The idle flags and their count say who is at the condition variable.    *)
IdleExact ==
    /\ idleNum = Cardinality({i \in Slot :
            worker[i] \in {"flag", "blocked", "notified", "unflag", "unlock"}})
    /\ \A i \in Slot : idle[i] <=> worker[i] \in {"blocked", "notified", "unflag"}

MutexHeld == \A i \in Slot : mutex = i <=> worker[i] \in {"flag", "unflag", "unlock"}

TasksHeld ==
    \A i \in Slot :
        /\ worker[i] = "run" => task[i] # 0
        /\ task[i] # 0 => worker[i] \in {"run", "unflag", "unlock"}

(* A thread goes because it was told to, and when the pool is destroyed    *)
(* only after it saw an empty queue, to which nothing is added any more.   *)
Goes(i) == worker[i] = "exited" \/ (worker[i] \in {"unflag", "unlock"} /\ task[i] = 0)
Leaving == \A i \in Slot : Goes(i) => IF isDone THEN queue = <<>> ELSE abort[i]

(* The threads told to go are those about to be joined, and enough stay.   *)
Shrinking == main \in {"scan", "tell", "join"}
Joining ==
    /\ \A i \in Slot : inited[i] /\ abort[i] => Shrinking /\ i \in toJoin
    /\ toJoin \subseteq {i \in Slot : inited[i]}
    /\ main \in {"done", "close"} => toJoin = {i \in Slot : inited[i]}
    /\ ~ Shrinking /\ main \notin {"done", "close"} => toJoin = {}
    /\ ~ isDone => initedNum >= MinNum + Cardinality(toJoin)
    /\ main = "scan" => slot # 0

Closing ==
    /\ main \in {"done", "close", "closed"} => isDone
    /\ isDone => /\ main \in {"done", "close", "drain", "closed"}
                 /\ kept = <<>>
                 /\ queue # <<>> => initedNum # 0
    /\ isDone /\ main \in {"drain", "closed"} => initedNum = 0
    /\ main \notin {"drain", "requeue"} => kept = <<>>

Pushing ==
    /\ pushing # NoType => pushed < MaxTasks
    /\ main \in {"empty", "push"} => pushing # NoType

(* Only while the queue is emptied are tasks being stopped, and none of    *)
(* those set aside is to be.                                               *)
Stops ==
    /\ main # "drain" => stopping = {}
    /\ \A j \in DOMAIN kept : kept[j].type \notin stopping

(* The inductive invariant.                                                *)
IInv ==
    /\ TypeOK /\ SlotsExact
    /\ IdleExact /\ MutexHeld /\ TasksHeld
    /\ Leaving /\ Joining /\ Closing /\ Pushing /\ Stops

Ids(s) == {s[j].id : j \in DOMAIN s}
Waiting == Ids(queue) \cup Ids(kept)

(* A task is in one place: once in the queue, once among those set aside,  *)
(* or with one thread, however workers take tasks while the owner drains   *)
(* the queue and fills it again.                                           *)
Distinct(s) == \A j, k \in DOMAIN s : s[j].id = s[k].id => j = k
TasksOnce ==
    /\ Distinct(queue) /\ Distinct(kept)
    /\ Ids(queue) \cap Ids(kept) = {}
    /\ \A i \in Slot : task[i] \notin Waiting
    /\ \A i, j \in Slot : task[i] = task[j] => i = j \/ task[i] = 0
    /\ Waiting \subseteq 1..pushed
    /\ \A i \in Slot : task[i] \in 0..pushed

(* The pool as its owner sees it.  What the destructor clears away counts  *)
(* as waiting, and not as stopped.                                         *)
Pool == INSTANCE TaskPool WITH
    waiting <- ToSet(queue) \cup ToSet(kept),
    running <- {task[i] : i \in Slot} \ {0},
    stopping <- IF isDone THEN {} ELSE stopping,
    phase <- IF ~ isDone THEN "open" ELSE IF main = "closed" THEN "closed" ELSE "closing"

(* Whatever threads come and go, no task is lost or run twice: a task that *)
(* a thread has taken is run, also when that thread was told to go; only   *)
(* one of the types a call was given is stopped, and none by the           *)
(* destructor; none runs when the pool is gone.                            *)
ImplementsPool == Pool!Spec

(* Every call of the owner returns: notifying a sleeping thread that is to *)
(* go, and joining it, never waits for ever.                               *)
CallsReturn == main # "idle" ~> main \in {"idle", "closed"}

(* A waiting task is taken by a thread or stopped, although notifications  *)
(* go to threads that find another has taken the task -- unless            *)
(* stopTasksByType put it back.                                            *)
TasksRun == \A t \in 1..MaxTasks : t \in Waiting ~> (t \notin Waiting \/ t \in requeued)

-----------------------------------------------------------------------------
(* What the comments say and the code does not do.                         *)

(* stopTasksByType(): "If task type isn't match, push it into a vector,    *)
(* then insert to task queue again" -- where it is run like any other.     *)
QueuedTasksRun == \A t \in 1..MaxTasks : t \in Waiting ~> t \notin Waiting
=============================================================================
