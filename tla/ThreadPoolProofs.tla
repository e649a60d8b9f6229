-------------------------- MODULE ThreadPoolProofs --------------------------
(***************************************************************************)
(* IInv is an inductive invariant of ThreadPool, for any number of threads *)
(* and any steps of shrinking and stretching.  One lemma per part of IInv  *)
(* shows that every step keeps it.  Most steps of the main thread leave    *)
(* the workers and what they share under the mutex alone: MainOnly.        *)
(***************************************************************************)
EXTENDS ThreadPool, FiniteSetTheorems, TLAPS

MainOnly ==
    \/ TryShrinkPool \/ StopAllTasks \/ StopTasksByType \/ Stop
    \/ TestEmpty \/ Push \/ Scan \/ Shrunk
    \/ Drain \/ Drained \/ Requeue \/ Requeued \/ Stopped

(* The cases of a step, which the lemmas below go through.                 *)
LEMMA Steps ==
    ASSUME [Next]_vars
    PROVE  \/ MainOnly \/ PushTask \/ NotifyOne \/ NotifyAll \/ Join
           \/ \E i \in Slot : \/ Pop(i) \/ Finish(i) \/ Lock(i) \/ FlagIdle(i)
                              \/ Wake(i) \/ WakeSpuriously(i) \/ Unflag(i) \/ Unlock(i)
           \/ UNCHANGED vars
BY DEF Next, Begin, Continue, Closed, Work, MainOnly

LEMMA MainOnlyLeaves ==
    ASSUME MainOnly
    PROVE  UNCHANGED <<fixedSize, mutex, idleNum, idle, pool, threads>>
BY DEF MainOnly, TryShrinkPool, StopAllTasks, StopTasksByType, StopTasks, Stop, TestEmpty, Push,
       Scan, Shrunk, Drain, Drained, Requeue, Requeued, Stopped, flags, pool, threads

(* Sets of slots are finite.                                               *)
LEMMA SlotSets ==
    ASSUME NEW S, S \subseteq Slot
    PROVE  IsFiniteSet(S) /\ Cardinality(S) \in 0..MaxThreads
<1>1. IsFiniteSet(Slot) /\ Cardinality(Slot) = MaxThreads
  BY FS_Interval, PoolAssumption DEF Slot
<1>2. IsFiniteSet(S) /\ Cardinality(S) <= MaxThreads
  BY <1>1, FS_Subset
<1> QED  BY <1>2, FS_CardinalityType, PoolAssumption

(* The minimum is a number of threads, and the same all the time.          *)
LEMMA Minimum ==
    ASSUME fixedSize \in BOOLEAN
    PROVE  MinNum \in 1..MaxThreads
BY PoolAssumption DEF MinNum

LEMMA FixedSize ==
    ASSUME [Next]_vars
    PROVE  fixedSize' = fixedSize
BY DEF Next, Begin, Continue, Closed, Work, TryShrinkPool, StopAllTasks, StopTasksByType, StopTasks,
       Stop, TestEmpty, Push, Scan, Shrunk, Drain, Drained, Requeue, Requeued, Stopped, PushTask,
       NotifyOne, NotifyAll, Join, Pop, Finish, Lock, FlagIdle, Wake, WakeSpuriously, Unflag,
       Unlock, vars

(* The first element and the rest of a queue, and one more element.        *)
LEMMA QueueParts ==
    ASSUME NEW s \in Seq(Task)
    PROVE  /\ s # <<>> => Head(s) \in Task /\ Tail(s) \in Seq(Task)
           /\ \A t \in Task : Append(s, t) \in Seq(Task)
OBVIOUS

LEMMA TaskFields ==
    ASSUME NEW t \in Task
    PROVE  t.id \in 1..MaxTasks /\ t.type \in Type
BY DEF Task

-----------------------------------------------------------------------------
(* The parts of TypeOK that are no counters of threads.                    *)
WorkerTypes ==
    /\ mutex \in Slot \cup {0}
    /\ idle \in [Slot -> BOOLEAN]
    /\ worker \in [Slot -> {"none", "pop", "run", "lock", "flag", "blocked",
                            "notified", "unflag", "unlock", "exited"}]
    /\ task \in [Slot -> 0..MaxTasks]
    /\ inited \in [Slot -> BOOLEAN]

OwnerTypes ==
    /\ fixedSize \in BOOLEAN
    /\ queue \in Seq(Task)
    /\ abort \in [Slot -> BOOLEAN]
    /\ isDone \in BOOLEAN
    /\ main \in {"idle", "empty", "push", "notify", "scan", "tell", "join", "drain",
                 "requeue", "done", "close", "closed"}
    /\ slot \in 0..(MaxThreads + 1)
    /\ toJoin \subseteq Slot
    /\ pushing \in Type \cup {NoType}
    /\ stopping \subseteq Type
    /\ kept \in Seq(Task)
    /\ pushed \in 0..MaxTasks
    /\ requeued \subseteq 1..MaxTasks
    /\ ran \subseteq 1..MaxTasks

LEMMA TypeParts ==
    TypeOK <=> WorkerTypes /\ OwnerTypes /\ idleNum \in 0..MaxThreads /\ initedNum \in 0..MaxThreads
BY DEF TypeOK, WorkerTypes, OwnerTypes

LEMMA WorkerTypesStep ==
    ASSUME TypeOK, [Next]_vars
    PROVE  WorkerTypes'
<1> USE DEF WorkerTypes
<1>1. WorkerTypes /\ queue \in Seq(Task)
  BY TypeParts DEF OwnerTypes
<1>2. CASE MainOnly
  BY <1>1, <1>2, MainOnlyLeaves DEF pool, threads
<1>3. CASE PushTask
  <2>1. CASE UNCHANGED <<worker, pool>>
    BY <1>1, <1>3, <2>1 DEF PushTask, pool
  <2>2. CASE Stretch(Free(StretchStep))
    BY <1>1, <1>3, <2>2 DEF PushTask, Stretch
  <2> QED  BY <1>3, <2>1, <2>2 DEF PushTask
<1>4. CASE NotifyOne \/ NotifyAll
  BY <1>1, <1>4 DEF NotifyOne, NotifyAll, Notify, flags, pool
<1>5. CASE Join
  BY <1>1, <1>5 DEF Join, flags
<1>6. ASSUME NEW i \in Slot, Pop(i) \/ FlagIdle(i) \/ Wake(i) \/ WakeSpuriously(i)
      PROVE  WorkerTypes'
  <2>1. queue # <<>> => Head(queue).id \in 0..MaxTasks
    BY <1>1, QueueParts, TaskFields
  <2>2. CASE Pop(i)
    BY <1>1, <2>1, <2>2 DEF Pop, Take, flags, pool
  <2>3. CASE FlagIdle(i)
    BY <1>1, <2>1, <2>3 DEF FlagIdle, Test, Take, pool
  <2>4. CASE Wake(i) \/ WakeSpuriously(i)
    BY <1>1, <2>1, <2>4 DEF Wake, WakeSpuriously, Test, Take, flags, pool
  <2> QED  BY <1>6, <2>2, <2>3, <2>4
<1>7. ASSUME NEW i \in Slot, Finish(i) \/ Lock(i) \/ Unflag(i) \/ Unlock(i)
      PROVE  WorkerTypes'
  <2>1. 0 \in 0..MaxTasks
    BY PoolAssumption
  <2> QED  BY <1>1, <1>7, <2>1 DEF Finish, Lock, Unflag, Unlock, flags, pool
<1>8. CASE UNCHANGED vars
  BY <1>1, <1>8 DEF vars, flags, pool, threads
<1> QED  BY <1>2, <1>3, <1>4, <1>5, <1>6, <1>7, <1>8, Steps

LEMMA OwnerTypesStep ==
    ASSUME TypeOK, Joining, Pushing, TasksHeld, [Next]_vars
    PROVE  OwnerTypes'
<1> USE DEF OwnerTypes
<1>1. OwnerTypes /\ MaxTasks \in Nat /\ MaxThreads \in Nat
  BY TypeParts, PoolAssumption
<1>2. CASE TryShrinkPool \/ TestEmpty \/ Shrunk
  <2>1. 1 \in 0..(MaxThreads + 1)
    BY <1>1
  <2>2. CASE TryShrinkPool \/ TestEmpty
    BY <1>1, <2>1, <2>2 DEF TryShrinkPool, TestEmpty, Goto, flags, tasks
  <2>3. CASE Shrunk
    BY <1>1, <2>3 DEF Shrunk, Goto, flags, tasks
  <2> QED  BY <1>2, <2>2, <2>3
<1>3. CASE StopAllTasks \/ StopTasksByType \/ Stop \/ Stopped
  BY <1>1, <1>3
  DEF StopAllTasks, StopTasksByType, StopTasks, Stop, Stopped, Goto, flags, tasks
<1>4. CASE Push
  <2>1. [id |-> pushed + 1, type |-> pushing] \in Task
    BY <1>1, <1>4 DEF Push, Pushing, Task
  <2>2. queue' \in Seq(Task) /\ pushed' \in 0..MaxTasks
    BY <1>1, <1>4, <2>1, QueueParts DEF Push, Pushing
  <2> QED  BY <1>1, <1>4, <2>2 DEF Push, Goto, flags
<1>5. CASE Scan
  <2>1. CASE UNCHANGED <<abort, toJoin>>
    BY <1>1, <1>5, <2>1 DEF Scan, Goto, tasks
  <2>2. CASE slot <= MaxThreads /\ slot' = slot + 1 /\ abort' = [abort EXCEPT ![slot] = TRUE]
             /\ toJoin' = toJoin \cup {slot} /\ UNCHANGED main
    <3>1. slot \in Slot
      BY <1>1, <1>5, <2>2 DEF Scan, Joining, Slot
    <3> QED  BY <1>1, <1>5, <2>2, <3>1 DEF Scan, tasks
  <2> QED  BY <1>5, <2>1, <2>2 DEF Scan
<1>6. CASE Drain \/ Requeue
  <2>1. Drain => queue' \in Seq(Task) /\ kept' \in Seq(Task)
    BY <1>1, QueueParts DEF Drain
  <2>2. Requeue => queue' \in Seq(Task) /\ kept' \in Seq(Task) /\ Head(kept).id \in 1..MaxTasks
    BY <1>1, QueueParts, TaskFields DEF Requeue
  <2> QED  BY <1>1, <1>6, <2>1, <2>2 DEF Drain, Requeue, flags, tasks
<1>7. CASE Drained \/ Requeued
  BY <1>1, <1>7 DEF Drained, Requeued, Goto, flags, tasks
<1>8. CASE PushTask
  <2>1. abort' \in [Slot -> BOOLEAN]
    BY <1>1, <1>8 DEF PushTask, Stretch
  <2> QED  BY <1>1, <1>8, <2>1 DEF PushTask, Goto, tasks
<1>9. CASE NotifyOne \/ NotifyAll \/ Join
  BY <1>1, <1>9 DEF NotifyOne, NotifyAll, Join, Goto, flags, tasks
<1>10. ASSUME NEW i \in Slot,
              \/ Pop(i) \/ Finish(i) \/ Lock(i) \/ FlagIdle(i)
              \/ Wake(i) \/ WakeSpuriously(i) \/ Unflag(i) \/ Unlock(i)
       PROVE  OwnerTypes'
  <2>1. queue' = queue \/ (queue # <<>> /\ queue' = Tail(queue))
    BY <1>10 DEF Pop, Finish, Lock, FlagIdle, Wake, WakeSpuriously, Unflag, Unlock, Test, Take
  <2>2. queue' \in Seq(Task)
    BY <1>1, <2>1, QueueParts
  <2>3. UNCHANGED <<fixedSize, abort, isDone, owner, pushed, requeued>>
    BY <1>10 DEF Pop, Finish, Lock, FlagIdle, Wake, WakeSpuriously, Unflag, Unlock, flags, tasks
  <2>4. ran' \subseteq 1..MaxTasks
    <3>1. CASE Finish(i)
      <4>1. task[i] \in 1..MaxTasks
        BY <1>1, <3>1 DEF Finish, TasksHeld, TypeOK
      <4> QED  BY <1>1, <3>1, <4>1 DEF Finish
    <3>2. CASE \/ Pop(i) \/ Lock(i) \/ FlagIdle(i) \/ Wake(i)
               \/ WakeSpuriously(i) \/ Unflag(i) \/ Unlock(i)
      BY <1>1, <3>2 DEF Pop, Lock, FlagIdle, Wake, WakeSpuriously, Unflag, Unlock, tasks
    <3> QED  BY <1>10, <3>1, <3>2
  <2> QED  BY <1>1, <2>2, <2>3, <2>4 DEF owner
<1>11. CASE UNCHANGED vars
  BY <1>1, <1>11 DEF vars, flags, owner, tasks
<1> QED  BY <1>2, <1>3, <1>4, <1>5, <1>6, <1>7, <1>8, <1>9, <1>10, <1>11, Steps DEF MainOnly

-----------------------------------------------------------------------------
(* The counters of threads.                                                *)
InUse == {i \in Slot : inited[i]}

LEMMA SlotsStep ==
    ASSUME TypeOK, SlotsExact, Leaving, Joining, [Next]_vars
    PROVE  SlotsExact'
<1>1. /\ worker \in [Slot -> {"none", "pop", "run", "lock", "flag", "blocked",
                              "notified", "unflag", "unlock", "exited"}]
      /\ inited \in [Slot -> BOOLEAN] /\ initedNum = Cardinality(InUse) /\ IsFiniteSet(InUse)
      /\ \A i \in Slot : inited[i] <=> worker[i] # "none"
  BY SlotSets DEF TypeOK, SlotsExact, InUse
<1>2. SUFFICES /\ \A i \in Slot : inited[i]' <=> worker'[i] # "none"
               /\ initedNum' = Cardinality(InUse')
  BY DEF SlotsExact, InUse
<1>3. CASE UNCHANGED <<worker, pool>>
  BY <1>1, <1>3 DEF pool, InUse
<1>4. CASE Stretch(Free(StretchStep))
  <2> DEFINE S == Free(StretchStep)
  <2>1. S \subseteq Slot /\ InUse \cap S = {} /\ IsFiniteSet(S)
    BY SlotSets DEF Free, InUse
  <2>2. InUse' = InUse \cup S
    BY <1>1, <1>4, <2>1 DEF Stretch, InUse
  <2>3. Cardinality(InUse \cup S) = Cardinality(InUse) + Cardinality(S)
    BY <1>1, <2>1, FS_Union, FS_EmptySet, FS_CardinalityType
  <2>4. \A i \in Slot : inited[i]' <=> worker'[i] # "none"
    BY <1>1, <1>4 DEF Stretch
  <2> QED  BY <1>1, <1>4, <2>2, <2>3, <2>4 DEF Stretch
<1>5. ASSUME UNCHANGED pool, NEW i \in Slot, worker[i] # "none", NEW place, place # "none",
             worker' = [worker EXCEPT ![i] = place]
      PROVE  SlotsExact'
  BY <1>1, <1>5 DEF SlotsExact, pool, InUse
<1>6. CASE Join
  <2>1. PICK i \in toJoin : /\ worker[i] = "exited" /\ worker' = [worker EXCEPT ![i] = "none"]
                            /\ inited' = [inited EXCEPT ![i] = FALSE]
                            /\ initedNum' = initedNum - 1
    BY <1>6 DEF Join
  <2>2. i \in Slot /\ i \in InUse
    BY <1>1, <2>1 DEF Joining, InUse
  <2>3. InUse' = InUse \ {i}
    BY <1>1, <2>1, <2>2 DEF InUse
  <2>4. \A j \in Slot : inited[j]' <=> worker'[j] # "none"
    BY <1>1, <2>1
  <2> QED  BY <1>1, <2>1, <2>2, <2>3, <2>4, FS_RemoveElement
<1>7. CASE NotifyOne \/ NotifyAll
  BY <1>1, <1>7 DEF NotifyOne, NotifyAll, Notify, Blocked, pool, InUse
<1>8. ASSUME NEW i \in Slot,
             \/ Pop(i) \/ Finish(i) \/ Lock(i) \/ FlagIdle(i)
             \/ Wake(i) \/ WakeSpuriously(i) \/ Unflag(i) \/ Unlock(i)
      PROVE  SlotsExact'
  <2>1. UNCHANGED pool /\ worker[i] # "none"
    BY <1>8 DEF Pop, Finish, Lock, FlagIdle, Wake, WakeSpuriously, Unflag, Unlock
  <2>2. \E place \in {"run", "lock", "exited", "pop", "flag", "unflag", "blocked", "unlock"} :
           worker' = [worker EXCEPT ![i] = place]
    BY <1>8
    DEF Pop, Finish, Lock, FlagIdle, Wake, WakeSpuriously, Unflag, Unlock, Test, Take
  <2> QED  BY <1>5, <2>1, <2>2
<1>9. CASE MainOnly \/ UNCHANGED vars
  BY <1>3, <1>9, MainOnlyLeaves DEF threads, pool, vars
<1>10. CASE PushTask
  BY <1>3, <1>4, <1>10 DEF PushTask
<1> QED  BY <1>6, <1>7, <1>8, <1>9, <1>10, Steps DEF SlotsExact, InUse

AtCondition == {i \in Slot : worker[i] \in {"flag", "blocked", "notified", "unflag", "unlock"}}

LEMMA IdleStep ==
    ASSUME TypeOK, SlotsExact, IdleExact, [Next]_vars
    PROVE  IdleExact'
<1>1. /\ worker \in [Slot -> {"none", "pop", "run", "lock", "flag", "blocked",
                              "notified", "unflag", "unlock", "exited"}]
      /\ idle \in [Slot -> BOOLEAN] /\ idleNum = Cardinality(AtCondition)
      /\ \A i \in Slot : idle[i] <=> worker[i] \in {"blocked", "notified", "unflag"}
  BY DEF TypeOK, IdleExact, AtCondition
<1>2. IsFiniteSet(AtCondition)
  BY SlotSets DEF AtCondition
<1>3. SUFFICES /\ idleNum' = Cardinality(AtCondition')
               /\ \A i \in Slot : idle[i]' <=> worker'[i] \in {"blocked", "notified", "unflag"}
  BY DEF IdleExact, AtCondition
<1>4. CASE MainOnly \/ UNCHANGED vars
  BY <1>1, <1>4, MainOnlyLeaves DEF threads, vars, flags, AtCondition
<1>5. CASE PushTask
  <2>1. UNCHANGED <<idle, idleNum>>
    BY <1>5 DEF PushTask
  <2>2. CASE UNCHANGED worker
    BY <1>1, <2>1, <2>2 DEF AtCondition
  <2>3. CASE Stretch(Free(StretchStep))
    <3>1. \A i \in Slot : worker'[i] # worker[i] => worker[i] = "none" /\ worker'[i] = "pop"
      BY <1>1, <2>3 DEF Stretch, Free, SlotsExact
    <3>2. AtCondition' = AtCondition
      BY <3>1 DEF AtCondition
    <3> QED  BY <1>1, <2>1, <3>1, <3>2
  <2> QED  BY <1>5, <2>2, <2>3 DEF PushTask
<1>6. CASE NotifyOne \/ NotifyAll \/ Join
  <2>1. UNCHANGED <<idle, idleNum>>
    BY <1>6 DEF NotifyOne, NotifyAll, Join, flags
  <2>2. \A i \in Slot : \/ worker'[i] = worker[i]
                        \/ worker[i] = "blocked" /\ worker'[i] = "notified"
                        \/ worker[i] = "exited" /\ worker'[i] = "none"
    BY <1>1, <1>6 DEF NotifyOne, NotifyAll, Join, Notify, Blocked
  <2>3. AtCondition' = AtCondition
    BY <2>2 DEF AtCondition
  <2> QED  BY <1>1, <2>1, <2>2, <2>3
<1>7. ASSUME NEW i \in Slot, Pop(i) \/ Finish(i)
      PROVE  IdleExact'
  <2>1. AtCondition' = AtCondition
    BY <1>1, <1>7 DEF Pop, Finish, Take, AtCondition
  <2> QED  BY <1>1, <1>7, <2>1 DEF Pop, Finish, Take, flags, IdleExact, AtCondition
<1>8. ASSUME NEW i \in Slot, Lock(i)
      PROVE  IdleExact'
  <2>1. AtCondition' = AtCondition \cup {i} /\ i \notin AtCondition
    BY <1>1, <1>8 DEF Lock, AtCondition
  <2>2. Cardinality(AtCondition') = Cardinality(AtCondition) + 1
    BY <1>2, <2>1, FS_AddElement
  <2> QED  BY <1>1, <1>8, <2>2 DEF Lock, IdleExact, AtCondition
<1>9. ASSUME NEW i \in Slot, FlagIdle(i) \/ Wake(i) \/ WakeSpuriously(i)
      PROVE  IdleExact'
  <2>1. \E place \in {"blocked", "unflag"} : worker' = [worker EXCEPT ![i] = place]
    BY <1>9 DEF FlagIdle, Wake, WakeSpuriously, Test, Take
  <2>2. AtCondition' = AtCondition
    BY <1>1, <1>9, <2>1 DEF FlagIdle, Wake, WakeSpuriously, AtCondition
  <2>3. idle' = [idle EXCEPT ![i] = TRUE] /\ idleNum' = idleNum
    BY <1>1, <1>9 DEF FlagIdle, Wake, WakeSpuriously, flags
  <2> QED  BY <1>1, <2>1, <2>2, <2>3 DEF IdleExact, AtCondition
<1>10. ASSUME NEW i \in Slot, Unflag(i)
       PROVE  IdleExact'
  <2>1. AtCondition' = AtCondition
    BY <1>1, <1>10 DEF Unflag, AtCondition
  <2> QED  BY <1>1, <1>10, <2>1 DEF Unflag, IdleExact, AtCondition
<1>11. ASSUME NEW i \in Slot, Unlock(i)
       PROVE  IdleExact'
  <2>1. AtCondition' = AtCondition \ {i} /\ i \in AtCondition
    BY <1>1, <1>11 DEF Unlock, AtCondition
  <2>2. Cardinality(AtCondition') = Cardinality(AtCondition) - 1
    BY <1>2, <2>1, FS_RemoveElement
  <2> QED  BY <1>1, <1>11, <2>2 DEF Unlock, IdleExact, AtCondition
<1> QED
  BY <1>4, <1>5, <1>6, <1>7, <1>8, <1>9, <1>10, <1>11, Steps DEF IdleExact, AtCondition

(* So the counters are numbers of threads.                                 *)
LEMMA TypesStep ==
    ASSUME IInv, [Next]_vars
    PROVE  TypeOK'
<1>1. SlotsExact' /\ IdleExact'
  BY SlotsStep, IdleStep DEF IInv
<1>2. initedNum' \in 0..MaxThreads /\ idleNum' \in 0..MaxThreads
  BY <1>1, SlotSets DEF SlotsExact, IdleExact
<1>3. WorkerTypes' /\ OwnerTypes'
  BY WorkerTypesStep, OwnerTypesStep DEF IInv
<1> QED  BY <1>2, <1>3 DEF TypeOK, WorkerTypes, OwnerTypes

-----------------------------------------------------------------------------
(* The mutex and the tasks, which only workers change; notifying, starting *)
(* and joining threads move none that holds either.                        *)
LEMMA HeldStep ==
    ASSUME TypeOK, SlotsExact, MutexHeld, TasksHeld, [Next]_vars
    PROVE  MutexHeld' /\ TasksHeld'
<1>1. /\ WorkerTypes
      /\ \A i \in Slot : inited[i] <=> worker[i] # "none"
  BY TypeParts DEF SlotsExact
<1> DEFINE Asleep == {"none", "pop", "blocked", "notified", "exited"}
<1>2. ASSUME UNCHANGED <<mutex, task>>,
             \A i \in Slot : worker'[i] = worker[i] \/ (worker[i] \in Asleep /\ worker'[i] \in Asleep)
      PROVE  MutexHeld' /\ TasksHeld'
  BY <1>2 DEF MutexHeld, TasksHeld
<1>3. CASE MainOnly \/ UNCHANGED vars
  BY <1>2, <1>3, MainOnlyLeaves DEF threads, vars
<1>4. CASE PushTask
  <2>1. \A i \in Slot : worker'[i] = worker[i] \/ (worker[i] = "none" /\ worker'[i] = "pop")
    <3>1. CASE UNCHANGED worker
      BY <3>1
    <3>2. CASE Stretch(Free(StretchStep))
      BY <1>1, <3>2 DEF Stretch, Free, WorkerTypes
    <3> QED  BY <1>4, <3>1, <3>2 DEF PushTask
  <2> QED  BY <1>2, <1>4, <2>1 DEF PushTask
<1>5. CASE NotifyOne \/ NotifyAll
  BY <1>2, <1>5 DEF NotifyOne, NotifyAll, Notify, Blocked
<1>6. CASE Join
  <2>1. \A i \in Slot : worker'[i] = worker[i] \/ (worker[i] = "exited" /\ worker'[i] = "none")
    BY <1>1, <1>6 DEF Join, WorkerTypes
  <2> QED  BY <1>2, <1>6, <2>1 DEF Join
<1> USE DEF WorkerTypes, MutexHeld, TasksHeld
<1>7. ASSUME NEW i \in Slot, Pop(i) \/ FlagIdle(i) \/ Wake(i) \/ WakeSpuriously(i)
      PROVE  MutexHeld' /\ TasksHeld'
  <2>1. queue # <<>> => Head(queue).id \in 1..MaxTasks
    BY QueueParts, TaskFields DEF TypeOK
  <2>2. 0 \notin Slot /\ 0 \notin 1..MaxTasks
    BY DEF Slot
  <2>3. CASE Pop(i)
    BY <1>1, <2>1, <2>2, <2>3 DEF Pop, Take
  <2>4. CASE FlagIdle(i)
    BY <1>1, <2>1, <2>2, <2>4 DEF FlagIdle, Test, Take
  <2>5. CASE Wake(i) \/ WakeSpuriously(i)
    BY <1>1, <2>1, <2>2, <2>5 DEF Wake, WakeSpuriously, Test, Take
  <2> QED  BY <1>7, <2>3, <2>4, <2>5
<1>8. ASSUME NEW i \in Slot, Finish(i) \/ Lock(i) \/ Unflag(i) \/ Unlock(i)
      PROVE  MutexHeld' /\ TasksHeld'
  <2>1. 0 \notin Slot
    BY DEF Slot
  <2>2. CASE Finish(i) \/ Lock(i)
    BY <1>1, <2>1, <2>2 DEF Finish, Lock
  <2>3. CASE Unflag(i) \/ Unlock(i)
    BY <1>1, <2>1, <2>3 DEF Unflag, Unlock
  <2> QED  BY <1>8, <2>2, <2>3
<1> QED  BY <1>3, <1>4, <1>5, <1>6, <1>7, <1>8, Steps

LEMMA PushingStep ==
    ASSUME IInv, [Next]_vars
    PROVE  Pushing'
<1>1. Pushing /\ NoType \notin Type
  BY PoolAssumption DEF IInv
<1> USE DEF Pushing, Goto
<1>2. CASE UNCHANGED <<pushing, pushed, main>>
  BY <1>1, <1>2
<1>3. CASE TryShrinkPool \/ StopAllTasks \/ StopTasksByType \/ Stop
  BY <1>1, <1>3
  DEF TryShrinkPool, StopAllTasks, StopTasksByType, StopTasks, Stop, tasks
<1>4. CASE TestEmpty \/ Push \/ Shrunk
  BY <1>1, <1>4 DEF TestEmpty, Push, Shrunk, tasks
<1>5. CASE Scan \/ Drained \/ Requeued \/ Stopped
  BY <1>1, <1>5 DEF Scan, Drained, Requeued, Stopped, tasks
<1>6. CASE Drain \/ Requeue
  BY <1>2, <1>6 DEF Drain, Requeue, tasks
<1>7. CASE PushTask
  BY <1>1, <1>7 DEF PushTask, tasks
<1>8. CASE NotifyOne \/ NotifyAll
  BY <1>1, <1>8 DEF NotifyOne, NotifyAll, tasks
<1>9. CASE Join
  BY <1>2, <1>9 DEF Join, tasks
<1>10. ASSUME NEW i \in Slot,
              \/ Pop(i) \/ Finish(i) \/ Lock(i) \/ FlagIdle(i)
              \/ Wake(i) \/ WakeSpuriously(i) \/ Unflag(i) \/ Unlock(i)
       PROVE  Pushing'
  BY <1>2, <1>10
  DEF Pop, Finish, Lock, FlagIdle, Wake, WakeSpuriously, Unflag, Unlock, owner, tasks
<1>11. CASE UNCHANGED vars
  BY <1>2, <1>11 DEF vars, owner, tasks
<1> QED
  BY <1>3, <1>4, <1>5, <1>6, <1>7, <1>8, <1>9, <1>10, <1>11, Steps DEF MainOnly

-----------------------------------------------------------------------------
(* The threads that go.  Nobody goes while the owner is idle: those told   *)
(* to have been joined.                                                    *)
LEMMA NobodyGoes ==
    ASSUME SlotsExact, Leaving, Joining, ~ isDone, ~ Shrinking, NEW i \in Slot
    PROVE  ~ Goes(i)
BY DEF SlotsExact, Leaving, Joining, Goes

(* A pool being destroyed has told no thread to shrink it.                 *)
LEMMA NotTold ==
    ASSUME SlotsExact, Joining, Closing, isDone, NEW i \in Slot, abort[i]
    PROVE  worker[i] = "none"
BY DEF SlotsExact, Joining, Closing, Shrinking

LEMMA LeavingStep ==
    ASSUME IInv, [Next]_vars
    PROVE  Leaving'
<1>1. /\ WorkerTypes /\ OwnerTypes
      /\ SlotsExact /\ TasksHeld /\ Leaving /\ Joining /\ Closing
  BY TypeParts DEF IInv
<1>2. ASSUME isDone' = isDone, abort' = abort, isDone /\ queue = <<>> => queue' = <<>>,
             \A i \in Slot : Goes(i)' => Goes(i) \/ IF isDone THEN queue' = <<>> ELSE abort[i]
      PROVE  Leaving'
  BY <1>1, <1>2 DEF Leaving
<1>3. ASSUME UNCHANGED threads
      PROVE  \A i \in Slot : Goes(i)' <=> Goes(i)
  BY <1>3 DEF threads, Goes
<1>4. CASE Stop
  <2>1. ~ isDone /\ ~ Shrinking
    BY <1>1, <1>4 DEF Stop, Closing, Shrinking
  <2>2. \A i \in Slot : ~ Goes(i)'
    BY <1>1, <1>3, <1>4, <2>1, NobodyGoes DEF Stop
  <2> QED  BY <2>2 DEF Leaving
<1>5. CASE TryShrinkPool \/ StopAllTasks \/ StopTasksByType \/ TestEmpty \/ Shrunk \/ Drained
           \/ Requeued \/ Stopped
  BY <1>2, <1>3, <1>5
  DEF TryShrinkPool, StopAllTasks, StopTasksByType, StopTasks, TestEmpty, Shrunk, Drained,
      Requeued, Stopped, flags
<1>6. CASE Push \/ Requeue
  <2>1. ~ isDone
    BY <1>1, <1>6 DEF Push, Requeue, Closing
  <2> QED  BY <1>2, <1>3, <1>6, <2>1 DEF Push, Requeue, flags
<1>7. CASE Drain
  BY <1>2, <1>3, <1>7 DEF Drain, flags
<1>8. CASE Scan
  <2>1. ~ isDone /\ isDone' = isDone /\ \A i \in Slot : abort[i] => abort'[i]
    BY <1>1, <1>8 DEF Scan, Closing, OwnerTypes
  <2>2. \A i \in Slot : Goes(i)' <=> Goes(i)
    BY <1>3, <1>8 DEF Scan
  <2> QED  BY <1>1, <2>1, <2>2 DEF Leaving
<1>9. CASE PushTask
  <2>1. ~ isDone /\ ~ Shrinking /\ isDone' = isDone
    BY <1>1, <1>9 DEF PushTask, Closing, Shrinking
  <2>2. CASE UNCHANGED worker
    BY <1>1, <1>9, <2>1, <2>2, NobodyGoes DEF PushTask, Goes, Leaving
  <2>3. CASE Stretch(Free(StretchStep))
    <3>1. \A i \in Slot : Goes(i)' => Goes(i)
      BY <1>1, <1>9, <2>3 DEF PushTask, Stretch, Goes, WorkerTypes
    <3> QED  BY <1>1, <2>1, <3>1, NobodyGoes DEF Leaving
  <2> QED  BY <1>9, <2>2, <2>3 DEF PushTask
<1>10. CASE NotifyOne \/ NotifyAll \/ Join
  <2>1. \A i \in Slot : Goes(i)' => Goes(i)
    BY <1>1, <1>10 DEF NotifyOne, NotifyAll, Join, Notify, Blocked, Goes, WorkerTypes
  <2> QED  BY <1>2, <1>10, <2>1 DEF NotifyOne, NotifyAll, Join, flags
<1>11. ASSUME NEW i \in Slot, Finish(i)
       PROVE  Leaving'
  <2>1. UNCHANGED <<isDone, abort, queue>>
    BY <1>11 DEF Finish, flags
  <2>2. \A j \in Slot : Goes(j)' => Goes(j) \/ (j = i /\ abort[i])
    BY <1>1, <1>11 DEF Finish, Goes, WorkerTypes
  <2>3. isDone => ~ abort[i]
    BY <1>1, <1>11, NotTold DEF Finish
  <2> QED  BY <1>2, <2>1, <2>2, <2>3
<1>12. ASSUME NEW i \in Slot, Lock(i) \/ Unflag(i) \/ Unlock(i)
       PROVE  Leaving'
  <2>1. UNCHANGED <<isDone, abort, queue>>
    BY <1>12 DEF Lock, Unflag, Unlock
  <2>2. \A j \in Slot : Goes(j)' => Goes(j)
    BY <1>1, <1>12 DEF Lock, Unflag, Unlock, Goes, WorkerTypes
  <2> QED  BY <1>2, <2>1, <2>2
<1>13. ASSUME NEW i \in Slot, Pop(i) \/ FlagIdle(i) \/ Wake(i) \/ WakeSpuriously(i)
       PROVE  Leaving'
  <2>1. UNCHANGED <<isDone, abort>> /\ (queue = <<>> => queue' = <<>>)
    BY <1>13 DEF Pop, FlagIdle, Wake, WakeSpuriously, Test, Take, flags
  <2>2. queue # <<>> => Head(queue).id \in 1..MaxTasks
    BY <1>1, QueueParts, TaskFields DEF OwnerTypes
  <2>3. ASSUME NEW j \in Slot, Goes(j)'
        PROVE  Goes(j) \/ IF isDone THEN queue' = <<>> ELSE abort[j]
    <3>1. CASE j # i
      BY <1>1, <1>13, <2>3, <3>1
      DEF Pop, FlagIdle, Wake, WakeSpuriously, Test, Take, Goes, WorkerTypes
    <3>2. CASE j = i /\ (\E place \in {"run", "unflag"} : Take(i, place))
      <4>1. task'[i] # 0 /\ worker'[i] \in {"run", "unflag"}
        BY <1>1, <2>2, <3>2 DEF Take, WorkerTypes
      <4> QED  BY <2>3, <3>2, <4>1 DEF Goes
    <3>3. CASE j = i /\ queue' = queue /\ queue = <<>>
      BY <1>1, <1>13, <2>3, <3>3
      DEF Pop, FlagIdle, Wake, WakeSpuriously, Test, Take, Goes, WorkerTypes
    <3> QED  BY <1>13, <3>1, <3>2, <3>3 DEF Pop, FlagIdle, Wake, WakeSpuriously, Test
  <2> QED  BY <1>2, <2>1, <2>3
<1>14. CASE UNCHANGED vars
  BY <1>2, <1>3, <1>14 DEF vars, flags
<1> QED
  BY <1>4, <1>5, <1>6, <1>7, <1>8, <1>9, <1>10, <1>11, <1>12, <1>13, <1>14, Steps DEF MainOnly

-----------------------------------------------------------------------------
(* The main thread between two calls: nobody is to be joined.              *)
LEMMA JoiningStep ==
    ASSUME IInv, [Next]_vars
    PROVE  Joining'
<1>1. /\ WorkerTypes /\ OwnerTypes /\ initedNum \in Nat
      /\ SlotsExact /\ IdleExact /\ Joining /\ Closing
      /\ MinNum \in Nat /\ MinNum' = MinNum /\ ShrinkStep \in Nat
  <2>1. TypeOK
    BY DEF IInv
  <2>2. MinNum \in Nat /\ MinNum' = MinNum
    BY <2>1, Minimum, FixedSize DEF TypeOK, MinNum
  <2> QED  BY <2>1, <2>2, TypeParts, PoolAssumption DEF IInv
<1>2. IsFiniteSet(toJoin) /\ Cardinality(toJoin) \in Nat
  BY <1>1, SlotSets, FS_CardinalityType DEF OwnerTypes
<1>3. ASSUME UNCHANGED <<inited, initedNum, abort, toJoin, isDone, slot>>,
             main' = main \/ (/\ ~ Shrinking /\ main \notin {"done", "close"}
                              /\ ~ Shrinking' /\ main' \notin {"done", "close"})
      PROVE  Joining'
  BY <1>1, <1>3 DEF Joining, Shrinking
<1>4. CASE StopAllTasks \/ StopTasksByType \/ Push \/ Drained \/ Requeued
  BY <1>1, <1>3, <1>4
  DEF StopAllTasks, StopTasksByType, StopTasks, Push, Drained, Requeued, Goto, Shrinking, flags,
      pool
<1>5. CASE Drain \/ Requeue
  BY <1>3, <1>5 DEF Drain, Requeue, flags, pool
<1>6. CASE NotifyOne
  BY <1>1, <1>3, <1>6 DEF NotifyOne, Goto, Shrinking, flags, pool
<1>7. CASE TryShrinkPool \/ TestEmpty
  <2>1. UNCHANGED <<inited, initedNum, abort, toJoin, isDone>> /\ ~ Shrinking
        /\ main \notin {"done", "close"}
    BY <1>7 DEF TryShrinkPool, TestEmpty, Shrinking, flags, pool
  <2>2. main' \in {"scan", "push"} /\ (main' = "scan" => slot' = 1)
    BY <1>7 DEF TryShrinkPool, TestEmpty, Goto
  <2> QED  BY <1>1, <2>1, <2>2 DEF Joining, Shrinking
<1>8. CASE Stop
  <2>1. toJoin = {} /\ ~ Shrinking /\ \A i \in Slot : ~ (inited[i] /\ abort[i])
    BY <1>1, <1>8 DEF Stop, Joining, Shrinking
  <2> QED  BY <1>1, <1>8, <2>1 DEF Stop, Joining, Goto, Shrinking, flags, pool
<1>9. CASE Shrunk \/ Stopped
  <2>1. toJoin = {} /\ UNCHANGED <<inited, initedNum, abort, toJoin, isDone>>
    BY <1>9 DEF Shrunk, Stopped, flags, pool
  <2>2. main' \in {"idle", "push", "drain"}
    BY <1>9 DEF Shrunk, Stopped, Goto
  <2> QED  BY <1>1, <2>1, <2>2 DEF Joining, Shrinking
<1>10. CASE NotifyAll
  <2>1. UNCHANGED <<inited, initedNum, abort, toJoin, isDone>>
    BY <1>10 DEF NotifyAll, flags, pool
  <2>2. \/ main = "tell" /\ main' = "join"
        \/ main = "done" /\ main' = "close"
    BY <1>10 DEF NotifyAll, Goto
  <2> QED  BY <1>1, <2>1, <2>2 DEF Joining, Shrinking
<1>11. CASE Scan
  <2>1. UNCHANGED <<inited, initedNum, isDone>> /\ main = "scan" /\ ~ isDone
    BY <1>1, <1>11 DEF Scan, pool, Closing
  <2>2. CASE UNCHANGED <<abort, toJoin>>
    <3>1. main' \in {"scan", "tell"} /\ (main' = "scan" => slot' = slot + 1)
      BY <1>11, <2>1 DEF Scan, Goto
    <3>2. main' = "scan" => slot' # 0
      BY <1>1, <3>1 DEF OwnerTypes
    <3> QED  BY <1>1, <2>1, <2>2, <3>1, <3>2 DEF Joining, Shrinking
  <2>3. CASE /\ slot <= MaxThreads /\ slot' = slot + 1 /\ idle[slot]
             /\ Cardinality(toJoin) < MaxToJoin
             /\ abort' = [abort EXCEPT ![slot] = TRUE]
             /\ toJoin' = toJoin \cup {slot} /\ UNCHANGED main
    <3>1. slot \in Slot
      BY <1>1, <2>1, <2>3 DEF OwnerTypes, Joining, Slot
    <3>2. inited[slot]
      BY <1>1, <2>3, <3>1 DEF SlotsExact, IdleExact
    <3>3. Cardinality(toJoin') <= Cardinality(toJoin) + 1
      <4>1. IsFiniteSet(toJoin) /\ Cardinality(toJoin) \in Nat
        BY <1>2, FS_CardinalityType
      <4>2. Cardinality(toJoin \cup {slot})
               = IF slot \in toJoin THEN Cardinality(toJoin) ELSE Cardinality(toJoin) + 1
        BY <4>1, FS_AddElement
      <4>3. Cardinality(toJoin') = Cardinality(toJoin \cup {slot})
        BY <2>3
      <4> QED  BY <4>1, <4>2, <4>3
    <3>4. Cardinality(toJoin) + 1 <= initedNum - MinNum
      BY <1>1, <1>2, <2>3 DEF MaxToJoin
    <3>5. initedNum' >= MinNum' + Cardinality(toJoin')
      <4>1. Cardinality(toJoin') \in Nat
        BY <1>2, <2>3, FS_AddElement, FS_CardinalityType
      <4> QED  BY <1>1, <1>2, <2>1, <3>3, <3>4, <4>1
    <3>6. slot' # 0
      BY <2>3, <3>1 DEF Slot
    <3>7. toJoin' \subseteq {i \in Slot : inited[i]'}
      BY <1>1, <2>1, <2>3, <3>1, <3>2 DEF Joining
    <3>8. \A i \in Slot : inited[i]' /\ abort'[i] => i \in toJoin'
      BY <1>1, <2>1, <2>3, <3>1 DEF Joining, OwnerTypes
    <3> QED  BY <2>1, <2>3, <3>5, <3>6, <3>7, <3>8 DEF Joining, Shrinking
  <2> QED  BY <1>11, <2>2, <2>3 DEF Scan
<1>12. CASE Join
  <2>1. PICK i \in toJoin : /\ worker[i] = "exited" /\ worker' = [worker EXCEPT ![i] = "none"]
                            /\ inited' = [inited EXCEPT ![i] = FALSE]
                            /\ initedNum' = initedNum - 1
                            /\ toJoin' = toJoin \ {i}
    BY <1>12 DEF Join
  <2>2. UNCHANGED <<abort, isDone, main, slot>>
    BY <1>12 DEF Join, flags
  <2>3. Cardinality(toJoin') = Cardinality(toJoin) - 1
    BY <1>2, <2>1, FS_RemoveElement
  <2>4. ~ isDone' => initedNum' >= MinNum' + Cardinality(toJoin')
    BY <1>1, <1>2, <2>1, <2>2, <2>3 DEF Joining
  <2>5. \A j \in Slot : inited[j]' <=> inited[j] /\ j # i
    BY <1>1, <2>1 DEF WorkerTypes
  <2> QED  BY <1>1, <1>12, <2>1, <2>2, <2>4, <2>5 DEF Join, Joining, Shrinking
<1>13. CASE PushTask
  <2>1. toJoin = {} /\ toJoin' = {} /\ ~ isDone /\ isDone' = isDone
        /\ \A i \in Slot : ~ (inited[i] /\ abort[i])
    BY <1>1, <1>13 DEF PushTask, Joining, Closing, Shrinking
  <2>2. ~ Shrinking' /\ main' \notin {"done", "close"}
    BY <1>13 DEF PushTask, Goto, Shrinking
  <2>3. CASE UNCHANGED <<worker, abort, pool>>
    BY <1>1, <2>1, <2>2, <2>3 DEF Joining, Shrinking, pool
  <2>4. CASE Stretch(Free(StretchStep))
    <3>1. Cardinality(Free(StretchStep)) \in Nat
      BY SlotSets, FS_CardinalityType DEF Free
    <3>2. initedNum' >= initedNum
      BY <1>1, <2>4, <3>1 DEF Stretch
    <3>3. Cardinality(toJoin') = 0 /\ Cardinality(toJoin) = 0
      BY <2>1, FS_EmptySet
    <3>4. \A i \in Slot : ~ (inited[i]' /\ abort'[i])
      BY <2>1, <2>4 DEF Stretch
    <3>5. initedNum' >= MinNum' + Cardinality(toJoin')
      <4>1. initedNum >= MinNum + 0
        BY <1>1, <2>1, <3>3 DEF Joining
      <4>2. initedNum' = initedNum + Cardinality(Free(StretchStep))
        BY <2>4 DEF Stretch
      <4> QED  BY <1>1, <3>1, <3>3, <4>1, <4>2
    <3> QED  BY <2>1, <2>2, <3>4, <3>5 DEF Joining, Shrinking
  <2> QED  BY <1>13, <2>3, <2>4 DEF PushTask
<1>14. ASSUME NEW i \in Slot,
              \/ Pop(i) \/ Finish(i) \/ Lock(i) \/ FlagIdle(i)
              \/ Wake(i) \/ WakeSpuriously(i) \/ Unflag(i) \/ Unlock(i)
       PROVE  Joining'
  BY <1>3, <1>14
  DEF Pop, Finish, Lock, FlagIdle, Wake, WakeSpuriously, Unflag, Unlock, owner, pool, flags
<1>15. CASE UNCHANGED vars
  BY <1>3, <1>15 DEF vars, owner, pool, flags
<1> QED
  BY <1>4, <1>5, <1>6, <1>7, <1>8, <1>9, <1>10, <1>11, <1>12, <1>13, <1>14, <1>15, Steps
  DEF MainOnly

LEMMA ClosingStep ==
    ASSUME IInv, [Next]_vars
    PROVE  Closing'
<1>1. /\ WorkerTypes /\ OwnerTypes /\ initedNum \in Nat
      /\ SlotsExact /\ Leaving /\ Joining /\ Closing
      /\ MinNum \in Nat /\ MinNum # 0
  BY TypeParts, Minimum, PoolAssumption DEF IInv, OwnerTypes
<1>2. ASSUME UNCHANGED <<isDone, main, kept, initedNum>>, queue = <<>> => queue' = <<>>
      PROVE  Closing'
  BY <1>1, <1>2 DEF Closing
<1>3. CASE TryShrinkPool \/ StopAllTasks \/ StopTasksByType \/ TestEmpty \/ Push \/ PushTask
  <2>1. ~ isDone /\ kept = <<>> /\ UNCHANGED <<isDone, kept>>
    BY <1>1, <1>3
    DEF TryShrinkPool, StopAllTasks, StopTasksByType, StopTasks, TestEmpty, Push, PushTask, Closing
  <2>2. main' \in {"scan", "drain", "push", "notify", "empty"}
    BY <1>3
    DEF TryShrinkPool, StopAllTasks, StopTasksByType, StopTasks, TestEmpty, Push, PushTask, Goto
  <2> QED  BY <2>1, <2>2 DEF Closing
<1>4. CASE NotifyOne \/ Scan \/ Shrunk
  <2>1. ~ isDone /\ kept = <<>> /\ UNCHANGED <<isDone, kept>>
    BY <1>1, <1>4 DEF NotifyOne, Scan, Shrunk, Closing
  <2>2. main' \in {"idle", "scan", "tell", "push"}
    BY <1>4 DEF NotifyOne, Scan, Shrunk, Goto
  <2> QED  BY <2>1, <2>2 DEF Closing
<1>5. CASE Stop
  <2>1. ~ isDone /\ kept = <<>> /\ isDone' /\ main' = "done" /\ kept' = kept
        /\ initedNum' = initedNum
    BY <1>1, <1>5 DEF Stop, Closing, Goto, pool
  <2>2. initedNum # 0
    <3>1. toJoin = {}
      BY <1>1, <1>5 DEF Stop, Joining, Shrinking
    <3> QED  BY <1>1, <2>1, <3>1, FS_EmptySet DEF Joining
  <2> QED  BY <2>1, <2>2 DEF Closing
<1>6. CASE NotifyAll
  <2>1. UNCHANGED <<isDone, kept, queue, initedNum>>
    BY <1>6 DEF NotifyAll, pool
  <2>2. \/ main = "tell" /\ main' = "join"
        \/ main = "done" /\ main' = "close"
    BY <1>6 DEF NotifyAll, Goto
  <2> QED  BY <1>1, <2>1, <2>2 DEF Closing
<1>7. CASE Stopped
  <2>1. initedNum = 0
    <3>1. {i \in Slot : inited[i]} = {}
      BY <1>1, <1>7 DEF Stopped, Joining
    <3> QED  BY <1>1, <3>1, FS_EmptySet DEF SlotsExact
  <2> QED  BY <1>1, <1>7, <2>1 DEF Stopped, Closing, Goto, pool
<1>8. CASE Drain
  <2>1. ~ isDone
    BY <1>1, <1>8 DEF Drain, Closing
  <2> QED  BY <2>1, <1>8 DEF Drain, Closing
<1>9. CASE Drained
  BY <1>1, <1>9 DEF Drained, Closing, Goto, pool
<1>10. CASE Requeue \/ Requeued
  <2>1. ~ isDone
    BY <1>1, <1>10 DEF Requeue, Requeued, Closing
  <2> QED  BY <2>1, <1>10 DEF Requeue, Requeued, Closing, Goto
<1>11. CASE Join
  <2>1. PICK i \in toJoin : worker[i] = "exited"
    BY <1>11 DEF Join
  <2>2. isDone => queue = <<>>
    BY <1>1, <2>1 DEF OwnerTypes, Leaving, Goes
  <2> QED  BY <1>1, <1>11, <2>2 DEF Join, Closing
<1>12. ASSUME NEW i \in Slot,
              \/ Pop(i) \/ Finish(i) \/ Lock(i) \/ FlagIdle(i)
              \/ Wake(i) \/ WakeSpuriously(i) \/ Unflag(i) \/ Unlock(i)
       PROVE  Closing'
  <2>1. UNCHANGED <<isDone, main, kept, initedNum>>
    BY <1>12
    DEF Pop, Finish, Lock, FlagIdle, Wake, WakeSpuriously, Unflag, Unlock, owner, pool
  <2>2. queue = <<>> => queue' = <<>>
    BY <1>12
    DEF Pop, Finish, Lock, FlagIdle, Wake, WakeSpuriously, Unflag, Unlock, Test, Take
  <2> QED  BY <1>2, <2>1, <2>2
<1>13. CASE UNCHANGED vars
  BY <1>2, <1>13 DEF vars, owner, pool
<1> QED
  BY <1>3, <1>4, <1>5, <1>6, <1>7, <1>8, <1>9, <1>10, <1>11, <1>12, <1>13, Steps DEF MainOnly

-----------------------------------------------------------------------------
(* What is being stopped, which is asked about when the queue is empty.    *)
LEMMA StopsStep ==
    ASSUME IInv, [Next]_vars
    PROVE  Stops'
<1>1. /\ queue \in Seq(Task) /\ kept \in Seq(Task)
      /\ Stops /\ Closing
  BY DEF IInv, TypeOK
<1>2. CASE UNCHANGED <<main, stopping, kept>>
  BY <1>1, <1>2 DEF Stops
<1>3. CASE TryShrinkPool \/ TestEmpty \/ Push \/ PushTask \/ NotifyOne \/ NotifyAll
  <2>1. main # "drain" /\ main' # "drain" /\ UNCHANGED <<stopping, kept>>
    BY <1>3 DEF TryShrinkPool, TestEmpty, Push, PushTask, NotifyOne, NotifyAll, Goto
  <2> QED  BY <1>1, <2>1 DEF Stops
<1>4. CASE Scan \/ Shrunk \/ Requeued \/ Stop \/ Join
  <2>1. main # "drain" /\ main' # "drain" /\ UNCHANGED <<stopping, kept>>
    BY <1>4 DEF Scan, Shrunk, Requeued, Stop, Join, Goto
  <2> QED  BY <1>1, <2>1 DEF Stops
<1>5. CASE StopAllTasks \/ StopTasksByType \/ Stopped
  <2>1. main' = "drain" /\ kept' = <<>>
    BY <1>1, <1>5 DEF StopAllTasks, StopTasksByType, StopTasks, Stopped, Goto, Closing
  <2> QED  BY <2>1 DEF Stops
<1>6. CASE Drain
  <2>1. main' = main /\ stopping' = stopping /\ queue # <<>> /\ main = "drain"
    BY <1>6 DEF Drain
  <2>2. CASE kept' = kept
    BY <1>1, <2>1, <2>2 DEF Stops
  <2>3. CASE kept' = Append(kept, Head(queue)) /\ Head(queue).type \notin stopping
    <3>1. /\ DOMAIN kept' = 1..(Len(kept) + 1) /\ Len(kept) \in Nat
          /\ DOMAIN kept = 1..Len(kept)
          /\ \A j \in 1..Len(kept) : kept'[j] = kept[j]
          /\ kept'[Len(kept) + 1] = Head(queue)
      BY <1>1, <2>1, <2>3, QueueParts
    <3>2. \A j \in 1..(Len(kept) + 1) : j \in 1..Len(kept) \/ j = Len(kept) + 1
      BY <3>1
    <3> QED  BY <1>1, <2>1, <2>3, <3>1, <3>2 DEF Stops
  <2> QED  BY <1>6, <2>2, <2>3 DEF Drain
<1>7. CASE Drained
  BY <1>1, <1>7 DEF Drained, Stops
<1>8. CASE Requeue
  <2>1. main' = main /\ stopping' = {} /\ main = "requeue"
    BY <1>1, <1>8 DEF Requeue, Stops
  <2> QED  BY <2>1 DEF Stops
<1>9. ASSUME NEW i \in Slot,
             \/ Pop(i) \/ Finish(i) \/ Lock(i) \/ FlagIdle(i)
             \/ Wake(i) \/ WakeSpuriously(i) \/ Unflag(i) \/ Unlock(i)
      PROVE  Stops'
  BY <1>2, <1>9
  DEF Pop, Finish, Lock, FlagIdle, Wake, WakeSpuriously, Unflag, Unlock, owner
<1>10. CASE UNCHANGED vars
  BY <1>2, <1>10 DEF vars, owner
<1> QED
  BY <1>3, <1>4, <1>5, <1>6, <1>7, <1>8, <1>9, <1>10, Steps DEF MainOnly

-----------------------------------------------------------------------------
LEMMA InitInvariant == Init => IInv
<1> SUFFICES ASSUME Init PROVE IInv
  OBVIOUS
<1>1. MinNum \in 1..MaxThreads /\ MaxThreads \in Nat /\ MaxTasks \in Nat
  BY Minimum, PoolAssumption DEF Init
<1>2. /\ \A i \in Slot : (inited[i] <=> i <= MinNum) /\ (abort[i] <=> i > MinNum)
      /\ abort \in [Slot -> BOOLEAN] /\ inited \in [Slot -> BOOLEAN]
  <2>1. \A i \in Slot : (i <= MinNum) \in BOOLEAN /\ (i > MinNum) \in BOOLEAN
    OBVIOUS
  <2>2. /\ inited = [i \in Slot |-> i <= MinNum]
        /\ abort = [i \in Slot |-> i > MinNum]
    BY DEF Init
  <2> QED  BY <2>1, <2>2, Zenon
<1>3. {i \in Slot : inited[i]} = 1..MinNum /\ \A i \in Slot : ~ (inited[i] /\ abort[i])
  BY <1>1, <1>2 DEF Slot
<1>4. TypeOK
  <2>1. WorkerTypes
    BY <1>1, <1>2 DEF Init, WorkerTypes
  <2>2. /\ queue = <<>> /\ kept = <<>> /\ mutex = 0 /\ idleNum = 0 /\ initedNum = MinNum
        /\ isDone = FALSE /\ main = "idle" /\ slot = 0 /\ toJoin = {} /\ pushing = NoType
        /\ stopping = {} /\ pushed = 0 /\ requeued = {} /\ ran = {} /\ fixedSize \in BOOLEAN
    BY DEF Init
  <2>3. <<>> \in Seq(Task) /\ 0 \in 0..MaxThreads /\ 0 \in 0..(MaxThreads + 1)
        /\ 0 \in 0..MaxTasks /\ MinNum \in 0..MaxThreads
    BY <1>1
  <2>4. OwnerTypes
    BY <1>2, <2>2, <2>3 DEF OwnerTypes
  <2> QED  BY <1>1, <2>1, <2>4, TypeParts DEF Init
<1>5. SlotsExact
  <2>1. Cardinality(1..MinNum) = MinNum
    BY <1>1, FS_Interval
  <2>2. \A i \in Slot : inited[i] <=> worker[i] # "none"
    BY <1>2 DEF Init
  <2> QED  BY <1>3, <2>1, <2>2 DEF Init, SlotsExact
<1>6. IdleExact
  <2>1. {i \in Slot : worker[i] \in {"flag", "blocked", "notified", "unflag", "unlock"}} = {}
    BY DEF Init
  <2> QED  BY <2>1, FS_EmptySet DEF Init, IdleExact
<1>7. MutexHeld /\ TasksHeld /\ Leaving
  BY DEF Init, MutexHeld, TasksHeld, Leaving, Goes, Slot
<1>8. Joining
  <2>1. Cardinality(toJoin) = 0 /\ initedNum = MinNum /\ toJoin = {} /\ main = "idle"
    BY FS_EmptySet DEF Init
  <2> QED  BY <1>1, <1>3, <2>1 DEF Joining, Shrinking
<1>9. Closing /\ Pushing /\ Stops
  BY DEF Init, Closing, Pushing, Stops
<1> QED  BY <1>4, <1>5, <1>6, <1>7, <1>8, <1>9 DEF IInv

LEMMA StepInvariant == IInv /\ [Next]_vars => IInv'
<1> SUFFICES ASSUME IInv, [Next]_vars PROVE IInv'
  OBVIOUS
<1>1. TypeOK' /\ SlotsExact' /\ IdleExact'
  BY TypesStep, SlotsStep, IdleStep DEF IInv
<1>2. MutexHeld' /\ TasksHeld'
  BY HeldStep DEF IInv
<1>3. Leaving' /\ Joining' /\ Closing' /\ Pushing' /\ Stops'
  BY LeavingStep, JoiningStep, ClosingStep, PushingStep, StopsStep
<1> QED  BY <1>1, <1>2, <1>3 DEF IInv

(* IInv holds in every reachable state.                                    *)
THEOREM Invariance == Spec => []IInv
BY InitInvariant, StepInvariant, PTL DEF Spec

(* Every variable stays in its range: in particular no counter of threads  *)
(* goes below zero or above MaxThreads.                                    *)
THEOREM TypeCorrect == Spec => []TypeOK
<1>1. IInv => TypeOK
  BY DEF IInv
<1> QED  BY <1>1, Invariance, PTL

(* The flags of the slots agree with the threads that are there, and the   *)
(* count is exact: Stretch never starts a thread over another, and Join    *)
(* never joins one twice.                                                  *)
THEOREM SlotsAreExact == Spec => []SlotsExact
<1>1. IInv => SlotsExact
  BY DEF IInv
<1> QED  BY <1>1, Invariance, PTL

(* What tryShrinkPool picks by its idle flag is a live thread.             *)
THEOREM IdleAreLive == Spec => []IdleFlagsLive
<1>1. IInv => IdleFlagsLive
  BY DEF IInv, IdleExact, SlotsExact, IdleFlagsLive, Alive
<1> QED  BY <1>1, Invariance, PTL

(* However the flags change while it reads them, tryShrinkPool leaves the  *)
(* minimum of threads: those it told are in toJoin, and initedNum counts   *)
(* at least that many more than the minimum.                               *)
THEOREM MinimumStays == Spec => []NeverBelowMin
<1>1. ASSUME IInv, ~ isDone
      PROVE  Cardinality({i \in Slot : Alive(i) /\ ~ abort[i]}) >= MinNum
  <2> DEFINE Used == {i \in Slot : inited[i]}
             Staying == {i \in Slot : Alive(i) /\ ~ abort[i]}
  <2>1. IsFiniteSet(Used) /\ IsFiniteSet(Staying) /\ IsFiniteSet(toJoin)
    BY <1>1, SlotSets DEF IInv, TypeOK
  <2>2. toJoin \subseteq Used /\ Used \ toJoin \subseteq Staying
    BY <1>1 DEF IInv, SlotsExact, Leaving, Joining, Goes, Alive
  <2>3. Cardinality(Used \ toJoin) = Cardinality(Used) - Cardinality(toJoin)
    <3>1. Used \cap toJoin = toJoin
      BY <2>2
    <3> QED  BY <2>1, <3>1, FS_Difference
  <2>4. Cardinality(Used \ toJoin) <= Cardinality(Staying)
    BY <2>1, <2>2, FS_Subset
  <2>5. initedNum = Cardinality(Used) /\ initedNum >= MinNum + Cardinality(toJoin)
    BY <1>1 DEF IInv, SlotsExact, Joining
  <2>6. MinNum \in Nat
    BY <1>1, Minimum DEF IInv, TypeOK
  <2>7. /\ Cardinality(Used) \in Nat /\ Cardinality(toJoin) \in Nat
        /\ Cardinality(Staying) \in Nat
    BY <2>1, FS_CardinalityType
  <2> HIDE DEF Used, Staying
  <2>8. Cardinality(Staying) >= MinNum
    BY <2>3, <2>4, <2>5, <2>6, <2>7
  <2> QED  BY <2>8 DEF Staying
<1>2. IInv => NeverBelowMin
  BY <1>1 DEF NeverBelowMin
<1> QED  BY <1>2, Invariance, PTL

(* The destructor waits for all that is queued: a worker goes only after   *)
(* it saw an empty queue, and at least one has to go.                      *)
THEOREM NothingDropped == Spec => []StopDropsNothing
<1>1. IInv => StopDropsNothing
  BY DEF IInv, Closing, StopDropsNothing
<1> QED  BY <1>1, Invariance, PTL

-----------------------------------------------------------------------------
(* ThreadPool implements TaskPool.  To the owner a step of the pool is one *)
(* of the few below, on the queue, the tasks set aside and those that run; *)
(* each keeps every task in one place (TasksOnce), which is what makes the *)
(* sets of TaskPool change as its actions say.                             *)

Phase == IF ~ isDone THEN "open" ELSE IF main = "closed" THEN "closed" ELSE "closing"
Asked == IF isDone THEN {} ELSE stopping
Running == {task[i] : i \in Slot} \ {0}

TakeStep(i) ==
    /\ queue # <<>> /\ task[i] = 0
    /\ task' = [task EXCEPT ![i] = Head(queue).id]
    /\ queue' = Tail(queue)
    /\ UNCHANGED <<kept, pushed, ran, stopping, isDone, main>>

FinishStep(i) ==
    /\ task[i] # 0
    /\ task' = [task EXCEPT ![i] = 0]
    /\ ran' = ran \cup {task[i]}
    /\ UNCHANGED <<queue, kept, pushed, stopping, isDone, main>>

PushStep ==
    /\ ~ isDone
    /\ pushed < MaxTasks
    /\ pushed' = pushed + 1
    /\ stopping = {}
    /\ \E t \in Task : t.id = pushed + 1 /\ queue' = Append(queue, t)
    /\ UNCHANGED <<kept, task, ran, stopping, isDone>>

BeginStopStep ==
    /\ ~ isDone
    /\ stopping = {}
    /\ stopping' \in {Type} \cup {{t} : t \in Type}
    /\ UNCHANGED <<queue, kept, task, pushed, ran, isDone>>

DrainStep ==
    /\ ~ isDone
    /\ queue # <<>>
    /\ queue' = Tail(queue)
    /\ \/ Head(queue).type \in stopping /\ kept' = kept
       \/ kept' = Append(kept, Head(queue))
    /\ UNCHANGED <<task, pushed, ran, stopping, isDone>>

EndStopStep ==
    /\ ~ isDone
    /\ queue = <<>> /\ \A j \in DOMAIN kept : kept[j].type \notin stopping
    /\ stopping' = {}
    /\ UNCHANGED <<queue, kept, task, pushed, ran, isDone>>

RequeueStep ==
    /\ ~ isDone
    /\ kept # <<>>
    /\ queue' = Append(queue, Head(kept))
    /\ kept' = Tail(kept)
    /\ UNCHANGED <<task, pushed, ran, stopping, isDone>>

DestroyStep ==
    /\ ~ isDone /\ isDone' /\ main' # "closed"
    /\ stopping = {}
    /\ UNCHANGED <<queue, kept, task, pushed, ran>>

CloseStep ==
    /\ isDone /\ isDone' /\ main # "closed" /\ main' = "closed"
    /\ queue = <<>> /\ kept = <<>>
    /\ \A i \in Slot : task[i] = 0
    /\ UNCHANGED <<queue, kept, task, pushed, ran>>

OtherStep == UNCHANGED <<queue, kept, task, pushed, ran, Asked, Phase>>

OwnerStep ==
    \/ PushStep \/ BeginStopStep \/ DrainStep \/ EndStopStep \/ RequeueStep
    \/ DestroyStep \/ CloseStep \/ OtherStep

(* Each step of the pool is one of these.                                  *)
LEMMA PoolSteps ==
    ASSUME IInv, [Next]_vars
    PROVE  (\E i \in Slot : TakeStep(i) \/ FinishStep(i)) \/ OwnerStep
<1> USE DEF OwnerStep
<1>1. TypeOK /\ SlotsExact /\ TasksHeld /\ Closing /\ Pushing /\ Stops
  BY DEF IInv
<1>2. ASSUME NEW i \in Slot, Pop(i) \/ FlagIdle(i) \/ Wake(i) \/ WakeSpuriously(i)
      PROVE  TakeStep(i) \/ OtherStep
  <2>1. task[i] = 0
    BY <1>1, <1>2 DEF TasksHeld, Pop, FlagIdle, Wake, WakeSpuriously
  <2> QED
    BY <1>2, <2>1
    DEF Pop, FlagIdle, Wake, WakeSpuriously, Test, Take, TakeStep, OtherStep, Phase, Asked,
        owner, tasks
<1>3. ASSUME NEW i \in Slot, Finish(i)
      PROVE  FinishStep(i)
  BY <1>1, <1>3 DEF TasksHeld, Finish, FinishStep, owner
<1>4. ASSUME NEW i \in Slot, Lock(i) \/ Unflag(i) \/ Unlock(i)
      PROVE  OtherStep
  BY <1>4 DEF Lock, Unflag, Unlock, OtherStep, Phase, Asked, owner, tasks
<1>5. CASE Push
  <2>1. ~ isDone /\ pushed < MaxTasks /\ pushing \in Type /\ stopping = {}
    BY <1>1, <1>5 DEF Push, Closing, Pushing, Stops, TypeOK
  <2>2. [id |-> pushed + 1, type |-> pushing] \in Task
    BY <1>1, <2>1, PoolAssumption DEF TypeOK, Task
  <2> QED  BY <1>5, <2>1, <2>2 DEF Push, PushStep, threads
<1>6. CASE Drain
  <2>1. CASE ~ isDone
    BY <1>6, <2>1 DEF Drain, DrainStep, threads, tasks
  <2>2. CASE isDone
    <3>1. initedNum = 0 /\ initedNum # 0
      BY <1>1, <1>6, <2>2 DEF Drain, Closing
    <3> QED  BY <3>1
  <2> QED  BY <2>1, <2>2
<1>7. CASE Requeue
  BY <1>1, <1>7 DEF Requeue, RequeueStep, Closing, threads
<1>8. CASE Stop
  BY <1>1, <1>8 DEF Stop, DestroyStep, Closing, Stops, Goto, threads, tasks
<1>9. CASE Drained
  <2>1. CASE ~ isDone
    BY <1>1, <1>9, <2>1 DEF Drained, EndStopStep, Stops, threads, tasks
  <2>2. CASE isDone
    <3>1. kept = <<>> /\ initedNum = 0
      BY <1>1, <1>9, <2>2 DEF Drained, Closing
    <3>2. {i \in Slot : inited[i]} = {}
      <4>1. IsFiniteSet({i \in Slot : inited[i]})
        BY SlotSets
      <4> QED  BY <1>1, <3>1, <4>1, FS_EmptySet DEF SlotsExact
    <3>3. \A i \in Slot : task[i] = 0
      BY <1>1, <3>2 DEF SlotsExact, TasksHeld
    <3> QED  BY <1>9, <2>2, <3>1, <3>3 DEF Drained, CloseStep, Goto, threads, tasks
  <2> QED  BY <2>1, <2>2
<1>10. CASE \/ PushTask \/ NotifyOne \/ NotifyAll \/ Join
            \/ TryShrinkPool \/ TestEmpty \/ Scan \/ Shrunk \/ Requeued
  <2>1. UNCHANGED <<queue, kept, task, pushed, ran, stopping, isDone>>
    BY <1>10
    DEF PushTask, NotifyOne, NotifyAll, Join, TryShrinkPool, TestEmpty, Scan, Shrunk,
        Requeued, threads, tasks
  <2>2. main # "closed" /\ main' # "closed"
    BY <1>10
    DEF PushTask, NotifyOne, NotifyAll, Join, TryShrinkPool, TestEmpty, Scan, Shrunk,
        Requeued, Goto
  <2> QED  BY <2>1, <2>2 DEF OtherStep, Phase, Asked
<1>11. CASE StopAllTasks \/ StopTasksByType
  <2>1. ~ isDone /\ stopping = {}
    BY <1>1, <1>11 DEF StopAllTasks, StopTasksByType, StopTasks, Closing, Stops
  <2>2. stopping' \in {Type} \cup {{t} : t \in Type}
    BY <1>11 DEF StopAllTasks, StopTasksByType, StopTasks
  <2> QED
    BY <1>11, <2>1, <2>2
    DEF StopAllTasks, StopTasksByType, StopTasks, BeginStopStep, threads, tasks
<1>12. CASE Stopped
  <2>1. isDone /\ main # "closed" /\ main' # "closed"
    BY <1>1, <1>12 DEF Stopped, Closing, Goto
  <2> QED  BY <1>12, <2>1 DEF Stopped, OtherStep, Phase, Asked, threads, tasks
<1>13. CASE UNCHANGED vars
  BY <1>13 DEF vars, owner, threads, tasks, OtherStep, Phase, Asked
<1> QED
  BY <1>2, <1>3, <1>4, <1>5, <1>6, <1>7, <1>8, <1>9, <1>10, <1>11, <1>12, <1>13, Steps
  DEF MainOnly, OwnerStep

-----------------------------------------------------------------------------
(* The ids in a sequence of tasks.                                         *)

(* Taking the first task takes its id away, when no other has it.          *)
LEMMA TailIds ==
    ASSUME NEW s \in Seq(Task), s # <<>>
    PROVE  /\ Ids(s) = Ids(Tail(s)) \cup {Head(s).id}
           /\ Distinct(s) => Distinct(Tail(s)) /\ Head(s).id \notin Ids(Tail(s))
<1>1. /\ DOMAIN s = 1..Len(s) /\ Len(s) \in Nat \ {0}
      /\ DOMAIN Tail(s) = 1..(Len(s) - 1) /\ Head(s) = s[1]
      /\ \A j \in 1..(Len(s) - 1) : Tail(s)[j] = s[j + 1]
  OBVIOUS
<1>2. \A j \in 1..Len(s) : j = 1 \/ (j - 1 \in 1..(Len(s) - 1) /\ Tail(s)[j - 1] = s[j])
  BY <1>1
<1>3. Ids(s) = Ids(Tail(s)) \cup {Head(s).id}
  <2>1. ASSUME NEW j \in 1..Len(s)
        PROVE  s[j].id \in Ids(Tail(s)) \cup {Head(s).id}
    BY <1>1, <1>2 DEF Ids
  <2>2. ASSUME NEW j \in 1..(Len(s) - 1)
        PROVE  Tail(s)[j].id \in Ids(s)
    BY <1>1 DEF Ids
  <2>3. Head(s).id \in Ids(s)
    BY <1>1 DEF Ids
  <2> QED  BY <1>1, <2>1, <2>2, <2>3 DEF Ids
<1>4. ASSUME Distinct(s)
      PROVE  Distinct(Tail(s)) /\ Head(s).id \notin Ids(Tail(s))
  BY <1>1, <1>4 DEF Ids, Distinct
<1> QED  BY <1>3, <1>4

(* One more task adds its id.                                              *)
LEMMA AppendIds ==
    ASSUME NEW s \in Seq(Task), NEW t \in Task
    PROVE  /\ Ids(Append(s, t)) = Ids(s) \cup {t.id}
           /\ Distinct(s) /\ t.id \notin Ids(s) => Distinct(Append(s, t))
<1>1. /\ DOMAIN s = 1..Len(s) /\ Len(s) \in Nat
      /\ DOMAIN Append(s, t) = 1..(Len(s) + 1)
      /\ \A j \in 1..Len(s) : Append(s, t)[j] = s[j]
      /\ Append(s, t)[Len(s) + 1] = t
  OBVIOUS
<1>2. \A j \in 1..(Len(s) + 1) : j \in 1..Len(s) \/ j = Len(s) + 1
  BY <1>1
<1>3. Ids(Append(s, t)) = Ids(s) \cup {t.id}
  BY <1>1, <1>2 DEF Ids
<1>4. ASSUME Distinct(s), t.id \notin Ids(s)
      PROVE  Distinct(Append(s, t))
  BY <1>1, <1>2, <1>4 DEF Ids, Distinct
<1> QED  BY <1>3, <1>4

(* The same of the tasks themselves.                                       *)
LEMMA TailSet ==
    ASSUME NEW s \in Seq(Task), s # <<>>
    PROVE  ToSet(s) = ToSet(Tail(s)) \cup {Head(s)}
<1>1. /\ DOMAIN s = 1..Len(s) /\ Len(s) \in Nat \ {0}
      /\ DOMAIN Tail(s) = 1..(Len(s) - 1) /\ Head(s) = s[1]
      /\ \A j \in 1..(Len(s) - 1) : Tail(s)[j] = s[j + 1]
  OBVIOUS
<1>2. \A j \in 1..Len(s) : j = 1 \/ (j - 1 \in 1..(Len(s) - 1) /\ Tail(s)[j - 1] = s[j])
  BY <1>1
<1>3. ASSUME NEW j \in 1..Len(s)
      PROVE  s[j] \in ToSet(Tail(s)) \cup {Head(s)}
  BY <1>1, <1>2 DEF ToSet
<1>4. ASSUME NEW j \in 1..(Len(s) - 1)
      PROVE  Tail(s)[j] \in ToSet(s)
  BY <1>1 DEF ToSet
<1>5. Head(s) \in ToSet(s)
  BY <1>1 DEF ToSet
<1> QED  BY <1>1, <1>3, <1>4, <1>5 DEF ToSet

LEMMA AppendSet ==
    ASSUME NEW s \in Seq(Task), NEW t \in Task
    PROVE  ToSet(Append(s, t)) = ToSet(s) \cup {t}
<1>1. /\ DOMAIN s = 1..Len(s) /\ Len(s) \in Nat
      /\ DOMAIN Append(s, t) = 1..(Len(s) + 1)
      /\ \A j \in 1..Len(s) : Append(s, t)[j] = s[j]
      /\ Append(s, t)[Len(s) + 1] = t
  OBVIOUS
<1>2. \A j \in 1..(Len(s) + 1) : j \in 1..Len(s) \/ j = Len(s) + 1
  BY <1>1
<1> QED  BY <1>1, <1>2 DEF ToSet

LEMMA IdsOf == ASSUME NEW s, NEW t \in ToSet(s) PROVE t.id \in Ids(s)
BY DEF ToSet, Ids

-----------------------------------------------------------------------------
(* Every task stays in one place.                                          *)
LEMMA OnceStep ==
    ASSUME TypeOK, TasksOnce,
           (\E i \in Slot : TakeStep(i) \/ FinishStep(i)) \/ OwnerStep
    PROVE  TasksOnce'
<1> USE DEF Waiting
<1>1. /\ queue \in Seq(Task) /\ kept \in Seq(Task) /\ pushed \in Nat
      /\ task \in [Slot -> 0..MaxTasks]
  BY PoolAssumption DEF TypeOK
<1>2. queue # <<>> => Head(queue) \in Task /\ Tail(queue) \in Seq(Task)
  BY <1>1, QueueParts
<1>3. ASSUME NEW i \in Slot, TakeStep(i)
      PROVE  TasksOnce'
  <2>1. /\ Ids(queue) = Ids(queue') \cup {task'[i]}
        /\ Distinct(queue') /\ task'[i] \notin Ids(queue')
    BY <1>1, <1>3, TailIds DEF TakeStep, TasksOnce
  <2>2. task'[i] \in Ids(queue) /\ \A j \in Slot \ {i} : task'[j] = task[j]
    BY <1>1, <1>3, <2>1 DEF TakeStep
  <2>3. task'[i] \notin Ids(kept) /\ \A j \in Slot \ {i} : task'[j] # task'[i]
    BY <2>2 DEF TasksOnce
  <2> QED  BY <1>1, <1>3, <2>1, <2>2, <2>3 DEF TakeStep, TasksOnce
<1>4. ASSUME NEW i \in Slot, FinishStep(i)
      PROVE  TasksOnce'
  <2>1. task'[i] = 0 /\ \A j \in Slot \ {i} : task'[j] = task[j]
    BY <1>1, <1>4 DEF FinishStep
  <2>2. 0 \notin Waiting
    BY <1>1 DEF TasksOnce
  <2> QED  BY <1>1, <1>4, <2>1, <2>2 DEF FinishStep, TasksOnce
<1>5. CASE PushStep
  <2>1. PICK t \in Task : t.id = pushed + 1 /\ queue' = Append(queue, t)
    BY <1>5 DEF PushStep
  <2>2. t.id \notin Ids(queue) /\ t.id \notin Ids(kept)
    BY <1>1, <2>1 DEF TasksOnce
  <2>3. Ids(queue') = Ids(queue) \cup {pushed + 1} /\ Distinct(queue')
    BY <1>1, <2>1, <2>2, AppendIds DEF TasksOnce
  <2> QED  BY <1>1, <1>5, <2>1, <2>2, <2>3 DEF PushStep, TasksOnce
<1>6. CASE DrainStep
  <2>1. /\ Ids(queue) = Ids(queue') \cup {Head(queue).id}
        /\ Distinct(queue') /\ Head(queue).id \notin Ids(queue')
    BY <1>1, <1>6, TailIds DEF DrainStep, TasksOnce
  <2>2. /\ Ids(kept') \subseteq Ids(kept) \cup {Head(queue).id}
        /\ Distinct(kept')
    BY <1>1, <1>2, <1>6, <2>1, AppendIds DEF DrainStep, TasksOnce
  <2> QED  BY <1>1, <1>6, <2>1, <2>2 DEF DrainStep, TasksOnce
<1>7. CASE RequeueStep
  <2>1. Head(kept) \in Task
    BY <1>1, <1>7, QueueParts DEF RequeueStep
  <2>2. /\ Ids(kept) = Ids(kept') \cup {Head(kept).id}
        /\ Distinct(kept') /\ Head(kept).id \notin Ids(kept')
    BY <1>1, <1>7, TailIds DEF RequeueStep, TasksOnce
  <2>3. Ids(queue') = Ids(queue) \cup {Head(kept).id} /\ Distinct(queue')
    BY <1>1, <1>7, <2>1, <2>2, AppendIds DEF RequeueStep, TasksOnce
  <2> QED  BY <1>1, <1>7, <2>2, <2>3 DEF RequeueStep, TasksOnce
<1>8. CASE BeginStopStep \/ EndStopStep \/ DestroyStep \/ CloseStep \/ OtherStep
  <2>1. UNCHANGED <<queue, kept, task, pushed>>
    BY <1>8 DEF BeginStopStep, EndStopStep, DestroyStep, CloseStep, OtherStep
  <2> QED  BY <2>1 DEF TasksOnce, Distinct, Ids
<1> QED  BY <1>3, <1>4, <1>5, <1>6, <1>7, <1>8 DEF OwnerStep

(* Every task is in one place at a time.                                   *)
THEOREM Once == Spec => []TasksOnce
<1>1. Init => TasksOnce
  BY PoolAssumption DEF Init, TasksOnce, Distinct, Ids, Waiting
<1>2. IInv /\ TasksOnce /\ [Next]_vars => TasksOnce'
  <2>1. IInv => TypeOK
    BY DEF IInv
  <2> QED  BY <2>1, PoolSteps, OnceStep
<1> QED  BY <1>1, <1>2, Invariance, PTL DEF Spec

-----------------------------------------------------------------------------
(* While a thread has nothing to run, one fewer than MaxThreads tasks run. *)
LEMMA RoomToRun ==
    ASSUME TypeOK, NEW i \in Slot, task[i] = 0
    PROVE  Cardinality(Running) < MaxThreads
<1> DEFINE S == {j \in Slot : task[j] # 0}
           f == [j \in S |-> task[j]]
<1>1. IsFiniteSet(Slot) /\ Cardinality(Slot) = MaxThreads /\ MaxThreads \in Nat
  BY FS_Interval, PoolAssumption DEF Slot
<1>2. IsFiniteSet(S) /\ Cardinality(S) < MaxThreads
  <2>1. S \subseteq Slot /\ S # Slot
    OBVIOUS
  <2> QED  BY <1>1, <2>1, FS_Subset, SlotSets
<1>3. f \in Surjection(S, Running)
  BY DEF Surjection, Running
<1>4. IsFiniteSet(Running) /\ Cardinality(Running) <= Cardinality(S)
  BY <1>2, <1>3, FS_Surjection
<1>5. Cardinality(S) \in Nat /\ Cardinality(Running) \in Nat
  BY <1>2, <1>4, FS_CardinalityType
<1> HIDE DEF S
<1> QED  BY <1>1, <1>2, <1>4, <1>5

(* Cardinality in the instance of TaskPool is that of FiniteSets.          *)
LEMMA SameCardinality == ASSUME NEW S PROVE Pool!Cardinality(S) = Cardinality(S)
BY DEF Pool!Cardinality, Cardinality

(* The tasks that wait.                                                    *)
Bag == ToSet(queue) \cup ToSet(kept)

(* Each of these steps is a step of TaskPool, or changes nothing in it.    *)
LEMMA StepSimulation ==
    ASSUME TypeOK, TasksOnce,
           (\E i \in Slot : TakeStep(i) \/ FinishStep(i)) \/ OwnerStep
    PROVE  Pool!Next \/ UNCHANGED Pool!poolVars
<1>1. /\ queue \in Seq(Task) /\ kept \in Seq(Task) /\ pushed \in Nat
      /\ task \in [Slot -> 0..MaxTasks]
  BY PoolAssumption DEF TypeOK
<1>2. ASSUME queue # <<>>, queue' = Tail(queue)
      PROVE  /\ Head(queue) \in Task
             /\ ToSet(queue) = ToSet(queue') \cup {Head(queue)}
             /\ Head(queue) \notin ToSet(queue') /\ Head(queue) \notin ToSet(kept)
             /\ Head(queue).id \in Waiting
  <2>1. ToSet(queue) = ToSet(Tail(queue)) \cup {Head(queue)}
    BY <1>1, <1>2, TailSet
  <2>2. /\ Head(queue).id \notin Ids(Tail(queue)) /\ Head(queue).id \in Ids(queue)
        /\ Head(queue).id \notin Ids(kept)
    BY <1>1, <1>2, TailIds DEF TasksOnce
  <2> QED  BY <1>1, <1>2, <2>1, <2>2, IdsOf, QueueParts DEF Waiting
<1>3. ASSUME NEW i \in Slot, TakeStep(i)
      PROVE  Pool!Start
  <2>1. queue # <<>> /\ queue' = Tail(queue) /\ kept' = kept
    BY <1>3 DEF TakeStep
  <2>2. PICK t \in Task : t = Head(queue)
    BY <1>2, <2>1
  <2>3. t \in Bag /\ Bag' = Bag \ {t} /\ t.id # 0
    BY <1>2, <2>1, <2>2, TaskFields DEF Bag
  <2>4. Running' = Running \cup {t.id}
    <3>1. task'[i] = t.id /\ \A j \in Slot \ {i} : task'[j] = task[j]
      BY <1>1, <1>3, <2>2 DEF TakeStep
    <3> QED  BY <1>3, <2>3, <3>1 DEF TakeStep, Running
  <2>5. Pool!Cardinality(Running) < MaxThreads
    BY <1>3, RoomToRun, SameCardinality DEF TakeStep
  <2> QED  BY <1>3, <2>3, <2>4, <2>5 DEF TakeStep, Pool!Start, Running, Bag
<1>4. ASSUME NEW i \in Slot, FinishStep(i)
      PROVE  Pool!Finish
  <2>1. task[i] \in Running /\ Running' = Running \ {task[i]}
    BY <1>1, <1>4 DEF FinishStep, Running, TasksOnce
  <2> QED  BY <1>4, <2>1 DEF FinishStep, Pool!Finish, Running
<1>5. CASE PushStep
  <2>1. PICK t \in Task : t.id = pushed + 1 /\ queue' = Append(queue, t)
    BY <1>5 DEF PushStep
  <2>2. Bag' = Bag \cup {t} /\ t = [id |-> pushed + 1, type |-> t.type] /\ t.type \in Type
    BY <1>1, <1>5, <2>1, AppendSet DEF PushStep, Bag, Task
  <2> QED  BY <1>5, <2>2 DEF PushStep, Pool!Push, Pool!Next, Bag
<1>6. CASE DrainStep
  <2>1. queue # <<>> /\ queue' = Tail(queue)
    BY <1>6 DEF DrainStep
  <2>2. PICK t \in Task : t = Head(queue)
    BY <1>2, <2>1
  <2>3. CASE t.type \in stopping /\ kept' = kept
    <3>1. t \in Bag /\ Bag' = Bag \ {t}
      BY <1>2, <2>1, <2>2, <2>3 DEF Bag
    <3> QED  BY <1>6, <2>3, <3>1 DEF DrainStep, Pool!StopTask, Pool!Next, Bag
  <2>4. CASE kept' = Append(kept, t)
    <3>1. ToSet(kept') = ToSet(kept) \cup {t}
      BY <1>1, <2>4, AppendSet
    <3>2. Bag' = Bag
      BY <1>2, <2>1, <2>2, <3>1 DEF Bag
    <3> QED  BY <1>6, <3>2 DEF DrainStep, Pool!poolVars, Bag
  <2> QED  BY <1>6, <2>2, <2>3, <2>4 DEF DrainStep
<1>7. CASE RequeueStep
  <2>1. ToSet(kept) = ToSet(kept') \cup {Head(kept)}
    BY <1>1, <1>7, TailSet DEF RequeueStep
  <2>2. ToSet(queue') = ToSet(queue) \cup {Head(kept)}
    BY <1>1, <1>7, AppendSet, QueueParts DEF RequeueStep
  <2>3. Bag' = Bag
    BY <2>1, <2>2 DEF Bag
  <2> QED  BY <1>7, <2>3 DEF RequeueStep, Pool!poolVars, Bag
<1>8. CASE DestroyStep
  BY <1>8 DEF DestroyStep, Pool!Destroy, Pool!Next
<1>9. CASE CloseStep
  <2>1. Bag = {} /\ Running = {}
    BY <1>9 DEF CloseStep, ToSet, Bag, Running
  <2> QED  BY <1>9, <2>1 DEF CloseStep, Pool!Close, Pool!Next, Bag, Running
<1>10. CASE OtherStep
  BY <1>10 DEF OtherStep, Phase, Asked, Pool!poolVars
<1>11. CASE BeginStopStep
  BY <1>11 DEF BeginStopStep, Pool!BeginStop, Pool!Next
<1>12. CASE EndStopStep
  <2>1. CASE stopping = {}
    BY <1>12, <2>1 DEF EndStopStep, Pool!poolVars
  <2>2. CASE stopping # {}
    <3>1. \A t \in Bag : t.type \notin stopping
      BY <1>12 DEF EndStopStep, Bag, ToSet
    <3> QED  BY <1>12, <2>2, <3>1 DEF EndStopStep, Pool!EndStop, Pool!Next, Bag
  <2> QED  BY <2>1, <2>2
<1> QED
  BY <1>3, <1>4, <1>5, <1>6, <1>7, <1>8, <1>9, <1>10, <1>11, <1>12 DEF OwnerStep, Pool!Next

(* Whatever threads come and go, the pool is the bag of tasks TaskPool     *)
(* describes: a task is run to its end once, by one thread, or removed by  *)
(* a call that stops its type; a pool being destroyed runs all that wait,  *)
(* and is gone only when nothing runs.                                     *)
THEOREM Refinement == Spec => ImplementsPool
<1>1. Init => Pool!Init
  <2>1. ASSUME Init
        PROVE  ToSet(queue) \cup ToSet(kept) = {} /\ {task[i] : i \in Slot} \ {0} = {}
    BY <2>1 DEF Init, ToSet
  <2> QED  BY <2>1 DEF Init, Pool!Init
<1>2. IInv /\ TasksOnce /\ [Next]_vars => [Pool!Next]_Pool!poolVars
  <2>1. IInv => TypeOK
    BY DEF IInv
  <2> QED  BY <2>1, PoolSteps, StepSimulation
<1> QED
  BY <1>1, <1>2, Invariance, Once, PTL DEF Spec, ImplementsPool, Pool!Spec
=============================================================================
