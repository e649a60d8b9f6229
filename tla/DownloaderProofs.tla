-------------------------- MODULE DownloaderProofs --------------------------
(***************************************************************************)
(* IInv is an inductive invariant of Downloader: however the steps of the  *)
(* two threads fall, each task that is not reported is in one of the       *)
(* containers, and once.  ContainersStep is the core: a step moves at most *)
(* one task from a container to another, or the whole queue of finished    *)
(* tasks.  The other lemmas are about types and where the threads stand.   *)
(* FileInv is inductive with it, a lemma for each action that touches a    *)
(* file, and gives what is in a file when its task is reported.            *)
(***************************************************************************)
EXTENDS Downloader, FiniteSetTheorems, TLAPS

(* The containers, and what AllHeld and Known relate them to.              *)
held == <<request, finished, delivering, active>>
told == <<created, tasks, destroyed, reported>>

-----------------------------------------------------------------------------
(* Sequences without repetition.                                           *)

(* One element more.                                                       *)
LEMMA AppendParts ==
    ASSUME NEW s \in Seq(Task), NEW t \in Task
    PROVE  /\ Append(s, t) \in Seq(Task)
           /\ ToSet(Append(s, t)) = ToSet(s) \cup {t}
           /\ IsInjective(s) /\ t \notin ToSet(s) => IsInjective(Append(s, t))
<1>1. /\ DOMAIN s = 1..Len(s) /\ Len(s) \in Nat
      /\ DOMAIN Append(s, t) = 1..(Len(s) + 1)
      /\ \A j \in 1..Len(s) : Append(s, t)[j] = s[j]
      /\ Append(s, t)[Len(s) + 1] = t
      /\ Append(s, t) \in Seq(Task)
  OBVIOUS
<1>2. \A j \in 1..(Len(s) + 1) : j \in 1..Len(s) \/ j = Len(s) + 1
  BY <1>1
<1>3. ToSet(Append(s, t)) = ToSet(s) \cup {t}
  BY <1>1, <1>2 DEF ToSet
<1>4. ASSUME IsInjective(s), t \notin ToSet(s)
      PROVE  IsInjective(Append(s, t))
  BY <1>1, <1>2, <1>4 DEF ToSet, IsInjective
<1> QED  BY <1>1, <1>3, <1>4

(* Without the first element.                                              *)
LEMMA TailParts ==
    ASSUME NEW s \in Seq(Task), s # <<>>
    PROVE  /\ Head(s) \in Task /\ Tail(s) \in Seq(Task)
           /\ ToSet(s) = ToSet(Tail(s)) \cup {Head(s)}
           /\ IsInjective(s) => IsInjective(Tail(s)) /\ Head(s) \notin ToSet(Tail(s))
<1>1. /\ DOMAIN s = 1..Len(s) /\ Len(s) \in Nat \ {0}
      /\ DOMAIN Tail(s) = 1..(Len(s) - 1) /\ Head(s) = s[1]
      /\ \A j \in 1..(Len(s) - 1) : Tail(s)[j] = s[j + 1]
      /\ Head(s) \in Task /\ Tail(s) \in Seq(Task)
  OBVIOUS
<1>2. \A j \in 1..Len(s) : j = 1 \/ (j - 1 \in 1..(Len(s) - 1) /\ Tail(s)[j - 1] = s[j])
  BY <1>1
<1>3. ToSet(s) = ToSet(Tail(s)) \cup {Head(s)}
  <2>1. ASSUME NEW j \in 1..Len(s)
        PROVE  s[j] \in ToSet(Tail(s)) \cup {Head(s)}
    BY <1>1, <1>2 DEF ToSet
  <2>2. ASSUME NEW j \in 1..(Len(s) - 1)
        PROVE  Tail(s)[j] \in ToSet(s)
    BY <1>1 DEF ToSet
  <2>3. Head(s) \in ToSet(s)
    BY <1>1 DEF ToSet
  <2> QED  BY <1>1, <2>1, <2>2, <2>3 DEF ToSet
<1>4. ASSUME IsInjective(s)
      PROVE  IsInjective(Tail(s)) /\ Head(s) \notin ToSet(Tail(s))
  BY <1>1, <1>4 DEF ToSet, IsInjective
<1> QED  BY <1>1, <1>3, <1>4

(* No more elements than tasks.                                            *)
LEMMA ShortSequence ==
    ASSUME NEW s \in Seq(Task), IsInjective(s)
    PROVE  Len(s) <= MaxTasks
<1>1. /\ IsFiniteSet(Task) /\ Cardinality(Task) = MaxTasks
      /\ IsFiniteSet(1..Len(s)) /\ Cardinality(1..Len(s)) = Len(s)
  <2>1. Len(s) \in Nat /\ MaxTasks \in Nat
    BY DownloaderAssumption
  <2>2. \A n \in Nat : IsFiniteSet(1..n) /\ Cardinality(1..n) = n
    BY FS_Interval
  <2> QED  BY <2>1, <2>2 DEF Task
<1>2. s \in Injection(1..Len(s), Task)
  <2>1. s \in [1..Len(s) -> Task] /\ IsInjective(s)
    OBVIOUS
  <2> QED  BY <2>1 DEF Injection, IsInjective
<1> QED  BY <1>1, <1>2, FS_Injection

LEMMA EmptySequence == ToSet(<<>>) = {} /\ IsInjective(<<>>) /\ <<>> \in Seq(Task)
BY DEF ToSet, IsInjective

-----------------------------------------------------------------------------
(* The types of what a task owns and of the disk.                          *)
DiskTypes ==
    /\ path \in [Task -> Path \cup {NoPath}]
    /\ err \in [Task -> BOOLEAN]
    /\ header \in [Task -> BOOLEAN]
    /\ offset \in [Task -> Nat]
    /\ fp \in [Task -> Inode \cup {0}]
    /\ content \in [Inode -> Seq(1..Length)]
    /\ temp \in [Path -> Inode \cup {0}]
    /\ final \in [Path -> Inode \cup {0}]
    /\ ranges \in BOOLEAN

(* Those of the queues and of where the threads stand.                     *)
QueueTypes ==
    /\ request \in Seq(Task)
    /\ finished \in Seq(Task)
    /\ delivering \in Seq(Task)
    /\ active \subseteq Task
    /\ current \in Task \cup {0}
    /\ reported \in [Task -> {"no", "ok", "error"}]

PlaceTypes ==
    /\ created \in 0..MaxTasks
    /\ pathSet \subseteq Path
    /\ attached \in BOOLEAN
    /\ worker \in {"none", "start", "check", "perform", "ended", "fetch", "exit"}
    /\ main \in {"idle", "run", "resume", "stoped", "deliver", "callback", "closed"}
    /\ paused \in BOOLEAN
    /\ impl \in BOOLEAN
    /\ resumed \subseteq Task
    /\ shared \subseteq Path

LEMMA TypeParts ==
    TypeOK <=> /\ DiskTypes /\ QueueTypes /\ PlaceTypes
               /\ Len(request) <= MaxTasks /\ Len(finished) <= MaxTasks
               /\ tasks \subseteq Task /\ destroyed \subseteq Task
BY DEF TypeOK, DiskTypes, QueueTypes, PlaceTypes

(* The cases of a step.                                                    *)
LEMMA Steps ==
    ASSUME [Next]_vars
    PROVE  \/ \E p \in Path \cup {NoPath} : CreateTask(p)
           \/ Run \/ Resume \/ GetFinishedTasks \/ TestStoped \/ Deliver
           \/ ReturnFromCallback \/ EndSchedule \/ Release \/ Close
           \/ Hold \/ CheckThread \/ EndTask \/ StopPerforming \/ Fetch
           \/ StopFetching \/ Exit
           \/ \E t \in Task : Receive(t) \/ HeaderDone(t) \/ ContentDone(t) \/ Fail(t)
           \/ UNCHANGED vars
BY DEF Next, Main, Worker, Create

-----------------------------------------------------------------------------
LEMMA DiskStep ==
    ASSUME TypeOK, [Next]_vars
    PROVE  DiskTypes'
<1> USE DEF DiskTypes
<1>1. DiskTypes /\ active \subseteq Task /\ request \in Seq(Task) /\ delivering \in Seq(Task)
      /\ created \in 0..MaxTasks /\ current \in Task \cup {0}
  BY TypeParts DEF QueueTypes, PlaceTypes
<1>2. ASSUME NEW p \in Path \cup {NoPath}, CreateTask(p)
      PROVE  DiskTypes'
  <2> DEFINE t == created + 1
  <2>1. t \in Task /\ Task \subseteq Inode
    BY <1>1, <1>2, DownloaderAssumption DEF CreateTask, Task, Inode
  <2>2. /\ path' = [path EXCEPT ![t] = p]
        /\ err' = err \/ err' = [err EXCEPT ![t] = TRUE]
        /\ UNCHANGED <<header, offset, content, final, ranges>>
    BY <1>2 DEF CreateTask
  <2>3. CASE UNCHANGED <<fp, temp>>
    BY <1>1, <2>1, <2>2, <2>3
  <2>4. CASE p \in Path /\ Open(t, p)
    <3>1. /\ temp[p] \in Inode \cup {0}
          /\ fp' = [fp EXCEPT ![t] = IF temp[p] = 0 THEN t ELSE temp[p]]
          /\ temp' = [temp EXCEPT ![p] = fp'[t]]
      BY <1>1, <2>4 DEF Open
    <3>2. fp' \in [Task -> Inode \cup {0}] /\ fp'[t] \in Inode
      BY <1>1, <2>1, <3>1
    <3>3. temp' \in [Path -> Inode \cup {0}]
      BY <1>1, <2>4, <3>1, <3>2
    <3> QED  BY <1>1, <2>1, <2>2, <3>2, <3>3
  <2> QED  BY <1>2, <2>3, <2>4 DEF CreateTask
<1>3. CASE Deliver
  <2> DEFINE t == Head(delivering)
             p == path[t]
  <2>1. t \in Task
    BY <1>1, <1>3, TailParts DEF Deliver
  <2>2. CASE UNCHANGED <<fp, final, temp, err>>
    BY <1>1, <1>3, <2>2 DEF Deliver
  <2>3. CASE Rename(t)
    <3>1. /\ fp' = [fp EXCEPT ![t] = 0]
          /\ err' = err \/ err' = [err EXCEPT ![t] = TRUE]
          /\ temp' = temp \/ temp' = [temp EXCEPT ![p] = 0]
          /\ \/ final' = final \/ final' = [final EXCEPT ![p] = 0]
             \/ final' = [final EXCEPT ![p] = temp[p]]
      BY <2>3 DEF Rename
    <3>2. fp' \in [Task -> Inode \cup {0}] /\ err' \in [Task -> BOOLEAN]
          /\ temp' \in [Path -> Inode \cup {0}]
      BY <1>1, <3>1
    <3>3. final' \in [Path -> Inode \cup {0}]
      BY <1>1, <3>1
    <3> QED  BY <1>1, <1>3, <3>2, <3>3 DEF Deliver
  <2> QED  BY <1>3, <2>2, <2>3 DEF Deliver
<1>4. ASSUME NEW t \in Task, Receive(t)
      PROVE  DiskTypes'
  <2>1. offset' = [offset EXCEPT ![t] = @ + 1] /\ offset'[t] \in 1..Length
        /\ UNCHANGED <<path, err, header, fp, temp, final, ranges>>
    BY <1>1, <1>4, DownloaderAssumption DEF Receive
  <2>2. content' \in [Inode -> Seq(1..Length)]
    <3>1. CASE content' = content
      BY <1>1, <3>1
    <3>2. CASE fp[t] # 0 /\ content' = [content EXCEPT ![fp[t]] = Append(@, offset'[t])]
      <4>1. fp[t] \in Inode /\ content[fp[t]] \in Seq(1..Length)
        BY <1>1, <3>2
      <4>2. Append(content[fp[t]], offset'[t]) \in Seq(1..Length)
        BY <2>1, <4>1
      <4> QED  BY <1>1, <3>2, <4>1, <4>2
    <3> QED  BY <1>4, <3>1, <3>2 DEF Receive
  <2> QED  BY <1>1, <2>1, <2>2
<1>5. ASSUME NEW t \in Task, HeaderDone(t)
      PROVE  DiskTypes'
  <2>1. ResumeFrom(t) \in Nat
    <3>1. CASE path[t] # NoPath /\ temp[path[t]] # 0
      <4>1. path[t] \in Path
        BY <1>1, <3>1
      <4>2. content[temp[path[t]]] \in Seq(1..Length)
        BY <1>1, <3>1, <4>1
      <4>3. Len(content[temp[path[t]]]) \in Nat
        BY <4>2
      <4> QED  BY <4>3 DEF ResumeFrom
    <3> QED  BY <3>1 DEF ResumeFrom
  <2>2. PICK code200 \in BOOLEAN : err' = [err EXCEPT ![t] = @ \/ ~ code200]
    BY <1>5 DEF HeaderDone
  <2>3. err' \in [Task -> BOOLEAN]
    BY <1>1, <2>2, Zenon
  <2> QED  BY <1>1, <1>5, <2>1, <2>3 DEF HeaderDone, disk
<1>6. ASSUME NEW t \in Task, ContentDone(t) \/ Fail(t)
      PROVE  DiskTypes'
  BY <1>1, <1>6 DEF ContentDone, Fail, cotask, disk
<1>7. CASE Fetch
  <2>1. Head(request) \in Task
    BY <1>1, <1>7, TailParts DEF Fetch
  <2> QED  BY <1>1, <1>7, <2>1 DEF Fetch, disk
<1>8. CASE \/ Run \/ Resume \/ GetFinishedTasks \/ TestStoped \/ ReturnFromCallback
           \/ EndSchedule \/ Release \/ Close
  BY <1>1, <1>8
  DEF Run, Resume, GetFinishedTasks, TestStoped, ReturnFromCallback, EndSchedule, Release, Close,
      cotask, disk
<1>9. CASE \/ Hold \/ CheckThread \/ EndTask \/ StopPerforming \/ StopFetching \/ Exit
           \/ UNCHANGED vars
  BY <1>1, <1>9
  DEF Hold, CheckThread, EndTask, StopPerforming, StopFetching, Exit, vars, cotask, disk
<1> QED  BY <1>2, <1>3, <1>4, <1>5, <1>6, <1>7, <1>8, <1>9, Steps

LEMMA PlaceStep ==
    ASSUME TypeOK, [Next]_vars
    PROVE  PlaceTypes'
<1> USE DEF PlaceTypes
<1>1. PlaceTypes
  BY TypeParts
<1>2. ASSUME NEW p \in Path \cup {NoPath}, CreateTask(p)
      PROVE  PlaceTypes'
  <2>1. created + 1 \in Task /\ created + 1 \in 0..MaxTasks
    BY <1>1, <1>2, DownloaderAssumption DEF CreateTask, Task
  <2>2. resumed' \subseteq resumed \cup {created + 1}
    BY <1>2 DEF CreateTask, Open
  <2>3. shared' \subseteq Path
    BY <1>1, <1>2 DEF CreateTask, Open
  <2>4. pathSet' \subseteq Path
    BY <1>1, <1>2 DEF CreateTask
  <2> QED  BY <1>1, <1>2, <2>1, <2>2, <2>3, <2>4 DEF CreateTask, worked
<1>3. CASE Deliver
  <2>1. pathSet' \subseteq pathSet
    BY <1>3 DEF Deliver, Rename
  <2> QED  BY <1>1, <1>3, <2>1 DEF Deliver, worked
<1>4. CASE Run \/ Resume \/ GetFinishedTasks \/ TestStoped \/ ReturnFromCallback \/ Close
  BY <1>1, <1>4
  DEF Run, Resume, GetFinishedTasks, TestStoped, ReturnFromCallback, Close, worked, history
<1>5. CASE EndSchedule \/ Release
  BY <1>1, <1>5 DEF EndSchedule, Release, Destroy, worked, mained
<1>6. CASE \/ Hold \/ CheckThread \/ EndTask \/ StopPerforming \/ Fetch \/ StopFetching \/ Exit
  BY <1>1, <1>6
  DEF Hold, CheckThread, EndTask, StopPerforming, Fetch, StopFetching, Exit, LoopOrExit, mained,
      history
<1>7. ASSUME NEW t \in Task, Receive(t) \/ HeaderDone(t) \/ ContentDone(t) \/ Fail(t)
      PROVE  PlaceTypes'
  BY <1>1, <1>7 DEF Receive, HeaderDone, ContentDone, Fail, worked, mained, history
<1>8. CASE UNCHANGED vars
  BY <1>1, <1>8 DEF vars, worked, mained, history
<1> QED  BY <1>2, <1>3, <1>4, <1>5, <1>6, <1>7, <1>8, Steps

-----------------------------------------------------------------------------
(* Where the threads stand.                                                *)
LEMMA StagesStep ==
    ASSUME TypeOK, Stages, AllHeld, [Next]_vars
    PROVE  Stages'
<1> USE DEF Stages
<1>1. /\ request \in Seq(Task) /\ delivering \in Seq(Task) /\ active \subseteq Task
      /\ main \in {"idle", "run", "resume", "stoped", "deliver", "callback", "closed"}
      /\ worker \in {"none", "start", "check", "perform", "ended", "fetch", "exit"}
  BY TypeParts DEF QueueTypes, PlaceTypes
<1>2. ASSUME NEW p \in Path \cup {NoPath}, CreateTask(p)
      PROVE  Stages'
  BY <1>1, <1>2 DEF CreateTask, worked
<1>3. CASE Run \/ Resume \/ GetFinishedTasks \/ TestStoped \/ Deliver
  BY <1>1, <1>3 DEF Run, Resume, GetFinishedTasks, TestStoped, Deliver, worked
<1>4. CASE ReturnFromCallback \/ EndSchedule \/ Release \/ Close
  BY <1>1, <1>4 DEF ReturnFromCallback, EndSchedule, Release, Close, worked, mained
<1>5. CASE Hold \/ CheckThread \/ EndTask
  BY <1>1, <1>5 DEF Hold, CheckThread, EndTask, mained
<1>6. CASE StopPerforming \/ Fetch \/ StopFetching \/ Exit
  BY <1>1, <1>6 DEF StopPerforming, Fetch, StopFetching, Exit, LoopOrExit, mained
<1>7. ASSUME NEW t \in Task, Receive(t) \/ HeaderDone(t) \/ ContentDone(t) \/ Fail(t)
      PROVE  Stages'
  BY <1>1, <1>7 DEF Receive, HeaderDone, ContentDone, Fail, worked, mained
<1>8. CASE UNCHANGED vars
  BY <1>8 DEF vars, worked, mained
<1> QED  BY <1>2, <1>3, <1>4, <1>5, <1>6, <1>7, <1>8, Steps

-----------------------------------------------------------------------------
(* A step of one container to another keeps them apart, and moves nothing  *)
(* in or out that should not be.                                           *)
Containers == Apart /\ AllHeld /\ Known

LEMMA ContainersStep ==
    ASSUME TypeOK, Stages, Containers, [Next]_vars
    PROVE  Containers'
<1>1. /\ request \in Seq(Task) /\ finished \in Seq(Task) /\ delivering \in Seq(Task)
      /\ active \subseteq Task /\ current \in Task \cup {0}
      /\ reported \in [Task -> {"no", "ok", "error"}] /\ created \in 0..MaxTasks
      /\ MaxTasks \in Nat
      /\ main \in {"idle", "run", "resume", "stoped", "deliver", "callback", "closed"}
  BY TypeParts, DownloaderAssumption DEF QueueTypes, PlaceTypes
<1>2. Apart /\ AllHeld /\ Known
  BY DEF Containers
<1>3. 1..created \subseteq Task
  BY <1>1 DEF Task
<1>4. ASSUME NEW p \in Path \cup {NoPath}, CreateTask(p)
      PROVE  Containers'
  <2> DEFINE t == created + 1
  <2>1. t \in Task /\ created' = t /\ 1..created' = 1..created \cup {t} /\ t \notin 1..created
    BY <1>1, <1>4 DEF CreateTask, Task
  <2>2. t \notin Held /\ reported[t] = "no"
    BY <1>1, <1>2, <2>1 DEF Known
  <2>3. /\ UNCHANGED <<delivering, active, tasks, destroyed, reported>>
        /\ main \in {"idle", "callback"} /\ main' = "run"
    BY <1>4 DEF CreateTask, worked
  <2>4. \/ request' = Append(request, t) /\ finished' = finished
        \/ finished' = Append(finished, t) /\ request' = request
    BY <1>4 DEF CreateTask, Enqueue
  <2>5. /\ IsInjective(request') /\ IsInjective(finished')
        /\ \/ ToSet(request') = ToSet(request) \cup {t} /\ finished' = finished
           \/ ToSet(finished') = ToSet(finished) \cup {t} /\ request' = request
    <3>1. /\ t \notin ToSet(request) /\ t \notin ToSet(finished)
          /\ IsInjective(request) /\ IsInjective(finished)
      BY <1>2, <2>2 DEF Apart, Held
    <3>2. CASE request' = Append(request, t) /\ finished' = finished
      BY <1>1, <2>1, <3>1, <3>2, AppendParts
    <3>3. CASE finished' = Append(finished, t) /\ request' = request
      BY <1>1, <2>1, <3>1, <3>3, AppendParts
    <3> QED  BY <2>4, <3>2, <3>3
  <2>6. Held' = Held \cup {t}
    BY <2>3, <2>5 DEF Held
  <2>7. Apart'
    BY <1>2, <2>2, <2>3, <2>5 DEF Apart, Held
  <2>8. InCallback' = InCallback
    BY <2>3 DEF InCallback, Stages
  <2>9. AllHeld'
    BY <1>1, <1>2, <2>1, <2>2, <2>3, <2>6, <2>8 DEF AllHeld
  <2>10. Known'
    BY <1>1, <1>2, <2>1, <2>3, <2>6 DEF Known
  <2> QED  BY <2>7, <2>9, <2>10 DEF Containers
<1>5. CASE GetFinishedTasks
  <2>1. /\ delivering = <<>> /\ main = "idle" /\ main' = "stoped"
        /\ finished' = <<>> /\ delivering' = finished /\ tasks' = ToSet(finished)
        /\ UNCHANGED <<request, active, created, destroyed, reported>>
    BY <1>5 DEF GetFinishedTasks, Stages, worked, history
  <2>2. Held' = Held
    BY <2>1, EmptySequence DEF Held
  <2>3. Apart'
    BY <1>2, <2>1, EmptySequence DEF Apart
  <2>4. AllHeld' /\ Known'
    BY <1>2, <2>1, <2>2 DEF AllHeld, Known, InCallback, Held
  <2> QED  BY <2>3, <2>4 DEF Containers
<1>6. CASE Deliver
  <2> DEFINE t == Head(delivering)
  <2>1. t \in Task /\ t \in ToSet(delivering)
    BY <1>1, <1>6, TailParts DEF Deliver
  <2>2. /\ UNCHANGED <<held, created, tasks, destroyed>>
        /\ main = "deliver" /\ main' = "callback" /\ delivering # <<>>
        /\ reported'[t] \in {"ok", "error"}
        /\ \A u \in Task \ {t} : reported'[u] = reported[u]
    BY <1>1, <1>6, <2>1 DEF Deliver, queues, worked, held
  <2>3. Held' = Held /\ InCallback' = {t} /\ InCallback = {} /\ t \in 1..created
    BY <1>2, <2>1, <2>2 DEF Held, held, InCallback, Known
  <2>4. Apart'
    BY <1>2, <2>2 DEF Apart, held
  <2>5. AllHeld'
    <3>1. Held = {u \in 1..created : reported[u] = "no"}
      BY <1>2, <2>2, <2>3 DEF AllHeld
    <3>2. {u \in 1..created : reported'[u] = "no"}
             = {u \in 1..created : reported[u] = "no"} \ {t}
      BY <1>3, <2>1, <2>2
    <3>3. t \in Held /\ reported'[t] # "no"
      BY <2>1, <2>2 DEF Held
    <3> QED  BY <2>2, <2>3, <3>1, <3>2, <3>3 DEF AllHeld
  <2>6. Known'
    BY <1>2, <1>3, <2>2, <2>3 DEF Known
  <2> QED  BY <2>4, <2>5, <2>6 DEF Containers
<1>7. CASE ReturnFromCallback
  <2> DEFINE t == Head(delivering)
  <2>1. /\ main = "callback" /\ main' = "deliver" /\ delivering # <<>>
        /\ delivering' = Tail(delivering)
        /\ UNCHANGED <<request, finished, active, created, tasks, destroyed, reported>>
    BY <1>7 DEF ReturnFromCallback, Stages, queues, worked, history
  <2>2. /\ ToSet(delivering) = ToSet(delivering') \cup {t} /\ t \notin ToSet(delivering')
        /\ IsInjective(delivering')
    BY <1>1, <1>2, <2>1, TailParts DEF Apart
  <2>3. Held' = Held \ {t} /\ InCallback = {t} /\ InCallback' = {}
    BY <1>2, <2>1, <2>2 DEF Held, Apart, InCallback
  <2>4. Apart'
    BY <1>2, <2>1, <2>2 DEF Apart
  <2>5. AllHeld' /\ Known'
    BY <1>2, <2>1, <2>3 DEF AllHeld, Known, InCallback
  <2> QED  BY <2>4, <2>5 DEF Containers
<1>8. CASE EndTask
  <2>1. /\ current \in active /\ finished' = Append(finished, current)
        /\ active' = active \ {current}
        /\ UNCHANGED <<request, delivering, told, main>>
    BY <1>8 DEF EndTask, Stages, mained, history, told
  <2>2. ToSet(finished') = ToSet(finished) \cup {current} /\ IsInjective(finished')
    BY <1>1, <1>2, <2>1, AppendParts DEF Apart
  <2>3. Held' = Held
    BY <2>1, <2>2 DEF Held
  <2>4. Apart'
    BY <1>2, <2>1, <2>2 DEF Apart
  <2> QED  BY <1>2, <2>1, <2>3, <2>4 DEF Containers, AllHeld, Known, InCallback, told
<1>9. CASE Fetch
  <2> DEFINE t == Head(request)
  <2>1. /\ request # <<>> /\ request' = Tail(request)
        /\ UNCHANGED <<delivering, told, main>>
        /\ \/ active' = active \cup {t} /\ finished' = finished
           \/ finished' = Append(finished, t) /\ active' = active
    BY <1>9 DEF Fetch, mained, history, told
  <2>2. /\ ToSet(request) = ToSet(request') \cup {t} /\ t \notin ToSet(request')
        /\ IsInjective(request') /\ t \in Task
    BY <1>1, <1>2, <2>1, TailParts DEF Apart
  <2>3. t \notin ToSet(finished) /\ t \notin ToSet(delivering) /\ t \notin active
    BY <1>2, <2>2 DEF Apart
  <2>4. /\ IsInjective(finished')
        /\ \/ active' = active \cup {t} /\ ToSet(finished') = ToSet(finished)
           \/ ToSet(finished') = ToSet(finished) \cup {t} /\ active' = active
    <3>1. IsInjective(finished)
      BY <1>2 DEF Apart
    <3>2. CASE active' = active \cup {t} /\ finished' = finished
      BY <3>1, <3>2
    <3>3. CASE finished' = Append(finished, t) /\ active' = active
      BY <1>1, <2>2, <2>3, <3>1, <3>3, AppendParts
    <3> QED  BY <2>1, <3>2, <3>3
  <2>5. Held' = Held
    BY <2>1, <2>2, <2>4 DEF Held
  <2>6. Apart'
    BY <1>2, <2>1, <2>2, <2>3, <2>4 DEF Apart
  <2> QED  BY <1>2, <2>1, <2>5, <2>6 DEF Containers, AllHeld, Known, InCallback, told
<1>10. CASE Exit
  <2>1. /\ active' = {} /\ (main # "closed" => active = {})
        /\ UNCHANGED <<request, finished, delivering, told, main>>
    BY <1>10 DEF Exit, Stages, queues, mained, history, told
  <2>2. Held' \subseteq Held /\ (main # "closed" => Held' = Held)
    BY <2>1 DEF Held
  <2>3. Apart'
    BY <1>2, <2>1 DEF Apart
  <2> QED  BY <1>2, <2>1, <2>2, <2>3 DEF Containers, AllHeld, Known, InCallback, told
<1>11. CASE EndSchedule \/ Release
  <2>1. /\ UNCHANGED <<held, created, reported>>
        /\ main \in {"deliver", "idle"} /\ main' = "idle"
        /\ tasks' \subseteq tasks
    BY <1>11 DEF EndSchedule, Release, queues, worked, mained, held
  <2>2. destroyed' \subseteq 1..created
    BY <1>2, <1>11 DEF EndSchedule, Release, Destroy, Known
  <2>3. Held' = Held /\ Apart' /\ InCallback' = {} /\ InCallback = {}
    BY <1>2, <2>1 DEF Held, Apart, held, InCallback
  <2> QED  BY <1>2, <2>1, <2>2, <2>3 DEF Containers, AllHeld, Known
<1>12. CASE Resume
  <2>1. /\ UNCHANGED <<held, told>>
        /\ main = "resume" /\ main' = IF delivering = <<>> THEN "idle" ELSE "callback"
    BY <1>12 DEF Resume, queues, worked, history, held, told
  <2>2. Held' = Held /\ Apart' /\ InCallback' = InCallback
    BY <1>2, <2>1 DEF Held, Apart, held, InCallback
  <2> QED  BY <1>2, <2>1, <2>2 DEF Containers, AllHeld, Known, told
<1>13. CASE \/ Run \/ TestStoped \/ Close \/ Hold \/ CheckThread \/ StopPerforming
            \/ StopFetching \/ UNCHANGED vars
  <2>1. /\ UNCHANGED <<held, told>>
        /\ \/ main' = main \/ main' = "closed"
           \/ main = "run" /\ main' = "resume"
           \/ main = "stoped" /\ main' = "deliver"
    BY <1>13
    DEF Run, TestStoped, Close, Hold, CheckThread, StopPerforming, StopFetching, queues, worked,
        mained, history, vars, held, told
  <2>2. Held' = Held /\ Apart' /\ (main' # "closed" => InCallback' = InCallback)
    BY <1>2, <2>1 DEF Held, Apart, held, InCallback
  <2> QED  BY <1>2, <2>1, <2>2 DEF Containers, AllHeld, Known, told
<1>14. ASSUME NEW t \in Task, Receive(t) \/ HeaderDone(t) \/ ContentDone(t) \/ Fail(t)
       PROVE  Containers'
  <2>1. UNCHANGED <<held, told, main>>
    BY <1>14
    DEF Receive, HeaderDone, ContentDone, Fail, queues, worked, mained, history, held, told
  <2>2. Held' = Held /\ Apart' /\ InCallback' = InCallback
    BY <1>2, <2>1 DEF Held, Apart, held, InCallback
  <2> QED  BY <1>2, <2>1, <2>2 DEF Containers, AllHeld, Known, told
<1> QED
  BY <1>4, <1>5, <1>6, <1>7, <1>8, <1>9, <1>10, <1>11, <1>12, <1>13, <1>14, Steps

-----------------------------------------------------------------------------
LEMMA QueueStep ==
    ASSUME TypeOK, Stages, [Next]_vars
    PROVE  QueueTypes'
<1> USE DEF QueueTypes
<1>1. QueueTypes /\ created \in 0..MaxTasks
  BY TypeParts DEF PlaceTypes
<1>2. /\ \A s \in Seq(Task), t \in Task : Append(s, t) \in Seq(Task)
      /\ \A s \in Seq(Task) : s # <<>> => Head(s) \in Task /\ Tail(s) \in Seq(Task)
  BY AppendParts, TailParts
<1>3. ASSUME NEW p \in Path \cup {NoPath}, CreateTask(p)
      PROVE  QueueTypes'
  <2>1. created + 1 \in Task
    BY <1>1, <1>3, DownloaderAssumption DEF CreateTask, Task
  <2>2. \/ request' = Append(request, created + 1) /\ finished' = finished
        \/ finished' = Append(finished, created + 1) /\ request' = request
    BY <1>3 DEF CreateTask, Enqueue
  <2> QED  BY <1>1, <1>2, <1>3, <2>1, <2>2 DEF CreateTask, worked
<1>4. CASE GetFinishedTasks
  BY <1>1, <1>4, EmptySequence DEF GetFinishedTasks, worked, history
<1>5. CASE Deliver
  BY <1>1, <1>2, <1>5 DEF Deliver, queues, worked
<1>6. CASE ReturnFromCallback
  BY <1>1, <1>2, <1>6 DEF ReturnFromCallback, Stages, queues, worked, history
<1>7. CASE EndTask
  BY <1>1, <1>2, <1>7 DEF EndTask, Stages, mained, history
<1>8. CASE Fetch
  BY <1>1, <1>2, <1>8 DEF Fetch, mained, history
<1>9. CASE Run \/ Resume \/ TestStoped \/ Close
  BY <1>1, <1>9 DEF Run, Resume, TestStoped, Close, queues, worked, history
<1>10. CASE EndSchedule \/ Release
  BY <1>1, <1>10 DEF EndSchedule, Release, queues, worked, mained
<1>11. CASE \/ Hold \/ CheckThread \/ StopPerforming \/ StopFetching \/ Exit
            \/ UNCHANGED vars
  BY <1>1, <1>11
  DEF Hold, CheckThread, StopPerforming, StopFetching, Exit, queues, worked, mained, history, vars
<1>12. ASSUME NEW t \in Task, Receive(t) \/ HeaderDone(t) \/ ContentDone(t) \/ Fail(t)
       PROVE  QueueTypes'
  BY <1>1, <1>12 DEF Receive, HeaderDone, ContentDone, Fail, queues, worked, mained, history
<1> QED  BY <1>3, <1>4, <1>5, <1>6, <1>7, <1>8, <1>9, <1>10, <1>11, <1>12, Steps

(* A path enters the set with a task for it, and leaves it when any task   *)
(* for it is destroyed.                                                    *)
LEMMA PathsStep ==
    ASSUME TypeOK, Known, PathsReleased, [Next]_vars
    PROVE  PathsReleased'
<1>1. /\ path \in [Task -> Path \cup {NoPath}] /\ created \in 0..MaxTasks
      /\ destroyed \subseteq 1..created /\ 1..created \subseteq Task
  BY DownloaderAssumption DEF TypeOK, Known, Task
<1>2. ASSUME NEW q \in Path \cup {NoPath}, CreateTask(q)
      PROVE  PathsReleased'
  <2> DEFINE t == created + 1
  <2>1. t \in Task /\ t \notin 1..created /\ 1..created' = 1..created \cup {t}
    BY <1>1, <1>2, DownloaderAssumption DEF CreateTask, Task
  <2>2. /\ pathSet' \subseteq pathSet \cup {q} /\ destroyed' = destroyed
        /\ path'[t] = q /\ \A u \in 1..created : path'[u] = path[u]
    BY <1>1, <1>2, <2>1 DEF CreateTask
  <2> QED  BY <1>1, <2>1, <2>2 DEF PathsReleased
<1>3. CASE Deliver
  <2>1. pathSet' \subseteq pathSet /\ UNCHANGED <<created, path, destroyed>>
    BY <1>3 DEF Deliver, Rename
  <2> QED  BY <2>1 DEF PathsReleased
<1>4. CASE EndSchedule \/ Release
  <2>1. PICK S : Destroy(S) /\ UNCHANGED <<created, path>>
    BY <1>4 DEF EndSchedule, Release, cotask
  <2>2. \A p \in pathSet' : p \in pathSet /\ \A t \in S : path[t] # p
    BY <2>1 DEF Destroy
  <2>3. destroyed' = destroyed \cup S
    BY <2>1 DEF Destroy
  <2> QED  BY <2>1, <2>2, <2>3 DEF PathsReleased
<1>5. CASE \/ Run \/ Resume \/ GetFinishedTasks \/ TestStoped \/ ReturnFromCallback \/ Close
           \/ Hold \/ CheckThread \/ EndTask \/ StopPerforming \/ Fetch \/ StopFetching
           \/ Exit \/ UNCHANGED vars
  <2>1. UNCHANGED <<created, path, pathSet, destroyed>>
    BY <1>5
    DEF Run, Resume, GetFinishedTasks, TestStoped, ReturnFromCallback, Close, Hold, CheckThread,
        EndTask, StopPerforming, Fetch, StopFetching, Exit, cotask, history, vars
  <2> QED  BY <2>1 DEF PathsReleased
<1>6. ASSUME NEW t \in Task, Receive(t) \/ HeaderDone(t) \/ ContentDone(t) \/ Fail(t)
      PROVE  PathsReleased'
  <2>1. UNCHANGED <<created, path, pathSet, destroyed>>
    BY <1>6 DEF Receive, HeaderDone, ContentDone, Fail, cotask, history
  <2> QED  BY <2>1 DEF PathsReleased
<1> QED  BY <1>2, <1>3, <1>4, <1>5, <1>6, Steps

-----------------------------------------------------------------------------
LEMMA InitInvariant == Init => IInv
<1> SUFFICES ASSUME Init PROVE IInv
  OBVIOUS
<1>1. MaxTasks \in Nat /\ Length \in Nat \ {0}
  BY DownloaderAssumption
<1>2. PICK left \in [Path -> 0..Length], inode \in Bijection(Path, Inode \ Task) :
        /\ content = [f \in Inode |->
              IF f \in Task THEN <<>>
              ELSE LET p == CHOOSE q \in Path : inode[q] = f
                   IN  SubSeq(Full, 1, left[p])]
        /\ temp = [p \in Path |-> IF left[p] = 0 THEN 0 ELSE inode[p]]
  BY DEF Init
<1>3. content \in [Inode -> Seq(1..Length)]
  <2>1. ASSUME NEW f \in Inode, f \notin Task
        PROVE  content[f] \in Seq(1..Length)
    <3> DEFINE p == CHOOSE q \in Path : inode[q] = f
    <3>1. p \in Path
      BY <2>1 DEF Bijection, Surjection
    <3>2. Full \in Seq(1..Length) /\ Len(Full) = Length
      BY <1>1 DEF Full
    <3>3. left[p] \in 0..Length
      BY <3>1
    <3> HIDE DEF p
    <3>4. SubSeq(Full, 1, left[p]) \in Seq(1..Length)
      BY <1>1, <3>2, <3>3
    <3> QED  BY <1>2, <2>1, <3>4 DEF p
  <2>2. <<>> \in Seq(1..Length)
    OBVIOUS
  <2> QED  BY <1>2, <2>1, <2>2
<1>4. temp \in [Path -> Inode \cup {0}]
  <2>1. \A p \in Path : inode[p] \in Inode
    BY DEF Bijection, Surjection
  <2> QED  BY <1>2, <2>1
<1>5. DiskTypes
  BY <1>3, <1>4 DEF DiskTypes, Init
<1>6. QueueTypes /\ PlaceTypes
  <2>1. /\ created = 0 /\ request = <<>> /\ finished = <<>> /\ delivering = <<>>
        /\ active = {} /\ current = 0 /\ pathSet = {} /\ attached = FALSE
        /\ worker = "none" /\ main = "idle" /\ paused = TRUE /\ impl = TRUE
        /\ resumed = {} /\ shared = {}
        /\ reported = [t \in Task |-> "no"]
    BY DEF Init
  <2>2. reported \in [Task -> {"no", "ok", "error"}]
    BY <2>1
  <2>3. QueueTypes
    BY <2>1, <2>2, EmptySequence DEF QueueTypes
  <2>4. attached \in BOOLEAN /\ paused \in BOOLEAN /\ impl \in BOOLEAN
    BY <2>1, Zenon
  <2>5. created \in 0..MaxTasks
    BY <1>1, <2>1
  <2>6. PlaceTypes
    BY <2>1, <2>4, <2>5 DEF PlaceTypes
  <2> QED  BY <2>3, <2>6
<1>7. TypeOK
  <2>1. Len(request) = 0 /\ Len(finished) = 0 /\ tasks = {} /\ destroyed = {}
    BY DEF Init
  <2> QED  BY <1>1, <1>5, <1>6, <2>1, TypeParts
<1>8. Held = {} /\ 1..created = {} /\ InCallback = {}
  BY EmptySequence DEF Held, InCallback, Init
<1>9. Apart
  BY EmptySequence DEF Apart, Init
<1>10. AllHeld /\ Known
  BY <1>8 DEF AllHeld, Known, Init
<1>11. Stages /\ PathsReleased
  BY DEF Stages, PathsReleased, Init
<1> QED  BY <1>7, <1>9, <1>10, <1>11 DEF IInv

LEMMA StepInvariant == IInv /\ [Next]_vars => IInv'
<1> SUFFICES ASSUME IInv, [Next]_vars PROVE IInv'
  OBVIOUS
<1>1. TypeOK /\ Stages /\ AllHeld /\ Known /\ Containers /\ PathsReleased
  BY DEF IInv, Containers
<1>2. Containers' /\ Stages' /\ PathsReleased'
  BY <1>1, ContainersStep, StagesStep, PathsStep
<1>3. DiskTypes' /\ QueueTypes' /\ PlaceTypes'
  BY <1>1, DiskStep, QueueStep, PlaceStep
<1>4. Len(request') <= MaxTasks /\ Len(finished') <= MaxTasks
  <2>1. \A s \in Seq(Task) : IsInjective(s) => Len(s) <= MaxTasks
    BY ShortSequence
  <2> QED  BY <1>2, <1>3, <2>1 DEF Containers, Apart, QueueTypes
<1>5. tasks' \subseteq Task /\ destroyed' \subseteq Task
  BY <1>2, <1>3, DownloaderAssumption DEF Containers, Known, PlaceTypes, Task
<1>6. TypeOK'
  BY <1>3, <1>4, <1>5 DEF TypeOK, DiskTypes, QueueTypes, PlaceTypes
<1> QED  BY <1>2, <1>6 DEF IInv, Containers

(* IInv holds in every reachable state.                                    *)
THEOREM Invariance == Spec => []IInv
BY InitInvariant, StepInvariant, PTL DEF Spec

(* Every variable stays in its range; the queues never have more entries   *)
(* than there are tasks.                                                   *)
THEOREM TypeCorrect == Spec => []TypeOK
<1>1. IInv => TypeOK
  BY DEF IInv
<1> QED  BY <1>1, Invariance, PTL

(* A path in the set of those being written has a task that will take it   *)
(* out, at the latest when it is destroyed.                                *)
THEOREM PathsAreReleased == Spec => []PathsReleased
<1>1. IInv => PathsReleased
  BY DEF IInv
<1> QED  BY <1>1, Invariance, PTL

-----------------------------------------------------------------------------
(* How often t is in a sequence without repetition.                        *)
LEMMA CountIn ==
    ASSUME NEW s \in Seq(Task), IsInjective(s), NEW t
    PROVE  Cardinality({i \in DOMAIN s : s[i] = t}) = IF t \in ToSet(s) THEN 1 ELSE 0
<1>1. CASE t \in ToSet(s)
  <2>1. PICK i \in DOMAIN s : s[i] = t
    BY <1>1 DEF ToSet
  <2>2. {j \in DOMAIN s : s[j] = t} = {i}
    BY <2>1 DEF IsInjective
  <2> QED  BY <1>1, <2>2, FS_Singleton
<1>2. CASE t \notin ToSet(s)
  <2>1. {j \in DOMAIN s : s[j] = t} = {}
    BY <1>2 DEF ToSet
  <2> QED  BY <1>2, <2>1, FS_EmptySet
<1> QED  BY <1>1, <1>2

(* Every task that is not reported, and none that is, is in the hands of   *)
(* one container: none is lost between the threads or reported twice.      *)
THEOREM EachHeldOnce == Spec => []HeldOnce
<1>1. ASSUME IInv, main # "closed", NEW t \in 1..created
      PROVE  Places(t) = IF \/ reported[t] = "no"
                            \/ main # "deliver" /\ delivering # <<>> /\ Head(delivering) = t
                         THEN 1 ELSE 0
  <2>1. /\ request \in Seq(Task) /\ finished \in Seq(Task) /\ delivering \in Seq(Task)
        /\ Apart /\ AllHeld /\ Stages
        /\ main \in {"idle", "run", "resume", "stoped", "deliver", "callback", "closed"}
    BY <1>1 DEF IInv, TypeOK
  <2>2. Cardinality(active \cap {t}) = IF t \in active THEN 1 ELSE 0
    <3>1. CASE t \in active
      <4>1. active \cap {t} = {t}
        BY <3>1
      <4> QED  BY <3>1, <4>1, FS_Singleton
    <3>2. CASE t \notin active
      <4>1. active \cap {t} = {}
        BY <3>2
      <4> QED  BY <3>2, <4>1, FS_EmptySet
    <3> QED  BY <3>1, <3>2
  <2>3. Places(t) = (IF t \in ToSet(request) THEN 1 ELSE 0)
                    + (IF t \in ToSet(finished) THEN 1 ELSE 0)
                    + (IF t \in ToSet(delivering) THEN 1 ELSE 0)
                    + (IF t \in active THEN 1 ELSE 0)
    BY <2>1, <2>2, CountIn DEF Places, Apart
  <2>4. Places(t) = IF t \in Held THEN 1 ELSE 0
    BY <2>1, <2>3 DEF Apart, Held
  <2>5. t \in Held <=> reported[t] = "no" \/ t \in InCallback
    BY <1>1, <2>1 DEF AllHeld
  <2>6. ASSUME main # "deliver", delivering # <<>>, Head(delivering) = t
        PROVE  t \in Held
    BY <2>1, <2>6, TailParts DEF Held
  <2>7. t \in InCallback => main # "deliver" /\ delivering # <<>> /\ Head(delivering) = t
    BY DEF InCallback
  <2> QED  BY <2>4, <2>5, <2>6, <2>7
<1>2. IInv => HeldOnce
  BY <1>1 DEF HeldOnce
<1> QED  BY <1>2, Invariance, PTL

-----------------------------------------------------------------------------
(* What is in the files.                                                   *)
opened == <<created, path, header, offset, fp, content, temp, ranges, shared, resumed>>

(* A step that touches no file.                                            *)
LEMMA FilesKept ==
    ASSUME Fresh, Opened, Written, UNCHANGED opened,
           active' \cup ToSet(request') \subseteq active \cup ToSet(request)
    PROVE  Fresh' /\ Opened' /\ Written'
<1>1. \A i : Names(i)' = Names(i)
  BY DEF Names, opened
<1>2. Fresh'
  BY <1>1 DEF Fresh, opened
<1>3. Opened'
  BY <1>1 DEF Opened, opened
<1>4. Written'
  BY DEF Written, opened
<1> QED  BY <1>2, <1>3, <1>4

(* Nobody new ends but with an error, or with everything.                  *)
LEMMA ReceivedKept ==
    ASSUME Received, UNCHANGED opened, ToSet(request') \subseteq ToSet(request),
           \A t \in Ending' :
               \/ /\ t \in Ending
                  /\ reported'[t] = "no" => reported[t] = "no"
                  /\ err[t] => err'[t]
               \/ err'[t]
               \/ path[t] \in Path => fp[t] # 0 /\ header[t] /\ offset[t] >= Length
    PROVE  Received'
BY DEF Received, opened

LEMMA FileTypes ==
    ASSUME TypeOK
    PROVE  /\ DiskTypes /\ QueueTypes /\ PlaceTypes
           /\ Length \in Nat \ {0} /\ MaxTasks \in Nat /\ NoPath \notin Path
           /\ Task \subseteq Inode /\ 0 \notin Inode /\ 0 \notin Task
<1>1. MaxTasks \in Nat /\ Length \in Nat \ {0} /\ NoPath \notin Path
  BY DownloaderAssumption
<1>2. Task \subseteq Inode
  BY DEF Inode
<1>3. 0 \notin Inode /\ 0 \notin Task
  BY <1>1 DEF Inode, Task
<1> QED  BY <1>1, <1>2, <1>3, TypeParts

(* Most steps touch no file.                                               *)
LEMMA FilesLeft ==
    ASSUME IInv, FileInv,
           \/ Run \/ Resume \/ GetFinishedTasks \/ TestStoped \/ ReturnFromCallback
           \/ EndSchedule \/ Release \/ Close
           \/ Hold \/ CheckThread \/ EndTask \/ StopPerforming \/ StopFetching \/ Exit
           \/ \E t \in Task : ContentDone(t) \/ Fail(t)
           \/ UNCHANGED vars
    PROVE  FileInv'
<1>1. TypeOK /\ Stages /\ Fresh /\ Opened /\ Written /\ Received
  BY DEF IInv, FileInv
<1>2. DiskTypes /\ QueueTypes /\ PlaceTypes /\ 0 \notin Task
  BY <1>1, FileTypes
<1> DEFINE Kept == /\ UNCHANGED opened /\ ToSet(request') \subseteq ToSet(request)
                   /\ active' \subseteq active
           Ends == \A t \in Ending' :
                       \/ /\ t \in Ending
                          /\ reported'[t] = "no" => reported[t] = "no"
                          /\ err[t] => err'[t]
                       \/ err'[t]
                       \/ path[t] \in Path => fp[t] # 0 /\ header[t] /\ offset[t] >= Length
<1>3. CASE \/ Run \/ Resume \/ TestStoped \/ EndSchedule \/ Release \/ Close
           \/ Hold \/ CheckThread \/ StopPerforming \/ StopFetching \/ Exit \/ UNCHANGED vars
  <2>1. Kept /\ UNCHANGED <<err, reported, finished, delivering, current>>
    <3>1. CASE Run \/ Resume \/ TestStoped \/ EndSchedule \/ Release \/ Close \/ UNCHANGED vars
      BY <3>1 DEF Run, Resume, TestStoped, EndSchedule, Release, Close, Destroy, vars, opened,
                  cotask, disk, queues, worked, mained, history
    <3>2. CASE Hold \/ CheckThread \/ StopPerforming \/ StopFetching \/ Exit
      BY <3>2 DEF Hold, CheckThread, StopPerforming, StopFetching, Exit, opened,
                  cotask, disk, queues, mained, history
    <3> QED  BY <1>3, <3>1, <3>2
  <2>2. worker' = "ended" => worker = "ended"
    BY <1>2, <1>3 DEF Run, Resume, TestStoped, EndSchedule, Release, Close, Hold, CheckThread,
       StopPerforming, StopFetching, Exit, LoopOrExit, vars, worked
  <2>3. Ends
    BY <2>1, <2>2 DEF Ending
  <2> QED  BY <1>1, <2>1, <2>3, FilesKept, ReceivedKept DEF FileInv
<1>4. CASE GetFinishedTasks
  <2>1. Kept /\ UNCHANGED <<err, reported, worker, current>>
    BY <1>4 DEF GetFinishedTasks, opened, cotask, disk, worked, history
  <2>2. delivering' = finished /\ finished' = <<>>
    BY <1>4 DEF GetFinishedTasks
  <2>3. Ends
    BY <2>1, <2>2, EmptySequence DEF Ending
  <2> QED  BY <1>1, <2>1, <2>3, FilesKept, ReceivedKept DEF FileInv
<1>5. CASE ReturnFromCallback
  <2>1. Kept /\ UNCHANGED <<err, reported, finished, worker, current>>
    BY <1>5 DEF ReturnFromCallback, opened, cotask, disk, queues, worked, history
  <2>2. delivering' = Tail(delivering) /\ delivering # <<>>
    BY <1>1, <1>5 DEF ReturnFromCallback, Stages
  <2>3. ToSet(delivering') \subseteq ToSet(delivering)
    BY <1>2, <2>2, TailParts DEF QueueTypes
  <2>4. Ends
    BY <2>1, <2>3 DEF Ending
  <2> QED  BY <1>1, <2>1, <2>4, FilesKept, ReceivedKept DEF FileInv
<1>6. CASE EndTask
  <2>1. Kept /\ UNCHANGED <<err, reported, delivering>>
    BY <1>6 DEF EndTask, opened, cotask, disk, mained, history
  <2>2. /\ current \in Task /\ finished' = Append(finished, current)
        /\ worker = "ended" /\ worker' # "ended"
    BY <1>1, <1>2, <1>6 DEF EndTask, Stages, QueueTypes
  <2>3. ToSet(finished') = ToSet(finished) \cup {current}
    BY <1>2, <2>2, AppendParts DEF QueueTypes
  <2>4. Ends
    BY <2>1, <2>2, <2>3 DEF Ending
  <2> QED  BY <1>1, <2>1, <2>4, FilesKept, ReceivedKept DEF FileInv
<1>7. ASSUME NEW t \in Task, ContentDone(t)
      PROVE  FileInv'
  <2>1. Kept /\ UNCHANGED <<err, reported, finished, delivering>>
    BY <1>7 DEF ContentDone, opened, cotask, disk, queues, mained, history
  <2>2. current' = t /\ t \in active /\ header[t] /\ offset[t] >= Length
    BY <1>7 DEF ContentDone
  <2>3. path[t] \in Path => fp[t] # 0
    BY <1>1, <2>2 DEF Opened
  <2>4. Ends
    BY <2>1, <2>2, <2>3 DEF Ending
  <2> QED  BY <1>1, <2>1, <2>4, FilesKept, ReceivedKept DEF FileInv
<1>8. ASSUME NEW t \in Task, Fail(t)
      PROVE  FileInv'
  <2>1. Kept /\ UNCHANGED <<reported, finished, delivering>>
    BY <1>8 DEF Fail, opened, disk, queues, mained, history
  <2>2. current' = t /\ err' = [err EXCEPT ![t] = TRUE]
    BY <1>8 DEF Fail
  <2>3. err \in [Task -> BOOLEAN]
    BY <1>2 DEF DiskTypes
  <2>4. err'[t] /\ \A u \in Task : err[u] => err'[u]
    BY <2>2, <2>3, Zenon
  <2>5. \A u \in Ending' : u = t \/ (u \in Ending /\ u \in Task)
    <3>1. \A u \in ToSet(finished) \cup ToSet(delivering) : u \in Task
      BY <1>2 DEF QueueTypes, ToSet
    <3> QED  BY <2>1, <2>2, <3>1 DEF Ending
  <2>6. Ends
    BY <2>1, <2>4, <2>5
  <2> QED  BY <1>1, <2>1, <2>6, FilesKept, ReceivedKept DEF FileInv
<1> QED  BY <1>3, <1>4, <1>5, <1>6, <1>7, <1>8

(* A transfer adds a unit to the file of its task, and to no other.        *)
LEMMA FilesReceive ==
    ASSUME IInv, FileInv, NEW t \in Task, Receive(t)
    PROVE  FileInv'
<1>1. TypeOK /\ Known /\ Fresh /\ Opened /\ Written /\ Received
  BY DEF IInv, FileInv
<1>2. /\ DiskTypes /\ QueueTypes /\ PlaceTypes /\ Length \in Nat \ {0}
      /\ Task \subseteq Inode /\ 0 \notin Inode
  BY <1>1, FileTypes
<1>3. /\ UNCHANGED <<created, path, err, header, fp, temp, ranges, shared, resumed, request,
                     finished, delivering, active, reported, current>>
      /\ t \in active /\ header[t] /\ worker' = worker
      /\ offset' = [offset EXCEPT ![t] = @ + 1] /\ offset[t] < Length
      /\ content' = IF fp[t] = 0 THEN content
                    ELSE [content EXCEPT ![fp[t]] = Append(@, offset'[t])]
  BY DEF Receive, queues, worked, mained, history
<1>4. /\ offset'[t] = offset[t] + 1 /\ offset[t] \in Nat
      /\ \A u \in Task : u # t => offset'[u] = offset[u]
  BY <1>2, <1>3 DEF DiskTypes
<1>5. \A i : Names(i)' = Names(i)
  BY <1>3 DEF Names
<1>6. \A i \in Inode : content'[i] # content[i] => fp[t] = i
  BY <1>2, <1>3 DEF DiskTypes
<1>7. Fresh'
  <2>1. \A u \in Task : u > created => fp[t] # u
    <3>1. ASSUME NEW u \in Task, u > created, fp[t] = u
          PROVE  FALSE
      <4>1. path[t] \in Names(u)
        BY <3>1 DEF Names
      <4> QED  BY <1>1, <3>1, <4>1 DEF Fresh
    <3> QED  BY <3>1
  <2> QED  BY <1>1, <1>2, <1>3, <1>5, <1>6, <2>1 DEF Fresh
<1>8. Opened'
  BY <1>1, <1>3, <1>5 DEF Opened
<1>9. ASSUME fp[t] # 0, path[t] \notin shared, ranges \/ t \notin resumed
      PROVE  Begins(content'[fp[t]]) /\ Len(content'[fp[t]]) = offset'[t]
  <2>1. Begins(content[fp[t]]) /\ Len(content[fp[t]]) = offset[t]
    BY <1>1, <1>3, <1>9 DEF Written
  <2>2. fp[t] \in Inode
    BY <1>2, <1>9 DEF DiskTypes
  <2>3. PICK s \in Seq(1..Length) : s = content[fp[t]]
    BY <1>2, <2>2 DEF DiskTypes
  <2>4. content'[fp[t]] = Append(s, offset[t] + 1)
    BY <1>2, <1>3, <1>4, <1>9, <2>2, <2>3 DEF DiskTypes
  <2>5. offset[t] + 1 \in 1..Length
    BY <1>2, <1>3, <1>4
  <2>6. /\ DOMAIN Append(s, offset[t] + 1) = 1..(Len(s) + 1) /\ DOMAIN s = 1..Len(s)
        /\ Len(s) \in Nat /\ Len(Append(s, offset[t] + 1)) = Len(s) + 1
        /\ \A k \in 1..Len(s) : Append(s, offset[t] + 1)[k] = s[k]
        /\ Append(s, offset[t] + 1)[Len(s) + 1] = offset[t] + 1
    BY <2>5
  <2>7. \A k \in 1..(Len(s) + 1) : k \in 1..Len(s) \/ k = Len(s) + 1
    BY <2>6
  <2>8. Begins(Append(s, offset[t] + 1))
    BY <2>1, <2>3, <2>6, <2>7 DEF Begins
  <2> QED  BY <1>4, <2>1, <2>3, <2>4, <2>6, <2>8
<1>10. Written'
  <2>1. ASSUME NEW p \in Path \ shared, ranges, temp[p] # 0
        PROVE  Begins(content'[temp[p]])
    <3>1. temp[p] \in Inode /\ Begins(content[temp[p]])
      BY <1>1, <1>2, <2>1 DEF DiskTypes, Written
    <3>2. CASE fp[t] = temp[p]
      <4>1. p \in Names(temp[p]) /\ path[t] \in Names(temp[p])
        BY <3>2 DEF Names
      <4>2. path[t] = p
        BY <1>1, <3>1, <4>1 DEF Opened
      <4> QED  BY <1>9, <2>1, <3>2, <4>2
    <3>3. CASE fp[t] # temp[p]
      BY <1>6, <3>1, <3>3
    <3> QED  BY <3>2, <3>3
  <2>2. ASSUME NEW u \in Task, fp[u] # 0, path[u] \notin shared, ranges \/ u \notin resumed
        PROVE  /\ Begins(content'[fp[u]])
               /\ header[u] => Len(content'[fp[u]]) = offset'[u]
               /\ ~ header[u] => u \in resumed \/ content'[fp[u]] = <<>>
    <3>1. CASE u = t
      BY <1>3, <1>9, <2>2, <3>1
    <3>2. CASE u # t
      <4>1. fp[u] \in Inode
        BY <1>2, <2>2 DEF DiskTypes
      <4>2. fp[t] # fp[u]
        <5>1. ASSUME fp[t] = fp[u]
              PROVE  FALSE
          <6>1. path[u] \in Names(fp[u]) /\ path[t] \in Names(fp[u])
            BY <5>1 DEF Names
          <6>2. path[u] = path[t]
            BY <1>1, <4>1, <6>1 DEF Opened
          <6> QED  BY <1>1, <2>2, <3>2, <5>1, <6>2 DEF Opened
        <5> QED  BY <5>1
      <4>3. content'[fp[u]] = content[fp[u]] /\ offset'[u] = offset[u]
        BY <1>4, <1>6, <3>2, <4>1, <4>2
      <4> QED  BY <1>1, <2>2, <4>3 DEF Written
    <3> QED  BY <3>1, <3>2
  <2> QED  BY <1>3, <2>1, <2>2 DEF Written
<1>11. Received'
  <2>1. \A u \in Ending : u \in Task \cup {0}
    BY <1>2 DEF Ending, QueueTypes, ToSet
  <2>2. \A u \in Ending : u \in Task \/ path[u] = path[u]
    OBVIOUS
  <2>3. ASSUME NEW u \in Ending, reported[u] = "no", ~ err[u], path[u] \in Path
        PROVE  fp[u] # 0 /\ header[u] /\ offset'[u] >= Length
    <3>1. fp[u] # 0 /\ header[u] /\ offset[u] >= Length
      BY <1>1, <2>3 DEF Received
    <3>2. u # t
      BY <1>2, <1>3, <1>4, <3>1
    <3>3. offset'[u] = offset[u]
      BY <1>2, <1>3, <3>2 DEF DiskTypes
    <3> QED  BY <3>1, <3>3
  <2>4. Ending' = Ending
    BY <1>3 DEF Ending
  <2> QED  BY <1>1, <1>3, <2>3, <2>4 DEF Received
<1> QED  BY <1>7, <1>8, <1>10, <1>11 DEF FileInv

(* A header that has come says where the content goes on: behind what is in*)
(* the file.                                                               *)
LEMMA FilesHeader ==
    ASSUME IInv, FileInv, NEW t \in Task, HeaderDone(t)
    PROVE  FileInv'
<1>1. TypeOK /\ Known /\ Apart /\ Fresh /\ Opened /\ Written /\ Received
  BY DEF IInv, FileInv
<1>2. /\ DiskTypes /\ QueueTypes /\ PlaceTypes /\ Length \in Nat \ {0} /\ NoPath \notin Path
      /\ Task \subseteq Inode /\ 0 \notin Inode /\ 0 \notin Task
  BY <1>1, FileTypes
<1>3. /\ UNCHANGED <<created, path, fp, content, temp, ranges, shared, resumed, request,
                     finished, delivering, active, reported>>
      /\ t \in active /\ ~ header[t] /\ worker = "perform"
      /\ header' = [header EXCEPT ![t] = TRUE]
      /\ offset' = [offset EXCEPT ![t] = ResumeFrom(t)]
      /\ IF offset'[t] = Length THEN current' = t /\ worker' = "ended"
         ELSE UNCHANGED <<current, worker>>
      /\ \A u \in Task : u # t => err'[u] = err[u]
  <2>1. PICK code200 \in BOOLEAN : err' = [err EXCEPT ![t] = @ \/ ~ code200]
    BY DEF HeaderDone
  <2>2. err \in [Task -> BOOLEAN]
    BY <1>2 DEF DiskTypes
  <2>3. \A u \in Task : u # t => err'[u] = err[u]
    BY <2>1, <2>2, Zenon
  <2> QED  BY <2>3 DEF HeaderDone, disk, queues, mained, history
<1>4. /\ header'[t] /\ offset'[t] = ResumeFrom(t)
      /\ \A u \in Task : u # t => header'[u] = header[u] /\ offset'[u] = offset[u]
  BY <1>2, <1>3 DEF DiskTypes
<1>5. \A i : Names(i)' = Names(i)
  BY <1>3 DEF Names
<1>6. t \in 1..created /\ t \in Int
  <2>1. t \in 1..created
    BY <1>1, <1>3 DEF Known, Held
  <2> QED  BY <2>1
<1>7. Fresh'
  <2>1. \A u \in Task : u > created => u # t
    BY <1>2, <1>6 DEF PlaceTypes
  <2> QED  BY <1>1, <1>3, <1>4, <1>5, <2>1 DEF Fresh
<1>8. Opened'
  BY <1>1, <1>3, <1>5 DEF Opened
<1>9. ASSUME fp[t] # 0, path[t] \notin shared, ranges \/ t \notin resumed
      PROVE  Len(content[fp[t]]) = offset'[t]
  <2>1. path[t] \in Path /\ temp[path[t]] = fp[t] /\ path[t] # NoPath
    BY <1>1, <1>2, <1>9 DEF Opened
  <2>2. CASE ranges
    BY <1>4, <1>9, <2>1, <2>2 DEF ResumeFrom
  <2>3. CASE ~ ranges
    <3>1. content[fp[t]] = <<>>
      BY <1>1, <1>3, <1>9, <2>3 DEF Written
    <3>2. offset'[t] = 0
      BY <1>4, <2>3 DEF ResumeFrom
    <3> QED  BY <3>1, <3>2
  <2> QED  BY <2>2, <2>3
<1>10. Written'
  <2>1. ASSUME NEW u \in Task, fp[u] # 0, path[u] \notin shared, ranges \/ u \notin resumed
        PROVE  /\ Begins(content[fp[u]])
               /\ header'[u] => Len(content[fp[u]]) = offset'[u]
               /\ ~ header'[u] => u \in resumed \/ content[fp[u]] = <<>>
    <3>1. CASE u = t
      BY <1>1, <1>4, <1>9, <2>1, <3>1 DEF Written
    <3>2. CASE u # t
      BY <1>1, <1>4, <2>1, <3>2 DEF Written
    <3> QED  BY <3>1, <3>2
  <2> QED  BY <1>1, <1>3, <2>1 DEF Written
<1>11. Received'
  <2>1. t \notin ToSet(request) \cup ToSet(finished) \cup ToSet(delivering)
    BY <1>1, <1>3 DEF Apart
  <2>2. ToSet(request) \subseteq Task /\ ToSet(finished) \cup ToSet(delivering) \subseteq Task
    BY <1>2 DEF QueueTypes, ToSet
  <2>3. \A u \in ToSet(request) : ~ header'[u]
    BY <1>1, <1>4, <2>1, <2>2 DEF Received
  <2>4. ASSUME NEW u \in Ending', reported[u] = "no", ~ err'[u], path[u] \in Path
        PROVE  fp[u] # 0 /\ header'[u] /\ offset'[u] >= Length
    <3>1. CASE u = t
      <4>1. fp[t] # 0
        BY <1>1, <1>3, <2>4, <3>1 DEF Opened
      <4>2. offset'[t] = Length
        <5>1. u \in ToSet(finished) \cup ToSet(delivering) \/ worker' = "ended"
          BY <1>3, <2>4 DEF Ending
        <5> QED  BY <1>3, <2>1, <3>1, <5>1
      <4> QED  BY <1>2, <1>4, <3>1, <4>1, <4>2
    <3>2. CASE u # t
      <4>1. u \in ToSet(finished) \cup ToSet(delivering)
        BY <1>3, <2>4, <3>2 DEF Ending
      <4>2. u \in Ending /\ u \in Task
        BY <2>2, <4>1 DEF Ending
      <4> QED  BY <1>1, <1>3, <1>4, <2>4, <3>2, <4>2 DEF Received
    <3> QED  BY <3>1, <3>2
  <2> QED  BY <1>3, <2>3, <2>4 DEF Received
<1> QED  BY <1>7, <1>8, <1>10, <1>11 DEF FileInv

(* A request that is taken has not asked for anything yet.                 *)
LEMMA FilesFetch ==
    ASSUME IInv, FileInv, Fetch
    PROVE  FileInv'
<1>1. TypeOK /\ Known /\ Apart /\ Fresh /\ Opened /\ Written /\ Received
  BY DEF IInv, FileInv
<1>2. /\ DiskTypes /\ QueueTypes /\ PlaceTypes
      /\ 0 \notin Task
  BY <1>1, FileTypes
<1>3. PICK t \in Task : t = Head(request)
  BY <1>2, TailParts DEF Fetch, QueueTypes
<1>4. ToSet(request) = ToSet(request') \cup {t} /\ t \notin ToSet(request')
  BY <1>1, <1>2, <1>3, TailParts DEF Fetch, QueueTypes, Apart
<1>5. /\ UNCHANGED <<created, path, fp, content, temp, ranges, shared, resumed,
                     delivering, reported, current>>
      /\ worker = "fetch" /\ worker' = worker
      /\ header' = [header EXCEPT ![t] = FALSE]
      /\ offset' = [offset EXCEPT ![t] = 0]
      /\ \/ /\ active' = active \cup {t}
            /\ err' = [err EXCEPT ![t] = FALSE]
            /\ UNCHANGED finished
         \/ /\ finished' = Append(finished, t)
            /\ err' = [err EXCEPT ![t] = TRUE]
            /\ UNCHANGED active
  BY <1>3 DEF Fetch, disk, mained, history
<1>6. /\ ~ header[t] /\ header' = header
      /\ \A u \in Task : u # t => offset'[u] = offset[u]
  <2>1. ~ header[t]
    BY <1>1, <1>4 DEF Received
  <2>2. header \in [Task -> BOOLEAN]
    BY <1>2 DEF DiskTypes
  <2>3. header' = header
    BY <1>5, <2>1, <2>2
  <2> QED  BY <1>2, <1>5, <2>1, <2>3 DEF DiskTypes
<1>7. \A i : Names(i)' = Names(i)
  BY <1>5 DEF Names
<1>8. Fresh'
  BY <1>1, <1>5, <1>6, <1>7 DEF Fresh
<1>9. active' \cup ToSet(request') \subseteq active \cup ToSet(request)
  BY <1>4, <1>5
<1>10. Opened'
  BY <1>1, <1>5, <1>7, <1>9 DEF Opened
<1>11. Written'
  BY <1>1, <1>5, <1>6 DEF Written
<1>12. Received'
  <2>1. \A u \in ToSet(request') : ~ header'[u]
    BY <1>1, <1>4, <1>6 DEF Received
  <2>2. t \notin ToSet(finished) \cup ToSet(delivering)
    BY <1>1, <1>4 DEF Apart
  <2>3. ToSet(finished) \cup ToSet(delivering) \subseteq Task
    BY <1>2 DEF QueueTypes, ToSet
  <2>4. \A u \in Task : u # t => (err'[u] <=> err[u])
    BY <1>2, <1>5 DEF DiskTypes
  <2>5. ASSUME NEW u \in ToSet(finished) \cup ToSet(delivering),
               reported[u] = "no", ~ err'[u], path[u] \in Path
        PROVE  fp[u] # 0 /\ header[u] /\ offset'[u] >= Length
    <3>1. u \in Ending /\ u # t /\ u \in Task
      BY <2>2, <2>3, <2>5 DEF Ending
    <3> QED  BY <1>1, <1>6, <2>4, <2>5, <3>1 DEF Received
  <2>6. ASSUME NEW u \in Ending'
        PROVE  u \in ToSet(finished) \cup ToSet(delivering) \/ err'[u]
    <3>1. CASE finished' = finished
      BY <1>5, <2>6, <3>1 DEF Ending
    <3>2. CASE finished' = Append(finished, t) /\ err' = [err EXCEPT ![t] = TRUE]
      <4>1. ToSet(finished') = ToSet(finished) \cup {t}
        BY <1>2, <3>2, AppendParts DEF QueueTypes
      <4>2. err'[t]
        <5>1. err \in [Task -> BOOLEAN]
          BY <1>2 DEF DiskTypes
        <5> QED  BY <3>2, <5>1
      <4> QED  BY <1>5, <2>6, <4>1, <4>2 DEF Ending
    <3> QED  BY <1>5, <3>1, <3>2
  <2> QED  BY <1>5, <1>6, <2>1, <2>5, <2>6 DEF Received
<1> QED  BY <1>8, <1>10, <1>11, <1>12 DEF FileInv

(* A new task opens a file nobody has, that of its path or a new one.      *)
LEMMA FilesCreate ==
    ASSUME IInv, FileInv, NEW p \in Path \cup {NoPath}, CreateTask(p)
    PROVE  FileInv'
<1>1. TypeOK /\ Known /\ Apart /\ Stages /\ Fresh /\ Opened /\ Written /\ Received
  BY DEF IInv, FileInv
<1>2. /\ DiskTypes /\ QueueTypes /\ PlaceTypes /\ NoPath \notin Path
      /\ Task \subseteq Inode /\ 0 \notin Inode /\ 0 \notin Task /\ MaxTasks \in Nat
  BY <1>1, FileTypes
<1>3. PICK t \in Task : t = created + 1
  BY <1>2 DEF CreateTask, PlaceTypes, Task
<1>4. /\ t > created /\ created' = t
      /\ \A u \in Task : u > t => u > created
      /\ t \notin 1..created
  BY <1>2, <1>3 DEF CreateTask, PlaceTypes, Task
<1>5. fp[t] = 0 /\ ~ header[t] /\ content[t] = <<>> /\ Names(t) = {}
  BY <1>1, <1>4 DEF Fresh
<1>6. /\ UNCHANGED <<header, offset, content, ranges, active, worker, current, delivering,
                     reported>>
      /\ path' = [path EXCEPT ![t] = p]
  BY <1>3 DEF CreateTask, worked
<1>7. path'[t] = p /\ \A u \in Task : u # t => path'[u] = path[u]
  BY <1>2, <1>6 DEF DiskTypes
<1>8. /\ t \notin Held
      /\ \A u \in Task : u # t => (err'[u] <=> err[u])
  <2>1. t \notin Held
    BY <1>1, <1>4 DEF Known
  <2>2. err' = err \/ err' = [err EXCEPT ![t] = TRUE]
    BY <1>3 DEF CreateTask
  <2> QED  BY <1>2, <2>1, <2>2 DEF DiskTypes
<1>9. \/ /\ request' = Append(request, t) /\ UNCHANGED finished
         /\ p \in Path => Open(t, p)
         /\ p = NoPath => UNCHANGED <<fp, temp, resumed, shared>>
      \/ /\ finished' = Append(finished, t) /\ UNCHANGED <<request, fp, temp, resumed, shared>>
         /\ err' = [err EXCEPT ![t] = TRUE]
  BY <1>2, <1>3 DEF CreateTask, Enqueue
<1>10. UNCHANGED <<fp, temp, resumed, shared>> \/ (p \in Path /\ Open(t, p))
  BY <1>9
<1>11. /\ \A i \in Inode : Names(i)' \subseteq Names(i) \cup (IF fp'[t] = i THEN {p} ELSE {})
       /\ \A u \in Task : u # t => fp'[u] = fp[u]
       /\ shared \subseteq shared'
       /\ \A u \in Task : u # t => (u \in resumed' <=> u \in resumed)
       /\ fp'[t] = 0 \/ (p \in Path /\ Open(t, p))
  <2>1. CASE UNCHANGED <<fp, temp, resumed, shared>>
    <3>1. ASSUME NEW i \in Inode PROVE Names(i)' \subseteq Names(i)
      <4>1. \A u \in Task : fp[u] = i => u # t
        BY <1>2, <1>5
      <4> QED  BY <1>7, <2>1, <4>1 DEF Names
    <3> QED  BY <1>5, <2>1, <3>1
  <2>2. CASE p \in Path /\ Open(t, p)
    <3>1. /\ fp' = [fp EXCEPT ![t] = IF temp[p] = 0 THEN t ELSE temp[p]]
          /\ temp' = [temp EXCEPT ![p] = fp'[t]]
      BY <2>2 DEF Open
    <3>2. /\ \A u \in Task : u # t => fp'[u] = fp[u]
          /\ temp'[p] = fp'[t] /\ \A q \in Path : q # p => temp'[q] = temp[q]
      BY <1>2, <2>2, <3>1 DEF DiskTypes
    <3>3. ASSUME NEW i \in Inode, NEW q \in Names(i)', q # p
          PROVE  q \in Names(i)
      BY <1>7, <3>2, <3>3 DEF Names
    <3>4. ASSUME NEW i \in Inode, p \in Names(i)'
          PROVE  fp'[t] = i \/ p \in Names(i)
      BY <1>7, <3>2, <3>4 DEF Names
    <3>5. shared \subseteq shared' /\ \A u \in Task : u # t => (u \in resumed' <=> u \in resumed)
      BY <2>2 DEF Open
    <3> QED  BY <2>2, <3>2, <3>3, <3>4, <3>5
  <2> QED  BY <1>10, <2>1, <2>2
<1>12. ASSUME p \in Path, Open(t, p)
       PROVE  /\ temp'[p] = fp'[t] /\ fp'[t] \in Inode
              /\ \A q \in Path : q # p => temp'[q] = temp[q]
              /\ \/ temp[p] = 0 /\ fp'[t] = t
                 \/ temp[p] # 0 /\ fp'[t] = temp[p]
              /\ t \in resumed' \/ content[fp'[t]] = <<>>
              /\ p \in shared' \/ \A u \in Task : fp[u] # fp'[t]
  <2>1. /\ fp' = [fp EXCEPT ![t] = IF temp[p] = 0 THEN t ELSE temp[p]]
        /\ temp' = [temp EXCEPT ![p] = fp'[t]]
        /\ resumed' = IF content[fp'[t]] = <<>> THEN resumed ELSE resumed \cup {t}
        /\ shared' = IF \E u \in Task : fp[u] = fp'[t] THEN shared \cup {p} ELSE shared
    BY <1>12 DEF Open
  <2>2. temp[p] \in Inode \cup {0} /\ fp'[t] = IF temp[p] = 0 THEN t ELSE temp[p]
    BY <1>2, <1>12, <2>1 DEF DiskTypes
  <2>3. temp'[p] = fp'[t] /\ \A q \in Path : q # p => temp'[q] = temp[q]
    BY <1>2, <1>12, <2>1 DEF DiskTypes
  <2> QED  BY <1>2, <2>1, <2>2, <2>3
<1> DEFINE Opens == p \in Path /\ Open(t, p)
<1>13. ASSUME Opens, temp[p] # 0
       PROVE  p \in Names(fp'[t])
  <2>1. fp'[t] = temp[p] /\ p \in Path
    BY <1>12, <1>13
  <2> QED  BY <2>1 DEF Names
<1>14. Fresh'
  <2>1. ASSUME NEW u \in Task, u > t
        PROVE  fp'[u] = 0 /\ ~ header[u] /\ content[u] = <<>> /\ Names(u)' = {}
    <3>1. u # t /\ fp[u] = 0 /\ ~ header[u] /\ content[u] = <<>> /\ Names(u) = {}
      <4>1. u # t
        BY <2>1 DEF Task
      <4> QED  BY <1>1, <1>4, <2>1, <4>1 DEF Fresh
    <3>2. fp'[t] # u
      <4>1. ASSUME fp'[t] = u
            PROVE  FALSE
        <5>1. Opens
          BY <1>2, <1>11, <4>1
        <5>2. temp[p] # 0
          BY <1>12, <3>1, <4>1, <5>1
        <5> QED  BY <1>13, <3>1, <4>1, <5>1, <5>2
      <4> QED  BY <4>1
    <3>3. u \in Inode
      BY <1>2
    <3> QED  BY <1>11, <3>1, <3>2, <3>3
  <2> QED  BY <1>4, <1>6, <2>1 DEF Fresh
<1>15. Opened'
  <2>1. ASSUME NEW i \in Inode, NEW q \in Names(i)', NEW r \in Names(i)'
        PROVE  q = r
    <3>1. CASE fp'[t] = i
      <4>1. Opens
        BY <1>2, <1>11, <3>1
      <4>2. CASE temp[p] = 0
        <5>1. Names(i) = {}
          BY <1>5, <1>12, <3>1, <4>1, <4>2
        <5> QED  BY <1>11, <2>1, <3>1, <5>1
      <4>3. CASE temp[p] # 0
        <5>1. p \in Names(i)
          BY <1>13, <3>1, <4>1, <4>3
        <5> QED  BY <1>1, <1>11, <2>1, <3>1, <5>1 DEF Opened
      <4> QED  BY <4>2, <4>3
    <3>2. CASE fp'[t] # i
      BY <1>1, <1>11, <2>1, <3>2 DEF Opened
    <3> QED  BY <3>1, <3>2
  <2>2. ASSUME NEW u \in Task, fp'[u] # 0
        PROVE  /\ path'[u] \in Path
               /\ path'[u] \notin shared' => temp'[path'[u]] = fp'[u]
    <3>1. CASE u = t
      BY <1>7, <1>11, <1>12, <2>2, <3>1
    <3>2. CASE u # t
      <4>1. /\ path'[u] = path[u] /\ fp'[u] = fp[u] /\ path[u] \in Path
            /\ path[u] \notin shared => temp[path[u]] = fp[u]
        BY <1>1, <1>7, <1>11, <2>2, <3>2 DEF Opened
      <4>2. CASE UNCHANGED <<fp, temp, resumed, shared>>
        BY <4>1, <4>2
      <4>3. CASE Opens /\ path[u] = p
        <5>1. path[u] \notin shared' => temp[p] # 0 /\ temp[p] = fp[u]
          BY <1>11, <2>2, <4>1, <4>3
        <5> QED  BY <1>12, <4>1, <4>3, <5>1
      <4>4. CASE Opens /\ path[u] # p
        BY <1>11, <1>12, <4>1, <4>4
      <4> QED  BY <1>10, <4>2, <4>3, <4>4
    <3> QED  BY <3>1, <3>2
  <2>3. ASSUME NEW u \in Task, u # t, fp'[u] # 0, fp'[t] # 0, path'[u] = p, p \notin shared'
        PROVE  FALSE
    <3>1. Opens
      BY <1>11, <2>3
    <3>2. fp[u] # 0 /\ path[u] = p /\ p \notin shared
      BY <1>7, <1>11, <2>3
    <3>3. temp[p] = fp[u]
      BY <1>1, <3>2 DEF Opened
    <3> QED  BY <1>12, <2>3, <3>1, <3>2, <3>3
  <2>4. ASSUME NEW u \in Task, NEW v \in Task, fp'[u] # 0, fp'[v] # 0,
               path'[u] = path'[v], path'[u] \notin shared'
        PROVE  u = v
    <3>1. CASE u = t \/ v = t
      BY <1>7, <2>3, <2>4, <3>1
    <3>2. CASE u # t /\ v # t
      BY <1>1, <1>7, <1>11, <2>4, <3>2 DEF Opened
    <3> QED  BY <3>1, <3>2
  <2>5. ASSUME NEW u \in active \cup ToSet(request'), path'[u] \in Path
        PROVE  fp'[u] # 0
    <3>1. CASE u \in active \cup ToSet(request)
      <4>1. u \in Task /\ u # t
        BY <1>2, <1>8, <3>1 DEF QueueTypes, ToSet, Held
      <4> QED  BY <1>1, <1>7, <1>11, <2>5, <3>1, <4>1 DEF Opened
    <3>2. CASE u \notin active \cup ToSet(request)
      <4>1. request' = Append(request, t) /\ (p \in Path => Open(t, p))
        BY <1>9, <2>5, <3>2
      <4>2. u = t
        BY <1>2, <2>5, <3>2, <4>1, AppendParts DEF QueueTypes
      <4>3. fp'[t] \in Inode
        BY <1>7, <1>12, <2>5, <4>1, <4>2
      <4> QED  BY <1>2, <4>2, <4>3
    <3> QED  BY <3>1, <3>2
  <2> QED  BY <1>6, <2>1, <2>2, <2>4, <2>5 DEF Opened
<1>16. \A s : s = <<>> => Begins(s)
  BY EmptySequence DEF Begins
<1>17. Written'
  <2>1. ASSUME NEW q \in Path \ shared', ranges, temp'[q] # 0
        PROVE  Begins(content[temp'[q]])
    <3>1. CASE temp'[q] = temp[q]
      BY <1>1, <1>11, <2>1, <3>1 DEF Written
    <3>2. CASE temp'[q] # temp[q]
      <4>1. Opens /\ q = p
        BY <1>10, <1>12, <2>1, <3>2
      <4>2. temp'[q] = t
        BY <1>12, <3>2, <4>1
      <4> QED  BY <1>5, <1>16, <4>2
    <3> QED  BY <3>1, <3>2
  <2>2. ASSUME NEW u \in Task, fp'[u] # 0, path'[u] \notin shared', ranges \/ u \notin resumed'
        PROVE  /\ Begins(content[fp'[u]])
               /\ header[u] => Len(content[fp'[u]]) = offset[u]
               /\ ~ header[u] => u \in resumed' \/ content[fp'[u]] = <<>>
    <3>1. CASE u = t
      <4>1. Opens
        BY <1>11, <2>2, <3>1
      <4>2. t \in resumed' \/ content[fp'[t]] = <<>>
        BY <1>12, <4>1
      <4>3. Begins(content[fp'[t]])
        <5>1. CASE content[fp'[t]] = <<>>
          BY <1>16, <5>1
        <5>2. CASE ranges
          BY <1>7, <1>12, <2>1, <2>2, <3>1, <4>1, <5>2
        <5> QED  BY <2>2, <3>1, <4>2, <5>1, <5>2
      <4> QED  BY <1>5, <3>1, <4>2, <4>3
    <3>2. CASE u # t
      BY <1>1, <1>7, <1>11, <2>2, <3>2 DEF Written
    <3> QED  BY <3>1, <3>2
  <2> QED  BY <1>6, <2>1, <2>2 DEF Written
<1>18. Received'
  <2>1. ToSet(request) \cup ToSet(finished) \cup ToSet(delivering) \subseteq Task
    BY <1>2 DEF QueueTypes, ToSet
  <2>2. ToSet(request') \subseteq ToSet(request) \cup {t}
    BY <1>2, <1>9, AppendParts DEF QueueTypes
  <2>3. \A u \in ToSet(request') : ~ header[u]
    BY <1>1, <1>5, <2>2 DEF Received
  <2>4. ASSUME NEW u \in Ending', u \notin Ending
        PROVE  err'[u]
    <3>1. finished' = Append(finished, t) /\ err' = [err EXCEPT ![t] = TRUE]
      BY <1>6, <1>9, <2>4 DEF Ending
    <3>2. u = t
      BY <1>2, <1>6, <2>4, <3>1, AppendParts DEF Ending, QueueTypes
    <3>3. err \in [Task -> BOOLEAN]
      BY <1>2 DEF DiskTypes
    <3> QED  BY <3>1, <3>2, <3>3
  <2>5. ASSUME NEW u \in Ending
        PROVE  u \in Task /\ u # t
    <3>1. u \in Held
      BY <1>1, <2>5 DEF Ending, Held, Stages
    <3> QED  BY <1>2, <1>8, <2>1, <3>1 DEF Held, QueueTypes
  <2>6. ASSUME NEW u \in Ending', reported[u] = "no", ~ err'[u], path'[u] \in Path
        PROVE  fp'[u] # 0 /\ header[u] /\ offset[u] >= Length
    <3>1. u \in Ending
      BY <2>4, <2>6
    <3>2. u \in Task /\ u # t
      BY <2>5, <3>1
    <3> QED  BY <1>1, <1>7, <1>8, <1>11, <2>6, <3>1, <3>2 DEF Received
  <2> QED  BY <1>6, <2>3, <2>6 DEF Received
<1> QED  BY <1>14, <1>15, <1>17, <1>18 DEF FileInv

(* A task that is reported closes its file and may move it.                *)
LEMMA FilesDeliver ==
    ASSUME IInv, FileInv, Deliver
    PROVE  FileInv'
<1>1. TypeOK /\ Known /\ Apart /\ Fresh /\ Opened /\ Written /\ Received /\ Stages
  BY DEF IInv, FileInv
<1>2. /\ DiskTypes /\ QueueTypes /\ PlaceTypes /\ 0 \notin Inode /\ Task \subseteq Inode
      /\ 0 \notin Task
  BY <1>1, FileTypes
<1>3. PICK t \in Task : t = Head(delivering)
  BY <1>2, TailParts DEF Deliver, QueueTypes
<1>4. t \in ToSet(delivering)
  BY <1>2, <1>3, TailParts DEF Deliver, QueueTypes
<1>5. /\ UNCHANGED <<created, path, header, offset, content, ranges, request, finished,
                     active, worker, current, delivering, resumed, shared>>
      /\ reported' = [reported EXCEPT ![t] = IF err'[t] THEN "error" ELSE "ok"]
      /\ IF fp[t] # 0 THEN Rename(t) ELSE UNCHANGED <<fp, final, temp, pathSet, err>>
  BY <1>3 DEF Deliver, queues, worked
<1>6. /\ \A u \in Task : u # t => fp'[u] = fp[u]
      /\ fp'[t] = 0
      /\ \A q \in Path : temp'[q] = temp[q] \/ (q = path[t] /\ fp[t] # 0 /\ temp'[q] = 0)
      /\ \A u \in Task : u # t => (err'[u] <=> err[u])
      /\ reported'[t] # "no" /\ \A u \in Task : u # t => reported'[u] = reported[u]
  <2>1. CASE fp[t] = 0
    BY <1>2, <1>5, <2>1 DEF QueueTypes
  <2>2. CASE fp[t] # 0
    <3>1. /\ fp' = [fp EXCEPT ![t] = 0]
          /\ temp' = temp \/ temp' = [temp EXCEPT ![path[t]] = 0]
          /\ err' = err \/ err' = [err EXCEPT ![t] = TRUE]
      BY <1>5, <2>2 DEF Rename
    <3>2. \A u \in Task : u # t => (err'[u] <=> err[u])
      BY <1>2, <3>1 DEF DiskTypes
    <3>3. \A u \in Task : u # t => fp'[u] = fp[u]
      BY <1>2, <3>1 DEF DiskTypes
    <3>4. fp'[t] = 0
      BY <1>2, <3>1 DEF DiskTypes
    <3>5. \A q \in Path : temp'[q] = temp[q] \/ (q = path[t] /\ temp'[q] = 0)
      BY <1>2, <3>1 DEF DiskTypes
    <3>6. reported'[t] # "no" /\ \A u \in Task : u # t => reported'[u] = reported[u]
      BY <1>2, <1>5 DEF QueueTypes
    <3> QED  BY <2>2, <3>2, <3>3, <3>4, <3>5, <3>6
  <2> QED  BY <2>1, <2>2
<1>7. \A i \in Inode : Names(i)' \subseteq Names(i)
  <2>1. ASSUME NEW i \in Inode, NEW q \in Path, temp'[q] = i
        PROVE  temp[q] = i
    BY <1>2, <1>6, <2>1
  <2>2. ASSUME NEW i \in Inode, NEW u \in Task, fp'[u] = i
        PROVE  fp[u] = i
    BY <1>2, <1>6, <2>2
  <2> QED  BY <1>5, <2>1, <2>2 DEF Names
<1>8. Fresh'
  <2>1. ASSUME NEW u \in Task, u > created
        PROVE  fp'[u] = 0 /\ Names(u)' = {}
    BY <1>1, <1>2, <1>6, <1>7, <2>1 DEF Fresh
  <2> QED  BY <1>1, <1>5, <2>1 DEF Fresh
<1>9. t \notin active \cup ToSet(request)
  BY <1>1, <1>4 DEF Apart
<1>10. Opened'
  <2>1. \A i \in Inode : \A p, q \in Names(i)' : p = q
    BY <1>1, <1>7 DEF Opened
  <2>2. ASSUME NEW u \in Task, fp'[u] # 0
        PROVE  /\ path[u] \in Path
               /\ path[u] \notin shared => temp'[path[u]] = fp'[u]
    <3>1. u # t /\ fp[u] # 0 /\ fp'[u] = fp[u]
      BY <1>6, <2>2
    <3>2. /\ path[u] \in Path
          /\ path[u] \notin shared => temp[path[u]] = fp[u]
          /\ path[u] \notin shared => ~(path[u] = path[t] /\ fp[t] # 0)
      BY <1>1, <3>1 DEF Opened
    <3> QED  BY <1>6, <3>1, <3>2
  <2>3. ASSUME NEW u \in Task, NEW v \in Task, fp'[u] # 0, fp'[v] # 0,
               path[u] = path[v], path[u] \notin shared
        PROVE  u = v
    BY <1>1, <1>6, <2>3 DEF Opened
  <2>4. ASSUME NEW u \in active \cup ToSet(request), path[u] \in Path
        PROVE  fp'[u] # 0
    <3>1. u \in Task /\ u # t
      BY <1>2, <1>9, <2>4 DEF QueueTypes, ToSet
    <3> QED  BY <1>1, <1>6, <2>4, <3>1 DEF Opened
  <2> QED  BY <1>5, <2>1, <2>2, <2>3, <2>4 DEF Opened
<1>11. Written'
  <2>1. ASSUME NEW q \in Path \ shared, ranges, temp'[q] # 0
        PROVE  Begins(content[temp'[q]])
    BY <1>1, <1>6, <2>1 DEF Written
  <2>2. ASSUME NEW u \in Task, fp'[u] # 0, path[u] \notin shared, ranges \/ u \notin resumed
        PROVE  /\ Begins(content[fp'[u]])
               /\ header[u] => Len(content[fp'[u]]) = offset[u]
               /\ ~ header[u] => u \in resumed \/ content[fp'[u]] = <<>>
    <3>1. u # t /\ fp'[u] = fp[u]
      BY <1>6, <2>2
    <3> QED  BY <1>1, <2>2, <3>1 DEF Written
  <2> QED  BY <1>5, <2>1, <2>2 DEF Written
<1>12. Received'
  <2>1. Ending' = Ending
    BY <1>5 DEF Ending
  <2>2. ASSUME NEW u \in Ending, reported'[u] = "no", ~ err'[u], path[u] \in Path
        PROVE  fp'[u] # 0 /\ header[u] /\ offset[u] >= Length
    <3>1. u \in Task
      BY <1>1, <1>2, <2>2 DEF Ending, QueueTypes, ToSet, Stages
    <3>2. u # t
      BY <1>6, <2>2
    <3> QED  BY <1>1, <1>6, <2>2, <3>1, <3>2 DEF Received
  <2> QED  BY <1>1, <1>5, <2>1, <2>2 DEF Received
<1> QED  BY <1>8, <1>10, <1>11, <1>12 DEF FileInv

LEMMA FilesStep ==
    ASSUME IInv, FileInv, [Next]_vars
    PROVE  FileInv'
BY Steps, FilesLeft, FilesReceive, FilesHeader, FilesFetch, FilesCreate, FilesDeliver

LEMMA InitFiles == Init => FileInv
<1> SUFFICES ASSUME Init PROVE FileInv
  OBVIOUS
<1>1. MaxTasks \in Nat /\ Length \in Nat \ {0} /\ 0 \notin Inode /\ 0 \notin Task
  <2>1. TypeOK
    BY InitInvariant DEF IInv
  <2> QED  BY <2>1, FileTypes
<1>2. PICK left \in [Path -> 0..Length], inode \in Bijection(Path, Inode \ Task) :
        /\ content = [f \in Inode |->
              IF f \in Task THEN <<>>
              ELSE LET p == CHOOSE q \in Path : inode[q] = f
                   IN  SubSeq(Full, 1, left[p])]
        /\ temp = [p \in Path |-> IF left[p] = 0 THEN 0 ELSE inode[p]]
  BY DEF Init
<1>3. /\ \A p \in Path : inode[p] \in Inode \ Task
      /\ \A p, q \in Path : inode[p] = inode[q] => p = q
      /\ \A f \in Inode \ Task : \E p \in Path : inode[p] = f
  BY DEF Bijection, Injection, Surjection, IsInjective
<1>4. \A i \in Inode : Names(i) = {p \in Path : temp[p] = i}
  BY <1>1 DEF Init, Names
<1>5. \A p \in Path : temp[p] \in Inode => temp[p] = inode[p] /\ temp[p] \notin Task
  BY <1>1, <1>2, <1>3
<1>6. Fresh
  <2>1. ASSUME NEW t \in Task
        PROVE  content[t] = <<>> /\ Names(t) = {}
    <3>1. t \in Inode
      BY DEF Inode
    <3>2. content[t] = <<>>
      BY <1>2, <3>1
    <3> QED  BY <1>4, <1>5, <3>1, <3>2
  <2> QED  BY <2>1 DEF Init, Fresh
<1>7. Opened
  <2>1. \A i \in Inode : \A p, q \in Names(i) : p = q
    BY <1>3, <1>4, <1>5
  <2> QED  BY <2>1, EmptySequence DEF Init, Opened
<1>8. Written
  <2>1. ASSUME NEW p \in Path, temp[p] # 0
        PROVE  Begins(content[temp[p]])
    <3> DEFINE f == temp[p]
               q == CHOOSE q \in Path : inode[q] = f
    <3>1. f \in Inode \ Task
      BY <1>2, <1>3, <2>1
    <3>2. q \in Path
      BY <1>3, <3>1
    <3>3. content[f] = SubSeq(Full, 1, left[q])
      BY <1>2, <3>1
    <3>4. left[q] \in 0..Length
      BY <3>2
    <3> HIDE DEF q, f
    <3>5. Full \in Seq(1..Length) /\ Len(Full) = Length /\ \A k \in 1..Length : Full[k] = k
      BY <1>1 DEF Full
    <3>6. Begins(SubSeq(Full, 1, left[q]))
      <4>1. PICK n \in 0..Length : n = left[q]
        BY <3>4
      <4>2. DOMAIN SubSeq(Full, 1, n) = 1..n /\ \A k \in 1..n : SubSeq(Full, 1, n)[k] = Full[k]
        BY <1>1, <3>5
      <4>3. \A k \in 1..n : k \in 1..Length
        BY <1>1
      <4>4. Begins(SubSeq(Full, 1, n))
        BY <3>5, <4>2, <4>3 DEF Begins
      <4> QED  BY <4>1, <4>4
    <3> QED  BY <3>3, <3>6 DEF f
  <2> QED  BY <2>1 DEF Init, Written
<1>9. Received
  BY EmptySequence DEF Init, Received, Ending
<1> QED  BY <1>6, <1>7, <1>8, <1>9 DEF FileInv

(* FileInv holds in every reachable state: what a transfer writes is in the*)
(* file of its task and of no other, and is the beginning of the content.  *)
THEOREM FileInvariance == Spec => []FileInv
<1>1. IInv /\ FileInv /\ [Next]_vars => FileInv'
  BY FilesStep
<1> QED  BY <1>1, InitFiles, Invariance, PTL DEF Spec

(* Only _onSchedule reports.                                               *)
LEMMA Reporting ==
    ASSUME TypeOK, [Next]_vars
    PROVE  Deliver \/ reported' = reported
<1>1. ASSUME NEW p \in Path \cup {NoPath}, CreateTask(p)
      PROVE  reported' = reported
  BY <1>1 DEF CreateTask
<1>2. ASSUME NEW t \in Task, Receive(t) \/ HeaderDone(t) \/ ContentDone(t) \/ Fail(t)
      PROVE  reported' = reported
  BY <1>2 DEF Receive, HeaderDone, ContentDone, Fail, history
<1>3. CASE \/ Run \/ Resume \/ GetFinishedTasks \/ TestStoped \/ ReturnFromCallback
           \/ EndSchedule \/ Release \/ Close \/ UNCHANGED vars
  BY <1>3 DEF Run, Resume, GetFinishedTasks, TestStoped, ReturnFromCallback, EndSchedule,
              Release, Close, vars, history
<1>4. CASE Hold \/ CheckThread \/ EndTask \/ StopPerforming \/ Fetch \/ StopFetching \/ Exit
  BY <1>4 DEF Hold, CheckThread, EndTask, StopPerforming, Fetch, StopFetching, Exit, history
<1> QED  BY <1>1, <1>2, <1>3, <1>4, Steps

(* The file a task that ended without an error has open is the content.    *)
LEMMA IntactStep ==
    ASSUME IInv, FileInv, [Next]_vars, NEW t \in Task,
           reported[t] = "no", reported'[t] = "ok",
           path[t] \in Path \ shared, ranges \/ t \notin resumed
    PROVE  content'[final'[path[t]]] = Full
<1>1. /\ TypeOK /\ Opened /\ Written /\ Received
      /\ DiskTypes /\ QueueTypes /\ Length \in Nat \ {0}
  BY FileTypes DEF IInv, FileInv
<1>2. Deliver
  BY <1>1, Reporting
<1>3. t = Head(delivering) /\ t \in ToSet(delivering)
  <2>1. reported' = [reported EXCEPT ![Head(delivering)] = IF err'[Head(delivering)]
                                                          THEN "error" ELSE "ok"]
    BY <1>2 DEF Deliver
  <2>2. t = Head(delivering)
    BY <1>1, <2>1 DEF QueueTypes
  <2> QED  BY <1>1, <1>2, <2>2, TailParts DEF Deliver, QueueTypes
<1>4. /\ ~ err'[t] /\ content' = content
      /\ IF fp[t] # 0 THEN Rename(t) ELSE UNCHANGED <<fp, final, temp, pathSet, err>>
  <2>1. ~ err'[t]
    BY <1>1, <1>2, <1>3 DEF Deliver, QueueTypes
  <2> QED  BY <1>2, <1>3, <2>1 DEF Deliver
<1>5. ~ err[t]
  <2>1. CASE fp[t] = 0
    BY <1>4, <2>1
  <2>2. CASE Rename(t)
    <3>1. err' = err \/ err' = [err EXCEPT ![t] = TRUE]
      BY <2>2 DEF Rename
    <3>2. err \in [Task -> BOOLEAN]
      BY <1>1 DEF DiskTypes
    <3> QED  BY <1>4, <3>1, <3>2
  <2> QED  BY <1>4, <2>1, <2>2
<1>6. fp[t] # 0 /\ header[t] /\ offset[t] >= Length
  BY <1>1, <1>3, <1>5 DEF Received, Ending
<1>7. final' = [final EXCEPT ![path[t]] = temp[path[t]]]
  <2>1. err' # [err EXCEPT ![t] = TRUE]
    BY <1>1, <1>4 DEF DiskTypes
  <2> QED  BY <1>4, <1>6, <2>1 DEF Rename
<1>8. final'[path[t]] = fp[t]
  BY <1>1, <1>6, <1>7 DEF DiskTypes, Opened
<1>9. fp[t] \in Inode /\ Begins(content[fp[t]]) /\ Len(content[fp[t]]) = offset[t]
  BY <1>1, <1>6 DEF DiskTypes, Written
<1>10. PICK s \in Seq(1..Length) : s = content[fp[t]]
  BY <1>1, <1>9 DEF DiskTypes
<1>11. Begins(s) /\ Len(s) \in Nat /\ Len(s) >= Length
  BY <1>1, <1>6, <1>9, <1>10
<1>12. Len(s) = Length
  <2>1. s[Len(s)] = Len(s) /\ s[Len(s)] \in 1..Length
    BY <1>1, <1>11 DEF Begins
  <2> QED  BY <1>1, <1>11, <2>1
<1>13. s = Full
  <2>1. DOMAIN s = 1..Length /\ DOMAIN Full = 1..Length
    BY <1>1, <1>12 DEF Full
  <2>2. \A k \in 1..Length : s[k] = Full[k]
    BY <1>11, <2>1 DEF Begins, Full
  <2>3. s = [k \in 1..Length |-> s[k]]
    BY <2>1
  <2> QED  BY <2>2, <2>3 DEF Full
<1> QED  BY <1>4, <1>8, <1>10, <1>13

(* A file that is reported as downloaded is what the server sent: resuming *)
(* one from an earlier run, failing and trying again and the names it has  *)
(* had do not change that.                                                 *)
THEOREM FilesAreIntact == Spec => Intact
<1>1. IInv /\ FileInv /\ [Next]_vars =>
          [\A t \in Task :
              /\ reported[t] = "no" /\ reported'[t] = "ok"
              /\ path[t] \in Path \ shared
              /\ ranges \/ t \notin resumed
              => content'[final'[path[t]]] = Full]_vars
  BY IntactStep
<1> QED  BY <1>1, FileInvariance, Invariance, PTL DEF Spec, Intact
=============================================================================
