----------------------------- MODULE Downloader -----------------------------
(***************************************************************************)
(* The curl implementation of cocos2d::network::Downloader                 *)
(* (src/cocos/network/CCDownloader-curl.cpp): the main thread creates      *)
(* tasks and, on a scheduler tick, reports those that are finished; one    *)
(* worker thread, started when there is something to do and ending when    *)
(* there is not, runs the transfers.  They share two queues, each with its *)
(* mutex, and _thread, which is joinable while a worker is attached.       *)
(*                                                                         *)
(* A download is a header request and then a content request; content is   *)
(* the units 1..Length.  A file task appends to a temporary file, which is *)
(* renamed when the task is reported.  Files are inodes with two names per *)
(* storage path, since a FILE stays on its inode when the name moves.      *)
(* Abstracted: progress reports and _processSet, which only they read.     *)
(* curl, the server and the file system are external: a transfer may       *)
(* deliver, complete or fail at any time, a file operation may fail;       *)
(* curl_multi_* itself does not.                                           *)
(***************************************************************************)
EXTENDS Integers, FiniteSets, SequencesExt

CONSTANTS
    Path,              \* storage paths
    NoPath,            \* the storage path of a data task
    Length,            \* units of content the server sends
    MaxProcessing,     \* countOfMaxProcessingTasks, 0 for no limit
    MaxTasks           \* bound: tasks created over the whole behaviour

ASSUME DownloaderAssumption ==
    /\ NoPath \notin Path
    /\ Length \in Nat \ {0}
    /\ MaxProcessing \in Nat
    /\ MaxTasks \in Nat

Task == 1..MaxTasks
Inode == Task \cup {MaxTasks + p : p \in 1..Cardinality(Path)}
Full == [i \in 1..Length |-> i]

VARIABLES
    created,           \* tasks created so far
    path,              \* _fileName of each task, or NoPath
    err,               \* _errCode of each task is not ERROR_NO_ERROR
    header,            \* _headerAchieved of each task
    offset,            \* units received, those of an earlier run included
    fp,                \* the inode each task has open, 0 if none
    pathSet,           \* _sStoragePathSet
    content,           \* the units in each inode
    temp,              \* the inode of each path's temporary file, 0 if none
    final,             \* the inode of each path's file, 0 if none
    ranges,            \* whether the server accepts ranges
    request,           \* _requestQueue
    finished,          \* _finishedQueue
    active,            \* coTaskMap
    attached,          \* _thread is joinable
    worker,            \* where the worker stands
    current,           \* the task whose end it is handling, 0 if none
    main,              \* where the main thread stands
    paused,            \* the scheduler's target is paused
    tasks,             \* the vector of _onSchedule: finished tasks
    delivering,        \* those of them not yet reported
    impl,              \* the Impl object has not been destroyed
    reported,          \* history: what was reported of each task
    destroyed,         \* history: tasks whose DownloadTaskCURL is gone
    resumed,           \* history: tasks whose temporary file was not empty
    shared             \* history: paths two tasks have had open at once

cotask == <<path, err, header, offset, fp>>
disk == <<content, temp, final, ranges>>
queues == <<request, finished>>
worked == <<active, worker, current, impl>>
mained == <<main, paused, tasks, delivering>>
history == <<reported, destroyed, resumed, shared>>
vars == <<created, cotask, pathSet, disk, queues, worked, attached, mained, history>>

(* An earlier run of the program may have left a partial temporary file.   *)
Init ==
    /\ created = 0
    /\ path = [t \in Task |-> NoPath]
    /\ err = [t \in Task |-> FALSE]
    /\ header = [t \in Task |-> FALSE]
    /\ offset = [t \in Task |-> 0]
    /\ fp = [t \in Task |-> 0]
    /\ pathSet = {}
    /\ \E left \in [Path -> 0..Length], inode \in Bijection(Path, Inode \ Task) :
          /\ content = [f \in Inode |->
                IF f \in Task THEN <<>>
                ELSE LET p == CHOOSE q \in Path : inode[q] = f
                     IN  SubSeq(Full, 1, left[p])]
          /\ temp = [p \in Path |-> IF left[p] = 0 THEN 0 ELSE inode[p]]
    /\ final = [p \in Path |-> 0]
    /\ ranges \in BOOLEAN
    /\ request = <<>>
    /\ finished = <<>>
    /\ active = {}
    /\ attached = FALSE
    /\ worker = "none"
    /\ current = 0
    /\ main = "idle"
    /\ paused = TRUE
    /\ tasks = {}
    /\ delivering = <<>>
    /\ reported = [t \in Task |-> "no"]
    /\ destroyed = {}
    /\ impl = TRUE
    /\ resumed = {}
    /\ shared = {}

-----------------------------------------------------------------------------
(* The main thread: createCoTask, between two ticks or in a callback.      *)

(* init(): a path another task writes to is refused.                       *)
Refused(p) == p \in pathSet

(* fopen(temp, "ab")                                                       *)
Open(t, p) ==
    /\ fp' = [fp EXCEPT ![t] = IF temp[p] = 0 THEN t ELSE temp[p]]
    /\ temp' = [temp EXCEPT ![p] = fp'[t]]
    /\ resumed' = IF content[fp'[t]] = <<>> THEN resumed ELSE resumed \cup {t}
    /\ shared' = IF \E u \in Task : fp[u] = fp'[t] THEN shared \cup {p} ELSE shared

(* addTask()                                                               *)
Enqueue(t, failed) ==
    IF failed
    THEN finished' = Append(finished, t) /\ UNCHANGED request
    ELSE request' = Append(request, t) /\ UNCHANGED finished

CreateTask(p) ==
    LET t == created + 1
    IN  /\ main \in {"idle", "callback"}
        /\ created < MaxTasks
        /\ created' = t
        /\ path' = [path EXCEPT ![t] = p]
        /\ \/ /\ p = NoPath
              /\ Enqueue(t, FALSE)
              /\ UNCHANGED <<err, fp, pathSet, temp, resumed, shared>>
           \/ /\ p # NoPath
              /\ Refused(p)
              /\ err' = [err EXCEPT ![t] = TRUE]
              /\ Enqueue(t, TRUE)
              /\ UNCHANGED <<fp, pathSet, temp, resumed, shared>>
           \/ /\ p # NoPath
              /\ ~ Refused(p)
              /\ pathSet' = pathSet \cup {p}
              /\ Open(t, p)
              /\ Enqueue(t, FALSE)
              /\ UNCHANGED err
           \/ /\ p # NoPath            \* the directory or the file fails
              /\ ~ Refused(p)
              /\ pathSet' = pathSet \cup {p}
              /\ err' = [err EXCEPT ![t] = TRUE]
              /\ Enqueue(t, TRUE)
              /\ UNCHANGED <<fp, temp, resumed, shared>>
        /\ main' = "run"
        /\ UNCHANGED <<header, offset, content, final, ranges, worked, attached,
                       paused, tasks, delivering, reported, destroyed>>

(* run(), under _threadMutex: a worker is started if none is attached.     *)
Run ==
    /\ main = "run"
    /\ IF attached THEN UNCHANGED <<attached, worker>>
       ELSE attached' = TRUE /\ worker' = "start"
    /\ main' = "resume"
    /\ UNCHANGED <<created, cotask, pathSet, disk, queues, active, current, impl,
                   paused, tasks, delivering, history>>

(* resumeTarget(); createCoTask returns to the game or to its callback.    *)
Resume ==
    /\ main = "resume"
    /\ paused' = FALSE
    /\ main' = IF delivering = <<>> THEN "idle" ELSE "callback"
    /\ UNCHANGED <<created, cotask, pathSet, disk, queues, worked, attached, tasks,
                   delivering, history>>

-----------------------------------------------------------------------------
(* The main thread: _onSchedule.                                           *)

GetFinishedTasks ==
    /\ main = "idle"
    /\ ~ paused
    /\ tasks' = ToSet(finished)
    /\ delivering' = finished
    /\ finished' = <<>>
    /\ main' = "stoped"
    /\ UNCHANGED <<created, cotask, pathSet, disk, request, worked, attached, paused,
                   history>>

(* Without a worker the tick is paused.                                    *)
TestStoped ==
    /\ main = "stoped"
    /\ paused' = ~ attached
    /\ main' = "deliver"
    /\ UNCHANGED <<created, cotask, pathSet, disk, queues, worked, attached, tasks,
                   delivering, history>>

(* Closing and renaming the file of t, whether or not its download failed: *)
(* the old file is removed first, and either step may fail.                *)
Rename(t) ==
    LET p == path[t]
    IN  /\ fp' = [fp EXCEPT ![t] = 0]
        /\ \/ /\ temp[p] # 0
              /\ final' = [final EXCEPT ![p] = temp[p]]
              /\ temp' = [temp EXCEPT ![p] = 0]
              /\ pathSet' = pathSet \ {p}
              /\ UNCHANGED err
           \/ /\ \/ UNCHANGED final
                 \/ final[p] # 0 /\ final' = [final EXCEPT ![p] = 0]
              /\ err' = [err EXCEPT ![t] = TRUE]
              /\ UNCHANGED <<temp, pathSet>>

(* One iteration of the loop over finished tasks, up to onTaskFinish.      *)
Deliver ==
    /\ main = "deliver"
    /\ delivering # <<>>
    /\ LET t == Head(delivering)
       IN  /\ IF fp[t] # 0 THEN Rename(t)
              ELSE UNCHANGED <<fp, final, temp, pathSet, err>>
           /\ reported' = [reported EXCEPT ![t] = IF err'[t] THEN "error" ELSE "ok"]
    /\ main' = "callback"
    /\ UNCHANGED <<created, path, header, offset, content, ranges, queues, worked,
                   attached, paused, tasks, delivering, destroyed, resumed, shared>>

ReturnFromCallback ==
    /\ main = "callback"
    /\ delivering' = Tail(delivering)
    /\ main' = "deliver"
    /\ UNCHANGED <<created, cotask, pathSet, disk, queues, worked, attached, paused,
                   tasks, history>>

(* Mutant: the destructor leaves the path set alone.                       *)
DestroyOnly(S) ==
    /\ destroyed' = destroyed \cup S
    /\ UNCHANGED pathSet

(* ~DownloadTaskCURL for the tasks of S: "if task destroyed unnormally" its*)
(* path is released, if it is in the set.                                  *)
Destroy(S) ==
    /\ destroyed' = destroyed \cup S
    /\ pathSet' = pathSet \ {path[t] : t \in S}

(* The vector goes out of scope: the tasks the game has no reference to    *)
(* are destroyed.                                                          *)
EndSchedule ==
    /\ main = "deliver"
    /\ delivering = <<>>
    /\ \E S \in SUBSET tasks : Destroy(S)
    /\ tasks' = {}
    /\ main' = "idle"
    /\ UNCHANGED <<created, cotask, disk, queues, worked, attached, paused,
                   delivering, reported, resumed, shared>>

(* The game drops its reference to a task already reported.                *)
Release ==
    /\ main = "idle"
    /\ \E t \in Task \ destroyed : reported[t] # "no" /\ Destroy({t})
    /\ UNCHANGED <<created, cotask, disk, queues, worked, attached, mained, reported,
                   resumed, shared>>

(* ~DownloaderCURL: the tick is unscheduled, the worker detached, and with *)
(* it goes the last reference to the Impl but that of a worker.            *)
Close ==
    /\ main = "idle"
    /\ attached' = FALSE
    /\ impl' = (worker \notin {"none", "start"})
    /\ main' = "closed"
    /\ UNCHANGED <<created, cotask, pathSet, disk, queues, active, worker, current,
                   paused, tasks, delivering, history>>

-----------------------------------------------------------------------------
(* The worker: _threadProc.                                                *)

(* The worker takes its own reference to the Impl: undefined if that has   *)
(* been destroyed.                                                         *)
Hold ==
    /\ worker = "start"
    /\ impl
    /\ worker' = "check"
    /\ UNCHANGED <<created, cotask, pathSet, disk, queues, active, current, attached,
                   impl, mained, history>>

CheckThread ==
    /\ worker = "check"
    /\ worker' = IF attached THEN "perform" ELSE "exit"
    /\ UNCHANGED <<created, cotask, pathSet, disk, queues, active, current, attached,
                   impl, mained, history>>

(* Within curl_multi_perform a unit of content arrives: writeDataProc.     *)
Receive(t) ==
    /\ worker = "perform"
    /\ t \in active
    /\ header[t]
    /\ offset[t] < Length
    /\ offset' = [offset EXCEPT ![t] = @ + 1]
    /\ content' = IF fp[t] = 0 THEN content
                  ELSE [content EXCEPT ![fp[t]] = Append(@, offset'[t])]
    /\ UNCHANGED <<created, path, err, header, fp, pathSet, temp, final, ranges, queues,
                   worked, attached, mained, history>>

(* Mutant: content is asked for from the start although a part is there.   *)
ResumeFromStart(t) == 0

(* Where the content request of t starts: after what the temporary file    *)
(* holds, if the server accepts ranges.                                    *)
ResumeFrom(t) ==
    IF ranges /\ path[t] # NoPath /\ temp[path[t]] # 0
    THEN Len(content[temp[path[t]]]) ELSE 0

(* curl reports that the header request of t has succeeded.  A code other  *)
(* than 200 is an error, which the download then goes on with.             *)
HeaderDone(t) ==
    /\ worker = "perform"
    /\ t \in active
    /\ ~ header[t]
    /\ header' = [header EXCEPT ![t] = TRUE]
    /\ offset' = [offset EXCEPT ![t] = ResumeFrom(t)]
    /\ \E code200 \in BOOLEAN : err' = [err EXCEPT ![t] = @ \/ ~ code200]
    /\ IF offset'[t] = Length
       THEN current' = t /\ worker' = "ended"
       ELSE UNCHANGED <<current, worker>>
    /\ UNCHANGED <<created, path, fp, pathSet, disk, queues, active, attached, impl,
                   mained, history>>

(* curl reports that the content request of t has succeeded.               *)
ContentDone(t) ==
    /\ worker = "perform"
    /\ t \in active
    /\ header[t]
    /\ offset[t] >= Length
    /\ current' = t
    /\ worker' = "ended"
    /\ UNCHANGED <<created, cotask, pathSet, disk, queues, active, attached, impl,
                   mained, history>>

(* curl reports that a request of t has failed.                            *)
Fail(t) ==
    /\ worker = "perform"
    /\ t \in active
    /\ err' = [err EXCEPT ![t] = TRUE]
    /\ current' = t
    /\ worker' = "ended"
    /\ UNCHANGED <<created, path, header, offset, fp, pathSet, disk, queues, active,
                   attached, impl, mained, history>>

(* Mutant: a task that is finished stays among the transfers.              *)
EndTaskStill ==
    /\ worker = "ended"
    /\ finished' = Append(finished, current)
    /\ current' = 0
    /\ worker' = "perform"
    /\ UNCHANGED <<created, cotask, pathSet, disk, request, active, attached, impl,
                   mained, history>>

EndTask ==
    /\ worker = "ended"
    /\ active' = active \ {current}
    /\ finished' = Append(finished, current)
    /\ current' = 0
    /\ worker' = "perform"
    /\ UNCHANGED <<created, cotask, pathSet, disk, request, attached, impl, mained,
                   history>>

(* Mutant: the loop ends with transfers under way.                         *)
ExitAnyway(A) == worker' = IF A # {} THEN "exit" ELSE "check"

(* while (coTaskMap.size())                                                *)
LoopOrExit(A) == worker' = IF A = {} THEN "exit" ELSE "check"

(* No more messages.  The number of transfers is compared with the limit   *)
(* once, before the loop that takes requests.                              *)
StopPerforming ==
    /\ worker = "perform"
    /\ IF MaxProcessing = 0 \/ Cardinality(active) < MaxProcessing
       THEN worker' = "fetch" ELSE LoopOrExit(active)
    /\ UNCHANGED <<created, cotask, pathSet, disk, queues, active, current, attached,
                   impl, mained, history>>

(* One iteration of that loop; the curl handle may fail.                   *)
Fetch ==
    /\ worker = "fetch"
    /\ request # <<>>
    /\ LET t == Head(request)
       IN  /\ request' = Tail(request)
           /\ header' = [header EXCEPT ![t] = FALSE]
           /\ offset' = [offset EXCEPT ![t] = 0]
           /\ \/ /\ active' = active \cup {t}
                 /\ err' = [err EXCEPT ![t] = FALSE]
                 /\ UNCHANGED finished
              \/ /\ finished' = Append(finished, t)
                 /\ err' = [err EXCEPT ![t] = TRUE]
                 /\ UNCHANGED active
    /\ UNCHANGED <<created, path, fp, pathSet, disk, worker, current, attached, impl,
                   mained, history>>

StopFetching ==
    /\ worker = "fetch"
    /\ request = <<>>
    /\ LoopOrExit(active)
    /\ UNCHANGED <<created, cotask, pathSet, disk, queues, active, current, attached,
                   impl, mained, history>>

(* stop(), the last thing a worker does before it gives up its reference   *)
(* to the Impl.                                                            *)
Exit ==
    /\ worker = "exit"
    /\ attached' = FALSE
    /\ worker' = "none"
    /\ active' = {}
    /\ UNCHANGED <<created, cotask, pathSet, disk, queues, current, impl, mained,
                   history>>

-----------------------------------------------------------------------------
Create == \E p \in Path \cup {NoPath} : CreateTask(p)

(* What the main thread does within a call, and on every tick.             *)
Main ==
    \/ Run \/ Resume
    \/ GetFinishedTasks \/ TestStoped \/ Deliver \/ ReturnFromCallback \/ EndSchedule

Worker ==
    \/ Hold \/ CheckThread \/ EndTask \/ StopPerforming \/ Fetch \/ StopFetching \/ Exit
    \/ \E t \in Task : Receive(t) \/ HeaderDone(t) \/ ContentDone(t) \/ Fail(t)

Next == Main \/ Worker \/ Create \/ Release \/ Close

Spec == Init /\ [][Next]_vars

(* Both threads are scheduled, the scheduler ticks, callbacks return, and  *)
(* every request to the server ends: one below LOW_SPEED_LIMIT for         *)
(* LOW_SPEED_TIME fails.                                                   *)
FairSpec ==
    /\ Spec
    /\ WF_vars(Main)
    /\ WF_vars(Worker)
    /\ \A t \in Task : SF_vars(HeaderDone(t) \/ ContentDone(t) \/ Fail(t))

-----------------------------------------------------------------------------
(* Properties.                                                             *)

(* The values each variable ranges over.                                   *)
TypeOK ==
    /\ created \in 0..MaxTasks
    /\ path \in [Task -> Path \cup {NoPath}]
    /\ err \in [Task -> BOOLEAN]
    /\ header \in [Task -> BOOLEAN]
    /\ offset \in [Task -> Nat]
    /\ fp \in [Task -> Inode \cup {0}]
    /\ pathSet \subseteq Path
    /\ content \in [Inode -> Seq(1..Length)]
    /\ temp \in [Path -> Inode \cup {0}]
    /\ final \in [Path -> Inode \cup {0}]
    /\ ranges \in BOOLEAN
    /\ request \in Seq(Task) /\ Len(request) <= MaxTasks
    /\ finished \in Seq(Task) /\ Len(finished) <= MaxTasks
    /\ active \subseteq Task
    /\ attached \in BOOLEAN
    /\ worker \in {"none", "start", "check", "perform", "ended", "fetch", "exit"}
    /\ current \in Task \cup {0}
    /\ main \in {"idle", "run", "resume", "stoped", "deliver", "callback", "closed"}
    /\ paused \in BOOLEAN
    /\ tasks \subseteq Task
    /\ delivering \in Seq(Task)
    /\ reported \in [Task -> {"no", "ok", "error"}]
    /\ destroyed \subseteq Task
    /\ impl \in BOOLEAN
    /\ resumed \subseteq Task
    /\ shared \subseteq Path

(* How often t is in the queues, among the transfers or about to be        *)
(* reported.                                                               *)
Places(t) ==
    LET In(s) == Cardinality({i \in DOMAIN s : s[i] = t})
    IN  In(request) + In(finished) + In(delivering) + Cardinality(active \cap {t})

(* A task that is not yet reported is in exactly one of the containers     *)
(* through which the threads hand it on, so it is neither lost nor         *)
(* reported twice; one that has been reported is in none, but for the one  *)
(* whose callback runs.  (A Downloader that is closed drops its tasks.)    *)
HeldOnce ==
    main # "closed" =>
        \A t \in 1..created :
            Places(t) = IF reported[t] = "no" \/ (main # "deliver" /\ delivering # <<>>
                                                 /\ Head(delivering) = t)
                        THEN 1 ELSE 0

(* A file reported as downloaded has the content the server sent, even if  *)
(* a part of it was there from an earlier run or attempt -- unless two     *)
(* tasks wrote to the path at once, after the destructor of a refused task *)
(* had released the path of the one that was not, or the part was there and*)
(* the server does not accept ranges: then the whole content is appended to*)
(* the part.                                                               *)
Intact ==
    [][\A t \in Task :
          /\ reported[t] = "no" /\ reported'[t] = "ok"
          /\ path[t] \in Path \ shared
          /\ ranges \/ t \notin resumed
          => content'[final'[path[t]]] = Full]_vars

(* A storage path is not blocked for ever: it is in the set only while a   *)
(* task for it exists, however its download, removal and renaming went.    *)
PathsReleased ==
    \A p \in pathSet : \E t \in 1..created : path[t] = p /\ t \notin destroyed

(* What makes these inductive.                                             *)

Held == ToSet(request) \cup ToSet(finished) \cup ToSet(delivering) \cup active

(* No container has a task twice, no two have the same one.                *)
Apart ==
    /\ IsInjective(request) /\ IsInjective(finished) /\ IsInjective(delivering)
    /\ ToSet(request) \cap ToSet(finished) = {}
    /\ ToSet(delivering) \cap (ToSet(request) \cup ToSet(finished)) = {}
    /\ active \cap (ToSet(request) \cup ToSet(finished) \cup ToSet(delivering)) = {}

(* Together they have the tasks that are not reported, and the one that    *)
(* has just been, while its callback runs.                                 *)
InCallback == IF main \in {"callback", "run", "resume"} /\ delivering # <<>>
              THEN {Head(delivering)} ELSE {}
AllHeld ==
    main # "closed" =>
        /\ \A t \in InCallback : reported[t] # "no"
        /\ Held = {t \in 1..created : reported[t] = "no"} \cup InCallback

(* They, and what is kept about the past, are about tasks created.         *)
Known ==
    /\ Held \subseteq 1..created
    /\ tasks \subseteq 1..created
    /\ destroyed \subseteq 1..created
    /\ {t \in Task : reported[t] # "no"} \subseteq 1..created

(* Where the threads stand tells of the containers and of _thread.         *)
Stages ==
    /\ main = "idle" => delivering = <<>>
    /\ main = "callback" => delivering # <<>>
    /\ worker = "ended" => current \in active
    /\ main # "closed" => /\ attached <=> worker # "none"
                          /\ worker = "exit" => active = {}

IInv == TypeOK /\ Apart /\ AllHeld /\ Known /\ Stages /\ PathsReleased

(* What is behind Intact, with it.                                         *)

(* The paths by which an inode is reached.                                 *)
Names(i) == {p \in Path : temp[p] = i} \cup {path[t] : t \in {u \in Task : fp[u] = i}}

(* A task to come has no file and no content yet.                          *)
Fresh ==
    \A t \in Task : t > created =>
        fp[t] = 0 /\ ~ header[t] /\ content[t] = <<>> /\ Names(t) = {}

(* Who has a file open has that of its path, alone unless it is shared; and*)
(* who may still be given content has it open.                             *)
Opened ==
    /\ \A i \in Inode : \A p, q \in Names(i) : p = q
    /\ \A t \in Task : fp[t] # 0 =>
           /\ path[t] \in Path
           /\ path[t] \notin shared => temp[path[t]] = fp[t]
    /\ \A t, u \in Task :
           fp[t] # 0 /\ fp[u] # 0 /\ path[t] = path[u] /\ path[t] \notin shared => t = u
    /\ \A t \in active \cup ToSet(request) : path[t] \in Path => fp[t] # 0

(* The first units of what the server sends.                               *)
Begins(s) == \A k \in DOMAIN s : s[k] = k

(* That is what a file has, as much as the task has received once it asked *)
(* for content.  Without ranges it must have begun empty.                  *)
Written ==
    /\ \A p \in Path \ shared : ranges /\ temp[p] # 0 => Begins(content[temp[p]])
    /\ \A t \in Task : fp[t] # 0 /\ path[t] \notin shared /\ (ranges \/ t \notin resumed) =>
           /\ Begins(content[fp[t]])
           /\ header[t] => Len(content[fp[t]]) = offset[t]
           /\ ~ header[t] => t \in resumed \/ content[fp[t]] = <<>>

(* Who ends without an error has received everything.                      *)
Ending == ToSet(finished) \cup ToSet(delivering)
          \cup (IF worker = "ended" THEN {current} ELSE {})
Received ==
    /\ \A t \in ToSet(request) : ~ header[t]
    /\ \A t \in Ending : reported[t] = "no" /\ ~ err[t] /\ path[t] \in Path =>
           fp[t] # 0 /\ header[t] /\ offset[t] >= Length

FileInv == Fresh /\ Opened /\ Written /\ Received

(* The worker has ended leaving a request behind (run() found it attached  *)
(* when it had already found the queue empty), or left a finished task     *)
(* behind a paused tick (it ended between getFinishedTasks and stoped).    *)
(* Only the next createCoTask changes that.                                *)
Stranded ==
    /\ main = "idle"
    /\ ~ attached
    /\ request # <<>> \/ (finished # <<>> /\ paused)

(* Every task is reported, unless the Downloader is closed or the task is  *)
(* stranded: no other interleaving of ticks, callbacks, requests and ends  *)
(* of the worker leaves the game waiting.                                  *)
Reported ==
    \A t \in Task :
        t <= created ~> reported[t] # "no" \/ main = "closed" \/ Stranded
=============================================================================
