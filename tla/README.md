# A TLA+ model of the cocos-native engine core

This directory holds TLA+ specifications of parts of cocos-native (the native
runtime of a JavaScript game engine, C++ under `src/cocos` and
`src/extensions`), the TLC configurations that check them on small instances,
and theorems that TLAPS proves for every value of the constants.
`PROJECT.json` lists the runs, the source lines behind every definition, the
mutants each property was tried against, the hazards and the findings.

## 1. Inventory

The engine is one main thread that runs frames, and a few helper threads that
hand results back to it. Everything the script sees happens on the main thread,
most of it from callbacks that may call back into the component that is calling
them.

| component | state it keeps | operations | who it talks to | what is hard, and what makes it correct |
|---|---|---|---|---|
| Scheduler (`base/CCScheduler`) | a hash of targets, per target an array of reference-counted timers, the cursor of the frame in progress, a vector of posted functions with a mutex | schedule, unschedule (one, of a target, all), pause, resume, update(dt), perform/remove functions in the main thread | called by everybody; calls callbacks; other threads post to it | callbacks change arrays and hash under the two loops that walk them; functions are posted without stopping the frame. No freed object is used, none leaks, no timer is skipped or updated twice, finite repeats are honoured, every posted function runs once and in order |
| ThreadPool (`base/CCThreadPool`) | task queue with a mutex, condition variable with another, per-slot idle, abort and inited flags, counters | push, stop all or by type, shrink, stretch, destroy | worker threads it starts and joins | flags read without locks, notification and sleep under different mutexes. No lost wake-up, no join that waits for ever, exact counts, never below the minimum, the destructor runs what is queued |
| Downloader, curl (`network/CCDownloader-curl`) | request and finished queues, the worker's map of transfers, temporary files, a static set of storage paths, the state of the worker thread | create a task; tick: collect, rename, report; worker: header, content, retry from a part | Scheduler ticks it; callbacks create tasks or destroy it; curl, file system | the worker starts and ends by itself; three containers with three mutexes; a part left by an earlier run. A task is in one place, is reported once, its file is whole, its path is released |
| AssetsManagerEx, Manifest (`extensions/assets-manager`) | local, temporary and remote manifest, state of the update, queue of downloads, what is on disk | check for update, update, resume, retry failed assets, verify, decompress, merge | Downloader, AsyncTaskPool, FileUtils, a listener | the listener is called in the middle of functions and may call any other; downloads fail, are retried and resumed; the process may die anywhere. An update that reports success has every file of its version, the next start finds that version, counters do not drift, a saved manifest can be trusted, an update ends |
| AsyncTaskPool (`extensions/assets-manager`) | a thread per type of task, each with a queue of tasks, a queue of their callbacks and a stop flag | enqueue, stopTasks, destroy | posts callbacks to the Scheduler | two queues that must stay in step; tasks dropped with their callbacks while one runs; its callback posted after the pool is gone. Callbacks belong to tasks that ran, in order; every task is answered or dropped by a call |
| HttpClient (`network`) | request and response queues with a mutex each, thread count, pointer to the Scheduler, the instance | send, sendImmediate, destroyInstance | a network thread, one thread per immediate request, all detached; the Scheduler | deletion by whoever counts down to zero, a function per response, counts that are no atomics. Counts are exact, callbacks come in order, a request is answered, a destroyed client goes |
| WebSocket (`network`, libwebsockets; owners in `scripting/js-bindings`) | ready state, close state, list of instances, one list of messages, reference counts | open, send, close, closeAsync, collection by the script engine | a network thread for all sockets, the Scheduler | three ways to close and a handshake without a predicate; deletion while the other thread looks for the socket. onClose comes once and last, nobody releases twice, the thread works for sockets that exist, messages arrive whole and in order |
| SocketIO (`network`) | clients per endpoint, packets | connect, emit, disconnect | WebSocket, HttpClient | ordering of handshake and messages |
| AutoreleasePool, Ref (`base`) | reference counts, a stack of pools | autorelease, clear at the end of a frame | everybody | nobody releases twice: a property of each owner, stated where the owner is modelled |
| EventDispatcher (`scripting/js-bindings/event`) | lists of listeners per event | add, remove, remove all, dispatch | platform layers, listeners | listeners that change the list being walked |
| AudioEngine (`audio`) | maps of playing sounds | play, stop, uncache | platform players on their threads | maps changed under callbacks |
| LocalStorage, Uri, containers, encodings, FileUtils, platform layers, renderer, bindings, widgets | | | | data and input/output; see PROJECT.json for why they are not modelled |

## 2. Plan

Order: what everything else rests on first.

1. `Scheduler`, `MainThreadQueue`, with proofs -- **done**.
2. `ThreadPool`, `TaskPool`, with proofs of the safety properties and of the
   refinement -- **done**.
3. `Downloader`, with proofs of `HeldOnce`, `PathsReleased` and `Intact` --
   **done**.
4. `Manifest`, `AssetsManager`, with proofs of all safety properties -- **done**;
   the composition with an abstract Downloader is wanted.
5. `HttpClient`, with proofs of `CountExact`, `RefsExact` and `AnsweredInOrder` --
   **done**.
6. `WebSocket` with its owners -- **done**, with proofs of who owns what and of the
   order of callbacks and messages.
7. `AsyncTaskPool`, with a proof of `CallbacksOfTasks` -- **done**.
8. Left: `EventDispatcher` (listeners that change the list under the dispatch);
   `SocketIO` over `WebSocket`; `AssetsManager` over the modules of Downloader and
   AsyncTaskPool instead of the sets it has for them.

Modules meant for proofs declare no recursive operator, name the assumptions of
their constants and have one action per operation.

## 3. Modules and code

### Scheduler

`Scheduler.tla` is one main thread that runs `Scheduler::update(dt)`, with `pc`
for where it stands, and the whole interface as `Call`, taken between frames
(`pc = "idle"`), inside a timer's callback (`"delay"`, `"interval"`: the two
places where `Timer::update` triggers) or inside a posted function
(`"function"`). `Post` and `RemoveAllFunctions` belong to any thread and may be
taken at any moment.

| model | code |
|---|---|
| `hash`, `element` | `_hashForTimers` and its `tHashTimerEntry` records |
| `timer`, `refs` | `TimerTargetCallback` objects by address, and their reference counts |
| `currentTarget`, `currentTargetSalvaged` | `_currentTarget` (and `elt`), `_currentTargetSalvaged` |
| `BeginFrame` ... `EndTimers` | the loops of `Scheduler::update` |
| `BeginTimer`, `ReturnFromDelay`, `ReturnFromInterval`, `Cancel` | `Timer::update`, cut at each call of a callback |
| `ScheduleAgain`, `ScheduleNew`, `Unschedule...`, `PauseTarget`, ... | the methods of the same names |
| `pending`, `batch`, `running` | `_functionsToPerform`, the local copy, the function being run |
| `due`, `owed`, `dropped` | history: what the current visit and frame still have to do, what was removed |

Time is counted in whole ticks. `timerIndex` counts from 1. A freed object has
the value `Freed`; its address may be used again. Destructors of what callbacks
capture are not modelled.

`MainThreadQueue.tla` is what `performFunctionInCocosThread` promises: one queue
of functions, run one at a time in order. The main thread takes on what is queued
(`Take`) and runs it before it takes on more; a function leaves the queue only by
running or by `Remove`, the call of
`removeAllFunctionsToBePerformedInCocosThread`, which removes all that were not
taken on and no others, and records them in `removed`. `Scheduler` implements it
with `queue <- batch \o pending`, `taken <- Len(batch)` and `removed <- dropped`, and
`dropped` changes in the action of that call only: a function lost by the swap
would be a step that the queue does not have.

### ThreadPool

`ThreadPool.tla` has one owner (the main thread, `main`) and a worker per slot
(`worker[i]`). `"blocked"` and `"notified"` are the two halves of
`condition_variable::wait`, whose mutex is `mutex`; the task queue has its own
and is used in single steps. `Lock`, `FlagIdle`, `Wake`, `Unflag`, `Unlock` are
the lines of the lambda in `setThread`; `PushTask`, `TestEmpty`, `Push`,
`NotifyOne` those of `pushTask`; `Scan`, `NotifyAll`, `Join`, `Shrunk` those of
`tryShrinkPool`, where the flags are read one at a time. Spurious wake-ups are
possible and never relied on. The clock of the shrink interval is abstracted to
a choice. A pool is fixed or cached from its creation on; the setters of the
steps are constants.

`TaskPool.tla` is the pool as its owner sees it: sets of waiting and of running
tasks, those that ran to their end (`ran`), and the types the call in progress
stops (`stopping`). A waiting task starts, or is removed by `StopTask`, for which
`stopAllTasks` or `stopTasksByType` must have been called with its type and not yet
returned (`BeginStop`, `EndStop`); a running one ends by `Finish`, which records it in
`ran`; the destructor stops none. The refinement maps `waiting` to the queue and what
`stopTasksByType` has set aside, and `ran` to the tasks whose call has returned, so that
a task which a thread takes and throws away is a step the pool does not have.

### Downloader

`Downloader.tla` has the main thread (`main`: creating a task and the tick
`_onSchedule`, with the callback in which tasks may be created and the
Downloader destroyed) and the worker `_threadProc` (`worker`), which starts and
ends by itself. `request`, `active`, `finished`, `delivering` are the containers
a task goes through; `attached` is `_thread.joinable()`. Content is the units
`1..Length`; files are inodes, because a `FILE*` stays on its inode when the name
moves. The server may or may not accept ranges, the code of the header request
may be other than 200, every request may fail at any time, and an earlier run
may have left a part in the temporary file. Abstracted: progress reports and
`_processSet`, the content of data tasks; `curl_multi_*` itself does not fail.

### Manifest and AssetsManager

`Manifest.tla` has the operators on manifests: what a version's manifest lists
(`Content`, a constant, stands for the md5 of each asset in each version), the
difference of two, the download states, the `updating` flag in its two copies
(the member, and the entry of the JSON that `saveToFile` writes), and what
parsing leaves of an object that held another manifest. `clear()` keeps the
member `_updating`, which is then assigned only when the file has the entry
(`Flagged`). A file of no bytes clears the object but not its `_json`, and what it
parsed before is loaded again (`Reload`).

`AssetsManager.tla` is the hot update. All of it runs in the main thread, so what
interleaves is not threads but functions: `dispatchUpdateEvent` calls the
listener in the middle of one, and the listener may call the interface again.
`stack` holds what is still to run. A function that dispatches an event is two
actions, the second of which is a frame under the one of the listener:

| model | code |
|---|---|
| `state`, `entry` | `_updateState`, `_updateEntry` |
| `local`, `remote`, `temp`, `alias` | the three manifests; `alias` when `_tempManifest` is `_remoteManifest` |
| `units`, `failed`, `queue`, `wait`, `curr` | `_downloadUnits`, `_failedUnits`, `_queue`, `_totalWaitToDownload`, `_currConcurrentTask` |
| `transfers`, `unzip` | what Downloader and AsyncTaskPool have not reported yet |
| `storage`, `cached`, `tempFiles`, `tempFile`, `tempRenamed` | the disk: storage path and its manifest, temporary path, its manifest before and after the renaming |
| `CheckUpdate`, `Update...`, `CallPrepareUpdate`, `DownloadFailedAssets` | the interface |
| `VersionSuccess` ... `ManifestFound` | `onSuccess`, `onError`, `parseVersion`, `parseManifest` up to their events, and what follows those; `ManifestEmpty` and the second choice of `VersionSuccess` are files of no bytes |
| `PrepareResume`, `PrepareFresh` | the two branches of `prepareUpdate` |
| `FileSuccess`, `FileDone`, `FileError`, `FileFailed` | `fileSuccess` and `fileError` before and after their events |
| `UpdateSucceed`, `MergeManifest`, `MergeFile`, `SwapManifests` | `updateSucceed`, file by file |
| `Restart` | the process dies anywhere, and `loadLocalManifest`, `initManifests` |
| `incidents`, `touched`, `freed` | history: what happened that the properties have to name; the stored files that an update replaced or removed while the cached manifest is still the old one |

What is left out: byte counts, percentages and search paths, manifests given as
objects (`loadLocalManifest(Manifest*)`, `loadRemoteManifest`), manifests without
URLs, `destroyDownloadedVersion`. The moments at which
`queueDowload` saves the manifest depend on a percentage; here it may save
whenever one file has succeeded. Removing a directory is one step. A file that
is not what any version has under its name (a part, an archive, one that was
rejected, none) is `Bad`.

What is assumed of the environment, and what the code does without it:

* `prepareUpdate()` is called by the application only when a manifest was read.
  With a version file only, the code finds every local asset deleted and removes
  it (lines 864-882).
* `downloadFailedAssets()` is called when the update has failed. In other states
  the code starts it as well: after a success `_remoteManifest` is null (line
  1106), and during a check the state is overwritten.
* The server keeps the package of each version and does not go back to an older
  one. What a version holds is free: an asset may return to an earlier content, or
  be dropped and come again.

### HttpClient

`HttpClient.tla` has the main thread (`main`, `callback`), the network thread of
each client (`net[c]`) and the thread of each immediate request (`alone[r]`).
Several clients exist because `destroyInstance` only gives up its own count and
`getInstance` may make another one while threads of the first still run.

| model | code |
|---|---|
| `object`, `threadCount`, `scheduler` | the client's memory, `_threadCount`, whether `_scheduler` is set |
| `Send`, `NotifySent`; `SendImmediate` | `send`, cut at the notification; `sendImmediate` |
| `DestroyInstance` ... `LeaveClient` | `destroyInstance`, statement by statement |
| `CountNetworkThread` ... `LeaveNetworkThread` | `networkThread` |
| `CountAlone`, `PostAlone`, `LeaveAlone` | `networkThreadAlone` |
| `Dispatch`, `CallBackAlone`, `Return` | `dispatchResponseCallbacks` and the function of an immediate request, up to the callback and after it |
| `refs`, `register` | `Ref::_referenceCount`, and what a thread has read of it: a change that may race is a load and a store |
| `Early` | requests the sender releases right after `send`, as SocketIO.cpp:440 and jsb_global.cpp:817 do; the others are released when they are answered |

A request is sent once and stands for its response too. The transfer is left out:
it fills in the response whether it fails or not. A thread or a function that
finds its client deleted is undefined in the code: those actions are not enabled
and nothing is said of what follows.

### WebSocket

`WebSocket.tla` has the main thread (`main`, with the socket it is `closing`) and
the network thread (`net`, with the socket and the callback of libwebsockets it
works for, `event` and `reason`). libwebsockets is external: `wsi` is what it has
of a socket, and it may open, fail, receive and close in any order that its
states allow. Owners are modelled, because lifetimes depend on them: a socket of
the bindings (`Script`) has two references, one for its JavaScript object and
one until onClose, and is kept from collection (`attached`) while it closes; one
of C++ code (SocketIO) has one, until onClose.

| model | code |
|---|---|
| `object`, `refs`, `listed` | the object, its count, `__websocketInstances` |
| `readyState`, `closeState`, `messages` | `_readyState`, `_closeState`, `_subThreadWsMessageQueue` |
| `New`, `Send` | the constructor with `init`; `send` |
| `CloseAsync`, `StoreAsync`, `EndCloseAsync` | `closeAsync` as the bindings call it, cut after its test of `_closeState`, after the assignment and at its lock |
| `Close`, `StoreSync`, `LockReadyState`, `BeginWait`, `EndWait`, `OnCloseAfterWait` | `close`, cut after its test, after the assignment, at its locks and its wait |
| `Delete`, `Join` | `~WebSocketImpl`, up to and after the join of the last one |
| `Finalize`, `ClearPool` | `WebSocket_finalize`, and the release by the autorelease pool |
| `OpenConnection` | `onClientOpenConnectionRequest` |
| `Service`, `Handle` | `lws_service` up to the lookup in the list, and the handler of the callback |
| `OnConnectionClosed`, `Handshake`, `PostClosed` | `onConnectionClosed`: its branches, a turn of the loop that notifies `close()`, the function it posts |
| `WritePiece`, `LoseWrite`, `StoreAsyncInThread`, `EndCloseAsyncInThread` | `onClientWritable`; after a write that failed it calls `closeAsync` on the network thread, between any two steps of the main thread |
| `heard`, `wire`, `synced` | history: callbacks of the delegate, pieces written, sockets on which `close` went past its test |

Left out: `closeAllConnections`, an `init` that fails (its destructor then uses a
helper that was never made), protocols, certificates; an address is not used
again for another socket.

### AsyncTaskPool

`AsyncTaskPool.tla` has the main thread, which gets, uses and destroys the pool,
and the thread of each type: `Wait`, `End`, `Take`, `Run`, `Post` are the lines of
the lambda in the constructor of `ThreadTasks`; `Enqueue` and `NotifyOne`,
`StopThread`, `NotifyAll` and `Join` are `enqueue` and the destructor cut where the
mutex is given up. Tasks are numbered as they are enqueued and their callback has
the same number, so that `tasks` and `taskCallBacks`, which the code changes in
separate statements, can be compared.

## 4. Runs

| run | shows | bounds |
|---|---|---|
| `Scheduler_targets` | memory safety, counts, the hash, no timer skipped or repeated, all targets visited | 2 targets, 3 keys, 4 Timer addresses, 2 calls per callback |
| `Scheduler_live` | repeat counts with and without a delay, posted functions, refinement of `MainThreadQueue`, frames end | 2 targets, 1 key, 2 addresses, intervals, delays and repeats 0 and 1, frames of 2 ticks, 2 posts, 1 call per callback |
| `ThreadPool` | exact counts, the minimum, refinement of `TaskPool`, progress | 1 to 3 threads, 2 tasks of 2 types, steps of 2 |
| `ThreadPool_requeued` | the task put back that nobody is told of | 1 to 2 threads, steps of 1 |
| `Downloader` | one place per task, paths, content, progress | 2 tasks, 1 path, 2 units, 1 transfer at a time |
| `AssetsManager` | complete updates, exact counters, resumption, the end of every update | 3 versions, 2 assets (1 archive), 1 download at a time, listeners call while the stack has at most 2 frames |
| `AssetsManager_resumed` | what a comment says and the code does not do | the same |
| `HttpClient` | exact counts of threads and references, order of callbacks, every request answered, a destroyed client deleted | 2 clients, 2 requests, one of them released early |
| `WebSocket` | order of callbacks, references, the life of the thread, sockets in use, messages whole | 2 sockets, one of the bindings, 2 messages of 2 pieces |
| `WebSocket_live` | closing sockets hear onClose, the last destructor returns | 2 sockets, 1 message of 1 piece |
| `WebSocket_close` | what the header says of `close` and the code does not do | 1 socket |
| `AsyncTaskPool` | callbacks of tasks that ran, in order; every task answered or dropped | 2 types, 4 tasks |

Why the bounds are enough. Removing one element of an array under a cursor is
different before, at and behind the cursor, so three timers of one target are
wanted, and a fourth address so that an object can be scheduled while another is
salvaged; two targets give a current one and another. Two calls in a callback
(`Scheduler_targets`) give every pair "undo and redo". A frame of two ticks over an
interval of one triggers a timer twice in a frame. In `Scheduler_live` a timer without
a delay, or one that repeats once, is used up in the loop of `Timer::update`
(CCScheduler.cpp:126), one with a delay and no repeat before it (line 111), and a
timer of interval 0 goes through the loop once a frame. In the pool, three threads over a minimum of
one let two be told to go at once; two tasks are the smallest number for which a
notification can go to a thread that finds the task taken. In the Downloader two
tasks of one path give a refused and an accepted one; with the limit of one
transfer a request has to wait for a later round of the worker's loop.
In `AssetsManager` three versions let one be installed, one be downloading and one
appear meanwhile. One asset changes in the second and is in the third as it was in
the first, so that an update may find nothing to download; the other, an archive, is
added and dropped again. With two assets and one download at a time one has to wait in the queue.
A listener that calls with two frames on the stack calls from within the
function that a callback runs; deeper calls repeat these, since a listener's own
calls are again an event and a rest.
In `HttpClient` two requests are one behind another in a queue, or one queued and
one immediate; a second client is one made while the first still has threads.
In `WebSocket` two sockets are one whose deletion leaves the thread alone and one
that ends it, and one of each kind of owner; two messages of two pieces are the
least that can mix. In `AsyncTaskPool` two types have their own threads and three
tasks of one of them are one that runs, one dropped with the queue and one
enqueued after.
`Scheduler_targets` uses the symmetry of targets, keys and addresses, which the
specification never orders; no other run uses symmetry.
Deadlock is checked in the runs of `Scheduler` and `ThreadPool`. Elsewhere the
system may stop: a Downloader that is closed, an application that need not call
again, clients, sockets and tasks that are used up.

Fairness. `Scheduler`: the render loop calls `update` again and again and
callbacks return (weak fairness of `Advance`); nobody is assumed to post.
`ThreadPool`: each thread is scheduled and each task returns (weak fairness of
`Work(i)`), a call of the owner that has begun goes on (`Continue`); the owner
need not call anything. `Downloader`: both threads are scheduled and the
scheduler ticks (weak fairness of `Main` and `Worker`); every request ends
(strong fairness, since other transfers may be served in between), because the
code sets a low speed limit after which curl gives up. `AssetsManager`: what is
on the stack runs and what is under way is reported some time (weak fairness of
`Functions \/ Callbacks`: the main loop, the transfers' time limits, the pool);
that the application calls, or that a transfer succeeds, is not assumed.
`HttpClient`: threads are scheduled, their transfers end by curl's timeouts, the
main thread finishes its calls, frames run what is posted and callbacks return
(weak fairness of each); nobody need send or destroy. `WebSocket`: both threads
are scheduled and a waiter that was notified gets its mutex (weak fairness of
`MainContinues` and `NetworkThread`), frames run what is posted; the network
thread comes back to its requests to connect (`OpenConnection`) and libwebsockets
serves each connection that is to be established, to write or to be destroyed
(`Serve`), however often it serves another one in between: strong fairness, for
`lws_service` handles every descriptor that is ready. That the server closes or
sends is not assumed. `AsyncTaskPool`: threads are scheduled and tasks end,
the main thread finishes its calls (weak fairness); frames come between its calls
(strong fairness of `RunFunction`).

## 5. What the runs found

Each run marked `violation` checks what a comment of the code says:

* `ThreadPool_requeued`: tasks that `stopTasksByType` puts back may never run.
* `AssetsManager_resumed`: an update that failed and is checked and started again
  resumes from its own freshly parsed manifest, because `clear()` keeps the
  `updating` flag; it succeeds with nothing downloaded.
* `WebSocket_close`: a socket closed before the network thread has asked for its
  connection is opened all the same, and cannot be closed any more.

Properties name what they except; the runs show, within their bounds, that they hold
otherwise.

`UpdateComplete` excepts four things that `incidents` records, each of which makes
it fail:

* `selfResumed`, the update of `AssetsManager_resumed`;
* `torn`, a restart after the manifest was merged and before all files were. The
  merge takes the files in the order of the listing, so the new version is chosen at
  the next start with old files;
* `reverted`. A restart in the merge before the manifest moved leaves new files under
  the old manifest; so does, with files missing, an update that was prepared, which
  deletes what the new version does not list, and then given up. If a later version
  has such an asset as the local manifest lists it, `genDiff` (Manifest.cpp:274), which
  compares manifests and not files, finds no difference, and the version is reported
  up to date with a wrong file or none;
* `emptied`, a manifest of no bytes. `loadJson` leaves `_json` as it was
  (Manifest.cpp:117-120) and `parseFile` loads it again (lines 163-171): the version file, of
  which the manager then believes that it is a manifest without assets, or the manifest
  of an earlier attempt with its states.

`Cached` excepts `spoiled`, a saved manifest that no longer can be parsed: a manifest
download that failed after a failed update and left its part as
`project.manifest.temp`, or an empty one. A retry of the failed files that ends without a
save then makes this the cached manifest. An empty manifest before
which nothing was parsed is an unreadable one (`ManifestInvalid`).

`Reported` names the two interleavings in which a task of the Downloader is
stranded until another is created (`Stranded`). `Intact` excepts paths two tasks
share: a refused task, when it is destroyed, releases the path of the one that
was accepted, and a third task then writes to the same file
(CCDownloader-curl.cpp:69).

`Stuck` names the states of a WebSocket out of which a thread does not come. The
close that is forgotten; the network thread that sees `SYNC_CLOSING` before
`close()` has the mutex of the ready state, which it then keeps while it waits for
`close()` (WebSocket-libwebsockets.cpp:787); and the use of a socket that was
deleted. A fourth hang begins with the first: `closeAsync()` tests `_closeState` and
sets it in separate statements, on the network thread after a write that failed (line
1139), so that it may overwrite the `SYNC_CLOSING` of a `close()` that came between the two
(line 824 after line 787). `onConnectionClosed` then notifies nobody and sets `CLOSED`, and
`close()`, which waits without a predicate, is left waiting. `WorksForLiving` tells when this is: a connection that failed announces
its close before libwebsockets destroys it, so that the socket may be deleted
between the lookup in the list and its use; and `close()` deletes the socket after
sleeping five milliseconds, whatever the network thread is doing. The comment on
line 435, "REFINE: ws may be a invalid pointer", is about the same socket.
`CallbackOrder` excepts messages of a socket that was closed before it was open:
they are delivered although onOpen was not.

`RefsExact` of `HttpClient` excepts requests released early (`Raced`): the sender
and the network thread change a count that is no atomic. `Answered` excepts what
was sent to a client that is destroyed, and names the function posted for a
deleted client (`Dangling`).

Disagreements that the models contain and no run is about:

* A callback that unschedules itself is called again in the same long frame if its
  target has another timer.
* The last callback of a finite timer that schedules its key anew has the new
  timer cancelled (CCScheduler.cpp:170).
* Functions removed while a batch runs are still executed (CCScheduler.h:282 says
  they are not).
* A request from the listener of a failed manifest, or `update()` after a failed or
  a prepared update, is accepted, never answered, and blocks every later one
  (AssetsManagerEx.cpp:1200).
* The Downloader's worker takes its reference to the Impl after it has been
  started (CCDownloader-curl.cpp:465). The model has the step (`Hold`), which needs
  the Impl to exist, and says nothing of a worker that comes too late for it.
* A socket closed with `close()` tells its delegate so while its ready state is
  still `CLOSING`.
* `WebSocket_close` of the bindings attaches the JavaScript object to the global one
  whether or not the socket is closed already (jsb_websocket.cpp:443-454). Called after
  onClose it is attached for good, since only onClose detaches it.
* A prepared or failed update has already removed the files that the new version does
  not list, although the local manifest still lists them (AssetsManagerEx.cpp:864-882).

## 6. Proofs

`SchedulerProofs.tla` proves, from `ConstantAssumption` and `FreedAssumption`
only (what the constants are), that `IInv` is inductive:

* `TypeOK` (proved here and for the other modules with proofs, rather than
  listed among the properties of the runs);
* `SlotsDistinct`, `SlotsAllocated`: no Timer object is in two slots, and each in
  a slot is allocated, for the target of that slot;
* `Counts`: references are one for the slot plus one for being salvaged, and an
  object without references is freed;
* `CurrentTimers`: only the element `update` stands on has a current timer, which
  is in its slot or salvaged, never both;
* `ElapsedEnough`: what `Timer::update` subtracts from `_elapsed` is there -- this
  is what makes `TypeOK` inductive;
* `HashHolds`: the hash holds every element in use once, and the one `update`
  stands on.

`NoDanglingPointer` and `RefCountsExact` follow: neither is inductive alone,
because removing a timer from a callback is safe only if the current timer is in
its slot exactly when it is not salvaged. The theorems are `Invariance`,
`TypeCorrect`, `NoDangling` and `RefCounts`; the lemmas state what removing from
and appending to a sequence does to its range, and what each operation of the
interface preserves, with one step for each action.

The end of the module proves `InOrder` (posted functions run in order, once)
and `QueueRefinement` (`Spec => Queue!Spec`, each action mapped to one of
`MainThreadQueue` or a stutter), from the invariant that the concatenation of the
function being run, the batch and the pending vector is increasing and bounded
by `posted`. The swap is `Take`, which leaves the concatenation alone because the batch
is empty; removing is `Remove`, which leaves the batch and records exactly `pending`.

`SchedulerVisitProofs.tla` proves what a frame promises, from the second invariant
`VisitInv` on top of `IInv`:

* `IndexInPlace`: while a timer is updated and still in its slot, `timerIndex`
  points to it, whatever its callback removed and added;
* `DueAhead`, `AheadDueOrNew`: of the slots that the loop has not reached, those of
  timers that are due are exactly there, and the others are of timers never updated;
* `OwedAhead`: the targets owed a visit are behind the one `update` stands on in
  the hash (or it is that one);
* `KeysUnique`, `EmptyFlagged`: no two timers of a target have one key, and an
  element without timers is the one being visited and is flagged for removal.

A callback may call the interface at five places of `update`, so the argument goes
through an effect: `ArrayEffect` says what a call does to the array being walked
(slots at or below the index may go, with the index moved; slots ahead may go or be
added at the end), `HashEffect` what it does to the hash, and each operation is
classified once. `EffectOnVisit` and `EffectOnHash` then keep the invariant for all
of them, and there is a lemma for each step of `update` itself. `HashConsistent`,
`NoTimerSkipped`, `NoTimerTwice`, `EveryTargetVisited` and `RepeatHonoured` follow.

`ThreadPoolProofs.tla` proves from `PoolAssumption` (the minimum is positive and
at most the maximum, the steps are positive) that the `IInv` of `ThreadPool` is
inductive. Beside `TypeOK` and `SlotsExact` it says

* `IdleExact`, `MutexHeld`, `TasksHeld`: what the counters, the mutex and a task
  in hand tell of where a worker stands;
* `Leaving`: a thread goes only because it was told to or, when the pool is
  destroyed, because it saw the empty queue, to which nothing is added any more;
* `Joining`: the threads told to go are exactly those about to be joined, and
  `initedNum` counts enough others;
* `Closing`: while a destroyed pool has something queued it has a thread.

`NeverBelowMin` follows although `tryShrinkPool` reads flags that change: a slot
it read as idle may have a task by the time it is told, but it is in `toJoin`,
and `MaxToJoin` bounds that set. `StopDropsNothing` follows from `Closing` with
`Leaving`: the last thread to go saw the queue empty. There is a lemma for each
part of `IInv`, and in it a step for each kind of step.

The second half of the module proves `Spec => ImplementsPool`. It first classifies
the steps by what they do to the queue, the tasks set aside and those that run
(`PoolSteps`), then shows that each keeps `TasksOnce` (`OnceStep`) and is a step
of `TaskPool` or a stutter (`StepSimulation`). A task leaves the thread that has it only
into `ran`, and the queue only into a thread, or while the call that stops its type is in
its loop (`Stops`, a part of `IInv`). `TasksOnce` is what makes the
removal of the first task from a sequence the removal of one element from a set.

`DownloaderProofs.tla` proves from `DownloaderAssumption` that the `IInv` of
`Downloader` is inductive. `HeldOnce` counts; `IInv` says the same with sets, so
that a step is the move of one element:

* `Apart`: no container has a task twice and no two have the same one;
* `AllHeld`: together they have the tasks that are not reported, and the one
  whose callback runs;
* `Known`: everything is about tasks that have been created, so a new one is in
  none of them;
* `Stages`: the worker leaves its loop only with no transfer under way unless the
  Downloader is closed, and `_thread` is joinable exactly while there is one.

`Intact` is an action property about one step of `_onSchedule`, and what makes it
true happened earlier on the other thread. `FileInv` carries it there:

* `Opened`: an inode is reached by one path, a task has the file of its path open,
  and no other task does unless the path is `shared`; so what a transfer appends
  is in the way of nobody else;
* `Written`: a file has the first units of the content, with ranges whoever wrote
  them, and as many as its task has received (`offset`) once the header has come; before
  that it is as it was opened. The content request therefore goes on where
  the file ends;
* `Received`: a task on its way to be reported without an error has received
  everything. A request that is taken has no header yet (it is taken once), which
  keeps `Written` when `Fetch` resets `offset`;
* `Fresh`: a task to come finds an inode of its own unused.

It does not need `pathSet`: where the set fails to keep two tasks apart the path is
in `shared`, which `Intact` excepts.

`HttpClientProofs.tla` proves from `HttpClientAssumption` that the `IInv` of
`HttpClient` is inductive, for any number of clients and requests. `CountExact`
(the thread count is the number of threads that counted themselves and the main
thread's own, and the client is alive exactly while it is positive) holds because
who counts keeps the client alive. For `RefsExact` the invariant says that a
request that was sent is in one place: the request queue of its owner
(`InRequestQueue`, once, and the sentinel behind it, `SentinelLast`), the network
thread (`InThread`), the response queue (`InResponseQueue`), a thread of its own
(`AloneStands`) or a callback (`CallbackStands`), or it was dropped; the references
are then a function of the place. `RegistersExact` says that what a thread has
loaded is still the count when it stores, unless another thread changed it in
between: that is `Raced`.

On top of `IInv` it proves `OrderInv`, and with it `AnsweredInOrder`. For each of the
containers a request goes through (the request queue, the hand of the network
thread, the response queue, what was answered) `InLine` says that a request comes
after those sent before it, which are in front of it in the same container or in one
further on (`Follows`). A request that is moved on from the head of one container to
the end of the next has none before it left behind, so each move keeps this. That no
request is missing is wanted for `send`, which appends behind all of them; it is
true until the sentinel has come (`Dismissed`). `sendImmediate`, whose requests have
threads of their own, keeps no order, and `AnsweredInOrder` says nothing of it but
that each callback is called once.

`WebSocketProofs.tla` proves from `WebSocketAssumption` the `IInv` of `WebSocket`,
for any number of sockets, messages and pieces, and with it `RefsExact`,
`ThreadWithSockets` and `WorksForLiving`. The three are one argument. The close of a
socket is announced when its function is posted or onClose was called
(`Announced`), which sets `CLOSED` and happens only when libwebsockets has lost the
connection (`ClosedQuiet`, `NetStands`); `CLOSED` is only overwritten for a socket
whose request to connect is still in the list, of which libwebsockets knows nothing
(`Requests`). So it is announced once, nothing is posted after it (`CloseIsLast`),
onClose gives up one reference, and until then the socket exists: the network
thread may use it. A socket `close()` was called on (`Sync`) is only excepted from
this when it is not the bindings', and then has one owner, the main thread that is
in `close()` (`MainStands`). `Sync` is a history and not a value of `_closeState`, because
`closeAsync` on the other thread may overwrite that value.

It proves two orders on top of `IInv`, each with an invariant of its own.
`CallbackOrder` follows from `OrderInv`: nothing was posted or said of a socket
before the network thread told how its attempt to connect ended (`FreshSilent`), a socket
that is open said so (`OpenSaid`), and the functions posted are in the order the
delegate is to hear them (`InTurn`), so that running the first one keeps it.
`StoreKnown` says that who has announced a close and is about to take the mutex of the
ready state finds `_closeState` set, by whichever thread.
`WireInOrder` follows from `WireInv`: what a socket has in the list are the messages
after those written whole, none missing (`NoneMissing`) and in order (`Ordered`),
the first with the pieces already written of it and the others with none (`Begun`).
`onClientWritable` takes the first entry of the list that is of the socket; this is
a message and not the request to connect because `IInv` says that the request is
gone when libwebsockets has a connection.

`AsyncTaskPoolProofs.tla` proves from `AsyncTaskPoolAssumption` the `IInv` of
`AsyncTaskPool` and with it `CallbacksOfTasks`, for any number of types and tasks.
The queue of a type is increasing and of tasks that have not run (`TasksInOrder`);
the task its thread has taken comes before all of them (`TaskTaken`); every callback
posted or called comes before both (`CallbacksInOrder`), so that one posted by a
thread that outlives a `stopTasks` is still in order.

`AssetsManagerProofs.tla` proves from `AssetsManagerAssumption`, `IdAssumption` and
`ContentAssumption` the `IInv` of `AssetsManager`, for any assets, archives, versions and
limits, and with it every safety property of the run. The assumptions are that assets
are finitely many, that the values for "no manifest" and "no file" are no manifests,
and that the names of the two files fetched first are no assets; what a version holds is
not restricted. What `IInv` adds to the properties:

* `StackStands`: which functions may be on the stack in each state. Listeners call
  the interface in the middle of functions, so without it no step has a known
  successor; `Place` is what the stack tells of the update, at any depth;
* `Fetches`: the version file and the manifest are under way only for a call that
  waits, and at most one of them;
* `ManifestsStand`: which of the two names the manifests have, that a manifest which
  was parsed lists what its version holds, and that a version which was found is newer
  than the local one until it is installed. It gives `ManifestAlive`;
* `Counting` with `Apart` (an asset is queued, under way, unpacked or failing, never
  two of these) gives `CountersExact`;
* `Wanting`: the assets wanted are those pending or failed, also in the middle of
  a callback. At rest this is `NothingForgotten`;
* `Saved`: the saved manifest has the states of the one in memory except that what
  was downloaded since may be missing. It gives `Cached`;
* `Downloaded`: what the manifest in memory or the saved one marks as downloaded is in the
  temporary directory. The last conjunct is `ResumeSound`; the others are what keeps it;
* `Stored`: what the manifest does not mark is found without (`PartOf`), and the storage
  has what the cached version holds (`Keeps`) but for the files that are `touched`, which
  only happens when the server has a newer version. An update whose difference leaves
  out a touched file is `reverted`; in all others what is not fetched is found. When the
  merge begins the two make the new version whole (`ToMerge`), each move of a file keeps
  that, and the end of the merge gives `UpdateComplete`. It is said under `Sound`: none
  of the four incidents has happened.

`Full` is the weaker condition under which a manifest that was parsed lists what its
version holds: an empty manifest was not taken for another and saved.

There is a lemma for each action. Steps that only move the stack and the state are
treated together (`ControlsKeep`), and so are those that change the states of some
assets in the temporary manifest (`RetaggedKeeps`), whichever of the two names it has.
`SoundlyDownloaded` is the positive side of the run `AssetsManager_resumed`: what the
comment in `updateSucceed` claims holds in every behaviour in which no update resumed
itself, with the exceptions that `CorrectlyDownloaded` makes of a storage that was torn or
reverted and of an empty manifest.

Model-checked only: everything with liveness (`FrameEnds`, `CallsReturn`,
`TasksRun`, `Reported`, `UpdateEnds`, `Answered`, `WindsDown`, `ClosingCloses`,
`JoinReturns`, `TasksAnswered`, the fairness of the queue refinement).

## 7. Not modelled

See the components and hazards of `PROJECT.json` for each part. In short:

* `EventDispatcher`: next in the plan; one thread, lists of listeners changed by
  the listener that is called.
* `SocketIO`: a text protocol over one WebSocket; how it owns its socket and its
  handshake request is in `WebSocket` and `HttpClient`.
* `AutoreleasePool`, `Ref`: a counter and arrays on one thread; that nobody releases
  an object twice is stated for timers, requests and sockets, by their owners.
* The Android and Apple versions of HttpClient, WebSocket and Downloader: the
  threads are those of Java and Foundation libraries outside this repository.
* `closeAllConnections`, transfers, certificates, progress reports: named with
  their modules in section 3.
* Platform code and third-party libraries; pure data (encodings, containers, Uri);
  input and output (renderer, FileUtils, audio players, widgets); script engine
  bindings, but for the owners of WebSockets: their correctness is that of garbage
  collectors outside this repository. These are most of the repository's lines.
