----------------------------- MODULE Scheduler -----------------------------
(***************************************************************************)
(* cocos2d::Scheduler (src/cocos/base/CCScheduler.cpp): the frame loop of  *)
(* the engine.  Every frame, Scheduler::update(dt) walks the hash of       *)
(* targets, updates every timer of every target that is not paused, and    *)
(* then runs the functions other threads posted.  A timer's callback, a    *)
(* posted function and the code between two frames may call the whole      *)
(* interface: the arrays and the hash change under the two loops that walk *)
(* them.                                                                   *)
(*                                                                         *)
(* One thread runs the frame: pc is where it stands.  "idle" is outside    *)
(* update(); "delay" and "interval" are inside the callback of the current *)
(* timer, called from the delay branch and from the interval loop of       *)
(* Timer::update; "function" is inside a posted function.  Post and        *)
(* RemoveAllFunctions belong to any thread and interleave with every step. *)
(* Times are whole ticks.  Sequences count from 1, the code's arrays from  *)
(* 0: timerIndex here is the code's plus one.                              *)
(***************************************************************************)
EXTENDS Integers, FiniteSets, SequencesExt

CONSTANTS
    Target,        \* what callbacks are scheduled for (void *target)
    Key,           \* the keys of the callbacks
    Timer,         \* addresses of TimerTargetCallback objects
    Interval,      \* intervals a caller asks for, 0 means "every frame"
    Repeat,        \* repeat counts a caller asks for
    Forever,       \* CC_REPEAT_FOREVER
    Delay,         \* delays a caller asks for
    Step,          \* the dt of a frame
    NoTarget,      \* nullptr
    NoTimer,       \* nullptr
    Freed,         \* the contents of a Timer that is not allocated
    MaxCalls,      \* bound: calls of the interface by one callback
    MaxPosts       \* bound: functions posted over the whole behaviour

ASSUME ConstantAssumption ==
    /\ NoTarget \notin Target
    /\ NoTimer \notin Timer
    /\ Interval \subseteq Nat
    /\ Delay \subseteq Nat
    /\ Step \subseteq Nat
    /\ Repeat \subseteq Nat \cup {Forever}
    /\ Forever \notin Nat
    /\ MaxCalls \in Nat
    /\ MaxPosts \in Nat

(* What a Timer object holds.                                              *)
TimerObject ==
    [target : Target, key : Key, interval : Interval, repeat : Repeat,
     delay : Delay, useDelay : BOOLEAN, elapsed : Nat \cup {-1}, times : Nat]

ASSUME FreedAssumption == Freed \notin TimerObject

VARIABLES
    pc,                     \* where the main thread stands
    hash,                   \* _hashForTimers: targets in insertion order
    element,                \* the hash element of each target
    timer,                  \* the Timer object at each address
    refs,                   \* the reference count of each Timer object
    currentTarget,          \* _currentTarget (and elt between two targets)
    currentTargetSalvaged,  \* _currentTargetSalvaged
    dt,                     \* the argument of update()
    interval,               \* the local of Timer::update
    calls,                  \* calls made by the running callback so far
    pending,                \* _functionsToPerform
    batch,                  \* what is left of temp, the swapped-out vector
    running,                \* the posted function being run, 0 if none
    posted,                 \* functions posted so far
    due,                    \* history: timers this visit still has to update
    owed,                   \* history: targets this frame still has to visit
    dropped                 \* history: functions removed while pending

timerVars == <<hash, element, timer, refs, currentTarget,
               currentTargetSalvaged, due, owed>>
functionVars == <<pending, batch, running, posted, dropped>>
vars == <<pc, dt, interval, calls, timerVars, functionVars>>

Position == {"idle", "target", "timer", "delay", "interval", "cancel",
             "returned", "leave", "functions", "swap", "run", "function"}

Triggering == {"delay", "interval"}
Visiting == Triggering \cup {"timer", "cancel", "returned", "leave"}

(* What calloc gives: the element of a target that is not in the hash.     *)
NoElement == [timers |-> <<>>, timerIndex |-> 1, currentTimer |-> NoTimer,
              salvaged |-> FALSE, paused |-> FALSE]

Scheduled(x) == ToSet(element[x].timers)
Current == element[currentTarget].currentTimer

(* The slots of x's array whose timer has key k: the search by key.        *)
Slots(x, k) == {i \in DOMAIN element[x].timers :
                    timer[element[x].timers[i]].key = k}

Init ==
    /\ pc = "idle"
    /\ hash = <<>>
    /\ element = [x \in Target |-> NoElement]
    /\ timer = [t \in Timer |-> Freed]
    /\ refs = [t \in Timer |-> 0]
    /\ currentTarget = NoTarget
    /\ currentTargetSalvaged = FALSE
    /\ dt = 0
    /\ interval = 0
    /\ calls = 0
    /\ pending = <<>>
    /\ batch = <<>>
    /\ running = 0
    /\ posted = 0
    /\ due = {}
    /\ owed = {}
    /\ dropped = {}

-----------------------------------------------------------------------------
(* The interface, as called between frames or from a callback.             *)

(* Drop one reference to each timer of S; the last one frees the object.   *)
Release(S) ==
    /\ refs' = [t \in Timer |-> IF t \in S THEN refs[t] - 1 ELSE refs[t]]
    /\ timer' = [t \in Timer |-> IF t \in S /\ refs[t] = 1 THEN Freed
                                 ELSE timer[t]]

(* Mutant: a new timer counts from its first update on.                    *)
NewTimerRunning(x, k, iv, rp, dl) ==
    [target |-> x, key |-> k, interval |-> iv, repeat |-> rp, delay |-> dl,
     useDelay |-> dl > 0, elapsed |-> 0, times |-> 0]

(* setupTimerWithInterval                                                  *)
NewTimer(x, k, iv, rp, dl) ==
    [target |-> x, key |-> k, interval |-> iv, repeat |-> rp, delay |-> dl,
     useDelay |-> dl > 0, elapsed |-> -1, times |-> 0]

(* schedule() for a key that is already there: only the interval changes.  *)
ScheduleAgain(x, k, iv) ==
    /\ \E i \in Slots(x, k) :
          timer' = [timer EXCEPT ![element[x].timers[i]].interval = iv]
    /\ UNCHANGED <<hash, element, refs, currentTarget, currentTargetSalvaged,
                   due, owed>>

(* schedule() for a new key: paused counts only for a target's first timer *)
(* (with a target that is present a debug build asserts it is the same).   *)
ScheduleNew(x, k, iv, rp, dl, paused) ==
    /\ Slots(x, k) = {}
    /\ \E t \in Timer :
          /\ refs[t] = 0
          /\ timer' = [timer EXCEPT ![t] = NewTimer(x, k, iv, rp, dl)]
          /\ refs' = [refs EXCEPT ![t] = 1]
          /\ element' = [element EXCEPT
                ![x].timers = Append(@, t),
                ![x].paused = IF Contains(hash, x) THEN @ ELSE paused]
    /\ hash' = IF Contains(hash, x) THEN hash ELSE Append(hash, x)
    /\ UNCHANGED <<currentTarget, currentTargetSalvaged, due, owed>>

(* Mutant: the timer removed is not known to be running.                   *)
SalvageNothing(x, t) == FALSE

(* Removing t from x's array takes an extra reference.                     *)
Salvages(x, t) == t = element[x].currentTimer /\ ~ element[x].salvaged

(* Mutant: the index moves back for a removal behind it, too.              *)
AdjustedAlways(index, i) == index - 1

(* Mutant: the index stays although the array closed up below it.          *)
AdjustedNever(index, i) == index

(* timerIndex once slot i has been removed.                                *)
Adjusted(index, i) == IF index >= i THEN index - 1 ELSE index

(* unschedule(): the current timer, when it is the one removed, is kept    *)
(* alive by an extra reference until its update is over.  An element left  *)
(* empty goes, unless update() stands on it: then it is only flagged.      *)
UnscheduleFound(x, i) ==
    LET e == element[x]
        t == e.timers[i]
        rest == RemoveAt(e.timers, i)
    IN  /\ Release(IF Salvages(x, t) THEN {} ELSE {t})
        /\ IF rest = <<>> /\ currentTarget # x
           THEN /\ element' = [element EXCEPT ![x] = NoElement]
                /\ hash' = RemoveFirst(hash, x)
                /\ owed' = owed \ {x}
           ELSE /\ element' = [element EXCEPT
                       ![x].timers = rest,
                       ![x].timerIndex = Adjusted(@, i),
                       ![x].salvaged = @ \/ Salvages(x, t)]
                /\ UNCHANGED <<hash, owed>>
        /\ currentTargetSalvaged' =
              (currentTargetSalvaged \/ (rest = <<>> /\ currentTarget = x))
        /\ due' = due \ {t}
        /\ UNCHANGED currentTarget

Unschedule(x, k) ==
    \/ \E i \in Slots(x, k) : UnscheduleFound(x, i)
    \/ Slots(x, k) = {} /\ UNCHANGED timerVars

(* All timers of the targets of S go, and so do their elements except the  *)
(* one update() stands on, whose timerIndex stays where it was.            *)
UnscheduleTargets(S, rest) ==
    LET gone == UNION {Scheduled(x) : x \in S}
        saved == {t \in gone : \E x \in S : Salvages(x, t)}
    IN  /\ Release(gone \ saved)
        /\ element' = [x \in Target |->
              IF x \notin S THEN element[x]
              ELSE IF x # currentTarget THEN NoElement
              ELSE [element[x] EXCEPT !.timers = <<>>,
                                      !.salvaged = @ \/ saved # {}]]
        /\ hash' = rest
        /\ currentTargetSalvaged' =
              (currentTargetSalvaged \/ currentTarget \in S)
        /\ due' = due \ gone
        /\ owed' = owed \ S
        /\ UNCHANGED currentTarget

UnscheduleAllForTarget(x) ==
    /\ Contains(hash, x)
    /\ UnscheduleTargets({x}, IF x = currentTarget THEN hash
                              ELSE RemoveFirst(hash, x))

UnscheduleAll ==
    UnscheduleTargets(Target, IF currentTarget = NoTarget THEN <<>>
                              ELSE <<currentTarget>>)

PauseTargets(S, paused) ==
    /\ element' = [x \in Target |-> IF x \in S /\ Contains(hash, x)
                                    THEN [element[x] EXCEPT !.paused = paused]
                                    ELSE element[x]]
    /\ UNCHANGED <<hash, timer, refs, currentTarget, currentTargetSalvaged,
                   due, owed>>

PauseTarget(x) == PauseTargets({x}, TRUE)
ResumeTarget(x) == PauseTargets({x}, FALSE)
PauseAllTargets == PauseTargets(Target, TRUE)
ResumeTargets(S) == PauseTargets(S, FALSE)

Calling == pc \in Triggering \cup {"idle", "function"}

(* One call of the interface that changes timers.                          *)
Call ==
    /\ Calling
    /\ pc = "idle" \/ calls < MaxCalls
    /\ calls' = IF pc = "idle" THEN calls ELSE calls + 1
    /\ \/ \E x \in Target, k \in Key, iv \in Interval :
             ScheduleAgain(x, k, iv)
       \/ \E x \in Target, k \in Key, iv \in Interval, rp \in Repeat,
             dl \in Delay, paused \in BOOLEAN :
             ScheduleNew(x, k, iv, rp, dl, paused)
       \/ \E x \in Target, k \in Key : Unschedule(x, k)
       \/ \E x \in Target : UnscheduleAllForTarget(x)
       \/ UnscheduleAll
       \/ \E x \in Target : PauseTarget(x)
       \/ \E x \in Target : ResumeTarget(x)
       \/ PauseAllTargets
       \/ \E S \in SUBSET Target : ResumeTargets(S)
    /\ UNCHANGED <<pc, dt, interval, functionVars>>

-----------------------------------------------------------------------------
(* Scheduler::update: the two loops over targets and timers.               *)

BeginFrame ==
    /\ pc = "idle"
    /\ dt' \in Step
    /\ currentTarget' = IF hash = <<>> THEN NoTarget ELSE Head(hash)
    /\ owed' = ToSet(hash)
    /\ pc' = "target"
    /\ UNCHANGED <<interval, calls, hash, element, timer, refs,
                   currentTargetSalvaged, due, functionVars>>

(* Whether the target is paused is looked at once, here.                   *)
VisitTarget ==
    /\ pc = "target"
    /\ currentTarget # NoTarget
    /\ currentTargetSalvaged' = FALSE
    /\ owed' = owed \ {currentTarget}
    /\ IF element[currentTarget].paused
       THEN pc' = "leave" /\ due' = {} /\ UNCHANGED element
       ELSE /\ element' = [element EXCEPT ![currentTarget].timerIndex = 1]
            /\ due' = Scheduled(currentTarget)
            /\ pc' = "timer"
    /\ UNCHANGED <<dt, interval, calls, hash, timer, refs, currentTarget,
                   functionVars>>

(* The interval loop of Timer::update is entered with timer t in state o.  *)
EnterLoop(t, o) ==
    /\ timer' = [timer EXCEPT ![t] = o]
    /\ interval' = IF o.interval > 0 THEN o.interval ELSE o.elapsed
    /\ pc' = IF o.elapsed >= interval' THEN "interval" ELSE "returned"
    /\ calls' = 0

(* The head of the timer loop and of Timer::update, up to the first        *)
(* trigger or return.                                                      *)
BeginTimer ==
    LET e == element[currentTarget]
        t == e.timers[e.timerIndex]
        o == timer[t]
        waited == [o EXCEPT !.elapsed = @ + dt]
    IN  /\ pc = "timer"
        /\ e.timerIndex <= Len(e.timers)
        /\ element' = [element EXCEPT ![currentTarget].currentTimer = t,
                                      ![currentTarget].salvaged = FALSE]
        /\ due' = due \ {t}
        /\ \/ /\ o.elapsed = -1
              /\ timer' = [timer EXCEPT ![t].elapsed = 0, ![t].times = 0]
              /\ pc' = "returned"
              /\ UNCHANGED <<interval, calls>>
           \/ /\ o.elapsed # -1
              /\ o.useDelay
              /\ timer' = [timer EXCEPT ![t] = waited]
              /\ pc' = IF waited.elapsed < o.delay THEN "returned" ELSE "delay"
              /\ calls' = 0
              /\ UNCHANGED interval
           \/ /\ o.elapsed # -1
              /\ ~ o.useDelay
              /\ EnterLoop(t, waited)
        /\ UNCHANGED <<dt, hash, refs, currentTarget, currentTargetSalvaged,
                       owed, functionVars>>

(* _timesExecuted, which the code reads only for a finite repeat count.    *)
Counted(o) == IF o.repeat = Forever THEN o.times ELSE o.times + 1
Exhausted(o) == o.repeat # Forever /\ o.times > o.repeat

(* The callback called from the delay branch returns.                      *)
ReturnFromDelay ==
    LET t == Current
        o == [timer[t] EXCEPT !.elapsed = @ - timer[t].delay,
                              !.times = Counted(timer[t]),
                              !.useDelay = FALSE]
    IN  /\ pc = "delay"
        /\ \/ /\ Exhausted(o)
              /\ timer' = [timer EXCEPT ![t] = o]
              /\ pc' = "cancel"
              /\ calls' = 0
              /\ UNCHANGED interval
           \/ ~ Exhausted(o) /\ EnterLoop(t, o)
        /\ UNCHANGED <<dt, hash, element, refs, currentTarget,
                       currentTargetSalvaged, due, owed, functionVars>>

(* The callback called from the interval loop returns.                     *)
ReturnFromInterval ==
    LET t == Current
        o == [timer[t] EXCEPT !.elapsed = @ - interval,
                              !.times = Counted(timer[t])]
    IN  /\ pc = "interval"
        /\ timer' = [timer EXCEPT ![t] = o]
        /\ pc' = IF Exhausted(o) THEN "cancel"
                 ELSE IF \/ o.elapsed <= 0
                         \/ currentTargetSalvaged
                         \/ o.elapsed < interval
                      THEN "returned"
                      ELSE "interval"
        /\ calls' = 0
        /\ UNCHANGED <<dt, interval, hash, element, refs, currentTarget,
                       currentTargetSalvaged, due, owed, functionVars>>

(* Mutant: an exhausted timer of a paused target is not cancelled.         *)
CancelUnlessPaused ==
    /\ pc = "cancel"
    /\ IF element[currentTarget].paused THEN UNCHANGED timerVars
       ELSE Unschedule(timer[Current].target, timer[Current].key)
    /\ pc' = "returned"
    /\ UNCHANGED <<dt, interval, calls, functionVars>>

(* cancel(): the exhausted timer unschedules its key and its target.       *)
Cancel ==
    /\ pc = "cancel"
    /\ Unschedule(timer[Current].target, timer[Current].key)
    /\ pc' = "returned"
    /\ UNCHANGED <<dt, interval, calls, functionVars>>

(* Mutant: the extra reference is never given back.                        *)
NothingRetained == {}

(* What update() releases when the update of a timer is over.              *)
Retained == IF element[currentTarget].salvaged THEN {Current} ELSE {}

(* Back in update(): the extra reference goes, the index moves on.  (A     *)
(* local or an argument that goes out of scope is set to 0 here and below.)*)
EndTimer ==
    /\ pc = "returned"
    /\ Release(Retained)
    /\ element' = [element EXCEPT ![currentTarget].currentTimer = NoTimer,
                                  ![currentTarget].timerIndex = @ + 1]
    /\ interval' = 0
    /\ pc' = "timer"
    /\ UNCHANGED <<dt, calls, hash, currentTarget,
                   currentTargetSalvaged, due, owed, functionVars>>

(* Mutant: the walk of the hash stops one target early.                    *)
SuccessorButLast(x) ==
    LET i == CHOOSE j \in DOMAIN hash : hash[j] = x
    IN  IF i + 1 < Len(hash) THEN hash[i + 1] ELSE NoTarget

(* hh.next                                                                 *)
Successor(x) ==
    LET i == CHOOSE j \in DOMAIN hash : hash[j] = x
    IN  IF i < Len(hash) THEN hash[i + 1] ELSE NoTarget

(* Mutant: elements emptied during their visit stay.                       *)
NeverEmptied == FALSE

(* The element left was emptied during its visit, and not filled again.    *)
Emptied == currentTargetSalvaged /\ element[currentTarget].timers = <<>>

(* hh.next is read after the callbacks, before the element may go.         *)
LeaveTarget ==
    /\ \/ pc = "leave"
       \/ /\ pc = "timer"
          /\ element[currentTarget].timerIndex >
                Len(element[currentTarget].timers)
    /\ currentTarget' = Successor(currentTarget)
    /\ IF Emptied
       THEN /\ hash' = RemoveFirst(hash, currentTarget)
            /\ element' = [element EXCEPT ![currentTarget] = NoElement]
       ELSE UNCHANGED <<hash, element>>
    /\ pc' = "target"
    /\ UNCHANGED <<dt, interval, calls, timer, refs, currentTargetSalvaged,
                   due, owed, functionVars>>

EndTimers ==
    /\ pc = "target"
    /\ currentTarget = NoTarget
    /\ dt' = 0
    /\ pc' = "functions"
    /\ UNCHANGED <<interval, calls, timerVars, functionVars>>

-----------------------------------------------------------------------------
(* Functions posted to the main thread.                                    *)

(* performFunctionInCocosThread(), by any thread, a callback included.     *)
Post ==
    /\ posted < MaxPosts
    /\ posted' = posted + 1
    /\ pending' = Append(pending, posted')
    /\ UNCHANGED <<pc, dt, interval, calls, timerVars, batch, running, dropped>>

(* removeAllFunctionsToBePerformedInCocosThread(), by any thread.          *)
RemoveAllFunctions ==
    /\ pending' = <<>>
    /\ dropped' = dropped \cup ToSet(pending)
    /\ UNCHANGED <<pc, dt, interval, calls, timerVars, batch, running, posted>>

(* The test for work, made without the mutex.                              *)
TestFunctions ==
    /\ pc = "functions"
    /\ pc' = IF pending = <<>> THEN "idle" ELSE "swap"
    /\ UNCHANGED <<dt, interval, calls, timerVars, functionVars>>

(* Mutant: the copy and the clear without the mutex; what other threads    *)
(* post between the two is cleared, and not in the copy.                   *)
SwapUnlocked ==
    /\ pc = "swap"
    /\ \E n \in 0..Len(pending) : batch' = SubSeq(pending, 1, n)
    /\ pending' = <<>>
    /\ pc' = "run"
    /\ UNCHANGED <<dt, interval, calls, timerVars, running, posted, dropped>>

(* The copy and the clear, under the mutex.                                *)
SwapFunctions ==
    /\ pc = "swap"
    /\ batch' = pending
    /\ pending' = <<>>
    /\ pc' = "run"
    /\ UNCHANGED <<dt, interval, calls, timerVars, running, posted, dropped>>

RunFunction ==
    /\ pc = "run"
    /\ batch # <<>>
    /\ running' = Head(batch)
    /\ batch' = Tail(batch)
    /\ calls' = 0
    /\ pc' = "function"
    /\ UNCHANGED <<dt, interval, timerVars, pending, posted, dropped>>

ReturnFromFunction ==
    /\ pc = "function"
    /\ running' = 0
    /\ calls' = 0
    /\ pc' = "run"
    /\ UNCHANGED <<dt, interval, timerVars, pending, batch, posted, dropped>>

EndFrame ==
    /\ pc = "run"
    /\ batch = <<>>
    /\ pc' = "idle"
    /\ UNCHANGED <<dt, interval, calls, timerVars, functionVars>>

-----------------------------------------------------------------------------
(* What the main thread does whatever the callbacks do.                    *)
Advance ==
    \/ BeginFrame
    \/ VisitTarget
    \/ BeginTimer
    \/ ReturnFromDelay
    \/ ReturnFromInterval
    \/ Cancel
    \/ EndTimer
    \/ LeaveTarget
    \/ EndTimers
    \/ TestFunctions
    \/ SwapFunctions
    \/ RunFunction
    \/ ReturnFromFunction
    \/ EndFrame

Next == Advance \/ Call \/ Post \/ RemoveAllFunctions

Spec == Init /\ [][Next]_vars

(* The platform's render loop calls update() again and again, and every    *)
(* callback returns: the main thread is never stuck.  Nothing is assumed   *)
(* of who posts, removes or schedules.                                     *)
FairSpec == Spec /\ WF_vars(Advance)

-----------------------------------------------------------------------------
(* Properties.                                                             *)

HashElement ==
    [timers : Seq(Timer), timerIndex : Nat, currentTimer : Timer \cup {NoTimer},
     salvaged : BOOLEAN, paused : BOOLEAN]

(* The values each variable ranges over.                                   *)
TypeOK ==
    /\ pc \in Position
    /\ hash \in Seq(Target)
    /\ element \in [Target -> HashElement]
    /\ timer \in [Timer -> TimerObject \cup {Freed}]
    /\ refs \in [Timer -> Nat]
    /\ currentTarget \in Target \cup {NoTarget}
    /\ currentTargetSalvaged \in BOOLEAN
    /\ dt \in Nat
    /\ interval \in Nat
    /\ calls \in Nat
    /\ pending \in Seq(1..MaxPosts)
    /\ batch \in Seq(1..MaxPosts)
    /\ running \in 0..MaxPosts
    /\ posted \in 0..MaxPosts
    /\ due \subseteq Timer
    /\ owed \subseteq Target
    /\ dropped \subseteq 1..MaxPosts

(* Whatever a callback unschedules, the element update() stands on stays   *)
(* in the hash and the Timer object whose update() is on the stack stays   *)
(* allocated and belongs to that element, until each of them is left.      *)
NoDanglingPointer ==
    pc \in Visiting =>
        /\ Contains(hash, currentTarget)
        /\ pc \notin {"timer", "leave"} =>
              /\ Current \in Timer
              /\ refs[Current] > 0
              /\ timer[Current].target = currentTarget

(* The reference count of a Timer object is exactly the number of its      *)
(* owners: the array slot that holds it and the extra reference taken when *)
(* it is removed while it runs.  No object leaks, none is released twice.  *)
Holders(t) ==
    Cardinality({x \in Target : t \in Scheduled(x)})
    + IF \E x \in Target : element[x].currentTimer = t /\ element[x].salvaged
      THEN 1 ELSE 0

RefCountsExact == \A t \in Timer : refs[t] = Holders(t)

(* A target has at most one timer for a key, so unscheduling a key leaves  *)
(* none behind, and it is in the hash exactly when it has a timer or       *)
(* update() stands on it: no empty element survives its visit.             *)
HashConsistent ==
    /\ \A x \in Target, k \in Key : Cardinality(Slots(x, k)) <= 1
    /\ \A x \in Target : element[x].timers # <<>> => Contains(hash, x)
    /\ \A x \in Target : Contains(hash, x) =>
           element[x].timers # <<>> \/ (x = currentTarget /\ currentTargetSalvaged)

(* Removing timers in a callback makes the loop skip none of those that    *)
(* remain: when the loop over a target's timers ends, every timer that was *)
(* there when it began has been updated or unscheduled.                    *)
NoTimerSkipped ==
    pc = "timer" /\ element[currentTarget].timerIndex >
                       Len(element[currentTarget].timers) => due = {}

(* Nor does it update a timer twice in one visit: each update is due, or   *)
(* is the initialising one of a timer scheduled during the visit.          *)
NoTimerTwice ==
    [][pc = "timer" /\ pc' \in Triggering => due' # due]_vars

(* Targets may come and go under the walk of the hash, but each that is    *)
(* there when the frame begins is visited in it, or was removed meanwhile. *)
EveryTargetVisited == pc = "functions" => owed = {}

(* A timer with a finite repeat count that has used it up is never left    *)
(* scheduled, whatever its last callback did to it, and so never fires     *)
(* again: repeat + 1 calls at most.                                        *)
RepeatHonoured ==
    \A x \in Target : \A t \in Scheduled(x) :
        Exhausted(timer[t]) => pc = "cancel" /\ Current = t

(* Posted functions run one at a time, in the order they were posted, and  *)
(* none twice: a function posted while a batch runs waits for a later      *)
(* batch.                                                                  *)
FunctionsInOrder ==
    LET queue == IF running = 0 THEN batch \o pending
                 ELSE <<running>> \o batch \o pending
    IN  \A i, j \in DOMAIN queue : i < j => queue[i] < queue[j]

(* The queue of posted functions as callers see it: what is left of the    *)
(* batch, which the frame has taken on, comes before what is pending.      *)
Queue == INSTANCE MainThreadQueue WITH queue <- batch \o pending,
             taken <- Len(batch), removed <- dropped

(* Testing the vector without the mutex and swapping it out under it       *)
(* loses, repeats and reorders nothing: the two vectors behave as the one  *)
(* queue of MainThreadQueue, which is always served and which a function   *)
(* leaves only by running or by a call that removes it.  Such a call       *)
(* reaches what is pending and no more: the functions of the batch being   *)
(* run still run after it, although CCScheduler.h:282 says of the          *)
(* functions it unschedules that they "will not be executed".              *)
ImplementsQueue == Queue!FairSpec

(* Every frame ends, although callbacks go on scheduling timers for the    *)
(* targets being walked: a timer scheduled during a frame is at most       *)
(* initialised in it.                                                      *)
FrameEnds == pc # "idle" ~> pc = "idle"

-----------------------------------------------------------------------------
(* The inductive invariant behind TypeOK, NoDanglingPointer and            *)
(* RefCountsExact.                                                         *)

InTimer == Triggering \cup {"cancel", "returned"}

(* t is the timer whose update is on the stack, already taken from its     *)
(* array.                                                                  *)
Salvaged(t) ==
    \E x \in Target : element[x].currentTimer = t /\ element[x].salvaged

Held(t) == \E x \in Target : t \in Scheduled(x)

(* No Timer object is in two slots.                                        *)
SlotsDistinct ==
    \A x, y \in Target :
        \A i \in DOMAIN element[x].timers, j \in DOMAIN element[y].timers :
            element[x].timers[i] = element[y].timers[j] => x = y /\ i = j

(* Every object in a slot is allocated, and for the target of that slot.   *)
SlotsAllocated ==
    \A x \in Target : \A t \in Scheduled(x) :
        timer[t] # Freed /\ timer[t].target = x

Counts ==
    \A t \in Timer :
        /\ refs[t] = (IF Held(t) THEN 1 ELSE 0) + (IF Salvaged(t) THEN 1 ELSE 0)
        /\ refs[t] = 0 <=> timer[t] = Freed

(* Only the element update() stands on has a current timer, and that is an *)
(* allocated one, in its slot or salvaged, never both.  The index of the   *)
(* loop is never before the first slot.                                    *)
CurrentTimers ==
    /\ \A x \in Target : element[x].currentTimer # NoTimer =>
                             x = currentTarget /\ pc \in InTimer
    /\ pc \in InTimer =>
          /\ Current \in Timer
          /\ timer[Current] # Freed
          /\ timer[Current].target = currentTarget
          /\ element[currentTarget].salvaged <=> Current \notin Scheduled(currentTarget)
    /\ pc = "timer" => element[currentTarget].timerIndex >= 1

(* What Timer::update still has to subtract from _elapsed is there.        *)
ElapsedEnough ==
    /\ pc = "delay" => timer[Current].elapsed >= timer[Current].delay
    /\ pc = "interval" => timer[Current].elapsed >= interval

(* The hash holds a target once, every target that has timers, and the one *)
(* update() stands on.                                                     *)
HashHolds ==
    /\ \A i, j \in DOMAIN hash : hash[i] = hash[j] => i = j
    /\ \A x \in Target : ~ Contains(hash, x) => element[x] = NoElement
    /\ pc \in Visiting => currentTarget # NoTarget
    /\ pc \notin Visiting \cup {"target"} => currentTarget = NoTarget
    /\ currentTarget # NoTarget => Contains(hash, currentTarget)

IInv ==
    /\ TypeOK
    /\ SlotsDistinct
    /\ SlotsAllocated
    /\ Counts
    /\ CurrentTimers
    /\ ElapsedEnough
    /\ HashHolds
-----------------------------------------------------------------------------
(* What a visit and a frame still owe: the strengthening of IInv behind    *)
(* HashConsistent, NoTimerSkipped, NoTimerTwice, EveryTargetVisited and    *)
(* RepeatHonoured.                                                         *)

Walking == InTimer \cup {"timer"}

(* The first slot of the array that the loop over timers has not reached.  *)
NextSlot ==
    LET e == element[currentTarget]
    IN  IF pc = "timer" THEN e.timerIndex ELSE e.timerIndex + 1

(* While a timer is updated and still in its slot, the index points to it, *)
(* whatever its callback removed and added.                                *)
IndexInPlace ==
    pc \in InTimer /\ ~ element[currentTarget].salvaged =>
        LET e == element[currentTarget]
        IN  e.timerIndex \in DOMAIN e.timers /\ e.timers[e.timerIndex] = Current

(* What is due is ahead of the index, and nothing is when no array is      *)
(* being walked.                                                           *)
DueAhead ==
    /\ pc \notin Walking => due = {}
    /\ pc \in Walking => \A t \in due :
          \E i \in DOMAIN element[currentTarget].timers :
              i >= NextSlot /\ element[currentTarget].timers[i] = t

(* What is ahead of the index is due, or has never been updated.           *)
AheadDueOrNew ==
    pc \in Walking => \A i \in DOMAIN element[currentTarget].timers :
        i >= NextSlot =>
            LET t == element[currentTarget].timers[i]
            IN  t \in due \/ timer[t].elapsed = -1

(* The targets owed a visit are ahead of the one update() stands on; when  *)
(* it stands on none, no visit is owed.                                    *)
OwedAhead ==
    \A x \in owed : \E i, j \in DOMAIN hash :
        /\ hash[i] = currentTarget
        /\ hash[j] = x
        /\ i < j \/ (i = j /\ pc = "target")

(* No two timers of a target have one key.                                 *)
KeysUnique ==
    \A x \in Target : \A i, j \in DOMAIN element[x].timers :
        timer[element[x].timers[i]].key = timer[element[x].timers[j]].key => i = j

(* An element without timers is the one being visited, and is flagged.     *)
EmptyFlagged ==
    \A x \in Target : Contains(hash, x) /\ element[x].timers = <<>> =>
        x = currentTarget /\ currentTargetSalvaged /\ pc # "target"

VisitInv ==
    /\ IndexInPlace
    /\ DueAhead
    /\ AheadDueOrNew
    /\ OwedAhead
    /\ KeysUnique
    /\ EmptyFlagged
    /\ RepeatHonoured
=============================================================================
