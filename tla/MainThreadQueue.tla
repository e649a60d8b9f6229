-------------------------- MODULE MainThreadQueue --------------------------
(***************************************************************************)
(* What Scheduler::performFunctionInCocosThread promises its callers on    *)
(* other threads, the rest of the scheduler left out: one queue of         *)
(* functions, run one at a time by the main thread in the order they were  *)
(* posted.  The main thread takes on all that is queued at once.  A        *)
(* function leaves the queue by running, or by the call that removes all:  *)
(* that call removes exactly those the main thread has not taken on.       *)
(***************************************************************************)
EXTENDS Integers, Sequences

CONSTANT MaxPosts      \* bound: functions posted over the whole behaviour

VARIABLES
    queue,             \* functions posted and not yet run, oldest first
    taken,             \* how many of the oldest the main thread has taken on
    running,           \* the function being run, 0 if none
    posted,            \* how many were posted so far
    removed            \* history: the functions that a call has removed

queueVars == <<queue, taken, running, posted, removed>>

Init == queue = <<>> /\ taken = 0 /\ running = 0 /\ posted = 0 /\ removed = {}

Post ==
    /\ posted < MaxPosts
    /\ posted' = posted + 1
    /\ queue' = Append(queue, posted')
    /\ UNCHANGED <<taken, running, removed>>

(* The main thread takes on what is queued, having run all it had taken.   *)
Take ==
    /\ running = 0
    /\ taken = 0
    /\ queue # <<>>
    /\ taken' = Len(queue)
    /\ UNCHANGED <<queue, running, posted, removed>>

Run ==
    /\ running = 0
    /\ taken > 0
    /\ running' = Head(queue)
    /\ queue' = Tail(queue)
    /\ taken' = taken - 1
    /\ UNCHANGED <<posted, removed>>

Return ==
    /\ running # 0
    /\ running' = 0
    /\ UNCHANGED <<queue, taken, posted, removed>>

(* The call of removeAllFunctionsToBePerformedInCocosThread.               *)
Remove ==
    /\ queue' = SubSeq(queue, 1, taken)
    /\ removed' = removed \cup {queue[i] : i \in (taken + 1)..Len(queue)}
    /\ UNCHANGED <<taken, running, posted>>

Serve == Take \/ Run \/ Return

Next == Serve \/ Post \/ Remove

Spec == Init /\ [][Next]_queueVars

(* The main thread goes on running what is queued.                         *)
FairSpec == Spec /\ WF_queueVars(Serve)
=============================================================================
