------------------------------ MODULE TaskPool ------------------------------
(***************************************************************************)
(* What a ThreadPool promises the thread that owns it, its own threads,    *)
(* flags and locks left out: each pushed task is run at most once, by at   *)
(* most MaxThreads threads at a time, and to its end once it has begun.    *)
(* A task that waits goes no other way than by being run or by a call that *)
(* stops tasks of its type, which returns when none waits; a pool being    *)
(* destroyed stops none, and is closed only when all have been run.        *)
(***************************************************************************)
EXTENDS Naturals, FiniteSets

CONSTANTS
    MaxThreads,        \* threads the pool may have
    Type,              \* the types of tasks
    MaxTasks           \* bound: tasks pushed over the whole behaviour

VARIABLES
    waiting,           \* tasks pushed and not yet begun: an id and a type
    running,           \* ids of the tasks being run
    ran,               \* history: ids of the tasks run to their end
    pushed,            \* how many were pushed so far
    stopping,          \* the types the call in progress stops, {} if none
    phase              \* of the pool: "open", "closing" or "closed"

poolVars == <<waiting, running, ran, pushed, stopping, phase>>

Init ==
    /\ waiting = {}
    /\ running = {}
    /\ ran = {}
    /\ pushed = 0
    /\ stopping = {}
    /\ phase = "open"

Push ==
    /\ phase = "open"
    /\ stopping = {}
    /\ pushed < MaxTasks
    /\ pushed' = pushed + 1
    /\ \E t \in Type : waiting' = waiting \cup {[id |-> pushed', type |-> t]}
    /\ UNCHANGED <<running, ran, stopping, phase>>

Start ==
    /\ Cardinality(running) < MaxThreads
    /\ \E t \in waiting : /\ waiting' = waiting \ {t}
                          /\ running' = running \cup {t.id}
    /\ UNCHANGED <<ran, pushed, stopping, phase>>

Finish ==
    /\ \E id \in running : /\ running' = running \ {id}
                           /\ ran' = ran \cup {id}
    /\ UNCHANGED <<waiting, pushed, stopping, phase>>

(* stopAllTasks or stopTasksByType is called ...                           *)
BeginStop ==
    /\ phase = "open"
    /\ stopping = {}
    /\ stopping' \in {Type} \cup {{t} : t \in Type}
    /\ UNCHANGED <<waiting, running, ran, pushed, phase>>

(* ... removes a task of the types it was given ...                        *)
StopTask ==
    /\ \E t \in waiting : /\ t.type \in stopping
                          /\ waiting' = waiting \ {t}
    /\ UNCHANGED <<running, ran, pushed, stopping, phase>>

(* ... and returns.                                                        *)
EndStop ==
    /\ stopping # {}
    /\ \A t \in waiting : t.type \notin stopping
    /\ stopping' = {}
    /\ UNCHANGED <<waiting, running, ran, pushed, phase>>

Destroy ==
    /\ phase = "open"
    /\ stopping = {}
    /\ phase' = "closing"
    /\ UNCHANGED <<waiting, running, ran, pushed, stopping>>

Close ==
    /\ phase = "closing"
    /\ waiting = {}
    /\ running = {}
    /\ phase' = "closed"
    /\ UNCHANGED <<waiting, running, ran, pushed, stopping>>

Next ==
    \/ Push \/ Start \/ Finish
    \/ BeginStop \/ StopTask \/ EndStop
    \/ Destroy \/ Close

Spec == Init /\ [][Next]_poolVars
=============================================================================
