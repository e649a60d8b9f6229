------------------------ MODULE SchedulerVisitProofs ------------------------
(***************************************************************************)
(* What a frame of Scheduler::update owes its timers and its targets,      *)
(* whatever the callbacks do to the arrays and the hash being walked.      *)
(* VisitInv, on top of IInv, is inductive.  A call of the interface moves, *)
(* drops and adds slots of the arrays: ArrayEffect says what all calls     *)
(* have in common, and the parts of VisitInv about arrays follow from it.  *)
(***************************************************************************)
EXTENDS SchedulerProofs

(* After the step, slot m of y's array holds what slot n held, with the    *)
(* same key and counters.                                                  *)
Came(y, m, n) ==
    /\ m \in DOMAIN element'[y].timers
    /\ n \in DOMAIN element[y].timers
    /\ element'[y].timers[m] = element[y].timers[n]
    /\ LET o == timer[element[y].timers[n]]
           p == timer'[element[y].timers[n]]
       IN  /\ p.key = o.key
           /\ p.elapsed = o.elapsed
           /\ p.times = o.times
           /\ p.repeat = o.repeat

(* Slot m of y's array was added at its end, for a key y did not have.     *)
Entered(y, m) ==
    /\ m = Len(element[y].timers) + 1
    /\ m \in DOMAIN element'[y].timers
    /\ LET p == timer'[element'[y].timers[m]]
       IN  /\ p.elapsed = -1
           /\ ~ Exhausted(p)
           /\ \A n \in DOMAIN element[y].timers :
                 timer[element[y].timers[n]].key # p.key

(* What the array of y may become.                                         *)
ArrayKept(y) ==
    /\ \A m \in DOMAIN element'[y].timers :
          Entered(y, m) \/ \E n \in DOMAIN element[y].timers : Came(y, m, n)
    /\ \A k, m, n : Came(y, k, n) /\ Came(y, m, n) => k = m
    /\ \A n \in DOMAIN element[y].timers :
          element[y].timers[n] \in due' => \E m : Came(y, m, n)
    /\ \A m, n : Came(y, m, n) /\ element[y].timers[n] \in due
                    => element[y].timers[n] \in due'
    /\ y = currentTarget =>
          \A m, n : Came(y, m, n) =>
             (m > element'[y].timerIndex <=> n > element[y].timerIndex)
    /\ y = currentTarget /\ pc \in InTimer /\ ~ element'[y].salvaged =>
          /\ ~ element[y].salvaged
          /\ element'[y].currentTimer = element[y].currentTimer
          /\ Came(y, element'[y].timerIndex, element[y].timerIndex)

ArrayEffect ==
    /\ due' \subseteq due
    /\ currentTarget' = currentTarget
    /\ \A y \in Target : ArrayKept(y)

(* The objects in the slots of an array.                                   *)
LEMMA SlotFacts ==
    ASSUME TInv, NEW y \in Target
    PROVE  /\ element[y] \in HashElement
           /\ element[y].timers \in Seq(Timer)
           /\ \A n \in DOMAIN element[y].timers :
                 /\ n \in Nat
                 /\ element[y].timers[n] \in Timer
                 /\ element[y].timers[n] \in Scheduled(y)
                 /\ timer[element[y].timers[n]] \in TimerObject
                 /\ timer[element[y].timers[n]].target = y
           /\ \A m, n \in DOMAIN element[y].timers :
                 element[y].timers[m] = element[y].timers[n] => m = n
<1>1. element[y] \in HashElement /\ element[y].timers \in Seq(Timer)
  BY DEF TInv, TimerTypes, HashElement
<1>2. ASSUME NEW n \in DOMAIN element[y].timers
      PROVE  /\ n \in Nat
             /\ element[y].timers[n] \in Timer
             /\ element[y].timers[n] \in Scheduled(y)
             /\ timer[element[y].timers[n]] \in TimerObject
             /\ timer[element[y].timers[n]].target = y
  <2>1. n \in Nat /\ element[y].timers[n] \in Timer /\ element[y].timers[n] \in Scheduled(y)
    BY <1>1, <1>2 DEF Scheduled, ToSet
  <2> QED  BY <2>1 DEF TInv, TimerTypes, SlotsAllocated
<1> QED  BY <1>1, <1>2 DEF TInv, SlotsDistinct

(* An array that keeps its slots, its index and its objects' counters.     *)
LEMMA SameArray ==
    ASSUME TInv, IndexInPlace, NEW y \in Target,
           element'[y].timers = element[y].timers,
           element'[y].timerIndex = element[y].timerIndex,
           element'[y].currentTimer = element[y].currentTimer,
           element'[y].salvaged = element[y].salvaged,
           \A n \in DOMAIN element[y].timers :
              LET t == element[y].timers[n]
              IN  /\ timer'[t].key = timer[t].key
                  /\ timer'[t].elapsed = timer[t].elapsed
                  /\ timer'[t].times = timer[t].times
                  /\ timer'[t].repeat = timer[t].repeat
                  /\ t \in due <=> t \in due'
    PROVE  ArrayKept(y)
<1>1. \A n \in DOMAIN element[y].timers : Came(y, n, n)
  BY DEF Came
<1>2. \A m, n : Came(y, m, n) => m = n
  BY SlotFacts DEF Came
<1>3. y = currentTarget /\ pc \in InTimer /\ ~ element'[y].salvaged =>
         /\ ~ element[y].salvaged
         /\ Came(y, element'[y].timerIndex, element[y].timerIndex)
  BY <1>1 DEF IndexInPlace
<1> QED  BY <1>1, <1>2, <1>3 DEF ArrayKept, Came

(* An array that becomes empty.                                            *)
LEMMA ClearedArray ==
    ASSUME NEW y \in Target,
           element'[y].timers = <<>>,
           \A n \in DOMAIN element[y].timers : element[y].timers[n] \notin due',
           y = currentTarget /\ pc \in InTimer => element'[y].salvaged
    PROVE  ArrayKept(y)
<1>1. \A m, n : ~ Came(y, m, n)
  BY DEF Came
<1> QED  BY <1>1 DEF ArrayKept

(* Taking one slot out of an array moves the index with the slots.         *)
LEMMA UnscheduleFoundArray ==
    ASSUME TInv, IndexInPlace, NEW x \in Target,
           NEW i \in DOMAIN element[x].timers, UnscheduleFound(x, i)
    PROVE  ArrayEffect
<1> DEFINE e == element[x]
           t == e.timers[i]
           rest == RemoveAt(e.timers, i)
<1>0. /\ e \in HashElement /\ e.timers \in Seq(Timer) /\ t \in Timer
      /\ i \in 1..Len(e.timers) /\ Len(e.timers) \in Nat
  BY SlotFacts
<1>1. /\ Len(rest) = Len(e.timers) - 1 /\ rest \in Seq(Timer)
      /\ \A j \in 1..(Len(e.timers) - 1) :
            rest[j] = IF j < i THEN e.timers[j] ELSE e.timers[j + 1]
  BY <1>0, RemoveAtProps
<1> HIDE DEF rest
<1>2. /\ element'[x].timers = rest
      /\ \A y \in Target : y # x => element'[y] = element[y]
      /\ x = currentTarget =>
            /\ element'[x].timerIndex = Adjusted(e.timerIndex, i)
            /\ element'[x].currentTimer = e.currentTimer
            /\ element'[x].salvaged = (e.salvaged \/ Salvages(x, t))
  <2>1. element \in [Target -> HashElement]
    BY DEF TInv, TimerTypes
  <2>2. CASE rest = <<>> /\ currentTarget # x
    BY <2>1, <2>2 DEF UnscheduleFound, rest, NoElement
  <2>3. CASE ~ (rest = <<>> /\ currentTarget # x)
    <3>1. element' = [element EXCEPT ![x].timers = rest,
                                     ![x].timerIndex = Adjusted(@, i),
                                     ![x].salvaged = @ \/ Salvages(x, t)]
      BY <2>3 DEF UnscheduleFound, rest
    <3> QED  BY <1>0, <2>1, <3>1 DEF HashElement
  <2> QED  BY <2>2, <2>3
<1>3. /\ due' = due \ {t} /\ currentTarget' = currentTarget
      /\ \A u \in Timer : u # t => timer'[u] = timer[u]
  BY DEF UnscheduleFound, Release
<1>4. ASSUME NEW y \in Target, y # x
      PROVE  ArrayKept(y)
  <2>1. \A n \in DOMAIN element[y].timers : element[y].timers[n] # t
    BY <1>4 DEF TInv, SlotsDistinct
  <2> QED  BY <1>2, <1>3, <1>4, <2>1, SlotFacts, SameArray
<1> DEFINE old(m) == IF m < i THEN m ELSE m + 1
<1>5. \A m, n : Came(x, m, n) <=> m \in 1..Len(rest) /\ n = old(m)
  <2>1. ASSUME NEW m \in 1..Len(rest)
        PROVE  /\ old(m) \in DOMAIN e.timers /\ old(m) # i
               /\ rest[m] = e.timers[old(m)]
    BY <1>0, <1>1, <2>1
  <2>2. ASSUME NEW m \in 1..Len(rest)
        PROVE  Came(x, m, old(m))
    <3>1. e.timers[old(m)] # t /\ e.timers[old(m)] \in Timer
      BY <1>0, <2>1, SlotFacts
    <3> QED  BY <1>1, <1>2, <1>3, <2>1, <3>1 DEF Came
  <2>3. ASSUME NEW m, NEW n, Came(x, m, n)
        PROVE  m \in 1..Len(rest) /\ n = old(m)
    <3>1. m \in 1..Len(rest) /\ n \in DOMAIN e.timers /\ rest[m] = e.timers[n]
      BY <1>1, <1>2, <2>3 DEF Came
    <3>2. old(m) \in DOMAIN e.timers /\ e.timers[old(m)] = e.timers[n]
      BY <2>1, <3>1
    <3> QED  BY <3>1, <3>2, SlotFacts
  <2> QED  BY <2>2, <2>3
<1>6. ArrayKept(x)
  <2>1. \A m \in DOMAIN element'[x].timers : \E n \in DOMAIN e.timers : Came(x, m, n)
    BY <1>0, <1>1, <1>2, <1>5
  <2>2. \A k, m, n : Came(x, k, n) /\ Came(x, m, n) => k = m
    BY <1>0, <1>1, <1>5
  <2>3. ASSUME NEW n \in DOMAIN e.timers, e.timers[n] \in due'
        PROVE  \E m : Came(x, m, n)
    <3>1. n # i /\ n \in 1..Len(e.timers)
      BY <1>0, <1>3, <2>3
    <3>2. CASE n < i
      <4>1. n \in 1..Len(rest) /\ n = old(n)
        BY <1>0, <1>1, <3>1, <3>2
      <4> QED  BY <1>5, <4>1
    <3>3. CASE n > i
      <4>1. (n - 1) \in 1..Len(rest) /\ ~ (n - 1 < i) /\ (n - 1) + 1 = n
        BY <1>0, <1>1, <3>1, <3>3
      <4>2. n = old(n - 1)
        BY <4>1
      <4> QED  BY <1>5, <4>1, <4>2
    <3> QED  BY <1>0, <3>1, <3>2, <3>3
  <2>4. \A m, n : Came(x, m, n) /\ e.timers[n] \in due => e.timers[n] \in due'
    <3> SUFFICES ASSUME NEW m, NEW n, Came(x, m, n)
                 PROVE  e.timers[n] # t
      BY <1>3
    <3>1. m \in 1..Len(rest) /\ n = old(m)
      BY <1>5
    <3>2. n \in DOMAIN e.timers /\ n # i
      BY <1>0, <1>1, <3>1
    <3> QED  BY <3>2, SlotFacts
  <2>5. ASSUME x = currentTarget, NEW m, NEW n, Came(x, m, n)
        PROVE  m > element'[x].timerIndex <=> n > e.timerIndex
    <3>1. m \in 1..Len(rest) /\ n = old(m)
      BY <1>5, <2>5
    <3>2. e.timerIndex \in Nat
      BY <1>0 DEF HashElement
    <3> QED  BY <1>0, <1>1, <1>2, <2>5, <3>1, <3>2 DEF Adjusted
  <2>6. ASSUME x = currentTarget, pc \in InTimer, ~ element'[x].salvaged
        PROVE  /\ ~ e.salvaged
               /\ element'[x].currentTimer = e.currentTimer
               /\ Came(x, element'[x].timerIndex, e.timerIndex)
    <3>1. ~ e.salvaged /\ ~ Salvages(x, t) /\ element'[x].currentTimer = e.currentTimer
      BY <1>2, <2>6
    <3>2. e.timerIndex \in DOMAIN e.timers /\ e.timers[e.timerIndex] = Current
      BY <2>6, <3>1 DEF IndexInPlace
    <3>3. e.timerIndex # i
      BY <2>6, <3>1, <3>2 DEF Salvages, Current
    <3>4. element'[x].timerIndex = Adjusted(e.timerIndex, i)
      BY <1>2, <2>6
    <3>5. element'[x].timerIndex \in 1..Len(rest) /\ e.timerIndex = old(element'[x].timerIndex)
      BY <1>0, <1>1, <3>2, <3>3, <3>4 DEF Adjusted
    <3> QED  BY <1>5, <3>1, <3>5
  <2> QED  BY <2>1, <2>2, <2>3, <2>4, <2>5, <2>6 DEF ArrayKept
<1> QED  BY <1>3, <1>4, <1>6 DEF ArrayEffect

(* Clearing the arrays of the targets of S leaves the others as they are.  *)
LEMMA UnscheduleTargetsArray ==
    ASSUME TInv, IndexInPlace, NEW S \in SUBSET Target, NEW rest,
           UnscheduleTargets(S, rest)
    PROVE  ArrayEffect
<1> DEFINE gone == UNION {Scheduled(x) : x \in S}
           saved == {t \in gone : \E x \in S : Salvages(x, t)}
<1>1. /\ due' = due \ gone /\ currentTarget' = currentTarget
      /\ \A u \in Timer : u \notin gone => timer'[u] = timer[u]
      /\ \A y \in Target \ S : element'[y] = element[y]
      /\ \A y \in S : element'[y] = IF y # currentTarget THEN NoElement
                                    ELSE [element[y] EXCEPT !.timers = <<>>,
                                                            !.salvaged = @ \/ saved # {}]
  BY DEF UnscheduleTargets, Release
<1>2. ASSUME NEW y \in Target, y \notin S
      PROVE  ArrayKept(y)
  <2>1. ASSUME NEW n \in DOMAIN element[y].timers
        PROVE  element[y].timers[n] \notin gone
    BY <1>2 DEF TInv, SlotsDistinct, Scheduled, ToSet
  <2>2. \A n \in DOMAIN element[y].timers :
           LET t == element[y].timers[n]
           IN  timer'[t] = timer[t] /\ (t \in due <=> t \in due')
    <3> SUFFICES ASSUME NEW n \in DOMAIN element[y].timers
                 PROVE  LET t == element[y].timers[n]
                        IN  timer'[t] = timer[t] /\ (t \in due <=> t \in due')
      OBVIOUS
    <3>1. element[y].timers[n] \notin gone /\ element[y].timers[n] \in Timer
      BY <2>1, SlotFacts
    <3> HIDE DEF gone
    <3> QED  BY <1>1, <3>1
  <2>3. element'[y] = element[y]
    BY <1>1, <1>2
  <2> QED  BY <2>2, <2>3, SameArray
<1>3. ASSUME NEW y \in S
      PROVE  ArrayKept(y)
  <2>1. element'[y].timers = <<>>
    <3>1. CASE y # currentTarget
      <4>1. element'[y] = NoElement
        BY <1>1, <1>3, <3>1
      <4> QED  BY <4>1 DEF NoElement
    <3>2. CASE y = currentTarget
      <4>1. element[y] \in HashElement
        BY <1>3, SlotFacts
      <4> QED  BY <1>1, <1>3, <3>2, <4>1 DEF HashElement
    <3> QED  BY <3>1, <3>2
  <2>2. \A n \in DOMAIN element[y].timers : element[y].timers[n] \notin due'
    <3>1. \A n \in DOMAIN element[y].timers : element[y].timers[n] \in Scheduled(y)
      BY SlotFacts
    <3> QED  BY <1>1, <3>1
  <2>3. ASSUME y = currentTarget, pc \in InTimer
        PROVE  element'[y].salvaged
    <3>1. element'[y].salvaged = (element[y].salvaged \/ saved # {})
      <4>1. element[y] \in HashElement
        BY <1>3, SlotFacts
      <4> QED  BY <1>1, <1>3, <2>3, <4>1 DEF HashElement
    <3>2. CASE element[y].salvaged
      BY <3>1, <3>2
    <3>3. CASE ~ element[y].salvaged
      <4>1. Current \in Scheduled(y) /\ Current \in Timer
        BY <2>3, <3>3 DEF TInv, CurrentTimers
      <4>2. Salvages(y, Current)
        BY <2>3, <4>1, <1>3, CurrentFacts
      <4>3. Current \in saved
        BY <4>1, <4>2
      <4> QED  BY <3>1, <4>3
    <3> QED  BY <3>2, <3>3
  <2> QED  BY <2>1, <2>2, <2>3, ClearedArray
<1> QED  BY <1>1, <1>2, <1>3 DEF ArrayEffect

(* A new timer goes to the end of its target's array, with a new key.      *)
LEMMA ScheduleNewArray ==
    ASSUME TInv, IndexInPlace, NEW x \in Target, NEW k \in Key, NEW iv \in Interval,
           NEW rp \in Repeat, NEW dl \in Delay, NEW paused \in BOOLEAN,
           ScheduleNew(x, k, iv, rp, dl, paused)
    PROVE  ArrayEffect
<1>1. PICK t \in Timer :
          /\ refs[t] = 0
          /\ timer' = [timer EXCEPT ![t] = NewTimer(x, k, iv, rp, dl)]
          /\ element' = [element EXCEPT
                ![x].timers = Append(@, t),
                ![x].paused = IF Contains(hash, x) THEN @ ELSE paused]
  BY DEF ScheduleNew
<1> DEFINE e == element[x]
<1>2. /\ e \in HashElement /\ e.timers \in Seq(Timer)
      /\ Len(Append(e.timers, t)) = Len(e.timers) + 1
      /\ Len(e.timers) \in Nat
      /\ \A i \in 1..(Len(e.timers) + 1) :
            Append(e.timers, t)[i] = IF i = Len(e.timers) + 1 THEN t ELSE e.timers[i]
      /\ Append(e.timers, t) \in Seq(Timer)
  <2>1. e \in HashElement /\ e.timers \in Seq(Timer)
    BY SlotFacts
  <2> HIDE DEF e
  <2> QED  BY <2>1, AppendFacts
<1>3. /\ element'[x].timers = Append(e.timers, t)
      /\ element'[x].timerIndex = e.timerIndex
      /\ element'[x].currentTimer = e.currentTimer
      /\ element'[x].salvaged = e.salvaged
      /\ \A y \in Target : y # x => element'[y] = element[y]
  BY <1>1, <1>2 DEF HashElement, TInv, TimerTypes
<1>4. /\ due' = due /\ currentTarget' = currentTarget
      /\ \A u \in Timer : u # t => timer'[u] = timer[u]
  BY <1>1 DEF ScheduleNew, TInv, TimerTypes
<1>5. \A y \in Target : \A n \in DOMAIN element[y].timers : element[y].timers[n] # t
  <2>1. ~ Held(t)
    BY <1>1 DEF TInv, Counts
  <2> QED  BY <2>1, SlotFacts DEF Held
<1>6. ASSUME NEW y \in Target, y # x
      PROVE  ArrayKept(y)
  BY <1>3, <1>4, <1>5, <1>6, SlotFacts, SameArray
<1>7. Entered(x, Len(e.timers) + 1)
  <2>1. timer'[t] = NewTimer(x, k, iv, rp, dl)
    BY <1>1 DEF TInv, TimerTypes
  <2>2. timer'[t].elapsed = -1 /\ timer'[t].key = k /\ ~ Exhausted(timer'[t])
    BY <2>1, ConstantAssumption DEF NewTimer, Exhausted
  <2>3. \A n \in DOMAIN e.timers : timer[e.timers[n]].key # k
    BY DEF ScheduleNew, Slots
  <2>4. /\ Len(e.timers) + 1 \in DOMAIN element'[x].timers
        /\ element'[x].timers[Len(e.timers) + 1] = t
    BY <1>2, <1>3
  <2> QED  BY <2>2, <2>3, <2>4 DEF Entered
<1>8. \A m, n : Came(x, m, n) <=> m = n /\ m \in DOMAIN e.timers
  <2>1. ASSUME NEW m \in DOMAIN e.timers
        PROVE  Came(x, m, m)
    <3>1. /\ m \in DOMAIN element'[x].timers
          /\ element'[x].timers[m] = e.timers[m]
      BY <1>2, <1>3
    <3> QED  BY <1>4, <1>5, <3>1, SlotFacts DEF Came
  <2>2. ASSUME NEW m, NEW n, Came(x, m, n)
        PROVE  m = n
    <3>1. /\ m \in 1..(Len(e.timers) + 1) /\ n \in DOMAIN e.timers
          /\ Append(e.timers, t)[m] = e.timers[n]
      BY <1>2, <1>3, <2>2 DEF Came
    <3>2. e.timers[n] # t
      BY <1>5, <3>1
    <3>3. m \in DOMAIN e.timers /\ e.timers[m] = e.timers[n]
      BY <1>2, <3>1, <3>2
    <3> QED  BY <3>1, <3>3, SlotFacts
  <2> QED  BY <2>1, <2>2 DEF Came
<1>9. ArrayKept(x)
  <2>1. \A m \in DOMAIN element'[x].timers :
           Entered(x, m) \/ \E n \in DOMAIN e.timers : Came(x, m, n)
    BY <1>2, <1>3, <1>7, <1>8
  <2>2. x = currentTarget /\ pc \in InTimer /\ ~ element'[x].salvaged =>
           /\ ~ e.salvaged
           /\ element'[x].currentTimer = e.currentTimer
           /\ Came(x, element'[x].timerIndex, e.timerIndex)
    BY <1>3, <1>8 DEF IndexInPlace
  <2>3. \A l, m, n : Came(x, l, n) /\ Came(x, m, n) => l = m
    BY <1>8
  <2>4. \A n \in DOMAIN e.timers : e.timers[n] \in due' => \E m : Came(x, m, n)
    BY <1>8
  <2>5. \A m, n : Came(x, m, n) => (m > element'[x].timerIndex <=> n > e.timerIndex)
    BY <1>3, <1>8
  <2> HIDE DEF e
  <2> QED  BY <1>4, <2>1, <2>2, <2>3, <2>4, <2>5 DEF ArrayKept, e
<1> QED  BY <1>4, <1>6, <1>9 DEF ArrayEffect

(* Scheduling a key again, pausing and resuming leave the arrays alone.    *)
LEMMA ScheduleAgainArray ==
    ASSUME TInv, IndexInPlace, NEW x \in Target, NEW k \in Key, NEW iv \in Interval,
           ScheduleAgain(x, k, iv)
    PROVE  ArrayEffect
<1>1. PICK i \in Slots(x, k) :
         timer' = [timer EXCEPT ![element[x].timers[i]].interval = iv]
  BY DEF ScheduleAgain
<1> DEFINE t == element[x].timers[i]
<1>2. t \in Timer /\ timer[t] \in TimerObject
  BY SlotFacts DEF Slots
<1> HIDE DEF t
<1>3. timer' = [timer EXCEPT ![t] = [timer[t] EXCEPT !.interval = iv]]
  BY <1>1 DEF TInv, TimerTypes, t
<1>4. \A u \in Timer : timer[u] \in TimerObject =>
         /\ timer'[u].key = timer[u].key
         /\ timer'[u].elapsed = timer[u].elapsed
         /\ timer'[u].times = timer[u].times
         /\ timer'[u].repeat = timer[u].repeat
  BY <1>2, <1>3 DEF TInv, TimerTypes, TimerObject
<1>5. element' = element /\ due' = due /\ currentTarget' = currentTarget
  BY DEF ScheduleAgain
<1>6. ASSUME NEW y \in Target
      PROVE  ArrayKept(y)
  BY <1>4, <1>5, SlotFacts, SameArray
<1> QED  BY <1>5, <1>6 DEF ArrayEffect

LEMMA PauseTargetsArray ==
    ASSUME TInv, IndexInPlace, NEW S, NEW paused \in BOOLEAN, PauseTargets(S, paused)
    PROVE  ArrayEffect
<1>1. timer' = timer /\ due' = due /\ currentTarget' = currentTarget
  BY DEF PauseTargets
<1>2. ASSUME NEW y \in Target
      PROVE  ArrayKept(y)
  <2>1. element[y] \in HashElement
    BY SlotFacts
  <2>2. element'[y] = element[y] \/ element'[y] = [element[y] EXCEPT !.paused = paused]
    BY DEF PauseTargets
  <2>3. /\ element'[y].timers = element[y].timers
        /\ element'[y].timerIndex = element[y].timerIndex
        /\ element'[y].currentTimer = element[y].currentTimer
        /\ element'[y].salvaged = element[y].salvaged
    BY <2>1, <2>2 DEF HashElement
  <2> QED  BY <1>1, <2>3, SameArray
<1> QED  BY <1>1, <1>2 DEF ArrayEffect

(* Every call has the effect described.                                    *)
LEMMA UnscheduleArray ==
    ASSUME TInv, IndexInPlace, NEW x \in Target, NEW k, Unschedule(x, k)
    PROVE  ArrayEffect
<1>1. CASE \E i \in Slots(x, k) : UnscheduleFound(x, i)
  BY <1>1, UnscheduleFoundArray DEF Slots
<1>2. CASE UNCHANGED timerVars
  <2>1. \A y \in Target : ArrayKept(y)
    BY <1>2, SameArray DEF timerVars
  <2> QED  BY <1>2, <2>1 DEF timerVars, ArrayEffect
<1> QED  BY <1>1, <1>2 DEF Unschedule

LEMMA CallArray ==
    ASSUME TInv, IndexInPlace, Call
    PROVE  ArrayEffect
<1>1. CASE \E x \in Target, k \in Key, iv \in Interval : ScheduleAgain(x, k, iv)
  BY <1>1, ScheduleAgainArray
<1>2. CASE \E x \in Target, k \in Key, iv \in Interval, rp \in Repeat,
              dl \in Delay, paused \in BOOLEAN :
              ScheduleNew(x, k, iv, rp, dl, paused)
  BY <1>2, ScheduleNewArray
<1>3. CASE \E x \in Target, k \in Key : Unschedule(x, k)
  BY <1>3, UnscheduleArray
<1>4. CASE \E x \in Target : UnscheduleAllForTarget(x)
  <2>1. PICK x \in Target : UnscheduleAllForTarget(x)
    BY <1>4
  <2>2. {x} \in SUBSET Target
    OBVIOUS
  <2> QED  BY <2>1, <2>2, UnscheduleTargetsArray DEF UnscheduleAllForTarget
<1>5. CASE UnscheduleAll
  <2>1. Target \in SUBSET Target
    OBVIOUS
  <2> QED  BY <1>5, <2>1, UnscheduleTargetsArray DEF UnscheduleAll
<1>6. CASE \/ \E x \in Target : PauseTarget(x)
           \/ \E x \in Target : ResumeTarget(x)
           \/ PauseAllTargets
           \/ \E S \in SUBSET Target : ResumeTargets(S)
  BY <1>6, PauseTargetsArray DEF PauseTarget, ResumeTarget, PauseAllTargets, ResumeTargets
<1> QED  BY <1>1, <1>2, <1>3, <1>4, <1>5, <1>6 DEF Call

-----------------------------------------------------------------------------
(* The parts of VisitInv about arrays follow from ArrayEffect.             *)
LEMMA EffectOnVisit ==
    ASSUME TInv, TInv', SamePlace, ArrayEffect, IndexInPlace, DueAhead,
           AheadDueOrNew, KeysUnique
    PROVE  IndexInPlace' /\ DueAhead' /\ AheadDueOrNew' /\ KeysUnique'
<1> DEFINE e == element[currentTarget]
           f == element'[currentTarget]
<1>1. /\ pc \in Walking <=> pc \in InTimer
      /\ pc' \in Walking <=> pc \in InTimer
      /\ pc' \in InTimer <=> pc \in InTimer
      /\ pc' # "timer" /\ pc # "timer"
  BY DEF SamePlace, Walking, InTimer, Triggering
<1>2. currentTarget' = currentTarget /\ due' \subseteq due
  BY DEF ArrayEffect
<1>3. ASSUME pc \in InTimer
      PROVE  /\ currentTarget \in Target
             /\ ArrayKept(currentTarget)
             /\ e.timerIndex \in Nat /\ e.timers \in Seq(Timer)
             /\ f.timerIndex \in Nat /\ f.timers \in Seq(Timer)
             /\ NextSlot = e.timerIndex + 1 /\ NextSlot' = f.timerIndex + 1
  <2>1. currentTarget \in Target
    BY <1>3, CurrentFacts
  <2>2. e \in HashElement /\ f \in HashElement
    BY <2>1 DEF TInv, TimerTypes
  <2>3. NextSlot = e.timerIndex + 1 /\ NextSlot' = f.timerIndex + 1
    BY <1>1, <1>2 DEF NextSlot
  <2> QED  BY <2>1, <2>2, <2>3 DEF ArrayEffect, HashElement
<1>4. ASSUME pc \in InTimer, NEW m, NEW n, Came(currentTarget, m, n)
      PROVE  /\ m \in 1..Len(f.timers) /\ n \in 1..Len(e.timers)
             /\ m >= NextSlot' <=> n >= NextSlot
             /\ f.timers[m] = e.timers[n]
             /\ timer'[f.timers[m]].elapsed = timer[e.timers[n]].elapsed
  <2>1. m \in 1..Len(f.timers) /\ n \in 1..Len(e.timers)
    BY <1>3, <1>4 DEF Came
  <2>2. m > f.timerIndex <=> n > e.timerIndex
    BY <1>3, <1>4 DEF ArrayKept
  <2>3. m >= f.timerIndex + 1 <=> n >= e.timerIndex + 1
    BY <1>3, <1>4, <2>1, <2>2
  <2> QED  BY <1>3, <1>4, <2>1, <2>3 DEF Came
<1>5. IndexInPlace'
  <2> SUFFICES ASSUME pc \in InTimer, ~ f.salvaged
               PROVE  f.timerIndex \in DOMAIN f.timers /\ f.timers[f.timerIndex] = f.currentTimer
    BY <1>1, <1>2 DEF IndexInPlace, Current
  <2>1. /\ ~ e.salvaged
        /\ f.currentTimer = e.currentTimer
        /\ Came(currentTarget, f.timerIndex, e.timerIndex)
    BY <1>3 DEF ArrayKept
  <2>2. e.timers[e.timerIndex] = e.currentTimer
    BY <2>1 DEF IndexInPlace, Current
  <2> QED  BY <2>1, <2>2 DEF Came
<1>6. DueAhead'
  <2>1. CASE pc \notin InTimer
    BY <1>1, <1>2, <2>1 DEF DueAhead
  <2>2. CASE pc \in InTimer
    <3> SUFFICES ASSUME NEW t \in due'
                 PROVE  \E m \in DOMAIN f.timers : m >= NextSlot' /\ f.timers[m] = t
      BY <1>1, <1>2, <2>2 DEF DueAhead
    <3>1. PICK n \in DOMAIN e.timers : n >= NextSlot /\ e.timers[n] = t
      BY <1>1, <1>2, <2>2 DEF DueAhead
    <3>2. PICK m : Came(currentTarget, m, n)
      BY <1>3, <2>2, <3>1 DEF ArrayKept
    <3> QED  BY <1>3, <1>4, <2>2, <3>1, <3>2
  <2> QED  BY <2>1, <2>2
<1>7. AheadDueOrNew'
  <2> SUFFICES ASSUME pc \in InTimer, NEW m \in DOMAIN f.timers, m >= NextSlot'
               PROVE  f.timers[m] \in due' \/ timer'[f.timers[m]].elapsed = -1
    BY <1>1, <1>2 DEF AheadDueOrNew
  <2>1. CASE Entered(currentTarget, m)
    BY <2>1 DEF Entered
  <2>2. CASE \E n \in DOMAIN e.timers : Came(currentTarget, m, n)
    <3>1. PICK n \in DOMAIN e.timers : Came(currentTarget, m, n)
      BY <2>2
    <3>2. n >= NextSlot /\ f.timers[m] = e.timers[n]
            /\ timer'[f.timers[m]].elapsed = timer[e.timers[n]].elapsed
      BY <1>4, <3>1
    <3>3. e.timers[n] \in due \/ timer[e.timers[n]].elapsed = -1
      BY <1>1, <3>2 DEF AheadDueOrNew
    <3>4. e.timers[n] \in due => e.timers[n] \in due'
      BY <1>3, <3>1 DEF ArrayKept
    <3> QED  BY <3>2, <3>3, <3>4
  <2> QED  BY <1>3, <2>1, <2>2 DEF ArrayKept
<1>8. KeysUnique'
  <2> SUFFICES ASSUME NEW y \in Target,
                      NEW k \in DOMAIN element'[y].timers,
                      NEW m \in DOMAIN element'[y].timers,
                      timer'[element'[y].timers[k]].key = timer'[element'[y].timers[m]].key
               PROVE  k = m
    BY DEF KeysUnique
  <2>1. ArrayKept(y)
    BY DEF ArrayEffect
  <2>2. /\ Entered(y, k) \/ \E n \in DOMAIN element[y].timers : Came(y, k, n)
        /\ Entered(y, m) \/ \E n \in DOMAIN element[y].timers : Came(y, m, n)
    BY <2>1 DEF ArrayKept
  <2>3. CASE Entered(y, k) /\ Entered(y, m)
    BY <2>3 DEF Entered
  <2>4. CASE Entered(y, k) /\ \E n \in DOMAIN element[y].timers : Came(y, m, n)
    BY <2>4 DEF Entered, Came
  <2>5. CASE Entered(y, m) /\ \E n \in DOMAIN element[y].timers : Came(y, k, n)
    BY <2>5 DEF Entered, Came
  <2>6. ASSUME NEW a \in DOMAIN element[y].timers, Came(y, k, a),
               NEW b \in DOMAIN element[y].timers, Came(y, m, b)
        PROVE  k = m
    <3>1. timer[element[y].timers[a]].key = timer[element[y].timers[b]].key
      BY <2>6 DEF Came
    <3>2. a = b
      BY <3>1 DEF KeysUnique
    <3> QED  BY <2>1, <2>6, <3>2 DEF ArrayKept
  <2> QED  BY <2>2, <2>3, <2>4, <2>5, <2>6
<1> QED  BY <1>5, <1>6, <1>7, <1>8

(* No timer but the current one, while it is being cancelled, has used up  *)
(* its repeat count; a call adds none.                                     *)
LEMMA EffectOnRepeat ==
    ASSUME TInv, TInv', ArrayEffect, RepeatHonoured, pc # "cancel"
    PROVE  RepeatHonoured'
<1> SUFFICES ASSUME NEW x \in Target, NEW t \in ToSet(element'[x].timers)
             PROVE  ~ Exhausted(timer'[t])
  BY DEF RepeatHonoured, Scheduled
<1>1. PICK m \in DOMAIN element'[x].timers : t = element'[x].timers[m]
  BY DEF ToSet
<1>2. CASE Entered(x, m)
  BY <1>1, <1>2 DEF Entered
<1>3. CASE \E n \in DOMAIN element[x].timers : Came(x, m, n)
  <2>1. PICK n \in DOMAIN element[x].timers : Came(x, m, n)
    BY <1>3
  <2>2. ~ Exhausted(timer[element[x].timers[n]])
    BY SlotFacts DEF RepeatHonoured
  <2> QED  BY <1>1, <2>1, <2>2 DEF Came, Exhausted
<1> QED  BY <1>2, <1>3 DEF ArrayEffect, ArrayKept

-----------------------------------------------------------------------------
(* What all calls do to the hash: the targets owed a visit that are behind *)
(* the current one stay behind it, and only the current target, which is   *)
(* then flagged, may be left without timers.                               *)
HashEffect ==
    /\ currentTarget' = currentTarget
    /\ owed' \subseteq owed
    /\ currentTargetSalvaged => currentTargetSalvaged'
    /\ \A i, j \in DOMAIN hash :
          hash[i] = currentTarget /\ hash[j] \in owed' /\ i < j =>
             \E k, m \in DOMAIN hash' :
                k < m /\ hash'[k] = hash[i] /\ hash'[m] = hash[j]
    /\ \A x \in Target : Contains(hash', x) /\ element'[x].timers = <<>> =>
          \/ x = currentTarget /\ currentTargetSalvaged'
          \/ Contains(hash, x) /\ element[x].timers = <<>>

(* RemoveFirst keeps the order of what remains.                            *)
LEMMA RemoveFirstOrder ==
    ASSUME NEW S, NEW s \in Seq(S), Injective(s), NEW x, Contains(s, x),
           NEW i \in DOMAIN s, NEW j \in DOMAIN s, i < j, s[i] # x, s[j] # x
    PROVE  \E k, m \in DOMAIN RemoveFirst(s, x) :
              k < m /\ RemoveFirst(s, x)[k] = s[i] /\ RemoveFirst(s, x)[m] = s[j]
<1>1. PICK p \in 1..Len(s) : s[p] = x
  BY DEF Contains
<1>2. {n \in 1..Len(s) : s[n] = x} = {p}
  BY <1>1 DEF Injective
<1>3. SelectInSeq(s, LAMBDA v : v = x) = p
  <2>1. Min({p}) = p
    BY <1>1 DEF Min
  <2> QED  BY <1>2, <2>1 DEF SelectInSeq
<1>4. RemoveFirst(s, x) = RemoveAt(s, p)
  BY <1>1, <1>3 DEF RemoveFirst
<1> DEFINE r == RemoveAt(s, p)
           new(n) == IF n < p THEN n ELSE n - 1
<1>5. /\ r \in Seq(S)
      /\ Len(r) = Len(s) - 1
      /\ \A n \in 1..(Len(s) - 1) : r[n] = IF n < p THEN s[n] ELSE s[n + 1]
  BY <1>1, RemoveAtProps
<1> HIDE DEF r
<1>6. ASSUME NEW n \in 1..Len(s), n # p
      PROVE  new(n) \in 1..Len(r) /\ r[new(n)] = s[n]
  <2>1. CASE n < p
    BY <1>1, <1>5, <2>1
  <2>2. CASE n > p
    <3>1. n - 1 \in 1..(Len(s) - 1) /\ ~ (n - 1 < p) /\ (n - 1) + 1 = n
      BY <1>1, <1>5, <2>2
    <3>2. r[n - 1] = s[n]
      BY <1>5, <3>1
    <3> QED  BY <1>1, <1>5, <2>2, <3>1, <3>2
  <2> QED  BY <1>1, <1>6, <2>1, <2>2
<1>7. i \in 1..Len(s) /\ j \in 1..Len(s) /\ i # p /\ j # p
  BY <1>1
<1>8. new(i) < new(j)
  BY <1>1, <1>7
<1>9. /\ new(i) \in DOMAIN r /\ new(j) \in DOMAIN r
      /\ r[new(i)] = s[i] /\ r[new(j)] = s[j]
  BY <1>5, <1>6, <1>7
<1> HIDE DEF new
<1> QED  BY <1>4, <1>8, <1>9 DEF r

(* A step that leaves the hash, the current target and its flag alone and  *)
(* empties no array.                                                       *)
LEMMA SameHash ==
    ASSUME TInv, hash' = hash, currentTarget' = currentTarget, owed' = owed,
           currentTargetSalvaged' = currentTargetSalvaged,
           \A x \in Target : element'[x].timers = <<>> => element[x].timers = <<>>
    PROVE  HashEffect
BY DEF HashEffect

LEMMA UnscheduleFoundHash ==
    ASSUME TInv, NEW x \in Target,
           NEW i \in DOMAIN element[x].timers, UnscheduleFound(x, i)
    PROVE  HashEffect
<1> DEFINE e == element[x]
           rest == RemoveAt(e.timers, i)
<1>1. element \in [Target -> HashElement] /\ e \in HashElement
  BY SlotFacts DEF TInv, TimerTypes
<1>2. hash \in Seq(Target) /\ Injective(hash) /\ Contains(hash, x)
  <2>1. e # NoElement
    BY <1>1 DEF NoElement, HashElement
  <2> QED  BY <2>1 DEF TInv, TimerTypes, HashHolds, Injective
<1>3. /\ currentTarget' = currentTarget
      /\ currentTargetSalvaged' =
            (currentTargetSalvaged \/ (rest = <<>> /\ currentTarget = x))
  BY DEF UnscheduleFound
<1>4. CASE rest = <<>> /\ currentTarget # x
  <2>1. /\ element' = [element EXCEPT ![x] = NoElement]
        /\ hash' = RemoveFirst(hash, x)
        /\ owed' = owed \ {x}
    BY <1>4 DEF UnscheduleFound
  <2>2. \A y : Contains(hash', y) <=> Contains(hash, y) /\ y # x
    BY <1>2, <2>1, RemoveFirstProps
  <2>3. \A y \in Target : y # x => element'[y] = element[y]
    BY <1>1, <2>1
  <2>4. ASSUME NEW k \in DOMAIN hash, NEW m \in DOMAIN hash,
               hash[k] = currentTarget, hash[m] \in owed', k < m
        PROVE  \E a, b \in DOMAIN hash' :
                  a < b /\ hash'[a] = hash[k] /\ hash'[b] = hash[m]
    <3>1. hash[k] # x /\ hash[m] # x
      BY <1>4, <2>1, <2>4
    <3> QED  BY <1>2, <2>1, <2>4, <3>1, RemoveFirstOrder
  <2>5. currentTargetSalvaged => currentTargetSalvaged'
    BY <1>3
  <2> QED  BY <1>3, <2>1, <2>2, <2>3, <2>4, <2>5 DEF HashEffect
<1>5. CASE ~ (rest = <<>> /\ currentTarget # x)
  <2>1. /\ element' = [element EXCEPT ![x].timers = rest,
                                      ![x].timerIndex = Adjusted(@, i),
                                      ![x].salvaged = @ \/ Salvages(x, e.timers[i])]
        /\ hash' = hash /\ owed' = owed
    BY <1>5 DEF UnscheduleFound
  <2>2. /\ element'[x].timers = rest
        /\ \A y \in Target : y # x => element'[y] = element[y]
    BY <1>1, <2>1 DEF HashElement
  <2>3. currentTargetSalvaged => currentTargetSalvaged'
    BY <1>3
  <2>4. rest = <<>> => x = currentTarget /\ currentTargetSalvaged'
    BY <1>3, <1>5
  <2> HIDE DEF rest
  <2> QED  BY <1>3, <2>1, <2>2, <2>3, <2>4 DEF HashEffect
<1> QED  BY <1>4, <1>5

LEMMA UnscheduleTargetsHash ==
    ASSUME TInv, NEW S \in SUBSET Target, NEW rest,
           UnscheduleTargets(S, rest),
           \A y \in Target : Contains(rest, y) =>
              Contains(hash, y) /\ (y \notin S \/ y = currentTarget),
           \A i, j \in DOMAIN hash :
              hash[i] = currentTarget /\ hash[j] \in owed \ S /\ i < j =>
                 \E k, m \in DOMAIN rest :
                    k < m /\ rest[k] = hash[i] /\ rest[m] = hash[j]
    PROVE  HashEffect
<1>1. /\ hash' = rest /\ owed' = owed \ S /\ currentTarget' = currentTarget
      /\ currentTargetSalvaged' = (currentTargetSalvaged \/ currentTarget \in S)
      /\ \A y \in Target \ S : element'[y] = element[y]
  BY DEF UnscheduleTargets
<1>2. currentTargetSalvaged => currentTargetSalvaged'
  BY <1>1
<1>3. currentTarget \in S => currentTargetSalvaged'
  BY <1>1
<1>4. \A x \in Target : Contains(hash', x) /\ element'[x].timers = <<>> =>
          \/ x = currentTarget /\ currentTargetSalvaged'
          \/ Contains(hash, x) /\ element[x].timers = <<>>
  BY <1>1, <1>3
<1> QED  BY <1>1, <1>2, <1>4 DEF HashEffect

(* A sequence that something was appended to is not empty.                 *)
LEMMA AppendNotEmpty ==
    ASSUME NEW S, NEW s \in Seq(S), NEW t \in S
    PROVE  Append(s, t) # <<>>
<1>1. Len(Append(s, t)) = Len(s) + 1 /\ Len(s) \in Nat
  OBVIOUS
<1> QED  BY <1>1

LEMMA ScheduleNewHash ==
    ASSUME TInv, NEW x \in Target, NEW k \in Key, NEW iv \in Interval,
           NEW rp \in Repeat, NEW dl \in Delay, NEW paused \in BOOLEAN,
           ScheduleNew(x, k, iv, rp, dl, paused)
    PROVE  HashEffect
<1>1. PICK t \in Timer :
          element' = [element EXCEPT
                ![x].timers = Append(@, t),
                ![x].paused = IF Contains(hash, x) THEN @ ELSE paused]
  BY DEF ScheduleNew
<1>2. UNCHANGED <<currentTarget, currentTargetSalvaged, owed>>
  BY DEF ScheduleNew
<1>3. element'[x].timers # <<>> /\ \A y \in Target : y # x => element'[y] = element[y]
  <2>1. element \in [Target -> HashElement] /\ element[x].timers \in Seq(Timer)
    BY SlotFacts DEF TInv, TimerTypes
  <2>2. element'[x].timers = Append(element[x].timers, t)
    BY <1>1, <2>1 DEF HashElement
  <2>3. Append(element[x].timers, t) # <<>>
    BY <2>1, AppendNotEmpty
  <2> QED  BY <1>1, <2>1, <2>2, <2>3
<1>4. CASE hash' = hash
  BY <1>2, <1>3, <1>4 DEF HashEffect
<1>5. CASE hash' = Append(hash, x)
  <2>1. hash \in Seq(Target)
    BY DEF TInv, TimerTypes
  <2>2. \A i \in DOMAIN hash : i \in DOMAIN hash' /\ hash'[i] = hash[i]
    BY <1>5, <2>1
  <2>3. \A y : Contains(hash', y) => Contains(hash, y) \/ y = x
    <3>1. /\ Len(hash') = Len(hash) + 1 /\ Len(hash) \in Nat
          /\ \A i \in 1..(Len(hash) + 1) :
                hash'[i] = IF i = Len(hash) + 1 THEN x ELSE hash[i]
      BY <1>5, <2>1
    <3> QED  BY <3>1 DEF Contains
  <2> QED  BY <1>2, <1>3, <2>2, <2>3 DEF HashEffect
<1> QED  BY <1>4, <1>5 DEF ScheduleNew

LEMMA UnscheduleHash ==
    ASSUME TInv, NEW x \in Target, NEW k, Unschedule(x, k)
    PROVE  HashEffect
<1>1. CASE \E i \in Slots(x, k) : UnscheduleFound(x, i)
  BY <1>1, UnscheduleFoundHash DEF Slots
<1>2. CASE UNCHANGED timerVars
  BY <1>2, SameHash DEF timerVars
<1> QED  BY <1>1, <1>2 DEF Unschedule

LEMMA CallHash ==
    ASSUME TInv, Call
    PROVE  HashEffect
<1>0. hash \in Seq(Target) /\ Injective(hash)
  BY DEF TInv, TimerTypes, HashHolds, Injective
<1>1. CASE \E x \in Target, k \in Key, iv \in Interval : ScheduleAgain(x, k, iv)
  BY <1>1, SameHash DEF ScheduleAgain
<1>2. CASE \E x \in Target, k \in Key, iv \in Interval, rp \in Repeat,
              dl \in Delay, paused \in BOOLEAN :
              ScheduleNew(x, k, iv, rp, dl, paused)
  BY <1>2, ScheduleNewHash
<1>3. CASE \E x \in Target, k \in Key : Unschedule(x, k)
  BY <1>3, UnscheduleHash
<1>4. CASE \E x \in Target : UnscheduleAllForTarget(x)
  <2>1. PICK x \in Target : UnscheduleAllForTarget(x)
    BY <1>4
  <2> DEFINE rest == IF x = currentTarget THEN hash ELSE RemoveFirst(hash, x)
  <2>2. Contains(hash, x) /\ UnscheduleTargets({x}, rest)
    BY <2>1 DEF UnscheduleAllForTarget
  <2>3. \A y \in Target : Contains(rest, y) =>
           Contains(hash, y) /\ (y \notin {x} \/ y = currentTarget)
    BY <1>0, <2>2, RemoveFirstProps
  <2>4. ASSUME NEW i \in DOMAIN hash, NEW j \in DOMAIN hash,
               hash[i] = currentTarget, hash[j] \in owed \ {x}, i < j
        PROVE  \E k, m \in DOMAIN rest : k < m /\ rest[k] = hash[i] /\ rest[m] = hash[j]
    BY <1>0, <2>2, <2>4, RemoveFirstOrder
  <2>5. {x} \in SUBSET Target
    OBVIOUS
  <2> HIDE DEF rest
  <2> QED  BY <2>2, <2>3, <2>4, <2>5, UnscheduleTargetsHash
<1>5. CASE UnscheduleAll
  <2> DEFINE rest == IF currentTarget = NoTarget THEN <<>> ELSE <<currentTarget>>
  <2>1. UnscheduleTargets(Target, rest)
    BY <1>5 DEF UnscheduleAll
  <2>2. owed \ Target = {}
    BY DEF TInv, TimerTypes
  <2>3. currentTarget # NoTarget => Contains(hash, currentTarget)
    BY DEF TInv, HashHolds
  <2>4. \A y \in Target : Contains(rest, y) =>
           Contains(hash, y) /\ (y \notin Target \/ y = currentTarget)
    BY <2>3 DEF Contains
  <2>5. Target \in SUBSET Target
    OBVIOUS
  <2> HIDE DEF rest
  <2> QED  BY <2>1, <2>2, <2>4, <2>5, UnscheduleTargetsHash
<1>6. CASE \E S, paused : PauseTargets(S, paused)
  <2>1. PICK S, paused : PauseTargets(S, paused)
    BY <1>6
  <2>2. ASSUME NEW x \in Target
        PROVE  element'[x].timers = element[x].timers
    <3>1. element[x] \in HashElement
      BY SlotFacts
    <3>2. element'[x] = element[x] \/ element'[x] = [element[x] EXCEPT !.paused = paused]
      BY <2>1 DEF PauseTargets
    <3> QED  BY <3>1, <3>2 DEF HashElement
  <2>3. UNCHANGED <<hash, currentTarget, owed, currentTargetSalvaged>>
    BY <2>1 DEF PauseTargets
  <2> QED  BY <2>2, <2>3, SameHash
<1> QED  BY <1>1, <1>2, <1>3, <1>4, <1>5, <1>6
         DEF Call, PauseTarget, ResumeTarget, PauseAllTargets, ResumeTargets

(* The parts of VisitInv about the hash follow.                            *)
LEMMA EffectOnHash ==
    ASSUME SamePlace, HashEffect, OwedAhead, EmptyFlagged
    PROVE  OwedAhead' /\ EmptyFlagged'
<1>1. pc # "target" /\ pc' # "target"
  BY DEF SamePlace, Triggering
<1>2. OwedAhead'
  BY <1>1 DEF HashEffect, OwedAhead
<1>3. EmptyFlagged'
  BY <1>1 DEF HashEffect, EmptyFlagged
<1> QED  BY <1>2, <1>3

(* No call of the interface breaks VisitInv.                               *)
LEMMA CallVisit ==
    ASSUME TInv, VisitInv, Call
    PROVE  VisitInv'
<1>1. SamePlace /\ pc # "cancel" /\ TInv'
  BY CallInv DEF Call, Calling, SamePlace, Triggering
<1> QED  BY <1>1, CallArray, CallHash, EffectOnVisit, EffectOnRepeat, EffectOnHash
         DEF VisitInv

-----------------------------------------------------------------------------
(* The steps of update().                                                  *)

(* A step that leaves every array alone and the key of every timer in one. *)
LEMMA KeysKept ==
    ASSUME TInv, KeysUnique,
           \A x \in Target : element'[x].timers = element[x].timers,
           \A x \in Target : \A t \in Scheduled(x) : timer'[t].key = timer[t].key
    PROVE  KeysUnique'
<1> SUFFICES ASSUME NEW x \in Target,
                    NEW i \in DOMAIN element[x].timers,
                    NEW j \in DOMAIN element[x].timers,
                    timer'[element[x].timers[i]].key = timer'[element[x].timers[j]].key
             PROVE  i = j
  BY DEF KeysUnique
<1>1. /\ timer'[element[x].timers[i]].key = timer[element[x].timers[i]].key
      /\ timer'[element[x].timers[j]].key = timer[element[x].timers[j]].key
  BY SlotFacts
<1> QED  BY <1>1 DEF KeysUnique

(* The places between two visits of targets.                               *)
LEMMA Places ==
    /\ InTimer \subseteq Walking /\ "timer" \in Walking /\ "timer" \notin InTimer
    /\ \A p \in {"idle", "target", "leave", "functions", "swap", "run", "function"} :
          p \notin Walking /\ p \notin InTimer
BY DEF Walking, InTimer, Triggering

LEMMA BeginFrameVisit ==
    ASSUME TInv, VisitInv, BeginFrame
    PROVE  VisitInv'
<1>1. /\ pc = "idle" /\ pc' = "target"
      /\ UNCHANGED <<hash, element, timer, due>>
      /\ owed' = ToSet(hash)
      /\ currentTarget' = IF hash = <<>> THEN NoTarget ELSE Head(hash)
  BY DEF BeginFrame
<1>2. currentTarget = NoTarget /\ hash \in Seq(Target)
  BY <1>1 DEF TInv, TimerTypes, HashHolds, Visiting, Triggering
<1>3. IndexInPlace' /\ DueAhead' /\ AheadDueOrNew'
  BY <1>1, Places DEF VisitInv, IndexInPlace, DueAhead, AheadDueOrNew
<1>4. OwedAhead'
  <2> SUFFICES ASSUME NEW x \in ToSet(hash)
               PROVE  \E i, j \in DOMAIN hash :
                         /\ hash[i] = currentTarget'
                         /\ hash[j] = x
                         /\ i < j \/ i = j
    BY <1>1 DEF OwedAhead
  <2>1. PICK j \in 1..Len(hash) : hash[j] = x
    BY <1>2 DEF ToSet
  <2>2. hash # <<>> /\ 1 \in DOMAIN hash /\ hash[1] = Head(hash)
    BY <1>2, <2>1
  <2>3. 1 < j \/ 1 = j
    BY <1>2, <2>1
  <2> QED  BY <1>1, <1>2, <2>1, <2>2, <2>3
<1>5. KeysUnique'
  BY <1>1 DEF VisitInv, KeysUnique
<1>6. EmptyFlagged'
  BY <1>1, <1>2, ConstantAssumption DEF VisitInv, EmptyFlagged
<1>7. RepeatHonoured'
  BY <1>1 DEF VisitInv, RepeatHonoured, Scheduled
<1> QED  BY <1>3, <1>4, <1>5, <1>6, <1>7 DEF VisitInv

LEMMA VisitTargetVisit ==
    ASSUME TInv, VisitInv, VisitTarget
    PROVE  VisitInv'
<1>1. /\ pc = "target" /\ currentTarget \in Target
      /\ pc' \in {"timer", "leave"} /\ pc' \notin InTimer
      /\ UNCHANGED <<hash, timer, currentTarget>>
      /\ owed' = owed \ {currentTarget}
  BY Places DEF VisitTarget, TInv, TimerTypes
<1>2. element \in [Target -> HashElement] /\ element[currentTarget] \in HashElement
  BY <1>1 DEF TInv, TimerTypes
<1>3. \/ /\ pc' = "leave" /\ due' = {} /\ element' = element
      \/ /\ pc' = "timer" /\ due' = Scheduled(currentTarget)
         /\ element' = [element EXCEPT ![currentTarget] =
                           [element[currentTarget] EXCEPT !.timerIndex = 1]]
  BY <1>2 DEF VisitTarget
<1>4. /\ \A x \in Target : element'[x].timers = element[x].timers
      /\ pc' = "timer" => element'[currentTarget].timerIndex = 1
  BY <1>1, <1>2, <1>3 DEF HashElement
<1>5. IndexInPlace'
  BY <1>1 DEF IndexInPlace
<1>6. CASE pc' = "leave"
  <2>1. due' = {} /\ pc' \notin Walking
    BY <1>3, <1>6, Places
  <2> QED  BY <2>1, <1>5, <1>1, <1>4, <1>6, KeysKept DEF VisitInv, DueAhead, AheadDueOrNew,
           OwedAhead, EmptyFlagged, RepeatHonoured, Scheduled
<1>7. CASE pc' = "timer"
  <2>1. due' = Scheduled(currentTarget) /\ pc' \in Walking /\ NextSlot' = 1
    BY <1>1, <1>3, <1>4, <1>7, Places DEF NextSlot
  <2>2. element'[currentTarget].timers = element[currentTarget].timers
          /\ element[currentTarget].timers \in Seq(Timer)
    BY <1>1, <1>2, <1>4 DEF HashElement
  <2>3. DueAhead'
    BY <1>1, <2>1, <2>2 DEF DueAhead, Scheduled, ToSet
  <2>4. AheadDueOrNew'
    BY <1>1, <2>1, <2>2 DEF AheadDueOrNew, Scheduled, ToSet
  <2> QED  BY <2>3, <2>4, <1>5, <1>1, <1>4, <1>7, KeysKept DEF VisitInv,
           OwedAhead, EmptyFlagged, RepeatHonoured, Scheduled
<1> QED  BY <1>1, <1>6, <1>7

(* A new count of a timer whose update begins: its own, or none.           *)
LEMMA BeginTimerFacts ==
    ASSUME TInv, BeginTimer
    PROVE  LET e == element[currentTarget]
               t == e.timers[e.timerIndex]
           IN  /\ pc = "timer" /\ pc' \in InTimer
               /\ currentTarget \in Target
               /\ e.timerIndex \in DOMAIN e.timers
               /\ t \in Timer /\ timer[t] \in TimerObject
               /\ \E o : /\ timer' = [timer EXCEPT ![t] = o]
                         /\ o.key = timer[t].key
                         /\ o.repeat = timer[t].repeat
                         /\ o.times \in {0, timer[t].times}
               /\ pc' \in Triggering => timer[t].elapsed # -1
<1> DEFINE e == element[currentTarget]
           t == e.timers[e.timerIndex]
           waited == [timer[t] EXCEPT !.elapsed = @ + dt]
<1>1. /\ pc = "timer" /\ currentTarget \in Target
      /\ e.timerIndex >= 1 /\ e.timerIndex <= Len(e.timers)
  BY DEF BeginTimer, TInv, TimerTypes, HashHolds, Visiting, CurrentTimers
<1>2. e.timerIndex \in DOMAIN e.timers
  BY <1>1, SlotFacts DEF HashElement
<1>3. t \in Timer /\ timer[t] \in TimerObject
  BY <1>1, <1>2, SlotFacts
<1>4. \/ /\ timer[t].elapsed = -1
         /\ timer' = [timer EXCEPT ![t].elapsed = 0, ![t].times = 0]
         /\ pc' = "returned"
      \/ /\ timer[t].elapsed # -1
         /\ timer' = [timer EXCEPT ![t] = waited]
         /\ pc' \in {"returned", "delay", "interval"}
  BY DEF BeginTimer, EnterLoop
<1>5. pc' \in InTimer
  BY <1>4 DEF InTimer, Triggering
<1> HIDE DEF t
<1>6. \E o : /\ timer' = [timer EXCEPT ![t] = o]
             /\ o.key = timer[t].key
             /\ o.repeat = timer[t].repeat
             /\ o.times \in {0, timer[t].times}
  <2>1. CASE timer' = [timer EXCEPT ![t].elapsed = 0, ![t].times = 0]
    <3> DEFINE o == [timer[t] EXCEPT !.elapsed = 0, !.times = 0]
    <3>1. timer' = [timer EXCEPT ![t] = o]
      BY <1>3, <2>1 DEF TInv, TimerTypes
    <3>2. o.key = timer[t].key /\ o.repeat = timer[t].repeat /\ o.times = 0
      BY <1>3 DEF TimerObject
    <3> HIDE DEF o
    <3> QED  BY <3>1, <3>2
  <2>2. CASE timer' = [timer EXCEPT ![t] = waited]
    <3>1. waited.key = timer[t].key /\ waited.repeat = timer[t].repeat
             /\ waited.times = timer[t].times
      BY <1>3 DEF TimerObject
    <3> HIDE DEF waited
    <3> QED  BY <2>2, <3>1
  <2> QED  BY <1>4, <2>1, <2>2
<1>7. pc' \in Triggering => timer[t].elapsed # -1
  BY <1>4 DEF Triggering
<1> QED  BY <1>1, <1>2, <1>3, <1>5, <1>6, <1>7 DEF t

LEMMA BeginTimerVisit ==
    ASSUME TInv, VisitInv, BeginTimer
    PROVE  VisitInv'
<1> DEFINE e == element[currentTarget]
           t == e.timers[e.timerIndex]
<1>1. /\ pc = "timer" /\ pc' \in InTimer /\ pc' # "timer"
      /\ pc \in Walking /\ pc' \in Walking
      /\ currentTarget \in Target
      /\ e.timerIndex \in DOMAIN e.timers
      /\ t \in Timer /\ timer[t] \in TimerObject
  BY BeginTimerFacts, Places
<1>2. PICK o : /\ timer' = [timer EXCEPT ![t] = o]
               /\ o.key = timer[t].key
               /\ o.repeat = timer[t].repeat
               /\ o.times \in {0, timer[t].times}
  BY BeginTimerFacts
<1>3. /\ UNCHANGED <<hash, currentTarget, currentTargetSalvaged, owed>>
      /\ due' = due \ {t}
      /\ element' = [element EXCEPT ![currentTarget].currentTimer = t,
                                    ![currentTarget].salvaged = FALSE]
  BY DEF BeginTimer
<1>4. /\ \A x \in Target : element'[x].timers = element[x].timers
      /\ element'[currentTarget].timerIndex = e.timerIndex
      /\ element'[currentTarget].currentTimer = t
      /\ e.timers \in Seq(Timer) /\ e.timerIndex \in Nat
  BY <1>1, <1>3, SlotFacts DEF TInv, TimerTypes, HashElement
<1>5. /\ timer'[t] = o
      /\ \A u \in Timer : u # t => timer'[u] = timer[u]
  BY <1>1, <1>2 DEF TInv, TimerTypes
<1>6. NextSlot = e.timerIndex /\ NextSlot' = e.timerIndex + 1
  BY <1>1, <1>3, <1>4 DEF NextSlot
<1>7. IndexInPlace'
  BY <1>1, <1>3, <1>4 DEF IndexInPlace, Current
<1>8. DueAhead'
  <2> SUFFICES ASSUME NEW u \in due, u # t
               PROVE  \E i \in DOMAIN e.timers : i >= e.timerIndex + 1 /\ e.timers[i] = u
    <3>1. element'[currentTarget'].timers = e.timers /\ due' = due \ {t}
      BY <1>1, <1>3, <1>4
    <3> HIDE DEF t, e
    <3> QED  BY <1>1, <1>6, <3>1 DEF DueAhead
  <2>1. PICK i \in DOMAIN e.timers : i >= e.timerIndex /\ e.timers[i] = u
    BY <1>1, <1>6 DEF VisitInv, DueAhead
  <2>2. i \in Nat /\ i # e.timerIndex
    BY <1>4, <2>1
  <2> QED  BY <1>4, <2>1, <2>2
<1>9. AheadDueOrNew'
  <2> SUFFICES ASSUME NEW i \in DOMAIN e.timers, i >= e.timerIndex + 1
               PROVE  e.timers[i] \in due' \/ timer'[e.timers[i]].elapsed = -1
    BY <1>1, <1>3, <1>4, <1>6 DEF AheadDueOrNew
  <2>1. i >= e.timerIndex /\ i # e.timerIndex
    BY <1>4
  <2>2. e.timers[i] # t /\ e.timers[i] \in Timer
    BY <1>1, <2>1, SlotFacts
  <2>3. e.timers[i] \in due \/ timer[e.timers[i]].elapsed = -1
    BY <1>1, <1>6, <2>1 DEF VisitInv, AheadDueOrNew
  <2> QED  BY <1>3, <1>5, <2>2, <2>3
<1>10. OwedAhead' /\ EmptyFlagged'
  <2> HIDE DEF t, e
  <2>1. OwedAhead'
    BY <1>1, <1>3 DEF VisitInv, OwedAhead
  <2>2. EmptyFlagged'
    BY <1>1, <1>3, <1>4, Places DEF VisitInv, EmptyFlagged
  <2> QED  BY <2>1, <2>2
<1>11. KeysUnique'
  <2>1. \A x \in Target : \A u \in Scheduled(x) : timer'[u].key = timer[u].key
    BY <1>2, <1>5, ScheduledTimers
  <2> QED  BY <1>4, <2>1, KeysKept DEF VisitInv
<1>12. RepeatHonoured'
  <2> SUFFICES ASSUME NEW x \in Target, NEW u \in Scheduled(x)
               PROVE  ~ Exhausted(timer'[u])
    BY <1>4 DEF RepeatHonoured, Scheduled
  <2>1. u \in Timer /\ ~ Exhausted(timer[u])
    BY <1>1, ScheduledTimers DEF VisitInv, RepeatHonoured
  <2>2. CASE u # t
    BY <1>5, <2>1, <2>2
  <2>3. CASE u = t
    <3>1. timer[t].repeat \in Nat \cup {Forever}
      BY <1>1, ConstantAssumption DEF TimerObject
    <3>2. timer'[u] = o
      BY <1>5, <2>3
    <3> HIDE DEF t
    <3> QED  BY <1>2, <2>1, <2>3, <3>1, <3>2 DEF Exhausted
  <2> QED  BY <2>2, <2>3
<1> QED  BY <1>7, <1>8, <1>9, <1>10, <1>11, <1>12 DEF VisitInv

(* A callback returns: only the current timer's object changes, and it is  *)
(* behind the index.                                                       *)
LEMMA ReturnVisit ==
    ASSUME TInv, VisitInv, pc \in Triggering, pc' \in InTimer,
           NEW o, timer' = [timer EXCEPT ![Current] = o],
           o.key = timer[Current].key,
           Exhausted(o) => pc' = "cancel",
           UNCHANGED <<hash, element, currentTarget, currentTargetSalvaged, due, owed>>
    PROVE  VisitInv'
<1> DEFINE e == element[currentTarget]
<1>1. /\ pc \in InTimer /\ pc \in Walking /\ pc' \in Walking
      /\ pc # "timer" /\ pc' # "timer" /\ pc # "cancel" /\ pc # "target" /\ pc' # "target"
  BY Places DEF Triggering, InTimer
<1>2. /\ currentTarget \in Target /\ Current \in Timer
      /\ timer[Current].target = currentTarget
  BY <1>1, RunningTimer
<1>3. /\ timer'[Current] = o
      /\ \A u \in Timer : u # Current => timer'[u] = timer[u]
      /\ Current' = Current
  BY <1>2 DEF TInv, TimerTypes, Current
<1>4. NextSlot = e.timerIndex + 1 /\ NextSlot' = NextSlot /\ e.timerIndex \in Nat
  BY <1>1, <1>2, SlotFacts DEF NextSlot, HashElement
<1>5. IndexInPlace'
  BY <1>1, <1>3 DEF VisitInv, IndexInPlace
<1>6. DueAhead'
  BY <1>1, <1>4 DEF VisitInv, DueAhead
<1>7. ASSUME NEW i \in DOMAIN e.timers, i >= NextSlot
      PROVE  e.timers[i] # Current /\ e.timers[i] \in Timer
  <2>1. e.timers[i] \in Scheduled(currentTarget) /\ e.timers[i] \in Timer /\ i \in Nat
    BY <1>2, SlotFacts
  <2>2. ASSUME e.timers[i] = Current
        PROVE  FALSE
    <3>1. ~ e.salvaged
      BY <1>1, <2>1, <2>2 DEF TInv, CurrentTimers
    <3>2. e.timerIndex \in DOMAIN e.timers /\ e.timers[e.timerIndex] = Current
      BY <1>1, <3>1 DEF VisitInv, IndexInPlace
    <3>3. i = e.timerIndex
      BY <1>2, <2>2, <3>2, SlotFacts
    <3> QED  BY <1>4, <1>7, <3>3
  <2> QED  BY <2>1, <2>2
<1>8. AheadDueOrNew'
  BY <1>1, <1>3, <1>4, <1>7 DEF VisitInv, AheadDueOrNew
<1>9. OwedAhead' /\ EmptyFlagged'
  <2>1. OwedAhead'
    BY <1>1 DEF VisitInv, OwedAhead
  <2>2. EmptyFlagged'
    BY <1>1 DEF VisitInv, EmptyFlagged
  <2> QED  BY <2>1, <2>2
<1>10. KeysUnique'
  <2>1. \A x \in Target : \A u \in Scheduled(x) : timer'[u].key = timer[u].key
    BY <1>3, ScheduledTimers
  <2> QED  BY <2>1, KeysKept DEF VisitInv
<1>11. RepeatHonoured'
  <2> SUFFICES ASSUME NEW x \in Target, NEW u \in Scheduled(x), Exhausted(timer'[u])
               PROVE  pc' = "cancel" /\ Current = u
    BY <1>3 DEF RepeatHonoured, Scheduled
  <2>1. u \in Timer /\ ~ Exhausted(timer[u])
    BY <1>1, ScheduledTimers DEF VisitInv, RepeatHonoured
  <2> QED  BY <1>3, <2>1
<1> QED  BY <1>5, <1>6, <1>8, <1>9, <1>10, <1>11 DEF VisitInv

LEMMA ReturnFromDelayVisit ==
    ASSUME TInv, VisitInv, ReturnFromDelay
    PROVE  VisitInv'
<1> DEFINE old == timer[Current]
           o == [old EXCEPT !.elapsed = @ - old.delay,
                            !.times = Counted(old),
                            !.useDelay = FALSE]
<1>1. pc \in Triggering /\ pc \in InTimer
  BY DEF ReturnFromDelay, InTimer, Triggering
<1>2. o.key = old.key
  BY <1>1, RunningTimer DEF TimerObject
<1>3. /\ \/ Exhausted(o) /\ timer' = [timer EXCEPT ![Current] = o] /\ pc' = "cancel"
         \/ ~ Exhausted(o) /\ EnterLoop(Current, o)
      /\ UNCHANGED <<hash, element, currentTarget, currentTargetSalvaged, due, owed>>
  BY DEF ReturnFromDelay
<1> HIDE DEF o
<1>4. /\ timer' = [timer EXCEPT ![Current] = o]
      /\ Exhausted(o) => pc' = "cancel"
      /\ pc' \in InTimer
  BY <1>3 DEF EnterLoop, InTimer, Triggering
<1> QED  BY <1>1, <1>2, <1>3, <1>4, ReturnVisit

LEMMA ReturnFromIntervalVisit ==
    ASSUME TInv, VisitInv, ReturnFromInterval
    PROVE  VisitInv'
<1> DEFINE old == timer[Current]
           o == [old EXCEPT !.elapsed = @ - interval, !.times = Counted(old)]
<1>1. pc \in Triggering /\ pc \in InTimer
  BY DEF ReturnFromInterval, InTimer, Triggering
<1>2. o.key = old.key
  BY <1>1, RunningTimer DEF TimerObject
<1>3. /\ timer' = [timer EXCEPT ![Current] = o]
      /\ Exhausted(o) => pc' = "cancel"
      /\ pc' \in {"cancel", "returned", "interval"}
      /\ UNCHANGED <<hash, element, currentTarget, currentTargetSalvaged, due, owed>>
  BY DEF ReturnFromInterval
<1> HIDE DEF o
<1>4. pc' \in InTimer
  BY <1>3 DEF InTimer, Triggering
<1> QED  BY <1>1, <1>2, <1>3, <1>4, ReturnVisit

(* Unscheduling a key of the target being visited adds no timer anywhere   *)
(* and leaves the current timer.                                           *)
LEMMA UnscheduleShrinks ==
    ASSUME TInv, currentTarget \in Target, NEW k, Unschedule(currentTarget, k)
    PROVE  \A y \in Target :
              /\ element'[y].currentTimer = element[y].currentTimer
              /\ ToSet(element'[y].timers) \subseteq Scheduled(y)
<1> DEFINE e == element[currentTarget]
<1>1. CASE UNCHANGED timerVars
  BY <1>1 DEF timerVars, Scheduled
<1>2. CASE \E i \in Slots(currentTarget, k) : UnscheduleFound(currentTarget, i)
  <2>1. PICK i \in DOMAIN e.timers : UnscheduleFound(currentTarget, i)
    BY <1>2 DEF Slots
  <2> DEFINE r == RemoveAt(e.timers, i)
             s == e.salvaged \/ Salvages(currentTarget, e.timers[i])
  <2>2. element' = [element EXCEPT ![currentTarget].timers = r,
                                   ![currentTarget].timerIndex = Adjusted(@, i),
                                   ![currentTarget].salvaged = s]
    BY <2>1 DEF UnscheduleFound
  <2>3. e.timers \in Seq(Timer) /\ e \in HashElement /\ element \in [Target -> HashElement]
    BY SlotFacts DEF TInv, TimerTypes
  <2>4. /\ Len(r) = Len(e.timers) - 1
        /\ r \in Seq(Timer)
        /\ \A j \in 1..(Len(e.timers) - 1) :
              r[j] = IF j < i THEN e.timers[j] ELSE e.timers[j + 1]
    BY <2>3, RemoveAtProps
  <2> HIDE DEF r, s
  <2>5. /\ element'[currentTarget].currentTimer = e.currentTimer
        /\ element'[currentTarget].timers = r
        /\ \A y \in Target : y # currentTarget => element'[y] = element[y]
    BY <2>2, <2>3 DEF HashElement
  <2>6. ToSet(r) \subseteq ToSet(e.timers)
    <3> SUFFICES ASSUME NEW m \in 1..(Len(e.timers) - 1)
                 PROVE  \E n \in DOMAIN e.timers : r[m] = e.timers[n]
      BY <2>3, <2>4 DEF ToSet
    <3>1. CASE m < i
      BY <2>3, <2>4, <3>1
    <3>2. CASE ~ m < i
      BY <2>3, <2>4, <3>2
    <3> QED  BY <3>1, <3>2
  <2> QED  BY <2>5, <2>6 DEF Scheduled
<1> QED  BY <1>1, <1>2 DEF Unschedule

(* cancel() removes the timer that asked for it, because its key is its    *)
(* own among the timers of its target.                                     *)
LEMMA CancelVisit ==
    ASSUME TInv, OtherTypes, VisitInv, Cancel
    PROVE  VisitInv'
<1> DEFINE k == timer[Current].key
<1>1. SamePlace /\ pc = "cancel" /\ pc' = "returned" /\ pc \in InTimer /\ pc' \in InTimer
  BY DEF Cancel, SamePlace, InTimer
<1>2. /\ currentTarget \in Target /\ Current \in Timer
      /\ timer[Current].target = currentTarget
  BY <1>1, RunningTimer
<1>3. Unschedule(currentTarget, k)
  BY <1>2 DEF Cancel
<1>4. TInv' /\ ArrayEffect /\ HashEffect
  BY <1>2, <1>3, CancelInv, UnscheduleArray, UnscheduleHash DEF VisitInv
<1>5. IndexInPlace' /\ DueAhead' /\ AheadDueOrNew' /\ KeysUnique' /\ OwedAhead' /\ EmptyFlagged'
  BY <1>1, <1>4, EffectOnVisit, EffectOnHash DEF VisitInv
<1>6. currentTarget' = currentTarget
  BY <1>4 DEF ArrayEffect
<1>7. Current \notin ToSet(element'[currentTarget].timers)
  <2> DEFINE e == element[currentTarget]
  <2>1. ASSUME NEW i \in Slots(currentTarget, k), UnscheduleFound(currentTarget, i)
        PROVE  Current \notin ToSet(element'[currentTarget].timers)
    <3>1. i \in DOMAIN e.timers /\ timer[e.timers[i]].key = k
      BY <2>1 DEF Slots
    <3>2. CASE Current \in Scheduled(currentTarget)
      <4>1. PICK j \in DOMAIN e.timers : e.timers[j] = Current
        BY <1>2, <3>2, SlotFacts DEF Scheduled, ToSet
      <4>2. i = j
        BY <1>2, <3>1, <4>1 DEF VisitInv, KeysUnique
      <4>3. e.timers[i] = Current /\ Salvages(currentTarget, e.timers[i])
        BY <1>2, <3>2, <4>1, <4>2, CurrentFacts
      <4>4. element \in [Target -> HashElement] /\ e \in HashElement
        BY <1>2 DEF TInv, TimerTypes
      <4>5. element' = [element EXCEPT
                           ![currentTarget].timers = RemoveAt(e.timers, i),
                           ![currentTarget].timerIndex = Adjusted(@, i),
                           ![currentTarget].salvaged = @ \/ Salvages(currentTarget, e.timers[i])]
        BY <2>1 DEF UnscheduleFound
      <4>6. element'[currentTarget].salvaged /\ element'[currentTarget].currentTimer = Current
        BY <1>2, <4>3, <4>4, <4>5 DEF HashElement, Current
      <4> QED  BY <1>1, <1>4, <1>6, <4>6 DEF TInv, CurrentTimers, Scheduled, Current
    <3>3. CASE Current \notin Scheduled(currentTarget)
      BY <1>2, <1>3, <3>3, UnscheduleShrinks
    <3> QED  BY <3>2, <3>3
  <2>2. ASSUME Slots(currentTarget, k) = {}, UNCHANGED timerVars
        PROVE  Current \notin ToSet(element'[currentTarget].timers)
    BY <2>2 DEF timerVars, Slots, ToSet
  <2> QED  BY <1>3, <2>1, <2>2 DEF Unschedule
<1>8. RepeatHonoured'
  <2> SUFFICES ASSUME NEW x \in Target, NEW t \in ToSet(element'[x].timers)
               PROVE  ~ Exhausted(timer'[t])
    BY DEF RepeatHonoured, Scheduled
  <2>1. t # Current
    <3>1. CASE x = currentTarget
      BY <1>7, <3>1
    <3>2. CASE x # currentTarget
      <4>1. timer'[t].target = x
        BY <1>4 DEF TInv, SlotsAllocated, Scheduled
      <4>2. Current' = Current /\ timer'[Current'].target = currentTarget
        <5>1. timer'[Current'].target = currentTarget'
          BY <1>1, <1>4 DEF TInv, CurrentTimers
        <5>2. \A y \in Target : element'[y].currentTimer = element[y].currentTimer
          BY <1>2, <1>3, UnscheduleShrinks
        <5> QED  BY <1>2, <1>6, <5>1, <5>2 DEF Current
      <4> QED  BY <3>2, <4>1, <4>2
    <3> QED  BY <3>1, <3>2
  <2>2. PICK m \in DOMAIN element'[x].timers : t = element'[x].timers[m]
    BY DEF ToSet
  <2>3. CASE Entered(x, m)
    BY <2>2, <2>3 DEF Entered
  <2>4. CASE \E n \in DOMAIN element[x].timers : Came(x, m, n)
    <3>1. PICK n \in DOMAIN element[x].timers : Came(x, m, n)
      BY <2>4
    <3>2. element[x].timers[n] = t
      BY <2>2, <3>1 DEF Came
    <3>3. ~ Exhausted(timer[t])
      BY <2>1, <3>1, <3>2, SlotFacts DEF VisitInv, RepeatHonoured
    <3> QED  BY <3>1, <3>2, <3>3 DEF Came, Exhausted
  <2> QED  BY <1>4, <2>3, <2>4 DEF ArrayEffect, ArrayKept
<1> QED  BY <1>5, <1>8 DEF VisitInv

LEMMA EndTimerVisit ==
    ASSUME TInv, VisitInv, EndTimer
    PROVE  VisitInv'
<1> DEFINE e == element[currentTarget]
<1>1. /\ pc = "returned" /\ pc \in InTimer /\ pc \in Walking
      /\ pc' = "timer" /\ pc' \in Walking /\ pc' \notin InTimer
      /\ UNCHANGED <<hash, currentTarget, currentTargetSalvaged, due, owed>>
  BY Places DEF EndTimer, InTimer
<1>2. currentTarget \in Target /\ Current \in Timer
  BY <1>1, RunningTimer
<1>3. /\ \A x \in Target : element'[x].timers = element[x].timers
      /\ element'[currentTarget].timerIndex = e.timerIndex + 1
  <2>1. element \in [Target -> HashElement] /\ e \in HashElement
    BY <1>2 DEF TInv, TimerTypes
  <2>2. element' = [element EXCEPT ![currentTarget].currentTimer = NoTimer,
                                   ![currentTarget].timerIndex = @ + 1]
    BY DEF EndTimer
  <2> QED  BY <1>2, <2>1, <2>2 DEF HashElement
<1>4. NextSlot' = NextSlot
  BY <1>1, <1>3 DEF NextSlot
<1>5. ASSUME NEW x \in Target, NEW u \in Scheduled(x)
      PROVE  timer'[u] = timer[u]
  <2>1. u \in Timer /\ Held(u)
    BY <1>5, ScheduledTimers DEF Held
  <2>2. u \notin Retained
    BY <1>2, <2>1, HeldNotSalvaged DEF Retained, Salvaged, Current
  <2> QED  BY <2>1, <2>2 DEF EndTimer, Release
<1>6. IndexInPlace'
  BY <1>1 DEF IndexInPlace
<1>7. DueAhead'
  BY <1>1, <1>2, <1>3, <1>4 DEF VisitInv, DueAhead
<1>8. AheadDueOrNew'
  <2> SUFFICES ASSUME NEW i \in DOMAIN e.timers, i >= NextSlot
               PROVE  e.timers[i] \in due \/ timer'[e.timers[i]].elapsed = -1
    BY <1>1, <1>2, <1>3, <1>4 DEF AheadDueOrNew
  <2>1. timer'[e.timers[i]] = timer[e.timers[i]]
    BY <1>2, <1>5, SlotFacts
  <2> QED  BY <1>1, <2>1 DEF VisitInv, AheadDueOrNew
<1>9. OwedAhead' /\ EmptyFlagged'
  <2>1. OwedAhead'
    BY <1>1 DEF VisitInv, OwedAhead
  <2>2. EmptyFlagged'
    BY <1>1, <1>3 DEF VisitInv, EmptyFlagged
  <2> QED  BY <2>1, <2>2
<1>10. KeysUnique'
  BY <1>3, <1>5, KeysKept DEF VisitInv
<1>11. RepeatHonoured'
  <2> SUFFICES ASSUME NEW x \in Target, NEW u \in Scheduled(x)
               PROVE  ~ Exhausted(timer'[u])
    BY <1>3 DEF RepeatHonoured, Scheduled
  <2> QED  BY <1>1, <1>5 DEF VisitInv, RepeatHonoured
<1> QED  BY <1>6, <1>7, <1>8, <1>9, <1>10, <1>11 DEF VisitInv

(* When the loop over an array ends, nothing of it is due.                 *)
LEMMA NothingDue ==
    ASSUME TInv, DueAhead, pc = "timer",
           element[currentTarget].timerIndex > Len(element[currentTarget].timers)
    PROVE  due = {}
<1> DEFINE e == element[currentTarget]
<1>1. currentTarget \in Target /\ pc \in Walking /\ NextSlot = e.timerIndex
  BY Places DEF TInv, TimerTypes, HashHolds, Visiting, NextSlot
<1>2. e.timers \in Seq(Timer) /\ e.timerIndex \in Nat
  BY <1>1, SlotFacts DEF HashElement
<1>3. ASSUME NEW t \in due
      PROVE  FALSE
  <2>1. PICK i \in 1..Len(e.timers) : i >= e.timerIndex
    BY <1>1, <1>2 DEF DueAhead
  <2> QED  BY <1>2, <2>1
<1> QED  BY <1>3

LEMMA LeaveTargetVisit ==
    ASSUME TInv, VisitInv, LeaveTarget
    PROVE  VisitInv'
<1>1. /\ pc \in {"timer", "leave"} /\ pc \in Visiting
      /\ pc' = "target" /\ pc' \notin Walking /\ pc' \notin InTimer
      /\ UNCHANGED <<timer, currentTargetSalvaged, due, owed>>
      /\ currentTarget' = Successor(currentTarget)
  BY Places DEF LeaveTarget, Visiting, Triggering
<1>2. currentTarget \in Target /\ Contains(hash, currentTarget)
  BY <1>1, ConstantAssumption DEF TInv, TimerTypes, HashHolds
<1>3. hash \in Seq(Target) /\ Injective(hash)
  BY DEF TInv, TimerTypes, HashHolds, Injective
<1>4. due = {}
  <2>1. CASE pc = "leave"
    BY <2>1, Places DEF VisitInv, DueAhead
  <2>2. CASE pc = "timer"
    BY <2>2, NothingDue DEF LeaveTarget, VisitInv
  <2> QED  BY <1>1, <2>1, <2>2
<1>5. \A x \in Target : element'[x].timers = element[x].timers
  <2>1. CASE Emptied
    <3>1. element' = [element EXCEPT ![currentTarget] = NoElement]
            /\ element[currentTarget].timers = <<>>
      BY <2>1 DEF LeaveTarget, Emptied
    <3>2. element \in [Target -> HashElement]
      BY DEF TInv, TimerTypes
    <3> QED  BY <1>2, <3>1, <3>2 DEF NoElement
  <2>2. CASE ~ Emptied
    BY <2>2 DEF LeaveTarget
  <2> QED  BY <2>1, <2>2
<1>6. IndexInPlace' /\ DueAhead' /\ AheadDueOrNew'
  BY <1>1, <1>4 DEF IndexInPlace, DueAhead, AheadDueOrNew
<1>7. \/ Emptied /\ hash' = RemoveFirst(hash, currentTarget)
      \/ ~ Emptied /\ hash' = hash
  BY DEF LeaveTarget
<1>8. OwedAhead'
  <2> SUFFICES ASSUME NEW x \in owed
               PROVE  \E i, j \in DOMAIN hash' :
                         /\ hash'[i] = currentTarget'
                         /\ hash'[j] = x
                         /\ i < j \/ i = j
    BY <1>1 DEF OwedAhead
  <2>1. PICK i \in DOMAIN hash, j \in DOMAIN hash :
           hash[i] = currentTarget /\ hash[j] = x /\ i < j
    BY <1>1 DEF VisitInv, OwedAhead
  <2>2. i = CHOOSE n \in DOMAIN hash : hash[n] = currentTarget
    <3>1. \A n \in DOMAIN hash : hash[n] = currentTarget => n = i
      BY <1>3, <2>1 DEF Injective
    <3> QED  BY <2>1, <3>1
  <2>3. /\ i \in 1..Len(hash) /\ j \in 1..Len(hash)
        /\ i + 1 \in DOMAIN hash /\ i < Len(hash)
        /\ i + 1 < j \/ i + 1 = j
    BY <1>3, <2>1
  <2>4. currentTarget' = hash[i + 1]
    BY <1>1, <2>2, <2>3 DEF Successor
  <2>5. hash[i + 1] # currentTarget /\ hash[j] # currentTarget
    <3>1. i + 1 # i /\ j # i
      BY <2>1, <2>3
    <3> QED  BY <1>3, <2>1, <2>3, <3>1 DEF Injective
  <2>6. CASE hash' = hash
    BY <2>1, <2>3, <2>4, <2>6
  <2>7. CASE hash' = RemoveFirst(hash, currentTarget)
    <3>1. CASE i + 1 = j
      <4>1. Contains(hash', x) /\ hash' \in Seq(Target)
        <5>1. Contains(hash, x)
          BY <1>3, <2>1 DEF Contains
        <5> QED  BY <1>2, <1>3, <2>1, <2>5, <2>7, <5>1, RemoveFirstProps
      <4>2. PICK m \in DOMAIN hash' : hash'[m] = x
        BY <4>1 DEF Contains
      <4> QED  BY <2>1, <2>4, <3>1, <4>2
    <3>2. CASE i + 1 < j
      <4>1. \E p, q \in DOMAIN RemoveFirst(hash, currentTarget) :
               /\ p < q
               /\ RemoveFirst(hash, currentTarget)[p] = hash[i + 1]
               /\ RemoveFirst(hash, currentTarget)[q] = hash[j]
        BY <1>2, <1>3, <2>3, <2>5, <3>2, RemoveFirstOrder
      <4> QED  BY <2>1, <2>4, <2>7, <4>1
    <3> QED  BY <2>3, <3>1, <3>2
  <2> QED  BY <1>7, <2>6, <2>7
<1>9. KeysUnique'
  BY <1>1, <1>5, KeysKept DEF VisitInv
<1>10. EmptyFlagged'
  <2> SUFFICES ASSUME NEW x \in Target, Contains(hash', x), element[x].timers = <<>>
               PROVE  FALSE
    BY <1>5 DEF EmptyFlagged
  <2>1. CASE Emptied
    <3>1. Contains(hash, x) /\ x # currentTarget
      BY <1>2, <1>3, <1>7, <2>1, RemoveFirstProps
    <3> QED  BY <3>1 DEF VisitInv, EmptyFlagged
  <2>2. CASE ~ Emptied
    <3>1. x = currentTarget /\ currentTargetSalvaged
      BY <1>7, <2>2 DEF VisitInv, EmptyFlagged
    <3> QED  BY <2>2, <3>1 DEF Emptied
  <2> QED  BY <2>1, <2>2
<1>11. RepeatHonoured'
  <2>1. pc # "cancel"
    BY <1>1
  <2> QED  BY <1>1, <1>5, <2>1 DEF VisitInv, RepeatHonoured, Scheduled
<1> QED  BY <1>6, <1>8, <1>9, <1>10, <1>11 DEF VisitInv

(* Running the posted functions, and what other threads do, disturb none   *)
(* of this.                                                                *)
LEMMA QuietVisit ==
    ASSUME TInv, VisitInv, UNCHANGED timerVars, currentTarget = NoTarget,
           pc \notin Visiting, pc' \notin Visiting
    PROVE  VisitInv'
<1>1. /\ pc \notin Walking /\ pc' \notin Walking /\ pc' \notin InTimer
      /\ pc # "cancel"
  BY DEF Walking, InTimer, Visiting, Triggering
<1>2. UNCHANGED <<hash, element, timer, currentTarget, currentTargetSalvaged, due, owed>>
  BY DEF timerVars
<1>3. IndexInPlace' /\ DueAhead' /\ AheadDueOrNew'
  BY <1>1, <1>2 DEF VisitInv, IndexInPlace, DueAhead, AheadDueOrNew
<1>4. OwedAhead'
  <2>1. owed = {}
    <3>1. \A i \in DOMAIN hash : hash[i] # NoTarget
      BY ConstantAssumption DEF TInv, TimerTypes
    <3> QED  BY <3>1 DEF VisitInv, OwedAhead
  <2> QED  BY <1>2, <2>1 DEF OwedAhead
<1>5. KeysUnique'
  BY <1>2 DEF VisitInv, KeysUnique
<1>6. EmptyFlagged'
  BY <1>2, ConstantAssumption DEF VisitInv, EmptyFlagged
<1>7. RepeatHonoured'
  BY <1>1, <1>2 DEF VisitInv, RepeatHonoured, Scheduled
<1> QED  BY <1>3, <1>4, <1>5, <1>6, <1>7 DEF VisitInv

LEMMA ElsewhereVisit ==
    ASSUME VisitInv, UNCHANGED <<pc, timerVars>>
    PROVE  VisitInv'
BY DEF VisitInv, IndexInPlace, DueAhead, AheadDueOrNew, OwedAhead, KeysUnique, EmptyFlagged,
       RepeatHonoured, NextSlot, Current, Scheduled, timerVars

-----------------------------------------------------------------------------
(* VisitInv holds throughout.                                              *)
LEMMA InitVisit == Init => VisitInv
<1> SUFFICES ASSUME Init
             PROVE  VisitInv
  OBVIOUS
<1> USE DEF Init
<1>1. \A x \in Target : element[x].timers = <<>> /\ Scheduled(x) = {}
  BY DEF NoElement, Scheduled, ToSet
<1>2. IndexInPlace /\ DueAhead /\ AheadDueOrNew /\ OwedAhead
  BY Places DEF IndexInPlace, DueAhead, AheadDueOrNew, OwedAhead
<1>3. KeysUnique /\ RepeatHonoured
  BY <1>1 DEF KeysUnique, RepeatHonoured
<1>4. EmptyFlagged
  BY DEF EmptyFlagged, Contains
<1> QED  BY <1>2, <1>3, <1>4 DEF VisitInv

LEMMA NextVisit == IInv /\ VisitInv /\ [Next]_vars => VisitInv'
<1> SUFFICES ASSUME TInv, OtherTypes, VisitInv, [Next]_vars
             PROVE  VisitInv'
  BY SplitIInv
<1>1. CASE Call
  BY <1>1, CallVisit
<1>2. CASE Post \/ RemoveAllFunctions \/ UNCHANGED vars
  BY <1>2, ElsewhereVisit DEF Post, RemoveAllFunctions, vars
<1>3. CASE BeginFrame
  BY <1>3, BeginFrameVisit
<1>4. CASE VisitTarget
  BY <1>4, VisitTargetVisit
<1>5. CASE BeginTimer
  BY <1>5, BeginTimerVisit
<1>6. CASE ReturnFromDelay
  BY <1>6, ReturnFromDelayVisit
<1>7. CASE ReturnFromInterval
  BY <1>7, ReturnFromIntervalVisit
<1>8. CASE Cancel
  BY <1>8, CancelVisit
<1>9. CASE EndTimer
  BY <1>9, EndTimerVisit
<1>10. CASE LeaveTarget
  BY <1>10, LeaveTargetVisit
<1>11. CASE \/ EndTimers \/ TestFunctions \/ SwapFunctions \/ RunFunction
            \/ ReturnFromFunction \/ EndFrame
  <2>1. currentTarget = NoTarget /\ pc \notin Visiting /\ pc' \notin Visiting
    <3>1. /\ pc \in {"target", "functions", "swap", "run", "function"}
          /\ pc' \in {"functions", "idle", "swap", "run", "function"}
          /\ pc = "target" => currentTarget = NoTarget
      BY <1>11 DEF EndTimers, TestFunctions, SwapFunctions, RunFunction, ReturnFromFunction,
                   EndFrame
    <3> QED  BY <3>1 DEF TInv, HashHolds, Visiting, Triggering
  <2>2. UNCHANGED timerVars
    BY <1>11 DEF EndTimers, TestFunctions, SwapFunctions, RunFunction, ReturnFromFunction,
                 EndFrame
  <2> QED  BY <2>1, <2>2, QuietVisit
<1> QED  BY <1>1, <1>2, <1>3, <1>4, <1>5, <1>6, <1>7, <1>8, <1>9, <1>10, <1>11
         DEF Next, Advance

(* VisitInv is an invariant on top of IInv: the two are inductive together. *)
THEOREM VisitInvariance == Spec => [](IInv /\ VisitInv)
<1>1. Init => IInv /\ VisitInv
  BY InitInv, InitVisit
<1>2. IInv /\ VisitInv /\ [Next]_vars => IInv' /\ VisitInv'
  BY NextInv, NextVisit
<1> QED  BY <1>1, <1>2, PTL DEF Spec

(* A key of a target names one timer, and the hash holds exactly the       *)
(* targets that have one, but for the element being visited, which is then *)
(* flagged: what unschedule() and isScheduled() rely on.                   *)
THEOREM HashAlwaysConsistent == Spec => []HashConsistent
<1>1. IInv /\ VisitInv => HashConsistent
  <2> SUFFICES ASSUME TInv, VisitInv
               PROVE  HashConsistent
    BY SplitIInv
  <2>1. ASSUME NEW x \in Target, NEW k \in Key
        PROVE  Cardinality(Slots(x, k)) <= 1
    <3>1. CASE Slots(x, k) = {}
      BY <3>1, FS_EmptySet
    <3>2. CASE Slots(x, k) # {}
      <4>1. PICK i \in DOMAIN element[x].timers : timer[element[x].timers[i]].key = k
        BY <3>2 DEF Slots
      <4>2. Slots(x, k) = {i}
        BY <4>1 DEF Slots, VisitInv, KeysUnique
      <4> QED  BY <4>2, FS_Singleton
    <3> QED  BY <3>1, <3>2
  <2>2. \A x \in Target : element[x].timers # <<>> => Contains(hash, x)
    BY DEF TInv, HashHolds, NoElement
  <2>3. \A x \in Target : Contains(hash, x) =>
           element[x].timers # <<>> \/ (x = currentTarget /\ currentTargetSalvaged)
    BY DEF VisitInv, EmptyFlagged
  <2> QED  BY <2>1, <2>2, <2>3 DEF HashConsistent
<1> QED  BY <1>1, VisitInvariance, PTL

(* The timer loop of update() passes over no timer, however its callbacks  *)
(* shorten and extend the array under timerIndex.                          *)
THEOREM NoneSkipped == Spec => []NoTimerSkipped
<1>1. IInv /\ VisitInv => NoTimerSkipped
  BY SplitIInv, NothingDue DEF VisitInv, NoTimerSkipped
<1> QED  BY <1>1, VisitInvariance, PTL

(* Nor does it come to the same timer twice.                               *)
THEOREM NoneTwice == Spec => NoTimerTwice
<1>1. IInv /\ VisitInv /\ [Next]_vars =>
         [pc = "timer" /\ pc' \in Triggering => due' # due]_vars
  <2> SUFFICES ASSUME TInv, VisitInv, Next, pc = "timer", pc' \in Triggering
               PROVE  due' # due
    BY SplitIInv
  <2>1. BeginTimer
    BY DEF Next, Advance, Call, Post, RemoveAllFunctions, BeginFrame, VisitTarget, ReturnFromDelay,
           ReturnFromInterval, Cancel, EndTimer, LeaveTarget, EndTimers, TestFunctions,
           SwapFunctions, RunFunction, ReturnFromFunction, EndFrame, Triggering
  <2> DEFINE e == element[currentTarget]
             t == e.timers[e.timerIndex]
  <2>2. /\ currentTarget \in Target /\ e.timerIndex \in DOMAIN e.timers
        /\ timer[t].elapsed # -1
    BY <2>1, BeginTimerFacts
  <2>3. pc \in Walking /\ NextSlot = e.timerIndex /\ e.timerIndex \in Nat
    BY <2>2, Places, SlotFacts DEF NextSlot
  <2>4. t \in due
    BY <2>2, <2>3 DEF VisitInv, AheadDueOrNew
  <2>5. due' = due \ {t}
    BY <2>1 DEF BeginTimer
  <2> QED  BY <2>4, <2>5
<1> QED  BY <1>1, VisitInvariance, PTL DEF Spec, NoTimerTwice

(* The walk of the hash misses no target that stays in it.                 *)
THEOREM AllTargetsVisited == Spec => []EveryTargetVisited
<1>1. IInv /\ VisitInv => EveryTargetVisited
  <2> SUFFICES ASSUME TInv, VisitInv, pc = "functions"
               PROVE  owed = {}
    BY SplitIInv DEF EveryTargetVisited
  <2>1. currentTarget = NoTarget
    BY DEF TInv, HashHolds, Visiting, Triggering
  <2>2. \A i \in DOMAIN hash : hash[i] # NoTarget
    BY ConstantAssumption DEF TInv, TimerTypes
  <2> QED  BY <2>1, <2>2 DEF VisitInv, OwedAhead
<1> QED  BY <1>1, VisitInvariance, PTL

(* An exhausted timer is off its array before another is looked at.        *)
THEOREM RepeatAlwaysHonoured == Spec => []RepeatHonoured
<1>1. VisitInv => RepeatHonoured
  BY DEF VisitInv
<1> QED  BY <1>1, VisitInvariance, PTL
=============================================================================
