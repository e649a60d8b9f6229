-------------------------- MODULE SchedulerProofs --------------------------
(***************************************************************************)
(* IInv is an inductive invariant of Scheduler, for any number of targets, *)
(* keys, Timer objects and calls per callback.  It is a conjunction whose  *)
(* part about timers, TInv, is disturbed by the interface and by the two   *)
(* loops of update(); one lemma below per action shows that it is kept.    *)
(* Calls of the interface move the main thread nowhere, and cancel() calls *)
(* unschedule() on its way out of Timer::update: SamePlace covers both.    *)
(***************************************************************************)
EXTENDS Scheduler, FiniteSetTheorems, TLAPS

(* What is left of a sequence when slot i is taken out.                    *)
LEMMA RemoveAtProps ==
    ASSUME NEW S, NEW s \in Seq(S), NEW i \in DOMAIN s
    PROVE  /\ RemoveAt(s, i) \in Seq(S)
           /\ Len(RemoveAt(s, i)) = Len(s) - 1
           /\ \A j \in 1..(Len(s) - 1) :
                 RemoveAt(s, i)[j] = IF j < i THEN s[j] ELSE s[j + 1]
<1> DEFINE a == SubSeq(s, 1, i - 1)
           b == SubSeq(s, i + 1, Len(s))
<1>1. i \in 1..Len(s) /\ Len(s) \in Nat
  OBVIOUS
<1>2. a \in Seq(S) /\ Len(a) = i - 1 /\ \A j \in 1..(i - 1) : a[j] = s[j]
  BY <1>1
<1>3. b \in Seq(S) /\ Len(b) = Len(s) - i
        /\ \A j \in 1..(Len(s) - i) : b[j] = s[i + j]
  BY <1>1
<1>4. RemoveAt(s, i) = a \o b
  BY DEF RemoveAt
<1> HIDE DEF a, b
<1>5. a \o b \in Seq(S) /\ Len(a \o b) = Len(s) - 1
  BY <1>1, <1>2, <1>3
<1>6. ASSUME NEW j \in 1..(Len(s) - 1)
      PROVE  (a \o b)[j] = IF j < i THEN s[j] ELSE s[j + 1]
  <2>1. CASE j < i
    BY <1>1, <1>2, <1>3, <2>1
  <2>2. CASE ~ j < i
    <3>1. (a \o b)[j] = b[j - (i - 1)]
      BY <1>1, <1>2, <1>3, <2>2
    <3>2. j - (i - 1) \in 1..(Len(s) - i)
      BY <1>1, <2>2
    <3> QED  BY <1>1, <1>3, <2>2, <3>1, <3>2
  <2> QED  BY <2>1, <2>2
<1> QED  BY <1>4, <1>5, <1>6

(* The first element and the rest of a sequence, and its set of elements.  *)
LEMMA SeqParts ==
    ASSUME NEW S, NEW s \in Seq(S)
    PROVE  /\ s # <<>> => Head(s) \in S /\ Tail(s) \in Seq(S)
           /\ ToSet(s) \subseteq S
BY DEF ToSet

(* No element occurs twice in s.                                           *)
Injective(s) == \A i, j \in DOMAIN s : s[i] = s[j] => i = j

(* RemoveFirst takes exactly x out of a sequence without repetitions.      *)
LEMMA RemoveFirstProps ==
    ASSUME NEW S, NEW s \in Seq(S), Injective(s), NEW x, Contains(s, x)
    PROVE  /\ RemoveFirst(s, x) \in Seq(S)
           /\ Injective(RemoveFirst(s, x))
           /\ \A y : Contains(RemoveFirst(s, x), y) <=> Contains(s, y) /\ y # x
<1>1. PICK i \in 1..Len(s) : s[i] = x
  BY DEF Contains
<1>2. {j \in 1..Len(s) : s[j] = x} = {i}
  BY <1>1 DEF Injective
<1>3. SelectInSeq(s, LAMBDA v : v = x) = i
  <2>1. Min({i}) = i
    BY <1>1 DEF Min
  <2> QED  BY <1>2, <2>1 DEF SelectInSeq
<1>4. RemoveFirst(s, x) = RemoveAt(s, i)
  BY <1>1, <1>3 DEF RemoveFirst
<1> DEFINE r == RemoveAt(s, i)
<1>5. /\ r \in Seq(S)
      /\ Len(r) = Len(s) - 1
      /\ \A j \in 1..(Len(s) - 1) : r[j] = IF j < i THEN s[j] ELSE s[j + 1]
  BY <1>1, RemoveAtProps
<1> HIDE DEF r
<1>6. Injective(r)
  BY <1>1, <1>5 DEF Injective
<1>7. ASSUME NEW y
      PROVE  Contains(r, y) <=> Contains(s, y) /\ y # x
  <2>1. ASSUME Contains(r, y)
        PROVE  Contains(s, y) /\ y # x
    <3>1. PICK j \in 1..(Len(s) - 1) : r[j] = y
      BY <1>5, <2>1 DEF Contains
    <3>2. PICK k \in 1..Len(s) : s[k] = y /\ k # i
      BY <1>1, <1>5, <3>1
    <3> QED  BY <1>1, <1>2, <3>2 DEF Contains
  <2>2. ASSUME Contains(s, y), y # x
        PROVE  Contains(r, y)
    <3>1. PICK j \in 1..Len(s) : s[j] = y
      BY <2>2 DEF Contains
    <3>2. CASE j < i
      BY <1>1, <1>5, <3>1, <3>2 DEF Contains
    <3>3. CASE j > i
      <4>1. j - 1 \in 1..Len(r) /\ r[j - 1] = y
        BY <1>1, <1>5, <3>1, <3>3
      <4> QED  BY <4>1 DEF Contains
    <3> QED  BY <1>1, <2>2, <3>1, <3>2, <3>3
  <2> QED  BY <2>1, <2>2
<1> QED  BY <1>4, <1>5, <1>6, <1>7 DEF r

-----------------------------------------------------------------------------
(* The part of TypeOK that a call of the interface can disturb.            *)
TimerTypes ==
    /\ hash \in Seq(Target)
    /\ element \in [Target -> HashElement]
    /\ timer \in [Timer -> TimerObject \cup {Freed}]
    /\ refs \in [Timer -> Nat]
    /\ currentTarget \in Target \cup {NoTarget}
    /\ currentTargetSalvaged \in BOOLEAN
    /\ due \subseteq Timer
    /\ owed \subseteq Target

TInv ==
    /\ TimerTypes
    /\ SlotsDistinct
    /\ SlotsAllocated
    /\ Counts
    /\ CurrentTimers
    /\ ElapsedEnough
    /\ HashHolds

(* The main thread does not move, or moves from cancel to returned.        *)
SamePlace ==
    /\ pc \in Triggering \cup {"idle", "function", "cancel"}
    /\ \/ pc' = pc /\ interval' = interval
       \/ pc = "cancel" /\ pc' = "returned"

(* Array slots hold Timer objects.                                         *)
LEMMA ScheduledTimers ==
    ASSUME TInv
    PROVE  \A x \in Target : Scheduled(x) \subseteq Timer
BY DEF TInv, TimerTypes, HashElement, Scheduled, ToSet

(* Only the target being visited has a current timer, and only while that  *)
(* is updated; it is salvaged by being removed from its slot.              *)
LEMMA CurrentFacts ==
    ASSUME TInv
    PROVE  /\ pc \in InTimer => currentTarget \in Target
           /\ \A x \in Target : element[x].currentTimer # NoTimer =>
                 /\ pc \in InTimer
                 /\ x = currentTarget
                 /\ element[x].currentTimer = Current
                 /\ Current \in Timer
                 /\ timer[Current] # Freed
           /\ \A t \in Timer : t \in Scheduled(currentTarget) /\ currentTarget \in Target
                 => (Salvages(currentTarget, t) <=> t = Current)
BY ConstantAssumption DEF TInv, TimerTypes, CurrentTimers, HashHolds, InTimer, Visiting, Triggering, Current, Salvages

(* Unscheduling one key keeps the invariant: the object is freed unless it *)
(* is the current timer, whose reference passes from its slot to update(). *)
LEMMA UnscheduleFoundInv ==
    ASSUME TInv, SamePlace, NEW x \in Target,
           NEW i \in DOMAIN element[x].timers, UnscheduleFound(x, i)
    PROVE  TInv'
<1> DEFINE e == element[x]
           t == e.timers[i]
           rest == RemoveAt(e.timers, i)
<1>0. /\ e \in HashElement /\ e.timers \in Seq(Timer) /\ t \in Timer
      /\ t \in Scheduled(x)
  BY DEF TInv, TimerTypes, HashElement, Scheduled, ToSet
<1>1. /\ rest \in Seq(Timer)
      /\ Len(rest) = Len(e.timers) - 1
      /\ \A j \in 1..(Len(e.timers) - 1) :
            rest[j] = IF j < i THEN e.timers[j] ELSE e.timers[j + 1]
  BY <1>0, RemoveAtProps
<1> HIDE DEF rest
<1>2. \A u : u \in ToSet(rest) <=> u \in Scheduled(x) /\ u # t
  <2>1. ASSUME NEW u \in ToSet(rest)
        PROVE  u \in Scheduled(x) /\ u # t
    <3>1. PICK j \in 1..(Len(e.timers) - 1) : u = rest[j]
      BY <1>0, <1>1 DEF ToSet
    <3> DEFINE k == IF j < i THEN j ELSE j + 1
    <3>2. k \in 1..Len(e.timers) /\ u = e.timers[k] /\ k # i
      BY <1>0, <1>1, <3>1
    <3> HIDE DEF k
    <3> QED  BY <1>0, <3>2 DEF TInv, SlotsDistinct, Scheduled, ToSet
  <2>2. ASSUME NEW u \in Scheduled(x), u # t
        PROVE  u \in ToSet(rest)
    <3>1. PICK k \in 1..Len(e.timers) : u = e.timers[k] /\ k # i
      BY <1>0, <2>2 DEF Scheduled, ToSet
    <3>2. CASE k < i
      <4>1. k \in 1..Len(rest) /\ rest[k] = u
        BY <1>0, <1>1, <3>1, <3>2
      <4> QED  BY <1>1, <4>1 DEF ToSet
    <3>3. CASE k > i
      <4>1. k - 1 \in 1..Len(rest) /\ rest[k - 1] = u
        BY <1>0, <1>1, <3>1, <3>3
      <4> QED  BY <1>1, <4>1 DEF ToSet
    <3> QED  BY <1>0, <3>1, <3>2, <3>3
  <2> QED  BY <2>1, <2>2
(* What the step does to the elements: only x's array and salvaged flag.   *)
<1>3. /\ element' \in [Target -> HashElement]
      /\ element'[x].timers = rest
      /\ element'[x].currentTimer = e.currentTimer
      /\ \A y \in Target : y # x => element'[y] = element[y]
      /\ x = currentTarget => element'[x].salvaged = (e.salvaged \/ Salvages(x, t))
  <2>1. element \in [Target -> HashElement]
    BY DEF TInv, TimerTypes
  <2>2. CASE rest = <<>> /\ currentTarget # x
    <3>1. element' = [element EXCEPT ![x] = NoElement]
      BY <2>2 DEF UnscheduleFound, rest
    <3>2. NoElement \in HashElement /\ NoElement.timers = <<>>
            /\ NoElement.currentTimer = NoTimer
      BY DEF NoElement, HashElement
    <3>3. e.currentTimer = NoTimer
      BY <2>2, CurrentFacts
    <3> QED  BY <2>1, <2>2, <3>1, <3>2, <3>3
  <2>3. CASE ~ (rest = <<>> /\ currentTarget # x)
    <3> DEFINE new == [e EXCEPT !.timers = rest,
                                !.timerIndex = Adjusted(e.timerIndex, i),
                                !.salvaged = e.salvaged \/ Salvages(x, t)]
    <3>1. element' = [element EXCEPT ![x] = new]
      BY <2>1, <2>3 DEF UnscheduleFound, rest
    <3>2. Adjusted(e.timerIndex, i) \in Nat
      BY <1>0 DEF Adjusted, HashElement
    <3>3. (e.salvaged \/ Salvages(x, t)) \in BOOLEAN
      BY <1>0 DEF HashElement, Salvages
    <3>4. /\ new \in HashElement
          /\ new.timers = rest
          /\ new.currentTimer = e.currentTimer
          /\ new.salvaged = (e.salvaged \/ Salvages(x, t))
      BY <1>0, <1>1, <3>2, <3>3 DEF HashElement
    <3> HIDE DEF new
    <3> QED  BY <2>1, <3>1, <3>4
  <2> QED  BY <2>2, <2>3
<1>4. x # currentTarget => e.currentTimer = NoTimer /\ ~ Salvages(x, t)
  BY <1>0, CurrentFacts, ConstantAssumption DEF Salvages
<1>5. \A y \in Target : Scheduled(y)' = IF y = x THEN Scheduled(x) \ {t} ELSE Scheduled(y)
  <2>1. Scheduled(x)' = ToSet(rest)
    BY <1>3 DEF Scheduled
  <2>2. \A y \in Target : y # x => Scheduled(y)' = Scheduled(y)
    BY <1>3 DEF Scheduled
  <2> QED  BY <1>2, <2>1, <2>2
<1>6. \A y \in Target : t \in Scheduled(y) => y = x
  BY <1>0 DEF TInv, SlotsDistinct, Scheduled, ToSet
<1>7. \A u \in Timer : Held(u)' <=> Held(u) /\ u # t
  BY <1>5, <1>6 DEF Held
<1>8. \A u \in Timer : Salvaged(u)' <=> Salvaged(u) \/ (u = t /\ Salvages(x, t))
  BY <1>0, <1>3, <1>4, ConstantAssumption DEF Salvaged, Salvages
<1>9. ~ Salvaged(t) /\ Held(t) /\ refs[t] = 1
  <2>1. Held(t)
    BY <1>0 DEF Held
  <2>2. SUFFICES ASSUME NEW y \in Target, element[y].currentTimer = t, element[y].salvaged
                 PROVE  FALSE
    BY <1>0, <2>1 DEF TInv, Counts, Salvaged
  <2>3. y = currentTarget /\ t = Current /\ pc \in InTimer
    BY <1>0, <2>2, CurrentFacts, ConstantAssumption
  <2>4. timer[t].target = currentTarget /\ t \notin Scheduled(currentTarget)
    BY <2>2, <2>3 DEF TInv, CurrentTimers
  <2>5. timer[t].target = x
    BY <1>0 DEF TInv, SlotsAllocated
  <2> QED  BY <1>0, <2>4, <2>5
<1>10. \A u \in Timer :
          IF u = t /\ ~ Salvages(x, t) THEN refs'[u] = 0 /\ timer'[u] = Freed
          ELSE refs'[u] = refs[u] /\ timer'[u] = timer[u]
  BY <1>0, <1>9 DEF UnscheduleFound, Release, TInv, TimerTypes
<1>11. TimerTypes'
  <2>1. hash' \in Seq(Target)
    <3>1. CASE hash' = hash
      BY <3>1 DEF TInv, TimerTypes
    <3>2. CASE hash' = RemoveFirst(hash, x)
      <4>1. Contains(hash, x)
        BY <1>0 DEF TInv, HashHolds, NoElement, HashElement
      <4> QED  BY <3>2, <4>1, RemoveFirstProps DEF TInv, TimerTypes, HashHolds, Injective
    <3> QED  BY <3>1, <3>2 DEF UnscheduleFound
  <2>2. refs' \in [Timer -> Nat] /\ timer' \in [Timer -> TimerObject \cup {Freed}]
    <3>1. /\ refs' = [u \in Timer |-> refs'[u]]
          /\ timer' = [u \in Timer |-> timer'[u]]
      BY DEF UnscheduleFound, Release
    <3>2. \A u \in Timer : refs'[u] \in Nat /\ timer'[u] \in TimerObject \cup {Freed}
      BY <1>10 DEF TInv, TimerTypes
    <3> QED  BY <3>1, <3>2
  <2>3. /\ currentTarget' = currentTarget
        /\ currentTargetSalvaged' \in BOOLEAN
        /\ due' \subseteq Timer
        /\ owed' \subseteq Target
    BY DEF UnscheduleFound, TInv, TimerTypes
  <2> QED  BY <1>3, <2>1, <2>2, <2>3 DEF TInv, TimerTypes
<1>12. SlotsDistinct'
  <2> SUFFICES ASSUME NEW y \in Target, NEW z \in Target,
                      NEW j \in DOMAIN element'[y].timers,
                      NEW k \in DOMAIN element'[z].timers,
                      element'[y].timers[j] = element'[z].timers[k]
               PROVE  y = z /\ j = k
    BY DEF SlotsDistinct
  <2>1. \A w \in Target : \A m \in DOMAIN element'[w].timers :
           \E n \in DOMAIN element[w].timers :
              /\ element'[w].timers[m] = element[w].timers[n]
              /\ n = IF w = x /\ m >= i THEN m + 1 ELSE m
    <3> SUFFICES ASSUME NEW w \in Target, NEW m \in DOMAIN element'[w].timers
                 PROVE  LET n == IF w = x /\ m >= i THEN m + 1 ELSE m
                        IN  /\ n \in DOMAIN element[w].timers
                            /\ element'[w].timers[m] = element[w].timers[n]
      OBVIOUS
    <3>1. CASE w = x
      BY <1>0, <1>1, <1>3, <3>1
    <3>2. CASE w # x
      BY <1>3, <3>2
    <3> QED  BY <3>1, <3>2
  <2>2. PICK n1 \in DOMAIN element[y].timers :
              /\ element'[y].timers[j] = element[y].timers[n1]
              /\ n1 = IF y = x /\ j >= i THEN j + 1 ELSE j
    BY <2>1
  <2>3. PICK n2 \in DOMAIN element[z].timers :
              /\ element'[z].timers[k] = element[z].timers[n2]
              /\ n2 = IF z = x /\ k >= i THEN k + 1 ELSE k
    BY <2>1
  <2>4. element[y].timers[n1] = element[z].timers[n2]
    BY <2>2, <2>3
  <2>5. y = z /\ n1 = n2
    <3>1. \A a, b \in Target :
             \A c \in DOMAIN element[a].timers, d \in DOMAIN element[b].timers :
                element[a].timers[c] = element[b].timers[d] => a = b /\ c = d
      BY DEF TInv, SlotsDistinct
    <3>2. \A c \in DOMAIN element[y].timers, d \in DOMAIN element[z].timers :
                element[y].timers[c] = element[z].timers[d] => y = z /\ c = d
      BY <3>1, Zenon
    <3> QED  BY <2>2, <2>3, <2>4, <3>2, Zenon
  <2>6. j \in Nat /\ k \in Nat /\ i \in Nat
    BY <1>0, <1>3 DEF HashElement
  <2> QED  BY <2>2, <2>3, <2>5, <2>6
<1>13. SlotsAllocated'
  <2> SUFFICES ASSUME NEW y \in Target, NEW u \in Scheduled(y)'
               PROVE  timer'[u] # Freed /\ timer'[u].target = y
    BY DEF SlotsAllocated
  <2>1. u \in Scheduled(y) /\ u # t
    BY <1>5, <1>6
  <2>2. u \in Timer
    BY <2>1 DEF TInv, TimerTypes, HashElement, Scheduled, ToSet
  <2> QED  BY <1>10, <2>1, <2>2 DEF TInv, SlotsAllocated
<1>14. Counts'
  BY <1>0, <1>7, <1>8, <1>9, <1>10 DEF TInv, Counts
<1>15. CurrentTimers'
  <2>1. (pc' \in InTimer <=> pc \in InTimer) /\ pc' # "timer"
    BY DEF SamePlace, InTimer, Triggering
  <2>2. currentTarget' = currentTarget
    BY DEF UnscheduleFound
  <2>3. \A y \in Target : element'[y].currentTimer = element[y].currentTimer
    BY <1>3
  <2>4. ASSUME pc \in InTimer
        PROVE  /\ Current' = Current
               /\ timer'[Current] = timer[Current]
               /\ element'[currentTarget].salvaged <=>
                     Current \notin ToSet(element'[currentTarget].timers)
    <3>1. currentTarget \in Target /\ Current' = Current /\ Current \in Timer
      BY <2>2, <2>3, <2>4, CurrentFacts DEF Current, TInv, CurrentTimers
    <3>2. timer'[Current] = timer[Current]
      <4>1. ASSUME Current = t
            PROVE  Salvages(x, t)
        BY <1>0, <2>4, <4>1, CurrentFacts DEF TInv, CurrentTimers, SlotsAllocated
      <4> QED  BY <1>10, <3>1, <4>1
    <3>3. element[currentTarget].salvaged <=> Current \notin ToSet(element[currentTarget].timers)
      BY <2>4 DEF TInv, CurrentTimers, Scheduled
    <3>4. ASSUME x = currentTarget
          PROVE  element'[x].salvaged <=> Current \notin ToSet(element'[x].timers)
      <4>1. Salvages(x, t) <=> t = Current
        BY <1>0, <3>4, CurrentFacts
      <4>2. element'[x].salvaged <=> (e.salvaged \/ t = Current)
        BY <1>3, <3>4, <4>1
      <4>3. ToSet(element'[x].timers) = ToSet(e.timers) \ {t}
        BY <1>2, <1>3 DEF Scheduled
      <4> QED  BY <3>3, <3>4, <4>2, <4>3
    <3>5. ASSUME x # currentTarget
          PROVE  element'[currentTarget] = element[currentTarget]
      BY <1>3, <3>1, <3>5
    <3> QED  BY <3>1, <3>2, <3>3, <3>4, <3>5
  <2> QED  BY <2>1, <2>2, <2>3, <2>4 DEF TInv, CurrentTimers, Scheduled
<1>16. ElapsedEnough'
  <2>1. ASSUME pc' \in Triggering
        PROVE  /\ pc' = pc /\ interval' = interval
               /\ Current' = Current /\ timer'[Current] = timer[Current]
    <3>1. pc \in InTimer /\ pc' = pc /\ interval' = interval
      BY <2>1 DEF SamePlace, InTimer, Triggering
    <3>2. currentTarget \in Target /\ Current \in Timer /\ Current' = Current
      BY <1>3, <3>1, CurrentFacts DEF UnscheduleFound, Current, TInv, CurrentTimers
    <3>3. timer'[Current] = timer[Current]
      <4>1. ASSUME Current = t
            PROVE  Salvages(x, t)
        BY <1>0, <3>1, <4>1, CurrentFacts DEF TInv, CurrentTimers, SlotsAllocated
      <4> QED  BY <1>10, <3>2, <4>1
    <3> QED  BY <3>1, <3>2, <3>3
  <2> QED  BY <2>1 DEF TInv, ElapsedEnough, Triggering
<1>17. HashHolds'
  <2>1. /\ pc' \in Visiting <=> pc \in Visiting
        /\ pc' # "target" /\ pc # "target"
        /\ currentTarget' = currentTarget
    BY DEF SamePlace, Visiting, Triggering, UnscheduleFound
  <2>2. Contains(hash, x)
    BY <1>0 DEF TInv, HashHolds, NoElement, HashElement
  <2>3. CASE rest = <<>> /\ currentTarget # x
    <3>1. hash' = RemoveFirst(hash, x) /\ element' = [element EXCEPT ![x] = NoElement]
      BY <2>3 DEF UnscheduleFound, rest
    <3>2. Injective(hash') /\ \A y : Contains(hash', y) <=> Contains(hash, y) /\ y # x
      BY <2>2, <3>1, RemoveFirstProps DEF TInv, TimerTypes, HashHolds, Injective
    <3> QED  BY <2>1, <2>3, <3>1, <3>2 DEF TInv, TimerTypes, HashHolds, Injective
  <2>4. CASE ~ (rest = <<>> /\ currentTarget # x)
    <3>1. hash' = hash
      BY <2>4 DEF UnscheduleFound, rest
    <3> QED  BY <1>3, <2>1, <2>2, <3>1 DEF TInv, HashHolds, Contains
  <2> QED  BY <2>3, <2>4
<1> QED  BY <1>11, <1>12, <1>13, <1>14, <1>15, <1>16, <1>17 DEF TInv

(* Scheduling a key again changes an interval only.                        *)
LEMMA ScheduleAgainInv ==
    ASSUME TInv, SamePlace, NEW x \in Target, NEW k \in Key, NEW iv \in Interval,
           ScheduleAgain(x, k, iv)
    PROVE  TInv'
<1>1. PICK i \in Slots(x, k) :
         timer' = [timer EXCEPT ![element[x].timers[i]].interval = iv]
  BY DEF ScheduleAgain
<1> DEFINE t == element[x].timers[i]
<1>2. t \in Timer /\ timer[t] \in TimerObject
  BY DEF TInv, TimerTypes, SlotsAllocated, Slots, HashElement, Scheduled, ToSet
<1> HIDE DEF t
<1>3. /\ timer' \in [Timer -> TimerObject \cup {Freed}]
      /\ \A u \in Timer : /\ timer'[u] = Freed <=> timer[u] = Freed
                          /\ timer[u] # Freed =>
                                /\ timer'[u].target = timer[u].target
                                /\ timer'[u].elapsed = timer[u].elapsed
                                /\ timer'[u].delay = timer[u].delay
  <2>1. timer' = [timer EXCEPT ![t] = [timer[t] EXCEPT !.interval = iv]]
    BY <1>1 DEF TInv, TimerTypes, t
  <2>2. [timer[t] EXCEPT !.interval = iv] \in TimerObject
    BY <1>2 DEF TimerObject
  <2> QED  BY <1>2, <2>1, <2>2, FreedAssumption DEF TInv, TimerTypes, TimerObject
<1>4. UNCHANGED <<hash, element, refs, currentTarget, currentTargetSalvaged, due, owed>>
  BY DEF ScheduleAgain
<1>5. TimerTypes'
  BY <1>3, <1>4 DEF TInv, TimerTypes
<1>6. SlotsDistinct'
  BY <1>4 DEF TInv, SlotsDistinct
<1>7. SlotsAllocated'
  <2>1. \A y \in Target : Scheduled(y)' = Scheduled(y)
    BY <1>4 DEF Scheduled
  <2> QED  BY <1>3, <2>1, ScheduledTimers DEF TInv, SlotsAllocated
<1>8. Counts'
  BY <1>3, <1>4 DEF TInv, Counts, Held, Salvaged, Scheduled
<1>9. CurrentTimers'
  BY <1>3, <1>4 DEF TInv, CurrentTimers, SamePlace, InTimer, Current, Scheduled
<1>10. ElapsedEnough'
  BY <1>3, <1>4 DEF TInv, CurrentTimers, ElapsedEnough, SamePlace, InTimer, Triggering, Current
<1>11. HashHolds'
  BY <1>4 DEF TInv, HashHolds, SamePlace, Visiting, Triggering
<1> QED  BY <1>5, <1>6, <1>7, <1>8, <1>9, <1>10, <1>11 DEF TInv

(* Pausing and resuming change flags only.                                 *)
LEMMA PauseTargetsInv ==
    ASSUME TInv, SamePlace, NEW S, NEW paused \in BOOLEAN, PauseTargets(S, paused)
    PROVE  TInv'
<1>1. element' = [x \in Target |-> IF x \in S /\ Contains(hash, x)
                                    THEN [element[x] EXCEPT !.paused = paused]
                                    ELSE element[x]]
  BY DEF PauseTargets
<1>2. UNCHANGED <<hash, timer, refs, currentTarget, currentTargetSalvaged, due, owed>>
  BY DEF PauseTargets
<1>3. \A x \in Target : /\ element'[x] \in HashElement
                        /\ element'[x].timers = element[x].timers
                        /\ element'[x].currentTimer = element[x].currentTimer
                        /\ element'[x].salvaged = element[x].salvaged
  <2> SUFFICES ASSUME NEW x \in Target
               PROVE  /\ element'[x] \in HashElement
                      /\ element'[x].timers = element[x].timers
                      /\ element'[x].currentTimer = element[x].currentTimer
                      /\ element'[x].salvaged = element[x].salvaged
    OBVIOUS
  <2>1. element[x] \in HashElement
    BY DEF TInv, TimerTypes
  <2>2. element'[x] = element[x] \/ element'[x] = [element[x] EXCEPT !.paused = paused]
    BY <1>1
  <2> QED  BY <2>1, <2>2 DEF HashElement
<1>4. element' \in [Target -> HashElement]
  BY <1>1, <1>3
<1>5. \A x \in Target : Scheduled(x)' = Scheduled(x)
  BY <1>3 DEF Scheduled
<1>6. pc \in InTimer => Current' = Current /\ currentTarget \in Target
  BY <1>2, <1>3, CurrentFacts DEF Current
<1>7. TimerTypes'
  BY <1>2, <1>4 DEF TInv, TimerTypes
<1>8. SlotsDistinct'
  BY <1>3 DEF TInv, SlotsDistinct
<1>9. SlotsAllocated'
  BY <1>2, <1>5 DEF TInv, SlotsAllocated
<1>10. Counts'
  BY <1>2, <1>3, <1>5 DEF TInv, Counts, Held, Salvaged
<1>11. CurrentTimers'
  BY <1>2, <1>3, <1>6 DEF TInv, CurrentTimers, SamePlace, InTimer, Triggering, Scheduled
<1>12. ElapsedEnough'
  BY <1>2, <1>6 DEF TInv, ElapsedEnough, SamePlace, InTimer, Triggering
<1>13. HashHolds'
  <2>1. \A x \in Target : ~ Contains(hash, x) => element'[x] = element[x]
    BY <1>1
  <2> QED  BY <1>2, <2>1 DEF TInv, HashHolds, SamePlace, Visiting, Triggering
<1> QED  BY <1>7, <1>8, <1>9, <1>10, <1>11, <1>12, <1>13 DEF TInv

(* What Append does to a sequence, position by position.                   *)
LEMMA AppendFacts ==
    ASSUME NEW S, NEW s \in Seq(S), NEW t \in S
    PROVE  /\ Append(s, t) \in Seq(S)
           /\ Len(Append(s, t)) = Len(s) + 1
           /\ Len(s) \in Nat
           /\ \A i \in 1..(Len(s) + 1) :
                 Append(s, t)[i] = IF i = Len(s) + 1 THEN t ELSE s[i]
  OBVIOUS

(* Scheduling a new key puts a free object into a new slot.                *)
LEMMA ScheduleNewInv ==
    ASSUME TInv, SamePlace, NEW x \in Target, NEW k \in Key, NEW iv \in Interval,
           NEW rp \in Repeat, NEW dl \in Delay, NEW paused \in BOOLEAN,
           ScheduleNew(x, k, iv, rp, dl, paused)
    PROVE  TInv'
<1>1. PICK t \in Timer :
          /\ refs[t] = 0
          /\ timer' = [timer EXCEPT ![t] = NewTimer(x, k, iv, rp, dl)]
          /\ refs' = [refs EXCEPT ![t] = 1]
          /\ element' = [element EXCEPT
                ![x].timers = Append(@, t),
                ![x].paused = IF Contains(hash, x) THEN @ ELSE paused]
  BY DEF ScheduleNew
<1> DEFINE e == element[x]
<1>2. /\ e \in HashElement /\ e.timers \in Seq(Timer)
      /\ Append(e.timers, t) \in Seq(Timer)
      /\ Len(Append(e.timers, t)) = Len(e.timers) + 1
      /\ Len(e.timers) \in Nat
      /\ \A i \in 1..(Len(e.timers) + 1) :
            Append(e.timers, t)[i] = IF i = Len(e.timers) + 1 THEN t ELSE e.timers[i]
  <2>1. e \in HashElement
    BY DEF TInv, TimerTypes
  <2>2. e.timers \in Seq(Timer)
    BY <2>1 DEF HashElement
  <2> HIDE DEF e
  <2> QED  BY <2>1, <2>2, AppendFacts
<1>3. /\ element' \in [Target -> HashElement]
      /\ element'[x].timers = Append(e.timers, t)
      /\ \A y \in Target : y # x => element'[y] = element[y]
      /\ \A y \in Target : /\ element'[y].currentTimer = element[y].currentTimer
                           /\ element'[y].salvaged = element[y].salvaged
  <2> DEFINE new == [e EXCEPT !.timers = Append(e.timers, t),
                              !.paused = IF Contains(hash, x) THEN e.paused ELSE paused]
  <2>1. element' = [element EXCEPT ![x] = new]
    BY <1>1 DEF TInv, TimerTypes
  <2>2. /\ new \in HashElement
        /\ new.timers = Append(e.timers, t)
        /\ new.currentTimer = e.currentTimer
        /\ new.salvaged = e.salvaged
    BY <1>2 DEF HashElement
  <2> HIDE DEF new
  <2> QED  BY <2>1, <2>2 DEF TInv, TimerTypes
<1>4. NewTimer(x, k, iv, rp, dl) \in TimerObject /\ NewTimer(x, k, iv, rp, dl).target = x
  BY ConstantAssumption DEF NewTimer, TimerObject
<1>5. timer[t] = Freed /\ ~ Held(t) /\ ~ Salvaged(t)
  BY <1>1 DEF TInv, Counts, TimerTypes
<1>6. \A y \in Target : t \notin Scheduled(y)
  BY <1>5 DEF Held
<1>7. \A y \in Target : ToSet(element'[y].timers) =
                           IF y = x THEN Scheduled(y) \cup {t} ELSE Scheduled(y)
  <2>1. ToSet(Append(e.timers, t)) = ToSet(e.timers) \cup {t}
    <3>1. ASSUME NEW u \in ToSet(e.timers)
          PROVE  u \in ToSet(Append(e.timers, t))
      <4>1. PICK i \in 1..Len(e.timers) : u = e.timers[i]
        BY <1>2 DEF ToSet
      <4>2. i \in 1..Len(Append(e.timers, t)) /\ Append(e.timers, t)[i] = u
        BY <1>2, <4>1
      <4> QED  BY <1>2, <4>2 DEF ToSet
    <3>2. t \in ToSet(Append(e.timers, t))
      <4>1. /\ Len(e.timers) + 1 \in 1..Len(Append(e.timers, t))
            /\ Append(e.timers, t)[Len(e.timers) + 1] = t
        BY <1>2
      <4> QED  BY <1>2, <4>1 DEF ToSet
    <3>3. ASSUME NEW u \in ToSet(Append(e.timers, t)), u # t
          PROVE  u \in ToSet(e.timers)
      BY <1>2, <3>3 DEF ToSet
    <3> QED  BY <3>1, <3>2, <3>3
  <2> QED  BY <1>3, <2>1 DEF Scheduled
<1>8. \A u \in Timer : u # t => timer'[u] = timer[u] /\ refs'[u] = refs[u]
  BY <1>1 DEF TInv, TimerTypes
<1>9. timer'[t] \in TimerObject /\ timer'[t].target = x /\ timer'[t] # Freed /\ refs'[t] = 1
  BY <1>1, <1>4, FreedAssumption DEF TInv, TimerTypes
<1>10. /\ currentTarget' = currentTarget
       /\ hash' = IF Contains(hash, x) THEN hash ELSE Append(hash, x)
       /\ UNCHANGED <<currentTargetSalvaged, due, owed>>
  BY DEF ScheduleNew
<1>11. TimerTypes'
  <2>1. timer' \in [Timer -> TimerObject \cup {Freed}] /\ refs' \in [Timer -> Nat]
    BY <1>1, <1>4 DEF TInv, TimerTypes
  <2>2. hash' \in Seq(Target)
    BY <1>10 DEF TInv, TimerTypes
  <2> QED  BY <1>3, <1>10, <2>1, <2>2 DEF TInv, TimerTypes
<1>12. SlotsDistinct'
  <2> SUFFICES ASSUME NEW y \in Target, NEW z \in Target,
                      NEW i \in DOMAIN element'[y].timers,
                      NEW j \in DOMAIN element'[z].timers,
                      element'[y].timers[i] = element'[z].timers[j]
               PROVE  y = z /\ i = j
    BY DEF SlotsDistinct
  <2>1. \A w \in Target : \A m \in DOMAIN element'[w].timers :
           \/ /\ m \in DOMAIN element[w].timers
              /\ element'[w].timers[m] = element[w].timers[m]
           \/ w = x /\ m = Len(e.timers) + 1 /\ element'[w].timers[m] = t
    BY <1>2, <1>3
  <2>2. \A w \in Target : \A m \in DOMAIN element[w].timers : element[w].timers[m] # t
    BY <1>6 DEF Scheduled, ToSet
  <2>3. \A a, b \in Target :
           \A c \in DOMAIN element[a].timers, d \in DOMAIN element[b].timers :
              element[a].timers[c] = element[b].timers[d] => a = b /\ c = d
    BY DEF TInv, SlotsDistinct
  <2> QED  BY <2>1, <2>2, <2>3
<1>13. SlotsAllocated'
  <2> SUFFICES ASSUME NEW y \in Target, NEW u \in ToSet(element'[y].timers)
               PROVE  timer'[u] # Freed /\ timer'[u].target = y
    BY DEF SlotsAllocated, Scheduled
  <2>1. CASE u = t
    BY <1>6, <1>7, <1>9, <2>1
  <2>2. CASE u # t
    <3>1. u \in Scheduled(y) /\ u \in Timer
      BY <1>7, <2>2, ScheduledTimers DEF Scheduled
    <3> QED  BY <1>8, <2>2, <3>1 DEF TInv, SlotsAllocated
  <2> QED  BY <2>1, <2>2
<1>14. Counts'
  <2>1. \A u \in Timer : Salvaged(u)' <=> Salvaged(u)
    BY <1>3 DEF Salvaged
  <2>2. \A u \in Timer : Held(u)' <=> Held(u) \/ u = t
    BY <1>7 DEF Held, Scheduled
  <2> QED  BY <1>5, <1>8, <1>9, <2>1, <2>2 DEF TInv, Counts
<1>15. pc \in InTimer => Current \in Timer /\ Current # t /\ Current' = Current
                           /\ currentTarget \in Target
  BY <1>3, <1>5, <1>10, CurrentFacts DEF TInv, CurrentTimers, Current
<1>16. CurrentTimers'
  <2>1. (pc' \in InTimer <=> pc \in InTimer) /\ pc' # "timer"
    BY DEF SamePlace, InTimer, Triggering
  <2>2. pc \in InTimer => (Current \in ToSet(element'[currentTarget].timers)
                             <=> Current \in Scheduled(currentTarget))
    BY <1>7, <1>15
  <2> QED  BY <1>3, <1>8, <1>10, <1>15, <2>1, <2>2 DEF TInv, CurrentTimers, Scheduled
<1>17. ElapsedEnough'
  BY <1>8, <1>15 DEF TInv, ElapsedEnough, SamePlace, InTimer, Triggering
<1>18. HashHolds'
  <2>1. CASE Contains(hash, x)
    BY <1>3, <1>10, <2>1 DEF TInv, HashHolds, SamePlace, Visiting, Triggering
  <2>2. CASE ~ Contains(hash, x)
    <3>1. /\ hash' = Append(hash, x) /\ hash \in Seq(Target)
          /\ Len(hash') = Len(hash) + 1
          /\ \A i \in 1..(Len(hash) + 1) :
                hash'[i] = IF i = Len(hash) + 1 THEN x ELSE hash[i]
      BY <1>10, <2>2 DEF TInv, TimerTypes
    <3>2. \A i, j \in DOMAIN hash' : hash'[i] = hash'[j] => i = j
      BY <2>2, <3>1 DEF TInv, HashHolds, Contains
    <3>3. \A y : Contains(hash, y) => Contains(hash', y)
      BY <3>1 DEF Contains
    <3>4. Contains(hash', x)
      <4>1. Len(hash') \in 1..Len(hash') /\ hash'[Len(hash')] = x
        BY <3>1
      <4> QED  BY <4>1 DEF Contains
    <3> QED  BY <1>3, <1>10, <3>2, <3>3, <3>4
             DEF TInv, HashHolds, SamePlace, Visiting, Triggering
  <2> QED  BY <2>1, <2>2
<1> QED  BY <1>11, <1>12, <1>13, <1>14, <1>16, <1>17, <1>18 DEF TInv

(* An object in a slot has one reference and is not salvaged.              *)
LEMMA HeldNotSalvaged ==
    ASSUME TInv, NEW t \in Timer
    PROVE  /\ Held(t) => ~ Salvaged(t)
           /\ Held(t) => refs[t] = 1
           /\ t = Current /\ pc \in InTimer =>
                 \A x \in Target : t \in Scheduled(x) => x = currentTarget
<1>1. ASSUME NEW x \in Target, t \in Scheduled(x), t = Current, pc \in InTimer
      PROVE  x = currentTarget
  BY <1>1 DEF TInv, SlotsAllocated, CurrentTimers
<1>2. ASSUME NEW x \in Target, t \in Scheduled(x), Salvaged(t)
      PROVE  FALSE
  <2>1. PICK y \in Target : element[y].currentTimer = t /\ element[y].salvaged
    BY <1>2 DEF Salvaged
  <2>2. y = currentTarget /\ t = Current /\ pc \in InTimer
    BY <2>1, CurrentFacts, ConstantAssumption
  <2> QED  BY <1>1, <1>2, <2>1, <2>2 DEF TInv, CurrentTimers
<1>3. Held(t) => ~ Salvaged(t)
  BY <1>2 DEF Held
<1> QED  BY <1>1, <1>3 DEF TInv, Counts

(* Unscheduling all timers of the targets of S keeps the invariant,        *)
(* provided the hash keeps the target that update() stands on.             *)
LEMMA UnscheduleTargetsInv ==
    ASSUME TInv, SamePlace, NEW S \in SUBSET Target,
           NEW rest \in Seq(Target), Injective(rest),
           \A y \in Target : Contains(rest, y) <=>
              Contains(hash, y) /\ (y \notin S \/ y = currentTarget),
           UnscheduleTargets(S, rest)
    PROVE  TInv'
<1> DEFINE gone == UNION {Scheduled(x) : x \in S}
           saved == {t \in gone : \E x \in S : Salvages(x, t)}
           kept(x) == [element[x] EXCEPT !.timers = <<>>,
                                         !.salvaged = @ \/ saved # {}]
<1>1. /\ element' = [x \in Target |-> IF x \notin S THEN element[x]
                                      ELSE IF x # currentTarget THEN NoElement
                                      ELSE kept(x)]
      /\ hash' = rest
      /\ currentTarget' = currentTarget
      /\ currentTargetSalvaged' \in BOOLEAN
      /\ due' \subseteq due
      /\ owed' \subseteq owed
  BY DEF UnscheduleTargets, TInv, TimerTypes
<1>2. /\ refs' = [t \in Timer |-> IF t \in gone \ saved THEN refs[t] - 1 ELSE refs[t]]
      /\ timer' = [t \in Timer |-> IF t \in gone \ saved /\ refs[t] = 1 THEN Freed
                                   ELSE timer[t]]
  BY DEF UnscheduleTargets, Release
<1>3. \A t \in Timer : t \in gone <=> \E x \in S : t \in Scheduled(x)
  OBVIOUS
<1>4. \A t \in Timer : t \in saved <=>
         /\ pc \in InTimer
         /\ t = Current
         /\ currentTarget \in S
         /\ t \in Scheduled(currentTarget)
  <2>1. ASSUME NEW t \in saved
        PROVE  /\ pc \in InTimer
               /\ t = Current
               /\ currentTarget \in S
               /\ t \in Scheduled(currentTarget)
    <3>1. PICK x \in S : Salvages(x, t)
      OBVIOUS
    <3>2. PICK y \in S : t \in Scheduled(y)
      OBVIOUS
    <3>3. t \in Timer
      BY <3>2, ScheduledTimers
    <3>4. pc \in InTimer /\ x = currentTarget /\ t = Current
      BY <3>1, <3>3, CurrentFacts, ConstantAssumption DEF Salvages
    <3> QED  BY <3>2, <3>3, <3>4, HeldNotSalvaged
  <2>2. ASSUME NEW t \in Timer, pc \in InTimer, t = Current, currentTarget \in S,
               t \in Scheduled(currentTarget)
        PROVE  t \in saved
    BY <2>2, CurrentFacts
  <2> QED  BY <2>1, <2>2
<1>5. saved # {} <=> /\ pc \in InTimer
                     /\ currentTarget \in S
                     /\ Current \in Scheduled(currentTarget)
  BY <1>4, ScheduledTimers
<1> HIDE DEF saved
<1>6. \A x \in Target : element[x] \in HashElement
  BY DEF TInv, TimerTypes
<1>7. \A x \in S : x # currentTarget => element[x].currentTimer = NoTimer
  BY CurrentFacts
<1>8. NoElement \in HashElement /\ NoElement.currentTimer = NoTimer /\ NoElement.timers = <<>>
        /\ NoElement.salvaged = FALSE
  BY DEF NoElement, HashElement
<1>9. \A x \in Target : /\ kept(x) \in HashElement
                        /\ kept(x).timers = <<>>
                        /\ kept(x).currentTimer = element[x].currentTimer
                        /\ kept(x).salvaged = (element[x].salvaged \/ saved # {})
  <2> SUFFICES ASSUME NEW x \in Target
               PROVE  /\ kept(x) \in HashElement
                      /\ kept(x).timers = <<>>
                      /\ kept(x).currentTimer = element[x].currentTimer
                      /\ kept(x).salvaged = (element[x].salvaged \/ saved # {})
    OBVIOUS
  <2> DEFINE flag == element[x].salvaged \/ saved # {}
  <2>1. element[x] \in HashElement /\ flag \in BOOLEAN
    BY <1>6 DEF HashElement
  <2>2. kept(x) = [element[x] EXCEPT !.timers = <<>>, !.salvaged = flag]
    BY <2>1 DEF HashElement
  <2> HIDE DEF flag
  <2>3. /\ kept(x) \in HashElement
        /\ kept(x).timers = <<>>
        /\ kept(x).currentTimer = element[x].currentTimer
        /\ kept(x).salvaged = flag
    <3> DEFINE r == [element[x] EXCEPT !.timers = <<>>, !.salvaged = flag]
    <3>1. <<>> \in Seq(Timer)
      OBVIOUS
    <3>2. /\ r \in HashElement
          /\ r.timers = <<>>
          /\ r.currentTimer = element[x].currentTimer
          /\ r.salvaged = flag
      BY <2>1, <3>1 DEF HashElement
    <3> QED  BY <2>2, <3>2
  <2> QED  BY <2>3 DEF flag
<1> HIDE DEF kept
<1>10. /\ element' \in [Target -> HashElement]
       /\ \A x \in Target : element'[x].currentTimer = element[x].currentTimer
       /\ \A x \in Target : x \in S => element'[x].timers = <<>>
       /\ \A x \in Target : x \notin S => element'[x] = element[x]
       /\ \A x \in S : x = currentTarget =>
             element'[x].salvaged = (element[x].salvaged \/ saved # {})
  BY <1>1, <1>6, <1>7, <1>8, <1>9
<1>11. \A x \in Target : ToSet(element'[x].timers) = IF x \in S THEN {} ELSE Scheduled(x)
  BY <1>10 DEF Scheduled, ToSet
<1>12. \A t \in Timer : Held(t)' <=> Held(t) /\ t \notin gone
  <2> SUFFICES ASSUME NEW t \in Timer
               PROVE  Held(t)' <=> Held(t) /\ t \notin gone
    OBVIOUS
  <2>1. \A x, y \in Target : t \in Scheduled(x) /\ t \in Scheduled(y) => x = y
    BY DEF TInv, SlotsAllocated
  <2>2. Held(t)' <=> \E x \in Target : x \notin S /\ t \in Scheduled(x)
    BY <1>11 DEF Held, Scheduled
  <2> QED  BY <1>3, <2>1, <2>2 DEF Held
<1>13. \A t \in Timer : t \in gone => Held(t)
  BY <1>3 DEF Held
<1>14. \A t \in Timer : Salvaged(t)' <=> Salvaged(t) \/ t \in saved
  <2> SUFFICES ASSUME NEW t \in Timer
               PROVE  Salvaged(t)' <=> Salvaged(t) \/ t \in saved
    OBVIOUS
  <2>1. ASSUME Salvaged(t)'
        PROVE  Salvaged(t) \/ t \in saved
    <3>1. PICK x \in Target : element'[x].currentTimer = t /\ element'[x].salvaged
      BY <2>1 DEF Salvaged
    <3>2. /\ pc \in InTimer /\ x = currentTarget /\ t = Current
      BY <1>10, <3>1, CurrentFacts, ConstantAssumption
    <3>3. CASE x \in S
      BY <1>4, <1>5, <1>10, <3>1, <3>2, <3>3 DEF Salvaged
    <3>4. CASE x \notin S
      BY <1>10, <3>1, <3>4 DEF Salvaged
    <3> QED  BY <3>3, <3>4
  <2>2. ASSUME Salvaged(t) \/ t \in saved
        PROVE  Salvaged(t)'
    <3>1. CASE t \in saved
      <4>1. currentTarget \in Target /\ element'[currentTarget].salvaged
              /\ element'[currentTarget].currentTimer = t
        BY <1>4, <1>10, <3>1 DEF Current
      <4> QED  BY <4>1 DEF Salvaged
    <3>2. CASE Salvaged(t)
      <4>1. PICK x \in Target : element[x].currentTimer = t /\ element[x].salvaged
        BY <3>2 DEF Salvaged
      <4>2. x = currentTarget
        BY <4>1, CurrentFacts, ConstantAssumption
      <4>3. element'[x].currentTimer = t /\ element'[x].salvaged
        BY <1>10, <4>1, <4>2
      <4> QED  BY <4>3 DEF Salvaged
    <3> QED  BY <2>2, <3>1, <3>2
  <2> QED  BY <2>1, <2>2
<1> HIDE DEF gone
<1>15. \A t \in Timer :
          IF t \in gone \ saved THEN refs[t] = 1 /\ refs'[t] = 0 /\ timer'[t] = Freed
          ELSE refs'[t] = refs[t] /\ timer'[t] = timer[t]
  BY <1>2, <1>13, HeldNotSalvaged
<1>16. TimerTypes'
  <2>1. refs' \in [Timer -> Nat] /\ timer' \in [Timer -> TimerObject \cup {Freed}]
    <3>1. refs' = [t \in Timer |-> refs'[t]] /\ timer' = [t \in Timer |-> timer'[t]]
      BY <1>2
    <3>2. \A t \in Timer : refs'[t] \in Nat /\ timer'[t] \in TimerObject \cup {Freed}
      BY <1>15 DEF TInv, TimerTypes
    <3> QED  BY <3>1, <3>2
  <2> QED  BY <1>1, <1>10, <2>1 DEF TInv, TimerTypes
<1>17. SlotsDistinct'
  <2>1. \A x \in Target : \A i \in DOMAIN element'[x].timers : x \notin S
    BY <1>10
  <2>2. \A x, y \in Target :
           \A i \in DOMAIN element[x].timers, j \in DOMAIN element[y].timers :
              element[x].timers[i] = element[y].timers[j] => x = y /\ i = j
    BY DEF TInv, SlotsDistinct
  <2> QED  BY <1>10, <2>1, <2>2 DEF SlotsDistinct
<1>18. SlotsAllocated'
  <2> SUFFICES ASSUME NEW x \in Target, NEW t \in ToSet(element'[x].timers)
               PROVE  timer'[t] # Freed /\ timer'[t].target = x
    BY DEF SlotsAllocated, Scheduled
  <2>1. x \notin S /\ t \in Scheduled(x) /\ t \in Timer
    BY <1>11, ScheduledTimers
  <2>2. t \notin gone
    BY <1>3, <2>1 DEF TInv, SlotsAllocated
  <2> QED  BY <1>15, <2>1, <2>2 DEF TInv, SlotsAllocated
<1>19. Counts'
  <2> SUFFICES ASSUME NEW t \in Timer
               PROVE  /\ refs'[t] = (IF Held(t)' THEN 1 ELSE 0)
                                      + (IF Salvaged(t)' THEN 1 ELSE 0)
                      /\ refs'[t] = 0 <=> timer'[t] = Freed
    BY DEF Counts
  <2>1. /\ refs[t] = (IF Held(t) THEN 1 ELSE 0) + (IF Salvaged(t) THEN 1 ELSE 0)
        /\ refs[t] = 0 <=> timer[t] = Freed
    BY DEF TInv, Counts
  <2>2. t \in saved => t \in gone
    BY DEF saved
  <2>3. /\ Held(t)' <=> Held(t) /\ t \notin gone
        /\ Salvaged(t)' <=> Salvaged(t) \/ t \in saved
        /\ t \in gone => Held(t)
        /\ Held(t) => ~ Salvaged(t)
    BY <1>12, <1>13, <1>14, HeldNotSalvaged
  <2>4. CASE t \in gone \ saved
    BY <1>15, <2>1, <2>3, <2>4
  <2>5. CASE t \notin gone \ saved
    BY <1>15, <2>1, <2>2, <2>3, <2>5
  <2> QED  BY <2>4, <2>5
<1>20. pc \in InTimer => /\ currentTarget \in Target
                         /\ Current \in Timer
                         /\ Current' = Current
                         /\ timer'[Current] = timer[Current]
  <2> SUFFICES ASSUME pc \in InTimer
               PROVE  /\ currentTarget \in Target
                      /\ Current \in Timer
                      /\ Current' = Current
                      /\ timer'[Current] = timer[Current]
    OBVIOUS
  <2>1. currentTarget \in Target /\ Current \in Timer /\ Current' = Current
    BY <1>1, <1>10, CurrentFacts DEF TInv, CurrentTimers, Current
  <2>2. Current \in gone => Current \in saved
    <3>1. ASSUME NEW x \in S, Current \in Scheduled(x)
          PROVE  Current \in saved
      BY <1>4, <2>1, <3>1, HeldNotSalvaged
    <3> QED  BY <1>3, <2>1, <3>1
  <2> QED  BY <1>15, <2>1, <2>2
<1>21. CurrentTimers'
  <2>1. (pc' \in InTimer <=> pc \in InTimer) /\ pc' # "timer"
    BY DEF SamePlace, InTimer, Triggering
  <2>2. ASSUME pc \in InTimer
        PROVE  element'[currentTarget].salvaged <=>
                  Current \notin ToSet(element'[currentTarget].timers)
    <3>1. element[currentTarget].salvaged <=> Current \notin Scheduled(currentTarget)
      BY <2>2 DEF TInv, CurrentTimers
    <3>2. CASE currentTarget \in S
      BY <1>5, <1>10, <1>11, <1>20, <2>2, <3>1, <3>2
    <3>3. CASE currentTarget \notin S
      BY <1>10, <1>11, <1>20, <2>2, <3>1, <3>3
    <3> QED  BY <3>2, <3>3
  <2> QED  BY <1>1, <1>10, <1>20, <2>1, <2>2 DEF TInv, CurrentTimers, Scheduled
<1>22. ElapsedEnough'
  BY <1>20 DEF TInv, ElapsedEnough, SamePlace, InTimer, Triggering
<1>23. HashHolds'
  <2>1. \A x \in Target : ~ Contains(rest, x) => element'[x] = NoElement
    BY <1>1, ConstantAssumption DEF TInv, HashHolds
  <2>2. currentTarget # NoTarget => Contains(rest, currentTarget)
    BY DEF TInv, TimerTypes, HashHolds
  <2>3. /\ pc' \in Visiting <=> pc \in Visiting
        /\ pc' # "target" /\ pc # "target"
    BY DEF SamePlace, Visiting, Triggering
  <2> QED  BY <1>1, <2>1, <2>2, <2>3 DEF TInv, HashHolds, Injective
<1> QED  BY <1>16, <1>17, <1>18, <1>19, <1>21, <1>22, <1>23 DEF TInv

-----------------------------------------------------------------------------
(* The steps of update().                                                  *)
OtherTypes ==
    /\ pc \in Position
    /\ dt \in Nat
    /\ interval \in Nat
    /\ calls \in Nat
    /\ pending \in Seq(1..MaxPosts)
    /\ batch \in Seq(1..MaxPosts)
    /\ running \in 0..MaxPosts
    /\ posted \in 0..MaxPosts
    /\ dropped \subseteq 1..MaxPosts

(* The two halves of the inductive invariant.                              *)
LEMMA SplitIInv == IInv <=> TInv /\ OtherTypes
BY DEF IInv, TInv, OtherTypes, TypeOK, TimerTypes

(* No call of the interface breaks the invariant.                          *)
LEMMA CallInv ==
    ASSUME TInv, Call
    PROVE  TInv'
<1>1. SamePlace
  BY DEF Call, Calling, SamePlace
<1>2. ASSUME NEW S \in SUBSET Target, NEW paused \in BOOLEAN, PauseTargets(S, paused)
      PROVE  TInv'
  BY <1>1, <1>2, PauseTargetsInv
<1>3. ASSUME NEW x \in Target, NEW k \in Key, Unschedule(x, k)
      PROVE  TInv'
  <2>1. CASE UNCHANGED timerVars
    BY <1>1, <2>1 DEF TInv, TimerTypes, SlotsDistinct, SlotsAllocated, Counts, CurrentTimers,
          ElapsedEnough, HashHolds, timerVars, SamePlace, InTimer, Visiting, Triggering,
          Current, Scheduled, Held, Salvaged
  <2>2. CASE \E i \in Slots(x, k) : UnscheduleFound(x, i)
    BY <1>1, <2>2, UnscheduleFoundInv DEF Slots
  <2> QED  BY <1>3, <2>1, <2>2 DEF Unschedule
<1>4. ASSUME NEW x \in Target, UnscheduleAllForTarget(x)
      PROVE  TInv'
  <2> DEFINE rest == IF x = currentTarget THEN hash ELSE RemoveFirst(hash, x)
  <2>1. Contains(hash, x) /\ UnscheduleTargets({x}, rest)
    BY <1>4 DEF UnscheduleAllForTarget
  <2>2. hash \in Seq(Target) /\ Injective(hash)
    BY DEF TInv, TimerTypes, HashHolds, Injective
  <2>3. /\ rest \in Seq(Target)
        /\ Injective(rest)
        /\ \A y \in Target : Contains(rest, y) <=>
              Contains(hash, y) /\ (y \notin {x} \/ y = currentTarget)
    BY <2>1, <2>2, RemoveFirstProps
  <2> HIDE DEF rest
  <2> QED  BY <1>1, <2>1, <2>3, UnscheduleTargetsInv
<1>5. ASSUME UnscheduleAll
      PROVE  TInv'
  <2> DEFINE rest == IF currentTarget = NoTarget THEN <<>> ELSE <<currentTarget>>
  <2>1. UnscheduleTargets(Target, rest)
    BY <1>5 DEF UnscheduleAll
  <2>2. currentTarget # NoTarget => currentTarget \in Target /\ Contains(hash, currentTarget)
    BY DEF TInv, TimerTypes, HashHolds
  <2>3. /\ rest \in Seq(Target)
        /\ Injective(rest)
        /\ \A y \in Target : Contains(rest, y) <=>
              Contains(hash, y) /\ (y \notin Target \/ y = currentTarget)
    BY <2>2, ConstantAssumption DEF Injective, Contains
  <2> HIDE DEF rest
  <2> QED  BY <1>1, <2>1, <2>3, UnscheduleTargetsInv
<1>6. CASE \E x \in Target, k \in Key, iv \in Interval : ScheduleAgain(x, k, iv)
  BY <1>1, <1>6, ScheduleAgainInv
<1>7. CASE \E x \in Target, k \in Key, iv \in Interval, rp \in Repeat,
             dl \in Delay, paused \in BOOLEAN : ScheduleNew(x, k, iv, rp, dl, paused)
  BY <1>1, <1>7, ScheduleNewInv
<1> QED  BY <1>2, <1>3, <1>4, <1>5, <1>6, <1>7
         DEF Call, PauseTarget, ResumeTarget, PauseAllTargets, ResumeTargets

(* A step that leaves arrays, counts and the hash alone and replaces at    *)
(* most the contents of one allocated Timer object.                        *)
LEMMA TimerStep ==
    ASSUME TInv, NEW t \in Timer, timer[t] # Freed,
           NEW o \in TimerObject, o.target = timer[t].target,
           timer' = [timer EXCEPT ![t] = o],
           element' \in [Target -> HashElement],
           \A x \in Target : element'[x].timers = element[x].timers,
           \A u \in Timer : Salvaged(u)' <=> Salvaged(u),
           UNCHANGED <<hash, refs>>
    PROVE  /\ timer' \in [Timer -> TimerObject \cup {Freed}]
           /\ timer'[t] = o /\ timer'[t] # Freed
           /\ \A u \in Timer : /\ timer'[u] = Freed <=> timer[u] = Freed
                               /\ timer[u] # Freed => timer'[u].target = timer[u].target
           /\ SlotsDistinct' /\ SlotsAllocated' /\ Counts'
           /\ \A x \in Target : ToSet(element'[x].timers) = Scheduled(x)
<1>1. /\ timer' \in [Timer -> TimerObject \cup {Freed}]
      /\ timer'[t] = o /\ timer'[t] # Freed
      /\ \A u \in Timer : u # t => timer'[u] = timer[u]
  BY FreedAssumption DEF TInv, TimerTypes
<1>2. \A u \in Timer : /\ timer'[u] = Freed <=> timer[u] = Freed
                       /\ timer[u] # Freed => timer'[u].target = timer[u].target
  <2> SUFFICES ASSUME NEW u \in Timer
               PROVE  /\ timer'[u] = Freed <=> timer[u] = Freed
                      /\ timer[u] # Freed => timer'[u].target = timer[u].target
    OBVIOUS
  <2>1. CASE u = t
    BY <1>1, <2>1
  <2>2. CASE u # t
    BY <1>1, <2>2
  <2> QED  BY <2>1, <2>2
<1>3. \A x \in Target : ToSet(element'[x].timers) = Scheduled(x)
  BY DEF Scheduled
<1>4. SlotsDistinct'
  BY DEF TInv, SlotsDistinct
<1>5. SlotsAllocated'
  <2> SUFFICES ASSUME NEW x \in Target, NEW u \in ToSet(element'[x].timers)
               PROVE  timer'[u] # Freed /\ timer'[u].target = x
    BY DEF SlotsAllocated, Scheduled
  <2>1. u \in Scheduled(x) /\ u \in Timer
    BY <1>3, ScheduledTimers
  <2>2. timer[u] # Freed /\ timer[u].target = x
    BY <2>1 DEF TInv, SlotsAllocated
  <2>3. /\ timer'[u] = Freed <=> timer[u] = Freed
        /\ timer[u] # Freed => timer'[u].target = timer[u].target
    BY <1>2, <2>1, Zenon
  <2> QED  BY <2>2, <2>3
<1>6. Counts'
  <2>1. \A u \in Timer : Held(u)' <=> Held(u)
    BY <1>3 DEF Held, Scheduled
  <2> SUFFICES ASSUME NEW u \in Timer
               PROVE  /\ refs[u] = (IF Held(u)' THEN 1 ELSE 0)
                                     + (IF Salvaged(u)' THEN 1 ELSE 0)
                      /\ refs[u] = 0 <=> timer'[u] = Freed
    BY DEF Counts
  <2>2. /\ refs[u] = (IF Held(u) THEN 1 ELSE 0) + (IF Salvaged(u) THEN 1 ELSE 0)
        /\ refs[u] = 0 <=> timer[u] = Freed
    BY DEF TInv, Counts
  <2>3. (Held(u)' <=> Held(u)) /\ (Salvaged(u)' <=> Salvaged(u))
    BY <2>1
  <2>4. timer'[u] = Freed <=> timer[u] = Freed
    BY <1>2, Zenon
  <2> QED  BY <2>2, <2>3, <2>4
<1> QED  BY <1>1, <1>2, <1>3, <1>4, <1>5, <1>6

(* Between two updates of timers no timer is current.                      *)
LEMMA NoCurrentTimer ==
    ASSUME TInv, pc \notin InTimer
    PROVE  /\ \A x \in Target : element[x].currentTimer = NoTimer
           /\ \A u \in Timer : ~ Salvaged(u)
<1>1. \A x \in Target : element[x].currentTimer = NoTimer
  BY DEF TInv, CurrentTimers
<1> QED  BY <1>1, ConstantAssumption DEF Salvaged

(* update() begins.                                                        *)
LEMMA BeginFrameInv ==
    ASSUME TInv, OtherTypes, BeginFrame
    PROVE  TInv' /\ OtherTypes'
<1>1. pc \notin InTimer /\ pc' \notin InTimer /\ pc' = "target" /\ pc = "idle"
  BY DEF BeginFrame, InTimer, Triggering
<1>2. UNCHANGED <<hash, element, timer, refs, currentTargetSalvaged, due>>
  BY DEF BeginFrame
<1>3. /\ currentTarget' \in Target \cup {NoTarget}
      /\ currentTarget' # NoTarget => Contains(hash, currentTarget')
  <2>1. CASE hash = <<>>
    BY <2>1 DEF BeginFrame
  <2>2. CASE hash # <<>>
    <3>1. 1 \in 1..Len(hash) /\ hash[1] = Head(hash) /\ Head(hash) \in Target
      BY <2>2 DEF TInv, TimerTypes
    <3> QED  BY <2>2, <3>1 DEF BeginFrame, Contains
  <2> QED  BY <2>1, <2>2
<1>4. TimerTypes'
  BY <1>2, <1>3 DEF BeginFrame, TInv, TimerTypes, ToSet
<1>5. SlotsDistinct' /\ SlotsAllocated' /\ Counts'
  BY <1>2 DEF TInv, SlotsDistinct, SlotsAllocated, Counts, Scheduled, Held, Salvaged
<1>6. CurrentTimers'
  BY <1>1, <1>2, NoCurrentTimer DEF CurrentTimers
<1>7. ElapsedEnough'
  BY <1>1 DEF ElapsedEnough
<1>8. HashHolds'
  BY <1>1, <1>2, <1>3 DEF TInv, HashHolds, Contains, Visiting, Triggering
<1>9. OtherTypes'
  BY ConstantAssumption DEF BeginFrame, OtherTypes, functionVars, Position
<1> QED  BY <1>4, <1>5, <1>6, <1>7, <1>8, <1>9 DEF TInv

(* The loop over the hash reaches a target.                                *)
LEMMA VisitTargetInv ==
    ASSUME TInv, OtherTypes, VisitTarget
    PROVE  TInv' /\ OtherTypes'
<1>1. /\ pc = "target" /\ pc' \in {"timer", "leave"} /\ pc \notin InTimer /\ pc' \notin InTimer
      /\ currentTarget \in Target
      /\ UNCHANGED <<hash, timer, refs, currentTarget>>
  BY DEF VisitTarget, TInv, TimerTypes, InTimer, Triggering
<1>2. /\ element' \in [Target -> HashElement]
      /\ \A x \in Target : /\ element'[x].timers = element[x].timers
                           /\ element'[x].currentTimer = element[x].currentTimer
      /\ \A x \in Target : x # currentTarget => element'[x] = element[x]
      /\ pc' = "timer" => element'[currentTarget].timerIndex = 1
  <2> DEFINE new == [element[currentTarget] EXCEPT !.timerIndex = 1]
  <2>1. element[currentTarget] \in HashElement /\ element \in [Target -> HashElement]
    BY <1>1 DEF TInv, TimerTypes
  <2>2. /\ new \in HashElement
        /\ new.timers = element[currentTarget].timers
        /\ new.currentTimer = element[currentTarget].currentTimer
        /\ new.timerIndex = 1
    BY <2>1 DEF HashElement
  <2>3. \/ pc' = "leave" /\ element' = element
        \/ element' = [element EXCEPT ![currentTarget] = new]
    BY <2>1 DEF VisitTarget
  <2> HIDE DEF new
  <2> QED  BY <1>1, <2>1, <2>2, <2>3
<1>3. \A x \in Target : Scheduled(x)' = Scheduled(x)
  BY <1>2 DEF Scheduled
<1>4. TimerTypes'
  <2>1. due' \subseteq Timer /\ owed' \subseteq Target /\ currentTargetSalvaged' \in BOOLEAN
    BY <1>1, ScheduledTimers DEF VisitTarget, TInv, TimerTypes
  <2> QED  BY <1>1, <1>2, <2>1 DEF TInv, TimerTypes
<1>5. SlotsDistinct'
  BY <1>2 DEF TInv, SlotsDistinct
<1>6. SlotsAllocated'
  BY <1>1, <1>3 DEF TInv, SlotsAllocated
<1>7. Counts'
  <2>1. \A u \in Timer : Salvaged(u)' <=> Salvaged(u)
    BY <1>1, <1>2, NoCurrentTimer, ConstantAssumption DEF Salvaged
  <2>2. \A u \in Timer : Held(u)' <=> Held(u)
    BY <1>3 DEF Held
  <2> QED  BY <1>1, <2>1, <2>2 DEF TInv, Counts
<1>8. CurrentTimers'
  BY <1>1, <1>2, NoCurrentTimer DEF CurrentTimers
<1>9. ElapsedEnough'
  BY <1>1 DEF ElapsedEnough
<1>10. HashHolds'
  BY <1>1, <1>2, ConstantAssumption DEF TInv, HashHolds, Visiting, Triggering
<1>11. OtherTypes'
  BY <1>1 DEF VisitTarget, OtherTypes, functionVars, Position
<1> QED  BY <1>4, <1>5, <1>6, <1>7, <1>8, <1>9, <1>10, <1>11 DEF TInv

(* The state in which Timer::update leaves its object when it enters its   *)
(* loop.                                                                   *)
LEMMA EnterLoopFacts ==
    ASSUME NEW t \in Timer, NEW o \in TimerObject, o.elapsed \in Nat, EnterLoop(t, o)
    PROVE  /\ timer' = [timer EXCEPT ![t] = o]
           /\ interval' \in Nat
           /\ calls' \in Nat
           /\ pc' \in {"interval", "returned"}
           /\ pc' = "interval" => o.elapsed >= interval'
BY ConstantAssumption DEF EnterLoop, TimerObject

(* The loop over the array reaches a timer, and Timer::update begins.      *)
LEMMA BeginTimerInv ==
    ASSUME TInv, OtherTypes, BeginTimer
    PROVE  TInv' /\ OtherTypes'
<1> DEFINE e == element[currentTarget]
           t == e.timers[e.timerIndex]
           old == timer[t]
           waited == [old EXCEPT !.elapsed = @ + dt]
<1>1. /\ pc = "timer" /\ pc \notin InTimer
      /\ currentTarget \in Target /\ e \in HashElement
      /\ e.timerIndex \in 1..Len(e.timers)
      /\ t \in Timer /\ t \in Scheduled(currentTarget)
  <2>1. pc = "timer" /\ pc \notin InTimer /\ currentTarget \in Target
    BY DEF BeginTimer, TInv, TimerTypes, HashHolds, InTimer, Visiting, Triggering
  <2>2. e \in HashElement
    BY <2>1 DEF TInv, TimerTypes
  <2>3. e.timerIndex \in 1..Len(e.timers)
    <3>1. e.timerIndex >= 1
      BY <2>1 DEF TInv, CurrentTimers
    <3>2. e.timerIndex <= Len(e.timers)
      BY DEF BeginTimer
    <3> QED  BY <2>2, <3>1, <3>2 DEF HashElement
  <2> QED  BY <2>1, <2>2, <2>3 DEF HashElement, Scheduled, ToSet
<1>2. old \in TimerObject /\ old # Freed /\ old.target = currentTarget
  BY <1>1 DEF TInv, TimerTypes, SlotsAllocated
<1>3. /\ element' \in [Target -> HashElement]
      /\ \A x \in Target : element'[x].timers = element[x].timers
      /\ \A x \in Target : x # currentTarget => element'[x] = element[x]
      /\ element'[currentTarget].currentTimer = t
      /\ element'[currentTarget].salvaged = FALSE
  <2> DEFINE new == [e EXCEPT !.currentTimer = t, !.salvaged = FALSE]
  <2>1. element' = [element EXCEPT ![currentTarget] = new]
    BY <1>1 DEF BeginTimer, TInv, TimerTypes
  <2>2. /\ new \in HashElement
        /\ new.timers = e.timers
        /\ new.currentTimer = t
        /\ new.salvaged = FALSE
    BY <1>1 DEF HashElement
  <2> HIDE DEF new, t
  <2> QED  BY <1>1, <2>1, <2>2 DEF TInv, TimerTypes
<1> HIDE DEF t
<1>4. \E o \in TimerObject :
         /\ o.target = old.target
         /\ timer' = [timer EXCEPT ![t] = o]
         /\ pc' \in {"returned", "delay", "interval"}
         /\ pc' = "delay" => o.elapsed >= o.delay
         /\ pc' = "interval" => o.elapsed >= interval'
         /\ interval' \in Nat /\ calls' \in Nat
  <2>1. CASE /\ old.elapsed = -1
             /\ timer' = [timer EXCEPT ![t].elapsed = 0, ![t].times = 0]
             /\ pc' = "returned"
             /\ UNCHANGED <<interval, calls>>
    <3> DEFINE o == [old EXCEPT !.elapsed = 0, !.times = 0]
    <3>1. timer' = [timer EXCEPT ![t] = o]
      BY <1>1, <2>1 DEF TInv, TimerTypes
    <3>2. o \in TimerObject /\ o.target = old.target
      BY <1>2 DEF TimerObject
    <3> HIDE DEF o
    <3> QED  BY <2>1, <3>1, <3>2 DEF OtherTypes
  <2>2. ASSUME old.elapsed # -1
        PROVE  /\ waited \in TimerObject /\ waited.target = old.target
               /\ waited.elapsed \in Nat /\ waited.delay = old.delay /\ waited.delay \in Nat
    <3>1. old.elapsed \in Nat /\ dt \in Nat /\ old.delay \in Nat
      BY <1>2, <2>2, ConstantAssumption DEF TimerObject, OtherTypes
    <3>2. old.elapsed + dt \in Nat
      BY <3>1
    <3> QED  BY <1>2, <3>1, <3>2 DEF TimerObject
  <2>3. CASE /\ old.elapsed # -1
             /\ timer' = [timer EXCEPT ![t] = waited]
             /\ pc' = IF waited.elapsed < old.delay THEN "returned" ELSE "delay"
             /\ calls' = 0
             /\ UNCHANGED interval
    <3> HIDE DEF waited
    <3>1. /\ waited \in TimerObject /\ waited.target = old.target
          /\ waited.elapsed \in Nat /\ waited.delay = old.delay /\ waited.delay \in Nat
      BY <2>2, <2>3
    <3>2. interval' \in Nat /\ calls' \in Nat
      BY <2>3 DEF OtherTypes
    <3>3. /\ pc' \in {"returned", "delay"}
          /\ pc' = "delay" => waited.elapsed >= waited.delay
      BY <2>3, <3>1
    <3> QED  BY <2>3, <3>1, <3>2, <3>3
  <2>4. CASE old.elapsed # -1 /\ EnterLoop(t, waited)
    <3> HIDE DEF waited
    <3> QED  BY <1>1, <2>2, <2>4, EnterLoopFacts
  <2> QED  BY <2>1, <2>3, <2>4 DEF BeginTimer, t
<1>5. PICK o \in TimerObject :
         /\ o.target = old.target
         /\ timer' = [timer EXCEPT ![t] = o]
         /\ pc' \in {"returned", "delay", "interval"}
         /\ pc' = "delay" => o.elapsed >= o.delay
         /\ pc' = "interval" => o.elapsed >= interval'
         /\ interval' \in Nat /\ calls' \in Nat
  BY <1>4
<1>6. UNCHANGED <<dt, hash, refs, currentTarget, currentTargetSalvaged, owed, functionVars>>
        /\ due' \subseteq due
  BY DEF BeginTimer
<1>7. \A u \in Timer : Salvaged(u)' <=> Salvaged(u)
  BY <1>1, <1>3, NoCurrentTimer, ConstantAssumption DEF Salvaged
<1>8. /\ timer' \in [Timer -> TimerObject \cup {Freed}]
      /\ timer'[t] = o /\ timer'[t] # Freed
      /\ SlotsDistinct' /\ SlotsAllocated' /\ Counts'
      /\ \A x \in Target : ToSet(element'[x].timers) = Scheduled(x)
  BY <1>1, <1>2, <1>3, <1>5, <1>6, <1>7, TimerStep
<1>9. Current' = t /\ pc' \in InTimer /\ pc' \in Visiting /\ pc' # "timer"
  BY <1>3, <1>5, <1>6 DEF Current, InTimer, Visiting, Triggering
<1>10. TimerTypes'
  BY <1>3, <1>6, <1>8 DEF TInv, TimerTypes
<1>11. CurrentTimers'
  BY <1>1, <1>2, <1>3, <1>5, <1>6, <1>8, <1>9, NoCurrentTimer DEF CurrentTimers, Scheduled
<1>12. ElapsedEnough'
  BY <1>5, <1>8, <1>9 DEF ElapsedEnough
<1>13. HashHolds'
  <2>1. Contains(hash, currentTarget)
    BY <1>1, ConstantAssumption DEF TInv, HashHolds
  <2> QED  BY <1>1, <1>3, <1>6, <1>9, <2>1, ConstantAssumption DEF TInv, HashHolds
<1>14. OtherTypes'
  BY <1>5, <1>6 DEF OtherTypes, functionVars, Position
<1> QED  BY <1>8, <1>10, <1>11, <1>12, <1>13, <1>14 DEF TInv

(* Inside the update of a timer, its object is allocated and belongs to    *)
(* the target being visited.                                               *)
LEMMA RunningTimer ==
    ASSUME TInv, pc \in InTimer
    PROVE  /\ currentTarget \in Target
           /\ Current \in Timer
           /\ timer[Current] \in TimerObject
           /\ timer[Current] # Freed
           /\ timer[Current].target = currentTarget
BY CurrentFacts DEF TInv, TimerTypes, CurrentTimers

(* A callback returns into Timer::update, which changes only its object.   *)
LEMMA ReturnInv ==
    ASSUME TInv, pc \in Triggering,
           NEW o \in TimerObject, o.target = timer[Current].target,
           timer' = [timer EXCEPT ![Current] = o],
           pc' \in {"cancel", "returned", "interval"},
           pc' = "interval" => o.elapsed >= interval',
           UNCHANGED <<hash, element, refs, currentTarget,
                       currentTargetSalvaged, due, owed>>
    PROVE  TInv'
<1>1. pc \in InTimer /\ pc' \in InTimer /\ pc' \in Visiting /\ pc' # "timer" /\ pc' # "delay"
  BY DEF InTimer, Visiting, Triggering
<1>2. currentTarget \in Target /\ Current \in Timer /\ timer[Current] # Freed
        /\ timer[Current].target = currentTarget
  BY <1>1, RunningTimer
<1>3. Current' = Current /\ \A u \in Timer : Salvaged(u)' <=> Salvaged(u)
  BY DEF Current, Salvaged
<1>4. element' \in [Target -> HashElement]
  BY DEF TInv, TimerTypes
<1>5. /\ timer' \in [Timer -> TimerObject \cup {Freed}]
      /\ timer'[Current] = o /\ timer'[Current] # Freed
      /\ SlotsDistinct' /\ SlotsAllocated' /\ Counts'
  BY <1>2, <1>3, <1>4, TimerStep
<1>6. TimerTypes'
  BY <1>5 DEF TInv, TimerTypes
<1>7. CurrentTimers'
  BY <1>1, <1>2, <1>3, <1>5 DEF TInv, CurrentTimers, Scheduled
<1>8. ElapsedEnough'
  BY <1>1, <1>3, <1>5 DEF ElapsedEnough
<1>9. HashHolds'
  BY <1>1, <1>2, ConstantAssumption DEF TInv, HashHolds, Visiting, InTimer, Triggering
<1> QED  BY <1>5, <1>6, <1>7, <1>8, <1>9 DEF TInv

(* The callback called from the delay branch returns.                      *)
LEMMA ReturnFromDelayInv ==
    ASSUME TInv, OtherTypes, ReturnFromDelay
    PROVE  TInv' /\ OtherTypes'
<1> DEFINE old == timer[Current]
           o == [old EXCEPT !.elapsed = @ - old.delay,
                            !.times = Counted(old),
                            !.useDelay = FALSE]
<1>1. pc = "delay" /\ pc \in InTimer /\ pc \in Triggering
  BY DEF ReturnFromDelay, InTimer, Triggering
<1>2. old \in TimerObject /\ Current \in Timer
  BY <1>1, RunningTimer
<1>3. o \in TimerObject /\ o.elapsed \in Nat /\ o.target = old.target
  <2>1. old.delay \in Nat /\ old.elapsed \in Int /\ old.elapsed >= old.delay
    <3>1. old.elapsed >= old.delay
      BY <1>1 DEF TInv, ElapsedEnough
    <3> HIDE DEF old
    <3>2. old.delay \in Delay /\ old.elapsed \in Nat \cup {-1}
      BY <1>2 DEF TimerObject
    <3>3. old.delay \in Nat
      BY <3>2, ConstantAssumption
    <3>4. old.elapsed \in Int
      BY <3>2
    <3> QED  BY <3>1, <3>3, <3>4
  <2> HIDE DEF old
  <2>2. old.elapsed - old.delay \in Nat
    BY <2>1
  <2>3. Counted(old) \in Nat
    BY <1>2 DEF Counted, TimerObject
  <2> QED  BY <1>2, <2>2, <2>3 DEF TimerObject
<1>4. UNCHANGED <<dt, hash, element, refs, currentTarget, currentTargetSalvaged,
                  due, owed, functionVars>>
  BY DEF ReturnFromDelay
<1>5. \/ timer' = [timer EXCEPT ![Current] = o] /\ pc' = "cancel" /\ calls' = 0
           /\ UNCHANGED interval
      \/ EnterLoop(Current, o)
  BY DEF ReturnFromDelay
<1> HIDE DEF o
<1>6. /\ timer' = [timer EXCEPT ![Current] = o]
      /\ pc' \in {"cancel", "returned", "interval"}
      /\ pc' = "interval" => o.elapsed >= interval'
      /\ interval' \in Nat /\ calls' \in Nat
  <2>1. CASE timer' = [timer EXCEPT ![Current] = o] /\ pc' = "cancel" /\ calls' = 0
               /\ UNCHANGED interval
    BY <2>1 DEF OtherTypes
  <2>2. CASE EnterLoop(Current, o)
    BY <1>2, <1>3, <2>2, EnterLoopFacts
  <2> QED  BY <1>5, <2>1, <2>2
<1>7. TInv'
  BY <1>1, <1>3, <1>4, <1>6, ReturnInv
<1>8. OtherTypes'
  BY <1>4, <1>6 DEF OtherTypes, functionVars, Position
<1> QED  BY <1>7, <1>8

(* The callback called from the interval loop returns.                     *)
LEMMA ReturnFromIntervalInv ==
    ASSUME TInv, OtherTypes, ReturnFromInterval
    PROVE  TInv' /\ OtherTypes'
<1> DEFINE old == timer[Current]
           o == [old EXCEPT !.elapsed = @ - interval, !.times = Counted(old)]
<1>1. pc = "interval" /\ pc \in InTimer /\ pc \in Triggering
  BY DEF ReturnFromInterval, InTimer, Triggering
<1>2. old \in TimerObject /\ Current \in Timer
  BY <1>1, RunningTimer
<1>3. o \in TimerObject /\ o.elapsed \in Nat /\ o.target = old.target
  <2>1. interval \in Nat /\ old.elapsed \in Int /\ old.elapsed >= interval
    BY <1>1, <1>2 DEF TInv, ElapsedEnough, TimerObject, OtherTypes
  <2>2. old.elapsed - interval \in Nat
    BY <2>1
  <2>3. Counted(old) \in Nat
    BY <1>2 DEF Counted, TimerObject
  <2> HIDE DEF old
  <2> QED  BY <1>2, <2>2, <2>3 DEF TimerObject
<1>4. /\ UNCHANGED <<dt, interval, hash, element, refs, currentTarget,
                     currentTargetSalvaged, due, owed, functionVars>>
      /\ calls' = 0
      /\ timer' = [timer EXCEPT ![Current] = o]
      /\ pc' \in {"cancel", "returned", "interval"}
      /\ pc' = "interval" => ~ o.elapsed < interval
  BY DEF ReturnFromInterval
<1> HIDE DEF o
<1>5. pc' = "interval" => o.elapsed >= interval'
  BY <1>3, <1>4 DEF OtherTypes
<1>6. TInv'
  BY <1>1, <1>3, <1>4, <1>5, ReturnInv
<1>7. OtherTypes'
  BY <1>4 DEF OtherTypes, functionVars, Position
<1> QED  BY <1>6, <1>7

(* cancel() unschedules what is in the slot of its key.                    *)
LEMMA CancelInv ==
    ASSUME TInv, OtherTypes, Cancel
    PROVE  TInv' /\ OtherTypes'
<1>1. SamePlace /\ pc = "cancel" /\ pc' = "returned"
  BY DEF Cancel, SamePlace
<1>2. currentTarget \in Target /\ timer[Current].target = currentTarget
  BY <1>1, RunningTimer DEF InTimer
<1> DEFINE k == timer[Current].key
<1>3. Unschedule(currentTarget, k)
  BY <1>2 DEF Cancel
<1>4. TInv'
  <2>1. CASE UNCHANGED timerVars
    BY <1>1, <2>1 DEF TInv, TimerTypes, SlotsDistinct, SlotsAllocated, Counts, CurrentTimers,
          ElapsedEnough, HashHolds, timerVars, InTimer, Visiting, Triggering,
          Current, Scheduled, Held, Salvaged
  <2>2. CASE \E i \in Slots(currentTarget, k) : UnscheduleFound(currentTarget, i)
    <3>1. PICK i \in DOMAIN element[currentTarget].timers : UnscheduleFound(currentTarget, i)
      BY <2>2 DEF Slots
    <3> QED  BY <1>1, <1>2, <3>1, UnscheduleFoundInv
  <2> QED  BY <1>3, <2>1, <2>2 DEF Unschedule
<1>5. OtherTypes'
  BY DEF Cancel, OtherTypes, functionVars, Position
<1> QED  BY <1>4, <1>5

(* update() gives back the extra reference and moves on to the next slot.  *)
LEMMA EndTimerInv ==
    ASSUME TInv, OtherTypes, EndTimer
    PROVE  TInv' /\ OtherTypes'
<1>1. /\ pc = "returned" /\ pc \in InTimer
      /\ pc' = "timer" /\ pc' \notin InTimer /\ pc' \in Visiting /\ pc \in Visiting
      /\ UNCHANGED <<dt, calls, hash, currentTarget, currentTargetSalvaged,
                     due, owed, functionVars>>
  BY DEF EndTimer, InTimer, Visiting, Triggering
<1>2. /\ currentTarget \in Target /\ Current \in Timer
      /\ element[currentTarget] \in HashElement
  BY <1>1, RunningTimer DEF TInv, TimerTypes
<1>3. /\ element' \in [Target -> HashElement]
      /\ \A x \in Target : element'[x].timers = element[x].timers
      /\ \A x \in Target : x # currentTarget => element'[x] = element[x]
      /\ element'[currentTarget].currentTimer = NoTimer
      /\ element'[currentTarget].timerIndex >= 1
  <2> DEFINE e == element[currentTarget]
             new == [e EXCEPT !.currentTimer = NoTimer,
                              !.timerIndex = e.timerIndex + 1]
  <2>1. element' = [element EXCEPT ![currentTarget] = new]
    BY <1>2 DEF EndTimer, TInv, TimerTypes
  <2>2. /\ new \in HashElement
        /\ new.timers = e.timers
        /\ new.currentTimer = NoTimer
        /\ new.timerIndex >= 1
    <3> HIDE DEF e
    <3>1. e \in HashElement
      BY <1>2 DEF e
    <3>2. e.timerIndex + 1 \in Nat /\ e.timerIndex + 1 >= 1
      BY <3>1 DEF HashElement
    <3> QED  BY <3>1, <3>2 DEF HashElement
  <2> HIDE DEF new
  <2> QED  BY <1>2, <2>1, <2>2 DEF TInv, TimerTypes
<1>4. \A x \in Target : element'[x].currentTimer = NoTimer
  BY <1>3, CurrentFacts
<1>5. \A u \in Timer : ~ Salvaged(u)'
  BY <1>4, ConstantAssumption DEF Salvaged
<1>6. \A u \in Timer : Salvaged(u) <=> u = Current /\ element[currentTarget].salvaged
  BY <1>2, CurrentFacts, ConstantAssumption DEF Salvaged, Current
<1>7. \A x \in Target : Scheduled(x)' = Scheduled(x)
  BY <1>3 DEF Scheduled
<1>8. \A u \in Timer : Held(u)' <=> Held(u)
  BY <1>7 DEF Held
<1>9. \A u \in Timer : Salvaged(u) => ~ Held(u) /\ refs[u] = 1
  BY HeldNotSalvaged DEF TInv, Counts
<1>10. \A u \in Timer :
          IF Salvaged(u) THEN refs'[u] = 0 /\ timer'[u] = Freed
          ELSE refs'[u] = refs[u] /\ timer'[u] = timer[u]
  <2>1. \A u \in Timer : u \in Retained <=> Salvaged(u)
    BY <1>6 DEF Retained
  <2> QED  BY <1>9, <2>1 DEF EndTimer, Release
<1>11. TimerTypes'
  <2>1. refs' \in [Timer -> Nat] /\ timer' \in [Timer -> TimerObject \cup {Freed}]
    <3>1. /\ refs' = [u \in Timer |-> refs'[u]]
          /\ timer' = [u \in Timer |-> timer'[u]]
      BY DEF EndTimer, Release
    <3>2. \A u \in Timer : refs'[u] \in Nat /\ timer'[u] \in TimerObject \cup {Freed}
      BY <1>10 DEF TInv, TimerTypes
    <3> QED  BY <3>1, <3>2
  <2> QED  BY <1>1, <1>3, <2>1 DEF TInv, TimerTypes
<1>12. SlotsDistinct'
  BY <1>3 DEF TInv, SlotsDistinct
<1>13. SlotsAllocated'
  <2> SUFFICES ASSUME NEW x \in Target, NEW u \in Scheduled(x)
               PROVE  timer'[u] # Freed /\ timer'[u].target = x
    BY <1>7 DEF SlotsAllocated
  <2>1. u \in Timer /\ Held(u) /\ ~ Salvaged(u)
    BY <1>9, ScheduledTimers DEF Held
  <2> QED  BY <1>10, <2>1 DEF TInv, SlotsAllocated
<1>14. Counts'
  <2> SUFFICES ASSUME NEW u \in Timer
               PROVE  /\ refs'[u] = (IF Held(u)' THEN 1 ELSE 0)
                                      + (IF Salvaged(u)' THEN 1 ELSE 0)
                      /\ refs'[u] = 0 <=> timer'[u] = Freed
    BY DEF Counts
  <2>1. /\ refs[u] = (IF Held(u) THEN 1 ELSE 0) + (IF Salvaged(u) THEN 1 ELSE 0)
        /\ refs[u] = 0 <=> timer[u] = Freed
    BY DEF TInv, Counts
  <2>2. (Held(u)' <=> Held(u)) /\ ~ Salvaged(u)' /\ (Salvaged(u) => ~ Held(u))
    BY <1>5, <1>8, <1>9
  <2>3. CASE Salvaged(u)
    BY <1>10, <2>2, <2>3
  <2>4. CASE ~ Salvaged(u)
    BY <1>10, <2>1, <2>2, <2>4
  <2> QED  BY <2>3, <2>4
<1>15. CurrentTimers'
  BY <1>1, <1>3, <1>4 DEF CurrentTimers
<1>16. ElapsedEnough'
  BY <1>1 DEF ElapsedEnough
<1>17. HashHolds'
  BY <1>1, <1>2, <1>3, ConstantAssumption DEF TInv, HashHolds
<1>18. OtherTypes'
  BY <1>1 DEF EndTimer, OtherTypes, functionVars, Position
<1> QED  BY <1>11, <1>12, <1>13, <1>14, <1>15, <1>16, <1>17, <1>18 DEF TInv

(* hh.next of an element of the hash is NULL or another element of it.     *)
LEMMA SuccessorFacts ==
    ASSUME TInv, NEW x \in Target, Contains(hash, x)
    PROVE  \/ Successor(x) = NoTarget
           \/ Successor(x) \in Target /\ Successor(x) # x /\ Contains(hash, Successor(x))
<1> DEFINE i == CHOOSE j \in DOMAIN hash : hash[j] = x
<1>1. hash \in Seq(Target) /\ Injective(hash)
  BY DEF TInv, TimerTypes, HashHolds, Injective
<1>2. i \in 1..Len(hash) /\ hash[i] = x
  <2>1. \E j \in DOMAIN hash : hash[j] = x
    BY <1>1 DEF Contains
  <2> QED  BY <1>1, <2>1
<1>3. Successor(x) = IF i < Len(hash) THEN hash[i + 1] ELSE NoTarget
  BY DEF Successor
<1> HIDE DEF i
<1>4. CASE i < Len(hash)
  <2>1. i + 1 \in 1..Len(hash) /\ i + 1 # i
    BY <1>1, <1>2, <1>4
  <2>2. hash[i + 1] # x
    BY <1>1, <1>2, <2>1 DEF Injective
  <2> QED  BY <1>1, <1>3, <1>4, <2>1, <2>2 DEF Contains
<1> QED  BY <1>3, <1>4

(* The loop over the hash moves on, and takes an emptied element out.      *)
LEMMA LeaveTargetInv ==
    ASSUME TInv, OtherTypes, LeaveTarget
    PROVE  TInv' /\ OtherTypes'
<1>1. /\ pc \in {"timer", "leave"} /\ pc \in Visiting /\ pc \notin InTimer
      /\ pc' = "target" /\ pc' \notin Visiting /\ pc' \notin InTimer
      /\ UNCHANGED <<dt, interval, calls, timer, refs, currentTargetSalvaged,
                     due, owed, functionVars>>
  BY DEF LeaveTarget, InTimer, Visiting, Triggering
<1>2. currentTarget \in Target /\ Contains(hash, currentTarget)
  BY <1>1, ConstantAssumption DEF TInv, TimerTypes, HashHolds
<1>3. hash \in Seq(Target) /\ Injective(hash)
  BY DEF TInv, TimerTypes, HashHolds, Injective
<1>4. /\ hash' \in Seq(Target)
      /\ Injective(hash')
      /\ element' \in [Target -> HashElement]
      /\ \A x \in Target : element'[x].timers = element[x].timers
      /\ \A x \in Target : element'[x].currentTimer = NoTimer
      /\ \A x \in Target : ~ Contains(hash', x) => element'[x] = NoElement
      /\ \A x : x # currentTarget /\ Contains(hash, x) => Contains(hash', x)
  <2>1. CASE Emptied
    <3>1. /\ hash' = RemoveFirst(hash, currentTarget)
          /\ element' = [element EXCEPT ![currentTarget] = NoElement]
          /\ element[currentTarget].timers = <<>>
      BY <2>1 DEF LeaveTarget, Emptied
    <3>2. NoElement \in HashElement /\ NoElement.timers = <<>>
            /\ NoElement.currentTimer = NoTimer
      BY DEF NoElement, HashElement
    <3>3. /\ hash' \in Seq(Target)
          /\ Injective(hash')
          /\ \A x : Contains(hash', x) <=> Contains(hash, x) /\ x # currentTarget
      BY <1>2, <1>3, <3>1, RemoveFirstProps
    <3> QED  BY <1>1, <1>2, <3>1, <3>2, <3>3, NoCurrentTimer DEF TInv, TimerTypes, HashHolds
  <2>2. CASE ~ Emptied
    <3>1. hash' = hash /\ element' = element
      BY <2>2 DEF LeaveTarget
    <3> QED  BY <1>1, <1>3, <3>1, NoCurrentTimer DEF TInv, TimerTypes, HashHolds
  <2> QED  BY <2>1, <2>2
<1>5. /\ currentTarget' \in Target \cup {NoTarget}
      /\ currentTarget' # NoTarget => Contains(hash', currentTarget')
  <2>1. currentTarget' = Successor(currentTarget)
    BY DEF LeaveTarget
  <2> QED  BY <1>2, <1>4, <2>1, SuccessorFacts
<1>6. \A x \in Target : Scheduled(x)' = Scheduled(x)
  BY <1>4 DEF Scheduled
<1>7. TimerTypes'
  BY <1>1, <1>4, <1>5 DEF TInv, TimerTypes
<1>8. SlotsDistinct' /\ SlotsAllocated'
  BY <1>1, <1>4, <1>6 DEF TInv, SlotsDistinct, SlotsAllocated
<1>9. Counts'
  <2>1. \A u \in Timer : ~ Salvaged(u)' /\ ~ Salvaged(u)
    BY <1>1, <1>4, NoCurrentTimer, ConstantAssumption DEF Salvaged
  <2>2. \A u \in Timer : Held(u)' <=> Held(u)
    BY <1>6 DEF Held
  <2> QED  BY <1>1, <2>1, <2>2 DEF TInv, Counts
<1>10. CurrentTimers'
  BY <1>1, <1>4 DEF CurrentTimers
<1>11. ElapsedEnough'
  BY <1>1 DEF ElapsedEnough
<1>12. HashHolds'
  BY <1>1, <1>4, <1>5 DEF HashHolds, Injective
<1>13. OtherTypes'
  BY <1>1 DEF OtherTypes, functionVars, Position
<1> QED  BY <1>7, <1>8, <1>9, <1>10, <1>11, <1>12, <1>13 DEF TInv

-----------------------------------------------------------------------------
(* The steps that leave timers alone.                                      *)

(* Outside the walk of the hash, moving on changes nothing for timers.     *)
LEMMA QuietStep ==
    ASSUME TInv, UNCHANGED timerVars, currentTarget = NoTarget,
           pc \notin Visiting, pc' \notin Visiting
    PROVE  TInv'
<1>1. pc \notin InTimer /\ pc' \notin InTimer /\ pc' # "timer"
  BY DEF InTimer, Visiting, Triggering
<1>2. TimerTypes' /\ SlotsDistinct' /\ SlotsAllocated' /\ Counts'
  BY DEF TInv, TimerTypes, SlotsDistinct, SlotsAllocated, Counts, Scheduled, Held,
         Salvaged, timerVars
<1>3. CurrentTimers'
  BY <1>1 DEF TInv, CurrentTimers, timerVars
<1>4. ElapsedEnough'
  BY <1>1 DEF ElapsedEnough, InTimer, Triggering
<1>5. HashHolds'
  BY DEF TInv, HashHolds, timerVars
<1> QED  BY <1>2, <1>3, <1>4, <1>5 DEF TInv

(* What another thread does, or a stuttering step, changes nothing for     *)
(* timers.                                                                 *)
LEMMA ElsewhereStep ==
    ASSUME TInv, UNCHANGED <<pc, interval, timerVars>>
    PROVE  TInv'
BY DEF TInv, TimerTypes, SlotsDistinct, SlotsAllocated, Counts, CurrentTimers, ElapsedEnough,
       HashHolds, Scheduled, Held, Salvaged, Current, timerVars

(* Running posted functions changes nothing for timers.                    *)
LEMMA FunctionStepInv ==
    ASSUME TInv, OtherTypes,
           \/ EndTimers \/ TestFunctions \/ SwapFunctions \/ RunFunction
           \/ ReturnFromFunction \/ EndFrame
    PROVE  TInv' /\ OtherTypes'
<1>1. currentTarget = NoTarget /\ pc \notin Visiting /\ pc' \notin Visiting
  <2>1. /\ pc \in {"target", "functions", "swap", "run", "function"}
        /\ pc' \in {"functions", "idle", "swap", "run", "function"}
        /\ pc = "target" => currentTarget = NoTarget
    BY DEF EndTimers, TestFunctions, SwapFunctions, RunFunction, ReturnFromFunction, EndFrame
  <2> QED  BY <2>1 DEF TInv, HashHolds, Visiting, Triggering
<1>2. UNCHANGED timerVars
  BY DEF EndTimers, TestFunctions, SwapFunctions, RunFunction, ReturnFromFunction, EndFrame
<1>3. TInv'
  BY <1>1, <1>2, QuietStep
<1>4. CASE EndTimers \/ TestFunctions \/ EndFrame
  <2>1. /\ pc' \in {"functions", "idle", "swap"}
        /\ dt' \in {0, dt}
        /\ UNCHANGED <<interval, calls, functionVars>>
    BY <1>4 DEF EndTimers, TestFunctions, EndFrame
  <2>2. pc' \in Position /\ dt' \in Nat
    BY <2>1 DEF Position, OtherTypes
  <2> QED  BY <1>3, <2>1, <2>2 DEF OtherTypes, functionVars
<1>5. CASE SwapFunctions
  <2>1. <<>> \in Seq(1..MaxPosts)
    OBVIOUS
  <2> QED  BY <1>3, <1>5, <2>1 DEF SwapFunctions, OtherTypes, Position
<1>6. CASE RunFunction
  <2>1. Head(batch) \in 1..MaxPosts /\ Tail(batch) \in Seq(1..MaxPosts)
    BY <1>6, SeqParts DEF RunFunction, OtherTypes
  <2> QED  BY <1>3, <1>6, <2>1, ConstantAssumption DEF RunFunction, OtherTypes, Position
<1>7. CASE ReturnFromFunction
  BY <1>3, <1>7, ConstantAssumption DEF ReturnFromFunction, OtherTypes, Position
<1> QED  BY <1>4, <1>5, <1>6, <1>7

(* Nor does posting and removing them.                                     *)
LEMMA PostInv ==
    ASSUME TInv, OtherTypes, Post \/ RemoveAllFunctions
    PROVE  TInv' /\ OtherTypes'
<1>1. UNCHANGED <<pc, interval, timerVars>>
  BY DEF Post, RemoveAllFunctions
<1>2. TInv'
  BY <1>1, ElsewhereStep
<1>3. CASE Post
  <2>1. posted' \in 1..MaxPosts
    BY <1>3, ConstantAssumption DEF Post, OtherTypes
  <2>2. pending' \in Seq(1..MaxPosts)
    BY <1>3, <2>1 DEF Post, OtherTypes
  <2> QED  BY <1>2, <1>3, <2>1, <2>2 DEF Post, OtherTypes
<1>4. CASE RemoveAllFunctions
  <2>1. <<>> \in Seq(1..MaxPosts)
    OBVIOUS
  <2>2. ToSet(pending) \subseteq 1..MaxPosts
    BY SeqParts DEF OtherTypes
  <2>3. dropped' \subseteq 1..MaxPosts
    BY <1>4, <2>2 DEF RemoveAllFunctions, OtherTypes
  <2> QED  BY <1>2, <1>4, <2>1, <2>3 DEF RemoveAllFunctions, OtherTypes
<1> QED  BY <1>3, <1>4

-----------------------------------------------------------------------------
(* The inductive invariant.                                                *)

(* The scheduler starts with an empty hash and no Timer object.            *)
LEMMA InitInv == Init => IInv
<1> SUFFICES ASSUME Init
             PROVE  IInv
  OBVIOUS
<1> USE DEF Init
<1>1. /\ \A x \in Target : element[x] = NoElement /\ Scheduled(x) = {}
      /\ \A t \in Timer : ~ Held(t) /\ ~ Salvaged(t)
  BY DEF NoElement, Scheduled, ToSet, Held, Salvaged
<1>2. TimerTypes
  <2>1. NoElement \in HashElement
    BY DEF NoElement, HashElement
  <2>2. <<>> \in Seq(Target)
    OBVIOUS
  <2> QED  BY <2>1, <2>2 DEF TimerTypes
<1>3. OtherTypes
  <2>1. <<>> \in Seq(1..MaxPosts)
    OBVIOUS
  <2> QED  BY <2>1, ConstantAssumption DEF OtherTypes, Position
<1>4. SlotsDistinct /\ SlotsAllocated
  BY <1>1 DEF SlotsDistinct, SlotsAllocated, NoElement
<1>5. Counts
  BY <1>1 DEF Counts
<1>6. CurrentTimers /\ ElapsedEnough
  BY <1>1 DEF CurrentTimers, ElapsedEnough, NoElement, InTimer, Triggering
<1>7. HashHolds
  BY <1>1 DEF HashHolds, Visiting, Triggering
<1> QED  BY <1>2, <1>3, <1>4, <1>5, <1>6, <1>7, SplitIInv DEF TInv

(* Every step keeps it.                                                    *)
LEMMA NextInv == IInv /\ [Next]_vars => IInv'
<1> SUFFICES ASSUME TInv, OtherTypes, [Next]_vars
             PROVE  TInv' /\ OtherTypes'
  <2>1. IInv' <=> TInv' /\ OtherTypes'
    BY DEF IInv, TInv, OtherTypes, TypeOK, TimerTypes
  <2> QED  BY <2>1, SplitIInv
<1>1. CASE Call
  <2>1. OtherTypes'
    BY <1>1 DEF Call, OtherTypes, functionVars
  <2> QED  BY <1>1, <2>1, CallInv
<1>2. CASE Post \/ RemoveAllFunctions
  BY <1>2, PostInv
<1>3. CASE UNCHANGED vars
  <2>1. OtherTypes'
    BY <1>3 DEF OtherTypes, vars, functionVars
  <2> QED  BY <1>3, <2>1, ElsewhereStep DEF vars
<1>4. CASE BeginFrame
  BY <1>4, BeginFrameInv
<1>5. CASE VisitTarget
  BY <1>5, VisitTargetInv
<1>6. CASE BeginTimer
  BY <1>6, BeginTimerInv
<1>7. CASE ReturnFromDelay
  BY <1>7, ReturnFromDelayInv
<1>8. CASE ReturnFromInterval
  BY <1>8, ReturnFromIntervalInv
<1>9. CASE Cancel
  BY <1>9, CancelInv
<1>10. CASE EndTimer
  BY <1>10, EndTimerInv
<1>11. CASE LeaveTarget
  BY <1>11, LeaveTargetInv
<1>12. CASE \/ EndTimers \/ TestFunctions \/ SwapFunctions \/ RunFunction
            \/ ReturnFromFunction \/ EndFrame
  BY <1>12, FunctionStepInv
<1> QED  BY <1>1, <1>2, <1>3, <1>4, <1>5, <1>6, <1>7, <1>8, <1>9, <1>10, <1>11, <1>12
         DEF Next, Advance

(* IInv holds throughout.                                                  *)
THEOREM Invariance == Spec => []IInv
BY InitInv, NextInv, PTL DEF Spec

(* Every variable of the scheduler keeps its type.                         *)
THEOREM TypeCorrect == Spec => []TypeOK
<1>1. IInv => TypeOK
  BY DEF IInv
<1> QED  BY <1>1, Invariance, PTL

(* However callbacks schedule and unschedule, the hash element and the     *)
(* Timer object whose update() is on the stack are there when it returns.  *)
THEOREM NoDangling == Spec => []NoDanglingPointer
<1>1. IInv => NoDanglingPointer
  <2> SUFFICES ASSUME TInv, pc \in Visiting
               PROVE  /\ Contains(hash, currentTarget)
                      /\ pc \notin {"timer", "leave"} =>
                            /\ Current \in Timer
                            /\ refs[Current] > 0
                            /\ timer[Current].target = currentTarget
    BY SplitIInv DEF NoDanglingPointer
  <2>1. Contains(hash, currentTarget)
    BY DEF TInv, HashHolds
  <2>2. ASSUME pc \notin {"timer", "leave"}
        PROVE  Current \in Timer /\ refs[Current] > 0 /\ timer[Current].target = currentTarget
    <3>1. pc \in InTimer
      BY <2>2 DEF InTimer, Visiting
    <3>2. /\ Current \in Timer /\ timer[Current] # Freed
          /\ timer[Current].target = currentTarget
      BY <3>1, RunningTimer
    <3>3. refs[Current] \in Nat /\ refs[Current] # 0
      BY <3>2 DEF TInv, TimerTypes, Counts
    <3> QED  BY <3>2, <3>3
  <2> QED  BY <2>1, <2>2
<1> QED  BY <1>1, Invariance, PTL

(* A Timer object is never freed while an array slot or the running update *)
(* needs it, and never outlives them.                                      *)
THEOREM RefCounts == Spec => []RefCountsExact
<1>1. IInv => RefCountsExact
  <2> SUFFICES ASSUME TInv, NEW t \in Timer
               PROVE  refs[t] = Holders(t)
    BY SplitIInv DEF RefCountsExact
  <2> DEFINE slots == {x \in Target : t \in Scheduled(x)}
  <2>1. Cardinality(slots) = IF Held(t) THEN 1 ELSE 0
    <3>1. CASE Held(t)
      <4>1. PICK x \in Target : t \in Scheduled(x)
        BY <3>1 DEF Held
      <4>2. \A y \in Target : t \in Scheduled(y) => y = x
        BY <4>1 DEF TInv, SlotsAllocated
      <4>3. slots = {x}
        BY <4>1, <4>2
      <4> QED  BY <3>1, <4>3, FS_Singleton
    <3>2. CASE ~ Held(t)
      <4>1. slots = {}
        BY <3>2 DEF Held
      <4> QED  BY <3>2, <4>1, FS_EmptySet
    <3> QED  BY <3>1, <3>2
  <2>2. Holders(t) = Cardinality(slots) + IF Salvaged(t) THEN 1 ELSE 0
    BY DEF Holders, Salvaged
  <2>3. refs[t] = (IF Held(t) THEN 1 ELSE 0) + (IF Salvaged(t) THEN 1 ELSE 0)
    BY DEF TInv, Counts
  <2> HIDE DEF slots
  <2> QED  BY <2>1, <2>2, <2>3
<1> QED  BY <1>1, Invariance, PTL

-----------------------------------------------------------------------------
(* The two vectors of Scheduler::update, _functionsToPerform and the local *)
(* temp it is swapped into, implement the one queue of MainThreadQueue,    *)
(* and functions run in the order in which they were posted.               *)

(* What is posted and has not begun to run.                                *)
Waiting == batch \o pending

(* A function runs only in the loop over the batch, and a batch is left    *)
(* over only there.                                                        *)
BatchInv ==
    /\ running # 0 <=> pc = "function"
    /\ pc \notin {"run", "function"} => batch = <<>>

(* The order of posting is the order of the numbers given out by Post.     *)
OrderInv ==
    /\ \A i, j \in DOMAIN Waiting : i < j => Waiting[i] < Waiting[j]
    /\ \A i \in DOMAIN Waiting : running < Waiting[i] /\ Waiting[i] <= posted
    /\ running <= posted

(* What a step does to the queue, and to the part of it that the frame has *)
(* taken on.                                                               *)
PostStep ==
    /\ posted' = posted + 1 /\ Waiting' = Append(Waiting, posted')
    /\ batch' = batch /\ running' = running /\ dropped' = dropped
TakeStep ==
    /\ running = 0 /\ batch = <<>> /\ Waiting # <<>>
    /\ Waiting' = Waiting /\ batch' = Waiting'
    /\ running' = running /\ posted' = posted /\ dropped' = dropped
RunStep ==
    /\ running = 0 /\ batch # <<>> /\ Waiting # <<>>
    /\ running' = Head(Waiting) /\ Waiting' = Tail(Waiting) /\ batch' = Tail(batch)
    /\ posted' = posted /\ dropped' = dropped
ReturnStep ==
    /\ running # 0 /\ running' = 0
    /\ Waiting' = Waiting /\ batch' = batch /\ posted' = posted /\ dropped' = dropped
RemoveStep ==
    /\ Len(batch) \in 0..Len(Waiting)
    /\ Waiting' = SubSeq(Waiting, 1, Len(batch))
    /\ dropped' = dropped \cup {Waiting[i] : i \in (Len(batch) + 1)..Len(Waiting)}
    /\ batch' = batch /\ running' = running /\ posted' = posted
IdleStep ==
    /\ Waiting' = Waiting /\ batch' = batch
    /\ running' = running /\ posted' = posted /\ dropped' = dropped

(* A sequence over S is one over every larger set.                         *)
LEMMA SeqWidens ==
    ASSUME NEW S, NEW T, S \subseteq T, NEW s \in Seq(S)
    PROVE  s \in Seq(T)
<1>1. \A i \in 1..Len(s) : s[i] \in T
  OBVIOUS
<1>2. Len(s) \in Nat /\ s = [i \in 1..Len(s) |-> s[i]]
  OBVIOUS
<1> QED  BY <1>1, <1>2

(* The queue holds numbers.                                                *)
LEMMA WaitingType ==
    ASSUME TypeOK
    PROVE  Waiting \in Seq(Nat) /\ batch \in Seq(Nat) /\ pending \in Seq(Nat)
<1>1. 1..MaxPosts \subseteq Nat
  OBVIOUS
<1>2. batch \in Seq(Nat) /\ pending \in Seq(Nat)
  BY <1>1, SeqWidens DEF TypeOK
<1> QED  BY <1>2 DEF Waiting

(* Every step of the scheduler is a step of the queue or leaves it alone.  *)
LEMMA QueueStep ==
    ASSUME TypeOK, BatchInv, [Next]_vars
    PROVE  /\ BatchInv'
           /\ \/ Post /\ PostStep
              \/ TakeStep
              \/ RunStep
              \/ ReturnStep
              \/ RemoveStep
              \/ IdleStep
<1>1. Waiting \in Seq(Nat) /\ batch \in Seq(Nat) /\ pending \in Seq(Nat)
  BY WaitingType
<1>2. CASE UNCHANGED vars
  BY <1>2 DEF vars, functionVars, BatchInv, IdleStep, Waiting
<1>3. CASE Call
  BY <1>3 DEF Call, functionVars, BatchInv, IdleStep, Waiting
<1>4. CASE /\ pc \notin {"run", "function"} /\ pc' \notin {"run", "function"}
           /\ UNCHANGED functionVars
  BY <1>4 DEF functionVars, BatchInv, IdleStep, Waiting
<1>5. CASE Post
  <2>1. posted' \in Nat
    BY <1>5 DEF Post, TypeOK
  <2>2. batch \o Append(pending, posted') = Append(batch \o pending, posted')
    BY <1>1, <2>1
  <2> QED  BY <1>5, <2>2 DEF Post, PostStep, BatchInv, Waiting
<1>6. CASE RemoveAllFunctions
  <2> DEFINE w == batch \o pending
  <2>1. batch \o <<>> = SubSeq(w, 1, Len(batch))
    BY <1>1
  <2>2. Len(batch) \in 0..Len(w)
    BY <1>1
  <2>3. ToSet(pending) = {w[i] : i \in (Len(batch) + 1)..Len(w)}
    <3>1. /\ Len(batch) \in Nat /\ Len(pending) \in Nat
          /\ Len(w) = Len(batch) + Len(pending)
          /\ \A j \in 1..Len(pending) : w[Len(batch) + j] = pending[j]
      BY <1>1
    <3>2. ToSet(pending) = {pending[j] : j \in 1..Len(pending)}
      BY <1>1 DEF ToSet
    <3> HIDE DEF w
    <3>3. ASSUME NEW j \in 1..Len(pending)
          PROVE  pending[j] \in {w[i] : i \in (Len(batch) + 1)..Len(w)}
      <4>1. Len(batch) + j \in (Len(batch) + 1)..Len(w)
        BY <3>1
      <4> QED  BY <3>1, <4>1
    <3>4. ASSUME NEW i \in (Len(batch) + 1)..Len(w)
          PROVE  w[i] \in {pending[j] : j \in 1..Len(pending)}
      <4>1. i - Len(batch) \in 1..Len(pending) /\ Len(batch) + (i - Len(batch)) = i
        BY <3>1
      <4>2. w[i] = pending[i - Len(batch)]
        BY <3>1, <4>1
      <4> QED  BY <4>1, <4>2
    <3> QED  BY <3>2, <3>3, <3>4
  <2>4. w = Waiting /\ Waiting' = batch' \o pending'
    BY DEF Waiting
  <2> HIDE DEF w
  <2> QED  BY <1>6, <2>1, <2>2, <2>3, <2>4 DEF RemoveAllFunctions, RemoveStep, BatchInv
<1>7. CASE SwapFunctions
  <2>1. batch = <<>> /\ running = 0
    BY <1>7 DEF SwapFunctions, BatchInv
  <2>2. pending \o <<>> = pending /\ <<>> \o pending = pending
    BY <1>1
  <2>3. Waiting = pending /\ Waiting' = pending /\ batch' = pending
    BY <1>7, <2>1, <2>2 DEF SwapFunctions, Waiting
  <2>4. running' = running /\ posted' = posted /\ dropped' = dropped /\ BatchInv'
    BY <1>7 DEF SwapFunctions, BatchInv
  <2>5. CASE pending = <<>>
    BY <2>1, <2>3, <2>4, <2>5 DEF IdleStep
  <2>6. CASE pending # <<>>
    BY <2>1, <2>3, <2>4, <2>6 DEF TakeStep
  <2> QED  BY <2>4, <2>5, <2>6
<1>8. CASE RunFunction
  <2>1. /\ batch \o pending # <<>>
        /\ Head(batch \o pending) = Head(batch)
        /\ Tail(batch \o pending) = Tail(batch) \o pending
    BY <1>1, <1>8 DEF RunFunction
  <2>2. Head(batch) # 0
    <3>1. Head(batch) \in 1..MaxPosts
      BY <1>8, SeqParts DEF RunFunction, TypeOK
    <3> QED  BY <3>1
  <2> QED  BY <1>8, <2>1, <2>2 DEF RunFunction, RunStep, BatchInv, Waiting
<1>9. CASE ReturnFromFunction
  BY <1>9 DEF ReturnFromFunction, ReturnStep, BatchInv, Waiting
<1>10. CASE EndFrame
  BY <1>10 DEF EndFrame, functionVars, IdleStep, BatchInv, Waiting
<1>11. CASE \/ BeginFrame \/ VisitTarget \/ BeginTimer \/ ReturnFromDelay
            \/ ReturnFromInterval \/ Cancel \/ EndTimer \/ LeaveTarget
            \/ EndTimers \/ TestFunctions
  BY <1>4, <1>11 DEF BeginFrame, VisitTarget, BeginTimer, ReturnFromDelay, ReturnFromInterval,
        Cancel, EndTimer, LeaveTarget, EndTimers, TestFunctions, EnterLoop
<1> QED  BY <1>2, <1>3, <1>5, <1>6, <1>7, <1>8, <1>9, <1>10, <1>11 DEF Next, Advance

(* A step of the queue keeps it in order.                                  *)
LEMMA QueueStepOrder ==
    ASSUME Waiting \in Seq(Nat), running \in Nat, posted \in Nat, OrderInv,
           PostStep \/ TakeStep \/ RunStep \/ ReturnStep \/ RemoveStep \/ IdleStep
    PROVE  OrderInv'
<1> DEFINE w == Waiting
<1>1. w \in Seq(Nat) /\ running \in Nat /\ posted \in Nat
  OBVIOUS
<1>2. /\ \A i, j \in DOMAIN w : i < j => w[i] < w[j]
      /\ \A i \in DOMAIN w : running < w[i] /\ w[i] <= posted
      /\ running <= posted
      /\ DOMAIN w = 1..Len(w) /\ Len(w) \in Nat
      /\ \A i \in 1..Len(w) : w[i] \in Nat
  BY DEF OrderInv
<1> SUFFICES /\ \A i, j \in DOMAIN Waiting' : i < j => Waiting'[i] < Waiting'[j]
             /\ \A i \in DOMAIN Waiting' : running' < Waiting'[i] /\ Waiting'[i] <= posted'
             /\ running' <= posted'
  BY DEF OrderInv
<1> HIDE DEF w
<1>3. CASE PostStep
  <2>1. posted' = posted + 1 /\ running' = running /\ Waiting' = Append(w, posted + 1)
    BY <1>3 DEF PostStep, w
  <2>2. /\ DOMAIN Waiting' = 1..(Len(w) + 1)
        /\ \A i \in 1..Len(w) : Waiting'[i] = w[i]
        /\ Waiting'[Len(w) + 1] = posted + 1
    BY <1>1, <2>1
  <2>3. ASSUME NEW i \in DOMAIN Waiting', NEW j \in DOMAIN Waiting', i < j
        PROVE  Waiting'[i] < Waiting'[j]
    <3>1. CASE j = Len(w) + 1
      <4>1. i \in 1..Len(w) /\ Waiting'[i] = w[i] /\ w[i] <= posted /\ w[i] \in Nat
        BY <1>2, <2>2, <2>3, <3>1
      <4> QED  BY <1>1, <2>2, <3>1, <4>1
    <3>2. CASE j \in 1..Len(w)
      BY <1>2, <2>2, <2>3, <3>2
    <3> QED  BY <1>2, <2>2, <3>1, <3>2
  <2>4. ASSUME NEW i \in DOMAIN Waiting'
        PROVE  running' < Waiting'[i] /\ Waiting'[i] <= posted'
    <3>1. CASE i = Len(w) + 1
      BY <1>1, <1>2, <2>1, <2>2, <3>1
    <3>2. CASE i \in 1..Len(w)
      BY <1>1, <1>2, <2>1, <2>2, <3>2
    <3> QED  BY <1>1, <2>2, <3>1, <3>2
  <2> QED  BY <1>1, <1>2, <2>1, <2>3, <2>4
<1>4. CASE RunStep
  <2>1. w # <<>> /\ posted' = posted /\ running' = Head(w) /\ Waiting' = Tail(w)
    BY <1>4 DEF RunStep, w
  <2>2. /\ DOMAIN Waiting' = 1..(Len(w) - 1)
        /\ \A i \in 1..(Len(w) - 1) : Waiting'[i] = w[i + 1]
        /\ running' = w[1] /\ 1 \in 1..Len(w)
    BY <1>1, <2>1
  <2>3. \A i \in 1..(Len(w) - 1) : i + 1 \in DOMAIN w
    BY <1>2
  <2>4. 1 \in DOMAIN w /\ running' \in Nat /\ running' <= posted'
    BY <1>2, <2>1, <2>2
  <2>5. ASSUME NEW i \in DOMAIN Waiting', NEW j \in DOMAIN Waiting', i < j
        PROVE  Waiting'[i] < Waiting'[j]
    <3>1. i \in 1..(Len(w) - 1) /\ j \in 1..(Len(w) - 1) /\ i + 1 < j + 1
      BY <1>2, <2>2, <2>5
    <3> QED  BY <1>2, <2>2, <2>3, <3>1
  <2>6. ASSUME NEW i \in DOMAIN Waiting'
        PROVE  running' < Waiting'[i] /\ Waiting'[i] <= posted'
    <3>1. i \in 1..(Len(w) - 1) /\ 1 < i + 1
      BY <1>2, <2>2
    <3> QED  BY <1>2, <2>1, <2>2, <2>3, <2>4, <3>1
  <2> QED  BY <2>4, <2>5, <2>6
<1>5. CASE RemoveStep
  <2>1. PICK n \in 0..Len(w) : Waiting' = SubSeq(w, 1, n)
    BY <1>5 DEF RemoveStep, w
  <2>2. DOMAIN Waiting' = 1..n /\ \A i \in 1..n : Waiting'[i] = w[i]
    BY <1>1, <2>1
  <2>3. running' = running /\ posted' = posted
    BY <1>5 DEF RemoveStep
  <2>4. \A i \in 1..n : i \in DOMAIN w
    BY <1>2
  <2> QED  BY <1>2, <2>2, <2>3, <2>4
<1>6. CASE ReturnStep \/ IdleStep \/ TakeStep
  <2>1. Waiting' = w /\ posted' = posted /\ running' \in {0, running}
    BY <1>6 DEF ReturnStep, IdleStep, TakeStep, w
  <2> QED  BY <1>1, <1>2, <2>1
<1> QED  BY <1>3, <1>4, <1>5, <1>6

-----------------------------------------------------------------------------
(* The inductive invariant of the queue.                                   *)
QueueInv == IInv /\ BatchInv /\ OrderInv

(* The two vectors are always in the order of posting.                     *)
LEMMA QueueInvariance == Spec => []QueueInv
<1>1. Init => QueueInv
  <2> SUFFICES ASSUME Init
               PROVE  BatchInv /\ OrderInv
    BY InitInv DEF QueueInv
  <2>1. Waiting = <<>>
    BY DEF Init, Waiting
  <2> QED  BY <2>1 DEF Init, BatchInv, OrderInv
<1>2. QueueInv /\ [Next]_vars => QueueInv'
  <2> SUFFICES ASSUME QueueInv, [Next]_vars
               PROVE  QueueInv'
    OBVIOUS
  <2>1. TypeOK /\ IInv'
    BY NextInv DEF QueueInv, IInv
  <2>2. BatchInv' /\ (PostStep \/ TakeStep \/ RunStep \/ ReturnStep \/ RemoveStep \/ IdleStep)
    BY <2>1, QueueStep DEF QueueInv
  <2>3. OrderInv'
    <3>1. Waiting \in Seq(Nat) /\ running \in Nat /\ posted \in Nat
      BY <2>1, WaitingType DEF TypeOK
    <3> QED  BY <2>2, <3>1, QueueStepOrder DEF QueueInv
  <2> QED  BY <2>1, <2>2, <2>3 DEF QueueInv
<1> QED  BY <1>1, <1>2, PTL DEF Spec

(* Functions run in the order in which they were posted, each at most      *)
(* once, however posting, removing and swapping interleave.                *)
THEOREM InOrder == Spec => []FunctionsInOrder
<1>1. QueueInv => FunctionsInOrder
  <2> SUFFICES ASSUME QueueInv
               PROVE  FunctionsInOrder
    OBVIOUS
  <2> DEFINE w == Waiting
             q == IF running = 0 THEN w ELSE <<running>> \o w
  <2>1. w \in Seq(Nat) /\ running \in Nat
    BY WaitingType DEF QueueInv, IInv, TypeOK
  <2>2. /\ \A i, j \in DOMAIN w : i < j => w[i] < w[j]
        /\ \A i \in DOMAIN w : running < w[i]
        /\ DOMAIN w = 1..Len(w)
    BY <2>1 DEF QueueInv, OrderInv
  <2>3. q = IF running = 0 THEN batch \o pending ELSE <<running>> \o batch \o pending
    <3>1. <<running>> \o batch \o pending = <<running>> \o (batch \o pending)
      BY WaitingType, <2>1 DEF QueueInv, IInv
    <3> QED  BY <3>1 DEF Waiting
  <2> HIDE DEF w
  <2>4. ASSUME NEW i \in DOMAIN q, NEW j \in DOMAIN q, i < j
        PROVE  q[i] < q[j]
    <3>1. CASE running = 0
      BY <2>2, <2>4, <3>1
    <3>2. CASE running # 0
      <4>1. /\ DOMAIN q = 1..(Len(w) + 1)
            /\ q[1] = running
            /\ \A k \in 2..(Len(w) + 1) : q[k] = w[k - 1] /\ k - 1 \in DOMAIN w
        BY <2>1, <2>2, <3>2
      <4> HIDE DEF q
      <4>2. j \in 2..(Len(w) + 1)
        BY <2>1, <2>4, <4>1
      <4>3. CASE i = 1
        BY <2>2, <4>1, <4>2, <4>3
      <4>4. CASE i # 1
        <5>1. i \in 2..(Len(w) + 1) /\ i - 1 < j - 1
          BY <2>1, <2>4, <4>1, <4>2, <4>4
        <5> QED  BY <2>2, <4>1, <4>2, <5>1
      <4> QED  BY <4>3, <4>4
    <3> QED  BY <3>1, <3>2
  <2> HIDE DEF q
  <2> QED  BY <2>3, <2>4 DEF FunctionsInOrder
<1> QED  BY <1>1, QueueInvariance, PTL

(* The scheduler implements the queue: testing the vector without the      *)
(* mutex and swapping it out under it loses, repeats and reorders nothing, *)
(* and only a call that removes functions removes any.                     *)
THEOREM QueueRefinement == Spec => Queue!Spec
<1>1. Init => Queue!Init
  BY DEF Init, Queue!Init
<1>2. QueueInv /\ [Next]_vars => [Queue!Next]_(Queue!queueVars)
  <2> SUFFICES ASSUME QueueInv, [Next]_vars
               PROVE  [Queue!Next]_(Queue!queueVars)
    OBVIOUS
  <2>1. \/ Post /\ PostStep
        \/ TakeStep \/ RunStep \/ ReturnStep \/ RemoveStep \/ IdleStep
    BY QueueStep DEF QueueInv, IInv
  <2>2. CASE Post /\ PostStep
    BY <2>2 DEF Post, PostStep, Waiting, Queue!Next, Queue!Post
  <2>3. CASE RunStep
    <3>1. Len(batch) > 0 /\ Len(Tail(batch)) = Len(batch) - 1
      BY <2>3, WaitingType DEF RunStep, QueueInv, IInv
    <3> QED  BY <2>3, <3>1 DEF RunStep, Waiting, Queue!Next, Queue!Serve, Queue!Run
  <2>4. CASE ReturnStep
    BY <2>4 DEF ReturnStep, Waiting, Queue!Next, Queue!Serve, Queue!Return
  <2>5. CASE RemoveStep
    BY <2>5 DEF RemoveStep, Waiting, Queue!Next, Queue!Remove
  <2>6. CASE IdleStep
    BY <2>6 DEF IdleStep, Waiting, Queue!queueVars
  <2>7. CASE TakeStep
    <3>1. Len(<<>>) = 0
      OBVIOUS
    <3> QED  BY <2>7, <3>1 DEF TakeStep, Waiting, Queue!Next, Queue!Serve, Queue!Take
  <2> QED  BY <2>1, <2>2, <2>3, <2>4, <2>5, <2>6, <2>7
<1> QED  BY <1>1, <1>2, QueueInvariance, PTL DEF Spec, Queue!Spec
=============================================================================
