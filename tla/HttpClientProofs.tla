-------------------------- MODULE HttpClientProofs --------------------------
(***************************************************************************)
(* IInv is an inductive invariant of HttpClient, for any number of clients *)
(* and requests.  One lemma per part of it shows that every step keeps it. *)
(* CountStep is about who may delete a client, RefsStep about the owners of*)
(* a request; the latter rests on each request being in one place at a time*)
(* (InRequestQueue, InThread, InResponseQueue, AloneStands), so that no two*)
(* threads change the count of a request that is not released early.       *)
(* OrderInv is inductive with it: the last part is about the order in which*)
(* requests get to their callbacks.                                        *)
(***************************************************************************)
EXTENDS HttpClient, FiniteSetTheorems, TLAPS

(* The cases of a step.                                                    *)
LEMMA Steps ==
    ASSUME [Next]_vars
    PROVE  \/ \E c \in Client : \/ GetInstance(c) \/ WakeSpuriously(c)
                                \/ CountNetworkThread(c) \/ TakeRequest(c) \/ Wait(c)
                                \/ EraseRequest(c) \/ LoadForResponse(c)
                                \/ NewResponse(c) \/ PushResponse(c)
                                \/ PostDispatch(c) \/ ClearQueues(c)
                                \/ LeaveNetworkThread(c)
           \/ \E r \in Request : \/ Send(r) \/ SendImmediate(r)
                                 \/ CountAlone(r) \/ PostAlone(r) \/ LeaveAlone(r)
           \/ DestroyInstance \/ NotifySent \/ LoadRefs \/ StoreRefs
           \/ DetachScheduler \/ PushSentinel \/ NotifySentinel \/ LeaveClient
           \/ RunFunction \/ Return
           \/ UNCHANGED vars
BY DEF Next, NetworkThread, NetworkThreadAlone, MainContinues

-----------------------------------------------------------------------------
(* Queues.                                                                 *)

(* One element more.                                                       *)
LEMMA AppendParts ==
    ASSUME NEW S, NEW s \in Seq(S), NEW e \in S
    PROVE  /\ Append(s, e) \in Seq(S)
           /\ DOMAIN Append(s, e) = DOMAIN s \cup {Len(s) + 1}
           /\ \A i \in DOMAIN s : Append(s, e)[i] = s[i] /\ i # Len(s) + 1
           /\ Append(s, e)[Len(s) + 1] = e
           /\ ToSet(Append(s, e)) = ToSet(s) \cup {e}
           /\ \A i \in DOMAIN s : s[i] \in ToSet(s)
<1>1. /\ DOMAIN s = 1..Len(s) /\ Len(s) \in Nat
      /\ DOMAIN Append(s, e) = 1..(Len(s) + 1)
      /\ \A i \in 1..Len(s) : Append(s, e)[i] = s[i]
      /\ Append(s, e)[Len(s) + 1] = e
      /\ Append(s, e) \in Seq(S)
  OBVIOUS
<1>2. 1..(Len(s) + 1) = 1..Len(s) \cup {Len(s) + 1}
  BY <1>1
<1>3. \A i \in 1..Len(s) : i # Len(s) + 1
  BY <1>1
<1>4. ToSet(Append(s, e)) = ToSet(s) \cup {e}
  BY <1>1, <1>2 DEF ToSet
<1> QED  BY <1>1, <1>2, <1>3, <1>4 DEF ToSet

(* Without the first element.                                              *)
LEMMA TailParts ==
    ASSUME NEW S, NEW s \in Seq(S), s # <<>>
    PROVE  /\ Head(s) \in S /\ Tail(s) \in Seq(S)
           /\ Head(s) = s[1] /\ 1 \in DOMAIN s
           /\ \A i \in DOMAIN Tail(s) : /\ i + 1 \in DOMAIN s /\ i + 1 # 1 /\ i \in Int
                                        /\ Tail(s)[i] = s[i + 1]
           /\ ToSet(s) = ToSet(Tail(s)) \cup {Head(s)}
<1>1. /\ DOMAIN s = 1..Len(s) /\ Len(s) \in Nat \ {0}
      /\ DOMAIN Tail(s) = 1..(Len(s) - 1) /\ Head(s) = s[1]
      /\ \A i \in 1..(Len(s) - 1) : Tail(s)[i] = s[i + 1]
      /\ Head(s) \in S /\ Tail(s) \in Seq(S)
  OBVIOUS
<1>2. \A i \in 1..Len(s) : i = 1 \/ (i - 1 \in 1..(Len(s) - 1) /\ Tail(s)[i - 1] = s[i])
  BY <1>1
<1>3. /\ 1 \in 1..Len(s)
      /\ \A i \in 1..(Len(s) - 1) : i + 1 \in 1..Len(s) /\ i + 1 # 1 /\ i \in Int
  BY <1>1
<1>4. ASSUME NEW i \in 1..Len(s)
      PROVE  s[i] \in ToSet(Tail(s)) \cup {Head(s)}
  BY <1>1, <1>2 DEF ToSet
<1>5. ASSUME NEW i \in 1..(Len(s) - 1)
      PROVE  Tail(s)[i] \in ToSet(s)
  BY <1>1, <1>3 DEF ToSet
<1>6. Head(s) \in ToSet(s)
  BY <1>1, <1>3 DEF ToSet
<1>7. ToSet(s) = ToSet(Tail(s)) \cup {Head(s)}
  BY <1>1, <1>4, <1>5, <1>6 DEF ToSet
<1> QED  BY <1>1, <1>3, <1>7

(* The first element of a queue without repetition is not in the rest.     *)
LEMMA HeadLeaves ==
    ASSUME NEW S, NEW s \in Seq(S), s # <<>>, NEW T,
           \A i, j \in DOMAIN s : s[i] = s[j] /\ s[i] \in T => i = j
    PROVE  /\ Head(s) \in T => Head(s) \notin ToSet(Tail(s))
           /\ \A i, j \in DOMAIN Tail(s) :
                  Tail(s)[i] = Tail(s)[j] /\ Tail(s)[i] \in T => i = j
<1>1. /\ Head(s) = s[1] /\ 1 \in DOMAIN s
      /\ \A i \in DOMAIN Tail(s) : /\ i + 1 \in DOMAIN s /\ i + 1 # 1 /\ i \in Int
                                   /\ Tail(s)[i] = s[i + 1]
  BY TailParts
<1>2. ASSUME Head(s) \in T, Head(s) \in ToSet(Tail(s))
      PROVE  FALSE
  <2>1. PICK i \in DOMAIN Tail(s) : Tail(s)[i] = Head(s)
    BY <1>2 DEF ToSet
  <2> QED  BY <1>1, <1>2, <2>1
<1>3. ASSUME NEW i \in DOMAIN Tail(s), NEW j \in DOMAIN Tail(s),
             Tail(s)[i] = Tail(s)[j], Tail(s)[i] \in T
      PROVE  i = j
  <2>1. i + 1 = j + 1
    BY <1>1, <1>3
  <2> QED  BY <1>1, <2>1
<1> QED  BY <1>2, <1>3

LEMMA EmptyQueue == ToSet(<<>>) = {} /\ IsInjective(<<>>) /\ DOMAIN <<>> = {}
BY DEF ToSet, IsInjective

-----------------------------------------------------------------------------
(* Types.                                                                  *)
ClientTypes ==
    /\ instance \in Client \cup {None}
    /\ object \in [Client -> {"none", "alive", "deleted"}]
    /\ threadCount \in [Client -> Nat]
    /\ scheduler \subseteq Client

QueueTypes ==
    /\ requestQueue \in [Client -> Seq(Request \cup {Sentinel})]
    /\ responseQueue \in [Client -> Seq(Request)]
    /\ functions \in Seq([client : Client, request : Request \cup {None}])
    /\ sent \in [Client -> Seq(Request)]
    /\ answered \in Seq(Request)

ThreadTypes ==
    /\ net \in [Client -> {"none", "started", "test", "blocked", "erase", "respond",
                           "retain", "push", "post", "clear", "leave", "ended"}]
    /\ request \in [Client -> Request \cup {None}]
    /\ alone \in [Request -> {"none", "started", "post", "leave", "ended"}]
    /\ owner \in [Request -> Client \cup {None}]

RefTypes ==
    /\ refs \in [Request -> Int]
    /\ response \subseteq Request
    /\ register \in [Client \cup {None} -> Int]
    /\ mine \subseteq Request

MainTypes ==
    /\ main \in {"idle", "notify", "load", "store", "detach", "sentinel", "wake",
                 "leave"}
    /\ sending \in Request \cup {None}
    /\ closing \in Client \cup {None}
    /\ callback \in Request \cup {None}

LEMMA TypeParts ==
    TypeOK <=> ClientTypes /\ QueueTypes /\ ThreadTypes /\ RefTypes /\ MainTypes
BY DEF TypeOK, ClientTypes, QueueTypes, ThreadTypes, RefTypes, MainTypes

(* The threads of a client are finitely many.                              *)
LEMMA AloneFinite ==
    ASSUME NEW c
    PROVE  IsFiniteSet(AloneCounted(c)) /\ Cardinality(AloneCounted(c)) \in Nat
<1>1. AloneCounted(c) \subseteq Request
  BY DEF AloneCounted
<1> QED  BY <1>1, HttpClientAssumption, FS_Subset, FS_CardinalityType

LEMMA CountNat == \A b \in BOOLEAN : Count(b) \in 0..1 /\ (b <=> Count(b) = 1)
BY DEF Count

(* Who has counted itself keeps the client alive.                          *)
LEMMA Counted ==
    ASSUME TypeOK, CountExact, NEW c \in Client,
           c \in {instance, closing} \/ NetCounted(c) \/ AloneCounted(c) # {}
    PROVE  threadCount[c] \in Nat /\ threadCount[c] >= 1 /\ Alive(c)
<1> DEFINE a == Count(c \in {instance, closing})
           b == Count(NetCounted(c))
           n == Cardinality(AloneCounted(c))
<1>1. threadCount[c] = a + b + n /\ (Alive(c) <=> threadCount[c] > 0)
  BY DEF CountExact
<1>2. a \in 0..1 /\ b \in 0..1 /\ n \in Nat
  <2>1. (c \in {instance, closing}) \in BOOLEAN /\ NetCounted(c) \in BOOLEAN
    BY DEF NetCounted
  <2> QED  BY <2>1, CountNat, AloneFinite
<1>3. a = 1 \/ b = 1 \/ n >= 1
  <2>1. CASE c \in {instance, closing} \/ NetCounted(c)
    BY <2>1 DEF Count
  <2>2. CASE AloneCounted(c) # {}
    BY <2>2, <1>2, AloneFinite, FS_EmptySet
  <2> QED  BY <2>1, <2>2
<1> HIDE DEF a, b, n
<1> QED  BY <1>1, <1>2, <1>3

LEMMA ClientTypesStep ==
    ASSUME TypeOK, CountExact, MainStands, [Next]_vars
    PROVE  ClientTypes'
<1>1. ClientTypes /\ owner \in [Request -> Client \cup {None}]
      /\ closing \in Client \cup {None} /\ None \notin Client
  BY TypeParts, HttpClientAssumption DEF ThreadTypes, MainTypes
<1> USE DEF ClientTypes
<1>2. ASSUME NEW c \in Client, DecreaseThreadCountAndMayDeleteThis(c),
             c \in {instance, closing} \/ NetCounted(c) \/ AloneCounted(c) # {}
      PROVE  ClientTypes'
  <2>1. threadCount[c] - 1 \in Nat
    BY <1>2, Counted
  <2> QED  BY <1>1, <1>2, <2>1 DEF DecreaseThreadCountAndMayDeleteThis
<1>3. ASSUME NEW c \in Client, IncreaseThreadCount(c)
      PROVE  ClientTypes'
  BY <1>1, <1>3 DEF IncreaseThreadCount
<1>4. ASSUME NEW c \in Client, GetInstance(c) \/ CountNetworkThread(c) \/ LeaveNetworkThread(c)
      PROVE  ClientTypes'
  <2>1. CASE GetInstance(c)
    BY <1>1, <2>1 DEF GetInstance
  <2>2. CASE CountNetworkThread(c)
    BY <1>3, <2>2 DEF CountNetworkThread
  <2>3. CASE LeaveNetworkThread(c)
    BY <1>2, <2>3 DEF LeaveNetworkThread, NetCounted
  <2> QED  BY <1>4, <2>1, <2>2, <2>3
<1>5. ASSUME NEW c \in Client,
             \/ WakeSpuriously(c) \/ TakeRequest(c) \/ Wait(c)
             \/ EraseRequest(c) \/ LoadForResponse(c) \/ NewResponse(c)
             \/ PushResponse(c) \/ PostDispatch(c) \/ ClearQueues(c)
      PROVE  ClientTypes'
  BY <1>1, <1>5 DEF WakeSpuriously, TakeRequest, Wait, EraseRequest, LoadForResponse,
                    NewResponse, PushResponse, PostDispatch, ClearQueues, clients
<1>6. ASSUME NEW r \in Request, CountAlone(r) \/ LeaveAlone(r)
      PROVE  ClientTypes'
  <2>1. CASE CountAlone(r)
    <3>1. owner[r] \in Client \/ owner[r] = None
      BY <1>1
    <3>2. CASE owner[r] \in Client
      BY <1>3, <2>1, <3>2 DEF CountAlone
    <3>3. CASE owner[r] = None
      BY <1>1, <2>1, <3>3 DEF CountAlone, IncreaseThreadCount
    <3> QED  BY <3>1, <3>2, <3>3
  <2>2. CASE LeaveAlone(r)
    <3>1. CASE owner[r] \in Client
      <4>1. AloneCounted(owner[r]) # {}
        BY <2>2 DEF LeaveAlone, AloneCounted
      <4> QED  BY <1>2, <2>2, <3>1, <4>1 DEF LeaveAlone
    <3>2. CASE owner[r] = None
      <4>1. threadCount' = threadCount
        BY <1>1, <2>2, <3>2 DEF LeaveAlone, DecreaseThreadCountAndMayDeleteThis
      <4>2. object' \in [Client -> {"none", "alive", "deleted"}]
        BY <1>1, <2>2, <3>2 DEF LeaveAlone, DecreaseThreadCountAndMayDeleteThis
      <4> QED  BY <1>1, <2>2, <4>1, <4>2 DEF LeaveAlone, DecreaseThreadCountAndMayDeleteThis
    <3> QED  BY <1>1, <3>1, <3>2
  <2> QED  BY <1>6, <2>1, <2>2
<1>7. ASSUME NEW r \in Request, Send(r) \/ SendImmediate(r) \/ PostAlone(r)
      PROVE  ClientTypes'
  BY <1>1, <1>7 DEF Send, SendImmediate, PostAlone, clients
<1>8. CASE DestroyInstance \/ DetachScheduler
  BY <1>1, <1>8 DEF DestroyInstance, DetachScheduler
<1>9. CASE LeaveClient
  <2>1. closing \in Client
    BY <1>1, <1>9 DEF LeaveClient, MainStands
  <2> QED  BY <1>2, <1>9, <2>1 DEF LeaveClient
<1>10. CASE NotifySent \/ LoadRefs \/ StoreRefs \/ PushSentinel \/ NotifySentinel
            \/ RunFunction \/ Return \/ UNCHANGED vars
  BY <1>1, <1>10 DEF NotifySent, LoadRefs, StoreRefs, PushSentinel, NotifySentinel,
                     RunFunction, Return, clients, vars
<1> QED  BY <1>4, <1>5, <1>6, <1>7, <1>8, <1>9, <1>10, Steps

LEMMA QueueTypesStep ==
    ASSUME TypeOK, MainStands, InThread, [Next]_vars
    PROVE  QueueTypes'
<1>1. /\ QueueTypes /\ ThreadTypes /\ MainTypes
      /\ instance \in Client \cup {None} /\ None \notin Client
      /\ Request \subseteq Request \cup {Sentinel}
  BY TypeParts, HttpClientAssumption DEF ClientTypes
<1> USE DEF QueueTypes
<1>2. ASSUME NEW r \in Request, Send(r)
      PROVE  QueueTypes'
  <2>1. instance \in Client
    BY <1>1, <1>2 DEF Send
  <2>2. /\ Append(requestQueue[instance], r) \in Seq(Request \cup {Sentinel})
        /\ Append(sent[instance], r) \in Seq(Request)
    <3>1. requestQueue[instance] \in Seq(Request \cup {Sentinel})
          /\ sent[instance] \in Seq(Request)
      BY <1>1, <2>1
    <3> QED  BY <3>1, AppendParts
  <2> QED  BY <1>1, <1>2, <2>1, <2>2 DEF Send
<1>3. CASE PushSentinel
  <2>1. closing \in Client
    BY <1>1, <1>3 DEF PushSentinel, MainStands, MainTypes
  <2>2. Append(requestQueue[closing], Sentinel) \in Seq(Request \cup {Sentinel})
    BY <1>1, <2>1, AppendParts
  <2> QED  BY <1>1, <1>3, <2>1, <2>2 DEF PushSentinel, history
<1>4. CASE RunFunction
  <2>1. /\ Head(functions) \in [client : Client, request : Request \cup {None}]
        /\ Tail(functions) \in Seq([client : Client, request : Request \cup {None}])
    BY <1>1, <1>4, TailParts DEF RunFunction
  <2>2. CASE Dispatch(Head(functions))
    <3> DEFINE c == Head(functions).client
    <3>1. c \in Client
      BY <2>1
    <3>2. CASE responseQueue[c] # <<>>
      <4>1. Head(responseQueue[c]) \in Request /\ Tail(responseQueue[c]) \in Seq(Request)
        BY <1>1, <3>1, <3>2, TailParts
      <4>2. Append(answered, Head(responseQueue[c])) \in Seq(Request)
        BY <1>1, <4>1, AppendParts
      <4> QED  BY <1>1, <1>4, <2>1, <2>2, <3>1, <3>2, <4>1, <4>2 DEF RunFunction, Dispatch
    <3>3. CASE responseQueue[c] = <<>>
      BY <1>1, <1>4, <2>1, <2>2, <3>3 DEF RunFunction, Dispatch
    <3> QED  BY <3>2, <3>3
  <2>3. CASE CallBackAlone(Head(functions))
    <3>1. Append(answered, Head(functions).request) \in Seq(Request)
      BY <1>1, <2>1, <2>3, AppendParts DEF CallBackAlone
    <3> QED  BY <1>1, <1>4, <2>1, <2>3, <3>1 DEF RunFunction, CallBackAlone
  <2> QED  BY <1>4, <2>2, <2>3 DEF RunFunction
<1>5. ASSUME NEW c \in Client, TakeRequest(c)
      PROVE  QueueTypes'
  <2>1. Tail(requestQueue[c]) \in Seq(Request \cup {Sentinel})
    BY <1>1, <1>5, TailParts DEF TakeRequest
  <2> QED  BY <1>1, <1>5, <2>1 DEF TakeRequest, history
<1>6. ASSUME NEW c \in Client, PushResponse(c)
      PROVE  QueueTypes'
  <2>1. Append(responseQueue[c], request[c]) \in Seq(Request)
    BY <1>1, <1>6, AppendParts DEF PushResponse, InThread, Holding
  <2> QED  BY <1>1, <1>6, <2>1 DEF PushResponse, history
<1>7. ASSUME NEW c \in Client, PostDispatch(c)
      PROVE  QueueTypes'
  <2>1. Append(functions, [client |-> c, request |-> None])
            \in Seq([client : Client, request : Request \cup {None}])
    BY <1>1, AppendParts
  <2> QED  BY <1>1, <1>7, <2>1 DEF PostDispatch, history
<1>8. ASSUME NEW r \in Request, PostAlone(r)
      PROVE  QueueTypes'
  <2>1. owner[r] \in Client => Append(functions, [client |-> owner[r], request |-> r])
            \in Seq([client : Client, request : Request \cup {None}])
    BY <1>1, AppendParts
  <2>2. owner[r] \in scheduler => owner[r] \in Client
    BY TypeParts DEF ClientTypes
  <2> QED  BY <1>1, <1>8, <2>1, <2>2 DEF PostAlone, history
<1>9. ASSUME NEW c \in Client, ClearQueues(c)
      PROVE  QueueTypes'
  BY <1>1, <1>9 DEF ClearQueues, history
<1>10. ASSUME NEW c \in Client,
              \/ GetInstance(c) \/ WakeSpuriously(c) \/ CountNetworkThread(c) \/ Wait(c)
              \/ EraseRequest(c) \/ LoadForResponse(c) \/ NewResponse(c)
              \/ LeaveNetworkThread(c)
       PROVE  QueueTypes'
  BY <1>1, <1>10 DEF GetInstance, WakeSpuriously, CountNetworkThread, Wait, EraseRequest,
                     LoadForResponse, NewResponse, LeaveNetworkThread, queues, history
<1>11. ASSUME NEW r \in Request, SendImmediate(r) \/ CountAlone(r) \/ LeaveAlone(r)
       PROVE  QueueTypes'
  BY <1>1, <1>11 DEF SendImmediate, CountAlone, LeaveAlone, queues, history
<1>12. CASE DestroyInstance \/ NotifySent \/ LoadRefs \/ StoreRefs \/ DetachScheduler
            \/ NotifySentinel \/ LeaveClient \/ Return \/ UNCHANGED vars
  BY <1>1, <1>12 DEF DestroyInstance, NotifySent, LoadRefs, StoreRefs, DetachScheduler,
                     NotifySentinel, LeaveClient, Return, queues, history, vars
<1> QED  BY <1>2, <1>3, <1>4, <1>5, <1>6, <1>7, <1>8, <1>9, <1>10, <1>11, <1>12, Steps

LEMMA ThreadTypesStep ==
    ASSUME TypeOK, [Next]_vars
    PROVE  ThreadTypes'
<1>1. ThreadTypes /\ instance \in Client \cup {None}
  BY TypeParts DEF ClientTypes
<1> USE DEF ThreadTypes
<1>2. ASSUME NEW c \in Client, TakeRequest(c)
      PROVE  ThreadTypes'
  <2>1. Head(requestQueue[c]) \in Request \cup {Sentinel}
    BY <1>2, TypeParts, TailParts DEF TakeRequest, QueueTypes
  <2> QED  BY <1>1, <1>2, <2>1 DEF TakeRequest
<1>3. ASSUME NEW c \in Client,
             \/ GetInstance(c) \/ WakeSpuriously(c) \/ CountNetworkThread(c) \/ Wait(c)
             \/ EraseRequest(c) \/ LoadForResponse(c) \/ NewResponse(c)
             \/ PushResponse(c) \/ PostDispatch(c) \/ ClearQueues(c)
             \/ LeaveNetworkThread(c)
      PROVE  ThreadTypes'
  BY <1>1, <1>3 DEF GetInstance, WakeSpuriously, CountNetworkThread, Wait, EraseRequest,
                    LoadForResponse, NewResponse, PushResponse, PostDispatch,
                    ClearQueues, LeaveNetworkThread, threads
<1>4. ASSUME NEW r \in Request,
             Send(r) \/ SendImmediate(r) \/ CountAlone(r) \/ PostAlone(r) \/ LeaveAlone(r)
      PROVE  ThreadTypes'
  BY <1>1, <1>4 DEF Send, SendImmediate, CountAlone, PostAlone, LeaveAlone
<1>5. CASE NotifySent \/ NotifySentinel
  BY <1>1, <1>5 DEF NotifySent, NotifySentinel, Notify
<1>6. CASE DestroyInstance \/ LoadRefs \/ StoreRefs \/ DetachScheduler \/ PushSentinel
           \/ LeaveClient \/ RunFunction \/ Return \/ UNCHANGED vars
  BY <1>1, <1>6 DEF DestroyInstance, LoadRefs, StoreRefs, DetachScheduler, PushSentinel,
                    LeaveClient, RunFunction, Return, threads, vars
<1> QED  BY <1>2, <1>3, <1>4, <1>5, <1>6, Steps

LEMMA RefTypesStep ==
    ASSUME TypeOK, MainStands, InThread, [Next]_vars
    PROVE  RefTypes'
<1>1. RefTypes /\ ThreadTypes /\ MainTypes /\ QueueTypes
  BY TypeParts
<1> USE DEF RefTypes
<1>2. ASSUME NEW c \in Client, TakeRequest(c)
      PROVE  RefTypes'
  <2>1. Head(requestQueue[c]) \in Request \cup {Sentinel}
    BY <1>1, <1>2, TailParts DEF TakeRequest, QueueTypes
  <2> QED  BY <1>1, <1>2, <2>1 DEF TakeRequest
<1>3. ASSUME NEW c \in Client, EraseRequest(c) \/ LoadForResponse(c) \/ NewResponse(c)
      PROVE  RefTypes'
  <2>1. request[c] \in Request
    BY <1>3 DEF EraseRequest, LoadForResponse, NewResponse, InThread, Holding
  <2> QED  BY <1>1, <1>3, <2>1 DEF EraseRequest, LoadForResponse, NewResponse
<1>4. ASSUME NEW c \in Client,
             \/ GetInstance(c) \/ WakeSpuriously(c) \/ CountNetworkThread(c) \/ Wait(c)
             \/ PushResponse(c) \/ PostDispatch(c) \/ ClearQueues(c)
             \/ LeaveNetworkThread(c)
      PROVE  RefTypes'
  BY <1>1, <1>4 DEF GetInstance, WakeSpuriously, CountNetworkThread, Wait, PushResponse,
                    PostDispatch, ClearQueues, LeaveNetworkThread, counts
<1>5. ASSUME NEW r \in Request,
             Send(r) \/ SendImmediate(r) \/ CountAlone(r) \/ PostAlone(r) \/ LeaveAlone(r)
      PROVE  RefTypes'
  BY <1>1, <1>5 DEF Send, SendImmediate, CountAlone, PostAlone, LeaveAlone, counts
<1>6. CASE LoadRefs \/ StoreRefs
  <2>1. sending \in Request
    BY <1>1, <1>6 DEF LoadRefs, StoreRefs, MainStands, MainTypes
  <2> QED  BY <1>1, <1>6, <2>1 DEF LoadRefs, StoreRefs
<1>7. CASE Return
  <2>1. callback \in Request
    BY <1>1, <1>7 DEF Return, MainTypes
  <2>2. refs[callback] - (IF callback \in mine THEN 3 ELSE 2) \in Int
    BY <1>1, <2>1
  <2>3. refs' \in [Request -> Int]
    BY <1>1, <1>7, <2>2 DEF Return
  <2> QED  BY <1>1, <1>7, <2>3 DEF Return
<1>8. CASE DestroyInstance \/ NotifySent \/ DetachScheduler \/ PushSentinel
           \/ NotifySentinel \/ LeaveClient \/ RunFunction \/ UNCHANGED vars
  BY <1>1, <1>8 DEF DestroyInstance, NotifySent, DetachScheduler, PushSentinel,
                    NotifySentinel, LeaveClient, RunFunction, counts, vars
<1> QED  BY <1>2, <1>3, <1>4, <1>5, <1>6, <1>7, <1>8, Steps

LEMMA MainTypesStep ==
    ASSUME TypeOK, MainStands, [Next]_vars
    PROVE  MainTypes'
<1>1. MainTypes /\ QueueTypes /\ instance \in Client \cup {None}
  BY TypeParts DEF ClientTypes
<1> USE DEF MainTypes
<1>2. CASE RunFunction
  <2>1. Head(functions) \in [client : Client, request : Request \cup {None}]
    BY <1>1, <1>2, TailParts DEF RunFunction, QueueTypes
  <2>2. CASE Dispatch(Head(functions))
    <3> DEFINE c == Head(functions).client
    <3>1. responseQueue[c] # <<>> => Head(responseQueue[c]) \in Request
      BY <1>1, <2>1, TailParts DEF QueueTypes
    <3> QED  BY <1>1, <1>2, <2>2, <3>1 DEF RunFunction, Dispatch
  <2>3. CASE CallBackAlone(Head(functions))
    BY <1>1, <1>2, <2>1, <2>3 DEF RunFunction, CallBackAlone
  <2> QED  BY <1>2, <2>2, <2>3 DEF RunFunction
<1>3. CASE NotifySent \/ LoadRefs \/ StoreRefs \/ Return
  BY <1>1, <1>3 DEF NotifySent, LoadRefs, StoreRefs, Return, AfterSending, mained
<1>4. CASE DestroyInstance \/ DetachScheduler \/ PushSentinel \/ NotifySentinel
           \/ LeaveClient \/ UNCHANGED vars
  BY <1>1, <1>4 DEF DestroyInstance, DetachScheduler, PushSentinel, NotifySentinel,
                    LeaveClient, mained, vars
<1>5. ASSUME NEW c \in Client,
             \/ GetInstance(c) \/ WakeSpuriously(c) \/ CountNetworkThread(c)
             \/ TakeRequest(c) \/ Wait(c) \/ EraseRequest(c) \/ LoadForResponse(c)
             \/ NewResponse(c) \/ PushResponse(c) \/ PostDispatch(c) \/ ClearQueues(c)
             \/ LeaveNetworkThread(c)
      PROVE  UNCHANGED mained
  BY <1>5 DEF GetInstance, WakeSpuriously, CountNetworkThread, TakeRequest, Wait,
              EraseRequest, LoadForResponse, NewResponse, PushResponse, PostDispatch,
              ClearQueues, LeaveNetworkThread
<1>6. ASSUME NEW r \in Request, CountAlone(r) \/ PostAlone(r) \/ LeaveAlone(r)
      PROVE  UNCHANGED mained
  BY <1>6 DEF CountAlone, PostAlone, LeaveAlone
<1>7. ASSUME NEW r \in Request, Send(r) \/ SendImmediate(r)
      PROVE  MainTypes'
  BY <1>1, <1>7 DEF Send, SendImmediate, AfterSending
<1>8. UNCHANGED mained => MainTypes'
  BY <1>1 DEF mained
<1> QED  BY <1>2, <1>3, <1>4, <1>5, <1>6, <1>7, <1>8, Steps

LEMMA TypeStep ==
    ASSUME TypeOK, CountExact, MainStands, InThread, [Next]_vars
    PROVE  TypeOK'
<1>1. ClientTypes' /\ QueueTypes' /\ ThreadTypes' /\ RefTypes' /\ MainTypes'
  BY ClientTypesStep, QueueTypesStep, ThreadTypesStep, RefTypesStep, MainTypesStep
<1> QED  BY <1>1 DEF TypeOK, ClientTypes, QueueTypes, ThreadTypes, RefTypes, MainTypes

-----------------------------------------------------------------------------
(* Where the main thread stands.                                           *)

(* What the threads of a client leave alone.                               *)
LEMMA ThreadsLeave ==
    ASSUME NEW c,
           \/ WakeSpuriously(c) \/ CountNetworkThread(c) \/ TakeRequest(c) \/ Wait(c)
           \/ EraseRequest(c) \/ LoadForResponse(c) \/ NewResponse(c)
           \/ PushResponse(c) \/ PostDispatch(c) \/ ClearQueues(c)
           \/ LeaveNetworkThread(c)
    PROVE  UNCHANGED <<main, sending, closing, callback, mine, owner, alone, instance,
                       answered, scheduler>>
BY DEF WakeSpuriously, CountNetworkThread, TakeRequest, Wait, EraseRequest,
       LoadForResponse, NewResponse, PushResponse, PostDispatch, ClearQueues,
       LeaveNetworkThread, mained, counts, clients, threads, history,
       IncreaseThreadCount, DecreaseThreadCountAndMayDeleteThis

LEMMA ThreadsAloneLeave ==
    ASSUME NEW r, CountAlone(r) \/ PostAlone(r) \/ LeaveAlone(r)
    PROVE  UNCHANGED <<main, sending, closing, callback, mine, owner, instance, net,
                       request, requestQueue, responseQueue, refs, register, response,
                       answered, scheduler>>
BY DEF CountAlone, PostAlone, LeaveAlone, mained, counts, clients, queues, history,
       IncreaseThreadCount, DecreaseThreadCountAndMayDeleteThis

LEMMA MainStandsStep ==
    ASSUME TypeOK, MainStands, AloneStands, CallbackStands, [Next]_vars
    PROVE  MainStands'
<1>1. /\ ThreadTypes /\ MainTypes /\ RefTypes /\ instance \in Client \cup {None}
      /\ None \notin Client /\ None \notin Request
  BY TypeParts, HttpClientAssumption DEF ClientTypes
<1> USE DEF MainStands
<1>2. ASSUME UNCHANGED <<main, sending, closing, mine, owner, alone, instance>>
      PROVE  MainStands'
  BY <1>2
<1>3. ASSUME NEW c \in Client, GetInstance(c)
      PROVE  MainStands'
  BY <1>3 DEF GetInstance, MayCall, mained, counts, threads
<1>4. ASSUME NEW r \in Request, Send(r) \/ SendImmediate(r)
      PROVE  MainStands'
  <2>1. alone[r] = "none" /\ r \in mine
    BY <1>4 DEF Send, SendImmediate, AloneStands
  <2>2. CASE Send(r)
    <3>1. owner'[r] = instance /\ instance # None
      BY <1>1, <2>2 DEF Send, ThreadTypes
    <3> QED  BY <1>1, <2>1, <2>2, <3>1 DEF Send, MayCall, clients
  <2>3. CASE SendImmediate(r)
    <3>1. owner'[r] = instance /\ instance # None
      BY <1>1, <2>3 DEF SendImmediate, ThreadTypes
    <3> QED  BY <1>1, <2>1, <2>3, <3>1 DEF SendImmediate, AfterSending, MayCall, clients
  <2> QED  BY <1>4, <2>2, <2>3
<1>5. CASE NotifySent \/ LoadRefs \/ StoreRefs
  BY <1>1, <1>5 DEF NotifySent, LoadRefs, StoreRefs, AfterSending, clients, threads, counts
<1>6. CASE DestroyInstance \/ DetachScheduler \/ PushSentinel \/ NotifySentinel
           \/ LeaveClient
  BY <1>1, <1>6 DEF DestroyInstance, DetachScheduler, PushSentinel, NotifySentinel,
                    LeaveClient, MayCall, DecreaseThreadCountAndMayDeleteThis,
                    clients, threads, counts
<1>7. CASE RunFunction \/ Return
  BY <1>1, <1>7 DEF RunFunction, Return, clients, threads, counts
<1>8. ASSUME NEW r \in Request, CountAlone(r) \/ PostAlone(r) \/ LeaveAlone(r)
      PROVE  MainStands'
  <2>1. main = "notify" => alone'[sending] = alone[sending]
    <3>1. alone[r] # "none" /\ (main = "notify" => sending # r)
      BY <1>8 DEF CountAlone, PostAlone, LeaveAlone
    <3>2. main = "notify" => sending \in Request
      BY <1>1 DEF MainTypes
    <3> QED  BY <1>1, <1>8, <3>1, <3>2 DEF CountAlone, PostAlone, LeaveAlone, ThreadTypes
  <2> QED  BY <1>8, <2>1, ThreadsAloneLeave
<1>9. CASE UNCHANGED vars
  BY <1>2, <1>9 DEF vars, clients, threads, counts, mained
<1> QED  BY <1>2, <1>3, <1>4, <1>5, <1>6, <1>7, <1>8, <1>9, Steps, ThreadsLeave

-----------------------------------------------------------------------------
(* The count of a client.                                                  *)

(* Who works with a client: CountExact says that threadCount is that.      *)
Working(c) ==
    Count(c \in {instance, closing}) + Count(NetCounted(c)) + Cardinality(AloneCounted(c))

LEMMA WorkingNat ==
    /\ \A c : Working(c) \in Nat
    /\ CountExact <=> \A c \in Client : /\ threadCount[c] = Working(c)
                                        /\ Alive(c) <=> threadCount[c] > 0
<1>1. ASSUME NEW c
      PROVE  Working(c) \in Nat
  <2> DEFINE a == Count(c \in {instance, closing})
             b == Count(NetCounted(c))
             n == Cardinality(AloneCounted(c))
  <2>2. a \in Nat /\ b \in Nat /\ n \in Nat
    BY AloneFinite DEF Count
  <2>3. Working(c) = a + b + n
    BY DEF Working
  <2> HIDE DEF a, b, n
  <2> QED  BY <2>2, <2>3
<1> QED  BY <1>1 DEF CountExact, Working

(* Nobody of a client comes or leaves.                                     *)
LEMMA SameWorking ==
    ASSUME NEW c,
           (c \in {instance, closing})' <=> c \in {instance, closing},
           NetCounted(c)' <=> NetCounted(c),
           AloneCounted(c)' = AloneCounted(c)
    PROVE  Working(c)' = Working(c)
<1>1. Count(c \in {instance', closing'}) = Count(c \in {instance, closing})
  BY DEF Count
<1>2. Count(NetCounted(c)') = Count(NetCounted(c))
  BY DEF Count, NetCounted
<1> QED  BY <1>1, <1>2 DEF Working

(* The main thread comes or leaves.                                        *)
LEMMA MainWorking ==
    ASSUME NEW c, NetCounted(c)' <=> NetCounted(c), AloneCounted(c)' = AloneCounted(c)
    PROVE  /\ c \in {instance, closing}' /\ c \notin {instance, closing}
                => Working(c)' = Working(c) + 1
           /\ c \notin {instance, closing}' /\ c \in {instance, closing}
                => Working(c)' = Working(c) - 1
<1> DEFINE b == Count(NetCounted(c))
           n == Cardinality(AloneCounted(c))
<1>1. b' = b /\ n' = n
  BY DEF Count, NetCounted
<1>2. b \in Nat /\ n \in Nat
  BY AloneFinite DEF Count
<1>3. Working(c) = Count(c \in {instance, closing}) + b + n
      /\ Working(c)' = Count(c \in {instance', closing'}) + b' + n'
  BY DEF Working
<1> HIDE DEF b, n
<1> QED  BY <1>1, <1>2, <1>3 DEF Count

(* Its network thread does.                                                *)
LEMMA NetWorking ==
    ASSUME NEW c, (c \in {instance, closing})' <=> c \in {instance, closing},
           AloneCounted(c)' = AloneCounted(c)
    PROVE  /\ NetCounted(c)' /\ ~NetCounted(c) => Working(c)' = Working(c) + 1
           /\ ~NetCounted(c)' /\ NetCounted(c) => Working(c)' = Working(c) - 1
<1> DEFINE a == Count(c \in {instance, closing})
           n == Cardinality(AloneCounted(c))
<1>1. a' = a /\ n' = n
  BY DEF Count
<1>2. a \in Nat /\ n \in Nat
  BY AloneFinite DEF Count
<1>3. Working(c) = a + Count(NetCounted(c)) + n
      /\ Working(c)' = a' + Count(NetCounted(c)') + n'
  BY DEF Working
<1> HIDE DEF a, n
<1> QED  BY <1>1, <1>2, <1>3 DEF Count

(* The thread of an immediate request does.                                *)
LEMMA AloneWorking ==
    ASSUME NEW c, NEW r, (c \in {instance, closing})' <=> c \in {instance, closing},
           NetCounted(c)' <=> NetCounted(c)
    PROVE  /\ r \notin AloneCounted(c) /\ AloneCounted(c)' = AloneCounted(c) \cup {r}
                => Working(c)' = Working(c) + 1
           /\ r \in AloneCounted(c) /\ AloneCounted(c)' = AloneCounted(c) \ {r}
                => Working(c)' = Working(c) - 1
<1> DEFINE a == Count(c \in {instance, closing})
           b == Count(NetCounted(c))
           A == AloneCounted(c)
<1>1. a' = a /\ b' = b
  BY DEF Count, NetCounted
<1>2. a \in Nat /\ b \in Nat
  BY DEF Count
<1>3. Working(c) = a + b + Cardinality(A) /\ Working(c)' = a' + b' + Cardinality(A')
  BY DEF Working
<1>4. IsFiniteSet(A) /\ Cardinality(A) \in Nat
  BY AloneFinite
<1> HIDE DEF a, b, A
<1>5. r \notin A /\ A' = A \cup {r} => Cardinality(A') = Cardinality(A) + 1
  BY <1>4, FS_AddElement
<1>6. r \in A /\ A' = A \ {r} => Cardinality(A') = Cardinality(A) - 1
  BY <1>4, FS_RemoveElement
<1>7. /\ r \notin A /\ A' = A \cup {r} => Working(c)' = Working(c) + 1
      /\ r \in A /\ A' = A \ {r} => Working(c)' = Working(c) - 1
  BY <1>1, <1>2, <1>3, <1>4, <1>5, <1>6
<1> QED  BY <1>7 DEF A

(* Each action gives or takes one of the count it stands for.              *)
LEMMA CountStep ==
    ASSUME TypeOK, MainStands, AloneStands, CountExact, [Next]_vars
    PROVE  CountExact'
<1>1. /\ ThreadTypes /\ MainTypes /\ ClientTypes
      /\ None \notin Client /\ None \notin Request
  BY TypeParts, HttpClientAssumption
<1>2. \A c \in Client : /\ threadCount[c] = Working(c) /\ Working(c) \in Nat
                        /\ Alive(c) <=> threadCount[c] > 0
  BY WorkingNat
<1>3. CountExact' <=> \A c \in Client : /\ threadCount'[c] = Working(c)'
                                        /\ Alive(c)' <=> threadCount'[c] > 0
  BY DEF CountExact, Working
<1>4. ASSUME UNCHANGED <<threadCount, object>>,
             \A c \in Client : Working(c)' = Working(c)
      PROVE  CountExact'
  BY <1>2, <1>3, <1>4 DEF Alive
<1>5. ASSUME NEW d \in Client, IncreaseThreadCount(d), Alive(d),
             \A c \in Client : Working(c)' = IF c = d THEN Working(c) + 1 ELSE Working(c)
      PROVE  CountExact'
  BY <1>1, <1>2, <1>3, <1>5 DEF IncreaseThreadCount, Alive, ClientTypes
<1>6. ASSUME NEW d \in Client, DecreaseThreadCountAndMayDeleteThis(d), Working(d) >= 1,
             \A c \in Client : Working(c)' = IF c = d THEN Working(c) - 1 ELSE Working(c)
      PROVE  CountExact'
  BY <1>1, <1>2, <1>3, <1>6 DEF DecreaseThreadCountAndMayDeleteThis, Alive, ClientTypes
<1>7. ASSUME UNCHANGED <<threadCount, object, instance, closing, owner, alone>>,
             \A c \in Client : NetCounted(c)' <=> NetCounted(c)
      PROVE  CountExact'
  <2>1. \A c \in Client : AloneCounted(c)' = AloneCounted(c)
    BY <1>7 DEF AloneCounted
  <2> QED  BY <1>4, <1>7, <2>1, SameWorking
<1>8. ASSUME NEW d \in Client, GetInstance(d)
      PROVE  CountExact'
  <2>1. closing = None /\ instance = None
    BY <1>8 DEF GetInstance, MayCall, MainStands
  <2>2. instance' = d /\ closing' = None
    BY <1>8, <2>1 DEF GetInstance, mained
  <2>3. \A c \in Client : (NetCounted(c)' <=> NetCounted(c)) /\ AloneCounted(c)' = AloneCounted(c)
    BY <1>8 DEF GetInstance, threads, NetCounted, AloneCounted
  <2>4. ~Alive(d) /\ threadCount[d] = 0 /\ Working(d) = 0
    BY <1>2, <1>8 DEF GetInstance, Alive
  <2>5. Working(d)' = 1
    BY <1>1, <2>1, <2>2, <2>3, <2>4, MainWorking
  <2>6. \A c \in Client : c # d => Working(c)' = Working(c)
    BY <1>1, <2>1, <2>2, <2>3, SameWorking
  <2> QED  BY <1>1, <1>2, <1>3, <1>8, <2>5, <2>6 DEF GetInstance, Alive, ClientTypes
<1>9. ASSUME NEW r \in Request, Send(r) \/ SendImmediate(r)
      PROVE  CountExact'
  <2>1. /\ alone[r] = "none" /\ instance \in Client
        /\ UNCHANGED <<threadCount, object, instance, closing>>
    BY <1>1, <1>9 DEF Send, SendImmediate, AloneStands, clients, ClientTypes
  <2>2. ASSUME NEW c \in Client
        PROVE  NetCounted(c)' <=> NetCounted(c)
    BY <1>1, <1>9 DEF Send, SendImmediate, NetCounted, ThreadTypes
  <2>3. ASSUME NEW c \in Client
        PROVE  AloneCounted(c)' = AloneCounted(c)
    BY <1>1, <1>9, <2>1 DEF Send, SendImmediate, AloneCounted, ThreadTypes
  <2> QED  BY <1>4, <2>1, <2>2, <2>3, SameWorking
<1>10. CASE DestroyInstance
  <2>1. closing = None /\ closing' = instance /\ instance' = None
        /\ UNCHANGED <<threadCount, object, owner, alone, net>>
    BY <1>10 DEF DestroyInstance, MayCall, MainStands, threads
  <2>2. \A c \in Client : /\ (c \in {instance, closing})' <=> c \in {instance, closing}
                          /\ NetCounted(c)' <=> NetCounted(c)
                          /\ AloneCounted(c)' = AloneCounted(c)
    BY <1>1, <2>1 DEF NetCounted, AloneCounted
  <2> QED  BY <1>4, <2>1, <2>2, SameWorking
<1>11. CASE LeaveClient
  <2>1. PICK d \in Client : d = closing
    BY <1>1, <1>11 DEF LeaveClient, MainStands, MainTypes
  <2>2. /\ instance = None /\ instance' = None /\ closing' = None
        /\ DecreaseThreadCountAndMayDeleteThis(d) /\ UNCHANGED threads
    BY <1>1, <1>11, <2>1 DEF LeaveClient, MainStands, DecreaseThreadCountAndMayDeleteThis
  <2>3. \A c \in Client : (NetCounted(c)' <=> NetCounted(c)) /\ AloneCounted(c)' = AloneCounted(c)
    BY <2>2 DEF threads, NetCounted, AloneCounted
  <2>4. Working(d) >= 1
    BY <1>2, <2>1, Counted
  <2>5. Working(d)' = Working(d) - 1
    BY <1>1, <2>1, <2>2, <2>3, MainWorking
  <2>6. \A c \in Client : c # d => Working(c)' = Working(c)
    BY <1>1, <2>1, <2>2, <2>3, SameWorking
  <2> QED  BY <1>6, <2>2, <2>4, <2>5, <2>6
<1>12. ASSUME NEW d \in Client, CountNetworkThread(d) \/ LeaveNetworkThread(d)
       PROVE  CountExact'
  <2>1. UNCHANGED <<instance, closing, owner, alone>>
    BY <1>12 DEF CountNetworkThread, LeaveNetworkThread, IncreaseThreadCount,
                 DecreaseThreadCountAndMayDeleteThis, mained
  <2>2. \A c \in Client : AloneCounted(c)' = AloneCounted(c)
    BY <2>1 DEF AloneCounted
  <2>3. \A c \in Client : c # d => (NetCounted(c)' <=> NetCounted(c))
    BY <1>1, <1>12 DEF CountNetworkThread, LeaveNetworkThread, NetCounted, ThreadTypes
  <2>4. \A c \in Client : c # d => Working(c)' = Working(c)
    BY <2>1, <2>2, <2>3, SameWorking
  <2>5. CASE CountNetworkThread(d)
    <3>1. NetCounted(d)' /\ ~NetCounted(d)
      BY <1>1, <2>5 DEF CountNetworkThread, NetCounted, ThreadTypes
    <3>2. Working(d)' = Working(d) + 1
      BY <2>1, <2>2, <3>1, NetWorking
    <3> QED  BY <1>5, <2>4, <2>5, <3>2 DEF CountNetworkThread
  <2>6. CASE LeaveNetworkThread(d)
    <3>1. ~NetCounted(d)' /\ NetCounted(d)
      BY <1>1, <2>6 DEF LeaveNetworkThread, NetCounted, ThreadTypes
    <3>2. Working(d)' = Working(d) - 1 /\ Working(d) >= 1
      BY <1>2, <2>1, <2>2, <3>1, NetWorking, Counted
    <3> QED  BY <1>6, <2>4, <2>6, <3>2 DEF LeaveNetworkThread
  <2> QED  BY <1>12, <2>5, <2>6
<1>13. ASSUME NEW r \in Request, CountAlone(r) \/ LeaveAlone(r)
       PROVE  CountExact'
  <2>1. UNCHANGED <<instance, closing, owner, net>>
    BY <1>13, ThreadsAloneLeave
  <2>2. alone[r] # "none" /\ owner[r] \in Client
    BY <1>1, <1>13 DEF CountAlone, LeaveAlone, AloneStands, ThreadTypes
  <2>3. PICK d \in Client : d = owner[r]
    BY <2>2
  <2>4. \A c \in Client : NetCounted(c)' <=> NetCounted(c)
    BY <2>1 DEF NetCounted
  <2>5. \A c \in Client : c # d => AloneCounted(c)' = AloneCounted(c)
    BY <1>1, <1>13, <2>1, <2>3 DEF CountAlone, LeaveAlone, AloneCounted, ThreadTypes
  <2>6. \A c \in Client : c # d => Working(c)' = Working(c)
    BY <2>1, <2>4, <2>5, SameWorking
  <2>7. CASE CountAlone(r)
    <3>1. r \notin AloneCounted(d) /\ AloneCounted(d)' = AloneCounted(d) \cup {r}
      BY <1>1, <2>1, <2>3, <2>7 DEF CountAlone, AloneCounted, ThreadTypes
    <3>2. Working(d)' = Working(d) + 1
      BY <2>1, <2>4, <3>1, AloneWorking
    <3> QED  BY <1>5, <2>3, <2>6, <2>7, <3>2 DEF CountAlone
  <2>8. CASE LeaveAlone(r)
    <3>1. r \in AloneCounted(d) /\ AloneCounted(d)' = AloneCounted(d) \ {r}
      BY <1>1, <2>1, <2>3, <2>8 DEF LeaveAlone, AloneCounted, ThreadTypes
    <3>2. Working(d)' = Working(d) - 1
      BY <2>1, <2>4, <3>1, AloneWorking
    <3>3. Working(d) >= 1
      BY <1>2, <3>1, Counted
    <3> QED  BY <1>6, <2>3, <2>6, <2>8, <3>2, <3>3 DEF LeaveAlone
  <2> QED  BY <1>13, <2>7, <2>8
<1>14. ASSUME NEW r \in Request, PostAlone(r)
       PROVE  CountExact'
  <2>1. UNCHANGED <<threadCount, object, instance, closing, net>>
    BY <1>14 DEF PostAlone, clients, mained
  <2>2. \A c \in Client : /\ NetCounted(c)' <=> NetCounted(c)
                          /\ AloneCounted(c)' = AloneCounted(c)
    BY <1>1, <1>14 DEF PostAlone, NetCounted, AloneCounted, ThreadTypes
  <2> QED  BY <1>4, <2>1, <2>2, SameWorking
<1>15. ASSUME NEW d \in Client,
              \/ WakeSpuriously(d) \/ TakeRequest(d) \/ Wait(d) \/ EraseRequest(d)
              \/ LoadForResponse(d) \/ NewResponse(d) \/ PushResponse(d)
              \/ PostDispatch(d) \/ ClearQueues(d)
       PROVE  CountExact'
  <2>1. UNCHANGED <<threadCount, object, instance, closing, owner, alone>>
    BY <1>15 DEF WakeSpuriously, TakeRequest, Wait, EraseRequest, LoadForResponse,
                 NewResponse, PushResponse, PostDispatch, ClearQueues, clients, mained
  <2>2. \A c \in Client : NetCounted(c)' <=> NetCounted(c)
    BY <1>1, <1>15 DEF WakeSpuriously, TakeRequest, Wait, EraseRequest, LoadForResponse,
                       NewResponse, PushResponse, PostDispatch, ClearQueues, NetCounted,
                       ThreadTypes
  <2> QED  BY <1>7, <2>1, <2>2
<1>16. CASE NotifySent \/ NotifySentinel
  <2>1. UNCHANGED <<threadCount, object, instance, closing, owner, alone>>
    BY <1>16 DEF NotifySent, NotifySentinel, clients
  <2>2. \A c \in Client : NetCounted(c)' <=> NetCounted(c)
    BY <1>1, <1>16 DEF NotifySent, NotifySentinel, Notify, NetCounted, ThreadTypes
  <2> QED  BY <1>7, <2>1, <2>2
<1>17. CASE LoadRefs \/ StoreRefs \/ DetachScheduler \/ PushSentinel \/ RunFunction
            \/ Return \/ UNCHANGED vars
  <2>1. UNCHANGED <<threadCount, object, instance, closing, owner, alone, net>>
    BY <1>17 DEF LoadRefs, StoreRefs, DetachScheduler, PushSentinel, RunFunction, Return,
                 vars, clients, threads, mained
  <2>2. \A c \in Client : NetCounted(c)' <=> NetCounted(c)
    BY <2>1 DEF NetCounted
  <2> QED  BY <1>7, <2>1, <2>2
<1> QED  BY <1>8, <1>9, <1>10, <1>11, <1>12, <1>13, <1>14, <1>15, <1>16, <1>17, Steps

-----------------------------------------------------------------------------
(* The sentinel.                                                           *)

(* A client whose sentinel has been pushed is never used again.            *)
LEMMA DismissedStays ==
    ASSUME TypeOK, MainStands, NEW c \in Client, Dismissed(c), [Next]_vars
    PROVE  Dismissed(c)'
<1>1. /\ ClientTypes /\ MainTypes /\ None \notin Client /\ None \notin Request
  BY TypeParts, HttpClientAssumption
<1> USE DEF Dismissed
<1>2. ASSUME UNCHANGED <<instance, closing, main>>, object'[c] # "none"
      PROVE  Dismissed(c)'
  BY <1>2
<1>3. ASSUME \/ UNCHANGED object
             \/ \E d : IncreaseThreadCount(d) \/ DecreaseThreadCountAndMayDeleteThis(d)
      PROVE  object'[c] # "none"
  BY <1>1, <1>3 DEF IncreaseThreadCount, DecreaseThreadCountAndMayDeleteThis, ClientTypes
<1>4. ASSUME NEW d \in Client, GetInstance(d)
      PROVE  Dismissed(c)'
  BY <1>1, <1>4 DEF GetInstance, mained, ClientTypes
<1>5. ASSUME NEW r \in Request, Send(r) \/ SendImmediate(r)
      PROVE  Dismissed(c)'
  <2>1. closing' = None /\ UNCHANGED <<instance, object>>
    BY <1>5 DEF Send, SendImmediate, MayCall, MainStands, clients
  <2> QED  BY <1>1, <2>1
<1>6. CASE NotifySent \/ LoadRefs \/ StoreRefs
  <2>1. closing' = None /\ UNCHANGED <<instance, object>>
    BY <1>6 DEF NotifySent, LoadRefs, StoreRefs, MainStands, clients
  <2> QED  BY <1>1, <2>1
<1>7. CASE DestroyInstance \/ DetachScheduler \/ PushSentinel \/ NotifySentinel
  BY <1>1, <1>7 DEF DestroyInstance, DetachScheduler, PushSentinel, NotifySentinel,
                    MainStands, clients
<1>8. CASE LeaveClient
  <2>1. closing' = None /\ UNCHANGED instance /\ object'[c] # "none"
    BY <1>3, <1>8 DEF LeaveClient, DecreaseThreadCountAndMayDeleteThis
  <2> QED  BY <1>1, <2>1
<1>9. CASE RunFunction \/ Return \/ UNCHANGED vars
  <2>1. UNCHANGED <<object, instance, closing, main>>
    BY <1>9 DEF RunFunction, Return, clients, mained, vars
  <2> QED  BY <2>1
<1>10. ASSUME NEW d \in Client,
              \/ WakeSpuriously(d) \/ CountNetworkThread(d) \/ TakeRequest(d) \/ Wait(d)
              \/ EraseRequest(d) \/ LoadForResponse(d) \/ NewResponse(d)
              \/ PushResponse(d) \/ PostDispatch(d) \/ ClearQueues(d)
              \/ LeaveNetworkThread(d)
       PROVE  Dismissed(c)'
  <2>1. object'[c] # "none"
    BY <1>3, <1>10 DEF WakeSpuriously, CountNetworkThread, TakeRequest, Wait, EraseRequest,
                 LoadForResponse, NewResponse, PushResponse, PostDispatch, ClearQueues,
                 LeaveNetworkThread, clients
  <2> QED  BY <1>2, <1>10, <2>1, ThreadsLeave
<1>11. ASSUME NEW r \in Request, CountAlone(r) \/ PostAlone(r) \/ LeaveAlone(r)
       PROVE  Dismissed(c)'
  <2>1. object'[c] # "none"
    BY <1>3, <1>11 DEF CountAlone, PostAlone, LeaveAlone, clients
  <2> QED  BY <1>2, <1>11, <2>1, ThreadsAloneLeave
<1> QED  BY <1>4, <1>5, <1>6, <1>7, <1>8, <1>9, <1>10, <1>11, Steps

(* Only getInstance, send, destroyInstance and the network thread itself   *)
(* have to do with the request queue of a client and where its thread is.  *)
LEMMA QueueLeft ==
    ASSUME TypeOK, [Next]_vars
    PROVE  \/ \E r \in Request : Send(r)
           \/ NotifySent \/ NotifySentinel
           \/ PushSentinel
           \/ \E c \in Client : \/ WakeSpuriously(c) \/ CountNetworkThread(c)
                                \/ TakeRequest(c) \/ Wait(c) \/ EraseRequest(c)
                                \/ LoadForResponse(c) \/ NewResponse(c)
                                \/ PushResponse(c) \/ PostDispatch(c)
                                \/ ClearQueues(c) \/ LeaveNetworkThread(c)
           \/ UNCHANGED <<requestQueue, net, request>>
<1>1. ASSUME NEW c \in Client, GetInstance(c)
      PROVE  UNCHANGED <<requestQueue, net, request>>
  BY <1>1 DEF GetInstance, queues, threads
<1>2. ASSUME NEW r \in Request, SendImmediate(r)
      PROVE  UNCHANGED <<requestQueue, net, request>>
  BY <1>2 DEF SendImmediate, queues
<1>3. CASE DestroyInstance \/ LoadRefs \/ StoreRefs \/ DetachScheduler \/ LeaveClient
           \/ RunFunction \/ Return \/ UNCHANGED vars
  BY <1>3 DEF DestroyInstance, LoadRefs, StoreRefs, DetachScheduler, LeaveClient,
              RunFunction, Return, queues, threads, vars
<1> QED  BY <1>1, <1>2, <1>3, Steps, ThreadsAloneLeave

LEMMA SentinelLastStep ==
    ASSUME TypeOK, MainStands, CountExact, SentinelLast, [Next]_vars
    PROVE  SentinelLast'
<1>1. /\ ClientTypes /\ MainTypes /\ QueueTypes /\ ThreadTypes
      /\ None \notin Client /\ Sentinel \notin Request
  BY TypeParts, HttpClientAssumption
<1> DEFINE Ends(c) == \A i \in DOMAIN requestQueue[c] : requestQueue[c][i] = Sentinel =>
                          i = Len(requestQueue[c]) /\ Dismissed(c)
           Clear(c) == net[c] = "clear" => requestQueue[c] = <<>> /\ Dismissed(c)
<1>2. SUFFICES ASSUME NEW c \in Client
               PROVE  Ends(c)' /\ Clear(c)'
  BY DEF SentinelLast
<1>3. Ends(c) /\ Clear(c)
  BY DEF SentinelLast
<1>4. Dismissed(c) => Dismissed(c)'
  BY DismissedStays
<1>5. ASSUME requestQueue'[c] = requestQueue[c], net'[c] = net[c] \/ net'[c] # "clear"
      PROVE  Ends(c)' /\ Clear(c)'
  BY <1>3, <1>4, <1>5
<1> DEFINE q == requestQueue[c]
<1>6. q \in Seq(Request \cup {Sentinel})
  BY <1>1 DEF QueueTypes
<1>7. ASSUME NEW e \in Request \cup {Sentinel}, q' = Append(q, e), net'[c] # "clear",
             ~Dismissed(c), e = Sentinel => Dismissed(c)'
      PROVE  Ends(c)' /\ Clear(c)'
  <2>1. \A i \in DOMAIN q : q[i] # Sentinel
    BY <1>3, <1>7
  <2>2. /\ DOMAIN q' = DOMAIN q \cup {Len(q) + 1} /\ Len(q') = Len(q) + 1
        /\ \A i \in DOMAIN q : q'[i] = q[i]
        /\ q'[Len(q) + 1] = e
    BY <1>6, <1>7, AppendParts
  <2> HIDE DEF q
  <2>3. \A i \in DOMAIN q' : q'[i] = Sentinel => i = Len(q') /\ Dismissed(c)'
    BY <1>7, <2>1, <2>2
  <2> QED  BY <1>7, <2>3 DEF q
<1>8. ASSUME NEW r \in Request, Send(r)
      PROVE  Ends(c)' /\ Clear(c)'
  <2>1. instance \in Client /\ (net'[c] # "clear" \/ net'[c] = net[c])
    BY <1>1, <1>8 DEF Send, ThreadTypes, ClientTypes
  <2>2. CASE c = instance
    <3>1. ~Dismissed(c)
      BY <2>2 DEF Dismissed
    <3>2. net[c] # "clear"
      BY <1>3, <3>1
    <3>3. q' = Append(q, r) /\ net'[c] # "clear"
      BY <1>1, <1>8, <2>2, <3>2 DEF Send, QueueTypes, ThreadTypes
    <3> QED  BY <1>1, <1>7, <3>1, <3>3
  <2>3. CASE c # instance
    BY <1>1, <1>5, <1>8, <2>3 DEF Send, QueueTypes, ThreadTypes
  <2> QED  BY <2>2, <2>3
<1>9. CASE PushSentinel
  <2>1. main = "sentinel" /\ closing \in Client /\ instance = None
    BY <1>1, <1>9 DEF PushSentinel, MainStands, MainTypes
  <2>2. CASE c = closing
    <3>1. ~Dismissed(c)
      BY <2>1, <2>2 DEF Dismissed
    <3>2. net[c] # "clear"
      BY <1>3, <3>1
    <3>3. q' = Append(q, Sentinel) /\ net'[c] # "clear" /\ main' = "wake"
          /\ object' = object /\ instance' = instance
      BY <1>1, <1>9, <2>1, <2>2, <3>2 DEF PushSentinel, QueueTypes, threads, clients
    <3>4. Alive(c)
      BY <2>2, Counted
    <3>5. Dismissed(c)'
      BY <1>1, <2>1, <3>3, <3>4 DEF Dismissed, Alive
    <3> QED  BY <1>1, <1>7, <3>1, <3>3, <3>5
  <2>3. CASE c # closing
    BY <1>1, <1>5, <1>9, <2>3 DEF PushSentinel, QueueTypes, threads
  <2> QED  BY <2>2, <2>3
<1>10. ASSUME NEW d \in Client, TakeRequest(d)
       PROVE  Ends(c)' /\ Clear(c)'
  <2>1. CASE c # d
    BY <1>1, <1>5, <1>10, <2>1 DEF TakeRequest, QueueTypes, ThreadTypes
  <2>2. CASE c = d
    <3>1. /\ q # <<>> /\ q' = Tail(q)
          /\ net'[c] = "clear" => Head(q) = Sentinel
      BY <1>1, <1>10, <2>2 DEF TakeRequest, QueueTypes, ThreadTypes
    <3>2. /\ Head(q) = q[1] /\ 1 \in DOMAIN q
          /\ \A i \in DOMAIN Tail(q) : /\ i + 1 \in DOMAIN q /\ i \in Int
                                       /\ Tail(q)[i] = q[i + 1]
      BY <1>6, <3>1, TailParts
    <3>3. Len(Tail(q)) = Len(q) - 1 /\ Len(q) \in Nat
      BY <1>6, <3>1
    <3>4. net'[c] = "clear" => Len(q) = 1 /\ Dismissed(c)'
      BY <1>3, <1>4, <3>1, <3>2
    <3>5. net'[c] = "clear" => Tail(q) = <<>>
      <4>1. Tail(q) \in Seq(Request \cup {Sentinel})
        BY <1>6, <3>1, TailParts
      <4>2. net'[c] = "clear" => Len(Tail(q)) = 0
        BY <3>3, <3>4
      <4> DEFINE t == Tail(q)
      <4>3. t \in Seq(Request \cup {Sentinel}) /\ (net'[c] = "clear" => Len(t) = 0)
        BY <4>1, <4>2
      <4> HIDE DEF t
      <4>4. Len(t) = 0 => t = <<>>
        BY <4>3
      <4>5. net'[c] = "clear" => t = <<>>
        BY <4>3, <4>4
      <4> QED  BY <4>5 DEF t
    <3>6. ASSUME NEW i \in DOMAIN Tail(q), Tail(q)[i] = Sentinel
          PROVE  i = Len(Tail(q)) /\ Dismissed(c)'
      <4>1. i + 1 = Len(q) /\ Dismissed(c)
        BY <1>3, <3>2, <3>6
      <4> HIDE DEF q
      <4> QED  BY <1>4, <3>2, <3>3, <4>1
    <3> QED  BY <3>1, <3>4, <3>5, <3>6
  <2> QED  BY <2>1, <2>2
<1>11. ASSUME NEW d \in Client, ClearQueues(d)
       PROVE  Ends(c)' /\ Clear(c)'
  <2>1. CASE c # d
    BY <1>1, <1>5, <1>11, <2>1 DEF ClearQueues, QueueTypes, ThreadTypes
  <2>2. CASE c = d
    <3>1. requestQueue'[c] = <<>> /\ net'[c] # "clear"
      BY <1>1, <1>11, <2>2 DEF ClearQueues, QueueTypes, ThreadTypes
    <3> QED  BY <3>1, EmptyQueue
  <2> QED  BY <2>1, <2>2
<1>12. ASSUME NEW d \in Client,
              \/ WakeSpuriously(d) \/ CountNetworkThread(d) \/ Wait(d) \/ EraseRequest(d)
              \/ LoadForResponse(d) \/ NewResponse(d) \/ PushResponse(d)
              \/ PostDispatch(d) \/ LeaveNetworkThread(d)
       PROVE  Ends(c)' /\ Clear(c)'
  <2>1. UNCHANGED requestQueue
    BY <1>12 DEF WakeSpuriously, CountNetworkThread, Wait, EraseRequest, LoadForResponse,
                 NewResponse, PushResponse, PostDispatch, LeaveNetworkThread, queues
  <2>2. net'[c] = net[c] \/ net'[c] # "clear"
    BY <1>1, <1>12 DEF WakeSpuriously, CountNetworkThread, Wait, EraseRequest,
                 LoadForResponse, NewResponse, PushResponse, PostDispatch,
                 LeaveNetworkThread, ThreadTypes
  <2> QED  BY <1>5, <2>1, <2>2
<1>13. CASE NotifySent \/ NotifySentinel
  <2>1. UNCHANGED requestQueue
    BY <1>13 DEF NotifySent, NotifySentinel, queues
  <2>2. net'[c] = net[c] \/ net'[c] # "clear"
    BY <1>1, <1>13 DEF NotifySent, NotifySentinel, Notify, ThreadTypes
  <2> QED  BY <1>5, <2>1, <2>2
<1> HIDE DEF Ends, Clear
<1>14. CASE UNCHANGED <<requestQueue, net, request>>
  BY <1>5, <1>14
<1> QED  BY <1>8, <1>9, <1>10, <1>11, <1>12, <1>13, <1>14, QueueLeft

-----------------------------------------------------------------------------
(* Where a request is.                                                     *)

(* The callback of the first response of a client is called.               *)
Called(r) ==
    \E c \in Client :
        /\ responseQueue[c] # <<>>
        /\ r = Head(responseQueue[c])
        /\ responseQueue' = [responseQueue EXCEPT ![c] = Tail(@)]
        /\ answered' = Append(answered, r)
        /\ callback' = r

(* The function at the front of the queue calls back for its request.      *)
CalledAlone(r) ==
    /\ functions # <<>>
    /\ r = Head(functions).request
    /\ r # None
    /\ answered' = Append(answered, r)
    /\ callback' = r
    /\ UNCHANGED responseQueue

(* What a function does, and what it leaves alone.                         *)
LEMMA FunctionRuns ==
    ASSUME TypeOK, RunFunction
    PROVE  /\ \/ \E r \in Request : Called(r) \/ CalledAlone(r)
              \/ UNCHANGED <<responseQueue, answered, callback>>
           /\ functions' = Tail(functions) /\ functions # <<>>
           /\ callback = None /\ main = "idle"
           /\ UNCHANGED <<clients, requestQueue, threads, counts, main, sending, closing,
                          sent>>
<1>1. QueueTypes
  BY TypeParts
<1>2. functions' = Tail(functions) /\ functions # <<>> /\ callback = None /\ main = "idle"
      /\ UNCHANGED <<clients, requestQueue, threads, counts, main, sending, closing, sent>>
  BY DEF RunFunction
<1>3. Head(functions) \in [client : Client, request : Request \cup {None}]
  BY <1>1, <1>2, TailParts DEF QueueTypes
<1>4. CASE Dispatch(Head(functions))
  <2> DEFINE c == Head(functions).client
  <2>1. c \in Client
    BY <1>3
  <2>2. CASE responseQueue[c] # <<>>
    <3>1. Head(responseQueue[c]) \in Request
      BY <1>1, <2>1, <2>2, TailParts DEF QueueTypes
    <3>2. Called(Head(responseQueue[c]))
      BY <1>4, <2>1, <2>2 DEF Dispatch, Called
    <3> QED  BY <1>2, <3>1, <3>2
  <2>3. CASE responseQueue[c] = <<>>
    BY <1>2, <1>4, <2>3 DEF Dispatch
  <2> QED  BY <2>2, <2>3
<1>5. CASE CallBackAlone(Head(functions))
  <2>1. Head(functions).request \in Request
    BY <1>3, <1>5 DEF CallBackAlone
  <2>2. CalledAlone(Head(functions).request)
    BY <1>2, <1>5 DEF CallBackAlone, CalledAlone
  <2> QED  BY <1>2, <2>1, <2>2
<1> QED  BY <1>4, <1>5 DEF RunFunction

(* Who changes what a request that was sent depends on.                    *)
LEMMA HistoryLeft ==
    ASSUME TypeOK, [Next]_vars
    PROVE  \/ \E r \in Request : Send(r) \/ SendImmediate(r)
           \/ \E r \in Request : CountAlone(r) \/ PostAlone(r) \/ LeaveAlone(r)
           \/ \E c \in Client : NewResponse(c)
           \/ RunFunction \/ Return
           \/ UNCHANGED <<owner, alone, answered, response, callback>>
<1>1. ASSUME NEW c \in Client,
             \/ WakeSpuriously(c) \/ CountNetworkThread(c) \/ TakeRequest(c) \/ Wait(c)
             \/ EraseRequest(c) \/ LoadForResponse(c)
             \/ PushResponse(c) \/ PostDispatch(c) \/ ClearQueues(c)
             \/ LeaveNetworkThread(c)
      PROVE  UNCHANGED response
  BY <1>1 DEF WakeSpuriously, CountNetworkThread, TakeRequest, Wait, EraseRequest,
              LoadForResponse, PushResponse, PostDispatch, ClearQueues,
              LeaveNetworkThread, counts
<1>2. ASSUME NEW c \in Client, GetInstance(c)
      PROVE  UNCHANGED <<owner, alone, answered, response, callback>>
  BY <1>2 DEF GetInstance, threads, counts, history, mained
<1>3. CASE DestroyInstance \/ NotifySent \/ LoadRefs \/ StoreRefs \/ DetachScheduler
           \/ PushSentinel \/ NotifySentinel \/ LeaveClient \/ UNCHANGED vars
  BY <1>3 DEF DestroyInstance, NotifySent, LoadRefs, StoreRefs, DetachScheduler,
              PushSentinel, NotifySentinel, LeaveClient, threads, counts, history,
              mained, vars
<1> QED  BY <1>1, <1>2, <1>3, Steps, ThreadsLeave

(* A request that waits for its callback keeps waiting until it is called, *)
(* and gets its response from the thread that holds it.                    *)
LEMMA UnansweredStays ==
    ASSUME TypeOK, AloneStands, CallbackStands, NEW c \in Client, NEW r \in Request,
           Unanswered(r, c), [Next]_vars
    PROVE  /\ Unanswered(r, c)' \/ Called(r)
           /\ r \in response => r \in response'
           /\ r \in response' => \/ r \in response
                                 \/ \E d \in Client : NewResponse(d) /\ r = request[d]
<1>1. /\ ThreadTypes /\ QueueTypes /\ RefTypes
      /\ None \notin Client /\ None \notin Request
  BY TypeParts, HttpClientAssumption
<1>2. owner[r] = c /\ alone[r] = "none" /\ r \notin ToSet(answered)
  BY DEF Unanswered
<1>3. ASSUME NEW s \in Request, Send(s) \/ SendImmediate(s)
      PROVE  Unanswered(r, c)' /\ (r \in response' <=> r \in response)
  <2>1. s # r
    BY <1>1, <1>2, <1>3 DEF Send, SendImmediate
  <2> QED  BY <1>1, <1>2, <1>3, <2>1
           DEF Send, SendImmediate, Unanswered, ThreadTypes, history, counts
<1>4. ASSUME NEW s \in Request, CountAlone(s) \/ PostAlone(s) \/ LeaveAlone(s)
      PROVE  Unanswered(r, c)' /\ (r \in response' <=> r \in response)
  <2>1. s # r
    BY <1>1, <1>2, <1>4 DEF CountAlone, PostAlone, LeaveAlone
  <2>2. alone'[r] = alone[r]
    BY <1>1, <1>4, <2>1 DEF CountAlone, PostAlone, LeaveAlone, ThreadTypes
  <2> QED  BY <1>2, <1>4, <2>2, ThreadsAloneLeave DEF Unanswered
<1>5. ASSUME NEW d \in Client, NewResponse(d)
      PROVE  /\ Unanswered(r, c)'
             /\ r \in response => r \in response'
             /\ r \in response' => r \in response \/ r = request[d]
  BY <1>2, <1>5 DEF NewResponse, Unanswered, history
<1>6. CASE RunFunction
  <2>1. UNCHANGED <<owner, alone, response>>
    BY <1>6, FunctionRuns DEF threads, counts
  <2>2. ASSUME NEW s \in Request, s # r, answered' = Append(answered, s)
        PROVE  Unanswered(r, c)'
    BY <1>1, <1>2, <2>1, <2>2, AppendParts DEF Unanswered, QueueTypes
  <2>3. CalledAlone(r) => FALSE
    <3>1. functions # <<>> => Head(functions) = functions[1] /\ 1 \in DOMAIN functions
      BY <1>1, TailParts DEF QueueTypes
    <3> QED  BY <1>1, <1>2, <3>1 DEF CalledAlone, AloneStands
  <2>4. UNCHANGED answered => Unanswered(r, c)'
    BY <1>2, <2>1 DEF Unanswered
  <2>5. \A s : Called(s) \/ CalledAlone(s) => answered' = Append(answered, s)
    BY DEF Called, CalledAlone
  <2>6. \/ \E s \in Request : Called(s) \/ CalledAlone(s)
        \/ UNCHANGED answered
    BY <1>6, FunctionRuns
  <2>7. Unanswered(r, c)' \/ Called(r)
    BY <2>2, <2>3, <2>4, <2>5, <2>6
  <2>8. response' = response
    BY <2>1
  <2> QED  BY <2>7, <2>8, Zenon
<1>7. CASE Return
  <2>1. callback # r
    BY <1>1, <1>2 DEF CallbackStands
  <2> QED  BY <1>2, <1>7, <2>1 DEF Return, Unanswered, threads, history
<1>8. CASE UNCHANGED <<owner, alone, answered, response, callback>>
  BY <1>2, <1>8 DEF Unanswered
<1> QED  BY <1>3, <1>4, <1>5, <1>6, <1>7, <1>8, HistoryLeft

(* A request in a request queue stays without an answer and a response.    *)
LEMMA QueuedStays ==
    ASSUME TypeOK, AloneStands, CallbackStands, InRequestQueue, InThread,
           InResponseQueue, NEW c \in Client, NEW r \in Request, Unanswered(r, c),
           r \notin response, ~(Holding(c) /\ request[c] = r), [Next]_vars
    PROVE  Unanswered(r, c)' /\ r \notin response'
<1>1. ASSUME Called(r)
      PROVE  FALSE
  <2>1. PICK d \in Client : responseQueue[d] # <<>> /\ r = Head(responseQueue[d])
    BY <1>1 DEF Called
  <2>2. r \in ToSet(responseQueue[d])
    BY <2>1, TypeParts, TailParts DEF QueueTypes
  <2> QED  BY <2>2 DEF InResponseQueue
<1>2. ASSUME NEW d \in Client, NewResponse(d), r = request[d]
      PROVE  FALSE
  <2>1. Holding(d)
    BY <1>2 DEF NewResponse, Holding
  <2>2. d = c
    BY <1>2, <2>1 DEF InThread, Unanswered
  <2> QED  BY <1>2, <2>1, <2>2
<1> QED  BY <1>1, <1>2, UnansweredStays

LEMMA InRequestQueueStep ==
    ASSUME IInv, [Next]_vars
    PROVE  InRequestQueue'
<1>1. /\ TypeOK /\ AloneStands /\ CallbackStands /\ InRequestQueue /\ InThread
      /\ InResponseQueue /\ SentinelLast /\ MainStands
  BY DEF IInv
<1>2. /\ ThreadTypes /\ QueueTypes /\ ClientTypes /\ MainTypes
      /\ None \notin Client /\ Sentinel \notin Request
  BY <1>1, TypeParts, HttpClientAssumption
<1> DEFINE Once(q) == \A i, j \in DOMAIN q : q[i] = q[j] /\ q[i] \in Request => i = j
<1>3. SUFFICES ASSUME NEW c \in Client
               PROVE  /\ \A r \in Request \cap ToSet(requestQueue'[c]) :
                             Unanswered(r, c)' /\ r \notin response'
                      /\ Once(requestQueue'[c])
  BY DEF InRequestQueue
<1> DEFINE q == requestQueue[c]
<1>4. q \in Seq(Request \cup {Sentinel}) /\ Once(q)
  BY <1>1, <1>2 DEF QueueTypes, InRequestQueue
<1>5. ASSUME NEW r \in Request, r \in ToSet(q)
      PROVE  Unanswered(r, c)' /\ r \notin response'
  <2>1. Unanswered(r, c) /\ r \notin response
    BY <1>1, <1>5 DEF InRequestQueue
  <2>2. ~(Holding(c) /\ request[c] = r)
    BY <1>1, <1>5 DEF InThread
  <2> QED  BY <1>1, <2>1, <2>2, QueuedStays
<1> HIDE DEF Once, q
<1>6. q' = q => Once(q')
  BY <1>4
<1>7. CASE q' = q
  BY <1>5, <1>6, <1>7 DEF q
<1>8. CASE \E r \in Request : Send(r)
  <2>1. PICK r \in Request : Send(r)
    BY <1>8
  <2>2. instance \in Client /\ owner[r] = None
    BY <1>2, <2>1 DEF Send, ClientTypes
  <2>3. CASE c # instance
    BY <1>2, <1>7, <2>1, <2>3 DEF Send, QueueTypes, q
  <2>4. CASE c = instance
    <3>1. q' = Append(q, r)
      BY <1>2, <2>1, <2>4 DEF Send, QueueTypes, q
    <3>2. r \notin ToSet(q)
      BY <1>1, <1>2, <2>2 DEF InRequestQueue, Unanswered, q
    <3>3. /\ DOMAIN q' = DOMAIN q \cup {Len(q) + 1}
          /\ \A i \in DOMAIN q : q'[i] = q[i] /\ q[i] \in ToSet(q)
          /\ q'[Len(q) + 1] = r
          /\ ToSet(q') = ToSet(q) \cup {r}
      BY <1>4, <3>1, AppendParts
    <3>4. Once(q')
      BY <1>4, <3>2, <3>3 DEF Once
    <3>5. Unanswered(r, c)' /\ r \notin response'
      BY <1>1, <1>2, <2>1, <2>2, <2>4
         DEF Send, Unanswered, AloneStands, ThreadTypes
    <3> QED  BY <1>5, <3>3, <3>4, <3>5 DEF q
  <2> QED  BY <2>3, <2>4
<1>9. CASE PushSentinel
  <2>1. closing \in Client
    BY <1>1, <1>2, <1>9 DEF PushSentinel, MainStands, MainTypes
  <2>2. CASE c # closing
    BY <1>2, <1>7, <1>9, <2>2 DEF PushSentinel, QueueTypes, q
  <2>3. CASE c = closing
    <3>1. q' = Append(q, Sentinel)
      BY <1>2, <1>9, <2>3 DEF PushSentinel, QueueTypes, q
    <3>2. /\ DOMAIN q' = DOMAIN q \cup {Len(q) + 1}
          /\ \A i \in DOMAIN q : q'[i] = q[i]
          /\ q'[Len(q) + 1] = Sentinel
          /\ ToSet(q') = ToSet(q) \cup {Sentinel}
      BY <1>4, <3>1, AppendParts
    <3>3. Once(q')
      BY <1>2, <1>4, <3>2 DEF Once
    <3> QED  BY <1>2, <1>5, <3>2, <3>3 DEF q
  <2> QED  BY <2>2, <2>3
<1>10. CASE \E d \in Client : TakeRequest(d)
  <2>1. PICK d \in Client : TakeRequest(d)
    BY <1>10
  <2>2. CASE c # d
    BY <1>2, <1>7, <2>1, <2>2 DEF TakeRequest, QueueTypes, q
  <2>3. CASE c = d
    <3>1. q' = Tail(q) /\ q # <<>>
      BY <1>2, <2>1, <2>3 DEF TakeRequest, QueueTypes, q
    <3>2. ToSet(q') \subseteq ToSet(q)
      BY <1>4, <3>1, TailParts
    <3>3. Once(q')
      BY <1>4, <3>1, HeadLeaves DEF Once
    <3> QED  BY <1>5, <3>2, <3>3 DEF q
  <2> QED  BY <2>2, <2>3
<1>11. CASE \E d \in Client : ClearQueues(d)
  <2>1. requestQueue'[c] = q \/ requestQueue'[c] = <<>>
    BY <1>2, <1>11 DEF ClearQueues, QueueTypes, q
  <2>2. Once(<<>>)
    BY EmptyQueue DEF Once
  <2> QED  BY <1>7, <2>1, <2>2, EmptyQueue DEF q
<1>12. ASSUME NEW d \in Client,
              \/ WakeSpuriously(d) \/ CountNetworkThread(d) \/ Wait(d) \/ EraseRequest(d)
              \/ LoadForResponse(d) \/ NewResponse(d) \/ PushResponse(d)
              \/ PostDispatch(d) \/ LeaveNetworkThread(d)
       PROVE  q' = q
  BY <1>12 DEF WakeSpuriously, CountNetworkThread, Wait, EraseRequest, LoadForResponse,
               NewResponse, PushResponse, PostDispatch, LeaveNetworkThread, queues, q
<1>13. CASE NotifySent \/ NotifySentinel
  BY <1>7, <1>13 DEF NotifySent, NotifySentinel, queues, q
<1>14. CASE UNCHANGED <<requestQueue, net, request>>
  BY <1>7, <1>14 DEF q
<1> QED  BY <1>1, <1>7, <1>8, <1>9, <1>10, <1>11, <1>12, <1>13, <1>14, QueueLeft

LEMMA InThreadStep ==
    ASSUME IInv, [Next]_vars
    PROVE  InThread'
<1>1. /\ TypeOK /\ AloneStands /\ CallbackStands /\ InRequestQueue /\ InThread
      /\ InResponseQueue /\ SentinelLast /\ MainStands
  BY DEF IInv
<1>2. /\ ThreadTypes /\ QueueTypes /\ ClientTypes /\ MainTypes
      /\ None \notin Client /\ Sentinel \notin Request
  BY <1>1, TypeParts, HttpClientAssumption
<1>3. SUFFICES ASSUME NEW c \in Client, Holding(c)'
               PROVE  /\ request'[c] \in Request
                      /\ Unanswered(request[c], c)'
                      /\ request'[c] \notin ToSet(requestQueue'[c])
                      /\ request'[c] \in response' <=> net'[c] = "push"
  BY DEF InThread
<1> DEFINE Goal == /\ request'[c] \in Request
                   /\ Unanswered(request[c], c)'
                   /\ request'[c] \notin ToSet(requestQueue'[c])
                   /\ request'[c] \in response' <=> net'[c] = "push"
<1> DEFINE q == requestQueue[c]
<1>4. q \in Seq(Request \cup {Sentinel})
  BY <1>2 DEF QueueTypes
<1>5. CASE TakeRequest(c)
  <2> DEFINE r == Head(q)
  <2>1. /\ q # <<>> /\ requestQueue'[c] = Tail(q) /\ UNCHANGED response
        /\ Head(q) # Sentinel => request'[c] = Head(q) /\ net'[c] = "erase"
        /\ Head(q) # Sentinel
    BY <1>2, <1>3, <1>5 DEF TakeRequest, QueueTypes, ThreadTypes, Holding
  <2>2. Head(q) \in Request /\ Head(q) \in ToSet(q)
    BY <1>4, <2>1, TailParts
  <2>3. Unanswered(Head(q), c) /\ Head(q) \notin response
    BY <1>1, <2>2 DEF InRequestQueue
  <2>4. Head(q) \notin ToSet(Tail(q))
    BY <1>1, <1>4, <2>1, <2>2, HeadLeaves DEF InRequestQueue
  <2>5. UNCHANGED <<owner, alone, answered>>
    BY <1>5, ThreadsLeave
  <2>6. Unanswered(request[c], c)'
    BY <2>1, <2>3, <2>5 DEF Unanswered
  <2> QED  BY <2>1, <2>2, <2>3, <2>4, <2>6
<1>6. ASSUME request'[c] = request[c], Holding(c), ~NewResponse(c),
             net[c] = "push" <=> net'[c] = "push",
             request[c] \in ToSet(requestQueue'[c]) => request[c] \in ToSet(q)
      PROVE  Goal
  <2> DEFINE r == request[c]
  <2>1. r \in Request /\ Unanswered(r, c) /\ r \notin ToSet(q)
        /\ (r \in response <=> net[c] = "push")
    BY <1>1, <1>6 DEF InThread
  <2>2. ~Called(r)
    <3>1. SUFFICES ASSUME NEW d \in Client, responseQueue[d] # <<>>,
                          r = Head(responseQueue[d])
                   PROVE  FALSE
      BY DEF Called
    <3>2. r \in ToSet(responseQueue[d])
      BY <1>2, <3>1, TailParts DEF QueueTypes
    <3>3. r \in response /\ Unanswered(r, d)
      BY <1>1, <3>2 DEF InResponseQueue
    <3> QED  BY <1>1, <2>1, <3>2, <3>3 DEF InResponseQueue, Unanswered
  <2>3. ASSUME NEW d \in Client, NewResponse(d), r = request[d]
        PROVE  FALSE
    <3>1. Holding(d)
      BY <2>3 DEF NewResponse, Holding
    <3> QED  BY <1>1, <1>6, <2>1, <2>3, <3>1 DEF InThread, Unanswered
  <2>4. PICK s \in Request : s = r
    BY <2>1
  <2>5. Unanswered(s, c)' /\ (s \in response' <=> s \in response)
    BY <1>1, <2>1, <2>2, <2>3, <2>4, UnansweredStays
  <2>6. Unanswered(request[c], c)'
    BY <1>6, <2>4, <2>5 DEF Unanswered
  <2> QED  BY <1>6, <2>1, <2>4, <2>5, <2>6
<1>7. CASE NewResponse(c)
  <2>1. net[c] = "retain" /\ net'[c] = "push" /\ response' = response \cup {request[c]}
        /\ UNCHANGED <<request, owner, alone, requestQueue, answered>>
    BY <1>2, <1>7 DEF NewResponse, queues, history, ThreadTypes
  <2>2. request[c] \in Request /\ Unanswered(request[c], c)
        /\ request[c] \notin ToSet(requestQueue[c])
    BY <1>1, <2>1 DEF InThread, Holding
  <2>3. Unanswered(request[c], c)'
    BY <2>1, <2>2 DEF Unanswered
  <2> QED  BY <2>1, <2>2, <2>3
<1> HIDE DEF Goal, q
<1>8. ASSUME NEW d \in Client,
             \/ WakeSpuriously(d) \/ CountNetworkThread(d) \/ TakeRequest(d) \/ Wait(d)
             \/ EraseRequest(d) \/ LoadForResponse(d) \/ NewResponse(d)
             \/ PushResponse(d) \/ PostDispatch(d) \/ ClearQueues(d)
             \/ LeaveNetworkThread(d)
      PROVE  Goal
  <2>1. CASE d # c
    <3>1. requestQueue'[c] = q /\ net'[c] = net[c] /\ request'[c] = request[c]
      BY <1>2, <1>8, <2>1 DEF WakeSpuriously, CountNetworkThread, TakeRequest, Wait,
         EraseRequest, LoadForResponse, NewResponse, PushResponse, PostDispatch,
         ClearQueues, LeaveNetworkThread, queues, ThreadTypes, QueueTypes, q
    <3>2. Holding(c)
      BY <1>3, <3>1 DEF Holding
    <3>3. ~NewResponse(c)
      BY <1>2, <3>1 DEF NewResponse, ThreadTypes
    <3> QED  BY <1>6, <3>1, <3>2, <3>3
  <2>2. CASE d = c /\ (EraseRequest(c) \/ LoadForResponse(c))
    <3>1. requestQueue'[c] = q /\ request'[c] = request[c] /\ Holding(c)
          /\ net[c] # "push" /\ net'[c] # "push" /\ ~NewResponse(c)
      BY <1>2, <2>2 DEF EraseRequest, LoadForResponse, queues, ThreadTypes, Holding, q,
                        NewResponse
    <3> QED  BY <1>6, <3>1
  <2>3. CASE d = c /\ \/ WakeSpuriously(c) \/ CountNetworkThread(c) \/ Wait(c)
                      \/ PushResponse(c) \/ PostDispatch(c) \/ ClearQueues(c)
                      \/ LeaveNetworkThread(c)
    BY <1>2, <1>3, <2>3 DEF WakeSpuriously, CountNetworkThread, Wait, PushResponse,
       PostDispatch, ClearQueues, LeaveNetworkThread, ThreadTypes, Holding
  <2> QED  BY <1>5, <1>7, <1>8, <2>1, <2>2, <2>3 DEF Goal
<1>9. CASE \E r \in Request : Send(r)
  <2>1. PICK r \in Request : Send(r)
    BY <1>9
  <2>2. /\ owner[r] = None /\ instance \in Client
        /\ Holding(c) /\ request'[c] = request[c] /\ ~NewResponse(c)
        /\ net[c] = "push" <=> net'[c] = "push"
    BY <1>2, <1>3, <2>1 DEF Send, Holding, NewResponse, ThreadTypes, ClientTypes, MayCall
  <2>3. request[c] # r
    BY <1>1, <1>2, <2>2 DEF InThread, Unanswered
  <2>4. ToSet(requestQueue'[c]) \subseteq ToSet(q) \cup {r}
    <3>1. requestQueue'[c] = q \/ requestQueue'[c] = Append(q, r)
      BY <1>2, <2>1, <2>2 DEF Send, QueueTypes, q
    <3>2. ToSet(Append(q, r)) = ToSet(q) \cup {r}
      BY <1>4, AppendParts
    <3> QED  BY <3>1, <3>2
  <2> QED  BY <1>6, <2>2, <2>3, <2>4 DEF Goal
<1>10. CASE PushSentinel
  <2>1. /\ Holding(c) /\ request'[c] = request[c] /\ ~NewResponse(c)
        /\ net[c] = "push" <=> net'[c] = "push"
    BY <1>2, <1>3, <1>10 DEF PushSentinel, Holding, NewResponse, threads, ThreadTypes
  <2>2. request[c] \in Request
    BY <1>1, <2>1 DEF InThread
  <2>3. ToSet(requestQueue'[c]) \subseteq ToSet(q) \cup {Sentinel}
    <3>1. requestQueue'[c] = q \/ requestQueue'[c] = Append(q, Sentinel)
      BY <1>2, <1>10 DEF PushSentinel, QueueTypes, q
    <3>2. ToSet(Append(q, Sentinel)) = ToSet(q) \cup {Sentinel}
      BY <1>4, AppendParts
    <3> QED  BY <3>1, <3>2
  <2> QED  BY <1>2, <1>6, <2>1, <2>2, <2>3 DEF Goal
<1>11. CASE NotifySent \/ NotifySentinel
  <2>1. /\ Holding(c) /\ request'[c] = request[c] /\ ~NewResponse(c)
        /\ net[c] = "push" <=> net'[c] = "push"
        /\ requestQueue'[c] = q
    BY <1>2, <1>3, <1>11 DEF NotifySent, NotifySentinel, Notify, Holding, NewResponse,
                             ThreadTypes, queues, counts, q
  <2> QED  BY <1>6, <2>1 DEF Goal
<1>12. CASE UNCHANGED <<requestQueue, net, request>>
  <2>1. Holding(c) /\ requestQueue'[c] = q /\ request'[c] = request[c] /\ net'[c] = net[c]
    BY <1>3, <1>12 DEF Holding, q
  <2>2. ~NewResponse(c)
    BY <1>2, <2>1 DEF NewResponse, ThreadTypes
  <2> QED  BY <1>6, <2>1, <2>2 DEF Goal
<1> QED  BY <1>1, <1>8, <1>9, <1>10, <1>11, <1>12, QueueLeft DEF Goal

(* How a response queue changes, and the place before it.                  *)
LEMMA ResponsesLeft ==
    ASSUME TypeOK, InThread, NEW c \in Client, [Next]_vars
    PROVE  /\ \/ PushResponse(c) /\ responseQueue'[c] = Append(responseQueue[c], request[c])
              \/ responseQueue'[c] = <<>>
              \/ responseQueue[c] # <<>> /\ responseQueue'[c] = Tail(responseQueue[c])
              \/ responseQueue'[c] = responseQueue[c]
           /\ net'[c] = "push" => \/ net[c] = "push" /\ request'[c] = request[c]
                                  \/ NewResponse(c)
           /\ PushResponse(c) => net'[c] # "push"
<1>1. QueueTypes /\ ThreadTypes
  BY TypeParts
<1> DEFINE Same == responseQueue'[c] = responseQueue[c]
           Push == net'[c] = "push" => \/ net[c] = "push" /\ request'[c] = request[c]
                                       \/ NewResponse(c)
<1>2. PushResponse(c) => net'[c] # "push"
  BY <1>1 DEF PushResponse, ThreadTypes
<1>3. ASSUME NEW d \in Client, PushResponse(d) \/ ClearQueues(d)
      PROVE  /\ \/ PushResponse(c) /\ responseQueue'[c] = Append(responseQueue[c], request[c])
                \/ responseQueue'[c] = <<>>
                \/ Same
             /\ Push
  <2>1. CASE d = c
    <3>1. net'[c] # "push"
      BY <1>1, <1>3, <2>1 DEF PushResponse, ClearQueues, ThreadTypes
    <3>2. CASE PushResponse(c)
      <4>1. responseQueue'[c] = Append(responseQueue[c], request[c])
        BY <1>1, <3>2 DEF PushResponse, QueueTypes
      <4> QED  BY <3>1, <3>2, <4>1, Zenon
    <3>3. CASE ClearQueues(c)
      <4>1. responseQueue'[c] = <<>>
        BY <1>1, <3>3 DEF ClearQueues, QueueTypes
      <4> QED  BY <3>1, <4>1, Zenon
    <3> QED  BY <1>3, <2>1, <3>2, <3>3
  <2>2. CASE d # c
    <3>1. Same
      BY <1>1, <1>3, <2>2 DEF PushResponse, ClearQueues, QueueTypes
    <3>2. net'[c] = net[c] /\ request'[c] = request[c]
      BY <1>1, <1>3, <2>2 DEF PushResponse, ClearQueues, ThreadTypes
    <3> QED  BY <3>1, <3>2
  <2> QED  BY <2>1, <2>2
<1>4. ASSUME NEW d \in Client,
             \/ WakeSpuriously(d) \/ CountNetworkThread(d) \/ TakeRequest(d) \/ Wait(d)
             \/ EraseRequest(d) \/ LoadForResponse(d) \/ NewResponse(d)
             \/ PostDispatch(d) \/ LeaveNetworkThread(d)
      PROVE  Same /\ Push
  <2>1. Same
    BY <1>4 DEF WakeSpuriously, CountNetworkThread, TakeRequest, Wait, EraseRequest,
       LoadForResponse, NewResponse, PostDispatch, LeaveNetworkThread, queues
  <2>2. CASE d = c
    <3>1. CASE NewResponse(c)
      BY <2>1, <3>1, Zenon
    <3>2. CASE ~NewResponse(c)
      <4>1. net'[c] # "push"
        BY <1>1, <1>4, <2>2, <3>2 DEF WakeSpuriously, CountNetworkThread, TakeRequest, Wait,
           EraseRequest, LoadForResponse, PostDispatch, LeaveNetworkThread, ThreadTypes
      <4> QED  BY <2>1, <4>1
    <3> QED  BY <3>1, <3>2
  <2>3. CASE d # c
    <3>1. net'[c] = net[c] /\ request'[c] = request[c]
      BY <1>1, <1>4, <2>3 DEF WakeSpuriously, CountNetworkThread, TakeRequest, Wait,
         EraseRequest, LoadForResponse, NewResponse, PostDispatch, LeaveNetworkThread,
         ThreadTypes
    <3> QED  BY <2>1, <3>1
  <2> QED  BY <2>2, <2>3
<1>5. ASSUME NEW d \in Client, GetInstance(d)
      PROVE  Same /\ Push
  BY <1>5 DEF GetInstance, queues, threads
<1>6. ASSUME NEW r \in Request,
             Send(r) \/ SendImmediate(r) \/ CountAlone(r) \/ PostAlone(r) \/ LeaveAlone(r)
      PROVE  Same /\ Push
  <2>1. Same
    BY <1>6 DEF Send, SendImmediate, CountAlone, PostAlone, LeaveAlone, queues
  <2>2. (net'[c] = net[c] \/ net'[c] # "push") /\ request' = request
    BY <1>1, <1>6 DEF Send, SendImmediate, CountAlone, PostAlone, LeaveAlone, ThreadTypes
  <2> QED  BY <2>1, <2>2
<1>7. ASSUME NotifySent \/ NotifySentinel
      PROVE  Same /\ Push
  <2>1. Same
    BY <1>7 DEF NotifySent, NotifySentinel, queues
  <2>2. (net'[c] = net[c] \/ net'[c] # "push") /\ request' = request
    BY <1>1, <1>7 DEF NotifySent, NotifySentinel, Notify, ThreadTypes
  <2> QED  BY <2>1, <2>2
<1>8. ASSUME \/ DestroyInstance \/ LoadRefs \/ StoreRefs \/ DetachScheduler
             \/ PushSentinel \/ LeaveClient \/ Return \/ UNCHANGED vars
      PROVE  Same /\ Push
  BY <1>8 DEF DestroyInstance, LoadRefs, StoreRefs, DetachScheduler, PushSentinel,
     LeaveClient, Return, queues, threads, vars
<1>9. ASSUME RunFunction
      PROVE  /\ \/ Same
                \/ responseQueue[c] # <<>> /\ responseQueue'[c] = Tail(responseQueue[c])
             /\ Push
  <2>1. Push
    BY <1>9 DEF RunFunction, threads
  <2>2. \/ Same
        \/ responseQueue[c] # <<>> /\ responseQueue'[c] = Tail(responseQueue[c])
    <3>1. ASSUME NEW r, Called(r)
          PROVE  \/ Same
                 \/ responseQueue[c] # <<>> /\ responseQueue'[c] = Tail(responseQueue[c])
      BY <1>1, <3>1 DEF Called, QueueTypes
    <3>2. ASSUME NEW r, CalledAlone(r)
          PROVE  Same
      BY <3>2 DEF CalledAlone
    <3> QED  BY <1>9, <3>1, <3>2, FunctionRuns
  <2> QED  BY <2>1, <2>2
<1> HIDE DEF Push, Same
<1>10. /\ \/ PushResponse(c) /\ responseQueue'[c] = Append(responseQueue[c], request[c])
          \/ responseQueue'[c] = <<>>
          \/ responseQueue[c] # <<>> /\ responseQueue'[c] = Tail(responseQueue[c])
          \/ Same
       /\ Push
  BY <1>3, <1>4, <1>5, <1>6, <1>7, <1>8, <1>9, Steps
<1> QED  BY <1>2, <1>10 DEF Push, Same

LEMMA InResponseQueueStep ==
    ASSUME IInv, [Next]_vars
    PROVE  InResponseQueue'
<1>1. TypeOK /\ AloneStands /\ CallbackStands /\ InThread /\ InResponseQueue
  BY DEF IInv
<1>2. ThreadTypes /\ QueueTypes
  BY <1>1, TypeParts
<1>3. SUFFICES ASSUME NEW c \in Client
               PROVE  /\ IsInjective(responseQueue'[c])
                      /\ \A r \in ToSet(responseQueue'[c]) :
                             Unanswered(r, c)' /\ r \in response'
                      /\ net'[c] = "push" => request'[c] \notin ToSet(responseQueue'[c])
  BY DEF InResponseQueue
<1> DEFINE q == responseQueue[c]
<1>4. /\ q \in Seq(Request)
      /\ IsInjective(q)
      /\ \A r \in ToSet(q) : r \in Request /\ Unanswered(r, c) /\ r \in response
      /\ net[c] = "push" => request[c] \notin ToSet(q)
  <2>1. q \in Seq(Request)
    BY <1>2 DEF QueueTypes
  <2>2. \A r \in ToSet(q) : r \in Request
    BY <2>1 DEF ToSet
  <2> QED  BY <1>1, <2>1, <2>2 DEF InResponseQueue
<1>5. ASSUME NEW r \in ToSet(q), r \in ToSet(responseQueue'[c])
      PROVE  Unanswered(r, c)' /\ r \in response'
  <2>1. ASSUME Called(r)
        PROVE  FALSE
    <3>1. PICK d \in Client : /\ responseQueue[d] # <<>>
                              /\ r = Head(responseQueue[d])
                              /\ responseQueue' = [responseQueue EXCEPT ![d] = Tail(@)]
      BY <2>1 DEF Called
    <3>2. r \in ToSet(responseQueue[d])
      BY <1>2, <3>1, TailParts DEF QueueTypes
    <3>3. d = c
      BY <1>1, <1>4, <3>2 DEF InResponseQueue, Unanswered
    <3>4. responseQueue'[c] = Tail(q) /\ q # <<>> /\ r = Head(q)
      BY <1>2, <3>1, <3>3 DEF QueueTypes
    <3>5. Head(q) \notin ToSet(Tail(q))
      <4>1. Head(q) \in Request
        BY <1>4, <3>4
      <4>2. \A i, j \in DOMAIN q : q[i] = q[j] /\ q[i] \in Request => i = j
        BY <1>4 DEF IsInjective
      <4> QED  BY <1>4, <3>4, <4>1, <4>2, HeadLeaves
    <3> QED  BY <1>5, <3>4, <3>5
  <2> QED  BY <1>1, <1>4, <2>1, UnansweredStays
<1> HIDE DEF q
<1>6. ASSUME ToSet(responseQueue'[c]) \subseteq ToSet(q), net'[c] = "push"
      PROVE  request'[c] \notin ToSet(responseQueue'[c])
  <2>1. CASE NewResponse(c)
    <3>1. request[c] \notin response /\ request'[c] = request[c]
      BY <1>1, <1>2, <2>1 DEF InThread, Holding, NewResponse
    <3> QED  BY <1>4, <1>6, <3>1
  <2>2. CASE net[c] = "push" /\ request'[c] = request[c]
    BY <1>4, <1>6, <2>2
  <2> QED  BY <1>1, <1>6, <2>1, <2>2, ResponsesLeft
<1>7. CASE responseQueue'[c] = q
  BY <1>4, <1>5, <1>6, <1>7
<1>8. CASE responseQueue'[c] = <<>>
  BY <1>8, EmptyQueue
<1>9. CASE q # <<>> /\ responseQueue'[c] = Tail(q)
  <2>1. ToSet(Tail(q)) \subseteq ToSet(q)
    BY <1>4, <1>9, TailParts
  <2>2. IsInjective(Tail(q))
    <3>1. \A i \in DOMAIN Tail(q) : /\ i + 1 \in DOMAIN q /\ i \in Int
                                    /\ Tail(q)[i] = q[i + 1]
      BY <1>4, <1>9, TailParts
    <3> DEFINE t == Tail(q)
    <3> HIDE DEF t
    <3>2. ASSUME NEW i \in DOMAIN t, NEW j \in DOMAIN t, t[i] = t[j]
          PROVE  i = j
      <4>1. i + 1 = j + 1
        BY <1>4, <3>1, <3>2 DEF IsInjective, t
      <4> QED  BY <3>1, <4>1 DEF t
    <3> QED  BY <3>2 DEF IsInjective, t
  <2> QED  BY <1>5, <1>6, <1>9, <2>1, <2>2
<1>10. CASE PushResponse(c) /\ responseQueue'[c] = Append(q, request[c])
  <2>1. PICK e \in Request : e = request[c]
    BY <1>1, <1>10 DEF PushResponse, InThread, Holding
  <2>2. /\ Unanswered(e, c) /\ e \in response /\ e \notin ToSet(q) /\ net'[c] # "push"
    BY <1>1, <1>4, <1>10, <2>1, ResponsesLeft DEF PushResponse, InThread, Holding
  <2>3. UNCHANGED <<owner, alone, answered>>
    BY <1>10, ThreadsLeave
  <2>4. Unanswered(e, c)' /\ e \in response'
    BY <1>10, <2>2, <2>3 DEF PushResponse, counts, Unanswered
  <2>5. /\ DOMAIN Append(q, e) = DOMAIN q \cup {Len(q) + 1}
        /\ \A i \in DOMAIN q : Append(q, e)[i] = q[i] /\ q[i] \in ToSet(q)
        /\ Append(q, e)[Len(q) + 1] = e
        /\ ToSet(Append(q, e)) = ToSet(q) \cup {e}
    BY <1>4, AppendParts
  <2>6. IsInjective(Append(q, e))
    <3> DEFINE t == Append(q, e)
    <3> HIDE DEF t
    <3>1. \A i, j \in DOMAIN t : t[i] = t[j] => i = j
      BY <1>4, <2>2, <2>5 DEF IsInjective, t
    <3> QED  BY <3>1 DEF IsInjective, t
  <2> QED  BY <1>5, <1>10, <2>1, <2>2, <2>4, <2>5, <2>6
<1> QED  BY <1>1, <1>7, <1>8, <1>9, <1>10, ResponsesLeft DEF q

(* A request that is called was not answered before, and has its response. *)
LEMMA CalledOnce ==
    ASSUME IInv, NEW r \in Request, Called(r) \/ CalledAlone(r)
    PROVE  /\ r \in response /\ r \notin ToSet(answered) /\ owner[r] # None
           /\ alone[r] \in {"none", "leave", "ended"}
           /\ answered' = Append(answered, r)
           /\ callback' = r
           /\ ToSet(answered') = ToSet(answered) \cup {r}
<1>1. TypeOK /\ AloneStands /\ InResponseQueue
  BY DEF IInv
<1>2. ThreadTypes /\ QueueTypes /\ None \notin Client
  BY <1>1, TypeParts, HttpClientAssumption
<1>3. answered' = Append(answered, r) /\ callback' = r
  BY DEF Called, CalledAlone
<1>4. ToSet(answered') = ToSet(answered) \cup {r}
  BY <1>2, <1>3, AppendParts DEF QueueTypes
<1>5. CASE Called(r)
  <2>1. PICK d \in Client : responseQueue[d] # <<>> /\ r = Head(responseQueue[d])
    BY <1>5 DEF Called
  <2>2. r \in ToSet(responseQueue[d])
    BY <1>2, <2>1, TailParts DEF QueueTypes
  <2> QED  BY <1>1, <1>2, <1>3, <1>4, <2>2 DEF InResponseQueue, Unanswered
<1>6. CASE CalledAlone(r)
  <2>1. functions # <<>> /\ r = Head(functions).request /\ r # None
    BY <1>6 DEF CalledAlone
  <2>2. Head(functions) = functions[1] /\ 1 \in DOMAIN functions
    BY <1>2, <2>1, TailParts DEF QueueTypes
  <2>3. alone[r] \in {"leave", "ended"} /\ r \in response /\ r \notin ToSet(answered)
    BY <1>1, <2>1, <2>2 DEF AloneStands
  <2>4. owner[r] # None
    BY <1>1, <2>3 DEF AloneStands
  <2> QED  BY <1>3, <1>4, <2>3, <2>4
<1> QED  BY <1>5, <1>6

LEMMA CallbackStandsStep ==
    ASSUME IInv, [Next]_vars
    PROVE  CallbackStands'
<1>1. TypeOK /\ AloneStands /\ CallbackStands /\ InResponseQueue
  BY DEF IInv
<1>2. RefTypes /\ None \notin Request
  BY <1>1, TypeParts, HttpClientAssumption
<1>3. ASSUME NEW r \in Request, Send(r) \/ SendImmediate(r)
      PROVE  CallbackStands'
  BY <1>1, <1>3 DEF Send, SendImmediate, CallbackStands, history
<1>4. ASSUME NEW r \in Request, CountAlone(r) \/ PostAlone(r) \/ LeaveAlone(r)
      PROVE  CallbackStands'
  BY <1>1, <1>4, ThreadsAloneLeave DEF CallbackStands
<1>5. ASSUME NEW c \in Client, NewResponse(c)
      PROVE  CallbackStands'
  BY <1>1, <1>5 DEF NewResponse, CallbackStands, history, mained
<1>6. CASE RunFunction
  <2>1. UNCHANGED response
    BY <1>6 DEF RunFunction, counts
  <2>2. ASSUME NEW r \in Request, Called(r) \/ CalledAlone(r)
        PROVE  CallbackStands'
    BY <2>1, <2>2, CalledOnce DEF CallbackStands
  <2>3. CASE UNCHANGED <<responseQueue, answered, callback>>
    BY <1>1, <2>1, <2>3 DEF CallbackStands
  <2> QED  BY <1>1, <1>6, <2>2, <2>3, FunctionRuns
<1>7. CASE Return
  BY <1>7 DEF Return, CallbackStands
<1>8. CASE UNCHANGED <<owner, alone, answered, response, callback>>
  BY <1>1, <1>8 DEF CallbackStands
<1> QED  BY <1>1, <1>3, <1>4, <1>5, <1>6, <1>7, <1>8, HistoryLeft

LEMMA AloneStandsStep ==
    ASSUME IInv, [Next]_vars
    PROVE  AloneStands'
<1>1. /\ TypeOK /\ MainStands /\ AloneStands /\ CallbackStands /\ InResponseQueue
      /\ InThread
  BY DEF IInv
<1>2. /\ ThreadTypes /\ QueueTypes /\ RefTypes
      /\ None \notin Client /\ None \notin Request
  BY <1>1, TypeParts, HttpClientAssumption
<1> DEFINE Free(r) == owner[r] = None => /\ alone[r] = "none" /\ r \notin response
                                         /\ r \notin ToSet(answered) /\ r \in mine
           Running(r) == alone[r] \in {"started", "post"} =>
                              r \in response /\ r \notin ToSet(answered)
           Posted(i) == functions[i].request # None =>
                          /\ alone[functions[i].request] \in {"leave", "ended"}
                          /\ functions[i].request \in response
                          /\ functions[i].request \notin ToSet(answered)
           Single(i, j) == /\ functions[i].request # None
                           /\ functions[j].request = functions[i].request
                           => i = j
<1>3. AloneStands <=> /\ \A r \in Request : Free(r) /\ Running(r)
                      /\ \A i \in DOMAIN functions :
                             Posted(i) /\ \A j \in DOMAIN functions : Single(i, j)
  BY DEF AloneStands
<1>4. AloneStands' <=> /\ \A r \in Request : Free(r)' /\ Running(r)'
                       /\ \A i \in DOMAIN functions' :
                              Posted(i)' /\ \A j \in DOMAIN functions' : Single(i, j)'
  BY DEF AloneStands
<1>5. \A i \in DOMAIN functions : functions[i].request \in Request \cup {None}
  <2> DEFINE S == [client : Client, request : Request \cup {None}]
  <2>1. functions \in Seq(S) /\ \A f \in S : f.request \in Request \cup {None}
    BY <1>2 DEF QueueTypes
  <2> HIDE DEF S
  <2>2. \A i \in DOMAIN functions : functions[i] \in S
    BY <2>1
  <2> QED  BY <2>1, <2>2
<1>6. ASSUME UNCHANGED <<owner, alone, answered, response, mine, functions>>
      PROVE  AloneStands'
  BY <1>1, <1>6 DEF AloneStands
<1>7. ASSUME NEW s \in Request, Send(s) \/ SendImmediate(s)
      PROVE  AloneStands'
  <2>1. owner[s] = None /\ owner'[s] # None /\ UNCHANGED <<answered, mine, functions>>
    BY <1>2, <1>7 DEF Send, SendImmediate, ThreadTypes, queues, history, counts
  <2>2. alone[s] = "none" /\ s \notin response /\ s \notin ToSet(answered)
    BY <1>1, <2>1 DEF AloneStands
  <2>3. /\ \A r \in Request : r # s => /\ owner'[r] = owner[r] /\ alone'[r] = alone[r]
                                       /\ r \in response' <=> r \in response
        /\ alone'[s] = "none" \/ (alone'[s] = "started" /\ s \in response')
    BY <1>2, <1>7, <2>2 DEF Send, SendImmediate, ThreadTypes, counts
  <2>4. \A r \in Request : Free(r)' /\ Running(r)'
    BY <1>1, <1>3, <2>1, <2>2, <2>3
  <2>5. \A i \in DOMAIN functions : Posted(i)' /\ \A j \in DOMAIN functions : Single(i, j)'
    <3>1. \A i \in DOMAIN functions : functions[i].request # s
      BY <1>1, <1>2, <1>3, <2>2
    <3> QED  BY <1>1, <1>3, <1>5, <2>1, <2>3, <3>1
  <2> QED  BY <1>4, <2>1, <2>4, <2>5
<1>8. ASSUME NEW s \in Request, CountAlone(s) \/ PostAlone(s) \/ LeaveAlone(s)
      PROVE  AloneStands'
  <2>1. UNCHANGED <<owner, answered, response, mine>>
    BY <1>8, ThreadsAloneLeave
  <2>2. /\ \A r \in Request : r # s => alone'[r] = alone[r]
        /\ alone[s] \in {"started", "post", "leave"}
        /\ alone'[s] \in {"post", "leave", "ended"}
        /\ alone'[s] = "post" => alone[s] = "started"
        /\ alone[s] = "leave" => alone'[s] = "ended"
        /\ alone[s] = "leave" => UNCHANGED functions
        /\ alone[s] = "started" => UNCHANGED functions
        /\ alone[s] = "post" => alone'[s] = "leave"
    BY <1>2, <1>8 DEF CountAlone, PostAlone, LeaveAlone, ThreadTypes, queues
  <2>3. \A r \in Request : Free(r)' /\ Running(r)'
    BY <1>1, <1>3, <2>1, <2>2
  <2>4. \A i \in DOMAIN functions : functions[i].request = s => alone[s] = "leave"
    BY <1>1, <1>2, <1>3, <2>2
  <2>5. \A i \in DOMAIN functions : Posted(i)' \/ functions'[i] # functions[i]
    BY <1>1, <1>3, <1>5, <2>1, <2>2, <2>4
  <2>6. CASE UNCHANGED functions
    BY <1>1, <1>3, <1>4, <2>3, <2>5, <2>6
  <2>7. CASE PostAlone(s) /\ functions' = Append(functions, [client |-> owner[s], request |-> s])
    <3> DEFINE e == [client |-> owner[s], request |-> s]
    <3>1. owner[s] \in Client
      BY <1>1, <1>2, <2>2 DEF AloneStands, ThreadTypes
    <3>2. /\ DOMAIN functions' = DOMAIN functions \cup {Len(functions) + 1}
          /\ \A i \in DOMAIN functions : functions'[i] = functions[i] /\ i # Len(functions) + 1
          /\ functions'[Len(functions) + 1].request = s
      <4>1. e \in [client : Client, request : Request \cup {None}] /\ e.request = s
        BY <3>1
      <4>2. functions' = Append(functions, e)
        BY <2>7
      <4> HIDE DEF e
      <4> QED  BY <1>2, <4>1, <4>2, AppendParts DEF QueueTypes
    <3>3. alone[s] = "post"
      BY <2>7 DEF PostAlone
    <3>4. \A i \in DOMAIN functions : functions[i].request # s
      BY <2>4, <3>3
    <3>5. s \in response /\ s \notin ToSet(answered)
      BY <1>1, <3>3 DEF AloneStands
    <3>6. \A i \in DOMAIN functions' : Posted(i)'
      BY <2>1, <2>2, <2>5, <3>2, <3>3, <3>5
    <3>7. \A i, j \in DOMAIN functions' : Single(i, j)'
      BY <1>1, <1>3, <3>2, <3>4
    <3> QED  BY <1>4, <2>3, <3>6, <3>7
  <2> QED  BY <1>8, <2>2, <2>6, <2>7 DEF PostAlone, CountAlone, LeaveAlone, queues
<1>9. ASSUME NEW d \in Client, NewResponse(d)
      PROVE  AloneStands'
  <2>1. /\ response' = response \cup {request[d]}
        /\ UNCHANGED <<owner, alone, answered, mine, functions>>
    BY <1>9 DEF NewResponse, history, queues
  <2>2. Unanswered(request[d], d)
    BY <1>1, <1>9 DEF NewResponse, InThread, Holding
  <2>3. \A r \in Request : Free(r)' /\ Running(r)'
    BY <1>1, <1>2, <1>3, <2>1, <2>2 DEF Unanswered
  <2> QED  BY <1>1, <1>3, <1>4, <2>1, <2>3
<1>10. CASE RunFunction
  <2>1. /\ functions # <<>> /\ functions' = Tail(functions)
        /\ UNCHANGED <<owner, alone, response, mine>>
    BY <1>10 DEF RunFunction, threads, counts
  <2>2. \A i \in DOMAIN functions' : /\ i + 1 \in DOMAIN functions /\ i + 1 # 1 /\ i \in Int
                                     /\ functions'[i] = functions[i + 1]
    BY <1>2, <2>1, TailParts DEF QueueTypes
  <2>3. Head(functions) = functions[1] /\ 1 \in DOMAIN functions
    BY <1>2, <2>1, TailParts DEF QueueTypes
  <2>4. \A i, j \in DOMAIN functions' : Single(i, j)'
    <3>1. SUFFICES ASSUME NEW i \in DOMAIN functions', NEW j \in DOMAIN functions',
                          functions'[i].request # None,
                          functions'[j].request = functions'[i].request
                   PROVE  i = j
      OBVIOUS
    <3>2. i + 1 = j + 1
      BY <1>1, <1>3, <2>2, <3>1
    <3> QED  BY <2>2, <3>2
  <2>5. ASSUME NEW r \in Request, Called(r) \/ CalledAlone(r)
        PROVE  AloneStands'
    <3>1. /\ ToSet(answered') = ToSet(answered) \cup {r} /\ owner[r] # None
          /\ alone[r] \in {"none", "leave", "ended"}
      BY <2>5, CalledOnce
    <3>2. \A s \in Request : Free(s)' /\ Running(s)'
      BY <1>1, <1>3, <2>1, <3>1
    <3>3. \A i \in DOMAIN functions' : functions'[i].request # r
      <4>1. CASE Called(r)
        <5>1. PICK d \in Client : responseQueue[d] # <<>> /\ r = Head(responseQueue[d])
          BY <4>1 DEF Called
        <5>2. alone[r] = "none"
          <6>1. r \in ToSet(responseQueue[d])
            BY <1>2, <5>1, TailParts DEF QueueTypes
          <6> QED  BY <1>1, <6>1 DEF InResponseQueue, Unanswered
        <5> QED  BY <1>1, <1>2, <1>3, <2>2, <5>2
      <4>2. CASE CalledAlone(r)
        <5>1. functions[1].request = r /\ r # None
          BY <2>3, <4>2 DEF CalledAlone
        <5> QED  BY <1>1, <1>3, <2>2, <2>3, <5>1
      <4> QED  BY <2>5, <4>1, <4>2
    <3>4. \A i \in DOMAIN functions' : Posted(i)'
      BY <1>1, <1>3, <2>1, <2>2, <3>1, <3>3
    <3> QED  BY <1>4, <2>4, <3>2, <3>4
  <2>6. CASE UNCHANGED answered
    <3>1. \A s \in Request : Free(s)' /\ Running(s)'
      BY <1>1, <1>3, <2>1, <2>6
    <3>2. \A i \in DOMAIN functions' : Posted(i)'
      BY <1>1, <1>3, <2>1, <2>2, <2>6
    <3> QED  BY <1>4, <2>4, <3>1, <3>2
  <2> QED  BY <1>1, <1>10, <2>5, <2>6, FunctionRuns
<1>11. CASE Return
  <2>1. /\ callback \in ToSet(answered)
        /\ mine' = mine \ {callback} /\ response' = response \ {callback}
        /\ UNCHANGED <<owner, alone, answered, functions>>
    BY <1>1, <1>11 DEF Return, CallbackStands, threads, history, queues
  <2>2. \A s \in Request : Free(s)' /\ Running(s)'
    BY <1>1, <1>3, <2>1
  <2>3. \A i \in DOMAIN functions : Posted(i)'
    BY <1>1, <1>3, <2>1
  <2> QED  BY <1>1, <1>3, <1>4, <2>1, <2>2, <2>3
<1>12. CASE StoreRefs
  <2>1. /\ owner[sending] # None /\ mine' = mine \ {sending}
        /\ UNCHANGED <<owner, alone, answered, response, functions>>
    BY <1>1, <1>12 DEF StoreRefs, MainStands, threads, history, queues
  <2>2. \A s \in Request : Free(s)' /\ Running(s)'
    BY <1>1, <1>3, <2>1
  <2> QED  BY <1>1, <1>3, <1>4, <2>1, <2>2
<1>13. ASSUME NEW d \in Client, PostDispatch(d)
       PROVE  AloneStands'
  <2>1. UNCHANGED <<owner, alone, answered, response, mine>>
    BY <1>13 DEF PostDispatch, counts, history
  <2>2. CASE UNCHANGED functions
    BY <1>6, <2>1, <2>2
  <2>3. CASE functions' = Append(functions, [client |-> d, request |-> None])
    <3>1. /\ DOMAIN functions' = DOMAIN functions \cup {Len(functions) + 1}
          /\ \A i \in DOMAIN functions : functions'[i] = functions[i]
          /\ functions'[Len(functions) + 1].request = None
      BY <1>2, <2>3, AppendParts DEF QueueTypes
    <3>2. \A s \in Request : Free(s)' /\ Running(s)'
      BY <1>1, <1>3, <2>1
    <3>3. \A i \in DOMAIN functions' : Posted(i)'
      BY <1>1, <1>3, <2>1, <3>1
    <3>4. \A i, j \in DOMAIN functions' : Single(i, j)'
      BY <1>1, <1>3, <3>1
    <3> QED  BY <1>4, <3>2, <3>3, <3>4
  <2> QED  BY <1>13, <2>2, <2>3 DEF PostDispatch
<1>14. ASSUME NEW d \in Client,
              \/ WakeSpuriously(d) \/ CountNetworkThread(d) \/ TakeRequest(d) \/ Wait(d)
              \/ EraseRequest(d) \/ LoadForResponse(d) \/ PushResponse(d)
              \/ ClearQueues(d) \/ LeaveNetworkThread(d)
       PROVE  AloneStands'
  <2>1. UNCHANGED <<response, functions>>
    BY <1>14 DEF WakeSpuriously, CountNetworkThread, TakeRequest, Wait, EraseRequest,
       LoadForResponse, PushResponse, ClearQueues, LeaveNetworkThread, counts, queues
  <2> QED  BY <1>6, <1>14, <2>1, ThreadsLeave
<1>15. ASSUME NEW d \in Client, GetInstance(d)
       PROVE  AloneStands'
  BY <1>6, <1>15 DEF GetInstance, queues, threads, counts, history
<1>16. CASE DestroyInstance \/ NotifySent \/ LoadRefs \/ DetachScheduler \/ PushSentinel
            \/ NotifySentinel \/ LeaveClient \/ UNCHANGED vars
  BY <1>6, <1>16 DEF DestroyInstance, NotifySent, LoadRefs, DetachScheduler, PushSentinel,
     NotifySentinel, LeaveClient, queues, threads, counts, history, vars
<1> QED  BY <1>7, <1>8, <1>9, <1>10, <1>11, <1>12, <1>13, <1>14, <1>15, <1>16, Steps

-----------------------------------------------------------------------------
(* The references of a request.                                            *)

(* Whether a request may be raced is settled when it is sent.              *)
LEMMA RacedStays ==
    ASSUME IInv, NEW r \in Request, [Next]_vars
    PROVE  /\ Raced(r) => Raced(r)'
           /\ owner[r] # None => owner'[r] = owner[r] /\ (Raced(r)' => Raced(r))
<1>1. TypeOK /\ AloneStands
  BY DEF IInv
<1>2. ThreadTypes
  BY <1>1, TypeParts
<1>3. CASE UNCHANGED <<owner, alone>>
  BY <1>3 DEF Raced
<1>4. ASSUME NEW s \in Request, Send(s) \/ SendImmediate(s)
      PROVE  owner[r] # None => UNCHANGED <<owner[r], alone[r]>>
  BY <1>2, <1>4 DEF Send, SendImmediate, ThreadTypes
<1>5. ASSUME NEW s \in Request, CountAlone(s) \/ PostAlone(s) \/ LeaveAlone(s)
      PROVE  owner' = owner /\ (alone'[r] = "none" <=> alone[r] = "none")
  BY <1>2, <1>5 DEF CountAlone, PostAlone, LeaveAlone, ThreadTypes
<1>6. CASE RunFunction \/ Return
  BY <1>3, <1>6 DEF RunFunction, Return, threads
<1>7. ASSUME NEW d \in Client, NewResponse(d)
      PROVE  UNCHANGED <<owner, alone>>
  BY <1>7 DEF NewResponse
<1> QED  BY <1>1, <1>3, <1>4, <1>5, <1>6, <1>7, HistoryLeft DEF Raced

(* Who changes the count of a request.                                     *)
LEMMA RefsLeft ==
    ASSUME IInv, NEW r \in Request, [Next]_vars
    PROVE  \/ Send(r) \/ SendImmediate(r)
           \/ StoreRefs /\ sending = r
           \/ Return /\ callback = r
           \/ \E c \in Client : (EraseRequest(c) \/ NewResponse(c)) /\ request[c] = r
           \/ refs'[r] = refs[r]
<1>1. RefTypes
  BY TypeParts DEF IInv
<1>2. ASSUME NEW s \in Request, Send(s) \/ SendImmediate(s), s # r
      PROVE  refs'[r] = refs[r]
  BY <1>1, <1>2 DEF Send, SendImmediate, RefTypes
<1>3. ASSUME NEW c \in Client, EraseRequest(c) \/ NewResponse(c), request[c] # r
      PROVE  refs'[r] = refs[r]
  BY <1>1, <1>3 DEF EraseRequest, NewResponse, RefTypes
<1>4. ASSUME NEW c \in Client,
             \/ GetInstance(c) \/ WakeSpuriously(c) \/ CountNetworkThread(c)
             \/ TakeRequest(c) \/ Wait(c) \/ LoadForResponse(c) \/ PushResponse(c)
             \/ PostDispatch(c) \/ ClearQueues(c) \/ LeaveNetworkThread(c)
      PROVE  refs'[r] = refs[r]
  BY <1>4 DEF GetInstance, WakeSpuriously, CountNetworkThread, TakeRequest, Wait,
     LoadForResponse, PushResponse, PostDispatch, ClearQueues, LeaveNetworkThread, counts
<1>5. CASE StoreRefs \/ Return
  BY <1>1, <1>5 DEF StoreRefs, Return, RefTypes
<1>6. CASE DestroyInstance \/ NotifySent \/ LoadRefs \/ DetachScheduler \/ PushSentinel
           \/ NotifySentinel \/ LeaveClient \/ RunFunction \/ UNCHANGED vars
  BY <1>6 DEF DestroyInstance, NotifySent, LoadRefs, DetachScheduler, PushSentinel,
     NotifySentinel, LeaveClient, RunFunction, counts, vars
<1> QED  BY <1>2, <1>3, <1>4, <1>5, <1>6, Steps, ThreadsAloneLeave

(* Where a request that a network thread holds is.                         *)
LEMMA Held ==
    ASSUME IInv, NEW c \in Client, Holding(c)
    PROVE  /\ request[c] \in Request
           /\ Unanswered(request[c], c)
           /\ owner[request[c]] # None /\ request[c] # callback
           /\ \A d \in Client : Holding(d) /\ request[d] = request[c] => d = c
           /\ \A d \in Client : request[c] \notin ToSet(requestQueue[d])
<1>1. InThread /\ InRequestQueue /\ CallbackStands /\ None \notin Client /\ None \notin Request
  BY HttpClientAssumption DEF IInv
<1>2. request[c] \in Request /\ Unanswered(request[c], c)
  BY <1>1 DEF InThread
<1>3. request[c] # callback
  BY <1>1, <1>2 DEF CallbackStands, Unanswered
<1>4. \A d \in Client : Holding(d) /\ request[d] = request[c] => d = c
  BY <1>1, <1>2 DEF InThread, Unanswered
<1>5. \A d \in Client : request[c] \notin ToSet(requestQueue[d])
  BY <1>1, <1>2 DEF InThread, InRequestQueue, Unanswered
<1> QED  BY <1>1, <1>2, <1>3, <1>4, <1>5 DEF Unanswered

(* How a thread comes to have loaded a count.                              *)
LEMMA RegisterLeft ==
    ASSUME TypeOK, NEW c \in Client, net'[c] \in {"erase", "retain"}, [Next]_vars
    PROVE  \/ TakeRequest(c) \/ LoadForResponse(c)
           \/ /\ net[c] = net'[c] /\ request'[c] = request[c]
              /\ register'[c] = register[c]
              /\ ~EraseRequest(c) /\ ~NewResponse(c)
<1>1. ThreadTypes /\ RefTypes /\ None \notin Client
  BY TypeParts, HttpClientAssumption
<1>2. net'[c] = net[c] => ~EraseRequest(c) /\ ~NewResponse(c)
  BY <1>1 DEF EraseRequest, NewResponse, ThreadTypes
<1> DEFINE Same == /\ net'[c] = net[c] /\ request'[c] = request[c]
                   /\ register'[c] = register[c]
<1>3. ASSUME NEW d \in Client, d # c,
             \/ WakeSpuriously(d) \/ CountNetworkThread(d) \/ TakeRequest(d) \/ Wait(d)
             \/ EraseRequest(d) \/ LoadForResponse(d) \/ NewResponse(d)
             \/ PushResponse(d) \/ PostDispatch(d) \/ ClearQueues(d)
             \/ LeaveNetworkThread(d)
      PROVE  Same
  BY <1>1, <1>3 DEF WakeSpuriously, CountNetworkThread, TakeRequest, Wait, EraseRequest,
     LoadForResponse, NewResponse, PushResponse, PostDispatch, ClearQueues,
     LeaveNetworkThread, ThreadTypes, RefTypes, counts
<1>4. ASSUME \/ WakeSpuriously(c) \/ CountNetworkThread(c) \/ Wait(c) \/ EraseRequest(c)
             \/ NewResponse(c) \/ PushResponse(c) \/ PostDispatch(c) \/ ClearQueues(c)
             \/ LeaveNetworkThread(c)
      PROVE  FALSE
  BY <1>1, <1>4 DEF WakeSpuriously, CountNetworkThread, Wait, EraseRequest, NewResponse,
     PushResponse, PostDispatch, ClearQueues, LeaveNetworkThread, ThreadTypes
<1>5. ASSUME NEW d \in Client, GetInstance(d)
      PROVE  Same
  BY <1>5 DEF GetInstance, threads, counts
<1>6. ASSUME NEW r \in Request, Send(r) \/ SendImmediate(r)
      PROVE  Same
  BY <1>1, <1>6 DEF Send, SendImmediate, ThreadTypes
<1>7. ASSUME NEW r \in Request, CountAlone(r) \/ PostAlone(r) \/ LeaveAlone(r)
      PROVE  Same
  BY <1>7, ThreadsAloneLeave
<1>8. ASSUME NotifySent \/ NotifySentinel
      PROVE  Same
  BY <1>1, <1>8 DEF NotifySent, NotifySentinel, Notify, ThreadTypes, counts
<1>9. ASSUME LoadRefs \/ StoreRefs
      PROVE  Same
  BY <1>1, <1>9 DEF LoadRefs, StoreRefs, threads, RefTypes
<1>10. ASSUME \/ DestroyInstance \/ DetachScheduler \/ PushSentinel \/ LeaveClient
              \/ RunFunction \/ Return \/ UNCHANGED vars
       PROVE  Same
  BY <1>10 DEF DestroyInstance, DetachScheduler, PushSentinel, LeaveClient, RunFunction,
     Return, threads, counts, vars
<1> HIDE DEF Same
<1>11. TakeRequest(c) \/ LoadForResponse(c) \/ Same
  BY <1>3, <1>4, <1>5, <1>6, <1>7, <1>8, <1>9, <1>10, Steps
<1> QED  BY <1>2, <1>11 DEF Same

LEMMA RegistersStep ==
    ASSUME IInv, [Next]_vars
    PROVE  RegistersExact'
<1>1. TypeOK /\ MainStands /\ RegistersExact /\ MainStands' /\ InThread'
  BY MainStandsStep, InThreadStep DEF IInv
<1>2. /\ ThreadTypes /\ RefTypes /\ MainTypes /\ QueueTypes
      /\ None \notin Client /\ None \notin Request
  BY <1>1, TypeParts, HttpClientAssumption
<1>3. ASSUME NEW c \in Client, net'[c] \in {"erase", "retain"}, ~Raced(request[c])'
      PROVE  register'[c] = refs'[request'[c]]
  <2>1. CASE TakeRequest(c)
    <3>1. Head(requestQueue[c]) # Sentinel
      BY <1>2, <1>3, <2>1 DEF TakeRequest, ThreadTypes
    <3> QED  BY <1>2, <2>1, <3>1 DEF TakeRequest, ThreadTypes, RefTypes
  <2>2. CASE LoadForResponse(c)
    BY <1>2, <2>2 DEF LoadForResponse, RefTypes
  <2>3. CASE /\ net[c] = net'[c] /\ request'[c] = request[c]
             /\ register'[c] = register[c]
             /\ ~EraseRequest(c) /\ ~NewResponse(c)
    <3>1. Holding(c) /\ net[c] \in {"erase", "retain"}
      BY <1>3, <2>3 DEF Holding
    <3>2. PICK r \in Request : r = request[c]
      BY <3>1, Held
    <3>3. Unanswered(r, c) /\ owner[r] # None /\ r # callback
          /\ \A d \in Client : Holding(d) /\ request[d] = r => d = c
      BY <3>1, <3>2, Held
    <3>4. ~Raced(r)'
      BY <1>3, <2>3, <3>2 DEF Raced
    <3>5. ~Raced(r)
      BY <3>4, RacedStays
    <3>6. ~(Send(r) \/ SendImmediate(r))
      BY <3>3 DEF Send, SendImmediate
    <3>7. ~(StoreRefs /\ sending = r)
      BY <1>1, <3>3, <3>5 DEF StoreRefs, MainStands, Raced, Unanswered
    <3>8. \A d \in Client : EraseRequest(d) \/ NewResponse(d) => Holding(d)
      BY DEF EraseRequest, NewResponse, Holding
    <3>9. refs'[r] = refs[r]
      BY <2>3, <3>3, <3>6, <3>7, <3>8, RefsLeft
    <3>10. register[c] = refs[request[c]]
      BY <1>1, <3>1, <3>2, <3>5 DEF RegistersExact
    <3> QED  BY <2>3, <3>2, <3>9, <3>10
  <2> QED  BY <1>1, <1>3, <2>1, <2>2, <2>3, RegisterLeft
<1>4. ASSUME main' = "store", ~Raced(sending)'
      PROVE  register'[None] = refs'[sending']
  <2>1. CASE LoadRefs
    BY <1>2, <2>1 DEF LoadRefs, RefTypes
  <2>2. CASE main = "store" /\ sending' = sending /\ register'[None] = register[None]
    <3>1. PICK r \in Request : r = sending
      BY <1>1, <1>2, <2>2 DEF MainStands, MainTypes
    <3>2. ~Raced(r)' /\ r \in Early /\ owner[r] # None
      BY <1>1, <1>4, <2>2, <3>1 DEF Raced, MainStands
    <3>3. ~Raced(r)
      BY <3>2, RacedStays
    <3>4. \A d \in Client : EraseRequest(d) \/ NewResponse(d) => request[d] # r
      <4>1. \A d \in Client : EraseRequest(d) \/ NewResponse(d) => Holding(d)
        BY DEF EraseRequest, NewResponse, Holding
      <4> QED  BY <3>2, <3>3, <4>1, Held DEF Unanswered, Raced
    <3>5. ~Send(r) /\ ~SendImmediate(r) /\ ~Return /\ ~StoreRefs
      BY <1>4, <2>2 DEF Send, SendImmediate, MayCall, Return, StoreRefs
    <3>6. refs'[r] = refs[r]
      BY <3>4, <3>5, RefsLeft
    <3>7. register[None] = refs[sending]
      BY <1>1, <2>2, <3>1, <3>3 DEF RegistersExact
    <3> QED  BY <2>2, <3>1, <3>6, <3>7
  <2>3. LoadRefs \/ (main = "store" /\ sending' = sending /\ register'[None] = register[None])
    <3> DEFINE Same == main = "store" /\ sending' = sending /\ register'[None] = register[None]
    <3>1. ASSUME NEW d \in Client,
                 \/ GetInstance(d) \/ WakeSpuriously(d) \/ CountNetworkThread(d)
                 \/ TakeRequest(d) \/ Wait(d) \/ EraseRequest(d) \/ LoadForResponse(d)
                 \/ NewResponse(d) \/ PushResponse(d) \/ PostDispatch(d)
                 \/ ClearQueues(d) \/ LeaveNetworkThread(d)
          PROVE  Same
      <4>1. main' = main /\ sending' = sending
        BY <3>1, ThreadsLeave DEF GetInstance, mained
      <4>2. register'[None] = register[None]
        BY <1>2, <3>1 DEF GetInstance, WakeSpuriously, CountNetworkThread, TakeRequest,
           Wait, EraseRequest, LoadForResponse, NewResponse, PushResponse, PostDispatch,
           ClearQueues, LeaveNetworkThread, counts, RefTypes
      <4> QED  BY <1>4, <4>1, <4>2
    <3>2. ASSUME NEW r \in Request, CountAlone(r) \/ PostAlone(r) \/ LeaveAlone(r)
          PROVE  Same
      BY <1>4, <3>2, ThreadsAloneLeave
    <3>3. ASSUME NEW r \in Request, Send(r) \/ SendImmediate(r)
          PROVE  FALSE
      BY <1>4, <3>3 DEF Send, SendImmediate, AfterSending
    <3>4. ASSUME \/ DestroyInstance \/ NotifySent \/ StoreRefs \/ DetachScheduler
                 \/ PushSentinel \/ NotifySentinel \/ LeaveClient \/ RunFunction \/ Return
          PROVE  FALSE
      BY <1>4, <3>4 DEF DestroyInstance, NotifySent, StoreRefs, DetachScheduler,
         PushSentinel, NotifySentinel, LeaveClient, RunFunction, Return, AfterSending
    <3>5. UNCHANGED vars => Same
      BY <1>4 DEF vars, mained, counts
    <3> HIDE DEF Same
    <3>6. LoadRefs \/ Same
      BY <3>1, <3>2, <3>3, <3>4, <3>5, Steps
    <3> QED  BY <3>6 DEF Same
  <2> QED  BY <2>1, <2>2, <2>3
<1> QED  BY <1>3, <1>4 DEF RegistersExact, Raced

(* A request enters and leaves a request queue by these.                   *)
LEMMA QueuedLeft ==
    ASSUME IInv, NEW r \in Request, ~Send(r),
           ~\E c \in Client : EraseRequest(c) /\ request[c] = r, [Next]_vars
    PROVE  Queued(r)' <=> Queued(r)
<1>1. TypeOK /\ MainStands /\ SentinelLast
  BY DEF IInv
<1>2. /\ ThreadTypes /\ QueueTypes /\ MainTypes /\ ClientTypes
      /\ None \notin Client /\ Sentinel \notin Request
  BY <1>1, TypeParts, HttpClientAssumption
<1> DEFINE At(c) == \/ r \in ToSet(requestQueue[c])
                    \/ net[c] = "erase" /\ request[c] = r
<1>3. SUFFICES ASSUME NEW c \in Client
               PROVE  At(c)' <=> At(c)
  BY DEF Queued
<1> DEFINE q == requestQueue[c]
<1>4. q \in Seq(Request \cup {Sentinel})
  BY <1>2 DEF QueueTypes
<1>5. ASSUME NEW e \in Request \cup {Sentinel}, e # r
      PROVE  r \in ToSet(Append(q, e)) <=> r \in ToSet(q)
  <2>1. ToSet(Append(q, e)) = ToSet(q) \cup {e}
    BY <1>4, AppendParts
  <2> QED  BY <1>5, <2>1
<1>6. CASE \E s \in Request : Send(s)
  <2>1. PICK s \in Request : Send(s) /\ s # r
    BY <1>6
  <2>2. instance \in Client
    BY <1>2, <2>1 DEF Send, ClientTypes
  <2>3. requestQueue'[c] = q \/ requestQueue'[c] = Append(q, s)
    BY <1>2, <2>1, <2>2 DEF Send, QueueTypes
  <2>4. r \in ToSet(requestQueue'[c]) <=> r \in ToSet(q)
    BY <1>5, <2>1, <2>3
  <2>5. (net'[c] = "erase" <=> net[c] = "erase") /\ request' = request
    BY <1>2, <2>1, <2>2 DEF Send, ThreadTypes
  <2> QED  BY <2>4, <2>5
<1>7. CASE PushSentinel
  <2>1. requestQueue'[c] = q \/ requestQueue'[c] = Append(q, Sentinel)
    BY <1>2, <1>7 DEF PushSentinel, QueueTypes
  <2>2. r \in ToSet(requestQueue'[c]) <=> r \in ToSet(q)
    BY <1>2, <1>5, <2>1
  <2> QED  BY <1>7, <2>2 DEF PushSentinel, threads
<1>8. CASE NotifySent \/ NotifySentinel
  <2>1. UNCHANGED <<requestQueue, request>> /\ (net'[c] = "erase" <=> net[c] = "erase")
    BY <1>2, <1>8 DEF NotifySent, NotifySentinel, Notify, ThreadTypes, queues
  <2> QED  BY <2>1
<1>9. CASE \E d \in Client : TakeRequest(d) /\ d # c
  BY <1>2, <1>9 DEF TakeRequest, QueueTypes, ThreadTypes
<1>10. CASE TakeRequest(c)
  <2>1. /\ net[c] = "test" /\ q # <<>> /\ requestQueue'[c] = Tail(q)
        /\ \/ Head(q) = Sentinel /\ net'[c] = "clear"
           \/ net'[c] = "erase" /\ request'[c] = Head(q)
    BY <1>2, <1>10 DEF TakeRequest, QueueTypes, ThreadTypes
  <2>2. ToSet(q) = ToSet(Tail(q)) \cup {Head(q)}
    BY <1>4, <2>1, TailParts
  <2> QED  BY <1>2, <2>1, <2>2
<1>11. CASE \E d \in Client : ClearQueues(d)
  <2>1. PICK d \in Client : ClearQueues(d)
    BY <1>11
  <2>2. requestQueue[d] = <<>>
    BY <1>1, <2>1 DEF ClearQueues, SentinelLast
  <2>3. requestQueue'[c] = q /\ request' = request
        /\ (net'[c] = "erase" <=> net[c] = "erase")
    BY <1>2, <2>1, <2>2 DEF ClearQueues, QueueTypes, ThreadTypes
  <2> QED  BY <2>3
<1>12. CASE \E d \in Client : EraseRequest(d)
  <2>1. PICK d \in Client : EraseRequest(d) /\ request[d] # r
    BY <1>12
  <2>2. requestQueue' = requestQueue /\ request' = request
    BY <2>1 DEF EraseRequest, queues
  <2>3. d # c => net'[c] = net[c]
    BY <1>2, <2>1 DEF EraseRequest, ThreadTypes
  <2>4. d = c => net[c] = "erase" /\ net'[c] = "respond"
    BY <1>2, <2>1 DEF EraseRequest, ThreadTypes
  <2> QED  BY <2>1, <2>2, <2>3, <2>4
<1>13. ASSUME NEW d \in Client,
              \/ WakeSpuriously(d) \/ CountNetworkThread(d) \/ Wait(d)
              \/ LoadForResponse(d) \/ NewResponse(d) \/ PushResponse(d)
              \/ PostDispatch(d) \/ LeaveNetworkThread(d)
       PROVE  At(c)' <=> At(c)
  <2>1. UNCHANGED requestQueue
    BY <1>13 DEF WakeSpuriously, CountNetworkThread, Wait, LoadForResponse, NewResponse,
       PushResponse, PostDispatch, LeaveNetworkThread, queues
  <2>2. d # c => net'[c] = net[c] /\ request'[c] = request[c]
    BY <1>2, <1>13 DEF WakeSpuriously, CountNetworkThread, Wait, LoadForResponse,
       NewResponse, PushResponse, PostDispatch, LeaveNetworkThread, ThreadTypes
  <2>3. d = c => net[c] # "erase" /\ net'[c] # "erase"
    BY <1>2, <1>13 DEF WakeSpuriously, CountNetworkThread, Wait, LoadForResponse,
       NewResponse, PushResponse, PostDispatch, LeaveNetworkThread, ThreadTypes
  <2> QED  BY <2>1, <2>2, <2>3
<1>14. CASE UNCHANGED <<requestQueue, net, request>>
  BY <1>14
<1> HIDE DEF At
<1> QED  BY <1>1, <1>6, <1>7, <1>8, <1>9, <1>10, <1>11, <1>12, <1>13, <1>14, QueueLeft

(* Its callback is due from send to the return of the callback.            *)
LEMMA PendingLeft ==
    ASSUME IInv, NEW r \in Request, ~Send(r), ~SendImmediate(r),
           ~(Return /\ callback = r), [Next]_vars
    PROVE  Pending(r)' <=> Pending(r)
<1>1. TypeOK
  BY DEF IInv
<1>2. /\ ThreadTypes /\ QueueTypes /\ MainTypes /\ None \notin Request
  BY <1>1, TypeParts, HttpClientAssumption
<1>3. ASSUME NEW s \in Request, Send(s) \/ SendImmediate(s)
      PROVE  Pending(r)' <=> Pending(r)
  <2>1. s # r
    BY <1>3
  <2> QED  BY <1>2, <1>3, <2>1 DEF Send, SendImmediate, Pending, ThreadTypes, history
<1>4. ASSUME NEW s \in Request, CountAlone(s) \/ PostAlone(s) \/ LeaveAlone(s)
      PROVE  Pending(r)' <=> Pending(r)
  BY <1>4, ThreadsAloneLeave DEF Pending
<1>5. ASSUME NEW c \in Client, NewResponse(c)
      PROVE  Pending(r)' <=> Pending(r)
  BY <1>5 DEF NewResponse, Pending, mained, history
<1>6. CASE RunFunction
  <2>1. callback = None /\ UNCHANGED owner
    BY <1>6 DEF RunFunction, threads
  <2>2. ASSUME NEW s \in Request, Called(s) \/ CalledAlone(s)
        PROVE  Pending(r)' <=> Pending(r)
    <3>1. /\ s \notin ToSet(answered) /\ owner[s] # None /\ callback' = s
          /\ ToSet(answered') = ToSet(answered) \cup {s}
      BY <2>2, CalledOnce
    <3> QED  BY <1>2, <2>1, <3>1 DEF Pending
  <2>3. UNCHANGED <<responseQueue, answered, callback>> => (Pending(r)' <=> Pending(r))
    BY <2>1 DEF Pending
  <2> QED  BY <1>1, <1>6, <2>2, <2>3, FunctionRuns
<1>7. CASE Return
  <2>1. callback # r /\ callback' = None /\ UNCHANGED <<owner, answered>>
    BY <1>7 DEF Return, threads, history
  <2> QED  BY <1>2, <2>1 DEF Pending
<1>8. CASE UNCHANGED <<owner, alone, answered, response, callback>>
  BY <1>8 DEF Pending
<1> QED  BY <1>1, <1>3, <1>4, <1>5, <1>6, <1>7, <1>8, HistoryLeft

LEMMA ResponseLeft ==
    ASSUME IInv, NEW r \in Request, ~SendImmediate(r), ~(Return /\ callback = r),
           ~\E c \in Client : NewResponse(c) /\ request[c] = r, [Next]_vars
    PROVE  r \in response' <=> r \in response
<1>1. ASSUME NEW s \in Request, Send(s) \/ SendImmediate(s)
      PROVE  r \in response' <=> r \in response
  BY <1>1 DEF Send, SendImmediate
<1>2. ASSUME NEW c \in Client, NewResponse(c)
      PROVE  r \in response' <=> r \in response
  BY <1>2 DEF NewResponse
<1>3. CASE RunFunction \/ Return
  BY <1>3 DEF RunFunction, Return, counts
<1>4. ASSUME NEW s \in Request, CountAlone(s) \/ PostAlone(s) \/ LeaveAlone(s)
      PROVE  r \in response' <=> r \in response
  BY <1>4, ThreadsAloneLeave
<1>5. CASE UNCHANGED <<owner, alone, answered, response, callback>>
  BY <1>5
<1> QED  BY <1>1, <1>2, <1>3, <1>4, <1>5, HistoryLeft DEF IInv

LEMMA MineLeft ==
    ASSUME NEW r \in Request, ~(StoreRefs /\ sending = r), ~(Return /\ callback = r),
           [Next]_vars
    PROVE  r \in mine' <=> r \in mine
<1>1. ASSUME NEW c \in Client, GetInstance(c)
      PROVE  mine' = mine
  BY <1>1 DEF GetInstance, counts
<1>2. ASSUME NEW s \in Request, Send(s) \/ SendImmediate(s)
      PROVE  mine' = mine
  BY <1>2 DEF Send, SendImmediate
<1>3. CASE StoreRefs \/ Return
  BY <1>3 DEF StoreRefs, Return
<1>4. CASE DestroyInstance \/ NotifySent \/ LoadRefs \/ DetachScheduler \/ PushSentinel
           \/ NotifySentinel \/ LeaveClient \/ RunFunction \/ UNCHANGED vars
  BY <1>4 DEF DestroyInstance, NotifySent, LoadRefs, DetachScheduler, PushSentinel,
     NotifySentinel, LeaveClient, RunFunction, counts, vars
<1> QED  BY <1>1, <1>2, <1>3, <1>4, Steps, ThreadsLeave, ThreadsAloneLeave

(* The owners as a sum, for each way to change one.                        *)
LEMMA OwnersStep ==
    ASSUME NEW r
    PROVE  /\ (r \in mine' <=> r \in mine) /\ (Pending(r)' <=> Pending(r))
              /\ (Queued(r)' <=> Queued(r)) /\ (r \in response' <=> r \in response)
                  => Owners(r)' = Owners(r)
           /\ (r \in mine' <=> r \in mine) /\ Pending(r)' /\ ~Pending(r)
              /\ ~Queued(r) /\ r \notin response
              /\ (Queued(r)' <=> r \notin response')
                  => Owners(r)' = Owners(r) + 2
           /\ r \notin mine' /\ Pending(r) /\ ~Pending(r)'
              /\ (Queued(r)' <=> Queued(r)) /\ r \in response /\ r \notin response'
                  => Owners(r)' = Owners(r) - (IF r \in mine THEN 3 ELSE 2)
           /\ r \notin mine' /\ r \in mine /\ (Pending(r)' <=> Pending(r))
              /\ (Queued(r)' <=> Queued(r)) /\ (r \in response' <=> r \in response)
                  => Owners(r)' = Owners(r) - 1
           /\ (r \in mine' <=> r \in mine) /\ (Pending(r)' <=> Pending(r))
              /\ ~Queued(r)' /\ Queued(r) /\ (r \in response' <=> r \in response)
                  => Owners(r)' = Owners(r) - 1
           /\ (r \in mine' <=> r \in mine) /\ (Pending(r)' <=> Pending(r))
              /\ (Queued(r)' <=> Queued(r)) /\ r \in response' /\ r \notin response
                  => Owners(r)' = Owners(r) + 1
<1> DEFINE a == r \in mine
           b == Pending(r)
           d == Queued(r)
           e == r \in response
<1>1. /\ Owners(r) = Count(a) + Count(b) + Count(d) + Count(e)
      /\ Owners(r)' = Count(a') + Count(b') + Count(d') + Count(e')
  BY DEF Owners
<1>2. /\ a \in BOOLEAN /\ b \in BOOLEAN /\ d \in BOOLEAN /\ e \in BOOLEAN
      /\ a' \in BOOLEAN /\ b' \in BOOLEAN /\ d' \in BOOLEAN /\ e' \in BOOLEAN
  BY DEF Pending, Queued
<1> HIDE DEF a, b, d, e
<1>3. /\ (a' <=> a) /\ (b' <=> b) /\ (d' <=> d) /\ (e' <=> e) => Owners(r)' = Owners(r)
      /\ (a' <=> a) /\ b' /\ ~b /\ ~d /\ ~e /\ (d' <=> ~e') => Owners(r)' = Owners(r) + 2
      /\ ~a' /\ b /\ ~b' /\ (d' <=> d) /\ e /\ ~e'
             => Owners(r)' = Owners(r) - (IF a THEN 3 ELSE 2)
      /\ ~a' /\ a /\ (b' <=> b) /\ (d' <=> d) /\ (e' <=> e) => Owners(r)' = Owners(r) - 1
      /\ (a' <=> a) /\ (b' <=> b) /\ ~d' /\ d /\ (e' <=> e) => Owners(r)' = Owners(r) - 1
      /\ (a' <=> a) /\ (b' <=> b) /\ (d' <=> d) /\ e' /\ ~e => Owners(r)' = Owners(r) + 1
  BY <1>1, <1>2 DEF Count
<1> QED  BY <1>3 DEF a, b, d, e

LEMMA RefsStep ==
    ASSUME IInv, [Next]_vars
    PROVE  RefsExact'
<1>1. /\ TypeOK /\ MainStands /\ AloneStands /\ CallbackStands /\ InRequestQueue
      /\ InThread /\ RegistersExact /\ RefsExact
  BY DEF IInv
<1>2. /\ ThreadTypes /\ RefTypes /\ MainTypes /\ QueueTypes /\ ClientTypes
      /\ None \notin Client /\ None \notin Request
  BY <1>1, TypeParts, HttpClientAssumption
<1>3. SUFFICES ASSUME NEW r \in Request, ~Raced(r)'
               PROVE  refs'[r] = Owners(r)'
  BY DEF RefsExact, Raced
<1>4. ~Raced(r) /\ refs[r] = Owners(r)
  BY <1>1, <1>3, RacedStays DEF RefsExact
<1> DEFINE Mine == r \in mine' <=> r \in mine
           Due == Pending(r)' <=> Pending(r)
           Place == Queued(r)' <=> Queued(r)
           Responded == r \in response' <=> r \in response
<1>5. owner[r] = None => ~Pending(r) /\ ~Queued(r) /\ r \notin response /\ r \in mine
  <2>1. ASSUME owner[r] = None, NEW c \in Client
        PROVE  ~(r \in ToSet(requestQueue[c])) /\ ~(net[c] = "erase" /\ request[c] = r)
    BY <1>1, <1>2, <2>1 DEF InRequestQueue, InThread, Unanswered, Holding
  <2> QED  BY <1>1, <2>1 DEF Pending, Queued, AloneStands
<1>6. CASE Send(r)
  <2>1. owner[r] = None /\ instance \in Client
    BY <1>2, <1>6 DEF Send, ClientTypes
  <2>2. /\ refs'[r] = refs[r] + 2 /\ owner'[r] # None /\ mine' = mine
        /\ response' = response /\ UNCHANGED answered
        /\ requestQueue'[instance] = Append(requestQueue[instance], r)
    BY <1>2, <1>6, <2>1 DEF Send, RefTypes, ThreadTypes, QueueTypes
  <2>3. r \in ToSet(Append(requestQueue[instance], r))
    <3> DEFINE q == requestQueue[instance]
    <3>1. q \in Seq(Request \cup {Sentinel})
      BY <1>2, <2>1 DEF QueueTypes
    <3>2. ToSet(Append(q, r)) = ToSet(q) \cup {r}
      BY <3>1, AppendParts
    <3> QED  BY <3>2
  <2>4. Queued(r)'
    <3>1. PICK c \in Client : c = instance
      BY <2>1
    <3>2. r \in ToSet(requestQueue'[c])
      BY <2>2, <2>3, <3>1
    <3> QED  BY <3>2 DEF Queued
  <2>5. Pending(r)'
    <3>1. r \notin ToSet(answered)
      BY <1>1, <2>1 DEF AloneStands
    <3> QED  BY <2>2, <3>1 DEF Pending
  <2>6. Owners(r)' = Owners(r) + 2
    BY <1>5, <2>1, <2>2, <2>4, <2>5, OwnersStep
  <2> QED  BY <1>4, <2>2, <2>6
<1>7. CASE SendImmediate(r)
  <2>1. owner[r] = None /\ instance \in Client
    BY <1>2, <1>7 DEF SendImmediate, ClientTypes
  <2>2. /\ refs'[r] = refs[r] + 2 /\ owner'[r] # None /\ mine' = mine
        /\ r \in response' /\ UNCHANGED answered
    BY <1>2, <1>7, <2>1 DEF SendImmediate, RefTypes, ThreadTypes, history
  <2>3. ~Queued(r)'
    <3>1. ~Send(r) /\ ~\E c \in Client : EraseRequest(c) /\ request[c] = r
      <4>1. ~Send(r)
        BY <1>2, <1>7, <2>1 DEF Send, SendImmediate, history, QueueTypes, queues
      <4>2. \A c \in Client : EraseRequest(c) /\ request[c] = r => owner[r] # None
        <5>1. \A c \in Client : EraseRequest(c) => Holding(c)
          BY DEF EraseRequest, Holding
        <5> QED  BY <5>1, Held
      <4> QED  BY <2>1, <4>1, <4>2
    <3> QED  BY <1>5, <2>1, <3>1, QueuedLeft
  <2>4. Pending(r)'
    <3>1. r \notin ToSet(answered)
      BY <1>1, <2>1 DEF AloneStands
    <3> QED  BY <2>2, <3>1 DEF Pending
  <2>5. Owners(r)' = Owners(r) + 2
    BY <1>5, <2>1, <2>2, <2>3, <2>4, OwnersStep
  <2> QED  BY <1>4, <2>2, <2>5
<1>8. CASE StoreRefs /\ sending = r
  <2>1. /\ refs'[r] = register[None] - 1 /\ mine' = mine \ {r} /\ r \in mine
        /\ register[None] = refs[r]
        /\ UNCHANGED <<clients, queues, threads, response, closing, callback, history>>
    BY <1>1, <1>2, <1>4, <1>8 DEF StoreRefs, RefTypes, MainStands, RegistersExact
  <2>2. Due /\ Place /\ Responded
    BY <2>1 DEF Pending, Queued, queues, threads, history
  <2>3. Owners(r)' = Owners(r) - 1
    BY <2>1, <2>2, OwnersStep
  <2> QED  BY <1>4, <2>1, <2>3
<1>9. CASE Return /\ callback = r
  <2>1. /\ refs'[r] = refs[r] - (IF r \in mine THEN 3 ELSE 2)
        /\ r \notin mine' /\ r \in response /\ r \notin response'
        /\ r \in ToSet(answered) /\ callback' = None
        /\ UNCHANGED <<queues, threads, history>>
    BY <1>1, <1>2, <1>9 DEF Return, RefTypes, CallbackStands
  <2>2. Pending(r)
    BY <1>1, <1>9, <2>1 DEF Pending, AloneStands
  <2>3. ~Pending(r)'
    BY <1>2, <2>1 DEF Pending, history
  <2>4. Place
    BY <2>1 DEF Queued, queues, threads
  <2>5. Owners(r)' = Owners(r) - (IF r \in mine THEN 3 ELSE 2)
    BY <2>1, <2>2, <2>3, <2>4, OwnersStep
  <2> QED  BY <1>4, <2>1, <2>5
<1>10. ASSUME NEW c \in Client, EraseRequest(c), request[c] = r
       PROVE  refs'[r] = Owners(r)'
  <2>1. net[c] = "erase" /\ Holding(c)
    BY <1>10 DEF EraseRequest, Holding
  <2>2. /\ \A d \in Client : r \notin ToSet(requestQueue[d])
        /\ \A d \in Client : Holding(d) /\ request[d] = r => d = c
    BY <1>10, <2>1, Held
  <2>3. /\ refs'[r] = refs[r] - 1 /\ net'[c] # "erase"
        /\ \A d \in Client : d # c => net'[d] = net[d]
        /\ UNCHANGED <<requestQueue, request, owner, callback, response, mine, answered>>
    BY <1>1, <1>2, <1>4, <1>10, <2>1
       DEF EraseRequest, RegistersExact, RefTypes, ThreadTypes, queues, mained, history
  <2>4. Queued(r)
    BY <1>10, <2>1 DEF Queued
  <2>5. ~Queued(r)'
    BY <2>2, <2>3 DEF Queued, Holding
  <2>6. Due
    BY <2>3 DEF Pending
  <2>7. Owners(r)' = Owners(r) - 1
    BY <2>3, <2>4, <2>5, <2>6, OwnersStep
  <2> QED  BY <1>4, <2>3, <2>7
<1>11. ASSUME NEW c \in Client, NewResponse(c), request[c] = r
       PROVE  refs'[r] = Owners(r)'
  <2>1. net[c] = "retain" /\ Holding(c)
    BY <1>11 DEF NewResponse, Holding
  <2>2. r \notin response
    BY <1>1, <1>11, <2>1 DEF InThread
  <2>3. /\ refs'[r] = refs[r] + 1 /\ r \in response'
        /\ UNCHANGED <<owner, callback, mine, answered>>
    BY <1>1, <1>2, <1>4, <1>11, <2>1
       DEF NewResponse, RegistersExact, RefTypes, mained, history
  <2>4. Place
    <3>1. ~Send(r) /\ ~\E d \in Client : EraseRequest(d) /\ request[d] = r
      <4>1. ~Send(r)
        BY <1>1, <1>2, <1>11, <2>1 DEF Send, InThread, Unanswered
      <4>2. \A d \in Client : EraseRequest(d) => Holding(d) /\ net[d] = "erase"
        BY DEF EraseRequest, Holding
      <4>3. \A d \in Client : Holding(d) /\ request[d] = r => d = c
        BY <1>11, <2>1, Held
      <4> QED  BY <2>1, <4>1, <4>2, <4>3
    <3> QED  BY <3>1, QueuedLeft
  <2>5. Due
    BY <2>3 DEF Pending
  <2>6. Owners(r)' = Owners(r) + 1
    BY <2>2, <2>3, <2>4, <2>5, OwnersStep
  <2> QED  BY <1>4, <2>3, <2>6
<1>12. ASSUME ~Send(r), ~SendImmediate(r), ~(StoreRefs /\ sending = r),
              ~(Return /\ callback = r),
              ~\E c \in Client : (EraseRequest(c) \/ NewResponse(c)) /\ request[c] = r
       PROVE  refs'[r] = Owners(r)'
  <2>1. refs'[r] = refs[r]
    BY <1>12, RefsLeft
  <2>2. Mine /\ Due /\ Place /\ Responded
    BY <1>12, MineLeft, PendingLeft, QueuedLeft, ResponseLeft
  <2>3. Owners(r)' = Owners(r)
    BY <2>2, OwnersStep
  <2> QED  BY <1>4, <2>1, <2>3
<1> QED  BY <1>6, <1>7, <1>8, <1>9, <1>10, <1>11, <1>12

-----------------------------------------------------------------------------
(* Theorems.                                                               *)

LEMMA InitIInv == Init => IInv
<1> SUFFICES ASSUME Init
             PROVE  IInv
  OBVIOUS
<1>1. None \notin Client /\ None \notin Request
  BY HttpClientAssumption
<1>2. TypeOK
  BY DEF Init, TypeOK
<1>3. MainStands
  BY DEF Init, MainStands
<1>4. CountExact
  <2>1. ASSUME NEW c \in Client
        PROVE  Working(c) = 0
    <3>1. c \notin {instance, closing} /\ ~NetCounted(c) /\ AloneCounted(c) = {}
      BY <1>1, <2>1 DEF Init, NetCounted, AloneCounted
    <3> QED  BY <3>1, FS_EmptySet DEF Working, Count
  <2> QED  BY <2>1, WorkingNat DEF Init, Alive
<1>5. InRequestQueue /\ SentinelLast /\ InThread /\ InResponseQueue
  BY EmptyQueue DEF Init, InRequestQueue, SentinelLast, InThread, InResponseQueue, Holding
<1>6. AloneStands /\ CallbackStands /\ RegistersExact
  BY EmptyQueue DEF Init, AloneStands, CallbackStands, RegistersExact
<1>7. RefsExact
  <2>1. ASSUME NEW r \in Request
        PROVE  Owners(r) = 1
    <3>1. r \in mine /\ ~Pending(r) /\ ~Queued(r) /\ r \notin response
      BY <1>1, EmptyQueue DEF Init, Pending, Queued
    <3> QED  BY <3>1 DEF Owners, Count
  <2> QED  BY <2>1 DEF Init, RefsExact
<1> QED  BY <1>2, <1>3, <1>4, <1>5, <1>6, <1>7 DEF IInv

(* IInv holds in every state that the threads and the main thread reach.   *)
THEOREM Invariance == Spec => []IInv
<1>1. IInv /\ [Next]_vars => IInv'
  <2> SUFFICES ASSUME IInv, [Next]_vars
               PROVE  IInv'
    OBVIOUS
  <2>1. TypeOK' /\ MainStands' /\ CountExact' /\ SentinelLast'
    BY TypeStep, MainStandsStep, CountStep, SentinelLastStep DEF IInv
  <2>2. InRequestQueue' /\ InThread' /\ InResponseQueue'
    BY InRequestQueueStep, InThreadStep, InResponseQueueStep
  <2>3. AloneStands' /\ CallbackStands' /\ RegistersExact' /\ RefsExact'
    BY AloneStandsStep, CallbackStandsStep, RegistersStep, RefsStep
  <2> QED  BY <2>1, <2>2, <2>3 DEF IInv
<1> QED  BY <1>1, InitIInv, PTL DEF Spec

(* Every variable keeps its range: no count of a client becomes negative.  *)
THEOREM TypeCorrect == Spec => []TypeOK
<1>1. IInv => TypeOK
  BY DEF IInv
<1> QED  BY <1>1, Invariance, PTL

(* _threadCount counts the main thread and the threads that have counted   *)
(* themselves, and the client is deleted by the one that leaves last.      *)
THEOREM CountsAreExact == Spec => []CountExact
<1>1. IInv => CountExact
  BY DEF IInv
<1> QED  BY <1>1, Invariance, PTL

(* _referenceCount is the number of the owners of a request, whatever the  *)
(* threads do, unless its sender releases it right after send.             *)
THEOREM RefsAreExact == Spec => []RefsExact
<1>1. IInv => RefsExact
  BY DEF IInv
<1> QED  BY <1>1, Invariance, PTL
-----------------------------------------------------------------------------
(* The order of requests.                                                  *)

(* What follows beyond T follows beyond more.                              *)
LEMMA FollowsMore ==
    ASSUME NEW s, NEW q, NEW T, NEW U, Follows(s, q, T),
           \A i \in DOMAIN s : s[i] \in T => s[i] \in U
    PROVE  Follows(s, q, U)
BY DEF Follows

LEMMA FollowsNothing ==
    ASSUME NEW s, NEW T
    PROVE  Follows(s, <<>>, T)
BY EmptyQueue DEF Follows

(* Whose predecessors are in the queue or in T may be put behind it.       *)
LEMMA FollowsAppend ==
    ASSUME NEW S, NEW s \in Seq(S), NEW Q, NEW q \in Seq(Q), NEW e \in Q, NEW T,
           Follows(s, q, T),
           \A i, j \in DOMAIN s : i < j /\ s[j] = e => s[i] \in T \cup ToSet(q)
    PROVE  Follows(s, Append(q, e), T)
<1> DEFINE t == Append(q, e)
<1>1. /\ DOMAIN t = DOMAIN q \cup {Len(q) + 1}
      /\ \A i \in DOMAIN q : t[i] = q[i]
      /\ t[Len(q) + 1] = e
  BY AppendParts
<1>2. DOMAIN q = 1..Len(q) /\ Len(q) \in Nat
  OBVIOUS
<1> HIDE DEF t
<1>3. ASSUME NEW i \in DOMAIN s, NEW j \in DOMAIN s, NEW k \in DOMAIN t,
             i < j, t[k] = s[j], s[i] \notin T
      PROVE  \E l \in 1..(k - 1) : t[l] = s[i]
  <2>1. CASE k \in DOMAIN q
    <3>1. PICK l \in 1..(k - 1) : q[l] = s[i]
      BY <1>1, <1>3, <2>1 DEF Follows
    <3>2. l \in DOMAIN q
      BY <1>2, <2>1, <3>1
    <3> QED  BY <1>1, <3>1, <3>2
  <2>2. CASE k = Len(q) + 1
    <3>1. s[i] \in ToSet(q)
      BY <1>1, <1>3, <2>2
    <3>2. PICK l \in DOMAIN q : q[l] = s[i]
      BY <3>1 DEF ToSet
    <3>3. l \in 1..(k - 1)
      BY <1>2, <2>2, <3>2
    <3> QED  BY <1>1, <3>2, <3>3
  <2> QED  BY <1>1, <2>1, <2>2
<1> QED  BY <1>3 DEF Follows, t

(* The first of a queue has its predecessors in T, and the rest follows    *)
(* beyond T and it.                                                        *)
LEMMA FollowsTail ==
    ASSUME NEW s, NEW Q, NEW q \in Seq(Q), q # <<>>, NEW T, Follows(s, q, T)
    PROVE  /\ \A i, j \in DOMAIN s : i < j /\ s[j] = Head(q) => s[i] \in T
           /\ Follows(s, Tail(q), T \cup {Head(q)})
<1> DEFINE t == Tail(q)
           h == Head(q)
<1>1. /\ h = q[1] /\ 1 \in DOMAIN q
      /\ \A i \in DOMAIN t : /\ i + 1 \in DOMAIN q /\ i \in Int /\ t[i] = q[i + 1]
  BY TailParts
<1>2. /\ DOMAIN q = 1..Len(q) /\ Len(q) \in Nat /\ DOMAIN t = 1..(Len(q) - 1)
  OBVIOUS
<1> HIDE DEF t, h
<1>3. ASSUME NEW i \in DOMAIN s, NEW j \in DOMAIN s, i < j, s[j] = h
      PROVE  s[i] \in T
  BY <1>1, <1>3 DEF Follows
<1>4. ASSUME NEW i \in DOMAIN s, NEW j \in DOMAIN s, NEW k \in DOMAIN t,
             i < j, t[k] = s[j], s[i] \notin T \cup {h}
      PROVE  \E l \in 1..(k - 1) : t[l] = s[i]
  <2>1. k + 1 \in DOMAIN q /\ q[k + 1] = s[j]
    BY <1>1, <1>4
  <2>2. PICK l \in 1..((k + 1) - 1) : q[l] = s[i]
    BY <1>4, <2>1 DEF Follows
  <2>3. l # 1
    BY <1>1, <1>4, <2>2
  <2>4. l - 1 \in 1..(k - 1) /\ l - 1 \in DOMAIN t /\ (l - 1) + 1 = l
    BY <1>2, <1>4, <2>2, <2>3
  <2>5. t[l - 1] = q[l]
    BY <1>1, <2>4
  <2> QED  BY <2>2, <2>4, <2>5
<1> QED  BY <1>3, <1>4 DEF Follows, t, h

(* One element that has its predecessors in T follows.                     *)
LEMMA FollowsOne ==
    ASSUME NEW s, NEW e, NEW T, \A i, j \in DOMAIN s : i < j /\ s[j] = e => s[i] \in T
    PROVE  Follows(s, <<e>>, T)
<1>1. DOMAIN <<e>> = {1} /\ <<e>>[1] = e
  OBVIOUS
<1> QED  BY <1>1 DEF Follows

(* What is sent last is not in the queue yet.                              *)
LEMMA FollowsSent ==
    ASSUME NEW S, NEW s \in Seq(S), NEW e \in S, NEW q, NEW T, e \notin ToSet(q), Follows(s, q, T)
    PROVE  Follows(Append(s, e), q, T)
<1> DEFINE u == Append(s, e)
<1>1. /\ DOMAIN u = DOMAIN s \cup {Len(s) + 1}
      /\ \A i \in DOMAIN s : u[i] = s[i]
      /\ u[Len(s) + 1] = e
  BY AppendParts
<1>2. DOMAIN s = 1..Len(s) /\ Len(s) \in Nat
  OBVIOUS
<1> HIDE DEF u
<1>3. ASSUME NEW i \in DOMAIN u, NEW j \in DOMAIN u, NEW k \in DOMAIN q, i < j, q[k] = u[j]
      PROVE  u[i] \in T \/ \E l \in 1..(k - 1) : q[l] = u[i]
  <2>1. q[k] \in ToSet(q)
    BY DEF ToSet
  <2>2. j \in DOMAIN s
    BY <1>1, <1>3, <2>1
  <2>3. i \in DOMAIN s
    BY <1>1, <1>2, <1>3, <2>2
  <2> QED  BY <1>1, <1>3, <2>2, <2>3 DEF Follows
<1> QED  BY <1>3 DEF Follows, u

(* No request of the client is in the queue.                               *)
LEMMA FollowsOthers ==
    ASSUME NEW s, NEW q, NEW T, \A j \in DOMAIN s : s[j] \notin ToSet(q)
    PROVE  Follows(s, q, T)
<1>1. \A k \in DOMAIN q : q[k] \in ToSet(q)
  BY DEF ToSet
<1> QED  BY <1>1 DEF Follows


(* Which steps move a request on.                                          *)
Still == /\ UNCHANGED <<answered, sent, responseQueue, requestQueue>>
         /\ \A c \in Client : InHand(c)' = InHand(c) /\ Queueing(c)' = Queueing(c)

LEMMA QueueingLeft ==
    ASSUME TypeOK, AloneStands, [Next]_vars
    PROVE  \/ \E r \in Request : Send(r)
           \/ \A c \in Client : Queueing(c)' = Queueing(c)
<1>1. ThreadTypes /\ None \notin Client
  BY TypeParts, HttpClientAssumption
<1>2. ASSUME NEW r \in Request, SendImmediate(r) \/ CountAlone(r) \/ PostAlone(r) \/ LeaveAlone(r)
      PROVE  \A c \in Client : Queueing(c)' = Queueing(c)
  <2>1. \A s \in Request \ {r} : owner'[s] = owner[s] /\ alone'[s] = alone[s]
    BY <1>1, <1>2 DEF SendImmediate, CountAlone, PostAlone, LeaveAlone, ThreadTypes
  <2>2. alone'[r] # "none" /\ (alone[r] # "none" \/ owner[r] = None)
    BY <1>1, <1>2 DEF SendImmediate, CountAlone, PostAlone, LeaveAlone, ThreadTypes
  <2> QED  BY <1>1, <2>1, <2>2 DEF Queueing
<1>3. CASE RunFunction \/ Return
  <2>1. UNCHANGED <<owner, alone>>
    BY <1>3 DEF RunFunction, Return, threads
  <2> QED  BY <2>1 DEF Queueing
<1>4. ASSUME NEW c \in Client, NewResponse(c)
      PROVE  \A d \in Client : Queueing(d)' = Queueing(d)
  BY <1>4 DEF NewResponse, Queueing
<1>5. CASE UNCHANGED <<owner, alone, answered, response, callback>>
  BY <1>5 DEF Queueing
<1> QED  BY <1>2, <1>3, <1>4, <1>5, HistoryLeft

LEMMA OrderLeft ==
    ASSUME TypeOK, AloneStands, [Next]_vars
    PROVE  \/ \E r \in Request : Send(r)
           \/ RunFunction \/ PushSentinel
           \/ \E c \in Client : TakeRequest(c) \/ PushResponse(c) \/ ClearQueues(c)
           \/ Still
<1>1. ThreadTypes
  BY TypeParts
<1> DEFINE Goal == /\ UNCHANGED <<answered, sent, responseQueue, requestQueue>>
                   /\ \A c \in Client : InHand(c)' = InHand(c)
<1>2. ASSUME NEW c \in Client,
             \/ WakeSpuriously(c) \/ CountNetworkThread(c) \/ Wait(c)
             \/ EraseRequest(c) \/ LoadForResponse(c) \/ NewResponse(c)
             \/ PostDispatch(c) \/ LeaveNetworkThread(c)
      PROVE  Goal
  <2>1. UNCHANGED <<answered, sent, responseQueue, requestQueue, request>>
    BY <1>2 DEF WakeSpuriously, CountNetworkThread, Wait, EraseRequest, LoadForResponse,
                NewResponse, PostDispatch, LeaveNetworkThread, queues, history
  <2>2. ASSUME NEW d \in Client PROVE Holding(d)' = Holding(d)
    BY <1>1, <1>2 DEF WakeSpuriously, CountNetworkThread, Wait, EraseRequest, LoadForResponse,
                NewResponse, PostDispatch, LeaveNetworkThread, ThreadTypes, Holding
  <2> QED  BY <2>1, <2>2 DEF InHand
<1>3. ASSUME NEW c \in Client, GetInstance(c)
      PROVE  Goal
  BY <1>3 DEF GetInstance, queues, threads, history, InHand, Holding
<1>4. ASSUME NEW r \in Request, SendImmediate(r) \/ CountAlone(r) \/ PostAlone(r) \/ LeaveAlone(r)
      PROVE  Goal
  BY <1>4 DEF SendImmediate, CountAlone, PostAlone, LeaveAlone, queues, history, InHand, Holding
<1>5. ASSUME NotifySent \/ NotifySentinel
      PROVE  Goal
  <2>1. UNCHANGED <<answered, sent, responseQueue, requestQueue, request>>
    BY <1>5 DEF NotifySent, NotifySentinel, queues, history
  <2>2. ASSUME NEW d \in Client PROVE Holding(d)' = Holding(d)
    BY <1>1, <1>5 DEF NotifySent, NotifySentinel, Notify, ThreadTypes, Holding
  <2> QED  BY <2>1, <2>2 DEF InHand
<1>6. ASSUME \/ DestroyInstance \/ LoadRefs \/ StoreRefs \/ DetachScheduler \/ LeaveClient
             \/ Return \/ UNCHANGED vars
      PROVE  Goal
  BY <1>6 DEF DestroyInstance, LoadRefs, StoreRefs, DetachScheduler, LeaveClient, Return,
              queues, threads, history, vars, InHand, Holding
<1> HIDE DEF Goal
<1>7. \/ \E r \in Request : Send(r)
      \/ RunFunction \/ PushSentinel
      \/ \E c \in Client : TakeRequest(c) \/ PushResponse(c) \/ ClearQueues(c)
      \/ Goal
  BY <1>2, <1>3, <1>4, <1>5, <1>6, Steps
<1> QED  BY <1>7, QueueingLeft DEF Goal, Still

(* A client none of whose requests moves.                                  *)
LEMMA InLineLeft ==
    ASSUME TypeOK, MainStands, [Next]_vars, NEW c \in Client, InLine(c),
           sent'[c] = sent[c], requestQueue'[c] = requestQueue[c],
           responseQueue'[c] = responseQueue[c], InHand(c)' = InHand(c),
           Queueing(c)' = Queueing(c), Follows(sent[c], answered', {}),
           ToSet(answered) \subseteq ToSet(answered')
    PROVE  InLine(c)'
<1>1. Arrived(c) \subseteq Arrived(c)' /\ Handled(c) \subseteq Handled(c)'
  BY DEF Arrived, Handled
<1>2. Follows(sent[c], responseQueue[c], ToSet(answered'))
  BY FollowsMore DEF InLine
<1>3. Follows(sent[c], InHand(c), Arrived(c)')
  BY <1>1, FollowsMore DEF InLine
<1>4. Follows(sent[c], requestQueue[c], Handled(c)')
  BY <1>1, FollowsMore DEF InLine
<1>5. ~ Dismissed(c)' => ToSet(sent[c]) \subseteq Handled(c)' \cup ToSet(requestQueue[c])
  BY <1>1, DismissedStays DEF InLine
<1>6. ToSet(sent[c]) = Queueing(c)'
  BY DEF InLine
<1> HIDE DEF Handled, Arrived
<1> QED  BY <1>2, <1>3, <1>4, <1>5, <1>6 DEF InLine

LEMMA OrderTypes ==
    ASSUME TypeOK, NEW c \in Client
    PROVE  /\ sent[c] \in Seq(Request) /\ responseQueue[c] \in Seq(Request)
           /\ requestQueue[c] \in Seq(Request \cup {Sentinel}) /\ answered \in Seq(Request)
           /\ \A i \in DOMAIN sent[c] : sent[c][i] \in Request /\ sent[c][i] \in ToSet(sent[c])
           /\ Holding(c) => InHand(c) = <<request[c]>>
           /\ ~ Holding(c) => InHand(c) = <<>>
           /\ \A e : ToSet(<<e>>) = {e}
<1>1. \A e : DOMAIN <<e>> = {1} /\ <<e>>[1] = e
  OBVIOUS
<1>2. \A e : ToSet(<<e>>) = {e}
  BY <1>1 DEF ToSet
<1>3. /\ sent[c] \in Seq(Request) /\ responseQueue[c] \in Seq(Request)
      /\ requestQueue[c] \in Seq(Request \cup {Sentinel}) /\ answered \in Seq(Request)
  BY TypeParts DEF QueueTypes
<1>4. \A i \in DOMAIN sent[c] : sent[c][i] \in Request /\ sent[c][i] \in ToSet(sent[c])
  BY <1>3 DEF ToSet
<1> QED  BY <1>2, <1>3, <1>4 DEF InHand

(* Send appends to both what was sent and the queue.                       *)
LEMMA SendInOrder ==
    ASSUME IInv, OrderInv, NEW r \in Request, Send(r), [Next]_vars, NEW c \in Client
    PROVE  InLine(c)'
<1>1. /\ TypeOK /\ MainStands /\ AloneStands /\ InRequestQueue /\ InThread /\ InResponseQueue
      /\ InLine(c)
  BY DEF IInv, OrderInv
<1>2. /\ instance \in Client /\ owner[r] = None /\ None \notin Client
      /\ answered' = answered /\ responseQueue' = responseQueue /\ request' = request
      /\ alone' = alone
  BY <1>1, TypeParts, HttpClientAssumption DEF Send, ClientTypes, history
<1>3. ThreadTypes /\ QueueTypes
  BY <1>1, TypeParts
<1>4. InHand(c)' = InHand(c)
  <2>1. Holding(c)' = Holding(c)
    BY <1>3 DEF Send, ThreadTypes, Holding
  <2> QED  BY <1>2, <2>1 DEF InHand
<1>5. /\ r \notin ToSet(answered) /\ r \notin ToSet(responseQueue[c])
      /\ r \notin ToSet(InHand(c)) /\ r \notin ToSet(requestQueue[c]) /\ alone[r] = "none"
  <2>1. r \notin ToSet(answered) /\ alone[r] = "none"
    BY <1>1, <1>2 DEF AloneStands
  <2>2. r \notin ToSet(responseQueue[c]) /\ r \notin ToSet(requestQueue[c])
    BY <1>1, <1>2 DEF InResponseQueue, InRequestQueue, Unanswered
  <2>3. r \notin ToSet(InHand(c))
    BY <1>1, <1>2, OrderTypes, EmptyQueue DEF InThread, Unanswered
  <2> QED  BY <2>1, <2>2, <2>3
<1>6. CASE c # instance
  <2>1. sent'[c] = sent[c] /\ requestQueue'[c] = requestQueue[c]
    BY <1>2, <1>3, <1>6 DEF Send, QueueTypes
  <2>2. Queueing(c)' = Queueing(c)
    BY <1>2, <1>3, <1>6 DEF Send, ThreadTypes, Queueing
  <2>3. Follows(sent[c], answered', {}) /\ ToSet(answered) \subseteq ToSet(answered')
    BY <1>1, <1>2 DEF InLine
  <2> QED  BY <1>1, <1>2, <1>4, <2>1, <2>2, <2>3, InLineLeft
<1>7. CASE c = instance
  <2>1. sent'[c] = Append(sent[c], r) /\ requestQueue'[c] = Append(requestQueue[c], r)
    BY <1>2, <1>3, <1>7 DEF Send, QueueTypes
  <2>2. Queueing(c)' = Queueing(c) \cup {r}
    BY <1>2, <1>3, <1>5, <1>7 DEF Send, ThreadTypes, Queueing
  <2>3. PICK s \in Seq(Request) : s = sent[c]
    BY <1>1, OrderTypes
  <2>4. /\ ToSet(Append(s, r)) = ToSet(s) \cup {r}
        /\ DOMAIN Append(s, r) = DOMAIN s \cup {Len(s) + 1}
        /\ \A i \in DOMAIN s : Append(s, r)[i] = s[i] /\ s[i] \in ToSet(s)
        /\ DOMAIN s = 1..Len(s) /\ Len(s) \in Nat /\ Append(s, r) \in Seq(Request)
    BY AppendParts
  <2>5. PICK q \in Seq(Request \cup {Sentinel}) : q = requestQueue[c]
    BY <1>1, OrderTypes
  <2>6. ToSet(Append(q, r)) = ToSet(q) \cup {r}
    BY AppendParts
  <2>7. /\ Follows(Append(s, r), answered, {})
        /\ Follows(Append(s, r), responseQueue[c], ToSet(answered))
        /\ Follows(Append(s, r), InHand(c), Arrived(c))
        /\ Follows(Append(s, r), q, Handled(c))
    BY <1>1, <1>5, <2>3, <2>5, FollowsSent DEF InLine
  <2>8. ToSet(s) \subseteq Handled(c) \cup ToSet(q)
    BY <1>1, <1>7, <2>3, <2>5 DEF InLine, Dismissed
  <2>9. ASSUME NEW i \in DOMAIN Append(s, r), NEW j \in DOMAIN Append(s, r), i < j
        PROVE  Append(s, r)[i] \in Handled(c) \cup ToSet(q)
    <3>1. i \in DOMAIN s
      BY <2>4, <2>9
    <3> QED  BY <2>4, <2>8, <3>1
  <2>10. Follows(Append(s, r), Append(q, r), Handled(c))
    BY <2>4, <2>7, <2>9, FollowsAppend
  <2>11. Arrived(c)' = Arrived(c) /\ Handled(c)' = Handled(c)
    BY <1>2, <1>4 DEF Arrived, Handled
  <2> QED  BY <1>1, <1>2, <1>4, <2>1, <2>2, <2>3, <2>4, <2>5, <2>6, <2>7, <2>8, <2>10, <2>11
           DEF InLine
<1> QED  BY <1>6, <1>7

(* An answer to another client, or to a request with a thread of its own,  *)
(* leaves the order of this one's.                                         *)
LEMMA AnsweredOther ==
    ASSUME TypeOK, NEW c \in Client, InLine(c), NEW r \in Request, r \notin Queueing(c),
           answered' = Append(answered, r)
    PROVE  Follows(sent[c], answered', {}) /\ ToSet(answered) \subseteq ToSet(answered')
<1>1. PICK s \in Seq(Request) : s = sent[c]
  BY OrderTypes
<1>2. answered \in Seq(Request) /\ \A j \in DOMAIN s : s[j] \in ToSet(s)
  BY <1>1, OrderTypes
<1>3. Follows(s, answered, {}) /\ ToSet(s) = Queueing(c)
  BY <1>1 DEF InLine
<1>4. \A i, j \in DOMAIN s : i < j /\ s[j] = r => s[i] \in {} \cup ToSet(answered)
  BY <1>2, <1>3
<1>5. Follows(s, Append(answered, r), {})
  BY <1>2, <1>3, <1>4, FollowsAppend
<1>6. ToSet(Append(answered, r)) = ToSet(answered) \cup {r}
  BY <1>2, AppendParts
<1> QED  BY <1>1, <1>5, <1>6

(* The first response becomes the last answer.                             *)
LEMMA AnswerInOrder ==
    ASSUME IInv, OrderInv, RunFunction, [Next]_vars, NEW c \in Client
    PROVE  InLine(c)'
<1>1. /\ TypeOK /\ MainStands /\ InResponseQueue /\ AloneStands /\ InLine(c)
  BY DEF IInv, OrderInv
<1>2. UNCHANGED <<requestQueue, net, request, alone, owner, sent>>
  BY <1>1, FunctionRuns DEF threads
<1>3. InHand(c)' = InHand(c) /\ Queueing(c)' = Queueing(c)
  BY <1>2 DEF InHand, Holding, Queueing
<1>4. ASSUME responseQueue'[c] = responseQueue[c], Follows(sent[c], answered', {}),
             ToSet(answered) \subseteq ToSet(answered')
      PROVE  InLine(c)'
  BY <1>1, <1>2, <1>3, <1>4, InLineLeft
<1>5. ASSUME NEW r \in Request, CalledAlone(r)
      PROVE  InLine(c)'
  <2>1. functions \in Seq([client : Client, request : Request \cup {None}])
    BY <1>1, TypeParts DEF QueueTypes
  <2>2. 1 \in DOMAIN functions /\ functions[1].request = r /\ r # None
    BY <1>5, <2>1, TailParts DEF CalledAlone
  <2>3. alone[r] # "none"
    BY <1>1, <2>2 DEF AloneStands
  <2>4. r \notin Queueing(c) /\ answered' = Append(answered, r) /\ UNCHANGED responseQueue
    BY <1>5, <2>3 DEF Queueing, CalledAlone
  <2> QED  BY <1>1, <1>4, <2>4, AnsweredOther
<1>6. ASSUME NEW r \in Request, Called(r)
      PROVE  InLine(c)'
  <2>1. PICK d \in Client : /\ responseQueue[d] # <<>>
                            /\ r = Head(responseQueue[d])
                            /\ responseQueue' = [responseQueue EXCEPT ![d] = Tail(@)]
                            /\ answered' = Append(answered, r)
    BY <1>6 DEF Called
  <2>2. PICK q \in Seq(Request) : q = responseQueue[d]
    BY <1>1, OrderTypes
  <2>3. ToSet(q) = ToSet(Tail(q)) \cup {r}
    BY <2>1, <2>2, TailParts
  <2>4. /\ responseQueue'[d] = Tail(q)
        /\ \A e \in Client : e # d => responseQueue'[e] = responseQueue[e]
    BY <1>1, <2>1, <2>2, TypeParts DEF QueueTypes
  <2>5. CASE c # d
    <3>1. owner[r] = d
      BY <1>1, <2>2, <2>3 DEF InResponseQueue, Unanswered
    <3>2. r \notin Queueing(c)
      BY <2>5, <3>1 DEF Queueing
    <3> QED  BY <1>1, <1>4, <2>1, <2>4, <2>5, <3>2, AnsweredOther
  <2>6. CASE c = d
    <3>1. PICK s \in Seq(Request) : s = sent[c]
      BY <1>1, OrderTypes
    <3>2. /\ Follows(s, answered, {}) /\ Follows(s, q, ToSet(answered))
          /\ Follows(s, InHand(c), Arrived(c)) /\ Follows(s, requestQueue[c], Handled(c))
          /\ ToSet(s) = Queueing(c)
          /\ ~ Dismissed(c) => ToSet(s) \subseteq Handled(c) \cup ToSet(requestQueue[c])
      BY <1>1, <2>2, <2>6, <3>1 DEF InLine
    <3>3. /\ \A i, j \in DOMAIN s : i < j /\ s[j] = r => s[i] \in {} \cup ToSet(answered)
          /\ Follows(s, Tail(q), ToSet(answered) \cup {r})
      BY <2>1, <2>2, <3>2, FollowsTail
    <3>4. answered \in Seq(Request)
      BY <1>1, OrderTypes
    <3>5. /\ Follows(s, Append(answered, r), {})
          /\ ToSet(Append(answered, r)) = ToSet(answered) \cup {r}
      BY <3>2, <3>3, <3>4, FollowsAppend, AppendParts
    <3>6. Arrived(c)' = Arrived(c)
      BY <2>1, <2>2, <2>3, <2>4, <2>6, <3>5 DEF Arrived
    <3>7. Handled(c)' = Handled(c)
      BY <1>3, <3>6 DEF Handled
    <3>8. ~ Dismissed(c)' => ~ Dismissed(c)
      BY <1>1, DismissedStays
    <3> QED  BY <1>2, <1>3, <2>1, <2>4, <2>6, <3>1, <3>2, <3>3, <3>5, <3>6, <3>7, <3>8 DEF InLine
  <2> QED  BY <2>5, <2>6
<1> QED  BY <1>1, <1>4, <1>5, <1>6, FunctionRuns DEF InLine

(* The first request is taken into the hand of the thread.                 *)
LEMMA TakenInOrder ==
    ASSUME IInv, OrderInv, NEW d \in Client, TakeRequest(d), [Next]_vars, NEW c \in Client
    PROVE  InLine(c)'
<1>1. /\ TypeOK /\ MainStands /\ SentinelLast /\ InLine(c) /\ ThreadTypes /\ QueueTypes
  BY TypeParts DEF IInv, OrderInv
<1>2. /\ UNCHANGED <<responseQueue, sent, answered, owner, alone>>
      /\ requestQueue[d] # <<>> /\ net[d] = "test"
      /\ requestQueue' = [requestQueue EXCEPT ![d] = Tail(@)]
  BY DEF TakeRequest, history
<1>3. Queueing(c)' = Queueing(c)
  BY <1>2 DEF Queueing
<1>4. CASE c # d
  <2>1. requestQueue'[c] = requestQueue[c] /\ net'[c] = net[c] /\ request'[c] = request[c]
    BY <1>1, <1>2, <1>4 DEF TakeRequest, ThreadTypes, QueueTypes
  <2>2. InHand(c)' = InHand(c)
    BY <2>1 DEF InHand, Holding
  <2>3. Follows(sent[c], answered', {})
    BY <1>1, <1>2 DEF InLine
  <2> QED  BY <1>1, <1>2, <1>3, <2>1, <2>2, <2>3, InLineLeft
<1>5. CASE c = d
  <2>1. PICK q \in Seq(Request \cup {Sentinel}) : q = requestQueue[c]
    BY <1>1, OrderTypes
  <2>2. PICK s \in Seq(Request) : s = sent[c]
    BY <1>1, OrderTypes
  <2>3. requestQueue'[c] = Tail(q) /\ q # <<>>
    BY <1>1, <1>2, <1>5, <2>1 DEF QueueTypes
  <2>4. /\ ToSet(q) = ToSet(Tail(q)) \cup {Head(q)} /\ Head(q) = q[1] /\ 1 \in DOMAIN q
        /\ Head(q) \in Request \cup {Sentinel}
    BY <2>3, TailParts
  <2>5. InHand(c) = <<>> /\ Handled(c) = Arrived(c) /\ Arrived(c)' = Arrived(c)
    <3>1. ~Holding(c)
      BY <1>2, <1>5 DEF Holding
    <3>2. InHand(c) = <<>>
      BY <3>1 DEF InHand
    <3> QED  BY <1>2, <3>2, EmptyQueue DEF Handled, Arrived
  <2>6. /\ Follows(s, answered, {}) /\ Follows(s, responseQueue[c], ToSet(answered))
        /\ Follows(s, q, Handled(c)) /\ ToSet(s) = Queueing(c)
        /\ ~ Dismissed(c) => ToSet(s) \subseteq Handled(c) \cup ToSet(q)
    BY <1>1, <2>1, <2>2 DEF InLine
  <2>7. /\ \A i, j \in DOMAIN s : i < j /\ s[j] = Head(q) => s[i] \in Handled(c)
        /\ Follows(s, Tail(q), Handled(c) \cup {Head(q)})
    BY <2>3, <2>6, FollowsTail
  <2>8. ~ Dismissed(c)' => ~ Dismissed(c)
    BY <1>1, DismissedStays
  <2>9. CASE Head(q) = Sentinel
    <3>1. net'[c] = "clear"
      BY <1>1, <1>5, <2>1, <2>9 DEF TakeRequest, ThreadTypes
    <3>2. ~Holding(c)'
      BY <3>1 DEF Holding
    <3>3. InHand(c)' = <<>> /\ Handled(c)' = Handled(c)
      BY <2>5, <3>2, EmptyQueue DEF InHand, Handled
    <3>4. Follows(s, InHand(c)', Arrived(c)')
      BY <3>3, FollowsNothing
    <3>5. \A i \in DOMAIN s : s[i] # Sentinel
      BY <2>2, <1>1, OrderTypes, HttpClientAssumption
    <3>6. Follows(s, Tail(q), Handled(c))
      BY <2>7, <2>9, <3>5, FollowsMore
    <3>7. Dismissed(c)
      BY <1>1, <2>1, <2>4, <2>9 DEF SentinelLast
    <3> QED  BY <1>2, <1>3, <2>2, <2>3, <2>5, <2>6, <2>8, <3>3, <3>4, <3>6, <3>7 DEF InLine
  <2>10. CASE Head(q) # Sentinel
    <3>1. net'[c] = "erase" /\ request'[c] = Head(q)
      BY <1>1, <1>5, <2>1, <2>10 DEF TakeRequest, ThreadTypes
    <3>2. InHand(c)' = <<Head(q)>> /\ ToSet(<<Head(q)>>) = {Head(q)}
      <4>1. Holding(c)'
        BY <3>1 DEF Holding
      <4> QED  BY <1>1, <3>1, <4>1, OrderTypes DEF InHand
    <3>3. Handled(c)' = Handled(c) \cup {Head(q)}
      BY <2>5, <3>2 DEF Handled
    <3>4. Follows(s, InHand(c)', Arrived(c)')
      BY <2>5, <2>7, <3>2, FollowsOne
    <3> QED  BY <1>2, <1>3, <2>2, <2>3, <2>4, <2>5, <2>6, <2>7, <2>8, <3>3, <3>4 DEF InLine
  <2> QED  BY <2>9, <2>10
<1> QED  BY <1>4, <1>5

(* What the thread has in hand becomes the last response.                  *)
LEMMA PushedInOrder ==
    ASSUME IInv, OrderInv, NEW d \in Client, PushResponse(d), [Next]_vars, NEW c \in Client
    PROVE  InLine(c)'
<1>1. /\ TypeOK /\ MainStands /\ InThread /\ InLine(c) /\ ThreadTypes /\ QueueTypes
  BY TypeParts DEF IInv, OrderInv
<1>2. /\ UNCHANGED <<requestQueue, sent, answered, owner, alone>>
      /\ responseQueue' = [responseQueue EXCEPT ![d] = Append(@, request[d])]
      /\ net[d] = "push"
  BY DEF PushResponse, history
<1>3. Queueing(c)' = Queueing(c)
  BY <1>2 DEF Queueing
<1>4. CASE c # d
  <2>1. responseQueue'[c] = responseQueue[c] /\ net'[c] = net[c] /\ request'[c] = request[c]
    BY <1>1, <1>2, <1>4 DEF PushResponse, ThreadTypes, QueueTypes
  <2>2. InHand(c)' = InHand(c)
    BY <2>1 DEF InHand, Holding
  <2>3. Follows(sent[c], answered', {})
    BY <1>1, <1>2 DEF InLine
  <2> QED  BY <1>1, <1>2, <1>3, <2>1, <2>2, <2>3, InLineLeft
<1>5. CASE c = d
  <2>1. PICK q \in Seq(Request) : q = responseQueue[c]
    BY <1>1, OrderTypes
  <2>2. PICK s \in Seq(Request) : s = sent[c]
    BY <1>1, OrderTypes
  <2>3. Holding(c) /\ ~Holding(c)'
    BY <1>1, <1>2, <1>5 DEF PushResponse, ThreadTypes, Holding
  <2>4. PICK r \in Request : r = request[c]
    BY <1>1, <2>3 DEF InThread
  <2>5. InHand(c) = <<r>> /\ ToSet(<<r>>) = {r} /\ InHand(c)' = <<>>
    BY <1>1, <2>3, <2>4, OrderTypes DEF InHand
  <2>6. responseQueue'[c] = Append(q, r) /\ ToSet(Append(q, r)) = ToSet(q) \cup {r}
    <3>1. responseQueue'[c] = Append(q, r)
      BY <1>1, <1>2, <1>5, <2>1, <2>4 DEF QueueTypes
    <3> QED  BY <3>1, AppendParts
  <2>7. Arrived(c)' = Handled(c) /\ Handled(c)' = Handled(c)
    BY <1>2, <2>1, <2>5, <2>6, EmptyQueue DEF Arrived, Handled
  <2>8. /\ Follows(s, answered, {}) /\ Follows(s, q, ToSet(answered))
        /\ Follows(s, <<r>>, Arrived(c)) /\ Follows(s, requestQueue[c], Handled(c))
        /\ ToSet(s) = Queueing(c)
        /\ ~ Dismissed(c) => ToSet(s) \subseteq Handled(c) \cup ToSet(requestQueue[c])
    BY <1>1, <2>1, <2>2, <2>5 DEF InLine
  <2>9. \A i, j \in DOMAIN s : i < j /\ s[j] = r => s[i] \in Arrived(c)
    <3>1. <<r>> \in Seq(Request) /\ <<r>> # <<>> /\ Head(<<r>>) = r
      OBVIOUS
    <3> QED  BY <2>8, <3>1, FollowsTail
  <2>10. Follows(s, Append(q, r), ToSet(answered))
    <3>1. \A i, j \in DOMAIN s : i < j /\ s[j] = r => s[i] \in ToSet(answered) \cup ToSet(q)
      BY <2>1, <2>9 DEF Arrived
    <3> QED  BY <2>8, <3>1, FollowsAppend
  <2>11. ~ Dismissed(c)' => ~ Dismissed(c)
    BY <1>1, DismissedStays
  <2>12. Follows(s, InHand(c)', Arrived(c)')
    BY <2>5, FollowsNothing
  <2> QED  BY <1>2, <1>3, <2>2, <2>6, <2>7, <2>8, <2>10, <2>11, <2>12 DEF InLine
<1> QED  BY <1>4, <1>5

(* A client that is dismissed drops what nobody waits for.                 *)
LEMMA ClearedInOrder ==
    ASSUME IInv, OrderInv, NEW d \in Client, ClearQueues(d), [Next]_vars, NEW c \in Client
    PROVE  InLine(c)'
<1>1. /\ TypeOK /\ MainStands /\ SentinelLast /\ InLine(c) /\ ThreadTypes /\ QueueTypes
  BY TypeParts DEF IInv, OrderInv
<1>2. UNCHANGED <<sent, answered, owner, alone, request>> /\ net[d] = "clear"
  BY DEF ClearQueues, history
<1>3. Queueing(c)' = Queueing(c)
  BY <1>2 DEF Queueing
<1>4. CASE c # d
  <2>1. /\ responseQueue'[c] = responseQueue[c] /\ requestQueue'[c] = requestQueue[c]
        /\ net'[c] = net[c]
    BY <1>1, <1>2, <1>4 DEF ClearQueues, ThreadTypes, QueueTypes
  <2>2. InHand(c)' = InHand(c)
    BY <1>2, <2>1 DEF InHand, Holding
  <2>3. Follows(sent[c], answered', {})
    BY <1>1, <1>2 DEF InLine
  <2> QED  BY <1>1, <1>2, <1>3, <2>1, <2>2, <2>3, InLineLeft
<1>5. CASE c = d
  <2>1. responseQueue'[c] = <<>> /\ requestQueue'[c] = <<>> /\ net'[c] = "leave"
    BY <1>1, <1>5 DEF ClearQueues, ThreadTypes, QueueTypes
  <2>2. ~Holding(c)'
    BY <2>1 DEF Holding
  <2>3. InHand(c)' = <<>>
    BY <2>2 DEF InHand
  <2>4. Dismissed(c)'
    BY <1>1, <1>2, <1>5, DismissedStays DEF SentinelLast
  <2>5. ToSet(sent[c]) = Queueing(c) /\ Follows(sent[c], answered, {})
    BY <1>1 DEF InLine
  <2> QED  BY <1>2, <1>3, <2>1, <2>3, <2>4, <2>5, FollowsNothing DEF InLine
<1> QED  BY <1>4, <1>5

(* The sentinel is nobody's request.                                       *)
LEMMA SentinelInOrder ==
    ASSUME IInv, OrderInv, PushSentinel, [Next]_vars, NEW c \in Client
    PROVE  InLine(c)'
<1>1. /\ TypeOK /\ MainStands /\ InLine(c) /\ QueueTypes
  BY TypeParts DEF IInv, OrderInv
<1>2. /\ UNCHANGED <<sent, answered, owner, alone, request, net, responseQueue>>
      /\ requestQueue' = [requestQueue EXCEPT ![closing] = Append(@, Sentinel)]
  BY DEF PushSentinel, history, threads
<1>3. Queueing(c)' = Queueing(c) /\ InHand(c)' = InHand(c)
  BY <1>2 DEF Queueing, InHand, Holding
<1>4. CASE c # closing
  <2>1. requestQueue'[c] = requestQueue[c]
    BY <1>1, <1>2, <1>4 DEF QueueTypes
  <2>2. Follows(sent[c], answered', {})
    BY <1>1, <1>2 DEF InLine
  <2> QED  BY <1>1, <1>2, <1>3, <2>1, <2>2, InLineLeft
<1>5. CASE c = closing
  <2>1. PICK q \in Seq(Request \cup {Sentinel}) : q = requestQueue[c]
    BY <1>1, OrderTypes
  <2>2. PICK s \in Seq(Request) : s = sent[c]
    BY <1>1, OrderTypes
  <2>3. requestQueue'[c] = Append(q, Sentinel)
    BY <1>1, <1>2, <1>5, <2>1 DEF QueueTypes
  <2>4. ToSet(Append(q, Sentinel)) = ToSet(q) \cup {Sentinel}
    BY AppendParts
  <2>5. \A j \in DOMAIN s : s[j] # Sentinel
    BY <1>1, <2>2, OrderTypes, HttpClientAssumption
  <2>6. Follows(s, q, Handled(c))
    BY <1>1, <2>1, <2>2 DEF InLine
  <2>7. Follows(s, Append(q, Sentinel), Handled(c))
    BY <2>5, <2>6, FollowsAppend
  <2>8. Arrived(c)' = Arrived(c) /\ Handled(c)' = Handled(c)
    BY <1>2, <1>3 DEF Arrived, Handled
  <2>9. ~ Dismissed(c)' => ~ Dismissed(c)
    BY <1>1, DismissedStays
  <2>10. ~ Dismissed(c)' => ToSet(s) \subseteq Handled(c) \cup ToSet(Append(q, Sentinel))
    BY <1>1, <2>1, <2>2, <2>4, <2>9 DEF InLine
  <2> QED  BY <1>1, <1>2, <1>3, <2>2, <2>3, <2>7, <2>8, <2>10 DEF InLine
<1> QED  BY <1>4, <1>5

(* No request is answered twice.                                           *)
LEMMA AnsweredOnce ==
    ASSUME IInv, IsInjective(answered), [Next]_vars
    PROVE  IsInjective(answered')
<1>1. TypeOK /\ AloneStands
  BY DEF IInv
<1>2. answered \in Seq(Request)
  BY <1>1, TypeParts DEF QueueTypes
<1>3. ASSUME NEW r \in Request, Called(r) \/ CalledAlone(r)
      PROVE  IsInjective(answered')
  <2>1. r \notin ToSet(answered) /\ answered' = Append(answered, r)
    BY <1>3, CalledOnce
  <2>2. PICK a \in Seq(Request) : a = answered
    BY <1>2
  <2>3. /\ DOMAIN Append(a, r) = DOMAIN a \cup {Len(a) + 1}
        /\ \A i \in DOMAIN a : Append(a, r)[i] = a[i] /\ a[i] \in ToSet(a)
        /\ Append(a, r)[Len(a) + 1] = r
    BY AppendParts
  <2>4. \A i, j \in DOMAIN a : a[i] = a[j] => i = j
    BY <2>2 DEF IsInjective
  <2>5. \A i, j \in DOMAIN Append(a, r) : Append(a, r)[i] = Append(a, r)[j] => i = j
    BY <2>1, <2>2, <2>3, <2>4
  <2> QED  BY <2>1, <2>2, <2>5 DEF IsInjective
<1>4. CASE RunFunction
  BY <1>1, <1>3, <1>4, FunctionRuns
<1>5. ASSUME NEW r \in Request, Send(r)
      PROVE  answered' = answered
  BY <1>5 DEF Send
<1>6. ASSUME NEW c \in Client, TakeRequest(c) \/ PushResponse(c) \/ ClearQueues(c)
      PROVE  answered' = answered
  BY <1>6, ThreadsLeave
<1>7. CASE PushSentinel
  BY <1>7 DEF PushSentinel, history
<1> QED  BY <1>1, <1>4, <1>5, <1>6, <1>7, OrderLeft DEF Still

LEMMA OrderStep ==
    ASSUME IInv, OrderInv, [Next]_vars
    PROVE  OrderInv'
<1>1. IsInjective(answered')
  BY AnsweredOnce DEF OrderInv
<1>2. ASSUME NEW c \in Client
      PROVE  InLine(c)'
  <2>1. CASE Still
    <3>1. TypeOK /\ MainStands /\ InLine(c)
      BY DEF IInv, OrderInv
    <3>2. Follows(sent[c], answered', {}) /\ ToSet(answered) \subseteq ToSet(answered')
      BY <2>1, <3>1 DEF Still, InLine
    <3> QED  BY <2>1, <3>1, <3>2, InLineLeft DEF Still
  <2>2. TypeOK /\ AloneStands
    BY DEF IInv
  <2> QED  BY <2>1, <2>2, OrderLeft, SendInOrder, AnswerInOrder, TakenInOrder, PushedInOrder,
              ClearedInOrder, SentinelInOrder
<1> QED  BY <1>1, <1>2 DEF OrderInv

LEMMA InitOrder == Init => OrderInv
<1> SUFFICES ASSUME Init
             PROVE  OrderInv
  OBVIOUS
<1>1. None \notin Client
  BY HttpClientAssumption
<1>2. ASSUME NEW c \in Client
      PROVE  InLine(c)
  <2>1. Queueing(c) = {} /\ InHand(c) = <<>>
    BY <1>1 DEF Init, Queueing, InHand, Holding
  <2>2. sent[c] = <<>> /\ answered = <<>> /\ responseQueue[c] = <<>> /\ requestQueue[c] = <<>>
    BY DEF Init
  <2> QED  BY <2>1, <2>2, EmptyQueue, FollowsNothing DEF InLine
<1> QED  BY <1>2, EmptyQueue DEF Init, OrderInv

(* OrderInv holds in every state: no step of a thread or of the main thread*)
(* lets one request pass another on its way to the callback.               *)
THEOREM OrderInvariance == Spec => []OrderInv
<1>1. IInv /\ OrderInv /\ [Next]_vars => OrderInv'
  BY OrderStep
<1> QED  BY <1>1, InitOrder, Invariance, PTL DEF Spec

(* No callback is called twice, and those of the requests a client was sent*)
(* with send come in the order of sending, with none left out before one   *)
(* that came.                                                              *)
THEOREM AnswersInOrder == Spec => []AnsweredInOrder
<1>1. OrderInv => AnsweredInOrder
  <2>1. ASSUME OrderInv, NEW c \in Client
        PROVE  /\ ToSet(answered) \cap Queueing(c) \subseteq ToSet(sent[c])
               /\ Follows(sent[c], answered, {})
    BY <2>1 DEF OrderInv, InLine
  <2> QED  BY <2>1 DEF OrderInv, AnsweredInOrder
<1> QED  BY <1>1, OrderInvariance, PTL
=============================================================================
