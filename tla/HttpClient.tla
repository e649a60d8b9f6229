----------------------------- MODULE HttpClient -----------------------------
(***************************************************************************)
(* The curl implementation of cocos2d::network::HttpClient                 *)
(* (src/cocos/network/HttpClient.cpp).  The main thread sends requests and *)
(* runs the functions posted to the Scheduler, which call back; a network  *)
(* thread per client handles its request queue, a thread of its own each   *)
(* request sent with sendImmediate.  All threads are detached: a client    *)
(* counts them and whoever counts down to zero deletes it.  destroyInstance*)
(* puts a sentinel behind the requests and gives up the count of the main  *)
(* thread; getInstance then makes another client.                          *)
(*                                                                         *)
(* A request is an object sent once, and stands for its HttpResponse too.  *)
(* Reference counts are no atomics in the code: where another thread may   *)
(* be changing the same count a change is two steps, a load and a store.   *)
(* The transfer itself (curl, request types, cookies, timeouts) is left    *)
(* out: it fills in the response whether it fails or not.  The function    *)
(* queue of the Scheduler is used as MainThreadQueue specifies it.         *)
(***************************************************************************)
EXTENDS Integers, FiniteSets, SequencesExt

CONSTANTS
    Client,            \* HttpClient objects
    Request,           \* HttpRequest objects
    None,              \* no client, no request
    Sentinel,          \* the _requestSentinel of each client
    Early              \* requests the sender releases right after sending

ASSUME HttpClientAssumption ==
    /\ None \notin Client \cup Request
    /\ Sentinel \notin Request \cup {None}
    /\ Early \subseteq Request
    /\ IsFiniteSet(Request)

VARIABLES
    instance,          \* _httpClient
    object,            \* whether each client was made, is alive or deleted
    threadCount,       \* _threadCount
    scheduler,         \* clients whose _scheduler is not null
    requestQueue,      \* _requestQueue
    responseQueue,     \* _responseQueue
    net,               \* where the network thread of each client stands
    request,           \* the request it is handling
    alone,             \* where the thread of each immediate request stands
    owner,             \* the client each request was sent to
    refs,              \* _referenceCount of each request
    response,          \* requests whose HttpResponse has been allocated
    register,          \* the count a thread has loaded; None: main thread
    functions,         \* functions posted to the Scheduler
    main,              \* where the main thread stands
    sending,           \* the request it is sending
    closing,           \* the client it is destroying
    callback,          \* the request whose callback it is running
    mine,              \* requests of which the sender has a reference
    sent,              \* history: what was queued by send, in order
    answered           \* history: whose callback was called, in order

clients == <<instance, object, threadCount, scheduler>>
queues == <<requestQueue, responseQueue, functions>>
threads == <<net, request, alone, owner>>
counts == <<refs, response, register, mine>>
mained == <<main, sending, closing, callback>>
history == <<sent, answered>>
vars == <<clients, queues, threads, counts, mained, history>>

Init ==
    /\ instance = None
    /\ object = [c \in Client |-> "none"]
    /\ threadCount = [c \in Client |-> 0]
    /\ scheduler = {}
    /\ requestQueue = [c \in Client |-> <<>>]
    /\ responseQueue = [c \in Client |-> <<>>]
    /\ net = [c \in Client |-> "none"]
    /\ request = [c \in Client |-> None]
    /\ alone = [r \in Request |-> "none"]
    /\ owner = [r \in Request |-> None]
    /\ refs = [r \in Request |-> 1]
    /\ response = {}
    /\ register = [c \in Client \cup {None} |-> 0]
    /\ functions = <<>>
    /\ main = "idle"
    /\ sending = None
    /\ closing = None
    /\ callback = None
    /\ mine = Request
    /\ sent = [c \in Client |-> <<>>]
    /\ answered = <<>>

Alive(c) == object[c] = "alive"

(* Mutant: a thread does not count itself.                                 *)
IncreaseNothing(c) == UNCHANGED clients

IncreaseThreadCount(c) ==
    /\ threadCount' = [threadCount EXCEPT ![c] = @ + 1]
    /\ UNCHANGED <<instance, object, scheduler>>

DecreaseThreadCountAndMayDeleteThis(c) ==
    /\ threadCount' = [threadCount EXCEPT ![c] = @ - 1]
    /\ object' = IF threadCount'[c] = 0 THEN [object EXCEPT ![c] = "deleted"]
                                        ELSE object
    /\ UNCHANGED <<instance, scheduler>>

(* The network thread erases the front of the queue under its mutex.       *)
RequestQueueFree(c) == net[c] # "erase"
-----------------------------------------------------------------------------
(* The main thread                                                         *)

(* It may use the interface between functions and in a callback.           *)
MayCall == main = "idle"

GetInstance(c) ==
    /\ MayCall
    /\ instance = None
    /\ object[c] = "none"
    /\ instance' = c
    /\ object' = [object EXCEPT ![c] = "alive"]
    /\ threadCount' = [threadCount EXCEPT ![c] = 1]
    /\ scheduler' = scheduler \cup {c}
    /\ UNCHANGED <<queues, threads, counts, mained, history>>

(* The first request starts the network thread.                            *)
Send(r) ==
    LET c == instance IN
    /\ MayCall
    /\ c # None
    /\ owner[r] = None
    /\ RequestQueueFree(c)
    /\ net' = [net EXCEPT ![c] = IF @ = "none" THEN "started" ELSE @]
    /\ owner' = [owner EXCEPT ![r] = c]
    /\ refs' = [refs EXCEPT ![r] = @ + 2]
    /\ requestQueue' = [requestQueue EXCEPT ![c] = Append(@, r)]
    /\ sent' = [sent EXCEPT ![c] = Append(@, r)]
    /\ main' = "notify"
    /\ sending' = r
    /\ UNCHANGED <<clients, responseQueue, functions, request, alone, response,
                   register, mine, closing, callback, answered>>

(* Mutant of Notify: nobody is notified.                                   *)
NotifyNobody(c) == UNCHANGED net

(* _sleepCondition.notify_one()                                            *)
Notify(c) == net' = [net EXCEPT ![c] = IF @ = "blocked" THEN "test" ELSE @]

AfterSending(r) ==
    IF r \in Early THEN main' = "load" /\ sending' = r
                   ELSE main' = "idle" /\ sending' = None

NotifySent ==
    /\ main = "notify"
    /\ Notify(owner[sending])
    /\ AfterSending(sending)
    /\ UNCHANGED <<clients, queues, request, alone, owner, counts, closing,
                   callback, history>>

SendImmediate(r) ==
    /\ MayCall
    /\ instance # None
    /\ owner[r] = None
    /\ owner' = [owner EXCEPT ![r] = instance]
    /\ alone' = [alone EXCEPT ![r] = "started"]
    /\ refs' = [refs EXCEPT ![r] = @ + 2]
    /\ response' = response \cup {r}
    /\ AfterSending(r)
    /\ UNCHANGED <<clients, queues, net, request, register, mine, closing,
                   callback, history>>

(* The sender's request->release()                                         *)
LoadRefs ==
    /\ main = "load"
    /\ register' = [register EXCEPT ![None] = refs[sending]]
    /\ main' = "store"
    /\ UNCHANGED <<clients, queues, threads, refs, response, mine, sending,
                   closing, callback, history>>

StoreRefs ==
    /\ main = "store"
    /\ refs' = [refs EXCEPT ![sending] = register[None] - 1]
    /\ register' = [register EXCEPT ![None] = 0]
    /\ mine' = mine \ {sending}
    /\ main' = "idle"
    /\ sending' = None
    /\ UNCHANGED <<clients, queues, threads, response, closing, callback, history>>

DestroyInstance ==
    /\ MayCall
    /\ instance # None
    /\ closing' = instance
    /\ instance' = None
    /\ main' = "detach"
    /\ UNCHANGED <<object, threadCount, scheduler, queues, threads, counts,
                   sending, callback, history>>

DetachScheduler ==
    /\ main = "detach"
    /\ scheduler' = scheduler \ {closing}
    /\ main' = "sentinel"
    /\ UNCHANGED <<instance, object, threadCount, queues, threads, counts, sending,
                   closing, callback, history>>

(* Mutant: the client forgets what is queued, its sentinel included.       *)
PushNothing ==
    /\ main = "sentinel"
    /\ RequestQueueFree(closing)
    /\ requestQueue' = [requestQueue EXCEPT ![closing] = <<>>]
    /\ main' = "wake"
    /\ UNCHANGED <<clients, responseQueue, functions, threads, counts, sending,
                   closing, callback, history>>

PushSentinel ==
    /\ main = "sentinel"
    /\ RequestQueueFree(closing)
    /\ requestQueue' = [requestQueue EXCEPT ![closing] = Append(@, Sentinel)]
    /\ main' = "wake"
    /\ UNCHANGED <<clients, responseQueue, functions, threads, counts, sending,
                   closing, callback, history>>

NotifySentinel ==
    /\ main = "wake"
    /\ Notify(closing)
    /\ main' = "leave"
    /\ UNCHANGED <<clients, queues, request, alone, owner, counts, sending,
                   closing, callback, history>>

LeaveClient ==
    /\ main = "leave"
    /\ DecreaseThreadCountAndMayDeleteThis(closing)
    /\ main' = "idle"
    /\ closing' = None
    /\ UNCHANGED <<queues, threads, counts, sending, callback, history>>

(* dispatchResponseCallbacks, or the lambda of networkThreadAlone.  Only   *)
(* the first uses the client; on a deleted one it is undefined and nothing *)
(* is said of what follows.                                                *)
Dispatch(f) ==
    /\ f.request = None
    /\ Alive(f.client)
    /\ \/ /\ responseQueue[f.client] # <<>>
          /\ callback' = Head(responseQueue[f.client])
          /\ responseQueue' = [responseQueue EXCEPT ![f.client] = Tail(@)]
          /\ answered' = Append(answered, callback')
       \/ /\ responseQueue[f.client] = <<>>
          /\ UNCHANGED <<callback, responseQueue, answered>>

CallBackAlone(f) ==
    /\ f.request # None
    /\ callback' = f.request
    /\ answered' = Append(answered, f.request)
    /\ UNCHANGED responseQueue

RunFunction ==
    /\ main = "idle"
    /\ callback = None
    /\ functions # <<>>
    /\ Dispatch(Head(functions)) \/ CallBackAlone(Head(functions))
    /\ functions' = Tail(functions)
    /\ UNCHANGED <<clients, requestQueue, threads, counts, main, sending, closing,
                   sent>>

(* Mutant of Return: the reference taken by send is not given up.          *)
ReturnKeeping ==
    /\ main = "idle"
    /\ callback # None
    /\ refs' = [refs EXCEPT ![callback] = @ - (IF callback \in mine THEN 2 ELSE 1)]
    /\ mine' = mine \ {callback}
    /\ response' = response \ {callback}
    /\ callback' = None
    /\ UNCHANGED <<clients, queues, threads, register, main, sending, closing,
                   history>>

(* The callback returns: response->release() deletes the response, which   *)
(* releases the request, and request->release().  The sender of a request  *)
(* that is not released early gives up its reference now.                  *)
Return ==
    /\ main = "idle"
    /\ callback # None
    /\ refs' = [refs EXCEPT ![callback] = @ - (IF callback \in mine THEN 3 ELSE 2)]
    /\ mine' = mine \ {callback}
    /\ response' = response \ {callback}
    /\ callback' = None
    /\ UNCHANGED <<clients, queues, threads, register, main, sending, closing,
                   history>>
-----------------------------------------------------------------------------
(* networkThread                                                           *)

CountNetworkThread(c) ==
    /\ net[c] = "started"
    /\ Alive(c)
    /\ IncreaseThreadCount(c)
    /\ net' = [net EXCEPT ![c] = "test"]
    /\ UNCHANGED <<queues, request, alone, owner, counts, mained, history>>

TakeRequest(c) ==
    LET r == Head(requestQueue[c]) IN
    /\ net[c] = "test"
    /\ requestQueue[c] # <<>>
    /\ requestQueue' = [requestQueue EXCEPT ![c] = Tail(@)]
    /\ \/ /\ r = Sentinel
          /\ net' = [net EXCEPT ![c] = "clear"]
          /\ UNCHANGED <<request, register>>
       \/ /\ r # Sentinel
          /\ net' = [net EXCEPT ![c] = "erase"]
          /\ request' = [request EXCEPT ![c] = r]
          /\ register' = [register EXCEPT ![c] = refs[r]]
    /\ UNCHANGED <<clients, responseQueue, functions, alone, owner, refs, response,
                   mine, mained, history>>

Wait(c) ==
    /\ net[c] = "test"
    /\ requestQueue[c] = <<>>
    /\ net' = [net EXCEPT ![c] = "blocked"]
    /\ UNCHANGED <<clients, queues, request, alone, owner, counts, mained, history>>

WakeSpuriously(c) ==
    /\ net[c] = "blocked"
    /\ net' = [net EXCEPT ![c] = "test"]
    /\ UNCHANGED <<clients, queues, request, alone, owner, counts, mained, history>>

(* _requestQueue.erase(0) releases the request.                            *)
EraseRequest(c) ==
    /\ net[c] = "erase"
    /\ refs' = [refs EXCEPT ![request[c]] = register[c] - 1]
    /\ net' = [net EXCEPT ![c] = "respond"]
    /\ UNCHANGED <<clients, queues, request, alone, owner, response, register, mine,
                   mained, history>>

(* The constructor of HttpResponse retains it.                             *)
LoadForResponse(c) ==
    /\ net[c] = "respond"
    /\ register' = [register EXCEPT ![c] = refs[request[c]]]
    /\ net' = [net EXCEPT ![c] = "retain"]
    /\ UNCHANGED <<clients, queues, request, alone, owner, refs, response, mine,
                   mained, history>>

NewResponse(c) ==
    /\ net[c] = "retain"
    /\ refs' = [refs EXCEPT ![request[c]] = register[c] + 1]
    /\ register' = [register EXCEPT ![c] = 0]
    /\ response' = response \cup {request[c]}
    /\ net' = [net EXCEPT ![c] = "push"]
    /\ UNCHANGED <<clients, queues, request, alone, owner, mine, mained, history>>

(* Mutant: the newest response is the first.                               *)
PushResponseFirst(c) ==
    /\ net[c] = "push"
    /\ responseQueue' = [responseQueue EXCEPT ![c] = <<request[c]>> \o @]
    /\ request' = [request EXCEPT ![c] = None]
    /\ net' = [net EXCEPT ![c] = "post"]
    /\ UNCHANGED <<clients, requestQueue, functions, alone, owner, counts, mained,
                   history>>

PushResponse(c) ==
    /\ net[c] = "push"
    /\ responseQueue' = [responseQueue EXCEPT ![c] = Append(@, request[c])]
    /\ request' = [request EXCEPT ![c] = None]
    /\ net' = [net EXCEPT ![c] = "post"]
    /\ UNCHANGED <<clients, requestQueue, functions, alone, owner, counts, mained,
                   history>>

PostDispatch(c) ==
    /\ net[c] = "post"
    /\ functions' = IF c \in scheduler
                    THEN Append(functions, [client |-> c, request |-> None])
                    ELSE functions
    /\ net' = [net EXCEPT ![c] = "test"]
    /\ UNCHANGED <<clients, requestQueue, responseQueue, request, alone, owner,
                   counts, mained, history>>

(* What is still in the queues is dropped with its references.             *)
ClearQueues(c) ==
    /\ net[c] = "clear"
    /\ requestQueue' = [requestQueue EXCEPT ![c] = <<>>]
    /\ responseQueue' = [responseQueue EXCEPT ![c] = <<>>]
    /\ net' = [net EXCEPT ![c] = "leave"]
    /\ UNCHANGED <<clients, functions, request, alone, owner, counts, mained, history>>

LeaveNetworkThread(c) ==
    /\ net[c] = "leave"
    /\ DecreaseThreadCountAndMayDeleteThis(c)
    /\ net' = [net EXCEPT ![c] = "ended"]
    /\ UNCHANGED <<queues, request, alone, owner, counts, mained, history>>

NetworkThread(c) ==
    \/ CountNetworkThread(c) \/ TakeRequest(c) \/ Wait(c) \/ EraseRequest(c)
    \/ LoadForResponse(c) \/ NewResponse(c) \/ PushResponse(c) \/ PostDispatch(c)
    \/ ClearQueues(c) \/ LeaveNetworkThread(c)
-----------------------------------------------------------------------------
(* networkThreadAlone                                                      *)

CountAlone(r) ==
    /\ alone[r] = "started"
    /\ Alive(owner[r])
    /\ IncreaseThreadCount(owner[r])
    /\ alone' = [alone EXCEPT ![r] = "post"]
    /\ UNCHANGED <<queues, net, request, owner, counts, mained, history>>

PostAlone(r) ==
    /\ alone[r] = "post"
    /\ functions' = IF owner[r] \in scheduler
                    THEN Append(functions, [client |-> owner[r], request |-> r])
                    ELSE functions
    /\ alone' = [alone EXCEPT ![r] = "leave"]
    /\ UNCHANGED <<clients, requestQueue, responseQueue, net, request, owner, counts,
                   mained, history>>

LeaveAlone(r) ==
    /\ alone[r] = "leave"
    /\ DecreaseThreadCountAndMayDeleteThis(owner[r])
    /\ alone' = [alone EXCEPT ![r] = "ended"]
    /\ UNCHANGED <<queues, net, request, owner, counts, mained, history>>

NetworkThreadAlone(r) == CountAlone(r) \/ PostAlone(r) \/ LeaveAlone(r)
-----------------------------------------------------------------------------
(* What the main thread does without being asked.                          *)
MainContinues ==
    \/ NotifySent \/ LoadRefs \/ StoreRefs
    \/ DetachScheduler \/ PushSentinel \/ NotifySentinel \/ LeaveClient

Next ==
    \/ \E c \in Client : GetInstance(c) \/ NetworkThread(c) \/ WakeSpuriously(c)
    \/ \E r \in Request : Send(r) \/ SendImmediate(r) \/ NetworkThreadAlone(r)
    \/ DestroyInstance \/ MainContinues \/ RunFunction \/ Return

Spec == Init /\ [][Next]_vars

(* Threads are scheduled, the main thread finishes its calls, callbacks    *)
(* return and frames run what is posted; a transfer ends, if only by the   *)
(* timeouts that configureCURL sets.  Nobody has to call the interface.    *)
FairSpec ==
    /\ Spec
    /\ WF_vars(MainContinues)
    /\ WF_vars(RunFunction)
    /\ WF_vars(Return)
    /\ \A c \in Client : WF_vars(NetworkThread(c))
    /\ \A r \in Request : WF_vars(NetworkThreadAlone(r))
-----------------------------------------------------------------------------
(* Properties                                                              *)

Count(b) == IF b THEN 1 ELSE 0

(* Every variable has values of its range, and counts are not negative.    *)
TypeOK ==
    /\ instance \in Client \cup {None}
    /\ object \in [Client -> {"none", "alive", "deleted"}]
    /\ threadCount \in [Client -> Nat]
    /\ scheduler \subseteq Client
    /\ requestQueue \in [Client -> Seq(Request \cup {Sentinel})]
    /\ responseQueue \in [Client -> Seq(Request)]
    /\ net \in [Client -> {"none", "started", "test", "blocked", "erase", "respond",
                           "retain", "push", "post", "clear", "leave", "ended"}]
    /\ request \in [Client -> Request \cup {None}]
    /\ alone \in [Request -> {"none", "started", "post", "leave", "ended"}]
    /\ owner \in [Request -> Client \cup {None}]
    /\ refs \in [Request -> Int]
    /\ response \subseteq Request
    /\ register \in [Client \cup {None} -> Int]
    /\ functions \in Seq([client : Client, request : Request \cup {None}])
    /\ main \in {"idle", "notify", "load", "store", "detach", "sentinel", "wake",
                 "leave"}
    /\ sending \in Request \cup {None}
    /\ closing \in Client \cup {None}
    /\ callback \in Request \cup {None}
    /\ mine \subseteq Request
    /\ sent \in [Client -> Seq(Request)]
    /\ answered \in Seq(Request)

(* Threads of a client that have counted themselves and not yet left.      *)
NetCounted(c) == net[c] \notin {"none", "started", "ended"}
AloneCounted(c) == {r \in Request : owner[r] = c /\ alone[r] \in {"post", "leave"}}

(* The count of a client is exact: one for the main thread until           *)
(* destroyInstance gives it up, one for each thread that has counted       *)
(* itself and not left; and the client is deleted when it reaches zero, so *)
(* that none of them ever works on a deleted client.                       *)
CountExact ==
    \A c \in Client :
        /\ threadCount[c] = Count(c \in {instance, closing}) + Count(NetCounted(c))
                            + Cardinality(AloneCounted(c))
        /\ Alive(c) <=> threadCount[c] > 0

(* The references of a request: its sender's, the one send or sendImmediate*)
(* takes for the callback, the vector's while it is queued, and that of its*)
(* response.                                                               *)
Queued(r) ==
    \E c \in Client : \/ r \in ToSet(requestQueue[c])
                      \/ net[c] = "erase" /\ request[c] = r
Pending(r) == owner[r] # None /\ (callback = r \/ r \notin ToSet(answered))
Owners(r) ==
    Count(r \in mine) + Count(Pending(r)) + Count(Queued(r)) + Count(r \in response)

(* The reference count of a request is the number of its references,       *)
(* although it is changed on two threads, unless send queued the request   *)
(* and its sender released it at once, as SocketIO and the bindings do:    *)
(* then a change made by the network thread may be lost, or the sender's.  *)
(* Nothing else is released twice, and what was answered is freed.         *)
Raced(r) == r \in Early /\ owner[r] # None /\ alone[r] = "none"
RefsExact == \A r \in Request : Raced(r) \/ refs[r] = Owners(r)

(* q follows s beyond T: before an element of s that q has come those that *)
(* s has before it, unless they are in T.                                  *)
Follows(s, q, T) ==
    \A i, j \in DOMAIN s : \A k \in DOMAIN q :
        i < j /\ q[k] = s[j] => s[i] \in T \/ \E l \in 1..(k - 1) : q[l] = s[i]

(* No callback is called twice, and those of the requests queued with send *)
(* are called in the order of sending, none left out.                      *)
Queueing(c) == {r \in Request : owner[r] = c /\ alone[r] = "none"}
AnsweredInOrder ==
    /\ IsInjective(answered)
    /\ \A c \in Client :
           /\ ToSet(answered) \cap Queueing(c) \subseteq ToSet(sent[c])
           /\ Follows(sent[c], answered, {})

(* A function of a client that was deleted before it ran: see Dispatch.    *)
Dangling ==
    /\ functions # <<>>
    /\ Head(functions).request = None
    /\ object[Head(functions).client] = "deleted"

(* Every request that is sent is answered, unless its client is destroyed  *)
(* or the main thread runs a function of a deleted client.                 *)
Answered ==
    \A r \in Request :
        owner[r] # None ~> \/ r \in ToSet(answered)
                           \/ owner[r] # instance
                           \/ Dangling

(* A client that is destroyed winds its threads down and is deleted.       *)
WindsDown == \A c \in Client : closing = c ~> object[c] = "deleted"
-----------------------------------------------------------------------------
(* The inductive invariant behind TypeOK, CountExact and RefsExact.        *)

(* What the main thread is about.                                          *)
MainStands ==
    /\ closing # None <=> main \in {"detach", "sentinel", "wake", "leave"}
    /\ closing # None => instance = None
    /\ sending # None <=> main \in {"notify", "load", "store"}
    /\ sending # None => sending \in mine /\ owner[sending] # None
    /\ main = "notify" => alone[sending] = "none"
    /\ main \in {"load", "store"} => sending \in Early

(* The sentinel comes last, so that nothing is left behind it to clear.    *)
Dismissed(c) ==
    /\ object[c] # "none"
    /\ c # instance
    /\ c = closing => main \in {"wake", "leave"}

SentinelLast ==
    \A c \in Client :
        /\ \A i \in DOMAIN requestQueue[c] : requestQueue[c][i] = Sentinel =>
               i = Len(requestQueue[c]) /\ Dismissed(c)
        /\ net[c] = "clear" => requestQueue[c] = <<>> /\ Dismissed(c)

(* A request is in one place at a time on its way from send to its         *)
(* callback, always of the client it was sent to.                          *)
Unanswered(r, c) == owner[r] = c /\ alone[r] = "none" /\ r \notin ToSet(answered)
Holding(c) == net[c] \in {"erase", "respond", "retain", "push"}

InRequestQueue ==
    \A c \in Client :
        /\ \A r \in Request \cap ToSet(requestQueue[c]) :
               Unanswered(r, c) /\ r \notin response
        /\ \A i, j \in DOMAIN requestQueue[c] :
               requestQueue[c][i] = requestQueue[c][j] /\ requestQueue[c][i] \in Request
                   => i = j

InThread ==
    \A c \in Client : Holding(c) =>
        /\ request[c] \in Request
        /\ Unanswered(request[c], c)
        /\ request[c] \notin ToSet(requestQueue[c])
        /\ request[c] \in response <=> net[c] = "push"

InResponseQueue ==
    \A c \in Client :
        /\ IsInjective(responseQueue[c])
        /\ \A r \in ToSet(responseQueue[c]) : Unanswered(r, c) /\ r \in response
        /\ net[c] = "push" => request[c] \notin ToSet(responseQueue[c])

(* So is one that has a thread of its own.                                 *)
AloneStands ==
    /\ \A r \in Request :
           /\ owner[r] = None => /\ alone[r] = "none" /\ r \notin response
                                 /\ r \notin ToSet(answered) /\ r \in mine
           /\ alone[r] \in {"started", "post"} => r \in response /\ r \notin ToSet(answered)
    /\ \A i \in DOMAIN functions : functions[i].request # None =>
           LET r == functions[i].request IN
           /\ alone[r] \in {"leave", "ended"}
           /\ r \in response
           /\ r \notin ToSet(answered)
           /\ \A j \in DOMAIN functions : functions[j].request = r => i = j

CallbackStands ==
    callback # None => callback \in ToSet(answered) /\ callback \in response

(* What a thread has loaded is still the count, unless the request is      *)
(* released meanwhile.                                                     *)
RegistersExact ==
    /\ \A c \in Client :
           net[c] \in {"erase", "retain"} /\ ~Raced(request[c])
               => register[c] = refs[request[c]]
    /\ main = "store" /\ ~Raced(sending) => register[None] = refs[sending]

IInv ==
    /\ TypeOK
    /\ MainStands
    /\ CountExact
    /\ InRequestQueue
    /\ SentinelLast
    /\ InThread
    /\ InResponseQueue
    /\ AloneStands
    /\ CallbackStands
    /\ RegistersExact
    /\ RefsExact
-----------------------------------------------------------------------------
(* The invariant behind AnsweredInOrder: on their way from send to the     *)
(* callback the requests of a client keep their order, from one container  *)
(* to the next, and none is missing until the sentinel has come.           *)
InHand(c) == IF Holding(c) THEN <<request[c]>> ELSE <<>>
Arrived(c) == ToSet(answered) \cup ToSet(responseQueue[c])
Handled(c) == Arrived(c) \cup ToSet(InHand(c))

InLine(c) ==
    /\ ToSet(sent[c]) = Queueing(c)
    /\ Follows(sent[c], answered, {})
    /\ Follows(sent[c], responseQueue[c], ToSet(answered))
    /\ Follows(sent[c], InHand(c), Arrived(c))
    /\ Follows(sent[c], requestQueue[c], Handled(c))
    /\ ~ Dismissed(c) => ToSet(sent[c]) \subseteq Handled(c) \cup ToSet(requestQueue[c])

OrderInv == IsInjective(answered) /\ \A c \in Client : InLine(c)
=============================================================================
