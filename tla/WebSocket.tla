----------------------------- MODULE WebSocket ------------------------------
(***************************************************************************)
(* cocos2d::network::WebSocket on libwebsockets                            *)
(* (src/cocos/network/WebSocket-libwebsockets.cpp) and the way the script  *)
(* bindings own a socket (jsb_websocket.cpp).  The main thread makes,      *)
(* closes and deletes sockets and runs what is posted to the Scheduler; one*)
(* network thread, which lives as long as there are sockets, asks          *)
(* libwebsockets to connect and gets its callbacks.                        *)
(*                                                                         *)
(* A socket of the bindings has two references, one released by the        *)
(* finalizer of its JavaScript object and one in onClose; the others have  *)
(* one, released in onClose, as SocketIO does.  A message has Fragments    *)
(* pieces of the size of the write buffer.  libwebsockets and the server   *)
(* are external: a connection opens or fails, receives, is closed by the   *)
(* server or loses a write at any time, and a piece is written whole or    *)
(* not at all.  An address is not used again for another socket.  Left     *)
(* out: closeAllConnections, an init that fails, protocols, certificates.  *)
(***************************************************************************)
EXTENDS Integers, FiniteSets, SequencesExt

CONSTANTS
    Socket,            \* WebSocketImpl objects
    Script,            \* those made by the script bindings
    None,              \* no socket
    Fragments,         \* pieces of a message
    MaxMessages        \* bound: messages sent and received

ASSUME WebSocketAssumption ==
    /\ Script \subseteq Socket
    /\ None \notin Socket
    /\ Fragments \in Nat \ {0}
    /\ MaxMessages \in Nat

VARIABLES
    object,            \* whether each socket exists
    refs,              \* its reference count
    listed,            \* __websocketInstances
    readyState,        \* _readyState
    closeState,        \* _closeState
    wsi,               \* what libwebsockets has of each socket
    messages,          \* _subThreadWsMessageQueue
    net,               \* where the network thread stands, "none" if no helper
    needQuit,          \* _needQuit of the helper
    event,             \* the socket the network thread is working for
    reason,            \* the callback it is about to make
    functions,         \* functions posted to the Scheduler
    main,              \* where the main thread stands
    closing,           \* the socket it is closing or deleting
    attached,          \* JavaScript objects attached to the global one
    finalized,         \* JavaScript objects that were collected
    pooled,            \* sockets in the autorelease pool
    sent,              \* history: messages sent so far
    received,          \* history: messages received so far
    wire,              \* history: pieces written, <<message, piece>>
    broken,            \* history: sockets that lost a write
    synced,            \* history: sockets close() was called on
    heard              \* history: callbacks of the delegate, in order

impls == <<object, refs, listed>>
states == <<readyState, closeState>>
thread == <<net, needQuit, event, reason>>
mained == <<main, closing>>
script == <<attached, finalized, pooled>>
history == <<sent, received, wire, broken, synced>>
vars == <<impls, states, wsi, messages, thread, functions, mained, script, history,
          heard>>

Init ==
    /\ object = [w \in Socket |-> "none"]
    /\ refs = [w \in Socket |-> 0]
    /\ listed = {}
    /\ readyState = [w \in Socket |-> "CONNECTING"]
    /\ closeState = [w \in Socket |-> "NONE"]
    /\ wsi = [w \in Socket |-> "none"]
    /\ messages = <<>>
    /\ net = "none"
    /\ needQuit = FALSE
    /\ event = None
    /\ reason = "none"
    /\ functions = <<>>
    /\ main = "idle"
    /\ closing = None
    /\ attached = {}
    /\ finalized = {}
    /\ pooled = {}
    /\ sent = [w \in Socket |-> 0]
    /\ received = 0
    /\ wire = [w \in Socket |-> <<>>]
    /\ broken = {}
    /\ synced = {}
    /\ heard = [w \in Socket |-> <<>>]

Post(w, what) == functions' = Append(functions, [ws |-> w, what |-> what])

(* The object can be used: its memory is there.                            *)
Exists(w) == object[w] \in {"alive", "dying"}

(* closeAsync, which both threads call, after its look at _closeState: the  *)
(* assignment, and what it does under _readyStateMutex.                    *)
AnnounceAsync(w) == closeState' = [closeState EXCEPT ![w] = "ASYNC_CLOSING"]
BecomeClosing(w) ==
    readyState' = [readyState EXCEPT ![w] = IF @ = "CLOSED" THEN @ ELSE "CLOSING"]
-----------------------------------------------------------------------------
(* The main thread                                                         *)

(* It may use a socket between functions and from a callback, as long as   *)
(* it has it.                                                              *)
MayUse(w) == main = "idle" /\ object[w] = "alive" /\ w \notin finalized

(* The first socket makes the helper, which starts the network thread when *)
(* the message is in its queue.                                            *)
New(w) ==
    /\ main = "idle"
    /\ object[w] = "none"
    /\ object' = [object EXCEPT ![w] = "alive"]
    /\ refs' = [refs EXCEPT ![w] = IF w \in Script THEN 2 ELSE 1]
    /\ listed' = listed \cup {w}
    /\ messages' = Append(messages, [ws |-> w, what |-> 0, issued |-> 0])
    /\ net' = IF net = "none" THEN "started" ELSE net
    /\ UNCHANGED <<states, wsi, needQuit, event, reason, functions, mained, script,
                   history, heard>>

Traffic == received + MapThenSumSet(LAMBDA w : sent[w], Socket)

Send(w) ==
    /\ MayUse(w)
    /\ readyState[w] = "OPEN"
    /\ Traffic < MaxMessages
    /\ sent' = [sent EXCEPT ![w] = @ + 1]
    /\ messages' = Append(messages, [ws |-> w, what |-> sent'[w], issued |-> 0])
    /\ UNCHANGED <<impls, states, wsi, thread, functions, mained, script, received,
                   wire, broken, synced, heard>>

(* The main thread calls closeAsync: only the first call of close or       *)
(* closeAsync counts.                                                      *)
CallCloseAsync(w) ==
    \/ /\ closeState[w] = "NONE"
       /\ main' = "closeAsync"
       /\ closing' = w
    \/ /\ closeState[w] # "NONE"
       /\ UNCHANGED mained

(* WebSocket_close keeps the JavaScript object alive until onClose.        *)
CloseAsync(w) ==
    /\ MayUse(w)
    /\ CallCloseAsync(w)
    /\ attached' = IF w \in Script THEN attached \cup {w} ELSE attached
    /\ UNCHANGED <<impls, states, wsi, messages, thread, functions, finalized, pooled,
                   history, heard>>

StoreAsync ==
    /\ main = "closeAsync"
    /\ AnnounceAsync(closing)
    /\ main' = "asyncLock"
    /\ UNCHANGED <<impls, readyState, wsi, messages, thread, functions, closing,
                   script, history, heard>>

(* close() of a socket that is not the bindings': its look at _closeState. *)
Close(w) ==
    /\ MayUse(w)
    /\ w \notin Script
    /\ closeState[w] = "NONE"
    /\ main' = "close"
    /\ closing' = w
    /\ UNCHANGED <<impls, states, wsi, messages, thread, functions, script, history,
                   heard>>

StoreSync ==
    /\ main = "close"
    /\ closeState' = [closeState EXCEPT ![closing] = "SYNC_CLOSING"]
    /\ synced' = synced \cup {closing}
    /\ main' = "lock"
    /\ UNCHANGED <<impls, readyState, wsi, messages, thread, functions, closing,
                   script, sent, received, wire, broken, heard>>

(* onConnectionClosed repeats its notification with _readyStateMutex held. *)
ReadyStateFree(w) == net # "handshake" \/ event # w

EndCloseAsync ==
    /\ main = "asyncLock"
    /\ ReadyStateFree(closing)
    /\ BecomeClosing(closing)
    /\ main' = "idle"
    /\ closing' = None
    /\ UNCHANGED <<impls, closeState, wsi, messages, thread, functions, script,
                   history, heard>>

LockReadyState ==
    /\ main = "lock"
    /\ ReadyStateFree(closing)
    /\ \/ /\ readyState[closing] = "CLOSED"
          /\ main' = "onClose"
          /\ UNCHANGED readyState
       \/ /\ readyState[closing] # "CLOSED"
          /\ main' = "unlock"
          /\ readyState' = [readyState EXCEPT ![closing] = "CLOSING"]
    /\ UNCHANGED <<impls, closeState, wsi, messages, thread, functions, closing,
                   script, history, heard>>

(* The network thread may notify it before it waits.                       *)
BeginWait ==
    /\ main = "unlock"
    /\ main' = "wait"
    /\ UNCHANGED <<impls, states, wsi, messages, thread, functions, closing, script,
                   history, heard>>

WakeSpuriously ==
    /\ main = "wait"
    /\ main' = "woken"
    /\ UNCHANGED <<impls, states, wsi, messages, thread, functions, closing, script,
                   history, heard>>

(* The five milliseconds it sleeps then hold nobody up.                    *)
EndWait ==
    /\ main = "woken"
    /\ closeState' = [closeState EXCEPT ![closing] = "SYNC_CLOSED"]
    /\ main' = "onClose"
    /\ UNCHANGED <<impls, readyState, wsi, messages, thread, functions, closing,
                   script, history, heard>>

(* Mutants of Delete: every destructor ends the network thread; the last   *)
(* one joins it without asking it to quit.                                 *)
DeleteQuits(w) ==
    /\ listed' = listed \ {w}
    /\ object' = [object EXCEPT ![w] = "dying"]
    /\ needQuit' = TRUE
    /\ main' = "join"
    /\ closing' = w

DeleteUnasked(w) ==
    /\ listed' = listed \ {w}
    /\ object' = [object EXCEPT ![w] = IF listed' = {} THEN "dying" ELSE "deleted"]
    /\ main' = IF listed' = {} THEN "join" ELSE "idle"
    /\ closing' = IF listed' = {} THEN w ELSE None
    /\ UNCHANGED needQuit

(* The destructor of the last socket joins the network thread first.       *)
Delete(w) ==
    /\ listed' = listed \ {w}
    /\ \/ /\ listed' = {}
          /\ object' = [object EXCEPT ![w] = "dying"]
          /\ needQuit' = TRUE
          /\ main' = "join"
          /\ closing' = w
       \/ /\ listed' # {}
          /\ object' = [object EXCEPT ![w] = "deleted"]
          /\ main' = "idle"
          /\ closing' = None
          /\ UNCHANGED needQuit

Release(w) ==
    /\ refs' = [refs EXCEPT ![w] = @ - 1]
    /\ \/ /\ refs'[w] = 0
          /\ Delete(w)
       \/ /\ refs'[w] # 0
          /\ main' = "idle"
          /\ closing' = None
          /\ UNCHANGED <<object, listed, needQuit>>

Join ==
    /\ main = "join"
    /\ net = "ended"
    /\ net' = "none"
    /\ needQuit' = FALSE
    /\ messages' = <<>>
    /\ object' = [object EXCEPT ![closing] = "deleted"]
    /\ main' = "idle"
    /\ closing' = None
    /\ UNCHANGED <<refs, listed, states, wsi, event, reason, functions, script,
                   history, heard>>

Hear(w, what) == heard' = [heard EXCEPT ![w] = Append(@, what)]

(* _delegate->onClose(_ws)                                                 *)
OnClose(w) ==
    /\ Hear(w, "close")
    /\ attached' = attached \ {w}
    /\ Release(w)

OnCloseAfterWait ==
    /\ main = "onClose"
    /\ OnClose(closing)
    /\ UNCHANGED <<states, wsi, messages, net, event, reason, functions, finalized,
                   pooled, history>>

(* What is posted looks at _isDestroyed first.                             *)
RunFunction ==
    LET f == Head(functions) IN
    /\ main = "idle"
    /\ functions # <<>>
    /\ functions' = Tail(functions)
    /\ \/ /\ object[f.ws] = "deleted"
          /\ UNCHANGED <<impls, needQuit, mained, attached, heard>>
       \/ /\ object[f.ws] # "deleted"
          /\ f.what = "close"
          /\ OnClose(f.ws)
       \/ /\ object[f.ws] # "deleted"
          /\ f.what # "close"
          /\ Hear(f.ws, f.what)
          /\ UNCHANGED <<impls, needQuit, mained, attached>>
    /\ UNCHANGED <<states, wsi, messages, net, event, reason, finalized, pooled,
                   history>>

(* Mutant of Finalize: the last reference is given up twice.               *)
FinalizeTwice(w) ==
    /\ MayUse(w)
    /\ w \in Script \ attached
    /\ finalized' = finalized \cup {w}
    /\ CallCloseAsync(w)
    /\ pooled' = IF refs[w] = 1 THEN pooled \cup {w} ELSE pooled
    /\ refs' = [refs EXCEPT ![w] = @ - 1]
    /\ UNCHANGED <<object, listed, states, wsi, messages, thread, functions, attached,
                   history, heard>>

(* WebSocket_finalize: the JavaScript object is collected.  It gives up    *)
(* its reference after closeAsync, which only this thread can tell.        *)
Finalize(w) ==
    /\ MayUse(w)
    /\ w \in Script \ attached
    /\ finalized' = finalized \cup {w}
    /\ \/ /\ readyState[w] # "CLOSED"
          /\ CallCloseAsync(w)
       \/ /\ readyState[w] = "CLOSED"
          /\ UNCHANGED mained
    /\ \/ /\ refs[w] = 1
          /\ pooled' = pooled \cup {w}
          /\ UNCHANGED refs
       \/ /\ refs[w] # 1
          /\ refs' = [refs EXCEPT ![w] = @ - 1]
          /\ UNCHANGED pooled
    /\ UNCHANGED <<object, listed, states, wsi, messages, thread, functions, attached,
                   history, heard>>

ClearPool(w) ==
    /\ main = "idle"
    /\ w \in pooled
    /\ pooled' = pooled \ {w}
    /\ Release(w)
    /\ UNCHANGED <<states, wsi, messages, net, event, reason, functions, attached,
                   finalized, history, heard>>
-----------------------------------------------------------------------------
(* The network thread                                                      *)

OnSubThreadStarted ==
    /\ net = "started"
    /\ net' = "loop"
    /\ UNCHANGED <<impls, states, wsi, messages, needQuit, event, reason, functions,
                   mained, script, history, heard>>

Creates == {i \in DOMAIN messages : messages[i].what = 0}

(* onClientOpenConnectionRequest; a connection that cannot even be started *)
(* is an error.                                                            *)
OpenConnection ==
    \E i \in Creates :
        LET w == messages[i].ws IN
        /\ net = "loop"
        /\ ~needQuit
        /\ \A j \in Creates : i <= j
        /\ Exists(w)
        /\ messages' = RemoveAt(messages, i)
        /\ readyState' = [readyState EXCEPT ![w] = "CONNECTING"]
        /\ \/ /\ wsi' = [wsi EXCEPT ![w] = "connecting"]
              /\ UNCHANGED <<net, event, reason>>
           \/ /\ net' = "handle"
              /\ event' = w
              /\ reason' = "error"
              /\ wsi' = [wsi EXCEPT ![w] = "lost"]
        /\ UNCHANGED <<impls, closeState, needQuit, functions, mained, script,
                       history, heard>>

(* The callbacks libwebsockets makes, and what has become of the socket.   *)
Becomes(w, why) ==
    CASE why = "established" -> "open"
      [] why = "error" -> "failed"
      [] why = "destroy" -> IF wsi[w] = "failed" THEN "lost" ELSE "gone"
      [] OTHER -> wsi[w]

Ready(w, why) ==
    CASE why \in {"established", "error"} -> wsi[w] = "connecting"
      [] why = "writeable" -> wsi[w] = "open"
      [] why = "receive" -> wsi[w] = "open" /\ Traffic < MaxMessages
      [] why = "destroy" -> wsi[w] \in {"open", "closing", "failed"}

(* lws_service, after the requests to connect, although one may come while *)
(* it serves.  An open connection goes away when the server closes it.     *)
(* WebSocketCallbackWrapper looks for the socket in the list, and makes the*)
(* callback if it is there.                                                *)
Service(w, why) ==
    /\ net = "loop"
    /\ ~needQuit
    /\ Ready(w, why)
    /\ wsi' = [wsi EXCEPT ![w] = Becomes(w, why)]
    /\ received' = IF why = "receive" THEN received + 1 ELSE received
    /\ \/ /\ w \in listed
          /\ net' = "handle"
          /\ event' = w
          /\ reason' = why
       \/ /\ w \notin listed
          /\ UNCHANGED <<net, event, reason>>
    /\ UNCHANGED <<impls, states, messages, needQuit, functions, mained, script,
                   sent, wire, broken, synced, heard>>

(* The callback is over.                                                   *)
BackToLoop == net' = "loop" /\ event' = None /\ reason' = "none"

OnConnectionOpened(w) ==
    /\ reason = "established"
    /\ BackToLoop
    /\ \/ /\ readyState[w] \in {"CLOSING", "CLOSED"}
          /\ UNCHANGED <<readyState, functions>>
       \/ /\ readyState[w] \notin {"CLOSING", "CLOSED"}
          /\ readyState' = [readyState EXCEPT ![w] = "OPEN"]
          /\ Post(w, "open")
    /\ UNCHANGED <<closeState, wsi, messages, wire, broken>>

OnClientReceivedData(w) ==
    /\ reason = "receive"
    /\ BackToLoop
    /\ Post(w, "message")
    /\ UNCHANGED <<states, wsi, messages, wire, broken>>

OnConnectionError(w) ==
    /\ reason = "error"
    /\ \/ /\ readyState[w] = "CLOSED"
          /\ BackToLoop
          /\ UNCHANGED <<readyState, functions>>
       \/ /\ readyState[w] # "CLOSED"
          /\ readyState' = [readyState EXCEPT ![w] = "CLOSING"]
          /\ Post(w, "error")
          /\ net' = "closed"
          /\ UNCHANGED <<event, reason>>
    /\ UNCHANGED <<closeState, wsi, messages, wire, broken>>

OnWsiDestroy(w) ==
    /\ reason = "destroy"
    /\ net' = "closed"
    /\ UNCHANGED <<states, wsi, messages, event, reason, functions, wire, broken>>

(* Mutant of RefuseToWrite: the close is announced here already.           *)
RefuseToWriteAnnouncing(w) ==
    /\ reason = "writeable"
    /\ readyState[w] = "CLOSING"
    /\ net' = "closed"
    /\ wsi' = [wsi EXCEPT ![w] = "closing"]
    /\ UNCHANGED <<states, messages, event, reason, functions, wire, broken>>

(* onClientWritable: a closing socket tells libwebsockets to close, the    *)
(* others write a piece of their first message.                            *)
RefuseToWrite(w) ==
    /\ reason = "writeable"
    /\ readyState[w] = "CLOSING"
    /\ BackToLoop
    /\ wsi' = [wsi EXCEPT ![w] = "closing"]
    /\ UNCHANGED <<states, messages, functions, wire, broken>>

MessagesOf(w) == {i \in DOMAIN messages : messages[i].ws = w}

(* Mutant of IsFirst: the newest message.                                  *)
IsLast(w, i) == i \in MessagesOf(w) /\ \A j \in MessagesOf(w) : i >= j

IsFirst(w, i) == i \in MessagesOf(w) /\ \A j \in MessagesOf(w) : i <= j

NothingToWrite(w) ==
    /\ reason = "writeable"
    /\ readyState[w] # "CLOSING"
    /\ MessagesOf(w) = {}
    /\ BackToLoop
    /\ UNCHANGED <<states, wsi, messages, functions, wire, broken>>

WritePiece(w, i) ==
    LET m == messages[i] IN
    /\ reason = "writeable"
    /\ readyState[w] # "CLOSING"
    /\ IsFirst(w, i)
    /\ BackToLoop
    /\ wire' = [wire EXCEPT ![w] = Append(@, <<m.what, m.issued + 1>>)]
    /\ messages' = IF m.issued + 1 = Fragments
                   THEN RemoveAt(messages, i)
                   ELSE [messages EXCEPT ![i].issued = @ + 1]
    /\ UNCHANGED <<states, wsi, functions, broken>>

LoseWrite(w, i) ==
    /\ reason = "writeable"
    /\ readyState[w] # "CLOSING"
    /\ IsFirst(w, i)
    /\ broken' = broken \cup {w}
    /\ messages' = RemoveAt(messages, i)
    /\ \/ /\ closeState[w] = "NONE"
          /\ net' = "closeAsync"
          /\ UNCHANGED <<event, reason>>
       \/ /\ closeState[w] # "NONE"
          /\ BackToLoop
    /\ UNCHANGED <<states, wsi, functions, wire>>

Handle ==
    /\ net = "handle"
    /\ Exists(event)
    /\ \/ OnConnectionOpened(event) \/ OnClientReceivedData(event)
       \/ OnConnectionError(event) \/ OnWsiDestroy(event)
       \/ RefuseToWrite(event) \/ NothingToWrite(event)
       \/ \E i \in DOMAIN messages : WritePiece(event, i) \/ LoseWrite(event, i)
    /\ UNCHANGED <<impls, needQuit, mained, script, sent, received, synced, heard>>

(* The rest of closeAsync in this thread.  What close() announced meanwhile*)
(* is overwritten.                                                         *)
StoreAsyncInThread ==
    /\ net = "closeAsync"
    /\ Exists(event)
    /\ AnnounceAsync(event)
    /\ net' = "asyncLock"
    /\ UNCHANGED <<impls, readyState, wsi, messages, needQuit, event, reason, functions,
                   mained, script, history, heard>>

EndCloseAsyncInThread ==
    /\ net = "asyncLock"
    /\ Exists(event)
    /\ BecomeClosing(event)
    /\ BackToLoop
    /\ UNCHANGED <<impls, closeState, wsi, messages, needQuit, functions, mained, script,
                   history, heard>>

(* Mutant of OnConnectionClosed: a socket that is CLOSED is closed again.  *)
OnConnectionClosedAgain ==
    /\ net = "closed"
    /\ Exists(event)
    /\ readyState' = [readyState EXCEPT ![event] = "CLOSED"]
    /\ net' = "post"
    /\ UNCHANGED <<impls, closeState, wsi, messages, needQuit, event, reason,
                   functions, mained, script, history, heard>>

(* onConnectionClosed, under _readyStateMutex.                             *)
OnConnectionClosed ==
    /\ net = "closed"
    /\ Exists(event)
    /\ \/ /\ readyState[event] = "CLOSED"
          /\ BackToLoop
          /\ UNCHANGED readyState
       \/ /\ readyState[event] = "CLOSING"
          /\ closeState[event] = "SYNC_CLOSING"
          /\ net' = "handshake"
          /\ UNCHANGED <<readyState, event, reason>>
       \/ /\ readyState[event] # "CLOSED"
          /\ readyState[event] = "CLOSING" => closeState[event] # "SYNC_CLOSING"
          /\ readyState' = [readyState EXCEPT ![event] = "CLOSED"]
          /\ net' = "post"
          /\ UNCHANGED <<event, reason>>
    /\ UNCHANGED <<impls, closeState, wsi, messages, needQuit, functions, mained,
                   script, history, heard>>

(* Mutant of Handshake: it notifies only once.                             *)
HandshakeOnce ==
    /\ net = "handshake"
    /\ Exists(event)
    /\ main' = IF main = "wait" /\ closing = event THEN "woken" ELSE main
    /\ BackToLoop
    /\ UNCHANGED <<impls, states, wsi, messages, needQuit, functions, closing,
                   script, history, heard>>

(* A turn of its loop: the waiter may not be waiting yet.                  *)
Handshake ==
    /\ net = "handshake"
    /\ Exists(event)
    /\ main' = IF main = "wait" /\ closing = event THEN "woken" ELSE main
    /\ \/ /\ closeState[event] = "SYNC_CLOSED"
          /\ BackToLoop
       \/ /\ closeState[event] # "SYNC_CLOSED"
          /\ UNCHANGED <<net, event, reason>>
    /\ UNCHANGED <<impls, states, wsi, messages, needQuit, functions, closing,
                   script, history, heard>>

PostClosed ==
    /\ net = "post"
    /\ Exists(event)
    /\ Post(event, "close")
    /\ BackToLoop
    /\ UNCHANGED <<impls, states, wsi, messages, needQuit, mained, script, history,
                   heard>>

(* The context is destroyed with what is left of the connections; no socket*)
(* is listed any more.                                                     *)
OnSubThreadEnded ==
    /\ net = "loop"
    /\ needQuit
    /\ net' = "ended"
    /\ wsi' = [w \in Socket |-> IF wsi[w] = "none" THEN "none" ELSE "gone"]
    /\ UNCHANGED <<impls, states, messages, needQuit, event, reason, functions,
                   mained, script, history, heard>>

NetworkThread ==
    \/ OnSubThreadStarted \/ OpenConnection
    \/ Handle \/ StoreAsyncInThread \/ EndCloseAsyncInThread
    \/ OnConnectionClosed \/ Handshake \/ PostClosed \/ OnSubThreadEnded

Reasons == {"established", "error", "receive", "writeable", "destroy"}
-----------------------------------------------------------------------------
MainContinues ==
    \/ StoreAsync \/ EndCloseAsync
    \/ StoreSync \/ LockReadyState \/ BeginWait \/ EndWait \/ OnCloseAfterWait
    \/ Join

Next ==
    \/ \E w \in Socket : \/ New(w) \/ Send(w) \/ CloseAsync(w) \/ Close(w)
                         \/ Finalize(w) \/ ClearPool(w)
                         \/ \E why \in Reasons : Service(w, why)
    \/ MainContinues \/ WakeSpuriously \/ RunFunction
    \/ NetworkThread

(* What a connection has to say, whatever the server does.                 *)
Serve(w) ==
    \/ \E why \in {"established", "error", "writeable"} : Service(w, why)
    \/ wsi[w] # "open" /\ Service(w, "destroy")

Spec == Init /\ [][Next]_vars

(* Both threads are scheduled, and a waiter that was notified gets its     *)
(* mutex; frames run what is posted; libwebsockets serves every connection *)
(* that has something to say, and one that is being made is made or fails. *)
FairSpec ==
    /\ Spec
    /\ WF_vars(MainContinues)
    /\ WF_vars(RunFunction)
    /\ WF_vars(NetworkThread)
    /\ SF_vars(OpenConnection)
    /\ \A w \in Socket : SF_vars(Serve(w))
-----------------------------------------------------------------------------
(* Properties                                                              *)

(* Every variable has values of its range.                                 *)
TypeOK ==
    /\ object \in [Socket -> {"none", "alive", "dying", "deleted"}]
    /\ refs \in [Socket -> 0..2]
    /\ listed \subseteq Socket
    /\ readyState \in [Socket -> {"CONNECTING", "OPEN", "CLOSING", "CLOSED"}]
    /\ closeState \in [Socket -> {"NONE", "SYNC_CLOSING", "SYNC_CLOSED",
                                  "ASYNC_CLOSING"}]
    /\ wsi \in [Socket -> {"none", "connecting", "open", "closing", "failed", "gone",
                           "lost"}]
    /\ messages \in Seq([ws : Socket, what : Nat, issued : 0..Fragments - 1])
    /\ net \in {"none", "started", "loop", "handle", "closeAsync", "asyncLock",
                "closed", "handshake", "post", "ended"}
    /\ needQuit \in BOOLEAN
    /\ event \in Socket \cup {None}
    /\ reason \in Reasons \cup {"none"}
    /\ functions \in Seq([ws : Socket, what : {"open", "message", "error", "close"}])
    /\ main \in {"idle", "closeAsync", "asyncLock", "close", "lock", "unlock", "wait",
                 "woken", "onClose", "join"}
    /\ closing \in Socket \cup {None}
    /\ attached \subseteq Script
    /\ finalized \subseteq Script
    /\ pooled \subseteq Script
    /\ sent \in [Socket -> Nat]
    /\ received \in Nat
    /\ wire \in [Socket -> Seq(Nat \X (1..Fragments))]
    /\ broken \subseteq Socket
    /\ synced \subseteq Socket
    /\ heard \in [Socket -> Seq({"open", "message", "error", "close"})]

(* The delegate of a socket hears that it is open before anything else, an *)
(* error only if it never opened, and that it is closed once, last, whoever*)
(* closes it and whichever thread announces it.  It gets a message without *)
(* having heard that it is open only if it was closed before it was: then  *)
(* onConnectionOpened is silent and onClientReceivedData is not.           *)
CallbackOrder ==
    \A w \in Socket : \A j \in DOMAIN heard[w] :
        LET earlier == ToSet(SubSeq(heard[w], 1, j - 1)) IN
        /\ "close" \notin earlier
        /\ heard[w][j] = "open" => earlier = {}
        /\ heard[w][j] = "error" => "open" \notin earlier
        /\ heard[w][j] = "message" => "open" \in earlier \/ closeState[w] # "NONE"

(* A socket lives as long as it has owners: its finalizer, the close that  *)
(* is to come, the autorelease pool; nobody releases it twice.             *)
Count(b) == IF b THEN 1 ELSE 0
Closed(w) == heard[w] # <<>> /\ Last(heard[w]) = "close"
RefsExact ==
    \A w \in Socket : object[w] # "none" =>
        /\ refs[w] = Count(~Closed(w)) + Count(w \in Script \ finalized)
                     + Count(w \in pooled)
        /\ object[w] = "alive" <=> refs[w] > 0
        /\ object[w] = "alive" <=> w \in listed

(* There is one network thread while there are sockets and none when they  *)
(* are gone; the last destructor waits for it.                             *)
ThreadWithSockets ==
    /\ net # "none" <=> (listed # {} \/ main = "join")
    /\ needQuit => listed = {} /\ main = "join"

(* The network thread has a socket in hand.                                *)
Working == net \in {"handle", "closeAsync", "asyncLock", "closed", "handshake", "post"}

(* The network thread works for sockets that exist, although it does not   *)
(* hold the lock of the list: between finding a socket in it and using the *)
(* socket nobody deletes that, because its close has not been announced.   *)
(* Two cases are excepted: a connection that failed, whose error announces *)
(* the close before libwebsockets destroys it, and close(), which deletes  *)
(* the socket after five milliseconds.                                     *)
WorksForLiving ==
    Working =>
        \/ Exists(event)
        \/ reason = "destroy" /\ wsi[event] = "lost"
        \/ event \in synced

(* What a server receives of a socket that lost no write are the messages  *)
(* in the order they were sent, each whole before the next begins.         *)
WireInOrder ==
    \A w \in Socket \ broken : \A i \in DOMAIN wire[w] :
        wire[w][i] = <<((i - 1) \div Fragments) + 1, ((i - 1) % Fragments) + 1>>

(* States out of which a thread does not come: the network thread has      *)
(* found a socket that was deleted (see WorksForLiving); close() waits for *)
(* a lock that the network thread keeps while it waits for close(); or it  *)
(* waits for a notification and the state that asks for it was overwritten.*)
Stuck ==
    \/ Working /\ ~Exists(event)
    \/ main = "lock" /\ ~ReadyStateFree(closing)
    \/ main \in {"unlock", "wait"} /\ readyState[closing] # "CLOSING"

(* A socket that is closing, once the network thread has asked for its     *)
(* connection, gets its onClose: neither the server nor a lost wake-up     *)
(* holds it up.                                                            *)
ClosingCloses ==
    \A w \in Socket :
        readyState[w] = "CLOSING" /\ wsi[w] # "none" ~> Closed(w) \/ Stuck

(* The destructor of the last socket comes back: the network thread ends.  *)
JoinReturns == main = "join" ~> main # "join" \/ Stuck

(* WebSocket.h says of close() and closeAsync() that they close the        *)
(* connection: whoever calls one gets onClose.                             *)
CloseCloses == \A w \in Socket : closeState[w] # "NONE" ~> Closed(w)
-----------------------------------------------------------------------------
(* The inductive invariant behind RefsExact, ThreadWithSockets and         *)
(* WorksForLiving.                                                         *)

(* close() was called; only sockets that are not the bindings' allow it.   *)
Sync(w) == w \in synced

(* The request to connect is still to be handled.                          *)
Asked(w) == \E i \in Creates : messages[i].ws = w

(* The close of a socket is on its way to the delegate, or arrived.        *)
Posted(w) == \E i \in DOMAIN functions : functions[i].ws = w /\ functions[i].what = "close"
Announced(w) == Posted(w) \/ Closed(w)

(* Nothing is known of a socket that was not made.                         *)
Unborn ==
    \A w \in Socket : object[w] = "none" =>
        /\ w \notin listed \cup finalized \cup pooled \cup synced
        /\ closeState[w] = "NONE"
        /\ wsi[w] = "none"
        /\ heard[w] = <<>>
        /\ event # w
        /\ \A i \in DOMAIN messages : messages[i].ws # w
        /\ \A i \in DOMAIN functions : functions[i].ws # w

(* What the main thread closes is alive, and what it deletes is dying, but *)
(* nothing else is.                                                        *)
MainStands ==
    /\ main # "idle" => closing \in Socket
    /\ main \notin {"idle", "join"} => object[closing] = "alive"
    /\ main = "close" => closing \notin Script
    /\ main \in {"lock", "unlock", "wait", "woken", "onClose"} => Sync(closing)
    /\ \A w \in Socket : object[w] = "dying" <=> main = "join" /\ closing = w
    /\ \A w \in Socket : Sync(w) => w \notin Script
    /\ \A w \in Socket : closeState[w] \in {"SYNC_CLOSING", "SYNC_CLOSED"} => Sync(w)

(* libwebsockets has nothing of a socket while its request is in the list, *)
(* where it is once.                                                       *)
Requests ==
    /\ \A w \in Socket : Asked(w) => wsi[w] = "none"
    /\ \A i, j \in Creates : messages[i].ws = messages[j].ws => i = j

(* It has lost the connection when the network thread is about to announce *)
(* the close, which it has not done before.                                *)
Over(w) == wsi[w] \in {"failed", "lost", "gone"}

NetStands ==
    Working =>
        /\ event \in Socket
        /\ wsi[event] # "none"
        /\ reason \in {"error", "destroy"} => Over(event)
        /\ net \in {"closed", "handshake", "post"} => reason \in {"error", "destroy"}
        /\ net \in {"closeAsync", "asyncLock"} => reason = "writeable"
        /\ net = "handshake" => Sync(event)
        /\ net = "post" => readyState[event] = "CLOSED" \/ Sync(event)
        /\ Announced(event) =>
               \/ Sync(event)
               \/ net \in {"handle", "closed"} /\ reason = "destroy" /\ wsi[event] = "lost"

(* A close that was announced is not announced again.                      *)
ClosedQuiet ==
    \A w \in Socket : Announced(w) => Sync(w) \/ (readyState[w] = "CLOSED" /\ Over(w))

(* Nothing of a socket is posted after its close.                          *)
CloseIsLast ==
    \A w \in Socket : ~Sync(w) =>
        /\ Closed(w) => \A i \in DOMAIN functions : functions[i].ws # w
        /\ \A i, j \in DOMAIN functions :
               functions[i].ws = w /\ functions[i].what = "close" /\ i < j =>
                   functions[j].ws # w

(* An object that is in the pool was collected.                            *)
PooledFinalized == pooled \subseteq finalized

(* The main thread joins the network thread only when no socket is left.   *)
JoinsLast == main = "join" => listed = {}

IInv ==
    /\ TypeOK
    /\ Unborn
    /\ MainStands
    /\ Requests
    /\ NetStands
    /\ ClosedQuiet
    /\ CloseIsLast
    /\ PooledFinalized
    /\ JoinsLast
    /\ RefsExact
    /\ ThreadWithSockets
=============================================================================
