-------------------------- MODULE WebSocketProofs ---------------------------
(***************************************************************************)
(* IInv is an inductive invariant of WebSocket, for any number of sockets, *)
(* messages and pieces: the close of a socket is announced once and last,  *)
(* so its owners give up one reference each and the network thread, between*)
(* finding a socket and using it, has one that nobody deletes.             *)
(***************************************************************************)
EXTENDS WebSocket, TLAPS

(* What the network thread does with a socket that is there.               *)
Handles(w) ==
    \/ OnConnectionOpened(w) \/ OnClientReceivedData(w) \/ OnConnectionError(w)
    \/ OnWsiDestroy(w) \/ RefuseToWrite(w) \/ NothingToWrite(w)
    \/ \E i \in DOMAIN messages : WritePiece(w, i) \/ LoseWrite(w, i)

HandleCase ==
    /\ net = "handle" /\ Exists(event) /\ Handles(event)
    /\ UNCHANGED <<impls, needQuit, mained, script, sent, received, synced, heard>>

(* The steps of closeAsync and of close() that store the state.            *)
MainStores == StoreAsync \/ EndCloseAsync \/ StoreSync
NetStores == StoreAsyncInThread \/ EndCloseAsyncInThread
Stores == MainStores \/ NetStores

(* The cases of a step.                                                    *)
LEMMA Steps ==
    ASSUME [Next]_vars
    PROVE  \/ \E w \in Socket : \/ New(w) \/ Send(w) \/ CloseAsync(w) \/ Close(w)
                                \/ Finalize(w) \/ ClearPool(w)
                                \/ \E why \in Reasons : Service(w, why)
           \/ Stores \/ LockReadyState \/ BeginWait \/ WakeSpuriously \/ EndWait
           \/ OnCloseAfterWait \/ Join \/ RunFunction
           \/ OnSubThreadStarted \/ OpenConnection \/ HandleCase \/ OnConnectionClosed
           \/ Handshake \/ PostClosed \/ OnSubThreadEnded
           \/ UNCHANGED vars
BY DEF Next, MainContinues, NetworkThread, Handle, HandleCase, Handles, Stores,
       MainStores, NetStores

(* They change nothing but states and the place of a thread.               *)
LEMMA StoreSteps ==
    ASSUME Stores
    PROVE  /\ UNCHANGED <<object, refs, listed, wsi, messages, needQuit, functions,
                          attached, finalized, pooled, sent, received, wire, broken, heard>>
           /\ \/ /\ UNCHANGED <<net, event, reason>>
                 /\ main \in {"closeAsync", "asyncLock", "close"}
                 /\ \/ main' \in {"asyncLock", "lock"} /\ closing' = closing
                    \/ main' = "idle" /\ closing' = None
              \/ /\ UNCHANGED <<main, closing, synced>>
                 /\ \/ net = "closeAsync" /\ net' = "asyncLock" /\ UNCHANGED <<event, reason>>
                    \/ net = "asyncLock" /\ BackToLoop
<1> USE DEF impls, states, thread, mained, script, history
<1>1. CASE StoreAsync \/ EndCloseAsync
  BY <1>1 DEF StoreAsync, EndCloseAsync
<1>2. CASE StoreSync
  BY <1>2 DEF StoreSync
<1>3. CASE StoreAsyncInThread \/ EndCloseAsyncInThread
  BY <1>3 DEF StoreAsyncInThread, EndCloseAsyncInThread
<1> QED  BY <1>1, <1>2, <1>3 DEF Stores, MainStores, NetStores

(* What they do to the states of the socket they are about.                *)
LEMMA StoreStates ==
    ASSUME Stores
    PROVE  \/ /\ AnnounceAsync(closing) /\ main = "closeAsync"
              /\ UNCHANGED <<readyState, synced>>
           \/ /\ BecomeClosing(closing) /\ main = "asyncLock"
              /\ UNCHANGED <<closeState, synced>>
           \/ /\ closeState' = [closeState EXCEPT ![closing] = "SYNC_CLOSING"]
              /\ main = "close" /\ synced' = synced \cup {closing} /\ UNCHANGED readyState
           \/ /\ AnnounceAsync(event) /\ net = "closeAsync" /\ Exists(event)
              /\ UNCHANGED <<readyState, synced>>
           \/ /\ BecomeClosing(event) /\ net = "asyncLock" /\ Exists(event)
              /\ UNCHANGED <<closeState, synced>>
BY DEF Stores, MainStores, NetStores, StoreAsync, EndCloseAsync, StoreSync,
       StoreAsyncInThread, EndCloseAsyncInThread, history

-----------------------------------------------------------------------------
(* Sequences.                                                              *)

(* One element more.                                                       *)
LEMMA AppendProps ==
    ASSUME NEW S, NEW s \in Seq(S), NEW e \in S
    PROVE  /\ Append(s, e) \in Seq(S) /\ Len(Append(s, e)) = Len(s) + 1
           /\ DOMAIN Append(s, e) = DOMAIN s \cup {Len(s) + 1}
           /\ \A i \in DOMAIN s : Append(s, e)[i] = s[i] /\ i < Len(s) + 1
           /\ Append(s, e)[Len(s) + 1] = e
           /\ Append(s, e) # <<>> /\ Last(Append(s, e)) = e
<1>1. /\ DOMAIN s = 1..Len(s) /\ Len(s) \in Nat
      /\ DOMAIN Append(s, e) = 1..(Len(s) + 1) /\ Len(Append(s, e)) = Len(s) + 1
      /\ \A i \in 1..Len(s) : Append(s, e)[i] = s[i]
      /\ Append(s, e)[Len(s) + 1] = e
      /\ Append(s, e) \in Seq(S)
  OBVIOUS
<1>2. 1..(Len(s) + 1) = 1..Len(s) \cup {Len(s) + 1}
  BY <1>1
<1>3. Append(s, e) # <<>> /\ Last(Append(s, e)) = e
  BY <1>1 DEF Last
<1>4. \A i \in 1..Len(s) : i < Len(s) + 1
  BY <1>1
<1> QED  BY <1>1, <1>2, <1>3, <1>4

(* Without the first element.                                              *)
LEMMA TailProps ==
    ASSUME NEW S, NEW s \in Seq(S), s # <<>>
    PROVE  /\ Tail(s) \in Seq(S) /\ Head(s) \in S
           /\ Head(s) = s[1] /\ 1 \in DOMAIN s
           /\ \A i \in DOMAIN Tail(s) : /\ i \in Int /\ i + 1 \in DOMAIN s /\ 1 < i + 1
                                        /\ Tail(s)[i] = s[i + 1]
<1>1. /\ DOMAIN s = 1..Len(s) /\ Len(s) \in Nat \ {0}
      /\ DOMAIN Tail(s) = 1..(Len(s) - 1) /\ Head(s) = s[1]
      /\ \A i \in 1..(Len(s) - 1) : Tail(s)[i] = s[i + 1]
      /\ Head(s) \in S /\ Tail(s) \in Seq(S)
  OBVIOUS
<1>2. \A i \in 1..(Len(s) - 1) : i \in Int /\ i + 1 \in 1..Len(s) /\ 1 < i + 1
  BY <1>1
<1>3. 1 \in 1..Len(s)
  BY <1>1
<1> QED  BY <1>1, <1>2, <1>3

(* Without the element at i: every other one stays, and none is doubled.   *)
LEMMA RemoveProps ==
    ASSUME NEW S, NEW s \in Seq(S), NEW i \in DOMAIN s
    PROVE  /\ RemoveAt(s, i) \in Seq(S)
           /\ \A j \in DOMAIN RemoveAt(s, i) :
                  \E k \in DOMAIN s : /\ k # i /\ RemoveAt(s, i)[j] = s[k]
                                      /\ k = IF j < i THEN j ELSE j + 1
<1> DEFINE a == SubSeq(s, 1, i - 1)
           b == SubSeq(s, i + 1, Len(s))
<1>1. i \in 1..Len(s) /\ Len(s) \in Nat
  OBVIOUS
<1>2. a \in Seq(S) /\ Len(a) = i - 1 /\ \A k \in 1..(i - 1) : a[k] = s[k]
  BY <1>1
<1>3. b \in Seq(S) /\ Len(b) = Len(s) - i /\ \A k \in 1..(Len(s) - i) : b[k] = s[i + k]
  BY <1>1
<1>4. RemoveAt(s, i) = a \o b
  BY DEF RemoveAt
<1> HIDE DEF a, b
<1>5. a \o b \in Seq(S) /\ Len(a \o b) = Len(s) - 1
  BY <1>1, <1>2, <1>3
<1>6. ASSUME NEW j \in 1..(Len(s) - 1)
      PROVE  \E k \in 1..Len(s) : /\ k # i /\ (a \o b)[j] = s[k]
                                  /\ k = IF j < i THEN j ELSE j + 1
  <2>1. CASE j < i
    <3>1. j \in 1..Len(s) /\ j # i
      BY <1>1, <2>1
    <3>2. (a \o b)[j] = s[j]
      BY <1>1, <1>2, <1>3, <2>1
    <3> QED  BY <2>1, <3>1, <3>2
  <2>2. CASE ~ j < i
    <3>1. (a \o b)[j] = b[j - (i - 1)]
      BY <1>1, <1>2, <1>3, <2>2
    <3>2. j - (i - 1) \in 1..(Len(s) - i) /\ i + (j - (i - 1)) = j + 1
      BY <1>1, <2>2
    <3>3. (a \o b)[j] = s[j + 1]
      BY <1>3, <3>1, <3>2
    <3>4. j + 1 \in 1..Len(s) /\ j + 1 # i
      BY <1>1, <2>2
    <3> QED  BY <2>2, <3>3, <3>4
  <2> QED  BY <2>1, <2>2
<1>7. DOMAIN (a \o b) = 1..(Len(s) - 1)
  BY <1>5
<1>8. DOMAIN s = 1..Len(s)
  OBVIOUS
<1> QED  BY <1>4, <1>5, <1>6, <1>7, <1>8


-----------------------------------------------------------------------------
(* Types.                                                                  *)
What == {"open", "message", "error", "close"}
Message == [ws : Socket, what : Nat, issued : 0..Fragments - 1]
Function == [ws : Socket, what : What]

StateTypes ==
    /\ readyState \in [Socket -> {"CONNECTING", "OPEN", "CLOSING", "CLOSED"}]
    /\ closeState \in [Socket -> {"NONE", "SYNC_CLOSING", "SYNC_CLOSED", "ASYNC_CLOSING"}]
    /\ wsi \in [Socket -> {"none", "connecting", "open", "closing", "failed", "gone", "lost"}]

ThreadTypes ==
    /\ net \in {"none", "started", "loop", "handle", "closeAsync", "asyncLock", "closed",
                "handshake", "post", "ended"}
    /\ event \in Socket \cup {None}
    /\ reason \in Reasons \cup {"none"}

MainTypes ==
    /\ main \in {"idle", "closeAsync", "asyncLock", "close", "lock", "unlock", "wait",
                 "woken", "onClose", "join"}
    /\ closing \in Socket \cup {None}

OwnTypes ==
    /\ object \in [Socket -> {"none", "alive", "dying", "deleted"}]
    /\ refs \in [Socket -> 0..2]
    /\ listed \subseteq Socket
    /\ finalized \subseteq Script
    /\ pooled \subseteq Script
    /\ heard \in [Socket -> Seq(What)]

QueueTypes ==
    /\ messages \in Seq(Message)
    /\ functions \in Seq(Function)

RestTypes ==
    /\ needQuit \in BOOLEAN
    /\ attached \subseteq Script
    /\ sent \in [Socket -> Nat]
    /\ received \in Nat
    /\ wire \in [Socket -> Seq(Nat \X (1..Fragments))]
    /\ broken \subseteq Socket
    /\ synced \subseteq Socket

LEMMA TypeParts ==
    TypeOK <=> /\ StateTypes /\ ThreadTypes /\ MainTypes /\ OwnTypes /\ QueueTypes
               /\ RestTypes
BY DEF TypeOK, StateTypes, ThreadTypes, MainTypes, OwnTypes, QueueTypes, RestTypes, What,
       Message, Function

LEMMA StateTypesStep ==
    ASSUME StateTypes, [Next]_vars
    PROVE  StateTypes'
<1> USE DEF StateTypes, impls, states, thread, mained, script, history
<1>1. CASE Stores
  <2>1. UNCHANGED wsi
    BY <1>1, StoreSteps
  <2>2. readyState' \in [Socket -> {"CONNECTING", "OPEN", "CLOSING", "CLOSED"}]
    BY <1>1, StoreStates DEF BecomeClosing
  <2>3. closeState' \in [Socket -> {"NONE", "SYNC_CLOSING", "SYNC_CLOSED", "ASYNC_CLOSING"}]
    BY <1>1, StoreStates DEF AnnounceAsync
  <2> QED  BY <2>1, <2>2, <2>3
<1>2. ASSUME NEW w \in Socket, CloseAsync(w) \/ Finalize(w) \/ Close(w)
      PROVE  UNCHANGED <<readyState, closeState, wsi>>
  BY <1>2 DEF CloseAsync, Finalize, Close
<1>3. ASSUME NEW w \in Socket, New(w) \/ Send(w) \/ ClearPool(w)
      PROVE  UNCHANGED <<readyState, closeState, wsi>>
  BY <1>3 DEF New, Send, ClearPool
<1>4. ASSUME NEW w \in Socket, NEW why \in Reasons, Service(w, why)
      PROVE  StateTypes'
  <2>1. CASE why = "established" \/ why = "error"
    BY <1>4, <2>1 DEF Service, Becomes
  <2>2. CASE why = "destroy"
    BY <1>4, <2>2 DEF Service, Becomes
  <2>3. CASE why = "writeable" \/ why = "receive"
    BY <1>4, <2>3 DEF Service, Becomes
  <2> QED  BY <2>1, <2>2, <2>3 DEF Reasons
<1>5. CASE LockReadyState
  BY <1>5 DEF LockReadyState
<1>6. CASE EndWait
  BY <1>6 DEF EndWait
<1>7. CASE BeginWait \/ WakeSpuriously \/ OnCloseAfterWait \/ Join \/ RunFunction
           \/ OnSubThreadStarted \/ Handshake \/ PostClosed \/ UNCHANGED vars
  BY <1>7 DEF BeginWait, WakeSpuriously, OnCloseAfterWait, Join, RunFunction,
              OnSubThreadStarted, Handshake, PostClosed, vars
<1>8. CASE OpenConnection
  BY <1>8 DEF OpenConnection
<1>9. CASE HandleCase
  <2>1. CASE OnConnectionOpened(event) \/ OnConnectionError(event)
    BY <2>1 DEF OnConnectionOpened, OnConnectionError
  <2>2. CASE \/ OnClientReceivedData(event) \/ OnWsiDestroy(event) \/ NothingToWrite(event)
             \/ RefuseToWrite(event)
    BY <2>2 DEF OnClientReceivedData, OnWsiDestroy, NothingToWrite, RefuseToWrite
  <2>3. ASSUME NEW i \in DOMAIN messages, WritePiece(event, i) \/ LoseWrite(event, i)
        PROVE  StateTypes'
    BY <2>3 DEF WritePiece, LoseWrite
  <2> QED  BY <1>9, <2>1, <2>2, <2>3 DEF HandleCase, Handles
<1>10. CASE OnConnectionClosed
  BY <1>10 DEF OnConnectionClosed
<1>11. CASE OnSubThreadEnded
  BY <1>11 DEF OnSubThreadEnded
<1> QED  BY <1>1, <1>2, <1>3, <1>4, <1>5, <1>6, <1>7, <1>8, <1>9, <1>10, <1>11, Steps

(* A request to connect is handled.                                        *)
Opens(w, i) ==
    /\ i \in Creates /\ messages[i].ws = w
    /\ net = "loop" /\ ~needQuit /\ Exists(w)
    /\ messages' = RemoveAt(messages, i)
    /\ readyState' = [readyState EXCEPT ![w] = "CONNECTING"]
    /\ \/ /\ wsi' = [wsi EXCEPT ![w] = "connecting"]
          /\ UNCHANGED <<net, event, reason>>
       \/ /\ wsi' = [wsi EXCEPT ![w] = "lost"]
          /\ net' = "handle" /\ event' = w /\ reason' = "error"
    /\ UNCHANGED <<object, refs, listed, closeState, needQuit, functions, main, closing,
                   finalized, pooled, heard>>

LEMMA OpenCases ==
    ASSUME QueueTypes, OpenConnection
    PROVE  \E w \in Socket : \E i \in Creates : Opens(w, i)
<1>1. \A i \in Creates : messages[i].ws \in Socket
  <2>1. ASSUME NEW i \in Creates
        PROVE  messages[i] \in Message
    BY DEF QueueTypes, Creates
  <2> QED  BY <2>1 DEF Message
<1>2. \E i \in Creates : Opens(messages[i].ws, i)
  <2>1. PICK i \in Creates :
               /\ net = "loop" /\ ~needQuit /\ Exists(messages[i].ws)
               /\ messages' = RemoveAt(messages, i)
               /\ readyState' = [readyState EXCEPT ![messages[i].ws] = "CONNECTING"]
               /\ \/ /\ wsi' = [wsi EXCEPT ![messages[i].ws] = "connecting"]
                     /\ UNCHANGED <<net, event, reason>>
                  \/ /\ net' = "handle"
                     /\ event' = messages[i].ws
                     /\ reason' = "error"
                     /\ wsi' = [wsi EXCEPT ![messages[i].ws] = "lost"]
               /\ UNCHANGED <<impls, closeState, needQuit, functions, mained, script, history,
                              heard>>
    BY DEF OpenConnection
  <2>2. Opens(messages[i].ws, i)
    BY <2>1 DEF Opens, impls, mained, script, history
  <2> QED  BY <2>2
<1> QED  BY <1>1, <1>2

LEMMA ThreadTypesStep ==
    ASSUME ThreadTypes, QueueTypes, [Next]_vars
    PROVE  ThreadTypes'
<1> USE DEF ThreadTypes, impls, states, thread, mained, script, history
<1>1. ASSUME NEW w \in Socket,
             New(w) \/ Send(w) \/ CloseAsync(w) \/ Close(w) \/ Finalize(w) \/ ClearPool(w)
      PROVE  ThreadTypes'
  BY <1>1 DEF New, Send, CloseAsync, Close, Finalize, ClearPool
<1>2. ASSUME NEW w \in Socket, NEW why \in Reasons, Service(w, why)
      PROVE  ThreadTypes'
  BY <1>2 DEF Service
<1>3. CASE LockReadyState \/ BeginWait \/ WakeSpuriously \/ EndWait \/ OnCloseAfterWait
           \/ Join \/ RunFunction \/ UNCHANGED vars
  BY <1>3 DEF LockReadyState, BeginWait, WakeSpuriously, EndWait, OnCloseAfterWait, Join,
              RunFunction, vars
<1>4. CASE OpenConnection
  BY <1>4, OpenCases DEF Opens, Reasons
<1>5. CASE HandleCase
  <2>1. \/ net' = "loop" /\ event' = None /\ reason' = "none"
        \/ net' \in {"closed", "closeAsync"} /\ UNCHANGED <<event, reason>>
    <3>1. CASE OnConnectionOpened(event) \/ OnConnectionError(event)
      BY <3>1 DEF OnConnectionOpened, OnConnectionError, BackToLoop
    <3>2. CASE \/ OnClientReceivedData(event) \/ OnWsiDestroy(event)
               \/ NothingToWrite(event) \/ RefuseToWrite(event)
      BY <3>2 DEF OnClientReceivedData, OnWsiDestroy, NothingToWrite, RefuseToWrite,
                  BackToLoop
    <3>3. ASSUME NEW i \in DOMAIN messages, WritePiece(event, i) \/ LoseWrite(event, i)
          PROVE  \/ net' = "loop" /\ event' = None /\ reason' = "none"
                 \/ net' = "closeAsync" /\ UNCHANGED <<event, reason>>
      BY <3>3 DEF WritePiece, LoseWrite, BackToLoop
    <3> QED  BY <1>5, <3>1, <3>2, <3>3 DEF HandleCase, Handles
  <2> QED  BY <2>1
<1>6. CASE OnSubThreadStarted \/ OnConnectionClosed \/ Handshake \/ PostClosed
           \/ OnSubThreadEnded
  BY <1>6 DEF OnSubThreadStarted, OnConnectionClosed, Handshake, PostClosed,
              OnSubThreadEnded, BackToLoop
<1>7. CASE Stores
  BY <1>7, StoreSteps DEF BackToLoop
<1> QED  BY <1>1, <1>2, <1>3, <1>4, <1>5, <1>6, <1>7, Steps

(* The next function is about a socket that was made; nothing of it is     *)
(* called if it was deleted.                                               *)
LEMMA RunCases ==
    ASSUME TypeOK, Unborn, MainStands, RunFunction
    PROVE  \E w \in Socket :
               /\ main = "idle"
               /\ functions # <<>> /\ 1 \in DOMAIN functions /\ functions[1].ws = w
               /\ functions' = Tail(functions)
               /\ UNCHANGED <<readyState, closeState, wsi, messages, net, event, reason,
                              finalized, pooled, sent, received, wire, broken, synced>>
               /\ \/ /\ object[w] = "deleted"
                     /\ UNCHANGED <<object, refs, listed, needQuit, main, closing, attached,
                                    heard>>
                  \/ /\ object[w] = "alive"
                     /\ functions[1].what = "close"
                     /\ OnClose(w)
                  \/ /\ object[w] = "alive"
                     /\ functions[1].what \in What \ {"close"}
                     /\ Hear(w, functions[1].what)
                     /\ UNCHANGED <<object, refs, listed, needQuit, main, closing, attached>>
<1>1. functions # <<>> /\ functions \in Seq(Function) /\ OwnTypes
  BY TypeParts DEF RunFunction, QueueTypes
<1>2. Head(functions) = functions[1] /\ 1 \in DOMAIN functions /\ Head(functions) \in Function
  BY <1>1, TailProps
<1>3. PICK w \in Socket : functions[1].ws = w /\ functions[1].what \in What
  BY <1>2 DEF Function
<1>4. main = "idle" /\ object[w] # "none" /\ object[w] # "dying"
  BY <1>2, <1>3 DEF RunFunction, Unborn, MainStands
<1>5. object[w] \in {"alive", "deleted"}
  BY <1>1, <1>4 DEF OwnTypes
<1> QED  BY <1>1, <1>2, <1>3, <1>4, <1>5
            DEF RunFunction, impls, states, mained, history

(* What changes the owners of sockets.                                     *)
Closes(w) ==
    /\ object[w] = "alive"
    /\ OnClose(w)
    /\ UNCHANGED <<finalized, pooled, synced, readyState, closeState, wsi, messages, net,
                   event, reason>>
    /\ \/ main = "onClose" /\ closing = w /\ UNCHANGED functions
       \/ /\ main = "idle" /\ functions # <<>> /\ 1 \in DOMAIN functions
          /\ functions[1].ws = w /\ functions[1].what = "close"
          /\ functions' = Tail(functions)

Collects(w) ==
    /\ main = "idle" /\ object[w] = "alive" /\ w \in Script \ finalized
    /\ finalized' = finalized \cup {w}
    /\ \/ /\ refs[w] = 1
          /\ pooled' = pooled \cup {w}
          /\ UNCHANGED refs
       \/ /\ refs[w] # 1
          /\ refs' = [refs EXCEPT ![w] = @ - 1]
          /\ UNCHANGED pooled
    /\ UNCHANGED <<object, listed, heard, synced, needQuit, net>>

Owns == UNCHANGED <<object, refs, listed, finalized, pooled>>

(* What is heard that is no close.                                         *)
Hears ==
    \/ UNCHANGED heard
    \/ /\ main = "idle" /\ functions # <<>> /\ 1 \in DOMAIN functions
       /\ functions' = Tail(functions)
       /\ \E w \in Socket : \E what \in What \ {"close"} :
              /\ functions[1] = [ws |-> w, what |-> what] /\ object[w] = "alive"
              /\ Hear(w, what)

LEMMA OwnSteps ==
    ASSUME TypeOK, Unborn, MainStands, [Next]_vars
    PROVE  \/ \E w \in Socket : New(w) \/ Collects(w) \/ ClearPool(w) \/ Closes(w)
           \/ Join
           \/ Owns /\ Hears
<1> USE DEF impls, states, thread, mained, script, history
<1>1. ASSUME NEW w \in Socket, Finalize(w)
      PROVE  Collects(w)
  BY <1>1 DEF Finalize, Collects, MayUse
<1>2. CASE OnCloseAfterWait
  <2>1. closing \in Socket /\ object[closing] = "alive"
    BY <1>2 DEF OnCloseAfterWait, MainStands
  <2>2. PICK w \in Socket : w = closing
    BY <2>1
  <2>3. Closes(w)
    BY <1>2, <2>1, <2>2 DEF OnCloseAfterWait, Closes
  <2> QED  BY <2>3
<1>3. CASE RunFunction
  <2>1. PICK w \in Socket :
               /\ main = "idle"
               /\ functions # <<>> /\ 1 \in DOMAIN functions /\ functions[1].ws = w
               /\ functions' = Tail(functions)
               /\ UNCHANGED <<readyState, closeState, wsi, messages, net, event, reason,
                              finalized, pooled, sent, received, wire, broken, synced>>
               /\ \/ /\ object[w] = "deleted"
                     /\ UNCHANGED <<object, refs, listed, needQuit, main, closing, attached,
                                    heard>>
                  \/ /\ object[w] = "alive"
                     /\ functions[1].what = "close"
                     /\ OnClose(w)
                  \/ /\ object[w] = "alive"
                     /\ functions[1].what \in What \ {"close"}
                     /\ Hear(w, functions[1].what)
                     /\ UNCHANGED <<object, refs, listed, needQuit, main, closing, attached>>
    BY <1>3, RunCases
  <2>2. CASE object[w] = "alive" /\ functions[1].what = "close" /\ OnClose(w)
    BY <2>1, <2>2 DEF Closes
  <2>3. CASE functions[1].what \in What \ {"close"} /\ Hear(w, functions[1].what)
    <3>1. functions[1] \in Function
      BY <2>1, TypeParts DEF QueueTypes
    <3>2. functions[1] = [ws |-> w, what |-> functions[1].what]
      BY <2>1, <3>1 DEF Function
    <3> QED  BY <2>1, <2>3, <3>2 DEF Owns, Hears
  <2>4. CASE object[w] = "deleted" /\ UNCHANGED <<object, refs, listed, heard>>
    BY <2>1, <2>4 DEF Owns, Hears
  <2> QED  BY <2>1, <2>2, <2>3, <2>4
<1>4. ASSUME NEW w \in Socket, Send(w) \/ CloseAsync(w) \/ Close(w)
      PROVE  Owns /\ Hears
  BY <1>4 DEF Send, CloseAsync, Close, Owns, Hears
<1>5. ASSUME NEW w \in Socket, NEW why \in Reasons, Service(w, why)
      PROVE  Owns /\ Hears
  BY <1>5 DEF Service, Owns, Hears
<1>6. CASE LockReadyState \/ BeginWait \/ WakeSpuriously \/ EndWait \/ HandleCase
           \/ OnSubThreadStarted \/ OnConnectionClosed \/ Handshake \/ PostClosed
           \/ OnSubThreadEnded \/ UNCHANGED vars
  BY <1>6 DEF LockReadyState, BeginWait, WakeSpuriously, EndWait, HandleCase,
              OnSubThreadStarted, OnConnectionClosed, Handshake, PostClosed,
              OnSubThreadEnded, vars, Owns, Hears
<1>7. CASE OpenConnection
  BY <1>7 DEF OpenConnection, Owns, Hears
<1>8. CASE Stores
  BY <1>8, StoreSteps DEF Owns, Hears
<1> QED  BY <1>1, <1>2, <1>3, <1>4, <1>5, <1>6, <1>7, <1>8, Steps


-----------------------------------------------------------------------------
(* Owners.                                                                 *)

(* RefsExact, for one socket.                                              *)
RefsOf(w) == object[w] # "none" =>
    /\ refs[w] = Count(~Closed(w)) + Count(w \in Script \ finalized) + Count(w \in pooled)
    /\ object[w] = "alive" <=> refs[w] > 0
    /\ object[w] = "alive" <=> w \in listed

LEMMA RefsBySocket == RefsExact <=> \A w \in Socket : RefsOf(w)
BY DEF RefsExact, RefsOf

(* Who can release a socket has one that is alive.                         *)
LEMMA Owners ==
    ASSUME IInv, NEW w \in Socket
    PROVE  /\ w \in pooled => object[w] = "alive"
           /\ object[w] = "alive" => refs[w] \in 1..2 /\ w \in listed
           /\ object[w] = "alive" /\ w \notin Script => ~Closed(w)
           /\ w \in listed => object[w] = "alive"
<1>1. RefsOf(w) /\ OwnTypes /\ Unborn
  BY TypeParts, RefsBySocket DEF IInv
<1>2. refs[w] \in 0..2
  BY <1>1 DEF OwnTypes
<1>3. w \in listed \cup pooled => object[w] # "none"
  BY <1>1 DEF Unborn
<1>4. w \notin Script => w \notin pooled
  BY <1>1 DEF OwnTypes
<1>5. object[w] # "none" => (object[w] = "alive" <=> refs[w] > 0)
  BY <1>1 DEF RefsOf
<1>6. object[w] # "none" => (object[w] = "alive" <=> w \in listed)
  BY <1>1 DEF RefsOf
<1>7. object[w] # "none" /\ w \in pooled => refs[w] > 0
  BY <1>1, <1>2 DEF RefsOf, Count
<1>8. object[w] # "none" /\ w \notin Script /\ Closed(w) => refs[w] = 0
  BY <1>1, <1>4 DEF RefsOf, Count
<1>9. object[w] = "alive" => object[w] # "none"
  OBVIOUS
<1>10. refs[w] > 0 => refs[w] \in 1..2
  BY <1>2
<1>11. refs[w] = 0 => ~(refs[w] > 0)
  OBVIOUS
<1> QED  BY <1>3, <1>5, <1>6, <1>7, <1>8, <1>9, <1>10, <1>11, Zenon

(* Nobody has heard the close of a living socket a function is about.      *)
LEMMA NotYetClosed ==
    ASSUME IInv, NEW w \in Socket, object[w] = "alive",
           1 \in DOMAIN functions /\ functions[1].ws = w
    PROVE  ~Closed(w)
<1>1. CASE w \notin Script
  BY <1>1, Owners
<1>2. CASE w \in Script
  BY <1>2 DEF IInv, MainStands, CloseIsLast
<1> QED  BY <1>1, <1>2

LEMMA CloseNotHeard ==
    ASSUME IInv, NEW w \in Socket, Closes(w)
    PROVE  ~Closed(w)
<1>1. CASE main = "onClose" /\ closing = w
  <2>1. w \notin Script /\ object[w] = "alive"
    BY <1>1 DEF IInv, MainStands
  <2> QED  BY <2>1, Owners
<1>2. CASE 1 \in DOMAIN functions /\ functions[1].ws = w
  BY <1>2, NotYetClosed DEF Closes
<1> QED  BY <1>1, <1>2 DEF Closes

(* What Release leaves.                                                    *)
LEMMA Released ==
    ASSUME IInv, NEW w \in Socket, object[w] = "alive", Release(w)
    PROVE  /\ refs' = [refs EXCEPT ![w] = @ - 1] /\ refs'[w] = refs[w] - 1 /\ refs'[w] \in 0..1
           /\ \/ /\ refs'[w] # 0 /\ main' = "idle" /\ closing' = None
                 /\ UNCHANGED <<object, listed, needQuit>>
              \/ /\ refs'[w] = 0 /\ listed' = listed \ {w} /\ listed' # {}
                 /\ main' = "idle" /\ closing' = None
                 /\ object' = [object EXCEPT ![w] = "deleted"] /\ UNCHANGED needQuit
              \/ /\ refs'[w] = 0 /\ listed' = listed \ {w} /\ listed' = {}
                 /\ main' = "join" /\ closing' = w
                 /\ object' = [object EXCEPT ![w] = "dying"] /\ needQuit' = TRUE
<1>1. refs[w] \in 1..2 /\ refs \in [Socket -> 0..2]
  BY Owners, TypeParts DEF IInv, OwnTypes
<1>2. refs'[w] = refs[w] - 1 /\ refs'[w] \in 0..1
  BY <1>1 DEF Release
<1> QED  BY <1>2 DEF Release, Delete

(* What a delegate hears.                                                  *)
LEMMA Heard ==
    ASSUME TypeOK, NEW w \in Socket, NEW what \in What, Hear(w, what)
    PROVE  /\ heard' \in [Socket -> Seq(What)]
           /\ Closed(w)' <=> what = "close"
           /\ \A u \in Socket \ {w} : heard'[u] = heard[u]
<1>1. heard \in [Socket -> Seq(What)]
  BY TypeParts DEF OwnTypes
<1>2. heard' = [heard EXCEPT ![w] = Append(heard[w], what)]
  BY <1>1 DEF Hear
<1>3. heard[w] \in Seq(What)
  BY <1>1
<1>4. /\ Append(heard[w], what) \in Seq(What) /\ Append(heard[w], what) # <<>>
      /\ Last(Append(heard[w], what)) = what
  BY <1>3, AppendProps
<1>5. heard'[w] = Append(heard[w], what)
  BY <1>1, <1>2
<1> QED  BY <1>1, <1>2, <1>4, <1>5 DEF Closed

LEMMA OwnTypesStep ==
    ASSUME IInv, [Next]_vars
    PROVE  OwnTypes'
<1>1. OwnTypes /\ TypeOK /\ Unborn /\ MainStands
  BY TypeParts DEF IInv
<1>2. ASSUME NEW w \in Socket, object[w] = "alive", Release(w)
      PROVE  /\ object' \in [Socket -> {"none", "alive", "dying", "deleted"}]
             /\ refs' \in [Socket -> 0..2]
             /\ listed' \subseteq Socket
  <2>1. refs[w] \in 1..2 /\ refs[w] - 1 \in 0..2
    BY <1>2, Owners
  <2>2. refs' \in [Socket -> 0..2]
    BY <1>1, <1>2, <2>1, Released DEF OwnTypes
  <2>3. listed' \subseteq Socket
    BY <1>1, <1>2, Released DEF OwnTypes
  <2>4. object' \in [Socket -> {"none", "alive", "dying", "deleted"}]
    <3>1. \/ object' = object
          \/ object' = [object EXCEPT ![w] = "deleted"]
          \/ object' = [object EXCEPT ![w] = "dying"]
      BY <1>2, Released
    <3> QED  BY <1>1, <3>1 DEF OwnTypes
  <2> QED  BY <2>2, <2>3, <2>4
<1>3. ASSUME NEW w \in Socket, New(w)
      PROVE  OwnTypes'
  BY <1>1, <1>3 DEF New, OwnTypes, script
<1>4. ASSUME NEW w \in Socket, Collects(w)
      PROVE  OwnTypes'
  <2>1. refs[w] \in 1..2 /\ refs[w] - 1 \in 0..2
    BY <1>4, Owners DEF Collects
  <2>2. refs' \in [Socket -> 0..2]
    BY <1>1, <1>4, <2>1 DEF Collects, OwnTypes
  <2> QED  BY <1>1, <1>4, <2>2 DEF Collects, OwnTypes
<1>5. ASSUME NEW w \in Socket, ClearPool(w)
      PROVE  OwnTypes'
  <2>1. object[w] = "alive" /\ Release(w)
    BY <1>5, Owners DEF ClearPool
  <2> QED  BY <1>1, <1>2, <1>5, <2>1 DEF ClearPool, OwnTypes
<1>6. ASSUME NEW w \in Socket, Closes(w)
      PROVE  OwnTypes'
  <2>1. object[w] = "alive" /\ Release(w) /\ Hear(w, "close") /\ UNCHANGED <<finalized, pooled>>
    BY <1>6 DEF Closes, OnClose
  <2>2. heard' \in [Socket -> Seq(What)]
    BY <1>1, <2>1, Heard DEF What
  <2> QED  BY <1>1, <1>2, <2>1, <2>2 DEF OwnTypes
<1>7. CASE Join
  BY <1>1, <1>7 DEF Join, OwnTypes, script
<1>8. CASE Owns /\ Hears
  <2>1. heard' \in [Socket -> Seq(What)]
    BY <1>1, <1>8, Heard DEF Hears, OwnTypes
  <2> QED  BY <1>1, <1>8, <2>1 DEF Owns, OwnTypes
<1> QED  BY <1>1, <1>3, <1>4, <1>5, <1>6, <1>7, <1>8, OwnSteps

LEMMA RefsStep ==
    ASSUME IInv, [Next]_vars
    PROVE  RefsExact'
<1>1. OwnTypes /\ TypeOK /\ Unborn /\ MainStands /\ \A w \in Socket : RefsOf(w)
  BY TypeParts, RefsBySocket DEF IInv
<1>2. SUFFICES ASSUME NEW u \in Socket
               PROVE  RefsOf(u)'
  BY DEF RefsExact, RefsOf
<1>3. ASSUME UNCHANGED <<object[u], refs[u]>>, heard'[u] = heard[u],
             u \in listed' <=> u \in listed, u \in finalized' <=> u \in finalized,
             u \in pooled' <=> u \in pooled
      PROVE  RefsOf(u)'
  <2>1. Closed(u)' <=> Closed(u)
    BY <1>3 DEF Closed
  <2> QED  BY <1>1, <1>3, <2>1 DEF RefsOf, Count
<1>4. ASSUME NEW w \in Socket, New(w)
      PROVE  RefsOf(u)'
  <2>1. CASE u # w
    BY <1>1, <1>3, <1>4, <2>1 DEF New, OwnTypes, script
  <2>2. CASE u = w
    <3>1. object[w] = "none" /\ heard[w] = <<>> /\ w \notin finalized \cup pooled
      BY <1>1, <1>4 DEF New, Unborn
    <3>2. ~Closed(u)' /\ u \notin finalized' /\ u \notin pooled'
      BY <1>4, <2>2, <3>1 DEF New, Closed, script
    <3>3. object'[u] = "alive" /\ u \in listed' /\ refs'[u] = IF u \in Script THEN 2 ELSE 1
      BY <1>1, <1>4, <2>2 DEF New, OwnTypes
    <3> QED  BY <3>2, <3>3 DEF RefsOf, Count
  <2> QED  BY <2>1, <2>2
<1>5. ASSUME NEW w \in Socket, Collects(w)
      PROVE  RefsOf(u)'
  <2>1. CASE u # w
    BY <1>1, <1>3, <1>5, <2>1 DEF Collects, OwnTypes
  <2>2. CASE u = w
    <3>1. /\ object[w] = "alive" /\ w \in Script /\ w \notin finalized /\ w \in finalized'
          /\ refs[w] \in 1..2 /\ w \in listed /\ heard' = heard /\ object' = object
          /\ listed' = listed
      BY <1>5, Owners DEF Collects
    <3>2. w \notin pooled
      BY <3>1 DEF IInv, PooledFinalized
    <3>3. refs[w] = Count(~Closed(w)) + 1
      BY <1>1, <3>1, <3>2 DEF RefsOf, Count
    <3>4. Closed(w)' <=> Closed(w)
      BY <3>1 DEF Closed
    <3>5. CASE refs[w] = 1
      <4>1. Closed(w) /\ w \in pooled' /\ refs'[w] = 1
        BY <1>5, <3>3, <3>5 DEF Collects, Count
      <4> QED  BY <2>2, <3>1, <3>4, <4>1 DEF RefsOf, Count
    <3>6. CASE refs[w] # 1
      <4>1. ~Closed(w) /\ w \notin pooled' /\ refs'[w] = 1
        BY <1>1, <1>5, <3>1, <3>2, <3>3, <3>6 DEF Collects, Count, OwnTypes
      <4> QED  BY <2>2, <3>1, <3>4, <4>1 DEF RefsOf, Count
    <3> QED  BY <3>5, <3>6
  <2> QED  BY <2>1, <2>2
<1>6. ASSUME NEW w \in Socket, object[w] = "alive", Release(w), u # w,
             heard'[u] = heard[u], u \in finalized' <=> u \in finalized,
             u \in pooled' <=> u \in pooled
      PROVE  RefsOf(u)'
  <2>1. refs'[u] = refs[u] /\ (u \in listed' <=> u \in listed)
    BY <1>1, <1>6, Released DEF OwnTypes
  <2>2. object'[u] = object[u]
    BY <1>1, <1>6, Released DEF OwnTypes
  <2> QED  BY <1>3, <1>6, <2>1, <2>2
<1>7. ASSUME object[u] = "alive", Release(u),
             Count(~Closed(u)) + Count(u \in Script \ finalized) + Count(u \in pooled) - 1
             = (Count(~Closed(u)) + Count(u \in Script \ finalized) + Count(u \in pooled))'
      PROVE  RefsOf(u)'
  <2>1. refs[u] = Count(~Closed(u)) + Count(u \in Script \ finalized) + Count(u \in pooled)
    BY <1>1, <1>7 DEF RefsOf
  <2>2. refs'[u] = (Count(~Closed(u)) + Count(u \in Script \ finalized) + Count(u \in pooled))'
    <3>1. refs'[u] = refs[u] - 1
      BY <1>7, Released
    <3> QED  BY <1>7, <2>1, <3>1 DEF Count
  <2>3. refs'[u] \in 0..1 /\ u \in listed
    BY <1>7, Released, Owners
  <2>4. CASE refs'[u] # 0
    <3>1. object' = object /\ listed' = listed
      BY <1>7, <2>4, Released
    <3> QED  BY <1>7, <2>2, <2>3, <2>4, <3>1 DEF RefsOf
  <2>5. CASE refs'[u] = 0
    <3>1. object'[u] \in {"dying", "deleted"} /\ u \notin listed'
      BY <1>1, <1>7, <2>5, Released DEF OwnTypes
    <3> QED  BY <2>2, <2>5, <3>1 DEF RefsOf
  <2> QED  BY <2>4, <2>5
<1>8. ASSUME NEW w \in Socket, ClearPool(w)
      PROVE  RefsOf(u)'
  <2>1. /\ object[w] = "alive" /\ Release(w) /\ w \in pooled /\ pooled' = pooled \ {w}
        /\ heard' = heard /\ finalized' = finalized
    BY <1>8, Owners DEF ClearPool
  <2>2. CASE u # w
    BY <1>6, <2>1, <2>2
  <2>3. CASE u = w
    <3>1. Closed(u)' <=> Closed(u)
      BY <2>1 DEF Closed
    <3> QED  BY <1>7, <2>1, <2>3, <3>1 DEF Count
  <2> QED  BY <2>2, <2>3
<1>9. ASSUME NEW w \in Socket, Closes(w)
      PROVE  RefsOf(u)'
  <2>1. object[w] = "alive" /\ Release(w) /\ Hear(w, "close") /\ UNCHANGED <<finalized, pooled>>
    BY <1>9 DEF Closes, OnClose
  <2>2. Closed(w)' /\ \A v \in Socket \ {w} : heard'[v] = heard[v]
    BY <1>1, <2>1, Heard DEF What
  <2>3. ~Closed(w)
    BY <1>9, CloseNotHeard
  <2>4. CASE u # w
    BY <1>6, <2>1, <2>2, <2>4
  <2>5. CASE u = w
    BY <1>7, <2>1, <2>2, <2>3, <2>5 DEF Count
  <2> QED  BY <2>4, <2>5
<1>10. CASE Join
  <2>1. closing \in Socket /\ object[closing] = "dying" /\ object' = [object EXCEPT ![closing] = "deleted"]
    BY <1>1, <1>10 DEF Join, MainStands
  <2>2. UNCHANGED <<refs, listed, heard, finalized, pooled>>
    BY <1>10 DEF Join, script
  <2>3. CASE u # closing
    BY <1>1, <1>3, <2>1, <2>2, <2>3 DEF OwnTypes
  <2>4. CASE u = closing
    <3>1. object'[u] = "deleted" /\ (Closed(u)' <=> Closed(u))
      BY <1>1, <2>1, <2>2, <2>4 DEF OwnTypes, Closed
    <3> QED  BY <1>1, <2>1, <2>2, <2>4, <3>1 DEF RefsOf, Count
  <2> QED  BY <2>3, <2>4
<1>11. CASE Owns /\ Hears
  <2>1. CASE heard' = heard
    BY <1>3, <1>11, <2>1 DEF Owns
  <2>2. CASE heard' # heard
    <3>1. PICK w \in Socket, what \in What \ {"close"} :
                 /\ functions[1] = [ws |-> w, what |-> what] /\ object[w] = "alive"
                 /\ Hear(w, what) /\ 1 \in DOMAIN functions
      BY <1>11, <2>2 DEF Hears
    <3>2. ~Closed(w) /\ ~Closed(w)' /\ \A v \in Socket \ {w} : heard'[v] = heard[v]
      BY <1>1, <3>1, Heard, NotYetClosed
    <3>3. CASE u # w
      BY <1>3, <1>11, <3>2, <3>3 DEF Owns
    <3>4. CASE u = w
      BY <1>1, <1>11, <3>2, <3>4 DEF Owns, RefsOf, Count
    <3> QED  BY <3>3, <3>4
  <2> QED  BY <2>1, <2>2
<1> QED  BY <1>1, <1>4, <1>5, <1>8, <1>9, <1>10, <1>11, OwnSteps


-----------------------------------------------------------------------------
(* The main thread.                                                        *)

(* Only close() makes a socket one that it closes, for ever.               *)
LEMMA SyncStep ==
    ASSUME IInv, [Next]_vars, NEW u \in Socket
    PROVE  /\ Sync(u) => Sync(u)'
           /\ Sync(u)' => Sync(u) \/ (main = "close" /\ closing = u)
           /\ closeState'[u] \in {"SYNC_CLOSING", "SYNC_CLOSED"} =>
                  Sync(u)' \/ closeState[u] \in {"SYNC_CLOSING", "SYNC_CLOSED"}
<1>1. StateTypes /\ MainStands
  BY TypeParts DEF IInv
<1> USE DEF Sync, impls, states, thread, mained, script, history
<1>2. CASE Stores
  <2>1. CASE AnnounceAsync(closing) /\ UNCHANGED synced
    BY <1>1, <2>1 DEF AnnounceAsync, StateTypes
  <2>2. CASE AnnounceAsync(event) /\ UNCHANGED synced
    BY <1>1, <2>2 DEF AnnounceAsync, StateTypes
  <2>3. CASE UNCHANGED <<closeState, synced>>
    BY <2>3
  <2>4. CASE /\ closeState' = [closeState EXCEPT ![closing] = "SYNC_CLOSING"]
             /\ main = "close" /\ synced' = synced \cup {closing}
    BY <1>1, <2>4 DEF StateTypes
  <2> QED  BY <1>2, <2>1, <2>2, <2>3, <2>4, StoreStates
<1>3. CASE EndWait
  <2>1. closing \in Socket /\ Sync(closing) /\ UNCHANGED synced
    BY <1>1, <1>3 DEF EndWait, MainStands
  <2> QED  BY <1>1, <1>3, <2>1 DEF EndWait, StateTypes
<1>4. ASSUME NEW w \in Socket,
             \/ New(w) \/ Send(w) \/ CloseAsync(w) \/ Close(w) \/ Finalize(w)
             \/ ClearPool(w)
      PROVE  UNCHANGED <<closeState, synced>>
  BY <1>4 DEF New, Send, CloseAsync, Close, Finalize, ClearPool
<1>5. ASSUME NEW w \in Socket, NEW why \in Reasons, Service(w, why)
      PROVE  UNCHANGED <<closeState, synced>>
  BY <1>5 DEF Service
<1>6. CASE HandleCase
  <2>1. UNCHANGED synced
    BY <1>6 DEF HandleCase
  <2>2. UNCHANGED closeState
    BY <1>6 DEF HandleCase, Handles, OnConnectionOpened, OnClientReceivedData,
                OnConnectionError, OnWsiDestroy, RefuseToWrite, NothingToWrite, WritePiece,
                LoseWrite
  <2> QED  BY <2>1, <2>2
<1>7. CASE LockReadyState \/ BeginWait \/ WakeSpuriously \/ OnCloseAfterWait \/ Join
           \/ RunFunction \/ OnSubThreadStarted \/ OnConnectionClosed
           \/ Handshake \/ PostClosed \/ OnSubThreadEnded \/ UNCHANGED vars
  <2>1. UNCHANGED <<closeState, synced>>
    BY <1>7 DEF LockReadyState, BeginWait, WakeSpuriously, OnCloseAfterWait, Join,
                RunFunction, OnSubThreadStarted, OnConnectionClosed, Handshake,
                PostClosed, OnSubThreadEnded, vars
  <2> QED  BY <2>1
<1>8. CASE OpenConnection
  <2>1. UNCHANGED <<closeState, synced>>
    BY <1>8 DEF OpenConnection
  <2> QED  BY <2>1
<1> QED  BY <1>2, <1>3, <1>4, <1>5, <1>6, <1>7, <1>8, Steps

(* A release by the main thread returns it, or leaves it in a join.        *)
LEMMA ReleaseStands ==
    ASSUME IInv, [Next]_vars, NEW w \in Socket, object[w] = "alive", Release(w),
           main = "idle" \/ main = "onClose", UNCHANGED <<closeState, synced>>
    PROVE  MainTypes' /\ MainStands'
<1>1. OwnTypes /\ MainStands
  BY TypeParts DEF IInv
<1>2. \A u \in Socket : object[u] # "dying"
  BY <1>1 DEF MainStands
<1>3. \A u \in Socket : /\ Sync(u)' => u \notin Script
                        /\ closeState'[u] \in {"SYNC_CLOSING", "SYNC_CLOSED"} => Sync(u)'
  BY <1>1 DEF MainStands, Sync
<1>4. CASE main' = "idle" /\ closing' = None /\ object' = object
  BY <1>2, <1>3, <1>4 DEF MainTypes, MainStands
<1>5. CASE main' = "idle" /\ closing' = None /\ object' = [object EXCEPT ![w] = "deleted"]
  BY <1>1, <1>2, <1>3, <1>5 DEF MainTypes, MainStands, OwnTypes
<1>6. CASE main' = "join" /\ closing' = w /\ object' = [object EXCEPT ![w] = "dying"]
  BY <1>1, <1>2, <1>3, <1>6 DEF MainTypes, MainStands, OwnTypes
<1> QED  BY <1>4, <1>5, <1>6, Released

LEMMA MainStandsStep ==
    ASSUME IInv, [Next]_vars
    PROVE  MainTypes' /\ MainStands'
<1>1. OwnTypes /\ MainTypes /\ StateTypes /\ MainStands /\ Unborn /\ TypeOK
  BY TypeParts DEF IInv
<1> USE DEF impls, states, thread, mained, script, history
<1>2. \A u \in Socket : /\ Sync(u) => Sync(u)'
                        /\ Sync(u)' => Sync(u) \/ (main = "close" /\ closing = u)
                        /\ closeState'[u] \in {"SYNC_CLOSING", "SYNC_CLOSED"} =>
                               Sync(u)' \/ closeState[u] \in {"SYNC_CLOSING", "SYNC_CLOSED"}
  BY SyncStep
<1>3. \A u \in Socket : /\ Sync(u)' => u \notin Script
                        /\ closeState'[u] \in {"SYNC_CLOSING", "SYNC_CLOSED"} => Sync(u)'
  BY <1>1, <1>2 DEF MainStands
<1>4. ASSUME UNCHANGED <<object, main, closing>>
      PROVE  MainTypes' /\ MainStands'
  BY <1>1, <1>2, <1>3, <1>4 DEF MainTypes, MainStands
<1>5. ASSUME NEW w \in Socket, New(w)
      PROVE  MainTypes' /\ MainStands'
  BY <1>1, <1>2, <1>3, <1>5 DEF New, MainTypes, MainStands, OwnTypes
<1>6. ASSUME NEW w \in Socket, Close(w)
      PROVE  MainTypes' /\ MainStands'
  <2>2. main' = "close" /\ closing' = w /\ object' = object /\ object[w] = "alive" /\ w \notin Script
        /\ main = "idle"
    BY <1>6 DEF Close, MayUse
  <2> QED  BY <1>1, <1>3, <2>2 DEF MainTypes, MainStands
<1>7. ASSUME NEW w \in Socket, ClearPool(w)
      PROVE  MainTypes' /\ MainStands'
  <2>1. object[w] = "alive" /\ Release(w) /\ main = "idle" /\ UNCHANGED <<closeState, synced>>
    BY <1>7, Owners DEF ClearPool
  <2> QED  BY <2>1, ReleaseStands
<1>8. CASE OnCloseAfterWait
  <2>1. PICK w \in Socket : w = closing /\ object[w] = "alive"
    BY <1>1, <1>8 DEF OnCloseAfterWait, MainStands
  <2>2. Release(w) /\ main = "onClose" /\ UNCHANGED <<closeState, synced>>
    BY <1>8, <2>1 DEF OnCloseAfterWait, OnClose
  <2> QED  BY <2>1, <2>2, ReleaseStands
<1>9. CASE RunFunction
  <2>1. PICK w \in Socket :
            /\ main = "idle" /\ UNCHANGED <<closeState, synced>>
            /\ \/ UNCHANGED <<object, main, closing>>
               \/ object[w] = "alive" /\ OnClose(w)
    BY <1>1, <1>9, RunCases
  <2>2. CASE object[w] = "alive" /\ OnClose(w)
    BY <2>1, <2>2, ReleaseStands DEF OnClose
  <2> QED  BY <1>4, <2>1, <2>2
<1>10. CASE Join
  <2>1. main = "join" /\ main' = "idle" /\ closing' = None
        /\ object' = [object EXCEPT ![closing] = "deleted"]
    BY <1>10 DEF Join
  <2> QED  BY <1>1, <1>3, <2>1 DEF MainTypes, MainStands, OwnTypes
<1>11. ASSUME object' = object, closing' = closing,
              main \in {"lock", "unlock", "wait", "woken"},
              main' \in {"lock", "unlock", "wait", "woken", "onClose"}
       PROVE  MainTypes' /\ MainStands'
  BY <1>1, <1>2, <1>3, <1>11 DEF MainTypes, MainStands
<1>12. CASE LockReadyState \/ BeginWait \/ WakeSpuriously \/ EndWait
  BY <1>11, <1>12 DEF LockReadyState, BeginWait, WakeSpuriously, EndWait
<1>13. CASE Handshake
  <2>1. object' = object /\ closing' = closing
    BY <1>13 DEF Handshake
  <2>2. CASE main' = main
    BY <1>4, <2>1, <2>2
  <2>3. CASE main' # main
    BY <1>11, <1>13, <2>1, <2>3 DEF Handshake
  <2> QED  BY <2>2, <2>3
<1>14. ASSUME NEW w \in Socket, Send(w) \/ CloseAsync(w) \/ Finalize(w)
       PROVE  MainTypes' /\ MainStands'
  <2>1. /\ object' = object /\ object[w] = "alive" /\ main = "idle"
        /\ UNCHANGED mained \/ (main' = "closeAsync" /\ closing' = w)
    BY <1>14 DEF Send, CloseAsync, Finalize, CallCloseAsync, MayUse
  <2>2. CASE main' = "closeAsync" /\ closing' = w
    BY <1>1, <1>3, <2>1, <2>2 DEF MainTypes, MainStands
  <2> QED  BY <1>4, <2>1, <2>2
<1>17. CASE Stores
  <2>1. object' = object
    BY <1>17, StoreSteps
  <2>2. CASE main' = "idle" /\ closing' = None /\ main \in {"closeAsync", "asyncLock", "close"}
    BY <1>1, <1>3, <2>1, <2>2 DEF MainTypes, MainStands
  <2>3. CASE StoreSync
    <3>1. main = "close" /\ main' = "lock" /\ closing' = closing /\ closing \in Socket
          /\ synced' = synced \cup {closing}
      BY <1>1, <2>3 DEF StoreSync, MainStands
    <3>2. Sync(closing)'
      BY <3>1 DEF Sync
    <3> QED  BY <1>1, <1>3, <2>1, <3>1, <3>2 DEF MainTypes, MainStands
  <2>4. CASE StoreAsync
    <3>1. main = "closeAsync" /\ main' = "asyncLock" /\ closing' = closing
      BY <2>4 DEF StoreAsync
    <3> QED  BY <1>1, <1>3, <2>1, <3>1 DEF MainTypes, MainStands
  <2>5. CASE EndCloseAsync
    BY <2>2, <2>5 DEF EndCloseAsync
  <2>6. CASE NetStores
    BY <1>4, <2>1, <2>6 DEF NetStores, StoreAsyncInThread, EndCloseAsyncInThread
  <2> QED  BY <1>17, <2>3, <2>4, <2>5, <2>6 DEF Stores, MainStores
<1>15. ASSUME NEW w \in Socket, NEW why \in Reasons, Service(w, why)
       PROVE  UNCHANGED <<object, main, closing>>
  BY <1>15 DEF Service
<1>16. CASE OpenConnection \/ HandleCase \/ OnSubThreadStarted \/ OnConnectionClosed
            \/ PostClosed \/ OnSubThreadEnded \/ UNCHANGED vars
  <2>1. UNCHANGED <<object, main, closing>>
    BY <1>16 DEF OpenConnection, HandleCase, OnSubThreadStarted, OnConnectionClosed,
                 PostClosed, OnSubThreadEnded, vars
  <2> QED  BY <1>4, <2>1
<1> QED  BY <1>4, <1>5, <1>6, <1>7, <1>8, <1>9, <1>10, <1>12, <1>13, <1>14, <1>15, <1>16,
            <1>17, Steps

LEMMA PooledStep ==
    ASSUME IInv, [Next]_vars
    PROVE  PooledFinalized'
<1>1. PooledFinalized /\ TypeOK /\ Unborn /\ MainStands
  BY DEF IInv
<1> QED  BY <1>1, OwnSteps
            DEF PooledFinalized, New, Collects, ClearPool, Closes, Join, Owns, script


-----------------------------------------------------------------------------
(* The network thread and its sockets.                                     *)
LEMMA ThreadStep ==
    ASSUME IInv, [Next]_vars
    PROVE  ThreadWithSockets' /\ JoinsLast'
<1>1. /\ OwnTypes /\ MainTypes /\ MainStands /\ Unborn /\ TypeOK
      /\ (net # "none" <=> (listed # {} \/ main = "join"))
      /\ (needQuit => listed = {} /\ main = "join")
      /\ (main = "join" => listed = {})
  BY TypeParts DEF IInv, ThreadWithSockets, JoinsLast
<1> USE DEF impls, states, thread, mained, script, history
<1> DEFINE Kept == ThreadWithSockets' /\ JoinsLast'
<1>2. ASSUME net' # "none" <=> net # "none", UNCHANGED <<listed, needQuit>>,
             main' = "join" <=> main = "join"
      PROVE  Kept
  BY <1>1, <1>2, Zenon DEF ThreadWithSockets, JoinsLast
<1>3. ASSUME NEW w \in Socket, New(w)
      PROVE  Kept
  <2>1. net' # "none" /\ listed' # {} /\ main' = "idle" /\ main = "idle" /\ needQuit' = needQuit
    BY <1>3 DEF New
  <2>2. ~needQuit'
    BY <1>1, <2>1
  <2> QED  BY <2>1, <2>2 DEF ThreadWithSockets, JoinsLast
<1>4. ASSUME NEW w \in Socket, object[w] = "alive", Release(w), main # "join", UNCHANGED net
      PROVE  Kept
  <2>1. w \in listed /\ net # "none" /\ net' # "none" /\ ~needQuit
    BY <1>1, <1>4, Owners
  <2>2. CASE main' = "idle" /\ UNCHANGED <<listed, needQuit>>
    BY <1>1, <2>1, <2>2 DEF ThreadWithSockets, JoinsLast
  <2>3. CASE main' = "idle" /\ listed' # {} /\ UNCHANGED needQuit
    BY <1>1, <2>1, <2>3 DEF ThreadWithSockets, JoinsLast
  <2>4. CASE main' = "join" /\ listed' = {}
    BY <2>1, <2>4 DEF ThreadWithSockets, JoinsLast
  <2> QED  BY <1>4, <2>2, <2>3, <2>4, Released
<1>5. ASSUME NEW w \in Socket, ClearPool(w)
      PROVE  Kept
  <2>1. object[w] = "alive" /\ Release(w) /\ main # "join" /\ UNCHANGED net
    BY <1>5, Owners DEF ClearPool
  <2> QED  BY <1>4, <2>1
<1>6. CASE OnCloseAfterWait
  <2>1. PICK w \in Socket : w = closing /\ object[w] = "alive"
    BY <1>1, <1>6 DEF OnCloseAfterWait, MainStands
  <2>2. Release(w) /\ main # "join" /\ UNCHANGED net
    BY <1>6, <2>1 DEF OnCloseAfterWait, OnClose
  <2> QED  BY <1>4, <2>1, <2>2
<1>7. CASE RunFunction
  <2>1. PICK w \in Socket :
            /\ main = "idle" /\ UNCHANGED net
            /\ \/ UNCHANGED <<listed, needQuit, main>>
               \/ object[w] = "alive" /\ OnClose(w)
    BY <1>1, <1>7, RunCases
  <2>2. CASE object[w] = "alive" /\ OnClose(w)
    BY <1>4, <2>1, <2>2 DEF OnClose
  <2>3. CASE UNCHANGED <<listed, needQuit, main>>
    BY <1>2, <2>1, <2>3
  <2> QED  BY <2>1, <2>2, <2>3
<1>8. CASE Join
  BY <1>1, <1>8 DEF Join, ThreadWithSockets, JoinsLast
<1>9. ASSUME NEW w \in Socket, Send(w) \/ CloseAsync(w) \/ Close(w) \/ Finalize(w)
      PROVE  Kept
  <2>1. UNCHANGED <<net, listed, needQuit>> /\ (main' = "join" <=> main = "join")
    BY <1>9 DEF Send, CloseAsync, Close, MayUse, Finalize, CallCloseAsync
  <2> QED  BY <1>2, <2>1
<1>10. CASE LockReadyState \/ BeginWait \/ WakeSpuriously \/ EndWait \/ Handshake
  <2>1. UNCHANGED <<listed, needQuit>> /\ (main' = "join" <=> main = "join")
    BY <1>10 DEF LockReadyState, BeginWait, WakeSpuriously, EndWait, Handshake
  <2>2. net' # "none" <=> net # "none"
    BY <1>10 DEF LockReadyState, BeginWait, WakeSpuriously, EndWait, Handshake, BackToLoop
  <2> QED  BY <1>2, <2>1, <2>2
<1>11. ASSUME NEW w \in Socket, NEW why \in Reasons, Service(w, why)
       PROVE  Kept
  <2>1. UNCHANGED <<listed, needQuit, main>> /\ net # "none" /\ net' # "none"
    BY <1>11 DEF Service
  <2> QED  BY <1>2, <2>1
<1>12. CASE OpenConnection
  <2>1. UNCHANGED <<listed, needQuit, main>> /\ net # "none" /\ net' # "none"
    BY <1>12, OpenCases, TypeParts, <1>1 DEF Opens
  <2> QED  BY <1>2, <2>1
<1>13. CASE HandleCase
  <2>1. UNCHANGED <<listed, needQuit, main>> /\ net = "handle"
    BY <1>13 DEF HandleCase
  <2>2. ASSUME NEW i \in DOMAIN messages, WritePiece(event, i) \/ LoseWrite(event, i)
        PROVE  net' # "none"
    BY <2>2 DEF WritePiece, LoseWrite, BackToLoop
  <2>3. net' # "none"
    BY <1>13, <2>2 DEF HandleCase, Handles, OnConnectionOpened, OnClientReceivedData,
                       OnConnectionError, OnWsiDestroy, RefuseToWrite, NothingToWrite,
                       BackToLoop
  <2> QED  BY <1>2, <2>1, <2>3
<1>14. CASE OnSubThreadStarted \/ OnConnectionClosed \/ PostClosed \/ OnSubThreadEnded
  <2>1. UNCHANGED <<listed, needQuit, main>> /\ net # "none" /\ net' # "none"
    BY <1>14 DEF OnSubThreadStarted, OnConnectionClosed, PostClosed, OnSubThreadEnded,
                 BackToLoop
  <2> QED  BY <1>2, <2>1
<1>15. CASE UNCHANGED vars
  <2>1. UNCHANGED <<listed, needQuit, main, net>>
    BY <1>15 DEF vars
  <2> QED  BY <1>2, <2>1
<1>16. CASE Stores
  <2>1. /\ UNCHANGED <<listed, needQuit>> /\ (main' = "join" <=> main = "join")
        /\ net' # "none" <=> net # "none"
    BY <1>16, StoreSteps DEF BackToLoop
  <2> QED  BY <1>2, <2>1
<1> QED  BY <1>3, <1>5, <1>6, <1>7, <1>8, <1>9, <1>10, <1>11, <1>12, <1>13, <1>14, <1>15,
            <1>16, Steps

LEMMA RestTypesStep ==
    ASSUME IInv, [Next]_vars
    PROVE  RestTypes'
<1>1. /\ RestTypes /\ QueueTypes /\ OwnTypes /\ MainStands /\ Unborn /\ TypeOK
  BY TypeParts DEF IInv
<1> USE DEF impls, states, thread, mained, script, history
<1>2. ASSUME attached' \subseteq Script, needQuit' \in BOOLEAN,
             UNCHANGED <<sent, received, wire, broken, synced>>
      PROVE  RestTypes'
  BY <1>1, <1>2 DEF RestTypes
<1>3. ASSUME NEW w \in Socket, object[w] = "alive", Release(w)
      PROVE  needQuit' \in BOOLEAN
  BY <1>1, <1>3, Released, Zenon DEF RestTypes
<1>4. ASSUME NEW w \in Socket, New(w) \/ Close(w) \/ Finalize(w) \/ CloseAsync(w)
      PROVE  RestTypes'
  <2>1. attached' \subseteq Script /\ UNCHANGED <<needQuit, sent, received, wire, broken, synced>>
    BY <1>1, <1>4 DEF New, Close, Finalize, CloseAsync, RestTypes
  <2> QED  BY <1>1, <1>2, <2>1 DEF RestTypes
<1>5. ASSUME NEW w \in Socket, Send(w)
      PROVE  RestTypes'
  <2>1. sent' \in [Socket -> Nat] /\ UNCHANGED <<attached, needQuit, received, wire, broken, synced>>
    BY <1>1, <1>5 DEF Send, RestTypes
  <2> QED  BY <1>1, <2>1 DEF RestTypes
<1>6. ASSUME NEW w \in Socket, ClearPool(w)
      PROVE  RestTypes'
  <2>1. object[w] = "alive" /\ Release(w) /\ UNCHANGED <<attached, sent, received, wire, broken, synced>>
    BY <1>6, Owners DEF ClearPool
  <2> QED  BY <1>1, <1>2, <1>3, <2>1 DEF RestTypes
<1>7. CASE OnCloseAfterWait
  <2>1. PICK w \in Socket : w = closing /\ object[w] = "alive"
    BY <1>1, <1>7 DEF OnCloseAfterWait, MainStands
  <2>2. /\ Release(w) /\ attached' = attached \ {w}
        /\ UNCHANGED <<sent, received, wire, broken, synced>>
    BY <1>7, <2>1 DEF OnCloseAfterWait, OnClose
  <2> QED  BY <1>1, <1>2, <1>3, <2>1, <2>2 DEF RestTypes
<1>8. CASE RunFunction
  <2>1. PICK w \in Socket :
            /\ UNCHANGED <<sent, received, wire, broken, synced>>
            /\ \/ UNCHANGED <<attached, needQuit>>
               \/ object[w] = "alive" /\ OnClose(w)
    BY <1>1, <1>8, RunCases
  <2>2. CASE object[w] = "alive" /\ OnClose(w)
    <3>1. Release(w) /\ attached' = attached \ {w}
      BY <2>2 DEF OnClose
    <3> QED  BY <1>1, <1>2, <1>3, <2>1, <2>2, <3>1 DEF RestTypes
  <2>3. CASE UNCHANGED <<attached, needQuit>>
    BY <1>1, <1>2, <2>1, <2>3 DEF RestTypes
  <2> QED  BY <2>1, <2>2, <2>3
<1>9. CASE Join
  BY <1>1, <1>2, <1>9 DEF Join, RestTypes
<1>10. ASSUME NEW w \in Socket, NEW why \in Reasons, Service(w, why)
       PROVE  RestTypes'
  <2>1. received' \in Nat /\ UNCHANGED <<attached, needQuit, sent, wire, broken, synced>>
    BY <1>1, <1>10 DEF Service, RestTypes
  <2> QED  BY <1>1, <2>1 DEF RestTypes
<1>11. CASE HandleCase
  <2>1. UNCHANGED <<attached, needQuit, sent, received, synced>>
    BY <1>11 DEF HandleCase
  <2>2. CASE UNCHANGED <<wire, broken>>
    BY <1>1, <1>2, <2>1, <2>2 DEF RestTypes
  <2>3. ASSUME NEW i \in DOMAIN messages, LoseWrite(event, i), event \in Socket
        PROVE  RestTypes'
    <3>1. wire' = wire /\ broken' \subseteq Socket
      BY <1>1, <2>3 DEF LoseWrite, RestTypes
    <3> QED  BY <1>1, <2>1, <3>1 DEF RestTypes
  <2>4. ASSUME NEW i \in DOMAIN messages, WritePiece(event, i), event \in Socket
        PROVE  RestTypes'
    <3>1. messages[i] \in Message
      BY <1>1 DEF QueueTypes
    <3>2. messages[i].what \in Nat /\ messages[i].issued + 1 \in 1..Fragments
      BY <3>1, WebSocketAssumption DEF Message
    <3>3. <<messages[i].what, messages[i].issued + 1>> \in Nat \X (1..Fragments)
      BY <3>2
    <3>4. Append(wire[event], <<messages[i].what, messages[i].issued + 1>>)
             \in Seq(Nat \X (1..Fragments))
      BY <1>1, <2>4, <3>3, AppendProps DEF RestTypes
    <3>5. /\ wire' = [wire EXCEPT ![event] =
                         Append(wire[event], <<messages[i].what, messages[i].issued + 1>>)]
          /\ broken' = broken
      BY <1>1, <2>4 DEF WritePiece, RestTypes
    <3>6. wire' \in [Socket -> Seq(Nat \X (1..Fragments))]
      BY <1>1, <2>4, <3>4, <3>5 DEF RestTypes
    <3> QED  BY <1>1, <2>1, <3>5, <3>6 DEF RestTypes
  <2>5. event \in Socket
    BY <1>11 DEF IInv, NetStands, HandleCase, Working
  <2> QED  BY <1>11, <2>2, <2>3, <2>4, <2>5
              DEF HandleCase, Handles, OnConnectionOpened, OnClientReceivedData,
                  OnConnectionError, OnWsiDestroy, RefuseToWrite, NothingToWrite
<1>12. CASE LockReadyState \/ BeginWait \/ WakeSpuriously \/ EndWait \/ Handshake
            \/ OnSubThreadStarted \/ OnConnectionClosed \/ PostClosed \/ OnSubThreadEnded
            \/ UNCHANGED vars
  <2>1. UNCHANGED <<attached, needQuit, sent, received, wire, broken, synced>>
    BY <1>12 DEF LockReadyState, BeginWait, WakeSpuriously, EndWait, Handshake,
                 OnSubThreadStarted, OnConnectionClosed, PostClosed, OnSubThreadEnded, vars
  <2> QED  BY <1>1, <1>2, <2>1 DEF RestTypes
<1>13. CASE OpenConnection
  <2>1. UNCHANGED <<attached, needQuit, sent, received, wire, broken, synced>>
    BY <1>13 DEF OpenConnection
  <2> QED  BY <1>1, <1>2, <2>1 DEF RestTypes
<1>14. CASE Stores
  <2>1. UNCHANGED <<attached, needQuit, sent, received, wire, broken>>
    BY <1>14, StoreSteps
  <2>2. synced' = synced \/ (synced' = synced \cup {closing} /\ closing \in Socket)
    BY <1>1, <1>14, StoreStates DEF MainStands
  <2> QED  BY <1>1, <2>1, <2>2 DEF RestTypes
<1> QED  BY <1>4, <1>5, <1>6, <1>7, <1>8, <1>9, <1>10, <1>11, <1>12, <1>13, <1>14, Steps


-----------------------------------------------------------------------------
(* The messages to be sent and the requests to connect.                    *)
Unique == \A i, j \in Creates : messages[i].ws = messages[j].ws => i = j

(* Every message that is left was there before.                            *)
Thins ==
    \A j \in DOMAIN messages' : \E k \in DOMAIN messages :
        messages'[j].ws = messages[k].ws /\ messages'[j].what = messages[k].what

LEMMA RemoveMessage ==
    ASSUME messages \in Seq(Message), Unique, NEW i \in DOMAIN messages,
           messages' = RemoveAt(messages, i)
    PROVE  /\ messages' \in Seq(Message) /\ Thins /\ Unique'
           /\ i \in Creates => \A j \in Creates' : messages'[j].ws # messages[i].ws
<1>1. /\ messages' \in Seq(Message)
      /\ \A j \in DOMAIN messages' :
             \E k \in DOMAIN messages : /\ k # i /\ messages'[j] = messages[k]
                                        /\ k = IF j < i THEN j ELSE j + 1
  BY RemoveProps
<1>2. Thins
  BY <1>1 DEF Thins
<1>3. DOMAIN messages' \subseteq Int
  BY <1>1
<1>4. ASSUME NEW j \in Creates', NEW l \in Creates', messages'[j].ws = messages'[l].ws
      PROVE  j = l
  <2>1. j \in DOMAIN messages' /\ l \in DOMAIN messages' /\ j \in Int /\ l \in Int
    BY <1>3, <1>4 DEF Creates
  <2>2. PICK k \in DOMAIN messages : /\ messages'[j] = messages[k]
                                     /\ k = IF j < i THEN j ELSE j + 1
    BY <1>1, <2>1
  <2>3. PICK m \in DOMAIN messages : /\ messages'[l] = messages[m]
                                     /\ m = IF l < i THEN l ELSE l + 1
    BY <1>1, <2>1
  <2>4. k \in Creates /\ m \in Creates
    BY <1>4, <2>2, <2>3 DEF Creates
  <2>5. k = m
    BY <1>4, <2>2, <2>3, <2>4 DEF Unique
  <2>6. i \in Int
    BY <1>1
  <2> QED  BY <2>1, <2>2, <2>3, <2>5, <2>6
<1>5. ASSUME i \in Creates, NEW j \in Creates'
      PROVE  messages'[j].ws # messages[i].ws
  <2>1. j \in DOMAIN messages'
    BY DEF Creates
  <2>2. PICK k \in DOMAIN messages : k # i /\ messages'[j] = messages[k]
    BY <1>1, <2>1
  <2>3. k \in Creates
    BY <2>2, <1>5 DEF Creates
  <2> QED  BY <1>5, <2>2, <2>3 DEF Unique
<1> QED  BY <1>1, <1>2, <1>4, <1>5 DEF Unique

(* What steps do to the list.                                              *)
LEMMA MessageSteps ==
    ASSUME IInv, [Next]_vars
    PROVE  /\ messages' \in Seq(Message)
           /\ Unique'
           /\ \/ \E w \in Socket : \E m \in Message :
                     (New(w) \/ Send(w)) /\ m.ws = w /\ messages' = Append(messages, m)
              \/ Thins
<1>1. /\ messages \in Seq(Message) /\ Unique /\ TypeOK /\ Unborn /\ MainStands
      /\ QueueTypes /\ RestTypes
  BY TypeParts DEF IInv, Requests, Unique, QueueTypes
<1> USE DEF impls, states, thread, mained, script, history
<1>2. ASSUME UNCHANGED messages
      PROVE  messages' \in Seq(Message) /\ Thins /\ Unique'
  BY <1>1, <1>2 DEF Thins, Unique, Creates
<1>3. ASSUME messages' = <<>>
      PROVE  messages' \in Seq(Message) /\ Thins /\ Unique'
  BY <1>3 DEF Thins, Unique, Creates
<1>4. ASSUME NEW m \in Message, messages' = Append(messages, m),
             m.what = 0 => \A i \in DOMAIN messages : messages[i].ws # m.ws
      PROVE  messages' \in Seq(Message) /\ Unique'
  <2>1. /\ messages' \in Seq(Message)
        /\ DOMAIN messages' = DOMAIN messages \cup {Len(messages) + 1}
        /\ \A i \in DOMAIN messages : messages'[i] = messages[i]
        /\ messages'[Len(messages) + 1] = m
    BY <1>1, <1>4, AppendProps
  <2> QED  BY <1>1, <1>4, <2>1 DEF Unique, Creates
<1>5. ASSUME NEW w \in Socket, New(w)
      PROVE  /\ messages' \in Seq(Message) /\ Unique'
             /\ \E m \in Message : m.ws = w /\ messages' = Append(messages, m)
  <2> DEFINE m == [ws |-> w, what |-> 0, issued |-> 0]
  <2>1. m \in Message /\ m.ws = w
    BY WebSocketAssumption DEF Message
  <2>2. messages' = Append(messages, m) /\ object[w] = "none"
    BY <1>5 DEF New
  <2>3. \A i \in DOMAIN messages : messages[i].ws # w
    BY <1>1, <2>2 DEF Unborn
  <2> HIDE DEF m
  <2> QED  BY <1>4, <2>1, <2>2, <2>3
<1>6. ASSUME NEW w \in Socket, Send(w)
      PROVE  /\ messages' \in Seq(Message) /\ Unique'
             /\ \E m \in Message : m.ws = w /\ messages' = Append(messages, m)
  <2> DEFINE m == [ws |-> w, what |-> sent[w] + 1, issued |-> 0]
  <2>1. sent[w] \in Nat /\ sent'[w] = sent[w] + 1
    BY <1>1, <1>6 DEF Send, RestTypes
  <2>2. m \in Message /\ m.ws = w /\ m.what # 0
    BY <2>1, WebSocketAssumption DEF Message
  <2>3. messages' = Append(messages, m)
    BY <1>6, <2>1 DEF Send
  <2> HIDE DEF m
  <2> QED  BY <1>4, <2>2, <2>3
<1>7. ASSUME NEW w \in Socket, NEW i \in Creates, Opens(w, i)
      PROVE  messages' \in Seq(Message) /\ Thins /\ Unique'
  <2>1. i \in DOMAIN messages /\ messages' = RemoveAt(messages, i)
    BY <1>7 DEF Opens, Creates
  <2> QED  BY <1>1, <2>1, RemoveMessage
<1>8. ASSUME NEW i \in DOMAIN messages, LoseWrite(event, i)
      PROVE  messages' \in Seq(Message) /\ Thins /\ Unique'
  <2>1. messages' = RemoveAt(messages, i)
    BY <1>8 DEF LoseWrite
  <2> QED  BY <1>1, <2>1, RemoveMessage
<1>9. ASSUME NEW i \in DOMAIN messages, WritePiece(event, i)
      PROVE  messages' \in Seq(Message) /\ Thins /\ Unique'
  <2>1. CASE messages[i].issued + 1 = Fragments
    <3>1. messages' = RemoveAt(messages, i)
      BY <1>9, <2>1 DEF WritePiece
    <3> QED  BY <1>1, <3>1, RemoveMessage
  <2>2. CASE messages[i].issued + 1 # Fragments
    <3>1. messages[i] \in Message
      BY <1>1
    <3>2. messages[i].issued + 1 \in 0..Fragments - 1
      BY <2>2, <3>1, WebSocketAssumption DEF Message
    <3>3. messages' = [messages EXCEPT ![i] = [messages[i] EXCEPT !.issued = messages[i].issued + 1]]
      BY <1>9, <2>2 DEF WritePiece
    <3>4. [messages[i] EXCEPT !.issued = messages[i].issued + 1] \in Message
      BY <3>1, <3>2 DEF Message
    <3>5. messages' \in Seq(Message)
      BY <1>1, <3>3, <3>4
    <3>6. DOMAIN messages' = DOMAIN messages
      BY <1>1, <3>3
    <3>7. \A j \in DOMAIN messages : messages'[j].ws = messages[j].ws
                                     /\ messages'[j].what = messages[j].what
      BY <1>1, <3>1, <3>3 DEF Message
    <3> QED  BY <1>1, <3>5, <3>6, <3>7 DEF Thins, Unique, Creates
  <2> QED  BY <2>1, <2>2
<1>10. CASE HandleCase
  <2>1. \/ UNCHANGED messages
        \/ \E i \in DOMAIN messages : WritePiece(event, i) \/ LoseWrite(event, i)
    BY <1>10 DEF HandleCase, Handles, OnConnectionOpened, OnClientReceivedData,
                 OnConnectionError, OnWsiDestroy, RefuseToWrite, NothingToWrite
  <2> QED  BY <1>2, <1>8, <1>9, <2>1
<1>11. ASSUME NEW w \in Socket, CloseAsync(w) \/ Close(w) \/ Finalize(w) \/ ClearPool(w)
       PROVE  UNCHANGED messages
  BY <1>11 DEF CloseAsync, Close, Finalize, ClearPool
<1>12. ASSUME NEW w \in Socket, NEW why \in Reasons, Service(w, why)
       PROVE  UNCHANGED messages
  BY <1>12 DEF Service
<1>13. CASE LockReadyState \/ BeginWait \/ WakeSpuriously \/ EndWait \/ OnCloseAfterWait
            \/ RunFunction \/ OnSubThreadStarted \/ OnConnectionClosed
            \/ Handshake \/ PostClosed \/ OnSubThreadEnded \/ UNCHANGED vars
  <2>1. UNCHANGED messages
    BY <1>13 DEF LockReadyState, BeginWait, WakeSpuriously, EndWait, OnCloseAfterWait,
                 RunFunction, OnSubThreadStarted, OnConnectionClosed,
                 Handshake, PostClosed, OnSubThreadEnded, vars
  <2> QED  BY <1>2, <2>1
<1>14. CASE Join
  BY <1>3, <1>14 DEF Join
<1>15. CASE OpenConnection
  BY <1>1, <1>7, <1>15, OpenCases
<1>16. CASE Stores
  BY <1>2, <1>16, StoreSteps
<1> QED  BY <1>2, <1>5, <1>6, <1>10, <1>11, <1>12, <1>13, <1>14, <1>15, <1>16, Steps

-----------------------------------------------------------------------------
(* The functions posted to the Scheduler.                                  *)

(* The network thread posts something of the socket it works for.          *)
Posts(what) ==
    /\ event \in Socket /\ Post(event, what)
    /\ \/ /\ net = "handle" /\ HandleCase
          /\ \/ reason = "established" /\ what = "open"
             \/ reason = "receive" /\ what = "message"
             \/ reason = "error" /\ what = "error"
       \/ net = "post" /\ PostClosed /\ what = "close"

LEMMA PostSteps ==
    ASSUME IInv, [Next]_vars
    PROVE  \/ UNCHANGED functions
           \/ RunFunction /\ functions # <<>> /\ functions' = Tail(functions)
           \/ \E what \in What : Posts(what)
<1> USE DEF impls, states, thread, mained, script, history
<1>1. net = "handle" \/ net = "post" => event \in Socket
  BY DEF IInv, NetStands, Working
<1>2. CASE HandleCase
  <2>1. CASE OnConnectionOpened(event)
    <3>1. UNCHANGED functions \/ (reason = "established" /\ Post(event, "open"))
      BY <2>1 DEF OnConnectionOpened
    <3> QED  BY <1>1, <1>2, <3>1 DEF HandleCase, Posts, What
  <2>2. CASE OnClientReceivedData(event)
    <3>1. reason = "receive" /\ Post(event, "message")
      BY <2>2 DEF OnClientReceivedData
    <3> QED  BY <1>1, <1>2, <3>1 DEF HandleCase, Posts, What
  <2>3. CASE OnConnectionError(event)
    <3>1. UNCHANGED functions \/ (reason = "error" /\ Post(event, "error"))
      BY <2>3 DEF OnConnectionError
    <3> QED  BY <1>1, <1>2, <3>1 DEF HandleCase, Posts, What
  <2>4. CASE OnWsiDestroy(event) \/ RefuseToWrite(event) \/ NothingToWrite(event)
    BY <2>4 DEF OnWsiDestroy, RefuseToWrite, NothingToWrite
  <2>5. ASSUME NEW i \in DOMAIN messages, WritePiece(event, i) \/ LoseWrite(event, i)
        PROVE  UNCHANGED functions
    BY <2>5 DEF WritePiece, LoseWrite
  <2> QED  BY <1>2, <2>1, <2>2, <2>3, <2>4, <2>5 DEF HandleCase, Handles
<1>3. CASE PostClosed
  BY <1>1, <1>3 DEF PostClosed, Posts, What
<1>4. CASE RunFunction
  BY <1>4 DEF RunFunction
<1>5. ASSUME NEW w \in Socket,
             \/ New(w) \/ Send(w) \/ CloseAsync(w) \/ Close(w) \/ Finalize(w) \/ ClearPool(w)
      PROVE  UNCHANGED functions
  BY <1>5 DEF New, Send, CloseAsync, Close, Finalize, ClearPool
<1>6. ASSUME NEW w \in Socket, NEW why \in Reasons, Service(w, why)
      PROVE  UNCHANGED functions
  BY <1>6 DEF Service
<1>7. CASE LockReadyState \/ BeginWait \/ WakeSpuriously \/ EndWait \/ OnCloseAfterWait
           \/ Join \/ OnSubThreadStarted \/ OpenConnection \/ OnConnectionClosed
           \/ Handshake \/ OnSubThreadEnded \/ UNCHANGED vars
  BY <1>7 DEF LockReadyState, BeginWait, WakeSpuriously, EndWait, OnCloseAfterWait,
              Join, OnSubThreadStarted, OpenConnection, OnConnectionClosed,
              Handshake, OnSubThreadEnded, vars
<1>8. CASE Stores
  BY <1>8, StoreSteps
<1> QED  BY <1>2, <1>3, <1>4, <1>5, <1>6, <1>7, <1>8, Steps

LEMMA QueueTypesStep ==
    ASSUME IInv, [Next]_vars
    PROVE  QueueTypes'
<1>1. QueueTypes
  BY TypeParts DEF IInv
<1>2. functions \in Seq(Function)
  BY <1>1 DEF QueueTypes
<1>3. messages' \in Seq(Message)
  BY MessageSteps
<1>4. ASSUME NEW what \in What, Posts(what)
      PROVE  functions' \in Seq(Function)
  <2> DEFINE f == [ws |-> event, what |-> what]
  <2>1. f \in Function
    BY <1>4 DEF Posts, Function
  <2>2. functions' = Append(functions, f)
    BY <1>4 DEF Posts, Post
  <2> HIDE DEF f
  <2>3. Append(functions, f) \in Seq(Function)
    BY <1>2, <2>1, AppendProps
  <2> QED  BY <2>2, <2>3
<1>5. ASSUME functions # <<>>, functions' = Tail(functions)
      PROVE  functions' \in Seq(Function)
  BY <1>2, <1>5, TailProps
<1>6. functions' \in Seq(Function)
  BY <1>2, <1>4, <1>5, PostSteps
<1> QED  BY <1>3, <1>6 DEF QueueTypes, Message, Function, What

(* What is in the list of functions after a step.                          *)
LEMMA FunctionSteps ==
    ASSUME IInv, [Next]_vars, NEW i \in DOMAIN functions'
    PROVE  \/ functions' = functions /\ i \in DOMAIN functions
           \/ /\ RunFunction /\ functions # <<>> /\ 1 \in DOMAIN functions
              /\ i \in Int /\ i + 1 \in DOMAIN functions /\ 1 < i + 1
              /\ functions'[i] = functions[i + 1]
           \/ \E what \in What :
                  /\ Posts(what)
                  /\ \/ i \in DOMAIN functions /\ functions'[i] = functions[i]
                     \/ /\ functions'[i] = [ws |-> event, what |-> what]
                        /\ \A j \in DOMAIN functions' : j <= i
<1>1. functions \in Seq(Function)
  BY TypeParts DEF IInv, QueueTypes
<1>2. CASE UNCHANGED functions
  BY <1>2
<1>3. CASE RunFunction /\ functions # <<>> /\ functions' = Tail(functions)
  BY <1>1, <1>3, TailProps
<1>4. ASSUME NEW what \in What, Posts(what)
      PROVE  \/ i \in DOMAIN functions /\ functions'[i] = functions[i]
             \/ /\ functions'[i] = [ws |-> event, what |-> what]
                /\ \A j \in DOMAIN functions' : j <= i
  <2> DEFINE f == [ws |-> event, what |-> what]
  <2>1. f \in Function
    BY <1>4 DEF Posts, Function
  <2>2. functions' = Append(functions, f)
    BY <1>4 DEF Posts, Post
  <2> HIDE DEF f
  <2>3. /\ DOMAIN Append(functions, f) = DOMAIN functions \cup {Len(functions) + 1}
        /\ \A j \in DOMAIN functions : /\ Append(functions, f)[j] = functions[j]
                                       /\ j < Len(functions) + 1
        /\ Append(functions, f)[Len(functions) + 1] = f
    BY <1>1, <2>1, AppendProps
  <2>4. Len(functions) \in Nat /\ DOMAIN functions \subseteq Int
    BY <1>1
  <2>5. CASE i \in DOMAIN functions
    BY <2>2, <2>3, <2>5
  <2>6. CASE i = Len(functions) + 1
    <3>1. \A j \in DOMAIN functions' : j <= i
      BY <2>2, <2>3, <2>4, <2>6
    <3>2. functions'[i] = f
      BY <2>2, <2>3, <2>6
    <3> QED  BY <3>1, <3>2 DEF f
  <2> QED  BY <2>2, <2>3, <2>5, <2>6
<1> QED  BY <1>2, <1>3, <1>4, PostSteps

(* A close is announced by the network thread, or arrives.                 *)
LEMMA AnnouncedStep ==
    ASSUME IInv, [Next]_vars, NEW u \in Socket
    PROVE  /\ Posted(u)' => Posted(u) \/ (PostClosed /\ net = "post" /\ event = u)
           /\ Closed(u)' => Closed(u) \/ Closes(u)
           /\ Closes(u) => Posted(u) \/ Sync(u)
           /\ Announced(u)' => \/ Announced(u) \/ Sync(u)
                               \/ PostClosed /\ net = "post" /\ event = u
<1>1. Posted(u)' => Posted(u) \/ (PostClosed /\ net = "post" /\ event = u)
  <2>1. ASSUME NEW i \in DOMAIN functions', functions'[i].ws = u, functions'[i].what = "close"
        PROVE  Posted(u) \/ (PostClosed /\ net = "post" /\ event = u)
    BY <2>1, FunctionSteps DEF Posted, Posts
  <2> QED  BY <2>1 DEF Posted
<1>2. Closed(u)' => Closed(u) \/ Closes(u)
  <2>1. TypeOK /\ Unborn /\ MainStands
    BY DEF IInv
  <2>2. CASE UNCHANGED heard
    BY <2>2 DEF Closed
  <2>3. ASSUME NEW w \in Socket, NEW what \in What \ {"close"}, Hear(w, what)
        PROVE  Closed(u)' => Closed(u)
    BY <2>1, <2>3, Heard DEF Closed
  <2>4. ASSUME NEW w \in Socket, Closes(w)
        PROVE  Closed(u)' => Closed(u) \/ Closes(u)
    <3>1. Hear(w, "close")
      BY <2>4 DEF Closes, OnClose
    <3> QED  BY <2>1, <2>4, <3>1, Heard DEF Closed, What
  <2>5. ASSUME NEW w \in Socket, New(w) \/ Collects(w) \/ ClearPool(w) \/ Join
        PROVE  UNCHANGED heard
    BY <2>5 DEF New, Collects, ClearPool, Join
  <2>6. CASE Hears
    BY <2>2, <2>3, <2>6 DEF Hears
  <2> QED  BY <2>1, <2>2, <2>4, <2>5, <2>6, OwnSteps
<1>3. Closes(u) => Posted(u) \/ Sync(u)
  BY DEF Closes, Posted, IInv, MainStands
<1> QED  BY <1>1, <1>2, <1>3 DEF Announced

-----------------------------------------------------------------------------
(* Sockets that were not made.                                             *)
LEMMA UnbornStep ==
    ASSUME IInv, [Next]_vars
    PROVE  Unborn'
<1>1. /\ Unborn /\ TypeOK /\ MainStands /\ NetStands
      /\ OwnTypes /\ StateTypes /\ ThreadTypes /\ MainTypes /\ QueueTypes
  BY TypeParts DEF IInv
<1> USE DEF impls, states, thread, mained, script, history
<1>2. SUFFICES ASSUME NEW u \in Socket, object'[u] = "none"
               PROVE  /\ u \notin (listed \cup finalized \cup pooled \cup synced)'
                      /\ closeState'[u] = "NONE"
                      /\ wsi'[u] = "none"
                      /\ heard'[u] = <<>>
                      /\ event' # u
                      /\ \A i \in DOMAIN messages' : messages'[i].ws # u
                      /\ \A i \in DOMAIN functions' : functions'[i].ws # u
  BY DEF Unborn
<1>9. None # u
  BY WebSocketAssumption
<1>3. /\ object[u] = "none"
      /\ u \notin (listed \cup finalized \cup pooled)'
  <2>1. ASSUME NEW w \in Socket, New(w)
        PROVE  object[u] = "none" /\ u # w /\ u \notin (listed \cup finalized \cup pooled)'
    BY <1>1, <1>2, <2>1 DEF New, OwnTypes, Unborn
  <2>2. ASSUME NEW w \in Socket, Collects(w)
        PROVE  object[u] = "none" /\ u \notin (listed \cup finalized \cup pooled)'
    BY <1>1, <1>2, <2>2 DEF Collects, Unborn
  <2>3. ASSUME NEW w \in Socket, object[w] = "alive", Release(w), UNCHANGED finalized,
               pooled' \subseteq pooled
        PROVE  object[u] = "none" /\ u \notin (listed \cup finalized \cup pooled)'
    <3>1. object' = object \/ \E v \in {"deleted", "dying"} : object' = [object EXCEPT ![w] = v]
      BY <2>3, Released
    <3>2. object[u] = "none"
      BY <1>1, <1>2, <3>1 DEF OwnTypes
    <3>3. listed' \subseteq listed
      BY <2>3, Released
    <3> QED  BY <1>1, <2>3, <3>2, <3>3 DEF Unborn
  <2>4. ASSUME NEW w \in Socket, ClearPool(w)
        PROVE  object[u] = "none" /\ u \notin (listed \cup finalized \cup pooled)'
    BY <2>3, <2>4, Owners DEF ClearPool
  <2>5. ASSUME NEW w \in Socket, Closes(w)
        PROVE  object[u] = "none" /\ u \notin (listed \cup finalized \cup pooled)'
    BY <2>3, <2>5 DEF Closes, OnClose
  <2>6. CASE Join
    BY <1>1, <1>2, <2>6 DEF Join, OwnTypes, Unborn, MainStands
  <2>7. CASE Owns
    BY <1>1, <1>2, <2>7 DEF Owns, Unborn
  <2> QED  BY <1>1, <2>1, <2>2, <2>4, <2>5, <2>6, <2>7, OwnSteps
<1>4. /\ u \notin listed /\ closeState[u] = "NONE" /\ wsi[u] = "none" /\ heard[u] = <<>>
      /\ event # u
      /\ \A i \in DOMAIN messages : messages[i].ws # u
      /\ \A i \in DOMAIN functions : functions[i].ws # u
  BY <1>1, <1>3 DEF Unborn
<1>5. \A i \in DOMAIN functions' : functions'[i].ws # u
  BY <1>4, FunctionSteps DEF Posts
<1>6. \A i \in DOMAIN messages' : messages'[i].ws # u
  <2>1. CASE Thins
    BY <1>4, <2>1 DEF Thins
  <2>2. ASSUME NEW w \in Socket, NEW m \in Message, New(w) \/ Send(w), m.ws = w,
               messages' = Append(messages, m)
        PROVE  \A i \in DOMAIN messages' : messages'[i].ws # u
    <3>1. u # w
      BY <1>1, <1>2, <1>3, <2>2 DEF New, Send, MayUse, OwnTypes
    <3>2. /\ DOMAIN Append(messages, m) = DOMAIN messages \cup {Len(messages) + 1}
          /\ \A i \in DOMAIN messages : Append(messages, m)[i] = messages[i]
          /\ Append(messages, m)[Len(messages) + 1] = m
      BY <1>1, <2>2, AppendProps DEF QueueTypes
    <3> QED  BY <1>4, <2>2, <3>1, <3>2
  <2> QED  BY <2>1, <2>2, MessageSteps
<1>7. heard'[u] = <<>>
  <2>1. ASSUME NEW w \in Socket, NEW what \in What, object[w] = "alive", Hear(w, what)
        PROVE  heard'[u] = <<>>
    BY <1>1, <1>3, <1>4, <2>1, Heard
  <2>2. ASSUME NEW w \in Socket, Closes(w)
        PROVE  heard'[u] = <<>>
    BY <2>1, <2>2 DEF Closes, OnClose, What
  <2>3. ASSUME NEW w \in Socket, New(w) \/ Collects(w) \/ ClearPool(w) \/ Join
        PROVE  UNCHANGED heard
    BY <2>3 DEF New, Collects, ClearPool, Join
  <2>4. CASE Hears
    BY <1>4, <2>1, <2>4 DEF Hears
  <2> QED  BY <1>1, <1>4, <2>2, <2>3, <2>4, OwnSteps
<1>8. closeState'[u] = "NONE" /\ wsi'[u] = "none" /\ event' # u
  <2>1. CASE Stores
    <3>1. UNCHANGED wsi /\ event' \in {event, None}
      BY <2>1, StoreSteps DEF BackToLoop
    <3>2. main \notin {"idle", "join"} => closing # u
      BY <1>1, <1>3 DEF MainStands
    <3>3. closeState'[u] = closeState[u]
      BY <1>1, <1>4, <2>1, <3>2, StoreStates DEF AnnounceAsync, StateTypes
    <3> QED  BY <1>4, <1>9, <3>1, <3>3
  <2>2. ASSUME NEW w \in Socket, Send(w) \/ CloseAsync(w) \/ Close(w) \/ Finalize(w)
        PROVE  UNCHANGED <<closeState, wsi, event>>
    BY <2>2 DEF Send, CloseAsync, Close, Finalize
  <2>3. ASSUME NEW w \in Socket, New(w) \/ ClearPool(w)
        PROVE  UNCHANGED <<closeState, wsi, event>>
    BY <2>3 DEF New, ClearPool
  <2>4. ASSUME NEW w \in Socket, NEW why \in Reasons, Service(w, why)
        PROVE  UNCHANGED closeState /\ wsi'[u] = "none" /\ event' # u
    <3>1. wsi[w] # "none" /\ UNCHANGED closeState
      BY <2>4 DEF Service, Ready, Reasons
    <3>2. u # w
      BY <1>4, <3>1
    <3> QED  BY <1>1, <1>4, <2>4, <3>1, <3>2 DEF Service, StateTypes
  <2>5. CASE EndWait
    <3>1. closing # u
      BY <1>1, <1>3, <2>5 DEF EndWait, MainStands
    <3> QED  BY <1>1, <1>4, <2>5, <3>1 DEF EndWait, StateTypes
  <2>6. CASE RunFunction
    BY <1>4, <2>6 DEF RunFunction
  <2>7. CASE LockReadyState \/ BeginWait \/ WakeSpuriously \/ OnCloseAfterWait \/ Join
             \/ OnSubThreadStarted \/ PostClosed \/ UNCHANGED vars
    BY <1>4, <1>9, <2>7
       DEF LockReadyState, BeginWait, WakeSpuriously, OnCloseAfterWait, Join,
           OnSubThreadStarted, PostClosed, BackToLoop, vars
  <2>8. CASE OnConnectionClosed \/ Handshake \/ OnSubThreadEnded
    BY <1>4, <1>9, <2>8 DEF OnConnectionClosed, Handshake, OnSubThreadEnded, BackToLoop
  <2>9. CASE OpenConnection
    <3>1. PICK w \in Socket, i \in Creates : Opens(w, i)
      BY <1>1, <2>9, OpenCases
    <3>2. u # w
      BY <1>3, <3>1 DEF Opens, Exists
    <3> QED  BY <1>1, <1>4, <3>1, <3>2 DEF Opens, StateTypes
  <2>10. CASE HandleCase
    <3>1. event \in Socket
      BY <1>1, <2>10 DEF HandleCase, NetStands, Working
    <3>2. event' # u
      BY <1>4, <1>9, <2>10
         DEF HandleCase, Handles, OnConnectionOpened, OnClientReceivedData,
             OnConnectionError, OnWsiDestroy, RefuseToWrite, NothingToWrite, WritePiece,
             LoseWrite, BackToLoop
    <3>3. CASE OnConnectionOpened(event) \/ OnClientReceivedData(event)
               \/ OnConnectionError(event) \/ OnWsiDestroy(event)
               \/ RefuseToWrite(event) \/ NothingToWrite(event)
      BY <1>1, <1>4, <3>1, <3>2, <3>3
         DEF OnConnectionOpened, OnClientReceivedData, OnConnectionError, OnWsiDestroy,
             RefuseToWrite, NothingToWrite, StateTypes
    <3>4. ASSUME NEW i \in DOMAIN messages, WritePiece(event, i)
          PROVE  UNCHANGED <<closeState, wsi>>
      BY <3>4 DEF WritePiece
    <3>5. ASSUME NEW i \in DOMAIN messages, LoseWrite(event, i)
          PROVE  UNCHANGED <<closeState, wsi>>
      BY <3>5 DEF LoseWrite
    <3> QED  BY <1>4, <2>10, <3>2, <3>3, <3>4, <3>5 DEF HandleCase, Handles
  <2> QED  BY <1>4, <2>1, <2>2, <2>3, <2>4, <2>5, <2>6, <2>7, <2>8, <2>9, <2>10, Steps
<1>10. u \notin synced'
  <2>1. Sync(u)' => Sync(u) \/ (main = "close" /\ closing = u)
    BY SyncStep
  <2>2. main = "close" => closing # u
    BY <1>1, <1>3 DEF MainStands
  <2>3. u \notin synced
    BY <1>1, <1>3 DEF Unborn
  <2> QED  BY <2>1, <2>2, <2>3 DEF Sync
<1> QED  BY <1>3, <1>5, <1>6, <1>7, <1>8, <1>10

-----------------------------------------------------------------------------
(* What libwebsockets has of a socket.                                     *)
LEMMA RequestsStep ==
    ASSUME IInv, [Next]_vars
    PROVE  Requests'
<1>1. /\ Unborn /\ TypeOK /\ MainStands /\ Requests /\ NetStands
      /\ OwnTypes /\ StateTypes /\ QueueTypes /\ Unique
  BY TypeParts DEF IInv, Requests, Unique
<1> USE DEF impls, states, thread, mained, script, history
<1>2. Unique' /\ messages' \in Seq(Message)
  BY MessageSteps
<1>3. ASSUME NEW u \in Socket, Asked(u)'
      PROVE  Asked(u) \/ (New(u) /\ wsi[u] = "none")
  <2>1. PICK j \in DOMAIN messages' : messages'[j].ws = u /\ messages'[j].what = 0
    BY <1>3 DEF Asked, Creates
  <2>2. CASE Thins
    BY <2>1, <2>2 DEF Thins, Asked, Creates
  <2>3. ASSUME NEW w \in Socket, NEW m \in Message, New(w) \/ Send(w), m.ws = w,
               messages' = Append(messages, m)
        PROVE  Asked(u) \/ (New(u) /\ wsi[u] = "none")
    <3>1. /\ DOMAIN Append(messages, m) = DOMAIN messages \cup {Len(messages) + 1}
          /\ \A i \in DOMAIN messages : Append(messages, m)[i] = messages[i]
          /\ Append(messages, m)[Len(messages) + 1] = m
      BY <1>1, <2>3, AppendProps DEF QueueTypes
    <3>2. CASE j \in DOMAIN messages
      BY <2>1, <2>3, <3>1, <3>2 DEF Asked, Creates
    <3>3. CASE j = Len(messages) + 1
      <4>1. messages'[j] = m /\ w = u /\ m.what = 0
        BY <2>1, <2>3, <3>1, <3>3
      <4>2. CASE New(w)
        BY <1>1, <4>1, <4>2 DEF New, Unborn
      <4>3. CASE Send(w)
        <5>1. sent \in [Socket -> Nat] /\ sent'[w] = sent[w] + 1
          BY <1>1, <4>3, TypeParts DEF RestTypes, Send
        <5>2. m.what = sent'[w]
          <6> DEFINE n == [ws |-> w, what |-> sent'[w], issued |-> 0]
          <6>1. messages' = Append(messages, n)
            BY <4>3 DEF Send
          <6>2. n \in Message
            BY <5>1, WebSocketAssumption DEF Message
          <6> HIDE DEF n
          <6>3. Append(messages, n)[Len(messages) + 1] = n
            BY <1>1, <6>2, AppendProps DEF QueueTypes
          <6> QED  BY <3>3, <4>1, <6>1, <6>3 DEF n
        <5> QED  BY <4>1, <5>1, <5>2
      <4> QED  BY <2>3, <4>2, <4>3
    <3> QED  BY <2>1, <2>3, <3>1, <3>2, <3>3
  <2> QED  BY <2>2, <2>3, MessageSteps
<1>4. ASSUME NEW u \in Socket, Asked(u)', wsi[u] = "none"
      PROVE  wsi'[u] = "none"
  <2>1. ASSUME NEW w \in Socket, NEW why \in Reasons, Service(w, why)
        PROVE  wsi'[u] = "none"
    <3>1. wsi[w] # "none"
      BY <2>1 DEF Service, Ready, Reasons
    <3> QED  BY <1>1, <1>4, <2>1, <3>1 DEF Service, StateTypes
  <2>2. CASE OpenConnection
    <3>1. PICK w \in Socket, i \in Creates : Opens(w, i)
      BY <1>1, <2>2, OpenCases
    <3>2. i \in DOMAIN messages /\ messages[i].ws = w /\ messages' = RemoveAt(messages, i)
      BY <3>1 DEF Opens, Creates
    <3>3. \A j \in Creates' : messages'[j].ws # w
      BY <1>1, <3>1, <3>2, RemoveMessage DEF QueueTypes
    <3>4. u # w
      BY <1>4, <3>3 DEF Asked
    <3> QED  BY <1>1, <1>4, <3>1, <3>4 DEF Opens, StateTypes
  <2>3. CASE OnSubThreadEnded
    BY <1>4, <2>3 DEF OnSubThreadEnded
  <2>4. CASE HandleCase
    <3>1. event \in Socket
      BY <1>1, <2>4 DEF HandleCase, NetStands, Working
    <3>2. ASSUME NEW i \in DOMAIN messages, WritePiece(event, i) \/ LoseWrite(event, i)
          PROVE  UNCHANGED wsi
      BY <3>2 DEF WritePiece, LoseWrite
    <3>3. CASE OnConnectionOpened(event) \/ OnClientReceivedData(event)
               \/ OnConnectionError(event) \/ OnWsiDestroy(event) \/ NothingToWrite(event)
      BY <1>4, <3>3 DEF OnConnectionOpened, OnClientReceivedData, OnConnectionError,
                        OnWsiDestroy, NothingToWrite
    <3>4. CASE RefuseToWrite(event)
      <4>1. wsi[event] # "none"
        BY <1>1, <2>4, <3>4 DEF HandleCase, RefuseToWrite, NetStands, Working
      <4> QED  BY <1>1, <1>4, <3>4, <4>1 DEF RefuseToWrite, StateTypes
    <3> QED  BY <1>4, <2>4, <3>2, <3>3, <3>4 DEF HandleCase, Handles
  <2>5. ASSUME NEW w \in Socket,
               New(w) \/ Send(w) \/ CloseAsync(w) \/ Close(w) \/ Finalize(w) \/ ClearPool(w)
        PROVE  UNCHANGED wsi
    BY <2>5 DEF New, Send, CloseAsync, Close, Finalize, ClearPool
  <2>6. CASE LockReadyState \/ BeginWait \/ WakeSpuriously \/ EndWait \/ OnCloseAfterWait
             \/ Join \/ RunFunction \/ OnSubThreadStarted \/ OnConnectionClosed
             \/ Handshake \/ PostClosed \/ UNCHANGED vars
    BY <1>4, <2>6
       DEF LockReadyState, BeginWait, WakeSpuriously, EndWait, OnCloseAfterWait, Join,
           RunFunction, OnSubThreadStarted, OnConnectionClosed, Handshake, PostClosed, vars
  <2>7. CASE Stores
    BY <1>4, <2>7, StoreSteps
  <2> QED  BY <1>4, <2>1, <2>2, <2>3, <2>4, <2>5, <2>6, <2>7, Steps
<1>5. \A u \in Socket : Asked(u)' => wsi'[u] = "none"
  BY <1>1, <1>3, <1>4 DEF Requests
<1> QED  BY <1>2, <1>5 DEF Requests, Unique

-----------------------------------------------------------------------------
(* What the network thread knows of the socket it works for.               *)

(* What is announced stays true: the connection is over.                   *)
LEMMA OverStays ==
    ASSUME IInv, [Next]_vars, NEW u \in Socket, Over(u)
    PROVE  \/ Over(u)' /\ (readyState[u] = "CLOSED" => readyState'[u] = "CLOSED")
           \/ net = "handle" /\ event = u /\ reason = "writeable"
<1>1. /\ TypeOK /\ MainStands /\ Requests /\ NetStands /\ StateTypes /\ QueueTypes
  BY TypeParts DEF IInv
<1> USE DEF impls, states, thread, mained, script, history
<1>2. ASSUME UNCHANGED <<readyState, wsi>>
      PROVE  Over(u)' /\ (readyState[u] = "CLOSED" => readyState'[u] = "CLOSED")
  BY <1>2 DEF Over
<1>3. ASSUME NEW w \in Socket,
             \/ New(w) \/ Send(w) \/ CloseAsync(w) \/ Close(w) \/ Finalize(w)
             \/ ClearPool(w)
      PROVE  UNCHANGED <<readyState, wsi>>
  BY <1>3 DEF New, Send, CloseAsync, Close, Finalize, ClearPool
<1>4. CASE Stores
  <2>1. UNCHANGED wsi
    BY <1>4, StoreSteps
  <2>2. readyState[u] = "CLOSED" => readyState'[u] = "CLOSED"
    BY <1>1, <1>4, StoreStates DEF BecomeClosing, StateTypes
  <2> QED  BY <2>1, <2>2 DEF Over
<1>5. ASSUME NEW w \in Socket, NEW why \in Reasons, Service(w, why)
      PROVE  Over(u)' /\ UNCHANGED readyState
  BY <1>1, <1>5 DEF Service, Ready, Becomes, Reasons, StateTypes, Over
<1>6. CASE LockReadyState
  <2>1. UNCHANGED wsi
    BY <1>6 DEF LockReadyState
  <2>2. readyState[u] = "CLOSED" => readyState'[u] = "CLOSED"
    BY <1>1, <1>6 DEF LockReadyState, StateTypes
  <2> QED  BY <2>1, <2>2 DEF Over
<1>7. CASE BeginWait \/ WakeSpuriously \/ EndWait \/ OnCloseAfterWait \/ Join
           \/ RunFunction \/ OnSubThreadStarted \/ Handshake \/ PostClosed \/ UNCHANGED vars
  <2>1. UNCHANGED <<readyState, wsi>>
    BY <1>7 DEF BeginWait, WakeSpuriously, EndWait, OnCloseAfterWait, Join, RunFunction,
                OnSubThreadStarted, Handshake, PostClosed, vars
  <2> QED  BY <1>2, <2>1
<1>8. CASE OnSubThreadEnded
  BY <1>1, <1>8 DEF OnSubThreadEnded, Over
<1>9. CASE OnConnectionClosed
  <2>1. UNCHANGED wsi /\ event \in Socket
    BY <1>1, <1>9 DEF OnConnectionClosed, NetStands, Working
  <2>2. readyState[u] = "CLOSED" => readyState'[u] = "CLOSED"
    BY <1>1, <1>9, <2>1 DEF OnConnectionClosed, StateTypes
  <2> QED  BY <2>1, <2>2 DEF Over
<1>10. CASE OpenConnection
  <2>1. PICK w \in Socket, i \in Creates : Opens(w, i)
    BY <1>1, <1>10, OpenCases
  <2>2. wsi[w] = "none"
    BY <1>1, <2>1 DEF Requests, Asked, Opens
  <2>3. u # w
    BY <2>2 DEF Over
  <2> QED  BY <1>1, <2>1, <2>3 DEF Opens, StateTypes, Over
<1>11. CASE HandleCase
  <2>1. event \in Socket /\ net = "handle"
    BY <1>1, <1>11 DEF HandleCase, NetStands, Working
  <2>2. CASE OnConnectionOpened(event) \/ OnConnectionError(event)
    <3>1. UNCHANGED wsi
      BY <2>2 DEF OnConnectionOpened, OnConnectionError
    <3>2. readyState[u] = "CLOSED" => readyState'[u] = "CLOSED"
      BY <1>1, <2>1, <2>2 DEF OnConnectionOpened, OnConnectionError, StateTypes
    <3> QED  BY <3>1, <3>2 DEF Over
  <2>3. CASE OnClientReceivedData(event) \/ OnWsiDestroy(event) \/ NothingToWrite(event)
    BY <1>2, <2>3 DEF OnClientReceivedData, OnWsiDestroy, NothingToWrite
  <2>4. CASE RefuseToWrite(event)
    BY <1>1, <2>1, <2>4 DEF RefuseToWrite, StateTypes, Over
  <2>5. ASSUME NEW i \in DOMAIN messages, WritePiece(event, i)
        PROVE  UNCHANGED <<readyState, wsi>>
    BY <2>5 DEF WritePiece
  <2>6. ASSUME NEW i \in DOMAIN messages, LoseWrite(event, i)
        PROVE  UNCHANGED <<readyState, wsi>>
    BY <2>6 DEF LoseWrite
  <2> QED  BY <1>2, <1>11, <2>2, <2>3, <2>4, <2>5, <2>6 DEF HandleCase, Handles, Over
<1> QED  BY <1>2, <1>3, <1>4, <1>5, <1>6, <1>7, <1>8, <1>9, <1>10, <1>11, Steps DEF Over

(* Nothing is posted of a socket whose close was announced.                *)
LEMMA QuietWhenAnnounced ==
    ASSUME IInv, NEW what \in What, Posts(what), Announced(event)
    PROVE  Sync(event)
BY DEF IInv, NetStands, Working, Posts

LEMMA ClosedQuietStep ==
    ASSUME IInv, [Next]_vars
    PROVE  ClosedQuiet'
<1>1. SUFFICES ASSUME NEW u \in Socket, Announced(u)', ~Sync(u)'
               PROVE  readyState'[u] = "CLOSED" /\ Over(u)'
  BY DEF ClosedQuiet
<1>2. ~Sync(u)
  BY <1>1, SyncStep
<1>3. CASE Announced(u)
  <2>1. readyState[u] = "CLOSED" /\ Over(u)
    BY <1>2, <1>3 DEF IInv, ClosedQuiet
  <2>2. ~(net = "handle" /\ event = u /\ reason = "writeable")
    BY <1>2, <1>3 DEF IInv, NetStands, Working
  <2> QED  BY <2>1, <2>2, OverStays
<1>4. CASE PostClosed /\ net = "post" /\ event = u
  <2>1. UNCHANGED <<readyState, wsi>>
    BY <1>4 DEF PostClosed, states
  <2>2. readyState[u] = "CLOSED" /\ Over(u)
    BY <1>2, <1>4 DEF IInv, NetStands, Working
  <2> QED  BY <2>1, <2>2 DEF Over
<1> QED  BY <1>1, <1>2, <1>3, <1>4, AnnouncedStep

LEMMA CloseIsLastStep ==
    ASSUME IInv, [Next]_vars
    PROVE  CloseIsLast'
<1>1. SUFFICES ASSUME NEW u \in Socket, ~Sync(u)'
               PROVE  /\ Closed(u)' => \A i \in DOMAIN functions' : functions'[i].ws # u
                      /\ \A i, j \in DOMAIN functions' :
                             functions'[i].ws = u /\ functions'[i].what = "close" /\ i < j =>
                                 functions'[j].ws # u
  BY DEF CloseIsLast
<1>2. ~Sync(u)
  BY <1>1, SyncStep
<1>3. /\ Closed(u) => \A i \in DOMAIN functions : functions[i].ws # u
      /\ \A i, j \in DOMAIN functions :
             functions[i].ws = u /\ functions[i].what = "close" /\ i < j =>
                 functions[j].ws # u
      /\ functions \in Seq(Function) /\ MainStands /\ DOMAIN functions \subseteq Int
  <2>1. functions \in Seq(Function)
    BY TypeParts DEF IInv, QueueTypes
  <2> QED  BY <1>2, <2>1 DEF IInv, CloseIsLast
<1>4. ASSUME NEW what \in What, Posts(what), Announced(u)
      PROVE  event # u
  BY <1>2, <1>4, QuietWhenAnnounced
<1>5. ASSUME Closed(u)', NEW i \in DOMAIN functions'
      PROVE  functions'[i].ws # u
  <2>1. CASE Closed(u)
    <3>1. ASSUME NEW what \in What, Posts(what)
          PROVE  event # u
      BY <1>4, <2>1, <3>1 DEF Announced
    <3> QED  BY <1>3, <2>1, <3>1, FunctionSteps
  <2>2. CASE Closes(u)
    <3>1. /\ 1 \in DOMAIN functions /\ functions[1].ws = u /\ functions[1].what = "close"
          /\ functions # <<>> /\ functions' = Tail(functions)
      BY <1>2, <1>3, <2>2 DEF Closes, MainStands
    <3>2. i \in Int /\ i + 1 \in DOMAIN functions /\ 1 < i + 1 /\ functions'[i] = functions[i + 1]
      BY <1>3, <1>5, <3>1, TailProps
    <3> QED  BY <1>3, <3>1, <3>2
  <2> QED  BY <1>5, <2>1, <2>2, AnnouncedStep
<1>6. ASSUME NEW i \in DOMAIN functions', NEW j \in DOMAIN functions',
             functions'[i].ws = u, functions'[i].what = "close", i < j
      PROVE  functions'[j].ws # u
  <2>1. CASE UNCHANGED functions
    BY <1>3, <1>6, <2>1
  <2>2. CASE functions # <<>> /\ functions' = Tail(functions)
    <3>1. /\ i \in Int /\ i + 1 \in DOMAIN functions /\ functions'[i] = functions[i + 1]
          /\ j \in Int /\ j + 1 \in DOMAIN functions /\ functions'[j] = functions[j + 1]
      BY <1>3, <1>6, <2>2, TailProps
    <3>2. i + 1 < j + 1
      BY <1>6, <3>1
    <3> QED  BY <1>3, <1>6, <3>1, <3>2
  <2>3. ASSUME NEW what \in What, Posts(what)
        PROVE  functions'[j].ws # u
    <3> DEFINE f == [ws |-> event, what |-> what]
    <3>1. f \in Function /\ f.ws = event
      BY <2>3 DEF Posts, Function
    <3>2. functions' = Append(functions, f)
      BY <2>3 DEF Posts, Post
    <3> HIDE DEF f
    <3>3. /\ DOMAIN Append(functions, f) = DOMAIN functions \cup {Len(functions) + 1}
          /\ \A k \in DOMAIN functions : /\ Append(functions, f)[k] = functions[k]
                                         /\ k < Len(functions) + 1
          /\ Append(functions, f)[Len(functions) + 1] = f
      BY <1>3, <3>1, AppendProps
    <3>4. Len(functions) \in Nat
      BY <1>3
    <3>5. i \in DOMAIN functions
      BY <1>3, <1>6, <3>2, <3>3, <3>4
    <3>6. Announced(u)
      BY <1>6, <3>2, <3>3, <3>5 DEF Announced, Posted
    <3>7. event # u
      BY <1>4, <2>3, <3>6
    <3>8. CASE j \in DOMAIN functions
      BY <1>3, <1>6, <3>2, <3>3, <3>5, <3>8
    <3>9. CASE j = Len(functions) + 1
      BY <3>1, <3>2, <3>3, <3>7, <3>9
    <3> QED  BY <1>6, <3>2, <3>3, <3>8, <3>9
  <2> QED  BY <2>1, <2>2, <2>3, PostSteps
<1> QED  BY <1>5, <1>6

(* The steps that leave the network thread at work.                        *)
Keeps == Working /\ UNCHANGED <<net, event, reason, wsi>>

Finds(w, why) ==
    /\ Ready(w, why) /\ net = "loop" /\ w \in listed
    /\ wsi' = [wsi EXCEPT ![w] = Becomes(w, why)]
    /\ net' = "handle" /\ event' = w /\ reason' = why

Fails(w) ==
    /\ Asked(w) /\ net = "loop" /\ wsi' = [wsi EXCEPT ![w] = "lost"]
    /\ net' = "handle" /\ event' = w /\ reason' = "error"

Places == {"closeAsync", "asyncLock", "closed", "handshake", "post"}
Goes(to) ==
    /\ UNCHANGED <<event, reason, wsi>> /\ net' = to
    /\ \/ net = "handle" /\ to = "closed" /\ reason \in {"error", "destroy"}
       \/ net = "handle" /\ to = "closeAsync" /\ reason = "writeable"
       \/ net = "closeAsync" /\ to = "asyncLock" /\ AnnounceAsync(event)
       \/ /\ net = "closed" /\ to = "handshake" /\ closeState[event] = "SYNC_CLOSING"
       \/ /\ net = "closed" /\ to = "post" /\ readyState[event] # "CLOSED"
          /\ readyState' = [readyState EXCEPT ![event] = "CLOSED"]

LEMMA NetSteps ==
    ASSUME IInv, [Next]_vars, Working'
    PROVE  \/ Keeps
           \/ \E w \in Socket : Fails(w) \/ \E why \in Reasons : Finds(w, why)
           \/ \E to \in Places : Goes(to)
<1>1. QueueTypes /\ ThreadTypes
  BY TypeParts DEF IInv
<1> USE DEF impls, states, thread, mained, script, history
<1>2. ASSUME NEW w \in Socket,
             New(w) \/ Send(w) \/ CloseAsync(w) \/ Close(w) \/ Finalize(w) \/ ClearPool(w)
      PROVE  Keeps
  BY <1>2 DEF New, Send, CloseAsync, Close, Finalize, ClearPool, Working, Keeps
<1>3. ASSUME NEW w \in Socket, NEW why \in Reasons, Service(w, why)
      PROVE  Finds(w, why)
  BY <1>3 DEF Service, Working, Finds
<1>4. CASE LockReadyState \/ BeginWait \/ WakeSpuriously \/ EndWait \/ OnCloseAfterWait
           \/ Join \/ RunFunction \/ OnSubThreadStarted \/ OnSubThreadEnded \/ PostClosed
           \/ Handshake \/ UNCHANGED vars
  BY <1>4 DEF LockReadyState, BeginWait, WakeSpuriously, EndWait, OnCloseAfterWait, Join,
              RunFunction, OnSubThreadStarted, OnSubThreadEnded, PostClosed, Handshake,
              BackToLoop, vars, Working, Keeps
<1>5. CASE OnConnectionClosed
  BY <1>5 DEF OnConnectionClosed, BackToLoop, Working, Goes, Places
<1>6. CASE OpenConnection
  <2>1. PICK w \in Socket, i \in Creates : Opens(w, i)
    BY <1>1, <1>6, OpenCases
  <2>2. Asked(w)
    BY <2>1 DEF Opens, Asked
  <2> QED  BY <2>1, <2>2 DEF Opens, Working, Fails
<1>7. CASE HandleCase
  <2>1. ASSUME NEW i \in DOMAIN messages, WritePiece(event, i) \/ LoseWrite(event, i)
        PROVE  ~Working' \/ Goes("closeAsync")
    BY <1>7, <2>1 DEF HandleCase, WritePiece, LoseWrite, BackToLoop, Working, Goes
  <2>2. CASE OnConnectionOpened(event) \/ OnClientReceivedData(event)
             \/ RefuseToWrite(event) \/ NothingToWrite(event)
    BY <2>2 DEF OnConnectionOpened, OnClientReceivedData, RefuseToWrite, NothingToWrite,
                BackToLoop, Working
  <2>3. CASE OnConnectionError(event) \/ OnWsiDestroy(event)
    <3>1. ~Working' \/ Goes("closed")
      BY <1>7, <2>3 DEF HandleCase, OnConnectionError, OnWsiDestroy, BackToLoop, Working, Goes
    <3> QED  BY <3>1 DEF Places
  <2> QED  BY <1>7, <2>1, <2>2, <2>3 DEF HandleCase, Handles, Places
<1>8. CASE MainStores
  <2>1. UNCHANGED <<net, event, reason, wsi>>
    BY <1>8 DEF MainStores, StoreAsync, EndCloseAsync, StoreSync
  <2> QED  BY <2>1 DEF Keeps, Working
<1>9. CASE NetStores
  <2>1. CASE StoreAsyncInThread
    BY <2>1 DEF StoreAsyncInThread, Goes, Places
  <2>2. CASE EndCloseAsyncInThread
    BY <2>2 DEF EndCloseAsyncInThread, BackToLoop, Working
  <2> QED  BY <1>9, <2>1, <2>2 DEF NetStores
<1> QED  BY <1>2, <1>3, <1>4, <1>5, <1>6, <1>7, <1>8, <1>9, Steps DEF Stores

LEMMA NetStandsStep ==
    ASSUME IInv, [Next]_vars
    PROVE  NetStands'
<1>1. /\ TypeOK /\ MainStands /\ Requests /\ NetStands /\ ClosedQuiet
      /\ StateTypes /\ QueueTypes /\ ThreadTypes
  BY TypeParts DEF IInv
<1>2. SUFFICES ASSUME Working'
               PROVE  /\ event' \in Socket
                      /\ wsi'[event'] # "none"
                      /\ reason' \in {"error", "destroy"} => Over(event)'
                      /\ net' \in {"closed", "handshake", "post"} =>
                             reason' \in {"error", "destroy"}
                      /\ net' \in {"closeAsync", "asyncLock"} => reason' = "writeable"
                      /\ net' = "handshake" => Sync(event)'
                      /\ net' = "post" => readyState'[event'] = "CLOSED" \/ Sync(event)'
                      /\ Announced(event)' =>
                             \/ Sync(event)'
                             \/ /\ net' \in {"handle", "closed"} /\ reason' = "destroy"
                                /\ wsi'[event'] = "lost"
  BY DEF NetStands
<1>3. \A u \in Socket : Sync(u) => Sync(u)'
  BY SyncStep
<1>4. \A u \in Socket : Announced(u)' => Announced(u) \/ Sync(u)
  <2>1. ~PostClosed
    BY <1>2 DEF PostClosed, BackToLoop, Working
  <2> QED  BY <2>1, AnnouncedStep
<1>5. CASE Keeps
  <2>1. PICK u \in Socket : event = u /\ event' = u
    BY <1>1, <1>5 DEF Keeps, NetStands
  <2>2. reason \in {"error", "destroy"} => Over(u) /\ Over(u)'
    BY <1>1, <1>5, <2>1 DEF Keeps, NetStands, Over
  <2>3. net = "post" => readyState'[u] = "CLOSED" \/ Sync(u)'
    <3>1. net = "post" => Over(u) /\ (readyState[u] = "CLOSED" \/ Sync(u))
      BY <1>1, <1>5, <2>1 DEF Keeps, NetStands
    <3> QED  BY <1>3, <3>1, OverStays
  <2>4. Announced(u)' => \/ Sync(u)'
                         \/ net \in {"handle", "closed"} /\ reason = "destroy" /\ wsi[u] = "lost"
    BY <1>1, <1>3, <1>4, <1>5, <2>1 DEF Keeps, NetStands
  <2>5. /\ wsi[u] # "none"
        /\ net \in {"closed", "handshake", "post"} => reason \in {"error", "destroy"}
        /\ net \in {"closeAsync", "asyncLock"} => reason = "writeable"
        /\ net = "handshake" => Sync(u)
    BY <1>1, <1>5, <2>1 DEF Keeps, NetStands
  <2>6. Sync(u)' <=> Sync(event)'
    BY <2>1 DEF Sync
  <2>7. (Announced(u)' <=> Announced(event)') /\ (Over(u)' <=> Over(event)')
    BY <2>1 DEF Announced, Posted, Closed, Over
  <2> QED  BY <1>3, <1>5, <2>1, <2>2, <2>3, <2>4, <2>5, <2>6, <2>7 DEF Keeps
<1>6. ASSUME NEW w \in Socket, Fails(w)
      PROVE  /\ event' = w /\ net' = "handle" /\ reason' = "error" /\ wsi'[w] = "lost"
             /\ Announced(w)' => Sync(w)'
  <2>1. wsi[w] = "none"
    BY <1>1, <1>6 DEF Fails, Requests
  <2>2. Announced(w) => Sync(w)
    BY <1>1, <2>1 DEF ClosedQuiet, Over
  <2> QED  BY <1>1, <1>3, <1>4, <1>6, <2>2 DEF Fails, StateTypes
<1>7. ASSUME NEW w \in Socket, NEW why \in Reasons, Finds(w, why)
      PROVE  /\ event' = w /\ net' = "handle" /\ reason' = why /\ wsi'[w] # "none"
             /\ why \in {"error", "destroy"} => wsi'[w] \in {"failed", "lost", "gone"}
             /\ Announced(w)' => Sync(w)' \/ (why = "destroy" /\ wsi'[w] = "lost")
  <2>1. Announced(w) => Sync(w) \/ (why = "destroy" /\ wsi[w] = "failed")
    BY <1>1, <1>7 DEF Finds, ClosedQuiet, Over, Ready, Reasons
  <2> QED  BY <1>1, <1>3, <1>4, <1>7, <2>1 DEF Finds, StateTypes, Ready, Becomes, Reasons
<1>8. ASSUME NEW to \in Places, Goes(to)
      PROVE  /\ event \in Socket /\ event' = event /\ net' = to /\ reason' = reason
             /\ UNCHANGED wsi /\ wsi[event] # "none"
             /\ to \in {"closed", "handshake", "post"} => reason \in {"error", "destroy"}
             /\ to \in {"closeAsync", "asyncLock"} => reason = "writeable"
             /\ reason \in {"error", "destroy"} => Over(event)
             /\ to = "handshake" => Sync(event)
             /\ to = "post" => readyState'[event] = "CLOSED"
             /\ Announced(event) => \/ Sync(event)
                                    \/ to = "closed" /\ reason = "destroy" /\ wsi[event] = "lost"
                                    \/ to = "handshake"
  BY <1>1, <1>8 DEF Goes, NetStands, Working, StateTypes, MainStands, ClosedQuiet, Places
<1>9. CASE \E w \in Socket : Fails(w)
  <2>1. PICK w \in Socket : Fails(w)
    BY <1>9
  <2>2. /\ event' = w /\ net' = "handle" /\ reason' = "error" /\ wsi'[w] = "lost"
        /\ Announced(w)' => Sync(w)'
    BY <1>6, <2>1
  <2>3. (Announced(w)' <=> Announced(event)') /\ (Sync(w)' <=> Sync(event)')
    BY <2>2 DEF Announced, Posted, Closed, Sync
  <2> QED  BY <2>2, <2>3 DEF Over
<1>10. CASE \E w \in Socket : \E why \in Reasons : Finds(w, why)
  <2>1. PICK w \in Socket, why \in Reasons : Finds(w, why)
    BY <1>10
  <2>2. /\ event' = w /\ net' = "handle" /\ reason' = why /\ wsi'[w] # "none"
        /\ why \in {"error", "destroy"} => wsi'[w] \in {"failed", "lost", "gone"}
        /\ Announced(w)' => Sync(w)' \/ (why = "destroy" /\ wsi'[w] = "lost")
    BY <1>7, <2>1
  <2>3. (Announced(w)' <=> Announced(event)') /\ (Sync(w)' <=> Sync(event)')
    BY <2>2 DEF Announced, Posted, Closed, Sync
  <2> QED  BY <2>2, <2>3 DEF Over
<1>11. ASSUME NEW to \in Places, Goes(to)
       PROVE  /\ event' \in Socket
              /\ wsi'[event'] # "none"
              /\ reason' \in {"error", "destroy"} => Over(event)'
              /\ net' \in {"closed", "handshake", "post"} => reason' \in {"error", "destroy"}
              /\ net' \in {"closeAsync", "asyncLock"} => reason' = "writeable"
              /\ net' = "handshake" => Sync(event)'
              /\ net' = "post" => readyState'[event'] = "CLOSED" \/ Sync(event)'
              /\ Announced(event)' =>
                     \/ Sync(event)'
                     \/ /\ net' \in {"handle", "closed"} /\ reason' = "destroy"
                        /\ wsi'[event'] = "lost"
  <2>1. PICK u \in Socket : u = event /\ u = event'
    BY <1>8, <1>11
  <2>2. /\ (Announced(u)' <=> Announced(event)') /\ (Sync(u)' <=> Sync(event)')
        /\ (Over(u)' <=> Over(event)')
    BY <2>1 DEF Announced, Posted, Closed, Sync, Over
  <2>3. Over(u)' <=> Over(u)
    BY <1>8, <1>11 DEF Over
  <2>4. Announced(u)' => \/ Sync(u)'
                         \/ to = "closed" /\ reason = "destroy" /\ wsi[u] = "lost"
    BY <1>3, <1>4, <1>8, <1>11, <2>1
  <2> QED  BY <1>3, <1>8, <1>11, <2>1, <2>2, <2>3, <2>4
<1> QED  BY <1>2, <1>5, <1>9, <1>10, <1>11, NetSteps

-----------------------------------------------------------------------------
(* The theorems.                                                           *)
LEMMA Initially ==
    ASSUME Init
    PROVE  IInv
<1>1. TypeOK
  <2>1. StateTypes /\ ThreadTypes /\ MainTypes
    BY DEF Init, StateTypes, ThreadTypes, MainTypes
  <2>2. OwnTypes
    <3>1. <<>> \in Seq(What)
      OBVIOUS
    <3> QED  BY <3>1 DEF Init, OwnTypes
  <2>3. QueueTypes
    <3>1. <<>> \in Seq(Message) /\ <<>> \in Seq(Function)
      OBVIOUS
    <3> QED  BY <3>1 DEF Init, QueueTypes
  <2>4. RestTypes
    <3>1. <<>> \in Seq(Nat \X (1..Fragments))
      OBVIOUS
    <3> QED  BY <3>1 DEF Init, RestTypes
  <2> QED  BY <2>1, <2>2, <2>3, <2>4, TypeParts
<1>2. Unborn /\ MainStands /\ NetStands /\ PooledFinalized /\ JoinsLast /\ ThreadWithSockets
  BY WebSocketAssumption
     DEF Init, Unborn, MainStands, NetStands, PooledFinalized, JoinsLast, ThreadWithSockets,
         Sync, Working
<1>3. Requests
  BY DEF Init, Requests, Asked, Creates
<1>4. ClosedQuiet /\ CloseIsLast
  BY DEF Init, ClosedQuiet, CloseIsLast, Announced, Posted, Closed
<1>5. RefsExact
  BY DEF Init, RefsExact
<1> QED  BY <1>1, <1>2, <1>3, <1>4, <1>5 DEF IInv

LEMMA Inductive ==
    ASSUME IInv, [Next]_vars
    PROVE  IInv'
<1>1. TypeOK'
  <2>1. StateTypes' /\ ThreadTypes' /\ MainTypes' /\ OwnTypes' /\ QueueTypes' /\ RestTypes'
    BY StateTypesStep, ThreadTypesStep, MainStandsStep, OwnTypesStep, QueueTypesStep,
       RestTypesStep, TypeParts DEF IInv
  <2> QED  BY <2>1 DEF TypeOK, StateTypes, ThreadTypes, MainTypes, OwnTypes, QueueTypes,
                       RestTypes, What, Message, Function
<1>2. Unborn' /\ MainStands' /\ Requests' /\ NetStands' /\ ClosedQuiet' /\ CloseIsLast'
      /\ PooledFinalized' /\ JoinsLast' /\ RefsExact' /\ ThreadWithSockets'
  BY UnbornStep, MainStandsStep, RequestsStep, NetStandsStep, ClosedQuietStep,
     CloseIsLastStep, PooledStep, ThreadStep, RefsStep
<1> QED  BY <1>1, <1>2 DEF IInv

(* The close of a socket is announced once and is the last that is posted  *)
(* of it (onConnectionClosed, onConnectionError, the destructor), with all *)
(* that follows from it: IInv always holds.                                *)
THEOREM Invariance == Spec => []IInv
<1>1. Init => IInv
  BY Initially
<1>2. IInv /\ [Next]_vars => IInv'
  BY Inductive
<1> QED  BY <1>1, <1>2, PTL DEF Spec

(* Every field of the sockets and of the helper keeps to its values.       *)
THEOREM TypeCorrect == Spec => []TypeOK
<1>1. IInv => TypeOK
  BY DEF IInv
<1> QED  BY <1>1, Invariance, PTL

(* The references of a socket are those of its owners, the finalizer, the  *)
(* close that is to come and the autorelease pool: nobody releases it twice*)
(* and nobody forgets to (retain and release in jsb_websocket.cpp).        *)
THEOREM RefsAreExact == Spec => []RefsExact
<1>1. IInv => RefsExact
  BY DEF IInv
<1> QED  BY <1>1, Invariance, PTL

(* There is a network thread exactly while there are sockets, and only the *)
(* last destructor asks it to quit (WsThreadHelper, ~WebSocketImpl).       *)
THEOREM ThreadOfSockets == Spec => []ThreadWithSockets
<1>1. IInv => ThreadWithSockets
  BY DEF IInv
<1> QED  BY <1>1, Invariance, PTL

(* The network thread never uses a socket that was deleted, but for the two*)
(* cases named: onSocketCallback runs without the lock of the list.        *)
THEOREM WorksForTheLiving == Spec => []WorksForLiving
<1>1. IInv => WorksForLiving
  <2>1. SUFFICES ASSUME IInv, Working
                 PROVE  \/ Exists(event)
                        \/ reason = "destroy" /\ wsi[event] = "lost"
                        \/ Sync(event)
    BY DEF WorksForLiving, Working, Sync
  <2>2. event \in Socket /\ wsi[event] # "none"
    BY <2>1 DEF IInv, NetStands
  <2>3. CASE Announced(event)
    BY <2>1, <2>3 DEF IInv, NetStands
  <2>4. CASE ~Closed(event)
    <3>1. object[event] # "none"
      BY <2>1, <2>2 DEF IInv, Unborn
    <3>2. OwnTypes /\ RefsOf(event)
      BY <2>1, <2>2, TypeParts, RefsBySocket DEF IInv
    <3>3. refs[event] > 0
      BY <2>4, <3>1, <3>2 DEF RefsOf, Count
    <3> QED  BY <3>1, <3>2, <3>3 DEF RefsOf, Exists
  <2> QED  BY <2>3, <2>4 DEF Announced
<1> QED  BY <1>1, Invariance, PTL


-----------------------------------------------------------------------------
(* The order of callbacks.                                                 *)

(* Something is to be told to the delegate of a socket, or was.            *)
Pending(w, what) == \E i \in DOMAIN functions : functions[i].ws = w /\ functions[i].what = what
Told(w, what) == what \in ToSet(heard[w])

(* The connection was not made yet, or nobody was told how that ended.     *)
Fresh(w) ==
    \/ wsi[w] \in {"none", "connecting"}
    \/ Working /\ event = w /\ (reason = "established" \/ (net = "handle" /\ reason = "error"))

(* The connection is made when the network thread works on it.             *)
EventKnown ==
    Working => /\ wsi[event] # "connecting"
               /\ reason \in {"established", "receive", "writeable"} => wsi[event] = "open"

(* A socket closes because somebody closed it or the connection is over.   *)
ClosingKnown ==
    \A w \in Socket : readyState[w] \in {"CLOSING", "CLOSED"} => closeState[w] # "NONE" \/ Over(w)

(* Nothing is said of a fresh one.                                         *)
FreshSilent ==
    \A w \in Socket : object[w] = "alive" /\ Fresh(w) =>
        heard[w] = <<>> /\ \A i \in DOMAIN functions : functions[i].ws # w

(* That one is open is said, unless it was closed before.                  *)
OpenSaid ==
    \A w \in Socket : object[w] = "alive" /\ wsi[w] = "open" /\ ~Fresh(w) =>
        Told(w, "open") \/ Pending(w, "open") \/ closeState[w] # "NONE"

(* What is posted comes in the order of CallbackOrder.                     *)
OpenInTurn(w, i) ==
    heard[w] = <<>> /\ \A j \in DOMAIN functions : j < i => functions[j].ws # w
ErrorInTurn(w) ==
    ~Told(w, "open") /\ ~Pending(w, "open")
MessageInTurn(w, i) ==
    \/ Told(w, "open") \/ closeState[w] # "NONE"
    \/ \E j \in DOMAIN functions :
           j < i /\ functions[j].ws = w /\ functions[j].what = "open"

InTurn ==
    \A w \in Socket : object[w] = "alive" =>
        \A i \in DOMAIN functions : functions[i].ws = w =>
            /\ functions[i].what = "open" => OpenInTurn(w, i)
            /\ functions[i].what = "error" => ErrorInTurn(w)
            /\ functions[i].what = "message" => MessageInTurn(w, i)

(* _closeState was stored before _readyState is.                           *)
StoreKnown ==
    /\ main \in {"asyncLock", "lock"} => closeState[closing] # "NONE"
    /\ net = "asyncLock" => closeState[event] # "NONE"

OrderInv == EventKnown /\ ClosingKnown /\ StoreKnown /\ FreshSilent /\ OpenSaid /\ InTurn

(* Every element of a list is the first or stays in its tail.              *)
LEMMA TailRest ==
    ASSUME NEW S, NEW s \in Seq(S), s # <<>>, NEW i \in DOMAIN s
    PROVE  \/ i = 1
           \/ i - 1 \in DOMAIN Tail(s) /\ Tail(s)[i - 1] = s[i]
<1>1. /\ DOMAIN s = 1..Len(s) /\ Len(s) \in Nat \ {0}
      /\ DOMAIN Tail(s) = 1..(Len(s) - 1)
      /\ \A k \in 1..(Len(s) - 1) : Tail(s)[k] = s[k + 1]
  OBVIOUS
<1>2. i = 1 \/ (i - 1 \in 1..(Len(s) - 1) /\ (i - 1) + 1 = i)
  BY <1>1
<1> QED  BY <1>1, <1>2

(* What comes before an element, and what that says of one element more.   *)
LEMMA AppendSet ==
    ASSUME NEW S, NEW s \in Seq(S), NEW e \in S
    PROVE  /\ ToSet(Append(s, e)) = ToSet(s) \cup {e}
           /\ \A j \in DOMAIN s : /\ Append(s, e)[j] = s[j]
                                  /\ SubSeq(Append(s, e), 1, j - 1) = SubSeq(s, 1, j - 1)
           /\ SubSeq(Append(s, e), 1, Len(s)) = s
<1>1. /\ DOMAIN s = 1..Len(s) /\ Len(s) \in Nat
      /\ DOMAIN Append(s, e) = 1..(Len(s) + 1)
      /\ \A i \in 1..Len(s) : Append(s, e)[i] = s[i]
      /\ Append(s, e)[Len(s) + 1] = e
      /\ Append(s, e) \in Seq(S)
  OBVIOUS
<1>2. DOMAIN Append(s, e) = DOMAIN s \cup {Len(s) + 1}
  BY <1>1
<1>3. ToSet(Append(s, e)) = ToSet(s) \cup {e}
  BY <1>1, <1>2 DEF ToSet
<1> DEFINE t == Append(s, e)
<1>4. /\ t \in Seq(S) /\ Len(t) = Len(s) + 1 /\ \A i \in 1..Len(s) : t[i] = s[i]
  BY <1>1
<1> HIDE DEF t
<1>5. ASSUME NEW j \in 1..Len(s)
      PROVE  SubSeq(t, 1, j - 1) = SubSeq(s, 1, j - 1)
  BY <1>1, <1>4
<1>6. SubSeq(t, 1, Len(s)) = s
  BY <1>1, <1>4
<1> QED  BY <1>1, <1>3, <1>5, <1>6 DEF t

(* A call of close is remembered.                                          *)
LEMMA CloseStateStays ==
    ASSUME IInv, [Next]_vars, NEW u \in Socket, closeState[u] # "NONE"
    PROVE  closeState'[u] # "NONE"
<1>1. StateTypes /\ MainStands /\ NetStands
  BY TypeParts DEF IInv
<1> USE DEF impls, states, thread, mained, script, history
<1>2. CASE Stores
  BY <1>1, <1>2, StoreStates DEF AnnounceAsync, StateTypes
<1>3. CASE EndWait
  BY <1>1, <1>3 DEF EndWait, MainStands, StateTypes
<1>4. CASE HandleCase
  <2>2. CASE OnConnectionOpened(event) \/ OnClientReceivedData(event)
             \/ OnConnectionError(event) \/ OnWsiDestroy(event)
             \/ RefuseToWrite(event) \/ NothingToWrite(event)
    BY <2>2 DEF OnConnectionOpened, OnClientReceivedData, OnConnectionError, OnWsiDestroy,
                RefuseToWrite, NothingToWrite
  <2>3. ASSUME NEW i \in DOMAIN messages, WritePiece(event, i) \/ LoseWrite(event, i)
        PROVE  UNCHANGED closeState
    BY <2>3 DEF WritePiece, LoseWrite
  <2> QED  BY <1>4, <2>2, <2>3 DEF HandleCase, Handles
<1>5. ASSUME NEW w \in Socket,
             \/ New(w) \/ Send(w) \/ CloseAsync(w) \/ Close(w) \/ Finalize(w)
             \/ ClearPool(w)
      PROVE  UNCHANGED closeState
  BY <1>5 DEF New, Send, CloseAsync, Close, Finalize, ClearPool
<1>6. ASSUME NEW w \in Socket, NEW why \in Reasons, Service(w, why)
      PROVE  UNCHANGED closeState
  BY <1>6 DEF Service
<1>7. CASE LockReadyState \/ BeginWait \/ WakeSpuriously \/ OnCloseAfterWait
           \/ Join \/ RunFunction \/ OnSubThreadStarted \/ OpenConnection
           \/ OnConnectionClosed \/ Handshake \/ PostClosed \/ OnSubThreadEnded
           \/ UNCHANGED vars
  BY <1>7 DEF LockReadyState, BeginWait, WakeSpuriously, OnCloseAfterWait, Join, RunFunction,
              OnSubThreadStarted, OpenConnection, OnConnectionClosed, Handshake, PostClosed,
              OnSubThreadEnded, vars
<1> QED  BY <1>2, <1>3, <1>4, <1>5, <1>6, <1>7, Steps

(* What becomes of a connection.                                           *)
LEMMA WsiSteps ==
    ASSUME IInv, [Next]_vars, NEW u \in Socket
    PROVE  \/ wsi'[u] = wsi[u]
           \/ wsi[u] = "none" /\ wsi'[u] \in {"connecting", "lost"}
           \/ wsi[u] = "connecting" /\ wsi'[u] = "open" /\ Service(u, "established")
           \/ wsi[u] # "none" /\ wsi'[u] \in {"failed", "closing", "lost", "gone"}
<1>1. StateTypes /\ QueueTypes /\ NetStands /\ Requests
  BY TypeParts DEF IInv
<1> USE DEF impls, states, thread, mained, script, history
<1>2. ASSUME NEW w \in Socket, NEW why \in Reasons, Service(w, why)
      PROVE  \/ wsi'[u] = wsi[u]
             \/ wsi[u] = "connecting" /\ wsi'[u] = "open" /\ Service(u, "established")
             \/ wsi[u] # "none" /\ wsi'[u] \in {"failed", "closing", "lost", "gone"}
  <2>1. u # w => wsi'[u] = wsi[u]
    BY <1>1, <1>2 DEF Service, StateTypes
  <2>2. CASE u = w /\ why = "established"
    BY <1>1, <1>2, <2>2 DEF Service, Ready, Becomes, StateTypes
  <2>3. CASE u = w /\ why # "established"
    <3>1. /\ wsi[u] # "none" /\ wsi'[u] = Becomes(u, why)
      BY <1>1, <1>2, <2>3 DEF Service, Ready, StateTypes, Reasons
    <3>2. wsi'[u] = wsi[u] \/ wsi'[u] \in {"failed", "closing", "lost", "gone"}
      BY <2>3, <3>1 DEF Becomes, Reasons
    <3> QED  BY <3>1, <3>2
  <2> QED  BY <2>1, <2>2, <2>3
<1>3. CASE OpenConnection
  <2>1. PICK w \in Socket, i \in Creates : Opens(w, i)
    BY <1>1, <1>3, OpenCases
  <2>2. wsi[w] = "none"
    BY <1>1, <2>1 DEF Requests, Asked, Opens
  <2> QED  BY <1>1, <2>1, <2>2 DEF Opens, StateTypes
<1>4. CASE HandleCase
  <2>1. event \in Socket /\ wsi[event] # "none"
    BY <1>1, <1>4 DEF HandleCase, NetStands, Working
  <2>2. CASE RefuseToWrite(event)
    BY <1>1, <2>1, <2>2 DEF RefuseToWrite, StateTypes
  <2>3. CASE OnConnectionOpened(event) \/ OnClientReceivedData(event)
             \/ OnConnectionError(event) \/ OnWsiDestroy(event) \/ NothingToWrite(event)
    BY <2>3 DEF OnConnectionOpened, OnClientReceivedData, OnConnectionError, OnWsiDestroy,
                NothingToWrite
  <2>4. ASSUME NEW i \in DOMAIN messages, WritePiece(event, i) \/ LoseWrite(event, i)
        PROVE  UNCHANGED wsi
    BY <2>4 DEF WritePiece, LoseWrite
  <2> QED  BY <1>4, <2>2, <2>3, <2>4 DEF HandleCase, Handles
<1>5. ASSUME NEW w \in Socket,
             New(w) \/ Send(w) \/ CloseAsync(w) \/ Close(w) \/ Finalize(w) \/ ClearPool(w)
      PROVE  UNCHANGED wsi
  BY <1>5 DEF New, Send, CloseAsync, Close, Finalize, ClearPool
<1>6. CASE LockReadyState \/ BeginWait \/ WakeSpuriously \/ EndWait \/ OnCloseAfterWait
           \/ Join \/ RunFunction \/ OnSubThreadStarted \/ OnConnectionClosed \/ Handshake
           \/ PostClosed \/ UNCHANGED vars
  BY <1>6 DEF LockReadyState, BeginWait, WakeSpuriously, EndWait, OnCloseAfterWait, Join,
              RunFunction, OnSubThreadStarted, OnConnectionClosed, Handshake, PostClosed, vars
<1>7. CASE OnSubThreadEnded
  BY <1>1, <1>7 DEF OnSubThreadEnded
<1>8. CASE Stores
  BY <1>8, StoreSteps
<1> QED  BY <1>2, <1>3, <1>4, <1>5, <1>6, <1>7, <1>8, Steps

LEMMA EventStep ==
    ASSUME IInv, EventKnown, [Next]_vars
    PROVE  EventKnown'
<1>1. SUFFICES ASSUME Working'
               PROVE  /\ wsi'[event'] # "connecting"
                      /\ reason' \in {"established", "receive", "writeable"} =>
                             wsi'[event'] = "open"
  BY DEF EventKnown
<1>2. StateTypes /\ NetStands
  BY TypeParts DEF IInv
<1>3. CASE Keeps
  BY <1>3 DEF Keeps, EventKnown
<1>4. ASSUME NEW w \in Socket, Fails(w)
      PROVE  wsi'[event'] = "lost" /\ reason' = "error"
  BY <1>2, <1>4 DEF Fails, StateTypes
<1>5. ASSUME NEW w \in Socket, NEW why \in Reasons, Finds(w, why)
      PROVE  /\ wsi'[event'] # "connecting"
             /\ reason' \in {"established", "receive", "writeable"} => wsi'[event'] = "open"
  <2>1. /\ event' = w /\ reason' = why /\ wsi'[w] = Becomes(w, why) /\ Ready(w, why)
    BY <1>2, <1>5 DEF Finds, StateTypes
  <2> QED  BY <2>1 DEF Becomes, Ready, Reasons
<1>6. ASSUME NEW to \in Places, Goes(to)
      PROVE  UNCHANGED <<event, reason, wsi>> /\ Working
  BY <1>6 DEF Goes, Working
<1> QED  BY <1>1, <1>3, <1>4, <1>5, <1>6, NetSteps DEF EventKnown

LEMMA StoreKnownStep ==
    ASSUME IInv, StoreKnown, [Next]_vars
    PROVE  StoreKnown'
<1>1. StateTypes /\ MainStands /\ NetStands
  BY TypeParts DEF IInv
<1>2. \A u \in Socket : closeState[u] # "NONE" => closeState'[u] # "NONE"
  BY CloseStateStays
<1>3. ASSUME main' \in {"asyncLock", "lock"}
      PROVE  closeState'[closing'] # "NONE"
  <2> USE DEF impls, states, thread, mained, script, history
  <2>1. CASE UNCHANGED <<main, closing>>
    <3>1. closing \in Socket /\ closeState[closing] # "NONE"
      BY <1>1, <1>3, <2>1 DEF MainStands, StoreKnown
    <3> QED  BY <1>2, <2>1, <3>1
  <2>2. CASE StoreAsync \/ StoreSync
    <3>1. closing \in Socket /\ closing' = closing
      BY <1>1, <2>2 DEF StoreAsync, StoreSync, MainStands
    <3> QED  BY <1>1, <2>2, <3>1 DEF StoreAsync, StoreSync, AnnounceAsync, StateTypes
  <2>3. CASE EndCloseAsync \/ NetStores
    BY <1>3, <2>1, <2>3 DEF EndCloseAsync, NetStores, StoreAsyncInThread, EndCloseAsyncInThread
  <2>4. ASSUME NEW w \in Socket, New(w) \/ Send(w) \/ CloseAsync(w) \/ Close(w) \/ Finalize(w)
        PROVE  closeState'[closing'] # "NONE"
    BY <1>3, <2>4 DEF New, Send, CloseAsync, Close, Finalize, CallCloseAsync, MayUse
  <2>5. ASSUME NEW w \in Socket, Release(w)
        PROVE  FALSE
    BY <1>3, <2>5 DEF Release, Delete
  <2>6. CASE OnCloseAfterWait
    <3>1. Release(closing) /\ closing \in Socket
      BY <1>1, <2>6 DEF OnCloseAfterWait, OnClose, MainStands
    <3> QED  BY <2>5, <3>1
  <2>7. CASE RunFunction
    <3>1. PICK w \in Socket : UNCHANGED <<main, closing>> \/ OnClose(w)
      BY <2>7, RunCases DEF IInv
    <3> QED  BY <2>1, <2>5, <3>1 DEF OnClose
  <2>8. ASSUME NEW w \in Socket, ClearPool(w)
        PROVE  FALSE
    BY <2>5, <2>8 DEF ClearPool
  <2>9. ASSUME NEW w \in Socket, NEW why \in Reasons, Service(w, why)
        PROVE  UNCHANGED <<main, closing>>
    BY <2>9 DEF Service
  <2>10. CASE LockReadyState \/ BeginWait \/ WakeSpuriously \/ EndWait \/ Join
    BY <1>3, <2>10 DEF LockReadyState, BeginWait, WakeSpuriously, EndWait, Join
  <2>11. CASE Handshake
    BY <1>3, <2>1, <2>11 DEF Handshake
  <2>12. CASE OpenConnection \/ HandleCase \/ OnSubThreadStarted \/ OnConnectionClosed
              \/ PostClosed \/ OnSubThreadEnded \/ UNCHANGED vars
    <3>1. UNCHANGED <<main, closing>>
      BY <2>12 DEF OpenConnection, HandleCase, OnSubThreadStarted, OnConnectionClosed,
                   PostClosed, OnSubThreadEnded, vars
    <3> QED  BY <2>1, <3>1
  <2> QED  BY <2>1, <2>2, <2>3, <2>4, <2>6, <2>7, <2>8, <2>9, <2>10, <2>11, <2>12, Steps
           DEF Stores, MainStores
<1>4. ASSUME net' = "asyncLock"
      PROVE  closeState'[event'] # "NONE"
  <2>1. Working'
    BY <1>4 DEF Working
  <2>2. CASE Keeps
    <3>1. event \in Socket /\ event' = event /\ net = "asyncLock"
      BY <1>1, <1>4, <2>2 DEF Keeps, NetStands
    <3> QED  BY <1>2, <3>1 DEF StoreKnown
  <2>3. ASSUME NEW w \in Socket, Fails(w) \/ \E why \in Reasons : Finds(w, why)
        PROVE  FALSE
    BY <1>4, <2>3 DEF Fails, Finds
  <2>4. ASSUME NEW to \in Places, Goes(to)
        PROVE  closeState'[event'] # "NONE"
    <3>1. event \in Socket /\ event' = event /\ AnnounceAsync(event)
      BY <1>1, <1>4, <2>4 DEF Goes, NetStands, Working
    <3> QED  BY <1>1, <3>1 DEF AnnounceAsync, StateTypes
  <2> QED  BY <2>1, <2>2, <2>3, <2>4, NetSteps
<1> QED  BY <1>3, <1>4 DEF StoreKnown

LEMMA ClosingStep ==
    ASSUME IInv, EventKnown, ClosingKnown, StoreKnown, [Next]_vars
    PROVE  ClosingKnown'
<1>1. StateTypes /\ QueueTypes /\ NetStands /\ MainStands
  BY TypeParts DEF IInv
<1> USE DEF impls, states, thread, mained, script, history
<1>2. SUFFICES ASSUME NEW u \in Socket, readyState'[u] \in {"CLOSING", "CLOSED"}
               PROVE  closeState'[u] # "NONE" \/ Over(u)'
  BY DEF ClosingKnown
<1>3. closeState[u] # "NONE" => closeState'[u] # "NONE"
  BY CloseStateStays
<1>4. Over(u) => Over(u)'
  BY OverStays DEF EventKnown, Working, Over
<1>5. CASE readyState[u] \in {"CLOSING", "CLOSED"}
  BY <1>3, <1>4, <1>5 DEF ClosingKnown
<1>6. CASE readyState[u] \notin {"CLOSING", "CLOSED"}
  <2>1. CASE Stores
    BY <1>1, <1>2, <1>3, <1>6, <2>1, StoreStates DEF BecomeClosing, StoreKnown, StateTypes
  <2>2. CASE LockReadyState
    BY <1>1, <1>2, <1>3, <1>6, <2>2 DEF LockReadyState, StoreKnown, StateTypes
  <2>3. CASE HandleCase
    <3>1. event \in Socket /\ (reason = "error" => Over(event))
      BY <1>1, <2>3 DEF HandleCase, NetStands, Working
    <3>2. CASE OnConnectionError(event)
      BY <1>1, <1>2, <1>4, <1>6, <3>1, <3>2 DEF OnConnectionError, StateTypes
    <3>3. CASE OnConnectionOpened(event)
      BY <1>1, <1>2, <1>6, <3>1, <3>3 DEF OnConnectionOpened, StateTypes
    <3>4. CASE OnClientReceivedData(event) \/ OnWsiDestroy(event) \/ RefuseToWrite(event)
               \/ NothingToWrite(event)
      BY <1>2, <1>6, <3>4 DEF OnClientReceivedData, OnWsiDestroy, RefuseToWrite, NothingToWrite
    <3>5. ASSUME NEW i \in DOMAIN messages, WritePiece(event, i) \/ LoseWrite(event, i)
          PROVE  UNCHANGED readyState
      BY <3>5 DEF WritePiece, LoseWrite
    <3> QED  BY <1>2, <1>6, <2>3, <3>2, <3>3, <3>4, <3>5 DEF HandleCase, Handles
  <2>4. CASE OnConnectionClosed
    <3>1. event \in Socket /\ Over(event)
      BY <1>1, <2>4 DEF OnConnectionClosed, NetStands, Working
    <3> QED  BY <1>1, <1>2, <1>4, <1>6, <2>4, <3>1 DEF OnConnectionClosed, StateTypes
  <2>5. CASE OpenConnection
    <3>1. PICK w \in Socket, i \in Creates : Opens(w, i)
      BY <1>1, <2>5, OpenCases
    <3> QED  BY <1>1, <1>2, <1>6, <3>1 DEF Opens, StateTypes
  <2>6. ASSUME NEW w \in Socket,
               \/ New(w) \/ Send(w) \/ CloseAsync(w) \/ Close(w) \/ Finalize(w)
               \/ ClearPool(w)
        PROVE  UNCHANGED readyState
    BY <2>6 DEF New, Send, CloseAsync, Close, Finalize, ClearPool
  <2>7. ASSUME NEW w \in Socket, NEW why \in Reasons, Service(w, why)
        PROVE  UNCHANGED readyState
    BY <2>7 DEF Service
  <2>8. CASE BeginWait \/ WakeSpuriously \/ EndWait \/ OnCloseAfterWait \/ Join
             \/ RunFunction \/ OnSubThreadStarted \/ Handshake \/ PostClosed
             \/ OnSubThreadEnded \/ UNCHANGED vars
    BY <1>2, <1>6, <2>8
       DEF BeginWait, WakeSpuriously, EndWait, OnCloseAfterWait, Join, RunFunction,
           OnSubThreadStarted, Handshake, PostClosed, OnSubThreadEnded, vars
  <2> QED  BY <1>2, <1>6, <2>1, <2>2, <2>3, <2>4, <2>5, <2>6, <2>7, <2>8, Steps
<1> QED  BY <1>5, <1>6

(* What a step does to what is said of a socket that stays alive.          *)
LEMMA ToldSteps ==
    ASSUME IInv, [Next]_vars, NEW u \in Socket, object[u] = "alive", object'[u] = "alive"
    PROVE  \/ UNCHANGED functions /\ heard'[u] = heard[u]
           \/ /\ functions # <<>> /\ functions' = Tail(functions) /\ functions[1].ws # u
              /\ heard'[u] = heard[u]
           \/ /\ functions # <<>> /\ functions' = Tail(functions)
              /\ functions[1].ws = u /\ functions[1].what \in What
              /\ heard'[u] = Append(heard[u], functions[1].what)
              /\ functions[1].what = "close" => u \in Script
           \/ \E what \in What : Posts(what) /\ heard'[u] = heard[u]
<1>1. /\ TypeOK /\ Unborn /\ MainStands /\ OwnTypes /\ QueueTypes /\ RefsOf(u)
  BY TypeParts, RefsBySocket DEF IInv
<1> USE DEF impls, states, thread, mained, script, history
<1>2. functions \in Seq(Function)
  BY <1>1 DEF QueueTypes
<1>3. ASSUME NEW w \in Socket, Closes(w)
      PROVE  u # w \/ u \in Script
  <2>1. SUFFICES ASSUME u = w, u \notin Script
                 PROVE  FALSE
    OBVIOUS
  <2>2. refs[u] = 1
    <3>1. ~Closed(u) /\ u \notin pooled
      BY <1>1, <2>1, Owners DEF OwnTypes
    <3> QED  BY <1>1, <2>1, <3>1 DEF RefsOf, Count
  <2>3. Release(u)
    BY <1>3, <2>1 DEF Closes, OnClose
  <2>4. refs'[u] = 0
    <3>1. refs'[u] = refs[u] - 1
      BY <2>3, Released
    <3> QED  BY <2>2, <3>1
  <2>5. object' = [object EXCEPT ![u] = "deleted"] \/ object' = [object EXCEPT ![u] = "dying"]
    BY <2>3, <2>4, Released
  <2> QED  BY <1>1, <2>5 DEF OwnTypes
<1>4. ASSUME NEW w \in Socket, NEW what \in What, Hear(w, what)
      PROVE  /\ u # w => heard'[u] = heard[u]
             /\ u = w => heard'[u] = Append(heard[u], what)
  BY <1>1, <1>4 DEF Hear, OwnTypes
<1>5. CASE UNCHANGED functions
  <2>1. functions # <<>> => functions' # Tail(functions)
    BY <1>2, <1>5
  <2>2. ASSUME NEW w \in Socket, Closes(w)
        PROVE  heard'[u] = heard[u]
    <3>1. Hear(w, "close") /\ closing = w /\ main = "onClose"
      BY <2>1, <2>2 DEF Closes, OnClose
    <3>2. w \notin Script
      BY <1>1, <3>1 DEF MainStands
    <3> QED  BY <1>3, <1>4, <2>2, <3>1, <3>2 DEF What
  <2>3. ASSUME NEW w \in Socket, New(w) \/ Collects(w) \/ ClearPool(w) \/ Join
        PROVE  UNCHANGED heard
    BY <2>3 DEF New, Collects, ClearPool, Join
  <2>4. ASSUME Hears
        PROVE  heard'[u] = heard[u]
    BY <1>5, <2>1, <2>4 DEF Hears
  <2>5. heard'[u] = heard[u]
    BY <1>1, <2>2, <2>3, <2>4, OwnSteps
  <2> QED  BY <1>5, <2>5
<1>6. ASSUME NEW what \in What, Posts(what)
      PROVE  heard'[u] = heard[u]
  BY <1>6 DEF Posts, HandleCase, PostClosed
<1>7. CASE RunFunction
  <2>1. PICK w \in Socket :
               /\ main = "idle"
               /\ functions # <<>> /\ 1 \in DOMAIN functions /\ functions[1].ws = w
               /\ functions' = Tail(functions)
               /\ UNCHANGED <<readyState, closeState, wsi, messages, net, event, reason,
                              finalized, pooled, sent, received, wire, broken, synced>>
               /\ \/ /\ object[w] = "deleted"
                     /\ UNCHANGED <<object, refs, listed, needQuit, main, closing, attached,
                                    heard>>
                  \/ /\ object[w] = "alive"
                     /\ functions[1].what = "close"
                     /\ OnClose(w)
                  \/ /\ object[w] = "alive"
                     /\ functions[1].what \in What \ {"close"}
                     /\ Hear(w, functions[1].what)
                     /\ UNCHANGED <<object, refs, listed, needQuit, main, closing, attached>>
    BY <1>1, <1>7, RunCases
  <2>2. CASE object[w] = "deleted" /\ UNCHANGED heard
    BY <2>1, <2>2
  <2>3. CASE object[w] = "alive" /\ functions[1].what = "close" /\ OnClose(w)
    <3>1. Closes(w) /\ Hear(w, "close")
      BY <2>1, <2>3 DEF Closes, OnClose
    <3> QED  BY <1>3, <1>4, <2>1, <2>3, <3>1 DEF What
  <2>4. CASE functions[1].what \in What \ {"close"} /\ Hear(w, functions[1].what)
    BY <1>4, <2>1, <2>4
  <2> QED  BY <2>1, <2>2, <2>3, <2>4
<1> QED  BY <1>5, <1>6, <1>7, PostSteps

(* A socket that is alive was before, or is new and nothing is known of it.*)
LEMMA AliveSteps ==
    ASSUME IInv, [Next]_vars, NEW u \in Socket, object'[u] = "alive"
    PROVE  \/ object[u] = "alive"
           \/ /\ heard'[u] = <<>> /\ wsi'[u] = "none"
              /\ \A i \in DOMAIN functions' : functions'[i].ws # u
<1>1. TypeOK /\ OwnTypes /\ Unborn /\ MainStands
  BY TypeParts DEF IInv
<1>2. ASSUME NEW w \in Socket, New(w)
      PROVE  \/ object[u] = "alive"
             \/ /\ heard'[u] = <<>> /\ wsi'[u] = "none"
                /\ \A i \in DOMAIN functions' : functions'[i].ws # u
  <2>1. CASE u = w
    BY <1>1, <1>2, <2>1 DEF New, Unborn
  <2>2. CASE u # w
    BY <1>1, <1>2, <2>2 DEF New, OwnTypes
  <2> QED  BY <2>1, <2>2
<1>3. ASSUME NEW w \in Socket, Closes(w) \/ ClearPool(w)
      PROVE  object[u] = "alive"
  <2>1. Release(w) /\ object[w] = "alive"
    BY <1>3, Owners DEF Closes, OnClose, ClearPool
  <2>2. object' = object \/ \E v \in {"deleted", "dying"} : object' = [object EXCEPT ![w] = v]
    BY <2>1, Released
  <2> QED  BY <1>1, <2>1, <2>2 DEF OwnTypes
<1>4. CASE Join
  BY <1>1, <1>4 DEF Join, OwnTypes, MainStands
<1>5. ASSUME Owns \/ \E w \in Socket : Collects(w)
      PROVE  object[u] = "alive"
  BY <1>5 DEF Owns, Collects
<1> QED  BY <1>1, <1>2, <1>3, <1>4, <1>5, OwnSteps

(* What is said once stays said.                                           *)
LEMMA SaidStays ==
    ASSUME IInv, [Next]_vars, NEW u \in Socket, object[u] = "alive", object'[u] = "alive",
           Told(u, "open") \/ Pending(u, "open")
    PROVE  Told(u, "open")' \/ Pending(u, "open")'
<1>1. functions \in Seq(Function) /\ heard[u] \in Seq(What)
  BY TypeParts DEF IInv, QueueTypes, OwnTypes
<1>2. CASE UNCHANGED functions /\ heard'[u] = heard[u]
  BY <1>2 DEF Told, Pending
<1>3. CASE functions # <<>> /\ functions' = Tail(functions)
  <2>1. ASSUME NEW i \in DOMAIN functions, functions[i].ws = u, functions[i].what = "open", i # 1
        PROVE  Pending(u, "open")'
    <3>1. i - 1 \in DOMAIN functions' /\ functions'[i - 1] = functions[i]
      BY <1>1, <1>3, <2>1, TailRest
    <3> QED  BY <2>1, <3>1 DEF Pending
  <2>2. CASE functions[1].ws # u /\ heard'[u] = heard[u]
    BY <2>1, <2>2 DEF Told, Pending
  <2>3. CASE /\ functions[1].ws = u /\ functions[1].what \in What
             /\ heard'[u] = Append(heard[u], functions[1].what)
    <3>1. ToSet(heard'[u]) = ToSet(heard[u]) \cup {functions[1].what}
      BY <1>1, <2>3, AppendSet
    <3> QED  BY <2>1, <3>1 DEF Told, Pending
  <2>4. heard'[u] = heard[u] \/ functions[1].ws = u
    BY ToldSteps
  <2>5. UNCHANGED functions => FALSE
    BY <1>1, <1>3
  <2>6. ASSUME NEW what \in What, Posts(what)
        PROVE  FALSE
    <3>1. Len(functions') = Len(functions) - 1 /\ Len(functions) \in Nat
      BY <1>1, <1>3
    <3>2. functions' = Append(functions, [ws |-> event, what |-> what])
      BY <2>6 DEF Posts, Post
    <3>3. Len(functions') = Len(functions) + 1
      BY <1>1, <3>2
    <3> QED  BY <3>1, <3>3
  <2> QED  BY <2>2, <2>3, <2>5, <2>6, ToldSteps
<1>4. ASSUME NEW what \in What, Posts(what), heard'[u] = heard[u]
      PROVE  Told(u, "open")' \/ Pending(u, "open")'
  <2> DEFINE f == [ws |-> event, what |-> what]
  <2>1. f \in Function
    BY <1>4 DEF Posts, Function
  <2>2. functions' = Append(functions, f)
    BY <1>4 DEF Posts, Post
  <2> HIDE DEF f
  <2>3. /\ DOMAIN Append(functions, f) = DOMAIN functions \cup {Len(functions) + 1}
        /\ \A j \in DOMAIN functions : Append(functions, f)[j] = functions[j]
    BY <1>1, <2>1, AppendProps
  <2> QED  BY <1>4, <2>2, <2>3 DEF Told, Pending
<1> QED  BY <1>2, <1>3, <1>4, ToldSteps

(* The callback that ends its being fresh.                                 *)
LEMMA HandleEnds ==
    ASSUME HandleCase
    PROVE  \/ net' = "loop"
           \/ net' = "closed" /\ reason' = reason /\ reason \in {"error", "destroy"}
           \/ net' = "closeAsync" /\ reason' = reason /\ reason = "writeable"
<1>1. ASSUME NEW i \in DOMAIN messages, WritePiece(event, i) \/ LoseWrite(event, i)
      PROVE  net' = "loop" \/ (net' = "closeAsync" /\ reason' = reason /\ reason = "writeable")
  BY <1>1 DEF WritePiece, LoseWrite, BackToLoop
<1>2. CASE OnConnectionOpened(event) \/ OnClientReceivedData(event)
           \/ RefuseToWrite(event) \/ NothingToWrite(event)
  BY <1>2 DEF OnConnectionOpened, OnClientReceivedData, RefuseToWrite, NothingToWrite,
              BackToLoop
<1>3. CASE OnConnectionError(event) \/ OnWsiDestroy(event)
  BY <1>3 DEF OnConnectionError, OnWsiDestroy, BackToLoop
<1> QED  BY <1>1, <1>2, <1>3 DEF HandleCase, Handles

LEMMA PostsEnd ==
    ASSUME IInv, EventKnown, [Next]_vars, NEW u \in Socket, u = event,
           NEW what \in What, Posts(what)
    PROVE  ~Fresh(u)'
<1>1. Working /\ wsi[u] \notin {"none", "connecting"}
  BY DEF Posts, Working, IInv, NetStands, EventKnown
<1>2. wsi'[u] \notin {"none", "connecting"}
  BY <1>1, WsiSteps
<1>3. ~(Working' /\ (reason' = "established" \/ (net' = "handle" /\ reason' = "error")))
  BY HandleEnds DEF Posts, PostClosed, BackToLoop, Working
<1> QED  BY <1>2, <1>3 DEF Fresh

LEMMA HandleOrKeep ==
    ASSUME [Next]_vars, net = "handle"
    PROVE  HandleCase \/ UNCHANGED <<net, event, reason>>
<1> USE DEF impls, states, thread, mained, script, history
<1>1. ASSUME NEW w \in Socket,
             New(w) \/ Send(w) \/ CloseAsync(w) \/ Close(w) \/ Finalize(w) \/ ClearPool(w)
      PROVE  UNCHANGED <<net, event, reason>>
  BY <1>1 DEF New, Send, CloseAsync, Close, Finalize, ClearPool
<1>2. ASSUME NEW w \in Socket, NEW why \in Reasons, Service(w, why)
      PROVE  FALSE
  BY <1>2 DEF Service
<1>3. ASSUME \/ LockReadyState \/ BeginWait \/ WakeSpuriously \/ EndWait \/ OnCloseAfterWait
             \/ Join \/ RunFunction \/ OnSubThreadStarted \/ OpenConnection
             \/ OnConnectionClosed \/ Handshake \/ PostClosed \/ OnSubThreadEnded
             \/ UNCHANGED vars
      PROVE  UNCHANGED <<net, event, reason>>
  BY <1>3 DEF LockReadyState, BeginWait, WakeSpuriously, EndWait, OnCloseAfterWait, Join,
              RunFunction, OnSubThreadStarted, OpenConnection, OnConnectionClosed, Handshake,
              PostClosed, OnSubThreadEnded, vars
<1>4. CASE Stores
  BY <1>4, StoreSteps
<1> QED  BY <1>1, <1>2, <1>3, <1>4, Steps

LEMMA FreshBefore ==
    ASSUME IInv, [Next]_vars, NEW u \in Socket, Fresh(u)'
    PROVE  Fresh(u)
<1>1. Requests /\ NetStands
  BY DEF IInv
<1>2. CASE wsi'[u] \in {"none", "connecting"}
  BY <1>2, WsiSteps DEF Fresh
<1>3. CASE Working' /\ event' = u /\ (reason' = "established" \/ (net' = "handle" /\ reason' = "error"))
  <2>1. CASE Keeps
    BY <1>3, <2>1 DEF Keeps, Fresh
  <2>2. ASSUME NEW w \in Socket, Fails(w)
        PROVE  Fresh(u)
    BY <1>1, <1>3, <2>2 DEF Fails, Requests, Fresh
  <2>3. ASSUME NEW w \in Socket, NEW why \in Reasons, Finds(w, why)
        PROVE  Fresh(u)
    BY <1>3, <2>3 DEF Finds, Ready, Reasons, Fresh
  <2>4. ASSUME NEW to \in Places, Goes(to)
        PROVE  Fresh(u)
    BY <1>3, <2>4 DEF Goes, Working, Fresh, Places
  <2> QED  BY <1>3, <2>1, <2>2, <2>3, <2>4, NetSteps
<1> QED  BY <1>2, <1>3 DEF Fresh

LEMMA FreshStep ==
    ASSUME IInv, OrderInv, [Next]_vars
    PROVE  FreshSilent'
<1>1. SUFFICES ASSUME NEW u \in Socket, object'[u] = "alive", Fresh(u)'
               PROVE  heard'[u] = <<>> /\ \A i \in DOMAIN functions' : functions'[i].ws # u
  BY DEF FreshSilent
<1>2. CASE object[u] # "alive"
  BY <1>1, <1>2, AliveSteps
<1>3. CASE object[u] = "alive"
  <2>1. heard[u] = <<>> /\ \A i \in DOMAIN functions : functions[i].ws # u
    BY <1>1, <1>3, FreshBefore DEF OrderInv, FreshSilent
  <2>2. functions # <<>> => 1 \in DOMAIN functions
    BY TypeParts, TailProps DEF IInv, QueueTypes
  <2>3. heard'[u] = <<>>
    BY <1>1, <1>3, <2>1, <2>2, ToldSteps
  <2>4. ASSUME NEW what \in What, Posts(what)
        PROVE  event # u
    BY <1>1, <2>4, PostsEnd DEF OrderInv
  <2>5. ASSUME NEW i \in DOMAIN functions'
        PROVE  functions'[i].ws # u
    BY <2>1, <2>4, <2>5, FunctionSteps
  <2> QED  BY <2>3, <2>5
<1> QED  BY <1>2, <1>3

LEMMA OpenSaidStep ==
    ASSUME IInv, OrderInv, [Next]_vars
    PROVE  OpenSaid'
<1>1. SUFFICES ASSUME NEW u \in Socket, object'[u] = "alive", wsi'[u] = "open", ~Fresh(u)'
               PROVE  Told(u, "open")' \/ Pending(u, "open")' \/ closeState'[u] # "NONE"
  BY DEF OpenSaid
<1>2. object[u] = "alive"
  BY <1>1, AliveSteps
<1>3. wsi[u] = "open"
  <2>1. ASSUME Service(u, "established")
        PROVE  Fresh(u)'
    <3>1. u \in listed
      BY <1>2, Owners
    <3>2. net' = "handle" /\ event' = u /\ reason' = "established"
      BY <2>1, <3>1 DEF Service
    <3> QED  BY <3>2 DEF Fresh, Working
  <2> QED  BY <1>1, <2>1, WsiSteps
<1>4. CASE ~Fresh(u)
  <2>1. Told(u, "open") \/ Pending(u, "open") \/ closeState[u] # "NONE"
    BY <1>2, <1>3, <1>4 DEF OrderInv, OpenSaid
  <2> QED  BY <1>1, <1>2, <2>1, SaidStays, CloseStateStays
<1>5. CASE Fresh(u)
  <2>1. Working /\ event = u /\ reason = "established" /\ net = "handle"
    BY <1>3, <1>5 DEF Fresh, IInv, NetStands, Over, Working
  <2>2. ~(UNCHANGED <<net, event, reason>>)
    BY <1>1, <2>1 DEF Fresh, Working
  <2>3. HandleCase
    BY <2>1, <2>2, HandleOrKeep
  <2>4. OnConnectionOpened(u)
    <3>1. ~ \E i \in DOMAIN messages : WritePiece(event, i) \/ LoseWrite(event, i)
      BY <2>1 DEF WritePiece, LoseWrite
    <3> QED  BY <2>1, <2>3, <3>1
             DEF HandleCase, Handles, OnClientReceivedData, OnConnectionError, OnWsiDestroy,
                 RefuseToWrite, NothingToWrite
  <2>5. CASE readyState[u] \in {"CLOSING", "CLOSED"}
    BY <1>3, <2>5, CloseStateStays DEF OrderInv, ClosingKnown, Over
  <2>6. CASE Post(u, "open")
    <3> DEFINE f == [ws |-> u, what |-> "open"]
    <3>1. f \in Function /\ f.ws = u /\ f.what = "open"
      BY DEF Function, What
    <3>2. functions' = Append(functions, f)
      BY <2>6 DEF Post
    <3> HIDE DEF f
    <3>3. functions \in Seq(Function)
      BY TypeParts DEF IInv, QueueTypes
    <3>4. /\ DOMAIN Append(functions, f) = DOMAIN functions \cup {Len(functions) + 1}
          /\ Append(functions, f)[Len(functions) + 1] = f
      BY <3>1, <3>3, AppendProps
    <3> QED  BY <3>1, <3>2, <3>4 DEF Pending
  <2> QED  BY <2>4, <2>5, <2>6 DEF OnConnectionOpened
<1> QED  BY <1>4, <1>5

LEMMA InTurnStep ==
    ASSUME IInv, OrderInv, [Next]_vars
    PROVE  InTurn'
<1>1. SUFFICES ASSUME NEW u \in Socket, object'[u] = "alive",
                      NEW i \in DOMAIN functions', functions'[i].ws = u
               PROVE  /\ functions'[i].what = "open" => OpenInTurn(u, i)'
                      /\ functions'[i].what = "error" => ErrorInTurn(u)'
                      /\ functions'[i].what = "message" => MessageInTurn(u, i)'
  BY DEF InTurn
<1>2. object[u] = "alive"
  BY <1>1, AliveSteps
<1>3. /\ functions \in Seq(Function) /\ heard[u] \in Seq(What)
      /\ DOMAIN functions \subseteq Int /\ DOMAIN functions' \subseteq Int
  <2>1. functions \in Seq(Function) /\ functions' \in Seq(Function)
    BY TypeParts, QueueTypesStep DEF IInv, QueueTypes
  <2> QED  BY <2>1, TypeParts DEF IInv, OwnTypes
<1>4. \A k \in DOMAIN functions : functions[k].ws = u =>
          /\ functions[k].what = "open" => OpenInTurn(u, k)
          /\ functions[k].what = "error" => ErrorInTurn(u)
          /\ functions[k].what = "message" => MessageInTurn(u, k)
  BY <1>2 DEF OrderInv, InTurn
<1>5. closeState[u] # "NONE" => closeState'[u] # "NONE"
  BY CloseStateStays
<1>6. CASE UNCHANGED functions /\ heard'[u] = heard[u]
  BY <1>1, <1>4, <1>5, <1>6
     DEF OpenInTurn, ErrorInTurn, MessageInTurn, Told, Pending
<1>7. ASSUME functions # <<>>, functions' = Tail(functions)
      PROVE  /\ \A k \in DOMAIN functions' : /\ k \in Int /\ k + 1 \in DOMAIN functions
                                             /\ functions'[k] = functions[k + 1] /\ 1 < k + 1
             /\ \A k \in DOMAIN functions : \/ k = 1
                                            \/ k - 1 \in DOMAIN functions'
                                               /\ functions'[k - 1] = functions[k]
             /\ 1 \in DOMAIN functions
             /\ Pending(u, "open")' => Pending(u, "open")
  <2>1. \A k \in DOMAIN functions' : /\ k \in Int /\ k + 1 \in DOMAIN functions
                                     /\ functions'[k] = functions[k + 1] /\ 1 < k + 1
    BY <1>3, <1>7, TailProps
  <2>2. \A k \in DOMAIN functions : \/ k = 1
                                    \/ k - 1 \in DOMAIN functions'
                                       /\ functions'[k - 1] = functions[k]
    BY <1>3, <1>7, TailRest
  <2>3. 1 \in DOMAIN functions
    BY <1>3, <1>7, TailProps
  <2> QED  BY <2>1, <2>2, <2>3 DEF Pending
<1>8. CASE /\ functions # <<>> /\ functions' = Tail(functions) /\ functions[1].ws # u
           /\ heard'[u] = heard[u]
  <2>1. /\ i \in Int /\ i + 1 \in DOMAIN functions /\ functions'[i] = functions[i + 1]
    BY <1>1, <1>7, <1>8
  <2>2. functions'[i].what = "open" => OpenInTurn(u, i)'
    <3>1. SUFFICES ASSUME functions'[i].what = "open", NEW j \in DOMAIN functions', j < i
                   PROVE  heard'[u] = <<>> /\ functions'[j].ws # u
      BY <1>1, <1>4, <1>8, <2>1 DEF OpenInTurn
    <3>2. j + 1 \in DOMAIN functions /\ functions'[j] = functions[j + 1] /\ j + 1 < i + 1
      BY <1>7, <1>8, <2>1, <3>1
    <3> QED  BY <1>1, <1>4, <1>8, <2>1, <3>1, <3>2 DEF OpenInTurn
  <2>3. functions'[i].what = "error" => ErrorInTurn(u)'
    BY <1>1, <1>4, <1>7, <1>8, <2>1 DEF ErrorInTurn, Told
  <2>4. functions'[i].what = "message" => MessageInTurn(u, i)'
    <3>1. SUFFICES ASSUME functions'[i].what = "message"
                   PROVE  MessageInTurn(u, i)'
      OBVIOUS
    <3>2. MessageInTurn(u, i + 1)
      BY <1>1, <1>4, <2>1, <3>1
    <3>3. CASE Told(u, "open") \/ closeState[u] # "NONE"
      BY <1>5, <1>8, <3>3 DEF MessageInTurn, Told
    <3>4. ASSUME NEW j \in DOMAIN functions, j < i + 1, functions[j].ws = u,
                 functions[j].what = "open"
          PROVE  MessageInTurn(u, i)'
      <4>1. j - 1 \in DOMAIN functions' /\ functions'[j - 1] = functions[j] /\ j \in Int
        BY <1>3, <1>7, <1>8, <3>4
      <4>2. j - 1 < i
        BY <2>1, <3>4, <4>1
      <4> QED  BY <3>4, <4>1, <4>2 DEF MessageInTurn
    <3> QED  BY <3>2, <3>3, <3>4 DEF MessageInTurn
  <2> QED  BY <2>2, <2>3, <2>4
<1>9. CASE /\ functions # <<>> /\ functions' = Tail(functions)
           /\ functions[1].ws = u /\ functions[1].what \in What
           /\ heard'[u] = Append(heard[u], functions[1].what)
  <2>1. /\ i \in Int /\ i + 1 \in DOMAIN functions /\ functions'[i] = functions[i + 1]
        /\ 1 < i + 1 /\ 1 \in DOMAIN functions
    BY <1>1, <1>7, <1>9
  <2>2. ToSet(heard'[u]) = ToSet(heard[u]) \cup {functions[1].what}
    <3>1. PICK e \in What : e = functions[1].what
      BY <1>9
    <3>2. ToSet(Append(heard[u], e)) = ToSet(heard[u]) \cup {e}
      BY <1>3, AppendSet
    <3> QED  BY <1>9, <3>1, <3>2
  <2>3. functions'[i].what # "open"
    BY <1>1, <1>4, <1>9, <2>1 DEF OpenInTurn
  <2>4. functions'[i].what = "error" => ErrorInTurn(u)'
    <3>1. ASSUME functions'[i].what = "error"
          PROVE  ErrorInTurn(u)
      BY <1>1, <1>4, <2>1, <3>1
    <3>2. ErrorInTurn(u) => functions[1].what # "open"
      BY <1>9, <2>1 DEF ErrorInTurn, Pending
    <3> QED  BY <1>7, <1>9, <2>2, <3>1, <3>2 DEF ErrorInTurn, Told
  <2>5. functions'[i].what = "message" => MessageInTurn(u, i)'
    <3>1. SUFFICES ASSUME functions'[i].what = "message"
                   PROVE  MessageInTurn(u, i)'
      OBVIOUS
    <3>2. MessageInTurn(u, i + 1)
      BY <1>1, <1>4, <2>1, <3>1
    <3>3. CASE Told(u, "open") \/ closeState[u] # "NONE"
      BY <1>5, <2>2, <3>3 DEF MessageInTurn, Told
    <3>4. ASSUME NEW j \in DOMAIN functions, j < i + 1, functions[j].ws = u,
                 functions[j].what = "open"
          PROVE  MessageInTurn(u, i)'
      <4>1. CASE j = 1
        BY <2>2, <3>4, <4>1 DEF MessageInTurn, Told
      <4>2. CASE j # 1
        <5>1. j - 1 \in DOMAIN functions' /\ functions'[j - 1] = functions[j] /\ j \in Int
          BY <1>3, <1>7, <1>9, <3>4, <4>2
        <5>2. j - 1 < i
          BY <2>1, <3>4, <5>1
        <5> QED  BY <3>4, <5>1, <5>2 DEF MessageInTurn
      <4> QED  BY <4>1, <4>2
    <3> QED  BY <3>2, <3>3, <3>4 DEF MessageInTurn
  <2> QED  BY <2>3, <2>4, <2>5
<1>10. ASSUME NEW what \in What, Posts(what), heard'[u] = heard[u]
       PROVE  /\ functions'[i].what = "open" => OpenInTurn(u, i)'
              /\ functions'[i].what = "error" => ErrorInTurn(u)'
              /\ functions'[i].what = "message" => MessageInTurn(u, i)'
  <2> DEFINE f == [ws |-> event, what |-> what]
             n == Len(functions) + 1
  <2>1. f \in Function /\ f.ws = event /\ f.what = what
    BY <1>10 DEF Posts, Function
  <2>2. functions' = Append(functions, f)
    BY <1>10 DEF Posts, Post
  <2> HIDE DEF f
  <2>3. /\ DOMAIN functions' = DOMAIN functions \cup {n}
        /\ \A j \in DOMAIN functions : functions'[j] = functions[j] /\ j < n
        /\ functions'[n] = f
    BY <1>3, <2>1, <2>2, AppendProps
  <2>4. n \in Int
    BY <1>3
  <2> HIDE DEF n
  <2>5. ASSUME event = u, what \in {"open", "error"}
        PROVE  heard[u] = <<>> /\ \A k \in DOMAIN functions : functions[k].ws # u
    <3>1. Fresh(u)
      BY <1>10, <2>5 DEF Posts, Fresh, Working
    <3> QED  BY <1>2, <3>1 DEF OrderInv, FreshSilent
  <2>6. ASSUME event = u, what = "message"
        PROVE  Told(u, "open") \/ Pending(u, "open") \/ closeState[u] # "NONE"
    <3>1. reason = "receive" /\ Working
      BY <1>10, <2>6 DEF Posts, Working
    <3>2. wsi[u] = "open"
      BY <2>6, <3>1 DEF OrderInv, EventKnown
    <3>3. ~Fresh(u)
      BY <3>1, <3>2 DEF Fresh
    <3> QED  BY <1>2, <3>2, <3>3 DEF OrderInv, OpenSaid
  <2>7. CASE i \in DOMAIN functions
    <3>1. functions'[i] = functions[i] /\ functions[i].ws = u
      BY <1>1, <2>3, <2>7
    <3>2. functions'[i].what = "open" => OpenInTurn(u, i)'
      BY <1>3, <1>4, <1>10, <2>3, <2>4, <2>7, <3>1 DEF OpenInTurn
    <3>3. functions'[i].what = "error" => ErrorInTurn(u)'
      <4>1. ASSUME functions'[i].what = "error"
            PROVE  ErrorInTurn(u)
        BY <1>4, <2>7, <3>1, <4>1
      <4>2. event = u => what # "open"
        BY <2>5, <2>7, <3>1
      <4>3. Pending(u, "open")' => Pending(u, "open")
        BY <2>1, <2>3, <4>2 DEF Pending
      <4> QED  BY <1>10, <4>1, <4>3 DEF ErrorInTurn, Told
    <3>4. functions'[i].what = "message" => MessageInTurn(u, i)'
      BY <1>4, <1>5, <1>10, <2>3, <2>7, <3>1 DEF MessageInTurn, Told
    <3> QED  BY <3>2, <3>3, <3>4
  <2>8. CASE i = n
    <3>1. functions'[i].what = what /\ event = u
      BY <1>1, <2>1, <2>3, <2>8
    <3>2. what = "open" => OpenInTurn(u, i)'
      BY <1>10, <2>3, <2>4, <2>5, <2>8, <3>1 DEF OpenInTurn
    <3>3. what = "error" => ErrorInTurn(u)'
      <4>1. ASSUME what = "error"
            PROVE  ~Pending(u, "open")' /\ ~Told(u, "open")'
        BY <1>10, <2>1, <2>3, <2>5, <3>1, <4>1 DEF Pending, Told, ToSet
      <4> QED  BY <4>1 DEF ErrorInTurn
    <3>4. what = "message" => MessageInTurn(u, i)'
      BY <1>5, <1>10, <2>3, <2>6, <2>8, <3>1 DEF MessageInTurn, Told, Pending
    <3> QED  BY <3>1, <3>2, <3>3, <3>4
  <2> QED  BY <2>3, <2>7, <2>8
<1> QED  BY <1>1, <1>2, <1>6, <1>8, <1>9, <1>10, ToldSteps

(* CallbackOrder, for one socket.                                          *)
OrderOf(u) ==
    \A j \in DOMAIN heard[u] :
        LET earlier == ToSet(SubSeq(heard[u], 1, j - 1)) IN
        /\ "close" \notin earlier
        /\ heard[u][j] = "open" => earlier = {}
        /\ heard[u][j] = "error" => "open" \notin earlier
        /\ heard[u][j] = "message" => "open" \in earlier \/ closeState[u] # "NONE"

(* Unless it was the last, no close was heard.                             *)
LEMMA NoCloseHeard ==
    ASSUME NEW u \in Socket, heard[u] \in Seq(What), OrderOf(u), ~Closed(u)
    PROVE  "close" \notin ToSet(heard[u])
<1> DEFINE h == heard[u]
<1>1. SUFFICES ASSUME NEW k \in DOMAIN h, h[k] = "close"
               PROVE  FALSE
  BY DEF ToSet
<1>2. /\ h \in Seq(What) /\ DOMAIN h = 1..Len(h) /\ Len(h) \in Nat /\ k \in 1..Len(h)
      /\ "close" \notin ToSet(SubSeq(h, 1, Len(h) - 1))
      /\ h # <<>> => h[Len(h)] # "close"
  <2>1. /\ h \in Seq(What) /\ DOMAIN h = 1..Len(h) /\ Len(h) \in Nat /\ k \in 1..Len(h)
    BY <1>1
  <2>2. Len(h) \in DOMAIN h
    BY <2>1
  <2> QED  BY <2>1, <2>2 DEF OrderOf, Closed, Last
<1> HIDE DEF h
<1>3. h # <<>>
  BY <1>2
<1>4. k \in 1..(Len(h) - 1)
  BY <1>1, <1>2, <1>3
<1>5. SubSeq(h, 1, Len(h) - 1)[k] = h[k] /\ k \in DOMAIN SubSeq(h, 1, Len(h) - 1)
  BY <1>2, <1>4
<1> QED  BY <1>1, <1>2, <1>5 DEF ToSet

(* One callback more.                                                      *)
LEMMA OrderGrows ==
    ASSUME NEW u \in Socket, NEW what \in What, heard[u] \in Seq(What), OrderOf(u),
           heard'[u] = Append(heard[u], what),
           closeState[u] # "NONE" => closeState'[u] # "NONE",
           "close" \notin ToSet(heard[u]),
           what = "open" => heard[u] = <<>>,
           what = "error" => ~Told(u, "open"),
           what = "message" => Told(u, "open") \/ closeState[u] # "NONE"
    PROVE  OrderOf(u)'
<1> DEFINE h == heard[u]
           g == Append(h, what)
           n == Len(h) + 1
<1>1. /\ DOMAIN g = DOMAIN h \cup {n} /\ g[n] = what
      /\ \A j \in DOMAIN h : g[j] = h[j] /\ SubSeq(g, 1, j - 1) = SubSeq(h, 1, j - 1)
      /\ SubSeq(g, 1, n - 1) = h
  <2>1. /\ DOMAIN g = DOMAIN h \cup {n} /\ g[n] = what
    BY AppendProps
  <2>2. \A j \in DOMAIN h : g[j] = h[j] /\ SubSeq(g, 1, j - 1) = SubSeq(h, 1, j - 1)
    BY AppendSet
  <2>3. SubSeq(g, 1, Len(h)) = h
    BY AppendSet
  <2>4. n - 1 = Len(h)
    OBVIOUS
  <2> QED  BY <2>1, <2>2, <2>3, <2>4
<1>2. heard'[u] = g /\ (h = <<>> => ToSet(h) = {})
  BY DEF ToSet
<1>3. \A j \in DOMAIN h :
          /\ "close" \notin ToSet(SubSeq(h, 1, j - 1))
          /\ h[j] = "open" => ToSet(SubSeq(h, 1, j - 1)) = {}
          /\ h[j] = "error" => "open" \notin ToSet(SubSeq(h, 1, j - 1))
          /\ h[j] = "message" => "open" \in ToSet(SubSeq(h, 1, j - 1)) \/ closeState[u] # "NONE"
  BY DEF OrderOf
<1>4. /\ "close" \notin ToSet(h) /\ (what = "open" => h = <<>>)
      /\ (what = "error" => "open" \notin ToSet(h))
      /\ (what = "message" => "open" \in ToSet(h) \/ closeState[u] # "NONE")
  BY DEF Told
<1>5. SUFFICES ASSUME NEW j \in DOMAIN heard'[u]
               PROVE  /\ "close" \notin ToSet(SubSeq(heard'[u], 1, j - 1))
                      /\ heard'[u][j] = "open" => ToSet(SubSeq(heard'[u], 1, j - 1)) = {}
                      /\ heard'[u][j] = "error" => "open" \notin ToSet(SubSeq(heard'[u], 1, j - 1))
                      /\ heard'[u][j] = "message" =>
                             \/ "open" \in ToSet(SubSeq(heard'[u], 1, j - 1))
                             \/ closeState'[u] # "NONE"
  BY DEF OrderOf
<1>6. closeState[u] # "NONE" => closeState'[u] # "NONE"
  OBVIOUS
<1> HIDE DEF h, g, n
<1>7. CASE j \in DOMAIN h
  <2>1. heard'[u][j] = h[j] /\ SubSeq(heard'[u], 1, j - 1) = SubSeq(h, 1, j - 1)
    BY <1>1, <1>2, <1>7
  <2> QED  BY <1>3, <1>6, <1>7, <2>1
<1>8. CASE j = n
  <2>1. heard'[u][j] = what /\ SubSeq(heard'[u], 1, j - 1) = h
    BY <1>1, <1>2, <1>8
  <2> QED  BY <1>2, <1>4, <1>6, <2>1
<1> QED  BY <1>1, <1>2, <1>5, <1>7, <1>8

LEMMA CallbackOrderStep ==
    ASSUME IInv, OrderInv, CallbackOrder, [Next]_vars
    PROVE  CallbackOrder'
<1>1. SUFFICES ASSUME NEW u \in Socket
               PROVE  OrderOf(u)'
  BY DEF CallbackOrder, OrderOf
<1>2. /\ OrderOf(u) /\ heard[u] \in Seq(What) /\ TypeOK /\ Unborn /\ MainStands /\ OwnTypes
      /\ (closeState[u] # "NONE" => closeState'[u] # "NONE")
  BY TypeParts, CloseStateStays DEF CallbackOrder, OrderOf, IInv, OwnTypes
<1>3. ASSUME heard'[u] = heard[u]
      PROVE  OrderOf(u)'
  BY <1>2, <1>3 DEF OrderOf
<1>4. ASSUME NEW w \in Socket, NEW what \in What, Hear(w, what)
      PROVE  /\ u # w => heard'[u] = heard[u]
             /\ u = w => heard'[u] = Append(heard[u], what)
  BY <1>2, <1>4 DEF Hear, OwnTypes
<1>5. ASSUME NEW w \in Socket, Closes(w)
      PROVE  OrderOf(u)'
  <2>1. Hear(w, "close") /\ ~Closed(w)
    BY <1>5, CloseNotHeard DEF Closes, OnClose
  <2>2. CASE u = w
    <3>1. heard'[u] = Append(heard[u], "close") /\ "close" \notin ToSet(heard[u])
      BY <1>2, <1>4, <2>1, <2>2, NoCloseHeard DEF What
    <3> QED  BY <1>2, <3>1, OrderGrows DEF What
  <2> QED  BY <1>3, <1>4, <2>1, <2>2 DEF What
<1>6. ASSUME 1 \in DOMAIN functions, NEW w \in Socket, NEW what \in What \ {"close"},
             functions[1] = [ws |-> w, what |-> what], object[w] = "alive", Hear(w, what)
      PROVE  OrderOf(u)'
  <2>1. functions[1].ws = w /\ functions[1].what = what
    BY <1>6
  <2>2. ~Closed(w)
    BY <1>6, <2>1, NotYetClosed
  <2>3. CASE u = w
    <3>1. heard'[u] = Append(heard[u], what) /\ "close" \notin ToSet(heard[u])
      BY <1>2, <1>4, <1>6, <2>2, <2>3, NoCloseHeard
    <3>2. /\ what = "open" => heard[u] = <<>>
          /\ what = "error" => ~Told(u, "open")
          /\ what = "message" => MessageInTurn(u, 1)
      BY <1>6, <2>1, <2>3 DEF OrderInv, InTurn, OpenInTurn, ErrorInTurn
    <3>3. MessageInTurn(u, 1) => Told(u, "open") \/ closeState[u] # "NONE"
      <4>1. DOMAIN functions = 1..Len(functions)
        BY TypeParts DEF IInv, QueueTypes
      <4> QED  BY <4>1 DEF MessageInTurn
    <3> QED  BY <1>2, <1>6, <3>1, <3>2, <3>3, OrderGrows
  <2> QED  BY <1>3, <1>4, <1>6, <2>3
<1>7. ASSUME NEW w \in Socket, New(w) \/ Collects(w) \/ ClearPool(w) \/ Join
      PROVE  UNCHANGED heard
  BY <1>7 DEF New, Collects, ClearPool, Join
<1>8. ASSUME Hears
      PROVE  OrderOf(u)'
  BY <1>3, <1>6, <1>8 DEF Hears
<1> QED  BY <1>1, <1>2, <1>3, <1>5, <1>7, <1>8, OwnSteps

(* Whichever thread makes them, and whoever closes the socket, the         *)
(* callbacks of a delegate come in order: open first, close once and last, *)
(* a message after open unless the socket was closed before it opened      *)
(* (onConnectionOpened, onClientReceivedData, onConnectionError, close).   *)
THEOREM CallbacksInOrder == Spec => []CallbackOrder
<1> DEFINE OInv == OrderInv /\ CallbackOrder
<1>1. Init => OInv
  BY DEF Init, OrderInv, EventKnown, ClosingKnown, StoreKnown, FreshSilent, OpenSaid, InTurn,
         CallbackOrder, Working
<1>2. IInv /\ OInv /\ [Next]_vars => OInv'
  BY EventStep, ClosingStep, StoreKnownStep, FreshStep, OpenSaidStep, InTurnStep, CallbackOrderStep
     DEF OrderInv
<1>3. OInv => CallbackOrder
  OBVIOUS
<1> QED  BY <1>1, <1>2, <1>3, Invariance, PTL DEF Spec


-----------------------------------------------------------------------------
(* The order of what is written.                                           *)

(* The messages of a socket that are to be written, and what was written.  *)
Sends(w) == {i \in DOMAIN messages : messages[i].ws = w /\ messages[i].what # 0}
Whole(w) == Len(wire[w]) \div Fragments
Part(w) == Len(wire[w]) % Fragments

(* They are in the order they were sent; the first continues what was      *)
(* written and none is missing after it.                                   *)
Ordered(w) == \A i, j \in Sends(w) : i < j => messages[i].what < messages[j].what
Begun(w) ==
    \A i \in Sends(w) :
        /\ messages[i].what \in (Whole(w) + 1)..sent[w]
        /\ messages[i].issued = IF messages[i].what = Whole(w) + 1 THEN Part(w) ELSE 0
NoneMissing(w) ==
    \A v \in (Whole(w) + 1)..sent[w] : \E i \in Sends(w) : messages[i].what = v
WireOf(w) ==
    /\ Whole(w) <= sent[w] /\ (Whole(w) = sent[w] => Part(w) = 0)
    /\ Begun(w) /\ NoneMissing(w) /\ Ordered(w)
WireInv == \A w \in Socket \ broken : object[w] # "deleted" => WireOf(w)

(* A piece more: the next of the same message, or the last of it.          *)
LEMMA DivMod ==
    ASSUME NEW n \in Nat, NEW F \in Nat \ {0}
    PROVE  /\ n \div F \in Nat /\ n % F \in 0..F - 1
           /\ (n % F) + 1 = F => (n + 1) \div F = (n \div F) + 1 /\ (n + 1) % F = 0
           /\ (n % F) + 1 # F => (n + 1) \div F = n \div F /\ (n + 1) % F = (n % F) + 1
           /\ 0 \div F = 0 /\ 0 % F = 0
OBVIOUS

(* Every element but the one removed is still there.                       *)
LEMMA RemoveRest ==
    ASSUME NEW S, NEW s \in Seq(S), NEW i \in DOMAIN s, NEW k \in DOMAIN s, k # i
    PROVE  \E j \in DOMAIN RemoveAt(s, i) : RemoveAt(s, i)[j] = s[k]
<1> DEFINE a == SubSeq(s, 1, i - 1)
           b == SubSeq(s, i + 1, Len(s))
<1>1. i \in 1..Len(s) /\ k \in 1..Len(s) /\ Len(s) \in Nat
  OBVIOUS
<1>2. a \in Seq(S) /\ Len(a) = i - 1 /\ \A j \in 1..(i - 1) : a[j] = s[j]
  BY <1>1
<1>3. b \in Seq(S) /\ Len(b) = Len(s) - i /\ \A j \in 1..(Len(s) - i) : b[j] = s[i + j]
  BY <1>1
<1>4. RemoveAt(s, i) = a \o b
  BY DEF RemoveAt
<1> HIDE DEF a, b
<1>5. a \o b \in Seq(S) /\ Len(a \o b) = Len(s) - 1 /\ DOMAIN (a \o b) = 1..(Len(s) - 1)
  BY <1>1, <1>2, <1>3
<1>6. CASE k < i
  <2>1. k \in 1..(Len(s) - 1) /\ (a \o b)[k] = s[k]
    BY <1>1, <1>2, <1>3, <1>6
  <2> QED  BY <1>4, <1>5, <2>1
<1>7. CASE i < k
  <2>1. k - 1 \in 1..(Len(s) - 1) /\ k - i \in 1..(Len(s) - i) /\ i + (k - i) = k
    BY <1>1, <1>7
  <2>2. PICK j \in 1..(Len(s) - 1) : j = k - 1
    BY <2>1
  <2>3. ~ j < i /\ j - (i - 1) = k - i
    BY <1>1, <1>7, <2>2
  <2>4. ASSUME NEW n \in 1..(Len(s) - 1), ~ n < i
        PROVE  (a \o b)[n] = b[n - (i - 1)]
    <3>1. a \in Seq(S) /\ b \in Seq(S) /\ Len(a) = i - 1 /\ Len(b) = Len(s) - i
      BY <1>2, <1>3
    <3>2. i \in Int /\ Len(s) \in Int /\ n \in Int /\ n > i - 1 /\ n <= Len(s) - 1 /\ n >= 1
      BY <1>1, <2>4
    <3> QED  BY <3>1, <3>2
  <2>5. (a \o b)[j] = s[k]
    <3>1. (a \o b)[j] = b[j - (i - 1)]
      BY <2>3, <2>4
    <3> QED  BY <1>3, <2>1, <2>3, <3>1
  <2> QED  BY <1>4, <1>5, <2>2, <2>5
<1> QED  BY <1>1, <1>6, <1>7

(* The types of what WireOf speaks of.                                     *)
LEMMA WireTypes ==
    ASSUME RestTypes, NEW u \in Socket
    PROVE  /\ wire[u] \in Seq(Nat \X (1..Fragments)) /\ sent[u] \in Nat
           /\ Len(wire[u]) \in Nat /\ Fragments \in Nat \ {0}
           /\ Whole(u) \in Nat /\ Part(u) \in 0..Fragments - 1
<1>1. wire[u] \in Seq(Nat \X (1..Fragments)) /\ sent[u] \in Nat
  BY DEF RestTypes
<1>2. Len(wire[u]) \in Nat /\ Fragments \in Nat \ {0}
  BY <1>1, WebSocketAssumption
<1> QED  BY <1>1, <1>2, DivMod DEF Whole, Part

(* A message is removed: those of a socket that are left stay in order.    *)
LEMMA SendsRemoved ==
    ASSUME messages \in Seq(Message), NEW u \in Socket, Ordered(u),
           NEW i \in DOMAIN messages, messages' = RemoveAt(messages, i)
    PROVE  /\ \A j \in Sends(u)' : \E k \in Sends(u) \ {i} : messages'[j] = messages[k]
           /\ \A k \in Sends(u) \ {i} : \E j \in Sends(u)' : messages'[j] = messages[k]
           /\ Ordered(u)'
<1>1. /\ messages' \in Seq(Message)
      /\ \A j \in DOMAIN messages' :
             \E k \in DOMAIN messages : /\ k # i /\ messages'[j] = messages[k]
                                        /\ k = IF j < i THEN j ELSE j + 1
  BY RemoveProps
<1>2. DOMAIN messages' \subseteq Int /\ i \in Int
  BY <1>1
<1>3. \A j \in Sends(u)' : \E k \in Sends(u) \ {i} : messages'[j] = messages[k]
  BY <1>1 DEF Sends
<1>4. ASSUME NEW k \in Sends(u) \ {i}
      PROVE  \E j \in Sends(u)' : messages'[j] = messages[k]
  <2>1. k \in DOMAIN messages /\ k # i
    BY DEF Sends
  <2>2. PICK j \in DOMAIN messages' : messages'[j] = messages[k]
    BY <2>1, RemoveRest
  <2> QED  BY <2>2 DEF Sends
<1>5. ASSUME NEW j \in Sends(u)', NEW l \in Sends(u)', j < l
      PROVE  messages'[j].what < messages'[l].what
  <2>1. j \in DOMAIN messages' /\ l \in DOMAIN messages' /\ j \in Int /\ l \in Int
    BY <1>2 DEF Sends
  <2>2. PICK k \in DOMAIN messages : /\ messages'[j] = messages[k]
                                     /\ k = IF j < i THEN j ELSE j + 1
    BY <1>1, <2>1
  <2>3. PICK m \in DOMAIN messages : /\ messages'[l] = messages[m]
                                     /\ m = IF l < i THEN l ELSE l + 1
    BY <1>1, <2>1
  <2>4. k \in Sends(u) /\ m \in Sends(u)
    BY <2>2, <2>3 DEF Sends
  <2>5. k < m
    BY <1>2, <1>5, <2>1, <2>2, <2>3
  <2> QED  BY <2>2, <2>3, <2>4, <2>5 DEF Ordered
<1> QED  BY <1>3, <1>4, <1>5 DEF Ordered

(* A piece of a message is written: only that changes.                     *)
LEMMA SendsIssued ==
    ASSUME messages \in Seq(Message), NEW u \in Socket, Ordered(u),
           NEW i \in DOMAIN messages,
           messages' = [messages EXCEPT ![i].issued = @ + 1]
    PROVE  /\ Sends(u)' = Sends(u)
           /\ \A j \in Sends(u) : messages'[j].what = messages[j].what
           /\ \A j \in Sends(u) \ {i} : messages'[j].issued = messages[j].issued
           /\ messages'[i].issued = messages[i].issued + 1
           /\ Ordered(u)'
<1>1. messages[i] \in Message
  OBVIOUS
<1>2. /\ DOMAIN messages' = DOMAIN messages
      /\ messages'[i] = [messages[i] EXCEPT !.issued = messages[i].issued + 1]
      /\ \A j \in DOMAIN messages \ {i} : messages'[j] = messages[j]
  OBVIOUS
<1>3. /\ messages'[i].ws = messages[i].ws /\ messages'[i].what = messages[i].what
      /\ messages'[i].issued = messages[i].issued + 1
  BY <1>1, <1>2 DEF Message
<1>4. /\ Sends(u)' = Sends(u)
      /\ \A j \in Sends(u) : messages'[j].what = messages[j].what
      /\ \A j \in Sends(u) \ {i} : messages'[j].issued = messages[j].issued
  BY <1>2, <1>3 DEF Sends
<1> QED  BY <1>3, <1>4 DEF Ordered

(* What a socket has to write stays, and nothing is written of it.         *)
Kept(u) ==
    /\ \A j \in Sends(u)' : \E k \in Sends(u) : /\ messages'[j].what = messages[k].what
                                                /\ messages'[j].issued = messages[k].issued
    /\ \A k \in Sends(u) : \E j \in Sends(u)' : messages'[j].what = messages[k].what
    /\ Ordered(u)'
Untouched(u) == wire'[u] = wire[u] /\ sent'[u] = sent[u]

LEMMA WireKept ==
    ASSUME NEW u \in Socket, WireOf(u), Kept(u), Untouched(u)
    PROVE  WireOf(u)'
<1>1. Whole(u)' = Whole(u) /\ Part(u)' = Part(u) /\ sent'[u] = sent[u]
  BY DEF Whole, Part, Untouched
<1>2. Begun(u)'
  <2>1. ASSUME NEW j \in Sends(u)'
        PROVE  /\ messages'[j].what \in (Whole(u) + 1)..sent[u]
               /\ messages'[j].issued = IF messages'[j].what = Whole(u) + 1
                                        THEN Part(u) ELSE 0
    BY DEF Kept, WireOf, Begun
  <2> QED  BY <1>1, <2>1 DEF Begun
<1>3. NoneMissing(u)'
  <2>1. ASSUME NEW v \in (Whole(u) + 1)..sent[u]
        PROVE  \E j \in Sends(u)' : messages'[j].what = v
    BY DEF Kept, WireOf, NoneMissing
  <2> QED  BY <1>1, <2>1 DEF NoneMissing
<1> QED  BY <1>1, <1>2, <1>3 DEF WireOf, Kept

(* A message is appended, which has no request.                            *)
LEMMA SendsAppended ==
    ASSUME messages \in Seq(Message), NEW u \in Socket, NEW m \in Message,
           messages' = Append(messages, m)
    PROVE  /\ Sends(u)' = Sends(u) \cup (IF m.ws = u /\ m.what # 0
                                        THEN {Len(messages) + 1} ELSE {})
           /\ \A i \in Sends(u) : messages'[i] = messages[i] /\ i < Len(messages) + 1
           /\ messages'[Len(messages) + 1] = m
           /\ Len(messages) + 1 \notin Sends(u)
           /\ \A i \in Sends(u) : i \in Int
<1>1. /\ DOMAIN messages' = DOMAIN messages \cup {Len(messages) + 1}
      /\ \A i \in DOMAIN messages : messages'[i] = messages[i] /\ i < Len(messages) + 1
      /\ messages'[Len(messages) + 1] = m
  BY AppendProps
<1>2. DOMAIN messages \subseteq Int /\ Len(messages) + 1 \notin DOMAIN messages
  OBVIOUS
<1>3. Sends(u)' = Sends(u) \cup (IF m.ws = u /\ m.what # 0
                                  THEN {Len(messages) + 1} ELSE {})
  BY <1>1 DEF Sends
<1> QED  BY <1>1, <1>2, <1>3 DEF Sends

(* The steps by what they do to the messages of a socket.                  *)
KeptRemoving(u) ==
    \E i \in DOMAIN messages : i \notin Sends(u) /\ messages' = RemoveAt(messages, i)
KeptIssuing(u) ==
    \E i \in DOMAIN messages : /\ i \notin Sends(u)
                               /\ messages' = [messages EXCEPT ![i].issued = @ + 1]
KeptAppending(u) ==
    \E m \in Message : (m.ws # u \/ m.what = 0) /\ messages' = Append(messages, m)

LEMMA KeptSteps ==
    ASSUME messages \in Seq(Message), NEW u \in Socket, Ordered(u),
           \/ UNCHANGED messages
           \/ KeptRemoving(u) \/ KeptIssuing(u) \/ KeptAppending(u)
           \/ messages' = <<>> /\ Sends(u) = {}
    PROVE  Kept(u)
<1>1. CASE UNCHANGED messages
  BY <1>1 DEF Kept, Sends, Ordered
<1>2. CASE KeptRemoving(u)
  <2>1. PICK i \in DOMAIN messages : i \notin Sends(u) /\ messages' = RemoveAt(messages, i)
    BY <1>2 DEF KeptRemoving
  <2>2. /\ \A j \in Sends(u)' : \E k \in Sends(u) \ {i} : messages'[j] = messages[k]
        /\ \A k \in Sends(u) \ {i} : \E j \in Sends(u)' : messages'[j] = messages[k]
        /\ Ordered(u)'
    BY <2>1, SendsRemoved
  <2> QED  BY <2>1, <2>2 DEF Kept
<1>3. CASE KeptIssuing(u)
  <2>1. PICK i \in DOMAIN messages : /\ i \notin Sends(u)
                                     /\ messages' = [messages EXCEPT ![i].issued = @ + 1]
    BY <1>3 DEF KeptIssuing
  <2>2. /\ Sends(u)' = Sends(u)
        /\ \A j \in Sends(u) : messages'[j].what = messages[j].what
        /\ \A j \in Sends(u) \ {i} : messages'[j].issued = messages[j].issued
        /\ Ordered(u)'
    BY <2>1, SendsIssued
  <2> QED  BY <2>1, <2>2 DEF Kept
<1>4. CASE KeptAppending(u)
  <2>1. PICK m \in Message : (m.ws # u \/ m.what = 0) /\ messages' = Append(messages, m)
    BY <1>4 DEF KeptAppending
  <2>2. /\ Sends(u)' = Sends(u)
        /\ \A i \in Sends(u) : messages'[i] = messages[i]
    BY <2>1, SendsAppended
  <2> QED  BY <2>2 DEF Kept, Ordered
<1>5. CASE messages' = <<>> /\ Sends(u) = {}
  BY <1>5 DEF Kept, Sends, Ordered
<1> QED  BY <1>1, <1>2, <1>3, <1>4, <1>5

(* What was deleted stays so.                                              *)
LEMMA DeletedStays ==
    ASSUME IInv, [Next]_vars, NEW u \in Socket, object[u] = "deleted"
    PROVE  object'[u] = "deleted"
<1>1. TypeOK /\ OwnTypes /\ Unborn /\ MainStands
  BY TypeParts DEF IInv
<1>2. ASSUME NEW w \in Socket, New(w)
      PROVE  object'[u] = "deleted"
  BY <1>1, <1>2 DEF New, OwnTypes
<1>3. ASSUME NEW w \in Socket, Closes(w) \/ ClearPool(w)
      PROVE  object'[u] = "deleted"
  <2>1. Release(w) /\ object[w] = "alive"
    BY <1>3, Owners DEF Closes, OnClose, ClearPool
  <2>2. object' = object \/ \E v \in {"deleted", "dying"} : object' = [object EXCEPT ![w] = v]
    BY <2>1, Released
  <2> QED  BY <1>1, <2>1, <2>2 DEF OwnTypes
<1>4. CASE Join
  BY <1>1, <1>4 DEF Join, OwnTypes
<1>5. ASSUME Owns \/ \E w \in Socket : Collects(w)
      PROVE  object'[u] = "deleted"
  BY <1>5 DEF Owns, Collects
<1> QED  BY <1>1, <1>2, <1>3, <1>4, <1>5, OwnSteps

(* The last socket is deleted when there is nothing of another one.        *)
LEMMA JoinEmpties ==
    ASSUME IInv, Join, NEW u \in Socket, object'[u] # "deleted"
    PROVE  Sends(u) = {}
<1>1. TypeOK /\ OwnTypes /\ Unborn /\ MainStands /\ JoinsLast
  BY TypeParts DEF IInv
<1>2. listed = {} /\ closing \in Socket /\ object' = [object EXCEPT ![closing] = "deleted"]
  BY <1>1 DEF Join, JoinsLast, MainStands
<1>3. u # closing /\ object[u] # "deleted"
  BY <1>1, <1>2 DEF OwnTypes
<1>4. object[u] # "alive"
  BY <1>2, Owners
<1>5. object[u] # "dying"
  BY <1>1, <1>3 DEF MainStands
<1>6. object[u] = "none"
  BY <1>1, <1>3, <1>4, <1>5 DEF OwnTypes
<1> QED  BY <1>1, <1>6 DEF Unborn, Sends

(* What is written, and who writes it.                                     *)
Writes(w) ==
    /\ net = "handle" /\ event = w /\ Exists(w)
    /\ \E i \in DOMAIN messages : WritePiece(w, i)
    /\ UNCHANGED <<object, sent>>

LEMMA WireSteps ==
    ASSUME IInv, [Next]_vars
    PROVE  /\ broken \subseteq broken'
           /\ \/ wire' = wire
              \/ \E w \in Socket : Writes(w)
<1> USE DEF impls, states, thread, mained, script, history
<1>1. ASSUME NEW w \in Socket,
             New(w) \/ Send(w) \/ CloseAsync(w) \/ Close(w) \/ Finalize(w) \/ ClearPool(w)
      PROVE  UNCHANGED <<wire, broken>>
  BY <1>1 DEF New, Send, CloseAsync, Close, Finalize, ClearPool
<1>2. ASSUME NEW w \in Socket, NEW why \in Reasons, Service(w, why)
      PROVE  UNCHANGED <<wire, broken>>
  BY <1>2 DEF Service
<1>3. ASSUME \/ LockReadyState \/ BeginWait \/ WakeSpuriously \/ EndWait \/ OnCloseAfterWait
             \/ Join \/ RunFunction \/ OnSubThreadStarted \/ OpenConnection
             \/ OnConnectionClosed \/ Handshake \/ PostClosed \/ OnSubThreadEnded
             \/ UNCHANGED vars
      PROVE  UNCHANGED <<wire, broken>>
  BY <1>3 DEF LockReadyState, BeginWait, WakeSpuriously, EndWait, OnCloseAfterWait, Join,
              RunFunction, OnSubThreadStarted, OpenConnection, OnConnectionClosed, Handshake,
              PostClosed, OnSubThreadEnded, vars
<1>4. CASE HandleCase
  <2>1. event \in Socket /\ net = "handle" /\ Exists(event) /\ UNCHANGED <<object, sent>>
    BY <1>4 DEF IInv, NetStands, HandleCase, Working
  <2>2. ASSUME NEW i \in DOMAIN messages, LoseWrite(event, i)
        PROVE  wire' = wire /\ broken \subseteq broken'
    BY <2>2 DEF LoseWrite
  <2>3. ASSUME NEW i \in DOMAIN messages, WritePiece(event, i)
        PROVE  broken' = broken /\ Writes(event)
    BY <2>1, <2>3 DEF WritePiece, Writes
  <2>4. \/ wire' = wire /\ broken' = broken
        \/ \E i \in DOMAIN messages : WritePiece(event, i) \/ LoseWrite(event, i)
    BY <1>4 DEF HandleCase, Handles, OnConnectionOpened, OnClientReceivedData,
                OnConnectionError, OnWsiDestroy, RefuseToWrite, NothingToWrite
  <2>5. PICK w \in Socket : w = event
    BY <2>1
  <2> QED  BY <2>2, <2>3, <2>4, <2>5
<1>5. CASE Stores
  BY <1>5, StoreSteps
<1> QED  BY <1>1, <1>2, <1>3, <1>4, <1>5, Steps

LEMMA SendSteps ==
    ASSUME IInv, [Next]_vars, NEW u \in Socket, u \notin broken', object'[u] # "deleted"
    PROVE  \/ /\ Untouched(u)
              /\ \/ UNCHANGED messages
                 \/ KeptRemoving(u) \/ KeptIssuing(u) \/ KeptAppending(u)
                 \/ messages' = <<>> /\ Sends(u) = {}
           \/ Send(u)
           \/ Writes(u)
<1> DEFINE Keeping ==
        /\ Untouched(u)
        /\ \/ UNCHANGED messages
           \/ KeptRemoving(u) \/ KeptIssuing(u) \/ KeptAppending(u)
           \/ messages' = <<>> /\ Sends(u) = {}
<1> USE DEF impls, states, thread, mained, script, history
<1>1. QueueTypes /\ RestTypes /\ TypeOK
  BY TypeParts DEF IInv
<1>2. ASSUME UNCHANGED <<messages, sent, wire>>
      PROVE  Keeping
  BY <1>2 DEF Untouched
<1>3. ASSUME NEW w \in Socket, New(w)
      PROVE  Keeping
  <2> DEFINE m == [ws |-> w, what |-> 0, issued |-> 0]
  <2>1. m \in Message /\ m.what = 0
    BY WebSocketAssumption DEF Message
  <2>2. messages' = Append(messages, m) /\ UNCHANGED <<sent, wire>>
    BY <1>3 DEF New
  <2> HIDE DEF m
  <2> QED  BY <2>1, <2>2 DEF KeptAppending, Untouched
<1>4. ASSUME NEW w \in Socket, w # u, Send(w)
      PROVE  Keeping
  <2> DEFINE m == [ws |-> w, what |-> sent'[w], issued |-> 0]
  <2>1. sent[w] + 1 \in Nat /\ sent'[w] = sent[w] + 1 /\ sent'[u] = sent[u]
    BY <1>1, <1>4 DEF Send, RestTypes
  <2>2. m \in Message /\ m.ws # u
    BY <1>4, <2>1, WebSocketAssumption DEF Message
  <2>3. messages' = Append(messages, m) /\ UNCHANGED wire
    BY <1>4 DEF Send
  <2> HIDE DEF m
  <2> QED  BY <2>1, <2>2, <2>3 DEF KeptAppending, Untouched
<1>5. CASE OpenConnection
  <2>1. PICK w \in Socket, i \in Creates : Opens(w, i)
    BY <1>1, <1>5, OpenCases
  <2>2. i \in DOMAIN messages /\ i \notin Sends(u) /\ messages' = RemoveAt(messages, i)
    BY <2>1 DEF Opens, Creates, Sends
  <2>3. UNCHANGED <<sent, wire>>
    BY <1>5 DEF OpenConnection
  <2> QED  BY <2>2, <2>3 DEF KeptRemoving, Untouched
<1>6. CASE Join
  BY <1>6, JoinEmpties DEF Join, Untouched
<1>7. CASE HandleCase
  <2>1. event \in Socket /\ net = "handle" /\ Exists(event) /\ UNCHANGED <<object, sent>>
    BY <1>7 DEF IInv, NetStands, HandleCase, Working
  <2>2. PICK w \in Socket : w = event
    BY <2>1
  <2>3. ASSUME NEW i \in DOMAIN messages, LoseWrite(w, i)
        PROVE  Keeping
    <3>1. w # u /\ messages[i].ws = w
      BY <2>3 DEF LoseWrite, IsFirst, MessagesOf
    <3>2. i \notin Sends(u)
      BY <3>1 DEF Sends
    <3>3. messages' = RemoveAt(messages, i) /\ UNCHANGED wire
      BY <2>3 DEF LoseWrite
    <3> QED  BY <2>1, <3>2, <3>3 DEF KeptRemoving, Untouched
  <2>4. ASSUME NEW i \in DOMAIN messages, WritePiece(w, i), w # u
        PROVE  Keeping
    <3>1. messages[i].ws = w /\ i \notin Sends(u)
      BY <2>4 DEF WritePiece, IsFirst, MessagesOf, Sends
    <3>2. wire'[u] = wire[u]
      BY <1>1, <2>4 DEF WritePiece, RestTypes
    <3>3. \/ messages' = RemoveAt(messages, i)
          \/ messages' = [messages EXCEPT ![i].issued = @ + 1]
      BY <2>4 DEF WritePiece
    <3> QED  BY <2>1, <3>1, <3>2, <3>3 DEF KeptRemoving, KeptIssuing, Untouched
  <2>5. ASSUME NEW i \in DOMAIN messages, WritePiece(w, i), w = u
        PROVE  Writes(u)
    BY <2>1, <2>2, <2>5 DEF Writes
  <2>6. \/ UNCHANGED <<messages, wire>>
        \/ \E i \in DOMAIN messages : WritePiece(w, i) \/ LoseWrite(w, i)
    BY <1>7, <2>2 DEF HandleCase, Handles, OnConnectionOpened, OnClientReceivedData,
                OnConnectionError, OnWsiDestroy, RefuseToWrite, NothingToWrite
  <2> QED  BY <1>2, <2>1, <2>3, <2>4, <2>5, <2>6
<1>8. ASSUME NEW w \in Socket, CloseAsync(w) \/ Close(w) \/ Finalize(w) \/ ClearPool(w)
      PROVE  UNCHANGED <<messages, sent, wire>>
  BY <1>8 DEF CloseAsync, Close, Finalize, ClearPool
<1>9. ASSUME NEW w \in Socket, NEW why \in Reasons, Service(w, why)
      PROVE  UNCHANGED <<messages, sent, wire>>
  BY <1>9 DEF Service
<1>10. CASE LockReadyState \/ BeginWait \/ WakeSpuriously \/ EndWait \/ OnCloseAfterWait
            \/ RunFunction \/ OnSubThreadStarted \/ OnConnectionClosed \/ Handshake
            \/ PostClosed \/ OnSubThreadEnded \/ UNCHANGED vars
  <2>1. UNCHANGED <<messages, sent, wire>>
    BY <1>10 DEF LockReadyState, BeginWait, WakeSpuriously, EndWait, OnCloseAfterWait,
                 RunFunction, OnSubThreadStarted, OnConnectionClosed, Handshake,
                 PostClosed, OnSubThreadEnded, vars
  <2> QED  BY <1>2, <2>1
<1>11. CASE Stores
  BY <1>2, <1>11, StoreSteps
<1> QED  BY <1>2, <1>3, <1>4, <1>5, <1>6, <1>7, <1>8, <1>9, <1>10, <1>11, Steps

(* A message is sent: it comes after the others.                           *)
LEMMA SendStep ==
    ASSUME QueueTypes, RestTypes, NEW u \in Socket, Send(u), WireOf(u)
    PROVE  WireOf(u)'
<1> DEFINE n == Len(messages) + 1
           m == [ws |-> u, what |-> sent[u] + 1, issued |-> 0]
<1>1. sent[u] \in Nat /\ sent'[u] = sent[u] + 1 /\ wire' = wire
  BY DEF Send, RestTypes, history
<1>2. m \in Message /\ m.ws = u /\ m.what = sent[u] + 1 /\ m.issued = 0 /\ m.what # 0
  BY <1>1, WebSocketAssumption DEF Message
<1>3. messages' = Append(messages, m)
  BY <1>1 DEF Send
<1>4. Whole(u)' = Whole(u) /\ Part(u)' = Part(u)
  BY <1>1 DEF Whole, Part
<1>5. Whole(u) \in Nat /\ Part(u) \in 0..Fragments - 1
  BY WireTypes
<1> HIDE DEF m, n
<1>6. /\ Sends(u)' = Sends(u) \cup {n}
      /\ \A i \in Sends(u) : messages'[i] = messages[i] /\ i < n
      /\ messages'[n] = m /\ \A i \in Sends(u) : i \in Int
  BY <1>2, <1>3, SendsAppended DEF QueueTypes, n
<1>7. \A i \in Sends(u) : messages'[i].what \in (Whole(u) + 1)..sent[u]
  BY <1>6 DEF WireOf, Begun
<1>8. Begun(u)'
  <2>1. ASSUME NEW i \in Sends(u)
        PROVE  /\ messages'[i].what \in (Whole(u) + 1)..sent'[u]
               /\ messages'[i].issued = IF messages'[i].what = Whole(u) + 1 THEN Part(u) ELSE 0
    <3>1. messages'[i].issued = IF messages'[i].what = Whole(u) + 1 THEN Part(u) ELSE 0
      BY <1>6 DEF WireOf, Begun
    <3>2. messages'[i].what \in (Whole(u) + 1)..sent'[u]
      BY <1>1, <1>5, <1>7
    <3> QED  BY <3>1, <3>2
  <2>2. /\ messages'[n].what \in (Whole(u) + 1)..sent'[u]
        /\ messages'[n].issued = IF messages'[n].what = Whole(u) + 1 THEN Part(u) ELSE 0
    <3>1. Whole(u) <= sent[u] /\ (Whole(u) = sent[u] => Part(u) = 0)
      BY DEF WireOf
    <3> QED  BY <1>1, <1>2, <1>5, <1>6, <3>1
  <2> QED  BY <1>4, <1>6, <2>1, <2>2 DEF Begun
<1>9. NoneMissing(u)'
  <2>1. ASSUME NEW v \in (Whole(u) + 1)..sent'[u]
        PROVE  \E i \in Sends(u)' : messages'[i].what = v
    <3>1. CASE v \in (Whole(u) + 1)..sent[u]
      BY <1>6, <3>1 DEF WireOf, NoneMissing
    <3>2. CASE v = sent[u] + 1
      BY <1>2, <1>6, <3>2
    <3> QED  BY <1>1, <1>5, <3>1, <3>2
  <2> QED  BY <1>4, <2>1 DEF NoneMissing
<1>10. Ordered(u)'
  <2>1. ASSUME NEW i \in Sends(u)', NEW j \in Sends(u)', i < j
        PROVE  messages'[i].what < messages'[j].what
    <3>1. n \in Int
      BY DEF n, QueueTypes
    <3>2. CASE j = n
      <4>1. i \in Sends(u)
        BY <1>6, <2>1, <3>1, <3>2
      <4> QED  BY <1>1, <1>2, <1>5, <1>6, <1>7, <3>2, <4>1
    <3>3. CASE j \in Sends(u)
      <4>1. i \in Sends(u)
        BY <1>6, <2>1, <3>1, <3>3
      <4> QED  BY <1>6, <2>1, <3>3, <4>1 DEF WireOf, Ordered
    <3> QED  BY <1>6, <3>2, <3>3
  <2> QED  BY <2>1 DEF Ordered
<1>11. Whole(u) <= sent'[u] /\ (Whole(u) = sent'[u] => Part(u) = 0)
  <2>1. Whole(u) <= sent[u]
    BY DEF WireOf
  <2> QED  BY <1>1, <1>5, <2>1
<1> QED  BY <1>4, <1>8, <1>9, <1>10, <1>11 DEF WireOf

(* What is written continues what was.                                     *)
LEMMA Continues ==
    ASSUME IInv, NEW u \in Socket, WireOf(u), Writes(u)
    PROVE  \E i \in Sends(u) :
               /\ WritePiece(u, i)
               /\ messages[i].what = Whole(u) + 1 /\ messages[i].issued = Part(u)
               /\ \A j \in Sends(u) \ {i} : messages[j].what # Whole(u) + 1
               /\ Whole(u) < sent[u]
               /\ wire' = [wire EXCEPT ![u] = Append(wire[u], <<Whole(u) + 1, Part(u) + 1>>)]
               /\ sent' = sent
<1>1. /\ NetStands /\ Requests /\ messages \in Seq(Message) /\ RestTypes
      /\ Whole(u) \in Nat /\ sent[u] \in Nat
  BY TypeParts, WireTypes DEF IInv, QueueTypes
<1>2. PICK i \in DOMAIN messages : WritePiece(u, i)
  BY DEF Writes
<1>3. ~Asked(u)
  BY <1>1 DEF Writes, NetStands, Working, Requests
<1>4. \A j \in DOMAIN messages : messages[j].ws = u => messages[j].what # 0
  BY <1>3 DEF Asked, Creates
<1>5. i \in Sends(u) /\ \A j \in Sends(u) : i <= j
  BY <1>2, <1>4 DEF WritePiece, IsFirst, MessagesOf, Sends
<1>6. DOMAIN messages \subseteq Int
  BY <1>1
<1>7. \A j \in Sends(u) : j \in Int
  BY <1>6 DEF Sends
<1>8. /\ \A j \in Sends(u) : messages[j].what \in (Whole(u) + 1)..sent[u]
      /\ messages[i].issued = IF messages[i].what = Whole(u) + 1 THEN Part(u) ELSE 0
  BY <1>5 DEF WireOf, Begun
<1>9. ASSUME NEW j \in Sends(u) \ {i}
      PROVE  messages[i].what < messages[j].what
  <2>1. i < j
    BY <1>5, <1>7
  <2> QED  BY <1>5, <2>1 DEF WireOf, Ordered
<1>10. Whole(u) + 1 \in (Whole(u) + 1)..sent[u]
  <2>1. messages[i].what \in (Whole(u) + 1)..sent[u]
    BY <1>5, <1>8
  <2> QED  BY <1>1, <2>1
<1>11. PICK k \in Sends(u) : messages[k].what = Whole(u) + 1
  BY <1>10 DEF WireOf, NoneMissing
<1>12. k = i
  <2>1. ASSUME k # i
        PROVE  FALSE
    <3>1. messages[i].what < messages[k].what
      BY <1>9, <2>1
    <3>2. messages[i].what \in (Whole(u) + 1)..sent[u]
      BY <1>5, <1>8
    <3> QED  BY <1>1, <1>11, <3>1, <3>2
  <2> QED  BY <2>1
<1>13. messages[i].what = Whole(u) + 1 /\ messages[i].issued = Part(u)
  BY <1>8, <1>11, <1>12
<1>14. \A j \in Sends(u) \ {i} : messages[j].what # Whole(u) + 1
  <2>1. ASSUME NEW j \in Sends(u) \ {i}
        PROVE  messages[j].what # Whole(u) + 1
    <3>1. Whole(u) + 1 < messages[j].what
      BY <1>9, <1>13
    <3> QED  BY <1>1, <3>1
  <2> QED  BY <2>1
<1>15. Whole(u) < sent[u]
  BY <1>1, <1>10
<1>16. wire' = [wire EXCEPT ![u] = Append(wire[u], <<Whole(u) + 1, Part(u) + 1>>)]
  BY <1>2, <1>13 DEF WritePiece
<1>17. sent' = sent
  BY DEF Writes
<1> QED  BY <1>2, <1>5, <1>13, <1>14, <1>15, <1>16, <1>17

(* So what is left continues what is written then.                         *)
LEMMA WriteStep ==
    ASSUME IInv, NEW u \in Socket, WireOf(u), Writes(u)
    PROVE  WireOf(u)'
<1>1. messages \in Seq(Message) /\ RestTypes /\ Ordered(u)
  BY TypeParts DEF IInv, QueueTypes, WireOf
<1>2. PICK i \in Sends(u) :
               /\ WritePiece(u, i)
               /\ messages[i].what = Whole(u) + 1 /\ messages[i].issued = Part(u)
               /\ \A j \in Sends(u) \ {i} : messages[j].what # Whole(u) + 1
               /\ Whole(u) < sent[u]
               /\ wire' = [wire EXCEPT ![u] = Append(wire[u], <<Whole(u) + 1, Part(u) + 1>>)]
               /\ sent' = sent
  BY Continues
<1>3. i \in DOMAIN messages
  BY DEF Sends
<1>4. /\ sent[u] \in Nat /\ Len(wire[u]) \in Nat /\ Fragments \in Nat \ {0}
      /\ Whole(u) \in Nat /\ Part(u) \in 0..Fragments - 1
  BY <1>1, WireTypes
<1>5. Len(wire'[u]) = Len(wire[u]) + 1
  BY <1>1, <1>2 DEF RestTypes
<1>6. \A j \in Sends(u) : /\ messages[j].what \in (Whole(u) + 1)..sent[u]
                          /\ messages[j].issued = IF messages[j].what = Whole(u) + 1
                                                  THEN Part(u) ELSE 0
  BY DEF WireOf, Begun
<1>7. CASE messages[i].issued + 1 = Fragments
  <2>1. Whole(u)' = Whole(u) + 1 /\ Part(u)' = 0
    <3>1. (Len(wire[u]) % Fragments) + 1 = Fragments
      BY <1>2, <1>7 DEF Part
    <3>2. /\ (Len(wire[u]) + 1) \div Fragments = (Len(wire[u]) \div Fragments) + 1
          /\ (Len(wire[u]) + 1) % Fragments = 0
      BY <1>4, <3>1, DivMod
    <3> QED  BY <1>5, <3>2 DEF Whole, Part
  <2>2. messages' = RemoveAt(messages, i)
    BY <1>2, <1>7 DEF WritePiece
  <2>3. /\ \A j \in Sends(u)' : \E k \in Sends(u) \ {i} : messages'[j] = messages[k]
        /\ \A k \in Sends(u) \ {i} : \E j \in Sends(u)' : messages'[j] = messages[k]
        /\ Ordered(u)'
    BY <1>1, <1>3, <2>2, SendsRemoved
  <2>4. \A k \in Sends(u) \ {i} : /\ messages[k].what \in (Whole(u) + 2)..sent[u]
                                  /\ messages[k].issued = 0
    BY <1>2, <1>4, <1>6
  <2>5. \A j \in Sends(u)' : /\ messages'[j].what \in (Whole(u) + 2)..sent[u]
                             /\ messages'[j].issued = 0
    BY <2>3, <2>4
  <2>6. Begun(u)'
    <3>1. (Whole(u) + 1) + 1 = Whole(u) + 2
      BY <1>4
    <3> QED  BY <1>2, <2>1, <2>5, <3>1 DEF Begun
  <2>7. NoneMissing(u)'
    <3>1. ASSUME NEW v \in (Whole(u) + 2)..sent[u]
          PROVE  \E j \in Sends(u)' : messages'[j].what = v
      <4>1. v \in (Whole(u) + 1)..sent[u] /\ v # Whole(u) + 1
        BY <1>4
      <4>2. PICK k \in Sends(u) : messages[k].what = v
        BY <4>1 DEF WireOf, NoneMissing
      <4>3. k # i
        BY <1>2, <4>1, <4>2
      <4> QED  BY <2>3, <4>2, <4>3
    <3>2. (Whole(u) + 1) + 1 = Whole(u) + 2
      BY <1>4
    <3> QED  BY <1>2, <2>1, <3>1, <3>2 DEF NoneMissing
  <2>8. Whole(u)' <= sent'[u]
    BY <1>2, <1>4, <2>1
  <2> QED  BY <2>1, <2>3, <2>6, <2>7, <2>8 DEF WireOf
<1>8. CASE messages[i].issued + 1 # Fragments
  <2>1. Whole(u)' = Whole(u) /\ Part(u)' = Part(u) + 1
    BY <1>2, <1>4, <1>5, <1>8, DivMod DEF Whole, Part
  <2>2. messages' = [messages EXCEPT ![i].issued = @ + 1]
    BY <1>2, <1>8 DEF WritePiece
  <2>3. /\ Sends(u)' = Sends(u)
        /\ \A j \in Sends(u) : messages'[j].what = messages[j].what
        /\ \A j \in Sends(u) \ {i} : messages'[j].issued = messages[j].issued
        /\ messages'[i].issued = messages[i].issued + 1
        /\ Ordered(u)'
    BY <1>1, <1>3, <2>2, SendsIssued
  <2>4. Begun(u)'
    <3>1. ASSUME NEW j \in Sends(u)
          PROVE  /\ messages'[j].what \in (Whole(u) + 1)..sent[u]
                 /\ messages'[j].issued = IF messages'[j].what = Whole(u) + 1
                                          THEN Part(u) + 1 ELSE 0
      BY <1>2, <1>6, <2>3
    <3> QED  BY <1>2, <2>1, <2>3, <3>1 DEF Begun
  <2>5. NoneMissing(u)'
    BY <1>2, <2>1, <2>3 DEF WireOf, NoneMissing
  <2>6. Whole(u)' <= sent'[u] /\ Whole(u)' # sent'[u]
    BY <1>2, <1>4, <2>1
  <2> QED  BY <2>3, <2>4, <2>5, <2>6 DEF WireOf
<1> QED  BY <1>7, <1>8

(* The piece that is written is the next one.                              *)
InOrder(u) ==
    \A i \in DOMAIN wire[u] :
        wire[u][i] = <<((i - 1) \div Fragments) + 1, ((i - 1) % Fragments) + 1>>

LEMMA InOrderStep ==
    ASSUME IInv, WireInv, WireInOrder, [Next]_vars
    PROVE  WireInOrder'
<1>1. RestTypes /\ broken \subseteq broken'
  BY TypeParts, WireSteps DEF IInv
<1>2. SUFFICES ASSUME NEW u \in Socket, u \notin broken'
               PROVE  InOrder(u)'
  BY DEF WireInOrder, InOrder
<1>3. u \notin broken /\ InOrder(u)
  BY <1>1, <1>2 DEF WireInOrder, InOrder
<1>4. CASE wire' = wire
  BY <1>3, <1>4 DEF InOrder
<1>5. ASSUME NEW w \in Socket, Writes(w), w # u
      PROVE  InOrder(u)'
  <2>1. wire'[u] = wire[u]
    BY <1>1, <1>5 DEF Writes, WritePiece, RestTypes
  <2> QED  BY <1>3, <2>1 DEF InOrder
<1>6. CASE Writes(u)
  <2> DEFINE e == <<Whole(u) + 1, Part(u) + 1>>
             n == Len(wire[u]) + 1
  <2>1. WireOf(u)
    BY <1>3, <1>6 DEF WireInv, Writes, Exists
  <2>2. wire'[u] = Append(wire[u], e)
    BY <1>1, <1>6, <2>1, Continues DEF RestTypes
  <2>3. /\ wire[u] \in Seq(Nat \X (1..Fragments)) /\ e \in Nat \X (1..Fragments)
        /\ Len(wire[u]) \in Nat
    BY <1>1, WireTypes
  <2>4. n - 1 = Len(wire[u])
    BY <2>3
  <2>5. e = <<((n - 1) \div Fragments) + 1, ((n - 1) % Fragments) + 1>>
    BY <2>4 DEF Whole, Part
  <2> HIDE DEF e
  <2>6. /\ DOMAIN wire'[u] = DOMAIN wire[u] \cup {n}
        /\ \A i \in DOMAIN wire[u] : wire'[u][i] = wire[u][i]
        /\ wire'[u][n] = e
    BY <2>2, <2>3, AppendProps
  <2> QED  BY <1>3, <2>5, <2>6 DEF InOrder
<1> QED  BY <1>4, <1>5, <1>6, WireSteps

LEMMA WireInvStep ==
    ASSUME IInv, WireInv, [Next]_vars
    PROVE  WireInv'
<1>1. RestTypes /\ QueueTypes /\ broken \subseteq broken'
  BY TypeParts, WireSteps DEF IInv
<1>2. SUFFICES ASSUME NEW u \in Socket, u \notin broken', object'[u] # "deleted"
               PROVE  WireOf(u)'
  BY DEF WireInv
<1>3. WireOf(u)
  BY <1>1, <1>2, DeletedStays DEF WireInv
<1>4. CASE Send(u)
  BY <1>1, <1>3, <1>4, SendStep
<1>5. CASE Writes(u)
  BY <1>3, <1>5, WriteStep
<1>6. CASE /\ Untouched(u)
           /\ \/ UNCHANGED messages
              \/ KeptRemoving(u) \/ KeptIssuing(u) \/ KeptAppending(u)
              \/ messages' = <<>> /\ Sends(u) = {}
  <2>1. Kept(u)
    BY <1>1, <1>3, <1>6, KeptSteps DEF WireOf, QueueTypes
  <2> QED  BY <1>3, <1>6, <2>1, WireKept
<1> QED  BY <1>2, <1>4, <1>5, <1>6, SendSteps

(* Whatever the main thread sends or opens while the network thread writes,*)
(* the pieces of a socket that lost no write are written in the order of   *)
(* its messages, each whole before the next (send, onClientWritable).      *)
THEOREM WireIsInOrder == Spec => []WireInOrder
<1> DEFINE WInv == WireInv /\ WireInOrder
<1>1. Init => WInv
  <2>1. ASSUME Init, NEW u \in Socket
        PROVE  WireOf(u)
    <3>1. messages = <<>> /\ sent[u] = 0 /\ wire[u] = <<>>
      BY <2>1 DEF Init
    <3>2. Whole(u) = 0 /\ Part(u) = 0
      BY <3>1, DivMod, WebSocketAssumption DEF Whole, Part
    <3>3. Sends(u) = {}
      BY <3>1 DEF Sends
    <3> QED  BY <3>1, <3>2, <3>3 DEF WireOf, Begun, NoneMissing, Ordered
  <2>2. Init => WireInv
    BY <2>1 DEF WireInv
  <2>3. Init => WireInOrder
    BY DEF Init, WireInOrder
  <2> QED  BY <2>2, <2>3
<1>2. IInv /\ WInv /\ [Next]_vars => WInv'
  BY InOrderStep, WireInvStep
<1>3. WInv => WireInOrder
  OBVIOUS
<1> QED  BY <1>1, <1>2, <1>3, Invariance, PTL DEF Spec
=============================================================================
