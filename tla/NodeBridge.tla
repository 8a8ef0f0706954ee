----------------------------- MODULE NodeBridge -----------------------------
(***************************************************************************)
(* The embedded Node.js: its start by node/Node.kt and node/NativeNode.kt, *)
(* and the bridge over which scripts ask Java for RSA operations and get   *)
(* the answers (cpp/rn-bridge.cpp, cpp/native-lib.cpp).                    *)
(*                                                                         *)
(* Two threads: the one of Node.init, which starts Node.js and waits for   *)
(* it, and the one that runs node::Start, its event loop and all scripts.  *)
(* A request calls into Java and back on that same thread: the answer is   *)
(* queued by rn_bridge_notify, moved by flushMessageQueue to a handle of   *)
(* its own, and handed to the listeners by doRegisteredCallbacks; all are  *)
(* callbacks of libuv, which runs a handle once for any number of sends.   *)
(* The scripts are not part of the repository: they may do anything the    *)
(* two functions of the bridge allow, also from within a listener.         *)
(***************************************************************************)
EXTENDS Naturals, Sequences, FiniteSets, SequencesExt

CONSTANTS Requests,       \* ids of requests
          MaxListeners    \* registrations by the scripts

ASSUME BridgeAssumption == MaxListeners \in Nat

VARIABLES
  initThread,       \* the thread of Node.init
  liveData,         \* NodeInitResult: "none", "ready", "failed"
  isRunning, isReady,
  node,             \* node::Start: "off", "on", "stopped"
  exceptionPending, \* an exception of receiveNativeMessageFromNode stays with the thread
  jsException,      \* an exception of a listener stays with the napi_env
  queueHandle,      \* queue_uv_handle: "null", or whether a send is pending: "sent", "idle"
  messageQueue,
  async,            \* messages with a handle of their own, sent and not yet called
  dispatch,         \* the message of doRegisteredCallbacks on the stack, if it is there
  copiedPool, it,   \* its local variables: the listeners it copied, the next one to call
  closing,          \* handles that were closed and whose close_cb is to come
  freed,            \* messages whose memory was released
  pool,             \* the number of registered listeners
  attempts,         \* calls of registerListener
  asked,            \* requests sent by the scripts
  got,              \* of each listener: the answers it was called with
  known,            \* history: of each request, the listeners when it was sent
  spoilt            \* history: requests whose callbacks met an exception of a listener

vars == <<initThread, liveData, isRunning, isReady, node, exceptionPending, jsException, queueHandle,
          messageQueue, async, dispatch, copiedPool, it, closing, freed, pool, attempts, asked, got,
          known, spoilt>>

java == <<initThread, liveData, isRunning, isReady, node>>
exceptions == <<exceptionPending, jsException, spoilt>>
stack == <<dispatch, copiedPool, it>>
memory == <<messageQueue, async, stack, closing, freed>>
scripts == <<pool, attempts, asked, got, known>>

Listeners == 1 .. MaxListeners

Init ==
  /\ initThread = "secret" /\ liveData = "none"
  /\ isRunning = FALSE /\ isReady = FALSE /\ node = "off"
  /\ exceptionPending = FALSE /\ jsException = FALSE /\ spoilt = {}
  /\ queueHandle = "null" /\ messageQueue = <<>>
  /\ async = {} /\ dispatch = {} /\ copiedPool = 0 /\ it = 0 /\ closing = {} /\ freed = {}
  /\ pool = 0 /\ attempts = 0 /\ asked = {}
  /\ got = [l \in Listeners |-> <<>>]
  /\ known = [r \in Requests |-> 0]

-----------------------------------------------------------------------------
(* Node.init *)

\* The cached certificates, or new ones that are saved; an exception ends the thread.
prepareSecret ==
  /\ initThread = "secret"
  /\ \/ initThread' = "start" /\ liveData' = liveData
     \/ initThread' = "end" /\ liveData' = "failed"
  /\ UNCHANGED <<isRunning, isReady, node, exceptions, queueHandle, memory, scripts>>

\* NativeNode.start: a second thread runs startNodeWithArguments.
start ==
  /\ initThread = "start"
  /\ initThread' = "wait"
  /\ IF isRunning THEN UNCHANGED <<isRunning, node>> ELSE isRunning' = TRUE /\ node' = "on"
  /\ UNCHANGED <<liveData, isReady, exceptions, queueHandle, memory, scripts>>

\* A mutant: an exception of NodeRetrofitHelper.init is swallowed.
becomeReadySilently ==
  /\ initThread = "wait" /\ isReady
  /\ initThread' = "end"
  /\ liveData' \in {"ready", "none"}
  /\ UNCHANGED <<isRunning, isReady, node, exceptions, queueHandle, memory, scripts>>

\* waitUntilReady, NodeRetrofitHelper.init; the latter may throw.
becomeReady ==
  /\ initThread = "wait" /\ isReady
  /\ initThread' = "end"
  /\ liveData' \in {"ready", "failed"}
  /\ UNCHANGED <<isRunning, isReady, node, exceptions, queueHandle, memory, scripts>>

\* node::Start returns or fails: the rest of the thread of NativeNode.start.
nodeStops ==
  /\ node = "on"
  /\ node' = "stopped" /\ isRunning' = FALSE /\ isReady' = FALSE
  /\ UNCHANGED <<initThread, liveData, exceptions, queueHandle, memory, scripts>>

-----------------------------------------------------------------------------
(* What scripts do, from the event loop or from within a listener. *)

\* A listener that has thrown runs no further.
Running == node = "on" /\ (dispatch = {} \/ ~jsException)

\* A call into Java with an exception pending is not defined; the runtime ends the process.
CanCall == Running /\ ~exceptionPending

\* When a function of the bridge returns to the script, Node.js throws the exception that is
\* pending in the napi_env there, and the napi_env is rid of it.
Rethrow == jsException' = FALSE /\ UNCHANGED spoilt

uv_async_send(h) == IF h = "null" THEN h ELSE "sent"

\* A mutant: the listener is put into the pool twice.
RegisterListenerTwice ==
  /\ Running /\ attempts < MaxListeners
  /\ attempts' = attempts + 1
  /\ queueHandle' = IF queueHandle = "null" THEN "sent" ELSE queueHandle
  /\ pool' \in {pool, pool + 2}
  /\ Rethrow
  /\ UNCHANGED <<java, exceptionPending, memory, asked, got, known>>

\* Method_RegisterListener; the handle exists even if the argument is not a function.
RegisterListener ==
  /\ Running /\ attempts < MaxListeners
  /\ attempts' = attempts + 1
  /\ queueHandle' = IF queueHandle = "null" THEN "sent" ELSE queueHandle
  /\ pool' \in {pool, pool + 1}
  /\ Rethrow
  /\ UNCHANGED <<java, exceptionPending, memory, asked, got, known>>

\* sendMessage("listening on ...")
SendListening ==
  /\ CanCall /\ ~isReady
  /\ isReady' = TRUE
  /\ Rethrow
  /\ UNCHANGED <<initThread, liveData, isRunning, node, exceptionPending, queueHandle, memory, scripts>>

\* A mutant: the event loop is not woken up.
rn_bridge_notifySilently(r) ==
  /\ messageQueue' = Append(messageQueue, r)
  /\ queueHandle' = queueHandle

\* rn_bridge_notify
rn_bridge_notify(r) ==
  /\ messageQueue' = Append(messageQueue, r)
  /\ queueHandle' = uv_async_send(queueHandle)

\* sendMessage(request): Method_SendMessage, rcv_message, receiveNativeMessageFromNode,
\* NodeHost.nodeReqHandler, sendNativeMessageToNode. The handler is called outside of the try
\* block that would answer with an error.
SendRequest(r) ==
  /\ CanCall /\ r \notin asked
  /\ asked' = asked \cup {r}
  /\ known' = [known EXCEPT ![r] = pool]
  /\ Rethrow
  /\ \/ rn_bridge_notify(r) /\ UNCHANGED exceptionPending
     \/ exceptionPending' = TRUE /\ UNCHANGED <<messageQueue, queueHandle>>
  /\ UNCHANGED <<java, async, stack, closing, freed, pool, attempts, got>>

-----------------------------------------------------------------------------
(* Callbacks of the event loop: one at a time. *)

InLoop == node = "on" /\ dispatch = {}

\* A mutant: the queue is read without popping.
flushMessageQueueKeeps ==
  /\ InLoop /\ queueHandle = "sent"
  /\ queueHandle' = "idle"
  /\ async' = async \cup ToSet(messageQueue)
  /\ UNCHANGED <<java, exceptions, messageQueue, stack, closing, freed, scripts>>

\* flushMessageQueue: every queued message gets a handle.
flushMessageQueue ==
  /\ InLoop /\ queueHandle = "sent"
  /\ queueHandle' = "idle"
  /\ async' = async \cup ToSet(messageQueue)
  /\ messageQueue' = <<>>
  /\ UNCHANGED <<java, exceptions, stack, closing, freed, scripts>>

Begin(r, copied) ==
  /\ InLoop /\ r \in async
  /\ async' = async \ {r}
  /\ dispatch' = {r} /\ copiedPool' = copied /\ it' = 1
  /\ spoilt' = IF jsException THEN spoilt \cup {r} ELSE spoilt
  /\ UNCHANGED <<java, exceptionPending, jsException, queueHandle, messageQueue, closing, freed, scripts>>

\* A mutant: the copy leaves out the last listener.
startCallbacksShort(r) == Begin(r, IF pool = 0 THEN 0 ELSE pool - 1)

\* doRegisteredCallbacks copies the pool ...
startCallbacks(r) == Begin(r, pool)

\* ... and calls the listeners in order (QueuedFunc::notify_message); napi_call_function calls
\* nobody while an exception is pending in the napi_env, and its status is not looked at.
notify_message ==
  /\ node = "on" /\ it <= copiedPool
  /\ \E r \in dispatch : got' = IF jsException THEN got ELSE [got EXCEPT ![it] = Append(@, r)]
  /\ it' = it + 1
  /\ UNCHANGED <<java, exceptions, queueHandle, messageQueue, async, dispatch, copiedPool,
                 closing, freed, pool, attempts, asked, known>>

\* The listener that was called last throws.
listenerThrows ==
  /\ node = "on" /\ it > 1 /\ ~jsException
  /\ jsException' = TRUE /\ spoilt' = spoilt \cup dispatch
  /\ UNCHANGED <<java, exceptionPending, queueHandle, memory, scripts>>

\* ... and closes the handle,
endCallbacks ==
  /\ node = "on" /\ dispatch # {} /\ it > copiedPool
  /\ closing' = closing \cup dispatch
  /\ dispatch' = {} /\ copiedPool' = 0 /\ it' = 0
  /\ UNCHANGED <<java, exceptions, queueHandle, messageQueue, async, freed, scripts>>

\* whose memory is released by close_cb.
close_cb(r) ==
  /\ InLoop /\ r \in closing
  /\ closing' = closing \ {r} /\ freed' = freed \cup {r}
  /\ UNCHANGED <<java, exceptions, queueHandle, messageQueue, async, stack, scripts>>

Next ==
  \/ prepareSecret \/ start \/ becomeReady \/ nodeStops
  \/ RegisterListener \/ SendListening \/ \E r \in Requests : SendRequest(r)
  \/ flushMessageQueue \/ notify_message \/ listenerThrows \/ endCallbacks
  \/ \E r \in Requests : startCallbacks(r) \/ close_cb(r)

\* The event loop runs every handle that was sent as long as node::Start does not return, and
\* the thread of Node.init goes on when it can.
Fairness ==
  /\ WF_vars(prepareSecret) /\ WF_vars(start) /\ WF_vars(becomeReady)
  /\ WF_vars(flushMessageQueue) /\ WF_vars(notify_message) /\ WF_vars(endCallbacks)
  /\ \A r \in Requests : WF_vars(startCallbacks(r)) /\ WF_vars(close_cb(r))

Spec == Init /\ [][Next]_vars /\ Fairness

-----------------------------------------------------------------------------
(* Properties. *)

TypeOK ==
  /\ initThread \in {"secret", "start", "wait", "end"}
  /\ liveData \in {"none", "ready", "failed"}
  /\ isRunning \in BOOLEAN /\ isReady \in BOOLEAN
  /\ exceptionPending \in BOOLEAN /\ jsException \in BOOLEAN /\ spoilt \subseteq Requests
  /\ node \in {"off", "on", "stopped"}
  /\ queueHandle \in {"null", "sent", "idle"}
  /\ messageQueue \in Seq(Requests)
  /\ async \subseteq Requests /\ closing \subseteq Requests /\ freed \subseteq Requests
  /\ dispatch \subseteq Requests /\ Cardinality(dispatch) <= 1
  /\ copiedPool \in 0 .. pool /\ it \in 0 .. copiedPool + 1
  /\ pool \in 0 .. MaxListeners /\ attempts \in pool .. MaxListeners
  /\ asked \subseteq Requests
  /\ got \in [Listeners -> Seq(Requests)]
  /\ known \in [Requests -> 0 .. MaxListeners]

\* The memory of an answer has one owner at a time: the queue, a handle, the callback on the
\* stack, a closed handle, or nobody any more.
OneOwner ==
  LET owners == <<ToSet(messageQueue), async, dispatch, closing, freed>>
  IN /\ \A i, j \in DOMAIN owners : i # j => owners[i] \cap owners[j] = {}
     /\ IsInjective(messageQueue)

\* Listeners get an answer in the order of their registration and once.  Unless a listener threw
\* during the callbacks, or before them with no call of the bridge since, the answer is not
\* released before every listener that existed when its request was sent got it.
DeliveredToAll ==
  /\ \A r \in closing \cup freed, l \in Listeners :
       l <= known[r] => r \in ToSet(got[l]) \cup spoilt
  /\ \A l, m \in Listeners : l < m => ToSet(got[m]) \subseteq ToSet(got[l])
  /\ \A l \in Listeners : IsInjective(got[l])

\* No wake-up is lost: once a listener was registered, every queued answer is handed over and
\* released unless Node.js stops, although uv_async_send merges calls and is skipped while
\* there is no handle.
AnswersArrive ==
  \A r \in Requests :
    (queueHandle # "null" /\ Contains(messageQueue, r)) ~> (r \in freed \/ node = "stopped")

\* Node.init reports the end of the start unless Node.js stops before it was ready.
StartReported == isReady ~> (liveData # "none" \/ node = "stopped")
=============================================================================
