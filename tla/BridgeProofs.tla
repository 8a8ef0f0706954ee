---------------------------- MODULE BridgeProofs ----------------------------
(***************************************************************************)
(* Proofs about NodeBridge, for any set of requests and any number of      *)
(* listeners: an answer has one owner at a time, and none is released      *)
(* before every listener that waited for it was called with it, once,      *)
(* unless a listener threw.                                                *)
(***************************************************************************)
EXTENDS NodeBridge, FiniteSetTheorems, TLAPS

\* The messages in native memory; each of them was asked for.
InQueue == ToSet(messageQueue)

Owners ==
  /\ InQueue \subseteq asked /\ async \subseteq asked /\ dispatch \subseteq asked
  /\ closing \subseteq asked /\ freed \subseteq asked
  /\ InQueue \cap (async \cup dispatch \cup closing \cup freed) = {}
  /\ async \cap (dispatch \cup closing \cup freed) = {}
  /\ dispatch \cap (closing \cup freed) = {}
  /\ closing \cap freed = {}
  /\ IsInjective(messageQueue)

\* doRegisteredCallbacks is on the stack at most once, with its iterator inside of the copy.
OneCallback ==
  /\ \A r, s \in dispatch : r = s
  /\ dispatch = {} => copiedPool = 0 /\ it = 0
  /\ dispatch # {} => it >= 1

\* The callbacks on the stack are spoilt as long as an exception of a listener is pending.
Spoiling ==
  /\ \A r \in dispatch : r \in spoilt <=> jsException = TRUE
  /\ spoilt \subseteq dispatch \cup closing \cup freed

\* Which listeners have got a message: the ones before the iterator unless the callbacks are
\* spoilt, and all that the request was sent with once the callbacks are over.
Heard ==
  /\ \A r \in asked : known[r] <= pool
  /\ \A r \in dispatch : known[r] <= copiedPool
  /\ \A l \in Listeners : /\ IsInjective(got[l])
                          /\ ToSet(got[l]) \subseteq dispatch \cup closing \cup freed
  /\ \A r \in dispatch, l \in Listeners : r \in ToSet(got[l]) => l < it
  /\ \A r \in dispatch, l \in Listeners : l < it => r \in ToSet(got[l]) \cup spoilt
  /\ \A l, m \in Listeners : l < m => ToSet(got[m]) \subseteq ToSet(got[l])
  /\ \A r \in closing \cup freed, l \in Listeners : l <= known[r] => r \in ToSet(got[l]) \cup spoilt

\* TypeOK in two parts, without the cardinality, which follows from OneCallback.
JavaTypes ==
  /\ initThread \in {"secret", "start", "wait", "end"}
  /\ liveData \in {"none", "ready", "failed"}
  /\ isRunning \in BOOLEAN /\ isReady \in BOOLEAN
  /\ exceptionPending \in BOOLEAN /\ jsException \in BOOLEAN
  /\ node \in {"off", "on", "stopped"}
  /\ queueHandle \in {"null", "sent", "idle"}

Types ==
  /\ messageQueue \in Seq(Requests)
  /\ async \subseteq Requests /\ closing \subseteq Requests /\ freed \subseteq Requests
  /\ dispatch \subseteq Requests /\ spoilt \subseteq Requests
  /\ pool \in 0 .. MaxListeners /\ attempts \in pool .. MaxListeners
  /\ copiedPool \in 0 .. pool /\ it \in 0 .. copiedPool + 1
  /\ asked \subseteq Requests
  /\ got \in [Listeners -> Seq(Requests)]
  /\ known \in [Requests -> 0 .. MaxListeners]

Native == Types /\ Owners /\ OneCallback /\ Spoiling /\ Heard

Inv == JavaTypes /\ Native

-----------------------------------------------------------------------------
(* The elements of a queue. *)

\* push adds one element, and a queue stays free of duplicates when the element is new.
LEMMA AppendElement ==
  ASSUME NEW S, NEW q \in Seq(S), NEW x \in S
  PROVE  /\ Append(q, x) \in Seq(S)
         /\ ToSet(Append(q, x)) = ToSet(q) \cup {x}
         /\ IsInjective(q) /\ x \notin ToSet(q) => IsInjective(Append(q, x))
<1>1. /\ Append(q, x) \in Seq(S) /\ Len(q) \in Nat /\ DOMAIN q = 1 .. Len(q)
      /\ DOMAIN Append(q, x) = 1 .. Len(q) + 1
      /\ \A i \in 1 .. Len(q) : Append(q, x)[i] = q[i]
      /\ Append(q, x)[Len(q) + 1] = x
  OBVIOUS
<1>2. ToSet(Append(q, x)) = ToSet(q) \cup {x}
  <2>1. ASSUME NEW e \in ToSet(Append(q, x)) PROVE e \in ToSet(q) \cup {x}
    <3>1. PICK i \in 1 .. Len(q) + 1 : e = Append(q, x)[i] BY <1>1 DEF ToSet
    <3>2. CASE i = Len(q) + 1 BY <1>1, <3>1, <3>2
    <3>3. CASE i \in 1 .. Len(q) BY <1>1, <3>1, <3>3 DEF ToSet
    <3>4. QED BY <1>1, <3>1, <3>2, <3>3
  <2>2. ASSUME NEW e \in ToSet(q) PROVE e \in ToSet(Append(q, x))
    <3>1. PICK i \in 1 .. Len(q) : e = q[i] BY <1>1 DEF ToSet
    <3>2. i \in 1 .. Len(q) + 1 /\ e = Append(q, x)[i] BY <1>1, <3>1
    <3>3. QED BY <1>1, <3>2 DEF ToSet
  <2>3. x \in ToSet(Append(q, x))
    <3>1. Len(q) + 1 \in 1 .. Len(q) + 1 BY <1>1
    <3>2. QED BY <1>1, <3>1 DEF ToSet
  <2>4. QED BY <2>1, <2>2, <2>3
<1>3. ASSUME IsInjective(q), x \notin ToSet(q) PROVE IsInjective(Append(q, x))
  <2>1. \A i \in 1 .. Len(q) : q[i] # x BY <1>1, <1>3 DEF ToSet
  <2>2. ASSUME NEW i \in 1 .. Len(q) + 1, NEW j \in 1 .. Len(q) + 1,
               Append(q, x)[i] = Append(q, x)[j]
        PROVE  i = j
    <3>1. CASE i \in 1 .. Len(q) /\ j \in 1 .. Len(q)
      BY <1>1, <1>3, <2>2, <3>1 DEF IsInjective
    <3>2. CASE i = Len(q) + 1 \/ j = Len(q) + 1
      BY <1>1, <2>1, <2>2, <3>2
    <3>3. QED BY <1>1, <3>1, <3>2
  <2>3. QED BY <1>1, <2>2 DEF IsInjective
<1>4. QED BY <1>1, <1>2, <1>3

LEMMA EmptyQueue == ToSet(<<>>) = {} /\ IsInjective(<<>>)
BY DEF ToSet, IsInjective

-----------------------------------------------------------------------------
LEMMA InitInv == Init => Inv
<1> SUFFICES ASSUME Init PROVE Inv
  OBVIOUS
<1>1. Types BY BridgeAssumption DEF Init, Types
<1>2. JavaTypes BY Zenon DEF Init, JavaTypes
<1>3. Owners /\ OneCallback /\ Spoiling BY EmptyQueue DEF Init, Owners, OneCallback, Spoiling, InQueue
<1>4. Heard BY EmptyQueue DEF Init, Heard
<1>5. QED BY <1>1, <1>2, <1>3, <1>4 DEF Inv, Native

LEMMA JavaNext == JavaTypes /\ [Next]_vars => JavaTypes'
<1> SUFFICES ASSUME JavaTypes, [Next]_vars PROVE JavaTypes'
  OBVIOUS
<1> USE DEF JavaTypes, java, exceptions, Rethrow
<1>1. CASE prepareSecret BY <1>1, Zenon DEF prepareSecret
<1>2. CASE start BY <1>2, Zenon DEF start
<1>3. CASE becomeReady BY <1>3, Zenon DEF becomeReady
<1>4. CASE nodeStops BY <1>4, Zenon DEF nodeStops
<1>5. CASE RegisterListener BY <1>5, Zenon DEF RegisterListener
<1>6. CASE SendListening BY <1>6, Zenon DEF SendListening
<1>7. ASSUME NEW r \in Requests, SendRequest(r) PROVE JavaTypes'
  BY <1>7, Zenon DEF SendRequest, rn_bridge_notify, uv_async_send
<1>8. CASE flushMessageQueue BY <1>8, Zenon DEF flushMessageQueue
<1>9. CASE notify_message BY <1>9, Zenon DEF notify_message
<1>10. CASE endCallbacks BY <1>10, Zenon DEF endCallbacks
<1>11. ASSUME NEW r \in Requests, startCallbacks(r) \/ close_cb(r) PROVE JavaTypes'
  BY <1>11, Zenon DEF startCallbacks, Begin, close_cb
<1>12. CASE listenerThrows BY <1>12, Zenon DEF listenerThrows
<1>13. CASE UNCHANGED vars BY <1>13, Zenon DEF vars
<1>14. QED
  BY <1>1, <1>2, <1>3, <1>4, <1>5, <1>6, <1>7, <1>8, <1>9, <1>10, <1>11, <1>12, <1>13 DEF Next

\* The steps that leave native memory and the listeners alone.
LEMMA NativeUnchanged ==
  ASSUME Native, UNCHANGED <<memory, scripts, exceptions>>
  PROVE  Native'
BY DEF Native, Types, Owners, OneCallback, Spoiling, Heard, InQueue, memory, stack, scripts, exceptions

\* A function of the bridge is called by a script that runs: no exception is pending during the
\* callbacks, and none is afterwards.
LEMMA RethrowInv ==
  ASSUME Spoiling, Running, Rethrow, UNCHANGED <<dispatch, closing, freed>>
  PROVE  Spoiling'
BY DEF Spoiling, Running, Rethrow

LEMMA SendListeningInv ==
  ASSUME Native, SendListening
  PROVE  Native'
<1>1. /\ Spoiling' /\ UNCHANGED <<memory, scripts, spoilt>>
  BY RethrowInv DEF Native, SendListening, CanCall, Rethrow, memory, stack
<1>2. QED BY <1>1 DEF Native, Types, Owners, OneCallback, Heard, InQueue, memory, stack, scripts

LEMMA RegisterInv ==
  ASSUME Types, Owners, OneCallback, Spoiling, Heard, RegisterListener
  PROVE  Native'
<1> USE BridgeAssumption DEF RegisterListener, memory, stack, Rethrow
<1>1. Types' BY DEF Types
<1>2. Owners' /\ OneCallback' BY DEF Owners, OneCallback, InQueue
<1>3. Heard' BY DEF Heard, Types
<1>4. Spoiling' BY RethrowInv
<1>5. QED BY <1>1, <1>2, <1>3, <1>4 DEF Native

\* An exception of a listener spoils the callbacks on the stack, if there are any.
LEMMA ThrowsInv ==
  ASSUME Types, Owners, OneCallback, Spoiling, Heard, listenerThrows
  PROVE  Native'
<1>1. /\ jsException' = TRUE /\ spoilt' = spoilt \cup dispatch
      /\ UNCHANGED <<messageQueue, async, dispatch, copiedPool, it, closing, freed, scripts>>
  BY DEF listenerThrows, memory, stack
<1>2. Types' /\ Owners' /\ OneCallback' BY <1>1 DEF Types, Owners, OneCallback, InQueue, scripts
<1>3. Spoiling' /\ Heard' BY <1>1 DEF Spoiling, Heard, scripts
<1>4. QED BY <1>2, <1>3 DEF Native

LEMMA SendRequestInv ==
  ASSUME Types, Owners, OneCallback, Spoiling, Heard, NEW r \in Requests, SendRequest(r)
  PROVE  Native'
<1>1. /\ r \notin asked /\ asked' = asked \cup {r} /\ known' = [known EXCEPT ![r] = pool]
      /\ UNCHANGED <<async, dispatch, copiedPool, it, closing, freed, pool, attempts, got>>
      /\ messageQueue' \in {messageQueue, Append(messageQueue, r)}
      /\ spoilt' = spoilt
  BY DEF SendRequest, rn_bridge_notify, stack, Rethrow
<1>2. /\ messageQueue' \in Seq(Requests) /\ IsInjective(messageQueue')
      /\ InQueue \subseteq InQueue' /\ InQueue' \subseteq InQueue \cup {r}
  <2>1. r \notin InQueue BY <1>1 DEF Owners
  <2>2. CASE messageQueue' = messageQueue BY <2>2 DEF Types, Owners, InQueue
  <2>3. CASE messageQueue' = Append(messageQueue, r)
    BY <2>1, <2>3, AppendElement DEF Types, Owners, InQueue
  <2>4. QED BY <1>1, <2>2, <2>3
<1>3. Types' BY <1>1, <1>2, BridgeAssumption DEF Types
<1>4. Owners' /\ OneCallback' BY <1>1, <1>2 DEF Owners, OneCallback
<1>5. Heard'
  <2>1. r \notin dispatch \cup closing \cup freed BY <1>1 DEF Owners
  <2>2. /\ \A s \in asked : s \in Requests /\ known'[s] = known[s]
        /\ known'[r] = pool
    BY <1>1 DEF Types
  <2>3. pool \in Int BY BridgeAssumption DEF Types
  <2>4. /\ dispatch \subseteq asked /\ closing \subseteq asked /\ freed \subseteq asked
        /\ \A s \in dispatch \cup closing \cup freed : known'[s] = known[s]
    BY <2>2 DEF Owners
  <2>5. /\ \A s \in asked' : known'[s] <= pool'
        /\ \A s \in dispatch' : known'[s] <= copiedPool'
    BY <1>1, <2>2, <2>3, <2>4 DEF Heard
  <2>6. \A s \in closing' \cup freed', l \in Listeners :
           l <= known'[s] => s \in ToSet(got'[l]) \cup spoilt'
    BY <1>1, <2>4 DEF Heard
  <2>7. QED BY <1>1, <2>5, <2>6 DEF Heard
<1>6. Spoiling' BY <1>1, RethrowInv DEF SendRequest, CanCall
<1>7. QED BY <1>3, <1>4, <1>5, <1>6 DEF Native

LEMMA FlushInv ==
  ASSUME Types, Owners, OneCallback, Spoiling, Heard, flushMessageQueue
  PROVE  Native'
<1>1. /\ async' = async \cup InQueue /\ messageQueue' = <<>> /\ InQueue' = {}
      /\ UNCHANGED <<dispatch, copiedPool, it, closing, freed, scripts, exceptions>>
  BY EmptyQueue DEF flushMessageQueue, InQueue, stack
<1>2. Types' BY <1>1 DEF Types, Owners, scripts, exceptions
<1>3. Owners' /\ OneCallback' BY <1>1, EmptyQueue DEF Owners, OneCallback, scripts
<1>4. Spoiling' /\ Heard' BY <1>1 DEF Spoiling, Heard, scripts, exceptions
<1>5. QED BY <1>2, <1>3, <1>4 DEF Native

LEMMA StartCallbacksInv ==
  ASSUME JavaTypes, Types, Owners, OneCallback, Spoiling, Heard, NEW r \in Requests, startCallbacks(r)
  PROVE  Native'
<1>1. /\ dispatch = {} /\ r \in async /\ async' = async \ {r}
      /\ dispatch' = {r} /\ copiedPool' = pool /\ it' = 1
      /\ spoilt' = IF jsException THEN spoilt \cup {r} ELSE spoilt
      /\ UNCHANGED <<jsException, messageQueue, closing, freed, scripts>>
  BY DEF startCallbacks, Begin, InLoop
<1>2. Types' BY <1>1, BridgeAssumption DEF Types, scripts
<1>3. Owners' /\ OneCallback' BY <1>1 DEF Owners, OneCallback, InQueue, scripts
<1>4. Heard'
  <2>1. \A l \in Listeners : r \notin ToSet(got[l]) /\ ~ (l < 1)
    BY <1>1, BridgeAssumption DEF Heard, Owners, Listeners
  <2>2. \A l \in Listeners : ~ (l < 1)
    BY BridgeAssumption DEF Listeners
  <2>3. QED BY <1>1, <2>1, <2>2 DEF Heard, Owners, scripts
<1>5. Spoiling'
  <2>1. r \notin spoilt BY <1>1 DEF Spoiling, Owners
  <2>2. CASE jsException = TRUE BY <1>1, <2>1, <2>2 DEF Spoiling
  <2>3. CASE jsException = FALSE BY <1>1, <2>1, <2>3 DEF Spoiling
  <2>4. jsException \in BOOLEAN BY DEF JavaTypes
  <2>5. QED BY <2>2, <2>3, <2>4
<1>6. QED BY <1>2, <1>3, <1>4, <1>5 DEF Native

LEMMA NotifyInv ==
  ASSUME JavaTypes, Types, Owners, OneCallback, Spoiling, Heard, notify_message
  PROVE  Native'
<1>1. PICK r \in dispatch : got' = IF jsException THEN got ELSE [got EXCEPT ![it] = Append(got[it], r)]
  BY DEF notify_message
<1>2. /\ it \in Listeners /\ it' = it + 1 /\ it <= copiedPool /\ r \in Requests
      /\ UNCHANGED <<messageQueue, async, dispatch, copiedPool, closing, freed,
                     pool, attempts, asked, known, jsException, spoilt>>
  BY <1>1, BridgeAssumption DEF notify_message, Types, OneCallback, Listeners, exceptions
<1>3. Owners' /\ OneCallback' /\ Spoiling'
  BY <1>2, BridgeAssumption DEF Owners, OneCallback, Spoiling, InQueue, Types
<1>4. \A s \in dispatch : s = r BY <1>1 DEF OneCallback
\* Nobody is called any more.
<1>5. CASE jsException = TRUE
  <2>1. got' = got /\ r \in spoilt BY <1>1, <1>5 DEF Spoiling
  <2>2. Types' BY <1>2, <2>1, BridgeAssumption DEF Types
  <2>3. Heard'
    <3>1. \A l \in Listeners : l < it => l < it + 1
      BY <1>2, BridgeAssumption DEF Listeners
    <3>2. QED BY <1>2, <1>4, <2>1, <3>1 DEF Heard
  <2>4. QED BY <1>3, <2>2, <2>3 DEF Native
\* The next listener is called, as were all before it.
<1>6. CASE jsException # TRUE
  <2>1. got' = [got EXCEPT ![it] = Append(got[it], r)] /\ r \notin spoilt
    <3>1. jsException = FALSE BY <1>6 DEF JavaTypes
    <3>2. QED BY <1>1, <3>1 DEF Spoiling
  <2>2. /\ got[it] \in Seq(Requests) /\ r \notin ToSet(got[it]) /\ IsInjective(got[it])
    BY <1>1, <1>2, BridgeAssumption DEF Types, Heard
  <2>3. /\ got'[it] \in Seq(Requests) /\ IsInjective(got'[it])
        /\ ToSet(got'[it]) = ToSet(got[it]) \cup {r}
        /\ \A l \in Listeners \ {it} : got'[l] = got[l]
    BY <1>2, <2>1, <2>2, AppendElement DEF Types
  <2>4. Types'
    <3>1. got' \in [Listeners -> Seq(Requests)] BY <1>2, <2>1, <2>2, AppendElement DEF Types
    <3>2. QED BY <1>2, <3>1, BridgeAssumption DEF Types
  <2>5. ASSUME NEW l \in Listeners
        PROVE  /\ IsInjective(got'[l])
               /\ ToSet(got'[l]) = ToSet(got[l]) \cup (IF l = it THEN {r} ELSE {})
               /\ r \in ToSet(got'[l]) <=> l < it + 1
    <3>0. r \in ToSet(got[l]) <=> l < it BY <1>1, <2>1 DEF Heard
    <3>1. CASE l = it BY <1>1, <1>2, <2>3, <3>0, <3>1, BridgeAssumption DEF Heard, Listeners
    <3>2. CASE l # it BY <1>1, <1>2, <2>3, <3>0, <3>2, BridgeAssumption DEF Heard, Listeners
    <3>3. QED BY <3>1, <3>2
  <2>6. \A l, m \in Listeners : l < m => ToSet(got'[m]) \subseteq ToSet(got'[l])
    <3>1. SUFFICES ASSUME NEW l \in Listeners, NEW m \in Listeners, l < m
                   PROVE  ToSet(got'[m]) \subseteq ToSet(got'[l])
      OBVIOUS
    <3>2. ToSet(got[m]) \subseteq ToSet(got[l]) BY <3>1 DEF Heard
    <3>3. CASE m = it
      <4>1. r \in ToSet(got[l]) BY <1>1, <2>1, <3>1, <3>3 DEF Heard
      <4>2. QED BY <2>5, <3>2, <3>3, <4>1
    <3>4. CASE m # it BY <2>5, <3>2, <3>4
    <3>5. QED BY <3>3, <3>4
  <2>7. Heard' BY <1>2, <1>4, <2>5, <2>6 DEF Heard
  <2>8. QED BY <1>3, <2>4, <2>7 DEF Native
<1>7. QED BY <1>5, <1>6

LEMMA EndCallbacksInv ==
  ASSUME Types, Owners, OneCallback, Spoiling, Heard, endCallbacks
  PROVE  Native'
<1>1. /\ it > copiedPool /\ closing' = closing \cup dispatch
      /\ dispatch' = {} /\ copiedPool' = 0 /\ it' = 0
      /\ UNCHANGED <<messageQueue, async, freed, scripts, exceptions>>
  BY DEF endCallbacks
<1>2. Types' BY <1>1, BridgeAssumption DEF Types, scripts, exceptions
<1>3. Owners' /\ OneCallback' /\ Spoiling'
  BY <1>1 DEF Owners, OneCallback, Spoiling, InQueue, scripts, exceptions
<1>4. Heard'
  <2>1. ASSUME NEW r \in dispatch, NEW l \in Listeners, l <= known[r]
        PROVE  r \in ToSet(got[l]) \cup spoilt
    <3>1. known[r] <= copiedPool /\ known[r] \in Int /\ copiedPool \in Int /\ it \in Int
      BY BridgeAssumption DEF Heard, Types
    <3>2. l < it BY <1>1, <2>1, <3>1, BridgeAssumption DEF Listeners
    <3>3. QED BY <3>2 DEF Heard
  <2>2. QED BY <1>1, <2>1 DEF Heard, scripts, exceptions
<1>5. QED BY <1>2, <1>3, <1>4 DEF Native

LEMMA CloseInv ==
  ASSUME Types, Owners, OneCallback, Spoiling, Heard, NEW r \in Requests, close_cb(r)
  PROVE  Native'
<1>1. /\ r \in closing /\ closing' = closing \ {r} /\ freed' = freed \cup {r}
      /\ UNCHANGED <<messageQueue, async, dispatch, copiedPool, it, scripts, exceptions>>
  BY DEF close_cb, stack
<1>2. Types' BY <1>1 DEF Types, scripts, exceptions
<1>3. Owners' /\ OneCallback' BY <1>1 DEF Owners, OneCallback, InQueue, scripts
<1>4. Spoiling' /\ Heard' BY <1>1 DEF Spoiling, Heard, scripts, exceptions
<1>5. QED BY <1>2, <1>3, <1>4 DEF Native

LEMMA NextInv == Inv /\ [Next]_vars => Inv'
<1> SUFFICES ASSUME Inv, [Next]_vars PROVE Inv'
  OBVIOUS
<1>1. JavaTypes' BY JavaNext DEF Inv
<1>2. Native'
  <2>0. Types /\ Owners /\ OneCallback /\ Spoiling /\ Heard
    BY DEF Inv, Native
  <2>1. CASE prepareSecret \/ start \/ becomeReady \/ nodeStops
    BY <2>1, NativeUnchanged DEF Inv, prepareSecret, start, becomeReady, nodeStops
  <2>2. CASE RegisterListener \/ SendListening \/ listenerThrows
    BY <2>0, <2>2, RegisterInv, SendListeningInv, ThrowsInv DEF Inv
  <2>3. CASE \E r \in Requests : SendRequest(r) BY <2>0, <2>3, SendRequestInv DEF Inv
  <2>4. CASE flushMessageQueue BY <2>0, <2>4, FlushInv DEF Inv
  <2>5. CASE notify_message BY <2>0, <2>5, NotifyInv DEF Inv
  <2>6. CASE endCallbacks BY <2>0, <2>6, EndCallbacksInv DEF Inv
  <2>7. CASE \E r \in Requests : startCallbacks(r) \/ close_cb(r)
    BY <2>0, <2>7, StartCallbacksInv, CloseInv DEF Inv
  <2>8. CASE UNCHANGED vars BY <2>8, NativeUnchanged DEF Inv, vars, memory, stack, scripts, exceptions
  <2>9. QED BY <2>1, <2>2, <2>3, <2>4, <2>5, <2>6, <2>7, <2>8 DEF Next
<1>3. QED BY <1>1, <1>2 DEF Inv

-----------------------------------------------------------------------------
LEMMA Invariance == Spec => []Inv
BY InitInv, NextInv, PTL DEF Spec

\* The variables of the bridge keep their types; at most one message is on the stack.
THEOREM TypeCorrect == Spec => []TypeOK
<1>1. Inv => TypeOK
  <2> SUFFICES ASSUME Inv PROVE TypeOK
    OBVIOUS
  <2>1. Cardinality(dispatch) <= 1
    <3>1. CASE dispatch = {} BY <3>1, FS_EmptySet
    <3>2. CASE dispatch # {}
      <4>1. PICK r : dispatch = {r} BY <3>2 DEF Inv, Native, OneCallback
      <4>2. Cardinality(dispatch) = 1 BY <4>1, FS_Singleton, Zenon
      <4>3. QED BY <4>2
    <3>3. QED BY <3>1, <3>2
  <2>2. QED BY <2>1, Zenon DEF Inv, Native, TypeOK, Types, JavaTypes
<1>2. QED BY <1>1, Invariance, PTL

\* The memory of an answer is never with two owners, and never freed twice or used after that:
\* rn-bridge.cpp hands it from the queue to a handle, to the callback, to the closed handle.
THEOREM MemoryHasOneOwner == Spec => []OneOwner
<1>1. Inv => OneOwner
  <2> SUFFICES ASSUME Inv PROVE OneOwner
    OBVIOUS
  <2> DEFINE owners == <<ToSet(messageQueue), async, dispatch, closing, freed>>
  <2>1. ASSUME NEW i \in 1 .. 5, NEW j \in 1 .. 5, i # j PROVE owners[i] \cap owners[j] = {}
    BY <2>1 DEF Inv, Native, Owners, InQueue
  <2>2. QED BY <2>1 DEF OneOwner, Inv, Native, Owners
<1>2. QED BY <1>1, Invariance, PTL

\* doRegisteredCallbacks reaches every listener there was when the request was sent, once, in
\* order and before the answer is released, although listeners register others and send requests
\* meanwhile; only an exception a listener has thrown (notify_message ignores the status of
\* napi_call_function) keeps the rest of them from the answer.
THEOREM EveryListenerHears == Spec => []DeliveredToAll
<1>1. Inv => DeliveredToAll BY DEF Inv, Native, Heard, DeliveredToAll
<1>2. QED BY <1>1, Invariance, PTL
=============================================================================
