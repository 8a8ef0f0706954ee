---------------------------- MODULE OutboxProofs ----------------------------
(***************************************************************************)
(* For every set of messages and accounts: no message is lost, the states  *)
(* and the SENT folder tell the truth about what was delivered; what the   *)
(* recipients get of a message that is not a forward, and how often; that  *)
(* a failed message is left alone, and a message that is being sent has a  *)
(* worker.                                                                 *)
(***************************************************************************)
EXTENDS Outbox, TLAPS

(* The message table *)

Table == [Uids -> MessageState \cup {Absent}]

\* An @Update writes only a row that exists, so it neither creates nor removes rows, and a
\* delivered state can only appear where it was or where it is being written.
LEMMA UpdateFacts ==
  ASSUME NEW r \in Table, NEW u, NEW s \in MessageState
  PROVE  /\ Update(r, u, s) \in Table
         /\ \A v \in Uids : Update(r, u, s)[v] = Absent <=> r[v] = Absent
         /\ \A v \in Uids : Update(r, u, s)[v] \in DeliveredStates =>
                              r[v] \in DeliveredStates \/ (v = u /\ s \in DeliveredStates)
  BY DEF Update, Table, MessageState, Absent, DeliveredStates

\* The bulk update of one state by another: the same, for the states the code uses.
LEMMA ChangeFacts ==
  ASSUME NEW r \in Table, NEW a,
         NEW old \in {"SENDING", "QUEUED", "AUTH_FAILURE"}, NEW new \in {"QUEUED", "AUTH_FAILURE"}
  PROVE  /\ ChangeMsgsState(r, a, old, new) \in Table
         /\ \A v \in Uids : ChangeMsgsState(r, a, old, new)[v] = Absent <=> r[v] = Absent
         /\ \A v \in Uids : ChangeMsgsState(r, a, old, new)[v] \in DeliveredStates =>
                              r[v] \in DeliveredStates
  BY DEF ChangeMsgsState, Table, MessageState, Absent, DeliveredStates

\* The reset of SENDING to QUEUED, an instance of the bulk update.
LEMMA ResetFacts ==
  ASSUME NEW r \in Table, NEW a
  PROVE  /\ ResetMsgsWithSendingState(r, a) \in Table
         /\ \A v \in Uids : ResetMsgsWithSendingState(r, a)[v] = Absent <=> r[v] = Absent
         /\ \A v \in Uids : ResetMsgsWithSendingState(r, a)[v] \in DeliveredStates =>
                              r[v] \in DeliveredStates
  BY ChangeFacts DEF ResetMsgsWithSendingState

\* Every step of Prepare preserves the invariant.
LEMMA PrepareStep == IInv /\ Prepare => IInv'
<1> SUFFICES ASSUME IInv, Prepare PROVE IInv'
  OBVIOUS
<1> USE DEF IInv, TypeOK, Table, db, acct, prep, down, send, ui, remote, history
<1>1. CASE PrepareStart
  <2> USE <1>1 DEF PrepareStart
  <2>1. (TypeDb /\ TypeWork /\ TypeAcct /\ TypeDown /\ TypeSend /\ TypeUi /\ TypeRemote /\ TypeHistory /\ TypeEnv)'
    BY DEF TypeDb, TypeWork, TypeAcct, TypeDown, TypeSend, TypeUi, TypeRemote, TypeHistory,
       TypeEnv
  <2>2. TypePrep'
    BY DEF TypePrep, PrepPcs, NoUid
  <2>3. (NothingLost /\ DeliveredTruthful /\ CopyOnlyOfDelivered)'
    BY DEF TypeDb, TypeRemote, TypeUi, TypeHistory, NothingLost, DeliveredTruthful,
       CopyOnlyOfDelivered, SenderKnows, PendingKnow, ServicesKnow, HasMessage, AfterDelivery,
       Absent, DeliveredStates
  <2>4. (SenderKnows /\ PendingKnow /\ ServicesKnow)'
    BY DEF TypeDb, TypePrep, TypeRemote, TypeUi, DeliveredTruthful, SenderKnows, PendingKnow,
       ServicesKnow, HasMessage, AfterDelivery, NoUid
  <2> QED BY <2>1, <2>2, <2>3, <2>4
<1>2. CASE PrepareInsert
  <2> USE <1>2 DEF PrepareInsert, MessageState
  <2>1. (TypeWork /\ TypeAcct /\ TypeDown /\ TypeSend /\ TypeUi /\ TypeRemote /\ TypeEnv)'
    BY DEF TypeWork, TypeAcct, TypeDown, TypeSend, TypeUi, TypeRemote, TypeEnv
  <2>2. TypeDb'
    BY DEF TypeDb, MessageState, DeliveredStates, Absent, TypePrep, ServicesKnow
  <2>3. TypePrep'
    BY DEF TypePrep, PrepPcs, NoUid
  <2>4. TypeHistory'
    BY DEF TypeHistory, TypePrep, TypeDb, ServicesKnow, TypeUi
  <2>5. (NothingLost /\ DeliveredTruthful /\ CopyOnlyOfDelivered)'
    BY DEF TypeDb, TypeRemote, TypeUi, TypeHistory, NothingLost, DeliveredTruthful,
       CopyOnlyOfDelivered, SenderKnows, PendingKnow, ServicesKnow, HasMessage, AfterDelivery,
       Absent, DeliveredStates
  <2>6. (SenderKnows /\ PendingKnow /\ ServicesKnow)'
    BY DEF TypeDb, TypePrep, TypeRemote, TypeUi, DeliveredTruthful, SenderKnows, PendingKnow,
       ServicesKnow, HasMessage, AfterDelivery, NoUid
  <2> QED BY <2>1, <2>2, <2>3, <2>4, <2>5, <2>6
<1>3. CASE PrepareInsertStub
  <2> USE <1>3 DEF PrepareInsertStub, MessageState, Happens
  <2>1. (TypeWork /\ TypeAcct /\ TypeDown /\ TypeSend /\ TypeUi /\ TypeRemote)'
    BY DEF TypeWork, TypeAcct, TypeDown, TypeSend, TypeUi, TypeRemote
  <2>2. TypeDb'
    BY DEF TypeDb, MessageState, DeliveredStates, Absent, TypePrep, ServicesKnow
  <2>3. TypePrep'
    BY DEF TypePrep, PrepPcs, NoUid
  <2>4. TypeHistory'
    BY DEF TypeHistory, TypePrep, TypeDb, ServicesKnow, TypeUi
  <2>5. TypeEnv'
    BY DEF TypeEnv
  <2>6. (NothingLost /\ DeliveredTruthful /\ CopyOnlyOfDelivered)'
    BY DEF TypeDb, TypeRemote, TypeUi, TypeHistory, NothingLost, DeliveredTruthful,
       CopyOnlyOfDelivered, SenderKnows, PendingKnow, ServicesKnow, HasMessage, AfterDelivery,
       Absent, DeliveredStates
  <2>7. (SenderKnows /\ PendingKnow /\ ServicesKnow)'
    BY DEF TypeDb, TypePrep, TypeRemote, TypeUi, DeliveredTruthful, SenderKnows, PendingKnow,
       ServicesKnow, HasMessage, AfterDelivery, NoUid
  <2> QED BY <2>1, <2>2, <2>3, <2>4, <2>5, <2>6, <2>7
<1>4. CASE PrepareCatch
  <2> USE <1>4 DEF PrepareCatch, PrepareEnd, MessageState
  <2>1. (TypeWork /\ TypeAcct /\ TypeDown /\ TypeSend /\ TypeUi /\ TypeRemote /\ TypeHistory /\ TypeEnv)'
    BY DEF TypeWork, TypeAcct, TypeDown, TypeSend, TypeUi, TypeRemote, TypeHistory, TypeEnv
  <2>2. TypeDb'
    BY UpdateFacts DEF TypeDb, MessageState, DeliveredStates, Absent, TypePrep, ServicesKnow
  <2>3. TypePrep'
    BY UpdateFacts DEF TypePrep, PrepPcs, NoUid
  <2>4. (NothingLost /\ DeliveredTruthful /\ CopyOnlyOfDelivered)'
    BY UpdateFacts DEF TypeDb, TypeRemote, TypeUi, TypeHistory, NothingLost, DeliveredTruthful,
       CopyOnlyOfDelivered, SenderKnows, PendingKnow, ServicesKnow, HasMessage, AfterDelivery,
       Absent, DeliveredStates
  <2>5. (SenderKnows /\ PendingKnow /\ ServicesKnow)'
    BY UpdateFacts DEF TypeDb, TypePrep, TypeRemote, TypeUi, DeliveredTruthful, SenderKnows,
       PendingKnow, ServicesKnow, HasMessage, AfterDelivery, NoUid
  <2> QED BY <2>1, <2>2, <2>3, <2>4, <2>5
<1>5. CASE PrepareCache
  <2> USE <1>5 DEF PrepareCache, Parts, Rows, Happens
  <2>1. (TypeWork /\ TypeAcct /\ TypeDown /\ TypeSend /\ TypeUi /\ TypeRemote)'
    BY DEF TypeWork, TypeAcct, TypeDown, TypeSend, TypeUi, TypeRemote
  <2>2. TypeDb'
    <3>1. Content[pUid] \in SUBSET Rows /\ Content[pUid] \ {"own"} \in SUBSET Rows
      BY ContentAssumption DEF ServicesKnow
    <3>2. atts' = atts \/ (\E S \in SUBSET Rows : atts' = [atts EXCEPT ![pUid] = S])
      BY <3>1
    <3>3. dir' \subseteq Uids /\ row' = row
      BY DEF TypeDb, ServicesKnow
    <3> QED BY <3>2, <3>3 DEF TypeDb
  <2>3. TypePrep'
    BY DEF TypePrep, PrepPcs, NoUid
  <2>4. TypeHistory'
    BY ContentAssumption DEF TypeHistory, TypePrep, TypeDb, ServicesKnow, TypeUi
  <2>5. TypeEnv'
    BY DEF TypeEnv
  <2>6. (NothingLost /\ DeliveredTruthful /\ CopyOnlyOfDelivered)'
    BY DEF TypeDb, TypeRemote, TypeUi, TypeHistory, NothingLost, DeliveredTruthful,
       CopyOnlyOfDelivered, SenderKnows, PendingKnow, ServicesKnow, HasMessage, AfterDelivery,
       Absent, DeliveredStates
  <2>7. (SenderKnows /\ PendingKnow /\ ServicesKnow)'
    BY DEF TypeDb, TypePrep, TypeRemote, TypeUi, DeliveredTruthful, SenderKnows, PendingKnow,
       ServicesKnow, HasMessage, AfterDelivery, NoUid
  <2> QED BY <2>1, <2>2, <2>3, <2>4, <2>5, <2>6, <2>7
<1>6. CASE PrepareCacheFails
  <2> USE <1>6 DEF PrepareCacheFails, Happens
  <2>1. (TypeWork /\ TypeAcct /\ TypeDown /\ TypeSend /\ TypeUi /\ TypeRemote /\ TypeHistory)'
    BY DEF TypeWork, TypeAcct, TypeDown, TypeSend, TypeUi, TypeRemote, TypeHistory
  <2>2. TypePrep'
    BY DEF TypePrep, PrepPcs, NoUid
  <2>3. TypeEnv'
    BY DEF TypeEnv
  <2>4. (NothingLost /\ DeliveredTruthful /\ CopyOnlyOfDelivered)'
    BY DEF TypeDb, TypeRemote, TypeUi, TypeHistory, NothingLost, DeliveredTruthful,
       CopyOnlyOfDelivered, SenderKnows, PendingKnow, ServicesKnow, HasMessage, AfterDelivery,
       Absent, DeliveredStates
  <2>5. (SenderKnows /\ PendingKnow /\ ServicesKnow)'
    BY DEF TypeDb, TypePrep, TypeRemote, TypeUi, DeliveredTruthful, SenderKnows, PendingKnow,
       ServicesKnow, HasMessage, AfterDelivery, NoUid
  <2>0. TypeDb'
    BY DEF TypeDb, ServicesKnow
  <2> QED BY <2>0, <2>1, <2>2, <2>3, <2>4, <2>5
<1>7. CASE PrepareQueue
  <2> USE <1>7 DEF PrepareQueue, PrepareEnd, EnqueueKeep, Workers, MessageState
  <2>1. (TypeAcct /\ TypeDown /\ TypeSend /\ TypeUi /\ TypeRemote /\ TypeHistory /\ TypeEnv)'
    BY DEF TypeAcct, TypeDown, TypeSend, TypeUi, TypeRemote, TypeHistory, TypeEnv
  <2>2. TypeDb'
    BY UpdateFacts DEF TypeDb, MessageState, DeliveredStates, Absent, TypePrep, ServicesKnow
  <2>3. TypeWork'
    BY UpdateFacts DEF TypeWork
  <2>4. TypePrep'
    BY UpdateFacts DEF TypePrep, PrepPcs, NoUid
  <2>5. (NothingLost /\ DeliveredTruthful /\ CopyOnlyOfDelivered)'
    BY UpdateFacts DEF TypeDb, TypeRemote, TypeUi, TypeHistory, NothingLost, DeliveredTruthful,
       CopyOnlyOfDelivered, SenderKnows, PendingKnow, ServicesKnow, HasMessage, AfterDelivery,
       Absent, DeliveredStates
  <2>6. (SenderKnows /\ PendingKnow /\ ServicesKnow)'
    BY UpdateFacts DEF TypeDb, TypePrep, TypeRemote, TypeUi, DeliveredTruthful, SenderKnows,
       PendingKnow, ServicesKnow, HasMessage, AfterDelivery, NoUid
  <2> QED BY <2>1, <2>2, <2>3, <2>4, <2>5, <2>6
<1> QED BY <1>1, <1>2, <1>3, <1>4, <1>5, <1>6, <1>7 DEF Prepare

\* Every step of Downloader preserves the invariant.
LEMMA DownloaderStep == IInv /\ Downloader => IInv'
<1> SUFFICES ASSUME IInv, Downloader PROVE IInv'
  OBVIOUS
<1> USE DEF IInv, TypeOK, Table, db, acct, prep, down, send, ui, remote, history
<1>1. CASE DownloaderStart
  <2> USE <1>1 DEF DownloaderStart, DownloaderEnd, Workers
  <2>1. (TypeDb /\ TypeAcct /\ TypePrep /\ TypeSend /\ TypeUi /\ TypeRemote /\ TypeHistory /\ TypeEnv)'
    BY DEF TypeDb, TypeAcct, TypePrep, TypeSend, TypeUi, TypeRemote, TypeHistory, TypeEnv
  <2>2. TypeWork'
    BY DEF TypeWork
  <2>3. TypeDown'
    BY DEF TypeDown, DownPcs, NoUid, NoAccount, TypeDb, TypeAcct, InState
  <2>4. (NothingLost /\ DeliveredTruthful /\ CopyOnlyOfDelivered)'
    BY DEF TypeDb, TypeRemote, TypeUi, TypeHistory, NothingLost, DeliveredTruthful,
       CopyOnlyOfDelivered, SenderKnows, PendingKnow, ServicesKnow, HasMessage, AfterDelivery,
       Absent, DeliveredStates
  <2>5. (SenderKnows /\ PendingKnow /\ ServicesKnow)'
    BY DEF TypeDb, TypePrep, TypeRemote, TypeUi, DeliveredTruthful, SenderKnows, PendingKnow,
       ServicesKnow, HasMessage, AfterDelivery, NoUid
  <2> QED BY <2>1, <2>2, <2>3, <2>4, <2>5
<1>2. CASE DownloaderConnect
  <2> USE <1>2 DEF DownloaderConnect
  <2>1. (TypeDb /\ TypeWork /\ TypeAcct /\ TypePrep /\ TypeSend /\ TypeUi /\ TypeRemote /\ TypeHistory /\ TypeEnv)'
    BY DEF TypeDb, TypeWork, TypeAcct, TypePrep, TypeSend, TypeUi, TypeRemote, TypeHistory,
       TypeEnv
  <2>2. TypeDown'
    BY DEF TypeDown, DownPcs, NoUid, NoAccount, TypeDb, TypeAcct, InState
  <2>3. (NothingLost /\ DeliveredTruthful /\ CopyOnlyOfDelivered)'
    BY DEF TypeDb, TypeRemote, TypeUi, TypeHistory, NothingLost, DeliveredTruthful,
       CopyOnlyOfDelivered, SenderKnows, PendingKnow, ServicesKnow, HasMessage, AfterDelivery,
       Absent, DeliveredStates
  <2>4. (SenderKnows /\ PendingKnow /\ ServicesKnow)'
    BY DEF TypeDb, TypePrep, TypeRemote, TypeUi, DeliveredTruthful, SenderKnows, PendingKnow,
       ServicesKnow, HasMessage, AfterDelivery, NoUid
  <2> QED BY <2>1, <2>2, <2>3, <2>4
<1>3. CASE DownloaderConnectFails
  <2> USE <1>3 DEF DownloaderConnectFails, DownloaderEnd, Workers, Happens
  <2>1. (TypeDb /\ TypeAcct /\ TypePrep /\ TypeSend /\ TypeUi /\ TypeRemote /\ TypeHistory)'
    BY DEF TypeDb, TypeAcct, TypePrep, TypeSend, TypeUi, TypeRemote, TypeHistory
  <2>2. TypeWork'
    BY DEF TypeWork
  <2>3. TypeDown'
    BY DEF TypeDown, DownPcs, NoUid, NoAccount, TypeDb, TypeAcct, InState
  <2>4. TypeEnv'
    BY DEF TypeEnv
  <2>5. (NothingLost /\ DeliveredTruthful /\ CopyOnlyOfDelivered)'
    BY DEF TypeDb, TypeRemote, TypeUi, TypeHistory, NothingLost, DeliveredTruthful,
       CopyOnlyOfDelivered, SenderKnows, PendingKnow, ServicesKnow, HasMessage, AfterDelivery,
       Absent, DeliveredStates
  <2>6. (SenderKnows /\ PendingKnow /\ ServicesKnow)'
    BY DEF TypeDb, TypePrep, TypeRemote, TypeUi, DeliveredTruthful, SenderKnows, PendingKnow,
       ServicesKnow, HasMessage, AfterDelivery, NoUid
  <2> QED BY <2>1, <2>2, <2>3, <2>4, <2>5, <2>6
<1>4. CASE DownloaderPick
  <2> USE <1>4 DEF DownloaderPick, InState
  <2>1. (TypeDb /\ TypeWork /\ TypeAcct /\ TypePrep /\ TypeSend /\ TypeUi /\ TypeRemote /\ TypeHistory /\ TypeEnv)'
    BY DEF TypeDb, TypeWork, TypeAcct, TypePrep, TypeSend, TypeUi, TypeRemote, TypeHistory,
       TypeEnv
  <2>2. TypeDown'
    <3>1. \A u \in Uids : atts[u] \subseteq Rows
      BY DEF TypeDb
    <3> QED BY <3>1 DEF TypeDown, DownPcs
  <2>3. (NothingLost /\ DeliveredTruthful /\ CopyOnlyOfDelivered)'
    BY DEF TypeDb, TypeRemote, TypeUi, TypeHistory, NothingLost, DeliveredTruthful,
       CopyOnlyOfDelivered, SenderKnows, PendingKnow, ServicesKnow, HasMessage, AfterDelivery,
       Absent, DeliveredStates
  <2>4. (SenderKnows /\ PendingKnow /\ ServicesKnow)'
    BY DEF TypeDb, TypePrep, TypeRemote, TypeUi, DeliveredTruthful, SenderKnows, PendingKnow,
       ServicesKnow, HasMessage, AfterDelivery, NoUid
  <2> QED BY <2>1, <2>2, <2>3, <2>4
<1>5. CASE DownloaderNoAtts
  <2> USE <1>5 DEF DownloaderNoAtts, MessageState
  <2>1. (TypeWork /\ TypeAcct /\ TypePrep /\ TypeSend /\ TypeUi /\ TypeRemote /\ TypeHistory /\ TypeEnv)'
    BY DEF TypeWork, TypeAcct, TypePrep, TypeSend, TypeUi, TypeRemote, TypeHistory, TypeEnv
  <2>2. TypeDb'
    BY UpdateFacts DEF TypeDb, MessageState, DeliveredStates, Absent, TypePrep, ServicesKnow
  <2>3. TypeDown'
    BY UpdateFacts DEF TypeDown, DownPcs, NoUid, NoAccount, TypeDb, TypeAcct, InState
  <2>4. (NothingLost /\ DeliveredTruthful /\ CopyOnlyOfDelivered)'
    BY UpdateFacts DEF TypeDb, TypeRemote, TypeUi, TypeHistory, NothingLost, DeliveredTruthful,
       CopyOnlyOfDelivered, SenderKnows, PendingKnow, ServicesKnow, HasMessage, AfterDelivery,
       Absent, DeliveredStates
  <2>5. (SenderKnows /\ PendingKnow /\ ServicesKnow)'
    BY UpdateFacts DEF TypeDb, TypePrep, TypeRemote, TypeUi, DeliveredTruthful, SenderKnows,
       PendingKnow, ServicesKnow, HasMessage, AfterDelivery, NoUid
  <2> QED BY <2>1, <2>2, <2>3, <2>4, <2>5
<1>6. CASE DownloaderLoad
  <2> USE <1>6 DEF DownloaderLoad, DownloaderStore, Downloaded, EnqueueKeep, Workers,
     MessageState, Happens, Rows
  <2>1. (TypeAcct /\ TypePrep /\ TypeSend /\ TypeUi /\ TypeRemote /\ TypeHistory)'
    BY DEF TypeAcct, TypePrep, TypeSend, TypeUi, TypeRemote, TypeHistory
  <2>2. TypeDb'
    BY UpdateFacts DEF TypeDb, MessageState, DeliveredStates, Absent, TypePrep, ServicesKnow
  <2>3. TypeWork'
    BY UpdateFacts DEF TypeWork
  <2>4. TypeDown'
    BY UpdateFacts DEF TypeDown, DownPcs, NoUid, NoAccount, TypeDb, TypeAcct, InState
  <2>5. TypeEnv'
    BY UpdateFacts DEF TypeEnv
  <2>6. (NothingLost /\ DeliveredTruthful /\ CopyOnlyOfDelivered)'
    BY UpdateFacts DEF TypeDb, TypeRemote, TypeUi, TypeHistory, NothingLost, DeliveredTruthful,
       CopyOnlyOfDelivered, SenderKnows, PendingKnow, ServicesKnow, HasMessage, AfterDelivery,
       Absent, DeliveredStates
  <2>7. (SenderKnows /\ PendingKnow /\ ServicesKnow)'
    BY UpdateFacts DEF TypeDb, TypePrep, TypeRemote, TypeUi, DeliveredTruthful, SenderKnows,
       PendingKnow, ServicesKnow, HasMessage, AfterDelivery, NoUid
  <2> QED BY <2>1, <2>2, <2>3, <2>4, <2>5, <2>6, <2>7
<1>7. CASE DownloaderLoadFails
  <2> USE <1>7 DEF DownloaderLoadFails, DownloaderEnd, Workers, Happens
  <2>1. (TypeDb /\ TypeAcct /\ TypePrep /\ TypeSend /\ TypeUi /\ TypeRemote /\ TypeHistory)'
    BY DEF TypeDb, TypeAcct, TypePrep, TypeSend, TypeUi, TypeRemote, TypeHistory
  <2>2. TypeWork'
    BY DEF TypeWork
  <2>3. TypeDown'
    BY DEF TypeDown, DownPcs, NoUid, NoAccount, TypeDb, TypeAcct, InState
  <2>4. TypeEnv'
    BY DEF TypeEnv
  <2>5. (NothingLost /\ DeliveredTruthful /\ CopyOnlyOfDelivered)'
    BY DEF TypeDb, TypeRemote, TypeUi, TypeHistory, NothingLost, DeliveredTruthful,
       CopyOnlyOfDelivered, SenderKnows, PendingKnow, ServicesKnow, HasMessage, AfterDelivery,
       Absent, DeliveredStates
  <2>6. (SenderKnows /\ PendingKnow /\ ServicesKnow)'
    BY DEF TypeDb, TypePrep, TypeRemote, TypeUi, DeliveredTruthful, SenderKnows, PendingKnow,
       ServicesKnow, HasMessage, AfterDelivery, NoUid
  <2> QED BY <2>1, <2>2, <2>3, <2>4, <2>5, <2>6
<1>8. CASE DownloaderFinish
  <2> USE <1>8 DEF DownloaderFinish, DownloaderEnd, Workers
  <2>1. (TypeDb /\ TypeAcct /\ TypePrep /\ TypeSend /\ TypeUi /\ TypeRemote /\ TypeHistory /\ TypeEnv)'
    BY DEF TypeDb, TypeAcct, TypePrep, TypeSend, TypeUi, TypeRemote, TypeHistory, TypeEnv
  <2>2. TypeWork'
    BY DEF TypeWork
  <2>3. TypeDown'
    BY DEF TypeDown, DownPcs, NoUid, NoAccount, TypeDb, TypeAcct, InState
  <2>4. (NothingLost /\ DeliveredTruthful /\ CopyOnlyOfDelivered)'
    BY DEF TypeDb, TypeRemote, TypeUi, TypeHistory, NothingLost, DeliveredTruthful,
       CopyOnlyOfDelivered, SenderKnows, PendingKnow, ServicesKnow, HasMessage, AfterDelivery,
       Absent, DeliveredStates
  <2>5. (SenderKnows /\ PendingKnow /\ ServicesKnow)'
    BY DEF TypeDb, TypePrep, TypeRemote, TypeUi, DeliveredTruthful, SenderKnows, PendingKnow,
       ServicesKnow, HasMessage, AfterDelivery, NoUid
  <2> QED BY <2>1, <2>2, <2>3, <2>4, <2>5
<1> QED BY <1>1, <1>2, <1>3, <1>4, <1>5, <1>6, <1>7, <1>8 DEF Downloader

\* Every step of Sender preserves the invariant.
LEMMA SenderStep == IInv /\ Sender => IInv'
<1> SUFFICES ASSUME IInv, Sender PROVE IInv'
  OBVIOUS
<1> USE DEF IInv, TypeOK, Table, db, acct, prep, down, send, ui, remote, history
<1>1. CASE SenderStart
  <2> USE <1>1 DEF SenderStart, SenderEnd, SenderIdle, Workers, Errors
  <2>1. (TypeAcct /\ TypePrep /\ TypeDown /\ TypeUi /\ TypeRemote /\ TypeHistory /\ TypeEnv)'
    BY DEF TypeAcct, TypePrep, TypeDown, TypeUi, TypeRemote, TypeHistory, TypeEnv
  <2>2. TypeDb'
    BY ResetFacts DEF TypeDb, MessageState, DeliveredStates, Absent, TypePrep, ServicesKnow
  <2>3. TypeWork'
    BY ResetFacts DEF TypeWork
  <2>4. TypeSend'
    BY DEF TypeSend, SendPcs, NoUid, NoAccount, TypeDb, InState, SenderKnows, HasMessage,
       TypeAcct
  <2>5. (NothingLost /\ DeliveredTruthful /\ CopyOnlyOfDelivered)'
    BY ResetFacts DEF TypeDb, TypeRemote, TypeUi, TypeHistory, NothingLost, DeliveredTruthful,
       CopyOnlyOfDelivered, SenderKnows, PendingKnow, ServicesKnow, HasMessage, AfterDelivery,
       Absent, DeliveredStates
  <2>6. (SenderKnows /\ PendingKnow /\ ServicesKnow)'
    BY ResetFacts DEF TypeDb, TypePrep, TypeRemote, TypeUi, DeliveredTruthful, SenderKnows,
       PendingKnow, ServicesKnow, HasMessage, AfterDelivery, NoUid
  <2> QED BY <2>1, <2>2, <2>3, <2>4, <2>5, <2>6
<1>2. CASE SenderConnect
  <2> USE <1>2 DEF SenderConnect, Goto, AfterQueue
  <2>1. (TypeDb /\ TypeWork /\ TypeAcct /\ TypePrep /\ TypeDown /\ TypeUi /\ TypeRemote /\ TypeHistory /\ TypeEnv)'
    BY DEF TypeDb, TypeWork, TypeAcct, TypePrep, TypeDown, TypeUi, TypeRemote, TypeHistory,
       TypeEnv
  <2>2. TypeSend'
    BY DEF TypeSend, SendPcs, NoUid, NoAccount, TypeDb, InState, SenderKnows, HasMessage,
       TypeAcct
  <2>3. (NothingLost /\ DeliveredTruthful /\ CopyOnlyOfDelivered)'
    BY DEF TypeDb, TypeRemote, TypeUi, TypeHistory, NothingLost, DeliveredTruthful,
       CopyOnlyOfDelivered, SenderKnows, PendingKnow, ServicesKnow, HasMessage, AfterDelivery,
       Absent, DeliveredStates
  <2>4. (SenderKnows /\ PendingKnow /\ ServicesKnow)'
    BY DEF TypeDb, TypePrep, TypeRemote, TypeUi, DeliveredTruthful, SenderKnows, PendingKnow,
       ServicesKnow, HasMessage, AfterDelivery, NoUid
  <2> QED BY <2>1, <2>2, <2>3, <2>4
<1>3. CASE SenderConnectFails
  <2> USE <1>3 DEF SenderConnectFails, Throw, CallFails, Happens, Errors
  <2>1. (TypeDb /\ TypeWork /\ TypeAcct /\ TypePrep /\ TypeDown /\ TypeUi /\ TypeRemote /\ TypeHistory)'
    BY DEF TypeDb, TypeWork, TypeAcct, TypePrep, TypeDown, TypeUi, TypeRemote, TypeHistory
  <2>2. TypeSend'
    BY DEF TypeSend, SendPcs, NoUid, NoAccount, TypeDb, InState, SenderKnows, HasMessage,
       TypeAcct
  <2>3. TypeEnv'
    BY DEF TypeEnv
  <2>4. (NothingLost /\ DeliveredTruthful /\ CopyOnlyOfDelivered)'
    BY DEF TypeDb, TypeRemote, TypeUi, TypeHistory, NothingLost, DeliveredTruthful,
       CopyOnlyOfDelivered, SenderKnows, PendingKnow, ServicesKnow, HasMessage, AfterDelivery,
       Absent, DeliveredStates
  <2>5. (SenderKnows /\ PendingKnow /\ ServicesKnow)'
    BY DEF TypeDb, TypePrep, TypeRemote, TypeUi, DeliveredTruthful, SenderKnows, PendingKnow,
       ServicesKnow, HasMessage, AfterDelivery, NoUid
  <2> QED BY <2>1, <2>2, <2>3, <2>4, <2>5
<1>4. CASE SenderPick
  <2> USE <1>4 DEF SenderPick, Goto, AfterQueue, InState
  <2>1. (TypeDb /\ TypeWork /\ TypeAcct /\ TypePrep /\ TypeDown /\ TypeUi /\ TypeRemote /\ TypeHistory /\ TypeEnv)'
    BY DEF TypeDb, TypeWork, TypeAcct, TypePrep, TypeDown, TypeUi, TypeRemote, TypeHistory,
       TypeEnv
  <2>2. TypeSend'
    BY DEF TypeSend, SendPcs, NoUid, NoAccount, TypeDb, InState, SenderKnows, HasMessage,
       TypeAcct
  <2>3. (NothingLost /\ DeliveredTruthful /\ CopyOnlyOfDelivered)'
    BY DEF TypeDb, TypeRemote, TypeUi, TypeHistory, NothingLost, DeliveredTruthful,
       CopyOnlyOfDelivered, SenderKnows, PendingKnow, ServicesKnow, HasMessage, AfterDelivery,
       Absent, DeliveredStates
  <2>4. (SenderKnows /\ PendingKnow /\ ServicesKnow)'
    BY DEF TypeDb, TypePrep, TypeRemote, TypeUi, DeliveredTruthful, SenderKnows, PendingKnow,
       ServicesKnow, HasMessage, AfterDelivery, NoUid
  <2> QED BY <2>1, <2>2, <2>3, <2>4
<1>5. CASE SenderMark
  <2> USE <1>5 DEF SenderMark, Goto, MessageState
  <2>1. (TypeWork /\ TypeAcct /\ TypePrep /\ TypeDown /\ TypeUi /\ TypeRemote /\ TypeHistory /\ TypeEnv)'
    BY DEF TypeWork, TypeAcct, TypePrep, TypeDown, TypeUi, TypeRemote, TypeHistory, TypeEnv
  <2>2. TypeDb'
    BY UpdateFacts, ResetFacts DEF TypeDb, MessageState, DeliveredStates, Absent, TypePrep,
       ServicesKnow
  <2>3. TypeSend'
    BY DEF TypeSend, SendPcs, NoUid, NoAccount, TypeDb, InState, SenderKnows, HasMessage,
       TypeAcct
  <2>4. (NothingLost /\ DeliveredTruthful /\ CopyOnlyOfDelivered)'
    BY UpdateFacts, ResetFacts DEF TypeDb, TypeRemote, TypeUi, TypeHistory, NothingLost,
       DeliveredTruthful, CopyOnlyOfDelivered, SenderKnows, PendingKnow, ServicesKnow,
       HasMessage, AfterDelivery, Absent, DeliveredStates
  <2>5. (SenderKnows /\ PendingKnow /\ ServicesKnow)'
    BY UpdateFacts, ResetFacts DEF TypeDb, TypePrep, TypeRemote, TypeUi, DeliveredTruthful,
       SenderKnows, PendingKnow, ServicesKnow, HasMessage, AfterDelivery, NoUid
  <2> QED BY <2>1, <2>2, <2>3, <2>4, <2>5
<1>6. CASE SenderReadAtts
  <2> USE <1>6 DEF SenderReadAtts
  <2>1. (TypeDb /\ TypeWork /\ TypeAcct /\ TypePrep /\ TypeDown /\ TypeUi /\ TypeRemote /\ TypeHistory /\ TypeEnv)'
    BY DEF TypeDb, TypeWork, TypeAcct, TypePrep, TypeDown, TypeUi, TypeRemote, TypeHistory,
       TypeEnv
  <2>2. TypeSend'
    BY DEF TypeSend, SendPcs, NoUid, NoAccount, TypeDb, InState, SenderKnows, HasMessage,
       TypeAcct
  <2>3. (NothingLost /\ DeliveredTruthful /\ CopyOnlyOfDelivered)'
    BY DEF TypeDb, TypeRemote, TypeUi, TypeHistory, NothingLost, DeliveredTruthful,
       CopyOnlyOfDelivered, SenderKnows, PendingKnow, ServicesKnow, HasMessage, AfterDelivery,
       Absent, DeliveredStates
  <2>4. (SenderKnows /\ PendingKnow /\ ServicesKnow)'
    BY DEF TypeDb, TypePrep, TypeRemote, TypeUi, DeliveredTruthful, SenderKnows, PendingKnow,
       ServicesKnow, HasMessage, AfterDelivery, NoUid
  <2> QED BY <2>1, <2>2, <2>3, <2>4
<1>7. CASE SenderSend
  <2> USE <1>7 DEF SenderSend, Goto, Deliver
  <2>1. (TypeDb /\ TypeWork /\ TypeAcct /\ TypePrep /\ TypeDown /\ TypeUi /\ TypeHistory /\ TypeEnv)'
    BY DEF TypeDb, TypeWork, TypeAcct, TypePrep, TypeDown, TypeUi, TypeHistory, TypeEnv
  <2>2. TypeSend'
    BY DEF TypeSend, SendPcs, NoUid, NoAccount, TypeDb, InState, SenderKnows, HasMessage,
       TypeAcct
  <2>3. TypeRemote'
    BY DEF TypeRemote, SenderKnows, HasMessage, AfterDelivery, TypeSend
  <2>4. (NothingLost /\ DeliveredTruthful /\ CopyOnlyOfDelivered)'
    BY DEF TypeDb, TypeRemote, TypeUi, TypeHistory, NothingLost, DeliveredTruthful,
       CopyOnlyOfDelivered, SenderKnows, PendingKnow, ServicesKnow, HasMessage, AfterDelivery,
       Absent, DeliveredStates
  <2>5. SenderKnows'
    BY DEF TypeRemote, TypeSend, SenderKnows, HasMessage, AfterDelivery
  <2>6. PendingKnow'
    <3>1. \A v \in Uids : delivered[v] > 0 => delivered'[v] > 0
      BY DEF TypeRemote
    <3>2. \A p \in retries : p[1] \in Uids
      BY DEF TypeUi
    <3>3. \A y \in zombies : y.uid \in Uids
      BY DEF TypeRemote
    <3>4. retries' = retries /\ zombies' \subseteq zombies
      OBVIOUS
    <3> QED BY <3>1, <3>2, <3>3, <3>4 DEF PendingKnow
  <2>7. ServicesKnow'
    BY DEF TypeRemote, ServicesKnow
  <2> QED BY <2>1, <2>2, <2>3, <2>4, <2>5, <2>6, <2>7
<1>8. CASE SenderNotSent
  <2> USE <1>8 DEF SenderNotSent, Goto, Happens
  <2>1. (TypeDb /\ TypeWork /\ TypeAcct /\ TypePrep /\ TypeDown /\ TypeUi /\ TypeRemote /\ TypeHistory)'
    BY DEF TypeDb, TypeWork, TypeAcct, TypePrep, TypeDown, TypeUi, TypeRemote, TypeHistory
  <2>2. TypeSend'
    BY DEF TypeSend, SendPcs, NoUid, NoAccount, TypeDb, InState, SenderKnows, HasMessage,
       TypeAcct
  <2>3. TypeEnv'
    BY DEF TypeEnv
  <2>4. (NothingLost /\ DeliveredTruthful /\ CopyOnlyOfDelivered)'
    BY DEF TypeDb, TypeRemote, TypeUi, TypeHistory, NothingLost, DeliveredTruthful,
       CopyOnlyOfDelivered, SenderKnows, PendingKnow, ServicesKnow, HasMessage, AfterDelivery,
       Absent, DeliveredStates
  <2>5. (SenderKnows /\ PendingKnow /\ ServicesKnow)'
    BY DEF TypeDb, TypePrep, TypeRemote, TypeUi, DeliveredTruthful, SenderKnows, PendingKnow,
       ServicesKnow, HasMessage, AfterDelivery, NoUid
  <2> QED BY <2>1, <2>2, <2>3, <2>4, <2>5
<1>9. CASE SenderSendFails
  <2> USE <1>9 DEF SenderSendFails, Throw, CallFails, Happens, Deliver, Errors
  <2>1. (TypeDb /\ TypeWork /\ TypeAcct /\ TypePrep /\ TypeDown /\ TypeUi /\ TypeHistory)'
    BY DEF TypeDb, TypeWork, TypeAcct, TypePrep, TypeDown, TypeUi, TypeHistory
  <2>2. TypeSend'
    BY DEF TypeSend, SendPcs, NoUid, NoAccount, TypeDb, InState, SenderKnows, HasMessage,
       TypeAcct
  <2>3. TypeRemote'
    BY DEF TypeRemote, SenderKnows, HasMessage, AfterDelivery, TypeSend
  <2>4. TypeEnv'
    BY DEF TypeEnv
  <2>5. (NothingLost /\ DeliveredTruthful /\ CopyOnlyOfDelivered)'
    BY DEF TypeDb, TypeRemote, TypeUi, TypeHistory, NothingLost, DeliveredTruthful,
       CopyOnlyOfDelivered, SenderKnows, PendingKnow, ServicesKnow, HasMessage, AfterDelivery,
       Absent, DeliveredStates
  <2>6. SenderKnows'
    BY DEF TypeRemote, TypeSend, SenderKnows, HasMessage, AfterDelivery
  <2>7. PendingKnow'
    <3>1. \A v \in Uids : delivered[v] > 0 => delivered'[v] > 0
      BY DEF TypeRemote
    <3>2. \A p \in retries : p[1] \in Uids
      BY DEF TypeUi
    <3>3. \A y \in zombies : y.uid \in Uids
      BY DEF TypeRemote
    <3>4. retries' = retries /\ zombies' \subseteq zombies
      OBVIOUS
    <3> QED BY <3>1, <3>2, <3>3, <3>4 DEF PendingKnow
  <2>8. ServicesKnow'
    BY DEF TypeRemote, ServicesKnow
  <2> QED BY <2>1, <2>2, <2>3, <2>4, <2>5, <2>6, <2>7, <2>8
<1>10. CASE SenderSent
  <2> USE <1>10 DEF SenderSent, Goto, MessageState
  <2>1. (TypeWork /\ TypeAcct /\ TypePrep /\ TypeDown /\ TypeUi /\ TypeRemote /\ TypeHistory /\ TypeEnv)'
    BY DEF TypeWork, TypeAcct, TypePrep, TypeDown, TypeUi, TypeRemote, TypeHistory, TypeEnv
  <2>2. TypeDb'
    BY UpdateFacts DEF TypeDb, MessageState, DeliveredStates, Absent, TypePrep, ServicesKnow
  <2>3. TypeSend'
    BY DEF TypeSend, SendPcs, NoUid, NoAccount, TypeDb, InState, SenderKnows, HasMessage,
       TypeAcct
  <2>4. (NothingLost /\ DeliveredTruthful /\ CopyOnlyOfDelivered)'
    BY UpdateFacts DEF TypeDb, TypeRemote, TypeUi, TypeHistory, NothingLost, DeliveredTruthful,
       CopyOnlyOfDelivered, SenderKnows, PendingKnow, ServicesKnow, HasMessage, AfterDelivery,
       Absent, DeliveredStates
  <2>5. (SenderKnows /\ PendingKnow /\ ServicesKnow)'
    BY UpdateFacts DEF TypeDb, TypePrep, TypeRemote, TypeUi, DeliveredTruthful, SenderKnows,
       PendingKnow, ServicesKnow, HasMessage, AfterDelivery, NoUid
  <2> QED BY <2>1, <2>2, <2>3, <2>4, <2>5
<1>11. CASE SenderAppend
  <2> USE <1>11 DEF SenderAppend, Goto, AppendCopy
  <2>1. (TypeDb /\ TypeWork /\ TypeAcct /\ TypePrep /\ TypeDown /\ TypeUi /\ TypeHistory /\ TypeEnv)'
    BY DEF TypeDb, TypeWork, TypeAcct, TypePrep, TypeDown, TypeUi, TypeHistory, TypeEnv
  <2>2. TypeSend'
    BY DEF TypeSend, SendPcs, NoUid, NoAccount, TypeDb, InState, SenderKnows, HasMessage,
       TypeAcct
  <2>3. TypeRemote'
    BY DEF TypeRemote, SenderKnows, HasMessage, AfterDelivery, TypeSend
  <2>4. (NothingLost /\ DeliveredTruthful /\ CopyOnlyOfDelivered)'
    BY DEF TypeDb, TypeRemote, TypeUi, TypeHistory, NothingLost, DeliveredTruthful,
       CopyOnlyOfDelivered, SenderKnows, PendingKnow, ServicesKnow, HasMessage, AfterDelivery,
       Absent, DeliveredStates
  <2>5. (SenderKnows /\ PendingKnow /\ ServicesKnow)'
    BY DEF TypeDb, TypePrep, TypeRemote, TypeUi, DeliveredTruthful, SenderKnows, PendingKnow,
       ServicesKnow, HasMessage, AfterDelivery, NoUid
  <2> QED BY <2>1, <2>2, <2>3, <2>4, <2>5
<1>12. CASE SenderAppendFails
  <2> USE <1>12 DEF SenderAppendFails, Throw, CallFails, Happens, AppendCopy, Errors
  <2>1. (TypeDb /\ TypeWork /\ TypeAcct /\ TypePrep /\ TypeDown /\ TypeUi /\ TypeHistory)'
    BY DEF TypeDb, TypeWork, TypeAcct, TypePrep, TypeDown, TypeUi, TypeHistory
  <2>2. TypeSend'
    BY DEF TypeSend, SendPcs, NoUid, NoAccount, TypeDb, InState, SenderKnows, HasMessage,
       TypeAcct
  <2>3. TypeRemote'
    BY DEF TypeRemote, SenderKnows, HasMessage, AfterDelivery, TypeSend
  <2>4. TypeEnv'
    BY DEF TypeEnv
  <2>5. (NothingLost /\ DeliveredTruthful /\ CopyOnlyOfDelivered)'
    BY DEF TypeDb, TypeRemote, TypeUi, TypeHistory, NothingLost, DeliveredTruthful,
       CopyOnlyOfDelivered, SenderKnows, PendingKnow, ServicesKnow, HasMessage, AfterDelivery,
       Absent, DeliveredStates
  <2>6. (SenderKnows /\ PendingKnow /\ ServicesKnow)'
    BY DEF TypeDb, TypePrep, TypeRemote, TypeUi, DeliveredTruthful, SenderKnows, PendingKnow,
       ServicesKnow, HasMessage, AfterDelivery, NoUid
  <2> QED BY <2>1, <2>2, <2>3, <2>4, <2>5, <2>6
<1>13. CASE SenderSaved
  <2> USE <1>13 DEF SenderSaved, Goto, MessageState
  <2>1. (TypeWork /\ TypeAcct /\ TypePrep /\ TypeDown /\ TypeUi /\ TypeRemote /\ TypeHistory /\ TypeEnv)'
    BY DEF TypeWork, TypeAcct, TypePrep, TypeDown, TypeUi, TypeRemote, TypeHistory, TypeEnv
  <2>2. TypeDb'
    BY UpdateFacts DEF TypeDb, MessageState, DeliveredStates, Absent, TypePrep, ServicesKnow
  <2>3. TypeSend'
    BY DEF TypeSend, SendPcs, NoUid, NoAccount, TypeDb, InState, SenderKnows, HasMessage,
       TypeAcct
  <2>4. (NothingLost /\ DeliveredTruthful /\ CopyOnlyOfDelivered)'
    BY UpdateFacts DEF TypeDb, TypeRemote, TypeUi, TypeHistory, NothingLost, DeliveredTruthful,
       CopyOnlyOfDelivered, SenderKnows, PendingKnow, ServicesKnow, HasMessage, AfterDelivery,
       Absent, DeliveredStates
  <2>5. (SenderKnows /\ PendingKnow /\ ServicesKnow)'
    BY UpdateFacts DEF TypeDb, TypePrep, TypeRemote, TypeUi, DeliveredTruthful, SenderKnows,
       PendingKnow, ServicesKnow, HasMessage, AfterDelivery, NoUid
  <2> QED BY <2>1, <2>2, <2>3, <2>4, <2>5
<1>14. CASE SenderClean
  <2> USE <1>14 DEF SenderClean, Goto, DeleteRow, DeliveredStates
  <2>1. (TypeWork /\ TypeAcct /\ TypePrep /\ TypeDown /\ TypeUi /\ TypeRemote /\ TypeHistory /\ TypeEnv)'
    BY DEF TypeWork, TypeAcct, TypePrep, TypeDown, TypeUi, TypeRemote, TypeHistory, TypeEnv
  <2>2. TypeDb'
    BY DEF TypeDb, MessageState, DeliveredStates, Absent, TypePrep, ServicesKnow
  <2>3. TypeSend'
    BY DEF TypeSend, SendPcs, NoUid, NoAccount, TypeDb, InState, SenderKnows, HasMessage,
       TypeAcct
  <2>4. (NothingLost /\ DeliveredTruthful /\ CopyOnlyOfDelivered)'
    BY DEF TypeDb, TypeRemote, TypeUi, TypeHistory, NothingLost, DeliveredTruthful,
       CopyOnlyOfDelivered, SenderKnows, PendingKnow, ServicesKnow, HasMessage, AfterDelivery,
       Absent, DeliveredStates
  <2>5. (SenderKnows /\ PendingKnow /\ ServicesKnow)'
    BY DEF TypeDb, TypePrep, TypeRemote, TypeUi, DeliveredTruthful, SenderKnows, PendingKnow,
       ServicesKnow, HasMessage, AfterDelivery, NoUid
  <2> QED BY <2>1, <2>2, <2>3, <2>4, <2>5
<1>15. CASE SenderCatch
  <2> USE <1>15 DEF SenderCatch, Goto, StateAfter, MessageState, Errors
  <2>1. (TypeWork /\ TypeAcct /\ TypePrep /\ TypeDown /\ TypeUi /\ TypeRemote /\ TypeHistory /\ TypeEnv)'
    BY DEF TypeWork, TypeAcct, TypePrep, TypeDown, TypeUi, TypeRemote, TypeHistory, TypeEnv
  <2>2. TypeDb'
    BY UpdateFacts DEF TypeDb, MessageState, DeliveredStates, Absent, TypePrep, ServicesKnow
  <2>3. TypeSend'
    BY DEF TypeSend, SendPcs, NoUid, NoAccount, TypeDb, InState, SenderKnows, HasMessage,
       TypeAcct
  <2>4. (NothingLost /\ DeliveredTruthful /\ CopyOnlyOfDelivered)'
    BY UpdateFacts DEF TypeDb, TypeRemote, TypeUi, TypeHistory, NothingLost, DeliveredTruthful,
       CopyOnlyOfDelivered, SenderKnows, PendingKnow, ServicesKnow, HasMessage, AfterDelivery,
       Absent, DeliveredStates
  <2>5. (SenderKnows /\ PendingKnow /\ ServicesKnow)'
    BY UpdateFacts DEF TypeDb, TypePrep, TypeRemote, TypeUi, DeliveredTruthful, SenderKnows,
       PendingKnow, ServicesKnow, HasMessage, AfterDelivery, NoUid
  <2> QED BY <2>1, <2>2, <2>3, <2>4, <2>5
<1>16. CASE SenderCopyPick
  <2> USE <1>16 DEF SenderCopyPick, Goto, InState, CopyStates, DeliveredStates
  <2>1. (TypeDb /\ TypeWork /\ TypeAcct /\ TypePrep /\ TypeDown /\ TypeUi /\ TypeRemote /\ TypeHistory /\ TypeEnv)'
    BY DEF TypeDb, TypeWork, TypeAcct, TypePrep, TypeDown, TypeUi, TypeRemote, TypeHistory,
       TypeEnv
  <2>2. TypeSend'
    <3>1. \A u \in Uids : atts[u] \subseteq Rows
      BY DEF TypeDb
    <3> QED BY <3>1 DEF TypeSend, SendPcs
  <2>3. (NothingLost /\ DeliveredTruthful /\ CopyOnlyOfDelivered)'
    BY DEF TypeDb, TypeRemote, TypeUi, TypeHistory, NothingLost, DeliveredTruthful,
       CopyOnlyOfDelivered, SenderKnows, PendingKnow, ServicesKnow, HasMessage, AfterDelivery,
       Absent, DeliveredStates
  <2>4. (SenderKnows /\ PendingKnow /\ ServicesKnow)'
    BY DEF TypeDb, TypePrep, TypeRemote, TypeUi, DeliveredTruthful, SenderKnows, PendingKnow,
       ServicesKnow, HasMessage, AfterDelivery, NoUid
  <2> QED BY <2>1, <2>2, <2>3, <2>4
<1>17. CASE SenderCopyMark
  <2> USE <1>17 DEF SenderCopyMark, Goto, MessageState
  <2>1. (TypeWork /\ TypeAcct /\ TypePrep /\ TypeDown /\ TypeUi /\ TypeRemote /\ TypeHistory /\ TypeEnv)'
    BY DEF TypeWork, TypeAcct, TypePrep, TypeDown, TypeUi, TypeRemote, TypeHistory, TypeEnv
  <2>2. TypeDb'
    BY UpdateFacts, ResetFacts DEF TypeDb, MessageState, DeliveredStates, Absent, TypePrep,
       ServicesKnow
  <2>3. TypeSend'
    BY DEF TypeSend, SendPcs, NoUid, NoAccount, TypeDb, InState, SenderKnows, HasMessage,
       TypeAcct
  <2>4. (NothingLost /\ DeliveredTruthful /\ CopyOnlyOfDelivered)'
    BY UpdateFacts, ResetFacts DEF TypeDb, TypeRemote, TypeUi, TypeHistory, NothingLost,
       DeliveredTruthful, CopyOnlyOfDelivered, SenderKnows, PendingKnow, ServicesKnow,
       HasMessage, AfterDelivery, Absent, DeliveredStates
  <2>5. (SenderKnows /\ PendingKnow /\ ServicesKnow)'
    BY UpdateFacts, ResetFacts DEF TypeDb, TypePrep, TypeRemote, TypeUi, DeliveredTruthful,
       SenderKnows, PendingKnow, ServicesKnow, HasMessage, AfterDelivery, NoUid
  <2> QED BY <2>1, <2>2, <2>3, <2>4, <2>5
<1>18. CASE SenderCopyAppend
  <2> USE <1>18 DEF SenderCopyAppend, Goto, AppendCopy
  <2>1. (TypeDb /\ TypeWork /\ TypeAcct /\ TypePrep /\ TypeDown /\ TypeUi /\ TypeHistory /\ TypeEnv)'
    BY DEF TypeDb, TypeWork, TypeAcct, TypePrep, TypeDown, TypeUi, TypeHistory, TypeEnv
  <2>2. TypeSend'
    BY DEF TypeSend, SendPcs, NoUid, NoAccount, TypeDb, InState, SenderKnows, HasMessage,
       TypeAcct
  <2>3. TypeRemote'
    BY DEF TypeRemote, SenderKnows, HasMessage, AfterDelivery, TypeSend
  <2>4. (NothingLost /\ DeliveredTruthful /\ CopyOnlyOfDelivered)'
    BY DEF TypeDb, TypeRemote, TypeUi, TypeHistory, NothingLost, DeliveredTruthful,
       CopyOnlyOfDelivered, SenderKnows, PendingKnow, ServicesKnow, HasMessage, AfterDelivery,
       Absent, DeliveredStates
  <2>5. (SenderKnows /\ PendingKnow /\ ServicesKnow)'
    BY DEF TypeDb, TypePrep, TypeRemote, TypeUi, DeliveredTruthful, SenderKnows, PendingKnow,
       ServicesKnow, HasMessage, AfterDelivery, NoUid
  <2> QED BY <2>1, <2>2, <2>3, <2>4, <2>5
<1>19. CASE SenderCopyAppendFails
  <2> USE <1>19 DEF SenderCopyAppendFails, Throw, CallFails, Happens, AppendCopy, Errors
  <2>1. (TypeDb /\ TypeWork /\ TypeAcct /\ TypePrep /\ TypeDown /\ TypeUi /\ TypeHistory)'
    BY DEF TypeDb, TypeWork, TypeAcct, TypePrep, TypeDown, TypeUi, TypeHistory
  <2>2. TypeSend'
    BY DEF TypeSend, SendPcs, NoUid, NoAccount, TypeDb, InState, SenderKnows, HasMessage,
       TypeAcct
  <2>3. TypeRemote'
    BY DEF TypeRemote, SenderKnows, HasMessage, AfterDelivery, TypeSend
  <2>4. TypeEnv'
    BY DEF TypeEnv
  <2>5. (NothingLost /\ DeliveredTruthful /\ CopyOnlyOfDelivered)'
    BY DEF TypeDb, TypeRemote, TypeUi, TypeHistory, NothingLost, DeliveredTruthful,
       CopyOnlyOfDelivered, SenderKnows, PendingKnow, ServicesKnow, HasMessage, AfterDelivery,
       Absent, DeliveredStates
  <2>6. (SenderKnows /\ PendingKnow /\ ServicesKnow)'
    BY DEF TypeDb, TypePrep, TypeRemote, TypeUi, DeliveredTruthful, SenderKnows, PendingKnow,
       ServicesKnow, HasMessage, AfterDelivery, NoUid
  <2> QED BY <2>1, <2>2, <2>3, <2>4, <2>5, <2>6
<1>20. CASE SenderCopyClean
  <2> USE <1>20 DEF SenderCopyClean, Goto, DeleteRow
  <2>1. (TypeWork /\ TypeAcct /\ TypePrep /\ TypeDown /\ TypeUi /\ TypeRemote /\ TypeHistory /\ TypeEnv)'
    BY DEF TypeWork, TypeAcct, TypePrep, TypeDown, TypeUi, TypeRemote, TypeHistory, TypeEnv
  <2>2. TypeDb'
    BY DEF TypeDb, MessageState, DeliveredStates, Absent, TypePrep, ServicesKnow
  <2>3. TypeSend'
    BY DEF TypeSend, SendPcs, NoUid, NoAccount, TypeDb, InState, SenderKnows, HasMessage,
       TypeAcct
  <2>4. (NothingLost /\ DeliveredTruthful /\ CopyOnlyOfDelivered)'
    BY DEF TypeDb, TypeRemote, TypeUi, TypeHistory, NothingLost, DeliveredTruthful,
       CopyOnlyOfDelivered, SenderKnows, PendingKnow, ServicesKnow, HasMessage, AfterDelivery,
       Absent, DeliveredStates
  <2>5. (SenderKnows /\ PendingKnow /\ ServicesKnow)'
    BY DEF TypeDb, TypePrep, TypeRemote, TypeUi, DeliveredTruthful, SenderKnows, PendingKnow,
       ServicesKnow, HasMessage, AfterDelivery, NoUid
  <2> QED BY <2>1, <2>2, <2>3, <2>4, <2>5
<1>21. CASE SenderCopyCatch
  <2> USE <1>21 DEF SenderCopyCatch, Goto, DeleteRow, MessageState
  <2>1. (TypeWork /\ TypeAcct /\ TypePrep /\ TypeDown /\ TypeUi /\ TypeRemote /\ TypeHistory /\ TypeEnv)'
    BY DEF TypeWork, TypeAcct, TypePrep, TypeDown, TypeUi, TypeRemote, TypeHistory, TypeEnv
  <2>2. TypeDb'
    BY UpdateFacts DEF TypeDb, MessageState, DeliveredStates, Absent, TypePrep, ServicesKnow
  <2>3. TypeSend'
    BY DEF TypeSend, SendPcs, NoUid, NoAccount, TypeDb, InState, SenderKnows, HasMessage,
       TypeAcct
  <2>4. (NothingLost /\ DeliveredTruthful /\ CopyOnlyOfDelivered)'
    BY UpdateFacts DEF TypeDb, TypeRemote, TypeUi, TypeHistory, NothingLost, DeliveredTruthful,
       CopyOnlyOfDelivered, SenderKnows, PendingKnow, ServicesKnow, HasMessage, AfterDelivery,
       Absent, DeliveredStates
  <2>5. (SenderKnows /\ PendingKnow /\ ServicesKnow)'
    BY UpdateFacts DEF TypeDb, TypePrep, TypeRemote, TypeUi, DeliveredTruthful, SenderKnows,
       PendingKnow, ServicesKnow, HasMessage, AfterDelivery, NoUid
  <2> QED BY <2>1, <2>2, <2>3, <2>4, <2>5
<1>22. CASE SenderFinish
  <2> USE <1>22 DEF SenderFinish, SenderEnd, SenderIdle, Workers, Errors
  <2>1. (TypeAcct /\ TypePrep /\ TypeDown /\ TypeUi /\ TypeRemote /\ TypeHistory /\ TypeEnv)'
    BY DEF TypeAcct, TypePrep, TypeDown, TypeUi, TypeRemote, TypeHistory, TypeEnv
  <2>2. TypeDb'
    BY ResetFacts DEF TypeDb, MessageState, DeliveredStates, Absent, TypePrep, ServicesKnow
  <2>3. TypeWork'
    BY ResetFacts DEF TypeWork
  <2>4. TypeSend'
    BY DEF TypeSend, SendPcs, NoUid, NoAccount, TypeDb, InState, SenderKnows, HasMessage,
       TypeAcct
  <2>5. (NothingLost /\ DeliveredTruthful /\ CopyOnlyOfDelivered)'
    BY ResetFacts DEF TypeDb, TypeRemote, TypeUi, TypeHistory, NothingLost, DeliveredTruthful,
       CopyOnlyOfDelivered, SenderKnows, PendingKnow, ServicesKnow, HasMessage, AfterDelivery,
       Absent, DeliveredStates
  <2>6. (SenderKnows /\ PendingKnow /\ ServicesKnow)'
    BY ResetFacts DEF TypeDb, TypePrep, TypeRemote, TypeUi, DeliveredTruthful, SenderKnows,
       PendingKnow, ServicesKnow, HasMessage, AfterDelivery, NoUid
  <2> QED BY <2>1, <2>2, <2>3, <2>4, <2>5, <2>6
<1>23. CASE SenderFail
  <2> USE <1>23 DEF SenderFail, SenderEnd, SenderIdle, Workers, Errors
  <2>1. (TypeAcct /\ TypePrep /\ TypeDown /\ TypeUi /\ TypeRemote /\ TypeHistory /\ TypeEnv)'
    BY DEF TypeAcct, TypePrep, TypeDown, TypeUi, TypeRemote, TypeHistory, TypeEnv
  <2>2. TypeDb'
    BY ResetFacts, ChangeFacts DEF TypeDb, MessageState, DeliveredStates, Absent, TypePrep,
       ServicesKnow
  <2>3. TypeWork'
    BY ResetFacts, ChangeFacts DEF TypeWork
  <2>4. TypeSend'
    BY DEF TypeSend, SendPcs, NoUid, NoAccount, TypeDb, InState, SenderKnows, HasMessage,
       TypeAcct
  <2>5. (NothingLost /\ DeliveredTruthful /\ CopyOnlyOfDelivered)'
    BY ResetFacts, ChangeFacts DEF TypeDb, TypeRemote, TypeUi, TypeHistory, NothingLost,
       DeliveredTruthful, CopyOnlyOfDelivered, SenderKnows, PendingKnow, ServicesKnow,
       HasMessage, AfterDelivery, Absent, DeliveredStates
  <2>6. (SenderKnows /\ PendingKnow /\ ServicesKnow)'
    BY ResetFacts, ChangeFacts DEF TypeDb, TypePrep, TypeRemote, TypeUi, DeliveredTruthful,
       SenderKnows, PendingKnow, ServicesKnow, HasMessage, AfterDelivery, NoUid
  <2> QED BY <2>1, <2>2, <2>3, <2>4, <2>5, <2>6
<1> QED BY <1>1, <1>2, <1>3, <1>4, <1>5, <1>6, <1>7, <1>8, <1>9, <1>10, <1>11, <1>12, <1>13,
   <1>14, <1>15, <1>16, <1>17, <1>18, <1>19, <1>20, <1>21, <1>22, <1>23 DEF Sender

\* Every step of User preserves the invariant.
LEMMA UserStep == IInv /\ User => IInv'
<1> SUFFICES ASSUME IInv, User PROVE IInv'
  OBVIOUS
<1> USE DEF IInv, TypeOK, Table, db, acct, prep, down, send, ui, remote, history
<1>1. ASSUME NEW u \in Uids, Compose(u) PROVE IInv'
  <2> USE <1>1 DEF Compose
  <2>1. (TypeDb /\ TypeWork /\ TypeAcct /\ TypeDown /\ TypeSend /\ TypeUi /\ TypeRemote /\ TypeEnv)'
    BY DEF TypeDb, TypeWork, TypeAcct, TypeDown, TypeSend, TypeUi, TypeRemote, TypeEnv
  <2>2. TypePrep'
    BY DEF TypePrep, PrepPcs, NoUid
  <2>3. TypeHistory'
    BY DEF TypeHistory, TypePrep, TypeDb, ServicesKnow, TypeUi
  <2>4. (NothingLost /\ DeliveredTruthful /\ CopyOnlyOfDelivered)'
    BY DEF TypeDb, TypeRemote, TypeUi, TypeHistory, NothingLost, DeliveredTruthful,
       CopyOnlyOfDelivered, SenderKnows, PendingKnow, ServicesKnow, HasMessage, AfterDelivery,
       Absent, DeliveredStates
  <2>5. (SenderKnows /\ PendingKnow /\ ServicesKnow)'
    BY DEF TypeDb, TypePrep, TypeRemote, TypeUi, DeliveredTruthful, SenderKnows, PendingKnow,
       ServicesKnow, HasMessage, AfterDelivery, NoUid
  <2> QED BY <2>1, <2>2, <2>3, <2>4, <2>5
<1>2. ASSUME NEW u \in Uids, DeleteOutgoingMsg(u) PROVE IInv'
  <2> USE <1>2 DEF DeleteOutgoingMsg, DeleteRow, Allowed
  <2>1. (TypeWork /\ TypeAcct /\ TypePrep /\ TypeDown /\ TypeSend /\ TypeUi /\ TypeRemote)'
    BY DEF TypeWork, TypeAcct, TypePrep, TypeDown, TypeSend, TypeUi, TypeRemote
  <2>2. TypeDb'
    BY DEF TypeDb, MessageState, DeliveredStates, Absent, TypePrep, ServicesKnow
  <2>3. TypeHistory'
    BY DEF TypeHistory, TypePrep, TypeDb, ServicesKnow, TypeUi
  <2>4. TypeEnv'
    BY DEF TypeEnv
  <2>5. (NothingLost /\ DeliveredTruthful /\ CopyOnlyOfDelivered)'
    BY DEF TypeDb, TypeRemote, TypeUi, TypeHistory, NothingLost, DeliveredTruthful,
       CopyOnlyOfDelivered, SenderKnows, PendingKnow, ServicesKnow, HasMessage, AfterDelivery,
       Absent, DeliveredStates
  <2>6. (SenderKnows /\ PendingKnow /\ ServicesKnow)'
    BY DEF TypeDb, TypePrep, TypeRemote, TypeUi, DeliveredTruthful, SenderKnows, PendingKnow,
       ServicesKnow, HasMessage, AfterDelivery, NoUid
  <2> QED BY <2>1, <2>2, <2>3, <2>4, <2>5, <2>6
<1>3. ASSUME NEW u \in Uids, OpenDetails(u) PROVE IInv'
  <2> USE <1>3 DEF OpenDetails, Allowed
  <2>1. (TypeDb /\ TypeWork /\ TypeAcct /\ TypePrep /\ TypeDown /\ TypeSend /\ TypeRemote /\ TypeHistory)'
    BY DEF TypeDb, TypeWork, TypeAcct, TypePrep, TypeDown, TypeSend, TypeRemote, TypeHistory
  <2>2. TypeUi'
    BY DEF TypeUi, NoUid, Absent, TypeDb
  <2>3. TypeEnv'
    BY DEF TypeEnv
  <2>4. (NothingLost /\ DeliveredTruthful /\ CopyOnlyOfDelivered)'
    BY DEF TypeDb, TypeRemote, TypeUi, TypeHistory, NothingLost, DeliveredTruthful,
       CopyOnlyOfDelivered, SenderKnows, PendingKnow, ServicesKnow, HasMessage, AfterDelivery,
       Absent, DeliveredStates
  <2>5. (SenderKnows /\ PendingKnow /\ ServicesKnow)'
    BY DEF TypeDb, TypePrep, TypeRemote, TypeUi, DeliveredTruthful, SenderKnows, PendingKnow,
       ServicesKnow, HasMessage, AfterDelivery, NoUid
  <2> QED BY <2>1, <2>2, <2>3, <2>4, <2>5
<1>4. ASSUME NEW u \in Uids, Retry(u) PROVE IInv'
  <2> USE <1>4 DEF Retry, EnqueueKeep, Workers, Happens, DeliveredStates
  <2>1. (TypeDb /\ TypeAcct /\ TypePrep /\ TypeDown /\ TypeSend /\ TypeRemote /\ TypeHistory)'
    BY DEF TypeDb, TypeAcct, TypePrep, TypeDown, TypeSend, TypeRemote, TypeHistory
  <2>2. TypeWork'
    BY DEF TypeWork
  <2>3. TypeUi'
    BY DEF TypeUi, NoUid, Absent, TypeDb
  <2>4. TypeEnv'
    BY DEF TypeEnv
  <2>5. (NothingLost /\ DeliveredTruthful /\ CopyOnlyOfDelivered)'
    BY DEF TypeDb, TypeRemote, TypeUi, TypeHistory, NothingLost, DeliveredTruthful,
       CopyOnlyOfDelivered, SenderKnows, PendingKnow, ServicesKnow, HasMessage, AfterDelivery,
       Absent, DeliveredStates
  <2>6. (SenderKnows /\ PendingKnow /\ ServicesKnow)'
    BY DEF TypeDb, TypePrep, TypeRemote, TypeUi, DeliveredTruthful, SenderKnows, PendingKnow,
       ServicesKnow, HasMessage, AfterDelivery, NoUid
  <2> QED BY <2>1, <2>2, <2>3, <2>4, <2>5, <2>6
<1>5. CASE DeleteFromDetails
  <2> USE <1>5 DEF DeleteFromDetails, DeleteRow
  <2>1. (TypeWork /\ TypeAcct /\ TypePrep /\ TypeDown /\ TypeSend /\ TypeRemote /\ TypeEnv)'
    BY DEF TypeWork, TypeAcct, TypePrep, TypeDown, TypeSend, TypeRemote, TypeEnv
  <2>2. TypeDb'
    BY DEF TypeDb, MessageState, DeliveredStates, Absent, TypePrep, ServicesKnow
  <2>3. TypeUi'
    BY DEF TypeUi, NoUid, Absent, TypeDb
  <2>4. TypeHistory'
    BY DEF TypeHistory, TypePrep, TypeDb, ServicesKnow, TypeUi
  <2>5. (NothingLost /\ DeliveredTruthful /\ CopyOnlyOfDelivered)'
    BY DEF TypeDb, TypeRemote, TypeUi, TypeHistory, NothingLost, DeliveredTruthful,
       CopyOnlyOfDelivered, SenderKnows, PendingKnow, ServicesKnow, HasMessage, AfterDelivery,
       Absent, DeliveredStates
  <2>6. (SenderKnows /\ PendingKnow /\ ServicesKnow)'
    BY DEF TypeDb, TypePrep, TypeRemote, TypeUi, DeliveredTruthful, SenderKnows, PendingKnow,
       ServicesKnow, HasMessage, AfterDelivery, NoUid
  <2> QED BY <2>1, <2>2, <2>3, <2>4, <2>5, <2>6
<1>6. CASE CloseDetails
  <2> USE <1>6 DEF CloseDetails
  <2>1. (TypeDb /\ TypeWork /\ TypeAcct /\ TypePrep /\ TypeDown /\ TypeSend /\ TypeRemote /\ TypeHistory /\ TypeEnv)'
    BY DEF TypeDb, TypeWork, TypeAcct, TypePrep, TypeDown, TypeSend, TypeRemote, TypeHistory,
       TypeEnv
  <2>2. TypeUi'
    BY DEF TypeUi, NoUid, Absent, TypeDb
  <2>3. (NothingLost /\ DeliveredTruthful /\ CopyOnlyOfDelivered)'
    BY DEF TypeDb, TypeRemote, TypeUi, TypeHistory, NothingLost, DeliveredTruthful,
       CopyOnlyOfDelivered, SenderKnows, PendingKnow, ServicesKnow, HasMessage, AfterDelivery,
       Absent, DeliveredStates
  <2>4. (SenderKnows /\ PendingKnow /\ ServicesKnow)'
    BY DEF TypeDb, TypePrep, TypeRemote, TypeUi, DeliveredTruthful, SenderKnows, PendingKnow,
       ServicesKnow, HasMessage, AfterDelivery, NoUid
  <2> QED BY <2>1, <2>2, <2>3, <2>4
<1>7. ASSUME NEW p \in retries, ChangeState(p[1], p[2]) PROVE IInv'
  <2> USE <1>7 DEF ChangeState, EnqueueKeep, Workers, MessageState, DeliveredStates
  <2>1. (TypeAcct /\ TypePrep /\ TypeDown /\ TypeSend /\ TypeRemote /\ TypeHistory /\ TypeEnv)'
    BY DEF TypeAcct, TypePrep, TypeDown, TypeSend, TypeRemote, TypeHistory, TypeEnv
  <2>2. TypeDb'
    <3>1. p[2] \in MessageState
      BY DEF TypeUi, MessageState, DeliveredStates
    <3>2. Update(row, p[1], p[2]) \in Table
      BY <3>1, UpdateFacts DEF TypeDb
    <3> QED BY <3>2 DEF TypeDb
  <2>3. TypeWork'
    BY UpdateFacts DEF TypeWork
  <2>4. TypeUi'
    BY UpdateFacts DEF TypeUi, NoUid, Absent, TypeDb
  <2>5. (NothingLost /\ DeliveredTruthful /\ CopyOnlyOfDelivered)'
    BY UpdateFacts DEF TypeDb, TypeRemote, TypeUi, TypeHistory, NothingLost, DeliveredTruthful,
       CopyOnlyOfDelivered, SenderKnows, PendingKnow, ServicesKnow, HasMessage, AfterDelivery,
       Absent, DeliveredStates
  <2>6. (SenderKnows /\ PendingKnow /\ ServicesKnow)'
    BY UpdateFacts DEF TypeDb, TypePrep, TypeRemote, TypeUi, DeliveredTruthful, SenderKnows,
       PendingKnow, ServicesKnow, HasMessage, AfterDelivery, NoUid
  <2> QED BY <2>1, <2>2, <2>3, <2>4, <2>5, <2>6
<1>8. CASE ClickForceSending
  <2> USE <1>8 DEF ClickForceSending, Happens
  <2>1. (TypeDb /\ TypeWork /\ TypeAcct /\ TypePrep /\ TypeDown /\ TypeSend /\ TypeRemote /\ TypeHistory)'
    BY DEF TypeDb, TypeWork, TypeAcct, TypePrep, TypeDown, TypeSend, TypeRemote, TypeHistory
  <2>2. TypeUi'
    BY DEF TypeUi, NoUid, Absent, TypeDb
  <2>3. TypeEnv'
    BY DEF TypeEnv
  <2>4. (NothingLost /\ DeliveredTruthful /\ CopyOnlyOfDelivered)'
    BY DEF TypeDb, TypeRemote, TypeUi, TypeHistory, NothingLost, DeliveredTruthful,
       CopyOnlyOfDelivered, SenderKnows, PendingKnow, ServicesKnow, HasMessage, AfterDelivery,
       Absent, DeliveredStates
  <2>5. (SenderKnows /\ PendingKnow /\ ServicesKnow)'
    BY DEF TypeDb, TypePrep, TypeRemote, TypeUi, DeliveredTruthful, SenderKnows, PendingKnow,
       ServicesKnow, HasMessage, AfterDelivery, NoUid
  <2> QED BY <2>1, <2>2, <2>3, <2>4, <2>5
<1>9. CASE ForceSending
  <2> USE <1>9 DEF ForceSending, CancelSender, SenderIdle, Workers, Errors
  <2>1. (TypeAcct /\ TypePrep /\ TypeDown /\ TypeHistory /\ TypeEnv)'
    BY DEF TypeAcct, TypePrep, TypeDown, TypeHistory, TypeEnv
  <2>2. TypeDb'
    BY ChangeFacts DEF TypeDb, MessageState, DeliveredStates, Absent, TypePrep, ServicesKnow
  <2>3. TypeWork'
    BY ChangeFacts DEF TypeWork
  <2>4. TypeSend'
    BY DEF TypeSend, SendPcs, NoUid, NoAccount, TypeDb, InState, SenderKnows, HasMessage,
       TypeAcct
  <2>5. TypeUi'
    BY ChangeFacts DEF TypeUi, NoUid, Absent, TypeDb
  <2>6. TypeRemote'
    BY ChangeFacts DEF TypeRemote, SenderKnows, HasMessage, AfterDelivery, TypeSend
  <2>7. (NothingLost /\ DeliveredTruthful /\ CopyOnlyOfDelivered)'
    BY ChangeFacts DEF TypeDb, TypeRemote, TypeUi, TypeHistory, NothingLost, DeliveredTruthful,
       CopyOnlyOfDelivered, SenderKnows, PendingKnow, ServicesKnow, HasMessage, AfterDelivery,
       Absent, DeliveredStates
  <2>8. (SenderKnows /\ PendingKnow /\ ServicesKnow)'
    BY ChangeFacts DEF TypeDb, TypePrep, TypeRemote, TypeUi, DeliveredTruthful, SenderKnows,
       PendingKnow, ServicesKnow, HasMessage, AfterDelivery, NoUid
  <2> QED BY <2>1, <2>2, <2>3, <2>4, <2>5, <2>6, <2>7, <2>8
<1>10. CASE ReAuthenticated
  <2> USE <1>10 DEF ReAuthenticated, EnqueueKeep, Workers, Happens
  <2>1. (TypeAcct /\ TypePrep /\ TypeDown /\ TypeSend /\ TypeUi /\ TypeRemote /\ TypeHistory)'
    BY DEF TypeAcct, TypePrep, TypeDown, TypeSend, TypeUi, TypeRemote, TypeHistory
  <2>2. TypeDb'
    BY ChangeFacts DEF TypeDb, MessageState, DeliveredStates, Absent, TypePrep, ServicesKnow
  <2>3. TypeWork'
    BY ChangeFacts DEF TypeWork
  <2>4. TypeEnv'
    BY ChangeFacts DEF TypeEnv
  <2>5. (NothingLost /\ DeliveredTruthful /\ CopyOnlyOfDelivered)'
    <3>1. /\ \A v \in Uids : row'[v] = Absent <=> row[v] = Absent
          /\ \A v \in Uids : row'[v] \in DeliveredStates => row[v] \in DeliveredStates
      BY ChangeFacts DEF TypeDb
    <3> QED
      BY <3>1 DEF TypeHistory, NothingLost, DeliveredTruthful, CopyOnlyOfDelivered
  <2>6. (SenderKnows /\ PendingKnow /\ ServicesKnow)'
    BY ChangeFacts DEF TypeDb, TypePrep, TypeRemote, TypeUi, DeliveredTruthful, SenderKnows,
       PendingKnow, ServicesKnow, HasMessage, AfterDelivery, NoUid
  <2> QED BY <2>1, <2>2, <2>3, <2>4, <2>5, <2>6
<1>11. CASE Launch
  <2> USE <1>11 DEF Launch, EnqueueKeep, Workers
  <2>1. (TypeDb /\ TypeAcct /\ TypePrep /\ TypeDown /\ TypeSend /\ TypeUi /\ TypeRemote /\ TypeHistory /\ TypeEnv)'
    BY DEF TypeDb, TypeAcct, TypePrep, TypeDown, TypeSend, TypeUi, TypeRemote, TypeHistory,
       TypeEnv
  <2>2. TypeWork'
    BY DEF TypeWork
  <2>3. (NothingLost /\ DeliveredTruthful /\ CopyOnlyOfDelivered)'
    BY DEF TypeDb, TypeRemote, TypeUi, TypeHistory, NothingLost, DeliveredTruthful,
       CopyOnlyOfDelivered, SenderKnows, PendingKnow, ServicesKnow, HasMessage, AfterDelivery,
       Absent, DeliveredStates
  <2>4. (SenderKnows /\ PendingKnow /\ ServicesKnow)'
    BY DEF TypeDb, TypePrep, TypeRemote, TypeUi, DeliveredTruthful, SenderKnows, PendingKnow,
       ServicesKnow, HasMessage, AfterDelivery, NoUid
  <2> QED BY <2>1, <2>2, <2>3, <2>4
<1>12. ASSUME NEW a \in Accounts, SwitchAccount(a) PROVE IInv'
  <2> USE <1>12 DEF SwitchAccount, Happens
  <2>1. (TypeDb /\ TypeWork /\ TypePrep /\ TypeDown /\ TypeSend /\ TypeUi /\ TypeRemote /\ TypeHistory)'
    BY DEF TypeDb, TypeWork, TypePrep, TypeDown, TypeSend, TypeUi, TypeRemote, TypeHistory
  <2>2. TypeAcct'
    BY DEF TypeAcct, NoAccount
  <2>3. TypeEnv'
    BY DEF TypeEnv
  <2>4. (NothingLost /\ DeliveredTruthful /\ CopyOnlyOfDelivered)'
    BY DEF TypeDb, TypeRemote, TypeUi, TypeHistory, NothingLost, DeliveredTruthful,
       CopyOnlyOfDelivered, SenderKnows, PendingKnow, ServicesKnow, HasMessage, AfterDelivery,
       Absent, DeliveredStates
  <2>5. (SenderKnows /\ PendingKnow /\ ServicesKnow)'
    BY DEF TypeDb, TypePrep, TypeRemote, TypeUi, DeliveredTruthful, SenderKnows, PendingKnow,
       ServicesKnow, HasMessage, AfterDelivery, NoUid
  <2> QED BY <2>1, <2>2, <2>3, <2>4, <2>5
<1>13. CASE Logout
  <2> USE <1>13 DEF Logout, Happens
  <2>1. (TypeDb /\ TypeWork /\ TypePrep /\ TypeDown /\ TypeSend /\ TypeUi /\ TypeRemote /\ TypeHistory)'
    BY DEF TypeDb, TypeWork, TypePrep, TypeDown, TypeSend, TypeUi, TypeRemote, TypeHistory
  <2>2. TypeAcct'
    BY DEF TypeAcct, NoAccount
  <2>3. TypeEnv'
    BY DEF TypeEnv
  <2>4. (NothingLost /\ DeliveredTruthful /\ CopyOnlyOfDelivered)'
    BY DEF TypeDb, TypeRemote, TypeUi, TypeHistory, NothingLost, DeliveredTruthful,
       CopyOnlyOfDelivered, SenderKnows, PendingKnow, ServicesKnow, HasMessage, AfterDelivery,
       Absent, DeliveredStates
  <2>5. (SenderKnows /\ PendingKnow /\ ServicesKnow)'
    BY DEF TypeDb, TypePrep, TypeRemote, TypeUi, DeliveredTruthful, SenderKnows, PendingKnow,
       ServicesKnow, HasMessage, AfterDelivery, NoUid
  <2> QED BY <2>1, <2>2, <2>3, <2>4, <2>5
<1>14. CASE LogoutDeleteRows
  <2> USE <1>14 DEF LogoutDeleteRows, InState
  <2>1. (TypeWork /\ TypePrep /\ TypeDown /\ TypeSend /\ TypeUi /\ TypeRemote /\ TypeEnv)'
    BY DEF TypeWork, TypePrep, TypeDown, TypeSend, TypeUi, TypeRemote, TypeEnv
  <2>2. TypeDb'
    BY DEF TypeDb, MessageState, DeliveredStates, Absent, TypePrep, ServicesKnow
  <2>3. TypeAcct'
    BY DEF TypeAcct, NoAccount
  <2>4. TypeHistory'
    BY DEF TypeHistory, TypePrep, TypeDb, ServicesKnow, TypeUi
  <2>5. (NothingLost /\ DeliveredTruthful /\ CopyOnlyOfDelivered)'
    BY DEF TypeDb, TypeRemote, TypeUi, TypeHistory, NothingLost, DeliveredTruthful,
       CopyOnlyOfDelivered, SenderKnows, PendingKnow, ServicesKnow, HasMessage, AfterDelivery,
       Absent, DeliveredStates
  <2>6. (SenderKnows /\ PendingKnow /\ ServicesKnow)'
    BY DEF TypeDb, TypePrep, TypeRemote, TypeUi, DeliveredTruthful, SenderKnows, PendingKnow,
       ServicesKnow, HasMessage, AfterDelivery, NoUid
  <2> QED BY <2>1, <2>2, <2>3, <2>4, <2>5, <2>6
<1> QED BY <1>1, <1>2, <1>3, <1>4, <1>5, <1>6, <1>7, <1>8, <1>9, <1>10, <1>11, <1>12, <1>13,
   <1>14 DEF User

\* Every step of Device preserves the invariant.
LEMMA DeviceStep == IInv /\ Device => IInv'
<1> SUFFICES ASSUME IInv, Device PROVE IInv'
  OBVIOUS
<1> USE DEF IInv, TypeOK, Table, db, acct, prep, down, send, ui, remote, history
<1>1. CASE StopSender
  <2> USE <1>1 DEF StopSender, CancelSender, SenderIdle, Workers, Errors
  <2>1. (TypeDb /\ TypeAcct /\ TypePrep /\ TypeDown /\ TypeUi /\ TypeHistory /\ TypeEnv)'
    BY DEF TypeDb, TypeAcct, TypePrep, TypeDown, TypeUi, TypeHistory, TypeEnv
  <2>2. TypeWork'
    BY DEF TypeWork
  <2>3. TypeSend'
    BY DEF TypeSend, SendPcs, NoUid, NoAccount, TypeDb, InState, SenderKnows, HasMessage,
       TypeAcct
  <2>4. TypeRemote'
    BY DEF TypeRemote, SenderKnows, HasMessage, AfterDelivery, TypeSend
  <2>5. (NothingLost /\ DeliveredTruthful /\ CopyOnlyOfDelivered)'
    BY DEF TypeDb, TypeRemote, TypeUi, TypeHistory, NothingLost, DeliveredTruthful,
       CopyOnlyOfDelivered, SenderKnows, PendingKnow, ServicesKnow, HasMessage, AfterDelivery,
       Absent, DeliveredStates
  <2>6. (SenderKnows /\ PendingKnow /\ ServicesKnow)'
    BY DEF TypeDb, TypePrep, TypeRemote, TypeUi, DeliveredTruthful, SenderKnows, PendingKnow,
       ServicesKnow, HasMessage, AfterDelivery, NoUid
  <2> QED BY <2>1, <2>2, <2>3, <2>4, <2>5, <2>6
<1>2. CASE StopDownloader
  <2> USE <1>2 DEF StopDownloader, DownloaderEnd, Workers
  <2>1. (TypeDb /\ TypeAcct /\ TypePrep /\ TypeSend /\ TypeUi /\ TypeRemote /\ TypeHistory /\ TypeEnv)'
    BY DEF TypeDb, TypeAcct, TypePrep, TypeSend, TypeUi, TypeRemote, TypeHistory, TypeEnv
  <2>2. TypeWork'
    BY DEF TypeWork
  <2>3. TypeDown'
    BY DEF TypeDown, DownPcs, NoUid, NoAccount, TypeDb, TypeAcct, InState
  <2>4. (NothingLost /\ DeliveredTruthful /\ CopyOnlyOfDelivered)'
    BY DEF TypeDb, TypeRemote, TypeUi, TypeHistory, NothingLost, DeliveredTruthful,
       CopyOnlyOfDelivered, SenderKnows, PendingKnow, ServicesKnow, HasMessage, AfterDelivery,
       Absent, DeliveredStates
  <2>5. (SenderKnows /\ PendingKnow /\ ServicesKnow)'
    BY DEF TypeDb, TypePrep, TypeRemote, TypeUi, DeliveredTruthful, SenderKnows, PendingKnow,
       ServicesKnow, HasMessage, AfterDelivery, NoUid
  <2> QED BY <2>1, <2>2, <2>3, <2>4, <2>5
<1>3. CASE Connectivity
  <2> USE <1>3 DEF Connectivity, Happens
  <2>1. (TypeDb /\ TypeWork /\ TypeAcct /\ TypePrep /\ TypeDown /\ TypeSend /\ TypeUi /\ TypeRemote /\ TypeHistory)'
    BY DEF TypeDb, TypeWork, TypeAcct, TypePrep, TypeDown, TypeSend, TypeUi, TypeRemote,
       TypeHistory
  <2>2. TypeEnv'
    BY DEF TypeEnv
  <2>3. (NothingLost /\ DeliveredTruthful /\ CopyOnlyOfDelivered)'
    BY DEF TypeDb, TypeRemote, TypeUi, TypeHistory, NothingLost, DeliveredTruthful,
       CopyOnlyOfDelivered, SenderKnows, PendingKnow, ServicesKnow, HasMessage, AfterDelivery,
       Absent, DeliveredStates
  <2>4. (SenderKnows /\ PendingKnow /\ ServicesKnow)'
    BY DEF TypeDb, TypePrep, TypeRemote, TypeUi, DeliveredTruthful, SenderKnows, PendingKnow,
       ServicesKnow, HasMessage, AfterDelivery, NoUid
  <2> QED BY <2>1, <2>2, <2>3, <2>4
<1>4. CASE Crash
  <2> USE <1>4 DEF Crash, SenderIdle, Happens, Workers, Errors
  <2>1. (TypeDb /\ TypeHistory)'
    BY DEF TypeDb, TypeHistory
  <2>2. TypeWork'
    BY DEF TypeWork
  <2>3. TypeAcct'
    BY DEF TypeAcct, NoAccount
  <2>4. TypePrep'
    BY DEF TypePrep, PrepPcs, NoUid
  <2>5. TypeDown'
    BY DEF TypeDown, DownPcs, NoUid, NoAccount, TypeDb, TypeAcct, InState
  <2>6. TypeSend'
    BY DEF TypeSend, SendPcs, NoUid, NoAccount, TypeDb, InState, SenderKnows, HasMessage,
       TypeAcct
  <2>7. TypeUi'
    BY DEF TypeUi, NoUid, Absent, TypeDb
  <2>8. TypeRemote'
    BY DEF TypeRemote, SenderKnows, HasMessage, AfterDelivery, TypeSend
  <2>9. TypeEnv'
    BY DEF TypeEnv
  <2>10. (NothingLost /\ DeliveredTruthful /\ CopyOnlyOfDelivered)'
    BY DEF TypeDb, TypeRemote, TypeUi, TypeHistory, NothingLost, DeliveredTruthful,
       CopyOnlyOfDelivered, SenderKnows, PendingKnow, ServicesKnow, HasMessage, AfterDelivery,
       Absent, DeliveredStates
  <2>11. (SenderKnows /\ PendingKnow /\ ServicesKnow)'
    BY DEF TypeDb, TypePrep, TypeRemote, TypeUi, DeliveredTruthful, SenderKnows, PendingKnow,
       ServicesKnow, HasMessage, AfterDelivery, NoUid
  <2> QED BY <2>1, <2>2, <2>3, <2>4, <2>5, <2>6, <2>7, <2>8, <2>9, <2>10, <2>11
<1>5. ASSUME NEW z \in zombies, ZombieCall(z) PROVE IInv'
  <2> USE <1>5 DEF ZombieCall, Deliver, AppendCopy
  <2>1. (TypeDb /\ TypeWork /\ TypeAcct /\ TypePrep /\ TypeDown /\ TypeSend /\ TypeUi /\ TypeHistory /\ TypeEnv)'
    BY DEF TypeDb, TypeWork, TypeAcct, TypePrep, TypeDown, TypeSend, TypeUi, TypeHistory,
       TypeEnv
  <2>2. TypeRemote'
    BY DEF TypeRemote, SenderKnows, HasMessage, AfterDelivery, TypeSend
  <2>3. (NothingLost /\ DeliveredTruthful /\ CopyOnlyOfDelivered)'
    BY DEF TypeDb, TypeRemote, TypeUi, TypeHistory, NothingLost, DeliveredTruthful,
       CopyOnlyOfDelivered, SenderKnows, PendingKnow, ServicesKnow, HasMessage, AfterDelivery,
       Absent, DeliveredStates
  <2>4. SenderKnows'
    BY DEF TypeRemote, TypeSend, SenderKnows, HasMessage, AfterDelivery
  <2>5. PendingKnow'
    <3>1. \A v \in Uids : delivered[v] > 0 => delivered'[v] > 0
      BY DEF TypeRemote
    <3>2. \A p \in retries : p[1] \in Uids
      BY DEF TypeUi
    <3>3. \A y \in zombies : y.uid \in Uids
      BY DEF TypeRemote
    <3>4. retries' = retries /\ zombies' \subseteq zombies
      OBVIOUS
    <3> QED BY <3>1, <3>2, <3>3, <3>4 DEF PendingKnow
  <2>6. ServicesKnow'
    BY DEF TypeRemote, ServicesKnow
  <2> QED BY <2>1, <2>2, <2>3, <2>4, <2>5, <2>6
<1> QED BY <1>1, <1>2, <1>3, <1>4, <1>5 DEF Device

-----------------------------------------------------------------------------
\* The invariant holds when the application starts with empty tables.
LEMMA InvInit == Init => IInv
<1> SUFFICES ASSUME Init PROVE IInv
  OBVIOUS
<1> USE DEF Init
<1>1. TypeDb /\ TypeWork /\ TypeAcct /\ TypePrep /\ TypeDown
  BY DEF TypeDb, TypeWork, TypeAcct, TypePrep, TypeDown, PrepPcs, DownPcs, NoUid, NoAccount
<1>2. TypeSend /\ TypeUi /\ TypeHistory /\ TypeEnv
  BY DEF TypeSend, TypeUi, TypeHistory, TypeEnv, SendPcs, Errors, NoUid, NoAccount
<1>3. TypeRemote
  BY DEF TypeRemote
<1>4. NothingLost /\ DeliveredTruthful /\ CopyOnlyOfDelivered
  BY DEF NothingLost, DeliveredTruthful, CopyOnlyOfDelivered, DeliveredStates, Absent
<1>5. SenderKnows /\ PendingKnow /\ ServicesKnow
  BY DEF SenderKnows, PendingKnow, ServicesKnow, HasMessage, AfterDelivery
<1> QED BY <1>1, <1>2, <1>3, <1>4, <1>5 DEF IInv, TypeOK

\* Every step of the pipeline, its user and its device preserves the invariant.
LEMMA InvStep == IInv /\ [Next]_vars => IInv'
<1> SUFFICES ASSUME IInv, [Next]_vars PROVE IInv'
  OBVIOUS
<1>1. CASE Next
  BY <1>1, PrepareStep, DownloaderStep, SenderStep, UserStep, DeviceStep DEF Next
<1>2. CASE UNCHANGED vars
  <2> USE <1>2 DEF IInv, TypeOK, vars, db, acct, prep, down, send, ui, remote, history
  <2>1. (TypeDb /\ TypeWork /\ TypeAcct /\ TypePrep /\ TypeDown)'
    BY DEF TypeDb, TypeWork, TypeAcct, TypePrep, TypeDown
  <2>2. (TypeSend /\ TypeUi /\ TypeRemote /\ TypeHistory /\ TypeEnv)'
    BY DEF TypeSend, TypeUi, TypeRemote, TypeHistory, TypeEnv
  <2>3. (NothingLost /\ DeliveredTruthful /\ CopyOnlyOfDelivered)'
    BY DEF NothingLost, DeliveredTruthful, CopyOnlyOfDelivered
  <2>4. (SenderKnows /\ PendingKnow /\ ServicesKnow)'
    BY DEF SenderKnows, PendingKnow, ServicesKnow
  <2> QED BY <2>1, <2>2, <2>3, <2>4
<1> QED BY <1>1, <1>2

\* The inductive invariant holds in every reachable state of the pipeline.
THEOREM Invariance == Spec => []IInv
  BY InvInit, InvStep, PTL DEF Spec

\* The variables of the prepare service, the two workers and the tables keep their types.
THEOREM TypeCorrect == Spec => []TypeOK
<1>1. IInv => TypeOK
  BY DEF IInv
<1> QED BY <1>1, Invariance, PTL

\* A message that got a row in the outbox leaves it only when it was delivered or when the
\* user deleted it, however the workers interleave, fail, are cancelled or crash.
THEOREM OutboxLosesNothing == Spec => []NothingLost
<1>1. IInv => NothingLost
  BY DEF IInv
<1> QED BY <1>1, Invariance, PTL

\* The states that make the sender skip the delivery and only copy the message to the SENT
\* folder are held by delivered messages only.
THEOREM OutboxTellsTheTruth == Spec => []DeliveredTruthful
<1>1. IInv => DeliveredTruthful
  BY DEF IInv
<1> QED BY <1>1, Invariance, PTL

\* Whatever the sender, its copy phase and the calls of cancelled senders append to the SENT
\* folder has been delivered before.
THEOREM SentFolderTellsTheTruth == Spec => []CopyOnlyOfDelivered
<1>1. IInv => CopyOnlyOfDelivered
  BY DEF IInv
<1> QED BY <1>1, Invariance, PTL

-----------------------------------------------------------------------------
(* What is delivered, and how often. *)

Plain == Uids \ Forward

\* The sender has the message in its hands.
Handles(u) == sPc \in HasMessage /\ sUid = u

\* No worker, coroutine or abandoned call has come across the message.
Unsent(u) ==
  /\ row[u] \in {Absent, "NEW", "NONE"} /\ ~Handles(u)
  /\ \A p \in retries : p[1] # u
  /\ \A z \in zombies : z.uid # u
  /\ carried[u] = {} /\ delivered[u] = 0 /\ copies[u] = 0

\* Until the prepare service has done its job the message is the service's alone.
Preparing ==
  /\ \A u \in Plain : u \notin composed \/ u \in jobs => Unsent(u)
  /\ pPc # "idle" => pUid \in jobs
  /\ jobs \subseteq composed
  /\ \A u \in Uids \ composed : row[u] = Absent /\ atts[u] = {} /\ cached[u] = {}

\* The downloader handles forwards only.
Downloading ==
  /\ \A u \in Uids : row[u] = "NEW_FORWARDED" => u \in Forward
  /\ dPc \in {"noAtts", "load"} => dUid \in Forward

\* A message the sender handles has not failed.
NotFailed == \A u \in Plain : Handles(u) => row[u] \notin ErrorStates

\* A message the user did not delete keeps its attachments while it has a row, and the sender
\* and the calls of cancelled senders carry them.
Complete ==
  /\ \A u \in Plain \ deleted : row[u] # Absent \/ u \in jobs => atts[u] = cached[u]
  /\ \A u \in Plain \ deleted : sPc \in {"mark", "atts", "send"} /\ sUid = u => row[u] # Absent
  /\ \A u \in Plain \ deleted : sPc = "send" /\ sUid = u => sAtts = cached[u]
  /\ \A z \in zombies : z.call = "send" /\ z.uid \in Plain \ deleted => z.atts = cached[z.uid]
  /\ CompleteDelivery

DInv == Preparing /\ Downloading /\ NotFailed /\ Complete

\* A sender that does something is the running work.
Running == sPc # "idle" => work["sender"] = "running"

\* As long as nothing has failed: where a message stands tells how often it was delivered.
Counted(u) ==
  /\ delivered[u] <= 1 /\ copies[u] <= 1
  /\ row[u] \notin {Absent, "SENDING", "SENT", "SENT_WITHOUT_LOCAL_COPY"} => delivered[u] = 0 /\ copies[u] = 0
  /\ row[u] = "SENDING" => sUid = u /\ sPc \in {"atts", "send", "sent", "catch"}
  /\ row[u] \in CopyStates => sUid = u /\ sPc \in {"append", "saved"}
  /\ sUid = u /\ sPc \in {"mark", "atts", "send", "catch"} => delivered[u] = 0 /\ copies[u] = 0
  /\ sUid = u /\ sPc \in {"atts", "send", "sent"} => row[u] \in {Absent, "SENDING"}
  /\ sUid = u /\ sPc \in {"append", "saved"} => row[u] \in {Absent, "SENT_WITHOUT_LOCAL_COPY"}
  /\ sUid = u /\ sPc \in {"sent", "append"} => copies[u] = 0
  /\ sUid = u => sPc \notin {"copyMark", "copyAppend", "copyClean", "copyCatch"}

Undisturbed == online = TRUE /\ force = FALSE /\ retries = {} /\ zombies = {}

CInv == env = 0 /\ Flaky = {} => Undisturbed /\ \A u \in Plain : Counted(u)

\* Without another account: what is being sent belongs to the active one.
WInv ==
  /\ active # NoAccount /\ leaving = NoAccount
  /\ sPc # "idle" => sAcct = active
  /\ sPc \in HasMessage => AccountOf[sUid] = active
  /\ \A u \in Uids : row[u] = "SENDING" => AccountOf[u] = active /\ work["sender"] # "none"

-----------------------------------------------------------------------------
(* Updates of many rows *)

\* What the bulk updates may do to a row.
Bulk(r, t) ==
  \A u \in Uids : \/ t[u] = r[u]
                  \/ r[u] \in {"SENDING", "QUEUED", "AUTH_FAILURE"} /\ t[u] \in {"QUEUED", "AUTH_FAILURE"}

LEMMA BulkFacts ==
  ASSUME NEW r \in Table
  PROVE  /\ \A a : Bulk(r, ResetMsgsWithSendingState(r, a))
         /\ \A a : Bulk(r, ResetMsgsWithSendingState(ChangeMsgsState(r, a, "QUEUED", "AUTH_FAILURE"), a))
         /\ \A a : Bulk(r, ChangeMsgsState(r, a, "AUTH_FAILURE", "QUEUED"))
  BY DEF Bulk, ResetMsgsWithSendingState, ChangeMsgsState, Table

\* Every step of Prepare preserves the invariant.
LEMMA PrepareDelivers == IInv /\ DInv /\ Prepare => DInv'
<1> SUFFICES ASSUME IInv, DInv, Prepare PROVE DInv'
  OBVIOUS
<1> USE DEF IInv, DInv, TypeOK, db, acct, prep, down, send, ui, remote, history
<1>1. CASE PrepareStart
  <2> USE <1>1 DEF PrepareStart
  <2>1. Preparing'
    BY DEF Preparing, Unsent, Handles, HasMessage, AfterDelivery, Plain, Absent, Downloading,
       TypeDb, TypeHistory, TypeRemote, TypePrep, TypeUi, TypeSend, ServicesKnow, SenderKnows
  <2>2. Downloading'
    BY DEF Downloading, Absent, TypeDb, TypeHistory, TypeRemote, TypePrep, TypeUi, TypeSend,
       ServicesKnow, SenderKnows
  <2>3. NotFailed'
    BY DEF NotFailed, Handles, HasMessage, AfterDelivery, Plain, ErrorStates, Preparing, Unsent,
       Absent, TypeDb, TypeHistory, TypeRemote, TypePrep, TypeUi, TypeSend, ServicesKnow,
       SenderKnows
  <2>4. Complete'
    BY DEF Complete, CompleteDelivery, Plain, Preparing, Unsent, Handles, HasMessage, AfterDelivery,
       Absent, TypeDb, TypeHistory, TypeRemote, TypePrep, TypeUi, TypeSend, ServicesKnow,
       SenderKnows
  <2> QED BY <2>1, <2>2, <2>3, <2>4
<1>2. CASE PrepareInsert \/ PrepareInsertStub
  <2> USE <1>2 DEF PrepareInsert, PrepareInsertStub, Happens
  <2>1. Preparing'
    BY DEF Preparing, Unsent, Handles, HasMessage, AfterDelivery, Plain, Absent, Downloading,
       TypeDb, TypeHistory, TypeRemote, TypePrep, TypeUi, TypeSend, ServicesKnow, SenderKnows
  <2>2. Downloading'
    BY DEF Downloading, Absent, TypeDb, TypeHistory, TypeRemote, TypePrep, TypeUi, TypeSend,
       ServicesKnow, SenderKnows
  <2>3. NotFailed'
    BY DEF NotFailed, Handles, HasMessage, AfterDelivery, Plain, ErrorStates, Preparing, Unsent,
       Absent, TypeDb, TypeHistory, TypeRemote, TypePrep, TypeUi, TypeSend, ServicesKnow,
       SenderKnows
  <2>4. Complete'
    BY DEF Complete, CompleteDelivery, Plain, Preparing, Unsent, Handles, HasMessage, AfterDelivery,
       Absent, TypeDb, TypeHistory, TypeRemote, TypePrep, TypeUi, TypeSend, ServicesKnow,
       SenderKnows
  <2> QED BY <2>1, <2>2, <2>3, <2>4
<1>3. CASE PrepareCatch
  <2> USE <1>3 DEF PrepareCatch, PrepareEnd, Update
  <2>1. Preparing'
    BY DEF Preparing, Unsent, Handles, HasMessage, AfterDelivery, Plain, Absent, Downloading,
       TypeDb, TypeHistory, TypeRemote, TypePrep, TypeUi, TypeSend, ServicesKnow, SenderKnows
  <2>2. Downloading'
    BY DEF Downloading, Absent, TypeDb, TypeHistory, TypeRemote, TypePrep, TypeUi, TypeSend,
       ServicesKnow, SenderKnows
  <2>3. NotFailed'
    BY DEF NotFailed, Handles, HasMessage, AfterDelivery, Plain, ErrorStates, Preparing, Unsent,
       Absent, TypeDb, TypeHistory, TypeRemote, TypePrep, TypeUi, TypeSend, ServicesKnow,
       SenderKnows
  <2>4. Complete'
    BY DEF Complete, CompleteDelivery, Plain, Preparing, Unsent, Handles, HasMessage, AfterDelivery,
       Absent, TypeDb, TypeHistory, TypeRemote, TypePrep, TypeUi, TypeSend, ServicesKnow,
       SenderKnows
  <2> QED BY <2>1, <2>2, <2>3, <2>4
<1>4. CASE PrepareCache \/ PrepareCacheFails
  <2> USE <1>4 DEF PrepareCache, PrepareCacheFails, Happens
  <2>1. Preparing'
    BY DEF Preparing, Unsent, Handles, HasMessage, AfterDelivery, Plain, Absent, Downloading,
       TypeDb, TypeHistory, TypeRemote, TypePrep, TypeUi, TypeSend, ServicesKnow, SenderKnows
  <2>2. Downloading'
    BY DEF Downloading, Absent, TypeDb, TypeHistory, TypeRemote, TypePrep, TypeUi, TypeSend,
       ServicesKnow, SenderKnows
  <2>3. NotFailed'
    BY DEF NotFailed, Handles, HasMessage, AfterDelivery, Plain, ErrorStates, Preparing, Unsent,
       Absent, TypeDb, TypeHistory, TypeRemote, TypePrep, TypeUi, TypeSend, ServicesKnow,
       SenderKnows
  <2>4. Complete'
    BY DEF Complete, CompleteDelivery, Plain, Preparing, Unsent, Handles, HasMessage, AfterDelivery,
       Absent, TypeDb, TypeHistory, TypeRemote, TypePrep, TypeUi, TypeSend, ServicesKnow,
       SenderKnows
  <2> QED BY <2>1, <2>2, <2>3, <2>4
<1>5. CASE PrepareQueue
  <2> USE <1>5 DEF PrepareQueue, PrepareEnd, Update
  <2>1. Preparing'
    BY DEF Preparing, Unsent, Handles, HasMessage, AfterDelivery, Plain, Absent, Downloading,
       TypeDb, TypeHistory, TypeRemote, TypePrep, TypeUi, TypeSend, ServicesKnow, SenderKnows
  <2>2. Downloading'
    BY DEF Downloading, Absent, TypeDb, TypeHistory, TypeRemote, TypePrep, TypeUi, TypeSend,
       ServicesKnow, SenderKnows
  <2>3. NotFailed'
    BY DEF NotFailed, Handles, HasMessage, AfterDelivery, Plain, ErrorStates, Preparing, Unsent,
       Absent, TypeDb, TypeHistory, TypeRemote, TypePrep, TypeUi, TypeSend, ServicesKnow,
       SenderKnows
  <2>4. Complete'
    BY DEF Complete, CompleteDelivery, Plain, Preparing, Unsent, Handles, HasMessage, AfterDelivery,
       Absent, TypeDb, TypeHistory, TypeRemote, TypePrep, TypeUi, TypeSend, ServicesKnow,
       SenderKnows
  <2> QED BY <2>1, <2>2, <2>3, <2>4
<1> QED BY <1>1, <1>2, <1>3, <1>4, <1>5 DEF Prepare

\* Every step of Downloader preserves the invariant.
LEMMA DownloaderDelivers == IInv /\ DInv /\ Downloader => DInv'
<1> SUFFICES ASSUME IInv, DInv, Downloader PROVE DInv'
  OBVIOUS
<1> USE DEF IInv, DInv, TypeOK, db, acct, prep, down, send, ui, remote, history
<1>1. CASE DownloaderStart \/ DownloaderConnect \/ DownloaderConnectFails \/ DownloaderLoadFails \/
   DownloaderFinish
  <2> USE <1>1 DEF DownloaderStart, DownloaderConnect, DownloaderConnectFails, DownloaderLoadFails,
     DownloaderFinish, DownloaderEnd
  <2>1. Preparing'
    BY DEF Preparing, Unsent, Handles, HasMessage, AfterDelivery, Plain, Absent, Downloading,
       TypeDb, TypeHistory, TypeRemote, TypePrep, TypeUi, TypeSend, ServicesKnow, SenderKnows
  <2>2. Downloading'
    BY DEF Downloading, Absent, TypeDb, TypeHistory, TypeRemote, TypePrep, TypeUi, TypeSend,
       ServicesKnow, SenderKnows
  <2>3. NotFailed'
    BY DEF NotFailed, Handles, HasMessage, AfterDelivery, Plain, ErrorStates, Preparing, Unsent,
       Absent, TypeDb, TypeHistory, TypeRemote, TypePrep, TypeUi, TypeSend, ServicesKnow,
       SenderKnows
  <2>4. Complete'
    BY DEF Complete, CompleteDelivery, Plain, Preparing, Unsent, Handles, HasMessage, AfterDelivery,
       Absent, TypeDb, TypeHistory, TypeRemote, TypePrep, TypeUi, TypeSend, ServicesKnow,
       SenderKnows
  <2> QED BY <2>1, <2>2, <2>3, <2>4
<1>2. CASE DownloaderPick
  <2> USE <1>2 DEF DownloaderPick, InState
  <2>1. Preparing'
    BY DEF Preparing, Unsent, Handles, HasMessage, AfterDelivery, Plain, Absent, Downloading,
       TypeDb, TypeHistory, TypeRemote, TypePrep, TypeUi, TypeSend, ServicesKnow, SenderKnows
  <2>2. Downloading'
    BY DEF Downloading, Absent, TypeDb, TypeHistory, TypeRemote, TypePrep, TypeUi, TypeSend,
       ServicesKnow, SenderKnows
  <2>3. NotFailed'
    BY DEF NotFailed, Handles, HasMessage, AfterDelivery, Plain, ErrorStates, Preparing, Unsent,
       Absent, TypeDb, TypeHistory, TypeRemote, TypePrep, TypeUi, TypeSend, ServicesKnow,
       SenderKnows
  <2>4. Complete'
    BY DEF Complete, CompleteDelivery, Plain, Preparing, Unsent, Handles, HasMessage, AfterDelivery,
       Absent, TypeDb, TypeHistory, TypeRemote, TypePrep, TypeUi, TypeSend, ServicesKnow,
       SenderKnows
  <2> QED BY <2>1, <2>2, <2>3, <2>4
<1>3. CASE DownloaderNoAtts \/ DownloaderLoad
  <2> USE <1>3 DEF DownloaderNoAtts, DownloaderLoad, DownloaderStore
  <2>1. /\ \A u \in Uids : row'[u] = row[u] \/ (u = dUid /\ row[u] # Absent /\ row'[u] # "NEW_FORWARDED")
        /\ \A u \in Uids : atts'[u] = atts[u] \/ (u = dUid /\ (atts[u] = {} => atts'[u] = {}))
        /\ dUid \in Forward
    BY DEF Update, Downloaded, Downloading, TypeDb, ServicesKnow
  <2>2. Preparing'
    BY <2>1 DEF Preparing, Unsent, Handles, HasMessage, AfterDelivery, Plain, Absent, Downloading,
       TypeDb, TypeHistory, TypeRemote, TypePrep, TypeUi, TypeSend, ServicesKnow, SenderKnows
  <2>3. Downloading'
    BY <2>1 DEF Downloading, Absent, TypeDb, TypeHistory, TypeRemote, TypePrep, TypeUi, TypeSend,
       ServicesKnow, SenderKnows
  <2>4. NotFailed'
    BY <2>1 DEF NotFailed, Handles, HasMessage, AfterDelivery, Plain, ErrorStates, Preparing,
       Unsent, Absent, TypeDb, TypeHistory, TypeRemote, TypePrep, TypeUi, TypeSend, ServicesKnow,
       SenderKnows
  <2>5. Complete'
    BY <2>1 DEF Complete, CompleteDelivery, Plain, Preparing, Unsent, Handles, HasMessage,
       AfterDelivery, Absent, TypeDb, TypeHistory, TypeRemote, TypePrep, TypeUi, TypeSend,
       ServicesKnow, SenderKnows
  <2> QED BY <2>2, <2>3, <2>4, <2>5
<1> QED BY <1>1, <1>2, <1>3 DEF Downloader

\* Every step of Sender preserves the invariant.
LEMMA SenderDelivers == IInv /\ DInv /\ Sender => DInv'
<1> SUFFICES ASSUME IInv, DInv, Sender PROVE DInv'
  OBVIOUS
<1> USE DEF IInv, DInv, TypeOK, db, acct, prep, down, send, ui, remote, history
<1>1. CASE SenderConnect \/ SenderConnectFails \/ SenderNotSent
  <2> USE <1>1 DEF SenderConnect, SenderConnectFails, SenderNotSent, Goto, Throw, AfterQueue
  <2>1. Preparing'
    BY DEF Preparing, Unsent, Handles, HasMessage, AfterDelivery, Plain, Absent, Downloading,
       TypeDb, TypeHistory, TypeRemote, TypePrep, TypeUi, TypeSend, ServicesKnow, SenderKnows
  <2>2. Downloading'
    BY DEF Downloading, Absent, TypeDb, TypeHistory, TypeRemote, TypePrep, TypeUi, TypeSend,
       ServicesKnow, SenderKnows
  <2>3. NotFailed'
    BY DEF NotFailed, Handles, HasMessage, AfterDelivery, Plain, ErrorStates, Preparing, Unsent,
       Absent, TypeDb, TypeHistory, TypeRemote, TypePrep, TypeUi, TypeSend, ServicesKnow,
       SenderKnows
  <2>4. Complete'
    BY DEF Complete, CompleteDelivery, Plain, Preparing, Unsent, Handles, HasMessage, AfterDelivery,
       Absent, TypeDb, TypeHistory, TypeRemote, TypePrep, TypeUi, TypeSend, ServicesKnow,
       SenderKnows
  <2> QED BY <2>1, <2>2, <2>3, <2>4
<1>2. CASE SenderStart \/ SenderFinish \/ SenderFail
  <2> USE <1>2 DEF SenderStart, SenderFinish, SenderFail, SenderEnd, SenderIdle
  <2>1. Bulk(row, row')
    BY BulkFacts DEF TypeDb, Table, Bulk
  <2>2. Preparing'
    BY <2>1 DEF Preparing, Unsent, Handles, HasMessage, AfterDelivery, Plain, Absent, Downloading,
       TypeDb, TypeHistory, TypeRemote, TypePrep, TypeUi, TypeSend, ServicesKnow, SenderKnows, Bulk
  <2>3. Downloading'
    BY <2>1 DEF Downloading, Absent, TypeDb, TypeHistory, TypeRemote, TypePrep, TypeUi, TypeSend,
       ServicesKnow, SenderKnows, Bulk
  <2>4. NotFailed'
    BY <2>1 DEF NotFailed, Handles, HasMessage, AfterDelivery, Plain, ErrorStates, Preparing,
       Unsent, Absent, TypeDb, TypeHistory, TypeRemote, TypePrep, TypeUi, TypeSend, ServicesKnow,
       SenderKnows, Bulk
  <2>5. Complete'
    BY <2>1 DEF Complete, CompleteDelivery, Plain, Preparing, Unsent, Handles, HasMessage,
       AfterDelivery, Absent, TypeDb, TypeHistory, TypeRemote, TypePrep, TypeUi, TypeSend,
       ServicesKnow, SenderKnows, Bulk
  <2> QED BY <2>2, <2>3, <2>4, <2>5
<1>3. CASE SenderPick \/ SenderCopyPick
  <2> USE <1>3 DEF SenderPick, SenderCopyPick, Goto, AfterQueue, InState, CopyStates, ErrorStates
  <2>1. Preparing'
    BY DEF Preparing, Unsent, Handles, HasMessage, AfterDelivery, Plain, Absent, Downloading,
       TypeDb, TypeHistory, TypeRemote, TypePrep, TypeUi, TypeSend, ServicesKnow, SenderKnows
  <2>2. Downloading'
    BY DEF Downloading, Absent, TypeDb, TypeHistory, TypeRemote, TypePrep, TypeUi, TypeSend,
       ServicesKnow, SenderKnows
  <2>3. NotFailed'
    BY DEF NotFailed, Handles, HasMessage, AfterDelivery, Plain, ErrorStates, Preparing, Unsent,
       Absent, TypeDb, TypeHistory, TypeRemote, TypePrep, TypeUi, TypeSend, ServicesKnow,
       SenderKnows
  <2>4. Complete'
    BY DEF Complete, CompleteDelivery, Plain, Preparing, Unsent, Handles, HasMessage, AfterDelivery,
       Absent, TypeDb, TypeHistory, TypeRemote, TypePrep, TypeUi, TypeSend, ServicesKnow,
       SenderKnows
  <2> QED BY <2>1, <2>2, <2>3, <2>4
<1>4. CASE SenderMark \/ SenderCopyMark
  <2> USE <1>4 DEF SenderMark, SenderCopyMark, Goto
  <2>1. /\ ResetMsgsWithSendingState(row, sAcct) \in Table
        /\ Bulk(row, ResetMsgsWithSendingState(row, sAcct))
    BY BulkFacts, ResetFacts DEF TypeDb, Table
  <2>2. Preparing'
    BY <2>1 DEF Preparing, Unsent, Handles, HasMessage, AfterDelivery, Plain, Absent, Downloading,
       TypeDb, TypeHistory, TypeRemote, TypePrep, TypeUi, TypeSend, ServicesKnow, SenderKnows, Bulk,
       Update, Table
  <2>3. Downloading'
    BY <2>1 DEF Downloading, Absent, TypeDb, TypeHistory, TypeRemote, TypePrep, TypeUi, TypeSend,
       ServicesKnow, SenderKnows, Bulk, Update, Table
  <2>4. NotFailed'
    BY <2>1 DEF NotFailed, Handles, HasMessage, AfterDelivery, Plain, ErrorStates, Preparing,
       Unsent, Absent, TypeDb, TypeHistory, TypeRemote, TypePrep, TypeUi, TypeSend, ServicesKnow,
       SenderKnows, Bulk, Update, Table
  <2>5. Complete'
    BY <2>1 DEF Complete, CompleteDelivery, Plain, Preparing, Unsent, Handles, HasMessage,
       AfterDelivery, Absent, TypeDb, TypeHistory, TypeRemote, TypePrep, TypeUi, TypeSend,
       ServicesKnow, SenderKnows, Bulk, Update, Table
  <2> QED BY <2>2, <2>3, <2>4, <2>5
<1>5. CASE SenderReadAtts
  <2> USE <1>5 DEF SenderReadAtts
  <2>1. Preparing'
    BY DEF Preparing, Unsent, Handles, HasMessage, AfterDelivery, Plain, Absent, Downloading,
       TypeDb, TypeHistory, TypeRemote, TypePrep, TypeUi, TypeSend, ServicesKnow, SenderKnows
  <2>2. Downloading'
    BY DEF Downloading, Absent, TypeDb, TypeHistory, TypeRemote, TypePrep, TypeUi, TypeSend,
       ServicesKnow, SenderKnows
  <2>3. NotFailed'
    BY DEF NotFailed, Handles, HasMessage, AfterDelivery, Plain, ErrorStates, Preparing, Unsent,
       Absent, TypeDb, TypeHistory, TypeRemote, TypePrep, TypeUi, TypeSend, ServicesKnow,
       SenderKnows
  <2>4. Complete'
    BY DEF Complete, CompleteDelivery, Plain, Preparing, Unsent, Handles, HasMessage, AfterDelivery,
       Absent, TypeDb, TypeHistory, TypeRemote, TypePrep, TypeUi, TypeSend, ServicesKnow,
       SenderKnows
  <2> QED BY <2>1, <2>2, <2>3, <2>4
<1>6. CASE SenderSend \/ SenderSendFails
  <2> USE <1>6 DEF SenderSend, SenderSendFails, Goto, Throw, Deliver
  <2>1. Preparing'
    BY DEF Preparing, Unsent, Handles, HasMessage, AfterDelivery, Plain, Absent, Downloading,
       TypeDb, TypeHistory, TypeRemote, TypePrep, TypeUi, TypeSend, ServicesKnow, SenderKnows
  <2>2. Downloading'
    BY DEF Downloading, Absent, TypeDb, TypeHistory, TypeRemote, TypePrep, TypeUi, TypeSend,
       ServicesKnow, SenderKnows
  <2>3. NotFailed'
    BY DEF NotFailed, Handles, HasMessage, AfterDelivery, Plain, ErrorStates, Preparing, Unsent,
       Absent, TypeDb, TypeHistory, TypeRemote, TypePrep, TypeUi, TypeSend, ServicesKnow,
       SenderKnows
  <2>4. Complete'
    BY DEF Complete, CompleteDelivery, Plain, Preparing, Unsent, Handles, HasMessage, AfterDelivery,
       Absent, TypeDb, TypeHistory, TypeRemote, TypePrep, TypeUi, TypeSend, ServicesKnow,
       SenderKnows
  <2> QED BY <2>1, <2>2, <2>3, <2>4
<1>7. CASE SenderSent \/ SenderSaved
  <2> USE <1>7 DEF SenderSent, SenderSaved, Goto, Update
  <2>1. Preparing'
    BY DEF Preparing, Unsent, Handles, HasMessage, AfterDelivery, Plain, Absent, Downloading,
       TypeDb, TypeHistory, TypeRemote, TypePrep, TypeUi, TypeSend, ServicesKnow, SenderKnows
  <2>2. Downloading'
    BY DEF Downloading, Absent, TypeDb, TypeHistory, TypeRemote, TypePrep, TypeUi, TypeSend,
       ServicesKnow, SenderKnows
  <2>3. NotFailed'
    BY DEF NotFailed, Handles, HasMessage, AfterDelivery, Plain, ErrorStates, Preparing, Unsent,
       Absent, TypeDb, TypeHistory, TypeRemote, TypePrep, TypeUi, TypeSend, ServicesKnow,
       SenderKnows
  <2>4. Complete'
    BY DEF Complete, CompleteDelivery, Plain, Preparing, Unsent, Handles, HasMessage, AfterDelivery,
       Absent, TypeDb, TypeHistory, TypeRemote, TypePrep, TypeUi, TypeSend, ServicesKnow,
       SenderKnows
  <2> QED BY <2>1, <2>2, <2>3, <2>4
<1>8. CASE SenderAppend \/ SenderAppendFails \/ SenderCopyAppend \/ SenderCopyAppendFails
  <2> USE <1>8 DEF SenderAppend, SenderAppendFails, SenderCopyAppend, SenderCopyAppendFails, Goto,
     Throw, AppendCopy
  <2>1. Preparing'
    BY DEF Preparing, Unsent, Handles, HasMessage, AfterDelivery, Plain, Absent, Downloading,
       TypeDb, TypeHistory, TypeRemote, TypePrep, TypeUi, TypeSend, ServicesKnow, SenderKnows
  <2>2. Downloading'
    BY DEF Downloading, Absent, TypeDb, TypeHistory, TypeRemote, TypePrep, TypeUi, TypeSend,
       ServicesKnow, SenderKnows
  <2>3. NotFailed'
    BY DEF NotFailed, Handles, HasMessage, AfterDelivery, Plain, ErrorStates, Preparing, Unsent,
       Absent, TypeDb, TypeHistory, TypeRemote, TypePrep, TypeUi, TypeSend, ServicesKnow,
       SenderKnows
  <2>4. Complete'
    BY DEF Complete, CompleteDelivery, Plain, Preparing, Unsent, Handles, HasMessage, AfterDelivery,
       Absent, TypeDb, TypeHistory, TypeRemote, TypePrep, TypeUi, TypeSend, ServicesKnow,
       SenderKnows
  <2> QED BY <2>1, <2>2, <2>3, <2>4
<1>9. CASE SenderClean \/ SenderCopyClean
  <2> USE <1>9 DEF SenderClean, SenderCopyClean, Goto, DeleteRow
  <2>1. Preparing'
    BY DEF Preparing, Unsent, Handles, HasMessage, AfterDelivery, Plain, Absent, Downloading,
       TypeDb, TypeHistory, TypeRemote, TypePrep, TypeUi, TypeSend, ServicesKnow, SenderKnows
  <2>2. Downloading'
    BY DEF Downloading, Absent, TypeDb, TypeHistory, TypeRemote, TypePrep, TypeUi, TypeSend,
       ServicesKnow, SenderKnows
  <2>3. NotFailed'
    BY DEF NotFailed, Handles, HasMessage, AfterDelivery, Plain, ErrorStates, Preparing, Unsent,
       Absent, TypeDb, TypeHistory, TypeRemote, TypePrep, TypeUi, TypeSend, ServicesKnow,
       SenderKnows
  <2>4. Complete'
    BY DEF Complete, CompleteDelivery, Plain, Preparing, Unsent, Handles, HasMessage, AfterDelivery,
       Absent, TypeDb, TypeHistory, TypeRemote, TypePrep, TypeUi, TypeSend, ServicesKnow,
       SenderKnows
  <2> QED BY <2>1, <2>2, <2>3, <2>4
<1>10. CASE SenderCatch \/ SenderCopyCatch
  <2> USE <1>10 DEF SenderCatch, SenderCopyCatch, StateAfter, Goto, Update, DeleteRow
  <2>1. Preparing'
    BY DEF Preparing, Unsent, Handles, HasMessage, AfterDelivery, Plain, Absent, Downloading,
       TypeDb, TypeHistory, TypeRemote, TypePrep, TypeUi, TypeSend, ServicesKnow, SenderKnows
  <2>2. Downloading'
    BY DEF Downloading, Absent, TypeDb, TypeHistory, TypeRemote, TypePrep, TypeUi, TypeSend,
       ServicesKnow, SenderKnows
  <2>3. NotFailed'
    BY DEF NotFailed, Handles, HasMessage, AfterDelivery, Plain, ErrorStates, Preparing, Unsent,
       Absent, TypeDb, TypeHistory, TypeRemote, TypePrep, TypeUi, TypeSend, ServicesKnow,
       SenderKnows
  <2>4. Complete'
    BY DEF Complete, CompleteDelivery, Plain, Preparing, Unsent, Handles, HasMessage, AfterDelivery,
       Absent, TypeDb, TypeHistory, TypeRemote, TypePrep, TypeUi, TypeSend, ServicesKnow,
       SenderKnows
  <2> QED BY <2>1, <2>2, <2>3, <2>4
<1> QED BY <1>1, <1>2, <1>3, <1>4, <1>5, <1>6, <1>7, <1>8, <1>9, <1>10 DEF Sender

\* Every step of User preserves the invariant.
LEMMA UserDelivers == IInv /\ DInv /\ User => DInv'
<1> SUFFICES ASSUME IInv, DInv, User PROVE DInv'
  OBVIOUS
<1> USE DEF IInv, DInv, TypeOK, db, acct, prep, down, send, ui, remote, history
<1>1. ASSUME NEW u \in Uids, Compose(u) PROVE DInv'
  <2> USE <1>1 DEF Compose
  <2>1. atts[u] = {} /\ cached[u] = {}
    BY DEF Preparing
  <2>2. Preparing'
    BY <2>1 DEF Preparing, Unsent, Handles, HasMessage, AfterDelivery, Plain, Absent, Downloading,
       TypeDb, TypeHistory, TypeRemote, TypePrep, TypeUi, TypeSend, ServicesKnow, SenderKnows
  <2>3. Downloading'
    BY <2>1 DEF Downloading, Absent, TypeDb, TypeHistory, TypeRemote, TypePrep, TypeUi, TypeSend,
       ServicesKnow, SenderKnows
  <2>4. NotFailed'
    BY <2>1 DEF NotFailed, Handles, HasMessage, AfterDelivery, Plain, ErrorStates, Preparing,
       Unsent, Absent, TypeDb, TypeHistory, TypeRemote, TypePrep, TypeUi, TypeSend, ServicesKnow,
       SenderKnows
  <2>5. Complete'
    BY <2>1 DEF Complete, CompleteDelivery, Plain, Preparing, Unsent, Handles, HasMessage,
       AfterDelivery, Absent, TypeDb, TypeHistory, TypeRemote, TypePrep, TypeUi, TypeSend,
       ServicesKnow, SenderKnows
  <2> QED BY <2>2, <2>3, <2>4, <2>5
<1>2. ASSUME NEW u \in Uids, DeleteOutgoingMsg(u) PROVE DInv'
  <2> USE <1>2 DEF DeleteOutgoingMsg, DeleteRow
  <2>1. Preparing'
    BY DEF Preparing, Unsent, Handles, HasMessage, AfterDelivery, Plain, Absent, Downloading,
       TypeDb, TypeHistory, TypeRemote, TypePrep, TypeUi, TypeSend, ServicesKnow, SenderKnows
  <2>2. Downloading'
    BY DEF Downloading, Absent, TypeDb, TypeHistory, TypeRemote, TypePrep, TypeUi, TypeSend,
       ServicesKnow, SenderKnows
  <2>3. NotFailed'
    BY DEF NotFailed, Handles, HasMessage, AfterDelivery, Plain, ErrorStates, Preparing, Unsent,
       Absent, TypeDb, TypeHistory, TypeRemote, TypePrep, TypeUi, TypeSend, ServicesKnow,
       SenderKnows
  <2>4. Complete'
    BY DEF Complete, CompleteDelivery, Plain, Preparing, Unsent, Handles, HasMessage, AfterDelivery,
       Absent, TypeDb, TypeHistory, TypeRemote, TypePrep, TypeUi, TypeSend, ServicesKnow,
       SenderKnows
  <2> QED BY <2>1, <2>2, <2>3, <2>4
<1>3. ASSUME NEW u \in Uids, OpenDetails(u) PROVE DInv'
  <2> USE <1>3 DEF OpenDetails
  <2>1. Preparing'
    BY DEF Preparing, Unsent, Handles, HasMessage, AfterDelivery, Plain, Absent, Downloading,
       TypeDb, TypeHistory, TypeRemote, TypePrep, TypeUi, TypeSend, ServicesKnow, SenderKnows
  <2>2. Downloading'
    BY DEF Downloading, Absent, TypeDb, TypeHistory, TypeRemote, TypePrep, TypeUi, TypeSend,
       ServicesKnow, SenderKnows
  <2>3. NotFailed'
    BY DEF NotFailed, Handles, HasMessage, AfterDelivery, Plain, ErrorStates, Preparing, Unsent,
       Absent, TypeDb, TypeHistory, TypeRemote, TypePrep, TypeUi, TypeSend, ServicesKnow,
       SenderKnows
  <2>4. Complete'
    BY DEF Complete, CompleteDelivery, Plain, Preparing, Unsent, Handles, HasMessage, AfterDelivery,
       Absent, TypeDb, TypeHistory, TypeRemote, TypePrep, TypeUi, TypeSend, ServicesKnow,
       SenderKnows
  <2> QED BY <2>1, <2>2, <2>3, <2>4
<1>4. CASE CloseDetails \/ ClickForceSending \/ Launch \/ Logout
  <2> USE <1>4 DEF CloseDetails, ClickForceSending, Launch, Logout
  <2>1. Preparing'
    BY DEF Preparing, Unsent, Handles, HasMessage, AfterDelivery, Plain, Absent, Downloading,
       TypeDb, TypeHistory, TypeRemote, TypePrep, TypeUi, TypeSend, ServicesKnow, SenderKnows
  <2>2. Downloading'
    BY DEF Downloading, Absent, TypeDb, TypeHistory, TypeRemote, TypePrep, TypeUi, TypeSend,
       ServicesKnow, SenderKnows
  <2>3. NotFailed'
    BY DEF NotFailed, Handles, HasMessage, AfterDelivery, Plain, ErrorStates, Preparing, Unsent,
       Absent, TypeDb, TypeHistory, TypeRemote, TypePrep, TypeUi, TypeSend, ServicesKnow,
       SenderKnows
  <2>4. Complete'
    BY DEF Complete, CompleteDelivery, Plain, Preparing, Unsent, Handles, HasMessage, AfterDelivery,
       Absent, TypeDb, TypeHistory, TypeRemote, TypePrep, TypeUi, TypeSend, ServicesKnow,
       SenderKnows
  <2> QED BY <2>1, <2>2, <2>3, <2>4
<1>5. ASSUME NEW a \in Accounts, SwitchAccount(a) PROVE DInv'
  <2> USE <1>5 DEF SwitchAccount
  <2>1. Preparing'
    BY DEF Preparing, Unsent, Handles, HasMessage, AfterDelivery, Plain, Absent, Downloading,
       TypeDb, TypeHistory, TypeRemote, TypePrep, TypeUi, TypeSend, ServicesKnow, SenderKnows
  <2>2. Downloading'
    BY DEF Downloading, Absent, TypeDb, TypeHistory, TypeRemote, TypePrep, TypeUi, TypeSend,
       ServicesKnow, SenderKnows
  <2>3. NotFailed'
    BY DEF NotFailed, Handles, HasMessage, AfterDelivery, Plain, ErrorStates, Preparing, Unsent,
       Absent, TypeDb, TypeHistory, TypeRemote, TypePrep, TypeUi, TypeSend, ServicesKnow,
       SenderKnows
  <2>4. Complete'
    BY DEF Complete, CompleteDelivery, Plain, Preparing, Unsent, Handles, HasMessage, AfterDelivery,
       Absent, TypeDb, TypeHistory, TypeRemote, TypePrep, TypeUi, TypeSend, ServicesKnow,
       SenderKnows
  <2> QED BY <2>1, <2>2, <2>3, <2>4
<1>6. ASSUME NEW u \in Uids, Retry(u) PROVE DInv'
  <2> USE <1>6 DEF Retry
  <2>1. Preparing'
    BY DEF Preparing, Unsent, Handles, HasMessage, AfterDelivery, Plain, Absent, Downloading,
       TypeDb, TypeHistory, TypeRemote, TypePrep, TypeUi, TypeSend, ServicesKnow, SenderKnows
  <2>2. Downloading'
    BY DEF Downloading, Absent, TypeDb, TypeHistory, TypeRemote, TypePrep, TypeUi, TypeSend,
       ServicesKnow, SenderKnows
  <2>3. NotFailed'
    BY DEF NotFailed, Handles, HasMessage, AfterDelivery, Plain, ErrorStates, Preparing, Unsent,
       Absent, TypeDb, TypeHistory, TypeRemote, TypePrep, TypeUi, TypeSend, ServicesKnow,
       SenderKnows
  <2>4. Complete'
    BY DEF Complete, CompleteDelivery, Plain, Preparing, Unsent, Handles, HasMessage, AfterDelivery,
       Absent, TypeDb, TypeHistory, TypeRemote, TypePrep, TypeUi, TypeSend, ServicesKnow,
       SenderKnows
  <2> QED BY <2>1, <2>2, <2>3, <2>4
<1>7. CASE DeleteFromDetails
  <2> USE <1>7 DEF DeleteFromDetails, DeleteRow
  <2>1. Preparing'
    BY DEF Preparing, Unsent, Handles, HasMessage, AfterDelivery, Plain, Absent, Downloading,
       TypeDb, TypeHistory, TypeRemote, TypePrep, TypeUi, TypeSend, ServicesKnow, SenderKnows
  <2>2. Downloading'
    BY DEF Downloading, Absent, TypeDb, TypeHistory, TypeRemote, TypePrep, TypeUi, TypeSend,
       ServicesKnow, SenderKnows
  <2>3. NotFailed'
    BY DEF NotFailed, Handles, HasMessage, AfterDelivery, Plain, ErrorStates, Preparing, Unsent,
       Absent, TypeDb, TypeHistory, TypeRemote, TypePrep, TypeUi, TypeSend, ServicesKnow,
       SenderKnows
  <2>4. Complete'
    BY DEF Complete, CompleteDelivery, Plain, Preparing, Unsent, Handles, HasMessage, AfterDelivery,
       Absent, TypeDb, TypeHistory, TypeRemote, TypePrep, TypeUi, TypeSend, ServicesKnow,
       SenderKnows
  <2> QED BY <2>1, <2>2, <2>3, <2>4
<1>8. ASSUME NEW p \in retries, ChangeState(p[1], p[2]) PROVE DInv'
  <2> USE <1>8 DEF ChangeState, Update
  <2>1. Preparing'
    BY DEF Preparing, Unsent, Handles, HasMessage, AfterDelivery, Plain, Absent, Downloading,
       TypeDb, TypeHistory, TypeRemote, TypePrep, TypeUi, TypeSend, ServicesKnow, SenderKnows
  <2>2. Downloading'
    BY DEF Downloading, Absent, TypeDb, TypeHistory, TypeRemote, TypePrep, TypeUi, TypeSend,
       ServicesKnow, SenderKnows
  <2>3. NotFailed'
    BY DEF NotFailed, Handles, HasMessage, AfterDelivery, Plain, ErrorStates, Preparing, Unsent,
       Absent, TypeDb, TypeHistory, TypeRemote, TypePrep, TypeUi, TypeSend, ServicesKnow,
       SenderKnows
  <2>4. Complete'
    BY DEF Complete, CompleteDelivery, Plain, Preparing, Unsent, Handles, HasMessage, AfterDelivery,
       Absent, TypeDb, TypeHistory, TypeRemote, TypePrep, TypeUi, TypeSend, ServicesKnow,
       SenderKnows
  <2> QED BY <2>1, <2>2, <2>3, <2>4
<1>9. CASE ForceSending \/ ReAuthenticated
  <2> USE <1>9 DEF ForceSending, ReAuthenticated, CancelSender, SenderIdle
  <2>1. Bulk(row, row')
    BY BulkFacts DEF TypeDb, Table
  <2>2. Preparing'
    BY <2>1 DEF Preparing, Unsent, Handles, HasMessage, AfterDelivery, Plain, Absent, Downloading,
       TypeDb, TypeHistory, TypeRemote, TypePrep, TypeUi, TypeSend, ServicesKnow, SenderKnows, Bulk
  <2>3. Downloading'
    BY <2>1 DEF Downloading, Absent, TypeDb, TypeHistory, TypeRemote, TypePrep, TypeUi, TypeSend,
       ServicesKnow, SenderKnows, Bulk
  <2>4. NotFailed'
    BY <2>1 DEF NotFailed, Handles, HasMessage, AfterDelivery, Plain, ErrorStates, Preparing,
       Unsent, Absent, TypeDb, TypeHistory, TypeRemote, TypePrep, TypeUi, TypeSend, ServicesKnow,
       SenderKnows, Bulk
  <2>5. Complete'
    BY <2>1 DEF Complete, CompleteDelivery, Plain, Preparing, Unsent, Handles, HasMessage,
       AfterDelivery, Absent, TypeDb, TypeHistory, TypeRemote, TypePrep, TypeUi, TypeSend,
       ServicesKnow, SenderKnows, Bulk
  <2> QED BY <2>2, <2>3, <2>4, <2>5
<1>10. CASE LogoutDeleteRows
  <2> USE <1>10 DEF LogoutDeleteRows, InState
  <2>1. Preparing'
    BY DEF Preparing, Unsent, Handles, HasMessage, AfterDelivery, Plain, Absent, Downloading,
       TypeDb, TypeHistory, TypeRemote, TypePrep, TypeUi, TypeSend, ServicesKnow, SenderKnows
  <2>2. Downloading'
    BY DEF Downloading, Absent, TypeDb, TypeHistory, TypeRemote, TypePrep, TypeUi, TypeSend,
       ServicesKnow, SenderKnows
  <2>3. NotFailed'
    BY DEF NotFailed, Handles, HasMessage, AfterDelivery, Plain, ErrorStates, Preparing, Unsent,
       Absent, TypeDb, TypeHistory, TypeRemote, TypePrep, TypeUi, TypeSend, ServicesKnow,
       SenderKnows
  <2>4. Complete'
    BY DEF Complete, CompleteDelivery, Plain, Preparing, Unsent, Handles, HasMessage, AfterDelivery,
       Absent, TypeDb, TypeHistory, TypeRemote, TypePrep, TypeUi, TypeSend, ServicesKnow,
       SenderKnows
  <2> QED BY <2>1, <2>2, <2>3, <2>4
<1> QED BY <1>1, <1>2, <1>3, <1>4, <1>5, <1>6, <1>7, <1>8, <1>9, <1>10 DEF User

\* Every step of Device preserves the invariant.
LEMMA DeviceDelivers == IInv /\ DInv /\ Device => DInv'
<1> SUFFICES ASSUME IInv, DInv, Device PROVE DInv'
  OBVIOUS
<1> USE DEF IInv, DInv, TypeOK, db, acct, prep, down, send, ui, remote, history
<1>1. CASE StopSender
  <2> USE <1>1 DEF StopSender, CancelSender, SenderIdle
  <2>1. Preparing'
    BY DEF Preparing, Unsent, Handles, HasMessage, AfterDelivery, Plain, Absent, Downloading,
       TypeDb, TypeHistory, TypeRemote, TypePrep, TypeUi, TypeSend, ServicesKnow, SenderKnows
  <2>2. Downloading'
    BY DEF Downloading, Absent, TypeDb, TypeHistory, TypeRemote, TypePrep, TypeUi, TypeSend,
       ServicesKnow, SenderKnows
  <2>3. NotFailed'
    BY DEF NotFailed, Handles, HasMessage, AfterDelivery, Plain, ErrorStates, Preparing, Unsent,
       Absent, TypeDb, TypeHistory, TypeRemote, TypePrep, TypeUi, TypeSend, ServicesKnow,
       SenderKnows
  <2>4. Complete'
    BY DEF Complete, CompleteDelivery, Plain, Preparing, Unsent, Handles, HasMessage, AfterDelivery,
       Absent, TypeDb, TypeHistory, TypeRemote, TypePrep, TypeUi, TypeSend, ServicesKnow,
       SenderKnows
  <2> QED BY <2>1, <2>2, <2>3, <2>4
<1>2. CASE StopDownloader \/ Connectivity
  <2> USE <1>2 DEF StopDownloader, DownloaderEnd, Connectivity
  <2>1. Preparing'
    BY DEF Preparing, Unsent, Handles, HasMessage, AfterDelivery, Plain, Absent, Downloading,
       TypeDb, TypeHistory, TypeRemote, TypePrep, TypeUi, TypeSend, ServicesKnow, SenderKnows
  <2>2. Downloading'
    BY DEF Downloading, Absent, TypeDb, TypeHistory, TypeRemote, TypePrep, TypeUi, TypeSend,
       ServicesKnow, SenderKnows
  <2>3. NotFailed'
    BY DEF NotFailed, Handles, HasMessage, AfterDelivery, Plain, ErrorStates, Preparing, Unsent,
       Absent, TypeDb, TypeHistory, TypeRemote, TypePrep, TypeUi, TypeSend, ServicesKnow,
       SenderKnows
  <2>4. Complete'
    BY DEF Complete, CompleteDelivery, Plain, Preparing, Unsent, Handles, HasMessage, AfterDelivery,
       Absent, TypeDb, TypeHistory, TypeRemote, TypePrep, TypeUi, TypeSend, ServicesKnow,
       SenderKnows
  <2> QED BY <2>1, <2>2, <2>3, <2>4
<1>3. CASE Crash
  <2> USE <1>3 DEF Crash, SenderIdle
  <2>1. Preparing'
    BY DEF Preparing, Unsent, Handles, HasMessage, AfterDelivery, Plain, Absent, Downloading,
       TypeDb, TypeHistory, TypeRemote, TypePrep, TypeUi, TypeSend, ServicesKnow, SenderKnows
  <2>2. Downloading'
    BY DEF Downloading, Absent, TypeDb, TypeHistory, TypeRemote, TypePrep, TypeUi, TypeSend,
       ServicesKnow, SenderKnows
  <2>3. NotFailed'
    BY DEF NotFailed, Handles, HasMessage, AfterDelivery, Plain, ErrorStates, Preparing, Unsent,
       Absent, TypeDb, TypeHistory, TypeRemote, TypePrep, TypeUi, TypeSend, ServicesKnow,
       SenderKnows
  <2>4. Complete'
    BY DEF Complete, CompleteDelivery, Plain, Preparing, Unsent, Handles, HasMessage, AfterDelivery,
       Absent, TypeDb, TypeHistory, TypeRemote, TypePrep, TypeUi, TypeSend, ServicesKnow,
       SenderKnows
  <2> QED BY <2>1, <2>2, <2>3, <2>4
<1>4. ASSUME NEW z \in zombies, ZombieCall(z) PROVE DInv'
  <2> USE <1>4 DEF ZombieCall, Deliver, AppendCopy
  <2>1. Preparing'
    BY DEF Preparing, Unsent, Handles, HasMessage, AfterDelivery, Plain, Absent, Downloading,
       TypeDb, TypeHistory, TypeRemote, TypePrep, TypeUi, TypeSend, ServicesKnow, SenderKnows
  <2>2. Downloading'
    BY DEF Downloading, Absent, TypeDb, TypeHistory, TypeRemote, TypePrep, TypeUi, TypeSend,
       ServicesKnow, SenderKnows
  <2>3. NotFailed'
    BY DEF NotFailed, Handles, HasMessage, AfterDelivery, Plain, ErrorStates, Preparing, Unsent,
       Absent, TypeDb, TypeHistory, TypeRemote, TypePrep, TypeUi, TypeSend, ServicesKnow,
       SenderKnows
  <2>4. Complete'
    BY DEF Complete, CompleteDelivery, Plain, Preparing, Unsent, Handles, HasMessage, AfterDelivery,
       Absent, TypeDb, TypeHistory, TypeRemote, TypePrep, TypeUi, TypeSend, ServicesKnow,
       SenderKnows
  <2> QED BY <2>1, <2>2, <2>3, <2>4
<1> QED BY <1>1, <1>2, <1>3, <1>4 DEF Device

-----------------------------------------------------------------------------
(* Complete deliveries, and messages that have failed *)

LEMMA DeliveryInit == Init => DInv
<1> SUFFICES ASSUME Init PROVE DInv
  OBVIOUS
<1> USE DEF Init
<1>1. Preparing BY DEF Preparing, Unsent, Handles, HasMessage, AfterDelivery, Plain
<1>2. Downloading BY DEF Downloading, Absent
<1>3. NotFailed BY DEF NotFailed, Handles, HasMessage, AfterDelivery
<1>4. Complete BY DEF Complete, CompleteDelivery, Plain
<1> QED BY <1>1, <1>2, <1>3, <1>4 DEF DInv

LEMMA DeliveryStep == IInv /\ DInv /\ [Next]_vars => DInv'
<1> SUFFICES ASSUME IInv, DInv, [Next]_vars PROVE DInv'
  OBVIOUS
<1>1. CASE Next
  BY <1>1, PrepareDelivers, DownloaderDelivers, SenderDelivers, UserDelivers, DeviceDelivers DEF Next
<1>2. CASE UNCHANGED vars
  <2> USE <1>2 DEF DInv, vars, db, prep, down, send, ui, remote, history
  <2>1. (Preparing /\ Downloading)' BY DEF Preparing, Unsent, Handles, Downloading
  <2>2. (NotFailed /\ Complete)' BY DEF NotFailed, Handles, Complete, CompleteDelivery
  <2> QED BY <2>1, <2>2
<1> QED BY <1>1, <1>2

\* The recipients of a message that is not a forward get everything that was put in the cache
\* for it, also from a sender that was cancelled, and whatever other services do to its rows.
THEOREM DeliveriesAreComplete == Spec => []CompleteDelivery
<1>1. DInv => CompleteDelivery
  BY DEF DInv, Complete
<1> QED BY <1>1, DeliveryInit, DeliveryStep, Invariance, PTL DEF Spec

LEMMA LeftAlone ==
  ASSUME IInv, DInv, Next, NEW u \in Plain, row[u] \in ErrorStates
  PROVE  row'[u] \in {row[u], Absent} \/ <<u, row'[u]>> \in retries
<1> DEFINE Goal == row'[u] \in {row[u], Absent} \/ <<u, row'[u]>> \in retries
<1>1. u \notin jobs /\ (pPc # "idle" => pUid # u)
  BY DEF DInv, Preparing, Unsent, ErrorStates, Absent
<1>2. ~Handles(u)
  BY DEF DInv, NotFailed
<1>3. dPc \in {"noAtts", "load"} => dUid # u
  BY DEF DInv, Downloading, Plain
<1>4. u \in Uids /\ row \in Table
  BY DEF Plain, IInv, TypeOK, TypeDb, Table
<1>5. ASSUME NEW v, NEW t, v # u PROVE Update(row, v, t)[u] = row[u]
  BY <1>4, <1>5 DEF Update, Table
<1>6. ASSUME NEW v, DeleteRow(v) PROVE Goal
  BY <1>4, <1>6 DEF DeleteRow, Table
<1>7. ASSUME NEW t, Bulk(row, t) PROVE t[u] = row[u]
  BY <1>4, <1>7 DEF Bulk, ErrorStates
<1>8. CASE Prepare
  <2>1. CASE PrepareInsert \/ PrepareInsertStub
    BY <1>1, <1>4, <2>1 DEF PrepareInsert, PrepareInsertStub, Table
  <2>2. CASE PrepareCatch \/ PrepareQueue
    BY <1>1, <1>5, <2>2 DEF PrepareCatch, PrepareQueue
  <2>3. CASE PrepareStart \/ PrepareCache \/ PrepareCacheFails
    BY <2>3 DEF PrepareStart, PrepareCache, PrepareCacheFails, db
  <2> QED BY <1>8, <2>1, <2>2, <2>3 DEF Prepare
<1>9. CASE Downloader
  <2>1. CASE DownloaderNoAtts \/ DownloaderLoad
    BY <1>3, <1>5, <2>1 DEF DownloaderNoAtts, DownloaderLoad, DownloaderStore
  <2>2. CASE ~(DownloaderNoAtts \/ DownloaderLoad)
    BY <1>9, <2>2 DEF Downloader, DownloaderStart, DownloaderConnect, DownloaderConnectFails,
       DownloaderPick, DownloaderLoadFails, DownloaderFinish, db
  <2> QED BY <2>1, <2>2
<1>10. CASE Sender
  <2>1. CASE SenderStart \/ SenderFinish \/ SenderFail
    BY <1>4, <1>7, <2>1, BulkFacts DEF SenderStart, SenderFinish, SenderFail
  <2>2. CASE SenderMark \/ SenderCopyMark
    <3>1. sUid # u
      BY <1>2, <2>2 DEF Handles, HasMessage, AfterDelivery, SenderMark, SenderCopyMark
    <3>2. ResetMsgsWithSendingState(row, sAcct)[u] = row[u]
      BY <1>4, <1>7, BulkFacts
    <3>3. ResetMsgsWithSendingState(row, sAcct) \in Table
      BY <1>4, ResetFacts
    <3> QED BY <1>4, <2>2, <3>1, <3>2, <3>3 DEF SenderMark, SenderCopyMark, Update, Table
  <2>3. CASE SenderSent \/ SenderSaved \/ SenderCatch
    <3>1. sUid # u
      BY <1>2, <2>3 DEF Handles, HasMessage, AfterDelivery, SenderSent, SenderSaved, SenderCatch
    <3> QED BY <1>5, <2>3, <3>1 DEF SenderSent, SenderSaved, SenderCatch
  <2>4. CASE SenderClean \/ SenderCopyClean
    BY <1>6, <2>4 DEF SenderClean, SenderCopyClean, db
  <2>5. CASE SenderCopyCatch
    <3>1. sUid # u
      BY <1>2, <2>5 DEF Handles, HasMessage, AfterDelivery, SenderCopyCatch
    <3> QED BY <1>5, <1>6, <2>5, <3>1 DEF SenderCopyCatch
  <2>6. CASE \/ SenderConnect \/ SenderConnectFails \/ SenderPick \/ SenderReadAtts \/ SenderSend
             \/ SenderNotSent \/ SenderSendFails \/ SenderAppend \/ SenderAppendFails
             \/ SenderCopyPick \/ SenderCopyAppend \/ SenderCopyAppendFails
    BY <2>6 DEF SenderConnect, SenderConnectFails, SenderPick, SenderReadAtts, SenderSend,
       SenderNotSent, SenderSendFails, SenderAppend, SenderAppendFails, SenderCopyPick,
       SenderCopyAppend, SenderCopyAppendFails, db
  <2> QED BY <1>10, <2>1, <2>2, <2>3, <2>4, <2>5, <2>6 DEF Sender
<1>11. CASE User
  <2>1. CASE DeleteFromDetails \/ \E v \in Uids : DeleteOutgoingMsg(v)
    BY <1>6, <2>1 DEF DeleteFromDetails, DeleteOutgoingMsg
  <2>2. ASSUME NEW p \in retries, ChangeState(p[1], p[2]) PROVE Goal
    BY <1>4, <1>5, <2>2 DEF ChangeState, Update, Table
  <2>3. CASE ForceSending \/ ReAuthenticated
    BY <1>4, <1>7, <2>3, BulkFacts DEF ForceSending, ReAuthenticated
  <2>4. CASE LogoutDeleteRows
    BY <1>4, <2>4 DEF LogoutDeleteRows
  <2>5. CASE \/ \E v \in Uids : Compose(v) \/ OpenDetails(v) \/ Retry(v)
             \/ CloseDetails \/ ClickForceSending \/ Launch
             \/ (\E a \in Accounts : SwitchAccount(a)) \/ Logout
    BY <2>5 DEF Compose, OpenDetails, Retry, CloseDetails, ClickForceSending, Launch, SwitchAccount,
       Logout, db
  <2> QED BY <1>11, <2>1, <2>2, <2>3, <2>4, <2>5 DEF User
<1>12. CASE Device
  BY <1>12 DEF Device, StopSender, StopDownloader, Connectivity, Crash, ZombieCall, db
<1> QED BY <1>8, <1>9, <1>10, <1>11, <1>12 DEF Next

\* No service, worker or cancelled call changes the state of a failed message that is not a
\* forward, until the user retries or deletes it.
THEOREM FailedIsLeftAlone == Spec => FailedStaysFailed
<1> DEFINE Alone == \A u \in Uids \ Forward :
                      row[u] \in ErrorStates => \/ row'[u] \in {row[u], Absent}
                                                \/ <<u, row'[u]>> \in retries
<1>1. IInv /\ DInv /\ [Next]_vars => [Alone]_vars
  BY LeftAlone DEF Plain
<1> QED BY <1>1, DeliveryInit, DeliveryStep, Invariance, PTL DEF Spec, FailedStaysFailed

-----------------------------------------------------------------------------
(* One delivery *)

LEMMA RunningStep == IInv /\ Running /\ [Next]_vars => Running'
<1> SUFFICES ASSUME IInv, Running, [Next]_vars PROVE Running'
  OBVIOUS
<1>1. work \in [Workers -> {"none", "enqueued", "running"}] /\ "sender" \in Workers
  BY DEF IInv, TypeOK, TypeWork, Workers
<1>2. \A W : EnqueueKeep(W)["sender"] = "running" <=> work["sender"] = "running"
  BY <1>1 DEF EnqueueKeep
<1> USE <1>1, <1>2 DEF Running
<1>3. CASE Prepare
  BY <1>3 DEF Prepare, PrepareStart, PrepareInsert, PrepareInsertStub, PrepareCatch, PrepareCache,
     PrepareCacheFails, PrepareQueue, send
<1>4. CASE Downloader
  BY <1>4 DEF Downloader, DownloaderStart, DownloaderConnect, DownloaderConnectFails, DownloaderPick,
     DownloaderNoAtts, DownloaderLoad, DownloaderStore, DownloaderLoadFails, DownloaderFinish,
     DownloaderEnd, send
<1>5. CASE Sender
  <2>1. CASE SenderStart \/ SenderFinish \/ SenderFail
    BY <2>1 DEF SenderStart, SenderFinish, SenderFail, SenderEnd, SenderIdle
  <2>2. CASE ~ (SenderStart \/ SenderFinish \/ SenderFail)
    BY <1>5, <2>2 DEF Sender, SenderConnect, SenderConnectFails, SenderPick, SenderMark,
       SenderReadAtts, SenderSend, SenderNotSent, SenderSendFails, SenderSent, SenderAppend,
       SenderAppendFails, SenderSaved, SenderClean, SenderCatch, SenderCopyPick, SenderCopyMark,
       SenderCopyAppend, SenderCopyAppendFails, SenderCopyClean, SenderCopyCatch
  <2> QED BY <2>1, <2>2
<1>6. CASE User
  BY <1>6 DEF User, Compose, DeleteOutgoingMsg, OpenDetails, Retry, DeleteFromDetails, CloseDetails,
     ChangeState, ClickForceSending, ForceSending, CancelSender, SenderIdle, ReAuthenticated, Launch,
     SwitchAccount, Logout, LogoutDeleteRows, send
<1>7. CASE Device
  BY <1>7 DEF Device, StopSender, CancelSender, SenderIdle, StopDownloader, DownloaderEnd,
     Connectivity, Crash, ZombieCall, send
<1>8. CASE UNCHANGED vars
  BY <1>8 DEF vars, send
<1> QED BY <1>3, <1>4, <1>5, <1>6, <1>7, <1>8 DEF Next

\* Events are counted.
LEMMA EnvStep == IInv /\ [Next]_vars => env' = env \/ env' = env + 1
<1> SUFFICES ASSUME IInv, [Next]_vars PROVE env' = env \/ env' = env + 1
  OBVIOUS
<1>1. CASE Prepare
  BY <1>1 DEF Prepare, PrepareStart, PrepareInsert, PrepareInsertStub, PrepareCatch, PrepareCache,
     PrepareCacheFails, PrepareQueue, Happens
<1>2. CASE Downloader
  BY <1>2 DEF Downloader, DownloaderStart, DownloaderConnect, DownloaderConnectFails, DownloaderPick,
     DownloaderNoAtts, DownloaderLoad, DownloaderLoadFails, DownloaderFinish, Happens
<1>3. CASE Sender
  BY <1>3 DEF Sender, SenderStart, SenderFinish, SenderFail, SenderConnect, SenderConnectFails,
     SenderPick, SenderMark, SenderReadAtts, SenderSend, SenderNotSent, SenderSendFails, SenderSent,
     SenderAppend, SenderAppendFails, SenderSaved, SenderClean, SenderCatch, SenderCopyPick,
     SenderCopyMark, SenderCopyAppend, SenderCopyAppendFails, SenderCopyClean, SenderCopyCatch,
     CallFails, Happens
<1>4. CASE User
  BY <1>4 DEF User, Compose, DeleteOutgoingMsg, OpenDetails, Retry, DeleteFromDetails, CloseDetails,
     ChangeState, ClickForceSending, ForceSending, ReAuthenticated, Launch, SwitchAccount, Logout,
     LogoutDeleteRows, Allowed, Happens
<1>5. CASE Device
  BY <1>5 DEF Device, StopSender, StopDownloader, Connectivity, Crash, ZombieCall, Happens
<1>6. CASE UNCHANGED vars
  BY <1>6 DEF vars
<1> QED BY <1>1, <1>2, <1>3, <1>4, <1>5, <1>6 DEF Next

\* What nothing has disturbed stays undisturbed while no event happens.
LEMMA UndisturbedStep ==
  ASSUME IInv, Undisturbed, Next, env' = env
  PROVE  Undisturbed'
<1>1. \A e : ~Happens(e)
  BY DEF Happens, IInv, TypeOK, TypeEnv
<1> USE DEF Undisturbed
<1>2. CASE Prepare
  BY <1>2 DEF Prepare, PrepareStart, PrepareInsert, PrepareInsertStub, PrepareCatch, PrepareCache,
     PrepareCacheFails, PrepareQueue, ui, remote
<1>3. CASE Downloader
  BY <1>3 DEF Downloader, DownloaderStart, DownloaderConnect, DownloaderConnectFails, DownloaderPick,
     DownloaderNoAtts, DownloaderLoad, DownloaderLoadFails, DownloaderFinish, ui, remote
<1>4. CASE Sender
  BY <1>4 DEF Sender, SenderStart, SenderFinish, SenderFail, SenderConnect, SenderConnectFails,
     SenderPick, SenderMark, SenderReadAtts, SenderSend, SenderNotSent, SenderSendFails, SenderSent,
     SenderAppend, SenderAppendFails, SenderSaved, SenderClean, SenderCatch, SenderCopyPick,
     SenderCopyMark, SenderCopyAppend, SenderCopyAppendFails, SenderCopyClean, SenderCopyCatch,
     ui, remote
<1>5. CASE User
  BY <1>1, <1>5 DEF User, Compose, DeleteOutgoingMsg, OpenDetails, Retry, DeleteFromDetails,
     CloseDetails, ChangeState, ClickForceSending, ForceSending, ReAuthenticated, Launch,
     SwitchAccount, Logout, LogoutDeleteRows, ui, remote
<1>6. CASE Device
  BY <1>1, <1>6 DEF Device, StopSender, StopDownloader, Connectivity, Crash, ZombieCall, ui, remote
<1> QED BY <1>2, <1>3, <1>4, <1>5, <1>6 DEF Next

\* Where a message stands tells how often it was delivered, as long as nothing disturbs.
LEMMA CountStep ==
  ASSUME IInv, DInv, Running, Undisturbed, Next, env' = env, Flaky = {}, NEW u \in Plain, Counted(u)
  PROVE  Counted(u)'
<1>1. \A e : ~Happens(e)
  BY DEF Happens, IInv, TypeOK, TypeEnv
<1>2. \A v : ~CallFails(v)
  BY <1>1 DEF CallFails, Undisturbed
<1>3. /\ u \in Uids /\ row \in Table /\ delivered \in [Uids -> Nat] /\ copies \in [Uids -> Nat]
      /\ online /\ retries = {} /\ zombies = {} /\ ~force
  BY DEF Plain, IInv, TypeOK, TypeDb, TypeRemote, Table, Undisturbed
<1>4. u \in jobs => Unsent(u)
  BY DEF DInv, Preparing
<1>5. pPc # "idle" => pUid \in jobs
  BY DEF DInv, Preparing
<1>6. dPc \in {"noAtts", "load"} => dUid # u
  BY DEF DInv, Downloading, Plain
<1> USE <1>3 DEF Counted, CopyStates, Absent
<1>7. CASE Prepare
  <2>1. CASE PrepareInsert \/ PrepareInsertStub \/ PrepareCatch \/ PrepareQueue
    <3>1. /\ UNCHANGED <<delivered, copies, sPc, sUid>>
          /\ row'[u] = row[u] \/ (pUid = u /\ row'[u] \notin {"SENDING"} \cup CopyStates)
      BY <2>1 DEF PrepareInsert, PrepareInsertStub, PrepareCatch, PrepareQueue, Update, Table, send,
         remote, db
    <3>2. pUid = u => delivered[u] = 0 /\ copies[u] = 0 /\ ~(sPc \in HasMessage /\ sUid = u)
      BY <1>4, <1>5, <2>1 DEF PrepareInsert, PrepareInsertStub, PrepareCatch, PrepareQueue, Unsent,
         Handles
    <3> QED BY <3>1, <3>2 DEF HasMessage, AfterDelivery
  <2>2. CASE PrepareStart \/ PrepareCache \/ PrepareCacheFails
    BY <2>2 DEF PrepareStart, PrepareCache, PrepareCacheFails, db, send, remote
  <2> QED BY <1>7, <2>1, <2>2 DEF Prepare
<1>8. CASE Downloader
  <2>1. CASE DownloaderNoAtts \/ DownloaderLoad
    <3>1. row'[u] = row[u]
      BY <1>6, <2>1 DEF DownloaderNoAtts, DownloaderLoad, DownloaderStore, Update, Table
    <3> QED BY <2>1, <3>1 DEF DownloaderNoAtts, DownloaderLoad, send, remote
  <2>2. CASE ~(DownloaderNoAtts \/ DownloaderLoad)
    BY <1>8, <2>2 DEF Downloader, DownloaderStart, DownloaderConnect, DownloaderConnectFails,
       DownloaderPick, DownloaderLoadFails, DownloaderFinish, db, send, remote
  <2> QED BY <2>1, <2>2
<1>9. CASE Sender
  <2>1. CASE SenderStart \/ SenderFinish \/ SenderFail
    <3>1. row[u] # "SENDING"
      BY <2>1 DEF SenderStart, SenderFinish, SenderFail, Running
    <3>2. row'[u] = row[u] \/ (row[u] \in {"QUEUED", "AUTH_FAILURE"} /\ row'[u] \in {"QUEUED", "AUTH_FAILURE"})
      <4>1. row' = row \/ Bulk(row, row')
        BY <2>1, BulkFacts DEF SenderStart, SenderFinish, SenderFail
      <4> QED BY <3>1, <4>1 DEF Bulk
    <3>3. row[u] \notin CopyStates
      BY <2>1 DEF SenderStart, SenderFinish, SenderFail, Running
    <3> QED BY <2>1, <3>1, <3>2, <3>3 DEF SenderStart, SenderFinish, SenderFail, SenderEnd, SenderIdle, remote
  <2>2. CASE SenderConnect \/ SenderConnectFails \/ SenderNotSent
    BY <1>1, <1>2, <2>2 DEF SenderConnect, SenderConnectFails, SenderNotSent, Goto, AfterQueue, db,
       remote
  <2>3. CASE SenderPick \/ SenderCopyPick
    BY <2>3 DEF SenderPick, SenderCopyPick, InState, Goto, AfterQueue, db, remote
  <2>4. CASE SenderMark \/ SenderCopyMark
    <3>1. row[u] \notin {"SENDING"} \cup CopyStates
      BY <2>4 DEF SenderMark, SenderCopyMark
    <3>2. ResetMsgsWithSendingState(row, sAcct)[u] = row[u]
      BY <3>1 DEF ResetMsgsWithSendingState, ChangeMsgsState, Table
    <3>3. row'[u] = IF sUid = u /\ row[u] # Absent THEN "SENDING" ELSE row[u]
      BY <2>4, <3>2, ResetFacts DEF SenderMark, SenderCopyMark, Update, Table
    <3>4. CASE SenderMark
      BY <3>1, <3>3, <3>4 DEF SenderMark, Goto, remote
    <3>5. CASE SenderCopyMark
      BY <3>1, <3>3, <3>5 DEF SenderCopyMark, Goto, remote
    <3> QED BY <2>4, <3>4, <3>5
  <2>5. CASE SenderReadAtts
    BY <2>5 DEF SenderReadAtts, db, remote
  <2>6. CASE SenderSend \/ SenderSendFails
    <3>1. CASE SenderSend
      <4>1. /\ delivered'[u] = IF sUid = u THEN delivered[u] + 1 ELSE delivered[u]
            /\ sPc = "send" /\ sPc' = "sent" /\ UNCHANGED <<row, sUid, copies>>
        BY <3>1 DEF SenderSend, Deliver, Goto, db
      <4>2. CASE sUid = u
        <5>1. delivered[u] = 0 /\ copies[u] = 0 /\ delivered'[u] = 1
          BY <4>1, <4>2
        <5>2. delivered'[u] <= 1 /\ copies'[u] <= 1
          BY <4>1, <5>1
        <5>3. row[u] \in {Absent, "SENDING", "SENT", "SENT_WITHOUT_LOCAL_COPY"}
          BY <4>2, <3>1 DEF SenderSend
        <5> QED BY <4>1, <4>2, <5>1, <5>2, <5>3
      <4>3. CASE sUid # u
        BY <4>1, <4>3
      <4> QED BY <4>2, <4>3
    <3>2. CASE SenderSendFails
      BY <1>2, <3>2 DEF SenderSendFails, Throw, db
    <3> QED BY <2>6, <3>1, <3>2
  <2>7. CASE SenderSent \/ SenderSaved
    BY <2>7 DEF SenderSent, SenderSaved, Goto, Update, Table, remote
  <2>8. CASE \/ SenderAppend \/ SenderAppendFails
             \/ SenderCopyAppend \/ SenderCopyAppendFails
    <3>1. CASE SenderAppend \/ SenderCopyAppend
      <4>1. /\ copies'[u] = IF sUid = u THEN copies[u] + 1 ELSE copies[u]
            /\ UNCHANGED <<row, sUid, delivered>>
            /\ \/ sPc = "append" /\ sPc' = "saved"
               \/ sPc = "copyAppend" /\ sPc' = "copyClean"
        BY <3>1 DEF SenderAppend, SenderCopyAppend, AppendCopy, Goto, db
      <4>2. CASE sUid = u
        <5>1. sPc = "append" /\ sPc' = "saved" /\ copies[u] = 0 /\ copies'[u] = 1
          BY <4>1, <4>2
        <5> QED BY <4>1, <4>2, <5>1
      <4>3. CASE sUid # u
        BY <4>1, <4>3
      <4> QED BY <4>2, <4>3
    <3>2. CASE SenderAppendFails \/ SenderCopyAppendFails
      BY <1>2, <3>2 DEF SenderAppendFails, SenderCopyAppendFails, Throw, db
    <3> QED BY <2>8, <3>1, <3>2
  <2>9. CASE SenderClean \/ SenderCopyClean
    BY <2>9 DEF SenderClean, SenderCopyClean, DeleteRow, Goto, Table, db, remote
  <2>10. CASE SenderCatch \/ SenderCopyCatch
    BY <2>10 DEF SenderCatch, SenderCopyCatch, StateAfter, DeleteRow, Update, Goto, Table, remote
  <2> QED BY <1>9, <2>1, <2>2, <2>3, <2>4, <2>5, <2>6, <2>7, <2>8, <2>9, <2>10 DEF Sender
<1>10. CASE User
  <2>1. CASE DeleteFromDetails \/ LogoutDeleteRows \/ \E v \in Uids : DeleteOutgoingMsg(v)
    <3>1. row'[u] \in {row[u], Absent}
      BY <2>1 DEF DeleteFromDetails, LogoutDeleteRows, DeleteOutgoingMsg, DeleteRow, Table
    <3> QED BY <2>1, <3>1 DEF DeleteFromDetails, LogoutDeleteRows, DeleteOutgoingMsg, send, remote
  <2>2. CASE \/ \E v \in Uids : Compose(v) \/ OpenDetails(v)
             \/ CloseDetails \/ Launch
    BY <2>2 DEF Compose, OpenDetails, CloseDetails, Launch, db, send, remote
  <2> QED
    BY <1>1, <1>10, <2>1, <2>2 DEF User, Retry, ChangeState, ClickForceSending, ForceSending,
       ReAuthenticated, SwitchAccount, Logout
<1>11. CASE Device
  BY <1>1, <1>11 DEF Device, StopSender, StopDownloader, Connectivity, Crash, db, send, remote
<1> QED BY <1>7, <1>8, <1>9, <1>10, <1>11 DEF Next

LEMMA CountInit == Init => Running /\ CInv
<1> SUFFICES ASSUME Init PROVE Running /\ CInv
  OBVIOUS
<1>1. Running
  BY DEF Init, Running
<1>2. Undisturbed
  BY DEF Init, Undisturbed
<1>3. ASSUME NEW u \in Plain PROVE Counted(u)
  <2>1. u \in Uids /\ u # NoUid
    BY UidsAssumption DEF Plain
  <2> QED BY <2>1 DEF Init, Counted, CopyStates, Absent
<1> QED BY <1>1, <1>2, <1>3 DEF CInv

LEMMA CountInvStep == IInv /\ DInv /\ Running /\ CInv /\ [Next]_vars => CInv'
<1> SUFFICES ASSUME IInv, DInv, Running, CInv, [Next]_vars, env' = 0, Flaky = {}
             PROVE  Undisturbed' /\ \A u \in Plain : Counted(u)'
  BY DEF CInv
<1>1. env' = env /\ env = 0
  <2>1. env \in Nat
    BY DEF IInv, TypeOK, TypeEnv
  <2> QED BY <2>1, EnvStep
<1>2. Undisturbed /\ \A u \in Plain : Counted(u)
  BY <1>1 DEF CInv
<1>3. CASE Next
  BY <1>1, <1>2, <1>3, UndisturbedStep, CountStep
<1>4. CASE UNCHANGED vars
  <2>1. Undisturbed'
    BY <1>2, <1>4 DEF vars, ui, remote, Undisturbed
  <2>2. ASSUME NEW u \in Plain PROVE Counted(u)'
    BY <1>2, <1>4 DEF vars, db, send, remote, Counted
  <2> QED BY <2>1, <2>2
<1> QED BY <1>3, <1>4

\* As long as no event disturbs the services, a message that is not a forward reaches the
\* recipients at most once and the SENT folder at most once: the prepare service, the sender and
\* the user's deletions, in whatever order they come, never make the sender pick it again.
THEOREM OneDelivery == Spec => []AtMostOnce
<1>1. CInv => AtMostOnce
  BY DEF CInv, AtMostOnce, Counted, Plain
<1> QED BY <1>1, CountInit, CountInvStep, RunningStep, DeliveryInit, DeliveryStep, Invariance,
           PTL DEF Spec

-----------------------------------------------------------------------------
(* A message that is being sent has a worker *)

LEMMA WorkerInit == Init => WInv
<1> SUFFICES ASSUME Init PROVE WInv
  OBVIOUS
<1>1. /\ active # NoAccount /\ leaving = NoAccount /\ sPc = "idle"
      /\ \A u \in Uids : row[u] = Absent
  BY AccountsAssumption DEF Init
<1> QED BY <1>1 DEF WInv, Absent, HasMessage, AfterDelivery

LEMMA WorkerStep ==
  ASSUME IInv, Running, WInv, [Next]_vars, Env \cap {"switch", "logout"} = {}
  PROVE  WInv'
<1>1. ~Happens("switch") /\ ~Happens("logout")
  BY DEF Happens
<1>2. /\ row \in Table /\ work \in [Workers -> {"none", "enqueued", "running"}]
      /\ "sender" \in Workers /\ "downloader" # "sender"
  BY DEF IInv, TypeOK, TypeDb, TypeWork, Table, Workers
<1>3. \A W : work["sender"] # "none" => EnqueueKeep(W)["sender"] # "none"
  BY <1>2 DEF EnqueueKeep
<1>4. pPc # "idle" => pUid \in Uids
  BY DEF IInv, ServicesKnow
<1>5. sPc \in HasMessage => sUid \in Uids
  BY DEF IInv, SenderKnows
<1> USE <1>2 DEF WInv
<1>6. CASE Prepare
  <2>1. UNCHANGED <<active, leaving, sPc, sAcct, sUid>>
    BY <1>6 DEF Prepare, PrepareStart, PrepareInsert, PrepareInsertStub, PrepareCatch, PrepareCache,
       PrepareCacheFails, PrepareQueue, acct, send
  <2>2. \A u \in Uids : row'[u] = "SENDING" => row[u] = "SENDING"
    BY <1>4, <1>6 DEF Prepare, PrepareStart, PrepareInsert, PrepareInsertStub, PrepareCatch,
       PrepareCache, PrepareCacheFails, PrepareQueue, db, Update, Table, Absent
  <2>3. work["sender"] # "none" => work'["sender"] # "none"
    BY <1>3, <1>6 DEF Prepare, PrepareStart, PrepareInsert, PrepareInsertStub, PrepareCatch,
       PrepareCache, PrepareCacheFails, PrepareQueue
  <2> QED BY <2>1, <2>2, <2>3
<1>7. CASE Downloader
  <2>1. UNCHANGED <<active, leaving, sPc, sAcct, sUid>>
    BY <1>7 DEF Downloader, DownloaderStart, DownloaderConnect, DownloaderConnectFails,
       DownloaderPick, DownloaderNoAtts, DownloaderLoad, DownloaderLoadFails, DownloaderFinish, acct,
       send
  <2>2. \A u \in Uids : row'[u] = "SENDING" => row[u] = "SENDING"
    BY <1>7 DEF Downloader, DownloaderStart, DownloaderConnect, DownloaderConnectFails,
       DownloaderPick, DownloaderNoAtts, DownloaderLoad, DownloaderStore, DownloaderLoadFails,
       DownloaderFinish, db, Update, Table, Absent
  <2>3. work["sender"] # "none" => work'["sender"] # "none"
    BY <1>3, <1>7 DEF Downloader, DownloaderStart, DownloaderConnect, DownloaderConnectFails,
       DownloaderPick, DownloaderNoAtts, DownloaderLoad, DownloaderStore, DownloaderLoadFails,
       DownloaderFinish, DownloaderEnd
  <2> QED BY <2>1, <2>2, <2>3
<1>8. CASE Sender
  <2>1. CASE SenderStart \/ SenderFinish \/ SenderFail
    <3>1. ASSUME NEW r \in Table, NEW u \in Uids, ResetMsgsWithSendingState(r, active)[u] = "SENDING"
          PROVE  AccountOf[u] # active /\ r[u] = "SENDING"
      BY <3>1 DEF ResetMsgsWithSendingState, ChangeMsgsState, Table
    <3>2. /\ ChangeMsgsState(row, active, "QUEUED", "AUTH_FAILURE") \in Table
          /\ \A u \in Uids : ChangeMsgsState(row, active, "QUEUED", "AUTH_FAILURE")[u] = "SENDING"
                             => row[u] = "SENDING"
      BY ChangeFacts DEF ChangeMsgsState, Table, MessageState
    <3>3. \A u \in Uids : row'[u] # "SENDING"
      BY <2>1, <3>1, <3>2 DEF SenderStart, SenderFinish, SenderFail
    <3>4. /\ UNCHANGED <<active, leaving>>
          /\ sPc' \in {"idle", "finish", "connect"} /\ (sPc' # "idle" => sAcct' = active)
      BY <2>1 DEF SenderStart, SenderFinish, SenderFail, SenderEnd, SenderIdle, acct
    <3> QED BY <3>3, <3>4 DEF HasMessage, AfterDelivery
  <2>2. CASE SenderMark \/ SenderCopyMark
    <3>1. \A u \in Uids : row'[u] = "SENDING" => u = sUid
      <4>1. \A u \in Uids : ResetMsgsWithSendingState(row, sAcct)[u] = "SENDING" => AccountOf[u] # sAcct /\ row[u] = "SENDING"
        BY DEF ResetMsgsWithSendingState, ChangeMsgsState, Table
      <4>2. sAcct = active /\ ResetMsgsWithSendingState(row, sAcct) \in Table
        BY <2>2, ResetFacts DEF SenderMark, SenderCopyMark
      <4> QED BY <2>2, <4>1, <4>2 DEF SenderMark, SenderCopyMark, Update, Table
    <3>2. /\ AccountOf[sUid] = active /\ work["sender"] = "running" /\ sAcct = active
          /\ UNCHANGED <<active, leaving, sAcct, sUid, work>>
      BY <2>2 DEF SenderMark, SenderCopyMark, Goto, acct, Running, HasMessage, AfterDelivery
    <3> QED BY <3>1, <3>2
  <2>3. CASE SenderPick \/ SenderCopyPick
    BY <2>3 DEF SenderPick, SenderCopyPick, InState, Goto, AfterQueue, db, acct, HasMessage,
       AfterDelivery
  <2>4. CASE SenderSent \/ SenderSaved \/ SenderCatch \/ SenderCopyCatch \/ SenderClean \/ SenderCopyClean
    <3>1. \A u \in Uids : row'[u] = "SENDING" => row[u] = "SENDING"
      BY <1>5, <2>4 DEF SenderSent, SenderSaved, SenderCatch, SenderCopyCatch, SenderClean,
         SenderCopyClean, DeleteRow, StateAfter, Update, Table, Absent, db
    <3>2. /\ UNCHANGED <<active, leaving, sAcct, sUid, work>>
          /\ sPc \in HasMessage
      BY <2>4 DEF SenderSent, SenderSaved, SenderCatch, SenderCopyCatch, SenderClean,
         SenderCopyClean, Goto, acct, HasMessage, AfterDelivery
    <3> QED BY <3>1, <3>2 DEF HasMessage, AfterDelivery
  <2>5. CASE \/ SenderConnect \/ SenderConnectFails \/ SenderReadAtts \/ SenderSend \/ SenderNotSent
             \/ SenderSendFails \/ SenderAppend \/ SenderAppendFails \/ SenderCopyAppend
             \/ SenderCopyAppendFails
    <3>1. UNCHANGED <<row, work, active, leaving, sAcct, sUid>>
      BY <2>5 DEF SenderConnect, SenderConnectFails, SenderReadAtts, SenderSend, SenderNotSent,
         SenderSendFails, SenderAppend, SenderAppendFails, SenderCopyAppend, SenderCopyAppendFails,
         Goto, Throw, db, acct
    <3>2. sPc # "idle" /\ (sPc' \in HasMessage => sPc \in HasMessage)
      BY <2>5 DEF SenderConnect, SenderConnectFails, SenderReadAtts, SenderSend, SenderNotSent,
         SenderSendFails, SenderAppend, SenderAppendFails, SenderCopyAppend, SenderCopyAppendFails,
         Goto, Throw, AfterQueue, HasMessage, AfterDelivery
    <3> QED BY <3>1, <3>2
  <2> QED BY <1>8, <2>1, <2>2, <2>3, <2>4, <2>5 DEF Sender
<1>9. CASE User
  <2>1. CASE ForceSending
    <3>1. \A u \in Uids : row'[u] = "SENDING" => row[u] = "SENDING"
      BY <2>1 DEF ForceSending, ChangeMsgsState, Table
    <3> QED BY <2>1, <3>1 DEF ForceSending, CancelSender, SenderIdle, acct, HasMessage, AfterDelivery
  <2>2. CASE ~ForceSending
    <3>1. UNCHANGED <<active, leaving, sPc, sAcct, sUid>>
      BY <1>1, <1>9, <2>2 DEF User, Compose, DeleteOutgoingMsg, OpenDetails, Retry,
         DeleteFromDetails, CloseDetails, ChangeState, ClickForceSending, ReAuthenticated, Launch,
         SwitchAccount, Logout, LogoutDeleteRows, acct, send
    <3>2. \A u \in Uids : row'[u] = "SENDING" => row[u] = "SENDING"
      <4>1. CASE \E p \in retries : ChangeState(p[1], p[2])
        BY <4>1 DEF ChangeState, Update, Table, IInv, TypeOK, TypeUi
      <4>2. CASE LogoutDeleteRows
        BY <4>2 DEF LogoutDeleteRows
      <4>3. CASE ~(LogoutDeleteRows \/ \E p \in retries : ChangeState(p[1], p[2]))
        BY <1>1, <1>9, <2>2, <4>3 DEF User, Compose, DeleteOutgoingMsg, OpenDetails, Retry,
           DeleteFromDetails, CloseDetails, ClickForceSending, ReAuthenticated, Launch,
           SwitchAccount, Logout, DeleteRow, ChangeMsgsState, Table, Absent, db
      <4> QED BY <4>1, <4>2, <4>3
    <3>3. work["sender"] # "none" => work'["sender"] # "none"
      BY <1>1, <1>3, <1>9, <2>2 DEF User, Compose, DeleteOutgoingMsg, OpenDetails, Retry,
         DeleteFromDetails, CloseDetails, ChangeState, ClickForceSending, ReAuthenticated, Launch,
         SwitchAccount, Logout, LogoutDeleteRows
    <3> QED BY <3>1, <3>2, <3>3
  <2> QED BY <2>1, <2>2
<1>10. CASE Device
  <2>1. UNCHANGED <<row, active, leaving>>
    BY <1>10 DEF Device, StopSender, StopDownloader, Connectivity, Crash, ZombieCall, db, acct
  <2>2. work["sender"] # "none" => work'["sender"] # "none"
    BY <1>10 DEF Device, StopSender, StopDownloader, DownloaderEnd, Connectivity, Crash, ZombieCall
  <2>3. sPc' = "idle" \/ UNCHANGED <<sPc, sAcct, sUid>>
    BY <1>10 DEF Device, StopSender, CancelSender, SenderIdle, StopDownloader, Connectivity, Crash,
       ZombieCall, send
  <2> QED BY <2>1, <2>2, <2>3 DEF HasMessage, AfterDelivery
<1>11. CASE UNCHANGED vars
  BY <1>11 DEF vars, db, acct, send
<1> QED BY <1>6, <1>7, <1>8, <1>9, <1>10, <1>11 DEF Next

\* While the active account stays the same, a message marked SENDING has a sender that runs or
\* will run: every way in which the worker ends either resets all of them or leaves the work
\* enqueued.
THEOREM SendingIsWatched ==
  ASSUME Env \cap {"switch", "logout"} = {}
  PROVE  Spec => []SendingHasWorker
<1>1. IInv /\ Running /\ WInv /\ [Next]_vars => WInv'
  BY WorkerStep
<1>2. WInv => SendingHasWorker
  BY DEF WInv, SendingHasWorker
<1> QED BY <1>1, <1>2, WorkerInit, CountInit, RunningStep, Invariance, PTL DEF Spec
=============================================================================
