------------------------------- MODULE Outbox -------------------------------
(***************************************************************************)
(* The outgoing-message pipeline of FlowCrypt: the job-intent service that *)
(* creates a message (PrepareOutgoingMessagesJobIntentService), the worker *)
(* that downloads the attachments of a forwarded message                   *)
(* (ForwardedAttachmentsDownloaderWorker), the worker that sends           *)
(* (MessagesSenderWorker), and the user, who may delete, retry or force    *)
(* the sending of a message while the other three run.  All of them talk   *)
(* through the "messages" and "attachment" tables only; each access to a   *)
(* table, and each remote call, is one step.                               *)
(***************************************************************************)
EXTENDS Naturals, FiniteSets

CONSTANTS
  Uids,        \* uids handed out by genOutboxUID: increasing numbers
  Accounts,    \* accounts known to the application
  AccountOf,   \* the account a message is sent from
  AutoCopy,    \* accounts whose server keeps the copy in SENT (Google, Outlook)
  Api,         \* accounts that send through the Gmail API, without a mail store
  Forward,     \* messages of type MessageType.FORWARD
  Content,     \* what the user attached: "own" files and "fwd" attachments
  Flaky,       \* messages whose upload may break the connection any number of times
  Env,         \* the environment events this instance includes
  MaxEnv       \* bound on the number of those events

NoUid     == 0
NoAccount == "no account"
Parts     == {"own", "fwd"}          \* what a message is composed with
Rows      == Parts \cup {"fwdFile"}   \* "fwdFile": a "fwd" row whose file has been downloaded

ASSUME UidsAssumption == Uids \subseteq Nat \ {NoUid} /\ IsFiniteSet(Uids)
ASSUME AccountsAssumption ==
  /\ NoAccount \notin Accounts
  /\ AccountOf \in [Uids -> Accounts]
  /\ AutoCopy \subseteq Accounts
  /\ Api \subseteq AutoCopy
ASSUME ContentAssumption ==
  /\ Forward \subseteq Uids /\ Flaky \subseteq Uids
  /\ Content \in [Uids -> SUBSET Parts]
  /\ \A u \in Uids : "fwd" \in Content[u] => u \in Forward
ASSUME MaxEnvAssumption == MaxEnv \in Nat

(***************************************************************************)
(* MessageState, as far as the Outbox folder uses it; Absent: no row.      *)
(***************************************************************************)
Absent == "ABSENT"
DeliveredStates == {"SENT", "SENT_WITHOUT_LOCAL_COPY",
                    "QUEUED_MAKE_COPY_IN_SENT_FOLDER",
                    "ERROR_COPY_NOT_SAVED_IN_SENT_FOLDER"}
MessageState == DeliveredStates \cup
  {"NONE", "NEW", "NEW_FORWARDED", "QUEUED", "SENDING", "AUTH_FAILURE",
   "ERROR_CACHE_PROBLEM", "ERROR_DURING_CREATION", "ERROR_SENDING_FAILED",
   "ERROR_ORIGINAL_MESSAGE_MISSING", "ERROR_ORIGINAL_ATTACHMENT_NOT_FOUND",
   "ERROR_PRIVATE_KEY_NOT_FOUND"}

ErrorStates ==
  {"ERROR_CACHE_PROBLEM", "ERROR_DURING_CREATION", "ERROR_SENDING_FAILED",
   "ERROR_ORIGINAL_MESSAGE_MISSING", "ERROR_ORIGINAL_ATTACHMENT_NOT_FOUND",
   "ERROR_PRIVATE_KEY_NOT_FOUND", "ERROR_COPY_NOT_SAVED_IN_SENT_FOLDER"}

\* The states the user may neither delete (deleteOutgoingMsg) nor change (prepareCandidates).
BusyStates == {"SENDING", "SENT_WITHOUT_LOCAL_COPY", "QUEUED_MAKE_COPY_IN_SENT_FOLDER"}

\* Exceptions of the sender, by the branch of its catch blocks they take.
Errors == {"connect", "messaging", "auth", "copyNotSaved", "fileNotFound", "other"}

VARIABLES
  row,       \* messages table: [Uids -> MessageState \cup {Absent}]
  atts,      \* attachment table: [Uids -> SUBSET Rows]
  dir,       \* messages whose directory in the attachments cache exists
  work,      \* WorkManager: state of the two unique works
  accounts,  \* accounts table
  active,    \* the account with is_active = 1, or NoAccount
  leaving,   \* the account whose rows a logout has still to delete, or NoAccount
  online,    \* GeneralUtil.isConnected
  jobs,      \* JobIntentService: messages to prepare, kept until done
  pPc, pUid, \* the prepare service: program counter, message
  dPc, dAcct, dUid, dAtts,                \* the downloader and what it has read
  sPc, sAcct, sUid, sLast, sAtts, sQueue, sCopy, sErr,  \* the sender and what it has read
  retries,   \* changeMsgsState coroutines launched by "retry", not yet run
  force,     \* a "restart sending" coroutine has been launched
  shown,     \* the details screen: message and the state it was opened with
  zombies,   \* remote calls of cancelled senders that are still under way
  delivered, \* history: times the recipients got the message
  copies,    \* history: copies appended to the SENT folder
  carried,   \* history: the attachment sets the message was delivered with
  cached,    \* history: what addAttsToCache stored
  composed,  \* history: messages handed to the prepare service
  inserted,  \* history: messages that have had a row
  deleted,   \* history: messages the user deleted
  env        \* number of environment events so far

db      == <<row, atts, dir>>
prep    == <<jobs, pPc, pUid>>
down    == <<dPc, dAcct, dUid, dAtts>>
send    == <<sPc, sAcct, sUid, sLast, sAtts, sQueue, sCopy, sErr>>
ui      == <<retries, force, shown>>
remote  == <<zombies, delivered, copies, carried>>
acct    == <<accounts, active, leaving>>
history == <<composed, cached, inserted, deleted>>
vars    == <<db, work, acct, online, prep, down, send, ui, remote, history, env>>

-----------------------------------------------------------------------------
(* The data access objects and the work manager *)

Workers == {"downloader", "sender"}

InState(a, S) == {u \in Uids : AccountOf[u] = a /\ row[u] \in S}

\* Room's @Update writes by primary key: nothing happens when the row is gone.
Update(r, u, s) == [r EXCEPT ![u] = IF @ = Absent THEN Absent ELSE s]

\* changeMsgsState(account, OUTBOX, old, new)
ChangeMsgsState(r, a, old, new) ==
  [u \in Uids |-> IF AccountOf[u] = a /\ r[u] = old THEN new ELSE r[u]]

\* Mutants: nothing is reset; failed messages are reset as well.
ResetNothing(r, a) == r
ResetErrorsToo(r, a) ==
  ChangeMsgsState(ChangeMsgsState(r, a, "SENDING", "QUEUED"), a, "ERROR_SENDING_FAILED", "QUEUED")

ResetMsgsWithSendingState(r, a) == ChangeMsgsState(r, a, "SENDING", "QUEUED")

\* ExistingWorkPolicy.KEEP: ignored while the unique work is enqueued or running.
EnqueueKeep(W) == [w \in Workers |-> IF w \in W /\ work[w] = "none" THEN "enqueued" ELSE work[w]]

Happens(e) == e \in Env /\ env < MaxEnv /\ env' = env + 1

\* An event that disturbs nothing and needs no bound.
Allowed(e) == e \in Env /\ UNCHANGED env

-----------------------------------------------------------------------------
(* PrepareOutgoingMessagesJobIntentService.onHandleWork, one message at a time *)

\* A message of the user's that the compose screen hands to the service.
Compose(u) ==
  /\ u \notin composed /\ AccountOf[u] = active
  /\ \A v \in Uids : v < u => v \in composed
  /\ jobs' = jobs \cup {u} /\ composed' = composed \cup {u}
  /\ UNCHANGED <<db, work, acct, online, pPc, pUid, down, send, ui, remote, cached, inserted, deleted, env>>

\* The service returns at once when the account is gone or a row with the same uid exists.
PrepareStart ==
  /\ pPc = "idle"
  /\ \E u \in jobs :
       /\ \A v \in jobs : u <= v
       /\ IF AccountOf[u] \notin accounts \/ row[u] # Absent
            THEN jobs' = jobs \ {u} /\ UNCHANGED <<pPc, pUid>>
            ELSE pPc' = "create" /\ pUid' = u /\ UNCHANGED jobs
  /\ UNCHANGED <<db, work, acct, online, down, send, ui, remote, history, env>>

PrepareEnd == pPc' = "idle" /\ pUid' = NoUid /\ jobs' = jobs \ {pUid}

\* genMessage succeeded: the row is inserted.
PrepareInsert ==
  /\ pPc = "create"
  /\ row' = [row EXCEPT ![pUid] = IF pUid \in Forward THEN "NEW_FORWARDED" ELSE "NEW"]
  /\ inserted' = inserted \cup {pUid}
  /\ pPc' = "cache"
  /\ UNCHANGED <<atts, dir, work, acct, online, jobs, pUid, down, send, ui, remote, composed, cached, deleted, env>>

\* An exception before the insert: the catch block inserts a stub without a state ...
PrepareInsertStub ==
  /\ pPc = "create" /\ Happens("fault")
  /\ row' = [row EXCEPT ![pUid] = "NONE"]
  /\ inserted' = inserted \cup {pUid}
  /\ pPc' = "catch"
  /\ UNCHANGED <<atts, dir, work, acct, online, jobs, pUid, down, send, ui, remote, composed, cached, deleted>>

\* ... and, as for every exception, then stores which error it was.
PrepareCatch ==
  /\ pPc = "catch"
  /\ \E s \in {"ERROR_PRIVATE_KEY_NOT_FOUND", "ERROR_DURING_CREATION"} : row' = Update(row, pUid, s)
  /\ PrepareEnd
  /\ UNCHANGED <<atts, dir, work, acct, online, down, send, ui, remote, history, env>>

\* addAttsToCache.  A file that cannot be read is skipped silently (a "fault"); the insert
\* violates the foreign key when the message row has been deleted meanwhile.
PrepareCache ==
  /\ pPc = "cache"
  /\ IF Content[pUid] = {} THEN /\ pPc' = "queue" /\ UNCHANGED <<atts, dir, cached, env>>
     ELSE /\ dir' = dir \cup {pUid}
          /\ \/ /\ row[pUid] = Absent
                /\ pPc' = "catch" /\ UNCHANGED <<atts, cached, env>>
             \/ /\ row[pUid] # Absent
                /\ \/ atts' = [atts EXCEPT ![pUid] = Content[pUid]] /\ UNCHANGED env
                   \/ atts' = [atts EXCEPT ![pUid] = Content[pUid] \ {"own"}] /\ Happens("fault")
                /\ cached' = [cached EXCEPT ![pUid] = atts'[pUid]]
                /\ pPc' = "queue"
  /\ UNCHANGED <<row, work, acct, online, jobs, pUid, down, send, ui, remote, composed, inserted, deleted>>

\* The directory cannot be created or, once it is there, the sender's key is missing.
PrepareCacheFails ==
  /\ pPc = "cache" /\ Content[pUid] # {} /\ Happens("fault")
  /\ pPc' = "catch"
  /\ dir' \in {dir, dir \cup {pUid}}
  /\ UNCHANGED <<row, atts, work, acct, online, jobs, pUid, down, send, ui, remote, history>>

PrepareQueue ==
  /\ pPc = "queue"
  /\ IF "fwd" \in Content[pUid]
       THEN work' = EnqueueKeep({"downloader"}) /\ UNCHANGED row
       ELSE /\ row' = Update(row, pUid, "QUEUED")
            /\ work' = IF row[pUid] # Absent THEN EnqueueKeep({"sender"}) ELSE work
  /\ PrepareEnd
  /\ UNCHANGED <<atts, dir, acct, online, down, send, ui, remote, history, env>>

-----------------------------------------------------------------------------
(* ForwardedAttachmentsDownloaderWorker *)

DownloaderEnd(result) ==
  /\ work' = [work EXCEPT !["downloader"] = result]
  /\ dPc' = "idle" /\ dUid' = NoUid /\ dAcct' = NoAccount /\ dAtts' = {}

DownloaderStart ==
  /\ work["downloader"] = "enqueued" /\ online
  /\ IF active = NoAccount THEN DownloaderEnd("none")
     ELSE /\ work' = [work EXCEPT !["downloader"] = "running"]
          /\ dAcct' = active
          /\ dPc' = IF InState(active, {"NEW_FORWARDED"}) = {} THEN "finish" ELSE "connect"
          /\ UNCHANGED <<dUid, dAtts>>
  /\ UNCHANGED <<db, acct, online, prep, send, ui, remote, history, env>>

\* OpenStoreHelper.openStore; the Gmail API needs no store.
DownloaderConnect ==
  /\ dPc = "connect" /\ (online \/ dAcct \in Api)
  /\ dPc' = "pick"
  /\ UNCHANGED <<db, work, acct, online, prep, dAcct, dUid, dAtts, send, ui, remote, history, env>>

DownloaderConnectFails ==
  /\ dPc = "connect" /\ dAcct \notin Api
  /\ IF online THEN Happens("fault") ELSE UNCHANGED env
  /\ DownloaderEnd("none")
  /\ UNCHANGED <<db, acct, online, prep, send, ui, remote, history>>

\* A NEW_FORWARDED message of the account (the query has no ORDER BY) and its attachments.
DownloaderPick ==
  /\ dPc = "pick"
  /\ LET list == InState(dAcct, {"NEW_FORWARDED"}) IN
       IF list = {} THEN dPc' = "finish" /\ UNCHANGED <<dUid, dAtts>>
       ELSE \E u \in list :
              /\ dUid' = u /\ dAtts' = atts[u]
              /\ dPc' = IF atts[u] = {} THEN "noAtts" ELSE "load"
  /\ UNCHANGED <<db, work, acct, online, prep, dAcct, send, ui, remote, history, env>>

\* No attachment rows: the message is queued, and the sender is not enqueued.
DownloaderNoAtts ==
  /\ dPc = "noAtts"
  /\ row' = Update(row, dUid, "QUEUED")
  /\ dPc' = "pick"
  /\ UNCHANGED <<atts, dir, work, acct, online, prep, dAcct, dUid, dAtts, send, ui, remote, history, env>>

\* getNewMsgState and the update that follows.
Downloaded(S) == IF "fwd" \in S THEN (S \ {"fwd"}) \cup {"fwdFile"} ELSE S

DownloaderStore(s) ==
  /\ row' = Update(row, dUid, s)
  /\ work' = IF row[dUid] # Absent THEN EnqueueKeep({"sender"}) ELSE work
  /\ dPc' = "pick"

\* The original is looked up through the first attachment of the list, which has no ORDER BY.
\* Only a forwarded attachment names it: an own file that comes first makes the lookup throw.
\* A missing original is an answer of the IMAP server, for the Gmail API it is an exception.
DownloaderLoad ==
  /\ dPc = "load" /\ online /\ dAtts \cap {"fwd", "fwdFile"} # {}
  /\ \/ /\ DownloaderStore("QUEUED")
        /\ atts' = [atts EXCEPT ![dUid] = Downloaded(@)] /\ UNCHANGED env
     \/ /\ \/ DownloaderStore("ERROR_ORIGINAL_ATTACHMENT_NOT_FOUND")
           \/ dAcct \notin Api /\ DownloaderStore("ERROR_ORIGINAL_MESSAGE_MISSING")
        /\ Happens("fault") /\ UNCHANGED atts
  /\ UNCHANGED <<dir, acct, online, prep, dAcct, dUid, dAtts, send, ui, remote, history>>

\* An exception: start over while connected, give up otherwise.
DownloaderLoadFails ==
  /\ dPc = "load"
  /\ IF online THEN /\ \/ "own" \in dAtts /\ UNCHANGED env
                       \/ Happens("fault")
                    /\ dPc' = "pick" /\ UNCHANGED <<work, dAcct, dUid, dAtts>>
               ELSE DownloaderEnd("none") /\ UNCHANGED env
  /\ UNCHANGED <<db, acct, online, prep, send, ui, remote, history>>

\* rescheduleIfActiveAccountWasChanged
DownloaderFinish ==
  /\ dPc = "finish"
  /\ DownloaderEnd(IF active = dAcct THEN "none" ELSE "enqueued")
  /\ UNCHANGED <<db, acct, online, prep, send, ui, remote, history, env>>

-----------------------------------------------------------------------------
(* MessagesSenderWorker *)

Goto(pc) == sPc' = pc /\ UNCHANGED <<sAcct, sUid, sLast, sAtts, sQueue, sCopy, sErr>>
Throw(e, pc) == sPc' = pc /\ sErr' = e /\ UNCHANGED <<sAcct, sUid, sLast, sAtts, sQueue, sCopy>>

SenderIdle ==
  /\ sPc' = "idle" /\ sAcct' = NoAccount /\ sUid' = NoUid /\ sLast' = NoUid
  /\ sAtts' = {} /\ sQueue' = FALSE /\ sCopy' = FALSE /\ sErr' = "other"

SenderEnd(result) == SenderIdle /\ work' = [work EXCEPT !["sender"] = result]

\* A remote call fails by itself (an environment event) or because there is no network.
CallFails(u) == IF online /\ u \notin Flaky THEN Happens("fault") ELSE UNCHANGED env

\* Mutant: a message that failed is taken for one that only lacks its copy.
CopyStatesFailed == {"SENT_WITHOUT_LOCAL_COPY", "QUEUED_MAKE_COPY_IN_SENT_FOLDER", "ERROR_SENDING_FAILED"}

CopyStates == {"SENT_WITHOUT_LOCAL_COPY", "QUEUED_MAKE_COPY_IN_SENT_FOLDER"}

\* doWork: the active account, the reset of SENDING and the two lists that decide what to do.
SenderStart ==
  /\ work["sender"] = "enqueued" /\ online
  /\ IF active = NoAccount THEN SenderEnd("none") /\ UNCHANGED row
     ELSE /\ work' = [work EXCEPT !["sender"] = "running"]
          /\ row' = ResetMsgsWithSendingState(row, active)
          /\ sAcct' = active
          /\ LET queued == InState(active, {"QUEUED", "SENDING"})
                 unsaved == InState(active, CopyStates)
             IN /\ sCopy' = (unsaved # {} /\ active \notin Api)
                /\ sQueue' = (queued # {})
                /\ sPc' = IF queued = {} /\ unsaved = {} THEN "finish" ELSE "connect"
          /\ UNCHANGED <<sUid, sLast, sAtts, sErr>>
  /\ UNCHANGED <<atts, dir, acct, online, prep, down, ui, remote, history, env>>

AfterQueue == IF sCopy THEN "copyPick" ELSE "finish"

\* openStore
SenderConnect ==
  /\ sPc = "connect" /\ (online \/ sAcct \in Api)
  /\ Goto(IF sQueue THEN "pick" ELSE AfterQueue)
  /\ UNCHANGED <<db, work, acct, online, prep, down, ui, remote, history, env>>

SenderConnectFails ==
  /\ sPc = "connect" /\ sAcct \notin Api
  /\ CallFails(NoUid)
  /\ \E e \in {"connect", "auth"} : Throw(e, "fail")
  /\ UNCHANGED <<db, work, acct, online, prep, down, ui, remote, history>>

\* Mutant: the last uid tried is not taken into account.
SenderPickAny ==
  /\ sPc = "pick"
  /\ LET list == InState(sAcct, {"QUEUED"})
     IN IF list = {} THEN Goto(AfterQueue)
        ELSE /\ \E u \in list : sUid' = u /\ sLast' = u
             /\ sPc' = "mark"
             /\ UNCHANGED <<sAcct, sAtts, sQueue, sCopy, sErr>>
  /\ UNCHANGED <<db, work, acct, online, prep, down, ui, remote, history, env>>

\* sendQueuedMsgs: a message with a uid above the last one tried or, if there is none, any.
SenderPick ==
  /\ sPc = "pick"
  /\ LET list == InState(sAcct, {"QUEUED"})
         later == {u \in list : u > sLast}
     IN IF list = {} THEN Goto(AfterQueue)
        ELSE /\ \E u \in (IF later # {} THEN later ELSE list) : sUid' = u /\ sLast' = u
             /\ sPc' = "mark"
             /\ UNCHANGED <<sAcct, sAtts, sQueue, sCopy, sErr>>
  /\ UNCHANGED <<db, work, acct, online, prep, down, ui, remote, history, env>>

SenderMark ==
  /\ sPc = "mark"
  /\ row' = Update(ResetMsgsWithSendingState(row, sAcct), sUid, "SENDING")
  /\ Goto("atts")
  /\ UNCHANGED <<atts, dir, work, acct, online, prep, down, ui, remote, history, env>>

\* Mutant: the query for the attachments uses another folder.
SenderReadAttsElsewhere ==
  /\ sPc = "atts"
  /\ sAtts' = {} /\ sPc' = "send"
  /\ UNCHANGED <<db, work, acct, online, prep, down, sAcct, sUid, sLast, sQueue, sCopy, sErr, ui, remote, history, env>>

\* After the delay of two seconds the attachments are read.
SenderReadAtts ==
  /\ sPc = "atts"
  /\ sAtts' = atts[sUid] /\ sPc' = "send"
  /\ UNCHANGED <<db, work, acct, online, prep, down, sAcct, sUid, sLast, sQueue, sCopy, sErr, ui, remote, history, env>>

\* The message can be put on the wire: every attachment has its file.
Readable(u, S) == "fwd" \notin S /\ (S # {} => u \in dir)

Deliver(u, S) ==
  /\ delivered' = [delivered EXCEPT ![u] = @ + 1]
  /\ carried' = [carried EXCEPT ![u] = @ \cup {S}]

\* sendMsg up to the remote call: the server accepts the message.
SenderSend ==
  /\ sPc = "send" /\ online /\ sUid \notin Flaky /\ Readable(sUid, sAtts)
  /\ Deliver(sUid, sAtts)
  /\ Goto("sent")
  /\ UNCHANGED <<db, work, acct, online, prep, down, ui, zombies, copies, history, env>>

\* The Gmail API answers without a message id: sendMsg returns false and the loop goes on.
SenderNotSent ==
  /\ sPc = "send" /\ online /\ sAcct \in Api /\ Readable(sUid, sAtts) /\ Happens("fault")
  /\ Goto("pick")
  /\ UNCHANGED <<db, work, acct, online, prep, down, ui, remote, history>>

\* The call throws; the server may have accepted the message all the same.
SenderSendFails ==
  /\ sPc = "send"
  /\ \/ /\ CallFails(sUid)
        /\ \/ \E e \in {"connect", "messaging", "auth", "fileNotFound", "other"} : Throw(e, "catch")
              /\ UNCHANGED <<delivered, carried>>
           \/ /\ online /\ sUid \notin Flaky /\ Readable(sUid, sAtts)
              /\ Throw("connect", "catch") /\ Deliver(sUid, sAtts)
     \/ ~Readable(sUid, sAtts) /\ Throw("messaging", "catch") /\ UNCHANGED <<delivered, carried, env>>
  /\ UNCHANGED <<db, work, acct, online, prep, down, ui, zombies, copies, history>>

\* The first state the sender records after the remote call.
SenderSent ==
  /\ sPc = "sent"
  /\ IF sAcct \in AutoCopy
       THEN row' = Update(row, sUid, "SENT") /\ Goto("clean")
       ELSE row' = Update(row, sUid, "SENT_WITHOUT_LOCAL_COPY") /\ Goto("append")
  /\ UNCHANGED <<atts, dir, work, acct, online, prep, down, ui, remote, history, env>>

AppendCopy(u) == copies' = [copies EXCEPT ![u] = @ + 1]

\* saveCopyOfSentMsg inside sendMsg
SenderAppend ==
  /\ sPc = "append" /\ online
  /\ AppendCopy(sUid) /\ Goto("saved")
  /\ UNCHANGED <<db, work, acct, online, prep, down, ui, zombies, delivered, carried, history, env>>

SenderAppendFails ==
  /\ sPc = "append" /\ CallFails(NoUid)
  /\ \/ \E e \in {"connect", "messaging", "copyNotSaved", "other"} : Throw(e, "catch") /\ UNCHANGED copies
     \/ online /\ Throw("connect", "catch") /\ AppendCopy(sUid)
  /\ UNCHANGED <<db, work, acct, online, prep, down, ui, zombies, delivered, carried, history>>

\* Mutant: that the copy was saved is not recorded.
SenderSavedUnrecorded ==
  /\ sPc = "saved"
  /\ Goto("clean")
  /\ UNCHANGED <<db, work, acct, online, prep, down, ui, remote, history, env>>

SenderSaved ==
  /\ sPc = "saved"
  /\ row' = Update(row, sUid, "SENT") /\ Goto("clean")
  /\ UNCHANGED <<atts, dir, work, acct, online, prep, down, ui, remote, history, env>>

\* The row is read again and, if it says SENT, removed with its attachments (a foreign key
\* with CASCADE) and, if there were any, their directory.
DeleteRow(u) == row' = [row EXCEPT ![u] = Absent] /\ atts' = [atts EXCEPT ![u] = {}]

SenderClean ==
  /\ sPc = "clean"
  /\ IF row[sUid] = "SENT"
       THEN DeleteRow(sUid) /\ dir' = IF sAtts # {} THEN dir \ {sUid} ELSE dir
       ELSE UNCHANGED db
  /\ Goto("pick")
  /\ UNCHANGED <<work, acct, online, prep, down, ui, remote, history, env>>

\* Mutant: a state the application does not know.
StateAfterUnknown(e) == IF e = "connect" THEN "QUEUED" ELSE "FAILED"

\* The catch block of sendQueuedMsgs: the state each exception leads to.
StateAfter(e) ==
  CASE e = "connect" -> "QUEUED"
    [] e = "copyNotSaved" -> "ERROR_COPY_NOT_SAVED_IN_SENT_FOLDER"
    [] e = "fileNotFound" -> "ERROR_CACHE_PROBLEM"
    [] OTHER -> "ERROR_SENDING_FAILED"

\* Mutant: a message whose files are missing is dropped, as the copy phase does.
SenderCatchDrops ==
  /\ sPc = "catch" /\ online
  /\ IF sErr = "fileNotFound" THEN DeleteRow(sUid)
     ELSE row' = Update(row, sUid, StateAfter(sErr)) /\ UNCHANGED atts
  /\ Goto("pick")
  /\ UNCHANGED <<dir, work, acct, online, prep, down, ui, remote, history, env>>

SenderCatch ==
  /\ sPc = "catch"
  /\ IF online THEN row' = Update(row, sUid, StateAfter(sErr)) /\ Goto("pick")
               ELSE row' = Update(row, sUid, "QUEUED") /\ Goto("fail")
  /\ UNCHANGED <<atts, dir, work, acct, online, prep, down, ui, remote, history, env>>

\* saveCopyOfAlreadySentMsgs: the list, the attachments and the message are read first ...
SenderCopyPick ==
  /\ sPc = "copyPick"
  /\ LET list == InState(sAcct, CopyStates) IN
       IF list = {} THEN Goto("finish")
       ELSE /\ \E u \in list : sUid' = u /\ sAtts' = atts[u]
            /\ sPc' = "copyMark"
            /\ UNCHANGED <<sAcct, sLast, sQueue, sCopy, sErr>>
  /\ UNCHANGED <<db, work, acct, online, prep, down, ui, remote, history, env>>

\* ... then the row is marked as SENDING.
SenderCopyMark ==
  /\ sPc = "copyMark"
  /\ row' = Update(ResetMsgsWithSendingState(row, sAcct), sUid, "SENDING")
  /\ Goto("copyAppend")
  /\ UNCHANGED <<atts, dir, work, acct, online, prep, down, ui, remote, history, env>>

SenderCopyAppend ==
  /\ sPc = "copyAppend" /\ online /\ Readable(sUid, sAtts)
  /\ AppendCopy(sUid) /\ Goto("copyClean")
  /\ UNCHANGED <<db, work, acct, online, prep, down, ui, zombies, delivered, carried, history, env>>

SenderCopyAppendFails ==
  /\ sPc = "copyAppend"
  /\ \/ /\ CallFails(NoUid)
        /\ \/ \E e \in {"connect", "copyNotSaved", "fileNotFound"} : Throw(e, "copyCatch") /\ UNCHANGED copies
           \/ online /\ Throw("connect", "copyCatch") /\ AppendCopy(sUid)
     \/ ~Readable(sUid, sAtts) /\ Throw("fileNotFound", "copyCatch") /\ UNCHANGED <<copies, env>>
  /\ UNCHANGED <<db, work, acct, online, prep, down, ui, zombies, delivered, carried, history>>

SenderCopyClean ==
  /\ sPc = "copyClean"
  /\ DeleteRow(sUid) /\ dir' = IF sAtts # {} THEN dir \ {sUid} ELSE dir
  /\ Goto("copyPick")
  /\ UNCHANGED <<work, acct, online, prep, down, ui, remote, history, env>>

SenderCopyCatch ==
  /\ sPc = "copyCatch"
  /\ IF ~online
       THEN row' = Update(row, sUid, "SENT_WITHOUT_LOCAL_COPY") /\ UNCHANGED atts /\ Goto("fail")
       ELSE /\ IF sErr = "fileNotFound" THEN DeleteRow(sUid)
               ELSE row' = Update(row, sUid, "ERROR_COPY_NOT_SAVED_IN_SENT_FOLDER") /\ UNCHANGED atts
            /\ Goto("copyPick")
  /\ UNCHANGED <<dir, work, acct, online, prep, down, ui, remote, history, env>>

\* The normal end of doWork; like the catch block it looks at the account that is active now.
SenderFinish ==
  /\ sPc = "finish"
  /\ row' = ResetMsgsWithSendingState(row, active)
  /\ SenderEnd(IF active = sAcct THEN "none" ELSE "enqueued")
  /\ UNCHANGED <<atts, dir, acct, online, prep, down, ui, remote, history, env>>

\* The catch and finally blocks of doWork.
SenderFail ==
  /\ sPc = "fail"
  /\ LET r == IF sErr = "auth" THEN ChangeMsgsState(row, active, "QUEUED", "AUTH_FAILURE") ELSE row
     IN row' = ResetMsgsWithSendingState(r, active)
  /\ SenderEnd("none")
  /\ UNCHANGED <<atts, dir, acct, online, prep, down, ui, remote, history, env>>

\* Cancellation: no database call of the cancelled coroutine succeeds any more, but a
\* blocking remote call that has started runs to its end.
CancelSender ==
  /\ SenderIdle
  /\ \/ UNCHANGED zombies
     \/ /\ sPc \in {"send", "append", "copyAppend"}
        /\ zombies' = zombies \cup {[call |-> sPc, uid |-> sUid, atts |-> sAtts]}

\* The constraint NetworkType.CONNECTED is no longer met: WorkManager stops the worker.
StopSender ==
  /\ work["sender"] = "running" /\ ~online
  /\ CancelSender
  /\ work' = [work EXCEPT !["sender"] = "enqueued"]
  /\ UNCHANGED <<db, acct, online, prep, down, ui, delivered, copies, carried, history, env>>

StopDownloader ==
  /\ work["downloader"] = "running" /\ ~online
  /\ DownloaderEnd("enqueued")
  /\ UNCHANGED <<db, acct, online, prep, send, ui, remote, history, env>>

ZombieCall(z) ==
  /\ online /\ Readable(z.uid, z.atts)
  /\ zombies' = zombies \ {z}
  /\ IF z.call = "send"
       THEN Deliver(z.uid, z.atts) /\ UNCHANGED copies
       ELSE AppendCopy(z.uid) /\ UNCHANGED <<delivered, carried>>
  /\ UNCHANGED <<db, work, acct, online, prep, down, send, ui, history, env>>

-----------------------------------------------------------------------------
(* The user *)

\* deleteOutgoingMsgs, from the Outbox list and from the error dialogs.
DeleteOutgoingMsg(u) ==
  /\ row[u] \notin BusyStates \cup {Absent} /\ Allowed("delete")
  /\ DeleteRow(u)
  /\ dir' = IF Content[u] # {} THEN dir \ {u} ELSE dir
  /\ deleted' = deleted \cup {u}
  /\ UNCHANGED <<work, acct, online, prep, down, send, ui, remote, composed, cached, inserted>>

\* The details screen, which a message with an error does not have, keeps the entity it was
\* opened with ...
OpenDetails(u) ==
  /\ row[u] \notin ErrorStates \cup {"NONE", Absent} /\ shown.uid = NoUid /\ Allowed("details")
  /\ shown' = [uid |-> u, state |-> row[u]]
  /\ UNCHANGED <<db, work, acct, online, prep, down, send, retries, force, remote, history>>

\* ... and its delete button checks that entity, then deletes whatever the row has become.
DeleteFromDetails ==
  /\ shown.uid # NoUid /\ shown.state # "SENDING" /\ row[shown.uid] # Absent
  /\ DeleteRow(shown.uid)
  /\ deleted' = deleted \cup {shown.uid}
  /\ shown' = [uid |-> NoUid, state |-> Absent]
  /\ UNCHANGED <<dir, work, acct, online, prep, down, send, retries, force, remote, composed, cached, inserted, env>>

CloseDetails ==
  /\ shown.uid # NoUid /\ (shown.state = "SENDING" \/ row[shown.uid] = Absent)
  /\ shown' = [uid |-> NoUid, state |-> Absent]
  /\ UNCHANGED <<db, work, acct, online, prep, down, send, retries, force, remote, history, env>>

\* Mutant: every retry only makes the copy.
RetryCopies(u) ==
  /\ row[u] \in {"ERROR_SENDING_FAILED", "ERROR_COPY_NOT_SAVED_IN_SENT_FOLDER"}
  /\ Happens("retry")
  /\ retries' = retries \cup {<<u, "QUEUED_MAKE_COPY_IN_SENT_FOLDER">>}
  /\ work' = EnqueueKeep({"sender"})
  /\ UNCHANGED <<db, acct, online, prep, down, send, force, shown, remote, history>>

\* "Retry" in the dialog of a failed message: a coroutine is launched, the sender enqueued.
Retry(u) ==
  /\ row[u] \in {"ERROR_SENDING_FAILED", "ERROR_COPY_NOT_SAVED_IN_SENT_FOLDER"}
  /\ Happens("retry")
  /\ retries' = retries \cup {<<u, IF row[u] = "ERROR_COPY_NOT_SAVED_IN_SENT_FOLDER"
                                   THEN "QUEUED_MAKE_COPY_IN_SENT_FOLDER" ELSE "QUEUED">>}
  /\ work' = EnqueueKeep({"sender"})
  /\ UNCHANGED <<db, acct, online, prep, down, send, force, shown, remote, history>>

\* changeMsgsState: the row is read again; the observer of msgStatesLiveData enqueues the
\* sender once more for QUEUED, but not for QUEUED_MAKE_COPY_IN_SENT_FOLDER.
ChangeState(u, s) ==
  /\ <<u, s>> \in retries
  /\ retries' = retries \ {<<u, s>>}
  /\ row' = IF row[u] \in BusyStates THEN row ELSE Update(row, u, s)
  /\ work' = IF s = "QUEUED" THEN EnqueueKeep({"sender"}) ELSE work
  /\ UNCHANGED <<atts, dir, acct, online, prep, down, send, force, shown, remote, history, env>>

\* "Restart sending" is offered when the outbox has messages and none of them is SENDING.
ClickForceSending ==
  /\ active # NoAccount /\ ~force
  /\ InState(active, MessageState) # {} /\ InState(active, {"SENDING"}) = {}
  /\ Happens("force")
  /\ force' = TRUE
  /\ UNCHANGED <<db, work, acct, online, prep, down, send, retries, shown, remote, history>>

\* Its coroutine; also what follows an update of the server settings.
ForceSending ==
  /\ force
  /\ force' = FALSE
  /\ row' = ChangeMsgsState(row, active, "AUTH_FAILURE", "QUEUED")
  /\ CancelSender
  /\ work' = [work EXCEPT !["sender"] = "enqueued"]
  /\ UNCHANGED <<atts, dir, acct, online, prep, down, retries, shown, delivered, copies, carried, history, env>>

\* UserRecoverableAuthExceptionFragment: the same without replacing the running worker.
ReAuthenticated ==
  /\ InState(active, {"AUTH_FAILURE"}) # {} /\ Happens("reauth")
  /\ row' = ChangeMsgsState(row, active, "AUTH_FAILURE", "QUEUED")
  /\ work' = EnqueueKeep({"sender"})
  /\ UNCHANGED <<atts, dir, acct, online, prep, down, send, ui, remote, history>>

\* LauncherActivity, or the Outbox folder is opened.
Launch ==
  /\ work # EnqueueKeep(Workers)
  /\ work' = EnqueueKeep(Workers)
  /\ UNCHANGED <<db, acct, online, prep, down, send, ui, remote, history, env>>

SwitchAccount(a) ==
  /\ a \in accounts \ {active} /\ Happens("switch")
  /\ active' = a
  /\ UNCHANGED <<db, work, accounts, leaving, online, prep, down, send, ui, remote, history>>

\* AccountDao.logout: the account is removed and another one, if any, becomes active ...
Logout ==
  /\ active # NoAccount /\ leaving = NoAccount /\ Happens("logout")
  /\ accounts' = accounts \ {active} /\ leaving' = active
  /\ IF accounts' = {} THEN active' = NoAccount ELSE active' \in accounts'
  /\ UNCHANGED <<db, work, online, prep, down, send, ui, remote, history>>

\* Mutant: the rows of every account are removed.
LogoutDeletesAll ==
  /\ leaving # NoAccount
  /\ row' = [u \in Uids |-> Absent] /\ atts' = [u \in Uids |-> {}]
  /\ deleted' = deleted \cup InState(leaving, MessageState)
  /\ leaving' = NoAccount
  /\ UNCHANGED <<dir, work, accounts, active, online, prep, down, send, ui, remote, composed, cached, inserted, env>>

\* ... then deleteByEmailSuspend removes its messages; their directories stay.
LogoutDeleteRows ==
  /\ leaving # NoAccount
  /\ LET gone == InState(leaving, MessageState) IN
       /\ row' = [u \in Uids |-> IF u \in gone THEN Absent ELSE row[u]]
       /\ atts' = [u \in Uids |-> IF u \in gone THEN {} ELSE atts[u]]
       /\ deleted' = deleted \cup gone
  /\ leaving' = NoAccount
  /\ UNCHANGED <<dir, work, accounts, active, online, prep, down, send, ui, remote, composed, cached, inserted, env>>

-----------------------------------------------------------------------------
(* The device *)

Connectivity ==
  /\ online' = ~online
  /\ IF online THEN Happens("offline") ELSE UNCHANGED env
  /\ UNCHANGED <<db, work, acct, prep, down, send, ui, remote, history>>

\* The process dies: WorkManager runs interrupted work again, the job is redelivered,
\* everything else in memory is gone.
Crash ==
  /\ Happens("crash")
  /\ work' = [w \in Workers |-> IF work[w] = "running" THEN "enqueued" ELSE work[w]]
  /\ pPc' = "idle" /\ pUid' = NoUid
  /\ dPc' = "idle" /\ dUid' = NoUid /\ dAcct' = NoAccount /\ dAtts' = {}
  /\ SenderIdle
  /\ retries' = {} /\ force' = FALSE /\ shown' = [uid |-> NoUid, state |-> Absent]
  /\ zombies' = {} /\ leaving' = NoAccount
  /\ UNCHANGED <<db, accounts, active, online, jobs, delivered, copies, carried, history>>

-----------------------------------------------------------------------------
Init ==
  /\ row = [u \in Uids |-> Absent] /\ atts = [u \in Uids |-> {}] /\ dir = {}
  /\ work = [w \in Workers |-> "none"]
  /\ accounts = Accounts /\ active \in Accounts /\ leaving = NoAccount /\ online = TRUE
  /\ jobs = {} /\ pPc = "idle" /\ pUid = NoUid
  /\ dPc = "idle" /\ dAcct = NoAccount /\ dUid = NoUid /\ dAtts = {}
  /\ sPc = "idle" /\ sAcct = NoAccount /\ sUid = NoUid /\ sLast = NoUid
  /\ sAtts = {} /\ sQueue = FALSE /\ sCopy = FALSE /\ sErr = "other"
  /\ retries = {} /\ force = FALSE /\ shown = [uid |-> NoUid, state |-> Absent]
  /\ zombies = {}
  /\ delivered = [u \in Uids |-> 0] /\ copies = [u \in Uids |-> 0]
  /\ carried = [u \in Uids |-> {}] /\ cached = [u \in Uids |-> {}]
  /\ composed = {} /\ inserted = {} /\ deleted = {} /\ env = 0

Prepare ==
  \/ PrepareStart \/ PrepareInsert \/ PrepareInsertStub \/ PrepareCatch
  \/ PrepareCache \/ PrepareCacheFails \/ PrepareQueue

Downloader ==
  \/ DownloaderStart \/ DownloaderConnect \/ DownloaderConnectFails \/ DownloaderPick
  \/ DownloaderNoAtts \/ DownloaderLoad \/ DownloaderLoadFails \/ DownloaderFinish

Sender ==
  \/ SenderStart \/ SenderConnect \/ SenderConnectFails \/ SenderPick \/ SenderMark
  \/ SenderReadAtts \/ SenderSend \/ SenderNotSent \/ SenderSendFails \/ SenderSent
  \/ SenderAppend \/ SenderAppendFails \/ SenderSaved \/ SenderClean \/ SenderCatch
  \/ SenderCopyPick \/ SenderCopyMark \/ SenderCopyAppend \/ SenderCopyAppendFails
  \/ SenderCopyClean \/ SenderCopyCatch \/ SenderFinish \/ SenderFail

User ==
  \/ \E u \in Uids : Compose(u) \/ DeleteOutgoingMsg(u) \/ OpenDetails(u) \/ Retry(u)
  \/ DeleteFromDetails \/ CloseDetails
  \/ \E p \in retries : ChangeState(p[1], p[2])
  \/ ClickForceSending \/ ForceSending \/ ReAuthenticated \/ Launch
  \/ \E a \in Accounts : SwitchAccount(a)
  \/ Logout \/ LogoutDeleteRows

Device ==
  \/ StopSender \/ StopDownloader \/ Connectivity \/ Crash
  \/ \E z \in zombies : ZombieCall(z)

Next == Prepare \/ Downloader \/ Sender \/ User \/ Device

Spec == Init /\ [][Next]_vars

-----------------------------------------------------------------------------
(* Fairness: a service or worker that can take a step takes one; coroutines run; an outage  *)
(* ends.  LiveSpec adds that the application is opened again, the only event that           *)
(* re-enqueues work for a message whose enqueue request was ignored or whose worker failed. *)
RetryCoroutine == \E p \in retries : ChangeState(p[1], p[2])
Recover == ~online /\ Connectivity

LiveSpec ==
  /\ Spec
  /\ WF_vars(Prepare) /\ WF_vars(Downloader) /\ WF_vars(Sender)
  /\ WF_vars(RetryCoroutine) /\ WF_vars(ForceSending) /\ WF_vars(Recover)
  /\ WF_vars(Launch)

-----------------------------------------------------------------------------
(* Properties *)

PrepPcs == {"idle", "create", "cache", "catch", "queue"}
DownPcs == {"idle", "connect", "pick", "noAtts", "load", "finish"}
SendPcs == {"idle", "connect", "pick", "mark", "atts", "send", "sent", "append", "saved",
            "clean", "catch", "copyPick", "copyMark", "copyAppend", "copyClean", "copyCatch",
            "finish", "fail"}

TypeDb ==
  /\ row \in [Uids -> MessageState \cup {Absent}]
  /\ atts \in [Uids -> SUBSET Rows] /\ dir \subseteq Uids

TypeWork == work \in [Workers -> {"none", "enqueued", "running"}]

TypeAcct ==
  /\ accounts \subseteq Accounts
  /\ active \in Accounts \cup {NoAccount} /\ leaving \in Accounts \cup {NoAccount}

TypePrep == jobs \subseteq Uids /\ pPc \in PrepPcs /\ pUid \in Uids \cup {NoUid}

TypeDown ==
  /\ dPc \in DownPcs /\ dAcct \in Accounts \cup {NoAccount}
  /\ dUid \in Uids \cup {NoUid} /\ dAtts \subseteq Rows

TypeSend ==
  /\ sPc \in SendPcs /\ sAcct \in Accounts \cup {NoAccount}
  /\ sUid \in Uids \cup {NoUid} /\ sLast \in Uids \cup {NoUid}
  /\ sAtts \subseteq Rows /\ sQueue \in BOOLEAN /\ sCopy \in BOOLEAN /\ sErr \in Errors

TypeUi ==
  /\ retries \subseteq (Uids \X {"QUEUED", "QUEUED_MAKE_COPY_IN_SENT_FOLDER"})
  /\ force \in BOOLEAN
  /\ shown \in [uid : Uids \cup {NoUid}, state : MessageState \cup {Absent}]

TypeRemote ==
  /\ zombies \subseteq [call : {"send", "append", "copyAppend"}, uid : Uids, atts : SUBSET Rows]
  /\ delivered \in [Uids -> Nat] /\ copies \in [Uids -> Nat]
  /\ carried \in [Uids -> SUBSET SUBSET Rows]

TypeHistory ==
  /\ composed \subseteq Uids /\ inserted \subseteq Uids /\ deleted \subseteq Uids
  /\ cached \in [Uids -> SUBSET Rows]

TypeEnv == online \in BOOLEAN /\ env \in Nat

\* The variables of every part have their types.
TypeOK ==
  /\ TypeDb /\ TypeWork /\ TypeAcct /\ TypePrep /\ TypeDown /\ TypeSend
  /\ TypeUi /\ TypeRemote /\ TypeHistory /\ TypeEnv

\* A message that was accepted into the outbox leaves it only after it was delivered or after
\* the user deleted it (or logged out), whatever fails, crashes or is cancelled on the way.
NothingLost == \A u \in inserted : row[u] = Absent => delivered[u] > 0 \/ u \in deleted

\* The states that skip a new delivery and only make the copy in the SENT folder are held
\* by messages that have been delivered.
DeliveredTruthful == \A u \in Uids : row[u] \in DeliveredStates => delivered[u] > 0

\* The SENT folder never holds a message that was not sent.
CopyOnlyOfDelivered == \A u \in Uids : copies[u] > 0 => delivered[u] > 0

\* A message marked SENDING, which the user can neither delete nor retry, has a worker that
\* runs or will run: crash, cancellation and failure included.
SendingHasWorker == \A u \in Uids : row[u] = "SENDING" => work["sender"] # "none"

\* What the recipients get of a message that is not a forward carries everything that was
\* put in the cache for it.
CompleteDelivery == \A u \in Uids \ (Forward \cup deleted) : carried[u] \subseteq {cached[u]}

\* As long as nothing fails, crashes or is forced, each message is delivered at most once and
\* copied at most once, whatever the user deletes meanwhile.  Not so a forward without forwarded
\* attachments: the downloader may queue it before the prepare service does, which then queues it
\* again after the delivery.
AtMostOnce ==
  env = 0 /\ Flaky = {} => \A u \in Uids \ Forward : delivered[u] <= 1 /\ copies[u] <= 1

\* A message that is not a forward and was reported as failed is left alone by every worker,
\* until the user retries or deletes it.
FailedStaysFailed ==
  [][\A u \in Uids \ Forward :
       row[u] \in ErrorStates => \/ row'[u] \in {row[u], Absent}
                                 \/ <<u, row'[u]>> \in retries]_vars

\* A delivered message that no query of the code looks for any more: the sender that recorded SENT
\* is not about to remove the row.
LeftSent(u) == row[u] = "SENT" /\ ~(sPc = "clean" /\ sUid = u)

\* A message on its way out gets to a state that waits for the user, or leaves the outbox.
\* This includes the copies of delivered messages, unless a message that fails without end
\* keeps the queue from getting empty.  Only a sender that is stopped between the update to SENT
\* and the removal of the row (the process dies, the work is replaced) leaves it there for ever.
EventuallySettled ==
  /\ \A u \in Uids :
       row[u] \in {"QUEUED", "SENDING", "SENT"} \cup CopyStates
         ~> \/ row[u] \in ErrorStates \cup {"AUTH_FAILURE", Absent} \/ LeftSent(u)
            \/ \E f \in Flaky : row[f] \in {"QUEUED", "SENDING"}
  /\ [][\A u \in Uids : LeftSent(u)' => LeftSent(u) \/ (sPc = "clean" /\ sPc' = "idle")]_vars

\* A message whose upload keeps breaking the connection, and which is therefore tried again
\* and again, does not hold up the delivery of the others.
NoStarvation ==
  \A u \in Uids \ Flaky : row[u] \in {"QUEUED", "SENDING"} ~> row[u] \notin {"QUEUED", "SENDING"}

-----------------------------------------------------------------------------
(* The inductive invariant behind NothingLost, DeliveredTruthful and CopyOnlyOfDelivered:   *)
(* what each actor has in memory when it is about to write one of DeliveredStates or to     *)
(* remove a row.                                                                            *)

AfterDelivery == {"sent", "append", "saved", "copyMark", "copyAppend", "copyClean", "copyCatch"}
HasMessage == AfterDelivery \cup {"mark", "atts", "send", "clean", "catch"}

\* A message the sender handles exists, and beyond the remote call it has been delivered.
SenderKnows ==
  /\ sPc \in HasMessage => sUid \in Uids
  /\ sPc \in AfterDelivery \/ (sPc = "catch" /\ sErr = "copyNotSaved") => delivered[sUid] > 0

\* Pending coroutines and abandoned remote calls that concern only the copy in the SENT
\* folder belong to delivered messages.
PendingKnow ==
  /\ \A p \in retries : p[2] = "QUEUED_MAKE_COPY_IN_SENT_FOLDER" => delivered[p[1]] > 0
  /\ \A z \in zombies : z.call # "send" => delivered[z.uid] > 0

\* The other two services point at a message while they work on one.
ServicesKnow ==
  /\ pPc # "idle" => pUid \in Uids
  /\ dPc \in {"noAtts", "load"} => dUid \in Uids

\* The conjunction that every step preserves.
IInv == /\ TypeOK /\ NothingLost /\ DeliveredTruthful /\ CopyOnlyOfDelivered
        /\ SenderKnows /\ PendingKnow /\ ServicesKnow

=============================================================================
