# A TLA+ model of FlowCrypt for Android

FlowCrypt for Android is a mail client that encrypts with OpenPGP. Its own logic
is less in the cryptography, which libraries do, than in what happens around
it: several background actors work on one local database and on a mail server
that cannot be locked, can fail in the middle of a call, and is reached through
a network that comes and goes, in a process the system may end at any time.
This project models those actors, checks their interplay with TLC, and proves
the main results for every number of messages, calls and failures with TLAPS.

Paths below are relative to
`src/FlowCrypt/src/main/java/com/flowcrypt/email/`, called `email/`.

## 1. Inventory

| Part | State it keeps | Operations | What is hard | What makes it correct |
|---|---|---|---|---|
| **Outgoing messages**: `service/PrepareOutgoingMessagesJobIntentService`, `jetpack/workmanager/ForwardedAttachmentsDownloaderWorker`, `jetpack/workmanager/MessagesSenderWorker` | rows of the folder OUTBOX (`messages.state`), `attachment` rows, attachment directories, two unique works | create, download forwarded attachments, send, append to SENT, delete, retry, force, log out | three actors and the user on one row; delivery and its record are two steps; cancelled workers whose call goes on | nothing is lost; nothing is reported as delivered or copied that was not; a message being sent always has a worker; queued messages get out |
| **Remote actions** on received messages: six subclasses of `jetpack/workmanager/sync/BaseSyncWorker` | `messages.state`, flags, six unique works, what is on the screen | archive, swipe and undo, delete, delete for good, empty trash, move to INBOX, mark read/unread | rows are read before the remote call and written after it; REPLACE; late calls; partial batches | rows disappear only with their message; only TRASH is destroyed; flags converge; requests are served |
| **Folder synchronisation**: `SyncInboxWorker`, `InboxIdle*Worker`, `MessagesViewModel` (load, refresh, search), `IdleService` | rows of all folders, history id, `ControlledRunner`s | load, refresh, IDLE updates | six passes and the handlers of flags on one table, none of which waits for another; changes the connection did not report | rows disappear only with their message; whatever was missed, the rows become the folder again |
| **Coroutine runners**: `util/coroutines/runners` | the active task | cancelPreviousThenRun, joinPreviousOrRun | compare-and-set loops; a task is visible before its caller starts it | at most one block runs, the newest wins, calls end |
| **Cache on disk**: `util/cache/DiskLruCache`, `MsgsCacheCleanerWorker` | files, journal, sizes | edit, commit, abort, read, trim, rebuild | crash between file operations; errors the writer is not told of; eviction during an edit | a key holds what was committed last or nothing; no file is forgotten; the size is right |
| **Action queue**: `service/actionqueue` | table `action_queue` | add, run, remove | crash between run and remove | every action runs at least once |
| **Keys and pass phrases**: `security/KeysStorageImpl`, `service/PassPhrasesInRAMService` | key ring, pass phrases with expiry | put, get, expire | expiry against use; cache against table | no pass phrase outlives its time |
| **Attachment downloads**: `service/attachment/AttachmentDownloadManagerService` | maps of tasks and futures | start, progress, cancel, retry | results that arrive after a cancel | every task ends once; the service stops |
| **Accounts**: `database/dao/AccountDao`, `BaseActivity.logout`, `IMAPStoreManager` | accounts, the active one, connections | add, switch, log out | workers that run for the account left | one active account |
| **Message details**: `MsgDetailsViewModel`, `MessageDetailsFragment` | the entity on the screen | open, decrypt, change, delete | decisions on a stale entity | covered with the two modelled parts |
| **Node.js bridge**: `node/Node`, `node/NativeNode`, `src/main/cpp/rn-bridge.cpp`, `native-lib.cpp` | message queue, libuv handles, registered listeners, the flags of the start | start, register, request, answer | wake-ups that merge or are skipped; listeners that call back; memory passed by hand | every answer reaches the listeners once, and all of them unless one throws; memory has one owner |
| Labels, contacts, OpenPGP and MIME processing, notifications, user interface, REST clients | | | | mostly sequential or pure |

The parts talk through the database (Room), through WorkManager (unique works
with KEEP or REPLACE), and through LiveData; they share no lock.
`PROJECT.json` lists every part with its status, and under `hazards` the
lines where something can go wrong that a test would hardly reach.

## 2. Plan

Done, in this order:

1. `Outbox`: the outgoing messages, with `OutboxMC` and `OutboxProofs`.
2. `PendingActions`: the remote actions, with `PendingMC` and `PendingProofs`.
3. `TaskSlot` and `ControlledRunner`: a slot that one block occupies, and the
   class that implements it, with `ControlledRunnerMC` and `RunnerProofs`.
4. `FolderSync`: loading, refresh and IDLE, with `FolderSyncMC` and `FolderProofs`.
5. `MsgCache` and `DiskCache`: a cache whose entries are replaced
   atomically, and the files and the journal that implement it, with `DiskCacheMC`,
   `DiskProofs` (fields), `JournalProofs` (journal, contents) and `PromiseProofs`
   (refinement), each of which extends the one before.
6. `NodeBridge`, with `NodeBridgeMC` and `BridgeProofs`.

Worth adding: the composition of `FolderSync` with `PendingActions`, in which a
row the user has acted on is replaced by a page that is loaded; `ActionQueue`, `AttachmentDownloads`, `PassPhrases`, small
state machines each; the pure block parser against a reference definition.

## 3. `Outbox`

**State and code.** `row` is the column `state` of the OUTBOX rows
(`MessageState`), `atts` the `attachment` rows, `dir` the directories of the
attachment cache. `work` is what WorkManager knows of the two unique works,
`jobs` what JobIntentService redelivers. `pPc`, `dPc` and `sPc` are the program
counters of the three actors; the variables next to them are the locals they
carry from one database access to the next, which may be outdated when they are
used. `retries`, `force` and `shown` are coroutines and screens of the user
interface, `zombies` the blocking calls of cancelled workers. `delivered`,
`copies`, `carried`, `cached`, `composed`, `inserted` and `deleted` are history:
what the world outside has seen.

**Steps.** Every access to the database and every remote call is a step of its
own, so everything else may happen between two of them. The actions are named
after the actor and the call: `PrepareInsert`, `DownloaderLoad`, `SenderMark`,
`SenderSend`, `SenderSent`, `SenderCatch` ... The error paths are actions too:
`SenderSendFails` may or may not have delivered, `SenderCatch` maps the
exception to a state as the `when` in the code does (`StateAfter`).
`SenderMark` merges the reset and the update of the same row, as no other
actor writes SENDING. A change of connectivity stops the workers
(`StopSender`), and a cancelled worker performs no further database access,
whereas a blocking call it has begun may still succeed (`ZombieCall`).

**Environment.** The constant `Env` selects the events of an instance
(faults, crashes, outages, user operations), `MaxEnv` bounds their number.
`Flaky` messages may break the connection without a bound.

**Abstractions.** A message is its uid, an attachment one of three kinds of
row. Left out: the counter of the OUTBOX label, notifications, `last_use` of
contacts. Aliases of Google accounts that use IMAP are treated like accounts
that use the API (the server keeps the copy).

| Run | Instance | What it shows |
|---|---|---|
| `smtp` | 1 message with a file, 4 events of 8 kinds | no loss, no orphaned SENDING, complete deliveries, one delivery as long as nothing failed, failed messages are left alone |
| `accounts` | 2 accounts, a forward with an own file (SMTP) and a plain message (API), 2 events | the same with switch, logout and the race of downloader and creation service; states and SENT folder are truthful |
| `live` | 3 messages, one of which may always fail, 1 event | every queued message waits for the user in the end or leaves the outbox, unless its sender is stopped after recording SENT; the failing one does not hold up the others |

`AtMostOnce` is stated for behaviours without a failure so far (`env = 0`), in
which the user may still delete messages from either screen: after a failure
with an unknown outcome the code sends again on purpose. It does not hold for
forwards (section 9), which the attempt to prove it for all messages showed.

One message is enough where the property is about one row, because actors
share nothing but rows; two are needed for the order of sending and for the
accounts, three for the rotation of failing messages (`lastMsgUID`). Four events
allow, for instance, a failure, a retry by the user, a crash and a second
failure.

**Fairness** (`LiveSpec`). WorkManager and JobIntentService run what is
enqueued, coroutines run, an outage ends, and the application is opened again:
`EmailManagerActivity` and `onFolderChanged` enqueue the workers then, and
nothing else does for a worker that ended with a failure. Fairness is weak and
per actor, so an actor may choose the failing branch as long as its events
last. Not a consequence of the code, and therefore not claimed: that a
forwarded message gets out (its download loops when the first attachment is an
own file, which has no folder), and that
the copies of delivered messages are made while another message fails without
end, because the copies are only made after the queue is empty.

**Proofs, 1** (`OutboxProofs`, first part). `NothingLost`, `DeliveredTruthful` and
`CopyOnlyOfDelivered` are not inductive: a sender that is about to remove a row
must know that the message was delivered, although it learned that several
steps ago and the row may have changed since. `IInv` adds `SenderKnows` (beyond
the remote call the message in the sender's hands was delivered, and so it was
when the exception is the one of the copy), `PendingKnow` (coroutines of
*retry* that only ask for a copy, and calls of cancelled workers that only
append, belong to delivered messages) and `ServicesKnow` (the other two actors
point at a message while they work on one). Theorems: `TypeCorrect`,
`OutboxLosesNothing`, `OutboxTellsTheTruth`, `SentFolderTellsTheTruth`, for all
sets of messages and accounts, all attachments and any `MaxEnv`. The assumptions
are those on the constants: uids are positive, accounts that use the API keep the
copy on the server, only forwards have forwarded attachments.

**Proofs, 2** (`OutboxProofs`, second part). What is delivered, and how often, for messages
that are not forwards (`Plain`).

* `DeliveriesAreComplete` and `FailedIsLeftAlone` share `DInv`. Until the prepare
  service has done its job a message is the service's alone (`Preparing`: no
  worker, coroutine or abandoned call has come across it, so the sender does not
  see it before its attachments are there); the downloader handles forwards only
  (`Downloading`); a message in the sender's hands has not failed (`NotFailed`);
  and as long as the user does not delete it, row, sender and abandoned calls have
  the attachments that were cached (`Complete`).
* `OneDelivery` is `AtMostOnce`. `Counted` says how often a message was delivered
  and copied at each place of the sender and for each state of its row: a message
  that can be picked has not been delivered, SENDING is the message in the
  sender's hands. It holds while nothing has disturbed the pipeline
  (`Undisturbed`: online, no coroutine, no abandoned call), and as events are
  counted (`EnvStep`), while `env = 0`.
* `SendingIsWatched` is `SendingHasWorker` under the assumption that the instance
  has no switch of the account and no logout: then the rows that are SENDING
  belong to the active account (`WInv`), whose rows the worker resets when it
  ends without being enqueued again. With a switch the statement is false: the
  worker resets the rows of the account that is active when it ends
  (section 9).

## 4. `PendingActions`

**State and code.** `st` and `seen` are the state and the SEEN flag of the
local row of each message (`Home` is its folder), `place` and `rseen` what the
server has. For each of the six workers there is its unique work (`work`), a
program counter (`pc`), and the lists it carries from the read to the write:
`list` (all candidates), `grp` (those of the folder it handles), `rest` (the
folders to come). `copy` are the flags in the rows MovingToInboxWorker read,
and will write back, and those in the rows UpdateMsgsSeenStateWorker read again.
`posted` is the value of `msgStatesLiveData` its observer has not seen: `postValue`
replaces it. `snack` and `undo` belong to the snackbar of a swipe, `late` are calls of
replaced workers that still reach the server.

**Steps.** A worker goes through `Start`, `Read` (or `ReadTrash`), `Call`, and
`DeleteRows`, `WriteMoved` or `ReadAgain` and `WriteSeen`, then on to the next folder or pass
(`Continue`). `CallFails` may have reached the server; it ends with a retry or a
failure, as `CommonConnectionException` decides. `CallAnswersNothing` is
`batchDelete` of the Gmail API, whose empty answer `executeGMailAPICall` takes
for a failure. `Reaches` says which messages a call finds: IMAP looks a uid up
in one folder, the API takes the id wherever the message is. The user's
operations write the row first (`Request`); the observer enqueues the worker
later (`Observe`). In between the old worker may still write the row: that is
the reason why UpdateMsgsSeenStateWorker reads the rows again, and a
worker that does not compare them is found by `ClearedFlagAgrees`.

**Abstractions.** A message has one local row. The list shown is not
refreshed, so nothing comes back; that belongs to the folder synchronisation.
A read-modify-write of one row by the user interface is one step. With IMAP a
message counts as gone once it has the flag DELETED; the folder is expunged when
it is closed.

| Run | Instance | What it shows |
|---|---|---|
| `pending_imap` | messages in TRASH and in another folder, 2 operations, 2 events, late calls | rows disappear only with their message; only TRASH is destroyed; moving to INBOX is done only with messages that moved |
| `pending_flags` | Gmail API, messages in INBOX and TRASH, 3 operations, 1 event, incomplete batches included | a request for a flag is cleared only when the server has that flag, or overwritten in one window; row and server agree in the end |
| `pending_api` | Gmail API, messages in INBOX and TRASH, 2 operations (swipe, move to INBOX), 1 event | rows disappear only with their message; requests are served in the end |

Two messages in two folders exercise the grouping by folder and the workers
that meet on one message; two operations make two workers overlap, and the
events (failure, late call, cancellation, crash) fall between any of their
steps. Each run lists in `Ops` the operations its property speaks about.
`SeenConverges` excludes late calls: with one, an older flag can reach the
server after the newer, and only a refresh repairs that. `RestoreServed` looks
at the writes of MovingToInboxWorker only, because a failure of *empty trash*
clears all states in TRASH. `ClearedFlagAgrees` is checked without *undo* and
*move to INBOX*, which write NONE over whatever request the row holds.
`GoneMeansDone` is checked without incomplete batches: the code ignores the
answers for single messages ("need to think about it",
`api/email/gmail/GmailApiHelper.kt:391`) and removes the row all the same.
`DestroyedFromTrash` is a property of IMAP only.

**Fairness** (`LiveSpec`). Each worker runs, the observer and coroutines run,
snackbars go away, and the user opens a folder again when requests are left and
no work is enqueued (`onFolderChanged`).

**Proofs** (`PendingProofs`). A worker removes rows it read before its call
without looking at them again. `Inv` says why that is right: `Fit` is what the
operations offered in a folder imply for the lists (only INBOX rows are
archived, only TRASH rows are destroyed, nothing is moved to the folder it is
in), `Away` is what a worker knows once its call has returned: the messages of
its list are not in the folder of their rows, and because of `Fit` no call of
any other worker, late ones included, brings them back (`Leaves`).
`RowsOutliveMessages` is `GoneMeansDone` under `Regular`: the server can move
messages (or is the API), a batch is answered as a whole, and uids tell rows
apart. What goes wrong on other servers is in section 9.
`OnlyMovedIsCleared` is `RestoreServed` under the same conditions: what `WriteMoved`
resets is what it moved, and `Away` says where that is. `OnlyTrashIsDestroyed` is
`DestroyedFromTrash` for IMAP without further assumptions, `TypeCorrect` holds for
every server.

UpdateMsgsSeenStateWorker reads the rows once more after its call (`ReadAgain`), keeps
those whose request is still the one it carried out, and updates whole copies of
them in an access of its own (`WriteSeen`). A request that is made between the two is
overwritten, state and flag. `ClearedFlagAgrees` therefore has two parts: a row whose
request is cleared always shows the flag of the server; and the server has what the
request asked for, unless the request falls into that window (`Overwritten`). If the
worker did not compare the states it reads again, a toggle during the call would be
cleared without being carried out.

`FlagsConverge` (`SeenConverges`) and `RequestedFlagIsSet` (`ClearedFlagAgrees`)
hold under `FlagsOnly`, the conditions of the run `pending_flags`: the Gmail API, no
late calls, and none of the operations that write NONE over whatever request a
row holds. `FlagInv` is stronger than `SeenConverges`, which speaks about moments
without calls only: a row without a request agrees with the server at all times
(`Agree`), because a message on the list of UpdateMsgsSeenStateWorker has a request
from the read to the write, the server has the flag after the call, and so have the
copies of the rows that are to be written (`Flagging`); a request is for the flag the
row shows (`Asked`).

## 5. `FolderSync`

**State and code.** The INBOX of an IMAP account that shows all messages. `box`
is the folder of the server by UID with the flag SEEN of each message, `rows`
the local rows. `pass[p]` is a pass over the folder: the workers
InboxIdleSyncWorker (`idleSync`), SyncInboxWorker (`periodic`),
InboxIdleMsgsAddedWorker and InboxIdleMsgsRemovedWorker, and the *refresh* and
*load* of `MessagesViewModel`; its record holds what the pass has read from the
database (`map`, `old`, `new`) and from the server (`got`, `fresh`). `changed`
are the coroutines of `handleMsgChangedEvent` that have not written yet, `idle`
is the connection of `IdleSyncRunnable`.

**Steps.** Every query, every IMAP command and every write is a step. A pass
that is enqueued again starts over (REPLACE, `cancelPreviousThenRun`) wherever
it is. `commandFails` is a failed command or a missing connection: a worker
tries again or ends, the view model reports. `getMessagesFrom` is the IMAP range
`n:*`, which contains the last message of the folder even when its UID is
below n. `genDeleteCandidates`, `genNewCandidates` and `genUpdateCandidates`
are the functions of `EmailUtil`.

**Environment.** Messages arrive, are removed and change their flags; the user
refreshes, scrolls to the end and switches folders; connections break. These
are bounded together by `MaxEvents`. `MaxRunning` bounds how many passes are
between their first and last step at once.

| Run | Instance | What it shows |
|---|---|---|
| `folder_sync` | 3 UIDs, up to 3 messages at the start, pages of 2, 2 events, 2 passes at once | a pass deletes the row of a message that is still there only if it did not ask for it; the rows become the folder from the oldest row on |
| `folder_empty` | 2 UIDs, 1 event | finding, see section 9 |

Two events cover, for instance, a message that is removed while a refresh runs
that the user has started, or two changes of one flag whose handlers run in the
wrong order. Two passes at once are enough for a pass that writes between the
reads of another; three at once with pages of one, and four UIDs, were
checked too and give the same result, but take longer than is useful.

`DeletesOnlyGone` names its exceptions in `Asked`: rows that others insert
between two reads of one pass, and the single row of a folder in a refresh
(section 9). `Converges` does not depend on the IDLE connection and not on the
order of the handlers, because the periodic pass remains.

**Fairness.** WorkManager runs what is enqueued and starts the periodic work
again after each period; launched coroutines run. The user, the server and the
network owe nothing: after the last event the folder is quiet, which is why
failures cannot go on for ever here.

**Proofs** (`FolderProofs`). `DeletesOnlyGone` compares what a pass writes with the
folder at that moment, although the pass read the rows and asked the server
several steps earlier. The invariant adds that UIDs are given out in order: rows
and folder hold only UIDs below the next one (`Given`), what a pass has read is
older than what arrives later (`Past`), and a row the pass has asked for and got
no answer about belongs to a message that is gone (`Answered`), which cannot come
back. Theorems: `TypeCorrect` and `NoLiveRowDeleted`, for any number of UIDs,
messages at the start, events and passes at once, and any size of a page.

## 6. `MsgCache` and `DiskCache`

**The promise.** `MsgCache` is what the callers of `MsgsCacheManager` may rely
on: a key holds what was committed last or nothing, each stored version is
committed at most once, and none comes back. `DiskCache` is shown to implement
it (`KeepsPromise`) with the mapping of `cache` to `Readable`: what opening the
cache and reading would return now, from memory or, when the cache is not open,
from what is on disk.

**State and code.** `disk` is the directory: `journal`, `journal.tmp`,
`journal.bkp` and the clean and dirty file of each key. `mem` are the fields of
`DiskLruCache`, `mem.buffer` the lines that have not left the process. `writer`
are threads in `storeMsgInternal`, outside of the lock between `edit`, the
writes, `commit` and `close`. `lock` is what the holder of the lock has still to
do: the three renames of a rebuild, the entries of `evictAll`, the file and the
journal line of a commit. `cleaner` is the iterator of MsgsCacheCleanerWorker.

**Faults.** The process dies between any two file operations and loses the
buffer, the last line of the journal may be cut; a write of a value or of the
journal fails and the error is hidden (`FaultHidingSink`); a rename or a
deletion fails; the last block of a value cannot be written; the application is
updated, which discards the files. `fileSystem.delete` (OkHttp, external) throws only
when the file is still there, which is what `DetachKeeps` and `abortFails` require.
`detach()` ignores that exception: the temporary file stays (`disk.left`) without an
editor, and the next edit of the key may publish it, when its own file cannot be
created, or write over it. `completeEdit` does not catch it: the edit stays current
although its thread has given up (`Stuck`), and the key is refused until the entry is
removed or the cache is opened again.

**The constant `Gaps`.** Two sequences break the promise, and both are rare: the
cleaner reaches an entry that was evicted and created again since it copied the
entries, and the process dies while the files of an older version are being
deleted, the journal first. With `Gaps = FALSE` they do not happen; the run
`disk_overlap` shows the first (section 9).

**Abstractions.** A value is a version number and how much of it has been
written, of size 1. Left out: creation dates (the cleaner may take any entry
for too old), what a thread still writes to a file another edit has taken over, `setMaxSize`, reading an old value through an editor.

| Run | Instance | What it shows |
|---|---|---|
| `disk_cache` | 2 keys, 2 writers, room for 1 entry, 2 stores, 2 events | the promise, no forgotten file but those whose failed deletion is ignored, the right size, no unfinished body is published |
| `disk_overlap` | 1 key, 2 writers, 3 stores, 2 events, `Gaps` | finding, see section 9 |

Room for one entry makes every second store evict; `RebuildAfter = 2` (2000 in
the code) makes the journal be rebuilt within the run; two events are a crash
and an error, or two crashes, at any step. Keys and writers are symmetric.

**Proofs** (`DiskProofs`, `JournalProofs`, `PromiseProofs`). All are under the
hypothesis `Gaps = FALSE`: with the gaps open the statements are false
(`disk_overlap`). They hold for any sets of keys and writers, any room, any
number of stores, errors and crashes. (`DiskAssumption` has no more keys than
the threshold of a rebuild, 2000 in the code, because the counter of redundant
lines stops there; no proof uses that.) Four layers, each inductive together with
those below it:

* `Base` (`DiskProofs`): types; the list and the map have the same keys
  (`Mapped`); `lock` is one of the sequences the code can leave behind, and says
  whether the cache is open, loaded or neither, which journal writer it has and
  whether the buffer can hold lines (`Locked`); the editor of an entry is a
  writer that is not done with it (`Edits`); an entry has a length only once it
  is readable or between the two steps of its commit (`Sized`). Theorems: `TypeCorrect`,
  `SizeIsRight`, `OneEditorAtATime` (what `disk_overlap` refutes has the gap as
  its only cause).
* `Journaled` and `Knows` (`JournalProofs`): the journal that the next process
  would find covers the files, whatever part of the buffer reaches it: no line in
  the file or the buffer removes a key that has a clean file, and the last word
  on a key with a dirty file or an editor is DIRTY (`Covers`). `NoLeak` speaks about
  the file only and is not inductive, because the buffer will be written; and the
  next rebuild writes what the cache knows, so the cache has to know its files
  (`Knows`). During a rebuild the same holds of `journal.tmp` before it takes
  the place of the journal. Theorem: `JournalCoversFiles`.
* `Stored` (`JournalProofs`): writers have versions of their own (`Numbered`), a dirty
  file holds the version of its editor, or that of an edit that is over and gave it up,
  and a clean file none of an edit that goes on (`Owned`); an entry whose editor is
  `Stuck` belongs to nobody (`NobodyStuck`); what is clean, and not one of the left
  files (`spoilt`), has been written (`Filled`). Theorem: `PublishedIsWritten`.
* `Fresh` and `Recalled` (`PromiseProofs`): a version that has yet to be committed
  has never been readable, and neither has one in a temporary file, left ones
  included, because the next edit of the key may publish it; while the cache is being opened, the entries in memory
  and the lines on disk (those of `journal.tmp` too) agree on which clean files
  belong to unfinished edits, so it does not matter at which step of opening the
  process dies. Theorem: `CacheKeepsPromise`, the refinement of `MsgCache`: each
  step of the cache is a `Commit`, a `Drop` or a stutter. The commit of a new
  entry takes effect with its line in memory (`publish`), that of a readable
  entry with the rename; a crash between the two steps drops the entry, because
  its last line on disk is DIRTY.

## 7. `TaskSlot` and `ControlledRunner`

**The promise.** "Only one will run": `TaskSlot` says that blocks run one at a
time, each at most once, and that a block that was given up never runs.

**State and code.** `activeTask` is the atomic reference, `task[c]` the
`Deferred` call c creates, `seen[c]` what it last read from `activeTask`. Each
access to the reference is a step. `start` and `awaitedOther` both start a lazy
task: whoever awaits it does. `onCompletion` is the completion handler, which
runs some time after the task became final. `cancelCaller` cancels the
coroutine of a caller, as the view model does with its scope.

| Run | Instance | What it shows |
|---|---|---|
| `runners` | 3 calls, two of which cancel and one joins | the slot is implemented, the last block wins, calls end |

Three calls are the smallest number in which a call acts on a task that was
already replaced by a third one.

**Fairness.** Started coroutines go on, completion handlers run, and a block
ends. `CallsEnd` and `LastWins` are about behaviours in which no caller is
cancelled (section 9).

**Proofs** (`RunnerProofs`). That two blocks do not overlap follows from
`Occupied`: whoever may start, cancel or await a task that is not final holds
the one in `activeTask`; a task that was replaced is final, because only its own
handler clears the reference. `RunnerIsASlot` is the refinement of `TaskSlot` for
any set of calls, including cancelled callers: every step maps to a step of the
slot or to a stutter. `TheLastWins` needs `HolderWaits` (the call whose task was
put in last waits for it) and `Victims` (a task is being cancelled only if some
cancelling call is still on its way to take the place). `TypeCorrect` comes along.
The only assumptions are that `NoTask` is no call and `Cancelling` a set of calls.

## 8. `NodeBridge`

**State and code.** `initThread`, `liveData`, `isRunning`, `isReady` and `node` are
the start in `Node.kt` and `NativeNode.kt`. `messageQueue`, `queueHandle`, `async`,
`dispatch`, `closing` and `freed` follow the copy of an answer through
`rn-bridge.cpp`: from the queue to a handle of its own, to the callback on the
stack, to the closed handle, to `free`. `pool` and `got` are the listeners,
`copiedPool` and `it` the copy of the list that `doRegisteredCallbacks` walks
through and where it is. `jsException` is the exception a listener has thrown and nobody
has seen yet, `spoilt` the answers during whose callbacks it was pending.
`known` is history: the listeners there were when a request was sent.

**Steps.** `SendRequest` runs Java on the thread of Node.js and ends with
`rn_bridge_notify`; `RegisterListener` creates the handle of the queue the first
time; `flushMessageQueue`, `startCallbacks`, `notify_message`, `endCallbacks` and
`close_cb` are the callbacks of libuv. The scripts are not part of the
repository: they may register and send at any time, also from a listener, and a
listener may throw (`listenerThrows`). `napi_call_function` then calls nobody as long as
the exception is pending, and `notify_message` does not look at its status; the next
function of the bridge that a script calls makes Node.js throw it there (`Rethrow`).
`uv_async_send` merges sends and is external.

| Run | Instance | What it shows |
|---|---|---|
| `node_bridge` | 2 requests, 3 registrations | memory has one owner, every listener gets every answer once unless a listener threw, no wake-up is lost, a start is reported |

Two requests are enough for one in the queue while the other is in a handle or in a
callback, and for a merged wake-up; three registrations allow a listener before and one
behind the one that throws, or one that is registered during the callbacks.

**Fairness.** The event loop runs every handle that was sent until Node.js
stops; the thread of `Node.init` goes on when it can. Node.js owes nothing: it
may stop, or never send its "listening on".

**Proofs** (`BridgeProofs`). `OneOwner` is inductive with the types and the fact
that at most one callback is on the stack (`OneCallback`), which makes
`startCallbacks` and `endCallbacks` speak about the same message. `Heard` is what
`DeliveredToAll` needs: the answers a listener has got are those that were released
and the one on the stack if the iterator has passed the listener, and the copied
list has every listener there was when the request was sent, unless the answer is
`spoilt`. Theorems: `TypeCorrect`, `MemoryHasOneOwner`, `EveryListenerHears`,
for any number of requests and registrations.

## 9. Where the code and its texts disagree

Shown by runs:

* `folder_empty`: InboxIdleSyncWorker is to load "all new messages which not
  exist in the cache but exist on the server"; without a row it returns, so mail
  that arrives in an emptied INBOX while there is no IDLE connection is not found.
* `disk_overlap`: "an entry may have only one editor at one time". The iterator
  of the cleaner removes by key an entry that has been replaced, together with
  the entry of an edit that goes on; the next edit gets a second editor.

Found on the way, and reproduced with the modules when they were written:

* "Offline. The message will be sent later". If the process dies after the row
  was inserted and before it is QUEUED, the redelivered job finds the row and
  returns (`PrepareOutgoingMessagesJobIntentService.kt:87`); the message stays NEW.
* A forward without forwarded attachments can be delivered twice, without any
  failure: the downloader, when it runs for another message, queues the
  NEW_FORWARDED row, the sender delivers it and records SENT, and then the prepare
  service stores QUEUED in the row it reads again
  (`PrepareOutgoingMessagesJobIntentService.kt:142`); the sender, which removes the
  row only if it is SENT, sends it again.
* A forward can be delivered without its attachments: the downloader queues a
  NEW_FORWARDED row whose attachments the prepare service has not inserted yet
  (`ForwardedAttachmentsDownloaderWorker.kt:143`).
* A message stays SENT: after the update to SENT
  (`MessagesSenderWorker.kt:473`, `:495`) the sender removes the row in a step of its
  own (`:255`). If the process dies or the work is replaced in between, no query
  (`:107`) finds the row again.
* A delivered message is delivered again: the copy phase marks it SENDING
  (`MessagesSenderWorker.kt:342`), and if the process dies then, the next run resets
  it to QUEUED.
* A message stays SENDING, which can be neither deleted nor retried, when the
  account is switched while it is sent and the worker then dies: the next run
  resets the messages of the account that is active now
  (`MessagesSenderWorker.kt`, `resetMsgsWithSendingState`), until the sender is
  enqueued again for the first account.
* "You can't delete a message which is now being sent". The details screen
  looks at the state it was opened with (`MessageDetailsFragment.kt:298`).
* "Message failed to send" is shown for a message that was delivered and whose
  copy could not be appended; *Retry* delivers it again.
* Opening a folder is to "run the tasks which maybe not completed last time",
  but does not enqueue the permanent deletions (`BaseEmailListActivity.kt:44`).
* DeleteMessagesWorker "moves" messages to TRASH; without the MOVE capability
  they are copied, stay in their folder, and lose their row (`Trash = "copy"`).
* A change of the SEEN flag is lost when the user makes it between the second reading
  of the rows and their update (`UpdateMsgsSeenStateWorker.kt:113`, `:116`): there is no
  transaction around the two, and the update writes whole rows. Row and server agree,
  on the older flag.
* MovingToInboxWorker selects what it has moved by uid without the folder
  (equal `Uid` of two messages with different `Home`).
* A caller of `ControlledRunner` that is cancelled between `async` and
  `compareAndSet` leaves a finished task in `activeTask` for ever; later callers
  of *cancelPreviousThenRun* go round in a loop.
* "A read observes the full set of values as they were before or after the commit"
  (`DiskLruCache.kt:67`). A message is readable before its last block is written, because
  `commit()` is called before the stream is closed (`MsgsCacheManager.kt:103`), and stays
  cut off if the process dies then or the block cannot be written. `PublishedBody` says
  that only this block can be missing.
* A temporary file that cannot be deleted when an edit is detached stays
  (`DiskLruCache.kt:848`, "potentially leaked"): the journal does not know it, and an
  edit of the same key that fails to create its own file publishes it, whatever part of
  a message it holds. `NoLeak` and `PublishedBody` exempt such files only.
* After an abort whose deletion fails (`DiskLruCache.kt:544`) a key cannot be stored
  until its entry is evicted or the process starts again.
* A listener that throws keeps the listeners behind it from the answer, which is freed
  all the same (`rn-bridge.cpp:99`), until a script calls the bridge again.
* `Node.init` waits for ever for a Node.js that stops before it is ready (`Node.kt:91`).
* A refresh of a folder with one row deletes that row, because the range of
  known UIDs is empty when its ends are equal (`EmailUtil.kt:525`).
* Older messages are loaded only while the number of rows is a multiple of 45.

## 10. Only model-checked, and not modelled

Liveness (`EventuallySettled`, `NoStarvation`, `RequestsServed`, `Converges`,
`CallsEnd`, `AnswersArrive`, `StartReported`) is checked by TLC only: proofs with
fairness are out of the prover's reach. Every other property of a passing run is
stated by a theorem, under the conditions given in its section where it does not
hold for all values of the constants. Bounds
(`MaxEnv`, `MaxOps`, `MaxEvents`, `MaxStores`, `MaxRunning`) are constants of the
models; the theorems hold for any value.

Not modelled:

* `SingleRunner`: the application does not use it.
* Folder synchronisation of accounts that show encrypted messages only, and
  of the Gmail API with its history id; search; the requests of the user that
  wait in the rows while a page replaces them.
* The action queue, keys and pass phrases in memory, attachment downloads: small
  state machines that are left for later.
* Labels, contacts, notifications, user interface, REST clients, migrations:
  presentation, or a single transaction.
* OpenPGP and MIME processing: libraries and string processing.
* The headers of libnode, V8 and OpenSSL under `src/FlowCrypt/libs`: third-party
  code, of which only what `rn-bridge.cpp` relies on (libuv) is modelled, as external.

Run `tlc -config <X>.cfg <module>` for a run, `tlapm <module>.tla` for the
proofs.
