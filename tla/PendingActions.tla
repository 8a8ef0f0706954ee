--------------------------- MODULE PendingActions ---------------------------
(***************************************************************************)
(* Operations on received messages.  Archiving, deleting, moving to INBOX  *)
(* and marking as read are recorded in the "state" column of the local row *)
(* and carried out by six workers (subclasses of BaseSyncWorker), which    *)
(* read the rows in a state, call the server and then update or delete the *)
(* rows.  The workers run at the same time as each other and as the user,  *)
(* are enqueued with ExistingWorkPolicy.REPLACE, and share no lock.        *)
(***************************************************************************)
EXTENDS Naturals, FiniteSets

CONSTANTS
  Msgs,      \* messages that have a local row
  Home,      \* the folder of that row: "INBOX", "TRASH" or "OTHER"
  Uid,       \* the uid of the row, unique within its folder
  Google,    \* the account is a Google one: archiving is offered
  Api,       \* ... and uses the Gmail API instead of IMAP
  Trash,     \* the TRASH folder: "move", "copy" (no MOVE capability) or "none"
  Ops,       \* the operations the user of this instance performs
  MaxOps,    \* bound on their number
  Env,       \* the events this instance includes: "fault", "partial", "late", "cancel", "crash"
  MaxEnv     \* bound on their number

Folders == {"INBOX", "TRASH", "OTHER", "ALL"}
Gone    == "GONE"      \* deleted for good on the server
Absent  == "ABSENT"    \* no local row

ASSUME MsgsAssumption ==
  /\ IsFiniteSet(Msgs)
  /\ Home \in [Msgs -> {"INBOX", "TRASH", "OTHER"}]
  /\ Uid \in [Msgs -> Nat]
  /\ \A m, n \in Msgs : m # n /\ Home[m] = Home[n] => Uid[m] # Uid[n]
ASSUME ServerAssumption ==
  /\ Google \in BOOLEAN /\ Api \in BOOLEAN /\ (Api => Google)
  /\ Trash \in {"move", "copy", "none"}
  /\ Trash = "none" => \A m \in Msgs : Home[m] # "TRASH"
ASSUME BoundsAssumption == MaxOps \in Nat /\ MaxEnv \in Nat

Workers == {"archive", "trash", "destroy", "empty", "inbox", "seen"}

States == {"NONE", "PENDING_ARCHIVING", "PENDING_DELETING", "PENDING_DELETING_PERMANENTLY",
           "PENDING_EMPTY_TRASH", "PENDING_MOVE_TO_INBOX", "PENDING_MARK_READ",
           "PENDING_MARK_UNREAD"}

VARIABLES
  st, seen,      \* the local rows: state and SEEN flag
  place, rseen,  \* the server: folder of each message and its SEEN flag
  work,          \* WorkManager: state of the unique works
  pc,            \* program counter of each worker
  list,          \* the candidates each worker has read
  grp,           \* ... those of one folder, which it handles now
  rest,          \* ... and those of the folders it has still to handle
  mark,          \* the flag UpdateMsgsSeenStateWorker sets in its present pass
  copy,          \* the flags in the copies of the rows each worker is to write back
  snack,         \* messages with an "Undo" on the screen
  undo,          \* messages whose "Undo" is still to be written to the row
  posted,        \* the worker msgStatesLiveData asks for, not yet seen by its observer
  late,          \* remote calls of cancelled workers that are still under way
  ops, env       \* number of user operations and of environment events so far

local  == <<st, seen>>
server == <<place, rseen>>
data   == <<list, grp, rest, mark, copy>>
bounds == <<ops, env>>
screen == <<snack, undo, posted>>
vars   == <<local, server, work, pc, data, screen, late, bounds>>

Happens(e) == e \in Env /\ env < MaxEnv /\ env' = env + 1

-----------------------------------------------------------------------------
(* Work that is enqueued, replaced and cancelled *)

\* A coroutine that is cancelled makes no further database call; a blocking remote call that
\* has started may still reach the server.
Calls(W) == {[by |-> w, grp |-> grp[w], mark |-> mark] : w \in {v \in W : pc[v] = "call"}}

Forget(f, W) == [w \in Workers |-> IF w \in W THEN {} ELSE f[w]]

Idle(W) ==
  /\ pc' = [w \in Workers |-> IF w \in W THEN "idle" ELSE pc[w]]
  /\ list' = Forget(list, W) /\ grp' = Forget(grp, W) /\ rest' = Forget(rest, W)
  /\ mark' = IF "seen" \in W THEN FALSE ELSE mark
  /\ UNCHANGED copy

Abandon(W) ==
  /\ Idle(W)
  /\ late' \in {late} \cup (IF "late" \in Env THEN {late \cup Calls(W)} ELSE {})

\* ExistingWorkPolicy.REPLACE
Enqueue(W) ==
  /\ work' = [w \in Workers |-> IF w \in W THEN "enqueued" ELSE work[w]]
  /\ Abandon(W)

End(w, result) ==
  /\ work' = [work EXCEPT ![w] = result]
  /\ Idle({w})

-----------------------------------------------------------------------------
(* The user.  Each operation overwrites the state of the row and posts the new state, whose *)
(* observer enqueues the worker. *)

Op(o) == o \in Ops /\ ops < MaxOps /\ ops' = ops + 1

SetState(m, s, flag) ==
  /\ st[m] # Absent
  /\ st' = [st EXCEPT ![m] = s] /\ seen' = [seen EXCEPT ![m] = flag]

\* changeMsgsState: the row, then postValue.
Request(m, s, flag, w) ==
  /\ SetState(m, s, flag)
  /\ posted' = w
  /\ UNCHANGED <<server, work, pc, data, snack, undo, late, env>>

\* A value that is posted before the observer has run replaces the one before it.
Observe ==
  /\ posted # "none"
  /\ Enqueue({posted})
  /\ posted' = "none"
  /\ UNCHANGED <<local, server, snack, undo, bounds>>

Archive(m) ==
  /\ Op("archive") /\ Google /\ Home[m] = "INBOX"
  /\ Request(m, "PENDING_ARCHIVING", seen[m], "archive")

\* A swipe archives later, when the snackbar with "Undo" goes away.
Swipe(m) ==
  /\ Op("swipe") /\ Google /\ Home[m] = "INBOX" /\ st[m] # "PENDING_ARCHIVING"
  /\ SetState(m, "PENDING_ARCHIVING", seen[m])
  /\ snack' = {m}
  /\ UNCHANGED <<server, work, pc, data, undo, posted, late, env>>

\* "Undo" launches a coroutine that resets the row, and asks for the worker right away for the
\* other messages that may wait to be archived.
Undo(m) ==
  /\ m \in snack
  /\ snack' = snack \ {m} /\ undo' = undo \cup {m} /\ posted' = "archive"
  /\ UNCHANGED <<local, server, work, pc, data, late, bounds>>

UndoWrite(m) ==
  /\ m \in undo
  /\ IF st[m] # Absent THEN SetState(m, "NONE", seen[m]) ELSE UNCHANGED local
  /\ undo' = undo \ {m}
  /\ UNCHANGED <<server, work, pc, data, snack, posted, late, bounds>>

Dismiss(m) ==
  /\ m \in snack
  /\ snack' = snack \ {m} /\ posted' = "archive"
  /\ UNCHANGED <<local, server, work, pc, data, undo, late, bounds>>

Delete(m) ==
  /\ Op("delete") /\ Home[m] # "TRASH"
  /\ Request(m, "PENDING_DELETING", seen[m], "trash")

DeletePermanently(m) ==
  /\ Op("destroy") /\ Home[m] = "TRASH"
  /\ Request(m, "PENDING_DELETING_PERMANENTLY", seen[m], "destroy")

MoveToInbox(m) ==
  /\ Op("inbox") /\ Home[m] # "INBOX"
  /\ Request(m, "PENDING_MOVE_TO_INBOX", seen[m], "inbox")

MarkRead(m) ==
  /\ Op("read") /\ ~seen[m]
  /\ Request(m, "PENDING_MARK_READ", TRUE, "seen")

\* Mutant: the flag is changed without recording the request.
MarkUnreadUnrecorded(m) ==
  /\ Op("unread") /\ seen[m]
  /\ Request(m, "NONE", FALSE, "seen")

MarkUnread(m) ==
  /\ Op("unread") /\ seen[m]
  /\ Request(m, "PENDING_MARK_UNREAD", FALSE, "seen")

EmptyTrash ==
  /\ Op("empty") /\ Trash # "none"
  /\ Enqueue({"empty"})
  /\ UNCHANGED <<local, server, screen, env>>

\* Mutant: the worker for the INBOX is forgotten.
ReopenedLess == {"archive", "seen", "trash"}

\* onFolderChanged: "run the tasks which maybe not completed last time".
Reopened == {"archive", "seen", "trash", "inbox"}

OpenFolder ==
  /\ \/ Op("open")
     \/ (\A w \in Workers : work[w] = "none") /\ posted = "none" /\ (\E m \in Msgs : st[m] \notin {"NONE", Absent})
        /\ UNCHANGED ops
  /\ Enqueue(Reopened)
  /\ UNCHANGED <<local, server, screen, env>>

-----------------------------------------------------------------------------
(* The server *)

\* Mutant: permanent deletion finds the message wherever it is.
ReachesAnywhere(w, m) ==
  IF w \in {"destroy", "empty"} THEN place[m] # Gone ELSE place[m] = Home[m]

\* Whether the call of worker w finds message m.  IMAP looks for the uid in one folder, the
\* Gmail API addresses the message by its id, wherever it is.
Reaches(w, m) ==
  /\ place[m] # Gone
  /\ w = "archive" => place[m] = "INBOX"
  /\ w = "empty" => place[m] = "TRASH"
  /\ w = "trash" /\ ~Api => Trash = "move"
  /\ w \in {"trash", "destroy", "inbox", "seen"} /\ ~Api => place[m] = Home[m]
  /\ w = "inbox" /\ Api => Home[m] = "TRASH" \/ place[m] # "TRASH"

\* Mutant: a folder that does not exist.
TargetUnknown == [archive |-> "ALL", trash |-> "TRASH", inbox |-> "Inbox", destroy |-> Gone, empty |-> Gone]

\* Where the call of a worker leaves a message.
Target == [archive |-> "ALL", trash |-> "TRASH", inbox |-> "INBOX", destroy |-> Gone, empty |-> Gone]

Apply(w, G, flag) ==
  IF w = "seen"
    THEN /\ rseen' = [m \in Msgs |-> IF m \in G /\ Reaches(w, m) THEN flag ELSE rseen[m]]
         /\ UNCHANGED place
    ELSE /\ place' = [m \in Msgs |-> IF m \in G /\ Reaches(w, m) THEN Target[w] ELSE place[m]]
         /\ UNCHANGED rseen

\* EmptyTrashWorker takes the messages the folder has; with the Gmail API it asks for them last.
Listed(w) == IF w = "empty" /\ Api THEN {m \in Msgs : place[m] = "TRASH"} ELSE grp[w]

-----------------------------------------------------------------------------
(* BaseSyncWorker.doWork and the six subclasses *)

Start(w) ==
  /\ work[w] = "enqueued"
  /\ IF w \in {"destroy", "empty"} /\ Trash = "none" THEN End(w, "none")
     ELSE /\ work' = [work EXCEPT ![w] = "running"]
          /\ pc' = [pc EXCEPT ![w] = "read"] /\ UNCHANGED data
  /\ UNCHANGED <<local, server, screen, late, bounds>>

\* No connection object for the account yet: nothing is done, and the work counts as done.
StartUnconnected(w) ==
  /\ work[w] = "enqueued" /\ ~Api /\ Happens("fault")
  /\ End(w, "none")
  /\ UNCHANGED <<local, server, screen, late, ops>>

\* The state of the rows a worker looks for.
Wanted == [archive |-> "PENDING_ARCHIVING", trash |-> "PENDING_DELETING",
           destroy |-> "PENDING_DELETING_PERMANENTLY", inbox |-> "PENDING_MOVE_TO_INBOX",
           seen    |-> IF mark THEN "PENDING_MARK_READ" ELSE "PENDING_MARK_UNREAD"]

\* The candidates of one folder become the current group.
Group(w, S) ==
  \E f \in {Home[m] : m \in S} :
    /\ grp' = [grp EXCEPT ![w] = {m \in S : Home[m] = f}]
    /\ rest' = [rest EXCEPT ![w] = {m \in S : Home[m] # f}]

\* The end of a pass: UpdateMsgsSeenStateWorker marks as unread first, then as read.
NextPass(w) ==
  IF w = "seen" /\ ~mark
    THEN mark' = TRUE /\ pc' = [pc EXCEPT ![w] = "read"] /\ UNCHANGED <<work, list, grp, rest, copy>>
    ELSE End(w, "none")

Read(w) ==
  /\ pc[w] = "read" /\ w # "empty"
  /\ LET S == {m \in Msgs : st[m] = Wanted[w]} IN
       IF S = {} THEN NextPass(w)
       ELSE /\ list' = [list EXCEPT ![w] = S]
            /\ Group(w, S)
            /\ copy' = IF w = "inbox" THEN [copy EXCEPT ![w] = seen] ELSE copy
            /\ pc' = [pc EXCEPT ![w] = "call"]
            /\ UNCHANGED <<work, mark>>
  /\ UNCHANGED <<local, server, screen, late, bounds>>

\* EmptyTrashWorker marks the rows of the folder before it calls the server.
ReadTrash ==
  LET w == "empty"
      S == {m \in Msgs : place[m] = "TRASH"}
  IN /\ pc[w] = "read"
     /\ IF S = {} /\ ~Api THEN End(w, "none") /\ UNCHANGED st
        ELSE /\ st' = [m \in Msgs |-> IF Home[m] = "TRASH" /\ st[m] # Absent
                                      THEN "PENDING_EMPTY_TRASH" ELSE st[m]]
             /\ grp' = [grp EXCEPT ![w] = S]
             /\ pc' = [pc EXCEPT ![w] = "call"] /\ UNCHANGED <<work, list, rest, mark, copy>>
     /\ UNCHANGED <<seen, server, screen, late, bounds>>

\* The remote call.  With the Gmail API the answers for the single messages of a batch are
\* ignored, so some of them may not have been moved to TRASH.
Call(w) ==
  /\ pc[w] = "call" /\ ~(w = "destroy" /\ Api)
  /\ \/ Apply(w, Listed(w), mark) /\ UNCHANGED env
     \/ /\ w = "trash" /\ Api /\ Happens("partial")
        /\ \E S \in SUBSET grp[w] : S # grp[w] /\ Apply(w, S, mark)
  /\ pc' = [pc EXCEPT ![w] = "write"]
  /\ UNCHANGED <<local, work, data, screen, late, ops>>

\* What the exception of a remote call leads to.  EmptyTrashWorker clears the state of every
\* row in the folder first.
Fail(w, result) ==
  /\ End(w, result)
  /\ st' = [m \in Msgs |-> IF w = "empty" /\ Home[m] = "TRASH" /\ st[m] # Absent
                           THEN "NONE" ELSE st[m]]
  /\ UNCHANGED <<seen, screen, late, ops>>

\* Mutant: the exception is swallowed and the worker goes on.
CallFailsIgnored(w) ==
  /\ pc[w] = "call" /\ Happens("fault")
  /\ pc' = [pc EXCEPT ![w] = "write"]
  /\ UNCHANGED <<local, server, work, data, screen, late, ops>>

\* CommonConnectionException: the work is retried; any other exception: it fails for good.
\* The call may have reached the server.
CallFails(w) ==
  /\ pc[w] = "call" /\ Happens("fault")
  /\ \/ UNCHANGED server
     \/ Apply(w, Listed(w), mark)
  /\ \E result \in {"enqueued", "none"} : Fail(w, result)

\* batchDelete answers without a body, for which the client returns null, which
\* executeGMailAPICall takes for a failure.
CallAnswersNothing(w) ==
  /\ pc[w] = "call" /\ w = "destroy" /\ Api
  /\ Apply(w, grp[w], mark)
  /\ Fail(w, "none")
  /\ UNCHANGED env

\* After the update of the rows: the next folder, the loop again, or the next pass.
Continue(w) ==
  IF rest[w] # {} THEN Group(w, rest[w]) /\ pc' = [pc EXCEPT ![w] = "call"] /\ UNCHANGED <<work, list, mark, copy>>
  ELSE IF w = "seen" THEN NextPass(w)
  ELSE pc' = [pc EXCEPT ![w] = "read"] /\ UNCHANGED <<work, data>>

\* deleteByUIDs, and the deletion of all rows of TRASH: whatever their state is by now.
DeleteRows(w) ==
  LET S == IF w = "empty" THEN {m \in Msgs : Home[m] = "TRASH"} ELSE grp[w] IN
  /\ pc[w] = "write" /\ w \in {"archive", "trash", "destroy", "empty"}
  /\ st' = [m \in Msgs |-> IF m \in S THEN Absent ELSE st[m]]
  /\ IF w = "empty" THEN End(w, "none") ELSE Continue(w)
  /\ UNCHANGED <<seen, server, screen, late, bounds>>

\* MovingToInboxWorker selects the candidates by uid alone, and writes back the rows as it
\* read them.
MovedRows == {m \in list["inbox"] : \E n \in grp["inbox"] : Uid[m] = Uid[n]}

\* Mutant: the state of all candidates is reset after the first folder.
WriteMovedAll ==
  LET w == "inbox" IN
  /\ pc[w] = "write"
  /\ st' = [m \in Msgs |-> IF m \in list[w] /\ st[m] # Absent THEN "NONE" ELSE st[m]]
  /\ Continue(w)
  /\ UNCHANGED <<seen, server, screen, late, bounds>>

WriteMoved ==
  LET w == "inbox"
      fromTrash == \E m \in grp[w] : Home[m] = "TRASH"
  IN /\ pc[w] = "write"
     /\ st' = [m \in Msgs |-> IF m \notin MovedRows \/ st[m] = Absent THEN st[m]
                              ELSE IF fromTrash THEN Absent ELSE "NONE"]
     /\ seen' = [m \in Msgs |-> IF m \in MovedRows /\ st[m] # Absent /\ ~fromTrash
                                THEN copy[w][m] ELSE seen[m]]
     /\ Continue(w)
     /\ UNCHANGED <<server, screen, late, bounds>>

\* Mutant: the rows are read again, but not compared with the request that was carried out.
ReadAgainBlind ==
  LET w == "seen" IN
  /\ pc[w] = "write"
  /\ copy' = [copy EXCEPT ![w] = seen]
  /\ pc' = [pc EXCEPT ![w] = "update"]
  /\ UNCHANGED <<local, server, work, list, grp, rest, mark, screen, late, bounds>>

\* UpdateMsgsSeenStateWorker reads the rows again and leaves out those the user has changed.
ReadAgain ==
  LET w == "seen" IN
  /\ pc[w] = "write"
  /\ grp' = [grp EXCEPT ![w] = {m \in @ : st[m] = Wanted[w]}]
  /\ copy' = [copy EXCEPT ![w] = seen]
  /\ pc' = [pc EXCEPT ![w] = "update"]
  /\ UNCHANGED <<local, server, work, list, rest, mark, screen, late, bounds>>

\* ... and then updates whole rows, in a transaction of its own: a request made since it read
\* them is overwritten, the flag with it.
WriteSeen ==
  LET w == "seen"
      W == {m \in grp[w] : st[m] # Absent}
  IN /\ pc[w] = "update"
     /\ st' = [m \in Msgs |-> IF m \in W THEN "NONE" ELSE st[m]]
     /\ seen' = [m \in Msgs |-> IF m \in W THEN copy[w][m] ELSE seen[m]]
     /\ Continue(w)
     /\ UNCHANGED <<server, screen, late, bounds>>

-----------------------------------------------------------------------------
(* The environment *)

LateCall(c) ==
  /\ Apply(c.by, c.grp, c.mark)
  /\ late' = late \ {c}
  /\ UNCHANGED <<local, work, pc, data, screen, bounds>>

\* Switching the account cancels all work with the tag TAG_SYNC.
CancelAll ==
  /\ Happens("cancel")
  /\ work' = [w \in Workers |-> "none"]
  /\ Abandon(Workers)
  /\ UNCHANGED <<local, server, screen, ops>>

Crash ==
  /\ Happens("crash")
  /\ work' = [w \in Workers |-> IF work[w] = "running" THEN "enqueued" ELSE work[w]]
  /\ Idle(Workers)
  /\ snack' = {} /\ undo' = {} /\ posted' = "none" /\ late' = {}
  /\ UNCHANGED <<local, server, ops>>

-----------------------------------------------------------------------------
Init ==
  /\ st = [m \in Msgs |-> "NONE"] /\ seen \in [Msgs -> BOOLEAN]
  /\ place = Home /\ rseen = seen
  /\ work = [w \in Workers |-> "none"] /\ pc = [w \in Workers |-> "idle"]
  /\ list = [w \in Workers |-> {}] /\ grp = list /\ rest = list
  /\ mark = FALSE /\ copy = [w \in Workers |-> seen]
  /\ snack = {} /\ undo = {} /\ posted = "none" /\ late = {} /\ ops = 0 /\ env = 0

User ==
  \/ \E m \in Msgs : \/ Archive(m) \/ Swipe(m) \/ Undo(m) \/ UndoWrite(m) \/ Dismiss(m)
                     \/ Delete(m) \/ DeletePermanently(m) \/ MoveToInbox(m)
                     \/ MarkRead(m) \/ MarkUnread(m)
  \/ Observe \/ EmptyTrash \/ OpenFolder

Worker(w) ==
  \/ Start(w) \/ StartUnconnected(w) \/ Read(w) \/ Call(w) \/ CallFails(w)
  \/ CallAnswersNothing(w) \/ DeleteRows(w)
  \/ w = "empty" /\ ReadTrash
  \/ w = "inbox" /\ WriteMoved
  \/ w = "seen" /\ (ReadAgain \/ WriteSeen)

Environment == CancelAll \/ Crash \/ \E c \in late : LateCall(c)

Next == User \/ (\E w \in Workers : Worker(w)) \/ Environment

Spec == Init /\ [][Next]_vars

\* The workers run, snackbars go away, and the user opens a folder again some time.
LiveSpec ==
  /\ Spec
  /\ \A w \in Workers : WF_vars(Worker(w))
  /\ \A m \in Msgs : WF_vars(Dismiss(m)) /\ WF_vars(UndoWrite(m))
  /\ WF_vars(Observe)
  /\ WF_vars(OpenFolder /\ UNCHANGED ops)

-----------------------------------------------------------------------------
(* Properties *)

\* The variables of the rows, the server and the workers have their types.
TypeOK ==
  /\ st \in [Msgs -> States \cup {Absent}] /\ seen \in [Msgs -> BOOLEAN]
  /\ place \in [Msgs -> Folders \cup {Gone}] /\ rseen \in [Msgs -> BOOLEAN]
  /\ work \in [Workers -> {"none", "enqueued", "running"}]
  /\ pc \in [Workers -> {"idle", "read", "call", "write", "update"}]
  /\ list \in [Workers -> SUBSET Msgs] /\ grp \in [Workers -> SUBSET Msgs]
  /\ rest \in [Workers -> SUBSET Msgs] /\ mark \in BOOLEAN
  /\ copy \in [Workers -> [Msgs -> BOOLEAN]]
  /\ snack \subseteq Msgs /\ undo \subseteq Msgs /\ posted \in Workers \cup {"none"}
  /\ late \subseteq [by : Workers, grp : SUBSET Msgs, mark : BOOLEAN]
  /\ ops \in Nat /\ env \in Nat

\* A row is removed only when the message has left that folder on the server: the workers
\* "should delete local messages only if we'll success delete remote messages".
GoneMeansDone == \A m \in Msgs : st[m] = Absent => place[m] # Home[m]

\* A message is deleted for good only out of TRASH: one that the user has brought back to
\* INBOX in time survives an outdated list of DeleteMessagesPermanentlyWorker or EmptyTrashWorker.
DestroyedFromTrash == [][\A m \in Msgs : place'[m] = Gone => place[m] \in {"TRASH", Gone}]_vars

\* UpdateMsgsSeenStateWorker is about to write a row as it was before the last request.
Overwritten(m) ==
  pc["seen"] = "update" /\ m \in grp["seen"] /\ seen[m] # copy["seen"][m]

\* A row whose request for a flag is cleared shows the flag the server has (if the server still
\* has the message), and that is the flag that was asked for, even if the user changes the
\* request while the worker calls the server.  Only a request that falls between the second
\* reading of the rows and their update is lost.
ClearedFlagAgrees ==
  [][\A m \in Msgs :
       st[m] \in {"PENDING_MARK_READ", "PENDING_MARK_UNREAD"} /\ st'[m] = "NONE" /\ place'[m] # Gone
         => /\ seen'[m] = rseen'[m]
            /\ rseen'[m] = (st[m] = "PENDING_MARK_READ") \/ Overwritten(m)]_vars

\* "This task moves messages back to INBOX": MovingToInboxWorker is done with a message only
\* when the message has left its folder on the server.
RestoreServed ==
  [][pc["inbox"] = "write" /\ pc'["inbox"] # "write" =>
       \A m \in Msgs : st[m] = "PENDING_MOVE_TO_INBOX" /\ st'[m] \in {"NONE", Absent}
                         => place'[m] # Home[m]]_vars

\* When no call is under way, the flag of a row without a request agrees with the server, if
\* the server still has the message.
SeenConverges ==
  (\A w \in Workers : pc[w] = "idle") /\ late = {} =>
    \A m \in Msgs : st[m] = "NONE" /\ place[m] # Gone => seen[m] = rseen[m]

\* The requests that opening a folder takes up again do not stay for ever: they are carried
\* out, or the message is to be deleted for good instead, in spite of failures, cancellations
\* and crashes.
Retried == {"PENDING_ARCHIVING", "PENDING_DELETING", "PENDING_MOVE_TO_INBOX",
            "PENDING_MARK_READ", "PENDING_MARK_UNREAD"}
RequestsServed == \A m \in Msgs : st[m] \in Retried ~> st[m] \notin Retried

=============================================================================
