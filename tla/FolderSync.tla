----------------------------- MODULE FolderSync -----------------------------
(***************************************************************************)
(* The local copy of the INBOX of an IMAP account that shows all messages: *)
(* the rows of the table "messages" and everything that writes them while  *)
(* the server's folder changes.  The view model refreshes the list and     *)
(* loads older pages; the IDLE connection starts workers for added and     *)
(* removed messages, a complete pass after each connection, and a handler  *)
(* for each change of flags; a periodic worker makes the complete pass on  *)
(* a connection of its own.  Nothing orders these passes: each access to   *)
(* the database and each IMAP command is a step.                           *)
(***************************************************************************)
EXTENDS Integers, FiniteSets, FiniteSetsExt, SequencesExt

CONSTANTS MaxUid,        \* the server gives out the UIDs 1 .. MaxUid
          Old,           \* at most so many messages are there at the start
          PageSize,      \* COUNT_OF_LOADED_EMAILS_BY_STEP
          ATTEMPT_COUNT, \* connections one IdleSyncRunnable makes
          MaxEvents,     \* bound: changes of the server's folder, actions of the user and
                         \* failures of connections and IMAP commands
          MaxRunning     \* bound: passes that are under way at the same time

ASSUME BoundsAssumption ==
  /\ {MaxUid, Old, MaxEvents} \subseteq Nat
  /\ {PageSize, ATTEMPT_COUNT, MaxRunning} \subseteq Nat \ {0}
  /\ Old <= MaxUid

Uids == 1 .. MaxUid

\* The unique works of WorkManager, and the two tasks of the view model.
Workers == {"idleSync", "periodic", "added", "removed"}
Passes == Workers \cup {"refresh", "load"}

\* Messages by UID: the server's folder, the rows, the result of a fetch or of a query.
Absent == "absent"
Flags == {"seen", "unseen"}
Folder == [Uids -> Flags \cup {Absent}]

Nothing == [u \in Uids |-> Absent]
In(f) == {u \in Uids : f[u] # Absent}
Only(f, S) == [u \in Uids |-> IF u \in S THEN f[u] ELSE Absent]
Over(f, g) == [u \in Uids |-> IF g[u] # Absent THEN g[u] ELSE f[u]]

VARIABLES box,      \* the server's folder
          uidNext,  \* the UID of the next message
          rows,     \* the rows of the folder, with their flags
          pass,     \* pass[p]: where the pass stands and what it has read
          changed,  \* handlers of changed flags that have not written yet
          idle,     \* the IDLE connection and its number
          left      \* how many of the MaxEvents events may still happen

vars == <<box, uidNext, rows, pass, changed, idle, left>>

Resting == [pc |-> "rest", map |-> Nothing, old |-> 0, new |-> 0, got |-> Nothing, fresh |-> Nothing]
Started(p) == [Resting EXCEPT !.pc = "start"]

\* A mutant: a query without a result gives a UID that is none.
OldestOrNone == IF In(rows) = {} THEN -1 ELSE Min(In(rows))

\* getOldestUIDOfMsgForLabel, getLastUIDOfMsgForLabel (0 when there is no row), getUIDsForLabel.
Oldest == IF In(rows) = {} THEN 0 ELSE Min(In(rows))
Newest == IF In(rows) = {} THEN 0 ELSE Max(In(rows))
CachedUIDs == [u \in Uids |-> IF rows[u] = Absent THEN Absent ELSE "unseen"]

\* IMAPFolder.getMessagesByUID(first, LASTUID): the range n:* always has the last message.
getMessagesFrom(first) ==
  Only(box, {u \in In(box) : u >= first \/ u = Max(In(box))})

\* A mutant: the range leaves out its last UID.
getUpdatedMsgsBelow(first, end) ==
  IF end <= first THEN Nothing ELSE Only(box, first .. end - 1)

\* EmailUtil.getUpdatedMsgsByUID with a last UID.
getUpdatedMsgsByUID(first, end) ==
  IF end <= first THEN Nothing ELSE Only(box, first .. end)

\* A mutant: an empty answer deletes nothing.
genDeleteCandidatesIfAny(map, msgs) == IF In(msgs) = {} THEN {} ELSE In(map) \ In(msgs)

\* EmailUtil.genDeleteCandidates, genNewCandidates and genUpdateCandidates: a UID without a row
\* counts as a message without flags.
genDeleteCandidates(map, msgs) == In(map) \ In(msgs)
genNewCandidates(map, msgs) == Only(msgs, Uids \ In(map))
genUpdateCandidates(map, msgs) ==
  Only(msgs, {u \in In(msgs) : msgs[u] # (IF map[u] = Absent THEN "unseen" ELSE map[u])})

-----------------------------------------------------------------------------
(* Steps of a pass. *)

At(p, pc) == pass[p].pc = pc
Starts(p) ==
  /\ At(p, "start")
  /\ Cardinality({q \in Passes : pass[q].pc \notin {"rest", "start"}}) < MaxRunning
Step(p, r) == pass' = [pass EXCEPT ![p] = r]

\* The queries of MessageDao that a pass makes next.
readOldest(p, pc) == Step(p, [pass[p] EXCEPT !.pc = pc, !.old = Oldest])
readNewest(p, pc) == Step(p, [pass[p] EXCEPT !.pc = pc, !.new = Newest])
readUIDs(p, pc) == Step(p, [pass[p] EXCEPT !.pc = pc, !.map = CachedUIDs])
readMap(p, pc) == Step(p, [pass[p] EXCEPT !.pc = pc, !.map = rows])

\* deleteByUIDsSuspend, updateFlagsSuspend (rows that are there only), insertWithReplaceSuspend.
deleteByUIDs(uids) == rows' = Only(rows, Uids \ uids)
updateFlags(msgs) == rows' = Over(rows, Only(msgs, In(rows)))
insertWithReplace(msgs) == rows' = Over(rows, msgs)

OnlyReads == UNCHANGED <<box, uidNext, rows, changed, idle, left>>
OnlyWrites == UNCHANGED <<box, uidNext, changed, idle, left>>

\* InboxIdleSyncWorker.syncMessages, for the IDLE connection and for SyncInboxWorker.
syncMessages(p) ==
  LET s == pass[p]
  IN \/ Starts(p) /\ readMap(p, "oldest") /\ OnlyReads
     \/ /\ At(p, "oldest") /\ OnlyReads
        /\ IF In(rows) = {} THEN Step(p, Resting) ELSE readOldest(p, "fetch")
     \/ /\ At(p, "fetch") /\ OnlyReads
        /\ Step(p, [s EXCEPT !.pc = "delete", !.got = getMessagesFrom(s.old)])
     \/ /\ At(p, "delete") /\ OnlyWrites
        /\ deleteByUIDs(genDeleteCandidates(s.map, s.got))
        /\ Step(p, [s EXCEPT !.pc = "update", !.old = 0])
     \/ /\ At(p, "update") /\ OnlyWrites
        /\ updateFlags(genUpdateCandidates(s.map, s.got))
        /\ Step(p, [Resting EXCEPT !.pc = "fetchNew", !.got = genNewCandidates(s.map, s.got)])
     \/ /\ At(p, "fetchNew") /\ OnlyReads
        /\ LET new == Only(box, In(s.got))
           IN Step(p, IF In(s.got) = {} THEN Resting ELSE [s EXCEPT !.pc = "insert", !.got = new])
     \/ At(p, "insert") /\ OnlyWrites /\ Step(p, Resting) /\ insertWithReplace(s.got)

\* InboxIdleMsgsAddedWorker.checkAndProcessNewMessages.
checkAndProcessNewMessages ==
  LET p == "added"
      s == pass[p]
  IN \/ Starts(p) /\ readNewest(p, "uids") /\ OnlyReads
     \/ At(p, "uids") /\ readUIDs(p, "fetch") /\ OnlyReads
     \/ /\ At(p, "fetch") /\ OnlyReads
        /\ LET new == Only(getMessagesFrom(s.new), Uids \ In(s.map))
           IN Step(p, IF In(new) = {} THEN Resting
                      ELSE [Resting EXCEPT !.pc = "insert", !.got = new])
     \/ At(p, "insert") /\ OnlyWrites /\ Step(p, Resting) /\ insertWithReplace(s.got)

\* InboxIdleMsgsRemovedWorker.syncInboxAndRemoveRedundantMsgs.
syncInboxAndRemoveRedundantMsgs ==
  LET p == "removed"
      s == pass[p]
  IN \/ Starts(p) /\ readOldest(p, "uids") /\ OnlyReads
     \/ At(p, "uids") /\ readUIDs(p, "fetch") /\ OnlyReads
     \/ /\ At(p, "fetch") /\ OnlyReads
        /\ Step(p, [s EXCEPT !.pc = "delete", !.got = getMessagesFrom(s.old)])
     \/ /\ At(p, "delete") /\ OnlyWrites /\ Step(p, Resting)
        /\ deleteByUIDs(genDeleteCandidates(s.map, s.got))

\* MessagesViewModel.refreshMsgsInternal and handleRefreshedMsgs.
refreshMsgsInternal ==
  LET p == "refresh"
      s == pass[p]
  IN \/ Starts(p) /\ readNewest(p, "oldest") /\ OnlyReads
     \/ At(p, "oldest") /\ readOldest(p, "uids") /\ OnlyReads
     \/ At(p, "uids") /\ readUIDs(p, "fetch") /\ OnlyReads
     \/ /\ At(p, "fetch") /\ OnlyReads
        /\ Step(p, [s EXCEPT !.pc = "fetchNew", !.got = getUpdatedMsgsByUID(s.old, s.new)])
     \/ /\ At(p, "fetchNew") /\ OnlyReads
        /\ LET new == Over(getMessagesFrom(s.new), Only(box, In(s.got)))
           IN Step(p, [s EXCEPT !.pc = "map", !.map = Nothing, !.fresh = Only(new, Uids \ In(s.map))])

handleRefreshedMsgs ==
  LET p == "refresh"
      s == pass[p]
  IN \/ At(p, "map") /\ readMap(p, "delete") /\ OnlyReads
     \/ /\ At(p, "delete") /\ OnlyWrites
        /\ deleteByUIDs(genDeleteCandidates(s.map, s.got))
        /\ Step(p, [s EXCEPT !.pc = "insert", !.old = 0, !.new = 0])
     \/ /\ At(p, "insert") /\ OnlyWrites
        /\ insertWithReplace(genNewCandidates(s.map, s.fresh))
        /\ Step(p, [Resting EXCEPT !.pc = "update", !.got = genUpdateCandidates(s.map, s.got)])
     \/ At(p, "update") /\ OnlyWrites /\ Step(p, Resting) /\ updateFlags(s.got)

\* loadMsgsFromRemoteServerAndStoreLocally and handleReceivedMsgs: the page of PageSize messages,
\* by their numbers in the folder, below as many as there were rows.
loadMsgsFromRemoteServerAndStoreLocally ==
  LET p == "load"
      s == pass[p]
      end == Cardinality(In(box)) - s.old
      start == IF end - PageSize + 1 < 1 THEN 1 ELSE end - PageSize + 1
      number(u) == Cardinality({v \in In(box) : v <= u})
  IN \/ /\ Starts(p) /\ OnlyReads
        /\ Step(p, [Resting EXCEPT !.pc = "insert",
                                   !.got = Only(box, {u \in Uids : number(u) \in start .. end})])
     \/ At(p, "insert") /\ OnlyWrites /\ Step(p, Resting) /\ insertWithReplace(s.got)

-----------------------------------------------------------------------------
(* What starts the passes. *)

Event == left > 0 /\ left' = left - 1

\* refreshMsgs: a refresh that runs is cancelled.
refreshMsgs ==
  /\ Event /\ In(rows) # {}
  /\ Step("refresh", Started("refresh"))
  /\ UNCHANGED <<box, uidNext, rows, changed, idle>>

\* loadMsgsFromRemoteServer: the number of rows, which old stands for, is read at once.
loadMsgsFromRemoteServer ==
  LET totalItemsCount == Cardinality(In(rows))
  IN /\ Event
     /\ totalItemsCount % PageSize = 0
     /\ Step("load", [Started("load") EXCEPT !.old = totalItemsCount])
     /\ UNCHANGED <<box, uidNext, rows, changed, idle>>

\* switchFolder with one of its two ways to clear the rows, then cancelActionsForPreviousFolder.
switchFolder ==
  /\ Event
  /\ rows' = Nothing
  /\ pass' = [pass EXCEPT !["refresh"] = Resting, !["load"] = Resting]
  /\ UNCHANGED <<box, uidNext, changed, idle>>

\* The period of SyncInboxWorker.
enqueuePeriodic ==
  /\ At("periodic", "rest")
  /\ Step("periodic", Started("periodic"))
  /\ OnlyReads

\* IdleSyncRunnable.idle connects: a complete pass replaces the one that runs.
idleConnect ==
  /\ ~idle.on /\ idle.attempt < ATTEMPT_COUNT
  /\ idle' = [idle EXCEPT !.on = TRUE]
  /\ Step("idleSync", Started("idleSync"))
  /\ UNCHANGED <<box, uidNext, rows, changed, left>>

\* The connection breaks, or cannot be made: the next of the attempts.
idleFails ==
  /\ idle.attempt < ATTEMPT_COUNT /\ Event
  /\ idle' = [on |-> FALSE, attempt |-> idle.attempt + 1]
  /\ UNCHANGED <<box, uidNext, rows, pass, changed>>

\* There is no connection, or an IMAP command fails: doWork asks for another try, or ends with a
\* failure (or even a success, when there is no connection object); the view model reports it.
commandFails(p) ==
  /\ pass[p].pc \in {"start", "fetch", "fetchNew"}
  /\ Event
  /\ \/ p \in Workers /\ ~At(p, "start") /\ Step(p, Started(p))
     \/ Step(p, Resting)
  /\ UNCHANGED <<box, uidNext, rows, changed, idle>>

\* The server's folder changes; the listeners of the IDLE connection enqueue a worker, which
\* replaces the one that runs, or launch handleMsgChangedEvent.
messagesAdded ==
  /\ uidNext <= MaxUid /\ Event
  /\ box' = [box EXCEPT ![uidNext] = "unseen"]
  /\ uidNext' = uidNext + 1
  /\ pass' = IF idle.on THEN [pass EXCEPT !["added"] = Started("added")] ELSE pass
  /\ UNCHANGED <<rows, changed, idle>>

messagesRemoved(u) ==
  /\ u \in In(box) /\ Event
  /\ box' = [box EXCEPT ![u] = Absent]
  /\ pass' = IF idle.on THEN [pass EXCEPT !["removed"] = Started("removed")] ELSE pass
  /\ UNCHANGED <<uidNext, rows, changed, idle>>

messageChanged(u) ==
  /\ u \in In(box) /\ Event
  /\ \E f \in Flags \ {box[u]} :
       /\ box' = [box EXCEPT ![u] = f]
       /\ changed' = IF idle.on THEN changed \cup {<<u, f>>} ELSE changed
  /\ UNCHANGED <<uidNext, rows, pass, idle>>

\* updateLocalMsgFlags, at the end of handleMsgChangedEvent.
updateLocalMsgFlags ==
  \E h \in changed :
    /\ rows' = IF rows[h[1]] = Absent THEN rows ELSE [rows EXCEPT ![h[1]] = h[2]]
    /\ changed' = changed \ {h}
    /\ UNCHANGED <<box, uidNext, pass, idle, left>>

-----------------------------------------------------------------------------

\* An earlier session has left the newest messages of the folder, or the folder was empty.
Init ==
  /\ \E n \in 0 .. Old :
       /\ uidNext = n + 1
       /\ box = [u \in Uids |-> IF u <= n THEN "unseen" ELSE Absent]
       /\ \E m \in (IF n = 0 THEN {1} ELSE 1 .. n) : rows = Only(box, m .. MaxUid)
  /\ pass = [p \in Passes |-> Resting]
  /\ changed = {}
  /\ idle = [on |-> FALSE, attempt |-> 0]
  /\ left = MaxEvents

Next ==
  \/ \E p \in {"idleSync", "periodic"} : syncMessages(p)
  \/ checkAndProcessNewMessages \/ syncInboxAndRemoveRedundantMsgs
  \/ refreshMsgsInternal \/ handleRefreshedMsgs \/ loadMsgsFromRemoteServerAndStoreLocally
  \/ refreshMsgs \/ loadMsgsFromRemoteServer \/ switchFolder
  \/ enqueuePeriodic \/ idleConnect \/ idleFails
  \/ \E p \in Passes : commandFails(p)
  \/ messagesAdded
  \/ \E u \in Uids : messagesRemoved(u) \/ messageChanged(u)
  \/ updateLocalMsgFlags

\* WorkManager runs the workers it was given, again after each period, and launched coroutines
\* run; the user, the server and the network owe nothing.
Fairness ==
  /\ \A p \in {"idleSync", "periodic"} : WF_vars(syncMessages(p))
  /\ WF_vars(checkAndProcessNewMessages)
  /\ WF_vars(syncInboxAndRemoveRedundantMsgs)
  /\ WF_vars(refreshMsgsInternal \/ handleRefreshedMsgs)
  /\ WF_vars(loadMsgsFromRemoteServerAndStoreLocally)
  /\ WF_vars(enqueuePeriodic)
  /\ WF_vars(updateLocalMsgFlags)

Spec == Init /\ [][Next]_vars /\ Fairness

-----------------------------------------------------------------------------
(* Properties. *)

TypeOK ==
  /\ box \in Folder /\ rows \in Folder
  /\ uidNext \in 1 .. MaxUid + 1
  /\ \A p \in Passes :
       /\ pass[p].pc \in {"rest", "start", "oldest", "uids", "fetch", "fetchNew", "map",
                          "delete", "update", "insert"}
       /\ {pass[p].map, pass[p].got, pass[p].fresh} \subseteq Folder
       /\ {pass[p].old, pass[p].new} \subseteq 0 .. MaxUid
  /\ changed \subseteq Uids \X Flags
  /\ idle \in [on : BOOLEAN, attempt : 0 .. ATTEMPT_COUNT]

\* The UIDs whose messages a pass has asked the server for before it deletes rows.
Asked(p) ==
  IF p = "refresh"
  THEN IF pass[p].new <= pass[p].old THEN {} ELSE pass[p].old .. pass[p].new
  ELSE pass[p].old .. MaxUid

\* A pass takes the row of a message that is still in the folder only when it did not ask the
\* server for that message, whatever ran since it read the rows and since the server answered.
\* The rows it has not asked for are the ones others inserted between its reads, and the only
\* row of the folder in a refresh.
DeletesOnlyGone ==
  [][\A p \in Passes :
       At(p, "delete") /\ pass'[p] # pass[p] /\ OnlyWrites =>
         \A u \in In(rows) \ In(rows') : u \in Asked(p) => box[u] = Absent]_vars

\* Every message from the oldest row on has a row with its flags, and there are no other rows.
Mirror ==
  \A u \in Uids : u >= Oldest => rows[u] = box[u]

\* Whatever was lost, late or out of order, when changes stop the rows become the folder's
\* messages from the oldest row on, if there is a row at all.
Converges == <>[](In(rows) # {} => Mirror)

\* "This task does a job of loading all new messages which not exist in the cache but exist on
\* the server": a message that stays in the folder leads to a row in the end.
LoadsNew == <>[](In(box) # {} => In(rows) # {})
=============================================================================
