---------------------------- MODULE PendingProofs ----------------------------
(***************************************************************************)
(* Proofs about PendingActions.  A row is removed by a worker that decided *)
(* to do so before its remote call and does not look at the row again.     *)
(* The invariant records why that is right: every list a worker carries    *)
(* fits the worker (Fit), and once the call has returned the messages of   *)
(* the list are not in the folder of their rows, where no other worker can *)
(* bring them back (Away, Leaves).                                         *)
(***************************************************************************)
EXTENDS PendingActions, TLAPS

\* The servers for which the theorem holds.  Without MOVE a message is only copied to TRASH
\* and loses its row all the same; the answers for single messages of a batch are ignored; and
\* MovedRows takes messages of several folders with equal uids for moved together.
Regular ==
  /\ Api \/ Trash = "move"
  /\ Api => "partial" \notin Env
  /\ \A m, n \in Msgs : m # n => Uid[m] # Uid[n]

\* The messages worker w may have on its lists.
Fit(w, m) ==
  /\ w = "archive" => Home[m] = "INBOX"
  /\ w = "trash" => Home[m] # "TRASH"
  /\ w = "destroy" => Home[m] = "TRASH"
  /\ w = "inbox" => Home[m] # "INBOX"

Rows ==
  /\ st \in [Msgs -> States \cup {Absent}] /\ seen \in [Msgs -> BOOLEAN]
  /\ \A m \in Msgs : /\ st[m] = "PENDING_ARCHIVING" => Fit("archive", m)
                     /\ st[m] = "PENDING_DELETING" => Fit("trash", m)
                     /\ st[m] = "PENDING_DELETING_PERMANENTLY" => Fit("destroy", m)
                     /\ st[m] = "PENDING_MOVE_TO_INBOX" => Fit("inbox", m)

Server ==
  /\ place \in [Msgs -> Folders \cup {Gone}] /\ rseen \in [Msgs -> BOOLEAN]

Lists ==
  /\ work \in [Workers -> {"none", "enqueued", "running"}]
  /\ pc \in [Workers -> {"idle", "read", "call", "write", "update"}]
  /\ list \in [Workers -> SUBSET Msgs] /\ grp \in [Workers -> SUBSET Msgs]
  /\ rest \in [Workers -> SUBSET Msgs] /\ mark \in BOOLEAN
  /\ copy \in [Workers -> [Msgs -> BOOLEAN]]
  /\ \A w \in Workers : \A m \in list[w] \cup grp[w] \cup rest[w] : Fit(w, m)

Late ==
  /\ late \subseteq [by : Workers, grp : SUBSET Msgs, mark : BOOLEAN]
  /\ \A c \in late : \A m \in c.grp : Fit(c.by, m)

Screen ==
  /\ snack \subseteq Msgs /\ undo \subseteq Msgs /\ posted \in Workers \cup {"none"}
  /\ ops \in Nat /\ env \in Nat

\* What a worker knows of the server.  EmptyTrashWorker removes all rows of TRASH, so it knows
\* about all of them.
Away ==
  /\ \A w \in {"archive", "trash", "destroy", "inbox"} :
       pc[w] = "write" => \A m \in grp[w] : place[m] # Home[m]
  /\ pc["empty"] = "write" => \A m \in Msgs : Home[m] = "TRASH" => place[m] # "TRASH"
  /\ pc["empty"] = "call" /\ ~Api =>
       \A m \in Msgs : Home[m] = "TRASH" /\ place[m] = "TRASH" => m \in grp["empty"]

Base == Rows /\ Server /\ Lists /\ Late /\ Screen

Inv == Base /\ (Regular => Away /\ GoneMeansDone)

\* No message comes back to the folder of its row.
Leaves == \A m \in Msgs : place[m] # Home[m] => place'[m] # Home[m]

\* No worker gets to the point where it relies on Away.
Carry ==
  /\ \A w \in Workers : pc'[w] = "write" => pc[w] = "write" /\ grp'[w] = grp[w]
  /\ pc'["empty"] = "call" => pc["empty"] = "call" /\ grp'["empty"] = grp["empty"]

-----------------------------------------------------------------------------
(* The server *)

\* What a remote call of a worker with a fitting list does to the server.
LEMMA ApplyFacts ==
  ASSUME Server, NEW w \in Workers, NEW G, NEW flag \in BOOLEAN,
         \A m \in G : Fit(w, m), Apply(w, G, flag)
  PROVE  Server' /\ Leaves
<1> USE MsgsAssumption
<1>1. CASE w = "seen"
  BY <1>1 DEF Apply, Server, Leaves
<1>2. CASE w # "seen"
  <2>1. /\ place' = [m \in Msgs |-> IF m \in G /\ Reaches(w, m) THEN Target[w] ELSE place[m]]
        /\ rseen' = rseen
    BY <1>2 DEF Apply
  <2>2. Target[w] \in Folders \cup {Gone}
    BY <1>2 DEF Target, Folders, Workers
  <2>3. \A m \in Msgs : Home[m] \in {"INBOX", "TRASH", "OTHER"}
    OBVIOUS
  <2>4. \A m \in Msgs : Fit(w, m) => Target[w] # Home[m]
    BY <1>2, <2>3 DEF Target, Fit, Workers, Gone
  <2> QED
    BY <2>1, <2>2, <2>4 DEF Server, Leaves
<1> QED
  BY <1>1, <1>2

\* After the call the messages of the list are not in the folder of their rows.
LEMMA ApplyAway ==
  ASSUME Regular, Server, NEW w \in {"archive", "trash", "destroy", "inbox"},
         NEW G \in SUBSET Msgs, NEW flag \in BOOLEAN,
         \A m \in G : Fit(w, m), Apply(w, G, flag)
  PROVE  \A m \in G : place'[m] # Home[m]
<1>1. place' = [m \in Msgs |-> IF m \in G /\ Reaches(w, m) THEN Target[w] ELSE place[m]]
  BY DEF Apply
<1>2. SUFFICES ASSUME NEW m \in G PROVE place'[m] # Home[m]
  OBVIOUS
<1>3. Home[m] \in {"INBOX", "TRASH", "OTHER"} /\ Fit(w, m) /\ m \in Msgs
  BY MsgsAssumption
<1>4. CASE Reaches(w, m)
  <2>1. Target[w] # Home[m]
    BY <1>3 DEF Target, Fit, Gone
  <2> QED
    BY <1>1, <1>3, <1>4, <2>1
<1>5. CASE ~Reaches(w, m)
  <2>1. place[m] # Home[m]
    BY <1>3, <1>5 DEF Reaches, Regular, Fit, Gone
  <2> QED
    BY <1>1, <1>3, <1>5, <2>1
<1> QED
  BY <1>4, <1>5

\* Away survives every step in which no worker gets further.
LEMMA AwayKept ==
  ASSUME Lists, Server, Away, Leaves, Carry
  PROVE  Away'
BY MsgsAssumption DEF Lists, Server, Away, Leaves, Carry, Workers

-----------------------------------------------------------------------------
(* WorkManager *)

\* Workers that become idle forget their lists.
LEMMA IdleFacts ==
  ASSUME Lists, NEW W, Idle(W), work' \in [Workers -> {"none", "enqueued", "running"}]
  PROVE  Lists' /\ Carry
BY DEF Lists, Idle, Forget, Carry, Workers

\* A replaced worker leaves at most a call with a fitting list behind.
LEMMA AbandonFacts ==
  ASSUME Lists, Late, NEW W \in SUBSET Workers, Abandon(W)
  PROVE  Late'
<1>1. Calls(W) \subseteq [by : Workers, grp : SUBSET Msgs, mark : BOOLEAN]
  BY DEF Calls, Lists
<1>2. \A c \in Calls(W) : \A m \in c.grp : Fit(c.by, m)
  BY DEF Calls, Lists, Fit
<1> QED
  BY <1>1, <1>2 DEF Abandon, Late

LEMMA EnqueueFacts ==
  ASSUME Lists, Late, NEW W \in SUBSET Workers, Enqueue(W)
  PROVE  Lists' /\ Late' /\ Carry
<1>1. work' \in [Workers -> {"none", "enqueued", "running"}] /\ Abandon(W) /\ Idle(W)
  BY DEF Lists, Enqueue, Abandon
<1> QED
  BY <1>1, IdleFacts, AbandonFacts

LEMMA EndFacts ==
  ASSUME Lists, NEW w \in Workers, NEW result \in {"none", "enqueued"}, End(w, result)
  PROVE  Lists' /\ Carry
<1>1. work' \in [Workers -> {"none", "enqueued", "running"}] /\ Idle({w})
  BY DEF Lists, End
<1> QED
  BY <1>1, IdleFacts

\* The next pass of the worker for the flags.
LEMMA NextPassFacts ==
  ASSUME Lists, NEW w \in Workers, NextPass(w)
  PROVE  Lists' /\ Carry
<1>1. CASE w = "seen" /\ ~mark
  BY <1>1 DEF NextPass, Lists, Carry, Workers
<1>2. CASE ~(w = "seen" /\ ~mark)
  BY <1>2, EndFacts DEF NextPass
<1> QED
  BY <1>1, <1>2

\* A worker that goes on with the next folder, or looks for further candidates.
LEMMA ContinueFacts ==
  ASSUME Lists, NEW w \in Workers, w # "empty", Continue(w)
  PROVE  Lists' /\ Carry
<1>1. CASE rest[w] # {}
  BY <1>1 DEF Continue, Group, Lists, Carry, Workers
<1>2. CASE rest[w] = {} /\ w = "seen"
  BY <1>2, NextPassFacts DEF Continue
<1>3. CASE rest[w] = {} /\ w # "seen"
  BY <1>3 DEF Continue, data, Lists, Carry, Workers
<1> QED
  BY <1>1, <1>2, <1>3

-----------------------------------------------------------------------------
(* The user *)

\* A fitting request that is recorded in a row.
LEMMA SetStateFacts ==
  ASSUME Inv, NEW m \in Msgs, NEW s \in States, NEW flag \in BOOLEAN,
         s = "PENDING_ARCHIVING" => Fit("archive", m),
         s = "PENDING_DELETING" => Fit("trash", m),
         s = "PENDING_DELETING_PERMANENTLY" => Fit("destroy", m),
         s = "PENDING_MOVE_TO_INBOX" => Fit("inbox", m),
         SetState(m, s, flag), UNCHANGED <<server, work, pc, data, late>>, Screen'
  PROVE  Inv'
<1>1. Lists' /\ Late' /\ Carry
  BY DEF Inv, Base, data, Lists, Late, Carry
<1>2. Server' /\ Leaves
  BY DEF Inv, Base, Server, server, Leaves
<1>3. Rows' /\ (Regular => GoneMeansDone')
  BY DEF Inv, Base, Rows, SetState, GoneMeansDone, server, States, Absent
<1>4. Regular => Away'
  BY <1>1, <1>2, AwayKept DEF Inv, Base
<1> QED
  BY <1>1, <1>2, <1>3, <1>4 DEF Inv, Base

\* The same, posted to the observer.
LEMMA RequestFacts ==
  ASSUME Inv, NEW m \in Msgs, NEW s \in States, NEW flag \in BOOLEAN, NEW w \in Workers, NEW o,
         s = "PENDING_ARCHIVING" => Fit("archive", m),
         s = "PENDING_DELETING" => Fit("trash", m),
         s = "PENDING_DELETING_PERMANENTLY" => Fit("destroy", m),
         s = "PENDING_MOVE_TO_INBOX" => Fit("inbox", m),
         Op(o), Request(m, s, flag, w)
  PROVE  Inv'
<1>1. Screen'
  BY DEF Inv, Base, Screen, Op, Request
<1>2. SetState(m, s, flag) /\ UNCHANGED <<server, work, pc, data, late>>
  BY DEF Request
<1> QED
  BY <1>1, <1>2, SetStateFacts

\* An operation that only enqueues workers.
LEMMA EnqueueOnlyFacts ==
  ASSUME Inv, NEW W \in SUBSET Workers, Enqueue(W), UNCHANGED <<local, server>>, Screen'
  PROVE  Inv'
<1>1. Lists' /\ Late' /\ Carry
  BY EnqueueFacts DEF Inv, Base
<1>2. Server' /\ Leaves /\ Rows' /\ (Regular => GoneMeansDone')
  BY DEF Inv, Base, Server, server, Leaves, Rows, local, GoneMeansDone
<1>3. (Regular => Away')
  BY <1>1, <1>2, AwayKept DEF Inv, Base
<1> QED
  BY <1>1, <1>2, <1>3 DEF Inv, Base

\* An operation that changes what is on the screen only.
LEMMA ScreenFacts ==
  ASSUME Inv, Screen', UNCHANGED <<local, server, work, pc, data, late>>
  PROVE  Inv'
BY DEF Inv, Base, Rows, Server, Lists, Late, Away, GoneMeansDone, local, server, data

\* The operations of the user keep the invariant.
LEMMA UserStep ==
  ASSUME Inv, User
  PROVE  Inv'
<1>0. \A m \in Msgs : seen[m] \in BOOLEAN
  BY DEF Inv, Base, Rows
<1>1. ASSUME NEW m \in Msgs, Archive(m) PROVE Inv'
  BY <1>0, <1>1, RequestFacts DEF Archive, States, Workers, Fit
<1>2. ASSUME NEW m \in Msgs, Swipe(m) PROVE Inv'
  <2>1. Screen'
    BY <1>2 DEF Inv, Base, Swipe, Screen, Op
  <2>2. Fit("archive", m) /\ seen[m] \in BOOLEAN
    BY <1>0, <1>2 DEF Swipe, Fit
  <2>3. SetState(m, "PENDING_ARCHIVING", seen[m]) /\ UNCHANGED <<server, work, pc, data, late>>
    BY <1>2 DEF Swipe
  <2> QED
    BY <2>1, <2>2, <2>3, SetStateFacts DEF States
<1>3. ASSUME NEW m \in Msgs, Undo(m) \/ Dismiss(m) PROVE Inv'
  <2>1. Screen'
    BY <1>3 DEF Inv, Base, Undo, Dismiss, Screen, bounds, Workers
  <2> QED
    BY <1>3, <2>1, ScreenFacts DEF Undo, Dismiss
<1>4. ASSUME NEW m \in Msgs, UndoWrite(m) PROVE Inv'
  <2>1. Screen'
    BY <1>4 DEF Inv, Base, UndoWrite, Screen, bounds
  <2>2. CASE st[m] # Absent
    <3>1. SetState(m, "NONE", seen[m]) /\ UNCHANGED <<server, work, pc, data, late>>
      BY <1>4, <2>2 DEF UndoWrite
    <3> QED
      BY <1>0, <2>1, <3>1, SetStateFacts DEF States
  <2>3. CASE st[m] = Absent
    BY <1>4, <2>1, <2>3, ScreenFacts DEF UndoWrite
  <2> QED
    BY <2>2, <2>3
<1>5. ASSUME NEW m \in Msgs, Delete(m) PROVE Inv'
  BY <1>0, <1>5, RequestFacts DEF Delete, States, Workers, Fit
<1>6. ASSUME NEW m \in Msgs, DeletePermanently(m) PROVE Inv'
  BY <1>0, <1>6, RequestFacts DEF DeletePermanently, States, Workers, Fit
<1>7. ASSUME NEW m \in Msgs, MoveToInbox(m) PROVE Inv'
  BY <1>0, <1>7, RequestFacts DEF MoveToInbox, States, Workers, Fit
<1>8. ASSUME NEW m \in Msgs, MarkRead(m) PROVE Inv'
  BY <1>8, RequestFacts DEF MarkRead, States, Workers
<1>9. ASSUME NEW m \in Msgs, MarkUnread(m) PROVE Inv'
  BY <1>9, RequestFacts DEF MarkUnread, States, Workers
<1>10. CASE Observe
  <2>1. Screen' /\ {posted} \in SUBSET Workers
    BY <1>10 DEF Inv, Base, Observe, Screen, bounds
  <2> QED
    BY <1>10, <2>1, EnqueueOnlyFacts DEF Observe
<1>11. CASE EmptyTrash
  <2>1. Screen'
    BY <1>11 DEF Inv, Base, EmptyTrash, Op, Screen, screen
  <2> QED
    BY <1>11, <2>1, EnqueueOnlyFacts DEF EmptyTrash, Workers
<1>12. CASE OpenFolder
  <2>1. Screen'
    BY <1>12 DEF Inv, Base, OpenFolder, Op, Screen, screen
  <2> QED
    BY <1>12, <2>1, EnqueueOnlyFacts DEF OpenFolder, Reopened, Workers
<1> QED
  BY <1>1, <1>2, <1>3, <1>4, <1>5, <1>6, <1>7, <1>8, <1>9, <1>10, <1>11, <1>12 DEF User

-----------------------------------------------------------------------------
(* The workers *)

\* A worker that starts has no list yet.
LEMMA StartStep ==
  ASSUME Inv, NEW w \in Workers, Start(w) \/ StartUnconnected(w)
  PROVE  Inv'
<1>1. Rows' /\ Server' /\ Late' /\ (Regular => GoneMeansDone') /\ Leaves
  BY DEF Inv, Base, Start, StartUnconnected, Rows, Server, Late, GoneMeansDone, local, server, Leaves
<1>2. Screen'
  BY DEF Inv, Base, Start, StartUnconnected, Screen, screen, bounds, Happens
<1>3. Lists' /\ Carry
  <2>1. CASE End(w, "none")
    BY <2>1, EndFacts DEF Inv, Base
  <2>2. CASE ~End(w, "none")
    <3>1. /\ work' = [work EXCEPT ![w] = "running"]
          /\ pc' = [pc EXCEPT ![w] = "read"] /\ UNCHANGED data
      BY <2>2 DEF Start, StartUnconnected
    <3> QED
      BY <3>1 DEF Inv, Base, Lists, Carry, data, Workers
  <2> QED
    BY <2>1, <2>2
<1>4. (Regular => Away')
  BY <1>1, <1>3, AwayKept DEF Inv, Base
<1> QED
  BY <1>1, <1>2, <1>3, <1>4 DEF Inv, Base

\* The rows a worker reads fit the worker.
LEMMA ReadStep ==
  ASSUME Inv, NEW w \in Workers, Read(w)
  PROVE  Inv'
<1> DEFINE S == {m \in Msgs : st[m] = Wanted[w]}
<1>1. Rows' /\ Server' /\ Late' /\ (Regular => GoneMeansDone') /\ Leaves /\ Screen'
  BY DEF Inv, Base, Read, Rows, Server, Late, GoneMeansDone, local, server, Leaves, Screen, screen, bounds
<1>2. Lists' /\ Carry
  <2>1. CASE S = {}
    BY <2>1, NextPassFacts DEF Inv, Base, Read
  <2>2. CASE S # {}
    <3>1. w \in Workers /\ w # "empty"
      BY DEF Read
    <3>2. \A m \in S : Fit(w, m)
      BY <3>1 DEF Inv, Base, Rows, Wanted, Fit, Workers
    <3>3. /\ list' = [list EXCEPT ![w] = S] /\ Group(w, S)
          /\ copy' = IF w = "inbox" THEN [copy EXCEPT ![w] = seen] ELSE copy
          /\ pc' = [pc EXCEPT ![w] = "call"] /\ UNCHANGED <<work, mark>>
      BY <2>2 DEF Read
    <3>4. \E f : /\ grp' = [grp EXCEPT ![w] = {m \in S : Home[m] = f}]
                 /\ rest' = [rest EXCEPT ![w] = {m \in S : Home[m] # f}]
      BY <3>3 DEF Group
    <3> HIDE DEF S
    <3>5. S \subseteq Msgs
      BY DEF S
    <3> QED
      BY <3>1, <3>2, <3>3, <3>4, <3>5 DEF Inv, Base, Lists, Rows, Carry
  <2> QED
    BY <2>1, <2>2
<1>3. (Regular => Away')
  BY <1>1, <1>2, AwayKept DEF Inv, Base
<1> QED
  BY <1>1, <1>2, <1>3 DEF Inv, Base

\* EmptyTrashWorker lists everything TRASH has.
LEMMA ReadTrashStep ==
  ASSUME Inv, ReadTrash
  PROVE  Inv'
<1> DEFINE S == {m \in Msgs : place[m] = "TRASH"}
<1>1. Server' /\ Late' /\ Leaves /\ Screen'
  BY DEF Inv, Base, ReadTrash, Server, Late, server, Leaves, Screen, screen, bounds
<1>2. Rows' /\ (Regular => GoneMeansDone')
  <2>1. CASE st' = st
    BY <2>1 DEF Inv, Base, ReadTrash, Rows, GoneMeansDone, server
  <2>2. CASE st' = [m \in Msgs |-> IF Home[m] = "TRASH" /\ st[m] # Absent
                                   THEN "PENDING_EMPTY_TRASH" ELSE st[m]]
    BY <2>2 DEF Inv, Base, ReadTrash, Rows, GoneMeansDone, server, States, Absent
  <2> QED
    BY <2>1, <2>2 DEF ReadTrash
<1>3. Lists' /\ (Regular => Away')
  <2>1. CASE S = {} /\ ~Api
    <3>1. Lists' /\ Carry
      BY <2>1, EndFacts DEF Inv, Base, ReadTrash, Workers
    <3> QED
      BY <1>1, <3>1, AwayKept DEF Inv, Base
  <2>2. CASE ~(S = {} /\ ~Api)
    <3>1. /\ grp' = [grp EXCEPT !["empty"] = S] /\ pc' = [pc EXCEPT !["empty"] = "call"]
          /\ UNCHANGED <<work, list, rest, mark, copy>> /\ place' = place
      BY <2>2 DEF ReadTrash, server
    <3>2. Lists'
      BY <3>1 DEF Inv, Base, Lists, Workers, Fit
    <3>3. (Regular => Away')
      BY <3>1 DEF Inv, Base, Lists, Away, Workers
    <3> QED
      BY <3>2, <3>3
  <2> QED
    BY <2>1, <2>2
<1> QED
  BY <1>1, <1>2, <1>3 DEF Inv, Base

\* What a worker asks the server about fits the worker.
LEMMA ListedFacts ==
  ASSUME Lists, NEW w \in Workers
  PROVE  Listed(w) \in SUBSET Msgs /\ (\A m \in Listed(w) : Fit(w, m))
BY DEF Lists, Listed, Fit

\* The call of EmptyTrashWorker leaves no message with a row in TRASH there.
LEMMA EmptyAway ==
  ASSUME Server, Away, pc["empty"] = "call", NEW flag, Apply("empty", Listed("empty"), flag)
  PROVE  \A m \in Msgs : Home[m] = "TRASH" => place'[m] # "TRASH"
<1>1. SUFFICES ASSUME NEW m \in Msgs, Home[m] = "TRASH" PROVE place'[m] # "TRASH"
  OBVIOUS
<1>2. place'[m] = IF m \in Listed("empty") /\ Reaches("empty", m) THEN Gone ELSE place[m]
  BY DEF Apply, Target
<1>3. place[m] = "TRASH" => m \in Listed("empty")
  BY <1>1 DEF Listed, Away
<1>4. place[m] = "TRASH" => Reaches("empty", m)
  BY DEF Reaches, Gone
<1> QED
  BY <1>2, <1>3, <1>4 DEF Gone

\* The remote call establishes what the worker relies on when it removes the rows.
LEMMA CallStep ==
  ASSUME Inv, NEW w \in Workers, Call(w)
  PROVE  Inv'
<1>1. PICK G \in SUBSET Listed(w) :
        Apply(w, G, mark) /\ (G = Listed(w) \/ ~Regular) /\ env' \in {env, env + 1}
  <2>1. CASE Apply(w, Listed(w), mark) /\ env' = env
    BY <2>1
  <2>2. CASE /\ w = "trash" /\ Api /\ Happens("partial")
             /\ \E S \in SUBSET grp[w] : S # grp[w] /\ Apply(w, S, mark)
    BY <2>2 DEF Happens, Regular, Listed
  <2> QED
    BY <2>1, <2>2 DEF Call
<1>2. /\ pc[w] = "call" /\ pc' = [pc EXCEPT ![w] = "write"]
      /\ UNCHANGED <<local, work, data, screen, late, ops>>
  BY DEF Call
<1>3. Server' /\ Leaves
  BY <1>1, ListedFacts, ApplyFacts DEF Inv, Base, Lists
<1>4. Rows' /\ Late' /\ Screen'
  BY <1>1, <1>2 DEF Inv, Base, Rows, Late, Screen, local, screen
<1>5. Lists'
  BY <1>2 DEF Inv, Base, Lists, data
<1>6. Regular => GoneMeansDone'
  BY <1>2, <1>3 DEF Inv, Base, GoneMeansDone, Leaves, local
<1>7. grp' = grp /\ \A v \in Workers : pc'[v] = "write" => v = w \/ pc[v] = "write"
  BY <1>2 DEF Inv, Base, Lists, data
<1>8. ASSUME Regular PROVE Away'
  <2>1. ASSUME NEW v \in {"archive", "trash", "destroy", "inbox"}, pc'[v] = "write",
               NEW m \in grp'[v]
        PROVE  place'[m] # Home[m]
    <3>0. v \in Workers /\ m \in grp[v] /\ m \in Msgs
      BY <2>1, <1>7 DEF Inv, Base, Lists, Workers
    <3>1. CASE v = w
      <4>1. G = grp[w] /\ grp[w] \in SUBSET Msgs /\ mark \in BOOLEAN
        BY <1>1, <1>8, <3>1 DEF Listed, Inv, Base, Lists
      <4>2. \A n \in grp[w] : Fit(w, n)
        BY DEF Inv, Base, Lists
      <4> QED
        BY <1>1, <1>8, <3>0, <3>1, <4>1, <4>2, ApplyAway DEF Inv, Base
    <3>2. CASE v # w
      <4>1. place[m] # Home[m]
        BY <1>8, <2>1, <3>0, <3>2, <1>7 DEF Inv, Away
      <4> QED
        BY <4>1, <3>0, <1>3 DEF Leaves
    <3> QED
      BY <3>1, <3>2
  <2>2. pc'["empty"] = "write" => \A m \in Msgs : Home[m] = "TRASH" => place'[m] # "TRASH"
    <3>1. CASE w = "empty"
      BY <3>1, <1>1, <1>2, <1>8, EmptyAway DEF Inv, Base
    <3>2. CASE w # "empty"
      BY <3>2, <1>3, <1>7, <1>8 DEF Inv, Away, Leaves, Workers
    <3> QED
      BY <3>1, <3>2
  <2>3. pc'["empty"] = "call" =>
          /\ pc["empty"] = "call"
          /\ \A m \in Msgs : Home[m] = "TRASH" /\ place'[m] = "TRASH" => place[m] = "TRASH"
    BY <1>2, <1>3 DEF Inv, Base, Lists, Leaves, Workers
  <2> QED
    BY <1>7, <1>8, <2>1, <2>2, <2>3 DEF Inv, Away
<1> QED
  BY <1>3, <1>4, <1>5, <1>6, <1>8 DEF Inv, Base

\* A call that failed may have reached the server; the worker gives up its list.
LEMMA FailStep ==
  ASSUME Inv, NEW w \in Workers, CallFails(w) \/ CallAnswersNothing(w)
  PROVE  Inv'
<1>1. PICK result \in {"enqueued", "none"} : Fail(w, result)
  BY DEF CallFails, CallAnswersNothing
<1>2. server' = server \/ Apply(w, Listed(w), mark)
  BY DEF CallFails, CallAnswersNothing, Listed
<1>3. Server' /\ Leaves
  <2>1. CASE server' = server
    BY <2>1 DEF Inv, Base, Server, Leaves, server
  <2>2. CASE Apply(w, Listed(w), mark)
    BY <2>2, ListedFacts, ApplyFacts DEF Inv, Base, Lists
  <2> QED
    BY <1>2, <2>1, <2>2
<1>4. Lists' /\ Carry
  BY <1>1, EndFacts DEF Inv, Base, Fail
<1>5. Late' /\ Screen'
  BY <1>1 DEF Inv, Base, Fail, CallFails, CallAnswersNothing, Happens, Late, Screen, screen
<1>6. Rows' /\ (Regular => GoneMeansDone')
  <2>1. /\ seen' = seen
        /\ st' = [m \in Msgs |-> IF w = "empty" /\ Home[m] = "TRASH" /\ st[m] # Absent
                                 THEN "NONE" ELSE st[m]]
    BY <1>1 DEF Fail
  <2> QED
    BY <2>1, <1>3 DEF Inv, Base, Rows, GoneMeansDone, Leaves, States, Absent
<1>7. (Regular => Away')
  BY <1>3, <1>4, AwayKept DEF Inv, Base
<1> QED
  BY <1>3, <1>4, <1>5, <1>6, <1>7 DEF Inv, Base

\* The rows that are removed belong to messages that have left their folder.
LEMMA DeleteRowsStep ==
  ASSUME Inv, NEW w \in Workers, DeleteRows(w)
  PROVE  Inv'
<1> DEFINE S == IF w = "empty" THEN {m \in Msgs : Home[m] = "TRASH"} ELSE grp[w]
<1>1. Server' /\ Leaves /\ Late' /\ Screen'
  BY DEF Inv, Base, DeleteRows, Server, server, Leaves, Late, Screen, screen, bounds
<1>2. Regular => \A m \in S : place[m] # Home[m]
  BY DEF Inv, Base, DeleteRows, Away
<1>3. Rows' /\ (Regular => GoneMeansDone')
  <2>1. /\ st' = [m \in Msgs |-> IF m \in S THEN Absent ELSE st[m]]
        /\ seen' = seen /\ place' = place
    BY DEF DeleteRows, server
  <2> HIDE DEF S
  <2> QED
    BY <1>2, <2>1 DEF Inv, Base, Rows, GoneMeansDone, Absent
<1>4. Lists' /\ Carry
  BY EndFacts, ContinueFacts DEF Inv, Base, DeleteRows
<1>5. (Regular => Away')
  BY <1>1, <1>4, AwayKept DEF Inv, Base
<1> QED
  BY <1>1, <1>3, <1>4, <1>5 DEF Inv, Base

\* MovingToInboxWorker takes by uid what it has moved: as uids tell the rows apart these are
\* the messages of the folder it has just handled.
LEMMA WriteMovedStep ==
  ASSUME Inv, WriteMoved
  PROVE  Inv'
<1>1. Server' /\ Leaves /\ Late' /\ Screen'
  BY DEF Inv, Base, WriteMoved, Server, server, Leaves, Late, Screen, screen, bounds
<1>2. Regular => \A m \in MovedRows : m \in Msgs /\ place[m] # Home[m]
  <2>1. list["inbox"] \subseteq Msgs /\ grp["inbox"] \subseteq Msgs
    BY DEF Inv, Base, Lists, Workers
  <2>2. Regular => MovedRows \subseteq grp["inbox"]
    BY <2>1 DEF MovedRows, Regular
  <2> QED
    BY <2>1, <2>2 DEF Inv, Base, WriteMoved, Away
<1>3. Rows' /\ (Regular => GoneMeansDone')
  <2> DEFINE fromTrash == \E m \in grp["inbox"] : Home[m] = "TRASH"
  <2>1. /\ st' = [m \in Msgs |-> IF m \notin MovedRows \/ st[m] = Absent THEN st[m]
                                 ELSE IF fromTrash THEN Absent ELSE "NONE"]
        /\ seen' = [m \in Msgs |-> IF m \in MovedRows /\ st[m] # Absent /\ ~fromTrash
                                   THEN copy["inbox"][m] ELSE seen[m]]
        /\ place' = place
    BY DEF WriteMoved, server
  <2>2. \A m \in Msgs : copy["inbox"][m] \in BOOLEAN
    BY DEF Inv, Base, Lists, Workers
  <2> HIDE DEF fromTrash
  <2> QED
    BY <1>2, <2>1, <2>2 DEF Inv, Base, Rows, GoneMeansDone, Absent, States
<1>4. Lists' /\ Carry
  BY ContinueFacts DEF Inv, Base, WriteMoved, Workers
<1>5. (Regular => Away')
  BY <1>1, <1>4, AwayKept DEF Inv, Base
<1> QED
  BY <1>1, <1>3, <1>4, <1>5 DEF Inv, Base

\* UpdateMsgsSeenStateWorker removes no row.
LEMMA ReadAgainStep ==
  ASSUME Inv, ReadAgain
  PROVE  Inv'
<1>1. /\ Server' /\ Leaves /\ Late' /\ Screen' /\ Rows' /\ (Regular => GoneMeansDone')
  BY DEF Inv, Base, ReadAgain, Server, server, Leaves, Late, Screen, screen, bounds, Rows, local,
     GoneMeansDone
<1>2. Lists' /\ (\A w \in Workers \ {"seen"} : pc'[w] = pc[w] /\ grp'[w] = grp[w])
  <2>1. seen \in [Msgs -> BOOLEAN]
    BY DEF Inv, Base, Rows
  <2>2. grp' = [grp EXCEPT !["seen"] = {m \in grp["seen"] : st[m] = Wanted["seen"]}]
    BY DEF ReadAgain
  <2> QED
    BY <2>1, <2>2 DEF Inv, Base, ReadAgain, Lists, Workers
<1>3. Carry
  BY <1>2 DEF ReadAgain, Inv, Base, Lists, Carry, Workers
<1>4. (Regular => Away')
  BY <1>1, <1>3, AwayKept DEF Inv, Base
<1> QED
  BY <1>1, <1>2, <1>4 DEF Inv, Base

LEMMA WriteSeenStep ==
  ASSUME Inv, WriteSeen
  PROVE  Inv'
<1>1. Server' /\ Leaves /\ Late' /\ Screen'
  BY DEF Inv, Base, WriteSeen, Server, server, Leaves, Late, Screen, screen, bounds
<1>2. Rows' /\ (Regular => GoneMeansDone')
  <2> DEFINE W == {m \in grp["seen"] : st[m] # Absent}
  <2>1. /\ place' = place
        /\ st' = [m \in Msgs |-> IF m \in W THEN "NONE" ELSE st[m]]
        /\ seen' = [m \in Msgs |-> IF m \in W THEN copy["seen"][m] ELSE seen[m]]
    BY DEF WriteSeen, server
  <2>2. \A m \in Msgs : copy["seen"][m] \in BOOLEAN
    BY DEF Inv, Base, Lists, Workers
  <2>3. \A m \in W : st[m] # Absent
    OBVIOUS
  <2> HIDE DEF W
  <2> QED
    BY <2>1, <2>2, <2>3 DEF Inv, Base, Rows, GoneMeansDone, Absent, States
<1>3. Lists' /\ Carry
  BY ContinueFacts DEF Inv, Base, WriteSeen, Workers
<1>4. (Regular => Away')
  BY <1>1, <1>3, AwayKept DEF Inv, Base
<1> QED
  BY <1>1, <1>2, <1>3, <1>4 DEF Inv, Base

-----------------------------------------------------------------------------
(* The environment and the theorems *)

\* Late calls, cancellation and process death keep the invariant.
LEMMA EnvironmentStep ==
  ASSUME Inv, Environment
  PROVE  Inv'
<1>1. ASSUME NEW c \in late, LateCall(c) PROVE Inv'
  <2>1. c \in [by : Workers, grp : SUBSET Msgs, mark : BOOLEAN] /\ \A m \in c.grp : Fit(c.by, m)
    BY DEF Inv, Base, Late
  <2>2. Server' /\ Leaves
    BY <1>1, <2>1, ApplyFacts DEF Inv, Base, LateCall
  <2>3. Rows' /\ Screen' /\ Late' /\ Lists' /\ Carry
    BY <1>1 DEF Inv, Base, LateCall, Rows, local, Screen, screen, bounds, Late, Lists, data, Carry
  <2>4. (Regular => GoneMeansDone')
    BY <1>1, <2>2 DEF Inv, Base, LateCall, local, GoneMeansDone, Leaves
  <2>5. (Regular => Away')
    BY <2>2, <2>3, AwayKept DEF Inv, Base
  <2> QED
    BY <2>2, <2>3, <2>4, <2>5 DEF Inv, Base
<1>2. ASSUME CancelAll \/ Crash PROVE Inv'
  <2>1. Rows' /\ Server' /\ Leaves /\ (Regular => GoneMeansDone')
    BY <1>2 DEF Inv, Base, CancelAll, Crash, Rows, Server, Leaves, GoneMeansDone, local, server
  <2>2. Screen'
    BY <1>2 DEF Inv, Base, CancelAll, Crash, Happens, Screen, screen
  <2>3. work' \in [Workers -> {"none", "enqueued", "running"}] /\ Idle(Workers)
    BY <1>2 DEF Inv, Base, Lists, CancelAll, Crash, Abandon
  <2>4. Lists' /\ Carry
    BY <2>3, IdleFacts DEF Inv, Base
  <2>5. Late'
    <3>1. CASE CancelAll
      BY <3>1, AbandonFacts DEF Inv, Base, CancelAll
    <3>2. CASE Crash
      BY <3>2 DEF Crash, Late
    <3> QED
      BY <1>2, <3>1, <3>2
  <2>6. (Regular => Away')
    BY <2>1, <2>4, AwayKept DEF Inv, Base
  <2> QED
    BY <2>1, <2>2, <2>4, <2>5, <2>6 DEF Inv, Base
<1> QED
  BY <1>1, <1>2 DEF Environment

\* At the start no worker has a list.
LEMMA InvInit ==
  ASSUME Init
  PROVE  Inv
<1>1. Rows /\ Server /\ Late /\ Screen
  BY MsgsAssumption DEF Init, Rows, Server, Late, Screen, States, Folders
<1>2. Lists
  BY DEF Init, Lists
<1>3. Away /\ GoneMeansDone
  BY DEF Init, Away, GoneMeansDone, Absent, Workers
<1> QED
  BY <1>1, <1>2, <1>3 DEF Inv, Base

\* Every step keeps the invariant.
LEMMA InvStep ==
  ASSUME Inv, [Next]_vars
  PROVE  Inv'
<1>1. CASE User
  BY <1>1, UserStep
<1>2. ASSUME NEW w \in Workers, Worker(w) PROVE Inv'
  BY <1>2, StartStep, ReadStep, CallStep, FailStep, DeleteRowsStep, ReadTrashStep,
     WriteMovedStep, ReadAgainStep, WriteSeenStep DEF Worker
<1>3. CASE Environment
  BY <1>3, EnvironmentStep
<1>4. CASE UNCHANGED vars
  BY <1>4 DEF vars, local, server, data, screen, bounds, Inv, Base, Rows, Server, Lists, Late, Screen,
     Away, GoneMeansDone
<1> QED
  BY <1>1, <1>2, <1>3, <1>4 DEF Next

\* The invariant of the workers holds for every number of messages, operations and failures.
THEOREM Invariance == Spec => []Inv
<1>1. Init => Inv
  BY InvInit
<1>2. Inv /\ [Next]_vars => Inv'
  BY InvStep
<1> QED
  BY <1>1, <1>2, PTL DEF Spec

\* The variables of the rows, the server and the six workers keep their types.
THEOREM TypeCorrect == Spec => []TypeOK
<1>1. Inv => TypeOK
  BY DEF Inv, Base, Rows, Server, Lists, Late, Screen, TypeOK
<1> QED
  BY <1>1, Invariance, PTL

\* A worker removes a row (deleteByUIDsSuspend, deleteSuspend) only after its message has left
\* the folder of the row on the server, whatever the other workers, the user, cancelled calls
\* and crashes do between its three steps.
THEOREM RowsOutliveMessages ==
  ASSUME Regular
  PROVE  Spec => []GoneMeansDone
<1>1. Inv => GoneMeansDone
  BY DEF Inv, Base
<1> QED
  BY <1>1, Invariance, PTL

\* The server changes by calls with fitting lists only.
LEMMA ServerStep ==
  ASSUME Base, [Next]_vars
  PROVE  \/ place' = place
         \/ \E w \in Workers : \E G \in SUBSET Msgs : \E flag \in BOOLEAN :
              (\A m \in G : Fit(w, m)) /\ Apply(w, G, flag)
<1>1. CASE User
  BY <1>1 DEF User, Archive, Swipe, Undo, UndoWrite, Dismiss, Delete, DeletePermanently,
     MoveToInbox, MarkRead, MarkUnread, Request, Observe, EmptyTrash, OpenFolder, server
<1>2. ASSUME NEW w \in Workers, Call(w) \/ CallFails(w) \/ CallAnswersNothing(w)
      PROVE  \/ place' = place
             \/ \E G \in SUBSET Msgs : (\A m \in G : Fit(w, m)) /\ Apply(w, G, mark)
  <2>1. /\ Listed(w) \in SUBSET Msgs /\ (\A m \in Listed(w) : Fit(w, m))
        /\ grp[w] \in SUBSET Msgs /\ (\A m \in grp[w] : Fit(w, m))
    BY ListedFacts DEF Base, Lists
  <2>2. CASE Call(w)
    BY <2>1, <2>2 DEF Call
  <2>3. CASE CallFails(w)
    BY <2>1, <2>3 DEF CallFails, server
  <2>4. CASE CallAnswersNothing(w)
    BY <2>1, <2>4 DEF CallAnswersNothing
  <2> QED
    BY <1>2, <2>2, <2>3, <2>4
<1>3. ASSUME NEW w \in Workers,
             \/ Start(w) \/ StartUnconnected(w) \/ Read(w) \/ DeleteRows(w)
             \/ ReadTrash \/ WriteMoved \/ ReadAgain \/ WriteSeen
      PROVE  place' = place
  BY <1>3 DEF Start, StartUnconnected, Read, DeleteRows, ReadTrash, WriteMoved, ReadAgain, WriteSeen,
     server
<1>4. CASE Environment
  BY <1>4 DEF Environment, CancelAll, Crash, LateCall, server, Base, Late
<1>5. CASE UNCHANGED vars
  BY <1>5 DEF vars, server
<1>6. mark \in BOOLEAN
  BY DEF Base, Lists
<1> QED
  BY <1>1, <1>2, <1>3, <1>4, <1>5, <1>6 DEF Next, Worker

\* With IMAP a message is destroyed only while it is in TRASH: DeleteMessagesPermanentlyWorker
\* has rows of TRASH on its list and looks for them in that folder, EmptyTrashWorker lists the
\* folder.  A message that was brought back to INBOX in time is safe from both.
THEOREM OnlyTrashIsDestroyed ==
  ASSUME ~Api
  PROVE  Spec => DestroyedFromTrash
<1>1. ASSUME Inv, [Next]_vars
      PROVE  \A m \in Msgs : place'[m] = Gone => place[m] \in {"TRASH", Gone}
  <2>1. SUFFICES ASSUME NEW w \in Workers, NEW G \in SUBSET Msgs, NEW flag \in BOOLEAN,
                        \A m \in G : Fit(w, m), Apply(w, G, flag),
                        NEW m \in Msgs, place'[m] = Gone
                 PROVE  place[m] \in {"TRASH", Gone}
    BY <1>1, ServerStep DEF Inv
  <2>2. CASE w = "seen"
    BY <2>1, <2>2 DEF Apply
  <2>3. CASE w # "seen" /\ m \in G /\ Reaches(w, m)
    <3>1. place'[m] = Target[w]
      BY <2>1, <2>3 DEF Apply
    <3>2. w \in {"destroy", "empty"}
      BY <2>1, <2>3, <3>1 DEF Target, Workers, Gone
    <3> QED
      BY <2>1, <2>3, <3>2 DEF Reaches, Fit
  <2>4. CASE w # "seen" /\ ~(m \in G /\ Reaches(w, m))
    BY <2>1, <2>4 DEF Apply
  <2> QED
    BY <2>2, <2>3, <2>4
<1> QED
  BY <1>1, Invariance, PTL DEF Spec, DestroyedFromTrash

\* The step of a worker concerns no other worker.
Own(w) ==
  /\ \A v \in Workers : v # w => /\ work'[v] = work[v] /\ pc'[v] = pc[v]
                                 /\ grp'[v] = grp[v] /\ rest'[v] = rest[v]
  /\ w # "seen" => mark' = mark /\ copy'["seen"] = copy["seen"]

LEMMA OwnStep ==
  ASSUME Lists, NEW w \in Workers, Worker(w)
  PROVE  Own(w)
<1> USE DEF Own, Lists
<1>1. ASSUME NEW r, End(w, r) PROVE Own(w)
  BY <1>1 DEF End, Idle, Forget
<1>2. ASSUME NextPass(w) PROVE Own(w)
  BY <1>1, <1>2 DEF NextPass
<1>3. ASSUME Continue(w) PROVE Own(w)
  <2>1. CASE rest[w] # {}
    BY <1>3, <2>1 DEF Continue, Group
  <2>2. CASE rest[w] = {} /\ w = "seen"
    BY <1>2, <1>3, <2>2 DEF Continue
  <2>3. CASE rest[w] = {} /\ w # "seen"
    BY <1>3, <2>3 DEF Continue, data
  <2> QED BY <2>1, <2>2, <2>3
<1>4. CASE Start(w) \/ StartUnconnected(w)
  BY <1>1, <1>4 DEF Start, StartUnconnected, data
<1>5. CASE Read(w)
  <2>1. CASE NextPass(w)
    BY <1>2, <2>1
  <2>2. CASE ~NextPass(w)
    <3>1. /\ pc' = [pc EXCEPT ![w] = "call"] /\ UNCHANGED <<work, mark>>
          /\ \E S : Group(w, S)
      BY <1>5, <2>2 DEF Read
    <3>2. copy' = IF w = "inbox" THEN [copy EXCEPT ![w] = seen] ELSE copy
      BY <1>5, <2>2 DEF Read
    <3>3. w # "seen" => copy'["seen"] = copy["seen"]
      BY <3>2
    <3>4. \A v \in Workers : v # w => pc'[v] = pc[v] /\ grp'[v] = grp[v] /\ rest'[v] = rest[v]
      BY <3>1 DEF Group
    <3> QED BY <3>1, <3>3, <3>4
  <2> QED BY <2>1, <2>2
<1>6. CASE Call(w)
  BY <1>6 DEF Call, data
<1>7. CASE CallFails(w) \/ CallAnswersNothing(w)
  BY <1>1, <1>7 DEF CallFails, CallAnswersNothing, Fail
<1>8. CASE DeleteRows(w)
  BY <1>1, <1>3, <1>8 DEF DeleteRows
<1>9. CASE w = "empty" /\ ReadTrash
  BY <1>1, <1>9 DEF ReadTrash
<1>10. CASE w = "inbox" /\ WriteMoved
  BY <1>3, <1>10 DEF WriteMoved
<1>11. CASE w = "seen" /\ WriteSeen
  BY <1>3, <1>11 DEF WriteSeen
<1>12. CASE w = "seen" /\ ReadAgain
  BY <1>12 DEF ReadAgain
<1> QED BY <1>4, <1>5, <1>6, <1>7, <1>8, <1>9, <1>10, <1>11, <1>12 DEF Worker

\* MovingToInboxWorker clears a request only after its call has taken the message out of its
\* folder, and nothing has brought it back since.
THEOREM OnlyMovedIsCleared ==
  ASSUME Regular
  PROVE  Spec => RestoreServed
<1> DEFINE Served == pc["inbox"] = "write" /\ pc'["inbox"] # "write" =>
                       \A m \in Msgs : st[m] = "PENDING_MOVE_TO_INBOX" /\ st'[m] \in {"NONE", Absent}
                                         => place'[m] # Home[m]
<1>1. ASSUME Inv, [Next]_vars, pc["inbox"] = "write", pc'["inbox"] # "write", NEW m \in Msgs,
             st[m] = "PENDING_MOVE_TO_INBOX", st'[m] \in {"NONE", Absent}
      PROVE  place'[m] # Home[m]
  <2>1. Lists /\ "inbox" \in Workers
    BY <1>1 DEF Inv, Base, Lists, Workers
  <2>2. st'[m] # st[m] /\ pc' # pc
    BY <1>1 DEF Absent
  <2>3. ~User
    BY <1>1, <2>2 DEF User, Archive, Swipe, Undo, UndoWrite, Dismiss, Delete, DeletePermanently,
       MoveToInbox, MarkRead, MarkUnread, Request, Observe, EmptyTrash, OpenFolder, local
  <2>4. ~Environment
    BY <2>2 DEF Environment, CancelAll, Crash, LateCall, local
  <2>5. PICK w \in Workers : Worker(w)
    BY <1>1, <2>2, <2>3, <2>4 DEF Next, vars, local
  <2>6. WriteMoved
    <3>1. pc[w] = "write" /\ w = "inbox"
      <4>1. \A v \in Workers : v # w => pc'[v] = pc[v]
        BY <2>1, <2>5, OwnStep DEF Own
      <4> QED BY <1>1, <2>1, <4>1
    <3> QED
      BY <2>5, <2>2, <3>1 DEF Worker, Start, StartUnconnected, Read, Call, CallFails,
         CallAnswersNothing, DeleteRows, local
  <2>7. st'[m] = st[m] \/ m \in MovedRows
    BY <2>6 DEF WriteMoved
  <2>8. MovedRows \subseteq grp["inbox"]
    BY <2>1 DEF MovedRows, Regular, Lists
  <2> QED
    BY <1>1, <2>2, <2>6, <2>7, <2>8 DEF Inv, Away, WriteMoved, server
<1>2. Inv /\ [Next]_vars => [Served]_vars
  BY <1>1
<1> QED
  BY <1>2, Invariance, PTL DEF Spec, RestoreServed

-----------------------------------------------------------------------------
(* The SEEN flag *)

\* Where only UpdateMsgsSeenStateWorker resets the state of a row, and no call of a cancelled one
\* is still under way: "undo", moving to INBOX and a failed "empty trash" write NONE over whatever
\* request the row holds, and an IMAP server does not find the messages that have been moved.
FlagsOnly == Api /\ "late" \notin Env /\ Ops \cap {"swipe", "inbox", "empty"} = {}

Quiet ==
  /\ late = {} /\ snack = {} /\ undo = {} /\ posted # "empty"
  /\ work["empty"] = "none" /\ pc["empty"] = "idle" /\ pc["inbox"] \in {"idle", "read"}
  /\ \A m \in Msgs : st[m] # "PENDING_MOVE_TO_INBOX"

\* A request and the flag of the row are written together.
Asked ==
  \A m \in Msgs : /\ st[m] = "PENDING_MARK_READ" => seen[m] = TRUE
                  /\ st[m] = "PENDING_MARK_UNREAD" => seen[m] = FALSE

\* What the worker has on its lists has not been done, after the call the server has the flag, and
\* the copies of the rows that are to be written have it as well.
Flagging ==
  /\ grp["seen"] \cap rest["seen"] = {}
  /\ pc["seen"] \in {"call", "write", "update"} =>
       \A m \in grp["seen"] \cup rest["seen"] : st[m] # "NONE"
  /\ pc["seen"] \in {"write", "update"} => \A m \in grp["seen"] : place[m] # Gone => rseen[m] = mark
  /\ pc["seen"] = "update" => \A m \in grp["seen"] : copy["seen"][m] = mark

\* A row without a request has the flag of the server, also while the worker is under way.
Agree == \A m \in Msgs : st[m] = "NONE" /\ place[m] # Gone => seen[m] = rseen[m]

FlagInv == Quiet /\ Asked /\ Flagging /\ Agree

\* Workers that are stopped forget their lists, and leave no call behind.
LEMMA FlagStop ==
  ASSUME Lists, FlagInv, NEW W \in SUBSET Workers, Idle(W), late' = {}, snack' = {}, undo' = {},
         posted' # "empty", work'["empty"] = "none", UNCHANGED <<local, server>>
  PROVE  FlagInv'
<1>1. /\ pc'["empty"] = "idle" /\ pc'["inbox"] \in {"idle", "read"}
      /\ \/ pc'["seen"] = "idle" /\ grp'["seen"] = {}
         \/ /\ UNCHANGED <<mark, copy>> /\ pc'["seen"] = pc["seen"]
            /\ grp'["seen"] = grp["seen"] /\ rest'["seen"] = rest["seen"]
  BY DEF Idle, Forget, FlagInv, Quiet, Workers
<1>2. Quiet'
  BY <1>1 DEF FlagInv, Quiet, local
<1>3. Asked' /\ Agree'
  BY DEF FlagInv, Asked, Agree, local, server
<1>4. Flagging'
  BY <1>1 DEF FlagInv, Flagging, local, server
<1> QED BY <1>2, <1>3, <1>4 DEF FlagInv

\* A request of the user.
LEMMA FlagRequest ==
  ASSUME Base, FlagInv, NEW m \in Msgs, NEW s \in States \ {"NONE", "PENDING_MOVE_TO_INBOX"},
         NEW flag \in BOOLEAN, NEW w \in Workers \ {"empty"},
         s = "PENDING_MARK_READ" => flag = TRUE,
         s = "PENDING_MARK_UNREAD" => flag = FALSE,
         Request(m, s, flag, w)
  PROVE  FlagInv'
<1>1. /\ st \in [Msgs -> States \cup {Absent}] /\ seen \in [Msgs -> BOOLEAN]
      /\ grp["seen"] \subseteq Msgs /\ rest["seen"] \subseteq Msgs
  BY DEF Base, Rows, Lists, Workers
<1>2. /\ st' = [st EXCEPT ![m] = s] /\ seen' = [seen EXCEPT ![m] = flag]
      /\ posted' = w /\ UNCHANGED <<place, rseen, work, pc, grp, rest, mark, copy, snack, undo, late>>
  BY DEF Request, SetState, server, data
<1>3. Quiet'
  BY <1>1, <1>2 DEF FlagInv, Quiet
<1>4. Asked'
  BY <1>1, <1>2 DEF FlagInv, Asked
<1>5. Flagging'
  BY <1>1, <1>2 DEF FlagInv, Flagging
<1>6. Agree'
  BY <1>1, <1>2 DEF FlagInv, Agree
<1> QED BY <1>3, <1>4, <1>5, <1>6 DEF FlagInv

LEMMA FlagUser ==
  ASSUME Inv, FlagInv, FlagsOnly, User
  PROVE  FlagInv'
<1>1. Base /\ \A m \in Msgs : seen[m] \in BOOLEAN
  BY DEF Inv, Base, Rows
<1>2. /\ ~Op("swipe") /\ ~Op("inbox") /\ ~Op("empty")
      /\ snack = {} /\ undo = {} /\ late = {} /\ posted # "empty" /\ work["empty"] = "none"
  BY DEF Op, FlagsOnly, FlagInv, Quiet
<1>3. ASSUME NEW m \in Msgs, Archive(m) \/ Delete(m) \/ DeletePermanently(m) PROVE FlagInv'
  BY <1>1, <1>3, FlagRequest DEF Archive, Delete, DeletePermanently, States, Workers
<1>4. ASSUME NEW m \in Msgs, MarkRead(m) PROVE FlagInv'
  BY <1>1, <1>4, FlagRequest DEF MarkRead, States, Workers
<1>5. ASSUME NEW m \in Msgs, MarkUnread(m) PROVE FlagInv'
  BY <1>1, <1>5, FlagRequest DEF MarkUnread, States, Workers
<1>6. CASE Observe \/ OpenFolder
  <2>1. PICK W \in SUBSET (Workers \ {"empty"}) : Enqueue(W)
    <3>1. CASE Observe
      BY <1>1, <1>2, <3>1 DEF Observe, Base, Screen
    <3>2. CASE OpenFolder
      BY <3>2 DEF OpenFolder, Reopened, Workers
    <3> QED BY <1>6, <3>1, <3>2
  <2>2. Idle(W) /\ late' = {} /\ work'["empty"] = "none"
    BY <1>2, <2>1 DEF Enqueue, Abandon, FlagsOnly, Workers
  <2>3. /\ UNCHANGED <<local, server>> /\ snack' = {} /\ undo' = {} /\ posted' # "empty"
    BY <1>2, <1>6 DEF Observe, OpenFolder, screen
  <2> QED BY <1>1, <2>1, <2>2, <2>3, FlagStop DEF Base
<1> QED
  BY <1>2, <1>3, <1>4, <1>5, <1>6 DEF User, Swipe, Undo, UndoWrite, Dismiss, MoveToInbox, EmptyTrash

LEMMA FlagEnvironment ==
  ASSUME Inv, FlagInv, FlagsOnly, Environment
  PROVE  FlagInv'
<1>1. /\ late = {} /\ snack = {} /\ undo = {} /\ posted # "empty" /\ work["empty"] = "none"
      /\ "late" \notin Env
  BY DEF FlagsOnly, FlagInv, Quiet
<1>2. CancelAll \/ Crash
  BY <1>1 DEF Environment
<1>3. Idle(Workers) /\ late' = {} /\ work'["empty"] = "none"
  BY <1>1, <1>2 DEF CancelAll, Crash, Abandon, Workers
<1>4. UNCHANGED <<local, server>> /\ snack' = {} /\ undo' = {} /\ posted' # "empty"
  BY <1>1, <1>2 DEF CancelAll, Crash, screen
<1> QED BY <1>3, <1>4, FlagStop DEF Inv, Base

\* The other workers leave the flags alone; they only take messages and rows away.
LEMMA FlagOther ==
  ASSUME Inv, FlagInv, FlagsOnly, NEW w \in Workers \ {"seen"}, Worker(w)
  PROVE  FlagInv'
<1>1. Lists /\ Own(w) /\ w \in Workers
  BY OwnStep DEF Inv, Base
<1>2. w # "empty"
  BY DEF FlagInv, Quiet, Worker, Start, StartUnconnected, Read, Call, CallFails, CallAnswersNothing,
     DeleteRows, ReadTrash
<1>3. ~WriteMoved
  BY DEF FlagInv, Quiet, WriteMoved
<1>4. rseen' = rseen /\ \A m \in Msgs : place[m] = Gone => place'[m] = Gone
  <2>1. ASSUME NEW G, NEW flag, Apply(w, G, flag)
        PROVE  rseen' = rseen /\ \A m \in Msgs : place[m] = Gone => place'[m] = Gone
    BY <2>1 DEF Apply, Reaches
  <2> QED
    BY <1>2, <1>3, <2>1 DEF Worker, Start, StartUnconnected, Read, Call, CallFails,
       CallAnswersNothing, DeleteRows, server
<1>5. seen' = seen /\ \A m \in Msgs : st'[m] \in {st[m], Absent}
  BY <1>2, <1>3 DEF Worker, Start, StartUnconnected, Read, Call, CallFails, CallAnswersNothing,
     Fail, DeleteRows, local, Inv, Base, Rows
<1>6. UNCHANGED <<late, screen>>
  BY <1>2, <1>3 DEF Worker, Start, StartUnconnected, Read, Call, CallFails, CallAnswersNothing,
     Fail, DeleteRows
<1>7. pc'["inbox"] \in {"idle", "read"}
  <2>1. CASE w = "inbox"
    <3>1. Wanted[w] = "PENDING_MOVE_TO_INBOX"
      BY <2>1 DEF Wanted
    <3>2. Start(w) \/ StartUnconnected(w) \/ NextPass(w)
      BY <1>3, <2>1, <3>1 DEF Worker, Read, Call, CallFails, CallAnswersNothing, DeleteRows, FlagInv,
         Quiet
    <3> QED
      BY <1>1, <2>1, <3>2 DEF Start, StartUnconnected, NextPass, End, Idle, Lists, Workers
  <2>2. CASE w # "inbox"
    BY <1>1, <2>2 DEF Own, FlagInv, Quiet, Workers
  <2> QED BY <2>1, <2>2
<1>8. /\ mark' = mark /\ copy'["seen"] = copy["seen"]
      /\ pc'["seen"] = pc["seen"] /\ grp'["seen"] = grp["seen"]
      /\ rest'["seen"] = rest["seen"] /\ pc'["empty"] = pc["empty"] /\ work'["empty"] = work["empty"]
      /\ grp["seen"] \subseteq Msgs /\ rest["seen"] \subseteq Msgs
  BY <1>1, <1>2 DEF Own, Workers, Lists
<1>9. Quiet'
  BY <1>5, <1>6, <1>7, <1>8 DEF FlagInv, Quiet, screen, Absent
<1>10. Asked' /\ Agree'
  BY <1>4, <1>5 DEF FlagInv, Asked, Agree, Absent
<1>11. Flagging'
  BY <1>4, <1>5, <1>8 DEF FlagInv, Flagging, Absent
<1> QED BY <1>9, <1>10, <1>11 DEF FlagInv

\* UpdateMsgsSeenStateWorker: the end of its work, and of its first pass.
LEMMA FlagEnds ==
  ASSUME Inv, FlagInv, Agree', Asked', \A m \in Msgs : st'[m] # "PENDING_MOVE_TO_INBOX",
         UNCHANGED <<late, screen>>, Own("seen"),
         grp'["seen"] \cap rest'["seen"] = {}, pc'["seen"] \notin {"call", "write", "update"}
  PROVE  FlagInv'
<1>1. /\ pc'["empty"] = pc["empty"] /\ work'["empty"] = work["empty"] /\ pc'["inbox"] = pc["inbox"]
  BY DEF Own, Workers
<1>2. Quiet'
  BY <1>1 DEF FlagInv, Quiet, screen
<1>3. Flagging'
  BY DEF Flagging
<1> QED BY <1>2, <1>3 DEF FlagInv

LEMMA FlagEnd ==
  ASSUME Lists, NEW r, End("seen", r) \/ NextPass("seen"), Flagging
  PROVE  grp'["seen"] \cap rest'["seen"] = {} /\ pc'["seen"] \notin {"call", "write", "update"}
<1>1. ASSUME NEW t, End("seen", t)
      PROVE  grp'["seen"] \cap rest'["seen"] = {} /\ pc'["seen"] \notin {"call", "write", "update"}
  BY <1>1 DEF Lists, End, Idle, Forget, Workers
<1> QED BY <1>1 DEF NextPass, Flagging, Lists, Workers

\* UpdateMsgsSeenStateWorker itself.
LEMMA FlagSeen ==
  ASSUME Inv, FlagInv, FlagsOnly, Worker("seen")
  PROVE  FlagInv'
<1> DEFINE w == "seen"
<1>1. /\ Lists /\ Own(w) /\ w \in Workers /\ Rows /\ Server
      /\ grp[w] \subseteq Msgs /\ rest[w] \subseteq Msgs
      /\ Quiet /\ Asked /\ Flagging /\ Agree
  BY OwnStep DEF Inv, Base, Lists, Workers, FlagInv
<1>2. /\ pc'["empty"] = pc["empty"] /\ work'["empty"] = work["empty"] /\ pc'["inbox"] = pc["inbox"]
  BY <1>1 DEF Own, Workers
<1>3. ASSUME UNCHANGED <<local, server>> PROVE Asked' /\ Agree' /\ \A m \in Msgs : st'[m] # "PENDING_MOVE_TO_INBOX"
  BY <1>1, <1>3 DEF Asked, Agree, Quiet, local, server
<1>4. CASE Start(w) \/ StartUnconnected(w)
  <2>1. UNCHANGED <<local, server, late, screen>>
    BY <1>4 DEF Start, StartUnconnected
  <2>2. grp'[w] \cap rest'[w] = {} /\ pc'[w] \notin {"call", "write", "update"}
    <3>1. CASE End(w, "none")
      BY <1>1, <3>1, FlagEnd
    <3>2. CASE ~End(w, "none")
      BY <1>1, <1>4, <3>2 DEF Start, StartUnconnected, data, Flagging, Lists
    <3> QED BY <3>1, <3>2
  <2> QED BY <1>1, <1>3, <2>1, <2>2, FlagEnds
<1>5. CASE Read(w)
  <2> DEFINE S == {m \in Msgs : st[m] = Wanted[w]}
  <2>1. UNCHANGED <<local, server, late, screen>>
    BY <1>5 DEF Read
  <2>2. CASE S = {}
    BY <1>1, <1>3, <1>5, <2>1, <2>2, FlagEnd, FlagEnds DEF Read
  <2>3. CASE S # {}
    <3>1. PICK f : /\ grp'[w] = {m \in S : Home[m] = f} /\ rest'[w] = {m \in S : Home[m] # f}
                   /\ pc'[w] = "call" /\ mark' = mark
      <4>1. Group(w, S) /\ pc' = [pc EXCEPT ![w] = "call"] /\ mark' = mark
        BY <1>5, <2>3 DEF Read
      <4> HIDE DEF S
      <4>2. PICK f : /\ grp' = [grp EXCEPT ![w] = {m \in S : Home[m] = f}]
                     /\ rest' = [rest EXCEPT ![w] = {m \in S : Home[m] # f}]
        BY <4>1 DEF Group
      <4> QED BY <1>1, <4>1, <4>2 DEF Lists
    <3>2. Wanted[w] # "NONE"
      BY DEF Wanted
    <3>3. Flagging'
      BY <2>1, <3>1, <3>2 DEF Flagging, local
    <3>4. Quiet'
      BY <1>1, <1>2, <2>1 DEF Quiet, screen, local
    <3> QED BY <1>3, <2>1, <3>3, <3>4 DEF FlagInv
  <2> QED BY <2>2, <2>3
\* The call reaches every message of the list that still exists.
<1>6. ASSUME pc[w] = "call", Apply(w, grp[w], mark)
      PROVE  /\ place' = place
             /\ \A m \in Msgs : st[m] = "NONE" => rseen'[m] = rseen[m]
             /\ \A m \in grp[w] : place[m] # Gone => rseen'[m] = mark
  <2>1. /\ place' = place
        /\ rseen' = [m \in Msgs |-> IF m \in grp[w] /\ Reaches(w, m) THEN mark ELSE rseen[m]]
    BY <1>6 DEF Apply
  <2>2. \A m \in Msgs : place[m] # Gone => Reaches(w, m)
    BY DEF Reaches, FlagsOnly
  <2>3. \A m \in grp[w] : st[m] # "NONE"
    BY <1>1, <1>6 DEF Flagging
  <2> QED BY <1>1, <2>1, <2>2, <2>3
<1>7. CASE Call(w)
  <2>1. /\ pc[w] = "call" /\ Apply(w, grp[w], mark) /\ pc'[w] = "write"
        /\ UNCHANGED <<st, seen, grp, rest, mark, late, screen>>
    BY <1>1, <1>7 DEF Call, Listed, data, local, Lists
  <2>2. Quiet' /\ Asked'
    BY <1>1, <1>2, <2>1 DEF Quiet, Asked, screen
  <2>3. Agree'
    BY <1>1, <1>6, <2>1 DEF Agree
  <2>4. Flagging'
    BY <1>1, <1>6, <2>1 DEF Flagging
  <2> QED BY <2>2, <2>3, <2>4 DEF FlagInv
<1>8. CASE CallFails(w) \/ CallAnswersNothing(w)
  <2>1. /\ pc[w] = "call" /\ (Apply(w, grp[w], mark) \/ UNCHANGED server)
        /\ \E r : End(w, r)
        /\ st' = [m \in Msgs |-> st[m]] /\ seen' = seen /\ UNCHANGED <<late, screen>>
    BY <1>8 DEF CallFails, CallAnswersNothing, Fail, Listed
  <2>2. st' = st
    BY <1>1, <2>1 DEF Rows
  <2>3. Agree' /\ Asked' /\ \A m \in Msgs : st'[m] # "PENDING_MOVE_TO_INBOX"
    <3>1. CASE Apply(w, grp[w], mark)
      BY <1>1, <1>6, <2>1, <2>2, <3>1 DEF Agree, Asked, Quiet
    <3>2. CASE UNCHANGED server
      BY <1>3, <2>1, <2>2, <3>2 DEF local
    <3> QED BY <2>1, <3>1, <3>2
  <2> QED BY <1>1, <2>1, <2>3, FlagEnd, FlagEnds
\* Only rows with the request it has served are copied: the copies agree with the server.
<1>11. CASE ReadAgain
  <2>1. /\ pc[w] = "write" /\ pc'[w] = "update" /\ UNCHANGED <<local, server, rest, mark, late, screen>>
        /\ grp'[w] = {m \in grp[w] : st[m] = Wanted[w]} /\ copy'[w] = seen
    BY <1>1, <1>11 DEF ReadAgain, Lists
  <2>2. \A m \in Msgs : st[m] = Wanted[w] => seen[m] = mark
    <3>1. mark \in BOOLEAN
      BY <1>1 DEF Lists
    <3>2. CASE mark = TRUE
      BY <1>1, <3>2 DEF Wanted, Asked
    <3>3. CASE mark = FALSE
      BY <1>1, <3>3 DEF Wanted, Asked
    <3> QED BY <3>1, <3>2, <3>3
  <2>3. Flagging'
    BY <1>1, <2>1, <2>2 DEF Flagging, local, server
  <2>4. Quiet'
    BY <1>1, <1>2, <2>1 DEF Quiet, screen, local
  <2> QED BY <1>3, <2>1, <2>3, <2>4 DEF FlagInv
\* The copies are written over the rows, whatever these hold by now.
<1>9. CASE WriteSeen
  <2>1. /\ pc[w] = "update" /\ Continue(w) /\ UNCHANGED <<place, rseen, late, screen>>
        /\ st' = [m \in Msgs |-> IF m \in grp[w] /\ st[m] # Absent THEN "NONE" ELSE st[m]]
        /\ seen' = [m \in Msgs |-> IF m \in grp[w] /\ st[m] # Absent THEN copy[w][m] ELSE seen[m]]
    BY <1>9 DEF WriteSeen, server
  <2>3. Agree'
    BY <1>1, <2>1 DEF Agree, Flagging
  <2>4. Asked' /\ \A m \in Msgs : st'[m] # "PENDING_MOVE_TO_INBOX"
    BY <1>1, <2>1 DEF Asked, Quiet
  <2>5. CASE rest[w] # {}
    <3>1. PICK f : /\ grp'[w] = {m \in rest[w] : Home[m] = f} /\ rest'[w] = {m \in rest[w] : Home[m] # f}
                   /\ pc'[w] = "call"
      <4>1. Group(w, rest[w]) /\ pc' = [pc EXCEPT ![w] = "call"]
        BY <2>1, <2>5 DEF Continue
      <4>2. PICK f : /\ grp' = [grp EXCEPT ![w] = {m \in rest[w] : Home[m] = f}]
                     /\ rest' = [rest EXCEPT ![w] = {m \in rest[w] : Home[m] # f}]
        BY <4>1 DEF Group
      <4> QED BY <1>1, <4>1, <4>2 DEF Lists
    <3>2. \A m \in rest[w] : st'[m] # "NONE"
      BY <1>1, <2>1 DEF Flagging
    <3>3. Flagging'
      BY <3>1, <3>2 DEF Flagging
    <3>4. Quiet'
      BY <1>1, <1>2, <2>1, <2>4 DEF Quiet, screen
    <3> QED BY <2>3, <2>4, <3>3, <3>4 DEF FlagInv
  <2>6. CASE rest[w] = {}
    <3>1. NextPass(w)
      BY <2>1, <2>6 DEF Continue
    <3> QED BY <1>1, <2>1, <2>3, <2>4, <3>1, FlagEnd, FlagEnds
  <2> QED BY <2>5, <2>6
<1>10. ~DeleteRows(w)
  BY DEF DeleteRows
<1> QED
  BY <1>4, <1>5, <1>7, <1>8, <1>9, <1>10, <1>11 DEF Worker

LEMMA FlagInit == Init => FlagInv
<1> SUFFICES ASSUME Init PROVE FlagInv
  OBVIOUS
<1>1. Quiet /\ Flagging
  BY DEF Init, Quiet, Flagging, Workers
<1>2. Asked /\ Agree
  BY DEF Init, Asked, Agree
<1> QED BY <1>1, <1>2 DEF FlagInv

LEMMA FlagStep ==
  ASSUME Inv, FlagInv, FlagsOnly, [Next]_vars
  PROVE  FlagInv'
<1>1. CASE User
  BY <1>1, FlagUser
<1>2. ASSUME NEW w \in Workers, Worker(w) PROVE FlagInv'
  BY <1>2, FlagOther, FlagSeen
<1>3. CASE Environment
  BY <1>3, FlagEnvironment
<1>4. CASE UNCHANGED vars
  BY <1>4 DEF vars, local, server, data, screen, FlagInv, Quiet, Asked, Flagging, Agree
<1> QED
  BY <1>1, <1>2, <1>3, <1>4 DEF Next

\* With the Gmail API, a row without a request shows the flag the server has: the worker resets
\* rows whose request is the one it has just carried out, and where it overwrites a request that
\* was made since it read them (getMsgsByUIDs, then updateSuspend), it overwrites the flag too.
THEOREM FlagsConverge ==
  ASSUME FlagsOnly
  PROVE  Spec => []SeenConverges
<1>1. Inv /\ FlagInv /\ [Next]_vars => FlagInv'
  BY FlagStep
<1>2. FlagInv => SeenConverges
  BY DEF FlagInv, Agree, SeenConverges
<1> QED
  BY <1>1, <1>2, FlagInit, Invariance, PTL DEF Spec

\* A request for a flag is cleared with the flag of the row as on the server, and unserved only
\* when the user made it between the second reading of the rows and their update.
THEOREM RequestedFlagIsSet ==
  ASSUME FlagsOnly
  PROVE  Spec => ClearedFlagAgrees
<1> DEFINE Cleared == \A m \in Msgs :
             st[m] \in {"PENDING_MARK_READ", "PENDING_MARK_UNREAD"} /\ st'[m] = "NONE" /\ place'[m] # Gone
               => /\ seen'[m] = rseen'[m]
                  /\ rseen'[m] = (st[m] = "PENDING_MARK_READ") \/ Overwritten(m)
<1>1. ASSUME Inv, FlagInv, FlagInv', [Next]_vars, NEW m \in Msgs, place'[m] # Gone, st'[m] = "NONE",
             st[m] \in {"PENDING_MARK_READ", "PENDING_MARK_UNREAD"}
      PROVE  seen'[m] = rseen'[m] /\ (seen'[m] = seen[m] \/ Overwritten(m))
  <2>1. SUFFICES seen'[m] = seen[m] \/ Overwritten(m)
    BY <1>1 DEF FlagInv, Agree
  <2>2. snack = {} /\ undo = {} /\ pc["inbox"] # "write" /\ pc["empty"] = "idle"
    BY <1>1 DEF FlagInv, Quiet
  <2>3. st \in [Msgs -> States \cup {Absent}]
    BY <1>1 DEF Inv, Base, Rows
  <2>4. CASE User
    <3>1. ASSUME NEW n \in Msgs, \/ Archive(n) \/ Swipe(n) \/ Delete(n) \/ DeletePermanently(n)
                                 \/ MoveToInbox(n) \/ MarkRead(n) \/ MarkUnread(n)
          PROVE  FALSE
      <4>1. st'[n] # "NONE" /\ \A k \in Msgs : k # n => st'[k] = st[k]
        BY <2>3, <3>1 DEF Archive, Swipe, Delete, DeletePermanently, MoveToInbox, MarkRead, MarkUnread,
           Request, SetState
      <4> QED BY <1>1, <4>1
    <3>2. ASSUME NEW n \in Msgs, Undo(n) \/ UndoWrite(n) \/ Dismiss(n) PROVE FALSE
      BY <2>2, <3>2 DEF Undo, UndoWrite, Dismiss
    <3>3. CASE Observe \/ EmptyTrash \/ OpenFolder
      BY <3>3 DEF Observe, EmptyTrash, OpenFolder, local
    <3> QED BY <1>1, <2>4, <3>1, <3>2, <3>3 DEF User, local
  <2>5. ASSUME NEW w \in Workers, Worker(w) PROVE seen'[m] = seen[m] \/ Overwritten(m)
    <3>1. ~WriteMoved
      BY <2>2 DEF WriteMoved
    <3>2. CASE WriteSeen
      BY <3>2 DEF WriteSeen, Overwritten
    <3>3. CASE ~WriteSeen
      BY <2>5, <3>1, <3>3 DEF Worker, Start, StartUnconnected, Read, Call, CallFails,
         CallAnswersNothing, Fail, DeleteRows, ReadTrash, ReadAgain, local
    <3> QED BY <3>2, <3>3
  <2>6. CASE Environment
    BY <1>1, <2>6 DEF Environment, CancelAll, Crash, LateCall, local
  <2>7. CASE UNCHANGED vars
    BY <2>7 DEF vars, local
  <2> QED BY <1>1, <2>4, <2>5, <2>6, <2>7 DEF Next
<1>2. Inv /\ FlagInv /\ FlagInv' /\ [Next]_vars => [Cleared]_vars
  <2> SUFFICES ASSUME Inv, FlagInv, FlagInv', [Next]_vars PROVE Cleared
    OBVIOUS
  <2>1. \A m \in Msgs : /\ st[m] = "PENDING_MARK_READ" => seen[m] = TRUE
                        /\ st[m] = "PENDING_MARK_UNREAD" => seen[m] = FALSE
    BY DEF FlagInv, Asked
  <2> QED BY <1>1, <2>1
<1>3. Inv /\ FlagInv /\ [Next]_vars => FlagInv'
  BY FlagStep
<1> QED
  BY <1>2, <1>3, FlagInit, Invariance, PTL DEF Spec, ClearedFlagAgrees

=============================================================================
