---------------------------- MODULE FolderProofs ----------------------------
(***************************************************************************)
(* Proofs about FolderSync, for any number of messages, events and passes: *)
(* a pass deletes the row of a message it asked the server for only when   *)
(* the message is gone, whatever the other passes, the user and the server *)
(* do between its reads, its IMAP commands and its writes.                 *)
(***************************************************************************)
EXTENDS FolderSync, FiniteSetTheorems, WellFoundedInduction, TLAPS

PCs == {"rest", "start", "oldest", "uids", "fetch", "fetchNew", "map", "delete", "update", "insert"}

Pass == [pc : PCs, map : Folder, old : 0 .. MaxUid, new : 0 .. MaxUid, got : Folder, fresh : Folder]

Types ==
  /\ box \in Folder /\ rows \in Folder
  /\ uidNext \in 1 .. MaxUid + 1
  /\ pass \in [Passes -> Pass]
  /\ changed \subseteq Uids \X Flags
  /\ idle \in [on : BOOLEAN, attempt : 0 .. ATTEMPT_COUNT]
  /\ left \in Nat

\* A folder of messages the server has given out UIDs for.
Given(f) == \A u \in Uids : f[u] # Absent => u < uidNext

\* UIDs are given out in order, so what a pass has read is older than what arrives later.
Past(s) == Given(s.map) /\ Given(s.got) /\ Given(s.fresh) /\ s.new < uidNext

\* The passes that delete rows after they have asked the server.
Deleting == {"idleSync", "periodic", "removed", "refresh"}

\* A row a pass has asked for without an answer belongs to a message that is gone.
Answered(p, s) ==
  /\ p \notin Deleting => s.pc # "delete"
  /\ p # "refresh" /\ s.pc = "delete" =>
       \A u \in Uids : s.map[u] # Absent /\ s.got[u] = Absent /\ s.old <= u => box[u] = Absent
  /\ p = "refresh" /\ s.pc \in {"fetchNew", "map", "delete"} =>
       \A u \in Uids : s.got[u] = Absent /\ s.old <= u /\ u <= s.new /\ s.old < s.new
                         => box[u] = Absent

Inv ==
  /\ Types
  /\ Given(box) /\ Given(rows)
  /\ \A p \in Passes : Past(pass[p]) /\ Answered(p, pass[p])

-----------------------------------------------------------------------------
(* Folders, and the smallest and the largest UID. *)

LEMMA FolderFacts ==
  ASSUME NEW f \in Folder, NEW g \in Folder, NEW S
  PROVE  /\ Nothing \in Folder /\ Only(f, S) \in Folder /\ Over(f, g) \in Folder
         /\ In(f) \subseteq Uids
         /\ \A u \in Uids : Only(f, S)[u] # Absent => u \in S /\ f[u] # Absent
         /\ \A u \in Uids : u \in S => Only(f, S)[u] = f[u]
         /\ \A u \in Uids : Over(f, g)[u] # Absent => f[u] # Absent \/ g[u] # Absent
         /\ \A u \in Uids : Nothing[u] = Absent
BY DEF Folder, Nothing, Only, Over, In

LEMMA HasMin ==
  ASSUME NEW S \in SUBSET Nat, S # {}
  PROVE  \E x \in S : \A y \in S : x <= y
<1>1. IsWellFoundedOn(OpToRel(<, Nat), Nat) BY NatLessThanWellFounded, Zenon
<1>2. PICK x \in S : \A y \in S : ~ (<<y, x>> \in OpToRel(<, Nat)) BY <1>1, WFMin, Zenon
<1>3. \A y \in S : ~ (y < x) BY <1>2 DEF OpToRel
<1>4. QED BY <1>3

LEMMA HasMax ==
  ASSUME NEW S \in SUBSET Uids, S # {}
  PROVE  \E x \in S : \A y \in S : x >= y
<1> DEFINE T == {n \in Nat : \E x \in S : n = MaxUid - x}
<1>1. T \in SUBSET Nat OBVIOUS
<1>2. \A x \in S : MaxUid - x \in T BY BoundsAssumption DEF Uids
<1>3. T # {} BY <1>2
<1>4. PICK n \in T : \A k \in T : n <= k
  <2> HIDE DEF T
  <2> QED BY <1>1, <1>3, HasMin
<1>5. PICK x \in S : n = MaxUid - x BY <1>4
<1>6. ASSUME NEW y \in S PROVE x >= y
  <2>1. MaxUid - x <= MaxUid - y BY <1>2, <1>4, <1>5
  <2>2. QED BY <2>1, BoundsAssumption DEF Uids
<1>7. QED BY <1>6

\* What the two queries of MessageDao return.
LEMMA OldestNewest ==
  ASSUME Types, Given(rows)
  PROVE  /\ Oldest \in 0 .. MaxUid /\ Newest \in 0 .. MaxUid /\ Newest < uidNext
<1> DEFINE S == In(rows)
<1>1. S \in SUBSET Uids BY DEF In
<1>2. \A u \in S : u < uidNext /\ u \in 0 .. MaxUid BY BoundsAssumption DEF Given, In, Uids
<1>3. uidNext \in Nat \ {0} BY BoundsAssumption DEF Types
<1>4. CASE S = {} BY <1>3, <1>4, BoundsAssumption DEF Oldest, Newest
<1>5. CASE S # {}
  <2>1. \E x \in S : \A y \in S : x >= y
    <3> HIDE DEF S
    <3> QED BY <1>1, <1>5, HasMax
  <2>2. \E x \in S : \A y \in S : x =< y
    <3>1. S \in SUBSET Nat BY <1>1 DEF Uids
    <3> HIDE DEF S
    <3> QED BY <3>1, <1>5, HasMin
  <2>3. Max(S) \in S BY <2>1 DEF Max
  <2>4. Min(S) \in S BY <2>2 DEF Min
  <2>5. Newest = Max(S) /\ Oldest = Min(S) BY <1>5 DEF Newest, Oldest
  <2> HIDE DEF S
  <2> QED BY <1>2, <2>3, <2>4, <2>5
<1>6. QED BY <1>4, <1>5

LEMMA CountType ==
  ASSUME NEW f \in Folder
  PROVE  Cardinality(In(f)) \in 0 .. MaxUid
<1>1. In(f) \subseteq Uids BY DEF In
<1>2. IsFiniteSet(Uids) /\ Cardinality(Uids) = MaxUid
  <2>1. MaxUid \in Nat BY BoundsAssumption
  <2>2. IsFiniteSet(1 .. MaxUid) /\ Cardinality(1 .. MaxUid) = IF 1 > MaxUid THEN 0 ELSE MaxUid - 1 + 1
    BY <2>1, FS_Interval
  <2>3. QED BY <2>1, <2>2 DEF Uids
<1>3. IsFiniteSet(In(f)) /\ Cardinality(In(f)) <= MaxUid BY <1>1, <1>2, FS_Subset
<1>4. Cardinality(In(f)) \in Nat BY <1>3, FS_CardinalityType
<1>5. QED BY <1>3, <1>4, BoundsAssumption

-----------------------------------------------------------------------------
(* Steps that change one pass, and the rows. *)

LEMMA Records ==
  /\ Resting \in Pass /\ \A p \in Passes : Started(p) \in Pass
  /\ Nothing \in Folder
BY BoundsAssumption DEF Resting, Started, Pass, PCs, Folder, Nothing

LEMMA Rests ==
  ASSUME Inv, NEW p \in Passes, NEW s \in {Resting, Started(p)}
  PROVE  s \in Pass /\ Past(s) /\ Answered(p, s)
<1>1. uidNext \in Nat \ {0} BY BoundsAssumption DEF Inv, Types
<1>2. s \in Pass BY Records
<1>3. s.pc \in {"rest", "start"} /\ s.map = Nothing /\ s.got = Nothing /\ s.fresh = Nothing /\ s.new = 0
  BY DEF Resting, Started
<1>4. Past(s) BY <1>1, <1>3 DEF Past, Given, Nothing
<1>5. Answered(p, s) BY <1>3 DEF Answered
<1>6. QED BY <1>2, <1>4, <1>5

LEMMA StepInv ==
  ASSUME Inv, NEW p \in Passes, NEW s \in Pass, Step(p, s), Past(s), Answered(p, s),
         rows' \in Folder, Given(rows)', left' \in Nat,
         idle' \in [on : BOOLEAN, attempt : 0 .. ATTEMPT_COUNT],
         UNCHANGED <<box, uidNext, changed>>
  PROVE  Inv'
<1>1. pass' \in [Passes -> Pass] /\ \A q \in Passes : pass'[q] = IF q = p THEN s ELSE pass[q]
  BY DEF Inv, Types, Step
<1>2. Types' BY <1>1 DEF Inv, Types
<1>3. Given(box)' BY DEF Inv, Given
<1>4. \A q \in Passes : Past(pass[q])' /\ Answered(q, pass[q])'
  <2> SUFFICES ASSUME NEW q \in Passes PROVE Past(pass[q])' /\ Answered(q, pass[q])'
    OBVIOUS
  <2>1. Past(pass'[q]) /\ Answered(q, pass'[q]) BY <1>1 DEF Inv
  <2>2. QED BY <2>1 DEF Past, Given, Answered
<1>5. QED BY <1>2, <1>3, <1>4 DEF Inv

\* A pass that only reads.
LEMMA ReadStep ==
  ASSUME Inv, NEW p \in Passes, NEW s \in Pass, Step(p, s), Past(s), Answered(p, s), OnlyReads
  PROVE  Inv'
<1>1. rows' \in Folder /\ Given(rows)' /\ left' \in Nat
      /\ idle' \in [on : BOOLEAN, attempt : 0 .. ATTEMPT_COUNT]
  BY DEF Inv, Types, OnlyReads, Given
<1>2. QED BY <1>1, StepInv DEF OnlyReads

\* A pass that writes.
LEMMA WriteStep ==
  ASSUME Inv, NEW p \in Passes, NEW s \in Pass, Step(p, s), Past(s), Answered(p, s), OnlyWrites,
         rows' \in Folder, Given(rows)'
  PROVE  Inv'
<1>1. left' \in Nat /\ idle' \in [on : BOOLEAN, attempt : 0 .. ATTEMPT_COUNT]
  BY DEF Inv, Types, OnlyWrites
<1>2. QED BY <1>1, StepInv DEF OnlyWrites

\* The writes of MessageDao bring no row of a message the server has not given out.
LEMMA Writes ==
  ASSUME Inv, uidNext' = uidNext, NEW f \in Folder, Given(f), NEW S,
         deleteByUIDs(S) \/ updateFlags(f) \/ insertWithReplace(f)
  PROVE  rows' \in Folder /\ Given(rows)'
<1>1. CASE deleteByUIDs(S)
  BY <1>1, FolderFacts DEF deleteByUIDs, Inv, Types, Given
<1>2. CASE updateFlags(f)
  <2>1. Only(f, In(rows)) \in Folder BY FolderFacts
  <2>2. QED BY <1>2, <2>1, FolderFacts DEF updateFlags, Inv, Types, Given
<1>3. CASE insertWithReplace(f)
  BY <1>3, FolderFacts DEF insertWithReplace, Inv, Types, Given
<1>4. QED BY <1>1, <1>2, <1>3

LEMMA DeleteWrites ==
  ASSUME Inv, uidNext' = uidNext, NEW S, deleteByUIDs(S)
  PROVE  rows' \in Folder /\ Given(rows)'
<1>1. Nothing \in Folder /\ Given(Nothing) BY Records DEF Given, Nothing
<1>2. QED BY <1>1, Writes

\* A pass that goes on with new messages only.
LEMMA Picked ==
  ASSUME Inv, NEW p \in Passes, NEW f \in Folder, Given(f), NEW pc \in PCs \ {"delete", "map"},
         p = "refresh" => pc # "fetchNew"
  PROVE  LET t == [Resting EXCEPT !.pc = pc, !.got = f]
         IN t \in Pass /\ Past(t) /\ Answered(p, t)
<1> DEFINE t == [Resting EXCEPT !.pc = pc, !.got = f]
<1>1. /\ t \in Pass /\ t.pc = pc /\ t.got = f /\ t.map = Nothing /\ t.fresh = Nothing /\ t.new = 0
  BY BoundsAssumption, Records DEF Resting, Pass
<1>2. uidNext \in Nat \ {0} BY BoundsAssumption DEF Inv, Types
<1>3. Past(t) BY <1>1, <1>2 DEF Past, Given, Nothing
<1>4. Answered(p, t) BY <1>1 DEF Answered
<1>5. QED BY <1>1, <1>3, <1>4

\* The candidates EmailUtil computes, and what the server answers.
LEMMA Candidates ==
  ASSUME NEW map \in Folder, NEW msgs \in Folder
  PROVE  /\ genNewCandidates(map, msgs) \in Folder /\ genUpdateCandidates(map, msgs) \in Folder
         /\ Given(msgs) => Given(genNewCandidates(map, msgs)) /\ Given(genUpdateCandidates(map, msgs))
BY FolderFacts DEF genNewCandidates, genUpdateCandidates, Given

LEMMA Answers ==
  ASSUME Inv, NEW n \in Nat, NEW e \in Nat
  PROVE  /\ getMessagesFrom(n) \in Folder /\ Given(getMessagesFrom(n))
         /\ \A u \in Uids : getMessagesFrom(n)[u] = Absent /\ n <= u => box[u] = Absent
         /\ getUpdatedMsgsByUID(n, e) \in Folder /\ Given(getUpdatedMsgsByUID(n, e))
         /\ \A u \in Uids : getUpdatedMsgsByUID(n, e)[u] = Absent /\ n <= u /\ u <= e /\ n < e
                              => box[u] = Absent
<1>1. box \in Folder /\ Given(box) BY DEF Inv, Types
<1>2. getMessagesFrom(n) \in Folder /\ Given(getMessagesFrom(n))
  BY <1>1, FolderFacts DEF getMessagesFrom, Given
<1>3. ASSUME NEW u \in Uids, getMessagesFrom(n)[u] = Absent, n <= u PROVE box[u] = Absent
  BY <1>1, <1>3 DEF getMessagesFrom, In, Only
<1>4. getUpdatedMsgsByUID(n, e) \in Folder /\ Given(getUpdatedMsgsByUID(n, e))
  BY <1>1, FolderFacts DEF getUpdatedMsgsByUID, Given
<1>5. ASSUME NEW u \in Uids, getUpdatedMsgsByUID(n, e)[u] = Absent, n <= u, u <= e, n < e
      PROVE  box[u] = Absent
  BY <1>1, <1>5 DEF getUpdatedMsgsByUID, Uids, Only
<1>6. QED BY <1>2, <1>3, <1>4, <1>5

LEMMA PassFacts ==
  ASSUME Inv, NEW p \in Passes
  PROVE  /\ pass[p] \in Pass /\ Past(pass[p]) /\ Answered(p, pass[p])
         /\ pass[p].map \in Folder /\ pass[p].got \in Folder /\ pass[p].fresh \in Folder
         /\ pass[p].old \in 0 .. MaxUid /\ pass[p].new \in 0 .. MaxUid
         /\ pass[p].old \in Nat /\ pass[p].new \in Nat /\ uidNext \in Nat \ {0}
<1>1. pass[p] \in Pass /\ uidNext \in Nat \ {0} BY BoundsAssumption DEF Inv, Types
<1>2. QED BY <1>1, BoundsAssumption DEF Inv, Pass

\* The queries of a pass that has not asked the server yet.
LEMMA Queries ==
  ASSUME Inv, NEW p \in Passes, NEW pc \in PCs \ {"fetchNew", "map", "delete"},
         readOldest(p, pc) \/ readNewest(p, pc) \/ readUIDs(p, pc) \/ readMap(p, pc), OnlyReads
  PROVE  Inv'
<1>1. PICK s : /\ Step(p, s)
               /\ \/ s = [pass[p] EXCEPT !.pc = pc, !.old = Oldest]
                  \/ s = [pass[p] EXCEPT !.pc = pc, !.new = Newest]
                  \/ s = [pass[p] EXCEPT !.pc = pc, !.map = CachedUIDs]
                  \/ s = [pass[p] EXCEPT !.pc = pc, !.map = rows]
  BY DEF readOldest, readNewest, readUIDs, readMap
<1>2. Oldest \in 0 .. MaxUid /\ Newest \in 0 .. MaxUid /\ Newest < uidNext
  BY OldestNewest DEF Inv
<1>3. rows \in Folder /\ Given(rows) BY DEF Inv, Types
<1>4. CachedUIDs \in Folder /\ Given(CachedUIDs)
  BY <1>3 DEF CachedUIDs, Folder, Flags, Given, Absent
<1>5. s \in Pass BY <1>1, <1>2, <1>3, <1>4, PassFacts DEF Pass
<1>6. Past(s) /\ s.pc = pc BY <1>1, <1>2, <1>3, <1>4, PassFacts DEF Past, Pass
<1>7. Answered(p, s) BY <1>6 DEF Answered
<1>8. QED BY <1>1, <1>5, <1>6, <1>7, ReadStep

LEMMA SyncInv ==
  ASSUME Inv, NEW p \in {"idleSync", "periodic"}, syncMessages(p)
  PROVE  Inv'
<1> DEFINE s == pass[p]
<1>1. p \in Passes /\ p # "refresh" /\ p \in Deleting BY DEF Passes, Workers, Deleting
<1>2. CASE Starts(p) /\ readMap(p, "oldest") /\ OnlyReads
  BY <1>1, <1>2, Queries DEF PCs
<1>3. CASE /\ At(p, "oldest") /\ OnlyReads
           /\ IF In(rows) = {} THEN Step(p, Resting) ELSE readOldest(p, "fetch")
  <2>1. CASE Step(p, Resting) BY <1>1, <1>3, <2>1, Rests, ReadStep
  <2>2. CASE readOldest(p, "fetch") BY <1>1, <1>3, <2>2, Queries DEF PCs
  <2>3. QED BY <1>3, <2>1, <2>2
<1>4. CASE /\ At(p, "fetch") /\ OnlyReads
           /\ Step(p, [s EXCEPT !.pc = "delete", !.got = getMessagesFrom(s.old)])
  <2> DEFINE t == [s EXCEPT !.pc = "delete", !.got = getMessagesFrom(s.old)]
  <2>1. /\ getMessagesFrom(s.old) \in Folder /\ Given(getMessagesFrom(s.old))
        /\ \A u \in Uids : getMessagesFrom(s.old)[u] = Absent /\ s.old <= u => box[u] = Absent
    BY <1>1, PassFacts, Answers
  <2>2. /\ t \in Pass /\ t.pc = "delete" /\ t.got = getMessagesFrom(s.old)
        /\ t.map = s.map /\ t.old = s.old /\ t.fresh = s.fresh /\ t.new = s.new
    BY <1>1, <2>1, PassFacts DEF Pass, PCs
  <2>3. Past(t) BY <1>1, <2>1, <2>2, PassFacts DEF Past
  <2>4. Answered(p, t) BY <1>1, <2>1, <2>2 DEF Answered
  <2> HIDE DEF t
  <2>5. QED BY <1>1, <1>4, <2>2, <2>3, <2>4, ReadStep DEF t
<1>5. CASE /\ At(p, "delete") /\ OnlyWrites
           /\ deleteByUIDs(genDeleteCandidates(s.map, s.got))
           /\ Step(p, [s EXCEPT !.pc = "update", !.old = 0])
  <2> DEFINE t == [s EXCEPT !.pc = "update", !.old = 0]
  <2>1. t \in Pass /\ Past(t) /\ t.pc = "update"
    <3>1. 0 \in 0 .. MaxUid BY BoundsAssumption
    <3>2. QED BY <1>1, <3>1, PassFacts DEF Pass, PCs, Past
  <2>2. Answered(p, t) BY <1>1, <2>1 DEF Answered
  <2>3. rows' \in Folder /\ Given(rows)' BY <1>5, DeleteWrites DEF OnlyWrites
  <2> HIDE DEF t
  <2>4. QED BY <1>1, <1>5, <2>1, <2>2, <2>3, WriteStep DEF t
<1>6. CASE /\ At(p, "update") /\ OnlyWrites
           /\ updateFlags(genUpdateCandidates(s.map, s.got))
           /\ Step(p, [Resting EXCEPT !.pc = "fetchNew", !.got = genNewCandidates(s.map, s.got)])
  <2> DEFINE t == [Resting EXCEPT !.pc = "fetchNew", !.got = genNewCandidates(s.map, s.got)]
  <2>1. /\ genNewCandidates(s.map, s.got) \in Folder /\ Given(genNewCandidates(s.map, s.got))
        /\ genUpdateCandidates(s.map, s.got) \in Folder /\ Given(genUpdateCandidates(s.map, s.got))
    BY <1>1, PassFacts, Candidates DEF Past
  <2>2. t \in Pass /\ Past(t) /\ Answered(p, t) BY <1>1, <2>1, Picked DEF PCs
  <2>3. rows' \in Folder /\ Given(rows)' BY <1>6, <2>1, Writes DEF OnlyWrites
  <2> HIDE DEF t
  <2>4. QED BY <1>1, <1>6, <2>2, <2>3, WriteStep DEF t
<1>7. CASE /\ At(p, "fetchNew") /\ OnlyReads
           /\ LET new == Only(box, In(s.got))
              IN Step(p, IF In(s.got) = {} THEN Resting ELSE [s EXCEPT !.pc = "insert", !.got = new])
  <2> DEFINE t == [s EXCEPT !.pc = "insert", !.got = Only(box, In(s.got))]
  <2>1. CASE Step(p, Resting) BY <1>1, <1>7, <2>1, Rests, ReadStep
  <2>2. CASE Step(p, t)
    <3>1. Only(box, In(s.got)) \in Folder /\ Given(Only(box, In(s.got)))
      BY FolderFacts DEF Inv, Types, Given
    <3>2. t \in Pass /\ Past(t) /\ t.pc = "insert"
      BY <1>1, <3>1, PassFacts DEF Pass, PCs, Past
    <3>3. Answered(p, t) BY <1>1, <3>2 DEF Answered
    <3> HIDE DEF t
    <3>4. QED BY <1>1, <1>7, <2>2, <3>2, <3>3, ReadStep
  <2>3. QED BY <1>7, <2>1, <2>2
<1>8. CASE At(p, "insert") /\ OnlyWrites /\ Step(p, Resting) /\ insertWithReplace(s.got)
  <2>1. s.got \in Folder /\ Given(s.got) BY <1>1, PassFacts DEF Past
  <2>2. rows' \in Folder /\ Given(rows)' BY <1>8, <2>1, Writes DEF OnlyWrites
  <2>3. QED BY <1>1, <1>8, <2>2, Rests, WriteStep
<1>9. QED BY <1>2, <1>3, <1>4, <1>5, <1>6, <1>7, <1>8 DEF syncMessages

LEMMA AddedInv ==
  ASSUME Inv, checkAndProcessNewMessages
  PROVE  Inv'
<1> DEFINE p == "added"
           s == pass[p]
           new == Only(getMessagesFrom(s.new), Uids \ In(s.map))
<1>1. p \in Passes /\ p # "refresh" BY DEF Passes, Workers
<1>2. CASE Starts(p) /\ readNewest(p, "uids") /\ OnlyReads
  BY <1>1, <1>2, Queries DEF PCs
<1>3. CASE At(p, "uids") /\ readUIDs(p, "fetch") /\ OnlyReads
  BY <1>1, <1>3, Queries DEF PCs
<1>4. CASE /\ At(p, "fetch") /\ OnlyReads
           /\ Step(p, IF In(new) = {} THEN Resting
                      ELSE [Resting EXCEPT !.pc = "insert", !.got = new])
  <2>1. CASE Step(p, Resting) BY <1>1, <1>4, <2>1, Rests, ReadStep
  <2>2. CASE Step(p, [Resting EXCEPT !.pc = "insert", !.got = new])
    <3> DEFINE t == [Resting EXCEPT !.pc = "insert", !.got = new]
    <3>1. getMessagesFrom(s.new) \in Folder /\ Given(getMessagesFrom(s.new))
      BY <1>1, PassFacts, Answers
    <3>2. new \in Folder /\ Given(new) BY <3>1, FolderFacts DEF Given
    <3> HIDE DEF new
    <3>3. t \in Pass /\ Past(t) /\ Answered(p, t) BY <1>1, <3>2, Picked DEF PCs
    <3> HIDE DEF t
    <3>4. QED BY <1>1, <1>4, <2>2, <3>3, ReadStep DEF t
  <2>3. QED BY <1>4, <2>1, <2>2
<1>5. CASE At(p, "insert") /\ OnlyWrites /\ Step(p, Resting) /\ insertWithReplace(s.got)
  <2>1. s.got \in Folder /\ Given(s.got) BY <1>1, PassFacts DEF Past
  <2>2. rows' \in Folder /\ Given(rows)' BY <1>5, <2>1, Writes DEF OnlyWrites
  <2>3. QED BY <1>1, <1>5, <2>2, Rests, WriteStep
<1>6. QED BY <1>2, <1>3, <1>4, <1>5 DEF checkAndProcessNewMessages

LEMMA RemovedInv ==
  ASSUME Inv, syncInboxAndRemoveRedundantMsgs
  PROVE  Inv'
<1> DEFINE p == "removed"
           s == pass[p]
           t == [s EXCEPT !.pc = "delete", !.got = getMessagesFrom(s.old)]
<1>1. p \in Passes /\ p # "refresh" /\ p \in Deleting BY DEF Passes, Workers, Deleting
<1>2. CASE Starts(p) /\ readOldest(p, "uids") /\ OnlyReads
  BY <1>1, <1>2, Queries DEF PCs
<1>3. CASE At(p, "uids") /\ readUIDs(p, "fetch") /\ OnlyReads
  BY <1>1, <1>3, Queries DEF PCs
<1>4. CASE At(p, "fetch") /\ OnlyReads /\ Step(p, t)
  <2>1. /\ getMessagesFrom(s.old) \in Folder /\ Given(getMessagesFrom(s.old))
        /\ \A u \in Uids : getMessagesFrom(s.old)[u] = Absent /\ s.old <= u => box[u] = Absent
    BY <1>1, PassFacts, Answers
  <2>2. /\ t \in Pass /\ t.pc = "delete" /\ t.got = getMessagesFrom(s.old)
        /\ t.map = s.map /\ t.old = s.old /\ t.fresh = s.fresh /\ t.new = s.new
    BY <1>1, <2>1, PassFacts DEF Pass, PCs
  <2>3. Past(t) BY <1>1, <2>1, <2>2, PassFacts DEF Past
  <2>4. Answered(p, t) BY <1>1, <2>1, <2>2 DEF Answered
  <2> HIDE DEF t
  <2>5. QED BY <1>1, <1>4, <2>2, <2>3, <2>4, ReadStep
<1>5. CASE /\ At(p, "delete") /\ OnlyWrites /\ Step(p, Resting)
           /\ deleteByUIDs(genDeleteCandidates(s.map, s.got))
  <2>1. rows' \in Folder /\ Given(rows)' BY <1>5, DeleteWrites DEF OnlyWrites
  <2>2. QED BY <1>1, <1>5, <2>1, Rests, WriteStep
<1>6. QED BY <1>2, <1>3, <1>4, <1>5 DEF syncInboxAndRemoveRedundantMsgs

LEMMA RefreshInv ==
  ASSUME Inv, refreshMsgsInternal
  PROVE  Inv'
<1> DEFINE p == "refresh"
           s == pass[p]
           got == getUpdatedMsgsByUID(s.old, s.new)
           new == Over(getMessagesFrom(s.new), Only(box, In(s.got)))
           fresh == Only(new, Uids \ In(s.map))
<1>1. p \in Passes /\ p \in Deleting BY DEF Passes, Deleting
<1>2. CASE Starts(p) /\ readNewest(p, "oldest") /\ OnlyReads
  BY <1>1, <1>2, Queries DEF PCs
<1>3. CASE At(p, "oldest") /\ readOldest(p, "uids") /\ OnlyReads
  BY <1>1, <1>3, Queries DEF PCs
<1>4. CASE At(p, "uids") /\ readUIDs(p, "fetch") /\ OnlyReads
  BY <1>1, <1>4, Queries DEF PCs
<1>5. CASE At(p, "fetch") /\ OnlyReads /\ Step(p, [s EXCEPT !.pc = "fetchNew", !.got = got])
  <2> DEFINE t == [s EXCEPT !.pc = "fetchNew", !.got = got]
  <2>1. /\ got \in Folder /\ Given(got)
        /\ \A u \in Uids : got[u] = Absent /\ s.old <= u /\ u <= s.new /\ s.old < s.new
                             => box[u] = Absent
    BY <1>1, PassFacts, Answers
  <2> HIDE DEF got
  <2>2. /\ t \in Pass /\ t.pc = "fetchNew" /\ t.got = got
        /\ t.map = s.map /\ t.old = s.old /\ t.fresh = s.fresh /\ t.new = s.new
    BY <1>1, <2>1, PassFacts DEF Pass, PCs
  <2>3. Past(t) BY <1>1, <2>1, <2>2, PassFacts DEF Past
  <2>4. Answered(p, t) BY <1>1, <2>1, <2>2 DEF Answered
  <2> HIDE DEF t
  <2>5. QED BY <1>1, <1>5, <2>2, <2>3, <2>4, ReadStep DEF t
<1>6. CASE /\ At(p, "fetchNew") /\ OnlyReads
           /\ Step(p, [s EXCEPT !.pc = "map", !.map = Nothing, !.fresh = fresh])
  <2> DEFINE t == [s EXCEPT !.pc = "map", !.map = Nothing, !.fresh = fresh]
  <2>1. getMessagesFrom(s.new) \in Folder /\ Given(getMessagesFrom(s.new))
    BY <1>1, PassFacts, Answers
  <2>2. Only(box, In(s.got)) \in Folder /\ Given(Only(box, In(s.got)))
    BY FolderFacts DEF Inv, Types, Given
  <2>3. new \in Folder /\ Given(new) BY <2>1, <2>2, FolderFacts DEF Given
  <2> HIDE DEF new
  <2>4. fresh \in Folder /\ Given(fresh) BY <2>3, FolderFacts DEF Given
  <2> HIDE DEF fresh
  <2>5. /\ t \in Pass /\ t.pc = "map" /\ t.got = s.got
        /\ t.map = Nothing /\ t.old = s.old /\ t.fresh = fresh /\ t.new = s.new
    BY <1>1, <2>4, PassFacts, Records DEF Pass, PCs
  <2>6. Past(t) BY <1>1, <2>4, <2>5, PassFacts DEF Past, Given, Nothing
  <2>7. Answered(p, t) BY <1>1, <1>6, <2>5, PassFacts DEF Answered, At
  <2> HIDE DEF t
  <2>8. QED BY <1>1, <1>6, <2>5, <2>6, <2>7, ReadStep DEF t
<1>7. QED BY <1>2, <1>3, <1>4, <1>5, <1>6 DEF refreshMsgsInternal

LEMMA HandleInv ==
  ASSUME Inv, handleRefreshedMsgs
  PROVE  Inv'
<1> DEFINE p == "refresh"
           s == pass[p]
<1>1. p \in Passes /\ p \in Deleting BY DEF Passes, Deleting
<1>2. CASE At(p, "map") /\ readMap(p, "delete") /\ OnlyReads
  <2> DEFINE t == [s EXCEPT !.pc = "delete", !.map = rows]
  <2>1. rows \in Folder /\ Given(rows) BY DEF Inv, Types
  <2>2. /\ t \in Pass /\ t.pc = "delete" /\ t.got = s.got
        /\ t.map = rows /\ t.old = s.old /\ t.fresh = s.fresh /\ t.new = s.new
    BY <1>1, <2>1, PassFacts DEF Pass, PCs
  <2>3. Past(t) BY <1>1, <2>1, <2>2, PassFacts DEF Past
  <2>4. Answered(p, t) BY <1>1, <1>2, <2>2, PassFacts DEF Answered, At
  <2>5. Step(p, t) BY <1>2 DEF readMap
  <2> HIDE DEF t
  <2>6. QED BY <1>1, <1>2, <2>2, <2>3, <2>4, <2>5, ReadStep
<1>3. CASE /\ At(p, "delete") /\ OnlyWrites
           /\ deleteByUIDs(genDeleteCandidates(s.map, s.got))
           /\ Step(p, [s EXCEPT !.pc = "insert", !.old = 0, !.new = 0])
  <2> DEFINE t == [s EXCEPT !.pc = "insert", !.old = 0, !.new = 0]
  <2>1. 0 \in 0 .. MaxUid BY BoundsAssumption
  <2>2. /\ t \in Pass /\ t.pc = "insert" /\ t.new = 0
        /\ t.map = s.map /\ t.got = s.got /\ t.fresh = s.fresh /\ Past(t)
    <3>1. s \in Pass /\ Past(s) /\ uidNext \in Nat \ {0} BY <1>1, PassFacts
    <3> HIDE DEF s
    <3>2. /\ t \in Pass /\ t.pc = "insert" /\ t.new = 0
          /\ t.map = s.map /\ t.got = s.got /\ t.fresh = s.fresh
      BY <2>1, <3>1 DEF Pass, PCs
    <3>3. QED BY <3>1, <3>2 DEF Past
  <2>3. Answered(p, t) BY <1>1, <2>2 DEF Answered
  <2>4. rows' \in Folder /\ Given(rows)' BY <1>3, DeleteWrites DEF OnlyWrites
  <2> HIDE DEF t
  <2>5. QED BY <1>1, <1>3, <2>2, <2>3, <2>4, WriteStep DEF t
<1>4. CASE /\ At(p, "insert") /\ OnlyWrites
           /\ insertWithReplace(genNewCandidates(s.map, s.fresh))
           /\ Step(p, [Resting EXCEPT !.pc = "update", !.got = genUpdateCandidates(s.map, s.got)])
  <2> DEFINE t == [Resting EXCEPT !.pc = "update", !.got = genUpdateCandidates(s.map, s.got)]
  <2>1. /\ genNewCandidates(s.map, s.fresh) \in Folder /\ Given(genNewCandidates(s.map, s.fresh))
        /\ genUpdateCandidates(s.map, s.got) \in Folder /\ Given(genUpdateCandidates(s.map, s.got))
    BY <1>1, PassFacts, Candidates DEF Past
  <2>2. t \in Pass /\ Past(t) /\ Answered(p, t) BY <1>1, <2>1, Picked DEF PCs
  <2>3. rows' \in Folder /\ Given(rows)' BY <1>4, <2>1, Writes DEF OnlyWrites
  <2> HIDE DEF t
  <2>4. QED BY <1>1, <1>4, <2>2, <2>3, WriteStep DEF t
<1>5. CASE At(p, "update") /\ OnlyWrites /\ Step(p, Resting) /\ updateFlags(s.got)
  <2>1. s.got \in Folder /\ Given(s.got) BY <1>1, PassFacts DEF Past
  <2>2. rows' \in Folder /\ Given(rows)' BY <1>5, <2>1, Writes DEF OnlyWrites
  <2>3. QED BY <1>1, <1>5, <2>2, Rests, WriteStep
<1>6. QED BY <1>2, <1>3, <1>4, <1>5 DEF handleRefreshedMsgs

LEMMA LoadInv ==
  ASSUME Inv, loadMsgsFromRemoteServerAndStoreLocally
  PROVE  Inv'
<1> DEFINE p == "load"
           s == pass[p]
<1>1. p \in Passes /\ p # "refresh" BY DEF Passes
<1>2. ASSUME NEW S, OnlyReads, Step(p, [Resting EXCEPT !.pc = "insert", !.got = Only(box, S)])
      PROVE  Inv'
  <2> DEFINE t == [Resting EXCEPT !.pc = "insert", !.got = Only(box, S)]
  <2>1. Only(box, S) \in Folder /\ Given(Only(box, S)) BY FolderFacts DEF Inv, Types, Given
  <2>2. t \in Pass /\ Past(t) /\ Answered(p, t) BY <1>1, <2>1, Picked DEF PCs
  <2> HIDE DEF t
  <2>3. QED BY <1>1, <1>2, <2>2, ReadStep DEF t
<1>3. CASE At(p, "insert") /\ OnlyWrites /\ Step(p, Resting) /\ insertWithReplace(s.got)
  <2>1. s.got \in Folder /\ Given(s.got) BY <1>1, PassFacts DEF Past
  <2>2. rows' \in Folder /\ Given(rows)' BY <1>3, <2>1, Writes DEF OnlyWrites
  <2>3. QED BY <1>1, <1>3, <2>2, Rests, WriteStep
<1>4. QED BY <1>2, <1>3 DEF loadMsgsFromRemoteServerAndStoreLocally

-----------------------------------------------------------------------------
(* What starts and stops the passes. *)

LEMMA EventType ==
  ASSUME Inv, Event
  PROVE  left' \in Nat
BY DEF Inv, Types, Event

\* A pass that starts, ends or fails without touching the rows.
LEMMA RestStep ==
  ASSUME Inv, NEW p \in Passes, Step(p, Resting) \/ Step(p, Started(p)), left' \in Nat,
         idle' \in [on : BOOLEAN, attempt : 0 .. ATTEMPT_COUNT],
         UNCHANGED <<box, uidNext, rows, changed>>
  PROVE  Inv'
<1>1. rows' \in Folder /\ Given(rows)' BY DEF Inv, Types, Given
<1>2. QED BY <1>1, Rests, StepInv

LEMMA UserInv ==
  ASSUME Inv, refreshMsgs \/ loadMsgsFromRemoteServer \/ switchFolder
  PROVE  Inv'
<1>1. left' \in Nat BY EventType DEF refreshMsgs, loadMsgsFromRemoteServer, switchFolder
<1>2. /\ idle' \in [on : BOOLEAN, attempt : 0 .. ATTEMPT_COUNT]
      /\ "refresh" \in Passes /\ "load" \in Passes
  BY DEF refreshMsgs, loadMsgsFromRemoteServer, switchFolder, Inv, Types, Passes
<1>3. CASE refreshMsgs BY <1>1, <1>2, <1>3, RestStep DEF refreshMsgs
<1>4. CASE loadMsgsFromRemoteServer
  <2> DEFINE n == Cardinality(In(rows))
             t == [Started("load") EXCEPT !.old = n]
  <2>1. n \in 0 .. MaxUid BY CountType DEF Inv, Types
  <2>2. Step("load", t) BY <1>4 DEF loadMsgsFromRemoteServer
  <2> HIDE DEF n
  <2>3. Started("load") \in Pass /\ Past(Started("load")) BY <1>2, Rests
  <2>4. t \in Pass /\ Past(t) /\ t.pc = "start"
    BY <2>1, <2>3 DEF Pass, Past, Started, Resting
  <2>5. Answered("load", t) BY <2>4 DEF Answered
  <2>6. rows' \in Folder /\ Given(rows)' BY <1>4 DEF Inv, Types, Given, loadMsgsFromRemoteServer
  <2>7. UNCHANGED <<box, uidNext, changed>> BY <1>4 DEF loadMsgsFromRemoteServer
  <2> HIDE DEF t
  <2>8. QED BY <1>1, <1>2, <2>2, <2>4, <2>5, <2>6, <2>7, StepInv
<1>5. CASE switchFolder
  <2>1. \A q \in Passes : pass'[q] = IF q \in {"refresh", "load"} THEN Resting ELSE pass[q]
    BY <1>5 DEF switchFolder, Inv, Types
  <2>2. pass' \in [Passes -> Pass] BY <1>5, Records DEF switchFolder, Inv, Types
  <2>3. rows' \in Folder /\ Given(rows)' BY <1>5, Records DEF switchFolder, Given, Nothing
  <2>4. Types' BY <1>1, <1>2, <1>5, <2>2, <2>3 DEF switchFolder, Inv, Types
  <2>5. \A q \in Passes : Past(pass'[q]) /\ Answered(q, pass'[q]) BY <2>1, Rests DEF Inv
  <2>6. \A q \in Passes : Past(pass[q])' /\ Answered(q, pass[q])'
    BY <1>5, <2>5 DEF switchFolder, Past, Given, Answered
  <2>7. Given(box)' BY <1>5 DEF switchFolder, Inv, Given
  <2>8. QED BY <2>3, <2>4, <2>6, <2>7 DEF Inv
<1>6. QED BY <1>3, <1>4, <1>5

LEMMA ConnectionInv ==
  ASSUME Inv, enqueuePeriodic \/ idleConnect \/ idleFails \/ \E p \in Passes : commandFails(p)
  PROVE  Inv'
<1>1. CASE enqueuePeriodic
  <2>1. "periodic" \in Passes BY DEF Passes, Workers
  <2>2. left' \in Nat /\ idle' \in [on : BOOLEAN, attempt : 0 .. ATTEMPT_COUNT]
    BY <1>1 DEF enqueuePeriodic, OnlyReads, Inv, Types
  <2>3. QED BY <1>1, <2>1, <2>2, RestStep DEF enqueuePeriodic, OnlyReads
<1>2. CASE idleConnect
  <2>1. "idleSync" \in Passes BY DEF Passes, Workers
  <2>2. left' \in Nat /\ idle' \in [on : BOOLEAN, attempt : 0 .. ATTEMPT_COUNT]
    BY <1>2 DEF idleConnect, Inv, Types
  <2>3. QED BY <1>2, <2>1, <2>2, RestStep DEF idleConnect
<1>3. CASE idleFails
  <2>1. left' \in Nat BY <1>3, EventType DEF idleFails
  <2>2. idle.attempt + 1 \in 0 .. ATTEMPT_COUNT
    BY <1>3, BoundsAssumption DEF idleFails, Inv, Types
  <2>3. idle' \in [on : BOOLEAN, attempt : 0 .. ATTEMPT_COUNT]
    BY <1>3, <2>2 DEF idleFails
  <2>4. Types' BY <1>3, <2>1, <2>3 DEF idleFails, Inv, Types
  <2>5. QED BY <1>3, <2>4 DEF idleFails, Inv, Past, Given, Answered
<1>4. CASE \E p \in Passes : commandFails(p)
  <2>1. PICK p \in Passes : commandFails(p) BY <1>4
  <2>2. left' \in Nat BY <2>1, EventType DEF commandFails
  <2>3. idle' \in [on : BOOLEAN, attempt : 0 .. ATTEMPT_COUNT]
    BY <2>1 DEF commandFails, Inv, Types
  <2>4. QED BY <2>1, <2>2, <2>3, RestStep DEF commandFails
<1>5. QED BY <1>1, <1>2, <1>3, <1>4

-----------------------------------------------------------------------------
(* What the server's folder and the handlers of changed flags do. *)

\* A change of the folder that brings back no message whose UID was given out keeps what every
\* pass knows: a new message is newer than all that the pass has read.
LEMMA BoxStep ==
  ASSUME Inv, box' \in Folder, uidNext' \in 1 .. MaxUid + 1, uidNext <= uidNext', Given(box)',
         \A u \in Uids : u < uidNext /\ box[u] = Absent => box'[u] = Absent,
         changed' \subseteq Uids \X Flags, left' \in Nat, UNCHANGED <<rows, idle>>,
         \/ pass' = pass
         \/ \E p \in Passes : Step(p, Started(p))
  PROVE  Inv'
<1>1. \A q \in Passes : pass'[q] = pass[q] \/ pass'[q] = Started(q) BY DEF Step, Inv, Types
<1>2. pass' \in [Passes -> Pass] BY Records DEF Step, Inv, Types
<1>3. Types' BY <1>2 DEF Inv, Types
<1>4. uidNext \in Nat /\ uidNext' \in Nat BY BoundsAssumption DEF Inv, Types
<1>5. Uids \subseteq Nat BY DEF Uids
<1>6. Given(rows)' BY <1>4, <1>5 DEF Inv, Given
<1>7. ASSUME NEW q \in Passes PROVE Past(pass[q])' /\ Answered(q, pass[q])'
  <2>1. PICK s \in Pass : s = pass'[q] /\ Past(s) /\ Answered(q, s) BY <1>1, <1>7, PassFacts, Rests
  <2>2. s.new \in Nat /\ s.old \in Nat BY <2>1, BoundsAssumption DEF Pass
  <2>3. Past(pass[q])' BY <1>4, <1>5, <2>1, <2>2 DEF Past, Given
  <2>4. \A u \in Uids : s.map[u] # Absent => u < uidNext BY <2>1 DEF Past, Given
  <2>5. \A u \in Uids : u <= s.new => u < uidNext
    <3>1. s.new < uidNext BY <2>1 DEF Past
    <3>2. SUFFICES ASSUME NEW u \in Nat, u <= s.new PROVE u < uidNext BY <1>5
    <3>3. QED BY <1>4, <2>2, <3>1, <3>2
  <2>6. q # "refresh" /\ s.pc = "delete" =>
          \A u \in Uids : s.map[u] # Absent /\ s.got[u] = Absent /\ s.old <= u => box'[u] = Absent
    BY <2>1, <2>4 DEF Answered
  <2>7. q = "refresh" /\ s.pc \in {"fetchNew", "map", "delete"} =>
          \A u \in Uids : s.got[u] = Absent /\ s.old <= u /\ u <= s.new /\ s.old < s.new
                            => box'[u] = Absent
    BY <2>1, <2>5 DEF Answered
  <2>8. q \notin Deleting => s.pc # "delete" BY <2>1 DEF Answered
  <2>9. QED BY <2>1, <2>3, <2>6, <2>7, <2>8 DEF Answered
<1>8. QED BY <1>3, <1>6, <1>7 DEF Inv

LEMMA ServerInv ==
  ASSUME Inv, messagesAdded \/ \E u \in Uids : messagesRemoved(u) \/ messageChanged(u)
  PROVE  Inv'
<1>1. /\ "added" \in Passes /\ "removed" \in Passes
      /\ uidNext \in 1 .. MaxUid + 1 /\ uidNext \in Nat \ {0} /\ MaxUid \in Nat
      /\ box \in Folder /\ Given(box) /\ changed \subseteq Uids \X Flags
  BY BoundsAssumption DEF Inv, Types, Passes, Workers
<1>2. CASE messagesAdded
  <2>1. uidNext \in Uids BY <1>1, <1>2 DEF messagesAdded, Uids
  <2>2. box' \in Folder BY <1>1, <1>2, <2>1 DEF messagesAdded, Folder, Flags
  <2>3. \A u \in Uids : u # uidNext => box'[u] = box[u] BY <1>1, <1>2, <2>1 DEF messagesAdded, Folder
  <2>4. uidNext' \in 1 .. MaxUid + 1 /\ uidNext <= uidNext' /\ uidNext' = uidNext + 1
    BY <1>1, <1>2 DEF messagesAdded
  <2>5. Given(box)' BY <1>1, <2>1, <2>3, <2>4 DEF Given, Uids
  <2>6. left' \in Nat BY <1>2, EventType DEF messagesAdded
  <2>7. \A u \in Uids : u < uidNext /\ box[u] = Absent => box'[u] = Absent BY <1>1, <2>3
  <2>8. pass' = pass \/ Step("added", Started("added")) BY <1>2 DEF messagesAdded, Step
  <2>9. changed' = changed /\ UNCHANGED <<rows, idle>> BY <1>2 DEF messagesAdded
  <2>10. QED BY <1>1, <2>2, <2>4, <2>5, <2>6, <2>7, <2>8, <2>9, BoxStep
<1>3. ASSUME NEW u \in Uids, messagesRemoved(u) PROVE Inv'
  <2>1. box' \in Folder BY <1>1, <1>3 DEF messagesRemoved, Folder
  <2>2. \A v \in Uids : box'[v] = box[v] \/ box'[v] = Absent
    BY <1>1, <1>3 DEF messagesRemoved, Folder
  <2>3. uidNext' = uidNext /\ changed' = changed /\ UNCHANGED <<rows, idle>>
    BY <1>3 DEF messagesRemoved
  <2>4. Given(box)' BY <1>1, <2>2, <2>3 DEF Given
  <2>5. left' \in Nat BY <1>3, EventType DEF messagesRemoved
  <2>6. pass' = pass \/ Step("removed", Started("removed")) BY <1>3 DEF messagesRemoved, Step
  <2>7. QED BY <1>1, <2>1, <2>2, <2>3, <2>4, <2>5, <2>6, BoxStep
<1>4. ASSUME NEW u \in Uids, messageChanged(u) PROVE Inv'
  <2>1. PICK f \in Flags : /\ box' = [box EXCEPT ![u] = f]
                           /\ changed' = IF idle.on THEN changed \cup {<<u, f>>} ELSE changed
    BY <1>4 DEF messageChanged
  <2>2. box' \in Folder BY <1>1, <2>1 DEF Folder
  <2>3. \A v \in Uids : v # u => box'[v] = box[v] BY <1>1, <2>1 DEF Folder
  <2>4. box[u] # Absent BY <1>4 DEF messageChanged, In
  <2>5. uidNext' = uidNext /\ pass' = pass /\ UNCHANGED <<rows, idle>>
    BY <1>4 DEF messageChanged
  <2>6. Given(box)' BY <1>1, <2>3, <2>4, <2>5 DEF Given
  <2>7. left' \in Nat BY <1>4, EventType DEF messageChanged
  <2>8. changed' \subseteq Uids \X Flags BY <1>1, <2>1
  <2>9. \A v \in Uids : box[v] = Absent => box'[v] = Absent BY <2>3, <2>4
  <2>10. QED BY <1>1, <2>2, <2>5, <2>6, <2>7, <2>8, <2>9, BoxStep
<1>5. QED BY <1>2, <1>3, <1>4

LEMMA FlagsInv ==
  ASSUME Inv, updateLocalMsgFlags
  PROVE  Inv'
<1>1. PICK h \in changed :
        /\ rows' = IF rows[h[1]] = Absent THEN rows ELSE [rows EXCEPT ![h[1]] = h[2]]
        /\ changed' = changed \ {h}
        /\ UNCHANGED <<box, uidNext, pass, idle, left>>
  BY DEF updateLocalMsgFlags
<1>2. h[1] \in Uids /\ h[2] \in Flags BY DEF Inv, Types
<1>3. rows' \in Folder BY <1>1, <1>2 DEF Inv, Types, Folder
<1>4. Given(rows)' BY <1>1, <1>2 DEF Inv, Types, Folder, Given
<1>5. Types' BY <1>1, <1>3 DEF Inv, Types
<1>6. QED BY <1>1, <1>4, <1>5 DEF Inv, Past, Given, Answered

-----------------------------------------------------------------------------

LEMMA InitInv == Init => Inv
<1> SUFFICES ASSUME Init PROVE Inv OBVIOUS
<1>1. PICK n \in 0 .. Old : /\ uidNext = n + 1
                            /\ box = [u \in Uids |-> IF u <= n THEN "unseen" ELSE Absent]
                            /\ \E m \in (IF n = 0 THEN {1} ELSE 1 .. n) : rows = Only(box, m .. MaxUid)
  BY DEF Init
<1>2. PICK S : rows = Only(box, S) BY <1>1
<1>3. n \in Nat /\ uidNext \in 1 .. MaxUid + 1 BY <1>1, BoundsAssumption
<1>4. box \in Folder /\ Given(box) BY <1>1, <1>3 DEF Folder, Flags, Given, Uids
<1>5. rows \in Folder /\ Given(rows) BY <1>2, <1>4, FolderFacts DEF Given
<1>6. Types BY <1>3, <1>4, <1>5, Records, BoundsAssumption DEF Init, Types
<1>7. ASSUME NEW p \in Passes PROVE Past(pass[p]) /\ Answered(p, pass[p])
  <2>1. /\ pass[p].pc = "rest" /\ pass[p].map = Nothing /\ pass[p].got = Nothing
        /\ pass[p].fresh = Nothing /\ pass[p].new = 0
    BY <1>7 DEF Init, Resting
  <2>2. QED BY <1>1, <1>3, <2>1 DEF Past, Given, Nothing, Answered
<1>8. QED BY <1>4, <1>5, <1>6, <1>7 DEF Inv

LEMMA NextInv == Inv /\ [Next]_vars => Inv'
<1> SUFFICES ASSUME Inv, [Next]_vars PROVE Inv' OBVIOUS
<1>1. CASE UNCHANGED vars BY <1>1 DEF vars, Inv, Types, Past, Given, Answered
<1>2. CASE Next
  BY <1>2, SyncInv, AddedInv, RemovedInv, RefreshInv, HandleInv, LoadInv, UserInv, ConnectionInv,
     ServerInv, FlagsInv DEF Next
<1>3. QED BY <1>1, <1>2

\* The rows, what each pass has read and the UIDs it compares stay within their types, whatever
\* the passes, the user, the server and the network do.
THEOREM TypeCorrect == Spec => []TypeOK
<1>1. Inv => TypeOK
  <2> SUFFICES ASSUME Inv PROVE TypeOK OBVIOUS
  <2>1. \A p \in Passes :
          /\ pass[p].pc \in PCs
          /\ {pass[p].map, pass[p].got, pass[p].fresh} \subseteq Folder
          /\ {pass[p].old, pass[p].new} \subseteq 0 .. MaxUid
    BY DEF Inv, Types, Pass
  <2>2. QED BY <2>1 DEF TypeOK, Inv, Types, PCs
<1>2. QED BY <1>1, InitInv, NextInv, PTL DEF Spec

-----------------------------------------------------------------------------
(* Deletions. *)

LEMMA DeletedGone ==
  ASSUME Inv, NEW p \in Passes, At(p, "delete"),
         deleteByUIDs(genDeleteCandidates(pass[p].map, pass[p].got)),
         NEW u \in In(rows) \ In(rows'), u \in Asked(p)
  PROVE  box[u] = Absent
<1> DEFINE s == pass[p]
<1>1. Answered(p, s) /\ s.pc = "delete" BY PassFacts DEF At
<1>2. s.old \in Nat /\ s.new \in Nat /\ u \in Uids /\ u \in Nat BY PassFacts DEF In, Uids
<1>3. s.map[u] # Absent /\ s.got[u] = Absent
  BY <1>2 DEF deleteByUIDs, genDeleteCandidates, In, Only
<1>4. CASE p = "refresh"
  <2>1. s.old <= u /\ u <= s.new /\ s.old < s.new BY <1>2, <1>4 DEF Asked
  <2>2. QED BY <1>1, <1>2, <1>3, <1>4, <2>1 DEF Answered
<1>5. CASE p # "refresh"
  <2>1. s.old <= u BY <1>2, <1>5 DEF Asked
  <2>2. QED BY <1>1, <1>2, <1>3, <1>5, <2>1 DEF Answered
<1>6. QED BY <1>4, <1>5

\* The step in which a pass leaves its deletion with a write is that deletion.
LEMMA IsDeletion ==
  ASSUME Inv, Next, NEW p \in Passes, At(p, "delete"), pass'[p] # pass[p], OnlyWrites, rows' # rows
  PROVE  deleteByUIDs(genDeleteCandidates(pass[p].map, pass[p].got))
<1>1. ASSUME NEW q, NEW r, Step(q, r) PROVE q = p
  BY <1>1 DEF Step, Inv, Types
<1>2. ~Event BY DEF Event, OnlyWrites, Inv, Types
<1>3. ~OnlyReads BY DEF OnlyReads
<1>4. ASSUME NEW q, NEW pc, At(q, pc), NEW r, Step(q, r) PROVE pc = "delete"
  BY <1>1, <1>4 DEF At
<1>5. ASSUME NEW q \in {"idleSync", "periodic"}, syncMessages(q)
      PROVE  deleteByUIDs(genDeleteCandidates(pass[p].map, pass[p].got))
  BY <1>1, <1>3, <1>4, <1>5 DEF syncMessages
<1>6. ASSUME checkAndProcessNewMessages PROVE FALSE
  BY <1>3, <1>4, <1>6 DEF checkAndProcessNewMessages
<1>7. ASSUME syncInboxAndRemoveRedundantMsgs
      PROVE  deleteByUIDs(genDeleteCandidates(pass[p].map, pass[p].got))
  BY <1>1, <1>3, <1>4, <1>7 DEF syncInboxAndRemoveRedundantMsgs
<1>8. ASSUME refreshMsgsInternal PROVE FALSE BY <1>3, <1>8 DEF refreshMsgsInternal
<1>9. ASSUME handleRefreshedMsgs
      PROVE  deleteByUIDs(genDeleteCandidates(pass[p].map, pass[p].got))
  BY <1>1, <1>3, <1>4, <1>9 DEF handleRefreshedMsgs
<1>10. ASSUME loadMsgsFromRemoteServerAndStoreLocally PROVE FALSE
  BY <1>3, <1>4, <1>10 DEF loadMsgsFromRemoteServerAndStoreLocally
<1>11. ~ (refreshMsgs \/ loadMsgsFromRemoteServer \/ switchFolder)
  BY <1>2 DEF refreshMsgs, loadMsgsFromRemoteServer, switchFolder
<1>12. ~ (enqueuePeriodic \/ idleConnect \/ idleFails \/ \E q \in Passes : commandFails(q))
  BY <1>2 DEF enqueuePeriodic, OnlyReads, idleConnect, idleFails, commandFails
<1>13. ~ (messagesAdded \/ \E u \in Uids : messagesRemoved(u) \/ messageChanged(u))
  BY <1>2 DEF messagesAdded, messagesRemoved, messageChanged
<1>14. ~updateLocalMsgFlags BY DEF updateLocalMsgFlags
<1>15. QED
  BY <1>5, <1>6, <1>7, <1>8, <1>9, <1>10, <1>11, <1>12, <1>13, <1>14 DEF Next

\* A pass that deletes the row of a message it asked the server for deletes it only when the
\* message is gone, however the reads, the answers and the writes of the passes interleave.
THEOREM NoLiveRowDeleted == Spec => DeletesOnlyGone
<1> DEFINE Gone == \A p \in Passes :
                     At(p, "delete") /\ pass'[p] # pass[p] /\ OnlyWrites =>
                       \A u \in In(rows) \ In(rows') : u \in Asked(p) => box[u] = Absent
<1>1. Inv /\ [Next]_vars => [Gone]_vars
  <2> SUFFICES ASSUME Inv, Next, NEW p \in Passes, At(p, "delete"), pass'[p] # pass[p], OnlyWrites,
                      NEW u \in In(rows) \ In(rows'), u \in Asked(p)
               PROVE  box[u] = Absent
    OBVIOUS
  <2>1. rows' # rows BY DEF In
  <2>2. deleteByUIDs(genDeleteCandidates(pass[p].map, pass[p].got)) BY <2>1, IsDeletion
  <2>3. QED BY <2>2, DeletedGone
<1>2. QED BY <1>1, InitInv, NextInv, PTL DEF Spec, DeletesOnlyGone
=============================================================================
