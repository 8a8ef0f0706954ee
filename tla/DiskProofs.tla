----------------------------- MODULE DiskProofs -----------------------------
(***************************************************************************)
(* Proofs about DiskCache, for any number of keys, writers, stores, errors *)
(* and crashes.                                                            *)
(***************************************************************************)
EXTENDS DiskCache, FiniteSetTheorems, WellFoundedInduction, TLAPS

Steps == {"read", "wipe", "close", "temp", "backup", "swap", "drop", "done", "process",
          "reset", "trim", "compact", "publish", "evict"}

LineType == [op : {"DIRTY", "CLEAN", "READ", "REMOVE", "CUT"},
             key : Keys \cup {Nobody}, len : {0, 1}]
FileType == [app : Nat, lines : Seq(LineType)]
DirType == [journal : FileType, backup : FileType, temp : FileType,
            clean : [Keys -> Versions \cup {NoVersion}],
            dirty : [Keys -> Versions \cup {NoVersion}],
            left : [Keys -> Versions \cup {NoVersion}], spoilt : SUBSET (Versions \cup {NoVersion})]
EntryType == [readable : BOOLEAN, len : {0, 1}, editor : Writers \cup {Nobody, Replayed, Stuck},
              id : Versions \cup {0}]
MemType == [initialized : BOOLEAN, lru : Seq(Keys), entry : [Keys -> EntryType],
            buffer : Seq(LineType), journalWriter : {"none", "file", "bad", "blackhole"},
            size : Int, redundantOpCount : 0 .. RebuildAfter,
            cleanup : BOOLEAN, trimFailed : BOOLEAN, rebuildFailed : BOOLEAN]
WriterType == [pc : {"idle", "sink", "data", "commit", "abort", "publish", "close", "check"},
               key : Keys \cup {Nobody}, ver : Versions \cup {NoVersion},
               sink : BOOLEAN, own : Seq(EntryType)]

CountType == [stores : 0 .. MaxStores, events : 0 .. MaxEvents]

Types ==
  /\ disk \in DirType
  /\ disk.journal.app <= app /\ disk.backup.app <= app /\ disk.temp.app <= app
  /\ body \in [Versions -> {"part", "body", "whole", "cut"}]
  /\ mem \in MemType
  /\ lock \in Seq(Steps)
  /\ writer \in [Writers -> WriterType]
  /\ \A w \in Writers : writer[w].pc # "idle" => writer[w].key \in Keys /\ writer[w].ver \in Versions
  /\ cleaner \in [todo : Seq([key : Keys, id : Versions \cup {0}]), old : Seq(Keys)]
  /\ app \in Nat \ {0}
  /\ count \in CountType
  /\ shown \subseteq Versions

Distinct(s) == \A i, j \in DOMAIN s : s[i] = s[j] => i = j

\* lruEntries is a map, and the entries outside of it are nobody's.
Mapped ==
  /\ Distinct(mem.lru)
  /\ \A k \in Keys : mem.entry[k] # NoEntry => Contains(mem.lru, k)

\* What the holder of the lock has still to do.
Rebuilding(l, end) ==
  l \in {<<"close", "temp", "backup", "swap", "drop", end>>, <<"temp", "backup", "swap", "drop", end>>,
         <<"backup", "swap", "drop", end>>, <<"swap", "drop", end>>, <<"drop", end>>, <<end>>}

Opening == \/ lock \in {<<>>, <<"read">>, <<"wipe">>}
           \/ Rebuilding(lock, "done") \/ Rebuilding(lock, "process")

Working == \/ lock \in {<<>>, <<"trim", "compact">>, <<"compact">>, <<"publish">>, <<"evict">>}
           \/ Rebuilding(lock, "reset")

Loaded == mem.initialized = TRUE \/ Rebuilding(lock, "process")

\* The lock, the journal's writer and its buffer.
Locked ==
  /\ mem.initialized = TRUE => Working
  /\ mem.initialized = FALSE => Opening /\ \A w \in Writers : writer[w] = Resting
  /\ ~Loaded => /\ mem.entry = [k \in Keys |-> NoEntry] /\ mem.lru = <<>> /\ mem.size = 0
                /\ mem.buffer = <<>>
  /\ ~Loaded /\ lock # <<"done">> => mem.journalWriter = "none"
  /\ Loaded \/ lock = <<"done">> => mem.journalWriter # "none"
  /\ mem.journalWriter = "blackhole" => mem.rebuildFailed = TRUE
  /\ mem.buffer # <<>> => mem.journalWriter = "file"
  /\ At("temp") \/ At("backup") \/ At("swap") \/ At("drop") => mem.buffer = <<>>

Editing == {"sink", "data", "commit", "abort", "publish"}

\* Edits: an entry that is being edited has one writer, which is not done with it.
Edits ==
  /\ \A w \in Writers : writer[w].own = <<>>
  /\ \A k \in Keys : mem.entry[k].editor \in Writers =>
       LET s == writer[mem.entry[k].editor] IN s.pc \in Editing /\ s.key = k
  /\ mem.initialized = TRUE => \A k \in Keys : mem.entry[k].editor # Replayed
  /\ \A w \in Writers : writer[w].pc = "publish" =>
       lock = <<"publish">> /\ mem.entry[writer[w].key].editor = w
  /\ \A v, w \in Writers : writer[v].pc = "publish" /\ writer[w].pc = "publish" => v = w

Publishing(k) == /\ mem.entry[k].editor \in Writers
                 /\ writer[mem.entry[k].editor].pc = "publish"

\* Lengths: an entry has a length only when it is readable or is being published.
Sized ==
  /\ \A k \in Keys : mem.entry[k].len = 1 => mem.entry[k].readable = TRUE \/ Publishing(k)
  /\ SizeOK


-----------------------------------------------------------------------------
(* The operators of the model, field by field. *)

\* lruEntries keeps its keys, or loses one.
SameKeys(l, n) == /\ Distinct(l) => Distinct(n)
                  /\ \A x \in Keys : Contains(n, x) <=> Contains(l, x)
LosesKey(l, n, k) == /\ Distinct(l) => Distinct(n)
                     /\ Distinct(l) => \A x \in Keys : Contains(n, x) <=> Contains(l, x) /\ x # k

LEMMA RemoveAtFacts ==
  ASSUME NEW l \in Seq(Keys), NEW i \in 1 .. Len(l)
  PROVE  /\ RemoveAt(l, i) \in Seq(Keys)
         /\ Len(RemoveAt(l, i)) = Len(l) - 1
         /\ \A j \in 1 .. Len(l) - 1 : RemoveAt(l, i)[j] = IF j < i THEN l[j] ELSE l[j + 1]
<1> DEFINE a == SubSeq(l, 1, i - 1)
           b == SubSeq(l, i + 1, Len(l))
<1>1. a \in Seq(Keys) /\ Len(a) = i - 1 /\ \A j \in 1 .. i - 1 : a[j] = l[j]
  OBVIOUS
<1>2. b \in Seq(Keys) /\ Len(b) = Len(l) - i /\ \A j \in 1 .. Len(l) - i : b[j] = l[i + j]
  OBVIOUS
<1>3. RemoveAt(l, i) = a \o b
  BY DEF RemoveAt
<1> HIDE DEF a, b
<1>4. a \o b \in Seq(Keys) /\ Len(a \o b) = Len(l) - 1
  <2>1. a \in Seq(Keys) /\ b \in Seq(Keys)
    BY <1>1, <1>2
  <2>2. a \o b \in Seq(Keys) /\ Len(a \o b) = Len(a) + Len(b)
    BY <2>1
  <2> QED BY <1>1, <1>2, <2>2
<1>5. ASSUME NEW j \in 1 .. Len(l) - 1
      PROVE  (a \o b)[j] = IF j < i THEN l[j] ELSE l[j + 1]
  <2>1. CASE j < i
    BY <1>1, <1>2, <2>1
  <2>2. CASE ~(j < i)
    <3>1. j - (i - 1) \in 1 .. Len(l) - i
      BY <2>2
    <3>2. (a \o b)[j] = b[j - (i - 1)]
      BY <1>1, <1>2, <2>2, <3>1
    <3> QED BY <1>2, <2>2, <3>1, <3>2
  <2> QED BY <2>1, <2>2
<1> QED
  BY <1>3, <1>4, <1>5

LEMMA WithoutFacts ==
  ASSUME NEW l \in Seq(Keys), NEW k \in Keys
  PROVE  Without(l, k) \in Seq(Keys) /\ LosesKey(l, Without(l, k), k)
<1>1. CASE ~Contains(l, k)
  BY <1>1 DEF Without, LosesKey, Contains
<1>2. CASE Contains(l, k)
  <2> DEFINE i == CHOOSE i \in DOMAIN l : l[i] = k
             n == RemoveAt(l, i)
  <2>1. i \in 1 .. Len(l) /\ l[i] = k
    BY <1>2 DEF Contains
  <2>2. Without(l, k) = n
    BY <1>2 DEF Without
  <2> HIDE DEF i
  <2>3. /\ n \in Seq(Keys) /\ Len(n) = Len(l) - 1
        /\ \A j \in 1 .. Len(l) - 1 : n[j] = IF j < i THEN l[j] ELSE l[j + 1]
    BY <2>1, RemoveAtFacts
  <2> HIDE DEF n
  <2>4. Distinct(l) => Distinct(n)
    <3> SUFFICES ASSUME Distinct(l), NEW a \in 1 .. Len(n), NEW b \in 1 .. Len(n), n[a] = n[b]
                 PROVE  a = b
      BY <2>3 DEF Distinct
    <3> DEFINE p == IF a < i THEN a ELSE a + 1
               q == IF b < i THEN b ELSE b + 1
    <3>1. p \in 1 .. Len(l) /\ q \in 1 .. Len(l) /\ l[p] = l[q] /\ (p = q => a = b)
      BY <2>1, <2>3
    <3> HIDE DEF p, q
    <3> QED BY <3>1 DEF Distinct
  <2>5. ASSUME Distinct(l), NEW x \in Keys
        PROVE  Contains(n, x) <=> Contains(l, x) /\ x # k
    <3>1. ASSUME NEW j \in 1 .. Len(n), n[j] = x PROVE Contains(l, x) /\ x # k
      <4> DEFINE h == IF j < i THEN j ELSE j + 1
      <4>1. h \in 1 .. Len(l) /\ h # i /\ l[h] = x
        BY <2>1, <2>3, <3>1
      <4> HIDE DEF h
      <4> QED BY <2>1, <2>5, <4>1 DEF Contains, Distinct
    <3>2. ASSUME NEW j \in 1 .. Len(l), l[j] = x, x # k PROVE Contains(n, x)
      <4>1. CASE j < i
        <5>1. j \in 1 .. Len(n) /\ n[j] = x
          BY <2>1, <2>3, <3>2, <4>1
        <5> QED BY <5>1 DEF Contains
      <4>2. CASE j > i
        <5>1. j - 1 \in 1 .. Len(n) /\ n[j - 1] = x
          BY <2>1, <2>3, <3>2, <4>2
        <5> QED BY <5>1 DEF Contains
      <4> QED BY <2>1, <3>2, <4>1, <4>2
    <3> QED BY <3>1, <3>2 DEF Contains
  <2> QED BY <2>2, <2>3, <2>4, <2>5 DEF LosesKey
<1> QED BY <1>1, <1>2

LEMMA AppendFacts ==
  ASSUME NEW l \in Seq(Keys), NEW k \in Keys
  PROVE  /\ Append(l, k) \in Seq(Keys)
         /\ ~Contains(l, k) /\ Distinct(l) => Distinct(Append(l, k))
         /\ \A x \in Keys : Contains(Append(l, k), x) <=> Contains(l, x) \/ x = k
<1> DEFINE n == Append(l, k)
<1>1. n \in Seq(Keys) /\ Len(n) = Len(l) + 1 /\ n[Len(l) + 1] = k /\ \A j \in 1 .. Len(l) : n[j] = l[j]
  OBVIOUS
<1> HIDE DEF n
<1>2. ~Contains(l, k) /\ Distinct(l) => Distinct(n)
  BY <1>1 DEF Contains, Distinct
<1>3. ASSUME NEW x \in Keys PROVE Contains(n, x) <=> Contains(l, x) \/ x = k
  <2>1. ASSUME NEW j \in 1 .. Len(n), n[j] = x PROVE Contains(l, x) \/ x = k
    BY <1>1, <2>1 DEF Contains
  <2>2. ASSUME NEW j \in 1 .. Len(l), l[j] = x PROVE Contains(n, x)
    <3>1. j \in 1 .. Len(n) /\ n[j] = x
      BY <1>1, <2>2
    <3> QED BY <3>1 DEF Contains
  <2>3. ASSUME x = k PROVE Contains(n, x)
    <3>1. Len(l) + 1 \in 1 .. Len(n)
      BY <1>1
    <3> QED BY <1>1, <2>3, <3>1 DEF Contains
  <2> QED BY <2>1, <2>2, <2>3 DEF Contains
<1> QED BY <1>1, <1>2, <1>3 DEF n

LEMMA TouchFacts ==
  ASSUME NEW m \in MemType, NEW k \in Keys
  PROVE  /\ Touch(m, k) \in MemType
         /\ Touch(m, k) = [m EXCEPT !.lru = Touch(m, k).lru]
         /\ Distinct(m.lru) => SameKeys(m.lru, Touch(m, k).lru)
<1>1. CASE ~Contains(m.lru, k)
  BY <1>1 DEF Touch, SameKeys, MemType
<1>2. CASE Contains(m.lru, k)
  <2> DEFINE a == Without(m.lru, k)
  <2>0. m.lru \in Seq(Keys)
    BY DEF MemType
  <2>1. a \in Seq(Keys) /\ LosesKey(m.lru, a, k)
    BY <2>0, WithoutFacts
  <2>2. Touch(m, k) = [m EXCEPT !.lru = Append(a, k)]
    BY <1>2 DEF Touch
  <2> HIDE DEF a
  <2>3. Append(a, k) \in Seq(Keys)
    BY <2>1
  <2>4. Touch(m, k) \in MemType /\ Touch(m, k).lru = Append(a, k)
    BY <2>2, <2>3 DEF MemType
  <2>5. Distinct(m.lru) => SameKeys(m.lru, Append(a, k))
    <3> SUFFICES ASSUME Distinct(m.lru) PROVE SameKeys(m.lru, Append(a, k))
      OBVIOUS
    <3>1. Distinct(a) /\ \A x \in Keys : Contains(a, x) <=> Contains(m.lru, x) /\ x # k
      BY <2>1 DEF LosesKey
    <3>2. /\ Distinct(Append(a, k))
          /\ \A x \in Keys : Contains(Append(a, k), x) <=> Contains(a, x) \/ x = k
      BY <2>1, <3>1, AppendFacts
    <3> QED BY <1>2, <3>1, <3>2 DEF SameKeys
  <2> QED BY <2>2, <2>4, <2>5
<1> QED BY <1>1, <1>2

\* m and n differ at most in the counters and in the flags of the clean-up.
Alike(m, n) ==
  /\ n.initialized = m.initialized /\ n.lru = m.lru /\ n.entry = m.entry /\ n.buffer = m.buffer
  /\ n.journalWriter = m.journalWriter /\ n.size = m.size /\ n.rebuildFailed = m.rebuildFailed

\* n is m after a line was written to the journal.
Logged(m, n, line) ==
  /\ n.initialized = m.initialized /\ n.lru = m.lru /\ n.entry = m.entry
  /\ n.buffer = IF m.journalWriter = "file" THEN Append(m.buffer, line) ELSE m.buffer
  /\ n.journalWriter = m.journalWriter /\ n.size = m.size /\ n.rebuildFailed = m.rebuildFailed

\* The three journal files are the same.
SameJournal(d, e) == e.journal = d.journal /\ e.backup = d.backup /\ e.temp = d.temp

\* No temporary file was left.
SameLeft(d, e) == e.left = d.left /\ e.spoilt = d.spoilt

\* At most the temporary file of k was left, or one that was left is gone.
LeftBy(d, e, k) ==
  /\ d.spoilt \subseteq e.spoilt
  /\ \A x \in Keys \ {k} : e.left[x] = d.left[x]
  /\ \/ e.left[k] \in {d.left[k], NoVersion}
     \/ e.left[k] = d.dirty[k] /\ e.left[k] \in e.spoilt /\ e.dirty[k] = NoVersion

\* t is s after the edit of k was detached.
Detached(s, t, k) ==
  /\ SameJournal(s.d, t.d) /\ t.d.clean = s.d.clean /\ LeftBy(s.d, t.d, k)
  /\ t.d.dirty = IF s.m.entry[k].editor = Nobody THEN s.d.dirty
                 ELSE [s.d.dirty EXCEPT ![k] = NoVersion]
  /\ t.m.initialized = s.m.initialized /\ t.m.lru = s.m.lru /\ t.m.buffer = s.m.buffer
  /\ t.m.entry = [s.m.entry EXCEPT ![k].editor = Nobody]
  /\ t.m.journalWriter = s.m.journalWriter /\ t.m.size = s.m.size
  /\ t.m.rebuildFailed = s.m.rebuildFailed

\* t is s after the entry of k was removed.
Removed(s, t, k) ==
  /\ SameJournal(s.d, t.d) /\ t.d.clean = [s.d.clean EXCEPT ![k] = NoVersion] /\ LeftBy(s.d, t.d, k)
  /\ t.d.dirty = IF s.m.entry[k].editor = Nobody THEN s.d.dirty
                 ELSE [s.d.dirty EXCEPT ![k] = NoVersion]
  /\ t.m.initialized = s.m.initialized /\ LosesKey(s.m.lru, t.m.lru, k)
  /\ t.m.entry = [s.m.entry EXCEPT ![k] = NoEntry]
  /\ t.m.buffer = IF s.m.journalWriter = "file" THEN Append(s.m.buffer, Line("REMOVE", k, 0))
                  ELSE s.m.buffer
  /\ t.m.journalWriter = s.m.journalWriter /\ t.m.size = s.m.size - s.m.entry[k].len
  /\ t.m.rebuildFailed = s.m.rebuildFailed

\* t is s after a read of k that changed no entry.
Looked(s, t, k) ==
  /\ t.d = s.d
  /\ t.m.initialized = s.m.initialized /\ (Distinct(s.m.lru) => SameKeys(s.m.lru, t.m.lru))
  /\ t.m.entry = s.m.entry
  /\ \/ t.m.buffer = s.m.buffer
     \/ s.m.journalWriter = "file" /\ t.m.buffer = Append(s.m.buffer, Line("READ", k, 0))
  /\ t.m.journalWriter = s.m.journalWriter /\ t.m.size = s.m.size
  /\ t.m.rebuildFailed = s.m.rebuildFailed

LEMMA Constants == /\ RebuildAfter \in Nat /\ MaxStores \in Nat /\ MaxEvents \in Nat
                   /\ MaxSize \in Nat \ {0} /\ IsFiniteSet(Keys)
                   /\ Nobody \notin Keys /\ Nobody \notin Writers /\ Replayed \notin Writers
                   /\ Stuck \notin Writers /\ Replayed # Nobody /\ Stuck # Nobody /\ Stuck # Replayed
BY DiskAssumption DEF Nobody, Replayed, Stuck

LEMMA CounterFacts ==
  ASSUME NEW m \in MemType
  PROVE  /\ Redundant(m) \in MemType /\ Alike(m, Redundant(m))
         /\ ScheduleIfNeeded(m) \in MemType /\ Alike(m, ScheduleIfNeeded(m))
<1>1. Redundant(m) \in MemType /\ Alike(m, Redundant(m))
  BY Constants DEF Redundant, MemType, Alike
<1>2. (m.cleanup \/ journalRebuildRequired(m)) \in BOOLEAN
  OBVIOUS
<1>3. ScheduleIfNeeded(m) \in MemType /\ Alike(m, ScheduleIfNeeded(m))
  BY <1>2 DEF ScheduleIfNeeded, MemType, Alike
<1> QED BY <1>1, <1>3

LEMMA LineFacts ==
  ASSUME NEW k \in Keys, NEW n \in {0, 1}
  PROVE  /\ \A op \in {"DIRTY", "CLEAN", "READ", "REMOVE"} : Line(op, k, n) \in LineType
         /\ Cut \in LineType
BY DEF Line, LineType, Cut

LEMMA LogFacts ==
  ASSUME NEW m \in MemType, NEW line \in LineType
  PROVE  Log(m, line) \in MemType /\ Logged(m, Log(m, line), line)
<1>1. CASE m.journalWriter = "file"
  <2>1. Append(m.buffer, line) \in Seq(LineType)
    BY DEF MemType
  <2>2. Log(m, line) = [m EXCEPT !.buffer = Append(m.buffer, line)]
    BY <1>1 DEF Log
  <2> QED BY <1>1, <2>1, <2>2 DEF MemType, Logged
<1>2. CASE m.journalWriter # "file"
  BY <1>2 DEF Log, Logged
<1> QED BY <1>1, <1>2

LEMMA EmptyEntry == NoEntry \in EntryType
BY DEF NoEntry, EntryType

LEMMA DetachFacts ==
  ASSUME NEW d \in DirType, NEW m \in MemType, NEW k \in Keys, NEW kept
  PROVE  LET s == [d |-> d, m |-> m] t == Detach(s, k, kept)
         IN t.d \in DirType /\ t.m \in MemType /\ Detached(s, t, k) /\ t = [d |-> t.d, m |-> t.m]
<1> DEFINE s == [d |-> d, m |-> m]
           t == Detach(s, k, kept)
<1>1. CASE m.entry[k].editor = Nobody
  <2>1. t = s
    BY <1>1 DEF Detach
  <2>2. m.entry = [m.entry EXCEPT ![k].editor = Nobody]
    BY <1>1 DEF MemType, EntryType
  <2> QED BY <1>1, <2>1, <2>2 DEF Detached, SameJournal, LeftBy
<1>2. CASE m.entry[k].editor # Nobody
  <2> DEFINE v == TempFile(d, k)
             a == IF kept THEN v ELSE NoVersion
             b == IF kept THEN d.spoilt \cup {v} ELSE d.spoilt
             e == [d EXCEPT !.dirty[k] = NoVersion, !.left[k] = a, !.spoilt = b]
  <2>1. t = [d |-> e, m |-> [m EXCEPT !.entry[k].editor = Nobody]]
    BY <1>2 DEF Detach
  <2>0. /\ v \in {d.dirty[k], d.left[k]} /\ v \in Versions \cup {NoVersion}
        /\ a \in {v, NoVersion} /\ b \in SUBSET (Versions \cup {NoVersion})
        /\ d.spoilt \subseteq b /\ (a # NoVersion => a \in b)
    BY DEF DirType, TempFile
  <2> HIDE DEF v, a, b
  <2>2. /\ e \in DirType /\ SameJournal(d, e) /\ e.clean = d.clean
        /\ e.dirty = [d.dirty EXCEPT ![k] = NoVersion]
        /\ e.left = [d.left EXCEPT ![k] = a] /\ e.spoilt = b
    BY <2>0 DEF DirType, SameJournal
  <2> HIDE DEF e
  <2>2a. LeftBy(d, e, k)
    <3>1. e.dirty[k] = NoVersion /\ e.left[k] = a /\ \A x \in Keys \ {k} : e.left[x] = d.left[x]
      BY <2>2 DEF DirType
    <3> QED BY <2>0, <2>2, <3>1 DEF LeftBy
  <2> DEFINE f == [m.entry EXCEPT ![k].editor = Nobody]
  <2>3. f \in [Keys -> EntryType]
    BY DEF MemType, EntryType
  <2>4. [m EXCEPT !.entry[k].editor = Nobody] = [m EXCEPT !.entry = f]
    BY DEF MemType
  <2> HIDE DEF f
  <2>5. [m EXCEPT !.entry = f] \in MemType
    BY <2>3 DEF MemType
  <2>6. t.m = [m EXCEPT !.entry = f] /\ t.d = e
    BY <2>1, <2>4
  <2>7. /\ t.m.initialized = m.initialized /\ t.m.lru = m.lru /\ t.m.buffer = m.buffer
        /\ t.m.entry = f /\ t.m.journalWriter = m.journalWriter /\ t.m.size = m.size
        /\ t.m.rebuildFailed = m.rebuildFailed
    BY <2>6 DEF MemType
  <2> QED BY <1>2, <2>1, <2>2, <2>2a, <2>5, <2>6, <2>7 DEF Detached, f
<1> QED BY <1>1, <1>2

LEMMA RemoveEntryFacts ==
  ASSUME NEW d \in DirType, NEW m \in MemType, NEW k \in Keys, NEW kept
  PROVE  LET s == [d |-> d, m |-> m] t == RemoveEntry(s, k, kept)
         IN t.d \in DirType /\ t.m \in MemType /\ Removed(s, t, k)
<1> DEFINE s == [d |-> d, m |-> m]
           t == Detach(s, k, kept)
           l == Without(t.m.lru, k)
           f == [t.m.entry EXCEPT ![k] = NoEntry]
           z == t.m.size - t.m.entry[k].len
           n == [t.m EXCEPT !.size = z, !.lru = l, !.entry = f]
           c == [t.d EXCEPT !.clean[k] = NoVersion]
           line == Line("REMOVE", k, 0)
           r == ScheduleIfNeeded(Log(Redundant(n), line))
<1>1. t.d \in DirType /\ t.m \in MemType /\ Detached(s, t, k)
  BY DetachFacts
<1>2. RemoveEntry(s, k, kept) = [d |-> c, m |-> r]
  <2>1. n = [t.m EXCEPT !.size = @ - t.m.entry[k].len, !.lru = Without(@, k), !.entry[k] = NoEntry]
    BY <1>1 DEF MemType
  <2> QED BY <2>1 DEF RemoveEntry
<1>3. s.m = m /\ s.d = d
  OBVIOUS
<1> HIDE DEF s, t
<1>4. l \in Seq(Keys) /\ LosesKey(t.m.lru, l, k)
  BY <1>1, WithoutFacts DEF MemType
<1>5. f \in [Keys -> EntryType]
  BY <1>1, EmptyEntry DEF MemType
<1>6. z \in Int /\ z = m.size - m.entry[k].len
  <2>1. t.m.entry[k].len = m.entry[k].len /\ t.m.size = m.size
    BY <1>1, <1>3 DEF Detached, MemType, EntryType
  <2>2. m.entry[k].len \in {0, 1} /\ m.size \in Int
    BY DEF MemType, EntryType
  <2> QED BY <2>1, <2>2
<1>7. f = [m.entry EXCEPT ![k] = NoEntry]
  BY <1>1, <1>3 DEF Detached, MemType
<1>8. c \in DirType /\ SameJournal(t.d, c) /\ c.clean = [t.d.clean EXCEPT ![k] = NoVersion] /\ c.dirty = t.d.dirty
      /\ c.left = t.d.left /\ c.spoilt = t.d.spoilt
  BY <1>1 DEF DirType, SameJournal
<1> HIDE DEF l, f, z, c
<1>9. /\ n \in MemType /\ n.initialized = t.m.initialized /\ n.lru = l /\ n.entry = f /\ n.buffer = t.m.buffer
      /\ n.journalWriter = t.m.journalWriter /\ n.size = z /\ n.rebuildFailed = t.m.rebuildFailed
  BY <1>1, <1>4, <1>5, <1>6 DEF MemType
<1> HIDE DEF n
<1>10. line \in LineType
  BY LineFacts
<1> HIDE DEF line
<1>11. Redundant(n) \in MemType /\ Alike(n, Redundant(n))
  BY <1>9, CounterFacts
<1>12. Log(Redundant(n), line) \in MemType /\ Logged(Redundant(n), Log(Redundant(n), line), line)
  BY <1>10, <1>11, LogFacts
<1>13. r \in MemType /\ Alike(Log(Redundant(n), line), r)
  BY <1>12, CounterFacts
<1>14. /\ r.initialized = m.initialized /\ r.lru = l /\ r.entry = f
       /\ r.buffer = IF m.journalWriter = "file" THEN Append(m.buffer, line) ELSE m.buffer
       /\ r.journalWriter = m.journalWriter /\ r.size = z /\ r.rebuildFailed = m.rebuildFailed
  BY <1>1, <1>3, <1>9, <1>11, <1>12, <1>13 DEF Alike, Logged, Detached
<1> HIDE DEF r
<1>14a. LeftBy(d, c, k)
  BY <1>1, <1>3, <1>8 DEF Detached, LeftBy
<1>15. Removed([d |-> d, m |-> m], [d |-> c, m |-> r], k)
  BY <1>14a, <1>1, <1>3, <1>4, <1>6, <1>7, <1>8, <1>14 DEF Removed, Detached, SameJournal, line
<1> QED BY <1>2, <1>8, <1>13, <1>15 DEF s

LEMMA GetFacts ==
  ASSUME NEW d \in DirType, NEW m \in MemType, NEW k \in Keys, NEW kept
  PROVE  LET s == [d |-> d, m |-> m] t == Get(s, k, kept)
         IN /\ t.d \in DirType /\ t.m \in MemType
            /\ Distinct(m.lru) => Looked(s, t, k) \/ Removed(s, t, k)
<1> DEFINE s == [d |-> d, m |-> m]
           n == Touch(m, k)
           line == Line("READ", k, 0)
           r == ScheduleIfNeeded(Log(Redundant(n), line))
<1>1. /\ n \in MemType /\ n = [m EXCEPT !.lru = n.lru]
      /\ Distinct(m.lru) => SameKeys(m.lru, n.lru)
  BY TouchFacts
<1>2. Get(s, k, kept) = IF ~Contains(n.lru, k) \/ ~n.entry[k].readable THEN [d |-> d, m |-> n]
                  ELSE IF d.clean[k] = NoVersion THEN RemoveEntry([d |-> d, m |-> n], k, kept)
                  ELSE [d |-> d, m |-> r]
  BY DEF Get
<1> HIDE DEF n
<1>3. /\ n.initialized = m.initialized /\ n.entry = m.entry /\ n.buffer = m.buffer
      /\ n.journalWriter = m.journalWriter /\ n.size = m.size /\ n.rebuildFailed = m.rebuildFailed
  BY <1>1 DEF MemType
<1>4. Distinct(m.lru) => Looked(s, [d |-> d, m |-> n], k)
  BY <1>1, <1>3 DEF Looked
<1> DEFINE q == RemoveEntry([d |-> d, m |-> n], k, kept)
<1>5. q.d \in DirType /\ q.m \in MemType /\ Removed([d |-> d, m |-> n], q, k)
  BY <1>1, RemoveEntryFacts
<1> HIDE DEF q
<1>6. Distinct(m.lru) => Removed(s, q, k)
  <2> SUFFICES ASSUME Distinct(m.lru) PROVE Removed(s, q, k)
    OBVIOUS
  <2>1. LosesKey(m.lru, q.m.lru, k)
    BY <1>1, <1>5 DEF Removed, LosesKey, SameKeys
  <2> QED BY <1>3, <1>5, <2>1 DEF Removed
<1>7. line \in LineType
  BY LineFacts
<1>8. Redundant(n) \in MemType /\ Alike(n, Redundant(n))
  BY <1>1, CounterFacts
<1>9. Log(Redundant(n), line) \in MemType /\ Logged(Redundant(n), Log(Redundant(n), line), line)
  BY <1>7, <1>8, LogFacts
<1>10. r \in MemType /\ Alike(Log(Redundant(n), line), r)
  BY <1>9, CounterFacts
<1> HIDE DEF r
<1>11. Distinct(m.lru) => Looked(s, [d |-> d, m |-> r], k)
  BY <1>1, <1>3, <1>8, <1>9, <1>10 DEF Looked, Alike, Logged, line
<1> QED BY <1>1, <1>2, <1>4, <1>5, <1>6, <1>10, <1>11 DEF q

\* t is s after the buffer of the journal was flushed, in part when there is an error.
Flushed(s, t) ==
  \/ s.m.journalWriter # "file" /\ t.d = s.d /\ Alike(s.m, t.m)
  \/ /\ s.m.journalWriter = "file"
     /\ \E p \in Torn(s.m.buffer) :
          /\ t.d.journal = [app |-> s.d.journal.app, lines |-> s.d.journal.lines \o p]
          /\ t.m.journalWriter = "file" => p = s.m.buffer
     /\ t.d.backup = s.d.backup /\ t.d.temp = s.d.temp
     /\ t.d.clean = s.d.clean /\ t.d.dirty = s.d.dirty /\ SameLeft(s.d, t.d)
     /\ t.m.initialized = s.m.initialized /\ t.m.lru = s.m.lru /\ t.m.entry = s.m.entry
     /\ t.m.buffer = <<>> /\ t.m.journalWriter \in {"file", "bad"}
     /\ t.m.size = s.m.size /\ t.m.rebuildFailed = s.m.rebuildFailed

LEMMA TornFacts ==
  ASSUME NEW b \in Seq(LineType), NEW p \in Torn(b)
  PROVE  /\ p \in Seq(LineType)
         /\ \A j \in DOMAIN p : \/ j \in DOMAIN b /\ p[j] = b[j]
                                \/ p[j] = Cut /\ j = Len(p)
<1>1. PICK n \in 0 .. Len(b) : p = SubSeq(b, 1, n) \/ p = Append(SubSeq(b, 1, n), Cut)
  BY DEF Torn, Prefixes
<1> DEFINE q == SubSeq(b, 1, n)
<1>2. q \in Seq(LineType) /\ Len(q) = n /\ \A j \in 1 .. n : q[j] = b[j]
  OBVIOUS
<1>3. p = q \/ p = Append(q, Cut)
  BY <1>1
<1>4. Cut \in LineType
  BY DEF Cut, Line, LineType
<1> HIDE DEF q
<1>5. CASE p = q
  BY <1>2, <1>5
<1>6. CASE p = Append(q, Cut)
  <2>1. /\ p \in Seq(LineType) /\ Len(p) = n + 1 /\ p[n + 1] = Cut
        /\ \A j \in 1 .. n : p[j] = q[j]
    BY <1>2, <1>4, <1>6
  <2>2. ASSUME NEW j \in DOMAIN p
        PROVE  (j \in DOMAIN b /\ p[j] = b[j]) \/ (p[j] = Cut /\ j = Len(p))
    <3>1. j \in 1 .. n + 1
      BY <2>1
    <3>2. CASE j = n + 1
      BY <2>1, <3>2
    <3>3. CASE j \in 1 .. n
      BY <1>2, <2>1, <3>3
    <3> QED BY <3>1, <3>2, <3>3
  <2> QED BY <2>1, <2>2
<1> QED BY <1>3, <1>5, <1>6

LEMMA WholeIsTorn ==
  ASSUME NEW b \in Seq(LineType) PROVE b \in Torn(b)
<1>1. SubSeq(b, 1, Len(b)) = b
  OBVIOUS
<1>2. b \in Prefixes(b)
  <2>1. Len(b) \in 0 .. Len(b)
    OBVIOUS
  <2> QED BY <1>1, <2>1 DEF Prefixes
<1> QED BY <1>2 DEF Torn

LEMMA FlushFacts ==
  ASSUME NEW d \in DirType, NEW m \in MemType, NEW bad \in BOOLEAN,
         NEW t \in Flush([d |-> d, m |-> m], bad)
  PROVE  /\ t.d \in DirType /\ t.m \in MemType /\ t = [d |-> t.d, m |-> t.m]
         /\ Flushed([d |-> d, m |-> m], t)
         /\ bad = FALSE => t.m.journalWriter = m.journalWriter
         /\ t.m.trimFailed = m.trimFailed
         /\ t.d.journal.app = d.journal.app
<1>1. CASE m.journalWriter # "file"
  BY <1>1 DEF Flush, Flushed, Alike
<1>2. CASE m.journalWriter = "file"
  <2>1. PICK p \in Torn(m.buffer), w \in {"file", "bad"} :
          /\ t = [d |-> Appended(d, p), m |-> [m EXCEPT !.buffer = <<>>, !.journalWriter = w]]
          /\ w = "file" => p = m.buffer
          /\ bad = FALSE => w = "file"
    <3>1. CASE bad = FALSE
      <4>1. t = [d |-> Appended(d, m.buffer), m |-> [m EXCEPT !.buffer = <<>>]]
        BY <1>2, <3>1 DEF Flush
      <4>2. [m EXCEPT !.buffer = <<>>] = [m EXCEPT !.buffer = <<>>, !.journalWriter = "file"]
        BY <1>2 DEF MemType
      <4>3. m.buffer \in Torn(m.buffer)
        BY WholeIsTorn DEF MemType
      <4> QED BY <3>1, <4>1, <4>2, <4>3
    <3>2. CASE bad = TRUE
      <4>1. \E p \in Torn(m.buffer) :
              t = [d |-> Appended(d, p), m |-> [m EXCEPT !.buffer = <<>>, !.journalWriter = "bad"]]
        BY <1>2, <3>2 DEF Flush
      <4> QED BY <3>2, <4>1
    <3> QED BY <3>1, <3>2
  <2>2. p \in Seq(LineType)
    BY TornFacts DEF MemType
  <2>3. d.journal \in FileType /\ d.journal.lines \o p \in Seq(LineType)
    BY <2>2 DEF DirType, FileType
  <2>4. Appended(d, p) = [d EXCEPT !.journal = [app |-> d.journal.app, lines |-> d.journal.lines \o p]]
    <3>1. [d.journal EXCEPT !.lines = @ \o p] = [app |-> d.journal.app, lines |-> d.journal.lines \o p]
      <4> DEFINE j == d.journal
                 q == d.journal.lines \o p
      <4>1. j \in FileType /\ q \in Seq(LineType)
        BY <2>3
      <4>2. [j EXCEPT !.lines = @ \o p] = [j EXCEPT !.lines = q]
        OBVIOUS
      <4> HIDE DEF j, q
      <4>3. [j EXCEPT !.lines = q] = [app |-> j.app, lines |-> q]
        BY <4>1 DEF FileType
      <4> QED BY <4>2, <4>3 DEF j, q
    <3>2. Appended(d, p) = [d EXCEPT !.journal = [d.journal EXCEPT !.lines = @ \o p]]
      BY DEF Appended, DirType
    <3> QED BY <3>1, <3>2
  <2>5. [app |-> d.journal.app, lines |-> d.journal.lines \o p] \in FileType
    BY <2>3 DEF FileType
  <2>6. Appended(d, p) \in DirType
    BY <2>4, <2>5 DEF DirType
  <2>7. /\ Appended(d, p).journal = [app |-> d.journal.app, lines |-> d.journal.lines \o p]
        /\ Appended(d, p).backup = d.backup /\ Appended(d, p).temp = d.temp
        /\ Appended(d, p).clean = d.clean /\ Appended(d, p).dirty = d.dirty
        /\ SameLeft(d, Appended(d, p))
    BY <2>4 DEF DirType, SameLeft
  <2> DEFINE n == [m EXCEPT !.buffer = <<>>, !.journalWriter = w]
  <2>8. /\ n \in MemType /\ n.buffer = <<>> /\ n.journalWriter = w /\ n.initialized = m.initialized
        /\ n.lru = m.lru /\ n.entry = m.entry /\ n.size = m.size /\ n.rebuildFailed = m.rebuildFailed
        /\ n.trimFailed = m.trimFailed
    <3>1. <<>> \in Seq(LineType)
      OBVIOUS
    <3> QED BY <3>1 DEF MemType
  <2> HIDE DEF n
  <2>9. t.d = Appended(d, p) /\ t.m = n /\ t = [d |-> t.d, m |-> t.m]
    BY <2>1 DEF n
  <2>10. Flushed([d |-> d, m |-> m], t)
    BY <1>2, <2>1, <2>7, <2>8, <2>9 DEF Flushed
  <2> QED BY <1>2, <2>1, <2>6, <2>7, <2>8, <2>9, <2>10
<1> QED BY <1>1, <1>2

-----------------------------------------------------------------------------
(* Reading and rebuilding the journal. *)

LEMMA LastOfLines ==
  ASSUME NEW n \in Nat, NEW S \in SUBSET (1 .. n), S # {}
  PROVE  Max(S) \in S /\ \A i \in S : i <= Max(S)
<1> DEFINE T == {h \in Nat : \E i \in S : h = n - i}
<1>1. \A i \in S : n - i \in T
  OBVIOUS
<1>2. T \in SUBSET Nat /\ T # {}
  BY <1>1
<1> HIDE DEF T
<1>3. IsWellFoundedOn(OpToRel(<, Nat), Nat)
  BY NatLessThanWellFounded, Zenon
<1>4. PICK h \in T : \A g \in T : ~(<<g, h>> \in OpToRel(<, Nat))
  BY <1>2, <1>3, WFMin, Zenon
<1>5. h \in Nat /\ \A g \in T : ~(g < h)
  BY <1>2, <1>4 DEF OpToRel
<1>6. PICK i \in S : h = n - i
  BY DEF T
<1>7. ASSUME NEW j \in S PROVE i >= j
  <2>1. n - j \in T
    BY <1>1
  <2> QED BY <1>5, <1>6, <2>1
<1>8. \E x \in S : \A y \in S : x >= y
  BY <1>7
<1>9. Max(S) \in S /\ \A y \in S : Max(S) >= y
  BY <1>8, Zenon DEF Max
<1> QED BY <1>9

\* What readJournal makes of the lines of a journal.
LEMMA ReplayFacts ==
  ASSUME NEW lines \in Seq(LineType)
  PROVE  /\ Replay(lines) \in [Keys -> EntryType]
         /\ \A k \in Keys : LET e == Replay(lines)[k] IN
              /\ LinesOf(lines, k) = {} => e = NoEntry
              /\ e.editor \in {Nobody, Replayed}
              /\ e.editor = Replayed <=>
                   \E i \in LinesOf(lines, k) :
                     /\ lines[i].op = "DIRTY"
                     /\ \A j \in LinesOf(lines, k) : lines[j].op = "CLEAN" => j < i
              /\ e.readable = TRUE <=> \E i \in LinesOf(lines, k) : lines[i].op = "CLEAN"
              /\ e.len = 1 => e.readable = TRUE
<1>1. ASSUME NEW k \in Keys
      PROVE  LET e == Replay(lines)[k] IN
             /\ e \in EntryType
             /\ LinesOf(lines, k) = {} => e = NoEntry
             /\ e.editor \in {Nobody, Replayed}
             /\ e.editor = Replayed <=>
                  \E i \in LinesOf(lines, k) :
                    /\ lines[i].op = "DIRTY"
                    /\ \A j \in LinesOf(lines, k) : lines[j].op = "CLEAN" => j < i
             /\ e.readable = TRUE <=> \E i \in LinesOf(lines, k) : lines[i].op = "CLEAN"
             /\ e.len = 1 => e.readable = TRUE
  <2> DEFINE is == LinesOf(lines, k)
             cleans == {i \in is : lines[i].op = "CLEAN"}
             dirty == {i \in is : lines[i].op = "DIRTY" /\ \A j \in cleans : j < i}
             len == IF cleans = {} THEN 0 ELSE lines[Max(cleans)].len
             e == [readable |-> cleans # {}, len |-> len,
                   editor |-> IF dirty = {} THEN Nobody ELSE Replayed, id |-> 0]
  <2>1. Replay(lines)[k] = e
    BY DEF Replay, EntryFrom, NoEntry
  <2>2. is \subseteq 1 .. Len(lines)
    BY DEF LinesOf
  <2> HIDE DEF is
  <2>3. len \in {0, 1} /\ (cleans = {} => len = 0)
    <3>1. CASE cleans = {}
      BY <3>1
    <3>2. CASE cleans # {}
      <4>0. Len(lines) \in Nat
        OBVIOUS
      <4>1. cleans \in SUBSET (1 .. Len(lines))
        BY <2>2, Zenon
      <4> HIDE DEF cleans
      <4>2. Max(cleans) \in cleans
        BY <3>2, <4>0, <4>1, LastOfLines
      <4>3. Max(cleans) \in 1 .. Len(lines)
        BY <4>1, <4>2
      <4>4. lines[Max(cleans)] \in LineType
        BY <4>3
      <4> QED BY <3>2, <4>4 DEF LineType
    <3> QED BY <3>1, <3>2
  <2>4. /\ is = {} => dirty = {} /\ cleans = {}
        /\ dirty # {} <=> \E i \in is : lines[i].op = "DIRTY" /\ \A j \in is : lines[j].op = "CLEAN" => j < i
        /\ cleans # {} <=> \E i \in is : lines[i].op = "CLEAN"
    OBVIOUS
  <2> HIDE DEF len, cleans, dirty
  <2>5. e \in EntryType
    BY <2>3 DEF EntryType
  <2>6. is = {} => e = NoEntry
    BY <2>3, <2>4 DEF NoEntry
  <2>7. e.editor \in {Nobody, Replayed} /\ (e.editor = Replayed <=> dirty # {})
    BY Constants
  <2>8. (e.readable = TRUE <=> cleans # {}) /\ (e.len = 1 => e.readable = TRUE)
    <3>1. e.readable = (cleans # {})
      OBVIOUS
    <3>2. e.len = len
      OBVIOUS
    <3> HIDE DEF e
    <3>3. CASE cleans = {}
      <4>1. e.readable = FALSE
        BY <3>1, <3>3, Zenon
      <4>2. e.len = 0
        BY <2>3, <3>2, <3>3
      <4> QED BY <3>3, <4>1, <4>2
    <3>4. CASE cleans # {}
      BY <3>1, <3>4
    <3> QED BY <3>3, <3>4
  <2> HIDE DEF e
  <2> QED BY <2>1, <2>4, <2>5, <2>6, <2>7, <2>8 DEF is
<1>2. Replay(lines) \in [Keys -> EntryType]
  BY <1>1 DEF Replay
<1> QED BY <1>1, <1>2

LEMMA OrderFacts ==
  ASSUME NEW lines \in Seq(LineType), NEW lru \in Order(lines)
  PROVE  /\ lru \in Seq(Keys) /\ Distinct(lru)
         /\ \A k \in Keys : Contains(lru, k) <=> LinesOf(lines, k) # {}
         /\ Cardinality({i \in DOMAIN lines : lines[i] # Cut}) - Len(lru) \in Nat
<1> DEFINE S == {k \in Keys : LinesOf(lines, k) # {}}
           N == {i \in DOMAIN lines : lines[i] # Cut}
           n == Cardinality(S)
<1>1. IsFiniteSet(S) /\ n \in Nat /\ S \subseteq Keys
  <2>1. S \in SUBSET Keys
    OBVIOUS
  <2>2. IsFiniteSet(S)
    BY <2>1, Constants, FS_Subset
  <2> QED BY <2>1, <2>2, FS_CardinalityType
<1>2. lru \in [1 .. n -> S] /\ \A i, j \in 1 .. n : i # j => lru[i] # lru[j]
  BY DEF Order, SetToSeqs
<1> HIDE DEF n
<1>3. lru \in Seq(Keys) /\ Len(lru) = n
  BY <1>1, <1>2
<1>4. Distinct(lru)
  BY <1>2 DEF Distinct
<1>5. lru \in Surjection(1 .. n, S)
  <2>1. lru \in Injection(1 .. n, S)
    BY <1>2 DEF Injection, IsInjective
  <2>2. Cardinality(1 .. n) = n
    BY <1>1, FS_Interval
  <2> QED BY <1>1, <2>1, <2>2, FS_Injection DEF n
<1>6. ASSUME NEW k \in Keys PROVE Contains(lru, k) <=> LinesOf(lines, k) # {}
  BY <1>2, <1>3, <1>5 DEF Surjection, Contains
<1>7. n <= Cardinality(N) /\ Cardinality(N) \in Nat
  <2> DEFINE g == [k \in S |-> CHOOSE i \in LinesOf(lines, k) : TRUE]
  <2>1. ASSUME NEW k \in S PROVE g[k] \in LinesOf(lines, k)
    OBVIOUS
  <2>2. ASSUME NEW k \in S PROVE g[k] \in N /\ lines[g[k]].key = k
    <3>1. g[k] \in DOMAIN lines /\ lines[g[k]].key = k
      BY <2>1 DEF LinesOf
    <3>2. k \in Keys
      BY <1>1
    <3> HIDE DEF g
    <3> QED BY <3>1, <3>2, Constants DEF Cut, Line
  <2>3. g \in [S -> N]
    BY <2>2
  <2> HIDE DEF g
  <2>4. g \in Injection(S, N)
    BY <2>2, <2>3 DEF Injection, IsInjective
  <2>5. IsFiniteSet(N) /\ Cardinality(N) \in Nat
    <3>1. N \in SUBSET (1 .. Len(lines)) /\ Len(lines) \in Nat
      OBVIOUS
    <3> HIDE DEF N
    <3>2. IsFiniteSet(1 .. Len(lines))
      BY <3>1, FS_Interval
    <3>3. IsFiniteSet(N)
      BY <3>1, <3>2, FS_Subset
    <3> QED BY <3>3, FS_CardinalityType
  <2> HIDE DEF S, N
  <2> QED BY <2>4, <2>5, FS_Injection DEF n
<1> QED BY <1>1, <1>3, <1>4, <1>6, <1>7

LEMMA CompactFacts ==
  ASSUME NEW m \in MemType
  PROVE  /\ Compact(m) \in Seq(LineType) /\ Len(Compact(m)) = Len(m.lru)
         /\ \A i \in 1 .. Len(m.lru) :
              /\ Compact(m)[i].key = m.lru[i]
              /\ Compact(m)[i].op = IF m.entry[m.lru[i]].editor # Nobody THEN "DIRTY" ELSE "CLEAN"
<1>1. m.lru \in Seq(Keys) /\ m.entry \in [Keys -> EntryType]
  BY DEF MemType
<1>2. ASSUME NEW i \in 1 .. Len(m.lru)
      PROVE  /\ Compact(m)[i] \in LineType
             /\ Compact(m)[i].key = m.lru[i]
             /\ Compact(m)[i].op = IF m.entry[m.lru[i]].editor # Nobody THEN "DIRTY" ELSE "CLEAN"
  <2> DEFINE k == m.lru[i]
  <2>1. k \in Keys /\ m.entry[k].len \in {0, 1}
    BY <1>1 DEF EntryType
  <2>2. Compact(m)[i] = IF m.entry[k].editor # Nobody THEN Line("DIRTY", k, 0)
                        ELSE Line("CLEAN", k, m.entry[k].len)
    BY <1>1 DEF Compact
  <2> HIDE DEF k
  <2>3. CASE m.entry[k].editor # Nobody
    BY <2>1, <2>2, <2>3 DEF Line, LineType, k
  <2>4. CASE m.entry[k].editor = Nobody
    BY <2>1, <2>2, <2>4 DEF Line, LineType, k
  <2> QED BY <2>3, <2>4
<1>3. Compact(m) = [i \in 1 .. Len(m.lru) |-> Compact(m)[i]]
  BY <1>1 DEF Compact
<1>4. Compact(m) \in Seq(LineType) /\ Len(Compact(m)) = Len(m.lru)
  <2>1. Len(m.lru) \in Nat
    BY <1>1
  <2>2. Compact(m) \in [1 .. Len(m.lru) -> LineType]
    BY <1>2, <1>3
  <2> QED BY <2>1, <2>2
<1> QED BY <1>2, <1>4

-----------------------------------------------------------------------------
(* The types, and what the actions do to the fields. *)

Then == [d |-> disk', m |-> mem']

LEMMA MayFailFacts ==
  ASSUME count \in CountType, NEW bad \in BOOLEAN, MayFail(bad)
  PROVE  /\ count' \in CountType /\ count'.stores = count.stores /\ count'.events >= count.events
         /\ bad = TRUE => count'.events > 0
BY Constants DEF CountType, MayFail, Spend

LEMMA SpendStores ==
  ASSUME count \in CountType, Spend("stores", MaxStores)
  PROVE  /\ count' \in CountType /\ count'.stores = count.stores + 1 /\ count'.events = count.events
         /\ count.stores + 1 \in Versions
BY Constants DEF CountType, Spend, Versions

LEMMA SpendEvents ==
  ASSUME count \in CountType, Spend("events", MaxEvents)
  PROVE  /\ count' \in CountType /\ count'.stores = count.stores /\ count'.events > 0
BY Constants DEF CountType, Spend

LEMMA FinishEditFacts ==
  ASSUME count \in CountType, NEW d \in DirType, NEW m \in MemType, FinishEdit([d |-> d, m |-> m])
  PROVE  /\ disk' \in DirType /\ mem' \in MemType /\ Flushed([d |-> d, m |-> m], Then)
         /\ disk'.journal.app = d.journal.app
         /\ count' \in CountType /\ count'.stores = count.stores /\ count'.events >= count.events
<1> DEFINE s == [d |-> d, m |-> m]
<1>1. PICK bad \in BOOLEAN :
        /\ MayFail(bad)
        /\ \E t \in Flush(s, bad) :
             Become([t EXCEPT !.m.cleanup = @ \/ t.m.size > MaxSize \/ journalRebuildRequired(t.m)])
  BY DEF FinishEdit
<1>2. PICK t \in Flush(s, bad) :
        Become([t EXCEPT !.m.cleanup = @ \/ t.m.size > MaxSize \/ journalRebuildRequired(t.m)])
  BY <1>1
<1>3. /\ t.d \in DirType /\ t.m \in MemType /\ t = [d |-> t.d, m |-> t.m]
      /\ Flushed(s, t) /\ t.d.journal.app = d.journal.app
  BY FlushFacts
<1> DEFINE b == t.m.cleanup \/ t.m.size > MaxSize \/ journalRebuildRequired(t.m)
<1>4. b \in BOOLEAN
  OBVIOUS
<1>5. disk' = t.d /\ mem' = [t.m EXCEPT !.cleanup = b]
  BY <1>2, <1>3 DEF Become
<1> HIDE DEF b
<1>6. mem' \in MemType /\ Alike(t.m, mem')
  BY <1>3, <1>4, <1>5 DEF MemType, Alike
<1>7. Flushed(s, Then)
  <2>1. Then.d = t.d /\ Then.m = mem'
    BY <1>5 DEF Then
  <2>2. CASE m.journalWriter # "file"
    BY <1>3, <1>6, <2>1, <2>2 DEF Flushed, Alike
  <2>3. CASE m.journalWriter = "file"
    BY <1>3, <1>6, <2>1, <2>3 DEF Flushed, Alike
  <2> QED BY <2>2, <2>3
<1> QED BY <1>1, <1>3, <1>5, <1>6, <1>7, MayFailFacts

LEMMA TrimEffect ==
  ASSUME Types, trimToSize, mem.size > MaxSize => mem.lru # <<>>
  PROVE  /\ disk' \in DirType /\ mem' \in MemType /\ count' \in CountType
         /\ count'.stores = count.stores /\ count'.events >= count.events
         /\ \/ lock' = lock /\ mem.lru # <<>> /\ Removed(Now, Then, Head(mem.lru))
            \/ lock' = Tail(lock) /\ mem.lru # <<>> /\ Detached(Now, Then, Head(mem.lru))
            \/ lock' = Tail(lock) /\ disk' = disk /\ Alike(mem, mem')
<1> DEFINE k == Head(mem.lru)
<1>0. (mem.lru # <<>> => k \in Keys) /\ disk \in DirType /\ mem \in MemType /\ count \in CountType
  BY DEF Types, MemType
<1>1. ASSUME mem.lru # <<>>, lock' = lock,
             \E kept \in BOOLEAN : MayFail(kept) /\ Become(RemoveEntry(Now, k, kept))
      PROVE  /\ disk' \in DirType /\ mem' \in MemType /\ count' \in CountType
             /\ count'.stores = count.stores /\ count'.events >= count.events
             /\ Removed(Now, Then, k)
  <2>0. PICK kept \in BOOLEAN : MayFail(kept) /\ Become(RemoveEntry(Now, k, kept))
    BY <1>1
  <2> DEFINE t == RemoveEntry(Now, k, kept)
  <2>1. t.d \in DirType /\ t.m \in MemType /\ Removed(Now, t, k)
    BY <1>0, <1>1, RemoveEntryFacts DEF Now
  <2>2. disk' = t.d /\ mem' = t.m
    BY <2>0 DEF Become
  <2> HIDE DEF t, k
  <2>3. Removed(Now, Then, k)
    BY <2>1, <2>2 DEF Removed, Then
  <2>4. count' \in CountType /\ count'.stores = count.stores /\ count'.events >= count.events
    BY <1>0, <2>0, MayFailFacts
  <2> QED BY <2>1, <2>2, <2>3, <2>4
<1>2. ASSUME mem.lru # <<>>, MayFail(TRUE), lock' = Tail(lock),
             \E kept \in BOOLEAN : Become([RemoveEntryFails(Now, k, kept) EXCEPT !.m.trimFailed = TRUE])
      PROVE  /\ disk' \in DirType /\ mem' \in MemType /\ count' \in CountType
             /\ count'.stores = count.stores /\ count'.events >= count.events
             /\ Detached(Now, Then, k)
  <2>0. PICK kept \in BOOLEAN : Become([RemoveEntryFails(Now, k, kept) EXCEPT !.m.trimFailed = TRUE])
    BY <1>2
  <2> DEFINE t == Detach(Now, k, kept)
  <2>1. t.d \in DirType /\ t.m \in MemType /\ Detached(Now, t, k) /\ t = [d |-> t.d, m |-> t.m]
    BY <1>0, <1>2, DetachFacts DEF Now
  <2>2. disk' = t.d /\ mem' = [t.m EXCEPT !.trimFailed = TRUE]
    BY <2>0, <2>1 DEF Become, RemoveEntryFails
  <2> HIDE DEF t, k
  <2>3. mem' \in MemType /\ Alike(t.m, mem')
    BY <2>1, <2>2 DEF MemType, Alike
  <2>4. Detached(Now, Then, k)
    BY <2>1, <2>2, <2>3 DEF Detached, Then, Alike
  <2>5. count' \in CountType /\ count'.stores = count.stores /\ count'.events >= count.events
    BY <1>0, <1>2, MayFailFacts
  <2> QED BY <2>1, <2>2, <2>3, <2>4, <2>5
<1>3. CASE lock' = Tail(lock) /\ mem' = [mem EXCEPT !.trimFailed = FALSE] /\ UNCHANGED <<disk, count>>
  <2>1. mem' \in MemType /\ Alike(mem, mem')
    BY <1>0, <1>3 DEF MemType, Alike
  <2> QED BY <1>0, <1>3, <2>1 DEF CountType
<1>4. \/ /\ mem.lru # <<>> /\ lock' = lock
         /\ \E kept \in BOOLEAN : MayFail(kept) /\ Become(RemoveEntry(Now, k, kept))
      \/ /\ mem.lru # <<>> /\ MayFail(TRUE) /\ lock' = Tail(lock)
         /\ \E kept \in BOOLEAN : Become([RemoveEntryFails(Now, k, kept) EXCEPT !.m.trimFailed = TRUE])
      \/ lock' = Tail(lock) /\ mem' = [mem EXCEPT !.trimFailed = FALSE] /\ UNCHANGED <<disk, count>>
  BY DEF trimToSize
<1> HIDE DEF k
<1>5. CASE /\ mem.lru # <<>> /\ lock' = lock
           /\ \E kept \in BOOLEAN : MayFail(kept) /\ Become(RemoveEntry(Now, k, kept))
  BY <1>0, <1>1, <1>5 DEF k
<1>6. CASE /\ mem.lru # <<>> /\ MayFail(TRUE) /\ lock' = Tail(lock)
           /\ \E kept \in BOOLEAN : Become([RemoveEntryFails(Now, k, kept) EXCEPT !.m.trimFailed = TRUE])
  BY <1>0, <1>2, <1>6 DEF k
<1> QED BY <1>3, <1>4, <1>5, <1>6

LEMMA FailedRemoval ==
  ASSUME Types, NEW k \in Keys, NEW kept, Become(RemoveEntryFails(Now, k, kept))
  PROVE  disk' \in DirType /\ mem' \in MemType /\ Detached(Now, Then, k)
<1> DEFINE t == Detach(Now, k, kept)
<1>1. t.d \in DirType /\ t.m \in MemType /\ Detached(Now, t, k)
  BY DetachFacts DEF Now, Types
<1>2. disk' = t.d /\ mem' = t.m
  BY DEF Become, RemoveEntryFails
<1> HIDE DEF t
<1>3. Detached(Now, Then, k)
  BY <1>1, <1>2 DEF Detached, Then
<1> QED BY <1>1, <1>2, <1>3

LEMMA EvictEffect ==
  ASSUME Types, evictNext
  PROVE  /\ disk' \in DirType /\ mem' \in MemType /\ count' \in CountType
         /\ count'.stores = count.stores /\ count'.events >= count.events
         /\ \/ /\ mem.lru # <<>> /\ Head(mem.lru) \in Keys
               /\ lock' = lock /\ Removed(Now, Then, Head(mem.lru))
            \/ /\ mem.lru # <<>> /\ Head(mem.lru) \in Keys
               /\ lock' = <<>> /\ Detached(Now, Then, Head(mem.lru))
            \/ lock' = <<>> /\ disk' = disk /\ Alike(mem, mem')
<1> DEFINE k == Head(mem.lru)
<1>0. (mem.lru # <<>> => k \in Keys) /\ disk \in DirType /\ mem \in MemType /\ count \in CountType
  BY DEF Types, MemType
<1>1. ASSUME mem.lru # <<>>, lock' = lock,
             \E kept \in BOOLEAN : MayFail(kept) /\ Become(RemoveEntry(Now, k, kept))
      PROVE  /\ disk' \in DirType /\ mem' \in MemType /\ count' \in CountType
             /\ count'.stores = count.stores /\ count'.events >= count.events
             /\ Removed(Now, Then, k)
  <2>0. PICK kept \in BOOLEAN : MayFail(kept) /\ Become(RemoveEntry(Now, k, kept))
    BY <1>1
  <2> DEFINE t == RemoveEntry(Now, k, kept)
  <2>1. t.d \in DirType /\ t.m \in MemType /\ Removed(Now, t, k)
    BY <1>0, <1>1, RemoveEntryFacts DEF Now
  <2>2. disk' = t.d /\ mem' = t.m
    BY <2>0 DEF Become
  <2> HIDE DEF t, k
  <2>3. Removed(Now, Then, k)
    BY <2>1, <2>2 DEF Removed, Then
  <2>4. count' \in CountType /\ count'.stores = count.stores /\ count'.events >= count.events
    BY <1>0, <2>0, MayFailFacts
  <2> QED BY <2>1, <2>2, <2>3, <2>4
<1>2. ASSUME mem.lru # <<>>, MayFail(TRUE), lock' = <<>>,
             \E kept \in BOOLEAN : Become(RemoveEntryFails(Now, k, kept))
      PROVE  /\ disk' \in DirType /\ mem' \in MemType /\ count' \in CountType
             /\ count'.stores = count.stores /\ count'.events >= count.events
             /\ Detached(Now, Then, k)
  <2>0. PICK kept \in BOOLEAN : Become(RemoveEntryFails(Now, k, kept))
    BY <1>2
  <2>1. disk' \in DirType /\ mem' \in MemType /\ Detached(Now, Then, k)
    BY <1>0, <1>2, <2>0, FailedRemoval
  <2>2. count' \in CountType /\ count'.stores = count.stores /\ count'.events >= count.events
    BY <1>0, <1>2, MayFailFacts
  <2> QED BY <2>1, <2>2
<1>3. CASE lock' = <<>> /\ mem' = [mem EXCEPT !.trimFailed = FALSE] /\ UNCHANGED <<disk, count>>
  <2>1. mem' \in MemType /\ Alike(mem, mem')
    BY <1>0, <1>3 DEF MemType, Alike
  <2> QED BY <1>0, <1>3, <2>1 DEF CountType
<1>4. \/ /\ mem.lru # <<>> /\ lock' = lock
         /\ \E kept \in BOOLEAN : MayFail(kept) /\ Become(RemoveEntry(Now, k, kept))
      \/ /\ mem.lru # <<>> /\ MayFail(TRUE) /\ lock' = <<>>
         /\ \E kept \in BOOLEAN : Become(RemoveEntryFails(Now, k, kept))
      \/ lock' = <<>> /\ mem' = [mem EXCEPT !.trimFailed = FALSE] /\ UNCHANGED <<disk, count>>
  BY DEF evictNext
<1> HIDE DEF k
<1>5. CASE /\ mem.lru # <<>> /\ lock' = lock
           /\ \E kept \in BOOLEAN : MayFail(kept) /\ Become(RemoveEntry(Now, k, kept))
  BY <1>0, <1>1, <1>5 DEF k
<1>6. CASE /\ mem.lru # <<>> /\ MayFail(TRUE) /\ lock' = <<>>
           /\ \E kept \in BOOLEAN : Become(RemoveEntryFails(Now, k, kept))
  BY <1>0, <1>2, <1>6 DEF k
<1> QED BY <1>3, <1>4, <1>5, <1>6

LEMMA GetEffect ==
  ASSUME Types, NEW k \in Keys, NEW kept, Become(Get(Now, k, kept))
  PROVE  /\ disk' \in DirType /\ mem' \in MemType
         /\ Distinct(mem.lru) => Looked(Now, Then, k) \/ Removed(Now, Then, k)
<1> DEFINE t == Get(Now, k, kept)
<1>1. /\ t.d \in DirType /\ t.m \in MemType
      /\ Distinct(mem.lru) => Looked(Now, t, k) \/ Removed(Now, t, k)
  BY GetFacts DEF Types, Now
<1>2. disk' = t.d /\ mem' = t.m
  BY DEF Become
<1> HIDE DEF t
<1>3. /\ Looked(Now, t, k) => Looked(Now, Then, k)
      /\ Removed(Now, t, k) => Removed(Now, Then, k)
  BY <1>2 DEF Looked, Removed, Then
<1> QED BY <1>1, <1>2, <1>3

LEMMA CleanRemoveEffect ==
  ASSUME Types, cleanRemove
  PROVE  /\ disk' \in DirType /\ mem' \in MemType /\ count' \in CountType
         /\ count'.stores = count.stores /\ count'.events >= count.events
         /\ cleaner' \in [todo : Seq([key : Keys, id : Versions \cup {0}]), old : Seq(Keys)]
         /\ \/ \E k \in Keys : Removed(Now, Then, k)
            \/ disk' = disk /\ Alike(mem, mem')
<1>0. PICK kept \in BOOLEAN :
        /\ MayFail(kept)
        /\ LET k == cleaner.old[1]
               s == IF Contains(mem.lru, k) THEN RemoveEntry(Now, k, kept) ELSE Now
           IN Become([s EXCEPT !.m.trimFailed = @ /\ ~(Contains(mem.lru, k) /\ s.m.size <= MaxSize)])
  BY DEF cleanRemove
<1> DEFINE k == cleaner.old[1]
           s == IF Contains(mem.lru, k) THEN RemoveEntry(Now, k, kept) ELSE Now
           b == s.m.trimFailed /\ ~(Contains(mem.lru, k) /\ s.m.size <= MaxSize)
<1>1. k \in Keys /\ disk \in DirType /\ mem \in MemType
  BY DEF Types, cleanRemove
<1>2. Become([s EXCEPT !.m.trimFailed = b])
  BY <1>0
<1> HIDE DEF k
<1>3. /\ s.d \in DirType /\ s.m \in MemType
      /\ Removed(Now, s, k) \/ s = Now
  BY <1>1, RemoveEntryFacts DEF Now
<1>4. s = [d |-> s.d, m |-> s.m]
  BY DEF Now, RemoveEntry
<1>5. b \in BOOLEAN
  BY <1>3 DEF MemType
<1> HIDE DEF s, b
<1>6. disk' = s.d /\ mem' = [s.m EXCEPT !.trimFailed = b]
  BY <1>2, <1>4 DEF Become
<1>7. mem' \in MemType /\ Alike(s.m, mem')
  BY <1>3, <1>5, <1>6 DEF MemType, Alike
<1>8. Removed(Now, s, k) => Removed(Now, Then, k)
  BY <1>6, <1>7 DEF Removed, Then, Alike
<1>9. s = Now => disk' = disk /\ Alike(mem, mem')
  BY <1>6, <1>7 DEF Now, Alike
<1>10. cleaner' \in [todo : Seq([key : Keys, id : Versions \cup {0}]), old : Seq(Keys)]
  <2>1. <<>> \in Seq(Keys)
    OBVIOUS
  <2> QED BY <2>1 DEF cleanRemove, Types
<1>11. count' \in CountType /\ count'.stores = count.stores /\ count'.events >= count.events
  BY <1>0, MayFailFacts DEF Types
<1> QED BY <1>1, <1>3, <1>6, <1>7, <1>8, <1>9, <1>10, <1>11

LEMMA CleanRemoveFailsEffect ==
  ASSUME Types, cleanRemoveFails
  PROVE  /\ disk' \in DirType /\ mem' \in MemType /\ count' \in CountType
         /\ count'.stores = count.stores /\ count'.events >= count.events
         /\ cleaner' \in [todo : Seq([key : Keys, id : Versions \cup {0}]), old : Seq(Keys)]
         /\ \E k \in Keys : Contains(mem.lru, k) /\ Detached(Now, Then, k)
<1> DEFINE k == cleaner.old[1]
<1>1. k \in Keys
  BY DEF Types, cleanRemoveFails
<1>2. PICK kept \in BOOLEAN : Become(RemoveEntryFails(Now, k, kept))
  BY DEF cleanRemoveFails
<1>3. Contains(mem.lru, k)
  BY DEF cleanRemoveFails
<1> HIDE DEF k
<1>4. disk' \in DirType /\ mem' \in MemType /\ Detached(Now, Then, k)
  BY <1>1, <1>2, FailedRemoval
<1>5. count' \in CountType /\ count'.stores = count.stores /\ count'.events >= count.events
  BY MayFailFacts DEF Types, cleanRemoveFails
<1>6. cleaner' \in [todo : Seq([key : Keys, id : Versions \cup {0}]), old : Seq(Keys)]
  <2>1. <<>> \in Seq(Keys) /\ <<>> \in Seq([key : Keys, id : Versions \cup {0}])
    OBVIOUS
  <2> QED BY <2>1 DEF cleanRemoveFails
<1> QED BY <1>1, <1>3, <1>4, <1>5, <1>6

LEMMA CleanNextEffect ==
  ASSUME Types, cleanNext, Gaps = FALSE
  PROVE  /\ disk' \in DirType /\ mem' \in MemType /\ writer' = writer /\ count' \in CountType
         /\ count'.stores = count.stores /\ count'.events >= count.events
         /\ cleaner' \in [todo : Seq([key : Keys, id : Versions \cup {0}]), old : Seq(Keys)]
         /\ \/ \E k \in Keys : Removed(Now, Then, k)
            \/ disk' = disk /\ mem' = mem
<1> DEFINE o == Head(cleaner.todo)
           k == o.key
           rest == [todo |-> Tail(cleaner.todo), old |-> <<>>]
           stale == ~Contains(mem.lru, k) \/ mem.entry[k].id # o.id
<1>0. cleaner.todo \in Seq([key : Keys, id : Versions \cup {0}]) /\ cleaner.todo # <<>>
  <2>1. cleaner.todo # <<>>
    BY DEF cleanNext
  <2> QED BY <2>1 DEF Types
<1>1. k \in Keys /\ disk \in DirType /\ mem \in MemType
  <2>1. o \in [key : Keys, id : Versions \cup {0}]
    <3> DEFINE T == [key : Keys, id : Versions \cup {0}]
               q == cleaner.todo
    <3>1. q \in Seq(T) /\ q # <<>>
      BY <1>0
    <3> HIDE DEF T, q
    <3>2. Head(q) \in T
      BY <3>1
    <3> QED BY <3>2 DEF T, q
  <2> QED BY <2>1 DEF Types
<1>2. rest \in [todo : Seq([key : Keys, id : Versions \cup {0}]), old : Seq(Keys)]
  <2>1. <<>> \in Seq(Keys)
    OBVIOUS
  <2>2. Tail(cleaner.todo) \in Seq([key : Keys, id : Versions \cup {0}])
    BY <1>0
  <2> QED BY <2>1, <2>2
<1>3. \/ cleaner' = rest /\ UNCHANGED <<disk, mem, writer, count>>
      \/ /\ \E o2 \in {<<>>, <<k>>} : cleaner' = [rest EXCEPT !.old = o2]
         /\ UNCHANGED <<disk, mem, writer, count>>
      \/ /\ cleaner' = rest /\ UNCHANGED writer
         /\ \E kept \in BOOLEAN : MayFail(kept) /\ Become(RemoveEntry(Now, k, kept))
  <2>1. CASE stale
    BY <2>1 DEF cleanNext
  <2>2. CASE ~stale
    BY <2>2 DEF cleanNext
  <2> QED BY <2>1, <2>2
<1>4. ASSUME NEW o2 \in {<<>>, <<k>>}
      PROVE  [rest EXCEPT !.old = o2] \in [todo : Seq([key : Keys, id : Versions \cup {0}]), old : Seq(Keys)]
  <2>1. o2 \in Seq(Keys)
    <3> HIDE DEF k
    <3>1. <<>> \in Seq(Keys) /\ <<k>> \in Seq(Keys)
      BY <1>1
    <3> QED BY <3>1
  <2> HIDE DEF rest
  <2> QED BY <1>2, <2>1
<1>5. ASSUME \E kept \in BOOLEAN : MayFail(kept) /\ Become(RemoveEntry(Now, k, kept))
      PROVE  /\ disk' \in DirType /\ mem' \in MemType /\ Removed(Now, Then, k)
             /\ count' \in CountType /\ count'.stores = count.stores /\ count'.events >= count.events
  <2>0. PICK kept \in BOOLEAN : MayFail(kept) /\ Become(RemoveEntry(Now, k, kept))
    BY <1>5
  <2> DEFINE t == RemoveEntry(Now, k, kept)
  <2> HIDE DEF k
  <2>1. t.d \in DirType /\ t.m \in MemType /\ Removed(Now, t, k)
    BY <1>1, RemoveEntryFacts DEF Now
  <2>2. disk' = t.d /\ mem' = t.m
    BY <2>0 DEF Become, k
  <2> HIDE DEF t
  <2>3. Removed(Now, Then, k)
    BY <2>1, <2>2 DEF Removed, Then
  <2>4. count' \in CountType /\ count'.stores = count.stores /\ count'.events >= count.events
    BY <2>0, MayFailFacts DEF Types
  <2> QED BY <2>1, <2>2, <2>3, <2>4 DEF k
<1>6. ASSUME count' = count
      PROVE  count' \in CountType /\ count'.stores = count.stores /\ count'.events >= count.events
  BY <1>6 DEF Types, CountType
<1> HIDE DEF k, rest
<1> QED BY <1>1, <1>2, <1>3, <1>4, <1>5, <1>6

\* t is s after the edit of k was given up.
GivenUp(s, t, k) ==
  /\ SameJournal(s.d, t.d) /\ t.d.clean = s.d.clean /\ t.d.dirty = [s.d.dirty EXCEPT ![k] = NoVersion]
  /\ LeftBy(s.d, t.d, k)
  /\ t.m.initialized = s.m.initialized /\ t.m.journalWriter = s.m.journalWriter
  /\ t.m.size = s.m.size /\ t.m.rebuildFailed = s.m.rebuildFailed
  /\ \/ /\ s.m.entry[k].readable = TRUE /\ t.m.lru = s.m.lru
        /\ t.m.entry = [s.m.entry EXCEPT ![k].editor = Nobody]
        /\ t.m.buffer = IF s.m.journalWriter = "file"
                        THEN Append(s.m.buffer, Line("CLEAN", k, s.m.entry[k].len)) ELSE s.m.buffer
     \/ /\ s.m.entry[k].readable = FALSE /\ LosesKey(s.m.lru, t.m.lru, k)
        /\ t.m.entry = [s.m.entry EXCEPT ![k] = NoEntry]
        /\ t.m.buffer = IF s.m.journalWriter = "file"
                        THEN Append(s.m.buffer, Line("REMOVE", k, 0)) ELSE s.m.buffer

LEMMA AbortedFacts ==
  ASSUME Types, NEW w \in Writers, writer[w].pc # "idle", writer[w].own = <<>>
  PROVE  LET t == Aborted(w)
         IN /\ t.d \in DirType /\ t.m \in MemType /\ GivenUp(Now, t, writer[w].key)
            /\ t = [d |-> t.d, m |-> t.m]
<1> DEFINE k == writer[w].key
           e == [mem.entry[k] EXCEPT !.editor = Nobody]
           f == [mem.entry EXCEPT ![k] = e]
           n == Redundant([mem EXCEPT !.entry = f])
           c == [disk EXCEPT !.dirty[k] = NoVersion, !.left[k] = NoVersion]
           r1 == Log(n, Line("CLEAN", k, e.len))
           l == Without(n.lru, k)
           g == [n.entry EXCEPT ![k] = NoEntry]
           r2 == Log([n EXCEPT !.lru = l, !.entry = g], Line("REMOVE", k, 0))
<1>1. k \in Keys /\ disk \in DirType /\ mem \in MemType
  BY DEF Types
<1>2. Aborted(w) = [d |-> c, m |-> IF e.readable THEN r1 ELSE r2]
  <2>1. [mem EXCEPT !.entry[k] = e] = [mem EXCEPT !.entry = f]
    BY <1>1 DEF MemType
  <2>2. [n EXCEPT !.lru = Without(@, k), !.entry[k] = NoEntry] = [n EXCEPT !.lru = l, !.entry = g]
    <3>1. n.entry = f
      BY <1>1 DEF MemType, Redundant
    <3> QED OBVIOUS
  <2>3. EntryOf(w) = mem.entry[k]
    BY DEF EntryOf
  <2> QED BY <2>1, <2>2, <2>3 DEF Aborted
<1> HIDE DEF k
<1>3. c \in DirType /\ SameJournal(disk, c) /\ c.clean = disk.clean /\ c.dirty = [disk.dirty EXCEPT ![k] = NoVersion]
  BY <1>1 DEF DirType, SameJournal
<1>3a. LeftBy(disk, c, k)
  <2>1. c.left = [disk.left EXCEPT ![k] = NoVersion] /\ c.spoilt = disk.spoilt
    BY <1>1 DEF DirType
  <2> QED BY <1>1, <2>1 DEF LeftBy, DirType
<1>4. e \in EntryType /\ e.len = mem.entry[k].len /\ e.readable = mem.entry[k].readable
  BY <1>1 DEF MemType, EntryType
<1>5. f \in [Keys -> EntryType] /\ f = [mem.entry EXCEPT ![k].editor = Nobody]
  BY <1>1, <1>4 DEF MemType
<1>6. e.len \in {0, 1} /\ e.readable \in BOOLEAN
  BY <1>4 DEF EntryType
<1> HIDE DEF c, e, f
<1>7. n \in MemType /\ Alike([mem EXCEPT !.entry = f], n)
  <2>1. [mem EXCEPT !.entry = f] \in MemType
    BY <1>1, <1>5 DEF MemType
  <2> QED BY <2>1, CounterFacts
<1>8. /\ n.initialized = mem.initialized /\ n.lru = mem.lru /\ n.entry = f /\ n.buffer = mem.buffer
      /\ n.journalWriter = mem.journalWriter /\ n.size = mem.size /\ n.rebuildFailed = mem.rebuildFailed
  BY <1>1, <1>7 DEF Alike, MemType
<1> HIDE DEF n
<1>9. r1 \in MemType /\ Logged(n, r1, Line("CLEAN", k, e.len))
  BY <1>1, <1>6, <1>7, LineFacts, LogFacts
<1>10. l \in Seq(Keys) /\ LosesKey(mem.lru, l, k)
  BY <1>1, <1>8, WithoutFacts DEF MemType
<1>11. g \in [Keys -> EntryType] /\ g = [mem.entry EXCEPT ![k] = NoEntry]
  BY <1>1, <1>5, <1>8, EmptyEntry DEF MemType
<1> HIDE DEF l, g
<1> DEFINE q == [n EXCEPT !.lru = l, !.entry = g]
<1>12. /\ q \in MemType /\ q.initialized = mem.initialized /\ q.lru = l /\ q.entry = g
       /\ q.buffer = mem.buffer /\ q.journalWriter = mem.journalWriter /\ q.size = mem.size
       /\ q.rebuildFailed = mem.rebuildFailed
  BY <1>7, <1>8, <1>10, <1>11 DEF MemType
<1>13. r2 \in MemType /\ Logged(q, r2, Line("REMOVE", k, 0))
  <2> HIDE DEF q
  <2>1. Log(q, Line("REMOVE", k, 0)) \in MemType /\ Logged(q, Log(q, Line("REMOVE", k, 0)), Line("REMOVE", k, 0))
    BY <1>1, <1>12, LineFacts, LogFacts
  <2> QED BY <2>1 DEF q
<1> HIDE DEF q, r1, r2
<1>14. CASE e.readable = TRUE
  <2>1. Aborted(w) = [d |-> c, m |-> r1]
    BY <1>2, <1>14
  <2>2. GivenUp(Now, [d |-> c, m |-> r1], k)
    BY <1>3, <1>3a, <1>4, <1>5, <1>8, <1>9, <1>14 DEF GivenUp, Now, Logged, SameJournal
  <2> QED BY <1>3, <1>9, <2>1, <2>2 DEF k
<1>15. CASE e.readable = FALSE
  <2>1. Aborted(w) = [d |-> c, m |-> r2]
    BY <1>2, <1>15
  <2>2. GivenUp(Now, [d |-> c, m |-> r2], k)
    BY <1>3, <1>3a, <1>4, <1>10, <1>11, <1>12, <1>13, <1>15 DEF GivenUp, Now, Logged, SameJournal
  <2> QED BY <1>3, <1>13, <2>1, <2>2 DEF k
<1> QED BY <1>6, <1>14, <1>15

LEMMA AbortEffect ==
  ASSUME Types, NEW w \in Writers, writer[w].pc # "idle", writer[w].own = <<>>,
         FinishEdit(Aborted(w))
  PROVE  /\ disk' \in DirType /\ mem' \in MemType /\ disk'.journal.app = disk.journal.app
         /\ count' \in CountType /\ count'.stores = count.stores /\ count'.events >= count.events
         /\ \E d \in DirType, m \in MemType :
              /\ GivenUp(Now, [d |-> d, m |-> m], writer[w].key)
              /\ Flushed([d |-> d, m |-> m], Then)
<1> DEFINE t == Aborted(w)
<1>1. /\ t.d \in DirType /\ t.m \in MemType /\ GivenUp(Now, t, writer[w].key)
      /\ t = [d |-> t.d, m |-> t.m]
  BY AbortedFacts
<1> HIDE DEF t
<1>2. FinishEdit([d |-> t.d, m |-> t.m])
  BY <1>1 DEF t
<1>3. /\ disk' \in DirType /\ mem' \in MemType /\ Flushed([d |-> t.d, m |-> t.m], Then)
      /\ disk'.journal.app = t.d.journal.app
      /\ count' \in CountType /\ count'.stores = count.stores /\ count'.events >= count.events
  BY <1>1, <1>2, FinishEditFacts DEF Types
<1>4. t.d.journal = disk.journal
  BY <1>1 DEF GivenUp, SameJournal, Now
<1> QED BY <1>1, <1>3, <1>4

\* t is s after the entry of k became readable.
Opened(s, t, k) ==
  /\ t.d = s.d
  /\ t.m.initialized = s.m.initialized /\ t.m.lru = s.m.lru
  /\ t.m.entry = [s.m.entry EXCEPT ![k].editor = Nobody, ![k].readable = TRUE]
  /\ t.m.buffer = IF s.m.journalWriter = "file"
                  THEN Append(s.m.buffer, Line("CLEAN", k, s.m.entry[k].len)) ELSE s.m.buffer
  /\ t.m.journalWriter = s.m.journalWriter /\ t.m.size = s.m.size
  /\ t.m.rebuildFailed = s.m.rebuildFailed

LEMMA PublishEffect ==
  ASSUME Types, NEW w \in Writers, writer[w].own = <<>>, publish(w)
  PROVE  /\ disk' \in DirType /\ mem' \in MemType /\ disk'.journal.app = disk.journal.app
         /\ count' \in CountType /\ count'.stores = count.stores /\ count'.events >= count.events
         /\ \E m \in MemType :
              /\ Opened(Now, [d |-> disk, m |-> m], writer[w].key)
              /\ Flushed([d |-> disk, m |-> m], Then)
<1> DEFINE k == writer[w].key
           e == [mem.entry[k] EXCEPT !.editor = Nobody, !.readable = TRUE]
           f == [mem.entry EXCEPT ![k] = e]
           n == Redundant([mem EXCEPT !.entry = f])
           r == Log(n, Line("CLEAN", k, e.len))
<1>1. k \in Keys /\ disk \in DirType /\ mem \in MemType /\ count \in CountType
  BY DEF Types, publish
<1>2. FinishEdit([d |-> disk, m |-> r])
  <2>1. [mem EXCEPT !.entry[k] = e] = [mem EXCEPT !.entry = f]
    BY <1>1 DEF MemType
  <2>2. EntryOf(w) = mem.entry[k]
    BY DEF EntryOf
  <2> QED BY <2>1, <2>2 DEF publish
<1> HIDE DEF k
<1>3. e \in EntryType /\ e.len = mem.entry[k].len
  BY <1>1 DEF MemType, EntryType
<1>4. f \in [Keys -> EntryType] /\ f = [mem.entry EXCEPT ![k].editor = Nobody, ![k].readable = TRUE]
  BY <1>1, <1>3 DEF MemType
<1>5. e.len \in {0, 1}
  BY <1>3 DEF EntryType
<1> HIDE DEF e, f
<1>6. n \in MemType /\ Alike([mem EXCEPT !.entry = f], n)
  <2>1. [mem EXCEPT !.entry = f] \in MemType
    BY <1>1, <1>4 DEF MemType
  <2> QED BY <2>1, CounterFacts
<1>7. /\ n.initialized = mem.initialized /\ n.lru = mem.lru /\ n.entry = f /\ n.buffer = mem.buffer
      /\ n.journalWriter = mem.journalWriter /\ n.size = mem.size /\ n.rebuildFailed = mem.rebuildFailed
  BY <1>1, <1>6 DEF Alike, MemType
<1> HIDE DEF n
<1>8. r \in MemType /\ Logged(n, r, Line("CLEAN", k, e.len))
  BY <1>1, <1>5, <1>6, LineFacts, LogFacts
<1> HIDE DEF r
<1>9. Opened(Now, [d |-> disk, m |-> r], k)
  BY <1>3, <1>4, <1>7, <1>8 DEF Opened, Logged, Now
<1>10. /\ disk' \in DirType /\ mem' \in MemType /\ Flushed([d |-> disk, m |-> r], Then)
       /\ disk'.journal.app = disk.journal.app
       /\ count' \in CountType /\ count'.stores = count.stores /\ count'.events >= count.events
  BY <1>1, <1>2, <1>8, FinishEditFacts
<1> QED BY <1>8, <1>9, <1>10 DEF k

\* t is s after writer w started to edit k: DIRTY is in the journal.
Started(s, t, k, w) ==
  /\ s.m.journalWriter = "file" /\ s.m.entry[k].editor = Nobody
  /\ t.d.journal = [app |-> s.d.journal.app,
                    lines |-> s.d.journal.lines \o Append(s.m.buffer, Line("DIRTY", k, 0))]
  /\ t.d.backup = s.d.backup /\ t.d.temp = s.d.temp /\ t.d.clean = s.d.clean /\ t.d.dirty = s.d.dirty
  /\ SameLeft(s.d, t.d)
  /\ t.m.initialized = s.m.initialized /\ t.m.journalWriter = "file" /\ t.m.buffer = <<>>
  /\ t.m.size = s.m.size /\ t.m.rebuildFailed = s.m.rebuildFailed
  /\ Distinct(s.m.lru) => Distinct(t.m.lru)
  /\ Distinct(s.m.lru) => \A x \in Keys : Contains(t.m.lru, x) <=> Contains(s.m.lru, x) \/ x = k
  /\ \A x \in Keys \ {k} : t.m.entry[x] = s.m.entry[x]
  /\ t.m.entry[k].editor = w /\ t.m.entry[k].readable = s.m.entry[k].readable
  /\ t.m.entry[k].len = s.m.entry[k].len

LEMMA EditEffect ==
  ASSUME Types, Distinct(mem.lru), Locked, NEW w \in Writers, NEW k \in Keys, edit(w, k)
  PROVE  /\ disk' \in DirType /\ mem' \in MemType /\ disk'.journal.app = disk.journal.app
         /\ \/ Looked(Now, Then, k) /\ writer' = writer
            \/ /\ Started(Now, Then, k, w)
               /\ writer' = [writer EXCEPT ![w] = [pc |-> "sink", key |-> k, ver |-> count.stores + 1,
                                                   sink |-> FALSE, own |-> <<>>]]
<1> DEFINE v == count.stores + 1
           m == Touch(mem, k)
           line == Line("DIRTY", k, 0)
           n == Log(m, line)
<1>1. disk \in DirType /\ mem \in MemType /\ v \in Versions
  BY SpendStores DEF Types, edit
<1>2. /\ m \in MemType /\ m = [mem EXCEPT !.lru = m.lru] /\ SameKeys(mem.lru, m.lru)
  BY <1>1, TouchFacts
<1>3. \/ m.entry[k].editor # Nobody /\ mem' = m /\ UNCHANGED <<disk, writer>>
      \/ /\ m.trimFailed \/ m.rebuildFailed
         /\ mem' = [m EXCEPT !.cleanup = TRUE] /\ UNCHANGED <<disk, writer>>
      \/ /\ m.entry[k].editor = Nobody /\ ~m.rebuildFailed
         /\ \E s \in Flush([d |-> disk, m |-> n], FALSE) :
               /\ disk' = s.d
               /\ IF s.m.journalWriter = "bad"
                  THEN mem' = s.m /\ UNCHANGED writer
                  ELSE LET q == IF Contains(s.m.lru, k) THEN s.m
                                ELSE [s.m EXCEPT !.lru = Append(@, k), !.entry[k].id = v]
                       IN /\ mem' = [q EXCEPT !.entry[k].editor = w]
                          /\ writer' = [writer EXCEPT ![w] =
                               [pc |-> "sink", key |-> k, ver |-> v, sink |-> FALSE, own |-> <<>>]]
  BY DEF edit
<1> HIDE DEF m, v
<1>4. /\ m.initialized = mem.initialized /\ m.entry = mem.entry /\ m.buffer = mem.buffer
      /\ m.journalWriter = mem.journalWriter /\ m.size = mem.size /\ m.rebuildFailed = mem.rebuildFailed
  BY <1>2 DEF MemType
<1>5. ASSUME mem' \in MemType, Alike(m, mem'), disk' = disk, writer' = writer
      PROVE  Looked(Now, Then, k)
  BY <1>2, <1>4, <1>5 DEF Looked, Now, Then, Alike
<1>6. CASE mem' = m /\ UNCHANGED <<disk, writer>>
  BY <1>1, <1>2, <1>5, <1>6 DEF Alike
<1>7. CASE mem' = [m EXCEPT !.cleanup = TRUE] /\ UNCHANGED <<disk, writer>>
  <2>1. mem' \in MemType /\ Alike(m, mem')
    BY <1>2, <1>7 DEF MemType, Alike
  <2> QED BY <1>1, <1>5, <1>7, <2>1
<1>8. ASSUME m.entry[k].editor = Nobody, ~m.rebuildFailed,
             NEW s \in Flush([d |-> disk, m |-> n], FALSE),
             disk' = s.d,
             IF s.m.journalWriter = "bad"
                  THEN mem' = s.m /\ UNCHANGED writer
                  ELSE LET q == IF Contains(s.m.lru, k) THEN s.m
                                ELSE [s.m EXCEPT !.lru = Append(@, k), !.entry[k].id = v]
                       IN /\ mem' = [q EXCEPT !.entry[k].editor = w]
                          /\ writer' = [writer EXCEPT ![w] =
                               [pc |-> "sink", key |-> k, ver |-> v, sink |-> FALSE, own |-> <<>>]]
      PROVE  /\ disk' \in DirType /\ mem' \in MemType /\ disk'.journal.app = disk.journal.app
             /\ \/ Looked(Now, Then, k) /\ writer' = writer
                \/ /\ Started(Now, Then, k, w)
                   /\ writer' = [writer EXCEPT ![w] =
                               [pc |-> "sink", key |-> k, ver |-> v, sink |-> FALSE, own |-> <<>>]]
  <2>0. n \in MemType /\ Logged(m, n, line)
    BY <1>2, LineFacts, LogFacts
  <2> HIDE DEF n, line
  <2>1. /\ s.d \in DirType /\ s.m \in MemType /\ s = [d |-> s.d, m |-> s.m]
        /\ Flushed([d |-> disk, m |-> n], s)
        /\ s.m.journalWriter = n.journalWriter /\ s.d.journal.app = disk.journal.app
    BY <1>1, <2>0, FlushFacts
  <2>2. n.journalWriter = mem.journalWriter /\ mem.journalWriter \in {"file", "bad"}
    <3>1. mem.initialized = TRUE
      BY <1>1 DEF edit, Ready, MemType
    <3>2. mem.journalWriter # "none" /\ mem.journalWriter # "blackhole"
      BY <1>4, <1>8, <3>1 DEF Locked, Loaded
    <3> QED BY <1>1, <1>4, <2>0, <3>2 DEF Logged, MemType
  <2>3. CASE mem.journalWriter = "bad"
    <3>1. s.d = disk /\ Alike(n, s.m)
      BY <2>1, <2>2, <2>3 DEF Flushed
    <3>2. Alike(m, s.m)
      BY <1>4, <2>0, <2>3, <3>1 DEF Alike, Logged
    <3>3. mem' = s.m /\ writer' = writer
      BY <1>8, <2>1, <2>2, <2>3
    <3> QED BY <1>1, <1>5, <1>8, <2>1, <3>1, <3>2, <3>3
  <2>4. CASE mem.journalWriter = "file"
    <3> DEFINE q == IF Contains(s.m.lru, k) THEN s.m
                    ELSE [s.m EXCEPT !.lru = Append(@, k), !.entry[k].id = v]
    <3>1. /\ mem' = [q EXCEPT !.entry[k].editor = w]
          /\ writer' = [writer EXCEPT ![w] =
                               [pc |-> "sink", key |-> k, ver |-> v, sink |-> FALSE, own |-> <<>>]]
      BY <1>8, <2>1, <2>2, <2>4
    <3>2. /\ s.d.journal = [app |-> disk.journal.app, lines |-> disk.journal.lines \o n.buffer]
          /\ s.d.backup = disk.backup /\ s.d.temp = disk.temp
          /\ s.d.clean = disk.clean /\ s.d.dirty = disk.dirty /\ SameLeft(disk, s.d)
          /\ s.m.initialized = n.initialized /\ s.m.lru = n.lru /\ s.m.entry = n.entry
          /\ s.m.buffer = <<>> /\ s.m.journalWriter = "file"
          /\ s.m.size = n.size /\ s.m.rebuildFailed = n.rebuildFailed
      BY <2>1, <2>2, <2>4 DEF Flushed
    <3>3. /\ n.initialized = mem.initialized /\ n.lru = m.lru /\ n.entry = mem.entry
          /\ n.buffer = Append(mem.buffer, line) /\ n.size = mem.size
          /\ n.rebuildFailed = mem.rebuildFailed
      BY <1>4, <2>0, <2>4 DEF Logged
    <3>4. /\ q \in MemType
          /\ q.initialized = mem.initialized /\ q.buffer = <<>> /\ q.journalWriter = "file"
          /\ q.size = mem.size /\ q.rebuildFailed = mem.rebuildFailed
          /\ Distinct(q.lru)
          /\ \A x \in Keys : Contains(q.lru, x) <=> Contains(mem.lru, x) \/ x = k
          /\ \A x \in Keys \ {k} : q.entry[x] = mem.entry[x]
          /\ q.entry[k].readable = mem.entry[k].readable /\ q.entry[k].len = mem.entry[k].len
      <4>1. CASE Contains(s.m.lru, k)
        <5>1. q = s.m
          BY <4>1
        <5>2. Distinct(s.m.lru) /\ \A x \in Keys : Contains(s.m.lru, x) <=> Contains(mem.lru, x)
          BY <1>2, <3>2, <3>3 DEF SameKeys
        <5> HIDE DEF q
        <5> QED BY <2>1, <3>2, <3>3, <4>1, <5>1, <5>2
      <4>2. CASE ~Contains(s.m.lru, k)
        <5> DEFINE l == Append(s.m.lru, k)
                   f == [s.m.entry EXCEPT ![k].id = v]
        <5>1. q = [s.m EXCEPT !.lru = l, !.entry = f]
          BY <2>1, <4>2 DEF MemType
        <5>2. s.m.lru \in Seq(Keys) /\ Distinct(s.m.lru) /\ \A x \in Keys : Contains(s.m.lru, x) <=> Contains(mem.lru, x)
          BY <1>2, <2>1, <3>2, <3>3 DEF SameKeys, MemType
        <5>3. l \in Seq(Keys) /\ Distinct(l) /\ \A x \in Keys : Contains(l, x) <=> Contains(s.m.lru, x) \/ x = k
          BY <4>2, <5>2, AppendFacts
        <5>4. /\ f \in [Keys -> EntryType] /\ \A x \in Keys \ {k} : f[x] = s.m.entry[x]
              /\ f[k].readable = s.m.entry[k].readable /\ f[k].len = s.m.entry[k].len
          <6>1. s.m.entry \in [Keys -> EntryType] /\ v \in Versions \cup {0}
            BY <1>1, <2>1 DEF MemType
          <6> HIDE DEF v
          <6>2. [s.m.entry[k] EXCEPT !.id = v] \in EntryType
            BY <6>1 DEF EntryType
          <6>3. f = [s.m.entry EXCEPT ![k] = [s.m.entry[k] EXCEPT !.id = v]]
            OBVIOUS
          <6> QED BY <6>1, <6>2, <6>3 DEF EntryType
        <5> HIDE DEF q, l, f
        <5>5. /\ q \in MemType /\ q.initialized = s.m.initialized /\ q.lru = l /\ q.entry = f
              /\ q.buffer = s.m.buffer /\ q.journalWriter = s.m.journalWriter /\ q.size = s.m.size
              /\ q.rebuildFailed = s.m.rebuildFailed
          BY <2>1, <5>1, <5>3, <5>4 DEF MemType
        <5> QED BY <3>2, <3>3, <5>2, <5>3, <5>4, <5>5
      <4> QED BY <4>1, <4>2
    <3> HIDE DEF q
    <3> DEFINE g == [q.entry EXCEPT ![k].editor = w]
    <3>5. mem' = [q EXCEPT !.entry = g]
      BY <3>1, <3>4 DEF MemType
    <3>6. /\ g \in [Keys -> EntryType] /\ \A x \in Keys \ {k} : g[x] = q.entry[x]
          /\ g[k].readable = q.entry[k].readable /\ g[k].len = q.entry[k].len /\ g[k].editor = w
      BY <3>4 DEF MemType, EntryType
    <3> HIDE DEF g
    <3>7. /\ mem' \in MemType /\ mem'.initialized = q.initialized /\ mem'.lru = q.lru /\ mem'.entry = g
          /\ mem'.buffer = q.buffer /\ mem'.journalWriter = q.journalWriter /\ mem'.size = q.size
          /\ mem'.rebuildFailed = q.rebuildFailed
      BY <3>4, <3>5, <3>6 DEF MemType
    <3>8. disk'.journal = [app |-> disk.journal.app, lines |-> disk.journal.lines \o Append(mem.buffer, Line("DIRTY", k, 0))]
      BY <1>8, <3>2, <3>3 DEF line
    <3>9. Started(Now, Then, k, w)
      BY <1>4, <1>8, <2>4, <3>2, <3>4, <3>6, <3>7, <3>8 DEF Started, Now, Then
    <3> QED BY <1>8, <2>1, <3>1, <3>7, <3>9
  <2> QED BY <2>2, <2>3, <2>4
<1> QED BY <1>3, <1>6, <1>7, <1>8 DEF v

\* m is the cache s after DIRTY was written for k.
Dirtied(s, m, k) ==
  /\ m.initialized = s.m.initialized /\ SameKeys(s.m.lru, m.lru) /\ m.entry = s.m.entry
  /\ s.m.journalWriter = "file" /\ m.journalWriter = "file"
  /\ m.buffer = Append(s.m.buffer, Line("DIRTY", k, 0))
  /\ m.size = s.m.size /\ m.rebuildFailed = s.m.rebuildFailed

LEMMA EditFailsEffect ==
  ASSUME Types, Distinct(mem.lru), NEW w \in Writers, NEW k \in Keys, editFails(w, k)
  PROVE  /\ disk' \in DirType /\ mem' \in MemType /\ disk'.journal.app = disk.journal.app
         /\ count' \in CountType /\ count'.stores = count.stores /\ count'.events >= count.events
         /\ \E m \in MemType : Dirtied(Now, m, k) /\ Flushed([d |-> disk, m |-> m], Then)
<1> DEFINE m == Touch(mem, k)
           n == Log(m, Line("DIRTY", k, 0))
<1>1. disk \in DirType /\ mem \in MemType /\ count \in CountType
  BY DEF Types
<1>2. m \in MemType /\ m = [mem EXCEPT !.lru = m.lru] /\ SameKeys(mem.lru, m.lru)
  BY <1>1, TouchFacts
<1>3. /\ MayFail(TRUE) /\ m.journalWriter = "file"
      /\ \E s \in Flush([d |-> disk, m |-> n], TRUE) : Become(s)
  BY DEF editFails
<1> HIDE DEF m
<1>4. n \in MemType /\ Logged(m, n, Line("DIRTY", k, 0))
  BY <1>2, LineFacts, LogFacts
<1> HIDE DEF n
<1>5. PICK s \in Flush([d |-> disk, m |-> n], TRUE) : Become(s)
  BY <1>3
<1>6. /\ s.d \in DirType /\ s.m \in MemType /\ Flushed([d |-> disk, m |-> n], s)
      /\ s.d.journal.app = disk.journal.app
  BY <1>1, <1>4, FlushFacts
<1>7. disk' = s.d /\ mem' = s.m
  BY <1>5 DEF Become
<1>8. Flushed([d |-> disk, m |-> n], Then)
  BY <1>6, <1>7 DEF Flushed, Then
<1>9. /\ m.initialized = mem.initialized /\ m.entry = mem.entry /\ m.buffer = mem.buffer
      /\ m.journalWriter = mem.journalWriter /\ m.size = mem.size /\ m.rebuildFailed = mem.rebuildFailed
  BY <1>1, <1>2 DEF MemType
<1>10. Dirtied(Now, n, k)
  BY <1>2, <1>3, <1>4, <1>9 DEF Dirtied, Now, Logged
<1>11. count' \in CountType /\ count'.stores = count.stores /\ count'.events >= count.events
  BY <1>1, <1>3, MayFailFacts
<1> QED BY <1>4, <1>6, <1>7, <1>8, <1>10, <1>11

\* Writer w goes to pc and the others stay where they are.
Moved(w, pc) ==
  /\ writer' \in [Writers -> WriterType]
  /\ \A x \in Writers \ {w} : writer'[x] = writer[x]
  /\ writer'[w].pc = pc /\ writer'[w].key = writer[w].key /\ writer'[w].ver = writer[w].ver
  /\ writer'[w].own = writer[w].own

LEMMA WriteFailsEffect ==
  ASSUME Types, NEW w \in Writers, writer[w].own = <<>>, writeFails(w)
  PROVE  /\ disk' \in DirType /\ mem' \in MemType /\ Moved(w, "commit") /\ writer'[w].sink = FALSE
         /\ count' \in CountType /\ count'.stores = count.stores /\ count'.events >= count.events
         /\ IF mem.entry[writer[w].key].editor = w THEN Detached(Now, Then, writer[w].key)
            ELSE disk' = disk /\ mem' = mem
<1> DEFINE k == writer[w].key
<1>1. k \in Keys /\ disk \in DirType /\ mem \in MemType /\ writer \in [Writers -> WriterType]
  BY DEF Types, writeFails
<1>2. Current(w) <=> mem.entry[k].editor = w
  BY DEF Current, writeFails
<1>3. Moved(w, "commit") /\ writer'[w].sink = FALSE
  <2> DEFINE e == [writer[w] EXCEPT !.pc = "commit", !.sink = FALSE, !.own = <<>>]
  <2>1. writer' = [writer EXCEPT ![w] = e]
    BY <1>1 DEF writeFails
  <2>2. /\ e \in WriterType /\ e.pc = "commit" /\ e.sink = FALSE /\ e.own = <<>>
        /\ e.key = writer[w].key /\ e.ver = writer[w].ver
    <3>1. writer[w] \in WriterType /\ <<>> \in Seq(EntryType)
      BY <1>1
    <3> QED BY <3>1 DEF WriterType
  <2> HIDE DEF e
  <2> QED BY <1>1, <2>1, <2>2 DEF Moved
<1>4. count' \in CountType /\ count'.stores = count.stores /\ count'.events >= count.events
  BY MayFailFacts DEF Types, writeFails
<1>5. CASE mem.entry[k].editor = w
  <2>0. PICK kept \in BOOLEAN : Become(Detach(Now, k, kept))
    BY <1>2, <1>5 DEF writeFails
  <2> DEFINE t == Detach(Now, k, kept)
  <2>1. t.d \in DirType /\ t.m \in MemType /\ Detached(Now, t, k)
    BY <1>1, DetachFacts DEF Now
  <2>2. disk' = t.d /\ mem' = t.m
    BY <2>0 DEF Become
  <2> HIDE DEF t
  <2>3. Detached(Now, Then, k)
    BY <2>1, <2>2 DEF Detached, Then
  <2> QED BY <1>3, <1>4, <1>5, <2>1, <2>2, <2>3
<1>6. CASE mem.entry[k].editor # w
  <2>1. disk' = disk /\ mem' = mem
    BY <1>2, <1>6 DEF writeFails
  <2> QED BY <1>1, <1>3, <1>4, <1>6, <2>1
<1> QED BY <1>5, <1>6

\* t is s after the temporary file of k became its clean file.
Renamed(s, t, k) ==
  /\ SameJournal(s.d, t.d)
  /\ t.d.clean = [s.d.clean EXCEPT ![k] = TempFile(s.d, k)]
  /\ t.d.dirty = [s.d.dirty EXCEPT ![k] = NoVersion]
  /\ t.d.left = [s.d.left EXCEPT ![k] = NoVersion] /\ t.d.spoilt = s.d.spoilt
  /\ t.m.initialized = s.m.initialized /\ t.m.lru = s.m.lru /\ t.m.buffer = s.m.buffer
  /\ t.m.entry = [s.m.entry EXCEPT ![k].len = 1]
  /\ t.m.journalWriter = s.m.journalWriter /\ t.m.size = s.m.size - s.m.entry[k].len + 1
  /\ t.m.rebuildFailed = s.m.rebuildFailed

LEMMA CommitEffect ==
  ASSUME Types, NEW w \in Writers, writer[w].own = <<>>, commit(w)
  PROVE  LET k == writer[w].key IN
         /\ disk' \in DirType /\ mem' \in MemType /\ disk'.journal.app = disk.journal.app
         /\ count' \in CountType /\ count'.stores = count.stores /\ count'.events >= count.events
         /\ shown' \subseteq Versions
         /\ \/ /\ mem.entry[k].editor # w /\ disk' = disk /\ mem' = mem /\ lock' = lock
               /\ Moved(w, "close") /\ writer'[w].sink = writer[w].sink
            \/ /\ mem.entry[k].editor = w /\ mem.entry[k].readable = FALSE /\ TempFile(disk, k) = NoVersion
               /\ FinishEdit(Aborted(w)) /\ lock' = lock
               /\ Moved(w, "close") /\ writer'[w].sink = writer[w].sink
            \/ /\ mem.entry[k].editor = w /\ TempFile(disk, k) # NoVersion
               /\ lock' = <<"publish">> /\ Renamed(Now, Then, k)
               /\ Moved(w, "publish") /\ writer'[w].sink = writer[w].sink
            \/ /\ mem.entry[k].editor = w /\ TempFile(disk, k) = NoVersion /\ mem.entry[k].readable = TRUE
               /\ lock' = <<"publish">> /\ disk' = disk /\ mem' = mem
               /\ Moved(w, "publish") /\ writer'[w].sink = writer[w].sink
<1> DEFINE k == writer[w].key
           e == mem.entry[k]
           v == TempFile(disk, k)
<1>1. /\ k \in Keys /\ disk \in DirType /\ mem \in MemType /\ writer \in [Writers -> WriterType]
      /\ count \in CountType /\ writer[w].pc = "commit"
  BY DEF Types, commit
<1>2. (Current(w) <=> mem.entry[k].editor = w) /\ EntryOf(w) = e
  BY <1>1 DEF Current, EntryOf
<1>3. e \in EntryType /\ v \in Versions \cup {NoVersion}
  BY <1>1 DEF MemType, DirType, TempFile
<1>4. ASSUME NEW pc \in {"close", "publish"}, writer' = [writer EXCEPT ![w].pc = pc]
      PROVE  Moved(w, pc) /\ writer'[w].sink = writer[w].sink
  <2> DEFINE s == [writer[w] EXCEPT !.pc = pc]
  <2>1. writer' = [writer EXCEPT ![w] = s]
    BY <1>4
  <2>2. /\ s \in WriterType /\ s.pc = pc /\ s.sink = writer[w].sink /\ s.own = writer[w].own
        /\ s.key = writer[w].key /\ s.ver = writer[w].ver
    <3>1. writer[w] \in WriterType
      BY <1>1
    <3> QED BY <3>1 DEF WriterType
  <2> HIDE DEF s
  <2> QED BY <1>1, <2>1, <2>2 DEF Moved
<1>5. ASSUME NEW pc \in {"close", "publish"}, writer' = [writer EXCEPT ![w].pc = pc, ![w].own = <<>>]
      PROVE  writer' = [writer EXCEPT ![w].pc = pc]
  <2>1. writer[w] \in WriterType
    BY <1>1
  <2>2. [writer[w] EXCEPT !.pc = pc, !.own = <<>>] = [writer[w] EXCEPT !.pc = pc]
    BY <2>1 DEF WriterType
  <2>3. writer' = [writer EXCEPT ![w] = [writer[w] EXCEPT !.pc = pc, !.own = <<>>]]
    BY <1>1, <1>5
  <2>4. [writer EXCEPT ![w].pc = pc] = [writer EXCEPT ![w] = [writer[w] EXCEPT !.pc = pc]]
    BY <1>1
  <2> QED BY <2>2, <2>3, <2>4
<1>6. CASE ~Current(w) /\ Goto(w, "close") /\ UNCHANGED <<disk, mem, lock, count, shown>>
  <2>1. Moved(w, "close") /\ writer'[w].sink = writer[w].sink
    BY <1>4, <1>6 DEF Goto
  <2>2. shown' \subseteq Versions
    BY <1>6 DEF Types
  <2>3. count'.stores = count.stores /\ count'.events >= count.events
    BY <1>1, <1>6 DEF CountType
  <2> QED BY <1>1, <1>2, <1>6, <2>1, <2>2, <2>3
<1>7. CASE /\ Current(w) /\ ~e.readable /\ v = NoVersion
           /\ FinishEdit(Aborted(w))
           /\ writer' = [writer EXCEPT ![w].pc = "close", ![w].own = <<>>]
           /\ UNCHANGED <<lock, shown>>
  <2>1. Moved(w, "close") /\ writer'[w].sink = writer[w].sink
    BY <1>4, <1>5, <1>7
  <2>2. shown' \subseteq Versions
    BY <1>7 DEF Types
  <2>3. /\ disk' \in DirType /\ mem' \in MemType /\ disk'.journal.app = disk.journal.app
        /\ count' \in CountType /\ count'.stores = count.stores /\ count'.events >= count.events
    BY <1>1, <1>7, AbortEffect
  <2>4. e.readable = FALSE
    BY <1>3, <1>7 DEF EntryType
  <2> QED BY <1>2, <1>7, <2>1, <2>2, <2>3, <2>4
<1>8. CASE /\ Current(w) /\ v # NoVersion
           /\ lock' = <<"publish">> /\ UNCHANGED count
           /\ LET f == [e EXCEPT !.len = 1]
              IN /\ disk' = [disk EXCEPT !.clean[k] = v, !.dirty[k] = NoVersion, !.left[k] = NoVersion]
                 /\ writer' = [writer EXCEPT ![w].pc = "publish", ![w].own = <<>>]
                 /\ mem' = [mem EXCEPT !.size = @ - e.len + 1, !.entry[k] = f]
                 /\ shown' = IF e.readable THEN shown \cup {v} ELSE shown
  <2>1. Moved(w, "publish") /\ writer'[w].sink = writer[w].sink
    BY <1>4, <1>5, <1>8
  <2>2. shown' \subseteq Versions
    BY <1>3, <1>8 DEF Types
  <2>3. count' \in CountType /\ count'.stores = count.stores /\ count'.events >= count.events
    BY <1>1, <1>8 DEF CountType
  <2>4. /\ disk' \in DirType /\ SameJournal(disk, disk')
        /\ disk'.clean = [disk.clean EXCEPT ![k] = v]
        /\ disk'.dirty = [disk.dirty EXCEPT ![k] = NoVersion]
        /\ disk'.left = [disk.left EXCEPT ![k] = NoVersion] /\ disk'.spoilt = disk.spoilt
    <3> HIDE DEF v
    <3> QED BY <1>1, <1>3, <1>8 DEF DirType, SameJournal
  <2> DEFINE g == [mem.entry EXCEPT ![k].len = 1]
             z == mem.size - e.len + 1
  <2>5. g \in [Keys -> EntryType] /\ z \in Int
    <3>1. g \in [Keys -> EntryType]
      BY <1>1 DEF MemType, EntryType
    <3>2. e.len \in Int /\ mem.size \in Int
      BY <1>1, <1>3 DEF MemType, EntryType
    <3> QED BY <3>1, <3>2
  <2>6. mem' = [mem EXCEPT !.size = z, !.entry = g]
    BY <1>1, <1>8 DEF MemType
  <2> HIDE DEF g, z
  <2>7. /\ mem' \in MemType /\ mem'.initialized = mem.initialized /\ mem'.lru = mem.lru
        /\ mem'.buffer = mem.buffer /\ mem'.entry = g /\ mem'.journalWriter = mem.journalWriter
        /\ mem'.size = z /\ mem'.rebuildFailed = mem.rebuildFailed
    BY <1>1, <2>5, <2>6 DEF MemType
  <2>8. Renamed(Now, Then, k)
    BY <2>4, <2>7 DEF Renamed, Now, Then, g, z, SameJournal
  <2> QED BY <1>2, <1>8, <2>1, <2>2, <2>3, <2>4, <2>7, <2>8 DEF SameJournal
<1>9. CASE /\ Current(w) /\ v = NoVersion /\ e.readable
           /\ lock' = <<"publish">> /\ UNCHANGED count
           /\ Goto(w, "publish") /\ UNCHANGED <<disk, mem, shown>>
  <2>1. Moved(w, "publish") /\ writer'[w].sink = writer[w].sink
    BY <1>4, <1>9 DEF Goto
  <2>2. shown' \subseteq Versions
    BY <1>9 DEF Types
  <2>3. count'.stores = count.stores /\ count'.events >= count.events
    BY <1>1, <1>9 DEF CountType
  <2>4. e.readable = TRUE
    BY <1>3, <1>9 DEF EntryType
  <2> QED BY <1>1, <1>2, <1>9, <2>1, <2>2, <2>3, <2>4
<1>10. \/ ~Current(w) /\ Goto(w, "close") /\ UNCHANGED <<disk, mem, lock, count, shown>>
       \/ /\ Current(w) /\ ~e.readable /\ v = NoVersion
          /\ FinishEdit(Aborted(w))
          /\ writer' = [writer EXCEPT ![w].pc = "close", ![w].own = <<>>]
          /\ UNCHANGED <<lock, shown>>
       \/ /\ Current(w) /\ (e.readable \/ v # NoVersion)
          /\ lock' = <<"publish">> /\ UNCHANGED count
          /\ IF v # NoVersion
             THEN LET f == [e EXCEPT !.len = 1]
                  IN /\ disk' = [disk EXCEPT !.clean[k] = v, !.dirty[k] = NoVersion, !.left[k] = NoVersion]
                     /\ writer' = [writer EXCEPT ![w].pc = "publish", ![w].own = <<>>]
                     /\ mem' = [mem EXCEPT !.size = @ - e.len + 1, !.entry[k] = f]
                     /\ shown' = IF e.readable THEN shown \cup {v} ELSE shown
             ELSE Goto(w, "publish") /\ UNCHANGED <<disk, mem, shown>>
  BY <1>1, <1>2 DEF commit
<1> QED BY <1>6, <1>7, <1>8, <1>9, <1>10

-----------------------------------------------------------------------------
(* The invariant. *)

Base == Types /\ Mapped /\ Locked /\ Edits /\ Sized

LEMMA BlankMem == Closed \in MemType
<1>1. [k \in Keys |-> NoEntry] \in [Keys -> EntryType]
  BY EmptyEntry
<1>2. <<>> \in Seq(Keys) /\ <<>> \in Seq(LineType)
  OBVIOUS
<1> HIDE DEF NoEntry
<1> QED BY <1>1, <1>2, Constants DEF Closed, MemType

LEMMA RestingType == Resting \in WriterType
<1>1. <<>> \in Seq(EntryType)
  OBVIOUS
<1> QED BY <1>1 DEF Resting, WriterType

LEMMA NoFileType == NoFile \in FileType
<1>1. <<>> \in Seq(LineType)
  OBVIOUS
<1> QED BY <1>1 DEF NoFile, FileType

LEMMA InitBase == Init => Base
<1> SUFFICES ASSUME Init PROVE Base
  OBVIOUS
<1>1. Types
  <2>1. disk \in DirType /\ disk.journal.app <= app /\ disk.backup.app <= app /\ disk.temp.app <= app
    <3>1. disk \in DirType
      BY NoFileType DEF Init, DirType, NoVersion
    <3> QED BY <3>1 DEF Init, NoFile
  <2>2. mem \in MemType
    BY BlankMem DEF Init
  <2>3. writer \in [Writers -> WriterType] /\ \A w \in Writers : writer[w].pc = "idle"
    BY RestingType DEF Init, Resting
  <2>4. cleaner \in [todo : Seq([key : Keys, id : Versions \cup {0}]), old : Seq(Keys)]
    <3>1. <<>> \in Seq([key : Keys, id : Versions \cup {0}]) /\ <<>> \in Seq(Keys)
      OBVIOUS
    <3> QED BY <3>1 DEF Init
  <2>5. lock \in Seq(Steps)
    BY DEF Init
  <2>6. count \in CountType
    BY Constants DEF Init, CountType
  <2> QED BY <2>1, <2>2, <2>3, <2>4, <2>5, <2>6 DEF Init, Types
<1>2. /\ mem.initialized = FALSE /\ mem.lru = <<>> /\ mem.entry = [k \in Keys |-> NoEntry]
      /\ mem.buffer = <<>> /\ mem.journalWriter = "none" /\ mem.size = 0
  BY DEF Init, Closed
<1>3. Mapped
  BY <1>2 DEF Mapped, Distinct
<1>4. ~Loaded /\ lock = <<>>
  BY <1>2 DEF Init, Loaded, Rebuilding
<1>5. Locked
  BY <1>2, <1>4 DEF Init, Locked, Opening, At, Free
<1>6. \A k \in Keys : mem.entry[k].editor = Nobody /\ mem.entry[k].len = 0
  BY <1>2 DEF NoEntry
<1>7. \A w \in Writers : writer[w].own = <<>> /\ writer[w].pc = "idle"
  BY DEF Init, Resting
<1>8. Edits
  BY <1>2, <1>6, <1>7, Constants DEF Edits
<1>9. Sized
  BY <1>2, <1>6 DEF Sized, SizeOK
<1> QED BY <1>1, <1>3, <1>5, <1>8, <1>9 DEF Base

\* trimToSize finds an entry: the entries take what size says.
LEMMA TrimFinds ==
  ASSUME Base, At("trim"), mem.size > MaxSize
  PROVE  mem.lru # <<>>
<1>1. mem.initialized = TRUE
  <2> SUFFICES ASSUME mem.initialized = FALSE PROVE FALSE
    BY DEF Base, Types, MemType
  <2>1. Opening
    BY DEF Base, Locked
  <2> QED BY <2>1 DEF Opening, Rebuilding, At, Free
<1>2. Taken(mem) > 0
  BY <1>1, Constants DEF Base, Sized, SizeOK, Types, MemType
<1>3. PICK k \in Keys : mem.entry[k].len = 1
  <2> SUFFICES ASSUME {k \in Keys : mem.entry[k].len = 1} = {} PROVE FALSE
    OBVIOUS
  <2>1. Taken(mem) = Cardinality({})
    BY DEF Taken
  <2>2. Cardinality({}) = 0
    BY FS_EmptySet
  <2> QED BY <1>2, <2>1, <2>2
<1>4. Contains(mem.lru, k)
  BY <1>3 DEF Base, Mapped, NoEntry
<1> QED BY <1>4 DEF Contains

\* The files of the directory with one of the journals replaced.
LEMMA SetJournal ==
  ASSUME NEW d \in DirType, NEW f \in FileType
  PROVE  LET e == [d EXCEPT !.journal = f] IN
         /\ e \in DirType /\ e.journal = f /\ e.backup = d.backup /\ e.temp = d.temp
         /\ e.clean = d.clean /\ e.dirty = d.dirty /\ SameLeft(d, e)
BY DEF DirType, SameLeft

LEMMA SetBackup ==
  ASSUME NEW d \in DirType, NEW f \in FileType
  PROVE  LET e == [d EXCEPT !.backup = f] IN
         /\ e \in DirType /\ e.journal = d.journal /\ e.backup = f /\ e.temp = d.temp
         /\ e.clean = d.clean /\ e.dirty = d.dirty /\ SameLeft(d, e)
BY DEF DirType, SameLeft

LEMMA SetTemp ==
  ASSUME NEW d \in DirType, NEW f \in FileType
  PROVE  LET e == [d EXCEPT !.temp = f] IN
         /\ e \in DirType /\ e.journal = d.journal /\ e.backup = d.backup /\ e.temp = f
         /\ e.clean = d.clean /\ e.dirty = d.dirty /\ SameLeft(d, e)
BY DEF DirType, SameLeft

LEMMA SetFile ==
  ASSUME NEW d \in DirType, NEW k \in Keys, NEW v \in Versions \cup {NoVersion}
  PROVE  /\ LET e == [d EXCEPT !.clean[k] = v] IN
            /\ e \in DirType /\ SameJournal(d, e) /\ SameLeft(d, e)
            /\ e.clean = [d.clean EXCEPT ![k] = v] /\ e.dirty = d.dirty
         /\ LET e == [d EXCEPT !.dirty[k] = v] IN
            /\ e \in DirType /\ SameJournal(d, e) /\ SameLeft(d, e)
            /\ e.clean = d.clean /\ e.dirty = [d.dirty EXCEPT ![k] = v]
         /\ LET e == [d EXCEPT !.left[k] = v] IN
            /\ e \in DirType /\ SameJournal(d, e) /\ e.clean = d.clean /\ e.dirty = d.dirty
            /\ e.left = [d.left EXCEPT ![k] = v] /\ e.spoilt = d.spoilt
BY DEF DirType, SameJournal, SameLeft

\* The temporary file of k is created, or deleted.
LEMMA SetTempFile ==
  ASSUME NEW d \in DirType, NEW k \in Keys, NEW v \in Versions \cup {NoVersion},
         NEW b \in SUBSET (Versions \cup {NoVersion})
  PROVE  /\ LET e == [d EXCEPT !.dirty[k] = v, !.left[k] = NoVersion, !.spoilt = b] IN
            /\ e \in DirType /\ SameJournal(d, e) /\ e.clean = d.clean
            /\ e.dirty = [d.dirty EXCEPT ![k] = v] /\ e.left = [d.left EXCEPT ![k] = NoVersion]
            /\ e.spoilt = b
         /\ LET e == [d EXCEPT !.dirty[k] = v, !.left[k] = NoVersion] IN
            /\ e \in DirType /\ SameJournal(d, e) /\ e.clean = d.clean
            /\ e.dirty = [d.dirty EXCEPT ![k] = v] /\ e.left = [d.left EXCEPT ![k] = NoVersion]
            /\ e.spoilt = d.spoilt
BY DEF DirType, SameJournal

\* t is s after writer w created its temporary file, or found no place for it.
LEMMA SinkEffect ==
  ASSUME Types, NEW w \in Writers, newSink(w)
  PROVE  LET k == writer[w].key v == writer[w].ver IN
         /\ disk' \in DirType /\ SameJournal(disk, disk') /\ disk'.clean = disk.clean
         /\ disk.spoilt \subseteq disk'.spoilt
         /\ count' \in CountType /\ count'.stores = count.stores /\ count'.events >= count.events
         /\ k \in Keys /\ v \in Versions /\ writer[w].pc = "sink" /\ Moved(w, "data")
         /\ \/ /\ Current(w) /\ writer'[w].sink = TRUE
               /\ disk'.dirty = [disk.dirty EXCEPT ![k] = v]
               /\ disk'.left = [disk.left EXCEPT ![k] = NoVersion]
            \/ writer'[w].sink = FALSE /\ disk' = disk
<1> DEFINE k == writer[w].key
           v == writer[w].ver
           b == IF disk.left[k] # NoVersion THEN disk.spoilt \cup {v} ELSE disk.spoilt
<1>0. k \in Keys /\ v \in Versions /\ writer[w].pc = "sink" /\ disk \in DirType
  BY DEF newSink, Types
<1>1. PICK bad \in BOOLEAN :
        LET real == Current(w) /\ ~bad
        IN /\ MayFail(bad)
           /\ disk' = IF real THEN [disk EXCEPT !.dirty[k] = v, !.left[k] = NoVersion, !.spoilt = b] ELSE disk
           /\ writer' = [writer EXCEPT ![w].pc = "data", ![w].sink = real]
  BY DEF newSink
<1>2. b \in SUBSET (Versions \cup {NoVersion}) /\ disk.spoilt \subseteq b
  BY <1>0 DEF DirType
<1>3. count' \in CountType /\ count'.stores = count.stores /\ count'.events >= count.events
  BY <1>1, MayFailFacts DEF Types
<1> HIDE DEF b
<1> DEFINE r == Current(w) /\ ~bad
           q == [writer[w] EXCEPT !.pc = "data", !.sink = r]
<1>4. Moved(w, "data") /\ writer'[w].sink = r
  <2>1. writer' = [writer EXCEPT ![w] = q] /\ r \in BOOLEAN
    BY <1>1 DEF Types
  <2> HIDE DEF r
  <2>2. /\ q \in WriterType /\ q.pc = "data" /\ q.sink = r /\ q.own = writer[w].own
        /\ q.key = writer[w].key /\ q.ver = writer[w].ver
    <3>1. writer[w] \in WriterType
      BY DEF Types
    <3> QED BY <2>1, <3>1 DEF WriterType
  <2> HIDE DEF q
  <2> QED BY <2>1, <2>2 DEF Types, Moved
<1>5. CASE r
  <2>1. disk' = [disk EXCEPT !.dirty[k] = v, !.left[k] = NoVersion, !.spoilt = b]
    BY <1>1, <1>5
  <2> HIDE DEF k, v
  <2>2. /\ disk' \in DirType /\ SameJournal(disk, disk') /\ disk'.clean = disk.clean
        /\ disk'.dirty = [disk.dirty EXCEPT ![k] = v] /\ disk'.left = [disk.left EXCEPT ![k] = NoVersion]
        /\ disk'.spoilt = b
    <3>1. k \in Keys /\ v \in Versions \cup {NoVersion} /\ disk \in DirType
      BY <1>0 DEF k, v
    <3> QED BY <3>1, <1>2, <2>1 DEF DirType, SameJournal
  <2> QED BY <1>0, <1>2, <1>3, <1>4, <1>5, <2>2 DEF k, v
<1>6. CASE ~r
  <2>1. disk' = disk
    BY <1>1, <1>6
  <2> QED BY <1>0, <1>3, <1>4, <1>6, <2>1 DEF SameJournal
<1> QED BY <1>5, <1>6

\* The edit of k stays in its place without anybody to end it.
StuckBy(m, n, k) ==
  /\ n.initialized = m.initialized /\ n.lru = m.lru /\ n.buffer = m.buffer
  /\ n.journalWriter = m.journalWriter /\ n.size = m.size /\ n.rebuildFailed = m.rebuildFailed
  /\ n.entry = [m.entry EXCEPT ![k].editor = Stuck]

LEMMA AbortFailsEffect ==
  ASSUME Types, NEW w \in Writers, writer[w].own = <<>>, abortFails(w)
  PROVE  /\ writer[w].key \in Keys /\ mem.entry[writer[w].key].editor = w
         /\ mem' \in MemType /\ StuckBy(mem, mem', writer[w].key)
         /\ count' \in CountType /\ count'.stores = count.stores /\ count'.events >= count.events
         /\ writer[w].pc = "abort" /\ writer' = [writer EXCEPT ![w] = Resting]
         /\ UNCHANGED <<disk, body, lock, cleaner, app, shown>>
<1> DEFINE k == writer[w].key
           f == [mem.entry EXCEPT ![k].editor = Stuck]
<1>1. k \in Keys /\ mem \in MemType /\ writer[w].pc = "abort"
  BY DEF Types, abortFails
<1>2. mem.entry[k].editor = w
  BY DEF abortFails, Current
<1>3. f \in [Keys -> EntryType]
  BY <1>1 DEF MemType, EntryType
<1>4. mem' = [mem EXCEPT !.entry = f]
  BY <1>1 DEF abortFails, MemType
<1> HIDE DEF f
<1>5. /\ mem' \in MemType /\ mem'.initialized = mem.initialized /\ mem'.lru = mem.lru
      /\ mem'.buffer = mem.buffer /\ mem'.entry = f /\ mem'.journalWriter = mem.journalWriter
      /\ mem'.size = mem.size /\ mem'.rebuildFailed = mem.rebuildFailed
  BY <1>1, <1>3, <1>4 DEF MemType
<1>6. StuckBy(mem, mem', k)
  BY <1>5 DEF StuckBy, f
<1>7. count' \in CountType /\ count'.stores = count.stores /\ count'.events >= count.events
  BY MayFailFacts DEF Types, abortFails
<1> QED BY <1>1, <1>2, <1>5, <1>6, <1>7 DEF abortFails

\* What a rebuild and initialize() do with the journal files.
LEMMA SwapFiles ==
  ASSUME NEW d \in DirType
  PROVE  /\ LET e == [d EXCEPT !.journal = d.backup, !.backup = NoFile] IN
            /\ e \in DirType /\ e.journal = d.backup /\ e.backup = NoFile /\ e.temp = d.temp
            /\ e.clean = d.clean /\ e.dirty = d.dirty /\ SameLeft(d, e)
         /\ LET e == [d EXCEPT !.backup = d.journal, !.journal = NoFile] IN
            /\ e \in DirType /\ e.journal = NoFile /\ e.backup = d.journal /\ e.temp = d.temp
            /\ e.clean = d.clean /\ e.dirty = d.dirty /\ SameLeft(d, e)
         /\ LET e == [d EXCEPT !.journal = d.temp, !.temp = NoFile] IN
            /\ e \in DirType /\ e.journal = d.temp /\ e.backup = d.backup /\ e.temp = NoFile
            /\ e.clean = d.clean /\ e.dirty = d.dirty /\ SameLeft(d, e)
<1>1. NoFile \in FileType
  BY NoFileType
<1> HIDE DEF NoFile
<1> QED BY <1>1 DEF DirType, SameLeft

LEMMA TypesStep ==
  ASSUME Base, Next, Gaps = FALSE
  PROVE  Types'
<1> DEFINE CleanerType == [todo : Seq([key : Keys, id : Versions \cup {0}]), old : Seq(Keys)]
<1>0. /\ Types /\ disk \in DirType /\ mem \in MemType /\ count \in CountType
      /\ disk.journal.app <= app /\ disk.backup.app <= app /\ disk.temp.app <= app
      /\ disk.journal.app \in Nat /\ disk.backup.app \in Nat /\ disk.temp.app \in Nat
      /\ app \in Nat \ {0} /\ lock \in Seq(Steps) /\ writer \in [Writers -> WriterType]
      /\ cleaner \in CleanerType
  BY DEF Base, Types, DirType, FileType
<1>own. \A w \in Writers : writer[w].own = <<>>
  BY DEF Base, Edits
<1>lru. Distinct(mem.lru)
  BY DEF Base, Mapped
<1>tail. lock # <<>> => Tail(lock) \in Seq(Steps)
  BY <1>0
<1>reb. ASSUME NEW end \in {"done", "process", "reset"} PROVE Rebuild(end) \in Seq(Steps)
  BY DEF Rebuild, Steps
<1>one. <<"wipe">> \in Seq(Steps) /\ <<"process">> \in Seq(Steps)
  BY DEF Steps
<1>same. ASSUME disk'.journal.app = disk.journal.app, disk'.backup = disk.backup, disk'.temp = disk.temp, app' = app
         PROVE  disk'.journal.app <= app' /\ disk'.backup.app <= app' /\ disk'.temp.app <= app'
  BY <1>0, <1>same
<1>goto. ASSUME NEW w \in Writers, NEW pc \in {"commit", "abort", "check"}, Goto(w, pc), writer[w].pc # "idle"
         PROVE  /\ writer' \in [Writers -> WriterType]
                /\ \A x \in Writers : writer'[x].pc # "idle" => writer'[x].key \in Keys /\ writer'[x].ver \in Versions
  <2> DEFINE s == [writer[w] EXCEPT !.pc = pc]
  <2>1. writer' = [writer EXCEPT ![w] = s]
    BY <1>0, <1>goto DEF Goto
  <2>2. s \in WriterType /\ s.key = writer[w].key /\ s.ver = writer[w].ver
    BY <1>0 DEF WriterType
  <2> HIDE DEF s
  <2> QED BY <1>0, <1>goto, <2>1, <2>2 DEF Types
<1>moved. ASSUME NEW w \in Writers, NEW pc, Moved(w, pc), writer[w].pc # "idle"
          PROVE  \A x \in Writers : writer'[x].pc # "idle" => writer'[x].key \in Keys /\ writer'[x].ver \in Versions
  BY <1>0, <1>moved DEF Moved, Types
<1>1. CASE initialize
  <2>1. disk' \in DirType /\ disk'.journal.app <= app /\ disk'.backup.app <= app /\ disk'.temp.app <= app
    <3>1. NoFile \in FileType /\ NoFile.app = 0
      BY NoFileType DEF NoFile
    <3>2. \/ disk' = disk \/ disk' = [disk EXCEPT !.backup = NoFile]
          \/ disk' = [disk EXCEPT !.journal = disk.backup, !.backup = NoFile]
      BY <1>1 DEF initialize
    <3> HIDE DEF NoFile
    <3>3. /\ disk' \in DirType /\ disk'.journal \in {disk.journal, disk.backup}
          /\ disk'.backup \in {disk.backup, NoFile} /\ disk'.temp = disk.temp
      <4>1. CASE disk' = disk
        BY <1>0, <4>1
      <4>2. CASE disk' = [disk EXCEPT !.backup = NoFile]
        BY <1>0, <3>1, <4>2, SetBackup
      <4>3. CASE disk' = [disk EXCEPT !.journal = disk.backup, !.backup = NoFile]
        BY <1>0, <4>3, SwapFiles
      <4> QED BY <3>2, <4>1, <4>2, <4>3
    <3> QED BY <1>0, <3>1, <3>3
  <2>2. lock' \in Seq(Steps)
    BY <1>1 DEF initialize, Steps
  <2> QED BY <1>0, <1>1, <2>1, <2>2 DEF initialize, Types
<1>2. CASE readJournal
  <2>0. disk.journal.lines \in Seq(LineType)
    BY <1>0 DEF DirType, FileType
  <2>1. mem' \in MemType
    <3>1. CASE mem' = mem
      BY <1>0, <3>1
    <3>2. ASSUME NEW lru \in Order(disk.journal.lines),
                 LET extra == Cardinality({i \in DOMAIN disk.journal.lines : disk.journal.lines[i] # Cut}) - Len(lru)
                 IN mem' = [Closed EXCEPT
                               !.lru = lru, !.entry = Replay(disk.journal.lines), !.journalWriter = "file",
                               !.redundantOpCount = IF extra < RebuildAfter THEN extra
                                                    ELSE RebuildAfter]
          PROVE  mem' \in MemType
      <4> DEFINE extra == Cardinality({i \in DOMAIN disk.journal.lines : disk.journal.lines[i] # Cut}) - Len(lru)
                 f == Replay(disk.journal.lines)
                 c == IF extra < RebuildAfter THEN extra ELSE RebuildAfter
      <4>1. lru \in Seq(Keys) /\ extra \in Nat
        BY <2>0, OrderFacts
      <4>2. f \in [Keys -> EntryType]
        BY <2>0, ReplayFacts
      <4>3. mem' = [Closed EXCEPT !.lru = lru, !.entry = f, !.journalWriter = "file", !.redundantOpCount = c]
        BY <3>2
      <4> HIDE DEF extra, f
      <4>4. c \in 0 .. RebuildAfter
        BY <4>1, Constants
      <4> HIDE DEF c
      <4> QED BY <4>1, <4>2, <4>3, <4>4, BlankMem DEF MemType
    <3> QED BY <1>2, <3>1, <3>2 DEF readJournal
  <2>2. lock' \in Seq(Steps)
    BY <1>2, <1>reb, <1>one DEF readJournal
  <2> QED BY <1>0, <1>2, <2>1, <2>2 DEF readJournal, Types
<1>3. CASE wipe
  <2>1. disk' \in DirType /\ disk'.journal.app <= app /\ disk'.backup.app <= app /\ disk'.temp.app <= app
    <3>0. NoFile \in FileType /\ NoFile.app = 0
      BY NoFileType DEF NoFile
    <3> HIDE DEF NoFile
    <3>1. ASSUME NEW f \in {"journal", "backup", "temp"}, disk' = [disk EXCEPT ![f] = NoFile]
          PROVE  disk' \in DirType /\ disk'.journal.app <= app /\ disk'.backup.app <= app /\ disk'.temp.app <= app
      <4>1. CASE f = "journal"
        <5>1. disk' = [disk EXCEPT !.journal = NoFile]
          BY <3>1, <4>1
        <5> QED BY <1>0, <3>0, <5>1, SetJournal
      <4>2. CASE f = "backup"
        <5>1. disk' = [disk EXCEPT !.backup = NoFile]
          BY <3>1, <4>2
        <5> QED BY <1>0, <3>0, <5>1, SetBackup
      <4>3. CASE f = "temp"
        <5>1. disk' = [disk EXCEPT !.temp = NoFile]
          BY <3>1, <4>3
        <5> QED BY <1>0, <3>0, <5>1, SetTemp
      <4> QED BY <3>1, <4>1, <4>2, <4>3
    <3>2. ASSUME NEW f \in {"clean", "dirty", "left"}, NEW k \in Keys, disk' = [disk EXCEPT ![f][k] = NoVersion]
          PROVE  disk' \in DirType /\ disk'.journal.app <= app /\ disk'.backup.app <= app /\ disk'.temp.app <= app
      <4>1. CASE f = "clean"
        <5>1. disk' = [disk EXCEPT !.clean = [disk.clean EXCEPT ![k] = NoVersion]]
          BY <1>0, <3>2, <4>1 DEF DirType
        <5> QED BY <1>0, <5>1 DEF DirType
      <4>2. CASE f = "dirty"
        <5>1. disk' = [disk EXCEPT !.dirty = [disk.dirty EXCEPT ![k] = NoVersion]]
          BY <1>0, <3>2, <4>2 DEF DirType
        <5> QED BY <1>0, <5>1 DEF DirType
      <4>3. CASE f = "left"
        <5>1. disk' = [disk EXCEPT !.left = [disk.left EXCEPT ![k] = NoVersion]]
          BY <1>0, <3>2, <4>3 DEF DirType
        <5> QED BY <1>0, <5>1 DEF DirType
      <4> QED BY <3>2, <4>1, <4>2, <4>3
    <3>3. CASE disk' = disk
      BY <1>0, <3>3
    <3> QED BY <1>3, <3>1, <3>2, <3>3 DEF wipe
  <2>2. lock' \in Seq(Steps)
    BY <1>0, <1>3, <1>reb DEF wipe, At, Free
  <2> QED BY <1>0, <1>3, <2>1, <2>2 DEF wipe, Types
<1>4. CASE processJournal
  <2>0. NoFile \in FileType /\ NoFile.app = 0
    BY NoFileType DEF NoFile
  <2>1. CASE disk' = [disk EXCEPT !.temp = NoFile] /\ UNCHANGED <<mem, lock>>
    <3>1. disk' \in DirType /\ disk'.journal.app <= app /\ disk'.backup.app <= app /\ disk'.temp.app <= app
      <4> HIDE DEF NoFile
      <4> QED BY <1>0, <2>0, <2>1, SetTemp
    <3> QED BY <1>0, <1>4, <2>1, <3>1 DEF processJournal, Types
  <2>2. ASSUME NEW k \in Keys, lock' = lock,
               IF disk.clean[k] # NoVersion
               THEN disk' = [disk EXCEPT !.clean[k] = NoVersion] /\ mem' = mem
               ELSE /\ disk' = [disk EXCEPT !.dirty[k] = NoVersion, !.left[k] = NoVersion]
                    /\ mem' = [mem EXCEPT !.lru = Without(@, k), !.entry[k] = NoEntry]
        PROVE  Types'
    <3>1. disk' \in DirType /\ disk'.journal.app <= app /\ disk'.backup.app <= app /\ disk'.temp.app <= app
      <4>1. \/ disk' = [disk EXCEPT !.clean[k] = NoVersion]
            \/ disk' = [disk EXCEPT !.dirty[k] = NoVersion, !.left[k] = NoVersion]
        BY <2>2
      <4>2. disk' \in DirType /\ SameJournal(disk, disk')
        <5>1. NoVersion \in Versions \cup {NoVersion}
          OBVIOUS
        <5>2. CASE disk' = [disk EXCEPT !.clean[k] = NoVersion]
          BY <1>0, <5>1, <5>2, SetFile
        <5>3. CASE disk' = [disk EXCEPT !.dirty[k] = NoVersion, !.left[k] = NoVersion]
          BY <1>0, <5>1, <5>3, SetTempFile DEF DirType
        <5> QED BY <4>1, <5>2, <5>3
      <4> QED BY <1>0, <4>2 DEF SameJournal
    <3>2. mem' \in MemType
      <4>1. CASE mem' = mem
        BY <1>0, <4>1
      <4>2. CASE mem' = [mem EXCEPT !.lru = Without(@, k), !.entry[k] = NoEntry]
        <5> DEFINE l == Without(mem.lru, k)
                   f == [mem.entry EXCEPT ![k] = NoEntry]
        <5>1. l \in Seq(Keys) /\ f \in [Keys -> EntryType]
          BY <1>0, WithoutFacts, EmptyEntry DEF MemType
        <5>2. mem' = [mem EXCEPT !.lru = l, !.entry = f]
          BY <1>0, <4>2 DEF MemType
        <5> HIDE DEF l, f
        <5> QED BY <1>0, <5>1, <5>2 DEF MemType
      <4> QED BY <2>2, <4>1, <4>2
    <3> QED BY <1>0, <1>4, <2>2, <3>1, <3>2 DEF processJournal, Types
  <2>3. CASE /\ mem' = [mem EXCEPT !.size = Taken(mem), !.initialized = TRUE]
             /\ disk' = disk /\ lock' = Tail(lock)
    <3>1. Taken(mem) \in Int
      <4> DEFINE S == {k \in Keys : mem.entry[k].len = 1}
      <4>1. S \in SUBSET Keys
        OBVIOUS
      <4> HIDE DEF S
      <4>2. IsFiniteSet(S)
        BY <4>1, Constants, FS_Subset
      <4>3. Cardinality(S) \in Nat
        BY <4>2, FS_CardinalityType
      <4> QED BY <4>3 DEF Taken, S
    <3>2. mem' \in MemType
      BY <1>0, <2>3, <3>1 DEF MemType
    <3>3. lock' \in Seq(Steps)
      BY <1>tail, <1>4, <2>3 DEF processJournal, At, Free
    <3> QED BY <1>0, <1>4, <2>3, <3>2, <3>3 DEF processJournal, Types
  <2> QED BY <1>4, <2>1, <2>2, <2>3 DEF processJournal
<1>5. CASE openedEmpty
  <2>1. mem' \in MemType
    BY <1>0, <1>5 DEF openedEmpty, MemType
  <2>2. lock' \in Seq(Steps)
    BY <1>tail, <1>5 DEF openedEmpty, At, Free
  <2> QED BY <1>0, <1>5, <2>1, <2>2 DEF openedEmpty, Types
<1>6. CASE rebuildJournal
  <2>1. lock' \in Seq(Steps)
    BY <1>tail, <1>6 DEF rebuildJournal, Free
  <2> SUFFICES /\ disk' \in DirType /\ disk'.journal.app <= app
               /\ disk'.backup.app <= app /\ disk'.temp.app <= app
               /\ mem' \in MemType /\ count' \in CountType
    BY <1>0, <1>6, <2>1 DEF rebuildJournal, Types
  <2>0. NoFile \in FileType /\ NoFile.app = 0
    BY NoFileType DEF NoFile
  <2>2. ASSUME NEW bad \in BOOLEAN, MayFail(bad), NEW s \in Flush(Now, bad), Become(s)
        PROVE  /\ disk' \in DirType /\ disk'.journal.app <= app
               /\ disk'.backup.app <= app /\ disk'.temp.app <= app
               /\ mem' \in MemType /\ count' \in CountType
    <3>1. /\ s.d \in DirType /\ s.m \in MemType /\ Flushed(Now, s) /\ s.d.journal.app = disk.journal.app
      BY <1>0, FlushFacts DEF Now
    <3>2. disk' = s.d /\ mem' = s.m
      BY <2>2 DEF Become
    <3>3. s.d.backup = disk.backup /\ s.d.temp = disk.temp
      BY <3>1 DEF Flushed, Now
    <3>4. count' \in CountType
      BY <1>0, <2>2, MayFailFacts
    <3> QED BY <1>0, <3>1, <3>2, <3>3, <3>4
  <2>3. CASE UNCHANGED <<mem, count>> /\ disk' = [disk EXCEPT !.temp = [app |-> app, lines |-> Compact(mem)]]
    <3> DEFINE f == [app |-> app, lines |-> Compact(mem)]
    <3>1. f \in FileType /\ f.app = app
      BY <1>0, CompactFacts DEF FileType
    <3> HIDE DEF f
    <3>2. disk' = [disk EXCEPT !.temp = f]
      BY <2>3 DEF f
    <3> QED BY <1>0, <2>3, <3>1, <3>2, SetTemp
  <2>4. CASE /\ UNCHANGED <<mem, count>>
             /\ disk' = IF disk.journal = NoFile THEN disk
                        ELSE [disk EXCEPT !.backup = disk.journal, !.journal = NoFile]
    <3> HIDE DEF NoFile
    <3>1. CASE disk' = disk
      BY <1>0, <2>4, <3>1
    <3>2. CASE disk' = [disk EXCEPT !.backup = disk.journal, !.journal = NoFile]
      <4>1. /\ disk' \in DirType /\ disk'.journal = NoFile /\ disk'.backup = disk.journal
            /\ disk'.temp = disk.temp
        BY <1>0, <3>2, SwapFiles
      <4> QED BY <1>0, <2>0, <2>4, <4>1
    <3> QED BY <2>4, <3>1, <3>2
  <2>5. CASE UNCHANGED <<mem, count>> /\ disk' = [disk EXCEPT !.journal = disk.temp, !.temp = NoFile]
    <3> HIDE DEF NoFile
    <3>1. /\ disk' \in DirType /\ disk'.journal = disk.temp /\ disk'.backup = disk.backup
          /\ disk'.temp = NoFile
      BY <1>0, <2>5, SwapFiles
    <3> QED BY <1>0, <2>0, <2>5, <3>1
  <2>6. CASE /\ UNCHANGED count /\ disk' = [disk EXCEPT !.backup = NoFile]
             /\ mem' = [mem EXCEPT !.journalWriter = "file", !.rebuildFailed = FALSE]
    <3>1. mem' \in MemType
      BY <1>0, <2>6 DEF MemType
    <3> HIDE DEF NoFile
    <3> QED BY <1>0, <2>0, <2>6, <3>1, SetBackup
  <2> QED BY <1>6, <2>2, <2>3, <2>4, <2>5, <2>6 DEF rebuildJournal
<1>7. CASE runCleanup
  <2>1. mem' \in MemType
    BY <1>0, <1>7 DEF runCleanup, MemType
  <2>2. lock' \in Seq(Steps)
    <3>1. <<"trim", "compact">> \in Seq(Steps) /\ <<>> \in Seq(Steps)
      BY DEF Steps
    <3> QED BY <1>7, <3>1 DEF runCleanup
  <2> QED BY <1>0, <1>7, <2>1, <2>2 DEF runCleanup, Types
<1>8. CASE trimToSize
  <2>1. mem.size > MaxSize => mem.lru # <<>>
    BY <1>8, TrimFinds DEF trimToSize
  <2>2. /\ disk' \in DirType /\ mem' \in MemType /\ count' \in CountType
        /\ \/ lock' = lock /\ Removed(Now, Then, Head(mem.lru))
           \/ lock' = Tail(lock) /\ Detached(Now, Then, Head(mem.lru))
           \/ lock' = Tail(lock) /\ disk' = disk /\ Alike(mem, mem')
    BY <1>0, <1>8, <2>1, TrimEffect
  <2>3. disk'.journal = disk.journal /\ disk'.backup = disk.backup /\ disk'.temp = disk.temp
    BY <2>2 DEF Removed, Detached, SameJournal, Now, Then
  <2>4. lock' \in Seq(Steps)
    BY <1>0, <1>tail, <1>8, <2>2 DEF trimToSize, At, Free
  <2> QED BY <1>0, <1>8, <2>2, <2>3, <2>4 DEF trimToSize, Types
<1>9. CASE compactJournal
  <2>1. lock' \in Seq(Steps)
    BY <1>reb, <1>9 DEF compactJournal
  <2> QED BY <1>0, <1>9, <2>1 DEF compactJournal, Types
<1>10. CASE compacted
  <2>1. mem' \in MemType
    <3>1. 0 \in 0 .. RebuildAfter
      BY Constants
    <3> QED BY <1>0, <1>10, <3>1 DEF compacted, MemType
  <2>2. lock' \in Seq(Steps)
    BY <1>10 DEF compacted
  <2> QED BY <1>0, <1>10, <2>1, <2>2 DEF compacted, Types
<1>11. CASE rebuildFails
  <2>1. mem' \in MemType
    BY <1>0, <1>11 DEF rebuildFails, MemType
  <2>2. lock' \in Seq(Steps)
    BY <1>11 DEF rebuildFails
  <2>3. count' \in CountType
    BY <1>0, <1>11, MayFailFacts DEF rebuildFails
  <2> QED BY <1>0, <1>11, <2>1, <2>2, <2>3 DEF rebuildFails, Types
<1>12. ASSUME NEW w \in Writers, NEW k \in Keys, edit(w, k) PROVE Types'
  <2>0. Locked
    BY DEF Base
  <2>1. /\ disk' \in DirType /\ mem' \in MemType /\ disk'.journal.app = disk.journal.app
        /\ \/ Looked(Now, Then, k) /\ writer' = writer
           \/ /\ Started(Now, Then, k, w)
              /\ writer' = [writer EXCEPT ![w] = [pc |-> "sink", key |-> k, ver |-> count.stores + 1,
                                                  sink |-> FALSE, own |-> <<>>]]
    BY <1>0, <1>lru, <1>12, <2>0, EditEffect
  <2>2. disk'.backup = disk.backup /\ disk'.temp = disk.temp
    BY <2>1 DEF Looked, Started, Now, Then
  <2>3. count' \in CountType /\ count.stores + 1 \in Versions
    BY <1>0, <1>12, SpendStores DEF edit
  <2>4. /\ writer' \in [Writers -> WriterType]
        /\ \A x \in Writers : writer'[x].pc # "idle" => writer'[x].key \in Keys /\ writer'[x].ver \in Versions
    <3> DEFINE v == count.stores + 1
               s == [pc |-> "sink", key |-> k, ver |-> v, sink |-> FALSE, own |-> <<>>]
    <3>1. s \in WriterType /\ s.key = k /\ s.ver = v
      <4>1. <<>> \in Seq(EntryType)
        OBVIOUS
      <4> HIDE DEF v
      <4> QED BY <2>3, <4>1 DEF WriterType, v
    <3>2. CASE writer' = writer
      BY <1>0, <3>2 DEF Types
    <3>3. CASE writer' = [writer EXCEPT ![w] = s]
      <4> HIDE DEF s
      <4> QED BY <1>0, <2>3, <3>1, <3>3 DEF Types
    <3> QED BY <2>1, <3>2, <3>3
  <2>5. UNCHANGED <<body, lock, cleaner, app, shown>>
    BY <1>12 DEF edit
  <2> QED BY <1>0, <1>same, <2>1, <2>2, <2>3, <2>4, <2>5 DEF Types
<1>13. ASSUME NEW w \in Writers, NEW k \in Keys, editFails(w, k) PROVE Types'
  <2>1. /\ disk' \in DirType /\ mem' \in MemType /\ disk'.journal.app = disk.journal.app /\ count' \in CountType
        /\ \E m \in MemType : Dirtied(Now, m, k) /\ Flushed([d |-> disk, m |-> m], Then)
    BY <1>0, <1>lru, <1>13, EditFailsEffect
  <2>2. disk'.backup = disk.backup /\ disk'.temp = disk.temp
    BY <2>1 DEF Flushed, Then
  <2>3. UNCHANGED <<body, lock, writer, cleaner, app, shown>>
    BY <1>13 DEF editFails
  <2> QED BY <1>0, <1>same, <2>1, <2>2, <2>3 DEF Types
<1>14. ASSUME NEW w \in Writers, newSink(w) PROVE Types'
  <2>1. /\ disk' \in DirType /\ SameJournal(disk, disk') /\ count' \in CountType
        /\ Moved(w, "data") /\ writer[w].pc = "sink"
    BY <1>0, <1>14, SinkEffect
  <2>2. UNCHANGED <<body, mem, lock, cleaner, app, shown>>
    BY <1>14 DEF newSink
  <2>3. /\ writer' \in [Writers -> WriterType]
        /\ \A x \in Writers : writer'[x].pc # "idle" => writer'[x].key \in Keys /\ writer'[x].ver \in Versions
    BY <1>moved, <2>1 DEF Moved
  <2> QED BY <1>0, <2>1, <2>2, <2>3 DEF Types, SameJournal
<1>15. ASSUME NEW w \in Writers, write(w) PROVE Types'
  <2>1. body' \in [Versions -> {"part", "body", "whole", "cut"}]
    BY <1>0, <1>15 DEF write, Types
  <2> QED BY <1>0, <1>15, <1>goto, <2>1 DEF write, Types
<1>16. ASSUME NEW w \in Writers, writeFails(w) PROVE Types'
  <2>1. /\ disk' \in DirType /\ mem' \in MemType /\ Moved(w, "commit") /\ count' \in CountType
        /\ IF mem.entry[writer[w].key].editor = w THEN Detached(Now, Then, writer[w].key)
           ELSE disk' = disk /\ mem' = mem
    BY <1>0, <1>own, <1>16, WriteFailsEffect
  <2>2. disk'.journal = disk.journal /\ disk'.backup = disk.backup /\ disk'.temp = disk.temp
    BY <2>1 DEF Detached, SameJournal, Now, Then
  <2>3. writer[w].pc # "idle" /\ UNCHANGED <<body, lock, cleaner, app, shown>>
    BY <1>16 DEF writeFails
  <2>4. writer' \in [Writers -> WriterType]
    BY <2>1 DEF Moved
  <2> QED BY <1>0, <1>moved, <2>1, <2>2, <2>3, <2>4 DEF Types
<1>17. ASSUME NEW w \in Writers, downloadFails(w) PROVE Types'
  BY <1>0, <1>17, <1>goto DEF downloadFails, Types
<1>rest. ASSUME NEW w \in Writers, writer' = [writer EXCEPT ![w] = Resting]
         PROVE  /\ writer' \in [Writers -> WriterType]
                /\ \A x \in Writers : writer'[x].pc # "idle" => writer'[x].key \in Keys /\ writer'[x].ver \in Versions
  <2>1. Resting.pc = "idle"
    BY DEF Resting
  <2> HIDE DEF Resting
  <2> QED BY <1>0, <1>rest, <2>1, RestingType DEF Types
<1>18. ASSUME NEW w \in Writers, abort(w) PROVE Types'
  <2>1. writer[w].pc # "idle" /\ UNCHANGED <<body, lock, cleaner, app, shown>> /\ writer' = [writer EXCEPT ![w] = Resting]
    BY <1>18 DEF abort
  <2>2. CASE FinishEdit(Aborted(w))
    <3>1. /\ disk' \in DirType /\ mem' \in MemType /\ disk'.journal.app = disk.journal.app
          /\ count' \in CountType
          /\ \E d \in DirType, m \in MemType :
               /\ GivenUp(Now, [d |-> d, m |-> m], writer[w].key)
               /\ Flushed([d |-> d, m |-> m], Then)
      BY <1>0, <1>own, <2>1, <2>2, AbortEffect
    <3>2. disk'.backup = disk.backup /\ disk'.temp = disk.temp
      BY <3>1 DEF GivenUp, Flushed, SameJournal, Now, Then
    <3> QED BY <1>0, <1>rest, <1>same, <2>1, <3>1, <3>2 DEF Types
  <2>3. CASE UNCHANGED <<disk, mem, count>>
    BY <1>0, <1>rest, <2>1, <2>3 DEF Types
  <2> QED BY <1>18, <2>2, <2>3 DEF abort
<1>18a. ASSUME NEW w \in Writers, abortFails(w) PROVE Types'
  <2>1. /\ mem' \in MemType /\ count' \in CountType /\ writer' = [writer EXCEPT ![w] = Resting]
        /\ UNCHANGED <<disk, body, lock, cleaner, app, shown>>
    BY <1>0, <1>own, <1>18a, AbortFailsEffect
  <2> QED BY <1>0, <1>rest, <2>1 DEF Types
<1>19. ASSUME NEW w \in Writers, commit(w) PROVE Types'
  <2> DEFINE k == writer[w].key
  <2>1. writer[w].pc # "idle" /\ UNCHANGED <<body, cleaner, app>>
    BY <1>19 DEF commit
  <2>2. /\ disk' \in DirType /\ mem' \in MemType /\ disk'.journal.app = disk.journal.app
        /\ count' \in CountType /\ shown' \subseteq Versions
        /\ \/ disk' = disk /\ lock' = lock /\ Moved(w, "close")
           \/ FinishEdit(Aborted(w)) /\ lock' = lock /\ Moved(w, "close")
           \/ lock' = <<"publish">> /\ Renamed(Now, Then, k) /\ Moved(w, "publish")
           \/ lock' = <<"publish">> /\ disk' = disk /\ Moved(w, "publish")
    BY <1>0, <1>own, <1>19, CommitEffect
  <2>3. disk'.backup = disk.backup /\ disk'.temp = disk.temp
    <3>1. CASE FinishEdit(Aborted(w))
      <4>1. \E d \in DirType, m \in MemType :
               /\ GivenUp(Now, [d |-> d, m |-> m], k)
               /\ Flushed([d |-> d, m |-> m], Then)
        BY <1>0, <1>own, <2>1, <3>1, AbortEffect
      <4> QED BY <4>1 DEF GivenUp, Flushed, SameJournal, Now, Then
    <3>2. CASE disk' = disk \/ Renamed(Now, Then, k)
      BY <3>2 DEF Renamed, SameJournal, Now, Then
    <3> QED BY <2>2, <3>1, <3>2
  <2>4. lock' \in Seq(Steps)
    <3>1. <<"publish">> \in Seq(Steps)
      BY DEF Steps
    <3> QED BY <1>0, <2>2, <3>1
  <2>5. /\ writer' \in [Writers -> WriterType]
        /\ \A x \in Writers : writer'[x].pc # "idle" => writer'[x].key \in Keys /\ writer'[x].ver \in Versions
    <3>1. \E pc : Moved(w, pc)
      BY <2>2
    <3> QED BY <1>moved, <2>1, <3>1 DEF Moved
  <2> QED BY <1>0, <1>same, <2>1, <2>2, <2>3, <2>4, <2>5 DEF Types
<1>20. ASSUME NEW w \in Writers, commitFails(w) PROVE Types'
  <2>0. writer[w].key \in Keys /\ writer[w].pc # "idle"
    BY <1>0, <1>20 DEF commitFails, Types
  <2>1. disk' \in DirType /\ SameJournal(disk, disk')
    BY <1>0, <1>20, <2>0 DEF commitFails, DirType, SameJournal
  <2>2. count' \in CountType
    BY <1>0, <1>20, MayFailFacts DEF commitFails
  <2> QED BY <1>0, <1>goto, <1>20, <2>0, <2>1, <2>2 DEF commitFails, Types, SameJournal
<1>21. ASSUME NEW w \in Writers, publish(w) PROVE Types'
  <2>0. At("publish") /\ writer[w].pc # "idle" /\ lock' = Tail(lock) /\ UNCHANGED <<body, cleaner, app>>
    BY <1>21 DEF publish
  <2>1. /\ disk' \in DirType /\ mem' \in MemType /\ disk'.journal.app = disk.journal.app /\ count' \in CountType
        /\ \E m \in MemType : Flushed([d |-> disk, m |-> m], Then)
    BY <1>0, <1>own, <1>21, PublishEffect
  <2>2. disk'.backup = disk.backup /\ disk'.temp = disk.temp
    BY <2>1 DEF Flushed, Then
  <2>3. lock' \in Seq(Steps)
    BY <1>tail, <2>0 DEF At, Free
  <2>4. shown' \subseteq Versions
    <3>1. disk.clean[writer[w].key] \in Versions \cup {NoVersion}
      BY <1>0, <2>0 DEF Types, DirType
    <3>2. shown' = shown \/ shown' = shown \cup ({disk.clean[writer[w].key]} \ {NoVersion})
      BY <1>21 DEF publish
    <3> QED BY <1>0, <3>1, <3>2 DEF Types
  <2>5. /\ writer' \in [Writers -> WriterType]
        /\ \A x \in Writers : writer'[x].pc # "idle" => writer'[x].key \in Keys /\ writer'[x].ver \in Versions
    <3> DEFINE s == [writer[w] EXCEPT !.pc = "close", !.own = <<>>]
    <3>1. writer' = [writer EXCEPT ![w] = s]
      BY <1>0, <1>21 DEF publish
    <3>2. s \in WriterType /\ s.key = writer[w].key /\ s.ver = writer[w].ver
      <4>1. <<>> \in Seq(EntryType)
        OBVIOUS
      <4> QED BY <1>0, <4>1 DEF WriterType
    <3> HIDE DEF s
    <3> QED BY <1>0, <2>0, <3>1, <3>2 DEF Types
  <2> QED BY <1>0, <1>same, <2>0, <2>1, <2>2, <2>3, <2>4, <2>5 DEF Types
<1>22. ASSUME NEW w \in Writers, close(w) PROVE Types'
  <2>1. body' \in [Versions -> {"part", "body", "whole", "cut"}]
    BY <1>0, <1>22 DEF close, Types
  <2>2. count' \in CountType
    BY <1>0, <1>22, MayFailFacts DEF close
  <2> QED BY <1>0, <1>22, <1>goto, <2>1, <2>2 DEF close, Types
<1>look. ASSUME NEW k \in Keys, NEW kept, Become(Get(Now, k, kept))
         PROVE  /\ disk' \in DirType /\ mem' \in MemType
                /\ disk'.journal = disk.journal /\ disk'.backup = disk.backup /\ disk'.temp = disk.temp
  <2>1. disk' \in DirType /\ mem' \in MemType /\ (Looked(Now, Then, k) \/ Removed(Now, Then, k))
    BY <1>0, <1>lru, <1>look, GetEffect
  <2> QED BY <2>1 DEF Looked, Removed, SameJournal, Now, Then
<1>23. ASSUME NEW w \in Writers, check(w) PROVE Types'
  <2>1. writer[w].key \in Keys
    BY <1>0, <1>23 DEF check, Types
  <2>2. PICK kept \in BOOLEAN : MayFail(kept) /\ Become(Get(Now, writer[w].key, kept))
    BY <1>23 DEF check
  <2>3. count' \in CountType
    BY <1>0, <2>2, MayFailFacts
  <2>4. /\ disk' \in DirType /\ mem' \in MemType
        /\ disk'.journal = disk.journal /\ disk'.backup = disk.backup /\ disk'.temp = disk.temp
    BY <1>look, <2>1, <2>2
  <2>5. writer' = [writer EXCEPT ![w] = Resting] /\ UNCHANGED <<body, lock, cleaner, app, shown>>
    BY <1>23 DEF check
  <2> QED BY <1>0, <1>rest, <2>3, <2>4, <2>5 DEF Types
<1>24. ASSUME NEW k \in Keys, get(k) PROVE Types'
  <2>1. count' \in CountType
    BY <1>0, <1>24, SpendEvents DEF get
  <2>2. PICK kept \in BOOLEAN : Become(Get(Now, k, kept))
    BY <1>24 DEF get
  <2>3. /\ disk' \in DirType /\ mem' \in MemType
        /\ disk'.journal = disk.journal /\ disk'.backup = disk.backup /\ disk'.temp = disk.temp
    BY <1>look, <2>2
  <2> QED BY <1>0, <1>24, <2>1, <2>3 DEF get, Types
<1>25. CASE evictAll
  <2>1. lock' \in Seq(Steps)
    BY <1>25 DEF evictAll, Steps
  <2>2. count' \in CountType
    BY <1>0, <1>25, SpendEvents DEF evictAll
  <2> QED BY <1>0, <1>25, <2>1, <2>2 DEF evictAll, Types
<1>26. CASE evictNext
  <2>1. /\ disk' \in DirType /\ mem' \in MemType /\ count' \in CountType
        /\ \/ lock' = lock /\ Removed(Now, Then, Head(mem.lru))
           \/ lock' = <<>> /\ Detached(Now, Then, Head(mem.lru))
           \/ lock' = <<>> /\ disk' = disk
    BY <1>0, <1>26, EvictEffect
  <2>2. disk'.journal = disk.journal /\ disk'.backup = disk.backup /\ disk'.temp = disk.temp
    BY <2>1 DEF Removed, Detached, SameJournal, Now, Then
  <2>3. lock' \in Seq(Steps)
    <3>1. <<>> \in Seq(Steps)
      OBVIOUS
    <3> QED BY <1>0, <2>1, <3>1
  <2> QED BY <1>0, <1>26, <2>1, <2>2, <2>3 DEF evictNext, Types
<1>27. CASE cleanStart
  <2>1. cleaner' \in CleanerType
    <3> DEFINE T == [key : Keys, id : Versions \cup {0}]
               q == [i \in DOMAIN mem.lru |-> [key |-> mem.lru[i], id |-> mem.entry[mem.lru[i]].id]]
    <3>1. mem.lru \in Seq(Keys) /\ mem.entry \in [Keys -> EntryType]
      BY <1>0 DEF MemType
    <3>2. q \in [1 .. Len(mem.lru) -> T]
      BY <3>1 DEF EntryType
    <3>3. q \in Seq(T)
      <4> HIDE DEF q, T
      <4>1. Len(mem.lru) \in Nat
        BY <3>1
      <4> QED BY <3>2, <4>1
    <3>4. cleaner' = [todo |-> q, old |-> <<>>]
      BY <1>27 DEF cleanStart
    <3>5. <<>> \in Seq(Keys)
      OBVIOUS
    <3> HIDE DEF q
    <3> QED BY <3>3, <3>4, <3>5
  <2>2. count' \in CountType
    BY <1>0, <1>27, SpendEvents DEF cleanStart
  <2> QED BY <1>0, <1>27, <2>1, <2>2 DEF cleanStart, Types
<1>28. CASE cleanNext
  <2>1. /\ disk' \in DirType /\ mem' \in MemType /\ writer' = writer /\ cleaner' \in CleanerType
        /\ count' \in CountType
        /\ \/ \E k \in Keys : Removed(Now, Then, k)
           \/ disk' = disk /\ mem' = mem
    BY <1>0, <1>28, CleanNextEffect
  <2>2. disk'.journal = disk.journal /\ disk'.backup = disk.backup /\ disk'.temp = disk.temp
    BY <2>1 DEF Removed, SameJournal, Now, Then
  <2>3. UNCHANGED <<body, lock, app, shown>>
    BY <1>28 DEF cleanNext
  <2> QED BY <1>0, <2>1, <2>2, <2>3 DEF Types
<1>29. CASE cleanRemove
  <2>1. /\ disk' \in DirType /\ mem' \in MemType /\ cleaner' \in CleanerType /\ count' \in CountType
        /\ \/ \E k \in Keys : Removed(Now, Then, k)
           \/ disk' = disk
    BY <1>0, <1>29, CleanRemoveEffect
  <2>2. disk'.journal = disk.journal /\ disk'.backup = disk.backup /\ disk'.temp = disk.temp
    BY <2>1 DEF Removed, SameJournal, Now, Then
  <2>3. UNCHANGED <<body, lock, writer, app, shown>>
    BY <1>29 DEF cleanRemove
  <2> QED BY <1>0, <2>1, <2>2, <2>3 DEF Types
<1>29a. CASE cleanRemoveFails
  <2>1. /\ disk' \in DirType /\ mem' \in MemType /\ cleaner' \in CleanerType /\ count' \in CountType
        /\ \E k \in Keys : Detached(Now, Then, k)
    BY <1>0, <1>29a, CleanRemoveFailsEffect
  <2>2. disk'.journal = disk.journal /\ disk'.backup = disk.backup /\ disk'.temp = disk.temp
    BY <2>1 DEF Detached, SameJournal, Now, Then
  <2>3. UNCHANGED <<body, lock, writer, app, shown>>
    BY <1>29a DEF cleanRemoveFails
  <2> QED BY <1>0, <2>1, <2>2, <2>3 DEF Types
<1>30. CASE restart
  <2>1. disk' \in DirType /\ disk'.journal.app = disk.journal.app /\ disk'.backup = disk.backup /\ disk'.temp = disk.temp
    <3>1. CASE disk' = disk
      BY <1>0, <3>1
    <3>2. ASSUME NEW p \in Torn(mem.buffer), disk' = Appended(disk, p)
          PROVE  disk' \in DirType /\ disk'.journal.app = disk.journal.app /\ disk'.backup = disk.backup /\ disk'.temp = disk.temp
      <4>1. p \in Seq(LineType)
        BY <1>0, TornFacts DEF MemType
      <4> DEFINE q == disk.journal.lines \o p
                 j == [disk.journal EXCEPT !.lines = q]
      <4>2. disk.journal \in FileType /\ q \in Seq(LineType)
        BY <1>0, <4>1 DEF DirType, FileType
      <4>3. disk' = [disk EXCEPT !.journal = j]
        BY <1>0, <3>2 DEF Appended, DirType
      <4> HIDE DEF q
      <4>4. j \in FileType /\ j.app = disk.journal.app
        BY <4>2 DEF FileType
      <4> HIDE DEF j
      <4> QED BY <1>0, <4>3, <4>4 DEF DirType
    <3> QED BY <1>30, <3>1, <3>2 DEF restart
  <2>2. app' \in Nat \ {0} /\ app' >= app
    BY <1>0, <1>30 DEF restart
  <2>3. disk'.journal.app <= app' /\ disk'.backup.app <= app' /\ disk'.temp.app <= app'
    BY <1>0, <2>1, <2>2
  <2>4. writer' \in [Writers -> WriterType] /\ \A x \in Writers : writer'[x].pc = "idle"
    BY <1>30, RestingType DEF restart, Resting
  <2>5. cleaner' \in CleanerType
    <3>1. <<>> \in Seq([key : Keys, id : Versions \cup {0}]) /\ <<>> \in Seq(Keys)
      OBVIOUS
    <3> QED BY <1>30, <3>1 DEF restart
  <2>6. count' \in CountType /\ mem' \in MemType /\ lock' \in Seq(Steps)
    BY <1>0, <1>30, SpendEvents, BlankMem DEF restart
  <2>7. body' \in [Versions -> {"part", "body", "whole", "cut"}]
    BY <1>0, <1>30 DEF restart, Types
  <2> QED BY <1>0, <1>30, <2>1, <2>2, <2>3, <2>4, <2>5, <2>6, <2>7 DEF restart, Types
<1> QED
  BY <1>1, <1>2, <1>3, <1>4, <1>5, <1>6, <1>7, <1>8, <1>9, <1>10, <1>11, <1>12, <1>13, <1>14,
     <1>15, <1>16, <1>17, <1>18, <1>19, <1>20, <1>21, <1>22, <1>23, <1>24, <1>25, <1>26, <1>27,
     <1>28, <1>29, <1>29a, <1>30, <1>18a DEF Next

-----------------------------------------------------------------------------
(* The entries, the edits and the size of the cache. *)

LEMMA TakenType ==
  ASSUME NEW m
  PROVE  Taken(m) \in Nat
<1> DEFINE S == {k \in Keys : m.entry[k].len = 1}
<1>1. S \in SUBSET Keys
  OBVIOUS
<1> HIDE DEF S
<1>2. IsFiniteSet(S)
  BY <1>1, Constants, FS_Subset
<1>3. Cardinality(S) \in Nat
  BY <1>2, FS_CardinalityType
<1> QED BY <1>3 DEF Taken, S

LEMMA TakenFacts ==
  ASSUME NEW m \in MemType, NEW n \in MemType, NEW k \in Keys, NEW e \in EntryType,
         n.entry = [m.entry EXCEPT ![k] = e]
  PROVE  Taken(n) = Taken(m) - m.entry[k].len + e.len
<1> DEFINE S == {x \in Keys : m.entry[x].len = 1}
           T == {x \in Keys : n.entry[x].len = 1}
<1>1. IsFiniteSet(S) /\ Cardinality(S) \in Nat
  <2>1. S \in SUBSET Keys
    OBVIOUS
  <2> HIDE DEF S
  <2>2. IsFiniteSet(S)
    BY <2>1, Constants, FS_Subset
  <2> QED BY <2>2, FS_CardinalityType
<1>2. m.entry \in [Keys -> EntryType] /\ m.entry[k].len \in {0, 1} /\ e.len \in {0, 1}
  BY DEF MemType, EntryType
<1>3. \A x \in Keys : n.entry[x] = IF x = k THEN e ELSE m.entry[x]
  BY <1>2
<1>4. Taken(m) = Cardinality(S) /\ Taken(n) = Cardinality(T)
  BY DEF Taken
<1>5. CASE m.entry[k].len = e.len
  <2>1. S = T
    BY <1>3, <1>5
  <2> HIDE DEF S, T
  <2> QED BY <1>1, <1>2, <1>4, <1>5, <2>1
<1>6. CASE m.entry[k].len = 0 /\ e.len = 1
  <2>1. T = S \cup {k} /\ k \notin S
    BY <1>3, <1>6
  <2> HIDE DEF S, T
  <2>2. Cardinality(T) = Cardinality(S) + 1
    BY <1>1, <2>1, FS_AddElement
  <2> QED BY <1>1, <1>4, <1>6, <2>2
<1>7. CASE m.entry[k].len = 1 /\ e.len = 0
  <2>1. T = S \ {k} /\ k \in S
    BY <1>3, <1>7
  <2> HIDE DEF S, T
  <2>2. Cardinality(T) = Cardinality(S) - 1
    BY <1>1, <2>1, FS_RemoveElement
  <2> QED BY <1>1, <1>4, <1>7, <2>2
<1> QED BY <1>2, <1>5, <1>6, <1>7

\* Nothing that the entries, the edits or the size depend on changes.
Kept ==
  /\ mem'.initialized = mem.initialized /\ (Distinct(mem.lru) => SameKeys(mem.lru, mem'.lru))
  /\ mem'.entry = mem.entry /\ mem'.size = mem.size

\* The entry of k is removed, its edit is detached.
Drops(k) ==
  /\ mem'.initialized = mem.initialized /\ LosesKey(mem.lru, mem'.lru, k)
  /\ mem'.entry = [mem.entry EXCEPT ![k] = NoEntry]
  /\ mem.initialized = TRUE => mem'.size = mem.size - mem.entry[k].len

\* The edit of k ends, or is given up in its place.
Frees(k) ==
  /\ mem'.initialized = mem.initialized /\ mem'.lru = mem.lru /\ mem'.size = mem.size
  /\ \/ mem'.entry = [mem.entry EXCEPT ![k].editor = Nobody]
     \/ mem.entry[k].editor # Nobody /\ mem'.entry = [mem.entry EXCEPT ![k].editor = Stuck]

Calm == (\E k \in Keys : Drops(k) \/ Frees(k)) \/ Kept

\* A writer that stays, has no edit any more or goes on with it.
Fine(x) ==
  \/ writer'[x] = writer[x]
  \/ /\ writer'[x].own = <<>> /\ writer'[x].pc # "publish"
     /\ \A k \in Keys : mem'.entry[k].editor # x
  \/ /\ writer'[x].own = <<>> /\ writer'[x].key = writer[x].key
     /\ writer[x].pc \in Editing \ {"publish"} /\ writer'[x].pc \in Editing \ {"publish"}

Entries == Mapped /\ Edits /\ Sized

\* Nobody publishes while the lock is free or held for something else.
LEMMA NobodyPublishes ==
  ASSUME Edits, lock # <<"publish">>
  PROVE  /\ \A w \in Writers : writer[w].pc # "publish"
         /\ \A k \in Keys : ~Publishing(k)
BY DEF Edits, Publishing

LEMMA CalmMapped ==
  ASSUME Mapped, Types, Types', Calm
  PROVE  Mapped'
<1>0. mem \in MemType /\ mem' \in MemType /\ mem.entry \in [Keys -> EntryType]
  BY DEF Types, MemType
<1>1. ASSUME NEW k \in Keys, Drops(k) PROVE Mapped'
  <2>1. LosesKey(mem.lru, mem'.lru, k) /\ mem'.entry = [mem.entry EXCEPT ![k] = NoEntry]
    BY <1>1 DEF Drops
  <2> HIDE DEF NoEntry
  <2> QED BY <1>0, <2>1 DEF Mapped, LosesKey
<1>2. ASSUME NEW k \in Keys, Frees(k) PROVE Mapped'
  <2>0. PICK b \in {Nobody, Stuck} :
          /\ mem'.lru = mem.lru /\ mem'.entry = [mem.entry EXCEPT ![k].editor = b]
          /\ b = Stuck => mem.entry[k].editor # Nobody
    BY <1>2, Constants DEF Frees
  <2> DEFINE e == [mem.entry[k] EXCEPT !.editor = b]
  <2>1. mem'.lru = mem.lru /\ mem'.entry = [mem.entry EXCEPT ![k] = e]
    BY <1>0, <2>0
  <2>2. mem.entry[k] = NoEntry => e = NoEntry
    <3>1. mem.entry[k].editor = b => e = mem.entry[k]
      BY <1>0 DEF EntryType
    <3>2. NoEntry.editor = Nobody
      BY DEF NoEntry
    <3> HIDE DEF NoEntry, e
    <3> QED BY <2>0, <3>1, <3>2
  <2> HIDE DEF NoEntry, e
  <2>3. /\ mem'.entry[k] = e
        /\ \A x \in Keys \ {k} : mem'.entry[x] = mem.entry[x]
    BY <1>0, <2>1
  <2> QED BY <2>1, <2>2, <2>3 DEF Mapped
<1>3. CASE Kept
  BY <1>3 DEF Mapped, Kept, SameKeys
<1> QED BY <1>1, <1>2, <1>3 DEF Calm

LEMMA CalmEditors ==
  ASSUME Types, Types', Calm
  PROVE  /\ mem'.initialized = mem.initialized
         /\ \A k \in Keys : mem'.entry[k].editor \in {mem.entry[k].editor, Nobody, Stuck}
<1>0. mem \in MemType /\ mem' \in MemType /\ mem.entry \in [Keys -> EntryType]
  BY DEF Types, MemType
<1>1. ASSUME NEW k \in Keys, Drops(k)
      PROVE  /\ mem'.initialized = mem.initialized
             /\ \A x \in Keys : mem'.entry[x].editor \in {mem.entry[x].editor, Nobody, Stuck}
  BY <1>0, <1>1 DEF Drops, NoEntry
<1>2. ASSUME NEW k \in Keys, Frees(k)
      PROVE  /\ mem'.initialized = mem.initialized
             /\ \A x \in Keys : mem'.entry[x].editor \in {mem.entry[x].editor, Nobody, Stuck}
  BY <1>0, <1>2 DEF Frees, EntryType
<1>3. CASE Kept
  BY <1>3 DEF Kept
<1> QED BY <1>1, <1>2, <1>3 DEF Calm

LEMMA CalmEdits ==
  ASSUME Edits, lock # <<"publish">>, Types, Types',
         mem'.initialized = mem.initialized,
         \A k \in Keys : mem'.entry[k].editor \in {mem.entry[k].editor, Nobody, Stuck},
         \A x \in Writers : Fine(x)
  PROVE  Edits'
<1>1. \A w \in Writers : writer[w].pc # "publish"
  BY NobodyPublishes
<1>2. \A w \in Writers : writer'[w].pc # "publish" /\ writer'[w].own = <<>>
  BY <1>1 DEF Fine, Edits
<1>3. ASSUME NEW k \in Keys, mem'.entry[k].editor \in Writers
      PROVE  LET s == writer'[mem'.entry[k].editor] IN s.pc \in Editing /\ s.key = k
  <2> DEFINE x == mem'.entry[k].editor
  <2>1. x = mem.entry[k].editor /\ x \in Writers
    BY <1>3, Constants
  <2>2. writer[x].pc \in Editing /\ writer[x].key = k
    BY <2>1 DEF Edits
  <2>3. Fine(x)
    BY <2>1
  <2> QED BY <2>1, <2>2, <2>3 DEF Fine
<1>4. mem'.initialized = TRUE => \A k \in Keys : mem'.entry[k].editor # Replayed
  BY Constants DEF Edits
<1> QED BY <1>2, <1>3, <1>4 DEF Edits

LEMMA CalmSized ==
  ASSUME Sized, Edits, lock # <<"publish">>, Types, Types', Calm
  PROVE  Sized'
<1>0. mem \in MemType /\ mem' \in MemType /\ mem.entry \in [Keys -> EntryType]
  BY DEF Types, MemType
<1>1. \A k \in Keys : mem.entry[k].len = 1 => mem.entry[k].readable = TRUE
  BY NobodyPublishes DEF Sized
<1>2. mem.initialized = TRUE => mem.size = Taken(mem)
  BY DEF Sized, SizeOK
<1>size. mem.size \in Int /\ Taken(mem) \in Int
  BY <1>0, TakenType DEF MemType
<1>3. ASSUME NEW k \in Keys, Drops(k) PROVE Sized'
  <2>1. /\ mem'.entry = [mem.entry EXCEPT ![k] = NoEntry] /\ mem'.initialized = mem.initialized
        /\ mem.initialized = TRUE => mem'.size = mem.size - mem.entry[k].len
    BY <1>3 DEF Drops
  <2>2. NoEntry.len = 0 /\ NoEntry \in EntryType
    BY EmptyEntry DEF NoEntry
  <2> HIDE DEF NoEntry
  <2>3. Taken(mem') = Taken(mem) - mem.entry[k].len + 0
    BY <1>0, <2>1, <2>2, TakenFacts
  <2>4. mem'.initialized = TRUE => mem'.size = Taken(mem')
    BY <1>0, <1>2, <2>1, <2>3 DEF MemType, EntryType
  <2>5. \A x \in Keys : mem'.entry[x].len = 1 => mem'.entry[x].readable = TRUE
    BY <1>0, <1>1, <2>1, <2>2
  <2> QED BY <2>4, <2>5 DEF Sized, SizeOK
<1>4. ASSUME NEW k \in Keys, Frees(k) PROVE Sized'
  <2>0. PICK b \in {Nobody, Stuck} :
          /\ mem'.entry = [mem.entry EXCEPT ![k].editor = b] /\ mem'.initialized = mem.initialized
          /\ mem'.size = mem.size
    BY <1>4 DEF Frees
  <2> DEFINE e == [mem.entry[k] EXCEPT !.editor = b]
  <2>1. /\ mem'.entry = [mem.entry EXCEPT ![k] = e] /\ mem'.initialized = mem.initialized
        /\ mem'.size = mem.size
    BY <1>0, <2>0
  <2>2. e \in EntryType /\ e.len = mem.entry[k].len /\ e.readable = mem.entry[k].readable
    BY <1>0 DEF EntryType
  <2> HIDE DEF e
  <2>3. Taken(mem') = Taken(mem) - mem.entry[k].len + e.len
    BY <1>0, <2>1, <2>2, TakenFacts
  <2>4. mem'.initialized = TRUE => mem'.size = Taken(mem')
    BY <1>0, <1>2, <1>size, <2>1, <2>2, <2>3 DEF EntryType
  <2>5. \A x \in Keys : mem'.entry[x].len = 1 => mem'.entry[x].readable = TRUE
    BY <1>0, <1>1, <2>1, <2>2
  <2> QED BY <2>4, <2>5 DEF Sized, SizeOK
<1>5. CASE Kept
  BY <1>1, <1>2, <1>5 DEF Kept, Sized, SizeOK, Taken
<1> QED BY <1>3, <1>4, <1>5 DEF Calm

LEMMA CalmStep ==
  ASSUME Entries, Types, Types', lock # <<"publish">>, Calm, \A x \in Writers : Fine(x)
  PROVE  Entries'
BY CalmMapped, CalmEditors, CalmEdits, CalmSized DEF Entries

LEMMA EffectsAreCalm ==
  /\ \A k \in Keys : Removed(Now, Then, k) => Drops(k)
  /\ \A k \in Keys : Detached(Now, Then, k) => Frees(k)
  /\ \A k \in Keys : Looked(Now, Then, k) => Kept
  /\ Alike(mem, mem') => Kept
<1>1. \A k \in Keys : Removed(Now, Then, k) => Drops(k)
  BY DEF Removed, Drops, Now, Then
<1>2. \A k \in Keys : Detached(Now, Then, k) => Frees(k)
  BY DEF Detached, Frees, Now, Then
<1>3. \A k \in Keys : Looked(Now, Then, k) => Kept
  BY DEF Looked, Kept, Now, Then
<1>4. Alike(mem, mem') => Kept
  BY DEF Alike, Kept, SameKeys
<1> QED BY <1>1, <1>2, <1>3, <1>4

\* An edit begins.
LEMMA StartedStep ==
  ASSUME Entries, Types, Types', lock # <<"publish">>, NEW w \in Writers, NEW k \in Keys,
         writer[w].pc = "idle", Started(Now, Then, k, w),
         writer'[w].pc = "sink", writer'[w].key = k, writer'[w].own = <<>>,
         \A x \in Writers \ {w} : writer'[x] = writer[x]
  PROVE  Entries'
<1>0. mem \in MemType /\ mem' \in MemType /\ mem.entry \in [Keys -> EntryType]
  BY DEF Types, MemType
<1>1. /\ mem'.initialized = mem.initialized /\ mem'.size = mem.size
      /\ \A x \in Keys \ {k} : mem'.entry[x] = mem.entry[x]
      /\ mem'.entry[k].editor = w /\ mem'.entry[k].readable = mem.entry[k].readable
      /\ mem'.entry[k].len = mem.entry[k].len
  BY DEF Started, Now, Then
<1>2. \A x \in Writers : writer[x].pc # "publish" /\ writer'[x].pc # "publish" /\ writer'[x].own = <<>>
  BY NobodyPublishes DEF Entries, Edits
<1>3. Mapped'
  <2>1. /\ Distinct(mem'.lru)
        /\ \A x \in Keys : Contains(mem'.lru, x) <=> Contains(mem.lru, x) \/ x = k
    BY DEF Started, Now, Then, Entries, Mapped
  <2> HIDE DEF NoEntry
  <2> QED BY <1>1, <2>1 DEF Entries, Mapped
<1>4. Edits'
  <2>1. ASSUME NEW x \in Keys, mem'.entry[x].editor \in Writers
        PROVE  LET s == writer'[mem'.entry[x].editor] IN s.pc \in Editing /\ s.key = x
    <3>1. CASE x = k
      BY <1>1, <3>1 DEF Editing
    <3>2. CASE x # k
      <4>1. mem'.entry[x] = mem.entry[x]
        BY <1>1, <3>2
      <4>2. writer[mem.entry[x].editor].pc \in Editing /\ writer[mem.entry[x].editor].key = x
        BY <2>1, <4>1 DEF Entries, Edits
      <4>3. mem.entry[x].editor # w
        BY <4>2 DEF Editing
      <4> QED BY <2>1, <4>1, <4>2, <4>3
    <3> QED BY <3>1, <3>2
  <2>2. mem'.initialized = TRUE => \A x \in Keys : mem'.entry[x].editor # Replayed
    BY <1>1, Constants DEF Entries, Edits
  <2> QED BY <1>2, <2>1, <2>2 DEF Edits
<1>5. Sized'
  <2>1. \A x \in Keys : mem'.entry[x].len = mem.entry[x].len /\ mem'.entry[x].readable = mem.entry[x].readable
    BY <1>1
  <2>2. \A x \in Keys : mem.entry[x].len = 1 => mem.entry[x].readable = TRUE
    BY NobodyPublishes DEF Entries, Sized
  <2>3. Taken(mem') = Taken(mem)
    BY <2>1 DEF Taken
  <2> QED BY <1>1, <2>1, <2>2, <2>3 DEF Entries, Sized, SizeOK
<1> QED BY <1>3, <1>4, <1>5 DEF Entries

\* An edit is given up.
LEMMA GivenUpStep ==
  ASSUME Entries, Types, Types', lock # <<"publish">>, NEW w \in Writers,
         writer[w].pc # "idle", mem.entry[writer[w].key].editor = w,
         NEW d \in DirType, NEW m \in MemType,
         GivenUp(Now, [d |-> d, m |-> m], writer[w].key), Flushed([d |-> d, m |-> m], Then),
         writer'[w].pc # "publish", writer'[w].own = <<>>,
         \A x \in Writers \ {w} : writer'[x] = writer[x]
  PROVE  Entries'
<1> DEFINE k == writer[w].key
<1>0. /\ mem \in MemType /\ mem' \in MemType /\ mem.entry \in [Keys -> EntryType] /\ k \in Keys
      /\ mem.size \in Int
  BY DEF Types, MemType
<1>1. /\ mem'.initialized = m.initialized /\ mem'.lru = m.lru /\ mem'.entry = m.entry
      /\ mem'.size = m.size
  BY DEF Flushed, Alike, Then
<1>2. m.initialized = mem.initialized /\ m.size = mem.size
  BY DEF GivenUp, Now
<1>3. Drops(k) \/ Frees(k)
  <2>1. CASE /\ mem.entry[k].readable = TRUE /\ m.lru = mem.lru
             /\ m.entry = [mem.entry EXCEPT ![k].editor = Nobody]
    BY <1>1, <1>2, <2>1 DEF Frees
  <2>2. CASE /\ mem.entry[k].readable = FALSE /\ LosesKey(mem.lru, m.lru, k)
             /\ m.entry = [mem.entry EXCEPT ![k] = NoEntry]
    <3>1. mem.entry[k].len = 0
      <4>1. mem.entry[k].len # 1
        BY <1>0, <2>2, NobodyPublishes DEF Entries, Sized
      <4> QED BY <1>0, <4>1 DEF EntryType
    <3> HIDE DEF NoEntry
    <3> QED BY <1>0, <1>1, <1>2, <2>2, <3>1 DEF Drops
  <2> QED BY <2>1, <2>2 DEF GivenUp, Now
<1>4. \A x \in Keys : mem'.entry[x].editor # w
  <2>1. \A x \in Keys : mem.entry[x].editor = w => x = k
    BY DEF Entries, Edits
  <2>2. mem'.entry[k].editor \in {Nobody, Stuck}
    <3>1. CASE Drops(k)
      BY <1>0, <3>1 DEF Drops, NoEntry
    <3>2. CASE Frees(k)
      BY <1>0, <3>2 DEF Frees, EntryType
    <3> QED BY <1>3, <3>1, <3>2
  <2>3. \A x \in Keys \ {k} : mem'.entry[x] = mem.entry[x]
    BY <1>0, <1>3 DEF Drops, Frees
  <2> QED BY <2>1, <2>2, <2>3, Constants
<1>5. \A x \in Writers : Fine(x)
  BY <1>4 DEF Fine
<1>6. Calm
  BY <1>0, <1>3 DEF Calm
<1> QED BY <1>5, <1>6, CalmStep

\* The file of an edit is renamed, its entry is not readable yet.
LEMMA RenamedStep ==
  ASSUME Entries, Types, Types', Free, NEW w \in Writers, writer[w].pc # "idle",
         mem.entry[writer[w].key].editor = w, lock' = <<"publish">>, Moved(w, "publish"),
         \/ Renamed(Now, Then, writer[w].key)
         \/ mem' = mem /\ mem.entry[writer[w].key].readable = TRUE
  PROVE  Entries'
<1> DEFINE k == writer[w].key
<1>0. /\ mem \in MemType /\ mem' \in MemType /\ mem.entry \in [Keys -> EntryType] /\ k \in Keys
      /\ mem.size \in Int
  BY DEF Types, MemType
<1>1. \A x \in Writers : writer[x].pc # "publish"
  BY NobodyPublishes DEF Entries, Free
<1>2. /\ \A x \in Writers : writer'[x].key = writer[x].key /\ writer'[x].own = <<>>
      /\ \A x \in Writers \ {w} : writer'[x] = writer[x]
      /\ writer'[w].pc = "publish"
  BY DEF Moved, Entries, Edits
<1> DEFINE e == [mem.entry[k] EXCEPT !.len = 1]
<1>3. \/ /\ mem'.entry = [mem.entry EXCEPT ![k] = e] /\ mem'.size = mem.size - mem.entry[k].len + 1
         /\ mem'.lru = mem.lru /\ mem'.initialized = mem.initialized
      \/ mem' = mem /\ mem.entry[k].readable = TRUE
  BY <1>0 DEF Renamed, Now, Then
<1>4. e \in EntryType /\ e.len = 1 /\ e.editor = mem.entry[k].editor /\ e.readable = mem.entry[k].readable
  BY <1>0 DEF EntryType
<1> HIDE DEF e
<1>5. /\ \A x \in Keys : mem'.entry[x].editor = mem.entry[x].editor
      /\ \A x \in Keys \ {k} : mem'.entry[x] = mem.entry[x]
      /\ mem'.lru = mem.lru /\ mem'.initialized = mem.initialized
  <2>1. CASE mem'.entry = [mem.entry EXCEPT ![k] = e]
    BY <1>0, <1>3, <1>4, <2>1
  <2> QED BY <1>3, <2>1
<1>6. Mapped'
  <2>1. mem.entry[k] # NoEntry
    BY Constants DEF NoEntry
  <2> HIDE DEF NoEntry
  <2> QED BY <1>5, <2>1 DEF Entries, Mapped
<1>7. Edits'
  <2>1. ASSUME NEW x \in Keys, mem'.entry[x].editor \in Writers
        PROVE  LET s == writer'[mem'.entry[x].editor] IN s.pc \in Editing /\ s.key = x
    <3>1. writer[mem.entry[x].editor].pc \in Editing /\ writer[mem.entry[x].editor].key = x
      BY <1>5, <2>1 DEF Entries, Edits
    <3> QED BY <1>2, <1>5, <2>1, <3>1 DEF Editing
  <2>2. mem'.initialized = TRUE => \A x \in Keys : mem'.entry[x].editor # Replayed
    BY <1>5 DEF Entries, Edits
  <2>3. \A x \in Writers : writer'[x].pc = "publish" => x = w
    BY <1>1, <1>2
  <2> QED BY <1>0, <1>2, <1>5, <2>1, <2>2, <2>3 DEF Edits
<1>8. Sized'
  <2>1. \A x \in Keys : mem.entry[x].len = 1 => mem.entry[x].readable = TRUE
    BY <1>1 DEF Entries, Sized, Publishing
  <2>2. \A x \in Keys : x = k => Publishing(x)'
    BY <1>0, <1>2, <1>5 DEF Publishing
  <2>3. \A x \in Keys : mem'.entry[x].len = 1 => mem'.entry[x].readable = TRUE \/ Publishing(x)'
    BY <1>5, <2>1, <2>2
  <2>4. mem'.initialized = TRUE => mem'.size = Taken(mem')
    <3>1. mem.initialized = TRUE => mem.size = Taken(mem)
      BY DEF Entries, Sized, SizeOK
    <3>2. CASE mem' = mem
      BY <3>1, <3>2
    <3>3. CASE /\ mem'.entry = [mem.entry EXCEPT ![k] = e]
               /\ mem'.size = mem.size - mem.entry[k].len + 1
      <4>1. Taken(mem') = Taken(mem) - mem.entry[k].len + 1
        BY <1>0, <1>4, <3>3, TakenFacts
      <4> QED BY <1>5, <3>1, <3>3, <4>1
    <3> QED BY <1>3, <3>2, <3>3
  <2> QED BY <2>3, <2>4 DEF Sized, SizeOK
<1> QED BY <1>6, <1>7, <1>8 DEF Entries

\* The entry becomes readable.
LEMMA PublishStep ==
  ASSUME Entries, Types, Types', NEW w \in Writers, publish(w)
  PROVE  Entries'
<1> DEFINE k == writer[w].key
<1>0. /\ mem \in MemType /\ mem' \in MemType /\ mem.entry \in [Keys -> EntryType] /\ k \in Keys
      /\ mem.size \in Int /\ writer \in [Writers -> WriterType]
  BY DEF Types, MemType, publish
<1>1. writer[w].pc = "publish" /\ mem.entry[k].editor = w /\ writer[w].own = <<>>
  BY DEF publish, Entries, Edits
<1>2. \A x \in Writers : writer[x].pc = "publish" => x = w
  BY <1>1 DEF Entries, Edits
<1>3. /\ writer'[w].pc = "close" /\ writer'[w].own = <<>>
      /\ \A x \in Writers \ {w} : writer'[x] = writer[x]
  <2>1. writer' = [writer EXCEPT ![w] = [writer[w] EXCEPT !.pc = "close", !.own = <<>>]]
    BY <1>0 DEF publish
  <2> QED BY <1>0, <2>1 DEF WriterType
<1> DEFINE e == [mem.entry[k] EXCEPT !.editor = Nobody, !.readable = TRUE]
<1>4. /\ mem'.initialized = mem.initialized /\ mem'.lru = mem.lru /\ mem'.size = mem.size
      /\ mem'.entry = [mem.entry EXCEPT ![k] = e]
  <2>1. PICK m \in MemType : /\ Opened(Now, [d |-> disk, m |-> m], k)
                             /\ Flushed([d |-> disk, m |-> m], Then)
    BY <1>1, PublishEffect
  <2>2. /\ m.initialized = mem.initialized /\ m.lru = mem.lru /\ m.size = mem.size
        /\ m.entry = [mem.entry EXCEPT ![k].editor = Nobody, ![k].readable = TRUE]
    BY <2>1 DEF Opened, Now
  <2>3. /\ mem'.initialized = m.initialized /\ mem'.lru = m.lru /\ mem'.size = m.size
        /\ mem'.entry = m.entry
    BY <2>1 DEF Flushed, Alike, Then
  <2>4. m.entry = [mem.entry EXCEPT ![k] = e]
    BY <1>0, <2>2
  <2> HIDE DEF e
  <2> QED BY <2>2, <2>3, <2>4
<1>5. e \in EntryType /\ e.len = mem.entry[k].len /\ e.editor = Nobody /\ e.readable = TRUE
  BY <1>0 DEF EntryType
<1> HIDE DEF e
<1>6. mem'.entry[k] = e /\ \A x \in Keys \ {k} : mem'.entry[x] = mem.entry[x]
  BY <1>0, <1>4
<1>7. Mapped'
  <2>1. mem.entry[k] # NoEntry
    BY <1>1, Constants DEF NoEntry
  <2> HIDE DEF NoEntry
  <2> QED BY <1>4, <1>6, <2>1 DEF Entries, Mapped
<1>8. Edits'
  <2>1. ASSUME NEW x \in Keys, mem'.entry[x].editor \in Writers
        PROVE  LET s == writer'[mem'.entry[x].editor] IN s.pc \in Editing /\ s.key = x
    <3>1. x # k
      BY <1>5, <1>6, <2>1, Constants
    <3>2. writer[mem.entry[x].editor].pc \in Editing /\ writer[mem.entry[x].editor].key = x
      BY <1>6, <2>1, <3>1 DEF Entries, Edits
    <3> QED BY <1>3, <1>6, <2>1, <3>1, <3>2
  <2>2. mem'.initialized = TRUE => \A x \in Keys : mem'.entry[x].editor # Replayed
    BY <1>4, <1>5, <1>6, Constants DEF Entries, Edits
  <2>3. \A x \in Writers : writer'[x].pc # "publish" /\ writer'[x].own = <<>>
    BY <1>2, <1>3 DEF Entries, Edits
  <2> QED BY <2>1, <2>2, <2>3 DEF Edits
<1>9. Sized'
  <2>1. \A x \in Keys \ {k} : ~Publishing(x)
    BY <1>2 DEF Publishing, Entries, Edits
  <2>2. \A x \in Keys : mem'.entry[x].len = 1 => mem'.entry[x].readable = TRUE
    BY <1>5, <1>6, <2>1 DEF Entries, Sized
  <2>3. Taken(mem') = Taken(mem) - mem.entry[k].len + e.len
    BY <1>0, <1>4, <1>5, TakenFacts
  <2>4. Taken(mem) \in Nat /\ mem.entry[k].len \in {0, 1}
    BY <1>0, TakenType DEF EntryType
  <2> QED BY <1>4, <1>5, <2>2, <2>3, <2>4 DEF Entries, Sized, SizeOK
<1> QED BY <1>7, <1>8, <1>9 DEF Entries

\* The cache is being opened: nobody edits.
LEMMA OpeningIsQuiet ==
  ASSUME Locked, At("read") \/ At("process") \/ At("done")
  PROVE  /\ mem.initialized # TRUE
         /\ lock # <<"publish">>
         /\ At("done") => ~Loaded
<1>1. ~Working /\ lock # <<"publish">>
  BY DEF At, Free, Working, Rebuilding
<1>2. At("done") => ~Rebuilding(lock, "process")
  BY DEF At, Free, Rebuilding
<1> QED BY <1>1, <1>2 DEF Locked, Loaded

LEMMA ReadStep ==
  ASSUME Entries, Locked, Types, Types', readJournal
  PROVE  Entries'
<1> DEFINE lines == disk.journal.lines
<1>0. lines \in Seq(LineType) /\ mem.initialized = FALSE
  BY OpeningIsQuiet DEF Types, DirType, FileType, MemType, readJournal
<1>1. writer' = writer /\ \A w \in Writers : writer[w] = Resting
  BY <1>0 DEF readJournal, Locked
<1>2. CASE mem' = mem
  <2>1. Calm
    BY <1>2 DEF Calm, Kept, SameKeys
  <2>2. \A x \in Writers : Fine(x)
    BY <1>1 DEF Fine
  <2> QED BY <2>1, <2>2, OpeningIsQuiet, CalmStep DEF readJournal
<1>3. ASSUME NEW lru \in Order(lines),
             mem'.lru = lru, mem'.entry = Replay(lines), mem'.initialized = FALSE
      PROVE  Entries'
  <2> HIDE DEF lines, NoEntry
  <2>0. \A k \in Keys : LET e == Replay(lines)[k] IN
          /\ LinesOf(lines, k) = {} => e = NoEntry
          /\ e.editor \in {Nobody, Replayed}
          /\ e.len = 1 => e.readable = TRUE
    BY <1>0, ReplayFacts
  <2>1. Mapped'
    <3>1. Distinct(lru) /\ \A k \in Keys : Contains(lru, k) <=> LinesOf(lines, k) # {}
      BY <1>0, OrderFacts
    <3> QED BY <1>3, <2>0, <3>1 DEF Mapped
  <2>2. Resting.pc = "idle" /\ Resting.own = <<>>
    BY DEF Resting
  <2> HIDE DEF Resting
  <2>3. \A k \in Keys : mem'.entry[k].editor \notin Writers
    BY <1>3, <2>0, Constants
  <2>4. Edits'
    BY <1>1, <1>3, <2>2, <2>3 DEF Edits
  <2>5. Sized'
    BY <1>3, <2>0 DEF Sized, SizeOK
  <2> QED BY <2>1, <2>4, <2>5 DEF Entries
<1>4. ASSUME NEW lru \in Order(lines), NEW c,
             mem' = [Closed EXCEPT !.lru = lru, !.entry = Replay(lines), !.journalWriter = "file",
                                   !.redundantOpCount = c]
      PROVE  mem'.lru = lru /\ mem'.entry = Replay(lines) /\ mem'.initialized = FALSE
  BY <1>4 DEF Closed
<1> QED BY <1>2, <1>3, <1>4 DEF readJournal

LEMMA ProcessStep ==
  ASSUME Entries, Locked, Types, Types', processJournal
  PROVE  Entries'
<1>0. /\ mem.initialized = FALSE /\ mem \in MemType /\ mem.entry \in [Keys -> EntryType]
      /\ mem.lru \in Seq(Keys) /\ mem' \in MemType /\ lock # <<"publish">>
  BY OpeningIsQuiet DEF Types, MemType, processJournal
<1>1. writer' = writer /\ \A w \in Writers : writer[w] = Resting
  BY <1>0 DEF processJournal, Locked
<1>2. \A x \in Writers : Fine(x)
  BY <1>1 DEF Fine
<1>3. CASE mem' = mem
  <2>1. Calm
    BY <1>3 DEF Calm, Kept, SameKeys
  <2> QED BY <1>0, <1>2, <2>1, CalmStep
<1>4. ASSUME NEW k \in Keys, mem' = [mem EXCEPT !.lru = Without(@, k), !.entry[k] = NoEntry]
      PROVE  Entries'
  <2>1. Drops(k)
    <3>1. LosesKey(mem.lru, Without(mem.lru, k), k)
      BY <1>0, WithoutFacts DEF LosesKey
    <3> DEFINE l == Without(mem.lru, k)
               f == [mem.entry EXCEPT ![k] = NoEntry]
    <3>2. mem' = [mem EXCEPT !.lru = l, !.entry = f]
      BY <1>0, <1>4 DEF MemType
    <3> HIDE DEF l, f
    <3>3. mem'.initialized = mem.initialized /\ mem'.lru = l /\ mem'.entry = f
      BY <1>0, <3>2 DEF MemType
    <3> QED BY <1>0, <3>1, <3>3 DEF Drops, l, f
  <2>2. Calm
    BY <2>1 DEF Calm
  <2> QED BY <1>0, <1>2, <2>2, CalmStep
<1>5. CASE /\ {k \in Keys : mem.entry[k].editor = Replayed} = {}
           /\ mem' = [mem EXCEPT !.size = Taken(mem), !.initialized = TRUE]
  <2>1. mem'.lru = mem.lru /\ mem'.entry = mem.entry /\ mem'.size = Taken(mem)
    BY <1>0, <1>5 DEF MemType
  <2>2. Taken(mem') = Taken(mem)
    BY <2>1 DEF Taken
  <2>3. Mapped'
    BY <2>1 DEF Entries, Mapped
  <2>4. Edits'
    <3>1. \A k \in Keys : mem.entry[k].editor # Replayed
      BY <1>5
    <3>2. Resting.pc = "idle"
      BY DEF Resting
    <3> HIDE DEF Resting
    <3> QED BY <1>1, <2>1, <3>1, <3>2 DEF Entries, Edits
  <2>5. Sized'
    <3>1. \A k \in Keys : mem.entry[k].len = 1 => mem.entry[k].readable = TRUE
      BY <1>0, NobodyPublishes DEF Entries, Sized
    <3> QED BY <2>1, <2>2, <3>1 DEF Sized, SizeOK
  <2> QED BY <2>3, <2>4, <2>5 DEF Entries
<1> QED BY <1>3, <1>4, <1>5 DEF processJournal

\* An empty cache takes no space.
LEMMA EmptyIsFine ==
  ASSUME Types', \A k \in Keys : mem'.entry[k] = NoEntry, mem'.lru = <<>>, mem'.size = 0,
         \A w \in Writers : writer'[w] = Resting
  PROVE  Entries'
<1>1. /\ NoEntry.len = 0 /\ NoEntry.editor = Nobody /\ Resting.own = <<>> /\ Resting.pc = "idle"
  BY DEF NoEntry, Resting
<1> HIDE DEF NoEntry, Resting
<1>2. Mapped'
  BY DEF Mapped, Distinct
<1>3. Edits'
  BY <1>1, Constants DEF Edits
<1>4. Taken(mem') = 0
  <2>1. {k \in Keys : mem'.entry[k].len = 1} = {}
    BY <1>1
  <2> QED BY <2>1, FS_EmptySet DEF Taken
<1>5. Sized'
  BY <1>1, <1>4 DEF Sized, SizeOK
<1> QED BY <1>2, <1>3, <1>5 DEF Entries

LEMMA OpenedEmptyStep ==
  ASSUME Locked, Types, Types', openedEmpty
  PROVE  Entries'
<1>0. mem.initialized = FALSE /\ mem \in MemType /\ ~Loaded
  BY OpeningIsQuiet DEF Types, MemType, openedEmpty
<1>1. /\ mem.entry = [k \in Keys |-> NoEntry] /\ mem.lru = <<>> /\ mem.size = 0
      /\ \A w \in Writers : writer[w] = Resting
  BY <1>0 DEF Locked
<1>2. mem'.entry = mem.entry /\ mem'.lru = mem.lru /\ mem'.size = mem.size /\ writer' = writer
  BY <1>0 DEF openedEmpty, MemType
<1> HIDE DEF NoEntry, Resting
<1> QED BY <1>1, <1>2, EmptyIsFine

LEMMA RestartStep ==
  ASSUME Types', restart
  PROVE  Entries'
<1>1. /\ mem'.entry = [k \in Keys |-> NoEntry] /\ mem'.lru = <<>> /\ mem'.size = 0
  BY DEF restart, Closed
<1>2. writer' = [w \in Writers |-> Resting]
  BY DEF restart
<1> HIDE DEF NoEntry, Resting
<1> QED BY <1>1, <1>2, EmptyIsFine

\* The entries, the edits and the size through every step.
LEMMA EntriesStep ==
  ASSUME Base, Types', Next, Gaps = FALSE
  PROVE  Entries'
<1>0. /\ Types /\ Entries /\ Locked /\ disk \in DirType /\ mem \in MemType
      /\ writer \in [Writers -> WriterType] /\ Distinct(mem.lru)
      /\ \A w \in Writers : writer[w].own = <<>>
      /\ mem.initialized \in BOOLEAN
  BY DEF Base, Types, Entries, Mapped, Edits, MemType
<1>edit. \A w \in Writers : writer[w].pc \notin Editing => \A k \in Keys : mem.entry[k].editor # w
  BY DEF Base, Edits
<1>free. Free => lock # <<"publish">>
  BY DEF Free
<1>at. \A s \in Steps \ {"publish"} : At(s) => lock # <<"publish">>
  BY DEF At, Free
\* The steps that change no entry and no writer, and those of one writer.
<1>kept. ASSUME Kept, lock # <<"publish">>, \A x \in Writers : Fine(x) PROVE Entries'
  BY <1>0, <1>kept, CalmStep DEF Calm
<1>all. ASSUME writer' = writer PROVE \A x \in Writers : Fine(x)
  BY <1>all DEF Fine
<1>same. ASSUME mem' = mem PROVE Kept
  BY <1>same DEF Kept, SameKeys
<1>goto. ASSUME NEW w \in Writers, NEW pc \in {"commit", "abort", "check"}, Goto(w, pc),
                (writer[w].pc \in {"data", "commit"} /\ pc # "check") \/ writer[w].pc = "close",
                mem' = mem
         PROVE  \A x \in Writers : Fine(x)
  <2>1. writer' = [writer EXCEPT ![w] = [writer[w] EXCEPT !.pc = pc]]
    BY <1>0, <1>goto DEF Goto
  <2>2. /\ writer'[w].pc = pc /\ writer'[w].key = writer[w].key /\ writer'[w].own = <<>>
        /\ \A x \in Writers \ {w} : writer'[x] = writer[x]
    BY <1>0, <2>1 DEF WriterType
  <2>3. CASE writer[w].pc \in {"data", "commit"} /\ pc # "check"
    BY <2>2, <2>3 DEF Fine, Editing
  <2>4. CASE writer[w].pc = "close"
    <3>1. \A k \in Keys : mem'.entry[k].editor # w
      BY <1>edit, <1>goto, <2>4 DEF Editing
    <3> QED BY <2>2, <3>1 DEF Fine
  <2> QED BY <1>goto, <2>3, <2>4
<1>1. CASE initialize
  <2>1. mem' = mem /\ writer' = writer /\ Free
    BY <1>1 DEF initialize
  <2> QED BY <1>free, <1>kept, <1>all, <1>same, <2>1
<1>2. CASE readJournal
  BY <1>0, <1>2, ReadStep
<1>3. CASE wipe
  <2>1. mem' = mem /\ writer' = writer /\ lock # <<"publish">>
    BY <1>3, <1>at DEF wipe, Steps
  <2> QED BY <1>kept, <1>all, <1>same, <2>1
<1>4. CASE processJournal
  BY <1>0, <1>4, ProcessStep
<1>5. CASE openedEmpty
  BY <1>0, <1>5, OpenedEmptyStep
<1>6. CASE rebuildJournal
  <2>1. writer' = writer
    BY <1>6 DEF rebuildJournal
  <2>2. lock # <<"publish">>
    BY <1>6, <1>at DEF rebuildJournal, Steps
  <2>3. ASSUME NEW bad \in BOOLEAN, NEW s \in Flush(Now, bad), Become(s) PROVE Kept
    <3>1. Flushed(Now, s) /\ mem' = s.m
      BY <1>0, <2>3, FlushFacts DEF Now, Become
    <3> QED BY <3>1 DEF Flushed, Alike, Kept, SameKeys, Now
  <2>4. ASSUME mem' = [mem EXCEPT !.journalWriter = "file", !.rebuildFailed = FALSE] PROVE Kept
    <3>1. /\ mem'.initialized = mem.initialized /\ mem'.lru = mem.lru /\ mem'.entry = mem.entry
          /\ mem'.size = mem.size
      BY <1>0, <2>4 DEF MemType
    <3> QED BY <3>1 DEF Kept, SameKeys
  <2>5. \/ \E bad \in BOOLEAN : \E s \in Flush(Now, bad) : Become(s)
        \/ mem' = mem
        \/ mem' = [mem EXCEPT !.journalWriter = "file", !.rebuildFailed = FALSE]
    BY <1>6 DEF rebuildJournal
  <2>6. Kept
    BY <1>same, <2>3, <2>4, <2>5
  <2> QED BY <1>kept, <1>all, <2>1, <2>2, <2>6
<1>7. CASE runCleanup
  <2>1. writer' = writer /\ Free
    BY <1>7 DEF runCleanup
  <2>2. Kept
    BY <1>0, <1>7 DEF runCleanup, Kept, SameKeys, MemType
  <2> QED BY <1>free, <1>kept, <1>all, <2>1, <2>2
<1>8. CASE trimToSize
  <2>1. mem.size > MaxSize => mem.lru # <<>>
    BY <1>8, TrimFinds DEF trimToSize
  <2>2. \/ mem.lru # <<>> /\ Removed(Now, Then, Head(mem.lru))
        \/ mem.lru # <<>> /\ Detached(Now, Then, Head(mem.lru))
        \/ Alike(mem, mem')
    BY <1>0, <1>8, <2>1, TrimEffect
  <2>3. mem.lru # <<>> => Head(mem.lru) \in Keys
    BY <1>0 DEF MemType
  <2>4. Calm
    BY <2>2, <2>3, EffectsAreCalm DEF Calm
  <2>5. writer' = writer /\ lock # <<"publish">>
    BY <1>8, <1>at DEF trimToSize, Steps
  <2> QED BY <1>0, <1>all, <2>4, <2>5, CalmStep
<1>9. CASE compactJournal
  <2>1. mem' = mem /\ writer' = writer /\ lock # <<"publish">>
    BY <1>9, <1>at DEF compactJournal, Steps
  <2> QED BY <1>kept, <1>all, <1>same, <2>1
<1>10. CASE compacted
  <2>1. writer' = writer /\ lock # <<"publish">>
    BY <1>10, <1>at DEF compacted, Steps
  <2>2. Kept
    BY <1>0, <1>10 DEF compacted, Kept, SameKeys, MemType
  <2> QED BY <1>kept, <1>all, <2>1, <2>2
<1>11. CASE rebuildFails
  <2>1. writer' = writer /\ lock # <<"publish">>
    BY <1>11 DEF rebuildFails
  <2>2. Kept
    BY <1>0, <1>11 DEF rebuildFails, Kept, SameKeys, MemType
  <2> QED BY <1>kept, <1>all, <2>1, <2>2
<1>12. ASSUME NEW w \in Writers, NEW k \in Keys, edit(w, k) PROVE Entries'
  <2>1. \/ Looked(Now, Then, k) /\ writer' = writer
        \/ /\ Started(Now, Then, k, w)
           /\ writer' = [writer EXCEPT ![w] = [pc |-> "sink", key |-> k, ver |-> count.stores + 1,
                                               sink |-> FALSE, own |-> <<>>]]
    BY <1>0, <1>12, EditEffect
  <2>2. Free /\ writer[w].pc = "idle"
    BY <1>12 DEF edit, Ready
  <2>3. CASE Looked(Now, Then, k) /\ writer' = writer
    BY <1>free, <1>kept, <1>all, <2>2, <2>3, EffectsAreCalm
  <2>4. CASE /\ Started(Now, Then, k, w)
             /\ writer' = [writer EXCEPT ![w] = [pc |-> "sink", key |-> k, ver |-> count.stores + 1,
                                                 sink |-> FALSE, own |-> <<>>]]
    <3>1. /\ writer'[w].pc = "sink" /\ writer'[w].key = k /\ writer'[w].own = <<>>
          /\ \A x \in Writers \ {w} : writer'[x] = writer[x]
      BY <1>0, <2>4
    <3> QED BY <1>0, <1>free, <2>2, <2>4, <3>1, StartedStep
  <2> QED BY <2>1, <2>3, <2>4
<1>13. ASSUME NEW w \in Writers, NEW k \in Keys, editFails(w, k) PROVE Entries'
  <2>1. PICK m \in MemType : Dirtied(Now, m, k) /\ Flushed([d |-> disk, m |-> m], Then)
    BY <1>0, <1>13, EditFailsEffect
  <2>2. Kept
    BY <2>1 DEF Dirtied, Flushed, Alike, Kept, Now, Then
  <2>3. Free /\ writer' = writer
    BY <1>13 DEF editFails, Ready
  <2> QED BY <1>free, <1>kept, <1>all, <2>2, <2>3
<1>14. ASSUME NEW w \in Writers, newSink(w) PROVE Entries'
  <2>1. Free /\ mem' = mem /\ writer[w].pc = "sink"
    BY <1>14 DEF newSink
  <2>2. Moved(w, "data")
    BY <1>0, <1>14, SinkEffect
  <2>3. /\ writer'[w].pc = "data" /\ writer'[w].key = writer[w].key /\ writer'[w].own = <<>>
        /\ \A x \in Writers \ {w} : writer'[x] = writer[x]
    BY <1>0, <2>2 DEF Moved
  <2>4. \A x \in Writers : Fine(x)
    BY <2>1, <2>3 DEF Fine, Editing
  <2> QED BY <1>free, <1>kept, <1>same, <2>1, <2>4
<1>15. ASSUME NEW w \in Writers, write(w) PROVE Entries'
  <2>1. Free /\ mem' = mem /\ writer[w].pc = "data" /\ Goto(w, "commit")
    BY <1>15 DEF write
  <2> QED BY <1>free, <1>kept, <1>same, <1>goto, <2>1
<1>16. ASSUME NEW w \in Writers, writeFails(w) PROVE Entries'
  <2>1. /\ Moved(w, "commit")
        /\ IF mem.entry[writer[w].key].editor = w THEN Detached(Now, Then, writer[w].key)
           ELSE disk' = disk /\ mem' = mem
    BY <1>0, <1>16, WriteFailsEffect
  <2>2. Free /\ writer[w].pc = "data" /\ writer[w].key \in Keys
    BY <1>0, <1>16 DEF writeFails, Types
  <2>3. Calm
    BY <1>same, <2>1, <2>2, EffectsAreCalm DEF Calm
  <2>4. \A x \in Writers : Fine(x)
    BY <1>0, <2>1, <2>2 DEF Fine, Moved, Editing
  <2> QED BY <1>0, <1>free, <2>2, <2>3, <2>4, CalmStep
<1>17. ASSUME NEW w \in Writers, downloadFails(w) PROVE Entries'
  <2>1. Free /\ mem' = mem /\ writer[w].pc = "data" /\ Goto(w, "abort")
    BY <1>17 DEF downloadFails
  <2> QED BY <1>free, <1>kept, <1>same, <1>goto, <2>1
<1>rest. ASSUME NEW w \in Writers, writer' = [writer EXCEPT ![w] = Resting]
         PROVE  /\ writer'[w].pc = "idle" /\ writer'[w].own = <<>>
                /\ \A x \in Writers \ {w} : writer'[x] = writer[x]
  BY <1>0, <1>rest DEF Resting
<1>18. ASSUME NEW w \in Writers, abort(w) PROVE Entries'
  <2>1. Free /\ writer[w].pc = "abort" /\ writer' = [writer EXCEPT ![w] = Resting]
    BY <1>18 DEF abort
  <2>2. CASE Current(w)
    <3>1. mem.entry[writer[w].key].editor = w /\ FinishEdit(Aborted(w))
      BY <1>0, <1>18, <2>2 DEF abort, Current
    <3>2. PICK d \in DirType, m \in MemType :
            /\ GivenUp(Now, [d |-> d, m |-> m], writer[w].key)
            /\ Flushed([d |-> d, m |-> m], Then)
      BY <1>0, <2>1, <3>1, AbortEffect
    <3> QED BY <1>0, <1>free, <1>rest, <2>1, <3>1, <3>2, GivenUpStep
  <2>3. CASE ~Current(w)
    <3>1. mem' = mem /\ mem.entry[writer[w].key].editor # w
      BY <1>18, <2>1, <2>3 DEF abort, Current
    <3>2. \A k \in Keys : mem'.entry[k].editor # w
      BY <3>1 DEF Base, Edits
    <3>3. \A x \in Writers : Fine(x)
      BY <1>rest, <2>1, <3>2 DEF Fine
    <3> QED BY <1>free, <1>kept, <1>same, <2>1, <3>1, <3>3
  <2> QED BY <2>2, <2>3
<1>18a. ASSUME NEW w \in Writers, abortFails(w) PROVE Entries'
  <2> DEFINE k == writer[w].key
  <2>1. /\ k \in Keys /\ mem.entry[k].editor = w /\ mem' \in MemType /\ StuckBy(mem, mem', k)
        /\ writer' = [writer EXCEPT ![w] = Resting] /\ Free
    BY <1>0, <1>18a, AbortFailsEffect DEF abortFails
  <2>2. Frees(k)
    BY <2>1, Constants DEF StuckBy, Frees
  <2>3. Calm
    BY <2>1, <2>2 DEF Calm
  <2>4. \A x \in Keys : mem'.entry[x].editor # w
    <3>1. \A x \in Keys : mem.entry[x].editor = w => x = k
      BY DEF Base, Edits
    <3>2. mem'.entry[k].editor = Stuck /\ \A x \in Keys \ {k} : mem'.entry[x] = mem.entry[x]
      <4>1. mem.entry \in [Keys -> EntryType]
        BY <1>0 DEF MemType
      <4>2. mem'.entry = [mem.entry EXCEPT ![k].editor = Stuck]
        BY <2>1 DEF StuckBy
      <4> QED BY <2>1, <4>1, <4>2 DEF EntryType
    <3> QED BY <3>1, <3>2, Constants
  <2>5. \A x \in Writers : Fine(x)
    BY <1>rest, <2>1, <2>4 DEF Fine
  <2> QED BY <1>0, <1>free, <2>1, <2>3, <2>5, CalmStep
<1>19. ASSUME NEW w \in Writers, commit(w) PROVE Entries'
  <2> DEFINE k == writer[w].key
  <2>1. Free /\ writer[w].pc = "commit"
    BY <1>19 DEF commit
  <2>2. \/ mem.entry[k].editor # w /\ mem' = mem /\ Moved(w, "close")
        \/ mem.entry[k].editor = w /\ FinishEdit(Aborted(w)) /\ Moved(w, "close")
        \/ /\ mem.entry[k].editor = w /\ lock' = <<"publish">> /\ Moved(w, "publish")
           /\ Renamed(Now, Then, k) \/ (mem' = mem /\ mem.entry[k].readable = TRUE)
    <3>1. \/ mem.entry[k].editor # w /\ mem' = mem /\ Moved(w, "close")
          \/ mem.entry[k].editor = w /\ FinishEdit(Aborted(w)) /\ Moved(w, "close")
          \/ /\ mem.entry[k].editor = w /\ lock' = <<"publish">> /\ Moved(w, "publish")
             /\ Renamed(Now, Then, k)
          \/ /\ mem.entry[k].editor = w /\ lock' = <<"publish">> /\ Moved(w, "publish")
             /\ mem' = mem /\ mem.entry[k].readable = TRUE
      BY <1>0, <1>19, CommitEffect
    <3> QED BY <3>1
  <2>3. CASE mem.entry[k].editor # w /\ mem' = mem /\ Moved(w, "close")
    <3>1. \A x \in Keys : mem'.entry[x].editor # w
      BY <2>3 DEF Base, Edits
    <3>2. \A x \in Writers : Fine(x)
      BY <1>0, <2>3, <3>1 DEF Fine, Moved
    <3> QED BY <1>free, <1>kept, <1>same, <2>1, <2>3, <3>2
  <2>4. CASE mem.entry[k].editor = w /\ FinishEdit(Aborted(w)) /\ Moved(w, "close")
    <3>1. PICK d \in DirType, m \in MemType :
            /\ GivenUp(Now, [d |-> d, m |-> m], writer[w].key)
            /\ Flushed([d |-> d, m |-> m], Then)
      BY <1>0, <2>1, <2>4, AbortEffect
    <3>2. /\ writer'[w].pc = "close" /\ writer'[w].own = <<>>
          /\ \A x \in Writers \ {w} : writer'[x] = writer[x]
      BY <1>0, <2>4 DEF Moved
    <3> QED BY <1>0, <1>free, <2>1, <2>4, <3>1, <3>2, GivenUpStep
  <2>5. CASE /\ mem.entry[k].editor = w /\ lock' = <<"publish">> /\ Moved(w, "publish")
             /\ Renamed(Now, Then, k) \/ (mem' = mem /\ mem.entry[k].readable = TRUE)
    BY <1>0, <2>1, <2>5, RenamedStep
  <2> QED BY <2>2, <2>3, <2>4, <2>5
<1>20. ASSUME NEW w \in Writers, commitFails(w) PROVE Entries'
  <2>1. Free /\ mem' = mem /\ writer[w].pc = "commit" /\ Goto(w, "abort")
    BY <1>20 DEF commitFails
  <2> QED BY <1>free, <1>kept, <1>same, <1>goto, <2>1
<1>21. ASSUME NEW w \in Writers, publish(w) PROVE Entries'
  BY <1>0, <1>21, PublishStep
<1>22. ASSUME NEW w \in Writers, close(w) PROVE Entries'
  <2>1. Free /\ mem' = mem /\ writer[w].pc = "close" /\ Goto(w, "check")
    BY <1>22 DEF close
  <2> QED BY <1>free, <1>kept, <1>same, <1>goto, <2>1
<1>look. ASSUME NEW k \in Keys, NEW kept \in BOOLEAN, DetachKeeps(Now, k, kept),
                Become(Get(Now, k, kept))
         PROVE  Calm
  <2>1. Looked(Now, Then, k) \/ Removed(Now, Then, k)
    BY <1>0, <1>look, GetEffect
  <2> QED BY <2>1, EffectsAreCalm DEF Calm
<1>23. ASSUME NEW w \in Writers, check(w) PROVE Entries'
  <2>0. PICK kept \in BOOLEAN : /\ DetachKeeps(Now, writer[w].key, kept)
                                /\ Become(Get(Now, writer[w].key, kept))
    BY <1>23 DEF check
  <2>1. /\ Free /\ writer[w].key \in Keys /\ writer[w].pc = "check"
        /\ writer' = [writer EXCEPT ![w] = Resting]
    BY <1>0, <1>23 DEF check, Types, Ready
  <2>2. Calm
    BY <1>look, <2>0, <2>1
  <2>3. \A k \in Keys : mem'.entry[k].editor # w
    <3>1. \A k \in Keys : mem.entry[k].editor # w
      BY <1>edit, <2>1 DEF Editing
    <3>2. \A k \in Keys : mem'.entry[k].editor \in {mem.entry[k].editor, Nobody, Stuck}
      BY <1>0, <2>2, CalmEditors
    <3> QED BY <3>1, <3>2, Constants
  <2>4. \A x \in Writers : Fine(x)
    BY <1>rest, <2>1, <2>3 DEF Fine
  <2> QED BY <1>0, <1>free, <2>1, <2>2, <2>4, CalmStep
<1>24. ASSUME NEW k \in Keys, get(k) PROVE Entries'
  <2>0. PICK kept \in BOOLEAN : DetachKeeps(Now, k, kept) /\ Become(Get(Now, k, kept))
    BY <1>24 DEF get
  <2>1. Free /\ writer' = writer
    BY <1>24 DEF get, Ready
  <2>2. Calm
    BY <1>look, <2>0
  <2> QED BY <1>0, <1>free, <1>all, <2>1, <2>2, CalmStep
<1>25. CASE evictAll
  <2>1. Free /\ mem' = mem /\ writer' = writer
    BY <1>25 DEF evictAll, Ready
  <2> QED BY <1>free, <1>kept, <1>all, <1>same, <2>1
<1>26. CASE evictNext
  <2>1. \/ Head(mem.lru) \in Keys /\ Removed(Now, Then, Head(mem.lru))
        \/ Head(mem.lru) \in Keys /\ Detached(Now, Then, Head(mem.lru))
        \/ Alike(mem, mem')
    BY <1>0, <1>26, EvictEffect
  <2>2. Calm
    BY <2>1, EffectsAreCalm DEF Calm
  <2>3. writer' = writer /\ lock # <<"publish">>
    BY <1>26, <1>at DEF evictNext, Steps
  <2> QED BY <1>0, <1>all, <2>2, <2>3, CalmStep
<1>27. CASE cleanStart
  <2>1. Free /\ mem' = mem /\ writer' = writer
    BY <1>27 DEF cleanStart, Ready
  <2> QED BY <1>free, <1>kept, <1>all, <1>same, <2>1
<1>28. CASE cleanNext
  <2>1. writer' = writer /\ (mem' = mem \/ \E k \in Keys : Removed(Now, Then, k))
    BY <1>0, <1>28, CleanNextEffect
  <2>2. Calm
    BY <1>same, <2>1, EffectsAreCalm DEF Calm
  <2>3. Free
    BY <1>28 DEF cleanNext, Ready
  <2> QED BY <1>0, <1>all, <1>free, <2>1, <2>2, <2>3, CalmStep
<1>29. CASE cleanRemove
  <2>1. Alike(mem, mem') \/ \E k \in Keys : Removed(Now, Then, k)
    BY <1>0, <1>29, CleanRemoveEffect
  <2>2. Calm
    BY <2>1, EffectsAreCalm DEF Calm
  <2>3. Free /\ writer' = writer
    BY <1>29 DEF cleanRemove, Ready
  <2> QED BY <1>0, <1>all, <1>free, <2>2, <2>3, CalmStep
<1>29a. CASE cleanRemoveFails
  <2>1. \E k \in Keys : Detached(Now, Then, k)
    BY <1>0, <1>29a, CleanRemoveFailsEffect
  <2>2. Calm
    BY <2>1, EffectsAreCalm DEF Calm
  <2>3. Free /\ writer' = writer
    BY <1>29a DEF cleanRemoveFails, Ready
  <2> QED BY <1>0, <1>all, <1>free, <2>2, <2>3, CalmStep
<1>30. CASE restart
  BY <1>30, RestartStep
<1> QED
  BY <1>1, <1>2, <1>3, <1>4, <1>5, <1>6, <1>7, <1>8, <1>9, <1>10, <1>11, <1>12, <1>13, <1>14,
     <1>15, <1>16, <1>17, <1>18, <1>18a, <1>19, <1>20, <1>21, <1>22, <1>23, <1>24, <1>25, <1>26,
     <1>27, <1>28, <1>29, <1>29a, <1>30 DEF Next

-----------------------------------------------------------------------------
(* The lock, the journal's writer and its buffer. *)

LEMMA RebuildingFacts ==
  ASSUME NEW l, NEW end \in {"done", "process", "reset"}, Rebuilding(l, end)
  PROVE  /\ l # <<>> /\ Head(l) \in {"close", "temp", "backup", "swap", "drop", end}
         /\ Head(l) = end => l = <<end>> /\ Tail(l) = <<>>
         /\ Head(l) # end => /\ Rebuilding(Tail(l), end) /\ Tail(l) # <<>>
                             /\ Head(Tail(l)) # "close" /\ (Head(Tail(l)) = "temp" <=> Head(l) = "close")
                             /\ Head(Tail(l)) = end <=> Head(l) = "drop"
         /\ l[Len(l)] = end
         /\ \A e \in {"done", "process", "reset"} : Rebuilding(l, e) => e = end
<1>1. CASE l = <<"close", "temp", "backup", "swap", "drop", end>>
  <2>1. Head(l) = "close" /\ Tail(l) = <<"temp", "backup", "swap", "drop", end>>
    BY <1>1
  <2> QED BY <1>1, <2>1 DEF Rebuilding
<1>2. CASE l = <<"temp", "backup", "swap", "drop", end>>
  <2>1. Head(l) = "temp" /\ Tail(l) = <<"backup", "swap", "drop", end>>
    BY <1>2
  <2> QED BY <1>2, <2>1 DEF Rebuilding
<1>3. CASE l = <<"backup", "swap", "drop", end>>
  <2>1. Head(l) = "backup" /\ Tail(l) = <<"swap", "drop", end>>
    BY <1>3
  <2> QED BY <1>3, <2>1 DEF Rebuilding
<1>4. CASE l = <<"swap", "drop", end>>
  <2>1. Head(l) = "swap" /\ Tail(l) = <<"drop", end>>
    BY <1>4
  <2> QED BY <1>4, <2>1 DEF Rebuilding
<1>5. CASE l = <<"drop", end>>
  <2>1. Head(l) = "drop" /\ Tail(l) = <<end>>
    BY <1>5
  <2> QED BY <1>5, <2>1 DEF Rebuilding
<1>6. CASE l = <<end>>
  <2>1. Head(l) = end /\ Tail(l) = <<>>
    BY <1>6
  <2> QED BY <1>6, <2>1 DEF Rebuilding
<1> QED BY <1>1, <1>2, <1>3, <1>4, <1>5, <1>6 DEF Rebuilding

\* The journal of a cache in use has a writer, and its buffer goes to the file.
Wired(m) ==
  /\ m.journalWriter # "none"
  /\ m.journalWriter = "blackhole" => m.rebuildFailed = TRUE
  /\ m.buffer # <<>> => m.journalWriter = "file"

LEMMA StaysWired ==
  ASSUME NEW s, NEW t, Wired(s.m)
  PROVE  /\ \A k \in Keys : \/ Removed(s, t, k) \/ Detached(s, t, k) \/ Looked(s, t, k)
                            \/ GivenUp(s, t, k) \/ Opened(s, t, k) \/ Renamed(s, t, k)
                            => Wired(t.m)
         /\ \A k \in Keys, w \in Writers : Started(s, t, k, w) => Wired(t.m)
         /\ Flushed(s, t) \/ Alike(s.m, t.m) => Wired(t.m)
<1>1. ASSUME NEW k \in Keys PROVE Removed(s, t, k) => Wired(t.m)
  BY DEF Removed, Wired
<1>2. ASSUME NEW k \in Keys PROVE Detached(s, t, k) => Wired(t.m)
  BY DEF Detached, Wired
<1>3. ASSUME NEW k \in Keys PROVE Looked(s, t, k) => Wired(t.m)
  BY DEF Looked, Wired
<1>4. ASSUME NEW k \in Keys PROVE GivenUp(s, t, k) => Wired(t.m)
  BY DEF GivenUp, Wired
<1>5. ASSUME NEW k \in Keys PROVE Opened(s, t, k) => Wired(t.m)
  BY DEF Opened, Wired
<1>6. ASSUME NEW k \in Keys PROVE Renamed(s, t, k) => Wired(t.m)
  BY DEF Renamed, Wired
<1>7. ASSUME NEW k \in Keys, NEW w \in Writers PROVE Started(s, t, k, w) => Wired(t.m)
  BY DEF Started, Wired
<1>8. Flushed(s, t) => Wired(t.m)
  BY DEF Flushed, Alike, Wired
<1>9. Alike(s.m, t.m) => Wired(t.m)
  BY DEF Alike, Wired
<1> QED BY <1>1, <1>2, <1>3, <1>4, <1>5, <1>6, <1>7, <1>8, <1>9

\* A cache in use stays in use.
LEMMA WorkingStep ==
  ASSUME mem'.initialized = TRUE, Wired(mem'),
         lock' \in {<<>>, <<"trim", "compact">>, <<"compact">>, <<"publish">>, <<"evict">>,
                    <<"close", "temp", "backup", "swap", "drop", "reset">>}
         \/ (Rebuilding(lock', "reset") /\ mem'.buffer = <<>>)
  PROVE  Locked'
<1>1. Working'
  BY DEF Working, Rebuilding
<1>2. (At("temp") \/ At("backup") \/ At("swap") \/ At("drop"))' => mem'.buffer = <<>>
  BY DEF At, Free
<1>3. lock' # <<"done">> /\ Loaded'
  <2>1. CASE Rebuilding(lock', "reset")
    <3>1. lock' # <<"done">>
      BY <2>1 DEF Rebuilding
    <3> QED BY <3>1 DEF Loaded
  <2>2. CASE lock' \in {<<>>, <<"trim", "compact">>, <<"compact">>, <<"publish">>, <<"evict">>,
                        <<"close", "temp", "backup", "swap", "drop", "reset">>}
    <3>1. lock' # <<"done">>
      BY <2>2
    <3> QED BY <3>1 DEF Loaded
  <2> QED BY <2>1, <2>2
<1> QED BY <1>1, <1>2, <1>3 DEF Locked, Wired

\* Steps of the methods that find the cache open: the lock is free or held for them.
LEMMA ReadyIsWired ==
  ASSUME Locked, mem.initialized = TRUE
  PROVE  Wired(mem)
BY DEF Locked, Wired, Loaded

\* The lock while the cache is in use.
LEMMA HeldFor ==
  ASSUME Locked, Types
  PROVE  /\ At("trim") => lock = <<"trim", "compact">> /\ Tail(lock) = <<"compact">>
         /\ At("compact") => lock = <<"compact">>
         /\ At("publish") => lock = <<"publish">> /\ Tail(lock) = <<>>
         /\ At("evict") => lock = <<"evict">>
         /\ At("trim") \/ At("compact") \/ At("publish") \/ At("evict") \/ At("reset")
              => mem.initialized = TRUE
         /\ At("reset") => Rebuilding(lock, "reset")
         /\ At("wipe") => lock = <<"wipe">>
         /\ At("process") => lock = <<"process">> /\ Tail(lock) = <<>>
         /\ At("done") => lock = <<"done">> /\ Tail(lock) = <<>>
         /\ At("read") => lock = <<"read">>
<1>1. Working \/ Opening
  BY DEF Locked, Types, MemType
<1>2. mem.initialized \in BOOLEAN
  BY DEF Types, MemType
<1>3. CASE lock \in {<<>>, <<"trim", "compact">>, <<"compact">>, <<"publish">>, <<"evict">>}
  <2>1. ~Opening \/ lock = <<>>
    BY <1>3 DEF Opening, Rebuilding
  <2>2. lock # <<>> => mem.initialized = TRUE
    BY <1>2, <2>1 DEF Locked
  <2>3. CASE lock = <<>>
    BY <2>3 DEF At, Free
  <2>4. CASE lock = <<"trim", "compact">>
    <3>1. Tail(lock) = <<"compact">>
      BY <2>4
    <3> QED BY <2>2, <2>4, <3>1 DEF At, Free
  <2>5. CASE lock = <<"compact">>
    BY <2>2, <2>5 DEF At, Free
  <2>6. CASE lock = <<"publish">>
    BY <2>2, <2>6 DEF At, Free
  <2>7. CASE lock = <<"evict">>
    BY <2>2, <2>7 DEF At, Free
  <2> QED BY <1>3, <2>3, <2>4, <2>5, <2>6, <2>7
<1>4. CASE Rebuilding(lock, "reset")
  <2>1. ~Opening
    BY <1>4 DEF Opening, Rebuilding
  <2>2. mem.initialized = TRUE
    BY <1>2, <2>1 DEF Locked
  <2> QED BY <1>4, <2>2, RebuildingFacts DEF At, Free
<1>5. CASE Rebuilding(lock, "done")
  BY <1>5, RebuildingFacts DEF At, Free
<1>6. CASE Rebuilding(lock, "process")
  BY <1>6, RebuildingFacts DEF At, Free
<1>7. CASE lock \in {<<>>, <<"read">>, <<"wipe">>}
  BY <1>7 DEF At, Free
<1> QED BY <1>1, <1>3, <1>4, <1>5, <1>6, <1>7 DEF Working, Opening

Blank(m) == /\ m.entry = [k \in Keys |-> NoEntry] /\ m.lru = <<>> /\ m.size = 0 /\ m.buffer = <<>>

\* The cache is being opened, without entries or with those of the journal.
LEMMA OpeningStep ==
  ASSUME mem'.initialized = FALSE, \A w \in Writers : writer'[w] = Resting, Opening',
         ~Rebuilding(lock', "process"), Blank(mem'),
         IF lock' = <<"done">> THEN Wired(mem') ELSE mem'.journalWriter = "none"
  PROVE  Locked'
<1>1. ~Loaded'
  BY DEF Loaded
<1> HIDE DEF NoEntry, Resting
<1> QED BY <1>1 DEF Locked, Wired, Blank

LEMMA LoadingStep ==
  ASSUME mem'.initialized = FALSE, \A w \in Writers : writer'[w] = Resting,
         Rebuilding(lock', "process"), Wired(mem'),
         Head(lock') \in {"close", "process"} \/ mem'.buffer = <<>>
  PROVE  Locked'
<1>1. Loaded' /\ Opening'
  BY DEF Loaded, Opening
<1>2. (At("temp") \/ At("backup") \/ At("swap") \/ At("drop"))' => mem'.buffer = <<>>
  BY DEF At, Free
<1> HIDE DEF NoEntry, Resting
<1> QED BY <1>1, <1>2 DEF Locked, Wired

\* rebuildJournal leaves the lock, the writer and the buffer in order.
LEMMA RebuildStep ==
  ASSUME Base, Types', rebuildJournal
  PROVE  Locked'
<1>0. /\ Types /\ Locked /\ disk \in DirType /\ mem \in MemType /\ mem.initialized \in BOOLEAN
      /\ mem'.initialized \in BOOLEAN
  BY DEF Base, Types, MemType
<1>1. lock # <<>> /\ lock' = Tail(lock) /\ writer' = writer
      /\ Head(lock) \in {"close", "temp", "backup", "swap", "drop"}
  BY DEF rebuildJournal, At, Free
<1>2. /\ mem'.initialized = mem.initialized /\ mem'.entry = mem.entry /\ mem'.lru = mem.lru
      /\ mem'.size = mem.size /\ mem'.buffer = <<>>
      /\ IF Head(lock) = "drop" THEN mem'.journalWriter = "file"
         ELSE (mem.journalWriter = "none" => mem'.journalWriter = "none")
      /\ Wired(mem) => Wired(mem')
  <2>1. ASSUME NEW bad \in BOOLEAN, NEW s \in Flush(Now, bad), Become(s), At("close") PROVE <1>2!:
    <3>1. Flushed(Now, s) /\ mem' = s.m
      BY <1>0, <2>1, FlushFacts DEF Now, Become
    <3>2. /\ mem'.initialized = mem.initialized /\ mem'.entry = mem.entry /\ mem'.lru = mem.lru
          /\ mem'.size = mem.size /\ mem'.buffer = <<>>
          /\ mem.journalWriter = "none" => mem'.journalWriter = "none"
      BY <1>0, <3>1 DEF Flushed, Alike, Now, Locked
    <3>3. Wired(mem) => Wired(mem')
      BY <3>1, StaysWired DEF Now
    <3> QED BY <2>1, <3>2, <3>3 DEF At
  <2>2. ASSUME mem' = mem, At("temp") \/ At("backup") \/ At("swap") PROVE <1>2!:
    <3>1. Head(lock) # "drop" /\ mem.buffer = <<>>
      BY <1>0, <2>2 DEF Locked, At
    <3> QED BY <2>2, <3>1
  <2>3. ASSUME At("drop"), mem' = [mem EXCEPT !.journalWriter = "file", !.rebuildFailed = FALSE]
        PROVE  <1>2!:
    <3>1. /\ mem'.initialized = mem.initialized /\ mem'.entry = mem.entry /\ mem'.lru = mem.lru
          /\ mem'.size = mem.size /\ mem'.buffer = mem.buffer /\ mem'.journalWriter = "file"
      BY <1>0, <2>3 DEF MemType
    <3>2. mem.buffer = <<>> /\ Head(lock) = "drop"
      BY <1>0, <2>3 DEF Locked, At
    <3> QED BY <3>1, <3>2 DEF Wired
  <2>4. \/ At("close") /\ \E bad \in BOOLEAN : \E s \in Flush(Now, bad) : Become(s)
        \/ mem' = mem /\ (At("temp") \/ At("backup") \/ At("swap"))
        \/ At("drop") /\ mem' = [mem EXCEPT !.journalWriter = "file", !.rebuildFailed = FALSE]
    BY DEF rebuildJournal
  <2> QED BY <2>1, <2>2, <2>3, <2>4
<1>3. CASE mem.initialized = TRUE
  <2>1. Rebuilding(lock, "reset")
    <3>1. Working
      BY <1>0, <1>3 DEF Locked
    <3> QED BY <1>1, <3>1 DEF Working
  <2>2. Rebuilding(Tail(lock), "reset")
    BY <1>1, <2>1, RebuildingFacts
  <2> QED BY <1>0, <1>1, <1>2, <1>3, <2>2, ReadyIsWired, WorkingStep
<1>4. CASE mem.initialized = FALSE
  <2>0. /\ \A w \in Writers : writer'[w] = Resting
        /\ Rebuilding(lock, "done") \/ Rebuilding(lock, "process")
    <3>1. Opening /\ \A w \in Writers : writer[w] = Resting
      BY <1>0, <1>4 DEF Locked
    <3> QED BY <1>1, <3>1 DEF Opening
  <2>1. CASE Rebuilding(lock, "process")
    <3>1. Rebuilding(Tail(lock), "process")
      BY <1>1, <2>1, RebuildingFacts
    <3>2. Wired(mem)
      BY <1>0, <2>1 DEF Locked, Loaded, Wired
    <3> HIDE DEF Resting
    <3> QED BY <1>1, <1>2, <1>4, <2>0, <3>1, <3>2, LoadingStep
  <2>2. CASE Rebuilding(lock, "done")
    <3>1. Rebuilding(Tail(lock), "done") /\ (Head(Tail(lock)) = "done" <=> Head(lock) = "drop")
      BY <1>1, <2>2, RebuildingFacts
    <3>2. ~Rebuilding(lock', "process") /\ ~Rebuilding(lock, "process")
      BY <1>1, <2>2, <3>1, RebuildingFacts
    <3>3. lock' = <<"done">> <=> Head(lock) = "drop"
      <4>1. Head(Tail(lock)) = "done" => Tail(lock) = <<"done">>
        BY <3>1, RebuildingFacts
      <4>2. \A l : l = <<"done">> => Head(l) = "done"
        OBVIOUS
      <4> QED BY <1>1, <3>1, <4>1, <4>2
    <3>4. Opening'
      BY <1>1, <3>1 DEF Opening
    <3>5. lock # <<"done">> /\ ~Loaded
      BY <1>1, <1>4, <3>2 DEF Loaded
    <3>6. Blank(mem') /\ mem.journalWriter = "none"
      <4> HIDE DEF NoEntry
      <4> QED BY <1>0, <1>2, <3>5 DEF Locked, Blank
    <3>7. IF lock' = <<"done">> THEN Wired(mem') ELSE mem'.journalWriter = "none"
      BY <1>2, <3>3, <3>6 DEF Wired
    <3> HIDE DEF Resting
    <3> QED BY <1>2, <1>4, <2>0, <3>2, <3>4, <3>6, <3>7, OpeningStep
  <2> QED BY <2>0, <2>1, <2>2
<1> QED BY <1>0, <1>3, <1>4

LEMMA LockedStep ==
  ASSUME Base, Types', Next, Gaps = FALSE
  PROVE  Locked'
<1>0. /\ Types /\ Locked /\ disk \in DirType /\ mem \in MemType /\ mem.initialized \in BOOLEAN
      /\ writer \in [Writers -> WriterType] /\ Distinct(mem.lru)
      /\ \A w \in Writers : writer[w].own = <<>>
  BY DEF Base, Types, Mapped, Edits, MemType
<1>busy. \A w \in Writers : writer[w].pc # "idle" => mem.initialized = TRUE
  BY <1>0 DEF Locked, Resting
<1>ready. mem.initialized = TRUE => Wired(mem)
  BY <1>0, ReadyIsWired
\* A step of the open cache.
<1>work. ASSUME mem.initialized = TRUE, mem'.initialized = TRUE, Wired(mem'),
                lock' \in {lock, <<>>}, Free \/ At("publish") \/ At("evict") \/ At("trim")
         PROVE  Locked'
  <2>1. lock \in {<<>>, <<"publish">>, <<"evict">>, <<"trim", "compact">>}
    BY <1>0, <1>work, HeldFor DEF Free
  <2> QED BY <1>work, <2>1, WorkingStep
<1>eff. \A k \in Keys : Removed(Now, Then, k) \/ Detached(Now, Then, k) \/ Looked(Now, Then, k)
           => mem'.initialized = mem.initialized /\ (Wired(mem) => Wired(mem'))
  <2>1. \A k \in Keys : Removed(Now, Then, k) \/ Detached(Now, Then, k) \/ Looked(Now, Then, k)
           => mem'.initialized = mem.initialized
    BY DEF Removed, Detached, Looked, Now, Then
  <2>2. \A k \in Keys : Removed(Now, Then, k) \/ Detached(Now, Then, k) \/ Looked(Now, Then, k)
           => (Wired(mem) => Wired(mem'))
    <3>1. Now.m = mem /\ Then.m = mem'
      BY DEF Now, Then
    <3> QED BY <3>1, StaysWired
  <2> QED BY <2>1, <2>2
<1>alike. Alike(mem, mem') => mem'.initialized = mem.initialized /\ (Wired(mem) => Wired(mem'))
  BY DEF Alike, Wired
<1>1. CASE initialize
  <2>1. Free /\ mem.initialized = FALSE /\ mem' = mem /\ writer' = writer /\ lock' = <<"read">>
    BY <1>0, <1>1 DEF initialize
  <2>2. ~Rebuilding(lock, "process") /\ ~Rebuilding(lock', "process") /\ lock # <<"done">>
        /\ lock' # <<"done">>
    BY <2>1 DEF Rebuilding, Free
  <2>3. Blank(mem) /\ mem.journalWriter = "none" /\ \A w \in Writers : writer[w] = Resting
    <3> HIDE DEF NoEntry, Resting
    <3> QED BY <1>0, <2>1, <2>2 DEF Locked, Loaded, Blank
  <2>4. Opening'
    BY <2>1 DEF Opening
  <2> HIDE DEF Resting
  <2> QED BY <2>1, <2>2, <2>3, <2>4, OpeningStep
<1>2. CASE readJournal
  <2>0. At("read") /\ mem.initialized = FALSE /\ writer' = writer /\ lock = <<"read">>
    BY <1>0, <1>2, OpeningIsQuiet, HeldFor DEF readJournal
  <2>1. ~Rebuilding(lock, "process") /\ lock # <<"done">>
    BY <2>0 DEF Rebuilding
  <2>2. Blank(mem) /\ mem.journalWriter = "none" /\ \A w \in Writers : writer[w] = Resting
    <3> HIDE DEF NoEntry, Resting
    <3> QED BY <1>0, <2>0, <2>1 DEF Locked, Loaded, Blank
  <2>3. ASSUME mem' = mem,
               lock' \in {<<"close", "temp", "backup", "swap", "drop", "done">>,
                          <<"wipe">>}
        PROVE  Locked'
    <3>1. Opening' /\ ~Rebuilding(lock', "process") /\ lock' # <<"done">>
      BY <2>3 DEF Opening, Rebuilding
    <3> HIDE DEF Resting
    <3> QED BY <2>0, <2>2, <2>3, <3>1, OpeningStep
  <2>4. ASSUME mem'.initialized = FALSE, mem'.buffer = <<>>, mem'.journalWriter = "file",
               lock' \in {<<"close", "temp", "backup", "swap", "drop", "process">>, <<"process">>}
        PROVE  Locked'
    <3>1. Rebuilding(lock', "process")
      BY <2>4 DEF Rebuilding
    <3>2. Wired(mem')
      BY <2>4 DEF Wired
    <3> HIDE DEF Resting
    <3> QED BY <2>0, <2>2, <2>4, <3>1, <3>2, LoadingStep
  <2>6. ASSUME NEW lru, NEW f, NEW c,
               mem' = [Closed EXCEPT !.lru = lru, !.entry = f, !.journalWriter = "file",
                                     !.redundantOpCount = c]
        PROVE  mem'.initialized = FALSE /\ mem'.buffer = <<>> /\ mem'.journalWriter = "file"
    BY <2>6 DEF Closed
  <2>7. \/ mem' = mem /\ lock' \in {Rebuild("done"), <<"wipe">>}
        \/ /\ \E lru, f, c : mem' = [Closed EXCEPT !.lru = lru, !.entry = f, !.journalWriter = "file",
                                                   !.redundantOpCount = c]
           /\ lock' \in {Rebuild("process"), <<"process">>}
    BY <1>2 DEF readJournal
  <2> QED BY <2>3, <2>4, <2>6, <2>7 DEF Rebuild
<1>3. CASE wipe
  <2>0. lock = <<"wipe">> /\ mem' = mem /\ writer' = writer
    BY <1>0, <1>3, HeldFor DEF wipe
  <2>1. ~Working /\ ~Rebuilding(lock, "process") /\ lock # <<"done">>
    BY <2>0 DEF Working, Rebuilding
  <2>2. mem.initialized = FALSE
    BY <1>0, <2>1 DEF Locked
  <2>3. Blank(mem) /\ mem.journalWriter = "none" /\ \A w \in Writers : writer[w] = Resting
    <3> HIDE DEF NoEntry, Resting
    <3> QED BY <1>0, <2>1, <2>2 DEF Locked, Loaded, Blank
  <2>4. lock' = lock \/ lock' = <<"close", "temp", "backup", "swap", "drop", "done">>
    BY <1>3 DEF wipe, Rebuild
  <2>5. Opening' /\ ~Rebuilding(lock', "process") /\ lock' # <<"done">>
    BY <2>0, <2>4 DEF Opening, Rebuilding
  <2> HIDE DEF Resting
  <2> QED BY <2>0, <2>2, <2>3, <2>5, OpeningStep
<1>4. CASE processJournal
  <2>0. lock = <<"process">> /\ Tail(lock) = <<>> /\ mem.initialized = FALSE /\ writer' = writer
    BY <1>0, <1>4, HeldFor, OpeningIsQuiet DEF processJournal
  <2>1. Rebuilding(lock, "process")
    BY <2>0 DEF Rebuilding
  <2>2. Wired(mem) /\ \A w \in Writers : writer[w] = Resting
    <3> HIDE DEF Resting
    <3> QED BY <1>0, <2>0, <2>1 DEF Locked, Loaded, Wired
  <2>3. ASSUME lock' = lock, mem'.initialized = mem.initialized, Wired(mem') PROVE Locked'
    <3>1. Head(lock') = "process"
      BY <2>0, <2>3
    <3> HIDE DEF Resting
    <3> QED BY <2>0, <2>1, <2>2, <2>3, <3>1, LoadingStep
  <2>4. ASSUME NEW k \in Keys, lock' = lock, mem' = [mem EXCEPT !.lru = Without(@, k), !.entry[k] = NoEntry]
        PROVE  Locked'
    <3> DEFINE l == Without(mem.lru, k)
               f == [mem.entry EXCEPT ![k] = NoEntry]
    <3>1. mem' = [mem EXCEPT !.lru = l, !.entry = f]
      BY <1>0, <2>4 DEF MemType
    <3> HIDE DEF l, f
    <3>2. /\ mem'.initialized = mem.initialized /\ mem'.journalWriter = mem.journalWriter
          /\ mem'.buffer = mem.buffer /\ mem'.rebuildFailed = mem.rebuildFailed
      BY <1>0, <3>1 DEF MemType
    <3> QED BY <2>2, <2>3, <2>4, <3>2 DEF Wired
  <2>5. ASSUME mem' = [mem EXCEPT !.size = Taken(mem), !.initialized = TRUE], lock' = Tail(lock)
        PROVE  Locked'
    <3>1. /\ mem'.initialized = TRUE /\ mem'.journalWriter = mem.journalWriter
          /\ mem'.buffer = mem.buffer /\ mem'.rebuildFailed = mem.rebuildFailed
      BY <1>0, <2>5 DEF MemType
    <3>2. Wired(mem')
      BY <2>2, <3>1 DEF Wired
    <3> QED BY <2>0, <2>5, <3>1, <3>2, WorkingStep
  <2> QED BY <1>4, <2>2, <2>3, <2>4, <2>5 DEF processJournal
<1>5. CASE openedEmpty
  <2>0. lock = <<"done">> /\ Tail(lock) = <<>> /\ lock' = <<>>
    BY <1>0, <1>5, HeldFor DEF openedEmpty
  <2>1. Wired(mem)
    BY <1>0, <2>0 DEF Locked, Wired
  <2>2. /\ mem'.initialized = TRUE /\ mem'.journalWriter = mem.journalWriter
        /\ mem'.buffer = mem.buffer /\ mem'.rebuildFailed = mem.rebuildFailed
    BY <1>0, <1>5 DEF openedEmpty, MemType
  <2>3. Wired(mem')
    BY <2>1, <2>2 DEF Wired
  <2> QED BY <2>0, <2>2, <2>3, WorkingStep
<1>6. CASE rebuildJournal
  BY <1>6, RebuildStep
<1>7. CASE runCleanup
  <2>1. /\ Free /\ Alike(mem, mem') /\ writer' = writer
        /\ lock' = IF mem.initialized THEN <<"trim", "compact">> ELSE <<>>
    BY <1>0, <1>7 DEF runCleanup, Alike, MemType
  <2>2. CASE mem.initialized = TRUE
    BY <1>ready, <1>alike, <2>1, <2>2, WorkingStep
  <2>3. CASE mem.initialized = FALSE
    <3>1. ~Rebuilding(lock, "process") /\ lock # <<"done">> /\ lock = <<>> /\ lock' = <<>>
      BY <2>1, <2>3 DEF Rebuilding, Free
    <3>2. Blank(mem) /\ mem.journalWriter = "none" /\ \A w \in Writers : writer[w] = Resting
      <4> HIDE DEF NoEntry, Resting
      <4> QED BY <1>0, <2>3, <3>1 DEF Locked, Loaded, Blank
    <3>3. Blank(mem') /\ mem'.journalWriter = "none" /\ mem'.initialized = FALSE
      BY <2>1, <2>3, <3>2 DEF Alike, Blank
    <3>4. Opening'
      BY <3>1 DEF Opening
    <3> HIDE DEF Resting
    <3> QED BY <2>1, <3>1, <3>2, <3>3, <3>4, OpeningStep
  <2> QED BY <1>0, <2>2, <2>3
<1>8. CASE trimToSize
  <2>1. mem.size > MaxSize => mem.lru # <<>>
    BY <1>8, TrimFinds DEF trimToSize
  <2>2. /\ lock' = lock \/ lock' = Tail(lock)
        /\ \/ mem.lru # <<>> /\ Removed(Now, Then, Head(mem.lru))
           \/ mem.lru # <<>> /\ Detached(Now, Then, Head(mem.lru))
           \/ Alike(mem, mem')
    BY <1>0, <1>8, <2>1, TrimEffect
  <2>3. mem.lru # <<>> => Head(mem.lru) \in Keys
    BY <1>0 DEF MemType
  <2>4. mem.initialized = TRUE /\ lock = <<"trim", "compact">> /\ Tail(lock) = <<"compact">>
    BY <1>0, <1>8, HeldFor DEF trimToSize
  <2>5. mem'.initialized = TRUE /\ Wired(mem')
    BY <1>ready, <1>eff, <1>alike, <2>2, <2>3, <2>4
  <2> QED BY <2>2, <2>4, <2>5, WorkingStep
<1>9. CASE compactJournal
  <2>1. mem.initialized = TRUE /\ mem' = mem
    BY <1>0, <1>9, HeldFor DEF compactJournal
  <2>3. lock' \in {<<>>, <<"close", "temp", "backup", "swap", "drop", "reset">>}
    BY <1>9 DEF compactJournal, Rebuild
  <2> QED BY <1>ready, <2>1, <2>3, WorkingStep
<1>10. CASE compacted
  <2>1. mem.initialized = TRUE /\ Alike(mem, mem') /\ lock' = <<>>
    BY <1>0, <1>10, HeldFor DEF compacted, Alike, MemType
  <2> QED BY <1>ready, <1>alike, <2>1, WorkingStep
<1>11. CASE rebuildFails
  <2>1. mem.initialized = TRUE
    <3>1. lock[Len(lock)] = "reset" /\ lock # <<>>
      BY <1>11 DEF rebuildFails, Last, Free
    <3>2. CASE Opening
      <4>1. CASE lock \in {<<"read">>, <<"wipe">>}
        BY <3>1, <4>1
      <4>2. CASE Rebuilding(lock, "done") \/ Rebuilding(lock, "process")
        BY <3>1, <4>2, RebuildingFacts
      <4> QED BY <3>1, <3>2, <4>1, <4>2 DEF Opening
    <3> QED BY <1>0, <3>2 DEF Locked
  <2>2. mem.buffer = <<>> /\ lock' = <<>>
    BY <1>0, <1>11 DEF rebuildFails, Locked, At
  <2>3. /\ mem'.initialized = mem.initialized /\ mem'.buffer = mem.buffer
        /\ mem'.journalWriter = "blackhole" /\ mem'.rebuildFailed = TRUE
    BY <1>0, <1>11 DEF rebuildFails, MemType
  <2>4. Wired(mem')
    BY <2>2, <2>3 DEF Wired
  <2> QED BY <2>1, <2>2, <2>3, <2>4, WorkingStep
<1>12. ASSUME NEW w \in Writers, NEW k \in Keys, edit(w, k) PROVE Locked'
  <2>1. Looked(Now, Then, k) \/ Started(Now, Then, k, w)
    BY <1>0, <1>12, EditEffect
  <2>2. Free /\ mem.initialized = TRUE /\ lock' = lock
    BY <1>0, <1>12 DEF edit, Ready
  <2>3. mem'.initialized = TRUE /\ Wired(mem')
    <3>1. CASE Looked(Now, Then, k)
      BY <1>ready, <1>eff, <2>2, <3>1
    <3>2. CASE Started(Now, Then, k, w)
      BY <2>2, <3>2 DEF Started, Wired, Now, Then
    <3> QED BY <2>1, <3>1, <3>2
  <2> QED BY <1>work, <2>2, <2>3
<1>flush. ASSUME NEW d, NEW m, Flushed([d |-> d, m |-> m], Then), Wired(m), m.initialized = TRUE
          PROVE  mem'.initialized = TRUE /\ Wired(mem')
  <2>1. mem'.initialized = TRUE
    BY <1>flush DEF Flushed, Alike, Then
  <2>2. Wired(mem')
    BY <1>flush DEF Flushed, Alike, Then, Wired
  <2> QED BY <2>1, <2>2
<1>13. ASSUME NEW w \in Writers, NEW k \in Keys, editFails(w, k) PROVE Locked'
  <2>1. PICK m \in MemType : Dirtied(Now, m, k) /\ Flushed([d |-> disk, m |-> m], Then)
    BY <1>0, <1>13, EditFailsEffect
  <2>2. Free /\ mem.initialized = TRUE /\ lock' = lock
    BY <1>0, <1>13 DEF editFails, Ready
  <2>3. m.initialized = TRUE /\ Wired(m)
    BY <2>1, <2>2 DEF Dirtied, Now, Wired
  <2> QED BY <1>flush, <1>work, <2>1, <2>2, <2>3
<1>same. ASSUME Free, NEW w \in Writers, writer[w].pc # "idle", mem' = mem, lock' = lock PROVE Locked'
  BY <1>busy, <1>ready, <1>work, <1>same
<1>14. ASSUME NEW w \in Writers, newSink(w) PROVE Locked'
  <2>1. Free /\ writer[w].pc # "idle" /\ mem' = mem /\ lock' = lock
    BY <1>14 DEF newSink
  <2> QED BY <1>same, <2>1
<1>15. ASSUME NEW w \in Writers, write(w) PROVE Locked'
  <2>1. Free /\ writer[w].pc # "idle" /\ mem' = mem /\ lock' = lock
    BY <1>15 DEF write
  <2> QED BY <1>same, <2>1
<1>16. ASSUME NEW w \in Writers, writeFails(w) PROVE Locked'
  <2>1. IF mem.entry[writer[w].key].editor = w THEN Detached(Now, Then, writer[w].key)
        ELSE disk' = disk /\ mem' = mem
    BY <1>0, <1>16, WriteFailsEffect
  <2>2. Free /\ writer[w].pc # "idle" /\ lock' = lock /\ writer[w].key \in Keys
    BY <1>0, <1>16 DEF writeFails, Types
  <2>3. mem.initialized = TRUE
    BY <1>busy, <2>2
  <2>4. mem'.initialized = TRUE /\ Wired(mem')
    BY <1>ready, <1>eff, <2>1, <2>2, <2>3
  <2> QED BY <1>work, <2>2, <2>3, <2>4
<1>17. ASSUME NEW w \in Writers, downloadFails(w) PROVE Locked'
  <2>1. Free /\ writer[w].pc # "idle" /\ mem' = mem /\ lock' = lock
    BY <1>17 DEF downloadFails
  <2> QED BY <1>same, <2>1
<1>giveup. ASSUME NEW w \in Writers, writer[w].pc # "idle", FinishEdit(Aborted(w))
           PROVE  mem'.initialized = TRUE /\ Wired(mem')
  <2>1. PICK d \in DirType, m \in MemType :
          /\ GivenUp(Now, [d |-> d, m |-> m], writer[w].key)
          /\ Flushed([d |-> d, m |-> m], Then)
    BY <1>0, <1>giveup, AbortEffect
  <2>2. mem.initialized = TRUE /\ Wired(mem)
    BY <1>busy, <1>ready, <1>giveup
  <2>3. m.initialized = TRUE /\ Wired(m)
    BY <2>1, <2>2 DEF GivenUp, Now, Wired
  <2> QED BY <1>flush, <2>1, <2>3
<1>18. ASSUME NEW w \in Writers, abort(w) PROVE Locked'
  <2>1. Free /\ writer[w].pc # "idle" /\ lock' = lock
    BY <1>18 DEF abort
  <2>2. CASE mem' = mem
    BY <1>same, <2>1, <2>2
  <2>3. CASE FinishEdit(Aborted(w))
    BY <1>busy, <1>giveup, <1>work, <2>1, <2>3
  <2> QED BY <1>18, <2>2, <2>3 DEF abort
<1>18a. ASSUME NEW w \in Writers, abortFails(w) PROVE Locked'
  <2>1. Free /\ writer[w].pc # "idle" /\ lock' = lock
    BY <1>18a DEF abortFails
  <2>2. StuckBy(mem, mem', writer[w].key)
    BY <1>0, <1>18a, AbortFailsEffect
  <2>3. mem.initialized = TRUE
    BY <1>busy, <2>1
  <2>4. mem'.initialized = TRUE /\ Wired(mem')
    BY <1>ready, <2>2, <2>3 DEF StuckBy, Wired
  <2> QED BY <1>work, <2>1, <2>3, <2>4
<1>19. ASSUME NEW w \in Writers, commit(w) PROVE Locked'
  <2> DEFINE k == writer[w].key
  <2>1. Free /\ writer[w].pc # "idle"
    BY <1>19 DEF commit
  <2>2. \/ mem' = mem /\ lock' = lock
        \/ FinishEdit(Aborted(w)) /\ lock' = lock
        \/ lock' = <<"publish">> /\ Renamed(Now, Then, k)
        \/ lock' = <<"publish">> /\ mem' = mem
    BY <1>0, <1>19, CommitEffect
  <2>3. CASE mem' = mem /\ lock' = lock
    BY <1>same, <2>1, <2>3
  <2>4. CASE FinishEdit(Aborted(w)) /\ lock' = lock
    BY <1>busy, <1>giveup, <1>work, <2>1, <2>4
  <2>5. CASE lock' = <<"publish">> /\ (Renamed(Now, Then, k) \/ mem' = mem)
    <3>1. mem.initialized = TRUE /\ Wired(mem)
      BY <1>busy, <1>ready, <2>1
    <3>2. mem'.initialized = TRUE /\ Wired(mem')
      BY <2>5, <3>1 DEF Renamed, Now, Then, Wired
    <3> QED BY <2>5, <3>2, WorkingStep
  <2> QED BY <2>2, <2>3, <2>4, <2>5
<1>20. ASSUME NEW w \in Writers, commitFails(w) PROVE Locked'
  <2>1. Free /\ writer[w].pc # "idle" /\ mem' = mem /\ lock' = lock
    BY <1>20 DEF commitFails
  <2> QED BY <1>same, <2>1
<1>21. ASSUME NEW w \in Writers, publish(w) PROVE Locked'
  <2>1. PICK m \in MemType :
          /\ Opened(Now, [d |-> disk, m |-> m], writer[w].key)
          /\ Flushed([d |-> disk, m |-> m], Then)
    BY <1>0, <1>21, PublishEffect
  <2>2. lock' = <<>> /\ mem.initialized = TRUE /\ At("publish")
    BY <1>0, <1>21, HeldFor DEF publish
  <2>3. m.initialized = TRUE /\ Wired(m)
    BY <1>ready, <2>1, <2>2 DEF Opened, Now, Wired
  <2> QED BY <1>flush, <1>work, <2>1, <2>2, <2>3
<1>22. ASSUME NEW w \in Writers, close(w) PROVE Locked'
  <2>1. Free /\ writer[w].pc # "idle" /\ mem' = mem /\ lock' = lock
    BY <1>22 DEF close
  <2> QED BY <1>same, <2>1
<1>look. ASSUME NEW k \in Keys, NEW kept \in BOOLEAN, DetachKeeps(Now, k, kept),
                Become(Get(Now, k, kept)), Ready, lock' = lock
         PROVE  Locked'
  <2>1. Looked(Now, Then, k) \/ Removed(Now, Then, k)
    BY <1>0, <1>look, GetEffect
  <2>2. Free /\ mem.initialized = TRUE
    BY <1>0, <1>look DEF Ready
  <2> QED BY <1>ready, <1>eff, <1>look, <1>work, <2>1, <2>2
<1>23. ASSUME NEW w \in Writers, check(w) PROVE Locked'
  <2>0. PICK kept \in BOOLEAN : /\ DetachKeeps(Now, writer[w].key, kept)
                                /\ Become(Get(Now, writer[w].key, kept))
    BY <1>23 DEF check
  <2>1. writer[w].key \in Keys /\ Ready /\ lock' = lock
    BY <1>0, <1>23 DEF check, Types
  <2> QED BY <1>look, <2>0, <2>1
<1>24. ASSUME NEW k \in Keys, get(k) PROVE Locked'
  <2>1. PICK kept \in BOOLEAN : DetachKeeps(Now, k, kept) /\ Become(Get(Now, k, kept))
    BY <1>24 DEF get
  <2>2. Ready /\ lock' = lock
    BY <1>24 DEF get
  <2> QED BY <1>look, <2>1, <2>2
<1>25. CASE evictAll
  <2>1. mem.initialized = TRUE /\ mem' = mem /\ lock' = <<"evict">>
    BY <1>0, <1>25 DEF evictAll, Ready
  <2> QED BY <1>ready, <2>1, WorkingStep
<1>26. CASE evictNext
  <2>1. /\ lock' \in {lock, <<>>}
        /\ \/ Head(mem.lru) \in Keys /\ Removed(Now, Then, Head(mem.lru))
           \/ Head(mem.lru) \in Keys /\ Detached(Now, Then, Head(mem.lru))
           \/ Alike(mem, mem')
    BY <1>0, <1>26, EvictEffect
  <2>2. At("evict") /\ mem.initialized = TRUE
    BY <1>0, <1>26, HeldFor DEF evictNext
  <2> QED BY <1>ready, <1>eff, <1>alike, <1>work, <2>1, <2>2
<1>27. CASE cleanStart
  <2>1. Free /\ mem.initialized = TRUE /\ mem' = mem /\ lock' = lock
    BY <1>0, <1>27 DEF cleanStart, Ready
  <2> QED BY <1>ready, <1>work, <2>1
<1>28. CASE cleanNext
  <2>1. mem' = mem \/ \E k \in Keys : Removed(Now, Then, k)
    BY <1>0, <1>28, CleanNextEffect
  <2>2. Free /\ mem.initialized = TRUE /\ lock' = lock
    BY <1>0, <1>28 DEF cleanNext, Ready
  <2> QED BY <1>ready, <1>eff, <1>work, <2>1, <2>2
<1>29. CASE cleanRemove
  <2>1. Alike(mem, mem') \/ \E k \in Keys : Removed(Now, Then, k)
    BY <1>0, <1>29, CleanRemoveEffect
  <2>2. Free /\ mem.initialized = TRUE /\ lock' = lock
    BY <1>0, <1>29 DEF cleanRemove, Ready
  <2> QED BY <1>ready, <1>eff, <1>alike, <1>work, <2>1, <2>2
<1>29a. CASE cleanRemoveFails
  <2>1. \E k \in Keys : Detached(Now, Then, k)
    BY <1>0, <1>29a, CleanRemoveFailsEffect
  <2>2. Free /\ mem.initialized = TRUE /\ lock' = lock
    BY <1>0, <1>29a DEF cleanRemoveFails, Ready
  <2> QED BY <1>ready, <1>eff, <1>work, <2>1, <2>2
<1>30. CASE restart
  <2>1. Blank(mem') /\ mem'.journalWriter = "none" /\ mem'.initialized = FALSE
    <3> HIDE DEF NoEntry
    <3> QED BY <1>30 DEF restart, Closed, Blank
  <2>2. lock' = <<>> /\ writer' = [w \in Writers |-> Resting]
    BY <1>30 DEF restart
  <2>3. Opening' /\ ~Rebuilding(lock', "process") /\ lock' # <<"done">>
    BY <2>2 DEF Opening, Rebuilding
  <2> HIDE DEF Resting
  <2> QED BY <2>1, <2>2, <2>3, OpeningStep
<1> QED
  BY <1>1, <1>2, <1>3, <1>4, <1>5, <1>6, <1>7, <1>8, <1>9, <1>10, <1>11, <1>12, <1>13, <1>14,
     <1>15, <1>16, <1>17, <1>18, <1>19, <1>20, <1>21, <1>22, <1>23, <1>24, <1>25, <1>26, <1>27,
     <1>28, <1>29, <1>29a, <1>30, <1>18a DEF Next

-----------------------------------------------------------------------------
(* The theorems. *)

LEMMA BaseStep ==
  ASSUME Base, Gaps = FALSE
  PROVE  [Next]_vars => Base'
<1>1. CASE Next
  BY <1>1, TypesStep, EntriesStep, LockedStep DEF Base, Entries
<1>2. CASE UNCHANGED vars
  BY <1>2 DEF vars, Base, Types, Mapped, Locked, Edits, Sized, SizeOK, Loaded, Working, Opening,
              Rebuilding, At, Free, Publishing, Taken, Distinct
<1> QED BY <1>1, <1>2

\* The cache never leaves its types: the file operations of any number of writers, readers, clean-ups,
\* errors and crashes keep the fields of DiskLruCache, the journal and the writers well formed,
\* unless the cleaner goes on over entries that were removed meanwhile.
THEOREM TypeCorrect ==
  ASSUME Gaps = FALSE
  PROVE  Spec => []TypeOK
<1>1. Base => TypeOK
  BY DEF Base, Types, TypeOK, DirType, FileType, MemType, EntryType, WriterType
<1> QED BY <1>1, InitBase, BaseStep, PTL DEF Spec

\* size is what the entries take, through edits, evictions, trims and restarts.
THEOREM SizeIsRight ==
  ASSUME Gaps = FALSE
  PROVE  Spec => []SizeOK
<1>1. Base => SizeOK
  BY DEF Base, Sized
<1> QED BY <1>1, InitBase, BaseStep, PTL DEF Spec

\* "An entry may have only one editor at one time": commit, abort and newSink of a thread that has
\* lost the entry have no effect on it. What DiskOverlap shows takes the gap of the cleaner.
THEOREM OneEditorAtATime ==
  ASSUME Gaps = FALSE
  PROVE  Spec => []OneEditor
<1>1. Base => OneEditor
  <2> SUFFICES ASSUME Base, NEW v \in Writers, NEW w \in Writers, Current(v), Current(w),
                      writer[v].key = writer[w].key
               PROVE  v = w
    BY DEF OneEditor
  <2>1. writer[v].own = <<>> /\ writer[w].own = <<>>
    BY DEF Base, Edits
  <2> QED BY <2>1 DEF Current
<1> QED BY <1>1, InitBase, BaseStep, PTL DEF Spec
=============================================================================
