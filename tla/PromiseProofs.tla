---------------------------- MODULE PromiseProofs ----------------------------
(***************************************************************************)
(* The proof that the cache on disk implements MsgCache: what can be read  *)
(* under a key, from the open cache or by opening it again after a crash,  *)
(* changes only by one commit of a new version, or goes.                   *)
(***************************************************************************)
EXTENDS JournalProofs

-----------------------------------------------------------------------------
(* What has been readable, and what opening the cache makes of the journal. *)

\* A version becomes readable once: what was readable is neither the version of a writer that has yet
\* to create its file, nor in a temporary file, nor in a file that is being published for the first
\* time. No version is in two files.
Fresh ==
  /\ \A v \in shown : v <= count.stores
  /\ \A w \in Writers : writer[w].pc = "sink" =>
       /\ writer[w].ver \notin shown
       /\ \A k \in Keys : writer[w].ver \notin {disk.clean[k], TempFile(disk, k)}
  /\ \A k \in Keys : disk.dirty[k] = NoVersion \/ disk.left[k] = NoVersion
  /\ \A k \in Keys : TempFile(disk, k) # NoVersion =>
       /\ TempFile(disk, k) \notin shown
       /\ \A x \in Keys : /\ TempFile(disk, k) # disk.clean[x]
                          /\ TempFile(disk, x) = TempFile(disk, k) => x = k
  /\ \A k \in Keys : Publishing(k) /\ mem.entry[k].readable = FALSE /\ disk.clean[k] # NoVersion
                       => disk.clean[k] \notin shown

\* These lines and the entries agree on which of the clean files belong to an unfinished edit.
Recalls(d, e, lines) ==
  \A k \in Keys : d.clean[k] # NoVersion =>
    (Replay(lines)[k].editor = Replayed <=> e[k].editor = Replayed)

\* The cache is being opened.
Recalled ==
  mem.initialized = FALSE =>
    /\ mem.buffer = <<>>
    /\ Loaded => Recalls(disk, mem.entry, OnDisk.lines)
    /\ Loaded /\ (At("backup") \/ At("swap")) => Recalls(disk, mem.entry, disk.temp.lines)

\* A crash while the buffer is empty.
LEMMA ReplayTorn ==
  ASSUME NEW lines \in Seq(LineType), NEW p \in Torn(<<>>), NEW k \in Keys
  PROVE  /\ Replay(lines \o p)[k].editor = Replay(lines)[k].editor
         /\ Replay(lines \o p)[k].readable = Replay(lines)[k].readable
<1> DEFINE q == lines \o p
<1>0. <<>> \in Seq(LineType) /\ DOMAIN lines = 1 .. Len(lines) /\ Len(lines) \in Nat
  OBVIOUS
<1>1. p \in Seq(LineType) /\ \A j \in DOMAIN p : p[j] = Cut
  <2> DEFINE b == <<>>
  <2>1. b \in Seq(LineType) /\ p \in Torn(b) /\ DOMAIN b = {}
    OBVIOUS
  <2> HIDE DEF b, Cut
  <2>2. /\ p \in Seq(LineType)
        /\ \A j \in DOMAIN p : (j \in DOMAIN b /\ p[j] = b[j]) \/ (p[j] = Cut /\ j = Len(p))
    BY <2>1, TornFacts
  <2> QED BY <2>1, <2>2
<1>2. Cut.key # k
  BY Constants DEF Cut, Line
<1> HIDE DEF Cut
<1>3. /\ q \in Seq(LineType) /\ Len(q) = Len(lines) + Len(p) /\ DOMAIN q = 1 .. Len(q)
      /\ \A j \in 1 .. Len(lines) : q[j] = lines[j]
      /\ \A j \in Len(lines) + 1 .. Len(lines) + Len(p) : q[j] = p[j - Len(lines)]
  BY <1>1
<1>4. Len(p) \in Nat /\ DOMAIN p = 1 .. Len(p)
  BY <1>1
<1> HIDE DEF q
<1>5. \A j \in DOMAIN q : j \in DOMAIN lines \/ q[j].key # k
  <2> SUFFICES ASSUME NEW j \in DOMAIN q, j \notin DOMAIN lines PROVE q[j].key # k
    OBVIOUS
  <2>1. j \in Len(lines) + 1 .. Len(lines) + Len(p) /\ j - Len(lines) \in DOMAIN p
    BY <1>0, <1>3, <1>4
  <2> QED BY <1>1, <1>2, <1>3, <2>1
<1>6. LinesOf(q, k) = LinesOf(lines, k)
  <2>1. ASSUME NEW i, i \in LinesOf(q, k) PROVE i \in LinesOf(lines, k)
    <3>1. i \in DOMAIN lines /\ lines[i].key = k /\ \A j \in i .. Len(q) : q[j].op = "REMOVE" => q[j].key # k
      BY <1>0, <1>3, <1>5, <2>1 DEF LinesOf
    <3>2. \A j \in i .. Len(lines) : lines[j].op = "REMOVE" => lines[j].key # k
      BY <1>0, <1>3, <1>4, <3>1
    <3> QED BY <3>1, <3>2 DEF LinesOf
  <2>2. ASSUME NEW i, i \in LinesOf(lines, k) PROVE i \in LinesOf(q, k)
    <3>1. i \in DOMAIN lines /\ lines[i].key = k
          /\ \A j \in i .. Len(lines) : lines[j].op = "REMOVE" => lines[j].key # k
      BY <2>2 DEF LinesOf
    <3>2. i \in DOMAIN q /\ q[i].key = k
      BY <1>0, <1>3, <1>4, <3>1
    <3>3. ASSUME NEW j \in i .. Len(q), q[j].op = "REMOVE" PROVE q[j].key # k
      <4>1. j \in DOMAIN q
        BY <1>0, <1>3, <3>1
      <4>2. CASE j \in DOMAIN lines
        BY <1>0, <1>3, <3>1, <3>3, <4>2
      <4>3. CASE j \notin DOMAIN lines
        BY <1>5, <4>1, <4>3
      <4> QED BY <4>2, <4>3
    <3> QED BY <3>2, <3>3 DEF LinesOf
  <2> QED BY <2>1, <2>2
<1>7. \A i \in LinesOf(lines, k) : q[i] = lines[i]
  BY <1>0, <1>3 DEF LinesOf
<1> DEFINE e == Replay(q)[k]
           f == Replay(lines)[k]
           S == LinesOf(lines, k)
<1>8. /\ e.editor \in {Nobody, Replayed} /\ e.readable \in BOOLEAN
      /\ e.editor = Replayed <=> \E i \in S : q[i].op = "DIRTY" /\ \A j \in S : q[j].op = "CLEAN" => j < i
      /\ e.readable = TRUE <=> \E i \in S : q[i].op = "CLEAN"
  <2>1. /\ e \in EntryType /\ e.editor \in {Nobody, Replayed}
        /\ e.editor = Replayed <=>
             \E i \in LinesOf(q, k) : q[i].op = "DIRTY" /\ \A j \in LinesOf(q, k) : q[j].op = "CLEAN" => j < i
        /\ e.readable = TRUE <=> \E i \in LinesOf(q, k) : q[i].op = "CLEAN"
    <3>1. q \in Seq(LineType)
      BY <1>3
    <3>2. Replay(q) \in [Keys -> EntryType]
      BY <3>1, ReplayFacts
    <3>3. e.editor \in {Nobody, Replayed}
      BY <3>1, ReplayFacts
    <3>4. e.editor = Replayed <=>
            \E i \in LinesOf(q, k) : q[i].op = "DIRTY" /\ \A j \in LinesOf(q, k) : q[j].op = "CLEAN" => j < i
      BY <3>1, ReplayFacts
    <3>5. e.readable = TRUE <=> \E i \in LinesOf(q, k) : q[i].op = "CLEAN"
      BY <3>1, ReplayFacts
    <3> QED BY <3>2, <3>3, <3>4, <3>5
  <2> HIDE DEF e
  <2> QED BY <1>6, <2>1 DEF EntryType
<1>9. /\ f.editor \in {Nobody, Replayed} /\ f.readable \in BOOLEAN
      /\ f.editor = Replayed <=> \E i \in S : lines[i].op = "DIRTY" /\ \A j \in S : lines[j].op = "CLEAN" => j < i
      /\ f.readable = TRUE <=> \E i \in S : lines[i].op = "CLEAN"
  BY ReplayFacts DEF EntryType
<1> HIDE DEF e, f, S
<1>10. e.editor = Replayed <=> f.editor = Replayed
  BY <1>7, <1>8, <1>9 DEF S
<1>11. e.readable = TRUE <=> f.readable = TRUE
  BY <1>7, <1>8, <1>9 DEF S
<1>12. e.editor = f.editor /\ e.readable = f.readable
  BY <1>8, <1>9, <1>10, <1>11
<1> QED BY <1>12 DEF e, f, q

\* A rebuilt journal remembers the unfinished edits, and those only.
LEMMA ReplayCompact ==
  ASSUME mem \in MemType, Mapped, NEW k \in Keys, mem.entry[k] # NoEntry
  PROVE  Replay(Compact(mem))[k].editor = Replayed <=> mem.entry[k].editor # Nobody
<1> DEFINE c == Compact(mem)
<1> HIDE DEF NoEntry
<1>0. mem.lru \in Seq(Keys) /\ mem.entry \in [Keys -> EntryType]
  BY DEF MemType
<1>1. /\ c \in Seq(LineType) /\ Len(c) = Len(mem.lru)
      /\ \A i \in 1 .. Len(mem.lru) :
           /\ c[i].key = mem.lru[i]
           /\ c[i].op = IF mem.entry[mem.lru[i]].editor # Nobody THEN "DIRTY" ELSE "CLEAN"
  BY CompactFacts
<1>2. PICK i \in DOMAIN mem.lru : mem.lru[i] = k
  BY DEF Mapped, Contains
<1> HIDE DEF c
<1>3. DOMAIN c = DOMAIN mem.lru /\ DOMAIN mem.lru = 1 .. Len(mem.lru)
  BY <1>0, <1>1
<1>4. c[i].key = k /\ c[i].op = IF mem.entry[k].editor # Nobody THEN "DIRTY" ELSE "CLEAN"
  BY <1>1, <1>2, <1>3
<1>5. \A j \in DOMAIN c : c[j].key = k => j = i
  BY <1>1, <1>2, <1>3 DEF Mapped, Distinct
<1>6. LinesOf(c, k) = {i}
  <2>1. \A j \in LinesOf(c, k) : j = i
    BY <1>5 DEF LinesOf
  <2>2. \A j \in i .. Len(c) : c[j].op = "REMOVE" => c[j].key # k
    <3> SUFFICES ASSUME NEW j \in i .. Len(c), c[j].key = k PROVE c[j].op # "REMOVE"
      OBVIOUS
    <3>1. j \in DOMAIN c
      BY <1>1, <1>3
    <3>2. j = i
      BY <1>5, <3>1
    <3> QED BY <1>4, <3>2
  <2>3. i \in LinesOf(c, k)
    BY <1>3, <1>4, <2>2 DEF LinesOf
  <2> QED BY <2>1, <2>3
<1>7. Replay(c)[k].editor = Replayed <=>
        \E j \in {i} : c[j].op = "DIRTY" /\ \A h \in {i} : c[h].op = "CLEAN" => h < j
  <2>1. Replay(c)[k].editor = Replayed <=>
          \E j \in LinesOf(c, k) : c[j].op = "DIRTY" /\ \A h \in LinesOf(c, k) : c[h].op = "CLEAN" => h < j
    BY <1>1, ReplayFacts
  <2> QED BY <1>6, <2>1
<1> QED BY <1>4, <1>7 DEF c

-----------------------------------------------------------------------------
(* The promise of the cache. *)

LEMMA Readables ==
  /\ Types /\ mem.initialized = TRUE => \A k \in Keys :
       Readable[k] = IF mem.entry[k].readable = TRUE THEN disk.clean[k] ELSE NoVersion
  /\ mem.initialized = FALSE => \A k \in Keys :
       Readable[k] = IF Recovered[k].readable /\ Recovered[k].editor = Nobody THEN disk.clean[k] ELSE NoVersion
  /\ Types' /\ mem'.initialized = TRUE => \A k \in Keys :
       Readable'[k] = IF mem'.entry[k].readable = TRUE THEN disk'.clean[k] ELSE NoVersion
  /\ mem'.initialized = FALSE => \A k \in Keys :
       Readable'[k] = IF Recovered'[k].readable /\ Recovered'[k].editor = Nobody THEN disk'.clean[k] ELSE NoVersion
<1>1. Types /\ mem.initialized = TRUE => \A k \in Keys :
        Readable[k] = IF mem.entry[k].readable = TRUE THEN disk.clean[k] ELSE NoVersion
  BY DEF Types, MemType, EntryType, Readable
<1>2. mem.initialized = FALSE => \A k \in Keys :
        Readable[k] = IF Recovered[k].readable /\ Recovered[k].editor = Nobody THEN disk.clean[k] ELSE NoVersion
  BY DEF Readable
<1>3. Types' /\ mem'.initialized = TRUE => \A k \in Keys :
        Readable'[k] = IF mem'.entry[k].readable = TRUE THEN disk'.clean[k] ELSE NoVersion
  BY DEF Types, MemType, EntryType, Readable
<1>4. mem'.initialized = FALSE => \A k \in Keys :
        Readable'[k] = IF Recovered'[k].readable /\ Recovered'[k].editor = Nobody THEN disk'.clean[k] ELSE NoVersion
  BY DEF Readable
<1> QED BY <1>1, <1>2, <1>3, <1>4

\* Entries are dropped.
LEMMA DropStep ==
  ASSUME shown' = shown, \A k \in Keys : Readable'[k] \in {Readable[k], NoVersion}
  PROVE  Promise!Next
<1>1. Promise!Drop
  BY DEF Promise!Drop, Promise!NoVersion, NoVersion, Versions
<1> QED BY <1>1 DEF Promise!Next

\* A version becomes readable.
LEMMA CommitStep ==
  ASSUME NEW k \in Keys, NEW v \in Versions \ shown, shown' = shown \cup {v},
         Readable'[k] = v, \A x \in Keys \ {k} : Readable'[x] = Readable[x]
  PROVE  Promise!Next
<1>1. Readable' = [x \in Keys |-> Readable'[x]] /\ Readable = [x \in Keys |-> Readable[x]]
  BY DEF Readable
<1>2. Readable' = [Readable EXCEPT ![k] = v]
  BY <1>1
<1>3. (Versions \ shown)' = (Versions \ shown) \ {v}
  BY DEF Versions
<1>4. Promise!Commit(k, v)
  BY <1>2, <1>3 DEF Promise!Commit
<1> QED BY <1>4 DEF Promise!Next

-----------------------------------------------------------------------------
(* What opening the cache and the end of the process do to the journal. *)

LEMMA InitializeFiles ==
  ASSUME Types, initialize
  PROVE  /\ OnDisk' = OnDisk /\ disk'.backup = NoFile
         /\ disk'.clean = disk.clean /\ disk'.dirty = disk.dirty
<1>0. disk \in DirType
  BY DEF Types
<1> HIDE DEF NoFile
<1>1. CASE disk.backup = NoFile
  BY <1>1 DEF initialize, OnDisk
<1>2. CASE disk.backup # NoFile /\ disk.journal = NoFile
  <2>1. disk' = [disk EXCEPT !.journal = disk.backup, !.backup = NoFile]
    BY <1>2 DEF initialize
  <2>2. /\ disk'.journal = disk.backup /\ disk'.backup = NoFile
        /\ disk'.clean = disk.clean /\ disk'.dirty = disk.dirty
    BY <1>0, <2>1, SwapFiles
  <2> QED BY <1>2, <2>2 DEF OnDisk
<1>3. CASE disk.backup # NoFile /\ disk.journal # NoFile
  <2>1. disk' = [disk EXCEPT !.backup = NoFile]
    BY <1>3 DEF initialize
  <2>2. /\ disk'.journal = disk.journal /\ disk'.backup = NoFile
        /\ disk'.clean = disk.clean /\ disk'.dirty = disk.dirty
    BY <1>0, <2>1, NoFileType, SetBackup
  <2> QED BY <1>3, <2>2 DEF OnDisk
<1> QED BY <1>1, <1>2, <1>3

LEMMA ReadLoads ==
  ASSUME readJournal, disk.journal # NoFile, disk.journal.app = app
  PROVE  /\ mem'.entry = Replay(disk.journal.lines) /\ mem'.buffer = <<>> /\ mem'.initialized = FALSE
         /\ lock' \in {Rebuild("process"), <<"process">>}
<1> HIDE DEF NoFile
<1>1. lock' \in {Rebuild("process"), <<"process">>}
  BY DEF readJournal
<1> DEFINE f == Replay(disk.journal.lines)
<1>2. PICK lru, c : mem' = [Closed EXCEPT !.lru = lru, !.entry = f, !.journalWriter = "file",
                                          !.redundantOpCount = c]
  BY DEF readJournal
<1> HIDE DEF f
<1>3. mem'.entry = f /\ mem'.buffer = <<>> /\ mem'.initialized = FALSE
  BY <1>2 DEF Closed
<1> QED BY <1>1, <1>3 DEF f

LEMMA AfterDeath ==
  ASSUME Types, Types', Journaled, restart
  PROVE  /\ disk'.clean = disk.clean /\ disk'.dirty = disk.dirty /\ SameLeft(disk, disk')
         /\ OnDisk'.app = OnDisk.app
         /\ OnDisk' = NoFile => OnDisk = NoFile
         /\ \/ OnDisk' = OnDisk
            \/ /\ mem.journalWriter = "file"
               /\ \E p \in Torn(mem.buffer) : OnDisk'.lines = OnDisk.lines \o p
<1>0. disk \in DirType /\ app \in Nat \ {0}
  BY DEF Types
<1>1. CASE disk' = disk
  BY <1>1 DEF OnDisk, SameLeft
<1>2. ASSUME NEW p \in Torn(mem.buffer), mem.journalWriter = "file", disk.journal # NoFile,
             disk' = Appended(disk, p)
      PROVE  /\ disk'.clean = disk.clean /\ disk'.dirty = disk.dirty /\ SameLeft(disk, disk')
             /\ OnDisk'.app = OnDisk.app
             /\ OnDisk' # NoFile /\ OnDisk'.lines = OnDisk.lines \o p
  <2>1. OnDisk = disk.journal
    BY <1>2 DEF OnDisk
  <2>2. /\ disk'.journal = [disk.journal EXCEPT !.lines = disk.journal.lines \o p]
        /\ disk'.clean = disk.clean /\ disk'.dirty = disk.dirty /\ SameLeft(disk, disk')
    BY <1>0, <1>2 DEF Appended, DirType, SameLeft
  <2>3. disk.journal \in FileType
    BY <1>0 DEF DirType
  <2> DEFINE q == disk.journal.lines \o p
  <2>4. disk'.journal = [disk.journal EXCEPT !.lines = q]
    BY <2>2
  <2> HIDE DEF q
  <2>5. disk'.journal.app = disk.journal.app /\ disk'.journal.lines = q
    BY <2>3, <2>4 DEF FileType
  <2>6. disk.journal.app = app
    <3>1. ~At("swap")
      BY <1>2 DEF Journaled
    <3> QED BY <1>2, <3>1 DEF Journaled
  <2>7. disk'.journal # NoFile
    BY <1>0, <2>5, <2>6 DEF NoFile
  <2>8. OnDisk' = disk'.journal
    BY <2>7 DEF OnDisk
  <2> HIDE DEF NoFile
  <2> QED BY <2>1, <2>2, <2>5, <2>7, <2>8 DEF q
<1> HIDE DEF NoFile
<1>3. \E p \in Torn(mem.buffer) :
        disk' = IF mem.journalWriter = "file" /\ disk.journal # NoFile THEN Appended(disk, p) ELSE disk
  BY DEF restart
<1>4. CASE mem.journalWriter = "file" /\ disk.journal # NoFile
  BY <1>2, <1>3, <1>4
<1> QED BY <1>1, <1>3, <1>4

-----------------------------------------------------------------------------
(* The promise while the cache is being opened. *)

\* The journal covers the clean files: an entry that is not being edited is readable again.
LEMMA CoveredEntries ==
  ASSUME NEW d, NEW e, NEW lines \in Seq(LineType), Covers(d, e, lines, <<>>), NEW k \in Keys,
         d.clean[k] # NoVersion, Replay(lines)[k].editor # Replayed
  PROVE  Replay(lines)[k].readable = TRUE /\ Replay(lines)[k].editor = Nobody
<1>1. KeepsClean(lines, <<>>, k)
  BY DEF Covers
<1>2. Replay(lines)[k].editor \in {Nobody, Replayed}
  BY ReplayFacts
<1> QED BY <1>1, <1>2, ReplayKnows

\* Closed before and after: nothing appears.
LEMMA ClosedDrop ==
  ASSUME mem.initialized = FALSE, mem'.initialized = FALSE, shown' = shown,
         \A k \in Keys : disk'.clean[k] # NoVersion =>
           /\ disk'.clean[k] = disk.clean[k]
           /\ Recovered'[k].readable /\ Recovered'[k].editor = Nobody =>
                Recovered[k].readable /\ Recovered[k].editor = Nobody
  PROVE  Promise!Next
<1>1. ASSUME NEW k \in Keys PROVE Readable'[k] \in {Readable[k], NoVersion}
  <2>1. Readable'[k] = IF Recovered'[k].readable /\ Recovered'[k].editor = Nobody
                       THEN disk'.clean[k] ELSE NoVersion
    BY Readables
  <2>2. Readable[k] = IF Recovered[k].readable /\ Recovered[k].editor = Nobody
                      THEN disk.clean[k] ELSE NoVersion
    BY Readables
  <2> QED BY <2>1, <2>2
<1> QED BY <1>1, DropStep

\* The journal has been read, before and after.
LEMMA LoadedDrop ==
  ASSUME Base, Base', Journaled, Recalled, Recalled', Loaded, Loaded',
         mem.initialized = FALSE, mem'.initialized = FALSE, shown' = shown, app' = app, OnDisk'.app = app,
         \A k \in Keys : disk'.clean[k] # NoVersion =>
           /\ disk'.clean[k] = disk.clean[k]
           /\ mem'.entry[k].editor = Replayed <=> mem.entry[k].editor = Replayed
  PROVE  Promise!Next
<1>1. OnDisk.app = app /\ OnDisk.lines \in Seq(LineType) /\ mem.buffer = <<>>
  BY DEF Journaled, Recalled, Base, Types, DirType, FileType, OnDisk
<1>2. Covers(disk, mem.entry, OnDisk.lines, <<>>)
  BY <1>1 DEF Journaled
<1>3. Recovered = Replay(OnDisk.lines) /\ Recovered' = Replay(OnDisk'.lines)
  <2>1. Recovered = Replay(OnDisk.lines)
    BY <1>1 DEF Recovered
  <2>2. Recovered' = Replay(OnDisk'.lines)
    BY DEF Recovered, Replay, NoEntry
  <2> QED BY <2>1, <2>2
<1>4. ASSUME NEW k \in Keys, disk'.clean[k] # NoVersion, Recovered'[k].editor = Nobody
      PROVE  Recovered[k].readable = TRUE /\ Recovered[k].editor = Nobody
  <2>1. disk.clean[k] # NoVersion /\ Nobody # Replayed
    BY <1>4, Constants
  <2>2. Replay(OnDisk'.lines)[k].editor # Replayed
    BY <1>3, <1>4, <2>1
  <2>3. mem'.entry[k].editor # Replayed
    BY <1>4, <2>2 DEF Recalled, Recalls
  <2>4. Replay(OnDisk.lines)[k].editor # Replayed
    BY <1>4, <2>1, <2>3 DEF Recalled, Recalls
  <2> QED BY <1>1, <1>2, <1>3, <2>1, <2>4, CoveredEntries
<1> QED BY <1>4, ClosedDrop

LEMMA PromiseOpening ==
  ASSUME Base, Base', Journaled, Journaled', Knows, Recalled, Recalled',
         initialize \/ readJournal \/ wipe \/ processJournal \/ openedEmpty
  PROVE  Promise!Next
<1>0. /\ Types /\ Types' /\ shown' = shown /\ app' = app
      /\ disk \in DirType /\ mem \in MemType
      /\ disk.clean \in [Keys -> Versions \cup {NoVersion}] /\ disk.dirty \in [Keys -> Versions \cup {NoVersion}]
  BY DEF Base, Types, DirType, initialize, readJournal, wipe, processJournal, openedEmpty
<1>closed. At("read") \/ At("wipe") \/ At("process") => mem.initialized = FALSE
  <2>1. At("wipe") => mem.initialized = FALSE
    <3> SUFFICES ASSUME At("wipe") PROVE mem.initialized = FALSE
      OBVIOUS
    <3>1. lock = <<"wipe">>
      BY <1>0, HeldFor DEF Base
    <3>2. ~Working
      BY <3>1 DEF Working, Rebuilding
    <3> QED BY <1>0, <3>2 DEF Base, Locked, MemType
  <2>2. At("read") \/ At("process") => mem.initialized # TRUE
    BY OpeningIsQuiet DEF Base
  <2> QED BY <1>0, <2>1, <2>2 DEF MemType
<1>1. ASSUME mem.initialized = FALSE, mem'.initialized = FALSE, OnDisk' = OnDisk, disk'.clean = disk.clean
      PROVE  Promise!Next
  <2>1. Recovered' = Recovered
    BY <1>0, <1>1 DEF Recovered, Replay, NoEntry
  <2> QED BY <1>0, <1>1, <2>1, ClosedDrop
<1>none. ASSUME \A k \in Keys : disk'.clean[k] = NoVersion PROVE Promise!Next
  <2>1. \A k \in Keys : Readable'[k] = NoVersion
    BY <1>none DEF Readable
  <2> QED BY <1>0, <2>1, DropStep
<1>2. CASE initialize
  <2>1. mem.initialized = FALSE /\ mem'.initialized = FALSE
    BY <1>0, <1>2 DEF initialize, MemType
  <2> QED BY <1>0, <1>1, <1>2, <2>1, InitializeFiles
<1>3. CASE readJournal
  <2>1. mem.initialized = FALSE /\ disk' = disk
    BY <1>3, <1>closed DEF readJournal
  <2>2. mem'.initialized = FALSE
    <3> HIDE DEF NoFile
    <3>1. CASE disk.journal = NoFile \/ disk.journal.app # app
      BY <1>3, <2>1, <3>1 DEF readJournal
    <3>2. CASE disk.journal # NoFile /\ disk.journal.app = app
      BY <1>3, <3>2, ReadLoads
    <3> QED BY <3>1, <3>2
  <2>3. OnDisk' = OnDisk
    BY <2>1 DEF OnDisk
  <2> QED BY <1>1, <2>1, <2>2, <2>3
<1>4. CASE wipe
  <2>1. mem.initialized = FALSE /\ mem'.initialized = FALSE /\ lock = <<"wipe">> /\ (lock' = lock \/ lock' = Rebuild("done"))
    BY <1>0, <1>4, <1>closed, HeldFor DEF wipe, Base
  <2>2. CASE lock' = lock
    <3>1. At("wipe")'
      BY <2>1, <2>2 DEF At, Free
    <3>2. disk'.backup = NoFile /\ disk'.journal.app # app'
      BY <3>1 DEF Journaled
    <3>3. OnDisk'.app # app'
      BY <1>0, <3>2 DEF OnDisk, Types, NoFile
    <3>4. Recovered' = [k \in Keys |-> NoEntry]
      BY <3>3 DEF Recovered
    <3>5. \A k \in Keys : Readable'[k] = NoVersion
      <4>1. \A k \in Keys : Recovered'[k].readable = FALSE
        BY <3>4 DEF NoEntry
      <4> QED BY <2>1, <4>1, Readables
    <3> QED BY <1>0, <3>5, DropStep
  <2>3. CASE lock' = Rebuild("done")
    <3>1. Rebuilding(lock', "done")
      BY <2>3 DEF Rebuilding, Rebuild
    <3> QED BY <1>none, <3>1 DEF Journaled, NoFiles
  <2> QED BY <2>1, <2>2, <2>3
<1>5. CASE processJournal
  <2>1. mem.initialized = FALSE /\ At("process") /\ lock = <<"process">>
    BY <1>0, <1>5, <1>closed, HeldFor DEF processJournal, Base
  <2>2. Loaded
    BY <2>1 DEF Loaded, Rebuilding
  <2>3. OnDisk.app = app /\ mem.buffer = <<>> /\ OnDisk.lines \in Seq(LineType)
    BY <1>0, <2>1, <2>2 DEF Journaled, Recalled, Types, DirType, FileType, OnDisk
  <2>4. Covers(disk, mem.entry, OnDisk.lines, <<>>)
    BY <2>3 DEF Journaled
  <2>5. ASSUME lock' = lock, disk'.journal = disk.journal, disk'.backup = disk.backup,
               mem'.initialized = mem.initialized,
               \A k \in Keys : disk'.clean[k] # NoVersion =>
                 /\ disk'.clean[k] = disk.clean[k]
                 /\ mem'.entry[k] = mem.entry[k]
        PROVE  Promise!Next
    <3>1. Loaded' /\ OnDisk' = OnDisk
      BY <2>1, <2>5 DEF Loaded, Rebuilding, OnDisk
    <3> QED BY <1>0, <2>1, <2>2, <2>3, <2>5, <3>1, LoadedDrop
  <2>6. CASE disk' = [disk EXCEPT !.temp = NoFile] /\ mem' = mem /\ lock' = lock
    <3>1. disk'.clean = disk.clean /\ disk'.journal = disk.journal /\ disk'.backup = disk.backup
      BY <1>0, <2>6, NoFileType, SetTemp
    <3> QED BY <2>5, <2>6, <3>1
  <2>7. ASSUME NEW k \in Keys, disk' = [disk EXCEPT !.clean[k] = NoVersion], mem' = mem, lock' = lock
        PROVE  Promise!Next
    <3>1. /\ disk'.clean = [disk.clean EXCEPT ![k] = NoVersion] /\ disk'.journal = disk.journal
          /\ disk'.backup = disk.backup
      BY <1>0, <2>7 DEF DirType
    <3>2. \A x \in Keys : disk'.clean[x] # NoVersion => disk'.clean[x] = disk.clean[x]
      BY <1>0, <3>1
    <3> QED BY <2>5, <2>7, <3>1, <3>2
  <2>8. ASSUME NEW k \in Keys, disk.clean[k] = NoVersion, disk' = [disk EXCEPT !.dirty[k] = NoVersion, !.left[k] = NoVersion],
               mem' = [mem EXCEPT !.lru = Without(@, k), !.entry[k] = NoEntry], lock' = lock
        PROVE  Promise!Next
    <3>1. disk'.clean = disk.clean /\ disk'.journal = disk.journal /\ disk'.backup = disk.backup
      BY <1>0, <2>8 DEF DirType
    <3>2. mem'.initialized = mem.initialized /\ mem'.entry = [mem.entry EXCEPT ![k] = NoEntry]
      <4> DEFINE l == Without(mem.lru, k)
                 f == [mem.entry EXCEPT ![k] = NoEntry]
      <4>1. mem' = [mem EXCEPT !.lru = l, !.entry = f]
        BY <1>0, <2>8 DEF MemType
      <4> HIDE DEF l, f
      <4>2. mem'.initialized = mem.initialized /\ mem'.entry = f
        BY <1>0, <4>1 DEF MemType
      <4> QED BY <4>2 DEF f
    <3> HIDE DEF NoEntry
    <3>3. \A x \in Keys \ {k} : mem'.entry[x] = mem.entry[x]
      BY <1>0, <3>2 DEF MemType
    <3> QED BY <2>5, <2>8, <3>1, <3>2, <3>3
  <2>9. ASSUME disk' = disk, mem'.initialized = TRUE, mem'.entry = mem.entry,
               \A k \in Keys : mem.entry[k].editor # Replayed
        PROVE  Promise!Next
    <3>1. ASSUME NEW k \in Keys, disk.clean[k] # NoVersion PROVE Readable[k] = disk.clean[k]
      <4>1. Replay(OnDisk.lines)[k].editor # Replayed
        BY <2>1, <2>2, <2>9, <3>1 DEF Recalled, Recalls
      <4>2. Replay(OnDisk.lines)[k].readable = TRUE /\ Replay(OnDisk.lines)[k].editor = Nobody
        BY <2>3, <2>4, <3>1, <4>1, CoveredEntries
      <4>3. Recovered = Replay(OnDisk.lines)
        BY <2>3 DEF Recovered
      <4> QED BY <2>1, <4>2, <4>3, Readables
    <3>2. ASSUME NEW k \in Keys PROVE Readable'[k] \in {Readable[k], NoVersion}
      <4>1. Readable'[k] \in {disk.clean[k], NoVersion}
        BY <1>0, <2>9, Readables
      <4> QED BY <3>1, <4>1
    <3> QED BY <1>0, <3>2, DropStep
  <2>10. mem' = [mem EXCEPT !.size = Taken(mem), !.initialized = TRUE] =>
           mem'.initialized = TRUE /\ mem'.entry = mem.entry
    BY <1>0 DEF MemType
  <2> HIDE DEF NoFile
  <2> QED BY <1>5, <2>6, <2>7, <2>8, <2>9, <2>10 DEF processJournal
<1>6. CASE openedEmpty
  <2>1. lock = <<"done">> /\ disk' = disk
    BY <1>0, <1>6, HeldFor DEF Base, openedEmpty
  <2>2. Rebuilding(lock, "done")
    BY <2>1 DEF Rebuilding
  <2>3. NoFiles
    BY <2>2 DEF Journaled
  <2> QED BY <1>none, <2>1, <2>3 DEF NoFiles
<1> QED BY <1>2, <1>3, <1>4, <1>5, <1>6

\* Opening goes on in rebuildJournal only.
LEMMA RecalledElse ==
  ASSUME Base', mem'.initialized = TRUE \/ ~Rebuilding(lock', "process")
  PROVE  Recalled'
<1>1. mem'.initialized = FALSE => ~Loaded'
  BY DEF Loaded
<1> QED BY <1>1 DEF Recalled, Base, Locked

LEMMA RecalledRead ==
  ASSUME Base, Base', Journaled, readJournal
  PROVE  Recalled'
<1>0. /\ Types /\ Types' /\ At("read") /\ disk' = disk
  BY DEF Base, readJournal
<1>1. OnDisk' = disk.journal \/ disk.journal = NoFile
  BY <1>0 DEF OnDisk
<1> HIDE DEF NoFile
<1>2. CASE disk.journal = NoFile \/ disk.journal.app # app
  <2>1. lock' \in {Rebuild("done"), <<"wipe">>}
    BY <1>2 DEF readJournal
  <2>2. ~Rebuilding(lock', "process")
    BY <2>1 DEF Rebuilding, Rebuild
  <2> QED BY <2>2, RecalledElse
<1>3. CASE disk.journal # NoFile /\ disk.journal.app = app
  <2>1. /\ mem'.entry = Replay(disk.journal.lines) /\ mem'.buffer = <<>>
        /\ lock' \in {Rebuild("process"), <<"process">>}
    BY <1>3, ReadLoads
  <2>2. Recalls(disk', mem'.entry, OnDisk'.lines)
    BY <1>1, <1>3, <2>1 DEF Recalls
  <2>3. ~At("backup")' /\ ~At("swap")'
    <3>1. lock' # <<>> /\ Head(lock') \in {"close", "process"}
      BY <2>1 DEF Rebuild
    <3> QED BY <3>1 DEF At, Free
  <2> QED BY <2>1, <2>2, <2>3 DEF Recalled
<1> QED BY <1>2, <1>3

LEMMA RecalledProcess ==
  ASSUME Base, Base', Journaled, Recalled, processJournal
  PROVE  Recalled'
<1>0. /\ Types /\ Types' /\ At("process") /\ disk \in DirType /\ mem \in MemType
      /\ disk.clean \in [Keys -> Versions \cup {NoVersion}] /\ mem.entry \in [Keys -> EntryType]
  BY DEF Base, Types, DirType, MemType, processJournal
<1>1. lock = <<"process">> /\ mem.initialized = FALSE
  BY <1>0, HeldFor, OpeningIsQuiet DEF Base, MemType
<1>2. Loaded
  BY <1>1 DEF Loaded, Rebuilding
<1>3. Recalls(disk, mem.entry, OnDisk.lines) /\ mem.buffer = <<>>
  BY <1>1, <1>2 DEF Recalled
<1>4. ASSUME lock' = lock, disk'.journal = disk.journal, disk'.backup = disk.backup, mem'.buffer = mem.buffer,
             \A k \in Keys : disk'.clean[k] # NoVersion =>
               disk'.clean[k] = disk.clean[k] /\ mem'.entry[k] = mem.entry[k]
      PROVE  Recalled'
  <2>1. OnDisk' = OnDisk
    BY <1>4 DEF OnDisk
  <2>2. Recalls(disk', mem'.entry, OnDisk'.lines)
    BY <1>3, <1>4, <2>1 DEF Recalls
  <2>3. ~At("backup")' /\ ~At("swap")'
    BY <1>1, <1>4 DEF At, Free
  <2> QED BY <1>3, <1>4, <2>2, <2>3 DEF Recalled
<1>5. CASE disk' = [disk EXCEPT !.temp = NoFile] /\ mem' = mem /\ lock' = lock
  <2>1. disk'.clean = disk.clean /\ disk'.journal = disk.journal /\ disk'.backup = disk.backup
    BY <1>0, <1>5, NoFileType, SetTemp
  <2> QED BY <1>4, <1>5, <2>1
<1>6. ASSUME NEW k \in Keys, disk' = [disk EXCEPT !.clean[k] = NoVersion], mem' = mem, lock' = lock
      PROVE  Recalled'
  <2>1. /\ disk'.clean = [disk.clean EXCEPT ![k] = NoVersion] /\ disk'.journal = disk.journal
        /\ disk'.backup = disk.backup
    BY <1>0, <1>6 DEF DirType
  <2>2. \A x \in Keys : disk'.clean[x] # NoVersion => disk'.clean[x] = disk.clean[x]
    BY <1>0, <2>1
  <2> QED BY <1>4, <1>6, <2>1, <2>2
<1>7. ASSUME NEW k \in Keys, disk.clean[k] = NoVersion, disk' = [disk EXCEPT !.dirty[k] = NoVersion, !.left[k] = NoVersion],
             mem' = [mem EXCEPT !.lru = Without(@, k), !.entry[k] = NoEntry], lock' = lock
      PROVE  Recalled'
  <2>1. disk'.clean = disk.clean /\ disk'.journal = disk.journal /\ disk'.backup = disk.backup
    BY <1>0, <1>7 DEF DirType
  <2>2. mem'.buffer = mem.buffer /\ mem'.entry = [mem.entry EXCEPT ![k] = NoEntry]
    <3> DEFINE l == Without(mem.lru, k)
               f == [mem.entry EXCEPT ![k] = NoEntry]
    <3>1. mem' = [mem EXCEPT !.lru = l, !.entry = f]
      BY <1>0, <1>7 DEF MemType
    <3> HIDE DEF l, f
    <3>2. mem'.buffer = mem.buffer /\ mem'.entry = f
      BY <1>0, <3>1 DEF MemType
    <3> QED BY <3>2 DEF f
  <2> HIDE DEF NoEntry
  <2>3. \A x \in Keys \ {k} : mem'.entry[x] = mem.entry[x]
    BY <1>0, <2>2
  <2> QED BY <1>4, <1>7, <2>1, <2>2, <2>3
<1>8. mem' = [mem EXCEPT !.size = Taken(mem), !.initialized = TRUE] => mem'.initialized = TRUE
  BY <1>0 DEF MemType
<1> HIDE DEF NoFile
<1> QED BY <1>5, <1>6, <1>7, <1>8, RecalledElse DEF processJournal

\* A rebuild of the journal while the cache is being opened.
LEMMA RecalledRebuild ==
  ASSUME Base, Base', Journaled, Knows, NobodyStuck, Recalled, rebuildJournal
  PROVE  /\ Recalled' /\ mem'.initialized = mem.initialized /\ mem'.entry = mem.entry
         /\ disk'.clean = disk.clean
<1>0. /\ Types /\ Types' /\ Edits /\ disk \in DirType /\ mem \in MemType /\ app' = app
      /\ lock # <<>> /\ lock' = Tail(lock) /\ Head(lock) \in {"close", "temp", "backup", "swap", "drop"}
      /\ app \in Nat \ {0}
  BY DEF Base, Types, rebuildJournal, At, Free
<1>1. PICK end \in {"done", "process", "reset"} : Rebuilding(lock, end)
  <2>1. Working \/ Opening
    BY DEF Base, Locked, Types, MemType
  <2> QED BY <1>0, <2>1 DEF Working, Opening
<1>2. /\ Rebuilding(lock', end) /\ lock' # <<>> /\ \A s : At(s) <=> Head(lock) = s
      /\ Head(lock) = "close" => Head(lock') = "temp"
      /\ Head(lock) = "temp" => Head(lock') = "backup"
      /\ Head(lock) = "backup" => Head(lock') = "swap"
      /\ Head(lock) = "swap" => Head(lock') = "drop"
      /\ Head(lock) = "drop" => Head(lock') = end
  <2>1. Head(lock) # end
    BY <1>0
  <2> QED BY <1>0, <1>1, <2>1, RebuildOrder, RebuildingFacts DEF At, Free
<1>3. \A s : At(s)' <=> Head(lock') = s
  BY <1>2 DEF At, Free
<1>4. ASSUME mem'.initialized = mem.initialized, mem'.entry = mem.entry, disk'.clean = disk.clean,
             mem'.buffer = mem.buffer \/ mem'.buffer = <<>>,
             mem.initialized = FALSE /\ Rebuilding(lock, "process") =>
               /\ Recalls(disk, mem.entry, OnDisk'.lines)
               /\ Head(lock') \in {"backup", "swap"} => Recalls(disk, mem.entry, disk'.temp.lines)
      PROVE  /\ Recalled' /\ mem'.initialized = mem.initialized /\ mem'.entry = mem.entry
             /\ disk'.clean = disk.clean
  <2>1. CASE mem.initialized = TRUE
    BY <1>4, <2>1, RecalledElse
  <2>2. CASE mem.initialized = FALSE /\ end # "process"
    <3>1. ~Rebuilding(lock', "process")
      BY <1>2, <2>2, RebuildingFacts
    <3> QED BY <1>4, <3>1, RecalledElse
  <2>3. CASE mem.initialized = FALSE /\ end = "process"
    <3>1. Recalls(disk', mem'.entry, OnDisk'.lines)
      BY <1>1, <1>4, <2>3 DEF Recalls
    <3>2. Head(lock') \in {"backup", "swap"} => Recalls(disk', mem'.entry, disk'.temp.lines)
      BY <1>1, <1>4, <2>3 DEF Recalls
    <3>3. mem'.buffer = <<>>
      BY <1>4, <2>3 DEF Recalled
    <3> QED BY <1>3, <1>4, <3>1, <3>2, <3>3 DEF Recalled
  <2> QED BY <1>0, <2>1, <2>2, <2>3 DEF MemType
<1>5. mem.initialized = FALSE /\ Rebuilding(lock, "process") =>
        /\ Loaded /\ mem.buffer = <<>> /\ Recalls(disk, mem.entry, OnDisk.lines)
        /\ Head(lock) \in {"backup", "swap"} => Recalls(disk, mem.entry, disk.temp.lines)
  BY <1>2 DEF Loaded, Recalled
<1>6. ASSUME At("close"), NEW bad \in BOOLEAN, NEW s \in Flush(Now, bad), Become(s)
      PROVE  /\ Recalled' /\ mem'.initialized = mem.initialized /\ mem'.entry = mem.entry
             /\ disk'.clean = disk.clean
  <2>1. Flushed([d |-> disk, m |-> mem], Then)
    <3>0. s \in Flush([d |-> disk, m |-> mem], bad) /\ disk \in DirType /\ mem \in MemType
      BY <1>0, <1>6 DEF Now
    <3>1. Flushed([d |-> disk, m |-> mem], s) /\ s = [d |-> s.d, m |-> s.m]
      BY ONLY <1>6, <3>0, FlushFacts
    <3>2. s = Then
      BY <1>6, <3>1 DEF Become, Then
    <3> QED BY <3>1, <3>2
  <2>2. /\ mem'.initialized = mem.initialized /\ mem'.entry = mem.entry
        /\ disk'.clean = disk.clean /\ mem'.buffer \in {mem.buffer, <<>>}
    BY <2>1, FlushedKeeps
  <2>3. Head(lock') = "temp"
    BY <1>2, <1>6
  <2>4. ASSUME mem.initialized = FALSE, Rebuilding(lock, "process")
        PROVE  Recalls(disk, mem.entry, OnDisk'.lines)
    <3>1. CASE mem.journalWriter # "file"
      <4>1. disk' = disk
        BY <2>1, <3>1 DEF Flushed, Then
      <4> QED BY <1>5, <2>4, <4>1 DEF OnDisk
    <3>2. CASE mem.journalWriter = "file"
      <4>1. PICK p \in Torn(<<>>) :
              disk'.journal = [app |-> disk.journal.app, lines |-> disk.journal.lines \o p]
        BY <1>5, <2>1, <2>4, <3>2 DEF Flushed, Then
      <4>2. disk.journal.app = app
        <5>1. ~At("swap")
          BY <1>2, <1>6
        <5> QED BY <3>2, <5>1 DEF Journaled
      <4> DEFINE q == disk.journal.lines \o p
      <4>3. disk'.journal = [app |-> disk.journal.app, lines |-> q]
        BY <4>1
      <4> HIDE DEF q
      <4>4. OnDisk = disk.journal /\ OnDisk' = disk'.journal /\ OnDisk'.lines = q
        BY <1>0, <4>2, <4>3 DEF OnDisk, NoFile
      <4>5. disk.journal.lines \in Seq(LineType)
        BY <1>0 DEF DirType, FileType
      <4>6. \A k \in Keys : Replay(q)[k].editor = Replay(disk.journal.lines)[k].editor
        BY <4>5, ReplayTorn DEF q
      <4> QED BY <1>5, <2>4, <4>4, <4>6 DEF Recalls
    <3> QED BY <3>1, <3>2
  <2> QED BY <1>4, <2>2, <2>3, <2>4
<1>7. ASSUME At("temp"), mem' = mem, disk' = [disk EXCEPT !.temp = [app |-> app, lines |-> Compact(mem)]]
      PROVE  /\ Recalled' /\ mem'.initialized = mem.initialized /\ mem'.entry = mem.entry
             /\ disk'.clean = disk.clean
  <2> DEFINE c == Compact(mem)
             f == [app |-> app, lines |-> c]
  <2>1. ASSUME mem.initialized = FALSE, Rebuilding(lock, "process")
        PROVE  Recalls(disk, mem.entry, c)
    <3>1. Known(disk, mem.entry)
      <4>1. lock # <<"publish">>
        BY <1>0
      <4> QED BY <1>0, <1>5, <2>1, <4>1, KnownNow
    <3>2. ASSUME NEW k \in Keys, disk.clean[k] # NoVersion
          PROVE  Replay(c)[k].editor = Replayed <=> mem.entry[k].editor = Replayed
      <4>1. mem.entry[k] # NoEntry
        BY <3>1, <3>2, Constants DEF Known, NoEntry
      <4>2. mem.entry[k].editor \in {Nobody, Replayed}
        <5>1. \A w \in Writers : writer[w].pc = "idle"
          BY <2>1 DEF Base, Locked, Resting
        <5>2. mem.entry[k].editor \notin Writers \cup {Stuck}
          BY <1>0, <2>1, <5>1 DEF Edits, Editing, NobodyStuck
        <5> QED BY <1>0, <5>2 DEF MemType, EntryType
      <4> HIDE DEF NoEntry
      <4>3. Replay(c)[k].editor = Replayed <=> mem.entry[k].editor # Nobody
        BY <1>0, <4>1, ReplayCompact DEF Base
      <4> QED BY <4>2, <4>3, Constants
    <3> QED BY <3>2 DEF Recalls
  <2>2. disk' = [disk EXCEPT !.temp = f]
    BY <1>7
  <2> HIDE DEF c
  <2>3. f.lines = c
    OBVIOUS
  <2> HIDE DEF f
  <2>4. /\ disk'.temp = f /\ disk'.journal = disk.journal /\ disk'.backup = disk.backup
        /\ disk'.clean = disk.clean
    BY <1>0, <2>2 DEF DirType
  <2>5. OnDisk' = OnDisk
    BY <2>4 DEF OnDisk
  <2> QED BY <1>4, <1>5, <1>7, <2>1, <2>3, <2>4, <2>5
<1> HIDE DEF NoFile
<1>8. ASSUME At("backup"), mem' = mem,
             disk' = IF disk.journal = NoFile THEN disk
                     ELSE [disk EXCEPT !.backup = disk.journal, !.journal = NoFile]
      PROVE  /\ Recalled' /\ mem'.initialized = mem.initialized /\ mem'.entry = mem.entry
             /\ disk'.clean = disk.clean
  <2>1. OnDisk' = OnDisk /\ disk'.temp = disk.temp /\ disk'.clean = disk.clean
    <3>1. CASE disk.journal = NoFile
      BY <1>8, <3>1 DEF OnDisk
    <3>2. CASE disk.journal # NoFile
      <4>1. /\ disk'.journal = NoFile /\ disk'.backup = disk.journal /\ disk'.temp = disk.temp
            /\ disk'.clean = disk.clean
        BY <1>0, <1>8, <3>2, SwapFiles
      <4> QED BY <3>2, <4>1 DEF OnDisk
    <3> QED BY <3>1, <3>2
  <2>2. Head(lock) = "backup"
    BY <1>2, <1>8
  <2> QED BY <1>4, <1>5, <1>8, <2>1, <2>2
<1>9. ASSUME At("swap"), mem' = mem, disk' = [disk EXCEPT !.journal = disk.temp, !.temp = NoFile]
      PROVE  /\ Recalled' /\ mem'.initialized = mem.initialized /\ mem'.entry = mem.entry
             /\ disk'.clean = disk.clean
  <2>1. Head(lock') = "drop" /\ Head(lock) = "swap" /\ disk.temp.app = app
    BY <1>2, <1>9 DEF Journaled
  <2>2. disk'.journal = disk.temp /\ disk'.clean = disk.clean
    BY <1>0, <1>9, SwapFiles
  <2>3. OnDisk' = disk.temp
    BY <1>0, <2>1, <2>2 DEF OnDisk, NoFile
  <2> QED BY <1>4, <1>5, <1>9, <2>1, <2>2, <2>3
<1>10. ASSUME At("drop"), disk' = [disk EXCEPT !.backup = NoFile],
              mem' = [mem EXCEPT !.journalWriter = "file", !.rebuildFailed = FALSE]
       PROVE  /\ Recalled' /\ mem'.initialized = mem.initialized /\ mem'.entry = mem.entry
              /\ disk'.clean = disk.clean
  <2>1. Head(lock') = end /\ disk.journal.app = app
    BY <1>0, <1>2, <1>10 DEF Journaled
  <2>2. disk'.journal = disk.journal /\ disk'.clean = disk.clean
    BY <1>0, <1>10, NoFileType, SetBackup
  <2>3. mem'.initialized = mem.initialized /\ mem'.entry = mem.entry /\ mem'.buffer = mem.buffer
    BY <1>0, <1>10 DEF MemType
  <2>4. OnDisk' = OnDisk
    BY <1>0, <2>1, <2>2 DEF OnDisk, NoFile
  <2>5. end \notin {"backup", "swap"}
    OBVIOUS
  <2> QED BY <1>4, <1>5, <2>1, <2>2, <2>3, <2>4, <2>5
<1> QED BY <1>6, <1>7, <1>8, <1>9, <1>10 DEF rebuildJournal

-----------------------------------------------------------------------------
(* The promise while the cache is open. *)

\* Open before and after: nothing appears.
LEMMA OpenDrop ==
  ASSUME Types, Types', mem.initialized = TRUE, mem'.initialized = TRUE, shown' = shown,
         \A k \in Keys : mem'.entry[k].readable = TRUE =>
           disk'.clean[k] = NoVersion \/ (mem.entry[k].readable = TRUE /\ disk'.clean[k] = disk.clean[k])
  PROVE  Promise!Next
<1>1. ASSUME NEW k \in Keys PROVE Readable'[k] \in {Readable[k], NoVersion}
  <2>1. Readable'[k] = IF mem'.entry[k].readable = TRUE THEN disk'.clean[k] ELSE NoVersion
    BY Readables
  <2>2. Readable[k] = IF mem.entry[k].readable = TRUE THEN disk.clean[k] ELSE NoVersion
    BY Readables
  <2> QED BY <2>1, <2>2
<1> QED BY <1>1, DropStep

\* The effects of the operations on an open cache.
LEMMA EffectsDrop ==
  ASSUME Types, Types', mem.initialized = TRUE, shown' = shown,
         \/ \E k \in Keys : Removed(Now, Then, k) \/ Detached(Now, Then, k) \/ Looked(Now, Then, k)
         \/ disk' = disk /\ Alike(mem, mem')
  PROVE  Promise!Next
<1>0. /\ disk.clean \in [Keys -> Versions \cup {NoVersion}] /\ mem.entry \in [Keys -> EntryType]
  BY DEF Types, DirType, MemType
<1>1. ASSUME NEW k \in Keys, Removed(Now, Then, k) PROVE Promise!Next
  <2>1. /\ mem'.initialized = TRUE /\ disk'.clean = [disk.clean EXCEPT ![k] = NoVersion]
        /\ mem'.entry = [mem.entry EXCEPT ![k] = NoEntry]
    BY <1>1 DEF Removed, Now, Then
  <2> HIDE DEF NoEntry
  <2>2. \A x \in Keys : disk'.clean[x] = NoVersion \/ (mem'.entry[x] = mem.entry[x] /\ disk'.clean[x] = disk.clean[x])
    BY <1>0, <2>1
  <2> QED BY <2>1, <2>2, OpenDrop
<1>2. ASSUME NEW k \in Keys, Detached(Now, Then, k) PROVE Promise!Next
  <2>1. /\ mem'.initialized = TRUE /\ disk'.clean = disk.clean
        /\ mem'.entry = [mem.entry EXCEPT ![k].editor = Nobody]
    BY <1>2 DEF Detached, Now, Then
  <2>2. \A x \in Keys : mem'.entry[x].readable = mem.entry[x].readable
    BY <1>0, <2>1 DEF EntryType
  <2> QED BY <2>1, <2>2, OpenDrop
<1>3. ASSUME NEW k \in Keys, Looked(Now, Then, k) PROVE Promise!Next
  <2>1. mem'.initialized = TRUE /\ disk' = disk /\ mem'.entry = mem.entry
    BY <1>3 DEF Looked, Now, Then
  <2> QED BY <2>1, OpenDrop
<1>4. CASE disk' = disk /\ Alike(mem, mem')
  <2>1. mem'.initialized = TRUE /\ mem'.entry = mem.entry
    BY <1>4 DEF Alike
  <2> QED BY <1>4, <2>1, OpenDrop
<1> QED BY <1>1, <1>2, <1>3, <1>4

\* An edit is given up.
LEMMA GivenUpDrop ==
  ASSUME Types, Types', mem.initialized = TRUE, shown' = shown, NEW w \in Writers,
         writer[w].pc # "idle", writer[w].own = <<>>, FinishEdit(Aborted(w))
  PROVE  Promise!Next
<1> DEFINE k == writer[w].key
<1>0. k \in Keys /\ mem.entry \in [Keys -> EntryType]
  BY DEF Types, MemType
<1>1. PICK d \in DirType, m \in MemType :
        GivenUp(Now, [d |-> d, m |-> m], k) /\ Flushed([d |-> d, m |-> m], Then)
  BY AbortEffect
<1> HIDE DEF k
<1>2. /\ d.clean = disk.clean /\ m.initialized = TRUE
      /\ \/ m.entry = [mem.entry EXCEPT ![k].editor = Nobody]
         \/ m.entry = [mem.entry EXCEPT ![k] = NoEntry]
  BY <1>1 DEF GivenUp, Now
<1>3. disk'.clean = d.clean /\ mem'.entry = m.entry /\ mem'.initialized = m.initialized
  BY <1>1, FlushedKeeps
<1>4. \A x \in Keys : m.entry[x].readable = TRUE => mem.entry[x].readable = TRUE
  <2>1. CASE m.entry = [mem.entry EXCEPT ![k].editor = Nobody]
    BY <1>0, <2>1 DEF EntryType
  <2>2. CASE m.entry = [mem.entry EXCEPT ![k] = NoEntry]
    BY <1>0, <2>2 DEF NoEntry
  <2> QED BY <1>2, <2>1, <2>2
<1> QED BY <1>2, <1>3, <1>4, OpenDrop

\* A rebuild of the journal drops nothing, in an open cache and in one that is being opened.
LEMMA PromiseRebuild ==
  ASSUME Base, Base', Journaled, Journaled', Knows, NobodyStuck, Recalled, rebuildJournal
  PROVE  Promise!Next
<1>0. /\ Types /\ Types' /\ shown' = shown /\ app' = app /\ mem.initialized \in BOOLEAN
      /\ lock # <<>> /\ lock' = Tail(lock) /\ Head(lock) \in {"close", "temp", "backup", "swap", "drop"}
  BY DEF Base, Types, MemType, rebuildJournal, At, Free
<1>1. /\ Recalled' /\ mem'.initialized = mem.initialized /\ mem'.entry = mem.entry
      /\ disk'.clean = disk.clean
  BY RecalledRebuild
<1>2. CASE mem.initialized = TRUE
  BY <1>0, <1>1, <1>2, OpenDrop
<1>3. CASE mem.initialized = FALSE
  <2>1. PICK end \in {"done", "process"} : Rebuilding(lock, end)
    <3>1. Opening
      BY <1>3 DEF Base, Locked
    <3> QED BY <1>0, <3>1 DEF Opening
  <2>2. Rebuilding(lock', end)
    <3>1. Head(lock) # end
      BY <1>0
    <3> QED BY <1>0, <2>1, <3>1, RebuildingFacts
  <2>3. CASE end = "done"
    <3>1. NoFiles'
      BY <2>2, <2>3 DEF Journaled
    <3>2. \A k \in Keys : Readable'[k] = NoVersion
      BY <3>1 DEF Readable, NoFiles
    <3> QED BY <1>0, <3>2, DropStep
  <2>4. CASE end = "process"
    <3>1. Loaded /\ Loaded'
      BY <2>1, <2>2, <2>4 DEF Loaded
    <3>2. OnDisk'.app = app
      BY <1>0, <3>1 DEF Journaled
    <3> QED BY <1>0, <1>1, <1>3, <3>1, <3>2, LoadedDrop
  <2> QED BY <2>3, <2>4
<1> QED BY <1>0, <1>2, <1>3

-----------------------------------------------------------------------------
(* New versions. *)

\* No version comes into a file of k.
Fewer(k) ==
  /\ disk'.clean[k] \in {disk.clean[k], NoVersion}
  /\ TempFile(disk', k) \in {TempFile(disk, k), NoVersion}
  /\ disk'.dirty[k] = NoVersion \/ disk'.left[k] = NoVersion

\* A temporary file goes, or is left.
LEMMA FewerLeft ==
  ASSUME Fresh, NEW k \in Keys, LeftBy(disk, disk', k),
         disk'.dirty[k] \in {disk.dirty[k], NoVersion}, disk'.clean[k] \in {disk.clean[k], NoVersion},
         \A x \in Keys \ {k} : disk'.clean[x] = disk.clean[x] /\ disk'.dirty[x] = disk.dirty[x]
  PROVE  \A x \in Keys : Fewer(x)
<1>1. \A x \in Keys : disk.dirty[x] = NoVersion \/ disk.left[x] = NoVersion
  BY DEF Fresh
<1>2. \A x \in Keys \ {k} : Fewer(x)
  BY <1>1 DEF LeftBy, Fewer, TempFile
<1>3. Fewer(k)
  BY <1>1 DEF LeftBy, Fewer, TempFile
<1> QED BY <1>2, <1>3

LEMMA FewerSame ==
  ASSUME Fresh, disk'.clean = disk.clean, disk'.dirty = disk.dirty, SameLeft(disk, disk')
  PROVE  \A k \in Keys : Fewer(k)
BY DEF Fresh, Fewer, TempFile, SameLeft

LEMMA FewerEffects ==
  ASSUME Fresh, Types,
         \/ \E k \in Keys : Removed(Now, Then, k) \/ Detached(Now, Then, k) \/ Looked(Now, Then, k)
         \/ disk' = disk
  PROVE  \A k \in Keys : Fewer(k)
<1>0. disk.clean \in [Keys -> Versions \cup {NoVersion}] /\ disk.dirty \in [Keys -> Versions \cup {NoVersion}]
  BY DEF Types, DirType
<1>1. ASSUME NEW k \in Keys, Removed(Now, Then, k) \/ Detached(Now, Then, k) PROVE \A x \in Keys : Fewer(x)
  <2>1. /\ LeftBy(disk, disk', k)
        /\ disk'.clean \in {disk.clean, [disk.clean EXCEPT ![k] = NoVersion]}
        /\ disk'.dirty \in {disk.dirty, [disk.dirty EXCEPT ![k] = NoVersion]}
    BY <1>1 DEF Removed, Detached, Now, Then
  <2>2. /\ disk'.dirty[k] \in {disk.dirty[k], NoVersion} /\ disk'.clean[k] \in {disk.clean[k], NoVersion}
        /\ \A x \in Keys \ {k} : disk'.clean[x] = disk.clean[x] /\ disk'.dirty[x] = disk.dirty[x]
    BY <1>0, <2>1
  <2> QED BY <2>1, <2>2, FewerLeft
<1>2. CASE disk' = disk
  BY <1>2, FewerSame DEF SameLeft
<1>3. ASSUME NEW k \in Keys, Looked(Now, Then, k) PROVE disk' = disk
  BY <1>3 DEF Looked, Now, Then
<1> QED BY <1>1, <1>2, <1>3

LEMMA FewerGivenUp ==
  ASSUME Fresh, Types, NEW k \in Keys, NEW d \in DirType, NEW m \in MemType,
         GivenUp(Now, [d |-> d, m |-> m], k), Flushed([d |-> d, m |-> m], Then)
  PROVE  \A x \in Keys : Fewer(x)
<1>0. disk.dirty \in [Keys -> Versions \cup {NoVersion}]
  BY DEF Types, DirType
<1>1. d.clean = disk.clean /\ d.dirty = [disk.dirty EXCEPT ![k] = NoVersion] /\ LeftBy(disk, d, k)
  BY DEF GivenUp, Now
<1>2. disk'.clean = d.clean /\ disk'.dirty = d.dirty /\ SameLeft(d, disk')
  BY FlushedKeeps
<1>3. LeftBy(disk, disk', k)
  BY <1>1, <1>2 DEF LeftBy, SameLeft
<1>4. disk'.clean = disk.clean /\ disk'.dirty[k] = NoVersion /\ \A x \in Keys \ {k} : disk'.dirty[x] = disk.dirty[x]
  BY <1>0, <1>1, <1>2
<1> QED BY <1>3, <1>4, FewerLeft

LEMMA FewerOpening ==
  ASSUME Fresh, Types, initialize \/ readJournal \/ wipe \/ processJournal \/ openedEmpty
  PROVE  \A k \in Keys : Fewer(k)
<1>0. /\ disk \in DirType
      /\ disk.clean \in [Keys -> Versions \cup {NoVersion}] /\ disk.dirty \in [Keys -> Versions \cup {NoVersion}]
      /\ disk.left \in [Keys -> Versions \cup {NoVersion}]
      /\ \A k \in Keys : disk.dirty[k] = NoVersion \/ disk.left[k] = NoVersion
  BY DEF Types, DirType, Fresh
<1>1. ASSUME NEW k \in Keys,
             disk'.clean \in {disk.clean, [disk.clean EXCEPT ![k] = NoVersion]},
             disk'.dirty \in {disk.dirty, [disk.dirty EXCEPT ![k] = NoVersion]},
             disk'.left \in {disk.left, [disk.left EXCEPT ![k] = NoVersion]}
      PROVE  \A x \in Keys : Fewer(x)
  <2>1. \A x \in Keys \ {k} : disk'.clean[x] = disk.clean[x] /\ disk'.dirty[x] = disk.dirty[x]
                              /\ disk'.left[x] = disk.left[x]
    BY <1>0, <1>1
  <2>2. /\ disk'.clean[k] \in {disk.clean[k], NoVersion} /\ disk'.dirty[k] \in {disk.dirty[k], NoVersion}
        /\ disk'.left[k] \in {disk.left[k], NoVersion}
    BY <1>0, <1>1
  <2>3. Fewer(k)
    BY <1>0, <2>2 DEF Fewer, TempFile
  <2> QED BY <1>0, <2>1, <2>3 DEF Fewer, TempFile
<1>2. CASE disk'.clean = disk.clean /\ disk'.dirty = disk.dirty /\ disk'.left = disk.left
  BY <1>0, <1>2 DEF Fewer, TempFile
<1> HIDE DEF NoFile
<1>3. CASE initialize
  BY <1>0, <1>2, <1>3 DEF initialize, DirType
<1>4. CASE wipe
  <2>1. ASSUME NEW f \in {"journal", "backup", "temp"}, disk' = [disk EXCEPT ![f] = NoFile]
        PROVE  \A k \in Keys : Fewer(k)
    BY <1>0, <1>2, <2>1 DEF DirType
  <2>2. ASSUME NEW f \in {"clean", "dirty", "left"}, NEW k \in Keys, disk' = [disk EXCEPT ![f][k] = NoVersion]
        PROVE  \A x \in Keys : Fewer(x)
    <3>1. /\ disk'.clean \in {disk.clean, [disk.clean EXCEPT ![k] = NoVersion]}
          /\ disk'.dirty \in {disk.dirty, [disk.dirty EXCEPT ![k] = NoVersion]}
          /\ disk'.left \in {disk.left, [disk.left EXCEPT ![k] = NoVersion]}
      BY <1>0, <2>2 DEF DirType
    <3> QED BY <1>1, <3>1
  <2> QED BY <1>2, <1>4, <2>1, <2>2 DEF wipe
<1>5. CASE processJournal
  <2>1. CASE disk' = [disk EXCEPT !.temp = NoFile]
    BY <1>0, <1>2, <2>1 DEF DirType
  <2>2. ASSUME NEW k \in Keys,
               \/ disk' = [disk EXCEPT !.clean[k] = NoVersion]
               \/ disk' = [disk EXCEPT !.dirty[k] = NoVersion, !.left[k] = NoVersion]
        PROVE  \A x \in Keys : Fewer(x)
    <3>1. /\ disk'.clean \in {disk.clean, [disk.clean EXCEPT ![k] = NoVersion]}
          /\ disk'.dirty \in {disk.dirty, [disk.dirty EXCEPT ![k] = NoVersion]}
          /\ disk'.left \in {disk.left, [disk.left EXCEPT ![k] = NoVersion]}
      BY <1>0, <2>2 DEF DirType
    <3> QED BY <1>1, <3>1
  <2> QED BY <1>2, <1>5, <2>1, <2>2 DEF processJournal
<1>6. CASE readJournal \/ openedEmpty
  BY <1>2, <1>6 DEF readJournal, openedEmpty
<1> QED BY <1>3, <1>4, <1>5, <1>6

LEMMA FewerRebuild ==
  ASSUME Fresh, Types, rebuildJournal
  PROVE  \A k \in Keys : Fewer(k)
<1>0. disk \in DirType /\ mem \in MemType
  BY DEF Types
<1>1. ASSUME disk'.clean = disk.clean, disk'.dirty = disk.dirty, SameLeft(disk, disk')
      PROVE  \A k \in Keys : Fewer(k)
  BY <1>1, FewerSame
<1>2. ASSUME NEW bad \in BOOLEAN, NEW s \in Flush(Now, bad), Become(s) PROVE \A k \in Keys : Fewer(k)
  <2>1. Flushed(Now, s) /\ s = [d |-> s.d, m |-> s.m]
    BY <1>0, <1>2, FlushFacts DEF Now
  <2>2. disk' = s.d /\ mem' = s.m
    BY <1>2 DEF Become
  <2>3. Flushed([d |-> disk, m |-> mem], Then)
    BY <2>1, <2>2 DEF Now, Then
  <2> QED BY <1>1, <2>3, FlushedKeeps
<1> HIDE DEF NoFile
<1>3. CASE disk' = [disk EXCEPT !.temp = [app |-> app, lines |-> Compact(mem)]]
  <2> DEFINE f == [app |-> app, lines |-> Compact(mem)]
  <2>1. disk' = [disk EXCEPT !.temp = f]
    BY <1>3
  <2> HIDE DEF f
  <2>2. disk'.clean = disk.clean /\ disk'.dirty = disk.dirty /\ SameLeft(disk, disk')
    BY <1>0, <2>1 DEF DirType, SameLeft
  <2> QED BY <1>1, <2>2
<1>4. CASE disk' = IF disk.journal = NoFile THEN disk
                   ELSE [disk EXCEPT !.backup = disk.journal, !.journal = NoFile]
  <2>1. disk'.clean = disk.clean /\ disk'.dirty = disk.dirty /\ SameLeft(disk, disk')
    BY <1>0, <1>4, SwapFiles DEF SameLeft
  <2> QED BY <1>1, <2>1
<1>5. CASE disk' = [disk EXCEPT !.journal = disk.temp, !.temp = NoFile]
  <2>1. disk'.clean = disk.clean /\ disk'.dirty = disk.dirty /\ SameLeft(disk, disk')
    BY <1>0, <1>5, SwapFiles
  <2> QED BY <1>1, <2>1
<1>6. CASE disk' = [disk EXCEPT !.backup = NoFile]
  <2>1. disk'.clean = disk.clean /\ disk'.dirty = disk.dirty /\ SameLeft(disk, disk')
    BY <1>0, <1>6 DEF DirType, SameLeft
  <2> QED BY <1>1, <2>1
<1> QED BY <1>2, <1>3, <1>4, <1>5, <1>6 DEF rebuildJournal

\* No version appears or comes into a file, nobody publishes.
LEMMA FreshElse ==
  ASSUME Fresh, Types, Types', shown' = shown, count'.stores >= count.stores, \A k \in Keys : Fewer(k),
         \A w \in Writers : /\ writer'[w].pc # "publish"
                            /\ writer'[w].pc = "sink" => writer[w].pc = "sink" /\ writer'[w].ver = writer[w].ver
  PROVE  Fresh'
<1>1. count.stores \in Nat /\ count'.stores \in Nat /\ \A v \in shown : v \in Nat
  <2>1. count'.stores \in Nat
    BY Constants DEF Types, CountType
  <2>2. \A v \in shown : v \in Nat
    BY Constants DEF Types, Versions
  <2> QED BY Numbers, <2>1, <2>2
<1>2. \A v \in shown' : v <= count'.stores
  BY <1>1 DEF Fresh
<1>3. \A w \in Writers : writer[w].pc # "idle" => writer[w].ver # NoVersion
  BY Constants DEF Types, Versions, NoVersion
<1>4. \A w \in Writers : writer'[w].pc = "sink" =>
        /\ writer'[w].ver \notin shown'
        /\ \A k \in Keys : writer'[w].ver \notin {disk'.clean[k], TempFile(disk', k)}
  BY <1>3 DEF Fresh, Fewer
<1>5. \A k \in Keys : disk'.dirty[k] = NoVersion \/ disk'.left[k] = NoVersion
  BY DEF Fewer
<1>6. \A k \in Keys : TempFile(disk', k) # NoVersion =>
        /\ TempFile(disk', k) \notin shown'
        /\ \A x \in Keys : /\ TempFile(disk', k) # disk'.clean[x]
                           /\ TempFile(disk', x) = TempFile(disk', k) => x = k
  BY DEF Fresh, Fewer
<1>7. \A k \in Keys : ~Publishing(k)'
  BY DEF Publishing
<1> QED BY <1>2, <1>4, <1>5, <1>6, <1>7 DEF Fresh

LEMMA FreshStill ==
  ASSUME Fresh, Types, Types', Edits, lock # <<"publish">>, writer' = writer, shown' = shown,
         count'.stores >= count.stores, \A k \in Keys : Fewer(k)
  PROVE  Fresh'
BY NobodyPublishes, FreshElse

LEMMA FreshEdit ==
  ASSUME Fresh, Numbered, Types, Types', Edits, NEW w \in Writers, NEW k \in Keys, edit(w, k), Free,
         Started(Now, Then, k, w),
         writer' = [writer EXCEPT ![w] = [pc |-> "sink", key |-> k, ver |-> count.stores + 1,
                                          sink |-> FALSE, own |-> <<>>]]
  PROVE  Fresh'
<1>0. shown' = shown /\ count'.stores = count.stores + 1 /\ writer \in [Writers -> WriterType] /\ lock # <<"publish">>
  <2>1. count'.stores = count.stores + 1
    BY SpendStores DEF edit, Types
  <2>2. shown' = shown
    BY ONLY edit(w, k) DEF edit
  <2>3. writer \in [Writers -> WriterType]
    BY ONLY Types DEF Types
  <2>4. lock # <<"publish">>
    BY ONLY Free DEF Free
  <2> QED BY ONLY <2>1, <2>2, <2>3, <2>4
<1>1. count.stores \in Nat /\ \A v \in shown : v \in Nat
  <2>1. count \in CountType /\ shown \subseteq Versions
    BY ONLY Types DEF Types
  <2>2. count.stores \in 0 .. MaxStores
    BY ONLY <2>1 DEF CountType
  <2>3. \A v \in shown : v \in 1 .. MaxStores
    BY ONLY <2>1 DEF Versions
  <2>4. MaxStores \in Nat
    BY DiskAssumption
  <2> QED BY ONLY <2>2, <2>3, <2>4
<1>2. \A v \in shown' : v <= count'.stores
  BY <1>0, <1>1 DEF Fresh
<1>3. /\ writer'[w].pc = "sink" /\ writer'[w].ver = count.stores + 1
      /\ \A x \in Writers \ {w} : writer'[x] = writer[x]
  BY <1>0
<1>files. \A x \in Keys : /\ disk'.clean[x] = disk.clean[x] /\ disk'.dirty[x] = disk.dirty[x]
                          /\ disk'.left[x] = disk.left[x] /\ TempFile(disk', x) = TempFile(disk, x)
  BY DEF Started, Now, Then, SameLeft, TempFile
<1>4. /\ count.stores + 1 \notin shown
      /\ \A x \in Keys : count.stores + 1 \notin {disk.clean[x], TempFile(disk, x)}
  <2>1. count.stores + 1 \notin shown
    BY <1>1 DEF Fresh
  <2>2. \A x \in Keys : count.stores + 1 \notin {disk.clean[x], disk.dirty[x], disk.left[x]}
    BY Numbers DEF Numbered
  <2> QED BY <2>1, <2>2 DEF TempFile
<1>5. ASSUME NEW x \in Writers, writer'[x].pc = "sink"
      PROVE  /\ writer'[x].ver \notin shown'
             /\ \A y \in Keys : writer'[x].ver \notin {disk'.clean[y], TempFile(disk', y)}
  <2>1. CASE x = w
    BY <1>0, <1>3, <1>4, <1>files, <2>1
  <2>2. CASE x # w
    BY <1>0, <1>3, <1>5, <1>files, <2>2 DEF Fresh
  <2> QED BY <2>1, <2>2
<1>6. \A x \in Writers : writer'[x].pc # "publish"
  BY <1>0, <1>3, NobodyPublishes
<1>7. \A x \in Keys : ~Publishing(x)'
  BY <1>6 DEF Publishing
<1>8. \A x \in Keys : disk'.dirty[x] = NoVersion \/ disk'.left[x] = NoVersion
  BY <1>files DEF Fresh
<1>9. \A x \in Keys : TempFile(disk', x) # NoVersion =>
        /\ TempFile(disk', x) \notin shown'
        /\ \A y \in Keys : /\ TempFile(disk', x) # disk'.clean[y]
                           /\ TempFile(disk', y) = TempFile(disk', x) => y = x
  BY <1>0, <1>files DEF Fresh
<1> QED BY <1>2, <1>5, <1>7, <1>8, <1>9 DEF Fresh

\* newSink(): a version that was in no file comes into a temporary file.
LEMMA FreshSink ==
  ASSUME Fresh, Numbered, Types, Types', Edits, NEW w \in Writers, newSink(w), lock # <<"publish">>
  PROVE  Fresh'
<1> DEFINE k == writer[w].key
           v == writer[w].ver
<1>0. /\ disk.clean \in [Keys -> Versions \cup {NoVersion}] /\ disk.dirty \in [Keys -> Versions \cup {NoVersion}]
      /\ disk.left \in [Keys -> Versions \cup {NoVersion}]
  BY DEF Types, DirType
<1>1. /\ disk'.clean = disk.clean /\ count'.stores = count.stores /\ k \in Keys /\ v \in Versions
      /\ writer[w].pc = "sink" /\ Moved(w, "data")
      /\ \/ /\ disk'.dirty = [disk.dirty EXCEPT ![k] = v]
            /\ disk'.left = [disk.left EXCEPT ![k] = NoVersion]
         \/ disk' = disk
  BY SinkEffect
<1>2. shown' = shown /\ count.stores \in Nat
  BY Numbers DEF newSink
<1> HIDE DEF k, v
<1>3. \A x \in Writers : /\ writer'[x].pc # "publish"
                         /\ writer'[x].pc = "sink" => x # w /\ writer[x].pc = "sink" /\ writer'[x].ver = writer[x].ver
  BY <1>1, NobodyPublishes DEF Moved
<1>4. CASE disk' = disk
  <2>1. \A x \in Keys : Fewer(x)
    BY <1>4, FewerSame DEF SameLeft
  <2>2. count'.stores >= count.stores
    BY <1>1, <1>2
  <2> QED BY <1>2, <1>3, <2>1, <2>2, FreshElse
<1>5. CASE /\ disk'.dirty = [disk.dirty EXCEPT ![k] = v]
           /\ disk'.left = [disk.left EXCEPT ![k] = NoVersion]
  <2>1. /\ disk'.dirty[k] = v /\ disk'.left[k] = NoVersion /\ v # NoVersion
        /\ \A x \in Keys \ {k} : disk'.dirty[x] = disk.dirty[x] /\ disk'.left[x] = disk.left[x]
    BY <1>0, <1>1, <1>5, Constants DEF Versions, NoVersion
  <2>2. TempFile(disk', k) = v /\ \A x \in Keys \ {k} : TempFile(disk', x) = TempFile(disk, x)
    BY <2>1 DEF TempFile
  <2>3. v \notin shown /\ \A x \in Keys : v # disk.clean[x] /\ v # TempFile(disk, x)
    BY <1>1 DEF Fresh, v
  <2>4. \A x \in shown' : x <= count'.stores
    BY <1>1, <1>2 DEF Fresh
  <2>5. ASSUME NEW x \in Writers, writer'[x].pc = "sink"
        PROVE  /\ writer'[x].ver \notin shown'
               /\ \A y \in Keys : writer'[x].ver \notin {disk'.clean[y], TempFile(disk', y)}
    <3>1. x # w /\ writer[x].pc = "sink" /\ writer'[x].ver = writer[x].ver
      BY <1>3, <2>5
    <3>2. writer[x].ver # v
      BY <1>1, <3>1 DEF Numbered, v
    <3>3. writer[x].ver \notin shown /\ \A y \in Keys : writer[x].ver \notin {disk.clean[y], TempFile(disk, y)}
      BY <3>1 DEF Fresh
    <3> QED BY <1>1, <1>2, <2>2, <3>1, <3>2, <3>3
  <2>6. \A x \in Keys : disk'.dirty[x] = NoVersion \/ disk'.left[x] = NoVersion
    BY <2>1 DEF Fresh
  <2>7. ASSUME NEW x \in Keys, TempFile(disk', x) # NoVersion
        PROVE  /\ TempFile(disk', x) \notin shown'
               /\ \A y \in Keys : /\ TempFile(disk', x) # disk'.clean[y]
                                  /\ TempFile(disk', y) = TempFile(disk', x) => y = x
    <3>1. CASE x = k
      BY <1>1, <1>2, <2>2, <2>3, <3>1
    <3>2. CASE x # k
      BY <1>1, <1>2, <2>2, <2>3, <2>7, <3>2 DEF Fresh
    <3> QED BY <3>1, <3>2
  <2>8. \A x \in Keys : ~Publishing(x)'
    BY <1>3 DEF Publishing
  <2> QED BY <2>4, <2>5, <2>6, <2>7, <2>8 DEF Fresh
<1> QED BY <1>1, <1>4, <1>5

\* commit(): the rename makes the new version readable if the entry was readable before.
LEMMA PromiseCommit ==
  ASSUME Base, Base', Journaled, Knows, Stored, Fresh, NEW w \in Writers, commit(w)
  PROVE  Fresh' /\ Recalled' /\ Promise!Next
<1> DEFINE k == writer[w].key
<1>0. /\ Types /\ Types' /\ Edits /\ writer[w].own = <<>> /\ writer[w].pc = "commit" /\ k \in Keys /\ Free
      /\ writer \in [Writers -> WriterType] /\ mem.entry \in [Keys -> EntryType]
      /\ disk.clean \in [Keys -> Versions \cup {NoVersion}] /\ disk.dirty \in [Keys -> Versions \cup {NoVersion}]
  BY DEF Base, Types, DirType, MemType, Edits, commit
<1>1. mem.initialized = TRUE /\ lock # <<"publish">> /\ ~Rebuilding(<<"publish">>, "process")
      /\ ~Rebuilding(<<>>, "process")
  BY <1>0 DEF Base, Locked, Resting, Types, MemType, Free, Rebuilding
<1>2. shown' = IF mem.entry[k].editor = w /\ TempFile(disk, k) # NoVersion /\ mem.entry[k].readable = TRUE
               THEN shown \cup {TempFile(disk, k)} ELSE shown
  <2>1. mem.entry[k].readable \in BOOLEAN
    BY <1>0 DEF EntryType
  <2>2. EntryOf(w) = mem.entry[k] /\ (Current(w) <=> mem.entry[k].editor = w)
    BY <1>0 DEF EntryOf, Current
  <2> HIDE DEF k
  <2> QED BY <1>0, <2>1, <2>2 DEF commit, k
<1>3. count.stores \in Nat /\ count'.stores \in Nat /\ \A v \in shown : v \in Nat
  BY <1>0, Constants DEF Types, CountType, Versions
<1>4. count'.stores = count.stores
  BY <1>0, CommitEffect
<1> HIDE DEF k
<1>5. CASE /\ mem.entry[k].editor # w /\ disk' = disk /\ mem' = mem /\ lock' = lock /\ Moved(w, "close")
  <2>1. shown' = shown
    BY <1>2, <1>5
  <2>2. \A x \in Writers : /\ writer'[x].pc # "publish"
                           /\ writer'[x].pc = "sink" => writer[x].pc = "sink" /\ writer'[x].ver = writer[x].ver
    BY <1>0, <1>1, <1>5, NobodyPublishes DEF Moved
  <2>6. \A x \in Keys : Fewer(x)
    BY <1>0, <1>5, FewerEffects
  <2>3. Fresh'
    BY <1>0, <1>3, <1>4, <2>1, <2>2, <2>6, FreshElse
  <2>4. Recalled'
    BY <1>1, <1>5, RecalledElse
  <2>5. Promise!Next
    BY <1>0, <1>1, <1>5, <2>1, OpenDrop
  <2> QED BY <2>3, <2>4, <2>5
<1>6. CASE /\ mem.entry[k].editor = w /\ TempFile(disk, k) = NoVersion /\ FinishEdit(Aborted(w)) /\ lock' = lock
           /\ Moved(w, "close")
  <2>1. shown' = shown
    BY <1>2, <1>6
  <2>2. \A x \in Writers : /\ writer'[x].pc # "publish"
                           /\ writer'[x].pc = "sink" => writer[x].pc = "sink" /\ writer'[x].ver = writer[x].ver
    BY <1>0, <1>1, <1>6, NobodyPublishes DEF Moved
  <2>6. \A x \in Keys : Fewer(x)
    <3>1. PICK d \in DirType, m \in MemType :
            GivenUp(Now, [d |-> d, m |-> m], k) /\ Flushed([d |-> d, m |-> m], Then)
      BY <1>0, <1>6, AbortEffect DEF k
    <3> QED BY <1>0, <3>1, FewerGivenUp
  <2>3. Fresh'
    BY <1>0, <1>3, <1>4, <2>1, <2>2, <2>6, FreshElse
  <2>4. Recalled'
    BY <1>0, <1>1, <1>6, RecalledElse DEF Free
  <2>5. Promise!Next
    BY <1>0, <1>1, <1>6, <2>1, GivenUpDrop
  <2> QED BY <2>3, <2>4, <2>5
<1>7. CASE /\ mem.entry[k].editor = w /\ TempFile(disk, k) # NoVersion /\ lock' = <<"publish">>
           /\ Renamed(Now, Then, k) /\ Moved(w, "publish")
  <2> DEFINE v == TempFile(disk, k)
  <2>1. /\ v \in Versions /\ v # NoVersion /\ v <= count.stores /\ v \notin shown
        /\ \A x \in Writers : writer[x].pc = "sink" => writer[x].ver # v
        /\ \A x \in Keys \ {k} : v # disk.clean[x] /\ v # TempFile(disk, x)
    <3>1. v \in Versions /\ v # NoVersion
      BY <1>0, <1>7 DEF TempFile, Types, DirType
    <3>2. v <= count.stores
      BY <1>0 DEF Stored, Numbered, TempFile
    <3>3. v \notin shown /\ \A x \in Keys \ {k} : v # disk.clean[x] /\ v # TempFile(disk, x)
      BY <1>0, <1>7 DEF Fresh
    <3>4. \A x \in Writers : writer[x].pc = "sink" => writer[x].ver # v
      BY <1>0 DEF Fresh
    <3> QED BY <3>1, <3>2, <3>3, <3>4
  <2>2. /\ disk'.clean = [disk.clean EXCEPT ![k] = v] /\ mem'.initialized = TRUE
        /\ mem'.entry = [mem.entry EXCEPT ![k].len = 1]
        /\ disk'.dirty = [disk.dirty EXCEPT ![k] = NoVersion] /\ disk'.left = [disk.left EXCEPT ![k] = NoVersion]
    BY <1>1, <1>7 DEF Renamed, Now, Then
  <2>4. shown' = IF mem.entry[k].readable = TRUE THEN shown \cup {v} ELSE shown
    BY <1>2, <1>7
  <2> HIDE DEF v
  <2>3. /\ disk'.clean[k] = v /\ \A x \in Keys \ {k} : disk'.clean[x] = disk.clean[x]
        /\ \A x \in Keys : mem'.entry[x].readable = mem.entry[x].readable /\ mem'.entry[x].editor = mem.entry[x].editor
    BY <1>0, <2>2 DEF EntryType
  <2>files. /\ disk'.dirty[k] = NoVersion /\ disk'.left[k] = NoVersion /\ TempFile(disk', k) = NoVersion
            /\ \A x \in Keys \ {k} : /\ disk'.dirty[x] = disk.dirty[x] /\ disk'.left[x] = disk.left[x]
                                     /\ TempFile(disk', x) = TempFile(disk, x)
    <3>1. disk.left \in [Keys -> Versions \cup {NoVersion}]
      BY <1>0 DEF Types, DirType
    <3>2. disk'.dirty[k] = NoVersion /\ disk'.left[k] = NoVersion
      BY <1>0, <2>2, <3>1
    <3>3. \A x \in Keys \ {k} : disk'.dirty[x] = disk.dirty[x] /\ disk'.left[x] = disk.left[x]
      BY <1>0, <2>2, <3>1
    <3> QED BY <3>2, <3>3 DEF TempFile
  <2>5. \A x \in shown' : x <= count'.stores
    BY <1>3, <1>4, <2>1, <2>4 DEF Fresh
  <2>6. ASSUME NEW x \in Writers, writer'[x].pc = "sink"
        PROVE  /\ writer'[x].ver \notin shown'
               /\ \A y \in Keys : writer'[x].ver \notin {disk'.clean[y], TempFile(disk', y)}
    <3>1. x # w /\ writer'[x] = writer[x] /\ writer[x].pc = "sink"
      BY <1>7, <2>6 DEF Moved
    <3>2. writer[x].ver # v /\ writer[x].ver # NoVersion
      BY <1>0, <2>1, <3>1, Constants DEF Types, Versions, NoVersion
    <3>3. writer[x].ver \notin shown /\ \A y \in Keys : writer[x].ver \notin {disk.clean[y], TempFile(disk, y)}
      BY <3>1 DEF Fresh
    <3>4. writer'[x].ver \notin shown'
      BY <2>4, <3>1, <3>2, <3>3
    <3>5. writer'[x].ver \notin {disk'.clean[k], TempFile(disk', k)}
      BY <2>3, <2>files, <3>1, <3>2
    <3>6. \A y \in Keys \ {k} : writer'[x].ver \notin {disk'.clean[y], TempFile(disk', y)}
      BY <2>3, <2>files, <3>1, <3>3
    <3> QED BY <3>4, <3>5, <3>6
  <2>12. \A x \in Keys : disk'.dirty[x] = NoVersion \/ disk'.left[x] = NoVersion
    BY <2>files DEF Fresh
  <2>13. ASSUME NEW x \in Keys, TempFile(disk', x) # NoVersion
         PROVE  /\ TempFile(disk', x) \notin shown'
                /\ \A y \in Keys : /\ TempFile(disk', x) # disk'.clean[y]
                                   /\ TempFile(disk', y) = TempFile(disk', x) => y = x
    <3>1. x # k /\ TempFile(disk', x) = TempFile(disk, x) /\ TempFile(disk, x) # NoVersion
      BY <2>files, <2>13
    <3>2. /\ TempFile(disk, x) \notin shown
          /\ \A y \in Keys : /\ TempFile(disk, x) # disk.clean[y]
                             /\ TempFile(disk, y) = TempFile(disk, x) => y = x
      BY <3>1 DEF Fresh
    <3>3. TempFile(disk, x) # v
      BY <2>1, <3>1
    <3>4. TempFile(disk', x) \notin shown'
      BY <2>4, <3>1, <3>2, <3>3
    <3>5. /\ TempFile(disk', x) # disk'.clean[k]
          /\ TempFile(disk', k) # TempFile(disk', x)
      BY <2>3, <2>13, <2>files, <3>1, <3>3
    <3>6. \A y \in Keys \ {k} : /\ TempFile(disk', x) # disk'.clean[y]
                                /\ TempFile(disk', y) = TempFile(disk', x) => y = x
      BY <2>3, <2>files, <3>1, <3>2
    <3> QED BY <3>4, <3>5, <3>6
  <2>7. ASSUME NEW x \in Keys, Publishing(x)', mem'.entry[x].readable = FALSE PROVE disk'.clean[x] \notin shown'
    <3>1. mem.entry[x].editor \in Writers /\ writer'[mem.entry[x].editor].pc = "publish"
      BY <2>3, <2>7 DEF Publishing
    <3>2. mem.entry[x].editor = w
      BY <1>0, <1>1, <1>7, <3>1, NobodyPublishes DEF Moved
    <3>3. x = k
      BY <1>0, <3>2 DEF Edits, k
    <3>4. mem.entry[k].readable # TRUE
      BY <2>3, <2>7, <3>3
    <3> QED BY <2>1, <2>3, <2>4, <3>3, <3>4
  <2>8. Fresh'
    BY <2>5, <2>6, <2>7, <2>12, <2>13 DEF Fresh
  <2>9. Recalled'
    BY <2>2, RecalledElse
  <2>10. CASE mem.entry[k].readable = TRUE
    <3>1. \A x \in Keys : Readable'[x] = IF mem'.entry[x].readable = TRUE THEN disk'.clean[x] ELSE NoVersion
      BY <1>0, <2>2, Readables
    <3>2. \A x \in Keys : Readable[x] = IF mem.entry[x].readable = TRUE THEN disk.clean[x] ELSE NoVersion
      BY <1>0, <1>1, Readables
    <3>3. Readable'[k] = v /\ \A x \in Keys \ {k} : Readable'[x] = Readable[x]
      BY <1>0, <2>3, <2>10, <3>1, <3>2
    <3>4. k \in Keys /\ v \in Versions \ shown /\ shown' = shown \cup {v}
      BY <1>0, <2>1, <2>4, <2>10
    <3> QED BY <2>8, <2>9, <3>3, <3>4, CommitStep
  <2>11. CASE mem.entry[k].readable # TRUE
    <3>1. shown' = shown
      BY <2>4, <2>11
    <3>2. \A x \in Keys : mem'.entry[x].readable = TRUE => mem.entry[x].readable = TRUE /\ disk'.clean[x] = disk.clean[x]
      BY <2>3, <2>11
    <3> QED BY <1>0, <1>1, <2>2, <2>8, <2>9, <3>1, <3>2, OpenDrop
  <2> QED BY <2>10, <2>11
<1>8. CASE /\ mem.entry[k].editor = w /\ TempFile(disk, k) = NoVersion /\ mem.entry[k].readable = TRUE
           /\ lock' = <<"publish">> /\ disk' = disk /\ mem' = mem /\ Moved(w, "publish")
  <2>1. shown' = shown
    BY <1>2, <1>8
  <2>2. \A x \in shown' : x <= count'.stores
    BY <1>3, <1>4, <2>1 DEF Fresh
  <2>3. \A x \in Writers : writer'[x].pc = "sink" =>
          /\ writer'[x].ver \notin shown'
          /\ \A y \in Keys : writer'[x].ver \notin {disk'.clean[y], TempFile(disk', y)}
    BY <1>8, <2>1 DEF Fresh, Moved
  <2>8. /\ \A x \in Keys : disk'.dirty[x] = NoVersion \/ disk'.left[x] = NoVersion
        /\ \A x \in Keys : TempFile(disk', x) # NoVersion =>
             /\ TempFile(disk', x) \notin shown'
             /\ \A y \in Keys : /\ TempFile(disk', x) # disk'.clean[y]
                                /\ TempFile(disk', y) = TempFile(disk', x) => y = x
    BY <1>8, <2>1 DEF Fresh
  <2>4. ASSUME NEW x \in Keys, Publishing(x)' PROVE mem'.entry[x].readable = TRUE
    <3>1. mem.entry[x].editor \in Writers /\ writer'[mem.entry[x].editor].pc = "publish"
      BY <1>8, <2>4 DEF Publishing
    <3>2. mem.entry[x].editor = w
      BY <1>0, <1>1, <1>8, <3>1, NobodyPublishes DEF Moved
    <3>3. x = k
      BY <1>0, <3>2 DEF Edits, k
    <3> QED BY <1>8, <3>3
  <2>5. Fresh'
    BY <2>2, <2>3, <2>4, <2>8 DEF Fresh
  <2>6. Recalled'
    BY <1>1, <1>8, RecalledElse
  <2>7. Promise!Next
    BY <1>0, <1>1, <1>8, <2>1, OpenDrop
  <2> QED BY <2>5, <2>6, <2>7
<1> QED BY <1>0, <1>5, <1>6, <1>7, <1>8, CommitEffect DEF k

\* The end of completeEdit(): the version of a new entry becomes readable.
LEMMA PromisePublish ==
  ASSUME Base, Base', Stored, Fresh, NEW w \in Writers, publish(w)
  PROVE  Fresh' /\ Recalled' /\ Promise!Next
<1> DEFINE k == writer[w].key
           v == disk.clean[k]
<1>0. /\ Types /\ Types' /\ Edits /\ writer[w].own = <<>> /\ writer[w].pc = "publish" /\ k \in Keys
      /\ writer \in [Writers -> WriterType] /\ mem.entry \in [Keys -> EntryType]
      /\ disk.clean \in [Keys -> Versions \cup {NoVersion}]
  BY DEF Base, Types, DirType, MemType, Edits, publish
<1>1. mem.initialized = TRUE /\ mem.entry[k].editor = w
  BY <1>0 DEF Base, Locked, Resting, Types, MemType, Edits
<1>2. count.stores \in Nat /\ count'.stores \in Nat /\ \A x \in shown : x \in Nat
  BY <1>0, Constants DEF Types, CountType, Versions
<1>3. PICK m \in MemType :
        /\ Opened(Now, [d |-> disk, m |-> m], k) /\ Flushed([d |-> disk, m |-> m], Then)
        /\ count'.stores = count.stores
  BY <1>0, PublishEffect
<1>4. shown' = shown \cup ({v} \ {NoVersion})
  BY <1>0 DEF publish
<1>5. Moved(w, "close")
  <2>1. writer' = [writer EXCEPT ![w] = [writer[w] EXCEPT !.pc = "close", !.own = <<>>]]
    BY <1>0 DEF publish
  <2> QED BY <1>0, <2>1 DEF Moved, WriterType
<1> HIDE DEF k
<1>6. /\ disk'.clean = disk.clean /\ mem'.initialized = TRUE
      /\ mem'.entry = [mem.entry EXCEPT ![k].editor = Nobody, ![k].readable = TRUE]
  <2>1. disk'.clean = disk.clean /\ mem'.entry = m.entry /\ mem'.initialized = m.initialized
    BY <1>3, FlushedKeeps
  <2> QED BY <1>1, <1>3, <2>1 DEF Opened, Now
<1>7. mem'.entry[k].readable = TRUE /\ \A x \in Keys \ {k} : mem'.entry[x] = mem.entry[x]
  BY <1>0, <1>6 DEF EntryType
<1>8. v \in Versions \cup {NoVersion} /\ v \in Nat /\ v <= count.stores
  BY <1>0, Numbers DEF Stored, Numbered
<1>9. Publishing(k)
  BY <1>0, <1>1 DEF Publishing
<1>10. mem.entry[k].readable = FALSE /\ v # NoVersion => v \notin shown
  BY <1>0, <1>9 DEF Fresh
<1>11. \A x \in shown' : x <= count'.stores
  BY <1>2, <1>3, <1>4, <1>8 DEF Fresh
<1>12. \A x \in Writers \ {w} : writer[x].pc # "publish"
  BY <1>0 DEF Edits
<1>files. \A x \in Keys : /\ disk'.clean[x] = disk.clean[x] /\ disk'.dirty[x] = disk.dirty[x]
                          /\ disk'.left[x] = disk.left[x] /\ TempFile(disk', x) = TempFile(disk, x)
  <2>1. disk'.clean = disk.clean /\ disk'.dirty = disk.dirty /\ SameLeft(disk, disk')
    BY <1>3, FlushedKeeps
  <2> QED BY <2>1 DEF SameLeft, TempFile
<1>13. ASSUME NEW x \in Writers, writer'[x].pc = "sink"
       PROVE  /\ writer'[x].ver \notin shown'
              /\ \A y \in Keys : writer'[x].ver \notin {disk'.clean[y], TempFile(disk', y)}
  <2>1. x # w /\ writer'[x] = writer[x] /\ writer[x].pc = "sink"
    BY <1>5, <1>13 DEF Moved
  <2>2. writer[x].ver \notin shown /\ \A y \in Keys : writer[x].ver \notin {disk.clean[y], TempFile(disk, y)}
    BY <2>1 DEF Fresh
  <2>3. writer[x].ver # v
    BY <1>0, <2>2
  <2> QED BY <1>4, <1>files, <2>1, <2>2, <2>3
<1>20. \A x \in Keys : disk'.dirty[x] = NoVersion \/ disk'.left[x] = NoVersion
  BY <1>files DEF Fresh
<1>21. ASSUME NEW x \in Keys, TempFile(disk', x) # NoVersion
       PROVE  /\ TempFile(disk', x) \notin shown'
              /\ \A y \in Keys : /\ TempFile(disk', x) # disk'.clean[y]
                                 /\ TempFile(disk', y) = TempFile(disk', x) => y = x
  <2>1. /\ TempFile(disk, x) \notin shown
        /\ \A y \in Keys : /\ TempFile(disk, x) # disk.clean[y]
                           /\ TempFile(disk, y) = TempFile(disk, x) => y = x
    BY <1>21, <1>files DEF Fresh
  <2>2. TempFile(disk, x) # v
    BY <1>0, <2>1
  <2> QED BY <1>4, <1>files, <2>1, <2>2
<1>14. \A x \in Keys : ~Publishing(x)'
  BY <1>5, <1>12 DEF Moved, Publishing
<1>15. Fresh'
  BY <1>11, <1>13, <1>14, <1>20, <1>21 DEF Fresh
<1>16. Recalled'
  BY <1>6, RecalledElse
<1> HIDE DEF v
<1>17. CASE v = NoVersion \/ (mem.entry[k].readable = TRUE /\ v \in shown)
  <2>1. shown' = shown
    BY <1>4, <1>17
  <2>2. \A x \in Keys : mem'.entry[x].readable = TRUE =>
          disk'.clean[x] = NoVersion \/ (mem.entry[x].readable = TRUE /\ disk'.clean[x] = disk.clean[x])
    BY <1>6, <1>7, <1>17 DEF v
  <2> QED BY <1>0, <1>1, <1>6, <1>15, <1>16, <2>1, <2>2, OpenDrop
<1>18. CASE v # NoVersion /\ v \notin shown
  <2>1. v \in Versions \ shown /\ shown' = shown \cup {v}
    BY <1>4, <1>8, <1>18
  <2>2. \A x \in Keys : Readable'[x] = IF mem'.entry[x].readable = TRUE THEN disk'.clean[x] ELSE NoVersion
    BY <1>0, <1>6, Readables
  <2>3. \A x \in Keys : Readable[x] = IF mem.entry[x].readable = TRUE THEN disk.clean[x] ELSE NoVersion
    BY <1>0, <1>1, Readables
  <2>4. Readable'[k] = v /\ \A x \in Keys \ {k} : Readable'[x] = Readable[x]
    BY <1>0, <1>6, <1>7, <2>2, <2>3 DEF v
  <2> QED BY <1>0, <1>15, <1>16, <2>1, <2>4, CommitStep
<1>19. mem.entry[k].readable \in BOOLEAN
  BY <1>0 DEF EntryType
<1> QED BY <1>10, <1>17, <1>18, <1>19

\* The process dies: what can be read after opening the cache again could be read before.
LEMMA PromiseRestart ==
  ASSUME Base, Base', Journaled, Knows, Fresh, Recalled, restart
  PROVE  Fresh' /\ Recalled' /\ Promise!Next
<1>0. /\ Types /\ Types' /\ Edits /\ shown' = shown /\ mem.initialized \in BOOLEAN /\ mem.buffer \in Seq(LineType)
      /\ app \in Nat /\ app' \in {app, app + 1} /\ OnDisk.lines \in Seq(LineType) /\ lock' = <<>>
      /\ mem'.initialized = FALSE /\ count \in CountType
  <2>1. mem' = Closed /\ lock' = <<>> /\ shown' = shown /\ app' \in {app, app + 1}
    BY DEF restart
  <2>2. mem'.initialized = FALSE
    BY <2>1 DEF Closed
  <2> QED BY <2>1, <2>2 DEF Base, Types, DirType, FileType, MemType, OnDisk
<1>1. Fresh'
  <2>1. \A w \in Writers : writer'[w].pc = "idle"
    BY DEF restart, Resting
  <2>3. \A k \in Keys : Fewer(k)
    BY <1>0, AfterDeath, FewerSame
  <2>2. count'.stores = count.stores /\ count.stores \in Nat
    BY <1>0, SpendEvents, Constants DEF restart, CountType
  <2> QED BY <1>0, <2>1, <2>2, <2>3, FreshElse
<1>2. Recalled'
  <2>1. ~Rebuilding(lock', "process")
    BY <1>0 DEF Rebuilding
  <2> QED BY <2>1, RecalledElse
<1>3. /\ disk'.clean = disk.clean /\ OnDisk'.app = OnDisk.app
      /\ \/ OnDisk' = OnDisk
         \/ \E p \in Torn(mem.buffer) : OnDisk'.lines = OnDisk.lines \o p
  BY <1>0, AfterDeath
<1>4. Recovered' = IF OnDisk.app = app' THEN Replay(OnDisk'.lines) ELSE [k \in Keys |-> NoEntry]
  <2>1. Recovered' = IF OnDisk'.app = app' THEN Replay(OnDisk'.lines) ELSE [k \in Keys |-> NoEntry]
    BY DEF Recovered, Replay, NoEntry
  <2> QED BY <1>3, <2>1
<1>5. ASSUME NEW k \in Keys, Recovered'[k].readable PROVE app' = app /\ OnDisk.app = app
  <2>1. OnDisk.app = app'
    BY <1>4, <1>5 DEF NoEntry
  <2>2. OnDisk.app <= app /\ OnDisk.app \in Nat
    BY <1>0 DEF Types, OnDisk, DirType, FileType
  <2> QED BY <1>0, <2>1, <2>2
<1>6. CASE mem.initialized = FALSE
  <2>1. mem.buffer = <<>>
    BY <1>6 DEF Recalled
  <2>2. ASSUME NEW k \in Keys, Recovered'[k].readable, Recovered'[k].editor = Nobody
        PROVE  Recovered[k].readable /\ Recovered[k].editor = Nobody
    <3>1. Recovered' = Replay(OnDisk'.lines) /\ Recovered = Replay(OnDisk.lines)
      BY <1>4, <1>5, <2>2 DEF Recovered
    <3>2. CASE OnDisk' = OnDisk
      BY <2>2, <3>1, <3>2
    <3>3. ASSUME NEW p \in Torn(<<>>), OnDisk'.lines = OnDisk.lines \o p
          PROVE  Recovered[k].readable /\ Recovered[k].editor = Nobody
      <4> DEFINE q == OnDisk.lines \o p
      <4>1. Replay(q)[k].editor = Replay(OnDisk.lines)[k].editor /\ Replay(q)[k].readable = Replay(OnDisk.lines)[k].readable
        BY <1>0, ReplayTorn
      <4>2. OnDisk'.lines = q
        BY <3>3
      <4> HIDE DEF q
      <4> QED BY <2>2, <3>1, <4>1, <4>2
    <3> QED BY <1>3, <2>1, <3>2, <3>3
  <2>3. Promise!Next
    BY <1>0, <1>3, <1>6, <2>2, ClosedDrop
  <2> QED BY <1>1, <1>2, <2>3
<1>7. CASE mem.initialized = TRUE
  <2>1. Loaded
    BY <1>7 DEF Loaded
  <2>2. OnDisk.app = app
    BY <2>1 DEF Journaled
  <2>3. Covers(disk, mem.entry, OnDisk.lines, mem.buffer)
    BY <2>2 DEF Journaled
  <2>4. ASSUME NEW k \in Keys, disk.clean[k] # NoVersion, Recovered'[k].readable, Recovered'[k].editor = Nobody
        PROVE  mem.entry[k].readable = TRUE
    <3> SUFFICES ASSUME mem.entry[k].readable # TRUE PROVE FALSE
      OBVIOUS
    <3>1. mem.entry[k].editor \in Writers
      BY <1>0, <1>7, <2>1, <2>4 DEF Knows, Edits, Publishing
    <3>2. TellsDirty(OnDisk.lines, mem.buffer, k)
      BY <2>3, <3>1 DEF Covers
    <3>3. Recovered' = Replay(OnDisk'.lines)
      BY <1>4, <1>5, <2>4
    <3> DEFINE q == OnDisk'.lines
    <3>4. TellsDirty(q, <<>>, k) /\ q \in Seq(LineType)
      <4>1. CASE OnDisk' = OnDisk
        BY <1>0, <3>2, <4>1, LostBuffer
      <4>2. ASSUME NEW p \in Torn(mem.buffer), q = OnDisk.lines \o p
            PROVE  TellsDirty(q, <<>>, k) /\ q \in Seq(LineType)
        <5>1. p \in Seq(LineType)
          BY <1>0, TornFacts
        <5>2. OnDisk.lines \o p \in Seq(LineType)
          BY <1>0, <5>1
        <5>3. TellsDirty(OnDisk.lines \o p, <<>>, k)
          BY <1>0, <3>2, WrittenBuffer
        <5> HIDE DEF q
        <5> QED BY <4>2, <5>2, <5>3
      <4> QED BY <1>3, <4>1, <4>2
    <3>5. Recovered' = Replay(q)
      BY <3>3
    <3> HIDE DEF q
    <3>6. Replay(q)[k].editor = Replayed
      BY <3>4, ReplayKnows
    <3> QED BY <2>4, <3>5, <3>6, Constants
  <2>5. ASSUME NEW k \in Keys PROVE Readable'[k] \in {Readable[k], NoVersion}
    <3>1. Readable'[k] = IF Recovered'[k].readable /\ Recovered'[k].editor = Nobody THEN disk.clean[k] ELSE NoVersion
      BY <1>0, <1>3, Readables
    <3>2. Readable[k] = IF mem.entry[k].readable = TRUE THEN disk.clean[k] ELSE NoVersion
      BY <1>0, <1>7, Readables
    <3> QED BY <2>4, <3>1, <3>2
  <2>6. Promise!Next
    BY <1>0, <2>5, DropStep
  <2> QED BY <1>1, <1>2, <2>6
<1> QED BY <1>0, <1>6, <1>7

\* The steps of a writer that make nothing readable.
LEMMA PromiseWriter ==
  ASSUME Base, Base', Numbered, Fresh, NEW w \in Writers,
         \/ newSink(w) \/ write(w) \/ writeFails(w) \/ downloadFails(w) \/ abort(w) \/ abortFails(w)
         \/ commitFails(w) \/ close(w) \/ check(w)
  PROVE  Fresh' /\ Recalled' /\ Promise!Next
<1> DEFINE k == writer[w].key
<1>0. /\ Types /\ Types' /\ Edits /\ shown' = shown /\ writer[w].own = <<>> /\ writer[w].pc # "idle" /\ k \in Keys
      /\ writer \in [Writers -> WriterType] /\ disk \in DirType /\ mem \in MemType /\ count \in CountType
      /\ count.stores \in Nat /\ Free
  <2>1. writer[w].pc # "idle" /\ shown' = shown /\ Free
    BY DEF newSink, write, writeFails, downloadFails, abort, abortFails, commitFails, close, check, Ready
  <2>2. count.stores \in Nat
    BY Constants DEF Base, Types, CountType
  <2> QED BY <2>1, <2>2 DEF Base, Types, Edits
<1>1. mem.initialized = TRUE /\ lock # <<"publish">>
  BY <1>0 DEF Base, Locked, Resting, Types, MemType, Free
<1>2. ASSUME NEW pc, Moved(w, pc), pc \in {"data", "commit", "abort", "check"},
             count'.stores = count.stores, \A x \in Keys : Fewer(x)
      PROVE  Fresh'
  <2>1. \A x \in Writers : writer[x].pc # "publish"
    BY <1>0, <1>1, NobodyPublishes
  <2>2. \A x \in Writers : /\ writer'[x].pc # "publish"
                           /\ writer'[x].pc = "sink" => writer[x].pc = "sink" /\ writer'[x].ver = writer[x].ver
    BY <1>2, <2>1 DEF Moved
  <2> QED BY <1>0, <1>2, <2>2, FreshElse
<1>3. ASSUME writer' = [writer EXCEPT ![w] = Resting], count'.stores = count.stores, \A x \in Keys : Fewer(x)
      PROVE  Fresh'
  <2>1. \A x \in Writers : writer[x].pc # "publish"
    BY <1>0, <1>1, NobodyPublishes
  <2>2. \A x \in Writers : writer'[x].pc = "idle" \/ writer'[x] = writer[x]
    BY <1>0, <1>3 DEF Resting
  <2>3. \A x \in Writers : /\ writer'[x].pc # "publish"
                           /\ writer'[x].pc = "sink" => writer[x].pc = "sink" /\ writer'[x].ver = writer[x].ver
    BY <2>1, <2>2
  <2> QED BY <1>0, <1>3, <2>3, FreshElse
<1>goto. ASSUME NEW pc \in {"commit", "abort", "check"}, Goto(w, pc) PROVE Moved(w, pc)
  <2>1. writer' = [writer EXCEPT ![w] = [writer[w] EXCEPT !.pc = pc]]
    BY <1>0, <1>goto DEF Goto
  <2> QED BY <1>0, <2>1 DEF Moved, WriterType
<1>4. ASSUME mem' = mem, \A x \in Keys : disk'.clean[x] \in {disk.clean[x], NoVersion}
      PROVE  Recalled' /\ Promise!Next
  BY <1>0, <1>1, <1>4, RecalledElse, OpenDrop
<1>5. ASSUME \/ \E x \in Keys : Removed(Now, Then, x) \/ Detached(Now, Then, x) \/ Looked(Now, Then, x)
             \/ disk' = disk /\ Alike(mem, mem')
      PROVE  Recalled' /\ Promise!Next /\ \A x \in Keys : Fewer(x)
  <2>1. mem'.initialized = TRUE
    BY <1>1, <1>5 DEF Removed, Detached, Looked, Alike, Now, Then
  <2>2. \A x \in Keys : Fewer(x)
    BY <1>0, <1>5, FewerEffects
  <2> QED BY <1>0, <1>1, <1>5, <2>1, <2>2, RecalledElse, EffectsDrop
<1>same. disk' = disk /\ mem' = mem => disk' = disk /\ Alike(mem, mem')
  BY DEF Alike
<1> HIDE DEF k
<1>6. CASE newSink(w)
  <2>1. mem' = mem /\ disk'.clean = disk.clean
    BY <1>0, <1>6, SinkEffect DEF newSink
  <2>2. Fresh'
    BY <1>0, <1>1, <1>6, FreshSink
  <2> QED BY <1>4, <2>1, <2>2
<1>7. CASE write(w)
  <2>1. mem' = mem /\ disk' = disk /\ count' = count /\ writer[w].pc = "data" /\ Moved(w, "commit")
    BY <1>7, <1>goto DEF write
  <2> QED BY <1>2, <1>5, <1>same, <2>1
<1>8. CASE writeFails(w)
  <2>1. /\ Moved(w, "commit") /\ count'.stores = count.stores
        /\ IF mem.entry[k].editor = w THEN Detached(Now, Then, k) ELSE disk' = disk /\ mem' = mem
    BY <1>0, <1>8, WriteFailsEffect DEF k
  <2>2. writer[w].pc = "data"
    BY <1>8 DEF writeFails
  <2> QED BY <1>0, <1>2, <1>5, <1>same, <2>1, <2>2
<1>9. CASE downloadFails(w)
  <2>1. mem' = mem /\ disk' = disk /\ count' = count /\ writer[w].pc = "data" /\ Moved(w, "abort")
    BY <1>9, <1>goto DEF downloadFails
  <2> QED BY <1>2, <1>5, <1>same, <2>1
<1>10. CASE abort(w)
  <2>1. writer' = [writer EXCEPT ![w] = Resting]
    BY <1>10 DEF abort
  <2>2. CASE Current(w)
    <3>1. FinishEdit(Aborted(w))
      BY <1>10, <2>2 DEF abort
    <3>2. count'.stores = count.stores
      BY <1>0, <3>1, AbortEffect
    <3>3. mem'.initialized = TRUE
      <4>1. PICK d \in DirType, m \in MemType :
              GivenUp(Now, [d |-> d, m |-> m], k) /\ Flushed([d |-> d, m |-> m], Then)
        BY <1>0, <3>1, AbortEffect DEF k
      <4>2. mem'.initialized = m.initialized
        BY <4>1, FlushedKeeps
      <4> QED BY <1>1, <4>1, <4>2 DEF GivenUp, Now
    <3>4. Recalled'
      BY <3>3, RecalledElse
    <3>5. \A x \in Keys : Fewer(x)
      <4>1. PICK d \in DirType, m \in MemType :
              GivenUp(Now, [d |-> d, m |-> m], k) /\ Flushed([d |-> d, m |-> m], Then)
        BY <1>0, <3>1, AbortEffect DEF k
      <4> QED BY <1>0, <4>1, FewerGivenUp
    <3> QED BY <1>0, <1>1, <1>3, <2>1, <3>1, <3>2, <3>4, <3>5, GivenUpDrop
  <2>3. CASE ~Current(w)
    <3>1. disk' = disk /\ mem' = mem /\ count' = count
      BY <1>10, <2>3 DEF abort
    <3> QED BY <1>3, <1>5, <1>same, <2>1, <3>1
  <2> QED BY <2>2, <2>3
<1>11. CASE commitFails(w)
  <2>1. /\ mem' = mem /\ writer[w].pc = "commit" /\ Moved(w, "abort") /\ MayFail(TRUE)
        /\ disk' = [disk EXCEPT !.clean[k] = NoVersion]
    BY <1>11, <1>goto DEF commitFails, k
  <2>2. disk'.clean = [disk.clean EXCEPT ![k] = NoVersion]
    BY <1>0, <2>1 DEF DirType
  <2>3. \A x \in Keys : disk'.clean[x] \in {disk.clean[x], NoVersion}
    BY <1>0, <2>2 DEF DirType
  <2>4. count'.stores = count.stores
    BY <1>0, <2>1, MayFailFacts
  <2>5. \A x \in Keys : Fewer(x)
    <3>1. disk'.dirty = disk.dirty /\ disk'.left = disk.left
      BY <1>0, <2>1 DEF DirType
    <3> QED BY <2>3, <3>1 DEF Fresh, Fewer, TempFile
  <2> QED BY <1>2, <1>4, <2>1, <2>3, <2>4, <2>5
<1>12. CASE close(w)
  <2>1. mem' = mem /\ disk' = disk /\ writer[w].pc = "close" /\ Moved(w, "check")
    BY <1>12, <1>goto DEF close
  <2>2. count'.stores = count.stores
    BY <1>0, <1>12, MayFailFacts DEF close
  <2> QED BY <1>2, <1>5, <1>same, <2>1, <2>2
<1>13. CASE check(w)
  <2>1. writer' = [writer EXCEPT ![w] = Resting]
    BY <1>13 DEF check
  <2>2. PICK kept \in BOOLEAN : MayFail(kept) /\ Become(Get(Now, k, kept))
    BY <1>13 DEF check, k
  <2>3. Looked(Now, Then, k) \/ Removed(Now, Then, k)
    BY <1>0, <2>2, GetEffect DEF Base, Mapped
  <2>4. count'.stores = count.stores
    BY <1>0, <2>2, MayFailFacts
  <2> QED BY <1>0, <1>3, <1>5, <2>1, <2>3, <2>4
<1>14. CASE abortFails(w)
  <2>1. /\ StuckBy(mem, mem', k) /\ count'.stores = count.stores
        /\ writer' = [writer EXCEPT ![w] = Resting] /\ disk' = disk
    BY <1>0, <1>14, AbortFailsEffect DEF k
  <2>2. mem'.initialized = TRUE /\ mem'.entry = [mem.entry EXCEPT ![k].editor = Stuck]
    BY <1>1, <2>1 DEF StuckBy
  <2>3. \A x \in Keys : mem'.entry[x].readable = mem.entry[x].readable
    BY <1>0, <2>2 DEF MemType, EntryType
  <2>4. Recalled'
    BY <2>2, RecalledElse
  <2>5. Promise!Next
    BY <1>0, <1>1, <2>1, <2>2, <2>3, OpenDrop
  <2>6. \A x \in Keys : Fewer(x)
    BY <1>0, <2>1, FewerEffects
  <2> QED BY <1>3, <2>1, <2>4, <2>5, <2>6
<1> QED BY <1>6, <1>7, <1>8, <1>9, <1>10, <1>11, <1>12, <1>13, <1>14

LEMMA PromiseStep ==
  ASSUME Base, Base', Journaled, Journaled', Knows, Stored, Fresh, Recalled, Next, Gaps = FALSE
  PROVE  Fresh' /\ Recalled' /\ Promise!Next
<1>0. /\ Types /\ Types' /\ Locked /\ Edits /\ Distinct(mem.lru) /\ mem.initialized \in BOOLEAN
      /\ count \in CountType /\ count.stores \in Nat /\ writer \in [Writers -> WriterType]
      /\ mem \in MemType /\ disk \in DirType
  <2>1. count.stores \in Nat
    BY Constants DEF Base, Types, CountType
  <2> QED BY <2>1 DEF Base, Types, MemType, Mapped
<1>busy. \A w \in Writers : writer[w].pc # "idle" => mem.initialized = TRUE
  BY <1>0 DEF Locked, Resting
<1>own. \A w \in Writers : writer[w].own = <<>>
  BY <1>0 DEF Edits
<1>free. Free => lock # <<"publish">> /\ ~Rebuilding(lock, "process")
  BY DEF Free, Rebuilding
<1>same. disk' = disk /\ mem' = mem => disk' = disk /\ Alike(mem, mem')
  BY DEF Alike
<1>spent. Spend("events", MaxEvents) => count'.stores = count.stores
  BY <1>0, SpendEvents
<1>quiet. ASSUME lock # <<"publish">>, writer' = writer, shown' = shown, count'.stores = count.stores,
                 \A k \in Keys : Fewer(k)
          PROVE  Fresh'
  BY <1>0, <1>quiet, FreshStill
<1>calm. ASSUME mem.initialized = TRUE, lock # <<"publish">>, writer' = writer, shown' = shown,
                count'.stores \in {count.stores, count.stores + 1},
                \/ \E k \in Keys : Removed(Now, Then, k) \/ Detached(Now, Then, k) \/ Looked(Now, Then, k)
                \/ disk' = disk /\ Alike(mem, mem')
         PROVE  Fresh' /\ Recalled' /\ Promise!Next
  <2>1. mem'.initialized = TRUE
    BY <1>calm DEF Removed, Detached, Looked, Alike, Now, Then
  <2>2. count'.stores >= count.stores
    BY <1>0, <1>calm
  <2>5. \A k \in Keys : Fewer(k)
    BY <1>0, <1>calm, FewerEffects
  <2>3. Fresh'
    BY <1>0, <1>calm, <2>2, <2>5, FreshStill
  <2>4. Recalled'
    BY <2>1, RecalledElse
  <2> QED BY <1>0, <1>calm, <2>3, <2>4, EffectsDrop
<1>held. \A s : At(s) /\ s # "publish" => lock # <<"publish">>
  BY DEF At, Free
<1>1. CASE initialize \/ readJournal \/ wipe \/ processJournal \/ openedEmpty
  <2>1. lock # <<"publish">>
    BY <1>1, <1>held, <1>free DEF initialize, readJournal, wipe, processJournal, openedEmpty
  <2>2. writer' = writer /\ shown' = shown /\ count' = count
    BY <1>1 DEF initialize, readJournal, wipe, processJournal, openedEmpty
  <2>5. \A k \in Keys : Fewer(k)
    BY <1>0, <1>1, FewerOpening
  <2>3. Fresh'
    BY <1>quiet, <2>1, <2>2, <2>5
  <2>4. Recalled'
    <3>1. CASE initialize
      <4>1. lock' = <<"read">>
        BY <3>1 DEF initialize
      <4>2. ~Rebuilding(lock', "process")
        BY <4>1 DEF Rebuilding
      <4> QED BY <4>2, RecalledElse
    <3>2. CASE readJournal
      BY <3>2, RecalledRead
    <3>3. CASE wipe
      <4>1. lock' \in {<<"wipe">>, Rebuild("done")}
        BY <1>0, <3>3, HeldFor DEF wipe
      <4>2. ~Rebuilding(lock', "process")
        BY <4>1 DEF Rebuilding, Rebuild
      <4> QED BY <4>2, RecalledElse
    <3>4. CASE processJournal
      BY <3>4, RecalledProcess
    <3>5. CASE openedEmpty
      <4>1. mem'.initialized = TRUE
        BY <1>0, <3>5 DEF openedEmpty, MemType
      <4> QED BY <4>1, RecalledElse
    <3> QED BY <1>1, <3>1, <3>2, <3>3, <3>4, <3>5
  <2> QED BY <1>1, <2>3, <2>4, PromiseOpening
<1>2. CASE rebuildJournal
  <2>1. writer' = writer /\ shown' = shown /\ lock # <<"publish">>
    BY <1>2 DEF rebuildJournal, At
  <2>2. count'.stores = count.stores
    <3>1. count' = count \/ \E bad \in BOOLEAN : MayFail(bad)
      BY <1>2 DEF rebuildJournal
    <3> QED BY <1>0, <3>1, MayFailFacts
  <2>4. \A k \in Keys : Fewer(k)
    BY <1>0, <1>2, FewerRebuild
  <2>3. Fresh'
    BY <1>quiet, <2>1, <2>2, <2>4
  <2>5. NobodyStuck
    BY DEF Stored
  <2> QED BY <1>2, <2>3, <2>5, RecalledRebuild, PromiseRebuild
<1>3. CASE runCleanup
  <2>1. /\ Alike(mem, mem') /\ disk' = disk /\ count' = count /\ writer' = writer /\ shown' = shown /\ Free
        /\ lock' = IF mem.initialized THEN <<"trim", "compact">> ELSE <<>>
    BY <1>0, <1>3 DEF runCleanup, Alike, MemType
  <2>2. CASE mem.initialized = TRUE
    BY <1>calm, <1>free, <2>1, <2>2
  <2>3. CASE mem.initialized = FALSE
    <3>5. \A k \in Keys : Fewer(k)
      BY <1>0, <2>1, FewerEffects
    <3>1. Fresh'
      BY <1>quiet, <1>free, <2>1, <3>5
    <3>2. Recalled'
      <4>1. ~Rebuilding(lock', "process")
        BY <2>1, <2>3 DEF Rebuilding
      <4> QED BY <4>1, RecalledElse
    <3>3. mem'.initialized = FALSE /\ app' = app
      BY <1>3, <2>1, <2>3 DEF Alike, runCleanup
    <3>4. Recovered' = Recovered
      BY <2>1, <3>3 DEF Recovered, OnDisk, Replay, NoEntry
    <3> QED BY <2>1, <2>3, <3>1, <3>2, <3>3, <3>4, ClosedDrop
  <2> QED BY <1>0, <2>2, <2>3
<1>4. CASE trimToSize
  <2>1. mem.size > MaxSize => mem.lru # <<>>
    BY <1>4, TrimFinds DEF trimToSize
  <2>2. /\ count'.stores = count.stores
        /\ \/ mem.lru # <<>> /\ Removed(Now, Then, Head(mem.lru))
           \/ mem.lru # <<>> /\ Detached(Now, Then, Head(mem.lru))
           \/ disk' = disk /\ Alike(mem, mem')
    BY <1>0, <1>4, <2>1, TrimEffect
  <2>3. mem.lru # <<>> => Head(mem.lru) \in Keys
    BY <1>0 DEF MemType
  <2>4. mem.initialized = TRUE /\ writer' = writer /\ shown' = shown /\ lock # <<"publish">>
    BY <1>0, <1>4, <1>held, HeldFor DEF trimToSize
  <2> QED BY <1>calm, <2>2, <2>3, <2>4
<1>5. CASE compactJournal
  <2>1. /\ mem.initialized = TRUE /\ mem' = mem /\ disk' = disk /\ count' = count /\ writer' = writer
        /\ shown' = shown /\ lock # <<"publish">>
    BY <1>0, <1>5, <1>held, HeldFor DEF compactJournal
  <2> QED BY <1>calm, <1>same, <2>1
<1>6. CASE compacted
  <2>1. /\ mem.initialized = TRUE /\ Alike(mem, mem') /\ disk' = disk /\ count' = count
        /\ writer' = writer /\ shown' = shown /\ lock # <<"publish">>
    BY <1>0, <1>6, <1>held, HeldFor DEF compacted, Alike, MemType
  <2> QED BY <1>calm, <2>1
<1>7. CASE rebuildFails
  <2>1. /\ mem'.entry = mem.entry /\ mem'.initialized = mem.initialized /\ disk' = disk
        /\ writer' = writer /\ shown' = shown /\ lock' = <<>> /\ app' = app
        /\ lock # <<>> /\ Last(lock) = "reset" /\ lock # <<"publish">>
    BY <1>0, <1>7 DEF rebuildFails, MemType, Free
  <2>2. count'.stores = count.stores
    BY <1>0, <1>7, MayFailFacts DEF rebuildFails
  <2>6. \A k \in Keys : Fewer(k)
    BY <1>0, <2>1, FewerEffects
  <2>3. Fresh'
    BY <1>quiet, <2>1, <2>2, <2>6
  <2>4. mem'.initialized = TRUE
    <3>1. lock[Len(lock)] = "reset"
      BY <2>1 DEF Last
    <3>2. ASSUME mem.initialized = FALSE PROVE FALSE
      <4>1. Opening
        BY <1>0, <3>2 DEF Locked
      <4>2. Rebuilding(lock, "done") => lock[Len(lock)] = "done"
        BY RebuildingFacts
      <4>3. Rebuilding(lock, "process") => lock[Len(lock)] = "process"
        BY RebuildingFacts
      <4>4. lock \notin {<<>>, <<"read">>, <<"wipe">>}
        BY <2>1, <3>1
      <4> QED BY <3>1, <4>1, <4>2, <4>3, <4>4 DEF Opening
    <3> QED BY <1>0, <2>1, <3>2
  <2>5. Recalled'
    BY <2>4, RecalledElse
  <2> QED BY <1>0, <2>1, <2>3, <2>4, <2>5, OpenDrop
<1>8. ASSUME NEW w \in Writers, NEW k \in Keys, edit(w, k) PROVE Fresh' /\ Recalled' /\ Promise!Next
  <2>1. mem.initialized = TRUE /\ shown' = shown /\ Free
    BY <1>0, <1>8 DEF edit, Ready
  <2>2. count'.stores = count.stores + 1
    BY <1>0, <1>8, SpendStores DEF edit
  <2>3. CASE Looked(Now, Then, k) /\ writer' = writer
    BY <1>calm, <1>free, <2>1, <2>2, <2>3
  <2>4. CASE /\ Started(Now, Then, k, w)
             /\ writer' = [writer EXCEPT ![w] = [pc |-> "sink", key |-> k, ver |-> count.stores + 1,
                                                 sink |-> FALSE, own |-> <<>>]]
    <3>1. Fresh'
      BY <1>0, <1>8, <2>1, <2>4, FreshEdit DEF Stored
    <3>2. /\ mem'.initialized = TRUE /\ disk'.clean = disk.clean
          /\ \A x \in Keys : mem'.entry[x].readable = mem.entry[x].readable
      BY <2>1, <2>4 DEF Started, Now, Then
    <3>3. Recalled'
      BY <3>2, RecalledElse
    <3> QED BY <1>0, <2>1, <3>1, <3>2, <3>3, OpenDrop
  <2> QED BY <1>0, <1>8, <2>3, <2>4, EditEffect
<1>9. ASSUME NEW w \in Writers, NEW k \in Keys, editFails(w, k) PROVE Fresh' /\ Recalled' /\ Promise!Next
  <2>1. PICK m \in MemType :
          /\ Dirtied(Now, m, k) /\ Flushed([d |-> disk, m |-> m], Then)
          /\ count'.stores = count.stores
    BY <1>0, <1>9, EditFailsEffect
  <2>2. m.entry = mem.entry /\ m.initialized = mem.initialized
    BY <2>1 DEF Dirtied, Now
  <2>3. disk'.clean = disk.clean /\ mem'.entry = m.entry /\ mem'.initialized = m.initialized
        /\ disk'.dirty = disk.dirty /\ SameLeft(disk, disk')
    BY <2>1, FlushedKeeps
  <2>7. \A x \in Keys : Fewer(x)
    BY <2>3, FewerSame
  <2>4. writer' = writer /\ shown' = shown /\ Free /\ mem.initialized = TRUE
    BY <1>0, <1>9 DEF editFails, Ready
  <2>5. Fresh'
    BY <1>quiet, <1>free, <2>1, <2>4, <2>7
  <2>6. Recalled'
    BY <2>2, <2>3, <2>4, RecalledElse
  <2> QED BY <1>0, <2>2, <2>3, <2>4, <2>5, <2>6, OpenDrop
<1>10. ASSUME NEW w \in Writers,
              \/ newSink(w) \/ write(w) \/ writeFails(w) \/ downloadFails(w) \/ abort(w) \/ abortFails(w)
              \/ commitFails(w) \/ close(w) \/ check(w)
       PROVE  Fresh' /\ Recalled' /\ Promise!Next
  BY <1>10, PromiseWriter DEF Stored
<1>11. ASSUME NEW w \in Writers, commit(w) \/ publish(w) PROVE Fresh' /\ Recalled' /\ Promise!Next
  BY <1>11, PromiseCommit, PromisePublish
<1>12. ASSUME NEW k \in Keys, get(k) PROVE Fresh' /\ Recalled' /\ Promise!Next
  <2>1. /\ \E kept \in BOOLEAN : Become(Get(Now, k, kept))
        /\ Ready /\ writer' = writer /\ shown' = shown /\ Spend("events", MaxEvents)
    BY <1>12 DEF get
  <2>2. Looked(Now, Then, k) \/ Removed(Now, Then, k)
    BY <1>0, <2>1, GetEffect
  <2>3. mem.initialized = TRUE /\ Free
    BY <1>0, <2>1 DEF Ready
  <2> QED BY <1>calm, <1>free, <1>spent, <2>1, <2>2, <2>3
<1>13. CASE evictAll
  <2>1. /\ mem.initialized = TRUE /\ mem' = mem /\ disk' = disk /\ writer' = writer /\ shown' = shown
        /\ Spend("events", MaxEvents) /\ Free
    BY <1>0, <1>13 DEF evictAll, Ready
  <2> QED BY <1>calm, <1>free, <1>same, <1>spent, <2>1
<1>14. CASE evictNext
  <2>1. /\ count'.stores = count.stores
        /\ \/ Head(mem.lru) \in Keys /\ Removed(Now, Then, Head(mem.lru))
           \/ Head(mem.lru) \in Keys /\ Detached(Now, Then, Head(mem.lru))
           \/ disk' = disk /\ Alike(mem, mem')
    BY <1>0, <1>14, EvictEffect
  <2>2. mem.initialized = TRUE /\ writer' = writer /\ shown' = shown /\ lock # <<"publish">>
    BY <1>0, <1>14, <1>held, HeldFor DEF evictNext
  <2> QED BY <1>calm, <2>1, <2>2
<1>15. CASE cleanStart
  <2>1. /\ mem.initialized = TRUE /\ mem' = mem /\ disk' = disk /\ writer' = writer /\ shown' = shown
        /\ Spend("events", MaxEvents) /\ Free
    BY <1>0, <1>15 DEF cleanStart, Ready
  <2> QED BY <1>calm, <1>free, <1>same, <1>spent, <2>1
<1>16. CASE cleanNext
  <2>1. /\ writer' = writer /\ count'.stores = count.stores
        /\ (disk' = disk /\ mem' = mem) \/ \E k \in Keys : Removed(Now, Then, k)
    BY <1>0, <1>16, CleanNextEffect
  <2>2. mem.initialized = TRUE /\ shown' = shown /\ Free
    BY <1>0, <1>16 DEF cleanNext, Ready
  <2> QED BY <1>calm, <1>free, <1>same, <2>1, <2>2
<1>17. CASE cleanRemove
  <2>1. /\ count'.stores = count.stores
        /\ (disk' = disk /\ Alike(mem, mem')) \/ \E k \in Keys : Removed(Now, Then, k)
    BY <1>0, <1>17, CleanRemoveEffect
  <2>2. mem.initialized = TRUE /\ writer' = writer /\ shown' = shown /\ Free
    BY <1>0, <1>17 DEF cleanRemove, Ready
  <2> QED BY <1>calm, <1>free, <2>1, <2>2
<1>19. CASE cleanRemoveFails
  <2>1. count'.stores = count.stores /\ \E k \in Keys : Detached(Now, Then, k)
    BY <1>0, <1>19, CleanRemoveFailsEffect
  <2>2. mem.initialized = TRUE /\ writer' = writer /\ shown' = shown /\ Free
    BY <1>0, <1>19 DEF cleanRemoveFails, Ready
  <2> QED BY <1>calm, <1>free, <2>1, <2>2
<1>18. CASE restart
  BY <1>18, PromiseRestart
<1> QED
  BY <1>1, <1>2, <1>3, <1>4, <1>5, <1>6, <1>7, <1>8, <1>9, <1>10, <1>11, <1>12, <1>13, <1>14,
     <1>15, <1>16, <1>17, <1>18, <1>19
  DEF Next

LEMMA InitPromise == Init => Fresh /\ Recalled /\ Promise!Init
<1> SUFFICES ASSUME Init PROVE Fresh /\ Recalled /\ Promise!Init
  OBVIOUS
<1>0. shown = {} /\ lock = <<>>
  BY DEF Init
<1>1. \A w \in Writers : writer[w].pc = "idle"
  BY DEF Init, Resting
<1>2. mem.initialized = FALSE /\ mem.buffer = <<>> /\ \A k \in Keys : mem.entry[k].editor = Nobody
  BY DEF Init, Closed, NoEntry
<1>3. Fresh
  <2>1. \A k \in Keys : disk.dirty[k] = NoVersion /\ disk.left[k] = NoVersion /\ TempFile(disk, k) = NoVersion
    BY DEF Init, TempFile
  <2>2. \A w \in Writers : writer[w].pc # "sink"
    BY <1>1
  <2>3. \A k \in Keys : ~Publishing(k)
    BY <1>2, Constants DEF Publishing
  <2> QED BY <1>0, <2>1, <2>2, <2>3 DEF Fresh
<1>4. Recalled
  <2>1. ~Loaded
    BY <1>0, <1>2 DEF Loaded, Rebuilding
  <2> QED BY <1>2, <2>1 DEF Recalled
<1>5. \A k \in Keys : disk.clean[k] = NoVersion
  BY DEF Init
<1>6. \A k \in Keys : Readable[k] = NoVersion
  BY <1>5 DEF Readable
<1>7. Readable = [k \in Keys |-> Readable[k]]
  BY DEF Readable
<1>8. Readable = [k \in Keys |-> 0]
  BY <1>6, <1>7 DEF NoVersion
<1> QED BY <1>0, <1>3, <1>4, <1>8 DEF Promise!Init, Promise!NoVersion

LEMMA PromiseInv ==
  ASSUME Base, Journaled, Knows, Stored, Fresh, Recalled, Gaps = FALSE
  PROVE  [Next]_vars => (Base /\ Journaled /\ Knows /\ Stored /\ Fresh /\ Recalled)' /\ [Promise!Next]_(Promise!vars)
<1>1. CASE Next
  <2>1. Base' /\ Journaled' /\ Knows' /\ Stored'
    BY <1>1, StoredInv
  <2> QED BY <1>1, <2>1, PromiseStep
<1>2. CASE UNCHANGED vars
  <2>1. Base' /\ Journaled' /\ Knows' /\ Stored'
    BY <1>2, StoredInv
  <2>2. Fresh' /\ Recalled'
    BY <1>2 DEF vars, Fresh, TempFile, Recalled, Recalls, Publishing, Loaded, Rebuilding, At, Free, OnDisk, Replay
  <2>3. UNCHANGED Promise!vars
    BY <1>2 DEF vars, Promise!vars, Readable, Recovered, OnDisk, Replay
  <2> QED BY <2>1, <2>2, <2>3
<1> QED BY <1>1, <1>2

\* The cache implements MsgCache: whatever is interrupted, lost or refused (edits, rebuilds of the
\* journal, its last lines, writes, the process itself), what can be read under a key changes only by
\* the one commit of a new version, or goes; a version that was replaced or dropped never comes back,
\* neither in the open cache nor by reading the journal again.
THEOREM CacheKeepsPromise ==
  ASSUME Gaps = FALSE
  PROVE  Spec => KeepsPromise
<1> QED BY InitBase, InitJournal, InitStored, InitPromise, PromiseInv, PTL
        DEF Spec, KeepsPromise, Promise!Spec
=============================================================================
