---------------------------- MODULE JournalProofs ----------------------------
(***************************************************************************)
(* Proofs about the journal of DiskCache and the files that it speaks of.  *)
(***************************************************************************)
EXTENDS DiskProofs

-----------------------------------------------------------------------------
(* The journal. *)

\* These lines, and those that the buffer b may add, keep the clean file of k.
KeepsClean(lines, b, k) ==
  /\ \E i \in DOMAIN lines :
       /\ lines[i].key = k /\ lines[i].op \in {"DIRTY", "CLEAN"}
       /\ \A j \in DOMAIN lines : j > i /\ lines[j].key = k => lines[j].op # "REMOVE"
  /\ \A j \in DOMAIN b : b[j].key = k => b[j].op # "REMOVE"

\* These lines, and those that the buffer b may add, tell that k is being edited.
TellsDirty(lines, b, k) ==
  /\ \E i \in DOMAIN lines :
       /\ lines[i].key = k /\ lines[i].op = "DIRTY"
       /\ \A j \in DOMAIN lines : j > i /\ lines[j].key = k => lines[j].op \notin {"CLEAN", "REMOVE"}
  /\ \A j \in DOMAIN b : b[j].key = k => b[j].op \notin {"CLEAN", "REMOVE"}

\* They cover the files in the directory d and the edits of the entries e.
Covers(d, e, lines, b) ==
  \A k \in Keys :
    /\ d.clean[k] # NoVersion => KeepsClean(lines, b, k)
    /\ d.dirty[k] # NoVersion \/ e[k].editor \in Writers => TellsDirty(lines, b, k)

NoFiles == \A k \in Keys : disk.clean[k] = NoVersion /\ disk.dirty[k] = NoVersion

Journaled ==
  /\ OnDisk.app = app => Covers(disk, mem.entry, OnDisk.lines, mem.buffer)
  /\ OnDisk = NoFile => NoFiles \/ At("wipe")
  /\ At("read") \/ At("wipe") => disk.backup = NoFile
  /\ At("wipe") => disk.journal.app # app
  /\ Rebuilding(lock, "done") => NoFiles
  /\ Rebuilding(lock, "done") /\ ~(At("drop") \/ At("done")) => OnDisk = NoFile
  /\ Loaded => OnDisk.app = app
  /\ At("backup") \/ At("swap") => disk.temp.app = app /\ Covers(disk, mem.entry, disk.temp.lines, <<>>)
  /\ At("swap") => disk.journal = NoFile
  /\ At("drop") \/ At("done") => disk.journal.app = app
  /\ mem.journalWriter = "file" /\ ~At("swap") => disk.journal.app = app

\* What the cache knows of the files.
Knows ==
  Loaded => \A k \in Keys :
    /\ disk.dirty[k] # NoVersion => mem.entry[k].editor # Nobody
    /\ disk.clean[k] # NoVersion =>
         mem.entry[k].readable = TRUE \/ mem.entry[k].editor = Replayed \/ Publishing(k)
    /\ Publishing(k) => disk.dirty[k] = NoVersion

-----------------------------------------------------------------------------
(* The contents of the files. *)

\* All of the version has been written; its writer is about to close it when the last block is
\* missing.
Written(v) ==
  v \notin disk.spoilt =>
    /\ body[v] # "part"
    /\ body[v] = "body" =>
         \E w \in Writers : writer[w].ver = v /\ writer[w].pc \in {"publish", "close"}
                              /\ writer[w].sink = TRUE

\* Every edit has a version of its own.
Numbered ==
  /\ \A w \in Writers : writer[w].pc # "idle" => writer[w].ver <= count.stores
  /\ \A v, w \in Writers : writer[v].pc # "idle" /\ writer[w].pc # "idle" /\ writer[v].ver = writer[w].ver
                            => v = w
  /\ \A k \in Keys : /\ disk.clean[k] <= count.stores /\ disk.dirty[k] <= count.stores
                     /\ disk.left[k] <= count.stores

\* A temporary file belongs to the edit in progress, or to one whose abort failed.
Owned ==
  mem.initialized = TRUE => \A k \in Keys : disk.dirty[k] # NoVersion =>
    \/ mem.entry[k].editor = Stuck
    \/ /\ mem.entry[k].editor \in Writers
       /\ LET s == writer[mem.entry[k].editor]
          IN s.ver = disk.dirty[k] /\ s.sink = TRUE /\ s.pc \in {"data", "commit", "abort"}

\* Only what was written becomes a clean file, and nobody writes to it any more.
Filled ==
  /\ \A k \in Keys : disk.left[k] # NoVersion => disk.left[k] \in disk.spoilt
  /\ \A w \in Writers, k \in Keys :
       writer[w].pc \in Editing \ {"publish"} /\ disk.clean[k] = writer[w].ver => writer[w].ver \in disk.spoilt
  /\ \A w \in Writers : writer[w].pc = "commit" /\ writer[w].sink = TRUE => body[writer[w].ver] # "part"
  /\ \A k \in Keys : disk.clean[k] # NoVersion => Written(disk.clean[k])

\* An edit is stuck only in an open cache.
NobodyStuck == mem.initialized = FALSE => \A k \in Keys : mem.entry[k].editor # Stuck

Stored == Numbered /\ Owned /\ NobodyStuck /\ Filled

-----------------------------------------------------------------------------
(* Lines of the journal. *)

\* A line for the buffer.
LEMMA BufferedLine ==
  ASSUME NEW lines, NEW b \in Seq(LineType), NEW l \in LineType, NEW k \in Keys
  PROVE  /\ KeepsClean(lines, b, k) /\ (l.key # k \/ l.op # "REMOVE")
              => KeepsClean(lines, Append(b, l), k)
         /\ TellsDirty(lines, b, k) /\ (l.key # k \/ l.op \notin {"CLEAN", "REMOVE"})
              => TellsDirty(lines, Append(b, l), k)
<1> DEFINE c == Append(b, l)
<1>1. \A j \in DOMAIN c : (j \in DOMAIN b /\ c[j] = b[j]) \/ c[j] = l
  OBVIOUS
<1> HIDE DEF c
<1>2. KeepsClean(lines, b, k) /\ (l.key # k \/ l.op # "REMOVE") => KeepsClean(lines, c, k)
  BY <1>1 DEF KeepsClean
<1>3. TellsDirty(lines, b, k) /\ (l.key # k \/ l.op \notin {"CLEAN", "REMOVE"}) => TellsDirty(lines, c, k)
  BY <1>1 DEF TellsDirty
<1> QED BY <1>2, <1>3 DEF c

\* The buffer is lost.
LEMMA LostBuffer ==
  ASSUME NEW lines, NEW b, NEW k \in Keys
  PROVE  /\ KeepsClean(lines, b, k) => KeepsClean(lines, <<>>, k)
         /\ TellsDirty(lines, b, k) => TellsDirty(lines, <<>>, k)
BY DEF KeepsClean, TellsDirty

LEMMA DirtyIsKept ==
  ASSUME NEW lines, NEW b, NEW k \in Keys, TellsDirty(lines, b, k)
  PROVE  KeepsClean(lines, b, k)
BY DEF KeepsClean, TellsDirty

\* The buffer, or the part of it that was written, goes to the file.
LEMMA WrittenBuffer ==
  ASSUME NEW lines \in Seq(LineType), NEW b \in Seq(LineType), NEW p \in Torn(b), NEW k \in Keys
  PROVE  /\ KeepsClean(lines, b, k) => KeepsClean(lines \o p, <<>>, k)
         /\ TellsDirty(lines, b, k) => TellsDirty(lines \o p, <<>>, k)
<1> DEFINE q == lines \o p
<1>1. p \in Seq(LineType) /\ \A j \in DOMAIN p : (j \in DOMAIN b /\ p[j] = b[j]) \/ p[j] = Cut
  BY TornFacts
<1>2. Cut.key = Nobody /\ Nobody # k
  BY Constants DEF Cut, Line
<1> HIDE DEF Cut
<1>3. /\ \A j \in DOMAIN lines : j \in DOMAIN q /\ q[j] = lines[j]
      /\ \A j \in DOMAIN q : j \in DOMAIN lines \/ \E i \in DOMAIN p : q[j] = p[i]
  <2>1. q \in Seq(LineType) /\ Len(q) = Len(lines) + Len(p)
    BY <1>1
  <2>2. \A j \in 1 .. Len(lines) : q[j] = lines[j]
    BY <1>1
  <2>3. \A j \in Len(lines) + 1 .. Len(lines) + Len(p) : q[j] = p[j - Len(lines)]
    BY <1>1
  <2> HIDE DEF q
  <2>4. ASSUME NEW j \in DOMAIN q, j \notin DOMAIN lines
        PROVE  \E i \in DOMAIN p : q[j] = p[i]
    <3>1. j \in Len(lines) + 1 .. Len(lines) + Len(p)
      BY <1>1, <2>1, <2>4
    <3>2. j - Len(lines) \in DOMAIN p
      BY <1>1, <3>1
    <3> QED BY <2>3, <3>1, <3>2
  <2>5. \A j \in DOMAIN lines : j \in DOMAIN q
    BY <1>1, <2>1
  <2> QED BY <2>2, <2>4, <2>5
<1> HIDE DEF q
<1>4. ASSUME KeepsClean(lines, b, k) PROVE KeepsClean(q, <<>>, k)
  <2>1. PICK i \in DOMAIN lines :
          /\ lines[i].key = k /\ lines[i].op \in {"DIRTY", "CLEAN"}
          /\ \A j \in DOMAIN lines : j > i /\ lines[j].key = k => lines[j].op # "REMOVE"
    BY <1>4 DEF KeepsClean
  <2>2. \A j \in DOMAIN b : b[j].key = k => b[j].op # "REMOVE"
    BY <1>4 DEF KeepsClean
  <2>3. \A j \in DOMAIN q : j > i /\ q[j].key = k => q[j].op # "REMOVE"
    BY <1>1, <1>2, <1>3, <2>1, <2>2
  <2> QED BY <1>3, <2>1, <2>3 DEF KeepsClean
<1>5. ASSUME TellsDirty(lines, b, k) PROVE TellsDirty(q, <<>>, k)
  <2>1. PICK i \in DOMAIN lines :
          /\ lines[i].key = k /\ lines[i].op = "DIRTY"
          /\ \A j \in DOMAIN lines : j > i /\ lines[j].key = k => lines[j].op \notin {"CLEAN", "REMOVE"}
    BY <1>5 DEF TellsDirty
  <2>2. \A j \in DOMAIN b : b[j].key = k => b[j].op \notin {"CLEAN", "REMOVE"}
    BY <1>5 DEF TellsDirty
  <2>3. \A j \in DOMAIN q : j > i /\ q[j].key = k => q[j].op \notin {"CLEAN", "REMOVE"}
    BY <1>1, <1>2, <1>3, <2>1, <2>2
  <2> QED BY <1>3, <2>1, <2>3 DEF TellsDirty
<1> QED BY <1>4, <1>5 DEF q

\* A DIRTY line at the end.
LEMMA LastDirty ==
  ASSUME NEW lines \in Seq(LineType), NEW b \in Seq(LineType), NEW k \in Keys
  PROVE  TellsDirty(lines \o Append(b, Line("DIRTY", k, 0)), <<>>, k)
<1> DEFINE l == Line("DIRTY", k, 0)
           c == Append(b, l)
           q == lines \o c
           n == Len(lines) + Len(b) + 1
<1>1. l \in LineType /\ l.key = k /\ l.op = "DIRTY"
  BY DEF Line, LineType
<1> HIDE DEF l
<1>2. c \in Seq(LineType) /\ Len(c) = Len(b) + 1 /\ c[Len(b) + 1] = l
  BY <1>1
<1> HIDE DEF c
<1>3. q \in Seq(LineType) /\ Len(q) = n /\ q[n] = l
  <2>1. Len(lines) \in Nat /\ Len(b) \in Nat
    OBVIOUS
  <2>2. q \in Seq(LineType) /\ Len(q) = Len(lines) + Len(c)
    BY <1>2
  <2>3. q[Len(lines) + Len(c)] = c[Len(c)]
    BY <1>2, <2>1
  <2> HIDE DEF q
  <2> QED BY <1>2, <2>1, <2>2, <2>3
<1> HIDE DEF q
<1>4. n \in DOMAIN q /\ \A j \in DOMAIN q : ~(j > n)
  BY <1>3
<1>5. q[n].key = k /\ q[n].op = "DIRTY"
  BY <1>1, <1>3
<1> HIDE DEF n
<1> QED BY <1>4, <1>5 DEF TellsDirty, q, c, l

-----------------------------------------------------------------------------
(* The journal covers the files through every change of one entry. *)

LEMMA CoversRemoved ==
  ASSUME Types, Types', NEW k \in Keys, Removed(Now, Then, k), NEW lines,
         Covers(disk, mem.entry, lines, mem.buffer),
         disk.dirty[k] # NoVersion => mem.entry[k].editor # Nobody
  PROVE  Covers(disk', mem'.entry, lines, mem'.buffer)
<1> DEFINE l == Line("REMOVE", k, 0)
<1>0. /\ disk.clean \in [Keys -> Versions \cup {NoVersion}] /\ disk.dirty \in [Keys -> Versions \cup {NoVersion}]
      /\ mem.entry \in [Keys -> EntryType] /\ mem.buffer \in Seq(LineType)
  BY DEF Types, DirType, MemType
<1>1. l \in LineType /\ l.key = k
  BY DEF Line, LineType
<1>2. /\ disk'.clean = [disk.clean EXCEPT ![k] = NoVersion]
      /\ disk'.dirty = IF mem.entry[k].editor = Nobody THEN disk.dirty
                       ELSE [disk.dirty EXCEPT ![k] = NoVersion]
      /\ mem'.entry = [mem.entry EXCEPT ![k] = NoEntry]
      /\ mem'.buffer \in {mem.buffer, Append(mem.buffer, l)}
  BY DEF Removed, Now, Then
<1>3. disk'.clean[k] = NoVersion /\ disk'.dirty[k] = NoVersion
  BY <1>0, <1>2
<1>4. mem'.entry[k].editor \notin Writers
  BY <1>0, <1>2, Constants DEF NoEntry
<1> HIDE DEF l, NoEntry
<1>5. \A x \in Keys \ {k} : /\ disk'.clean[x] = disk.clean[x] /\ disk'.dirty[x] = disk.dirty[x]
                            /\ mem'.entry[x].editor = mem.entry[x].editor
  BY <1>0, <1>2
<1>o. \A x \in Keys \ {k} :
        /\ KeepsClean(lines, mem.buffer, x) => KeepsClean(lines, mem'.buffer, x)
        /\ TellsDirty(lines, mem.buffer, x) => TellsDirty(lines, mem'.buffer, x)
  <2>1. CASE mem'.buffer = mem.buffer
    BY <2>1
  <2>2. CASE mem'.buffer = Append(mem.buffer, l)
    BY <1>0, <1>1, <2>2, BufferedLine
  <2> QED BY <1>2, <2>1, <2>2
<1> QED BY <1>0, <1>1, <1>2, <1>3, <1>4, <1>5, <1>o DEF Covers

LEMMA CoversDetached ==
  ASSUME Types, Types', NEW k \in Keys, Detached(Now, Then, k), NEW lines,
         Covers(disk, mem.entry, lines, mem.buffer),
         disk.dirty[k] # NoVersion => mem.entry[k].editor # Nobody
  PROVE  Covers(disk', mem'.entry, lines, mem'.buffer)
<1>0. /\ disk.clean \in [Keys -> Versions \cup {NoVersion}] /\ disk.dirty \in [Keys -> Versions \cup {NoVersion}]
      /\ mem.entry \in [Keys -> EntryType] /\ mem.buffer \in Seq(LineType)
  BY DEF Types, DirType, MemType
<1>1. /\ disk'.clean = disk.clean
      /\ disk'.dirty = IF mem.entry[k].editor = Nobody THEN disk.dirty
                       ELSE [disk.dirty EXCEPT ![k] = NoVersion]
      /\ mem'.entry = [mem.entry EXCEPT ![k].editor = Nobody]
      /\ mem'.buffer = mem.buffer
  BY DEF Detached, Now, Then
<1>2. disk'.dirty[k] = NoVersion
  BY <1>0, <1>1
<1>3. mem'.entry[k].editor \notin Writers
  <2>1. mem'.entry[k].editor = Nobody
    BY <1>0, <1>1 DEF EntryType
  <2> QED BY <2>1, Constants
<1>4. \A x \in Keys \ {k} : disk'.dirty[x] = disk.dirty[x] /\ mem'.entry[x].editor = mem.entry[x].editor
  BY <1>0, <1>1
<1> QED BY <1>1, <1>2, <1>3, <1>4 DEF Covers

LEMMA CoversLooked ==
  ASSUME Types, Types', NEW k \in Keys, Looked(Now, Then, k), NEW lines,
         Covers(disk, mem.entry, lines, mem.buffer)
  PROVE  Covers(disk', mem'.entry, lines, mem'.buffer)
<1> DEFINE l == Line("READ", k, 0)
<1>0. mem.buffer \in Seq(LineType)
  BY DEF Types, MemType
<1>1. l \in LineType /\ l.key = k /\ l.op = "READ"
  BY DEF Line, LineType
<1>2. /\ disk' = disk /\ mem'.entry = mem.entry
      /\ mem'.buffer \in {mem.buffer, Append(mem.buffer, l)}
  BY DEF Looked, Now, Then
<1> HIDE DEF l
<1>3. /\ KeepsClean(lines, mem.buffer, k) => KeepsClean(lines, mem'.buffer, k)
      /\ TellsDirty(lines, mem.buffer, k) => TellsDirty(lines, mem'.buffer, k)
  <2>1. CASE mem'.buffer = mem.buffer
    BY <2>1
  <2>2. CASE mem'.buffer = Append(mem.buffer, l)
    BY <1>0, <1>1, <2>2, BufferedLine
  <2> QED BY <1>2, <2>1, <2>2
<1>4. /\ disk'.clean[k] # NoVersion => KeepsClean(lines, mem'.buffer, k)
      /\ disk'.dirty[k] # NoVersion \/ mem'.entry[k].editor \in Writers => TellsDirty(lines, mem'.buffer, k)
  BY <1>2, <1>3 DEF Covers
<1>o. \A x \in Keys \ {k} :
        /\ KeepsClean(lines, mem.buffer, x) => KeepsClean(lines, mem'.buffer, x)
        /\ TellsDirty(lines, mem.buffer, x) => TellsDirty(lines, mem'.buffer, x)
  <2>1. CASE mem'.buffer = mem.buffer
    BY <2>1
  <2>2. CASE mem'.buffer = Append(mem.buffer, l)
    BY <1>0, <1>1, <2>2, BufferedLine
  <2> QED BY <1>2, <2>1, <2>2
<1> QED BY <1>0, <1>1, <1>2, <1>4, <1>o DEF Covers

LEMMA CoversGivenUp ==
  ASSUME Types, NEW k \in Keys, NEW d \in DirType, NEW m \in MemType,
         GivenUp(Now, [d |-> d, m |-> m], k), NEW lines,
         Covers(disk, mem.entry, lines, mem.buffer),
         mem.entry[k].readable = FALSE => disk.clean[k] = NoVersion
  PROVE  Covers(d, m.entry, lines, m.buffer)
<1>0. /\ disk.clean \in [Keys -> Versions \cup {NoVersion}] /\ disk.dirty \in [Keys -> Versions \cup {NoVersion}]
      /\ mem.entry \in [Keys -> EntryType] /\ mem.buffer \in Seq(LineType)
  BY DEF Types, DirType, MemType
<1>1. d.clean = disk.clean /\ d.dirty = [disk.dirty EXCEPT ![k] = NoVersion]
  BY DEF GivenUp, Now
<1>2. CASE /\ m.entry = [mem.entry EXCEPT ![k].editor = Nobody]
           /\ m.buffer = IF mem.journalWriter = "file"
                         THEN Append(mem.buffer, Line("CLEAN", k, mem.entry[k].len)) ELSE mem.buffer
  <2> DEFINE l == Line("CLEAN", k, mem.entry[k].len)
  <2>1. l \in LineType /\ l.key = k /\ l.op = "CLEAN"
    BY <1>0 DEF Line, LineType, EntryType
  <2>2. m.buffer \in {mem.buffer, Append(mem.buffer, l)}
    BY <1>2
  <2> HIDE DEF l
  <2>3. m.entry[k].editor \notin Writers
    <3>1. m.entry[k].editor = Nobody
      BY <1>0, <1>2 DEF EntryType
    <3> QED BY <3>1, Constants
  <2>4. \A x \in Keys \ {k} : m.entry[x].editor = mem.entry[x].editor /\ d.dirty[x] = disk.dirty[x]
    BY <1>0, <1>1, <1>2
  <2>5. d.clean[k] # NoVersion => KeepsClean(lines, m.buffer, k)
    <3>1. KeepsClean(lines, mem.buffer, k) => KeepsClean(lines, m.buffer, k)
      BY <1>0, <2>1, <2>2, BufferedLine
    <3> QED BY <1>1, <3>1 DEF Covers
  <2>6. d.dirty[k] = NoVersion
    BY <1>0, <1>1
  <2>o. \A x \in Keys \ {k} :
          /\ KeepsClean(lines, mem.buffer, x) => KeepsClean(lines, m.buffer, x)
          /\ TellsDirty(lines, mem.buffer, x) => TellsDirty(lines, m.buffer, x)
    <3>1. CASE m.buffer = mem.buffer
      BY <3>1
    <3>2. CASE m.buffer = Append(mem.buffer, l)
      BY <1>0, <2>1, <3>2, BufferedLine
    <3> QED BY <2>2, <3>1, <3>2
  <2> QED BY <1>0, <1>1, <2>1, <2>2, <2>3, <2>4, <2>5, <2>6, <2>o DEF Covers
<1>3. CASE /\ mem.entry[k].readable = FALSE /\ m.entry = [mem.entry EXCEPT ![k] = NoEntry]
           /\ m.buffer = IF mem.journalWriter = "file"
                         THEN Append(mem.buffer, Line("REMOVE", k, 0)) ELSE mem.buffer
  <2> DEFINE l == Line("REMOVE", k, 0)
  <2>1. l \in LineType /\ l.key = k
    BY DEF Line, LineType
  <2>2. m.buffer \in {mem.buffer, Append(mem.buffer, l)}
    BY <1>3
  <2> HIDE DEF l
  <2>3. m.entry[k].editor \notin Writers
    BY <1>0, <1>3, Constants DEF NoEntry
  <2>4. \A x \in Keys \ {k} : m.entry[x].editor = mem.entry[x].editor /\ d.dirty[x] = disk.dirty[x]
    BY <1>0, <1>1, <1>3
  <2>5. d.dirty[k] = NoVersion /\ d.clean[k] = NoVersion
    BY <1>0, <1>1, <1>3
  <2>o. \A x \in Keys \ {k} :
          /\ KeepsClean(lines, mem.buffer, x) => KeepsClean(lines, m.buffer, x)
          /\ TellsDirty(lines, mem.buffer, x) => TellsDirty(lines, m.buffer, x)
    <3>1. CASE m.buffer = mem.buffer
      BY <3>1
    <3>2. CASE m.buffer = Append(mem.buffer, l)
      BY <1>0, <2>1, <3>2, BufferedLine
    <3> QED BY <2>2, <3>1, <3>2
  <2> QED BY <1>0, <1>1, <2>1, <2>2, <2>3, <2>4, <2>5, <2>o DEF Covers
<1> QED BY <1>2, <1>3 DEF GivenUp, Now

LEMMA CoversOpened ==
  ASSUME Types, NEW k \in Keys, NEW m \in MemType, Opened(Now, [d |-> disk, m |-> m], k), NEW lines,
         Covers(disk, mem.entry, lines, mem.buffer), disk.dirty[k] = NoVersion
  PROVE  Covers(disk, m.entry, lines, m.buffer)
<1> DEFINE l == Line("CLEAN", k, mem.entry[k].len)
<1>0. mem.entry \in [Keys -> EntryType] /\ mem.buffer \in Seq(LineType)
  BY DEF Types, MemType
<1>1. l \in LineType /\ l.key = k /\ l.op = "CLEAN"
  BY <1>0 DEF Line, LineType, EntryType
<1>2. /\ m.entry = [mem.entry EXCEPT ![k].editor = Nobody, ![k].readable = TRUE]
      /\ m.buffer \in {mem.buffer, Append(mem.buffer, l)}
  BY DEF Opened, Now
<1> HIDE DEF l
<1>3. m.entry[k].editor \notin Writers /\ \A x \in Keys \ {k} : m.entry[x].editor = mem.entry[x].editor
  <2>1. m.entry = [mem.entry EXCEPT ![k] = [mem.entry[k] EXCEPT !.editor = Nobody, !.readable = TRUE]]
    BY <1>0, <1>2
  <2>2. m.entry[k].editor = Nobody
    BY <1>0, <2>1 DEF EntryType
  <2> QED BY <1>0, <2>1, <2>2, Constants
<1>4. /\ \A x \in Keys : KeepsClean(lines, mem.buffer, x) => KeepsClean(lines, m.buffer, x)
      /\ \A x \in Keys \ {k} : TellsDirty(lines, mem.buffer, x) => TellsDirty(lines, m.buffer, x)
  <2>1. CASE m.buffer = mem.buffer
    BY <2>1
  <2>2. CASE m.buffer = Append(mem.buffer, l)
    BY <1>0, <1>1, <2>2, BufferedLine
  <2> QED BY <1>2, <2>1, <2>2
<1> QED BY <1>3, <1>4 DEF Covers

LEMMA CoversRenamed ==
  ASSUME Types, Types', NEW k \in Keys, Renamed(Now, Then, k), NEW lines,
         Covers(disk, mem.entry, lines, mem.buffer), mem.entry[k].editor \in Writers
  PROVE  Covers(disk', mem'.entry, lines, mem'.buffer)
<1>0. /\ disk.clean \in [Keys -> Versions \cup {NoVersion}] /\ disk.dirty \in [Keys -> Versions \cup {NoVersion}]
      /\ mem.entry \in [Keys -> EntryType]
  BY DEF Types, DirType, MemType
<1>1. /\ disk'.clean = [disk.clean EXCEPT ![k] = TempFile(disk, k)]
      /\ disk'.dirty = [disk.dirty EXCEPT ![k] = NoVersion]
      /\ mem'.entry = [mem.entry EXCEPT ![k].len = 1] /\ mem'.buffer = mem.buffer
  BY DEF Renamed, Now, Then
<1>2. \A x \in Keys : mem'.entry[x].editor = mem.entry[x].editor
  <2>1. mem'.entry = [mem.entry EXCEPT ![k] = [mem.entry[k] EXCEPT !.len = 1]]
    BY <1>0, <1>1
  <2> QED BY <1>0, <2>1 DEF EntryType
<1>3. TellsDirty(lines, mem.buffer, k) /\ KeepsClean(lines, mem.buffer, k)
  BY DirtyIsKept DEF Covers
<1>4. \A x \in Keys \ {k} : disk'.clean[x] = disk.clean[x] /\ disk'.dirty[x] = disk.dirty[x]
  BY <1>0, <1>1
<1> QED BY <1>1, <1>2, <1>3, <1>4 DEF Covers

\* An edit that nobody will end.
LEMMA CoversStuck ==
  ASSUME Types, NEW k \in Keys, StuckBy(mem, mem', k), disk' = disk, NEW lines,
         Covers(disk, mem.entry, lines, mem.buffer)
  PROVE  Covers(disk', mem'.entry, lines, mem'.buffer)
<1>0. mem.entry \in [Keys -> EntryType]
  BY DEF Types, MemType
<1>1. mem'.entry = [mem.entry EXCEPT ![k].editor = Stuck] /\ mem'.buffer = mem.buffer
  BY DEF StuckBy
<1>2. mem'.entry[k].editor \notin Writers
  <2>1. mem'.entry[k].editor = Stuck
    BY <1>0, <1>1 DEF EntryType
  <2> QED BY <2>1, Constants
<1>3. \A x \in Keys \ {k} : mem'.entry[x].editor = mem.entry[x].editor
  BY <1>0, <1>1
<1> QED BY <1>1, <1>2, <1>3 DEF Covers

\* A flush, complete or not.
LEMMA CoversFlushed ==
  ASSUME NEW d \in DirType, NEW m \in MemType, Flushed([d |-> d, m |-> m], Then),
         m.journalWriter = "file", Covers(d, m.entry, d.journal.lines, m.buffer)
  PROVE  Covers(disk', mem'.entry, disk'.journal.lines, mem'.buffer)
<1>0. d.journal.lines \in Seq(LineType) /\ m.buffer \in Seq(LineType)
  BY DEF DirType, FileType, MemType
<1>1. PICK p \in Torn(m.buffer) :
        disk'.journal = [app |-> d.journal.app, lines |-> d.journal.lines \o p]
  BY DEF Flushed, Then
<1>2. /\ disk'.clean = d.clean /\ disk'.dirty = d.dirty /\ mem'.entry = m.entry /\ mem'.buffer = <<>>
      /\ disk'.journal.lines = d.journal.lines \o p
  BY <1>1 DEF Flushed, Then
<1>3. \A k \in Keys :
        /\ KeepsClean(d.journal.lines, m.buffer, k) => KeepsClean(d.journal.lines \o p, <<>>, k)
        /\ TellsDirty(d.journal.lines, m.buffer, k) => TellsDirty(d.journal.lines \o p, <<>>, k)
  BY <1>0, WrittenBuffer
<1> QED BY <1>2, <1>3 DEF Covers

\* DIRTY is in the journal when an edit begins.
LEMMA CoversStarted ==
  ASSUME Types, NEW w \in Writers, NEW k \in Keys, Started(Now, Then, k, w),
         Covers(disk, mem.entry, disk.journal.lines, mem.buffer)
  PROVE  Covers(disk', mem'.entry, disk'.journal.lines, mem'.buffer)
<1> DEFINE l == Line("DIRTY", k, 0)
           c == Append(mem.buffer, l)
           old == disk.journal.lines
<1>0. old \in Seq(LineType) /\ mem.buffer \in Seq(LineType)
  BY DEF Types, DirType, FileType, MemType
<1>1. l \in LineType /\ l.key = k /\ l.op = "DIRTY"
  BY DEF Line, LineType
<1>2. /\ disk'.journal.lines = old \o c /\ disk'.clean = disk.clean /\ disk'.dirty = disk.dirty
      /\ mem'.buffer = <<>> /\ \A x \in Keys \ {k} : mem'.entry[x] = mem.entry[x]
  <2>1. /\ disk'.journal = [app |-> disk.journal.app,
                           lines |-> disk.journal.lines \o Append(mem.buffer, Line("DIRTY", k, 0))]
        /\ disk'.clean = disk.clean /\ disk'.dirty = disk.dirty
        /\ mem'.buffer = <<>> /\ \A x \in Keys \ {k} : mem'.entry[x] = mem.entry[x]
    BY DEF Started, Now, Then
  <2>2. disk'.journal = [app |-> disk.journal.app, lines |-> old \o c]
    BY <2>1
  <2> HIDE DEF old, c
  <2> DEFINE q == old \o c
  <2> HIDE DEF q
  <2>3. disk'.journal.lines = q
    BY <2>2 DEF q
  <2> QED BY <2>1, <2>3 DEF q
<1>3. TellsDirty(old \o c, <<>>, k)
  BY <1>0, LastDirty
<1>4. c \in Seq(LineType)
  BY <1>0, <1>1
<1>5. /\ \A x \in Keys : KeepsClean(old, mem.buffer, x) => KeepsClean(old, c, x)
      /\ \A x \in Keys \ {k} : TellsDirty(old, mem.buffer, x) => TellsDirty(old, c, x)
  <2> HIDE DEF l
  <2> QED BY <1>0, <1>1, BufferedLine
<1> HIDE DEF c, old
<1>6. \A x \in Keys : /\ KeepsClean(old, c, x) => KeepsClean(old \o c, <<>>, x)
                      /\ TellsDirty(old, c, x) => TellsDirty(old \o c, <<>>, x)
  BY <1>0, <1>4, WholeIsTorn, WrittenBuffer
<1> QED BY <1>2, <1>3, <1>5, <1>6 DEF Covers, old

\* DIRTY that may not reach the file, when an edit fails.
LEMMA CoversDirtied ==
  ASSUME Types, NEW k \in Keys, NEW m \in MemType, Dirtied(Now, m, k), NEW lines,
         Covers(disk, mem.entry, lines, mem.buffer)
  PROVE  Covers(disk, m.entry, lines, m.buffer)
<1> DEFINE l == Line("DIRTY", k, 0)
<1>0. mem.buffer \in Seq(LineType)
  BY DEF Types, MemType
<1>1. l \in LineType /\ l.key = k /\ l.op = "DIRTY"
  BY DEF Line, LineType
<1>2. m.entry = mem.entry /\ m.buffer = Append(mem.buffer, l)
  BY DEF Dirtied, Now
<1> HIDE DEF l
<1>3. \A x \in Keys : /\ KeepsClean(lines, mem.buffer, x) => KeepsClean(lines, m.buffer, x)
                      /\ TellsDirty(lines, mem.buffer, x) => TellsDirty(lines, m.buffer, x)
  BY <1>0, <1>1, <1>2, BufferedLine
<1> QED BY <1>2, <1>3 DEF Covers

\* A rebuilt journal covers what the cache knows.
LEMMA CoversCompact ==
  ASSUME Types, Mapped, \A k \in Keys : /\ disk.dirty[k] # NoVersion => mem.entry[k].editor # Nobody
                                        /\ disk.clean[k] # NoVersion => mem.entry[k] # NoEntry
  PROVE  Covers(disk, mem.entry, Compact(mem), <<>>)
<1> DEFINE c == Compact(mem)
<1> HIDE DEF NoEntry
<1>0. mem \in MemType /\ mem.lru \in Seq(Keys) /\ mem.entry \in [Keys -> EntryType]
  BY DEF Types, MemType
<1>1. /\ c \in Seq(LineType) /\ Len(c) = Len(mem.lru)
      /\ \A i \in 1 .. Len(mem.lru) :
           /\ c[i].key = mem.lru[i]
           /\ c[i].op = IF mem.entry[mem.lru[i]].editor # Nobody THEN "DIRTY" ELSE "CLEAN"
  BY <1>0, CompactFacts
<1> HIDE DEF c
<1>2. ASSUME NEW k \in Keys, mem.entry[k] # NoEntry
      PROVE  /\ KeepsClean(c, <<>>, k)
             /\ mem.entry[k].editor # Nobody => TellsDirty(c, <<>>, k)
  <2>1. PICK i \in DOMAIN mem.lru : mem.lru[i] = k
    BY <1>2 DEF Mapped, Contains
  <2>2. DOMAIN c = DOMAIN mem.lru /\ DOMAIN mem.lru = 1 .. Len(mem.lru)
    BY <1>0, <1>1
  <2>3. c[i].key = k /\ c[i].op = IF mem.entry[k].editor # Nobody THEN "DIRTY" ELSE "CLEAN"
    BY <1>1, <2>1, <2>2
  <2>4. \A j \in DOMAIN c : c[j].key = k => j = i
    BY <1>1, <2>1, <2>2 DEF Mapped, Distinct
  <2>5. \A j \in DOMAIN c : ~(j > i /\ c[j].key = k)
    BY <2>2, <2>4
  <2> QED BY <2>2, <2>3, <2>5 DEF KeepsClean, TellsDirty
<1>3. \A k \in Keys : mem.entry[k].editor # Nobody => mem.entry[k] # NoEntry
  BY DEF NoEntry
<1>4. \A k \in Keys : mem.entry[k].editor \in Writers => mem.entry[k].editor # Nobody
  BY Constants
<1> QED BY <1>2, <1>3, <1>4 DEF Covers, c

-----------------------------------------------------------------------------
(* What the cache knows of its files, while nobody publishes. *)

Known(d, e) ==
  \A k \in Keys : /\ d.dirty[k] # NoVersion => e[k].editor # Nobody
                  /\ d.clean[k] # NoVersion => e[k].readable = TRUE \/ e[k].editor = Replayed

LEMMA KnownNow ==
  ASSUME Edits, Knows, Loaded, lock # <<"publish">>
  PROVE  Known(disk, mem.entry)
BY NobodyPublishes DEF Known, Knows

LEMMA KnowsThen ==
  ASSUME Edits', lock' # <<"publish">>, Known(disk', mem'.entry)
  PROVE  Knows'
<1>1. \A k \in Keys : ~Publishing(k)'
  BY DEF Edits, Publishing
<1> QED BY <1>1 DEF Known, Knows

LEMMA KnownRemoved ==
  ASSUME Types, NEW k \in Keys, Removed(Now, Then, k), Known(disk, mem.entry)
  PROVE  Known(disk', mem'.entry)
<1>0. /\ disk.clean \in [Keys -> Versions \cup {NoVersion}] /\ disk.dirty \in [Keys -> Versions \cup {NoVersion}]
      /\ mem.entry \in [Keys -> EntryType]
  BY DEF Types, DirType, MemType
<1>1. /\ disk'.clean = [disk.clean EXCEPT ![k] = NoVersion]
      /\ disk'.dirty = IF mem.entry[k].editor = Nobody THEN disk.dirty
                       ELSE [disk.dirty EXCEPT ![k] = NoVersion]
      /\ mem'.entry = [mem.entry EXCEPT ![k] = NoEntry]
  BY DEF Removed, Now, Then
<1>2. disk'.clean[k] = NoVersion /\ disk'.dirty[k] = NoVersion
  BY <1>0, <1>1 DEF Known
<1> HIDE DEF NoEntry
<1>3. \A x \in Keys \ {k} : /\ disk'.clean[x] = disk.clean[x] /\ disk'.dirty[x] = disk.dirty[x]
                            /\ mem'.entry[x] = mem.entry[x]
  BY <1>0, <1>1
<1> QED BY <1>2, <1>3 DEF Known

LEMMA KnownDetached ==
  ASSUME Types, NEW k \in Keys, Detached(Now, Then, k), Known(disk, mem.entry), mem.entry[k].editor # Replayed
  PROVE  Known(disk', mem'.entry)
<1>0. disk.dirty \in [Keys -> Versions \cup {NoVersion}] /\ mem.entry \in [Keys -> EntryType]
  BY DEF Types, DirType, MemType
<1>1. /\ disk'.clean = disk.clean
      /\ disk'.dirty = IF mem.entry[k].editor = Nobody THEN disk.dirty
                       ELSE [disk.dirty EXCEPT ![k] = NoVersion]
      /\ mem'.entry = [mem.entry EXCEPT ![k].editor = Nobody]
  BY DEF Detached, Now, Then
<1>2. disk'.dirty[k] = NoVersion
  BY <1>0, <1>1 DEF Known
<1>3. mem'.entry[k].readable = mem.entry[k].readable
  BY <1>0, <1>1 DEF EntryType
<1>4. \A x \in Keys \ {k} : disk'.dirty[x] = disk.dirty[x] /\ mem'.entry[x] = mem.entry[x]
  BY <1>0, <1>1
<1> QED BY <1>1, <1>2, <1>3, <1>4 DEF Known

LEMMA KnownSame ==
  ASSUME Known(disk, mem.entry), disk'.clean = disk.clean, disk'.dirty = disk.dirty, mem'.entry = mem.entry
  PROVE  Known(disk', mem'.entry)
BY DEF Known

LEMMA KnownStuck ==
  ASSUME Types, NEW k \in Keys, StuckBy(mem, mem', k), disk' = disk, Known(disk, mem.entry),
         mem.entry[k].editor # Replayed
  PROVE  Known(disk', mem'.entry)
<1>0. mem.entry \in [Keys -> EntryType]
  BY DEF Types, MemType
<1>1. mem'.entry = [mem.entry EXCEPT ![k].editor = Stuck]
  BY DEF StuckBy
<1>2. mem'.entry[k].editor = Stuck /\ mem'.entry[k].readable = mem.entry[k].readable
  BY <1>0, <1>1 DEF EntryType
<1>3. \A x \in Keys \ {k} : mem'.entry[x] = mem.entry[x]
  BY <1>0, <1>1
<1>4. Stuck # Nobody
  BY Constants
<1> QED BY <1>2, <1>3, <1>4 DEF Known

LEMMA KnownStarted ==
  ASSUME Types, NEW k \in Keys, NEW w \in Writers, Started(Now, Then, k, w), Known(disk, mem.entry)
  PROVE  Known(disk', mem'.entry)
<1>1. /\ disk'.clean = disk.clean /\ disk'.dirty = disk.dirty
      /\ mem'.entry[k].editor = w /\ mem'.entry[k].readable = mem.entry[k].readable
      /\ mem.entry[k].editor = Nobody
      /\ \A x \in Keys \ {k} : mem'.entry[x] = mem.entry[x]
  BY DEF Started, Now, Then
<1>2. w # Nobody /\ Nobody # Replayed
  BY Constants
<1> QED BY <1>1, <1>2 DEF Known

LEMMA KnownGivenUp ==
  ASSUME Types, NEW k \in Keys, NEW d \in DirType, NEW m \in MemType,
         GivenUp(Now, [d |-> d, m |-> m], k), Known(disk, mem.entry), mem.entry[k].editor # Replayed
  PROVE  Known(d, m.entry)
<1>0. disk.dirty \in [Keys -> Versions \cup {NoVersion}] /\ mem.entry \in [Keys -> EntryType]
  BY DEF Types, DirType, MemType
<1>1. d.clean = disk.clean /\ d.dirty = [disk.dirty EXCEPT ![k] = NoVersion]
  BY DEF GivenUp, Now
<1>2. d.dirty[k] = NoVersion /\ \A x \in Keys \ {k} : d.dirty[x] = disk.dirty[x]
  BY <1>0, <1>1
<1>3. CASE mem.entry[k].readable = TRUE /\ m.entry = [mem.entry EXCEPT ![k].editor = Nobody]
  <2>1. m.entry[k].readable = TRUE
    BY <1>0, <1>3 DEF EntryType
  <2>2. \A x \in Keys \ {k} : m.entry[x] = mem.entry[x]
    BY <1>0, <1>3
  <2> QED BY <1>1, <1>2, <2>1, <2>2 DEF Known
<1>4. CASE mem.entry[k].readable = FALSE /\ m.entry = [mem.entry EXCEPT ![k] = NoEntry]
  <2>1. d.clean[k] = NoVersion
    BY <1>1, <1>4 DEF Known
  <2> HIDE DEF NoEntry
  <2>2. \A x \in Keys \ {k} : m.entry[x] = mem.entry[x]
    BY <1>0, <1>4
  <2> QED BY <1>1, <1>2, <2>1, <2>2 DEF Known
<1> QED BY <1>3, <1>4 DEF GivenUp, Now

LEMMA FlushedKeeps ==
  ASSUME NEW d, NEW m, Flushed([d |-> d, m |-> m], Then)
  PROVE  /\ disk'.clean = d.clean /\ disk'.dirty = d.dirty /\ SameLeft(d, disk') /\ mem'.entry = m.entry
         /\ disk'.backup = d.backup /\ disk'.temp = d.temp /\ mem'.initialized = m.initialized
         /\ mem'.buffer \in {m.buffer, <<>>}
<1>1. CASE disk' = d /\ Alike(m, mem')
  BY <1>1 DEF Alike, SameLeft
<1>2. ASSUME NEW p, disk'.journal = p, disk'.clean = d.clean, disk'.dirty = d.dirty, mem'.entry = m.entry,
             disk'.backup = d.backup, disk'.temp = d.temp, mem'.initialized = m.initialized, mem'.buffer = <<>>,
             SameLeft(d, disk')
      PROVE  /\ disk'.clean = d.clean /\ disk'.dirty = d.dirty /\ SameLeft(d, disk') /\ mem'.entry = m.entry
             /\ disk'.backup = d.backup /\ disk'.temp = d.temp /\ mem'.initialized = m.initialized
             /\ mem'.buffer \in {m.buffer, <<>>}
  BY <1>2
<1> QED BY <1>1, <1>2 DEF Flushed, Then

-----------------------------------------------------------------------------
(* The journal while the cache is in use. *)

\* The lock is free or held for something else than a new journal.
InUse(l) == /\ ~Rebuilding(l, "done")
            /\ l = <<>> \/ Head(l) \notin {"read", "wipe", "backup", "swap", "drop", "done"}

LEMMA UsedLock ==
  /\ InUse(<<>>) /\ InUse(<<"trim", "compact">>) /\ InUse(<<"compact">>) /\ InUse(<<"publish">>)
  /\ InUse(<<"evict">>) /\ InUse(<<"process">>) /\ InUse(Rebuild("process")) /\ InUse(Rebuild("reset"))
<1>1. /\ ~Rebuilding(<<>>, "done") /\ ~Rebuilding(<<"trim", "compact">>, "done")
      /\ ~Rebuilding(<<"compact">>, "done") /\ ~Rebuilding(<<"publish">>, "done")
      /\ ~Rebuilding(<<"evict">>, "done") /\ ~Rebuilding(<<"process">>, "done")
  BY DEF Rebuilding
<1>2. ~Rebuilding(Rebuild("process"), "done") /\ ~Rebuilding(Rebuild("reset"), "done")
  BY DEF Rebuilding, Rebuild
<1>3. /\ Head(<<"trim", "compact">>) = "trim" /\ Head(<<"compact">>) = "compact"
      /\ Head(<<"publish">>) = "publish" /\ Head(<<"evict">>) = "evict"
      /\ Head(<<"process">>) = "process"
  OBVIOUS
<1>4. Head(Rebuild("process")) = "close" /\ Head(Rebuild("reset")) = "close"
  BY DEF Rebuild
<1> QED BY <1>1, <1>2, <1>3, <1>4 DEF InUse

\* A journal of this version of the application is a file.
LEMMA RealJournal ==
  ASSUME Types
  PROVE  /\ disk.journal.app = app => OnDisk = disk.journal /\ disk.journal # NoFile
         /\ OnDisk.app = app => OnDisk # NoFile
         /\ NoFile.app # app
BY DEF Types, OnDisk, NoFile

LEMMA JournalWorks ==
  ASSUME Types', InUse(lock'),
         OnDisk'.app = app', Covers(disk', mem'.entry, OnDisk'.lines, mem'.buffer),
         mem'.journalWriter = "file" => disk'.journal.app = app'
  PROVE  Journaled'
<1>1. (NoFile.app)' # app'
  BY DEF Types, NoFile
<1>2. /\ ~(At("read"))' /\ ~(At("wipe"))' /\ ~(At("backup"))' /\ ~(At("swap"))' /\ ~(At("drop"))'
      /\ ~(At("done"))' /\ ~Rebuilding(lock', "done")
  BY DEF At, Free, InUse
<1>3. OnDisk' # NoFile
  BY <1>1
<1> HIDE DEF NoFile
<1> QED BY <1>2, <1>3 DEF Journaled

\* Steps that leave the journal files alone.
LEMMA QuietStep ==
  ASSUME Base, Types', Journaled, Loaded, InUse(lock), InUse(lock'), app' = app, SameJournal(disk, disk'),
         mem'.journalWriter = mem.journalWriter,
         Covers(disk, mem.entry, OnDisk.lines, mem.buffer)
           => Covers(disk', mem'.entry, OnDisk.lines, mem'.buffer)
  PROVE  Journaled'
<1>1. OnDisk' = OnDisk /\ disk'.journal = disk.journal
  BY DEF SameJournal, OnDisk
<1>2. OnDisk.app = app
  BY DEF Journaled
<1>3. Covers(disk', mem'.entry, OnDisk.lines, mem'.buffer)
  BY <1>2 DEF Journaled
<1>4. ~At("swap")
  BY DEF At, Free, InUse
<1>5. mem'.journalWriter = "file" => disk'.journal.app = app'
  BY <1>1, <1>4 DEF Journaled
<1> QED BY <1>1, <1>2, <1>3, <1>5, JournalWorks

\* Steps that end in a flush.
LEMMA FlushedStep ==
  ASSUME Base, Types', Journaled, Loaded, InUse(lock), InUse(lock'), app' = app,
         NEW d \in DirType, NEW m \in MemType, SameJournal(disk, d), m.journalWriter = mem.journalWriter,
         Flushed([d |-> d, m |-> m], Then),
         Covers(disk, mem.entry, OnDisk.lines, mem.buffer) => Covers(d, m.entry, OnDisk.lines, m.buffer)
  PROVE  Journaled'
<1>0. Types
  BY DEF Base
<1>1. OnDisk.app = app /\ Covers(d, m.entry, OnDisk.lines, m.buffer)
  BY DEF Journaled
<1>2. mem.journalWriter = "file" => disk.journal.app = app
  <2>1. ~At("swap")
    BY DEF At, Free, InUse
  <2> QED BY <2>1 DEF Journaled
<1>3. CASE mem.journalWriter # "file"
  <2>1. disk' = d /\ Alike(m, mem')
    BY <1>3 DEF Flushed, Then
  <2>2. OnDisk' = OnDisk
    BY <2>1 DEF SameJournal, OnDisk
  <2>3. Covers(disk', mem'.entry, OnDisk.lines, mem'.buffer) /\ mem'.journalWriter # "file"
    BY <1>1, <1>3, <2>1 DEF Alike
  <2> QED BY <1>0, <1>1, <2>2, <2>3, JournalWorks
<1>4. CASE mem.journalWriter = "file"
  <2>1. OnDisk = disk.journal /\ disk.journal = d.journal /\ d.journal.app = app
    BY <1>0, <1>2, <1>4, RealJournal DEF SameJournal
  <2>2. Covers(disk', mem'.entry, disk'.journal.lines, mem'.buffer)
    BY <1>1, <1>4, <2>1, CoversFlushed
  <2>3. disk'.journal.app = app
    <3>1. PICK p : disk'.journal = [app |-> d.journal.app, lines |-> p]
      BY <1>4 DEF Flushed, Then
    <3> QED BY <2>1, <3>1
  <2>4. OnDisk' = disk'.journal
    <3>1. app' # 0
      BY DEF Types
    <3> QED BY <2>3, <3>1 DEF OnDisk, NoFile
  <2> QED BY <1>0, <2>2, <2>3, <2>4, JournalWorks
<1> QED BY <1>3, <1>4

\* Steps that read, remove or detach an entry, or change no file.
LEMMA CalmJournal ==
  ASSUME Base, Base', Journaled, Knows, mem.initialized = TRUE, InUse(lock), InUse(lock'),
         lock # <<"publish">>, lock' # <<"publish">>, app' = app,
         \/ \E k \in Keys : Removed(Now, Then, k) \/ Detached(Now, Then, k) \/ Looked(Now, Then, k)
         \/ disk' = disk /\ Alike(mem, mem')
  PROVE  Journaled' /\ Knows'
<1>0. Types /\ Types' /\ Edits /\ Edits' /\ Loaded /\ \A k \in Keys : mem.entry[k].editor # Replayed
  BY DEF Base, Edits, Loaded
<1>1. Known(disk, mem.entry)
  BY <1>0, KnownNow
<1>2. ASSUME mem'.initialized = TRUE, SameJournal(disk, disk'), mem'.journalWriter = mem.journalWriter,
             \A lines : Covers(disk, mem.entry, lines, mem.buffer)
                          => Covers(disk', mem'.entry, lines, mem'.buffer),
             Known(disk', mem'.entry)
      PROVE  Journaled' /\ Knows'
  BY <1>0, <1>2, QuietStep, KnowsThen
<1>3. ASSUME NEW k \in Keys, Removed(Now, Then, k) PROVE Journaled' /\ Knows'
  <2>1. mem'.initialized = TRUE /\ SameJournal(disk, disk') /\ mem'.journalWriter = mem.journalWriter
    BY <1>3 DEF Removed, Now, Then
  <2>2. disk.dirty[k] # NoVersion => mem.entry[k].editor # Nobody
    BY <1>1 DEF Known
  <2>3. \A lines : Covers(disk, mem.entry, lines, mem.buffer)
                     => Covers(disk', mem'.entry, lines, mem'.buffer)
    BY <1>0, <1>3, <2>2, CoversRemoved
  <2>4. Known(disk', mem'.entry)
    BY <1>0, <1>1, <1>3, KnownRemoved
  <2> QED BY <1>2, <2>1, <2>3, <2>4
<1>4. ASSUME NEW k \in Keys, Detached(Now, Then, k) PROVE Journaled' /\ Knows'
  <2>1. mem'.initialized = TRUE /\ SameJournal(disk, disk') /\ mem'.journalWriter = mem.journalWriter
    BY <1>4 DEF Detached, Now, Then
  <2>2. disk.dirty[k] # NoVersion => mem.entry[k].editor # Nobody
    BY <1>1 DEF Known
  <2>3. \A lines : Covers(disk, mem.entry, lines, mem.buffer)
                     => Covers(disk', mem'.entry, lines, mem'.buffer)
    BY <1>0, <1>4, <2>2, CoversDetached
  <2>4. Known(disk', mem'.entry)
    BY <1>0, <1>1, <1>4, KnownDetached
  <2> QED BY <1>2, <2>1, <2>3, <2>4
<1>5. ASSUME NEW k \in Keys, Looked(Now, Then, k) PROVE Journaled' /\ Knows'
  <2>1. /\ mem'.initialized = TRUE /\ SameJournal(disk, disk') /\ mem'.journalWriter = mem.journalWriter
        /\ disk' = disk /\ mem'.entry = mem.entry
    BY <1>5 DEF Looked, Now, Then, SameJournal
  <2>2. \A lines : Covers(disk, mem.entry, lines, mem.buffer)
                     => Covers(disk', mem'.entry, lines, mem'.buffer)
    BY <1>0, <1>5, CoversLooked
  <2>3. Known(disk', mem'.entry)
    BY <1>1, <2>1, KnownSame
  <2> QED BY <1>2, <2>1, <2>2, <2>3
<1>6. CASE disk' = disk /\ Alike(mem, mem')
  <2>1. /\ mem'.initialized = TRUE /\ SameJournal(disk, disk') /\ mem'.journalWriter = mem.journalWriter
        /\ mem'.entry = mem.entry /\ mem'.buffer = mem.buffer
    BY <1>6 DEF Alike, SameJournal
  <2>2. Known(disk', mem'.entry)
    BY <1>1, <1>6, <2>1, KnownSame
  <2> QED BY <1>2, <1>6, <2>1, <2>2
<1> QED BY <1>3, <1>4, <1>5, <1>6

LEMMA StartedJournal ==
  ASSUME Base, Base', Journaled, Knows, mem.initialized = TRUE, Free, lock' = lock, app' = app,
         NEW k \in Keys, NEW w \in Writers, Started(Now, Then, k, w)
  PROVE  Journaled' /\ Knows'
<1>0. Types /\ Types' /\ Edits /\ Edits' /\ Loaded /\ lock = <<>> /\ InUse(lock) /\ ~At("swap")
  BY UsedLock DEF Base, Loaded, Free, At
<1>1. mem.journalWriter = "file" /\ disk.journal.app = app /\ OnDisk = disk.journal
  <2>1. mem.journalWriter = "file"
    BY DEF Started, Now
  <2> QED BY <1>0, <2>1, RealJournal DEF Journaled
<1>2. Covers(disk', mem'.entry, disk'.journal.lines, mem'.buffer)
  <2>1. Covers(disk, mem.entry, disk.journal.lines, mem.buffer)
    BY <1>1 DEF Journaled
  <2> QED BY <1>0, <2>1, CoversStarted
<1>3. disk'.journal.app = app' /\ mem'.initialized = TRUE
  <2>1. PICK p : disk'.journal = [app |-> disk.journal.app, lines |-> p]
    BY DEF Started, Now, Then
  <2>2. mem'.initialized = TRUE
    BY DEF Started, Now, Then
  <2> QED BY <1>1, <2>1, <2>2
<1>4. OnDisk' = disk'.journal
  <2>1. app' # 0
    BY <1>0 DEF Types
  <2> QED BY <1>3, <2>1 DEF OnDisk, NoFile
<1>5. Journaled'
  BY <1>0, <1>2, <1>3, <1>4, JournalWorks
<1>6. Known(disk', mem'.entry)
  BY <1>0, KnownNow, KnownStarted
<1> QED BY <1>0, <1>5, <1>6, KnowsThen

LEMMA EditFailsJournal ==
  ASSUME Base, Base', Journaled, Knows, NEW w \in Writers, NEW k \in Keys, editFails(w, k)
  PROVE  Journaled' /\ Knows'
<1>0. /\ Types /\ Types' /\ Edits /\ Edits' /\ mem.initialized = TRUE /\ Loaded /\ Distinct(mem.lru)
      /\ lock = <<>> /\ lock' = <<>> /\ InUse(lock) /\ app' = app /\ disk \in DirType
  BY UsedLock DEF Base, Types, MemType, Mapped, editFails, Ready, Free, Loaded
<1>1. PICK m \in MemType : Dirtied(Now, m, k) /\ Flushed([d |-> disk, m |-> m], Then)
  BY <1>0, EditFailsEffect
<1>2. /\ m.journalWriter = mem.journalWriter /\ m.initialized = TRUE /\ m.entry = mem.entry
      /\ SameJournal(disk, disk)
  BY <1>0, <1>1 DEF Dirtied, Now, SameJournal
<1>3. Covers(disk, mem.entry, OnDisk.lines, mem.buffer) => Covers(disk, m.entry, OnDisk.lines, m.buffer)
  BY <1>0, <1>1, CoversDirtied
<1>4. Journaled'
  BY <1>0, <1>1, <1>2, <1>3, FlushedStep
<1>5. Known(disk', mem'.entry)
  <2>1. disk'.clean = disk.clean /\ disk'.dirty = disk.dirty /\ mem'.entry = mem.entry
    BY <1>1, <1>2, FlushedKeeps
  <2> QED BY <1>0, <2>1, KnownNow, KnownSame
<1> QED BY <1>0, <1>4, <1>5, KnowsThen

LEMMA AbortJournal ==
  ASSUME Base, Base', Journaled, Knows, NEW w \in Writers, writer[w].pc # "idle", Free, lock' = lock,
         app' = app, FinishEdit(Aborted(w))
  PROVE  Journaled' /\ Knows'
<1> DEFINE k == writer[w].key
<1>0. /\ Types /\ Types' /\ Edits /\ Edits' /\ writer[w].own = <<>> /\ k \in Keys
      /\ lock = <<>> /\ lock' = <<>> /\ InUse(lock)
  BY UsedLock DEF Base, Types, Edits, Free
<1>1. mem.initialized = TRUE /\ Loaded /\ mem.entry[k].editor # Replayed
  <2>1. mem.initialized = TRUE
    BY DEF Base, Locked, Types, MemType, Resting
  <2> QED BY <1>0, <2>1 DEF Loaded, Edits
<1>2. PICK d \in DirType, m \in MemType :
        GivenUp(Now, [d |-> d, m |-> m], k) /\ Flushed([d |-> d, m |-> m], Then)
  BY <1>0, AbortEffect
<1>3. SameJournal(disk, d) /\ m.journalWriter = mem.journalWriter /\ m.initialized = TRUE
  BY <1>1, <1>2 DEF GivenUp, Now
<1>4. Known(disk, mem.entry)
  BY <1>0, <1>1, KnownNow
<1> HIDE DEF k
<1>5. mem.entry[k].readable = FALSE => disk.clean[k] = NoVersion
  BY <1>0, <1>1, <1>4 DEF Known
<1>6. Covers(disk, mem.entry, OnDisk.lines, mem.buffer) => Covers(d, m.entry, OnDisk.lines, m.buffer)
  BY <1>0, <1>2, <1>5, CoversGivenUp
<1>7. Journaled'
  BY <1>0, <1>1, <1>2, <1>3, <1>6, FlushedStep
<1>8. Known(disk', mem'.entry)
  <2>1. Known(d, m.entry)
    BY <1>0, <1>1, <1>2, <1>4, KnownGivenUp
  <2>2. disk'.clean = d.clean /\ disk'.dirty = d.dirty /\ mem'.entry = m.entry
    BY <1>2, FlushedKeeps
  <2> QED BY <2>1, <2>2 DEF Known
<1> QED BY <1>0, <1>7, <1>8, KnowsThen

\* commit() keeps the lock for the journal.
LEMMA PublishingOne ==
  ASSUME Edits, NEW w \in Writers, writer[w].pc = "publish"
  PROVE  Publishing(writer[w].key) /\ \A x \in Keys : Publishing(x) => x = writer[w].key
BY DEF Edits, Publishing

LEMMA CommitJournal ==
  ASSUME Base, Base', Journaled, Knows, NEW w \in Writers, commit(w)
  PROVE  Journaled' /\ Knows'
<1> DEFINE k == writer[w].key
<1>0. /\ Types /\ Types' /\ Edits /\ Edits' /\ writer[w].own = <<>> /\ k \in Keys /\ writer[w].pc # "idle"
      /\ lock = <<>> /\ InUse(lock) /\ app' = app /\ Free
  BY UsedLock DEF Base, Types, Edits, Free, commit
<1>1. /\ mem.initialized = TRUE /\ Loaded /\ mem.entry[k].editor # Replayed
      /\ disk.clean \in [Keys -> Versions \cup {NoVersion}] /\ disk.dirty \in [Keys -> Versions \cup {NoVersion}]
      /\ mem.entry \in [Keys -> EntryType]
  <2>1. mem.initialized = TRUE
    BY <1>0 DEF Base, Locked, Types, MemType, Resting
  <2> QED BY <1>0, <2>1 DEF Loaded, Edits, Types, DirType, MemType
<1>2. Known(disk, mem.entry)
  BY <1>0, <1>1, KnownNow
<1>3. \/ disk' = disk /\ mem' = mem /\ lock' = lock
      \/ FinishEdit(Aborted(w)) /\ lock' = lock
      \/ /\ lock' = <<"publish">> /\ Renamed(Now, Then, k)
         /\ Moved(w, "publish") /\ mem.entry[k].editor = w
      \/ /\ TempFile(disk, k) = NoVersion /\ lock' = <<"publish">> /\ disk' = disk /\ mem' = mem
         /\ Moved(w, "publish") /\ mem.entry[k].editor = w
  BY <1>0, CommitEffect
<1>4. CASE disk' = disk /\ mem' = mem /\ lock' = lock
  BY <1>0, <1>1, <1>4, CalmJournal DEF Alike
<1>5. CASE FinishEdit(Aborted(w)) /\ lock' = lock
  BY <1>0, <1>5, AbortJournal
<1>6. ASSUME lock' = <<"publish">>, SameJournal(disk, disk'), Moved(w, "publish"),
             mem'.initialized = TRUE, mem'.journalWriter = mem.journalWriter,
             \A lines : Covers(disk, mem.entry, lines, mem.buffer)
                          => Covers(disk', mem'.entry, lines, mem'.buffer),
             disk'.dirty[k] = NoVersion,
             \A x \in Keys \ {k} : /\ disk'.clean[x] = disk.clean[x] /\ disk'.dirty[x] = disk.dirty[x]
                                   /\ mem'.entry[x] = mem.entry[x]
      PROVE  Journaled' /\ Knows'
  <2>1. Journaled'
    BY <1>0, <1>1, <1>6, QuietStep, UsedLock
  <2>2. writer'[w].pc = "publish" /\ writer'[w].key = k
    BY <1>6 DEF Moved
  <2>3. \A x \in Keys : Publishing(x)' <=> x = k
    BY <1>0, <2>2 DEF Edits, Publishing
  <2> HIDE DEF k
  <2>4. ASSUME NEW x \in Keys
        PROVE  /\ disk'.dirty[x] # NoVersion => mem'.entry[x].editor # Nobody
               /\ disk'.clean[x] # NoVersion =>
                    mem'.entry[x].readable = TRUE \/ mem'.entry[x].editor = Replayed \/ Publishing(x)'
               /\ Publishing(x)' => disk'.dirty[x] = NoVersion
    <3>1. CASE x = k
      BY <1>6, <2>3, <3>1
    <3>2. CASE x # k
      BY <1>2, <1>6, <2>3, <3>2 DEF Known
    <3> QED BY <3>1, <3>2
  <2>5. Knows'
    BY <2>4 DEF Knows
  <2> QED BY <2>1, <2>5
<1> HIDE DEF k
<1>7. CASE /\ lock' = <<"publish">> /\ Renamed(Now, Then, k)
           /\ Moved(w, "publish") /\ mem.entry[k].editor = w
  <2>1. /\ SameJournal(disk, disk') /\ mem'.initialized = TRUE /\ mem'.journalWriter = mem.journalWriter
        /\ disk'.clean = [disk.clean EXCEPT ![k] = TempFile(disk, k)]
        /\ disk'.dirty = [disk.dirty EXCEPT ![k] = NoVersion]
        /\ mem'.entry = [mem.entry EXCEPT ![k].len = 1]
    BY <1>1, <1>7 DEF Renamed, Now, Then
  <2>2. /\ disk'.dirty[k] = NoVersion
        /\ \A x \in Keys \ {k} : /\ disk'.clean[x] = disk.clean[x] /\ disk'.dirty[x] = disk.dirty[x]
                                 /\ mem'.entry[x] = mem.entry[x]
    BY <1>0, <1>1, <2>1
  <2>3. \A lines : Covers(disk, mem.entry, lines, mem.buffer)
                     => Covers(disk', mem'.entry, lines, mem'.buffer)
    BY <1>0, <1>7, CoversRenamed
  <2> QED BY <1>6, <1>7, <2>1, <2>2, <2>3
<1>8. CASE /\ TempFile(disk, k) = NoVersion /\ lock' = <<"publish">> /\ disk' = disk /\ mem' = mem
           /\ Moved(w, "publish")
  <2>1. disk.dirty[k] = NoVersion
    BY <1>8 DEF TempFile
  <2> QED BY <1>1, <1>6, <1>8, <2>1 DEF SameJournal
<1> QED BY <1>3, <1>4, <1>5, <1>7, <1>8

LEMMA PublishJournal ==
  ASSUME Base, Base', Journaled, Knows, NEW w \in Writers, publish(w)
  PROVE  Journaled' /\ Knows'
<1> DEFINE k == writer[w].key
<1>0. /\ Types /\ Types' /\ Edits /\ Edits' /\ writer[w].own = <<>> /\ k \in Keys /\ writer[w].pc = "publish"
      /\ app' = app /\ disk \in DirType /\ mem.entry \in [Keys -> EntryType]
  BY DEF Base, Types, Edits, MemType, publish
<1>1. lock = <<"publish">> /\ lock' = <<>> /\ mem.initialized = TRUE /\ Loaded /\ InUse(lock) /\ InUse(lock')
  <2>1. lock = <<"publish">> /\ lock' = <<>> /\ mem.initialized = TRUE
    BY <1>0, HeldFor DEF Base, publish
  <2> QED BY <2>1, UsedLock DEF Loaded
<1>2. PICK m \in MemType :
        Opened(Now, [d |-> disk, m |-> m], k) /\ Flushed([d |-> disk, m |-> m], Then)
  BY <1>0, PublishEffect
<1>3. /\ SameJournal(disk, disk) /\ m.journalWriter = mem.journalWriter /\ m.initialized = TRUE
      /\ m.entry = [mem.entry EXCEPT ![k].editor = Nobody, ![k].readable = TRUE]
  BY <1>1, <1>2 DEF Opened, Now, SameJournal
<1>4. Publishing(k) /\ \A x \in Keys : Publishing(x) => x = k
  BY <1>0, PublishingOne
<1>5. disk.dirty[k] = NoVersion
  BY <1>0, <1>1, <1>4 DEF Knows
<1> HIDE DEF k
<1>6. Covers(disk, mem.entry, OnDisk.lines, mem.buffer) => Covers(disk, m.entry, OnDisk.lines, m.buffer)
  BY <1>0, <1>2, <1>5, CoversOpened
<1>7. Journaled'
  BY <1>0, <1>1, <1>2, <1>3, <1>6, FlushedStep
<1>8. Known(disk', mem'.entry)
  <2>1. disk'.clean = disk.clean /\ disk'.dirty = disk.dirty /\ mem'.entry = m.entry
    BY <1>2, FlushedKeeps
  <2>2. m.entry = [mem.entry EXCEPT ![k] = [mem.entry[k] EXCEPT !.editor = Nobody, !.readable = TRUE]]
    BY <1>0, <1>3
  <2>3. m.entry[k].readable = TRUE
    BY <1>0, <2>2 DEF EntryType
  <2>4. \A x \in Keys \ {k} : m.entry[x] = mem.entry[x]
    BY <1>0, <2>2
  <2>5. \A x \in Keys \ {k} : /\ disk.dirty[x] # NoVersion => mem.entry[x].editor # Nobody
                              /\ disk.clean[x] # NoVersion =>
                                   mem.entry[x].readable = TRUE \/ mem.entry[x].editor = Replayed
    BY <1>1, <1>4 DEF Knows
  <2> QED BY <1>5, <2>1, <2>3, <2>4, <2>5 DEF Known
<1>9. lock' # <<"publish">>
  BY <1>1
<1> QED BY <1>0, <1>7, <1>8, <1>9, KnowsThen

\* The first bytes of an edit, and a commit() that failed: files whose edit the journal knows.
LEMMA SinkJournal ==
  ASSUME Base, Base', Journaled, Knows, NEW w \in Writers, newSink(w) \/ commitFails(w)
  PROVE  Journaled' /\ Knows'
<1> DEFINE k == writer[w].key
<1>0. /\ Types /\ Types' /\ Edits /\ Edits' /\ writer[w].own = <<>> /\ k \in Keys /\ writer[w].pc # "idle"
      /\ lock = <<>> /\ lock' = <<>> /\ InUse(lock) /\ app' = app /\ mem' = mem /\ disk \in DirType
      /\ writer[w].ver \in Versions
  BY UsedLock DEF Base, Types, Edits, Free, newSink, commitFails
<1>1. /\ mem.initialized = TRUE /\ Loaded
      /\ disk.clean \in [Keys -> Versions \cup {NoVersion}] /\ disk.dirty \in [Keys -> Versions \cup {NoVersion}]
  <2>1. mem.initialized = TRUE
    BY <1>0 DEF Base, Locked, Types, MemType, Resting
  <2> QED BY <1>0, <2>1 DEF Loaded, DirType
<1>2. Known(disk, mem.entry)
  BY <1>0, <1>1, KnownNow
<1>3. /\ SameJournal(disk, disk')
      /\ \/ disk' = disk
         \/ /\ disk'.dirty = [disk.dirty EXCEPT ![k] = writer[w].ver] /\ disk'.clean = disk.clean
            /\ mem.entry[k].editor = w
         \/ disk'.clean = [disk.clean EXCEPT ![k] = NoVersion] /\ disk'.dirty = disk.dirty
  <2>1. CASE newSink(w)
    <3>1. Current(w) => mem.entry[k].editor = w
      BY <1>0 DEF Current
    <3> QED BY <1>0, <2>1, <3>1, SinkEffect
  <2>2. CASE commitFails(w)
    <3>1. disk' = [disk EXCEPT !.clean[k] = NoVersion]
      BY <2>2 DEF commitFails
    <3> QED BY <1>0, <3>1 DEF DirType, SameJournal
  <2> QED BY <2>1, <2>2
<1> HIDE DEF k
<1>4. ASSUME SameJournal(disk, disk'),
             \A lines : Covers(disk, mem.entry, lines, mem.buffer)
                          => Covers(disk', mem'.entry, lines, mem'.buffer),
             Known(disk', mem'.entry)
      PROVE  Journaled' /\ Knows'
  BY <1>0, <1>1, <1>4, QuietStep, KnowsThen
<1>5. CASE disk' = disk
  BY <1>0, <1>2, <1>4, <1>5 DEF SameJournal
<1>6. CASE /\ disk'.dirty = [disk.dirty EXCEPT ![k] = writer[w].ver] /\ disk'.clean = disk.clean
           /\ mem.entry[k].editor = w
  <2>1. \A x \in Keys \ {k} : disk'.dirty[x] = disk.dirty[x]
    BY <1>1, <1>6
  <2>2. w # Nobody
    BY Constants
  <2>3. Known(disk', mem'.entry)
    BY <1>0, <1>2, <1>6, <2>1, <2>2 DEF Known
  <2>4. \A lines : Covers(disk, mem.entry, lines, mem.buffer)
                     => Covers(disk', mem'.entry, lines, mem'.buffer)
    BY <1>0, <1>6, <2>1 DEF Covers
  <2> QED BY <1>3, <1>4, <2>3, <2>4
<1>7. CASE disk'.clean = [disk.clean EXCEPT ![k] = NoVersion] /\ disk'.dirty = disk.dirty
  <2>1. disk'.clean[k] = NoVersion /\ \A x \in Keys \ {k} : disk'.clean[x] = disk.clean[x]
    BY <1>0, <1>1, <1>7
  <2>2. Known(disk', mem'.entry)
    BY <1>0, <1>2, <1>7, <2>1 DEF Known
  <2>3. \A lines : Covers(disk, mem.entry, lines, mem.buffer)
                     => Covers(disk', mem'.entry, lines, mem'.buffer)
    BY <1>0, <1>7, <2>1 DEF Covers
  <2> QED BY <1>3, <1>4, <2>2, <2>3
<1> QED BY <1>3, <1>5, <1>6, <1>7

-----------------------------------------------------------------------------
(* Opening the cache. *)

\* What readJournal makes of a journal that covers the files.
LEMMA ReplayKnows ==
  ASSUME NEW lines \in Seq(LineType), NEW k \in Keys
  PROVE  /\ KeepsClean(lines, <<>>, k) =>
              /\ LinesOf(lines, k) # {}
              /\ Replay(lines)[k].readable = TRUE \/ Replay(lines)[k].editor = Replayed
         /\ TellsDirty(lines, <<>>, k) => Replay(lines)[k].editor = Replayed
<1> DEFINE e == Replay(lines)[k]
           S == LinesOf(lines, k)
<1>0. DOMAIN lines = 1 .. Len(lines) /\ Len(lines) \in Nat
  OBVIOUS
<1>1. /\ e.editor = Replayed <=>
           \E i \in S : lines[i].op = "DIRTY" /\ \A j \in S : lines[j].op = "CLEAN" => j < i
      /\ e.readable = TRUE <=> \E i \in S : lines[i].op = "CLEAN"
  BY ReplayFacts
<1>2. \A i : i \in S <=> /\ i \in DOMAIN lines /\ lines[i].key = k
                         /\ \A j \in i .. Len(lines) : lines[j].op = "REMOVE" => lines[j].key # k
  BY DEF LinesOf
<1> HIDE DEF e, S
<1>3. ASSUME KeepsClean(lines, <<>>, k) PROVE S # {} /\ (e.readable = TRUE \/ e.editor = Replayed)
  <2>1. PICK i \in DOMAIN lines :
          /\ lines[i].key = k /\ lines[i].op \in {"DIRTY", "CLEAN"}
          /\ \A j \in DOMAIN lines : j > i /\ lines[j].key = k => lines[j].op # "REMOVE"
    BY <1>3 DEF KeepsClean
  <2>2. \A j \in i .. Len(lines) : lines[j].op = "REMOVE" => lines[j].key # k
    <3> SUFFICES ASSUME NEW j \in i .. Len(lines), lines[j].key = k PROVE lines[j].op # "REMOVE"
      OBVIOUS
    <3>1. j \in DOMAIN lines /\ (j = i \/ j > i)
      BY <1>0
    <3> QED BY <2>1, <3>1
  <2>3. i \in S
    BY <1>2, <2>1, <2>2
  <2>4. CASE \E j \in S : lines[j].op = "CLEAN"
    BY <1>1, <2>3, <2>4
  <2>5. CASE ~\E j \in S : lines[j].op = "CLEAN"
    BY <1>1, <2>1, <2>3, <2>5
  <2> QED BY <2>4, <2>5
<1>4. ASSUME TellsDirty(lines, <<>>, k) PROVE e.editor = Replayed
  <2>1. PICK i \in DOMAIN lines :
          /\ lines[i].key = k /\ lines[i].op = "DIRTY"
          /\ \A j \in DOMAIN lines : j > i /\ lines[j].key = k => lines[j].op \notin {"CLEAN", "REMOVE"}
    BY <1>4 DEF TellsDirty
  <2>2. \A j \in i .. Len(lines) : lines[j].op = "REMOVE" => lines[j].key # k
    <3> SUFFICES ASSUME NEW j \in i .. Len(lines), lines[j].key = k PROVE lines[j].op # "REMOVE"
      OBVIOUS
    <3>1. j \in DOMAIN lines /\ (j = i \/ j > i)
      BY <1>0
    <3> QED BY <2>1, <3>1
  <2>3. i \in S
    BY <1>2, <2>1, <2>2
  <2>4. \A j \in S : lines[j].op = "CLEAN" => j < i
    <3> SUFFICES ASSUME NEW j \in S, lines[j].op = "CLEAN" PROVE j < i
      OBVIOUS
    <3>1. j \in DOMAIN lines /\ lines[j].key = k
      BY <1>2
    <3>2. j # i /\ ~(j > i)
      BY <2>1, <3>1
    <3> QED BY <1>0, <3>1, <3>2
  <2> QED BY <1>1, <2>1, <2>3, <2>4
<1> QED BY <1>3, <1>4 DEF e, S

\* The cache is closed, or its journal has not been read.
LEMMA JournalWaits ==
  ASSUME ~Loaded', mem'.journalWriter # "file", lock' \in {<<>>, <<"read">>},
         OnDisk'.app = app' => Covers(disk', mem'.entry, OnDisk'.lines, mem'.buffer),
         OnDisk' = NoFile => NoFiles',
         lock' = <<"read">> => disk'.backup = NoFile
  PROVE  Journaled' /\ Knows'
<1>1. ~Rebuilding(lock', "done")
  BY DEF Rebuilding
<1>2. lock' # <<>> => lock' = <<"read">> /\ Head(lock') = "read"
  OBVIOUS
<1>3. /\ ~At("wipe")' /\ ~At("backup")' /\ ~At("swap")' /\ ~At("drop")' /\ ~At("done")'
      /\ At("read")' => lock' = <<"read">>
  BY <1>2 DEF At, Free
<1> HIDE DEF NoFile
<1> QED BY <1>1, <1>3 DEF Journaled, Knows

LEMMA InitializeJournal ==
  ASSUME Base, Base', Journaled, initialize
  PROVE  Journaled' /\ Knows'
<1>0. /\ Types /\ disk \in DirType /\ lock = <<>> /\ lock' = <<"read">> /\ mem' = mem /\ app' = app
      /\ mem.initialized = FALSE
  BY DEF Base, Types, MemType, initialize, Free
<1>1. ~Loaded /\ ~Loaded'
  BY <1>0 DEF Loaded, Rebuilding
<1>2. mem.journalWriter = "none"
  BY <1>0, <1>1 DEF Base, Locked
<1>3. ~At("wipe")
  BY <1>0 DEF At, Free
<1>4. OnDisk' = OnDisk /\ disk'.backup = NoFile /\ disk'.clean = disk.clean /\ disk'.dirty = disk.dirty
  <2> HIDE DEF NoFile
  <2>1. CASE disk.backup = NoFile
    BY <2>1 DEF initialize, OnDisk
  <2>2. CASE disk.backup # NoFile /\ disk.journal = NoFile
    <3>1. disk' = [disk EXCEPT !.journal = disk.backup, !.backup = NoFile]
      BY <2>2 DEF initialize
    <3>2. /\ disk'.journal = disk.backup /\ disk'.backup = NoFile
          /\ disk'.clean = disk.clean /\ disk'.dirty = disk.dirty
      BY <1>0, <3>1, SwapFiles
    <3> QED BY <2>2, <3>2 DEF OnDisk
  <2>3. CASE disk.backup # NoFile /\ disk.journal # NoFile
    <3>1. disk' = [disk EXCEPT !.backup = NoFile]
      BY <2>3 DEF initialize
    <3>2. /\ disk'.journal = disk.journal /\ disk'.backup = NoFile
          /\ disk'.clean = disk.clean /\ disk'.dirty = disk.dirty
      BY <1>0, <3>1, NoFileType, SetBackup
    <3> QED BY <2>3, <3>2 DEF OnDisk
  <2> QED BY <2>1, <2>2, <2>3
<1> HIDE DEF NoFile
<1>5. OnDisk'.app = app' => Covers(disk', mem'.entry, OnDisk'.lines, mem'.buffer)
  BY <1>0, <1>4 DEF Journaled, Covers
<1>6. OnDisk' = NoFile => NoFiles'
  BY <1>3, <1>4 DEF Journaled, NoFiles
<1> QED BY <1>0, <1>1, <1>2, <1>4, <1>5, <1>6, JournalWaits

\* The files of another version are being deleted.
LEMMA JournalWiped ==
  ASSUME Types', lock' = <<"wipe">>, mem'.initialized = FALSE, mem'.journalWriter # "file",
         disk'.backup = NoFile, disk'.journal.app # app'
  PROVE  Journaled' /\ Knows'
<1>1. ~Rebuilding(lock', "done") /\ ~Loaded'
  BY DEF Rebuilding, Loaded
<1>2. Head(lock') = "wipe" /\ lock' # <<>>
  OBVIOUS
<1>3. /\ At("wipe")' /\ ~At("backup")' /\ ~At("swap")' /\ ~At("drop")' /\ ~At("done")' /\ ~At("read")'
  BY <1>2 DEF At, Free
<1>4. OnDisk'.app # app'
  BY DEF OnDisk, Types, NoFile
<1> HIDE DEF NoFile
<1> QED BY <1>1, <1>3, <1>4 DEF Journaled, Knows

\* There is no file, and a first journal is written.
LEMMA JournalBegins ==
  ASSUME Types', lock' = Rebuild("done"), mem'.initialized = FALSE, mem'.journalWriter # "file",
         OnDisk' = NoFile, NoFiles'
  PROVE  Journaled' /\ Knows'
<1>1. ~Loaded' /\ Rebuilding(lock', "done")
  BY DEF Rebuilding, Loaded, Rebuild
<1>2. Head(lock') = "close" /\ lock' # <<>>
  BY DEF Rebuild
<1>3. /\ ~At("wipe")' /\ ~At("backup")' /\ ~At("swap")' /\ ~At("drop")' /\ ~At("done")' /\ ~At("read")'
  BY <1>2 DEF At, Free
<1>4. OnDisk'.app # app'
  BY DEF Types, NoFile
<1> HIDE DEF NoFile
<1> QED BY <1>1, <1>3, <1>4 DEF Journaled, Knows

LEMMA WipeJournal ==
  ASSUME Base, Base', Journaled, wipe
  PROVE  Journaled' /\ Knows'
<1>0. /\ Types /\ Types' /\ disk \in DirType /\ mem' = mem /\ app' = app /\ At("wipe")
  BY DEF Base, Types, wipe
<1>1. lock = <<"wipe">>
  BY <1>0, HeldFor DEF Base
<1>2. mem.initialized = FALSE /\ mem.journalWriter = "none"
  <2>1. ~Working /\ ~Rebuilding(lock, "process") /\ lock # <<"done">>
    BY <1>1 DEF Working, Rebuilding
  <2>2. mem.initialized = FALSE
    BY <2>1 DEF Base, Locked, Types, MemType
  <2> QED BY <2>1, <2>2 DEF Base, Locked, Loaded
<1>3. disk.backup = NoFile /\ disk.journal.app # app
  BY <1>0 DEF Journaled
<1>4. NoFile.app # app'
  BY <1>0 DEF Types, NoFile
<1> HIDE DEF NoFile
<1>5. ASSUME NEW f \in {"journal", "backup", "temp"}, disk' = [disk EXCEPT ![f] = NoFile], lock' = lock
      PROVE  Journaled' /\ Knows'
  <2>1. disk'.backup = NoFile /\ disk'.journal.app # app'
    <3>1. CASE f = "journal"
      BY <1>0, <1>3, <1>4, <1>5, <3>1, NoFileType, SetJournal
    <3>2. CASE f = "backup"
      BY <1>0, <1>3, <1>5, <3>2, NoFileType, SetBackup
    <3>3. CASE f = "temp"
      BY <1>0, <1>3, <1>5, <3>3, NoFileType, SetTemp
    <3> QED BY <3>1, <3>2, <3>3
  <2> QED BY <1>0, <1>1, <1>2, <1>5, <2>1, JournalWiped
<1>6. ASSUME NEW f \in {"clean", "dirty", "left"}, NEW k \in Keys, disk' = [disk EXCEPT ![f][k] = NoVersion], lock' = lock
      PROVE  Journaled' /\ Knows'
  <2>1. disk'.backup = disk.backup /\ disk'.journal = disk.journal
    BY <1>0, <1>6 DEF DirType
  <2> QED BY <1>0, <1>1, <1>2, <1>3, <1>6, <2>1, JournalWiped
<1>7. ASSUME \A f \in {"journal", "backup", "temp"} : disk[f] = NoFile,
             \A f \in {"clean", "dirty", "left"}, k \in Keys : disk[f][k] = NoVersion,
             disk' = disk, lock' = Rebuild("done")
      PROVE  Journaled' /\ Knows'
  <2>1. OnDisk' = NoFile
    BY <1>7 DEF OnDisk
  <2>2. NoFiles'
    BY <1>7 DEF NoFiles
  <2> QED BY <1>0, <1>2, <1>7, <2>1, <2>2, JournalBegins
<1> QED BY <1>5, <1>6, <1>7 DEF wipe

LEMMA ReadJournal ==
  ASSUME Base, Base', Journaled, readJournal
  PROVE  Journaled' /\ Knows'
<1> DEFINE lines == disk.journal.lines
<1>0. /\ Types /\ Types' /\ Edits' /\ At("read") /\ disk' = disk /\ app' = app /\ writer' = writer
      /\ lines \in Seq(LineType)
  BY DEF Base, Types, DirType, FileType, readJournal
<1>1. lock = <<"read">> /\ mem.initialized = FALSE
  BY <1>0, HeldFor, OpeningIsQuiet DEF Base, Types, MemType
<1>2. mem.journalWriter = "none" /\ mem.buffer = <<>> /\ ~At("wipe")
  <2>1. ~Rebuilding(lock, "process") /\ lock # <<"done">> /\ ~At("wipe")
    BY <1>1 DEF Rebuilding, At
  <2> QED BY <1>1, <2>1 DEF Base, Locked, Loaded
<1>3. disk.backup = NoFile
  BY <1>0 DEF Journaled
<1>4. OnDisk = disk.journal
  BY <1>3 DEF OnDisk
<1>5. CASE disk.journal = NoFile
  <2> HIDE DEF NoFile
  <2>1. mem' = mem /\ lock' = Rebuild("done")
    BY <1>5 DEF readJournal
  <2>2. OnDisk' = NoFile
    BY <1>0, <1>3, <1>5 DEF OnDisk
  <2>3. NoFiles'
    BY <1>0, <1>2, <1>4, <1>5 DEF Journaled, NoFiles
  <2> QED BY <1>0, <1>1, <1>2, <2>1, <2>2, <2>3, JournalBegins
<1>6. CASE disk.journal # NoFile /\ disk.journal.app # app
  <2> HIDE DEF NoFile
  <2>1. mem' = mem /\ lock' = <<"wipe">>
    BY <1>6 DEF readJournal
  <2> QED BY <1>0, <1>1, <1>2, <1>3, <1>6, <2>1, JournalWiped
<1>7. CASE disk.journal # NoFile /\ disk.journal.app = app
  <2>1. PICK lru, c : mem' = [Closed EXCEPT !.lru = lru, !.entry = Replay(lines),
                                              !.journalWriter = "file", !.redundantOpCount = c]
    <3> HIDE DEF NoFile
    <3> QED BY <1>7 DEF readJournal
  <2>2. lock' \in {Rebuild("process"), <<"process">>}
    <3> HIDE DEF NoFile
    <3> QED BY <1>7 DEF readJournal
  <2>3. mem'.entry = Replay(lines) /\ mem'.buffer = <<>>
    <3> DEFINE f == Replay(lines)
    <3>1. mem' = [Closed EXCEPT !.lru = lru, !.entry = f, !.journalWriter = "file", !.redundantOpCount = c]
      BY <2>1
    <3> HIDE DEF f
    <3>2. mem'.entry = f /\ mem'.buffer = <<>>
      BY <3>1 DEF Closed
    <3> QED BY <3>2 DEF f
  <2>4. \A k \in Keys : mem'.entry[k].editor \in {Nobody, Replayed}
    BY <1>0, <2>3, ReplayFacts
  <2>5. Covers(disk, mem.entry, lines, <<>>)
    BY <1>2, <1>4, <1>7 DEF Journaled
  <2>6. Covers(disk', mem'.entry, lines, mem'.buffer)
    BY <1>0, <2>3, <2>4, <2>5, Constants DEF Covers
  <2>7. OnDisk' = disk.journal
    BY <1>0, <1>3 DEF OnDisk
  <2>8. Journaled'
    BY <1>0, <1>7, <2>2, <2>6, <2>7, UsedLock, JournalWorks
  <2>9. Known(disk', mem'.entry)
    <3>1. \A k \in Keys : /\ disk.dirty[k] # NoVersion => TellsDirty(lines, <<>>, k)
                          /\ disk.clean[k] # NoVersion => KeepsClean(lines, <<>>, k)
      BY <2>5 DEF Covers
    <3>2. \A k \in Keys : /\ disk.dirty[k] # NoVersion => Replay(lines)[k].editor = Replayed
                          /\ disk.clean[k] # NoVersion =>
                               Replay(lines)[k].readable = TRUE \/ Replay(lines)[k].editor = Replayed
      BY <1>0, <3>1, ReplayKnows
    <3> QED BY <1>0, <2>3, <3>2, Constants DEF Known
  <2>10. lock' # <<"publish">>
    BY <2>2 DEF Rebuild
  <2> QED BY <1>0, <2>8, <2>9, <2>10, KnowsThen
<1> QED BY <1>5, <1>6, <1>7

LEMMA ProcessJournal ==
  ASSUME Base, Base', Journaled, Knows, processJournal
  PROVE  Journaled' /\ Knows'
<1>0. /\ Types /\ Types' /\ Edits /\ Edits' /\ At("process") /\ app' = app /\ writer' = writer
      /\ disk \in DirType /\ mem \in MemType
      /\ disk.clean \in [Keys -> Versions \cup {NoVersion}] /\ disk.dirty \in [Keys -> Versions \cup {NoVersion}]
      /\ mem.entry \in [Keys -> EntryType]
  BY DEF Base, Types, DirType, MemType, processJournal
<1>1. lock = <<"process">> /\ Tail(lock) = <<>> /\ Loaded
  <2>1. lock = <<"process">> /\ Tail(lock) = <<>>
    BY <1>0, HeldFor DEF Base
  <2> QED BY <2>1 DEF Loaded, Rebuilding
<1>2. Known(disk, mem.entry)
  BY <1>0, <1>1, KnownNow
<1>3. ASSUME lock' \in {lock, <<>>}, disk'.journal = disk.journal, disk'.backup = disk.backup,
             mem'.journalWriter = mem.journalWriter,
             \A lines : Covers(disk, mem.entry, lines, mem.buffer)
                          => Covers(disk', mem'.entry, lines, mem'.buffer),
             Known(disk', mem'.entry)
      PROVE  Journaled' /\ Knows'
  <2>1. OnDisk' = OnDisk
    BY <1>3 DEF OnDisk
  <2>2. InUse(lock') /\ lock' # <<"publish">>
    BY <1>1, <1>3, UsedLock
  <2>3. OnDisk.app = app /\ Covers(disk', mem'.entry, OnDisk.lines, mem'.buffer)
    BY <1>1, <1>3 DEF Journaled
  <2>4. mem'.journalWriter = "file" => disk'.journal.app = app'
    <3>1. ~At("swap")
      BY <1>1 DEF At
    <3> QED BY <1>0, <1>3, <3>1 DEF Journaled
  <2>5. Journaled'
    BY <1>0, <2>1, <2>2, <2>3, <2>4, JournalWorks
  <2> QED BY <1>0, <1>3, <2>2, <2>5, KnowsThen
<1>4. ASSUME disk' = [disk EXCEPT !.temp = NoFile], mem' = mem, lock' = lock PROVE Journaled' /\ Knows'
  <2>1. /\ disk'.journal = disk.journal /\ disk'.backup = disk.backup
        /\ disk'.clean = disk.clean /\ disk'.dirty = disk.dirty
    BY <1>0, <1>4, NoFileType, SetTemp
  <2>2. Known(disk', mem'.entry)
    BY <1>2, <1>4, <2>1 DEF Known
  <2>3. \A lines : Covers(disk, mem.entry, lines, mem.buffer)
                     => Covers(disk', mem'.entry, lines, mem'.buffer)
    BY <1>4, <2>1 DEF Covers
  <2> QED BY <1>3, <1>4, <2>1, <2>2, <2>3
<1>5. ASSUME NEW k \in Keys, disk' = [disk EXCEPT !.clean[k] = NoVersion], mem' = mem, lock' = lock
      PROVE  Journaled' /\ Knows'
  <2>1. /\ disk'.journal = disk.journal /\ disk'.backup = disk.backup /\ disk'.dirty = disk.dirty
        /\ disk'.clean = [disk.clean EXCEPT ![k] = NoVersion]
    BY <1>0, <1>5 DEF DirType
  <2>2. disk'.clean[k] = NoVersion /\ \A x \in Keys \ {k} : disk'.clean[x] = disk.clean[x]
    BY <1>0, <2>1
  <2>3. Known(disk', mem'.entry)
    BY <1>2, <1>5, <2>1, <2>2 DEF Known
  <2>4. \A lines : Covers(disk, mem.entry, lines, mem.buffer)
                     => Covers(disk', mem'.entry, lines, mem'.buffer)
    BY <1>5, <2>1, <2>2 DEF Covers
  <2> QED BY <1>3, <1>5, <2>1, <2>3, <2>4
<1>6. ASSUME NEW k \in Keys, disk.clean[k] = NoVersion,
             disk' = [disk EXCEPT !.dirty[k] = NoVersion, !.left[k] = NoVersion],
             mem' = [mem EXCEPT !.lru = Without(@, k), !.entry[k] = NoEntry], lock' = lock
      PROVE  Journaled' /\ Knows'
  <2>1. /\ disk'.journal = disk.journal /\ disk'.backup = disk.backup /\ disk'.clean = disk.clean
        /\ disk'.dirty = [disk.dirty EXCEPT ![k] = NoVersion]
    BY <1>0, <1>6 DEF DirType
  <2>2. /\ mem'.entry = [mem.entry EXCEPT ![k] = NoEntry] /\ mem'.buffer = mem.buffer
        /\ mem'.journalWriter = mem.journalWriter
    <3> DEFINE l == Without(mem.lru, k)
               f == [mem.entry EXCEPT ![k] = NoEntry]
    <3>1. mem' = [mem EXCEPT !.lru = l, !.entry = f]
      BY <1>0, <1>6 DEF MemType
    <3> HIDE DEF l, f
    <3>2. mem'.entry = f /\ mem'.buffer = mem.buffer /\ mem'.journalWriter = mem.journalWriter
      BY <1>0, <3>1 DEF MemType
    <3> QED BY <3>2 DEF f
  <2>3. mem'.entry[k].editor \notin Writers
    BY <1>0, <2>2, Constants DEF NoEntry
  <2> HIDE DEF NoEntry
  <2>4. /\ disk'.dirty[k] = NoVersion
        /\ \A x \in Keys \ {k} : disk'.dirty[x] = disk.dirty[x] /\ mem'.entry[x] = mem.entry[x]
    BY <1>0, <2>1, <2>2
  <2>5. Known(disk', mem'.entry)
    BY <1>2, <1>6, <2>1, <2>4 DEF Known
  <2>6. \A lines : Covers(disk, mem.entry, lines, mem.buffer)
                     => Covers(disk', mem'.entry, lines, mem'.buffer)
    BY <2>1, <2>2, <2>3, <2>4 DEF Covers
  <2> QED BY <1>3, <1>6, <2>1, <2>2, <2>5, <2>6
<1>7. ASSUME mem' = [mem EXCEPT !.size = Taken(mem), !.initialized = TRUE], disk' = disk, lock' = Tail(lock)
      PROVE  Journaled' /\ Knows'
  <2>1. mem'.entry = mem.entry /\ mem'.buffer = mem.buffer /\ mem'.journalWriter = mem.journalWriter
    BY <1>0, <1>7 DEF MemType
  <2> QED BY <1>1, <1>2, <1>3, <1>7, <2>1
<1> QED BY <1>4, <1>5, <1>6, <1>7 DEF processJournal

LEMMA OpenedJournal ==
  ASSUME Base, Base', Journaled, openedEmpty
  PROVE  Journaled' /\ Knows'
<1>0. /\ Types /\ Types' /\ Edits' /\ At("done") /\ disk' = disk /\ app' = app
  BY DEF Base, openedEmpty
<1>1. lock = <<"done">> /\ lock' = <<>> /\ Rebuilding(lock, "done")
  <2>1. lock = <<"done">> /\ lock' = <<>>
    BY <1>0, HeldFor DEF Base, openedEmpty
  <2> QED BY <2>1 DEF Rebuilding
<1>2. NoFiles /\ disk.journal.app = app /\ OnDisk = disk.journal
  BY <1>0, <1>1, RealJournal DEF Journaled
<1>3. \A k \in Keys : mem'.entry[k].editor \notin Writers
  <2>1. ~Loaded
    BY <1>0, OpeningIsQuiet DEF Base
  <2>2. mem.entry = [k \in Keys |-> NoEntry]
    BY <2>1 DEF Base, Locked
  <2>3. mem'.entry = mem.entry
    BY <1>0 DEF openedEmpty, Types, MemType
  <2> QED BY <2>2, <2>3, Constants DEF NoEntry
<1>4. OnDisk' = OnDisk
  BY <1>0 DEF OnDisk
<1>5. Covers(disk', mem'.entry, OnDisk'.lines, mem'.buffer)
  BY <1>0, <1>2, <1>3 DEF Covers, NoFiles
<1>6. Journaled'
  BY <1>0, <1>1, <1>2, <1>4, <1>5, UsedLock, JournalWorks
<1>7. Known(disk', mem'.entry)
  BY <1>0, <1>2 DEF Known, NoFiles
<1>8. lock' # <<"publish">>
  BY <1>1
<1> QED BY <1>0, <1>6, <1>7, <1>8, KnowsThen

\* The end of the process: some of the lines in the buffer have reached the file.
LEMMA RestartJournal ==
  ASSUME Base, Base', Journaled, restart, Gaps = FALSE
  PROVE  Journaled' /\ Knows'
<1>0. /\ Types /\ Types' /\ disk \in DirType /\ ~At("wipe") /\ lock' = <<>> /\ app' \in {app, app + 1}
      /\ mem' = Closed /\ mem.buffer \in Seq(LineType) /\ app \in Nat \ {0}
  BY DEF Base, Types, MemType, restart
<1>1. /\ mem'.initialized = FALSE /\ mem'.journalWriter = "none" /\ mem'.buffer = <<>>
      /\ mem'.entry = [k \in Keys |-> NoEntry]
  <2> HIDE DEF NoEntry
  <2> QED BY <1>0 DEF Closed
<1>2. ~Loaded'
  BY <1>0, <1>1 DEF Loaded, Rebuilding
<1>3. \A k \in Keys : mem'.entry[k].editor \notin Writers
  BY <1>1, Constants DEF NoEntry
<1>4. OnDisk.app \in Nat /\ OnDisk.app <= app
  BY <1>0 DEF OnDisk, Types, DirType, FileType
<1>5. ASSUME disk'.clean = disk.clean, disk'.dirty = disk.dirty, OnDisk'.app = OnDisk.app,
             OnDisk' = NoFile => OnDisk = NoFile,
             \A k \in Keys :
               /\ KeepsClean(OnDisk.lines, mem.buffer, k) => KeepsClean(OnDisk'.lines, <<>>, k)
               /\ TellsDirty(OnDisk.lines, mem.buffer, k) => TellsDirty(OnDisk'.lines, <<>>, k)
      PROVE  Journaled' /\ Knows'
  <2>1. OnDisk'.app = app' => Covers(disk', mem'.entry, OnDisk'.lines, mem'.buffer)
    <3> SUFFICES ASSUME OnDisk'.app = app'
                 PROVE  Covers(disk', mem'.entry, OnDisk'.lines, mem'.buffer)
      OBVIOUS
    <3>1. OnDisk.app = app
      BY <1>0, <1>4, <1>5
    <3>2. Covers(disk, mem.entry, OnDisk.lines, mem.buffer)
      BY <3>1 DEF Journaled
    <3> QED BY <1>1, <1>3, <1>5, <3>2 DEF Covers
  <2>2. OnDisk' = NoFile => NoFiles'
    <3> HIDE DEF NoFile
    <3> QED BY <1>0, <1>5 DEF Journaled, NoFiles
  <2>3. lock' # <<"read">>
    BY <1>0
  <2> HIDE DEF NoFile
  <2> QED BY <1>0, <1>1, <1>2, <2>1, <2>2, <2>3, JournalWaits
<1>6. CASE disk' = disk
  <2>1. OnDisk' = OnDisk
    BY <1>6 DEF OnDisk
  <2> QED BY <1>5, <1>6, <2>1, LostBuffer
<1>7. ASSUME NEW p \in Torn(mem.buffer), mem.journalWriter = "file", disk.journal # NoFile,
             disk' = Appended(disk, p)
      PROVE  Journaled' /\ Knows'
  <2>1. disk.journal.app = app
    BY <1>7 DEF Journaled
  <2>2. OnDisk = disk.journal
    BY <1>7 DEF OnDisk
  <2>3. /\ disk'.journal = [disk.journal EXCEPT !.lines = disk.journal.lines \o p]
        /\ disk'.clean = disk.clean /\ disk'.dirty = disk.dirty
    BY <1>0, <1>7 DEF Appended, DirType
  <2>4. disk.journal \in FileType /\ disk.journal.lines \in Seq(LineType)
    BY <1>0 DEF DirType, FileType
  <2> DEFINE q == disk.journal.lines \o p
  <2>5. disk'.journal = [disk.journal EXCEPT !.lines = q]
    BY <2>3
  <2> HIDE DEF q
  <2>6. disk'.journal.app = app /\ disk'.journal.lines = q
    BY <2>1, <2>4, <2>5 DEF FileType
  <2>7. OnDisk' = disk'.journal /\ OnDisk' # NoFile
    BY <1>0, <2>6 DEF OnDisk, NoFile
  <2>8. \A k \in Keys :
          /\ KeepsClean(OnDisk.lines, mem.buffer, k) => KeepsClean(q, <<>>, k)
          /\ TellsDirty(OnDisk.lines, mem.buffer, k) => TellsDirty(q, <<>>, k)
    BY <1>0, <1>7, <2>2, <2>4, WrittenBuffer DEF q
  <2> HIDE DEF NoFile
  <2> QED BY <1>5, <2>1, <2>2, <2>3, <2>6, <2>7, <2>8
<1> QED BY <1>6, <1>7 DEF restart

-----------------------------------------------------------------------------
(* A new journal. *)

LEMMA RebuildOrder ==
  ASSUME NEW l, NEW end \in {"done", "process", "reset"}, Rebuilding(l, end), Head(l) # end
  PROVE  /\ Head(l) = "close" => Head(Tail(l)) = "temp"
         /\ Head(l) = "temp" => Head(Tail(l)) = "backup"
         /\ Head(l) = "backup" => Head(Tail(l)) = "swap"
         /\ Head(l) = "swap" => Head(Tail(l)) = "drop"
         /\ Head(l) = "drop" => Head(Tail(l)) = end
<1>1. CASE l = <<"close", "temp", "backup", "swap", "drop", end>>
  <2>1. Head(l) = "close" /\ Head(Tail(l)) = "temp"
    BY <1>1
  <2> QED BY <2>1
<1>2. CASE l = <<"temp", "backup", "swap", "drop", end>>
  <2>1. Head(l) = "temp" /\ Head(Tail(l)) = "backup"
    BY <1>2
  <2> QED BY <2>1
<1>3. CASE l = <<"backup", "swap", "drop", end>>
  <2>1. Head(l) = "backup" /\ Head(Tail(l)) = "swap"
    BY <1>3
  <2> QED BY <2>1
<1>4. CASE l = <<"swap", "drop", end>>
  <2>1. Head(l) = "swap" /\ Head(Tail(l)) = "drop"
    BY <1>4
  <2> QED BY <2>1
<1>5. CASE l = <<"drop", end>>
  <2>1. Head(l) = "drop" /\ Head(Tail(l)) = end
    BY <1>5
  <2> QED BY <2>1
<1>6. CASE l = <<end>>
  BY <1>6
<1> QED BY <1>1, <1>2, <1>3, <1>4, <1>5, <1>6 DEF Rebuilding

\* A rebuild goes on; end tells what it is for.
LEMMA JournalGoesOn ==
  ASSUME Types', NEW end \in {"done", "process", "reset"}, Rebuilding(lock', end),
         IF end = "done" THEN ~Loaded' /\ NoFiles' /\ (Head(lock') \in {"drop", "done"} \/ OnDisk' = NoFile)
         ELSE OnDisk'.app = app',
         OnDisk'.app = app' => Covers(disk', mem'.entry, OnDisk'.lines, mem'.buffer),
         Head(lock') \in {"backup", "swap"} =>
           disk'.temp.app = app' /\ Covers(disk', mem'.entry, disk'.temp.lines, <<>>),
         Head(lock') = "swap" => disk'.journal = NoFile,
         Head(lock') \in {"drop", "done"} => disk'.journal.app = app',
         mem'.journalWriter = "file" /\ Head(lock') # "swap" => disk'.journal.app = app'
  PROVE  Journaled'
<1>1. lock' # <<>> /\ Head(lock') \in {"close", "temp", "backup", "swap", "drop", end}
  BY RebuildingFacts
<1>2. \A s : At(s)' <=> Head(lock') = s
  BY <1>1 DEF At, Free
<1>3. ~At("read")' /\ ~At("wipe")'
  BY <1>1, <1>2
<1>4. NoFile.app # app'
  BY DEF Types, NoFile
<1>5. CASE end = "done"
  <2> HIDE DEF NoFile
  <2> QED BY <1>2, <1>3, <1>5 DEF Journaled
<1>6. CASE end # "done"
  <2>1. ~Rebuilding(lock', "done")
    BY <1>6 DEF Rebuilding
  <2>2. OnDisk' # NoFile
    BY <1>4, <1>6
  <2> HIDE DEF NoFile
  <2> QED BY <1>2, <1>3, <1>6, <2>1, <2>2 DEF Journaled
<1> QED BY <1>5, <1>6

LEMMA RebuildJournal ==
  ASSUME Base, Base', Journaled, Knows, rebuildJournal
  PROVE  Journaled' /\ Knows'
<1>0. /\ Types /\ Types' /\ Edits' /\ disk \in DirType /\ mem \in MemType /\ app' = app /\ writer' = writer
      /\ lock # <<>> /\ lock' = Tail(lock) /\ Head(lock) \in {"close", "temp", "backup", "swap", "drop"}
      /\ app # 0
  BY DEF Base, Types, rebuildJournal, At, Free
<1>1. PICK end \in {"done", "process", "reset"} : Rebuilding(lock, end)
  <2>1. Working \/ Opening
    BY DEF Base, Locked, Types, MemType
  <2> QED BY <1>0, <2>1 DEF Working, Opening
<1>2. /\ Rebuilding(lock', end) /\ lock' # <<>> /\ \A s : At(s) <=> Head(lock) = s
      /\ Head(lock) = "close" => Head(lock') = "temp"
      /\ Head(lock) = "temp" => Head(lock') = "backup"
      /\ Head(lock) = "backup" => Head(lock') = "swap"
      /\ Head(lock) = "swap" => Head(lock') = "drop"
      /\ Head(lock) = "drop" => Head(lock') = end
  <2>1. Head(lock) # end
    BY <1>0
  <2> QED BY <1>0, <1>1, <2>1, RebuildOrder, RebuildingFacts DEF At, Free
<1>3. \A x \in {"done", "process", "reset"} : x # end => ~Rebuilding(lock, x) /\ ~Rebuilding(lock', x)
  BY <1>1, <1>2 DEF Rebuilding
<1>4. /\ end = "done" => ~Loaded /\ mem.initialized = FALSE /\ mem.journalWriter = "none"
      /\ end # "done" => Loaded
  <2>1. mem.initialized = TRUE <=> end = "reset"
    <3>1. end = "reset" => ~Opening
      BY <1>0, <1>1, <1>3 DEF Opening
    <3>2. end # "reset" => ~Working
      BY <1>0, <1>1, <1>3 DEF Working
    <3> QED BY <3>1, <3>2 DEF Base, Locked, Types, MemType
  <2>2. lock # <<"done">>
    BY <1>0
  <2>3. end = "done" => ~Loaded
    BY <1>3, <2>1 DEF Loaded
  <2>4. end # "done" => Loaded
    BY <1>1, <2>1 DEF Loaded
  <2>5. end = "done" => mem.initialized = FALSE
    BY <2>1 DEF Base, Types, MemType
  <2> QED BY <2>2, <2>3, <2>4, <2>5 DEF Base, Locked
<1>5. /\ end = "done" => NoFiles
      /\ end = "done" /\ Head(lock) # "drop" => OnDisk = NoFile
      /\ end # "done" => OnDisk.app = app
      /\ OnDisk.app = app => Covers(disk, mem.entry, OnDisk.lines, mem.buffer)
  <2> HIDE DEF NoFile
  <2> QED BY <1>0, <1>1, <1>2, <1>4 DEF Journaled
<1>6. Known(disk, mem.entry)
  <2>1. CASE end = "done"
    BY <1>5, <2>1 DEF NoFiles, Known
  <2>2. CASE end # "done"
    <3>1. lock # <<"publish">>
      BY <1>0
    <3> QED BY <1>4, <2>2, <3>1, KnownNow DEF Base
  <2> QED BY <2>1, <2>2
<1>7. Head(lock) # "close" => mem.buffer = <<>>
  BY <1>0, <1>2 DEF Base, Locked
\* What the cases have in common.
<1>8. ASSUME mem'.initialized = mem.initialized, mem'.entry = mem.entry,
             disk'.clean = disk.clean, disk'.dirty = disk.dirty,
             end # "done" => OnDisk'.app = app,
             end = "done" => Head(lock') \in {"drop", "done"} \/ OnDisk' = NoFile,
             OnDisk'.app = app => Covers(disk, mem.entry, OnDisk'.lines, mem'.buffer),
             Head(lock') \in {"backup", "swap"} =>
               disk'.temp.app = app /\ Covers(disk, mem.entry, disk'.temp.lines, <<>>),
             Head(lock') = "swap" => disk'.journal = NoFile,
             Head(lock') \in {"drop", "done"} => disk'.journal.app = app,
             mem'.journalWriter = "file" /\ Head(lock') # "swap" => disk'.journal.app = app
      PROVE  Journaled' /\ Knows'
  <2>1. end = "done" => ~Loaded' /\ NoFiles'
    BY <1>3, <1>4, <1>5, <1>8 DEF Loaded, NoFiles
  <2>2. \A lines, b : Covers(disk, mem.entry, lines, b) => Covers(disk', mem'.entry, lines, b)
    BY <1>8 DEF Covers
  <2>3. Journaled'
    <3> HIDE DEF NoFile
    <3> QED BY <1>0, <1>2, <1>8, <2>1, <2>2, JournalGoesOn
  <2>4. lock' # <<"publish">>
    BY <1>2 DEF Rebuilding
  <2>5. Known(disk', mem'.entry)
    BY <1>6, <1>8 DEF Known
  <2> QED BY <1>0, <2>3, <2>4, <2>5, KnowsThen
<1>9. ASSUME At("close"), NEW bad \in BOOLEAN, NEW s \in Flush(Now, bad), Become(s) PROVE Journaled' /\ Knows'
  <2>1. Flushed([d |-> disk, m |-> mem], Then) /\ Head(lock') = "temp"
    <3>1. Flushed([d |-> disk, m |-> mem], s) /\ s = [d |-> s.d, m |-> s.m]
      BY <1>0, <1>9, FlushFacts DEF Now
    <3>2. s = Then
      BY <1>9, <3>1 DEF Become, Then
    <3> QED BY <1>2, <1>9, <3>1, <3>2
  <2>2. /\ mem'.initialized = mem.initialized /\ mem'.entry = mem.entry
        /\ disk'.clean = disk.clean /\ disk'.dirty = disk.dirty
    BY <2>1, FlushedKeeps
  <2>3. CASE mem.journalWriter # "file"
    <3>1. disk' = disk /\ Alike(mem, mem')
      BY <2>1, <2>3 DEF Flushed, Then
    <3>2. OnDisk' = OnDisk /\ mem'.buffer = mem.buffer /\ mem'.journalWriter # "file"
      BY <2>3, <3>1 DEF OnDisk, Alike
    <3> HIDE DEF NoFile
    <3> QED BY <1>0, <1>5, <1>8, <1>9, <1>2, <2>1, <2>2, <3>2
  <2>4. CASE mem.journalWriter = "file"
    <3>1. end # "done" /\ disk.journal.app = app /\ OnDisk = disk.journal
      <4>1. ~At("swap")
        BY <1>2, <1>9
      <4>2. end # "done"
        BY <1>4, <2>4
      <4>3. disk.journal.app = app
        BY <2>4, <4>1 DEF Journaled
      <4> QED BY <1>0, <4>2, <4>3, RealJournal
    <3>2. Covers(disk', mem'.entry, disk'.journal.lines, mem'.buffer)
      BY <1>0, <1>5, <2>1, <2>4, <3>1, CoversFlushed
    <3>3. Covers(disk, mem.entry, disk'.journal.lines, mem'.buffer)
      BY <2>2, <3>2 DEF Covers
    <3>4. disk'.journal.app = app
      <4>1. PICK p : disk'.journal = [app |-> disk.journal.app, lines |-> p]
        BY <2>1, <2>4 DEF Flushed, Then
      <4> QED BY <3>1, <4>1
    <3>5. OnDisk' = disk'.journal
      BY <1>0, <3>4 DEF OnDisk, NoFile
    <3> HIDE DEF NoFile
    <3> QED BY <1>8, <2>1, <2>2, <3>1, <3>3, <3>4, <3>5
  <2> QED BY <2>3, <2>4
<1>10. ASSUME At("temp"), mem' = mem, disk' = [disk EXCEPT !.temp = [app |-> app, lines |-> Compact(mem)]]
       PROVE  Journaled' /\ Knows'
  <2> DEFINE c == Compact(mem)
             f == [app |-> app, lines |-> c]
  <2>1. Head(lock') = "backup" /\ mem.buffer = <<>> /\ Head(lock) = "temp"
    BY <1>2, <1>7, <1>10
  <2>2. Covers(disk, mem.entry, c, <<>>)
    <3>1. \A k \in Keys : disk.clean[k] # NoVersion => mem.entry[k] # NoEntry
      BY <1>6, Constants DEF Known, NoEntry
    <3>2. \A k \in Keys : disk.dirty[k] # NoVersion => mem.entry[k].editor # Nobody
      BY <1>6 DEF Known
    <3> HIDE DEF NoEntry
    <3> QED BY <1>0, <3>1, <3>2, CoversCompact DEF Base
  <2>3. disk' = [disk EXCEPT !.temp = f]
    BY <1>10
  <2> HIDE DEF c
  <2>4. f.app = app /\ f.lines = c
    OBVIOUS
  <2> HIDE DEF f
  <2>5. /\ disk'.temp = f /\ disk'.journal = disk.journal /\ disk'.backup = disk.backup
        /\ disk'.clean = disk.clean /\ disk'.dirty = disk.dirty
    BY <1>0, <2>3 DEF DirType
  <2>6. OnDisk' = OnDisk
    BY <2>5 DEF OnDisk
  <2>7. mem.journalWriter = "file" => disk.journal.app = app
    BY <1>2, <2>1 DEF Journaled
  <2> HIDE DEF NoFile
  <2> QED BY <1>5, <1>8, <1>10, <2>1, <2>2, <2>4, <2>5, <2>6, <2>7
<1>11. ASSUME At("backup"), mem' = mem,
              disk' = IF disk.journal = NoFile THEN disk
                      ELSE [disk EXCEPT !.backup = disk.journal, !.journal = NoFile]
       PROVE  Journaled' /\ Knows'
  <2>1. Head(lock') = "swap" /\ Head(lock) = "backup"
    BY <1>2, <1>11
  <2>2. disk.temp.app = app /\ Covers(disk, mem.entry, disk.temp.lines, <<>>)
    BY <1>11 DEF Journaled
  <2>3. /\ OnDisk' = OnDisk /\ disk'.journal = NoFile /\ disk'.temp = disk.temp
        /\ disk'.clean = disk.clean /\ disk'.dirty = disk.dirty
    <3> HIDE DEF NoFile
    <3>1. CASE disk.journal = NoFile
      BY <1>11, <3>1 DEF OnDisk
    <3>2. CASE disk.journal # NoFile
      <4>1. /\ disk'.journal = NoFile /\ disk'.backup = disk.journal /\ disk'.temp = disk.temp
            /\ disk'.clean = disk.clean /\ disk'.dirty = disk.dirty
        BY <1>0, <1>11, <3>2, SwapFiles
      <4> QED BY <3>2, <4>1 DEF OnDisk
    <3> QED BY <3>1, <3>2
  <2> HIDE DEF NoFile
  <2> QED BY <1>5, <1>8, <1>11, <2>1, <2>2, <2>3
<1>12. ASSUME At("swap"), mem' = mem, disk' = [disk EXCEPT !.journal = disk.temp, !.temp = NoFile]
       PROVE  Journaled' /\ Knows'
  <2>1. Head(lock') = "drop" /\ Head(lock) = "swap" /\ mem.buffer = <<>>
    BY <1>2, <1>7, <1>12
  <2>2. disk.temp.app = app /\ Covers(disk, mem.entry, disk.temp.lines, <<>>)
    BY <1>12 DEF Journaled
  <2>3. disk'.journal = disk.temp /\ disk'.clean = disk.clean /\ disk'.dirty = disk.dirty
    <3> HIDE DEF NoFile
    <3> QED BY <1>0, <1>12, SwapFiles
  <2>4. OnDisk' = disk.temp
    BY <1>0, <2>2, <2>3 DEF OnDisk, NoFile
  <2> HIDE DEF NoFile
  <2> QED BY <1>8, <1>12, <2>1, <2>2, <2>3, <2>4
<1>13. ASSUME At("drop"), disk' = [disk EXCEPT !.backup = NoFile],
              mem' = [mem EXCEPT !.journalWriter = "file", !.rebuildFailed = FALSE]
       PROVE  Journaled' /\ Knows'
  <2>1. Head(lock') = end /\ Head(lock) = "drop" /\ disk.journal.app = app /\ OnDisk = disk.journal
    BY <1>0, <1>2, <1>13, RealJournal DEF Journaled
  <2>2. disk'.journal = disk.journal /\ disk'.clean = disk.clean /\ disk'.dirty = disk.dirty
    BY <1>0, <1>13, NoFileType, SetBackup
  <2>3. mem'.initialized = mem.initialized /\ mem'.entry = mem.entry /\ mem'.buffer = mem.buffer
    BY <1>0, <1>13 DEF MemType
  <2>4. OnDisk' = disk.journal
    BY <1>0, <2>1, <2>2 DEF OnDisk, NoFile
  <2> HIDE DEF NoFile
  <2> QED BY <1>5, <1>8, <2>1, <2>2, <2>3, <2>4
<1> QED BY <1>9, <1>10, <1>11, <1>12, <1>13 DEF rebuildJournal

\* A rebuild that fails leaves the old journal or has put the new one into its place.
LEMMA RebuildFailsJournal ==
  ASSUME Base, Base', Journaled, Knows, rebuildFails
  PROVE  Journaled' /\ Knows'
<1>0. /\ Types /\ Types' /\ Edits /\ Edits' /\ mem \in MemType /\ app' = app /\ disk' = disk /\ lock' = <<>>
      /\ lock # <<>>
  BY DEF Base, Types, rebuildFails, Free
<1>1. Rebuilding(lock, "reset") /\ mem.initialized = TRUE
  <2>1. lock[Len(lock)] = "reset" /\ lock # <<>> /\ Head(lock) # "trim" /\ Head(lock) \notin {"compact", "publish", "evict"}
    BY DEF rebuildFails, Last, Free
  <2>2. ~Opening
    <3>1. CASE lock \in {<<"read">>, <<"wipe">>}
      BY <2>1, <3>1
    <3>2. CASE Rebuilding(lock, "done") \/ Rebuilding(lock, "process")
      BY <2>1, <3>2, RebuildingFacts
    <3> QED BY <2>1, <3>1, <3>2 DEF Opening
  <2>3. mem.initialized = TRUE
    BY <2>2 DEF Base, Locked, Types, MemType
  <2>4. Working
    BY <2>3 DEF Base, Locked
  <2> QED BY <2>1, <2>3, <2>4 DEF Working
<1>2. /\ mem'.entry = mem.entry /\ mem'.buffer = mem.buffer /\ mem'.journalWriter = "blackhole"
  BY <1>0 DEF rebuildFails, MemType
<1>3. Loaded /\ OnDisk' = OnDisk
  BY <1>0, <1>1 DEF Loaded, OnDisk
<1>4. OnDisk.app = app /\ Covers(disk, mem.entry, OnDisk.lines, mem.buffer)
  BY <1>3 DEF Journaled
<1>5. Journaled'
  BY <1>0, <1>2, <1>3, <1>4, UsedLock, JournalWorks
<1>6. lock # <<"publish">> /\ lock' # <<"publish">>
  BY <1>0, <1>1 DEF Rebuilding
<1>7. Known(disk', mem'.entry)
  BY <1>0, <1>2, <1>3, <1>6, KnownNow, KnownSame
<1> QED BY <1>0, <1>5, <1>6, <1>7, KnowsThen

-----------------------------------------------------------------------------
(* The theorems. *)

LEMMA JournalStep ==
  ASSUME Base, Base', Journaled, Knows, Next, Gaps = FALSE
  PROVE  Journaled' /\ Knows'
<1>0. /\ Types /\ Locked /\ Distinct(mem.lru) /\ mem.initialized \in BOOLEAN
      /\ \A w \in Writers : writer[w].own = <<>>
      /\ \A w \in Writers : writer[w].pc # "idle" => writer[w].key \in Keys
  BY DEF Base, Types, MemType, Mapped, Edits
<1>busy. \A w \in Writers : writer[w].pc # "idle" => mem.initialized = TRUE
  BY <1>0 DEF Locked, Resting
<1>free. <<>> # <<"publish">> /\ <<"evict">> # <<"publish">> /\ <<"compact">> # <<"publish">>
         /\ <<"trim", "compact">> # <<"publish">>
  OBVIOUS
<1>calm. ASSUME Free, mem.initialized = TRUE, lock' = lock, app' = app,
                \/ \E k \in Keys : Removed(Now, Then, k) \/ Detached(Now, Then, k) \/ Looked(Now, Then, k)
                \/ disk' = disk /\ Alike(mem, mem')
         PROVE  Journaled' /\ Knows'
  <2>1. lock = <<>>
    BY <1>calm DEF Free
  <2> QED BY <1>calm, <1>free, <2>1, UsedLock, CalmJournal
<1>same. disk' = disk /\ mem' = mem => disk' = disk /\ Alike(mem, mem')
  BY DEF Alike
<1>1. CASE initialize
  BY <1>1, InitializeJournal
<1>2. CASE readJournal
  BY <1>2, ReadJournal
<1>3. CASE wipe
  BY <1>3, WipeJournal
<1>4. CASE processJournal
  BY <1>4, ProcessJournal
<1>5. CASE openedEmpty
  BY <1>5, OpenedJournal
<1>6. CASE rebuildJournal
  BY <1>6, RebuildJournal
<1>7. CASE runCleanup
  <2>1. /\ lock = <<>> /\ Alike(mem, mem') /\ disk' = disk /\ app' = app
        /\ lock' = IF mem.initialized THEN <<"trim", "compact">> ELSE <<>>
    BY <1>0, <1>7 DEF runCleanup, Alike, Free, Types, MemType
  <2>2. CASE mem.initialized = TRUE
    BY <1>free, <2>1, <2>2, UsedLock, CalmJournal
  <2>3. CASE mem.initialized = FALSE
    <3>1. lock' = <<>> /\ ~At("wipe") /\ mem'.initialized = FALSE
      BY <2>1, <2>3 DEF At, Free, Alike
    <3>2. ~Loaded /\ ~Loaded' /\ lock # <<"done">>
      BY <2>1, <2>3, <3>1 DEF Loaded, Rebuilding
    <3>3. mem'.journalWriter # "file" /\ mem'.entry = mem.entry /\ mem'.buffer = mem.buffer
      BY <1>0, <2>1, <3>2 DEF Locked, Alike
    <3>4. OnDisk' = OnDisk
      BY <2>1 DEF OnDisk
    <3>5. lock' # <<"read">>
      BY <3>1
    <3> HIDE DEF NoFile
    <3>6. OnDisk' = NoFile => NoFiles'
      BY <2>1, <3>1, <3>4 DEF Journaled, NoFiles
    <3>7. OnDisk'.app = app' => Covers(disk', mem'.entry, OnDisk'.lines, mem'.buffer)
      BY <2>1, <3>3, <3>4 DEF Journaled
    <3> QED BY <3>1, <3>2, <3>3, <3>5, <3>6, <3>7, JournalWaits
  <2> QED BY <1>0, <2>2, <2>3
<1>8. CASE trimToSize
  <2>1. mem.size > MaxSize => mem.lru # <<>>
    BY <1>8, TrimFinds DEF trimToSize
  <2>2. /\ lock' = lock \/ lock' = Tail(lock)
        /\ \/ mem.lru # <<>> /\ Removed(Now, Then, Head(mem.lru))
           \/ mem.lru # <<>> /\ Detached(Now, Then, Head(mem.lru))
           \/ disk' = disk /\ Alike(mem, mem')
    BY <1>0, <1>8, <2>1, TrimEffect
  <2>3. mem.lru # <<>> => Head(mem.lru) \in Keys
    BY <1>0 DEF Types, MemType
  <2>4. mem.initialized = TRUE /\ lock = <<"trim", "compact">> /\ Tail(lock) = <<"compact">> /\ app' = app
    BY <1>0, <1>8, HeldFor DEF trimToSize
  <2>5. /\ InUse(lock) /\ InUse(lock') /\ lock # <<"publish">> /\ lock' # <<"publish">>
    BY <1>free, <2>2, <2>4, UsedLock
  <2> QED BY <2>2, <2>3, <2>4, <2>5, CalmJournal
<1>9. CASE compactJournal
  <2>1. /\ mem.initialized = TRUE /\ mem' = mem /\ disk' = disk /\ app' = app /\ lock = <<"compact">>
        /\ lock' \in {<<>>, Rebuild("reset")}
    BY <1>0, <1>9, HeldFor DEF compactJournal
  <2>2. Rebuild("reset") # <<"publish">>
    BY DEF Rebuild
  <2> QED BY <1>free, <1>same, <2>1, <2>2, UsedLock, CalmJournal
<1>10. CASE compacted
  <2>1. /\ mem.initialized = TRUE /\ Alike(mem, mem') /\ disk' = disk /\ app' = app /\ lock' = <<>>
        /\ Rebuilding(lock, "reset") /\ Head(lock) = "reset"
    BY <1>0, <1>10, HeldFor DEF compacted, Alike, Types, MemType, At
  <2>2. lock = <<"reset">>
    BY <2>1, RebuildingFacts
  <2>3. InUse(lock) /\ lock # <<"publish">>
    BY <2>2 DEF InUse, Rebuilding
  <2> QED BY <1>free, <2>1, <2>3, UsedLock, CalmJournal
<1>11. CASE rebuildFails
  BY <1>11, RebuildFailsJournal
<1>12. ASSUME NEW w \in Writers, NEW k \in Keys, edit(w, k) PROVE Journaled' /\ Knows'
  <2>1. Looked(Now, Then, k) \/ Started(Now, Then, k, w)
    BY <1>0, <1>12, EditEffect
  <2>2. Free /\ mem.initialized = TRUE /\ lock' = lock /\ app' = app
    BY <1>0, <1>12 DEF edit, Ready
  <2> QED BY <1>calm, <2>1, <2>2, StartedJournal
<1>13. ASSUME NEW w \in Writers, NEW k \in Keys, editFails(w, k) PROVE Journaled' /\ Knows'
  BY <1>13, EditFailsJournal
<1>14. ASSUME NEW w \in Writers, newSink(w) \/ commitFails(w) PROVE Journaled' /\ Knows'
  BY <1>14, SinkJournal
<1>15. ASSUME NEW w \in Writers, write(w) \/ downloadFails(w) \/ close(w) PROVE Journaled' /\ Knows'
  <2>1. Free /\ writer[w].pc # "idle" /\ disk' = disk /\ mem' = mem /\ lock' = lock /\ app' = app
    BY <1>15 DEF write, downloadFails, close
  <2> QED BY <1>busy, <1>calm, <1>same, <2>1
<1>16. ASSUME NEW w \in Writers, writeFails(w) PROVE Journaled' /\ Knows'
  <2>1. IF mem.entry[writer[w].key].editor = w THEN Detached(Now, Then, writer[w].key)
        ELSE disk' = disk /\ mem' = mem
    BY <1>0, <1>16, WriteFailsEffect
  <2>2. Free /\ writer[w].pc # "idle" /\ lock' = lock /\ app' = app /\ writer[w].key \in Keys
    BY <1>0, <1>16 DEF writeFails
  <2> QED BY <1>busy, <1>calm, <1>same, <2>1, <2>2
<1>17. ASSUME NEW w \in Writers, abort(w) PROVE Journaled' /\ Knows'
  <2>1. Free /\ writer[w].pc # "idle" /\ lock' = lock /\ app' = app
    BY <1>17 DEF abort
  <2>2. CASE disk' = disk /\ mem' = mem
    BY <1>busy, <1>calm, <1>same, <2>1, <2>2
  <2>3. CASE FinishEdit(Aborted(w))
    BY <2>1, <2>3, AbortJournal
  <2> QED BY <1>17, <2>2, <2>3 DEF abort
<1>17a. ASSUME NEW w \in Writers, abortFails(w) PROVE Journaled' /\ Knows'
  <2>0. /\ Types' /\ Edits /\ Edits' /\ lock = <<>> /\ lock' = <<>> /\ app' = app /\ writer[w].pc # "idle"
        /\ disk' = disk
    BY <1>17a DEF Base, abortFails, Free
  <2>1. mem.initialized = TRUE /\ Loaded
    BY <1>busy, <2>0 DEF Loaded
  <2>2. StuckBy(mem, mem', writer[w].key) /\ writer[w].key \in Keys /\ mem.entry[writer[w].key].editor # Replayed
    BY <1>0, <1>17a, AbortFailsEffect, Constants
  <2>3. SameJournal(disk, disk') /\ mem'.journalWriter = mem.journalWriter
    BY <2>0, <2>2 DEF SameJournal, StuckBy
  <2>4. Journaled'
    <3>1. \A lines : Covers(disk, mem.entry, lines, mem.buffer)
                       => Covers(disk', mem'.entry, lines, mem'.buffer)
      BY <1>0, <2>0, <2>2, CoversStuck
    <3> QED BY <2>0, <2>1, <2>3, <3>1, QuietStep, UsedLock
  <2>5. Known(disk', mem'.entry)
    BY <1>0, <1>free, <2>0, <2>1, <2>2, KnownNow, KnownStuck
  <2> QED BY <1>free, <2>0, <2>4, <2>5, KnowsThen
<1>18. ASSUME NEW w \in Writers, commit(w) PROVE Journaled' /\ Knows'
  BY <1>18, CommitJournal
<1>19. ASSUME NEW w \in Writers, publish(w) PROVE Journaled' /\ Knows'
  BY <1>19, PublishJournal
<1>look. ASSUME NEW k \in Keys, NEW kept \in BOOLEAN, Become(Get(Now, k, kept)), Ready, lock' = lock,
                app' = app
         PROVE  Journaled' /\ Knows'
  <2>1. Looked(Now, Then, k) \/ Removed(Now, Then, k)
    BY <1>0, <1>look, GetEffect
  <2>2. Free /\ mem.initialized = TRUE
    BY <1>0, <1>look DEF Ready
  <2> QED BY <1>calm, <1>look, <2>1, <2>2
<1>20. ASSUME NEW w \in Writers, check(w) PROVE Journaled' /\ Knows'
  <2>1. /\ writer[w].key \in Keys /\ Ready /\ lock' = lock /\ app' = app
        /\ \E kept \in BOOLEAN : Become(Get(Now, writer[w].key, kept))
    BY <1>0, <1>20 DEF check
  <2> QED BY <1>look, <2>1
<1>21. ASSUME NEW k \in Keys, get(k) PROVE Journaled' /\ Knows'
  <2>1. Ready /\ lock' = lock /\ app' = app /\ \E kept \in BOOLEAN : Become(Get(Now, k, kept))
    BY <1>21 DEF get
  <2> QED BY <1>look, <2>1
<1>22. CASE evictAll
  <2>1. lock = <<>> /\ mem.initialized = TRUE /\ mem' = mem /\ disk' = disk /\ app' = app /\ lock' = <<"evict">>
    BY <1>0, <1>22 DEF evictAll, Ready, Free
  <2> QED BY <1>free, <1>same, <2>1, UsedLock, CalmJournal
<1>23. CASE evictNext
  <2>1. /\ lock' \in {lock, <<>>}
        /\ \/ Head(mem.lru) \in Keys /\ Removed(Now, Then, Head(mem.lru))
           \/ Head(mem.lru) \in Keys /\ Detached(Now, Then, Head(mem.lru))
           \/ disk' = disk /\ Alike(mem, mem')
    BY <1>0, <1>23, EvictEffect
  <2>2. lock = <<"evict">> /\ mem.initialized = TRUE /\ app' = app
    BY <1>0, <1>23, HeldFor DEF evictNext
  <2>3. InUse(lock) /\ InUse(lock') /\ lock # <<"publish">> /\ lock' # <<"publish">>
    BY <1>free, <2>1, <2>2, UsedLock
  <2> QED BY <2>1, <2>2, <2>3, CalmJournal
<1>24. CASE cleanStart
  <2>1. Free /\ mem.initialized = TRUE /\ mem' = mem /\ disk' = disk /\ lock' = lock /\ app' = app
    BY <1>0, <1>24 DEF cleanStart, Ready
  <2> QED BY <1>calm, <1>same, <2>1
<1>25. CASE cleanNext
  <2>1. (disk' = disk /\ mem' = mem) \/ \E k \in Keys : Removed(Now, Then, k)
    BY <1>0, <1>25, CleanNextEffect
  <2>2. Free /\ mem.initialized = TRUE /\ lock' = lock /\ app' = app
    BY <1>0, <1>25 DEF cleanNext, Ready
  <2> QED BY <1>calm, <1>same, <2>1, <2>2
<1>26. CASE cleanRemove
  <2>1. (disk' = disk /\ Alike(mem, mem')) \/ \E k \in Keys : Removed(Now, Then, k)
    BY <1>0, <1>26, CleanRemoveEffect
  <2>2. Free /\ mem.initialized = TRUE /\ lock' = lock /\ app' = app
    BY <1>0, <1>26 DEF cleanRemove, Ready
  <2> QED BY <1>calm, <2>1, <2>2
<1>26a. CASE cleanRemoveFails
  <2>1. \E k \in Keys : Detached(Now, Then, k)
    BY <1>0, <1>26a, CleanRemoveFailsEffect
  <2>2. Free /\ mem.initialized = TRUE /\ lock' = lock /\ app' = app
    BY <1>0, <1>26a DEF cleanRemoveFails, Ready
  <2> QED BY <1>calm, <2>1, <2>2
<1>27. CASE restart
  BY <1>27, RestartJournal
<1> QED
  BY <1>1, <1>2, <1>3, <1>4, <1>5, <1>6, <1>7, <1>8, <1>9, <1>10, <1>11, <1>12, <1>13, <1>14,
     <1>15, <1>16, <1>17, <1>17a, <1>18, <1>19, <1>20, <1>21, <1>22, <1>23, <1>24, <1>25, <1>26,
     <1>26a, <1>27
  DEF Next

LEMMA InitJournal == Init => Journaled /\ Knows
<1> SUFFICES ASSUME Init PROVE Journaled /\ Knows
  OBVIOUS
<1>1. lock = <<>> /\ mem.initialized = FALSE /\ mem.journalWriter = "none" /\ disk.journal = NoFile
      /\ disk.backup = NoFile /\ app = 1
  BY DEF Init, Closed
<1>2. ~Loaded /\ ~Rebuilding(lock, "done") /\ \A s : ~At(s)
  BY <1>1 DEF Loaded, Rebuilding, At, Free
<1>3. OnDisk = NoFile /\ NoFile.app = 0
  BY <1>1 DEF OnDisk, NoFile
<1>4. NoFiles
  BY DEF Init, NoFiles
<1> QED BY <1>1, <1>2, <1>3, <1>4 DEF Journaled, Knows

LEMMA JournalInv ==
  ASSUME Base, Journaled, Knows, Gaps = FALSE
  PROVE  [Next]_vars => (Base /\ Journaled /\ Knows)'
<1>1. CASE Next
  BY <1>1, BaseStep, JournalStep
<1>2. CASE UNCHANGED vars
  <2>1. Base'
    BY <1>2, BaseStep
  <2>2. Journaled' /\ Knows'
    BY <1>2 DEF vars, Journaled, Knows, Covers, NoFiles, OnDisk, Loaded, Rebuilding, At, Free, Publishing
  <2> QED BY <2>1, <2>2
<1> QED BY <1>1, <1>2

\* "Flush the journal before creating files to prevent file leaks": whenever the process dies, the
\* journal that the next one finds has a line of every clean file, and tells of every temporary
\* file that it belongs to an unfinished edit, except of those that detach() failed to delete and
\* gave up. Through rebuilds of the journal and their failures, lost lines and failing deletions,
\* unless the process dies while the files of another version are being deleted.
THEOREM JournalCoversFiles ==
  ASSUME Gaps = FALSE
  PROVE  Spec => []NoLeak
<1>1. Base /\ Journaled => NoLeak
  <2> SUFFICES ASSUME Base, Journaled, OnDisk.app = app, NEW k \in Keys
               PROVE  /\ disk.clean[k] # NoVersion => LinesOf(OnDisk.lines, k) # {}
                      /\ disk.dirty[k] # NoVersion => Recovered[k].editor = Replayed
    BY DEF NoLeak
  <2>1. OnDisk.lines \in Seq(LineType)
    BY DEF Base, Types, DirType, FileType, OnDisk
  <2>2. /\ disk.clean[k] # NoVersion => KeepsClean(OnDisk.lines, <<>>, k)
        /\ disk.dirty[k] # NoVersion => TellsDirty(OnDisk.lines, <<>>, k)
    BY LostBuffer DEF Journaled, Covers
  <2>3. Recovered = Replay(OnDisk.lines)
    BY DEF Recovered
  <2> QED BY <2>1, <2>2, <2>3, ReplayKnows
<1> QED BY <1>1, InitBase, InitJournal, JournalInv, PTL DEF Spec

-----------------------------------------------------------------------------
(* The contents of the files through the steps of the writers. *)

LEMMA Numbers ==
  ASSUME Types
  PROVE  /\ count.stores \in Nat
         /\ \A w \in Writers : writer[w].ver \in Nat
         /\ \A k \in Keys : disk.clean[k] \in Nat /\ disk.dirty[k] \in Nat /\ disk.left[k] \in Nat
<1>1. \A v \in Versions \cup {NoVersion} : v \in Nat
  BY Constants DEF Versions, NoVersion
<1>2. count.stores \in Nat
  BY Constants DEF Types, CountType
<1>3. \A w \in Writers : writer[w].ver \in Nat
  BY <1>1 DEF Types, WriterType
<1>4. \A k \in Keys : disk.clean[k] \in Nat /\ disk.dirty[k] \in Nat /\ disk.left[k] \in Nat
  BY <1>1 DEF Types, DirType
<1> QED BY <1>2, <1>3, <1>4

\* No edit begins.
LEMMA NumberedStep ==
  ASSUME Numbered, Types, Types', count'.stores >= count.stores,
         \A k \in Keys : /\ disk'.clean[k] <= count.stores /\ disk'.dirty[k] <= count.stores
                         /\ disk'.left[k] <= count.stores,
         \A w \in Writers : writer'[w].pc # "idle" =>
           writer[w].pc # "idle" /\ writer'[w].ver = writer[w].ver
  PROVE  Numbered'
<1>0. /\ count.stores \in Nat /\ count'.stores \in Nat /\ \A w \in Writers : writer[w].ver \in Nat
      /\ \A k \in Keys : disk'.clean[k] \in Nat /\ disk'.dirty[k] \in Nat /\ disk'.left[k] \in Nat
  <2>1. count'.stores \in Nat
    BY Constants DEF Types, CountType
  <2>2. \A v \in Versions \cup {NoVersion} : v \in Nat
    BY Constants DEF Versions, NoVersion
  <2>3. \A k \in Keys : disk'.clean[k] \in Nat /\ disk'.dirty[k] \in Nat /\ disk'.left[k] \in Nat
    BY <2>2 DEF Types, DirType
  <2> QED BY Numbers, <2>1, <2>3
<1>1. \A w \in Writers : writer'[w].pc # "idle" => writer'[w].ver <= count'.stores
  BY <1>0 DEF Numbered
<1>2. \A v, w \in Writers : writer'[v].pc # "idle" /\ writer'[w].pc # "idle" /\ writer'[v].ver = writer'[w].ver
                              => v = w
  <2>1. \A v, w \in Writers : writer[v].pc # "idle" /\ writer[w].pc # "idle" /\ writer[v].ver = writer[w].ver
                                => v = w
    BY DEF Numbered
  <2> QED BY <2>1
<1>3. \A k \in Keys : /\ disk'.clean[k] <= count'.stores /\ disk'.dirty[k] <= count'.stores
                      /\ disk'.left[k] <= count'.stores
  BY <1>0
<1> QED BY <1>1, <1>2, <1>3 DEF Numbered

\* The steps that publish nothing and create no file: the files of k stay, go or are left.
NoNewFile(k) ==
  /\ disk'.clean[k] \in {disk.clean[k], NoVersion}
  /\ disk'.dirty[k] \in {disk.dirty[k], NoVersion}
  /\ \/ disk'.left[k] \in {disk.left[k], NoVersion}
     \/ disk'.left[k] = disk.dirty[k] /\ disk'.left[k] \in disk'.spoilt

\* A writer that keeps its version and has not lost what the others rely on.
Steady(w) ==
  \/ writer'[w] = writer[w]
  \/ writer'[w].pc = "idle" /\ writer[w].pc \notin {"publish", "close"}
  \/ /\ writer[w].pc # "idle" /\ writer'[w].ver = writer[w].ver
     /\ writer'[w].pc \in Editing \ {"publish"} => writer[w].pc \in Editing \ {"publish"}
     /\ writer[w].pc \in {"publish", "close"} /\ writer[w].sink = TRUE =>
          writer'[w].pc \in {"publish", "close"} /\ writer'[w].sink = TRUE
     /\ ~(writer'[w].pc = "commit" /\ writer'[w].sink = TRUE)
     /\ \A k \in Keys : mem.entry[k].editor = w =>
          \/ disk'.dirty[k] = NoVersion
          \/ writer'[w].sink = writer[w].sink /\ writer'[w].pc \in {"data", "commit", "abort"}

LEMMA StoredCalm ==
  ASSUME Stored, Types, Types', Edits', NobodyStuck', body' = body, count'.stores >= count.stores,
         disk.spoilt \subseteq disk'.spoilt, \A k \in Keys : NoNewFile(k),
         mem'.initialized = TRUE => \A k \in Keys : disk'.dirty[k] # NoVersion =>
           mem.initialized = TRUE /\ mem'.entry[k].editor \in {mem.entry[k].editor, Stuck},
         \A w \in Writers : Steady(w)
  PROVE  Stored'
<1>1. Numbered'
  <2>1. \A w \in Writers : writer'[w].pc # "idle" => writer[w].pc # "idle" /\ writer'[w].ver = writer[w].ver
    BY DEF Steady
  <2>2. \A k \in Keys : /\ disk'.clean[k] <= count.stores /\ disk'.dirty[k] <= count.stores
                        /\ disk'.left[k] <= count.stores
    <3>1. NoVersion <= count.stores
      BY Numbers DEF NoVersion
    <3> QED BY <3>1 DEF Stored, Numbered, NoNewFile
  <2> QED BY <2>1, <2>2, NumberedStep DEF Stored
<1>2. Owned'
  <2> SUFFICES ASSUME mem'.initialized = TRUE, NEW k \in Keys, disk'.dirty[k] # NoVersion,
                      mem'.entry[k].editor # Stuck
               PROVE  /\ mem'.entry[k].editor \in Writers
                      /\ LET s == writer'[mem'.entry[k].editor]
                         IN s.ver = disk'.dirty[k] /\ s.sink = TRUE /\ s.pc \in {"data", "commit", "abort"}
    BY DEF Owned
  <2>1. /\ mem.initialized = TRUE /\ mem'.entry[k].editor = mem.entry[k].editor
        /\ disk'.dirty[k] = disk.dirty[k]
    BY DEF NoNewFile
  <2>2. PICK w \in Writers : w = mem.entry[k].editor
    BY <2>1 DEF Stored, Owned
  <2>3. writer[w].ver = disk.dirty[k] /\ writer[w].sink = TRUE /\ writer[w].pc \in {"data", "commit", "abort"}
    BY <2>1, <2>2 DEF Stored, Owned
  <2>4. writer'[w].pc # "idle"
    BY <2>1, <2>2 DEF Edits, Editing
  <2>5. writer'[w].ver = disk.dirty[k] /\ writer'[w].sink = TRUE /\ writer'[w].pc \in {"data", "commit", "abort"}
    BY <2>2, <2>3, <2>4 DEF Steady
  <2> QED BY <2>1, <2>2, <2>5
<1>3. \A k \in Keys : disk'.left[k] # NoVersion => disk'.left[k] \in disk'.spoilt
  BY DEF Stored, Filled, NoNewFile
<1>4. \A w \in Writers, k \in Keys :
        writer'[w].pc \in Editing \ {"publish"} /\ disk'.clean[k] = writer'[w].ver => writer'[w].ver \in disk'.spoilt
  <2> SUFFICES ASSUME NEW w \in Writers, NEW k \in Keys, writer'[w].pc \in Editing \ {"publish"},
                      disk'.clean[k] = writer'[w].ver
               PROVE  writer'[w].ver \in disk'.spoilt
    OBVIOUS
  <2>1. writer[w].pc \in Editing \ {"publish"} /\ writer'[w].ver = writer[w].ver
    BY DEF Steady, Editing
  <2>2. disk'.clean[k] # NoVersion
    <3>1. writer[w].ver \in Versions
      BY <2>1 DEF Types, Editing
    <3> QED BY <2>1, <3>1, Constants DEF Versions, NoVersion
  <2>3. disk'.clean[k] = disk.clean[k]
    BY <2>2 DEF NoNewFile
  <2> QED BY <2>1, <2>3 DEF Stored, Filled
<1>5. \A w \in Writers : writer'[w].pc = "commit" /\ writer'[w].sink = TRUE => body'[writer'[w].ver] # "part"
  BY DEF Stored, Filled, Steady
<1>6. ASSUME NEW k \in Keys, disk'.clean[k] # NoVersion PROVE Written(disk.clean[k])' /\ disk'.clean[k] = disk.clean[k]
  <2> DEFINE v == disk.clean[k]
  <2>1. disk'.clean[k] = v /\ Written(v)
    BY <1>6 DEF Stored, Filled, NoNewFile
  <2> HIDE DEF v
  <2>2. \A w \in Writers : writer[w].ver = v /\ writer[w].pc \in {"publish", "close"} /\ writer[w].sink = TRUE =>
          writer'[w].ver = v /\ writer'[w].pc \in {"publish", "close"} /\ writer'[w].sink = TRUE
    BY DEF Steady
  <2>3. disk'.clean[k] \notin disk'.spoilt =>
          /\ body'[disk'.clean[k]] # "part"
          /\ body'[disk'.clean[k]] = "body" =>
               \E w \in Writers : writer'[w].ver = disk'.clean[k] /\ writer'[w].pc \in {"publish", "close"}
                                    /\ writer'[w].sink = TRUE
    BY <2>1, <2>2 DEF Written
  <2>4. disk'.clean[k] = disk.clean[k]
    BY <2>1 DEF v
  <2> QED BY <2>3, <2>4 DEF Written
<1>7. Filled'
  BY <1>3, <1>4, <1>5, <1>6 DEF Filled
<1> QED BY <1>1, <1>2, <1>7 DEF Stored

\* v is a version that was written, and none of its writers is gone.
LEMMA WrittenStays ==
  ASSUME NEW v, Written(v), disk.spoilt \subseteq disk'.spoilt, body'[v] = body[v],
         \A w \in Writers : writer[w].ver = v /\ writer[w].pc \in {"publish", "close"} /\ writer[w].sink = TRUE =>
           writer'[w].ver = v /\ writer'[w].pc \in {"publish", "close"} /\ writer'[w].sink = TRUE
  PROVE  Written(v)'
BY DEF Written

\* edit(): a new version, which is in no file.
LEMMA StoredBegins ==
  ASSUME Stored, Types, Types', NEW w \in Writers, NEW k \in Keys, edit(w, k), mem.initialized = TRUE,
         Started(Now, Then, k, w),
         writer' = [writer EXCEPT ![w] = [pc |-> "sink", key |-> k, ver |-> count.stores + 1,
                                          sink |-> FALSE, own |-> <<>>]]
  PROVE  Stored'
<1>0. /\ count'.stores = count.stores + 1 /\ body' = body /\ writer[w].pc = "idle"
      /\ writer \in [Writers -> WriterType]
  BY SpendStores DEF Types, edit
<1>1. /\ disk'.clean = disk.clean /\ disk'.dirty = disk.dirty /\ disk'.left = disk.left
      /\ disk'.spoilt = disk.spoilt /\ mem.entry[k].editor = Nobody /\ mem'.initialized = TRUE
      /\ \A x \in Keys \ {k} : mem'.entry[x] = mem.entry[x]
  BY DEF Started, SameLeft, Now, Then
<1>2. /\ writer'[w].pc = "sink" /\ writer'[w].ver = count.stores + 1 /\ writer'[w].sink = FALSE
      /\ \A x \in Writers \ {w} : writer'[x] = writer[x]
  BY <1>0
<1>3. \A x \in Writers : writer[x].pc # "idle" => writer[x].ver # count.stores + 1
  BY Numbers DEF Stored, Numbered
<1>4. \A x \in Keys : /\ disk.clean[x] # count.stores + 1 /\ disk.clean[x] <= count.stores + 1
                      /\ disk.dirty[x] <= count.stores + 1 /\ disk.left[x] <= count.stores + 1
  BY Numbers DEF Stored, Numbered
<1>5. Numbered'
  <2>1. \A x \in Writers : writer'[x].pc # "idle" => writer'[x].ver <= count'.stores
    BY <1>0, <1>2, Numbers DEF Stored, Numbered
  <2>2. \A x, y \in Writers : writer'[x].pc # "idle" /\ writer'[y].pc # "idle" /\ writer'[x].ver = writer'[y].ver
                                => x = y
    <3>1. \A x, y \in Writers : writer[x].pc # "idle" /\ writer[y].pc # "idle" /\ writer[x].ver = writer[y].ver
                                  => x = y
      BY DEF Stored, Numbered
    <3> QED BY <1>2, <1>3, <3>1
  <2> QED BY <1>0, <1>1, <1>4, <2>1, <2>2 DEF Numbered
<1>6. Owned'
  <2> SUFFICES ASSUME NEW x \in Keys, disk'.dirty[x] # NoVersion, mem'.entry[x].editor # Stuck
               PROVE  /\ mem'.entry[x].editor \in Writers
                      /\ LET s == writer'[mem'.entry[x].editor]
                         IN s.ver = disk'.dirty[x] /\ s.sink = TRUE /\ s.pc \in {"data", "commit", "abort"}
    BY DEF Owned
  <2>1. x # k
    BY <1>1, Constants DEF Stored, Owned
  <2>2. mem'.entry[x].editor = mem.entry[x].editor /\ disk'.dirty[x] = disk.dirty[x]
    BY <1>1, <2>1
  <2>3. PICK v \in Writers : v = mem.entry[x].editor
    BY <2>2 DEF Stored, Owned
  <2>4. writer[v].ver = disk.dirty[x] /\ writer[v].sink = TRUE /\ writer[v].pc \in {"data", "commit", "abort"}
    BY <2>2, <2>3 DEF Stored, Owned
  <2>5. v # w
    BY <1>0, <2>4
  <2> QED BY <1>2, <2>2, <2>3, <2>4, <2>5
<1>7. ASSUME NEW x \in Keys, disk'.clean[x] # NoVersion PROVE Written(disk.clean[x])'
  <2>1. PICK v : v = disk.clean[x]
    OBVIOUS
  <2>2. Written(v)
    BY <1>1, <1>7, <2>1 DEF Stored, Filled
  <2>3. Written(v)'
    BY <1>0, <1>1, <1>2, <2>2, WrittenStays
  <2> QED BY <1>1, <2>1, <2>3 DEF Written
<1>8. Filled'
  <2>1. \A x \in Keys : disk'.left[x] # NoVersion => disk'.left[x] \in disk'.spoilt
    BY <1>1 DEF Stored, Filled
  <2>2. \A x \in Writers, y \in Keys :
          writer'[x].pc \in Editing \ {"publish"} /\ disk'.clean[y] = writer'[x].ver => writer'[x].ver \in disk'.spoilt
    BY <1>1, <1>2, <1>4 DEF Stored, Filled
  <2>3. \A x \in Writers : writer'[x].pc = "commit" /\ writer'[x].sink = TRUE => body'[writer'[x].ver] # "part"
    BY <1>0, <1>2 DEF Stored, Filled
  <2> QED BY <1>7, <2>1, <2>2, <2>3 DEF Filled
<1> QED BY <1>1, <1>5, <1>6, <1>8 DEF Stored, NobodyStuck

\* newSink(): the temporary file holds the version of the editor.
LEMMA StoredSink ==
  ASSUME Stored, Types, Types', Edits, Edits', NEW w \in Writers, newSink(w), mem.initialized = TRUE
  PROVE  Stored'
<1> DEFINE k == writer[w].key
           v == writer[w].ver
<1>0. /\ disk'.clean = disk.clean /\ disk.spoilt \subseteq disk'.spoilt /\ count'.stores = count.stores
      /\ k \in Keys /\ v \in Versions /\ writer[w].pc = "sink" /\ Moved(w, "data")
      /\ \/ /\ Current(w) /\ writer'[w].sink = TRUE
            /\ disk'.dirty = [disk.dirty EXCEPT ![k] = v] /\ disk'.left = [disk.left EXCEPT ![k] = NoVersion]
         \/ writer'[w].sink = FALSE /\ disk' = disk
      /\ disk.dirty \in [Keys -> Versions \cup {NoVersion}] /\ disk.left \in [Keys -> Versions \cup {NoVersion}]
  BY SinkEffect DEF Types, DirType
<1>1. body' = body /\ mem' = mem /\ count'.stores >= count.stores /\ NobodyStuck'
  BY <1>0, Numbers DEF newSink, NobodyStuck
<1>2. /\ writer'[w].pc = "data" /\ writer'[w].ver = v /\ \A x \in Writers \ {w} : writer'[x] = writer[x]
  BY <1>0 DEF Moved
<1>3. \A x \in Keys : mem.entry[x].editor = w => disk.dirty[x] = NoVersion \/ mem.entry[x].editor = Stuck
  BY <1>0 DEF Stored, Owned
<1>3a. \A x \in Keys : mem.entry[x].editor = w => disk.dirty[x] = NoVersion
  BY <1>3, Constants
<1> HIDE DEF k
<1>4. CASE writer'[w].sink = FALSE /\ disk' = disk
  <2>1. Steady(w)
    BY <1>0, <1>2, <1>3a, <1>4 DEF Steady, Editing
  <2>2. \A x \in Writers : Steady(x)
    BY <1>2, <2>1 DEF Steady
  <2>3. \A x \in Keys : NoNewFile(x)
    BY <1>4 DEF NoNewFile
  <2> QED BY <1>1, <1>4, <2>2, <2>3, StoredCalm
<1>5. CASE /\ Current(w) /\ writer'[w].sink = TRUE
           /\ disk'.dirty = [disk.dirty EXCEPT ![k] = v] /\ disk'.left = [disk.left EXCEPT ![k] = NoVersion]
  <2>1. mem.entry[k].editor = w
    BY <1>5 DEF Current, Edits, k
  <2>2. v <= count.stores
    BY <1>0 DEF Stored, Numbered
  <2> HIDE DEF v
  <2>3. /\ disk'.dirty[k] = v /\ disk'.left[k] = NoVersion
        /\ \A x \in Keys \ {k} : disk'.dirty[x] = disk.dirty[x] /\ disk'.left[x] = disk.left[x]
    BY <1>0, <1>5
  <2>4. Numbered'
    <3>1. \A x \in Writers : writer'[x].pc # "idle" => writer[x].pc # "idle" /\ writer'[x].ver = writer[x].ver
      BY <1>0, <1>2 DEF v
    <3>2. NoVersion <= count.stores
      BY Numbers DEF NoVersion
    <3>3. \A x \in Keys : /\ disk'.clean[x] <= count.stores /\ disk'.dirty[x] <= count.stores
                          /\ disk'.left[x] <= count.stores
      BY <1>0, <2>2, <2>3, <3>2 DEF Stored, Numbered
    <3> QED BY <1>1, <3>1, <3>3, NumberedStep DEF Stored
  <2>5. Owned'
    <3> SUFFICES ASSUME NEW x \in Keys, disk'.dirty[x] # NoVersion, mem'.entry[x].editor # Stuck
                 PROVE  /\ mem'.entry[x].editor \in Writers
                        /\ LET s == writer'[mem'.entry[x].editor]
                           IN s.ver = disk'.dirty[x] /\ s.sink = TRUE /\ s.pc \in {"data", "commit", "abort"}
      BY DEF Owned
    <3>1. CASE x = k
      BY <1>1, <1>2, <1>5, <2>1, <2>3, <3>1
    <3>2. CASE x # k
      <4>1. disk.dirty[x] # NoVersion /\ disk'.dirty[x] = disk.dirty[x] /\ mem'.entry[x] = mem.entry[x]
        BY <1>1, <2>3, <3>2
      <4>2. PICK y \in Writers : y = mem.entry[x].editor
        BY <4>1 DEF Stored, Owned
      <4>3. writer[y].ver = disk.dirty[x] /\ writer[y].sink = TRUE /\ writer[y].pc \in {"data", "commit", "abort"}
        BY <4>1, <4>2 DEF Stored, Owned
      <4>4. writer'[y] = writer[y]
        BY <1>0, <1>2, <4>3
      <4> QED BY <4>1, <4>2, <4>3, <4>4
    <3> QED BY <3>1, <3>2
  <2>6. ASSUME NEW x \in Keys, disk'.clean[x] # NoVersion PROVE Written(disk.clean[x])'
    <3>1. PICK u : u = disk.clean[x]
      OBVIOUS
    <3>2. Written(u)
      BY <1>0, <2>6, <3>1 DEF Stored, Filled
    <3>3. \A y \in Writers : writer[y].pc \in {"publish", "close"} => writer'[y] = writer[y]
      BY <1>0, <1>2
    <3>4. Written(u)'
      BY <1>0, <1>1, <3>2, <3>3, WrittenStays
    <3> QED BY <1>0, <3>1, <3>4 DEF Written
  <2>7. Filled'
    <3>1. \A x \in Keys : disk'.left[x] # NoVersion => disk'.left[x] \in disk'.spoilt
      BY <1>0, <2>3 DEF Stored, Filled
    <3>2. \A x \in Writers : writer'[x].pc \in Editing \ {"publish"} =>
            writer[x].pc \in Editing \ {"publish"} /\ writer'[x].ver = writer[x].ver
      BY <1>0, <1>2 DEF Editing, v
    <3>3. \A x \in Writers, y \in Keys :
            writer'[x].pc \in Editing \ {"publish"} /\ disk'.clean[y] = writer'[x].ver => writer'[x].ver \in disk'.spoilt
      BY <1>0, <3>2 DEF Stored, Filled
    <3>4. \A x \in Writers : writer'[x].pc = "commit" /\ writer'[x].sink = TRUE => body'[writer'[x].ver] # "part"
      BY <1>1, <1>2 DEF Stored, Filled
    <3> QED BY <2>6, <3>1, <3>3, <3>4 DEF Filled
  <2> QED BY <1>1, <2>4, <2>5, <2>7 DEF Stored
<1> QED BY <1>0, <1>4, <1>5 DEF k, v

\* write(): the version gets its contents before it can become a clean file.
LEMMA StoredWrite ==
  ASSUME Stored, Types, Types', NEW w \in Writers, write(w), mem.initialized = TRUE
  PROVE  Stored'
<1> DEFINE v == writer[w].ver
<1>0. /\ disk' = disk /\ mem' = mem /\ count' = count /\ writer[w].pc = "data"
      /\ writer \in [Writers -> WriterType] /\ v \in Versions
      /\ body \in [Versions -> {"part", "body", "whole", "cut"}]
      /\ \A x \in Writers : writer[x].pc # "idle" => writer[x].ver \in Versions
  BY DEF Types, write
<1>1. /\ writer'[w].pc = "commit" /\ writer'[w].ver = v /\ writer'[w].sink = writer[w].sink
      /\ \A x \in Writers \ {w} : writer'[x] = writer[x]
  <2>1. writer' = [writer EXCEPT ![w] = [writer[w] EXCEPT !.pc = "commit"]]
    BY <1>0 DEF write, Goto
  <2> QED BY <1>0, <2>1 DEF WriterType
<1>2. body' = IF writer[w].sink = TRUE THEN [body EXCEPT ![v] = "body"] ELSE body
  BY <1>0 DEF write, WriterType
<1>3. \A u \in Versions : u # v => body'[u] = body[u]
  BY <1>0, <1>2
<1>4. writer[w].sink = TRUE => body'[v] # "part"
  BY <1>0, <1>2
<1>5. \A x \in Writers : writer'[x].pc # "idle" => writer[x].pc # "idle" /\ writer'[x].ver = writer[x].ver
  BY <1>0, <1>1
<1>6. \A x, y \in Writers : writer[x].pc # "idle" /\ writer[y].pc # "idle" /\ writer[x].ver = writer[y].ver
                              => x = y
  BY DEF Stored, Numbered
<1>7. \A x \in Keys : disk.clean[x] = v => v \in disk.spoilt
  BY <1>0 DEF Stored, Filled, Editing
<1> HIDE DEF v
<1>8. Numbered'
  <2>1. count'.stores >= count.stores
    BY <1>0, Numbers
  <2> QED BY <1>0, <1>5, <2>1, NumberedStep DEF Stored, Numbered
<1>9. Owned'
  <2> SUFFICES ASSUME NEW x \in Keys, disk'.dirty[x] # NoVersion, mem'.entry[x].editor # Stuck
               PROVE  /\ mem'.entry[x].editor \in Writers
                      /\ LET s == writer'[mem'.entry[x].editor]
                         IN s.ver = disk'.dirty[x] /\ s.sink = TRUE /\ s.pc \in {"data", "commit", "abort"}
    BY DEF Owned
  <2>1. PICK y \in Writers : y = mem.entry[x].editor
    BY <1>0 DEF Stored, Owned
  <2>2. writer[y].ver = disk.dirty[x] /\ writer[y].sink = TRUE /\ writer[y].pc \in {"data", "commit", "abort"}
    BY <1>0, <2>1 DEF Stored, Owned
  <2>3. writer'[y].ver = writer[y].ver /\ writer'[y].sink = writer[y].sink
        /\ writer'[y].pc \in {"data", "commit", "abort"}
    BY <1>1, <2>2 DEF v
  <2> QED BY <1>0, <2>1, <2>2, <2>3
<1>10. \A x \in Keys : disk'.left[x] # NoVersion => disk'.left[x] \in disk'.spoilt
  BY <1>0 DEF Stored, Filled
<1>11. \A x \in Writers, y \in Keys :
         writer'[x].pc \in Editing \ {"publish"} /\ disk'.clean[y] = writer'[x].ver => writer'[x].ver \in disk'.spoilt
  BY <1>0, <1>1, <1>7 DEF Stored, Filled
<1>12. ASSUME NEW x \in Writers, writer'[x].pc = "commit", writer'[x].sink = TRUE
       PROVE  body'[writer'[x].ver] # "part"
  <2>1. CASE x = w
    BY <1>1, <1>4, <1>12, <2>1
  <2>2. CASE x # w
    <3>1. writer[x].ver # v /\ writer[x].ver \in Versions /\ body[writer[x].ver] # "part" /\ writer'[x] = writer[x]
      BY <1>0, <1>1, <1>6, <1>12, <2>2 DEF Stored, Filled, v
    <3> QED BY <1>3, <3>1
  <2> QED BY <2>1, <2>2
<1>13. ASSUME NEW x \in Keys, disk'.clean[x] # NoVersion PROVE Written(disk.clean[x])'
  <2>1. PICK u : u = disk.clean[x]
    OBVIOUS
  <2>2. Written(u) /\ u \in Versions
    BY <1>0, <1>13, <2>1 DEF Stored, Filled, Types, DirType
  <2>3. CASE u = v
    BY <1>0, <1>7, <2>1, <2>3 DEF Written
  <2>4. CASE u # v
    <3>1. \A y \in Writers : writer[y].pc \in {"publish", "close"} => writer'[y] = writer[y]
      BY <1>0, <1>1
    <3>2. Written(u)'
      BY <1>0, <1>3, <2>2, <2>4, <3>1, WrittenStays
    <3> QED BY <1>0, <2>1, <3>2 DEF Written
  <2> QED BY <2>3, <2>4
<1> QED BY <1>0, <1>8, <1>9, <1>10, <1>11, <1>12, <1>13 DEF Stored, NobodyStuck, Filled

\* close(): the last block, or an error.
LEMMA StoredClose ==
  ASSUME Stored, Types, Types', NEW w \in Writers, close(w), mem.initialized = TRUE
  PROVE  Stored'
<1> DEFINE v == writer[w].ver
<1>0. /\ disk' = disk /\ mem' = mem /\ writer[w].pc = "close"
      /\ writer \in [Writers -> WriterType] /\ v \in Versions
      /\ body \in [Versions -> {"part", "body", "whole", "cut"}]
      /\ \A x \in Writers : writer[x].pc # "idle" => writer[x].ver \in Versions
      /\ count \in CountType
  BY DEF Types, close
<1>1. /\ writer'[w].pc = "check" /\ writer'[w].ver = v /\ writer'[w].sink = writer[w].sink
      /\ \A x \in Writers \ {w} : writer'[x] = writer[x]
  <2>1. writer' = [writer EXCEPT ![w] = [writer[w] EXCEPT !.pc = "check"]]
    BY <1>0 DEF close, Goto
  <2> QED BY <1>0, <2>1 DEF WriterType
<1>2. PICK bad \in BOOLEAN :
        /\ MayFail(bad)
        /\ body' = IF writer[w].sink THEN [body EXCEPT ![v] = IF bad THEN "cut" ELSE "whole"] ELSE body
  BY DEF close
<1>3. \A u \in Versions : body'[u] \in {body[u], "whole", "cut"}
  BY <1>0, <1>2
<1>4. writer[w].sink = TRUE => body'[v] \in {"whole", "cut"}
  BY <1>0, <1>2
<1>5. \A x \in Writers : writer'[x].pc # "idle" => writer[x].pc # "idle" /\ writer'[x].ver = writer[x].ver
  BY <1>0, <1>1
<1> HIDE DEF v
<1>6. Numbered'
  <2>1. count'.stores = count.stores
    BY <1>0, <1>2, MayFailFacts
  <2>2. count'.stores >= count.stores
    BY <2>1, Numbers
  <2> QED BY <1>0, <1>5, <2>2, NumberedStep DEF Stored, Numbered
<1>7. Owned'
  <2> SUFFICES ASSUME NEW x \in Keys, disk'.dirty[x] # NoVersion, mem'.entry[x].editor # Stuck
               PROVE  /\ mem'.entry[x].editor \in Writers
                      /\ LET s == writer'[mem'.entry[x].editor]
                         IN s.ver = disk'.dirty[x] /\ s.sink = TRUE /\ s.pc \in {"data", "commit", "abort"}
    BY DEF Owned
  <2>1. PICK y \in Writers : y = mem.entry[x].editor
    BY <1>0 DEF Stored, Owned
  <2>2. writer[y].ver = disk.dirty[x] /\ writer[y].sink = TRUE /\ writer[y].pc \in {"data", "commit", "abort"}
    BY <1>0, <2>1 DEF Stored, Owned
  <2>3. writer'[y] = writer[y]
    BY <1>0, <1>1, <2>2
  <2> QED BY <1>0, <2>1, <2>2, <2>3
<1>8. \A x \in Keys : disk'.left[x] # NoVersion => disk'.left[x] \in disk'.spoilt
  BY <1>0 DEF Stored, Filled
<1>9. \A x \in Writers, y \in Keys :
        writer'[x].pc \in Editing \ {"publish"} /\ disk'.clean[y] = writer'[x].ver => writer'[x].ver \in disk'.spoilt
  BY <1>0, <1>1 DEF Stored, Filled, Editing
<1>10. ASSUME NEW x \in Writers, writer'[x].pc = "commit", writer'[x].sink = TRUE
       PROVE  body'[writer'[x].ver] # "part"
  <2>1. writer'[x] = writer[x] /\ writer[x].ver \in Versions /\ body[writer[x].ver] # "part"
    BY <1>0, <1>1, <1>10 DEF Stored, Filled
  <2>2. body'[writer[x].ver] \in {body[writer[x].ver], "whole", "cut"}
    BY <1>3, <2>1
  <2> QED BY <2>1, <2>2
<1>11. ASSUME NEW x \in Keys, disk'.clean[x] # NoVersion PROVE Written(disk.clean[x])'
  <2>1. PICK u : u = disk.clean[x]
    OBVIOUS
  <2>2. Written(u) /\ u \in Versions
    BY <1>0, <1>11, <2>1 DEF Stored, Filled, Types, DirType
  <2>3. body'[u] \in {body[u], "whole", "cut"}
    BY <1>3, <2>2
  <2>4. ASSUME u \notin disk.spoilt, body'[u] = "body"
        PROVE  \E y \in Writers : writer'[y].ver = u /\ writer'[y].pc \in {"publish", "close"}
                                    /\ writer'[y].sink = TRUE
    <3>1. PICK y \in Writers : writer[y].ver = u /\ writer[y].pc \in {"publish", "close"} /\ writer[y].sink = TRUE
      BY <2>2, <2>3, <2>4 DEF Written
    <3>2. y # w
      BY <1>4, <2>4, <3>1 DEF v
    <3> QED BY <1>1, <3>1, <3>2
  <2>5. u \notin disk.spoilt => body'[u] # "part"
    BY <2>2, <2>3 DEF Written
  <2> QED BY <1>0, <2>1, <2>4, <2>5 DEF Written
<1> QED BY <1>0, <1>6, <1>7, <1>8, <1>9, <1>10, <1>11 DEF Stored, NobodyStuck, Filled

\* commit(): the version of the editor becomes the clean file, or the one of a file that was left.
LEMMA StoredRename ==
  ASSUME Stored, Types, Types', Edits, NEW w \in Writers, writer[w].pc = "commit", mem.initialized = TRUE,
         mem.entry[writer[w].key].editor = w, TempFile(disk, writer[w].key) # NoVersion,
         Renamed(Now, Then, writer[w].key), Moved(w, "publish"), writer'[w].sink = writer[w].sink,
         body' = body, count'.stores = count.stores
  PROVE  Stored'
<1> DEFINE k == writer[w].key
           v == writer[w].ver
           t == TempFile(disk, k)
<1>0. /\ k \in Keys /\ disk.clean \in [Keys -> Versions \cup {NoVersion}]
      /\ disk.dirty \in [Keys -> Versions \cup {NoVersion}] /\ disk.left \in [Keys -> Versions \cup {NoVersion}]
      /\ mem.entry \in [Keys -> EntryType]
  BY DEF Types, DirType, MemType
<1>1. /\ writer'[w].pc = "publish" /\ writer'[w].ver = v
      /\ \A x \in Writers \ {w} : writer'[x] = writer[x]
  BY DEF Moved
<1>2. /\ disk'.clean = [disk.clean EXCEPT ![k] = t] /\ disk'.dirty = [disk.dirty EXCEPT ![k] = NoVersion]
      /\ disk'.left = [disk.left EXCEPT ![k] = NoVersion] /\ disk'.spoilt = disk.spoilt
      /\ mem'.entry = [mem.entry EXCEPT ![k].len = 1] /\ mem'.initialized = TRUE
  BY DEF Renamed, Now, Then
<1>3. \/ t = v /\ writer[w].sink = TRUE /\ writer'[w].sink = TRUE
      \/ t \in disk.spoilt
  <2>1. CASE disk.dirty[k] # NoVersion
    <3>1. t = disk.dirty[k]
      BY <2>1 DEF TempFile
    <3>2. mem.entry[k].editor # Stuck
      BY Constants
    <3>3. writer[w].ver = disk.dirty[k] /\ writer[w].sink = TRUE
      BY <1>0, <2>1, <3>2 DEF Stored, Owned
    <3> QED BY <3>1, <3>3
  <2>2. CASE disk.dirty[k] = NoVersion
    <3>1. t = disk.left[k]
      BY <2>2 DEF TempFile
    <3> QED BY <1>0, <3>1 DEF Stored, Filled
  <2> QED BY <2>1, <2>2
<1>4. t <= count.stores
  BY <1>0 DEF Stored, Numbered, TempFile
<1>5. \A x \in Keys \ {k} : mem.entry[x].editor # w
  BY <1>0 DEF Edits
<1>6. writer[w].sink = TRUE => body[v] # "part"
  BY DEF Stored, Filled
<1>7. \A x \in Writers \ {w} : writer[x].pc # "idle" => writer[x].ver # v
  BY DEF Stored, Numbered
<1> HIDE DEF t
<1>8. /\ disk'.clean[k] = t /\ disk'.dirty[k] = NoVersion /\ disk'.left[k] = NoVersion
      /\ \A x \in Keys \ {k} : /\ disk'.clean[x] = disk.clean[x] /\ disk'.dirty[x] = disk.dirty[x]
                               /\ disk'.left[x] = disk.left[x] /\ mem'.entry[x] = mem.entry[x]
  <2> HIDE DEF k
  <2> QED BY <1>0, <1>2
<1>9. Numbered'
  <2>1. \A x \in Writers : writer'[x].pc # "idle" => writer[x].pc # "idle" /\ writer'[x].ver = writer[x].ver
    BY <1>1
  <2>2. NoVersion <= count.stores /\ count'.stores >= count.stores
    BY Numbers DEF NoVersion
  <2> HIDE DEF k
  <2>3. \A x \in Keys : /\ disk'.clean[x] <= count.stores /\ disk'.dirty[x] <= count.stores
                        /\ disk'.left[x] <= count.stores
    BY <1>4, <1>8, <2>2 DEF Stored, Numbered
  <2> QED BY <2>1, <2>2, <2>3, NumberedStep DEF Stored
<1>10. Owned'
  <2> SUFFICES ASSUME NEW x \in Keys, disk'.dirty[x] # NoVersion, mem'.entry[x].editor # Stuck
               PROVE  /\ mem'.entry[x].editor \in Writers
                      /\ LET s == writer'[mem'.entry[x].editor]
                         IN s.ver = disk'.dirty[x] /\ s.sink = TRUE /\ s.pc \in {"data", "commit", "abort"}
    BY DEF Owned
  <2>1. x # k
    BY <1>8
  <2>2. disk'.dirty[x] = disk.dirty[x] /\ mem'.entry[x] = mem.entry[x]
    BY <1>8, <2>1
  <2>3. PICK y \in Writers : y = mem.entry[x].editor
    BY <2>2 DEF Stored, Owned
  <2>4. writer[y].ver = disk.dirty[x] /\ writer[y].sink = TRUE /\ writer[y].pc \in {"data", "commit", "abort"}
    BY <2>2, <2>3 DEF Stored, Owned
  <2>5. writer'[y] = writer[y]
    BY <1>1, <1>5, <2>1, <2>3
  <2> QED BY <2>2, <2>3, <2>4, <2>5
<1>11. \A x \in Keys : disk'.left[x] # NoVersion => disk'.left[x] \in disk'.spoilt
  <2> HIDE DEF k
  <2> QED BY <1>2, <1>8 DEF Stored, Filled
<1>12. ASSUME NEW x \in Writers, NEW y \in Keys, writer'[x].pc \in Editing \ {"publish"},
              disk'.clean[y] = writer'[x].ver
       PROVE  writer'[x].ver \in disk'.spoilt
  <2>1. x # w /\ writer'[x] = writer[x] /\ writer[x].pc \in Editing \ {"publish"} /\ writer[x].pc # "idle"
    BY <1>1, <1>12 DEF Editing
  <2>2. CASE y = k
    BY <1>2, <1>3, <1>7, <1>8, <1>12, <2>1, <2>2
  <2>3. CASE y # k
    BY <1>2, <1>8, <1>12, <2>1, <2>3 DEF Stored, Filled
  <2> QED BY <2>2, <2>3
<1>13. \A x \in Writers : writer'[x].pc = "commit" /\ writer'[x].sink = TRUE => body'[writer'[x].ver] # "part"
  BY <1>1 DEF Stored, Filled
<1>14. ASSUME NEW x \in Keys, disk'.clean[x] # NoVersion PROVE Written(disk.clean[x])'
  <2>1. CASE x = k
    BY <1>1, <1>2, <1>3, <1>6, <1>8, <2>1 DEF Written
  <2>2. CASE x # k
    <3>1. PICK u : u = disk.clean[x]
      OBVIOUS
    <3>2. Written(u) /\ disk'.clean[x] = u
      BY <1>8, <1>14, <2>2, <3>1 DEF Stored, Filled
    <3>3. \A y \in Writers : writer[y].pc \in {"publish", "close"} => writer'[y] = writer[y]
      BY <1>1
    <3>4. Written(u)'
      BY <1>2, <3>2, <3>3, WrittenStays
    <3> QED BY <3>2, <3>4 DEF Written
  <2> QED BY <2>1, <2>2
<1> QED BY <1>2, <1>9, <1>10, <1>11, <1>12, <1>13, <1>14 DEF Stored, NobodyStuck, Filled

\* Nobody writes, and the cache is not open.
LEMMA StoredClosed ==
  ASSUME Stored, Types, Types', Edits', NobodyStuck', body' = body, count'.stores >= count.stores,
         disk.spoilt \subseteq disk'.spoilt, \A k \in Keys : NoNewFile(k),
         mem'.initialized = TRUE => \A k \in Keys : disk'.dirty[k] = NoVersion,
         writer' = writer
  PROVE  Stored'
BY StoredCalm DEF Steady

\* Steps that leave the files, the entries and whether the cache is open as they are.
LEMMA StoredSame ==
  ASSUME Stored, Types, Types', Edits', body' = body, count'.stores >= count.stores,
         disk'.clean = disk.clean, disk'.dirty = disk.dirty, SameLeft(disk, disk'), mem'.entry = mem.entry,
         mem'.initialized = mem.initialized, \A w \in Writers : Steady(w)
  PROVE  Stored'
<1>1. \A k \in Keys : NoNewFile(k)
  BY DEF NoNewFile, SameLeft
<1>2. mem'.initialized = TRUE => \A k \in Keys : disk'.dirty[k] # NoVersion =>
        mem.initialized = TRUE /\ mem'.entry[k].editor \in {mem.entry[k].editor, Stuck}
  OBVIOUS
<1>3. NobodyStuck'
  BY DEF Stored, NobodyStuck
<1> QED BY <1>1, <1>2, <1>3, StoredCalm DEF SameLeft

\* What LeftBy says of the files, when the temporary file of k is gone from dirty.
LEMMA LeftFiles ==
  ASSUME NEW k \in Keys, LeftBy(disk, disk', k),
         \A x \in Keys \ {k} : disk'.clean[x] = disk.clean[x] /\ disk'.dirty[x] = disk.dirty[x],
         disk'.clean[k] \in {disk.clean[k], NoVersion}, disk'.dirty[k] \in {disk.dirty[k], NoVersion}
  PROVE  disk.spoilt \subseteq disk'.spoilt /\ \A x \in Keys : NoNewFile(x)
<1>1. NoNewFile(k)
  BY DEF LeftBy, NoNewFile
<1>2. \A x \in Keys \ {k} : NoNewFile(x)
  BY DEF LeftBy, NoNewFile
<1> QED BY <1>1, <1>2 DEF LeftBy

\* Steps that remove, detach or read an entry of the open cache, or leave its edit to nobody.
LEMMA StoredEffects ==
  ASSUME Stored, Types, Types', Edits', mem.initialized = TRUE, body' = body, count'.stores >= count.stores,
         \A w \in Writers : Steady(w),
         \/ \E k \in Keys : Removed(Now, Then, k) \/ Detached(Now, Then, k) \/ Looked(Now, Then, k)
         \/ disk' = disk /\ \E k \in Keys : StuckBy(mem, mem', k)
         \/ disk' = disk /\ Alike(mem, mem')
  PROVE  Stored'
<1>open. mem'.initialized = TRUE
  BY DEF Removed, Detached, Looked, StuckBy, Alike, Now, Then
<1>0. /\ disk.clean \in [Keys -> Versions \cup {NoVersion}] /\ disk.dirty \in [Keys -> Versions \cup {NoVersion}]
      /\ mem.entry \in [Keys -> EntryType]
  BY DEF Types, DirType, MemType
<1>1. ASSUME disk.spoilt \subseteq disk'.spoilt, \A k \in Keys : NoNewFile(k),
             \A k \in Keys : disk'.dirty[k] # NoVersion =>
               mem'.entry[k].editor \in {mem.entry[k].editor, Stuck}
      PROVE  Stored'
  BY <1>1, <1>open, StoredCalm DEF NobodyStuck
<1>2. \A k \in Keys : disk.dirty[k] # NoVersion => mem.entry[k].editor # Nobody
  BY Constants DEF Stored, Owned
<1>same. disk' = disk => disk.spoilt \subseteq disk'.spoilt /\ \A k \in Keys : NoNewFile(k)
  BY DEF NoNewFile
<1>3. ASSUME NEW k \in Keys, Removed(Now, Then, k) PROVE Stored'
  <2>1. /\ disk'.clean = [disk.clean EXCEPT ![k] = NoVersion] /\ LeftBy(disk, disk', k)
        /\ disk'.dirty = IF mem.entry[k].editor = Nobody THEN disk.dirty
                         ELSE [disk.dirty EXCEPT ![k] = NoVersion]
        /\ mem'.entry = [mem.entry EXCEPT ![k] = NoEntry]
    BY <1>3 DEF Removed, Now, Then
  <2>2. disk'.clean[k] = NoVersion /\ disk'.dirty[k] = NoVersion
    BY <1>0, <1>2, <2>1
  <2> HIDE DEF NoEntry
  <2>3. \A x \in Keys \ {k} : /\ disk'.clean[x] = disk.clean[x] /\ disk'.dirty[x] = disk.dirty[x]
                              /\ mem'.entry[x] = mem.entry[x]
    BY <1>0, <2>1
  <2>4. disk.spoilt \subseteq disk'.spoilt /\ \A x \in Keys : NoNewFile(x)
    BY <2>1, <2>2, <2>3, LeftFiles
  <2> QED BY <1>1, <2>2, <2>3, <2>4
<1>4. ASSUME NEW k \in Keys, Detached(Now, Then, k) PROVE Stored'
  <2>1. /\ disk'.clean = disk.clean /\ LeftBy(disk, disk', k)
        /\ disk'.dirty = IF mem.entry[k].editor = Nobody THEN disk.dirty
                         ELSE [disk.dirty EXCEPT ![k] = NoVersion]
        /\ mem'.entry = [mem.entry EXCEPT ![k].editor = Nobody]
    BY <1>4 DEF Detached, Now, Then
  <2>2. disk'.dirty[k] = NoVersion
    BY <1>0, <1>2, <2>1
  <2>3. \A x \in Keys \ {k} : disk'.dirty[x] = disk.dirty[x] /\ mem'.entry[x] = mem.entry[x]
    BY <1>0, <2>1
  <2>4. disk.spoilt \subseteq disk'.spoilt /\ \A x \in Keys : NoNewFile(x)
    BY <2>1, <2>2, <2>3, LeftFiles
  <2> QED BY <1>1, <2>2, <2>3, <2>4
<1>5. ASSUME NEW k \in Keys, Looked(Now, Then, k) PROVE Stored'
  <2>1. disk' = disk /\ mem'.entry = mem.entry
    BY <1>5 DEF Looked, Now, Then
  <2> QED BY <1>1, <1>same, <2>1
<1>6. CASE disk' = disk /\ Alike(mem, mem')
  BY <1>1, <1>same, <1>6 DEF Alike
<1>7. ASSUME disk' = disk, NEW k \in Keys, StuckBy(mem, mem', k) PROVE Stored'
  <2>1. mem'.entry = [mem.entry EXCEPT ![k].editor = Stuck]
    BY <1>7 DEF StuckBy
  <2>2. \A x \in Keys : mem'.entry[x].editor \in {mem.entry[x].editor, Stuck}
    BY <1>0, <2>1 DEF EntryType
  <2> QED BY <1>1, <1>same, <1>7, <2>2
<1> QED BY <1>3, <1>4, <1>5, <1>6, <1>7

\* completeEdit(editor, false): its temporary file goes.
LEMMA StoredGivenUp ==
  ASSUME Stored, Types, Types', Edits', mem.initialized = TRUE, NEW w \in Writers, writer[w].pc # "idle",
         writer[w].own = <<>>, FinishEdit(Aborted(w)), body' = body,
         \A x \in Writers : Steady(x)
  PROVE  Stored'
<1> DEFINE k == writer[w].key
<1>0. /\ disk.dirty \in [Keys -> Versions \cup {NoVersion}] /\ mem.entry \in [Keys -> EntryType] /\ k \in Keys
  BY DEF Types, DirType, MemType
<1>1. /\ count'.stores = count.stores
      /\ \E d \in DirType, m \in MemType :
           GivenUp(Now, [d |-> d, m |-> m], k) /\ Flushed([d |-> d, m |-> m], Then)
  BY AbortEffect
<1>2. PICK d \in DirType, m \in MemType :
        GivenUp(Now, [d |-> d, m |-> m], k) /\ Flushed([d |-> d, m |-> m], Then)
  BY <1>1
<1>3. /\ d.clean = disk.clean /\ d.dirty = [disk.dirty EXCEPT ![k] = NoVersion] /\ LeftBy(disk, d, k)
      /\ m.initialized = TRUE
      /\ m.entry = [mem.entry EXCEPT ![k].editor = Nobody] \/ m.entry = [mem.entry EXCEPT ![k] = NoEntry]
  BY <1>2 DEF GivenUp, Now
<1>4. disk'.clean = d.clean /\ disk'.dirty = d.dirty /\ SameLeft(d, disk') /\ mem'.entry = m.entry
      /\ mem'.initialized = m.initialized
  BY <1>2, FlushedKeeps
<1>5. LeftBy(disk, disk', k)
  BY <1>3, <1>4 DEF LeftBy, SameLeft
<1> HIDE DEF k, NoEntry
<1>6. /\ disk'.dirty[k] = NoVersion
      /\ \A x \in Keys \ {k} : mem'.entry[x] = mem.entry[x] /\ disk'.dirty[x] = disk.dirty[x]
  BY <1>0, <1>3, <1>4
<1>7. disk.spoilt \subseteq disk'.spoilt /\ \A x \in Keys : NoNewFile(x)
  BY <1>0, <1>3, <1>4, <1>5, <1>6, LeftFiles
<1>8. count'.stores >= count.stores
  BY <1>1, Numbers
<1>9. NobodyStuck'
  BY <1>3, <1>4 DEF NobodyStuck
<1> QED BY <1>6, <1>7, <1>8, <1>9, StoredCalm

\* The process dies: nobody writes any more.
LEMMA StoredRestart ==
  ASSUME Stored, Types, Types', restart
  PROVE  Stored'
<1>0. /\ writer' = [w \in Writers |-> Resting] /\ mem'.initialized = FALSE
      /\ \A k \in Keys : mem'.entry[k].editor = Nobody
      /\ body' = [v \in Versions |-> IF body[v] = "body" THEN "cut" ELSE body[v]]
  BY DEF restart, Closed, NoEntry
<1>1. \A w \in Writers : writer'[w].pc = "idle"
  BY <1>0 DEF Resting
<1>2. count'.stores = count.stores
  BY SpendEvents DEF restart, Types
<1>3. disk'.clean = disk.clean /\ disk'.dirty = disk.dirty /\ disk'.left = disk.left /\ disk'.spoilt = disk.spoilt
  BY DEF restart, Appended, Types, DirType
<1>4. \A k \in Keys : disk'.clean[k] # NoVersion => Written(disk.clean[k])'
  <2>1. \A k \in Keys : disk.clean[k] # NoVersion => disk.clean[k] \in Versions
    BY DEF Types, DirType
  <2>2. \A v \in Versions : body'[v] # "body" /\ (body'[v] = "part" => body[v] = "part")
    BY <1>0
  <2> QED BY <1>3, <2>1, <2>2 DEF Stored, Filled, Written
<1>5. Numbered'
  BY <1>1, <1>2, <1>3 DEF Stored, Numbered
<1>6. Owned'
  BY <1>0 DEF Owned
<1>7. Filled'
  BY <1>1, <1>3, <1>4 DEF Stored, Filled, Editing
<1>8. NobodyStuck'
  BY <1>0, Constants DEF NobodyStuck
<1> QED BY <1>5, <1>6, <1>7, <1>8 DEF Stored

\* The steps that open the cache: they delete files, and nobody writes.
LEMMA StoredOpening ==
  ASSUME Base, Base', Journaled, Knows, Stored,
         initialize \/ readJournal \/ wipe \/ processJournal \/ openedEmpty
  PROVE  Stored'
<1>0. /\ Types /\ Types' /\ Edits' /\ body' = body /\ count' = count /\ writer' = writer
      /\ disk \in DirType /\ mem \in MemType
      /\ disk.clean \in [Keys -> Versions \cup {NoVersion}] /\ disk.dirty \in [Keys -> Versions \cup {NoVersion}]
      /\ disk.left \in [Keys -> Versions \cup {NoVersion}]
  BY DEF Base, Types, DirType, initialize, readJournal, wipe, processJournal, openedEmpty
<1>1. count'.stores >= count.stores
  BY <1>0, Numbers
<1>2. ASSUME mem.initialized = FALSE,
             \A k \in Keys : mem'.entry[k].editor \in {mem.entry[k].editor, Nobody, Replayed},
             disk'.spoilt = disk.spoilt, \A k \in Keys : NoNewFile(k),
             mem'.initialized = TRUE => \A k \in Keys : disk'.dirty[k] = NoVersion
      PROVE  Stored'
  <2>1. NobodyStuck'
    BY <1>2, Constants DEF Stored, NobodyStuck
  <2> QED BY <1>0, <1>1, <1>2, <2>1, StoredClosed
<1>same. ASSUME disk'.clean = disk.clean, disk'.dirty = disk.dirty, SameLeft(disk, disk')
         PROVE  disk'.spoilt = disk.spoilt /\ \A k \in Keys : NoNewFile(k)
  BY <1>same DEF NoNewFile, SameLeft
<1>3. CASE initialize
  <2>1. mem' = mem /\ mem.initialized = FALSE
    BY <1>0, <1>3 DEF initialize, MemType
  <2>2. disk'.clean = disk.clean /\ disk'.dirty = disk.dirty /\ SameLeft(disk, disk')
    <3> HIDE DEF NoFile
    <3> QED BY <1>0, <1>3 DEF initialize, DirType, SameLeft
  <2> QED BY <1>2, <1>same, <2>1, <2>2
<1>closed. At("read") \/ At("wipe") \/ At("process") => mem.initialized = FALSE
  <2>1. At("wipe") => mem.initialized = FALSE
    <3> SUFFICES ASSUME At("wipe") PROVE mem.initialized = FALSE
      OBVIOUS
    <3>1. lock = <<"wipe">>
      BY <1>0, HeldFor DEF Base
    <3>2. ~Working
      BY <3>1 DEF Working, Rebuilding
    <3> QED BY <1>0, <3>2 DEF Base, Locked, MemType
  <2>2. At("read") \/ At("process") => mem.initialized # TRUE
    BY OpeningIsQuiet DEF Base
  <2> QED BY <1>0, <2>1, <2>2 DEF MemType
<1>4. CASE readJournal
  <2>1. mem.initialized = FALSE /\ disk' = disk
    BY <1>4, <1>closed DEF readJournal
  <2> DEFINE lines == disk.journal.lines
  <2>2. \A k \in Keys : Replay(lines)[k].editor \in {Nobody, Replayed}
    BY DEF Replay, EntryFrom, NoEntry
  <2> HIDE DEF lines
  <2>3. CASE mem' = mem
    BY <1>2, <1>same, <2>1, <2>3 DEF SameLeft
  <2>4. ASSUME mem'.entry = Replay(lines), mem'.initialized = FALSE PROVE Stored'
    BY <1>2, <1>same, <2>1, <2>2, <2>4 DEF SameLeft
  <2>5. ASSUME NEW lru \in Order(lines), NEW c,
               mem' = [Closed EXCEPT !.lru = lru, !.entry = Replay(lines), !.journalWriter = "file",
                                     !.redundantOpCount = c]
        PROVE  mem'.entry = Replay(lines) /\ mem'.initialized = FALSE
    BY <2>5 DEF Closed
  <2> QED BY <1>4, <2>3, <2>4, <2>5 DEF readJournal, lines
<1>5. CASE wipe
  <2>1. mem' = mem /\ mem.initialized = FALSE
    BY <1>5, <1>closed DEF wipe
  <2>2. ASSUME NEW f \in {"journal", "backup", "temp"}, disk' = [disk EXCEPT ![f] = NoFile] PROVE Stored'
    <3>1. disk'.clean = disk.clean /\ disk'.dirty = disk.dirty /\ SameLeft(disk, disk')
      <4> HIDE DEF NoFile
      <4> QED BY <1>0, <2>2 DEF DirType, SameLeft
    <3> QED BY <1>2, <1>same, <2>1, <3>1
  <2>3. ASSUME NEW f \in {"clean", "dirty", "left"}, NEW k \in Keys, disk' = [disk EXCEPT ![f][k] = NoVersion]
        PROVE  Stored'
    <3>1. /\ disk'.clean \in {disk.clean, [disk.clean EXCEPT ![k] = NoVersion]}
          /\ disk'.dirty \in {disk.dirty, [disk.dirty EXCEPT ![k] = NoVersion]}
          /\ disk'.left \in {disk.left, [disk.left EXCEPT ![k] = NoVersion]}
          /\ disk'.spoilt = disk.spoilt
      BY <1>0, <2>3 DEF DirType
    <3>2. \A x \in Keys : NoNewFile(x)
      BY <1>0, <3>1 DEF NoNewFile
    <3> QED BY <1>2, <2>1, <3>1, <3>2
  <2>4. CASE disk' = disk
    BY <1>2, <1>same, <2>1, <2>4 DEF SameLeft
  <2> HIDE DEF NoFile
  <2> QED BY <1>5, <2>2, <2>3, <2>4 DEF wipe
<1>6. CASE processJournal
  <2>1. mem.initialized = FALSE /\ At("process")
    BY <1>6, <1>closed DEF processJournal
  <2>2. CASE disk' = [disk EXCEPT !.temp = NoFile] /\ mem' = mem
    <3>1. disk'.clean = disk.clean /\ disk'.dirty = disk.dirty /\ SameLeft(disk, disk')
      <4> HIDE DEF NoFile
      <4> QED BY <1>0, <2>2 DEF DirType, SameLeft
    <3> QED BY <1>2, <1>same, <2>1, <2>2, <3>1
  <2>3. ASSUME NEW k \in Keys, disk' = [disk EXCEPT !.clean[k] = NoVersion], mem' = mem PROVE Stored'
    <3>1. /\ disk'.clean = [disk.clean EXCEPT ![k] = NoVersion] /\ disk'.dirty = disk.dirty
          /\ disk'.left = disk.left /\ disk'.spoilt = disk.spoilt
      BY <1>0, <2>3 DEF DirType
    <3>2. \A x \in Keys : NoNewFile(x)
      BY <1>0, <3>1 DEF NoNewFile
    <3> QED BY <1>2, <2>1, <2>3, <3>1, <3>2
  <2>4. ASSUME NEW k \in Keys, disk' = [disk EXCEPT !.dirty[k] = NoVersion, !.left[k] = NoVersion],
               mem' = [mem EXCEPT !.lru = Without(@, k), !.entry[k] = NoEntry]
        PROVE  Stored'
    <3>1. /\ disk'.clean = disk.clean /\ disk'.dirty = [disk.dirty EXCEPT ![k] = NoVersion]
          /\ disk'.left = [disk.left EXCEPT ![k] = NoVersion] /\ disk'.spoilt = disk.spoilt
      BY <1>0, <2>4 DEF DirType
    <3>2. mem'.initialized = mem.initialized /\ mem'.entry = [mem.entry EXCEPT ![k] = NoEntry]
      <4> DEFINE l == Without(mem.lru, k)
                 f == [mem.entry EXCEPT ![k] = NoEntry]
      <4>1. mem' = [mem EXCEPT !.lru = l, !.entry = f]
        BY <1>0, <2>4 DEF MemType
      <4> HIDE DEF l, f
      <4>2. mem'.initialized = mem.initialized /\ mem'.entry = f
        BY <1>0, <4>1 DEF MemType
      <4> QED BY <4>2 DEF f
    <3>3. \A x \in Keys : NoNewFile(x)
      BY <1>0, <3>1 DEF NoNewFile
    <3>4. \A x \in Keys : mem'.entry[x].editor \in {mem.entry[x].editor, Nobody, Replayed}
      <4>1. mem.entry \in [Keys -> EntryType] /\ NoEntry.editor = Nobody
        BY <1>0 DEF MemType, NoEntry
      <4> HIDE DEF NoEntry
      <4> QED BY <3>2, <4>1
    <3> QED BY <1>2, <2>1, <3>1, <3>2, <3>3, <3>4
  <2>5. ASSUME disk' = disk, \A k \in Keys : mem.entry[k].editor # Replayed, mem'.entry = mem.entry
        PROVE  Stored'
    <3>1. lock = <<"process">>
      BY <1>0, <2>1, HeldFor DEF Base
    <3>2. Loaded
      BY <3>1 DEF Loaded, Rebuilding
    <3>3. \A k \in Keys : disk.dirty[k] = NoVersion
      <4>1. \A w \in Writers : writer[w].pc = "idle"
        BY <2>1 DEF Base, Locked, Resting
      <4>2. \A k \in Keys : mem.entry[k].editor \notin Writers
        BY <4>1 DEF Base, Edits, Editing
      <4>3. \A k \in Keys : mem.entry[k].editor # Stuck
        BY <2>1 DEF Stored, NobodyStuck
      <4> QED BY <1>0, <2>5, <3>2, <4>2, <4>3 DEF Knows, MemType, EntryType
    <3> QED BY <1>2, <1>same, <2>1, <2>5, <3>3 DEF SameLeft
  <2>6. CASE /\ disk' = disk /\ {k \in Keys : mem.entry[k].editor = Replayed} = {}
             /\ mem' = [mem EXCEPT !.size = Taken(mem), !.initialized = TRUE]
    <3>1. mem'.entry = mem.entry
      BY <1>0, <2>6 DEF MemType
    <3> QED BY <2>5, <2>6, <3>1
  <2> HIDE DEF NoFile
  <2> QED BY <1>6, <2>2, <2>3, <2>4, <2>6 DEF processJournal
<1>7. CASE openedEmpty
  <2>1. lock = <<"done">> /\ disk' = disk /\ mem'.entry = mem.entry
    BY <1>0, <1>7, HeldFor DEF Base, openedEmpty, MemType
  <2>2. Rebuilding(lock, "done")
    BY <2>1 DEF Rebuilding
  <2>4. mem.initialized = FALSE
    <3>1. ~Working
      BY <2>1 DEF Working, Rebuilding
    <3> QED BY <1>0, <3>1 DEF Base, Locked, MemType
  <2>3. NoFiles
    BY <2>2 DEF Journaled
  <2> QED BY <1>2, <1>same, <2>1, <2>3, <2>4 DEF NoFiles, SameLeft
<1> QED BY <1>3, <1>4, <1>5, <1>6, <1>7

\* rebuildJournal moves the journal only.
LEMMA StoredRebuild ==
  ASSUME Base, Base', Stored, rebuildJournal
  PROVE  Stored'
<1>0. /\ Types /\ Types' /\ Edits' /\ body' = body /\ writer' = writer /\ disk \in DirType /\ mem \in MemType
      /\ \A w \in Writers : Steady(w)
  BY DEF Base, Types, rebuildJournal, Steady
<1>1. count'.stores >= count.stores
  <2>1. count' = count \/ \E bad \in BOOLEAN : MayFail(bad)
    BY DEF rebuildJournal
  <2>2. count \in CountType /\ count' \in CountType
    BY <1>0 DEF Types
  <2>3. count'.stores = count.stores
    BY <2>1, <2>2, MayFailFacts
  <2> QED BY <1>0, <2>3, Numbers
<1>2. ASSUME disk'.clean = disk.clean, disk'.dirty = disk.dirty, SameLeft(disk, disk'),
             mem'.entry = mem.entry, mem'.initialized = mem.initialized
      PROVE  Stored'
  BY <1>0, <1>1, <1>2, StoredSame
<1>3. ASSUME NEW bad \in BOOLEAN, NEW s \in Flush(Now, bad), Become(s) PROVE Stored'
  <2>1. Flushed(Now, s) /\ s = [d |-> s.d, m |-> s.m]
    BY <1>0, <1>3, FlushFacts DEF Now
  <2>2. disk' = s.d /\ mem' = s.m
    BY <1>3 DEF Become
  <2>3. Flushed([d |-> disk, m |-> mem], Then)
    BY <2>1, <2>2 DEF Now, Then
  <2> QED BY <1>2, <2>3, FlushedKeeps
<1> HIDE DEF NoFile
<1>4. CASE At("temp") /\ mem' = mem /\ disk' = [disk EXCEPT !.temp = [app |-> app, lines |-> Compact(mem)]]
  <2> DEFINE f == [app |-> app, lines |-> Compact(mem)]
  <2>1. disk' = [disk EXCEPT !.temp = f]
    BY <1>4
  <2> HIDE DEF f
  <2>2. disk'.clean = disk.clean /\ disk'.dirty = disk.dirty /\ SameLeft(disk, disk')
    BY <1>0, <2>1 DEF DirType, SameLeft
  <2> QED BY <1>2, <1>4, <2>2
<1>5. CASE /\ mem' = mem
           /\ disk' = IF disk.journal = NoFile THEN disk
                      ELSE [disk EXCEPT !.backup = disk.journal, !.journal = NoFile]
  <2>1. disk'.clean = disk.clean /\ disk'.dirty = disk.dirty /\ SameLeft(disk, disk')
    BY <1>0, <1>5, SwapFiles DEF SameLeft
  <2> QED BY <1>2, <1>5, <2>1
<1>6. CASE mem' = mem /\ disk' = [disk EXCEPT !.journal = disk.temp, !.temp = NoFile]
  <2>1. disk'.clean = disk.clean /\ disk'.dirty = disk.dirty /\ SameLeft(disk, disk')
    BY <1>0, <1>6, SwapFiles
  <2> QED BY <1>2, <1>6, <2>1
<1>7. CASE /\ disk' = [disk EXCEPT !.backup = NoFile]
           /\ mem' = [mem EXCEPT !.journalWriter = "file", !.rebuildFailed = FALSE]
  <2>1. disk'.clean = disk.clean /\ disk'.dirty = disk.dirty /\ SameLeft(disk, disk')
    BY <1>0, <1>7 DEF DirType, SameLeft
  <2>2. mem'.entry = mem.entry /\ mem'.initialized = mem.initialized
    BY <1>0, <1>7 DEF MemType
  <2> QED BY <1>2, <2>1, <2>2
<1> QED BY <1>3, <1>4, <1>5, <1>6, <1>7 DEF rebuildJournal

\* The steps of a writer that is neither writing nor closing its file.
LEMMA StoredWriter ==
  ASSUME Base, Base', Knows, Stored, NEW w \in Writers,
         \/ writeFails(w) \/ downloadFails(w) \/ abort(w) \/ abortFails(w) \/ commit(w)
         \/ commitFails(w) \/ publish(w) \/ check(w)
  PROVE  Stored'
<1> DEFINE k == writer[w].key
<1>0. /\ Types /\ Types' /\ Edits /\ Edits' /\ body' = body /\ writer[w].own = <<>> /\ writer[w].pc # "idle" /\ k \in Keys
      /\ writer \in [Writers -> WriterType] /\ disk \in DirType /\ mem \in MemType /\ count \in CountType
      /\ count.stores \in Nat
  <2>1. writer[w].pc # "idle" /\ body' = body
    BY DEF writeFails, downloadFails, abort, abortFails, commit, commitFails, publish, check
  <2> QED BY <2>1, Numbers DEF Base, Types, Edits
<1>1. mem.initialized = TRUE /\ Loaded
  BY <1>0 DEF Base, Locked, Resting, Types, MemType, Loaded
<1>2. \A x \in Keys : mem.entry[x].editor = w => x = k
  BY <1>0 DEF Edits
<1>3. ASSUME NEW pc, Moved(w, pc) PROVE \A x \in Writers \ {w} : Steady(x)
  BY <1>3 DEF Moved, Steady
<1>rest. ASSUME writer' = [writer EXCEPT ![w] = Resting]
         PROVE  writer'[w].pc = "idle" /\ \A x \in Writers \ {w} : Steady(x)
  BY <1>0, <1>rest DEF Resting, Steady
<1>goto. ASSUME NEW pc \in {"abort"}, Goto(w, pc) PROVE Moved(w, pc) /\ writer'[w].sink = writer[w].sink
  <2>1. writer' = [writer EXCEPT ![w] = [writer[w] EXCEPT !.pc = pc]]
    BY <1>0, <1>goto DEF Goto
  <2> QED BY <1>0, <2>1 DEF Moved, WriterType
<1> HIDE DEF k
<1>4. CASE writeFails(w)
  <2>1. /\ Moved(w, "commit") /\ writer'[w].sink = FALSE
        /\ count'.stores = count.stores
        /\ IF mem.entry[k].editor = w THEN Detached(Now, Then, k) ELSE disk' = disk /\ mem' = mem
    BY <1>0, <1>4, WriteFailsEffect DEF k
  <2>2. ASSUME NEW x \in Keys, mem.entry[x].editor = w PROVE disk'.dirty[x] = NoVersion
    <3>1. x = k /\ Detached(Now, Then, k)
      BY <1>2, <2>1, <2>2
    <3>2. disk'.dirty = [disk.dirty EXCEPT ![k] = NoVersion]
      BY <1>0, <2>2, <3>1, Constants DEF Detached, Now, Then
    <3> QED BY <1>0, <3>1, <3>2 DEF DirType
  <2>3. Steady(w)
    <3>1. writer[w].pc = "data"
      BY <1>4 DEF writeFails
    <3> QED BY <2>1, <2>2, <3>1 DEF Steady, Moved, Editing
  <2>4. \A x \in Writers : Steady(x)
    BY <1>3, <2>1, <2>3
  <2>5. disk' = disk /\ mem' = mem => disk' = disk /\ Alike(mem, mem')
    BY DEF Alike
  <2>6. count'.stores >= count.stores
    BY <1>0, <2>1
  <2> QED BY <1>0, <1>1, <2>1, <2>4, <2>5, <2>6, StoredEffects
<1>5. CASE downloadFails(w)
  <2>1. Moved(w, "abort") /\ writer'[w].sink = writer[w].sink
    BY <1>5, <1>goto DEF downloadFails
  <2>2. disk' = disk /\ mem' = mem /\ count' = count /\ writer[w].pc = "data"
    BY <1>5 DEF downloadFails
  <2>3. Steady(w)
    BY <2>1, <2>2 DEF Steady, Moved, Editing
  <2>4. \A x \in Writers : Steady(x)
    BY <1>3, <2>1, <2>3
  <2>5. count'.stores >= count.stores
    BY <1>0, <2>2
  <2> QED BY <1>0, <2>2, <2>4, <2>5, StoredSame DEF SameLeft
<1>6. CASE abort(w)
  <2>1. writer'[w].pc = "idle" /\ (\A x \in Writers \ {w} : Steady(x)) /\ writer[w].pc = "abort"
    BY <1>6, <1>rest DEF abort
  <2>2. CASE mem.entry[k].editor # w
    <3>1. ~Current(w)
      BY <1>0, <2>2 DEF Current, k
    <3>2. disk' = disk /\ mem' = mem /\ count' = count
      BY <1>6, <3>1 DEF abort
    <3>4. Steady(w)
      BY <2>1 DEF Steady
    <3>5. count'.stores >= count.stores
      BY <1>0, <3>2
    <3>6. \A x \in Writers : Steady(x)
      BY <2>1, <3>4
    <3> QED BY <1>0, <3>2, <3>5, <3>6, StoredSame DEF SameLeft
  <2>3. CASE mem.entry[k].editor = w
    <3>1. Current(w)
      BY <1>0, <2>3 DEF Current, k
    <3>2. FinishEdit(Aborted(w))
      BY <1>6, <3>1 DEF abort
    <3>4. Steady(w)
      BY <2>1 DEF Steady
    <3>5. \A x \in Writers : Steady(x)
      BY <2>1, <3>4
    <3> QED BY <1>0, <1>1, <3>2, <3>5, StoredGivenUp
  <2> QED BY <2>2, <2>3
<1>7. CASE commit(w)
  <2>0. /\ writer[w].pc = "commit" /\ count'.stores = count.stores
    BY <1>0, <1>7, CommitEffect DEF commit
  <2>1. count'.stores >= count.stores
    BY <1>0, <2>0
  <2>2. CASE /\ mem.entry[k].editor # w /\ disk' = disk /\ mem' = mem
             /\ Moved(w, "close") /\ writer'[w].sink = writer[w].sink
    <3>1. \A x \in Keys : mem.entry[x].editor # w
      BY <1>2, <2>2
    <3>2. Steady(w)
      BY <2>0, <2>2, <3>1 DEF Steady, Moved, Editing
    <3>3. \A x \in Writers : Steady(x)
      BY <1>3, <2>2, <3>2
    <3> QED BY <1>0, <2>0, <2>1, <2>2, <3>3, StoredSame DEF SameLeft
  <2>3. CASE /\ mem.entry[k].editor = w /\ FinishEdit(Aborted(w))
             /\ Moved(w, "close") /\ writer'[w].sink = writer[w].sink
    <3>1. disk'.dirty[k] = NoVersion
      <4>1. PICK d \in DirType, m \in MemType :
              GivenUp(Now, [d |-> d, m |-> m], k) /\ Flushed([d |-> d, m |-> m], Then)
        BY <1>0, <2>3, AbortEffect DEF k
      <4>2. disk'.dirty = [disk.dirty EXCEPT ![k] = NoVersion]
        BY <4>1, FlushedKeeps DEF GivenUp, Now
      <4> QED BY <1>0, <4>2 DEF DirType
    <3>2. Steady(w)
      BY <1>2, <2>0, <2>3, <3>1 DEF Steady, Moved, Editing
    <3>3. \A x \in Writers : Steady(x)
      BY <1>3, <2>3, <3>2
    <3> QED BY <1>0, <1>1, <2>3, <3>3, StoredGivenUp
  <2>4. CASE /\ mem.entry[k].editor = w /\ TempFile(disk, k) # NoVersion /\ Renamed(Now, Then, k)
             /\ Moved(w, "publish") /\ writer'[w].sink = writer[w].sink
    BY <1>0, <1>1, <2>0, <2>4, StoredRename DEF k
  <2>5. CASE /\ mem.entry[k].editor = w /\ TempFile(disk, k) = NoVersion /\ disk' = disk /\ mem' = mem
             /\ Moved(w, "publish") /\ writer'[w].sink = writer[w].sink
    <3>0. disk.dirty[k] = NoVersion
      BY <2>5 DEF TempFile
    <3>1. Steady(w)
      BY <1>2, <2>0, <2>5, <3>0 DEF Steady, Moved, Editing
    <3>2. \A x \in Writers : Steady(x)
      BY <1>3, <2>5, <3>1
    <3> QED BY <1>0, <2>0, <2>1, <2>5, <3>2, StoredSame DEF SameLeft
  <2> QED BY <1>0, <1>7, <2>2, <2>3, <2>4, <2>5, CommitEffect DEF k
<1>8. CASE commitFails(w)
  <2>1. Moved(w, "abort") /\ writer'[w].sink = writer[w].sink
    BY <1>8, <1>goto DEF commitFails
  <2>2. /\ disk' = [disk EXCEPT !.clean[k] = NoVersion] /\ mem' = mem /\ MayFail(TRUE)
        /\ writer[w].pc = "commit"
    BY <1>8 DEF commitFails, k
  <2>3. count'.stores >= count.stores
    <3>1. count'.stores = count.stores
      BY <1>0, <2>2, MayFailFacts
    <3> QED BY <1>0, <3>1
  <2>4. /\ disk'.dirty = disk.dirty /\ disk'.clean = [disk.clean EXCEPT ![k] = NoVersion]
        /\ disk'.left = disk.left /\ disk'.spoilt = disk.spoilt
    BY <1>0, <2>2 DEF DirType
  <2>5. \A x \in Keys : NoNewFile(x)
    BY <1>0, <2>4 DEF DirType, NoNewFile
  <2>8. NobodyStuck'
    BY <1>1, <2>2 DEF NobodyStuck
  <2>6. Steady(w)
    BY <2>1, <2>2 DEF Steady, Moved, Editing
  <2>7. \A x \in Writers : Steady(x)
    BY <1>3, <2>1, <2>6
  <2> QED BY <1>0, <1>1, <2>2, <2>3, <2>4, <2>5, <2>7, <2>8, StoredCalm
<1>9. CASE publish(w)
  <2>1. writer[w].pc = "publish" /\ mem.entry[k].editor = w
    BY <1>0, <1>9 DEF publish, Edits, k
  <2>2. disk.dirty[k] = NoVersion
    <3>1. Publishing(k)
      BY <2>1 DEF Publishing
    <3> QED BY <1>0, <1>1, <3>1 DEF Knows
  <2>3. Moved(w, "close") /\ writer'[w].sink = writer[w].sink
    <3>1. writer' = [writer EXCEPT ![w] = [writer[w] EXCEPT !.pc = "close", !.own = <<>>]]
      BY <1>0, <1>9 DEF publish
    <3> QED BY <1>0, <3>1 DEF Moved, WriterType
  <2>4. PICK m \in MemType :
          /\ Opened(Now, [d |-> disk, m |-> m], k) /\ Flushed([d |-> disk, m |-> m], Then)
          /\ count'.stores = count.stores
    BY <1>0, <1>9, PublishEffect DEF k
  <2>5. /\ disk'.clean = disk.clean /\ disk'.dirty = disk.dirty /\ SameLeft(disk, disk') /\ mem'.entry = m.entry
        /\ mem'.initialized = TRUE
    BY <1>1, <2>4, FlushedKeeps DEF Opened, Now
  <2>11. \A x \in Keys : NoNewFile(x)
    BY <2>5 DEF NoNewFile, SameLeft
  <2>6. \A x \in Keys \ {k} : m.entry[x] = mem.entry[x]
    BY <1>0, <2>4 DEF Opened, Now, MemType
  <2>7. Steady(w)
    BY <1>2, <2>1, <2>2, <2>3, <2>5 DEF Steady, Moved, Editing
  <2>8. \A x \in Writers : Steady(x)
    BY <1>3, <2>3, <2>7
  <2>9. count'.stores >= count.stores
    BY <1>0, <2>4
  <2>10. \A x \in Keys : disk'.dirty[x] # NoVersion => mem'.entry[x].editor = mem.entry[x].editor
    BY <2>2, <2>5, <2>6
  <2>12. NobodyStuck'
    BY <2>5 DEF NobodyStuck
  <2> QED BY <1>0, <1>1, <2>4, <2>5, <2>8, <2>9, <2>10, <2>11, <2>12, StoredCalm DEF SameLeft
<1>10. CASE check(w)
  <2>1. writer'[w].pc = "idle" /\ (\A x \in Writers \ {w} : Steady(x)) /\ writer[w].pc = "check"
    BY <1>10, <1>rest DEF check
  <2>2. \A x \in Writers : Steady(x)
    BY <2>1 DEF Steady
  <2>3. PICK kept \in BOOLEAN : MayFail(kept) /\ Become(Get(Now, k, kept))
    BY <1>10 DEF check, k
  <2>4. Looked(Now, Then, k) \/ Removed(Now, Then, k)
    BY <1>0, <2>3, GetEffect DEF Base, Mapped
  <2>5. count'.stores >= count.stores
    <3>1. count'.stores = count.stores
      BY <1>0, <2>3, MayFailFacts
    <3> QED BY <1>0, <3>1
  <2> QED BY <1>0, <1>1, <2>2, <2>4, <2>5, StoredEffects
<1>11. CASE abortFails(w)
  <2>1. /\ writer' = [writer EXCEPT ![w] = Resting] /\ writer[w].pc = "abort" /\ disk' = disk
        /\ StuckBy(mem, mem', k) /\ count'.stores = count.stores
    BY <1>0, <1>11, AbortFailsEffect DEF k
  <2>2. \A x \in Writers : Steady(x)
    BY <1>rest, <2>1 DEF Steady
  <2>3. count'.stores >= count.stores
    BY <1>0, <2>1
  <2> QED BY <1>0, <1>1, <2>1, <2>2, <2>3, StoredEffects
<1> QED BY <1>4, <1>5, <1>6, <1>7, <1>8, <1>9, <1>10, <1>11

LEMMA StoredStep ==
  ASSUME Base, Base', Journaled, Knows, Stored, Next, Gaps = FALSE
  PROVE  Stored'
<1>0. /\ Types /\ Types' /\ Locked /\ Edits /\ Edits' /\ Distinct(mem.lru) /\ mem.initialized \in BOOLEAN
      /\ count \in CountType /\ count.stores \in Nat
  <2> QED BY Numbers DEF Base, Types, MemType, Mapped
<1>busy. \A w \in Writers : writer[w].pc # "idle" => mem.initialized = TRUE
  BY <1>0 DEF Locked, Resting
<1>still. writer' = writer => \A w \in Writers : Steady(w)
  BY DEF Steady
<1>same. disk' = disk /\ mem' = mem => disk' = disk /\ Alike(mem, mem')
  BY DEF Alike
<1>calm. ASSUME mem.initialized = TRUE, writer' = writer, body' = body,
                count'.stores = count.stores \/ count'.stores = count.stores + 1,
                \/ \E k \in Keys : Removed(Now, Then, k) \/ Detached(Now, Then, k) \/ Looked(Now, Then, k)
                \/ disk' = disk /\ Alike(mem, mem')
         PROVE  Stored'
  <2>1. count'.stores >= count.stores
    BY <1>0, <1>calm
  <2> QED BY <1>0, <1>calm, <1>still, <2>1, StoredEffects
<1>spent. Spend("events", MaxEvents) => count'.stores = count.stores
  <2> SUFFICES ASSUME Spend("events", MaxEvents)
               PROVE  count'.stores = count.stores
    OBVIOUS
  <2>1. MayFail(TRUE)
    BY DEF MayFail
  <2> QED BY <1>0, <2>1, MayFailFacts
<1>1. CASE initialize \/ readJournal \/ wipe \/ processJournal \/ openedEmpty
  BY <1>1, StoredOpening
<1>2. CASE rebuildJournal
  BY <1>2, StoredRebuild
<1>3. CASE runCleanup
  <2>1. /\ Alike(mem, mem') /\ disk' = disk /\ count' = count /\ writer' = writer /\ body' = body
    BY <1>0, <1>3 DEF runCleanup, Alike, Types, MemType
  <2>2. count'.stores >= count.stores
    BY <1>0, <2>1
  <2> QED BY <1>0, <1>still, <2>1, <2>2, StoredSame DEF Alike, SameLeft
<1>4. CASE trimToSize
  <2>1. mem.size > MaxSize => mem.lru # <<>>
    BY <1>4, TrimFinds DEF trimToSize
  <2>2. /\ count'.stores = count.stores
        /\ \/ mem.lru # <<>> /\ Removed(Now, Then, Head(mem.lru))
           \/ mem.lru # <<>> /\ Detached(Now, Then, Head(mem.lru))
           \/ disk' = disk /\ Alike(mem, mem')
    BY <1>0, <1>4, <2>1, TrimEffect
  <2>3. mem.lru # <<>> => Head(mem.lru) \in Keys
    BY <1>0 DEF Types, MemType
  <2>4. mem.initialized = TRUE /\ writer' = writer /\ body' = body
    BY <1>0, <1>4, HeldFor DEF trimToSize
  <2> QED BY <1>calm, <2>2, <2>3, <2>4
<1>5. CASE compactJournal
  <2>1. mem.initialized = TRUE /\ mem' = mem /\ disk' = disk /\ count' = count /\ writer' = writer /\ body' = body
    BY <1>0, <1>5, HeldFor DEF compactJournal
  <2> QED BY <1>calm, <1>same, <2>1
<1>6. CASE compacted
  <2>1. /\ mem.initialized = TRUE /\ Alike(mem, mem') /\ disk' = disk /\ count' = count
        /\ writer' = writer /\ body' = body
    BY <1>0, <1>6, HeldFor DEF compacted, Alike, Types, MemType
  <2> QED BY <1>calm, <2>1
<1>7. CASE rebuildFails
  <2>1. /\ mem'.entry = mem.entry /\ mem'.initialized = mem.initialized /\ disk' = disk
        /\ writer' = writer /\ body' = body
    BY <1>0, <1>7 DEF rebuildFails, Types, MemType
  <2>2. count'.stores = count.stores
    BY <1>0, <1>7, MayFailFacts DEF rebuildFails
  <2>3. count'.stores >= count.stores
    BY <1>0, <2>2
  <2> QED BY <1>0, <1>still, <2>1, <2>2, <2>3, StoredSame DEF SameLeft
<1>8. ASSUME NEW w \in Writers, NEW k \in Keys, edit(w, k) PROVE Stored'
  <2>1. mem.initialized = TRUE /\ body' = body
    BY <1>0, <1>8 DEF edit, Ready
  <2>2. count'.stores = count.stores + 1
    BY <1>0, <1>8, SpendStores DEF edit
  <2>3. CASE Looked(Now, Then, k) /\ writer' = writer
    <3> QED BY <1>calm, <2>1, <2>2, <2>3
  <2>4. CASE /\ Started(Now, Then, k, w)
             /\ writer' = [writer EXCEPT ![w] = [pc |-> "sink", key |-> k, ver |-> count.stores + 1,
                                                 sink |-> FALSE, own |-> <<>>]]
    BY <1>0, <1>8, <2>1, <2>4, StoredBegins
  <2> QED BY <1>0, <1>8, <2>3, <2>4, EditEffect
<1>9. ASSUME NEW w \in Writers, NEW k \in Keys, editFails(w, k) PROVE Stored'
  <2>1. PICK m \in MemType :
          /\ Dirtied(Now, m, k) /\ Flushed([d |-> disk, m |-> m], Then)
          /\ count'.stores = count.stores
    BY <1>0, <1>9, EditFailsEffect
  <2>2. m.entry = mem.entry /\ m.initialized = mem.initialized
    BY <2>1 DEF Dirtied, Now
  <2>3. /\ disk'.clean = disk.clean /\ disk'.dirty = disk.dirty /\ SameLeft(disk, disk') /\ mem'.entry = m.entry
        /\ mem'.initialized = m.initialized
    BY <2>1, FlushedKeeps
  <2>4. writer' = writer /\ body' = body
    BY <1>9 DEF editFails
  <2>5. count'.stores >= count.stores
    BY <1>0, <2>1
  <2> QED BY <1>0, <1>still, <2>1, <2>2, <2>3, <2>4, <2>5, StoredSame
<1>10. ASSUME NEW w \in Writers, newSink(w) \/ write(w) \/ close(w) PROVE Stored'
  <2>1. writer[w].pc # "idle"
    BY <1>10 DEF newSink, write, close
  <2>2. mem.initialized = TRUE
    BY <1>busy, <2>1
  <2> QED BY <1>0, <1>10, <2>2, StoredSink, StoredWrite, StoredClose
<1>11. ASSUME NEW w \in Writers,
              \/ writeFails(w) \/ downloadFails(w) \/ abort(w) \/ abortFails(w) \/ commit(w)
              \/ commitFails(w) \/ publish(w) \/ check(w)
       PROVE  Stored'
  BY <1>11, StoredWriter
<1>12. ASSUME NEW k \in Keys, get(k) PROVE Stored'
  <2>1. PICK kept \in BOOLEAN :
          /\ Become(Get(Now, k, kept)) /\ Ready /\ writer' = writer /\ body' = body
          /\ Spend("events", MaxEvents)
    BY <1>12 DEF get
  <2>2. Looked(Now, Then, k) \/ Removed(Now, Then, k)
    BY <1>0, <2>1, GetEffect
  <2>3. mem.initialized = TRUE
    BY <1>0, <2>1 DEF Ready
  <2> QED BY <1>calm, <1>spent, <2>1, <2>2, <2>3
<1>13. CASE evictAll
  <2>1. /\ mem.initialized = TRUE /\ mem' = mem /\ disk' = disk /\ writer' = writer /\ body' = body
        /\ Spend("events", MaxEvents)
    BY <1>0, <1>13 DEF evictAll, Ready
  <2> QED BY <1>calm, <1>same, <1>spent, <2>1
<1>14. CASE evictNext
  <2>1. /\ count'.stores = count.stores
        /\ \/ Head(mem.lru) \in Keys /\ Removed(Now, Then, Head(mem.lru))
           \/ Head(mem.lru) \in Keys /\ Detached(Now, Then, Head(mem.lru))
           \/ disk' = disk /\ Alike(mem, mem')
    BY <1>0, <1>14, EvictEffect
  <2>2. mem.initialized = TRUE /\ writer' = writer /\ body' = body
    BY <1>0, <1>14, HeldFor DEF evictNext
  <2> QED BY <1>calm, <2>1, <2>2
<1>15. CASE cleanStart
  <2>1. /\ mem.initialized = TRUE /\ mem' = mem /\ disk' = disk /\ writer' = writer /\ body' = body
        /\ Spend("events", MaxEvents)
    BY <1>0, <1>15 DEF cleanStart, Ready
  <2> QED BY <1>calm, <1>same, <1>spent, <2>1
<1>16. CASE cleanNext
  <2>1. /\ writer' = writer /\ count'.stores = count.stores
        /\ (disk' = disk /\ mem' = mem) \/ \E k \in Keys : Removed(Now, Then, k)
    BY <1>0, <1>16, CleanNextEffect
  <2>2. mem.initialized = TRUE /\ body' = body
    BY <1>0, <1>16 DEF cleanNext, Ready
  <2> QED BY <1>calm, <1>same, <2>1, <2>2
<1>17. CASE cleanRemove
  <2>1. /\ count'.stores = count.stores
        /\ (disk' = disk /\ Alike(mem, mem')) \/ \E k \in Keys : Removed(Now, Then, k)
    BY <1>0, <1>17, CleanRemoveEffect
  <2>2. mem.initialized = TRUE /\ writer' = writer /\ body' = body
    BY <1>0, <1>17 DEF cleanRemove, Ready
  <2> QED BY <1>calm, <2>1, <2>2
<1>19. CASE cleanRemoveFails
  <2>1. count'.stores = count.stores /\ \E k \in Keys : Detached(Now, Then, k)
    BY <1>0, <1>19, CleanRemoveFailsEffect
  <2>2. mem.initialized = TRUE /\ writer' = writer /\ body' = body
    BY <1>0, <1>19 DEF cleanRemoveFails, Ready
  <2> QED BY <1>calm, <2>1, <2>2
<1>18. CASE restart
  BY <1>0, <1>18, StoredRestart
<1> QED
  BY <1>1, <1>2, <1>3, <1>4, <1>5, <1>6, <1>7, <1>8, <1>9, <1>10, <1>11, <1>12, <1>13, <1>14,
     <1>15, <1>16, <1>17, <1>18, <1>19
  DEF Next

LEMMA InitStored == Init => Stored
<1> SUFFICES ASSUME Init PROVE Stored
  OBVIOUS
<1>1. \A w \in Writers : writer[w].pc = "idle"
  BY DEF Init, Resting
<1>2. \A k \in Keys : disk.clean[k] = NoVersion /\ disk.dirty[k] = NoVersion /\ disk.left[k] = NoVersion
  BY DEF Init
<1>3. count.stores = 0 /\ NoVersion <= 0
  BY DEF Init, NoVersion
<1>4. \A k \in Keys : mem.entry[k].editor = Nobody
  BY DEF Init, Closed, NoEntry
<1> QED BY <1>1, <1>2, <1>3, <1>4, Constants DEF Stored, Numbered, Owned, NobodyStuck, Filled, Editing

LEMMA StoredInv ==
  ASSUME Base, Journaled, Knows, Stored, Gaps = FALSE
  PROVE  [Next]_vars => (Base /\ Journaled /\ Knows /\ Stored)'
<1>1. CASE Next
  <2>1. Base' /\ Journaled' /\ Knows'
    BY <1>1, JournalInv
  <2> QED BY <1>1, <2>1, StoredStep
<1>2. CASE UNCHANGED vars
  <2>1. Base' /\ Journaled' /\ Knows'
    BY <1>2, JournalInv
  <2>2. Stored'
    BY <1>2 DEF vars, Stored, Numbered, Owned, NobodyStuck, Filled, Written
  <2> QED BY <2>1, <2>2
<1> QED BY <1>1, <1>2

\* What can be read, now or after opening the cache again, has been written up to the flush before
\* commit(), whoever edits, evicts or removes the same key meanwhile: no failed write and no
\* interrupted download is published, and only the last block of the cipher can be missing, until
\* the writer has closed its stream, or for good ("cut") once a crash or an I/O error has kept it
\* from that. It is not said of the files in disk.spoilt, which a failing deletion left behind or
\* which were written over such a file.
THEOREM PublishedIsWritten ==
  ASSUME Gaps = FALSE
  PROVE  Spec => []PublishedBody
<1>1. Stored => PublishedBody
  <2> SUFFICES ASSUME Stored, NEW k \in Keys, Readable[k] # NoVersion, Readable[k] \notin disk.spoilt
               PROVE  /\ body[Readable[k]] # "part"
                      /\ body[Readable[k]] = "body" =>
                           \E w \in Writers : writer[w].ver = Readable[k] /\ writer[w].pc \in {"publish", "close"}
    BY DEF PublishedBody
  <2>1. Readable[k] = disk.clean[k]
    BY DEF Readable
  <2> QED BY <2>1 DEF Stored, Filled, Written
<1> QED BY <1>1, InitBase, InitJournal, InitStored, StoredInv, PTL DEF Spec
=============================================================================
