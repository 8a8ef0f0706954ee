----------------------------- MODULE DiskCache ------------------------------
(***************************************************************************)
(* The cache of raw messages on disk: util/cache/DiskLruCache.kt with its  *)
(* journal, the writers of MsgsCacheManager.storeMsg, the readers, the     *)
(* removal of all entries and the worker that removes old entries          *)
(* (MsgsCacheCleanerWorker.kt).                                            *)
(*                                                                         *)
(* All methods of the cache hold its lock. `lock' is what the holder still *)
(* has to do; the process may die between any two of its file operations.  *)
(* A stored value is a version number; the steps of a writer outside of    *)
(* the lock interleave with everything else.                               *)
(***************************************************************************)
EXTENDS Integers, Sequences, FiniteSets, SequencesExt

CONSTANTS Keys,         \* keys of messages
          Writers,      \* threads that store messages
          MaxSize,      \* the limit of the cache, in entries (every value has size 1)
          RebuildAfter, \* redundantOpCompactThreshold (2000 in the code)
          Gaps,         \* are the two gaps open: the cleaner goes on over entries that were
                        \* removed meanwhile, the process dies while the files of another
                        \* version of the application are being deleted
          MaxStores,    \* calls of storeMsg
          MaxEvents     \* everything else from outside: get, evictAll, runs of the
                        \* cleaner, I/O errors, crashes and updates of the application

ASSUME DiskAssumption ==
  /\ MaxSize \in Nat \ {0}
  /\ IsFiniteSet(Keys) /\ RebuildAfter \in Nat /\ Cardinality(Keys) <= RebuildAfter
  /\ Gaps \in BOOLEAN
  /\ MaxStores \in Nat /\ MaxEvents \in Nat
  /\ "nobody" \notin Keys /\ Writers \cap {"nobody", "replayed", "stuck"} = {}

Versions == 1 .. MaxStores
NoVersion == 0
Nobody == "nobody"                      \* currentEditor = null
Replayed == "replayed"                  \* the editor that readJournalLine sets for DIRTY
Stuck == "stuck"                        \* an editor whose abort() failed: nobody will end its edit

VARIABLES
  disk,      \* the directory: the three journal files, of each key the version in its clean
             \* file and in its temporary file: dirty when an edit that is in progress (or that
             \* a crash interrupted) created it, left when a deletion of it has failed and was
             \* ignored. spoilt is history: the versions whose file was left, or that were
             \* written over such a file
  body,      \* of each version: how much of it has been written ("part", "body": all but
             \* the last block of the cipher, "whole", "cut": the last block will never come)
  mem,       \* the fields of DiskLruCache
  lock,      \* the steps that the holder of the lock has still to do; empty: free
  writer,    \* the threads in storeMsgInternal
  cleaner,   \* MsgsCacheCleanerWorker: the entries of its iterator, one to remove
  app,       \* the installed version of the application
  count,     \* calls, crashes and errors so far
  shown      \* history: the versions that have been readable

vars == <<disk, body, mem, lock, writer, cleaner, app, count, shown>>

Line(op, k, n) == [op |-> op, key |-> k, len |-> n]
Cut == Line("CUT", Nobody, 0)           \* a truncated last line
NoFile == [app |-> 0, lines |-> <<>>]   \* a journal file that does not exist

\* Entry: id tells the objects apart that had the same key.
NoEntry == [readable |-> FALSE, len |-> 0, editor |-> Nobody, id |-> 0]

Closed == [initialized |-> FALSE, lru |-> <<>>, entry |-> [k \in Keys |-> NoEntry],
           buffer |-> <<>>, journalWriter |-> "none", size |-> 0, redundantOpCount |-> 0,
           cleanup |-> FALSE, trimFailed |-> FALSE, rebuildFailed |-> FALSE]

Resting == [pc |-> "idle", key |-> Nobody, ver |-> NoVersion, sink |-> FALSE, own |-> <<>>]

Init ==
  /\ disk = [journal |-> NoFile, backup |-> NoFile, temp |-> NoFile,
             clean |-> [k \in Keys |-> NoVersion], dirty |-> [k \in Keys |-> NoVersion],
             left |-> [k \in Keys |-> NoVersion], spoilt |-> {}]
  /\ body = [v \in Versions |-> "part"]
  /\ mem = Closed
  /\ lock = <<>>
  /\ writer = [w \in Writers |-> Resting]
  /\ cleaner = [todo |-> <<>>, old |-> <<>>]
  /\ app = 1
  /\ count = [stores |-> 0, events |-> 0]
  /\ shown = {}

Spend(what, most) == count[what] < most /\ count' = [count EXCEPT ![what] = @ + 1]

\* An I/O error happens (bad) or not.
MayFail(bad) == IF bad THEN Spend("events", MaxEvents) ELSE UNCHANGED count

-----------------------------------------------------------------------------
(* Operations on the directory and on the fields, s = [d |-> disk, m |-> mem]. *)

Now == [d |-> disk, m |-> mem]
Become(s) == disk' = s.d /\ mem' = s.m

\* lruEntries.remove(key).
Without(lru, k) ==
  IF Contains(lru, k) THEN RemoveAt(lru, CHOOSE i \in DOMAIN lru : lru[i] = k) ELSE lru

\* lruEntries[key] on a LinkedHashMap in access order.
Touch(m, k) == IF Contains(m.lru, k) THEN [m EXCEPT !.lru = Append(Without(@, k), k)] ELSE m

journalRebuildRequired(m) == m.redundantOpCount >= RebuildAfter /\ m.redundantOpCount >= Len(m.lru)

\* redundantOpCount++ (no value above the threshold matters).
Redundant(m) == [m EXCEPT !.redundantOpCount = IF @ < RebuildAfter THEN @ + 1 ELSE @]

ScheduleIfNeeded(m) == [m EXCEPT !.cleanup = @ \/ journalRebuildRequired(m)]

\* journalWriter.writeUtf8: a FaultHidingSink that failed and the black hole swallow the line.
Log(m, line) == IF m.journalWriter = "file" THEN [m EXCEPT !.buffer = Append(@, line)] ELSE m

\* What reaches the journal when the buffer is written in part.
Torn(lines) == UNION {{p, Append(p, Cut)} : p \in Prefixes(lines)}

Appended(d, lines) == [d EXCEPT !.journal.lines = @ \o lines]

\* journalWriter.flush(), without and with a hidden I/O error.
Flush(s, bad) ==
  IF s.m.journalWriter # "file" THEN {s}
  ELSE IF ~bad
       THEN {[d |-> Appended(s.d, s.m.buffer), m |-> [s.m EXCEPT !.buffer = <<>>]]}
       ELSE {[d |-> Appended(s.d, p),
              m |-> [s.m EXCEPT !.buffer = <<>>, !.journalWriter = "bad"]] :
                p \in Torn(s.m.buffer)}

\* The temporary file of an entry, whichever edit created it.
TempFile(d, k) == IF d.dirty[k] # NoVersion THEN d.dirty[k] ELSE d.left[k]

\* fileSystem.delete fails (kept) only for a file that is there.
DetachKeeps(s, k, kept) ==
  kept => s.m.entry[k].editor # Nobody /\ TempFile(s.d, k) # NoVersion

\* Editor.detach of the entry in the map: the temporary file goes, the edit is not current any
\* more. A deletion that fails is ignored ("This file is potentially leaked").
Detach(s, k, kept) ==
  IF s.m.entry[k].editor = Nobody THEN s
  ELSE [d |-> [s.d EXCEPT !.dirty[k] = NoVersion,
                          !.left[k] = IF kept THEN TempFile(s.d, k) ELSE NoVersion,
                          !.spoilt = IF kept THEN @ \cup {TempFile(s.d, k)} ELSE @],
        m |-> [s.m EXCEPT !.entry[k].editor = Nobody]]

\* Mutants of removeEntry: size keeps the length of the entry; the clean file stays.
RemoveEntryKeepsSize(s, k, kept) ==
  LET t == Detach(s, k, kept)
      m == [t.m EXCEPT !.lru = Without(@, k), !.entry[k] = NoEntry]
  IN [d |-> [t.d EXCEPT !.clean[k] = NoVersion],
      m |-> ScheduleIfNeeded(Log(Redundant(m), Line("REMOVE", k, 0)))]

RemoveEntryKeepsFile(s, k, kept) ==
  LET t == Detach(s, k, kept)
      m == [t.m EXCEPT !.size = @ - t.m.entry[k].len, !.lru = Without(@, k), !.entry[k] = NoEntry]
  IN [d |-> t.d, m |-> ScheduleIfNeeded(Log(Redundant(m), Line("REMOVE", k, 0)))]

\* removeEntry(entry) for the entry in the map.
RemoveEntry(s, k, kept) ==
  LET t == Detach(s, k, kept)
      m == [t.m EXCEPT !.size = @ - t.m.entry[k].len, !.lru = Without(@, k), !.entry[k] = NoEntry]
  IN [d |-> [t.d EXCEPT !.clean[k] = NoVersion],
      m |-> ScheduleIfNeeded(Log(Redundant(m), Line("REMOVE", k, 0)))]

\* removeEntry(entry) when the clean file cannot be deleted: the exception comes after detach.
RemoveEntryFails(s, k, kept) == Detach(s, k, kept)

\* get(key): an entry whose file has disappeared is removed.
Get(s, k, kept) ==
  LET m == Touch(s.m, k)
  IN IF ~Contains(m.lru, k) \/ ~m.entry[k].readable THEN [s EXCEPT !.m = m]
     ELSE IF s.d.clean[k] = NoVersion THEN RemoveEntry([s EXCEPT !.m = m], k, kept)
     ELSE [s EXCEPT !.m = ScheduleIfNeeded(Log(Redundant(m), Line("READ", k, 0)))]

-----------------------------------------------------------------------------
(* Opening the cache: initialize, readJournal, processJournal, rebuildJournal. *)

Free == lock = <<>>
At(step) == ~Free /\ Head(lock) = step
Ready == Free /\ mem.initialized

Rebuild(then) == <<"close", "temp", "backup", "swap", "drop", then>>

\* The lines that readJournalLine applies to the entry of a key: those after its last REMOVE.
LinesOf(lines, k) ==
  {i \in DOMAIN lines : /\ lines[i].key = k
                        /\ \A j \in i .. Len(lines) : lines[j].op = "REMOVE" => lines[j].key # k}

\* A mutant: the lengths of all CLEAN lines are added up.
EntryFromSummed(lines, is) ==
  LET cleans == {i \in is : lines[i].op = "CLEAN"}
      dirty == {i \in is : lines[i].op = "DIRTY" /\ \A j \in cleans : j < i}
  IN [NoEntry EXCEPT !.readable = cleans # {},
                     !.len = Cardinality(cleans),
                     !.editor = IF dirty = {} THEN Nobody ELSE Replayed]

\* The entry after readJournalLine of these lines: readable after a CLEAN line, which gives the
\* length and ends an edit; edited after a DIRTY line.
EntryFrom(lines, is) ==
  LET cleans == {i \in is : lines[i].op = "CLEAN"}
      dirty == {i \in is : lines[i].op = "DIRTY" /\ \A j \in cleans : j < i}
  IN [NoEntry EXCEPT !.readable = cleans # {},
                     !.len = IF cleans = {} THEN 0 ELSE lines[Max(cleans)].len,
                     !.editor = IF dirty = {} THEN Nobody ELSE Replayed]

\* readJournalLine of all lines.
Replay(lines) == [k \in Keys |-> EntryFrom(lines, LinesOf(lines, k))]

\* lruEntries after these lines: every line of an entry moves it to the end.
Order(lines) ==
  {s \in SetToSeqs({k \in Keys : LinesOf(lines, k) # {}}) :
     \A i, j \in DOMAIN s : i < j => Max(LinesOf(lines, s[i])) < Max(LinesOf(lines, s[j]))}

TruncatedAtEnd(lines) == lines # <<>> /\ Last(lines) = Cut

\* initialize() of the first call after the start of the process: a backup of the journal is
\* used when the journal is missing, and deleted otherwise.
initialize ==
  /\ Free /\ ~mem.initialized
  /\ disk' = IF disk.backup = NoFile THEN disk
             ELSE IF disk.journal = NoFile
                  THEN [disk EXCEPT !.journal = disk.backup, !.backup = NoFile]
                  ELSE [disk EXCEPT !.backup = NoFile]
  /\ lock' = <<"read">>
  /\ UNCHANGED <<body, mem, writer, cleaner, app, count, shown>>

\* readJournal: a journal of another version of the application is removed with all files.
readJournal ==
  /\ At("read")
  /\ LET lines == disk.journal.lines
         lineCount == Cardinality({i \in DOMAIN lines : lines[i] # Cut})
     IN IF disk.journal = NoFile
        THEN mem' = mem /\ lock' = Rebuild("done")
        ELSE IF disk.journal.app # app
        THEN mem' = mem /\ lock' = <<"wipe">>
        ELSE /\ \E lru \in Order(lines) :
                  LET extra == lineCount - Len(lru)
                  IN mem' = [Closed EXCEPT
                               !.lru = lru, !.entry = Replay(lines), !.journalWriter = "file",
                               !.redundantOpCount = IF extra < RebuildAfter THEN extra
                                                    ELSE RebuildAfter]
             /\ lock' = IF TruncatedAtEnd(lines) THEN Rebuild("process") ELSE <<"process">>
  /\ UNCHANGED <<disk, body, writer, cleaner, app, count, shown>>

\* delete() of a cache of another version: one file after the other, in any order.
wipe ==
  /\ At("wipe")
  /\ \/ \E f \in {"journal", "backup", "temp"} :
          disk[f] # NoFile /\ disk' = [disk EXCEPT ![f] = NoFile] /\ lock' = lock
     \/ \E f \in {"clean", "dirty", "left"}, k \in Keys :
          disk[f][k] # NoVersion /\ disk' = [disk EXCEPT ![f][k] = NoVersion] /\ lock' = lock
     \/ /\ \A f \in {"journal", "backup", "temp"} : disk[f] = NoFile
        /\ \A f \in {"clean", "dirty", "left"}, k \in Keys : disk[f][k] = NoVersion
        /\ disk' = disk /\ lock' = Rebuild("done")
  /\ UNCHANGED <<body, mem, writer, cleaner, app, count, shown>>

\* The sum of the lengths of all entries.
Taken(m) == Cardinality({k \in Keys : m.entry[k].len = 1})

\* processJournal: the temporary journal and the files of entries that were being edited are
\* deleted, the lengths of the others are added up.
processJournal ==
  /\ At("process")
  /\ LET edited == {k \in Keys : mem.entry[k].editor = Replayed}
     IN \/ /\ disk.temp # NoFile
           /\ disk' = [disk EXCEPT !.temp = NoFile] /\ UNCHANGED <<mem, lock>>
        \/ /\ disk.temp = NoFile
           /\ \E k \in edited :
                IF disk.clean[k] # NoVersion
                THEN disk' = [disk EXCEPT !.clean[k] = NoVersion] /\ mem' = mem
                ELSE /\ disk' = [disk EXCEPT !.dirty[k] = NoVersion, !.left[k] = NoVersion]
                     /\ mem' = [mem EXCEPT !.lru = Without(@, k), !.entry[k] = NoEntry]
           /\ lock' = lock
        \/ /\ disk.temp = NoFile /\ edited = {}
           /\ mem' = [mem EXCEPT !.size = Taken(mem),
                                 !.initialized = TRUE]
           /\ disk' = disk /\ lock' = Tail(lock)
  /\ UNCHANGED <<body, writer, cleaner, app, count, shown>>

\* The end of initialize() without a journal to process.
openedEmpty ==
  /\ At("done")
  /\ mem' = [mem EXCEPT !.initialized = TRUE] /\ lock' = Tail(lock)
  /\ UNCHANGED <<disk, body, writer, cleaner, app, count, shown>>

\* A mutant: entries that are being edited are left out of a rebuilt journal.
CompactFinished(m) ==
  LET ks == SelectSeq(m.lru, LAMBDA k : m.entry[k].editor = Nobody)
  IN [i \in DOMAIN ks |-> Line("CLEAN", ks[i], m.entry[ks[i]].len)]

\* The lines of a rebuilt journal, one per entry.
Compact(m) == [i \in DOMAIN m.lru |->
                 LET k == m.lru[i]
                 IN IF m.entry[k].editor # Nobody THEN Line("DIRTY", k, 0)
                    ELSE Line("CLEAN", k, m.entry[k].len)]

\* rebuildJournal, one file operation at a time: close the writer, write journal.tmp, move the
\* journal away, move journal.tmp into its place, delete the backup and open a new writer.
rebuildJournal ==
  /\ ~Free
  /\ lock' = Tail(lock)
  /\ \/ At("close") /\ \E bad \in BOOLEAN : MayFail(bad) /\ \E s \in Flush(Now, bad) : Become(s)
     \/ /\ At("temp") /\ UNCHANGED <<mem, count>>
        /\ disk' = [disk EXCEPT !.temp = [app |-> app, lines |-> Compact(mem)]]
     \/ /\ At("backup") /\ UNCHANGED <<mem, count>>
        /\ disk' = IF disk.journal = NoFile THEN disk
                   ELSE [disk EXCEPT !.backup = disk.journal, !.journal = NoFile]
     \/ /\ At("swap") /\ UNCHANGED <<mem, count>>
        /\ disk' = [disk EXCEPT !.journal = disk.temp, !.temp = NoFile]
     \/ /\ At("drop") /\ UNCHANGED count
        /\ disk' = [disk EXCEPT !.backup = NoFile]
        /\ mem' = [mem EXCEPT !.journalWriter = "file", !.rebuildFailed = FALSE]
  /\ UNCHANGED <<body, writer, cleaner, app, shown>>

-----------------------------------------------------------------------------
(* cleanupTask: trim the cache, compact the journal. *)

runCleanup ==
  /\ Free /\ mem.cleanup
  /\ mem' = [mem EXCEPT !.cleanup = FALSE]
  /\ lock' = IF mem.initialized THEN <<"trim", "compact">> ELSE <<>>
  /\ UNCHANGED <<disk, body, writer, cleaner, app, count, shown>>

\* trimToSize: the least recently used entries go. A clean file that cannot be deleted ends it.
trimToSize ==
  /\ At("trim")
  /\ \/ /\ mem.size > MaxSize /\ lock' = lock
        /\ \E kept \in BOOLEAN :
             /\ DetachKeeps(Now, Head(mem.lru), kept) /\ MayFail(kept)
             /\ Become(RemoveEntry(Now, Head(mem.lru), kept))
     \/ /\ mem.size > MaxSize /\ MayFail(TRUE) /\ lock' = Tail(lock)
        /\ \E kept \in BOOLEAN :
             /\ DetachKeeps(Now, Head(mem.lru), kept)
             /\ Become([RemoveEntryFails(Now, Head(mem.lru), kept) EXCEPT !.m.trimFailed = TRUE])
     \/ /\ mem.size <= MaxSize /\ lock' = Tail(lock)
        /\ mem' = [mem EXCEPT !.trimFailed = FALSE] /\ UNCHANGED <<disk, count>>
  /\ UNCHANGED <<body, writer, cleaner, app, shown>>

compactJournal ==
  /\ At("compact")
  /\ lock' = IF journalRebuildRequired(mem) THEN Rebuild("reset") ELSE <<>>
  /\ UNCHANGED <<disk, body, mem, writer, cleaner, app, count, shown>>

compacted ==
  /\ At("reset")
  /\ mem' = [mem EXCEPT !.redundantOpCount = 0] /\ lock' = <<>>
  /\ UNCHANGED <<disk, body, writer, cleaner, app, count, shown>>

\* An I/O error while the task rebuilds the journal: the writer becomes a black hole.
rebuildFails ==
  /\ ~Free /\ Last(lock) = "reset" /\ Head(lock) \in {"temp", "backup", "swap", "drop"}
  /\ MayFail(TRUE)
  /\ mem' = [mem EXCEPT !.rebuildFailed = TRUE, !.journalWriter = "blackhole"]
  /\ lock' = <<>>
  /\ UNCHANGED <<disk, body, writer, cleaner, app, shown>>

-----------------------------------------------------------------------------
(* MsgsCacheManager.storeMsgInternal: edit, newSink, write, commit, close, get. *)

\* The Entry that a writer edits: the one in the map, or one that lost its place there.
EntryOf(w) == IF writer[w].own # <<>> THEN writer[w].own[1] ELSE mem.entry[writer[w].key]

\* entry.currentEditor == this
Current(w) == /\ writer[w].pc # "idle"
              /\ \/ writer[w].own # <<>>
                 \/ mem.entry[writer[w].key].editor = w

Goto(w, pc) == writer' = [writer EXCEPT ![w].pc = pc]

\* edit(key): refused while another edit is in progress, while the last clean-up has failed and
\* when the journal cannot be written; DIRTY is on disk before any file.
edit(w, k) ==
  /\ Ready /\ writer[w].pc = "idle" /\ Spend("stores", MaxStores)
  /\ LET v == count.stores + 1
         m == Touch(mem, k)
     IN IF m.entry[k].editor # Nobody
        THEN mem' = m /\ UNCHANGED <<disk, writer>>
        ELSE IF m.trimFailed \/ m.rebuildFailed
        THEN mem' = [m EXCEPT !.cleanup = TRUE] /\ UNCHANGED <<disk, writer>>
        ELSE \E s \in Flush([d |-> disk, m |-> Log(m, Line("DIRTY", k, 0))], FALSE) :
               /\ disk' = s.d
               /\ IF s.m.journalWriter = "bad"
                  THEN mem' = s.m /\ UNCHANGED writer
                  ELSE LET n == IF Contains(s.m.lru, k) THEN s.m
                                ELSE [s.m EXCEPT !.lru = Append(@, k), !.entry[k].id = v]
                       IN /\ mem' = [n EXCEPT !.entry[k].editor = w]
                          /\ writer' = [writer EXCEPT ![w] =
                               [pc |-> "sink", key |-> k, ver |-> v, sink |-> FALSE, own |-> <<>>]]
  /\ UNCHANGED <<body, lock, cleaner, app, shown>>

\* edit(key) whose DIRTY line cannot be written (hasJournalErrors).
editFails(w, k) ==
  /\ Ready /\ writer[w].pc = "idle" /\ MayFail(TRUE)
  /\ LET m == Touch(mem, k)
     IN /\ m.entry[k].editor = Nobody /\ ~m.trimFailed /\ ~m.rebuildFailed
        /\ m.journalWriter = "file"
        /\ \E s \in Flush([d |-> disk, m |-> Log(m, Line("DIRTY", k, 0))], TRUE) : Become(s)
  /\ UNCHANGED <<body, lock, writer, cleaner, app, shown>>

\* newSink(): a black hole when the edit is not current or the file cannot be created. A file that
\* was left is written over (and whoever has it still open may go on writing to it).
newSink(w) ==
  LET k == writer[w].key
      v == writer[w].ver
  IN /\ Free /\ writer[w].pc = "sink"
     /\ \E bad \in BOOLEAN :
          LET real == Current(w) /\ ~bad
          IN /\ bad => Current(w)
             /\ MayFail(bad)
             /\ disk' = IF real
                        THEN [disk EXCEPT !.dirty[k] = v, !.left[k] = NoVersion,
                                          !.spoilt = IF disk.left[k] # NoVersion THEN @ \cup {v} ELSE @]
                        ELSE disk
             /\ writer' = [writer EXCEPT ![w].pc = "data", ![w].sink = real]
     /\ UNCHANGED <<body, mem, lock, cleaner, app, shown>>

\* action.invoke and bufferedSink.flush(): the message arrives, all but the last block is in
\* the file. (This and close() take no lock; they touch nothing that a holder of the lock reads
\* or changes, so they are placed before or after the holder's steps.)
write(w) ==
  /\ Free /\ writer[w].pc = "data"
  /\ body' = IF writer[w].sink THEN [body EXCEPT ![writer[w].ver] = "body"] ELSE body
  /\ Goto(w, "commit")
  /\ UNCHANGED <<disk, mem, lock, cleaner, app, count, shown>>

\* A mutant: the error is hidden and the edit stays current.
writeFailsHidden(w) ==
  /\ Free /\ writer[w].pc = "data" /\ writer[w].sink /\ MayFail(TRUE)
  /\ writer' = [writer EXCEPT ![w].pc = "commit", ![w].sink = FALSE]
  /\ UNCHANGED <<disk, body, mem, lock, cleaner, app, shown>>

\* A write to the file fails: FaultHidingSink hides the error and detaches the edit.
writeFails(w) ==
  /\ Free /\ writer[w].pc = "data" /\ writer[w].sink /\ MayFail(TRUE)
  /\ IF Current(w) /\ writer[w].own = <<>>
     THEN \E kept \in BOOLEAN : /\ DetachKeeps(Now, writer[w].key, kept)
                               /\ Become(Detach(Now, writer[w].key, kept))
     ELSE /\ disk' = IF Current(w) THEN [disk EXCEPT !.dirty[writer[w].key] = NoVersion] ELSE disk
          /\ mem' = mem
  /\ writer' = [writer EXCEPT ![w].pc = "commit", ![w].sink = FALSE, ![w].own = <<>>]
  /\ UNCHANGED <<body, lock, cleaner, app, shown>>

\* The message cannot be downloaded: the stream is closed, the edit aborted.
downloadFails(w) ==
  /\ Free /\ writer[w].pc = "data" /\ Goto(w, "abort")
  /\ UNCHANGED <<disk, body, mem, lock, cleaner, app, count, shown>>

\* completeEdit(editor, false) up to its flush.
Aborted(w) ==
  LET k == writer[w].key
      e == [EntryOf(w) EXCEPT !.editor = Nobody]
      m == Redundant(IF writer[w].own # <<>> THEN mem ELSE [mem EXCEPT !.entry[k] = e])
  IN [d |-> [disk EXCEPT !.dirty[k] = NoVersion, !.left[k] = NoVersion],
      m |-> IF e.readable THEN Log(m, Line("CLEAN", k, e.len))
            ELSE Log([m EXCEPT !.lru = Without(@, k), !.entry[k] = NoEntry], Line("REMOVE", k, 0))]

\* The flush at the end of completeEdit, and the scheduling of the clean-up.
FinishEdit(s) ==
  \E bad \in BOOLEAN :
    /\ bad => s.m.journalWriter = "file"
    /\ MayFail(bad)
    /\ \E t \in Flush(s, bad) :
         Become([t EXCEPT !.m.cleanup = @ \/ t.m.size > MaxSize \/ journalRebuildRequired(t.m)])

\* abort()
abort(w) ==
  /\ Free /\ writer[w].pc = "abort"
  /\ IF Current(w) THEN FinishEdit(Aborted(w)) ELSE UNCHANGED <<disk, mem, count>>
  /\ writer' = [writer EXCEPT ![w] = Resting]
  /\ UNCHANGED <<body, lock, cleaner, app, shown>>

\* abort() when the temporary file cannot be deleted: the exception leaves the edit current, and
\* nothing is written to the journal.
abortFails(w) ==
  /\ Free /\ writer[w].pc = "abort" /\ Current(w) /\ TempFile(disk, writer[w].key) # NoVersion
  /\ MayFail(TRUE)
  /\ mem' = IF writer[w].own # <<>> THEN mem ELSE [mem EXCEPT !.entry[writer[w].key].editor = Stuck]
  /\ writer' = [writer EXCEPT ![w] = Resting]
  /\ UNCHANGED <<disk, body, lock, cleaner, app, shown>>

\* commit(): nothing for an edit that is not current, an abort for a new entry without a file;
\* otherwise the temporary file, if there is one, becomes the clean file and the lock is kept for
\* the journal.
commit(w) ==
  LET k == writer[w].key
      e == EntryOf(w)
      v == TempFile(disk, k)
  IN /\ Free /\ writer[w].pc = "commit"
     /\ \/ /\ ~Current(w) /\ Goto(w, "close") /\ UNCHANGED <<disk, mem, lock, count, shown>>
        \/ /\ Current(w) /\ ~e.readable /\ v = NoVersion
           /\ FinishEdit(Aborted(w))
           /\ writer' = [writer EXCEPT ![w].pc = "close", ![w].own = <<>>]
           /\ UNCHANGED <<lock, shown>>
        \/ /\ Current(w) /\ (e.readable \/ v # NoVersion)
           /\ lock' = <<"publish">> /\ UNCHANGED count
           /\ IF v # NoVersion
              THEN LET f == [e EXCEPT !.len = 1]
                   IN /\ disk' = [disk EXCEPT !.clean[k] = v, !.dirty[k] = NoVersion,
                                              !.left[k] = NoVersion]
                      /\ writer' = [writer EXCEPT ![w].pc = "publish",
                                       ![w].own = IF @ = <<>> THEN @ ELSE <<f>>]
                      /\ mem' = IF writer[w].own # <<>>
                                THEN [mem EXCEPT !.size = @ - e.len + 1]
                                ELSE [mem EXCEPT !.size = @ - e.len + 1, !.entry[k] = f]
                      /\ shown' = IF e.readable THEN shown \cup {v} ELSE shown
              ELSE Goto(w, "publish") /\ UNCHANGED <<disk, mem, shown>>
  /\ UNCHANGED <<body, cleaner, app>>

\* The rename of commit() fails after the old file was deleted: the exception leads to abort().
commitFails(w) ==
  /\ Free /\ writer[w].pc = "commit" /\ Current(w) /\ TempFile(disk, writer[w].key) # NoVersion
  /\ MayFail(TRUE)
  /\ disk' = [disk EXCEPT !.clean[writer[w].key] = NoVersion]
  /\ Goto(w, "abort")
  /\ UNCHANGED <<body, mem, lock, cleaner, app, shown>>

\* The rest of completeEdit(editor, true): the entry is readable, CLEAN is written and flushed.
publish(w) ==
  LET k == writer[w].key
      e == [EntryOf(w) EXCEPT !.editor = Nobody, !.readable = TRUE]
      m == IF writer[w].own # <<>> THEN mem ELSE [mem EXCEPT !.entry[k] = e]
  IN /\ At("publish") /\ writer[w].pc = "publish"
     /\ FinishEdit([d |-> disk, m |-> Log(Redundant(m), Line("CLEAN", k, e.len))])
     /\ shown' = IF writer[w].own = <<>> THEN shown \cup ({disk.clean[k]} \ {NoVersion}) ELSE shown
     /\ writer' = [writer EXCEPT ![w].pc = "close", ![w].own = <<>>]
     /\ lock' = Tail(lock)
     /\ UNCHANGED <<body, cleaner, app>>

\* The end of outputStream.use: close() writes the last block of the cipher, after the commit.
close(w) ==
  /\ Free /\ writer[w].pc = "close"
  /\ \E bad \in BOOLEAN :
       /\ bad => writer[w].sink
       /\ MayFail(bad)
       /\ body' = IF writer[w].sink
                  THEN [body EXCEPT ![writer[w].ver] = IF bad THEN "cut" ELSE "whole"] ELSE body
  /\ Goto(w, "check")
  /\ UNCHANGED <<disk, mem, lock, cleaner, app, shown>>

\* diskLruCache[key] at the end of storeMsgInternal.
check(w) ==
  /\ Ready /\ writer[w].pc = "check"
  /\ \E kept \in BOOLEAN :
       /\ DetachKeeps(Now, writer[w].key, kept) /\ MayFail(kept)
       /\ Become(Get(Now, writer[w].key, kept))
  /\ writer' = [writer EXCEPT ![w] = Resting]
  /\ UNCHANGED <<body, lock, cleaner, app, shown>>

-----------------------------------------------------------------------------
(* Readers, evictAll, the cleaner, the end of the process. *)

\* (The event of a read may bring along the I/O error that keeps a temporary file.)
get(k) ==
  /\ Ready /\ Spend("events", MaxEvents)
  /\ \E kept \in BOOLEAN : DetachKeeps(Now, k, kept) /\ Become(Get(Now, k, kept))
  /\ UNCHANGED <<body, lock, writer, cleaner, app, shown>>

\* evictAll(), called when a cached message cannot be decrypted; entry after entry.
evictAll ==
  /\ Ready /\ Spend("events", MaxEvents)
  /\ lock' = <<"evict">>
  /\ UNCHANGED <<disk, body, mem, writer, cleaner, app, shown>>

evictNext ==
  /\ At("evict")
  /\ \/ /\ mem.lru # <<>> /\ lock' = lock
        /\ \E kept \in BOOLEAN :
             /\ DetachKeeps(Now, Head(mem.lru), kept) /\ MayFail(kept)
             /\ Become(RemoveEntry(Now, Head(mem.lru), kept))
     \/ /\ mem.lru # <<>> /\ MayFail(TRUE) /\ lock' = <<>>
        /\ \E kept \in BOOLEAN :
             /\ DetachKeeps(Now, Head(mem.lru), kept)
             /\ Become(RemoveEntryFails(Now, Head(mem.lru), kept))
     \/ /\ mem.lru = <<>> /\ mem' = [mem EXCEPT !.trimFailed = FALSE] /\ lock' = <<>>
        /\ UNCHANGED <<disk, count>>
  /\ UNCHANGED <<body, writer, cleaner, app, shown>>

\* MsgsCacheCleanerWorker.doWork: snapshots() copies the entries.
cleanStart ==
  /\ Ready /\ cleaner = [todo |-> <<>>, old |-> <<>>] /\ mem.lru # <<>> /\ Spend("events", MaxEvents)
  /\ cleaner' = [todo |-> [i \in DOMAIN mem.lru |->
                             [key |-> mem.lru[i], id |-> mem.entry[mem.lru[i]].id]],
                 old |-> <<>>]
  /\ UNCHANGED <<disk, body, mem, lock, writer, app, shown>>

\* hasNext() and next() for one of the copied entries; its date decides whether it is too old.
cleanNext ==
  /\ Ready /\ cleaner.todo # <<>> /\ cleaner.old = <<>>
  /\ LET o == Head(cleaner.todo)
         k == o.key
         rest == [todo |-> Tail(cleaner.todo), old |-> <<>>]
         stale == ~Contains(mem.lru, k) \/ mem.entry[k].id # o.id
         readable == IF stale THEN o.id = 0 \/ o.id \in shown ELSE mem.entry[k].readable
         edited == mem.entry[k].editor
     IN IF ~readable \/ (stale /\ ~Gaps)
        THEN cleaner' = rest /\ UNCHANGED <<disk, mem, writer, count>>
        ELSE IF disk.clean[k] # NoVersion
        THEN /\ \E o2 \in {<<>>, <<k>>} : cleaner' = [rest EXCEPT !.old = o2]
             /\ UNCHANGED <<disk, mem, writer, count>>
        ELSE /\ cleaner' = rest
             /\ IF ~stale
                THEN /\ \E kept \in BOOLEAN :
                          /\ DetachKeeps(Now, k, kept) /\ MayFail(kept)
                          /\ Become(RemoveEntry(Now, k, kept))
                     /\ UNCHANGED writer
                ELSE /\ UNCHANGED count
                     /\ mem' = ScheduleIfNeeded(Log(Redundant(
                          [mem EXCEPT !.lru = Without(@, k), !.entry[k] = NoEntry]),
                          Line("REMOVE", k, 0)))
                     /\ writer' = IF edited \in Writers
                                  THEN [writer EXCEPT ![edited].own = <<mem.entry[k]>>] ELSE writer
                     /\ disk' = disk
  /\ UNCHANGED <<body, lock, app, shown>>

\* remove(key) of an entry that is too old.
cleanRemove ==
  /\ Ready /\ cleaner.old # <<>>
  /\ LET k == cleaner.old[1]
     IN \E kept \in BOOLEAN :
          /\ DetachKeeps(Now, k, kept) /\ MayFail(kept)
          /\ LET s == IF Contains(mem.lru, k) THEN RemoveEntry(Now, k, kept) ELSE Now
             IN Become([s EXCEPT !.m.trimFailed = @ /\ ~(Contains(mem.lru, k) /\ s.m.size <= MaxSize)])
  /\ cleaner' = [cleaner EXCEPT !.old = <<>>]
  /\ UNCHANGED <<body, lock, writer, app, shown>>

\* remove(key) when the clean file cannot be deleted: the exception ends the worker.
cleanRemoveFails ==
  /\ Ready /\ cleaner.old # <<>> /\ Contains(mem.lru, cleaner.old[1]) /\ MayFail(TRUE)
  /\ \E kept \in BOOLEAN :
       /\ DetachKeeps(Now, cleaner.old[1], kept)
       /\ Become(RemoveEntryFails(Now, cleaner.old[1], kept))
  /\ cleaner' = [todo |-> <<>>, old |-> <<>>]
  /\ UNCHANGED <<body, lock, writer, app, shown>>

\* The process dies, with or without an update of the application; of the lines in the
\* buffer of the journal any part may have been written.
restart ==
  /\ Gaps \/ ~At("wipe")
  /\ Spend("events", MaxEvents)
  /\ app' \in {app, app + 1}
  /\ \E p \in Torn(mem.buffer) :
       disk' = IF mem.journalWriter = "file" /\ disk.journal # NoFile THEN Appended(disk, p) ELSE disk
  /\ mem' = Closed /\ lock' = <<>>
  /\ writer' = [w \in Writers |-> Resting]
  /\ cleaner' = [todo |-> <<>>, old |-> <<>>]
  /\ body' = [v \in Versions |-> IF body[v] = "body" THEN "cut" ELSE body[v]]
  /\ UNCHANGED shown

Next ==
  \/ initialize \/ readJournal \/ wipe \/ processJournal \/ openedEmpty \/ rebuildJournal
  \/ runCleanup \/ trimToSize \/ compactJournal \/ compacted \/ rebuildFails
  \/ \E w \in Writers, k \in Keys : edit(w, k) \/ editFails(w, k)
  \/ \E w \in Writers :
       \/ newSink(w) \/ write(w) \/ writeFails(w) \/ downloadFails(w) \/ abort(w) \/ abortFails(w)
       \/ commit(w) \/ commitFails(w) \/ publish(w) \/ close(w) \/ check(w)
  \/ \E k \in Keys : get(k)
  \/ evictAll \/ evictNext \/ cleanStart \/ cleanNext \/ cleanRemove \/ cleanRemoveFails
  \/ restart

Spec == Init /\ [][Next]_vars

-----------------------------------------------------------------------------
(* What can be read: from the open cache, or after opening it again. *)

OnDisk == IF disk.journal # NoFile THEN disk.journal ELSE disk.backup

Recovered == IF OnDisk.app = app THEN Replay(OnDisk.lines) ELSE [k \in Keys |-> NoEntry]

Readable ==
  LET e == IF mem.initialized THEN mem.entry ELSE Recovered
  IN [k \in Keys |-> IF e[k].readable /\ (mem.initialized \/ e[k].editor = Nobody)
                     THEN disk.clean[k] ELSE NoVersion]

Promise == INSTANCE MsgCache WITH
             cache <- Readable,
             pool <- Versions \ shown

-----------------------------------------------------------------------------
(* Properties. *)

TypeOK ==
  /\ disk.clean \in [Keys -> Versions \cup {NoVersion}]
  /\ disk.dirty \in [Keys -> Versions \cup {NoVersion}]
  /\ \A f \in {"journal", "backup", "temp"} : disk[f].app \in 0 .. app
  /\ disk.left \in [Keys -> Versions \cup {NoVersion}]
  /\ body \in [Versions -> {"part", "body", "whole", "cut"}]
  /\ mem.lru \in Seq(Keys)
  /\ mem.entry \in [Keys -> [readable : BOOLEAN, len : {0, 1}, id : Versions \cup {0},
                             editor : Writers \cup {Nobody, Replayed, Stuck}]]
  /\ mem.journalWriter \in {"none", "file", "bad", "blackhole"}
  /\ mem.size \in Int
  /\ mem.redundantOpCount \in 0 .. RebuildAfter
  /\ \A w \in Writers : writer[w].ver \in Versions \cup {NoVersion}
  /\ shown \subseteq Versions

\* The cache keeps its promise: through interrupted edits and rebuilds of the journal, lost
\* journal lines, hidden I/O errors and restarts, a key holds what was committed last or nothing.
KeepsPromise == Promise!Spec

\* A version that can be read has been written up to the flush before commit(): failed writes
\* and interrupted downloads are never published. Its last block is missing ("body") only until
\* its writer, which commits before it closes the stream, has closed it, and for ever ("cut") only
\* after a crash or an I/O error of close(). This is less than the "full set of values" of the
\* class comment, and it is not said of a file that an ignored failure of a deletion left behind: the
\* next edit of the key may publish such a file or write over it (disk.spoilt).
PublishedBody ==
  \A k \in Keys :
    LET v == Readable[k]
    IN v \notin {NoVersion} \cup disk.spoilt =>
         /\ body[v] # "part"
         /\ body[v] = "body" => \E w \in Writers : writer[w].ver = v /\ writer[w].pc \in {"publish", "close"}

\* "Flush the journal before creating files to prevent file leaks": opening the cache again
\* finds every clean file in the journal and every temporary file as one of an unfinished edit,
\* but for the temporary files that detach() could not delete and gave up (disk.left,
\* "potentially leaked"). Those that the interrupted edit can still own (a failed abort) are found.
NoLeak ==
  OnDisk.app = app =>
    \A k \in Keys :
      /\ disk.clean[k] # NoVersion => LinesOf(OnDisk.lines, k) # {}
      /\ disk.dirty[k] # NoVersion => Recovered[k].editor = Replayed

\* size is the sum of the lengths that commit() took or the journal gave (close() may still add the
\* last block of the cipher to a file): it bounds the cache, and trimToSize finds an entry
\* to evict.
SizeOK == mem.initialized => mem.size = Taken(mem)

\* "An entry may have only one editor at one time".
OneEditor == \A w1, w2 \in Writers :
  Current(w1) /\ Current(w2) /\ writer[w1].key = writer[w2].key => w1 = w2
=============================================================================
