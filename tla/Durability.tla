----------------------------- MODULE Durability -----------------------------
(***************************************************************************)
(* What LevelDB keeps on disk and how it comes back after a crash: the     *)
(* log files, the tables, the MANIFEST and CURRENT files, DB::Open() with  *)
(* its recovery, VersionSet::LogAndApply(), the flush of a memtable, the   *)
(* compaction of tables and the deletion of obsolete files                 *)
(* (src/leveldb/db/db_impl.cc, version_set.cc, filename.cc,                *)
(* util/env_win.cc).                                                       *)
(*                                                                         *)
(* A write is its sequence number, a table the set of its writes, a log    *)
(* the set of its records with those that a Sync() put on disk.  One       *)
(* action is one I/O step, or what one thread does before it releases      *)
(* mutex_.  pc is the place of the thread that opens the database and,     *)
(* once it is open, of the background thread; the writers, ordered by      *)
(* their queue (module WritePath), are one more thread.                    *)
(***************************************************************************)
EXTENDS Naturals, Functions

CONSTANTS
  MaxWrites,      \* bound on sequence numbers
  MaxFile,        \* bound on the file numbers compactions use
  MaxCrashes,     \* bound on crashes
  MaxFaults,      \* bound on I/O failures
  CrashKinds,     \* of "process" and "machine"
  CrashPoints,    \* windows in which a crash strikes, of those in Windows
  FaultKinds      \* the I/O operations that may fail, of those in Faulty

\* The places where the code is known not to survive a crash: inside
\* RenameFile(); inside AddRecord() on a MANIFEST, or before its Sync(); before
\* the MANIFEST of a new database is on disk; after Open() wrote its MANIFEST over
\* a longer one; after a compaction went on writing a MANIFEST on which the edit
\* of a flush inside it had failed.
Windows == {"rename", "manifest", "newdb", "leftover", "goes_on"}
Faulty == {"create", "open", "table", "recover", "manifest", "sync", "delete", "move", "rename"}

ASSUME BoundsAssumption == {MaxWrites, MaxFile, MaxCrashes, MaxFaults} \subseteq Nat
ASSUME KindsAssumption ==
  CrashKinds \subseteq {"process", "machine"} /\ CrashPoints \subseteq Windows /\ FaultKinds \subseteq Faulty

VARIABLES
  \* the disk
  logs,           \* logs[n]: records of n.log, and those on disk
  tables,         \* tables[n]: writes in n.sst, {} while it is built
  manifests,      \* manifests[n]: what MANIFEST-n says, and what it says on disk
  current,        \* the number in CURRENT, 0 when there is no such file
  tmp,            \* the number in the temporary file of SetCurrentFile(), or 0
  \* the process
  pc, who, edit,  \* place, caller and edit of the running LogAndApply()
  version,        \* the tables of the current Version
  next_file_number_, manifest_file_number_, log_number_, logfile_number_, last_sequence_,
  mem_, imm_,     \* writes in the memtables; imm_ = {} is a NULL imm_
  rec,            \* locals of Recover()
  out, inputs, compact,   \* table that is flushed; inputs and output of a compaction
  pending_outputs_, bg_error_,
  w, w_sync,      \* the write that is logged but not acknowledged, or 0
  pinned,         \* tables of the Version an iterator holds
  \* what callers rely on, and what may still go wrong
  acked,          \* writes that survive the end of the process
  safe,           \* writes that survive the end of the machine
  crashes, faults

disk == <<logs, tables, manifests, current, tmp>>
numbers == <<next_file_number_, manifest_file_number_, log_number_, logfile_number_, last_sequence_>>
jobs == <<out, inputs, compact, pending_outputs_, bg_error_>>
promises == <<acked, safe>>
client == <<mem_, w, w_sync, pinned>>
vars == <<disk, pc, who, edit, version, numbers, imm_, rec, jobs, client, promises, crashes, faults>>

\* What a MANIFEST says that cannot be read, and one with nothing but these tables
NoState == [ok |-> FALSE, files |-> {}, log |-> 0, next |-> 0, last |-> 0]
Snapshot(files) == [NoState EXCEPT !.ok = TRUE, !.files = files]
Unreadable == [written |-> NoState, synced |-> NoState]
NoEdit == [add |-> {}, del |-> {}, log |-> 0, next |-> 0, last |-> 0]
NoRec == [todo |-> {}, left |-> {}, add |-> {}, max |-> 0, ok |-> TRUE]

\* The process is not running: nothing is in memory.
Blank ==
  /\ pc' = "down" /\ who' = "open" /\ edit' = NoEdit /\ version' = {}
  /\ next_file_number_' = 2 /\ manifest_file_number_' = 0 /\ log_number_' = 0
  /\ logfile_number_' = 0 /\ last_sequence_' = 0
  /\ mem_' = {} /\ imm_' = {} /\ rec' = NoRec /\ out' = 0 /\ inputs' = {} /\ compact' = 0
  /\ pending_outputs_' = {} /\ bg_error_' = FALSE /\ w' = 0 /\ w_sync' = FALSE /\ pinned' = {}

Init ==
  /\ logs = <<>> /\ tables = <<>> /\ manifests = <<>> /\ current = 0 /\ tmp = 0
  /\ pc = "down" /\ who = "open" /\ edit = NoEdit /\ version = {}
  /\ next_file_number_ = 2 /\ manifest_file_number_ = 0 /\ log_number_ = 0
  /\ logfile_number_ = 0 /\ last_sequence_ = 0
  /\ mem_ = {} /\ imm_ = {} /\ rec = NoRec /\ out = 0 /\ inputs = {} /\ compact = 0
  /\ pending_outputs_ = {} /\ bg_error_ = FALSE /\ w = 0 /\ w_sync = FALSE /\ pinned = {}
  /\ acked = {} /\ safe = {} /\ crashes = MaxCrashes /\ faults = MaxFaults

-----------------------------------------------------------------------------
(* Files *)

Put(f, n, x) == [i \in DOMAIN f \cup {n} |-> IF i = n THEN x ELSE f[i]]
Drop(f, S) == Restrict(f, DOMAIN f \ S)

\* The next record of a MANIFEST, applied to what it says so far
Apply(m, e) ==
  [ok |-> m.ok, files |-> (m.files \ e.del) \cup e.add, log |-> e.log, next |-> e.next, last |-> e.last]

Works == UNCHANGED faults
Fails(kind) == kind \in FaultKinds /\ faults > 0 /\ faults' = faults - 1

\* DB::Open() returns an error and deletes the DBImpl.
OpenFailed == Blank /\ UNCHANGED <<promises, crashes>>

-----------------------------------------------------------------------------
(* DB::Open() and DBImpl::Recover() *)

Open ==
  /\ pc = "down"
  /\ pc' = IF current = 0 THEN "newdb" ELSE "recover"
  /\ UNCHANGED <<disk, who, edit, version, numbers, imm_, rec, jobs, client, promises, crashes, faults>>

\* NewDB() closes MANIFEST-1 without a Sync() and goes on in SetCurrentFile().
NewDB ==
  /\ pc = "newdb"
  /\ \/ /\ Works
        /\ manifests' = Put(manifests, 1,
             [written |-> Apply(Snapshot({}), [NoEdit EXCEPT !.next = 2]), synced |-> NoState])
        /\ pc' = "tmp" /\ who' = "newdb"
        /\ UNCHANGED <<edit, version, numbers, imm_, rec, jobs, client, promises, crashes>>
     \/ /\ Fails("create")
        /\ manifests' = Drop(manifests, {1})
        /\ OpenFailed
  /\ UNCHANGED <<logs, tables, current, tmp>>

\* What a reader finds in CURRENT and the MANIFEST it names
Descriptor == IF current \in DOMAIN manifests THEN manifests[current].written ELSE NoState

\* Mutant: only the logs of the directory are looked at.
MissingUnlessLog(m) == m.files \ DOMAIN logs

\* Tables of the descriptor that no file of the directory accounts for; any
\* file with the number does.
Missing(m) == m.files \ (DOMAIN tables \cup DOMAIN logs \cup DOMAIN manifests \cup {tmp})

\* The logs that hold writes newer than the tables
LogsToRecover(m) == {n \in DOMAIN logs : n >= m.log}

\* VersionSet::Recover(), and the choice of the logs to read.  The numbers it
\* marks as used are below the next_file_number_ it sets at its end.
RecoverVersion ==
  /\ pc = "recover"
  /\ LET m == Descriptor IN
     IF m.ok /\ Missing(m) = {}
     THEN /\ version' = m.files /\ log_number_' = m.log /\ last_sequence_' = m.last
          /\ manifest_file_number_' = m.next /\ next_file_number_' = m.next + 1
          /\ rec' = [NoRec EXCEPT !.todo = LogsToRecover(m)]
          /\ pc' = "logs"
          /\ UNCHANGED <<who, edit, logfile_number_, imm_, jobs, client, promises, crashes>>
     ELSE OpenFailed
  /\ UNCHANGED <<disk, faults>>

MarkFileNumberUsed(next, n) == IF next <= n THEN n + 1 ELSE next

\* RecoverLogFile() returns to Recover(), which replaces the status of the logs
\* before n by that of n.
LogIsRead(r, n, ok) == [r EXCEPT !.todo = @ \ {n}, !.left = {}, !.ok = ok]

\* Recover() reads the logs in the order in which they were made.
OldestLog == {n \in rec.todo : \A i \in rec.todo : n <= i}

\* One table of RecoverLogFile(n): WriteLevel0Table() of the records that fill a
\* memtable, in the order of the log, or of the rest.  A failed table is deleted
\* and ends the log; a log that cannot be opened is skipped, unless paranoid_checks.
RecoverTable(n) ==
  LET left == IF rec.left = {} THEN logs[n].data ELSE rec.left
      t == next_file_number_
  IN \/ /\ left = {} /\ Works
        /\ rec' = LogIsRead(rec, n, TRUE)
        /\ next_file_number_' = MarkFileNumberUsed(t, n)
        /\ UNCHANGED tables
     \/ /\ rec.left = {} /\ Fails("open")
        /\ \E paranoid_checks \in BOOLEAN : rec' = LogIsRead(rec, n, ~paranoid_checks)
        /\ next_file_number_' = MarkFileNumberUsed(t, n)
        /\ UNCHANGED tables
     \/ \E k \in left :
          LET chunk == {x \in left : x <= k}
              r == [rec EXCEPT !.max = IF k > @ THEN k ELSE @]
              built == [r EXCEPT !.left = left \ chunk, !.add = @ \cup {t}]
          IN \/ /\ Works
                /\ tables' = Put(tables, t, chunk)
                /\ IF left = chunk
                   THEN /\ rec' = LogIsRead(built, n, TRUE)
                        /\ next_file_number_' = MarkFileNumberUsed(t + 1, n)
                   ELSE rec' = built /\ next_file_number_' = t + 1
             \/ /\ Fails("recover")
                /\ tables' = Drop(tables, {t})
                /\ rec' = LogIsRead(r, n, FALSE)
                /\ next_file_number_' = MarkFileNumberUsed(t + 1, n)

RecoverLogFile ==
  /\ pc = "logs"
  /\ \E n \in OldestLog : RecoverTable(n)
  /\ UNCHANGED <<logs, manifests, current, tmp, pc, who, edit, version, manifest_file_number_,
                 log_number_, logfile_number_, last_sequence_, imm_, jobs, client, promises, crashes>>

\* Mutant: the sequence numbers in the logs are not looked at.
ManifestSequence == last_sequence_

\* The last sequence number, from the MANIFEST or from the logs
RecoveredSequence == IF rec.max > last_sequence_ THEN rec.max ELSE last_sequence_

\* Recover() ends; DB::Open() creates the new log and calls LogAndApply().
OpenLog ==
  /\ pc = "logs" /\ rec.todo = {}
  /\ LET n == next_file_number_
         last == RecoveredSequence
     IN \/ /\ rec.ok /\ Works
           /\ logs' = Put(logs, n, [data |-> {}, synced |-> {}])
           /\ logfile_number_' = n /\ next_file_number_' = n + 1 /\ last_sequence_' = last
           /\ edit' = [add |-> rec.add, del |-> {}, log |-> n, next |-> n + 1, last |-> last]
           /\ pc' = "append" /\ who' = "open" /\ rec' = NoRec
           /\ UNCHANGED <<version, manifest_file_number_, log_number_, imm_, jobs, client, promises, crashes>>
        \/ /\ (~rec.ok /\ Works) \/ (rec.ok /\ Fails("create"))
           /\ OpenFailed /\ UNCHANGED logs
  /\ UNCHANGED <<tables, manifests, current, tmp>>

-----------------------------------------------------------------------------
(* VersionSet::LogAndApply(), for Open(), a flush, a compaction or a move *)

\* Where the background thread continues after a flush
Resume == IF compact # 0 THEN "work" ELSE "idle"

\* Mutant: imm_ is dropped although its table could not be installed.
ImmForgotten(ok) == {}

\* What is left of imm_ when CompactMemTable() ends
ImmAfter(ok) == IF ok THEN {} ELSE imm_

\* DeleteObsoleteFiles() runs, and is not stopped by a background error.
Collects == who # "move" /\ ~bg_error_

\* LogAndApply() returns an error.  Open() fails, without the new MANIFEST; a
\* flush keeps imm_; a compaction gives up its outputs.
LogAndApplyFailed ==
  \/ /\ who = "open"
     /\ OpenFailed
  \/ /\ who # "open"
     /\ bg_error_' = TRUE /\ edit' = NoEdit /\ out' = 0
     /\ IF who = "flush"
        THEN pc' = Resume /\ imm_' = ImmAfter(FALSE) /\ UNCHANGED <<inputs, compact, pending_outputs_>>
        ELSE /\ pc' = "idle" /\ inputs' = {} /\ compact' = 0
             /\ pending_outputs_' = pending_outputs_ \ {compact} /\ UNCHANGED imm_
     /\ UNCHANGED <<who, version, numbers, rec, client, promises, crashes>>

\* AddRecord() on the MANIFEST; Open() writes a new one with a snapshot first.  A
\* file of that name is not truncated: what is behind the new records may be read.
AppendEdit ==
  /\ pc = "append"
  /\ LET n == manifest_file_number_
         m == IF who = "open" THEN [written |-> Snapshot(version), synced |-> NoState]
                              ELSE manifests[n]
     IN \/ /\ Works
           /\ \/ manifests' = Put(manifests, n, [m EXCEPT !.written = Apply(@, edit)])
              \/ /\ "leftover" \in CrashPoints /\ who = "open" /\ n \in DOMAIN manifests
                 /\ manifests' = Put(manifests, n, Unreadable)
           /\ pc' = "sync"
           /\ UNCHANGED <<who, edit, version, numbers, imm_, rec, jobs, client, promises, crashes>>
        \/ /\ Fails("manifest")
           /\ manifests' = IF who = "open" THEN Drop(manifests, {n}) ELSE manifests
           /\ LogAndApplyFailed
  /\ UNCHANGED <<logs, tables, current, tmp>>

\* Sync(); if the edit of a flush inside the compaction failed, a part of its
\* record is in the way, or is taken for synced.
SyncEdit ==
  /\ pc = "sync"
  /\ LET n == manifest_file_number_ IN
     \/ /\ Works
        /\ \/ manifests' = [manifests EXCEPT ![n].synced = manifests[n].written]
           \/ /\ "goes_on" \in CrashPoints /\ who = "compact" /\ bg_error_ /\ imm_ # {}
              /\ manifests' \in {Put(manifests, n, Unreadable), [manifests EXCEPT ![n].synced = NoState]}
        /\ pc' = IF who = "open" THEN "tmp" ELSE "install"
        /\ UNCHANGED <<who, edit, version, numbers, imm_, rec, jobs, client, promises, crashes>>
     \/ /\ Fails("manifest")
        /\ manifests' = IF who = "open" THEN Drop(manifests, {n}) ELSE manifests
        /\ LogAndApplyFailed
  /\ UNCHANGED <<logs, tables, current, tmp>>

\* SetCurrentFile() succeeds or fails, in NewDB() or in LogAndApply().
Named == IF who = "newdb" THEN 1 ELSE manifest_file_number_

CurrentIsSet ==
  /\ pc' = IF who = "newdb" THEN "recover" ELSE "install"
  /\ UNCHANGED <<manifests, who, edit, version, numbers, imm_, rec, jobs, client, promises, crashes>>

CurrentNotSet ==
  /\ tmp' = 0
  /\ manifests' = IF who = "newdb" THEN manifests ELSE Drop(manifests, {Named})
  /\ OpenFailed

WriteTmp ==
  /\ pc = "tmp"
  /\ \/ /\ Works
        /\ tmp' = Named /\ pc' = "rename"
        /\ UNCHANGED <<manifests, who, edit, version, numbers, imm_, rec, jobs, client, promises, crashes>>
     \/ Fails("create") /\ CurrentNotSet
  /\ UNCHANGED <<logs, tables, current>>

\* Win32Env::RenameFile(): MoveFileW() does not replace a file, so an existing
\* CURRENT is deleted first; another error of MoveFileW() is not reported.
RenameFile ==
  /\ pc = "rename"
  /\ \/ /\ current = 0 /\ Works
        /\ current' = tmp /\ tmp' = 0
        /\ CurrentIsSet
     \/ /\ current # 0 /\ Works
        /\ current' = 0 /\ pc' = "move"
        /\ UNCHANGED <<tmp, manifests, who, edit, version, numbers, imm_, rec, jobs, client, promises, crashes>>
     \/ /\ current # 0 /\ Fails("delete")
        /\ CurrentNotSet /\ UNCHANGED current
     \/ /\ Fails("rename")
        /\ CurrentIsSet /\ UNCHANGED <<current, tmp>>
  /\ UNCHANGED <<logs, tables>>

MoveAgain ==
  /\ pc = "move"
  /\ \/ /\ Works
        /\ current' = tmp /\ tmp' = 0
        /\ CurrentIsSet
     \/ Fails("move") /\ CurrentNotSet /\ UNCHANGED current
  /\ UNCHANGED <<logs, tables>>

\* The new Version is current; then DeleteObsoleteFiles(), but for a move.
Install ==
  /\ pc = "install"
  /\ version' = (version \ edit.del) \cup edit.add
  /\ log_number_' = edit.log
  /\ imm_' = IF who = "flush" THEN ImmAfter(TRUE) ELSE imm_
  /\ pending_outputs_' = IF who = "compact" THEN pending_outputs_ \ {compact} ELSE pending_outputs_
  /\ compact' = IF who = "compact" THEN 0 ELSE compact
  /\ inputs' = IF who = "compact" THEN {} ELSE inputs
  /\ out' = 0 /\ edit' = NoEdit
  /\ pc' = IF Collects THEN "gc" ELSE IF compact' # 0 THEN "work" ELSE "idle"
  /\ UNCHANGED <<disk, who, next_file_number_, manifest_file_number_, logfile_number_, last_sequence_,
                 rec, bg_error_, client, promises, crashes, faults>>

\* Mutant: the Version of an iterator does not count.
NotPinned == pending_outputs_ \cup version

Live == pending_outputs_ \cup version \cup pinned

\* Mutant: all logs but the current one are obsolete.
LogsBeforeCurrent == {n \in DOMAIN logs : n < logfile_number_}

ObsoleteLogs == {n \in DOMAIN logs : n < log_number_}
ObsoleteManifests == {n \in DOMAIN manifests : n < manifest_file_number_}
ObsoleteTables == DOMAIN tables \ Live
ObsoleteTmp == tmp # 0 /\ tmp \notin Live

\* DeleteObsoleteFiles(), one file at a time
DeleteObsoleteFile ==
  /\ pc = "gc"
  /\ \/ \E n \in ObsoleteLogs : logs' = Drop(logs, {n}) /\ UNCHANGED <<tables, manifests, tmp>>
     \/ \E n \in ObsoleteManifests : manifests' = Drop(manifests, {n}) /\ UNCHANGED <<logs, tables, tmp>>
     \/ \E n \in ObsoleteTables : tables' = Drop(tables, {n}) /\ UNCHANGED <<logs, manifests, tmp>>
     \/ ObsoleteTmp /\ tmp' = 0 /\ UNCHANGED <<logs, tables, manifests>>
  /\ UNCHANGED <<current, pc, who, edit, version, numbers, imm_, rec, jobs, client, promises, crashes, faults>>

\* A successful Open() promises what it recovered.
ObsoleteFilesDeleted ==
  /\ pc = "gc"
  /\ ObsoleteLogs = {} /\ ObsoleteManifests = {} /\ ObsoleteTables = {} /\ ~ObsoleteTmp
  /\ pc' = Resume
  /\ IF who = "open"
     THEN acked' = acked \cup UNION {tables[n] : n \in version} /\ safe' = acked'
     ELSE UNCHANGED promises
  /\ UNCHANGED <<disk, who, edit, version, numbers, imm_, rec, jobs, client, crashes, faults>>

-----------------------------------------------------------------------------
(* The background thread of an open database *)

Up == \/ pc \in {"idle", "build", "work"}
      \/ pc \in {"append", "sync", "install", "gc"} /\ who # "open"

\* CompactMemTable() up to BuildTable(), also from within DoCompactionWork()
StartFlush ==
  /\ imm_ # {}
  /\ (pc = "idle" /\ ~bg_error_) \/ pc = "work"
  /\ LET t == next_file_number_ IN
     /\ next_file_number_' = t + 1 /\ out' = t
     /\ pending_outputs_' = pending_outputs_ \cup {t}
     /\ tables' = Put(tables, t, {})
  /\ pc' = "build"
  /\ UNCHANGED <<logs, manifests, current, tmp, who, edit, version, manifest_file_number_, log_number_,
                 logfile_number_, last_sequence_, imm_, rec, inputs, compact, bg_error_, client,
                 promises, crashes, faults>>

\* BuildTable() is done; mutex_ is held until LogAndApply() has its edit.
BuildTable ==
  /\ pc = "build"
  /\ pending_outputs_' = pending_outputs_ \ {out}
  /\ \/ /\ Works
        /\ tables' = [tables EXCEPT ![out] = imm_]
        /\ edit' = [add |-> {out}, del |-> {}, log |-> logfile_number_, next |-> next_file_number_,
                    last |-> last_sequence_]
        /\ pc' = "append" /\ who' = "flush"
        /\ UNCHANGED <<out, bg_error_>>
     \/ /\ Fails("table")
        /\ tables' = Drop(tables, {out})
        /\ out' = 0 /\ bg_error_' = TRUE /\ pc' = Resume
        /\ UNCHANGED <<edit, who>>
  /\ UNCHANGED <<logs, manifests, current, tmp, version, numbers, imm_, rec, inputs, compact, client,
                 promises, crashes>>

\* BackgroundCompaction(): some tables are merged into one new table
StartCompaction ==
  /\ pc = "idle" /\ ~bg_error_ /\ imm_ = {} /\ next_file_number_ < MaxFile
  /\ \E S \in (SUBSET version) \ {{}} : inputs' = S
  /\ LET t == next_file_number_ IN
     /\ next_file_number_' = t + 1 /\ compact' = t
     /\ pending_outputs_' = pending_outputs_ \cup {t}
     /\ tables' = Put(tables, t, {})
  /\ pc' = "work"
  /\ UNCHANGED <<logs, manifests, current, tmp, who, edit, version, manifest_file_number_, log_number_,
                 logfile_number_, last_sequence_, imm_, rec, out, bg_error_, client, promises, crashes, faults>>

\* DoCompactionWork() has its output; InstallCompactionResults() follows.
CompactionWork ==
  /\ pc = "work"
  /\ \/ /\ Works
        /\ tables' = [tables EXCEPT ![compact] = UNION {tables[n] : n \in inputs}]
        /\ edit' = [add |-> {compact}, del |-> inputs, log |-> log_number_, next |-> next_file_number_,
                    last |-> last_sequence_]
        /\ pc' = "append" /\ who' = "compact"
        /\ UNCHANGED <<inputs, compact, pending_outputs_, bg_error_>>
     \/ /\ Fails("table")
        /\ pending_outputs_' = pending_outputs_ \ {compact}
        /\ inputs' = {} /\ compact' = 0 /\ bg_error_' = TRUE /\ pc' = "idle"
        /\ UNCHANGED <<tables, edit, who>>
  /\ UNCHANGED <<logs, manifests, current, tmp, version, numbers, imm_, rec, out, client, promises, crashes>>

\* A trivial move: the table leaves one level and joins the next.
TrivialMove ==
  /\ pc = "idle" /\ ~bg_error_ /\ imm_ = {}
  /\ \E n \in version :
       edit' = [add |-> {n}, del |-> {n}, log |-> log_number_, next |-> next_file_number_,
                last |-> last_sequence_]
  /\ pc' = "append" /\ who' = "move"
  /\ UNCHANGED <<disk, version, numbers, imm_, rec, jobs, client, promises, crashes, faults>>

-----------------------------------------------------------------------------
(* The writers and an iterator; DeleteObsoleteFiles() keeps mutex_ from them *)

AddRecord ==
  /\ Up /\ w = 0 /\ ~bg_error_ /\ last_sequence_ < MaxWrites
  /\ w' = last_sequence_ + 1 /\ w_sync' \in BOOLEAN
  /\ logs' = [logs EXCEPT ![logfile_number_].data = @ \cup {w'}]
  /\ UNCHANGED <<tables, manifests, current, tmp, pc, who, edit, version, numbers, imm_, rec, jobs,
                 mem_, pinned, promises, crashes, faults>>

\* Sync() if asked for; InsertInto(), SetLastSequence() and the return
FinishWrite ==
  /\ Up /\ pc # "gc" /\ w # 0
  /\ \/ /\ Works
        /\ logs' = IF w_sync THEN [logs EXCEPT ![logfile_number_].synced = logs[logfile_number_].data]
                             ELSE logs
        /\ mem_' = mem_ \cup {w}
        /\ acked' = acked \cup {w} /\ safe' = IF w_sync THEN safe \cup {w} ELSE safe
        /\ UNCHANGED bg_error_
     \/ /\ w_sync /\ Fails("sync")
        /\ bg_error_' = TRUE
        /\ UNCHANGED <<logs, mem_, promises>>
  /\ last_sequence_' = w /\ w' = 0 /\ w_sync' = FALSE
  /\ UNCHANGED <<tables, manifests, current, tmp, pc, who, edit, version, next_file_number_,
                 manifest_file_number_, log_number_, logfile_number_, imm_, rec, out, inputs, compact,
                 pending_outputs_, pinned, crashes>>

\* MakeRoomForWrite(): a new log and a new memtable, once imm_ is gone
SwitchMemTable ==
  /\ Up /\ pc # "gc" /\ w = 0 /\ ~bg_error_ /\ mem_ # {} /\ imm_ = {}
  /\ LET n == next_file_number_ IN
     /\ logs' = Put(logs, n, [data |-> {}, synced |-> {}])
     /\ logfile_number_' = n /\ next_file_number_' = n + 1
  /\ imm_' = mem_ /\ mem_' = {}
  /\ UNCHANGED <<tables, manifests, current, tmp, pc, who, edit, version, manifest_file_number_,
                 log_number_, last_sequence_, rec, jobs, w, w_sync, pinned, promises, crashes, faults>>

\* NewIterator() takes a reference to the current Version, and gives it back.
NewIterator ==
  /\ Up /\ pc # "gc" /\ pinned = {} /\ pinned' = version
  /\ UNCHANGED <<disk, pc, who, edit, version, numbers, imm_, rec, jobs, mem_, w, w_sync, promises,
                 crashes, faults>>
CleanupIterator ==
  /\ Up /\ pc # "gc" /\ pinned # {} /\ pinned' = {}
  /\ UNCHANGED <<disk, pc, who, edit, version, numbers, imm_, rec, jobs, mem_, w, w_sync, promises,
                 crashes, faults>>

-----------------------------------------------------------------------------
(* Crashes.  A file whose writing is mapped memory outlives its process; of  *)
(* the machine only what was synced is sure to be left.  Creating, renaming  *)
(* and deleting a file takes effect at once.                                 *)

MayCrash(kind) ==
  /\ pc # "down" /\ kind \in CrashKinds /\ crashes > 0 /\ crashes' = crashes - 1
  /\ pc = "move" => "rename" \in CrashPoints

ProcessCrash ==
  /\ MayCrash("process")
  /\ \/ UNCHANGED manifests
     \/ /\ pc = "append" /\ "manifest" \in CrashPoints
        /\ manifests' = Put(manifests, manifest_file_number_, Unreadable)
  /\ Blank
  /\ UNCHANGED <<logs, tables, current, tmp, promises, faults>>

MachineCrash ==
  /\ MayCrash("machine")
  /\ current \in DOMAIN manifests =>
       manifests[current].synced.ok \/ CrashPoints \cap {"newdb", "leftover", "goes_on"} # {}
  /\ \E lost \in [DOMAIN logs -> SUBSET (1..MaxWrites)] :
       /\ \A n \in DOMAIN logs : lost[n] \subseteq logs[n].data \ logs[n].synced
       /\ logs' = [n \in DOMAIN logs |-> [data |-> logs[n].data \ lost[n], synced |-> logs[n].data \ lost[n]]]
  /\ \E kept \in SUBSET DOMAIN manifests :
       LET left == [n \in DOMAIN manifests |->
                      LET m == IF n \in kept THEN manifests[n].written ELSE manifests[n].synced
                      IN [written |-> m, synced |-> m]]
       IN \/ manifests' = left
          \/ /\ pc \in {"append", "sync"} /\ "manifest" \in CrashPoints
             /\ manifests' = Put(left, manifest_file_number_, Unreadable)
  /\ acked' = safe
  /\ Blank
  /\ UNCHANGED <<tables, current, tmp, safe, faults>>

-----------------------------------------------------------------------------

Opening ==
  \/ Open \/ NewDB \/ RecoverVersion \/ RecoverLogFile \/ OpenLog
  \/ AppendEdit \/ SyncEdit \/ WriteTmp \/ RenameFile \/ MoveAgain \/ Install
  \/ DeleteObsoleteFile \/ ObsoleteFilesDeleted
Background == StartFlush \/ BuildTable \/ StartCompaction \/ CompactionWork \/ TrivialMove
Client == AddRecord \/ FinishWrite \/ SwitchMemTable \/ NewIterator \/ CleanupIterator
Crash == ProcessCrash \/ MachineCrash

Next == Opening \/ Background \/ Client \/ Crash

Spec == Init /\ [][Next]_vars

\* The opening or background thread is scheduled and its I/O returns; somebody
\* opens a database that is closed.  No call has to fail.
FairSpec == Spec /\ WF_vars(Opening /\ Works)

-----------------------------------------------------------------------------
(* Properties *)

\* What Open() finds when nothing fails
Recoverable ==
  IF Descriptor.ok /\ Descriptor.files \subseteq DOMAIN tables
  THEN (UNION {tables[n] : n \in Descriptor.files})
       \cup (UNION {logs[n].data : n \in {i \in DOMAIN logs : i >= Descriptor.log}})
  ELSE {}

\* After a crash, or a failed Open(), the files hold every write that callers
\* may rely on: those acknowledged if only the process ended, those
\* acknowledged with sync or recovered before if the machine did
\* (options.h:170-190).
NothingLost == pc = "down" => acked \subseteq Recoverable

\* An open database serves every write its callers may rely on, whatever
\* crashes and flushes came before.
ServesAcked == Up => acked \subseteq mem_ \cup imm_ \cup UNION {tables[n] : n \in version}

\* Every table that a reader of the current Version, an iterator or a running
\* compaction uses is there and complete: DeleteObsoleteFiles() and failed
\* builds take none away.
LiveTablesExist ==
  \A n \in version \cup pinned \cup inputs : n \in DOMAIN tables /\ tables[n] # {}

\* No file is created over one that matters: the next number is above those of
\* all tables in use and, once recovery has read them, of all logs; and Open()
\* writes a MANIFEST other than the one in CURRENT.
NumbersAreFresh ==
  /\ \A n \in Live \cup {manifest_file_number_} : n < next_file_number_
  /\ Up \/ pc = "append" => \A n \in DOMAIN logs \cup Descriptor.files : n < next_file_number_
  /\ pc = "append" /\ who = "open" => manifest_file_number_ # current

\* The next write gets a sequence number above all those that are visible or
\* that a later recovery can bring back.
SequencesAreFresh ==
  Up => \A x \in mem_ \cup imm_ \cup (UNION {tables[n] : n \in version}) \cup Recoverable :
          x <= last_sequence_ \/ x = w

\* No file or sequence number that matters is given out again.
FreshNumbers == NumbersAreFresh /\ SequencesAreFresh

\* Whatever crashes and failures there were, the database is open again.
OpensAgain == []<>Up

=============================================================================
