-------------------------- MODULE DurabilityProofs --------------------------
(***************************************************************************)
(* For any number of writes, files, crashes and I/O failures, outside of   *)
(* the windows in which the code is known not to survive: no acknowledged  *)
(* write is lost, the open database serves them all, no file that is used  *)
(* is deleted, and no number is given out twice.                           *)
(***************************************************************************)
EXTENDS Durability, TLAPS

\* No crash within RenameFile(), within AddRecord() on a MANIFEST, or before the
\* MANIFEST of a new database is on disk; no MANIFEST written over a longer one or
\* after a failed edit; in a recovery, no failure to open a log or of
\* WriteLevel0Table(); none of MoveFileW().
Survivable == CrashPoints = {} /\ FaultKinds \subseteq {"create", "table", "manifest", "sync", "delete"}

-----------------------------------------------------------------------------
(* The inductive invariant *)

Writes == 1..MaxWrites
LogFile == [data : SUBSET Writes, synced : SUBSET Writes]
State == [ok : BOOLEAN, files : SUBSET Nat, log : Nat, next : Nat, last : Nat]
Manifest == [written : State, synced : State]
Edit == [add : SUBSET Nat, del : SUBSET Nat, log : Nat, next : Nat, last : Nat]
Locals == [todo : SUBSET Nat, left : SUBSET Writes, add : SUBSET Nat, max : Nat, ok : BOOLEAN]
Places == {"down", "newdb", "recover", "logs", "append", "sync", "tmp", "rename", "move", "install", "gc",
           "idle", "build", "work"}
Callers == {"open", "newdb", "flush", "compact", "move"}

DiskTypes ==
  /\ DOMAIN logs \subseteq Nat
  /\ \A n \in DOMAIN logs : logs[n] \in LogFile /\ logs[n].synced \subseteq logs[n].data
  /\ DOMAIN tables \subseteq Nat /\ \A n \in DOMAIN tables : tables[n] \in SUBSET Writes
  /\ DOMAIN manifests \subseteq Nat /\ \A n \in DOMAIN manifests : manifests[n] \in Manifest
  /\ current \in Nat /\ tmp \in Nat

ProcessTypes ==
  /\ pc \in Places /\ who \in Callers /\ edit \in Edit /\ version \in SUBSET Nat
  /\ next_file_number_ \in Nat /\ manifest_file_number_ \in Nat /\ log_number_ \in Nat
  /\ logfile_number_ \in Nat /\ last_sequence_ \in Nat
  /\ mem_ \in SUBSET Writes /\ imm_ \in SUBSET Writes /\ rec \in Locals
  /\ out \in Nat /\ inputs \in SUBSET Nat /\ compact \in Nat /\ pending_outputs_ \in SUBSET Nat
  /\ bg_error_ \in BOOLEAN /\ w \in 0..MaxWrites /\ w_sync \in BOOLEAN /\ pinned \in SUBSET Nat
  /\ acked \in SUBSET Writes /\ safe \in SUBSET acked /\ crashes \in Nat /\ faults \in Nat

TypeOK == DiskTypes /\ ProcessTypes

\* What the current MANIFEST says, and what it says on disk
M == manifests[current].written
S == manifests[current].synced

\* The writes that the tables X hold, and those of the logs from k on
Held(f, X) == {x \in Writes : \E n \in X : x \in f[n]}
Logged(l, k) == {x \in Writes : \E n \in DOMAIN l : n >= k /\ x \in l[n].data}
Synced(l, k) == {x \in Writes : \E n \in DOMAIN l : n >= k /\ x \in l[n].synced}

Complete(f, X, k) == \A n \in X : n \in DOMAIN f /\ f[n] # {} /\ n < k

\* What MANIFEST-i says makes sense: its tables are there and complete, and its
\* numbers are above all that it uses.
Sound(f, i, m) ==
  /\ m.ok /\ m.log < m.next /\ i < m.next /\ Complete(f, m.files, m.next)
  /\ \A x \in Held(f, m.files) : x <= m.last

\* CURRENT, or its absence, is good for a crash now.  A MANIFEST that is not on
\* disk is that of a new database.
DiskInv ==
  /\ current = 0 => acked = {}
  /\ current # 0 =>
       /\ current \in DOMAIN manifests
       /\ Sound(tables, current, M)
       /\ acked \subseteq Held(tables, M.files) \cup Logged(logs, M.log)
       /\ safe \subseteq Held(tables, M.files) \cup Synced(logs, M.log)
       /\ S.ok => /\ Sound(tables, current, S) /\ S.next <= M.next
                  /\ safe \subseteq Held(tables, S.files) \cup Synced(logs, S.log)
       /\ ~S.ok => acked = {}

\* The process has nothing in memory; an opening one has no memtable and no job.
IsQuiet ==
  /\ pinned = {} /\ inputs = {} /\ pending_outputs_ = {} /\ mem_ = {} /\ imm_ = {} /\ w = 0
  /\ ~bg_error_ /\ compact = 0 /\ out = 0
IsBlank == IsQuiet /\ version = {} /\ next_file_number_ = 2 /\ manifest_file_number_ = 0

Starting == pc \in {"down", "newdb", "recover"} \/ (pc \in {"tmp", "rename"} /\ who = "newdb")

StartInv ==
  /\ IsBlank
  /\ pc = "newdb" => current = 0
  /\ pc = "recover" => current # 0
  /\ pc \in {"tmp", "rename"} =>
       /\ current = 0 /\ 1 \in DOMAIN manifests
       /\ manifests[1] = [written |-> Apply(Snapshot({}), [NoEdit EXCEPT !.next = 2]), synced |-> NoState]
  /\ pc = "rename" => tmp = 1

\* Recover() has read what MANIFEST says, and some of the logs.
LogsInv ==
  /\ IsQuiet /\ current # 0
  /\ version = M.files /\ log_number_ = M.log /\ last_sequence_ = M.last
  /\ manifest_file_number_ = M.next /\ M.next < next_file_number_
  /\ rec.ok /\ rec.todo \subseteq DOMAIN logs
  /\ \A n \in DOMAIN logs : n >= log_number_ /\ n \notin rec.todo =>
       logs[n].data \subseteq Held(tables, rec.add) /\ n < next_file_number_
  /\ rec.left # {} => \A n \in OldestLog : logs[n].data \subseteq rec.left \cup Held(tables, rec.add)
  /\ Complete(tables, rec.add, next_file_number_)
  /\ \A x \in Held(tables, rec.add) : x <= rec.max

\* Open() replaces the MANIFEST, and CURRENT.
Switching == pc \in {"append", "sync", "tmp", "rename", "move", "install"} /\ who = "open"

NewFiles == version \cup edit.add
NewState == [ok |-> TRUE, files |-> NewFiles, log |-> edit.log, next |-> edit.next, last |-> edit.last]

\* What is to be in the new MANIFEST holds all that is promised.
NewInv ==
  /\ IsQuiet
  /\ edit.del = {} /\ edit.log = logfile_number_ /\ edit.next = next_file_number_
  /\ edit.last = last_sequence_
  /\ logfile_number_ \in DOMAIN logs /\ logs[logfile_number_] = [data |-> {}, synced |-> {}]
  /\ \A n \in DOMAIN logs : n <= logfile_number_
  /\ logfile_number_ < next_file_number_ /\ manifest_file_number_ < next_file_number_
  /\ manifest_file_number_ # 0
  /\ Complete(tables, NewFiles, next_file_number_)
  /\ \A x \in Held(tables, NewFiles) : x <= last_sequence_
  /\ acked \subseteq Held(tables, NewFiles)

StepInv ==
  /\ pc \in {"append", "sync", "tmp", "rename"} =>
       current # 0 /\ manifest_file_number_ # current /\ M.next <= next_file_number_
  /\ pc = "move" => current = 0
  /\ pc # "append" => manifest_file_number_ \in DOMAIN manifests
                      /\ manifests[manifest_file_number_].written = NewState
  /\ pc \notin {"append", "sync"} => manifests[manifest_file_number_].synced = NewState
  /\ pc \in {"rename", "move"} => tmp = manifest_file_number_
  /\ pc = "install" => current = manifest_file_number_

SwitchInv == NewInv /\ StepInv

\* The database is open, or Open() deletes the last files.
Running == Up \/ (pc = "gc" /\ who = "open")

ManifestInv ==
  /\ current = manifest_file_number_ /\ current # 0 /\ current \in DOMAIN manifests
  /\ current < next_file_number_
  /\ Sound(tables, current, M) /\ Sound(tables, current, S) /\ S.next <= M.next
  /\ M.next <= next_file_number_ /\ M.last <= last_sequence_ /\ S.last <= last_sequence_

\* A MANIFEST that says m finds what is in memory and in the tables.
Covers(m) ==
  /\ Held(tables, version) \subseteq Held(tables, m.files)
  /\ log_number_ <= m.log
  /\ \/ m.log = log_number_
     \/ m.log <= logfile_number_ /\ imm_ # {} /\ imm_ \subseteq Held(tables, m.files)

CoverInv == Covers(M) /\ Covers(S)

\* The logs hold what is in memory.
LogInv ==
  /\ logfile_number_ \in DOMAIN logs /\ log_number_ <= logfile_number_
  /\ \A n \in DOMAIN logs : n < next_file_number_
  /\ mem_ \subseteq logs[logfile_number_].data /\ safe \cap mem_ \subseteq logs[logfile_number_].synced
  /\ w # 0 => w \in logs[logfile_number_].data
  /\ \A x \in imm_ : \E n \in DOMAIN logs :
       n >= log_number_ /\ x \in logs[n].data /\ (x \in safe => x \in logs[n].synced)

SequenceInv ==
  /\ \A n \in DOMAIN logs : n >= log_number_ => \A x \in logs[n].data : x <= last_sequence_ \/ x = w
  /\ \A x \in mem_ \cup imm_ : x <= last_sequence_
  /\ w # 0 => w = last_sequence_ + 1

AckInv == acked \subseteq mem_ \cup imm_ \cup Held(tables, version)

Used == version \cup pinned \cup M.files \cup S.files

TableInv ==
  /\ Complete(tables, version \cup pinned, next_file_number_)
  /\ \A n \in pending_outputs_ : n < next_file_number_

\* A running compaction has its inputs in the current Version, and until its edit
\* is written nobody else knows of its output.
CompactInv ==
  /\ compact = 0 => inputs = {}
  /\ compact # 0 =>
       /\ inputs # {} /\ inputs \subseteq version /\ compact \in DOMAIN tables
       /\ compact \in pending_outputs_
       /\ \/ pc \in {"work", "build"} /\ compact \notin Used
          \/ pc \in {"append", "sync", "install", "gc"} /\ who = "flush" /\ compact \notin Used
          \/ pc \in {"append", "sync", "install"} /\ who = "compact"
  /\ pc = "work" => compact # 0

BuildInv ==
  pc = "build" => imm_ # {} /\ out \in DOMAIN tables /\ out \notin Used \cup {compact}
                  /\ out < next_file_number_

\* The edit that a flush, a compaction or a move wants in the MANIFEST
EditInv ==
  /\ pc \in {"append", "sync", "install"} =>
       /\ edit.next <= next_file_number_ /\ edit.last <= last_sequence_ /\ edit.log < edit.next
       /\ manifest_file_number_ < edit.next /\ M.next <= edit.next
       /\ Complete(tables, edit.add, edit.next)
       /\ \A x \in Held(tables, edit.add) : x <= edit.last
       /\ \/ /\ who = "flush" /\ imm_ # {} /\ edit.log = logfile_number_ /\ edit.del = {}
             /\ imm_ \subseteq Held(tables, edit.add) /\ (compact # 0 => compact \notin edit.add)
          \/ /\ who \in {"compact", "move"} /\ edit.log = log_number_
             /\ Held(tables, edit.del) \subseteq Held(tables, edit.add)
             /\ who = "compact" => compact # 0
             /\ who = "move" => compact = 0
  /\ pc = "append" => M.last <= edit.last
  /\ pc \in {"sync", "install"} => edit.add \subseteq M.files /\ M.log = edit.log
  /\ pc = "install" => S = M

\* Until a background error the current Version is what the MANIFEST says, so that
\* DeleteObsoleteFiles() takes nothing away that the MANIFEST names.
CollectInv ==
  /\ pc = "gc" => ~bg_error_
  /\ ~bg_error_ /\ pc \in {"idle", "build", "work", "append", "gc"} => M.files \subseteq version /\ S = M
  /\ ~bg_error_ /\ pc = "sync" => M.files \subseteq (version \ edit.del) \cup edit.add
                                  /\ S.files \subseteq version
  /\ ~bg_error_ /\ pc = "install" => M.files \subseteq (version \ edit.del) \cup edit.add

\* Open() has not returned.
QuietInv == pc = "gc" /\ who = "open" => mem_ = {} /\ imm_ = {} /\ compact = 0

RunInv == /\ ManifestInv /\ CoverInv /\ LogInv /\ SequenceInv /\ AckInv
          /\ TableInv /\ CompactInv /\ BuildInv /\ EditInv /\ CollectInv /\ QuietInv

IInv ==
  /\ TypeOK
  /\ Starting => StartInv /\ DiskInv
  /\ pc = "logs" => LogsInv /\ DiskInv
  /\ Switching => SwitchInv /\ (pc # "move" => DiskInv)
  /\ Running => RunInv
  /\ Starting \/ pc = "logs" \/ Switching \/ Running

-----------------------------------------------------------------------------
(* Tables and records *)

\* Nearly every leaf is about sets, functions and records only; those that need
\* arithmetic cite SMT.
USE Zenon

\* Tables that a step leaves alone hold what they held.
LEMMA SameHeld ==
  ASSUME NEW f, NEW g, NEW X, \A n \in X : g[n] = f[n]
  PROVE  Held(g, X) = Held(f, X)
BY DEF Held

LEMMA HeldGrows ==
  ASSUME NEW f, NEW X, NEW Y, X \subseteq Y
  PROVE  Held(f, X) \subseteq Held(f, Y)
BY DEF Held

LEMMA HeldUnion ==
  ASSUME NEW f, NEW X, NEW Y
  PROVE  Held(f, X \cup Y) = Held(f, X) \cup Held(f, Y)
BY DEF Held

\* What the edit takes away its tables bring back.
LEMMA HeldReplaced ==
  ASSUME NEW f, NEW X, NEW D, NEW A, Held(f, D) \subseteq Held(f, A)
  PROVE  Held(f, X) \subseteq Held(f, (X \ D) \cup A)
BY DEF Held

LEMMA SoundStays ==
  ASSUME NEW f, NEW g, NEW i, NEW m, Sound(f, i, m),
         \A n \in m.files : n \in DOMAIN g /\ g[n] = f[n]
  PROVE  Sound(g, i, m)
<1>1. Held(g, m.files) = Held(f, m.files)  BY SameHeld
<1> QED  BY <1>1 DEF Sound, Complete

LEMMA CompleteStays ==
  ASSUME NEW f, NEW g, NEW X, NEW k \in Nat, NEW j \in Nat, Complete(f, X, k), X \subseteq Nat, k <= j,
         \A n \in X : n \in DOMAIN g /\ g[n] = f[n]
  PROVE  Complete(g, X, j)
BY SMT DEF Complete

LEMMA PutFacts ==
  ASSUME NEW f, NEW n, NEW x
  PROVE  /\ DOMAIN Put(f, n, x) = DOMAIN f \cup {n}
         /\ Put(f, n, x)[n] = x
         /\ \A i \in DOMAIN f : i # n => Put(f, n, x)[i] = f[i]
BY DEF Put

LEMMA DropFacts ==
  ASSUME NEW f, NEW X
  PROVE  /\ DOMAIN Drop(f, X) = DOMAIN f \ X
         /\ \A i \in DOMAIN f \ X : Drop(f, X)[i] = f[i]
BY DEF Drop, Restrict

\* The current MANIFEST has its type.
LEMMA ManifestTypes ==
  ASSUME DiskTypes, current \in DOMAIN manifests
  PROVE  /\ manifests[current] \in Manifest /\ M \in State /\ S \in State
         /\ M.files \subseteq Nat /\ M.log \in Nat /\ M.next \in Nat /\ M.last \in Nat
         /\ S.files \subseteq Nat /\ S.log \in Nat /\ S.next \in Nat /\ S.last \in Nat
<1>1. manifests[current] \in Manifest  BY DEF DiskTypes
<1>2. M \in State /\ S \in State  BY <1>1 DEF Manifest, M, S
<1> QED  BY <1>1, <1>2 DEF State

\* The numbers of the process are numbers.
LEMMA NumberTypes ==
  ASSUME ProcessTypes
  PROVE  /\ next_file_number_ \in Nat /\ manifest_file_number_ \in Nat /\ log_number_ \in Nat
         /\ logfile_number_ \in Nat /\ last_sequence_ \in Nat /\ out \in Nat /\ compact \in Nat
         /\ edit.add \subseteq Nat /\ edit.del \subseteq Nat
         /\ edit.log \in Nat /\ edit.next \in Nat /\ edit.last \in Nat
         /\ MaxWrites \in Nat /\ w \in Nat /\ version \subseteq Nat /\ pinned \subseteq Nat
<1>1. MaxWrites \in Nat  BY BoundsAssumption
<1>2. edit \in Edit  BY DEF ProcessTypes
<1>3. edit.add \subseteq Nat /\ edit.del \subseteq Nat /\ edit.log \in Nat /\ edit.next \in Nat /\ edit.last \in Nat
  BY <1>2 DEF Edit
<1>4. w \in Nat  BY <1>1, SMT DEF ProcessTypes
<1> QED  BY <1>1, <1>3, <1>4 DEF ProcessTypes

-----------------------------------------------------------------------------
(* The open database *)

\* A crash of the open database leaves what is promised on disk.
LEMMA RunningDisk ==
  ASSUME TypeOK, RunInv
  PROVE  DiskInv
<1> USE DEF RunInv
<1>1. current # 0 /\ current \in DOMAIN manifests  BY DEF ManifestInv
<1>2. /\ Sound(tables, current, M) /\ Sound(tables, current, S) /\ S.next <= M.next
      /\ S.ok
  BY DEF ManifestInv, Sound
<1> DEFINE Finds(m) == acked \subseteq Held(tables, m.files) \cup Logged(logs, m.log)
           Sure(m) == safe \subseteq Held(tables, m.files) \cup Synced(logs, m.log)
<1>3. ASSUME NEW m \in {M, S} PROVE Finds(m) /\ Sure(m)
  <2>1. Covers(m)  BY <1>3 DEF CoverInv
  <2>2. m.log \in Nat /\ log_number_ \in Nat /\ logfile_number_ \in Nat /\ logfile_number_ >= m.log
    <3>1. m.log \in Nat  BY <1>1, <1>3, ManifestTypes DEF TypeOK
    <3>2. log_number_ \in Nat /\ logfile_number_ \in Nat  BY NumberTypes DEF TypeOK
    <3> QED  BY <2>1, <3>1, <3>2 DEF Covers, LogInv
  <2>3. /\ acked \subseteq Writes /\ safe \subseteq acked
        /\ \A n \in DOMAIN logs : n \in Nat
    BY DEF TypeOK, ProcessTypes, DiskTypes
  <2>4. ASSUME NEW x \in mem_ \cap acked
        PROVE  x \in Logged(logs, m.log) /\ (x \in safe => x \in Synced(logs, m.log))
    BY <2>2, <2>3, <2>4 DEF LogInv, Logged, Synced
  <2>5. ASSUME NEW x \in imm_ \cap acked, m.log = log_number_
        PROVE  x \in Logged(logs, m.log) /\ (x \in safe => x \in Synced(logs, m.log))
    BY <2>2, <2>3, <2>5 DEF LogInv, Logged, Synced
  <2>6. m.log = log_number_ \/ imm_ \subseteq Held(tables, m.files)
    BY <2>1 DEF Covers
  <2>7. Held(tables, version) \subseteq Held(tables, m.files)  BY <2>1 DEF Covers
  <2> QED  BY <2>3, <2>4, <2>5, <2>6, <2>7 DEF AckInv
<1>4. Finds(M) /\ Sure(M) /\ Finds(S) /\ Sure(S)  BY <1>3
<1> QED  BY <1>1, <1>2, <1>4 DEF DiskInv

\* The files of the MANIFEST, of the Version and of iterators are left alone.
Kept(X) == \A n \in X : n \in DOMAIN tables' /\ tables'[n] = tables[n]

LEMMA ManifestStays ==
  ASSUME TypeOK, ManifestInv, UNCHANGED <<manifests, current, manifest_file_number_>>,
         next_file_number_' \in Nat, next_file_number_' >= next_file_number_,
         last_sequence_' \in Nat, last_sequence_' >= last_sequence_,
         Kept(M.files \cup S.files)
  PROVE  ManifestInv' /\ M' = M /\ S' = S
<1>1. M' = M /\ S' = S  BY DEF M, S
<1>2. Sound(tables', current, M) /\ Sound(tables', current, S)
  BY SoundStays DEF ManifestInv, Kept
<1>3. /\ current \in Nat /\ next_file_number_ \in Nat /\ last_sequence_ \in Nat
      /\ M.next \in Nat /\ S.next \in Nat /\ M.last \in Nat /\ S.last \in Nat
  BY ManifestTypes, NumberTypes DEF TypeOK, DiskTypes, ManifestInv
<1> QED  BY <1>1, <1>2, <1>3, SMT DEF ManifestInv

LEMMA CoverStays ==
  ASSUME CoverInv, M' = M, S' = S, UNCHANGED <<version, log_number_, logfile_number_, imm_>>,
         Kept(version \cup M.files \cup S.files)
  PROVE  CoverInv'
<1>1. /\ Held(tables', version) = Held(tables, version)
      /\ Held(tables', M.files) = Held(tables, M.files)
      /\ Held(tables', S.files) = Held(tables, S.files)
  BY SameHeld, SMT DEF Kept
<1>2. Covers(M)'  BY <1>1 DEF CoverInv, Covers
<1>3. Covers(S)'  BY <1>1 DEF CoverInv, Covers
<1> QED  BY <1>2, <1>3 DEF CoverInv

LEMMA LogStays ==
  ASSUME TypeOK, LogInv, UNCHANGED <<logs, log_number_, logfile_number_, mem_, imm_, safe, w>>,
         next_file_number_' \in Nat, next_file_number_' >= next_file_number_
  PROVE  LogInv'
<1>1. next_file_number_ \in Nat /\ DOMAIN logs \subseteq Nat  BY DEF TypeOK, DiskTypes, ProcessTypes
<1>2. \A n \in DOMAIN logs : n < next_file_number_'  BY <1>1, SMT DEF LogInv
<1> QED  BY <1>2 DEF LogInv

LEMMA TableStays ==
  ASSUME TypeOK, TableInv, UNCHANGED <<version, pinned>>, Kept(version \cup pinned),
         next_file_number_' \in Nat, next_file_number_' >= next_file_number_,
         pending_outputs_' \in SUBSET Nat,
         \A n \in pending_outputs_' : n \in pending_outputs_ \/ n < next_file_number_'
  PROVE  TableInv'
<1>1. next_file_number_ \in Nat /\ version \cup pinned \subseteq Nat /\ pending_outputs_ \subseteq Nat
  BY DEF TypeOK, ProcessTypes
<1>2. Complete(tables', version \cup pinned, next_file_number_')
  BY <1>1, CompleteStays DEF TableInv, Kept
<1>3. \A n \in pending_outputs_' : n < next_file_number_'  BY <1>1, SMT DEF TableInv
<1> QED  BY <1>2, <1>3 DEF TableInv

LEMMA AckStays ==
  ASSUME AckInv, UNCHANGED <<acked, mem_, imm_, version>>, Kept(version)
  PROVE  AckInv'
<1>1. Held(tables', version) = Held(tables, version)  BY SameHeld DEF Kept
<1> QED  BY <1>1 DEF AckInv

\* Nothing is written to a table.
LEMMA TablesUntouched ==
  ASSUME TypeOK, RunInv, UNCHANGED tables
  PROVE  Kept(Used)
BY DEF Kept, Used, RunInv, ManifestInv, Sound, Complete, TableInv

-----------------------------------------------------------------------------
(* The writers and iterators *)

LEMMA AddRecordRuns ==
  ASSUME TypeOK, RunInv, AddRecord
  PROVE  RunInv'
<1> USE DEF RunInv
<1>1. /\ UNCHANGED <<tables, manifests, current, tmp, pc, who, edit, version, imm_, rec, mem_, pinned, acked, safe>>
      /\ UNCHANGED <<next_file_number_, manifest_file_number_, log_number_, logfile_number_, last_sequence_>>
      /\ UNCHANGED <<out, inputs, compact, pending_outputs_, bg_error_>>
  BY DEF AddRecord, numbers, jobs, promises
<1>2. M' = M /\ S' = S /\ Used' = Used  BY <1>1 DEF M, S, Used
<1>3. w' = last_sequence_ + 1 /\ logs' = [logs EXCEPT ![logfile_number_].data = @ \cup {w'}] /\ w = 0
  BY DEF AddRecord
<1>4. /\ DOMAIN logs' = DOMAIN logs
      /\ \A n \in DOMAIN logs : /\ logs'[n].synced = logs[n].synced
                                /\ logs[n].data \subseteq logs'[n].data
                                /\ logs'[n].data \subseteq logs[n].data \cup {w'}
      /\ w' \in logs'[logfile_number_].data
  BY <1>3 DEF TypeOK, DiskTypes, LogFile, LogInv
<1>5. LogInv'
  BY <1>1, <1>3, <1>4 DEF LogInv
<1>6. SequenceInv'
  <2>1. \A x \in Writes : x # 0  BY BoundsAssumption, SMT DEF Writes
  <2>2. \A n \in DOMAIN logs : n >= log_number_ => \A x \in logs[n].data : x <= last_sequence_
    BY <1>3, <2>1 DEF SequenceInv, TypeOK, DiskTypes, LogFile
  <2> QED  BY <1>1, <1>3, <1>4, <2>2 DEF SequenceInv
<1>7. ManifestInv'  BY <1>1, <1>2 DEF ManifestInv
<1>8. CoverInv'  BY <1>1, <1>2 DEF CoverInv, Covers
<1>9. AckInv' /\ TableInv'  BY <1>1 DEF AckInv, TableInv
<1>10. CompactInv' /\ BuildInv'  BY <1>1, <1>2 DEF CompactInv, BuildInv
<1>11. EditInv' /\ CollectInv'  BY <1>1, <1>2 DEF EditInv, CollectInv
<1>20. QuietInv'  BY <1>1 DEF QuietInv, AddRecord, Up
<1> QED  BY <1>5, <1>6, <1>7, <1>8, <1>9, <1>10, <1>11, <1>20

LEMMA FinishWriteRuns ==
  ASSUME TypeOK, RunInv, FinishWrite
  PROVE  RunInv'
<1> USE DEF RunInv
<1>1. /\ UNCHANGED <<tables, manifests, current, tmp, pc, who, edit, version, imm_, rec, pinned>>
      /\ UNCHANGED <<next_file_number_, manifest_file_number_, log_number_, logfile_number_>>
      /\ UNCHANGED <<out, inputs, compact, pending_outputs_>>
      /\ last_sequence_' = w /\ w' = 0 /\ w # 0 /\ pc # "gc"
  BY DEF FinishWrite
<1>2. M' = M /\ S' = S /\ Used' = Used  BY <1>1 DEF M, S, Used
<1>3. /\ last_sequence_ \in Nat /\ w = last_sequence_ + 1 /\ last_sequence_' \in Nat
      /\ last_sequence_' >= last_sequence_ /\ w \in Writes
  <2>1. last_sequence_ \in Nat /\ w \in 0..MaxWrites /\ MaxWrites \in Nat
    BY BoundsAssumption DEF TypeOK, ProcessTypes
  <2>2. w = last_sequence_ + 1  BY <1>1 DEF SequenceInv
  <2> QED  BY <1>1, <2>1, <2>2, SMT DEF Writes
<1>4. w \notin acked \cup imm_
  <2>1. \A x \in mem_ \cup imm_ : x # w
    BY <1>3, SMT DEF SequenceInv
  <2>2. w \notin Held(tables, version)
    <3>1. \A x \in Held(tables, M.files) : x <= M.last  BY DEF ManifestInv, Sound
    <3>2. M.last <= last_sequence_ /\ M.last \in Nat  BY ManifestTypes DEF TypeOK, ManifestInv
    <3>3. w \notin Held(tables, M.files)  BY <1>3, <3>1, <3>2, SMT
    <3> QED  BY <3>3 DEF CoverInv, Covers
  <2> QED  BY <2>1, <2>2 DEF AckInv
<1>5. /\ DOMAIN logs' = DOMAIN logs
      /\ \A n \in DOMAIN logs : /\ logs'[n].data = logs[n].data
                                /\ logs[n].synced \subseteq logs'[n].synced \/ logs'[n].synced = logs[n].data
                                /\ n # logfile_number_ => logs'[n].synced = logs[n].synced
  BY SMT DEF FinishWrite, TypeOK, DiskTypes, LogFile
<1>6. w \in logs[logfile_number_].data  BY <1>1 DEF LogInv
<1>7. /\ mem_' \subseteq mem_ \cup {w} /\ mem_ \subseteq mem_' /\ acked' \subseteq acked \cup {w}
      /\ acked' \subseteq acked \/ (w \in mem_' /\ w \in acked')
      /\ safe' \subseteq safe \cup {w}
      /\ w \in safe' => logs'[logfile_number_].synced = logs[logfile_number_].data \/ w \in safe
  <2>1. CASE mem_' = mem_ /\ acked' = acked /\ safe' = safe
    <3>1. /\ mem_' \subseteq mem_ \cup {w} /\ mem_ \subseteq mem_' /\ acked' \subseteq acked \cup {w}
          /\ acked' \subseteq acked
      BY <2>1
    <3>2. safe' \subseteq safe \cup {w} /\ (w \in safe' => w \in safe)  BY <2>1
    <3> QED  BY <3>1, <3>2
  <2>2. CASE mem_' = mem_ \cup {w} /\ acked' = acked \cup {w} /\ ~w_sync /\ safe' = safe
    BY <2>2
  <2>3. CASE /\ mem_' = mem_ \cup {w} /\ acked' = acked \cup {w} /\ w_sync /\ safe' = safe \cup {w}
             /\ logs' = [logs EXCEPT ![logfile_number_].synced = logs[logfile_number_].data]
    <3>1. logfile_number_ \in DOMAIN logs /\ logs[logfile_number_] \in LogFile
      BY DEF LogInv, TypeOK, DiskTypes
    <3>2. logs'[logfile_number_].synced = logs[logfile_number_].data  BY <2>3, <3>1 DEF LogFile
    <3> QED  BY <2>3, <3>2
  <2> QED  BY <2>1, <2>2, <2>3 DEF FinishWrite, promises, TypeOK, ProcessTypes
<1>8. LogInv'
  <2>1. /\ logfile_number_ \in DOMAIN logs' /\ log_number_' <= logfile_number_'
        /\ \A n \in DOMAIN logs' : n < next_file_number_'
    BY <1>1, <1>5 DEF LogInv
  <2>2. mem_' \subseteq logs'[logfile_number_].data  BY <1>5, <1>6, <1>7 DEF LogInv
  <2>3. safe' \cap mem_' \subseteq logs'[logfile_number_].synced
    <3>1. safe \subseteq acked  BY DEF TypeOK, ProcessTypes
    <3>2. w \notin safe  BY <1>4, <3>1
    <3>3. CASE w \in safe'
      BY <1>5, <1>6, <1>7, <3>2, <3>3 DEF LogInv
    <3>4. CASE w \notin safe'
      BY <1>5, <1>7, <3>4 DEF LogInv
    <3> QED  BY <3>3, <3>4
  <2>4. ASSUME NEW x \in imm_'
        PROVE  \E n \in DOMAIN logs' : n >= log_number_' /\ x \in logs'[n].data
                                       /\ (x \in safe' => x \in logs'[n].synced)
    <3>1. x \in imm_ /\ x # w  BY <1>1, <1>4, <2>4
    <3>2. PICK n \in DOMAIN logs : n >= log_number_ /\ x \in logs[n].data /\ (x \in safe => x \in logs[n].synced)
      BY <3>1 DEF LogInv
    <3> QED  BY <1>1, <1>5, <1>7, <3>1, <3>2
  <2> QED  BY <1>1, <2>1, <2>2, <2>3, <2>4 DEF LogInv
<1>9. SequenceInv'
  <2>1. \A n \in DOMAIN logs : n >= log_number_ => \A x \in logs[n].data : x <= last_sequence_ \/ x = w
    BY DEF SequenceInv
  <2>2. \A n \in DOMAIN logs : \A x \in logs[n].data : x \in Nat
    BY BoundsAssumption, SMT DEF TypeOK, DiskTypes, LogFile, Writes
  <2>3. \A x \in mem_ \cup imm_ : x \in Nat /\ x <= last_sequence_
    BY BoundsAssumption, SMT DEF TypeOK, ProcessTypes, Writes, SequenceInv
  <2>4. \A n \in DOMAIN logs' : n >= log_number_' => \A x \in logs'[n].data : x <= last_sequence_'
    BY <1>1, <1>3, <1>5, <2>1, <2>2, SMT
  <2>5. \A x \in mem_' \cup imm_' : x <= last_sequence_'
    BY <1>1, <1>3, <1>7, <2>3, SMT
  <2> QED  BY <1>1, <2>4, <2>5 DEF SequenceInv
<1>10. ManifestInv'
  BY <1>1, <1>3, TablesUntouched, ManifestStays, NumberTypes, SMT DEF TypeOK, Kept, Used
<1>11. CoverInv'  BY <1>1, <1>2 DEF CoverInv, Covers
<1>12. AckInv'  BY <1>1, <1>7 DEF AckInv
<1>13. TableInv'  BY <1>1 DEF TableInv
<1>14. CompactInv' /\ BuildInv'  BY <1>1, <1>2 DEF CompactInv, BuildInv
<1>15. EditInv'
  <2>1. M.last \in Nat /\ edit.last \in Nat  BY ManifestTypes, NumberTypes DEF TypeOK, ManifestInv
  <2>2. edit.last <= last_sequence_ => edit.last <= last_sequence_'  BY <1>3, <2>1, SMT
  <2> QED  BY <1>1, <1>2, <2>2 DEF EditInv
<1>16. CollectInv'
  <2>1. ~bg_error_' => ~bg_error_  BY DEF FinishWrite
  <2> QED  BY <1>1, <1>2, <2>1 DEF CollectInv
<1>20. QuietInv'  BY <1>1 DEF QuietInv
<1> QED  BY <1>8, <1>9, <1>10, <1>11, <1>12, <1>13, <1>14, <1>15, <1>16, <1>20

LEMMA SwitchMemTableRuns ==
  ASSUME TypeOK, RunInv, SwitchMemTable
  PROVE  RunInv'
<1> USE DEF RunInv
<1>1. /\ UNCHANGED <<tables, manifests, current, tmp, pc, who, edit, version, rec, pinned, acked, safe, w>>
      /\ UNCHANGED <<manifest_file_number_, log_number_, last_sequence_>>
      /\ UNCHANGED <<out, inputs, compact, pending_outputs_, bg_error_>>
      /\ imm_ = {} /\ imm_' = mem_ /\ mem_' = {} /\ w = 0 /\ pc # "gc"
  BY DEF SwitchMemTable, jobs, promises
<1>2. M' = M /\ S' = S /\ Used' = Used  BY <1>1 DEF M, S, Used
<1>3. /\ next_file_number_ \in Nat /\ log_number_ \in Nat /\ logfile_number_ \in Nat
      /\ DOMAIN logs \subseteq Nat
      /\ logfile_number_' = next_file_number_ /\ next_file_number_' = next_file_number_ + 1
      /\ logs' = Put(logs, next_file_number_, [data |-> {}, synced |-> {}])
  BY DEF TypeOK, ProcessTypes, DiskTypes, SwitchMemTable
<1>4. next_file_number_ \notin DOMAIN logs /\ logfile_number_ < next_file_number_
  BY <1>3, SMT DEF LogInv
<1>5. /\ DOMAIN logs' = DOMAIN logs \cup {next_file_number_}
      /\ \A n \in DOMAIN logs : logs'[n] = logs[n]
      /\ logs'[next_file_number_] = [data |-> {}, synced |-> {}]
  BY <1>3, <1>4 DEF Put
<1>6. LogInv'
  <2>1. \A n \in DOMAIN logs' : n < next_file_number_'  BY <1>3, <1>5, SMT DEF LogInv
  <2>2. logfile_number_' \in DOMAIN logs' /\ log_number_' <= logfile_number_'
    BY <1>1, <1>3, <1>4, <1>5, SMT DEF LogInv
  <2>3. \A x \in mem_ : /\ logfile_number_ \in DOMAIN logs' /\ logfile_number_ >= log_number_
                        /\ x \in logs'[logfile_number_].data
                        /\ x \in safe => x \in logs'[logfile_number_].synced
    BY <1>3, <1>5 DEF LogInv
  <2> QED  BY <1>1, <2>1, <2>2, <2>3 DEF LogInv
<1>7. SequenceInv'
  BY <1>1, <1>5, SMT DEF SequenceInv
<1>8. ManifestInv'
  BY <1>1, <1>3, TablesUntouched, ManifestStays, NumberTypes, SMT DEF TypeOK, Kept, Used
<1>9. CoverInv'
  <2>1. M.log = log_number_ /\ S.log = log_number_  BY <1>1 DEF CoverInv, Covers
  <2> QED  BY <1>1, <1>2, <2>1 DEF CoverInv, Covers
<1>10. AckInv'  BY <1>1 DEF AckInv
<1>11. TableInv'
  <2>1. Kept(version \cup pinned)  BY <1>1, TablesUntouched DEF Kept, Used
  <2>2. pending_outputs_' \in SUBSET Nat  BY <1>1 DEF TypeOK, ProcessTypes
  <2>3. next_file_number_' \in Nat /\ next_file_number_' >= next_file_number_  BY <1>3, SMT
  <2> QED  BY <1>1, <2>1, <2>2, <2>3, TableStays
<1>12. CompactInv'  BY <1>1, <1>2 DEF CompactInv
<1>13. pc # "build"  BY <1>1 DEF BuildInv
<1>14. BuildInv'  BY <1>1, <1>13 DEF BuildInv
<1>15. EditInv'
  <2>1. edit.next \in Nat  BY NumberTypes DEF TypeOK
  <2>2. edit.next <= next_file_number_ => edit.next <= next_file_number_'  BY <1>3, <2>1, SMT
  <2> QED  BY <1>1, <1>2, <2>2 DEF EditInv
<1>16. CollectInv'  BY <1>1, <1>2 DEF CollectInv
<1>20. QuietInv'  BY <1>1 DEF QuietInv
<1> QED  BY <1>6, <1>7, <1>8, <1>9, <1>10, <1>11, <1>12, <1>14, <1>15, <1>16, <1>20

\* NewIterator() takes the current Version, whose tables are there.
LEMMA IteratorRuns ==
  ASSUME TypeOK, RunInv, NewIterator \/ CleanupIterator
  PROVE  RunInv'
<1> USE DEF RunInv
<1>1. /\ UNCHANGED <<logs, tables, manifests, current, tmp, pc, who, edit, version, imm_, rec, mem_, acked, safe, w>>
      /\ UNCHANGED <<next_file_number_, manifest_file_number_, log_number_, logfile_number_, last_sequence_>>
      /\ UNCHANGED <<out, inputs, compact, pending_outputs_, bg_error_>>
      /\ pinned' \subseteq version
  BY DEF NewIterator, CleanupIterator, disk, numbers, jobs, promises
<1>2. M' = M /\ S' = S  BY <1>1 DEF M, S
<1>3. Used' \subseteq Used  BY <1>1, <1>2 DEF Used
<1>4. TableInv'  BY <1>1 DEF TableInv, Complete
<1>5. CompactInv' /\ BuildInv'  BY <1>1, <1>3 DEF CompactInv, BuildInv
<1>6. ManifestInv' /\ CoverInv'  BY <1>1, <1>2 DEF ManifestInv, CoverInv, Covers
<1>7. LogInv' /\ SequenceInv' /\ AckInv'  BY <1>1 DEF LogInv, SequenceInv, AckInv
<1>8. EditInv' /\ CollectInv'  BY <1>1, <1>2 DEF EditInv, CollectInv
<1>20. QuietInv'  BY <1>1 DEF QuietInv, NewIterator, CleanupIterator, Up
<1> QED  BY <1>4, <1>5, <1>6, <1>7, <1>8, <1>20

-----------------------------------------------------------------------------
(* The background thread *)

\* What else a job needs to know: the numbers in use are below the next one.
LEMMA RunningNumbers ==
  ASSUME TypeOK, RunInv
  PROVE  /\ next_file_number_ \in Nat /\ next_file_number_ # 0
         /\ \A n \in Used : n \in Nat /\ n \in DOMAIN tables /\ n < next_file_number_
         /\ compact # 0 => compact < next_file_number_ /\ compact \in Nat
         /\ log_number_ < next_file_number_ /\ logfile_number_ < next_file_number_
         /\ manifest_file_number_ < next_file_number_ /\ S.next <= next_file_number_
<1> USE DEF RunInv
<1>1. /\ next_file_number_ \in Nat /\ manifest_file_number_ \in Nat /\ log_number_ \in Nat
      /\ logfile_number_ \in Nat /\ compact \in Nat /\ version \subseteq Nat /\ pinned \subseteq Nat
  BY NumberTypes DEF TypeOK
<1>2. current \in DOMAIN manifests  BY DEF ManifestInv
<1>3. M.files \subseteq Nat /\ M.next \in Nat /\ S.files \subseteq Nat /\ S.next \in Nat
  BY <1>2, ManifestTypes DEF TypeOK
<1>4. \A n \in version \cup pinned : n \in DOMAIN tables /\ n < next_file_number_
  BY DEF TableInv, Complete
<1>5. M.next <= next_file_number_ /\ S.next <= M.next  BY DEF ManifestInv
<1>6. \A n \in M.files : n \in DOMAIN tables /\ n < M.next  BY DEF ManifestInv, Sound, Complete
<1>7. \A n \in S.files : n \in DOMAIN tables /\ n < S.next  BY DEF ManifestInv, Sound, Complete
<1>8. \A n \in Used : n \in Nat /\ n \in DOMAIN tables /\ n < next_file_number_
  <2>1. \A n \in Nat : n < S.next \/ n < M.next => n < next_file_number_  BY <1>1, <1>3, <1>5, SMT
  <2>2. \A n \in M.files \cup S.files : n \in Nat /\ n < next_file_number_  BY <1>3, <1>6, <1>7, <2>1
  <2> QED  BY <1>1, <1>4, <1>6, <1>7, <2>2 DEF Used
<1>9. logfile_number_ < next_file_number_ /\ log_number_ <= logfile_number_  BY DEF LogInv
<1>10. manifest_file_number_ < next_file_number_  BY DEF ManifestInv
<1>11. compact # 0 => compact < next_file_number_  BY DEF CompactInv, TableInv
<1> QED  BY <1>1, <1>3, <1>5, <1>8, <1>9, <1>10, <1>11, SMT

\* A write that the tables of the Version or of the MANIFEST hold is no new one.
LEMMA HeldSequences ==
  ASSUME TypeOK, RunInv
  PROVE  \A x \in Held(tables, version) \cup Held(tables, M.files) : x <= last_sequence_
<1> USE DEF RunInv
<1>1. Held(tables, version) \subseteq Held(tables, M.files)  BY DEF CoverInv, Covers
<1>2. M.last \in Nat /\ last_sequence_ \in Nat  BY ManifestTypes, NumberTypes DEF TypeOK, ManifestInv
<1>3. M.last <= last_sequence_ /\ \A x \in Held(tables, M.files) : x <= M.last  BY DEF ManifestInv, Sound
<1>4. \A x \in Held(tables, M.files) : x \in Nat  BY BoundsAssumption, SMT DEF Held, Writes
<1> QED  BY <1>1, <1>2, <1>3, <1>4, SMT

\* A new, empty table disturbs none.
LEMMA NewTable ==
  ASSUME TypeOK, RunInv, tables' = Put(tables, next_file_number_, {})
  PROVE  /\ Kept(Used) /\ next_file_number_ \notin Used \cup {compact}
         /\ DOMAIN tables' = DOMAIN tables \cup {next_file_number_}
<1>1. \A n \in Used : n \in DOMAIN tables /\ n # next_file_number_  BY RunningNumbers, SMT
<1>2. compact # next_file_number_  BY RunningNumbers, SMT
<1>3. /\ DOMAIN tables' = DOMAIN tables \cup {next_file_number_}
      /\ \A n \in DOMAIN tables : n # next_file_number_ => tables'[n] = tables[n]
  BY DEF Put
<1> QED  BY <1>1, <1>2, <1>3 DEF Kept

LEMMA StartFlushRuns ==
  ASSUME TypeOK, RunInv, StartFlush
  PROVE  RunInv'
<1> USE DEF RunInv
<1>1. /\ UNCHANGED <<logs, manifests, current, tmp, who, edit, version, imm_, rec, mem_, pinned, acked, safe, w>>
      /\ UNCHANGED <<manifest_file_number_, log_number_, logfile_number_, last_sequence_>>
      /\ UNCHANGED <<inputs, compact, bg_error_>>
      /\ imm_ # {} /\ pc \in {"idle", "work"} /\ pc' = "build"
      /\ next_file_number_' = next_file_number_ + 1 /\ out' = next_file_number_
      /\ pending_outputs_' = pending_outputs_ \cup {next_file_number_}
      /\ tables' = Put(tables, next_file_number_, {})
  BY DEF StartFlush, client, promises
<1>2. /\ Kept(Used) /\ next_file_number_ \notin Used \cup {compact}
      /\ DOMAIN tables' = DOMAIN tables \cup {next_file_number_}
  BY <1>1, NewTable
<1>3. /\ next_file_number_ \in Nat /\ last_sequence_ \in Nat /\ pending_outputs_ \subseteq Nat
      /\ next_file_number_' \in Nat /\ next_file_number_' >= next_file_number_
      /\ next_file_number_ < next_file_number_'
  BY <1>1, SMT DEF TypeOK, ProcessTypes
<1>4. /\ Kept(M.files \cup S.files) /\ Kept(version \cup M.files \cup S.files)
      /\ Kept(version \cup pinned) /\ Kept(version)
  BY <1>2 DEF Kept, Used
<1>5. ManifestInv' /\ M' = M /\ S' = S  BY <1>1, <1>3, <1>4, ManifestStays, SMT
<1>6. Used' = Used  BY <1>1, <1>5 DEF Used
<1>7. CoverInv'  BY <1>1, <1>4, <1>5, CoverStays
<1>8. LogInv'  BY <1>1, <1>3, LogStays
<1>9. SequenceInv'  BY <1>1 DEF SequenceInv
<1>10. AckInv'  BY <1>1, <1>4, AckStays
<1>11. TableInv'  BY <1>1, <1>3, <1>4, TableStays
<1>12. CompactInv'  BY <1>1, <1>2, <1>6 DEF CompactInv
<1>13. BuildInv'  BY <1>1, <1>2, <1>3, <1>6 DEF BuildInv
<1>14. EditInv'  BY <1>1 DEF EditInv
<1>15. CollectInv'  BY <1>1, <1>5 DEF CollectInv
<1>20. QuietInv'  BY <1>1 DEF QuietInv
<1> QED  BY <1>5, <1>7, <1>8, <1>9, <1>10, <1>11, <1>12, <1>13, <1>14, <1>15, <1>20

LEMMA BuildTableRuns ==
  ASSUME TypeOK, RunInv, BuildTable
  PROVE  RunInv'
<1> USE DEF RunInv
<1>1. /\ UNCHANGED <<logs, manifests, current, tmp, version, imm_, rec, mem_, pinned, acked, safe, w>>
      /\ UNCHANGED <<next_file_number_, manifest_file_number_, log_number_, logfile_number_, last_sequence_>>
      /\ UNCHANGED <<inputs, compact>>
      /\ pc = "build" /\ pending_outputs_' = pending_outputs_ \ {out}
      /\ \/ /\ tables' = [tables EXCEPT ![out] = imm_] /\ pc' = "append" /\ who' = "flush"
            /\ edit' = [add |-> {out}, del |-> {}, log |-> logfile_number_, next |-> next_file_number_,
                        last |-> last_sequence_]
            /\ bg_error_' = bg_error_
         \/ tables' = Drop(tables, {out}) /\ bg_error_' = TRUE /\ pc' = Resume /\ who' = who
  BY DEF BuildTable, client, promises, numbers
<1>2. imm_ # {} /\ out \in DOMAIN tables /\ out \notin Used \cup {compact} /\ out < next_file_number_
  BY <1>1 DEF BuildInv
<1>3. DOMAIN tables \ {out} \subseteq DOMAIN tables' /\ \A n \in DOMAIN tables \ {out} : tables'[n] = tables[n]
  <2>1. CASE tables' = Drop(tables, {out})  BY <2>1, DropFacts
  <2>2. CASE tables' = [tables EXCEPT ![out] = imm_]  BY <2>2
  <2> QED  BY <1>1, <2>1, <2>2
<1>4. Kept(Used)  BY <1>2, <1>3, RunningNumbers DEF Kept
<1>5. /\ Kept(M.files \cup S.files) /\ Kept(version \cup M.files \cup S.files)
      /\ Kept(version \cup pinned) /\ Kept(version)
  BY <1>4 DEF Kept, Used
<1>6. /\ next_file_number_ \in Nat /\ last_sequence_ \in Nat /\ pending_outputs_' \in SUBSET Nat
      /\ next_file_number_' \in Nat /\ next_file_number_' >= next_file_number_
  BY <1>1, SMT DEF TypeOK, ProcessTypes
<1>7. ManifestInv' /\ M' = M /\ S' = S  BY <1>1, <1>5, <1>6, ManifestStays, SMT
<1>8. Used' = Used  BY <1>1, <1>7 DEF Used
<1>9. CoverInv'  BY <1>1, <1>5, <1>7, CoverStays
<1>10. LogInv' /\ SequenceInv'  BY <1>1 DEF LogInv, SequenceInv
<1>11. AckInv'  BY <1>1, <1>5, AckStays
<1>12. TableInv'  BY <1>1, <1>5, <1>6, TableStays
<1>13. CompactInv'  BY <1>1, <1>2, <1>3, <1>8 DEF CompactInv, Resume
<1>14. BuildInv'  BY <1>1 DEF BuildInv, Resume
<1>15. EditInv'
  <2>1. CASE pc' # "append"  BY <1>1, <2>1 DEF EditInv, Resume
  <2>2. CASE pc' = "append"
    <3>1. /\ tables' = [tables EXCEPT ![out] = imm_] /\ who' = "flush"
          /\ edit'.add = {out} /\ edit'.del = {} /\ edit'.log = logfile_number_
          /\ edit'.next = next_file_number_ /\ edit'.last = last_sequence_
      BY <1>1, <2>2, SMT DEF Resume
    <3>2. tables'[out] = imm_ /\ out \in DOMAIN tables'  BY <1>2, <3>1
    <3>3. Held(tables', {out}) = imm_
      BY <3>2 DEF Held, TypeOK, ProcessTypes
    <3>4. Complete(tables', {out}, next_file_number_)  BY <1>2, <3>2 DEF Complete
    <3>5. \A x \in imm_ : x <= last_sequence_  BY DEF SequenceInv
    <3>6. /\ logfile_number_ < next_file_number_ /\ manifest_file_number_ < next_file_number_
          /\ S.next <= next_file_number_
      BY RunningNumbers
    <3>7. M.next <= next_file_number_ /\ M.last <= last_sequence_  BY DEF ManifestInv
    <3>8. /\ edit'.next <= next_file_number_' /\ edit'.last <= last_sequence_' /\ edit'.log < edit'.next
          /\ manifest_file_number_' < edit'.next /\ S'.next <= edit'.next
          /\ M'.next <= edit'.next /\ M'.last <= edit'.last
      BY <1>1, <1>6, <1>7, <3>1, <3>6, <3>7, SMT
    <3>9. Complete(tables', edit'.add, edit'.next) /\ \A x \in Held(tables', edit'.add) : x <= edit'.last
      BY <3>1, <3>3, <3>4, <3>5
    <3>10. /\ who' = "flush" /\ imm_' # {} /\ edit'.log = logfile_number_' /\ edit'.del = {}
           /\ imm_' \subseteq Held(tables', edit'.add) /\ compact' \notin edit'.add
      BY <1>1, <1>2, <3>1, <3>3
    <3> QED  BY <2>2, <3>8, <3>9, <3>10 DEF EditInv
  <2> QED  BY <2>1, <2>2
<1>16. CollectInv'  BY <1>1, <1>7 DEF CollectInv, Resume
<1>20. QuietInv'  BY <1>1 DEF QuietInv, Resume
<1> QED  BY <1>7, <1>9, <1>10, <1>11, <1>12, <1>13, <1>14, <1>15, <1>16, <1>20

LEMMA StartCompactionRuns ==
  ASSUME TypeOK, RunInv, StartCompaction
  PROVE  RunInv'
<1> USE DEF RunInv
<1>1. /\ UNCHANGED <<logs, manifests, current, tmp, who, edit, version, imm_, rec, mem_, pinned, acked, safe, w>>
      /\ UNCHANGED <<manifest_file_number_, log_number_, logfile_number_, last_sequence_>>
      /\ UNCHANGED <<out, bg_error_>>
      /\ pc = "idle" /\ pc' = "work" /\ inputs' # {} /\ inputs' \subseteq version
      /\ next_file_number_' = next_file_number_ + 1 /\ compact' = next_file_number_
      /\ pending_outputs_' = pending_outputs_ \cup {next_file_number_}
      /\ tables' = Put(tables, next_file_number_, {})
  <2>1. inputs' \in (SUBSET version) \ {{}}  BY DEF StartCompaction
  <2>2. inputs' # {} /\ inputs' \subseteq version  BY <2>1
  <2> QED  BY <2>2 DEF StartCompaction, client, promises
<1>2. /\ Kept(Used) /\ next_file_number_ \notin Used \cup {compact}
      /\ DOMAIN tables' = DOMAIN tables \cup {next_file_number_}
  BY <1>1, NewTable
<1>3. /\ next_file_number_ \in Nat /\ last_sequence_ \in Nat /\ pending_outputs_ \subseteq Nat
      /\ next_file_number_' \in Nat /\ next_file_number_' >= next_file_number_
      /\ next_file_number_ < next_file_number_' /\ next_file_number_ # 0
  BY <1>1, RunningNumbers, SMT DEF TypeOK, ProcessTypes
<1>4. /\ Kept(M.files \cup S.files) /\ Kept(version \cup M.files \cup S.files)
      /\ Kept(version \cup pinned) /\ Kept(version)
  BY <1>2 DEF Kept, Used
<1>5. ManifestInv' /\ M' = M /\ S' = S  BY <1>1, <1>3, <1>4, ManifestStays, SMT
<1>6. Used' = Used  BY <1>1, <1>5 DEF Used
<1>7. CoverInv'  BY <1>1, <1>4, <1>5, CoverStays
<1>8. LogInv'  BY <1>1, <1>3, LogStays
<1>9. SequenceInv'  BY <1>1 DEF SequenceInv
<1>10. AckInv'  BY <1>1, <1>4, AckStays
<1>11. TableInv'  BY <1>1, <1>3, <1>4, TableStays
<1>12. CompactInv'  BY <1>1, <1>2, <1>3, <1>6 DEF CompactInv
<1>13. BuildInv' /\ EditInv'  BY <1>1 DEF BuildInv, EditInv
<1>14. CollectInv'  BY <1>1, <1>5 DEF CollectInv
<1>20. QuietInv'  BY <1>1 DEF QuietInv
<1> QED  BY <1>5, <1>7, <1>8, <1>9, <1>10, <1>11, <1>12, <1>13, <1>14, <1>20

\* The output of a compaction has all that its inputs have.
LEMMA CompactionWorkRuns ==
  ASSUME TypeOK, RunInv, CompactionWork
  PROVE  RunInv'
<1> USE DEF RunInv
<1>1. /\ UNCHANGED <<logs, manifests, current, tmp, version, imm_, rec, mem_, pinned, acked, safe, w>>
      /\ UNCHANGED <<next_file_number_, manifest_file_number_, log_number_, logfile_number_, last_sequence_>>
      /\ pc = "work"
      /\ \/ /\ tables' = [tables EXCEPT ![compact] = UNION {tables[n] : n \in inputs}]
            /\ edit' = [add |-> {compact}, del |-> inputs, log |-> log_number_, next |-> next_file_number_,
                        last |-> last_sequence_]
            /\ pc' = "append" /\ who' = "compact"
            /\ UNCHANGED <<inputs, compact, pending_outputs_, bg_error_>>
         \/ /\ pending_outputs_' = pending_outputs_ \ {compact}
            /\ inputs' = {} /\ compact' = 0 /\ bg_error_' = TRUE /\ pc' = "idle" /\ tables' = tables
  BY DEF CompactionWork, client, promises, numbers
<1>2. /\ compact # 0 /\ inputs # {} /\ inputs \subseteq version /\ compact \in DOMAIN tables
      /\ compact \in pending_outputs_ /\ compact \notin Used
  BY <1>1 DEF CompactInv
<1>3. DOMAIN tables' = DOMAIN tables /\ \A n \in DOMAIN tables \ {compact} : tables'[n] = tables[n]
  BY <1>1
<1>4. Kept(Used)  BY <1>2, <1>3, RunningNumbers DEF Kept
<1>5. /\ Kept(M.files \cup S.files) /\ Kept(version \cup M.files \cup S.files)
      /\ Kept(version \cup pinned) /\ Kept(version)
  BY <1>4 DEF Kept, Used
<1>6. /\ next_file_number_ \in Nat /\ last_sequence_ \in Nat /\ pending_outputs_' \in SUBSET Nat
      /\ next_file_number_' \in Nat /\ next_file_number_' >= next_file_number_
  BY <1>1, SMT DEF TypeOK, ProcessTypes
<1>7. ManifestInv' /\ M' = M /\ S' = S  BY <1>1, <1>5, <1>6, ManifestStays, SMT
<1>8. Used' = Used  BY <1>1, <1>7 DEF Used
<1>9. CoverInv'  BY <1>1, <1>5, <1>7, CoverStays
<1>10. LogInv' /\ SequenceInv'  BY <1>1 DEF LogInv, SequenceInv
<1>11. AckInv'  BY <1>1, <1>5, AckStays
<1>12. TableInv'  BY <1>1, <1>5, <1>6, TableStays
<1>13. CompactInv'  BY <1>1, <1>2, <1>3 DEF CompactInv
<1>14. BuildInv'  BY <1>1 DEF BuildInv
<1>15. EditInv'
  <2>1. CASE pc' # "append"  BY <1>1, <2>1 DEF EditInv
  <2>2. CASE pc' = "append"
    <3>1. /\ tables' = [tables EXCEPT ![compact] = UNION {tables[n] : n \in inputs}] /\ who' = "compact"
          /\ edit'.add = {compact} /\ edit'.del = inputs /\ edit'.log = log_number_
          /\ edit'.next = next_file_number_ /\ edit'.last = last_sequence_
          /\ compact' = compact
      BY <1>1, <2>2, SMT
    <3>2. tables'[compact] = UNION {tables[n] : n \in inputs}  BY <1>2, <3>1
    <3>3. \A n \in inputs : /\ n \in DOMAIN tables /\ tables[n] # {} /\ tables[n] \subseteq Writes
                            /\ tables'[n] = tables[n]
      BY <1>2, <1>5 DEF TableInv, Complete, TypeOK, DiskTypes, Kept
    <3>4. Held(tables', {compact}) = Held(tables, inputs)
      BY <3>2, <3>3, SMT DEF Held
    <3>5. Held(tables', inputs) = Held(tables, inputs)  BY <3>3, SameHeld
    <3>6. Complete(tables', {compact}, next_file_number_)
      <4>1. PICK n \in inputs : tables[n] # {}  BY <1>2, <3>3
      <4>2. tables'[compact] # {}  BY <3>2, <4>1
      <4> QED  BY <1>2, <1>3, <4>2, RunningNumbers DEF Complete
    <3>7. \A x \in Held(tables, inputs) : x <= last_sequence_
      BY <1>2, HeldSequences, HeldGrows
    <3>8. /\ log_number_ < next_file_number_ /\ manifest_file_number_ < next_file_number_
          /\ S.next <= next_file_number_
      BY RunningNumbers
    <3>9. M.next <= next_file_number_ /\ M.last <= last_sequence_  BY DEF ManifestInv
    <3>10. /\ edit'.next <= next_file_number_' /\ edit'.last <= last_sequence_' /\ edit'.log < edit'.next
           /\ manifest_file_number_' < edit'.next /\ S'.next <= edit'.next
           /\ M'.next <= edit'.next /\ M'.last <= edit'.last
      BY <1>1, <1>6, <1>7, <3>1, <3>8, <3>9, SMT
    <3>11. Complete(tables', edit'.add, edit'.next) /\ \A x \in Held(tables', edit'.add) : x <= edit'.last
      BY <3>1, <3>4, <3>6, <3>7
    <3>12. /\ edit'.log = log_number_' /\ Held(tables', edit'.del) \subseteq Held(tables', edit'.add)
           /\ who' = "compact" /\ compact' # 0
      BY <1>1, <1>2, <3>1, <3>4, <3>5
    <3> QED  BY <2>2, <3>10, <3>11, <3>12 DEF EditInv
  <2> QED  BY <2>1, <2>2
<1>16. CollectInv'  BY <1>1, <1>7 DEF CollectInv
<1>20. QuietInv'  BY <1>1 DEF QuietInv
<1> QED  BY <1>7, <1>9, <1>10, <1>11, <1>12, <1>13, <1>14, <1>15, <1>16, <1>20

LEMMA TrivialMoveRuns ==
  ASSUME TypeOK, RunInv, TrivialMove
  PROVE  RunInv'
<1> USE DEF RunInv
<1>1. /\ UNCHANGED <<logs, tables, manifests, current, tmp, version, imm_, rec, mem_, pinned, acked, safe, w>>
      /\ UNCHANGED <<next_file_number_, manifest_file_number_, log_number_, logfile_number_, last_sequence_>>
      /\ UNCHANGED <<out, inputs, compact, pending_outputs_, bg_error_>>
      /\ pc = "idle" /\ pc' = "append" /\ who' = "move"
  BY DEF TrivialMove, disk, numbers, jobs, client, promises
<1>2. M' = M /\ S' = S /\ Used' = Used  BY <1>1 DEF M, S, Used
<1>3. ManifestInv' /\ CoverInv'  BY <1>1, <1>2 DEF ManifestInv, CoverInv, Covers
<1>4. LogInv' /\ SequenceInv' /\ AckInv' /\ TableInv'  BY <1>1 DEF LogInv, SequenceInv, AckInv, TableInv
<1>5. compact = 0  BY <1>1 DEF CompactInv
<1>6. CompactInv' /\ BuildInv'  BY <1>1, <1>5 DEF CompactInv, BuildInv
<1>7. CollectInv'  BY <1>1, <1>2 DEF CollectInv
<1>8. EditInv'
  <2>1. PICK n \in version : edit' = [add |-> {n}, del |-> {n}, log |-> log_number_,
                                      next |-> next_file_number_, last |-> last_sequence_]
    BY DEF TrivialMove
  <2>2. /\ edit'.add = {n} /\ edit'.del = {n} /\ edit'.log = log_number_
        /\ edit'.next = next_file_number_ /\ edit'.last = last_sequence_
    BY <2>1
  <2>3. Complete(tables, {n}, next_file_number_)  BY DEF TableInv, Complete
  <2>4. \A x \in Held(tables, {n}) : x <= last_sequence_  BY HeldSequences, HeldGrows
  <2>5. /\ log_number_ < next_file_number_ /\ manifest_file_number_ < next_file_number_
        /\ S.next <= next_file_number_ /\ next_file_number_ \in Nat /\ last_sequence_ \in Nat
    BY RunningNumbers, NumberTypes DEF TypeOK
  <2>6. M.next <= next_file_number_ /\ M.last <= last_sequence_  BY DEF ManifestInv
  <2>7. /\ edit'.next <= next_file_number_' /\ edit'.last <= last_sequence_' /\ edit'.log < edit'.next
        /\ manifest_file_number_' < edit'.next /\ S'.next <= edit'.next
        /\ M'.next <= edit'.next /\ M'.last <= edit'.last
    BY <1>1, <1>2, <2>2, <2>5, <2>6, SMT
  <2>8. Complete(tables', edit'.add, edit'.next) /\ \A x \in Held(tables', edit'.add) : x <= edit'.last
    BY <1>1, <2>2, <2>3, <2>4
  <2>9. edit'.log = log_number_' /\ Held(tables', edit'.del) \subseteq Held(tables', edit'.add)
    BY <1>1, <2>2
  <2> QED  BY <1>1, <1>5, <2>7, <2>8, <2>9 DEF EditInv
<1>20. QuietInv'  BY <1>1 DEF QuietInv
<1> QED  BY <1>3, <1>4, <1>6, <1>7, <1>8, <1>20

-----------------------------------------------------------------------------
(* LogAndApply() of the open database *)

\* The MANIFEST with the edit makes sense and finds all there is.
LEMMA AppliedEdit ==
  ASSUME TypeOK, RunInv, pc = "append", Running
  PROVE  Sound(tables, current, Apply(M, edit)) /\ Covers(Apply(M, edit))
<1> USE DEF RunInv
<1>1. /\ Apply(M, edit).ok /\ Apply(M, edit).files = (M.files \ edit.del) \cup edit.add
      /\ Apply(M, edit).log = edit.log /\ Apply(M, edit).next = edit.next
      /\ Apply(M, edit).last = edit.last
  BY DEF Apply, ManifestInv, Sound
<1>2. /\ M.files \subseteq Nat /\ M.next \in Nat /\ M.last \in Nat /\ edit.next \in Nat /\ edit.last \in Nat
      /\ log_number_ \in Nat /\ logfile_number_ \in Nat
  BY ManifestTypes, NumberTypes DEF TypeOK, ManifestInv
<1>3. /\ M.next <= edit.next /\ M.last <= edit.last /\ edit.log < edit.next /\ current < edit.next
      /\ Complete(tables, edit.add, edit.next) /\ \A x \in Held(tables, edit.add) : x <= edit.last
  BY DEF EditInv, ManifestInv
<1>4. /\ Complete(tables, M.files, M.next) /\ \A x \in Held(tables, M.files) : x <= M.last
  BY DEF ManifestInv, Sound
<1>5. \A x \in Held(tables, M.files) : x <= edit.last
  <2>1. \A x \in Held(tables, M.files) : x \in Nat  BY BoundsAssumption, SMT DEF Held, Writes
  <2> QED  BY <1>2, <1>3, <1>4, <2>1, SMT
<1>6. Complete(tables, (M.files \ edit.del) \cup edit.add, edit.next)
  BY <1>2, <1>3, <1>4, SMT DEF Complete
<1>7. \A x \in Held(tables, (M.files \ edit.del) \cup edit.add) : x <= edit.last
  BY <1>3, <1>5 DEF Held
<1>8. Sound(tables, current, Apply(M, edit))
  BY <1>1, <1>3, <1>6, <1>7 DEF Sound
<1>9. Held(tables, version) \subseteq Held(tables, M.files) /\ log_number_ <= logfile_number_
  BY DEF CoverInv, Covers, LogInv
<1>10. CASE who = "flush"
  <2>1. /\ imm_ # {} /\ edit.log = logfile_number_ /\ edit.del = {}
        /\ imm_ \subseteq Held(tables, edit.add)
    BY <1>10 DEF EditInv
  <2>2. /\ Held(tables, M.files) \subseteq Held(tables, Apply(M, edit).files)
        /\ Held(tables, edit.add) \subseteq Held(tables, Apply(M, edit).files)
    BY <1>1, <2>1, HeldGrows
  <2> QED  BY <1>1, <1>2, <1>8, <1>9, <2>1, <2>2, SMT DEF Covers
<1>11. CASE who # "flush"
  <2>1. edit.log = log_number_ /\ Held(tables, edit.del) \subseteq Held(tables, edit.add)
    BY <1>11 DEF EditInv
  <2>2. Held(tables, M.files) \subseteq Held(tables, Apply(M, edit).files)
    BY <1>1, <2>1, HeldReplaced
  <2> QED  BY <1>1, <1>2, <1>8, <1>9, <2>1, <2>2, SMT DEF Covers
<1> QED  BY <1>10, <1>11

LEMMA AppendEditRuns ==
  ASSUME TypeOK, RunInv, AppendEdit, Running, Survivable, pc' = "sync"
  PROVE  RunInv'
<1> USE DEF RunInv
<1>1. who # "open" /\ pc = "append"  BY DEF Running, Up, AppendEdit
<1>2. /\ UNCHANGED <<logs, tables, current, who, edit, version, imm_, mem_, pinned, acked, safe, w>>
      /\ UNCHANGED <<next_file_number_, manifest_file_number_, log_number_, logfile_number_, last_sequence_>>
      /\ UNCHANGED <<inputs, compact, pending_outputs_, bg_error_>>
      /\ pc' = "sync"
      /\ manifests' = Put(manifests, manifest_file_number_,
                          [manifests[manifest_file_number_] EXCEPT !.written = Apply(@, edit)])
  BY <1>1 DEF AppendEdit, LogAndApplyFailed, Resume, numbers, jobs, client, promises
<1>3. current = manifest_file_number_ /\ current \in DOMAIN manifests  BY DEF ManifestInv
<1>4. manifests[current] \in Manifest  BY <1>3 DEF TypeOK, DiskTypes
<1>5. M' = Apply(M, edit) /\ S' = S /\ current' \in DOMAIN manifests'
  BY <1>2, <1>3, <1>4 DEF Put, M, S, Manifest
<1>6. Sound(tables, current, Apply(M, edit)) /\ Covers(Apply(M, edit))  BY <1>1, AppliedEdit
<1>7. /\ M'.files = (M.files \ edit.del) \cup edit.add /\ M'.log = edit.log /\ M'.next = edit.next
      /\ M'.last = edit.last
  BY <1>5 DEF Apply
<1>8. /\ M.next <= edit.next /\ edit.next <= next_file_number_ /\ edit.last <= last_sequence_
  BY <1>1 DEF EditInv
<1>9. S.next <= M'.next
  <2>1. S.next \in Nat /\ M.next \in Nat /\ edit.next \in Nat  BY <1>3, ManifestTypes, NumberTypes DEF TypeOK
  <2>2. S.next <= M.next  BY DEF ManifestInv
  <2> QED  BY <1>7, <1>8, <2>1, <2>2, SMT
<1>10. ManifestInv'  BY <1>2, <1>3, <1>5, <1>6, <1>7, <1>8, <1>9 DEF ManifestInv
<1>11. CoverInv'
  <2>1. Covers(M)'  BY <1>2, <1>5, <1>6 DEF Covers
  <2>2. Covers(S)'  BY <1>2, <1>5 DEF CoverInv, Covers
  <2> QED  BY <2>1, <2>2 DEF CoverInv
<1>12. LogInv' /\ SequenceInv'  BY <1>2 DEF LogInv, SequenceInv
<1>13. AckInv' /\ TableInv'  BY <1>2 DEF AckInv, TableInv
<1>14. CompactInv'
  <2>1. Used' \subseteq Used \cup edit.add  BY <1>2, <1>5, <1>7 DEF Used
  <2>2. compact # 0 /\ who = "flush" => compact \notin edit.add  BY <1>1 DEF EditInv
  <2> QED  BY <1>1, <1>2, <2>1, <2>2 DEF CompactInv
<1>15. BuildInv'  BY <1>2 DEF BuildInv
<1>16. EditInv'
  <2>1. edit.add \subseteq M'.files  BY <1>7
  <2>2. edit.next \in Nat  BY NumberTypes DEF TypeOK
  <2>3. M'.next <= edit.next  BY <1>7, <2>2, SMT
  <2> QED  BY <1>1, <1>2, <1>5, <1>7, <2>1, <2>3 DEF EditInv
<1>17. CollectInv'
  <2>1. ~bg_error_ => M.files \subseteq version /\ S = M  BY <1>1 DEF CollectInv
  <2> QED  BY <1>2, <1>5, <1>7, <2>1 DEF CollectInv
<1>20. QuietInv'  BY <1>2 DEF QuietInv
<1> QED  BY <1>10, <1>11, <1>12, <1>13, <1>14, <1>15, <1>16, <1>17, <1>20

\* LogAndApply() of the open database fails: memory and Version stay, and
\* nothing is deleted any more.
LEMMA FailedEditRuns ==
  ASSUME TypeOK, RunInv, Running, AppendEdit \/ SyncEdit, pc' \notin {"sync", "install"}
  PROVE  RunInv'
<1> USE DEF RunInv
<1>1. who # "open" /\ pc \in {"append", "sync"}  BY DEF Running, Up, AppendEdit, SyncEdit
<1>2. LogAndApplyFailed /\ UNCHANGED <<logs, tables, manifests, current>>
  BY <1>1 DEF AppendEdit, SyncEdit
<1>3. /\ UNCHANGED <<who, version, mem_, imm_, pinned, acked, safe, w>>
      /\ UNCHANGED <<next_file_number_, manifest_file_number_, log_number_, logfile_number_, last_sequence_>>
      /\ bg_error_' = TRUE
      /\ \/ who = "flush" /\ pc' = Resume /\ UNCHANGED <<inputs, compact, pending_outputs_>>
         \/ who # "flush" /\ pc' = "idle" /\ inputs' = {} /\ compact' = 0 /\ pending_outputs_' \subseteq pending_outputs_
  BY <1>1, <1>2 DEF LogAndApplyFailed, ImmAfter, numbers, client, promises
<1>4. M' = M /\ S' = S /\ Used' = Used  BY <1>2, <1>3 DEF M, S, Used
<1>5. pc' \in {"idle", "work"}  BY <1>3 DEF Resume
<1>6. ManifestInv' /\ CoverInv'  BY <1>2, <1>3, <1>4 DEF ManifestInv, CoverInv, Covers
<1>7. LogInv' /\ SequenceInv' /\ AckInv'  BY <1>2, <1>3 DEF LogInv, SequenceInv, AckInv
<1>8. TableInv'  BY <1>2, <1>3 DEF TableInv
<1>9. CompactInv'  BY <1>1, <1>2, <1>3, <1>4 DEF CompactInv, Resume
<1>10. BuildInv' /\ EditInv' /\ CollectInv' /\ QuietInv'
  BY <1>3, <1>5 DEF BuildInv, EditInv, CollectInv, QuietInv
<1> QED  BY <1>6, <1>7, <1>8, <1>9, <1>10

LEMMA SyncEditRuns ==
  ASSUME TypeOK, RunInv, SyncEdit, Running, Survivable, pc' = "install"
  PROVE  RunInv'
<1> USE DEF RunInv
<1>1. who # "open" /\ pc = "sync"  BY DEF Running, Up, SyncEdit
<1>2. /\ UNCHANGED <<logs, tables, current, who, edit, version, imm_, mem_, pinned, acked, safe, w>>
      /\ UNCHANGED <<next_file_number_, manifest_file_number_, log_number_, logfile_number_, last_sequence_>>
      /\ UNCHANGED <<inputs, compact, pending_outputs_, bg_error_>>
      /\ manifests' = [manifests EXCEPT ![manifest_file_number_].synced = manifests[manifest_file_number_].written]
  BY <1>1 DEF SyncEdit, LogAndApplyFailed, Resume, numbers, jobs, client, promises, Survivable
<1>3. current = manifest_file_number_ /\ current \in DOMAIN manifests  BY DEF ManifestInv
<1>4. manifests[current] \in Manifest  BY <1>3 DEF TypeOK, DiskTypes
<1>5. M' = M /\ S' = M /\ current' \in DOMAIN manifests'
  BY <1>2, <1>3, <1>4 DEF M, S, Manifest
<1>6. Used' \subseteq Used  BY <1>2, <1>5 DEF Used
<1>7. ManifestInv'
  <2>1. M.next \in Nat  BY <1>3, ManifestTypes DEF TypeOK
  <2> QED  BY <1>2, <1>5, <2>1, SMT DEF ManifestInv
<1>8. CoverInv'  BY <1>2, <1>5 DEF CoverInv, Covers
<1>9. LogInv' /\ SequenceInv' /\ AckInv' /\ TableInv'  BY <1>2 DEF LogInv, SequenceInv, AckInv, TableInv
<1>10. CompactInv'  BY <1>1, <1>2, <1>6 DEF CompactInv
<1>11. BuildInv' /\ QuietInv'  BY DEF BuildInv, QuietInv
<1>12. EditInv'  BY <1>1, <1>2, <1>5 DEF EditInv
<1>13. CollectInv'  BY <1>1, <1>2, <1>5 DEF CollectInv
<1> QED  BY <1>7, <1>8, <1>9, <1>10, <1>11, <1>12, <1>13

\* The new Version has all that the old one and, after a flush, imm_ had, and the
\* MANIFEST has it too.
LEMMA InstallRuns ==
  ASSUME TypeOK, RunInv, Install, Running
  PROVE  RunInv'
<1> USE DEF RunInv
<1>1. who # "open" /\ pc = "install" /\ who \in {"flush", "compact", "move"}
  BY DEF Running, Up, Install, EditInv
<1>2. /\ UNCHANGED <<logs, tables, manifests, current, who, mem_, pinned, acked, safe, w>>
      /\ UNCHANGED <<next_file_number_, manifest_file_number_, logfile_number_, last_sequence_, bg_error_>>
      /\ version' = (version \ edit.del) \cup edit.add /\ log_number_' = edit.log
      /\ imm_' = IF who = "flush" THEN {} ELSE imm_
      /\ pending_outputs_' \subseteq pending_outputs_
      /\ who # "compact" => UNCHANGED <<inputs, compact, pending_outputs_>>
      /\ who = "compact" => inputs' = {} /\ compact' = 0
      /\ pc' = IF who # "move" /\ ~bg_error_ THEN "gc" ELSE IF compact' # 0 THEN "work" ELSE "idle"
  BY DEF Install, ImmAfter, Collects, disk, client, promises
<1>3. M' = M /\ S' = S  BY <1>2 DEF M, S
<1>4. /\ S = M /\ edit.add \subseteq M.files /\ M.log = edit.log
      /\ edit.next <= next_file_number_ /\ Complete(tables, edit.add, edit.next)
  BY <1>1 DEF EditInv
<1> DEFINE Flushed == /\ edit.log = logfile_number_ /\ edit.del = {} /\ imm_ \subseteq Held(tables, edit.add)
                      /\ compact # 0 => compact \notin edit.add
           Moved == edit.log = log_number_ /\ Held(tables, edit.del) \subseteq Held(tables, edit.add)
<1>6. who = "flush" => Flushed  BY <1>1 DEF EditInv
<1>7. who # "flush" => Moved  BY <1>1 DEF EditInv
<1>8. /\ Held(tables, version) \subseteq Held(tables, version')
      /\ Held(tables, edit.add) \subseteq Held(tables, version')
      /\ Held(tables, version') \subseteq Held(tables, version) \cup Held(tables, edit.add)
  BY <1>2, <1>6, <1>7 DEF Held
<1> HIDE DEF Flushed, Moved
<1>9. ManifestInv'  BY <1>2, <1>3 DEF ManifestInv
<1>10. CoverInv'
  <2>1. Held(tables, version) \subseteq Held(tables, M.files)  BY DEF CoverInv, Covers
  <2>2. Held(tables, edit.add) \subseteq Held(tables, M.files)  BY <1>4, HeldGrows
  <2>3. edit.log \in Nat  BY NumberTypes DEF TypeOK
  <2>4. Held(tables', version') \subseteq Held(tables', M'.files) /\ log_number_' <= M'.log /\ M'.log = log_number_'
    <3>1. Held(tables, version') \subseteq Held(tables, M.files)  BY <1>8, <2>1, <2>2
    <3>2. Held(tables', version') \subseteq Held(tables', M'.files)  BY <1>2, <1>3, <3>1
    <3>3. log_number_' = M'.log /\ M'.log \in Nat  BY <1>2, <1>3, <1>4, <2>3
    <3> QED  BY <3>2, <3>3, SMT
  <2>5. Covers(M)'  BY <2>4 DEF Covers
  <2> QED  BY <1>3, <1>4, <2>5 DEF CoverInv, Covers
<1>11. log_number_ \in Nat /\ logfile_number_ \in Nat /\ DOMAIN logs \subseteq Nat
       /\ log_number_ <= log_number_' /\ log_number_' <= logfile_number_
       /\ log_number_' \in Nat
  <2>1. log_number_ \in Nat /\ logfile_number_ \in Nat /\ DOMAIN logs \subseteq Nat
    BY NumberTypes DEF TypeOK, DiskTypes
  <2>2. log_number_ <= logfile_number_  BY DEF LogInv
  <2> QED  BY <1>2, <1>6, <1>7, <2>1, <2>2, SMT DEF Flushed, Moved
<1>12. LogInv'
  <2>1. CASE who = "flush"  BY <1>2, <1>11, <2>1 DEF LogInv
  <2>2. CASE who # "flush"
    <3>1. log_number_' = log_number_ /\ imm_' = imm_  BY <1>2, <1>7, <2>2 DEF Moved
    <3> QED  BY <1>2, <3>1 DEF LogInv
  <2> QED  BY <2>1, <2>2
<1>13. SequenceInv'
  <2>1. imm_' \subseteq imm_  BY <1>2
  <2> QED  BY <1>2, <1>11, <2>1, SMT DEF SequenceInv
<1>14. AckInv'
  <2>1. imm_ \subseteq imm_' \cup Held(tables, version')  BY <1>2, <1>6, <1>8 DEF Flushed
  <2> QED  BY <1>2, <1>8, <2>1 DEF AckInv
<1>15. TableInv'
  <2>1. edit.next \in Nat /\ next_file_number_ \in Nat /\ edit.add \subseteq Nat  BY NumberTypes DEF TypeOK
  <2>2. Complete(tables, edit.add, next_file_number_)  BY <1>4, <2>1, SMT DEF Complete
  <2> QED  BY <1>2, <2>2 DEF TableInv, Complete
<1>16. CompactInv'
  <2>1. CASE who = "compact"  BY <1>2, <2>1 DEF CompactInv
  <2>2. CASE who = "move"
    <3>1. compact = 0  BY <1>1, <2>2 DEF EditInv
    <3> QED  BY <1>2, <2>2, <3>1 DEF CompactInv
  <2>3. CASE who = "flush"
    <3>1. Used' \subseteq Used \cup edit.add /\ version \subseteq version'
      BY <1>2, <1>3, <1>6, <2>3 DEF Used, Flushed
    <3> QED  BY <1>1, <1>2, <1>6, <2>3, <3>1 DEF CompactInv, Flushed
  <2> QED  BY <1>1, <2>1, <2>2, <2>3
<1>17. BuildInv' /\ EditInv'  BY <1>2 DEF BuildInv, EditInv
<1>18. CollectInv'  BY <1>1, <1>2, <1>3, <1>4 DEF CollectInv
<1>20. QuietInv'  BY <1>1, <1>2 DEF QuietInv
<1> QED  BY <1>9, <1>10, <1>12, <1>13, <1>14, <1>15, <1>16, <1>17, <1>18, <1>20

-----------------------------------------------------------------------------
(* DeleteObsoleteFiles() *)

\* No file that is needed is obsolete.
LEMMA DeleteRuns ==
  ASSUME TypeOK, RunInv, DeleteObsoleteFile
  PROVE  RunInv'
<1> USE DEF RunInv
<1>1. /\ UNCHANGED <<current, pc, who, edit, version, imm_, mem_, pinned, acked, safe, w>>
      /\ UNCHANGED <<next_file_number_, manifest_file_number_, log_number_, logfile_number_, last_sequence_>>
      /\ UNCHANGED <<out, inputs, compact, pending_outputs_, bg_error_>>
      /\ pc = "gc"
      /\ \/ \E n \in ObsoleteLogs : logs' = Drop(logs, {n}) /\ UNCHANGED <<tables, manifests>>
         \/ \E n \in ObsoleteManifests : manifests' = Drop(manifests, {n}) /\ UNCHANGED <<logs, tables>>
         \/ \E n \in ObsoleteTables : tables' = Drop(tables, {n}) /\ UNCHANGED <<logs, manifests>>
         \/ UNCHANGED <<logs, tables, manifests>>
  BY DEF DeleteObsoleteFile, numbers, jobs, client, promises
<1>2. /\ DOMAIN logs' \subseteq DOMAIN logs
      /\ \A n \in DOMAIN logs : n >= log_number_ => n \in DOMAIN logs'
      /\ \A n \in DOMAIN logs' : logs'[n] = logs[n]
  <2>1. log_number_ \in Nat /\ DOMAIN logs \subseteq Nat  BY DEF TypeOK, ProcessTypes, DiskTypes
  <2>2. ASSUME NEW n \in ObsoleteLogs, logs' = Drop(logs, {n})
        PROVE  /\ DOMAIN logs' \subseteq DOMAIN logs
               /\ \A i \in DOMAIN logs : i >= log_number_ => i \in DOMAIN logs'
               /\ \A i \in DOMAIN logs' : logs'[i] = logs[i]
    <3>1. n < log_number_ /\ n \in Nat  BY <2>1, <2>2 DEF ObsoleteLogs
    <3>2. DOMAIN logs' = DOMAIN logs \ {n} /\ \A i \in DOMAIN logs \ {n} : logs'[i] = logs[i]
      BY <2>2, DropFacts
    <3> QED  BY <2>1, <3>1, <3>2, SMT
  <2>3. CASE logs' = logs  BY <2>3
  <2> QED  BY <1>1, <2>2, <2>3
<1>3. current' \in DOMAIN manifests' /\ manifests'[current] = manifests[current]
  <2>1. current = manifest_file_number_ /\ current \in Nat /\ current \in DOMAIN manifests
    BY DEF ManifestInv, TypeOK, DiskTypes
  <2>2. ASSUME NEW n \in ObsoleteManifests, manifests' = Drop(manifests, {n})
        PROVE  current \in DOMAIN manifests' /\ manifests'[current] = manifests[current]
    <3>1. n # current  BY <2>1, <2>2, SMT DEF ObsoleteManifests
    <3>2. DOMAIN manifests' = DOMAIN manifests \ {n}
          /\ \A i \in DOMAIN manifests \ {n} : manifests'[i] = manifests[i]
      BY <2>2, DropFacts
    <3> QED  BY <2>1, <3>1, <3>2
  <2>3. CASE manifests' = manifests  BY <1>1, <2>1, <2>3
  <2> QED  BY <1>1, <2>2, <2>3
<1>4. M' = M /\ S' = S  BY <1>1, <1>3 DEF M, S
<1>5. Used \subseteq Live /\ (compact # 0 => compact \in Live)
  <2>1. M.files \subseteq version /\ S = M  BY <1>1 DEF CollectInv
  <2> QED  BY <2>1 DEF Used, Live, CompactInv
<1>6. /\ DOMAIN tables' \subseteq DOMAIN tables
      /\ \A n \in DOMAIN tables \cap Live : n \in DOMAIN tables' /\ tables'[n] = tables[n]
  <2>1. ASSUME NEW n \in ObsoleteTables, tables' = Drop(tables, {n})
        PROVE  /\ DOMAIN tables' \subseteq DOMAIN tables
               /\ \A i \in DOMAIN tables \cap Live : i \in DOMAIN tables' /\ tables'[i] = tables[i]
    <3>1. n \notin Live  BY <2>1 DEF ObsoleteTables
    <3>2. DOMAIN tables' = DOMAIN tables \ {n} /\ \A i \in DOMAIN tables \ {n} : tables'[i] = tables[i]
      BY <2>1, DropFacts
    <3> QED  BY <3>1, <3>2
  <2>2. CASE tables' = tables  BY <2>2
  <2> QED  BY <1>1, <2>1, <2>2
<1>7. Kept(Used)
  <2>1. Used \subseteq DOMAIN tables  BY RunningNumbers
  <2> QED  BY <1>5, <1>6, <2>1 DEF Kept
<1>8. /\ Kept(M.files \cup S.files) /\ Kept(version \cup M.files \cup S.files)
      /\ Kept(version \cup pinned) /\ Kept(version)
  BY <1>7 DEF Kept, Used
<1>9. Used' = Used  BY <1>1, <1>4 DEF Used
<1>10. ManifestInv'
  <2>1. Sound(tables', current, M) /\ Sound(tables', current, S)
    BY <1>8, SoundStays DEF ManifestInv, Kept
  <2> QED  BY <1>1, <1>3, <1>4, <2>1 DEF ManifestInv
<1>11. CoverInv'  BY <1>1, <1>4, <1>8, CoverStays
<1>12. LogInv'
  <2>1. logfile_number_ \in DOMAIN logs'
    <3>1. logfile_number_ >= log_number_ /\ logfile_number_ \in DOMAIN logs
      BY NumberTypes DEF LogInv, TypeOK
    <3> QED  BY <1>2, <3>1
  <2>2. ASSUME NEW x \in imm_
        PROVE  \E n \in DOMAIN logs' : n >= log_number_ /\ x \in logs'[n].data
                                       /\ (x \in safe => x \in logs'[n].synced)
    BY <1>2 DEF LogInv
  <2> QED  BY <1>1, <1>2, <2>1, <2>2 DEF LogInv
<1>13. SequenceInv'  BY <1>1, <1>2 DEF SequenceInv
<1>14. AckInv'  BY <1>1, <1>8, AckStays
<1>15. TableInv'
  <2>1. /\ next_file_number_' \in Nat /\ next_file_number_' >= next_file_number_
        /\ pending_outputs_' \in SUBSET Nat
    BY <1>1, SMT DEF TypeOK, ProcessTypes
  <2> QED  BY <1>1, <1>8, <2>1, TableStays
<1>16. CompactInv'
  <2>1. compact # 0 => compact \in DOMAIN tables'  BY <1>5, <1>6 DEF CompactInv
  <2> QED  BY <1>1, <1>9, <2>1 DEF CompactInv
<1>17. BuildInv' /\ EditInv' /\ QuietInv'  BY <1>1 DEF BuildInv, EditInv, QuietInv
<1>18. CollectInv'  BY <1>1, <1>4 DEF CollectInv
<1> QED  BY <1>10, <1>11, <1>12, <1>13, <1>14, <1>15, <1>16, <1>17, <1>18

\* Open() returns: what it recovered is promised, and is in the tables.
LEMMA DeletedRuns ==
  ASSUME TypeOK, RunInv, ObsoleteFilesDeleted
  PROVE  RunInv'
<1> USE DEF RunInv
<1>1. /\ UNCHANGED <<logs, tables, manifests, current, who, edit, version, imm_, mem_, pinned, w>>
      /\ UNCHANGED <<next_file_number_, manifest_file_number_, log_number_, logfile_number_, last_sequence_>>
      /\ UNCHANGED <<out, inputs, compact, pending_outputs_, bg_error_>>
      /\ pc = "gc" /\ pc' = Resume
      /\ who = "open" => acked' = acked \cup UNION {tables[n] : n \in version} /\ safe' = acked'
      /\ who # "open" => UNCHANGED <<acked, safe>>
  BY DEF ObsoleteFilesDeleted, disk, numbers, jobs, client, promises
<1>2. M' = M /\ S' = S /\ Used' = Used  BY <1>1 DEF M, S, Used
<1>3. pc' \in {"idle", "work"} /\ (pc' = "work" <=> compact # 0)  BY <1>1 DEF Resume
<1>4. ManifestInv' /\ CoverInv'  BY <1>1, <1>2 DEF ManifestInv, CoverInv, Covers
<1>5. who = "open" => mem_ = {} /\ imm_ = {}  BY <1>1 DEF QuietInv
<1>6. LogInv'
  <2>1. CASE who = "open"  BY <1>1, <1>5, <2>1 DEF LogInv
  <2>2. CASE who # "open"  BY <1>1, <2>2 DEF LogInv
  <2> QED  BY <2>1, <2>2
<1>7. SequenceInv' /\ TableInv'  BY <1>1 DEF SequenceInv, TableInv
<1>8. AckInv'
  <2>1. \A n \in version : tables[n] \subseteq Writes
    BY DEF TableInv, Complete, TypeOK, DiskTypes
  <2>2. UNION {tables[n] : n \in version} \subseteq Held(tables, version)
    BY <2>1 DEF Held
  <2> QED  BY <1>1, <2>2 DEF AckInv
<1>9. CompactInv'  BY <1>1, <1>2, <1>3 DEF CompactInv
<1>10. BuildInv' /\ EditInv' /\ QuietInv'  BY <1>3 DEF BuildInv, EditInv, QuietInv
<1>11. CollectInv'  BY <1>1, <1>2, <1>3 DEF CollectInv
<1> QED  BY <1>4, <1>6, <1>7, <1>8, <1>9, <1>10, <1>11

-----------------------------------------------------------------------------
(* DB::Open() *)

\* CURRENT stays, its MANIFEST, its tables and the logs do too.
LEMMA DiskStays ==
  ASSUME DiskInv, UNCHANGED <<current, acked, safe>>,
         current # 0 => /\ current \in DOMAIN manifests' /\ manifests'[current] = manifests[current]
                        /\ Kept(M.files) /\ (S.ok => Kept(S.files)),
         \A n \in DOMAIN logs : n \in DOMAIN logs' /\ logs'[n] = logs[n]
  PROVE  DiskInv' /\ (current # 0 => M' = M /\ S' = S)
<1>1. CASE current = 0  BY <1>1 DEF DiskInv
<1>2. CASE current # 0
  <2>1. M' = M /\ S' = S  BY <1>2 DEF M, S
  <2>2. /\ Held(tables', M.files) = Held(tables, M.files)
        /\ S.ok => Held(tables', S.files) = Held(tables, S.files)
    BY <1>2, SameHeld, SMT DEF Kept
  <2>3. ASSUME NEW k
        PROVE  Logged(logs, k) \subseteq Logged(logs', k) /\ Synced(logs, k) \subseteq Synced(logs', k)
    BY DEF Logged, Synced
  <2>4. Sound(tables', current, M) /\ (S.ok => Sound(tables', current, S))
    BY <1>2, SoundStays DEF DiskInv, Kept
  <2>5. acked \subseteq Held(tables', M.files) \cup Logged(logs', M.log)
    BY <1>2, <2>2, <2>3 DEF DiskInv
  <2>6. safe \subseteq Held(tables', M.files) \cup Synced(logs', M.log)
    BY <1>2, <2>2, <2>3 DEF DiskInv
  <2>7. S.ok => safe \subseteq Held(tables', S.files) \cup Synced(logs', S.log)
    BY <1>2, <2>2, <2>3 DEF DiskInv
  <2> QED  BY <1>2, <2>1, <2>4, <2>5, <2>6, <2>7 DEF DiskInv
<1> QED  BY <1>1, <1>2

\* The database is closed, and the disk is good.
LEMMA BackDown ==
  ASSUME TypeOK', DiskInv', Blank
  PROVE  IInv'
<1>1. IsBlank' /\ pc' = "down"  BY DEF Blank, IsBlank, IsQuiet
<1>2. StartInv'  BY <1>1 DEF StartInv
<1> QED  BY <1>1, <1>2 DEF IInv, Starting, Switching, Running, Up

LEMMA OpenSteps ==
  ASSUME IInv, TypeOK', Open
  PROVE  IInv'
<1>1. pc = "down" /\ UNCHANGED <<logs, tables, manifests, current, tmp, who, acked, safe>>
      /\ pc' = IF current = 0 THEN "newdb" ELSE "recover"
  BY DEF Open, disk, promises
<1>2. StartInv /\ DiskInv  BY <1>1 DEF IInv, Starting
<1>3. IsBlank'  BY <1>2 DEF StartInv, IsBlank, IsQuiet, Open, numbers, jobs, client
<1>4. StartInv'  BY <1>1, <1>3 DEF StartInv
<1>5. DiskInv'  BY <1>1, <1>2 DEF DiskInv, M, S
<1> QED  BY <1>1, <1>4, <1>5 DEF IInv, Starting, Switching, Running, Up

LEMMA NewDBSteps ==
  ASSUME IInv, TypeOK', NewDB
  PROVE  IInv'
<1>1. pc = "newdb" /\ UNCHANGED <<logs, tables, current, tmp>>  BY DEF NewDB
<1>2. StartInv /\ DiskInv  BY <1>1 DEF IInv, Starting
<1>3. current = 0 /\ acked = {}  BY <1>1, <1>2 DEF StartInv, DiskInv
<1>4. acked' = acked  BY DEF NewDB, OpenFailed, promises
<1>5. DiskInv'  BY <1>1, <1>3, <1>4 DEF DiskInv
<1>6. CASE Blank  BY <1>5, <1>6, BackDown
<1>7. CASE ~Blank
  <2>1. /\ manifests' = Put(manifests, 1,
             [written |-> Apply(Snapshot({}), [NoEdit EXCEPT !.next = 2]), synced |-> NoState])
        /\ pc' = "tmp" /\ who' = "newdb"
        /\ UNCHANGED <<edit, version, numbers, imm_, rec, jobs, client, promises, crashes>>
    BY <1>7 DEF NewDB, OpenFailed
  <2>2. /\ 1 \in DOMAIN manifests'
        /\ manifests'[1] = [written |-> Apply(Snapshot({}), [NoEdit EXCEPT !.next = 2]), synced |-> NoState]
    BY <2>1 DEF Put
  <2>3. IsBlank'  BY <1>2, <2>1 DEF StartInv, IsBlank, IsQuiet, numbers, jobs, client
  <2>4. StartInv'  BY <1>1, <1>3, <2>1, <2>2, <2>3 DEF StartInv
  <2> QED  BY <1>5, <2>1, <2>4 DEF IInv, Starting, Switching, Running, Up
<1> QED  BY <1>6, <1>7

\* Recover() starts from what MANIFEST says.
LEMMA RecoverSteps ==
  ASSUME IInv, TypeOK', RecoverVersion
  PROVE  IInv'
<1>1. pc = "recover" /\ UNCHANGED <<logs, tables, manifests, current, tmp, acked, safe>>
  BY DEF RecoverVersion, OpenFailed, disk, promises
<1>2. StartInv /\ DiskInv  BY <1>1 DEF IInv, Starting
<1>3. current # 0 /\ current \in DOMAIN manifests /\ Sound(tables, current, M)
  BY <1>1, <1>2 DEF StartInv, DiskInv
<1>4. DiskInv' /\ M' = M  BY <1>1, <1>2 DEF DiskInv, M, S
<1>5. CASE Blank  BY <1>4, <1>5, BackDown
<1>6. CASE ~Blank
  <2>1. Descriptor = M  BY <1>3 DEF Descriptor, M
  <2>2. /\ version' = M.files /\ log_number_' = M.log /\ last_sequence_' = M.last
        /\ manifest_file_number_' = M.next /\ next_file_number_' = M.next + 1
        /\ rec' = [NoRec EXCEPT !.todo = LogsToRecover(M)]
        /\ pc' = "logs"
        /\ UNCHANGED <<who, edit, logfile_number_, imm_, jobs, client, promises, crashes>>
    BY <1>6, <2>1 DEF RecoverVersion, OpenFailed
  <2>3. /\ rec'.ok /\ rec'.todo = {n \in DOMAIN logs : n >= M.log} /\ rec'.left = {} /\ rec'.add = {}
    BY <2>2 DEF NoRec, LogsToRecover
  <2>4. IsQuiet'  BY <1>2, <2>2 DEF StartInv, IsBlank, IsQuiet, jobs, client
  <2>5. M.next \in Nat  BY <1>3, ManifestTypes DEF IInv, TypeOK
  <2>6. Held(tables', rec'.add) = {} /\ Complete(tables', rec'.add, next_file_number_')
    BY <2>3 DEF Held, Complete
  <2>7. LogsInv'
    BY <1>1, <1>3, <1>4, <2>2, <2>3, <2>4, <2>5, <2>6, SMT DEF LogsInv
  <2> QED  BY <1>4, <2>2, <2>7 DEF IInv, Starting, Switching, Running, Up
<1> QED  BY <1>5, <1>6

\* One table of a log is recovered: what was read of the log is in the tables.
LEMMA RecoverLogSteps ==
  ASSUME IInv, TypeOK', RecoverLogFile, Survivable
  PROVE  IInv'
<1>1. /\ pc = "logs"
      /\ UNCHANGED <<logs, manifests, current, tmp, pc, who, version, manifest_file_number_, log_number_,
                     last_sequence_, imm_, mem_, w, pinned, acked, safe>>
      /\ UNCHANGED <<out, inputs, compact, pending_outputs_, bg_error_>>
  BY DEF RecoverLogFile, jobs, client, promises
<1>2. LogsInv /\ DiskInv /\ TypeOK  BY <1>1 DEF IInv
<1>3. /\ current # 0 /\ current \in DOMAIN manifests /\ Sound(tables, current, M)
      /\ S.ok => Sound(tables, current, S) /\ S.next <= M.next
  BY <1>2 DEF LogsInv, DiskInv
<1>4. M.next \in Nat /\ S.next \in Nat /\ M.files \subseteq Nat /\ S.files \subseteq Nat
  BY <1>2, <1>3, ManifestTypes DEF TypeOK
<1>5. next_file_number_ \in Nat /\ rec \in Locals /\ DOMAIN logs \subseteq Nat
  BY <1>2 DEF TypeOK, ProcessTypes, DiskTypes
<1>6. rec.todo \subseteq Nat /\ rec.left \subseteq Writes /\ rec.add \subseteq Nat /\ rec.max \in Nat
  BY <1>5 DEF Locals
<1>0. PICK n \in OldestLog : RecoverTable(n)  BY DEF RecoverLogFile
<1> DEFINE t == next_file_number_
           left == IF rec.left = {} THEN logs[n].data ELSE rec.left
<1>7. n \in rec.todo  BY <1>0 DEF OldestLog
<1>8. n \in DOMAIN logs /\ n \in Nat /\ left \subseteq Writes
  BY <1>2, <1>5, <1>6, <1>7 DEF LogsInv, TypeOK, DiskTypes, LogFile
<1>9. logs[n].data \subseteq left \cup Held(tables, rec.add)
  BY <1>2 DEF LogsInv
<1>10. t \notin M.files /\ (S.ok => t \notin S.files) /\ t \notin rec.add
  <2>1. \A i \in M.files : i < M.next  BY <1>3 DEF Sound, Complete
  <2>2. S.ok => \A i \in S.files : i < S.next  BY <1>3 DEF Sound, Complete
  <2>3. M.next < next_file_number_ /\ \A i \in rec.add : i < next_file_number_
    BY <1>2 DEF LogsInv, Complete
  <2> QED  BY <1>3, <1>4, <1>5, <1>6, <2>1, <2>2, <2>3, SMT
<1> HIDE DEF left
\* What must be known of the step
<1> DEFINE Reads(done) ==
      /\ Complete(tables', rec'.add, next_file_number_') /\ rec'.ok
      /\ Held(tables, rec.add) \subseteq Held(tables', rec'.add)
      /\ \A x \in Held(tables', rec'.add) : x <= rec'.max
      /\ \A i \in DOMAIN tables : i # t => i \in DOMAIN tables' /\ tables'[i] = tables[i]
      /\ next_file_number_' \in Nat /\ next_file_number_ <= next_file_number_'
      /\ IF done THEN /\ rec'.todo = rec.todo \ {n} /\ rec'.left = {} /\ n < next_file_number_'
                      /\ logs[n].data \subseteq Held(tables', rec'.add)
                 ELSE /\ rec'.todo = rec.todo
                      /\ logs[n].data \subseteq rec'.left \cup Held(tables', rec'.add)
<1>11. ASSUME Reads(TRUE) \/ Reads(FALSE) PROVE IInv'
  <2>1. Kept(M.files) /\ (S.ok => Kept(S.files))
    <3>1. M.files \subseteq DOMAIN tables /\ (S.ok => S.files \subseteq DOMAIN tables)
      BY <1>3 DEF Sound, Complete
    <3> QED  BY <1>10, <1>11, <3>1 DEF Kept
  <2>2. DiskInv' /\ M' = M  BY <1>1, <1>2, <1>3, <2>1, DiskStays
  <2>3. /\ Complete(tables', rec'.add, next_file_number_') /\ rec'.ok
        /\ Held(tables, rec.add) \subseteq Held(tables', rec'.add)
        /\ \A x \in Held(tables', rec'.add) : x <= rec'.max
        /\ next_file_number_' \in Nat /\ next_file_number_ <= next_file_number_'
        /\ rec'.todo \subseteq rec.todo
    BY <1>11
  <2>4. ASSUME NEW i \in DOMAIN logs, i >= log_number_, i \notin rec'.todo
        PROVE  logs[i].data \subseteq Held(tables', rec'.add) /\ i < next_file_number_'
    <3>1. CASE i \in rec.todo
      <4>1. Reads(TRUE) /\ i = n  BY <1>11, <2>4, <3>1
      <4> QED  BY <4>1
    <3>2. CASE i \notin rec.todo
      <4>1. logs[i].data \subseteq Held(tables, rec.add) /\ i < next_file_number_ /\ i \in Nat
        BY <1>2, <1>5, <2>4, <3>2 DEF LogsInv
      <4> QED  BY <1>5, <2>3, <4>1, SMT
    <3> QED  BY <3>1, <3>2
  <2>5. ASSUME rec'.left # {}, NEW i \in OldestLog'
        PROVE  logs[i].data \subseteq rec'.left \cup Held(tables', rec'.add)
    <3>1. Reads(FALSE) /\ rec'.todo = rec.todo  BY <1>11, <2>5
    <3>2. i \in rec.todo /\ i <= n /\ n <= i  BY <1>7, <3>1 DEF OldestLog
    <3>3. i = n  BY <1>6, <1>7, <3>2, SMT
    <3> QED  BY <3>1, <3>3
  <2>6. M.next < next_file_number_'
    <3>1. M.next < next_file_number_  BY <1>2 DEF LogsInv
    <3> QED  BY <1>4, <1>5, <2>3, <3>1, SMT
  <2>7. IsQuiet'  BY <1>1, <1>2 DEF LogsInv, IsQuiet
  <2>8. rec'.todo \subseteq DOMAIN logs  BY <1>2, <2>3 DEF LogsInv
  <2>9. LogsInv'
    BY <1>1, <1>2, <2>2, <2>3, <2>4, <2>5, <2>6, <2>7, <2>8 DEF LogsInv
  <2> QED  BY <1>1, <2>2, <2>9 DEF IInv, Starting, Switching, Running, Up
<1>12. CASE /\ left = {} /\ rec' = LogIsRead(rec, n, TRUE) /\ tables' = tables
            /\ next_file_number_' = MarkFileNumberUsed(t, n)
  <2>1. /\ rec'.todo = rec.todo \ {n} /\ rec'.left = {} /\ rec'.ok /\ rec'.add = rec.add
        /\ rec'.max = rec.max
    BY <1>5, <1>12 DEF LogIsRead, Locals
  <2>2. /\ next_file_number_' \in Nat /\ next_file_number_ <= next_file_number_' /\ n < next_file_number_'
    BY <1>5, <1>8, <1>12, SMT DEF MarkFileNumberUsed
  <2>3. Complete(tables', rec'.add, next_file_number_')
    <3>1. Complete(tables, rec.add, next_file_number_)  BY <1>2 DEF LogsInv
    <3>2. \A i \in rec.add : i \in DOMAIN tables  BY <3>1 DEF Complete
    <3>3. Complete(tables, rec.add, next_file_number_')  BY <1>5, <1>6, <2>2, <3>1, <3>2, CompleteStays
    <3> QED  BY <1>12, <2>1, <3>3
  <2>4. \A x \in Held(tables', rec'.add) : x <= rec'.max  BY <1>2, <1>12, <2>1 DEF LogsInv
  <2>5. Reads(TRUE)  BY <1>9, <1>12, <2>1, <2>2, <2>3, <2>4
  <2> QED  BY <1>11, <2>5
<1>13. ASSUME NEW k \in left, NEW chunk, chunk = {x \in left : x <= k},
              tables' = Put(tables, t, chunk),
              rec'.add = rec.add \cup {t}, rec'.max = IF k > rec.max THEN k ELSE rec.max,
              next_file_number_' \in Nat, t < next_file_number_'
       PROVE  /\ Complete(tables', rec'.add, next_file_number_')
              /\ Held(tables', rec'.add) = Held(tables, rec.add) \cup chunk
              /\ \A x \in Held(tables', rec'.add) : x <= rec'.max
              /\ \A i \in DOMAIN tables : i # t => i \in DOMAIN tables' /\ tables'[i] = tables[i]
  <2>1. /\ DOMAIN tables' = DOMAIN tables \cup {t} /\ tables'[t] = chunk
        /\ \A i \in DOMAIN tables : i # t => tables'[i] = tables[i]
    BY <1>13 DEF Put
  <2>2. Complete(tables, rec.add, t) /\ \A x \in Held(tables, rec.add) : x <= rec.max
    BY <1>2 DEF LogsInv
  <2>3. /\ k \in Nat /\ chunk \subseteq Writes /\ k \in chunk /\ \A x \in chunk : x \in Nat /\ x <= k
    <3>1. \A x \in left : x \in Nat  BY <1>8, BoundsAssumption, SMT DEF Writes
    <3> QED  BY <1>8, <1>13, <3>1, SMT
  <2>4. \A i \in rec.add : i \in DOMAIN tables /\ i # t /\ tables'[i] = tables[i]
    BY <1>10, <2>1, <2>2 DEF Complete
  <2>5. Complete(tables', rec'.add, next_file_number_')
    <3>1. \A i \in Nat : i < t => i < next_file_number_'  BY <1>5, <1>13, SMT
    <3>2. rec.add \subseteq Nat  BY <1>6
    <3> QED  BY <1>13, <2>1, <2>2, <2>3, <2>4, <3>1, <3>2 DEF Complete
  <2>6. Held(tables', rec.add) = Held(tables, rec.add)  BY <2>4, SameHeld
  <2>7. Held(tables', {t}) = chunk  BY <2>1, <2>3 DEF Held
  <2>8. Held(tables', rec'.add) = Held(tables, rec.add) \cup chunk
    <3>1. Held(tables', rec.add \cup {t}) = Held(tables', rec.add) \cup Held(tables', {t})  BY HeldUnion, SMT
    <3> QED  BY <1>13, <2>6, <2>7, <3>1
  <2>9. \A x \in Held(tables, rec.add) : x \in Nat  BY BoundsAssumption, SMT DEF Held, Writes
  <2>10. \A x \in Held(tables', rec'.add) : x <= rec'.max
    <3>1. rec'.max \in Nat /\ k <= rec'.max /\ rec.max <= rec'.max  BY <1>6, <1>13, <2>3, SMT
    <3>2. \A x \in chunk : x <= rec'.max  BY <2>3, <3>1, SMT
    <3>3. \A x \in Held(tables, rec.add) : x <= rec'.max  BY <1>6, <2>2, <2>9, <3>1, SMT
    <3> QED  BY <2>8, <3>2, <3>3
  <2> QED  BY <2>1, <2>5, <2>8, <2>10
<1>14. ASSUME NEW k \in left, NEW chunk, chunk = {x \in left : x <= k},
              tables' = Put(tables, t, chunk), left = chunk,
              rec' = LogIsRead([rec EXCEPT !.max = IF k > @ THEN k ELSE @, !.left = left \ chunk,
                                           !.add = @ \cup {t}], n, TRUE),
              next_file_number_' = MarkFileNumberUsed(t + 1, n)
       PROVE  Reads(TRUE)
  <2>1. /\ rec'.todo = rec.todo \ {n} /\ rec'.left = {} /\ rec'.ok /\ rec'.add = rec.add \cup {t}
        /\ rec'.max = IF k > rec.max THEN k ELSE rec.max
    BY <1>5, <1>14 DEF LogIsRead, Locals
  <2>2. /\ next_file_number_' \in Nat /\ t < next_file_number_' /\ n < next_file_number_'
        /\ next_file_number_ <= next_file_number_'
    BY <1>5, <1>8, <1>14, SMT DEF MarkFileNumberUsed
  <2>3. /\ Complete(tables', rec'.add, next_file_number_')
        /\ Held(tables', rec'.add) = Held(tables, rec.add) \cup chunk
        /\ \A x \in Held(tables', rec'.add) : x <= rec'.max
        /\ \A i \in DOMAIN tables : i # t => i \in DOMAIN tables' /\ tables'[i] = tables[i]
    BY <1>13, <1>14, <2>1, <2>2
  <2> QED  BY <1>9, <1>14, <2>1, <2>2, <2>3
<1>15. ASSUME NEW k \in left, NEW chunk, chunk = {x \in left : x <= k},
              tables' = Put(tables, t, chunk),
              rec' = [rec EXCEPT !.max = IF k > @ THEN k ELSE @, !.left = left \ chunk, !.add = @ \cup {t}],
              next_file_number_' = t + 1
       PROVE  Reads(FALSE)
  <2>1. /\ rec'.todo = rec.todo /\ rec'.left = left \ chunk /\ rec'.ok /\ rec'.add = rec.add \cup {t}
        /\ rec'.max = IF k > rec.max THEN k ELSE rec.max
    BY <1>2, <1>5, <1>15 DEF Locals, LogsInv
  <2>2. next_file_number_' \in Nat /\ t < next_file_number_' /\ next_file_number_ <= next_file_number_'
    BY <1>5, <1>15, SMT
  <2>3. /\ Complete(tables', rec'.add, next_file_number_')
        /\ Held(tables', rec'.add) = Held(tables, rec.add) \cup chunk
        /\ \A x \in Held(tables', rec'.add) : x <= rec'.max
        /\ \A i \in DOMAIN tables : i # t => i \in DOMAIN tables' /\ tables'[i] = tables[i]
    BY <1>13, <1>15, <2>1, <2>2
  <2>4. logs[n].data \subseteq rec'.left \cup Held(tables', rec'.add)
    BY <1>9, <2>1, <2>3
  <2> QED  BY <2>1, <2>2, <2>3, <2>4
<1> QED
  <2>1. ~Fails("recover") /\ ~Fails("open")  BY DEF Fails, Survivable
  <2>2. CASE left = {}
    BY <1>0, <1>12, <2>1, <2>2 DEF RecoverTable, left
  <2>3. CASE left # {}
    <3>1. PICK k \in left :
            LET chunk == {x \in left : x <= k}
                r == [rec EXCEPT !.max = IF k > @ THEN k ELSE @]
                built == [r EXCEPT !.left = left \ chunk, !.add = @ \cup {t}]
            IN /\ tables' = Put(tables, t, chunk)
               /\ IF left = chunk
                  THEN /\ rec' = LogIsRead(built, n, TRUE)
                       /\ next_file_number_' = MarkFileNumberUsed(t + 1, n)
                  ELSE rec' = built /\ next_file_number_' = t + 1
      BY <1>0, <2>1, <2>3 DEF RecoverTable, left
    <3> DEFINE chunk == {x \in left : x <= k}
    <3>2. [[rec EXCEPT !.max = IF k > @ THEN k ELSE @] EXCEPT !.left = left \ chunk, !.add = @ \cup {t}]
          = [rec EXCEPT !.max = IF k > @ THEN k ELSE @, !.left = left \ chunk, !.add = @ \cup {t}]
      BY <1>5 DEF Locals
    <3>3. CASE left = chunk
      <4>1. Reads(TRUE)  BY <1>14, <3>1, <3>2, <3>3
      <4> QED  BY <1>11, <4>1
    <3>4. CASE left # chunk
      <4>1. Reads(FALSE)  BY <1>15, <3>1, <3>2, <3>4
      <4> QED  BY <1>11, <4>1
    <3> QED  BY <3>3, <3>4
  <2> QED  BY <2>2, <2>3

\* Recover() ends: the tables it knows hold all that the logs do.
LEMMA OpenLogSteps ==
  ASSUME IInv, TypeOK', OpenLog
  PROVE  IInv'
<1>1. pc = "logs" /\ rec.todo = {} /\ UNCHANGED <<tables, manifests, current, tmp, acked, safe>>
  BY DEF OpenLog, OpenFailed, promises
<1>2. LogsInv /\ DiskInv /\ TypeOK  BY <1>1 DEF IInv
<1>3. /\ current # 0 /\ current \in DOMAIN manifests /\ Sound(tables, current, M)
      /\ S.ok => Sound(tables, current, S)
      /\ acked \subseteq Held(tables, M.files) \cup Logged(logs, M.log)
  BY <1>2 DEF LogsInv, DiskInv
<1>4. /\ M.next \in Nat /\ M.log \in Nat /\ M.last \in Nat /\ M.files \subseteq Nat /\ current \in Nat
      /\ next_file_number_ \in Nat /\ rec.add \subseteq Nat /\ rec.max \in Nat /\ DOMAIN logs \subseteq Nat
      /\ last_sequence_ \in Nat
  <2>1. M.next \in Nat /\ M.log \in Nat /\ M.last \in Nat /\ M.files \subseteq Nat
    BY <1>2, <1>3, ManifestTypes DEF TypeOK
  <2>2. rec \in Locals  BY <1>2 DEF TypeOK, ProcessTypes
  <2>3. rec.add \subseteq Nat /\ rec.max \in Nat  BY <2>2 DEF Locals
  <2> QED  BY <1>2, <2>1, <2>3 DEF TypeOK, ProcessTypes, DiskTypes
<1>5. \A n \in DOMAIN logs : n < next_file_number_
  <2>1. \A n \in DOMAIN logs : n >= M.log => n < next_file_number_  BY <1>1, <1>2 DEF LogsInv
  <2>2. M.log < M.next /\ M.next < next_file_number_  BY <1>2, <1>3 DEF Sound, LogsInv
  <2> QED  BY <1>4, <2>1, <2>2, SMT
<1>6. Kept(M.files) /\ (S.ok => Kept(S.files))  BY <1>1, <1>3 DEF Kept, Sound, Complete
<1>7. CASE Blank
  <2>1. UNCHANGED logs
    <3>1. pc' = "down"  BY <1>7 DEF Blank
    <3> QED  BY <3>1 DEF OpenLog
  <2>2. DiskInv'  BY <1>1, <1>2, <1>3, <1>6, <2>1, DiskStays
  <2> QED  BY <1>7, <2>2, BackDown
<1>8. CASE ~Blank
  <2> DEFINE n == next_file_number_
             last == RecoveredSequence
  <2>1. /\ logs' = Put(logs, n, [data |-> {}, synced |-> {}])
        /\ logfile_number_' = n /\ next_file_number_' = n + 1 /\ last_sequence_' = last
        /\ edit' = [add |-> rec.add, del |-> {}, log |-> n, next |-> n + 1, last |-> last]
        /\ pc' = "append" /\ who' = "open"
        /\ UNCHANGED <<version, manifest_file_number_, log_number_, imm_, jobs, client, promises, crashes>>
    BY <1>8 DEF OpenLog, OpenFailed
  <2>2. /\ edit'.add = rec.add /\ edit'.del = {} /\ edit'.log = n /\ edit'.next = n + 1 /\ edit'.last = last
    BY <2>1
  <2>3. /\ DOMAIN logs' = DOMAIN logs \cup {n} /\ logs'[n] = [data |-> {}, synced |-> {}]
        /\ \A i \in DOMAIN logs : logs'[i] = logs[i]
    <3>1. n \notin DOMAIN logs  BY <1>4, <1>5, SMT
    <3> QED  BY <2>1, <3>1 DEF Put
  <2>4. DiskInv' /\ M' = M  BY <1>1, <1>2, <1>3, <1>6, <2>3, DiskStays
  <2>5. IsQuiet'  BY <1>2, <2>1 DEF LogsInv, IsQuiet, jobs, client
  <2>6. /\ version = M.files /\ manifest_file_number_ = M.next /\ M.next < n /\ last_sequence_ = M.last
        /\ Complete(tables, rec.add, n) /\ \A x \in Held(tables, rec.add) : x <= rec.max
        /\ current < M.next
    BY <1>2, <1>3 DEF LogsInv, Sound
  <2>7. last \in Nat /\ rec.max <= last /\ M.last <= last
    BY <1>4, <2>6, SMT DEF RecoveredSequence
  <2>8. Complete(tables, version \cup rec.add, n + 1)
    <3>1. \A i \in version : i \in DOMAIN tables /\ tables[i] # {} /\ i < M.next
      BY <1>3, <2>6 DEF Sound, Complete
    <3>2. \A i \in version : i < n + 1  BY <1>4, <2>6, <3>1, SMT
    <3>3. \A i \in rec.add : i \in DOMAIN tables /\ tables[i] # {} /\ i < n + 1
      BY <1>4, <2>6, SMT DEF Complete
    <3> QED  BY <3>1, <3>2, <3>3 DEF Complete
  <2>9. \A x \in Held(tables, version \cup rec.add) : x <= last
    <3>1. Held(tables, version \cup rec.add) = Held(tables, version) \cup Held(tables, rec.add)
      BY HeldUnion, SMT
    <3>2. \A x \in Held(tables, version) \cup Held(tables, rec.add) : x \in Nat
      BY BoundsAssumption, SMT DEF Held, Writes
    <3>3. \A x \in Held(tables, version) : x <= M.last  BY <1>3, <2>6 DEF Sound
    <3> QED  BY <1>4, <2>6, <2>7, <3>1, <3>2, <3>3, SMT
  <2>10. acked \subseteq Held(tables, version \cup rec.add)
    <3>1. Held(tables, version \cup rec.add) = Held(tables, version) \cup Held(tables, rec.add)
      BY HeldUnion, SMT
    <3>2. Logged(logs, M.log) \subseteq Held(tables, rec.add)
      BY <1>1, <1>2 DEF LogsInv, Logged
    <3> QED  BY <1>3, <2>6, <3>1, <3>2
  <2>11. /\ \A i \in DOMAIN logs' : i <= n
         /\ n < n + 1 /\ manifest_file_number_ < n + 1 /\ manifest_file_number_ # 0
         /\ manifest_file_number_ # current /\ M.next <= n + 1
    BY <1>4, <1>5, <2>3, <2>6, SMT
  <2>12. NewInv'
    BY <1>1, <2>1, <2>2, <2>3, <2>5, <2>8, <2>9, <2>10, <2>11 DEF NewInv, NewFiles, promises
  <2>13. StepInv'
    BY <1>1, <1>3, <2>1, <2>4, <2>11 DEF StepInv
  <2> QED  BY <2>1, <2>4, <2>12, <2>13 DEF IInv, SwitchInv, Starting, Switching, Running, Up
<1> QED  BY <1>7, <1>8

\* Only other MANIFESTs than the current one are touched.
LEMMA DiskUntouched ==
  ASSUME DiskInv, UNCHANGED <<logs, tables, current, acked, safe>>,
         current # 0 => current \in DOMAIN manifests' /\ manifests'[current] = manifests[current]
  PROVE  DiskInv' /\ (current # 0 => M' = M /\ S' = S)
<1>1. current # 0 => Kept(M.files) /\ (S.ok => Kept(S.files))
  BY DEF DiskInv, Sound, Complete, Kept
<1> QED  BY <1>1, DiskStays

LEMMA NewStays ==
  ASSUME NewInv, UNCHANGED <<edit, version, logs, tables, acked, imm_, next_file_number_, last_sequence_>>,
         UNCHANGED <<manifest_file_number_, logfile_number_, jobs, client>>
  PROVE  NewInv' /\ NewState' = NewState
<1>1. NewFiles' = NewFiles /\ NewState' = NewState  BY DEF NewFiles, NewState
<1>2. IsQuiet'  BY DEF NewInv, IsQuiet, jobs, client
<1> QED  BY <1>1, <1>2 DEF NewInv

\* LogAndApply() writes the new MANIFEST.
LEMMA AppendNewSteps ==
  ASSUME IInv, TypeOK', AppendEdit, Survivable, Switching
  PROVE  IInv'
<1>1. pc = "append" /\ who = "open" /\ UNCHANGED <<logs, tables, current, tmp, acked, safe>>
  BY DEF AppendEdit, Switching, LogAndApplyFailed, OpenFailed, promises
<1>2. NewInv /\ StepInv /\ DiskInv /\ TypeOK  BY <1>1 DEF IInv, SwitchInv
<1>3. current # 0 /\ current \in DOMAIN manifests /\ manifest_file_number_ # current
  BY <1>1, <1>2 DEF StepInv, DiskInv
<1>4. CASE Blank
  <2>1. manifests' = Drop(manifests, {manifest_file_number_})
    <3>1. pc' = "down"  BY <1>4 DEF Blank
    <3> QED  BY <1>1, <3>1 DEF AppendEdit
  <2>2. current \in DOMAIN manifests' /\ manifests'[current] = manifests[current]
    BY <1>3, <2>1 DEF Drop, Restrict
  <2>3. DiskInv'  BY <1>1, <1>2, <2>2, DiskUntouched
  <2> QED  BY <1>4, <2>3, BackDown
<1>5. CASE ~Blank
  <2> DEFINE m == [written |-> Snapshot(version), synced |-> NoState]
  <2>1. /\ manifests' = Put(manifests, manifest_file_number_, [m EXCEPT !.written = Apply(@, edit)])
        /\ pc' = "sync"
        /\ UNCHANGED <<who, edit, version, numbers, imm_, rec, jobs, client, promises, crashes>>
    BY <1>1, <1>5 DEF AppendEdit, LogAndApplyFailed, OpenFailed, Survivable
  <2>2. NewInv' /\ NewState' = NewState
    BY <1>1, <1>2, <2>1, NewStays DEF numbers
  <2>3. edit.del = {}  BY <1>2 DEF NewInv
  <2>4. [m EXCEPT !.written = Apply(@, edit)].written = NewState
    BY <2>3 DEF NewState, NewFiles, Apply, Snapshot, NoState
  <2>5. /\ manifest_file_number_ \in DOMAIN manifests'
        /\ manifests'[manifest_file_number_].written = NewState
        /\ current \in DOMAIN manifests' /\ manifests'[current] = manifests[current]
    <3> HIDE DEF m
    <3> QED  BY <1>3, <2>1, <2>4 DEF Put
  <2>6. DiskInv' /\ M' = M  BY <1>1, <1>2, <1>3, <2>5, DiskUntouched
  <2>7. StepInv'
    BY <1>1, <1>2, <2>1, <2>2, <2>5, <2>6 DEF StepInv, numbers
  <2> QED  BY <1>1, <2>1, <2>2, <2>6, <2>7 DEF IInv, SwitchInv, Starting, Switching, Running, Up
<1> QED  BY <1>4, <1>5

LEMMA SyncNewSteps ==
  ASSUME IInv, TypeOK', SyncEdit, Survivable, Switching
  PROVE  IInv'
<1>1. pc = "sync" /\ who = "open" /\ UNCHANGED <<logs, tables, current, tmp, acked, safe>>
  BY DEF SyncEdit, Switching, LogAndApplyFailed, OpenFailed, promises
<1>2. NewInv /\ StepInv /\ DiskInv /\ TypeOK  BY <1>1 DEF IInv, SwitchInv
<1>3. /\ current # 0 /\ current \in DOMAIN manifests /\ manifest_file_number_ # current
      /\ manifest_file_number_ \in DOMAIN manifests
      /\ manifests[manifest_file_number_].written = NewState
  BY <1>1, <1>2 DEF StepInv, DiskInv
<1>4. CASE Blank
  <2>1. manifests' = Drop(manifests, {manifest_file_number_})
    <3>1. pc' = "down"  BY <1>4 DEF Blank
    <3> QED  BY <1>1, <3>1 DEF SyncEdit
  <2>2. current \in DOMAIN manifests' /\ manifests'[current] = manifests[current]
    BY <1>3, <2>1 DEF Drop, Restrict
  <2>3. DiskInv'  BY <1>1, <1>2, <2>2, DiskUntouched
  <2> QED  BY <1>4, <2>3, BackDown
<1>5. CASE ~Blank
  <2>1. /\ manifests' = [manifests EXCEPT ![manifest_file_number_].synced =
                           manifests[manifest_file_number_].written]
        /\ pc' = "tmp"
        /\ UNCHANGED <<who, edit, version, numbers, imm_, rec, jobs, client, promises, crashes>>
    BY <1>1, <1>5 DEF SyncEdit, LogAndApplyFailed, OpenFailed, Survivable
  <2>2. NewInv' /\ NewState' = NewState
    BY <1>1, <1>2, <2>1, NewStays DEF numbers
  <2>3. manifests[manifest_file_number_] \in Manifest  BY <1>2, <1>3 DEF TypeOK, DiskTypes
  <2>4. /\ manifest_file_number_ \in DOMAIN manifests'
        /\ manifests'[manifest_file_number_].written = NewState
        /\ manifests'[manifest_file_number_].synced = NewState
        /\ current \in DOMAIN manifests' /\ manifests'[current] = manifests[current]
    BY <1>3, <2>1, <2>3 DEF Manifest
  <2>5. DiskInv' /\ M' = M  BY <1>1, <1>2, <1>3, <2>4, DiskUntouched
  <2>6. StepInv'
    BY <1>1, <1>2, <2>1, <2>2, <2>4, <2>5 DEF StepInv, numbers
  <2> QED  BY <1>1, <2>1, <2>2, <2>5, <2>6 DEF IInv, SwitchInv, Starting, Switching, Running, Up
<1> QED  BY <1>4, <1>5

\* SetCurrentFile(), for a new database or for a new MANIFEST
LEMMA WriteTmpSteps ==
  ASSUME IInv, TypeOK', WriteTmp
  PROVE  IInv'
<1>1. pc = "tmp" /\ UNCHANGED <<logs, tables, current, acked, safe>>
  BY DEF WriteTmp, CurrentNotSet, OpenFailed, promises
<1>2. TypeOK /\ DiskInv /\ ((who = "newdb" /\ StartInv) \/ (who = "open" /\ NewInv /\ StepInv))
  BY <1>1 DEF IInv, Starting, Switching, Running, Up, SwitchInv
<1>3. \/ who = "newdb" /\ current = 0
      \/ who = "open" /\ current # 0 /\ current \in DOMAIN manifests /\ manifest_file_number_ # current
  BY <1>1, <1>2 DEF StartInv, StepInv, DiskInv
<1>4. CASE Blank
  <2>1. manifests' = IF who = "newdb" THEN manifests ELSE Drop(manifests, {Named})
    <3>1. pc' = "down"  BY <1>4 DEF Blank
    <3> QED  BY <3>1 DEF WriteTmp, CurrentNotSet
  <2>2. current # 0 => current \in DOMAIN manifests' /\ manifests'[current] = manifests[current]
    BY <1>3, <2>1 DEF Named, Drop, Restrict
  <2>3. DiskInv'  BY <1>1, <1>2, <2>2, DiskUntouched
  <2> QED  BY <1>4, <2>3, BackDown
<1>5. CASE ~Blank
  <2>1. /\ tmp' = Named /\ pc' = "rename"
        /\ UNCHANGED <<manifests, who, edit, version, numbers, imm_, rec, jobs, client, promises, crashes>>
    BY <1>5 DEF WriteTmp, CurrentNotSet, OpenFailed
  <2>2. current # 0 => current \in DOMAIN manifests' /\ manifests'[current] = manifests[current]
    BY <1>3, <2>1
  <2>3. DiskInv' /\ (current # 0 => M' = M)  BY <1>1, <1>2, <2>2, DiskUntouched
  <2>4. CASE who = "newdb"
    <3>1. IsBlank'  BY <1>2, <2>1, <2>4 DEF StartInv, IsBlank, IsQuiet, numbers, jobs, client
    <3>2. StartInv'  BY <1>1, <1>2, <2>1, <2>4, <3>1 DEF StartInv, Named
    <3> QED  BY <2>1, <2>3, <2>4, <3>2 DEF IInv, Starting, Switching, Running, Up
  <2>5. CASE who = "open"
    <3>1. NewInv' /\ NewState' = NewState
      BY <1>1, <1>2, <2>1, <2>5, NewStays DEF numbers
    <3>2. StepInv'
      BY <1>1, <1>2, <1>3, <2>1, <2>3, <2>5, <3>1 DEF StepInv, Named, numbers
    <3> QED  BY <2>1, <2>3, <2>5, <3>1, <3>2 DEF IInv, SwitchInv, Starting, Switching, Running, Up
  <2> QED  BY <1>2, <2>4, <2>5
<1> QED  BY <1>4, <1>5

\* The MANIFEST of a new database promises nothing.
LEMMA NewDatabase ==
  ASSUME TypeOK, acked' = {}, safe' \subseteq acked', current' = 1, 1 \in DOMAIN manifests',
         manifests'[1] = [written |-> Apply(Snapshot({}), [NoEdit EXCEPT !.next = 2]), synced |-> NoState]
  PROVE  DiskInv'
<1>1. /\ M' = Apply(Snapshot({}), [NoEdit EXCEPT !.next = 2]) /\ S' = NoState
  BY SMT DEF M, S
<1>2. /\ M'.ok /\ M'.files = {} /\ M'.log = 0 /\ M'.next = 2 /\ M'.last = 0 /\ ~S'.ok
  BY <1>1 DEF Apply, Snapshot, NoState, NoEdit
<1>3. Held(tables', M'.files) = {} /\ Complete(tables', M'.files, 2)  BY <1>2 DEF Held, Complete
<1>4. Sound(tables', 1, M')  BY <1>2, <1>3, SMT DEF Sound
<1> QED  BY <1>2, <1>4 DEF DiskInv

LEMMA RenameSteps ==
  ASSUME IInv, TypeOK', RenameFile, Survivable
  PROVE  IInv'
<1>1. pc = "rename" /\ UNCHANGED <<logs, tables, acked, safe>> /\ ~Fails("rename")
  BY DEF RenameFile, CurrentNotSet, CurrentIsSet, OpenFailed, promises, Fails, Survivable
<1>2. TypeOK /\ DiskInv /\ ((who = "newdb" /\ StartInv) \/ (who = "open" /\ NewInv /\ StepInv))
  BY <1>1 DEF IInv, Starting, Switching, Running, Up, SwitchInv
<1>3. CASE who = "newdb"
  <2>1. /\ current = 0 /\ tmp = 1 /\ acked = {} /\ 1 \in DOMAIN manifests
        /\ manifests[1] = [written |-> Apply(Snapshot({}), [NoEdit EXCEPT !.next = 2]), synced |-> NoState]
    BY <1>1, <1>2, <1>3 DEF StartInv, DiskInv
  <2>2. /\ current' = 1 /\ pc' = "recover" /\ manifests' = manifests /\ who' = who
        /\ UNCHANGED <<version, numbers, imm_, jobs, client, promises>>
    BY <1>1, <1>3, <2>1 DEF RenameFile, CurrentIsSet
  <2>3. safe' \subseteq acked' /\ acked' = {}  BY <1>1, <1>2, <2>1 DEF TypeOK, ProcessTypes
  <2>4. DiskInv'  BY <1>2, <2>1, <2>2, <2>3, NewDatabase
  <2>5. IsBlank'  BY <1>2, <1>3, <2>2 DEF StartInv, IsBlank, IsQuiet, numbers, jobs, client
  <2>6. StartInv'  BY <2>2, <2>5, SMT DEF StartInv
  <2> QED  BY <2>2, <2>4, <2>6 DEF IInv, Starting, Switching, Running, Up
<1>4. CASE who = "open"
  <2>1. /\ current # 0 /\ current \in DOMAIN manifests /\ manifest_file_number_ # current
    BY <1>1, <1>2, <1>4 DEF StepInv, DiskInv
  <2>2. CASE Blank
    <3>1. manifests' = Drop(manifests, {Named}) /\ current' = current
      <4>1. pc' = "down"  BY <2>2 DEF Blank
      <4> QED  BY <1>1, <1>4, <2>1, <4>1 DEF RenameFile, CurrentNotSet, CurrentIsSet
    <3>2. current \in DOMAIN manifests' /\ manifests'[current] = manifests[current]
      BY <1>4, <2>1, <3>1 DEF Named, Drop, Restrict
    <3>3. DiskInv'  BY <1>1, <1>2, <3>1, <3>2, DiskUntouched
    <3> QED  BY <2>2, <3>3, BackDown
  <2>3. CASE ~Blank
    <3>1. /\ current' = 0 /\ pc' = "move"
          /\ UNCHANGED <<tmp, manifests, who, edit, version, numbers, imm_, rec, jobs, client, promises, crashes>>
      BY <1>1, <2>1, <2>3 DEF RenameFile, CurrentNotSet, OpenFailed
    <3>2. NewInv' /\ NewState' = NewState
      BY <1>1, <1>2, <1>4, <3>1, NewStays DEF numbers
    <3>3. StepInv'
      BY <1>1, <1>2, <1>4, <3>1, <3>2 DEF StepInv, numbers
    <3> QED  BY <1>4, <3>1, <3>2, <3>3 DEF IInv, SwitchInv, Starting, Switching, Running, Up
  <2> QED  BY <2>2, <2>3
<1> QED  BY <1>2, <1>3, <1>4

\* The new MANIFEST makes sense.
LEMMA NewStateSound ==
  ASSUME TypeOK, NewInv
  PROVE  Sound(tables, manifest_file_number_, NewState)
<1>1. /\ NewState.ok /\ NewState.files = NewFiles /\ NewState.log = edit.log /\ NewState.next = edit.next
      /\ NewState.last = edit.last
  BY DEF NewState
<1>2. /\ edit.log < edit.next /\ manifest_file_number_ < edit.next
      /\ Complete(tables, NewFiles, edit.next) /\ \A x \in Held(tables, NewFiles) : x <= edit.last
  BY DEF NewInv
<1> QED  BY <1>1, <1>2 DEF Sound

LEMMA MoveSteps ==
  ASSUME IInv, TypeOK', MoveAgain, Survivable
  PROVE  IInv'
<1>1. pc = "move" /\ UNCHANGED <<logs, tables, acked, safe>> /\ ~Fails("move")
  BY DEF MoveAgain, CurrentNotSet, CurrentIsSet, OpenFailed, promises, Fails, Survivable
<1>2. TypeOK /\ who = "open" /\ NewInv /\ StepInv
  BY <1>1 DEF IInv, Starting, Switching, Running, Up, SwitchInv
<1>3. /\ current' = manifest_file_number_ /\ pc' = "install" /\ manifests' = manifests
      /\ UNCHANGED <<who, edit, version, numbers, imm_, rec, jobs, client, promises, crashes>>
  BY <1>1, <1>2 DEF MoveAgain, CurrentIsSet, StepInv
<1>4. NewInv' /\ NewState' = NewState
  BY <1>1, <1>2, <1>3, NewStays DEF numbers
<1>5. /\ manifest_file_number_ \in DOMAIN manifests
      /\ manifests[manifest_file_number_].written = NewState
      /\ manifests[manifest_file_number_].synced = NewState
  BY <1>1, <1>2 DEF StepInv
<1>6. M' = NewState /\ S' = NewState  BY <1>3, <1>5 DEF M, S
<1>7. StepInv'
  BY <1>3, <1>4, <1>5 DEF StepInv, numbers
<1>8. DiskInv'
  <2>1. Sound(tables, manifest_file_number_, NewState)  BY <1>2, NewStateSound
  <2>2. acked \subseteq Held(tables, NewState.files) /\ safe \subseteq acked
    BY <1>2 DEF NewInv, NewState, TypeOK, ProcessTypes
  <2>3. NewState.next <= NewState.next
    <3>1. edit.next \in Nat  BY <1>2, NumberTypes DEF TypeOK
    <3> QED  BY <3>1, SMT DEF NewState
  <2>4. manifest_file_number_ # 0 /\ NewState.ok  BY <1>2 DEF NewInv, NewState
  <2> QED  BY <1>1, <1>3, <1>5, <1>6, <2>1, <2>2, <2>3, <2>4 DEF DiskInv
<1> QED  BY <1>2, <1>3, <1>4, <1>7, <1>8 DEF IInv, SwitchInv, Starting, Switching, Running, Up

\* The new Version is current, and the old logs are not needed any more.
LEMMA InstallNewSteps ==
  ASSUME IInv, TypeOK', Install, Switching
  PROVE  IInv'
<1>1. pc = "install" /\ who = "open"  BY DEF Install, Switching
<1>2. TypeOK /\ NewInv /\ StepInv  BY <1>1 DEF IInv, Switching, SwitchInv
<1>3. /\ IsQuiet /\ edit.del = {} /\ edit.log = logfile_number_ /\ edit.next = next_file_number_
      /\ edit.last = last_sequence_
  BY <1>2 DEF NewInv
<1>4. /\ UNCHANGED <<logs, tables, manifests, current, who, mem_, pinned, acked, safe, w>>
      /\ UNCHANGED <<next_file_number_, manifest_file_number_, logfile_number_, last_sequence_, bg_error_>>
      /\ version' = NewFiles /\ log_number_' = logfile_number_
      /\ imm_' = {} /\ mem_ = {} /\ pinned = {} /\ w = 0
      /\ pending_outputs_' = {} /\ compact' = 0 /\ inputs' = {} /\ pc' = "gc" /\ ~bg_error_
  BY <1>1, <1>3 DEF Install, Collects, disk, client, promises, IsQuiet, NewFiles
<1>5. /\ current = manifest_file_number_ /\ manifest_file_number_ \in DOMAIN manifests
      /\ manifests[manifest_file_number_].written = NewState
      /\ manifests[manifest_file_number_].synced = NewState
  BY <1>1, <1>2 DEF StepInv
<1>6. M' = NewState /\ S' = NewState  BY <1>4, <1>5 DEF M, S
<1>7. /\ NewState.files = NewFiles /\ NewState.log = logfile_number_ /\ NewState.next = next_file_number_
      /\ NewState.last = last_sequence_
  BY <1>3 DEF NewState
<1>8. /\ next_file_number_ \in Nat /\ last_sequence_ \in Nat /\ logfile_number_ \in Nat
      /\ DOMAIN logs \subseteq Nat
  BY <1>2, NumberTypes DEF TypeOK, DiskTypes
<1>9. /\ logfile_number_ \in DOMAIN logs /\ logs[logfile_number_].data = {}
      /\ \A n \in DOMAIN logs : n <= logfile_number_
      /\ logfile_number_ < next_file_number_ /\ manifest_file_number_ < next_file_number_
      /\ manifest_file_number_ # 0 /\ Complete(tables, NewFiles, next_file_number_)
      /\ acked \subseteq Held(tables, NewFiles)
  BY <1>2, SMT DEF NewInv
<1>10. ManifestInv'
  <2>1. Sound(tables, manifest_file_number_, NewState)  BY <1>2, NewStateSound
  <2> QED  BY <1>4, <1>5, <1>6, <1>7, <1>8, <1>9, <2>1, SMT DEF ManifestInv
<1>11. CoverInv'
  <2>1. Covers(M)'  BY <1>4, <1>6, <1>7, <1>8, SMT DEF Covers
  <2> QED  BY <1>6, <2>1 DEF CoverInv, Covers
<1>12. LogInv'
  <2>1. \A n \in DOMAIN logs : n < next_file_number_  BY <1>8, <1>9, SMT
  <2> QED  BY <1>4, <1>8, <1>9, <2>1 DEF LogInv
<1>13. SequenceInv'
  <2>1. \A n \in DOMAIN logs : n >= logfile_number_ => logs[n].data = {}  BY <1>8, <1>9, SMT
  <2> QED  BY <1>4, <2>1 DEF SequenceInv
<1>14. AckInv' /\ TableInv'  BY <1>4, <1>9 DEF AckInv, TableInv
<1>15. CompactInv' /\ BuildInv' /\ EditInv' /\ QuietInv'
  BY <1>4 DEF CompactInv, BuildInv, EditInv, QuietInv
<1>16. CollectInv'  BY <1>4, <1>6, <1>7 DEF CollectInv
<1>17. RunInv'  BY <1>10, <1>11, <1>12, <1>13, <1>14, <1>15, <1>16 DEF RunInv
<1> QED  BY <1>1, <1>4, <1>17 DEF IInv, Starting, Switching, Running, Up

-----------------------------------------------------------------------------
(* Crashes *)

LEMMA DiskBeforeCrash ==
  ASSUME IInv, pc # "move"
  PROVE  DiskInv
<1>1. CASE Running  BY <1>1, RunningDisk DEF IInv
<1>2. CASE ~Running  BY <1>2 DEF IInv
<1> QED  BY <1>1, <1>2

LEMMA ProcessCrashSteps ==
  ASSUME IInv, TypeOK', ProcessCrash, Survivable
  PROVE  IInv'
<1>1. pc # "move" /\ Blank /\ UNCHANGED <<logs, tables, manifests, current, acked, safe>>
  BY DEF ProcessCrash, MayCrash, Survivable, promises
<1>2. DiskInv  BY <1>1, DiskBeforeCrash
<1>3. current # 0 => current \in DOMAIN manifests  BY <1>2 DEF DiskInv
<1>4. DiskInv'  BY <1>1, <1>2, <1>3, DiskUntouched
<1> QED  BY <1>1, <1>4, BackDown

\* A table is whole or is not named; of a log and a MANIFEST at least what was
\* synced is left.
LEMMA MachineCrashSteps ==
  ASSUME IInv, TypeOK', MachineCrash, Survivable
  PROVE  IInv'
<1>1. /\ pc # "move" /\ Blank /\ UNCHANGED <<tables, current, safe>> /\ acked' = safe
      /\ current \in DOMAIN manifests => S.ok
  BY DEF MachineCrash, MayCrash, Survivable, S
<1>2. DiskInv /\ TypeOK  BY <1>1, DiskBeforeCrash DEF IInv
<1>3. /\ DOMAIN logs' = DOMAIN logs
      /\ \A n \in DOMAIN logs : logs[n].synced \subseteq logs'[n].data /\ logs'[n].synced = logs'[n].data
  <2>1. PICK lost \in [DOMAIN logs -> SUBSET (1..MaxWrites)] :
          /\ \A n \in DOMAIN logs : lost[n] \subseteq logs[n].data \ logs[n].synced
          /\ logs' = [n \in DOMAIN logs |-> [data |-> logs[n].data \ lost[n], synced |-> logs[n].data \ lost[n]]]
    BY DEF MachineCrash
  <2>2. \A n \in DOMAIN logs : logs[n].synced \subseteq logs[n].data  BY <1>2 DEF TypeOK, DiskTypes
  <2> QED  BY <2>1, <2>2
<1>4. current \in DOMAIN manifests =>
        current \in DOMAIN manifests' /\ M' \in {M, S} /\ S' = M'
  <2>1. PICK kept \in SUBSET DOMAIN manifests :
          manifests' = [n \in DOMAIN manifests |->
                          LET m == IF n \in kept THEN manifests[n].written ELSE manifests[n].synced
                          IN [written |-> m, synced |-> m]]
    BY DEF MachineCrash, Survivable
  <2> QED  BY <1>1, <2>1 DEF M, S
<1>5. \A k : Synced(logs, k) \subseteq Synced(logs', k) /\ Synced(logs, k) \subseteq Logged(logs', k)
  BY <1>3 DEF Synced, Logged
<1>6. current = 0 => acked' = {}
  <2>1. safe \subseteq acked  BY <1>2 DEF TypeOK, ProcessTypes
  <2> QED  BY <1>1, <1>2, <2>1 DEF DiskInv
<1>7. ASSUME current # 0  PROVE
        /\ current \in DOMAIN manifests' /\ M' \in {M, S} /\ S' = M' /\ M'.next \in Nat
        /\ Sound(tables, current, M')
        /\ safe \subseteq Held(tables, M'.files) \cup Synced(logs, M'.log)
  <2>1. current \in DOMAIN manifests /\ S.ok /\ Sound(tables, current, M) /\ Sound(tables, current, S)
        /\ safe \subseteq Held(tables, M.files) \cup Synced(logs, M.log)
        /\ safe \subseteq Held(tables, S.files) \cup Synced(logs, S.log)
    BY <1>1, <1>2, <1>7 DEF DiskInv
  <2>2. DiskTypes /\ current \in DOMAIN manifests  BY <1>2, <2>1 DEF TypeOK
  <2>3. M.next \in Nat /\ S.next \in Nat  BY <2>2, ManifestTypes
  <2> QED  BY <1>4, <2>1, <2>3
<1>8. DiskInv'
  <2>1. CASE current = 0  BY <1>1, <1>6, <2>1 DEF DiskInv
  <2>2. CASE current # 0
    <3>1. /\ safe \subseteq Held(tables, M'.files) \cup Synced(logs', M'.log)
          /\ safe \subseteq Held(tables, M'.files) \cup Logged(logs', M'.log)
      BY <1>5, <1>7, <2>2
    <3>2. M'.ok /\ S'.next <= M'.next  BY <1>7, <2>2, SMT DEF Sound
    <3> QED  BY <1>1, <1>7, <2>2, <3>1, <3>2 DEF DiskInv
  <2> QED  BY <2>1, <2>2
<1> QED  BY <1>1, <1>8, BackDown

-----------------------------------------------------------------------------
(* Types *)

LEMMA PutTypes ==
  ASSUME DiskTypes, NEW n \in Nat
  PROVE  /\ \A l \in LogFile : l.synced \subseteq l.data /\ logs' = Put(logs, n, l) =>
              /\ DOMAIN logs' \subseteq Nat
              /\ \A i \in DOMAIN logs' : logs'[i] \in LogFile /\ logs'[i].synced \subseteq logs'[i].data
         /\ \A X \in SUBSET Writes : tables' = Put(tables, n, X) =>
              DOMAIN tables' \subseteq Nat /\ \A i \in DOMAIN tables' : tables'[i] \in SUBSET Writes
         /\ \A m \in Manifest : manifests' = Put(manifests, n, m) =>
              DOMAIN manifests' \subseteq Nat /\ \A i \in DOMAIN manifests' : manifests'[i] \in Manifest
<1>1. /\ DOMAIN logs \subseteq Nat
      /\ \A i \in DOMAIN logs : logs[i] \in LogFile /\ logs[i].synced \subseteq logs[i].data
  BY DEF DiskTypes
<1>2. DOMAIN tables \subseteq Nat /\ \A i \in DOMAIN tables : tables[i] \in SUBSET Writes
  BY DEF DiskTypes
<1>3. DOMAIN manifests \subseteq Nat /\ \A i \in DOMAIN manifests : manifests[i] \in Manifest
  BY DEF DiskTypes
<1>4. ASSUME NEW l \in LogFile, l.synced \subseteq l.data, logs' = Put(logs, n, l)
      PROVE  /\ DOMAIN logs' \subseteq Nat
             /\ \A i \in DOMAIN logs' : logs'[i] \in LogFile /\ logs'[i].synced \subseteq logs'[i].data
  BY <1>1, <1>4 DEF Put
<1>5. ASSUME NEW X \in SUBSET Writes, tables' = Put(tables, n, X)
      PROVE  DOMAIN tables' \subseteq Nat /\ \A i \in DOMAIN tables' : tables'[i] \in SUBSET Writes
  BY <1>2, <1>5 DEF Put
<1>6. ASSUME NEW m \in Manifest, manifests' = Put(manifests, n, m)
      PROVE  DOMAIN manifests' \subseteq Nat /\ \A i \in DOMAIN manifests' : manifests'[i] \in Manifest
  BY <1>3, <1>6 DEF Put
<1> QED  BY <1>4, <1>5, <1>6

LEMMA DropTypes ==
  ASSUME DiskTypes, NEW n \in Nat
  PROVE  /\ logs' = Drop(logs, {n}) =>
              /\ DOMAIN logs' \subseteq Nat
              /\ \A i \in DOMAIN logs' : logs'[i] \in LogFile /\ logs'[i].synced \subseteq logs'[i].data
         /\ tables' = Drop(tables, {n}) =>
              DOMAIN tables' \subseteq Nat /\ \A i \in DOMAIN tables' : tables'[i] \in SUBSET Writes
         /\ manifests' = Drop(manifests, {n}) =>
              DOMAIN manifests' \subseteq Nat /\ \A i \in DOMAIN manifests' : manifests'[i] \in Manifest
  BY DEF DiskTypes, Drop, Restrict

LEMMA StartTypes ==
  /\ NoState \in State /\ NoEdit \in Edit /\ NoRec \in Locals
  /\ \A files \in SUBSET Nat : Snapshot(files) \in State
  BY DEF NoState, Snapshot, State, NoEdit, Edit, NoRec, Locals

LEMMA AppliedTypes ==
  ASSUME NEW m \in State, NEW e \in Edit
  PROVE  Apply(m, e) \in State
  BY DEF Apply, State, Edit

LEMMA BlankTypes ==
  ASSUME Blank, acked' \in SUBSET Writes, safe' \in SUBSET acked', crashes' \in Nat, faults' \in Nat
  PROVE  ProcessTypes'
<1>1. NoEdit \in Edit /\ NoRec \in Locals  BY StartTypes
<1>2. MaxWrites \in Nat  BY BoundsAssumption
<1>3. /\ pc' \in Places /\ who' \in Callers /\ edit' \in Edit /\ rec' \in Locals
      /\ bg_error_' \in BOOLEAN /\ w_sync' \in BOOLEAN
  BY <1>1 DEF Blank, Places, Callers
<1>6. w' \in 0..MaxWrites  BY <1>2, SMT DEF Blank
<1>4. /\ version' \in SUBSET Nat /\ mem_' \in SUBSET Writes /\ imm_' \in SUBSET Writes
      /\ inputs' \in SUBSET Nat /\ pending_outputs_' \in SUBSET Nat /\ pinned' \in SUBSET Nat
  BY DEF Blank
<1>5. /\ next_file_number_' \in Nat /\ manifest_file_number_' \in Nat /\ log_number_' \in Nat
      /\ logfile_number_' \in Nat /\ last_sequence_' \in Nat /\ out' \in Nat /\ compact' \in Nat
  BY DEF Blank
<1> QED  BY <1>3, <1>4, <1>5, <1>6 DEF ProcessTypes

\* The counters of faults and crashes only go down.
LEMMA CounterTypes ==
  ASSUME ProcessTypes
  PROVE  /\ Works => faults' \in Nat
         /\ \A k : Fails(k) => faults' \in Nat
         /\ \A k : MayCrash(k) => crashes' \in Nat
  BY SMT DEF ProcessTypes, Works, Fails, MayCrash

LEMMA OpenFailedTypes ==
  ASSUME ProcessTypes, OpenFailed, faults' \in Nat
  PROVE  ProcessTypes'
<1>1. acked' \in SUBSET Writes /\ safe' \in SUBSET acked' /\ crashes' \in Nat
  BY DEF ProcessTypes, OpenFailed, promises
<1> QED  BY <1>1, BlankTypes DEF OpenFailed

LEMMA OpenTypes ==
  ASSUME TypeOK, Open
  PROVE  TypeOK'
<1>1. DiskTypes'  BY DEF TypeOK, DiskTypes, Open, disk
<1>2. pc' \in Places  BY DEF Open, Places
<1>3. ProcessTypes'  BY <1>2 DEF TypeOK, ProcessTypes, Open, numbers, jobs, client, promises
<1> QED  BY <1>1, <1>3 DEF TypeOK

LEMMA NewDBTypes ==
  ASSUME TypeOK, NewDB
  PROVE  TypeOK'
<1>1. /\ 1 \in Nat /\ NoState \in State /\ Snapshot({}) \in State
      /\ [NoEdit EXCEPT !.next = 2] \in Edit
  BY StartTypes DEF Edit
<1>2. [written |-> Apply(Snapshot({}), [NoEdit EXCEPT !.next = 2]), synced |-> NoState] \in Manifest
  BY <1>1, AppliedTypes DEF Manifest
<1>3. DOMAIN manifests' \subseteq Nat /\ \A n \in DOMAIN manifests' : manifests'[n] \in Manifest
  BY <1>1, <1>2, PutTypes, DropTypes DEF NewDB, TypeOK
<1>4. DiskTypes'  BY <1>3 DEF TypeOK, DiskTypes, NewDB
<1>5. faults' \in Nat  BY CounterTypes DEF TypeOK, NewDB
<1>6. ASSUME OpenFailed  PROVE ProcessTypes'  BY <1>5, <1>6, OpenFailedTypes DEF TypeOK
<1>7. ASSUME ~OpenFailed  PROVE ProcessTypes'
  <2>1. /\ pc' = "tmp" /\ who' = "newdb"
        /\ UNCHANGED <<edit, version, numbers, imm_, rec, jobs, client, promises, crashes>>
    BY <1>7 DEF NewDB
  <2>2. pc' \in Places /\ who' \in Callers  BY <2>1 DEF Places, Callers
  <2> QED  BY <1>5, <2>1, <2>2 DEF TypeOK, ProcessTypes, numbers, jobs, client, promises
<1> QED  BY <1>4, <1>6, <1>7 DEF TypeOK

LEMMA RecoverTypes ==
  ASSUME TypeOK, RecoverVersion
  PROVE  TypeOK'
<1>1. DiskTypes'  BY DEF TypeOK, DiskTypes, RecoverVersion, disk
<1>2. DiskTypes /\ ProcessTypes /\ faults' \in Nat  BY DEF TypeOK, ProcessTypes, RecoverVersion
<1>3. ASSUME OpenFailed  PROVE ProcessTypes'  BY <1>2, <1>3, OpenFailedTypes
<1>4. ASSUME ~OpenFailed  PROVE ProcessTypes'
  <2> DEFINE m == Descriptor
  <2>1. /\ version' = m.files /\ log_number_' = m.log /\ last_sequence_' = m.last
        /\ manifest_file_number_' = m.next /\ next_file_number_' = m.next + 1
        /\ rec' = [NoRec EXCEPT !.todo = LogsToRecover(m)]
        /\ pc' = "logs" /\ m.ok
        /\ UNCHANGED <<who, edit, logfile_number_, imm_, jobs, client, promises, crashes>>
    BY <1>4 DEF RecoverVersion
  <2>2. current \in DOMAIN manifests => M \in State  BY <1>2, ManifestTypes
  <2>3. m \in State  BY <2>2, StartTypes DEF Descriptor, M
  <2>4. LogsToRecover(m) \in SUBSET Nat  BY <1>2 DEF LogsToRecover, DiskTypes
  <2>5. rec' \in Locals  BY <2>1, <2>4, StartTypes DEF Locals
  <2>6. /\ version' \in SUBSET Nat /\ log_number_' \in Nat /\ last_sequence_' \in Nat
        /\ manifest_file_number_' \in Nat /\ next_file_number_' \in Nat
    BY <2>1, <2>3, SMT DEF State
  <2>7. pc' \in Places  BY <2>1 DEF Places
  <2> HIDE DEF m
  <2> QED  BY <1>2, <2>1, <2>5, <2>6, <2>7 DEF ProcessTypes, jobs, client, promises
<1> QED  BY <1>1, <1>3, <1>4 DEF TypeOK

LEMMA RecoverLogTypes ==
  ASSUME IInv, RecoverLogFile, Survivable
  PROVE  TypeOK'
<1>0. PICK n \in OldestLog : RecoverTable(n)  BY DEF RecoverLogFile
<1> DEFINE left == IF rec.left = {} THEN logs[n].data ELSE rec.left
           t == next_file_number_
           One(k) == [rec EXCEPT !.max = IF k > @ THEN k ELSE @]
           Chunk(k) == {x \in left : x <= k}
           Built(k) == [One(k) EXCEPT !.left = left \ Chunk(k), !.add = @ \cup {t}]
<1>1. DiskTypes /\ ProcessTypes /\ LogsInv  BY DEF IInv, TypeOK, RecoverLogFile
<1>2. rec \in Locals /\ t \in Nat  BY <1>1 DEF ProcessTypes
<1>3. n \in rec.todo /\ n \in Nat  BY <1>0, <1>2 DEF OldestLog, Locals
<1>4. /\ UNCHANGED <<logs, manifests, current, tmp, pc, who, edit, version, manifest_file_number_,
                     log_number_, logfile_number_, last_sequence_, imm_, jobs, client, promises, crashes>>
  BY DEF RecoverLogFile
<1>5. \/ /\ left = {} /\ Works /\ rec' = LogIsRead(rec, n, TRUE)
         /\ next_file_number_' = MarkFileNumberUsed(t, n) /\ UNCHANGED tables
      \/ \E k \in left :
           \/ /\ Works /\ tables' = Put(tables, t, Chunk(k))
              /\ \/ /\ rec' = LogIsRead(Built(k), n, TRUE)
                    /\ next_file_number_' = MarkFileNumberUsed(t + 1, n)
                 \/ rec' = Built(k) /\ next_file_number_' = t + 1
           \/ /\ Fails("recover") /\ tables' = Drop(tables, {t})
              /\ rec' = LogIsRead(One(k), n, FALSE)
              /\ next_file_number_' = MarkFileNumberUsed(t + 1, n)
  <2>1. ~Fails("open")  BY DEF Fails, Survivable
  <2> QED  BY <1>0, <2>1 DEF RecoverTable
<1>6. left \subseteq Writes
  <2>1. n \in DOMAIN logs  BY <1>1, <1>3 DEF LogsInv
  <2>2. logs[n].data \subseteq Writes  BY <1>1, <2>1 DEF DiskTypes, LogFile
  <2> QED  BY <1>2, <2>2 DEF Locals
<1>7. \A k \in left : k \in Nat  BY <1>6, SMT DEF Writes
<1> HIDE DEF left
<1>8. \A k \in left : One(k) \in Locals  BY <1>2, <1>7 DEF Locals
<1>9. \A k \in left : Chunk(k) \in SUBSET Writes /\ left \ Chunk(k) \in SUBSET Writes  BY <1>6
<1> HIDE DEF One, Chunk
<1>10. \A k \in left : Built(k) \in Locals  BY <1>2, <1>8, <1>9 DEF Locals
<1> HIDE DEF Built
<1>11. \A r \in Locals, ok \in BOOLEAN : LogIsRead(r, n, ok) \in Locals  BY DEF LogIsRead, Locals
<1>12. MarkFileNumberUsed(t, n) \in Nat /\ MarkFileNumberUsed(t + 1, n) \in Nat /\ t + 1 \in Nat
  BY <1>2, <1>3, SMT DEF MarkFileNumberUsed
<1> HIDE DEF t
<1>13. rec' \in Locals  BY <1>2, <1>5, <1>8, <1>10, <1>11
<1>14. next_file_number_' \in Nat  BY <1>5, <1>12
<1>15. DOMAIN tables' \subseteq Nat /\ \A i \in DOMAIN tables' : tables'[i] \in SUBSET Writes
  <2>1. CASE UNCHANGED tables  BY <1>1, <2>1 DEF DiskTypes
  <2>2. ASSUME NEW k \in left, tables' = Put(tables, t, Chunk(k))
        PROVE  DOMAIN tables' \subseteq Nat /\ \A i \in DOMAIN tables' : tables'[i] \in SUBSET Writes
    BY <1>1, <1>2, <1>9, <2>2, PutTypes
  <2>3. CASE tables' = Drop(tables, {t})  BY <1>1, <1>2, <2>3, DropTypes
  <2> QED  BY <1>5, <2>1, <2>2, <2>3
<1>16. faults' \in Nat  BY <1>1, <1>5, CounterTypes
<1>17. DiskTypes'  BY <1>1, <1>4, <1>15 DEF DiskTypes
<1>18. ProcessTypes'
  BY <1>1, <1>4, <1>13, <1>14, <1>16 DEF ProcessTypes, jobs, client, promises
<1> QED  BY <1>17, <1>18 DEF TypeOK

LEMMA OpenLogTypes ==
  ASSUME TypeOK, OpenLog
  PROVE  TypeOK'
<1>1. DiskTypes /\ ProcessTypes  BY DEF TypeOK
<1> DEFINE n == next_file_number_
           last == RecoveredSequence
<1>2. n \in Nat /\ n + 1 \in Nat /\ rec \in Locals  BY <1>1, SMT DEF ProcessTypes
<1>3. last \in Nat  BY <1>1, <1>2 DEF RecoveredSequence, Locals, ProcessTypes
<1>4. faults' \in Nat  BY <1>1, CounterTypes DEF OpenLog
<1>5. UNCHANGED <<tables, manifests, current, tmp>>  BY DEF OpenLog
<1>6. CASE OpenFailed /\ UNCHANGED logs
  <2>1. ProcessTypes'  BY <1>1, <1>4, <1>6, OpenFailedTypes
  <2>2. DiskTypes'  BY <1>1, <1>5, <1>6 DEF DiskTypes
  <2> QED  BY <2>1, <2>2 DEF TypeOK
<1>7. CASE /\ logs' = Put(logs, n, [data |-> {}, synced |-> {}])
           /\ logfile_number_' = n /\ next_file_number_' = n + 1 /\ last_sequence_' = last
           /\ edit' = [add |-> rec.add, del |-> {}, log |-> n, next |-> n + 1, last |-> last]
           /\ pc' = "append" /\ who' = "open" /\ rec' = NoRec
           /\ UNCHANGED <<version, manifest_file_number_, log_number_, imm_, jobs, client, promises, crashes>>
  <2>1. [data |-> {}, synced |-> {}] \in LogFile  BY DEF LogFile
  <2>2. /\ DOMAIN logs' \subseteq Nat
        /\ \A i \in DOMAIN logs' : logs'[i] \in LogFile /\ logs'[i].synced \subseteq logs'[i].data
    BY <1>1, <1>2, <1>7, <2>1, PutTypes
  <2>3. DiskTypes'  BY <1>1, <1>5, <2>2 DEF DiskTypes
  <2>4. edit' \in Edit  BY <1>2, <1>3, <1>7 DEF Edit, Locals
  <2>5. rec' \in Locals /\ pc' \in Places /\ who' \in Callers  BY <1>7, StartTypes DEF Places, Callers
  <2>6. logfile_number_' \in Nat /\ next_file_number_' \in Nat /\ last_sequence_' \in Nat
    BY <1>2, <1>3, <1>7
  <2>7. ProcessTypes'
    BY <1>1, <1>4, <1>7, <2>4, <2>5, <2>6 DEF ProcessTypes, jobs, client, promises
  <2> QED  BY <2>3, <2>7 DEF TypeOK
<1> QED  BY <1>6, <1>7 DEF OpenLog

LEMMA FailedEditTypes ==
  ASSUME ProcessTypes, LogAndApplyFailed, faults' \in Nat
  PROVE  ProcessTypes'
<1>1. CASE OpenFailed  BY <1>1, OpenFailedTypes
<1>2. CASE ~OpenFailed
  <2>1. /\ bg_error_' = TRUE /\ edit' = NoEdit /\ out' = 0
        /\ UNCHANGED <<who, version, numbers, rec, client, promises, crashes>>
        /\ pc' \in {Resume, "idle"} /\ imm_' = imm_
        /\ inputs' \in {inputs, {}} /\ compact' \in {compact, 0}
        /\ pending_outputs_' \in {pending_outputs_, pending_outputs_ \ {compact}}
    BY <1>2 DEF LogAndApplyFailed, ImmAfter
  <2>2. pc' \in Places /\ edit' \in Edit /\ bg_error_' \in BOOLEAN
    BY <2>1, StartTypes DEF Resume, Places
  <2>3. /\ inputs' \in SUBSET Nat /\ compact' \in Nat /\ pending_outputs_' \in SUBSET Nat
        /\ out' \in Nat /\ imm_' \in SUBSET Writes
    BY <2>1, SMT DEF ProcessTypes
  <2> QED  BY <2>1, <2>2, <2>3 DEF ProcessTypes, numbers, client, promises
<1> QED  BY <1>1, <1>2

LEMMA AppendTypes ==
  ASSUME IInv, AppendEdit, Survivable
  PROVE  TypeOK'
<1> DEFINE n == manifest_file_number_
           m == IF who = "open" THEN [written |-> Snapshot(version), synced |-> NoState]
                                ELSE manifests[n]
           e == [m EXCEPT !.written = Apply(@, edit)]
<1>1. DiskTypes /\ ProcessTypes  BY DEF IInv, TypeOK
<1>2. UNCHANGED <<logs, tables, current, tmp>> /\ pc = "append"  BY DEF AppendEdit
<1>3. faults' \in Nat  BY <1>1, CounterTypes DEF AppendEdit
<1>4. n \in Nat /\ version \in SUBSET Nat /\ edit \in Edit  BY <1>1 DEF ProcessTypes
<1>5. m \in Manifest
  <2>1. CASE who = "open"
    <3>1. Snapshot(version) \in State  BY <1>4, StartTypes
    <3> QED  BY <2>1, <3>1, StartTypes DEF Manifest
  <2>2. CASE who # "open"
    <3>1. Running  BY <1>2, <2>2 DEF Running, Up
    <3>2. n \in DOMAIN manifests  BY <3>1 DEF IInv, RunInv, ManifestInv
    <3> QED  BY <1>1, <2>2, <3>2 DEF DiskTypes
  <2> QED  BY <2>1, <2>2
<1>6. \/ Works /\ manifests' = Put(manifests, n, e) /\ pc' = "sync"
         /\ UNCHANGED <<who, edit, version, numbers, imm_, rec, jobs, client, promises, crashes>>
      \/ manifests' \in {manifests, Drop(manifests, {n})} /\ LogAndApplyFailed
  BY DEF AppendEdit, Survivable
<1> HIDE DEF m
<1>7. e \in Manifest
  <2>1. m.written \in State  BY <1>5 DEF Manifest
  <2>2. Apply(m.written, edit) \in State  BY <1>4, <2>1, AppliedTypes
  <2> QED  BY <1>5, <2>2 DEF Manifest
<1> HIDE DEF e
<1>8. DOMAIN manifests' \subseteq Nat /\ \A i \in DOMAIN manifests' : manifests'[i] \in Manifest
  <2>1. CASE manifests' = Put(manifests, n, e)  BY <1>1, <1>4, <1>7, <2>1, PutTypes
  <2>2. CASE manifests' = manifests  BY <1>1, <2>2 DEF DiskTypes
  <2>3. CASE manifests' = Drop(manifests, {n})  BY <1>1, <1>4, <2>3, DropTypes
  <2> QED  BY <1>6, <2>1, <2>2, <2>3
<1>9. DiskTypes'  BY <1>1, <1>2, <1>8 DEF DiskTypes
<1>10. ProcessTypes'
  <2>1. CASE LogAndApplyFailed  BY <1>1, <1>3, <2>1, FailedEditTypes
  <2>2. CASE ~LogAndApplyFailed
    <3>1. pc' = "sync" /\ UNCHANGED <<who, edit, version, numbers, imm_, rec, jobs, client, promises, crashes>>
      BY <1>6, <2>2
    <3>2. pc' \in Places  BY <3>1 DEF Places
    <3> QED  BY <1>1, <1>3, <3>1, <3>2 DEF ProcessTypes, numbers, jobs, client, promises
  <2> QED  BY <2>1, <2>2
<1> QED  BY <1>9, <1>10 DEF TypeOK

LEMMA SyncTypes ==
  ASSUME TypeOK, SyncEdit, Survivable
  PROVE  TypeOK'
<1> DEFINE n == manifest_file_number_
<1>1. DiskTypes /\ ProcessTypes  BY DEF TypeOK
<1>2. UNCHANGED <<logs, tables, current, tmp>>  BY DEF SyncEdit
<1>3. faults' \in Nat  BY <1>1, CounterTypes DEF SyncEdit
<1>4. n \in Nat  BY <1>1 DEF ProcessTypes
<1>5. \/ /\ manifests' = [manifests EXCEPT ![n].synced = manifests[n].written]
         /\ pc' = IF who = "open" THEN "tmp" ELSE "install"
         /\ UNCHANGED <<who, edit, version, numbers, imm_, rec, jobs, client, promises, crashes>>
      \/ manifests' \in {manifests, Drop(manifests, {n})} /\ LogAndApplyFailed
  BY DEF SyncEdit, Survivable
<1>6. DOMAIN manifests' \subseteq Nat /\ \A i \in DOMAIN manifests' : manifests'[i] \in Manifest
  <2>1. CASE manifests' = [manifests EXCEPT ![n].synced = manifests[n].written]
    BY <1>1, <2>1 DEF DiskTypes, Manifest
  <2>2. CASE manifests' = manifests  BY <1>1, <2>2 DEF DiskTypes
  <2>3. CASE manifests' = Drop(manifests, {n})  BY <1>1, <1>4, <2>3, DropTypes
  <2> QED  BY <1>5, <2>1, <2>2, <2>3
<1>7. DiskTypes'  BY <1>1, <1>2, <1>6 DEF DiskTypes
<1>8. ProcessTypes'
  <2>1. CASE LogAndApplyFailed  BY <1>1, <1>3, <2>1, FailedEditTypes
  <2>2. CASE ~LogAndApplyFailed
    <3>1. /\ pc' \in {"tmp", "install"}
          /\ UNCHANGED <<who, edit, version, numbers, imm_, rec, jobs, client, promises, crashes>>
      BY <1>5, <2>2
    <3>2. pc' \in Places  BY <3>1 DEF Places
    <3> QED  BY <1>1, <1>3, <3>1, <3>2 DEF ProcessTypes, numbers, jobs, client, promises
  <2> QED  BY <2>1, <2>2
<1> QED  BY <1>7, <1>8 DEF TypeOK

LEMMA SetCurrentTypes ==
  ASSUME TypeOK, WriteTmp \/ RenameFile \/ MoveAgain
  PROVE  TypeOK'
<1>1. DiskTypes /\ ProcessTypes  BY DEF TypeOK
<1>2. UNCHANGED <<logs, tables>>  BY DEF WriteTmp, RenameFile, MoveAgain
<1>3. Named \in Nat  BY <1>1 DEF Named, ProcessTypes
<1>4. faults' \in Nat
  <2>1. Works \/ \E k : Fails(k)  BY DEF WriteTmp, RenameFile, MoveAgain
  <2> QED  BY <1>1, <2>1, CounterTypes
<1>5. tmp' \in {tmp, Named, 0} /\ current' \in {current, tmp, 0}
  BY DEF WriteTmp, RenameFile, MoveAgain, CurrentNotSet
<1>6. tmp' \in Nat /\ current' \in Nat  BY <1>1, <1>3, <1>5, SMT DEF DiskTypes
<1>7. \/ manifests' \in {manifests, Drop(manifests, {Named})} /\ OpenFailed
      \/ /\ UNCHANGED <<manifests, who, edit, version, numbers, imm_, rec, jobs, client, promises, crashes>>
         /\ pc' \in {"rename", "move", "recover", "install"}
  BY DEF WriteTmp, RenameFile, MoveAgain, CurrentNotSet, CurrentIsSet
<1>8. DOMAIN manifests' \subseteq Nat /\ \A i \in DOMAIN manifests' : manifests'[i] \in Manifest
  <2>1. CASE manifests' = manifests  BY <1>1, <2>1 DEF DiskTypes
  <2>2. CASE manifests' = Drop(manifests, {Named})  BY <1>1, <1>3, <2>2, DropTypes
  <2> QED  BY <1>7, <2>1, <2>2
<1>9. DiskTypes'  BY <1>1, <1>2, <1>6, <1>8 DEF DiskTypes
<1>10. ProcessTypes'
  <2>1. CASE OpenFailed  BY <1>1, <1>4, <2>1, OpenFailedTypes
  <2>2. CASE ~OpenFailed
    <3>1. /\ pc' \in {"rename", "move", "recover", "install"}
          /\ UNCHANGED <<who, edit, version, numbers, imm_, rec, jobs, client, promises, crashes>>
      BY <1>7, <2>2
    <3>2. pc' \in Places  BY <3>1 DEF Places
    <3> QED  BY <1>1, <1>4, <3>1, <3>2 DEF ProcessTypes, numbers, jobs, client, promises
  <2> QED  BY <2>1, <2>2
<1> QED  BY <1>9, <1>10 DEF TypeOK

LEMMA InstallTypes ==
  ASSUME TypeOK, Install
  PROVE  TypeOK'
<1>1. DiskTypes /\ ProcessTypes  BY DEF TypeOK
<1>2. /\ UNCHANGED <<disk, who, next_file_number_, manifest_file_number_, logfile_number_, last_sequence_,
                     rec, bg_error_, client, promises, crashes, faults>>
      /\ version' = (version \ edit.del) \cup edit.add /\ log_number_' = edit.log
      /\ imm_' \in {imm_, {}} /\ pending_outputs_' \in {pending_outputs_, pending_outputs_ \ {compact}}
      /\ compact' \in {compact, 0} /\ inputs' \in {inputs, {}} /\ out' = 0 /\ edit' = NoEdit
      /\ pc' \in {"gc", "work", "idle"}
  BY DEF Install, ImmAfter
<1>3. DiskTypes'  BY <1>1, <1>2 DEF DiskTypes, disk
<1>4. version' \in SUBSET Nat /\ log_number_' \in Nat  BY <1>1, <1>2 DEF ProcessTypes, Edit
<1>5. pc' \in Places /\ edit' \in Edit  BY <1>2, StartTypes DEF Places
<1>6. /\ inputs' \in SUBSET Nat /\ compact' \in Nat /\ pending_outputs_' \in SUBSET Nat
      /\ out' \in Nat /\ imm_' \in SUBSET Writes
  BY <1>1, <1>2, SMT DEF ProcessTypes
<1>7. ProcessTypes'  BY <1>1, <1>2, <1>4, <1>5, <1>6 DEF ProcessTypes, client, promises
<1> QED  BY <1>3, <1>7 DEF TypeOK

LEMMA DeleteTypes ==
  ASSUME TypeOK, DeleteObsoleteFile
  PROVE  TypeOK'
<1>1. DiskTypes /\ ProcessTypes  BY DEF TypeOK
<1>2. UNCHANGED <<current, pc, who, edit, version, numbers, imm_, rec, jobs, client, promises, crashes, faults>>
  BY DEF DeleteObsoleteFile
<1>3. ProcessTypes'  BY <1>1, <1>2 DEF ProcessTypes, numbers, jobs, client, promises
<1>4. CASE \E n \in ObsoleteLogs : logs' = Drop(logs, {n}) /\ UNCHANGED <<tables, manifests, tmp>>
  <2>1. PICK n \in ObsoleteLogs : logs' = Drop(logs, {n}) /\ UNCHANGED <<tables, manifests, tmp>>  BY <1>4
  <2>2. n \in Nat  BY <1>1 DEF ObsoleteLogs, DiskTypes
  <2>3. DiskTypes'  BY <1>1, <1>2, <2>1, <2>2, DropTypes DEF DiskTypes
  <2> QED  BY <1>3, <2>3 DEF TypeOK
<1>5. CASE \E n \in ObsoleteManifests : manifests' = Drop(manifests, {n}) /\ UNCHANGED <<logs, tables, tmp>>
  <2>1. PICK n \in ObsoleteManifests : manifests' = Drop(manifests, {n}) /\ UNCHANGED <<logs, tables, tmp>>
    BY <1>5
  <2>2. n \in Nat  BY <1>1 DEF ObsoleteManifests, DiskTypes
  <2>3. DiskTypes'  BY <1>1, <1>2, <2>1, <2>2, DropTypes DEF DiskTypes
  <2> QED  BY <1>3, <2>3 DEF TypeOK
<1>6. CASE \E n \in ObsoleteTables : tables' = Drop(tables, {n}) /\ UNCHANGED <<logs, manifests, tmp>>
  <2>1. PICK n \in ObsoleteTables : tables' = Drop(tables, {n}) /\ UNCHANGED <<logs, manifests, tmp>>
    BY <1>6
  <2>2. n \in Nat  BY <1>1 DEF ObsoleteTables, DiskTypes
  <2>3. DiskTypes'  BY <1>1, <1>2, <2>1, <2>2, DropTypes DEF DiskTypes
  <2> QED  BY <1>3, <2>3 DEF TypeOK
<1>7. CASE tmp' = 0 /\ UNCHANGED <<logs, tables, manifests>>
  <2>1. DiskTypes'  BY <1>1, <1>2, <1>7 DEF DiskTypes
  <2> QED  BY <1>3, <2>1 DEF TypeOK
<1> QED  BY <1>4, <1>5, <1>6, <1>7 DEF DeleteObsoleteFile

LEMMA DeletedTypes ==
  ASSUME IInv, ObsoleteFilesDeleted
  PROVE  TypeOK'
<1>1. DiskTypes /\ ProcessTypes  BY DEF IInv, TypeOK
<1>2. /\ UNCHANGED <<disk, who, edit, version, numbers, imm_, rec, jobs, client, crashes, faults>>
      /\ pc = "gc" /\ pc' = Resume
      /\ acked' \in {acked, acked \cup UNION {tables[n] : n \in version}} /\ safe' \in {safe, acked'}
      /\ safe' = safe => acked' = acked \/ safe' = acked'
  BY DEF ObsoleteFilesDeleted, promises
<1>3. DiskTypes'  BY <1>1, <1>2 DEF DiskTypes, disk
<1>4. UNION {tables[n] : n \in version} \subseteq Writes
  <2>1. Running  BY <1>2 DEF Running, Up
  <2>2. version \subseteq DOMAIN tables  BY <2>1 DEF IInv, RunInv, TableInv, Complete
  <2> QED  BY <1>1, <2>2 DEF DiskTypes
<1>5. acked' \in SUBSET Writes /\ safe' \in SUBSET acked'
  BY <1>1, <1>2, <1>4 DEF ProcessTypes
<1>6. pc' \in Places  BY <1>2 DEF Resume, Places
<1>7. ProcessTypes'  BY <1>1, <1>2, <1>5, <1>6 DEF ProcessTypes, numbers, jobs, client
<1> QED  BY <1>3, <1>7 DEF TypeOK

LEMMA BackgroundTypes ==
  ASSUME TypeOK, StartFlush \/ StartCompaction \/ TrivialMove
  PROVE  TypeOK'
<1>1. DiskTypes /\ ProcessTypes  BY DEF TypeOK
<1> DEFINE t == next_file_number_
<1>2. t \in Nat /\ t + 1 \in Nat  BY <1>1, SMT DEF ProcessTypes
<1>3. /\ UNCHANGED <<logs, manifests, current, tmp, version, manifest_file_number_, log_number_, logfile_number_,
                     last_sequence_, imm_, rec, bg_error_, client, promises, crashes, faults>>
      /\ tables' \in {tables, Put(tables, t, {})}
      /\ next_file_number_' \in {t, t + 1} /\ out' \in {out, t} /\ compact' \in {compact, t}
      /\ pending_outputs_' \in {pending_outputs_, pending_outputs_ \cup {t}}
      /\ inputs' = inputs \/ inputs' \in SUBSET version
      /\ pc' \in {"build", "work", "append"} /\ who' \in {who, "move"}
  BY DEF StartFlush, StartCompaction, TrivialMove, disk, numbers, jobs
<1>4. DOMAIN tables' \subseteq Nat /\ \A i \in DOMAIN tables' : tables'[i] \in SUBSET Writes
  <2>1. CASE tables' = tables  BY <1>1, <2>1 DEF DiskTypes
  <2>2. CASE tables' = Put(tables, t, {})  BY <1>1, <1>2, <2>2, PutTypes, SMT
  <2> QED  BY <1>3, <2>1, <2>2
<1>5. DiskTypes'  BY <1>1, <1>3, <1>4 DEF DiskTypes
<1>6. edit' \in Edit
  <2>1. CASE edit' = edit  BY <1>1, <2>1 DEF ProcessTypes
  <2>2. CASE TrivialMove
    <3>1. PICK n \in version : edit' = [add |-> {n}, del |-> {n}, log |-> log_number_,
                                        next |-> next_file_number_, last |-> last_sequence_]
      BY <2>2 DEF TrivialMove
    <3>2. n \in Nat /\ log_number_ \in Nat /\ last_sequence_ \in Nat  BY <1>1 DEF ProcessTypes
    <3> QED  BY <1>2, <3>1, <3>2 DEF Edit
  <2> QED  BY <2>1, <2>2 DEF StartFlush, StartCompaction
<1>7. pc' \in Places /\ who' \in Callers  BY <1>1, <1>3 DEF Places, Callers, ProcessTypes
<1>8. next_file_number_' \in Nat /\ out' \in Nat /\ compact' \in Nat  BY <1>1, <1>2, <1>3 DEF ProcessTypes
<1>9. pending_outputs_' \in SUBSET Nat /\ inputs' \in SUBSET Nat  BY <1>1, <1>2, <1>3 DEF ProcessTypes
<1>10. ProcessTypes'
  BY <1>1, <1>3, <1>6, <1>7, <1>8, <1>9 DEF ProcessTypes, client, promises
<1> QED  BY <1>5, <1>10 DEF TypeOK

LEMMA BuildTypes ==
  ASSUME IInv, BuildTable \/ CompactionWork
  PROVE  TypeOK'
<1>1. DiskTypes /\ ProcessTypes /\ RunInv  BY DEF IInv, TypeOK, Running, Up, BuildTable, CompactionWork
<1>2. /\ UNCHANGED <<logs, manifests, current, tmp, version, numbers, imm_, rec, client, promises, crashes>>
      /\ pc' \in {Resume, "idle", "append"} /\ who' \in {who, "flush", "compact"}
      /\ out' \in {out, 0} /\ compact' \in {compact, 0} /\ inputs' \in {inputs, {}}
      /\ bg_error_' \in {bg_error_, TRUE}
      /\ pending_outputs_' \in {pending_outputs_, pending_outputs_ \ {out}, pending_outputs_ \ {compact}}
  BY DEF BuildTable, CompactionWork
<1>3. /\ out \in Nat /\ compact \in Nat /\ imm_ \in SUBSET Writes /\ log_number_ \in Nat /\ inputs \in SUBSET Nat
      /\ logfile_number_ \in Nat /\ next_file_number_ \in Nat /\ last_sequence_ \in Nat
  BY <1>1 DEF ProcessTypes
<1>4. UNION {tables[n] : n \in inputs} \in SUBSET Writes
  <2>1. inputs \subseteq version /\ version \subseteq DOMAIN tables
    BY <1>1 DEF RunInv, CompactInv, TableInv, Complete
  <2> QED  BY <1>1, <2>1 DEF DiskTypes
<1>5. \/ UNCHANGED tables
      \/ tables' = Drop(tables, {out})
      \/ tables' = [tables EXCEPT ![out] = imm_]
      \/ tables' = [tables EXCEPT ![compact] = UNION {tables[n] : n \in inputs}]
  BY DEF BuildTable, CompactionWork
<1>6. DOMAIN tables' \subseteq Nat /\ \A i \in DOMAIN tables' : tables'[i] \in SUBSET Writes
  <2>1. CASE UNCHANGED tables  BY <1>1, <2>1 DEF DiskTypes
  <2>2. CASE tables' = Drop(tables, {out})  BY <1>1, <1>3, <2>2, DropTypes
  <2>3. CASE tables' = [tables EXCEPT ![out] = imm_]  BY <1>1, <1>3, <2>3 DEF DiskTypes
  <2>4. CASE tables' = [tables EXCEPT ![compact] = UNION {tables[n] : n \in inputs}]
    BY <1>1, <1>4, <2>4 DEF DiskTypes
  <2> QED  BY <1>5, <2>1, <2>2, <2>3, <2>4
<1>7. DiskTypes'  BY <1>1, <1>2, <1>6 DEF DiskTypes
<1>8. \/ UNCHANGED edit
      \/ edit' = [add |-> {out}, del |-> {}, log |-> logfile_number_, next |-> next_file_number_,
                  last |-> last_sequence_]
      \/ edit' = [add |-> {compact}, del |-> inputs, log |-> log_number_, next |-> next_file_number_,
                  last |-> last_sequence_]
  BY DEF BuildTable, CompactionWork
<1>9. edit' \in Edit
  <2>1. CASE UNCHANGED edit  BY <1>1, <2>1 DEF ProcessTypes
  <2>2. [add |-> {out}, del |-> {}, log |-> logfile_number_, next |-> next_file_number_,
         last |-> last_sequence_] \in Edit
    BY <1>3 DEF Edit
  <2>3. [add |-> {compact}, del |-> inputs, log |-> log_number_, next |-> next_file_number_,
         last |-> last_sequence_] \in Edit
    BY <1>3 DEF Edit
  <2> QED  BY <1>8, <2>1, <2>2, <2>3
<1>10. pc' \in Places /\ who' \in Callers /\ bg_error_' \in BOOLEAN
  BY <1>1, <1>2 DEF Places, Callers, ProcessTypes, Resume
<1>11. out' \in Nat /\ compact' \in Nat /\ inputs' \in SUBSET Nat /\ pending_outputs_' \in SUBSET Nat
  BY <1>1, <1>2, SMT DEF ProcessTypes
<1>12. faults' \in Nat  BY <1>1, CounterTypes DEF BuildTable, CompactionWork
<1>13. ProcessTypes'
  BY <1>1, <1>2, <1>9, <1>10, <1>11, <1>12 DEF ProcessTypes, numbers, client, promises
<1> QED  BY <1>7, <1>13 DEF TypeOK

LEMMA WriteTypes ==
  ASSUME TypeOK, AddRecord \/ FinishWrite
  PROVE  TypeOK'
<1>1. DiskTypes /\ ProcessTypes  BY DEF TypeOK
<1>2. MaxWrites \in Nat /\ last_sequence_ \in Nat /\ w \in 0..MaxWrites  BY <1>1, BoundsAssumption DEF ProcessTypes
<1>3. /\ UNCHANGED <<tables, manifests, current, tmp, pc, who, edit, version, next_file_number_,
                     manifest_file_number_, log_number_, logfile_number_, imm_, rec, out, inputs, compact,
                     pending_outputs_, pinned, crashes>>
      /\ w_sync' \in BOOLEAN
  BY DEF AddRecord, FinishWrite, numbers, jobs
<1>4. CASE AddRecord
  <2>1. /\ last_sequence_ < MaxWrites /\ w' = last_sequence_ + 1
        /\ logs' = [logs EXCEPT ![logfile_number_].data = @ \cup {w'}]
        /\ UNCHANGED <<mem_, last_sequence_, bg_error_, acked, safe, faults>>
    BY <1>4 DEF AddRecord, numbers, jobs, promises
  <2>2. w' \in 0..MaxWrites /\ w' \in Writes  BY <1>2, <2>1, SMT DEF Writes
  <2>3. /\ DOMAIN logs' \subseteq Nat
        /\ \A n \in DOMAIN logs' : logs'[n] \in LogFile /\ logs'[n].synced \subseteq logs'[n].data
    BY <1>1, <2>1, <2>2 DEF DiskTypes, LogFile
  <2>4. DiskTypes'  BY <1>1, <1>3, <2>3 DEF DiskTypes
  <2>5. ProcessTypes'  BY <1>1, <1>3, <2>1, <2>2 DEF ProcessTypes
  <2> QED  BY <2>4, <2>5 DEF TypeOK
<1>5. CASE FinishWrite
  <2>1. /\ w # 0 /\ last_sequence_' = w /\ w' = 0
        /\ logs' \in {logs, [logs EXCEPT ![logfile_number_].synced = logs[logfile_number_].data]}
        /\ mem_' \in {mem_, mem_ \cup {w}} /\ bg_error_' \in {bg_error_, TRUE}
        /\ \/ acked' = acked \cup {w} /\ safe' \in {safe, safe \cup {w}}
           \/ acked' = acked /\ safe' = safe
    BY <1>5 DEF FinishWrite, promises
  <2>2. w \in Writes /\ w \in Nat /\ w' \in 0..MaxWrites  BY <1>2, <2>1, SMT DEF Writes
  <2>3. /\ DOMAIN logs' \subseteq Nat
        /\ \A n \in DOMAIN logs' : logs'[n] \in LogFile /\ logs'[n].synced \subseteq logs'[n].data
    <3>1. CASE logs' = logs  BY <1>1, <3>1 DEF DiskTypes
    <3>2. CASE logs' = [logs EXCEPT ![logfile_number_].synced = logs[logfile_number_].data]
      BY <1>1, <3>2 DEF DiskTypes, LogFile
    <3> QED  BY <2>1, <3>1, <3>2
  <2>4. DiskTypes'  BY <1>1, <1>3, <2>3 DEF DiskTypes
  <2>5. mem_' \in SUBSET Writes /\ bg_error_' \in BOOLEAN  BY <1>1, <2>1, <2>2 DEF ProcessTypes
  <2>6. acked' \in SUBSET Writes /\ safe' \in SUBSET acked'  BY <1>1, <2>1, <2>2 DEF ProcessTypes
  <2>7. faults' \in Nat  BY <1>1, <1>5, CounterTypes DEF FinishWrite
  <2>8. ProcessTypes'  BY <1>1, <1>3, <2>1, <2>2, <2>5, <2>6, <2>7 DEF ProcessTypes
  <2> QED  BY <2>4, <2>8 DEF TypeOK
<1> QED  BY <1>4, <1>5

LEMMA SwitchTypes ==
  ASSUME TypeOK, SwitchMemTable \/ NewIterator \/ CleanupIterator
  PROVE  TypeOK'
<1>1. DiskTypes /\ ProcessTypes  BY DEF TypeOK
<1> DEFINE n == next_file_number_
<1>2. n \in Nat /\ n + 1 \in Nat  BY <1>1, SMT DEF ProcessTypes
<1>3. /\ UNCHANGED <<tables, manifests, current, tmp, pc, who, edit, version, manifest_file_number_,
                     log_number_, last_sequence_, rec, jobs, w, w_sync, promises, crashes, faults>>
      /\ logs' \in {logs, Put(logs, n, [data |-> {}, synced |-> {}])}
      /\ logfile_number_' \in {logfile_number_, n} /\ next_file_number_' \in {n, n + 1}
      /\ imm_' \in {imm_, mem_} /\ mem_' \in {mem_, {}} /\ pinned' \in {pinned, version, {}}
  BY DEF SwitchMemTable, NewIterator, CleanupIterator, disk, numbers
<1>4. /\ DOMAIN logs' \subseteq Nat
      /\ \A i \in DOMAIN logs' : logs'[i] \in LogFile /\ logs'[i].synced \subseteq logs'[i].data
  <2>1. [data |-> {}, synced |-> {}] \in LogFile  BY DEF LogFile
  <2>2. CASE logs' = logs  BY <1>1, <2>2 DEF DiskTypes
  <2>3. CASE logs' = Put(logs, n, [data |-> {}, synced |-> {}])  BY <1>1, <1>2, <2>1, <2>3, PutTypes
  <2> QED  BY <1>3, <2>2, <2>3
<1>5. DiskTypes'  BY <1>1, <1>3, <1>4 DEF DiskTypes
<1>6. /\ logfile_number_' \in Nat /\ next_file_number_' \in Nat /\ imm_' \in SUBSET Writes
      /\ mem_' \in SUBSET Writes /\ pinned' \in SUBSET Nat
  BY <1>1, <1>2, <1>3 DEF ProcessTypes
<1>7. ProcessTypes'  BY <1>1, <1>3, <1>6 DEF ProcessTypes, jobs, promises
<1> QED  BY <1>5, <1>7 DEF TypeOK

LEMMA CrashTypes ==
  ASSUME TypeOK, Crash, Survivable
  PROVE  TypeOK'
<1>1. DiskTypes /\ ProcessTypes  BY DEF TypeOK
<1>2. /\ UNCHANGED <<tables, current, tmp, safe, faults>> /\ Blank /\ acked' \in {acked, safe}
      /\ MayCrash("process") \/ MayCrash("machine")
  BY DEF Crash, ProcessCrash, MachineCrash, promises
<1>3. crashes' \in Nat  BY <1>1, <1>2, CounterTypes
<1>4. faults' \in Nat /\ acked' \in SUBSET Writes /\ safe' \in SUBSET acked'
  BY <1>1, <1>2 DEF ProcessTypes
<1>5. ProcessTypes'  BY <1>2, <1>3, <1>4, BlankTypes
<1>6. CASE ProcessCrash
  <2>1. UNCHANGED <<logs, manifests>>  BY <1>6 DEF ProcessCrash, Survivable
  <2>2. DiskTypes'  BY <1>1, <1>2, <2>1 DEF DiskTypes
  <2> QED  BY <1>5, <2>2 DEF TypeOK
<1>7. CASE MachineCrash
  <2>1. PICK lost \in [DOMAIN logs -> SUBSET (1..MaxWrites)] :
          logs' = [n \in DOMAIN logs |-> [data |-> logs[n].data \ lost[n], synced |-> logs[n].data \ lost[n]]]
    BY <1>7 DEF MachineCrash
  <2>2. /\ DOMAIN logs' \subseteq Nat
        /\ \A i \in DOMAIN logs' : logs'[i] \in LogFile /\ logs'[i].synced \subseteq logs'[i].data
    BY <1>1, <2>1 DEF DiskTypes, LogFile
  <2>3. PICK kept \in SUBSET DOMAIN manifests :
          manifests' = [n \in DOMAIN manifests |->
                          LET m == IF n \in kept THEN manifests[n].written ELSE manifests[n].synced
                          IN [written |-> m, synced |-> m]]
    BY <1>7 DEF MachineCrash, Survivable
  <2>4. DOMAIN manifests' \subseteq Nat /\ \A i \in DOMAIN manifests' : manifests'[i] \in Manifest
    BY <1>1, <2>3 DEF DiskTypes, Manifest
  <2>5. DiskTypes'  BY <1>1, <1>2, <2>2, <2>4 DEF DiskTypes
  <2> QED  BY <1>5, <2>5 DEF TypeOK
<1> QED  BY <1>6, <1>7 DEF Crash

LEMMA NextTypes ==
  ASSUME IInv, Next, Survivable
  PROVE  TypeOK'
<1>1. TypeOK  BY DEF IInv
<1>2. CASE Opening
  <2>1. CASE Open \/ NewDB \/ RecoverVersion \/ RecoverLogFile \/ OpenLog
    BY <1>1, <2>1, OpenTypes, NewDBTypes, RecoverTypes, RecoverLogTypes, OpenLogTypes
  <2>2. CASE AppendEdit \/ SyncEdit \/ WriteTmp \/ RenameFile \/ MoveAgain
    BY <1>1, <2>2, AppendTypes, SyncTypes, SetCurrentTypes
  <2>3. CASE Install \/ DeleteObsoleteFile \/ ObsoleteFilesDeleted
    BY <1>1, <2>3, InstallTypes, DeleteTypes, DeletedTypes
  <2> QED  BY <1>2, <2>1, <2>2, <2>3 DEF Opening
<1>3. CASE Background  BY <1>1, <1>3, BackgroundTypes, BuildTypes DEF Background
<1>4. CASE Client  BY <1>1, <1>4, WriteTypes, SwitchTypes DEF Client
<1>5. CASE Crash  BY <1>1, <1>5, CrashTypes
<1> QED  BY <1>2, <1>3, <1>4, <1>5 DEF Next

-----------------------------------------------------------------------------
(* Every step *)

\* An open database stays open but for a crash.
LEMMA StaysUp ==
  ASSUME TypeOK', RunInv', Running'
  PROVE  IInv'
  BY DEF IInv, Starting, Switching, Running, Up

LEMMA ClientSteps ==
  ASSUME IInv, TypeOK', Client
  PROVE  IInv'
<1>1. Up  BY DEF Client, AddRecord, FinishWrite, SwitchMemTable, NewIterator, CleanupIterator
<1>2. TypeOK /\ RunInv  BY <1>1 DEF IInv, Running
<1>3. UNCHANGED <<pc, who>>  BY DEF Client, AddRecord, FinishWrite, SwitchMemTable, NewIterator, CleanupIterator
<1>4. RunInv'
  BY <1>2, AddRecordRuns, FinishWriteRuns, SwitchMemTableRuns, IteratorRuns DEF Client
<1>5. Running'  BY <1>1, <1>3 DEF Running, Up
<1> QED  BY <1>4, <1>5, StaysUp

LEMMA BackgroundSteps ==
  ASSUME IInv, TypeOK', Background
  PROVE  IInv'
<1>1. pc \in {"idle", "build", "work"}
  BY DEF Background, StartFlush, BuildTable, StartCompaction, CompactionWork, TrivialMove
<1>2. TypeOK /\ RunInv  BY <1>1 DEF IInv, Running, Up
<1>3. RunInv'
  BY <1>2, StartFlushRuns, BuildTableRuns, StartCompactionRuns, CompactionWorkRuns, TrivialMoveRuns
  DEF Background
<1>4. \/ pc' \in {"idle", "build", "work"}
      \/ pc' = "append" /\ who' \in {"flush", "compact", "move"}
  BY DEF Background, StartFlush, BuildTable, StartCompaction, CompactionWork, TrivialMove, Resume
<1>5. Running'  BY <1>4 DEF Running, Up
<1> QED  BY <1>3, <1>5, StaysUp

\* LogAndApply() for a flush, a compaction or a move
LEMMA EditSteps ==
  ASSUME IInv, TypeOK', Survivable, AppendEdit \/ SyncEdit
  PROVE  IInv'
<1>1. pc \in {"append", "sync"}  BY DEF AppendEdit, SyncEdit
<1>2. CASE who = "open"
  <2>1. Switching  BY <1>1, <1>2 DEF Switching
  <2> QED  BY <2>1, AppendNewSteps, SyncNewSteps
<1>3. CASE who # "open"
  <2>1. Running  BY <1>1, <1>3 DEF Running, Up
  <2>2. TypeOK /\ RunInv  BY <2>1 DEF IInv
  <2>3. /\ who' = who
        /\ \/ AppendEdit /\ pc' = "sync"
           \/ SyncEdit /\ pc' = "install"
           \/ pc' \in {"idle", "work"}
    BY <1>3 DEF AppendEdit, SyncEdit, LogAndApplyFailed, Resume
  <2>4. RunInv'
    <3>1. CASE pc' \in {"idle", "work"}  BY <2>1, <2>2, <3>1, FailedEditRuns
    <3>2. CASE AppendEdit /\ pc' = "sync"  BY <2>1, <2>2, <3>2, AppendEditRuns
    <3>3. CASE SyncEdit /\ pc' = "install"  BY <2>1, <2>2, <3>3, SyncEditRuns
    <3> QED  BY <2>3, <3>1, <3>2, <3>3
  <2>5. Running'  BY <1>3, <2>3 DEF Running, Up
  <2> QED  BY <2>4, <2>5, StaysUp
<1> QED  BY <1>2, <1>3

LEMMA InstallSteps ==
  ASSUME IInv, TypeOK', Install
  PROVE  IInv'
<1>1. pc = "install" /\ who' = who  BY DEF Install
<1>2. CASE who = "open"
  <2>1. Switching  BY <1>1, <1>2 DEF Switching
  <2> QED  BY <2>1, InstallNewSteps
<1>3. CASE who # "open"
  <2>1. Running  BY <1>1, <1>3 DEF Running, Up
  <2>2. RunInv'  BY <2>1, InstallRuns DEF IInv
  <2>3. pc' \in {"gc", "work", "idle"}  BY DEF Install
  <2>4. Running'  BY <1>1, <1>3, <2>3 DEF Running, Up
  <2> QED  BY <2>2, <2>4, StaysUp
<1> QED  BY <1>2, <1>3

LEMMA CollectSteps ==
  ASSUME IInv, TypeOK', DeleteObsoleteFile \/ ObsoleteFilesDeleted
  PROVE  IInv'
<1>1. pc = "gc"  BY DEF DeleteObsoleteFile, ObsoleteFilesDeleted
<1>2. Running  BY <1>1 DEF Running, Up
<1>3. RunInv'  BY <1>2, DeleteRuns, DeletedRuns DEF IInv
<1>4. pc' \in {"idle", "work"} \/ (pc' = "gc" /\ who' = who)
  BY <1>1 DEF DeleteObsoleteFile, ObsoleteFilesDeleted, Resume
<1>5. Running'  BY <1>1, <1>4 DEF Running, Up
<1> QED  BY <1>3, <1>5, StaysUp

LEMMA StutterSteps ==
  ASSUME IInv, UNCHANGED vars
  PROVE  IInv'
<1>1. UNCHANGED <<logs, tables, manifests, current, tmp, pc, who, edit, version, rec, imm_>>
  BY DEF vars, disk
<1>2. UNCHANGED <<next_file_number_, manifest_file_number_, log_number_, logfile_number_, last_sequence_>>
  BY DEF vars, numbers
<1>3. UNCHANGED <<out, inputs, compact, pending_outputs_, bg_error_, mem_, w, w_sync, pinned>>
  BY DEF vars, jobs, client
<1>4. UNCHANGED <<acked, safe, crashes, faults>>
  BY DEF vars, promises
<1>5. DiskTypes' = DiskTypes  BY <1>1 DEF DiskTypes
<1>6. ProcessTypes' = ProcessTypes  BY <1>1, <1>2, <1>3, <1>4 DEF ProcessTypes
<1>7. M' = M /\ S' = S  BY <1>1 DEF M, S
<1>8. DiskInv' = DiskInv  BY <1>1, <1>4, <1>7 DEF DiskInv, Sound, Complete, Held, Logged, Synced
<1>9. StartInv' = StartInv  BY <1>1, <1>2, <1>3 DEF StartInv, IsBlank, IsQuiet
<1>10. LogsInv' = LogsInv  BY <1>1, <1>2, <1>3, <1>7 DEF LogsInv, OldestLog, IsQuiet, Complete, Held
<1>11. NewState' = NewState /\ NewFiles' = NewFiles  BY <1>1 DEF NewState, NewFiles
<1>12. NewInv' = NewInv  BY <1>1, <1>2, <1>3, <1>4, <1>11 DEF NewInv, IsQuiet, Complete, Held
<1>13. StepInv' = StepInv  BY <1>1, <1>2, <1>7, <1>11 DEF StepInv
<1>14. ManifestInv' = ManifestInv  BY <1>1, <1>2, <1>7 DEF ManifestInv, Sound, Complete, Held
<1>15. CoverInv' = CoverInv  BY <1>1, <1>2, <1>7 DEF CoverInv, Covers, Held
<1>16. LogInv' = LogInv /\ SequenceInv' = SequenceInv  BY <1>1, <1>2, <1>3, <1>4 DEF LogInv, SequenceInv
<1>17. AckInv' = AckInv /\ TableInv' = TableInv
  BY <1>1, <1>2, <1>3, <1>4 DEF AckInv, TableInv, Complete, Held
<1>18. CompactInv' = CompactInv /\ BuildInv' = BuildInv
  BY <1>1, <1>2, <1>3, <1>7 DEF CompactInv, BuildInv, Used
<1>19. EditInv' = EditInv  BY <1>1, <1>2, <1>3, <1>7 DEF EditInv, Complete, Held
<1>20. CollectInv' = CollectInv /\ QuietInv' = QuietInv  BY <1>1, <1>3, <1>7 DEF CollectInv, QuietInv
<1>21. RunInv' = RunInv  BY <1>14, <1>15, <1>16, <1>17, <1>18, <1>19, <1>20 DEF RunInv
<1>22. SwitchInv' = SwitchInv  BY <1>12, <1>13 DEF SwitchInv
<1>23. Starting' = Starting /\ Switching' = Switching /\ Running' = Running
  BY <1>1 DEF Starting, Switching, Running, Up
<1> QED  BY <1>1, <1>5, <1>6, <1>8, <1>9, <1>10, <1>21, <1>22, <1>23 DEF IInv, TypeOK

LEMMA InitInv ==
  ASSUME Init
  PROVE  IInv
<1>1. logs = <<>> /\ tables = <<>> /\ manifests = <<>> /\ current = 0 /\ tmp = 0 /\ acked = {} /\ pc = "down"
  BY DEF Init
<1>2. DOMAIN logs = {} /\ DOMAIN tables = {} /\ DOMAIN manifests = {}  BY <1>1, SMT
<1>3. DiskTypes  BY <1>1, <1>2 DEF DiskTypes
<1>4. {MaxWrites, MaxFile, MaxCrashes, MaxFaults} \subseteq Nat  BY BoundsAssumption
<1>5. /\ edit \in Edit /\ rec \in Locals /\ pc \in Places /\ who \in Callers
      /\ bg_error_ \in BOOLEAN /\ w_sync \in BOOLEAN
  BY StartTypes DEF Init, Places, Callers
<1>6. w \in 0..MaxWrites /\ crashes \in Nat /\ faults \in Nat  BY <1>4, SMT DEF Init
<1>7. ProcessTypes  BY <1>5, <1>6 DEF Init, ProcessTypes
<1>8. StartInv /\ DiskInv  BY <1>1 DEF Init, StartInv, IsBlank, IsQuiet, DiskInv
<1> QED  BY <1>1, <1>3, <1>7, <1>8 DEF IInv, TypeOK, Starting, Switching, Running, Up

LEMMA NextInv ==
  ASSUME IInv, Next, Survivable
  PROVE  IInv'
<1>1. TypeOK'  BY NextTypes
<1>2. CASE Opening
  <2>1. CASE Open \/ NewDB \/ RecoverVersion \/ RecoverLogFile \/ OpenLog
    BY <1>1, <2>1, OpenSteps, NewDBSteps, RecoverSteps, RecoverLogSteps, OpenLogSteps
  <2>2. CASE AppendEdit \/ SyncEdit  BY <1>1, <2>2, EditSteps
  <2>3. CASE WriteTmp \/ RenameFile \/ MoveAgain  BY <1>1, <2>3, WriteTmpSteps, RenameSteps, MoveSteps
  <2>4. CASE Install  BY <1>1, <2>4, InstallSteps
  <2>5. CASE DeleteObsoleteFile \/ ObsoleteFilesDeleted  BY <1>1, <2>5, CollectSteps
  <2> QED  BY <1>2, <2>1, <2>2, <2>3, <2>4, <2>5 DEF Opening
<1>3. CASE Background  BY <1>1, <1>3, BackgroundSteps
<1>4. CASE Client  BY <1>1, <1>4, ClientSteps
<1>5. CASE Crash  BY <1>1, <1>5, ProcessCrashSteps, MachineCrashSteps DEF Crash
<1> QED  BY <1>2, <1>3, <1>4, <1>5 DEF Next

\* With no crash inside the windows of the code, and with the I/O failures that it
\* reports, the files and the memory of a database agree in every state: what
\* DB::Open(), LogAndApply(), the flush, the compactions and DeleteObsoleteFiles()
\* leave on disk is enough for the next DB::Open().
THEOREM DurableInvariance ==
  Survivable => (Spec => []IInv)
<1> SUFFICES ASSUME Survivable  PROVE Spec => []IInv  OBVIOUS
<1>1. Init => IInv  BY InitInv
<1>2. IInv /\ [Next]_vars => IInv'  BY NextInv, StutterSteps
<1> QED  BY <1>1, <1>2, PTL DEF Spec

\* What Open() finds, when what CURRENT names makes sense
LEMMA Recovered ==
  ASSUME current \in DOMAIN manifests, Sound(tables, current, M)
  PROVE  \A x : x \in Recoverable <=> \/ \E n \in M.files : x \in tables[n]
                                    \/ \E n \in DOMAIN logs : n >= M.log /\ x \in logs[n].data
<1>1. Descriptor = M  BY DEF Descriptor, M
<1>2. M.ok /\ M.files \subseteq DOMAIN tables  BY DEF Sound, Complete
<1> DEFINE T == UNION {tables[n] : n \in M.files}
           L == UNION {logs[n].data : n \in {i \in DOMAIN logs : i >= M.log}}
<1>3. Recoverable = T \cup L  BY <1>1, <1>2 DEF Recoverable
<1>4. \A x : x \in T <=> \E n \in M.files : x \in tables[n]  OBVIOUS
<1>5. \A x : x \in L <=> \E n \in DOMAIN logs : n >= M.log /\ x \in logs[n].data  OBVIOUS
<1> HIDE DEF T, L
<1> QED  BY <1>3, <1>4, <1>5

\* No crash and no reported I/O failure makes DB::Open() find less than callers
\* were promised (db_impl.cc, version_set.cc).
THEOREM NothingLostTheorem ==
  Survivable => (Spec => []NothingLost)
<1>1. ASSUME IInv  PROVE NothingLost
  <2> SUFFICES ASSUME pc = "down"  PROVE acked \subseteq Recoverable  BY DEF NothingLost
  <2>1. DiskInv  BY <1>1 DEF IInv, Starting
  <2>2. CASE current = 0  BY <2>1, <2>2 DEF DiskInv
  <2>3. CASE current # 0
    <3>1. /\ current \in DOMAIN manifests /\ Sound(tables, current, M)
          /\ acked \subseteq Held(tables, M.files) \cup Logged(logs, M.log)
      BY <2>1, <2>3 DEF DiskInv
    <3> QED  BY <3>1, Recovered DEF Held, Logged
  <2> QED  BY <2>2, <2>3
<1>2. IInv => NothingLost  BY <1>1
<1> QED  BY <1>2, DurableInvariance, PTL

\* An open database finds every promised write in its memtables or in the tables
\* of the current Version.
THEOREM ServesAckedTheorem ==
  Survivable => (Spec => []ServesAcked)
<1>1. ASSUME IInv  PROVE ServesAcked
  <2> SUFFICES ASSUME Up  PROVE acked \subseteq mem_ \cup imm_ \cup UNION {tables[n] : n \in version}
    BY DEF ServesAcked
  <2>1. AckInv  BY <1>1 DEF IInv, Running, RunInv
  <2>2. Held(tables, version) \subseteq UNION {tables[n] : n \in version}  BY DEF Held
  <2> QED  BY <2>1, <2>2 DEF AckInv
<1>2. IInv => ServesAcked  BY <1>1
<1> QED  BY <1>2, DurableInvariance, PTL

\* DeleteObsoleteFiles(), failed builds and recoveries leave every table that a
\* Version, an iterator or a compaction uses, and leave it whole.
THEOREM LiveTablesTheorem ==
  Survivable => (Spec => []LiveTablesExist)
<1>1. ASSUME IInv  PROVE LiveTablesExist
  <2>1. CASE Starting  BY <1>1, <2>1 DEF IInv, StartInv, IsBlank, IsQuiet, LiveTablesExist
  <2>2. CASE pc = "logs"
    <3>1. LogsInv /\ DiskInv  BY <1>1, <2>2 DEF IInv
    <3>2. Sound(tables, current, M) /\ version = M.files /\ pinned = {} /\ inputs = {}
      BY <3>1 DEF LogsInv, DiskInv, IsQuiet
    <3> QED  BY <3>2 DEF Sound, Complete, LiveTablesExist
  <2>3. CASE Switching
    <3>1. NewInv  BY <1>1, <2>3 DEF IInv, SwitchInv
    <3>2. Complete(tables, NewFiles, next_file_number_) /\ pinned = {} /\ inputs = {}
      BY <3>1 DEF NewInv, IsQuiet
    <3> QED  BY <3>2 DEF Complete, NewFiles, LiveTablesExist
  <2>4. CASE Running
    <3>1. TableInv /\ CompactInv  BY <1>1, <2>4 DEF IInv, RunInv
    <3>2. inputs \subseteq version  BY <3>1 DEF CompactInv
    <3> QED  BY <3>1, <3>2 DEF TableInv, Complete, LiveTablesExist
  <2> QED  BY <1>1, <2>1, <2>2, <2>3, <2>4 DEF IInv
<1>2. IInv => LiveTablesExist  BY <1>1
<1> QED  BY <1>2, DurableInvariance, PTL

LEMMA NumbersInv ==
  ASSUME IInv
  PROVE  NumbersAreFresh
<1>1. DiskTypes /\ ProcessTypes  BY DEF IInv, TypeOK
<1>2. next_file_number_ \in Nat /\ version \subseteq Nat  BY <1>1 DEF ProcessTypes
<1>3. CASE Starting
  <2>1. /\ version = {} /\ pinned = {} /\ pending_outputs_ = {} /\ next_file_number_ = 2
        /\ manifest_file_number_ = 0
    BY <1>3 DEF IInv, StartInv, IsBlank, IsQuiet
  <2>2. ~Up /\ pc # "append"  BY <1>3 DEF Starting, Up
  <2> QED  BY <2>1, <2>2, SMT DEF NumbersAreFresh, Live
<1>4. CASE pc = "logs"
  <2>1. LogsInv /\ DiskInv  BY <1>4 DEF IInv
  <2>2. /\ current \in DOMAIN manifests /\ Sound(tables, current, M) /\ version = M.files
        /\ pinned = {} /\ pending_outputs_ = {} /\ manifest_file_number_ = M.next
        /\ M.next < next_file_number_
    BY <2>1 DEF LogsInv, DiskInv, IsQuiet
  <2>3. M.next \in Nat  BY <1>1, <2>2, ManifestTypes
  <2>4. \A n \in version : n < M.next  BY <2>2 DEF Sound, Complete
  <2>5. \A n \in version : n < next_file_number_  BY <1>2, <2>2, <2>3, <2>4, SMT
  <2>6. ~Up /\ pc # "append"  BY <1>4 DEF Up
  <2> QED  BY <2>2, <2>5, <2>6 DEF NumbersAreFresh, Live
<1>5. CASE Switching
  <2>1. NewInv /\ StepInv  BY <1>5 DEF IInv, SwitchInv
  <2>2. /\ \A n \in version : n < next_file_number_
        /\ pinned = {} /\ pending_outputs_ = {} /\ manifest_file_number_ < next_file_number_
    BY <2>1 DEF NewInv, IsQuiet, Complete, NewFiles
  <2>3. ~Up  BY <1>5 DEF Up, Switching
  <2>4. ASSUME pc = "append"
        PROVE  /\ \A n \in DOMAIN logs \cup Descriptor.files : n < next_file_number_
               /\ manifest_file_number_ # current
    <3>1. DiskInv /\ current # 0 /\ manifest_file_number_ # current /\ M.next <= next_file_number_
      BY <1>5, <2>1, <2>4 DEF IInv, StepInv
    <3>2. current \in DOMAIN manifests /\ Sound(tables, current, M)  BY <3>1 DEF DiskInv
    <3>3. Descriptor = M /\ M.next \in Nat /\ M.files \subseteq Nat
      BY <1>1, <3>2, ManifestTypes DEF Descriptor, M
    <3>4. \A n \in M.files : n < M.next  BY <3>2 DEF Sound, Complete
    <3>5. \A n \in M.files : n < next_file_number_  BY <1>2, <3>1, <3>3, <3>4, SMT
    <3>6. DOMAIN logs \subseteq Nat /\ logfile_number_ \in Nat  BY <1>1 DEF DiskTypes, ProcessTypes
    <3>7. \A n \in DOMAIN logs : n < next_file_number_  BY <1>2, <2>1, <3>6, SMT DEF NewInv
    <3> QED  BY <3>1, <3>3, <3>5, <3>7
  <2> QED  BY <2>2, <2>3, <2>4 DEF NumbersAreFresh, Live
<1>6. CASE Running
  <2>1. ManifestInv /\ TableInv /\ LogInv  BY <1>6 DEF IInv, RunInv
  <2>2. /\ \A n \in version \cup pinned \cup pending_outputs_ : n < next_file_number_
        /\ manifest_file_number_ < next_file_number_ /\ \A n \in DOMAIN logs : n < next_file_number_
    BY <2>1 DEF TableInv, Complete, ManifestInv, LogInv
  <2>3. /\ current \in DOMAIN manifests /\ Sound(tables, current, M) /\ M.next <= next_file_number_
    BY <2>1 DEF ManifestInv
  <2>4. Descriptor = M /\ M.next \in Nat /\ M.files \subseteq Nat
    BY <1>1, <2>3, ManifestTypes DEF Descriptor, M
  <2>5. \A n \in M.files : n < M.next  BY <2>3 DEF Sound, Complete
  <2>6. \A n \in M.files : n < next_file_number_  BY <1>2, <2>3, <2>4, <2>5, SMT
  <2>7. ~(pc = "append" /\ who = "open")  BY <1>6 DEF Running, Up
  <2> QED  BY <2>2, <2>4, <2>6, <2>7 DEF NumbersAreFresh, Live
<1> QED  BY <1>3, <1>4, <1>5, <1>6 DEF IInv

LEMMA SequencesInv ==
  ASSUME IInv
  PROVE  SequencesAreFresh
<1> SUFFICES ASSUME Up, NEW x \in mem_ \cup imm_ \cup (UNION {tables[n] : n \in version}) \cup Recoverable
             PROVE  x <= last_sequence_ \/ x = w
  BY DEF SequencesAreFresh
<1>1. DiskTypes /\ ProcessTypes /\ RunInv  BY DEF IInv, TypeOK, Running
<1>2. /\ current \in DOMAIN manifests /\ Sound(tables, current, M) /\ M.last <= last_sequence_
      /\ Held(tables, version) \subseteq Held(tables, M.files) /\ log_number_ <= M.log
      /\ version \subseteq DOMAIN tables
  BY <1>1 DEF RunInv, ManifestInv, CoverInv, Covers, TableInv, Complete
<1>3. /\ M.last \in Nat /\ M.log \in Nat /\ last_sequence_ \in Nat /\ log_number_ \in Nat
      /\ DOMAIN logs \subseteq Nat
  BY <1>1, <1>2, ManifestTypes DEF ProcessTypes, DiskTypes
<1>4. \A y \in Held(tables, M.files) : y <= last_sequence_
  <2>1. \A y \in Held(tables, M.files) : y <= M.last /\ y \in Nat  BY <1>2, SMT DEF Sound, Held, Writes
  <2> QED  BY <1>2, <1>3, <2>1, SMT
<1>5. CASE x \in mem_ \cup imm_  BY <1>1, <1>5 DEF RunInv, SequenceInv
<1>6. CASE \E n \in version : x \in tables[n]
  <2>1. x \in Held(tables, version)  BY <1>1, <1>2, <1>6 DEF Held, DiskTypes
  <2> QED  BY <1>2, <1>4, <2>1
<1>7. CASE x \in Recoverable
  <2>2. M.files \subseteq DOMAIN tables  BY <1>2 DEF Sound, Complete
  <2>3. \/ \E n \in M.files : x \in tables[n]
        \/ \E n \in DOMAIN logs : n >= M.log /\ x \in logs[n].data
    BY <1>2, <1>7, Recovered
  <2>4. CASE \E n \in M.files : x \in tables[n]
    <3>1. x \in Held(tables, M.files)  BY <1>1, <2>2, <2>4 DEF Held, DiskTypes
    <3> QED  BY <1>4, <3>1
  <2>5. ASSUME NEW n \in DOMAIN logs, n >= M.log, x \in logs[n].data
        PROVE  x <= last_sequence_ \/ x = w
    <3>1. n >= log_number_  BY <1>2, <1>3, <2>5, SMT
    <3> QED  BY <1>1, <2>5, <3>1 DEF RunInv, SequenceInv
  <2> QED  BY <2>3, <2>4, <2>5
<1>8. x \in mem_ \cup imm_ \/ (\E n \in version : x \in tables[n]) \/ x \in Recoverable
  <2> DEFINE T == UNION {tables[n] : n \in version}
  <2>1. x \in mem_ \cup imm_ \/ x \in T \/ x \in Recoverable  OBVIOUS
  <2>2. x \in T => \E n \in version : x \in tables[n]  OBVIOUS
  <2> HIDE DEF T
  <2> QED  BY <2>1, <2>2
<1> QED  BY <1>5, <1>6, <1>7, <1>8

\* NewFileNumber() and the sequence numbers of Write() never repeat one that is in
\* use or that a later DB::Open() can find.
THEOREM FreshNumbersTheorem ==
  Survivable => (Spec => []FreshNumbers)
<1>1. IInv => FreshNumbers  BY NumbersInv, SequencesInv DEF FreshNumbers
<1> QED  BY <1>1, DurableInvariance, PTL
=============================================================================
