----------------------------- MODULE Compaction -----------------------------
(***************************************************************************)
(* How LevelDB keeps a map in memtables and levels of tables: flushes,     *)
(* compactions, trivial moves, reads at a sequence number, and snapshots   *)
(* (src/leveldb/db/version_set.cc, db_impl.cc, memtable.cc, snapshot.h).   *)
(*                                                                         *)
(* An entry is its sequence number; log[s] says what key write s was for   *)
(* and whether it was a deletion.  A table is the set of its entries.      *)
(* Level 0 maps file numbers to tables: the larger the number, the newer.  *)
(* One background thread flushes and compacts (module WritePath), so a     *)
(* flush is one step; a compaction is two, and a flush may come between    *)
(* them (DoCompactionWork() looks at imm_ before every key).  The sizes    *)
(* that make the code pick a level, stop an output or avoid a move are     *)
(* left open.                                                              *)
(***************************************************************************)
EXTENDS Naturals, Sequences, FiniteSets, FiniteSetsExt

CONSTANTS
  NumKeys,        \* user keys are 1..NumKeys
  NumLevels,      \* config::kNumLevels
  MaxMemLevel,    \* config::kMaxMemCompactLevel
  L0Trigger,      \* config::kL0_CompactionTrigger
  MaxWrites,      \* bound on sequence numbers
  MaxSnapshots,   \* bound on snapshots held at a time
  Manual,         \* levels CompactRange() is called for
  Windows         \* what the code is known not to survive, of those in Known

\* "split": an output ends between two entries of one user key.  "gap": a
\* memtable is flushed past level 0 while a manual compaction runs.
Known == {"split", "gap"}

ASSUME BoundsAssumption ==
  /\ {NumKeys, NumLevels, MaxMemLevel, L0Trigger, MaxWrites, MaxSnapshots} \subseteq Nat
  /\ MaxMemLevel < NumLevels /\ NumLevels >= 2 /\ Manual \subseteq 0 .. NumLevels - 2 /\ Windows \subseteq Known

VARIABLES
  log,            \* the writes, in the order of their sequence numbers
  mem_, imm_,     \* entries of the memtables; imm_ = {} is a NULL imm_
  level0,         \* level0[n]: the table of level 0 with file number n
  files,          \* files[l]: tables of level l > 0
  snapshots_,     \* sequence numbers of the snapshots held
  c               \* the running compaction

vars == <<log, mem_, imm_, level0, files, snapshots_, c>>

Keys == 1..NumKeys
Deep == 1 .. NumLevels - 1
Levels == {0} \cup Deep
LastSequence == Len(log)
Idle == [level |-> NumLevels, in0 |-> {}, in1 |-> {}, below |-> {}, smallest_snapshot |-> 0, manual |-> FALSE]

Init ==
  /\ log = <<>> /\ mem_ = {} /\ imm_ = {} /\ level0 = [n \in {} |-> {}] /\ files = [l \in Deep |-> {}]
  /\ snapshots_ = {} /\ c = Idle

-----------------------------------------------------------------------------
(* Keys and tables *)

UserKey(s) == log[s].key
IsDeletion(s) == log[s].del

\* InternalKeyComparator: by user key, then by decreasing sequence number
Before(s, t) == UserKey(s) < UserKey(t) \/ (UserKey(s) = UserKey(t) /\ s > t)
Smallest(f) == CHOOSE s \in f : \A t \in f \ {s} : Before(s, t)
Largest(f) == CHOOSE s \in f : \A t \in f \ {s} : Before(t, s)

Level(l) == IF l = 0 THEN Range(level0) ELSE files[l]

Overlaps(f, lo, hi) == lo <= UserKey(Largest(f)) /\ UserKey(Smallest(f)) <= hi

LowKey(S) == Min({UserKey(Smallest(f)) : f \in S})
HighKey(S) == Max({UserKey(Largest(f)) : f \in S})

\* Tables of level l that overlap the range; in level 0 the range grows with
\* every table that is found.  0 and NumKeys + 1 stand for NULL.
GetOverlappingInputs(l, lo, hi) ==
  LET closed == {r \in (0..lo) \X (hi .. NumKeys + 1) :
                   \A f \in Level(l) : Overlaps(f, r[1], r[2]) =>
                     r[1] <= UserKey(Smallest(f)) /\ UserKey(Largest(f)) <= r[2]}
      from == IF l = 0 THEN Max({r[1] : r \in closed}) ELSE lo
      upto == IF l = 0 THEN Min({r[2] : r \in closed}) ELSE hi
  IN {f \in Level(l) : Overlaps(f, from, upto)}

-----------------------------------------------------------------------------
(* DBImpl::Get() *)

\* Table::Get() or MemTable::Get(): the newest entry of k that s can see, or 0
Newest(f, k, s) == Max({0} \cup {t \in f : UserKey(t) = k /\ t <= s})

\* Version::FindFile(): the first table of a sorted level with an entry at or
\* after (k, s); the answer is in it or not in the level.
FindFile(l, k, s) ==
  LET later == {f \in files[l] : UserKey(Largest(f)) > k \/ (UserKey(Largest(f)) = k /\ Largest(f) <= s)}
      first == CHOOSE f \in later : \A g \in later \ {f} : Before(Smallest(f), Smallest(g))
  IN IF later = {} THEN {} ELSE first

\* Version::Get(): the newest table of level 0 with an entry of k that s can see,
\* or the first level below it with one
VersionGet(k, s) ==
  LET hit0 == [n \in DOMAIN level0 |-> Newest(level0[n], k, s)]
      hit == [l \in Deep |-> Newest(FindFile(l, k, s), k, s)]
      found0 == {n \in DOMAIN level0 : hit0[n] # 0}
      found == {l \in Deep : hit[l] # 0}
  IN CASE found0 # {} -> hit0[Max(found0)]
       [] found0 = {} /\ found # {} -> hit[Min(found)]
       [] OTHER -> 0

\* The entry that answers Get(), or 0: mem_ is looked at first, then imm_
Lookup(k, s) ==
  LET inMem == Newest(mem_, k, s)
      inImm == Newest(imm_, k, s)
  IN CASE inMem # 0 -> inMem
       [] inMem = 0 /\ inImm # 0 -> inImm
       [] OTHER -> VersionGet(k, s)

Get(k, s) == LET e == Lookup(k, s) IN IF e = 0 \/ IsDeletion(e) THEN 0 ELSE e

-----------------------------------------------------------------------------
(* Writers and snapshots *)

Write ==
  /\ LastSequence < MaxWrites
  /\ \E k \in Keys, d \in BOOLEAN : log' = Append(log, [key |-> k, del |-> d])
  /\ mem_' = mem_ \cup {LastSequence + 1}
  /\ UNCHANGED <<imm_, level0, files, snapshots_, c>>

SwitchMemTable ==
  /\ mem_ # {} /\ imm_ = {}
  /\ imm_' = mem_ /\ mem_' = {}
  /\ UNCHANGED <<log, level0, files, snapshots_, c>>

GetSnapshot ==
  /\ Cardinality(snapshots_) < MaxSnapshots /\ LastSequence \notin snapshots_
  /\ snapshots_' = snapshots_ \cup {LastSequence}
  /\ UNCHANGED <<log, mem_, imm_, level0, files, c>>

ReleaseSnapshot ==
  /\ \E s \in snapshots_ : snapshots_' = snapshots_ \ {s}
  /\ UNCHANGED <<log, mem_, imm_, level0, files, c>>

-----------------------------------------------------------------------------
(* Flushes *)

OverlapInLevel(l, f) == \E g \in Level(l) : Overlaps(g, LowKey({f}), HighKey({f}))

\* Mutant: level 0 is not looked at.
SkipsLevel0(f) == {l \in 0..MaxMemLevel : \A j \in 1..l : ~OverlapInLevel(j, f)}

\* The levels PickLevelForMemTableOutput() may return: as deep as there is no
\* overlap, or less where the level below the next has too much data.
PickLevelForMemTableOutput(f) ==
  {l \in 0..MaxMemLevel :
     /\ l > 0 => ~OverlapInLevel(0, f)
     /\ \A j \in 1..l : ~OverlapInLevel(j, f)
     /\ \/ l = MaxMemLevel \/ OverlapInLevel(0, f) \/ OverlapInLevel(l + 1, f)
        \/ (l + 2 < NumLevels /\ OverlapInLevel(l + 2, f))}

\* Table f joins level 0; one without entries is not written.
AddTable(tables, f) ==
  LET number == 1 + Max({0} \cup DOMAIN tables)
  IN IF f = {} THEN tables
     ELSE [n \in DOMAIN tables \cup {number} |-> IF n = number THEN f ELSE tables[n]]

\* CompactMemTable(), by itself or within DoCompactionWork()
CompactMemTable ==
  /\ imm_ # {}
  /\ \E l \in PickLevelForMemTableOutput(imm_) :
       /\ c.manual /\ l > 0 => "gap" \in Windows
       /\ IF l = 0 THEN level0' = AddTable(level0, imm_) /\ UNCHANGED files
                   ELSE files' = [files EXCEPT ![l] = @ \cup {imm_}] /\ UNCHANGED level0
  /\ imm_' = {}
  /\ UNCHANGED <<log, mem_, snapshots_, c>>

-----------------------------------------------------------------------------
(* Compactions *)

Covers(f, k) == Overlaps(f, k, k)

\* A Get() may read table n of level 0 first and another one after it, which
\* costs the first a seek (Version::UpdateStats()).
Charged(n) ==
  \E k \in Keys : /\ Covers(level0[n], k) /\ \A m \in DOMAIN level0 : m > n => ~Covers(level0[m], k)
                  /\ \/ \E m \in DOMAIN level0 : m < n /\ Covers(level0[m], k)
                     \/ \E l \in Deep : \E f \in files[l] : Covers(f, k)

\* The tables PickCompaction() may start from: level 0 has too many of them or one
\* that is sought too often; a deeper level has too much data.
Picks(l) ==
  IF l > 0 THEN files[l]
  ELSE {level0[n] : n \in {m \in DOMAIN level0 : Cardinality(DOMAIN level0) >= L0Trigger \/ Charged(m)}}

\* inputs_[0] of PickCompaction()
PickedInputs(l, f) == IF l = 0 THEN GetOverlappingInputs(0, LowKey({f}), HighKey({f})) ELSE {f}

\* inputs_[0] of CompactRange(): in a deeper level a first part of the overlapping
\* tables
RangeInputs(l) ==
  {S \in {{f \in GetOverlappingInputs(l, lo, hi) : l > 0 => UserKey(Smallest(f)) <= last} :
             lo \in 0..NumKeys, hi \in 1 .. NumKeys + 1, last \in IF l = 0 THEN {NumKeys} ELSE Keys} : S # {}}

\* SetupOtherInputs(): the tables of the next level, and more of this level if
\* that takes no more of the next and the total stays small
SetupOtherInputs(l, in0) ==
  LET in1 == GetOverlappingInputs(l + 1, LowKey(in0), HighKey(in0))
      expanded0 == GetOverlappingInputs(l, LowKey(in0 \cup in1), HighKey(in0 \cup in1))
      expanded1 == GetOverlappingInputs(l + 1, LowKey(expanded0), HighKey(expanded0))
  IN {[in0 |-> in0, in1 |-> in1]} \cup
     IF in1 # {} /\ Cardinality(expanded0) > Cardinality(in0) /\ Cardinality(expanded1) = Cardinality(in1)
     THEN {[in0 |-> expanded0, in1 |-> expanded1]} ELSE {}

Grandparents(l, inputs) ==
  IF l + 2 < NumLevels THEN GetOverlappingInputs(l + 2, LowKey(inputs), HighKey(inputs)) ELSE {}

\* The tables of S leave level l, those of T join the next.
Install(l, S, T, n) ==
  /\ level0' = IF l = 0 THEN Restrict(level0, {i \in DOMAIN level0 : level0[i] \notin S}) ELSE level0
  /\ files' = [j \in Deep |-> IF j = l THEN files[j] \ S
                              ELSE IF j = l + 1 THEN (files[j] \ n) \cup T ELSE files[j]]

TrivialMove ==
  /\ c = Idle /\ imm_ = {}
  /\ \E l \in 0 .. NumLevels - 2 : \E f \in Picks(l) : \E i \in SetupOtherInputs(l, PickedInputs(l, f)) :
       /\ Cardinality(i.in0) = 1 /\ i.in1 = {}
       /\ Install(l, i.in0, i.in0, {})
  /\ UNCHANGED <<log, mem_, imm_, snapshots_, c>>

\* Mutant: the snapshots are not looked at.
LatestSnapshot == LastSequence

SmallestSnapshot == IF snapshots_ = {} THEN LastSequence ELSE Min(snapshots_)

\* BackgroundCompaction() up to the loop of DoCompactionWork(); a table that could
\* be moved is merged if too much data is below it.
StartCompaction ==
  /\ c = Idle /\ imm_ = {}
  /\ \E l \in 0 .. NumLevels - 2, manual \in BOOLEAN : (manual => l \in Manual) /\
     \E in0 \in IF manual THEN RangeInputs(l) ELSE {PickedInputs(l, f) : f \in Picks(l)} :
     \E i \in SetupOtherInputs(l, in0) :
       /\ manual \/ Cardinality(i.in0) > 1 \/ i.in1 # {} \/ Grandparents(l, i.in0) # {}
       /\ c' = [level |-> l, in0 |-> i.in0, in1 |-> i.in1,
                below |-> UNION {files[j] : j \in l + 2 .. NumLevels - 1},
                smallest_snapshot |-> SmallestSnapshot, manual |-> manual]
  /\ UNCHANGED <<log, mem_, imm_, level0, files, snapshots_>>

IsBaseLevelForKey(k) == \A f \in c.below : ~Covers(f, k)

\* Rule (A) of DoCompactionWork(), and its rule for deletions
Hidden(s, all) == \E t \in all : UserKey(t) = UserKey(s) /\ s < t /\ t <= c.smallest_snapshot
Obsolete(s) == IsDeletion(s) /\ s <= c.smallest_snapshot /\ IsBaseLevelForKey(UserKey(s))

\* An output is opened when it gets its first entry.
Outputs(first, rest) == {first, rest} \ {{}}

\* The loop of DoCompactionWork(), with one output or two, and
\* InstallCompactionResults()
FinishCompaction ==
  /\ c # Idle
  /\ LET all == UNION (c.in0 \cup c.in1)
         kept == {s \in all : ~Hidden(s, all) /\ ~Obsolete(s)}
     IN \E cut \in kept \cup {0} :
          LET first == {s \in kept : cut # 0 /\ (s = cut \/ Before(s, cut))}
          IN /\ "split" \in Windows \/ \A s \in kept \ first : cut # 0 => UserKey(s) # UserKey(cut)
             /\ Install(c.level, c.in0, Outputs(first, kept \ first), c.in1)
  /\ c' = Idle
  /\ UNCHANGED <<log, mem_, imm_, snapshots_>>

\* The database is closed, or ends, and is opened again: Recover() makes tables
\* of level 0 of the logs of imm_ and mem_.
Reopen ==
  /\ level0' = AddTable(AddTable(level0, imm_), mem_)
  /\ mem_' = {} /\ imm_' = {} /\ snapshots_' = {} /\ c' = Idle
  /\ UNCHANGED <<log, files>>

Next ==
  \/ Write \/ SwitchMemTable \/ GetSnapshot \/ ReleaseSnapshot \/ CompactMemTable
  \/ TrivialMove \/ StartCompaction \/ FinishCompaction \/ Reopen

Spec == Init /\ [][Next]_vars

-----------------------------------------------------------------------------
(* Properties *)

\* "Make sure there is no overlap in levels > 0" (SaveTo(), version_set.cc:732,
\* and the assert of MaybeAddFile())
NoOverlap ==
  \A l \in Deep : \A f, g \in files[l] : f # g => Before(Largest(f), Smallest(g)) \/ Before(Largest(g), Smallest(f))

\* The entries of S are newer than those of T for the same user key.
Newer(S, T) == \A s \in S, t \in T : UserKey(s) = UserKey(t) => s > t

\* "entries never hop across levels" (Version::Get(), version_set.cc:337): of one
\* user key, what Get() looks at first is newer than what it looks at later.
NewestFirst ==
  /\ Newer(mem_, imm_)
  /\ \A l \in Levels : \A f \in Level(l) : Newer(mem_, f) /\ Newer(imm_, f)
  /\ \A m, n \in DOMAIN level0 : n < m => Newer(level0[m], level0[n])
  /\ \A i, j \in Levels : i < j => \A f \in Level(i), g \in Level(j) : Newer(f, g)

\* What Get() relies on: each level is sorted, and the order in which it looks at
\* the memtables and levels is the order of age.
LevelsInOrder == NoOverlap /\ NewestFirst

\* What Get() answers, through each snapshot and without one: a flush, a move, a
\* compaction or a restart changes nothing, a write only its own key and
\* never what a snapshot shows.
Store == INSTANCE KVStore WITH
  Values <- 1..MaxWrites, NotFound <- 0,
  latest <- [k \in Keys |-> Get(k, LastSequence)],
  frozen <- [s \in snapshots_ |-> [k \in Keys |-> Get(k, s)]]
ImplementsKVStore == Store!Spec

\* e is the newest write of k up to s; 0 if there is none or it is a deletion.
IsNewest(e, k, s) ==
  LET writes == {t \in 1..s : UserKey(t) = k}
  IN IF e = 0 THEN \A t \in writes : IsDeletion(t) \/ \E u \in writes : t < u
     ELSE e \in writes /\ ~IsDeletion(e) /\ \A t \in writes : t <= e

\* Get() returns the newest write of a key that its snapshot can see.
ReadsAreRight ==
  \A k \in Keys, s \in snapshots_ \cup {LastSequence} : IsNewest(Get(k, s), k, s)

=============================================================================
