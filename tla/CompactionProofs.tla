-------------------------- MODULE CompactionProofs --------------------------
(***************************************************************************)
(* For any number of keys, levels, writes and snapshots, outside of the    *)
(* named windows: the levels stay in order, every read is right, and the   *)
(* database is the store that db.h promises.  A compaction may run while   *)
(* memtables are flushed; so the invariant says of a running one what its  *)
(* inputs are and what cannot have come between them and their levels.     *)
(***************************************************************************)
EXTENDS Compaction, FiniteSetTheorems, WellFoundedInduction, TLAPS

-----------------------------------------------------------------------------
(* The inductive invariant *)

Entries == 1..Len(log)
Tables == (SUBSET Entries) \ {{}}

\* The user keys at the ends of a table (FileMetaData::smallest and largest)
Low(f) == UserKey(Smallest(f))
High(f) == UserKey(Largest(f))

Left(f, g) == High(f) < Low(g)
Apart(f, g) == Left(f, g) \/ Left(g, f)

\* No user key has entries in both.
NoneShared(S, T) == \A s \in S, t \in T : UserKey(s) # UserKey(t)

\* The writes have a key and a kind; a snapshot is of a sequence number that has
\* been used.
LogOK ==
  /\ log \in Seq([key : Keys, del : BOOLEAN])
  /\ snapshots_ \subseteq 0..Len(log)

\* Tables hold entries that were written; file numbers are bounded.
TablesOK ==
  /\ mem_ \subseteq Entries /\ imm_ \subseteq Entries
  /\ level0 \in [DOMAIN level0 -> Tables]
  /\ \E b \in Nat : DOMAIN level0 \subseteq 1..b
  /\ files \in [Deep -> SUBSET Tables]

\* Below level 0 the key ranges of the tables of a level are disjoint: unlike
\* NoOverlap, this leaves no user key to two of them.
Sorted == \A l \in Deep : \A f, g \in files[l] : f # g => Apart(f, g)

\* The entry is in a memtable or in a table.
Stored(t) == t \in mem_ \/ t \in imm_ \/ \E l \in Levels : \E f \in Level(l) : t \in f

\* What a read point still needs is there: the newest write of a key up to it, if
\* that is no deletion; and of a deletion that is gone there is nothing older left
\* for it to hide.
Accounted ==
  \A s \in snapshots_ \cup {Len(log)} : \A t \in 1..s :
    (\A u \in 1..s : UserKey(u) = UserKey(t) => u <= t) =>
       Stored(t) \/ (IsDeletion(t) /\ \A u \in Entries : Stored(u) /\ UserKey(u) = UserKey(t) => t <= u)

\* No key between two tables of S is missed by all of them.
Connected(S) ==
  \A k \in Keys : (\E f \in S : High(f) < k) /\ (\E g \in S : k < Low(g)) => \E f \in S : Low(f) <= k /\ k <= High(f)

\* Table h is on one side of all tables of S.
Beside(h, S) == (\A g \in S : Left(h, g)) \/ (\A g \in S : Left(g, h))

\* The tables in0 of level l and in1 of the next may be replaced by tables of the
\* next with some of their entries: the other tables of level l are newer where
\* they share a key, those of the next are out of the way.
Mergeable(l, in0, in1) ==
  /\ l \in 0 .. NumLevels - 2
  /\ in0 \subseteq Level(l) /\ in1 \subseteq files[l + 1]
  /\ \A h \in Level(l) \ in0 : \A g \in in0 : Newer(h, g)
  /\ \A h \in files[l + 1] \ in1 : Beside(h, in0 \cup in1)

\* Below the outputs of the running compaction, only tables it knows of have
\* entries of its keys.
BelowIsKnown ==
  \A j \in c.level + 2 .. NumLevels - 1 : \A h \in files[j] :
    h \in c.below \/ \A g \in c.in0 \cup c.in1 : NoneShared(h, g)

\* The running compaction may be finished at any time.
Running ==
  c # Idle =>
    /\ Mergeable(c.level, c.in0, c.in1)
    /\ c.below \subseteq Tables
    /\ c.smallest_snapshot \in Nat
    /\ \A s \in snapshots_ \cup {Len(log)} : c.smallest_snapshot <= s
    /\ BelowIsKnown
    /\ ~c.manual => Connected(c.in0 \cup c.in1)

IInv == LogOK /\ TablesOK /\ Sorted /\ NewestFirst /\ Accounted /\ Running

-----------------------------------------------------------------------------
(* Least and greatest elements *)

\* Nearly every leaf is about sets, functions and records only; those that need
\* arithmetic cite SMT.
USE Zenon

\* A set of naturals that is not empty has a least element.
LEMMA MinFact ==
  ASSUME NEW S \in SUBSET Nat, S # {}
  PROVE  Min(S) \in S /\ \A y \in S : Min(S) <= y
<1>1. PICK x \in S : \A y \in S : ~(<<y, x>> \in OpToRel(<, Nat))
  BY WFMin, NatLessThanWellFounded
<1>2. ASSUME NEW y \in S PROVE x <= y
  <2>1. ~(y < x)
    BY <1>1 DEF OpToRel
  <2> QED
    BY <2>1, SMT
<1> QED
  BY <1>2 DEF Min

\* A set of naturals with an upper bound has a greatest element.
LEMMA MaxFact ==
  ASSUME NEW S \in SUBSET Nat, S # {}, NEW b \in Nat, \A y \in S : y <= b
  PROVE  Max(S) \in S /\ \A y \in S : y <= Max(S)
<1> DEFINE T == {b - y : y \in S}
<1>0. \A y \in S : b - y \in Nat
  BY SMT
<1>1. T \in SUBSET Nat /\ T # {}
  BY <1>0
<1>2. Min(T) \in T /\ \A z \in T : Min(T) <= z
  BY <1>1, MinFact
<1>3. PICK x \in S : Min(T) = b - x
  BY <1>2
<1>4. ASSUME NEW y \in S PROVE x >= y
  <2>1. b - y \in T
    OBVIOUS
  <2>2. b - x <= b - y
    BY <1>2, <1>3, <2>1
  <2> QED
    BY <2>2, SMT
<1>5. \E x1 \in S : \A y \in S : x1 >= y
  BY <1>4
<1>6. Max(S) \in S /\ \A y \in S : Max(S) >= y
  BY <1>5 DEF Max
<1> QED
  BY <1>6

\* The newest entry of k up to s is found, if there is one.
LEMMA NewestFact ==
  ASSUME LogOK, NEW f \in SUBSET Entries, NEW k, NEW s \in Nat
  PROVE  /\ Newest(f, k, s) # 0 => Newest(f, k, s) \in f /\ UserKey(Newest(f, k, s)) = k /\ Newest(f, k, s) <= s
         /\ Newest(f, k, s) \in Nat
         /\ \A t \in f : UserKey(t) = k /\ t <= s => t <= Newest(f, k, s)
<1> DEFINE S == {0} \cup {t \in f : UserKey(t) = k /\ t <= s}
<1>0. \A t \in f : t \in Nat
  BY SMT DEF Entries, LogOK
<1>1. S \in SUBSET Nat /\ S # {} /\ \A y \in S : y <= s
  BY <1>0, SMT
<1>2. Max(S) \in S /\ \A y \in S : y <= Max(S)
  BY <1>1, MaxFact
<1>3. Newest(f, k, s) = Max(S)
  BY DEF Newest
<1> QED
  BY <1>1, <1>2, <1>3

-----------------------------------------------------------------------------
(* Tables and their ranges *)

\* An entry has a user key.
LEMMA KeyFact == ASSUME LogOK, NEW t \in Entries PROVE UserKey(t) \in Keys /\ UserKey(t) \in Nat /\ t \in Nat
<1>1. t \in DOMAIN log /\ t \in Nat
  BY SMT DEF LogOK, Entries
<1>2. log[t].key \in Keys
  <2> DEFINE R == [key : Keys, del : BOOLEAN]
  <2>1. log \in Seq(R) /\ t \in 1..Len(log)
    BY DEF LogOK, Entries
  <2> HIDE DEF R
  <2>2. log[t] \in R
    BY <2>1, SMT
  <2> QED
    BY <2>2 DEF R
<1>3. \A k \in Keys : k \in Nat
  BY BoundsAssumption, SMT DEF Keys
<1> QED
  BY <1>1, <1>2, <1>3 DEF UserKey

\* A table has a first entry: the smallest key, and its newest entry.
LEMMA SmallestFact ==
  ASSUME LogOK, NEW f \in Tables
  PROVE  Smallest(f) \in f /\ \A t \in f : Low(f) <= UserKey(t)
<1>1. f # {} /\ \A t \in f : t \in Entries /\ t \in Nat /\ UserKey(t) \in Nat /\ t <= Len(log)
  BY KeyFact, SMT DEF Tables, Entries
<1> DEFINE K == {UserKey(t) : t \in f}
           S == {t \in f : UserKey(t) = Min(K)}
<1>2. K \in SUBSET Nat /\ K # {}
  BY <1>1
<1>3. Min(K) \in K /\ \A y \in K : Min(K) <= y
  BY <1>2, MinFact
<1>4. S \in SUBSET Nat /\ S # {} /\ \A y \in S : y <= Len(log)
  BY <1>1, <1>3
<1>5. Len(log) \in Nat
  BY SMT DEF LogOK
<1>6. Max(S) \in S /\ \A y \in S : y <= Max(S)
  BY <1>4, <1>5, MaxFact
<1>7. Max(S) \in f /\ UserKey(Max(S)) = Min(K)
  BY <1>6
<1>8. ASSUME NEW t \in f \ {Max(S)} PROVE Before(Max(S), t)
  <2>1. UserKey(t) \in K
    OBVIOUS
  <2>2. Min(K) <= UserKey(t)
    BY <1>3, <2>1
  <2>3. UserKey(t) = Min(K) => t <= Max(S)
    BY <1>6
  <2> HIDE DEF K, S
  <2> QED
    BY <1>1, <1>7, <2>2, <2>3, SMT DEF Before
<1>9. Smallest(f) \in f /\ \A t \in f \ {Smallest(f)} : Before(Smallest(f), t)
  <2> HIDE DEF K, S
  <2>1. \E s \in f : \A t \in f \ {s} : Before(s, t)
    BY <1>7, <1>8
  <2> QED
    BY <2>1 DEF Smallest
<1> HIDE DEF K, S
<1> QED
  BY <1>1, <1>9, SMT DEF Before, Low

\* A table has a last entry: the largest key, and its oldest entry.
LEMMA LargestFact ==
  ASSUME LogOK, NEW f \in Tables
  PROVE  /\ Largest(f) \in f
         /\ \A t \in f : UserKey(t) <= High(f) /\ (UserKey(t) = High(f) => Largest(f) <= t)
<1>1. f # {} /\ \A t \in f : t \in Entries /\ t \in Nat /\ UserKey(t) \in Nat /\ UserKey(t) <= NumKeys
  BY KeyFact, SMT DEF Tables, Keys
<1> DEFINE K == {UserKey(t) : t \in f}
           S == {t \in f : UserKey(t) = Max(K)}
<1>2. K \in SUBSET Nat /\ K # {} /\ \A y \in K : y <= NumKeys
  BY <1>1
<1>3. NumKeys \in Nat
  BY BoundsAssumption
<1>4. Max(K) \in K /\ \A y \in K : y <= Max(K)
  BY <1>2, <1>3, MaxFact
<1>5. S \in SUBSET Nat /\ S # {}
  BY <1>1, <1>4
<1>6. Min(S) \in S /\ \A y \in S : Min(S) <= y
  BY <1>5, MinFact
<1>7. Min(S) \in f /\ UserKey(Min(S)) = Max(K)
  BY <1>6
<1>8. ASSUME NEW t \in f \ {Min(S)} PROVE Before(t, Min(S))
  <2>1. UserKey(t) \in K
    OBVIOUS
  <2>2. UserKey(t) <= Max(K)
    BY <1>4, <2>1
  <2>3. UserKey(t) = Max(K) => Min(S) <= t
    BY <1>6
  <2> HIDE DEF K, S
  <2> QED
    BY <1>1, <1>7, <2>2, <2>3, SMT DEF Before
<1>9. Largest(f) \in f /\ \A t \in f \ {Largest(f)} : Before(t, Largest(f))
  <2> HIDE DEF K, S
  <2>1. \E s \in f : \A t \in f \ {s} : Before(t, s)
    BY <1>7, <1>8
  <2> QED
    BY <2>1 DEF Largest
<1> HIDE DEF K, S
<1> QED
  BY <1>1, <1>9, SMT DEF Before, High

\* The ends of a table are keys it has entries of, and it has no others outside.
LEMMA TableFact ==
  ASSUME LogOK, NEW f \in Tables
  PROVE  /\ Low(f) \in Keys /\ High(f) \in Keys /\ Low(f) \in Nat /\ High(f) \in Nat /\ Low(f) <= High(f)
         /\ \A t \in f : UserKey(t) \in Nat /\ Low(f) <= UserKey(t) /\ UserKey(t) <= High(f)
         /\ Largest(f) \in f /\ Smallest(f) \in f
<1>1. \A t \in f : UserKey(t) \in Keys /\ UserKey(t) \in Nat
  BY KeyFact DEF Tables
<1> QED
  BY <1>1, SmallestFact, LargestFact DEF Low, High

\* Tables that are apart share no key.
LEMMA ApartFact ==
  ASSUME LogOK, NEW f \in Tables, NEW g \in Tables, Apart(f, g)
  PROVE  NoneShared(f, g) /\ f # g
<1>1. \A t \in f : UserKey(t) \in Nat /\ Low(f) <= UserKey(t) /\ UserKey(t) <= High(f)
  BY TableFact
<1>2. \A t \in g : UserKey(t) \in Nat /\ Low(g) <= UserKey(t) /\ UserKey(t) <= High(g)
  BY TableFact
<1>3. Low(f) \in Nat /\ High(f) \in Nat /\ Low(g) \in Nat /\ High(g) \in Nat /\ Low(f) <= High(f)
  BY TableFact
<1> QED
  BY <1>1, <1>2, <1>3, SMT DEF Apart, Left, NoneShared

\* A table that does not overlap the range of another is apart from it.
LEMMA OverlapFact ==
  ASSUME LogOK, NEW f \in Tables, NEW g \in Tables
  PROVE  Overlaps(f, Low(g), High(g)) <=> ~Apart(f, g)
<1>1. Low(f) \in Nat /\ High(f) \in Nat /\ Low(g) \in Nat /\ High(g) \in Nat
  BY TableFact
<1>2. Overlaps(f, Low(g), High(g)) <=> (Low(g) <= High(f) /\ Low(f) <= High(g))
  BY DEF Overlaps, Low, High
<1> QED
  BY <1>1, <1>2, SMT DEF Apart, Left

(* The tables of a range *)

\* A compaction of level l writes to the next, and there may be more below.
LEMMA NextLevel ==
  ASSUME NEW l \in 0 .. NumLevels - 2
  PROVE  /\ l \in Levels /\ l \in Nat /\ (l # 0 => l \in Deep)
         /\ l + 1 \in Levels /\ l + 1 \in Deep /\ l + 1 # 0 /\ l + 1 # l
         /\ \A i \in l + 2 .. NumLevels - 1 : i \in Deep /\ i \in Levels /\ i \in Nat /\ l < i /\ l + 1 < i /\ i # 0
BY BoundsAssumption, SMT DEF Levels, Deep

\* The tables of a level have entries.
LEMMA LevelFact ==
  ASSUME TablesOK, NEW l \in Levels
  PROVE  Level(l) \subseteq Tables
BY DEF TablesOK, Level, Levels, Range

\* The ends of a set of tables are the ends of some of them.
LEMMA HullFact ==
  ASSUME LogOK, NEW S \in SUBSET Tables, S # {}
  PROVE  /\ LowKey(S) \in Keys /\ HighKey(S) \in Keys /\ LowKey(S) \in Nat /\ HighKey(S) \in Nat
         /\ \A f \in S : LowKey(S) <= Low(f) /\ High(f) <= HighKey(S)
         /\ \E f \in S : LowKey(S) = Low(f)
         /\ \E f \in S : HighKey(S) = High(f)
<1> DEFINE A == {Low(f) : f \in S}
           B == {High(f) : f \in S}
<1>1. \A f \in S : Low(f) \in Keys /\ High(f) \in Keys /\ Low(f) \in Nat /\ High(f) \in Nat
  BY TableFact
<1>2. \A k \in Keys : k \in Nat /\ k <= NumKeys
  BY BoundsAssumption, SMT DEF Keys
<1>3. NumKeys \in Nat
  BY BoundsAssumption
<1>4. A \in SUBSET Nat /\ A # {} /\ B \in SUBSET Nat /\ B # {} /\ \A k \in B : k <= NumKeys
  BY <1>1, <1>2
<1>5. Min(A) \in A /\ \A k \in A : Min(A) <= k
  BY <1>4, MinFact
<1>6. Max(B) \in B /\ \A k \in B : k <= Max(B)
  BY <1>3, <1>4, MaxFact
<1>7. LowKey(S) = Min(A) /\ HighKey(S) = Max(B)
  BY DEF LowKey, HighKey, Low, High
<1> QED
  BY <1>1, <1>5, <1>6, <1>7

\* The ends of a single table
LEMMA HullOfOne ==
  ASSUME LogOK, NEW f \in Tables
  PROVE  LowKey({f}) = Low(f) /\ HighKey({f}) = High(f)
<1>1. {f} \in SUBSET Tables /\ {f} # {}
  OBVIOUS
<1> QED
  BY <1>1, HullFact

\* Level 0: the range has grown until no table crosses its ends, and no more.
LEMMA GrownRange ==
  ASSUME LogOK, TablesOK, NEW lo \in Nat, NEW hi \in 0 .. NumKeys + 1
  PROVE  \E from \in 0..lo, upto \in hi .. NumKeys + 1 :
           /\ GetOverlappingInputs(0, lo, hi) = {f \in Level(0) : from <= High(f) /\ Low(f) <= upto}
           /\ \A f \in Level(0) : from <= High(f) /\ Low(f) <= upto => from <= Low(f) /\ High(f) <= upto
           /\ \A a \in 0..lo, b \in hi .. NumKeys + 1 :
                (\A f \in Level(0) : a <= High(f) /\ Low(f) <= b => a <= Low(f) /\ High(f) <= b) => a <= from /\ upto <= b
<1> DEFINE Closed(a, b) == \A f \in Level(0) : a <= High(f) /\ Low(f) <= b => a <= Low(f) /\ High(f) <= b
           R == (0..lo) \X (hi .. NumKeys + 1)
           closed == {r \in R : Closed(r[1], r[2])}
           A == {r[1] : r \in closed}
           B == {r[2] : r \in closed}
<1>1. closed = {r \in (0..lo) \X (hi .. NumKeys + 1) :
                   \A f \in Level(0) : Overlaps(f, r[1], r[2]) =>
                     r[1] <= UserKey(Smallest(f)) /\ UserKey(Largest(f)) <= r[2]}
  BY DEF Overlaps, Low, High
<1>2. GetOverlappingInputs(0, lo, hi) = {f \in Level(0) : Overlaps(f, Max(A), Min(B))}
  BY <1>1 DEF GetOverlappingInputs
<1>3. GetOverlappingInputs(0, lo, hi) = {f \in Level(0) : Max(A) <= High(f) /\ Low(f) <= Min(B)}
  BY <1>2 DEF Overlaps, Low, High
<1>4. NumKeys \in Nat /\ hi \in Nat
  BY BoundsAssumption, SMT
<1>5. \A f \in Level(0) : Low(f) \in Nat /\ High(f) \in Nat /\ High(f) <= NumKeys + 1 /\ Low(f) <= High(f)
  <2>1. 0 \in Levels
    BY DEF Levels
  <2>2. \A k \in Keys : k <= NumKeys + 1
    BY <1>4, SMT DEF Keys
  <2> QED
    BY <2>1, <2>2, LevelFact, TableFact
<1>6. <<0, NumKeys + 1>> \in closed
  <2>1. Closed(0, NumKeys + 1)
    BY <1>4, <1>5, SMT
  <2>2. <<0, NumKeys + 1>> \in R
    BY <1>4, SMT
  <2> QED
    BY <2>1, <2>2
<1>7. A \in SUBSET (0..lo) /\ B \in SUBSET (hi .. NumKeys + 1) /\ A # {} /\ B # {}
  BY <1>6
<1>8. Max(A) \in A /\ \A y \in A : y <= Max(A)
  <2>1. A \in SUBSET Nat /\ \A y \in A : y <= lo
    BY <1>7, SMT
  <2> HIDE DEF A
  <2> QED
    BY <1>7, <2>1, MaxFact
<1>9. Min(B) \in B /\ \A y \in B : Min(B) <= y
  <2>1. B \in SUBSET Nat
    BY <1>4, <1>7, SMT
  <2> HIDE DEF B
  <2> QED
    BY <1>7, <2>1, MinFact
<1>10. \A a \in 0..lo, b \in hi .. NumKeys + 1 : Closed(a, b) => a <= Max(A) /\ Min(B) <= b
  <2> TAKE a \in 0..lo, b \in hi .. NumKeys + 1
  <2> HAVE Closed(a, b)
  <2>1. <<a, b>> \in closed
    OBVIOUS
  <2>2. a \in A /\ b \in B
    BY <2>1, SMT
  <2> HIDE DEF A, B
  <2> QED
    BY <1>8, <1>9, <2>2
<1>11. Closed(Max(A), Min(B))
  <2>1. PICK r \in closed : Max(A) = r[1]
    BY <1>8
  <2>2. PICK q \in closed : Min(B) = q[2]
    BY <1>9
  <2>3. q[1] \in 0..lo /\ r[2] \in hi .. NumKeys + 1 /\ Closed(r[1], r[2]) /\ Closed(q[1], q[2])
    OBVIOUS
  <2>4. q[1] \in A /\ r[2] \in B
    OBVIOUS
  <2>5. q[1] <= Max(A) /\ Min(B) <= r[2]
    BY <1>8, <1>9, <2>4
  <2>6. Max(A) \in Nat /\ Min(B) \in Nat /\ q[1] \in Nat /\ r[2] \in Nat
    BY <1>4, <1>7, <1>8, <1>9, <2>3, SMT
  <2> HIDE DEF A, B, closed
  <2> QED
    BY <1>5, <2>1, <2>2, <2>3, <2>5, <2>6, SMT
<1>12. Max(A) \in 0..lo /\ Min(B) \in hi .. NumKeys + 1
  BY <1>7, <1>8, <1>9
<1> HIDE DEF A, B
<1> QED
  BY <1>3, <1>10, <1>11, <1>12

\* What GetOverlappingInputs() returns: every table of the range, and in level 0
\* all that must come with them; outside the range it has left no gap.
LEMMA InputsFact ==
  ASSUME LogOK, TablesOK, Sorted, NEW l \in Levels, NEW lo \in Nat, NEW hi \in 0 .. NumKeys + 1,
         NEW I, I = GetOverlappingInputs(l, lo, hi)
  PROVE  /\ I \subseteq Level(l)
         /\ \A f \in Level(l) : lo <= High(f) /\ Low(f) <= hi => f \in I
         /\ \A h \in Level(l) \ I, g \in I : Apart(h, g)
         /\ \A k \in Keys, g \in I : k < lo /\ High(g) < k => \E f \in I : Low(f) <= k /\ k <= High(f)
         /\ \A k \in Keys, g \in I : hi < k /\ k < Low(g) => \E f \in I : Low(f) <= k /\ k <= High(f)
<1>1. \A f \in Level(l) : f \in Tables /\ Low(f) \in Nat /\ High(f) \in Nat /\ Low(f) <= High(f)
  BY LevelFact, TableFact
<1>2. \A k \in Keys : k \in Nat /\ k + 1 \in Nat /\ k - 1 \in Nat /\ k <= NumKeys /\ k - 1 <= NumKeys + 1
  BY BoundsAssumption, SMT DEF Keys
<1>3. hi \in Nat /\ NumKeys \in Nat
  BY BoundsAssumption, SMT
<1>4. CASE l # 0
  <2>1. I = {f \in Level(l) : lo <= High(f) /\ Low(f) <= hi}
    BY <1>4 DEF GetOverlappingInputs, Overlaps, Low, High
  <2>2. \A h \in Level(l) \ I, g \in I : Apart(h, g)
    BY <1>4, <2>1 DEF Level, Sorted, Levels
  <2> QED
    BY <1>1, <1>2, <1>3, <2>1, <2>2, SMT
<1>5. CASE l = 0
  <2>1. PICK from \in 0..lo, upto \in hi .. NumKeys + 1 :
           /\ GetOverlappingInputs(0, lo, hi) = {f \in Level(0) : from <= High(f) /\ Low(f) <= upto}
           /\ \A f \in Level(0) : from <= High(f) /\ Low(f) <= upto => from <= Low(f) /\ High(f) <= upto
           /\ \A a \in 0..lo, b \in hi .. NumKeys + 1 :
                (\A f \in Level(0) : a <= High(f) /\ Low(f) <= b => a <= Low(f) /\ High(f) <= b) => a <= from /\ upto <= b
    BY GrownRange
  <2>2. I = {f \in Level(l) : from <= High(f) /\ Low(f) <= upto}
    BY <1>5, <2>1
  <2>3. \A f \in I : from <= Low(f) /\ High(f) <= upto
    BY <1>5, <2>1, <2>2
  <2>4. from \in Nat /\ upto \in Nat /\ from <= lo /\ hi <= upto
    BY <1>3, SMT
  <2>5. I \subseteq Level(l) /\ \A f \in Level(l) : lo <= High(f) /\ Low(f) <= hi => f \in I
    BY <1>1, <1>3, <2>2, <2>4, SMT
  <2>6. \A h \in Level(l) \ I, g \in I : Apart(h, g)
    BY <1>1, <2>2, <2>3, <2>4, SMT DEF Apart, Left
  <2>7. ASSUME NEW k \in Keys, NEW g \in I, k < lo, High(g) < k, \A f \in I : ~(Low(f) <= k /\ k <= High(f))
        PROVE  FALSE
    <3>1. k + 1 \in 0..lo
      BY <1>2, <2>7, SMT
    <3>2. \A f \in Level(0) : k + 1 <= High(f) /\ Low(f) <= upto => k + 1 <= Low(f) /\ High(f) <= upto
      <4> TAKE f \in Level(0)
      <4> HAVE k + 1 <= High(f) /\ Low(f) <= upto
      <4>1. g \in Level(0) /\ from <= Low(g) /\ Low(g) <= High(g) /\ Low(g) \in Nat /\ High(g) \in Nat
        BY <1>1, <1>5, <2>2, <2>3
      <4>2. f \in Level(l) /\ Low(f) \in Nat /\ High(f) \in Nat
        BY <1>1, <1>5
      <4>3. from <= High(f)
        BY <1>2, <2>4, <2>7, <4>1, <4>2, SMT
      <4>4. f \in I
        BY <2>2, <4>2, <4>3
      <4> QED
        BY <1>2, <2>3, <2>7, <4>2, <4>4, SMT
    <3>3. k + 1 <= from
      BY <2>1, <3>1, <3>2
    <3> QED
      BY <1>1, <1>2, <2>2, <2>3, <2>4, <2>7, <3>3, SMT
  <2>8. ASSUME NEW k \in Keys, NEW g \in I, hi < k, k < Low(g), \A f \in I : ~(Low(f) <= k /\ k <= High(f))
        PROVE  FALSE
    <3>1. k - 1 \in hi .. NumKeys + 1
      BY <1>2, <1>3, <2>8, SMT
    <3>2. \A f \in Level(0) : from <= High(f) /\ Low(f) <= k - 1 => from <= Low(f) /\ High(f) <= k - 1
      <4> TAKE f \in Level(0)
      <4> HAVE from <= High(f) /\ Low(f) <= k - 1
      <4>1. g \in Level(0) /\ High(g) <= upto /\ Low(g) <= High(g) /\ Low(g) \in Nat /\ High(g) \in Nat
        BY <1>1, <1>5, <2>2, <2>3
      <4>2. f \in Level(l) /\ Low(f) \in Nat /\ High(f) \in Nat
        BY <1>1, <1>5
      <4>3. Low(f) <= upto
        BY <1>2, <2>4, <2>8, <4>1, <4>2, SMT
      <4>4. f \in I
        BY <2>2, <4>2, <4>3
      <4> QED
        BY <1>2, <2>3, <2>8, <4>2, <4>4, SMT
    <3>3. upto <= k - 1
      BY <2>1, <3>1, <3>2
    <3> QED
      BY <1>1, <1>2, <2>2, <2>3, <2>4, <2>8, <3>3, SMT
  <2> QED
    BY <2>5, <2>6, <2>7, <2>8
<1> QED
  BY <1>4, <1>5

-----------------------------------------------------------------------------
(* The inputs of a compaction *)

\* The tables of S and the rest of level l share no key.
Separate(l, S) ==
  /\ S # {} /\ S \subseteq Level(l)
  /\ \A h \in Level(l) \ S, g \in S : Apart(h, g)

\* Tables that reach the range of a connected set leave no gap.
LEMMA Joined ==
  ASSUME LogOK, NEW S \in SUBSET Tables, S # {}, Connected(S), NEW T \in SUBSET Tables,
         \A k \in Keys, g \in T : k < LowKey(S) /\ High(g) < k => \E f \in T : Low(f) <= k /\ k <= High(f),
         \A k \in Keys, g \in T : HighKey(S) < k /\ k < Low(g) => \E f \in T : Low(f) <= k /\ k <= High(f)
  PROVE  Connected(S \cup T)
<1> SUFFICES ASSUME NEW k \in Keys, NEW f \in S \cup T, NEW g \in S \cup T, High(f) < k, k < Low(g)
             PROVE  \E h \in S \cup T : Low(h) <= k /\ k <= High(h)
  BY DEF Connected
<1>1. \A h \in S \cup T : Low(h) \in Nat /\ High(h) \in Nat /\ Low(h) <= High(h)
  BY TableFact
<1>2. k \in Nat
  BY BoundsAssumption, SMT DEF Keys
<1>3. PICK a \in S : LowKey(S) = Low(a)
  BY HullFact
<1>4. PICK b \in S : HighKey(S) = High(b)
  BY HullFact
<1>5. \A h \in S : LowKey(S) <= Low(h) /\ High(h) <= HighKey(S)
  BY HullFact
<1>6. LowKey(S) \in Nat /\ HighKey(S) \in Nat
  BY HullFact
<1>7. CASE k < LowKey(S)
  <2>1. f \notin S
    BY <1>1, <1>2, <1>5, <1>6, <1>7, SMT
  <2> QED
    BY <1>7, <2>1
<1>8. CASE HighKey(S) < k
  <2>1. g \notin S
    BY <1>1, <1>2, <1>5, <1>6, <1>8, SMT
  <2> QED
    BY <1>8, <2>1
<1>9. CASE LowKey(S) <= k /\ k <= HighKey(S)
  <2>1. CASE k <= High(a)
    BY <1>3, <1>9, <2>1
  <2>2. CASE Low(b) <= k
    BY <1>4, <1>9, <2>2
  <2>3. CASE High(a) < k /\ k < Low(b)
    BY <2>3 DEF Connected
  <2> QED
    BY <1>1, <1>2, <2>1, <2>2, <2>3, SMT
<1> QED
  BY <1>2, <1>6, <1>7, <1>8, <1>9, SMT

\* What GetOverlappingInputs() adds to a connected set leaves no gap.
LEMMA Extended ==
  ASSUME LogOK, TablesOK, Sorted, NEW l \in Levels, NEW S \in SUBSET Tables, S # {}, Connected(S),
         NEW I, I = GetOverlappingInputs(l, LowKey(S), HighKey(S))
  PROVE  Connected(S \cup I)
<1>1. LowKey(S) \in Nat /\ HighKey(S) \in 0 .. NumKeys + 1
  <2>1. LowKey(S) \in Nat /\ HighKey(S) \in Keys
    BY HullFact
  <2> QED
    BY <2>1, BoundsAssumption, SMT DEF Keys
<1>2. I \subseteq Tables
  BY <1>1, InputsFact, LevelFact, SMT
<1> QED
  BY <1>1, <1>2, InputsFact, Joined, SMT

\* One table is connected.
LEMMA OneConnected ==
  ASSUME LogOK, NEW f \in Tables
  PROVE  Connected({f})
<1>1. Low(f) \in Nat /\ High(f) \in Nat /\ Low(f) <= High(f)
  BY TableFact
<1>2. \A k \in Keys : k \in Nat
  BY BoundsAssumption, SMT DEF Keys
<1> QED
  BY <1>1, <1>2, SMT DEF Connected

\* The tables around a set of tables are a part of the level that can be taken.
LEMMA GrownInputs ==
  ASSUME LogOK, TablesOK, Sorted, NEW l \in Levels, NEW S \in SUBSET Tables, NEW f \in S, f \in Level(l),
         NEW I, I = GetOverlappingInputs(l, LowKey(S), HighKey(S))
  PROVE  Separate(l, I) /\ \A g \in S : g \in Level(l) => g \in I
<1>1. LowKey(S) \in Nat /\ HighKey(S) \in 0 .. NumKeys + 1
  <2>1. LowKey(S) \in Nat /\ HighKey(S) \in Keys
    BY HullFact
  <2> QED
    BY <2>1, BoundsAssumption, SMT DEF Keys
<1>2. ASSUME NEW g \in S, g \in Level(l) PROVE g \in I
  <2>1. LowKey(S) <= Low(g) /\ High(g) <= HighKey(S) /\ LowKey(S) \in Nat /\ HighKey(S) \in Nat
    BY HullFact
  <2>2. Low(g) \in Nat /\ High(g) \in Nat /\ Low(g) <= High(g)
    BY TableFact
  <2>3. LowKey(S) <= High(g) /\ Low(g) <= HighKey(S)
    BY <2>1, <2>2, SMT
  <2> QED
    BY <1>1, <1>2, <2>3, InputsFact, SMT
<1>3. I \subseteq Level(l) /\ \A h \in Level(l) \ I, g \in I : Apart(h, g)
  BY <1>1, InputsFact, SMT
<1> QED
  BY <1>2, <1>3 DEF Separate

\* The tables of the next level that overlap the inputs: the others are on one
\* side of all inputs.
LEMMA NextInputs ==
  ASSUME LogOK, TablesOK, Sorted, NEW l \in 0 .. NumLevels - 2, NEW S, Separate(l, S),
         NEW I, I = GetOverlappingInputs(l + 1, LowKey(S), HighKey(S))
  PROVE  /\ Mergeable(l, S, I)
         /\ \A g \in I : LowKey(S) <= High(g) /\ Low(g) <= HighKey(S)
<1>1. l \in Levels /\ l + 1 \in Levels /\ l + 1 \in Deep /\ l + 1 # 0
  BY NextLevel
<1>2. S \in SUBSET Tables /\ S # {} /\ Level(l + 1) \subseteq Tables /\ Level(l + 1) = files[l + 1]
  BY <1>1, LevelFact DEF Separate, Level
<1>3. I = {f \in files[l + 1] : LowKey(S) <= High(f) /\ Low(f) <= HighKey(S)}
  BY <1>1, <1>2 DEF GetOverlappingInputs, Overlaps, Low, High
<1>4. \A f \in S \cup files[l + 1] : Low(f) \in Nat /\ High(f) \in Nat /\ Low(f) <= High(f)
  BY <1>2, TableFact
<1>5. LowKey(S) \in Nat /\ HighKey(S) \in Nat /\ \A f \in S : LowKey(S) <= Low(f) /\ High(f) <= HighKey(S)
  BY <1>2, HullFact
<1>6. ASSUME NEW h \in files[l + 1] \ I PROVE Beside(h, S \cup I)
  <2>1. \A g \in I : Left(h, g) \/ Left(g, h)
    BY <1>1, <1>3 DEF Sorted, Apart
  <2>2. CASE High(h) < LowKey(S)
    <3>1. \A g \in S : Left(h, g)
      BY <1>4, <1>5, <2>2, SMT DEF Left
    <3>2. \A g \in I : ~Left(g, h)
      BY <1>3, <1>4, <1>5, <2>2, SMT DEF Left
    <3> QED
      BY <2>1, <3>1, <3>2 DEF Beside
  <2>3. CASE HighKey(S) < Low(h)
    <3>1. \A g \in S : Left(g, h)
      BY <1>4, <1>5, <2>3, SMT DEF Left
    <3>2. \A g \in I : ~Left(h, g)
      BY <1>3, <1>4, <1>5, <2>3, SMT DEF Left
    <3> QED
      BY <2>1, <3>1, <3>2 DEF Beside
  <2>4. High(h) < LowKey(S) \/ HighKey(S) < Low(h)
    BY <1>3, <1>4, <1>5, SMT
  <2> QED
    BY <2>2, <2>3, <2>4
<1>7. \A h \in Level(l) \ S, g \in S : Newer(h, g)
  <2>1. \A h \in Level(l) \ S, g \in S : NoneShared(h, g)
    BY <1>1, <1>2, LevelFact, ApartFact DEF Separate
  <2> QED
    BY <2>1 DEF NoneShared, Newer
<1> QED
  BY <1>3, <1>6, <1>7 DEF Mergeable, Separate

\* SetupOtherInputs() returns inputs that may be merged, and leaves no gap where
\* there was none.
LEMMA SetupFact ==
  ASSUME LogOK, TablesOK, Sorted, NEW l \in 0 .. NumLevels - 2, NEW in0, Separate(l, in0),
         NEW i \in SetupOtherInputs(l, in0)
  PROVE  /\ Mergeable(l, i.in0, i.in1)
         /\ i.in0 # {}
         /\ Connected(in0) => Connected(i.in0 \cup i.in1)
<1> DEFINE in1 == GetOverlappingInputs(l + 1, LowKey(in0), HighKey(in0))
           expanded0 == GetOverlappingInputs(l, LowKey(in0 \cup in1), HighKey(in0 \cup in1))
           expanded1 == GetOverlappingInputs(l + 1, LowKey(expanded0), HighKey(expanded0))
<1>1. i = [in0 |-> in0, in1 |-> in1] \/ i = [in0 |-> expanded0, in1 |-> expanded1]
  BY DEF SetupOtherInputs
<1>2. l \in Levels /\ l + 1 \in Levels /\ l + 1 \in Deep /\ l + 1 # 0
  BY NextLevel
<1>3. in0 \in SUBSET Tables /\ in0 # {} /\ in0 \subseteq Level(l)
  BY <1>2, LevelFact DEF Separate
<1>4. Mergeable(l, in0, in1)
  BY NextInputs
<1>5. in1 \in SUBSET Tables
  <2>1. in1 \subseteq Level(l + 1)
    BY <1>2, <1>4 DEF Mergeable, Level
  <2> QED
    BY <1>2, <2>1, LevelFact
<1>6. Connected(in0) => Connected(in0 \cup in1)
  BY <1>2, <1>3, Extended
<1> HIDE DEF in1
<1>7. Separate(l, expanded0) /\ in0 \subseteq expanded0
  <2>1. in0 \cup in1 \in SUBSET Tables
    BY <1>3, <1>5
  <2>2. PICK f \in in0 : f \in Level(l)
    BY <1>3
  <2> QED
    BY <1>2, <1>3, <2>1, <2>2, GrownInputs, SMT
<1>8. Connected(in0) => Connected(expanded0 \cup in1)
  <2>1. Connected(in0) => Connected((in0 \cup in1) \cup expanded0)
    BY <1>2, <1>3, <1>5, <1>6, Extended
  <2>2. (in0 \cup in1) \cup expanded0 = expanded0 \cup in1
    BY <1>7
  <2> QED
    BY <2>1, <2>2
<1>9. expanded0 \in SUBSET Tables /\ expanded0 # {}
  BY <1>2, <1>7, LevelFact DEF Separate
<1> HIDE DEF expanded0
<1>10. /\ Mergeable(l, expanded0, expanded1)
       /\ \A g \in expanded1 : LowKey(expanded0) <= High(g) /\ Low(g) <= HighKey(expanded0)
  BY <1>7, NextInputs
<1>11. expanded1 \in SUBSET Tables
  <2>1. expanded1 \subseteq Level(l + 1)
    BY <1>2, <1>10 DEF Mergeable, Level
  <2> QED
    BY <1>2, <2>1, LevelFact
<1> HIDE DEF expanded1
<1>12. \A g \in in1 : g \in expanded1
  <2> SUFFICES ASSUME NEW g \in in1 PROVE g \in expanded1
    OBVIOUS
  <2>1. g \in files[l + 1] /\ LowKey(in0) <= High(g) /\ Low(g) <= HighKey(in0)
    BY <1>4, NextInputs DEF in1, Mergeable
  <2>2. PICK a \in in0 : LowKey(in0) = Low(a)
    BY <1>3, HullFact
  <2>3. PICK b \in in0 : HighKey(in0) = High(b)
    BY <1>3, HullFact
  <2>4. LowKey(expanded0) <= Low(a) /\ High(b) <= HighKey(expanded0)
    BY <1>7, <1>9, HullFact
  <2>5. /\ LowKey(expanded0) \in Nat /\ HighKey(expanded0) \in Nat /\ Low(a) \in Nat /\ High(b) \in Nat
        /\ Low(g) \in Nat /\ High(g) \in Nat
    BY <1>3, <1>5, <1>9, HullFact, TableFact
  <2>6. LowKey(expanded0) <= High(g) /\ Low(g) <= HighKey(expanded0)
    BY <2>1, <2>2, <2>3, <2>4, <2>5, SMT
  <2>7. expanded1 = {f \in files[l + 1] : LowKey(expanded0) <= High(f) /\ Low(f) <= HighKey(expanded0)}
    BY <1>2 DEF expanded1, GetOverlappingInputs, Overlaps, Low, High, Level
  <2> QED
    BY <2>1, <2>6, <2>7
<1>13. ASSUME Connected(in0) PROVE Connected(expanded0 \cup expanded1)
  <2> DEFINE S == expanded0 \cup in1
  <2>1. S \in SUBSET Tables /\ S # {} /\ Connected(S) /\ \A f \in expanded0 : f \in S
    BY <1>5, <1>8, <1>9, <1>13
  <2> HIDE DEF S
  <2>2. ASSUME NEW g \in expanded1 PROVE LowKey(S) <= High(g) /\ Low(g) <= HighKey(S)
    <3>1. PICK a \in expanded0 : LowKey(expanded0) = Low(a)
      BY <1>9, HullFact
    <3>2. PICK b \in expanded0 : HighKey(expanded0) = High(b)
      BY <1>9, HullFact
    <3>3. LowKey(S) <= Low(a) /\ High(b) <= HighKey(S) /\ LowKey(S) \in Nat /\ HighKey(S) \in Nat
      BY <2>1, HullFact
    <3>4. Low(a) \in Nat /\ High(b) \in Nat /\ Low(g) \in Nat /\ High(g) \in Nat
      BY <1>9, <1>11, TableFact
    <3>5. Low(a) <= High(g) /\ Low(g) <= High(b)
      BY <1>10, <3>1, <3>2
    <3> QED
      BY <3>3, <3>4, <3>5, SMT
  <2>3. LowKey(S) \in Nat /\ HighKey(S) \in Nat
    BY <2>1, HullFact
  <2>4. \A k \in Keys : k \in Nat
    BY BoundsAssumption, SMT DEF Keys
  <2>5. \A g \in expanded1 : Low(g) \in Nat /\ High(g) \in Nat
    BY <1>11, TableFact
  <2>6. \A k \in Keys, g \in expanded1 : ~(k < LowKey(S) /\ High(g) < k) /\ ~(HighKey(S) < k /\ k < Low(g))
    BY <2>2, <2>3, <2>4, <2>5, SMT
  <2>7. Connected(S \cup expanded1)
    BY <1>11, <2>1, <2>6, Joined
  <2>8. S \cup expanded1 = expanded0 \cup expanded1
    BY <1>12 DEF S
  <2> QED
    BY <2>7, <2>8
<1>14. CASE i = [in0 |-> in0, in1 |-> in1]
  <2>1. i.in0 = in0 /\ i.in1 = in1
    BY <1>14
  <2> QED
    BY <1>3, <1>4, <1>6, <2>1
<1>15. CASE i = [in0 |-> expanded0, in1 |-> expanded1]
  <2>1. i.in0 = expanded0 /\ i.in1 = expanded1
    BY <1>15
  <2> QED
    BY <1>9, <1>10, <1>13, <2>1
<1> QED
  BY <1>1, <1>14, <1>15 DEF in1, expanded0, expanded1

\* What PickCompaction() starts from
LEMMA PickedFact ==
  ASSUME LogOK, TablesOK, Sorted, NEW l \in 0 .. NumLevels - 2, NEW f \in Picks(l)
  PROVE  Separate(l, PickedInputs(l, f)) /\ Connected(PickedInputs(l, f))
<1>1. l \in Levels /\ (l # 0 => l \in Deep)
  BY NextLevel
<1>2. f \in Level(l)
  BY SMT DEF Picks, Level, Range
<1>3. f \in Tables
  BY <1>1, <1>2, LevelFact
<1>4. Connected({f})
  BY <1>3, OneConnected
<1>5. CASE l = 0
  <2>1. PickedInputs(l, f) = GetOverlappingInputs(l, LowKey({f}), HighKey({f}))
    BY <1>5 DEF PickedInputs
  <2>2. {f} \in SUBSET Tables /\ f \in {f} /\ {f} # {}
    BY <1>3
  <2>3. Separate(l, PickedInputs(l, f)) /\ f \in PickedInputs(l, f)
    BY <1>1, <1>2, <2>1, <2>2, GrownInputs
  <2>4. Connected({f} \cup PickedInputs(l, f))
    BY <1>1, <1>4, <2>1, <2>2, Extended
  <2>5. {f} \cup PickedInputs(l, f) = PickedInputs(l, f)
    BY <2>3
  <2> QED
    BY <2>3, <2>4, <2>5
<1>6. CASE l # 0
  <2>1. PickedInputs(l, f) = {f}
    BY <1>6 DEF PickedInputs
  <2>2. Separate(l, {f})
    BY <1>1, <1>2, <1>6 DEF Separate, Level, Sorted
  <2> QED
    BY <1>4, <2>1, <2>2
<1> QED
  BY <1>5, <1>6

\* What CompactRange() starts from
LEMMA RangeFact ==
  ASSUME LogOK, TablesOK, Sorted, NEW l \in 0 .. NumLevels - 2, NEW S \in RangeInputs(l)
  PROVE  Separate(l, S)
<1>1. l \in Levels /\ (l # 0 => l \in Deep)
  BY NextLevel
<1>2. PICK lo \in 0..NumKeys, hi \in 1 .. NumKeys + 1, last \in IF l = 0 THEN {NumKeys} ELSE Keys :
        S = {f \in GetOverlappingInputs(l, lo, hi) : l > 0 => UserKey(Smallest(f)) <= last} /\ S # {}
  BY SMT DEF RangeInputs
<1>3. lo \in Nat /\ hi \in 0 .. NumKeys + 1
  BY BoundsAssumption, SMT
<1> DEFINE I == GetOverlappingInputs(l, lo, hi)
<1>4. I \subseteq Level(l) /\ \A h \in Level(l) \ I, g \in I : Apart(h, g)
  BY <1>1, <1>3, InputsFact, SMT
<1>5. S \subseteq I /\ S # {} /\ (l = 0 => S = I)
  BY <1>2, SMT
<1> HIDE DEF I
<1>6. CASE l = 0
  BY <1>4, <1>5, <1>6 DEF Separate
<1>7. CASE l # 0
  BY <1>1, <1>4, <1>5, <1>7 DEF Separate, Level, Sorted
<1> QED
  BY <1>6, <1>7

-----------------------------------------------------------------------------
(* Replacing the inputs of a compaction by its outputs *)

\* Without a write, entries and tables keep their keys and their order.
LEMMA SameLog ==
  ASSUME log' = log
  PROVE  /\ \A t : UserKey(t)' = UserKey(t) /\ IsDeletion(t)' = IsDeletion(t)
         /\ \A f : Low(f)' = Low(f) /\ High(f)' = High(f)
         /\ \A f, g : Left(f, g)' <=> Left(f, g)
         /\ \A f, g : Apart(f, g)' <=> Apart(f, g)
         /\ \A f, g : Newer(f, g)' <=> Newer(f, g)
         /\ \A f, g : NoneShared(f, g)' <=> NoneShared(f, g)
         /\ Entries' = Entries /\ Tables' = Tables
<1>1. \A t : UserKey(t)' = UserKey(t) /\ IsDeletion(t)' = IsDeletion(t)
  BY DEF UserKey, IsDeletion
<1>2. ASSUME NEW f PROVE Low(f)' = Low(f) /\ High(f)' = High(f)
  BY DEF Low, High, UserKey, Smallest, Largest, Before
<1>3. ASSUME NEW f, NEW g
      PROVE  /\ Left(f, g)' <=> Left(f, g)
             /\ Apart(f, g)' <=> Apart(f, g)
             /\ Newer(f, g)' <=> Newer(f, g)
             /\ NoneShared(f, g)' <=> NoneShared(f, g)
  BY <1>1, <1>2 DEF Left, Apart, Newer, NoneShared
<1>4. Entries' = Entries /\ Tables' = Tables
  BY DEF Entries, Tables
<1> QED
  BY <1>1, <1>2, <1>3, <1>4

\* The levels after Install()
LEMMA InstalledLevels ==
  ASSUME TablesOK, NEW l \in 0 .. NumLevels - 2, NEW S, NEW T, NEW n, Install(l, S, T, n)
  PROVE  /\ Level(l)' = Level(l) \ S
         /\ Level(l + 1)' = (Level(l + 1) \ n) \cup T
         /\ \A j \in Levels \ {l, l + 1} : Level(j)' = Level(j)
         /\ \A j \in Deep : files'[j] = Level(j)'
         /\ DOMAIN level0' \subseteq DOMAIN level0 /\ \A m \in DOMAIN level0' : level0'[m] = level0[m]
         /\ level0' = [m \in DOMAIN level0' |-> level0'[m]]
         /\ files' = [j \in Deep |-> files'[j]]
<1>1. /\ l + 1 \in Deep /\ l + 1 # 0 /\ l + 1 # l /\ (l # 0 => l \in Deep)
      /\ \A j \in Levels : j # 0 => j \in Deep
      /\ \A j \in Deep : j # 0
  BY BoundsAssumption, SMT DEF Deep, Levels
<1>2. \A j \in Deep : files'[j] = IF j = l THEN files[j] \ S
                                 ELSE IF j = l + 1 THEN (files[j] \ n) \cup T ELSE files[j]
  BY DEF Install
<1>3. \A j \in Deep : files'[j] = Level(j)' /\ files[j] = Level(j)
  BY <1>1 DEF Level
<1>4. /\ DOMAIN level0' \subseteq DOMAIN level0 /\ \A m \in DOMAIN level0' : level0'[m] = level0[m]
      /\ level0' = [m \in DOMAIN level0' |-> level0'[m]]
  <2>1. CASE l = 0
    <3>1. level0' = [i \in {i \in DOMAIN level0 : level0[i] \notin S} |-> level0[i]]
      BY <2>1 DEF Install, Restrict
    <3> QED
      BY <3>1
  <2>2. CASE l # 0
    <3>1. level0' = level0
      BY <2>2 DEF Install
    <3> QED
      BY <3>1 DEF TablesOK
  <2> QED
    BY <2>1, <2>2
<1>5. Level(0)' = IF l = 0 THEN Level(0) \ S ELSE Level(0)
  <2>1. CASE l = 0
    <3>1. level0' = [i \in {i \in DOMAIN level0 : level0[i] \notin S} |-> level0[i]]
      BY <2>1 DEF Install, Restrict
    <3> QED
      BY <2>1, <3>1 DEF Level, Range
  <2>2. CASE l # 0
    BY <2>2 DEF Install, Level, Range
  <2> QED
    BY <2>1, <2>2
<1>6. files' = [j \in Deep |-> files'[j]]
  BY DEF Install
<1>7. Level(l)' = Level(l) \ S
  BY <1>1, <1>2, <1>3, <1>5
<1>8. Level(l + 1)' = (Level(l + 1) \ n) \cup T
  BY <1>1, <1>2, <1>3
<1>9. \A j \in Levels \ {l, l + 1} : Level(j)' = Level(j)
  BY <1>1, <1>2, <1>3, <1>5
<1> QED
  BY <1>3, <1>4, <1>6, <1>7, <1>8, <1>9

\* Inputs that may be merged are replaced by tables of the next level that are
\* apart and hold some of their entries: the levels stay in order, nothing new is
\* stored, and only entries of the inputs may be gone.
LEMMA Merged ==
  ASSUME LogOK, TablesOK, Sorted, NewestFirst,
         NEW l, NEW in0, NEW in1, NEW T, Mergeable(l, in0, in1), Install(l, in0, T, in1),
         log' = log, mem_' = mem_, imm_' = imm_,
         T \subseteq Tables, \A f, g \in T : f # g => Apart(f, g),
         \A f \in T : \A t \in f : \E g \in in0 \cup in1 : t \in g
  PROVE  /\ TablesOK' /\ Sorted' /\ NewestFirst'
         /\ \A t : Stored(t)' => Stored(t)
         /\ \A t : Stored(t) => Stored(t)' \/ \E g \in in0 \cup in1 : t \in g
         /\ \A f \in T : \A t \in f : Stored(t)'
<1>1. l \in 0 .. NumLevels - 2
  BY DEF Mergeable
<1>2. /\ l \in Levels /\ l + 1 \in Levels /\ l + 1 \in Deep /\ l \in Nat /\ l + 1 # 0 /\ 0 \in Levels
      /\ \A j \in Deep : j \in Levels /\ j \in Nat /\ j # 0
      /\ \A j \in Levels : j \in Nat /\ (j # 0 => j \in Deep)
      /\ \A j \in Levels : l + 1 < j => l < j
  BY <1>1, BoundsAssumption, SMT DEF Levels, Deep
<1>3. /\ Level(l)' = Level(l) \ in0
      /\ Level(l + 1)' = (Level(l + 1) \ in1) \cup T
      /\ \A j \in Levels \ {l, l + 1} : Level(j)' = Level(j)
      /\ \A j \in Deep : files'[j] = Level(j)'
      /\ DOMAIN level0' \subseteq DOMAIN level0 /\ \A m \in DOMAIN level0' : level0'[m] = level0[m]
      /\ level0' = [m \in DOMAIN level0' |-> level0'[m]]
      /\ files' = [j \in Deep |-> files'[j]]
  BY <1>1, InstalledLevels
<1>4. \A j \in Levels : Level(j) \subseteq Tables
  BY LevelFact
<1>5. in0 \subseteq Level(l) /\ in1 \subseteq Level(l + 1)
  BY <1>2 DEF Mergeable, Level
<1>6. \A j \in Levels : \A f \in Level(j)' : f \in Level(j) \/ (j = l + 1 /\ f \in T)
  BY <1>3
<1>7. TablesOK'
  <2>1. Tables' = Tables /\ Entries' = Entries
    BY SameLog
  <2>2. level0' \in [DOMAIN level0' -> Tables]
    BY <1>3 DEF TablesOK
  <2>3. \A j \in Deep : files'[j] \in SUBSET Tables
    BY <1>2, <1>3, <1>4, <1>6, SMT
  <2>4. files' \in [Deep -> SUBSET Tables]
    BY <1>3, <2>3
  <2>5. \E b \in Nat : DOMAIN level0' \subseteq 1..b
    BY <1>3 DEF TablesOK
  <2> QED
    BY <2>1, <2>2, <2>4, <2>5 DEF TablesOK
<1>8. Sorted'
  <2> SUFFICES ASSUME NEW j \in Deep, NEW f \in Level(j)', NEW g \in Level(j)', f # g
               PROVE  Apart(f, g)
    BY <1>3, SameLog, SMT DEF Sorted
  <2>1. CASE j # l + 1
    BY <1>2, <1>6, <2>1 DEF Sorted, Level
  <2>2. ASSUME NEW h \in Level(l + 1) \ in1, NEW o \in T PROVE Apart(h, o)
    <3>1. Beside(h, in0 \cup in1)
      BY <1>2 DEF Mergeable, Level
    <3>2. h \in Tables /\ o \in Tables /\ in0 \cup in1 \subseteq Tables
      BY <1>2, <1>4, <1>5
    <3>3. PICK a \in in0 \cup in1 : Smallest(o) \in a
      BY <3>2, TableFact
    <3>4. PICK b \in in0 \cup in1 : Largest(o) \in b
      BY <3>2, TableFact
    <3>5. /\ Low(a) <= Low(o) /\ High(o) <= High(b) /\ Low(a) \in Nat /\ High(b) \in Nat
          /\ Low(o) \in Nat /\ High(o) \in Nat /\ Low(h) \in Nat /\ High(h) \in Nat
      BY <3>2, <3>3, <3>4, TableFact DEF Low, High
    <3>6. Left(h, a) \/ Left(b, h)
      BY <3>1 DEF Beside
    <3> QED
      BY <3>5, <3>6, SMT DEF Left, Apart
  <2>3. CASE j = l + 1
    <3>1. f \in (Level(l + 1) \ in1) \cup T /\ g \in (Level(l + 1) \ in1) \cup T
      BY <1>3, <2>3
    <3>2. CASE f \in Level(l + 1) /\ g \in Level(l + 1)
      BY <1>2, <3>2 DEF Sorted, Level
    <3> QED
      BY <2>2, <3>1, <3>2 DEF Apart
  <2> QED
    BY <2>1, <2>3
<1>9. NewestFirst'
  <2>1. \A f, g : Newer(f, g)' <=> Newer(f, g)
    BY SameLog
  <2>2. \A i, j \in Levels : i < j => \A f \in Level(i), g \in Level(j) : Newer(f, g)
    BY DEF NewestFirst
  <2>3. \A j \in Levels : \A f \in Level(j)' : Newer(mem_, f) /\ Newer(imm_, f)
    <3>1. \A j \in Levels : \A f \in Level(j) : Newer(mem_, f) /\ Newer(imm_, f)
      BY DEF NewestFirst
    <3>2. \A g \in in0 \cup in1 : Newer(mem_, g) /\ Newer(imm_, g)
      BY <1>2, <1>5, <3>1
    <3>3. \A f \in T : Newer(mem_, f) /\ Newer(imm_, f)
      BY <3>2 DEF Newer
    <3> QED
      BY <1>6, <3>1, <3>3
  <2>4. ASSUME NEW i \in Levels, NEW j \in Levels, i < j, NEW f \in Level(i)', NEW g \in Level(j)'
        PROVE  Newer(f, g)
    <3>1. CASE f \in Level(i) /\ g \in Level(j)
      BY <2>2, <2>4, <3>1
    <3>2. CASE i = l + 1 /\ f \in T /\ g \in Level(j)
      <4>1. \A h \in in0 \cup in1 : Newer(h, g)
        BY <1>2, <1>5, <2>2, <2>4, <3>2
      <4> QED
        BY <3>2, <4>1 DEF Newer
    <3>3. CASE j = l + 1 /\ g \in T /\ f \in Level(i)
      <4>1. i <= l
        BY <1>2, <2>4, <3>3, SMT
      <4>2. \A h \in in1 : Newer(f, h)
        BY <1>2, <1>5, <2>2, <2>4, <3>3
      <4>3. \A h \in in0 : Newer(f, h)
        <5>1. CASE i = l
          BY <1>3, <2>4, <3>3, <5>1 DEF Mergeable
        <5>2. CASE i # l
          <6>1. i < l
            BY <1>2, <4>1, <5>2, SMT
          <6> QED
            BY <1>2, <1>5, <2>2, <3>3, <6>1
        <5> QED
          BY <5>1, <5>2
      <4> QED
        BY <3>3, <4>2, <4>3 DEF Newer
    <3>4. ~(i = l + 1 /\ j = l + 1)
      BY <1>2, <2>4, SMT
    <3> QED
      BY <1>6, <3>1, <3>2, <3>3, <3>4
  <2>5. \A m, n \in DOMAIN level0' : n < m => Newer(level0'[m], level0'[n])
    BY <1>3 DEF NewestFirst
  <2>6. Newer(mem_, imm_)
    BY DEF NewestFirst
  <2> QED
    BY <2>1, <2>3, <2>4, <2>5, <2>6 DEF NewestFirst
<1>10. ASSUME NEW t, Stored(t)' PROVE Stored(t)
  <2>1. CASE t \in mem_ \/ t \in imm_
    BY <2>1 DEF Stored
  <2>2. ASSUME NEW j \in Levels, NEW f \in Level(j)', t \in f PROVE Stored(t)
    <3>1. CASE f \in Level(j)
      BY <2>2, <3>1 DEF Stored
    <3>2. CASE f \in T
      <4>1. PICK g \in in0 \cup in1 : t \in g
        BY <2>2, <3>2
      <4> QED
        BY <1>2, <1>5, <4>1 DEF Stored
    <3> QED
      BY <1>6, <2>2, <3>1, <3>2
  <2> QED
    BY <1>10, <2>1, <2>2 DEF Stored
<1>11. ASSUME NEW t, Stored(t), ~\E g \in in0 \cup in1 : t \in g PROVE Stored(t)'
  <2>1. CASE t \in mem_ \/ t \in imm_
    BY <2>1 DEF Stored
  <2>2. ASSUME NEW j \in Levels, NEW f \in Level(j), t \in f PROVE Stored(t)'
    <3>1. f \in Level(j)'
      BY <1>3, <1>11, <2>2
    <3> QED
      BY <2>2, <3>1 DEF Stored
  <2> QED
    BY <1>11, <2>1, <2>2 DEF Stored
<1>12. \A f \in T : \A t \in f : Stored(t)'
  BY <1>2, <1>3 DEF Stored
<1> QED
  BY <1>7, <1>8, <1>9, <1>10, <1>11, <1>12

-----------------------------------------------------------------------------
(* Writes and snapshots *)

\* A step leaves the writes alone or appends one, and takes a snapshot of the
\* last sequence number or releases some.
LEMMA StepFacts ==
  ASSUME LogOK, [Next]_vars
  PROVE  \/ log' = log /\ snapshots_' \subseteq snapshots_
         \/ log' = log /\ snapshots_' = snapshots_ \cup {Len(log)}
         \/ /\ snapshots_' = snapshots_ /\ Len(log) < MaxWrites
            /\ \E k \in Keys, d \in BOOLEAN : log' = Append(log, [key |-> k, del |-> d])
<1>1. CASE Write
  BY <1>1 DEF Write, LastSequence
<1>2. CASE SwitchMemTable
  BY <1>2 DEF SwitchMemTable
<1>3. CASE GetSnapshot
  BY <1>3 DEF GetSnapshot, LastSequence
<1>4. CASE ReleaseSnapshot
  BY <1>4 DEF ReleaseSnapshot
<1>5. CASE CompactMemTable
  BY <1>5 DEF CompactMemTable
<1>6. CASE TrivialMove
  BY <1>6 DEF TrivialMove
<1>7. CASE StartCompaction
  BY <1>7 DEF StartCompaction
<1>8. CASE FinishCompaction
  BY <1>8 DEF FinishCompaction
<1>9. CASE Reopen
  BY <1>9 DEF Reopen
<1>10. CASE UNCHANGED vars
  BY <1>10 DEF vars
<1> QED
  BY <1>1, <1>2, <1>3, <1>4, <1>5, <1>6, <1>7, <1>8, <1>9, <1>10 DEF Next

\* Writes and snapshots keep their types in every step.
LEMMA LogOKStep == LogOK /\ [Next]_vars => LogOK'
<1> SUFFICES ASSUME LogOK, [Next]_vars PROVE LogOK'
  OBVIOUS
<1>1. CASE log' = log /\ snapshots_' \subseteq snapshots_
  BY <1>1 DEF LogOK
<1>2. CASE log' = log /\ snapshots_' = snapshots_ \cup {Len(log)}
  <2>1. Len(log) \in 0..Len(log)
    BY SMT DEF LogOK
  <2> QED
    BY <1>2, <2>1 DEF LogOK
<1>3. ASSUME NEW k \in Keys, NEW d \in BOOLEAN,
             snapshots_' = snapshots_, log' = Append(log, [key |-> k, del |-> d])
      PROVE  LogOK'
  <2>1. log' \in Seq([key : Keys, del : BOOLEAN]) /\ Len(log') = Len(log) + 1
    BY <1>3, SMT DEF LogOK
  <2>2. 0..Len(log) \subseteq 0..Len(log')
    BY <2>1, SMT DEF LogOK
  <2> QED
    BY <1>3, <2>1, <2>2 DEF LogOK
<1> QED
  BY <1>1, <1>2, <1>3, StepFacts

\* Writes and snapshots have their types.
LEMMA LogTypes == Spec => []LogOK
<1>1. Init => LogOK
  BY SMT DEF Init, LogOK
<1> QED
  BY <1>1, LogOKStep, PTL DEF Spec

-----------------------------------------------------------------------------
(* Steps that leave the tables alone *)

\* What was said of the running compaction and of the levels stays true while they
\* and the writes stay.
LEMMA SameLevels ==
  ASSUME log' = log, level0' = level0, files' = files
  PROVE  /\ \A l : Level(l)' = Level(l)
         /\ Sorted => Sorted'
<1>1. \A l : Level(l)' = Level(l)
  BY DEF Level
<1>2. ASSUME Sorted PROVE Sorted'
  BY <1>2, SameLog DEF Sorted
<1> QED
  BY <1>1, <1>2

\* The running compaction goes on.
LEMMA RunningStays ==
  ASSUME Running, log' = log, level0' = level0, files' = files, c' = c,
         snapshots_' \subseteq snapshots_ \cup {Len(log)}
  PROVE  Running'
<1> SUFFICES ASSUME c # Idle PROVE Running'
  BY DEF Running, Idle
<1>1. /\ Mergeable(c.level, c.in0, c.in1) /\ c.below \subseteq Tables /\ c.smallest_snapshot \in Nat
      /\ \A s \in snapshots_ \cup {Len(log)} : c.smallest_snapshot <= s
      /\ BelowIsKnown
      /\ ~c.manual => Connected(c.in0 \cup c.in1)
  BY DEF Running
<1>2. \A l : Level(l)' = Level(l)
  BY SameLevels
<1>3. Mergeable(c.level, c.in0, c.in1)'
  BY <1>1, <1>2, SameLog DEF Mergeable, Beside
<1>4. BelowIsKnown'
  BY <1>1, SameLog DEF BelowIsKnown
<1>5. (~c.manual => Connected(c.in0 \cup c.in1))'
  BY <1>1, SameLog DEF Connected
<1>6. (c.below \subseteq Tables)' /\ (c.smallest_snapshot \in Nat)'
  BY <1>1, SameLog
<1>7. (\A s \in snapshots_ \cup {Len(log)} : c.smallest_snapshot <= s)'
  BY <1>1
<1> QED
  BY <1>3, <1>4, <1>5, <1>6, <1>7 DEF Running

\* MakeRoomForWrite() makes mem_ the imm_.
LEMMA SwitchKeeps == IInv /\ SwitchMemTable => IInv'
<1> SUFFICES ASSUME IInv, SwitchMemTable PROVE IInv'
  OBVIOUS
<1>1. /\ imm_ = {} /\ imm_' = mem_ /\ mem_' = {} /\ log' = log /\ level0' = level0 /\ files' = files
      /\ snapshots_' = snapshots_ /\ c' = c
  BY DEF SwitchMemTable
<1>2. LogOK' /\ TablesOK'
  BY <1>1, SameLog DEF IInv, LogOK, TablesOK
<1>3. Sorted' /\ Running'
  BY <1>1, SameLevels, RunningStays DEF IInv
<1>4. \A l : Level(l)' = Level(l)
  BY <1>1, SameLevels
<1>5. NewestFirst'
  <2>1. \A f : Newer({}, f)
    BY DEF Newer
  <2> QED
    BY <1>1, <1>4, <2>1, SameLog DEF IInv, NewestFirst
<1>6. \A t : Stored(t)' <=> Stored(t)
  BY <1>1, <1>4 DEF Stored
<1>7. Accounted'
  BY <1>1, <1>6, SameLog DEF IInv, Accounted
<1> QED
  BY <1>2, <1>3, <1>5, <1>7 DEF IInv

\* A snapshot is of the last sequence number, which every read without one uses.
LEMMA SnapshotKeeps == IInv /\ (GetSnapshot \/ ReleaseSnapshot) => IInv'
<1> SUFFICES ASSUME IInv, GetSnapshot \/ ReleaseSnapshot PROVE IInv'
  OBVIOUS
<1>1. /\ mem_' = mem_ /\ imm_' = imm_ /\ log' = log /\ level0' = level0 /\ files' = files /\ c' = c
      /\ snapshots_' \subseteq snapshots_ \cup {Len(log)}
  BY DEF GetSnapshot, ReleaseSnapshot, LastSequence
<1>2. LogOK'
  <2>1. Len(log) \in 0..Len(log)
    BY SMT DEF IInv, LogOK
  <2> QED
    BY <1>1, <2>1 DEF IInv, LogOK
<1>3. TablesOK'
  BY <1>1, SameLog DEF IInv, TablesOK
<1>4. Sorted' /\ Running'
  BY <1>1, SameLevels, RunningStays DEF IInv
<1>5. \A l : Level(l)' = Level(l)
  BY <1>1, SameLevels
<1>6. NewestFirst'
  BY <1>1, <1>5, SameLog DEF IInv, NewestFirst
<1>7. \A t : Stored(t)' <=> Stored(t)
  BY <1>1, <1>5 DEF Stored
<1>8. Accounted'
  BY <1>1, <1>7, SameLog DEF IInv, Accounted
<1> QED
  BY <1>2, <1>3, <1>4, <1>6, <1>8 DEF IInv

-----------------------------------------------------------------------------
(* A write *)

\* Entries and tables that were there before keep their keys and their order.
LEMMA WriteFacts ==
  ASSUME LogOK, NEW j, NEW d, log' = Append(log, [key |-> j, del |-> d])
  PROVE  /\ Len(log') = Len(log) + 1 /\ Len(log) \in Nat
         /\ Entries \subseteq Entries' /\ Len(log) + 1 \in Entries' /\ Tables \subseteq Tables'
         /\ \A t \in Entries : UserKey(t)' = UserKey(t) /\ IsDeletion(t)' = IsDeletion(t)
         /\ \A f \in Tables : Low(f)' = Low(f) /\ High(f)' = High(f)
         /\ \A f, g \in Tables : Left(f, g)' <=> Left(f, g)
         /\ \A f, g \in Tables : Apart(f, g)' <=> Apart(f, g)
         /\ \A f, g \in SUBSET Entries : Newer(f, g)' <=> Newer(f, g)
         /\ \A f, g \in SUBSET Entries : NoneShared(f, g)' <=> NoneShared(f, g)
<1>1. Len(log') = Len(log) + 1 /\ Len(log) \in Nat
  BY SMT DEF LogOK
<1>2. Entries \subseteq Entries' /\ Len(log) + 1 \in Entries'
  BY <1>1, SMT DEF Entries
<1>3. Tables \subseteq Tables'
  BY <1>2 DEF Tables
<1>4. \A t \in Entries : UserKey(t)' = UserKey(t) /\ IsDeletion(t)' = IsDeletion(t)
  BY SMT DEF LogOK, UserKey, IsDeletion, Entries
<1>5. ASSUME NEW f \in Tables PROVE Low(f)' = Low(f) /\ High(f)' = High(f)
  <2>1. \A s \in f : s \in Entries
    BY DEF Tables
  <2>2. \A s, t \in f : Before(s, t)' <=> Before(s, t)
    BY <1>4, <2>1 DEF Before
  <2>3. Smallest(f)' = Smallest(f) /\ Largest(f)' = Largest(f)
    BY <2>2 DEF Smallest, Largest
  <2>4. Smallest(f) \in f /\ Largest(f) \in f
    BY TableFact
  <2>5. UserKey(Smallest(f))' = UserKey(Smallest(f)) /\ UserKey(Largest(f))' = UserKey(Largest(f))
    BY <1>4, <2>1, <2>3, <2>4 DEF UserKey
  <2> QED
    BY <2>5 DEF Low, High
<1>6. ASSUME NEW f \in Tables, NEW g \in Tables
      PROVE  /\ Left(f, g)' <=> Left(f, g)
             /\ Apart(f, g)' <=> Apart(f, g)
  BY <1>5 DEF Left, Apart
<1>7. ASSUME NEW f \in SUBSET Entries, NEW g \in SUBSET Entries
      PROVE  /\ Newer(f, g)' <=> Newer(f, g)
             /\ NoneShared(f, g)' <=> NoneShared(f, g)
  BY <1>4 DEF Newer, NoneShared
<1> QED
  BY <1>1, <1>2, <1>3, <1>4, <1>5, <1>6, <1>7

\* A write has a new sequence number and goes into mem_.
LEMMA WriteKeeps == IInv /\ Write => IInv'
<1> SUFFICES ASSUME IInv, Write PROVE IInv'
  OBVIOUS
<1>1. PICK j \in Keys, d \in BOOLEAN : log' = Append(log, [key |-> j, del |-> d])
  BY DEF Write
<1> DEFINE new == Len(log) + 1
<1>2. /\ mem_' = mem_ \cup {new} /\ imm_' = imm_ /\ level0' = level0 /\ files' = files
      /\ snapshots_' = snapshots_ /\ c' = c
  BY DEF Write, LastSequence
<1>3. LogOK /\ TablesOK /\ Sorted /\ NewestFirst /\ Accounted /\ Running
  BY DEF IInv
<1>4. /\ Len(log') = new /\ Len(log) \in Nat
      /\ Entries \subseteq Entries' /\ new \in Entries' /\ Tables \subseteq Tables'
      /\ \A t \in Entries : UserKey(t)' = UserKey(t) /\ IsDeletion(t)' = IsDeletion(t)
      /\ \A f \in Tables : Low(f)' = Low(f) /\ High(f)' = High(f)
      /\ \A f, g \in Tables : Left(f, g)' <=> Left(f, g)
      /\ \A f, g \in Tables : Apart(f, g)' <=> Apart(f, g)
      /\ \A f, g \in SUBSET Entries : Newer(f, g)' <=> Newer(f, g)
      /\ \A f, g \in SUBSET Entries : NoneShared(f, g)' <=> NoneShared(f, g)
  BY <1>1, <1>3, WriteFacts
<1>5. \A l : Level(l)' = Level(l)
  BY <1>2 DEF Level
<1>6. \A l \in Levels : Level(l) \subseteq Tables
  BY <1>3, LevelFact
<1>7. Tables \subseteq SUBSET Entries /\ mem_ \in SUBSET Entries /\ imm_ \in SUBSET Entries
  BY <1>3 DEF Tables, TablesOK
<1>8. \A t \in Entries : t \in Nat /\ t < new
  BY <1>4, SMT DEF Entries
<1>9. LogOK'
  BY <1>3, LogOKStep DEF Next
<1>10. TablesOK'
  <2>1. level0' \in [DOMAIN level0' -> Tables'] /\ files' \in [Deep -> SUBSET Tables']
    BY <1>2, <1>3, <1>4 DEF TablesOK
  <2>2. mem_' \subseteq Entries' /\ imm_' \subseteq Entries'
    BY <1>2, <1>3, <1>4 DEF TablesOK
  <2>3. \E b \in Nat : DOMAIN level0' \subseteq 1..b
    BY <1>2, <1>3 DEF TablesOK
  <2> QED
    BY <2>1, <2>2, <2>3 DEF TablesOK
<1>11. Sorted'
  <2>1. \A l \in Deep : files[l] \subseteq Tables
    BY <1>3 DEF TablesOK
  <2> QED
    BY <1>2, <1>3, <1>4, <2>1 DEF Sorted
<1>12. NewestFirst'
  <2>1. ASSUME NEW f \in SUBSET Entries, Newer(mem_, f) PROVE Newer(mem_, f)'
    <3> SUFFICES ASSUME NEW s \in mem_', NEW t \in f, UserKey(s)' = UserKey(t)' PROVE s > t
      BY DEF Newer
    <3>1. CASE s = new
      BY <1>8, <3>1
    <3>2. CASE s \in mem_
      BY <1>4, <1>7, <2>1, <3>2 DEF Newer
    <3> QED
      BY <1>2, <3>1, <3>2
  <2>2. Newer(mem_, imm_)'
    BY <1>2, <1>3, <1>7, <2>1 DEF NewestFirst
  <2>3. \A l \in Levels : \A f \in Level(l)' : Newer(mem_, f)' /\ Newer(imm_, f)'
    BY <1>2, <1>3, <1>4, <1>5, <1>6, <1>7, <2>1 DEF NewestFirst
  <2>4. \A m, n \in DOMAIN level0' : n < m => Newer(level0[m], level0[n])'
    <3>1. \A m \in DOMAIN level0 : level0[m] \in SUBSET Entries
      BY <1>3, <1>7 DEF TablesOK
    <3> QED
      BY <1>2, <1>3, <1>4, <3>1 DEF NewestFirst
  <2>5. \A i, l \in Levels : i < l => \A f \in Level(i)', g \in Level(l)' : Newer(f, g)'
    BY <1>3, <1>4, <1>5, <1>6, <1>7 DEF NewestFirst
  <2> QED
    BY <2>2, <2>3, <2>4, <2>5 DEF NewestFirst
<1>13. Running'
  <2> SUFFICES ASSUME c # Idle PROVE Running'
    BY <1>2 DEF Running, Idle
  <2>1. /\ Mergeable(c.level, c.in0, c.in1) /\ c.below \subseteq Tables /\ c.smallest_snapshot \in Nat
        /\ \A s \in snapshots_ \cup {Len(log)} : c.smallest_snapshot <= s
        /\ BelowIsKnown
        /\ ~c.manual => Connected(c.in0 \cup c.in1)
    BY <1>3 DEF Running
  <2>2. /\ c.level \in Levels /\ c.level + 1 \in Levels /\ c.level + 1 \in Deep /\ c.level + 1 # 0
        /\ \A i \in c.level + 2 .. NumLevels - 1 : i \in Deep
    BY <2>1, NextLevel DEF Mergeable
  <2>3. \A l \in Deep : files[l] \subseteq Tables
    BY <1>3 DEF TablesOK
  <2>4. c.in0 \subseteq Tables /\ c.in1 \subseteq Tables
    BY <1>6, <2>1, <2>2, <2>3 DEF Mergeable
  <2>5. Mergeable(c.level, c.in0, c.in1)'
    <3>1. \A h \in Level(c.level) \ c.in0, g \in c.in0 : Newer(h, g)'
      BY <1>4, <1>6, <1>7, <2>1, <2>2, <2>4 DEF Mergeable
    <3>2. \A h \in files[c.level + 1] \ c.in1 : Beside(h, c.in0 \cup c.in1)'
      <4> SUFFICES ASSUME NEW h \in files[c.level + 1] \ c.in1 PROVE Beside(h, c.in0 \cup c.in1)'
        OBVIOUS
      <4>1. h \in Tables /\ Beside(h, c.in0 \cup c.in1)
        BY <2>1, <2>2, <2>3 DEF Mergeable
      <4>2. \A g \in c.in0 \cup c.in1 : (Left(h, g)' <=> Left(h, g)) /\ (Left(g, h)' <=> Left(g, h))
        BY <1>4, <2>4, <4>1
      <4> QED
        BY <1>2, <4>1, <4>2 DEF Beside
    <3> QED
      BY <1>2, <1>5, <2>1, <3>1, <3>2 DEF Mergeable
  <2>6. BelowIsKnown'
    <3> SUFFICES ASSUME NEW i \in c.level + 2 .. NumLevels - 1, NEW h \in files[i], h \notin c.below, NEW g \in c.in0 \cup c.in1
                 PROVE  NoneShared(h, g)'
      BY <1>2 DEF BelowIsKnown
    <3>1. NoneShared(h, g)
      BY <2>1 DEF BelowIsKnown
    <3>2. h \in SUBSET Entries /\ g \in SUBSET Entries
      BY <1>7, <2>2, <2>3, <2>4
    <3> QED
      BY <1>4, <3>1, <3>2
  <2>7. (~c.manual => Connected(c.in0 \cup c.in1))'
    <3>1. \A f \in c.in0 \cup c.in1 : Low(f)' = Low(f) /\ High(f)' = High(f)
      BY <1>4, <2>4
    <3> QED
      BY <1>2, <2>1, <3>1, SMT DEF Connected
  <2>8. \A s \in snapshots_' \cup {new} : c.smallest_snapshot <= s
    BY <1>2, <1>4, <2>1, SMT
  <2>9. c.below \subseteq Tables'
    BY <1>4, <2>1
  <2> QED
    BY <1>2, <1>4, <2>1, <2>5, <2>6, <2>7, <2>8, <2>9 DEF Running
<1>14. Accounted'
  <2>1. \A t : Stored(t)' <=> Stored(t) \/ t = new
    BY <1>2, <1>5 DEF Stored
  <2>2. ASSUME NEW s \in snapshots_ \cup {new}, NEW t \in 1..s,
               \A u \in 1..s : UserKey(u)' = UserKey(t)' => u <= t
        PROVE  \/ Stored(t)'
               \/ IsDeletion(t)' /\ \A u \in Entries' : Stored(u)' /\ UserKey(u)' = UserKey(t)' => t <= u
    <3>1. CASE t = new
      BY <2>1, <3>1
    <3>2. CASE t # new
      <4>1. PICK r \in snapshots_ \cup {Len(log)} : t \in 1..r /\ r \in 0..Len(log) /\ r <= s /\ s \in Nat
        <5>1. CASE s \in snapshots_
          BY <1>3, <2>2, <5>1, SMT DEF LogOK
        <5>2. CASE s = new
          BY <1>4, <2>2, <3>2, <5>2, SMT
        <5> QED
          BY <5>1, <5>2
      <4>2. t \in Entries /\ \A u \in 1..r : u \in Entries /\ u \in 1..s
        BY <1>4, <4>1, SMT DEF Entries
      <4>3. \A u \in 1..r : UserKey(u) = UserKey(t) => u <= t
        BY <1>4, <2>2, <4>2
      <4>4. Stored(t) \/ (IsDeletion(t) /\ \A u \in Entries : Stored(u) /\ UserKey(u) = UserKey(t) => t <= u)
        BY <1>3, <4>1, <4>3 DEF Accounted
      <4>5. \A u \in Entries' : u \in Entries \/ u = new
        BY <1>4, SMT DEF Entries
      <4>6. t <= new
        BY <1>8, <4>2, SMT
      <4> HIDE DEF new
      <4> QED
        BY <1>4, <2>1, <4>2, <4>4, <4>5, <4>6
    <3> QED
      BY <3>1, <3>2
  <2> QED
    BY <1>2, <1>4, <2>2 DEF Accounted
<1> QED
  BY <1>9, <1>10, <1>11, <1>12, <1>13, <1>14 DEF IInv

-----------------------------------------------------------------------------
(* Flushes and restarts *)

\* A table that joins level 0 gets the largest number.
LEMMA Added ==
  ASSUME NEW tables, tables = [n \in DOMAIN tables |-> tables[n]],
         NEW b \in Nat, DOMAIN tables \subseteq 1..b, NEW f, NEW new, new = AddTable(tables, f)
  PROVE  /\ Range(new) = Range(tables) \cup ({f} \ {{}})
         /\ \E d \in Nat : DOMAIN new \subseteq 1..d
         /\ new = [n \in DOMAIN new |-> new[n]]
         /\ \A m, n \in DOMAIN new : n < m =>
              /\ n \in DOMAIN tables /\ new[n] = tables[n]
              /\ (m \in DOMAIN tables /\ new[m] = tables[m]) \/ new[m] = f
<1>1. CASE f = {}
  BY <1>1 DEF AddTable
<1>2. CASE f # {}
  <2> DEFINE N == {0} \cup DOMAIN tables
             number == 1 + Max(N)
  <2>1. N \in SUBSET Nat /\ N # {} /\ \A y \in N : y <= b
    BY SMT
  <2>2. Max(N) \in N /\ \A y \in N : y <= Max(N)
    BY <2>1, MaxFact
  <2>3. new = [n \in DOMAIN tables \cup {number} |-> IF n = number THEN f ELSE tables[n]]
    BY <1>2 DEF AddTable
  <2>4. number \in Nat /\ \A n \in DOMAIN tables : n \in 1 .. number /\ n < number
    <3>1. \A n \in DOMAIN tables : n \in N /\ n \in 1..b
      OBVIOUS
    <3>2. Max(N) \in Nat
      BY <2>1, <2>2
    <3> HIDE DEF N
    <3>3. ASSUME NEW n \in DOMAIN tables PROVE n \in 1 .. number /\ n < number
      <4>1. n \in Nat /\ n >= 1 /\ n <= Max(N)
        BY <2>2, <3>1, SMT
      <4> QED
        BY <3>2, <4>1, SMT
    <3> QED
      BY <3>2, <3>3, SMT
  <2>5. number \in 1..number
    BY <2>1, <2>2, SMT
  <2> HIDE DEF number
  <2>6. DOMAIN new \subseteq 1..number
    BY <2>3, <2>4, <2>5
  <2>7. new[number] = f /\ \A n \in DOMAIN tables : n # number /\ new[n] = tables[n]
    BY <2>3, <2>4, SMT
  <2>8. DOMAIN new = DOMAIN tables \cup {number}
    BY <2>3
  <2>9. Range(new) = Range(tables) \cup {f}
    BY <2>7, <2>8, SMT DEF Range
  <2>10. \A m, n \in DOMAIN new : n < m =>
              /\ n \in DOMAIN tables /\ new[n] = tables[n]
              /\ (m \in DOMAIN tables /\ new[m] = tables[m]) \/ new[m] = f
    <3> TAKE m, n \in DOMAIN new
    <3> HAVE n < m
    <3>1. n # number
      BY <2>4, <2>8, SMT
    <3> QED
      BY <2>7, <2>8, <3>1
  <2>11. new = [n \in DOMAIN new |-> new[n]]
    BY <2>3
  <2> QED
    BY <1>2, <2>4, <2>6, <2>9, <2>10, <2>11
<1> QED
  BY <1>1, <1>2

\* A memtable that is flushed past level 0 is apart from every table down to the
\* level it goes to.
LEMMA FlushApart ==
  ASSUME LogOK, TablesOK, imm_ # {}, NEW l \in PickLevelForMemTableOutput(imm_), l # 0,
         NEW j \in Levels, j <= l, NEW g \in Level(j)
  PROVE  Apart(g, imm_)
<1>1. imm_ \in Tables /\ g \in Tables
  BY LevelFact DEF TablesOK, Tables
<1>2. l \in 0..MaxMemLevel /\ l > 0 /\ (j # 0 => j \in 1..l)
  BY BoundsAssumption, SMT DEF PickLevelForMemTableOutput, Levels, Deep
<1>3. ~OverlapInLevel(j, imm_)
  BY <1>2 DEF PickLevelForMemTableOutput
<1>4. ~Overlaps(g, Low(imm_), High(imm_))
  BY <1>1, <1>3, HullOfOne DEF OverlapInLevel
<1> QED
  BY <1>1, <1>4, OverlapFact

\* The levels after a flush
LEMMA FlushedLevels ==
  ASSUME LogOK, TablesOK, imm_ # {}, NEW l \in PickLevelForMemTableOutput(imm_),
         IF l = 0 THEN level0' = AddTable(level0, imm_) /\ UNCHANGED files
                  ELSE files' = [files EXCEPT ![l] = @ \cup {imm_}] /\ UNCHANGED level0
  PROVE  /\ l \in Levels /\ l \in Nat
         /\ Level(l)' = Level(l) \cup {imm_}
         /\ \A j \in Levels \ {l} : Level(j)' = Level(j)
         /\ \A j \in Deep : files[j] = Level(j) /\ files'[j] = Level(j)'
         /\ files' = [j \in Deep |-> files'[j]]
         /\ level0' = [n \in DOMAIN level0' |-> level0'[n]] /\ \E b \in Nat : DOMAIN level0' \subseteq 1..b
         /\ \A m, n \in DOMAIN level0' : n < m =>
              /\ n \in DOMAIN level0 /\ level0'[n] = level0[n]
              /\ (m \in DOMAIN level0 /\ level0'[m] = level0[m]) \/ (l = 0 /\ level0'[m] = imm_)
<1>1. /\ l \in Levels /\ l \in Nat /\ (l # 0 => l \in Deep)
      /\ \A j \in Levels : j # 0 => j \in Deep
      /\ \A j \in Deep : j # 0
  BY BoundsAssumption, SMT DEF PickLevelForMemTableOutput, Levels, Deep
<1>2. /\ level0 = [n \in DOMAIN level0 |-> level0[n]] /\ \E b \in Nat : DOMAIN level0 \subseteq 1..b
      /\ files = [j \in Deep |-> files[j]]
  BY DEF TablesOK
<1>3. \A j \in Deep : files[j] = Level(j) /\ files'[j] = Level(j)'
  BY <1>1 DEF Level
<1>4. CASE l = 0
  <2>1. level0' = AddTable(level0, imm_) /\ files' = files
    BY <1>4
  <2>2. /\ Range(level0') = Range(level0) \cup ({imm_} \ {{}})
        /\ \E d \in Nat : DOMAIN level0' \subseteq 1..d
        /\ level0' = [n \in DOMAIN level0' |-> level0'[n]]
        /\ \A m, n \in DOMAIN level0' : n < m =>
              /\ n \in DOMAIN level0 /\ level0'[n] = level0[n]
              /\ (m \in DOMAIN level0 /\ level0'[m] = level0[m]) \/ level0'[m] = imm_
    BY <1>2, <2>1, Added, SMT
  <2>3. Level(0)' = Level(0) \cup {imm_}
    BY <2>2 DEF Level
  <2>4. \A j \in Levels \ {l} : Level(j)' = Level(j)
    BY <1>1, <1>3, <1>4, <2>1
  <2> QED
    BY <1>1, <1>2, <1>3, <1>4, <2>1, <2>2, <2>3, <2>4
<1>5. CASE l # 0
  <2>1. level0' = level0 /\ files' = [files EXCEPT ![l] = @ \cup {imm_}]
    BY <1>5
  <2>2. files' = [j \in Deep |-> files'[j]] /\ files'[l] = files[l] \cup {imm_} /\ \A j \in Deep \ {l} : files'[j] = files[j]
    BY <1>1, <1>2, <1>5, <2>1
  <2>3. Level(0)' = Level(0)
    BY <2>1 DEF Level
  <2>4. \A j \in Levels \ {l} : Level(j)' = Level(j)
    BY <1>1, <1>3, <2>2, <2>3
  <2>5. Level(l)' = Level(l) \cup {imm_}
    BY <1>1, <1>3, <1>5, <2>2
  <2> QED
    BY <1>1, <1>2, <1>3, <2>1, <2>2, <2>4, <2>5, SMT
<1> QED
  BY <1>4, <1>5

\* A flush: imm_ goes below level 0 only where it is apart from all it passes, and
\* a running compaction does not reach across it.
LEMMA FlushKeeps == Windows = {} /\ IInv /\ CompactMemTable => IInv'
<1> SUFFICES ASSUME Windows = {}, IInv, CompactMemTable PROVE IInv'
  OBVIOUS
<1>1. PICK l \in PickLevelForMemTableOutput(imm_) :
        /\ c.manual /\ l > 0 => "gap" \in Windows
        /\ IF l = 0 THEN level0' = AddTable(level0, imm_) /\ UNCHANGED files
                    ELSE files' = [files EXCEPT ![l] = @ \cup {imm_}] /\ UNCHANGED level0
  BY DEF CompactMemTable
<1>2. imm_ # {} /\ imm_' = {} /\ log' = log /\ mem_' = mem_ /\ snapshots_' = snapshots_ /\ c' = c
  BY DEF CompactMemTable
<1>3. LogOK /\ TablesOK /\ Sorted /\ NewestFirst /\ Accounted /\ Running
  BY DEF IInv
<1>4. /\ l \in Levels /\ l \in Nat
      /\ Level(l)' = Level(l) \cup {imm_}
      /\ \A j \in Levels \ {l} : Level(j)' = Level(j)
      /\ \A j \in Deep : files[j] = Level(j) /\ files'[j] = Level(j)'
      /\ files' = [j \in Deep |-> files'[j]]
      /\ level0' = [n \in DOMAIN level0' |-> level0'[n]] /\ \E b \in Nat : DOMAIN level0' \subseteq 1..b
      /\ \A m, n \in DOMAIN level0' : n < m =>
              /\ n \in DOMAIN level0 /\ level0'[n] = level0[n]
              /\ (m \in DOMAIN level0 /\ level0'[m] = level0[m]) \/ (l = 0 /\ level0'[m] = imm_)
  BY <1>1, <1>2, <1>3, FlushedLevels
<1>5. \A j \in Levels : Level(j) \subseteq Tables /\ j \in Nat
  BY <1>3, LevelFact, BoundsAssumption, SMT DEF Levels, Deep
<1>6. imm_ \in Tables
  BY <1>2, <1>3 DEF TablesOK, Tables
<1>7. \A j \in Levels : j <= l /\ l # 0 => \A g \in Level(j) : Apart(g, imm_)
  BY <1>2, <1>3, FlushApart
<1>8. \A j \in Levels : j <= l /\ l # 0 => \A g \in Level(j) : NoneShared(g, imm_)
  BY <1>3, <1>5, <1>6, <1>7, ApartFact
<1>9. LogOK'
  BY <1>2, <1>3 DEF LogOK
<1>10. /\ 0 \in Levels /\ \A j \in Deep : j \in Levels /\ j # 0
       /\ \A j \in Levels : \A f \in Level(j)' : f \in Level(j) \/ (j = l /\ f = imm_)
  BY <1>4, SMT DEF Levels, Deep
<1>11. TablesOK'
  <2>1. Tables' = Tables /\ Entries' = Entries
    BY <1>2, SameLog
  <2>2. \A j \in Levels : Level(j)' \subseteq Tables
    BY <1>5, <1>6, <1>10
  <2>3. files' \in [Deep -> SUBSET Tables]
    BY <1>4, <1>10, <2>2, SMT
  <2>4. level0' \in [DOMAIN level0' -> Tables]
    <3>1. \A n \in DOMAIN level0' : level0'[n] \in Level(0)'
      BY DEF Level, Range
    <3> QED
      BY <1>4, <1>10, <2>2, <3>1
  <2>5. mem_' \subseteq Entries /\ imm_' \subseteq Entries
    BY <1>2, <1>3 DEF TablesOK
  <2> QED
    BY <1>4, <2>1, <2>3, <2>4, <2>5 DEF TablesOK
<1>12. Sorted'
  <2> SUFFICES ASSUME NEW j \in Deep, NEW f \in Level(j)', NEW g \in Level(j)', f # g
               PROVE  Apart(f, g)
    BY <1>2, <1>4, SameLog, SMT DEF Sorted
  <2>1. CASE f \in Level(j) /\ g \in Level(j)
    BY <1>3, <1>4, <2>1, SMT DEF Sorted
  <2>2. ASSUME j = l PROVE \A h \in Level(j) : Apart(h, imm_) /\ Apart(imm_, h)
    BY <1>4, <1>7, <1>10, <2>2, SMT DEF Apart
  <2> QED
    BY <1>10, <2>1, <2>2
<1>13. NewestFirst'
  <2>1. \A f, g : Newer(f, g)' <=> Newer(f, g)
    BY <1>2, SameLog
  <2>2. \A f : Newer({}, f) /\ Newer(f, {})
    BY DEF Newer
  <2>3. \A j \in Levels : \A f \in Level(j) : Newer(imm_, f) /\ Newer(mem_, f)
    BY <1>3 DEF NewestFirst
  <2>4. \A j \in Levels : \A f \in Level(j)' : Newer(mem_, f)
    BY <1>3, <1>10, <2>3 DEF NewestFirst
  <2>5. \A m, n \in DOMAIN level0' : n < m => Newer(level0'[m], level0'[n])
    <3> SUFFICES ASSUME NEW m \in DOMAIN level0', NEW n \in DOMAIN level0', n < m
                 PROVE  Newer(level0'[m], level0'[n])
      OBVIOUS
    <3>1. n \in DOMAIN level0 /\ level0'[n] = level0[n]
      BY <1>4
    <3>2. CASE m \in DOMAIN level0 /\ level0'[m] = level0[m]
      BY <1>3, <3>1, <3>2 DEF NewestFirst
    <3>3. CASE level0'[m] = imm_
      <4>1. level0[n] \in Level(0)
        BY <3>1 DEF Level, Range
      <4> QED
        BY <1>10, <2>3, <3>1, <3>3, <4>1
    <3> QED
      BY <1>4, <3>2, <3>3
  <2>6. ASSUME NEW i \in Levels, NEW j \in Levels, i < j, NEW f \in Level(i)', NEW g \in Level(j)'
        PROVE  Newer(f, g)
    <3>1. CASE f \in Level(i) /\ g \in Level(j)
      BY <1>3, <2>6, <3>1 DEF NewestFirst
    <3>2. CASE i = l /\ f = imm_ /\ g \in Level(j)
      BY <2>3, <3>2
    <3>3. CASE j = l /\ g = imm_ /\ f \in Level(i)
      <4>1. i <= l /\ l # 0
        BY <1>5, <2>6, <3>3, SMT
      <4>2. NoneShared(f, g)
        BY <1>8, <3>3, <4>1
      <4> QED
        BY <4>2 DEF NoneShared, Newer
    <3>4. ~(i = l /\ j = l)
      BY <1>5, <2>6, SMT
    <3> QED
      BY <1>10, <3>1, <3>2, <3>3, <3>4
  <2> QED
    BY <1>2, <2>1, <2>2, <2>4, <2>5, <2>6 DEF NewestFirst
<1>14. Accounted'
  <2>1. ASSUME NEW t PROVE Stored(t)' <=> Stored(t)
    <3>1. (\E j \in Levels : \E f \in Level(j)' : t \in f) <=> t \in imm_ \/ \E j \in Levels : \E f \in Level(j) : t \in f
      BY <1>4, <1>10, SMT
    <3> QED
      BY <1>2, <3>1 DEF Stored
  <2> QED
    BY <1>2, <1>3, <2>1, SameLog DEF Accounted
<1>15. Running'
  <2> SUFFICES ASSUME c # Idle PROVE Running'
    BY <1>2 DEF Running, Idle
  <2>1. /\ Mergeable(c.level, c.in0, c.in1) /\ c.below \subseteq Tables /\ c.smallest_snapshot \in Nat
        /\ \A s \in snapshots_ \cup {Len(log)} : c.smallest_snapshot <= s
        /\ BelowIsKnown
        /\ ~c.manual => Connected(c.in0 \cup c.in1)
    BY <1>3 DEF Running
  <2>2. /\ c.level \in Levels /\ c.level + 1 \in Levels /\ c.level + 1 \in Deep /\ c.level \in Nat
        /\ \A i \in c.level + 2 .. NumLevels - 1 : i \in Deep /\ i \in Levels /\ i \in Nat /\ c.level < i /\ c.level + 1 < i /\ i # 0
    BY <2>1, NextLevel DEF Mergeable
  <2>3. c.in0 \subseteq Level(c.level) /\ c.in1 \subseteq Level(c.level + 1)
    BY <1>4, <2>1, <2>2 DEF Mergeable
  <2>4. c.in0 \cup c.in1 \subseteq Tables
    BY <1>5, <2>2, <2>3
  <2>5. \A h \in Level(c.level)' \ c.in0 : \A g \in c.in0 : Newer(h, g)
    <3>1. \A g \in c.in0 : Newer(imm_, g)
      BY <1>3, <2>2, <2>3 DEF NewestFirst
    <3>2. \A h \in Level(c.level)' : h \in Level(c.level) \/ h = imm_
      BY <1>2, <1>10, <2>2
    <3> QED
      BY <2>1, <3>1, <3>2 DEF Mergeable
  <2>6. ASSUME l = c.level + 1 PROVE Beside(imm_, c.in0 \cup c.in1)
    <3>1. ~c.manual
      BY <1>1, <1>4, <2>2, <2>6, SMT
    <3>2. Connected(c.in0 \cup c.in1)
      BY <2>1, <3>1
    <3>3. \A g \in c.in0 \cup c.in1 : Left(g, imm_) \/ Left(imm_, g)
      BY <1>4, <1>7, <2>2, <2>3, <2>6, SMT DEF Apart
    <3>4. \A g \in c.in0 \cup c.in1 : Low(g) \in Nat /\ High(g) \in Nat
      BY <1>3, <2>4, TableFact
    <3>5. Low(imm_) \in Keys /\ Low(imm_) \in Nat /\ High(imm_) \in Nat /\ Low(imm_) <= High(imm_)
      BY <1>3, <1>6, TableFact
    <3>6. ASSUME NEW f \in c.in0 \cup c.in1, NEW g \in c.in0 \cup c.in1, Left(f, imm_), Left(imm_, g)
          PROVE  FALSE
      <4>1. High(f) < Low(imm_) /\ Low(imm_) < Low(g)
        BY <3>4, <3>5, <3>6, SMT DEF Left
      <4>2. PICK h \in c.in0 \cup c.in1 : Low(h) <= Low(imm_) /\ Low(imm_) <= High(h)
        BY <3>2, <3>5, <4>1 DEF Connected
      <4> QED
        BY <3>3, <3>4, <3>5, <4>2, SMT DEF Left
    <3> QED
      BY <3>3, <3>6 DEF Beside
  <2>7. \A h \in Level(c.level + 1)' \ c.in1 : Beside(h, c.in0 \cup c.in1)
    <3>1. \A h \in Level(c.level + 1)' : h \in files[c.level + 1] \/ (l = c.level + 1 /\ h = imm_)
      BY <1>2, <1>4, <1>10, <2>2, SMT
    <3> QED
      BY <2>1, <2>6, <3>1 DEF Mergeable
  <2>8. Mergeable(c.level, c.in0, c.in1)'
    <3>1. \A f, g : (Newer(f, g)' <=> Newer(f, g)) /\ (Left(f, g)' <=> Left(f, g))
      BY <1>2, SameLog
    <3>2. \A h \in files'[c.level + 1] \ c.in1 : Beside(h, c.in0 \cup c.in1)'
      BY <1>2, <1>4, <2>2, <2>7, <3>1 DEF Beside
    <3>3. c.in0 \subseteq Level(c.level)' /\ c.in1 \subseteq files'[c.level + 1]
      <4>1. Level(c.level) \subseteq Level(c.level)' /\ Level(c.level + 1) \subseteq Level(c.level + 1)'
        BY <1>2, <1>4, <2>2, SMT
      <4>2. files'[c.level + 1] = Level(c.level + 1)'
        BY <1>2, <1>4, <2>2
      <4> QED
        BY <2>3, <4>1, <4>2
    <3> QED
      BY <1>2, <2>1, <2>5, <3>1, <3>2, <3>3 DEF Mergeable
  <2>9. BelowIsKnown'
    <3> SUFFICES ASSUME NEW i \in c.level + 2 .. NumLevels - 1, NEW h \in Level(i)', h \notin c.below,
                        NEW g \in c.in0 \cup c.in1
                 PROVE  NoneShared(h, g)
      BY <1>2, <1>4, <2>2, SameLog, SMT DEF BelowIsKnown
    <3>1. CASE h \in Level(i)
      BY <1>4, <2>1, <2>2, <3>1 DEF BelowIsKnown
    <3>2. CASE i = l /\ h = imm_
      <4>1. l # 0 /\ c.level <= l /\ c.level + 1 <= l
        BY <1>4, <2>2, <3>2, SMT
      <4>2. NoneShared(g, imm_)
        BY <1>8, <2>2, <2>3, <4>1
      <4> QED
        BY <3>2, <4>2 DEF NoneShared
    <3> QED
      BY <1>10, <2>2, <3>1, <3>2
  <2>10. (~c.manual => Connected(c.in0 \cup c.in1))'
    BY <1>2, <2>1, SameLog, SMT DEF Connected
  <2>11. Tables' = Tables
    BY <1>2, SameLog
  <2> QED
    BY <1>2, <2>1, <2>8, <2>9, <2>10, <2>11 DEF Running
<1> QED
  BY <1>9, <1>11, <1>12, <1>13, <1>14, <1>15 DEF IInv

\* Recover() turns what was in memory into the newest tables of level 0.
LEMMA ReopenKeeps == IInv /\ Reopen => IInv'
<1> SUFFICES ASSUME IInv, Reopen PROVE IInv'
  OBVIOUS
<1> DEFINE mid == AddTable(level0, imm_)
<1>1. /\ level0' = AddTable(mid, mem_) /\ mem_' = {} /\ imm_' = {} /\ snapshots_' = {} /\ c' = Idle
      /\ log' = log /\ files' = files
  BY DEF Reopen
<1>2. LogOK /\ TablesOK /\ Sorted /\ NewestFirst /\ Accounted
  BY DEF IInv
<1>3. /\ Range(mid) = Range(level0) \cup ({imm_} \ {{}})
      /\ \E d \in Nat : DOMAIN mid \subseteq 1..d
      /\ mid = [n \in DOMAIN mid |-> mid[n]]
      /\ \A m, n \in DOMAIN mid : n < m =>
              /\ n \in DOMAIN level0 /\ mid[n] = level0[n]
              /\ (m \in DOMAIN level0 /\ mid[m] = level0[m]) \/ mid[m] = imm_
  <2>1. level0 = [n \in DOMAIN level0 |-> level0[n]] /\ \E b \in Nat : DOMAIN level0 \subseteq 1..b
    BY <1>2 DEF TablesOK
  <2> QED
    BY <2>1, Added, SMT
<1> HIDE DEF mid
<1>4. /\ Range(level0') = Range(mid) \cup ({mem_} \ {{}})
      /\ \E d \in Nat : DOMAIN level0' \subseteq 1..d
      /\ level0' = [n \in DOMAIN level0' |-> level0'[n]]
      /\ \A m, n \in DOMAIN level0' : n < m =>
              /\ n \in DOMAIN mid /\ level0'[n] = mid[n]
              /\ (m \in DOMAIN mid /\ level0'[m] = mid[m]) \/ level0'[m] = mem_
  BY <1>1, <1>3, Added, SMT
<1>5. Level(0)' = Level(0) \cup ({imm_, mem_} \ {{}})
  BY <1>3, <1>4 DEF Level
<1>6. /\ 0 \in Levels /\ \A j \in Deep : j \in Levels /\ j # 0
      /\ \A j \in Levels \ {0} : Level(j)' = Level(j) /\ Level(j) = files[j] /\ j \in Deep
      /\ \A j \in Levels : j \in Nat
  BY <1>1, BoundsAssumption, SMT DEF Level, Levels, Deep
<1>7. /\ Newer(mem_, imm_)
      /\ \A j \in Levels : \A f \in Level(j) : Newer(mem_, f) /\ Newer(imm_, f)
      /\ \A m, n \in DOMAIN level0 : n < m => Newer(level0[m], level0[n])
      /\ \A i, j \in Levels : i < j => \A f \in Level(i), g \in Level(j) : Newer(f, g)
  BY <1>2 DEF NewestFirst
<1>8. LogOK'
  BY <1>1, <1>2 DEF LogOK
<1>9. TablesOK'
  <2>1. Tables' = Tables /\ Entries' = Entries
    BY <1>1, SameLog
  <2>2. Level(0)' \subseteq Tables
    <3>1. Level(0) \subseteq Tables
      BY <1>2, <1>6, LevelFact
    <3> QED
      BY <1>2, <1>5, <3>1 DEF TablesOK, Tables
  <2>3. \A n \in DOMAIN level0' : level0'[n] \in Level(0)'
    BY DEF Level, Range
  <2>4. level0' \in [DOMAIN level0' -> Tables]
    BY <1>4, <2>2, <2>3
  <2> QED
    BY <1>1, <1>2, <1>4, <2>1, <2>4 DEF TablesOK
<1>10. Sorted'
  BY <1>1, <1>2, SameLog DEF Sorted
<1>11. NewestFirst'
  <2>1. \A f, g : Newer(f, g)' <=> Newer(f, g)
    BY <1>1, SameLog
  <2>2. \A f : Newer({}, f)
    BY DEF Newer
  <2>3. ASSUME NEW m \in DOMAIN level0', NEW n \in DOMAIN level0', n < m
        PROVE  Newer(level0'[m], level0'[n])
    <3>1. n \in DOMAIN mid /\ level0'[n] = mid[n]
      BY <1>4, <2>3
    <3>2. CASE m \in DOMAIN mid /\ level0'[m] = mid[m]
      <4>1. n \in DOMAIN level0 /\ mid[n] = level0[n] /\ ((m \in DOMAIN level0 /\ mid[m] = level0[m]) \/ mid[m] = imm_)
        BY <1>3, <2>3, <3>1, <3>2
      <4>2. level0[n] \in Level(0)
        BY <4>1 DEF Level, Range
      <4> QED
        BY <1>6, <1>7, <2>3, <3>1, <3>2, <4>1, <4>2
    <3>3. CASE level0'[m] = mem_
      <4>1. mid[n] \in Range(mid)
        BY <3>1 DEF Range
      <4>2. mid[n] \in Level(0) \/ mid[n] = imm_
        BY <1>3, <4>1 DEF Level
      <4> QED
        BY <1>6, <1>7, <3>1, <3>3, <4>2
    <3> QED
      BY <1>4, <2>3, <3>2, <3>3
  <2>4. ASSUME NEW i \in Levels, NEW j \in Levels, i < j, NEW f \in Level(i)', NEW g \in Level(j)'
        PROVE  Newer(f, g)
    <3>1. j # 0
      BY <1>6, <2>4, SMT
    <3>2. g \in Level(j)
      BY <1>6, <2>4, <3>1
    <3>3. f \in Level(i) \/ f = imm_ \/ f = mem_
      BY <1>5, <1>6, <2>4
    <3> QED
      BY <1>7, <2>4, <3>2, <3>3
  <2> QED
    BY <1>1, <2>1, <2>2, <2>3, <2>4 DEF NewestFirst
<1>12. Accounted'
  <2>1. ASSUME NEW t PROVE Stored(t)' <=> Stored(t)
    <3>1. (\E f \in Level(0)' : t \in f) <=> t \in mem_ \/ t \in imm_ \/ \E f \in Level(0) : t \in f
      BY <1>5
    <3>2. \A j \in Levels \ {0} : Level(j)' = Level(j)
      BY <1>6
    <3> QED
      BY <1>1, <1>6, <3>1, <3>2 DEF Stored
  <2> QED
    BY <1>1, <1>2, <2>1, SameLog DEF Accounted
<1>13. Running'
  BY <1>1 DEF Running, Idle
<1> QED
  BY <1>8, <1>9, <1>10, <1>11, <1>12, <1>13 DEF IInv

-----------------------------------------------------------------------------
(* Moves and compactions *)

\* A set of tables is finite.
LEMMA TablesFinite ==
  ASSUME LogOK, NEW S \in SUBSET Tables
  PROVE  IsFiniteSet(S)
<1>1. Len(log) \in Int /\ 1 \in Int
  BY SMT DEF LogOK
<1>2. IsFiniteSet(Entries)
  BY <1>1, FS_Interval DEF Entries
<1>3. IsFiniteSet(SUBSET Entries)
  BY <1>2, FS_SUBSET
<1> QED
  BY <1>3, FS_Subset DEF Tables

\* A table that overlaps none of the next level is moved there.
LEMMA MoveKeeps == IInv /\ TrivialMove => IInv'
<1> SUFFICES ASSUME IInv, TrivialMove PROVE IInv'
  OBVIOUS
<1>1. PICK l \in 0 .. NumLevels - 2 : \E f \in Picks(l) : \E i \in SetupOtherInputs(l, PickedInputs(l, f)) :
        Cardinality(i.in0) = 1 /\ i.in1 = {} /\ Install(l, i.in0, i.in0, {})
  BY DEF TrivialMove
<1>2. PICK f \in Picks(l) : \E i \in SetupOtherInputs(l, PickedInputs(l, f)) :
        Cardinality(i.in0) = 1 /\ i.in1 = {} /\ Install(l, i.in0, i.in0, {})
  BY <1>1
<1>3. PICK i \in SetupOtherInputs(l, PickedInputs(l, f)) :
        Cardinality(i.in0) = 1 /\ i.in1 = {} /\ Install(l, i.in0, i.in0, {})
  BY <1>2
<1>4. c = Idle /\ log' = log /\ mem_' = mem_ /\ imm_' = imm_ /\ snapshots_' = snapshots_ /\ c' = c
  BY DEF TrivialMove
<1>5. LogOK /\ TablesOK /\ Sorted /\ NewestFirst /\ Accounted
  BY DEF IInv
<1>6. Separate(l, PickedInputs(l, f))
  BY <1>5, PickedFact
<1>7. Mergeable(l, i.in0, {})
  BY <1>3, <1>5, <1>6, SetupFact
<1>8. i.in0 \in SUBSET Tables
  <2>1. l \in Levels
    BY NextLevel
  <2> QED
    BY <1>5, <1>7, <2>1, LevelFact DEF Mergeable
<1>9. \A g, h \in i.in0 : g = h
  <2>1. IsFiniteSet(i.in0)
    BY <1>5, <1>8, TablesFinite
  <2>2. \E x : i.in0 = {x}
    BY <1>3, <2>1, FS_Singleton
  <2> QED
    BY <2>2
<1> DEFINE T == i.in0
<1>10. /\ T \subseteq Tables /\ Mergeable(l, T, {}) /\ Install(l, T, T, {})
       /\ \A g, h \in T : g # h => Apart(g, h)
       /\ \A g \in T : \A t \in g : \E h \in T \cup {} : t \in h
  BY <1>3, <1>7, <1>8, <1>9
<1> HIDE DEF T
<1>11. /\ TablesOK' /\ Sorted' /\ NewestFirst'
       /\ \A t : Stored(t)' => Stored(t)
       /\ \A t : Stored(t) => Stored(t)' \/ \E g \in T \cup {} : t \in g
       /\ \A g \in T : \A t \in g : Stored(t)'
  BY <1>4, <1>5, <1>10, Merged
<1>12. \A t : Stored(t)' <=> Stored(t)
  BY <1>11
<1>13. Accounted'
  BY <1>4, <1>5, <1>12, SameLog DEF Accounted
<1>14. LogOK' /\ Running'
  BY <1>4, <1>5 DEF LogOK, Running, Idle
<1> QED
  BY <1>11, <1>13, <1>14 DEF IInv

\* A compaction starts: its inputs may be merged, and it keeps what the oldest
\* snapshot can see.
LEMMA StartKeeps == IInv /\ StartCompaction => IInv'
<1> SUFFICES ASSUME IInv, StartCompaction PROVE IInv'
  OBVIOUS
<1>1. PICK l \in 0 .. NumLevels - 2, manual \in BOOLEAN :
       \E in0 \in IF manual THEN RangeInputs(l) ELSE {PickedInputs(l, f) : f \in Picks(l)} :
       \E i \in SetupOtherInputs(l, in0) :
         c' = [level |-> l, in0 |-> i.in0, in1 |-> i.in1,
               below |-> UNION {files[j] : j \in l + 2 .. NumLevels - 1},
               smallest_snapshot |-> SmallestSnapshot, manual |-> manual]
  BY DEF StartCompaction
<1>2. PICK in0 \in IF manual THEN RangeInputs(l) ELSE {PickedInputs(l, f) : f \in Picks(l)} :
       \E i \in SetupOtherInputs(l, in0) :
         c' = [level |-> l, in0 |-> i.in0, in1 |-> i.in1,
               below |-> UNION {files[j] : j \in l + 2 .. NumLevels - 1},
               smallest_snapshot |-> SmallestSnapshot, manual |-> manual]
  BY <1>1
<1>3. PICK i \in SetupOtherInputs(l, in0) :
         c' = [level |-> l, in0 |-> i.in0, in1 |-> i.in1,
               below |-> UNION {files[j] : j \in l + 2 .. NumLevels - 1},
               smallest_snapshot |-> SmallestSnapshot, manual |-> manual]
  BY <1>2
<1>4. /\ log' = log /\ mem_' = mem_ /\ imm_' = imm_ /\ level0' = level0 /\ files' = files
      /\ snapshots_' = snapshots_
  BY DEF StartCompaction
<1>5. LogOK /\ TablesOK /\ Sorted /\ NewestFirst /\ Accounted
  BY DEF IInv
<1>6. Separate(l, in0) /\ (~manual => Connected(in0))
  <2>1. CASE manual
    BY <1>2, <1>5, <2>1, RangeFact
  <2>2. CASE ~manual
    BY <1>2, <1>5, <2>2, PickedFact
  <2> QED
    BY <2>1, <2>2
<1>7. Mergeable(l, i.in0, i.in1) /\ (~manual => Connected(i.in0 \cup i.in1))
  BY <1>3, <1>5, <1>6, SetupFact
<1>8. /\ c'.level = l /\ c'.in0 = i.in0 /\ c'.in1 = i.in1 /\ c'.manual = manual
      /\ c'.below = UNION {files[j] : j \in l + 2 .. NumLevels - 1}
      /\ c'.smallest_snapshot = SmallestSnapshot
  BY <1>3
<1>9. \A j : Level(j)' = Level(j)
  BY <1>4, SameLevels
<1>10. Mergeable(c.level, c.in0, c.in1)'
  BY <1>4, <1>7, <1>8, <1>9, SameLog, SMT DEF Mergeable, Beside
<1>11. (~c.manual => Connected(c.in0 \cup c.in1))'
  BY <1>4, <1>7, <1>8, SameLog DEF Connected
<1>12. BelowIsKnown'
  BY <1>4, <1>8 DEF BelowIsKnown
<1>13. c'.below \subseteq Tables
  <2>1. \A j \in l + 2 .. NumLevels - 1 : j \in Deep
    BY NextLevel
  <2> QED
    BY <1>5, <1>8, <2>1 DEF TablesOK
<1>14. SmallestSnapshot \in Nat /\ \A s \in snapshots_ \cup {Len(log)} : SmallestSnapshot <= s
  <2>1. snapshots_ \in SUBSET Nat /\ Len(log) \in Nat /\ \A s \in snapshots_ : s <= Len(log)
    BY <1>5, SMT DEF LogOK
  <2>2. CASE snapshots_ = {}
    BY <2>1, <2>2, SMT DEF SmallestSnapshot, LastSequence
  <2>3. CASE snapshots_ # {}
    <3>1. Min(snapshots_) \in snapshots_ /\ \A s \in snapshots_ : Min(snapshots_) <= s
      BY <2>1, <2>3, MinFact
    <3> QED
      BY <2>1, <2>3, <3>1 DEF SmallestSnapshot
  <2> QED
    BY <2>2, <2>3
<1>15. Running'
  <2>1. Tables' = Tables
    BY <1>4, SameLog
  <2> QED
    BY <1>4, <1>8, <1>10, <1>11, <1>12, <1>13, <1>14, <2>1 DEF Running
<1>16. LogOK' /\ TablesOK' /\ Sorted'
  BY <1>4, <1>5, SameLog, SameLevels DEF LogOK, TablesOK
<1>17. NewestFirst'
  BY <1>4, <1>5, <1>9, SameLog DEF NewestFirst
<1>18. Accounted'
  <2>1. \A t : Stored(t)' <=> Stored(t)
    BY <1>4, <1>9 DEF Stored
  <2> QED
    BY <1>4, <1>5, <2>1, SameLog DEF Accounted
<1> QED
  BY <1>15, <1>16, <1>17, <1>18 DEF IInv

\* The outputs of a compaction that ends no table within a key are apart.
LEMMA OutputsApart ==
  ASSUME LogOK, NEW kept \in SUBSET Entries, NEW cut \in kept \cup {0}, NEW first,
         first = {s \in kept : cut # 0 /\ (s = cut \/ Before(s, cut))},
         \A s \in kept \ first : cut # 0 => UserKey(s) # UserKey(cut)
  PROVE  /\ Outputs(first, kept \ first) \subseteq Tables
         /\ \A f, g \in Outputs(first, kept \ first) : f # g => Apart(f, g)
         /\ \A t \in kept : \E f \in Outputs(first, kept \ first) : t \in f
         /\ \A f \in Outputs(first, kept \ first) : f \subseteq kept
<1> DEFINE rest == kept \ first
<1>1. first \in SUBSET Entries /\ rest \in SUBSET Entries /\ first \subseteq kept
  OBVIOUS
<1>2. Outputs(first, rest) = {first, rest} \ {{}}
  BY DEF Outputs
<1>3. ASSUME first # {}, rest # {} PROVE Left(first, rest)
  <2>1. cut # 0 /\ cut \in kept
    BY <1>3
  <2>2. \A s \in kept : UserKey(s) \in Nat /\ s \in Nat
    BY KeyFact
  <2>3. \A s \in first : UserKey(s) <= UserKey(cut)
    BY <2>1, <2>2, SMT DEF Before
  <2>4. \A s \in rest : UserKey(cut) < UserKey(s)
    BY <2>1, <2>2, SMT DEF Before
  <2>5. first \in Tables /\ rest \in Tables
    BY <1>1, <1>3 DEF Tables
  <2>6. Largest(first) \in first /\ Smallest(rest) \in rest
    BY <2>5, TableFact
  <2>7. UserKey(Largest(first)) <= UserKey(cut) /\ UserKey(cut) < UserKey(Smallest(rest))
    BY <2>3, <2>4, <2>6
  <2>8. UserKey(Largest(first)) \in Nat /\ UserKey(Smallest(rest)) \in Nat /\ UserKey(cut) \in Nat
    BY <1>1, <2>1, <2>2, <2>6
  <2> HIDE DEF rest
  <2> QED
    BY <2>7, <2>8, SMT DEF Left, High, Low
<1>4. \A t \in kept : t \in first \/ t \in rest
  OBVIOUS
<1>5. rest \subseteq kept
  OBVIOUS
<1> HIDE DEF rest
<1>6. Outputs(first, rest) \subseteq Tables
  BY <1>1, <1>2 DEF Tables
<1>7. \A f, g \in Outputs(first, rest) : f # g => Apart(f, g)
  BY <1>2, <1>3 DEF Apart
<1>8. \A t \in kept : \E f \in Outputs(first, rest) : t \in f
  <2> TAKE t \in kept
  <2>1. CASE t \in first
    BY <1>2, <2>1
  <2>2. CASE t \in rest
    BY <1>2, <2>2
  <2> QED
    BY <1>4, <2>1, <2>2
<1>9. \A f \in Outputs(first, rest) : f \subseteq kept
  BY <1>1, <1>2, <1>5
<1> QED
  BY <1>6, <1>7, <1>8, <1>9 DEF rest

\* Where the code drops a deletion, nothing older of its key is left outside the
\* inputs.
LEMMA NothingOlder ==
  ASSUME LogOK, TablesOK, NewestFirst, Running, c # Idle,
         NEW g \in c.in0 \cup c.in1, NEW t \in g, IsBaseLevelForKey(UserKey(t)),
         NEW j \in Levels, NEW f \in Level(j), j = c.level => f \notin c.in0, j = c.level + 1 => f \notin c.in1,
         NEW u \in f, UserKey(u) = UserKey(t)
  PROVE  t < u
<1>1. /\ Mergeable(c.level, c.in0, c.in1) /\ c.below \subseteq Tables /\ BelowIsKnown
  BY DEF Running
<1>2. /\ c.level \in Levels /\ c.level + 1 \in Levels /\ c.level + 1 \in Deep /\ c.level \in Nat /\ c.level + 1 # 0
      /\ j \in Nat /\ (j # 0 => j \in Deep)
      /\ (j < c.level \/ j = c.level \/ j = c.level + 1 \/ j \in c.level + 2 .. NumLevels - 1)
      /\ (j < c.level => j < c.level + 1) /\ c.level < c.level + 1
      /\ \A n \in c.level + 2 .. NumLevels - 1 : n # 0
  BY <1>1, BoundsAssumption, SMT DEF Mergeable, Levels, Deep
<1>3. c.in0 \subseteq Level(c.level) /\ c.in1 \subseteq Level(c.level + 1)
  BY <1>1, <1>2 DEF Mergeable, Level
<1>4. f \in Tables /\ g \in Tables
  BY <1>2, <1>3, LevelFact
<1>5. t \in Nat /\ u \in Nat
  BY <1>4, KeyFact DEF Tables
<1>6. ASSUME Newer(f, g) PROVE t < u
  BY <1>5, <1>6 DEF Newer
<1>7. ~NoneShared(f, g)
  BY DEF NoneShared
<1>8. \A i, n \in Levels : i < n => \A x \in Level(i), y \in Level(n) : Newer(x, y)
  BY DEF NewestFirst
<1>9. CASE j < c.level
  BY <1>2, <1>3, <1>6, <1>8, <1>9
<1>10. CASE j = c.level
  <2>1. CASE g \in c.in0
    BY <1>1, <1>6, <1>10, <2>1 DEF Mergeable
  <2>2. CASE g \in c.in1
    BY <1>2, <1>3, <1>6, <1>8, <1>10, <2>2
  <2> QED
    BY <2>1, <2>2
<1>11. CASE j = c.level + 1
  <2>1. Beside(f, c.in0 \cup c.in1)
    BY <1>1, <1>2, <1>11 DEF Mergeable, Level
  <2>2. Apart(f, g)
    BY <2>1 DEF Beside, Apart
  <2> QED
    BY <1>4, <1>7, <2>2, ApartFact
<1>12. CASE j \in c.level + 2 .. NumLevels - 1
  <2>1. f \in c.below
    BY <1>1, <1>2, <1>7, <1>12 DEF BelowIsKnown, Level
  <2>2. Covers(f, UserKey(u))
    BY <1>4, TableFact DEF Covers, Overlaps, Low, High
  <2> QED
    BY <2>1, <2>2 DEF IsBaseLevelForKey
<1> QED
  BY <1>2, <1>9, <1>10, <1>11, <1>12

\* A compaction drops what no read point can see, and deletions with nothing left
\* to hide.
LEMMA FinishKeeps == Windows = {} /\ IInv /\ FinishCompaction => IInv'
<1> SUFFICES ASSUME Windows = {}, IInv, FinishCompaction PROVE IInv'
  OBVIOUS
<1> DEFINE all == UNION (c.in0 \cup c.in1)
           kept == {s \in all : ~Hidden(s, all) /\ ~Obsolete(s)}
           First(cut) == {s \in kept : cut # 0 /\ (s = cut \/ Before(s, cut))}
<1>1. PICK cut \in kept \cup {0} :
        /\ "split" \in Windows \/ \A s \in kept \ First(cut) : cut # 0 => UserKey(s) # UserKey(cut)
        /\ Install(c.level, c.in0, Outputs(First(cut), kept \ First(cut)), c.in1)
  BY DEF FinishCompaction
<1> DEFINE first == First(cut)
           T == Outputs(first, kept \ first)
<1>2. c # Idle /\ c' = Idle /\ log' = log /\ mem_' = mem_ /\ imm_' = imm_ /\ snapshots_' = snapshots_
  BY DEF FinishCompaction
<1>3. LogOK /\ TablesOK /\ Sorted /\ NewestFirst /\ Accounted /\ Running
  BY DEF IInv
<1>4. /\ Mergeable(c.level, c.in0, c.in1) /\ c.smallest_snapshot \in Nat
      /\ \A s \in snapshots_ \cup {Len(log)} : c.smallest_snapshot <= s
  BY <1>2, <1>3 DEF Running
<1>5. c.in0 \cup c.in1 \subseteq Tables
  <2>1. c.level \in Levels /\ c.level + 1 \in Levels /\ c.level + 1 # 0
    BY <1>4, NextLevel DEF Mergeable
  <2>2. c.in0 \subseteq Level(c.level) /\ c.in1 \subseteq Level(c.level + 1)
    BY <1>4, <2>1 DEF Mergeable, Level
  <2> QED
    BY <1>3, <2>1, <2>2, LevelFact
<1>6. all \in SUBSET Entries /\ kept \in SUBSET Entries
  BY <1>5 DEF Tables
<1>7. /\ T \subseteq Tables
      /\ \A f, g \in T : f # g => Apart(f, g)
      /\ \A t \in kept : \E f \in T : t \in f
      /\ \A f \in T : f \subseteq kept
  <2>1. \A s \in kept \ first : cut # 0 => UserKey(s) # UserKey(cut)
    BY <1>1
  <2> HIDE DEF kept
  <2> QED
    BY <1>3, <1>6, <2>1, OutputsApart
<1>8. \A t \in all : \E g \in c.in0 \cup c.in1 : t \in g
  OBVIOUS
<1>9. kept \subseteq all
  OBVIOUS
<1>10. \A t \in all \ kept : Hidden(t, all) \/ Obsolete(t)
  OBVIOUS
<1>11. \A u \in kept : ~Hidden(u, all)
  OBVIOUS
<1>12. \A g \in c.in0 \cup c.in1 : \A t \in g : t \in all
  OBVIOUS
<1>13. Install(c.level, c.in0, T, c.in1)
  BY <1>1
<1> HIDE DEF all, kept, first, T
<1>14. \A f \in T : \A t \in f : \E g \in c.in0 \cup c.in1 : t \in g
  BY <1>7, <1>8, <1>9
<1>15. /\ TablesOK' /\ Sorted' /\ NewestFirst'
       /\ \A t : Stored(t)' => Stored(t)
       /\ \A t : Stored(t) => Stored(t)' \/ \E g \in c.in0 \cup c.in1 : t \in g
       /\ \A f \in T : \A t \in f : Stored(t)'
  BY <1>2, <1>3, <1>4, <1>7, <1>13, <1>14, Merged, SMT
<1>16. \A j \in Levels : \A f \in Level(j)' :
         f \in T \/ (f \in Level(j) /\ (j = c.level => f \notin c.in0) /\ (j = c.level + 1 => f \notin c.in1))
  <2>1. PICK l \in 0 .. NumLevels - 2 : l = c.level
    BY <1>4 DEF Mergeable
  <2>2. /\ Level(l)' = Level(l) \ c.in0
        /\ Level(l + 1)' = (Level(l + 1) \ c.in1) \cup T
        /\ \A j \in Levels \ {l, l + 1} : Level(j)' = Level(j)
    BY <1>3, <1>13, <2>1, InstalledLevels, SMT
  <2>3. l # l + 1
    BY SMT
  <2> QED
    BY <2>1, <2>2, <2>3
<1>17. ASSUME NEW t \in all, Obsolete(t), NEW u \in Entries, Stored(u)', UserKey(u) = UserKey(t)
       PROVE  t <= u
  <2>1. PICK g \in c.in0 \cup c.in1 : t \in g
    BY <1>8
  <2>2. t \in Nat /\ u \in Nat /\ t <= c.smallest_snapshot /\ IsBaseLevelForKey(UserKey(t))
    BY <1>6, <1>17, SMT DEF Obsolete, Entries
  <2>3. CASE u \in mem_ \/ u \in imm_
    <3>1. \A j \in Levels : \A f \in Level(j) : Newer(mem_, f) /\ Newer(imm_, f)
      BY <1>3 DEF NewestFirst
    <3>2. PICK j \in Levels : g \in Level(j)
      <4>1. c.level \in Levels /\ c.level + 1 \in Levels /\ c.level + 1 # 0
        BY <1>4, NextLevel DEF Mergeable
      <4> QED
        BY <1>4, <4>1 DEF Mergeable, Level
    <3>3. u > t
      BY <1>17, <2>1, <2>3, <3>1, <3>2 DEF Newer
    <3> QED
      BY <2>2, <3>3, SMT
  <2>4. ASSUME NEW j \in Levels, NEW f \in Level(j)', u \in f PROVE t <= u
    <3>1. CASE f \in T
      <4>1. u \in kept
        BY <1>7, <2>4, <3>1
      <4>2. ~(u < t)
        BY <1>11, <1>17, <2>2, <4>1 DEF Hidden
      <4> QED
        BY <2>2, <4>2, SMT
    <3>2. CASE f \in Level(j) /\ (j = c.level => f \notin c.in0) /\ (j = c.level + 1 => f \notin c.in1)
      <4>1. t < u
        BY <1>2, <1>3, <1>17, <2>1, <2>2, <2>4, <3>2, NothingOlder
      <4> QED
        BY <2>2, <4>1, SMT
    <3> QED
      BY <1>16, <2>4, <3>1, <3>2
  <2> QED
    BY <1>2, <1>17, <2>3, <2>4 DEF Stored
<1>18. Accounted'
  <2> SUFFICES ASSUME NEW s \in snapshots_ \cup {Len(log)}, NEW t \in 1..s,
                      \A u \in 1..s : UserKey(u) = UserKey(t) => u <= t
               PROVE  \/ Stored(t)'
                      \/ IsDeletion(t) /\ \A u \in Entries : Stored(u)' /\ UserKey(u) = UserKey(t) => t <= u
    BY <1>2, SameLog DEF Accounted
  <2>1. CASE ~Stored(t)
    <3>1. IsDeletion(t) /\ \A u \in Entries : Stored(u) /\ UserKey(u) = UserKey(t) => t <= u
      BY <1>3, <2>1 DEF Accounted
    <3> QED
      BY <1>15, <3>1
  <2>2. CASE t \in all \ kept /\ Hidden(t, all)
    <3>1. PICK u \in all : UserKey(u) = UserKey(t) /\ t < u /\ u <= c.smallest_snapshot
      BY <2>2 DEF Hidden
    <3>2. u \in Nat /\ u >= 1 /\ t \in Nat /\ s \in Nat /\ c.smallest_snapshot <= s
      BY <1>3, <1>4, <1>6, SMT DEF Entries, LogOK
    <3>3. u \in 1..s
      BY <1>4, <3>1, <3>2, SMT
    <3> QED
      BY <3>1, <3>2, <3>3, SMT
  <2>3. CASE t \in all \ kept /\ Obsolete(t)
    BY <1>17, <2>3 DEF Obsolete
  <2>4. CASE Stored(t) /\ ~Stored(t)'
    <3>1. t \in all
      BY <1>12, <1>15, <2>4
    <3>2. t \notin kept
      BY <1>7, <1>15, <2>4
    <3> QED
      BY <1>10, <2>2, <2>3, <3>1, <3>2
  <2> QED
    BY <2>1, <2>4
<1>19. LogOK' /\ Running'
  BY <1>2, <1>3 DEF LogOK, Running, Idle
<1> QED
  BY <1>15, <1>18, <1>19 DEF IInv

-----------------------------------------------------------------------------
(* What Get() finds *)

\* FindFile(): the only table of a level that may have an entry the read can use
LEMMA FindFileFact ==
  ASSUME LogOK, TablesOK, Sorted, NEW l \in Deep, NEW k \in Keys, NEW s \in Nat,
         NEW F, F = FindFile(l, k, s)
  PROVE  /\ F = {} \/ F \in files[l]
         /\ \A f \in files[l] : \A t \in f : UserKey(t) = k /\ t <= s => F = f
<1> DEFINE later == {f \in files[l] : UserKey(Largest(f)) > k \/ (UserKey(Largest(f)) = k /\ Largest(f) <= s)}
<1>1. \A f \in files[l] : f \in Tables
  BY DEF TablesOK
<1>2. \A f \in files[l] : Low(f) \in Nat /\ High(f) \in Nat /\ Low(f) <= High(f)
  BY <1>1, TableFact
<1>3. k \in Nat
  BY BoundsAssumption, SMT DEF Keys
<1>4. \A f \in later : f \in files[l] /\ k <= High(f)
  BY <1>2, <1>3, SMT DEF High
<1>5. ASSUME NEW f \in files[l], NEW t \in f, UserKey(t) = k, t <= s PROVE f \in later
  <2>1. k <= High(f) /\ (k = High(f) => Largest(f) <= t) /\ Largest(f) \in f
    BY <1>1, <1>5, LargestFact
  <2>2. t \in Nat /\ Largest(f) \in Nat
    BY <1>1, <2>1, KeyFact DEF Tables
  <2>3. k < High(f) \/ (High(f) = k /\ Largest(f) <= s)
    BY <1>2, <1>3, <1>5, <2>1, <2>2, SMT
  <2> QED
    BY <1>2, <1>3, <2>3 DEF High
<1>6. CASE later = {}
  <2>1. F = {}
    BY <1>6 DEF FindFile
  <2> QED
    BY <1>5, <1>6, <2>1
<1>7. CASE later # {}
  <2>1. F = CHOOSE f \in later : \A g \in later \ {f} : Before(Smallest(f), Smallest(g))
    BY <1>7 DEF FindFile
  <2> HIDE DEF later
  <2> DEFINE A == {Low(f) : f \in later}
  <2>2. A \in SUBSET Nat /\ A # {}
    BY <1>2, <1>4, <1>7
  <2>3. Min(A) \in A /\ \A y \in A : Min(A) <= y
    BY <2>2, MinFact
  <2>4. PICK m \in later : Low(m) = Min(A)
    BY <2>3
  <2>5. ASSUME NEW g \in later \ {m} PROVE Before(Smallest(m), Smallest(g))
    <3>1. Low(m) <= Low(g)
      BY <2>3, <2>4
    <3>2. Left(m, g) \/ Left(g, m)
      BY <1>4 DEF Sorted, Apart
    <3>3. Low(m) < Low(g)
      BY <1>2, <1>4, <3>1, <3>2, SMT DEF Left
    <3> QED
      BY <3>3 DEF Before, Low
  <2>6. F \in later /\ \A g \in later \ {F} : Before(Smallest(F), Smallest(g))
    BY <2>1, <2>4, <2>5
  <2>7. ASSUME NEW f \in files[l], NEW t \in f, UserKey(t) = k, t <= s, F # f PROVE FALSE
    <3>1. f \in later
      BY <1>5, <2>7
    <3>2. Low(F) <= Low(f)
      BY <1>2, <1>4, <2>6, <2>7, <3>1, SMT DEF Before, Low
    <3>3. Left(F, f) \/ Left(f, F)
      BY <1>4, <2>6, <2>7 DEF Sorted, Apart
    <3>4. Low(f) <= k /\ k <= High(F)
      BY <1>1, <1>4, <2>6, <2>7, SmallestFact
    <3>5. F \in files[l]
      BY <1>4, <2>6
    <3> QED
      BY <1>2, <1>3, <3>2, <3>3, <3>4, <3>5, SMT DEF Left
  <2> QED
    BY <1>4, <2>6, <2>7
<1> QED
  BY <1>6, <1>7

\* e is the newest entry of k up to s that is stored, or 0 if none is.
Finds(e, k, s) ==
  /\ e # 0 => Stored(e) /\ UserKey(e) = k /\ e <= s
  /\ \A t \in Entries : Stored(t) /\ UserKey(t) = k /\ t <= s => t <= e

\* The tables are searched in the order of age.
LEMMA VersionGetFact ==
  ASSUME LogOK, TablesOK, Sorted, NewestFirst, NEW k \in Keys, NEW s \in Nat, NEW v, v = VersionGet(k, s)
  PROVE  /\ v \in Nat
         /\ v # 0 => (\E l \in Levels : \E f \in Level(l) : v \in f) /\ UserKey(v) = k /\ v <= s
         /\ \A l \in Levels : \A f \in Level(l) : \A t \in f : UserKey(t) = k /\ t <= s => t <= v
<1> DEFINE hit0 == [n \in DOMAIN level0 |-> Newest(level0[n], k, s)]
           hit == [l \in Deep |-> Newest(FindFile(l, k, s), k, s)]
           found0 == {n \in DOMAIN level0 : hit0[n] # 0}
           found == {l \in Deep : hit[l] # 0}
<1>1. v = CASE found0 # {} -> hit0[Max(found0)]
            [] found0 = {} /\ found # {} -> hit[Min(found)]
            [] OTHER -> 0
  BY DEF VersionGet
<1>2. PICK b \in Nat : DOMAIN level0 \subseteq 1..b
  BY DEF TablesOK
<1>3. /\ 0 \in Levels /\ \A l \in Deep : l \in Levels /\ l \in Nat /\ 0 < l /\ Level(l) = files[l]
      /\ \A l \in Levels : l # 0 => l \in Deep
  BY SMT DEF Levels, Deep, Level
<1>4. /\ \A n \in DOMAIN level0 : level0[n] \in Level(0) /\ level0[n] \in SUBSET Entries /\ n \in Nat /\ n <= b
      /\ \A f \in Level(0) : \E n \in DOMAIN level0 : f = level0[n]
      /\ \A l \in Deep : files[l] \subseteq SUBSET Entries
  BY <1>2, SMT DEF TablesOK, Tables, Level, Range
<1>5. \A t \in Entries : t \in Nat /\ t # 0
  BY SMT DEF Entries
<1>6. \A n \in DOMAIN level0 :
        /\ hit0[n] \in Nat
        /\ hit0[n] # 0 => hit0[n] \in level0[n] /\ UserKey(hit0[n]) = k /\ hit0[n] <= s
        /\ \A t \in level0[n] : UserKey(t) = k /\ t <= s => t <= hit0[n]
  BY <1>4, NewestFact
<1>7. ASSUME NEW l \in Deep
      PROVE  /\ hit[l] \in Nat
             /\ hit[l] # 0 => \E f \in files[l] : hit[l] \in f /\ UserKey(hit[l]) = k /\ hit[l] <= s
             /\ \A f \in files[l] : \A t \in f : UserKey(t) = k /\ t <= s => t <= hit[l]
  <2> DEFINE F == FindFile(l, k, s)
  <2>1. /\ F = {} \/ F \in files[l]
        /\ \A f \in files[l] : \A t \in f : UserKey(t) = k /\ t <= s => F = f
    BY FindFileFact
  <2>2. hit[l] = Newest(F, k, s)
    OBVIOUS
  <2> HIDE DEF F, hit
  <2>3. F \in SUBSET Entries
    BY <1>4, <2>1
  <2>4. /\ hit[l] # 0 => hit[l] \in F /\ UserKey(hit[l]) = k /\ hit[l] <= s
        /\ hit[l] \in Nat
        /\ \A t \in F : UserKey(t) = k /\ t <= s => t <= hit[l]
    BY <2>2, <2>3, NewestFact, SMT
  <2> QED
    BY <2>1, <2>4
<1>8. /\ \A m, n \in DOMAIN level0 : n < m => Newer(level0[m], level0[n])
      /\ \A i, j \in Levels : i < j => \A f \in Level(i), g \in Level(j) : Newer(f, g)
  BY DEF NewestFirst
<1>9. \A n \in DOMAIN level0 : n \in found0 <=> hit0[n] # 0
  OBVIOUS
<1>10. \A l \in Deep : l \in found <=> hit[l] # 0
  OBVIOUS
<1>11. found0 \subseteq DOMAIN level0 /\ found \subseteq Deep
  OBVIOUS
<1> HIDE DEF hit0, hit, found0, found
<1>12. CASE found0 # {}
  <2>1. found0 \in SUBSET Nat /\ \A n \in found0 : n <= b
    BY <1>4, <1>11
  <2>2. Max(found0) \in found0 /\ \A n \in found0 : n <= Max(found0)
    BY <1>12, <2>1, MaxFact
  <2>3. PICK m \in DOMAIN level0 : m = Max(found0) /\ hit0[m] # 0 /\ v = hit0[m]
    BY <1>1, <1>9, <1>11, <1>12, <2>2
  <2>4. v \in Nat /\ v \in level0[m] /\ UserKey(v) = k /\ v <= s /\ level0[m] \in Level(0)
    BY <1>4, <1>6, <2>3
  <2>5. ASSUME NEW n \in DOMAIN level0, NEW t \in level0[n], UserKey(t) = k, t <= s PROVE t <= v
    <3>1. t \in Nat /\ t # 0 /\ t <= hit0[n] /\ hit0[n] \in Nat
      BY <1>4, <1>5, <1>6, <2>5
    <3>2. n <= m
      BY <1>9, <2>2, <2>3, <3>1, SMT
    <3>3. CASE n = m
      BY <2>3, <3>1, <3>3
    <3>4. CASE n < m
      BY <1>8, <2>4, <2>5, <3>1, <3>4, SMT DEF Newer
    <3> QED
      BY <1>4, <3>2, <3>3, <3>4, SMT
  <2>6. ASSUME NEW l \in Deep, NEW f \in Level(l), NEW t \in f, UserKey(t) = k, t <= s PROVE t <= v
    <3>1. Newer(level0[m], f)
      BY <1>3, <1>8, <2>4
    <3>2. t \in Nat
      BY <1>3, <1>4, <1>5, SMT
    <3> QED
      BY <2>4, <2>6, <3>1, <3>2, SMT DEF Newer
  <2> QED
    BY <1>3, <1>4, <2>4, <2>5, <2>6, SMT
<1>13. ASSUME found0 = {} PROVE \A f \in Level(0) : \A t \in f : ~(UserKey(t) = k /\ t <= s)
  <2> SUFFICES ASSUME NEW n \in DOMAIN level0, NEW t \in level0[n], UserKey(t) = k, t <= s PROVE FALSE
    BY <1>4
  <2>1. hit0[n] = 0 /\ t <= hit0[n] /\ t \in Nat /\ t # 0
    BY <1>4, <1>5, <1>6, <1>9, <1>13
  <2> QED
    BY <2>1, SMT
<1>14. CASE found0 = {} /\ found # {}
  <2>1. found \in SUBSET Nat
    BY <1>3, <1>11
  <2>2. Min(found) \in found /\ \A l \in found : Min(found) <= l
    BY <1>14, <2>1, MinFact
  <2>3. PICK m \in Deep : m = Min(found) /\ hit[m] # 0 /\ v = hit[m]
    BY <1>1, <1>10, <1>11, <1>14, <2>2
  <2>4. PICK g \in files[m] : v \in g /\ UserKey(v) = k /\ v <= s /\ v \in Nat
    BY <1>7, <2>3
  <2>5. ASSUME NEW l \in Deep, NEW f \in files[l], NEW t \in f, UserKey(t) = k, t <= s PROVE t <= v
    <3>1. t \in Nat /\ t # 0 /\ t <= hit[l] /\ hit[l] \in Nat
      BY <1>4, <1>5, <1>7, <2>5
    <3>2. m <= l
      BY <1>10, <2>2, <2>3, <3>1, SMT
    <3>3. CASE l = m
      BY <2>3, <3>1, <3>3
    <3>4. CASE m < l
      <4>1. Newer(g, f)
        BY <1>3, <1>8, <3>4
      <4> QED
        BY <2>4, <2>5, <3>1, <4>1, SMT DEF Newer
    <3> QED
      BY <1>3, <3>2, <3>3, <3>4, SMT
  <2> QED
    BY <1>3, <1>13, <1>14, <2>4, <2>5
<1>15. CASE found0 = {} /\ found = {}
  <2>1. v = 0
    BY <1>1, <1>15
  <2>2. ASSUME NEW l \in Deep, NEW f \in files[l], NEW t \in f, UserKey(t) = k, t <= s PROVE FALSE
    <3>1. hit[l] = 0 /\ t <= hit[l] /\ t \in Nat /\ t # 0
      BY <1>4, <1>5, <1>7, <1>10, <1>15, <2>2
    <3> QED
      BY <3>1, SMT
  <2> QED
    BY <1>3, <1>13, <1>15, <2>1, <2>2, SMT
<1> QED
  BY <1>12, <1>14, <1>15

\* Get() finds the newest entry that is stored.
LEMMA LookupFact ==
  ASSUME LogOK, TablesOK, Sorted, NewestFirst, NEW k \in Keys, NEW s \in Nat, NEW e, e = Lookup(k, s)
  PROVE  Finds(e, k, s) /\ e \in Nat
<1> DEFINE inMem == Newest(mem_, k, s)
           inImm == Newest(imm_, k, s)
           v == VersionGet(k, s)
<1>1. e = CASE inMem # 0 -> inMem
            [] inMem = 0 /\ inImm # 0 -> inImm
            [] OTHER -> v
  BY DEF Lookup
<1>2. mem_ \in SUBSET Entries /\ imm_ \in SUBSET Entries
  BY DEF TablesOK
<1>3. /\ inMem # 0 => inMem \in mem_ /\ UserKey(inMem) = k /\ inMem <= s
      /\ inMem \in Nat
      /\ \A t \in mem_ : UserKey(t) = k /\ t <= s => t <= inMem
  BY <1>2, NewestFact
<1>4. /\ inImm # 0 => inImm \in imm_ /\ UserKey(inImm) = k /\ inImm <= s
      /\ inImm \in Nat
      /\ \A t \in imm_ : UserKey(t) = k /\ t <= s => t <= inImm
  BY <1>2, NewestFact
<1>5. /\ v \in Nat
      /\ v # 0 => (\E l \in Levels : \E f \in Level(l) : v \in f) /\ UserKey(v) = k /\ v <= s
      /\ \A l \in Levels : \A f \in Level(l) : \A t \in f : UserKey(t) = k /\ t <= s => t <= v
  BY VersionGetFact
<1>6. /\ Newer(mem_, imm_)
      /\ \A l \in Levels : \A f \in Level(l) : Newer(mem_, f) /\ Newer(imm_, f)
  BY DEF NewestFirst
<1>7. \A t \in Entries : t \in Nat /\ t # 0
  BY SMT DEF Entries
<1> HIDE DEF inMem, inImm, v
<1>8. \A t \in Entries : Stored(t) => t \in mem_ \/ t \in imm_ \/ \E l \in Levels : \E f \in Level(l) : t \in f
  BY DEF Stored
<1>9. CASE inMem # 0
  <2>1. e = inMem /\ e \in mem_ /\ UserKey(e) = k /\ e <= s /\ e \in Nat
    BY <1>1, <1>3, <1>9
  <2>2. \A t \in Entries : t \in imm_ /\ UserKey(t) = k => e > t
    BY <1>6, <2>1 DEF Newer
  <2>3. \A t \in Entries : (\E l \in Levels : \E f \in Level(l) : t \in f) /\ UserKey(t) = k => e > t
    BY <1>6, <2>1 DEF Newer
  <2>4. \A t \in Entries : Stored(t) /\ UserKey(t) = k /\ t <= s => t <= e
    BY <1>3, <1>7, <1>8, <2>1, <2>2, <2>3, SMT
  <2> QED
    BY <2>1, <2>4 DEF Finds, Stored
<1>10. ASSUME inMem = 0 PROVE \A t \in Entries : ~(t \in mem_ /\ UserKey(t) = k /\ t <= s)
  BY <1>3, <1>7, <1>10, SMT
<1>11. CASE inMem = 0 /\ inImm # 0
  <2>1. e = inImm /\ e \in imm_ /\ UserKey(e) = k /\ e <= s /\ e \in Nat
    BY <1>1, <1>4, <1>11
  <2>2. \A t \in Entries : (\E l \in Levels : \E f \in Level(l) : t \in f) /\ UserKey(t) = k => e > t
    BY <1>6, <2>1 DEF Newer
  <2>3. \A t \in Entries : Stored(t) /\ UserKey(t) = k /\ t <= s => t <= e
    BY <1>4, <1>7, <1>8, <1>10, <1>11, <2>1, <2>2, SMT
  <2> QED
    BY <2>1, <2>3 DEF Finds, Stored
<1>12. ASSUME inImm = 0 PROVE \A t \in Entries : ~(t \in imm_ /\ UserKey(t) = k /\ t <= s)
  BY <1>4, <1>7, <1>12, SMT
<1>13. CASE inMem = 0 /\ inImm = 0
  <2>1. e = v
    BY <1>1, <1>13
  <2>2. \A t \in Entries : Stored(t) /\ UserKey(t) = k /\ t <= s => t <= e
    BY <1>5, <1>8, <1>10, <1>12, <1>13, <2>1
  <2> QED
    BY <1>5, <2>1, <2>2 DEF Finds, Stored
<1> QED
  BY <1>9, <1>11, <1>13

\* Get() returns the newest write its read point can see.
LEMMA GetFact ==
  ASSUME LogOK, TablesOK, Sorted, NewestFirst, Accounted, NEW k \in Keys, NEW s \in snapshots_ \cup {Len(log)}
  PROVE  IsNewest(Get(k, s), k, s)
<1> DEFINE e == Lookup(k, s)
           writes == {t \in 1..s : UserKey(t) = k}
<1>1. s \in Nat /\ s <= Len(log) /\ Len(log) \in Nat
  BY SMT DEF LogOK
<1>2. Finds(e, k, s) /\ e \in Nat
  BY <1>1, LookupFact
<1>3. Get(k, s) = IF e = 0 \/ IsDeletion(e) THEN 0 ELSE e
  BY DEF Get
<1>4. \A x : IsNewest(x, k, s) <=>
               IF x = 0 THEN \A t \in writes : IsDeletion(t) \/ \E u \in writes : t < u
               ELSE x \in writes /\ ~IsDeletion(x) /\ \A t \in writes : t <= x
  BY DEF IsNewest
<1>5. /\ writes \in SUBSET Nat /\ \A t \in writes : t <= s /\ t \in Entries /\ t # 0 /\ t \in 1..s /\ UserKey(t) = k
      /\ \A t \in 1..s : UserKey(t) = k => t \in writes
  BY <1>1, SMT DEF Entries
<1> HIDE DEF e, writes
<1>6. e # 0 => e \in writes /\ Stored(e)
  <2>1. ASSUME e # 0 PROVE e \in 1..s /\ UserKey(e) = k /\ Stored(e)
    <3>1. Stored(e) /\ UserKey(e) = k /\ e <= s
      BY <1>2, <2>1 DEF Finds
    <3> QED
      BY <1>1, <1>2, <2>1, <3>1, SMT
  <2> QED
    BY <1>5, <2>1
<1>7. CASE writes = {}
  BY <1>3, <1>4, <1>6, <1>7
<1>8. CASE writes # {}
  <2>1. PICK w \in writes : \A t \in writes : t <= w
    BY <1>1, <1>5, <1>8, MaxFact
  <2>2. Stored(w) \/ (IsDeletion(w) /\ \A u \in Entries : Stored(u) /\ UserKey(u) = UserKey(w) => w <= u)
    <3>1. w \in 1..s /\ \A u \in 1..s : UserKey(u) = UserKey(w) => u <= w
      BY <1>5, <2>1
    <3> QED
      BY <3>1 DEF Accounted
  <2>3. CASE Stored(w)
    <3>1. w <= e
      BY <1>2, <1>5, <2>3 DEF Finds
    <3>2. e = w
      BY <1>2, <1>5, <1>6, <2>1, <3>1, SMT
    <3> QED
      BY <1>3, <1>4, <1>5, <2>1, <3>2, SMT
  <2>4. CASE ~Stored(w)
    <3>1. e = 0
      <4>1. ASSUME e # 0 PROVE FALSE
        <5>1. e \in writes /\ Stored(e) /\ e <= w
          BY <1>6, <2>1, <4>1
        <5>2. w <= e
          BY <1>5, <2>2, <2>4, <5>1
        <5>3. w \in Nat /\ e \in Nat
          BY <1>2, <1>5
        <5> QED
          BY <2>4, <5>1, <5>2, <5>3, SMT
      <4> QED
        BY <4>1
    <3> QED
      BY <1>3, <1>4, <1>5, <2>1, <2>2, <2>4, <3>1, SMT
  <2> QED
    BY <2>3, <2>4
<1> QED
  BY <1>7, <1>8

-----------------------------------------------------------------------------
(* The invariant holds *)

\* Nothing is stored, and nothing is missed.
LEMMA InitIInv == Init => IInv
<1> SUFFICES ASSUME Init PROVE IInv
  OBVIOUS
<1>1. /\ log = <<>> /\ mem_ = {} /\ imm_ = {} /\ level0 = [n \in {} |-> {}] /\ files = [l \in Deep |-> {}]
      /\ snapshots_ = {} /\ c = Idle
  BY DEF Init
<1>2. LogOK /\ Len(log) = 0
  BY <1>1, SMT DEF LogOK
<1>3. \A l \in Levels : Level(l) = {}
  BY <1>1 DEF Level, Levels, Deep, Range
<1>4. TablesOK
  BY <1>1 DEF TablesOK
<1>5. Sorted
  BY <1>1 DEF Sorted
<1>6. NewestFirst
  BY <1>1, <1>3 DEF NewestFirst, Newer
<1>7. Accounted
  BY <1>1, <1>2, SMT DEF Accounted
<1>8. Running
  BY <1>1 DEF Running
<1> QED
  BY <1>2, <1>4, <1>5, <1>6, <1>7, <1>8 DEF IInv

\* Every step keeps the invariant, where an output never ends within a user key
\* and no memtable is flushed past level 0 while a manual compaction runs.
LEMMA NextKeeps == Windows = {} /\ IInv /\ [Next]_vars => IInv'
<1> SUFFICES ASSUME Windows = {}, IInv, [Next]_vars PROVE IInv'
  OBVIOUS
<1>1. ASSUME UNCHANGED vars PROVE IInv'
  <2>1. /\ log' = log /\ mem_' = mem_ /\ imm_' = imm_ /\ level0' = level0 /\ files' = files
        /\ snapshots_' = snapshots_ /\ c' = c
    BY <1>1 DEF vars
  <2>2. \A l : Level(l)' = Level(l)
    BY <2>1, SameLevels
  <2>3. LogOK' /\ TablesOK' /\ Sorted' /\ Running'
    BY <2>1, SameLog, SameLevels, RunningStays DEF IInv, LogOK, TablesOK
  <2>4. NewestFirst'
    BY <2>1, <2>2, SameLog DEF IInv, NewestFirst
  <2>5. \A t : Stored(t)' <=> Stored(t)
    BY <2>1, <2>2 DEF Stored
  <2>6. Accounted'
    BY <2>1, <2>5, SameLog DEF IInv, Accounted
  <2> QED
    BY <2>3, <2>4, <2>6 DEF IInv
<1> QED
  BY <1>1, WriteKeeps, SwitchKeeps, SnapshotKeeps, FlushKeeps, MoveKeeps, StartKeeps, FinishKeeps, ReopenKeeps
     DEF Next

\* The invariant, for every number of keys, levels, writes and snapshots
LEMMA Invariance == ASSUME Windows = {} PROVE Spec => []IInv
<1>1. IInv /\ [Next]_vars => IInv'
  BY NextKeeps
<1> QED
  BY <1>1, InitIInv, PTL DEF Spec

\* Tables of a level below 0 that are apart are in order.
LEMMA InOrder == IInv => LevelsInOrder
<1> SUFFICES ASSUME IInv PROVE NoOverlap
  BY DEF IInv, LevelsInOrder
<1>1. \A l \in Deep : \A f, g \in files[l] : f # g => Apart(f, g)
  BY DEF IInv, Sorted
<1>2. \A f, g : Left(f, g) => Before(Largest(f), Smallest(g))
  BY DEF Left, Low, High, Before
<1> QED
  BY <1>1, <1>2 DEF NoOverlap, Apart

\* The tables of a level below 0 do not overlap, and of one user key the newest
\* entries come first where Get() looks (SaveTo() and Version::Get(),
\* version_set.cc): flushes within a compaction, moves, manual compactions and
\* restarts keep it so, for every number of keys, levels, writes and snapshots.
THEOREM LevelsTheorem == ASSUME Windows = {} PROVE Spec => []LevelsInOrder
BY Invariance, InOrder, PTL

\* Get() (db_impl.cc) returns the newest write its snapshot can see, whatever was
\* flushed, moved, merged, dropped or recovered before.
THEOREM ReadsTheorem == ASSUME Windows = {} PROVE Spec => []ReadsAreRight
<1>1. IInv => ReadsAreRight
  BY GetFact DEF IInv, ReadsAreRight, LastSequence
<1> QED
  BY <1>1, Invariance, PTL

-----------------------------------------------------------------------------
(* What Get() answers *)

\* At most one answer of Get() is right.
LEMMA OneAnswer ==
  ASSUME NEW k, NEW s \in Nat, NEW e, NEW f, IsNewest(e, k, s), IsNewest(f, k, s)
  PROVE  e = f
<1> DEFINE writes == {t \in 1..s : UserKey(t) = k}
<1>1. \A x : IsNewest(x, k, s) <=>
               IF x = 0 THEN \A t \in writes : IsDeletion(t) \/ \E u \in writes : t < u
               ELSE x \in writes /\ ~IsDeletion(x) /\ \A t \in writes : t <= x
  BY DEF IsNewest
<1>2. \A t \in writes : t \in Nat /\ t # 0
  BY SMT
<1> HIDE DEF writes
<1>3. CASE e = 0 \/ f = 0
  BY <1>1, <1>2, <1>3, SMT
<1>4. CASE e # 0 /\ f # 0
  BY <1>1, <1>2, <1>4, SMT
<1> QED
  BY <1>3, <1>4

\* A new write changes no answer at a sequence number before it, and none at its
\* own sequence number for another key.
LEMMA AnswersStay ==
  ASSUME LogOK, NEW j \in Keys, NEW d \in BOOLEAN, log' = Append(log, [key |-> j, del |-> d]),
         NEW n \in Nat, n = Len(log), NEW k, NEW e
  PROVE  /\ \A s \in 0..n : IsNewest(e, k, s)' <=> IsNewest(e, k, s)
         /\ k # j => (IsNewest(e, k, n + 1)' <=> IsNewest(e, k, n))
<1>1. \A t \in 1..n : UserKey(t)' = UserKey(t) /\ IsDeletion(t)' = IsDeletion(t)
  BY SMT DEF LogOK, UserKey, IsDeletion
<1>2. UserKey(n + 1)' = j
  BY SMT DEF LogOK, UserKey
<1>3. ASSUME NEW s \in 0..n PROVE IsNewest(e, k, s)' <=> IsNewest(e, k, s)
  <2>1. \A t \in 1..s : UserKey(t)' = UserKey(t) /\ IsDeletion(t)' = IsDeletion(t)
    BY <1>1, SMT
  <2>2. {t \in 1..s : UserKey(t)' = k} = {t \in 1..s : UserKey(t) = k}
    BY <2>1
  <2> QED
    BY <2>1, <2>2 DEF IsNewest
<1>4. ASSUME k # j PROVE IsNewest(e, k, n + 1)' <=> IsNewest(e, k, n)
  <2>1. {t \in 1 .. n + 1 : UserKey(t)' = k} = {t \in 1..n : UserKey(t) = k}
    BY <1>1, <1>2, <1>4, SMT
  <2> QED
    BY <1>1, <2>1 DEF IsNewest
<1> QED
  BY <1>3, <1>4

\* What Get() answers is a write, or 0.
LEMMA AnswerType ==
  ASSUME NEW s \in Nat, NEW k, NEW e, IsNewest(e, k, s)
  PROVE  e \in 0..s
BY SMT DEF IsNewest

-----------------------------------------------------------------------------
(* The refinement *)

\* In the initial state nothing is found.
LEMMA StoreInit == Init /\ ReadsAreRight => Store!Init
<1> SUFFICES ASSUME Init, ReadsAreRight PROVE Store!Init
  OBVIOUS
<1>1. \A k \in Keys : IsNewest(Get(k, 0), k, 0)
  BY DEF Init, ReadsAreRight, LastSequence
<1>2. \A k \in Keys : Get(k, 0) = 0
  BY <1>1, AnswerType, SMT
<1> QED
  BY <1>2 DEF Init, Store!Init, LastSequence

\* Without a write every answer stays, at every sequence number that is read.
LEMMA QuietStep ==
  ASSUME LogOK, ReadsAreRight, ReadsAreRight', log' = log,
         NEW k \in Keys, NEW s \in snapshots_ \cup {Len(log)}, s \in snapshots_' \cup {Len(log)}
  PROVE  Get(k, s)' = Get(k, s)
<1>1. s \in Nat
  BY SMT DEF LogOK
<1>2. IsNewest(Get(k, s), k, s)
  BY DEF ReadsAreRight, LastSequence
<1>3. PICK e : e = Get(k, s)'
  OBVIOUS
<1>4. IsNewest(e, k, s)'
  BY <1>3 DEF ReadsAreRight, LastSequence
<1>5. IsNewest(e, k, s)
  BY <1>4 DEF IsNewest, UserKey, IsDeletion
<1> QED
  BY <1>1, <1>2, <1>3, <1>5, OneAnswer

\* The writes stay: only the set of snapshots may change.
LEMMA QuietRefines ==
  ASSUME LogOK, ReadsAreRight, ReadsAreRight', log' = log,
         \/ snapshots_' \subseteq snapshots_
         \/ snapshots_' = snapshots_ \cup {Len(log)}
  PROVE  Store!Next
<1>1. PICK n \in Nat : n = Len(log)
  BY SMT DEF LogOK
<1>2. LastSequence = n /\ LastSequence' = n
  BY <1>1 DEF LastSequence
<1>3. \A k \in Keys : Get(k, n)' = Get(k, n)
  BY <1>1, QuietStep
<1>4. \A k \in Keys, s \in snapshots_ : s \in snapshots_' => Get(k, s)' = Get(k, s)
  BY QuietStep
<1>5. CASE snapshots_' \subseteq snapshots_
  BY <1>2, <1>3, <1>4, <1>5 DEF Store!Next, Store!ReleaseSnapshot
<1>6. CASE snapshots_' = snapshots_ \cup {Len(log)}
  BY <1>1, <1>2, <1>3, <1>4, <1>6 DEF Store!Next, Store!GetSnapshot
<1> QED
  BY <1>5, <1>6

\* A write changes what is read without a snapshot, for its own key.
LEMMA WriteRefines ==
  ASSUME LogOK, ReadsAreRight, ReadsAreRight', snapshots_' = snapshots_, Len(log) < MaxWrites,
         NEW j \in Keys, NEW d \in BOOLEAN, log' = Append(log, [key |-> j, del |-> d])
  PROVE  Store!Next
<1>1. PICK n \in Nat : n = Len(log)
  BY SMT DEF LogOK
<1>2. LastSequence = n /\ LastSequence' = n + 1
  BY <1>1, SMT DEF LastSequence, LogOK
<1>3. ASSUME NEW k \in Keys, NEW s \in snapshots_ PROVE Get(k, s)' = Get(k, s)
  <2>1. s \in 0..n
    BY <1>1 DEF LogOK
  <2>2. IsNewest(Get(k, s), k, s)
    BY DEF ReadsAreRight
  <2>3. PICK e : e = Get(k, s)'
    OBVIOUS
  <2>4. IsNewest(e, k, s)'
    BY <2>3 DEF ReadsAreRight
  <2>5. IsNewest(e, k, s)
    BY <1>1, <2>1, <2>4, AnswersStay
  <2> QED
    BY <2>1, <2>2, <2>3, <2>5, OneAnswer, SMT
<1>4. ASSUME NEW k \in Keys \ {j} PROVE Get(k, n + 1)' = Get(k, n)
  <2>1. IsNewest(Get(k, n), k, n)
    BY <1>2 DEF ReadsAreRight
  <2>2. PICK e : e = Get(k, n + 1)'
    OBVIOUS
  <2>3. IsNewest(e, k, n + 1)'
    BY <1>2, <2>2 DEF ReadsAreRight
  <2>4. IsNewest(e, k, n)
    BY <1>1, <2>3, AnswersStay
  <2> QED
    BY <2>1, <2>2, <2>4, OneAnswer
<1>5. Get(j, n + 1)' \in 0..MaxWrites
  <2>1. PICK e : e = Get(j, n + 1)'
    OBVIOUS
  <2>2. IsNewest(e, j, n + 1)'
    BY <1>2, <2>1 DEF ReadsAreRight
  <2>3. e \in 0 .. n + 1
    BY <2>2, SMT DEF IsNewest
  <2> QED
    BY <1>1, <2>1, <2>3, BoundsAssumption, SMT
<1>6. Get(j, n + 1)' \in (1..MaxWrites) \cup {0}
  BY <1>5, BoundsAssumption, SMT
<1> QED
  BY <1>2, <1>3, <1>4, <1>6 DEF Store!Next, Store!Write

\* A database of any number of keys, levels and snapshots is the map with frozen
\* copies that db.h promises: flushes, moves, compactions and restarts
\* (db_impl.cc, version_set.cc) are invisible.
THEOREM IsAStore == ASSUME Windows = {} PROVE Spec => ImplementsKVStore
<1>1. ASSUME LogOK, ReadsAreRight, ReadsAreRight', [Next]_vars
      PROVE  [Store!Next]_(Store!store)
  BY <1>1, StepFacts, QuietRefines, WriteRefines
<1>2. Spec => []LogOK
  BY LogTypes
<1>3. Init /\ ReadsAreRight => Store!Init
  BY StoreInit
<1> QED
  BY <1>1, <1>2, <1>3, ReadsTheorem, PTL DEF Spec, ImplementsKVStore, Store!Spec
=============================================================================
