------------------------------ MODULE LRUCache ------------------------------
(***************************************************************************)
(* One shard of LevelDB's cache: entries with reference counts, the list   *)
(* of them by time of use, and the hash table that finds them              *)
(* (src/leveldb/util/cache.cc).  A method is one step, as it holds mutex_, *)
(* but for the loop of Insert(), which drops one entry in a step.          *)
(*                                                                         *)
(* An entry is the address malloc() gave it, which free() gives back to be *)
(* used again.  A bucket is the set of its entries: they have different    *)
(* keys, so that their order in the chain makes no difference.             *)
(***************************************************************************)
EXTENDS Naturals, Sequences, FiniteSets

CONSTANTS
  User, Key,
  Handle,         \* addresses of entries
  NULL,
  Hash,           \* the hash of each key
  InitialLength,  \* buckets of a new table, 4
  Capacity,       \* capacity_ of the shard
  Charges         \* a table is charged 1, a block its size

ASSUME HashAssumption == Hash \in [Key -> Nat] /\ InitialLength \in Nat \ {0}
ASSUME CacheAssumption ==
  /\ Capacity \in Nat /\ Charges \subseteq Nat \ {0} /\ NULL \notin Handle \cup Key \cup User
  /\ IsFiniteSet(User) /\ IsFiniteSet(Handle)

VARIABLES
  key, charge, refs,    \* fields of the entries; refs[h] = 0 if h is free
  lru_,                 \* oldest first
  list_, length_, elems_,
  usage_,
  mutex_,               \* the user in the loop of Insert(), or NULL
  handle                \* the handle each user holds, or NULL

entries == <<key, charge, refs>>
table_ == <<list_, length_, elems_>>
cache == <<entries, lru_, table_, usage_, mutex_>>

InitCache ==
  /\ key = [h \in Handle |-> NULL] /\ charge = [h \in Handle |-> 0] /\ refs = [h \in Handle |-> 0]
  /\ lru_ = <<>>
  /\ list_ = [b \in 0..InitialLength - 1 |-> {}] /\ length_ = InitialLength /\ elems_ = 0
  /\ usage_ = 0 /\ mutex_ = NULL
  /\ handle = [u \in User |-> NULL]

-----------------------------------------------------------------------------
(* HandleTable *)

Bucket(k) == Hash[k] % length_

\* The entry FindPointer() finds for k, or NULL
Find(k) ==
  IF \E h \in list_[Bucket(k)] : key[h] = k THEN CHOOSE h \in list_[Bucket(k)] : key[h] = k ELSE NULL

\* Mutant: the entries stay in their buckets when the table grows.
NotRehashed(list, keys) == [b \in 0..2 * length_ - 1 |-> IF b < length_ THEN list[b] ELSE {}]

\* Resize() to twice the buckets: elems_ is one more than length_ by now.
Resized(list, keys) ==
  [b \in 0..2 * length_ - 1 |-> {h \in UNION {list[i] : i \in 0..length_ - 1} : Hash[keys[h]] % (2 * length_) = b}]

\* Insert() of h for k, where keys is key with the new entry
TableInsert(h, k, keys) ==
  LET old == Find(k)
      list == [list_ EXCEPT ![Bucket(k)] = (@ \ {old}) \cup {h}]
  IN IF old = NULL /\ elems_ + 1 > length_
     THEN list_' = Resized(list, keys) /\ length_' = 2 * length_ /\ elems_' = elems_ + 1
     ELSE list_' = list /\ length_' = length_ /\ elems_' = IF old = NULL THEN elems_ + 1 ELSE elems_

TableRemove(h) ==
  /\ list_' = [list_ EXCEPT ![Bucket(key[h])] = @ \ {h}]
  /\ elems_' = elems_ - 1
  /\ UNCHANGED length_

-----------------------------------------------------------------------------
(* LRUCache *)

Place(h) == CHOOSE i \in 1..Len(lru_) : lru_[i] = h

LRU_Remove(h) == [i \in 1..Len(lru_) - 1 |-> IF i < Place(h) THEN lru_[i] ELSE lru_[i + 1]]

\* Unref(): the last reference frees the entry, after its deleter.
Unref(h) ==
  /\ refs' = [refs EXCEPT ![h] = @ - 1]
  /\ IF refs[h] = 1
     THEN /\ usage_' = usage_ - charge[h]
          /\ key' = [key EXCEPT ![h] = NULL] /\ charge' = [charge EXCEPT ![h] = 0]
     ELSE UNCHANGED <<usage_, key, charge>>

Lookup(u, k) ==
  /\ mutex_ = NULL /\ handle[u] = NULL
  /\ LET e == Find(k) IN
     IF e = NULL
     THEN UNCHANGED <<refs, lru_, handle>>
     ELSE /\ refs' = [refs EXCEPT ![e] = @ + 1]
          /\ lru_' = Append(LRU_Remove(e), e)
          /\ handle' = [handle EXCEPT ![u] = e]
  /\ UNCHANGED <<key, charge, table_, usage_, mutex_>>

Release(u) ==
  /\ mutex_ = NULL /\ handle[u] # NULL
  /\ Unref(handle[u])
  /\ handle' = [handle EXCEPT ![u] = NULL]
  /\ UNCHANGED <<lru_, table_, mutex_>>

\* Insert() up to its loop: the new entry replaces an older one of its key.
Insert(u, k) ==
  /\ mutex_ = NULL /\ handle[u] = NULL
  /\ \E e \in Handle, c \in Charges :
       LET old == Find(k) IN
       /\ refs[e] = 0
       /\ lru_' = Append(IF old = NULL THEN lru_ ELSE LRU_Remove(old), e)
       /\ handle' = [handle EXCEPT ![u] = e]
       /\ IF old # NULL /\ refs[old] = 1
          THEN /\ refs' = [refs EXCEPT ![e] = 2, ![old] = 0]
               /\ key' = [key EXCEPT ![e] = k, ![old] = NULL]
               /\ charge' = [charge EXCEPT ![e] = c, ![old] = 0]
               /\ usage_' = usage_ + c - charge[old]
          ELSE /\ refs' = [h \in Handle |-> IF h = e THEN 2 ELSE IF h = old THEN refs[h] - 1 ELSE refs[h]]
               /\ key' = [key EXCEPT ![e] = k]
               /\ charge' = [charge EXCEPT ![e] = c]
               /\ usage_' = usage_ + c
       /\ TableInsert(e, k, [key EXCEPT ![e] = k])
  /\ mutex_' = u

OverCapacity == usage_ > Capacity /\ lru_ # <<>>

\* Mutant: the entries that are pushed out are freed, users or not.
LoopFrees(u) ==
  /\ mutex_ = u /\ OverCapacity
  /\ LET old == lru_[1] IN
     /\ lru_' = LRU_Remove(old)
     /\ TableRemove(old)
     /\ refs' = [refs EXCEPT ![old] = 0] /\ usage_' = usage_ - charge[old]
     /\ key' = [key EXCEPT ![old] = NULL] /\ charge' = [charge EXCEPT ![old] = 0]
  /\ UNCHANGED <<mutex_, handle>>

\* The loop of Insert() drops the oldest entry, whether or not it is in use.
InsertLoop(u) ==
  /\ mutex_ = u /\ OverCapacity
  /\ LET old == lru_[1] IN
     /\ lru_' = LRU_Remove(old)
     /\ TableRemove(old)
     /\ Unref(old)
  /\ UNCHANGED <<mutex_, handle>>

InsertEnd(u) ==
  /\ mutex_ = u /\ ~OverCapacity
  /\ mutex_' = NULL
  /\ UNCHANGED <<entries, lru_, table_, usage_, handle>>

\* The charges of the entries S together, counted unit by unit: a sum that can
\* be reasoned about without induction
TotalCharge(charges, S) == Cardinality(UNION {{h} \X (1..charges[h]) : h \in S})

\* The destructor of the shard
Destroy ==
  /\ mutex_ = NULL
  /\ LET kept == {lru_[i] : i \in DOMAIN lru_}
         freed == {h \in kept : refs[h] = 1}
     IN /\ refs' = [h \in Handle |-> IF h \in kept THEN refs[h] - 1 ELSE refs[h]]
        /\ key' = [h \in Handle |-> IF h \in freed THEN NULL ELSE key[h]]
        /\ charge' = [h \in Handle |-> IF h \in freed THEN 0 ELSE charge[h]]
        /\ usage_' = usage_ - TotalCharge(charge, freed)
  /\ lru_' = <<>> /\ list_' = [b \in DOMAIN list_ |-> {}] /\ elems_' = 0
  /\ UNCHANGED <<length_, mutex_, handle>>

Erase(k) ==
  /\ mutex_ = NULL
  /\ LET e == Find(k) IN
     IF e = NULL
     THEN UNCHANGED <<entries, lru_, table_, usage_>>
     ELSE lru_' = LRU_Remove(e) /\ TableRemove(e) /\ Unref(e)
  /\ UNCHANGED <<mutex_, handle>>
=============================================================================
