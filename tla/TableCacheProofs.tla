-------------------------- MODULE TableCacheProofs --------------------------
(***************************************************************************)
(* For any users, keys, addresses, hash function, capacity and charges:    *)
(* the reference counts of the cache are exact, its list and its hash      *)
(* table agree, no table is freed while it is read, and none is open when  *)
(* its file is deleted.                                                    *)
(***************************************************************************)
EXTENDS TableCache, FiniteSetTheorems, TLAPS

CacheTypes ==
  /\ key \in [Handle -> Key \cup {NULL}] /\ charge \in [Handle -> Nat] /\ refs \in [Handle -> Nat]
  /\ lru_ \in Seq(Handle) /\ length_ \in Nat \ {0} /\ list_ \in [0..length_ - 1 -> SUBSET Handle]
  /\ elems_ = Cardinality(Cached)
  /\ handle \in [User -> Handle \cup {NULL}]

\* An address is free exactly if its entry has no key.
FreeHasNoKey == \A h \in Handle : refs[h] = 0 <=> key[h] = NULL

CacheInv == CacheTypes /\ FreeHasNoKey /\ TableAgrees /\ RefsAreExact

\* The list holds each entry once.
LEMMA Once ==
  ASSUME CacheInv
  PROVE  \A i, j \in 1..Len(lru_) : lru_[i] = lru_[j] => i = j
<1>1. DOMAIN lru_ = 1..Len(lru_)
  BY DEF CacheInv, CacheTypes
<1>2. \A i, j \in DOMAIN lru_ : key[lru_[i]] = key[lru_[j]] => i = j
  BY Zenon DEF CacheInv, TableAgrees
<1> QED
  BY <1>1, <1>2, Zenon

\* Entries of the cache have references and keys.
LEMMA CachedIsLive ==
  ASSUME CacheInv
  PROVE  /\ Cached \subseteq Handle /\ IsFiniteSet(Cached) /\ Cardinality(Cached) \in Nat
         /\ \A h \in Handle : IsFiniteSet(Holders(h)) /\ Cardinality(Holders(h)) \in Nat
         /\ \A h \in Cached : refs[h] > 0 /\ key[h] \in Key
         /\ \A g, h \in Cached : key[g] = key[h] => g = h
<1>1. Cached \subseteq Handle
  BY DEF CacheInv, CacheTypes, Cached
<1>2. IsFiniteSet(Cached) /\ Cardinality(Cached) \in Nat
  BY <1>1, CacheAssumption, FS_Subset, FS_CardinalityType, Zenon
<1>3. \A h \in Handle : IsFiniteSet(Holders(h)) /\ Cardinality(Holders(h)) \in Nat
  <2> SUFFICES ASSUME NEW h \in Handle PROVE IsFiniteSet(Holders(h)) /\ Cardinality(Holders(h)) \in Nat
    BY Zenon
  <2>1. Holders(h) \subseteq User
    BY Zenon DEF Holders
  <2> QED
    BY <2>1, CacheAssumption, FS_Subset, FS_CardinalityType, Zenon
<1>4. \A h \in Cached : refs[h] > 0 /\ key[h] \in Key
  <2> SUFFICES ASSUME NEW h \in Cached PROVE refs[h] > 0 /\ key[h] \in Key
    BY Zenon
  <2>1. refs[h] = Cardinality(Holders(h)) + 1
    BY <1>1, Zenon DEF CacheInv, RefsAreExact
  <2>2. refs[h] > 0
    BY <1>1, <1>3, <2>1
  <2> QED
    BY <1>1, <2>2 DEF CacheInv, CacheTypes, FreeHasNoKey
<1>5. \A g, h \in Cached : key[g] = key[h] => g = h
  BY Zenon DEF CacheInv, TableAgrees, Cached
<1> QED
  BY <1>1, <1>2, <1>3, <1>4, <1>5, Zenon

\* FindPointer() finds the entry of a key, if the cache has one.
LEMMA Finds ==
  ASSUME CacheInv, NEW k \in Key
  PROVE  /\ Bucket(k) \in 0..length_ - 1
         /\ Find(k) # NULL => Find(k) \in Cached /\ key[Find(k)] = k
         /\ Find(k) = NULL => \A h \in Cached : key[h] # k
<1>1. Bucket(k) \in 0..length_ - 1 /\ DOMAIN list_ = 0..length_ - 1
  BY HashAssumption DEF CacheInv, CacheTypes, Bucket
<1>2. \A h \in list_[Bucket(k)] : h \in Handle /\ h \in Cached
  BY <1>1, Zenon DEF CacheInv, CacheTypes, TableAgrees
<1>3. \A h \in Cached : key[h] = k => h \in list_[Bucket(k)]
  BY <1>1, CachedIsLive, Zenon DEF CacheInv, TableAgrees
<1>4. CASE \E h \in list_[Bucket(k)] : key[h] = k
  BY <1>1, <1>2, <1>4, CacheAssumption, CachedIsLive, Zenon DEF Find
<1>5. CASE ~\E h \in list_[Bucket(k)] : key[h] = k
  BY <1>1, <1>3, <1>5, Zenon DEF Find
<1> QED
  BY <1>4, <1>5, Zenon

\* LRU_Remove() takes one entry out of the list and keeps the others.
LEMMA Removes ==
  ASSUME CacheInv, NEW h \in Cached
  PROVE  /\ LRU_Remove(h) \in Seq(Handle)
         /\ {LRU_Remove(h)[i] : i \in DOMAIN LRU_Remove(h)} = Cached \ {h}
         /\ \A i, j \in DOMAIN LRU_Remove(h) : LRU_Remove(h)[i] = LRU_Remove(h)[j] => i = j
<1> DEFINE n == Len(lru_)
           p == Place(h)
           s == LRU_Remove(h)
<1>1. n \in Nat /\ lru_ \in [1..n -> Handle]
  BY DEF CacheInv, CacheTypes
<1>2. p \in 1..n /\ lru_[p] = h
  BY <1>1, Zenon DEF Cached, Place
<1>3. n - 1 \in Nat
  BY <1>1, <1>2
<1>4. s = [i \in 1..n - 1 |-> IF i < p THEN lru_[i] ELSE lru_[i + 1]]
  BY Zenon DEF LRU_Remove
<1>5. s \in [1..n - 1 -> Handle]
  BY <1>1, <1>2, <1>4
<1>6. s \in Seq(Handle)
  BY <1>3, <1>5
<1>7. \A i, j \in 1..n - 1 : s[i] = s[j] => i = j
  BY <1>1, <1>2, <1>4, Once
<1>8. \A i \in 1..n - 1 : s[i] \in Cached \ {h}
  BY <1>1, <1>2, <1>4, Once DEF Cached
<1>9. \A g \in Cached \ {h} : \E i \in 1..n - 1 : s[i] = g
  <2> SUFFICES ASSUME NEW g \in Cached, g # h PROVE \E i \in 1..n - 1 : s[i] = g
    BY Zenon
  <2>1. PICK j \in 1..n : lru_[j] = g
    BY <1>1, Zenon DEF Cached
  <2>2. CASE j < p
    BY <1>1, <1>2, <1>4, <2>1, <2>2
  <2>3. CASE j > p
    <3>1. j - 1 \in 1..n - 1 /\ s[j - 1] = g
      BY <1>1, <1>2, <1>4, <2>1, <2>3
    <3> QED
      BY <3>1, Zenon
  <2>4. j # p
    BY <1>2, <2>1, Zenon
  <2> QED
    BY <1>1, <1>2, <2>2, <2>3, <2>4
<1>10. DOMAIN s = 1..n - 1
  BY <1>5, Zenon
<1>11. {s[i] : i \in 1..n - 1} = Cached \ {h}
  BY <1>8, <1>9, Zenon
<1> HIDE DEF s, n, p
<1> QED
  BY <1>6, <1>7, <1>10, <1>11, Zenon DEF s

\* LRU_Append() puts a new entry at the end of the list.
LEMMA Appends ==
  ASSUME NEW s \in Seq(Handle), NEW e \in Handle,
         \A i, j \in DOMAIN s : s[i] = s[j] => i = j,
         \A i \in DOMAIN s : s[i] # e
  PROVE  /\ Append(s, e) \in Seq(Handle)
         /\ {Append(s, e)[i] : i \in DOMAIN Append(s, e)} = {s[i] : i \in DOMAIN s} \cup {e}
         /\ \A i, j \in DOMAIN Append(s, e) : Append(s, e)[i] = Append(s, e)[j] => i = j
<1> DEFINE t == Append(s, e)
           n == Len(s)
<1>1. n \in Nat /\ DOMAIN s = 1..n /\ t \in Seq(Handle) /\ Len(t) = n + 1 /\ DOMAIN t = 1..n + 1
  OBVIOUS
<1>2. (\A i \in 1..n : t[i] = s[i]) /\ t[n + 1] = e
  OBVIOUS
<1> HIDE DEF t, n
<1>3. {t[i] : i \in 1..n + 1} = {s[i] : i \in 1..n} \cup {e}
  <2>1. \A i \in 1..n + 1 : i \in 1..n \/ i = n + 1
    BY <1>1
  <2>2. \A i \in 1..n : i \in 1..n + 1
    BY <1>1
  <2>3. n + 1 \in 1..n + 1
    BY <1>1
  <2> QED
    BY <1>2, <2>1, <2>2, <2>3
<1>4. \A i, j \in 1..n + 1 : t[i] = t[j] => i = j
  BY <1>1, <1>2
<1> QED
  BY <1>1, <1>3, <1>4, Zenon DEF t

\* A user that gets a handle is one more holder of its entry.
LEMMA Takes ==
  ASSUME CacheInv, NEW u \in User, NEW e \in Handle, handle[u] = NULL, handle' = [handle EXCEPT ![u] = e]
  PROVE  /\ handle' \in [User -> Handle \cup {NULL}]
         /\ \A h \in Handle : Cardinality(Holders(h)') = Cardinality(Holders(h)) + IF h = e THEN 1 ELSE 0
<1>1. handle \in [User -> Handle \cup {NULL}]
  BY Zenon DEF CacheInv, CacheTypes
<1>2. handle' \in [User -> Handle \cup {NULL}]
  BY <1>1, Zenon
<1>3. ASSUME NEW h \in Handle
      PROVE  Cardinality(Holders(h)') = Cardinality(Holders(h)) + IF h = e THEN 1 ELSE 0
  <2>1. IsFiniteSet(Holders(h)) /\ Cardinality(Holders(h)) \in Nat
    BY CachedIsLive, Zenon
  <2>2. CASE h = e
    <3>1. Holders(h)' = Holders(h) \cup {u} /\ u \notin Holders(h)
      BY <1>1, <2>2, CacheAssumption, Zenon DEF Holders
    <3> QED
      BY <2>1, <2>2, <3>1, FS_AddElement, Zenon
  <2>3. CASE h # e
    <3>1. Holders(h)' = Holders(h)
      BY <1>1, <2>3, CacheAssumption, Zenon DEF Holders
    <3> QED
      BY <2>1, <2>3, <3>1
  <2> QED
    BY <2>2, <2>3, Zenon
<1> QED
  BY <1>2, <1>3, Zenon

\* A user that gives back its handle is one holder less of its entry.
LEMMA Gives ==
  ASSUME CacheInv, NEW u \in User, NEW e \in Handle, handle[u] = e, handle' = [handle EXCEPT ![u] = NULL]
  PROVE  /\ handle' \in [User -> Handle \cup {NULL}]
         /\ \A h \in Handle : Cardinality(Holders(h)') = Cardinality(Holders(h)) - IF h = e THEN 1 ELSE 0
         /\ Cardinality(Holders(e)) > 0
<1>1. handle \in [User -> Handle \cup {NULL}]
  BY Zenon DEF CacheInv, CacheTypes
<1>2. handle' \in [User -> Handle \cup {NULL}]
  BY <1>1, Zenon
<1>3. ASSUME NEW h \in Handle
      PROVE  Cardinality(Holders(h)') = Cardinality(Holders(h)) - IF h = e THEN 1 ELSE 0
  <2>1. IsFiniteSet(Holders(h)) /\ Cardinality(Holders(h)) \in Nat
    BY CachedIsLive, Zenon
  <2>2. CASE h = e
    <3>1. Holders(h)' = Holders(h) \ {u} /\ u \in Holders(h)
      BY <1>1, <2>2, CacheAssumption, Zenon DEF Holders
    <3>2. Cardinality(Holders(h) \ {u}) = Cardinality(Holders(h)) - 1
      BY <2>1, <3>1, FS_RemoveElement, Zenon
    <3> QED
      BY <2>2, <3>1, <3>2, Zenon
  <2>3. CASE h # e
    <3>1. Holders(h)' = Holders(h)
      BY <1>1, <2>3, CacheAssumption, Zenon DEF Holders
    <3> QED
      BY <2>1, <2>3, <3>1
  <2> QED
    BY <2>2, <2>3, Zenon
<1>4. Cardinality(Holders(e)) > 0
  <2>1. u \in Holders(e)
    BY Zenon DEF Holders
  <2>2. IsFiniteSet(Holders(e)) /\ Cardinality(Holders(e)) \in Nat
    BY CachedIsLive, Zenon
  <2>3. Cardinality(Holders(e)) # 0
    BY <2>1, <2>2, FS_EmptySet, Zenon
  <2> QED
    BY <2>2, <2>3
<1> QED
  BY <1>2, <1>3, <1>4, Zenon

\* TableRemove() of an entry that leaves the list keeps table and list agreed.
LEMMA TableRemoves ==
  ASSUME CacheInv, NEW e \in Cached, TableRemove(e), Cached' = Cached \ {e},
         \A h \in Handle : h # e => key'[h] = key[h]
  PROVE  /\ length_' = length_ /\ list_' \in [0..length_ - 1 -> SUBSET Handle]
         /\ elems_' = Cardinality(Cached')
         /\ \A h \in Handle, b \in DOMAIN list_' : h \in list_'[b] <=> h \in Cached' /\ Bucket(key[h])' = b
<1>1. /\ e \in Handle /\ key[e] \in Key /\ IsFiniteSet(Cached) /\ Cached \subseteq Handle
      /\ Bucket(key[e]) \in 0..length_ - 1
  BY CachedIsLive, Finds, Zenon
<1>2. list_ \in [0..length_ - 1 -> SUBSET Handle] /\ elems_ = Cardinality(Cached)
  BY Zenon DEF CacheInv, CacheTypes
<1>3. /\ list_' = [list_ EXCEPT ![Bucket(key[e])] = @ \ {e}]
      /\ elems_' = elems_ - 1 /\ length_' = length_
  BY Zenon DEF TableRemove
<1>4. list_' \in [0..length_ - 1 -> SUBSET Handle]
  BY <1>2, <1>3, Zenon
<1>5. elems_' = Cardinality(Cached')
  BY <1>1, <1>2, <1>3, FS_RemoveElement, Zenon
<1>6. ASSUME NEW h \in Handle, NEW b \in 0..length_ - 1
      PROVE  h \in list_'[b] <=> h \in Cached' /\ Bucket(key[h])' = b
  <2>1. h \in list_[b] <=> h \in Cached /\ Bucket(key[h]) = b
    BY <1>2, Zenon DEF CacheInv, TableAgrees
  <2>2. h \in list_'[b] <=> h \in list_[b] /\ ~(b = Bucket(key[e]) /\ h = e)
    BY <1>1, <1>2, <1>3, Zenon
  <2>3. CASE h = e
    BY <2>1, <2>2, <2>3, Zenon
  <2>4. CASE h # e
    <3>1. Bucket(key[h])' = Bucket(key[h])
      BY <1>3, <2>4, Zenon DEF Bucket
    <3> QED
      BY <2>1, <2>2, <2>4, <3>1, Zenon
  <2> QED
    BY <2>3, <2>4, Zenon
<1> QED
  BY <1>3, <1>4, <1>5, <1>6, Zenon

\* What has references after a step had them before, with the same key.
Survive(S) == \A h \in S : refs'[h] > 0 => refs[h] > 0 /\ key'[h] = key[h]

\* Steps that leave the cache alone keep its invariant.
LEMMA Unchanged ==
  ASSUME CacheInv, UNCHANGED <<key, charge, refs, lru_, list_, length_, elems_, handle>>
  PROVE  CacheInv' /\ Survive(Handle)
<1>1. Cached' = Cached /\ \A h \in Handle : Holders(h)' = Holders(h) /\ Bucket(key[h])' = Bucket(key[h])
  BY Zenon DEF Cached, Holders, Bucket
<1>2. CacheTypes'
  BY <1>1, Zenon DEF CacheInv, CacheTypes
<1>3. FreeHasNoKey'
  BY Zenon DEF CacheInv, FreeHasNoKey
<1>4. TableAgrees'
  BY <1>1, Zenon DEF CacheInv, TableAgrees
<1>5. RefsAreExact'
  BY <1>1, Zenon DEF CacheInv, RefsAreExact
<1> QED
  BY <1>2, <1>3, <1>4, <1>5, Zenon DEF CacheInv, Survive

\* Lookup() keeps the invariant, and answers with an entry of the key asked for.
LEMMA LookupKeeps ==
  ASSUME CacheInv, NEW u \in User, NEW k \in Key, Lookup(u, k)
  PROVE  /\ CacheInv' /\ Survive(Handle)
         /\ \A v \in User : v # u => handle'[v] = handle[v]
         /\ handle'[u] # NULL => handle'[u] \in Handle /\ key'[handle'[u]] = k
<1> DEFINE e == Find(k)
<1>1. CacheTypes /\ handle[u] = NULL
  BY Zenon DEF CacheInv, Lookup
<1>2. CASE e = NULL
  <2>1. UNCHANGED <<key, charge, refs, lru_, list_, length_, elems_, handle>>
    BY <1>2, Zenon DEF Lookup, table_
  <2>2. CacheInv' /\ Survive(Handle)
    BY <2>1, Unchanged, Zenon
  <2> QED
    BY <1>1, <2>1, <2>2, Zenon
<1>3. CASE e # NULL
  <2>1. e \in Cached /\ e \in Handle /\ key[e] = k /\ refs[e] > 0
    BY <1>3, Finds, CachedIsLive, Zenon
  <2>2. /\ UNCHANGED <<key, charge, list_, length_, elems_>>
        /\ refs' = [refs EXCEPT ![e] = @ + 1]
        /\ lru_' = Append(LRU_Remove(e), e)
        /\ handle' = [handle EXCEPT ![u] = e]
    BY <1>3, Zenon DEF Lookup, table_
  <2> HIDE DEF e
  <2>3. /\ lru_' \in Seq(Handle)
        /\ {lru_'[i] : i \in DOMAIN lru_'} = Cached
        /\ \A i, j \in DOMAIN lru_' : lru_'[i] = lru_'[j] => i = j
    <3> DEFINE s == LRU_Remove(e)
    <3>1. /\ s \in Seq(Handle) /\ {s[i] : i \in DOMAIN s} = Cached \ {e}
          /\ \A i, j \in DOMAIN s : s[i] = s[j] => i = j
      BY <2>1, Removes, Zenon
    <3> HIDE DEF s
    <3>2. \A i \in DOMAIN s : s[i] # e
      BY <3>1, Zenon
    <3>3. /\ Append(s, e) \in Seq(Handle)
          /\ {Append(s, e)[i] : i \in DOMAIN Append(s, e)} = {s[i] : i \in DOMAIN s} \cup {e}
          /\ \A i, j \in DOMAIN Append(s, e) : Append(s, e)[i] = Append(s, e)[j] => i = j
      BY <2>1, <3>1, <3>2, Appends, Zenon
    <3>4. lru_' = Append(s, e)
      BY <2>2, Zenon DEF s
    <3> QED
      BY <2>1, <3>1, <3>3, <3>4
  <2>4. Cached' = Cached
    BY <2>3, Zenon DEF Cached
  <2>5. /\ handle' \in [User -> Handle \cup {NULL}]
        /\ \A h \in Handle : Cardinality(Holders(h)') = Cardinality(Holders(h)) + IF h = e THEN 1 ELSE 0
    BY <1>1, <2>1, <2>2, Takes, Zenon
  <2>6. CacheTypes'
    BY <1>1, <2>1, <2>2, <2>3, <2>4, <2>5 DEF CacheTypes
  <2>7. FreeHasNoKey'
    BY <1>1, <2>1, <2>2 DEF CacheInv, CacheTypes, FreeHasNoKey
  <2>8. TableAgrees'
    <3>1. \A h \in Handle, b \in DOMAIN list_' : h \in list_'[b] <=> h \in Cached' /\ Bucket(key[h])' = b
      BY <2>2, <2>4, Zenon DEF CacheInv, TableAgrees, Bucket
    <3>2. \A i, j \in DOMAIN lru_' : key'[lru_'[i]] = key'[lru_'[j]] => i = j
      <4>1. \A i \in DOMAIN lru_' : lru_'[i] \in Cached
        BY <2>3, Zenon
      <4>2. \A g, h \in Cached : key'[g] = key'[h] => g = h
        BY <2>2, CachedIsLive, Zenon
      <4> QED
        BY <2>3, <4>1, <4>2, Zenon
    <3> QED
      BY <3>1, <3>2, Zenon DEF TableAgrees
  <2>9. RefsAreExact'
    <3> SUFFICES ASSUME NEW h \in Handle
                 PROVE  refs'[h] = Cardinality(Holders(h)') + IF h \in Cached' THEN 1 ELSE 0
      BY Zenon DEF RefsAreExact
    <3>1. refs[h] = Cardinality(Holders(h)) + IF h \in Cached THEN 1 ELSE 0
      BY Zenon DEF CacheInv, RefsAreExact
    <3>2. refs'[h] = refs[h] + IF h = e THEN 1 ELSE 0
      BY <1>1, <2>1, <2>2 DEF CacheTypes
    <3>3. Cardinality(Holders(h)) \in Nat
      BY CachedIsLive, Zenon
    <3> QED
      BY <2>4, <2>5, <3>1, <3>2, <3>3
  <2>10. Survive(Handle)
    BY <1>1, <2>1, <2>2, Zenon DEF Survive, CacheTypes
  <2> QED
    BY <1>1, <2>1, <2>2, <2>6, <2>7, <2>8, <2>9, <2>10, Zenon DEF CacheInv, CacheTypes
<1> QED
  BY <1>2, <1>3, Zenon

\* Unref() of an entry with references
LEMMA Unrefs ==
  ASSUME CacheInv, NEW e \in Handle, refs[e] > 0, Unref(e)
  PROVE  /\ key' \in [Handle -> Key \cup {NULL}] /\ charge' \in [Handle -> Nat] /\ refs' \in [Handle -> Nat]
         /\ FreeHasNoKey' /\ Survive(Handle)
         /\ \A h \in Handle : refs'[h] = refs[h] - IF h = e THEN 1 ELSE 0
         /\ \A h \in Handle : h # e \/ refs[h] > 1 => key'[h] = key[h]
<1>1. CacheTypes /\ FreeHasNoKey
  BY Zenon DEF CacheInv
<1>2. refs' = [refs EXCEPT ![e] = @ - 1]
  BY Zenon DEF Unref
<1>3. refs' \in [Handle -> Nat]
  BY <1>1, <1>2 DEF CacheTypes
<1>4. CASE refs[e] = 1
  <2>1. key' = [key EXCEPT ![e] = NULL] /\ charge' = [charge EXCEPT ![e] = 0]
    BY <1>4, Zenon DEF Unref
  <2> QED
    BY <1>1, <1>2, <1>3, <1>4, <2>1 DEF CacheTypes, FreeHasNoKey, Survive
<1>5. CASE refs[e] # 1
  <2>1. key' = key /\ charge' = charge
    BY <1>5, Zenon DEF Unref
  <2> QED
    BY <1>1, <1>2, <1>3, <1>5, <2>1 DEF CacheTypes, FreeHasNoKey, Survive
<1> QED
  BY <1>4, <1>5, Zenon

\* Release() keeps the invariant.
LEMMA ReleaseKeeps ==
  ASSUME CacheInv, NEW u \in User, Release(u)
  PROVE  /\ CacheInv' /\ Survive(Handle) /\ handle'[u] = NULL
         /\ \A v \in User : v # u => handle'[v] = handle[v]
<1> DEFINE e == handle[u]
<1>1. CacheTypes /\ e \in Handle
  BY Zenon DEF CacheInv, CacheTypes, Release
<1>2. /\ Unref(e) /\ handle' = [handle EXCEPT ![u] = NULL]
      /\ lru_' = lru_ /\ list_' = list_ /\ length_' = length_ /\ elems_' = elems_
  BY Zenon DEF Release, table_
<1> HIDE DEF e
<1>3. /\ handle' \in [User -> Handle \cup {NULL}]
      /\ \A h \in Handle : Cardinality(Holders(h)') = Cardinality(Holders(h)) - IF h = e THEN 1 ELSE 0
      /\ Cardinality(Holders(e)) > 0
  BY <1>1, <1>2, Gives, Zenon DEF e
<1>4. \A h \in Handle : /\ refs[h] = Cardinality(Holders(h)) + IF h \in Cached THEN 1 ELSE 0
                        /\ Cardinality(Holders(h)) \in Nat
  BY CachedIsLive, Zenon DEF CacheInv, RefsAreExact
<1>5. refs[e] > 0 /\ (e \in Cached => refs[e] > 1)
  BY <1>1, <1>3, <1>4
<1>6. /\ key' \in [Handle -> Key \cup {NULL}] /\ charge' \in [Handle -> Nat] /\ refs' \in [Handle -> Nat]
      /\ FreeHasNoKey' /\ Survive(Handle)
      /\ \A h \in Handle : refs'[h] = refs[h] - IF h = e THEN 1 ELSE 0
      /\ \A h \in Handle : h # e \/ refs[h] > 1 => key'[h] = key[h]
  BY <1>1, <1>2, <1>5, Unrefs, Zenon
<1>7. Cached' = Cached
  BY <1>2, Zenon DEF Cached
<1>8. \A h \in Cached : key'[h] = key[h]
  BY <1>5, <1>6, CachedIsLive, Zenon
<1>9. CacheTypes'
  BY <1>1, <1>2, <1>3, <1>6, <1>7, Zenon DEF CacheTypes
<1>10. TableAgrees'
  <2>1. \A h \in Handle, b \in DOMAIN list_' : h \in list_'[b] <=> h \in Cached' /\ Bucket(key[h])' = b
    <3>1. \A h \in Cached : Bucket(key[h])' = Bucket(key[h])
      BY <1>2, <1>8, Zenon DEF Bucket
    <3> QED
      BY <1>2, <1>7, <3>1, Zenon DEF CacheInv, TableAgrees
  <2>2. \A i, j \in DOMAIN lru_' : key'[lru_'[i]] = key'[lru_'[j]] => i = j
    <3>1. \A i \in DOMAIN lru_ : lru_[i] \in Cached
      BY Zenon DEF Cached
    <3> QED
      BY <1>2, <1>8, <3>1 DEF CacheInv, TableAgrees
  <2> QED
    BY <2>1, <2>2, Zenon DEF TableAgrees
<1>11. RefsAreExact'
  BY <1>3, <1>4, <1>6, <1>7 DEF RefsAreExact
<1> QED
  BY <1>1, <1>2, <1>6, <1>9, <1>10, <1>11, Zenon DEF CacheInv, CacheTypes

\* Taking an entry out of list and table, and giving back the reference of the
\* cache, as Erase() and the loop of Insert() do, keeps the invariant.
LEMMA Drops ==
  ASSUME CacheInv, NEW e \in Cached, lru_' = LRU_Remove(e), TableRemove(e), Unref(e), handle' = handle
  PROVE  CacheInv' /\ Survive(Handle) /\ Cached' = Cached \ {e}
<1>1. CacheTypes /\ e \in Handle /\ refs[e] > 0 /\ Cached \subseteq Handle
  BY CachedIsLive, Zenon DEF CacheInv
<1>2. /\ lru_' \in Seq(Handle) /\ {lru_'[i] : i \in DOMAIN lru_'} = Cached \ {e}
      /\ \A i, j \in DOMAIN lru_' : lru_'[i] = lru_'[j] => i = j
  BY Removes
<1>3. Cached' = Cached \ {e}
  BY <1>2, Zenon DEF Cached
<1>4. /\ key' \in [Handle -> Key \cup {NULL}] /\ charge' \in [Handle -> Nat] /\ refs' \in [Handle -> Nat]
      /\ FreeHasNoKey' /\ Survive(Handle)
      /\ \A h \in Handle : refs'[h] = refs[h] - IF h = e THEN 1 ELSE 0
      /\ \A h \in Handle : h # e \/ refs[h] > 1 => key'[h] = key[h]
  BY <1>1, Unrefs, Zenon
<1>5. /\ length_' = length_ /\ list_' \in [0..length_ - 1 -> SUBSET Handle]
      /\ elems_' = Cardinality(Cached')
      /\ \A h \in Handle, b \in DOMAIN list_' : h \in list_'[b] <=> h \in Cached' /\ Bucket(key[h])' = b
  BY <1>3, <1>4, TableRemoves, Zenon
<1>6. CacheTypes'
  BY <1>1, <1>2, <1>4, <1>5, Zenon DEF CacheTypes
<1>7. TableAgrees'
  <2>1. \A i, j \in DOMAIN lru_' : key'[lru_'[i]] = key'[lru_'[j]] => i = j
    <3>1. \A i \in DOMAIN lru_' : lru_'[i] \in Cached /\ lru_'[i] # e
      BY <1>2
    <3>2. \A i \in DOMAIN lru_' : key'[lru_'[i]] = key[lru_'[i]]
      BY <1>1, <1>4, <3>1, Zenon
    <3>3. \A g, h \in Cached : key[g] = key[h] => g = h
      BY CachedIsLive, Zenon
    <3>4. \A i, j \in DOMAIN lru_' : key'[lru_'[i]] = key'[lru_'[j]] => lru_'[i] = lru_'[j]
      BY <3>1, <3>2, <3>3
    <3> QED
      BY <1>2, <3>4
  <2> QED
    BY <1>5, <2>1, Zenon DEF TableAgrees
<1>8. RefsAreExact'
  <2> SUFFICES ASSUME NEW h \in Handle
               PROVE  refs'[h] = Cardinality(Holders(h)') + IF h \in Cached' THEN 1 ELSE 0
    BY Zenon DEF RefsAreExact
  <2>1. Holders(h)' = Holders(h)
    BY Zenon DEF Holders
  <2>2. refs[h] = (Cardinality(Holders(h)) + IF h \in Cached THEN 1 ELSE 0) /\ Cardinality(Holders(h)) \in Nat
    BY CachedIsLive, Zenon DEF CacheInv, RefsAreExact
  <2>3. refs'[h] = refs[h] - IF h = e THEN 1 ELSE 0
    BY <1>4, Zenon
  <2>4. CASE h = e
    BY <1>3, <2>1, <2>2, <2>3, <2>4
  <2>5. CASE h # e
    BY <1>3, <2>1, <2>2, <2>3, <2>5
  <2> QED
    BY <2>4, <2>5, Zenon
<1> QED
  BY <1>3, <1>4, <1>6, <1>7, <1>8, Zenon DEF CacheInv

\* The bucket of a hash value is a bucket.
LEMMA Remainder == \A a \in Nat, b \in Nat \ {0} : a % b \in 0..b - 1
  OBVIOUS

\* HandleTable::Insert() keeps table and list agreed, whether it replaces an
\* entry, adds one, or has Resize() move all of them.
LEMMA TableInserts ==
  ASSUME CacheInv, NEW e \in Handle, refs[e] = 0, NEW k \in Key,
         TableInsert(e, k, [key EXCEPT ![e] = k]), Cached' = (Cached \ {Find(k)}) \cup {e},
         key'[e] = k, \A h \in Cached \ {Find(k)} : key'[h] = key[h]
  PROVE  /\ length_' \in Nat \ {0} /\ list_' \in [0..length_' - 1 -> SUBSET Handle]
         /\ elems_' = Cardinality(Cached')
         /\ \A h \in Handle, b \in DOMAIN list_' : h \in list_'[b] <=> h \in Cached' /\ Bucket(key[h])' = b
<1> DEFINE old == Find(k)
           keys == [key EXCEPT ![e] = k]
           list == [list_ EXCEPT ![Bucket(k)] = (@ \ {old}) \cup {e}]
<1>1. /\ CacheTypes /\ e \notin Cached /\ Cached \subseteq Handle /\ IsFiniteSet(Cached)
      /\ Cardinality(Cached) \in Nat
  BY CachedIsLive DEF CacheInv
<1>2. /\ Bucket(k) \in 0..length_ - 1
      /\ old # NULL => old \in Cached /\ key[old] = k
      /\ old = NULL => \A h \in Cached : key[h] # k
  BY Finds, Zenon
<1>3. /\ length_ \in Nat \ {0} /\ list_ \in [0..length_ - 1 -> SUBSET Handle] /\ elems_ = Cardinality(Cached)
      /\ key \in [Handle -> Key \cup {NULL}]
  BY <1>1, Zenon DEF CacheTypes
<1>4. \A h \in Cached' : h \in Handle /\ keys[h] = key'[h] /\ key'[h] \in Key
  <2>1. keys[e] = k /\ \A h \in Cached : keys[h] = key[h] /\ key[h] \in Key
    BY <1>1, <1>3, CachedIsLive, Zenon
  <2> QED
    BY <1>1, <2>1, Zenon
<1>5. elems_' = Cardinality(Cached')
  <2>1. CASE old = NULL
    <3>1. Cached' = Cached \cup {e}
      BY <1>1, <2>1, CacheAssumption, Zenon
    <3>2. Cardinality(Cached \cup {e}) = Cardinality(Cached) + 1
      BY <1>1, FS_AddElement, Zenon
    <3>3. elems_' = elems_ + 1
      BY <2>1, Zenon DEF TableInsert
    <3> QED
      BY <1>3, <3>1, <3>2, <3>3, Zenon
  <2>2. CASE old # NULL
    <3>1. IsFiniteSet(Cached \ {old}) /\ Cardinality(Cached \ {old}) = Cardinality(Cached) - 1
      BY <1>1, <1>2, <2>2, FS_RemoveElement, Zenon
    <3>2. Cardinality(Cached') = Cardinality(Cached \ {old}) + 1
      BY <1>1, <3>1, FS_AddElement, Zenon
    <3>3. elems_' = elems_
      BY <2>2, Zenon DEF TableInsert
    <3> QED
      BY <1>1, <1>3, <3>1, <3>2, <3>3
  <2> QED
    BY <2>1, <2>2, Zenon
<1>6. /\ list \in [0..length_ - 1 -> SUBSET Handle]
      /\ \A h \in Handle, b \in 0..length_ - 1 : h \in list[b] <=> h \in Cached' /\ Hash[key'[h]] % length_ = b
  <2>1. list \in [0..length_ - 1 -> SUBSET Handle]
    BY <1>2, <1>3
  <2>2. ASSUME NEW h \in Handle, NEW b \in 0..length_ - 1
        PROVE  h \in list[b] <=> h \in Cached' /\ Hash[key'[h]] % length_ = b
    <3>1. h \in list_[b] <=> h \in Cached /\ Hash[key[h]] % length_ = b
      BY <1>3, Zenon DEF CacheInv, TableAgrees, Bucket
    <3>2. h \in list[b] <=> \/ h \in list_[b] /\ ~(b = Bucket(k) /\ h = old)
                            \/ b = Bucket(k) /\ h = e
      BY <1>1, <1>2, <1>3, <3>1, Zenon
    <3>3. CASE h = e
      BY <1>1, <3>1, <3>2, <3>3, Zenon DEF Bucket
    <3>4. CASE h # e /\ h = old
      BY <1>2, <3>1, <3>2, <3>4, CacheAssumption, Zenon DEF Bucket
    <3>5. CASE h # e /\ h # old
      BY <3>1, <3>2, <3>5, Zenon
    <3> QED
      BY <3>3, <3>4, <3>5, Zenon
  <2> QED
    BY <2>1, <2>2, Zenon
<1> HIDE DEF keys, list
<1>7. CASE old = NULL /\ elems_ + 1 > length_
  <2>1. list_' = Resized(list, keys) /\ length_' = 2 * length_
    BY <1>7, Zenon DEF TableInsert, list, keys
  <2>2. length_' \in Nat \ {0}
    <3>1. length_ \in Nat \ {0} /\ length_' = 2 * length_
      BY <1>3, <2>1, Zenon
    <3> QED
      BY <3>1
  <2>3. \A h \in Handle : h \in UNION {list[i] : i \in 0..length_ - 1} <=> h \in Cached'
    <3> SUFFICES ASSUME NEW h \in Handle PROVE h \in UNION {list[i] : i \in 0..length_ - 1} <=> h \in Cached'
      BY Zenon
    <3>1. h \in Cached' => Hash[key'[h]] % length_ \in 0..length_ - 1
      <4>1. h \in Cached' => Hash[key'[h]] \in Nat
        BY <1>4, HashAssumption, Zenon
      <4>2. length_ \in Nat \ {0}
        BY <1>3, Zenon
      <4> QED
        BY <4>1, <4>2, Remainder, Zenon
    <3> QED
      BY <1>6, <3>1
  <2>4. list_' = [b \in 0..length_' - 1 |->
                    {h \in UNION {list[i] : i \in 0..length_ - 1} : Hash[keys[h]] % length_' = b}]
    BY <2>1, Zenon DEF Resized
  <2>5. list_' \in [0..length_' - 1 -> SUBSET Handle]
    BY <1>6, <2>4
  <2>6. \A h \in Handle, b \in 0..length_' - 1 : h \in list_'[b] <=> h \in Cached' /\ Hash[key'[h]] % length_' = b
    BY <1>4, <2>3, <2>4, Zenon
  <2> QED
    BY <1>5, <2>2, <2>5, <2>6, Zenon DEF Bucket
<1>8. CASE ~(old = NULL /\ elems_ + 1 > length_)
  <2>1. list_' = list /\ length_' = length_
    BY <1>8, Zenon DEF TableInsert, list
  <2> QED
    BY <1>3, <1>5, <1>6, <2>1, Zenon DEF Bucket
<1> QED
  BY <1>7, <1>8, Zenon

\* Insert() keeps the invariant, also when another user has inserted the key
\* meanwhile and still reads that entry.
LEMMA InsertKeeps ==
  ASSUME CacheInv, NEW u \in User, NEW k \in Key, Insert(u, k)
  PROVE  /\ CacheInv' /\ \A v \in User : v # u => handle'[v] = handle[v]
         /\ handle'[u] \in Handle /\ refs[handle'[u]] = 0 /\ key'[handle'[u]] = k
         /\ Survive(Handle \ {handle'[u]})
<1> DEFINE old == Find(k)
<1>1. PICK e \in Handle, c \in Charges :
        /\ refs[e] = 0
        /\ lru_' = Append(IF old = NULL THEN lru_ ELSE LRU_Remove(old), e)
        /\ handle' = [handle EXCEPT ![u] = e]
        /\ IF old # NULL /\ refs[old] = 1
           THEN /\ refs' = [refs EXCEPT ![e] = 2, ![old] = 0]
                /\ key' = [key EXCEPT ![e] = k, ![old] = NULL]
                /\ charge' = [charge EXCEPT ![e] = c, ![old] = 0]
           ELSE /\ refs' = [h \in Handle |-> IF h = e THEN 2 ELSE IF h = old THEN refs[h] - 1 ELSE refs[h]]
                /\ key' = [key EXCEPT ![e] = k]
                /\ charge' = [charge EXCEPT ![e] = c]
        /\ TableInsert(e, k, [key EXCEPT ![e] = k])
  BY Zenon DEF Insert
<1>2. CacheTypes /\ FreeHasNoKey /\ handle[u] = NULL /\ c \in Nat
  BY CacheAssumption, Zenon DEF CacheInv, Insert
<1>3. e \notin Cached /\ Cached \subseteq Handle
  BY <1>1, CachedIsLive
<1>4. /\ old # NULL => old \in Cached /\ old \in Handle /\ key[old] = k /\ refs[old] > 0
      /\ old = NULL => \A h \in Cached : key[h] # k
  BY Finds, CachedIsLive, Zenon
<1> HIDE DEF old
<1>5. /\ refs' \in [Handle -> Nat] /\ key' \in [Handle -> Key \cup {NULL}] /\ charge' \in [Handle -> Nat]
      /\ \A h \in Handle : refs'[h] = IF h = e THEN 2 ELSE refs[h] - IF h = old THEN 1 ELSE 0
      /\ key'[e] = k
      /\ \A h \in Handle : h # e /\ ~(h = old /\ refs[h] = 1) => key'[h] = key[h]
      /\ \A h \in Handle : h # e /\ h = old /\ refs[h] = 1 => key'[h] = NULL
  <2>1. CASE old # NULL /\ refs[old] = 1
    <3>1. /\ refs' = [refs EXCEPT ![e] = 2, ![old] = 0]
          /\ key' = [key EXCEPT ![e] = k, ![old] = NULL]
          /\ charge' = [charge EXCEPT ![e] = c, ![old] = 0]
          /\ old # e /\ old \in Handle
      BY <1>1, <1>3, <1>4, <2>1, Zenon
    <3>2. key \in [Handle -> Key \cup {NULL}] /\ charge \in [Handle -> Nat] /\ refs \in [Handle -> Nat]
      BY <1>2, Zenon DEF CacheTypes
    <3>3. refs' \in [Handle -> Nat] /\ \A h \in Handle : refs'[h] = IF h = e THEN 2 ELSE refs[h] - IF h = old THEN 1 ELSE 0
      BY <2>1, <3>1, <3>2
    <3>4. charge' \in [Handle -> Nat]
      BY <1>2, <3>1, <3>2, Zenon
    <3>5. /\ key' \in [Handle -> Key \cup {NULL}] /\ key'[e] = k /\ key'[old] = NULL
          /\ \A h \in Handle : h # e /\ h # old => key'[h] = key[h]
      BY <3>1, <3>2, Zenon
    <3> QED
      BY <2>1, <3>3, <3>4, <3>5, Zenon
  <2>2. CASE ~(old # NULL /\ refs[old] = 1)
    <3>1. /\ refs' = [h \in Handle |-> IF h = e THEN 2 ELSE IF h = old THEN refs[h] - 1 ELSE refs[h]]
          /\ key' = [key EXCEPT ![e] = k]
          /\ charge' = [charge EXCEPT ![e] = c]
      BY <1>1, <2>2, Zenon
    <3>2. \A h \in Handle : h = old => old # NULL /\ refs[h] > 1
      BY <1>2, <1>4, <2>2, CacheAssumption DEF CacheTypes
    <3> QED
      BY <1>2, <3>1, <3>2 DEF CacheTypes
  <2> QED
    BY <2>1, <2>2, Zenon
<1>6. /\ lru_' \in Seq(Handle) /\ {lru_'[i] : i \in DOMAIN lru_'} = (Cached \ {old}) \cup {e}
      /\ \A i, j \in DOMAIN lru_' : lru_'[i] = lru_'[j] => i = j
  <2> DEFINE s == IF old = NULL THEN lru_ ELSE LRU_Remove(old)
  <2>1. /\ s \in Seq(Handle) /\ {s[i] : i \in DOMAIN s} = Cached \ {old}
        /\ \A i, j \in DOMAIN s : s[i] = s[j] => i = j
    <3>1. CASE old = NULL
      <4>1. s = lru_ /\ lru_ \in Seq(Handle) /\ DOMAIN lru_ = 1..Len(lru_)
        BY <1>2, <3>1 DEF CacheTypes
      <4>2. Cached \ {old} = Cached
        BY <1>3, <3>1, CacheAssumption, Zenon
      <4> QED
        BY <4>1, <4>2, Once, Zenon DEF Cached
    <3>2. CASE old # NULL
      <4>1. s = LRU_Remove(old) /\ old \in Cached
        BY <1>4, <3>2, Zenon
      <4> HIDE DEF s
      <4> QED
        BY <4>1, Removes
    <3> QED
      BY <3>1, <3>2, Zenon
  <2> HIDE DEF s
  <2>2. \A i \in DOMAIN s : s[i] # e
    BY <1>3, <2>1, Zenon
  <2> DEFINE t == Append(s, e)
  <2>3. lru_' = t
    BY <1>1, Zenon DEF s
  <2>4. /\ t \in Seq(Handle) /\ {t[i] : i \in DOMAIN t} = {s[i] : i \in DOMAIN s} \cup {e}
        /\ \A i, j \in DOMAIN t : t[i] = t[j] => i = j
    BY <2>1, <2>2, Appends, Zenon
  <2> HIDE DEF t
  <2>5. {t[i] : i \in DOMAIN t} = (Cached \ {old}) \cup {e}
    BY <2>1, <2>4, Zenon
  <2> QED
    BY <2>3, <2>4, <2>5, Zenon
<1>7. Cached' = (Cached \ {old}) \cup {e}
  BY <1>6, Zenon DEF Cached
<1>8. \A h \in Cached \ {old} : h \in Handle /\ h # e /\ key'[h] = key[h]
  BY <1>3, <1>5, Zenon
<1>9. /\ length_' \in Nat \ {0} /\ list_' \in [0..length_' - 1 -> SUBSET Handle]
      /\ elems_' = Cardinality(Cached')
      /\ \A h \in Handle, b \in DOMAIN list_' : h \in list_'[b] <=> h \in Cached' /\ Bucket(key[h])' = b
  BY <1>1, <1>5, <1>7, <1>8, TableInserts, Zenon DEF old
<1>10. /\ handle' \in [User -> Handle \cup {NULL}]
       /\ \A h \in Handle : Cardinality(Holders(h)') = Cardinality(Holders(h)) + IF h = e THEN 1 ELSE 0
  BY <1>1, <1>2, Takes, Zenon
<1>11. CacheTypes'
  BY <1>5, <1>6, <1>9, <1>10, Zenon DEF CacheTypes
<1>12. FreeHasNoKey'
  <2> SUFFICES ASSUME NEW h \in Handle PROVE refs'[h] = 0 <=> key'[h] = NULL
    BY Zenon DEF FreeHasNoKey
  <2>1. CASE h = e
    <3>1. refs'[e] = 2 /\ key'[e] = k
      BY <1>5, Zenon
    <3>2. k # NULL
      BY CacheAssumption, Zenon
    <3> QED
      BY <2>1, <3>1, <3>2
  <2>2. CASE h # e /\ h = old
    BY <1>2, <1>4, <1>5, <2>2, CacheAssumption DEF CacheTypes, FreeHasNoKey
  <2>3. CASE h # e /\ h # old
    BY <1>2, <1>5, <2>3 DEF CacheTypes, FreeHasNoKey
  <2> QED
    BY <2>1, <2>2, <2>3, Zenon
<1>13. TableAgrees'
  <2>1. \A g, h \in (Cached \ {old}) \cup {e} : key'[g] = key'[h] => g = h
    <3>1. \A h \in Cached \ {old} : key[h] # k
      BY <1>4, CachedIsLive, Zenon
    <3> QED
      BY <1>5, <1>8, <3>1, CachedIsLive, Zenon
  <2>2. \A i \in DOMAIN lru_' : lru_'[i] \in (Cached \ {old}) \cup {e}
    BY <1>6, Zenon
  <2>3. \A i, j \in DOMAIN lru_' : key'[lru_'[i]] = key'[lru_'[j]] => i = j
    BY <1>6, <2>1, <2>2, Zenon
  <2> QED
    BY <1>9, <2>3, Zenon DEF TableAgrees
<1>14. RefsAreExact'
  <2> SUFFICES ASSUME NEW h \in Handle
               PROVE  refs'[h] = Cardinality(Holders(h)') + IF h \in Cached' THEN 1 ELSE 0
    BY Zenon DEF RefsAreExact
  <2>1. refs[h] = (Cardinality(Holders(h)) + IF h \in Cached THEN 1 ELSE 0) /\ Cardinality(Holders(h)) \in Nat
    BY CachedIsLive, Zenon DEF CacheInv, RefsAreExact
  <2>2. h = old => h \in Cached
    BY <1>4, CacheAssumption, Zenon
  <2>3. CASE h = e
    <3>1. refs[h] = 0 /\ refs'[h] = 2
      BY <1>1, <1>5, <2>3, Zenon
    <3>2. h \notin Cached /\ h \in Cached'
      BY <1>3, <1>7, <2>3, Zenon
    <3>a. refs[h] = Cardinality(Holders(h)) + 0 /\ Cardinality(Holders(h)) \in Nat
      BY <2>1, <3>2, Zenon
    <3>3. Cardinality(Holders(h)) = 0
      BY <3>1, <3>a
    <3>4. Cardinality(Holders(h)') = 1
      BY <1>10, <2>3, <3>3
    <3> QED
      BY <3>1, <3>2, <3>4
  <2>4. CASE h # e
    <3>a. refs'[h] = refs[h] - IF h = old THEN 1 ELSE 0
      BY <1>5, <2>4, Zenon
    <3>b. Cardinality(Holders(h)') = Cardinality(Holders(h)) + 0
      BY <1>10, <2>4, Zenon
    <3>1. refs'[h] = (refs[h] - IF h = old THEN 1 ELSE 0) /\ Cardinality(Holders(h)') = Cardinality(Holders(h))
      BY <2>1, <3>a, <3>b
    <3>2. h \in Cached' <=> h \in Cached /\ h # old
      BY <1>7, <2>4, Zenon
    <3>3. CASE h = old
      <4>1. h \in Cached /\ h \notin Cached'
        BY <2>2, <3>2, <3>3, Zenon
      <4>2. refs[h] = Cardinality(Holders(h)) + 1 /\ refs'[h] = refs[h] - 1
        BY <2>1, <3>1, <3>3, <4>1, Zenon
      <4> QED
        BY <2>1, <3>1, <4>1, <4>2
    <3>4. CASE h # old
      BY <2>1, <3>1, <3>2, <3>4
    <3> QED
      BY <3>3, <3>4, Zenon
  <2> QED
    BY <2>3, <2>4, Zenon
<1>15. Survive(Handle \ {e})
  <2> SUFFICES ASSUME NEW h \in Handle, h # e, refs'[h] > 0 PROVE refs[h] > 0 /\ key'[h] = key[h]
    BY Zenon DEF Survive
  <2>1. refs'[h] = (refs[h] - IF h = old THEN 1 ELSE 0) /\ refs[h] \in Nat
    BY <1>2, <1>5, Zenon DEF CacheTypes
  <2>2. refs[h] > 0 /\ ~(h = old /\ refs[h] = 1)
    BY <2>1
  <2> QED
    BY <1>5, <2>2, Zenon
<1>16. handle'[u] = e /\ \A v \in User : v # u => handle'[v] = handle[v]
  BY <1>1, <1>2, Zenon DEF CacheTypes
<1> QED
  BY <1>1, <1>5, <1>11, <1>12, <1>13, <1>14, <1>15, <1>16, Zenon DEF CacheInv

\* The destructor of the shard leaves an empty cache.
LEMMA DestroyKeeps ==
  ASSUME CacheInv, Destroy
  PROVE  CacheInv' /\ Survive(Handle) /\ handle' = handle
<1>1. CacheTypes /\ FreeHasNoKey /\ handle' = handle
  BY Zenon DEF CacheInv, Destroy
<1>2. /\ refs' = [h \in Handle |-> IF h \in Cached THEN refs[h] - 1 ELSE refs[h]]
      /\ key' = [h \in Handle |-> IF h \in {g \in Cached : refs[g] = 1} THEN NULL ELSE key[h]]
      /\ charge' = [h \in Handle |-> IF h \in {g \in Cached : refs[g] = 1} THEN 0 ELSE charge[h]]
      /\ lru_' = <<>> /\ list_' = [b \in DOMAIN list_ |-> {}] /\ elems_' = 0 /\ length_' = length_
  BY Zenon DEF Destroy, Cached
<1>3. Cached \subseteq Handle /\ \A h \in Cached : refs[h] > 0
  BY CachedIsLive, Zenon
<1>4. Cached' = {}
  BY <1>2 DEF Cached
<1>5. Cardinality(Cached') = 0
  BY <1>4, FS_EmptySet, Zenon
<1>6. refs' \in [Handle -> Nat]
  BY <1>1, <1>2, <1>3 DEF CacheTypes
<1>7. key' \in [Handle -> Key \cup {NULL}] /\ charge' \in [Handle -> Nat]
  BY <1>1, <1>2, Zenon DEF CacheTypes
<1>8. lru_' \in Seq(Handle) /\ list_' \in [0..length_' - 1 -> SUBSET Handle]
  BY <1>1, <1>2 DEF CacheTypes
<1>9. CacheTypes'
  BY <1>1, <1>2, <1>5, <1>6, <1>7, <1>8, Zenon DEF CacheTypes
<1>10. FreeHasNoKey'
  BY <1>1, <1>2, <1>3 DEF CacheTypes, FreeHasNoKey
<1>11. TableAgrees'
  <2>a. lru_' = <<>> /\ list_' = [b \in DOMAIN list_ |-> {}]
    BY <1>2, Zenon
  <2>b. DOMAIN lru_' = {}
    BY <2>a
  <2>c. \A b \in DOMAIN list_' : list_'[b] = {}
    BY <2>a, Zenon
  <2>1. DOMAIN lru_' = {} /\ \A b \in DOMAIN list_' : list_'[b] = {}
    BY <2>b, <2>c, Zenon
  <2> QED
    BY <1>4, <2>1, Zenon DEF TableAgrees
<1>12. RefsAreExact'
  <2> SUFFICES ASSUME NEW h \in Handle
               PROVE  refs'[h] = Cardinality(Holders(h)') + IF h \in Cached' THEN 1 ELSE 0
    BY Zenon DEF RefsAreExact
  <2>1. Holders(h)' = Holders(h)
    BY <1>1, Zenon DEF Holders
  <2>2. refs[h] = (Cardinality(Holders(h)) + IF h \in Cached THEN 1 ELSE 0) /\ Cardinality(Holders(h)) \in Nat
    BY CachedIsLive, Zenon DEF CacheInv, RefsAreExact
  <2>3. refs'[h] = IF h \in Cached THEN refs[h] - 1 ELSE refs[h]
    BY <1>2, Zenon
  <2>4. refs'[h] = Cardinality(Holders(h))
    BY <2>2, <2>3
  <2> QED
    BY <1>4, <2>1, <2>2, <2>4
<1>13. Survive(Handle)
  BY <1>1, <1>2, <1>3 DEF Survive, CacheTypes
<1> QED
  BY <1>1, <1>9, <1>10, <1>11, <1>12, <1>13, Zenon DEF CacheInv

\* Erase() keeps the invariant, and the cache has no entry of the key after it.
LEMMA EraseKeeps ==
  ASSUME CacheInv, NEW k \in Key, Erase(k)
  PROVE  /\ CacheInv' /\ Survive(Handle) /\ handle' = handle
         /\ \A h \in Cached' : key[h] # k
<1>1. CASE Find(k) = NULL
  <2>1. UNCHANGED <<key, charge, refs, lru_, list_, length_, elems_, handle>>
    BY <1>1, Zenon DEF Erase, entries, table_
  <2>2. Cached' = Cached
    BY <2>1, Zenon DEF Cached
  <2> QED
    BY <1>1, <2>1, <2>2, Unchanged, Finds, Zenon
<1>2. CASE Find(k) # NULL
  <2> DEFINE e == Find(k)
  <2>1. e \in Cached /\ key[e] = k
    BY <1>2, Finds, Zenon
  <2>2. lru_' = LRU_Remove(e) /\ TableRemove(e) /\ Unref(e) /\ handle' = handle
    BY <1>2, Zenon DEF Erase
  <2> HIDE DEF e
  <2>3. CacheInv' /\ Survive(Handle) /\ Cached' = Cached \ {e}
    BY <2>1, <2>2, Drops, Zenon
  <2> QED
    BY <2>1, <2>2, <2>3, CachedIsLive, Zenon
<1> QED
  BY <1>1, <1>2, Zenon

-----------------------------------------------------------------------------
(* The users and the deletion of files *)

Places == {"idle", "find", "open", "insert", "evict", "use", "done", "closed"}

UserTypes ==
  /\ mutex_ \in User \cup {NULL} /\ pc \in [User -> Places] /\ file \in [User -> Key \cup {NULL}]
  /\ live \subseteq Key /\ disk \subseteq Key /\ gc \in Key \cup {NULL}

\* A user has a file exactly while it has a Version, and a handle exactly while
\* it reads a table, which is that of its file.
UserOK(u) ==
  /\ pc[u] = "evict" <=> mutex_ = u
  /\ handle[u] # NULL <=> pc[u] \in {"evict", "use"}
  /\ handle[u] # NULL => key[handle[u]] = file[u]
  /\ file[u] = NULL <=> pc[u] \in {"idle", "closed"}
  /\ file[u] # NULL => file[u] \in disk \ {gc}

\* No file of the current Version is deleted.
UserInv == UserTypes /\ (\A u \in User : UserOK(u)) /\ live \subseteq disk \ {gc}

IInv == CacheInv /\ UserInv /\ DeletedIsClosed

\* A step of one user leaves the others as they are.
LEMMA PcMoves ==
  ASSUME UserTypes, NEW u \in User, NEW p \in Places, pc' = [pc EXCEPT ![u] = p]
  PROVE  pc' \in [User -> Places] /\ pc'[u] = p /\ \A v \in User : v # u => pc'[v] = pc[v]
  BY Zenon DEF UserTypes

\* A user that does nothing stays as it is, unless its entry or its file goes.
LEMMA OtherUser ==
  ASSUME NEW v \in User, UserOK(v), pc'[v] = pc[v], handle'[v] = handle[v], file'[v] = file[v],
         mutex_' = v <=> mutex_ = v, handle[v] # NULL => key'[handle[v]] = key[handle[v]],
         file[v] \in disk \ {gc} => file[v] \in disk' \ {gc'}
  PROVE  UserOK(v)'
  BY Zenon DEF UserOK

\* Entries that users hold have references.
HeldIsLive == \A u \in User : handle[u] # NULL => handle[u] \in Handle /\ refs[handle[u]] > 0

\* An entry with references is in the cache or held.
LiveIsSomewhere == \A h \in Handle : refs[h] > 0 => h \in Cached \/ \E u \in User : handle[u] = h

\* Both follow from the exact reference counts of the cache.
LEMMA Counted == CacheInv => HeldIsLive /\ LiveIsSomewhere
<1> SUFFICES ASSUME CacheInv PROVE HeldIsLive /\ LiveIsSomewhere
  BY Zenon
<1>1. \A h \in Handle : /\ refs[h] = Cardinality(Holders(h)) + IF h \in Cached THEN 1 ELSE 0
                        /\ IsFiniteSet(Holders(h)) /\ Cardinality(Holders(h)) \in Nat
  BY CachedIsLive, Zenon DEF CacheInv, RefsAreExact
<1>2. \A h \in Handle : Cardinality(Holders(h)) = 0 <=> Holders(h) = {}
  BY <1>1, FS_EmptySet, Zenon
<1>3. HeldIsLive
  <2> SUFFICES ASSUME NEW u \in User, handle[u] # NULL PROVE handle[u] \in Handle /\ refs[handle[u]] > 0
    BY Zenon DEF HeldIsLive
  <2>1. handle[u] \in Handle
    BY Zenon DEF CacheInv, CacheTypes
  <2>2. Holders(handle[u]) # {}
    BY Zenon DEF Holders
  <2> QED
    BY <1>1, <1>2, <2>1, <2>2
<1>4. LiveIsSomewhere
  <2> SUFFICES ASSUME NEW h \in Handle, refs[h] > 0, h \notin Cached PROVE \E u \in User : handle[u] = h
    BY Zenon DEF LiveIsSomewhere
  <2>1. Holders(h) # {}
    BY <1>1, <1>2
  <2> QED
    BY <2>1, Zenon DEF Holders
<1> QED
  BY <1>3, <1>4, Zenon

\* The entry of a user that does nothing keeps its key.
LEMMA KeyStays ==
  ASSUME CacheInv, CacheInv', NEW S, NEW v \in User, handle[v] # NULL, handle'[v] = handle[v],
         Survive(S), handle[v] \in S
  PROVE  key'[handle'[v]] = key[handle[v]]
<1>1. CacheInv' => HeldIsLive'
  BY Counted, PTL
<1> QED
  BY <1>1, Zenon DEF HeldIsLive, Survive

\* Initially the cache is empty, nobody reads, and all files exist.
LEMMA Initially == Init => IInv
<1> SUFFICES ASSUME Init PROVE IInv
  BY Zenon
<1> USE DEF Init, InitCache
<1>1. Cached = {} /\ \A h \in Handle : Holders(h) = {}
  BY CacheAssumption DEF Cached, Holders
<1>2. Cardinality(Cached) = 0 /\ \A h \in Handle : Cardinality(Holders(h)) = 0
  BY <1>1, FS_EmptySet, Zenon
<1>3. CacheTypes
  BY <1>2, HashAssumption DEF CacheTypes
<1>4. FreeHasNoKey /\ RefsAreExact
  BY <1>1, <1>2 DEF FreeHasNoKey, RefsAreExact
<1>5. TableAgrees
  BY <1>1 DEF TableAgrees
<1>6. UserInv
  <2>1. UserTypes /\ live \subseteq disk \ {gc}
    BY CacheAssumption, Zenon DEF UserTypes, Places
  <2>2. \A u \in User : UserOK(u)
    BY CacheAssumption, Zenon DEF UserOK
  <2> QED
    BY <2>1, <2>2, Zenon DEF UserInv
<1>7. DeletedIsClosed
  BY DEF DeletedIsClosed
<1> QED
  BY <1>3, <1>4, <1>5, <1>6, <1>7, Zenon DEF IInv, CacheInv

\* The steps of a user that calls nothing of the cache
LEMMA QuietStep ==
  ASSUME IInv, NEW u \in User, Start(u) \/ OpenTable(u) \/ Finish(u)
  PROVE  IInv'
<1>1. UNCHANGED <<key, charge, refs, lru_, list_, length_, elems_, handle, mutex_, live, disk, gc>>
  BY Zenon DEF Start, OpenTable, Finish, cache, entries, table_
<1>2. CacheInv'
  BY <1>1, Unchanged, Zenon DEF IInv
<1>3. DeletedIsClosed'
  BY <1>1, Zenon DEF IInv, DeletedIsClosed
<1>4. UserTypes /\ live \subseteq disk \ {gc} /\ UserOK(u) /\ \A v \in User : UserOK(v)
  BY Zenon DEF IInv, UserInv
<1>5. \A v \in User : v # u => pc'[v] = pc[v] /\ file'[v] = file[v]
  BY <1>4, Zenon DEF UserTypes, Start, OpenTable, Finish, Goto
<1>6. \A v \in User : v # u => UserOK(v)'
  BY <1>1, <1>4, <1>5, OtherUser, Zenon
<1>7. UserTypes' /\ UserOK(u)'
  <2>1. CASE Start(u)
    <3>1. PICK f \in live : file' = [file EXCEPT ![u] = f]
      BY <2>1, Zenon DEF Start
    <3>2. pc[u] = "idle" /\ pc' = [pc EXCEPT ![u] = "find"]
      BY <2>1, Zenon DEF Start, Goto
    <3>3. f \in Key /\ f # NULL /\ f \in disk \ {gc}
      BY <1>4, CacheAssumption, Zenon DEF UserTypes
    <3>4. pc' \in [User -> Places] /\ pc'[u] = "find"
      BY <1>4, <3>2, PcMoves, Zenon DEF Places
    <3>5. file' \in [User -> Key \cup {NULL}] /\ file'[u] = f
      BY <1>4, <3>1, <3>3, Zenon DEF UserTypes
    <3>6. UserTypes'
      BY <1>1, <1>4, <3>4, <3>5, Zenon DEF UserTypes
    <3>7. UserOK(u)'
      BY <1>1, <1>4, <3>2, <3>3, <3>4, <3>5, Zenon DEF UserOK
    <3> QED
      BY <3>6, <3>7, Zenon
  <2>2. CASE OpenTable(u)
    <3>1. PICK p \in {"done", "insert"} : pc' = [pc EXCEPT ![u] = p]
      BY <2>2, Zenon DEF OpenTable, Goto
    <3>2. pc[u] = "open" /\ file' = file
      BY <2>2, Zenon DEF OpenTable
    <3>3. pc' \in [User -> Places] /\ pc'[u] = p
      BY <1>4, <3>1, PcMoves, Zenon DEF Places
    <3>4. UserTypes'
      BY <1>1, <1>4, <3>2, <3>3, Zenon DEF UserTypes
    <3>5. UserOK(u)'
      BY <1>1, <1>4, <3>1, <3>2, <3>3, Zenon DEF UserOK
    <3> QED
      BY <3>4, <3>5, Zenon
  <2>3. CASE Finish(u)
    <3>1. /\ pc[u] = "done" /\ pc' = [pc EXCEPT ![u] = "idle"]
          /\ file' = [file EXCEPT ![u] = NULL]
      BY <2>3, Zenon DEF Finish, Goto
    <3>2. pc' \in [User -> Places] /\ pc'[u] = "idle"
      BY <1>4, <3>1, PcMoves, Zenon DEF Places
    <3>3. file' \in [User -> Key \cup {NULL}] /\ file'[u] = NULL
      BY <1>4, <3>1, Zenon DEF UserTypes
    <3>4. UserTypes'
      BY <1>1, <1>4, <3>2, <3>3, Zenon DEF UserTypes
    <3>5. UserOK(u)'
      BY <1>1, <1>4, <3>1, <3>2, <3>3, Zenon DEF UserOK
    <3> QED
      BY <3>4, <3>5, Zenon
  <2> QED
    BY <2>1, <2>2, <2>3, Zenon
<1>8. UserInv'
  BY <1>1, <1>4, <1>6, <1>7, Zenon DEF UserInv
<1> QED
  BY <1>2, <1>3, <1>8, Zenon DEF IInv

\* Entries that survive belong to files that exist.
LEMMA StaysClosed ==
  ASSUME IInv, Survive(Handle), UNCHANGED <<disk, gc>>
  PROVE  DeletedIsClosed'
  BY Zenon DEF IInv, DeletedIsClosed, Survive

\* What a step of one user through the cache has to show about that user
LEMMA OneUser ==
  ASSUME IInv, CacheInv', NEW u \in User, NEW p \in Places, pc' = [pc EXCEPT ![u] = p],
         UNCHANGED <<file, live, disk, gc>>, {mutex_, mutex_'} \subseteq {u, NULL},
         \A v \in User : v # u => handle'[v] = handle[v],
         NEW S, Survive(S), \A v \in User : handle[v] # NULL => handle[v] \in S, UserOK(u)'
  PROVE  UserInv'
<1>1. UserTypes /\ live \subseteq disk \ {gc} /\ (\A v \in User : UserOK(v)) /\ CacheInv
  BY Zenon DEF IInv, UserInv
<1>2. pc' \in [User -> Places] /\ \A v \in User : v # u => pc'[v] = pc[v]
  BY <1>1, PcMoves, Zenon
<1>3. ASSUME NEW v \in User, v # u PROVE UserOK(v)'
  <2>1. handle[v] # NULL => key'[handle[v]] = key[handle[v]]
    BY <1>1, <1>3, KeyStays, Zenon
  <2>2. mutex_' # v /\ mutex_ # v
    BY <1>3, CacheAssumption, Zenon
  <2> QED
    BY <1>1, <1>2, <1>3, <2>1, <2>2, OtherUser, Zenon
<1>4. UserTypes'
  BY <1>1, <1>2, Zenon DEF UserTypes
<1> QED
  BY <1>1, <1>3, <1>4, Zenon DEF UserInv

\* A user with a Version, and the entries of all users
LEMMA Reading ==
  ASSUME IInv
  PROVE  /\ CacheInv /\ UserInv /\ UserTypes
         /\ \A v \in User : handle[v] # NULL => handle[v] \in Handle /\ refs[handle[v]] > 0
         /\ \A v \in User : pc[v] \notin {"idle", "closed"} =>
              v # NULL /\ file[v] \in Key /\ file[v] # NULL /\ file[v] \in disk \ {gc}
<1>1. CacheInv /\ UserInv /\ UserTypes
  BY Zenon DEF IInv, UserInv
<1>2. \A v \in User : handle[v] # NULL => handle[v] \in Handle /\ refs[handle[v]] > 0
  BY <1>1, Counted, Zenon DEF HeldIsLive
<1>3. ASSUME NEW v \in User, pc[v] \notin {"idle", "closed"}
      PROVE  v # NULL /\ file[v] \in Key /\ file[v] # NULL /\ file[v] \in disk \ {gc}
  <2>1. UserOK(v)
    BY <1>1, Zenon DEF UserInv
  <2>2. file[v] # NULL /\ file[v] \in disk \ {gc}
    BY <1>3, <2>1, Zenon DEF UserOK
  <2> QED
    BY <1>1, <2>2, CacheAssumption, Zenon DEF UserTypes
<1> QED
  BY <1>1, <1>2, <1>3, Zenon

\* FindTable() up to the answer of the cache keeps the invariant.
LEMMA FindStep ==
  ASSUME IInv, NEW u \in User, FindTable(u)
  PROVE  IInv'
<1> DEFINE p == IF handle'[u] = NULL THEN "open" ELSE "use"
<1>1. CacheInv /\ UserTypes /\ \A v \in User : handle[v] # NULL => handle[v] \in Handle
  BY Reading, Zenon
<1>2. /\ pc[u] = "find" /\ Lookup(u, file[u]) /\ UNCHANGED <<file, live, disk, gc>>
      /\ pc' = [pc EXCEPT ![u] = p] /\ mutex_ = NULL /\ mutex_' = NULL
  BY Zenon DEF FindTable, Goto, Lookup
<1>3. u # NULL /\ file[u] \in Key /\ file[u] # NULL /\ file[u] \in disk \ {gc}
  BY <1>2, Reading, Zenon
<1>4. /\ CacheInv' /\ Survive(Handle)
      /\ \A v \in User : v # u => handle'[v] = handle[v]
      /\ handle'[u] # NULL => handle'[u] \in Handle /\ key'[handle'[u]] = file[u]
  BY <1>1, <1>2, <1>3, LookupKeeps, Zenon
<1>5. p \in Places
  BY Zenon DEF Places
<1> HIDE DEF p
<1>6. pc'[u] = p
  BY <1>1, <1>2, <1>5, PcMoves, Zenon
<1>7. UserOK(u)'
  <2>1. CASE handle'[u] = NULL
    <3>1. pc'[u] = "open"
      BY <1>6, <2>1, Zenon DEF p
    <3> QED
      BY <1>2, <1>3, <2>1, <3>1, Zenon DEF UserOK
  <2>2. CASE handle'[u] # NULL
    <3>1. pc'[u] = "use"
      BY <1>6, <2>2, Zenon DEF p
    <3> QED
      BY <1>2, <1>3, <1>4, <2>2, <3>1, Zenon DEF UserOK
  <2> QED
    BY <2>1, <2>2, Zenon
<1>8. UserInv'
  BY <1>1, <1>2, <1>4, <1>5, <1>7, OneUser, Zenon
<1>9. DeletedIsClosed'
  BY <1>2, <1>4, StaysClosed, Zenon
<1> QED
  BY <1>4, <1>8, <1>9, Zenon DEF IInv

\* Insert() of the table of a file keeps the invariant: the file exists, as the
\* user has a Version that names it.
LEMMA InsertStep ==
  ASSUME IInv, NEW u \in User, InsertTable(u)
  PROVE  IInv'
<1> DEFINE e == handle'[u]
<1>1. CacheInv /\ UserTypes /\ \A v \in User : handle[v] # NULL => handle[v] \in Handle /\ refs[handle[v]] > 0
  BY Reading, Zenon
<1>2. /\ pc[u] = "insert" /\ Insert(u, file[u]) /\ UNCHANGED <<file, live, disk, gc>>
      /\ pc' = [pc EXCEPT ![u] = "evict"] /\ mutex_ = NULL /\ mutex_' = u
  BY Zenon DEF InsertTable, Goto, Insert
<1>3. u # NULL /\ file[u] \in Key /\ file[u] # NULL /\ file[u] \in disk \ {gc}
  BY <1>2, Reading, Zenon
<1>4. /\ CacheInv' /\ \A v \in User : v # u => handle'[v] = handle[v]
      /\ e \in Handle /\ refs[e] = 0 /\ key'[e] = file[u]
      /\ Survive(Handle \ {e})
  BY <1>1, <1>2, <1>3, InsertKeeps, Zenon
<1>5. \A v \in User : handle[v] # NULL => handle[v] \in Handle \ {e}
  <2> HIDE DEF e
  <2>1. refs[e] = 0
    BY <1>4, Zenon
  <2>2. ASSUME NEW v \in User, handle[v] # NULL PROVE handle[v] \in Handle /\ refs[handle[v]] > 0
    BY <1>1, <2>2, Zenon
  <2>3. ASSUME NEW v \in User, handle[v] # NULL PROVE handle[v] # e
    BY <2>1, <2>2, <2>3
  <2> QED
    BY <2>2, <2>3, Zenon
<1>6. "evict" \in Places
  BY Zenon DEF Places
<1>7. pc'[u] = "evict" /\ handle'[u] # NULL
  BY <1>1, <1>2, <1>4, <1>6, PcMoves, CacheAssumption, Zenon
<1>8. UserOK(u)'
  BY <1>2, <1>3, <1>4, <1>7, Zenon DEF UserOK
<1> HIDE DEF e
<1>9. UserInv'
  BY <1>1, <1>2, <1>4, <1>5, <1>6, <1>8, OneUser, Zenon
<1>10. DeletedIsClosed'
  BY <1>2, <1>3, <1>4, Zenon DEF IInv, DeletedIsClosed, Survive
<1> QED
  BY <1>4, <1>9, <1>10, Zenon DEF IInv

\* The loop of Insert() keeps the invariant, whatever it drops.
LEMMA LoopStep ==
  ASSUME IInv, NEW u \in User, InsertEvicts(u)
  PROVE  IInv'
<1>1. CacheInv /\ UserInv /\ UserTypes /\ \A v \in User : handle[v] # NULL => handle[v] \in Handle
  BY Reading, Zenon
<1>2. InsertLoop(u) /\ UNCHANGED <<pc, file, live, disk, gc, mutex_, handle>>
  BY Zenon DEF InsertEvicts, InsertLoop
<1>3. lru_[1] \in Cached
  BY <1>1, <1>2 DEF InsertLoop, OverCapacity, CacheInv, CacheTypes, Cached
<1>4. lru_' = LRU_Remove(lru_[1]) /\ TableRemove(lru_[1]) /\ Unref(lru_[1])
  BY <1>2, Zenon DEF InsertLoop
<1>5. CacheInv' /\ Survive(Handle)
  BY <1>1, <1>2, <1>3, <1>4, Drops, Zenon
<1>6. ASSUME NEW v \in User PROVE UserOK(v)'
  <2>1. handle[v] # NULL => key'[handle[v]] = key[handle[v]]
    BY <1>1, <1>2, <1>5, KeyStays, Zenon
  <2>2. UserOK(v)
    BY <1>1, Zenon DEF UserInv
  <2> QED
    BY <1>2, <2>1, <2>2, OtherUser, Zenon
<1>7. UserInv'
  BY <1>1, <1>2, <1>6, Zenon DEF UserInv, UserTypes
<1>8. DeletedIsClosed'
  BY <1>2, <1>5, StaysClosed, Zenon
<1> QED
  BY <1>5, <1>7, <1>8, Zenon DEF IInv

\* The end of Insert() keeps the invariant.
LEMMA FoundStep ==
  ASSUME IInv, NEW u \in User, TableFound(u)
  PROVE  IInv'
<1>1. /\ UNCHANGED <<key, charge, refs, lru_, list_, length_, elems_, handle, file, live, disk, gc>>
      /\ mutex_ = u /\ mutex_' = NULL /\ pc[u] = "evict" /\ pc' = [pc EXCEPT ![u] = "use"]
  BY Zenon DEF TableFound, InsertEnd, entries, table_, Goto
<1>2. CacheInv' /\ Survive(Handle)
  BY <1>1, Unchanged, Zenon DEF IInv
<1>3. /\ CacheInv /\ UserInv /\ UserTypes /\ u # NULL
      /\ \A v \in User : handle[v] # NULL => handle[v] \in Handle
  BY <1>1, Reading, Zenon
<1>4. "use" \in Places
  BY Zenon DEF Places
<1>5. pc'[u] = "use" /\ UserOK(u)
  BY <1>1, <1>3, <1>4, PcMoves, Zenon DEF UserInv
<1>6. UserOK(u)'
  BY <1>1, <1>3, <1>5, Zenon DEF UserOK
<1>7. UserInv'
  BY <1>1, <1>2, <1>3, <1>4, <1>6, OneUser, Zenon
<1>8. DeletedIsClosed'
  BY <1>1, <1>2, StaysClosed, Zenon
<1> QED
  BY <1>2, <1>7, <1>8, Zenon DEF IInv

\* Release() at the end of a read keeps the invariant.
LEMMA ReleaseStep ==
  ASSUME IInv, NEW u \in User, ReleaseTable(u)
  PROVE  IInv'
<1>1. CacheInv /\ UserTypes /\ \A v \in User : handle[v] # NULL => handle[v] \in Handle
  BY Reading, Zenon
<1>2. /\ pc[u] = "use" /\ Release(u) /\ UNCHANGED <<file, live, disk, gc>>
      /\ pc' = [pc EXCEPT ![u] = "done"] /\ mutex_ = NULL /\ mutex_' = NULL
  BY Zenon DEF ReleaseTable, Goto, Release
<1>3. u # NULL /\ file[u] # NULL /\ file[u] \in disk \ {gc}
  BY <1>2, Reading, Zenon
<1>4. /\ CacheInv' /\ Survive(Handle) /\ handle'[u] = NULL
      /\ \A v \in User : v # u => handle'[v] = handle[v]
  BY <1>1, <1>2, ReleaseKeeps, Zenon
<1>5. "done" \in Places
  BY Zenon DEF Places
<1>6. pc'[u] = "done"
  BY <1>1, <1>2, <1>5, PcMoves, Zenon
<1>7. UserOK(u)'
  BY <1>2, <1>3, <1>4, <1>6, Zenon DEF UserOK
<1>8. UserInv'
  BY <1>1, <1>2, <1>4, <1>5, <1>7, OneUser, Zenon
<1>9. DeletedIsClosed'
  BY <1>2, <1>4, StaysClosed, Zenon
<1> QED
  BY <1>4, <1>8, <1>9, Zenon DEF IInv

\* Evict() of an obsolete file closes its table: the cache has no entry of it
\* any more, and no user holds one, as none has a Version that names the file.
LEMMA EvictStep ==
  ASSUME IInv, Evict
  PROVE  IInv'
<1>1. /\ CacheInv /\ UserInv /\ UserTypes /\ DeletedIsClosed
      /\ \A v \in User : UserOK(v) /\ (handle[v] # NULL => handle[v] \in Handle)
  BY Reading, Zenon DEF IInv, UserInv
<1>2. gc = NULL /\ UNCHANGED <<pc, file, live, disk>>
  BY Zenon DEF Evict
<1>3. PICK f \in Obsolete : gc' = f /\ Erase(f)
  BY Zenon DEF Evict
<1>4. f \in Key /\ f \in disk /\ f \notin live /\ \A u \in User : file[u] # f
  BY <1>1, Zenon DEF Obsolete, UserTypes
<1>5. CacheInv' /\ Survive(Handle) /\ handle' = handle /\ \A h \in Cached' : key[h] # f
  BY <1>1, <1>3, <1>4, EraseKeeps, Zenon
<1>6. mutex_' = mutex_
  BY <1>3, Zenon DEF Erase
<1>7. ASSUME NEW v \in User PROVE UserOK(v)'
  <2>1. handle[v] # NULL => key'[handle[v]] = key[handle[v]]
    BY <1>1, <1>5, KeyStays, Zenon
  <2>2. file[v] \in disk \ {gc} => file[v] \in disk' \ {gc'}
    BY <1>2, <1>3, <1>4, Zenon
  <2> QED
    BY <1>1, <1>2, <1>5, <1>6, <2>1, <2>2, OtherUser, Zenon
<1>8. UserInv'
  <2>1. UserTypes'
    BY <1>1, <1>2, <1>3, <1>4, <1>6, Zenon DEF UserTypes
  <2>2. live' \subseteq disk' \ {gc'}
    BY <1>1, <1>2, <1>3, <1>4, Zenon DEF UserInv
  <2> QED
    BY <1>7, <2>1, <2>2, Zenon DEF UserInv
<1>9. DeletedIsClosed'
  <2> SUFFICES ASSUME NEW h \in Handle, refs'[h] > 0 PROVE key'[h] \in disk' \ {gc'}
    BY Zenon DEF DeletedIsClosed
  <2>1. refs[h] > 0 /\ key'[h] = key[h] /\ key[h] \in disk
    BY <1>1, <1>5, Zenon DEF Survive, DeletedIsClosed
  <2>2. CacheInv' => LiveIsSomewhere'
    BY Counted, PTL
  <2>3. h \in Cached' \/ \E u \in User : handle'[u] = h
    BY <1>5, <2>2, Zenon DEF LiveIsSomewhere
  <2>4. CASE h \in Cached'
    BY <1>2, <1>3, <1>5, <2>1, <2>4, Zenon
  <2>5. CASE \E u \in User : handle'[u] = h
    <3>1. PICK u \in User : handle[u] = h
      BY <1>5, <2>5, Zenon
    <3>2. h # NULL /\ UserOK(u)
      BY <1>1, CacheAssumption, Zenon
    <3>3. key[h] = file[u]
      BY <3>1, <3>2, Zenon DEF UserOK
    <3> QED
      BY <1>2, <1>3, <1>4, <2>1, <3>3, Zenon
  <2> QED
    BY <2>3, <2>4, <2>5, Zenon
<1> QED
  BY <1>5, <1>8, <1>9, Zenon DEF IInv

\* The destructor of the database keeps the invariant.
LEMMA CloseStep ==
  ASSUME IInv, Close
  PROVE  IInv'
<1>1. CacheInv /\ UserInv /\ UserTypes
  BY Reading, Zenon
<1>2. /\ Destroy /\ UNCHANGED <<file, live, disk, gc, mutex_>> /\ pc' = [u \in User |-> "closed"]
      /\ mutex_ = NULL /\ \A u \in User : pc[u] = "idle"
  BY Zenon DEF Close, Destroy
<1>3. CacheInv' /\ Survive(Handle) /\ handle' = handle
  BY <1>1, <1>2, DestroyKeeps, Zenon
<1>4. ASSUME NEW u \in User PROVE UserOK(u)'
  <2>1. UserOK(u) /\ pc[u] = "idle" /\ pc'[u] = "closed" /\ u # NULL
    BY <1>1, <1>2, CacheAssumption, Zenon DEF UserInv
  <2>2. handle[u] = NULL /\ file[u] = NULL
    BY <2>1, Zenon DEF UserOK
  <2> QED
    BY <1>2, <1>3, <2>1, <2>2, Zenon DEF UserOK
<1>5. UserTypes'
  BY <1>1, <1>2, Zenon DEF UserTypes, Places
<1>6. UserInv'
  BY <1>1, <1>2, <1>4, <1>5, Zenon DEF UserInv
<1>7. DeletedIsClosed'
  BY <1>2, <1>3, StaysClosed, Zenon
<1> QED
  BY <1>3, <1>6, <1>7, Zenon DEF IInv

\* The steps of the current Version and of the file system
LEMMA FileStep ==
  ASSUME IInv, LogAndApply \/ DeleteFile \/ UNCHANGED vars
  PROVE  IInv'
<1>1. UNCHANGED <<key, charge, refs, lru_, list_, length_, elems_, handle, mutex_, pc, file>>
  BY Zenon DEF LogAndApply, DeleteFile, vars, cache, entries, table_
<1>2. CacheInv' /\ Survive(Handle)
  BY <1>1, Unchanged, Zenon DEF IInv
<1>3. UserTypes /\ live \subseteq disk \ {gc} /\ \A v \in User : UserOK(v)
  BY Zenon DEF IInv, UserInv
<1>4. live' \subseteq live /\ disk' \subseteq disk /\ gc' \in {gc, NULL} /\ disk' \ {gc'} = disk \ {gc}
  <2>1. CASE LogAndApply \/ UNCHANGED vars
    BY <2>1, Zenon DEF LogAndApply, vars
  <2>2. CASE DeleteFile
    <3>1. live' = live /\ disk' = disk \ {gc} /\ gc' = NULL
      BY <2>2, Zenon DEF DeleteFile
    <3>2. NULL \notin disk
      BY <1>3, CacheAssumption, Zenon DEF UserTypes
    <3> QED
      BY <3>1, <3>2, Zenon
  <2> QED
    BY <2>1, <2>2, Zenon
<1>5. \A v \in User : UserOK(v)'
  BY <1>1, <1>3, <1>4, OtherUser, Zenon
<1>6. UserTypes'
  BY <1>1, <1>3, <1>4, Zenon DEF UserTypes
<1>7. UserInv'
  BY <1>3, <1>4, <1>5, <1>6, Zenon DEF UserInv
<1>8. DeletedIsClosed'
  BY <1>1, <1>4, Zenon DEF IInv, DeletedIsClosed
<1> QED
  BY <1>2, <1>7, <1>8, Zenon DEF IInv

\* The invariant: the cache counts its references exactly, and its users hold
\* the tables of files that their Versions keep.
THEOREM CacheInvariance == Spec => []IInv
<1>1. ASSUME IInv, [Next]_vars PROVE IInv'
  <2>1. ASSUME NEW u \in User, UserStep(u) PROVE IInv'
    BY <1>1, <2>1, QuietStep, FindStep, InsertStep, LoopStep, FoundStep, ReleaseStep, Zenon DEF UserStep
  <2>2. CASE LogAndApply \/ DeleteFile \/ Closed \/ UNCHANGED vars
    BY <1>1, <2>2, FileStep, Zenon DEF Closed
  <2>3. CASE Evict
    BY <1>1, <2>3, EvictStep, Zenon
  <2>4. CASE Close
    BY <1>1, <2>4, CloseStep, Zenon
  <2> QED
    BY <1>1, <2>1, <2>2, <2>3, <2>4, Zenon DEF Next
<1> QED
  BY <1>1, Initially, PTL DEF Spec

-----------------------------------------------------------------------------
(* The usage of the cache *)

\* The entries in memory, in the cache or held by a user
Live == {h \in Handle : refs[h] > 0}

\* The units that the entries S are charged
Units(charges, S) == UNION {{h} \X (1..charges[h]) : h \in S}

\* Finitely many units are charged.
LEMMA UnitsFinite ==
  ASSUME NEW c \in [Handle -> Nat], NEW S \in SUBSET Handle
  PROVE  IsFiniteSet(Units(c, S)) /\ TotalCharge(c, S) = Cardinality(Units(c, S)) /\ TotalCharge(c, S) \in Nat
<1> DEFINE f == [h \in S |-> {h} \X (1..c[h])]
           T == {{h} \X (1..c[h]) : h \in S}
<1>1. IsFiniteSet(S)
  BY CacheAssumption, FS_Subset, Zenon
<1>2. f \in Surjection(S, T)
  BY Zenon DEF Surjection
<1>3. IsFiniteSet(T)
  <2> HIDE DEF f, T
  <2> QED
    BY <1>1, <1>2, FS_Surjection, Zenon
<1>4. ASSUME NEW t \in T PROVE IsFiniteSet(t)
  <2>1. PICK h \in S : t = {h} \X (1..c[h])
    BY Zenon
  <2>a. c[h] \in Int /\ 1 \in Int
    OBVIOUS
  <2>2. IsFiniteSet({h}) /\ IsFiniteSet(1..c[h])
    BY <2>a, FS_Singleton, FS_Interval, Zenon
  <2> QED
    BY <2>1, <2>2, FS_Product, Zenon
<1>5. IsFiniteSet(UNION T)
  <2> HIDE DEF T
  <2> QED
    BY <1>3, <1>4, FS_UNION, Zenon
<1>6. Units(c, S) = UNION T /\ TotalCharge(c, S) = Cardinality(UNION T)
  BY Zenon DEF Units, TotalCharge
<1> QED
  BY <1>5, <1>6, FS_CardinalityType, Zenon

\* An entry is charged its charge, and the charges of two sets of entries add up.
LEMMA ChargesAdd ==
  ASSUME NEW c \in [Handle -> Nat], NEW S \in SUBSET Handle, NEW h \in Handle, h \notin S
  PROVE  TotalCharge(c, S \cup {h}) = TotalCharge(c, S) + c[h]
<1>1. Units(c, S \cup {h}) = Units(c, S) \cup ({h} \X (1..c[h]))
  BY Zenon DEF Units
<1>2. Units(c, S) \cap ({h} \X (1..c[h])) = {}
  BY DEF Units
<1>3. IsFiniteSet({h} \X (1..c[h])) /\ Cardinality({h} \X (1..c[h])) = c[h]
  <2>1. IsFiniteSet({h}) /\ Cardinality({h}) = 1
    BY FS_Singleton, Zenon
  <2>2. IsFiniteSet(1..c[h]) /\ Cardinality(1..c[h]) = c[h] /\ c[h] \in Nat
    BY FS_Interval
  <2>3. IsFiniteSet({h} \X (1..c[h])) /\ Cardinality({h} \X (1..c[h])) = 1 * c[h]
    BY <2>1, <2>2, FS_Product, Zenon
  <2> QED
    BY <2>2, <2>3
<1>4. IsFiniteSet(Units(c, S)) /\ TotalCharge(c, S) = Cardinality(Units(c, S)) /\ TotalCharge(c, S) \in Nat
  BY UnitsFinite, Zenon
<1>5. TotalCharge(c, S \cup {h}) = Cardinality(Units(c, S \cup {h}))
  BY UnitsFinite, Zenon
<1>6. Cardinality(Units(c, S) \cup ({h} \X (1..c[h]))) = TotalCharge(c, S) + c[h] - Cardinality({})
  BY <1>2, <1>3, <1>4, FS_Union
<1>7. Cardinality({}) = 0 /\ c[h] \in Nat
  BY FS_EmptySet, Zenon
<1>8. TotalCharge(c, S \cup {h}) = TotalCharge(c, S) + c[h] - 0
  BY <1>1, <1>5, <1>6, <1>7, Zenon
<1> QED
  BY <1>4, <1>7, <1>8

\* The same for the entries the destructor frees
LEMMA ChargesSplit ==
  ASSUME NEW c \in [Handle -> Nat], NEW S \in SUBSET Handle, NEW T \in SUBSET S
  PROVE  TotalCharge(c, S) = TotalCharge(c, S \ T) + TotalCharge(c, T)
<1>1. Units(c, S) = Units(c, S \ T) \cup Units(c, T)
  BY Zenon DEF Units
<1>2. Units(c, S \ T) \cap Units(c, T) = {}
  BY DEF Units
<1>3. /\ IsFiniteSet(Units(c, T)) /\ TotalCharge(c, T) = Cardinality(Units(c, T)) /\ TotalCharge(c, T) \in Nat
      /\ TotalCharge(c, S) = Cardinality(Units(c, S))
  BY UnitsFinite, Zenon
<1>4. IsFiniteSet(Units(c, S \ T)) /\ TotalCharge(c, S \ T) = Cardinality(Units(c, S \ T)) /\ TotalCharge(c, S \ T) \in Nat
  BY UnitsFinite, Zenon
<1>5. Cardinality(Units(c, S \ T) \cup Units(c, T)) =
        Cardinality(Units(c, S \ T)) + Cardinality(Units(c, T)) - Cardinality(Units(c, S \ T) \cap Units(c, T))
  BY <1>3, <1>4, FS_Union, Zenon
<1>6. Cardinality(Units(c, S \ T) \cap Units(c, T)) = 0
  BY <1>2, FS_EmptySet, Zenon
<1> QED
  BY <1>1, <1>3, <1>4, <1>5, <1>6

\* Entries whose charges stay are charged the same.
LEMMA SameCharges ==
  ASSUME NEW c \in [Handle -> Nat], NEW d \in [Handle -> Nat], NEW S \in SUBSET Handle,
         \A h \in S : c[h] = d[h]
  PROVE  TotalCharge(c, S) = TotalCharge(d, S)
<1>1. {{h} \X (1..c[h]) : h \in S} = {{h} \X (1..d[h]) : h \in S}
  BY Zenon
<1> QED
  BY <1>1, Zenon DEF TotalCharge

\* What CacheInv says of the numbers of the entries
LEMMA LiveFact ==
  ASSUME CacheInv
  PROVE  /\ charge \in [Handle -> Nat] /\ refs \in [Handle -> Nat] /\ Live \subseteq Handle
         /\ \A S \in SUBSET Handle : TotalCharge(charge, S) \in Nat
<1>1. charge \in [Handle -> Nat] /\ refs \in [Handle -> Nat] /\ Live \subseteq Handle
  BY Zenon DEF CacheInv, CacheTypes, Live
<1> QED
  BY <1>1, UnitsFinite, Zenon

\* Unref() takes off the charge of the entry it frees, and no other.
LEMMA UnrefUsage ==
  ASSUME CacheInv, CacheInv', NEW e \in Handle, refs[e] > 0, Unref(e), usage_ = TotalCharge(charge, Live)
  PROVE  usage_' = TotalCharge(charge', Live') /\ usage_' <= usage_
<1>1. /\ charge \in [Handle -> Nat] /\ refs \in [Handle -> Nat] /\ Live \subseteq Handle
      /\ \A S \in SUBSET Handle : TotalCharge(charge, S) \in Nat
  BY LiveFact, Zenon
<1>2. charge' \in [Handle -> Nat]
  BY Zenon DEF CacheInv, CacheTypes
<1>3. refs' = [refs EXCEPT ![e] = @ - 1] /\ usage_ \in Nat
  BY <1>1, Zenon DEF Unref
<1>4. CASE refs[e] = 1
  <2>1. usage_' = usage_ - charge[e] /\ charge' = [charge EXCEPT ![e] = 0]
    BY <1>4, Zenon DEF Unref
  <2>2. Live' = Live \ {e} /\ e \in Live
    BY <1>1, <1>3, <1>4 DEF Live
  <2>3. TotalCharge(charge, (Live \ {e}) \cup {e}) = TotalCharge(charge, Live \ {e}) + charge[e]
    BY <1>1, ChargesAdd, Zenon
  <2>4. (Live \ {e}) \cup {e} = Live
    BY <2>2, Zenon
  <2>5. TotalCharge(charge, Live \ {e}) = TotalCharge(charge', Live \ {e})
    BY <1>1, <1>2, <2>1, SameCharges, Zenon
  <2>6. TotalCharge(charge, Live \ {e}) \in Nat /\ charge[e] \in Nat
    BY <1>1, Zenon
  <2>7. usage_ = TotalCharge(charge, Live \ {e}) + charge[e]
    BY <2>3, <2>4, Zenon
  <2> QED
    BY <2>1, <2>2, <2>5, <2>6, <2>7
<1>5. CASE refs[e] # 1
  <2>1. usage_' = usage_ /\ charge' = charge
    BY <1>5, Zenon DEF Unref
  <2>2. Live' = Live
    BY <1>1, <1>3, <1>5 DEF Live
  <2> QED
    BY <1>3, <2>1, <2>2
<1> QED
  BY <1>4, <1>5, Zenon

\* Insert() charges its entry, and takes off the entry it replaces if no user
\* holds that.
LEMMA InsertUsage ==
  ASSUME CacheInv, CacheInv', NEW u \in User, NEW k \in Key, Insert(u, k), usage_ = TotalCharge(charge, Live)
  PROVE  usage_' = TotalCharge(charge', Live')
<1> DEFINE old == Find(k)
<1>1. PICK e \in Handle, c \in Charges :
        /\ refs[e] = 0
        /\ IF old # NULL /\ refs[old] = 1
           THEN /\ refs' = [refs EXCEPT ![e] = 2, ![old] = 0]
                /\ charge' = [charge EXCEPT ![e] = c, ![old] = 0]
                /\ usage_' = usage_ + c - charge[old]
           ELSE /\ refs' = [h \in Handle |-> IF h = e THEN 2 ELSE IF h = old THEN refs[h] - 1 ELSE refs[h]]
                /\ charge' = [charge EXCEPT ![e] = c]
                /\ usage_' = usage_ + c
  BY Zenon DEF Insert
<1>2. /\ charge \in [Handle -> Nat] /\ refs \in [Handle -> Nat] /\ Live \subseteq Handle
      /\ \A S \in SUBSET Handle : TotalCharge(charge, S) \in Nat
  BY LiveFact, Zenon
<1>3. charge' \in [Handle -> Nat] /\ c \in Nat
  BY CacheAssumption, Zenon DEF CacheInv, CacheTypes
<1>4. old # NULL => old \in Handle /\ refs[old] > 0
  BY Finds, CachedIsLive, Zenon
<1> HIDE DEF old
<1>5. ASSUME NEW S \in SUBSET Handle, e \notin S, Live' = S \cup {e}, \A h \in S : charge[h] = charge'[h],
             charge'[e] = c
      PROVE  TotalCharge(charge', Live') = TotalCharge(charge, S) + c
  <2>1. TotalCharge(charge', S \cup {e}) = TotalCharge(charge', S) + charge'[e]
    BY <1>3, <1>5, ChargesAdd, Zenon
  <2>2. TotalCharge(charge, S) = TotalCharge(charge', S)
    BY <1>2, <1>3, <1>5, SameCharges, Zenon
  <2> QED
    BY <1>5, <2>1, <2>2, Zenon
<1>6. CASE old # NULL /\ refs[old] = 1
  <2>1. /\ refs' = [refs EXCEPT ![e] = 2, ![old] = 0] /\ charge' = [charge EXCEPT ![e] = c, ![old] = 0]
        /\ usage_' = usage_ + c - charge[old] /\ old \in Handle /\ old # e
    BY <1>1, <1>4, <1>6
  <2>2. Live' = (Live \ {old}) \cup {e} /\ old \in Live /\ e \notin Live
    BY <1>1, <1>2, <1>6, <2>1 DEF Live
  <2>3. charge'[e] = c /\ \A h \in Live \ {old} : charge[h] = charge'[h]
    BY <1>2, <2>1, <2>2, Zenon
  <2>4. TotalCharge(charge', Live') = TotalCharge(charge, Live \ {old}) + c
    BY <1>2, <1>5, <2>2, <2>3, Zenon
  <2>5. TotalCharge(charge, (Live \ {old}) \cup {old}) = TotalCharge(charge, Live \ {old}) + charge[old]
    BY <1>2, <2>1, ChargesAdd, Zenon
  <2>6. (Live \ {old}) \cup {old} = Live
    BY <2>2, Zenon
  <2>7. TotalCharge(charge, Live \ {old}) \in Nat /\ charge[old] \in Nat
    BY <1>2, <2>1, Zenon
  <2>8. usage_ = TotalCharge(charge, Live \ {old}) + charge[old]
    BY <2>5, <2>6, Zenon
  <2> QED
    BY <1>3, <2>1, <2>4, <2>7, <2>8
<1>7. CASE ~(old # NULL /\ refs[old] = 1)
  <2>1. /\ refs' = [h \in Handle |-> IF h = e THEN 2 ELSE IF h = old THEN refs[h] - 1 ELSE refs[h]]
        /\ charge' = [charge EXCEPT ![e] = c] /\ usage_' = usage_ + c
    BY <1>1, <1>7, Zenon
  <2>2. ASSUME NEW h \in Handle, h = old PROVE refs[h] > 1
    BY <1>2, <1>4, <1>7, <2>2, CacheAssumption
  <2>3. Live' = Live \cup {e} /\ e \notin Live
    BY <1>1, <1>2, <2>1, <2>2 DEF Live
  <2>4. charge'[e] = c /\ \A h \in Live : charge[h] = charge'[h]
    BY <1>2, <2>1, <2>3, Zenon
  <2> QED
    BY <1>2, <1>5, <2>1, <2>3, <2>4, Zenon
<1> QED
  BY <1>6, <1>7, Zenon

\* The destructor takes off the charges of all entries it frees.
LEMMA DestroyUsage ==
  ASSUME CacheInv, CacheInv', Destroy, usage_ = TotalCharge(charge, Live)
  PROVE  usage_' = TotalCharge(charge', Live') /\ Cached' = {}
<1> DEFINE freed == {h \in Cached : refs[h] = 1}
<1>1. /\ refs' = [h \in Handle |-> IF h \in Cached THEN refs[h] - 1 ELSE refs[h]]
      /\ charge' = [h \in Handle |-> IF h \in freed THEN 0 ELSE charge[h]]
      /\ usage_' = usage_ - TotalCharge(charge, freed) /\ lru_' = <<>>
  BY Zenon DEF Destroy, Cached
<1>2. /\ charge \in [Handle -> Nat] /\ refs \in [Handle -> Nat] /\ Live \subseteq Handle
      /\ \A S \in SUBSET Handle : TotalCharge(charge, S) \in Nat
  BY LiveFact, Zenon
<1>3. charge' \in [Handle -> Nat]
  BY Zenon DEF CacheInv, CacheTypes
<1>4. Cached \subseteq Handle /\ freed \subseteq Live
  BY CachedIsLive, Zenon DEF Live
<1>5. Live' = Live \ freed
  BY <1>1, <1>2, <1>4 DEF Live
<1> HIDE DEF freed
<1>6. TotalCharge(charge, Live \ freed) = TotalCharge(charge', Live \ freed)
  <2>1. \A h \in Live \ freed : charge[h] = charge'[h]
    BY <1>1, <1>2, Zenon
  <2> QED
    BY <1>2, <1>3, <2>1, SameCharges, Zenon
<1>7. TotalCharge(charge, Live) = TotalCharge(charge, Live \ freed) + TotalCharge(charge, freed)
  BY <1>2, <1>4, ChargesSplit, Zenon
<1>8. TotalCharge(charge, Live \ freed) \in Nat /\ TotalCharge(charge, freed) \in Nat
  BY <1>2, <1>4, Zenon
<1>9. usage_' = TotalCharge(charge', Live')
  BY <1>1, <1>5, <1>6, <1>7, <1>8
<1>10. Cached' = {}
  BY <1>1 DEF Cached
<1> QED
  BY <1>9, <1>10, Zenon

\* Every step of a user keeps the usage exact, and outside of Insert() within
\* the capacity.
LEMMA UserUsage ==
  ASSUME IInv, IInv', UsageIsExact, NEW u \in User, UserStep(u)
  PROVE  UsageIsExact'
<1>1. /\ CacheInv /\ CacheInv' /\ u # NULL /\ UserTypes
      /\ charge \in [Handle -> Nat] /\ refs \in [Handle -> Nat] /\ usage_ \in Nat
  <2>1. CacheInv /\ CacheInv' /\ UserTypes /\ u # NULL
    BY CacheAssumption, Zenon DEF IInv, UserInv
  <2> QED
    BY <2>1, LiveFact, Zenon DEF UsageIsExact, Live
<1>2. usage_ = TotalCharge(charge, Live) /\ (mutex_ = NULL => usage_ <= Capacity \/ Cached = {})
  BY Zenon DEF UsageIsExact, Live
<1> SUFFICES usage_' = TotalCharge(charge', Live') /\ (mutex_' = NULL => usage_' <= Capacity \/ Cached' = {})
  BY Zenon DEF UsageIsExact, Live
<1>3. CASE Start(u) \/ OpenTable(u) \/ Finish(u)
  <2>1. UNCHANGED <<charge, refs, usage_, mutex_, lru_>>
    BY <1>3, Zenon DEF Start, OpenTable, Finish, cache, entries
  <2>2. Live' = Live /\ Cached' = Cached
    BY <2>1, Zenon DEF Live, Cached
  <2> QED
    BY <1>2, <2>1, <2>2, Zenon
<1>4. CASE FindTable(u)
  <2> DEFINE e == Find(file[u])
  <2>1. Lookup(u, file[u]) /\ file[u] \in Key /\ UNCHANGED <<charge, usage_, mutex_>> /\ mutex_ = NULL
    BY <1>4, Reading, Zenon DEF FindTable, Lookup
  <2>2. CASE e = NULL
    <3>1. UNCHANGED <<refs, lru_>>
      BY <2>1, <2>2, Zenon DEF Lookup
    <3>2. Live' = Live /\ Cached' = Cached
      BY <3>1, Zenon DEF Live, Cached
    <3> QED
      BY <1>2, <2>1, <3>2, Zenon
  <2>3. CASE e # NULL
    <3>1. refs' = [refs EXCEPT ![e] = @ + 1]
      BY <2>1, <2>3, Zenon DEF Lookup
    <3>2. e \in Cached /\ e \in Handle /\ refs[e] > 0
      BY <1>1, <2>1, <2>3, Finds, CachedIsLive, Zenon
    <3> HIDE DEF e
    <3>3. Live' = Live
      BY <1>1, <3>1, <3>2 DEF Live
    <3> QED
      BY <1>2, <2>1, <3>2, <3>3, Zenon
  <2> QED
    BY <2>2, <2>3, Zenon
<1>5. CASE InsertTable(u)
  <2>1. Insert(u, file[u]) /\ file[u] \in Key /\ mutex_' = u
    BY <1>5, Reading, Zenon DEF InsertTable, Insert
  <2> QED
    BY <1>1, <1>2, <2>1, InsertUsage, Zenon
<1>6. CASE InsertEvicts(u)
  <2>1. InsertLoop(u) /\ mutex_' = u
    BY <1>6, Zenon DEF InsertEvicts, InsertLoop
  <2>2. lru_[1] \in Cached /\ Unref(lru_[1])
    BY <1>1, <2>1 DEF InsertLoop, OverCapacity, CacheInv, CacheTypes, Cached
  <2>3. lru_[1] \in Handle /\ refs[lru_[1]] > 0
    BY <1>1, <2>2, CachedIsLive, Zenon
  <2> QED
    BY <1>1, <1>2, <2>1, <2>2, <2>3, UnrefUsage, Zenon
<1>7. CASE TableFound(u)
  <2>1. UNCHANGED <<charge, refs, usage_, lru_>> /\ ~OverCapacity
    BY <1>7, Zenon DEF TableFound, InsertEnd, entries
  <2>2. Live' = Live /\ Cached' = Cached
    BY <2>1, Zenon DEF Live, Cached
  <2>3. lru_ = <<>> => Cached = {}
    BY DEF Cached
  <2> QED
    BY <1>1, <1>2, <2>1, <2>2, <2>3, CacheAssumption DEF OverCapacity
<1>8. CASE ReleaseTable(u)
  <2>1. Release(u)
    BY <1>8, Zenon DEF ReleaseTable
  <2>2. Unref(handle[u]) /\ handle[u] # NULL /\ mutex_ = NULL /\ lru_' = lru_
    BY <2>1, Zenon DEF Release
  <2>3. handle[u] \in Handle /\ refs[handle[u]] > 0
    BY <2>2, Reading, Zenon
  <2>4. usage_' = TotalCharge(charge', Live') /\ usage_' <= usage_
    BY <1>1, <1>2, <2>2, <2>3, UnrefUsage, Zenon
  <2>5. Cached' = Cached
    BY <2>2, Zenon DEF Cached
  <2>6. usage_' \in Nat
    BY <1>1, <2>4, LiveFact, UnitsFinite, Zenon DEF CacheInv, CacheTypes, Live
  <2>7. usage_ <= Capacity => usage_' <= Capacity
    <3>1. usage_ \in Nat /\ usage_' \in Nat /\ Capacity \in Nat /\ usage_' <= usage_
      BY <1>1, <2>4, <2>6, CacheAssumption, Zenon
    <3> QED
      BY <3>1, SMT
  <2> QED
    BY <1>2, <2>2, <2>4, <2>5, <2>7, Zenon
<1> QED
  BY <1>3, <1>4, <1>5, <1>6, <1>7, <1>8, Zenon DEF UserStep

\* The other steps keep the usage, too: they free entries, or leave the cache.
LEMMA OtherUsage ==
  ASSUME IInv, IInv', UsageIsExact, Evict \/ Close \/ LogAndApply \/ DeleteFile \/ UNCHANGED vars
  PROVE  UsageIsExact'
<1>1. /\ CacheInv /\ CacheInv' /\ UserTypes
      /\ charge \in [Handle -> Nat] /\ refs \in [Handle -> Nat] /\ usage_ \in Nat
  <2>1. CacheInv /\ CacheInv' /\ UserTypes
    BY Zenon DEF IInv, UserInv
  <2> QED
    BY <2>1, LiveFact, Zenon DEF UsageIsExact, Live
<1>2. usage_ = TotalCharge(charge, Live) /\ (mutex_ = NULL => usage_ <= Capacity \/ Cached = {})
  BY Zenon DEF UsageIsExact, Live
<1> SUFFICES usage_' = TotalCharge(charge', Live') /\ (mutex_' = NULL => usage_' <= Capacity \/ Cached' = {})
  BY Zenon DEF UsageIsExact, Live
<1>3. ASSUME UNCHANGED <<charge, refs, usage_, mutex_, lru_>>
      PROVE  usage_' = TotalCharge(charge', Live') /\ (mutex_' = NULL => usage_' <= Capacity \/ Cached' = {})
  <2>1. Live' = Live /\ Cached' = Cached
    BY <1>3, Zenon DEF Live, Cached
  <2> QED
    BY <1>2, <1>3, <2>1, Zenon
<1>4. CASE LogAndApply \/ DeleteFile \/ UNCHANGED vars
  BY <1>3, <1>4, Zenon DEF LogAndApply, DeleteFile, vars, cache, entries
<1>5. CASE Close
  BY <1>1, <1>2, <1>5, DestroyUsage, Zenon DEF Close
<1>6. CASE Evict
  <2>1. PICK f \in Obsolete : Erase(f)
    BY <1>6, Zenon DEF Evict
  <2>2. f \in Key /\ mutex_ = NULL
    BY <1>1, <2>1, Zenon DEF Obsolete, UserTypes, Erase
  <2>3. CASE Find(f) = NULL
    BY <1>3, <2>1, <2>3, Zenon DEF Erase, entries
  <2>4. CASE Find(f) # NULL
    <3> DEFINE e == Find(f)
    <3>1. e \in Cached /\ e \in Handle /\ refs[e] > 0
      BY <1>1, <2>2, <2>4, Finds, CachedIsLive, Zenon
    <3>2. Unref(e)
      BY <2>1, <2>4, Zenon DEF Erase
    <3> HIDE DEF e
    <3>3. usage_' = TotalCharge(charge', Live') /\ usage_' <= usage_ /\ usage_ <= Capacity
      BY <1>1, <1>2, <2>2, <3>1, <3>2, UnrefUsage, Zenon
    <3>4. usage_' \in Nat
      BY <1>1, <3>3, UnitsFinite, Zenon DEF CacheInv, CacheTypes, Live
    <3> QED
      BY <1>1, <3>3, <3>4, CacheAssumption
  <2> QED
    BY <2>3, <2>4, Zenon
<1> QED
  BY <1>4, <1>5, <1>6, Zenon

\* Types, for any cache
THEOREM CacheTypesHold == Spec => []TypeOK
<1>1. IInv => TypeOK
  BY Zenon DEF IInv, CacheInv, CacheTypes, UserInv, UserTypes, UserOK, Places, TypeOK
<1> QED
  BY <1>1, CacheInvariance, PTL

\* Unref() and its callers keep the reference counts exact, so that no entry is
\* freed while a user holds it, and none is leaked.
THEOREM ReferencesAreExact == Spec => []RefsAreExact
<1>1. IInv => RefsAreExact
  BY Zenon DEF IInv, CacheInv
<1> QED
  BY <1>1, CacheInvariance, PTL

\* HandleTable and the list of LRUCache agree, through Resize() of the table.
THEOREM TableAndListAgree == Spec => []TableAgrees
<1>1. IInv => TableAgrees
  BY Zenon DEF IInv, CacheInv
<1> QED
  BY <1>1, CacheInvariance, PTL

\* usage_ is what the entries in memory are charged, and Insert() returns with it
\* within the capacity, or with an empty list.
THEOREM UsageTheorem == Spec => []UsageIsExact
<1>1. Init => UsageIsExact
  <2> SUFFICES ASSUME Init PROVE UsageIsExact
    BY Zenon
  <2>1. {h \in Handle : refs[h] > 0} = {} /\ usage_ = 0 /\ Cached = {}
    BY DEF Init, InitCache, Cached
  <2>2. UNION {{h} \X (1..charge[h]) : h \in {}} = {}
    BY Zenon
  <2>3. TotalCharge(charge, {}) = 0
    BY <2>2, FS_EmptySet, Zenon DEF TotalCharge
  <2> QED
    BY <2>1, <2>3, Zenon DEF UsageIsExact
<1>2. ASSUME IInv, IInv', UsageIsExact, [Next]_vars PROVE UsageIsExact'
  BY <1>2, UserUsage, OtherUsage, Zenon DEF Next, Closed
<1> QED
  BY <1>1, <1>2, CacheInvariance, PTL DEF Spec

\* The books of the cache agree after every step of its users, for any of the
\* constants: references, list, hash table and usage.
THEOREM CacheBooksAgree == Spec => []BooksAgree
<1>1. RefsAreExact /\ TableAgrees /\ UsageIsExact => BooksAgree
  BY Zenon DEF BooksAgree
<1> QED
  BY <1>1, ReferencesAreExact, TableAndListAgree, UsageTheorem, PTL

\* FindTable() gives a user the table of its file, which stays open until the
\* user releases it.
THEOREM ReadsAnOpenTable == Spec => []HandleIsValid
<1>1. IInv => HandleIsValid
  BY Counted, Zenon DEF IInv, UserInv, UserOK, HeldIsLive, HandleIsValid
<1> QED
  BY <1>1, CacheInvariance, PTL

\* DeleteObsoleteFiles() deletes a file when no table of it is open.
THEOREM NoOpenFileIsDeleted == Spec => []DeletedIsClosed
<1>1. IInv => DeletedIsClosed
  BY Zenon DEF IInv
<1> QED
  BY <1>1, CacheInvariance, PTL

=============================================================================
