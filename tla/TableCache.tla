----------------------------- MODULE TableCache -----------------------------
(***************************************************************************)
(* The cache of open tables, its users and the deletion of files           *)
(* (src/leveldb/db/table_cache.cc, version_set.cc, db_impl.cc).  A user is *)
(* a Get() or an iterator: it takes a reference to a Version, finds the    *)
(* table of a file through the cache, opens it if need be, reads it, and   *)
(* gives both back.  DeleteObsoleteFiles() evicts a table and deletes its  *)
(* file with the mutex_ of the database held, which a user needs to take   *)
(* or give back its Version, and for nothing else.                         *)
(***************************************************************************)
EXTENDS LRUCache

VARIABLES
  pc,             \* place of each user
  file,           \* the file it reads, which its Version names, or NULL
  live,           \* files of the current Version
  disk,           \* files that exist
  gc              \* the file DeleteObsoleteFiles() is deleting, or NULL

vars == <<cache, handle, pc, file, live, disk, gc>>

Init ==
  /\ InitCache
  /\ pc = [u \in User |-> "idle"] /\ file = [u \in User |-> NULL]
  /\ live = Key /\ disk = Key /\ gc = NULL

Goto(u, p) == pc' = [pc EXCEPT ![u] = p]

-----------------------------------------------------------------------------

\* Version::Ref(), of the current Version
Start(u) ==
  /\ pc[u] = "idle" /\ gc = NULL
  /\ \E f \in live : file' = [file EXCEPT ![u] = f]
  /\ Goto(u, "find")
  /\ UNCHANGED <<cache, handle, live, disk, gc>>

\* FindTable() up to the answer of the cache
FindTable(u) ==
  /\ pc[u] = "find"
  /\ Lookup(u, file[u])
  /\ Goto(u, IF handle'[u] = NULL THEN "open" ELSE "use")
  /\ UNCHANGED <<file, live, disk, gc>>

\* NewRandomAccessFile() and Table::Open(), with no lock held; errors are not
\* cached.
OpenTable(u) ==
  /\ pc[u] = "open"
  /\ \E p \in {"done"} \cup {q \in {"insert"} : file[u] \in disk} : Goto(u, p)
  /\ UNCHANGED <<cache, handle, file, live, disk, gc>>

InsertTable(u) ==
  /\ pc[u] = "insert"
  /\ Insert(u, file[u])
  /\ Goto(u, "evict")
  /\ UNCHANGED <<file, live, disk, gc>>

InsertEvicts(u) ==
  /\ pc[u] = "evict"
  /\ InsertLoop(u)
  /\ UNCHANGED <<pc, file, live, disk, gc>>

TableFound(u) ==
  /\ pc[u] = "evict"
  /\ InsertEnd(u)
  /\ Goto(u, "use")
  /\ UNCHANGED <<file, live, disk, gc>>

\* The end of Get(), or UnrefEntry() of an iterator
ReleaseTable(u) ==
  /\ pc[u] = "use"
  /\ Release(u)
  /\ Goto(u, "done")
  /\ UNCHANGED <<file, live, disk, gc>>

\* Version::Unref()
Finish(u) ==
  /\ pc[u] = "done" /\ gc = NULL
  /\ file' = [file EXCEPT ![u] = NULL] /\ Goto(u, "idle")
  /\ UNCHANGED <<cache, handle, live, disk, gc>>

\* A compaction has replaced a file.
LogAndApply ==
  /\ gc = NULL
  /\ \E f \in live : live' = live \ {f}
  /\ UNCHANGED <<cache, handle, pc, file, disk, gc>>

\* Mutant: a file that only an older Version names is obsolete.
NotCurrent == disk \ live

\* Files that neither the current Version nor one in use names
Obsolete == disk \ (live \cup {file[u] : u \in User})

\* One file of DeleteObsoleteFiles(): Evict(), then DeleteFile()
Evict ==
  /\ gc = NULL
  /\ \E f \in Obsolete : gc' = f /\ Erase(f)
  /\ UNCHANGED <<pc, file, live, disk>>

DeleteFile ==
  /\ gc # NULL
  /\ disk' = disk \ {gc} /\ gc' = NULL
  /\ UNCHANGED <<cache, handle, pc, file, live>>

\* The destructor of the database, when all calls have returned
Close ==
  /\ gc = NULL /\ \A u \in User : pc[u] = "idle"
  /\ Destroy
  /\ pc' = [u \in User |-> "closed"]
  /\ UNCHANGED <<file, live, disk, gc>>

Closed == (\A u \in User : pc[u] = "closed") /\ UNCHANGED vars

-----------------------------------------------------------------------------

UserStep(u) ==
  \/ Start(u) \/ FindTable(u) \/ OpenTable(u) \/ InsertTable(u) \/ InsertEvicts(u) \/ TableFound(u)
  \/ ReleaseTable(u) \/ Finish(u)

Next == (\E u \in User : UserStep(u)) \/ LogAndApply \/ Evict \/ DeleteFile \/ Close \/ Closed

Spec == Init /\ [][Next]_vars

-----------------------------------------------------------------------------
(* Properties *)

Cached == {lru_[i] : i \in DOMAIN lru_}
Holders(h) == {u \in User : handle[u] = h}

\* Types; the loop of Insert() runs in the user that holds mutex_, and elems_
\* counts the entries, as Resize() asserts.
TypeOK ==
  /\ key \in [Handle -> Key \cup {NULL}] /\ charge \in [Handle -> Nat] /\ refs \in [Handle -> Nat]
  /\ lru_ \in Seq(Handle) /\ length_ \in Nat \ {0} /\ list_ \in [0..length_ - 1 -> SUBSET Handle]
  /\ elems_ = Cardinality(Cached)
  /\ mutex_ \in User \cup {NULL} /\ handle \in [User -> Handle \cup {NULL}]
  /\ pc \in [User -> {"idle", "find", "open", "insert", "evict", "use", "done", "closed"}]
  /\ \A u \in User : pc[u] = "evict" <=> mutex_ = u
  /\ file \in [User -> Key \cup {NULL}] /\ live \subseteq Key /\ disk \subseteq Key /\ gc \in Key \cup {NULL}

\* A user reads the table of its own file, and that table has not been freed,
\* whoever inserted it, replaced it, evicted it or pushed it out meanwhile.
HandleIsValid ==
  \A u \in User : pc[u] \in {"evict", "use"} => refs[handle[u]] > 0 /\ key[handle[u]] = file[u]

\* The references of an entry are those of its users and that of the cache, so
\* that it is freed when the last of them goes, no sooner and no later.
RefsAreExact ==
  \A h \in Handle : refs[h] = Cardinality(Holders(h)) + IF h \in Cached THEN 1 ELSE 0

\* The hash table and the list agree: the same entries, one for a key, each in
\* the bucket where FindPointer() looks for it, through all resizing.
TableAgrees ==
  /\ \A i, j \in DOMAIN lru_ : key[lru_[i]] = key[lru_[j]] => i = j
  /\ \A h \in Handle, b \in DOMAIN list_ : h \in list_[b] <=> h \in Cached /\ Bucket(key[h]) = b

\* usage_ is what the entries in memory are charged, and outside Insert() it is
\* within the capacity unless users hold all of them.
UsageIsExact ==
  /\ usage_ = TotalCharge(charge, {h \in Handle : refs[h] > 0})
  /\ mutex_ = NULL => usage_ <= Capacity \/ Cached = {}

\* The books of the cache agree: references, list, hash table and usage.
BooksAgree == RefsAreExact /\ TableAgrees /\ UsageIsExact

\* When DeleteFile() is called no table of the file is open, in the cache or
\* with a user, and none will be: Windows deletes no open file.
DeletedIsClosed ==
  \A h \in Handle : refs[h] > 0 => key[h] \in disk \ {gc}
=============================================================================
