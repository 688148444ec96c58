# A verification development for `foreign`

The repository is a collection of vendored C and C++ libraries. Two of them are concurrent
systems whose correctness rests on protocols between threads: **LevelDB** (`src/leveldb`,
the Windows port), which must also survive crashes, and **ZeroMQ** (`src/zmq`). This
development models LevelDB's writers and background thread, what it keeps on disk, its log
format, its levels and compactions, the skip list of its memtables, its condition variable
and its cache of open tables; and ZeroMQ's mailboxes, its pipes and sessions, and the way
its objects own and end each other. The specifications are TLA+, checked with TLC on small
instances; eight modules of proofs hold theorems that TLAPS checks for all values of the
constants.

Paths below are relative to `src/leveldb/` or, where ZeroMQ is meant, to `src/zmq/`.

## 1. Inventory

| Part | Code | Modules | State |
|---|---|---|---|
| Writers, group commit, background thread, destructor | `db/db_impl.cc` | `WritePath`, `WritePathProofs`, `WriteAckProofs` | modelled, safety proved |
| Files, recovery, MANIFEST/CURRENT, garbage collection | `db/db_impl.cc`, `db/version_set.cc`, `db/filename.cc`, `db/builder.cc` | `Durability`, `DurabilityProofs` | modelled, safety proved outside of the windows |
| Log and MANIFEST record format | `db/log_writer.cc`, `db/log_reader.cc` | `LogFormat` | modelled |
| Versions, levels, compaction, reads, snapshots | `db/version_set.cc`, `db/db_impl.cc`, `db/memtable.cc`, `db/snapshot.h` | `Compaction`, `KVStore`, `CompactionProofs` | partly, proved outside of the windows |
| Skip list | `db/skiplist.h` | `SkipList`, `SkipListProofs` | modelled, proved |
| Mutex and condition variable | `port/port_win.cc` | `CondVar`, `WakeUps`, `CondVarProofs` | partly, proved |
| LRU cache, table cache, deletion of open files | `util/cache.cc`, `db/table_cache.cc` | `LRUCache`, `TableCache`, `TableCacheProofs` | partly, proved |
| Windows environment | `util/env_win.cc` | inside `Durability` and `LogFormat` | partly |
| ZeroMQ mailbox, lock-free pipe, signaler | `mailbox.cpp`, `ypipe.hpp`, `yqueue.hpp`, `signaler.cpp` | `Mailbox`, `YPipe`, `Channel`, `MailboxProofs` | partly, safety proved |
| ZeroMQ pipes and sessions | `pipe.cpp`, `session_base.cpp`, `socket_base.cpp` | `Pipe`, `Session` | partly |
| ZeroMQ ownership, context, reaper | `own.cpp`, `ctx.cpp`, `reaper.cpp`, `object.cpp` | `Ownership` | partly |
| LevelDB's version edits and coding; tables, blocks, filters; arena, hashes; in-memory environment. ZeroMQ's engines, socket types and transports | `db/version_edit.cc`, `table/`, `util/`, `helpers/memenv/`; `src/zmq` | none | not modelled, see section 8 |
| Berkeley DB, libevent, Tor, OpenSSL, Crypto++, sphlib, secp256k1, MPIR, protobuf, jansson, qrencode, zlib, miniupnpc, libpcap, WinPcap, tcpdump; headers of SQLite, ODB, OpenCL | `src/*` | none | not modelled, see section 8 |

How the parts of LevelDB interact: a `Write()` queues up (`WritePath`), its leader appends a
record (`LogFormat`) and inserts into the memtable (`SkipList`); a full memtable is handed to
the background thread, which makes it a table and records this in the MANIFEST
(`Durability`), picks levels and merges tables (`Compaction`) and deletes files nobody needs
(`Durability`, `TableCache`). Threads wait for each other with `port::CondVar` (`CondVar`).
Each module assumes of its neighbours what the neighbour's module shows: `WritePath` has no
spurious wake-ups because of `CondVar`; `SkipList` has one writer because of `LeaderAtFront`
of `WritePath`; `Durability` has one writer and one background thread because of
`WritePath`, and whole or missing log records because of `LogFormat`; `Compaction` has one
compaction at a time because of `WritePath`.

Those of ZeroMQ: threads send each other commands through mailboxes (`Mailbox`, over
`YPipe`), which are reliable channels (`Channel`), and so `Pipe`, `Session` and `Ownership`
have sequences of commands. A pipe carries messages over two ypipes, which in `Pipe` are
what `YPipe` shows them to be: queues with a reader that falls asleep and is woken. A
session joins a pipe to an engine (`Session`); which object may be deleted, and when, is the
subject of `Ownership`, where a pipe is only the handshake that ends it.

## 2. The modules

**`WritePath`** — `DBImpl::Write()`, `BuildBatchGroup()`, `MakeRoomForWrite()`,
`TEST_CompactRange()`, `BackgroundCall()` and what it calls, and the destructor. One action is
one stretch of code between taking and releasing `mutex_`, or one unlocked I/O step (adding
a record, `Sync()`, inserting into the memtable, building a table). `pc[t]` is the place of
thread `t`, `bg` that of the background thread, `writers_` the queue; `log`, `mem_`, `imm_`
and `flushed` say whose batches are where. Any I/O step may fail, up to `MaxFaults` times.
A batch is its caller and its size.

**`Durability`** — the disk (`logs`, `tables`, `manifests`, `current`, `tmp`), the thread
that opens the database or, once it is open, works in the background, the writers as one
thread, and one iterator. Actions are the I/O steps of `DB::Open()`, `Recover()`,
`RecoverLogFile()`, `NewDB()`, `LogAndApply()`, `SetCurrentFile()`, flush, compaction,
trivial move and `DeleteObsoleteFiles()`, each with its failure, and two crashes: of the
process (memory is lost) and of the machine (what was not synced may be lost too). A log keeps
the set of its records and the set that is on disk; a MANIFEST what its edits amount to.

**`LogFormat`** — `log::Writer` and `log::Reader` cell by cell over a file that
`Win32MapFile` maps and preallocates. The file ends by `Close()`, by the end of the process
or by that of the machine, in the middle of a record if it so happens; then the reader runs
from an initial offset. A checksum is modelled as the bytes it is taken of.

**`Compaction`** and **`KVStore`** — entries are sequence numbers, tables are sets of them.
Flush (with `PickLevelForMemTableOutput()`), `PickCompaction()`, `CompactRange()`,
`SetupOtherInputs()` with its growing inputs, the drop rules of `DoCompactionWork()`,
trivial moves, snapshots and reopening. `Get()` is an operator that looks at memtables and
levels in the order of the code. The tables of level 0 have their file numbers, which say
which is newer. `KVStore` is the promise of `db.h`: a map with frozen copies.
What the code decides by sizes is left open.

**`SkipList`** — `Insert()` and the searches `FindGreaterOrEqual()`, `FindLessThan()` and
`FindLast()`, with the iterator's `Seek()`, `SeekToFirst()`, `SeekToLast()`, `Next()` and
`Prev()` on top. One action is one access to shared memory. A node is its key; `next_` is
`Garbage` until `Insert()` stores it. The links are stored with release and loaded with
acquire, so the model keeps their order; `max_height_` has no barrier, and a load of it
returns any value it has had. `seen` records which keys were in the list when a search began.

**`CondVar`** and **`WakeUps`** — the condition variable that `port_win.cc` builds of two
semaphores, a counter and a mutex, one action per system call; `WakeUps` is what its callers
expect of it.

**`LRUCache`** and **`TableCache`** — a shard of the cache: entries with reference counts at
addresses that are used again, the list, the hash table with `Resize()`. A method is one step
under its `mutex_`; the loop of `Insert()` is one step per entry that it drops. Users take a
Version, find, open, insert, read and release a table; `DeleteObsoleteFiles()` evicts and
deletes. A user reads one file of its Version and the others are not kept for it, so that the
model deletes more than the code.

**`YPipe`**, **`Mailbox`** and **`Channel`** — the lock-free pipe with the chunks under it
(`yqueue_t`), and the mailbox that several senders write to under a mutex and one reader
reads without. One action is one lock, one atomic operation (`c.cas()`, `c.set()`), or one
system call of the signaler; `spare_chunk.xchg()` is part of the `push()` or `pop()` it
ends, which touch nothing else that both threads see. The reader may time out in any wait,
and destroys the mailbox when it has every command that will come. `Channel` says what
senders and reader expect: every command, once, in order, and in the end.

**`Pipe`** and **`Session`** — the two `pipe_t` of a connection: water marks, reading,
writing, rollback, `terminate()` with and without a delay, the delimiter, `hiccup()`, and the
six states of the termination; around them the application that sends, receives, terminates
the pipe and closes the socket, and the session with its engine that connects, breaks and
reconnects, its linger timer and its end. One action is a handler up to the next command it
sends that another thread could see the rest of the handler after; `todo[e]` is that rest.
`opt` is chosen at the start from the combinations of `MCSession`: sending or receiving
sockets, subscribers, listeners and connecters, `immediate`, sockets that never read and so
do not wait for what is in their pipe (`set_nodelay()`), connections that are not made again
(`reconnect_ivl` -1), and the linger periods 0, some and for ever.

**`Ownership`** — `own_t` with its sequence numbers and acknowledgements, sockets,
listeners, sessions and connecters in threads of their own, `zmq_bind()`, `zmq_connect()`,
`zmq_unbind()`, `zmq_disconnect()` and `zmq_close()`, the reaper, `zmq_ctx_shutdown()` and
`zmq_ctx_term()`, which may be interrupted and called again. A session has a sequence of
pipes: with `immediate` it gives one up with its connection and makes another, and a session
whose pipe the socket gave up makes another too. A handler is one step, except
`launch_child()`, whose two commands go to two threads. `plan` is chosen at the start from
those of `MCOwnership`: what the application launches, ends and closes, and the thread of each
object.

`MCTableCache`, `MCSession` and `MCOwnership` add what TLC needs: symmetry sets and values of
constants. An operator with the comment "Mutant" is a version of the definition below it
with a plausible bug; `PROJECT.json` says which property that bug breaks.

## 3. Runs

| Run | Question | Result |
|---|---|---|
| `write_group` | Three calls in any mix of sync options and manual compactions, up to two I/O failures: one leader at a time, no lost wake-up, success reported exactly for what is applied, sync honoured in groups, nothing acknowledged behind a failed `Sync()`, no wait without someone to end it, and every call and the destructor return | holds, 217,665 states |
| `durable` | Two writes, two crashes of process or machine, one failing I/O operation: nothing lost, everything served, no table in use deleted, fresh file and sequence numbers, and the database opens again | holds, 825,061 states |
| `log_read_back` | Two records of sizes that reach every case at a block's end, any end of the file, two initial offsets: whole records in order, all promised ones, no false alarm, and the reader ends | holds, 422,000 states |
| `compact_levels` | Four levels, three keys, three writes, a snapshot, manual compactions: no overlap, newest first, reads right | holds, 442,282 states |
| `skip_list` | Three keys, three levels, one reader against the writer: nothing uninitialized is followed, and no search or step of an iterator misses a key | holds, 116,042 states |
| `cond_var` | Five threads: clean handshake, the promise of `WakeUps`, and `Signal()` returns | holds, 4,802 states |
| `table_cache` | Two users, three files, four addresses, a cache for two tables of charge 1 or one of charge 2: no table freed in use, counts, list, hash table and usage agree, no open file deleted | holds, 83,454 states |
| `mailbox` | Two senders of three commands each: who is woken finds a command, nobody is inside a mailbox that is destroyed, chunks are handed over exactly, and the mailbox is a `Channel` | holds, 652,464 states |
| `session` | One pipe, thirteen kinds of socket, a broken connection: no assertion fails, no end is used after its end, lingering for ever loses nothing, no reader or writer sleeps with work to do, messages are whole and in order, and the session ends | holds, 542,981 states |
| `ownership` | One socket that binds or connects, and unbinds or disconnects, whose pipes are replaced or given up, or two sockets; a context that is shut down, terminated and interrupted: no assertion fails, no command reaches a deleted object, children go first, and `zmq_ctx_term()` returns | holds, 139,581 states |
| `lost_recovery_error` | `Open()` fails when a log cannot be recovered | violated |
| `split_key` | Entries never hop across levels | violated with a snapshot |

The two violations are disagreements of code and comments, found while writing the models:

- `Recover()` overwrites the status of a log that could not be recovered with that of the
  next (`db/db_impl.cc:344`): `Open()` succeeds, the writes are gone and their log is deleted.
- A compaction output may end between two entries of one user key that a snapshot keeps
  apart; a later compaction can move the newer one below the older.

### Windows left out of the passing runs

The passing runs exclude, by name, what is known not to hold, so that they show everything
else. Adding a name to the constant shows the case.

- `CrashPoints` of `Durability`: `"rename"` (`RenameFile()` deletes its target before it moves
  the source, `util/env_win.cc:843`; a process that ends in between leaves no CURRENT, where
  `include/leveldb/options.h:176` says that no write is lost when just the process crashes);
  `"manifest"` (a crash inside `AddRecord()` on the MANIFEST, or of the machine before its
  `Sync()`, leaves a torn record, which the reader reports as a corruption,
  `db/log_reader.cc:239`, and `Open()` fails); `"newdb"` (`NewDB()` does not sync the first
  MANIFEST, `db/db_impl.cc:197`); `"leftover"` (a MANIFEST that an earlier `Open()` left under
  the number that is drawn again is opened without being truncated, `util/env_win.cc:624`, and
  its tail follows the new records); `"goes_on"` (the edit of a flush inside a compaction
  fails, and the compaction still adds its own: a part of the failed record may be in front of
  it, and a `Sync()` that failed has already moved `_last_sync`, `util/env_win.cc:602`, so that
  the next one leaves that part out).
- `FaultKinds` of `Durability`: `"recover"` (above), `"open"` (a log that cannot be opened is
  skipped, `db/db_impl.cc:383`: without `paranoid_checks` its error is dropped, with it the
  status of the next log replaces it), `"move"` and `"rename"` (a failing `MoveFileW()` or
  `RenameFile()`; `util/env_win.cc:841` does not report all of its errors).
- `FaultKinds` of `LogFormat`: `"append"` (`EmitPhysicalRecord()` advances `block_offset_`
  although the append failed, `db/log_writer.cc:98`, and `Write()` goes on with later,
  acknowledged records). `NoFalseAlarm` is about readers from offset 0: with an initial
  offset inside a record the reader may report the skipped fragments
  (`db/log_reader.cc:105`).
- `Windows` of `Compaction`: `"split"` (above) and `"gap"` (a memtable flushed past level 0
  while a manual compaction holds inputs that do not cover its keys, `db/version_set.cc:502`).
- `Windows` of `Session`: `"lost_peer"` (with an endless linger period, a session that was
  accepted, or whose engine met a protocol error, does not end when its connection breaks
  while it waits for the delimiter, `session_base.cpp:411-422`); `"half_read"` (a connection
  breaks in the middle of a message whose rest the pipe no longer hands out, and the
  `errno_assert` of `clean_pipes()` fails, `session_base.cpp:210`); `"set_hwm"`
  (`set_hwms()` takes a boost that was never set for "no limit", `pipe.cpp:526-534`, and makes
  the low water mark 0, which the comment at `pipe.cpp:460-462` rules out; the reader then
  acknowledges nothing and a writer that has stopped stays so).
- `MCOptions` of `MCSession` has neither `immediate` with a finite linger period (`reconnect()`
  drops the pipe and leaves the linger timer, whose handler asserts that there is a pipe,
  `session_base.cpp:478`), nor a subscriber that lingers for ever (`hiccup()` races with
  `terminate()`, and the delimiter is drained with the old pipe), nor messages of several
  parts from a subscriber upstream (a hiccup may tear them).

`WritePath` leaves nothing out: after a background error `TEST_CompactRange()` withdraws its
request, and a background call that is still working on it follows a NULL pointer at its end
(`db/db_impl.cc:726`). The model stops there (`bg = "crashed"`), the invariants of
`write_group` hold up to that point, and `CallsReturn` excepts it.

`Windows` of `Ownership` has one name, `"stale_endpoint"`: `pipe_terminated()` takes an ended
pipe out of `inprocs` but not out of `endpoints` (`socket_base.cpp:1392`), and a later
`zmq_disconnect()` calls `terminate()` on it (`socket_base.cpp:911`), which by then is deleted.

In `Ownership`, a child's `term_req` may come before the owner has processed its `own`, and
is then ignored (`own.cpp:107-110`); the child stays until its owner ends, which breaks no
property.

### Bounds

Three writers are the least for a group with a follower that joins, one that does not, and one
that comes later. `WriteBufferSize` 0 makes every write a candidate for a memtable switch;
batches of size 1, with `SmallBatch` 1 and `MaxBatch` 3, take the branch for small batches,
whose limit of 2 a third one exceeds. Two crashes let
recovery itself crash. `MaxFile` bounds only the numbers that compactions draw. A block of 8
cells with headers of 3 has, after records of 2, 3 or 12 cells, every remainder that the
writer and the reader treat apart, and 12 makes a record of first, middle and last
fragments. Three writes of one key with a snapshot reach every drop rule; four levels let a
flush pass level 0 and a compaction lie below another. Five threads wait, wake and signal at
once. Four addresses for three files let a replaced entry live on, and addresses be used
again; `InitialLength` 1 (4 in the code) makes the table grow twice.

Three keys let a key be inserted before, at and after the place of a search, in lists of three
heights (12 in the code). Chunks of two items (16 or 256 in the code) are the smallest with
a first and a last item, and six commands make the queue pass several chunks, take one from
the heap and one from the spare place. Two messages of up to two parts against high water
marks of 1 make the writer stop and be woken, and one subscriber has a low water mark of 2,
whose reader acknowledges only every second message; one broken connection lets a session
reconnect before, during and after `terminate()`. Two connecters let a session connect,
lose its connection and connect again. In the first four plans of `MCOwnership` parent and
child are in different threads, so that their commands race; in the two with several pipes
all children share a thread, and race with the socket and the reaper. The three plans
in which a session connects again close the socket before `zmq_ctx_term()` and do not
interrupt it; the others close, shut down, terminate and interrupt in any order.

### Fairness

`WritePath`: a running thread, the background thread and a woken destructor take their next
step (weak fairness: the operating system schedules them, I/O returns). Nothing is assumed
of new calls or of faults. `Durability`: `Open()` goes on and is tried again, and I/O does
not fail for ever (faults are bounded, and fairness is on the steps that work). `LogFormat`:
the caller reads until `ReadRecord()` returns false. `CondVar`: threads inside `Wait()` or
`Signal()` are scheduled; nothing is assumed of who gets the mutex. `Mailbox`: a sender
inside `send()` goes on, and a reader calls `recv()` again; it is strongly fair that a
reader with a signal waiting takes it, as `poll()` returns at once then. Nothing is assumed of
new sends. `Session`: the I/O thread runs, its linger timer fires, a connection that is
being made comes to be, and the peer takes messages; a closed socket is looked after by the
reaper. An application that keeps its socket open need not look after it. `Ownership`: when
I/O threads, the reaper or a `zmq_ctx_term()` can go on, one of them does, which is less than
that each of them is scheduled; nothing is assumed of the application, of new connections or
of errors. That the delimiter of a pipe is read in the end is what `SessionEnds` of `Session`
shows, outside its windows. `TermReturns` lets a call that is interrupted return so.

## 4. What is proved

All of the eight modules prove properties by an inductive invariant, with one lemma for an
action or a group of actions.

**`WritePathProofs`**, from the named assumptions of `WritePath` (a finite set of threads;
limits that are naturals, with the compaction trigger not above the stop trigger):
`TypeCorrect`, `OneLeader` (`LeaderAtFront`) and `NoLostWakeUp` (`FrontAwake`). Neither
property is inductive: what keeps the hand-over right is `QueueInv` (queued writers are
distinct; all but the front sleep and are not served; nobody outside sleeps; the group of a
committing leader lies within the queue), with the fact that the inputs of a running
compaction are still in level 0, which `TypeOK` needs for `l0` to stay a natural.

**`WriteAckProofs`**, on top of it and from the same assumptions, proves the other safety
properties of `write_group`: `WaitersTheorem` (`WaitersHaveBackground`), `AckTheorem`
(`AckedIffApplied`), `SyncTheorem` (`AckedSyncIsOnDisk`) and `FailedSyncTheorem`
(`NoAckBehindFailedSync`). The first needs that a background call is scheduled whenever there is
work that it may do (`BgInv`). The others talk about writers that have returned, and what makes
them true happens while a leader commits for a group; so `GroupInv` says of each place of the
leader where the batches of its group are: nowhere before `AddRecord()` or after its failure, in
the last record after it, visible after the insertion, and on disk then if any of them asked for
it. `ServedInv` says what a status means once it is given, and `FailedSyncInv` that a record
whose `Sync()` failed stays the last, since its leader keeps the front of the queue until
`bg_error_` is set.

**`DurabilityProofs`**, for any number of writes, files, crashes and failures, under
`Survivable`: none of the windows that section 3 names, and failures only of the kinds of
the run `durable`. It proves `DurableInvariance`, `NothingLostTheorem` (`NothingLost`),
`ServesAckedTheorem` (`ServesAcked`), `LiveTablesTheorem` (`LiveTablesExist`) and
`FreshNumbersTheorem` (`FreshNumbers`). The invariant has a part for each stage of a process.
`DiskInv` is what a crash needs: the MANIFEST that CURRENT names, both as written and as on
disk, is sound, its tables and its logs hold all that was acknowledged, and what is synced
holds all that was acknowledged with sync. While `Recover()` reads logs, `LogsInv` says that a
log that is done is in the tables of the coming edit; while `Open()` replaces the MANIFEST,
`SwitchInv` says that the new one is as good as the old; and once the database is open, `RunInv`
relates the MANIFEST to the memory: what it names covers the Version and the memtable being
flushed, or else the logs from its log number on do (`CoverInv`, `LogInv`); nobody knows of a
table that is being built (`BuildInv`, `CompactInv`); and as long as there is no background
error the Version is what the MANIFEST says, so that `DeleteObsoleteFiles()` may go by the
Version (`CollectInv`). After an error the MANIFEST may be ahead of the Version, and nothing is
deleted any more.

**`CondVarProofs`**, from: no more threads than the maximum count of a semaphore:
`CondVarTypes`, `NothingLeftOver` (`HandshakeIsClean`) and `WakesAsPromised`, the refinement
`Spec => KeepsPromise`. The strengthening `Handshake` says where the wake-ups given by a
running `Signal()` or `SignalAll()` are: in `sem1_`, with a thread between the semaphores, or in
`sem2_`.

**`TableCacheProofs`**, for any users, keys, addresses, hash function, initial length,
capacity and charges: `CacheTypesHold`, `ReferencesAreExact`, `TableAndListAgree`,
`UsageTheorem`, the three together as `CacheBooksAgree` (`BooksAgree`), `ReadsAnOpenTable`
(`HandleIsValid`) and `NoOpenFileIsDeleted` (`DeletedIsClosed`). The
invariant has a part for the cache (types, exact counts, table and list agree, an address is
free exactly if it has no key), which each method keeps, and one for its users (a handle is
held exactly while reading, and belongs to the user's file; no file of a Version in use is
gone or going). `Evict()` closes a file because an entry with references is in the cache or
held, and neither is possible for the key that was erased. The usage is a sum, which the
prover could handle by induction only; so `TotalCharge` counts the units of charge of a set of
entries, and what the methods add and subtract are the sizes of disjoint sets of units.

**`SkipListProofs`**, for any number of keys, levels and readers: `ListIsSorted`,
`ReadsInitialized` (`NoGarbageRead`) and `SearchesAreRight` (`MissesNothing`). In the
invariant, the links of a level are initialized, ascend, and pass over no node of that level
(`Sorted`); `max_height_` has been as high as any node (`Covered`); a search stands before its
target at a node that is linked in its level, however old its `max_height_` (`Searching`); and
what `Insert()` has in `prev` and in the new node are the neighbours of its key
(`Inserting`). A node is linked from
level 0 upwards, so whoever meets it in some level can go down.

**`MailboxProofs`**, for any senders, chunk size and number of commands: `WokenTheorem`
(`WokenHasCommand`), `SetTheorem` (while `flush()` stores `c` without an atomic operation, the
reader does not look at it), `DestroyTheorem` (`NoSenderInside`), `ChunksTheorem`
(`ChunksAreOwned`) and `ChannelTheorem`, the safety part of `ImplementsChannel`: initial states
and steps are those of `Channel`. The invariant says
who is responsible for waking the reader: no wake-up is under way to one that is active; one
that sleeps has `c` NULL and an empty pipe; or it sleeps with commands in the pipe, and then
there is exactly one signal, or exactly one sender between `c.set()` and `signaler.send()`. The
destructor needs only the mutex: a sender behind its lock owes a signal, and the reader cannot
have every command before it is given. For the chunks, `Owned` says that the linked ones are
distinct, serve exactly the places from `front` to the one after `back`, and are with the spare
one all that was allocated; `Contents`, that these places hold the commands sent and not yet
received, in order. A `push()` writes no place that holds a command, because two places of the
queue differ in their chunk or in their position within it.

**`CompactionProofs`**, for any number of keys, levels, writes and snapshots, with `Windows`
empty: `LevelsTheorem` (`LevelsInOrder`), `ReadsTheorem` (`ReadsAreRight`) and `IsAStore`, the
refinement `Spec => ImplementsKVStore`. `LevelsInOrder` is not inductive, and the invariant
`IInv` adds:

- `Sorted`: below level 0 no two tables of a level share even a user key. `NoOverlap`, of which
  the code takes care, compares entries, and lets two tables meet in a user key; that is what
  the `"split"` window does.
- `Running`: a memtable may be flushed, past level 0 too, between the moment a compaction picks
  its inputs and the moment it installs its outputs. What still holds at the second moment is
  that the tables of its level that stay behind are newer, and that those of the next level lie
  on one side of all inputs (`Mergeable`); that only tables it has seen hold its keys below its
  outputs (`BelowIsKnown`), on which the drop of a deletion rests; that no snapshot is older than
  the one it goes by; and that the ranges of its inputs leave no gap into which a flush could put
  a table (`Connected`). Manual compactions may leave one, which is the `"gap"` window.
- `Accounted`: the newest write of a key that a snapshot sees is stored, or it is a deletion and
  nothing older of its key is left. With it `Get()` is right: `VersionGetFact` and `LookupFact`
  show that it stops at the newest entry that is stored, `GetFact` that this stands for the
  newest that was written.

In level 0 `GetOverlappingInputs()` grows its range until nothing changes; the model has the
least closed range, and `GrownRange` shows that there is one, by least and greatest elements
instead of induction. For the refinement: the write that a right read finds is unique, so the
store's map is a function of the log of writes; a compaction, flush, move or reopening leaves the
log alone and so every answer, and a write changes the answer for its own key only, at no
snapshot.

## 5. What is only model-checked

- Liveness (`CallsReturn`, `OpensAgain`, `ReaderEnds`, `SignalsReturn`, `SessionEnds`,
  `TermReturns`, and that a `Channel` delivers in the end): fairness and ENABLED are beyond
  the prover.
- `LogFormat`: what a reader makes of a file is a recursion over its cells, and would need
  induction over data.
- `Session` and `Ownership`: no theorem is stated about them. Their invariants are inductive
  only together with the phase of every child and pipe, the commands and calls under way for
  each, and the order of those in a mailbox; that proof has not been carried out. For all
  values of the constants their properties are not known, only for the instances of section 3.
- `Durability` and `Compaction` inside the windows of section 3, where their properties do
  not hold.

## 6. Abstractions to know about

- `Durability`: log records are whole or missing; a MANIFEST record that failed is missing
  (a partly written one is the `"manifest"` window, one that is written over or followed by
  others `"leftover"` and `"goes_on"`). Not modelled: a failing `AddRecord()` on the log (see
  `LogFormat`).
- `WritePath`: a flush of an empty `imm_` makes no table. Each thread makes one call. Of the
  levels there is the number of tables in level 0, the only thing writers wait for. So
  `NeedsCompaction()` is the score of level 0: those of the deeper levels (`Finalize()`,
  `db/version_set.cc:1017-1052`) and `file_to_compact_`, which make the background thread do
  more, are left out, and `PickCompaction` and the manual compactions work on level 0. In the
  code a compaction of a deeper level may go first, and a waiting writer then waits for that
  too. A `TEST_CompactRange()` is one call; the loop of `CompactRange()` over the levels
  (`db/db_impl.cc:548-550`) makes such calls one after the other.
- `Compaction`: `Get()` is one step; a compaction that fails is one that `Reopen` ends;
  `compact_pointer_`, seek budgets and sizes may take any value.
- `LogFormat`: no checksum collisions; so the branch for unknown record types is unreachable.
- `SkipList`: nodes are never freed while the list lives, as the arena keeps them; `height`
  of a new node is any that `RandomHeight()` can return.
- `LRUCache`: a bucket is a set, as its keys are distinct; shards do not interact.
- `CondVar`: the mutex is not assumed fair.
- `Mailbox`: the signaler is a counter, and `Signal` one step of it; a forked process is
  left out.
- `Session`: one pipe is followed; when a session without one makes another, the model
  ends. `conflate`, authentication pipes, raw sockets and the handshake of the engine are
  left out. A message has one part or two.
- `Ownership`: a pipe is the handshake that ends it, and the order of its messages is in
  `Session`. `inproc` connections and `fork()` are left out. `GiveUpPipe` stands for the calls
  of `terminate()` in socket types (`pair.cpp:60`, `req.cpp:64`, `router.cpp:249` and `466`),
  whatever makes them.

## 7. Hazards

`PROJECT.json` lists the places where this code can go wrong in ways a test hardly reaches,
with the properties that would catch it: hand-over of the writers' queue and of `bg_cv_`,
groups with mixed sync options, crashes between table, MANIFEST, CURRENT and log,
errors of one step among several, block ends, torn tails, drop rules with stale snapshots,
searches that pass a node being linked, replaced and evicted cache entries, open files that
are deleted, wake-ups between a sender and a reader that falls asleep, chunks handed between
two threads, both ends of a pipe terminating at once, connections that break while a session
lingers, and commands under way to an object that ends.

## 8. Not modelled, and what is planned

Of LevelDB, in this order:

1. `db/db_iter.cc` over `table/merger.cc`: direction changes, deletions and snapshots
   against a reference definition.
2. `table/block.cc`, `block_builder.cc` and `two_level_iterator.cc`: prefix compression,
   restart points and `Seek()` as functions, against a reference.
3. `Version` reference counts and the list of versions, composed with `TableCache`.
4. The work queue and the lock file of `util/env_win.cc`.
5. Proofs of the invariants of `Ownership` and `Session`, which count the commands under way.

Of ZeroMQ: the socket types with their load balancing, fair queueing and subscription tries
(`lb.cpp`, `fq.cpp`, `mtrie.cpp`), the `REQ`/`REP` state machines, the engines with their
handshakes and codecs, authentication, `inproc` connections, and the transports other than
what a listener and a connecter do to their owners.

Of the rest, the candidates are the lock manager of Berkeley DB (`src/bdb/lock/`) and the
buffered events of libevent (`src/libevent/bufferevent*.c`). Each is a system of its own, of
the size of LevelDB. Coding of integers and version edits, bloom filters, hashes and
checksums, compression, cryptography, parsers and drivers are sequential code over wide words
or bytes, or I/O against devices, and stay out.
