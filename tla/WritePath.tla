----------------------------- MODULE WritePath -----------------------------
(***************************************************************************)
(* The write path of leveldb::DBImpl (src/leveldb/db/db_impl.cc): the      *)
(* queue of writers with its group commit, the switch of memtables, the    *)
(* one background thread that flushes and compacts, manual compaction,     *)
(* the sticky background error and the destructor.                         *)
(*                                                                         *)
(* One action is one stretch of code that holds mutex_, or one unlocked    *)
(* I/O step.  Each thread makes one call, a Write() or a CompactRange().   *)
(* A thread that waits on a condition variable runs again only after a     *)
(* Signal: port::CondVar has no spurious wake-ups (module CondVar).        *)
(***************************************************************************)
EXTENDS Naturals, Sequences, FiniteSets

CONSTANTS
  Thread,                    \* client threads, one call each
  Kinds,                     \* calls they make: "write", "compact"
  Sizes,                     \* sizes (and entry counts) of the batches
  SmallBatch, MaxBatch,      \* 128<<10 and 1<<20 of BuildBatchGroup
  WriteBufferSize,           \* options_.write_buffer_size, in batches
  kL0_CompactionTrigger, kL0_SlowdownWritesTrigger, kL0_StopWritesTrigger,
  MaxFaults,                 \* how many I/O operations may fail
  Null

ASSUME SizesAssumption == Sizes \subseteq Nat \ {0} /\ {SmallBatch, MaxBatch} \subseteq Nat
ASSUME KindsAssumption == Kinds \subseteq {"write", "compact"}
ASSUME LimitsAssumption ==
  /\ WriteBufferSize \in Nat /\ MaxFaults \in Nat
  /\ kL0_CompactionTrigger \in Nat \ {0}
  /\ kL0_SlowdownWritesTrigger \in Nat /\ kL0_StopWritesTrigger \in Nat
  /\ kL0_CompactionTrigger <= kL0_StopWritesTrigger
ASSUME ThreadAssumption == IsFiniteSet(Thread) /\ Null \notin Thread

VARIABLES
  call,        \* call[t]: the arguments of t's call; size 0 is a NULL batch
  pc,          \* pc[t]: where t is in its call
  status,      \* status[t]: Writer::status, "none" until Writer::done
  writers_,    \* the queue of Writers
  force, allow_delay,        \* locals of the leader's MakeRoomForWrite
  group,       \* the leader's batch group: whose batches, last_writer, sequence
  last_sequence_,            \* VersionSet::LastSequence()
  log,         \* records of all log files, in the order they were added
  logfile_number_,
  mem_, imm_, has_imm_,      \* whose batches the memtables hold
  flushed,     \* whose batches the tables hold
  l0,          \* VersionSet::NumLevelFiles(0)
  bg,          \* where the background thread is; "idle": not scheduled
  inputs,      \* level-0 inputs of the running compaction
  is_manual,
  manual_compaction_, manual_done,
  bg_error_, shutting_down_, closer,
  faults       \* I/O failures left

threadVars == <<call, pc, status, writers_, force, allow_delay, group>>
dataVars == <<last_sequence_, log, logfile_number_, mem_, imm_, has_imm_, flushed>>
bgVars == <<l0, bg, inputs, is_manual, manual_compaction_, manual_done>>
ctlVars == <<bg_error_, shutting_down_, closer, faults>>
vars == <<threadVars, dataVars, bgVars, ctlVars>>

NoCall == [kind |-> "none", sync |-> FALSE, size |-> 0]
NoGroup == [batches |-> {}, last |-> 0, first |-> 0, count |-> 0]

Init ==
  /\ call = [t \in Thread |-> NoCall]
  /\ pc = [t \in Thread |-> "idle"]
  /\ status = [t \in Thread |-> "none"]
  /\ writers_ = <<>> /\ force = FALSE /\ allow_delay = FALSE /\ group = NoGroup
  /\ last_sequence_ = 0 /\ log = <<>> /\ logfile_number_ = 1
  /\ mem_ = {} /\ imm_ = {} /\ has_imm_ = FALSE /\ flushed = {}
  /\ l0 = 0 /\ bg = "idle" /\ inputs = 0 /\ is_manual = FALSE
  /\ manual_compaction_ = Null /\ manual_done = [t \in Thread |-> FALSE]
  /\ bg_error_ = FALSE /\ shutting_down_ = FALSE /\ closer = "open"
  /\ faults = MaxFaults

-----------------------------------------------------------------------------
(* Condition variables and scheduling *)

\* Where a thread that waits on bg_cv_ continues once it is signalled.
Woken == [bgwait |-> "room", immsleep |-> "imm", manualsleep |-> "manual"]

\* bg_cv_.SignalAll(), for the threads and for the destructor
SignalAll(p) == [t \in Thread |-> IF p[t] \in DOMAIN Woken THEN Woken[p[t]] ELSE p[t]]
SignalCloser == IF closer = "closesleep" THEN "closing" ELSE closer

\* w.cv.Signal(): only a writer that sleeps in its queue loop is there to wake
SignalWriter(p, t) == IF p[t] = "wait" THEN [p EXCEPT ![t] = "ready"] ELSE p

\* The score of level 0, the only one writers wait for; the other levels and
\* file_to_compact_ are left out.
NeedsCompaction(n) == n >= kL0_CompactionTrigger

\* MaybeScheduleCompaction() with the background thread not scheduled
Scheduled(imm, manual, n, err) ==
  IF /\ ~shutting_down_ /\ ~err
     /\ imm \/ manual # Null \/ NeedsCompaction(n)
  THEN "scheduled" ELSE "idle"

\* Mutant: nothing is scheduled.
NeverScheduled(imm, manual) == bg' = bg

MaybeScheduleCompaction(imm, manual) ==
  bg' = IF bg # "idle" THEN bg ELSE Scheduled(imm, manual, l0, bg_error_)

\* An I/O step succeeds, or fails while failures are left.
Succeeds == faults' = faults
Fails == faults > 0 /\ faults' = faults - 1

-----------------------------------------------------------------------------
(* DBImpl::Write *)

\* Mutant: a writer goes on although it is not at the front.
CallNotWaiting(t) ==
  /\ pc[t] = "idle" /\ ~shutting_down_
  /\ call' = [call EXCEPT ![t] = [kind |-> "write", sync |-> FALSE, size |-> 1]]
  /\ writers_' = Append(writers_, t)
  /\ pc' = [pc EXCEPT ![t] = "room"]
  /\ UNCHANGED <<status, force, allow_delay, group, dataVars, bgVars, ctlVars>>

\* Write() up to its wait loop; CompactRange() starts with Write(NULL)
Call(t) ==
  /\ pc[t] = "idle" /\ ~shutting_down_
  /\ \E k \in Kinds, s \in BOOLEAN, n \in Sizes :
       call' = [call EXCEPT ![t] =
                  IF k = "write" THEN [kind |-> k, sync |-> s, size |-> n]
                                 ELSE [kind |-> k, sync |-> FALSE, size |-> 0]]
  /\ writers_' = Append(writers_, t)
  /\ IF writers_ = <<>>
     THEN /\ pc' = [pc EXCEPT ![t] = "room"]
          /\ force' = (call'[t].size = 0) /\ allow_delay' = (call'[t].size # 0)
     ELSE /\ pc' = [pc EXCEPT ![t] = "wait"]
          /\ UNCHANGED <<force, allow_delay>>
  /\ UNCHANGED <<status, group, dataVars, bgVars, ctlVars>>

\* What follows Write(): a CompactRange() goes on in TEST_CompactMemTable().
AfterWrite(t, s) ==
  IF call[t].kind = "write" THEN "returned" ELSE IF s = "ok" THEN "imm" ELSE "manual"

\* A signalled writer leaves w.cv.Wait(): its batch is done, it leads, or it waits again.
WakeInQueue(t) ==
  /\ pc[t] = "ready"
  /\ \/ /\ status[t] # "none"
        /\ pc' = [pc EXCEPT ![t] = AfterWrite(t, status[t])]
        /\ UNCHANGED <<force, allow_delay>>
     \/ /\ status[t] = "none"
        /\ pc' = [pc EXCEPT ![t] = IF t = Head(writers_) THEN "room" ELSE "wait"]
        /\ force' = (call[t].size = 0) /\ allow_delay' = (call[t].size # 0)
  /\ UNCHANGED <<call, status, writers_, group, dataVars, bgVars, ctlVars>>

\* The total size of the first n queued batches, and the limit for the group
SizeUpTo(n) == Cardinality(UNION {{i} \X (1..call[writers_[i]].size) : i \in 1..n})
MaxGroup == LET s == call[Head(writers_)].size IN IF s <= SmallBatch THEN s + SmallBatch ELSE MaxBatch

\* Mutant: a sync write joins the group of a leader without sync.
CanJoinAnySync(i) == call[writers_[i]].size # 0 => SizeUpTo(i) <= MaxGroup

\* The writer at position i can join the group of the writer at the front.
CanJoin(i) ==
  /\ ~(call[writers_[i]].sync /\ ~call[Head(writers_)].sync)
  /\ call[writers_[i]].size # 0 => SizeUpTo(i) <= MaxGroup

\* BuildBatchGroup: the longest prefix of the queue that can join.  The
\* positions up to which everybody can join are 1..n, so n is their number.
LastWriter == Cardinality({n \in 1..Len(writers_) : \A i \in 2..n : CanJoin(i)})

GroupOf(n, last) ==
  [batches |-> {t \in Thread : call[t].size # 0 /\ \E i \in 1..n : writers_[i] = t},
   last |-> last, first |-> last_sequence_ + 1, count |-> SizeUpTo(n)]

\* Mutant: last_writer is one too far.
GroupPastLast == GroupOf(LastWriter, IF LastWriter < Len(writers_) THEN LastWriter + 1 ELSE LastWriter)

BuildBatchGroup == GroupOf(LastWriter, LastWriter)

\* Mutant: the new front of the queue is not signalled.
PopWithoutSignal(t, n, s, p) ==
  /\ writers_' = SubSeq(writers_, n + 1, Len(writers_))
  /\ status' = [u \in Thread |-> IF \E i \in 1..n : u = writers_[i] THEN s ELSE status[u]]
  /\ pc' = [u \in Thread |-> IF u = t THEN AfterWrite(t, s)
                             ELSE IF p[u] = "wait" /\ \E i \in 1..n : u = writers_[i]
                             THEN "ready" ELSE p[u]]
  /\ group' = NoGroup

\* The end of Write(): pop the writers up to last_writer, hand them the status
\* s, and signal the new front.  p is pc after the leader's own return.
PopGroup(t, n, s, p) ==
  LET rest == SubSeq(writers_, n + 1, Len(writers_))
      popped == {writers_[i] : i \in 1..n}
      q == [u \in Thread |->
              IF u = t THEN AfterWrite(t, s)
              ELSE IF u \in popped /\ p[u] = "wait" THEN "ready" ELSE p[u]]
  IN /\ writers_' = rest
     /\ status' = [u \in Thread |-> IF u \in popped THEN s ELSE status[u]]
     /\ pc' = IF rest = <<>> THEN q ELSE SignalWriter(q, Head(rest))
     /\ group' = NoGroup

\* The critical section of Write() after a successful MakeRoomForWrite()
StartCommit(t) ==
  IF call[t].size = 0
  THEN PopGroup(t, 1, "ok", pc)
  ELSE /\ group' = BuildBatchGroup
       /\ pc' = [pc EXCEPT ![t] = "log"]
       /\ UNCHANGED <<writers_, status>>

-----------------------------------------------------------------------------
(* DBImpl::MakeRoomForWrite, one action per branch of its loop *)

TakeDelay == allow_delay /\ l0 >= kL0_SlowdownWritesTrigger
HasRoom == ~force /\ Cardinality(mem_) <= WriteBufferSize
MustWait == has_imm_ \/ l0 >= kL0_StopWritesTrigger

YieldError(t) ==
  /\ pc[t] = "room" /\ bg_error_
  /\ PopGroup(t, 1, "error", pc)
  /\ UNCHANGED <<call, force, allow_delay, dataVars, bgVars, ctlVars>>

Delay(t) ==
  /\ pc[t] = "room" /\ ~bg_error_ /\ TakeDelay
  /\ pc' = [pc EXCEPT ![t] = "delay"]
  /\ allow_delay' = FALSE
  /\ UNCHANGED <<call, status, writers_, force, group, dataVars, bgVars, ctlVars>>

DelayOver(t) ==
  /\ pc[t] = "delay"
  /\ pc' = [pc EXCEPT ![t] = "room"]
  /\ UNCHANGED <<call, status, writers_, force, allow_delay, group, dataVars, bgVars, ctlVars>>

UseMemTable(t) ==
  /\ pc[t] = "room" /\ ~bg_error_ /\ ~TakeDelay /\ HasRoom
  /\ StartCommit(t)
  /\ UNCHANGED <<call, force, allow_delay, dataVars, bgVars, ctlVars>>

WaitForBackground(t) ==
  /\ pc[t] = "room" /\ ~bg_error_ /\ ~TakeDelay /\ ~HasRoom /\ MustWait
  /\ pc' = [pc EXCEPT ![t] = "bgwait"]
  /\ UNCHANGED <<call, status, writers_, force, allow_delay, group, dataVars, bgVars, ctlVars>>

\* The new memtable has room and nothing else changed: the next iteration
\* leaves the loop in the same critical section.
SwitchMemTable(t) ==
  /\ pc[t] = "room" /\ ~bg_error_ /\ ~TakeDelay /\ ~HasRoom /\ ~MustWait
  /\ \/ /\ Succeeds
        /\ logfile_number_' = logfile_number_ + 1
        /\ imm_' = mem_ /\ has_imm_' = TRUE /\ mem_' = {}
        /\ force' = FALSE
        /\ MaybeScheduleCompaction(TRUE, manual_compaction_)
        /\ StartCommit(t)
     \/ /\ Fails
        /\ PopGroup(t, 1, "error", pc)
        /\ UNCHANGED <<logfile_number_, imm_, has_imm_, mem_, force, bg>>
  /\ UNCHANGED <<call, allow_delay, last_sequence_, log, flushed, l0, inputs, is_manual,
                 manual_compaction_, manual_done, bg_error_, shutting_down_, closer>>

-----------------------------------------------------------------------------
(* The unlocked part of Write() and its end *)

AddRecord(t) ==
  /\ pc[t] = "log"
  /\ \/ /\ Succeeds
        /\ log' = Append(log, [file |-> logfile_number_, leader |-> t,
                               first |-> group.first, count |-> group.count,
                               batches |-> group.batches, synced |-> FALSE])
        /\ pc' = [pc EXCEPT ![t] = IF call[t].sync THEN "sync" ELSE "insert"]
        /\ UNCHANGED status
     \/ /\ Fails
        /\ pc' = [pc EXCEPT ![t] = "finish"]
        /\ status' = [status EXCEPT ![t] = "error"]
        /\ UNCHANGED log
  /\ UNCHANGED <<call, writers_, force, allow_delay, group, last_sequence_, logfile_number_,
                 mem_, imm_, has_imm_, flushed, bgVars, bg_error_, shutting_down_, closer>>

\* logfile_->Sync(): everything in the current log file is on disk
Sync(t) ==
  /\ pc[t] = "sync"
  /\ \/ /\ Succeeds
        /\ log' = [i \in DOMAIN log |->
                     IF log[i].file = logfile_number_ THEN [log[i] EXCEPT !.synced = TRUE]
                                                      ELSE log[i]]
        /\ pc' = [pc EXCEPT ![t] = "insert"]
        /\ UNCHANGED status
     \/ /\ Fails
        /\ pc' = [pc EXCEPT ![t] = "syncfail"]
        /\ status' = [status EXCEPT ![t] = "error"]
        /\ UNCHANGED log
  /\ UNCHANGED <<call, writers_, force, allow_delay, group, last_sequence_, logfile_number_,
                 mem_, imm_, has_imm_, flushed, bgVars, bg_error_, shutting_down_, closer>>

InsertInto(t) ==
  /\ pc[t] = "insert"
  /\ mem_' = mem_ \cup group.batches
  /\ status' = [status EXCEPT ![t] = "ok"]
  /\ pc' = [pc EXCEPT ![t] = "finish"]
  /\ UNCHANGED <<call, writers_, force, allow_delay, group, last_sequence_, log,
                 logfile_number_, imm_, has_imm_, flushed, bgVars, ctlVars>>

\* Mutant: a failed Sync() is no background error.
FinishForgetsError(t) ==
  /\ pc[t] \in {"finish", "syncfail"}
  /\ last_sequence_' = last_sequence_ + group.count
  /\ PopGroup(t, group.last, status[t], pc)
  /\ UNCHANGED <<call, force, allow_delay, log, logfile_number_, mem_, imm_, has_imm_, flushed, bgVars,
                 ctlVars>>

\* From mutex_.Lock() to the return; a sync error goes to RecordBackgroundError().
FinishWrite(t) ==
  /\ pc[t] \in {"finish", "syncfail"}
  /\ bg_error_' = (bg_error_ \/ pc[t] = "syncfail")
  /\ last_sequence_' = last_sequence_ + group.count
  /\ PopGroup(t, group.last, status[t], IF bg_error_' # bg_error_ THEN SignalAll(pc) ELSE pc)
  /\ UNCHANGED <<call, force, allow_delay, log, logfile_number_, mem_, imm_, has_imm_, flushed, bgVars,
                 shutting_down_, closer, faults>>

-----------------------------------------------------------------------------
(* The rest of DBImpl::CompactRange *)

\* The loop of TEST_CompactMemTable()
WaitForImm(t) ==
  /\ pc[t] = "imm"
  /\ pc' = [pc EXCEPT ![t] = IF has_imm_ /\ ~bg_error_ THEN "immsleep" ELSE "manual"]
  /\ UNCHANGED <<call, status, writers_, force, allow_delay, group, dataVars, bgVars, ctlVars>>

\* The loop of TEST_CompactRange(), for one level: register, wait, and cancel at
\* the end.
ManualCompaction(t) ==
  /\ pc[t] = "manual"
  /\ IF ~manual_done[t] /\ ~shutting_down_ /\ ~bg_error_
     THEN /\ manual_compaction_' = IF manual_compaction_ = Null THEN t ELSE manual_compaction_
          /\ IF manual_compaction_ = Null THEN MaybeScheduleCompaction(has_imm_, t) ELSE UNCHANGED bg
          /\ pc' = [pc EXCEPT ![t] = "manualsleep"]
     ELSE /\ manual_compaction_' = IF manual_compaction_ = t THEN Null ELSE manual_compaction_
          /\ pc' = [pc EXCEPT ![t] = "returned"]
          /\ UNCHANGED bg
  /\ UNCHANGED <<call, status, writers_, force, allow_delay, group, dataVars, l0, inputs,
                 is_manual, manual_done, ctlVars>>

-----------------------------------------------------------------------------
(* The background thread *)

\* The end of BackgroundCall(), with the state it finds there
BackgroundCallEnd(imm, manual, n, err) ==
  /\ bg' = Scheduled(imm, manual, n, err)
  /\ pc' = SignalAll(pc)
  /\ closer' = SignalCloser

\* BackgroundCall() with nothing to do, or not allowed to do it
BackgroundSkip ==
  /\ bg = "scheduled"
  /\ shutting_down_ \/ bg_error_ \/ (~has_imm_ /\ manual_compaction_ = Null /\ ~NeedsCompaction(l0))
  /\ BackgroundCallEnd(has_imm_, manual_compaction_, l0, bg_error_)
  /\ UNCHANGED <<call, status, writers_, force, allow_delay, group, dataVars, l0, inputs,
                 is_manual, manual_compaction_, manual_done, bg_error_, shutting_down_, faults>>

CanWork == bg = "scheduled" /\ ~shutting_down_ /\ ~bg_error_

\* BackgroundCompaction() enters CompactMemTable(), from the start or from
\* the loop of DoCompactionWork() when it sees has_imm_.
StartFlush ==
  /\ has_imm_
  /\ \/ CanWork /\ bg' = "build"
     \/ bg = "work" /\ ~shutting_down_ /\ bg' = "nestedbuild"
  /\ UNCHANGED <<threadVars, dataVars, l0, inputs, is_manual, manual_compaction_, manual_done, ctlVars>>

\* Mutant: a manual compaction that finds nothing to do is not marked done.
ManualNeverDone ==
  /\ CanWork /\ ~has_imm_ /\ manual_compaction_ # Null
  /\ manual_compaction_' = Null
  /\ BackgroundCallEnd(has_imm_, Null, l0, bg_error_)
  /\ UNCHANGED <<call, status, writers_, force, allow_delay, group, dataVars, l0, inputs,
                 is_manual, manual_done, bg_error_, shutting_down_, faults>>

\* A manual compaction whose range holds no level-0 file (CompactRange returns NULL)
ManualNothing ==
  /\ CanWork /\ ~has_imm_ /\ manual_compaction_ # Null
  /\ manual_done' = [manual_done EXCEPT ![manual_compaction_] = TRUE]
  /\ manual_compaction_' = Null
  /\ BackgroundCallEnd(has_imm_, Null, l0, bg_error_)
  /\ UNCHANGED <<call, status, writers_, force, allow_delay, group, dataVars, l0, inputs,
                 is_manual, bg_error_, shutting_down_, faults>>

\* Choose the inputs: some level-0 files; the other levels are left out.  A trivial move has one input and
\* goes to LogAndApply() at once.
PickCompaction ==
  /\ CanWork /\ ~has_imm_
  /\ is_manual' = (manual_compaction_ # Null)
  /\ is_manual' \/ NeedsCompaction(l0)
  /\ inputs' \in 1..l0
  /\ bg' \in {"work"} \cup {b \in {"install"} : ~is_manual' /\ inputs' = 1}
  /\ UNCHANGED <<threadVars, dataVars, l0, manual_compaction_, manual_done, ctlVars>>

\* The end of CompactMemTable(): back in the compaction's loop, which signals
\* bg_cv_ itself, or at the end of BackgroundCall()
FlushEnd(imm, n, err) ==
  IF bg \in {"nestedbuild", "nestedapply"}
  THEN bg' = "work" /\ pc' = SignalAll(pc) /\ UNCHANGED closer
  ELSE BackgroundCallEnd(imm, manual_compaction_, n, err)

FlushFailed ==
  /\ bg_error_' = TRUE
  /\ FlushEnd(TRUE, l0, TRUE)
  /\ UNCHANGED <<imm_, has_imm_, flushed, l0>>

\* WriteLevel0Table() builds the table with mutex_ released.
BuildTable ==
  /\ bg \in {"build", "nestedbuild"}
  /\ \/ /\ Succeeds /\ ~shutting_down_
        /\ bg' = IF bg = "build" THEN "apply" ELSE "nestedapply"
        /\ UNCHANGED <<pc, closer, bg_error_, imm_, has_imm_, flushed, l0>>
     \/ /\ Succeeds /\ shutting_down_
        /\ FlushFailed
     \/ /\ Fails
        /\ FlushFailed
  /\ UNCHANGED <<call, status, writers_, force, allow_delay, group, last_sequence_, log,
                 logfile_number_, mem_, inputs, is_manual, manual_compaction_, manual_done,
                 shutting_down_>>

\* LogAndApply() of the flush: the table joins level 0 or a deeper level; an
\* empty memtable makes no table.
ApplyFlush ==
  /\ bg \in {"apply", "nestedapply"}
  /\ \/ /\ Succeeds
        /\ l0' \in {l0} \cup {n \in {l0 + 1} : imm_ # {}}
        /\ flushed' = flushed \cup imm_
        /\ imm_' = {} /\ has_imm_' = FALSE
        /\ FlushEnd(FALSE, l0', bg_error_)
        /\ UNCHANGED bg_error_
     \/ /\ Fails
        /\ FlushFailed
  /\ UNCHANGED <<call, status, writers_, force, allow_delay, group, last_sequence_, log,
                 logfile_number_, mem_, inputs, is_manual, manual_compaction_, manual_done,
                 shutting_down_>>

\* The end of BackgroundCompaction() and BackgroundCall() with the compaction's
\* outcome; it dereferences manual_compaction_ for a manual compaction.
CompactionEnd(ok, n) ==
  /\ l0' = n
  /\ bg_error_' = (bg_error_ \/ ~ok)
  /\ inputs' = 0
  /\ IF is_manual /\ manual_compaction_ = Null
     THEN /\ bg' = "crashed"
          /\ UNCHANGED <<pc, closer, manual_compaction_, manual_done>>
     ELSE /\ manual_done' = IF is_manual /\ ~ok
                            THEN [manual_done EXCEPT ![manual_compaction_] = TRUE]
                            ELSE manual_done
          /\ manual_compaction_' = IF is_manual THEN Null ELSE manual_compaction_
          /\ BackgroundCallEnd(has_imm_, manual_compaction_', n, bg_error_')
  /\ UNCHANGED <<call, status, writers_, force, allow_delay, group, dataVars, is_manual,
                 shutting_down_>>

\* DoCompactionWork() with mutex_ released, up to InstallCompactionResults()
CompactionWork ==
  /\ bg = "work"
  /\ \/ /\ Succeeds /\ ~shutting_down_
        /\ bg' = "install"
        /\ UNCHANGED <<threadVars, dataVars, l0, inputs, is_manual, manual_compaction_,
                       manual_done, bg_error_, shutting_down_, closer>>
     \/ /\ Succeeds /\ shutting_down_
        /\ CompactionEnd(FALSE, l0)
     \/ /\ Fails
        /\ CompactionEnd(FALSE, l0)

\* LogAndApply() of the compaction or of the trivial move
InstallCompactionResults ==
  /\ bg = "install"
  /\ \/ Succeeds /\ CompactionEnd(TRUE, l0 - inputs)
     \/ Fails /\ CompactionEnd(FALSE, l0)

-----------------------------------------------------------------------------
(* The destructor: called when no other call is in progress *)

Close ==
  /\ closer = "open" /\ \A t \in Thread : pc[t] \in {"idle", "returned"}
  /\ shutting_down_' = TRUE
  /\ closer' = IF bg = "idle" THEN "closed" ELSE "closesleep"
  /\ UNCHANGED <<threadVars, dataVars, bgVars, bg_error_, faults>>

CloseWake ==
  /\ closer = "closing"
  /\ closer' = IF bg = "idle" THEN "closed" ELSE "closesleep"
  /\ UNCHANGED <<threadVars, dataVars, bgVars, bg_error_, shutting_down_, faults>>

Halted == closer = "closed" \/ bg = "crashed"

-----------------------------------------------------------------------------

Step(t) ==
  \/ WakeInQueue(t)
  \/ YieldError(t) \/ Delay(t) \/ DelayOver(t) \/ UseMemTable(t)
  \/ WaitForBackground(t) \/ SwitchMemTable(t)
  \/ AddRecord(t) \/ Sync(t) \/ InsertInto(t) \/ FinishWrite(t)
  \/ WaitForImm(t) \/ ManualCompaction(t)

Background ==
  \/ BackgroundSkip \/ StartFlush \/ ManualNothing \/ PickCompaction
  \/ BuildTable \/ ApplyFlush \/ CompactionWork \/ InstallCompactionResults

Next ==
  \/ \E t \in Thread : ~Halted /\ (Call(t) \/ Step(t))
  \/ ~Halted /\ (Background \/ Close \/ CloseWake)
  \/ Halted /\ UNCHANGED vars

Spec == Init /\ [][Next]_vars

\* A running thread, the background thread and a woken destructor take their
\* next step: the operating system schedules them and I/O returns.
Fairness ==
  /\ \A t \in Thread : WF_vars(Step(t))
  /\ WF_vars(Background)
  /\ WF_vars(CloseWake)

FairSpec == Spec /\ Fairness

-----------------------------------------------------------------------------
(* Properties *)

LeaderPC == {"room", "delay", "bgwait", "log", "sync", "insert", "finish", "syncfail"}
ThreadPC == LeaderPC \cup {"idle", "wait", "ready", "imm", "immsleep", "manual", "manualsleep", "returned"}
BgPC == {"idle", "scheduled", "build", "apply", "work", "nestedbuild", "nestedapply", "install", "crashed"}
CallArgs == [kind : {"none", "write", "compact"}, sync : BOOLEAN, size : Nat]
Group == [batches : SUBSET Thread, last : Nat, first : Nat, count : Nat]
Record == [file : Nat, leader : Thread, first : Nat, count : Nat, batches : SUBSET Thread, synced : BOOLEAN]

\* Every variable has the type its declaration in db_impl.h gives it.
TypeOK ==
  /\ call \in [Thread -> CallArgs] /\ pc \in [Thread -> ThreadPC]
  /\ status \in [Thread -> {"none", "ok", "error"}]
  /\ writers_ \in Seq(Thread) /\ force \in BOOLEAN /\ allow_delay \in BOOLEAN /\ group \in Group
  /\ last_sequence_ \in Nat /\ log \in Seq(Record) /\ logfile_number_ \in Nat
  /\ mem_ \in SUBSET Thread /\ imm_ \in SUBSET Thread /\ has_imm_ \in BOOLEAN /\ flushed \in SUBSET Thread
  /\ l0 \in Nat /\ bg \in BgPC /\ inputs \in Nat /\ is_manual \in BOOLEAN
  /\ manual_compaction_ \in Thread \cup {Null} /\ manual_done \in [Thread -> BOOLEAN]
  /\ bg_error_ \in BOOLEAN /\ shutting_down_ \in BOOLEAN /\ faults \in Nat
  /\ closer \in {"open", "closesleep", "closing", "closed"}

\* Only the writer at the front of writers_ is past the queue loop of Write():
\* it alone touches log_ and mem_ with mutex_ released (db_impl.cc:1186-1189).
LeaderAtFront ==
  \A t \in Thread : pc[t] \in LeaderPC => writers_ # <<>> /\ t = Head(writers_)

\* The hand-over of the queue loses no wake-up: the writer at the front never
\* sleeps on its condition variable, and none sleeps there outside the queue.
FrontAwake ==
  \A t \in Thread : pc[t] = "wait" =>
    \E i \in 2..Len(writers_) : writers_[i] = t

Visible == mem_ \cup imm_ \cup flushed
RecordsOf(t) == {i \in DOMAIN log : t \in log[i].batches}
Returned(t) == call[t].kind = "write" /\ pc[t] = "returned"

\* Write() reports success exactly for the batches readers can see, whether the
\* caller led its group or was served by another leader, and such a batch is in
\* the log once.
AckedIffApplied ==
  \A t \in Thread : Returned(t) =>
    /\ (status[t] = "ok") <=> t \in Visible
    /\ status[t] = "ok" => Cardinality(RecordsOf(t)) = 1

\* A successful Write() with sync set has its own record on disk, although the
\* leader that logged it decides whether to call Sync() by its own option.
AckedSyncIsOnDisk ==
  \A t \in Thread : Returned(t) /\ status[t] = "ok" /\ call[t].sync =>
    \A i \in RecordsOf(t) : log[i].synced

\* No batch logged behind a record whose Sync() failed is acknowledged: the
\* state of such a log is indeterminate (db_impl.cc:1205-1207).
NoAckBehindFailedSync ==
  \A i, j \in DOMAIN log :
    i < j /\ call[log[i].leader].sync /\ status[log[i].leader] = "error" =>
      \A t \in log[j].batches : status[t] # "ok"

\* Whoever waits on bg_cv_ waits for a background call that will signal it.
WaitersHaveBackground ==
  (\E t \in Thread : pc[t] \in DOMAIN Woken) \/ closer = "closesleep" => bg # "idle"

CommitPC == {"log", "sync", "insert", "finish", "syncfail"}

\* What makes the hand-over of the queue work: the queued writers are distinct;
\* all but the front sleep, not served yet; the front leads or is about to;
\* no thread outside the queue leads or sleeps, nor waits to be served; and the
\* group of a committing leader lies within the queue.
QueueInv ==
  /\ \A i, j \in 1..Len(writers_) : writers_[i] = writers_[j] => i = j
  /\ \A i \in 2..Len(writers_) : pc[writers_[i]] = "wait" /\ status[writers_[i]] = "none"
  /\ writers_ # <<>> =>
       /\ pc[writers_[1]] \in LeaderPC \cup {"ready"}
       /\ pc[writers_[1]] \notin {"finish", "syncfail"} => status[writers_[1]] = "none"
       /\ pc[writers_[1]] \in {"finish", "syncfail"} => status[writers_[1]] # "none"
  /\ \A t \in Thread : (\A i \in 1..Len(writers_) : writers_[i] # t) =>
       /\ pc[t] \notin LeaderPC \cup {"wait"}
       /\ pc[t] = "ready" => status[t] # "none"
       /\ pc[t] = "idle" => status[t] = "none"
  /\ \A t \in Thread : pc[t] \in CommitPC => group.last \in 1..Len(writers_)

\* Every Write(), every CompactRange() and the destructor returns, also after an
\* I/O error, unless the background thread has followed a NULL manual_compaction_.
CallsReturn ==
  /\ \A t \in Thread : pc[t] # "idle" ~> pc[t] = "returned" \/ bg = "crashed"
  /\ shutting_down_ ~> closer = "closed" \/ bg = "crashed"

=============================================================================
