--------------------------- MODULE WriteAckProofs ---------------------------
(***************************************************************************)
(* What the write path promises its callers, proved for any number of      *)
(* threads, batches and failures: a write is acknowledged exactly if it    *)
(* is applied, a sync write only with its record on disk, nothing is       *)
(* acknowledged behind a failed Sync(), and nobody waits for a background  *)
(* call that does not come.                                                *)
(***************************************************************************)
EXTENDS WritePathProofs

\* The background thread is scheduled whenever there is work for it and it may
\* do it, and no call is in progress once the destructor has started.
BgInv ==
  /\ ~bg_error_ /\ ~shutting_down_ /\ (has_imm_ \/ manual_compaction_ # Null \/ NeedsCompaction(l0)) =>
       bg # "idle"
  /\ \A t \in Thread : pc[t] \notin {"idle", "returned"} => ~shutting_down_
  /\ WaitersHaveBackground

\* No reader sees the batch of u and no record holds it; or record n alone does.
Fresh(u) == u \notin Visible /\ \A i \in 1..Len(log) : u \notin log[i].batches
InLog(u, n) == n \in 1..Len(log) /\ \A i \in 1..Len(log) : u \in log[i].batches <=> i = n

\* The leader t has added the record of its group, and the record is good so far
\* or its Sync() has just failed.
Logged(t) == pc[t] \in {"sync", "insert", "syncfail"} \/ (pc[t] = "finish" /\ status[t] = "ok")

\* The group of the committing leader t: the queued batches up to last_writer,
\* none of which asks for a Sync() that t does not make; before AddRecord(), or
\* after its failure, they are nowhere, after it they are in the last record.
GroupInv(t) ==
  /\ call[t].size # 0
  /\ group.batches = {u \in Thread : call[u].size # 0 /\ \E i \in 1..group.last : writers_[i] = u}
  /\ \A u \in group.batches : call[u].sync => call[t].sync
  /\ ~Logged(t) => \A u \in group.batches : Fresh(u)
  /\ Logged(t) =>
       /\ log[Len(log)].leader = t
       /\ \A u \in group.batches : InLog(u, Len(log)) /\ (u \in Visible <=> pc[t] = "finish")
       /\ pc[t] = "sync" => call[t].sync /\ log[Len(log)].file = logfile_number_
       /\ pc[t] \in {"insert", "finish"} /\ call[t].sync => log[Len(log)].synced

\* Outside of a group, a writer that has no status is nowhere; one that was told
\* "ok" is visible and in one record, on disk if it asked for that; one that was
\* told otherwise is not visible.
ServedInv ==
  /\ (\A t \in Thread : pc[t] \notin CommitPC) => group.batches = {}
  /\ ~has_imm_ => imm_ = {}
  /\ \A u \in Thread :
       /\ call[u].kind = "write" => call[u].size # 0
       /\ status[u] = "none" /\ u \notin group.batches => Fresh(u)
       /\ status[u] = "error" => u \notin Visible
       /\ status[u] = "ok" /\ call[u].size # 0 =>
            u \in Visible /\ \E n \in 1..Len(log) : InLog(u, n) /\ (call[u].sync => log[n].synced)

\* The leader of a record has its status, or is between AddRecord() and the end
\* with the last one.  A record whose Sync() failed stays the last.
FailedSyncInv ==
  \A i \in 1..Len(log) : LET t == log[i].leader IN
    /\ status[t] = "none" => i = Len(log) /\ pc[t] \in {"sync", "insert"}
    /\ call[t].sync /\ status[t] = "error" =>
         i = Len(log) /\ (pc[t] = "syncfail" \/ (bg_error_ /\ \A u \in Thread : pc[u] \notin CommitPC))

AckInv == ServedInv /\ FailedSyncInv /\ \A t \in Thread : pc[t] \in CommitPC => GroupInv(t)
-----------------------------------------------------------------------------
(* Nobody waits for a background call that does not come *)

\* Most leaves are about sets and functions only; those that need arithmetic or
\* sequences cite SMT.
USE Zenon

\* A thread sleeps on bg_cv_ in one of three places.
LEMMA Sleepers == DOMAIN Woken = {"bgwait", "immsleep", "manualsleep"}
BY DEF Woken

\* After SignalAll() no thread sleeps on bg_cv_.
LEMMA SignalAllWakes ==
  ASSUME pc \in [Thread -> ThreadPC]
  PROVE  \A t \in Thread : /\ SignalAll(pc)[t] \notin DOMAIN Woken
                           /\ SignalAll(pc)[t] \in {"idle", "returned"} => SignalAll(pc)[t] = pc[t]
                           /\ pc[t] \in {"idle", "returned"} => SignalAll(pc)[t] = pc[t]
<1>1. /\ DOMAIN Woken = {"bgwait", "immsleep", "manualsleep"}
      /\ Woken["bgwait"] = "room" /\ Woken["immsleep"] = "imm" /\ Woken["manualsleep"] = "manual"
  BY DEF Woken
<1> QED
  BY <1>1 DEF SignalAll

\* A step that leaves the background thread and its work alone, makes nobody sleep
\* on bg_cv_ and starts no call keeps BgInv.
LEMMA BgFrame ==
  ASSUME TypeOK, BgInv, UNCHANGED <<has_imm_, manual_compaction_, l0, bg, shutting_down_, closer>>,
         bg_error_ => bg_error_',
         \A t \in Thread : /\ pc'[t] \in DOMAIN Woken => pc[t] \in DOMAIN Woken
                           /\ pc'[t] \notin {"idle", "returned"} => pc[t] \notin {"idle", "returned"}
  PROVE  BgInv'
<1>1. (~bg_error_ /\ ~shutting_down_ /\ (has_imm_ \/ manual_compaction_ # Null \/ NeedsCompaction(l0)) =>
       bg # "idle")'
  BY DEF BgInv, NeedsCompaction
<1>2. \A t \in Thread : pc'[t] \notin {"idle", "returned"} => ~shutting_down_'
  BY DEF BgInv
<1>3. WaitersHaveBackground'
  BY DEF BgInv, WaitersHaveBackground
<1> QED
  BY <1>1, <1>2, <1>3 DEF BgInv

\* Handing out statuses wakes writers in the queue, and makes nobody sleep.
LEMMA PopGroupBg ==
  ASSUME TypeOK, NEW t \in Thread, pc[t] \notin {"idle", "returned"}, NEW n \in 1..Len(writers_), NEW s,
         NEW p, p = pc \/ p = SignalAll(pc), PopGroup(t, n, s, p)
  PROVE  \A u \in Thread : /\ pc'[u] \in DOMAIN Woken => pc[u] \in DOMAIN Woken
                           /\ pc'[u] \notin {"idle", "returned"} => pc[u] \notin {"idle", "returned"}
<1> DEFINE rest == SubSeq(writers_, n + 1, Len(writers_))
           popped == {writers_[i] : i \in 1..n}
           q == [u \in Thread |->
                   IF u = t THEN AfterWrite(t, s)
                   ELSE IF u \in popped /\ p[u] = "wait" THEN "ready" ELSE p[u]]
<1>1. pc' = IF rest = <<>> THEN q ELSE SignalWriter(q, Head(rest))
  BY DEF PopGroup
<1>2. \A u \in Thread : /\ p[u] \in DOMAIN Woken => pc[u] \in DOMAIN Woken
                        /\ p[u] \notin {"idle", "returned"} => pc[u] \notin {"idle", "returned"}
  BY SignalAllWakes DEF TypeOK
<1>3. {"wait", "ready", "imm", "manual", "returned"} \cap DOMAIN Woken = {}
  BY Sleepers
<1>4. AfterWrite(t, s) \in {"returned", "imm", "manual"}
  BY DEF AfterWrite
<1>5. \A u \in Thread : /\ q[u] \in DOMAIN Woken => pc[u] \in DOMAIN Woken
                        /\ q[u] \notin {"idle", "returned"} => pc[u] \notin {"idle", "returned"}
  BY <1>2, <1>3, <1>4
<1> HIDE DEF q, rest
<1>6. \A u \in Thread : pc'[u] = q[u] \/ (q[u] = "wait" /\ pc'[u] = "ready")
  <2>1. q = [u \in Thread |-> q[u]]
    BY DEF q
  <2> QED
    BY <1>1, <2>1 DEF SignalWriter
<1> QED
  BY <1>3, <1>5, <1>6

\* BackgroundCall() ends: it signals everybody, and schedules the next call if
\* there is work.
LEMMA CallEndBg ==
  ASSUME TypeOK, BgInv, shutting_down_' = shutting_down_,
         BackgroundCallEnd(has_imm_', manual_compaction_', l0', bg_error_')
  PROVE  BgInv'
<1>1. pc' = SignalAll(pc) /\ closer' = SignalCloser
  BY DEF BackgroundCallEnd
<1>2. \A t \in Thread : pc'[t] \notin DOMAIN Woken
                        /\ (pc'[t] \notin {"idle", "returned"} => pc[t] \notin {"idle", "returned"})
  BY <1>1, SignalAllWakes DEF TypeOK
<1>3. closer' # "closesleep"
  BY <1>1 DEF SignalCloser
<1>4. WaitersHaveBackground'
  BY <1>2, <1>3 DEF WaitersHaveBackground
<1>5. \A t \in Thread : pc'[t] \notin {"idle", "returned"} => ~shutting_down_'
  BY <1>2 DEF BgInv
<1>6. (~bg_error_ /\ ~shutting_down_ /\ (has_imm_ \/ manual_compaction_ # Null \/ NeedsCompaction(l0)) =>
       bg # "idle")'
  BY DEF BackgroundCallEnd, Scheduled, NeedsCompaction
<1> QED
  BY <1>4, <1>5, <1>6 DEF BgInv

\* A step within the background call, which leaves it running, keeps BgInv.
LEMMA BgRuns ==
  ASSUME TypeOK, BgInv, shutting_down_' = shutting_down_, bg' # "idle",
         pc' = pc \/ pc' = SignalAll(pc)
  PROVE  BgInv'
<1>1. \A t \in Thread : pc'[t] \notin {"idle", "returned"} => pc[t] \notin {"idle", "returned"}
  BY SignalAllWakes DEF TypeOK
<1>2. \A t \in Thread : pc'[t] \notin {"idle", "returned"} => ~shutting_down_'
  BY <1>1 DEF BgInv
<1> QED
  BY <1>2 DEF BgInv, WaitersHaveBackground

LEMMA FlushFailedBg ==
  ASSUME TypeOK, BgInv, shutting_down_' = shutting_down_, manual_compaction_' = manual_compaction_,
         FlushFailed
  PROVE  BgInv'
<1>1. CASE bg \in {"nestedbuild", "nestedapply"}
  BY <1>1, BgRuns DEF FlushFailed, FlushEnd
<1>2. CASE bg \notin {"nestedbuild", "nestedapply"}
  <2>1. /\ BackgroundCallEnd(TRUE, manual_compaction_', l0', TRUE)
        /\ bg_error_' = TRUE
    BY <1>2 DEF FlushFailed, FlushEnd
  <2>2. BackgroundCallEnd(has_imm_', manual_compaction_', l0', bg_error_')
    BY <2>1 DEF BackgroundCallEnd, Scheduled
  <2> QED
    BY <2>2, CallEndBg
<1> QED
  BY <1>1, <1>2

LEMMA CompactionEndBg ==
  ASSUME TypeOK, BgInv, NEW ok \in BOOLEAN, NEW n, CompactionEnd(ok, n)
  PROVE  BgInv'
<1>1. shutting_down_' = shutting_down_ /\ has_imm_' = has_imm_ /\ l0' = n
  BY DEF CompactionEnd, dataVars
<1>2. CASE is_manual /\ manual_compaction_ = Null
  BY <1>1, <1>2, BgRuns DEF CompactionEnd
<1>3. CASE ~(is_manual /\ manual_compaction_ = Null)
  <2>1. BackgroundCallEnd(has_imm_, manual_compaction_', n, bg_error_')
    BY <1>3 DEF CompactionEnd
  <2> QED
    BY <1>1, <2>1, CallEndBg
<1> QED
  BY <1>2, <1>3

LEMMA BackgroundBg == ASSUME TypeOK, BgInv, Background PROVE BgInv'
<1>1. CASE BackgroundSkip
  <2>1. BackgroundCallEnd(has_imm_', manual_compaction_', l0', bg_error_') /\ shutting_down_' = shutting_down_
    BY <1>1 DEF BackgroundSkip, dataVars
  <2> QED
    BY <2>1, CallEndBg
<1>2. CASE StartFlush
  BY <1>2, BgRuns DEF StartFlush, threadVars, ctlVars
<1>3. CASE ManualNothing
  <2>1. BackgroundCallEnd(has_imm_', manual_compaction_', l0', bg_error_') /\ shutting_down_' = shutting_down_
    BY <1>3 DEF ManualNothing, dataVars
  <2> QED
    BY <2>1, CallEndBg
<1>4. CASE PickCompaction
  BY <1>4, BgRuns DEF PickCompaction, threadVars, ctlVars
<1>5. CASE BuildTable
  <2>1. shutting_down_' = shutting_down_ /\ manual_compaction_' = manual_compaction_
    BY <1>5 DEF BuildTable
  <2>2. FlushFailed \/ (pc' = pc /\ bg' # "idle")
    BY <1>5 DEF BuildTable
  <2> QED
    BY <2>1, <2>2, FlushFailedBg, BgRuns
<1>6. CASE ApplyFlush
  <2>1. shutting_down_' = shutting_down_ /\ manual_compaction_' = manual_compaction_
    BY <1>6 DEF ApplyFlush
  <2>2. CASE FlushFailed
    BY <2>1, <2>2, FlushFailedBg
  <2>3. CASE FlushEnd(FALSE, l0', bg_error_) /\ has_imm_' = FALSE /\ bg_error_' = bg_error_
    <3>1. CASE bg \in {"nestedbuild", "nestedapply"}
      BY <2>1, <2>3, <3>1, BgRuns DEF FlushEnd
    <3>2. CASE bg \notin {"nestedbuild", "nestedapply"}
      <4>1. BackgroundCallEnd(FALSE, manual_compaction_', l0', bg_error_')
        BY <2>1, <2>3, <3>2 DEF FlushEnd
      <4>2. BackgroundCallEnd(has_imm_', manual_compaction_', l0', bg_error_')
        BY <2>3, <4>1 DEF BackgroundCallEnd, Scheduled
      <4> QED
        BY <2>1, <4>2, CallEndBg
    <3> QED
      BY <3>1, <3>2
  <2> QED
    BY <1>6, <2>2, <2>3 DEF ApplyFlush
<1>7. CASE CompactionWork
  <2>1. CompactionEnd(FALSE, l0) \/ (bg' = "install" /\ pc' = pc /\ shutting_down_' = shutting_down_)
    BY <1>7 DEF CompactionWork, threadVars
  <2> QED
    BY <2>1, CompactionEndBg, BgRuns
<1>8. CASE InstallCompactionResults
  <2>1. \E ok \in BOOLEAN, n \in {l0, l0 - inputs} : CompactionEnd(ok, n)
    BY <1>8 DEF InstallCompactionResults
  <2> QED
    BY <2>1, CompactionEndBg
<1> QED
  BY <1>1, <1>2, <1>3, <1>4, <1>5, <1>6, <1>7, <1>8 DEF Background

\* The destructor sleeps only while a background call is there.
LEMMA CloseBg == ASSUME TypeOK, BgInv, Close \/ CloseWake PROVE BgInv'
<1>1. /\ UNCHANGED <<pc, has_imm_, manual_compaction_, l0, bg, bg_error_>>
      /\ closer' = IF bg = "idle" THEN "closed" ELSE "closesleep"
      /\ shutting_down_' = shutting_down_ \/ \A t \in Thread : pc[t] \in {"idle", "returned"}
      /\ shutting_down_ => shutting_down_'
  BY DEF Close, CloseWake, threadVars, dataVars, bgVars, TypeOK
<1>2. WaitersHaveBackground'
  BY <1>1 DEF BgInv, WaitersHaveBackground
<1>3. \A t \in Thread : pc'[t] \notin {"idle", "returned"} => ~shutting_down_'
  BY <1>1 DEF BgInv
<1>4. (~bg_error_ /\ ~shutting_down_ /\ (has_imm_ \/ manual_compaction_ # Null \/ NeedsCompaction(l0)) =>
       bg # "idle")'
  BY <1>1 DEF BgInv, NeedsCompaction
<1> QED
  BY <1>2, <1>3, <1>4 DEF BgInv

\* A thread goes to sleep on bg_cv_ only while a background call is there.
LEMMA SleepBg ==
  ASSUME TypeOK, BgInv, NEW t \in Thread, NEW x, pc[t] \notin {"idle", "returned"},
         pc' = [pc EXCEPT ![t] = x], bg # "idle",
         UNCHANGED <<has_imm_, manual_compaction_, l0, bg, bg_error_, shutting_down_, closer>>
  PROVE  BgInv'
<1>1. \A u \in Thread : pc'[u] \notin {"idle", "returned"} => ~shutting_down_'
  BY DEF BgInv, TypeOK
<1> QED
  BY <1>1 DEF BgInv, WaitersHaveBackground

LEMMA StartCommitBg ==
  ASSUME TypeOK, QueueInv, NEW t \in Thread, pc[t] = "room", StartCommit(t)
  PROVE  \A u \in Thread : /\ pc'[u] \in DOMAIN Woken => pc[u] \in DOMAIN Woken
                           /\ pc'[u] \notin {"idle", "returned"} => pc[u] \notin {"idle", "returned"}
<1>1. 1 \in 1..Len(writers_)
  BY LeaderIsFront, SMT DEF LeaderPC
<1>2. CASE call[t].size = 0
  BY <1>1, <1>2, PopGroupBg DEF StartCommit
<1>3. CASE call[t].size # 0
  BY <1>3, Sleepers DEF StartCommit, TypeOK
<1> QED
  BY <1>2, <1>3

LEMMA MakeRoomBg ==
  ASSUME TypeOK, QueueInv, BgInv, NEW t \in Thread,
         YieldError(t) \/ Delay(t) \/ DelayOver(t) \/ UseMemTable(t)
         \/ WaitForBackground(t) \/ SwitchMemTable(t)
  PROVE  BgInv'
<1>1. pc[t] \in {"room", "delay"} /\ pc[t] \in LeaderPC
  BY DEF YieldError, Delay, DelayOver, UseMemTable, WaitForBackground, SwitchMemTable, LeaderPC
<1>2. 1 \in 1..Len(writers_)
  BY <1>1, LeaderIsFront, SMT
<1>3. ~shutting_down_
  BY <1>1 DEF BgInv
<1>4. CASE YieldError(t)
  BY <1>1, <1>2, <1>4, PopGroupBg, BgFrame DEF YieldError, dataVars, bgVars, ctlVars
<1>5. CASE Delay(t) \/ DelayOver(t)
  <2>1. \E x \in {"delay", "room"} : pc' = [pc EXCEPT ![t] = x]
    BY <1>5 DEF Delay, DelayOver
  <2>2. UNCHANGED <<has_imm_, manual_compaction_, l0, bg, shutting_down_, closer, bg_error_>>
    BY <1>5 DEF Delay, DelayOver, dataVars, bgVars, ctlVars
  <2>3. \A u \in Thread : /\ pc'[u] \in DOMAIN Woken => pc[u] \in DOMAIN Woken
                          /\ pc'[u] \notin {"idle", "returned"} => pc[u] \notin {"idle", "returned"}
    BY <1>1, <2>1, Sleepers DEF TypeOK
  <2> QED
    BY <2>2, <2>3, BgFrame
<1>6. CASE UseMemTable(t)
  BY <1>6, StartCommitBg, BgFrame DEF UseMemTable, dataVars, bgVars, ctlVars
<1>7. CASE WaitForBackground(t)
  <2>1. /\ pc' = [pc EXCEPT ![t] = "bgwait"] /\ ~bg_error_ /\ (has_imm_ \/ l0 >= kL0_StopWritesTrigger)
        /\ UNCHANGED <<has_imm_, manual_compaction_, l0, bg, bg_error_, shutting_down_, closer>>
    BY <1>7 DEF WaitForBackground, MustWait, dataVars, bgVars, ctlVars
  <2>2. l0 >= kL0_StopWritesTrigger => NeedsCompaction(l0)
    BY LimitsAssumption, SMT DEF NeedsCompaction, TypeOK
  <2>3. bg # "idle"
    BY <1>3, <2>1, <2>2 DEF BgInv
  <2> QED
    BY <1>1, <2>1, <2>3, SleepBg
<1>8. CASE SwitchMemTable(t)
  <2>1. UNCHANGED <<manual_compaction_, l0, bg_error_, shutting_down_, closer>> /\ ~bg_error_ /\ pc[t] = "room"
    BY <1>8 DEF SwitchMemTable
  <2>2. CASE PopGroup(t, 1, "error", pc) /\ UNCHANGED <<has_imm_, bg>>
    BY <1>1, <1>2, <2>1, <2>2, PopGroupBg, BgFrame
  <2>3. CASE MaybeScheduleCompaction(TRUE, manual_compaction_) /\ StartCommit(t)
    <3>1. bg' # "idle"
      BY <1>3, <2>1, <2>3 DEF MaybeScheduleCompaction, Scheduled
    <3>2. \A u \in Thread : pc'[u] \notin {"idle", "returned"} => ~shutting_down_'
      BY <1>3, <2>1
    <3> QED
      BY <3>1, <3>2 DEF BgInv, WaitersHaveBackground
  <2> QED
    BY <1>8, <2>2, <2>3 DEF SwitchMemTable
<1> QED
  BY <1>4, <1>5, <1>6, <1>7, <1>8

LEMMA ThreadBg ==
  ASSUME TypeOK, QueueInv, BgInv, NEW t \in Thread,
         \/ Call(t) \/ WakeInQueue(t) \/ AddRecord(t) \/ Sync(t) \/ InsertInto(t) \/ FinishWrite(t)
         \/ WaitForImm(t) \/ ManualCompaction(t)
  PROVE  BgInv'
<1>1. CASE WakeInQueue(t) \/ AddRecord(t) \/ Sync(t) \/ InsertInto(t)
  <2>1. UNCHANGED <<has_imm_, manual_compaction_, l0, bg, shutting_down_, closer, bg_error_>>
    BY <1>1 DEF WakeInQueue, AddRecord, Sync, InsertInto, dataVars, bgVars, ctlVars
  <2>2. \E x \in {"returned", "imm", "manual", "room", "wait", "sync", "insert", "finish", "syncfail"} :
          pc' = [pc EXCEPT ![t] = x]
    BY <1>1 DEF WakeInQueue, AfterWrite, AddRecord, Sync, InsertInto
  <2>3. pc[t] \notin {"idle", "returned"}
    BY <1>1 DEF WakeInQueue, AddRecord, Sync, InsertInto
  <2>4. \A u \in Thread : /\ pc'[u] \in DOMAIN Woken => pc[u] \in DOMAIN Woken
                          /\ pc'[u] \notin {"idle", "returned"} => pc[u] \notin {"idle", "returned"}
    BY <2>2, <2>3, Sleepers DEF TypeOK
  <2> QED
    BY <2>1, <2>4, BgFrame
<1>2. CASE Call(t)
  <2>1. UNCHANGED <<has_imm_, manual_compaction_, l0, bg, shutting_down_, closer, bg_error_>> /\ ~shutting_down_
    BY <1>2 DEF Call, dataVars, bgVars, ctlVars
  <2>2. \E x \in {"room", "wait"} : pc' = [pc EXCEPT ![t] = x]
    BY <1>2 DEF Call
  <2>3. \A u \in Thread : pc'[u] \in DOMAIN Woken => pc[u] \in DOMAIN Woken
    BY <2>2, Sleepers DEF TypeOK
  <2> QED
    BY <2>1, <2>3 DEF BgInv, WaitersHaveBackground, NeedsCompaction
<1>3. CASE FinishWrite(t)
  <2>1. UNCHANGED <<has_imm_, manual_compaction_, l0, bg, shutting_down_, closer>> /\ (bg_error_ => bg_error_')
    BY <1>3 DEF FinishWrite, bgVars, TypeOK
  <2>2. pc[t] \in CommitPC /\ pc[t] \notin {"idle", "returned"}
    BY <1>3 DEF FinishWrite, CommitPC
  <2>3. group.last \in 1..Len(writers_)
    BY <2>2 DEF QueueInv
  <2>4. \E p : (p = pc \/ p = SignalAll(pc)) /\ PopGroup(t, group.last, status[t], p)
    BY <1>3 DEF FinishWrite
  <2> QED
    BY <2>1, <2>2, <2>3, <2>4, PopGroupBg, BgFrame
<1>4. CASE WaitForImm(t)
  <2>1. pc[t] = "imm" /\ UNCHANGED <<has_imm_, manual_compaction_, l0, bg, bg_error_, shutting_down_, closer>>
    BY <1>4 DEF WaitForImm, dataVars, bgVars, ctlVars
  <2>2. CASE has_imm_ /\ ~bg_error_
    <3>1. bg # "idle"
      BY <2>1, <2>2 DEF BgInv
    <3> QED
      BY <1>4, <2>1, <2>2, <3>1, SleepBg DEF WaitForImm
  <2>3. CASE ~(has_imm_ /\ ~bg_error_)
    <3>1. pc' = [pc EXCEPT ![t] = "manual"]
      BY <1>4, <2>3 DEF WaitForImm
    <3>2. \A u \in Thread : /\ pc'[u] \in DOMAIN Woken => pc[u] \in DOMAIN Woken
                            /\ pc'[u] \notin {"idle", "returned"} => pc[u] \notin {"idle", "returned"}
      BY <2>1, <3>1, Sleepers DEF TypeOK
    <3> QED
      BY <2>1, <3>2, BgFrame
  <2> QED
    BY <2>2, <2>3
<1>5. CASE ManualCompaction(t)
  <2>1. /\ pc[t] = "manual" /\ ~shutting_down_
        /\ UNCHANGED <<has_imm_, l0, bg_error_, shutting_down_, closer>>
    BY <1>5 DEF ManualCompaction, dataVars, ctlVars, BgInv
  <2>2. CASE ~manual_done[t] /\ ~shutting_down_ /\ ~bg_error_
    <3>1. CASE manual_compaction_ = Null
      <4>1. bg' # "idle"
        BY <1>5, <2>1, <2>2, <3>1, ThreadAssumption DEF ManualCompaction, MaybeScheduleCompaction, Scheduled
      <4> QED
        BY <2>1, <4>1 DEF BgInv, WaitersHaveBackground
    <3>2. CASE manual_compaction_ # Null
      <4>1. UNCHANGED <<manual_compaction_, bg>> /\ pc' = [pc EXCEPT ![t] = "manualsleep"]
        BY <1>5, <2>2, <3>2 DEF ManualCompaction
      <4>2. bg # "idle"
        BY <2>1, <2>2, <3>2 DEF BgInv
      <4> QED
        BY <2>1, <4>1, <4>2, SleepBg
    <3> QED
      BY <3>1, <3>2
  <2>3. CASE ~(~manual_done[t] /\ ~shutting_down_ /\ ~bg_error_)
    <3>1. /\ bg' = bg /\ pc' = [pc EXCEPT ![t] = "returned"]
          /\ manual_compaction_' = manual_compaction_ \/ manual_compaction_' = Null
      BY <1>5, <2>3 DEF ManualCompaction
    <3>2. \A u \in Thread : pc'[u] \in DOMAIN Woken => pc[u] \in DOMAIN Woken
      BY <3>1, Sleepers DEF TypeOK
    <3> QED
      BY <2>1, <3>1, <3>2 DEF BgInv, WaitersHaveBackground, NeedsCompaction
  <2> QED
    BY <2>2, <2>3
<1> QED
  BY <1>1, <1>2, <1>3, <1>4, <1>5

LEMMA NextBg == IInv /\ BgInv /\ [Next]_vars => BgInv'
<1> SUFFICES ASSUME IInv, BgInv, [Next]_vars PROVE BgInv'
  OBVIOUS
<1>1. TypeOK /\ QueueInv
  BY DEF IInv
<1>2. CASE UNCHANGED vars
  BY <1>2 DEF vars, threadVars, dataVars, bgVars, ctlVars, BgInv, WaitersHaveBackground, NeedsCompaction
<1>3. ASSUME NEW t \in Thread, Call(t) \/ Step(t) PROVE BgInv'
  BY <1>1, <1>3, ThreadBg, MakeRoomBg DEF Step
<1> QED
  BY <1>1, <1>2, <1>3, BackgroundBg, CloseBg DEF Next

\* A thread that waits on bg_cv_, or the destructor, always has a background call
\* in front of it that will signal it, whatever fails and whoever finishes first:
\* MaybeScheduleCompaction() has been called wherever one is needed
\* (db_impl.cc:614-655).
THEOREM WaitersTheorem == Spec => []WaitersHaveBackground
<1>1. Init => BgInv
  BY LimitsAssumption, Sleepers, SMT DEF Init, BgInv, WaitersHaveBackground, NeedsCompaction
<1>2. BgInv => WaitersHaveBackground
  BY DEF BgInv
<1> QED
  BY <1>1, <1>2, NextBg, Invariance, PTL DEF Spec

-----------------------------------------------------------------------------
(* Acknowledgements *)

\* Every position of the log holds a record.
LEMMA RecordTypes ==
  ASSUME TypeOK
  PROVE  Len(log) \in Nat /\ \A i \in 1..Len(log) : log[i] \in Record /\ log[i].leader \in Thread
<1>1. log \in Seq(Record)
  BY DEF TypeOK
<1>2. Len(log) \in Nat /\ \A i \in 1..Len(log) : log[i] \in Record
  BY <1>1, SMT
<1> QED
  BY <1>2 DEF Record

\* A step that leaves the queue, the group, the log and what is visible alone.
LEMMA AckFrame ==
  ASSUME TypeOK, AckInv, UNCHANGED <<call, status, writers_, group, log, logfile_number_>>,
         Visible' = Visible, bg_error_ => bg_error_', ~has_imm_' => imm_' = {},
         \A t \in Thread : pc[t] \in CommitPC \/ pc'[t] \in CommitPC => pc'[t] = pc[t]
  PROVE  AckInv'
<1>1. \A u : Fresh(u)' = Fresh(u)
  BY DEF Fresh
<1>2. \A u, n : InLog(u, n)' = InLog(u, n)
  BY DEF InLog
<1>3. (\A t \in Thread : pc'[t] \notin CommitPC) <=> (\A t \in Thread : pc[t] \notin CommitPC)
  OBVIOUS
<1>4. ServedInv'
  BY <1>1, <1>2, <1>3 DEF AckInv, ServedInv
<1>5. FailedSyncInv'
  <2>1. \A t \in Thread : /\ pc[t] \in {"sync", "insert"} => pc'[t] \in {"sync", "insert"}
                          /\ pc[t] = "syncfail" => pc'[t] = "syncfail"
    BY DEF CommitPC
  <2>2. \A i \in 1..Len(log) : log[i].leader \in Thread
    BY RecordTypes
  <2> QED
    BY <1>3, <2>1, <2>2 DEF AckInv, FailedSyncInv
<1>6. ASSUME NEW t \in Thread, pc'[t] \in CommitPC PROVE GroupInv(t)'
  <2>1. pc'[t] = pc[t] /\ GroupInv(t)
    BY <1>6 DEF AckInv
  <2>2. Logged(t)' = Logged(t)
    BY <2>1 DEF Logged
  <2> QED
    BY <2>1, <2>2, <1>1, <1>2 DEF GroupInv
<1> QED
  BY <1>4, <1>5, <1>6 DEF AckInv

\* Only one thread commits.
LEMMA OneCommits ==
  ASSUME TypeOK, QueueInv, NEW t \in Thread, pc[t] \in LeaderPC
  PROVE  \A u \in Thread : u # t => pc[u] \notin LeaderPC /\ pc[u] \notin CommitPC
<1>1. CommitPC \subseteq LeaderPC
  BY DEF CommitPC, LeaderPC
<1> QED
  BY <1>1, LeaderIsFront

\* What PopGroup() does to the places of committing threads: the leader stops.
LEMMA PopGroupPC ==
  ASSUME TypeOK, NEW t \in Thread, NEW n \in 1..Len(writers_), NEW s,
         NEW p, p = pc \/ p = SignalAll(pc), PopGroup(t, n, s, p)
  PROVE  /\ \A u \in Thread : u # t /\ (pc[u] \in CommitPC \/ pc'[u] \in CommitPC) => pc'[u] = pc[u]
         /\ pc'[t] \notin CommitPC
<1> DEFINE rest == SubSeq(writers_, n + 1, Len(writers_))
           popped == {writers_[i] : i \in 1..n}
           q == [u \in Thread |->
                   IF u = t THEN AfterWrite(t, s)
                   ELSE IF u \in popped /\ p[u] = "wait" THEN "ready" ELSE p[u]]
<1>1. pc' = IF rest = <<>> THEN q ELSE SignalWriter(q, Head(rest))
  BY DEF PopGroup
<1>2. \A u \in Thread : pc[u] \in CommitPC \/ p[u] \in CommitPC => p[u] = pc[u]
  BY SignalAllType, SMT DEF TypeOK, CommitPC
<1>3. {"wait", "ready", "imm", "manual", "returned"} \cap CommitPC = {}
  BY DEF CommitPC
<1>4. AfterWrite(t, s) \in {"returned", "imm", "manual"}
  BY DEF AfterWrite
<1>5. /\ \A u \in Thread : u # t /\ (pc[u] \in CommitPC \/ q[u] \in CommitPC) => q[u] = pc[u]
      /\ q[t] \notin CommitPC
  BY <1>2, <1>3, <1>4
<1> HIDE DEF q, rest
<1>6. \A u \in Thread : pc'[u] = q[u] \/ (q[u] = "wait" /\ pc'[u] = "ready")
  <2>1. q = [u \in Thread |-> q[u]]
    BY DEF q
  <2> QED
    BY <1>1, <2>1 DEF SignalWriter
<1> QED
  BY <1>3, <1>5, <1>6

\* A leader that logs nothing, for an error or a NULL batch, leaves the queue.
LEMMA PopOneAck ==
  ASSUME TypeOK, QueueInv, AckInv, NEW t \in Thread, pc[t] = "room",
         NEW s \in {"ok", "error"}, s = "ok" => call[t].size = 0, PopGroup(t, 1, s, pc),
         UNCHANGED <<call, log>>, Visible' = Visible, bg_error_ => bg_error_', ~has_imm_' => imm_' = {}
  PROVE  AckInv'
<1>1. writers_ # <<>> /\ Len(writers_) \in Nat \ {0} /\ writers_[1] = t /\ 1 \in 1..Len(writers_)
  BY LeaderIsFront, SMT DEF LeaderPC
<1>2. \A u \in Thread : pc[u] \notin CommitPC
  BY OneCommits DEF LeaderPC, CommitPC
<1>3. \A u \in Thread : pc'[u] \notin CommitPC
  BY <1>1, <1>2, PopGroupPC
<1>4. group.batches = {} /\ group'.batches = {}
  BY <1>2 DEF AckInv, ServedInv, PopGroup, NoGroup
<1>5. status[t] = "none"
  BY <1>1 DEF QueueInv
<1>6. \A u \in Thread : status'[u] = IF u = t THEN s ELSE status[u]
  <2>1. {writers_[i] : i \in 1..1} = {t}
    BY <1>1, SMT
  <2> QED
    BY <2>1 DEF PopGroup
<1>7. Fresh(t)
  BY <1>4, <1>5 DEF AckInv, ServedInv
<1>8. \A u : Fresh(u)' = Fresh(u)
  BY DEF Fresh
<1>9. \A u, n : InLog(u, n)' = InLog(u, n)
  BY DEF InLog
<1>10. ServedInv'
  <2>1. ASSUME NEW u \in Thread
        PROVE  (/\ call[u].kind = "write" => call[u].size # 0
                /\ status[u] = "none" /\ u \notin group.batches => Fresh(u)
                /\ status[u] = "error" => u \notin Visible
                /\ status[u] = "ok" /\ call[u].size # 0 =>
                     u \in Visible /\ \E n \in 1..Len(log) : InLog(u, n) /\ (call[u].sync => log[n].synced))'
    <3>1. CASE u = t
      BY <1>6, <1>7, <3>1 DEF AckInv, ServedInv, Fresh
    <3>2. CASE u # t
      BY <1>4, <1>6, <1>8, <1>9, <3>2 DEF AckInv, ServedInv
    <3> QED
      BY <3>1, <3>2
  <2> QED
    BY <1>3, <1>4, <2>1 DEF ServedInv
<1>11. FailedSyncInv'
  <2>1. \A i \in 1..Len(log) : log[i].leader \in Thread
    BY RecordTypes
  <2>2. \A i \in 1..Len(log) : log[i].leader # t
    BY <1>5 DEF AckInv, FailedSyncInv
  <2>3. \A i \in 1..Len(log) : pc[log[i].leader] \notin {"sync", "insert", "syncfail"}
    BY <1>2, <2>1 DEF CommitPC
  <2> QED
    BY <1>2, <1>3, <1>6, <2>1, <2>2, <2>3, SMT DEF AckInv, FailedSyncInv
<1> QED
  BY <1>3, <1>10, <1>11 DEF AckInv

\* Everybody up to last_writer can join.  The positions up to which everybody can
\* join have no gap, so if their number were not one of them they would be fewer.
LEMMA UpToLastWriter ==
  ASSUME writers_ \in Seq(Thread), writers_ # <<>>
  PROVE  \A i \in 2..LastWriter : CanJoin(i)
<1> DEFINE D == {n \in 1..Len(writers_) : \A i \in 2..n : CanJoin(i)}
<1>1. LastWriter \in 1..Len(writers_) /\ LastWriter = Cardinality(D)
  BY LastWriterInQueue DEF LastWriter
<1>2. PICK m \in Nat \ {0} : m = LastWriter
  <2>1. Len(writers_) \in Nat /\ LastWriter \in 1..Len(writers_)
    BY <1>1, SMT
  <2>2. LastWriter \in Nat \ {0}
    BY <2>1, SMT
  <2> QED
    BY <2>2
<1>3. ASSUME m \notin D PROVE FALSE
  <2>1. \A n \in D : n < m
    <3> SUFFICES ASSUME NEW n \in D, ~(n < m) PROVE m \in D
      BY <1>3
    <3>1. \A i \in 2..m : i \in 2..n
      BY <1>2, SMT
    <3> QED
      BY <1>1, <1>2, <3>1
  <2>2. D \subseteq 1 .. m - 1
    BY <2>1, <1>2, SMT
  <2>3. IsFiniteSet(1 .. m - 1) /\ Cardinality(1 .. m - 1) = m - 1
    BY <1>2, FS_Interval, SMT
  <2>4. Cardinality(D) <= m - 1
    BY <2>2, <2>3, FS_Subset
  <2> QED
    BY <1>1, <1>2, <2>4, SMT
<1> QED
  BY <1>2, <1>3

\* A group asks for no Sync() that its leader does not make.
LEMMA GroupSync ==
  ASSUME TypeOK, QueueInv, NEW t \in Thread, pc[t] = "room", NEW u \in BuildBatchGroup.batches
  PROVE  call[u].sync => call[t].sync
<1>1. writers_ # <<>> /\ Len(writers_) \in Nat \ {0} /\ writers_[1] = t
  BY LeaderIsFront DEF LeaderPC
<1>2. writers_ \in Seq(Thread) /\ Head(writers_) = t
  BY <1>1, SMT DEF TypeOK
<1>3. LastWriter \in 1..Len(writers_)
  BY <1>1, <1>2, LastWriterInQueue
<1>4. PICK i \in 1..LastWriter : writers_[i] = u
  BY DEF BuildBatchGroup, GroupOf
<1>5. CASE i = 1
  BY <1>1, <1>4, <1>5
<1>6. CASE i # 1
  <2>1. i \in 2..LastWriter
    BY <1>3, <1>6, SMT
  <2>2. CanJoin(i)
    BY <1>1, <1>2, <2>1, UpToLastWriter
  <2> QED
    BY <1>2, <1>4, <2>2 DEF CanJoin
<1> QED
  BY <1>5, <1>6

\* BuildBatchGroup(): none of the batches is anywhere yet.
LEMMA BuildGroupAck ==
  ASSUME TypeOK, QueueInv, AckInv, NEW t \in Thread, pc[t] = "room", call[t].size # 0, ~bg_error_,
         group' = BuildBatchGroup, pc' = [pc EXCEPT ![t] = "log"], UNCHANGED <<writers_, status, call, log>>,
         Visible' = Visible, ~has_imm_' => imm_' = {}
  PROVE  AckInv'
<1>1. writers_ # <<>> /\ Len(writers_) \in Nat \ {0} /\ writers_[1] = t
  BY LeaderIsFront DEF LeaderPC
<1>2. LastWriter \in 1..Len(writers_)
  BY <1>1, LastWriterInQueue DEF TypeOK
<1>3. \A u \in Thread : pc[u] \notin CommitPC
  BY OneCommits DEF LeaderPC, CommitPC
<1>4. group.batches = {}
  BY <1>3 DEF AckInv, ServedInv
<1>5. /\ group'.last = LastWriter
      /\ group'.batches = {u \in Thread : call[u].size # 0 /\ \E i \in 1..LastWriter : writers_[i] = u}
  BY DEF BuildBatchGroup, GroupOf
<1>6. pc'[t] = "log" /\ \A u \in Thread : u # t => pc'[u] = pc[u]
  BY DEF TypeOK
<1>7. \A u : Fresh(u)' = Fresh(u)
  BY DEF Fresh
<1>8. \A u, n : InLog(u, n)' = InLog(u, n)
  BY DEF InLog
<1>9. \A u \in group'.batches : status[u] = "none"
  <2>1. \A i \in 1..Len(writers_) : status[writers_[i]] = "none"
    BY <1>1, SMT DEF QueueInv
  <2> QED
    BY <1>1, <1>2, <1>5, <2>1, SMT
<1>10. \A u \in group'.batches : Fresh(u)
  BY <1>4, <1>5, <1>9 DEF AckInv, ServedInv
<1>11. GroupInv(t)'
  <2>1. \A u \in group'.batches : call[u].sync => call[t].sync
    BY GroupSync
  <2>2. ~Logged(t)'
    BY <1>6 DEF Logged
  <2> QED
    BY <1>5, <1>7, <1>10, <2>1, <2>2 DEF GroupInv
<1>12. \A u \in Thread : pc'[u] \in CommitPC => u = t
  BY <1>3, <1>6
<1>13. ServedInv'
  <2>1. pc'[t] \in CommitPC
    BY <1>6 DEF CommitPC
  <2>2. \A u \in Thread : status[u] = "none" => Fresh(u)
    BY <1>4 DEF AckInv, ServedInv
  <2> QED
    BY <1>7, <1>8, <2>1, <2>2 DEF AckInv, ServedInv
<1>14. FailedSyncInv'
  <2>1. \A i \in 1..Len(log) : log[i].leader \in Thread
    BY RecordTypes
  <2>2. \A i \in 1..Len(log) : pc[log[i].leader] \notin {"sync", "insert", "syncfail"}
    BY <1>3, <2>1 DEF CommitPC
  <2>3. \A i \in 1..Len(log) : status[log[i].leader] # "none"
                               /\ ~(call[log[i].leader].sync /\ status[log[i].leader] = "error")
    BY <2>2 DEF AckInv, FailedSyncInv
  <2> QED
    BY <2>3 DEF FailedSyncInv
<1> QED
  BY <1>11, <1>12, <1>13, <1>14 DEF AckInv

\* The critical section after MakeRoomForWrite()
LEMMA StartCommitAck ==
  ASSUME TypeOK, QueueInv, AckInv, NEW t \in Thread, pc[t] = "room", StartCommit(t), ~bg_error_,
         UNCHANGED <<call, log>>, Visible' = Visible, ~has_imm_' => imm_' = {}
  PROVE  AckInv'
<1>1. CASE call[t].size = 0
  BY <1>1, PopOneAck DEF StartCommit
<1>2. CASE call[t].size # 0
  BY <1>2, BuildGroupAck DEF StartCommit
<1> QED
  BY <1>1, <1>2

LEMMA MakeRoomAck ==
  ASSUME TypeOK, QueueInv, AckInv, NEW t \in Thread,
         YieldError(t) \/ Delay(t) \/ DelayOver(t) \/ UseMemTable(t)
         \/ WaitForBackground(t) \/ SwitchMemTable(t)
  PROVE  AckInv'
<1>1. ~has_imm_ => imm_ = {}
  BY DEF AckInv, ServedInv
<1>2. CASE YieldError(t)
  <2>1. /\ pc[t] = "room" /\ PopGroup(t, 1, "error", pc)
        /\ UNCHANGED <<call, log, bg_error_, mem_, imm_, has_imm_, flushed>>
    BY <1>2 DEF YieldError, dataVars, ctlVars
  <2>2. Visible' = Visible
    BY <2>1 DEF Visible
  <2> QED
    BY <1>1, <2>1, <2>2, PopOneAck
<1>3. CASE Delay(t) \/ DelayOver(t) \/ WaitForBackground(t)
  <2>1. UNCHANGED <<call, status, writers_, group, log, logfile_number_, bg_error_, mem_, imm_, has_imm_, flushed>>
    BY <1>3 DEF Delay, DelayOver, WaitForBackground, dataVars, ctlVars
  <2>2. \E x \in {"delay", "room", "bgwait"} : pc' = [pc EXCEPT ![t] = x]
    BY <1>3 DEF Delay, DelayOver, WaitForBackground
  <2>3. pc[t] \in {"room", "delay"}
    BY <1>3 DEF Delay, DelayOver, WaitForBackground
  <2>4. \A u \in Thread : pc[u] \in CommitPC \/ pc'[u] \in CommitPC => pc'[u] = pc[u]
    BY <2>2, <2>3 DEF TypeOK, CommitPC
  <2>5. Visible' = Visible
    BY <2>1 DEF Visible
  <2> QED
    BY <1>1, <2>1, <2>4, <2>5, AckFrame
<1>4. CASE UseMemTable(t)
  <2>1. /\ pc[t] = "room" /\ StartCommit(t) /\ ~bg_error_
        /\ UNCHANGED <<call, log, mem_, imm_, has_imm_, flushed>>
    BY <1>4 DEF UseMemTable, dataVars
  <2>2. Visible' = Visible
    BY <2>1 DEF Visible
  <2> QED
    BY <1>1, <2>1, <2>2, StartCommitAck
<1>5. CASE SwitchMemTable(t)
  <2>1. pc[t] = "room" /\ ~bg_error_ /\ ~has_imm_ /\ UNCHANGED <<call, log, flushed, bg_error_>>
    BY <1>5 DEF SwitchMemTable, MustWait
  <2>2. CASE PopGroup(t, 1, "error", pc) /\ UNCHANGED <<imm_, has_imm_, mem_>>
    <3>1. Visible' = Visible
      BY <2>1, <2>2 DEF Visible
    <3> QED
      BY <1>1, <2>1, <2>2, <3>1, PopOneAck
  <2>3. CASE StartCommit(t) /\ imm_' = mem_ /\ has_imm_' = TRUE /\ mem_' = {}
    <3>1. Visible' = Visible
      BY <1>1, <2>1, <2>3 DEF Visible
    <3> QED
      BY <2>1, <2>3, <3>1, StartCommitAck
  <2> QED
    BY <1>5, <2>2, <2>3 DEF SwitchMemTable
<1> QED
  BY <1>2, <1>3, <1>4, <1>5

\* The batches of a group belong to queued writers; until the end only the leader
\* can have a status.
LEMMA GroupStatus ==
  ASSUME TypeOK, QueueInv, AckInv, NEW t \in Thread, pc[t] \in CommitPC
  PROVE  /\ group.batches \subseteq Thread /\ t \in group.batches /\ GroupInv(t)
         /\ \A u \in group.batches : u # t => status[u] = "none"
         /\ \A u \in group.batches : call[u].size # 0
         /\ pc[t] \in {"log", "sync", "insert"} => status[t] = "none"
<1>1. pc[t] \in LeaderPC
  BY DEF CommitPC, LeaderPC
<1>2. writers_ # <<>> /\ Len(writers_) \in Nat \ {0} /\ writers_[1] = t
  BY <1>1, LeaderIsFront
<1>3. GroupInv(t) /\ group.last \in 1..Len(writers_)
  BY DEF AckInv, QueueInv
<1>4. group.batches = {u \in Thread : call[u].size # 0 /\ \E i \in 1..group.last : writers_[i] = u}
      /\ call[t].size # 0
  BY <1>3 DEF GroupInv
<1>5. t \in group.batches
  BY <1>2, <1>3, <1>4, SMT
<1>6. \A u \in group.batches : u # t => status[u] = "none"
  <2>1. \A i \in 2..Len(writers_) : status[writers_[i]] = "none"
    BY DEF QueueInv
  <2> QED
    BY <1>2, <1>3, <1>4, <2>1, SMT
<1>7. pc[t] \in {"log", "sync", "insert"} => status[t] = "none"
  BY <1>2 DEF QueueInv
<1> QED
  BY <1>3, <1>4, <1>5, <1>6, <1>7

\* While a leader commits there is no record whose Sync() failed, but the last one
\* if it is the leader's own.
LEMMA NoFailedSync ==
  ASSUME TypeOK, QueueInv, AckInv, NEW t \in Thread, pc[t] \in CommitPC
  PROVE  \A i \in 1..Len(log) :
           /\ status[log[i].leader] = "none" =>
                log[i].leader = t /\ i = Len(log) /\ pc[t] \in {"sync", "insert"}
           /\ call[log[i].leader].sync /\ status[log[i].leader] = "error" =>
                log[i].leader = t /\ i = Len(log) /\ pc[t] = "syncfail"
<1>1. pc[t] \in LeaderPC
  BY DEF CommitPC, LeaderPC
<1>2. \A i \in 1..Len(log) : log[i].leader \in Thread
  BY RecordTypes
<1>3. \A u \in Thread : pc[u] \in {"sync", "insert", "syncfail"} => u = t
  BY <1>1, OneCommits DEF CommitPC
<1> QED
  BY <1>2, <1>3 DEF AckInv, FailedSyncInv

\* AddRecord() succeeds: the batches of the group are in the last record.
LEMMA AddRecordAck ==
  ASSUME TypeOK, QueueInv, AckInv, NEW t \in Thread, pc[t] = "log",
         log' = Append(log, [file |-> logfile_number_, leader |-> t,
                             first |-> group.first, count |-> group.count,
                             batches |-> group.batches, synced |-> FALSE]),
         pc' = [pc EXCEPT ![t] = IF call[t].sync THEN "sync" ELSE "insert"],
         UNCHANGED <<call, status, writers_, group, logfile_number_, imm_, has_imm_>>,
         Visible' = Visible
  PROVE  AckInv'
<1>1. PICK n \in Nat : n = Len(log)
  BY RecordTypes
<1>2. /\ Len(log') = n + 1 /\ log'[n + 1].leader = t /\ log'[n + 1].batches = group.batches
      /\ log'[n + 1].file = logfile_number_
      /\ \A i \in 1..n : log'[i] = log[i]
  <2>1. log \in Seq(Record)
    BY DEF TypeOK
  <2> QED
    BY <1>1, <2>1, SMT
<1>3. pc[t] \in CommitPC /\ pc[t] \in LeaderPC /\ pc'[t] \in {"sync", "insert"} /\ pc'[t] \in CommitPC
      /\ (pc'[t] = "sync" <=> call[t].sync) /\ \A u \in Thread : u # t => pc'[u] = pc[u]
  BY DEF TypeOK, CommitPC, LeaderPC
<1>4. /\ group.batches \subseteq Thread /\ t \in group.batches /\ GroupInv(t)
      /\ \A u \in group.batches : status[u] = "none"
  BY <1>3, GroupStatus
<1>5. \A u \in group.batches : Fresh(u)
  BY <1>4 DEF GroupInv, Logged
<1>6. \A u \in group.batches : InLog(u, n + 1)' /\ u \notin Visible'
  BY <1>1, <1>2, <1>5, SMT DEF Fresh, InLog
<1>7. \A u : u \notin group.batches /\ Fresh(u) => Fresh(u)'
  BY <1>1, <1>2, SMT DEF Fresh
<1>8. \A u, m : u \notin group.batches /\ InLog(u, m) => InLog(u, m)'
  BY <1>1, <1>2, SMT DEF InLog
<1>9. ServedInv'
  <2>1. ASSUME NEW u \in Thread
        PROVE  (/\ call[u].kind = "write" => call[u].size # 0
                /\ status[u] = "none" /\ u \notin group.batches => Fresh(u)
                /\ status[u] = "error" => u \notin Visible)'
    BY <1>7 DEF AckInv, ServedInv
  <2>2. ASSUME NEW u \in Thread, status[u] = "ok", call[u].size # 0
        PROVE  (u \in Visible /\ \E m \in 1..Len(log) : InLog(u, m) /\ (call[u].sync => log[m].synced))'
    <3>1. u \in Visible /\ u \notin group.batches
      BY <1>4, <2>2 DEF AckInv, ServedInv
    <3>2. PICK m \in 1..Len(log) : InLog(u, m) /\ (call[u].sync => log[m].synced)
      BY <2>2 DEF AckInv, ServedInv
    <3>3. m \in 1..Len(log') /\ log'[m] = log[m]
      BY <1>1, <1>2, <3>2, SMT
    <3> QED
      BY <1>8, <3>1, <3>2, <3>3
  <2> QED
    BY <1>3, <2>1, <2>2 DEF AckInv, ServedInv
<1>10. FailedSyncInv'
  <2>1. \A i \in 1..n : /\ status[log[i].leader] # "none"
                        /\ ~(call[log[i].leader].sync /\ status[log[i].leader] = "error")
    BY <1>1, <1>3, NoFailedSync, SMT
  <2>2. \A i \in 1..Len(log') : i \in 1..n \/ i = n + 1
    BY <1>1, <1>2, SMT
  <2> QED
    BY <1>2, <1>3, <1>4, <2>1, <2>2, SMT DEF FailedSyncInv
<1>11. GroupInv(t)'
  BY <1>2, <1>3, <1>4, <1>6, SMT DEF GroupInv, Logged
<1>12. \A u \in Thread : pc'[u] \in CommitPC => u = t
  BY <1>3, OneCommits
<1> QED
  BY <1>9, <1>10, <1>11, <1>12 DEF AckInv

\* AddRecord() fails: the batches of the group are nowhere.
LEMMA AddRecordFailsAck ==
  ASSUME TypeOK, QueueInv, AckInv, NEW t \in Thread, pc[t] = "log",
         pc' = [pc EXCEPT ![t] = "finish"], status' = [status EXCEPT ![t] = "error"],
         UNCHANGED <<log, call, writers_, group, logfile_number_, imm_, has_imm_>>,
         Visible' = Visible
  PROVE  AckInv'
<1>1. pc[t] \in CommitPC /\ pc[t] \in LeaderPC /\ pc'[t] = "finish" /\ pc'[t] \in CommitPC
      /\ \A u \in Thread : u # t => pc'[u] = pc[u]
  BY DEF TypeOK, CommitPC, LeaderPC
<1>2. status'[t] = "error" /\ \A u \in Thread : u # t => status'[u] = status[u]
  BY DEF TypeOK
<1>3. group.batches \subseteq Thread /\ t \in group.batches /\ GroupInv(t) /\ status[t] = "none"
  BY <1>1, GroupStatus
<1>4. \A u \in group.batches : Fresh(u)
  BY <1>3 DEF GroupInv, Logged
<1>5. (\A u : Fresh(u)' = Fresh(u)) /\ \A u, n : InLog(u, n)' = InLog(u, n)
  BY DEF Fresh, InLog
<1>6. ServedInv'
  <2>1. t \notin Visible'
    BY <1>3, <1>4 DEF Fresh
  <2> QED
    BY <1>1, <1>2, <1>3, <1>5, <2>1 DEF AckInv, ServedInv
<1>7. FailedSyncInv'
  <2>1. \A i \in 1..Len(log) : /\ status[log[i].leader] # "none"
                               /\ ~(call[log[i].leader].sync /\ status[log[i].leader] = "error")
    BY <1>1, NoFailedSync
  <2>2. \A i \in 1..Len(log) : log[i].leader \in Thread /\ log[i].leader # t
    BY <1>3, <2>1, RecordTypes
  <2> QED
    BY <1>2, <2>1, <2>2, SMT DEF FailedSyncInv
<1>8. GroupInv(t)'
  BY <1>1, <1>2, <1>3, <1>4, <1>5, SMT DEF GroupInv, Logged
<1>9. \A u \in Thread : pc'[u] \in CommitPC => u = t
  BY <1>1, OneCommits
<1> QED
  BY <1>6, <1>7, <1>8, <1>9 DEF AckInv

\* Sync() succeeds: what is in the current log file, the last record among it, is
\* on disk.
LEMMA SyncAck ==
  ASSUME TypeOK, QueueInv, AckInv, NEW t \in Thread, pc[t] = "sync",
         log' = [i \in DOMAIN log |->
                   IF log[i].file = logfile_number_ THEN [log[i] EXCEPT !.synced = TRUE] ELSE log[i]],
         pc' = [pc EXCEPT ![t] = "insert"],
         UNCHANGED <<call, status, writers_, group, logfile_number_, imm_, has_imm_>>,
         Visible' = Visible
  PROVE  AckInv'
<1>1. PICK n \in Nat : n = Len(log)
  BY RecordTypes
<1>2. log \in Seq(Record) /\ DOMAIN log = 1..n
  BY <1>1, SMT DEF TypeOK
<1>3. /\ Len(log') = n
      /\ \A i \in 1..n : /\ log'[i].leader = log[i].leader /\ log'[i].batches = log[i].batches
                         /\ log[i].synced => log'[i].synced
                         /\ log[i].file = logfile_number_ => log'[i].synced
  <2>1. Len(log') = n
    BY <1>1, <1>2, SMT
  <2>2. ASSUME NEW i \in 1..n
        PROVE  /\ log'[i].leader = log[i].leader /\ log'[i].batches = log[i].batches
               /\ log[i].synced => log'[i].synced
               /\ log[i].file = logfile_number_ => log'[i].synced
    <3>1. log[i] \in Record
      BY <1>2, SMT
    <3>2. log'[i] = IF log[i].file = logfile_number_ THEN [log[i] EXCEPT !.synced = TRUE] ELSE log[i]
      BY <1>2
    <3> QED
      BY <3>1, <3>2, SMT DEF Record
  <2> QED
    BY <2>1, <2>2
<1>4. pc[t] \in CommitPC /\ pc[t] \in LeaderPC /\ pc'[t] = "insert" /\ pc'[t] \in CommitPC
      /\ \A u \in Thread : u # t => pc'[u] = pc[u]
  BY DEF TypeOK, CommitPC, LeaderPC
<1>5. group.batches \subseteq Thread /\ t \in group.batches /\ GroupInv(t) /\ status[t] = "none"
  BY <1>4, GroupStatus
<1>6. \A u : Fresh(u)' = Fresh(u)
  BY <1>1, <1>3 DEF Fresh
<1>7. \A u, m : InLog(u, m)' = InLog(u, m)
  BY <1>1, <1>3 DEF InLog
<1>8. ServedInv'
  <2>1. ASSUME NEW u \in Thread, status[u] = "ok", call[u].size # 0
        PROVE  (u \in Visible /\ \E m \in 1..Len(log) : InLog(u, m) /\ (call[u].sync => log[m].synced))'
    <3>1. PICK m \in 1..Len(log) : InLog(u, m) /\ (call[u].sync => log[m].synced)
      BY <2>1 DEF AckInv, ServedInv
    <3>2. call[u].sync => log'[m].synced
      BY <1>1, <1>3, <3>1
    <3> QED
      BY <1>1, <1>3, <1>7, <2>1, <3>1, <3>2 DEF AckInv, ServedInv
  <2> QED
    BY <1>4, <1>6, <2>1 DEF AckInv, ServedInv
<1>9. FailedSyncInv'
  <2>1. \A i \in 1..n : /\ status[log[i].leader] = "none" => log[i].leader = t /\ i = n
                        /\ ~(call[log[i].leader].sync /\ status[log[i].leader] = "error")
    BY <1>1, <1>4, NoFailedSync, SMT
  <2> QED
    BY <1>3, <1>4, <2>1, SMT DEF FailedSyncInv
<1>10. GroupInv(t)'
  <2>1. /\ log[n].leader = t /\ log[n].file = logfile_number_ /\ InLog(t, n)
        /\ \A u \in group.batches : InLog(u, n) /\ u \notin Visible
    BY <1>1, <1>5 DEF GroupInv, Logged
  <2>2. n \in 1..n
    BY <1>1, <2>1 DEF InLog
  <2>3. log'[n].leader = t /\ log'[n].synced
    BY <1>3, <2>1, <2>2
  <2> QED
    BY <1>3, <1>4, <1>5, <1>7, <2>1, <2>3, SMT DEF GroupInv, Logged
<1>11. \A u \in Thread : pc'[u] \in CommitPC => u = t
  BY <1>4, OneCommits
<1> QED
  BY <1>8, <1>9, <1>10, <1>11 DEF AckInv

\* Sync() fails: the group's record is the last and will stay it.
LEMMA SyncFailsAck ==
  ASSUME TypeOK, QueueInv, AckInv, NEW t \in Thread, pc[t] = "sync",
         pc' = [pc EXCEPT ![t] = "syncfail"], status' = [status EXCEPT ![t] = "error"],
         UNCHANGED <<log, call, writers_, group, logfile_number_, imm_, has_imm_>>,
         Visible' = Visible
  PROVE  AckInv'
<1>1. pc[t] \in CommitPC /\ pc[t] \in LeaderPC /\ pc'[t] = "syncfail" /\ pc'[t] \in CommitPC
      /\ \A u \in Thread : u # t => pc'[u] = pc[u]
  BY DEF TypeOK, CommitPC, LeaderPC
<1>2. status'[t] = "error" /\ \A u \in Thread : u # t => status'[u] = status[u]
  BY DEF TypeOK
<1>3. group.batches \subseteq Thread /\ t \in group.batches /\ GroupInv(t) /\ status[t] = "none"
  BY <1>1, GroupStatus
<1>4. /\ log[Len(log)].leader = t
      /\ \A u \in group.batches : InLog(u, Len(log)) /\ u \notin Visible
  BY <1>3 DEF GroupInv, Logged
<1>5. (\A u : Fresh(u)' = Fresh(u)) /\ \A u, n : InLog(u, n)' = InLog(u, n)
  BY DEF Fresh, InLog
<1>6. ServedInv'
  BY <1>1, <1>2, <1>3, <1>4, <1>5 DEF AckInv, ServedInv
<1>7. FailedSyncInv'
  <2>1. \A i \in 1..Len(log) : /\ status[log[i].leader] = "none" => log[i].leader = t /\ i = Len(log)
                               /\ ~(call[log[i].leader].sync /\ status[log[i].leader] = "error")
    BY <1>1, NoFailedSync
  <2>2. \A i \in 1..Len(log) : log[i].leader \in Thread
    BY RecordTypes
  <2> QED
    BY <1>1, <1>2, <1>3, <2>1, <2>2, SMT DEF FailedSyncInv
<1>8. GroupInv(t)'
  BY <1>1, <1>2, <1>3, <1>4, <1>5, SMT DEF GroupInv, Logged
<1>9. \A u \in Thread : pc'[u] \in CommitPC => u = t
  BY <1>1, OneCommits
<1> QED
  BY <1>6, <1>7, <1>8, <1>9 DEF AckInv

\* InsertInto(): the batches of the group become visible.
LEMMA InsertAck ==
  ASSUME TypeOK, QueueInv, AckInv, NEW t \in Thread, pc[t] = "insert",
         pc' = [pc EXCEPT ![t] = "finish"], status' = [status EXCEPT ![t] = "ok"],
         UNCHANGED <<log, call, writers_, group, logfile_number_, imm_, has_imm_>>,
         Visible' = Visible \cup group.batches
  PROVE  AckInv'
<1>1. pc[t] \in CommitPC /\ pc[t] \in LeaderPC /\ pc'[t] = "finish" /\ pc'[t] \in CommitPC
      /\ \A u \in Thread : u # t => pc'[u] = pc[u]
  BY DEF TypeOK, CommitPC, LeaderPC
<1>2. status'[t] = "ok" /\ \A u \in Thread : u # t => status'[u] = status[u]
  BY DEF TypeOK
<1>3. /\ group.batches \subseteq Thread /\ t \in group.batches /\ GroupInv(t)
      /\ \A u \in group.batches : status[u] = "none"
  BY <1>1, GroupStatus
<1>4. /\ log[Len(log)].leader = t /\ (call[t].sync => log[Len(log)].synced)
      /\ \A u \in group.batches : InLog(u, Len(log))
  BY <1>3 DEF GroupInv, Logged
<1>5. /\ \A u : u \notin group.batches => Fresh(u)' = Fresh(u)
      /\ \A u, n : InLog(u, n)' = InLog(u, n)
  BY DEF Fresh, InLog
<1>6. ServedInv'
  <2>1. ASSUME NEW u \in Thread
        PROVE  (/\ call[u].kind = "write" => call[u].size # 0
                /\ status[u] = "none" /\ u \notin group.batches => Fresh(u)
                /\ status[u] = "error" => u \notin Visible
                /\ status[u] = "ok" /\ call[u].size # 0 =>
                     u \in Visible /\ \E n \in 1..Len(log) : InLog(u, n) /\ (call[u].sync => log[n].synced))'
    <3>1. CASE u = t
      <4>1. Len(log) \in 1..Len(log) /\ InLog(t, Len(log))
        BY <1>3, <1>4 DEF InLog
      <4> QED
        BY <1>2, <1>3, <1>4, <1>5, <3>1, <4>1 DEF AckInv, ServedInv
    <3>2. CASE u # t /\ u \in group.batches
      BY <1>2, <1>3, <3>2 DEF AckInv, ServedInv
    <3>3. CASE u # t /\ u \notin group.batches
      BY <1>2, <1>5, <3>3 DEF AckInv, ServedInv
    <3> QED
      BY <3>1, <3>2, <3>3
  <2> QED
    BY <1>1, <2>1 DEF AckInv, ServedInv
<1>7. FailedSyncInv'
  <2>1. \A i \in 1..Len(log) : /\ status[log[i].leader] = "none" => log[i].leader = t /\ i = Len(log)
                               /\ ~(call[log[i].leader].sync /\ status[log[i].leader] = "error")
    BY <1>1, NoFailedSync
  <2>2. \A i \in 1..Len(log) : log[i].leader \in Thread
    BY RecordTypes
  <2> QED
    BY <1>2, <2>1, <2>2, SMT DEF FailedSyncInv
<1>8. GroupInv(t)'
  BY <1>1, <1>2, <1>3, <1>4, <1>5, SMT DEF GroupInv, Logged
<1>9. \A u \in Thread : pc'[u] \in CommitPC => u = t
  BY <1>1, OneCommits
<1> QED
  BY <1>6, <1>7, <1>8, <1>9 DEF AckInv

\* The end of Write(): everybody in the group gets the leader's status.
LEMMA FinishAck ==
  ASSUME TypeOK, QueueInv, AckInv, NEW t \in Thread, pc[t] \in {"finish", "syncfail"},
         NEW p, p = pc \/ p = SignalAll(pc), PopGroup(t, group.last, status[t], p),
         pc[t] = "syncfail" => bg_error_',
         UNCHANGED <<log, call, imm_, has_imm_>>, Visible' = Visible
  PROVE  AckInv'
<1>1. pc[t] \in CommitPC /\ pc[t] \in LeaderPC
  BY DEF CommitPC, LeaderPC
<1>2. writers_ # <<>> /\ Len(writers_) \in Nat \ {0} /\ writers_[1] = t /\ group.last \in 1..Len(writers_)
  BY <1>1, LeaderIsFront DEF QueueInv
<1>3. status[t] \in {"ok", "error"}
  BY <1>2, SMT DEF QueueInv, TypeOK
<1>4. \A u \in Thread : pc'[u] \notin CommitPC
  BY <1>1, <1>2, OneCommits, PopGroupPC, SMT
<1>5. group'.batches = {}
  BY DEF PopGroup, NoGroup
<1> DEFINE popped == {writers_[i] : i \in 1..group.last}
<1>6. /\ \A u \in Thread : status'[u] = IF u \in popped THEN status[t] ELSE status[u]
      /\ t \in popped
  <2>1. \A u \in Thread : status'[u] = IF u \in popped THEN status[t] ELSE status[u]
    BY DEF PopGroup
  <2>2. 1 \in 1..group.last
    BY <1>2, SMT
  <2>3. t \in popped
    BY <1>2, <2>2
  <2> QED
    BY <2>1, <2>3
<1>7. GroupInv(t) /\ t \in group.batches /\ group.batches \subseteq Thread
  BY <1>1, GroupStatus
<1>8. \A u \in Thread : u \in group.batches <=> call[u].size # 0 /\ u \in popped
  BY <1>7 DEF GroupInv
<1>9. \A u \in popped : u # t => status[u] = "none"
  <2>1. \A i \in 2..Len(writers_) : status[writers_[i]] = "none"
    BY DEF QueueInv
  <2> QED
    BY <1>2, <2>1, SMT
<1> HIDE DEF popped
<1>10. (\A u : Fresh(u)' = Fresh(u)) /\ \A u, n : InLog(u, n)' = InLog(u, n)
  BY DEF Fresh, InLog
<1>11. ASSUME NEW u \in Thread
       PROVE  (/\ call[u].kind = "write" => call[u].size # 0
               /\ status[u] = "none" /\ u \notin group.batches => Fresh(u)
               /\ status[u] = "error" => u \notin Visible
               /\ status[u] = "ok" /\ call[u].size # 0 =>
                    u \in Visible /\ \E n \in 1..Len(log) : InLog(u, n) /\ (call[u].sync => log[n].synced))'
  <2>1. CASE u \in group.batches
    <3>1. u \in popped /\ status'[u] = status[t]
      BY <1>6, <1>8, <2>1
    <3>2. CASE status[t] = "ok" /\ pc[t] = "finish"
      <4>1. Logged(t)
        BY <3>2 DEF Logged
      <4>2. u \in Visible /\ InLog(u, Len(log)) /\ (call[u].sync => log[Len(log)].synced)
        BY <1>7, <2>1, <3>2, <4>1 DEF GroupInv
      <4>3. Len(log) \in 1..Len(log)
        BY <4>2 DEF InLog
      <4>4. (call[u].kind = "write" => call[u].size # 0)'
        BY DEF AckInv, ServedInv
      <4> QED
        BY <1>10, <3>1, <3>2, <4>2, <4>3, <4>4
    <3>3. CASE status[t] = "error"
      <4>1. u \notin Visible
        BY <1>7, <2>1, <3>3 DEF GroupInv, Logged, Fresh
      <4> QED
        BY <3>1, <3>3, <4>1 DEF AckInv, ServedInv
    <3>4. CASE status[t] = "ok" /\ pc[t] = "syncfail"
      <4>1. call[t].size # 0
        BY <1>7 DEF GroupInv
      <4>2. t \in Visible
        BY <3>4, <4>1 DEF AckInv, ServedInv
      <4>3. t \notin Visible
        BY <1>7, <3>4 DEF GroupInv, Logged
      <4> QED
        BY <4>2, <4>3
    <3> QED
      BY <1>3, <3>2, <3>3, <3>4
  <2>2. CASE u \notin group.batches /\ u \in popped
    <3>1. call[u].size = 0 /\ u # t
      BY <1>7, <1>8, <2>2
    <3>2. Fresh(u)
      BY <1>9, <2>2, <3>1 DEF AckInv, ServedInv
    <3> QED
      BY <1>3, <1>6, <1>10, <2>2, <3>1, <3>2 DEF Fresh, AckInv, ServedInv
  <2>3. CASE u \notin popped
    <3>1. status'[u] = status[u] /\ u \notin group.batches
      BY <1>6, <1>8, <2>3
    <3> QED
      BY <1>10, <3>1 DEF AckInv, ServedInv
  <2> QED
    BY <2>1, <2>2, <2>3
<1>12. ServedInv'
  BY <1>4, <1>5, <1>11 DEF AckInv, ServedInv
<1>13. FailedSyncInv'
  <2>1. \A i \in 1..Len(log) : /\ status[log[i].leader] # "none"
                               /\ call[log[i].leader].sync /\ status[log[i].leader] = "error" =>
                                    log[i].leader = t /\ i = Len(log) /\ pc[t] = "syncfail"
    BY <1>1, NoFailedSync
  <2>2. \A i \in 1..Len(log) : log[i].leader \in Thread
    BY RecordTypes
  <2>3. \A i \in 1..Len(log) : status'[log[i].leader] = status[log[i].leader]
    BY <1>6, <1>9, <2>1, <2>2
  <2> QED
    BY <1>4, <2>1, <2>3 DEF FailedSyncInv
<1> QED
  BY <1>4, <1>12, <1>13 DEF AckInv

\* A new call disturbs no group and no status: its thread is not in the queue.
LEMMA CallAck == ASSUME TypeOK, QueueInv, AckInv, NEW t \in Thread, Call(t) PROVE AckInv'
<1>1. /\ pc[t] = "idle" /\ \E x \in {"room", "wait"} : pc' = [pc EXCEPT ![t] = x]
      /\ UNCHANGED <<status, group, log, logfile_number_, mem_, imm_, has_imm_, flushed, bg_error_>>
      /\ writers_' = Append(writers_, t)
  BY DEF Call, dataVars, ctlVars
<1>2. \A i \in 1..Len(writers_) : writers_[i] # t
  <2>1. pc[t] \notin {"wait", "ready"} \cup LeaderPC
    BY <1>1 DEF LeaderPC
  <2>2. \A i \in 1..Len(writers_) : pc[writers_[i]] \in {"wait", "ready"} \cup LeaderPC
    BY SMT DEF QueueInv, TypeOK
  <2> QED
    BY <2>1, <2>2
<1>3. status[t] = "none"
  BY <1>1, <1>2 DEF QueueInv
<1>4. /\ \A u \in Thread : u # t => call'[u] = call[u]
      /\ call'[t].kind = "write" => call'[t].size # 0
  BY SizesAssumption, SMT DEF Call, TypeOK, CallArgs
<1>5. Visible' = Visible
  BY <1>1 DEF Visible
<1>6. (\A u : Fresh(u)' = Fresh(u)) /\ \A u, n : InLog(u, n)' = InLog(u, n)
  BY <1>1, <1>5 DEF Fresh, InLog
<1>7. \A u \in Thread : pc[u] \in CommitPC \/ pc'[u] \in CommitPC => pc'[u] = pc[u] /\ u # t
  BY <1>1 DEF TypeOK, CommitPC
<1>8. ServedInv'
  <2>1. (\A u \in Thread : pc'[u] \notin CommitPC) => group'.batches = {}
    BY <1>1, <1>7 DEF AckInv, ServedInv
  <2>2. ASSUME NEW u \in Thread
        PROVE  (/\ call[u].kind = "write" => call[u].size # 0
                /\ status[u] = "none" /\ u \notin group.batches => Fresh(u)
                /\ status[u] = "error" => u \notin Visible
                /\ status[u] = "ok" /\ call[u].size # 0 =>
                     u \in Visible /\ \E n \in 1..Len(log) : InLog(u, n) /\ (call[u].sync => log[n].synced))'
    <3>1. CASE u = t
      BY <1>1, <1>3, <1>4, <1>6, <3>1 DEF AckInv, ServedInv
    <3>2. CASE u # t
      BY <1>1, <1>4, <1>5, <1>6, <3>2 DEF AckInv, ServedInv
    <3> QED
      BY <3>1, <3>2
  <2> QED
    BY <1>1, <2>1, <2>2 DEF AckInv, ServedInv
<1>9. FailedSyncInv'
  <2>1. \A i \in 1..Len(log) : log[i].leader \in Thread
    BY RecordTypes
  <2>2. \A i \in 1..Len(log) : log[i].leader # t
    BY <1>1, <1>3 DEF AckInv, FailedSyncInv
  <2>3. (\A u \in Thread : pc'[u] \notin CommitPC) <=> (\A u \in Thread : pc[u] \notin CommitPC)
    BY <1>7
  <2>4. \A u \in Thread : u # t => pc'[u] = pc[u]
    BY <1>1 DEF TypeOK
  <2> QED
    BY <1>1, <1>4, <2>1, <2>2, <2>3, <2>4, SMT DEF AckInv, FailedSyncInv
<1>10. ASSUME NEW u \in Thread, pc'[u] \in CommitPC PROVE GroupInv(u)'
  <2>1. pc'[u] = pc[u] /\ u # t /\ pc[u] \in CommitPC /\ GroupInv(u) /\ call'[u] = call[u]
    BY <1>4, <1>7, <1>10 DEF AckInv
  <2>2. group.last \in 1..Len(writers_)
    BY <2>1 DEF QueueInv
  <2>3. \A i \in 1..group.last : writers_'[i] = writers_[i] /\ writers_[i] # t
    <3>1. writers_ \in Seq(Thread)
      BY DEF TypeOK
    <3> QED
      BY <1>1, <1>2, <2>2, <3>1, SMT
  <2>4. group.batches = {v \in Thread : call[v].size # 0 /\ \E i \in 1..group.last : writers_[i] = v}
    BY <2>1 DEF GroupInv
  <2>5. t \notin group.batches /\ group.batches \subseteq Thread
    BY <2>3, <2>4
  <2>6. group.batches = {v \in Thread : call'[v].size # 0 /\ \E i \in 1..group.last : writers_'[i] = v}
    BY <1>4, <2>3, <2>4, SMT
  <2>7. \A v \in group.batches : call'[v] = call[v]
    BY <1>4, <2>5
  <2>8. Logged(u)' = Logged(u)
    BY <1>1, <2>1 DEF Logged
  <2> QED
    BY <1>1, <1>5, <1>6, <2>1, <2>6, <2>7, <2>8 DEF GroupInv
<1> QED
  BY <1>8, <1>9, <1>10 DEF AckInv

\* The background thread moves batches from imm_ to tables, and wakes threads.
LEMMA BackgroundAck ==
  ASSUME TypeOK, AckInv, Background
  PROVE  /\ UNCHANGED <<call, status, writers_, group, log, logfile_number_>>
         /\ Visible' = Visible /\ (bg_error_ => bg_error_') /\ (~has_imm_' => imm_' = {})
         /\ pc' = pc \/ pc' = SignalAll(pc)
<1>1. ~has_imm_ => imm_ = {}
  BY DEF AckInv, ServedInv
<1>2. CASE BackgroundSkip \/ StartFlush \/ ManualNothing \/ PickCompaction
  <2>1. UNCHANGED <<call, status, writers_, group, dataVars, bg_error_>> /\ (pc' = pc \/ pc' = SignalAll(pc))
    BY <1>2 DEF BackgroundSkip, StartFlush, ManualNothing, PickCompaction, BackgroundCallEnd, threadVars, ctlVars
  <2> QED
    BY <1>1, <2>1 DEF dataVars, Visible
<1>3. ASSUME NEW ok \in BOOLEAN, NEW n, CompactionEnd(ok, n)
      PROVE  /\ UNCHANGED <<call, status, writers_, group, dataVars>>
             /\ bg_error_ => bg_error_'
             /\ pc' = pc \/ pc' = SignalAll(pc)
  BY <1>3 DEF CompactionEnd, BackgroundCallEnd
<1>4. CASE CompactionWork \/ InstallCompactionResults
  <2>1. /\ UNCHANGED <<call, status, writers_, group, dataVars>> /\ (bg_error_ => bg_error_')
        /\ pc' = pc \/ pc' = SignalAll(pc)
    <3>1. \/ \E ok \in BOOLEAN, n \in {l0, l0 - inputs} : CompactionEnd(ok, n)
          \/ UNCHANGED <<call, status, writers_, group, pc, dataVars, bg_error_>>
      BY <1>4 DEF CompactionWork, InstallCompactionResults, threadVars
    <3> QED
      BY <1>3, <3>1, SMT
  <2> QED
    BY <1>1, <2>1 DEF dataVars, Visible
<1>5. ASSUME NEW imm, NEW n, NEW err, FlushEnd(imm, n, err) PROVE pc' = pc \/ pc' = SignalAll(pc)
  BY <1>5 DEF FlushEnd, BackgroundCallEnd
<1>6. CASE BuildTable
  <2>1. UNCHANGED <<call, status, writers_, group, log, logfile_number_, mem_, imm_, has_imm_, flushed>>
    BY <1>6 DEF BuildTable, FlushFailed
  <2>2. pc' = pc \/ pc' = SignalAll(pc)
    BY <1>5, <1>6 DEF BuildTable, FlushFailed
  <2>3. bg_error_ => bg_error_'
    BY <1>6 DEF BuildTable, FlushFailed
  <2> QED
    BY <1>1, <2>1, <2>2, <2>3 DEF Visible
<1>7. CASE ApplyFlush
  <2>1. UNCHANGED <<call, status, writers_, group, log, logfile_number_, mem_>>
    BY <1>7 DEF ApplyFlush
  <2>2. pc' = pc \/ pc' = SignalAll(pc)
    BY <1>5, <1>7 DEF ApplyFlush, FlushFailed
  <2>3. bg_error_ => bg_error_'
    BY <1>7 DEF ApplyFlush, FlushFailed
  <2>4. \/ UNCHANGED <<imm_, has_imm_, flushed>>
        \/ flushed' = flushed \cup imm_ /\ imm_' = {}
    BY <1>7 DEF ApplyFlush, FlushFailed
  <2> QED
    BY <1>1, <2>1, <2>2, <2>3, <2>4 DEF Visible
<1> QED
  BY <1>2, <1>4, <1>6, <1>7 DEF Background

LEMMA NextAck == IInv /\ AckInv /\ [Next]_vars => AckInv'
<1> SUFFICES ASSUME IInv, AckInv, [Next]_vars PROVE AckInv'
  OBVIOUS
<1>1. TypeOK /\ QueueInv /\ (~has_imm_ => imm_ = {})
  BY DEF IInv, AckInv, ServedInv
<1>2. CASE UNCHANGED vars \/ Close \/ CloseWake
  <2>1. UNCHANGED <<call, status, writers_, group, log, logfile_number_, pc, mem_, imm_, has_imm_, flushed, bg_error_>>
    BY <1>2 DEF vars, Close, CloseWake, threadVars, dataVars, ctlVars
  <2>2. Visible' = Visible
    BY <2>1 DEF Visible
  <2> QED
    BY <1>1, <2>1, <2>2, AckFrame
<1>3. CASE Background
  <2>1. \A t \in Thread : pc[t] \in CommitPC \/ pc'[t] \in CommitPC => pc'[t] = pc[t]
    <3>1. pc' = pc \/ pc' = SignalAll(pc)
      BY <1>1, <1>3, BackgroundAck
    <3>2. pc \in [Thread -> ThreadPC]
      BY <1>1 DEF TypeOK
    <3>3. \A t \in Thread : \/ SignalAll(pc)[t] = pc[t]
                            \/ pc[t] \notin CommitPC /\ SignalAll(pc)[t] \notin CommitPC
      BY <3>2, SignalAllType DEF CommitPC
    <3> QED
      BY <3>1, <3>3
  <2> QED
    BY <1>1, <1>3, <2>1, BackgroundAck, AckFrame
<1>4. ASSUME NEW t \in Thread, WakeInQueue(t) \/ WaitForImm(t) \/ ManualCompaction(t) PROVE AckInv'
  <2>1. UNCHANGED <<call, status, writers_, group, log, logfile_number_, mem_, imm_, has_imm_, flushed, bg_error_>>
    BY <1>4 DEF WakeInQueue, WaitForImm, ManualCompaction, dataVars, ctlVars
  <2>2. \E x \in {"returned", "imm", "manual", "room", "wait", "immsleep", "manualsleep"} :
          pc' = [pc EXCEPT ![t] = x]
    BY <1>4 DEF WakeInQueue, WaitForImm, ManualCompaction, AfterWrite
  <2>3. pc[t] \notin CommitPC
    BY <1>4 DEF WakeInQueue, WaitForImm, ManualCompaction, CommitPC
  <2>4. \A u \in Thread : pc[u] \in CommitPC \/ pc'[u] \in CommitPC => pc'[u] = pc[u]
    BY <1>1, <2>2, <2>3 DEF TypeOK, CommitPC
  <2>5. Visible' = Visible
    BY <2>1 DEF Visible
  <2> QED
    BY <1>1, <2>1, <2>4, <2>5, AckFrame
<1>5. ASSUME NEW t \in Thread, AddRecord(t) \/ Sync(t) PROVE AckInv'
  <2>1. UNCHANGED <<call, writers_, group, logfile_number_, mem_, imm_, has_imm_, flushed>>
    BY <1>5 DEF AddRecord, Sync
  <2>2. Visible' = Visible
    BY <2>1 DEF Visible
  <2>3. CASE AddRecord(t)
    BY <1>1, <2>1, <2>2, <2>3, AddRecordAck, AddRecordFailsAck DEF AddRecord
  <2>4. CASE Sync(t)
    BY <1>1, <2>1, <2>2, <2>4, SyncAck, SyncFailsAck DEF Sync
  <2> QED
    BY <1>5, <2>3, <2>4
<1>6. ASSUME NEW t \in Thread, InsertInto(t) PROVE AckInv'
  <2>1. Visible' = Visible \cup group.batches
    BY <1>6 DEF InsertInto, Visible
  <2> QED
    BY <1>1, <1>6, <2>1, InsertAck DEF InsertInto
<1>7. ASSUME NEW t \in Thread, FinishWrite(t) PROVE AckInv'
  <2>1. /\ pc[t] \in {"finish", "syncfail"} /\ (pc[t] = "syncfail" => bg_error_')
        /\ UNCHANGED <<log, call, mem_, imm_, has_imm_, flushed>>
    BY <1>7 DEF FinishWrite
  <2>2. Visible' = Visible
    BY <2>1 DEF Visible
  <2>3. \E p : (p = pc \/ p = SignalAll(pc)) /\ PopGroup(t, group.last, status[t], p)
    BY <1>7 DEF FinishWrite
  <2> QED
    BY <1>1, <2>1, <2>2, <2>3, FinishAck
<1>8. ASSUME NEW t \in Thread, Call(t) \/ Step(t) PROVE AckInv'
  BY <1>1, <1>4, <1>5, <1>6, <1>7, <1>8, CallAck, MakeRoomAck DEF Step
<1> QED
  BY <1>2, <1>3, <1>8 DEF Next

\* What the writers know of each other, of the log and of the memtables holds in
\* every reachable state.
THEOREM AckInvariance == Spec => []AckInv
<1>1. Init => AckInv
  <2> SUFFICES ASSUME Init PROVE AckInv
    OBVIOUS
  <2>1. ServedInv
    BY SMT DEF Init, ServedInv, NoCall, NoGroup, Fresh, Visible
  <2>2. FailedSyncInv
    BY SMT DEF Init, FailedSyncInv
  <2>3. \A t \in Thread : pc[t] \notin CommitPC
    BY DEF Init, CommitPC
  <2> QED
    BY <2>1, <2>2, <2>3 DEF AckInv
<1> QED
  BY <1>1, NextAck, Invariance, PTL DEF Spec

\* A Write() that returns has reported success exactly if readers can see its
\* batch, and then the log holds the batch once: for leaders and for the writers
\* they serve, whatever fails (DBImpl::Write(), db_impl.cc:1162-1233).
THEOREM AckTheorem == Spec => []AckedIffApplied
<1>1. AckInv /\ IInv => AckedIffApplied
  <2> SUFFICES ASSUME AckInv, IInv, NEW t \in Thread, Returned(t)
               PROVE  /\ (status[t] = "ok") <=> t \in Visible
                      /\ status[t] = "ok" => Cardinality(RecordsOf(t)) = 1
    BY DEF AckedIffApplied
  <2>0. TypeOK /\ QueueInv
    BY DEF IInv
  <2>1. call[t].size # 0 /\ pc[t] = "returned"
    BY DEF Returned, AckInv, ServedInv
  <2>2. CASE status[t] = "ok"
    <3>1. t \in Visible
      BY <2>1, <2>2 DEF AckInv, ServedInv
    <3>2. PICK n \in 1..Len(log) : InLog(t, n)
      BY <2>1, <2>2 DEF AckInv, ServedInv
    <3>3. DOMAIN log = 1..Len(log)
      BY <2>0, SMT DEF TypeOK
    <3>4. RecordsOf(t) = {n}
      BY <3>2, <3>3 DEF RecordsOf, InLog
    <3> QED
      BY <2>2, <3>1, <3>4, FS_Singleton
  <2>3. CASE status[t] # "ok"
    <3>1. status[t] = "error" => t \notin Visible
      BY DEF AckInv, ServedInv
    <3>2. status[t] = "none" /\ t \notin group.batches => t \notin Visible
      BY DEF AckInv, ServedInv, Fresh
    <3>3. t \notin group.batches
      <4>1. CASE \A u \in Thread : pc[u] \notin CommitPC
        BY <4>1 DEF AckInv, ServedInv
      <4>2. ASSUME NEW u \in Thread, pc[u] \in CommitPC, t \in group.batches PROVE FALSE
        <5>1. PICK i \in 1..group.last : writers_[i] = t
          BY <4>2 DEF AckInv, GroupInv
        <5>2. i \in 1..Len(writers_)
          BY <2>0, <4>2, SMT DEF QueueInv
        <5>3. pc[writers_[i]] \in {"wait", "ready"} \cup LeaderPC
          BY <2>0, <5>2, SMT DEF QueueInv
        <5> QED
          BY <2>1, <5>1, <5>3 DEF LeaderPC
      <4> QED
        BY <4>1, <4>2
    <3>4. status[t] \in {"none", "error"}
      BY <2>0, <2>3 DEF TypeOK
    <3> QED
      BY <2>3, <3>1, <3>2, <3>3, <3>4
  <2> QED
    BY <2>2, <2>3
<1> QED
  BY <1>1, AckInvariance, Invariance, PTL

\* A Write() with sync that returns success has its own record on disk, also when
\* it was logged by a leader that decided about Sync() by its own option
\* (BuildBatchGroup(), db_impl.cc:1237-1286).
THEOREM SyncTheorem == Spec => []AckedSyncIsOnDisk
<1>1. AckInv /\ TypeOK => AckedSyncIsOnDisk
  <2> SUFFICES ASSUME AckInv, TypeOK, NEW t \in Thread, Returned(t), status[t] = "ok", call[t].sync,
                      NEW i \in RecordsOf(t)
               PROVE  log[i].synced
    BY DEF AckedSyncIsOnDisk
  <2>1. call[t].size # 0
    BY DEF Returned, AckInv, ServedInv
  <2>2. PICK n \in 1..Len(log) : InLog(t, n) /\ log[n].synced
    BY <2>1 DEF AckInv, ServedInv
  <2>3. DOMAIN log = 1..Len(log)
    BY SMT DEF TypeOK
  <2>4. i = n
    BY <2>2, <2>3 DEF RecordsOf, InLog
  <2> QED
    BY <2>2, <2>4
<1> QED
  BY <1>1, AckInvariance, TypeCorrect, PTL

\* Nothing is acknowledged behind a record whose Sync() failed: the log ends there,
\* since the background error stops every later leader
\* (RecordBackgroundError(), db_impl.cc:1205-1218).
THEOREM FailedSyncTheorem == Spec => []NoAckBehindFailedSync
<1>1. AckInv /\ TypeOK => NoAckBehindFailedSync
  <2> SUFFICES ASSUME AckInv, TypeOK, NEW i \in DOMAIN log, NEW j \in DOMAIN log, i < j,
                      call[log[i].leader].sync, status[log[i].leader] = "error"
               PROVE  FALSE
    BY DEF NoAckBehindFailedSync
  <2>1. Len(log) \in Nat /\ DOMAIN log = 1..Len(log)
    BY SMT DEF TypeOK
  <2>2. i = Len(log)
    BY <2>1 DEF AckInv, FailedSyncInv
  <2> QED
    BY <2>1, <2>2, SMT
<1> QED
  BY <1>1, AckInvariance, TypeCorrect, PTL
=============================================================================
