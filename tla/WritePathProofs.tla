-------------------------- MODULE WritePathProofs --------------------------
(***************************************************************************)
(* Proofs about WritePath, for any number of threads and any limits: the   *)
(* type invariant, and that the queue of writers hands over its lead       *)
(* without losing a wake-up.                                               *)
(***************************************************************************)
EXTENDS WritePath, FiniteSetTheorems, TLAPS

\* BuildBatchGroup() ends within the queue it starts from.
LEMMA LastWriterInQueue ==
  ASSUME writers_ \in Seq(Thread), writers_ # <<>>
  PROVE  LastWriter \in 1..Len(writers_)
<1> DEFINE D == {n \in 1..Len(writers_) : \A i \in 2..n : CanJoin(i)}
<1>1. IsFiniteSet(1..Len(writers_)) /\ Cardinality(1..Len(writers_)) = Len(writers_)
  BY FS_Interval
<1>2. IsFiniteSet(D) /\ Cardinality(D) <= Len(writers_)
  BY <1>1, FS_Subset, Zenon
<1>3. 1 \in D
  OBVIOUS
<1>4. Cardinality(D) # 0
  BY <1>2, <1>3, FS_EmptySet, Zenon
<1> QED
  BY <1>2, <1>4, FS_CardinalityType DEF LastWriter

\* The size of a group is a number.
LEMMA SizeUpToType ==
  ASSUME call \in [Thread -> CallArgs], writers_ \in Seq(Thread),
         NEW n \in 1..Len(writers_)
  PROVE  SizeUpTo(n) \in Nat
<1> DEFINE part(i) == {i} \X (1..call[writers_[i]].size)
           parts == {part(i) : i \in 1..n}
<1>1. \A i \in 1..n : IsFiniteSet(part(i))
  <2> TAKE i \in 1..n
  <2>1. PICK k \in Nat : k = call[writers_[i]].size
    BY DEF CallArgs
  <2>2. IsFiniteSet(1..k)
    BY FS_Interval
  <2>3. IsFiniteSet({i})
    BY FS_Singleton, Zenon
  <2> QED
    BY <2>1, <2>2, <2>3, FS_Product, Zenon
<1>2. IsFiniteSet(1..n)
  BY FS_Interval
<1>3. IsFiniteSet(parts)
  <2> DEFINE f == [i \in 1..n |-> part(i)]
  <2>1. f \in Surjection(1..n, parts)
    BY Zenon DEF Surjection
  <2> QED
    BY <2>1, <1>2, FS_Surjection
<1>4. IsFiniteSet(UNION parts)
  BY <1>1, <1>3, FS_UNION, Zenon
<1> QED
  BY <1>4, FS_CardinalityType, Zenon DEF SizeUpTo

-----------------------------------------------------------------------------
(* Type correctness *)

\* SignalAll() moves the threads that wait on bg_cv_ and no other.
LEMMA SignalAllType ==
  ASSUME NEW p \in [Thread -> ThreadPC]
  PROVE  /\ SignalAll(p) \in [Thread -> ThreadPC]
         /\ \A t \in Thread : \/ SignalAll(p)[t] = p[t]
                              \/ p[t] = "bgwait" /\ SignalAll(p)[t] = "room"
                              \/ p[t] \in {"immsleep", "manualsleep"}
                                 /\ SignalAll(p)[t] \in {"imm", "manual"}
<1>1. DOMAIN Woken = {"bgwait", "immsleep", "manualsleep"}
      /\ Woken["bgwait"] = "room" /\ Woken["immsleep"] = "imm" /\ Woken["manualsleep"] = "manual"
  BY Zenon DEF Woken
<1> QED
  BY <1>1, Zenon DEF SignalAll, ThreadPC, LeaderPC

ThreadTypes ==
  /\ call \in [Thread -> CallArgs] /\ pc \in [Thread -> ThreadPC]
  /\ status \in [Thread -> {"none", "ok", "error"}]
  /\ writers_ \in Seq(Thread) /\ group \in Group

\* Popping a group and starting one keep the types of the queue's variables.
LEMMA PopGroupType ==
  ASSUME ThreadTypes, NEW t \in Thread, NEW n \in 1..Len(writers_),
         NEW s \in {"ok", "error"}, NEW p \in [Thread -> ThreadPC],
         PopGroup(t, n, s, p), call' = call
  PROVE  ThreadTypes'
<1> DEFINE rest == SubSeq(writers_, n + 1, Len(writers_))
           popped == {writers_[i] : i \in 1..n}
           q == [u \in Thread |->
                   IF u = t THEN AfterWrite(t, s)
                   ELSE IF u \in popped /\ p[u] = "wait" THEN "ready" ELSE p[u]]
<1>1. rest \in Seq(Thread)
  BY DEF ThreadTypes
<1>2. AfterWrite(t, s) \in ThreadPC /\ "ready" \in ThreadPC
  BY Zenon DEF AfterWrite, ThreadPC
<1>3. q \in [Thread -> ThreadPC]
  BY <1>2, Zenon
<1>4. rest # <<>> => SignalWriter(q, Head(rest)) \in [Thread -> ThreadPC]
  BY <1>1, <1>2, <1>3, Zenon DEF SignalWriter
<1>5. pc' \in [Thread -> ThreadPC]
  BY <1>3, <1>4, Zenon DEF PopGroup
<1>6. status' \in [Thread -> {"none", "ok", "error"}]
  BY Zenon DEF PopGroup, ThreadTypes
<1>7. writers_' \in Seq(Thread)
  BY <1>1, Zenon DEF PopGroup
<1>8. group' \in Group
  BY Zenon DEF PopGroup, Group, NoGroup
<1> QED
  BY <1>5, <1>6, <1>7, <1>8, Zenon DEF ThreadTypes

LEMMA StartCommitType ==
  ASSUME ThreadTypes, last_sequence_ \in Nat, NEW t \in Thread, writers_ # <<>>,
         StartCommit(t), call' = call
  PROVE  ThreadTypes'
<1>1. CASE call[t].size = 0
  <2>1. 1 \in 1..Len(writers_)
    BY DEF ThreadTypes
  <2> QED
    BY <1>1, <2>1, PopGroupType, Zenon DEF StartCommit, ThreadTypes
<1>2. CASE call[t].size # 0
  <2>1. LastWriter \in 1..Len(writers_)
    BY LastWriterInQueue, Zenon DEF ThreadTypes
  <2>2. SizeUpTo(LastWriter) \in Nat
    BY <2>1, SizeUpToType, Zenon DEF ThreadTypes
  <2>3. BuildBatchGroup \in Group
    BY <2>1, <2>2 DEF BuildBatchGroup, GroupOf, Group, ThreadTypes
  <2> QED
    BY <1>2, <2>3, Zenon DEF StartCommit, ThreadTypes, ThreadPC, LeaderPC
<1> QED
  BY <1>1, <1>2, Zenon

-----------------------------------------------------------------------------
(* The queue *)

\* The thread that leads is the front of the queue.
LEMMA LeaderIsFront ==
  ASSUME TypeOK, QueueInv, NEW t \in Thread, pc[t] \in LeaderPC
  PROVE  writers_ # <<>> /\ Len(writers_) \in Nat \ {0} /\ writers_[1] = t
<1>1. PICK i \in 1..Len(writers_) : writers_[i] = t
  BY Zenon DEF QueueInv
<1>2. ~(i \in 2..Len(writers_))
  BY <1>1, Zenon DEF QueueInv, LeaderPC
<1> QED
  BY <1>1, <1>2 DEF TypeOK

\* A step that leaves the queue alone and at most signals bg_cv_ keeps QueueInv.
LEMMA QueueUndisturbed ==
  ASSUME TypeOK, QueueInv, pc' = pc \/ pc' = SignalAll(pc),
         UNCHANGED <<writers_, status, group>>
  PROVE  QueueInv'
<1>1. \A t \in Thread : \/ pc'[t] = pc[t]
                        \/ pc[t] = "bgwait" /\ pc'[t] = "room"
                        \/ pc[t] \in {"immsleep", "manualsleep"} /\ pc'[t] \in {"imm", "manual"}
  BY SignalAllType DEF TypeOK
<1> QED
  <2>1. \A i \in 1..Len(writers_) : writers_[i] \in Thread
    BY DEF TypeOK
  <2>2. writers_ # <<>> => 1 \in 1..Len(writers_)
    BY DEF TypeOK
  <2>3. \A t \in Thread : pc'[t] \in LeaderPC <=> pc[t] \in LeaderPC
    BY <1>1, Zenon DEF LeaderPC
  <2>4. \A t \in Thread : pc'[t] \in CommitPC <=> pc[t] \in CommitPC
    BY <1>1, Zenon DEF CommitPC
  <2>5. \A t \in Thread : \A x \in {"wait", "ready", "idle", "finish", "syncfail"} :
          pc'[t] = x <=> pc[t] = x
    BY <1>1, Zenon
  <2> QED
    BY <2>1, <2>2, <2>3, <2>4, <2>5 DEF QueueInv

\* A step of the leader within its own call keeps QueueInv.
LEMMA QueueLeaderStep ==
  ASSUME TypeOK, QueueInv, NEW t \in Thread, pc[t] \in LeaderPC, NEW x \in LeaderPC,
         pc' = [pc EXCEPT ![t] = x], writers_' = writers_,
         x \in CommitPC => group'.last \in 1..Len(writers_),
         IF x \in {"finish", "syncfail"}
         THEN \E s \in {"ok", "error"} : status' = [status EXCEPT ![t] = s]
         ELSE status' = status /\ pc[t] \notin {"finish", "syncfail"}
  PROVE  QueueInv'
<1>1. writers_ # <<>> /\ Len(writers_) \in Nat \ {0} /\ writers_[1] = t
  BY LeaderIsFront, Zenon
<1>2. \A u \in Thread : u # t => pc[u] \notin LeaderPC
  BY <1>1, LeaderIsFront, Zenon
<1>3. CommitPC \subseteq LeaderPC
  BY Zenon DEF CommitPC, LeaderPC
<1>4. \A u \in Thread : u # t => pc'[u] = pc[u] /\ status'[u] = status[u]
  BY Zenon DEF TypeOK
<1>5. pc'[t] = x /\ (x \in {"finish", "syncfail"} => status'[t] # "none")
      /\ (x \notin {"finish", "syncfail"} => status'[t] = "none")
  BY <1>1 DEF QueueInv, TypeOK
<1>6. \A i \in 2..Len(writers_) : writers_[i] # t /\ writers_[i] \in Thread
  BY <1>1 DEF QueueInv, TypeOK
<1> QED
  BY <1>1, <1>2, <1>3, <1>4, <1>5, <1>6 DEF QueueInv, TypeOK

\* Popping the first n writers hands the lead to the next one, awake.
LEMMA QueuePop ==
  ASSUME TypeOK, QueueInv, NEW t \in Thread, pc[t] \in LeaderPC,
         NEW n \in 1..Len(writers_), NEW s \in {"ok", "error"},
         NEW p, p = pc \/ p = SignalAll(pc), PopGroup(t, n, s, p)
  PROVE  QueueInv'
<1> DEFINE rest == SubSeq(writers_, n + 1, Len(writers_))
           popped == {writers_[i] : i \in 1..n}
           q == [u \in Thread |->
                   IF u = t THEN AfterWrite(t, s)
                   ELSE IF u \in popped /\ p[u] = "wait" THEN "ready" ELSE p[u]]
<1>1. writers_ # <<>> /\ Len(writers_) \in Nat \ {0} /\ writers_[1] = t /\ t \in popped
  BY LeaderIsFront
<1>2. /\ rest \in Seq(Thread) /\ Len(rest) = Len(writers_) - n
      /\ rest # <<>> => 1 \in 1..Len(rest)
      /\ \A i \in 1..Len(rest) : rest[i] = writers_[i + n]
  BY <1>1 DEF TypeOK
<1>3. /\ p \in [Thread -> ThreadPC]
      /\ \A u \in Thread : pc[u] \notin LeaderPC =>
           /\ p[u] \notin LeaderPC /\ (p[u] = "wait" <=> pc[u] = "wait")
           /\ (p[u] = "ready" <=> pc[u] = "ready") /\ (p[u] = "idle" <=> pc[u] = "idle")
  BY SignalAllType DEF TypeOK, LeaderPC
<1>4. \A u \in Thread : u # t => pc[u] \notin LeaderPC
  BY <1>1, LeaderIsFront, Zenon
<1>5. \A i \in 1..Len(rest) : rest[i] \in Thread /\ rest[i] # t /\ rest[i] \notin popped
                              /\ p[rest[i]] = "wait" /\ status[rest[i]] = "none"
  <2> TAKE i \in 1..Len(rest)
  <2>1. i + n \in 2..Len(writers_) /\ rest[i] = writers_[i + n]
    BY <1>2
  <2>2. rest[i] # t /\ rest[i] \notin popped
    BY <2>1, <1>1 DEF QueueInv
  <2>3. rest[i] \in Thread
    BY <1>2
  <2>4. pc[rest[i]] = "wait" /\ status[rest[i]] = "none"
    BY <2>1, Zenon DEF QueueInv
  <2> QED
    BY <2>2, <2>3, <2>4, <1>3, <1>4, Zenon
<1>6. AfterWrite(t, s) \in {"returned", "imm", "manual"}
  BY Zenon DEF AfterWrite
<1>7. \A u \in Thread : u \notin popped => u # t /\ q[u] = p[u] /\ status'[u] = status[u]
  BY <1>1, Zenon DEF PopGroup
<1>8. \A u \in Thread : u \in popped =>
        /\ q[u] \notin LeaderPC \cup {"wait", "idle"} /\ status'[u] = s
  <2> TAKE u \in Thread
  <2> HAVE u \in popped
  <2>1. status'[u] = s
    BY Zenon DEF PopGroup
  <2>2. CASE u = t
    BY <2>1, <2>2, <1>6, Zenon DEF LeaderPC
  <2>3. CASE u # t
    <3>1. PICK i \in 2..Len(writers_) : writers_[i] = u
      BY <1>1, <2>3
    <3>2. pc[u] = "wait"
      BY <3>1, Zenon DEF QueueInv
    <3>3. p[u] = "wait"
      BY <3>2, <1>3, <1>4, <2>3, Zenon
    <3> QED
      BY <3>3, <2>1, <2>3, Zenon DEF LeaderPC
  <2> QED
    BY <2>2, <2>3, Zenon
<1>9. \A u \in Thread : pc'[u] = IF rest # <<>> /\ u = rest[1] THEN "ready" ELSE q[u]
  <2>1. CASE rest = <<>>
    BY <2>1, Zenon DEF PopGroup
  <2>2. CASE rest # <<>>
    <3>1. Head(rest) = rest[1] /\ 1 \in 1..Len(rest)
      BY <2>2, <1>2
    <3>2. q[rest[1]] = "wait"
      BY <3>1, <1>5, Zenon
    <3>3. pc' = SignalWriter(q, rest[1])
      BY <2>2, <3>1, Zenon DEF PopGroup
    <3> QED
      BY <2>2, <3>1, <3>2, <3>3, Zenon DEF SignalWriter
  <2> QED
    BY <2>1, <2>2, Zenon
<1>10. writers_' = rest /\ group' = NoGroup
  BY Zenon DEF PopGroup
<1> HIDE DEF rest, popped, q
<1>11. \A u \in Thread : pc'[u] \notin LeaderPC
  BY <1>3, <1>4, <1>5, <1>7, <1>8, <1>9 DEF LeaderPC
<1>12. \A i, j \in 1..Len(rest) : rest[i] = rest[j] => i = j
  BY <1>2 DEF QueueInv
<1>13. \A i \in 2..Len(rest) : pc'[rest[i]] = "wait" /\ status'[rest[i]] = "none"
  <2> TAKE i \in 2..Len(rest)
  <2>1. /\ Len(rest) \in Nat /\ i \in 1..Len(rest) /\ 1 \in 1..Len(rest) /\ i # 1 /\ rest # <<>>
    BY <1>2
  <2>2. rest[i] # rest[1]
    BY <1>12, <2>1, Zenon
  <2> QED
    BY <1>2, <1>5, <1>7, <1>9, <2>1, <2>2
<1>14. rest # <<>> => pc'[rest[1]] = "ready" /\ status'[rest[1]] = "none"
  BY <1>2, <1>5, <1>7, <1>9, Zenon
<1>15. \A u \in Thread : (\A i \in 1..Len(rest) : rest[i] # u) =>
         /\ pc'[u] # "wait" /\ (pc'[u] = "ready" => status'[u] # "none")
         /\ (pc'[u] = "idle" => status'[u] = "none")
  <2> TAKE u \in Thread
  <2> HAVE \A i \in 1..Len(rest) : rest[i] # u
  <2>1. pc'[u] = q[u]
    BY <1>2, <1>9, Zenon
  <2>2. CASE u \in popped
    BY <2>1, <2>2, <1>8, Zenon
  <2>3. CASE u \notin popped
    <3>1. \A i \in 1..Len(writers_) : writers_[i] # u
      <4> TAKE i \in 1..Len(writers_)
      <4>1. CASE i \in 1..n
        BY <4>1, <2>3, Zenon DEF popped
      <4>2. CASE i \notin 1..n
        <5>1. i - n \in 1..Len(rest) /\ i = (i - n) + n
          BY <4>2, <1>2
        <5> QED
          BY <5>1, <1>2, Zenon
      <4> QED
        BY <4>1, <4>2, Zenon
    <3>2. pc[u] \notin LeaderPC \cup {"wait"} /\ (pc[u] = "ready" => status[u] # "none")
          /\ (pc[u] = "idle" => status[u] = "none")
      BY <3>1, Zenon DEF QueueInv
    <3> QED
      BY <3>2, <2>1, <2>3, <1>3, <1>7, Zenon
  <2> QED
    BY <2>2, <2>3, Zenon
<1> QED
  BY <1>10, <1>11, <1>12, <1>13, <1>14, <1>15, Zenon DEF QueueInv, CommitPC, LeaderPC

-----------------------------------------------------------------------------
(* The inductive invariant and its preservation, action by action *)

\* A compaction has no more level-0 inputs than level 0 has files, so that
\* installing its results leaves a number of files.
InputsInLevel0 == inputs <= l0

IInv == TypeOK /\ QueueInv /\ InputsInLevel0

OtherTypes ==
  /\ force \in BOOLEAN /\ allow_delay \in BOOLEAN
  /\ last_sequence_ \in Nat /\ log \in Seq(Record) /\ logfile_number_ \in Nat
  /\ mem_ \in SUBSET Thread /\ imm_ \in SUBSET Thread /\ has_imm_ \in BOOLEAN
  /\ flushed \in SUBSET Thread
  /\ l0 \in Nat /\ bg \in BgPC /\ inputs \in Nat /\ is_manual \in BOOLEAN
  /\ manual_compaction_ \in Thread \cup {Null} /\ manual_done \in [Thread -> BOOLEAN]
  /\ bg_error_ \in BOOLEAN /\ shutting_down_ \in BOOLEAN /\ faults \in Nat
  /\ closer \in {"open", "closesleep", "closing", "closed"}

LEMMA InitIInv == Init => IInv
<1> SUFFICES ASSUME Init PROVE IInv
  BY Zenon
<1>1. TypeOK
  <2>1. call \in [Thread -> CallArgs] /\ group \in Group
    BY Zenon DEF Init, NoCall, NoGroup, CallArgs, Group
  <2>2. ThreadTypes
    BY <2>1 DEF Init, ThreadTypes, ThreadPC
  <2>3. log \in Seq(Record)
    BY DEF Init
  <2>4. OtherTypes
    BY <2>3, LimitsAssumption, Zenon DEF Init, OtherTypes, BgPC
  <2> QED
    BY <2>2, <2>4, Zenon DEF TypeOK, ThreadTypes, OtherTypes
<1>2. QueueInv
  BY DEF Init, QueueInv, LeaderPC, CommitPC
<1>3. InputsInLevel0
  BY DEF Init, InputsInLevel0
<1> QED
  BY <1>1, <1>2, <1>3, Zenon DEF IInv

LEMMA CallIInv == ASSUME IInv, NEW t \in Thread, Call(t) PROVE IInv'
<1> USE DEF IInv
<1>1. call' \in [Thread -> CallArgs]
  <2>1. PICK c \in CallArgs : call' = [call EXCEPT ![t] = c]
    <3>1. PICK k \in Kinds, s \in BOOLEAN, n \in Sizes :
            call' = [call EXCEPT ![t] =
                       IF k = "write" THEN [kind |-> k, sync |-> s, size |-> n]
                                      ELSE [kind |-> k, sync |-> FALSE, size |-> 0]]
      BY Zenon DEF Call
    <3>2. k \in {"write", "compact"} /\ n \in Nat
      BY SizesAssumption, KindsAssumption, Zenon
    <3>3. CASE k = "write"
      BY <3>1, <3>2, <3>3, Zenon DEF CallArgs
    <3>4. CASE k # "write"
      BY <3>1, <3>2, <3>4, Zenon DEF CallArgs
    <3> QED
      BY <3>3, <3>4, Zenon
  <2> QED
    BY <2>1, Zenon DEF TypeOK
<1>2. writers_' \in Seq(Thread) /\ Len(writers_') = Len(writers_) + 1
      /\ writers_'[Len(writers_) + 1] = t /\ Len(writers_) \in Nat
      /\ \A i \in 1..Len(writers_) : writers_'[i] = writers_[i] /\ writers_[i] \in Thread
  BY DEF Call, TypeOK
<1>3. TypeOK'
  <2>1. ThreadTypes'
    <3>1. PICK x \in {"room", "wait"} : pc' = [pc EXCEPT ![t] = x]
      BY Zenon DEF Call
    <3>2. x \in ThreadPC
      BY Zenon DEF ThreadPC, LeaderPC
    <3>3. pc' \in [Thread -> ThreadPC]
      BY <3>1, <3>2, Zenon DEF TypeOK
    <3>4. status' = status /\ group' = group
      BY Zenon DEF Call
    <3> QED
      BY <1>1, <1>2, <3>3, <3>4, Zenon DEF TypeOK, ThreadTypes
  <2>2. force' \in BOOLEAN /\ allow_delay' \in BOOLEAN
    BY Zenon DEF Call, TypeOK
  <2>3. OtherTypes'
    BY <2>2, Zenon DEF Call, TypeOK, OtherTypes, dataVars, bgVars, ctlVars
  <2> QED
    BY <2>1, <2>3, Zenon DEF TypeOK, ThreadTypes, OtherTypes
<1>4. \A i \in 1..Len(writers_) : writers_[i] # t
  <2> TAKE i \in 1..Len(writers_)
  <2>1. pc[writers_[i]] # "idle"
    BY <1>2 DEF QueueInv, LeaderPC
  <2> QED
    BY <2>1, Zenon DEF Call
<1>5. QueueInv'
  <2>1. \A u \in Thread : u # t => pc'[u] = pc[u]
    BY Zenon DEF Call, TypeOK
  <2>2. status' = status /\ group' = group /\ status[t] = "none"
    BY <1>4, Zenon DEF Call, QueueInv
  <2>3. pc'[t] = IF writers_ = <<>> THEN "room" ELSE "wait"
    BY Zenon DEF Call, TypeOK
  <2>4. writers_ = <<>> <=> Len(writers_) = 0
    BY DEF TypeOK
  <2>5. CASE writers_ = <<>>
    <3>1. Len(writers_) = 0 /\ Len(writers_') = 1 /\ writers_'[1] = t /\ pc'[t] = "room"
      BY <1>2, <2>3, <2>4, <2>5
    <3>2. \A u \in Thread : /\ pc[u] \notin LeaderPC \cup {"wait"}
                            /\ pc[u] = "ready" => status[u] # "none"
                            /\ pc[u] = "idle" => status[u] = "none"
      BY <3>1 DEF QueueInv
    <3>3. "room" \in LeaderPC /\ "room" \notin CommitPC /\ CommitPC \subseteq LeaderPC
      BY Zenon DEF LeaderPC, CommitPC
    <3>4. \A u \in Thread : (\A i \in 1..Len(writers_') : writers_'[i] # u) => u # t
      BY <3>1
    <3>5. \A u \in Thread : pc'[u] \notin CommitPC
      BY <2>1, <3>1, <3>2, <3>3, Zenon
    <3>6. \A i, j \in 1..Len(writers_') : writers_'[i] = writers_'[j] => i = j
      BY <3>1
    <3>7. \A u \in Thread : (\A i \in 1..Len(writers_') : writers_'[i] # u) =>
            /\ pc'[u] \notin LeaderPC \cup {"wait"}
            /\ pc'[u] = "ready" => status'[u] # "none"
            /\ pc'[u] = "idle" => status'[u] = "none"
      BY <2>1, <2>2, <3>2, <3>4, Zenon
    <3> QED
      BY <3>1, <2>2, <3>3, <3>5, <3>6, <3>7 DEF QueueInv
  <2>6. CASE writers_ # <<>>
    <3>1. Len(writers_) \in Nat \ {0} /\ pc'[t] = "wait"
      BY <1>2, <2>3, <2>4, <2>6, Zenon
    <3>2. \A i, j \in 1..Len(writers_') : writers_'[i] = writers_'[j] => i = j
      BY <1>2, <1>4 DEF QueueInv
    <3>3. \A i \in 2..Len(writers_') : pc'[writers_'[i]] = "wait" /\ status'[writers_'[i]] = "none"
      <4> SUFFICES ASSUME NEW i \in 2..Len(writers_')
                   PROVE  pc'[writers_'[i]] = "wait" /\ status'[writers_'[i]] = "none"
        BY Zenon
      <4>1. CASE i = Len(writers_) + 1
        BY <1>2, <2>2, <3>1, <4>1, Zenon
      <4>2. CASE i \in 2..Len(writers_)
        <5>1. i \in 1..Len(writers_)
          BY <3>1, <4>2
        <5>2. writers_'[i] = writers_[i] /\ writers_[i] \in Thread /\ writers_[i] # t
          BY <1>2, <1>4, <5>1, Zenon
        <5>3. pc[writers_[i]] = "wait" /\ status[writers_[i]] = "none"
          BY <4>2, Zenon DEF QueueInv
        <5> QED
          BY <2>1, <2>2, <5>2, <5>3, Zenon
      <4>3. Len(writers_') = Len(writers_) + 1
        BY <1>2, Zenon
      <4> QED
        BY <3>1, <4>1, <4>2, <4>3
    <3>4. writers_'[1] = writers_[1] /\ pc'[writers_[1]] = pc[writers_[1]] /\ writers_[1] \in Thread
      <4>1. 1 \in 1..Len(writers_)
        BY <3>1
      <4>2. writers_'[1] = writers_[1] /\ writers_[1] \in Thread /\ writers_[1] # t
        BY <1>2, <1>4, <4>1, Zenon
      <4> QED
        BY <2>1, <4>2, Zenon
    <3>5. \A u \in Thread : (\A i \in 1..Len(writers_') : writers_'[i] # u) =>
            u # t /\ \A i \in 1..Len(writers_) : writers_[i] # u
      BY <1>2
    <3>6. writers_' # <<>> =>
            /\ pc'[writers_'[1]] \in LeaderPC \cup {"ready"}
            /\ pc'[writers_'[1]] \notin {"finish", "syncfail"} => status'[writers_'[1]] = "none"
            /\ pc'[writers_'[1]] \in {"finish", "syncfail"} => status'[writers_'[1]] # "none"
      BY <2>2, <2>6, <3>4, Zenon DEF QueueInv
    <3>7. \A u \in Thread : (\A i \in 1..Len(writers_') : writers_'[i] # u) =>
            /\ pc'[u] \notin LeaderPC \cup {"wait"}
            /\ pc'[u] = "ready" => status'[u] # "none"
            /\ pc'[u] = "idle" => status'[u] = "none"
      BY <2>1, <2>2, <3>5, Zenon DEF QueueInv
    <3>8. \A u \in Thread : pc'[u] \in CommitPC => group'.last \in 1..Len(writers_')
      <4>1. "wait" \notin CommitPC
        BY Zenon DEF CommitPC
      <4>2. \A u \in Thread : pc'[u] \in CommitPC => group.last \in 1..Len(writers_)
        BY <2>1, <3>1, <4>1, Zenon DEF QueueInv
      <4> QED
        BY <1>2, <2>2, <4>2
    <3> QED
      BY <3>2, <3>3, <3>6, <3>7, <3>8, Zenon DEF QueueInv
  <2> QED
    BY <2>5, <2>6, Zenon
<1> QED
  BY <1>3, <1>5, Zenon DEF Call, InputsInLevel0, bgVars

\* A thread that is not queued may move to any place outside Write()'s queue.
LEMMA OutsiderMoves ==
  ASSUME TypeOK, QueueInv, NEW t \in Thread, NEW x,
         x \notin LeaderPC \cup CommitPC \cup {"wait", "ready", "idle"},
         pc'[t] = x, \A u \in Thread : u # t => pc'[u] = pc[u],
         \A i \in 1..Len(writers_) : writers_[i] # t,
         writers_' = writers_, status' = status, group' = group
  PROVE  QueueInv'
<1>1. \A i \in 1..Len(writers_) : pc'[writers_[i]] = pc[writers_[i]]
  <2>1. \A i \in 1..Len(writers_) : writers_[i] \in Thread
    BY DEF TypeOK
  <2> QED
    BY <2>1, Zenon
<1>2. \A i \in 2..Len(writers_') : pc'[writers_'[i]] = "wait" /\ status'[writers_'[i]] = "none"
  <2>1. \A i \in 2..Len(writers_) : i \in 1..Len(writers_)
    BY DEF TypeOK
  <2> QED
    BY <1>1, <2>1, Zenon DEF QueueInv
<1>3. writers_' # <<>> =>
        /\ pc'[writers_'[1]] \in LeaderPC \cup {"ready"}
        /\ pc'[writers_'[1]] \notin {"finish", "syncfail"} => status'[writers_'[1]] = "none"
        /\ pc'[writers_'[1]] \in {"finish", "syncfail"} => status'[writers_'[1]] # "none"
  <2>1. writers_ # <<>> => 1 \in 1..Len(writers_)
    BY DEF TypeOK
  <2> QED
    BY <1>1, <2>1, Zenon DEF QueueInv
<1>4. \A u \in Thread : (\A i \in 1..Len(writers_') : writers_'[i] # u) =>
        /\ pc'[u] \notin LeaderPC \cup {"wait"}
        /\ pc'[u] = "ready" => status'[u] # "none"
        /\ pc'[u] = "idle" => status'[u] = "none"
  BY Zenon DEF QueueInv
<1>5. \A u \in Thread : pc'[u] \in CommitPC => group'.last \in 1..Len(writers_')
  BY Zenon DEF QueueInv
<1>6. \A i, j \in 1..Len(writers_') : writers_'[i] = writers_'[j] => i = j
  BY DEF QueueInv
<1> QED
  BY <1>2, <1>3, <1>4, <1>5, <1>6, Zenon DEF QueueInv

LEMMA WakeInQueueIInv == ASSUME IInv, NEW t \in Thread, WakeInQueue(t) PROVE IInv'
<1> USE DEF IInv
<1>1. TypeOK'
  <2>1. PICK x \in {"returned", "imm", "manual", "room", "wait"} : pc' = [pc EXCEPT ![t] = x]
    BY Zenon DEF WakeInQueue, AfterWrite
  <2>2. x \in ThreadPC
    BY Zenon DEF ThreadPC, LeaderPC
  <2>3. pc' \in [Thread -> ThreadPC]
    BY <2>1, <2>2, Zenon DEF TypeOK
  <2>4. force' \in BOOLEAN /\ allow_delay' \in BOOLEAN
    BY Zenon DEF WakeInQueue, TypeOK
  <2>5. UNCHANGED <<call, status, writers_, group, dataVars, bgVars, ctlVars>>
    BY Zenon DEF WakeInQueue
  <2> QED
    BY <2>3, <2>4, <2>5, Zenon DEF TypeOK, dataVars, bgVars, ctlVars
<1>2. \A u \in Thread : u # t => pc'[u] = pc[u]
  BY Zenon DEF WakeInQueue, TypeOK
<1>3. UNCHANGED <<writers_, status, group>>
  BY DEF WakeInQueue
<1>4. CASE status[t] # "none"
  <2>1. \A i \in 1..Len(writers_) : writers_[i] # t
    <3> SUFFICES ASSUME NEW i \in 1..Len(writers_), writers_[i] = t PROVE FALSE
      BY Zenon
    <3>1. pc[t] = "ready"
      BY Zenon DEF WakeInQueue
    <3>2. i = 1 \/ i \in 2..Len(writers_)
      BY DEF TypeOK
    <3>3. i \notin 2..Len(writers_)
      BY <3>1, Zenon DEF QueueInv
    <3>4. writers_ # <<>>
      BY DEF TypeOK
    <3> QED
      BY <1>4, <3>1, <3>2, <3>3, <3>4, Zenon DEF QueueInv
  <2>2. pc'[t] \in {"returned", "imm", "manual"}
    BY <1>4, Zenon DEF WakeInQueue, TypeOK, AfterWrite
  <2>3. pc'[t] \notin LeaderPC \cup CommitPC \cup {"wait", "ready", "idle"}
    BY <2>2, Zenon DEF LeaderPC, CommitPC
  <2>4. QueueInv'
    BY <1>2, <1>3, <2>1, <2>3, OutsiderMoves, Zenon
  <2> QED
    BY <1>1, <2>4, Zenon DEF WakeInQueue, InputsInLevel0, bgVars
<1>5. CASE status[t] = "none"
  <2>1. PICK i \in 1..Len(writers_) : writers_[i] = t
    BY <1>5, Zenon DEF QueueInv, WakeInQueue
  <2>2. i = 1 /\ writers_ # <<>> /\ t = Head(writers_) /\ writers_[1] = t
    <3>1. pc[t] = "ready"
      BY Zenon DEF WakeInQueue
    <3>2. i = 1 \/ i \in 2..Len(writers_)
      BY DEF TypeOK
    <3>3. i \notin 2..Len(writers_)
      BY <2>1, <3>1, Zenon DEF QueueInv
    <3>4. writers_ # <<>> /\ Head(writers_) = writers_[1]
      BY DEF TypeOK
    <3> QED
      BY <2>1, <3>2, <3>3, <3>4, Zenon
  <2>3. pc'[t] = "room"
    BY <1>5, <2>2, Zenon DEF WakeInQueue, TypeOK
  <2>4. \A j \in 2..Len(writers_) : writers_[j] \in Thread /\ writers_[j] # t
    <3>1. \A j \in 2..Len(writers_) : j \in 1..Len(writers_) /\ 1 \in 1..Len(writers_) /\ j # 1
      BY DEF TypeOK
    <3>2. \A j \in 1..Len(writers_) : writers_[j] \in Thread
      BY DEF TypeOK
    <3> QED
      BY <2>2, <3>1, <3>2 DEF QueueInv
  <2>5. QueueInv'
    <3>1. "room" \in LeaderPC /\ "room" \notin CommitPC
      BY Zenon DEF LeaderPC, CommitPC
    <3>2. \A i_1, j \in 1..Len(writers_') : writers_'[i_1] = writers_'[j] => i_1 = j
      BY <1>3 DEF QueueInv
    <3>3. \A j \in 2..Len(writers_') : pc'[writers_'[j]] = "wait" /\ status'[writers_'[j]] = "none"
      BY <1>2, <1>3, <2>4, Zenon DEF QueueInv
    <3>4. /\ pc'[writers_'[1]] \in LeaderPC \cup {"ready"}
          /\ pc'[writers_'[1]] \notin {"finish", "syncfail"} => status'[writers_'[1]] = "none"
          /\ pc'[writers_'[1]] \in {"finish", "syncfail"} => status'[writers_'[1]] # "none"
      BY <1>3, <1>5, <2>2, <2>3, <3>1, Zenon
    <3>5. \A u \in Thread : (\A j \in 1..Len(writers_') : writers_'[j] # u) =>
            /\ pc'[u] \notin LeaderPC \cup {"wait"}
            /\ pc'[u] = "ready" => status'[u] # "none"
            /\ pc'[u] = "idle" => status'[u] = "none"
      BY <1>2, <1>3, <2>1 DEF QueueInv
    <3>6. \A u \in Thread : pc'[u] \in CommitPC => group'.last \in 1..Len(writers_')
      BY <1>2, <1>3, <2>3, <3>1, Zenon DEF QueueInv
    <3> QED
      BY <3>2, <3>3, <3>4, <3>5, <3>6, Zenon DEF QueueInv
  <2> QED
    BY <1>1, <2>5, Zenon DEF WakeInQueue, InputsInLevel0, bgVars
<1> QED
  BY <1>4, <1>5, Zenon

\* Popping the leader's group and starting a commit keep the queue's part of IInv.
LEMMA PopIInv ==
  ASSUME TypeOK, QueueInv, NEW t \in Thread, pc[t] \in LeaderPC,
         NEW n \in 1..Len(writers_), NEW s \in {"ok", "error"},
         NEW p, p = pc \/ p = SignalAll(pc), PopGroup(t, n, s, p), call' = call
  PROVE  ThreadTypes' /\ QueueInv'
<1>a. ThreadTypes /\ pc \in [Thread -> ThreadPC] /\ SignalAll(pc) \in [Thread -> ThreadPC]
  BY SignalAllType, Zenon DEF TypeOK, ThreadTypes
<1>1. ThreadTypes /\ p \in [Thread -> ThreadPC]
  BY <1>a, Zenon
<1>2. ThreadTypes'
  BY <1>1, PopGroupType, Zenon
<1>3. QueueInv'
  BY QueuePop, Zenon
<1> QED
  BY <1>2, <1>3, Zenon

LEMMA StartCommitIInv ==
  ASSUME TypeOK, QueueInv, NEW t \in Thread, pc[t] = "room", StartCommit(t), call' = call
  PROVE  ThreadTypes' /\ QueueInv'
<1>1. pc[t] \in LeaderPC /\ ThreadTypes /\ last_sequence_ \in Nat
  BY Zenon DEF LeaderPC, TypeOK, ThreadTypes
<1>2. writers_ # <<>> /\ Len(writers_) \in Nat \ {0} /\ writers_[1] = t
  BY <1>1, LeaderIsFront, Zenon
<1>3. ThreadTypes'
  BY <1>1, <1>2, StartCommitType, Zenon
<1>4. CASE call[t].size = 0
  <2>1. PopGroup(t, 1, "ok", pc) /\ 1 \in 1..Len(writers_)
    BY <1>2, <1>4 DEF StartCommit
  <2> QED
    BY <1>1, <1>3, <2>1, QueuePop, Zenon
<1>5. CASE call[t].size # 0
  <2>1. LastWriter \in 1..Len(writers_)
    BY <1>2, LastWriterInQueue, Zenon DEF TypeOK
  <2>2. /\ group' = BuildBatchGroup /\ pc' = [pc EXCEPT ![t] = "log"]
        /\ writers_' = writers_ /\ status' = status
    BY <1>5, Zenon DEF StartCommit
  <2>3. group'.last \in 1..Len(writers_)
    BY <2>1, <2>2, Zenon DEF BuildBatchGroup, GroupOf
  <2>4. "log" \in LeaderPC /\ "log" \notin {"finish", "syncfail"} /\ pc[t] \notin {"finish", "syncfail"}
    BY Zenon DEF LeaderPC
  <2>5. QueueInv'
    BY <1>1, <2>2, <2>3, <2>4, QueueLeaderStep, Zenon
  <2> QED
    BY <1>3, <2>5, Zenon
<1> QED
  BY <1>4, <1>5, Zenon

LEMMA MakeRoomIInv ==
  ASSUME IInv, NEW t \in Thread,
         YieldError(t) \/ Delay(t) \/ DelayOver(t) \/ UseMemTable(t)
         \/ WaitForBackground(t) \/ SwitchMemTable(t)
  PROVE  IInv'
<1> USE DEF IInv
<1> DEFINE Same == UNCHANGED <<call, force, allow_delay, dataVars, bgVars, ctlVars>>
<1>1. pc[t] \in {"room", "delay"} /\ pc[t] \in LeaderPC
  BY Zenon DEF YieldError, Delay, DelayOver, UseMemTable, WaitForBackground, SwitchMemTable, LeaderPC
<1>2. 1 \in 1..Len(writers_)
  BY <1>1, LeaderIsFront
<1>3. Same => OtherTypes' /\ InputsInLevel0'
  BY Zenon DEF TypeOK, OtherTypes, InputsInLevel0, dataVars, bgVars, ctlVars
<1>4. ThreadTypes' /\ OtherTypes' => TypeOK'
  BY Zenon DEF TypeOK, ThreadTypes, OtherTypes
<1>5. CASE YieldError(t)
  <2>1. PopGroup(t, 1, "error", pc) /\ Same
    BY <1>5, Zenon DEF YieldError
  <2> QED
    BY <2>1, <1>1, <1>2, <1>3, <1>4, PopIInv, Zenon
<1>6. ASSUME NEW x \in {"delay", "room", "bgwait"}, pc' = [pc EXCEPT ![t] = x],
             UNCHANGED <<call, status, writers_, force, group, dataVars, bgVars, ctlVars>>,
             allow_delay' \in BOOLEAN
      PROVE  IInv'
  <2>1. x \in LeaderPC /\ x \notin CommitPC /\ x \notin {"finish", "syncfail"}
        /\ pc[t] \notin {"finish", "syncfail"}
    BY <1>1, Zenon DEF LeaderPC, CommitPC
  <2>2. QueueInv'
    BY <1>1, <1>6, <2>1, QueueLeaderStep, Zenon
  <2>3. ThreadTypes'
    BY <1>6, <2>1, Zenon DEF TypeOK, ThreadTypes, ThreadPC
  <2>4. OtherTypes' /\ InputsInLevel0'
    BY <1>6, Zenon DEF TypeOK, OtherTypes, InputsInLevel0, dataVars, bgVars, ctlVars
  <2> QED
    BY <2>2, <2>3, <2>4, <1>4, Zenon
<1>7. CASE Delay(t)
  BY <1>6, <1>7, Zenon DEF Delay
<1>8. CASE DelayOver(t)
  BY <1>6, <1>8, Zenon DEF DelayOver, TypeOK
<1>9. CASE WaitForBackground(t)
  BY <1>6, <1>9, Zenon DEF WaitForBackground, TypeOK
<1>10. CASE UseMemTable(t)
  <2>1. StartCommit(t) /\ Same /\ pc[t] = "room"
    BY <1>10, Zenon DEF UseMemTable
  <2> QED
    BY <2>1, <1>3, <1>4, StartCommitIInv, Zenon
<1>11. CASE SwitchMemTable(t)
  <2>1. ThreadTypes' /\ QueueInv'
    <3>1. pc[t] = "room" /\ call' = call /\ (StartCommit(t) \/ PopGroup(t, 1, "error", pc))
      BY <1>11, Zenon DEF SwitchMemTable
    <3>2. CASE StartCommit(t)
      BY <3>1, <3>2, StartCommitIInv, Zenon
    <3>3. CASE PopGroup(t, 1, "error", pc)
      BY <3>1, <3>3, <1>1, <1>2, PopIInv, Zenon
    <3> QED
      BY <3>1, <3>2, <3>3, Zenon
  <2>2. bg' \in BgPC /\ faults' \in Nat
    <3>1. bg' = bg \/ MaybeScheduleCompaction(TRUE, manual_compaction_)
      BY <1>11, Zenon DEF SwitchMemTable
    <3>2. bg' \in BgPC
      BY <3>1, Zenon DEF TypeOK, MaybeScheduleCompaction, Scheduled, BgPC
    <3>3. Succeeds \/ Fails
      BY <1>11, Zenon DEF SwitchMemTable
    <3>4. faults' \in Nat
      BY <3>3 DEF TypeOK, Succeeds, Fails
    <3> QED
      BY <3>2, <3>4, Zenon
  <2>3. /\ logfile_number_' \in Nat /\ mem_' \in SUBSET Thread /\ imm_' \in SUBSET Thread
        /\ has_imm_' \in BOOLEAN /\ force' \in BOOLEAN
    <3>1. CASE /\ logfile_number_' = logfile_number_ + 1
               /\ imm_' = mem_ /\ has_imm_' = TRUE /\ mem_' = {} /\ force' = FALSE
      <4>1. has_imm_' \in BOOLEAN /\ force' \in BOOLEAN
        BY <3>1, Zenon
      <4>2. logfile_number_' \in Nat /\ mem_' \in SUBSET Thread /\ imm_' \in SUBSET Thread
        BY <3>1 DEF TypeOK
      <4> QED
        BY <4>1, <4>2, Zenon
    <3>2. CASE UNCHANGED <<logfile_number_, imm_, has_imm_, mem_, force, bg>>
      BY <3>2, Zenon DEF TypeOK
    <3> QED
      BY <1>11, <3>1, <3>2, Zenon DEF SwitchMemTable
  <2>4. UNCHANGED <<allow_delay, last_sequence_, log, flushed, l0, inputs, is_manual,
                    manual_compaction_, manual_done, bg_error_, shutting_down_, closer>>
    BY <1>11, Zenon DEF SwitchMemTable
  <2>5. OtherTypes' /\ InputsInLevel0'
    BY <2>2, <2>3, <2>4, Zenon DEF TypeOK, OtherTypes, InputsInLevel0
  <2> QED
    BY <2>1, <2>5, <1>4, Zenon
<1> QED
  BY <1>5, <1>7, <1>8, <1>9, <1>10, <1>11, Zenon

\* Logging, syncing and inserting: steps of the leader inside its group
LEMMA CommitIInv ==
  ASSUME IInv, NEW t \in Thread, AddRecord(t) \/ Sync(t) \/ InsertInto(t)
  PROVE  IInv'
<1> USE DEF IInv
<1>1. pc[t] \in CommitPC /\ pc[t] \in LeaderPC /\ pc[t] \notin {"finish", "syncfail"}
  BY Zenon DEF AddRecord, Sync, InsertInto, LeaderPC, CommitPC
<1>2. group.last \in 1..Len(writers_)
  BY <1>1, Zenon DEF QueueInv
<1>3. PICK x \in {"sync", "insert", "finish", "syncfail"} :
        /\ pc' = [pc EXCEPT ![t] = x]
        /\ IF x \in {"finish", "syncfail"}
           THEN \E s \in {"ok", "error"} : status' = [status EXCEPT ![t] = s]
           ELSE status' = status
  BY Zenon DEF AddRecord, Sync, InsertInto
<1>4. UNCHANGED <<call, writers_, group, force, allow_delay, last_sequence_, logfile_number_, imm_,
                  has_imm_, flushed, bgVars, bg_error_, shutting_down_, closer>>
  BY Zenon DEF AddRecord, Sync, InsertInto, ctlVars
<1>5. QueueInv'
  <2>1. x \in LeaderPC
    BY Zenon DEF LeaderPC
  <2> QED
    BY <1>1, <1>2, <1>3, <1>4, <2>1, QueueLeaderStep, Zenon
<1>6. ThreadTypes'
  BY <1>3, <1>4, Zenon DEF TypeOK, ThreadTypes, ThreadPC, LeaderPC
<1>7. faults' \in Nat /\ mem_' \in SUBSET Thread
  BY DEF AddRecord, Sync, InsertInto, TypeOK, Group, Succeeds, Fails, ctlVars
<1>8. log' \in Seq(Record)
  <2>1. CASE AddRecord(t)
    <3> DEFINE r == [file |-> logfile_number_, leader |-> t, first |-> group.first,
                     count |-> group.count, batches |-> group.batches, synced |-> FALSE]
    <3>1. r \in Record
      BY Zenon DEF TypeOK, Group, Record
    <3>2. log' = log \/ log' = Append(log, r)
      BY <2>1, Zenon DEF AddRecord
    <3>3. log \in Seq(Record)
      BY Zenon DEF TypeOK
    <3> HIDE DEF r
    <3>4. Append(log, r) \in Seq(Record)
      BY <3>1, <3>3
    <3> QED
      BY <3>2, <3>3, <3>4, Zenon
  <2>2. CASE Sync(t)
    <3> DEFINE synced(r) == IF r.file = logfile_number_ THEN [r EXCEPT !.synced = TRUE] ELSE r
    <3>1. \A r \in Record : synced(r) \in Record
      BY Zenon DEF Record
    <3>2. log' = log \/ log' = [i \in 1..Len(log) |-> synced(log[i])]
      BY <2>2 DEF Sync, TypeOK
    <3>3. \A i \in 1..Len(log) : log[i] \in Record
      BY DEF TypeOK
    <3>4. Len(log) \in Nat
      BY DEF TypeOK
    <3> HIDE DEF synced
    <3> QED
      BY <3>1, <3>2, <3>3, <3>4 DEF TypeOK
  <2>3. CASE InsertInto(t)
    BY <2>3, Zenon DEF InsertInto, TypeOK
  <2> QED
    BY <2>1, <2>2, <2>3, Zenon
<1>9. OtherTypes' /\ InputsInLevel0'
  BY <1>4, <1>7, <1>8, Zenon DEF TypeOK, OtherTypes, InputsInLevel0, bgVars
<1> QED
  BY <1>5, <1>6, <1>9, Zenon DEF TypeOK, ThreadTypes, OtherTypes

LEMMA FinishWriteIInv == ASSUME IInv, NEW t \in Thread, FinishWrite(t) PROVE IInv'
<1> USE DEF IInv
<1>1. pc[t] \in CommitPC /\ pc[t] \in LeaderPC /\ pc[t] \in {"finish", "syncfail"}
  BY Zenon DEF FinishWrite, LeaderPC, CommitPC
<1>2. group.last \in 1..Len(writers_)
  BY <1>1, Zenon DEF QueueInv
<1>3. writers_[1] = t /\ writers_ # <<>>
  BY <1>1, LeaderIsFront, Zenon
<1>4. status[t] \in {"ok", "error"}
  <2>1. status[t] # "none"
    BY <1>1, <1>3, Zenon DEF QueueInv
  <2> QED
    BY <2>1, Zenon DEF TypeOK
<1>5. PICK p : (p = pc \/ p = SignalAll(pc)) /\ PopGroup(t, group.last, status[t], p)
  <2>1. PopGroup(t, group.last, status[t], IF bg_error_' # bg_error_ THEN SignalAll(pc) ELSE pc)
    BY Zenon DEF FinishWrite
  <2> QED
    BY <2>1, Zenon
<1>6. ThreadTypes' /\ QueueInv'
  BY <1>1, <1>2, <1>4, <1>5, PopIInv, Zenon DEF FinishWrite
<1>7. last_sequence_' \in Nat
  <2>1. last_sequence_ \in Nat /\ group.count \in Nat
    BY Zenon DEF TypeOK, Group
  <2>2. last_sequence_' = last_sequence_ + group.count
    BY Zenon DEF FinishWrite
  <2> QED
    BY <2>1, <2>2
<1>8. bg_error_' \in BOOLEAN
  BY Zenon DEF FinishWrite
<1>9. UNCHANGED <<force, allow_delay, log, logfile_number_, mem_, imm_, has_imm_, flushed, bgVars,
                 shutting_down_, closer, faults>>
  BY DEF FinishWrite
<1>10. OtherTypes' /\ InputsInLevel0'
  BY <1>7, <1>8, <1>9, Zenon DEF TypeOK, OtherTypes, InputsInLevel0, bgVars
<1> QED
  BY <1>6, <1>10, Zenon DEF TypeOK, ThreadTypes, OtherTypes

\* CompactRange() after its Write(): the thread is outside the queue
LEMMA CompactRangeIInv ==
  ASSUME IInv, NEW t \in Thread, WaitForImm(t) \/ ManualCompaction(t)
  PROVE  IInv'
<1> USE DEF IInv
<1>1. pc[t] \in {"imm", "manual"}
  BY Zenon DEF WaitForImm, ManualCompaction
<1>2. PICK x \in {"immsleep", "manual", "manualsleep", "returned"} : pc' = [pc EXCEPT ![t] = x]
  BY DEF WaitForImm, ManualCompaction
<1>3. UNCHANGED <<call, status, writers_, force, allow_delay, group, dataVars, l0, inputs,
                  is_manual, manual_done, ctlVars>>
  BY DEF WaitForImm, ManualCompaction, bgVars
<1>4. \A i \in 1..Len(writers_) : writers_[i] # t
  <2> SUFFICES ASSUME NEW i \in 1..Len(writers_) PROVE pc[writers_[i]] \in LeaderPC \cup {"ready", "wait"}
    BY <1>1 DEF LeaderPC
  <2>1. i = 1 \/ i \in 2..Len(writers_)
    BY DEF TypeOK
  <2>2. i = 1 => writers_ # <<>>
    BY DEF TypeOK
  <2> QED
    BY <2>1, <2>2, Zenon DEF QueueInv
<1>6. pc'[t] = x /\ \A u \in Thread : u # t => pc'[u] = pc[u]
  BY <1>2, Zenon DEF TypeOK
<1>7. QueueInv'
  <2>1. x \notin LeaderPC \cup CommitPC \cup {"wait", "ready", "idle"}
    BY Zenon DEF LeaderPC, CommitPC
  <2>2. writers_' = writers_ /\ status' = status /\ group' = group
    BY <1>3, Zenon
  <2> QED
    BY <1>4, <1>6, <2>1, <2>2, OutsiderMoves, Zenon
<1>8. ThreadTypes'
  BY <1>2, <1>3, Zenon DEF TypeOK, ThreadTypes, ThreadPC
<1>9. bg' \in BgPC /\ manual_compaction_' \in Thread \cup {Null}
  BY Zenon DEF WaitForImm, ManualCompaction, MaybeScheduleCompaction, Scheduled, TypeOK, BgPC, bgVars
<1>10. OtherTypes' /\ InputsInLevel0'
  BY <1>3, <1>9, Zenon DEF TypeOK, OtherTypes, InputsInLevel0, dataVars, ctlVars
<1> QED
  BY <1>7, <1>8, <1>10, Zenon DEF TypeOK, ThreadTypes, OtherTypes

\* The background thread and the destructor leave the queue alone.
LEMMA BackgroundIInv == ASSUME IInv, Background PROVE IInv'
<1> USE DEF IInv
<1> DEFINE Moved == pc' = pc \/ pc' = SignalAll(pc)
           Same == UNCHANGED <<call, status, writers_, force, allow_delay, group, last_sequence_, log,
                               logfile_number_, mem_, shutting_down_>>
           BgTypes == /\ bg' \in BgPC /\ l0' \in Nat /\ inputs' \in Nat /\ inputs' <= l0'
                      /\ is_manual' \in BOOLEAN /\ manual_compaction_' \in Thread \cup {Null}
                      /\ manual_done' \in [Thread -> BOOLEAN] /\ bg_error_' \in BOOLEAN
                      /\ imm_' \in SUBSET Thread /\ has_imm_' \in BOOLEAN /\ flushed' \in SUBSET Thread
                      /\ closer' \in {"open", "closesleep", "closing", "closed"}
                      /\ faults' \in Nat
<1>1. ASSUME Moved, Same, BgTypes PROVE IInv'
  <2>1. QueueInv'
    BY <1>1, QueueUndisturbed, Zenon
  <2>2. ThreadTypes'
    <3>1. pc \in [Thread -> ThreadPC]
      BY Zenon DEF TypeOK
    <3>2. pc' \in [Thread -> ThreadPC]
      BY <1>1, <3>1, SignalAllType, Zenon
    <3> QED
      BY <1>1, <3>2, Zenon DEF TypeOK, ThreadTypes
  <2>3. OtherTypes' /\ InputsInLevel0'
    BY <1>1, Zenon DEF TypeOK, OtherTypes, InputsInLevel0
  <2> QED
    BY <2>1, <2>2, <2>3, Zenon DEF TypeOK, ThreadTypes, OtherTypes
<1>2. SignalCloser \in {"open", "closesleep", "closing", "closed"}
  BY Zenon DEF SignalCloser, TypeOK
<1>3. \A imm, m, n, e : Scheduled(imm, m, n, e) \in BgPC
  BY Zenon DEF Scheduled, BgPC
<1>4. CASE BackgroundSkip
  BY <1>1, <1>2, <1>3, <1>4, Zenon DEF BackgroundSkip, BackgroundCallEnd, TypeOK, InputsInLevel0, dataVars
<1>5. CASE StartFlush
  <2>1. bg' \in BgPC
    BY <1>5, Zenon DEF StartFlush, BgPC
  <2> QED
    BY <1>1, <1>5, <2>1, Zenon DEF StartFlush, TypeOK, InputsInLevel0, threadVars, dataVars, ctlVars
<1>6. CASE ManualNothing
  BY <1>1, <1>2, <1>3, <1>6, Zenon DEF ManualNothing, BackgroundCallEnd, TypeOK, InputsInLevel0, dataVars
<1>7. CASE PickCompaction
  <2>1. bg' \in BgPC
    BY <1>7, Zenon DEF PickCompaction, BgPC
  <2>2. is_manual' \in BOOLEAN
    BY <1>7, Zenon DEF PickCompaction
  <2>3. inputs' \in Nat /\ inputs' <= l0 /\ l0' = l0
    <3>1. l0 \in Nat
      BY Zenon DEF TypeOK
    <3> QED
      BY <1>7, <3>1 DEF PickCompaction
  <2> QED
    BY <1>1, <1>7, <2>1, <2>2, <2>3, Zenon DEF PickCompaction, TypeOK, threadVars, dataVars, ctlVars
<1>8. faults' = faults \/ Fails => faults' \in Nat
  BY DEF Fails, TypeOK
<1>9. \A imm, n, e : FlushEnd(imm, n, e) =>
        Moved /\ bg' \in BgPC /\ closer' \in {"open", "closesleep", "closing", "closed"}
  BY <1>2, <1>3, Zenon DEF FlushEnd, BackgroundCallEnd, TypeOK, BgPC
<1>10. CASE BuildTable
  <2>1. Moved /\ bg' \in BgPC /\ closer' \in {"open", "closesleep", "closing", "closed"}
    BY <1>9, <1>10, Zenon DEF BuildTable, FlushFailed, TypeOK, BgPC
  <2>2. bg_error_' \in BOOLEAN /\ UNCHANGED <<imm_, has_imm_, flushed, l0>>
    BY <1>10, Zenon DEF BuildTable, FlushFailed, TypeOK
  <2>3. faults' \in Nat
    <3>1. faults' = faults \/ Fails
      BY <1>10, Zenon DEF BuildTable, Succeeds
    <3> QED
      BY <1>8, <3>1, Zenon
  <2>4. Same /\ UNCHANGED <<inputs, is_manual, manual_compaction_, manual_done>>
    BY <1>10, Zenon DEF BuildTable
  <2> QED
    BY <1>1, <2>1, <2>2, <2>3, <2>4, Zenon DEF TypeOK, InputsInLevel0
<1>11. CASE ApplyFlush
  <2>1. Moved /\ bg' \in BgPC /\ closer' \in {"open", "closesleep", "closing", "closed"}
    BY <1>9, <1>11, Zenon DEF ApplyFlush, FlushFailed
  <2>2. bg_error_' \in BOOLEAN
    BY <1>11, Zenon DEF ApplyFlush, FlushFailed, TypeOK
  <2>3. /\ imm_' \in SUBSET Thread /\ has_imm_' \in BOOLEAN /\ flushed' \in SUBSET Thread
        /\ l0' \in Nat /\ l0' >= l0
    <3>1. CASE UNCHANGED <<imm_, has_imm_, flushed, l0>>
      BY <3>1 DEF TypeOK
    <3>2. CASE /\ l0' \in {l0} \cup {n \in {l0 + 1} : imm_ # {}}
               /\ flushed' = flushed \cup imm_ /\ imm_' = {} /\ has_imm_' = FALSE
      <4>1. has_imm_' \in BOOLEAN
        BY <3>2, Zenon
      <4>2. l0' = l0 \/ l0' = l0 + 1
        BY <3>2, Zenon
      <4>3. imm_' \in SUBSET Thread /\ flushed' \in SUBSET Thread
        BY <3>2, Zenon DEF TypeOK
      <4>4. l0 \in Nat
        BY Zenon DEF TypeOK
      <4> QED
        BY <4>1, <4>2, <4>3, <4>4
    <3> QED
      BY <1>11, <3>1, <3>2, Zenon DEF ApplyFlush, FlushFailed
  <2>4. faults' \in Nat
    BY <1>11, <1>8, Zenon DEF ApplyFlush, Succeeds
  <2>5. Same /\ UNCHANGED <<inputs, is_manual, manual_compaction_, manual_done>>
    BY <1>11, Zenon DEF ApplyFlush
  <2>6. inputs' <= l0'
    <3>1. inputs \in Nat /\ l0 \in Nat /\ inputs <= l0
      BY Zenon DEF TypeOK, InputsInLevel0
    <3> QED
      BY <2>3, <2>5, <3>1
  <2> QED
    BY <1>1, <2>1, <2>2, <2>3, <2>4, <2>5, <2>6, Zenon DEF TypeOK
<1>12. ASSUME NEW ok \in BOOLEAN, NEW n \in Nat, CompactionEnd(ok, n), faults' \in Nat
       PROVE  IInv'
  <2>1. Same /\ UNCHANGED <<is_manual, imm_, has_imm_, flushed>> /\ l0' = n /\ inputs' = 0
    BY <1>12, Zenon DEF CompactionEnd, dataVars
  <2>2. bg_error_' \in BOOLEAN
    BY <1>12, Zenon DEF CompactionEnd
  <2>3. Moved /\ bg' \in BgPC /\ closer' \in {"open", "closesleep", "closing", "closed"}
    <3>1. CASE bg' = "crashed" /\ UNCHANGED <<pc, closer>>
      BY <3>1, Zenon DEF TypeOK, BgPC
    <3>2. CASE BackgroundCallEnd(has_imm_, manual_compaction_', n, bg_error_')
      BY <1>2, <1>3, <3>2, Zenon DEF BackgroundCallEnd
    <3> QED
      BY <1>12, <3>1, <3>2, Zenon DEF CompactionEnd
  <2>4. manual_done' \in [Thread -> BOOLEAN] /\ manual_compaction_' \in Thread \cup {Null}
    BY <1>12, Zenon DEF CompactionEnd, TypeOK
  <2> QED
    <3>1. l0' \in Nat /\ inputs' \in Nat /\ inputs' <= l0'
      BY <1>12, <2>1
    <3>2. /\ is_manual' \in BOOLEAN /\ imm_' \in SUBSET Thread
          /\ has_imm_' \in BOOLEAN /\ flushed' \in SUBSET Thread
      BY <2>1, Zenon DEF TypeOK
    <3>3. BgTypes
      BY <1>12, <2>2, <2>3, <2>4, <3>1, <3>2, Zenon
    <3> HIDE DEF BgTypes, Moved, Same
    <3> QED
      BY <1>1, <2>1, <2>3, <3>3, Zenon
<1>13. CASE CompactionWork
  <2>1. CASE CompactionEnd(FALSE, l0)
    <3>1. faults' \in Nat /\ l0 \in Nat
      BY <1>8, <1>13, Zenon DEF CompactionWork, Succeeds, TypeOK
    <3> QED
      BY <1>12, <2>1, <3>1, Zenon
  <2>2. CASE /\ bg' = "install" /\ Succeeds
             /\ UNCHANGED <<threadVars, dataVars, l0, inputs, is_manual, manual_compaction_,
                            manual_done, bg_error_, shutting_down_, closer>>
    <3>1. bg' \in BgPC
      BY <2>2, Zenon DEF BgPC
    <3> QED
      BY <1>1, <2>2, <3>1, Zenon DEF TypeOK, InputsInLevel0, threadVars, dataVars, Succeeds
  <2> QED
    BY <1>13, <2>1, <2>2, Zenon DEF CompactionWork
<1>14. CASE InstallCompactionResults
  <2>1. faults' \in Nat
    BY <1>8, <1>14, Zenon DEF InstallCompactionResults, Succeeds
  <2>2. l0 \in Nat /\ l0 - inputs \in Nat
    BY DEF TypeOK, InputsInLevel0
  <2> QED
    BY <1>12, <1>14, <2>1, <2>2, Zenon DEF InstallCompactionResults
<1> QED
  BY <1>4, <1>5, <1>6, <1>7, <1>10, <1>11, <1>13, <1>14, Zenon DEF Background

LEMMA CloseIInv == ASSUME IInv, Close \/ CloseWake PROVE IInv'
<1> USE DEF IInv
<1>1. UNCHANGED <<threadVars, dataVars, bgVars, bg_error_, faults>>
  BY Zenon DEF Close, CloseWake
<1>2. shutting_down_' \in BOOLEAN /\ closer' \in {"open", "closesleep", "closing", "closed"}
  BY Zenon DEF Close, CloseWake, TypeOK
<1>3. QueueInv'
  BY <1>1, QueueUndisturbed, Zenon DEF threadVars
<1>4. TypeOK' /\ InputsInLevel0'
  BY <1>1, <1>2, Zenon DEF TypeOK, InputsInLevel0, threadVars, dataVars, bgVars
<1> QED
  BY <1>3, <1>4, Zenon

\* IInv is inductive.
LEMMA NextIInv == IInv /\ [Next]_vars => IInv'
<1> SUFFICES ASSUME IInv, [Next]_vars PROVE IInv'
  BY Zenon
<1>1. ASSUME NEW t \in Thread, Call(t) \/ Step(t) PROVE IInv'
  BY Zenon, <1>1, CallIInv, WakeInQueueIInv, MakeRoomIInv, CommitIInv, FinishWriteIInv,
     CompactRangeIInv DEF Step
<1>2. CASE Background
  BY <1>2, BackgroundIInv, Zenon
<1>3. CASE Close \/ CloseWake
  BY <1>3, CloseIInv, Zenon
<1>4. CASE UNCHANGED vars
  <2>1. QueueInv'
    BY <1>4, QueueUndisturbed, Zenon DEF IInv, vars, threadVars
  <2>2. TypeOK' /\ InputsInLevel0'
    BY <1>4 DEF IInv, TypeOK, InputsInLevel0, vars, threadVars, dataVars, bgVars, ctlVars
  <2> QED
    BY <2>1, <2>2, Zenon DEF IInv
<1> QED
  BY <1>1, <1>2, <1>3, <1>4, Zenon DEF Next

-----------------------------------------------------------------------------
(* The theorems *)

\* The strengthened invariant holds in every state DBImpl can reach.
THEOREM Invariance == Spec => []IInv
  BY InitIInv, NextIInv, PTL DEF Spec

\* Every state of the write path is well typed; in particular a compaction never
\* leaves level 0 with fewer files than none.
THEOREM TypeCorrect == Spec => []TypeOK
<1>1. IInv => TypeOK
  BY Zenon DEF IInv
<1> QED
  BY <1>1, Invariance, PTL

\* Only the writer at the front of writers_ leads, for any number of threads:
\* log_ and mem_ have one user while mutex_ is released in DBImpl::Write().
THEOREM OneLeader == Spec => []LeaderAtFront
<1>1. IInv => LeaderAtFront
  <2> SUFFICES ASSUME IInv, NEW t \in Thread, pc[t] \in LeaderPC
               PROVE  writers_ # <<>> /\ t = Head(writers_)
    BY Zenon DEF LeaderAtFront
  <2>1. writers_ # <<>> /\ writers_[1] = t
    BY LeaderIsFront, Zenon DEF IInv
  <2>2. writers_ \in Seq(Thread)
    BY Zenon DEF IInv, TypeOK
  <2> QED
    BY <2>1, <2>2
<1> QED
  BY <1>1, Invariance, PTL

\* The hand-over of the queue loses no wake-up, for any number of threads: who
\* sleeps in the queue loop of DBImpl::Write() has another writer before it.
THEOREM NoLostWakeUp == Spec => []FrontAwake
<1>1. IInv => FrontAwake
  <2> SUFFICES ASSUME IInv, NEW t \in Thread, pc[t] = "wait"
               PROVE  \E i \in 2..Len(writers_) : writers_[i] = t
    BY DEF FrontAwake
  <2>1. PICK i \in 1..Len(writers_) : writers_[i] = t
    BY Zenon DEF IInv, QueueInv
  <2>a. Len(writers_) \in Nat /\ (writers_ = <<>> => Len(writers_) = 0)
    BY DEF IInv, TypeOK
  <2>2. i # 1
    <3>1. writers_ # <<>>
      BY <2>1, <2>a
    <3>2. pc[writers_[1]] # "wait"
      BY <3>1, Zenon DEF IInv, QueueInv, LeaderPC
    <3> QED
      BY <2>1, <3>2, Zenon
  <2>3. i \in 2..Len(writers_)
    BY <2>1, <2>2, <2>a
  <2> QED
    BY <2>1, <2>3, Zenon
<1> QED
  BY <1>1, Invariance, PTL

=============================================================================
