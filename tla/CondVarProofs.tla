--------------------------- MODULE CondVarProofs ---------------------------
(***************************************************************************)
(* For any number of threads, up to the maximum count of a semaphore, the  *)
(* condition variable of CondVar keeps its types and its handshake clean,  *)
(* and implements WakeUps.                                                 *)
(***************************************************************************)
EXTENDS CondVar, FiniteSetTheorems, TLAPS

\* While a thread signals, every wake-up it gave is still in sem1_, with one who
\* is about to answer, or answered in sem2_; and the counter tells how many wait
\* beyond those in sem1_.  The counter fits into a semaphore.
Handshake ==
  LET W == Cardinality(Waiters)
      given == sem1_ + Cardinality(Shaking) + sem2_
  IN /\ wait_mtx_ = {} => sem1_ = 0 /\ sem2_ = 0 /\ Shaking = {} /\ waiting_ = W
     /\ \A t \in Threads :
          /\ pc[t] = "signal" => given = 1 /\ W = waiting_ + sem1_
          /\ pc[t] = "all" => given = waiting_ /\ W = sem1_ /\ waiting_ <= MaxCount

IInv == TypeOK /\ Handshake

\* The sets that are counted are finite, and not larger than a semaphore counts.
LEMMA Counts ==
  /\ IsFiniteSet(Waiters) /\ Cardinality(Waiters) \in Nat
  /\ IsFiniteSet(Shaking) /\ Cardinality(Shaking) \in Nat
  /\ Cardinality(Waiters) <= MaxCount /\ Cardinality(Shaking) <= MaxCount
  /\ Shaking = {} <=> Cardinality(Shaking) = 0
  /\ Waiters = {} <=> Cardinality(Waiters) = 0
<1>1. Waiters \subseteq Threads /\ Shaking \subseteq Threads
  BY DEF Waiters, Shaking
<1>2. IsFiniteSet(Threads) /\ MaxCount \in Nat /\ Cardinality(Threads) <= MaxCount
  BY ThreadsAssumption
<1>3. IsFiniteSet(Waiters) /\ Cardinality(Waiters) <= Cardinality(Threads)
  BY <1>1, <1>2, FS_Subset
<1>4. IsFiniteSet(Shaking) /\ Cardinality(Shaking) <= Cardinality(Threads)
  BY <1>1, <1>2, FS_Subset
<1>5. Cardinality(Waiters) \in Nat /\ Cardinality(Shaking) \in Nat /\ Cardinality(Threads) \in Nat
  BY <1>2, <1>3, <1>4, FS_CardinalityType
<1>6. Shaking = {} <=> Cardinality(Shaking) = 0
  BY <1>4, FS_EmptySet
<1>7. Waiters = {} <=> Cardinality(Waiters) = 0
  BY <1>3, FS_EmptySet
<1> QED
  BY <1>2, <1>3, <1>4, <1>5, <1>6, <1>7

\* The sets of threads that an action counts, before and after it moves t.
LEMMA Moves ==
  ASSUME NEW t \in Threads, NEW p \in Places, TypeOK, Goto(t, p)
  PROVE  /\ pc'[t] = p /\ \A u \in Threads \ {t} : pc'[u] = pc[u]
         /\ Waiters' = IF p \in {"counted", "sleep"} THEN Waiters \cup {t} ELSE Waiters \ {t}
         /\ Shaking' = IF p = "shake" THEN Shaking \cup {t} ELSE Shaking \ {t}
         /\ Holders' = IF p \in {"in", "counted", "signal", "all"} THEN Holders \cup {t} ELSE Holders \ {t}
<1>1. pc'[t] = p /\ \A u \in Threads \ {t} : pc'[u] = pc[u]
  BY DEF Goto, TypeOK
<1>2. Waiters' = IF p \in {"counted", "sleep"} THEN Waiters \cup {t} ELSE Waiters \ {t}
  BY <1>1 DEF Waiters
<1>3. Shaking' = IF p = "shake" THEN Shaking \cup {t} ELSE Shaking \ {t}
  BY <1>1 DEF Shaking
<1>4. Holders' = IF p \in {"in", "counted", "signal", "all"} THEN Holders \cup {t} ELSE Holders \ {t}
  BY <1>1 DEF Holders
<1> QED
  BY <1>1, <1>2, <1>3, <1>4

\* Every action keeps the types: who holds mu_ and wait_mtx_ follows from pc.
LEMMA TypeStep ==
  ASSUME TypeOK, [Next]_vars
  PROVE  TypeOK'
<1>1. ASSUME UNCHANGED vars PROVE TypeOK'
  BY <1>1 DEF TypeOK, vars, Holders
<1>2. ASSUME NEW t \in Threads, Lock(t) \/ Relock(t) PROVE TypeOK'
  <2>1. Goto(t, "in") /\ mu_ = {} /\ mu_' = {t} /\ pc[t] \in {"out", "relock"}
        /\ UNCHANGED <<wait_mtx_, waiting_, sem1_, sem2_>>
    BY <1>2 DEF Lock, Relock
  <2>2. Holders' = Holders \cup {t}
    BY <2>1, Moves DEF Places
  <2>3. pc' \in [Threads -> Places] /\ wait_mtx_' = {u \in Threads : pc'[u] \in {"signal", "all"}}
    BY <2>1 DEF TypeOK, Goto, Places
  <2> QED
    BY <2>1, <2>2, <2>3, Zenon DEF TypeOK
<1>3. ASSUME NEW t \in Threads, Unlock(t) \/ UnlockAndSleep(t) PROVE TypeOK'
  <2>1. PICK p \in {"out", "sleep"} : Goto(t, p)
    BY <1>3 DEF Unlock, UnlockAndSleep
  <2>2. pc[t] \in {"in", "counted"} /\ mu_' = {} /\ UNCHANGED <<wait_mtx_, waiting_, sem1_, sem2_>>
    BY <1>3 DEF Unlock, UnlockAndSleep
  <2>3. Holders' = Holders \ {t}
    BY <2>1, Moves DEF Places
  <2>4. Holders = {t}
    BY <2>2 DEF TypeOK, Holders
  <2>5. pc' \in [Threads -> Places] /\ wait_mtx_' = {u \in Threads : pc'[u] \in {"signal", "all"}}
    BY <2>1, <2>2 DEF TypeOK, Goto, Places
  <2> QED
    BY <2>2, <2>3, <2>4, <2>5 DEF TypeOK
<1>4. ASSUME NEW t \in Threads, WaitForSem1(t) \/ ReleaseSem2(t) PROVE TypeOK'
  <2>1. PICK p \in {"shake", "relock"} : Goto(t, p)
    BY <1>4 DEF WaitForSem1, ReleaseSem2
  <2>2. pc[t] \in {"sleep", "shake"} /\ UNCHANGED <<mu_, wait_mtx_, waiting_>>
    BY <1>4 DEF WaitForSem1, ReleaseSem2
  <2>3. Holders' = Holders \ {t}
    BY <2>1, Moves DEF Places
  <2>4. t \notin Holders
    BY <2>2 DEF Holders
  <2>5. pc' \in [Threads -> Places] /\ wait_mtx_' = {u \in Threads : pc'[u] \in {"signal", "all"}}
    BY <2>1, <2>2 DEF TypeOK, Goto, Places
  <2>6. sem1_' \in Nat /\ sem2_' \in Nat
    BY <1>4, ThreadsAssumption DEF WaitForSem1, ReleaseSem2, Released, TypeOK
  <2> QED
    BY <2>2, <2>3, <2>4, <2>5, <2>6 DEF TypeOK
<1>5. ASSUME NEW t \in Threads,
             CountIn(t) \/ Signal(t) \/ SignalEnd(t) \/ SignalAll(t) \/ SignalAllLoop(t) \/ SignalAllEnd(t)
      PROVE TypeOK'
  <2>1. PICK p \in {"in", "counted", "signal", "all"} : Goto(t, p)
    <3>1. CASE ~SignalAllLoop(t)
      BY <1>5, <3>1 DEF CountIn, Signal, SignalEnd, SignalAll, SignalAllEnd
    <3>2. CASE SignalAllLoop(t)
      <4>1. pc[t] = "all" /\ pc' = [pc EXCEPT ![t] = "all"]
        BY <3>2 DEF SignalAllLoop, TypeOK
      <4> QED
        BY <4>1 DEF Goto
    <3> QED
      BY <3>1, <3>2
  <2>2. pc[t] \in {"in", "signal", "all"} /\ UNCHANGED mu_
    BY <1>5 DEF CountIn, Signal, SignalEnd, SignalAll, SignalAllLoop, SignalAllEnd
  <2>3. Holders = {t} /\ Holders' = {t}
    <3>1. Holders = {t}
      BY <2>2 DEF TypeOK, Holders
    <3> QED
      BY <2>1, <3>1, Moves DEF Places
  <2>4. pc' \in [Threads -> Places]
    BY <2>1 DEF TypeOK, Goto, Places
  <2>5. wait_mtx_' = {u \in Threads : pc'[u] \in {"signal", "all"}}
    <3>1. \A u \in Threads \ {t} : pc[u] \notin {"signal", "all"} /\ pc'[u] \notin {"signal", "all"}
      BY <2>1, <2>3, Moves DEF Holders, Places
    <3>2. pc'[t] = p
      BY <2>1, Moves DEF Places
    <3>3. wait_mtx_' = IF pc'[t] \in {"signal", "all"} THEN {t} ELSE {}
      BY <1>5, <3>1, <3>2, <2>1 DEF TypeOK, CountIn, Signal, SignalEnd, SignalAll, SignalAllLoop, SignalAllEnd, Goto
    <3> QED
      BY <3>1, <3>3
  <2>6. waiting_' \in Nat /\ sem1_' \in Nat /\ sem2_' \in Nat
    BY <1>5, ThreadsAssumption
       DEF TypeOK, CountIn, Signal, SignalEnd, SignalAll, SignalAllLoop, SignalAllEnd, Released
  <2> QED
    BY <2>2, <2>3, <2>4, <2>5, <2>6 DEF TypeOK
<1> QED
  BY <1>1, <1>2, <1>3, <1>4, <1>5 DEF Next, Caller, Inside

\* A thread that joins or leaves those who are counted changes the count by one.
LEMMA CountMoves ==
  ASSUME NEW t \in Threads
  PROVE  /\ Cardinality(Waiters \cup {t}) = IF t \in Waiters THEN Cardinality(Waiters) ELSE Cardinality(Waiters) + 1
         /\ Cardinality(Waiters \ {t}) = IF t \in Waiters THEN Cardinality(Waiters) - 1 ELSE Cardinality(Waiters)
         /\ Cardinality(Shaking \cup {t}) = IF t \in Shaking THEN Cardinality(Shaking) ELSE Cardinality(Shaking) + 1
         /\ Cardinality(Shaking \ {t}) = IF t \in Shaking THEN Cardinality(Shaking) - 1 ELSE Cardinality(Shaking)
  BY Counts, FS_AddElement, FS_RemoveElement, Zenon

\* A thread in a section that mu_ protects is alone there, and if it does not
\* signal nobody does.
LEMMA Alone ==
  ASSUME TypeOK
  PROVE  /\ mu_ = {} => wait_mtx_ = {}
         /\ \A t \in Threads : pc[t] \in {"in", "counted"} => wait_mtx_ = {}
         /\ \A t \in Threads : pc[t] \in {"signal", "all"} =>
              \A u \in Threads : pc[u] \in {"signal", "all"} => u = t
  BY DEF TypeOK, Holders

\* Every action keeps the handshake.
LEMMA HandshakeStep ==
  ASSUME IInv, TypeOK', [Next]_vars
  PROVE  Handshake'
<1> DEFINE W == Cardinality(Waiters)
           S == Cardinality(Shaking)
           Quiet == wait_mtx_ = {} /\ sem1_ = 0 /\ sem2_ = 0 /\ Shaking = {} /\ waiting_ = W
<1> USE DEF IInv
<1>a. TypeOK /\ W \in Nat /\ S \in Nat /\ W <= MaxCount /\ S <= MaxCount /\ MaxCount \in Nat
      /\ (Shaking = {} <=> S = 0)
  BY Counts, ThreadsAssumption
<1>b. wait_mtx_ = {} => Quiet
  BY DEF Handshake
<1>c. Quiet' => Handshake'
  BY DEF Handshake, TypeOK
<1>1. CASE UNCHANGED vars
  BY <1>1 DEF Handshake, vars, Waiters, Shaking
<1>2. ASSUME NEW t \in Threads, Lock(t) \/ Relock(t) \/ Unlock(t) PROVE Handshake'
  <2>1. PICK p \in {"in", "out"} : Goto(t, p)
    BY <1>2 DEF Lock, Relock, Unlock
  <2>2. wait_mtx_ = {} /\ t \notin Waiters \cup Shaking /\ UNCHANGED <<wait_mtx_, waiting_, sem1_, sem2_>>
    BY <1>2, <1>a, Alone DEF Lock, Relock, Unlock, Waiters, Shaking
  <2>3. Waiters' = Waiters /\ Shaking' = Shaking
    <3>1. p \in Places /\ p \notin {"counted", "sleep"} /\ p # "shake"
      BY DEF Places
    <3>2. Waiters' = Waiters \ {t} /\ Shaking' = Shaking \ {t}
      BY <1>a, <2>1, <3>1, Moves
    <3> QED
      BY <2>2, <3>2
  <2> QED
    BY <1>b, <1>c, <2>2, <2>3
<1>3. ASSUME NEW t \in Threads, CountIn(t) PROVE Handshake'
  <2>1. Goto(t, "counted") /\ wait_mtx_ = {} /\ t \notin Waiters \cup Shaking
    BY <1>3 DEF CountIn, Waiters, Shaking
  <2>2. Waiters' = Waiters \cup {t} /\ Shaking' = Shaking
    BY <1>a, <2>1, Moves DEF Places
  <2>3. W' = W + 1
    BY <2>1, <2>2, CountMoves, Zenon
  <2> QED
    BY <1>3, <1>b, <1>c, <2>1, <2>2, <2>3 DEF CountIn
<1>4. ASSUME NEW t \in Threads, UnlockAndSleep(t) PROVE Handshake'
  <2>1. Goto(t, "sleep") /\ wait_mtx_ = {} /\ t \in Waiters \ Shaking /\ UNCHANGED <<wait_mtx_, waiting_, sem1_, sem2_>>
    BY <1>4, <1>a, Alone DEF UnlockAndSleep, Waiters, Shaking
  <2>2. Waiters' = Waiters \cup {t} /\ Shaking' = Shaking \ {t}
    BY <1>a, <2>1, Moves DEF Places
  <2>3. Waiters' = Waiters /\ Shaking' = Shaking
    BY <2>1, <2>2
  <2> QED
    BY <1>b, <1>c, <2>1, <2>3
<1>5. ASSUME NEW t \in Threads, WaitForSem1(t) PROVE Handshake'
  <2>1. /\ Goto(t, "shake") /\ t \in Waiters \ Shaking /\ sem1_ > 0 /\ sem1_' = sem1_ - 1
        /\ UNCHANGED <<mu_, wait_mtx_, waiting_, sem2_>>
    BY <1>5 DEF WaitForSem1, Waiters, Shaking
  <2>2. wait_mtx_ # {}
    BY <1>b, <2>1
  <2>3. W' = W - 1 /\ S' = S + 1
    BY <1>a, <2>1, Moves, CountMoves, Zenon DEF Places
  <2>4. \A u \in Threads : pc'[u] \in {"signal", "all"} => pc[u] = pc'[u]
    BY <1>a, <2>1, Moves DEF Places
  <2> QED
    BY <1>a, <2>1, <2>2, <2>3, <2>4 DEF Handshake, TypeOK
<1>6. ASSUME NEW t \in Threads, ReleaseSem2(t) PROVE Handshake'
  <2>1. /\ Goto(t, "relock") /\ t \in Shaking \ Waiters /\ sem2_' = Released(sem2_, 1)
        /\ UNCHANGED <<mu_, wait_mtx_, waiting_, sem1_>>
    BY <1>6 DEF ReleaseSem2, Waiters, Shaking
  <2>2. wait_mtx_ # {}
    BY <1>b, <2>1
  <2>3. W' = W /\ S' = S - 1 /\ S > 0
    <3>1. Waiters' = Waiters \ {t} /\ Shaking' = Shaking \ {t}
      BY <1>a, <2>1, Moves DEF Places
    <3>2. S # 0
      BY <1>a, <2>1
    <3>3. S' = S - 1
      BY <2>1, <3>1, CountMoves, Zenon
    <3>4. Waiters' = Waiters
      BY <2>1, <3>1
    <3> QED
      BY <1>a, <3>2, <3>3, <3>4
  <2>4. PICK s \in Threads : pc[s] \in {"signal", "all"}
    BY <2>2 DEF TypeOK
  <2>5. sem1_ + S + sem2_ <= MaxCount
    <3>1. CASE pc[s] = "signal"
      BY <1>a, <2>3, <3>1 DEF Handshake
    <3>2. CASE pc[s] = "all"
      BY <1>a, <3>2 DEF Handshake
    <3> QED
      BY <2>4, <3>1, <3>2
  <2>6. sem2_' = sem2_ + 1
    BY <1>a, <2>1, <2>3, <2>5 DEF Released, TypeOK
  <2>7. \A u \in Threads : pc'[u] \in {"signal", "all"} => pc[u] = pc'[u]
    BY <1>a, <2>1, Moves DEF Places
  <2> QED
    BY <1>a, <2>1, <2>2, <2>3, <2>6, <2>7 DEF Handshake, TypeOK
<1>7. ASSUME NEW t \in Threads, Signal(t) \/ SignalAll(t) PROVE Handshake'
  <2>1. PICK p \in {"signal", "all"} : Goto(t, p)
    BY <1>7 DEF Signal, SignalAll
  <2>2. Quiet /\ t \notin Waiters \cup Shaking
    BY <1>7, <1>b DEF Signal, SignalAll, Waiters, Shaking
  <2>3. Waiters' = Waiters /\ Shaking' = Shaking /\ pc'[t] = p
    BY <1>a, <2>1, <2>2, Moves DEF Places
  <2>4. \A u \in Threads : pc'[u] \in {"signal", "all"} => u = t
    <3>1. \A u \in Threads : pc[u] \notin {"signal", "all"}
      BY <1>a, <2>2 DEF TypeOK
    <3> QED
      BY <1>a, <2>1, <3>1, Moves DEF Places
  <2>5. CASE Signal(t)
    <3>1. pc'[t] = "signal" /\ waiting_' = waiting_ - 1 /\ sem1_' = 1 /\ sem2_' = 0 /\ wait_mtx_' = {t}
      BY <1>a, <2>2, <2>5 DEF Signal, Goto, TypeOK, Released
    <3> QED
      BY <1>a, <2>2, <2>3, <2>4, <3>1 DEF Handshake
  <2>6. CASE SignalAll(t)
    <3>1. pc'[t] = "all" /\ waiting_' = waiting_ /\ sem1_' = waiting_ /\ sem2_' = 0 /\ wait_mtx_' = {t}
      BY <1>a, <2>2, <2>6 DEF SignalAll, Goto, TypeOK, Released
    <3> QED
      BY <1>a, <2>2, <2>3, <2>4, <3>1 DEF Handshake
  <2> QED
    BY <1>7, <2>5, <2>6
<1>8. ASSUME NEW t \in Threads, SignalEnd(t) \/ SignalAllEnd(t) PROVE Handshake'
  <2>1. Goto(t, "in") /\ t \notin Waiters \cup Shaking /\ wait_mtx_' = {} /\ UNCHANGED <<waiting_, sem1_>>
    BY <1>8 DEF SignalEnd, SignalAllEnd, Waiters, Shaking
  <2>2. Waiters' = Waiters /\ Shaking' = Shaking
    <3>1. "in" \in Places
      BY DEF Places
    <3>2. Waiters' = Waiters \ {t} /\ Shaking' = Shaking \ {t}
      BY <1>a, <2>1, <3>1, Moves
    <3> QED
      BY <2>1, <3>2
  <2>3. sem1_ = 0 /\ S = 0 /\ sem2_' = 0 /\ waiting_ = W
    <3>1. CASE SignalEnd(t)
      BY <1>a, <3>1 DEF SignalEnd, Handshake, TypeOK
    <3>2. CASE SignalAllEnd(t)
      <4>1. pc[t] = "all" /\ waiting_ = 0 /\ sem2_' = sem2_
        BY <3>2 DEF SignalAllEnd
      <4>2. sem1_ + S + sem2_ = 0 /\ W = sem1_
        BY <4>1 DEF Handshake
      <4> QED
        BY <1>a, <4>1, <4>2 DEF TypeOK
    <3> QED
      BY <1>8, <3>1, <3>2
  <2> QED
    BY <1>a, <1>c, <2>1, <2>2, <2>3
<1>9. ASSUME NEW t \in Threads, SignalAllLoop(t) PROVE Handshake'
  <2>1. pc[t] = "all" /\ UNCHANGED <<pc, mu_, wait_mtx_, sem1_>> /\ waiting_ > 0 /\ sem2_ > 0
        /\ waiting_' = waiting_ - 1 /\ sem2_' = sem2_ - 1
    BY <1>9 DEF SignalAllLoop
  <2>2. Waiters' = Waiters /\ Shaking' = Shaking
    BY <2>1 DEF Waiters, Shaking
  <2>3. \A u \in Threads : pc[u] \in {"signal", "all"} => u = t
    BY <1>a, <2>1, Alone
  <2>4. wait_mtx_ # {}
    BY <1>a, <2>1 DEF TypeOK
  <2> QED
    BY <1>a, <2>1, <2>2, <2>3, <2>4 DEF Handshake, TypeOK
<1> QED
  BY <1>1, <1>2, <1>3, <1>4, <1>5, <1>6, <1>7, <1>8, <1>9 DEF Next, Caller, Inside

\* Types and handshake together are kept by every step.
LEMMA Inductive == IInv /\ [Next]_vars => IInv'
  BY TypeStep, HandshakeStep DEF IInv

\* They hold for a new condition variable, with nobody waiting.
LEMMA Initial == Init => IInv
<1> SUFFICES ASSUME Init PROVE IInv
  OBVIOUS
<1>1. Waiters = {} /\ Shaking = {} /\ Holders = {}
  BY DEF Init, Waiters, Shaking, Holders
<1>2. TypeOK
  BY <1>1 DEF Init, TypeOK, Places
<1>3. Handshake
  BY <1>1, FS_EmptySet DEF Init, Handshake
<1> QED
  BY <1>2, <1>3 DEF IInv

\* Types and handshake hold in every state, whatever the callers do.
THEOREM Invariance == Spec => []IInv
  BY Initial, Inductive, PTL DEF Spec

\* The types and the mutual exclusion of mu_ and wait_mtx_ hold for any number
\* of threads that call Wait(), Signal() and SignalAll().
THEOREM CondVarTypes == Spec => []TypeOK
<1>1. IInv => TypeOK
  BY DEF IInv
<1> QED
  BY <1>1, Invariance, PTL

\* Signal() and SignalAll() leave no wake-up behind, and waiting_ counts those
\* who wait, for any number of threads that a semaphore can count.
THEOREM NothingLeftOver == Spec => []HandshakeIsClean
<1>1. IInv => HandshakeIsClean
  BY DEF IInv, Handshake, HandshakeIsClean
<1> QED
  BY <1>1, Invariance, PTL

\* A step of the condition variable is a step of WakeUps, or changes nothing
\* that its callers rely on.
LEMMA Simulation ==
  ASSUME IInv, IInv', [Next]_vars
  PROVE  [Promise!Next]_<<Waiters, sem1_>>
<1> USE DEF IInv
<1>a. /\ TypeOK /\ Cardinality(Waiters) \in Nat /\ Cardinality(Waiters) <= MaxCount /\ MaxCount \in Nat
      /\ (Waiters = {} <=> Cardinality(Waiters) = 0)
  BY Counts, ThreadsAssumption
<1>1. CASE UNCHANGED vars
  BY <1>1 DEF vars, Waiters
<1>2. ASSUME NEW t \in Threads,
             \/ Lock(t) \/ Relock(t) \/ Unlock(t) \/ UnlockAndSleep(t) \/ ReleaseSem2(t)
             \/ SignalEnd(t) \/ SignalAllLoop(t) \/ SignalAllEnd(t)
      PROVE  UNCHANGED <<Waiters, sem1_>>
  BY <1>2, <1>a DEF TypeOK, Waiters, Goto, Lock, Relock, Unlock, UnlockAndSleep, ReleaseSem2, SignalEnd,
                    SignalAllLoop, SignalAllEnd
<1>3. ASSUME NEW t \in Threads, CountIn(t) PROVE Promise!Wait
  <2>1. Goto(t, "counted") /\ wait_mtx_ = {} /\ t \notin Waiters /\ UNCHANGED sem1_
    BY <1>3 DEF CountIn, Waiters
  <2>2. Waiters' = Waiters \cup {t}
    BY <1>a, <2>1, Moves DEF Places
  <2>3. sem1_ = 0
    BY <2>1 DEF Handshake
  <2> QED
    BY <2>1, <2>2, <2>3 DEF Promise!Wait
<1>4. ASSUME NEW t \in Threads, WaitForSem1(t) PROVE Promise!Wake
  <2>1. Goto(t, "shake") /\ t \in Waiters /\ sem1_ > 0 /\ sem1_' = sem1_ - 1
    BY <1>4 DEF WaitForSem1, Waiters
  <2>2. Waiters' = Waiters \ {t}
    BY <1>a, <2>1, Moves DEF Places
  <2> QED
    BY <2>1, <2>2 DEF Promise!Wake
<1>5. ASSUME NEW t \in Threads, Signal(t) PROVE Promise!Signal
  <2>1. Goto(t, "signal") /\ pc[t] = "in" /\ wait_mtx_ = {} /\ waiting_ > 0 /\ sem1_' = Released(sem1_, 1)
    BY <1>5 DEF Signal
  <2>2. sem1_ = 0 /\ waiting_ = Cardinality(Waiters)
    BY <2>1 DEF Handshake
  <2>3. Waiters' = Waiters \ {t} /\ t \notin Waiters
    BY <1>a, <2>1, Moves DEF Places, Waiters
  <2>4. sem1_' = 1 /\ Waiters # {}
    BY <1>a, <2>1, <2>2 DEF Released
  <2> QED
    BY <2>2, <2>3, <2>4 DEF Promise!Signal
<1>6. ASSUME NEW t \in Threads, SignalAll(t) PROVE Promise!SignalAll \/ UNCHANGED <<Waiters, sem1_>>
  <2>1. Goto(t, "all") /\ pc[t] = "in" /\ wait_mtx_ = {} /\ sem1_' = Released(sem1_, waiting_)
    BY <1>6 DEF SignalAll
  <2>2. sem1_ = 0 /\ waiting_ = Cardinality(Waiters)
    BY <2>1 DEF Handshake
  <2>3. Waiters' = Waiters \ {t} /\ t \notin Waiters
    BY <1>a, <2>1, Moves DEF Places, Waiters
  <2>4. sem1_' = Cardinality(Waiters) /\ Waiters' = Waiters
    BY <1>a, <2>1, <2>2, <2>3 DEF Released
  <2>5. CASE Waiters = {}
    BY <1>a, <2>2, <2>4, <2>5
  <2>6. CASE Waiters # {}
    <3>1. Promise!Cardinality(Waiters) = Cardinality(Waiters)
      BY DEF Promise!Cardinality, Cardinality
    <3> QED
      BY <2>2, <2>4, <2>6, <3>1 DEF Promise!SignalAll
  <2> QED
    BY <2>5, <2>6
<1> QED
  BY <1>1, <1>2, <1>3, <1>4, <1>5, <1>6 DEF Next, Caller, Inside, Promise!Next

\* The condition variable implements WakeUps: Signal() wakes one and SignalAll()
\* all of those who waited when it was called, and nobody else.
THEOREM WakesAsPromised == Spec => KeepsPromise
<1>1. Init => Promise!Init
  BY FS_EmptySet DEF Init, Promise!Init, Waiters
<1>2. IInv /\ IInv' /\ [Next]_vars => [Promise!Next]_<<Waiters, sem1_>>
  BY Simulation
<1> QED
  BY <1>1, <1>2, Invariance, PTL DEF Spec, KeepsPromise, Promise!Spec

=============================================================================
