------------------------------ MODULE CondVar ------------------------------
(***************************************************************************)
(* The condition variable of LevelDB's Windows port, made of a counter and *)
(* two semaphores (src/leveldb/port/port_win.cc).  Every caller holds the  *)
(* mutex mu_ it was made with (db_impl.cc:610, 652, 891, 1222 and 1229     *)
(* signal with mutex_ held).  One action is one call on a semaphore or on  *)
(* a mutex, with the assignments that wait_mtx_ protects.                  *)
(***************************************************************************)
EXTENDS Naturals, FiniteSets

CONSTANTS
  Threads,        \* the threads that use the condition variable
  MaxCount        \* the maximum count of a semaphore, 10000

\* There are not more threads than a semaphore can count.
ASSUME ThreadsAssumption ==
  IsFiniteSet(Threads) /\ MaxCount \in Nat /\ Cardinality(Threads) <= MaxCount

VARIABLES
  pc,             \* place of each thread
  mu_,            \* threads that hold mu_
  wait_mtx_,      \* threads that hold wait_mtx_
  waiting_, sem1_, sem2_

vars == <<pc, mu_, wait_mtx_, waiting_, sem1_, sem2_>>

Places == {"out", "in", "counted", "sleep", "shake", "relock", "signal", "all"}

Init ==
  /\ pc = [t \in Threads |-> "out"]
  /\ mu_ = {} /\ wait_mtx_ = {}
  /\ waiting_ = 0 /\ sem1_ = 0 /\ sem2_ = 0

\* ReleaseSemaphore() fails, and leaves the semaphore alone, if n does not fit;
\* nobody looks at its result.
Released(sem, n) == IF sem + n <= MaxCount THEN sem + n ELSE sem

Goto(t, p) == pc' = [pc EXCEPT ![t] = p]

-----------------------------------------------------------------------------
(* The caller *)

Lock(t) ==
  /\ pc[t] = "out" /\ mu_ = {}
  /\ mu_' = {t} /\ Goto(t, "in")
  /\ UNCHANGED <<wait_mtx_, waiting_, sem1_, sem2_>>

Unlock(t) ==
  /\ pc[t] = "in"
  /\ mu_' = {} /\ Goto(t, "out")
  /\ UNCHANGED <<wait_mtx_, waiting_, sem1_, sem2_>>

-----------------------------------------------------------------------------
(* Wait() *)

CountIn(t) ==
  /\ pc[t] = "in" /\ wait_mtx_ = {}
  /\ waiting_' = waiting_ + 1 /\ Goto(t, "counted")
  /\ UNCHANGED <<mu_, wait_mtx_, sem1_, sem2_>>

UnlockAndSleep(t) ==
  /\ pc[t] = "counted"
  /\ mu_' = {} /\ Goto(t, "sleep")
  /\ UNCHANGED <<wait_mtx_, waiting_, sem1_, sem2_>>

WaitForSem1(t) ==
  /\ pc[t] = "sleep" /\ sem1_ > 0
  /\ sem1_' = sem1_ - 1 /\ Goto(t, "shake")
  /\ UNCHANGED <<mu_, wait_mtx_, waiting_, sem2_>>

\* Mutant: a woken thread does not answer.
NoHandshake(t) ==
  /\ pc[t] = "shake" /\ Goto(t, "relock")
  /\ UNCHANGED <<mu_, wait_mtx_, waiting_, sem1_, sem2_>>

ReleaseSem2(t) ==
  /\ pc[t] = "shake"
  /\ sem2_' = Released(sem2_, 1) /\ Goto(t, "relock")
  /\ UNCHANGED <<mu_, wait_mtx_, waiting_, sem1_>>

Relock(t) ==
  /\ pc[t] = "relock" /\ mu_ = {}
  /\ mu_' = {t} /\ Goto(t, "in")
  /\ UNCHANGED <<wait_mtx_, waiting_, sem1_, sem2_>>

-----------------------------------------------------------------------------
(* Signal() and SignalAll() *)

\* Mutant: Signal() does not wait for the answer.
SignalOneway(t) ==
  /\ pc[t] = "in" /\ wait_mtx_ = {} /\ waiting_ > 0
  /\ waiting_' = waiting_ - 1 /\ sem1_' = Released(sem1_, 1)
  /\ UNCHANGED <<pc, mu_, wait_mtx_, sem2_>>

\* Signal() does nothing when nobody waits.
Signal(t) ==
  /\ pc[t] = "in" /\ wait_mtx_ = {} /\ waiting_ > 0
  /\ wait_mtx_' = {t} /\ waiting_' = waiting_ - 1 /\ sem1_' = Released(sem1_, 1)
  /\ Goto(t, "signal")
  /\ UNCHANGED <<mu_, sem2_>>

SignalEnd(t) ==
  /\ pc[t] = "signal" /\ sem2_ > 0
  /\ sem2_' = sem2_ - 1 /\ wait_mtx_' = {} /\ Goto(t, "in")
  /\ UNCHANGED <<mu_, waiting_, sem1_>>

\* Mutant: SignalAll() wakes one thread.
SignalAllOne(t) ==
  /\ pc[t] = "in" /\ wait_mtx_ = {}
  /\ wait_mtx_' = {t} /\ sem1_' = Released(sem1_, 1)
  /\ Goto(t, "all")
  /\ UNCHANGED <<mu_, waiting_, sem2_>>

SignalAll(t) ==
  /\ pc[t] = "in" /\ wait_mtx_ = {}
  /\ wait_mtx_' = {t} /\ sem1_' = Released(sem1_, waiting_)
  /\ Goto(t, "all")
  /\ UNCHANGED <<mu_, waiting_, sem2_>>

\* One turn of the loop; nobody sees waiting_ between its two statements.
SignalAllLoop(t) ==
  /\ pc[t] = "all" /\ waiting_ > 0 /\ sem2_ > 0
  /\ waiting_' = waiting_ - 1 /\ sem2_' = sem2_ - 1
  /\ UNCHANGED <<pc, mu_, wait_mtx_, sem1_>>

SignalAllEnd(t) ==
  /\ pc[t] = "all" /\ waiting_ = 0
  /\ wait_mtx_' = {} /\ Goto(t, "in")
  /\ UNCHANGED <<mu_, waiting_, sem1_, sem2_>>

-----------------------------------------------------------------------------

Caller(t) == Lock(t) \/ Unlock(t) \/ CountIn(t) \/ Signal(t) \/ SignalAll(t)
Inside(t) ==
  \/ UnlockAndSleep(t) \/ WaitForSem1(t) \/ ReleaseSem2(t)
  \/ SignalEnd(t) \/ SignalAllLoop(t) \/ SignalAllEnd(t)

Next == \E t \in Threads : Caller(t) \/ Inside(t) \/ Relock(t)

Spec == Init /\ [][Next]_vars

\* A thread inside Wait(), Signal() or SignalAll() is scheduled; nothing is
\* assumed of callers, or of who gets mu_.
FairSpec == Spec /\ \A t \in Threads : WF_vars(Inside(t))

-----------------------------------------------------------------------------
(* Properties *)

Waiters == {t \in Threads : pc[t] \in {"counted", "sleep"}}
Shaking == {t \in Threads : pc[t] = "shake"}
Holders == {t \in Threads : pc[t] \in {"in", "counted", "signal", "all"}}

\* Types; who holds which mutex follows from where they are, and mu_ has one
\* holder at most.
TypeOK ==
  /\ pc \in [Threads -> Places]
  /\ mu_ = Holders /\ wait_mtx_ = {t \in Threads : pc[t] \in {"signal", "all"}}
  /\ \A t, u \in Holders : t = u
  /\ waiting_ \in Nat /\ sem1_ \in Nat /\ sem2_ \in Nat

\* Between calls of Signal() and SignalAll() no wake-up is left in a
\* semaphore, where a later waiter could take it, and none is missing: the
\* counter is the number of those who wait.
HandshakeIsClean ==
  wait_mtx_ = {} => sem1_ = 0 /\ sem2_ = 0 /\ Shaking = {} /\ waiting_ = Cardinality(Waiters)

\* Signal() and SignalAll() wake as many as they promised, of those who waited
\* when they were called.
Promise == INSTANCE WakeUps WITH waiters <- Waiters, owed <- sem1_
KeepsPromise == Promise!Spec

\* Signal() and SignalAll() return: they wait for sem2_ with mu_ and wait_mtx_
\* held, which those who are woken need only later.
SignalsReturn == \A t \in Threads : pc[t] \in {"signal", "all"} ~> pc[t] = "in"
=============================================================================
