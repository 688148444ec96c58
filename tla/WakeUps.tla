------------------------------ MODULE WakeUps ------------------------------
(***************************************************************************)
(* What callers expect of a condition variable                             *)
(* (src/leveldb/port/port_win.h): Signal() owes a wake-up to one of those  *)
(* who wait, SignalAll() to each of them, and whoever comes later gets     *)
(* none of these.                                                          *)
(***************************************************************************)
EXTENDS Naturals, FiniteSets

CONSTANT Threads

VARIABLES
  waiters,        \* threads that wait
  owed            \* wake-ups that were promised and not given

Init == waiters = {} /\ owed = 0

Wait ==
  /\ owed = 0 /\ UNCHANGED owed
  /\ \E t \in Threads \ waiters : waiters' = waiters \cup {t}

Signal == owed = 0 /\ waiters # {} /\ owed' = 1 /\ UNCHANGED waiters

SignalAll == owed = 0 /\ waiters # {} /\ owed' = Cardinality(waiters) /\ UNCHANGED waiters

Wake ==
  /\ owed > 0 /\ owed' = owed - 1
  /\ \E t \in waiters : waiters' = waiters \ {t}

Next == Wait \/ Signal \/ SignalAll \/ Wake

Spec == Init /\ [][Next]_<<waiters, owed>>
=============================================================================
