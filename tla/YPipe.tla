------------------------------- MODULE YPipe -------------------------------
(***************************************************************************)
(* The lock-free pipe of ZeroMQ (src/zmq/ypipe.hpp) with the queue under   *)
(* it (src/zmq/yqueue.hpp): one thread writes, one reads, and they meet in *)
(* two atomic pointers, c and spare_chunk.                                 *)
(*                                                                         *)
(* An item's place is its number since the pipe was made; place p is in    *)
(* element p % N of chunk number p \div N, and chunk gives the memory of   *)
(* the chunks that are linked from begin_chunk to end_chunk.  A pointer to *)
(* an item is its place: the chunks are distinct, and no pointer leaves    *)
(* them (ChunksAreOwned of module Mailbox).                                *)
(***************************************************************************)
EXTENDS Integers, Sequences, Functions

CONSTANTS
  N,            \* items of a chunk
  Chunk,        \* addresses of chunks
  NULL

ASSUME PipeAssumption == N \in Nat \ {0, 1} /\ NULL \notin Nat \cup Chunk

VARIABLES
  front, back,  \* places of the first item and of the terminator
  chunk, spare_chunk,
  heap,         \* the chunks that malloc() gave and free() did not take back
  values,
  w, f, r, c

queue == <<front, back, chunk, spare_chunk, heap, values>>
pointers == <<w, f, r, c>>

\* The pipe after the constructor of mailbox_t has read from it, in vain
InitPipe ==
  /\ front = 0 /\ back = 0
  /\ \E a \in Chunk : chunk = [i \in {0} |-> a] /\ heap = {a}
  /\ spare_chunk = NULL
  /\ values = [a \in Chunk |-> [i \in 0..N - 1 |-> NULL]]
  /\ w = 0 /\ f = 0 /\ r = 0 /\ c = NULL

-----------------------------------------------------------------------------
(* yqueue_t *)

Link(a) == [i \in DOMAIN chunk \cup {(back + 2) \div N} |-> IF i \in DOMAIN chunk THEN chunk[i] ELSE a]

\* Mutant: the spare chunk is used and kept.
PushKeepsSpare ==
  /\ back' = back + 1
  /\ IF (back + 2) % N # 0
     THEN UNCHANGED <<chunk, heap>>
     ELSE \/ /\ spare_chunk # NULL
             /\ chunk' = Link(spare_chunk)
             /\ UNCHANGED heap
          \/ /\ spare_chunk = NULL
             /\ \E a \in Chunk \ heap : chunk' = Link(a) /\ heap' = heap \cup {a}
  /\ UNCHANGED spare_chunk

\* push(): the position after back is the first of a new chunk, or not.
Push ==
  /\ back' = back + 1
  /\ IF (back + 2) % N # 0
     THEN UNCHANGED <<chunk, spare_chunk, heap>>
     ELSE \/ /\ spare_chunk # NULL
             /\ chunk' = Link(spare_chunk) /\ spare_chunk' = NULL
             /\ UNCHANGED heap
          \/ /\ spare_chunk = NULL
             /\ \E a \in Chunk \ heap : chunk' = Link(a) /\ heap' = heap \cup {a}
             /\ UNCHANGED spare_chunk

\* pop(): the chunk that was left becomes the spare one.
Pop ==
  /\ front' = front + 1
  /\ IF (front + 1) % N # 0
     THEN UNCHANGED <<chunk, spare_chunk, heap>>
     ELSE LET n == front \div N IN
          /\ chunk' = Restrict(chunk, DOMAIN chunk \ {n})
          /\ spare_chunk' = chunk[n]
          /\ heap' = heap \ {spare_chunk}

Front == values[chunk[front \div N]][front % N]

-----------------------------------------------------------------------------
(* ypipe_t *)

\* write() of a complete item
Write(v) ==
  /\ values' = [values EXCEPT ![chunk[back \div N]][back % N] = v]
  /\ Push
  /\ f' = back'
  /\ UNCHANGED <<front, w, r, c>>

\* flush() finds the reader awake, or nothing to do.
FlushAwake ==
  /\ w = f \/ c = w
  /\ c' = (IF w = f THEN c ELSE f) /\ w' = f
  /\ UNCHANGED <<queue, f, r>>

\* Its compare-and-swap fails: the reader is asleep.
FlushAsleep == w # f /\ c # w

\* c.set(), which is not atomic
FlushSet ==
  /\ c' = f /\ w' = f
  /\ UNCHANGED <<queue, f, r>>

Prefetched == front # r /\ r # NULL

\* check_read() when it returns ok
CheckRead(ok) ==
  IF Prefetched
  THEN ok /\ UNCHANGED <<queue, pointers>>
  ELSE /\ r' = c /\ c' = (IF c = front THEN NULL ELSE c)
       /\ ok = (r' # front /\ r' # NULL)
       /\ UNCHANGED <<queue, w, f>>
=============================================================================
