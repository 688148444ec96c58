--------------------------- MODULE MailboxProofs ---------------------------
(***************************************************************************)
(* For any number of senders, of commands and any size of a chunk: whoever *)
(* was woken finds a command, c is set without a race, no sender is inside *)
(* a mailbox that is destroyed, chunks are handed over exactly, and the    *)
(* commands come out as they went in.                                      *)
(***************************************************************************)
EXTENDS Mailbox, TLAPS

\* The types of what the proof is about; the chunks follow below.
TypeOK ==
  /\ front \in Nat /\ back \in Nat /\ w \in Nat /\ f \in Nat
  /\ r \in Nat \cup {NULL} /\ c \in Nat \cup {NULL}
  /\ pc \in [Sender -> Places] /\ rpc \in ReaderPlaces
  /\ active \in BOOLEAN /\ signals \in Nat

Locked(s) == pc[s] \notin {"idle", "signal"}
Waking(s) == pc[s] \in {"unlockwake", "signal"}

\* The pointers are in the order of the pipe, and a sender that has written but
\* not flushed is between w and f.
Order ==
  /\ front <= w /\ w <= f /\ f = back
  /\ r # NULL => front <= r /\ r <= w
  /\ \A s \in Sender : pc[s] \in {"flush", "set"} => w < f

\* c is NULL when the reader went to sleep on an empty pipe, and w otherwise.
\* Only a reader that sleeps at a pipe that is not empty has a wake-up, on its
\* way or in the signaler, and never a second one.
Tokens ==
  /\ active => c = w /\ signals = 0 /\ \A s \in Sender : ~Waking(s)
  /\ c = NULL => ~active /\ w = front /\ signals = 0 /\ \A s \in Sender : ~Waking(s)
  /\ c # NULL => c = w
  /\ ~active /\ c # NULL =>
       /\ front < w
       /\ signals <= 1
       /\ signals = 1 => \A s \in Sender : ~Waking(s)
       /\ signals = 0 => \E s \in Sender : Waking(s)
       /\ \A s, t \in Sender : Waking(s) /\ Waking(t) => s = t
  /\ \A s \in Sender : pc[s] = "set" => c = NULL

\* Where the reader is
ReaderState ==
  /\ rpc # "aborted"
  /\ rpc \in {"check", "woken", "pop"} => active
  /\ rpc = "wait" => ~active
  /\ rpc = "woken" => front < w
  /\ rpc = "pop" => r # NULL /\ front < r

\* The mutex, and the end
Exclusion ==
  /\ \A s \in Sender : Locked(s) => sync = s
  /\ rpc \in {"unlock", "gone"} => \A s \in Sender : pc[s] = "idle" /\ ~(count[s] < MaxSends)

IInv == TypeOK /\ Order /\ Tokens /\ ReaderState /\ Exclusion

-----------------------------------------------------------------------------
\* What Goto() does to the places of the senders
LEMMA Moves ==
  ASSUME NEW s \in Sender, NEW p \in Places, TypeOK, Goto(s, p)
  PROVE  pc' \in [Sender -> Places] /\ pc'[s] = p /\ \A t \in Sender \ {s} : pc'[t] = pc[t]
BY Zenon DEF Goto, TypeOK

\* The constructor's state
LEMMA InitIInv == Init => IInv
<1> SUFFICES ASSUME Init PROVE IInv
  BY Zenon
<1>0. NULL \notin Nat
  BY PipeAssumption, Zenon
<1>1. /\ front = 0 /\ back = 0 /\ w = 0 /\ f = 0 /\ r = 0 /\ c = NULL
      /\ rpc = "idle" /\ active = FALSE /\ signals = 0
      /\ pc = [s \in Sender |-> "idle"]
  BY Zenon DEF Init, InitPipe
<1>2. TypeOK
  <2>1. pc \in [Sender -> Places]
    BY <1>1, Zenon DEF Places
  <2>2. rpc \in ReaderPlaces
    BY <1>1, Zenon DEF ReaderPlaces
  <2> QED
    BY <1>1, <2>1, <2>2, Zenon DEF TypeOK
<1>3. \A s \in Sender : pc[s] = "idle"
  BY <1>1, Zenon
<1>4. Order
  BY <1>0, <1>1, <1>3 DEF Order
<1>5. Tokens
  BY <1>0, <1>1, <1>3, Zenon DEF Tokens, Waking
<1>6. ReaderState
  BY <1>1, Zenon DEF ReaderState
<1>7. Exclusion
  BY <1>1, <1>3, Zenon DEF Exclusion, Locked
<1> QED
  BY <1>2, <1>4, <1>5, <1>6, <1>7, Zenon DEF IInv

-----------------------------------------------------------------------------
(* The steps of a sender *)

\* send() takes the mutex.
LEMMA LockKeeps ==
  ASSUME IInv, NEW s \in Sender, Lock(s)
  PROVE  IInv'
<1>0. TypeOK /\ Order /\ Tokens /\ ReaderState /\ Exclusion
  BY Zenon DEF IInv
<1>1. /\ pc[s] = "idle" /\ count[s] < MaxSends /\ sync = NULL /\ sync' = s /\ Goto(s, "write")
      /\ UNCHANGED <<front, back, w, f, r, c, count, rpc, active, signals>>
  BY Zenon DEF Lock, queue, pointers
<1>2. pc' \in [Sender -> Places] /\ pc'[s] = "write" /\ \A t \in Sender \ {s} : pc'[t] = pc[t]
  BY <1>0, <1>1, Moves, Zenon DEF Places
<1>3. TypeOK'
  BY <1>0, <1>1, <1>2, Zenon DEF TypeOK
<1>4. Order'
  BY <1>0, <1>1, <1>2, Zenon DEF Order
<1>5. \A t \in Sender : Waking(t)' <=> Waking(t)
  BY <1>1, <1>2, Zenon DEF Waking
<1>6. \A t \in Sender : pc'[t] = "set" => pc[t] = "set"
  BY <1>1, <1>2, Zenon
<1>7. Tokens'
  BY <1>0, <1>1, <1>5, <1>6, Zenon DEF Tokens
<1>8. ReaderState'
  BY <1>0, <1>1, Zenon DEF ReaderState
<1>9. \A t \in Sender \ {s} : ~Locked(t)
  BY <1>0, <1>1, SenderAssumption, Zenon DEF Exclusion
<1>10. \A t \in Sender : Locked(t)' => sync' = t
  BY <1>1, <1>2, <1>9, Zenon DEF Locked
<1>11. rpc' \notin {"unlock", "gone"}
  BY <1>0, <1>1, Zenon DEF Exclusion
<1> QED
  BY <1>3, <1>4, <1>7, <1>8, <1>10, <1>11, Zenon DEF IInv, Exclusion

\* What is left to show for a step inside send(): the mutex is the sender's, so
\* nobody else is inside, and the mailbox is not being destroyed.
LEMMA Inside ==
  ASSUME IInv, NEW s \in Sender, Locked(s)
  PROVE  /\ sync = s /\ \A t \in Sender \ {s} : pc[t] \in {"idle", "signal"}
         /\ rpc \notin {"unlock", "gone"}
<1>1. sync = s
  BY Zenon DEF IInv, Exclusion
<1>2. \A t \in Sender \ {s} : ~Locked(t)
  BY <1>1, Zenon DEF IInv, Exclusion
<1>3. pc[s] # "idle"
  BY Zenon DEF Locked
<1>4. rpc \notin {"unlock", "gone"}
  BY <1>3, Zenon DEF IInv, Exclusion
<1> QED
  BY <1>1, <1>2, <1>4, Zenon DEF Locked

\* And after it
LEMMA StaysInside ==
  ASSUME IInv, NEW s \in Sender, Locked(s), NEW p \in Places, Goto(s, p), UNCHANGED <<sync, rpc>>
  PROVE  Exclusion'
<1>1. pc'[s] = p /\ \A t \in Sender \ {s} : pc'[t] = pc[t]
  BY Moves, Zenon DEF IInv
<1>2. sync = s /\ (\A t \in Sender \ {s} : pc[t] \in {"idle", "signal"}) /\ rpc \notin {"unlock", "gone"}
  BY Inside, Zenon
<1>3. \A t \in Sender : Locked(t)' => sync' = t
  BY <1>1, <1>2, Zenon DEF Locked
<1> QED
  BY <1>2, <1>3, Zenon DEF Exclusion

\* A command is written.
LEMMA WriteCommandKeeps ==
  ASSUME IInv, NEW s \in Sender, WriteCommand(s)
  PROVE  IInv'
<1>0. TypeOK /\ Order /\ Tokens /\ ReaderState
  BY Zenon DEF IInv
<1>1. /\ pc[s] = "write" /\ Goto(s, "flush") /\ f' = back' /\ back' = back + 1
      /\ UNCHANGED <<front, w, r, c, rpc, active, sync, signals>>
  BY Zenon DEF WriteCommand, Write, Push
<1>2. pc' \in [Sender -> Places] /\ pc'[s] = "flush" /\ \A t \in Sender \ {s} : pc'[t] = pc[t]
  BY <1>0, <1>1, Moves, Zenon DEF Places
<1>3. TypeOK'
  <2>1. back' \in Nat /\ f' \in Nat
    BY <1>0, <1>1 DEF TypeOK
  <2> QED
    BY <1>0, <1>1, <1>2, <2>1, Zenon DEF TypeOK
<1>4. Order'
  <2>1. w <= f /\ f = back /\ w \in Nat /\ back \in Nat
    BY <1>0, Zenon DEF Order, TypeOK
  <2>2. w' < f' /\ f' = back'
    BY <1>1, <2>1
  <2>3. front' <= w' /\ (r' # NULL => front' <= r' /\ r' <= w')
    BY <1>0, <1>1, Zenon DEF Order
  <2>4. w' <= f'
    BY <1>1, <2>1
  <2> QED
    BY <2>2, <2>3, <2>4, Zenon DEF Order
<1>5. \A t \in Sender : Waking(t)' <=> Waking(t)
  BY <1>1, <1>2, Zenon DEF Waking
<1>6. \A t \in Sender : pc'[t] = "set" => pc[t] = "set"
  BY <1>1, <1>2, Zenon
<1>7. Tokens'
  BY <1>0, <1>1, <1>5, <1>6, Zenon DEF Tokens
<1>8. ReaderState'
  BY <1>0, <1>1, Zenon DEF ReaderState
<1>9. Exclusion'
  BY <1>1, StaysInside, Zenon DEF Locked, Places
<1> QED
  BY <1>3, <1>4, <1>7, <1>8, <1>9, Zenon DEF IInv

\* flush() finds the reader awake: c moves to f with w.
LEMMA FlushAwakeKeeps ==
  ASSUME IInv, NEW s \in Sender, pc[s] = "flush", FlushAwake, Goto(s, "unlock"),
         UNCHANGED <<rpc, active, sync, signals>>
  PROVE  IInv'
<1>0. TypeOK /\ Order /\ Tokens /\ ReaderState
  BY Zenon DEF IInv
<1>1. w < f
  BY <1>0, Zenon DEF Order
<1>2. w \in Nat /\ f \in Nat /\ w # f /\ front \in Nat /\ front <= w
  BY <1>0, <1>1 DEF TypeOK, Order
<1>3. c = w /\ c' = f /\ w' = f /\ UNCHANGED <<front, back, f, r>>
  BY <1>2, Zenon DEF FlushAwake, queue
<1>4. pc' \in [Sender -> Places] /\ pc'[s] = "unlock" /\ \A t \in Sender \ {s} : pc'[t] = pc[t]
  BY <1>0, Moves, Zenon DEF Places
<1>5. TypeOK'
  BY <1>0, <1>2, <1>3, <1>4, Zenon DEF TypeOK
<1>6. Order'
  <2>1. front' <= w' /\ w' <= f' /\ f' = back'
    BY <1>0, <1>1, <1>2, <1>3 DEF Order
  <2>2. r' # NULL => front' <= r' /\ r' <= w'
    BY <1>0, <1>1, <1>2, <1>3 DEF Order, TypeOK
  <2>3. \A t \in Sender : pc'[t] \notin {"flush", "set"}
    BY <1>4, Inside, Zenon DEF Locked
  <2> QED
    BY <2>1, <2>2, <2>3, Zenon DEF Order
<1>7. \A t \in Sender : (Waking(t)' <=> Waking(t)) /\ pc'[t] # "set"
  BY <1>4, Inside, Zenon DEF Waking, Locked
<1>8. c # NULL /\ c' # NULL /\ front < w'
  BY <1>1, <1>2, <1>3, PipeAssumption
<1>9. Tokens'
  BY <1>0, <1>3, <1>7, <1>8, Zenon DEF Tokens
<1>10. ReaderState'
  BY <1>0, <1>3, <1>8, Zenon DEF ReaderState
<1>11. Exclusion'
  BY StaysInside, Zenon DEF Locked, Places
<1> QED
  BY <1>5, <1>6, <1>9, <1>10, <1>11, Zenon DEF IInv

\* flush() finds the reader asleep, and the pipe as it left it.
LEMMA FlushAsleepKeeps ==
  ASSUME IInv, NEW s \in Sender, pc[s] = "flush", FlushAsleep, Goto(s, "set"),
         UNCHANGED <<front, back, w, f, r, c, rpc, active, sync, signals>>
  PROVE  IInv'
<1>0. TypeOK /\ Order /\ Tokens /\ ReaderState
  BY Zenon DEF IInv
<1>1. w < f
  BY <1>0, Zenon DEF Order
<1>2. pc' \in [Sender -> Places] /\ pc'[s] = "set" /\ \A t \in Sender \ {s} : pc'[t] = pc[t]
  BY <1>0, Moves, Zenon DEF Places
<1>3. TypeOK'
  BY <1>0, <1>2, Zenon DEF TypeOK
<1>4. Order'
  BY <1>0, <1>1, <1>2, Zenon DEF Order
<1>5. \A t \in Sender : Waking(t)' <=> Waking(t)
  BY <1>2, Zenon DEF Waking
<1>6. c' = NULL
  BY <1>0, Zenon DEF FlushAsleep, Tokens
<1>7. Tokens'
  BY <1>0, <1>5, <1>6, Zenon DEF Tokens
<1>8. ReaderState'
  BY <1>0, Zenon DEF ReaderState
<1>9. Exclusion'
  BY StaysInside, Zenon DEF Locked, Places
<1> QED
  BY <1>3, <1>4, <1>7, <1>8, <1>9, Zenon DEF IInv

\* c is set, and the sender has to wake the reader.
LEMMA SetKeeps ==
  ASSUME IInv, NEW s \in Sender, Set(s)
  PROVE  IInv'
<1>0. TypeOK /\ Order /\ Tokens /\ ReaderState
  BY Zenon DEF IInv
<1>1. /\ pc[s] = "set" /\ Goto(s, "unlockwake") /\ c' = f /\ w' = f
      /\ UNCHANGED <<front, back, f, r, rpc, active, sync, signals>>
  BY Zenon DEF Set, FlushSet, queue
<1>2. pc' \in [Sender -> Places] /\ pc'[s] = "unlockwake" /\ \A t \in Sender \ {s} : pc'[t] = pc[t]
  BY <1>0, <1>1, Moves, Zenon DEF Places
<1>3. w < f /\ f \in Nat /\ w \in Nat /\ front \in Nat
  BY <1>0, <1>1, Zenon DEF Order, TypeOK
<1>4. c = NULL /\ ~active /\ w = front /\ signals = 0 /\ \A t \in Sender : ~Waking(t)
  BY <1>0, <1>1, Zenon DEF Tokens
<1>5. TypeOK'
  BY <1>0, <1>1, <1>2, <1>3, Zenon DEF TypeOK
<1>6. Order'
  <2>1. front' <= w' /\ w' <= f' /\ f' = back'
    BY <1>0, <1>1, <1>3, <1>4 DEF Order
  <2>2. r' # NULL => front' <= r' /\ r' <= w'
    BY <1>0, <1>1, <1>3 DEF Order, TypeOK
  <2>3. \A t \in Sender : pc'[t] \notin {"flush", "set"}
    BY <1>1, <1>2, Inside, Zenon DEF Locked
  <2> QED
    BY <2>1, <2>2, <2>3, Zenon DEF Order
<1>7. Waking(s)' /\ \A t \in Sender : Waking(t)' => t = s
  BY <1>2, <1>4, Zenon DEF Waking
<1>8. \A t \in Sender : pc'[t] # "set"
  BY <1>1, <1>2, Inside, Zenon DEF Locked
<1>9. ~active' /\ c' # NULL /\ c' = w' /\ front' < w' /\ signals' = 0
  BY <1>1, <1>3, <1>4, PipeAssumption, Zenon
<1>10. Tokens'
  BY <1>7, <1>8, <1>9 DEF Tokens
<1>11. ReaderState'
  BY <1>0, <1>1, <1>4, Zenon DEF ReaderState
<1>12. Exclusion'
  BY <1>1, StaysInside, Zenon DEF Locked, Places
<1> QED
  BY <1>5, <1>6, <1>10, <1>11, <1>12, Zenon DEF IInv

\* The mutex is released.
LEMMA UnlockKeeps ==
  ASSUME IInv, NEW s \in Sender, Unlock(s)
  PROVE  IInv'
<1>0. TypeOK /\ Order /\ Tokens /\ ReaderState
  BY Zenon DEF IInv
<1>1. /\ UNCHANGED <<front, back, w, f, r, c, rpc, active, signals>> /\ sync' = NULL /\ Locked(s)
      /\ \/ pc[s] = "unlock" /\ Goto(s, "idle")
         \/ pc[s] = "unlockwake" /\ Goto(s, "signal")
  BY Zenon DEF Unlock, queue, pointers, Locked
<1>2. pc' \in [Sender -> Places] /\ pc'[s] \in {"idle", "signal"} /\ \A t \in Sender \ {s} : pc'[t] = pc[t]
  BY <1>0, <1>1, Moves, Zenon DEF Places
<1>3. Waking(s)' <=> Waking(s)
  BY <1>0, <1>1, Moves, Zenon DEF Places, Waking
<1>4. TypeOK'
  BY <1>0, <1>1, <1>2, Zenon DEF TypeOK
<1>5. Order'
  BY <1>0, <1>1, <1>2, Zenon DEF Order
<1>6. \A t \in Sender : (Waking(t)' <=> Waking(t)) /\ (pc'[t] = "set" => pc[t] = "set")
  BY <1>2, <1>3, Zenon DEF Waking
<1>7. Tokens'
  BY <1>0, <1>1, <1>6, Zenon DEF Tokens
<1>8. ReaderState'
  BY <1>0, <1>1, Zenon DEF ReaderState
<1>9. \A t \in Sender : ~Locked(t)'
  BY <1>1, <1>2, Inside, Zenon DEF Locked
<1>10. rpc' \notin {"unlock", "gone"}
  BY <1>1, Inside, Zenon
<1> QED
  BY <1>4, <1>5, <1>7, <1>8, <1>9, <1>10, Zenon DEF IInv, Exclusion

\* The signaler is given the wake-up.
LEMMA SignalKeeps ==
  ASSUME IInv, NEW s \in Sender, Signal(s)
  PROVE  IInv'
<1>0. TypeOK /\ Order /\ Tokens /\ ReaderState /\ Exclusion
  BY Zenon DEF IInv
<1>1. /\ pc[s] = "signal" /\ Goto(s, "idle") /\ signals' = signals + 1
      /\ UNCHANGED <<front, back, w, f, r, c, count, rpc, active, sync>>
  BY Zenon DEF Signal, queue, pointers
<1>2. pc' \in [Sender -> Places] /\ pc'[s] = "idle" /\ \A t \in Sender \ {s} : pc'[t] = pc[t]
  BY <1>0, <1>1, Moves, Zenon DEF Places
<1>3. Waking(s)
  BY <1>1, Zenon DEF Waking
<1>4. ~active /\ c # NULL
  BY <1>0, <1>3, Zenon DEF Tokens
<1>5. front < w /\ signals <= 1 /\ signals # 1 /\ c = w
  BY <1>0, <1>3, <1>4, Zenon DEF Tokens
<1>6. signals = 0
  BY <1>0, <1>5 DEF TypeOK
<1>7. \A t \in Sender \ {s} : ~Waking(t)
  BY <1>0, <1>3, <1>4, Zenon DEF Tokens
<1>8. TypeOK'
  BY <1>0, <1>1, <1>2, <1>6 DEF TypeOK
<1>9. Order'
  BY <1>0, <1>1, <1>2, Zenon DEF Order
<1>10. \A t \in Sender : ~Waking(t)' /\ (pc'[t] = "set" => pc[t] = "set")
  BY <1>2, <1>7, Zenon DEF Waking
<1>11. signals' = 1 /\ ~active' /\ c' # NULL /\ c' = w' /\ front' < w'
  BY <1>1, <1>4, <1>5, <1>6
<1>12. \A t \in Sender : pc'[t] # "set"
  BY <1>0, <1>4, <1>10, Zenon DEF Tokens
<1>13. Tokens'
  BY <1>10, <1>11, <1>12 DEF Tokens
<1>14. ReaderState'
  BY <1>0, <1>1, Zenon DEF ReaderState
<1>15. Exclusion'
  BY <1>0, <1>1, <1>2, Zenon DEF Exclusion, Locked
<1> QED
  BY <1>8, <1>9, <1>13, <1>14, <1>15, Zenon DEF IInv

-----------------------------------------------------------------------------
(* The steps of the reader *)

\* The senders, while the reader goes on and is not about to destroy the mailbox
LEMMA SendersStay ==
  ASSUME IInv, UNCHANGED <<pc, count, sync>>, rpc' \notin {"unlock", "gone"}
  PROVE  /\ pc' \in [Sender -> Places] /\ Exclusion'
         /\ \A s \in Sender : (Waking(s)' <=> Waking(s)) /\ pc'[s] = pc[s]
BY Zenon DEF IInv, TypeOK, Exclusion, Locked, Waking

\* recv() is called.
LEMMA RecvKeeps ==
  ASSUME IInv, Recv
  PROVE  IInv'
<1>0. TypeOK /\ Order /\ Tokens /\ ReaderState
  BY Zenon DEF IInv
<1>1. /\ rpc' = IF active THEN "check" ELSE "wait"
      /\ UNCHANGED <<front, back, w, f, r, c, pc, count, active, sync, signals>>
  BY Zenon DEF Recv, queue, pointers, senderVars
<1>2. rpc' \in {"check", "wait"}
  BY <1>1, Zenon
<1>3. /\ pc' \in [Sender -> Places] /\ Exclusion'
      /\ \A s \in Sender : (Waking(s)' <=> Waking(s)) /\ pc'[s] = pc[s]
  BY <1>1, <1>2, SendersStay, Zenon
<1>4. TypeOK'
  BY <1>0, <1>1, <1>2, Zenon DEF TypeOK, ReaderPlaces
<1>5. Order'
  BY <1>0, <1>1, <1>3, Zenon DEF Order
<1>6. Tokens'
  BY <1>0, <1>1, <1>3, Zenon DEF Tokens
<1>7. ReaderState'
  BY <1>0, <1>1, <1>2, Zenon DEF ReaderState
<1> QED
  BY <1>3, <1>4, <1>5, <1>6, <1>7, Zenon DEF IInv

\* check_read() when it returns TRUE: r is behind a command, and c, which was w,
\* stays.
LEMMA FoundCommand ==
  ASSUME IInv, active, CheckRead(TRUE)
  PROVE  /\ UNCHANGED <<front, back, w, f, c>>
         /\ r' \in Nat /\ r' # NULL /\ front < r' /\ r' <= w
<1>0. TypeOK /\ Order /\ Tokens /\ NULL \notin Nat
  BY PipeAssumption, Zenon DEF IInv
<1>1. c = w /\ w \in Nat /\ front \in Nat /\ front <= w
  BY <1>0, Zenon DEF Tokens, TypeOK, Order
<1>2. CASE Prefetched
  <2>1. UNCHANGED <<front, back, w, f, c, r>>
    BY <1>2, Zenon DEF CheckRead, queue, pointers
  <2>2. r # NULL /\ front # r /\ r \in Nat
    BY <1>0, <1>2, Zenon DEF Prefetched, TypeOK
  <2>3. front <= r /\ r <= w
    BY <1>0, <2>2, Zenon DEF Order
  <2> QED
    BY <1>1, <2>1, <2>2, <2>3
<1>3. CASE ~Prefetched
  <2>1. /\ UNCHANGED <<front, back, w, f>>
        /\ r' = c /\ c' = (IF c = front THEN NULL ELSE c) /\ TRUE = (r' # front /\ r' # NULL)
    BY <1>3, Zenon DEF CheckRead, queue
  <2>2. r' = w /\ w # front /\ c' = c
    BY <1>1, <2>1, Zenon
  <2> QED
    BY <1>0, <1>1, <2>1, <2>2
<1> QED
  BY <1>2, <1>3, Zenon

\* check_read() when it returns FALSE: the pipe is empty, and c is NULL.
LEMMA FoundNothing ==
  ASSUME IInv, active, CheckRead(FALSE)
  PROVE  UNCHANGED <<front, back, w, f>> /\ w = front /\ r' = front /\ c' = NULL
<1>0. TypeOK /\ Tokens /\ NULL \notin Nat
  BY PipeAssumption, Zenon DEF IInv
<1>1. c = w /\ w \in Nat
  BY <1>0, Zenon DEF Tokens, TypeOK
<1>2. ~Prefetched
  BY Zenon DEF CheckRead
<1>3. /\ UNCHANGED <<front, back, w, f>>
      /\ r' = c /\ c' = (IF c = front THEN NULL ELSE c) /\ FALSE = (r' # front /\ r' # NULL)
  BY <1>2, Zenon DEF CheckRead, queue
<1>4. r' = front
  BY <1>0, <1>1, <1>3, Zenon
<1> QED
  BY <1>1, <1>3, <1>4, Zenon

\* The reader finds a command, awake or woken.
LEMMA FoundKeeps ==
  ASSUME IInv, active, CheckRead(TRUE), rpc' = "pop", UNCHANGED <<pc, count, active, sync, signals>>
  PROVE  IInv'
<1>0. TypeOK /\ Order /\ Tokens /\ ReaderState
  BY Zenon DEF IInv
<1>1. UNCHANGED <<front, back, w, f, c>> /\ r' \in Nat /\ r' # NULL /\ front < r' /\ r' <= w
  BY FoundCommand, Zenon
<1>2. /\ pc' \in [Sender -> Places] /\ Exclusion'
      /\ \A s \in Sender : (Waking(s)' <=> Waking(s)) /\ pc'[s] = pc[s]
  BY SendersStay, Zenon
<1>3. TypeOK'
  BY <1>0, <1>1, <1>2, Zenon DEF TypeOK, ReaderPlaces
<1>4. Order'
  <2>1. front' <= r' /\ r' <= w'
    BY <1>0, <1>1 DEF TypeOK
  <2> QED
    BY <1>0, <1>1, <1>2, <2>1, Zenon DEF Order
<1>5. Tokens'
  BY <1>0, <1>1, <1>2, Zenon DEF Tokens
<1>6. ReaderState'
  BY <1>1, Zenon DEF ReaderState
<1> QED
  BY <1>2, <1>3, <1>4, <1>5, <1>6, Zenon DEF IInv

\* read() in the active state
LEMMA CheckKeeps ==
  ASSUME IInv, Check
  PROVE  IInv'
<1>0. TypeOK /\ Order /\ Tokens /\ ReaderState
  BY Zenon DEF IInv
<1>1. active
  BY <1>0, Zenon DEF Check, ReaderState
<1>2. CASE CheckRead(TRUE) /\ rpc' = "pop" /\ UNCHANGED active
  BY <1>1, <1>2, FoundKeeps, Zenon DEF Check, senderVars
<1>3. CASE CheckRead(FALSE) /\ rpc' = "wait" /\ active' = FALSE
  <2>1. UNCHANGED <<front, back, w, f>> /\ w = front /\ r' = front /\ c' = NULL
    BY <1>1, <1>3, FoundNothing, Zenon
  <2>2. UNCHANGED <<pc, count, sync, signals>>
    BY Zenon DEF Check, senderVars
  <2>3. /\ pc' \in [Sender -> Places] /\ Exclusion'
        /\ \A s \in Sender : (Waking(s)' <=> Waking(s)) /\ pc'[s] = pc[s]
    BY <1>3, <2>2, SendersStay, Zenon
  <2>4. TypeOK'
    BY <1>0, <1>3, <2>1, <2>2, <2>3, Zenon DEF TypeOK, ReaderPlaces
  <2>5. Order'
    <3>1. front' <= r' /\ r' <= w'
      BY <1>0, <2>1 DEF TypeOK
    <3> QED
      BY <1>0, <2>1, <2>3, <3>1, Zenon DEF Order
  <2>6. w' = front' /\ signals' = 0 /\ \A s \in Sender : ~Waking(s)'
    BY <1>0, <1>1, <2>1, <2>2, <2>3, Zenon DEF Tokens
  <2>7. Tokens'
    BY <1>3, <2>1, <2>6, Zenon DEF Tokens
  <2>8. ReaderState'
    BY <1>3, Zenon DEF ReaderState
  <2> QED
    BY <2>3, <2>4, <2>5, <2>7, <2>8, Zenon DEF IInv
<1> QED
  BY <1>2, <1>3, Zenon DEF Check

\* A signal wakes the reader, and takes the only wake-up with it.
LEMMA WaitKeeps ==
  ASSUME IInv, Wait
  PROVE  IInv'
<1>0. TypeOK /\ Order /\ Tokens /\ ReaderState
  BY Zenon DEF IInv
<1>1. /\ rpc = "wait" /\ signals > 0 /\ signals' = signals - 1 /\ active' = TRUE /\ rpc' = "woken"
      /\ UNCHANGED <<front, back, w, f, r, c, pc, count, sync>>
  BY Zenon DEF Wait, queue, pointers, senderVars
<1>2. signals \in Nat /\ signals # 0
  BY <1>0, <1>1 DEF TypeOK
<1>3. ~active /\ c # NULL
  BY <1>0, <1>1, <1>2, Zenon DEF ReaderState, Tokens
<1>4. signals <= 1
  BY <1>0, <1>3, Zenon DEF Tokens
<1>5. signals = 1
  BY <1>2, <1>4
<1>6. c = w /\ front < w /\ \A s \in Sender : ~Waking(s)
  BY <1>0, <1>3, <1>5, Zenon DEF Tokens
<1>7. /\ pc' \in [Sender -> Places] /\ Exclusion'
      /\ \A s \in Sender : (Waking(s)' <=> Waking(s)) /\ pc'[s] = pc[s]
  BY <1>1, SendersStay, Zenon
<1>8. signals' = 0
  BY <1>1, <1>5
<1>9. TypeOK'
  BY <1>0, <1>1, <1>7, <1>8 DEF TypeOK, ReaderPlaces
<1>10. Order'
  BY <1>0, <1>1, <1>7, Zenon DEF Order
<1>11. Tokens'
  <2>1. c' = w' /\ c' # NULL
    BY <1>1, <1>3, <1>6, Zenon
  <2>2. \A s \in Sender : ~Waking(s)'
    BY <1>6, <1>7, Zenon
  <2>3. \A s \in Sender : pc'[s] # "set"
    BY <1>0, <1>3, <1>7, Zenon DEF Tokens
  <2> QED
    BY <1>1, <1>8, <2>1, <2>2, <2>3, Zenon DEF Tokens
<1>12. ReaderState'
  BY <1>1, <1>6, Zenon DEF ReaderState
<1> QED
  BY <1>7, <1>9, <1>10, <1>11, <1>12, Zenon DEF IInv

\* The wait ends without a signal.
LEMMA TimeoutKeeps ==
  ASSUME IInv, Timeout
  PROVE  IInv'
<1>0. TypeOK /\ Order /\ Tokens /\ ReaderState
  BY Zenon DEF IInv
<1>1. /\ rpc' = "idle"
      /\ UNCHANGED <<front, back, w, f, r, c, pc, count, active, sync, signals>>
  BY Zenon DEF Timeout, queue, pointers, senderVars
<1>2. /\ pc' \in [Sender -> Places] /\ Exclusion'
      /\ \A s \in Sender : (Waking(s)' <=> Waking(s)) /\ pc'[s] = pc[s]
  BY <1>1, SendersStay, Zenon
<1>3. TypeOK'
  BY <1>0, <1>1, Zenon DEF TypeOK, ReaderPlaces
<1>4. Order'
  BY <1>0, <1>1, <1>2, Zenon DEF Order
<1>5. Tokens'
  BY <1>0, <1>1, <1>2, Zenon DEF Tokens
<1>6. ReaderState'
  BY <1>1, Zenon DEF ReaderState
<1> QED
  BY <1>2, <1>3, <1>4, <1>5, <1>6, Zenon DEF IInv

\* read() after a wake-up
LEMMA CheckWokenKeeps ==
  ASSUME IInv, CheckWoken
  PROVE  IInv'
<1>1. active /\ front < w /\ front \in Nat /\ w \in Nat
  BY Zenon DEF CheckWoken, IInv, ReaderState, TypeOK
<1>2. UNCHANGED <<pc, count, active, sync, signals>>
  BY Zenon DEF CheckWoken, senderVars
<1>3. ASSUME CheckRead(FALSE) PROVE FALSE
  <2>1. w = front
    BY <1>1, <1>3, FoundNothing, Zenon
  <2> QED
    BY <1>1, <2>1
<1>4. CheckRead(TRUE) /\ rpc' = "pop"
  BY <1>3, Zenon DEF CheckWoken
<1> QED
  BY <1>1, <1>2, <1>4, FoundKeeps, Zenon

\* A command is taken out.
LEMMA PopCommandKeeps ==
  ASSUME IInv, PopCommand
  PROVE  IInv'
<1>0. TypeOK /\ Order /\ Tokens /\ ReaderState
  BY Zenon DEF IInv
<1>1. /\ rpc = "pop" /\ rpc' = "idle" /\ front' = front + 1
      /\ UNCHANGED <<back, w, f, r, c, pc, count, active, sync, signals>>
  BY Zenon DEF PopCommand, Pop, pointers, senderVars
<1>2. active /\ r # NULL /\ front < r
  BY <1>0, <1>1, Zenon DEF ReaderState
<1>3. front \in Nat /\ r \in Nat /\ w \in Nat /\ r <= w
  BY <1>0, <1>2, Zenon DEF TypeOK, Order
<1>4. /\ pc' \in [Sender -> Places] /\ Exclusion'
      /\ \A s \in Sender : (Waking(s)' <=> Waking(s)) /\ pc'[s] = pc[s]
  BY <1>1, SendersStay, Zenon
<1>5. TypeOK'
  <2>1. front' \in Nat
    BY <1>1, <1>3
  <2> QED
    BY <1>0, <1>1, <2>1, Zenon DEF TypeOK, ReaderPlaces
<1>6. Order'
  <2>1. front' <= r' /\ front' <= w' /\ r' <= w'
    BY <1>1, <1>2, <1>3
  <2> QED
    BY <1>0, <1>1, <1>4, <2>1, Zenon DEF Order
<1>7. Tokens'
  <2>1. active' /\ c' = w' /\ signals' = 0 /\ c' # NULL
    BY <1>0, <1>1, <1>2, <1>3, PipeAssumption, Zenon DEF Tokens
  <2>2. \A s \in Sender : ~Waking(s)'
    BY <1>0, <1>2, <1>4, Zenon DEF Tokens
  <2>3. \A s \in Sender : pc'[s] # "set"
    BY <1>0, <1>1, <1>4, <2>1, Zenon DEF Tokens
  <2> QED
    BY <2>1, <2>2, <2>3, Zenon DEF Tokens
<1>8. ReaderState'
  BY <1>1, Zenon DEF ReaderState
<1> QED
  BY <1>4, <1>5, <1>6, <1>7, <1>8, Zenon DEF IInv

\* The destructor takes the mutex.  The reader has every command, so a wake-up
\* cannot be on its way, and nobody is inside send().
LEMMA DestroyLockKeeps ==
  ASSUME IInv, DestroyLock
  PROVE  IInv'
<1>0. TypeOK /\ Order /\ Tokens /\ ReaderState /\ Exclusion
  BY Zenon DEF IInv
<1>1. /\ front = back /\ (\A s \in Sender : count[s] = MaxSends) /\ sync = NULL
      /\ sync' = Reader /\ rpc' = "unlock"
      /\ UNCHANGED <<front, back, w, f, r, c, pc, count, active, signals>>
  BY Zenon DEF DestroyLock, queue, pointers, senderVars
<1>2. front <= w /\ w <= back /\ front \in Nat /\ w \in Nat /\ back \in Nat
  BY <1>0, Zenon DEF Order, TypeOK
<1>3. w = front
  BY <1>1, <1>2
<1>4. \A s \in Sender : ~Waking(s)
  BY <1>0, <1>2, <1>3 DEF Tokens
<1>5. \A s \in Sender : ~Locked(s)
  BY <1>0, <1>1, SenderAssumption, Zenon DEF Exclusion
<1>6. \A s \in Sender : pc[s] = "idle"
  BY <1>4, <1>5, Zenon DEF Locked, Waking
<1>7. MaxSends \in Nat /\ \A s \in Sender : ~(count[s] < MaxSends)
  BY <1>1, SenderAssumption
<1>8. TypeOK'
  BY <1>0, <1>1, Zenon DEF TypeOK, ReaderPlaces
<1>9. Order'
  BY <1>0, <1>1, Zenon DEF Order
<1>10. Tokens'
  BY <1>0, <1>1, Zenon DEF Tokens, Waking
<1>11. ReaderState'
  BY <1>1, Zenon DEF ReaderState
<1>12. Exclusion'
  BY <1>1, <1>6, <1>7, Zenon DEF Exclusion, Locked
<1> QED
  BY <1>8, <1>9, <1>10, <1>11, <1>12, Zenon DEF IInv

\* The destructor goes on.
LEMMA DestroyEndKeeps ==
  ASSUME IInv, DestroyEnd
  PROVE  IInv'
<1>0. TypeOK /\ Order /\ Tokens /\ ReaderState /\ Exclusion
  BY Zenon DEF IInv
<1>1. /\ rpc = "unlock" /\ rpc' = "gone"
      /\ UNCHANGED <<front, back, w, f, r, c, pc, count, active, signals>>
  BY Zenon DEF DestroyEnd, queue, pointers, senderVars
<1>2. \A s \in Sender : pc[s] = "idle" /\ ~(count[s] < MaxSends)
  BY <1>0, <1>1, Zenon DEF Exclusion
<1>3. TypeOK'
  BY <1>0, <1>1, Zenon DEF TypeOK, ReaderPlaces
<1>4. Order'
  BY <1>0, <1>1, Zenon DEF Order
<1>5. Tokens'
  BY <1>0, <1>1, Zenon DEF Tokens, Waking
<1>6. ReaderState'
  BY <1>1, Zenon DEF ReaderState
<1>7. Exclusion'
  BY <1>1, <1>2, Zenon DEF Exclusion, Locked
<1> QED
  BY <1>3, <1>4, <1>5, <1>6, <1>7, Zenon DEF IInv

-----------------------------------------------------------------------------
\* Every step keeps the invariant.
LEMMA NextKeeps == IInv /\ [Next]_vars => IInv'
<1> SUFFICES ASSUME IInv, [Next]_vars PROVE IInv'
  BY Zenon
<1>1. CASE UNCHANGED vars
  BY <1>1, Zenon DEF vars, queue, pointers, IInv, TypeOK, Order, Tokens, ReaderState, Exclusion, Locked, Waking
<1>2. CASE \E s \in Sender : Lock(s) \/ Send(s)
  <2>1. PICK s \in Sender : Lock(s) \/ Send(s)
    BY <1>2, Zenon
  <2>2. CASE Flush(s)
    <3>1. pc[s] = "flush" /\ UNCHANGED <<rpc, active, sync, signals>>
      BY <2>2, Zenon DEF Flush
    <3>2. CASE FlushAwake /\ Goto(s, "unlock")
      BY <3>1, <3>2, FlushAwakeKeeps, Zenon
    <3>3. CASE FlushAsleep /\ Goto(s, "set") /\ UNCHANGED <<queue, pointers>>
      BY <3>1, <3>3, FlushAsleepKeeps, Zenon DEF queue, pointers
    <3> QED
      BY <2>2, <3>2, <3>3, Zenon DEF Flush
  <2> QED
    BY <2>1, <2>2, LockKeeps, WriteCommandKeeps, SetKeeps, UnlockKeeps, SignalKeeps, Zenon DEF Send
<1>3. CASE Read
  BY <1>3, RecvKeeps, CheckKeeps, CheckWokenKeeps, PopCommandKeeps, DestroyEndKeeps, Zenon DEF Read
<1> QED
  BY <1>1, <1>2, <1>3, WaitKeeps, TimeoutKeeps, DestroyLockKeeps, Zenon DEF Next

\* The invariant holds of every behaviour.
THEOREM Invariance == Spec => []IInv
BY InitIInv, NextKeeps, PTL DEF Spec

\* The zmq_assert (ok) after a wake-up holds: mailbox_t::recv() never finds the
\* pipe empty then.
THEOREM WokenTheorem == Spec => []WokenHasCommand
<1>1. IInv => WokenHasCommand
  BY Zenon DEF IInv, ReaderState, WokenHasCommand
<1> QED
  BY <1>1, Invariance, PTL

\* flush() sets c only while the reader sleeps and will not look at it.
THEOREM SetTheorem == Spec => []SetIsAlone
<1>1. IInv => SetIsAlone
  <2> SUFFICES ASSUME IInv, NEW s \in Sender, pc[s] = "set"
               PROVE  ~active /\ rpc \in {"idle", "wait"}
    BY Zenon DEF SetIsAlone
  <2>1. ~active
    BY Zenon DEF IInv, Tokens
  <2>2. rpc \notin {"check", "woken", "pop", "aborted"}
    BY <2>1, Zenon DEF IInv, ReaderState
  <2>3. rpc \notin {"unlock", "gone"}
    BY Zenon DEF IInv, Exclusion
  <2> QED
    BY <2>1, <2>2, <2>3, Zenon DEF IInv, TypeOK, ReaderPlaces
<1> QED
  BY <1>1, Invariance, PTL

\* The destructor leaves no sender behind, in signaler.send() neither.
THEOREM DestroyTheorem == Spec => []NoSenderInside
<1>1. IInv => NoSenderInside
  BY Zenon DEF IInv, Exclusion, NoSenderInside
<1> QED
  BY <1>1, Invariance, PTL

-----------------------------------------------------------------------------
(* Places and chunks: quotients and remainders by N *)

LEMMA Grow ==
  ASSUME NEW n \in Nat \ {0}, NEW a \in Int, NEW b \in Int, a < b
  PROVE  n * a + n <= n * b
<1>1. PICK d \in Nat : b = a + 1 + d
  <2>1. b - a - 1 \in Nat /\ b = a + 1 + (b - a - 1)
    OBVIOUS
  <2> QED
    BY <2>1, Zenon
<1>2. n * b = n * a + n + n * d
  BY <1>1
<1>3. n * d >= 0
  BY <1>1
<1> QED
  BY <1>2, <1>3

\* A place is in one chunk, at one position of it.
LEMMA DivMod ==
  ASSUME NEW n \in Nat \ {0}, NEW p \in Nat
  PROVE  p \div n \in Nat /\ p % n \in 0 .. n - 1 /\ p = n * (p \div n) + (p % n)
OBVIOUS

LEMMA OneQuotient ==
  ASSUME NEW n \in Nat \ {0}, NEW a \in Int, NEW b \in Int,
         NEW x \in 0 .. n - 1, NEW y \in 0 .. n - 1, n * a + x = n * b + y
  PROVE  a = b /\ x = y
<1>0. n * a \in Int /\ n * b \in Int
  OBVIOUS
<1>1. ~(a < b)
  <2> SUFFICES ASSUME a < b PROVE FALSE
    BY Zenon
  <2>1. n * a + n <= n * b
    BY Grow, Zenon
  <2> QED
    BY <1>0, <2>1
<1>2. ~(b < a)
  <2> SUFFICES ASSUME b < a PROVE FALSE
    BY Zenon
  <2>1. n * b + n <= n * a
    BY Grow, Zenon
  <2> QED
    BY <1>0, <2>1
<1> QED
  BY <1>0, <1>1, <1>2

\* The next place is in the same chunk, or the first of the next one.
LEMMA NextPlace ==
  ASSUME NEW n \in Nat \ {0}, NEW p \in Nat
  PROVE  /\ (p + 1) % n # 0 => (p + 1) \div n = p \div n
         /\ (p + 1) % n = 0 => (p + 1) \div n = p \div n + 1
<1>1. PICK a \in Nat, x \in 0 .. n - 1 : a = p \div n /\ x = p % n /\ p = n * a + x
  BY DivMod, Zenon
<1>2. PICK b \in Nat, y \in 0 .. n - 1 : b = (p + 1) \div n /\ y = (p + 1) % n /\ p + 1 = n * b + y
  <2>1. p + 1 \in Nat
    OBVIOUS
  <2> QED
    BY <2>1, DivMod, Zenon
<1>3. n * a \in Int /\ n * b \in Int
  OBVIOUS
<1>4. CASE x = n - 1
  <2>1. n * (a + 1) = n * a + n
    OBVIOUS
  <2>2. n * (a + 1) + 0 = n * b + y
    BY <1>1, <1>2, <1>3, <1>4, <2>1
  <2>3. a + 1 \in Int /\ b \in Int /\ 0 \in 0 .. n - 1
    OBVIOUS
  <2>4. a + 1 = b /\ 0 = y
    BY <2>2, <2>3, OneQuotient, Zenon
  <2> QED
    BY <1>1, <1>2, <2>4, Zenon
<1>5. CASE x # n - 1
  <2>1. x + 1 \in 0 .. n - 1 /\ n * a + (x + 1) = n * b + y
    BY <1>1, <1>2, <1>3, <1>5
  <2>2. a = b /\ x + 1 = y
    BY <2>1, OneQuotient
  <2> QED
    BY <1>1, <1>2, <2>2
<1> QED
  BY <1>4, <1>5, Zenon

LEMMA Monotone ==
  ASSUME NEW n \in Nat \ {0}, NEW p \in Nat, NEW q \in Nat, p <= q
  PROVE  p \div n <= q \div n
<1>1. PICK a \in Nat, x \in 0 .. n - 1 : a = p \div n /\ p = n * a + x
  BY DivMod, Zenon
<1>2. PICK b \in Nat, y \in 0 .. n - 1 : b = q \div n /\ q = n * b + y
  BY DivMod, Zenon
<1>3. ~(b < a)
  <2> SUFFICES ASSUME b < a PROVE FALSE
    BY Zenon
  <2>1. n * b + n <= n * a
    BY Grow
  <2>2. n * a \in Int /\ n * b \in Int
    OBVIOUS
  <2> QED
    BY <1>1, <1>2, <2>1, <2>2
<1> QED
  BY <1>1, <1>2, <1>3

\* Two places of one chunk are at two positions.
LEMMA Distinct ==
  ASSUME NEW n \in Nat \ {0}, NEW p \in Nat, NEW q \in Nat, p # q, p \div n = q \div n
  PROVE  p % n # q % n
<1>1. /\ p \div n \in Nat /\ p = n * (p \div n) + (p % n)
      /\ q = n * (q \div n) + (q % n)
  BY DivMod, Zenon
<1> QED
  BY <1>1, Zenon

-----------------------------------------------------------------------------
(* The chunks and what is in them *)

\* The linked chunks are those of the places from front to the one after back, all
\* distinct; the heap holds them and the spare one.
Owned ==
  /\ chunk \in [front \div N .. (back + 1) \div N -> Chunk]
  /\ IsInjective(chunk) /\ spare_chunk \notin Range(chunk) /\ spare_chunk \in Chunk \cup {NULL}
  /\ heap = Range(chunk) \cup ({spare_chunk} \ {NULL})

Command == Sender \X (0 .. MaxSends - 1)

\* The places from front to back hold the commands that were sent and not received.
Contents ==
  /\ values \in [Chunk -> [0 .. N - 1 -> Command \cup {NULL}]]
  /\ count \in [Sender -> 0..MaxSends] /\ \A s \in Sender : pc[s] = "write" => count[s] < MaxSends
  /\ sent \in Seq(Command) /\ received \in Seq(Command)
  /\ Len(sent) = back /\ Len(received) = front
  /\ \A p \in front .. back - 1 : values[chunk[p \div N]][p % N] = sent[p + 1]

\* push() links the spare chunk or a new one, and moves none that is linked.
LEMMA PushOwned ==
  ASSUME Owned, front \in Nat, back \in Nat, front <= back, Push, front' = front
  PROVE  Owned' /\ \A i \in DOMAIN chunk : chunk'[i] = chunk[i]
<1>1. N \in Nat \ {0} /\ NULL \notin Chunk
  BY PipeAssumption, Zenon
<1>2. PICK lo \in Nat, hi \in Nat : lo = front \div N /\ hi = (back + 1) \div N /\ lo <= hi
  <2>1. back + 1 \in Nat /\ front <= back + 1
    OBVIOUS
  <2> QED
    BY <1>1, <2>1, DivMod, Monotone, Zenon
<1>3. back' = back + 1 /\ back + 1 + 1 = back + 2 /\ back + 1 \in Nat
  BY DEF Push
<1>4. DOMAIN chunk = lo..hi /\ chunk \in [lo..hi -> Chunk]
  BY <1>2, Zenon DEF Owned
<1>5. CASE (back + 2) % N # 0
  <2>1. (back' + 1) \div N = hi
    BY <1>1, <1>2, <1>3, <1>5, NextPlace, Zenon
  <2>2. UNCHANGED <<chunk, spare_chunk, heap>>
    BY <1>5, Zenon DEF Push
  <2> QED
    BY <1>2, <2>1, <2>2, Zenon DEF Owned
<1>6. CASE (back + 2) % N = 0
  <2>1. (back + 2) \div N = hi + 1 /\ (back' + 1) \div N = hi + 1
    BY <1>1, <1>2, <1>3, <1>6, NextPlace, Zenon
  <2>2. PICK a \in Chunk : /\ chunk' = Link(a) /\ spare_chunk' = NULL
                           /\ a \notin Range(chunk) /\ heap' = Range(chunk) \cup {a}
    <3>1. CASE spare_chunk # NULL /\ chunk' = Link(spare_chunk) /\ spare_chunk' = NULL /\ heap' = heap
      <4>1. spare_chunk \in Chunk /\ spare_chunk \notin Range(chunk) /\ heap' = Range(chunk) \cup {spare_chunk}
        BY <3>1, Zenon DEF Owned
      <4> QED
        BY <3>1, <4>1, Zenon
    <3>2. ASSUME NEW a \in Chunk \ heap, spare_chunk = NULL, chunk' = Link(a), heap' = heap \cup {a},
                 spare_chunk' = spare_chunk
          PROVE  /\ chunk' = Link(a) /\ spare_chunk' = NULL
                 /\ a \notin Range(chunk) /\ heap' = Range(chunk) \cup {a}
      BY <3>2, Zenon DEF Owned
    <3> QED
      BY <1>6, <3>1, <3>2, Zenon DEF Push
  <2>3. chunk' = [i \in lo..hi \cup {hi + 1} |-> IF i \in lo..hi THEN chunk[i] ELSE a]
    BY <1>4, <2>1, <2>2, Zenon DEF Link
  <2>4. lo..hi \cup {hi + 1} = lo .. hi + 1 /\ hi + 1 \notin lo..hi
    BY <1>2
  <2>5. /\ chunk' \in [lo .. hi + 1 -> Chunk] /\ chunk'[hi + 1] = a
        /\ \A i \in lo..hi : chunk'[i] = chunk[i]
    BY <1>4, <2>2, <2>3, <2>4, Zenon
  <2>6. \A i \in lo..hi : chunk[i] # a
    BY <1>4, <2>2, Zenon DEF Range
  <2>7. IsInjective(chunk')
    <3>1. \A i, j \in lo..hi : chunk[i] = chunk[j] => i = j
      BY <1>4, Zenon DEF Owned, IsInjective
    <3>2. \A i, j \in lo .. hi + 1 : chunk'[i] = chunk'[j] => i = j
      BY <2>4, <2>5, <2>6, <3>1, Zenon
    <3> QED
      BY <2>5, <3>2, Zenon DEF IsInjective
  <2>8. Range(chunk') = Range(chunk) \cup {a}
    BY <1>4, <2>4, <2>5, Zenon DEF Range
  <2>9. NULL \notin Range(chunk')
    BY <1>1, <2>5, Zenon DEF Range
  <2>10. Owned'
    BY <1>2, <2>1, <2>2, <2>5, <2>7, <2>8, <2>9, Zenon DEF Owned
  <2> QED
    BY <1>4, <2>5, <2>10, Zenon
<1> QED
  BY <1>5, <1>6, Zenon

\* pop() unlinks the chunk it leaves, which takes the place of the spare one.
LEMMA PopOwned ==
  ASSUME Owned, front \in Nat, back \in Nat, front < back, Pop, back' = back
  PROVE  Owned' /\ \A i \in DOMAIN chunk' : i \in DOMAIN chunk /\ chunk'[i] = chunk[i]
<1>1. N \in Nat \ {0} /\ NULL \notin Chunk
  BY PipeAssumption, Zenon
<1>2. PICK lo \in Nat, hi \in Nat : lo = front \div N /\ hi = (back + 1) \div N
  <2>1. back + 1 \in Nat
    OBVIOUS
  <2> QED
    BY <1>1, <2>1, DivMod, Zenon
<1>3. DOMAIN chunk = lo..hi /\ chunk \in [lo..hi -> Chunk] /\ front' = front + 1
  BY <1>2, Zenon DEF Owned, Pop
<1>4. CASE (front + 1) % N # 0
  <2>1. (front + 1) \div N = lo
    BY <1>1, <1>2, <1>4, NextPlace, Zenon
  <2>2. UNCHANGED <<chunk, spare_chunk, heap>>
    BY <1>4, Zenon DEF Pop
  <2> QED
    BY <1>2, <1>3, <2>1, <2>2, Zenon DEF Owned
<1>5. CASE (front + 1) % N = 0
  <2>1. (front + 1) \div N = lo + 1
    BY <1>1, <1>2, <1>5, NextPlace, Zenon
  <2>2. lo + 1 <= hi
    <3>1. front + 1 \in Nat /\ back + 1 \in Nat /\ front + 1 <= back + 1
      OBVIOUS
    <3>2. (front + 1) \div N <= (back + 1) \div N
      BY <1>1, <3>1, Monotone, Zenon
    <3> QED
      BY <1>2, <2>1, <3>2, Zenon
  <2>3. (lo..hi) \ {lo} = lo + 1 .. hi /\ lo \in lo..hi
    BY <1>2, <2>2
  <2>4. /\ chunk' = Restrict(chunk, lo + 1 .. hi) /\ spare_chunk' = chunk[lo]
        /\ heap' = heap \ {spare_chunk}
    BY <1>2, <1>3, <1>5, <2>3, Zenon DEF Pop
  <2>5. chunk' = [i \in lo + 1 .. hi |-> chunk[i]]
    BY <2>4, Zenon DEF Restrict
  <2>6. chunk' \in [lo + 1 .. hi -> Chunk]
    BY <1>3, <2>3, <2>5, Zenon
  <2>7. \A i, j \in lo..hi : chunk[i] = chunk[j] => i = j
    BY <1>3, Zenon DEF Owned, IsInjective
  <2>8. IsInjective(chunk')
    BY <2>3, <2>5, <2>7, Zenon DEF IsInjective
  <2>9. chunk[lo] \notin Range(chunk')
    <3>1. \A i \in lo + 1 .. hi : i # lo /\ i \in lo..hi /\ chunk'[i] = chunk[i]
      BY <2>3, <2>5, Zenon
    <3> QED
      BY <2>3, <2>5, <2>7, <3>1, Zenon DEF Range
  <2>10. Range(chunk) = Range(chunk') \cup {chunk[lo]}
    BY <1>3, <2>3, <2>5, Zenon DEF Range
  <2>11. heap' = Range(chunk)
    BY <1>1, <2>4, Zenon DEF Owned
  <2>12. spare_chunk' \in Chunk /\ spare_chunk' # NULL
    BY <1>1, <1>3, <2>3, <2>4, Zenon
  <2>13. Owned'
    BY <1>2, <1>3, <2>1, <2>4, <2>6, <2>8, <2>9, <2>10, <2>11, <2>12, Zenon DEF Owned
  <2> QED
    BY <1>3, <2>3, <2>5, <2>13, Zenon
<1> QED
  BY <1>4, <1>5, Zenon

\* A command is written to the place at back, which holds nothing that is still to
\* be read.
LEMMA WriteContents ==
  ASSUME IInv, Owned, Contents, NEW s \in Sender, WriteCommand(s)
  PROVE  /\ Owned' /\ Contents'
         /\ \E m \in Command : sent' = Append(sent, m) /\ received' = received
<1>1. /\ front \in Nat /\ back \in Nat /\ front <= back /\ pc \in [Sender -> Places]
      /\ N \in Nat \ {0} /\ MaxSends \in Nat
  <2>1. front \in Nat /\ back \in Nat /\ w \in Nat /\ pc \in [Sender -> Places]
    BY Zenon DEF IInv, TypeOK
  <2>2. front <= w /\ w <= back
    BY Zenon DEF IInv, Order
  <2> QED
    BY <2>1, <2>2, PipeAssumption, SenderAssumption
<1> DEFINE cmd == <<s, count[s]>>
<1>2. /\ pc[s] = "write" /\ Push /\ front' = front /\ back' = back + 1 /\ received' = received
      /\ values' = [values EXCEPT ![chunk[back \div N]][back % N] = cmd]
      /\ sent' = Append(sent, cmd) /\ count' = [count EXCEPT ![s] = @ + 1] /\ Goto(s, "flush")
  BY Zenon DEF WriteCommand, Write, Push
<1>3. cmd \in Command
  <2>1. count[s] \in 0..MaxSends /\ count[s] < MaxSends
    BY <1>2, Zenon DEF Contents
  <2>2. count[s] \in 0 .. MaxSends - 1
    BY <1>1, <2>1
  <2> QED
    BY <2>2, Zenon DEF Command
<1> HIDE DEF cmd
<1>4. Owned' /\ \A i \in DOMAIN chunk : chunk'[i] = chunk[i]
  BY <1>1, <1>2, PushOwned, Zenon
<1>5. \A p \in front..back : p \div N \in DOMAIN chunk /\ p \in Nat /\ p % N \in 0 .. N - 1
  <2> SUFFICES ASSUME NEW p \in front..back
               PROVE  p \div N \in DOMAIN chunk /\ p \in Nat /\ p % N \in 0 .. N - 1
    BY Zenon
  <2>1. p \in Nat /\ back + 1 \in Nat /\ front <= p /\ p <= back + 1
    BY <1>1
  <2>2. front \div N <= p \div N /\ p \div N <= (back + 1) \div N
    BY <1>1, <2>1, Monotone, Zenon
  <2>3. p \div N \in Nat /\ p % N \in 0 .. N - 1 /\ front \div N \in Nat /\ (back + 1) \div N \in Nat
    BY <1>1, <2>1, DivMod, Zenon
  <2>4. DOMAIN chunk = front \div N .. (back + 1) \div N
    BY Zenon DEF Owned
  <2> QED
    BY <2>1, <2>2, <2>3, <2>4
<1>6. back \in front..back /\ \A p \in front .. back - 1 : p \in front..back /\ p # back
  BY <1>1
<1>7. PICK a \in Chunk, i \in 0 .. N - 1 : a = chunk[back \div N] /\ i = back % N
  BY <1>5, <1>6, Zenon DEF Owned
<1>8. /\ values' \in [Chunk -> [0 .. N - 1 -> Command \cup {NULL}]]
      /\ values'[a][i] = cmd
      /\ \A b \in Chunk, j \in 0 .. N - 1 : b # a \/ j # i => values'[b][j] = values[b][j]
  <2>1. values \in [Chunk -> [0 .. N - 1 -> Command \cup {NULL}]]
    BY Zenon DEF Contents
  <2> QED
    BY <1>2, <1>3, <1>7, <2>1, Zenon
<1>9. ASSUME NEW p \in front' .. back' - 1
      PROVE  values'[chunk'[p \div N]][p % N] = sent'[p + 1]
  <2>0. sent \in Seq(Command) /\ Len(sent) = back
    BY Zenon DEF Contents
  <2>1. CASE p = back
    <3>1. sent'[p + 1] = cmd
      BY <1>1, <1>2, <2>0, <2>1
    <3> QED
      BY <1>4, <1>5, <1>6, <1>7, <1>8, <2>1, <3>1, Zenon
  <2>2. CASE p # back
    <3>1. p \in front .. back - 1 /\ p \in front..back
      BY <1>1, <1>2, <2>2
    <3>2. sent'[p + 1] = sent[p + 1]
      BY <1>1, <1>2, <2>0, <3>1
    <3>3. p \div N \in DOMAIN chunk /\ p \in Nat /\ p % N \in 0 .. N - 1 /\ back \div N \in DOMAIN chunk
      BY <1>5, <1>6, <3>1, Zenon
    <3>4. chunk[p \div N] \in Chunk /\ (chunk[p \div N] = chunk[back \div N] => p \div N = back \div N)
      BY <3>3, Zenon DEF Owned, IsInjective
    <3>5. chunk[p \div N] # a \/ p % N # i
      BY <1>1, <1>7, <2>2, <3>3, <3>4, Distinct, Zenon
    <3>6. values'[chunk[p \div N]][p % N] = values[chunk[p \div N]][p % N]
      BY <1>8, <3>3, <3>4, <3>5, Zenon
    <3>7. values[chunk[p \div N]][p % N] = sent[p + 1]
      BY <3>1, Zenon DEF Contents
    <3> QED
      BY <1>4, <3>2, <3>3, <3>6, <3>7, Zenon
  <2> QED
    BY <2>1, <2>2, Zenon
<1>10. sent' \in Seq(Command) /\ Len(sent') = back'
  BY <1>2, <1>3 DEF Contents
<1>11. /\ count' \in [Sender -> 0..MaxSends]
       /\ \A t \in Sender : pc'[t] = "write" => count'[t] < MaxSends
  <2>1. count \in [Sender -> 0..MaxSends] /\ count[s] < MaxSends
    BY <1>2, Zenon DEF Contents
  <2>2. count[s] + 1 \in 0..MaxSends
    BY <1>1, <2>1
  <2>3. pc'[s] = "flush" /\ \A t \in Sender : t # s => pc'[t] = pc[t]
    BY <1>1, <1>2, Zenon DEF Goto
  <2>4. count' \in [Sender -> 0..MaxSends] /\ \A t \in Sender : t # s => count'[t] = count[t]
    BY <1>2, <2>1, <2>2, Zenon
  <2> QED
    BY <2>3, <2>4, Zenon DEF Contents
<1>12. Contents'
  BY <1>2, <1>8, <1>9, <1>10, <1>11, Zenon DEF Contents
<1> QED
  BY <1>2, <1>3, <1>4, <1>12, Zenon

\* The reader takes the oldest command that it has not received.
LEMMA PopContents ==
  ASSUME IInv, Owned, Contents, PopCommand
  PROVE  /\ Owned' /\ Contents'
         /\ Len(received) < Len(sent) /\ sent' = sent
         /\ received' = Append(received, sent[Len(received) + 1])
<1>1. front \in Nat /\ back \in Nat /\ front < back /\ N \in Nat \ {0}
  <2>1. front \in Nat /\ back \in Nat /\ w \in Nat /\ r \in Nat \cup {NULL}
    BY Zenon DEF IInv, TypeOK
  <2>2. r # NULL /\ front < r
    BY Zenon DEF IInv, ReaderState, PopCommand
  <2>3. r <= w /\ w <= back
    BY <2>2, Zenon DEF IInv, Order
  <2> QED
    BY <2>1, <2>2, <2>3, PipeAssumption
<1>2. /\ Pop /\ front' = front + 1 /\ received' = Append(received, Front)
      /\ UNCHANGED <<back, values, pc, count, sent>>
  BY Zenon DEF PopCommand, Pop, senderVars
<1>3. Owned' /\ \A i \in DOMAIN chunk' : i \in DOMAIN chunk /\ chunk'[i] = chunk[i]
  BY <1>1, <1>2, PopOwned, Zenon
<1>4. sent \in Seq(Command) /\ received \in Seq(Command) /\ Len(sent) = back /\ Len(received) = front
  BY Zenon DEF Contents
<1>5. Front = sent[front + 1]
  <2>1. front \in front .. back - 1
    BY <1>1
  <2> QED
    BY <2>1, Zenon DEF Front, Contents
<1>6. received' \in Seq(Command) /\ Len(received') = front'
  <2>1. sent[front + 1] \in Command
    BY <1>1, <1>4
  <2> QED
    BY <1>2, <1>4, <1>5, <2>1
<1>7. ASSUME NEW p \in front' .. back' - 1
      PROVE  values'[chunk'[p \div N]][p % N] = sent'[p + 1]
  <2>1. p \in front .. back - 1 /\ p \in Nat /\ front' <= p /\ p <= back + 1 /\ front' \in Nat /\ back + 1 \in Nat
    BY <1>1, <1>2
  <2>2. front' \div N <= p \div N /\ p \div N <= (back + 1) \div N
    BY <1>1, <2>1, Monotone, Zenon
  <2>3. p \div N \in Nat /\ front' \div N \in Nat /\ (back + 1) \div N \in Nat
    BY <1>1, <2>1, DivMod, Zenon
  <2>4. DOMAIN chunk' = front' \div N .. (back + 1) \div N
    BY <1>2, <1>3, Zenon DEF Owned
  <2>5. p \div N \in DOMAIN chunk'
    BY <2>2, <2>3, <2>4
  <2>6. chunk'[p \div N] = chunk[p \div N]
    BY <1>3, <2>5, Zenon
  <2> QED
    BY <1>2, <2>1, <2>6, Zenon DEF Contents
<1>8. Contents'
  BY <1>2, <1>4, <1>6, <1>7, Zenon DEF Contents
<1> QED
  BY <1>1, <1>2, <1>3, <1>4, <1>5, <1>8, Zenon

\* Every other step leaves the queue alone; a sender that takes the mutex has a
\* command left to send.
LEMMA NextContents ==
  ASSUME IInv, Owned, Contents, [Next]_vars
  PROVE  /\ Owned' /\ Contents'
         /\ \/ UNCHANGED <<sent, received>>
            \/ \E m \in Command : sent' = Append(sent, m) /\ received' = received
            \/ /\ Len(received) < Len(sent) /\ sent' = sent
               /\ received' = Append(received, sent[Len(received) + 1])
<1> DEFINE Still == UNCHANGED <<queue, count, sent, received>>
           Enters(s) == pc'[s] = "write" => pc[s] = "write" \/ count[s] < MaxSends
<1>1. ASSUME Still, \A s \in Sender : Enters(s) PROVE Owned' /\ Contents' /\ UNCHANGED <<sent, received>>
  BY <1>1, Zenon DEF queue, Owned, Contents
<1>2. pc \in [Sender -> Places]
  BY Zenon DEF IInv, TypeOK
<1>3. ASSUME NEW s \in Sender, Lock(s) \/ Flush(s) \/ Set(s) \/ Unlock(s) \/ Signal(s)
      PROVE  Still /\ \A t \in Sender : Enters(t)
  <2>1. Still
    BY <1>3, Zenon DEF Lock, Flush, FlushAwake, Set, FlushSet, Unlock, Signal
  <2>2. \/ Goto(s, "write") /\ count[s] < MaxSends
        \/ Goto(s, "unlock") \/ Goto(s, "set") \/ Goto(s, "unlockwake") \/ Goto(s, "signal") \/ Goto(s, "idle")
    BY <1>3, Zenon DEF Lock, Flush, Set, Unlock, Signal
  <2>3. pc'[s] = "write" => count[s] < MaxSends
    BY <1>2, <2>2, Zenon DEF Goto
  <2>4. \A t \in Sender : t # s => pc'[t] = pc[t]
    BY <1>2, <2>2, Zenon DEF Goto
  <2> QED
    BY <2>1, <2>3, <2>4, Zenon
<1>4. ASSUME Recv \/ Check \/ CheckWoken \/ Wait \/ Timeout \/ DestroyLock \/ DestroyEnd \/ UNCHANGED vars
      PROVE  Still /\ \A t \in Sender : Enters(t)
  <2>1. Still /\ pc' = pc
    BY <1>4, Zenon DEF Recv, Check, CheckWoken, CheckRead, Wait, Timeout, DestroyLock, DestroyEnd, vars, senderVars
  <2> QED
    BY <2>1, Zenon
<1> HIDE DEF Still, Enters
<1> QED
  BY <1>1, <1>3, <1>4, WriteContents, PopContents, Zenon DEF Next, Send, Read

\* The chunks are owned, and their contents are what was sent, in every state.
THEOREM ContentsInvariance == Spec => [](Owned /\ Contents)
<1>1. Init => Owned /\ Contents
  <2> SUFFICES ASSUME Init PROVE Owned /\ Contents
    BY Zenon
  <2>1. /\ front = 0 /\ back = 0 /\ spare_chunk = NULL /\ N \in Nat \ {0, 1} /\ NULL \notin Chunk
        /\ MaxSends \in Nat
    BY PipeAssumption, SenderAssumption, Zenon DEF Init, InitPipe
  <2>2. front \div N = 0 /\ (back + 1) \div N = 0
    <3>1. N * 0 + 0 = 0 /\ N * 0 + 1 = 1 /\ 0 \in 0 .. N - 1 /\ 1 \in 0 .. N - 1
      BY <2>1
    <3>2. 0 \div N = 0
      BY <2>1, <3>1, DivMod, OneQuotient
    <3>3. 1 \div N = 0
      BY <2>1, <3>1, DivMod, OneQuotient
    <3> QED
      BY <2>1, <3>2, <3>3
  <2>3. PICK a \in Chunk : chunk = [i \in {0} |-> a] /\ heap = {a}
    BY Zenon DEF Init, InitPipe
  <2>4. 0..0 = {0}
    OBVIOUS
  <2>5. chunk \in [front \div N .. (back + 1) \div N -> Chunk] /\ DOMAIN chunk = {0} /\ chunk[0] = a
    BY <2>2, <2>3, <2>4, Zenon
  <2>6. IsInjective(chunk) /\ Range(chunk) = {a}
    BY <2>5, Zenon DEF IsInjective, Range
  <2>7. Owned
    BY <2>1, <2>3, <2>5, <2>6, Zenon DEF Owned
  <2>8. Contents
    BY <2>1 DEF Contents, Init, InitPipe
  <2> QED
    BY <2>7, <2>8, Zenon
<1>2. IInv /\ Owned /\ Contents /\ [Next]_vars => Owned' /\ Contents'
  BY NextContents, Zenon
<1> QED
  BY <1>1, <1>2, Invariance, PTL DEF Spec

\* For any size of a chunk and any number of senders: every chunk is linked or
\* spare, none is twice in use and none is lost, and no pointer of the pipe leaves
\* the items between front and back (yqueue.hpp:111-185, ypipe.hpp).
THEOREM ChunksTheorem == Spec => []ChunksAreOwned
<1>1. IInv /\ Owned => ChunksAreOwned
  <2> SUFFICES ASSUME IInv, Owned PROVE ChunksAreOwned
    BY Zenon
  <2>1. front \in Nat /\ back \in Nat /\ w \in Nat /\ f \in Nat /\ r \in Nat \cup {NULL} /\ c \in Nat \cup {NULL}
    BY Zenon DEF IInv, TypeOK
  <2>2. front <= w /\ w <= f /\ f = back /\ (r # NULL => front <= r /\ r <= w)
    BY Zenon DEF IInv, Order
  <2>3. c # NULL => c = w
    BY Zenon DEF IInv, Tokens
  <2>4. w \in front..back /\ f \in front..back
    BY <2>1, <2>2
  <2>5. r # NULL => r \in front..back
    BY <2>1, <2>2
  <2>6. DOMAIN chunk = front \div N .. (back + 1) \div N
    BY Zenon DEF Owned
  <2> QED
    BY <2>3, <2>4, <2>5, <2>6, Zenon DEF ChunksAreOwned, Owned
<1> QED
  BY <1>1, ContentsInvariance, Invariance, PTL

\* The safety half of ImplementsChannel: through the chunks and their reuse, the
\* reader receives what was sent, in the order of the sends, nothing twice and
\* nothing that was not sent (mailbox_t::send() and recv()).
THEOREM ChannelTheorem ==
  Spec => Promise!Init /\ [][Promise!Send \/ Promise!Receive]_<<sent, received>>
<1>1. Init => Promise!Init
  BY Zenon DEF Init, Promise!Init
<1>2. IInv /\ Owned /\ Contents /\ [Next]_vars => [Promise!Send \/ Promise!Receive]_<<sent, received>>
  BY NextContents, Zenon DEF Promise!Send, Promise!Receive, Command
<1> QED
  BY <1>1, <1>2, ContentsInvariance, Invariance, PTL DEF Spec
=============================================================================
