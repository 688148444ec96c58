------------------------------ MODULE Mailbox ------------------------------
(***************************************************************************)
(* The mailbox of a ZeroMQ thread (src/zmq/mailbox.cpp): any number of     *)
(* senders write commands to a YPipe under a mutex, and one reader takes   *)
(* them out, sleeping on a signaler (src/zmq/signaler.cpp) when there are  *)
(* none.  One action is one access to memory that threads share: a lock,   *)
(* an atomic operation, a system call.                                     *)
(***************************************************************************)
EXTENDS YPipe

CONSTANTS
  Sender, Reader,
  MaxSends      \* commands of each sender

ASSUME SenderAssumption == Reader \notin Sender /\ NULL \notin Sender \cup {Reader} /\ MaxSends \in Nat

VARIABLES
  pc, count,    \* of each sender
  rpc,          \* of the reader
  active,
  sync,         \* who holds the mutex, or NULL
  signals,      \* bytes in the socket pair, or the value of the eventfd
  sent, received

vars == <<queue, pointers, pc, count, rpc, active, sync, signals, sent, received>>

Init ==
  /\ InitPipe
  /\ pc = [s \in Sender |-> "idle"] /\ count = [s \in Sender |-> 0]
  /\ rpc = "idle" /\ active = FALSE
  /\ sync = NULL /\ signals = 0
  /\ sent = <<>> /\ received = <<>>

-----------------------------------------------------------------------------
(* send() *)

Goto(s, place) == pc' = [pc EXCEPT ![s] = place]

Lock(s) ==
  /\ pc[s] = "idle" /\ count[s] < MaxSends
  /\ sync = NULL /\ sync' = s
  /\ Goto(s, "write")
  /\ UNCHANGED <<queue, pointers, count, rpc, active, signals, sent, received>>

WriteCommand(s) ==
  /\ pc[s] = "write"
  /\ LET cmd == <<s, count[s]>> IN Write(cmd) /\ sent' = Append(sent, cmd)
  /\ count' = [count EXCEPT ![s] = @ + 1]
  /\ Goto(s, "flush")
  /\ UNCHANGED <<rpc, active, sync, signals, received>>

Flush(s) ==
  /\ pc[s] = "flush"
  /\ \/ FlushAwake /\ Goto(s, "unlock")
     \/ FlushAsleep /\ Goto(s, "set") /\ UNCHANGED <<queue, pointers>>
  /\ UNCHANGED <<count, rpc, active, sync, signals, sent, received>>

\* Mutant: the reader is not woken.
SetWithoutWake(s) ==
  /\ pc[s] = "set"
  /\ FlushSet
  /\ Goto(s, "unlock")
  /\ UNCHANGED <<count, rpc, active, sync, signals, sent, received>>

Set(s) ==
  /\ pc[s] = "set"
  /\ FlushSet
  /\ Goto(s, "unlockwake")
  /\ UNCHANGED <<count, rpc, active, sync, signals, sent, received>>

\* Mutant: a sender wakes the reader after every command.
UnlockWakes(s) ==
  /\ pc[s] \in {"unlock", "unlockwake"} /\ Goto(s, "signal")
  /\ sync' = NULL
  /\ UNCHANGED <<queue, pointers, count, rpc, active, signals, sent, received>>

Unlock(s) ==
  /\ \/ pc[s] = "unlock" /\ Goto(s, "idle")
     \/ pc[s] = "unlockwake" /\ Goto(s, "signal")
  /\ sync' = NULL
  /\ UNCHANGED <<queue, pointers, count, rpc, active, signals, sent, received>>

\* signaler.send(), after the mutex was released
Signal(s) ==
  /\ pc[s] = "signal"
  /\ signals' = signals + 1
  /\ Goto(s, "idle")
  /\ UNCHANGED <<queue, pointers, count, rpc, active, sync, sent, received>>

-----------------------------------------------------------------------------
(* recv() *)

senderVars == <<pc, count, sent>>

Recv ==
  /\ rpc = "idle"
  /\ rpc' = IF active THEN "check" ELSE "wait"
  /\ UNCHANGED <<queue, pointers, senderVars, active, sync, signals, received>>

\* read() with commands left, or the switch to the passive state
Check ==
  /\ rpc = "check"
  /\ \/ CheckRead(TRUE) /\ rpc' = "pop" /\ UNCHANGED active
     \/ CheckRead(FALSE) /\ rpc' = "wait" /\ active' = FALSE
  /\ UNCHANGED <<senderVars, sync, signals, received>>

\* signaler.wait() and signaler.recv()
Wait ==
  /\ rpc = "wait" /\ signals > 0
  /\ signals' = signals - 1
  /\ active' = TRUE /\ rpc' = "woken"
  /\ UNCHANGED <<queue, pointers, senderVars, sync, received>>

\* signaler.wait() ends with EAGAIN or EINTR.
Timeout ==
  /\ rpc = "wait"
  /\ rpc' = "idle"
  /\ UNCHANGED <<queue, pointers, senderVars, active, sync, signals, received>>

\* The read() after a signal must find a command: zmq_assert (ok)
CheckWoken ==
  /\ rpc = "woken"
  /\ \/ CheckRead(TRUE) /\ rpc' = "pop"
     \/ CheckRead(FALSE) /\ rpc' = "aborted"
  /\ UNCHANGED <<senderVars, active, sync, signals, received>>

PopCommand ==
  /\ rpc = "pop"
  /\ received' = Append(received, Front)
  /\ Pop
  /\ rpc' = "idle"
  /\ UNCHANGED <<back, values, pointers, senderVars, active, sync, signals>>

\* Mutant: the destructor does not take sync.
DestroyAtOnce ==
  /\ rpc = "idle" /\ front = back /\ \A s \in Sender : count[s] = MaxSends
  /\ rpc' = "unlock"
  /\ UNCHANGED <<queue, pointers, senderVars, active, sync, signals, received>>

\* The owner destroys the mailbox once it has all the commands that will come,
\* and the destructor waits on the mutex for senders that are still inside.
DestroyLock ==
  /\ rpc = "idle" /\ front = back /\ \A s \in Sender : count[s] = MaxSends
  /\ sync = NULL /\ sync' = Reader
  /\ rpc' = "unlock"
  /\ UNCHANGED <<queue, pointers, senderVars, active, signals, received>>

DestroyEnd ==
  /\ rpc = "unlock"
  /\ sync' = NULL
  /\ rpc' = "gone"
  /\ UNCHANGED <<queue, pointers, senderVars, active, signals, received>>

-----------------------------------------------------------------------------
Send(s) == WriteCommand(s) \/ Flush(s) \/ Set(s) \/ Unlock(s) \/ Signal(s)
Read == Recv \/ Check \/ CheckWoken \/ PopCommand \/ DestroyEnd

Next ==
  \/ \E s \in Sender : Lock(s) \/ Send(s)
  \/ Read \/ Wait \/ Timeout \/ DestroyLock

\* Threads run; a waiting reader is not interrupted for ever with a signal there.
Spec ==
  /\ Init /\ [][Next]_vars
  /\ \A s \in Sender : WF_vars(Send(s))
  /\ WF_vars(Read) /\ SF_vars(Wait)

-----------------------------------------------------------------------------
(* Properties *)

Places == {"idle", "write", "flush", "set", "unlock", "unlockwake", "signal"}
ReaderPlaces == {"idle", "check", "wait", "woken", "pop", "aborted", "unlock", "gone"}

\* Who was woken finds a command: the zmq_assert (ok) at the end of
\* mailbox_t::recv() holds, whatever signals and timeouts came before.
WokenHasCommand == rpc # "aborted"

\* "We don't care about thread-safeness" (ypipe.hpp:118): while flush() sets c
\* without an atomic operation, the reader does not look at it.
SetIsAlone == \A s \in Sender : pc[s] = "set" => ~active /\ rpc \in {"idle", "wait"}

\* The destructor's "work around" (mailbox.cpp:47) is enough: once it is through,
\* no sender is inside send(), not even in signaler.send(), which has no lock.
NoSenderInside == rpc = "gone" => \A s \in Sender : pc[s] = "idle"

\* Every chunk of the heap is linked or spare, and no chunk is twice in use: the
\* two threads hand chunks to each other without losing or doubling one.
ChunksAreOwned ==
  /\ DOMAIN chunk = (front \div N)..((back + 1) \div N)
  /\ IsInjective(chunk) /\ spare_chunk \notin Range(chunk)
  /\ heap = Range(chunk) \cup ({spare_chunk} \ {NULL})
  /\ {w, f} \subseteq front..back /\ {r, c} \subseteq front..back \cup {NULL}

\* The mailbox is a reliable channel.
Promise == INSTANCE Channel WITH Command <- Sender \X (0..MaxSends - 1)
ImplementsChannel == Promise!Spec
=============================================================================
