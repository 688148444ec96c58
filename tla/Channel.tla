------------------------------ MODULE Channel ------------------------------
(* What the threads of ZeroMQ expect of a mailbox: every command that is    *)
(* sent is received, once, in the order in which they were sent.            *)
EXTENDS Naturals, Sequences

CONSTANTS Command
VARIABLES sent, received

Init == sent = <<>> /\ received = <<>>

Send == \E m \in Command : sent' = Append(sent, m) /\ UNCHANGED received

Receive ==
  /\ Len(received) < Len(sent)
  /\ received' = Append(received, sent[Len(received) + 1])
  /\ UNCHANGED sent

Spec == Init /\ [][Send \/ Receive]_<<sent, received>> /\ WF_<<sent, received>>(Receive)
=============================================================================
