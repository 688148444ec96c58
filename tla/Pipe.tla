------------------------------- MODULE Pipe -------------------------------
(***************************************************************************)
(* The pipe between a ZeroMQ socket and a session (src/zmq/pipe.cpp): two  *)
(* ends in two threads, joined by a ypipe for each direction and by the    *)
(* commands that each end puts into the mailbox of the other.              *)
(*                                                                         *)
(* A ypipe is here what module YPipe shows it to be, a queue whose reader  *)
(* falls asleep when it finds nothing and is woken by the next flush().    *)
(* An item is a part of a message; id numbers the messages of an end.      *)
(* todo[e] is the rest of the handler that the thread of end e is in.      *)
(***************************************************************************)
EXTENDS Integers, Sequences, Functions

CONSTANTS
  Socket, Session,      \* the two ends
  Upipe,                \* addresses of ypipes
  NULL

End == {Socket, Session}
Peer(e) == CHOOSE p \in End : p # e

max_wm_delta == 1024

VARIABLES
  end,                  \* the two pipe_t
  upipe,                \* the ypipes that are allocated
  commands,             \* for the object at each end, oldest first
  todo,
  failed                \* assertions that did not hold

pipeVars == <<end, upipe, commands, todo, failed>>

Delimiter == [id |-> 0, part |-> 1, more |-> FALSE]
NewUpipe == [items |-> <<>>, complete |-> 0, flushed |-> 0, asleep |-> FALSE]

compute_lwm(hwm) == IF hwm > max_wm_delta * 2 THEN hwm - max_wm_delta ELSE (hwm + 1) \div 2

\* Who sets nodelay does so for the end of the socket (set_nodelay()).
NewEnd(e, in, out, hwm, nodelay) ==
  [state |-> "active", inpipe |-> in, outpipe |-> out, in_active |-> TRUE, out_active |-> TRUE,
   hwm |-> hwm[e], lwm |-> compute_lwm(hwm[Peer(e)]), delay |-> ~(e = Socket /\ nodelay),
   msgs_read |-> 0, msgs_written |-> 0, peers_msgs_read |-> 0]

\* The address that new returns; one is as good as another.
Allocated(used) == CHOOSE u \in Upipe : u \notin used

\* pipepair(), with the high water marks for what the ends write, and the
\* xattach_pipe() of a socket that does not read
InitPipes(hwm, nodelay) ==
  /\ LET u1 == Allocated({})
         u2 == Allocated({u1})
     IN /\ upipe = [u \in {u1, u2} |-> NewUpipe]
        /\ end = [e \in End |-> IF e = Session THEN NewEnd(e, u1, u2, hwm, nodelay)
                                ELSE NewEnd(e, u2, u1, hwm, nodelay)]
  /\ commands = [e \in End |-> <<>>]
  /\ todo = [e \in End |-> <<>>]
  /\ failed = {}

-----------------------------------------------------------------------------
(* ypipe_t *)

Written(q, item) ==
  [q EXCEPT !.items = Append(@, item),
            !.complete = IF item.more THEN @ ELSE Len(q.items) + 1]

Unwritten(q) == [q EXCEPT !.items = SubSeq(@, 1, q.complete)]

Flushed(q) == [q EXCEPT !.flushed = q.complete, !.asleep = @ /\ q.flushed = q.complete]

ReaderSleeps(q) == q.asleep /\ q.flushed # q.complete

Popped(q) == [q EXCEPT !.items = Tail(@), !.complete = @ - 1, !.flushed = @ - 1]

-----------------------------------------------------------------------------
(* pipe_t *)

Inpipe(e) == upipe[end[e].inpipe]
Outpipe(e) == upipe[end[e].outpipe]

Sent(e, cmds) == [commands EXCEPT ![Peer(e)] = @ \o cmds]

Full(e) == end[e].hwm > 0 /\ end[e].msgs_written - end[e].peers_msgs_read = end[e].hwm

\* write(), refused by check_write(), or not
WriteRefused(e) ==
  /\ end[e].state = "active" /\ end[e].out_active /\ Full(e)
  /\ end' = [end EXCEPT ![e].out_active = FALSE]
  /\ UNCHANGED <<upipe, commands, failed>>

Write(e, item) ==
  /\ end[e].state = "active" /\ end[e].out_active /\ ~Full(e)
  /\ upipe' = [upipe EXCEPT ![end[e].outpipe] = Written(@, item)]
  /\ end' = [end EXCEPT ![e].msgs_written = IF item.more THEN @ ELSE @ + 1]
  /\ UNCHANGED <<commands, failed>>

Rollback(e) ==
  /\ upipe' = IF end[e].outpipe = NULL THEN upipe
              ELSE [upipe EXCEPT ![end[e].outpipe] = Unwritten(@)]
  /\ UNCHANGED <<end, commands, failed>>

Flush(e) ==
  /\ IF end[e].state = "term_ack_sent" \/ end[e].outpipe = NULL
     THEN UNCHANGED <<upipe, commands>>
     ELSE /\ upipe' = [upipe EXCEPT ![end[e].outpipe] = Flushed(@)]
          /\ commands' = IF ReaderSleeps(Outpipe(e)) THEN Sent(e, <<<<"activate_read">>>>) ELSE commands
  /\ UNCHANGED <<end, failed>>

Reads(e) == end[e].in_active /\ end[e].state \in {"active", "waiting_for_delimiter"}

NothingToRead(e) ==
  /\ Reads(e) /\ Inpipe(e).flushed = 0
  /\ end' = [end EXCEPT ![e].in_active = FALSE]
  /\ upipe' = [upipe EXCEPT ![end[e].inpipe].asleep = TRUE]
  /\ UNCHANGED <<commands, failed>>

NextItem(e) == Inpipe(e).items[1]

\* The delimiter is read, and process_delimiter() called.
ReadDelimiter(e) ==
  /\ Reads(e) /\ Inpipe(e).flushed > 0 /\ NextItem(e) = Delimiter
  /\ upipe' = [upipe EXCEPT ![end[e].inpipe] = Popped(@)]
  /\ IF end[e].state = "active"
     THEN /\ end' = [end EXCEPT ![e].state = "delimiter_received"]
          /\ UNCHANGED commands
     ELSE /\ end' = [end EXCEPT ![e].state = "term_ack_sent", ![e].outpipe = NULL]
          /\ commands' = Sent(e, <<<<"pipe_term_ack">>>>)
  /\ UNCHANGED failed

ReadItem(e) ==
  /\ Reads(e) /\ Inpipe(e).flushed > 0 /\ NextItem(e) # Delimiter
  /\ upipe' = [upipe EXCEPT ![end[e].inpipe] = Popped(@)]
  /\ LET n == end[e].msgs_read + (IF NextItem(e).more THEN 0 ELSE 1)
         lwm == end[e].lwm
     IN /\ end' = [end EXCEPT ![e].msgs_read = n]
        /\ commands' = IF lwm > 0 /\ n % lwm = 0 THEN Sent(e, <<<<"activate_write", n>>>>) ELSE commands
  /\ UNCHANGED failed

\* check_read(), which leaves a message where it is
CheckRead(e) ==
  \/ NothingToRead(e)
  \/ ReadDelimiter(e)
  \/ /\ ~Reads(e) \/ (Inpipe(e).flushed > 0 /\ NextItem(e) # Delimiter)
     /\ UNCHANGED <<end, upipe, commands, failed>>

\* set_hwms(); only the pipes of inproc connections, which have no session, get
\* a boost that is not 0.
inhwmboost == 0
outhwmboost == 0

set_hwms(e, inhwm, outhwm) ==
  LET in == IF inhwm <= 0 \/ inhwmboost <= 0 THEN 0 ELSE inhwm + inhwmboost
      out == IF outhwm <= 0 \/ outhwmboost <= 0 THEN 0 ELSE outhwm + outhwmboost
  IN /\ end' = [end EXCEPT ![e].lwm = compute_lwm(in), ![e].hwm = out]
     /\ UNCHANGED <<upipe, commands, failed>>

\* terminate() up to the point where it stops the outbound flow; what follows
\* is WriteDelimiter, unless the call returns early.
TerminateReturns(e) == end[e].state \in {"term_req_sent1", "term_req_sent2", "term_ack_sent"}

\* Mutant: a second call sends the request once more.
TerminateAgain(e, delay) ==
  /\ end[e].state # "gone"
  /\ end' = [end EXCEPT ![e].delay = delay, ![e].out_active = FALSE, ![e].state = "term_req_sent1"]
  /\ commands' = Sent(e, <<<<"pipe_term">>>>)
  /\ UNCHANGED <<upipe, failed>>

\* Mutant: the wait for the delimiter is given up although there is a delay.
TerminateImpatient(e, delay) ==
  /\ \/ /\ TerminateReturns(e)
        /\ end' = [end EXCEPT ![e].delay = delay]
        /\ UNCHANGED commands
     \/ /\ end[e].state \in {"active", "delimiter_received"}
        /\ end' = [end EXCEPT ![e].delay = delay, ![e].out_active = FALSE, ![e].state = "term_req_sent1"]
        /\ commands' = Sent(e, <<<<"pipe_term">>>>)
     \/ /\ end[e].state = "waiting_for_delimiter"
        /\ end' = [end EXCEPT ![e].delay = delay, ![e].out_active = FALSE,
                              ![e].state = "term_ack_sent", ![e].outpipe = NULL]
        /\ commands' = Sent(e, <<<<"pipe_term_ack">>>>)
  /\ UNCHANGED <<upipe, failed>>

Terminate(e, delay) ==
  /\ \/ /\ TerminateReturns(e)
        /\ end' = [end EXCEPT ![e].delay = delay]
        /\ UNCHANGED commands
     \/ /\ end[e].state \in {"active", "delimiter_received"}
        /\ end' = [end EXCEPT ![e].delay = delay, ![e].out_active = FALSE, ![e].state = "term_req_sent1"]
        /\ commands' = Sent(e, <<<<"pipe_term">>>>)
     \/ /\ end[e].state = "waiting_for_delimiter" /\ ~delay
        /\ end' = [end EXCEPT ![e].delay = delay, ![e].out_active = FALSE,
                              ![e].state = "term_ack_sent", ![e].outpipe = NULL]
        /\ commands' = Sent(e, <<<<"pipe_term_ack">>>>)
     \/ /\ end[e].state = "waiting_for_delimiter" /\ delay
        /\ end' = [end EXCEPT ![e].delay = delay, ![e].out_active = FALSE]
        /\ UNCHANGED commands
  /\ UNCHANGED <<upipe, failed>>

WriteDelimiter(e) ==
  /\ IF end[e].outpipe = NULL
     THEN UNCHANGED <<upipe, commands>>
     ELSE LET q == Written(Unwritten(Outpipe(e)), Delimiter) IN
          /\ upipe' = [upipe EXCEPT ![end[e].outpipe] = Flushed(q)]
          /\ commands' = IF ReaderSleeps(q) THEN Sent(e, <<<<"activate_read">>>>) ELSE commands
  /\ UNCHANGED <<end, failed>>

Hiccup(e) ==
  IF end[e].state # "active"
  THEN UNCHANGED <<end, upipe, commands, failed>>
  ELSE LET u == Allocated(DOMAIN upipe) IN
         /\ upipe' = [v \in DOMAIN upipe \cup {u} |-> IF v = u THEN NewUpipe ELSE upipe[v]]
         /\ end' = [end EXCEPT ![e].inpipe = u, ![e].in_active = TRUE]
         /\ commands' = Sent(e, <<<<"hiccup", u>>>>)
         /\ UNCHANGED failed

-----------------------------------------------------------------------------
(* The commands, each of them the first of commands[e] *)

Require(name, holds) == failed' = IF holds THEN failed ELSE failed \cup {name}

Reply(e, cmd) == [commands EXCEPT ![e] = Tail(@), ![Peer(e)] = Append(@, cmd)]
Taken(e) == [commands EXCEPT ![e] = Tail(@)]

ActivatedRead(e) == ~end[e].in_active /\ end[e].state \in {"active", "waiting_for_delimiter"}

ProcessActivateRead(e) ==
  /\ end' = [end EXCEPT ![e].in_active = @ \/ ActivatedRead(e)]
  /\ commands' = Taken(e)
  /\ UNCHANGED <<upipe, failed>>

ProcessActivateWrite(e, msgs_read) ==
  /\ end' = [end EXCEPT ![e].peers_msgs_read = msgs_read,
                        ![e].out_active = @ \/ end[e].state = "active"]
  /\ commands' = Taken(e)
  /\ UNCHANGED <<upipe, failed>>

\* Mutant: the messages that are dropped still count as written.
ProcessHiccupCounts(e, u) ==
  /\ Require("process_hiccup", end[e].outpipe # NULL)
  /\ end' = [end EXCEPT ![e].outpipe = u, ![e].out_active = TRUE]
  /\ upipe' = [v \in DOMAIN upipe \ {end[e].outpipe} |-> upipe[v]]
  /\ commands' = Taken(e)

\* The messages of the old pipe are dropped, those that were not flushed too.
ProcessHiccup(e, u) ==
  LET q == Outpipe(e)
      dropped == SelectSeq(SubSeq(q.items, 1, q.complete), LAMBDA item : ~item.more)
  IN /\ Require("process_hiccup", end[e].outpipe # NULL)
     /\ end' = [end EXCEPT ![e].outpipe = u, ![e].out_active = TRUE, ![e].msgs_written = @ - Len(dropped)]
     /\ upipe' = [v \in DOMAIN upipe \ {end[e].outpipe} |-> upipe[v]]
     /\ commands' = Taken(e)

\* Mutant: the end that acknowledges keeps the outpipe, which its peer deletes.
ProcessPipeTermKeeps(e) ==
  /\ Require("process_pipe_term", end[e].state \in {"active", "delimiter_received", "term_req_sent1"})
  /\ IF end[e].state = "active" /\ end[e].delay
     THEN /\ end' = [end EXCEPT ![e].state = "waiting_for_delimiter"]
          /\ commands' = Taken(e)
     ELSE /\ end' = [end EXCEPT ![e].state = IF @ = "term_req_sent1" THEN "term_req_sent2" ELSE "term_ack_sent"]
          /\ commands' = Reply(e, <<"pipe_term_ack">>)
  /\ UNCHANGED upipe

ProcessPipeTerm(e) ==
  /\ Require("process_pipe_term", end[e].state \in {"active", "delimiter_received", "term_req_sent1"})
  /\ IF end[e].state = "active" /\ end[e].delay
     THEN /\ end' = [end EXCEPT ![e].state = "waiting_for_delimiter"]
          /\ commands' = Taken(e)
     ELSE /\ end' = [end EXCEPT ![e].outpipe = NULL,
                                ![e].state = IF @ = "term_req_sent1" THEN "term_req_sent2" ELSE "term_ack_sent"]
          /\ commands' = Reply(e, <<"pipe_term_ack">>)
  /\ UNCHANGED upipe

\* The end deletes its inpipe and itself.
ProcessPipeTermAck(e) ==
  /\ Require("process_pipe_term_ack", end[e].state \in {"term_req_sent1", "term_ack_sent", "term_req_sent2"})
  /\ commands' = IF end[e].state = "term_req_sent1" THEN Reply(e, <<"pipe_term_ack">>) ELSE Taken(e)
  /\ upipe' = [v \in DOMAIN upipe \ {end[e].inpipe} |-> upipe[v]]
  /\ end' = [end EXCEPT ![e].state = "gone", ![e].outpipe = NULL, ![e].inpipe = NULL]
=============================================================================
