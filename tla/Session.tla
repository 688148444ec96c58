------------------------------ MODULE Session ------------------------------
(***************************************************************************)
(* The life of a session (src/zmq/session_base.cpp) and of the pipe that   *)
(* joins it to its socket (src/zmq/socket_base.cpp): messages go both ways *)
(* while connections break and come back, the application terminates the   *)
(* pipe or closes the socket, and the session lingers until what was sent  *)
(* has left.                                                               *)
(*                                                                         *)
(* The socket's end runs in the application's thread, after close() in the *)
(* reaper's; the session's end in an I/O thread, with the engine.  The I/O *)
(* thread's mailbox also carries "term" for the session, the socket's also *)
(* "term_req".                                                             *)
(***************************************************************************)
EXTENDS Pipe

CONSTANTS
  Options,              \* the combinations of socket options to look at
  MaxErrors,            \* connections that break
  Windows               \* which of the cases that fail are part of the model

VARIABLES
  opt,                  \* immediate, sub, nodelay, active, linger, reconnect_ivl, and
                        \* for each end hwm and the number of messages
  engine, connecting,   \* whether there is an engine, or somebody who will attach one
  ref,                  \* what the session knows of its end: "pipe", "terminating" or NULL
  pending, incomplete_in, has_linger_timer,
  life,                 \* of the session: "alive", "terminating" or "destroyed"
  closed, termed, called,
                        \* whether the socket was closed, has sent "term", and
                        \* whether the application called terminate()
  errors, next, writing, last

sessionVars == <<engine, connecting, ref, pending, incomplete_in, has_linger_timer, life, errors>>
socketVars == <<closed, termed, called>>
userVars == <<next, writing, last>>
vars == <<pipeVars, opt, sessionVars, socketVars, userVars>>

\* The last part that was read by the application, or for this connection
Nothing == [id |-> 0, part |-> 0, more |-> FALSE]

Init ==
  /\ opt \in Options
  /\ InitPipes(opt.hwm, opt.nodelay)
  /\ engine \in BOOLEAN /\ (~engine => opt.active) /\ connecting = ~engine
  /\ ref = "pipe" /\ life = "alive"
  /\ pending = FALSE /\ incomplete_in = FALSE /\ has_linger_timer = FALSE
  /\ closed = FALSE /\ termed = FALSE /\ called = FALSE
  /\ errors = 0
  /\ next = [e \in End |-> 1] /\ writing = [e \in End |-> FALSE] /\ last = [e \in End |-> Nothing]

-----------------------------------------------------------------------------
(* Messages *)

Idle(e) == todo[e] = <<>>
Do(e, calls) == todo' = [todo EXCEPT ![e] = calls]

\* A message has one part or two; only single parts go from a subscriber upstream.
Item(e, more) ==
  [id |-> next[e], part |-> IF writing[e] THEN 2 ELSE 1, more |-> more]

WriteMessage(e, more) ==
  /\ next[e] <= opt.messages[e]
  /\ more => ~writing[e] /\ ~(e = Socket /\ opt.sub)
  /\ Write(e, Item(e, more))
  /\ next' = [next EXCEPT ![e] = IF more THEN @ ELSE @ + 1]
  /\ writing' = [writing EXCEPT ![e] = more]
  /\ UNCHANGED last

ReadMessage(e) ==
  /\ ReadItem(e)
  /\ last' = [last EXCEPT ![e] = NextItem(e)]
  /\ UNCHANGED <<next, writing>>

-----------------------------------------------------------------------------
(* The application *)

SocketSend ==
  /\ Idle(Socket) /\ ~closed
  /\ \/ WriteMessage(Socket, TRUE) /\ UNCHANGED todo
     \/ WriteMessage(Socket, FALSE) /\ Do(Socket, <<"flush">>)
     \/ WriteRefused(Socket) /\ UNCHANGED <<todo, userVars>>
  /\ UNCHANGED <<opt, sessionVars, socketVars>>

SocketRecv ==
  /\ Idle(Socket) /\ ~closed
  /\ \/ ReadMessage(Socket)
     \/ (NothingToRead(Socket) \/ ReadDelimiter(Socket)) /\ UNCHANGED userVars
  /\ UNCHANGED <<todo, opt, sessionVars, socketVars>>

DelimiterAfter(e) == IF TerminateReturns(e) THEN <<>> ELSE <<"delimiter">>

\* pipe_t::terminate() from a socket type: a peer is replaced, a request given up
SocketTerminate ==
  /\ Idle(Socket) /\ ~closed /\ ~called /\ end[Socket].state # "gone"
  /\ \E delay \in BOOLEAN : Terminate(Socket, delay)
  /\ Do(Socket, DelimiterAfter(Socket))
  /\ called' = TRUE
  /\ UNCHANGED <<opt, sessionVars, closed, termed, userVars>>

\* zmq_close(), or zmq_disconnect() of the endpoint
SocketClose ==
  /\ Idle(Socket) /\ ~closed
  /\ closed' = TRUE
  /\ \/ /\ end[Socket].state = "gone"
        /\ Do(Socket, <<"term">>)
        /\ UNCHANGED <<end, upipe, commands, failed>>
     \/ /\ end[Socket].state # "gone"
        /\ Terminate(Socket, FALSE)
        /\ Do(Socket, DelimiterAfter(Socket) \o <<"term">>)
  /\ UNCHANGED <<opt, sessionVars, termed, called, userVars>>

\* zmq_setsockopt() of a high water mark
SocketSetHwm ==
  /\ opt.hwm[Session] > 0 => "set_hwm" \in Windows
  /\ Idle(Socket) /\ ~closed /\ end[Socket].state # "gone"
  /\ set_hwms(Socket, opt.hwm[Session], opt.hwm[Socket])
  /\ UNCHANGED <<todo, opt, sessionVars, socketVars, userVars>>

-----------------------------------------------------------------------------
(* The engine *)

SessionPull ==
  /\ Idle(Session) /\ engine /\ ref = "pipe"
  /\ \/ ReadMessage(Session) /\ incomplete_in' = NextItem(Session).more
     \/ (NothingToRead(Session) \/ ReadDelimiter(Session)) /\ UNCHANGED <<incomplete_in, userVars>>
  /\ UNCHANGED <<todo, opt, engine, connecting, ref, pending, has_linger_timer, life, errors, socketVars>>

SessionPush ==
  /\ Idle(Session) /\ engine /\ ref = "pipe"
  /\ \/ WriteMessage(Session, TRUE) /\ UNCHANGED todo
     \/ WriteMessage(Session, FALSE) /\ Do(Session, <<"flush">>)
     \/ WriteRefused(Session) /\ UNCHANGED <<todo, userVars>>
  /\ UNCHANGED <<opt, sessionVars, socketVars>>

\* process_attach(); if the pipe is gone with the last connection, there would be
\* a new one, which the model does not follow.
Attach ==
  /\ Idle(Session) /\ connecting /\ ref = "pipe" /\ life = "alive"
  /\ engine' = TRUE /\ connecting' = FALSE
  /\ last' = [last EXCEPT ![Session] = Nothing]
  /\ UNCHANGED <<pipeVars, opt, ref, pending, incomplete_in, has_linger_timer, life, errors, socketVars, next, writing>>

\* Mutant: the rest of the message that was half sent stays in the pipe.
CleanPipesUndrained == IF ref = "pipe" THEN <<"rollback", "flush">> ELSE <<>>

CleanPipes == IF ref = "pipe" THEN <<"rollback", "flush", "drain">> ELSE <<>>

Reconnect ==
  IF ref = "pipe" /\ opt.immediate THEN <<"hiccup", "terminate", "detach">>
  ELSE IF ref = "pipe" /\ opt.sub THEN <<"hiccup">>
  ELSE <<>>

\* engine_error(), with the reasons that lead to reconnect() or to terminate();
\* reconnect() starts a connecter unless that was turned off.
EngineError ==
  /\ Idle(Session) /\ engine /\ life = "alive" /\ errors < MaxErrors
  /\ incomplete_in /\ ref = "pipe" => Reads(Session) \/ "half_read" \in Windows
  /\ engine' = FALSE /\ errors' = errors + 1
  /\ writing' = [writing EXCEPT ![Session] = FALSE]
  /\ next' = [next EXCEPT ![Session] = IF writing[Session] THEN @ + 1 ELSE @]
  /\ \/ /\ opt.active
        /\ connecting' = (opt.reconnect_ivl # -1)
        /\ Do(Session, CleanPipes \o Reconnect \o <<"check_read">>)
     \/ /\ opt.linger < 0 => "lost_peer" \in Windows
        /\ Do(Session, CleanPipes \o <<"term_req", "check_read">>)
        /\ UNCHANGED connecting
  /\ UNCHANGED <<end, upipe, commands, failed, opt, ref, pending, incomplete_in, has_linger_timer, life,
                 socketVars, last>>

LingerTimer ==
  /\ Idle(Session) /\ has_linger_timer /\ life # "destroyed"
  /\ has_linger_timer' = FALSE
  /\ Require("timer_event", ref = "pipe")
  /\ IF ref = "pipe"
     THEN Terminate(Session, FALSE) /\ Do(Session, DelimiterAfter(Session))
     ELSE UNCHANGED <<end, upipe, commands, todo>>
  /\ UNCHANGED <<opt, engine, connecting, ref, pending, incomplete_in, life, errors, socketVars, userVars>>

-----------------------------------------------------------------------------
(* The rest of a handler *)

Then(e, calls) == todo' = [todo EXCEPT ![e] = calls \o Tail(@)]

PipeCall(e) ==
  /\ \/ Head(todo[e]) = "flush" /\ Flush(e) /\ Then(e, <<>>)
     \/ Head(todo[e]) = "delimiter" /\ WriteDelimiter(e) /\ Then(e, <<>>)
     \/ Head(todo[e]) = "terminate" /\ Terminate(e, FALSE) /\ Then(e, DelimiterAfter(e))
  /\ UNCHANGED <<opt, sessionVars, socketVars, userVars>>

BreakPipe ==
  /\ \/ Head(todo[Session]) = "rollback" /\ Rollback(Session)
     \/ Head(todo[Session]) = "hiccup" /\ Hiccup(Session)
  /\ Then(Session, <<>>)
  /\ UNCHANGED <<opt, sessionVars, socketVars, userVars>>

\* own_t::process_term() of the socket, or term_child()
SendTerm ==
  /\ Head(todo[Socket]) = "term"
  /\ termed' = TRUE
  /\ commands' = IF termed THEN commands ELSE Sent(Socket, <<<<"term">>>>)
  /\ Then(Socket, <<>>)
  /\ UNCHANGED <<end, upipe, failed, opt, sessionVars, closed, called, userVars>>

\* xsub_t::xhiccuped(): the subscriptions once more
Resubscribe ==
  /\ Head(todo[Socket]) = "subscribe"
  /\ IF Full(Socket) THEN WriteRefused(Socket) /\ UNCHANGED userVars
     ELSE \/ WriteMessage(Socket, FALSE)
          \/ next[Socket] > opt.messages[Socket] /\ UNCHANGED <<end, upipe, commands, failed, userVars>>
  /\ Then(Socket, <<>>)
  /\ UNCHANGED <<opt, sessionVars, socketVars>>

\* The loop at the end of clean_pipes()
Readable(e) == Reads(e) /\ Inpipe(e).flushed > 0 /\ NextItem(e) # Delimiter

Drain ==
  /\ Head(todo[Session]) = "drain"
  /\ \/ /\ ~incomplete_in
        /\ Then(Session, <<>>)
        /\ UNCHANGED <<end, upipe, commands, failed, incomplete_in, userVars>>
     \/ /\ incomplete_in
        /\ Require("clean_pipes", Readable(Session))
        /\ IF Readable(Session)
           THEN ReadMessage(Session) /\ incomplete_in' = NextItem(Session).more
           ELSE incomplete_in' = FALSE /\ UNCHANGED <<end, upipe, commands, userVars>>
        /\ UNCHANGED todo
  /\ UNCHANGED <<opt, engine, connecting, ref, pending, has_linger_timer, life, errors, socketVars>>

Detach ==
  /\ Head(todo[Session]) = "detach"
  /\ ref' = "terminating"
  /\ Then(Session, <<>>)
  /\ UNCHANGED <<end, upipe, commands, failed, opt, engine, connecting, pending, incomplete_in, has_linger_timer, life, errors,
                 socketVars, userVars>>

\* own_t::terminate()
SendTermReq ==
  /\ Head(todo[Session]) = "term_req"
  /\ commands' = IF life = "alive" THEN Sent(Session, <<<<"term_req">>>>) ELSE commands
  /\ Then(Session, <<>>)
  /\ UNCHANGED <<end, upipe, failed, opt, sessionVars, socketVars, userVars>>

SessionCheckRead ==
  /\ Head(todo[Session]) = "check_read"
  /\ \/ ref = "pipe" /\ CheckRead(Session)
     \/ ref # "pipe" /\ UNCHANGED <<end, upipe, commands, failed>>
  /\ Then(Session, <<>>)
  /\ UNCHANGED <<opt, sessionVars, socketVars, userVars>>

SocketContinues == ~Idle(Socket) /\ (PipeCall(Socket) \/ SendTerm \/ Resubscribe)
SessionContinues == ~Idle(Session) /\ (PipeCall(Session) \/ BreakPipe \/ Drain \/ Detach \/ SendTermReq \/ SessionCheckRead)

-----------------------------------------------------------------------------
(* Commands *)

Command(e, type) == Idle(e) /\ commands[e] # <<>> /\ Head(commands[e])[1] = type

\* The commands of the pipe that both ends treat alike
EndProcesses(e) ==
  /\ \/ Command(e, "activate_write") /\ ProcessActivateWrite(e, Head(commands[e])[2])
     \/ Command(e, "pipe_term") /\ ProcessPipeTerm(e)
  /\ UNCHANGED <<todo, opt, sessionVars, socketVars, userVars>>

SocketActivateRead ==
  /\ Command(Socket, "activate_read") /\ ProcessActivateRead(Socket)
  /\ UNCHANGED <<todo, opt, sessionVars, socketVars, userVars>>

\* socket_base_t::hiccuped()
Hiccuped ==
  IF opt.immediate THEN <<"terminate">>
  ELSE IF opt.sub THEN <<"subscribe", "flush">>
  ELSE <<>>

SocketHiccup ==
  /\ Command(Socket, "hiccup") /\ ProcessHiccup(Socket, Head(commands[Socket])[2])
  /\ Do(Socket, IF end[Socket].state = "active" THEN Hiccuped ELSE <<>>)
  /\ UNCHANGED <<opt, sessionVars, socketVars, userVars>>

SocketPipeTermAck ==
  /\ Command(Socket, "pipe_term_ack") /\ ProcessPipeTermAck(Socket)
  /\ UNCHANGED <<todo, opt, sessionVars, socketVars, userVars>>

\* process_term_req()
SocketTermReq ==
  /\ Command(Socket, "term_req")
  /\ termed' = TRUE
  /\ commands' = IF termed THEN Taken(Socket) ELSE Reply(Socket, <<"term">>)
  /\ UNCHANGED <<end, upipe, todo, failed, opt, sessionVars, closed, called, userVars>>

SocketCommand ==
  EndProcesses(Socket) \/ SocketActivateRead \/ SocketHiccup \/ SocketPipeTermAck \/ SocketTermReq

\* Without an engine read_activated() looks for the delimiter itself.
SessionActivateRead ==
  /\ Command(Session, "activate_read") /\ ProcessActivateRead(Session)
  /\ Do(Session, IF ActivatedRead(Session) /\ ref = "pipe" /\ ~engine THEN <<"check_read">> ELSE <<>>)
  /\ UNCHANGED <<opt, sessionVars, socketVars, userVars>>

\* session_base_t::pipe_terminated()
SessionPipeTermAck ==
  /\ Command(Session, "pipe_term_ack") /\ ProcessPipeTermAck(Session)
  /\ ref' = NULL
  /\ has_linger_timer' = (has_linger_timer /\ ref # "pipe")
  /\ IF pending
     THEN pending' = FALSE /\ life' = "terminating"
     ELSE UNCHANGED <<pending, life>>
  /\ UNCHANGED <<todo, opt, engine, connecting, incomplete_in, errors, socketVars, userVars>>

\* Mutant: no timer ends the lingering.
SessionTermUntimed ==
  /\ Command(Session, "term")
  /\ commands' = Taken(Session)
  /\ IF ref = NULL
     THEN life' = "terminating" /\ UNCHANGED <<pending, todo>>
     ELSE /\ pending' = TRUE
          /\ Do(Session, IF ref = "pipe" THEN <<"linger">> ELSE <<>>)
          /\ UNCHANGED life
  /\ UNCHANGED <<end, upipe, failed, opt, engine, connecting, ref, incomplete_in, has_linger_timer, errors,
                 socketVars, userVars>>

\* session_base_t::process_term()
SessionTerm ==
  /\ Command(Session, "term")
  /\ Require("process_term", ~pending /\ (ref = "pipe" /\ opt.linger > 0 => ~has_linger_timer))
  /\ commands' = Taken(Session)
  /\ \/ /\ ref = NULL
        /\ life' = "terminating"
        /\ UNCHANGED <<todo, pending, has_linger_timer>>
     \/ /\ ref = "terminating"
        /\ pending' = TRUE
        /\ UNCHANGED <<todo, has_linger_timer, life>>
     \/ /\ ref = "pipe"
        /\ pending' = TRUE
        /\ has_linger_timer' = (has_linger_timer \/ opt.linger > 0)
        /\ Do(Session, <<"linger">>)
        /\ UNCHANGED life
  /\ UNCHANGED <<end, upipe, opt, engine, connecting, ref, incomplete_in, errors, socketVars, userVars>>

\* Its call of pipe_t::terminate()
Linger ==
  /\ ~Idle(Session) /\ Head(todo[Session]) = "linger"
  /\ Terminate(Session, opt.linger # 0)
  /\ Then(Session, DelimiterAfter(Session) \o <<"check_read">>)
  /\ UNCHANGED <<opt, sessionVars, socketVars, userVars>>

SessionCommand == EndProcesses(Session) \/ SessionActivateRead \/ SessionPipeTermAck \/ SessionTerm

\* What own_t does once the session has called its process_term()
Destroy ==
  /\ Idle(Session) /\ life = "terminating"
  /\ life' = "destroyed" /\ engine' = FALSE /\ has_linger_timer' = FALSE
  /\ UNCHANGED <<pipeVars, opt, connecting, ref, pending, incomplete_in, errors, socketVars, userVars>>

-----------------------------------------------------------------------------
SocketThread == SocketContinues \/ SocketCommand
SessionThread == SessionContinues \/ Linger \/ SessionCommand

Next ==
  \/ SocketSend \/ SocketRecv \/ SocketTerminate \/ SocketClose \/ SocketSetHwm
  \/ SessionPull \/ SessionPush \/ Attach \/ EngineError \/ LingerTimer
  \/ SocketThread \/ SessionThread \/ Destroy

\* The application need not look after a socket that is open.  The I/O thread
\* runs, connections come back, and whoever is connected takes messages.
Spec ==
  /\ Init /\ [][Next]_vars
  /\ WF_vars(SocketContinues) /\ WF_vars(closed /\ SocketCommand)
  /\ WF_vars(SessionThread) /\ WF_vars(LingerTimer) /\ WF_vars(Destroy)
  /\ WF_vars(Attach) /\ WF_vars(SessionPull)

-----------------------------------------------------------------------------
(* Properties *)

Live(e) == end[e].state # "gone"
PipeCommand(cmd) == cmd[1] \notin {"term", "term_req"}

\* The assertions of pipe.cpp and session_base.cpp hold: no command of the
\* termination protocol meets an end in a state that does not expect it, "term"
\* comes once, and clean_pipes() finds the rest of a message that was read in part.
AssertsHold == failed = {}

\* No end uses a ypipe that was deleted, no command is for an end that deleted
\* itself, and no ypipe is forgotten, although the ends delete each other's
\* pipes and hiccup() hands them over in between.
NoDanglingPipe ==
  /\ \A e \in End : Live(e) => end[e].inpipe \in DOMAIN upipe /\ end[e].outpipe \in DOMAIN upipe \cup {NULL}
  /\ \A e \in End : \A cmd \in Range(commands[e]) :
       /\ PipeCommand(cmd) => Live(e)
       /\ cmd[1] = "hiccup" => cmd[2] \in DOMAIN upipe
  /\ \A u \in DOMAIN upipe :
       \/ \E e \in End : u \in {end[e].inpipe, end[e].outpipe}
       \/ \E e \in End : <<"hiccup", u>> \in Range(commands[e])

\* The application, and each connection, is given messages in one piece and in
\* order, whatever is rolled back, drained or dropped when a connection breaks or
\* an end terminates.
WholeMessages ==
  [][\A e \in End : last'[e] \notin {last[e], Nothing} =>
       IF last[e].more
       THEN last'[e].id = last[e].id /\ last'[e].part = 2
       ELSE last'[e].id > last[e].id /\ last'[e].part = 1]_vars

\* "If true, we receive all the pending inbound messages before terminating"
\* (pipe.hpp:220): a session that lingers and acknowledges the termination has
\* read every message that the socket had completed.
LingerLosesNothing ==
  end[Session].state = "term_ack_sent" /\ end[Session].delay
    => end[Session].msgs_read = end[Socket].msgs_written

\* A writer that stopped at the high water mark has unread messages in front of
\* it, or the command that resumes it is under way.
StalledIsResumed ==
  \A e \in End :
    end[e].state = "active" /\ ~end[e].out_active /\ end[Peer(e)].state = "active" =>
      \/ \E item \in Range(Outpipe(e).items) : ~item.more
      \/ \E cmd \in Range(commands[e]) : cmd[1] \in {"activate_write", "hiccup"}

\* A reader that found nothing and stopped is told when there is something.
SleeperIsWoken ==
  \A e \in End :
    end[e].state \in {"active", "waiting_for_delimiter"} /\ ~end[e].in_active /\ Inpipe(e).flushed > 0
      => <<"activate_read">> \in Range(commands[e])

\* No activate_read and no activate_write is lost between the two ends: whoever
\* stopped has a reason to, or will hear from the other.
NoLostActivation == StalledIsResumed /\ SleeperIsWoken

\* "The termination will happen asynchronously and user will be notified about
\* actual deallocation" (pipe.hpp:127): after zmq_close() both ends go, and
\* nothing keeps the session from terminating.
SessionEnds == closed ~> (life = "destroyed" /\ \A e \in End : ~Live(e))
=============================================================================
