----------------------------- MODULE Ownership -----------------------------
(***************************************************************************)
(* How ZeroMQ objects come and go (src/zmq/own.cpp, ctx.cpp, reaper.cpp):  *)
(* a socket owns its listeners and sessions, a listener the sessions it    *)
(* accepts, a session its connecters, and each lives in the thread of its  *)
(* choice.  The threads talk in commands (src/zmq/object.cpp) only, and an *)
(* object may be deleted when no command can be under way to it.           *)
(*                                                                         *)
(* A handler is one step, but for launch_child(), whose two commands go to *)
(* two threads; todo[t] is what thread t has left of it.  Of a pipe there  *)
(* is only the handshake that ends it, the rest is in module Session.      *)
(***************************************************************************)
EXTENDS Integers, Sequences, FiniteSets, SequencesExt

CONSTANTS
  Socket,               \* sockets; one of them, Root, binds and connects
  Root,
  Listener, Accepted,   \* a listener of Root, and the session it accepts
  Connected, Connecter, \* a session of Root, and the connecters it may launch
  IoThreads,
  Plan,                 \* what the application may do: the sockets it has, what it launches
                        \* and in which thread, whether connections are immediate and made
                        \* again, whether it ends them or gives up pipes, and whether it
                        \* closes its sockets before zmq_ctx_term(), which is not interrupted
  Windows,              \* which of the cases that fail are part of the model
  NULL

Session == {Accepted, Connected}
Object == Socket \cup Session \cup Connecter \cup {Listener}

Owner(o) ==
  IF o \in Socket THEN NULL
  ELSE IF o = Accepted THEN Listener
  ELSE IF o \in Connecter THEN Connected
  ELSE Root

VARIABLES
  obj,                  \* own_t of each object, with what it knows of engines and plugs
  pipe,                 \* of each session, the pipes it has had, with the state of either end
  mail,                 \* the mailbox of each thread
  todo,
  plan,
  endpoints,            \* what Root can still disconnect from or unbind
  reaped, closed,       \* sockets
  ctx, registered,      \* ctx_t: "open", "stopped" by shutdown() or an interrupted call of
                        \* terminate(), in terminate() ("terminating"), "gone"; sockets
  reaper,               \* reaper_t: terminating and the number of sockets
  failed                \* assertions that did not hold

vars == <<obj, pipe, mail, todo, plan, endpoints, reaped, closed, ctx, registered, reaper, failed>>
adminVars == <<plan, endpoints, reaped, closed, ctx, registered, reaper>>

Unborn ==
  [life |-> "none", terminating |-> FALSE, owned |-> {}, sent |-> 0, processed |-> 0, acks |-> 0,
   plugged |-> FALSE, engine |-> FALSE, pipe |-> 0, pending |-> FALSE, stopped |-> FALSE]
Born == [Unborn EXCEPT !.life = "alive"]

Io == plan.io
MailboxOf(o) == IF o \in DOMAIN Io THEN Io[o] ELSE o
ThreadOf(o) == IF o \in reaped THEN "reaper" ELSE MailboxOf(o)

Init ==
  /\ plan \in Plan
  /\ obj = [o \in Object |-> IF o \in plan.sockets THEN Born ELSE Unborn]
  /\ pipe = [s \in Session |-> <<>>]
  /\ mail = [t \in IoThreads \cup Socket \cup {"reaper", "term"} |-> <<>>]
  /\ todo = [t \in IoThreads \cup Socket \cup {"reaper"} |-> <<>>]
  /\ endpoints = {} /\ reaped = {} /\ closed = {}
  /\ ctx = "open" /\ registered = plan.sockets
  /\ reaper = [terminating |-> FALSE, sockets |-> 0, running |-> TRUE]
  /\ failed = {}

-----------------------------------------------------------------------------
(* object_t *)

Cmd(to, type, arg) == [to |-> to, type |-> type, arg |-> arg]

\* Commands to any objects, after thread t has taken the first of a mailbox, or not
Posted(box, cmds) == [t \in DOMAIN box |-> box[t] \o SelectSeq(cmds, LAMBDA cmd : MailboxOf(cmd.to) = t)]
Taken(o) == [mail EXCEPT ![MailboxOf(o)] = Tail(@)]

Idle(t) == todo[t] = <<>>

Command(o, type) ==
  LET box == mail[MailboxOf(o)] IN
  /\ box # <<>> /\ Head(box).type = type /\ Head(box).to = o
  /\ Idle(ThreadOf(o)) /\ o \notin closed \ reaped

Arg(o) == Head(mail[MailboxOf(o)]).arg

Require(assertions) == failed' = failed \cup {a \in DOMAIN assertions : ~assertions[a]}

-----------------------------------------------------------------------------
(* own_t *)

Finished(me) == me.terminating /\ me.processed = me.sent /\ me.acks = 0

\* check_term_acks(), at the end of a handler that made me of o
Settled(o, me) ==
  IF ~Finished(me) THEN me
  ELSE [me EXCEPT !.life = IF o \in Socket THEN "finished" ELSE "deleted"]

TermAck(o, me) == IF Finished(me) /\ Owner(o) # NULL THEN <<Cmd(Owner(o), "term_ack", o)>> ELSE <<>>

Handled(o, me, cmds) ==
  /\ obj' = [obj EXCEPT ![o] = Settled(o, me)]
  /\ mail' = Posted(Taken(o), cmds \o TermAck(o, me))

Terms(objects) == SetToSeq({Cmd(o, "term", NULL) : o \in objects})

Terminating(me) ==
  [me EXCEPT !.terminating = TRUE, !.acks = @ + Cardinality(me.owned), !.owned = {}]

process_seqnum(me) == [me EXCEPT !.processed = @ + 1]

\* terminate() of an object with an owner
TermReq(o) == IF obj[o].terminating THEN <<>> ELSE <<Cmd(Owner(o), "term_req", o)>>

launch_child(child) == <<<<"plug", child>>, <<"own", child>>>>

SendPlug(t) ==
  /\ ~Idle(t) /\ Head(todo[t])[1] = "plug"
  /\ LET child == Head(todo[t])[2] IN
     /\ obj' = [obj EXCEPT ![child].sent = @ + 1]
     /\ mail' = Posted(mail, <<Cmd(child, "plug", NULL)>>)
  /\ todo' = [todo EXCEPT ![t] = Tail(@)]
  /\ UNCHANGED <<pipe, adminVars, failed>>

SendOwn(t) ==
  /\ ~Idle(t) /\ Head(todo[t])[1] = "own"
  /\ LET child == Head(todo[t])[2] IN
     /\ obj' = [obj EXCEPT ![Owner(child)].sent = @ + 1]
     /\ mail' = Posted(mail, <<Cmd(Owner(child), "own", child)>>)
  /\ todo' = [todo EXCEPT ![t] = Tail(@)]
  /\ UNCHANGED <<pipe, adminVars, failed>>

\* Mutant: a child that comes too late is told to terminate, but not waited for.
ProcessOwnForgets(o) ==
  /\ Command(o, "own")
  /\ LET me == process_seqnum(obj[o]) IN
     IF me.terminating
     THEN Handled(o, me, Terms({Arg(o)}))
     ELSE Handled(o, [me EXCEPT !.owned = @ \cup {Arg(o)}], <<>>)
  /\ UNCHANGED <<pipe, todo, adminVars, failed>>

ProcessOwn(o) ==
  /\ Command(o, "own")
  /\ LET me == process_seqnum(obj[o]) IN
     IF me.terminating
     THEN Handled(o, [me EXCEPT !.acks = @ + 1], Terms({Arg(o)}))
     ELSE Handled(o, [me EXCEPT !.owned = @ \cup {Arg(o)}], <<>>)
  /\ UNCHANGED <<pipe, todo, adminVars, failed>>

\* term_child() of o, after what box holds and cmds are sent
TermChild(o, child, box, cmds) ==
  IF obj[o].terminating \/ child \notin obj[o].owned
  THEN obj' = obj /\ mail' = Posted(box, cmds)
  ELSE /\ obj' = [obj EXCEPT ![o].owned = @ \ {child}, ![o].acks = @ + 1]
       /\ mail' = Posted(box, cmds \o Terms({child}))

ProcessTermReq(o) ==
  /\ Command(o, "term_req")
  /\ TermChild(o, Arg(o), Taken(o), <<>>)
  /\ UNCHANGED <<pipe, todo, adminVars, failed>>

ProcessTermAck(o) ==
  /\ Command(o, "term_ack")
  /\ Require([term_acks |-> obj[o].acks > 0])
  /\ Handled(o, [obj[o] EXCEPT !.acks = @ - 1], <<>>)
  /\ UNCHANGED <<pipe, todo, adminVars>>

\* process_term() of a listener or a connecter, which closes its file descriptor
ProcessTerm(o) ==
  /\ o \notin Socket \cup Session /\ Command(o, "term")
  /\ Require([terminating |-> ~obj[o].terminating])
  /\ Handled(o, [Terminating(obj[o]) EXCEPT !.plugged = FALSE], Terms(obj[o].owned))
  /\ UNCHANGED <<pipe, todo, adminVars>>

-----------------------------------------------------------------------------
(* Pipes *)

\* What pipe_t::terminate() makes of an end, and what it sends to the other
TerminatedEnd(state, delay) ==
  IF state = "active" THEN "term_req_sent1"
  ELSE IF state = "waiting" /\ ~delay THEN "term_ack_sent"
  ELSE state

TerminateSends(state, delay, to, p) ==
  IF state = "active" THEN <<Cmd(to, "pipe_term", p)>>
  ELSE IF state = "waiting" /\ ~delay THEN <<Cmd(to, "pipe_term_ack", p)>>
  ELSE <<>>

\* A pipe is a session and a number; its ends.
Pipes == UNION {{<<s, n>> : n \in DOMAIN pipe[s]} : s \in Session}
Side(o) == IF o \in Socket THEN "socket" ELSE "session"
Opposite(o, p) == IF o \in Socket THEN p[1] ELSE Root
End(o, p) == pipe[p[1]][p[2]][Side(o)]
WithEnd(o, p, state) == [pipe EXCEPT ![p[1]][p[2]][Side(o)] = state]

\* pipe_t::terminate() at the end of o, after what box holds and cmds are sent
TerminatePipe(o, p, delay, box, cmds) ==
  /\ pipe' = WithEnd(o, p, TerminatedEnd(End(o, p), delay))
  /\ mail' = Posted(box, cmds \o TerminateSends(End(o, p), delay, Opposite(o, p), p))

\* An end that is told to terminate waits for the delimiter, unless it has read
\* it or need not.
ProcessPipeTerm(o) ==
  /\ Command(o, "pipe_term")
  /\ LET p == Arg(o)
         state == End(o, p)
     IN /\ Require([pipe_term |-> state \in {"active", "term_req_sent1"}])
        /\ \/ /\ state = "active"
              /\ pipe' = WithEnd(o, p, "waiting")
              /\ mail' = Taken(o)
           \/ /\ pipe' = WithEnd(o, p, IF state = "active" THEN "term_ack_sent" ELSE "term_req_sent2")
              /\ mail' = Posted(Taken(o), <<Cmd(Opposite(o, p), "pipe_term_ack", p)>>)
  /\ UNCHANGED <<obj, todo, adminVars>>

\* The delimiter is read, or the time to linger is over.
ReadDelimiter(o, p) ==
  /\ Idle(ThreadOf(o)) /\ o \notin closed \ reaped
  /\ End(o, p) = "waiting"
  /\ pipe' = WithEnd(o, p, "term_ack_sent")
  /\ mail' = Posted(mail, <<Cmd(Opposite(o, p), "pipe_term_ack", p)>>)
  /\ UNCHANGED <<obj, todo, adminVars, failed>>

\* The pipes session s has not heard the end of, its pipe and its terminating_pipes
Held(s) == {n \in DOMAIN pipe[s] : pipe[s][n].session # "gone"}

\* Mutant: a socket counts the end of a pipe it did not wait for.
PipeTerminatedAlways(o, p) ==
  IF o \in Socket THEN [obj[o] EXCEPT !.acks = @ - 1]
  ELSE LET me == [obj[o] EXCEPT !.pipe = IF @ = p[2] THEN 0 ELSE @]
       IN IF me.pending /\ Held(o) = {p[2]} THEN [Terminating(me) EXCEPT !.pending = FALSE] ELSE me

\* pipe_terminated() of a socket and of a session
PipeTerminated(o, p) ==
  IF o \in Socket THEN [obj[o] EXCEPT !.acks = IF obj[o].terminating THEN @ - 1 ELSE @]
  ELSE LET me == [obj[o] EXCEPT !.pipe = IF @ = p[2] THEN 0 ELSE @]
       IN IF me.pending /\ Held(o) = {p[2]} THEN [Terminating(me) EXCEPT !.pending = FALSE] ELSE me

ProcessPipeTermAck(o) ==
  /\ Command(o, "pipe_term_ack")
  /\ LET p == Arg(o)
         state == End(o, p)
         me == PipeTerminated(o, p)
     IN /\ Require([pipe_term_ack |-> state \in {"term_req_sent1", "term_req_sent2", "term_ack_sent"},
                    term_acks |-> me.acks >= 0,
                    terminating |-> ~(obj[o].pending /\ obj[o].terminating)])
        /\ pipe' = WithEnd(o, p, "gone")
        /\ Handled(o, me,
                   (IF me.terminating THEN Terms(obj[o].owned) ELSE <<>>)
                     \o (IF state = "term_req_sent1" THEN <<Cmd(Opposite(o, p), "pipe_term_ack", p)>> ELSE <<>>))
  /\ UNCHANGED <<todo, adminVars>>

-----------------------------------------------------------------------------
(* Sessions, connecters and listeners *)

Unused == {o \in Connecter : obj[o].life = "none"}

\* process_plug(): an active session starts to connect.
ProcessPlug(o) ==
  /\ Command(o, "plug")
  /\ IF o = Connected
     THEN LET c == CHOOSE c \in Unused : TRUE IN
          /\ obj' = [obj EXCEPT ![c] = Born]
          /\ todo' = [todo EXCEPT ![ThreadOf(o)] = launch_child(c) \o <<<<"seqnum", o>>>>]
          /\ mail' = Taken(o)
     ELSE /\ Handled(o, [process_seqnum(obj[o]) EXCEPT !.plugged = ~obj[o].terminating], <<>>)
          /\ UNCHANGED todo
  /\ UNCHANGED <<pipe, adminVars, failed>>

Seqnum(t) ==
  /\ ~Idle(t) /\ Head(todo[t])[1] = "seqnum"
  /\ LET o == Head(todo[t])[2]
         me == process_seqnum(obj[o])
     IN /\ obj' = [obj EXCEPT ![o] = Settled(o, me)]
        /\ mail' = Posted(mail, TermAck(o, me))
  /\ todo' = [todo EXCEPT ![t] = Tail(@)]
  /\ UNCHANGED <<pipe, adminVars, failed>>

\* tcp_listener_t::in_event()
Accept ==
  /\ Idle(Io[Listener]) /\ obj[Listener].plugged /\ obj[Accepted].life = "none"
  /\ obj' = [obj EXCEPT ![Accepted] = [Born EXCEPT !.sent = 1]]
  /\ todo' = [todo EXCEPT ![Io[Listener]] = launch_child(Accepted) \o <<<<"attach", Accepted>>>>]
  /\ UNCHANGED <<pipe, mail, adminVars, failed>>

SendAttach(t) ==
  /\ ~Idle(t) /\ Head(todo[t])[1] = "attach"
  /\ mail' = Posted(mail, <<Cmd(Head(todo[t])[2], "attach", NULL)>>)
  /\ todo' = [todo EXCEPT ![t] = Tail(@)]
  /\ UNCHANGED <<obj, pipe, adminVars, failed>>

\* Mutant: the engine is sent without a sequence number.
ConnectUncounted(c) ==
  /\ Idle(Io[c]) /\ obj[c].plugged
  /\ obj' = [obj EXCEPT ![c].plugged = FALSE]
  /\ mail' = Posted(mail, <<Cmd(Connected, "attach", NULL)>> \o TermReq(c))
  /\ UNCHANGED <<pipe, todo, adminVars, failed>>

\* tcp_connecter_t::out_event() with a connection
Connect(c) ==
  /\ Idle(Io[c]) /\ obj[c].plugged
  /\ obj' = [obj EXCEPT ![c].plugged = FALSE, ![Connected].sent = @ + 1]
  /\ mail' = Posted(mail, <<Cmd(Connected, "attach", NULL)>> \o TermReq(c))
  /\ UNCHANGED <<pipe, todo, adminVars, failed>>

\* process_attach(), which makes a pipe if there is none
ProcessAttach(s) ==
  /\ Command(s, "attach")
  /\ Require([engine |-> ~obj[s].engine])
  /\ LET me == [process_seqnum(obj[s]) EXCEPT !.engine = TRUE]
         n == Len(pipe[s]) + 1
     IN IF me.pipe = 0 /\ ~me.terminating
        THEN /\ obj' = [obj EXCEPT ![s] = [me EXCEPT !.pipe = n], ![Root].sent = @ + 1]
             /\ pipe' = [pipe EXCEPT ![s] = Append(@, [socket |-> "unattached", session |-> "active"])]
             /\ mail' = Posted(Taken(s), <<Cmd(Root, "bind", <<s, n>>)>>)
        ELSE Handled(s, me, <<>>) /\ UNCHANGED pipe
  /\ UNCHANGED <<todo, adminVars>>

\* The first part of reconnect(): the pipe of an immediate connection goes with it.
\* hiccup() does nothing if the delimiter was read.
DropPipe(s) ==
  LET p == <<s, obj[s].pipe>> IN
  IF ~plan.immediate \/ obj[s].pipe = 0
  THEN UNCHANGED <<pipe, mail>>
  ELSE \/ /\ End(s, p) = "active"
          /\ TerminatePipe(s, p, FALSE, mail, <<Cmd(Root, "hiccup", p)>>)
       \/ /\ End(s, p) = "active" => End(Root, p) \notin {"active", "unattached"}
          /\ TerminatePipe(s, p, FALSE, mail, <<>>)

\* engine_error(), with reconnect(), which need not connect again, or terminate()
EngineError(s) ==
  /\ Idle(Io[s]) /\ obj[s].engine /\ obj[s].life = "alive"
  /\ \/ /\ s = Connected /\ DropPipe(s)
        /\ LET me == [obj[s] EXCEPT !.engine = FALSE, !.pipe = IF plan.immediate THEN 0 ELSE @]
               c == CHOOSE c \in Unused : TRUE
           IN \/ /\ plan.reconnects /\ Unused # {}
                 /\ obj' = [obj EXCEPT ![s] = me, ![c] = Born]
                 /\ todo' = [todo EXCEPT ![Io[s]] = launch_child(c)]
              \/ /\ ~plan.reconnects
                 /\ obj' = [obj EXCEPT ![s] = me]
                 /\ UNCHANGED todo
     \/ /\ obj' = [obj EXCEPT ![s].engine = FALSE]
        /\ mail' = Posted(mail, TermReq(s))
        /\ UNCHANGED <<pipe, todo>>
  /\ UNCHANGED <<adminVars, failed>>

\* session_base_t::process_term()
SessionTerm(s) ==
  /\ s \in Session /\ Command(s, "term")
  /\ Require([pending |-> ~obj[s].pending, terminating |-> ~obj[s].terminating])
  /\ IF Held(s) = {}
     THEN Handled(s, Terminating(obj[s]), Terms(obj[s].owned)) /\ UNCHANGED pipe
     ELSE /\ obj' = [obj EXCEPT ![s].pending = TRUE]
          /\ IF obj[s].pipe = 0
             THEN mail' = Taken(s) /\ UNCHANGED pipe
             ELSE \E delay \in BOOLEAN : TerminatePipe(s, <<s, obj[s].pipe>>, delay, Taken(s), <<>>)
  /\ UNCHANGED <<todo, adminVars>>

-----------------------------------------------------------------------------
(* Sockets *)

\* zmq_bind() or zmq_connect(); unless it is immediate, a connection has its pipe
\* at once.
Endpoint(o) ==
  /\ Idle(Root) /\ Root \notin closed /\ ~obj[Root].stopped
  /\ o \in plan.launches /\ obj[o].life = "none"
  /\ endpoints' = endpoints \cup {o}
  /\ todo' = [todo EXCEPT ![Root] = launch_child(o)]
  /\ IF o = Connected /\ ~plan.immediate
     THEN /\ obj' = [obj EXCEPT ![o] = [Born EXCEPT !.pipe = 1]]
          /\ pipe' = [pipe EXCEPT ![o] = <<[socket |-> "active", session |-> "active"]>>]
     ELSE obj' = [obj EXCEPT ![o] = Born] /\ UNCHANGED pipe
  /\ UNCHANGED <<mail, plan, reaped, closed, ctx, registered, reaper, failed>>

\* zmq_unbind() or zmq_disconnect(), after the commands that have come; endpoints
\* keeps the address of the pipe when the pipe is gone.
TermEndpoint(o) ==
  /\ plan.ends
  /\ Idle(Root) /\ Root \notin closed /\ ~obj[Root].stopped /\ mail[Root] = <<>>
  /\ o \in endpoints /\ endpoints' = endpoints \ {o}
  /\ IF o = Connected /\ ~plan.immediate
     THEN LET p == <<o, 1>>
              state == End(Root, p)
          IN /\ state = "gone" => "stale_endpoint" \in Windows
             /\ Require([endpoint |-> state # "gone"])
             /\ pipe' = WithEnd(Root, p, TerminatedEnd(state, FALSE))
             /\ TermChild(Root, o, mail, TerminateSends(state, FALSE, o, p))
     ELSE TermChild(Root, o, mail, <<>>) /\ UNCHANGED <<pipe, failed>>
  /\ UNCHANGED <<todo, plan, reaped, closed, ctx, registered, reaper>>

\* A socket type gives up a pipe: a second peer of a PAIR, a request that is
\* replaced, an identity that is taken over.
GiveUpPipe(p) ==
  /\ plan.gives_up
  /\ Idle(Root) /\ Root \notin closed /\ End(Root, p) \in {"active", "waiting"}
  /\ \E delay \in BOOLEAN : TerminatePipe(Root, p, delay, mail, <<>>)
  /\ UNCHANGED <<obj, todo, adminVars, failed>>

\* process_hiccup() and hiccuped() of an immediate connection; nothing is done if
\* the delimiter was read.
ProcessHiccup(o) ==
  /\ Command(o, "hiccup")
  /\ LET p == Arg(o) IN
     /\ Require([hiccup |-> End(o, p) \notin {"term_ack_sent", "term_req_sent2", "gone"}])
     /\ \/ End(o, p) = "active" /\ TerminatePipe(o, p, FALSE, Taken(o), <<>>)
        \/ mail' = Taken(o) /\ UNCHANGED pipe
  /\ UNCHANGED <<obj, todo, adminVars>>

ProcessStop(o) ==
  /\ Command(o, "stop")
  /\ obj' = [obj EXCEPT ![o].stopped = TRUE]
  /\ mail' = Taken(o)
  /\ UNCHANGED <<pipe, todo, adminVars, failed>>

\* process_bind(), with attach_pipe()
ProcessBind(o) ==
  /\ Command(o, "bind")
  /\ LET me == process_seqnum(obj[o])
         p == Arg(o)
     IN IF me.terminating
        THEN /\ pipe' = WithEnd(o, p, TerminatedEnd("active", FALSE))
             /\ Handled(o, [me EXCEPT !.acks = @ + 1], TerminateSends("active", FALSE, p[1], p))
        ELSE /\ pipe' = WithEnd(o, p, "active")
             /\ Handled(o, me, <<>>)
  /\ UNCHANGED <<todo, adminVars, failed>>

Close(o) ==
  /\ o \in plan.sockets \ closed /\ Idle(o)
  /\ closed' = closed \cup {o}
  /\ mail' = Posted(mail, <<Cmd("reaper", "reap", o)>>)
  /\ UNCHANGED <<obj, pipe, todo, plan, endpoints, reaped, ctx, registered, reaper, failed>>

Attached(o) == IF o # Root THEN {} ELSE {p \in Pipes : End(Root, p) \notin {"unattached", "gone"}}

\* process_reap(), start_reaping() and the socket's process_term()
Reap ==
  /\ Idle("reaper") /\ mail["reaper"] # <<>> /\ Head(mail["reaper"]).type = "reap"
  /\ LET o == Arg("reaper")
         me == [Terminating(obj[o]) EXCEPT !.acks = @ + Cardinality(Attached(o))]
         pipe_terms == FoldLeft(LAMBDA cmds, p : cmds \o TerminateSends(End(Root, p), FALSE, p[1], p),
                                <<>>, SetToSeq(Attached(o)))
     IN /\ Require([terminating |-> ~obj[o].terminating])
        /\ reaped' = reaped \cup {o}
        /\ obj' = [obj EXCEPT ![o] = Settled(o, me)]
        /\ pipe' = IF o # Root THEN pipe
                   ELSE [s \in Session |-> [n \in DOMAIN pipe[s] |-> [pipe[s][n] EXCEPT !.socket = TerminatedEnd(@, FALSE)]]]
        /\ mail' = Posted(Taken("reaper"), pipe_terms \o Terms(obj[o].owned))
  /\ reaper' = [reaper EXCEPT !.sockets = @ + 1]
  /\ UNCHANGED <<todo, plan, endpoints, closed, ctx, registered>>

\* Mutant: the reaper is not told that this was the last socket.
CheckDestroySilently(o) ==
  /\ o \in reaped /\ Idle("reaper") /\ obj[o].life = "finished"
  /\ obj' = [obj EXCEPT ![o].life = "deleted"]
  /\ registered' = registered \ {o}
  /\ mail' = Posted(mail, <<Cmd("reaper", "reaped", NULL)>>)
  /\ UNCHANGED <<pipe, todo, plan, endpoints, reaped, closed, ctx, reaper, failed>>

\* check_destroy() and destroy_socket()
CheckDestroy(o) ==
  /\ o \in reaped /\ Idle("reaper") /\ obj[o].life = "finished"
  /\ obj' = [obj EXCEPT ![o].life = "deleted"]
  /\ registered' = registered \ {o}
  /\ mail' = Posted(mail, (IF ctx # "open" /\ registered' = {} THEN <<Cmd("reaper", "stop", NULL)>> ELSE <<>>)
                          \o <<Cmd("reaper", "reaped", NULL)>>)
  /\ UNCHANGED <<pipe, todo, plan, endpoints, reaped, closed, ctx, reaper, failed>>

-----------------------------------------------------------------------------
(* The reaper and the context *)

ReaperTakes(type) ==
  Idle("reaper") /\ reaper.running /\ mail["reaper"] # <<>> /\ Head(mail["reaper"]).type = type

\* The reaper goes on as next, and is done when it should stop and has no sockets.
ReaperGoesOn(next) ==
  LET done == next.terminating /\ next.sockets = 0 IN
  /\ reaper' = [next EXCEPT !.running = ~done]
  /\ mail' = Posted(Taken("reaper"), IF done THEN <<Cmd("term", "done", NULL)>> ELSE <<>>)

ReaperStop ==
  /\ ReaperTakes("stop")
  /\ ReaperGoesOn([reaper EXCEPT !.terminating = TRUE])
  /\ UNCHANGED <<obj, pipe, todo, plan, endpoints, reaped, closed, ctx, registered, failed>>

ReaperReaped ==
  /\ ReaperTakes("reaped")
  /\ ReaperGoesOn([reaper EXCEPT !.sockets = @ - 1])
  /\ UNCHANGED <<obj, pipe, todo, plan, endpoints, reaped, closed, ctx, registered, failed>>

\* ctx_t::shutdown(), or ctx_t::terminate() until it waits; the first of them
\* stops the sockets, or the reaper.
StopSockets == SetToSeq({Cmd(o, "stop", NULL) : o \in IF registered = {} THEN {"reaper"} ELSE registered})

CtxShutdown ==
  /\ ctx = "open" /\ ~plan.closes /\ ctx' = "stopped"
  /\ mail' = Posted(mail, StopSockets)
  /\ UNCHANGED <<obj, pipe, todo, plan, endpoints, reaped, closed, registered, reaper, failed>>

CtxTerminate ==
  /\ ctx \in {"open", "stopped"} /\ (plan.closes => closed = plan.sockets) /\ ctx' = "terminating"
  /\ mail' = IF ctx = "open" THEN Posted(mail, StopSockets) ELSE mail
  /\ UNCHANGED <<obj, pipe, todo, plan, endpoints, reaped, closed, registered, reaper, failed>>

\* The rest of terminate(): its wait is interrupted, or over.
CtxInterrupted ==
  /\ ctx = "terminating" /\ ~plan.closes /\ ctx' = "stopped"
  /\ UNCHANGED <<obj, pipe, mail, todo, plan, endpoints, reaped, closed, registered, reaper, failed>>

CtxDone ==
  /\ ctx = "terminating" /\ mail["term"] # <<>>
  /\ Require([sockets |-> registered = {}])
  /\ ctx' = "gone"
  /\ mail' = Taken("term")
  /\ UNCHANGED <<obj, pipe, todo, plan, endpoints, reaped, closed, registered, reaper>>

-----------------------------------------------------------------------------
OwnerCommand(o) ==
  \/ ProcessOwn(o) \/ ProcessTermReq(o) \/ ProcessTermAck(o)
  \/ ProcessPipeTerm(o) \/ ProcessPipeTermAck(o)

SocketCommand(o) == OwnerCommand(o) \/ ProcessStop(o) \/ ProcessBind(o) \/ ProcessHiccup(o)

IoCommand(o) == OwnerCommand(o) \/ ProcessPlug(o) \/ ProcessTerm(o) \/ ProcessAttach(o) \/ SessionTerm(o)

Continue(t) == SendPlug(t) \/ SendOwn(t) \/ SendAttach(t) \/ Seqnum(t)

IoThread(t) ==
  \/ Continue(t)
  \/ mail[t] # <<>> /\ IoCommand(Head(mail[t]).to)
  \/ \E p \in Pipes : Io[p[1]] = t /\ ReadDelimiter(p[1], p)

Reaper ==
  \/ Reap \/ ReaperStop \/ ReaperReaped
  \/ \E o \in reaped : SocketCommand(o) \/ CheckDestroy(o)

Next ==
  \/ \E o \in Socket \ reaped : SocketCommand(o) \/ Continue(o)
  \/ \E t \in IoThreads : IoThread(t)
  \/ \E s \in Session : EngineError(s)
  \/ \E p \in Pipes : ReadDelimiter(Root, p) \/ GiveUpPipe(p)
  \/ \E c \in Connecter : Connect(c)
  \/ \E o \in {Listener, Connected} : Endpoint(o) \/ TermEndpoint(o)
  \/ \E o \in Socket : Close(o)
  \/ Accept \/ Reaper \/ CtxShutdown \/ CtxTerminate \/ CtxInterrupted \/ CtxDone

\* When I/O threads, the reaper or terminate() can go on, one of them does, which
\* is less than that each of them runs; a pipe that waits is drained.
Spec ==
  /\ Init /\ [][Next]_vars
  /\ WF_vars((\E t \in IoThreads : IoThread(t)) \/ Reaper \/ CtxDone)

-----------------------------------------------------------------------------
(* Properties *)

\* The assertions of own.cpp, pipe.cpp, session_base.cpp and ctx.cpp hold: no
\* double termination, no acknowledgement too many, no socket left at the end.
AssertsHold == failed = {}

\* No command is under way to an object that is deleted, nor will a thread send
\* one: the sequence numbers count what check_term_acks() cannot see.  Only the
\* stop of a context may come too late, and is dropped with the mailbox.
NoCommandToTheDead ==
  /\ \A t \in DOMAIN mail : \A cmd \in ToSet(mail[t]) :
       cmd.to \in Object /\ obj[cmd.to].life = "deleted" => cmd.type = "stop"
  /\ \A t \in DOMAIN todo : \A call \in ToSet(todo[t]) :
       obj[call[2]].life # "deleted" /\ (call[1] = "own" => obj[Owner(call[2])].life # "deleted")

\* An object outlives what it owns, also what was launched while it terminated,
\* a socket the pipes that lead to it, and the context everything: when
\* zmq_ctx_term() returns no object is left and no thread has work.
ChildrenFirst ==
  /\ \A o \in Object : obj[o].life = "deleted" =>
       /\ \A child \in Object : Owner(child) = o => obj[child].life \in {"none", "deleted"}
       /\ o = Root => \A p \in Pipes : End(Root, p) = "gone"
  /\ ctx = "gone" =>
       /\ \A o \in Object : obj[o].life \in {"none", "deleted"}
       /\ \A t \in IoThreads : mail[t] = <<>> /\ todo[t] = <<>>
       /\ mail["reaper"] = <<>>

\* zmq_ctx_term() returns when every socket was closed, also if it is called once
\* more after zmq_ctx_shutdown() or an interruption: the context is gone, unless
\* the call is interrupted again.
TermReturns == (ctx = "terminating" /\ closed = plan.sockets) ~> (ctx \in {"gone", "stopped"})
=============================================================================
