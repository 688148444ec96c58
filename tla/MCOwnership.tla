---------------------------- MODULE MCOwnership ----------------------------
(* Model checking of Ownership: what an application does, one thing at a time. *)
EXTENDS Ownership

CONSTANTS io1, io2

\* Parent and child in two threads; or all that belongs to a session in one
Apart == [o \in Object \ Socket |-> IF o \in {Listener, Connected} THEN io1 ELSE io2]
Together == [o \in Object \ Socket |-> io1]

Does(sockets, launches) ==
  [sockets |-> sockets, launches |-> launches, io |-> Apart, immediate |-> FALSE, reconnects |-> TRUE,
   ends |-> FALSE, gives_up |-> FALSE, closes |-> FALSE]

Closes(launches) == [Does({Root}, launches) EXCEPT !.closes = TRUE]

\* Two sockets, with the context; Root binds, and unbinds; it connects, once or
\* again, and disconnects; the pipe is replaced with the connection, or given up.
MCPlan ==
  {Does(Socket, {}),
   [Does({Root}, {Listener}) EXCEPT !.ends = TRUE],
   [Does({Root}, {Connected}) EXCEPT !.reconnects = FALSE],
   [Closes({Connected}) EXCEPT !.ends = TRUE],
   [Closes({Connected}) EXCEPT !.immediate = TRUE, !.ends = TRUE, !.io = Together],
   [Closes({Connected}) EXCEPT !.gives_up = TRUE, !.ends = TRUE, !.io = Together]}
=============================================================================
