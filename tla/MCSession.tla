----------------------------- MODULE MCSession -----------------------------
(* Model checking of Session: the kinds of sockets, lingering and messages.   *)
EXTENDS Session, TLC

Pair(socket, session) == Socket :> socket @@ Session :> session

Option(immediate, sub, active, linger, hwm, messages) ==
  [immediate |-> immediate, sub |-> sub, active |-> active, linger |-> linger,
   hwm |-> hwm, messages |-> messages, nodelay |-> FALSE, reconnect_ivl |-> 1]

\* The socket sends.  Left out are two that fail: a subscriber that lingers for
\* ever, and a linger timer where the pipe is replaced with the connection.
Sends == Pair(2, 0)

Senders ==
  {Option(FALSE, FALSE, active, linger, Pair(1, 1), Sends) : active \in BOOLEAN, linger \in {-1, 1}}
    \cup {Option(TRUE, FALSE, TRUE, linger, Pair(1, 1), Sends) : linger \in {-1, 0}}
    \cup {Option(FALSE, TRUE, TRUE, 1, Pair(1, 1), Sends)}

\* The socket receives, both ends send, a mark is changed where that does no
\* harm, and a subscriber whose session has a low water mark of 2
Others ==
  {Option(FALSE, FALSE, TRUE, 0, Pair(1, 1), Pair(0, 2)),
   Option(FALSE, FALSE, FALSE, -1, Pair(1, 1), Pair(1, 1)),
   Option(FALSE, FALSE, FALSE, -1, Pair(1, 0), Pair(2, 0)),
   Option(FALSE, TRUE, TRUE, 0, Pair(3, 1), Pair(4, 0))}

\* Sockets that do not read, and a connection that is not made again
Variants ==
  {[Option(FALSE, FALSE, FALSE, 1, Pair(1, 1), Sends) EXCEPT !.nodelay = TRUE],
   [Option(FALSE, FALSE, TRUE, 1, Pair(1, 1), Sends) EXCEPT !.nodelay = TRUE, !.reconnect_ivl = -1]}

MCOptions == Senders \cup Others \cup Variants
=============================================================================
