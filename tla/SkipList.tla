------------------------------ MODULE SkipList ------------------------------
(***************************************************************************)
(* The list under a memtable (src/leveldb/db/skiplist.h): one writer at a  *)
(* time inserts, readers search and iterate without a lock.                *)
(*                                                                         *)
(* A node is its key.  A step is one access to shared memory: next_ is     *)
(* stored with release and loaded with acquire, so its accesses keep their *)
(* order; max_height_ has no barrier, and a load of it may return any      *)
(* value it has had.                                                       *)
(***************************************************************************)
EXTENDS Integers

CONSTANTS
  NumKeys,        \* keys are 1..NumKeys
  kMaxHeight,
  Reader, Writer, \* threads
  Garbage         \* a pointer that was not initialized

ASSUME ListAssumption ==
  /\ NumKeys \in Nat /\ kMaxHeight \in Nat \ {0}
  /\ Writer \notin Reader /\ Garbage \notin Int

Key == 1..NumKeys
head_ == 0
NULL == NumKeys + 1        \* sorts after all keys
Level == 0 .. kMaxHeight - 1
Thread == Reader \cup {Writer}

VARIABLES
  next_,          \* next_[n][l]: the link of node n in level l
  links,          \* links[n]: in how many levels n was linked, from level 0
  heights,        \* the values max_height_ has had
  search,         \* what each thread does, and its last result
  prev,           \* of Insert()
  height          \* of the node that Insert() links

vars == <<next_, links, heights, search, prev, height>>

Linked(n, l) == n = head_ \/ (n \in Key /\ l < links[n])
Present == {k \in Key : Linked(k, 0)}

\* seen: the keys in the list when the operation began
Done(op, target, node) ==
  [at |-> "done", op |-> op, target |-> target, x |-> head_, level |-> 0, node |-> node, seen |-> Present]

Init ==
  /\ next_ = [n \in {head_} \cup Key |-> [l \in Level |-> IF n = head_ THEN NULL ELSE Garbage]]
  /\ links = [n \in Key |-> 0]
  /\ heights = {1}
  /\ search = [t \in Thread |-> [at |-> "done", op |-> "forward", target |-> NULL, x |-> head_,
                                 level |-> 0, node |-> NULL, seen |-> {}]]
  /\ prev = [l \in Level |-> head_]
  /\ height = 0

-----------------------------------------------------------------------------
(* FindGreaterOrEqual(), FindLessThan() and FindLast() *)

\* Mutant: the node with the key itself counts as before it.
KeyIsAfterOrAtNode(key, n) == n # NULL /\ n <= key

KeyIsAfterNode(key, n) == n # NULL /\ n < key

\* A search begins at head_, in a level that GetMaxHeight() allows.
Begin(t, op, target) ==
  \E h \in IF t = Writer THEN {m \in heights : \A i \in heights : i <= m} ELSE heights :
    search' = [search EXCEPT ![t] = [at |-> "search", op |-> op, target |-> target, x |-> head_,
                                     level |-> h - 1, node |-> NULL, seen |-> Present]]

\* The loop goes on in its list,
Advance(t) ==
  LET me == search[t]
      next == next_[me.x][me.level]
  IN /\ me.at = "search" /\ KeyIsAfterNode(me.target, next)
     /\ search' = [search EXCEPT ![t].x = next]
     /\ UNCHANGED <<next_, links, heights, prev, height>>

\* or switches to the next list,
Descend(t) ==
  LET me == search[t] IN
  /\ me.at = "search" /\ me.level > 0
  /\ ~KeyIsAfterNode(me.target, next_[me.x][me.level])
  /\ search' = [search EXCEPT ![t].level = me.level - 1]
  /\ prev' = IF t = Writer THEN [prev EXCEPT ![me.level] = me.x] ELSE prev
  /\ UNCHANGED <<next_, links, heights, height>>

\* or returns: the node before the target or the one after.
Return(t) ==
  LET me == search[t]
      next == next_[me.x][0]
      before == IF me.x = head_ THEN NULL ELSE me.x
  IN /\ t # Writer /\ me.at = "search" /\ me.level = 0
     /\ ~KeyIsAfterNode(me.target, next)
     /\ search' = [search EXCEPT ![t].at = "done", ![t].node = IF me.op = "forward" THEN next ELSE before]
     /\ UNCHANGED <<next_, links, heights, prev, height>>

-----------------------------------------------------------------------------
(* SkipList::Iterator; a node that is NULL is not Valid() *)

Ready(t) == search[t].at = "done"

Seek(r, target) ==
  /\ Ready(r) /\ Begin(r, "forward", target)
  /\ UNCHANGED <<next_, links, heights, prev, height>>

SeekToFirst(r) ==
  /\ Ready(r)
  /\ search' = [search EXCEPT ![r] = Done("forward", 1, next_[head_][0])]
  /\ UNCHANGED <<next_, links, heights, prev, height>>

SeekToLast(r) ==
  /\ Ready(r) /\ Begin(r, "backward", NULL)
  /\ UNCHANGED <<next_, links, heights, prev, height>>

IteratorNext(r) ==
  LET n == search[r].node IN
  /\ Ready(r) /\ n # NULL
  /\ search' = [search EXCEPT ![r] = Done("forward", n + 1, next_[n][0])]
  /\ UNCHANGED <<next_, links, heights, prev, height>>

IteratorPrev(r) ==
  LET n == search[r].node IN
  /\ Ready(r) /\ n # NULL /\ Begin(r, "backward", n)
  /\ UNCHANGED <<next_, links, heights, prev, height>>

-----------------------------------------------------------------------------
(* SkipList::Insert(), of a key that is not in the list *)

Insert(k) ==
  /\ Ready(Writer) /\ k \notin Present
  /\ Begin(Writer, "forward", k)
  /\ UNCHANGED <<next_, links, heights, prev, height>>

\* The search has come to an end; RandomHeight() may raise the list.
RaiseHeight(h) ==
  LET me == search[Writer] IN
  /\ me.at = "search" /\ me.level = 0
  /\ ~KeyIsAfterNode(me.target, next_[me.x][0])
  /\ height' = h
  /\ heights' = IF \A m \in heights : m < h THEN heights \cup {h} ELSE heights
  /\ prev' = [l \in Level |-> IF l = 0 THEN me.x
                              ELSE IF \A m \in heights : m <= l THEN head_ ELSE prev[l]]
  /\ search' = [search EXCEPT ![Writer].at = "init"]
  /\ UNCHANGED <<next_, links>>

\* Mutant: a new node gets its link in level 0 only.
InitLowestNext ==
  LET me == search[Writer] IN
  /\ me.at = "init"
  /\ next_' = IF me.level > 0 THEN next_ ELSE [next_ EXCEPT ![me.target][0] = next_[prev[0]][0]]
  /\ search' = [search EXCEPT ![Writer].at = "publish"]
  /\ UNCHANGED <<links, heights, prev, height>>

\* x->NoBarrier_SetNext(i, ...)
InitNext ==
  LET me == search[Writer] IN
  /\ me.at = "init"
  /\ next_' = [next_ EXCEPT ![me.target][me.level] = next_[prev[me.level]][me.level]]
  /\ search' = [search EXCEPT ![Writer].at = "publish"]
  /\ UNCHANGED <<links, heights, prev, height>>

\* prev[i]->SetNext(i, x)
Publish ==
  LET me == search[Writer] IN
  /\ me.at = "publish"
  /\ next_' = [next_ EXCEPT ![prev[me.level]][me.level] = me.target]
  /\ links' = [links EXCEPT ![me.target] = me.level + 1]
  /\ search' = [search EXCEPT
       ![Writer] = IF me.level + 1 < height THEN [@ EXCEPT !.at = "init", !.level = me.level + 1]
                   ELSE [@ EXCEPT !.at = "done", !.level = 0, !.node = me.target]]
  /\ UNCHANGED <<heights, prev, height>>

-----------------------------------------------------------------------------
WriterStep ==
  \/ \E k \in Key : Insert(k)
  \/ \E h \in 1..kMaxHeight : RaiseHeight(h)
  \/ InitNext \/ Publish

ReaderStep(r) ==
  \/ \E k \in Key : Seek(r, k)
  \/ SeekToFirst(r) \/ SeekToLast(r) \/ IteratorNext(r) \/ IteratorPrev(r) \/ Return(r)

Next ==
  \/ WriterStep
  \/ \E r \in Reader : ReaderStep(r)
  \/ \E t \in Thread : Advance(t) \/ Descend(t)

Spec == Init /\ [][Next]_vars

-----------------------------------------------------------------------------
(* Properties *)

\* No search follows a pointer that Insert() has not initialized: whoever meets
\* a node in some level may go down from there.
NoGarbageRead == \A t \in Thread : search[t].at = "search" => next_[search[t].x][search[t].level] # Garbage

\* The result of me is the neighbour of its target, among the keys it had to see.
IsNeighbour(me) ==
  /\ me.node = NULL \/ Linked(me.node, 0)
  /\ me.op = "forward" => me.target <= me.node /\ \A k \in me.seen : ~(me.target <= k /\ k < me.node)
  /\ me.op = "backward" =>
       LET n == IF me.node = NULL THEN head_ ELSE me.node IN
       n < me.target /\ \A k \in me.seen : ~(n < k /\ k < me.target)

\* A node an iterator comes to is in the list and on the right side of the
\* target, and no key between the two was in the list when the search began,
\* whatever was inserted meanwhile and however old max_height_ was.
MissesNothing == \A r \in Reader : Ready(r) => IsNeighbour(search[r])
=============================================================================
