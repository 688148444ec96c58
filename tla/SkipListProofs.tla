--------------------------- MODULE SkipListProofs ---------------------------
(***************************************************************************)
(* NoGarbageRead and MissesNothing for any number of readers, keys and     *)
(* levels.  The invariant describes each link by itself (Sorted): where it *)
(* leads, and that it passes over no node of its level.                    *)
(***************************************************************************)
EXTENDS SkipList, TLAPS

Node == {head_} \cup Key

SearchType ==
  [at : {"search", "done", "init", "publish"}, op : {"forward", "backward"}, target : Nat,
   x : Node, level : Level, node : Key \cup {NULL}, seen : SUBSET Key]

\* Every variable has its type.
TypeOK ==
  /\ next_ \in [Node -> [Level -> Key \cup {NULL, Garbage}]]
  /\ links \in [Key -> 0..kMaxHeight]
  /\ heights \in SUBSET (1..kMaxHeight)
  /\ search \in [Thread -> SearchType]
  /\ prev \in [Level -> Node]
  /\ height \in 0..kMaxHeight

\* The link of a node leads to the next node of its level.
Follows(n, l) ==
  LET m == next_[n][l] IN
  /\ m \in Key \cup {NULL} /\ n < m
  /\ m = NULL \/ Linked(m, l)
  /\ \A k \in Key : Linked(k, l) => ~(n < k /\ k < m)

Sorted == \A l \in Level : \A n \in Node : Linked(n, l) => Follows(n, l)

\* max_height_ has been as high as any node, and is known to all threads.
Covered ==
  /\ heights # {}
  /\ \E top \in heights : (\A h \in heights : h <= top) /\ (\A k \in Key : links[k] <= top)

\* A search is at a node of its level, before its target.
OnItsWay(me) ==
  /\ Linked(me.x, me.level)
  /\ me.x < me.target /\ me.target <= NULL
  /\ me.seen \subseteq Present

Searching == \A t \in Thread : search[t].at = "search" => OnItsWay(search[t])

\* prev[l] is where key k belongs in level l.
Precedes(l, k) == Linked(prev[l], l) /\ prev[l] < k /\ k <= next_[prev[l]][l]

\* What Insert() has found and done.
Inserting ==
  LET me == search[Writer] IN
  /\ me.at = "search" =>
       /\ me.target \in Key /\ links[me.target] = 0
       /\ \E top \in heights : me.level < top
       /\ \A l \in Level : me.level < l /\ (\E h \in heights : l < h) => Precedes(l, me.target)
  /\ me.at \in {"init", "publish"} =>
       /\ me.target \in Key /\ links[me.target] = me.level
       /\ me.level < height /\ \E h \in heights : height <= h
       /\ \A l \in Level : me.level <= l /\ l < height => Precedes(l, me.target)
  /\ me.at = "publish" => next_[me.target][me.level] = next_[prev[me.level]][me.level]
  /\ \A r \in Reader : search[r].at \in {"search", "done"}

IInv == TypeOK /\ Sorted /\ Covered /\ Searching /\ Inserting /\ MissesNothing

USE ListAssumption

-----------------------------------------------------------------------------
(* Steps of a reader *)

\* A reader's step changes what it knows itself and nothing of the list.
LEMMA ReaderFrame ==
  ASSUME IInv, NEW r \in Reader, NEW me \in SearchType,
         search' = [search EXCEPT ![r] = me],
         me.at \in {"search", "done"},
         me.at = "search" => OnItsWay(me),
         me.at = "done" => IsNeighbour(me),
         UNCHANGED <<next_, links, heights, prev, height>>
  PROVE  IInv'
<1> USE DEF IInv
<1>1. r # Writer /\ Writer \in Thread /\ r \in Thread
  BY Zenon DEF Thread
<1>2. TypeOK'
  BY <1>1, Zenon DEF TypeOK
<1>3. /\ search'[Writer] = search[Writer]
      /\ search'[r] = me
      /\ \A t \in Thread \ {r} : search'[t] = search[t]
  BY <1>1, Zenon DEF TypeOK
<1>4. \A n, l : Linked(n, l)' = Linked(n, l)
  BY Zenon DEF Linked
<1>5. Present' = Present
  BY <1>4, Zenon DEF Present
<1>6. Sorted'
  BY <1>4, Zenon DEF Sorted, Follows
<1>7. Covered'
  BY Zenon DEF Covered
<1>8. Searching'
  <2> SUFFICES ASSUME NEW t \in Thread, search'[t].at = "search" PROVE OnItsWay(search[t])'
    BY Zenon DEF Searching
  <2>1. OnItsWay(search'[t])
    BY <1>3, Zenon DEF Searching
  <2> QED
    BY <2>1, <1>4, <1>5, Zenon DEF OnItsWay
<1>9. Inserting'
  <2>1. \A l \in Level : \A k : Precedes(l, k)' = Precedes(l, k)
    BY <1>4, Zenon DEF Precedes
  <2>2. \A q \in Reader : search'[q].at \in {"search", "done"}
    BY <1>3, Zenon DEF Inserting, Thread
  <2> QED
    BY <2>1, <2>2, <1>3, Zenon DEF Inserting
<1>10. MissesNothing'
  <2> SUFFICES ASSUME NEW q \in Reader, search'[q].at = "done" PROVE IsNeighbour(search[q])'
    BY Zenon DEF MissesNothing, Ready
  <2>1. IsNeighbour(search'[q])
    BY <1>3, Zenon DEF MissesNothing, Ready, Thread
  <2> QED
    BY <2>1, <1>4, Zenon DEF IsNeighbour
<1> QED
  BY <1>2, <1>6, <1>7, <1>8, <1>9, <1>10, Zenon

\* head_ is a node of every level.
LEMMA HeadIsLinked == \A l : Linked(head_, l)
BY Zenon DEF Linked

\* A search that begins is on its way.
LEMMA BeginIsRight ==
  ASSUME IInv, NEW r \in Reader, NEW op \in {"forward", "backward"}, NEW target \in 1..NULL,
         Begin(r, op, target), UNCHANGED <<next_, links, heights, prev, height>>
  PROVE  IInv'
<1>1. PICK h \in heights :
        search' = [search EXCEPT ![r] = [at |-> "search", op |-> op, target |-> target, x |-> head_,
                                         level |-> h - 1, node |-> NULL, seen |-> Present]]
  BY Zenon DEF Begin
<1> DEFINE me == [at |-> "search", op |-> op, target |-> target, x |-> head_,
                  level |-> h - 1, node |-> NULL, seen |-> Present]
<1>2. h - 1 \in Level
  BY DEF IInv, TypeOK, Level
<1>3. me \in SearchType
  BY <1>2 DEF SearchType, Node, Present, NULL
<1>4. OnItsWay(me)
  BY HeadIsLinked DEF OnItsWay, head_
<1> QED
  BY <1>1, <1>3, <1>4, ReaderFrame, Zenon

\* The loop goes on to a node of its level that is before the target.
LEMMA AdvanceIsRight ==
  ASSUME IInv, NEW t \in Thread, search[t].at = "search",
         KeyIsAfterNode(search[t].target, next_[search[t].x][search[t].level])
  PROVE  LET me == [search[t] EXCEPT !.x = next_[search[t].x][search[t].level]]
         IN me \in SearchType /\ OnItsWay(me)
<1> DEFINE me == search[t]
           next == next_[me.x][me.level]
<1>1. me \in SearchType /\ OnItsWay(me)
  BY Zenon DEF IInv, TypeOK, Searching
<1>2. me.x \in Node /\ me.level \in Level
  BY <1>1, Zenon DEF SearchType
<1>3. Follows(me.x, me.level)
  BY <1>1, <1>2, Zenon DEF IInv, Sorted, OnItsWay
<1>4. next \in Key /\ Linked(next, me.level) /\ next < me.target
  BY <1>3, Zenon DEF Follows, KeyIsAfterNode
<1> HIDE DEF next
<1>5. [me EXCEPT !.x = next] \in SearchType
  BY <1>1, <1>4, Zenon DEF SearchType, Node
<1>6. OnItsWay([me EXCEPT !.x = next])
  BY <1>1, <1>4, Zenon DEF OnItsWay, SearchType
<1> QED
  BY <1>5, <1>6, Zenon DEF next

\* A node of a level is one of all lower levels, so the search may go down.
LEMMA DescendIsRight ==
  ASSUME IInv, NEW t \in Thread, search[t].at = "search", search[t].level > 0
  PROVE  LET me == [search[t] EXCEPT !.level = search[t].level - 1]
         IN me \in SearchType /\ OnItsWay(me)
<1> DEFINE me == search[t]
<1>1. me \in SearchType /\ OnItsWay(me)
  BY Zenon DEF IInv, TypeOK, Searching
<1>2. me.level - 1 \in Level
  BY <1>1 DEF SearchType, Level
<1>3. [me EXCEPT !.level = me.level - 1] \in SearchType
  BY <1>1, <1>2, Zenon DEF SearchType
<1>4. Linked(me.x, me.level - 1)
  <2>1. me.x \in Node /\ me.level \in Int
    BY <1>1 DEF SearchType, Level
  <2>2. \A k \in Key : links[k] \in Int
    BY DEF IInv, TypeOK
  <2> QED
    BY <1>1, <2>1, <2>2 DEF OnItsWay, Linked
<1>5. OnItsWay([me EXCEPT !.level = me.level - 1])
  BY <1>1, <1>4, Zenon DEF OnItsWay, SearchType
<1> QED
  BY <1>3, <1>5, Zenon

\* Advance() and Descend() of a reader keep the invariant.
LEMMA ReaderSearches ==
  ASSUME IInv, NEW r \in Reader, Advance(r) \/ Descend(r)
  PROVE  IInv'
<1>1. r \in Thread /\ r # Writer /\ search \in [Thread -> SearchType] /\ search[r] \in SearchType
  BY Zenon DEF Thread, IInv, TypeOK
<1>2. CASE Advance(r)
  <2> DEFINE me == [search[r] EXCEPT !.x = next_[search[r].x][search[r].level]]
  <2>1. me \in SearchType /\ OnItsWay(me)
    BY <1>1, <1>2, AdvanceIsRight, Zenon DEF Advance
  <2>2. search' = [search EXCEPT ![r] = me] /\ me.at = "search"
    BY <1>1, <1>2, Zenon DEF Advance, SearchType
  <2> QED
    BY <1>2, <2>1, <2>2, ReaderFrame, Zenon DEF Advance
<1>3. CASE Descend(r)
  <2> DEFINE me == [search[r] EXCEPT !.level = search[r].level - 1]
  <2>1. me \in SearchType /\ OnItsWay(me)
    BY <1>1, <1>3, DescendIsRight, Zenon DEF Descend
  <2>2. search' = [search EXCEPT ![r] = me] /\ me.at = "search"
    BY <1>1, <1>3, Zenon DEF Descend, SearchType
  <2> QED
    BY <1>1, <1>3, <2>1, <2>2, ReaderFrame, Zenon DEF Descend
<1> QED
  BY <1>2, <1>3, Zenon

\* What a search returns is the neighbour of its target.
LEMMA ReturnIsRight ==
  ASSUME IInv, NEW r \in Reader, Return(r)
  PROVE  IInv'
<1> DEFINE s == search[r]
           next == next_[s.x][0]
           node == IF s.op = "forward" THEN next ELSE IF s.x = head_ THEN NULL ELSE s.x
           me == [s EXCEPT !.at = "done", !.node = node]
<1>1. r \in Thread /\ search \in [Thread -> SearchType] /\ s \in SearchType /\ s.at = "search" /\ s.level = 0
  BY Zenon DEF Thread, IInv, TypeOK, Return
<1>2. OnItsWay(s) /\ 0 \in Level /\ s.x \in Node /\ s.target \in Nat /\ s.op \in {"forward", "backward"}
  BY <1>1, Zenon DEF IInv, Searching, SearchType, Level
<1>3. Linked(s.x, 0) /\ s.x < s.target /\ s.target <= NULL /\ s.seen \subseteq Present
  BY <1>1, <1>2, Zenon DEF OnItsWay
<1>4. Follows(s.x, 0)
  BY <1>2, <1>3, Zenon DEF IInv, Sorted
<1>5. next \in Key \cup {NULL} /\ s.x < next /\ (next = NULL \/ Linked(next, 0))
  BY <1>4, Zenon DEF Follows
<1>6. s.target <= next
  BY <1>2, <1>3, <1>5 DEF Return, KeyIsAfterNode, NULL, Key
<1>7. \A k \in s.seen : k \in Key /\ ~(s.x < k /\ k < next)
  BY <1>3, <1>4, Zenon DEF Follows, Present
<1>8. search' = [search EXCEPT ![r] = me]
  BY <1>1, Zenon DEF Return, SearchType
<1> HIDE DEF next
<1>9. node \in Key \cup {NULL}
  BY <1>2, <1>5, Zenon DEF Node
<1>10. me \in SearchType /\ me.at = "done"
  BY <1>1, <1>9, Zenon DEF SearchType
<1>11. IsNeighbour(me)
  <2>1. me.node = node /\ me.op = s.op /\ me.target = s.target /\ me.seen = s.seen
    BY <1>1, Zenon DEF SearchType
  <2> HIDE DEF me
  <2>2. me.node = NULL \/ Linked(me.node, 0)
    BY <2>1, <1>3, <1>5, Zenon
  <2>3. CASE s.op = "forward"
    <3>1. node = next
      BY <2>3, Zenon
    <3>2. \A k \in s.seen : ~(s.target <= k /\ k < next)
      BY <1>2, <1>3, <1>5, <1>7 DEF Key, Node, NULL, head_
    <3> QED
      BY <2>1, <2>2, <2>3, <3>1, <3>2, <1>6, Zenon DEF IsNeighbour
  <2>4. CASE s.op = "backward"
    <3>1. (IF node = NULL THEN head_ ELSE node) = s.x
      BY <2>4, <1>2 DEF Node, Key, NULL
    <3>2. \A k \in s.seen : ~(s.x < k /\ k < s.target)
      BY <1>2, <1>3, <1>5, <1>6, <1>7 DEF Key, Node, NULL, head_
    <3> QED
      BY <2>1, <2>2, <2>4, <3>1, <3>2, <1>3, Zenon DEF IsNeighbour
  <2> QED
    BY <1>2, <2>3, <2>4, Zenon
<1> HIDE DEF me
<1> QED
  BY <1>8, <1>10, <1>11, ReaderFrame, Zenon DEF Return

\* A step of an iterator along a link is right at once.
LEMMA FollowIsRight ==
  ASSUME IInv, NEW r \in Reader, NEW n \in Node, Linked(n, 0),
         search' = [search EXCEPT ![r] = Done("forward", n + 1, next_[n][0])],
         UNCHANGED <<next_, links, heights, prev, height>>
  PROVE  IInv'
<1> DEFINE next == next_[n][0]
           me == Done("forward", n + 1, next)
<1>1. 0 \in Level /\ n \in Nat
  BY DEF Level, Node, Key, head_
<1>2. next \in Key \cup {NULL} /\ n < next /\ (next = NULL \/ Linked(next, 0))
  BY <1>1, Zenon DEF IInv, Sorted, Follows
<1>3. \A k \in Present : k \in Key /\ ~(n < k /\ k < next)
  BY <1>1, Zenon DEF IInv, Sorted, Follows, Present
<1> HIDE DEF next
<1>4. me \in SearchType
  BY <1>1, <1>2 DEF Done, SearchType, Node, Present
<1>5. /\ me.at = "done" /\ me.op = "forward" /\ me.target = n + 1 /\ me.node = next
      /\ me.seen = Present
  BY Zenon DEF Done
<1> HIDE DEF me
<1>6. n + 1 <= next
  BY <1>1, <1>2 DEF Key, NULL
<1>7. \A k \in Present : ~(n + 1 <= k /\ k < next)
  BY <1>1, <1>3 DEF Key
<1>8. IsNeighbour(me)
  BY <1>2, <1>5, <1>6, <1>7, Zenon DEF IsNeighbour
<1> QED
  BY <1>4, <1>5, <1>8, ReaderFrame, Zenon DEF me, next

\* Each step of a reader keeps the invariant.
LEMMA ReaderKeeps ==
  ASSUME IInv, NEW r \in Reader, ReaderStep(r)
  PROVE  IInv'
<1> USE DEF head_
<1>1. ASSUME NEW k \in Key, Seek(r, k) PROVE IInv'
  <2>1. k \in 1..NULL
    BY DEF Key, NULL
  <2> QED
    BY <1>1, <2>1, BeginIsRight, Zenon DEF Seek
<1>2. CASE SeekToFirst(r)
  <2>1. head_ \in Node /\ Linked(head_, 0) /\ head_ + 1 = 1
    BY HeadIsLinked DEF Node
  <2> QED
    BY <1>2, <2>1, FollowIsRight, Zenon DEF SeekToFirst
<1>3. CASE SeekToLast(r)
  <2>1. NULL \in 1..NULL
    BY DEF NULL
  <2> QED
    BY <1>3, <2>1, BeginIsRight, Zenon DEF SeekToLast
<1>4. ASSUME Ready(r), search[r].node # NULL
      PROVE  search[r].node \in Key /\ Linked(search[r].node, 0)
  <2>1. search[r].node \in Key \cup {NULL}
    BY Zenon DEF IInv, TypeOK, SearchType, Thread
  <2> QED
    BY <1>4, <2>1, Zenon DEF IInv, MissesNothing, IsNeighbour
<1>5. CASE IteratorNext(r)
  BY <1>4, <1>5, FollowIsRight, Zenon DEF IteratorNext, Node
<1>6. CASE IteratorPrev(r)
  <2>1. search[r].node \in 1..NULL
    BY <1>4, <1>6 DEF IteratorPrev, Key, NULL
  <2> QED
    BY <1>6, <2>1, BeginIsRight, Zenon DEF IteratorPrev
<1> QED
  BY <1>1, <1>2, <1>3, <1>5, <1>6, ReturnIsRight, Zenon DEF ReaderStep

-----------------------------------------------------------------------------
(* Steps of the writer *)

\* What the writer knows of itself is enough, as long as the list stays.
LEMMA WriterFrame ==
  ASSUME IInv, NEW me \in SearchType,
         search' = [search EXCEPT ![Writer] = me],
         me.at = "search" => OnItsWay(me),
         UNCHANGED <<next_, links, heights>>,
         TypeOK', Inserting'
  PROVE  IInv'
<1>1. Writer \in Thread /\ \A r \in Reader : r \in Thread /\ r # Writer
  BY Zenon DEF Thread
<1>2. /\ search'[Writer] = me
      /\ \A t \in Thread \ {Writer} : search'[t] = search[t]
  BY <1>1, Zenon DEF IInv, TypeOK
<1>3. \A n, l : Linked(n, l)' = Linked(n, l)
  BY Zenon DEF Linked
<1>4. Present' = Present
  BY <1>3, Zenon DEF Present
<1>5. Sorted'
  BY <1>3, Zenon DEF IInv, Sorted, Follows
<1>6. Covered'
  BY Zenon DEF IInv, Covered
<1>7. Searching'
  <2> SUFFICES ASSUME NEW t \in Thread, search'[t].at = "search" PROVE OnItsWay(search[t])'
    BY Zenon DEF Searching
  <2>1. OnItsWay(search'[t])
    BY <1>2, Zenon DEF IInv, Searching
  <2> QED
    BY <2>1, <1>3, <1>4, Zenon DEF OnItsWay
<1>8. MissesNothing'
  <2> SUFFICES ASSUME NEW q \in Reader, search'[q].at = "done" PROVE IsNeighbour(search[q])'
    BY Zenon DEF MissesNothing, Ready
  <2>1. IsNeighbour(search'[q])
    BY <1>1, <1>2, Zenon DEF IInv, MissesNothing, Ready
  <2> QED
    BY <2>1, <1>3, Zenon DEF IsNeighbour
<1> QED
  BY <1>5, <1>6, <1>7, <1>8, Zenon DEF IInv

\* Insert() begins above every level that has nodes.
LEMMA InsertKeeps ==
  ASSUME IInv, NEW k \in Key, Insert(k)
  PROVE  IInv'
<1>1. PICK h \in heights :
        /\ \A i \in heights : i <= h
        /\ search' = [search EXCEPT ![Writer] = [at |-> "search", op |-> "forward", target |-> k, x |-> head_,
                                                 level |-> h - 1, node |-> NULL, seen |-> Present]]
  BY Zenon DEF Insert, Begin
<1> DEFINE me == [at |-> "search", op |-> "forward", target |-> k, x |-> head_,
                  level |-> h - 1, node |-> NULL, seen |-> Present]
<1>2. h \in 1..kMaxHeight /\ h - 1 \in Level /\ \A i \in heights : i \in Int
  BY DEF IInv, TypeOK, Level
<1>3. me \in SearchType
  BY <1>2 DEF SearchType, Node, Present, Key
<1>4. OnItsWay(me)
  BY HeadIsLinked DEF OnItsWay, head_, Key, NULL
<1>5. /\ me.at = "search" /\ me.target = k /\ me.level = h - 1
  BY Zenon
<1>6. search' = [search EXCEPT ![Writer] = me]
  BY <1>1, Zenon
<1> HIDE DEF me
<1>7. Writer \in Thread /\ Writer \notin Reader
  BY Zenon DEF Thread
<1>8. TypeOK'
  BY <1>3, <1>6, <1>7, Zenon DEF IInv, TypeOK, Insert
<1>9. search'[Writer] = me /\ \A r \in Reader : search'[r] = search[r]
  BY <1>6, <1>7, Zenon DEF IInv, TypeOK, Thread
<1>10. links[k] = 0
  BY DEF Insert, Present, Linked, IInv, TypeOK
<1>11. Inserting'
  <2>1. \A l \in Level : me.level < l => \A i \in heights : ~(l < i)
    BY <1>1, <1>2, <1>5 DEF Level
  <2>2. me.level < h
    BY <1>2, <1>5
  <2>3. \A r \in Reader : search'[r].at \in {"search", "done"}
    BY <1>9, Zenon DEF IInv, Inserting
  <2>4. heights' = heights /\ links' = links
    BY Zenon DEF Insert
  <2> QED
    BY <1>5, <1>9, <1>10, <2>1, <2>2, <2>3, <2>4, Zenon DEF Inserting
<1> QED
  BY <1>3, <1>4, <1>6, <1>8, <1>11, WriterFrame, Zenon DEF Insert

\* The writer's search goes on in its list.
LEMMA WriterAdvances ==
  ASSUME IInv, Advance(Writer)
  PROVE  IInv'
<1> DEFINE s == search[Writer]
           me == [s EXCEPT !.x = next_[s.x][s.level]]
<1>1. Writer \in Thread /\ Writer \notin Reader /\ s \in SearchType /\ s.at = "search"
  BY Zenon DEF Thread, IInv, TypeOK, Advance
<1>2. me \in SearchType /\ OnItsWay(me)
  BY <1>1, AdvanceIsRight, Zenon DEF Advance
<1>3. search' = [search EXCEPT ![Writer] = me]
  BY <1>1, Zenon DEF Advance, IInv, TypeOK
<1>4. me.at = "search" /\ me.target = s.target /\ me.level = s.level
  BY <1>1, Zenon DEF SearchType
<1> HIDE DEF me
<1>5. TypeOK'
  BY <1>1, <1>2, <1>3, Zenon DEF IInv, TypeOK, Advance
<1>6. search'[Writer] = me /\ \A r \in Reader : search'[r] = search[r]
  BY <1>1, <1>3, Zenon DEF IInv, TypeOK, Thread
<1>7. Inserting'
  <2>1. \A l, k : Precedes(l, k)' = Precedes(l, k)
    BY Zenon DEF Advance, Precedes, Linked
  <2>2. heights' = heights /\ links' = links
    BY Zenon DEF Advance
  <2> QED
    BY <1>1, <1>4, <1>6, <2>1, <2>2, Zenon DEF IInv, Inserting
<1> QED
  BY <1>2, <1>3, <1>4, <1>5, <1>7, WriterFrame, Zenon DEF Advance

\* Where the search leaves a level is where the key belongs in it.
LEMMA PlaceIsRight ==
  ASSUME IInv, search[Writer].at = "search",
         ~KeyIsAfterNode(search[Writer].target, next_[search[Writer].x][search[Writer].level])
  PROVE  LET me == search[Writer] IN
         Linked(me.x, me.level) /\ me.x < me.target /\ me.target <= next_[me.x][me.level]
<1> DEFINE me == search[Writer]
<1>1. me \in SearchType /\ OnItsWay(me) /\ me.target \in Key
  BY Zenon DEF IInv, TypeOK, Searching, Inserting, Thread
<1>2. me.x \in Node /\ me.level \in Level
  BY <1>1, Zenon DEF SearchType
<1>3. next_[me.x][me.level] \in Key \cup {NULL}
  BY <1>1, <1>2 DEF IInv, Sorted, Follows, OnItsWay
<1>4. me.target <= next_[me.x][me.level]
  BY <1>1, <1>3 DEF KeyIsAfterNode, Key, NULL
<1> QED
  BY <1>1, <1>4, Zenon DEF OnItsWay

\* The writer's search goes down and remembers where it was.
LEMMA WriterDescends ==
  ASSUME IInv, Descend(Writer)
  PROVE  IInv'
<1> DEFINE s == search[Writer]
           me == [s EXCEPT !.level = s.level - 1]
<1>1. Writer \in Thread /\ Writer \notin Reader /\ s \in SearchType /\ s.at = "search" /\ s.level > 0
  BY Zenon DEF Thread, IInv, TypeOK, Descend
<1>2. me \in SearchType /\ OnItsWay(me)
  BY <1>1, DescendIsRight, Zenon DEF Descend
<1>3. search' = [search EXCEPT ![Writer] = me]
  BY <1>1, Zenon DEF Descend, IInv, TypeOK
<1>4. me.at = "search" /\ me.target = s.target /\ me.level = s.level - 1
  BY <1>1, Zenon DEF SearchType
<1> HIDE DEF me
<1>5. s.x \in Node /\ s.level \in Level /\ s.level \in Int
  BY <1>1 DEF SearchType, Level
<1>6. prev' = [prev EXCEPT ![s.level] = s.x] /\ prev \in [Level -> Node]
  BY Zenon DEF Descend, IInv, TypeOK
<1>7. TypeOK'
  <2>1. search' \in [Thread -> SearchType]
    BY <1>1, <1>2, <1>3, Zenon DEF IInv, TypeOK
  <2>2. prev' \in [Level -> Node]
    BY <1>5, <1>6, Zenon
  <2> QED
    BY <2>1, <2>2, Zenon DEF IInv, TypeOK, Descend
<1>8. search'[Writer] = me /\ \A r \in Reader : search'[r] = search[r]
  BY <1>1, <1>3, Zenon DEF IInv, TypeOK, Thread
<1>9. Inserting'
  <2>0. PICK k \in Key : k = s.target
    BY <1>1, Zenon DEF IInv, Inserting
  <2>1. heights' = heights /\ links' = links /\ next_' = next_
    BY Zenon DEF Descend
  <2>2. \A n, l : Linked(n, l)' = Linked(n, l)
    BY <2>1, Zenon DEF Linked
  <2>3. ASSUME NEW l \in Level, s.level - 1 < l, \E h \in heights : l < h
        PROVE  Precedes(l, k)'
    <3>1. CASE l = s.level
      <4>1. prev'[l] = s.x
        BY <1>5, <1>6, <3>1, Zenon
      <4>2. Linked(s.x, l) /\ s.x < k /\ k <= next_[s.x][l]
        BY <1>1, <2>0, <3>1, PlaceIsRight, Zenon DEF Descend
      <4> QED
        BY <4>1, <4>2, <2>1, <2>2, Zenon DEF Precedes
    <3>2. CASE l # s.level
      <4>1. s.level < l
        BY <2>3, <3>2, <1>5 DEF Level
      <4>2. Precedes(l, k)
        BY <1>1, <2>0, <2>3, <4>1, Zenon DEF IInv, Inserting
      <4>3. prev'[l] = prev[l]
        BY <1>6, <3>2, Zenon
      <4> QED
        BY <4>2, <4>3, <2>1, <2>2, Zenon DEF Precedes
    <3> QED
      BY <3>1, <3>2, Zenon
  <2>4. s.target \in Key /\ links[s.target] = 0 /\ \E top \in heights : s.level - 1 < top
    <3>1. PICK top \in heights : s.level < top
      BY <1>1, Zenon DEF IInv, Inserting
    <3>2. top \in Int
      BY DEF IInv, TypeOK
    <3>3. s.level - 1 < top
      BY <1>5, <3>1, <3>2
    <3> QED
      BY <1>1, <3>3, Zenon DEF IInv, Inserting
  <2>5. \A r \in Reader : search'[r].at \in {"search", "done"}
    BY <1>8, Zenon DEF IInv, Inserting
  <2> QED
    BY <1>4, <1>8, <2>0, <2>1, <2>3, <2>4, <2>5, Zenon DEF Inserting
<1> QED
  BY <1>2, <1>3, <1>4, <1>7, <1>9, WriterFrame, Zenon DEF Descend

\* The search is over: prev has the place of the key in every level of its node,
\* and head_ has it where there was no level.
LEMMA RaiseKeeps ==
  ASSUME IInv, NEW h \in 1..kMaxHeight, RaiseHeight(h)
  PROVE  IInv'
<1> DEFINE s == search[Writer]
           me == [s EXCEPT !.at = "init"]
<1>1. Writer \in Thread /\ Writer \notin Reader /\ s \in SearchType /\ s.at = "search" /\ s.level = 0
  BY Zenon DEF Thread, IInv, TypeOK, RaiseHeight
<1>2. search' = [search EXCEPT ![Writer] = me]
  BY <1>1, Zenon DEF RaiseHeight, IInv, TypeOK
<1>3. me \in SearchType /\ me.at = "init" /\ me.target = s.target /\ me.level = 0
  BY <1>1, Zenon DEF SearchType
<1> HIDE DEF me
<1>4. search'[Writer] = me /\ \A t \in Thread \ {Writer} : search'[t] = search[t]
  BY <1>1, <1>2, Zenon DEF IInv, TypeOK
<1>5. s.x \in Node /\ 0 \in Level
  BY <1>1, Zenon DEF SearchType, Level
<1>6. /\ next_' = next_ /\ links' = links /\ height' = h
      /\ heights' = IF \A m \in heights : m < h THEN heights \cup {h} ELSE heights
      /\ prev' = [l \in Level |-> IF l = 0 THEN s.x
                                  ELSE IF \A m \in heights : m <= l THEN head_ ELSE prev[l]]
  BY Zenon DEF RaiseHeight
<1>7. TypeOK'
  <2>1. search' \in [Thread -> SearchType]
    BY <1>1, <1>2, <1>3, Zenon DEF IInv, TypeOK
  <2>2. prev' \in [Level -> Node]
    BY <1>5, <1>6, Zenon DEF IInv, TypeOK, Node
  <2>3. heights' \in SUBSET (1..kMaxHeight) /\ height' \in 0..kMaxHeight
    BY <1>6 DEF IInv, TypeOK
  <2> QED
    BY <2>1, <2>2, <2>3, <1>6, Zenon DEF IInv, TypeOK
<1>8. PICK top \in heights : (\A i \in heights : i <= top) /\ (\A k \in Key : links[k] <= top)
  BY Zenon DEF IInv, Covered
<1>9. \A i \in heights : i \in 1..kMaxHeight
  BY Zenon DEF IInv, TypeOK
<1>10. \A n, l : Linked(n, l)' = Linked(n, l)
  BY <1>6, Zenon DEF Linked
<1>11. Present' = Present
  BY <1>10, Zenon DEF Present
<1>12. Sorted'
  BY <1>6, <1>10, Zenon DEF IInv, Sorted, Follows
<1>13. Covered' /\ \E i \in heights' : h <= i
  <2>1. CASE \A m \in heights : m < h
    <3>1. heights' = heights \cup {h} /\ top < h
      BY <2>1, <1>6, <1>8, Zenon
    <3>2. \A i \in heights' : i <= h
      BY <2>1, <3>1, <1>9
    <3>3. \A k \in Key : links'[k] <= h
      BY <3>1, <1>6, <1>8, <1>9 DEF IInv, TypeOK
    <3> QED
      BY <3>1, <3>2, <3>3, Zenon DEF Covered
  <2>2. CASE ~ \A m \in heights : m < h
    <3>1. heights' = heights
      BY <2>2, <1>6, Zenon
    <3>2. \E i \in heights : h <= i
      BY <2>2, <1>9
    <3> QED
      BY <3>1, <3>2, <1>6, Zenon DEF IInv, Covered
  <2> QED
    BY <2>1, <2>2, Zenon
<1>14. Searching'
  <2> SUFFICES ASSUME NEW t \in Thread, search'[t].at = "search" PROVE OnItsWay(search[t])'
    BY Zenon DEF Searching
  <2>1. OnItsWay(search'[t])
    BY <1>3, <1>4, Zenon DEF IInv, Searching
  <2> QED
    BY <2>1, <1>10, <1>11, Zenon DEF OnItsWay
<1>15. PICK k \in Key : k = s.target
  BY <1>1, Zenon DEF IInv, Inserting
<1>16. ASSUME NEW l \in Level PROVE Precedes(l, k)'
  <2>1. CASE l = 0
    <3>1. prev'[l] = s.x
      BY <1>6, <2>1, Zenon
    <3>2. Linked(s.x, l) /\ s.x < k /\ k <= next_[s.x][l]
      BY <1>1, <1>15, <2>1, PlaceIsRight, Zenon DEF RaiseHeight
    <3> QED
      BY <3>1, <3>2, <1>6, <1>10, Zenon DEF Precedes
  <2>2. CASE l # 0 /\ \A m \in heights : m <= l
    <3>1. prev'[l] = head_
      BY <1>6, <2>2, Zenon
    <3>2. Linked(head_, l) /\ head_ \in Node
      BY Zenon DEF Linked, Node
    <3>3. Follows(head_, l)
      BY <3>2, Zenon DEF IInv, Sorted
    <3>4. \A n \in Key : ~Linked(n, l)
      <4>1. top <= l /\ top \in Int /\ l \in Int /\ \A n \in Key : links[n] \in Int
        BY <2>2, <1>9 DEF IInv, TypeOK, Level
      <4> QED
        BY <4>1, <1>8 DEF Linked, Key, head_
    <3>5. next_[head_][l] = NULL
      BY <3>3, <3>4, Zenon DEF Follows
    <3>6. head_ < k /\ k <= NULL
      BY DEF head_, Key, NULL
    <3> QED
      BY <3>1, <3>2, <3>5, <3>6, <1>6, <1>10, Zenon DEF Precedes
  <2>3. CASE l # 0 /\ ~ \A m \in heights : m <= l
    <3>1. prev'[l] = prev[l]
      BY <1>6, <2>3, Zenon
    <3>2. \E m \in heights : l < m
      BY <2>3, <1>9 DEF Level
    <3>3. s.level < l
      BY <1>1, <2>3 DEF Level
    <3>4. Precedes(l, k)
      BY <1>1, <1>15, <3>2, <3>3, Zenon DEF IInv, Inserting
    <3> QED
      BY <3>1, <3>4, <1>6, <1>10, Zenon DEF Precedes
  <2> QED
    BY <2>1, <2>2, <2>3, Zenon
<1>17. Inserting'
  <2>1. links[k] = 0
    BY <1>1, <1>15, Zenon DEF IInv, Inserting
  <2>2. \A r \in Reader : search'[r].at \in {"search", "done"}
    BY <1>1, <1>4, Zenon DEF IInv, Inserting, Thread
  <2> QED
    BY <1>3, <1>4, <1>6, <1>13, <1>15, <1>16, <2>1, <2>2 DEF Inserting
<1>18. MissesNothing'
  <2> SUFFICES ASSUME NEW q \in Reader, search'[q].at = "done" PROVE IsNeighbour(search[q])'
    BY Zenon DEF MissesNothing, Ready
  <2>1. IsNeighbour(search'[q])
    BY <1>1, <1>4, Zenon DEF IInv, MissesNothing, Ready, Thread
  <2> QED
    BY <2>1, <1>10, Zenon DEF IsNeighbour
<1> QED
  BY <1>7, <1>12, <1>13, <1>14, <1>17, <1>18, Zenon DEF IInv

\* What both steps of a link start from: key k, level l and its predecessor p.
LEMMA LinkFacts ==
  ASSUME IInv, search[Writer].at \in {"init", "publish"}
  PROVE  LET k == search[Writer].target
             l == search[Writer].level
             p == prev[l]
         IN /\ Writer \in Thread /\ Writer \notin Reader /\ search[Writer] \in SearchType
            /\ k \in Key /\ l \in Level /\ p \in Node /\ k # p
            /\ links[k] = l /\ l < height /\ height \in 0..kMaxHeight
            /\ Linked(p, l) /\ p < k /\ k <= next_[p][l]
            /\ next_[p][l] \in Key \cup {NULL} /\ k # next_[p][l]
            /\ \A i \in Level : l <= i => ~Linked(k, i)
<1> DEFINE k == search[Writer].target
           l == search[Writer].level
           p == prev[l]
<1>1. Writer \in Thread /\ Writer \notin Reader /\ search[Writer] \in SearchType
  BY Zenon DEF Thread, IInv, TypeOK
<1>2. k \in Key /\ l \in Level /\ p \in Node /\ height \in 0..kMaxHeight
  BY <1>1, Zenon DEF IInv, TypeOK, Inserting, SearchType
<1>3. links[k] = l /\ l < height
  BY Zenon DEF IInv, Inserting
<1>4. l <= l
  BY <1>2 DEF Level
<1>5. Precedes(l, k)
  BY <1>2, <1>3, <1>4, Zenon DEF IInv, Inserting
<1>6. Linked(p, l) /\ p < k /\ k <= next_[p][l]
  BY <1>5, Zenon DEF Precedes
<1>7. next_[p][l] \in Key \cup {NULL} /\ (next_[p][l] = NULL \/ Linked(next_[p][l], l))
  <2>1. Follows(p, l)
    BY <1>2, <1>6, Zenon DEF IInv, Sorted
  <2> QED
    BY <2>1, Zenon DEF Follows
<1>8. \A i \in Level : l <= i => ~Linked(k, i)
  BY <1>2, <1>3 DEF Linked, Level, Key, head_
<1>9. k # p
  BY <1>2, <1>4, <1>6, <1>8, Zenon
<1>10. k # next_[p][l]
  <2>1. k # NULL
    BY <1>2 DEF Key, NULL
  <2> QED
    BY <2>1, <1>2, <1>4, <1>7, <1>8, Zenon
<1> QED
  BY <1>1, <1>2, <1>3, <1>6, <1>7, <1>8, <1>9, <1>10, Zenon

\* The link of a node in a level it is not in yet: nobody can see it.
LEMMA InitNextKeeps ==
  ASSUME IInv, InitNext
  PROVE  IInv'
<1> DEFINE s == search[Writer]
           me == [s EXCEPT !.at = "publish"]
<1>1. s.at = "init"
  BY Zenon DEF InitNext
<1>2. PICK k, l, p : k = s.target /\ l = s.level /\ p = prev[l]
  BY Zenon
<1>3. /\ Writer \in Thread /\ Writer \notin Reader /\ s \in SearchType
      /\ k \in Key /\ l \in Level /\ p \in Node /\ k # p
      /\ links[k] = l /\ l < height
      /\ next_[p][l] \in Key \cup {NULL}
      /\ \A i \in Level : l <= i => ~Linked(k, i)
  BY <1>1, <1>2, LinkFacts, Zenon
<1>4. search' = [search EXCEPT ![Writer] = me]
  BY <1>3, Zenon DEF InitNext, IInv, TypeOK
<1>5. me \in SearchType /\ me.at = "publish" /\ me.target = k /\ me.level = l
  BY <1>2, <1>3, Zenon DEF SearchType
<1> HIDE DEF me
<1>6. search'[Writer] = me /\ \A t \in Thread \ {Writer} : search'[t] = search[t]
  BY <1>3, <1>4, Zenon DEF IInv, TypeOK
<1>7. /\ next_' = [next_ EXCEPT ![k][l] = next_[p][l]]
      /\ links' = links /\ heights' = heights /\ prev' = prev /\ height' = height
  BY <1>2, Zenon DEF InitNext
<1>8. k \in Node /\ next_ \in [Node -> [Level -> Key \cup {NULL, Garbage}]]
  BY <1>3, Zenon DEF Node, IInv, TypeOK
<1>9. TypeOK'
  <2>1. search' \in [Thread -> SearchType]
    BY <1>3, <1>4, <1>5, Zenon DEF IInv, TypeOK
  <2>2. next_' \in [Node -> [Level -> Key \cup {NULL, Garbage}]]
    BY <1>3, <1>7, <1>8, Zenon
  <2> QED
    BY <2>1, <2>2, <1>7, Zenon DEF IInv, TypeOK
<1>10. \A n, i : Linked(n, i)' = Linked(n, i)
  BY <1>7, Zenon DEF Linked
<1>11. Present' = Present
  BY <1>10, Zenon DEF Present
<1>12. \A n \in Node, i \in Level : (n # k \/ i # l) => next_'[n][i] = next_[n][i]
  BY <1>3, <1>7, <1>8, Zenon
<1>13. l <= l /\ next_'[k][l] = next_[p][l] /\ next_'[p][l] = next_[p][l]
  BY <1>3, <1>7, <1>8, <1>12 DEF Level
<1>14. \A n \in Node, i \in Level : Linked(n, i) => next_'[n][i] = next_[n][i]
  BY <1>3, <1>12, <1>13, Zenon
<1>15. Sorted'
  BY <1>10, <1>14 DEF IInv, Sorted, Follows
<1>16. Covered'
  BY <1>7, Zenon DEF IInv, Covered
<1>17. Searching'
  <2> SUFFICES ASSUME NEW t \in Thread, search'[t].at = "search" PROVE OnItsWay(search[t])'
    BY Zenon DEF Searching
  <2>1. OnItsWay(search'[t])
    BY <1>5, <1>6, Zenon DEF IInv, Searching
  <2> QED
    BY <2>1, <1>10, <1>11, Zenon DEF OnItsWay
<1>18. Inserting'
  <2>1. \A i \in Level : l <= i /\ i < height => Precedes(i, k)
    BY <1>1, <1>2, Zenon DEF IInv, Inserting
  <2>2. \A i \in Level : Precedes(i, k) => Precedes(i, k)'
    <3> SUFFICES ASSUME NEW i \in Level, Precedes(i, k) PROVE Precedes(i, k)'
      BY Zenon
    <3>1. prev[i] \in Node /\ Linked(prev[i], i)
      BY Zenon DEF IInv, TypeOK, Precedes
    <3>2. next_'[prev[i]][i] = next_[prev[i]][i]
      BY <3>1, <1>14, Zenon
    <3> QED
      BY <3>2, <1>7, <1>10, Zenon DEF Precedes
  <2>3. \E h \in heights : height <= h
    BY <1>1, Zenon DEF IInv, Inserting
  <2>4. \A r \in Reader : search'[r].at \in {"search", "done"}
    BY <1>3, <1>6, Zenon DEF IInv, Inserting, Thread
  <2>5. next_'[k][l] = next_'[prev'[l]][l]
    BY <1>2, <1>7, <1>13, Zenon
  <2> QED
    BY <1>3, <1>5, <1>6, <1>7, <2>1, <2>2, <2>3, <2>4, <2>5, Zenon DEF Inserting
<1>19. MissesNothing'
  <2> SUFFICES ASSUME NEW q \in Reader, search'[q].at = "done" PROVE IsNeighbour(search[q])'
    BY Zenon DEF MissesNothing, Ready
  <2>1. IsNeighbour(search'[q])
    BY <1>3, <1>6, Zenon DEF IInv, MissesNothing, Ready, Thread
  <2> QED
    BY <2>1, <1>10, Zenon DEF IsNeighbour
<1> QED
  BY <1>9, <1>15, <1>16, <1>17, <1>18, <1>19, Zenon DEF IInv

\* The node appears in the level, between its predecessor and the node that
\* followed it.
LEMMA PublishKeeps ==
  ASSUME IInv, Publish
  PROVE  IInv'
<1> DEFINE s == search[Writer]
           me == IF s.level + 1 < height THEN [s EXCEPT !.at = "init", !.level = s.level + 1]
                 ELSE [s EXCEPT !.at = "done", !.level = 0, !.node = s.target]
<1>1. s.at = "publish"
  BY Zenon DEF Publish
<1>2. PICK k, l, p, m : k = s.target /\ l = s.level /\ p = prev[l] /\ m = next_[p][l]
  BY Zenon
<1>3. /\ Writer \in Thread /\ Writer \notin Reader /\ s \in SearchType
      /\ k \in Key /\ l \in Level /\ p \in Node /\ k # p
      /\ links[k] = l /\ l < height /\ height \in 0..kMaxHeight
      /\ Linked(p, l) /\ p < k /\ k <= m
      /\ m \in Key \cup {NULL} /\ k # m
      /\ \A i \in Level : l <= i => ~Linked(k, i)
  BY <1>1, <1>2, LinkFacts, Zenon
<1>4. next_[k][l] = m
  BY <1>1, <1>2, Zenon DEF IInv, Inserting
<1>5. search' = [search EXCEPT ![Writer] = me]
  BY <1>3, Zenon DEF Publish, IInv, TypeOK
<1>6. me \in SearchType /\ me.at \in {"init", "done"} /\ (me.at = "init" => me.target = k /\ me.level = l + 1 /\ l + 1 < height)
  <2>1. l + 1 < height => l + 1 \in Level
    BY <1>3 DEF Level
  <2>2. 0 \in Level
    BY DEF Level
  <2> QED
    BY <1>2, <1>3, <2>1, <2>2, Zenon DEF SearchType
<1> HIDE DEF me
<1>7. search'[Writer] = me /\ \A t \in Thread \ {Writer} : search'[t] = search[t]
  BY <1>3, <1>5, Zenon DEF IInv, TypeOK
<1>8. /\ next_' = [next_ EXCEPT ![p][l] = k] /\ links' = [links EXCEPT ![k] = l + 1]
      /\ heights' = heights /\ prev' = prev /\ height' = height
  BY <1>2, Zenon DEF Publish
<1>9. /\ k \in Node /\ next_ \in [Node -> [Level -> Key \cup {NULL, Garbage}]]
      /\ links \in [Key -> 0..kMaxHeight] /\ l \in Nat /\ k \in Nat
  BY <1>3 DEF Node, IInv, TypeOK, Level, Key
<1>10. TypeOK'
  <2>1. search' \in [Thread -> SearchType]
    BY <1>3, <1>5, <1>6, Zenon DEF IInv, TypeOK
  <2>2. next_' \in [Node -> [Level -> Key \cup {NULL, Garbage}]]
    BY <1>3, <1>8, <1>9, Zenon
  <2>3. links' \in [Key -> 0..kMaxHeight]
    BY <1>3, <1>8, <1>9
  <2> QED
    BY <2>1, <2>2, <2>3, <1>8, Zenon DEF IInv, TypeOK
<1>11. \A n : \A i \in Level : Linked(n, i)' <=> Linked(n, i) \/ (n = k /\ i = l)
  <2> SUFFICES ASSUME NEW n, NEW i \in Level
               PROVE  Linked(n, i)' <=> Linked(n, i) \/ (n = k /\ i = l)
    BY Zenon
  <2>1. CASE n = k
    <3>1. links'[n] = l + 1 /\ links[n] = l /\ n # head_ /\ n \in Key
      BY <2>1, <1>3, <1>8, <1>9 DEF Key, head_
    <3>2. i < l + 1 <=> i < l \/ i = l
      BY <1>9 DEF Level
    <3> QED
      BY <2>1, <3>1, <3>2, Zenon DEF Linked
  <2>2. CASE n # k
    <3>1. n \in Key => links'[n] = links[n]
      BY <2>2, <1>8, <1>9, Zenon
    <3> QED
      BY <2>2, <3>1, Zenon DEF Linked
  <2> QED
    BY <2>1, <2>2, Zenon
<1>12. 0 \in Level /\ Present \subseteq Present'
  <2>1. 0 \in Level
    BY DEF Level
  <2> QED
    BY <2>1, <1>11, Zenon DEF Present
<1>13. /\ \A n \in Node, i \in Level : (n # p \/ i # l) => next_'[n][i] = next_[n][i]
       /\ next_'[p][l] = k
  BY <1>3, <1>8, <1>9, Zenon
<1>14. Sorted'
  <2> SUFFICES ASSUME NEW i \in Level, NEW n \in Node, Linked(n, i)' PROVE Follows(n, i)'
    BY Zenon DEF Sorted
  <2>1. n \in Nat /\ \A j \in Key : j \in Nat
    BY DEF Node, Key, head_
  <2>2. CASE i # l
    <3>1. Linked(n, i) /\ next_'[n][i] = next_[n][i] /\ \A j : Linked(j, i)' <=> Linked(j, i)
      BY <2>2, <1>11, <1>13, Zenon
    <3>2. Follows(n, i)
      BY <3>1, Zenon DEF IInv, Sorted
    <3> QED
      BY <3>1, <3>2, Zenon DEF Follows
  <2>3. Follows(p, l) /\ m \in Nat /\ p \in Nat
    <3>1. Follows(p, l)
      BY <1>3, Zenon DEF IInv, Sorted
    <3>2. m \in Nat
      BY <1>3 DEF Key, NULL
    <3>3. p \in Nat
      BY <1>3 DEF Node, Key, head_
    <3> QED
      BY <3>1, <3>2, <3>3, Zenon
  <2>4. \A j \in Key : Linked(j, l) => ~(p < j /\ j < m)
    BY <2>3, <1>2, Zenon DEF Follows
  <2>5. CASE i = l /\ n = p
    <3>1. next_'[n][i] = k /\ Linked(k, l)'
      BY <2>5, <1>3, <1>11, <1>13, Zenon
    <3>2. \A j \in Key : Linked(j, l)' => ~(p < j /\ j < k)
      <4> SUFFICES ASSUME NEW j \in Key, Linked(j, l)', p < j, j < k PROVE FALSE
        BY Zenon
      <4>1. j # k /\ j < m
        BY <1>3, <1>9, <2>1, <2>3
      <4> QED
        BY <4>1, <2>4, <1>3, <1>11, Zenon
    <3> QED
      BY <2>5, <3>1, <3>2, <1>3, Zenon DEF Follows
  <2>6. CASE i = l /\ n = k
    <3>1. next_'[n][i] = m /\ (m = NULL \/ Linked(m, l)')
      BY <2>6, <2>3, <1>2, <1>3, <1>4, <1>9, <1>11, <1>13, Zenon DEF Follows
    <3>2. \A j \in Key : Linked(j, l)' => ~(k < j /\ j < m)
      <4> SUFFICES ASSUME NEW j \in Key, Linked(j, l)', k < j, j < m PROVE FALSE
        BY Zenon
      <4>1. j # k /\ p < j
        BY <1>3, <1>9, <2>1, <2>3
      <4> QED
        BY <4>1, <2>4, <1>3, <1>11, Zenon
    <3>3. k < m
      BY <1>3, <1>9, <2>3
    <3> QED
      BY <2>6, <3>1, <3>2, <3>3, <1>3, Zenon DEF Follows
  <2>7. CASE i = l /\ n # p /\ n # k
    <3>1. Linked(n, l) /\ next_'[n][l] = next_[n][l]
      BY <2>7, <1>11, <1>13, Zenon
    <3>2. Follows(n, l)
      BY <2>7, <3>1, Zenon DEF IInv, Sorted
    <3>0. PICK z : z = next_[n][l]
      BY Zenon
    <3>3. /\ z \in Key \cup {NULL} /\ n < z /\ (z = NULL \/ Linked(z, l)')
          /\ \A j \in Key : Linked(j, l) => ~(n < j /\ j < z)
      <4>1. z = NULL \/ Linked(z, l)
        BY <3>0, <3>2, Zenon DEF Follows
      <4>2. Linked(z, l) => Linked(z, l)'
        BY <1>3, <1>11, Zenon
      <4> QED
        BY <3>0, <3>2, <4>1, <4>2, Zenon DEF Follows
    <3>4. z \in Nat
      BY <3>3 DEF Key, NULL
    <3>5. ~(n < k /\ k < z)
      <4> SUFFICES ASSUME n < k, k < z PROVE FALSE
        BY Zenon
      <4>1. CASE n < p
        <5>1. p \in Key
          BY <4>1, <2>1, <1>3 DEF Node, head_
        <5>2. p < z
          BY <1>3, <1>9, <2>3, <3>4
        <5> QED
          BY <4>1, <5>1, <5>2, <3>3, <1>3, Zenon
      <4>2. CASE p < n
        <5>1. n \in Key /\ n < m
          BY <4>2, <2>1, <2>3, <1>3, <1>9 DEF Node, head_
        <5> QED
          BY <4>2, <5>1, <2>4, <3>1, Zenon
      <4> QED
        BY <4>1, <4>2, <2>1, <2>3, <2>7
    <3>6. \A j \in Key : Linked(j, l)' => ~(n < j /\ j < z)
      BY <3>3, <3>5, <1>3, <1>11
    <3> QED
      BY <2>7, <3>0, <3>1, <3>3, <3>6, Zenon DEF Follows
  <2> QED
    BY <2>2, <2>5, <2>6, <2>7, Zenon
<1>15. Covered'
  <2>1. PICK top \in heights : (\A h \in heights : h <= top) /\ (\A j \in Key : links[j] <= top)
    BY Zenon DEF IInv, Covered
  <2>2. PICK h \in heights : height <= h
    BY <1>1, Zenon DEF IInv, Inserting
  <2>3. top \in Int /\ h \in Int /\ h <= top
    BY <2>1 DEF IInv, TypeOK
  <2>4. l + 1 <= top
    BY <2>2, <2>3, <1>3, <1>9
  <2>5. \A j \in Key : links'[j] <= top
    BY <2>1, <2>4, <1>8, <1>9, Zenon
  <2> QED
    BY <2>1, <2>5, <1>8, Zenon DEF Covered
<1>16. Searching'
  <2> SUFFICES ASSUME NEW t \in Thread, search'[t].at = "search" PROVE OnItsWay(search[t])'
    BY Zenon DEF Searching
  <2>1. OnItsWay(search'[t]) /\ search'[t].level \in Level
    BY <1>6, <1>7, Zenon DEF IInv, Searching, TypeOK, SearchType
  <2> QED
    BY <2>1, <1>11, <1>12, Zenon DEF OnItsWay
<1>17. Inserting'
  <2>1. \A r \in Reader : search'[r].at \in {"search", "done"}
    BY <1>3, <1>7, Zenon DEF IInv, Inserting, Thread
  <2>2. links'[k] = l + 1
    BY <1>3, <1>8, <1>9, Zenon
  <2>3. ASSUME NEW i \in Level, l + 1 <= i, i < height PROVE Precedes(i, k)'
    <3>1. l <= i /\ i # l
      BY <2>3, <1>9 DEF Level
    <3>2. Precedes(i, k)
      BY <2>3, <3>1, <1>1, <1>2, Zenon DEF IInv, Inserting
    <3>3. prev[i] \in Node
      BY Zenon DEF IInv, TypeOK
    <3>4. next_'[prev[i]][i] = next_[prev[i]][i]
      BY <3>1, <3>3, <1>13, Zenon
    <3> QED
      BY <3>2, <3>4, <1>8, <1>11, Zenon DEF Precedes
  <2>4. \E h \in heights : height <= h
    BY <1>1, Zenon DEF IInv, Inserting
  <2> QED
    BY <1>3, <1>6, <1>7, <1>8, <2>1, <2>2, <2>3, <2>4, Zenon DEF Inserting
<1>18. MissesNothing'
  <2> SUFFICES ASSUME NEW q \in Reader, search'[q].at = "done" PROVE IsNeighbour(search[q])'
    BY Zenon DEF MissesNothing, Ready
  <2>1. IsNeighbour(search'[q])
    BY <1>3, <1>7, Zenon DEF IInv, MissesNothing, Ready, Thread
  <2> QED
    BY <2>1, <1>11, <1>12, Zenon DEF IsNeighbour
<1> QED
  BY <1>10, <1>14, <1>15, <1>16, <1>17, <1>18, Zenon DEF IInv

-----------------------------------------------------------------------------
(* The theorems *)

\* The constructor makes a list without nodes.
LEMMA InitKeeps == Init => IInv
<1> SUFFICES ASSUME Init PROVE IInv
  BY Zenon
<1>1. 0 \in Level /\ head_ \in Node /\ NULL \in Nat /\ 1 \in 1..kMaxHeight
  BY DEF Level, Node, NULL
<1>2. \A t \in Thread : search[t] = [at |-> "done", op |-> "forward", target |-> NULL, x |-> head_,
                                    level |-> 0, node |-> NULL, seen |-> {}]
  BY Zenon DEF Init
<1>3. TypeOK
  <2>1. search \in [Thread -> SearchType]
    BY <1>1, Zenon DEF Init, SearchType
  <2>2. next_ \in [Node -> [Level -> Key \cup {NULL, Garbage}]] /\ prev \in [Level -> Node]
    BY <1>1, Zenon DEF Init, Node
  <2>3. links \in [Key -> 0..kMaxHeight] /\ heights \in SUBSET (1..kMaxHeight) /\ height \in 0..kMaxHeight
    BY <1>1 DEF Init
  <2> QED
    BY <2>1, <2>2, <2>3, Zenon DEF TypeOK
<1>4. \A k \in Key, l \in Level : ~Linked(k, l)
  BY DEF Init, Linked, Level, Key, head_
<1>5. Sorted
  <2> SUFFICES ASSUME NEW l \in Level, NEW n \in Node, Linked(n, l) PROVE Follows(n, l)
    BY Zenon DEF Sorted
  <2>1. n = head_
    BY <1>4, Zenon DEF Node
  <2>2. next_[n][l] = NULL /\ n < NULL
    BY <2>1, <1>1 DEF Init, Node, NULL, head_
  <2> QED
    BY <2>2, <1>4, Zenon DEF Follows
<1>6. Covered
  BY DEF Init, Covered
<1>7. Searching
  BY <1>2 DEF Searching
<1>8. Inserting
  <2>1. search[Writer].at = "done" /\ \A r \in Reader : search[r].at = "done"
    BY <1>2 DEF Thread
  <2> QED
    BY <2>1, Zenon DEF Inserting
<1>9. MissesNothing
  <2> SUFFICES ASSUME NEW r \in Reader PROVE IsNeighbour(search[r])
    BY Zenon DEF MissesNothing
  <2>1. search[r].node = NULL /\ search[r].op = "forward" /\ search[r].target = NULL /\ search[r].seen = {}
    BY <1>2 DEF Thread
  <2>2. NULL <= NULL
    BY <1>1
  <2> QED
    BY <2>1, <2>2, Zenon DEF IsNeighbour
<1> QED
  BY <1>3, <1>5, <1>6, <1>7, <1>8, <1>9, Zenon DEF IInv

\* Every step of a writer or a reader keeps the invariant.
LEMMA NextKeeps == IInv /\ [Next]_vars => IInv'
<1> SUFFICES ASSUME IInv, [Next]_vars PROVE IInv'
  BY Zenon
<1>1. CASE WriterStep
  BY <1>1, InsertKeeps, RaiseKeeps, InitNextKeeps, PublishKeeps, Zenon DEF WriterStep
<1>2. ASSUME NEW r \in Reader, ReaderStep(r) PROVE IInv'
  BY <1>2, ReaderKeeps, Zenon
<1>3. ASSUME NEW t \in Thread, Advance(t) \/ Descend(t) PROVE IInv'
  <2>1. CASE t = Writer
    BY <1>3, <2>1, WriterAdvances, WriterDescends, Zenon
  <2>2. CASE t \in Reader
    BY <1>3, <2>2, ReaderSearches, Zenon
  <2> QED
    BY <2>1, <2>2, Zenon DEF Thread
<1>4. CASE UNCHANGED vars
  <2> USE <1>4 DEF vars, IInv
  <2>1. TypeOK' /\ Covered'
    BY Zenon DEF TypeOK, Covered
  <2>2. Sorted'
    BY Zenon DEF Sorted, Follows, Linked
  <2>3. Searching'
    BY Zenon DEF Searching, OnItsWay, Linked, Present
  <2>4. Inserting'
    BY Zenon DEF Inserting, Precedes, Linked
  <2>5. MissesNothing'
    BY Zenon DEF MissesNothing, IsNeighbour, Ready, Linked
  <2> QED
    BY <2>1, <2>2, <2>3, <2>4, <2>5, Zenon
<1> QED
  BY <1>1, <1>2, <1>3, <1>4, Zenon DEF Next

\* The invariant holds in every state, for any number of readers, keys and levels.
THEOREM ListIsSorted == Spec => []IInv
BY InitKeeps, NextKeeps, PTL DEF Spec

\* Whoever searches reads only pointers that Insert() has initialized.
THEOREM ReadsInitialized == Spec => []NoGarbageRead
<1>1. IInv => NoGarbageRead
  <2> SUFFICES ASSUME IInv, NEW t \in Thread, search[t].at = "search"
               PROVE  next_[search[t].x][search[t].level] # Garbage
    BY Zenon DEF NoGarbageRead
  <2>1. search[t].x \in Node /\ search[t].level \in Level /\ Linked(search[t].x, search[t].level)
    BY Zenon DEF IInv, TypeOK, SearchType, Searching, OnItsWay
  <2>2. next_[search[t].x][search[t].level] \in Key \cup {NULL}
    BY <2>1 DEF IInv, Sorted, Follows
  <2> QED
    BY <2>2 DEF Key, NULL
<1> QED
  BY <1>1, ListIsSorted, PTL

\* An iterator misses no key that was in the list when its search began.
THEOREM SearchesAreRight == Spec => []MissesNothing
<1>1. IInv => MissesNothing
  BY Zenon DEF IInv
<1> QED
  BY <1>1, ListIsSorted, PTL
=============================================================================
