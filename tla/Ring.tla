-------------------------------- MODULE Ring --------------------------------
(***************************************************************************)
(* mylist.h: the lists of the engine are rings of next and prev pointers   *)
(* through their elements and the head, which the operations cut and join  *)
(* without looking.  The other modules take them for sequences (Lists).    *)
(***************************************************************************)
EXTENDS Integers, SequencesExt

CONSTANTS Que, Node

VARIABLES
  next, prev,  \* the pointers of the heads and of the elements
  loose        \* elements on no list whose pointers lead nowhere any more

ring == <<next, prev>>
vars == <<next, prev, loose>>

Ptr == Que \cup Node

(* One store, as the macros write them. *)
SetNext(r, p, q) == [r EXCEPT ![1][p] = q]
SetPrev(r, p, q) == [r EXCEPT ![2][p] = q]

INIT_LIST_HEAD(r, p) == SetPrev(SetNext(r, p, p), p, p)
__list_add(r, it, before, after) ==
  SetNext(SetPrev(SetNext(SetPrev(r, after, it), it, after), it, before), before, it)
LIST_ADD(r, it, head) == __list_add(r, it, head, r[1][head])
LIST_ADD_TAIL(r, it, head) == __list_add(r, it, r[2][head], head)
LIST_DEL(r, it) == SetNext(SetPrev(r, r[1][it], r[2][it]), r[2][it], r[1][it])
LIST_DEL_INIT(r, it) == INIT_LIST_HEAD(LIST_DEL(r, it), it)
LIST_EMPTY(r, head) == r[1][head] = head

(* Mutant: the last element keeps its old successor. *)
SpliceOpen(r, list, head) ==
  IF LIST_EMPTY(r, list) THEN r
  ELSE LET first == r[1][list]
           at == r[2][head]
       IN  SetPrev(SetPrev(SetNext(r, at, first), first, at), head, r[2][list])

LIST_SPLICE_TAIL(r, list, head) ==
  IF LIST_EMPTY(r, list) THEN r
  ELSE LET first == r[1][list]
           last == r[2][list]
           at == r[2][head]
       IN  SetPrev(SetNext(SetPrev(SetNext(r, at, first), first, at), last, head), head, last)

LIST_SPLICE(r, list, head) ==
  IF LIST_EMPTY(r, list) THEN r
  ELSE LET first == r[1][list]
           last == r[2][list]
           at == r[1][head]
       IN  SetPrev(SetNext(SetNext(SetPrev(r, first, head), head, first), last, at), at, last)

LIST_ASSIGN(r, dest, src) ==
  LET copy == SetPrev(SetNext(r, dest, r[1][src]), dest, r[2][src])
  IN  IF LIST_EMPTY(copy, src) THEN INIT_LIST_HEAD(copy, dest)
      ELSE LET back == SetPrev(copy, copy[1][src], dest) IN SetNext(back, back[2][src], dest)

(* LIST_FOR_EACH and LIST_FOR_EACH_PREV, until they are back at the head. *)
RECURSIVE Walk(_, _, _, _)
Walk(step, head, pos, seen) ==
  IF pos = head THEN seen
  ELSE IF pos \notin Node \/ Contains(seen, pos) THEN Append(seen, head)
  ELSE Walk(step, head, step[pos], Append(seen, pos))
ForEach(h) == Walk(next, h, next[h], <<>>)
ForEachPrev(h) == Walk(prev, h, prev[h], <<>>)

Init ==
  /\ next = [p \in Ptr |-> p] /\ prev = [p \in Ptr |-> p]
  /\ loose = {}

-----------------------------------------------------------------------------
Step(r) == next' = r[1] /\ prev' = r[2]
Alone(n) == n \in loose \/ next[n] = n

(* A queue, or a slot of the wheel through its last element. *)
Add(n, h) ==
  /\ Alone(n)
  /\ Step(LIST_ADD_TAIL(ring, n, h)) \/ Step(LIST_ADD(ring, n, prev[h]))
  /\ loose' = loose \ {n}

(* The first element is taken; its own pointers stay as they are. *)
Take(h) ==
  /\ ~LIST_EMPTY(ring, h)
  /\ Step(LIST_DEL(ring, next[h])) /\ loose' = loose \cup {next[h]}

(* An element that may be on no list: it must then have been initialised. *)
Drop(n) ==
  /\ n \notin loose
  /\ Step(LIST_DEL_INIT(ring, n)) /\ UNCHANGED loose

(* QueTryAll, recv_bufq, send_bufq: the emptied head is initialised again. *)
Splice(from, to) ==
  /\ from # to
  /\ Step(INIT_LIST_HEAD(LIST_SPLICE_TAIL(ring, from, to), from))
  /\ UNCHANGED loose

(* Nothing calls the last two macros of mylist.h; the head that was emptied
   is taken to be initialised, as after LIST_SPLICE_TAIL.  LIST_ASSIGN gives up
   what its target held. *)
SpliceFront(from, to) ==
  /\ from # to
  /\ Step(INIT_LIST_HEAD(LIST_SPLICE(ring, from, to), from))
  /\ UNCHANGED loose

Assign(from, to) ==
  /\ from # to
  /\ Step(INIT_LIST_HEAD(LIST_ASSIGN(ring, to, from), from))
  /\ loose' = loose \cup Range(ForEach(to))

(* LIST_FOR_EACH_SAFE of on_tick: the elements are queued elsewhere without
   being taken off, the head is given up; cascade_timers, which takes them off. *)
RECURSIVE Dealt(_, _, _, _, _)
Dealt(r, head, pos, to, off) ==
  IF pos = head THEN INIT_LIST_HEAD(r, head)
  ELSE Dealt(LIST_ADD_TAIL(IF off THEN LIST_DEL_INIT(r, pos) ELSE r, pos, to[pos]), head, r[1][pos], to, off)

DealOut(from, to, off) ==
  /\ \A n \in Node : to[n] # from
  /\ Step(Dealt(ring, from, next[from], to, off)) /\ UNCHANGED loose

Next ==
  \/ \E n \in Node : Drop(n) \/ \E h \in Que : Add(n, h)
  \/ \E h \in Que : Take(h) \/ \E to \in Que : Splice(h, to) \/ SpliceFront(h, to) \/ Assign(h, to)
  \/ \E h \in Que, to \in [Node -> Que], off \in BOOLEAN : DealOut(h, to, off)

Spec == Init /\ [][Next]_vars

(* Whichever way it is walked, a ring is the sequence that the queues are
   taken for: no operation loses an element, leaves one on two lists or turns
   a list into a loop without its head. *)
AsList(h) == IF ForEach(h) = Reverse(ForEachPrev(h)) THEN ForEach(h) ELSE <<h>>
L == INSTANCE Lists WITH list <- [h \in Que |-> AsList(h)]
ListsSpec == L!Spec
=============================================================================
