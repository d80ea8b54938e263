------------------------------- MODULE Lists -------------------------------
(***************************************************************************)
(* What mylist.h promises: a list head stands for a sequence of elements,  *)
(* and an element is on one list at most.                                  *)
(***************************************************************************)
EXTENDS Integers, FiniteSetsExt, SequencesExt

CONSTANTS Que, Node

VARIABLE list

On(n) == {h \in Que : Contains(list[h], n)}
Without(s, n) == SelectSeq(s, LAMBDA m : m # n)

Init == list = [h \in Que |-> <<>>]

Enqueue(n, h) == On(n) = {} /\ list' = [list EXCEPT ![h] = Append(@, n)]
Unlink(n) == list' = [h \in Que |-> Without(list[h], n)]
Join(from, to) == from # to /\ list' = [list EXCEPT ![to] = @ \o list[from], ![from] = <<>>]

JoinFront(from, to) == from # to /\ list' = [list EXCEPT ![to] = list[from] \o @, ![from] = <<>>]

(* What the list was is lost. *)
Assign(from, to) == from # to /\ list' = [list EXCEPT ![to] = list[from], ![from] = <<>>]

(* The elements of one list go to others, in their order. *)
Deal(from, to) ==
  /\ \A i \in DOMAIN list[from] : to[list[from][i]] # from
  /\ list' = [h \in Que |->
       IF h = from THEN <<>> ELSE list[h] \o SelectSeq(list[from], LAMBDA n : to[n] = h)]

Next ==
  \/ \E n \in Node : Unlink(n) \/ \E h \in Que : Enqueue(n, h)
  \/ \E from \in Que : \/ \E to \in Que : Join(from, to) \/ JoinFront(from, to) \/ Assign(from, to)
                        \/ \E dest \in [Node -> Que] : Deal(from, dest)

Spec == Init /\ [][Next]_list
=============================================================================
