-------------------------------- MODULE Fifo --------------------------------
(***************************************************************************)
(* What every hand-over queue of the engine promises, whatever lock,       *)
(* condition variable or pipe it is built from: producers append batches,  *)
(* the one consumer takes items from the front, nothing is lost,           *)
(* duplicated or reordered.  Que (que.c) and Mailbox (the qw list and the  *)
(* wake-up pipe of a gate worker in egate.c) are both shown to implement   *)
(* it.                                                                     *)
(***************************************************************************)
EXTENDS Naturals, Sequences

CONSTANT Item

VARIABLES
  queue,   \* what has been put and not yet taken, oldest first
  got      \* everything the consumer has taken, oldest first (history)

vars == <<queue, got>>

Init ==
  /\ queue = << >>
  /\ got = << >>

(* A producer hands over one item or, from QuePutAll and LIST_SPLICE_TAIL, *)
(* a whole list: the queue grows at the back.                              *)
Put ==
  /\ queue' \in Seq(Item)
  /\ Len(queue') >= Len(queue)
  /\ \A i \in 1..Len(queue) : queue'[i] = queue[i]
  /\ UNCHANGED got

(* The consumer takes the n oldest items. *)
Take(n) ==
  /\ got' = got \o SubSeq(queue, 1, n)
  /\ queue' = SubSeq(queue, n + 1, Len(queue))

Next ==
  \/ Put
  \/ \E n \in 1..Len(queue) : Take(n)

Spec == Init /\ [][Next]_vars

=============================================================================
