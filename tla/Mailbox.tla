------------------------------ MODULE Mailbox -------------------------------
(***************************************************************************)
(* The mailbox of one worker thread of the gate (egate.c): the list qw,    *)
(* guarded by the mutex qwl, the counter nw of hand-overs since the last   *)
(* drain, and the pipe that wakes the worker from epoll_wait.  A producer  *)
(* writes a byte only when it found nw = 0, and writes it after it has     *)
(* released the mutex; the worker reads the pipe before it takes the list. *)
(* Each critical section under qwl is one action; what happens outside it  *)
(* is an action of its own.                                                *)
(***************************************************************************)
EXTENDS Naturals, Sequences

CONSTANTS
  Producers,  \* the exchange thread and the workers that call send_to_sck
  MaxPut,     \* bound: items each producer hands over
  ReadMax     \* sizeof(sigs), the bytes one read() of the pipe can drain

ASSUME MailboxAssumption ==
  /\ MaxPut \in Nat
  /\ ReadMax \in Nat \ {0}

Item == Producers \X (1..MaxPut)

VARIABLES
  sent,    \* sent[p]: number of items p has handed over so far
  qw,      \* Thread.qw
  nw,      \* Thread.nw
  pipe,    \* number of bytes in the wake-up pipe
  ppc,     \* "idle", or "write": left the mutex with sig = 0
  wpc,     \* the worker: "wait" in epoll_wait, "splice", "deliver"
  msgSend, \* the worker's private list
  got      \* everything the worker has dispatched (history)

vars == <<sent, qw, nw, pipe, ppc, wpc, msgSend, got>>

Init ==
  /\ sent = [p \in Producers |-> 0]
  /\ qw = << >>
  /\ nw = 0
  /\ pipe = 0
  /\ ppc = [p \in Producers |-> "idle"]
  /\ wpc = "wait"
  /\ msgSend = << >>
  /\ got = << >>

(* The next n items of producer p, in the order it made them. *)
Batch(p, n) == [i \in 1..n |-> <<p, sent[p] + i>>]

(* Mutant: nw is not counted up. *)
HandOverNoCount(p, n) ==
  /\ ppc[p] = "idle"
  /\ sent[p] + n <= MaxPut
  /\ qw' = qw \o Batch(p, n)
  /\ sent' = [sent EXCEPT ![p] = @ + n]
  /\ ppc' = [ppc EXCEPT ![p] = IF nw = 0 THEN "write" ELSE "idle"]
  /\ UNCHANGED <<nw, pipe, wpc, msgSend, got>>

(* The critical section of send_to_sck (n = 1) and of the distribution     *)
(* loop of exchange_loop (a list spliced as a whole).                      *)
HandOver(p, n) ==
  /\ ppc[p] = "idle"
  /\ sent[p] + n <= MaxPut
  /\ qw' = qw \o Batch(p, n)
  /\ sent' = [sent EXCEPT ![p] = @ + n]
  /\ nw' = nw + 1
  /\ ppc' = [ppc EXCEPT ![p] = IF nw = 0 THEN "write" ELSE "idle"]
  /\ UNCHANGED <<pipe, wpc, msgSend, got>>

(* if ( !sig ) write(dest->sockw, "1", 1), after the unlock. *)
WriteByte(p) ==
  /\ ppc[p] = "write"
  /\ pipe' = pipe + 1
  /\ ppc' = [ppc EXCEPT ![p] = "idle"]
  /\ UNCHANGED <<sent, qw, nw, wpc, msgSend, got>>

(* epoll_wait reports the pipe (level-triggered) and read() drains it. *)
ReadPipe ==
  /\ wpc = "wait"
  /\ pipe > 0
  /\ pipe' = IF pipe > ReadMax THEN pipe - ReadMax ELSE 0
  /\ wpc' = "splice"
  /\ UNCHANGED <<sent, qw, nw, ppc, msgSend, got>>

(* Mutant: nw is not reset. *)
SpliceKeepsCount ==
  /\ wpc = "splice"
  /\ msgSend' = msgSend \o qw
  /\ qw' = << >>
  /\ wpc' = "deliver"
  /\ UNCHANGED <<sent, nw, pipe, ppc, got>>

(* The worker's critical section: take the whole list and reset nw. *)
Splice ==
  /\ wpc = "splice"
  /\ msgSend' = msgSend \o qw
  /\ qw' = << >>
  /\ nw' = 0
  /\ wpc' = "deliver"
  /\ UNCHANGED <<sent, pipe, ppc, got>>

(* Mutant: one item per wake-up, the rest of the list is forgotten. *)
DeliverOne ==
  /\ wpc = "deliver"
  /\ msgSend # << >>
  /\ got' = Append(got, Head(msgSend))
  /\ msgSend' = << >>
  /\ UNCHANGED <<sent, qw, nw, pipe, ppc, wpc>>

(* Mutant: the list is taken from its back. *)
DeliverLast ==
  /\ wpc = "deliver"
  /\ msgSend # << >>
  /\ got' = Append(got, msgSend[Len(msgSend)])
  /\ msgSend' = SubSeq(msgSend, 1, Len(msgSend) - 1)
  /\ UNCHANGED <<sent, qw, nw, pipe, ppc, wpc>>

(* One turn of the worker's loop over its private list. *)
Deliver ==
  /\ wpc = "deliver"
  /\ msgSend # << >>
  /\ got' = Append(got, Head(msgSend))
  /\ msgSend' = Tail(msgSend)
  /\ UNCHANGED <<sent, qw, nw, pipe, ppc, wpc>>

(* The list is empty: back to epoll_wait. *)
Drained ==
  /\ wpc = "deliver"
  /\ msgSend = << >>
  /\ wpc' = "wait"
  /\ UNCHANGED <<sent, qw, nw, pipe, ppc, msgSend, got>>

Next ==
  \/ \E p \in Producers, n \in 1..MaxPut : HandOver(p, n)
  \/ \E p \in Producers : WriteByte(p)
  \/ ReadPipe
  \/ Splice
  \/ Deliver
  \/ Drained

Spec == Init /\ [][Next]_vars

(* The worker's loop and a producer past its unlock are threads the kernel *)
(* keeps running; nobody is obliged to hand anything over.                 *)
Fairness ==
  /\ \A p \in Producers : WF_vars(WriteByte(p))
  /\ WF_vars(ReadPipe)
  /\ WF_vars(Splice)
  /\ WF_vars(Deliver)
  /\ WF_vars(Drained)

FairSpec == Spec /\ Fairness

-----------------------------------------------------------------------------

TypeOK ==
  /\ sent \in [Producers -> 0..MaxPut]
  /\ qw \in Seq(Item)
  /\ nw \in Nat
  /\ pipe \in Nat
  /\ ppc \in [Producers -> {"idle", "write"}]
  /\ wpc \in {"wait", "splice", "deliver"}
  /\ msgSend \in Seq(Item)
  /\ got \in Seq(Item)

(* The worker has been, or is certain to be, woken: a byte is in the pipe, *)
(* it has read one and not yet taken the list, or a producer is about to   *)
(* write one.                                                              *)
WakePending ==
  \/ pipe > 0
  \/ wpc = "splice"
  \/ \E p \in Producers : ppc[p] = "write"

(* The worker never sleeps on a non-empty list with nobody about to wake   *)
(* it: the byte is written only by the producer that found nw = 0, and nw  *)
(* is reset in the same critical section that empties the list.            *)
NoLostWakeup == qw # << >> => WakePending

(* nw is the worker's half of the promise: while it is not 0 producers     *)
(* write nothing, so it must be 0 exactly when the list is empty.          *)
CounterMatchesList == nw = 0 <=> qw = << >>

(* At most one byte is in the pipe, however many producers find nw = 0:    *)
(* after one has, the next can only when a splice has reset nw, and each   *)
(* splice comes after a read that took a byte out.  One read drains the    *)
(* pipe, and write() never blocks a producer.                              *)
PipeBounded == pipe <= 1

(* Every item handed over reaches the worker's dispatch loop. *)
Delivered ==
  \A p \in Producers, k \in 1..MaxPut :
    sent[p] >= k ~> \E i \in DOMAIN got : got[i] = <<p, k>>

(* The mailbox is a FIFO queue of what is in qw behind what the worker has *)
(* already spliced off.                                                    *)
Queue == INSTANCE Fifo WITH Item <- Item, queue <- msgSend \o qw, got <- got
QueueSpec == Queue!Spec

=============================================================================
