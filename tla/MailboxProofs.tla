--------------------------- MODULE MailboxProofs ----------------------------
(***************************************************************************)
(* For any set of producers and any bounds: the mailbox of a gate worker   *)
(* never loses a wake-up and implements a FIFO queue.                      *)
(***************************************************************************)
EXTENDS Mailbox, SequenceTheorems, TLAPS

(* A non-empty batch of a producer is a sequence of its items. *)
LEMMA BatchType ==
  ASSUME TypeOK, NEW p \in Producers, NEW n \in 1..MaxPut,
         sent[p] + n <= MaxPut
  PROVE  /\ Batch(p, n) \in Seq(Item)
         /\ Len(Batch(p, n)) = n
<1>1. sent[p] \in Nat
  BY MailboxAssumption DEF TypeOK
<1>2. \A i \in 1..n : <<p, sent[p] + i>> \in Item
  BY <1>1, MailboxAssumption DEF Item
<1>3. Batch(p, n) \in [1..n -> Item]
  BY <1>2 DEF Batch
<1>4. n \in Nat
  OBVIOUS
<1>. QED
  BY <1>3, <1>4

(* Every step keeps the types. *)
LEMMA NextType == TypeOK /\ [Next]_vars => TypeOK'
<1> SUFFICES ASSUME TypeOK, [Next]_vars PROVE TypeOK'
  OBVIOUS
<1>. USE MailboxAssumption
<1>1. ASSUME NEW p \in Producers, NEW n \in 1..MaxPut, HandOver(p, n)
      PROVE  TypeOK'
  <2>1. qw' \in Seq(Item)
    BY <1>1, BatchType DEF HandOver, TypeOK
  <2>2. sent' \in [Producers -> 0..MaxPut]
    BY <1>1 DEF HandOver, TypeOK
  <2>3. nw' \in Nat /\ ppc' \in [Producers -> {"idle", "write"}]
    BY <1>1 DEF HandOver, TypeOK
  <2>. QED
    BY <1>1, <2>1, <2>2, <2>3 DEF HandOver, TypeOK
<1>2. ASSUME NEW p \in Producers, WriteByte(p) PROVE TypeOK'
  BY <1>2 DEF WriteByte, TypeOK
<1>3. CASE ReadPipe
  BY <1>3 DEF ReadPipe, TypeOK
<1>4. CASE Splice
  BY <1>4 DEF Splice, TypeOK
<1>5. CASE Deliver
  BY <1>5 DEF Deliver, TypeOK
<1>6. CASE Drained
  BY <1>6 DEF Drained, TypeOK
<1>7. CASE UNCHANGED vars
  BY <1>7 DEF vars, TypeOK
<1>. QED
  BY <1>1, <1>2, <1>3, <1>4, <1>5, <1>6, <1>7 DEF Next

(* Type correctness of the mailbox. *)
THEOREM TypeCorrect == Spec => []TypeOK
<1>1. Init => TypeOK
  BY MailboxAssumption DEF Init, TypeOK
<1>. QED
  BY <1>1, NextType, PTL DEF Spec

-----------------------------------------------------------------------------

(* What makes NoLostWakeup inductive: nw, which the producers test instead *)
(* of the list, agrees with it.                                            *)
WakeInv == TypeOK /\ CounterMatchesList /\ NoLostWakeup

LEMMA WakeInductive == WakeInv /\ [Next]_vars => WakeInv'
<1> SUFFICES ASSUME WakeInv, TypeOK', [Next]_vars
             PROVE  CounterMatchesList' /\ NoLostWakeup'
  BY NextType DEF WakeInv
<1>. USE DEF WakeInv, CounterMatchesList, NoLostWakeup, WakePending
<1>1. ASSUME NEW p \in Producers, NEW n \in 1..MaxPut, HandOver(p, n)
      PROVE  CounterMatchesList' /\ NoLostWakeup'
  <2>0. Batch(p, n) \in Seq(Item) /\ Len(Batch(p, n)) = n
    BY <1>1, BatchType DEF HandOver
  <2>1. Len(qw') = Len(qw) + n /\ n > 0
    <3>1. qw \in Seq(Item) /\ n \in Nat \ {0} /\ qw' = qw \o Batch(p, n)
      BY <1>1, MailboxAssumption DEF HandOver, TypeOK
    <3>2. Len(qw') = Len(qw) + Len(Batch(p, n))
      BY <2>0, <3>1, ConcatProperties
    <3>3. Len(qw) \in Nat
      BY <3>1
    <3>. QED
      BY <2>0, <3>1, <3>2, <3>3
  <2>2. qw' # << >> /\ nw' # 0
    BY <1>1, <2>1 DEF HandOver, TypeOK
  <2>3. CASE nw = 0
    <3>1. ppc'[p] = "write"
      BY <1>1, <2>3 DEF HandOver, TypeOK
    <3>. QED
      BY <2>2, <3>1
  <2>4. CASE nw # 0
    <3>1. ppc' = ppc
      BY <1>1, <2>4 DEF HandOver, TypeOK
    <3>. QED
      BY <1>1, <2>2, <2>4, <3>1 DEF HandOver
  <2>. QED
    BY <2>3, <2>4
<1>2. ASSUME NEW p \in Producers, WriteByte(p)
      PROVE  CounterMatchesList' /\ NoLostWakeup'
  BY <1>2 DEF WriteByte, TypeOK
<1>3. CASE ReadPipe
  BY <1>3 DEF ReadPipe
<1>4. CASE Splice
  BY <1>4 DEF Splice
<1>5. CASE Deliver
  BY <1>5 DEF Deliver
<1>6. CASE Drained
  BY <1>6 DEF Drained
<1>7. CASE UNCHANGED vars
  BY <1>7 DEF vars
<1>. QED
  BY <1>1, <1>2, <1>3, <1>4, <1>5, <1>6, <1>7 DEF Next

(* The worker of a gate thread never sleeps on a non-empty mailbox with    *)
(* nobody about to wake it (egate.c: nw, sockw and the signal pipe).       *)
THEOREM NoLostWakeupHolds == Spec => []NoLostWakeup
<1>1. Init => WakeInv
  BY MailboxAssumption DEF Init, WakeInv, TypeOK, CounterMatchesList,
     NoLostWakeup
<1>2. WakeInv => NoLostWakeup
  BY DEF WakeInv
<1>. QED
  BY <1>1, <1>2, WakeInductive, PTL DEF Spec

(* The counter the producers test is 0 exactly when the list is empty.     *)
THEOREM CounterHolds == Spec => []CounterMatchesList
<1>1. Init => WakeInv
  BY MailboxAssumption DEF Init, WakeInv, TypeOK, CounterMatchesList,
     NoLostWakeup
<1>2. WakeInv => CounterMatchesList
  BY DEF WakeInv
<1>. QED
  BY <1>1, <1>2, WakeInductive, PTL DEF Spec

-----------------------------------------------------------------------------

(* Why the pipe never holds two bytes: a wake-up is asked for, written, or *)
(* read and not yet answered by a splice, only while nw is not 0, and it   *)
(* is one of these at a time, by one producer.                             *)
OneWakeup ==
  /\ pipe <= 1
  /\ nw = 0 => pipe = 0 /\ wpc # "splice" /\ \A p \in Producers : ppc[p] # "write"
  /\ pipe = 1 => wpc # "splice"
  /\ \A p \in Producers : ppc[p] = "write" => pipe = 0 /\ wpc # "splice"
  /\ \A p, q \in Producers : ppc[p] = "write" /\ ppc[q] = "write" => p = q

LEMMA OneWakeupInductive == TypeOK /\ OneWakeup /\ [Next]_vars => OneWakeup'
<1> SUFFICES ASSUME TypeOK, OneWakeup, [Next]_vars PROVE OneWakeup'
  OBVIOUS
<1>. USE DEF OneWakeup, TypeOK
<1>1. ASSUME NEW p \in Producers, NEW n \in 1..MaxPut, HandOver(p, n)
      PROVE  OneWakeup'
  <2>1. nw' # 0 /\ pipe' = pipe /\ wpc' = wpc
    BY <1>1 DEF HandOver
  <2>2. CASE nw = 0
    <3>1. \A q \in Producers : ppc'[q] = "write" => q = p
      BY <1>1, <2>2 DEF HandOver
    <3>. QED
      BY <2>1, <2>2, <3>1
  <2>3. CASE nw # 0
    <3>1. ppc' = ppc
      BY <1>1, <2>3 DEF HandOver
    <3>. QED
      BY <2>1, <3>1
  <2>. QED
    BY <2>2, <2>3
<1>2. ASSUME NEW p \in Producers, WriteByte(p) PROVE OneWakeup'
  <2>1. pipe' = 1 /\ nw' = nw /\ nw # 0 /\ wpc' = wpc /\ wpc # "splice"
    BY <1>2 DEF WriteByte
  <2>2. \A q \in Producers : ppc'[q] # "write"
    BY <1>2 DEF WriteByte
  <2>. QED
    BY <2>1, <2>2
<1>3. CASE ReadPipe
  <2>1. pipe = 1 /\ pipe' = 0
    BY <1>3, MailboxAssumption DEF ReadPipe
  <2>. QED
    BY <1>3, <2>1 DEF ReadPipe
<1>4. CASE Splice
  BY <1>4 DEF Splice
<1>5. CASE Deliver
  BY <1>5 DEF Deliver
<1>6. CASE Drained
  BY <1>6 DEF Drained
<1>7. CASE UNCHANGED vars
  BY <1>7 DEF vars
<1>. QED
  BY <1>1, <1>2, <1>3, <1>4, <1>5, <1>6, <1>7 DEF Next

(* The wake-up pipe of a worker holds at most one byte, whatever the       *)
(* number of producers and the size of the read (egate.c: sig, sockw,      *)
(* sigs[128]).                                                             *)
THEOREM PipeBoundedHolds == Spec => []PipeBounded
<1>1. Init => TypeOK /\ OneWakeup
  BY MailboxAssumption DEF Init, TypeOK, OneWakeup
<1>2. OneWakeup => PipeBounded
  BY DEF OneWakeup, PipeBounded
<1>. QED
  BY <1>1, <1>2, NextType, OneWakeupInductive, PTL DEF Spec

-----------------------------------------------------------------------------

(* Taking the head of a queue is taking its one oldest item. *)
LEMMA TakeOne ==
  ASSUME NEW S, NEW s \in Seq(S), NEW t \in Seq(S), NEW g \in Seq(S),
         s # << >>
  PROVE  /\ 1 \in 1..Len(s \o t)
         /\ Append(g, Head(s)) = g \o SubSeq(s \o t, 1, 1)
         /\ Tail(s) \o t = SubSeq(s \o t, 2, Len(s \o t))
<1> DEFINE q == s \o t
<1>1. q \in Seq(S) /\ Len(q) = Len(s) + Len(t) /\ Len(s) > 0
  OBVIOUS
<1>2. q[1] = Head(s)
  BY <1>1
<1>3. SubSeq(q, 1, 1) \in Seq(S) /\ SubSeq(q, 1, 1) = <<q[1]>>
  <2>1. 1 \in 1..Len(q) /\ SubSeq(q, 1, 1) \in Seq(S) /\ Len(SubSeq(q, 1, 1)) = 1
    BY <1>1, SubSeqProperties
  <2>2. SubSeq(q, 1, 1)[1] = q[1]
    BY <1>1, SubSeqProperties
  <2>3. q[1] \in S /\ <<q[1]>> \in Seq(S) /\ Len(<<q[1]>>) = 1 /\ <<q[1]>>[1] = q[1]
    BY <1>1
  <2> DEFINE u == SubSeq(q, 1, 1)
  <2> DEFINE v == <<q[1]>>
  <2>4. u \in Seq(S) /\ v \in Seq(S) /\ Len(u) = 1 /\ Len(v) = 1 /\ u[1] = v[1]
    BY <2>1, <2>2, <2>3
  <2>5. u = v
    <3>. HIDE DEF u, v
    <3>1. \A i \in 1..Len(u) : u[i] = v[i]
      BY <2>4
    <3>. QED
      BY <2>4, <3>1, SeqEqual
  <2>. QED
    BY <2>1, <2>5
<1>4. Append(g, Head(s)) = g \o SubSeq(q, 1, 1)
  BY <1>2, <1>3, <1>1
<1>5. Tail(s) \o t = SubSeq(q, 2, Len(q))
  BY <1>1
<1>. QED
  BY <1>1, <1>4, <1>5

(* The pipe, the counter and the spliced list together implement the       *)
(* queue every caller of send_to_sck counts on: nothing handed over is     *)
(* lost, duplicated or reordered.                                          *)
THEOREM MailboxIsQueue == Spec => QueueSpec
<1>1. Init => Queue!Init
  BY DEF Init, Queue!Init
<1>2. TypeOK /\ [Next]_vars => [Queue!Next]_(Queue!vars)
  <2> SUFFICES ASSUME TypeOK, [Next]_vars
               PROVE  Queue!Next \/ UNCHANGED Queue!vars
    OBVIOUS
  <2>1. ASSUME NEW p \in Producers, NEW n \in 1..MaxPut, HandOver(p, n)
        PROVE  Queue!Put
    <3>1. Batch(p, n) \in Seq(Item)
      BY <2>1, BatchType DEF HandOver
    <3>. QED
      BY <2>1, <3>1 DEF HandOver, TypeOK, Queue!Put
  <2>2. ASSUME NEW p \in Producers, WriteByte(p) PROVE UNCHANGED Queue!vars
    BY <2>2 DEF WriteByte, Queue!vars
  <2>3. CASE ReadPipe
    BY <2>3 DEF ReadPipe, Queue!vars
  <2>4. CASE Splice
    BY <2>4 DEF Splice, Queue!vars, TypeOK
  <2>5. CASE Deliver
    <3>1. /\ 1 \in 1..Len(msgSend \o qw)
          /\ got' = got \o SubSeq(msgSend \o qw, 1, 1)
          /\ msgSend' \o qw' = SubSeq(msgSend \o qw, 2, Len(msgSend \o qw))
      BY <2>5, TakeOne DEF Deliver, TypeOK
    <3>2. Queue!Take(1)
      BY <3>1 DEF Queue!Take
    <3>. QED
      BY <3>1, <3>2 DEF Queue!Next
  <2>6. CASE Drained
    BY <2>6 DEF Drained, Queue!vars
  <2>7. CASE UNCHANGED vars
    BY <2>7 DEF vars, Queue!vars
  <2>. QED
    BY <2>1, <2>2, <2>3, <2>4, <2>5, <2>6, <2>7 DEF Next, Queue!Next
<1>. QED
  BY <1>1, <1>2, TypeCorrect, PTL DEF Spec, QueueSpec, Queue!Spec

=============================================================================
