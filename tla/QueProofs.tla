----------------------------- MODULE QueProofs ------------------------------
(***************************************************************************)
(* For any set of producers: a queue of que.c never loses a signal, and    *)
(* implements a FIFO queue.                                                *)
(***************************************************************************)
EXTENDS Que, SequenceTheorems, TLAPS

(* A batch of a producer is a sequence of its items. *)
LEMMA BatchType ==
  ASSUME TypeOK, NEW p \in Producers, NEW n \in 0..MaxPut,
         sent[p] + n <= MaxPut
  PROVE  Batch(p, n) \in Seq(Item)
<1>1. sent[p] \in Nat
  BY QueAssumption DEF TypeOK
<1>2. \A i \in 1..n : <<p, sent[p] + i>> \in Item
  BY <1>1, QueAssumption DEF Item
<1>3. Batch(p, n) \in [1..n -> Item]
  BY <1>2 DEF Batch
<1>. QED
  BY <1>3, QueAssumption

(* Both ways of taking from a non-empty list take its n > 0 oldest items.  *)
LEMMA TakeOutStep ==
  ASSUME TypeOK, chain # << >>, NEW w \in Want, TakeOut(w)
  PROVE  /\ \E n \in 1..Len(chain) : Queue!Take(n)
         /\ chain' \in Seq(Item)
         /\ got' \in Seq(Item)
<1> DEFINE n == IF w = "all" THEN Len(chain) ELSE 1
<1>1. Len(chain) \in Nat \ {0} /\ n \in 1..Len(chain)
  BY DEF TypeOK
<1>2. /\ got' = got \o SubSeq(chain, 1, n)
      /\ chain' = SubSeq(chain, n + 1, Len(chain))
  BY DEF TakeOut
<1>3. Queue!Take(n)
  BY <1>2 DEF Queue!Take
<1>4. SubSeq(chain, 1, n) \in Seq(Item) /\ SubSeq(chain, n + 1, Len(chain)) \in Seq(Item)
  <2>1. \A i \in 1..Len(chain) : chain[i] \in Item
    BY DEF TypeOK
  <2>. QED
    BY <1>1, <2>1, SubSeqProperties
<1>5. got' \in Seq(Item)
  BY <1>2, <1>4, ConcatProperties DEF TypeOK
<1>. QED
  BY <1>1, <1>2, <1>3, <1>4, <1>5

(* Every step keeps the types; wait - 1 needs what wait counts. *)
LEMMA NextType == TypeOK /\ WaitCounts /\ [QueNext]_QueVars => TypeOK'
<1> SUFFICES ASSUME TypeOK, WaitCounts, [QueNext]_QueVars PROVE TypeOK'
  OBVIOUS
<1>. USE QueAssumption
<1>1. ASSUME NEW p \in Producers, NEW n \in 0..MaxPut, Put(p, n) PROVE TypeOK'
  <2>1. chain' \in Seq(Item)
    BY <1>1, BatchType DEF Put, TypeOK
  <2>2. sent' \in [Producers -> 0..MaxPut]
    BY <1>1 DEF Put, TypeOK
  <2>3. ppc' \in [Producers -> {"idle", "signal"}]
    BY <1>1 DEF Put, TypeOK
  <2>. QED
    BY <1>1, <2>1, <2>2, <2>3 DEF Put, TypeOK
<1>2. ASSUME NEW p \in Producers, Signal(p) PROVE TypeOK'
  BY <1>2 DEF Signal, TypeOK
<1>3. ASSUME NEW w \in Want, Sleep(w) PROVE TypeOK'
  BY <1>3 DEF Sleep, TypeOK, Want
<1>4. ASSUME NEW w \in Want, Get(w) PROVE TypeOK'
  BY <1>4, TakeOutStep DEF Get, TypeOK
<1>5. ASSUME NEW w \in Want, Look(w) PROVE TypeOK'
  BY <1>5 DEF Look, TypeOK, Want
<1>6. CASE Spurious
  BY <1>6 DEF Spurious, TypeOK
<1>7. CASE Resume
  <2>1. CASE chain = << >>
    BY <1>7, <2>1 DEF Resume, TypeOK
  <2>2. CASE chain # << >>
    <3>1. chain' \in Seq(Item) /\ got' \in Seq(Item)
      BY <1>7, <2>2, TakeOutStep DEF Resume, TypeOK
    <3>. QED
      BY <1>7, <2>2, <3>1 DEF Resume, TypeOK, WaitCounts
  <2>. QED
    BY <2>1, <2>2
<1>8. CASE TryTake
  BY <1>8, TakeOutStep DEF TryTake, TypeOK
<1>9. CASE UNCHANGED QueVars
  BY <1>9 DEF QueVars, TypeOK
<1>. QED
  BY <1>1, <1>2, <1>3, <1>4, <1>5, <1>6, <1>7, <1>8, <1>9 DEF QueNext

(* wait is exact: 1 while the consumer is inside pthread_cond_wait. *)
LEMMA WaitStep == TypeOK /\ WaitCounts /\ [QueNext]_QueVars => WaitCounts'
<1> SUFFICES ASSUME TypeOK, WaitCounts, [QueNext]_QueVars PROVE WaitCounts'
  OBVIOUS
<1>. USE DEF WaitCounts
<1>1. ASSUME NEW p \in Producers, NEW n \in 0..MaxPut, Put(p, n) PROVE WaitCounts'
  BY <1>1 DEF Put
<1>2. ASSUME NEW p \in Producers, Signal(p) PROVE WaitCounts'
  BY <1>2 DEF Signal
<1>3. ASSUME NEW w \in Want, Sleep(w) \/ Get(w) \/ Look(w) PROVE WaitCounts'
  BY <1>3 DEF Sleep, Get, Look
<1>4. CASE Spurious \/ Resume \/ TryTake
  BY <1>4 DEF Spurious, Resume, TryTake
<1>5. CASE UNCHANGED QueVars
  BY <1>5 DEF QueVars
<1>. QED
  BY <1>1, <1>2, <1>3, <1>4, <1>5 DEF QueNext

(* Type correctness of the queue, and the exactness of wait. *)
THEOREM TypeCorrect == QueSpec => [](TypeOK /\ WaitCounts)
<1>1. QueInit => TypeOK /\ WaitCounts
  BY QueAssumption DEF QueInit, TypeOK, WaitCounts, Want
<1>. QED
  BY <1>1, NextType, WaitStep, PTL DEF QueSpec

-----------------------------------------------------------------------------

(* The steps of NoLostSignal and LookStillTrue.  A put that finds the      *)
(* consumer asleep finds wait = 1, so its producer is the one to signal;   *)
(* the consumer goes to sleep only on an empty list; and only the consumer *)
(* shortens the list, so what it looked at stays.                          *)
LEMMA SignalStep ==
  ASSUME TypeOK, WaitCounts, NoLostSignal, LookStillTrue, [QueNext]_QueVars
  PROVE  NoLostSignal' /\ LookStillTrue'
<1>. USE DEF NoLostSignal, LookStillTrue
<1>1. ASSUME NEW p \in Producers, NEW n \in 0..MaxPut, Put(p, n)
      PROVE  NoLostSignal' /\ LookStillTrue'
  <2>1. LookStillTrue'
    <3>1. Batch(p, n) \in Seq(Item) /\ chain \in Seq(Item)
      BY <1>1, BatchType DEF Put, TypeOK
    <3>2. chain # << >> => chain \o Batch(p, n) # << >>
      BY <3>1, ConcatEqualIffEmpty
    <3>. QED
      BY <1>1, <3>2 DEF Put
  <2>2. ASSUME cpc' = "asleep" PROVE ppc'[p] = "signal"
    <3>1. wait # 0
      BY <1>1, <2>2 DEF Put, WaitCounts
    <3>. QED
      BY <1>1, <3>1 DEF Put, TypeOK
  <2>. QED
    BY <2>1, <2>2
<1>2. ASSUME NEW p \in Producers, Signal(p)
      PROVE  NoLostSignal' /\ LookStillTrue'
  BY <1>2 DEF Signal
<1>3. ASSUME NEW w \in Want, Sleep(w) \/ Get(w) \/ Look(w)
      PROVE  NoLostSignal' /\ LookStillTrue'
  BY <1>3 DEF Sleep, Get, Look
<1>4. CASE Spurious \/ Resume \/ TryTake
  BY <1>4 DEF Spurious, Resume, TryTake
<1>5. CASE UNCHANGED QueVars
  BY <1>5 DEF QueVars
<1>. QED
  BY <1>1, <1>2, <1>3, <1>4, <1>5 DEF QueNext

(* A consumer of que.c never sleeps on a non-empty list with no signal on  *)
(* its way, although QuePut signals after it has unlocked.                 *)
THEOREM NoLostSignalHolds == QueSpec => []NoLostSignal
<1>1. QueInit => NoLostSignal /\ LookStillTrue
  BY DEF QueInit, NoLostSignal, LookStillTrue
<1>. QED
  BY <1>1, SignalStep, TypeCorrect, PTL DEF QueSpec

(* The unlocked look of QueTry and QueTryAll is never contradicted by the  *)
(* critical section that follows it.                                       *)
THEOREM LookStillTrueHolds == QueSpec => []LookStillTrue
<1>1. QueInit => NoLostSignal /\ LookStillTrue
  BY DEF QueInit, NoLostSignal, LookStillTrue
<1>. QED
  BY <1>1, SignalStep, TypeCorrect, PTL DEF QueSpec

(* The list, its lock and its condition variable implement a FIFO queue.   *)
THEOREM QueIsQueue == QueSpec => QueueSpec
<1>1. QueInit => Queue!Init
  BY DEF QueInit, Queue!Init
<1>2. TypeOK /\ [QueNext]_QueVars => [Queue!Next]_(Queue!vars)
  <2> SUFFICES ASSUME TypeOK, [QueNext]_QueVars
               PROVE  Queue!Next \/ UNCHANGED Queue!vars
    OBVIOUS
  <2>1. ASSUME NEW p \in Producers, NEW n \in 0..MaxPut, Put(p, n)
        PROVE  Queue!Put
    <3>1. Batch(p, n) \in Seq(Item)
      BY <2>1, BatchType DEF Put
    <3>. QED
      BY <2>1, <3>1 DEF Put, TypeOK, Queue!Put
  <2>2. ASSUME NEW p \in Producers, Signal(p) PROVE UNCHANGED Queue!vars
    BY <2>2 DEF Signal, Queue!vars
  <2>3. ASSUME NEW w \in Want, Sleep(w) \/ Look(w) PROVE UNCHANGED Queue!vars
    BY <2>3 DEF Sleep, Look, Queue!vars
  <2>4. ASSUME NEW w \in Want, Get(w) PROVE Queue!Next
    BY <2>4, TakeOutStep DEF Get, Queue!Next
  <2>5. CASE Spurious
    BY <2>5 DEF Spurious, Queue!vars
  <2>6. CASE Resume
    <3>1. CASE chain = << >>
      BY <2>6, <3>1 DEF Resume, Queue!vars
    <3>2. CASE chain # << >>
      <4>1. want \in Want /\ TakeOut(want)
        BY <2>6, <3>2 DEF Resume, TypeOK
      <4>. QED
        BY <3>2, <4>1, TakeOutStep DEF Queue!Next
    <3>. QED
      BY <3>1, <3>2
  <2>7. CASE TryTake
    <3>1. CASE chain = << >>
      BY <2>7, <3>1 DEF TryTake, Queue!vars
    <3>2. CASE chain # << >>
      <4>1. want \in Want /\ TakeOut(want)
        BY <2>7, <3>2 DEF TryTake, TypeOK
      <4>. QED
        BY <3>2, <4>1, TakeOutStep DEF Queue!Next
    <3>. QED
      BY <3>1, <3>2
  <2>8. CASE UNCHANGED QueVars
    BY <2>8 DEF QueVars, Queue!vars
  <2>. QED
    BY <2>1, <2>2, <2>3, <2>4, <2>5, <2>6, <2>7, <2>8 DEF QueNext, Queue!Next
<1>. QED
  BY <1>1, <1>2, TypeCorrect, PTL DEF QueSpec, QueueSpec, Queue!Spec

==================================================
