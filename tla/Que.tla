-------------------------------- MODULE Que ---------------------------------
(***************************************************************************)
(* The blocking queue of que.c, used between every two threads of the      *)
(* engine: a list under a mutex, a condition variable, and the counter     *)
(* wait of consumers inside pthread_cond_wait.  A producer signals only    *)
(* when it saw wait # 0, and signals after it has unlocked.  Every queue   *)
(* has one consumer thread; it may block (QueGet, QueGetAll) or poll       *)
(* (QueTry, QueTryAll, which look at the list once without the mutex).     *)
(*                                                                         *)
(* A critical section is one action; pthread_cond_wait is the action that  *)
(* goes to sleep and the one that returns with the mutex held.             *)
(***************************************************************************)
EXTENDS Naturals, Sequences

CONSTANTS
  Producers,  \* the threads that put
  MaxPut      \* bound: items each producer puts

ASSUME QueAssumption == MaxPut \in Nat

Item == Producers \X (1..MaxPut)

(* QueGet and QueTry take one item, QueGetAll and QueTryAll the list. *)
Want == {"one", "all"}

VARIABLES
  sent,   \* sent[p]: number of items p has put so far
  chain,  \* Que.chain
  wait,   \* Que.wait
  ppc,    \* "idle", or "signal": unlocked with sig # 0
  cpc,    \* the consumer: "out" of the queue, "asleep" or "woken" inside
          \* pthread_cond_wait, "try": past the unlocked look at the list
  want,   \* what the call in progress will take
  got     \* everything the consumer has taken (history)

QueVars == <<sent, chain, wait, ppc, cpc, want, got>>

QueInit ==
  /\ sent = [p \in Producers |-> 0]
  /\ chain = << >>
  /\ wait = 0
  /\ ppc = [p \in Producers |-> "idle"]
  /\ cpc = "out"
  /\ want = "one"
  /\ got = << >>

Batch(p, n) == [i \in 1..n |-> <<p, sent[p] + i>>]

(* QuePut (n = 1) and QuePutAll (any list, the empty one included: a gate  *)
(* worker calls it after every epoll_wait) up to the unlock.               *)
Put(p, n) ==
  /\ ppc[p] = "idle"
  /\ sent[p] + n <= MaxPut
  /\ chain' = chain \o Batch(p, n)
  /\ sent' = [sent EXCEPT ![p] = @ + n]
  /\ ppc' = [ppc EXCEPT ![p] = IF wait # 0 THEN "signal" ELSE "idle"]
  /\ UNCHANGED <<wait, cpc, want, got>>

(* pthread_cond_signal: wakes the consumer if it is asleep, else nothing.  *)
Signal(p) ==
  /\ ppc[p] = "signal"
  /\ ppc' = [ppc EXCEPT ![p] = "idle"]
  /\ cpc' = IF cpc = "asleep" THEN "woken" ELSE cpc
  /\ UNCHANGED <<sent, chain, wait, want, got>>

(* Mutant: a single item is taken from the back. *)
TakeOutLast(w) ==
  LET n == IF w = "all" THEN 0 ELSE Len(chain) - 1
  IN  /\ got' = got \o SubSeq(chain, n + 1, Len(chain))
      /\ chain' = SubSeq(chain, 1, n)

(* LIST_SPLICE_TAIL of the whole chain, or LIST_DEL of its first item. *)
TakeOut(w) ==
  LET n == IF w = "all" THEN Len(chain) ELSE 1
  IN  /\ got' = got \o SubSeq(chain, 1, n)
      /\ chain' = SubSeq(chain, n + 1, Len(chain))

(* Mutant: wait is not counted up. *)
SleepUncounted(w) ==
  /\ cpc = "out"
  /\ chain = << >>
  /\ want' = w
  /\ cpc' = "asleep"
  /\ UNCHANGED <<sent, chain, wait, ppc, got>>

(* QueGet or QueGetAll finds the list empty: wait += 1 and sleep. *)
Sleep(w) ==
  /\ cpc = "out"
  /\ chain = << >>
  /\ wait' = wait + 1
  /\ want' = w
  /\ cpc' = "asleep"
  /\ UNCHANGED <<sent, chain, ppc, got>>

(* QueGet or QueGetAll finds items at once. *)
Get(w) ==
  /\ cpc = "out"
  /\ chain # << >>
  /\ TakeOut(w)
  /\ UNCHANGED <<sent, wait, ppc, cpc, want>>

(* pthread_cond_wait may return without a signal. *)
Spurious ==
  /\ cpc = "asleep"
  /\ cpc' = "woken"
  /\ UNCHANGED <<sent, chain, wait, ppc, want, got>>

(* Mutant: wait is not counted down. *)
ResumeCounted ==
  /\ cpc = "woken"
  /\ \/ /\ chain = << >>
        /\ cpc' = "asleep"
        /\ UNCHANGED <<chain, got>>
     \/ /\ chain # << >>
        /\ TakeOut(want)
        /\ cpc' = "out"
  /\ UNCHANGED <<sent, wait, ppc, want>>

(* The return of pthread_cond_wait: wait -= 1, then the while tests the    *)
(* list again.                                                             *)
Resume ==
  /\ cpc = "woken"
  /\ \/ /\ chain = << >>             \* wait -= 1; wait += 1; sleep again
        /\ cpc' = "asleep"
        /\ UNCHANGED <<wait, chain, got>>
     \/ /\ chain # << >>
        /\ wait' = wait - 1
        /\ TakeOut(want)
        /\ cpc' = "out"
  /\ UNCHANGED <<sent, ppc, want>>

(* Mutant: no look at the list. *)
LookAway(w) ==
  /\ cpc = "out"
  /\ want' = w
  /\ cpc' = "try"
  /\ UNCHANGED <<sent, chain, wait, ppc, got>>

(* QueTry and QueTryAll look at the list before they lock. *)
Look(w) ==
  /\ cpc = "out"
  /\ chain # << >>
  /\ want' = w
  /\ cpc' = "try"
  /\ UNCHANGED <<sent, chain, wait, ppc, got>>

(* Their critical section, which tests the list again. *)
TryTake ==
  /\ cpc = "try"
  /\ IF chain # << >> THEN TakeOut(want) ELSE UNCHANGED <<chain, got>>
  /\ cpc' = "out"
  /\ UNCHANGED <<sent, wait, ppc, want>>

QueNext ==
  \/ \E p \in Producers, n \in 0..MaxPut : Put(p, n)
  \/ \E p \in Producers : Signal(p)
  \/ \E w \in Want : Sleep(w) \/ Get(w) \/ Look(w)
  \/ Spurious
  \/ Resume
  \/ TryTake

QueSpec == QueInit /\ [][QueNext]_QueVars

(* A consumer that loops on QueGet or QueGetAll (the gate's exchange       *)
(* thread, the connecter, the tlog thread), and producers that always      *)
(* finish QuePut.  Nothing is owed a spurious wake-up.                     *)
QueFairness ==
  /\ \A p \in Producers : WF_QueVars(Signal(p))
  /\ WF_QueVars(\E w \in Want : Sleep(w) \/ Get(w))
  /\ WF_QueVars(Resume)
  /\ WF_QueVars(TryTake)

FairSpec == QueSpec /\ QueFairness

-----------------------------------------------------------------------------

TypeOK ==
  /\ sent \in [Producers -> 0..MaxPut]
  /\ chain \in Seq(Item)
  /\ wait \in Nat
  /\ ppc \in [Producers -> {"idle", "signal"}]
  /\ cpc \in {"out", "asleep", "woken", "try"}
  /\ want \in Want
  /\ got \in Seq(Item)

(* wait counts the consumer while it is inside pthread_cond_wait, woken or *)
(* not: a producer that puts before a woken consumer has resumed signals   *)
(* once more, which is harmless; one that missed a sleeping one would not  *)
(* be.                                                                     *)
WaitCounts == wait = IF cpc \in {"asleep", "woken"} THEN 1 ELSE 0

(* The consumer never sleeps on a non-empty list unless a producer is      *)
(* about to signal it, although the signal is sent after the unlock.       *)
NoLostSignal ==
  cpc = "asleep" /\ chain # << >> => \E p \in Producers : ppc[p] = "signal"

(* What QueTry saw before it locked is still there once it has: it never   *)
(* comes back empty-handed from its critical section, because no other     *)
(* thread takes from the list.                                             *)
LookStillTrue == cpc = "try" => chain # << >>

Queue == INSTANCE Fifo WITH Item <- Item, queue <- chain, got <- got
QueueSpec == Queue!Spec

=============================================================================
