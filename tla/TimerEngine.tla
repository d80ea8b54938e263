---------------------------- MODULE TimerEngine -----------------------------
(***************************************************************************)
(* What the engine's timers promise the Lua side, whatever structure holds *)
(* them: a timer that has been added is handed back exactly once, and not  *)
(* before the jiffy it is due at.  TimerWheel (timer.c) implements it.     *)
(***************************************************************************)
EXTENDS Naturals

CONSTANTS
  Timer,  \* the timers a caller may add, each once
  Delay   \* the delays it may ask for, in jiffies

VARIABLES
  now,      \* the engine's jiffies
  due,      \* due[t]: the jiffy timer t was asked for
  pending,  \* the timers added and not yet handed back
  fired     \* the timers handed back

vars == <<now, due, pending, fired>>

Init ==
  /\ now = 0
  /\ due = [t \in Timer |-> 0]
  /\ pending = {}
  /\ fired = {}

Add(t, d) ==
  /\ t \notin pending \union fired
  /\ due' = [due EXCEPT ![t] = now + d]
  /\ pending' = pending \union {t}
  /\ UNCHANGED <<now, fired>>

(* One jiffy passes; the timers it hands back are due. *)
Advance(S) ==
  /\ \A t \in S : due[t] <= now
  /\ pending' = pending \ S
  /\ fired' = fired \union S
  /\ now' = now + 1
  /\ UNCHANGED due

(* The clock starts again: the timers that wait are due at any time.       *)
Restart ==
  /\ now' = 0
  /\ due' = [t \in Timer |-> IF t \in pending THEN 0 ELSE due[t]]
  /\ UNCHANGED <<pending, fired>>

Next ==
  \/ Restart
  \/ \E t \in Timer, d \in Delay : Add(t, d)
  \/ \E S \in SUBSET pending : Advance(S)

Spec == Init /\ [][Next]_vars

=============================================================================
