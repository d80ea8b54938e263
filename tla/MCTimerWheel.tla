---------------------------- MODULE MCTimerWheel ----------------------------
(* A small wheel: the arithmetic is that of timer.c with vectors of 2 or 4 *)
(* slots instead of 256 and 64.  One run looks at three things: one timer, *)
(* with every kind of delay, added at any jiffy of a full turn of the      *)
(* wheel; two timers with shorter delays, added early; and a timer that    *)
(* waits and one that is added as the clock is set back and goes on.       *)
EXTENDS TimerWheel

CONSTANTS
  First,      \* the timer of the first part
  EarlyUntil, \* bound of the other parts: no timer is added later
  EarlyEnd,   \* bound of the second part: the clock stops here
  EarlyDelay  \* delays of the other parts

ASSUME PartsAssumption == First \in Timer /\ EarlyUntil <= AddUntil

VARIABLE part
all == <<vars, part>>

(* In the last part First is added before the clock is set back. *)
PartTick ==
  /\ part # "one" => frame < (IF adding = NoTimer /\ put = << >> THEN EarlyEnd ELSE EarlyUntil + MaxLag)
  /\ Tick /\ UNCHANGED part
PartAdd(t, d) ==
  /\ part = "one" => t = First
  /\ part # "one" => jiffies <= EarlyUntil /\ d \in EarlyDelay
  /\ part = "start" => (t = First <=> control = "before")
  /\ AddRead(t, d) /\ UNCHANGED part
PartPut == AddPut /\ UNCHANGED part
PartDrain == Drain /\ UNCHANGED part
PartJiffy == RunJiffy /\ UNCHANGED part
PartDone == RunDone /\ UNCHANGED part
PartSetStart(o) == part = "start" /\ jiffies <= EarlyUntil + 1 /\ SetStart(o) /\ UNCHANGED part
PartRelease == Release /\ UNCHANGED part

PartInit == Init /\ part \in {"one", "two", "start"}

PartNext ==
  \/ PartTick
  \/ \E t \in Timer, d \in Delay : PartAdd(t, d)
  \/ PartPut
  \/ PartDrain
  \/ PartJiffy
  \/ PartDone
  \/ PartRelease
  \/ \E o \in Outage : PartSetStart(o)

(* The fairness of TimerWheel in every part. *)
PartSpec ==
  /\ PartInit
  /\ [][PartNext]_all
  /\ WF_all(PartTick) /\ WF_all(PartPut) /\ WF_all(PartDrain)
  /\ WF_all(PartJiffy) /\ WF_all(PartDone) /\ WF_all(PartRelease)
=============================================================================
