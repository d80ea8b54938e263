----------------------------- MODULE TimerWheel -----------------------------
(***************************************************************************)
(* The timing wheel of timer.c: the root vector tv1, whose slots are one   *)
(* jiffy wide, the coarser vectors tv2..tv5 that cascade into it, the      *)
(* queue gQueTimerPut on which the Lua thread adds timers, the queue       *)
(* gQueTimerGet on which the timer thread hands them back, and the jiffy   *)
(* counter, which the Lua thread reads without any lock.                   *)
(*                                                                         *)
(* The timer thread drains the put queue, then runs at most MaxTurns       *)
(* jiffies, then sleeps; the Lua thread adds timers meanwhile.  Once, as   *)
(* the server starts, the Lua thread sets the clock back to the time of    *)
(* the last shutdown, adds the timers the database has kept, and lets the  *)
(* clock go on: it jumps to the real time.                                 *)
(***************************************************************************)
EXTENDS Integers, Sequences, FiniteSets, SequencesExt

CONSTANTS
  Timer,     \* timer_list objects, each added once
  NoTimer,   \* no timer
  Outage,    \* jiffies the server may have been down
  Delay,     \* delays asked for, in jiffies (milliseconds / TIMER_TICK)
  R,         \* TVR_SIZE, slots of tv1
  N,         \* TVN_SIZE, slots of each other vector
  NVecs,     \* NOOF_TVECS
  MaxTurns,  \* jiffies one call of run_timer_list may run (100)
  AddUntil,  \* bound: no timer is added after this jiffy
  MaxLag,    \* bound: jiffies the timer thread may fall behind the clock
  MaxFrame   \* bound: the clock stops at this frame

Vec == 1..NVecs

(* Slots of tv_n, jiffies tv1..tv_n span, and jiffies per slot of tv_n. *)
Size(n) == IF n = 1 THEN R ELSE N
Reach[n \in Vec] == IF n = 1 THEN R ELSE Reach[n - 1] * N
Unit(n) == IF n = 1 THEN 1 ELSE Reach[n - 1]

(* No delay is longer than the wheel: 2^32 jiffies of 10 ms are 497 days.  *)
ASSUME WheelAssumption ==
  /\ IsFiniteSet(Timer) /\ NoTimer \notin Timer
  /\ R \in Nat \ {0, 1} /\ N \in Nat \ {0, 1} /\ NVecs \in Nat \ {0, 1}
  /\ MaxTurns \in Nat \ {0}
  /\ AddUntil \in Nat /\ MaxLag \in Nat /\ MaxFrame \in Nat
  /\ Outage \subseteq Nat
  /\ \A d \in Delay : d \in 0..(Reach[NVecs] - 1)

VARIABLES
  frame,    \* (gMsec - gStartMsec) / TIMER_TICK, the wall clock in jiffies
  jiffies,  \* timer_jiffies
  index,    \* index[n]: tv_n.index
  wheel,    \* wheel[n][i]: the list tv_n.vec[i]
  due,      \* due[t]: timer->expires as computed by add_timer
  adding,   \* the timer the Lua thread has in add_timer, or NoTimer
  put,      \* gQueTimerPut
  get,      \* what has been put on gQueTimerGet, oldest first
  tpc,      \* the timer thread: "sleep", or "run" inside run_timer_list
  turn,     \* the loop counter i of run_timer_list
  control,  \* gTimeControl: "before", "held" and then "over"
  behind,   \* jiffies by which the clock, held, is behind the real time
  stray,    \* the timers that were waiting when the clock was set back (history)
  linkedAt, \* linkedAt[t]: jiffies when t entered the wheel (history)
  firedAt   \* firedAt[t]: jiffies when t was handed back (history)

timerVars == <<index, wheel, get, tpc, turn>>
history == <<linkedAt, firedAt>>
clock == <<control, behind, stray>>
vars == <<frame, jiffies, due, adding, put, timerVars, clock, history>>

Never == -1

Init ==
  /\ frame = 0
  /\ jiffies = 0
  /\ index = [n \in Vec |-> 0]
  /\ wheel = [n \in Vec |-> [i \in 0..(Size(n) - 1) |-> << >>]]
  /\ due = [t \in Timer |-> 0]
  /\ adding = NoTimer
  /\ put = << >>
  /\ get = << >>
  /\ tpc = "sleep"
  /\ turn = 0
  /\ control = "before" /\ behind = 0 /\ stray = {}
  /\ linkedAt = [t \in Timer |-> Never]
  /\ firedAt = [t \in Timer |-> Never]

-----------------------------------------------------------------------------

(* Mutant: a delay of a whole turn is put into the finer vector. *)
LevelTooFine(idx) ==
  CHOOSE n \in Vec : /\ idx <= Reach[n]
                     /\ \A m \in 1..(n - 1) : idx > Reach[m]

(* The smallest vector whose reach covers idx jiffies ahead. *)
Level(idx) ==
  CHOOSE n \in Vec : /\ idx < Reach[n]
                     /\ \A m \in 1..(n - 1) : idx >= Reach[m]

(* Mutant: the slot before. *)
internal_add_timer_early(w, t) ==
  LET ahead == due[t] - jiffies
      n     == Level(IF ahead < 1 THEN 1 ELSE ahead)
      i     == ((due[t] - 1) \div Unit(n)) % Size(n)
  IN  [w EXCEPT ![n][i] = Append(@, t)]

(* internal_add_timer: a timer that is not at least one jiffy ahead is     *)
(* treated as one jiffy ahead when the vector is chosen, but its slot is   *)
(* still computed from the expires it came with.  (The corrected           *)
(* timer->expires is not read again: such a timer is in tv1.)              *)
internal_add_timer(w, t) ==
  LET ahead == due[t] - jiffies
      idx   == IF ahead < 1 THEN 1 ELSE ahead
      n     == Level(idx)
      i     == (due[t] \div Unit(n)) % Size(n)
  IN  [w EXCEPT ![n][i] = Append(@, t)]

(* The timers of a list, one after the other. *)
AddAll(w, list) ==
  LET added[k \in 0..Len(list)] ==
        IF k = 0 THEN w ELSE internal_add_timer(added[k - 1], list[k])
  IN  added[Len(list)]

(* cascade_timers: every timer of the current slot of tv_n, in order, is   *)
(* added again; then the slot is cleared.                                  *)
cascade_timers(w, n) ==
  [AddAll(w, w[n][index[n]]) EXCEPT ![n][index[n]] = << >>]

(* When tv1 starts a new turn tv2 cascades; tv_(n+1) does too when the     *)
(* slot tv_n has just cascaded was its slot 0.                             *)
Cascading ==
  IF index[1] # 0 THEN {}
  ELSE {n \in 2..NVecs : \A m \in 2..(n - 1) : index[m] = 0}

(* Mutant: nothing cascades. *)
NotCascaded == wheel

Cascaded ==
  LET upTo[n \in Vec] ==
        IF n = 1 THEN wheel
        ELSE IF n \in Cascading THEN cascade_timers(upTo[n - 1], n)
        ELSE upTo[n - 1]
  IN  upTo[NVecs]

-----------------------------------------------------------------------------

(* The clock thread sets gMsec.  The bounds keep the timer thread within   *)
(* MaxLag of it, and a call of add_timer from outlasting the model.        *)
Tick ==
  /\ control # "held"
  /\ frame < MaxFrame
  /\ frame - jiffies < MaxLag
  /\ adding = NoTimer \/ frame < AddUntil + MaxLag
  /\ frame' = frame + 1 + behind /\ behind' = 0
  /\ UNCHANGED <<jiffies, due, adding, put, timerVars, control, stray, history>>

timer_time_set_start == jiffies' = 0 /\ index' = [n \in Vec |-> 0]

(* c_time_set_start: the sleep of two seconds in it sees the timer thread  *)
(* out of action().  (Bound: no timer that waits is due later than the     *)
(* wheel reaches from jiffy 0, as the server has just started.)            *)

SetStart(o) ==
  /\ control = "before" /\ control' = "held"
  /\ adding = NoTimer /\ tpc = "sleep"
  /\ timer_time_set_start
  /\ frame' = 0 /\ behind' = o
  /\ stray' = {t \in Timer : due[t] > 0 /\ firedAt[t] = Never}
  /\ \A t \in stray' : due[t] < Reach[NVecs]
  /\ UNCHANGED <<due, adding, put, wheel, get, tpc, turn, history>>

(* c_time_release. *)
Release ==
  /\ control = "held" /\ adding = NoTimer /\ control' = "over"
  /\ UNCHANGED <<frame, jiffies, due, adding, put, timerVars, behind, stray, history>>

(* add_timer on the Lua thread, up to the assignment of timer->expires.    *)
AddRead(t, d) ==
  /\ adding = NoTimer
  /\ t \notin ToSet(put) /\ linkedAt[t] = Never
  /\ jiffies <= AddUntil
  /\ due' = [due EXCEPT ![t] = jiffies + (IF d < 1 THEN 1 ELSE d)]
  /\ adding' = t
  /\ UNCHANGED <<frame, jiffies, put, timerVars, clock, history>>

(* The rest of add_timer: QuePut( &gQueTimerPut ). *)
AddPut ==
  /\ adding # NoTimer
  /\ put' = Append(put, adding)
  /\ adding' = NoTimer
  /\ UNCHANGED <<frame, jiffies, due, timerVars, clock, history>>

(* timerThread wakes up; action drains gQueTimerPut into the wheel and     *)
(* enters run_timer_list.                                                  *)
Drain ==
  /\ control # "held"
  /\ tpc = "sleep"
  /\ wheel' = AddAll(wheel, put)
  /\ linkedAt' = [t \in Timer |-> IF t \in ToSet(put) THEN jiffies ELSE linkedAt[t]]
  /\ put' = << >>
  /\ tpc' = "run"
  /\ turn' = 0
  /\ UNCHANGED <<frame, jiffies, due, adding, index, get, clock, firedAt>>

(* One turn of run_timer_list: cascade if tv1 is back at slot 0, hand back *)
(* everything in the current slot of tv1, move on to the next jiffy.       *)
RunJiffy ==
  /\ tpc = "run"
  /\ turn < MaxTurns
  /\ frame - jiffies >= 0
  /\ LET expired == Cascaded[1][index[1]]
     IN  /\ get' = get \o expired
         /\ wheel' = [Cascaded EXCEPT ![1][index[1]] = << >>]
         /\ firedAt' = [t \in Timer |->
                          IF t \in ToSet(expired) THEN jiffies ELSE firedAt[t]]
  /\ index' = [n \in Vec |->
                 IF n = 1 \/ n \in Cascading THEN (index[n] + 1) % Size(n)
                 ELSE index[n]]
  /\ jiffies' = jiffies + 1
  /\ turn' = turn + 1
  /\ UNCHANGED <<frame, due, adding, put, tpc, clock, linkedAt>>

(* run_timer_list has caught up with the clock, or has run MaxTurns        *)
(* jiffies; the thread sleeps.                                             *)
RunDone ==
  /\ tpc = "run"
  /\ turn = MaxTurns \/ frame - jiffies < 0
  /\ tpc' = "sleep"
  /\ UNCHANGED <<frame, jiffies, due, adding, put, index, wheel, get, turn, clock, history>>

Next ==
  \/ Tick
  \/ Release
  \/ \E o \in Outage : SetStart(o)
  \/ \E t \in Timer, d \in Delay : AddRead(t, d)
  \/ AddPut
  \/ Drain
  \/ RunJiffy
  \/ RunDone

Spec == Init /\ [][Next]_vars

(* The clock, the timer thread and a call of add_timer keep going; a clock *)
(* that is held is let go when the server has started.                     *)
Fairness ==
  /\ WF_vars(Tick)
  /\ WF_vars(Release)
  /\ WF_vars(AddPut)
  /\ WF_vars(Drain)
  /\ WF_vars(RunJiffy)
  /\ WF_vars(RunDone)

FairSpec == Spec /\ Fairness

-----------------------------------------------------------------------------

(* How often timer t is in the slots of the wheel. *)
Linked(t) ==
  Cardinality({p \in Vec \X (0..(R + N)) \X (1..Cardinality(Timer)) :
                 /\ p[2] < Size(p[1])
                 /\ p[3] \in DOMAIN wheel[p[1]][p[2]]
                 /\ wheel[p[1]][p[2]][p[3]] = t})

Occurs(t, s) == Cardinality({k \in DOMAIN s : s[k] = t})

InOnePlace(t) == Linked(t) + Occurs(t, get) = (IF linkedAt[t] = Never THEN 0 ELSE 1)

(* A timer that has been drained into the wheel is in exactly one slot of  *)
(* one vector until it is handed back, and is handed back once: no cascade *)
(* drops a timer or leaves a copy of it behind.  One that entered the      *)
(* wheel before it was overdue is handed back at exactly the jiffy it is   *)
(* due at, whatever vectors it came through.  One that entered overdue,    *)
(* because the thread was running or late when add_timer read              *)
(* timer_jiffies, is late by less than one turn of tv1 from the moment it  *)
(* was linked.  A timer that was waiting when the clock was set back has   *)
(* lost its time, but not its place.                                       *)
OnTime ==
  \A t \in Timer :
    /\ InOnePlace(t)
    /\ linkedAt[t] # Never /\ t \notin stray =>
         IF linkedAt[t] <= due[t] THEN firedAt[t] \in {Never, due[t]}
         ELSE (IF firedAt[t] = Never THEN jiffies ELSE firedAt[t]) < linkedAt[t] + R

(* Every timer that is added is handed back. *)
Fires == \A t \in Timer : adding = t ~> firedAt[t] # Never

(* The wheel, its queues and its thread are a timer engine. *)
Engine == INSTANCE TimerEngine WITH
  now     <- jiffies,
  pending <- {t \in Timer : due[t] > 0 /\ firedAt[t] = Never},
  due     <- [t \in Timer |-> IF t \in stray THEN 0 ELSE due[t]],
  fired   <- ToSet(get),
  Delay   <- {IF d < 1 THEN 1 ELSE d : d \in Delay}
EngineSpec == Engine!Spec

=============================================================================
