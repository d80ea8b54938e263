------------------------------- MODULE Sprite -------------------------------
(***************************************************************************)
(* The moving troops of world.c: a sprite walks from where it is to its    *)
(* destination and reports to Lua (lua_post_msg_roi) when it enters and    *)
(* leaves the range of a scanning entity or the black area in the middle   *)
(* of the map, and when it arrives.  Lengths are thousandths of a cell,    *)
(* times are milliseconds, speeds cells a second, walks along an axis.     *)
(***************************************************************************)
EXTENDS Integers, SequencesExt

CONSTANTS Actor,
          Scan, Place, Size, Range0,  \* scanners, their cells, r, and the range c_add_scan gives
          BlockWidth, Window,         \* BLOCK_WIDTH, and the 5 blocks searched each way
          Black,                      \* blocks of the black area
          MAX_TRIG, MAX_SPRITE,
          Walk, Speed,                \* walks <<from, to>> and speeds Lua uses
          Tick, Late,                 \* times between two calls, ages of a message
          MaxNow, MaxPost,            \* bounds: the time, messages of Lua
          None

AREA == "area"                        \* the black area, eid -1 in a message

VARIABLES
  g_sprites,  \* by eid
  range,      \* Ety.range
  gMsec,
  inside,     \* where Lua has an actor, from the ENTERs and LEAVEs since its sprite was made
  seen,       \* scanners it was told of since it set out (history)
  posted      \* messages of Lua (history)

vars == <<g_sprites, range, gMsec, inside, seen, posted>>

Abs(n) == IF n < 0 THEN -n ELSE n
CellAt(p) == <<p[1] \div 1000, p[2] \div 1000>>
BlockAt(c) == <<c[1] \div BlockWidth, c[2] \div BlockWidth>>
is_in_black(c) == BlockAt(c) \in Black

InRange(e, c) ==
  /\ range[e] > 0
  /\ \A i \in {1, 2} :
       /\ Abs(BlockAt(c)[i] - BlockAt(Place[e])[i]) <= Window
       /\ c[i] \in (Place[e][i] - range[e])..(Place[e][i] + Size + range[e] - 1)

Free == [eid |-> None, tick |-> 0]
Room(n) == [i \in 1..n |-> Free]

(* The old table, and one as long behind it. *)
Grow(trig) == trig \o Room(Len(trig))

(* Mutant: an entry of the same scanner behind a free one is not found. *)
SlotFirst(trig, e) == {i \in DOMAIN trig : trig[i].eid = e /\ \A j \in 1..(i - 1) : trig[j].eid # None}
Slot(trig, e) == {i \in DOMAIN trig : trig[i].eid = e}

(* sprite_add_trig, without its message. *)
Stamped(trig, e, now) ==
  LET at(S) == CHOOSE i \in S : \A j \in S : i <= j
      new == [eid |-> e, tick |-> now]
  IN  IF Slot(trig, e) # {} THEN [trig EXCEPT ![at(Slot(trig, e))] = new]
      ELSE IF Slot(trig, None) # {} THEN [trig EXCEPT ![at(Slot(trig, None))] = new]
      ELSE [Grow(trig) EXCEPT ![Len(trig) + 1] = new]

Noted(trig) == {trig[i].eid : i \in DOMAIN trig} \ {None}

-----------------------------------------------------------------------------
(* What a step works on: the sprite (None when it has arrived), inside,    *)
(* seen.                                                                   *)

(* Mutant: the clock of the sprite stands still. *)
MovedTimeless(s, step, now) ==
  [s EXCEPT !.cur = [i \in {1, 2} |-> @[i] + s.dir[i] * step], !.dist = @ - step]

Moved(s, step, now) ==
  [s EXCEPT !.cur = [i \in {1, 2} |-> @[i] + s.dir[i] * step], !.dist = @ - step, !.tick = now]

Reported(S, s, now) ==
  LET old == CellAt(S.spr.cur)
      c == CellAt(s.cur)
      hit == {e \in Scan : InRange(e, c)}
      trig == FoldLeft(LAMBDA t, e : Stamped(t, e, now), s.trig, SetToSeq(hit))
      left == {j \in DOMAIN trig : trig[j].eid # None /\ trig[j].tick # now}
      turn == IF is_in_black(old) = is_in_black(c) THEN {} ELSE {AREA}
      entered == {e \in hit : Slot(s.trig, e) = {}} \union (IF is_in_black(c) THEN turn ELSE {})
      gone == {trig[j].eid : j \in left} \union (IF is_in_black(c) THEN {} ELSE turn)
  IN  [spr |-> [s EXCEPT !.trig = [i \in DOMAIN trig |-> IF i \in left THEN Free ELSE trig[i]]],
       inside |-> (S.inside \union entered) \ gone,
       seen |-> S.seen \union hit]

Arrives(s, step) == s.dist - step < 0

(* sprite_tick, called for a part of the time. *)
Part(S, now) ==
  LET s == S.spr
      step == s.speed * (now - s.tick)
  IN  IF s = None THEN S
      ELSE IF now - s.tick < 100 \/ step < 200 THEN S
      ELSE IF Arrives(s, step) THEN [S EXCEPT !.spr = None]
      ELSE Reported(S, Moved(s, step, now), now)

PartsOne(s, now) == <<now>>                            \* Mutant: the whole time at once

(* The times a long step is cut at, so that none is longer than a cell.    *)
Parts(s, now) ==
  LET quick == Max({1, ((now - s.tick) * 1000) \div (s.speed * (now - s.tick) + 1000)})
  IN  [i \in 1..((now - s.tick) \div quick) |-> s.tick + i * quick]

sprite_tick(S, now) ==
  LET s == S.spr
      step == s.speed * (now - s.tick)
  IN  IF s = None THEN S
      ELSE IF now - s.tick >= 100 /\ step > 1000 THEN FoldLeft(Part, S, Parts(s, now))
      ELSE Part(S, now)

-----------------------------------------------------------------------------
Init ==
  /\ g_sprites = [a \in Actor |-> None]
  /\ range = [e \in Scan |-> Range0]
  /\ gMsec = 0 /\ posted = 0 /\ seen = [a \in Actor |-> {}]
  /\ inside = [a \in Actor |-> {}]

Posted == posted < MaxPost /\ posted' = posted + 1

Sgn(n) == IF n < 0 THEN -1 ELSE IF n > 0 THEN 1 ELSE 0

(* ROI_ADD_ACTOR.  A sprite that is there keeps what it has entered; the   *)
(* table of sprites may be full.  from, way, born, same are history.       *)
sprite_create(a, w, speed, late) ==
  LET cur == [i \in {1, 2} |-> w[1][i] * 1000]
      way == 1000 * (Abs(w[2][1] - w[1][1]) + Abs(w[2][2] - w[1][2]))
  IN  /\ Posted
      /\ g_sprites[a] = None => Cardinality({b \in Actor : g_sprites[b] # None}) < MAX_SPRITE
      /\ g_sprites' = [g_sprites EXCEPT ![a] =
           [cur |-> cur, dir |-> [i \in {1, 2} |-> Sgn(w[2][i] - w[1][i])], dist |-> way,
            speed |-> speed, tick |-> gMsec - late,
            trig |-> IF @ = None THEN Room(MAX_TRIG) ELSE @.trig,
            from |-> w[1], way |-> way, born |-> gMsec - late, same |-> TRUE]]
      /\ inside' = [inside EXCEPT ![a] = IF g_sprites[a] = None THEN {} ELSE @ \ {AREA}]
      /\ seen' = [seen EXCEPT ![a] = {}]
      /\ UNCHANGED <<range, gMsec>>

AddActor(a) ==
  \E w \in Walk, speed \in Speed, late \in Late : gMsec >= late /\ sprite_create(a, w, speed, late)

(* ROI_REM_ACTOR *)
sprite_del(a) ==
  /\ Posted /\ g_sprites[a] # None
  /\ g_sprites' = [g_sprites EXCEPT ![a] = None]
  /\ inside' = [inside EXCEPT ![a] = {}] /\ seen' = [seen EXCEPT ![a] = {}]
  /\ UNCHANGED <<range, gMsec>>

(* ROI_UPD_ACTOR: also for the time since the last step. *)
UpdActor(a) ==
  /\ Posted /\ g_sprites[a] # None
  /\ \E speed \in Speed \ {g_sprites[a].speed} :
       g_sprites' = [g_sprites EXCEPT ![a].speed = speed, ![a].same = FALSE]
  /\ UNCHANGED <<range, gMsec, inside, seen>>

(* An entity that scans, or no longer does. *)
SetRange(e, r) ==
  /\ Posted
  /\ range' = [range EXCEPT ![e] = r]
  /\ g_sprites' = [a \in Actor |-> IF g_sprites[a] = None THEN None ELSE [g_sprites[a] EXCEPT !.same = FALSE]]
  /\ UNCHANGED <<gMsec, inside, seen>>

roi_add_scan(e) == range[e] # Range0 /\ SetRange(e, Range0)
roi_rem_scan(e) == range[e] # 0 /\ SetRange(e, 0)

sprite_process ==
  /\ \E dt \in Tick : gMsec + dt <= MaxNow /\ gMsec' = gMsec + dt
  /\ LET after == [a \in Actor |-> sprite_tick([spr |-> g_sprites[a], inside |-> inside[a], seen |-> seen[a]], gMsec')]
     IN  /\ g_sprites' = [a \in Actor |-> after[a].spr]
         /\ inside' = [a \in Actor |-> IF after[a].spr = None THEN {} ELSE after[a].inside]
         /\ seen' = [a \in Actor |-> IF after[a].spr = None THEN {} ELSE after[a].seen]
  /\ UNCHANGED <<range, posted>>

Next ==
  \/ \E a \in Actor : AddActor(a) \/ sprite_del(a) \/ UpdActor(a)
  \/ \E e \in Scan : roi_add_scan(e) \/ roi_rem_scan(e)
  \/ sprite_process

Spec == Init /\ [][Next]_vars

-----------------------------------------------------------------------------
Moving == {a \in Actor : g_sprites[a] # None}
Sp(a) == g_sprites[a]

(* Lua has a moving troop inside exactly the ranges it is in at its last   *)
(* step, and inside the black area when it is there, unless it set out     *)
(* from there: no ENTER or LEAVE is missing or one too many.               *)
TriggersPaired ==
  \A a \in Moving :
    LET c == CellAt(Sp(a).cur) IN
    /\ inside[a] \ {AREA} = Noted(Sp(a).trig)
    /\ Sp(a).same /\ Sp(a).tick # Sp(a).born => inside[a] \ {AREA} = {e \in Scan : InRange(e, c)}
    /\ AREA \in inside[a] => is_in_black(c)
    /\ is_in_black(c) /\ ~is_in_black(Sp(a).from) => AREA \in inside[a]

(* A troop that has come out of a range on the other side was reported,    *)
(* however late the thread came and however narrow the range is.           *)
CrossingSeen ==
  \A a \in Moving, e \in Scan :
    Sp(a).same /\ range[e] > 0 =>
      LET lo(i) == Place[e][i] - range[e]
          hi(i) == Place[e][i] + Size + range[e] - 1
          c == CellAt(Sp(a).cur)
          Across(i) == /\ c[3 - i] \in lo(3 - i)..hi(3 - i)
                       /\ \/ Sp(a).from[i] < lo(i) /\ c[i] > hi(i)
                          \/ Sp(a).from[i] > hi(i) /\ c[i] < lo(i)
      IN  Across(1) \/ Across(2) => e \in seen[a]

(* After a call of sprite_process no sprite is a cell behind its time; and *)
(* none whose speed stayed the same arrives before its way is walked.      *)
KeepsPace ==
  [][\A a \in Actor : gMsec' # gMsec =>
       IF g_sprites'[a] # None
       THEN g_sprites'[a].speed * (gMsec' - g_sprites'[a].tick) < 1000
       ELSE g_sprites[a] # None /\ g_sprites[a].same =>
              g_sprites[a].speed * (gMsec' - g_sprites[a].born) > g_sprites[a].way]_vars
=============================================================================
