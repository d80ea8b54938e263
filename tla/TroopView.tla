------------------------------ MODULE TroopView ------------------------------
(***************************************************************************)
(* The marching troops of world.c as the players see them.  A troop is a   *)
(* segment of the map, linked in the grid whose cells are about as long as *)
(* the segment; an eye is told of the troops that cross the 64-cell it     *)
(* looks at.  Telling the eyes descends from the cell of the troop to the  *)
(* 64-cells, an eye looks up from its 64-cell through the five grids.      *)
(* The messages are handled one by one by the roi thread.                  *)
(***************************************************************************)
EXTENDS Integers, FiniteSets

CONSTANTS Troop, Pid,
          Cell,      \* side of a cell of the finest grid, 64
          Margin,    \* by which IS_CROSS widens a square, 32
          Width,     \* MAP_WIDTH
          Levels,    \* grids, 5
          Point,     \* the places Lua uses
          None

VARIABLES
  troop,    \* of g_etys, the troops: [s, d, lv, at]
  eye,      \* where the detail eyes look
  told,     \* the troops each player shows
  rerouted  \* troops put on another path while the player looked (history)

vars == <<troop, eye, told, rerouted>>

-----------------------------------------------------------------------------
(* Squares <<x, y, w>> and segments [s, d].                                *)

IS_CROSS(t, q) ==
  LET x == <<q[1] - Margin, q[2] - Margin>>          \* near corner
      w == q[3] + 2 * Margin
      Inside(p) == \A i \in {1, 2} : x[i] <= p[i] /\ p[i] <= x[i] + w
      D(i) == t.d[i] - t.s[i]
      (* where coordinate i is v, the other coordinate, times D(i), is in the square *)
      Hits(i, v) == LET j == 3 - i
                        n == D(j) * (v - t.s[i])
                    IN  /\ D(i) # 0
                        /\ (n - (x[j] - t.s[j]) * D(i)) * D(i) >= 0
                        /\ ((x[j] + w - t.s[j]) * D(i) - n) * D(i) >= 0
  IN  /\ \A i \in {1, 2} : /\ ~(t.s[i] < x[i] /\ t.d[i] < x[i])
                           /\ ~(t.s[i] > x[i] + w /\ t.d[i] > x[i] + w)
      /\ \/ Inside(t.s) \/ Inside(t.d)
         \/ D(1) = 0
         \/ \E i \in {1, 2} : Hits(i, x[i]) \/ Hits(i, x[i] + w)

Side(l) == Cell * 2^l
Count(l) == LET n == Width \div Side(l) + 1 IN IF n * Side(l) < Width THEN n + 1 ELSE n
CellOf(p, l) == <<p[1] \div Side(l), p[2] \div Side(l)>>
Square(c, l) == <<c[1] * Side(l), c[2] * Side(l), Side(l)>>

(* Mutant: only the cell a troop is linked in. *)
NextDoorNone(c, z, l) == c = z
NextDoor(c, z, l) == \A i \in {1, 2} : c[i] - z[i] \in -1..1 /\ c[i] \in 0..(Count(l) - 1)

Level(s, d) ==
  CHOOSE l \in 0..(Levels - 1) :
    /\ (d[1] - s[1])^2 + (d[2] - s[2])^2 < Side(l)^2 \/ l = Levels - 1
    /\ \A k \in 0..(l - 1) : (d[1] - s[1])^2 + (d[2] - s[2])^2 >= Side(k)^2

(* A troop is linked where its middle is.                                  *)
Linked(s, d) ==
  LET l == Level(s, d) IN
  [s |-> s, d |-> d, lv |-> l, at |-> CellOf(<<(s[1] + d[1]) \div 2, (s[2] + d[2]) \div 2>>, l)]

-----------------------------------------------------------------------------
(* add_troop_to_eye and its recursion: the 64-cells under the crossed cells *)
(* next to the troop's, all crossed on the way down.                       *)
Told(t, p) ==
  /\ NextDoor(CellOf(p, t.lv), t.at, t.lv)
  /\ \A l \in 0..t.lv : IS_CROSS(t, Square(CellOf(p, l), l))

(* init_eye_troop_view2 finds the troops linked next to the eye's cells.   *)
Found(t, p) == NextDoor(t.at, CellOf(p, t.lv), t.lv)
Crosses(t, p) == IS_CROSS(t, Square(CellOf(p, 0), 0))

Troops == {t \in Troop : troop[t] # None}

Init ==
  /\ troop = [t \in Troop |-> None]
  /\ eye = [p \in Pid |-> None]
  /\ told = [p \in Pid |-> {}] /\ rerouted = told

(* What is there under the same eid is taken out without a word.           *)
add_troop_to_link(t, s, d) ==
  LET new == Linked(s, d) IN
  /\ <<s, d>> # <<<<0, 0>>, <<0, 0>>>>
  /\ troop' = [troop EXCEPT ![t] = new]
  /\ told' = [p \in Pid |-> IF eye[p] # None /\ Told(new, eye[p]) THEN told[p] \union {t} ELSE told[p]]
  /\ rerouted' = [p \in Pid |-> IF troop[t] # None /\ eye[p] # None THEN rerouted[p] \union {t} ELSE rerouted[p]]
  /\ UNCHANGED eye

Depart(t) == troop[t] = None /\ \E s, d \in Point : add_troop_to_link(t, s, d)

(* A troop that turns back keeps its eid.                                  *)
TurnBack(t) ==
  /\ troop[t] # None
  /\ LET m == <<(troop[t].s[1] + troop[t].d[1]) \div 2, (troop[t].s[2] + troop[t].d[2]) \div 2>>
     IN  m # troop[t].d /\ add_troop_to_link(t, m, troop[t].s)

(* ROI_REM_ETY, and the arrival of a sprite.                               *)
RemTroop(t) ==
  /\ troop[t] # None
  /\ troop' = [troop EXCEPT ![t] = None]
  /\ told' = [p \in Pid |-> IF eye[p] # None /\ Told(troop[t], eye[p]) THEN told[p] \ {t} ELSE told[p]]
  /\ UNCHANGED <<eye, rerouted>>

AddEye(p, at) ==
  /\ eye' = [eye EXCEPT ![p] = at]
  /\ told' = [told EXCEPT ![p] = {t \in Troops : Found(troop[t], at) /\ Crosses(troop[t], at)}]
  /\ rerouted' = [rerouted EXCEPT ![p] = {}]
  /\ UNCHANGED troop

RemEye(p) ==
  /\ eye[p] # None
  /\ eye' = [eye EXCEPT ![p] = None]
  /\ told' = [told EXCEPT ![p] = {}] /\ rerouted' = [rerouted EXCEPT ![p] = {}]
  /\ UNCHANGED troop

(* Mutant: the troops to take back are looked for around the new place. *)
LeftAtNew(t, from, at) == Found(t, at) /\ Crosses(t, from) /\ ~Crosses(t, at)
Left(t, from, at) == Found(t, from) /\ Crosses(t, from) /\ ~Crosses(t, at)
Entered(t, from, at) == Found(t, at) /\ ~Crosses(t, from) /\ Crosses(t, at)

(* modify_eye_troop_view2, nothing within a 64-cell.                       *)
MovEye(p, at) ==
  /\ eye[p] # None
  /\ eye' = [eye EXCEPT ![p] = at]
  /\ told' = IF CellOf(at, 0) = CellOf(eye[p], 0) THEN told
             ELSE [told EXCEPT ![p] = (@ \ {t \in Troops : Left(troop[t], eye[p], at)})
                                      \union {t \in Troops : Entered(troop[t], eye[p], at)}]
  /\ UNCHANGED <<troop, rerouted>>

Next ==
  \/ \E t \in Troop : Depart(t) \/ TurnBack(t) \/ RemTroop(t)
  \/ \E p \in Pid : RemEye(p) \/ \E at \in Point : AddEye(p, at) \/ MovEye(p, at)

Spec == Init /\ [][Next]_vars

-----------------------------------------------------------------------------
(* A segment meets the widened 64-cell of a place: their boxes meet, and   *)
(* the corners of the cell are not all on one side of the segment.         *)
Meets(t, p) ==
  LET lo == [i \in {1, 2} |-> (p[i] \div Cell) * Cell - Margin]
      hi == [i \in {1, 2} |-> lo[i] + Cell + 2 * Margin]
      Turn(x, y) == (t.d[1] - t.s[1]) * (y - t.s[2]) - (t.d[2] - t.s[2]) * (x - t.s[1])
      turns == {Turn(x, y) : x \in {lo[1], hi[1]}, y \in {lo[2], hi[2]}}
  IN  /\ \A i \in {1, 2} : \E v \in lo[i]..hi[i] : \/ t.s[i] <= v /\ v <= t.d[i]
                                                   \/ t.d[i] <= v /\ v <= t.s[i]
      /\ ~(\A v \in turns : v > 0) /\ ~(\A v \in turns : v < 0)

(* Whatever the order in which troops depart, turn back and go and eyes    *)
(* come and move, a player shows every troop that meets the cell it looks  *)
(* at, and no other but one that was put on another path: the descent from *)
(* a long troop's cell and the look up from an eye's find the same pairs.  *)
TroopsShown ==
  \A p \in Pid : eye[p] # None =>
    /\ \A t \in Troops : Meets(troop[t], eye[p]) => t \in told[p]
    /\ \A t \in told[p] \ rerouted[p] : t \in Troops /\ Meets(troop[t], eye[p])
=============================================================================
