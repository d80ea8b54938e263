------------------------------- MODULE World -------------------------------
(***************************************************************************)
(* The area of interest of a map, world.c: the thread of the Lua scripts   *)
(* posts to g_msgq, the roi thread keeps the entities and the eyes of the  *)
(* players in blocks and tells every eye what appears and disappears near  *)
(* it.  gLand, which cells are taken, is written by both threads.          *)
(***************************************************************************)
EXTENDS Integers, SequencesExt

CONSTANTS Eid, Pid,
          Width, Height,  \* MAP_WIDTH, in cells
          BlockWidth,     \* BLOCK_WIDTH
          Foot,           \* radius of an entity, the cells it takes each way
          Spot,           \* the places Lua uses
          Upper,          \* entities on level 1, all but resources
          MaxPost,        \* bound: messages Lua posts
          None

ASSUME WorldAssumption ==
  /\ {Width, Height, BlockWidth, Foot} \subseteq Nat \ {0} /\ MaxPost \in Nat
  /\ Spot \subseteq (0..(Width - 1)) \X (0..(Height - 1)) /\ Upper \subseteq Eid
  /\ IsFiniteSet(Pid)
  /\ None \notin Spot /\ None \notin [at : Spot] \union [at : Spot, lv : {0, 1}] \union [at : Spot, lv : {0, 1}, old : BOOLEAN]

VARIABLES
  g_msgq,
  ety,        \* g_etys: [at, lv] of the entities in the blocks
  eye,        \* g_eyes: [at, lv, old]; old when gTime - tick has reached 900
  snapshot,   \* Eye.snapshot
  told,       \* told[p][e]: where p, from what it was sent since its eye was made, has e
  gLand, g_eye_count,
  placed,     \* where Lua has put an entity (history)
  linking,    \* the roi thread is in the middle of add_ety_to_link
  moved,      \* entities Lua has put elsewhere under the same eid (history)
  slipped,    \* Lua has looked for a place in that moment (history)
  posted      \* messages Lua has posted (history)

history == <<placed, moved, slipped, posted>>
vars == <<g_msgq, ety, eye, snapshot, told, gLand, g_eye_count, linking, history>>

Pos == (0..(Width - 1)) \X (0..(Height - 1))
Lv == {0, 1}                                \* 0 detail, 1 global

Block(p) == <<p[1] \div BlockWidth, p[2] \div BlockWidth>>
Abs(n) == IF n < 0 THEN -n ELSE n
Dist(p, q) == Max({Abs(Block(p)[i] - Block(q)[i]) : i \in {1, 2}})

(* What set_bit and clear_bit reach: nothing for a square at the far edge. *)
Cells(p) ==
  IF p[1] + Foot >= Width \/ p[2] + Foot >= Height THEN {}
  ELSE {c \in Pos : \A i \in {1, 2} : c[i] \in p[i]..(p[i] + Foot - 1)}
CellsOf(e) == IF e = None THEN {} ELSE Cells(e.at)

Init ==
  /\ g_msgq = << >> /\ posted = 0
  /\ ety = [e \in Eid |-> None] /\ placed = ety /\ moved = {}
  /\ eye = [p \in Pid |-> None] /\ g_eye_count = 0
  /\ snapshot = [p \in Pid |-> << >>] /\ told = [p \in Pid |-> [e \in Eid |-> None]]
  /\ gLand = {} /\ linking = FALSE /\ slipped = FALSE

-----------------------------------------------------------------------------
(* The Lua thread. *)

Post(m) ==
  /\ posted < MaxPost /\ posted' = posted + 1
  /\ g_msgq' = Append(g_msgq, m)

MarkAtOnce(at) == gLand \union Cells(at)

(* A place is free, but for the cells the entity has itself; the random    *)
(* searches of Lua end at any free place.                                  *)
map_test_pos(e, at) == Cells(at) # {} /\ (Cells(at) \ CellsOf(placed[e])) \intersect gLand = {}

(* c_add_ety, after the place was found free.                              *)
add_ety(e, at) ==
  /\ map_test_pos(e, at)
  /\ Post([cmd |-> "ADD_ETY", id |-> e, at |-> at])
  /\ gLand' = MarkAtOnce(at)
  /\ placed' = [placed EXCEPT ![e] = [at |-> at]]
  /\ moved' = IF placed[e] = None \/ placed[e].at = at THEN moved ELSE moved \union {e}
  /\ slipped' = (slipped \/ linking)
  /\ UNCHANGED <<ety, eye, snapshot, told, g_eye_count, linking>>

rem_ety(e) ==
  /\ placed[e] # None
  /\ Post([cmd |-> "REM_ETY", id |-> e])
  /\ placed' = [placed EXCEPT ![e] = None]
  /\ UNCHANGED <<ety, eye, snapshot, told, gLand, g_eye_count, linking, moved, slipped>>

(* Eyes, for players that are or are not known to the other thread. *)
roi_add_eye(p) == \E at \in Spot, lv \in Lv : Post([cmd |-> "ADD_EYE", id |-> p, at |-> at, lv |-> lv])
roi_mov_eye(p) == \E at \in Spot : Post([cmd |-> "MOV_EYE", id |-> p, at |-> at])
roi_rem_eye(p) == Post([cmd |-> "REM_EYE", id |-> p])

EyeRequest ==
  /\ \E p \in Pid : roi_add_eye(p) \/ roi_mov_eye(p) \/ roi_rem_eye(p)
  /\ UNCHANGED <<ety, eye, snapshot, told, gLand, g_eye_count, linking, placed, moved, slipped>>

(* pushAround: a packet for those around an entity. *)
roi_broadcast(e) ==
  /\ placed[e] # None
  /\ Post([cmd |-> "BROADCAST", id |-> e])
  /\ UNCHANGED <<ety, eye, snapshot, told, gLand, g_eye_count, linking, placed, moved, slipped>>

-----------------------------------------------------------------------------
(* The roi thread. *)

RANGE_DETAIL == 1
RANGE_GLOBAL == 2
Reach(lv) == IF lv = 0 THEN RANGE_DETAIL ELSE RANGE_GLOBAL

(* A detail eye sees everything, a global one what has a level.            *)
Sees(y, e) == Dist(y.at, e.at) <= Reach(y.lv) /\ (y.lv = 0 \/ e.lv = 1)
Watching(e) == {p \in Pid : eye[p] # None /\ Sees(eye[p], e)}

Handle(cmd) == g_msgq # << >> /\ Head(g_msgq).cmd = cmd /\ (linking => cmd = "ADD_ETY")
Msg == Head(g_msgq)

OldEyes(e) == {p \in Watching(e) : eye[p].lv = 0 /\ eye[p].old}

(* Every eye that watches the place is told, except a detail eye that has  *)
(* not moved for 900 seconds: for it a removal is posted.                  *)
add_ety_to_eye(e, note) ==
  /\ snapshot' = [p \in Pid |-> IF p \in Watching(e) \ OldEyes(e) THEN Append(snapshot[p], note)
                                ELSE snapshot[p]]
  /\ g_msgq' = Tail(g_msgq) \o [i \in DOMAIN SetToSeq(OldEyes(e)) |->
                                  [cmd |-> "REM_EYE", id |-> SetToSeq(OldEyes(e))[i]]]

KeptCells(e) == {}                                    \* Mutant
ClearedCells(e) == CellsOf(e)
MarkedBefore(at) == {}                                \* Mutant
MarkedAgain(at) == Cells(at)

(* add_ety_to_link first takes out what has the same eid, without a word   *)
(* to the eyes, and frees its cells,                                       *)
AddEty ==
  /\ Handle("ADD_ETY") /\ ~linking
  /\ ety' = [ety EXCEPT ![Msg.id] = None]
  /\ gLand' = gLand \ ClearedCells(ety[Msg.id])
  /\ linking' = TRUE
  /\ UNCHANGED <<g_msgq, eye, snapshot, told, g_eye_count, history>>

(* and then puts the entity in its block and marks its cells.              *)
LinkEty ==
  /\ linking /\ linking' = FALSE
  /\ LET e == [at |-> Msg.at, lv |-> IF Msg.id \in Upper THEN 1 ELSE 0] IN
     /\ ety' = [ety EXCEPT ![Msg.id] = e]
     /\ gLand' = gLand \union MarkedAgain(Msg.at)
     /\ add_ety_to_eye(e, [type |-> "ADD_ETY", what |-> {<<Msg.id, Msg.at>>}])
  /\ UNCHANGED <<eye, told, g_eye_count, history>>

RemEty ==
  /\ Handle("REM_ETY")
  /\ IF ety[Msg.id] = None
     THEN g_msgq' = Tail(g_msgq) /\ UNCHANGED <<ety, gLand, snapshot>>
     ELSE /\ add_ety_to_eye(ety[Msg.id], [type |-> "REM_ETY", what |-> {<<Msg.id, None>>}])
          /\ ety' = [ety EXCEPT ![Msg.id] = None]
          /\ gLand' = gLand \ ClearedCells(ety[Msg.id])
  /\ UNCHANGED <<eye, told, g_eye_count, linking, history>>

AllAround(y, e) == Dist(y.at, e.at) <= RANGE_GLOBAL    \* Mutant
Around(y, e) == Dist(y.at, e.at) <= Reach(y.lv)

(* The level of a broadcast is read where the packet has its type, which   *)
(* is never 0: global eyes in their range get each one, that about a       *)
(* resource too.  The buffer is not freed when the entity has gone.        *)
Broadcast ==
  /\ Handle("BROADCAST") /\ g_msgq' = Tail(g_msgq)
  /\ snapshot' = [p \in Pid |->
       IF ety[Msg.id] # None /\ eye[p] # None /\ Around(eye[p], ety[Msg.id])
       THEN Append(snapshot[p], [type |-> "AROUND", what |-> {}, of |-> Msg.id]) ELSE snapshot[p]]
  /\ UNCHANGED <<ety, eye, told, gLand, g_eye_count, linking, history>>

(* Those of the entities new that the eye sees, as one PT_ADD_ETYS.        *)
Etys(y, new) ==
  [type |-> "ADD_ETYS",
   what |-> {<<e, ety[e].at>> : e \in {x \in new : ety[x] # None /\ Sees(y, ety[x])}}]

(* Mutant: replacing an eye is not counted. *)
CountEye(p) == IF eye[p] = None THEN g_eye_count + 1 ELSE g_eye_count

(* A new eye, with a new snapshot, in the place of the old one.            *)
AddEye ==
  /\ Handle("ADD_EYE")
  /\ LET y == [at |-> Msg.at, lv |-> Msg.lv, old |-> FALSE] IN
     /\ eye' = [eye EXCEPT ![Msg.id] = y]
     /\ snapshot' = [snapshot EXCEPT ![Msg.id] = <<Etys(y, Eid)>>]
     /\ told' = [told EXCEPT ![Msg.id] = [e \in Eid |-> None]]
     /\ g_eye_count' = CountEye(Msg.id)
  /\ g_msgq' = Tail(g_msgq)
  /\ UNCHANGED <<ety, gLand, linking, history>>

NoSnapshot(p) == << >>

RemEye ==
  /\ Handle("REM_EYE")
  /\ eye' = [eye EXCEPT ![Msg.id] = None]
  /\ snapshot' = [snapshot EXCEPT ![Msg.id] = NoSnapshot(Msg.id)]
  /\ g_eye_count' = IF eye[Msg.id] = None THEN g_eye_count ELSE g_eye_count - 1
  /\ g_msgq' = Tail(g_msgq)
  /\ UNCHANGED <<ety, told, gLand, linking, history>>

(* What a player knows once it has read the first n of the packets ns:     *)
(* of each entity what the last of them about it says.                     *)
About(packet, e) == \E w \in packet.what : w[1] = e
Says(packet, e) == (CHOOSE w \in packet.what : w[1] = e)[2]
ReadTo(known, ns, n) ==
  [e \in Eid |-> LET about == {i \in 1..n : About(ns[i], e)}
                 IN  IF about = {} THEN known[e] ELSE Says(ns[Max(about)], e)]
Read(known, ns) == ReadTo(known, ns, Len(ns))

(* A client forgets what is out of the reach of its eye where it moves it. *)
(* It does so when it asks; here in the order of what it is sent.          *)
Forgets(known, y) ==
  [type |-> "FORGET",
   what |-> {<<e, None>> : e \in {x \in Eid : known[x] # None /\ Dist(known[x], y.at) > Reach(y.lv)}}]

FarBlock(y, at) == Dist(at, y.at) > Reach(y.lv) + 1   \* Mutant
NewBlock(y, at) == Dist(at, y.at) > Reach(y.lv)

(* An eye that leaves its block is told of the entities in the blocks that *)
(* come into its range; a player without an eye gets a detail one.         *)
MovEye ==
  /\ Handle("MOV_EYE")
  /\ LET old == eye[Msg.id]
         y == [old EXCEPT !.at = Msg.at, !.old = FALSE]
     IN  IF old = None
         THEN /\ g_msgq' = Append(Tail(g_msgq), [cmd |-> "ADD_EYE", id |-> Msg.id, at |-> Msg.at, lv |-> 0])
              /\ UNCHANGED <<eye, snapshot>>
         ELSE /\ g_msgq' = Tail(g_msgq)
              /\ IF Block(old.at) = Block(Msg.at)
                 THEN eye' = [eye EXCEPT ![Msg.id].old = FALSE] /\ UNCHANGED snapshot
                 ELSE /\ eye' = [eye EXCEPT ![Msg.id] = y]
                      /\ snapshot' = [snapshot EXCEPT ![Msg.id] =
                           Append(Append(@, Forgets(Read(told[Msg.id], @), y)),
                                  Etys(y, {e \in Eid : ety[e] # None /\ NewBlock(old, ety[e].at)}))]
  /\ UNCHANGED <<ety, told, gLand, g_eye_count, linking, history>>

push_msg ==
  /\ \E p \in Pid : snapshot[p] # << >>
  /\ told' = [p \in Pid |-> Read(told[p], snapshot[p])]
  /\ snapshot' = [p \in Pid |-> << >>]
  /\ UNCHANGED <<g_msgq, ety, eye, gLand, g_eye_count, linking, history>>

EyeAges ==
  /\ \E p \in Pid : eye[p] # None /\ ~eye[p].old /\ eye' = [eye EXCEPT ![p].old = TRUE]
  /\ UNCHANGED <<g_msgq, ety, snapshot, told, gLand, g_eye_count, linking, history>>

Next ==
  \/ \E e \in Eid : rem_ety(e) \/ \E at \in Spot : add_ety(e, at)
  \/ EyeRequest \/ \E e \in Eid : roi_broadcast(e)
  \/ AddEty \/ LinkEty \/ RemEty \/ Broadcast \/ AddEye \/ RemEye \/ MovEye \/ push_msg \/ EyeAges

Spec == Init /\ [][Next]_vars

-----------------------------------------------------------------------------
Posted(cmd, id) == \E i \in DOMAIN g_msgq : g_msgq[i].cmd = cmd /\ g_msgq[i].id = id

(* An eye of which the roi thread has not posted, nor Lua, the removal.    *)
UpToDate(p) == eye[p] # None /\ ~Posted("REM_EYE", p)

(* What a player has been told, with what is on its way, is what there is  *)
(* around its eye, however the eye has moved: every entity where it        *)
(* stands, and none that has gone, but for one Lua has put elsewhere under *)
(* its eid, of which those at the old place hear nothing.                  *)
ViewAgrees ==
  \A p \in Pid : UpToDate(p) =>
    LET known == Read(told[p], snapshot[p]) IN
    \A e \in Eid :
      /\ ety[e] # None /\ Sees(eye[p], ety[e]) => known[e] = ety[e].at
      /\ known[e] # None /\ e \notin moved
           => \/ ety[e] # None /\ ety[e].at = known[e]
              \/ linking /\ Msg.id = e /\ Msg.at = known[e]

(* What an eye of this level is told of. *)
Shown(y) == IF y.lv = 0 THEN Eid ELSE Upper

(* A packet for those around an entity comes behind what told the player   *)
(* of the entity, and before what tells it that the entity has gone.  A    *)
(* global eye is told of no resource, but gets the packets for those       *)
(* around one; of them nothing is claimed.                                 *)
BroadcastOfKnown ==
  \A p \in Pid : UpToDate(p) => \A i \in DOMAIN snapshot[p] :
    snapshot[p][i].type = "AROUND" /\ snapshot[p][i].of \in Shown(eye[p]) =>
      ReadTo(told[p], snapshot[p], i - 1)[snapshot[p][i].of] # None

(* Lua never puts two entities on one cell, although it finds a place free *)
(* before the roi thread has handled what was posted.                      *)
NoOverlap ==
  \A e, f \in Eid : e # f => CellsOf(placed[e]) \intersect CellsOf(placed[f]) = {}

(* But for a search that met the roi thread between the freeing of the old *)
(* cells and the marking of the new, no two entities are on one cell, and  *)
(* the cells of an entity stay marked, whatever is put, moved and removed  *)
(* around it; when the roi thread has caught up no other is marked.  The   *)
(* count of eyes is that of the eyes there are.                            *)
MarksAgree ==
  ~slipped =>
    /\ NoOverlap
    /\ \A e \in Eid : CellsOf(ety[e]) \subseteq gLand
    /\ g_msgq = << >> => gLand = UNION {CellsOf(ety[e]) : e \in Eid}
    /\ g_eye_count = Cardinality({p \in Pid : eye[p] # None})

=============================================================================
