------------------------------ MODULE MCWorld ------------------------------
(* Model-checking instance of the modules of world.c, one at a time: World *)
(* on a strip of five blocks, TroopView on a map of five by five 64-cells  *)
(* and three grids, Sprite on two walks past two scanners.                 *)
EXTENDS World

VARIABLES part,                                        \* the module that runs
          t_troop, t_eye, t_told, t_rerouted,
          s_sprites, s_range, s_msec, s_inside, s_seen, s_posted

CSpot == {<<0, 0>>, <<5, 0>>, <<6, 0>>}
TPoint == {0, 5, 9, 14, 19} \X {0, 15}
SPlace == [e \in {"s1", "s2"} |-> IF e = "s1" THEN <<4, 1>> ELSE <<5, 3>>]
SWalk == {<<<<2, 1>>, <<7, 1>>>>, <<<<7, 2>>, <<2, 2>>>>}

T == INSTANCE TroopView WITH
       Troop <- {"t1"}, Cell <- 4, Margin <- 2, Width <- 20, Levels <- 3, Point <- TPoint,
       troop <- t_troop, eye <- t_eye, told <- t_told, rerouted <- t_rerouted
S == INSTANCE Sprite WITH
       Actor <- {"a1"}, Scan <- {"s1", "s2"}, Place <- SPlace, Size <- 1, Range0 <- 1,
       BlockWidth <- 2, Window <- 3, Black <- {<<3, 0>>}, MAX_TRIG <- 1, MAX_SPRITE <- 1,
       Walk <- SWalk, Speed <- {1, 3, 4}, Tick <- {60, 900}, Late <- {0}, MaxNow <- 1500, MaxPost <- 3,
       g_sprites <- s_sprites, range <- s_range, gMsec <- s_msec, inside <- s_inside,
       seen <- s_seen, posted <- s_posted

tvars == <<t_troop, t_eye, t_told, t_rerouted>>
svars == <<s_sprites, s_range, s_msec, s_inside, s_seen, s_posted>>

RoiInit == part \in {"world", "troops", "sprites"} /\ Init /\ T!Init /\ S!Init
RoiNext ==
  /\ UNCHANGED part
  /\ \/ part = "world" /\ Next /\ UNCHANGED <<tvars, svars>>
     \/ part = "troops" /\ T!Next /\ UNCHANGED <<vars, svars>>
     \/ part = "sprites" /\ S!Next /\ UNCHANGED <<vars, tvars>>
RoiSpec == RoiInit /\ [][RoiNext]_<<part, vars, tvars, svars>>

(* See TroopView: a player shows the troops that cross the cell it looks at. *)
TroopsShown == part = "troops" => T!TroopsShown

(* See Sprite: Lua has a troop inside the ranges it is in; no range is     *)
(* crossed unseen; no sprite is a cell behind and none arrives early.      *)
TriggersPaired == part = "sprites" => S!TriggersPaired
CrossingSeen == part = "sprites" => S!CrossingSeen
KeepsPace == S!KeepsPace
=============================================================================
