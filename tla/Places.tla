------------------------------- MODULE Places -------------------------------
(***************************************************************************)
(* Where things may stand on a map: the zones map_init makes of the blocks *)
(* of world.c, the random searches of the Lua code for a free place in     *)
(* them, and the cells that are taken.                                     *)
(***************************************************************************)
EXTENDS Integers, SequencesExt

CONSTANTS
  BLOCK_NUM,   \* blocks each way
  BLOCK_WIDTH, \* cells each way in a block
  RingWidth,   \* 6: rings of blocks of one level
  Foot,        \* sizes Lua asks a place for
  Random,      \* what random() may give for the first block to look in
  Sites,       \* places players choose to build at
  Lands,       \* cells that may be taken in the file of roi_set_block
  MaxPlaced    \* bound: entities

VARIABLES gLand,   \* the cells whose lowest bit is set
          placed,  \* the entities, each at its corner with its size
          asked,   \* the last search: its zone, its size, what was taken, and what it gave
          found    \* the place Lua is about to use, or Nowhere

vars == <<gLand, placed, asked, found>>

Width == BLOCK_NUM * BLOCK_WIDTH
Block == (0..(BLOCK_NUM - 1)) \X (0..(BLOCK_NUM - 1))

-----------------------------------------------------------------------------
(* map_init. *)

FromMiddle(x) == LET bn == BLOCK_NUM \div 2 IN IF x < bn THEN bn - x - 1 ELSE x - bn

LevelOfColumn(b) ==  \* Mutant: only the column counts
  LET dt == FromMiddle(b[1])
  IN  6 - (IF dt = (BLOCK_NUM \div 2) - 1 THEN 6
           ELSE IF dt < 2 THEN 0 ELSE Min({(dt - 2) \div RingWidth + 1, 5}))

gBlocks(b) ==
  LET dt == Max({FromMiddle(b[1]), FromMiddle(b[2])})
  IN  6 - (IF dt = (BLOCK_NUM \div 2) - 1 THEN 6
           ELSE IF dt < 2 THEN 0 ELSE Min({(dt - 2) \div RingWidth + 1, 5}))

(* The blocks of a level, row by row. *)
Rows == [i \in 1..(BLOCK_NUM * BLOCK_NUM) |-> <<(i - 1) % BLOCK_NUM, (i - 1) \div BLOCK_NUM>>]
gRanges == [lv \in 0..6 |-> SelectSeq(Rows, LAMBDA b : gBlocks(b) = lv)]

-----------------------------------------------------------------------------
Square(p, w) == (p[1]..(p[1] + w - 1)) \X (p[2]..(p[2] + w - 1))
Fits(p, w) == p[1] + w < Width /\ p[2] + w < Width

set_bit(land, p, w) == IF Fits(p, w) THEN land \cup Square(p, w) ELSE land
clear_bit(land, p, w) == IF Fits(p, w) THEN land \ Square(p, w) ELSE land
test_bit(land, p, w) == ~Fits(p, w) \/ Square(p, w) \cap land # {}

InBlock(b) == {<<b[1] * BLOCK_WIDTH + i, b[2] * BLOCK_WIDTH + j>> :
                 i \in 0..(BLOCK_WIDTH - 1), j \in 0..(BLOCK_WIDTH - 1)}
Free(land, b, w) == {p \in InBlock(b) : ~test_bit(land, p, w)}

Nowhere == <<-1, -1>>

(* BLOCK_WIDTH random tries in each block: they may all meet what is taken. *)
Tries(land, order, w) ==
  LET missed(b) == Free(land, b, w) # InBlock(b)
      before(i) == \A j \in 1..(i - 1) : missed(order[j])
  IN  UNION {Free(land, order[i], w) : i \in {i \in DOMAIN order : before(i)}}
        \cup (IF before(Len(order) + 1) THEN {Nowhere} ELSE {})

(* From a random block on, each block of the level once. *)
map_get_pos_by_lv(blocks, r) == [i \in DOMAIN blocks |-> blocks[((r + i) % Len(blocks)) + 1]]

map_get_pos_in_zone(b) == IF b \in Block THEN <<b>> ELSE <<>>

map_get_zone_lv(b) == IF b \in Block THEN gBlocks(b) ELSE -1
map_test_pos(p, w) == test_bit(gLand, p, w)

NotAsked == [zone |-> {}, size |-> 1, land |-> {}, got |-> Nowhere]

Init ==
  /\ gLand \in Lands /\ placed = {}
  /\ asked = NotAsked /\ found = Nowhere

Ask(zone, order, w) ==
  /\ \E p \in Tries(gLand, order, w) :
       found' = p /\ asked' = [zone |-> zone, size |-> w, land |-> gLand, got |-> p]
  /\ UNCHANGED <<gLand, placed>>

lget_pos_by_lv(lv, w) ==
  /\ found = Nowhere /\ lv \in 0..6
  /\ \E r \in Random : Ask(Range(gRanges[lv]), map_get_pos_by_lv(gRanges[lv], r), w)

lget_pos_in_zone(b, w) ==
  /\ found = Nowhere
  /\ Ask({b} \cap Block, map_get_pos_in_zone(b), w)

(* Lua puts something at the place found; what clears the cells is rem_ety. *)
ladd_ety ==
  /\ found # Nowhere /\ Cardinality(placed) < MaxPlaced
  /\ gLand' = set_bit(gLand, found, asked.size)
  /\ placed' = placed \cup {<<found, asked.size>>}
  /\ found' = Nowhere /\ asked' = NotAsked

rem_ety ==
  /\ found = Nowhere
  /\ \E e \in placed : gLand' = clear_bit(gLand, e[1], e[2]) /\ placed' = placed \ {e}
  /\ asked' = NotAsked /\ UNCHANGED found

(* A player asks for a place of its own choice. *)
Build(p, w) ==
  /\ found = Nowhere /\ ~map_test_pos(p, w)
  /\ asked' = [zone |-> {b \in Block : map_get_zone_lv(b) >= 0 /\ p \in InBlock(b)}, size |-> w,
               land |-> gLand, got |-> p]
  /\ found' = p /\ UNCHANGED <<gLand, placed>>

Next ==
  \/ ladd_ety \/ rem_ety
  \/ \E w \in Foot : \/ \E lv \in 0..6 : lget_pos_by_lv(lv, w)
                     \/ \E b \in {<<0, 0>>, <<BLOCK_NUM - 1, 1>>, <<BLOCK_NUM, 0>>} :
                          lget_pos_in_zone(b, w)
                     \/ \E p \in Sites : Build(p, w)

Spec == Init /\ [][Next]_vars

(* A search gives a place in the zone it was asked for, on the map and free;
   it gives none only if in every block of the zone some place is taken or too
   near the edge.  A zone is a square around the middle: a block and the ones
   that mirror it have one level, and what is further out has none higher. *)
Mirrors(b) ==
  LET m(i) == {b[i], BLOCK_NUM - 1 - b[i]}
  IN  (m(1) \X m(2)) \cup (m(2) \X m(1))

PlacesFit ==
  /\ \A b \in asked.zone : \A c \in Mirrors(b) : Cardinality(asked.zone) > 1 => c \in asked.zone
  /\ asked.got = Nowhere => \A b \in asked.zone : \E p \in InBlock(b) : test_bit(asked.land, p, asked.size)
  /\ found # Nowhere => found \in UNION {InBlock(b) : b \in asked.zone} /\ ~test_bit(gLand, found, asked.size)
  /\ found # Nowhere =>
       \A e \in placed : Square(found, asked.size) \cap Square(e[1], e[2]) = {}
=============================================================================
