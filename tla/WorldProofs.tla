---------------------------- MODULE WorldProofs -----------------------------
(***************************************************************************)
(* For any map, entities, players and number of messages: as long as Lua   *)
(* has not looked for a place in the moment between the freeing of an      *)
(* entity's old cells and the marking of its new ones, no two entities are *)
(* on one cell, the cells of an entity stay marked, and the count of eyes  *)
(* is that of the eyes there are (MarksAgree).  And always: what a player  *)
(* has been told is what there is within the reach of its eye (ViewAgrees, *)
(* BroadcastOfKnown).                                                      *)
(***************************************************************************)
EXTENDS World, SequenceTheorems, FiniteSetTheorems, WellFoundedInduction, TLAPS

Message ==
  [cmd : {"ADD_ETY"}, id : Eid, at : Spot]
    \union [cmd : {"REM_ETY", "BROADCAST"}, id : Eid]
    \union [cmd : {"ADD_EYE"}, id : Pid, at : Spot, lv : Lv]
    \union [cmd : {"MOV_EYE"}, id : Pid, at : Spot]
    \union [cmd : {"REM_EYE"}, id : Pid]

Types ==
  /\ g_msgq \in Seq(Message)
  /\ ety \in [Eid -> [at : Spot, lv : {0, 1}] \union {None}]
  /\ placed \in [Eid -> [at : Spot] \union {None}]
  /\ eye \in [Pid -> [at : Spot, lv : {0, 1}, old : BOOLEAN] \union {None}]
  /\ linking \in BOOLEAN /\ slipped \in BOOLEAN
  /\ linking => g_msgq # << >> /\ Msg.cmd = "ADD_ETY" /\ ety[Msg.id] = None

-----------------------------------------------------------------------------
(* The way of an entity through the messages: 0 is where the roi thread    *)
(* has it, i where message i puts it.                                      *)

Moves(m, e) == m.cmd \in {"ADD_ETY", "REM_ETY"} /\ m.id = e
Stop(e, i) == i = 0 \/ (i \in DOMAIN g_msgq /\ Moves(g_msgq[i], e))
CellsBy(m) == IF m.cmd = "ADD_ETY" THEN Cells(m.at) ELSE {}
At(e, i) == IF i = 0 THEN CellsOf(ety[e]) ELSE CellsBy(g_msgq[i])

(* The cells that are about to be marked. *)
Due == IF linking THEN Cells(Msg.at) ELSE {}

(* A cell that an entity has at two stops it has at all between them:      *)
(* what the roi thread frees is not needed further on.                     *)
Kept ==
  \A e \in Eid, i, j, k \in Nat : \A c :
    /\ Stop(e, i) /\ Stop(e, j) /\ Stop(e, k) /\ i < j /\ j < k
    /\ c \in At(e, i) /\ c \in At(e, k)
    => c \in At(e, j)

(* Two entities have no cell in common, at whatever stops.                 *)
Apart ==
  \A e, f \in Eid, i, j \in Nat : \A c :
    Stop(e, i) /\ Stop(f, j) /\ c \in At(e, i) /\ c \in At(f, j) => e = f

(* The cells of all stops are marked, or about to be, and no other.        *)
Marked ==
  \A e \in Eid, i \in Nat : \A c : Stop(e, i) /\ c \in At(e, i) => c \in gLand \/ c \in Due
NoOther ==
  \A c \in gLand : \E e \in Eid, i \in Nat : Stop(e, i) /\ c \in At(e, i)

(* Lua has an entity where the last message puts it.                       *)
Final(e, i) == Stop(e, i) /\ \A j \in Nat : Stop(e, j) => j <= i
Placed == \A e \in Eid : \E i \in Nat : Final(e, i) /\ CellsOf(placed[e]) = At(e, i)

Marks == Kept /\ Apart /\ Marked /\ NoOther /\ Placed

Counted == g_eye_count = Cardinality({p \in Pid : eye[p] # None})

Inv == Types /\ Counted /\ (~slipped => Marks)

-----------------------------------------------------------------------------
(* Lists of messages. *)

Neutral(m) == m.cmd \notin {"ADD_ETY", "REM_ETY"}

LEMMA AppendIs ==
  ASSUME NEW q \in Seq(Message), NEW m \in Message
  PROVE  /\ Append(q, m) \in Seq(Message) /\ Append(q, m) # << >>
         /\ Len(q) \in Nat /\ DOMAIN q = 1..Len(q) /\ DOMAIN Append(q, m) = 1..(Len(q) + 1)
         /\ \A i \in DOMAIN q : Append(q, m)[i] = q[i]
         /\ Append(q, m)[Len(q) + 1] = m
         /\ q # << >> => Head(Append(q, m)) = Head(q)
<1>1. q # << >> => Len(q) # 0
  OBVIOUS
<1>. QED
  BY <1>1

(* What is posted behind the rest of the list. *)
LEMMA TailIs ==
  ASSUME NEW q \in Seq(Message), q # << >>, NEW r \in Seq(Message),
         NEW s, s = Tail(q) \o r, \A i \in DOMAIN r : Neutral(r[i])
  PROVE  /\ s \in Seq(Message)
         /\ Head(q) = q[1] /\ 1 \in DOMAIN q /\ q[1] \in Message
         /\ \A e : \A i \in Nat \ {0} :
              i \in DOMAIN s /\ Moves(s[i], e) <=> i + 1 \in DOMAIN q /\ Moves(q[i + 1], e)
         /\ \A i \in Nat \ {0} : i + 1 \in DOMAIN q => s[i] = q[i + 1]
<1>1. /\ Len(q) \in Nat \ {0} /\ DOMAIN q = 1..Len(q) /\ Tail(q) \in Seq(Message) /\ Len(Tail(q)) = Len(q) - 1
      /\ Head(q) = q[1] /\ q[1] \in Message /\ Len(r) \in Nat /\ DOMAIN r = 1..Len(r)
  OBVIOUS
<1>2. \A i \in 1..(Len(q) - 1) : Tail(q)[i] = q[i + 1]
  OBVIOUS
<1>3. /\ s \in Seq(Message) /\ Len(s) = Len(q) - 1 + Len(r) /\ DOMAIN s = 1..Len(s)
      /\ \A i \in 1..Len(s) : s[i] = IF i <= Len(q) - 1 THEN Tail(q)[i] ELSE r[i - (Len(q) - 1)]
  BY <1>1, ConcatProperties
<1>4. \A i \in Nat \ {0} : i + 1 \in DOMAIN q => i \in DOMAIN s /\ s[i] = q[i + 1]
  BY <1>1, <1>2, <1>3
<1>5. \A i \in DOMAIN s : i + 1 \in DOMAIN q \/ Neutral(s[i])
  <2> SUFFICES ASSUME NEW i \in DOMAIN s, i + 1 \notin DOMAIN q PROVE Neutral(s[i])
    OBVIOUS
  <2>1. i > Len(q) - 1 /\ i - (Len(q) - 1) \in DOMAIN r /\ s[i] = r[i - (Len(q) - 1)]
    BY <1>1, <1>3
  <2>. QED
    BY <2>1
<1>6. \A e : \A i \in Nat \ {0} : i \in DOMAIN s /\ Moves(s[i], e) <=> i + 1 \in DOMAIN q /\ Moves(q[i + 1], e)
  BY <1>4, <1>5 DEF Neutral, Moves
<1>7. \A i \in Nat \ {0} : i + 1 \in DOMAIN q => s[i] = q[i + 1]
  BY <1>4
<1>8. 1 \in DOMAIN q
  BY <1>1
<1>9. Head(q) = q[1] /\ q[1] \in Message /\ s \in Seq(Message)
  BY <1>1, <1>3
<1>. QED
  BY <1>6, <1>7, <1>8, <1>9, Zenon

(* The removals that are posted for eyes that have not moved for long.     *)
LEMMA RemovalsType ==
  ASSUME NEW S \in SUBSET Pid
  PROVE  LET r == [i \in DOMAIN SetToSeq(S) |-> [cmd |-> "REM_EYE", id |-> SetToSeq(S)[i]]]
         IN  r \in Seq(Message) /\ \A i \in DOMAIN r : Neutral(r[i])
<1>. DEFINE n == Cardinality(S)
            X == [1..n -> S]
<1>1. IsFiniteSet(S)
  BY FS_Subset, WorldAssumption
<1>2. n \in Nat /\ ExistsBijection(1..n, S)
  BY <1>1, FS_CardinalityType
<1>3. \E f \in X : IsInjective(f)
  BY <1>2 DEF ExistsBijection, Bijection, Injection
<1>4. SetToSeq(S) = CHOOSE f \in X : IsInjective(f)
  BY DEF SetToSeq
<1>5. SetToSeq(S) \in X
  BY <1>3, <1>4
<1>. DEFINE r == [i \in DOMAIN SetToSeq(S) |-> [cmd |-> "REM_EYE", id |-> SetToSeq(S)[i]]]
<1>6. \A i \in 1..n : [cmd |-> "REM_EYE", id |-> SetToSeq(S)[i]] \in Message
  BY <1>5 DEF Message
<1>7. r \in [1..n -> Message]
  BY <1>5, <1>6
<1>8. r \in Seq(Message)
  <2>1. \A k \in Nat : [1..k -> Message] \subseteq Seq(Message)
    BY SeqDef
  <2>. HIDE DEF n, r
  <2>. QED
    BY <1>2, <1>7, <2>1
<1>9. \A i \in DOMAIN r : Neutral(r[i])
  BY DEF Neutral
<1>. QED
  BY <1>8, <1>9
-----------------------------------------------------------------------------
(* What the ways of the entities do when a message is posted and when one  *)
(* is taken.                                                               *)

(* Message m is posted, and nothing else of the ways changes. *)
Posts(m) == g_msgq' = Append(g_msgq, m) /\ ety' = ety /\ linking' = linking

LEMMA PostsAt ==
  ASSUME Types, NEW m \in Message, Posts(m)
  PROVE  /\ Len(g_msgq) \in Nat
         /\ g_msgq' \in Seq(Message) /\ (linking => g_msgq' # << >> /\ Msg' = Msg) /\ Due' = Due
         /\ \A e, i : Stop(e, i)' <=> Stop(e, i) \/ (i = Len(g_msgq) + 1 /\ Moves(m, e))
         /\ \A e, i : Stop(e, i) => i \in Nat /\ i <= Len(g_msgq) /\ At(e, i)' = At(e, i)
         /\ \A e, i : i = Len(g_msgq) + 1 => At(e, i)' = CellsBy(m)
<1>. DEFINE n == Len(g_msgq)
<1>1. /\ g_msgq' \in Seq(Message) /\ g_msgq' # << >>
      /\ n \in Nat /\ DOMAIN g_msgq = 1..n /\ DOMAIN g_msgq' = 1..(n + 1)
      /\ \A i \in DOMAIN g_msgq : g_msgq'[i] = g_msgq[i]
      /\ g_msgq'[n + 1] = m
      /\ g_msgq # << >> => Head(g_msgq') = Head(g_msgq)
  BY AppendIs DEF Types, Posts
<1>. HIDE DEF n
<1>2. linking => Msg' = Msg
  BY <1>1 DEF Types, Msg
<1>3. Due' = Due
  BY <1>2 DEF Due, Posts
<1>4. \A i \in DOMAIN g_msgq' : i \in DOMAIN g_msgq \/ i = n + 1
  BY <1>1
<1>5. \A i \in DOMAIN g_msgq : i \in Nat \ {0} /\ i <= n
  BY <1>1
<1>6. \A e, i : Stop(e, i)' <=> Stop(e, i) \/ (i = n + 1 /\ Moves(m, e))
  BY <1>1, <1>4 DEF Stop
<1>7. \A e, i : Stop(e, i) => i \in Nat /\ i <= n /\ At(e, i)' = At(e, i)
  BY <1>1, <1>5 DEF Stop, At, Posts
<1>8. \A e, i : i = n + 1 => At(e, i)' = CellsBy(m)
  BY <1>1 DEF At
<1>. QED
  BY <1>1, <1>2, <1>3, <1>6, <1>7, <1>8 DEF n

(* A message about no entity leaves the marks alone. *)
LEMMA PostsNeutral ==
  ASSUME Types, Marks, NEW m \in Message, Neutral(m), Posts(m), gLand' = gLand, placed' = placed
  PROVE  Marks'
<1>1. /\ \A e, i : Stop(e, i)' <=> Stop(e, i)
      /\ \A e, i : Stop(e, i) => At(e, i)' = At(e, i)
      /\ Due' = Due
  BY PostsAt DEF Neutral, Moves
<1>2. Kept'
  BY <1>1 DEF Marks, Kept
<1>3. Apart'
  BY <1>1 DEF Marks, Apart
<1>4. Marked' /\ NoOther'
  BY <1>1 DEF Marks, Marked, NoOther
<1>5. Placed'
  BY <1>1 DEF Marks, Placed, Final
<1>. QED
  BY <1>2, <1>3, <1>4, <1>5 DEF Marks

(* The first message has been taken, and perhaps some about no entity have *)
(* been posted.                                                            *)
Taken ==
  /\ g_msgq # << >> /\ Head(g_msgq) = g_msgq[1] /\ 1 \in DOMAIN g_msgq /\ g_msgq[1] \in Message
  /\ \A e : \A i \in Nat \ {0} : Stop(e, i)' <=> Stop(e, i + 1)
  /\ \A e : \A i \in Nat \ {0} : Stop(e, i + 1) => At(e, i)' = At(e, i + 1)

LEMMA TakenIs ==
  ASSUME Types, g_msgq # << >>, NEW r \in Seq(Message), \A i \in DOMAIN r : Neutral(r[i]),
         g_msgq' = Tail(g_msgq) \o r
  PROVE  Taken /\ g_msgq' \in Seq(Message)
<1>1. /\ g_msgq' \in Seq(Message)
      /\ Head(g_msgq) = g_msgq[1] /\ 1 \in DOMAIN g_msgq /\ g_msgq[1] \in Message
      /\ \A e : \A i \in Nat \ {0} :
           i \in DOMAIN g_msgq' /\ Moves(g_msgq'[i], e) <=> i + 1 \in DOMAIN g_msgq /\ Moves(g_msgq[i + 1], e)
      /\ \A i \in Nat \ {0} : i + 1 \in DOMAIN g_msgq => g_msgq'[i] = g_msgq[i + 1]
  <2>1. g_msgq \in Seq(Message)
    BY DEF Types
  <2>. QED
    BY <2>1, TailIs, Zenon
<1>2. \A i \in Nat \ {0} : i # 0 /\ i + 1 # 0
  OBVIOUS
<1>3. \A e : \A i \in Nat \ {0} : Stop(e, i)' <=> Stop(e, i + 1)
  BY <1>1, <1>2 DEF Stop
<1>4. \A e : \A i \in Nat \ {0} : Stop(e, i + 1) => At(e, i)' = At(e, i + 1)
  BY <1>1, <1>2 DEF Stop, At
<1>. QED
  BY <1>1, <1>3, <1>4 DEF Taken

LEMMA TakenTail ==
  ASSUME Types, g_msgq # << >>, g_msgq' = Tail(g_msgq)
  PROVE  Taken /\ g_msgq' \in Seq(Message)
<1>1. << >> \in Seq(Message) /\ \A i \in DOMAIN << >> : Neutral(<< >>[i])
  OBVIOUS
<1>2. Tail(g_msgq) \in Seq(Message)
  BY DEF Types
<1>3. g_msgq' = Tail(g_msgq) \o << >>
  BY <1>2, ConcatEmptySeq
<1>. QED
  BY <1>1, <1>3, TakenIs
(* The stop of entity e that becomes its stop i. *)
From(e, i) == IF i # 0 THEN i + 1 ELSE IF Stop(e, 1) THEN 1 ELSE 0

(* What taking a message about an entity does to the marks: the cells it   *)
(* stood on are freed, those of its next place marked.                     *)
LEMMA TakenMarks ==
  ASSUME Types, Marks, Taken, Due' = {}, placed' = placed,
         \A e \in Eid : CellsOf(ety[e])' = IF Stop(e, 1) THEN At(e, 1) ELSE At(e, 0),
         \A e \in Eid : \A c : Stop(e, 1) => ~(c \in At(e, 0) /\ c \in At(e, 1)),
         \A c : c \in Due => \E e \in Eid : Stop(e, 1) /\ c \in At(e, 1),
         \A c : c \in gLand' <=> (c \in gLand \/ c \in Due) /\ ~\E e \in Eid : Stop(e, 1) /\ c \in At(e, 0)
  PROVE  Marks'
<1>0. \A e : Stop(e, 0)
  BY DEF Stop
<1>1. \A e \in Eid, i \in Nat : Stop(e, i)' => /\ From(e, i) \in Nat /\ Stop(e, From(e, i))
                                            /\ At(e, i)' = At(e, From(e, i))
  <2> SUFFICES ASSUME NEW e \in Eid, NEW i \in Nat, Stop(e, i)'
               PROVE  From(e, i) \in Nat /\ Stop(e, From(e, i)) /\ At(e, i)' = At(e, From(e, i))
    OBVIOUS
  <2>1. CASE i = 0
    <3>1. At(e, i)' = CellsOf(ety[e])'
      BY <2>1 DEF At
    <3>. QED
      BY <1>0, <2>1, <3>1 DEF From
  <2>2. CASE i # 0
    BY <2>2 DEF From, Taken
  <2>. QED
    BY <2>1, <2>2
<1>2. \A e \in Eid, i, j \in Nat : i < j => From(e, i) < From(e, j)
  BY DEF From
<1>3. \A e \in Eid, i \in Nat : Stop(e, 1) => From(e, i) >= 1
  BY DEF From
<1>4. Kept'
  <2> SUFFICES ASSUME NEW e \in Eid, NEW i \in Nat, NEW j \in Nat, NEW k \in Nat, NEW c,
                      Stop(e, i)', Stop(e, j)', Stop(e, k)', i < j, j < k,
                      c \in At(e, i)', c \in At(e, k)'
               PROVE  c \in At(e, j)'
    BY DEF Kept
  <2>1. From(e, i) < From(e, j) /\ From(e, j) < From(e, k)
    BY <1>2
  <2>2. /\ From(e, i) \in Nat /\ Stop(e, From(e, i)) /\ c \in At(e, From(e, i))
        /\ From(e, j) \in Nat /\ Stop(e, From(e, j)) /\ At(e, j)' = At(e, From(e, j))
        /\ From(e, k) \in Nat /\ Stop(e, From(e, k)) /\ c \in At(e, From(e, k))
    BY <1>1
  <2>. QED
    BY <2>1, <2>2 DEF Marks, Kept
<1>5. Apart'
  BY <1>1 DEF Marks, Apart
<1>6. Marked'
  <2> SUFFICES ASSUME NEW e \in Eid, NEW i \in Nat, NEW c, Stop(e, i)', c \in At(e, i)'
               PROVE  c \in gLand'
    BY DEF Marked
  <2>1. From(e, i) \in Nat /\ Stop(e, From(e, i)) /\ c \in At(e, From(e, i))
    BY <1>1
  <2>2. c \in gLand \/ c \in Due
    BY <2>1 DEF Marks, Marked
  <2>3. ASSUME NEW f \in Eid, Stop(f, 1), c \in At(f, 0)
        PROVE  FALSE
    <3>1. f = e
      BY <1>0, <2>1, <2>3 DEF Marks, Apart
    <3>2. From(e, i) >= 1
      BY <1>3, <2>3, <3>1
    <3>3. c \in At(e, 1)
      BY <1>0, <2>1, <2>3, <3>1, <3>2 DEF Marks, Kept
    <3>. QED
      BY <2>3, <3>1, <3>3
  <2>. QED
    BY <2>2, <2>3
<1>7. NoOther'
  <2> SUFFICES ASSUME NEW c, c \in gLand' PROVE \E e \in Eid, i \in Nat : Stop(e, i)' /\ c \in At(e, i)'
    BY DEF NoOther
  <2>1. PICK e \in Eid, i \in Nat : Stop(e, i) /\ c \in At(e, i) /\ ~(i = 0 /\ Stop(e, 1))
    <3>1. CASE c \in gLand
      BY <3>1 DEF Marks, NoOther
    <3>2. CASE c \in Due
      BY <3>2
    <3>. QED
      BY <3>1, <3>2
  <2>2. CASE i \in {0, 1}
    <3>1. Stop(e, 0)' /\ c \in At(e, 0)'
      <4>1. At(e, 0)' = CellsOf(ety[e])' /\ Stop(e, 0)'
        BY DEF At, Stop
      <4>. QED
        BY <2>1, <2>2, <4>1
    <3>. QED
      BY <3>1
  <2>3. CASE i \notin {0, 1}
    <3>1. i - 1 \in Nat \ {0} /\ (i - 1) + 1 = i
      BY <2>3
    <3>2. PICK j \in Nat \ {0} : j + 1 = i
      BY <3>1
    <3>3. Stop(e, j)' /\ c \in At(e, j)'
      BY <2>1, <3>2 DEF Taken
    <3>. QED
      BY <3>3
  <2>. QED
    BY <2>2, <2>3
<1>8. Placed'
  <2> SUFFICES ASSUME NEW e \in Eid PROVE \E j \in Nat : Final(e, j)' /\ CellsOf(placed[e])' = At(e, j)'
    BY DEF Placed
  <2>1. PICK i \in Nat : Final(e, i) /\ CellsOf(placed[e]) = At(e, i)
    BY DEF Marks, Placed
  <2>2. CellsOf(placed[e])' = CellsOf(placed[e])
    BY DEF CellsOf
  <2>3. Stop(e, 1) => i >= 1
    BY <2>1 DEF Final
  <2>4. PICK j \in Nat : From(e, j) = i /\ Stop(e, j)'
    <3>1. CASE i \in {0, 1}
      <4>1. Stop(e, 0)' /\ From(e, 0) = i
        BY <2>1, <2>3, <3>1 DEF Stop, From, Final
      <4>. QED
        BY <4>1
    <3>2. CASE i \notin {0, 1}
      <4>1. i - 1 \in Nat \ {0} /\ (i - 1) + 1 = i
        BY <3>2
      <4>2. PICK k \in Nat \ {0} : k + 1 = i
        BY <4>1
      <4>3. Stop(e, k)' /\ From(e, k) = i
        BY <2>1, <4>2 DEF Taken, From, Final
      <4>. QED
        BY <4>3
    <3>. QED
      BY <3>1, <3>2
  <2>5. ASSUME NEW k \in Nat, Stop(e, k)' PROVE k <= j
    <3>1. From(e, k) <= From(e, j) /\ From(e, k) \in Nat /\ From(e, j) \in Nat
      BY <1>1, <2>1, <2>4, <2>5 DEF Final
    <3>2. j < k => From(e, j) < From(e, k)
      BY <1>2
    <3>. QED
      BY <3>1, <3>2
  <2>6. Final(e, j)'
    BY <2>4, <2>5 DEF Final
  <2>7. At(e, j)' = At(e, i)
    BY <1>1, <2>4
  <2>. QED
    BY <2>1, <2>2, <2>6, <2>7
<1>. QED
  BY <1>4, <1>5, <1>6, <1>7, <1>8 DEF Marks
-----------------------------------------------------------------------------
(* What is not None has its place. *)
LEMMA NotNone ==
  ASSUME NEW at \in Spot
  PROVE  /\ [at |-> at] # None
         /\ \A lv \in {0, 1} : [at |-> at, lv |-> lv] # None
         /\ \A lv \in {0, 1}, old \in BOOLEAN : [at |-> at, lv |-> lv, old |-> old] # None
  BY WorldAssumption

(* The first message, by its command. *)
LEMMA MsgIs ==
  ASSUME Types, g_msgq # << >>
  PROVE  /\ Msg \in Message /\ Msg = g_msgq[1] /\ 1 \in DOMAIN g_msgq
         /\ Msg.cmd = "ADD_ETY" => Msg.id \in Eid /\ Msg.at \in Spot
         /\ Msg.cmd \in {"REM_ETY", "BROADCAST"} => Msg.id \in Eid
         /\ Msg.cmd = "ADD_EYE" => Msg.id \in Pid /\ Msg.at \in Spot /\ Msg.lv \in {0, 1}
         /\ Msg.cmd = "MOV_EYE" => Msg.id \in Pid /\ Msg.at \in Spot
         /\ Msg.cmd = "REM_EYE" => Msg.id \in Pid
<1>1. Msg \in Message /\ Msg = g_msgq[1] /\ 1 \in DOMAIN g_msgq
  BY DEF Types, Msg
<1>. QED
  BY <1>1 DEF Message, Lv

(* The Lua thread puts an entity where no other is to be, on cells of its  *)
(* own last place or on cells that nobody has.                             *)
LEMMA AddPosts ==
  ASSUME Inv, NEW e \in Eid, NEW at \in Spot, add_ety(e, at)
  PROVE  Inv'
<1>. DEFINE m == [cmd |-> "ADD_ETY", id |-> e, at |-> at]
            n == Len(g_msgq)
<1>1. m \in Message /\ Posts(m) /\ CellsBy(m) = Cells(at) /\ \A f : Moves(m, f) <=> f = e
  BY DEF Message, Posts, add_ety, Post, CellsBy, Moves
<1>. HIDE DEF m
<1>2. /\ n \in Nat
      /\ g_msgq' \in Seq(Message) /\ (linking => g_msgq' # << >> /\ Msg' = Msg) /\ Due' = Due
      /\ \A f, i : Stop(f, i)' <=> Stop(f, i) \/ (i = n + 1 /\ f = e)
      /\ \A f, i : Stop(f, i) => i \in Nat /\ i <= n /\ At(f, i)' = At(f, i)
      /\ \A f, i : i = n + 1 => At(f, i)' = Cells(at)
  BY <1>1, PostsAt DEF Inv
<1>. HIDE DEF n
<1>3. Types' /\ Counted'
  <2>1. placed' = [placed EXCEPT ![e] = [at |-> at]] /\ ety' = ety /\ eye' = eye /\ linking' = linking
    BY DEF add_ety
  <2>2. slipped' \in BOOLEAN
    BY DEF add_ety, Inv, Types
  <2>3. [at |-> at] \in [at : Spot] \union {None}
    OBVIOUS
  <2>4. placed' \in [Eid -> [at : Spot] \union {None}]
    BY <2>1, <2>3 DEF Inv, Types
  <2>5. linking' => g_msgq' # << >> /\ Msg'.cmd = "ADD_ETY" /\ ety'[Msg'.id] = None
    BY <1>2, <2>1 DEF Inv, Types
  <2>6. Types'
    BY <1>2, <2>1, <2>2, <2>4, <2>5 DEF Inv, Types
  <2>7. Counted'
    BY <2>1 DEF add_ety, Inv, Counted
  <2>. QED
    BY <2>6, <2>7
<1>4. ASSUME ~slipped' PROVE Marks'
  <2>1. Marks /\ ~linking /\ Due = {} /\ Due' = {}
    BY <1>2, <1>4 DEF add_ety, Inv, Types, Due
  <2>2. /\ gLand' = gLand \union Cells(at)
        /\ \A c : c \in Cells(at) /\ c \in gLand => c \in CellsOf(placed[e])
    BY DEF add_ety, MarkAtOnce, map_test_pos
  <2>3. CellsOf(placed'[e]) = Cells(at) /\ \A f \in Eid \ {e} : placed'[f] = placed[f]
    BY NotNone DEF add_ety, Inv, Types, CellsOf
  <2>4. PICK l \in Nat : Final(e, l) /\ CellsOf(placed[e]) = At(e, l)
    BY <2>1 DEF Marks, Placed
  <2>5. \A c : c \in Cells(at) /\ c \in gLand => c \in At(e, l)
    BY <2>2, <2>4
  <2>6. \A f \in Eid, i \in Nat : \A c : Stop(f, i) /\ c \in At(f, i) /\ c \in Cells(at) => c \in At(e, l)
    BY <2>1, <2>5 DEF Marks, Marked
  <2>7. Kept'
    <3> SUFFICES ASSUME NEW f \in Eid, NEW i \in Nat, NEW j \in Nat, NEW k \in Nat, NEW c,
                        Stop(f, i)', Stop(f, j)', Stop(f, k)', i < j, j < k,
                        c \in At(f, i)', c \in At(f, k)'
                 PROVE  c \in At(f, j)'
      BY DEF Kept
    <3>1. k <= n + 1
      BY <1>2
    <3>2. Stop(f, i) /\ Stop(f, j) /\ At(f, i)' = At(f, i) /\ At(f, j)' = At(f, j)
      BY <1>2, <3>1
    <3>3. CASE Stop(f, k)
      BY <1>2, <2>1, <3>2, <3>3 DEF Marks, Kept
    <3>4. CASE ~Stop(f, k)
      <4>1. f = e /\ c \in Cells(at)
        BY <1>2, <3>4
      <4>2. c \in At(e, i) /\ c \in At(e, l)
        BY <2>6, <3>2, <4>1
      <4>3. j <= l /\ Stop(e, l)
        BY <2>4, <3>2, <4>1 DEF Final
      <4>4. c \in At(e, j)
        BY <2>1, <3>2, <4>1, <4>2, <4>3 DEF Marks, Kept
      <4>. QED
        BY <3>2, <4>1, <4>4
    <3>. QED
      BY <3>3, <3>4
  <2>8. Apart'
    <3> SUFFICES ASSUME NEW f \in Eid, NEW g \in Eid, NEW i \in Nat, NEW j \in Nat, NEW c,
                        Stop(f, i)', Stop(g, j)', c \in At(f, i)', c \in At(g, j)'
                 PROVE  f = g
      BY DEF Apart
    <3>1. CASE Stop(f, i) /\ Stop(g, j)
      BY <1>2, <2>1, <3>1 DEF Marks, Apart
    <3>2. CASE Stop(f, i) /\ ~Stop(g, j)
      <4>1. g = e /\ c \in Cells(at) /\ c \in At(f, i)
        BY <1>2, <3>2
      <4>2. c \in At(e, l)
        BY <2>6, <3>2, <4>1
      <4>. QED
        BY <2>1, <2>4, <3>2, <4>1, <4>2 DEF Marks, Apart, Final
    <3>3. CASE ~Stop(f, i) /\ Stop(g, j)
      <4>1. f = e /\ c \in Cells(at) /\ c \in At(g, j)
        BY <1>2, <3>3
      <4>2. c \in At(e, l)
        BY <2>6, <3>3, <4>1
      <4>. QED
        BY <2>1, <2>4, <3>3, <4>1, <4>2 DEF Marks, Apart, Final
    <3>4. CASE ~Stop(f, i) /\ ~Stop(g, j)
      BY <1>2, <3>4
    <3>. QED
      BY <3>1, <3>2, <3>3, <3>4
  <2>9. Marked'
    BY <1>2, <2>1, <2>2 DEF Marks, Marked
  <2>10. NoOther'
    <3> SUFFICES ASSUME NEW c, c \in gLand' PROVE \E f \in Eid, i \in Nat : Stop(f, i)' /\ c \in At(f, i)'
      BY DEF NoOther
    <3>1. CASE c \in gLand
      BY <1>2, <2>1, <3>1 DEF Marks, NoOther
    <3>2. CASE c \in Cells(at)
      BY <1>2, <3>2
    <3>. QED
      BY <2>2, <3>1, <3>2
  <2>11. Placed'
    <3> SUFFICES ASSUME NEW f \in Eid PROVE \E i \in Nat : Final(f, i)' /\ CellsOf(placed[f])' = At(f, i)'
      BY DEF Placed
    <3>1. CASE f = e
      <4>1. PICK i \in Nat : i = n + 1
        BY <1>2
      <4>2. Final(e, i)' /\ At(e, i)' = Cells(at)
        BY <1>2, <4>1 DEF Final
      <4>3. CellsOf(placed[e])' = Cells(at)
        BY <2>3 DEF CellsOf
      <4>. QED
        BY <3>1, <4>2, <4>3
    <3>2. CASE f # e
      <4>1. PICK i \in Nat : Final(f, i) /\ CellsOf(placed[f]) = At(f, i)
        BY <2>1 DEF Marks, Placed
      <4>2. Final(f, i)' /\ At(f, i)' = At(f, i)
        BY <1>2, <3>2, <4>1 DEF Final
      <4>3. CellsOf(placed[f])' = CellsOf(placed[f])
        BY <2>3, <3>2 DEF CellsOf
      <4>. QED
        BY <4>1, <4>2, <4>3
    <3>. QED
      BY <3>1, <3>2
  <2>. QED
    BY <2>7, <2>8, <2>9, <2>10, <2>11 DEF Marks
<1>. QED
  BY <1>3, <1>4 DEF Inv
LEMMA RemPosts ==
  ASSUME Inv, NEW e \in Eid, rem_ety(e)
  PROVE  Inv'
<1>. DEFINE m == [cmd |-> "REM_ETY", id |-> e]
            n == Len(g_msgq)
<1>1. m \in Message /\ Posts(m) /\ CellsBy(m) = {} /\ \A f : Moves(m, f) <=> f = e
  BY DEF Message, Posts, rem_ety, Post, CellsBy, Moves
<1>. HIDE DEF m
<1>2. /\ n \in Nat
      /\ g_msgq' \in Seq(Message) /\ (linking => g_msgq' # << >> /\ Msg' = Msg) /\ Due' = Due
      /\ \A f, i : Stop(f, i)' <=> Stop(f, i) \/ (i = n + 1 /\ f = e)
      /\ \A f, i : Stop(f, i) => i \in Nat /\ i <= n /\ At(f, i)' = At(f, i)
      /\ \A f, i : i = n + 1 => At(f, i)' = {}
  BY <1>1, PostsAt DEF Inv
<1>. HIDE DEF n
<1>3. /\ placed' = [placed EXCEPT ![e] = None] /\ ety' = ety /\ eye' = eye /\ linking' = linking
      /\ slipped' = slipped /\ gLand' = gLand /\ g_eye_count' = g_eye_count
  BY DEF rem_ety
<1>4. Types' /\ Counted'
  <2>1. placed' \in [Eid -> [at : Spot] \union {None}]
    BY <1>3 DEF Inv, Types
  <2>2. linking' => g_msgq' # << >> /\ Msg'.cmd = "ADD_ETY" /\ ety'[Msg'.id] = None
    BY <1>2, <1>3 DEF Inv, Types
  <2>3. Types'
    BY <1>2, <1>3, <2>1, <2>2 DEF Inv, Types
  <2>. QED
    BY <1>3, <2>3 DEF Inv, Counted
<1>5. ASSUME ~slipped' PROVE Marks'
  <2>1. Marks
    BY <1>3, <1>5 DEF Inv
  <2>2. \A f \in Eid, i \in Nat : \A c : Stop(f, i)' /\ c \in At(f, i)' => Stop(f, i) /\ c \in At(f, i)
    BY <1>2
  <2>3. Kept'
    <3> SUFFICES ASSUME NEW f \in Eid, NEW i \in Nat, NEW j \in Nat, NEW k \in Nat, NEW c,
                        Stop(f, i)', Stop(f, j)', Stop(f, k)', i < j, j < k,
                        c \in At(f, i)', c \in At(f, k)'
                 PROVE  c \in At(f, j)'
      BY DEF Kept
    <3>1. Stop(f, i) /\ Stop(f, k) /\ c \in At(f, i) /\ c \in At(f, k)
      BY <2>2
    <3>2. Stop(f, j) /\ At(f, j)' = At(f, j)
      BY <1>2, <3>1
    <3>. QED
      BY <2>1, <3>1, <3>2 DEF Marks, Kept
  <2>4. Apart'
    BY <2>1, <2>2 DEF Marks, Apart
  <2>5. Marked'
    BY <1>2, <1>3, <2>1, <2>2 DEF Marks, Marked
  <2>6. NoOther'
    BY <1>2, <1>3, <2>1 DEF Marks, NoOther
  <2>7. Placed'
    <3> SUFFICES ASSUME NEW f \in Eid PROVE \E i \in Nat : Final(f, i)' /\ CellsOf(placed[f])' = At(f, i)'
      BY DEF Placed
    <3>1. CASE f = e
      <4>1. PICK i \in Nat : i = n + 1
        BY <1>2
      <4>2. Final(e, i)' /\ At(e, i)' = {}
        BY <1>2, <4>1 DEF Final
      <4>3. CellsOf(placed[e])' = {}
        BY <1>3 DEF CellsOf, Inv, Types
      <4>. QED
        BY <3>1, <4>2, <4>3
    <3>2. CASE f # e
      <4>1. PICK i \in Nat : Final(f, i) /\ CellsOf(placed[f]) = At(f, i)
        BY <2>1 DEF Marks, Placed
      <4>2. Final(f, i)' /\ At(f, i)' = At(f, i)
        BY <1>2, <3>2, <4>1 DEF Final
      <4>3. CellsOf(placed[f])' = CellsOf(placed[f])
        BY <1>3, <3>2 DEF CellsOf, Inv, Types
      <4>. QED
        BY <4>1, <4>2, <4>3
    <3>. QED
      BY <3>1, <3>2
  <2>. QED
    BY <2>3, <2>4, <2>5, <2>6, <2>7 DEF Marks
<1>. QED
  BY <1>4, <1>5 DEF Inv

(* Requests for eyes, and packets for those around an entity. *)
LEMMA NeutralPosts ==
  ASSUME Inv, EyeRequest \/ \E e \in Eid : roi_broadcast(e)
  PROVE  Inv'
<1>1. PICK m \in Message : Neutral(m) /\ g_msgq' = Append(g_msgq, m)
  <2>1. CASE EyeRequest
    <3>1. PICK p \in Pid : roi_add_eye(p) \/ roi_mov_eye(p) \/ roi_rem_eye(p)
      BY <2>1 DEF EyeRequest
    <3>2. CASE roi_add_eye(p)
      BY <3>2 DEF roi_add_eye, Post, Message, Neutral
    <3>3. CASE roi_mov_eye(p)
      BY <3>3 DEF roi_mov_eye, Post, Message, Neutral
    <3>4. CASE roi_rem_eye(p)
      BY <3>4 DEF roi_rem_eye, Post, Message, Neutral
    <3>. QED
      BY <3>1, <3>2, <3>3, <3>4
  <2>2. ASSUME NEW e \in Eid, roi_broadcast(e)
        PROVE  \E m \in Message : Neutral(m) /\ g_msgq' = Append(g_msgq, m)
    BY <2>2 DEF roi_broadcast, Post, Message, Neutral
  <2>. QED
    BY <2>1, <2>2
<1>2. /\ placed' = placed /\ ety' = ety /\ eye' = eye /\ linking' = linking
      /\ slipped' = slipped /\ gLand' = gLand /\ g_eye_count' = g_eye_count
  BY DEF EyeRequest, roi_broadcast
<1>3. Posts(m)
  BY <1>1, <1>2 DEF Posts
<1>4. g_msgq' \in Seq(Message) /\ (linking => g_msgq' # << >> /\ Msg' = Msg)
  BY <1>3, PostsAt DEF Inv
<1>5. Types' /\ Counted'
  BY <1>2, <1>4 DEF Inv, Types, Counted
<1>6. ~slipped' => Marks'
  BY <1>1, <1>2, <1>3, PostsNeutral DEF Inv
<1>. QED
  BY <1>5, <1>6 DEF Inv

-----------------------------------------------------------------------------
(* The roi thread. *)

(* A step that takes a message about no entity. *)
LEMMA TakesNeutral ==
  ASSUME Types, Marks, Taken, ~linking, Neutral(Msg), Msg = g_msgq[1],
         linking' = linking, ety' = ety, gLand' = gLand, placed' = placed
  PROVE  Marks'
<1>1. \A e : ~Stop(e, 1)
  BY DEF Stop, Neutral, Moves
<1>2. Due = {} /\ Due' = {}
  BY DEF Due
<1>3. \A e : CellsOf(ety[e])' = At(e, 0)
  BY DEF CellsOf, At
<1>. QED
  BY <1>1, <1>2, <1>3, TakenMarks

LEMMA SameEyes ==
  ASSUME Counted, \A p \in Pid : eye'[p] = None <=> eye[p] = None, g_eye_count' = g_eye_count
  PROVE  Counted'
<1>1. {p \in Pid : eye'[p] # None} = {p \in Pid : eye[p] # None}
  OBVIOUS
<1>. QED
  BY <1>1 DEF Counted

LEMMA BroadcastStep == Inv /\ Broadcast => Inv'
<1> SUFFICES ASSUME Inv, Broadcast PROVE Inv'
  OBVIOUS
<1>1. g_msgq # << >> /\ Msg.cmd = "BROADCAST" /\ ~linking /\ g_msgq' = Tail(g_msgq)
  BY DEF Broadcast, Handle, Msg
<1>2. /\ placed' = placed /\ ety' = ety /\ eye' = eye /\ linking' = linking
      /\ slipped' = slipped /\ gLand' = gLand /\ g_eye_count' = g_eye_count
  BY DEF Broadcast, history
<1>3. Taken /\ g_msgq' \in Seq(Message) /\ Msg = g_msgq[1]
  BY <1>1, TakenTail, MsgIs DEF Inv
<1>4. Types' /\ Counted'
  BY <1>1, <1>2, <1>3 DEF Inv, Types, Counted
<1>5. ~slipped' => Marks'
  BY <1>1, <1>2, <1>3, TakesNeutral DEF Inv, Neutral
<1>. QED
  BY <1>4, <1>5 DEF Inv

LEMMA AddEyeStep == Inv /\ AddEye => Inv'
<1> SUFFICES ASSUME Inv, AddEye PROVE Inv'
  OBVIOUS
<1>. DEFINE y == [at |-> Msg.at, lv |-> Msg.lv, old |-> FALSE]
            Eyes == {p \in Pid : eye[p] # None}
<1>1. g_msgq # << >> /\ Msg.cmd = "ADD_EYE" /\ ~linking /\ g_msgq' = Tail(g_msgq)
  BY DEF AddEye, Handle, Msg
<1>2. /\ placed' = placed /\ ety' = ety /\ linking' = linking /\ slipped' = slipped /\ gLand' = gLand
      /\ eye' = [eye EXCEPT ![Msg.id] = y] /\ g_eye_count' = CountEye(Msg.id)
  BY DEF AddEye, history
<1>3. Taken /\ g_msgq' \in Seq(Message) /\ Msg = g_msgq[1]
  BY <1>1, TakenTail, MsgIs DEF Inv
<1>4. Msg.id \in Pid /\ y \in [at : Spot, lv : {0, 1}, old : BOOLEAN] /\ y # None
  BY <1>1, MsgIs, NotNone DEF Inv
<1>. HIDE DEF y
<1>5. eye' \in [Pid -> [at : Spot, lv : {0, 1}, old : BOOLEAN] \union {None}]
  BY <1>2, <1>4 DEF Inv, Types
<1>6. Types'
  BY <1>1, <1>2, <1>3, <1>5 DEF Inv, Types
<1>7. Counted'
  <2>1. {p \in Pid : eye'[p] # None} = Eyes \union {Msg.id}
    BY <1>2, <1>4 DEF Inv, Types
  <2>2. IsFiniteSet(Eyes)
    BY FS_Subset, WorldAssumption
  <2>3. Cardinality(Eyes \union {Msg.id}) = IF Msg.id \in Eyes THEN Cardinality(Eyes) ELSE Cardinality(Eyes) + 1
    BY <2>2, FS_AddElement
  <2>4. g_eye_count = Cardinality(Eyes)
    BY DEF Inv, Counted
  <2>5. g_eye_count' = IF Msg.id \in Eyes THEN g_eye_count ELSE g_eye_count + 1
    BY <1>2, <1>4 DEF CountEye
  <2>. QED
    BY <2>1, <2>3, <2>4, <2>5 DEF Counted
<1>8. ~slipped' => Marks'
  BY <1>1, <1>2, <1>3, TakesNeutral DEF Inv, Neutral
<1>. QED
  BY <1>6, <1>7, <1>8 DEF Inv

LEMMA RemEyeStep == Inv /\ RemEye => Inv'
<1> SUFFICES ASSUME Inv, RemEye PROVE Inv'
  OBVIOUS
<1>. DEFINE Eyes == {p \in Pid : eye[p] # None}
<1>1. g_msgq # << >> /\ Msg.cmd = "REM_EYE" /\ ~linking /\ g_msgq' = Tail(g_msgq)
  BY DEF RemEye, Handle, Msg
<1>2. /\ placed' = placed /\ ety' = ety /\ linking' = linking /\ slipped' = slipped /\ gLand' = gLand
      /\ eye' = [eye EXCEPT ![Msg.id] = None]
      /\ g_eye_count' = IF eye[Msg.id] = None THEN g_eye_count ELSE g_eye_count - 1
  BY DEF RemEye, history
<1>3. Taken /\ g_msgq' \in Seq(Message) /\ Msg = g_msgq[1]
  BY <1>1, TakenTail, MsgIs DEF Inv
<1>4. Msg.id \in Pid
  BY <1>1, MsgIs DEF Inv
<1>5. eye' \in [Pid -> [at : Spot, lv : {0, 1}, old : BOOLEAN] \union {None}]
  BY <1>2, <1>4 DEF Inv, Types
<1>6. Types'
  BY <1>1, <1>2, <1>3, <1>5 DEF Inv, Types
<1>7. Counted'
  <2>1. {p \in Pid : eye'[p] # None} = Eyes \ {Msg.id}
    BY <1>2, <1>4 DEF Inv, Types
  <2>2. IsFiniteSet(Eyes)
    BY FS_Subset, WorldAssumption
  <2>3. Cardinality(Eyes \ {Msg.id}) = IF Msg.id \in Eyes THEN Cardinality(Eyes) - 1 ELSE Cardinality(Eyes)
    BY <2>2, FS_RemoveElement
  <2>4. g_eye_count = Cardinality(Eyes)
    BY DEF Inv, Counted
  <2>5. g_eye_count' = IF Msg.id \in Eyes THEN g_eye_count - 1 ELSE g_eye_count
    BY <1>2, <1>4
  <2>. QED
    BY <2>1, <2>3, <2>4, <2>5 DEF Counted
<1>8. ~slipped' => Marks'
  BY <1>1, <1>2, <1>3, TakesNeutral DEF Inv, Neutral
<1>. QED
  BY <1>6, <1>7, <1>8 DEF Inv

LEMMA MovEyeStep == Inv /\ MovEye => Inv'
<1> SUFFICES ASSUME Inv, MovEye PROVE Inv'
  OBVIOUS
<1>. DEFINE old == eye[Msg.id]
            y == [old EXCEPT !.at = Msg.at, !.old = FALSE]
            m == [cmd |-> "ADD_EYE", id |-> Msg.id, at |-> Msg.at, lv |-> 0]
<1>1. g_msgq # << >> /\ Msg.cmd = "MOV_EYE" /\ ~linking
  BY DEF MovEye, Handle, Msg
<1>2. /\ placed' = placed /\ ety' = ety /\ linking' = linking /\ slipped' = slipped /\ gLand' = gLand
      /\ g_eye_count' = g_eye_count
  BY DEF MovEye, history
<1>3. Msg.id \in Pid /\ Msg.at \in Spot /\ m \in Message /\ Neutral(m)
  BY <1>1, MsgIs DEF Inv, Message, Lv, Neutral
<1>4. CASE old = None
  <2>1. g_msgq' = Append(Tail(g_msgq), m) /\ eye' = eye
    BY <1>4 DEF MovEye
  <2>2. <<m>> \in Seq(Message) /\ (\A i \in DOMAIN <<m>> : Neutral(<<m>>[i])) /\ g_msgq' = Tail(g_msgq) \o <<m>>
    <3>. HIDE DEF m
    <3>1. Tail(g_msgq) \in Seq(Message)
      BY <1>1 DEF Inv, Types
    <3>. QED
      BY <1>3, <2>1, <3>1
  <2>3. Taken /\ g_msgq' \in Seq(Message) /\ Msg = g_msgq[1]
    <3>. HIDE DEF m
    <3>. QED
      BY <1>1, <2>2, TakenIs, MsgIs DEF Inv
  <2>4. Types' /\ Counted'
    BY <1>1, <1>2, <2>1, <2>3 DEF Inv, Types, Counted
  <2>5. ~slipped' => Marks'
    BY <1>1, <1>2, <2>3, TakesNeutral DEF Inv, Neutral
  <2>. QED
    BY <2>4, <2>5 DEF Inv
<1>5. CASE old # None
  <2>1. /\ g_msgq' = Tail(g_msgq)
        /\ eye' = [eye EXCEPT ![Msg.id].old = FALSE] \/ eye' = [eye EXCEPT ![Msg.id] = y]
    BY <1>5 DEF MovEye
  <2>2. Taken /\ g_msgq' \in Seq(Message) /\ Msg = g_msgq[1]
    BY <1>1, <2>1, TakenTail, MsgIs DEF Inv
  <2>3. old \in [at : Spot, lv : {0, 1}, old : BOOLEAN]
    BY <1>3, <1>5 DEF Inv, Types
  <2>4. /\ y \in [at : Spot, lv : {0, 1}, old : BOOLEAN]
        /\ [old EXCEPT !.old = FALSE] \in [at : Spot, lv : {0, 1}, old : BOOLEAN]
    BY <1>3, <2>3
  <2>5. PICK z \in [at : Spot, lv : {0, 1}, old : BOOLEAN] : eye' = [eye EXCEPT ![Msg.id] = z]
    BY <2>1, <2>4
  <2>6. z # None
    BY WorldAssumption
  <2>7. eye' \in [Pid -> [at : Spot, lv : {0, 1}, old : BOOLEAN] \union {None}]
    BY <2>5 DEF Inv, Types
  <2>8. Counted'
    <3>1. \A p \in Pid : eye'[p] = None <=> eye[p] = None
      BY <1>3, <1>5, <2>5, <2>6 DEF Inv, Types
    <3>. QED
      BY <1>2, <3>1, SameEyes DEF Inv
  <2>9. Types'
    BY <1>1, <1>2, <2>2, <2>7 DEF Inv, Types
  <2>10. ~slipped' => Marks'
    BY <1>1, <1>2, <2>2, TakesNeutral DEF Inv, Neutral
  <2>. QED
    BY <2>8, <2>9, <2>10 DEF Inv
<1>. QED
  BY <1>4, <1>5

LEMMA AgesStep == Inv /\ EyeAges => Inv'
<1> SUFFICES ASSUME Inv, EyeAges PROVE Inv'
  OBVIOUS
<1>1. PICK p \in Pid : eye[p] # None /\ eye' = [eye EXCEPT ![p].old = TRUE]
  BY DEF EyeAges
<1>2. /\ placed' = placed /\ ety' = ety /\ linking' = linking /\ slipped' = slipped /\ gLand' = gLand
      /\ g_eye_count' = g_eye_count /\ g_msgq' = g_msgq
  BY DEF EyeAges, history
<1>3. [eye[p] EXCEPT !.old = TRUE] \in [at : Spot, lv : {0, 1}, old : BOOLEAN]
  BY <1>1 DEF Inv, Types
<1>4. [eye[p] EXCEPT !.old = TRUE] # None
  BY <1>3, WorldAssumption
<1>5. eye' \in [Pid -> [at : Spot, lv : {0, 1}, old : BOOLEAN] \union {None}]
  BY <1>1, <1>3 DEF Inv, Types
<1>6. \A q \in Pid : eye'[q] = None <=> eye[q] = None
  BY <1>1, <1>4 DEF Inv, Types
<1>7. Types' /\ Counted'
  BY <1>2, <1>5, <1>6, SameEyes DEF Inv, Types, Msg
<1>8. Marks' <=> Marks
  BY <1>2 DEF Marks, Kept, Apart, Marked, NoOther, Placed, Final, Stop, At, CellsOf, Due, Msg
<1>. QED
  BY <1>2, <1>7, <1>8 DEF Inv

LEMMA QuietStep ==
  ASSUME Inv, push_msg \/ UNCHANGED vars
  PROVE  Inv'
<1>1. /\ placed' = placed /\ ety' = ety /\ linking' = linking /\ slipped' = slipped /\ gLand' = gLand
      /\ g_eye_count' = g_eye_count /\ g_msgq' = g_msgq /\ eye' = eye
  BY DEF push_msg, vars, history
<1>2. Types' /\ Counted'
  BY <1>1 DEF Inv, Types, Counted, Msg
<1>3. Marks' <=> Marks
  BY <1>1 DEF Marks, Kept, Apart, Marked, NoOther, Placed, Final, Stop, At, CellsOf, Due, Msg
<1>. QED
  BY <1>1, <1>2, <1>3 DEF Inv
(* The old cells of an entity are freed before the new ones are marked:    *)
(* what is needed further on is among the new ones.                        *)
LEMMA AddEtyStep == Inv /\ AddEty => Inv'
<1> SUFFICES ASSUME Inv, AddEty PROVE Inv'
  OBVIOUS
<1>1. g_msgq # << >> /\ Msg.cmd = "ADD_ETY" /\ ~linking
  BY DEF AddEty, Handle, Msg
<1>2. /\ placed' = placed /\ linking' = TRUE /\ slipped' = slipped /\ g_msgq' = g_msgq
      /\ eye' = eye /\ g_eye_count' = g_eye_count
      /\ ety' = [ety EXCEPT ![Msg.id] = None] /\ gLand' = gLand \ CellsOf(ety[Msg.id])
  BY DEF AddEty, history, ClearedCells
<1>3. Msg.id \in Eid /\ Msg.at \in Spot /\ Msg = g_msgq[1] /\ 1 \in DOMAIN g_msgq /\ Msg' = Msg
  BY <1>1, <1>2, MsgIs DEF Inv, Msg
<1>4. Types' /\ Counted'
  <2>1. ety' \in [Eid -> [at : Spot, lv : {0, 1}] \union {None}] /\ ety'[Msg.id] = None
    BY <1>2, <1>3 DEF Inv, Types
  <2>. QED
    BY <1>1, <1>2, <1>3, <2>1 DEF Inv, Types, Counted
<1>5. ASSUME ~slipped' PROVE Marks'
  <2>. DEFINE id == Msg.id
  <2>1. Marks /\ Due = {} /\ Due' = Cells(Msg.at)
    BY <1>1, <1>2, <1>3, <1>5 DEF Inv, Due
  <2>2. \A e, i : Stop(e, i)' <=> Stop(e, i)
    BY <1>2 DEF Stop
  <2>3. \A e, i : e \in Eid /\ ~(e = id /\ i = 0) => At(e, i)' = At(e, i)
    BY <1>2 DEF At, CellsOf, Inv, Types
  <2>4. \A e, i : e = id /\ i = 0 => At(e, i)' = {}
    BY <1>2, <1>3 DEF At, CellsOf, Inv, Types
  <2>5. Stop(id, 0) /\ Stop(id, 1) /\ At(id, 1) = Cells(Msg.at) /\ At(id, 0) = CellsOf(ety[id])
    BY <1>1, <1>3 DEF Stop, Moves, At, CellsBy
  <2>. HIDE DEF id
  <2>6. \A e \in Eid, i \in Nat : \A c : Stop(e, i)' /\ c \in At(e, i)' =>
          Stop(e, i) /\ c \in At(e, i) /\ ~(e = id /\ i = 0)
    BY <2>2, <2>3, <2>4
  <2>7. Kept'
    <3> SUFFICES ASSUME NEW f \in Eid, NEW i \in Nat, NEW j \in Nat, NEW k \in Nat, NEW c,
                        Stop(f, i)', Stop(f, j)', Stop(f, k)', i < j, j < k,
                        c \in At(f, i)', c \in At(f, k)'
                 PROVE  c \in At(f, j)'
      BY DEF Kept
    <3>1. Stop(f, i) /\ Stop(f, k) /\ c \in At(f, i) /\ c \in At(f, k) /\ Stop(f, j)
      BY <2>2, <2>6
    <3>2. At(f, j)' = At(f, j)
      BY <2>3
    <3>. QED
      BY <2>1, <3>1, <3>2 DEF Marks, Kept
  <2>8. Apart'
    BY <2>1, <2>6 DEF Marks, Apart
  <2>9. Marked'
    <3> SUFFICES ASSUME NEW e \in Eid, NEW i \in Nat, NEW c, Stop(e, i)', c \in At(e, i)'
                 PROVE  c \in gLand' \/ c \in Due'
      BY DEF Marked
    <3>1. Stop(e, i) /\ c \in At(e, i) /\ ~(e = id /\ i = 0) /\ c \in gLand
      BY <2>1, <2>6 DEF Marks, Marked
    <3>2. CASE c \notin At(id, 0)
      BY <1>2, <2>5, <3>1, <3>2 DEF id
    <3>3. CASE c \in At(id, 0)
      <4>1. id \in Eid
        BY <1>3 DEF id
      <4>2. e = id
        BY <2>1, <2>5, <3>1, <3>3, <4>1 DEF Marks, Apart
      <4>3. i = 1 \/ (0 < 1 /\ 1 < i)
        BY <3>1, <4>2
      <4>4. c \in At(id, 1)
        BY <2>1, <2>5, <3>1, <3>3, <4>1, <4>2, <4>3 DEF Marks, Kept
      <4>. QED
        BY <2>1, <2>5, <4>4
    <3>. QED
      BY <3>2, <3>3
  <2>10. NoOther'
    <3> SUFFICES ASSUME NEW c, c \in gLand' PROVE \E e \in Eid, i \in Nat : Stop(e, i)' /\ c \in At(e, i)'
      BY DEF NoOther
    <3>1. c \in gLand /\ c \notin At(id, 0)
      BY <1>2, <2>5 DEF id
    <3>2. PICK e \in Eid, i \in Nat : Stop(e, i) /\ c \in At(e, i)
      BY <2>1, <3>1 DEF Marks, NoOther
    <3>3. ~(e = id /\ i = 0)
      BY <3>1, <3>2
    <3>. QED
      BY <2>2, <2>3, <3>2, <3>3
  <2>11. Placed'
    <3> SUFFICES ASSUME NEW f \in Eid PROVE \E i \in Nat : Final(f, i)' /\ CellsOf(placed[f])' = At(f, i)'
      BY DEF Placed
    <3>1. PICK i \in Nat : Final(f, i) /\ CellsOf(placed[f]) = At(f, i)
      BY <2>1 DEF Marks, Placed
    <3>2. Final(f, i)'
      BY <2>2, <3>1 DEF Final
    <3>3. ~(f = id /\ i = 0)
      BY <2>5, <3>1 DEF Final
    <3>4. At(f, i)' = At(f, i) /\ CellsOf(placed[f])' = CellsOf(placed[f])
      BY <1>2, <2>3, <3>3 DEF CellsOf
    <3>. QED
      BY <3>1, <3>2, <3>4
  <2>. QED
    BY <2>7, <2>8, <2>9, <2>10, <2>11 DEF Marks
<1>. QED
  BY <1>4, <1>5 DEF Inv

LEMMA LinkEtyStep == Inv /\ LinkEty => Inv'
<1> SUFFICES ASSUME Inv, LinkEty PROVE Inv'
  OBVIOUS
<1>. DEFINE e0 == [at |-> Msg.at, lv |-> IF Msg.id \in Upper THEN 1 ELSE 0]
            r == [i \in DOMAIN SetToSeq(OldEyes(e0)) |-> [cmd |-> "REM_EYE", id |-> SetToSeq(OldEyes(e0))[i]]]
<1>1. linking /\ g_msgq # << >> /\ Msg.cmd = "ADD_ETY" /\ ety[Msg.id] = None
  BY DEF LinkEty, Inv, Types
<1>2. /\ placed' = placed /\ linking' = FALSE /\ slipped' = slipped
      /\ eye' = eye /\ g_eye_count' = g_eye_count
      /\ ety' = [ety EXCEPT ![Msg.id] = e0] /\ gLand' = gLand \union Cells(Msg.at)
  BY DEF LinkEty, history, MarkedAgain
<1>3. g_msgq' = Tail(g_msgq) \o r
  BY DEF LinkEty, add_ety_to_eye
<1>4. Msg.id \in Eid /\ Msg.at \in Spot /\ Msg = g_msgq[1] /\ 1 \in DOMAIN g_msgq
  BY <1>1, MsgIs DEF Inv
<1>5. r \in Seq(Message) /\ \A i \in DOMAIN r : Neutral(r[i])
  <2>1. OldEyes(e0) \in SUBSET Pid
    BY DEF OldEyes, Watching
  <2>. QED
    BY <2>1, RemovalsType
<1>. HIDE DEF r
<1>6. Taken /\ g_msgq' \in Seq(Message)
  BY <1>1, <1>3, <1>5, TakenIs DEF Inv
<1>7. e0 \in [at : Spot, lv : {0, 1}] /\ e0 # None /\ e0.at = Msg.at
  BY <1>4, NotNone
<1>. HIDE DEF e0
<1>8. Types' /\ Counted'
  <2>1. ety' \in [Eid -> [at : Spot, lv : {0, 1}] \union {None}]
    BY <1>2, <1>7 DEF Inv, Types
  <2>. QED
    BY <1>2, <1>6, <2>1 DEF Inv, Types, Counted
<1>9. ASSUME ~slipped' PROVE Marks'
  <2>1. Marks /\ Due = Cells(Msg.at) /\ Due' = {}
    BY <1>1, <1>2, <1>9 DEF Inv, Due
  <2>2. \A e : Stop(e, 1) <=> e = Msg.id
    BY <1>1, <1>4 DEF Stop, Moves
  <2>3. At(Msg.id, 1) = Cells(Msg.at) /\ At(Msg.id, 0) = {}
    BY <1>1, <1>4 DEF At, CellsBy, CellsOf
  <2>4. \A e \in Eid : CellsOf(ety[e])' = IF Stop(e, 1) THEN At(e, 1) ELSE At(e, 0)
    <3>1. CellsOf(ety'[Msg.id]) = Cells(Msg.at)
      BY <1>2, <1>4, <1>7 DEF CellsOf, Inv, Types
    <3>2. \A e \in Eid : e # Msg.id => ety'[e] = ety[e]
      BY <1>2 DEF Inv, Types
    <3>. QED
      BY <2>2, <2>3, <3>1, <3>2 DEF CellsOf, At
  <2>5. \A c : c \in gLand' <=> (c \in gLand \/ c \in Due) /\ ~\E e \in Eid : Stop(e, 1) /\ c \in At(e, 0)
    BY <1>2, <2>1, <2>2, <2>3
  <2>. QED
    BY <1>2, <1>4, <1>6, <2>1, <2>2, <2>3, <2>4, <2>5, TakenMarks DEF Inv
<1>. QED
  BY <1>8, <1>9 DEF Inv

LEMMA RemEtyStep == Inv /\ RemEty => Inv'
<1> SUFFICES ASSUME Inv, RemEty PROVE Inv'
  OBVIOUS
<1>. DEFINE e0 == ety[Msg.id]
            r == [i \in DOMAIN SetToSeq(OldEyes(e0)) |-> [cmd |-> "REM_EYE", id |-> SetToSeq(OldEyes(e0))[i]]]
<1>1. ~linking /\ g_msgq # << >> /\ Msg.cmd = "REM_ETY"
  BY DEF RemEty, Handle, Msg
<1>2. /\ placed' = placed /\ linking' = linking /\ slipped' = slipped
      /\ eye' = eye /\ g_eye_count' = g_eye_count
  BY DEF RemEty, history
<1>3. Msg.id \in Eid /\ Msg = g_msgq[1] /\ 1 \in DOMAIN g_msgq
  BY <1>1, MsgIs DEF Inv
<1>4. Taken /\ g_msgq' \in Seq(Message)
  <2>1. CASE e0 = None
    <3>1. g_msgq' = Tail(g_msgq)
      BY <2>1 DEF RemEty
    <3>. QED
      BY <1>1, <3>1, TakenTail DEF Inv
  <2>2. CASE e0 # None
    <3>1. g_msgq' = Tail(g_msgq) \o r
      BY <2>2 DEF RemEty, add_ety_to_eye
    <3>2. r \in Seq(Message) /\ \A i \in DOMAIN r : Neutral(r[i])
      <4>1. OldEyes(e0) \in SUBSET Pid
        BY DEF OldEyes, Watching
      <4>. QED
        BY <4>1, RemovalsType
    <3>. HIDE DEF r
    <3>. QED
      BY <1>1, <3>1, <3>2, TakenIs DEF Inv
  <2>. QED
    BY <2>1, <2>2
<1>5. /\ ety' \in [Eid -> [at : Spot, lv : {0, 1}] \union {None}]
      /\ ety'[Msg.id] = None /\ \A e \in Eid : e # Msg.id => ety'[e] = ety[e]
      /\ gLand' = gLand \ CellsOf(e0)
  <2>1. CASE e0 = None
    <3>1. ety' = ety /\ gLand' = gLand
      BY <2>1 DEF RemEty
    <3>. QED
      BY <2>1, <3>1 DEF Inv, Types, CellsOf
  <2>2. CASE e0 # None
    <3>1. ety' = [ety EXCEPT ![Msg.id] = None] /\ gLand' = gLand \ CellsOf(e0)
      BY <2>2 DEF RemEty, ClearedCells
    <3>. QED
      BY <1>3, <3>1 DEF Inv, Types
  <2>. QED
    BY <2>1, <2>2
<1>6. Types' /\ Counted'
  BY <1>1, <1>2, <1>4, <1>5 DEF Inv, Types, Counted
<1>7. ASSUME ~slipped' PROVE Marks'
  <2>1. Marks /\ Due = {} /\ Due' = {}
    BY <1>1, <1>2, <1>7 DEF Inv, Due
  <2>2. \A e : Stop(e, 1) <=> e = Msg.id
    BY <1>1, <1>3 DEF Stop, Moves
  <2>3. At(Msg.id, 1) = {} /\ At(Msg.id, 0) = CellsOf(e0)
    BY <1>1, <1>3 DEF At, CellsBy
  <2>4. \A e \in Eid : CellsOf(ety[e])' = IF Stop(e, 1) THEN At(e, 1) ELSE At(e, 0)
    BY <1>5, <2>2, <2>3 DEF CellsOf, At
  <2>5. \A c : c \in gLand' <=> (c \in gLand \/ c \in Due) /\ ~\E e \in Eid : Stop(e, 1) /\ c \in At(e, 0)
    BY <1>3, <1>5, <2>1, <2>2, <2>3
  <2>. QED
    BY <1>2, <1>4, <2>1, <2>2, <2>3, <2>4, <2>5, TakenMarks DEF Inv
<1>. QED
  BY <1>6, <1>7 DEF Inv

-----------------------------------------------------------------------------

LEMMA NextInv == Inv /\ [Next]_vars => Inv'
<1> SUFFICES ASSUME Inv, [Next]_vars PROVE Inv'
  OBVIOUS
<1>1. ASSUME NEW e \in Eid, rem_ety(e) \/ \E at \in Spot : add_ety(e, at)
      PROVE  Inv'
  BY <1>1, RemPosts, AddPosts
<1>2. CASE EyeRequest \/ \E e \in Eid : roi_broadcast(e)
  BY <1>2, NeutralPosts
<1>3. CASE AddEty \/ LinkEty \/ RemEty
  BY <1>3, AddEtyStep, LinkEtyStep, RemEtyStep
<1>4. CASE Broadcast \/ AddEye \/ RemEye \/ MovEye \/ EyeAges
  BY <1>4, BroadcastStep, AddEyeStep, RemEyeStep, MovEyeStep, AgesStep
<1>5. CASE push_msg \/ UNCHANGED vars
  BY <1>5, QuietStep
<1>. QED
  BY <1>1, <1>2, <1>3, <1>4, <1>5 DEF Next

LEMMA InitInv == Init => Inv
<1> SUFFICES ASSUME Init PROVE Inv
  OBVIOUS
<1>1. Types
  <2>1. g_msgq \in Seq(Message)
    BY DEF Init
  <2>2. /\ ety \in [Eid -> [at : Spot, lv : {0, 1}] \union {None}]
        /\ placed \in [Eid -> [at : Spot] \union {None}]
        /\ eye \in [Pid -> [at : Spot, lv : {0, 1}, old : BOOLEAN] \union {None}]
    BY DEF Init
  <2>3. linking = FALSE /\ slipped = FALSE
    BY DEF Init
  <2>. QED
    BY <2>1, <2>2, <2>3 DEF Types
<1>2. Counted
  <2>1. {p \in Pid : eye[p] # None} = {}
    BY DEF Init
  <2>. QED
    BY <2>1, FS_EmptySet DEF Init, Counted
<1>3. \A e, i : Stop(e, i) <=> i = 0
  BY DEF Init, Stop
<1>4. \A e \in Eid : At(e, 0) = {} /\ CellsOf(placed[e]) = {}
  BY DEF Init, At, CellsOf
<1>5. Kept /\ Apart /\ Marked
  BY <1>3, <1>4 DEF Kept, Apart, Marked
<1>6. NoOther
  BY DEF Init, NoOther
<1>7. Placed
  <2>1. \A e \in Eid : Final(e, 0) /\ CellsOf(placed[e]) = At(e, 0)
    BY <1>3, <1>4 DEF Final
  <2>. QED
    BY <2>1 DEF Placed
<1>. QED
  BY <1>1, <1>2, <1>5, <1>6, <1>7 DEF Inv, Marks

LEMMA InvMarks == Inv => MarksAgree
<1> SUFFICES ASSUME Inv, ~slipped
             PROVE  /\ NoOverlap
                    /\ \A e \in Eid : CellsOf(ety[e]) \subseteq gLand
                    /\ g_msgq = << >> => gLand = UNION {CellsOf(ety[e]) : e \in Eid}
                    /\ g_eye_count = Cardinality({p \in Pid : eye[p] # None})
  BY DEF MarksAgree
<1>1. Marks
  BY DEF Inv
<1>2. NoOverlap
  <2> SUFFICES ASSUME NEW e \in Eid, NEW f \in Eid, e # f,
                      NEW c, c \in CellsOf(placed[e]), c \in CellsOf(placed[f])
               PROVE  FALSE
    BY DEF NoOverlap
  <2>1. PICK i \in Nat : Final(e, i) /\ CellsOf(placed[e]) = At(e, i)
    BY <1>1 DEF Marks, Placed
  <2>2. PICK j \in Nat : Final(f, j) /\ CellsOf(placed[f]) = At(f, j)
    BY <1>1 DEF Marks, Placed
  <2>. QED
    BY <1>1, <2>1, <2>2 DEF Marks, Apart, Final
<1>3. ASSUME NEW e \in Eid, NEW c, c \in CellsOf(ety[e]) PROVE c \in gLand
  <2>1. Stop(e, 0) /\ c \in At(e, 0)
    BY <1>3 DEF Stop, At
  <2>2. c \in gLand \/ c \in Due
    BY <1>1, <2>1 DEF Marks, Marked
  <2>3. ASSUME c \in Due PROVE FALSE
    <3>1. linking /\ g_msgq # << >> /\ Msg.cmd = "ADD_ETY" /\ ety[Msg.id] = None /\ c \in Cells(Msg.at)
      BY <2>3 DEF Due, Inv, Types
    <3>2. Msg.id \in Eid /\ Stop(Msg.id, 1) /\ c \in At(Msg.id, 1)
      BY <3>1, MsgIs DEF Inv, Stop, Moves, At, CellsBy
    <3>3. e = Msg.id
      BY <1>1, <2>1, <3>2 DEF Marks, Apart
    <3>. QED
      BY <1>3, <3>1, <3>3 DEF CellsOf
  <2>. QED
    BY <2>2, <2>3
<1>4. ASSUME g_msgq = << >> PROVE gLand = UNION {CellsOf(ety[e]) : e \in Eid}
  <2>1. \A e, i : Stop(e, i) => i = 0
    BY <1>4 DEF Stop
  <2>2. \A c \in gLand : \E e \in Eid : c \in CellsOf(ety[e])
    BY <1>1, <2>1 DEF Marks, NoOther, At
  <2>. QED
    BY <1>3, <2>2
<1>. QED
  BY <1>2, <1>3, <1>4 DEF Inv, Counted

(* On any map, with any entities and any number of messages on their way:  *)
(* unless Lua looked for a place while the roi thread was between freeing  *)
(* and marking, no two entities are on one cell, no cell of an entity is   *)
(* unmarked, none is marked that is nobody's once the roi thread has       *)
(* caught up, and g_eye_count counts the eyes (world.c: gLand, set_bit,    *)
(* clear_bit, add_ety_to_link, g_eye_count).                               *)
THEOREM MarksAgreeHolds == Spec => []MarksAgree
<1>. QED
  BY InitInv, NextInv, InvMarks, PTL DEF Spec
-----------------------------------------------------------------------------
(* What a player is told.  First the packets and what is read from them.   *)

Place == Spot \union {None}
Packet ==
  [type : {"ADD_ETY", "REM_ETY", "ADD_ETYS", "FORGET"}, what : SUBSET (Eid \X Place)]
    \union [type : {"AROUND"}, what : {{}}, of : Eid]
Knowledge == [Eid -> Place]

(* Induction, as the least number principle. *)
LEMMA LeastIn ==
  ASSUME NEW R, IsWellFoundedOn(R, Nat), \A x, y \in Nat : y < x => <<y, x>> \in R,
         NEW T, T \subseteq Nat, T # {}
  PROVE  \E x \in T : \A y \in T : x <= y
<1>1. PICK x \in T : \A y \in T : ~ (<<y, x>> \in R)
  BY WFMin, Zenon
<1>2. \A y \in T : ~(y < x)
  BY <1>1
<1>. QED
  BY <1>2

LEMMA LeastNat ==
  ASSUME NEW T, T \subseteq Nat, T # {}
  PROVE  \E x \in T : \A y \in T : x <= y
<1>1. \A x, y \in Nat : y < x => <<y, x>> \in OpToRel(<, Nat)
  BY DEF OpToRel
<1>. QED
  BY <1>1, NatLessThanWellFounded, LeastIn, Zenon

LEMMA MaxIs ==
  ASSUME NEW n \in Nat, NEW A, A \subseteq 1..n, A # {}
  PROVE  Max(A) \in A
<1>. DEFINE T == {n - i : i \in A}
<1>1. PICK x \in T : \A y \in T : x <= y
  <2>1. \A i \in A : n - i \in Nat
    OBVIOUS
  <2>2. T \subseteq Nat /\ T # {}
    BY <2>1
  <2>. HIDE DEF T
  <2>. QED
    BY <2>2, LeastNat
<1>2. PICK i \in A : x = n - i
  OBVIOUS
<1>3. \A j \in A : n - j \in T
  OBVIOUS
<1>4. \A j \in A : n - i <= n - j
  BY <1>1, <1>2, <1>3
<1>5. \A j \in A : i >= j
  BY <1>4
<1>. QED
  BY <1>5 DEF Max

(* A packet on top of others: it says what it is about, the others the     *)
(* rest; what was read before it is the same.                              *)
LEMMA ReadAppend ==
  ASSUME NEW known, NEW ns \in Seq(Packet), NEW n \in Packet
  PROVE  /\ Append(ns, n) \in Seq(Packet)
         /\ \A i \in 0..Len(ns) : ReadTo(known, Append(ns, n), i) = ReadTo(known, ns, i)
         /\ \A e \in Eid : Read(known, Append(ns, n))[e] = IF About(n, e) THEN Says(n, e) ELSE Read(known, ns)[e]
         /\ Read(known, Append(ns, n)) = [e \in Eid |-> IF About(n, e) THEN Says(n, e) ELSE Read(known, ns)[e]]
<1>. DEFINE l == Len(ns)
            s == Append(ns, n)
            In(r, i, e) == {j \in 1..i : About(r[j], e)}
<1>1. l \in Nat /\ s \in Seq(Packet) /\ Len(s) = l + 1 /\ s[l + 1] = n /\ \A i \in 1..l : s[i] = ns[i]
  OBVIOUS
<1>. HIDE DEF l, s
<1>2. ASSUME NEW i \in 0..l, NEW e
      PROVE  In(s, i, e) = In(ns, i, e) /\ (In(s, i, e) # {} => s[Max(In(s, i, e))] = ns[Max(In(s, i, e))])
  <2>1. \A j \in 1..i : s[j] = ns[j]
    BY <1>1
  <2>2. In(s, i, e) = In(ns, i, e)
    BY <2>1
  <2>3. In(s, i, e) # {} => Max(In(s, i, e)) \in 1..i
    <3>1. In(s, i, e) \subseteq 1..i /\ i \in Nat
      BY <1>1
    <3>. HIDE DEF In
    <3>. QED
      BY <3>1, MaxIs
  <2>. QED
    BY <2>1, <2>2, <2>3
<1>3. ASSUME NEW i \in 0..l PROVE ReadTo(known, s, i) = ReadTo(known, ns, i)
  <2>1. \A r : ReadTo(known, r, i) =
               [e \in Eid |-> IF In(r, i, e) = {} THEN known[e] ELSE Says(r[Max(In(r, i, e))], e)]
    BY DEF ReadTo
  <2>. HIDE DEF In
  <2>. QED
    BY <1>2, <2>1
<1>4. ASSUME NEW e \in Eid
      PROVE  Read(known, s)[e] = IF About(n, e) THEN Says(n, e) ELSE Read(known, ns)[e]
  <2>1. Read(known, s)[e] = IF In(s, l + 1, e) = {} THEN known[e] ELSE Says(s[Max(In(s, l + 1, e))], e)
    BY <1>1 DEF Read, ReadTo
  <2>2. Read(known, ns)[e] = IF In(ns, l, e) = {} THEN known[e] ELSE Says(ns[Max(In(ns, l, e))], e)
    BY DEF Read, ReadTo, l
  <2>3. CASE About(n, e)
    <3>1. l + 1 \in In(s, l + 1, e) /\ \A j \in In(s, l + 1, e) : j \in Int /\ l + 1 >= j
      BY <1>1, <2>3
    <3>2. Max(In(s, l + 1, e)) = l + 1
      <4>. DEFINE A == In(s, l + 1, e)
      <4>. HIDE DEF A
      <4>1. l + 1 \in A /\ \A j \in A : j \in Int /\ l + 1 >= j
        BY <3>1 DEF A
      <4>2. Max(A) = l + 1
        BY <1>1, <4>1 DEF Max
      <4>. QED
        BY <4>2 DEF A
    <3>. QED
      BY <1>1, <2>1, <2>3, <3>1, <3>2
  <2>4. CASE ~About(n, e)
    <3>1. In(s, l + 1, e) = In(s, l, e)
      BY <1>1, <2>4
    <3>2. l \in 0..l
      BY <1>1
    <3>. HIDE DEF In
    <3>. QED
      BY <1>2, <2>1, <2>2, <2>4, <3>1, <3>2
  <2>. QED
    BY <2>3, <2>4
<1>5. Read(known, s) = [e \in Eid |-> Read(known, s)[e]]
  BY DEF Read, ReadTo
<1>. QED
  BY <1>1, <1>3, <1>4, <1>5 DEF l, s

LEMMA ReadNothing ==
  ASSUME NEW known \in Knowledge
  PROVE  << >> \in Seq(Packet) /\ Read(known, << >>) = known
<1>1. \A e : {i \in 1..0 : About(<< >>[i], e)} = {}
  OBVIOUS
<1>. QED
  BY <1>1 DEF Read, ReadTo, Knowledge

(* The packets of the roi thread. *)
LEMMA NoteIs ==
  ASSUME NEW id \in Eid, NEW at \in Place, NEW type \in {"ADD_ETY", "REM_ETY"},
         NEW n, n = [type |-> type, what |-> {<<id, at>>}]
  PROVE  n \in Packet /\ \A e : (About(n, e) <=> e = id) /\ (About(n, e) => Says(n, e) = at)
<1>1. n \in Packet
  BY DEF Packet
<1>2. n.what = {<<id, at>>}
  OBVIOUS
<1>3. \A e : About(n, e) <=> e = id
  <2>1. \A w : w \in n.what <=> w = <<id, at>>
    BY <1>2
  <2>2. <<id, at>>[1] = id
    OBVIOUS
  <2>. QED
    BY <2>1, <2>2, Zenon DEF About
<1>4. Says(n, id) = at
  <2>1. \A w \in n.what : w = <<id, at>>
    BY <1>2
  <2>2. (CHOOSE w \in n.what : w[1] = id) = <<id, at>>
    BY <1>2, <2>1
  <2>. QED
    BY <2>2 DEF Says
<1>. QED
  BY <1>1, <1>3, <1>4

LEMMA EntitiesAre ==
  ASSUME NEW S, S \subseteq Eid, NEW f \in [S -> Place], NEW type \in {"ADD_ETYS", "FORGET"},
         NEW n, n = [type |-> type, what |-> {<<e, f[e]>> : e \in S}]
  PROVE  n \in Packet /\ \A e \in Eid : (About(n, e) <=> e \in S) /\ (About(n, e) => Says(n, e) = f[e])
<1>1. n \in Packet
  BY DEF Packet
<1>2. n.what = {<<e, f[e]>> : e \in S}
  OBVIOUS
<1>3. \A w : w \in n.what => w[1] \in S /\ w = <<w[1], f[w[1]]>>
  BY <1>2
<1>4. \A e \in S : <<e, f[e]>> \in n.what /\ <<e, f[e]>>[1] = e
  BY <1>2
<1>5. \A e : About(n, e) <=> e \in S
  <2>1. ASSUME NEW e, About(n, e) PROVE e \in S
    <3>1. PICK w \in n.what : w[1] = e
      BY <2>1 DEF About
    <3>. QED
      BY <1>3, <3>1
  <2>2. ASSUME NEW e \in S PROVE About(n, e)
    <3>1. PICK w : w = <<e, f[e]>>
      OBVIOUS
    <3>. QED
      BY <1>4, <3>1 DEF About
  <2>. QED
    BY <2>1, <2>2
<1>6. ASSUME NEW e \in S PROVE Says(n, e) = f[e]
  <2>1. \A w \in n.what : w[1] = e => w = <<e, f[e]>>
    BY <1>3
  <2>2. (CHOOSE w \in n.what : w[1] = e) = <<e, f[e]>>
    BY <1>4, <2>1
  <2>. QED
    BY <2>2 DEF Says
<1>. QED
  BY <1>1, <1>5, <1>6
-----------------------------------------------------------------------------
(* How far two places are from each other, in blocks. *)

LEMMA DistIs ==
  ASSUME NEW p \in Spot, NEW q \in Spot
  PROVE  Dist(p, q) \in Nat /\ Dist(p, q) = Dist(q, p)
<1>. DEFINE a == Abs(Block(p)[1] - Block(q)[1])
            b == Abs(Block(p)[2] - Block(q)[2])
<1>1. /\ p[1] \in Int /\ p[2] \in Int /\ q[1] \in Int /\ q[2] \in Int
      /\ BlockWidth \in Nat \ {0}
  BY WorldAssumption
<1>2. /\ Block(p)[1] \in Int /\ Block(p)[2] \in Int /\ Block(q)[1] \in Int /\ Block(q)[2] \in Int
  BY <1>1 DEF Block
<1>3. a \in Nat /\ b \in Nat
  BY <1>2 DEF Abs
<1>4. a = Abs(Block(q)[1] - Block(p)[1]) /\ b = Abs(Block(q)[2] - Block(p)[2])
  BY <1>2 DEF Abs
<1>5. {Abs(Block(p)[i] - Block(q)[i]) : i \in {1, 2}} = {a, b}
  OBVIOUS
<1>6. {Abs(Block(q)[i] - Block(p)[i]) : i \in {1, 2}} = {a, b}
  BY <1>4
<1>7. Max({a, b}) \in {a, b}
  <2>. HIDE DEF a, b
  <2>1. \E x \in {a, b} : \A y \in {a, b} : x >= y
    BY <1>3
  <2>. QED
    BY <2>1 DEF Max
<1>. QED
  BY <1>3, <1>5, <1>6, <1>7 DEF Dist

(* It depends only on the blocks. *)
LEMMA DistBlocks ==
  ASSUME NEW p, NEW q, NEW r, Block(q) = Block(r)
  PROVE  Dist(p, q) = Dist(p, r) /\ Dist(q, p) = Dist(r, p)
  BY DEF Dist

LEMMA ReachIs == \A lv : Reach(lv) \in Nat
  BY DEF Reach, RANGE_DETAIL, RANGE_GLOBAL

-----------------------------------------------------------------------------
(* Where the messages put an entity: None is nowhere. *)

Put(e, i) ==
  IF i = 0 THEN IF ety[e] = None THEN None ELSE ety[e].at
  ELSE IF g_msgq[i].cmd = "ADD_ETY" THEN g_msgq[i].at ELSE None
PlaceOf(e) == IF placed[e] = None THEN None ELSE placed[e].at

(* From a place to another by way of nowhere, but for what Lua has put     *)
(* elsewhere.                                                              *)
SamePlace ==
  \A e \in Eid : e \notin moved => \A i, j \in Nat :
    /\ Stop(e, i) /\ Stop(e, j) /\ i < j
    /\ \A k \in Nat : Stop(e, k) => ~(i < k /\ k < j)
    /\ Put(e, i) # None /\ Put(e, j) # None
    => Put(e, i) = Put(e, j)

(* Lua has an entity where the last message puts it. *)
PlacedAt == \A e \in Eid : \E i \in Nat : Final(e, i) /\ Put(e, i) = PlaceOf(e)

Levels == \A e \in Eid : ety[e] # None => ety[e].lv = IF e \in Upper THEN 1 ELSE 0

Ways == SamePlace /\ PlacedAt /\ Levels

-----------------------------------------------------------------------------
(* What a player knows, with what is on its way. *)

Known(p) == Read(told[p], snapshot[p])

StandsAt(e, at) ==
  \/ ety[e] # None /\ ety[e].at = at
  \/ linking /\ Msg.id = e /\ Msg.at = at

(* All it sees; of what it knows nothing out of its reach or below its     *)
(* level; and what it knows is there.                                      *)
Agrees(p) ==
  \A e \in Eid :
    /\ ety[e] # None /\ Sees(eye[p], ety[e]) => Known(p)[e] = ety[e].at
    /\ Known(p)[e] # None =>
         /\ Dist(Known(p)[e], eye[p].at) <= Reach(eye[p].lv)
         /\ eye[p].lv = 0 \/ e \in Upper
         /\ e \notin moved => StandsAt(e, Known(p)[e])

(* A packet for those around an entity that the eye is told of comes after *)
(* one that tells of it.                                                   *)
AllKnown(known, ns, shown) ==
  \A i \in DOMAIN ns :
    ns[i].type = "AROUND" /\ ns[i].of \in shown => ReadTo(known, ns, i - 1)[ns[i].of] # None
AroundKnown(p) == AllKnown(told[p], snapshot[p], Shown(eye[p]))

Packets ==
  /\ snapshot \in [Pid -> Seq(Packet)] /\ told \in [Pid -> Knowledge]
  /\ \A p \in Pid : Known(p) \in Knowledge

Views == \A p \in Pid : UpToDate(p) => Agrees(p) /\ AroundKnown(p)

ViewInv == Ways /\ Packets /\ Views

-----------------------------------------------------------------------------
(* One more packet for a player. *)
LEMMA AllKnownAppend ==
  ASSUME NEW known, NEW ns \in Seq(Packet), NEW n \in Packet, NEW shown,
         AllKnown(known, ns, shown),
         n.type = "AROUND" /\ n.of \in shown => Read(known, ns)[n.of] # None
  PROVE  AllKnown(known, Append(ns, n), shown)
<1>. DEFINE t == Append(ns, n)
<1>1. \A i \in 0..Len(ns) : ReadTo(known, t, i) = ReadTo(known, ns, i)
  BY ReadAppend
<1>2. /\ DOMAIN ns = 1..Len(ns) /\ Len(ns) \in Nat /\ DOMAIN t = 1..(Len(ns) + 1) /\ t[Len(ns) + 1] = n
      /\ \A i \in 1..Len(ns) : t[i] = ns[i]
  OBVIOUS
<1>. HIDE DEF t
<1>3. ASSUME NEW i \in DOMAIN t, t[i].type = "AROUND", t[i].of \in shown
      PROVE  ReadTo(known, t, i - 1)[t[i].of] # None
  <2>1. CASE i \in DOMAIN ns
    <3>1. i - 1 \in 0..Len(ns) /\ t[i] = ns[i]
      BY <1>2, <2>1
    <3>2. ReadTo(known, ns, i - 1)[ns[i].of] # None
      BY <1>3, <2>1, <3>1 DEF AllKnown
    <3>. QED
      BY <1>1, <3>1, <3>2
  <2>2. CASE i = Len(ns) + 1
    <3>1. i - 1 = Len(ns) /\ t[i] = n /\ i - 1 \in 0..Len(ns)
      BY <1>2, <2>2
    <3>2. ReadTo(known, t, i - 1) = Read(known, ns)
      BY <1>1, <3>1 DEF Read
    <3>. QED
      BY <1>3, <3>1, <3>2
  <2>. QED
    BY <1>2, <2>1, <2>2
<1>. QED
  BY <1>3 DEF AllKnown, t

LEMMA Sent ==
  ASSUME Packets, NEW p \in Pid, NEW n \in Packet,
         told' = told, snapshot'[p] = Append(snapshot[p], n)
  PROVE  /\ snapshot'[p] \in Seq(Packet)
         /\ Known(p)' = [e \in Eid |-> IF About(n, e) THEN Says(n, e) ELSE Known(p)[e]]
         /\ /\ eye'[p].lv = eye[p].lv /\ AroundKnown(p)
            /\ n.type = "AROUND" /\ n.of \in Shown(eye[p]) => Known(p)[n.of] # None
            => AroundKnown(p)'
<1>1. snapshot[p] \in Seq(Packet)
  BY DEF Packets
<1>2. /\ snapshot'[p] \in Seq(Packet)
      /\ Known(p)' = [e \in Eid |-> IF About(n, e) THEN Says(n, e) ELSE Known(p)[e]]
  <2>1. Known(p)' = Read(told[p], Append(snapshot[p], n))
    BY DEF Known
  <2>2. Known(p) = Read(told[p], snapshot[p])
    BY DEF Known
  <2>3. /\ Append(snapshot[p], n) \in Seq(Packet)
        /\ Read(told[p], Append(snapshot[p], n)) =
             [e \in Eid |-> IF About(n, e) THEN Says(n, e) ELSE Read(told[p], snapshot[p])[e]]
    BY <1>1, ReadAppend
  <2>. QED
    BY <2>1, <2>2, <2>3
<1>3. ASSUME eye'[p].lv = eye[p].lv, AroundKnown(p),
             n.type = "AROUND" /\ n.of \in Shown(eye[p]) => Known(p)[n.of] # None
      PROVE  AroundKnown(p)'
  <2>1. PICK shown : shown = Shown(eye[p])
    OBVIOUS
  <2>2. Shown(eye'[p]) = shown
    BY <1>3, <2>1 DEF Shown
  <2>3. AllKnown(told[p], snapshot[p], shown)
    BY <1>3, <2>1 DEF AroundKnown
  <2>4. AllKnown(told[p], Append(snapshot[p], n), shown)
    BY <1>1, <1>3, <2>1, <2>3, AllKnownAppend DEF Known
  <2>. QED
    BY <2>2, <2>4 DEF AroundKnown
<1>. QED
  BY <1>2, <1>3

LEMMA NotSent ==
  ASSUME NEW p, told'[p] = told[p], snapshot'[p] = snapshot[p], eye'[p].lv = eye[p].lv
  PROVE  Known(p)' = Known(p) /\ (AroundKnown(p)' <=> AroundKnown(p))
  BY DEF Known, AroundKnown, Shown

(* The removal of an eye stays posted until it is taken. *)
LEMMA PostedAppend ==
  ASSUME Types, NEW m \in Message, g_msgq' = Append(g_msgq, m), NEW p, Posted("REM_EYE", p)
  PROVE  Posted("REM_EYE", p)'
<1>1. \A i \in DOMAIN g_msgq : i \in DOMAIN g_msgq' /\ g_msgq'[i] = g_msgq[i]
  BY AppendIs DEF Types
<1>. QED
  BY <1>1 DEF Posted

LEMMA PostedTail ==
  ASSUME Types, g_msgq # << >>, NEW r \in Seq(Message), g_msgq' = Tail(g_msgq) \o r, NEW p
  PROVE  /\ Posted("REM_EYE", p) /\ ~(Msg.cmd = "REM_EYE" /\ Msg.id = p) => Posted("REM_EYE", p)'
         /\ \A i \in DOMAIN r : r[i].cmd = "REM_EYE" /\ r[i].id = p => Posted("REM_EYE", p)'
<1>. DEFINE q == g_msgq
            s == Tail(q) \o r
            n == Len(q)
<1>1. /\ q \in Seq(Message) /\ n \in Nat \ {0} /\ DOMAIN q = 1..n /\ Tail(q) \in Seq(Message) /\ Len(Tail(q)) = n - 1
      /\ Head(q) = q[1] /\ Len(r) \in Nat /\ DOMAIN r = 1..Len(r)
  BY DEF Types
<1>2. \A i \in 1..(n - 1) : Tail(q)[i] = q[i + 1]
  BY <1>1
<1>3. /\ s \in Seq(Message) /\ Len(s) = n - 1 + Len(r) /\ DOMAIN s = 1..Len(s)
      /\ \A i \in 1..Len(s) : s[i] = IF i <= n - 1 THEN Tail(q)[i] ELSE r[i - (n - 1)]
  BY <1>1, ConcatProperties
<1>4. g_msgq' = s
  OBVIOUS
<1>. HIDE DEF s, n
<1>5. ASSUME NEW i \in DOMAIN q, q[i].cmd = "REM_EYE", q[i].id = p, ~(Msg.cmd = "REM_EYE" /\ Msg.id = p)
      PROVE  Posted("REM_EYE", p)'
  <2>1. i # 1
    BY <1>1, <1>5 DEF Msg
  <2>2. PICK j : j = i - 1
    OBVIOUS
  <2>3. j \in 1..(n - 1) /\ j + 1 = i /\ j \in 1..Len(s)
    BY <1>1, <1>3, <2>1, <2>2
  <2>4. s[j] = q[i]
    BY <1>2, <1>3, <2>3
  <2>. QED
    BY <1>3, <1>4, <1>5, <2>3, <2>4 DEF Posted
<1>6. ASSUME NEW i \in DOMAIN r, r[i].cmd = "REM_EYE", r[i].id = p
      PROVE  Posted("REM_EYE", p)'
  <2>1. PICK j : j = n - 1 + i
    OBVIOUS
  <2>2. j \in 1..Len(s) /\ ~(j <= n - 1) /\ j - (n - 1) = i
    BY <1>1, <1>3, <2>1
  <2>3. s[j] = r[i]
    BY <1>3, <2>2
  <2>. QED
    BY <1>3, <1>4, <1>6, <2>2, <2>3 DEF Posted
<1>. QED
  BY <1>5, <1>6 DEF Posted
-----------------------------------------------------------------------------
(* The places of the entities, step by step. *)

PutBy(m) == IF m.cmd = "ADD_ETY" THEN m.at ELSE None

LEMMA PostsPut ==
  ASSUME Types, NEW m \in Message, Posts(m)
  PROVE  /\ \A e, i : Stop(e, i) => Put(e, i)' = Put(e, i)
         /\ \A e, i : i = Len(g_msgq) + 1 => Put(e, i)' = PutBy(m)
<1>1. /\ Len(g_msgq) \in Nat /\ \A i \in DOMAIN g_msgq : g_msgq'[i] = g_msgq[i]
      /\ g_msgq'[Len(g_msgq) + 1] = m
  BY AppendIs DEF Types, Posts
<1>2. \A e, i : Stop(e, i) => Put(e, i)' = Put(e, i)
  BY <1>1 DEF Stop, Put, Posts
<1>3. \A e, i : i = Len(g_msgq) + 1 => Put(e, i)' = PutBy(m)
  BY <1>1 DEF Put, PutBy
<1>. QED
  BY <1>2, <1>3

LEMMA WaysNeutral ==
  ASSUME Types, Ways, NEW m \in Message, Neutral(m), Posts(m), moved' = moved, placed' = placed
  PROVE  Ways'
<1>1. /\ \A e, i : Stop(e, i)' <=> Stop(e, i)
      /\ \A e, i : Stop(e, i) => Put(e, i)' = Put(e, i)
  BY PostsAt, PostsPut DEF Neutral, Moves
<1>2. SamePlace'
  BY <1>1 DEF Ways, SamePlace
<1>3. PlacedAt'
  BY <1>1 DEF Ways, PlacedAt, Final, PlaceOf
<1>4. Levels'
  BY DEF Ways, Levels, Posts
<1>. QED
  BY <1>2, <1>3, <1>4 DEF Ways

(* Lua puts entity e somewhere or nowhere: if it goes from a place to      *)
(* another it is one that moved.                                           *)
LEMMA WaysMoved ==
  ASSUME Types, Ways, NEW m \in Message, Posts(m), NEW e \in Eid, \A f : Moves(m, f) <=> f = e,
         PlaceOf(e)' = PutBy(m), \A f \in Eid : f # e => PlaceOf(f)' = PlaceOf(f),
         moved \subseteq moved',
         e \notin moved' => PutBy(m) = None \/ PlaceOf(e) = None \/ PlaceOf(e) = PutBy(m)
  PROVE  Ways'
<1>. DEFINE n == Len(g_msgq)
<1>1. /\ n \in Nat
      /\ \A f, i : Stop(f, i)' <=> Stop(f, i) \/ (i = n + 1 /\ f = e)
      /\ \A f, i : Stop(f, i) => i \in Nat /\ i <= n /\ Put(f, i)' = Put(f, i)
      /\ \A f, i : i = n + 1 => Put(f, i)' = PutBy(m)
  BY PostsAt, PostsPut
<1>. HIDE DEF n
<1>2. PICK l \in Nat : Final(e, l) /\ Put(e, l) = PlaceOf(e)
  BY DEF Ways, PlacedAt
<1>3. SamePlace'
  <2> SUFFICES ASSUME NEW f \in Eid, f \notin moved', NEW i \in Nat, NEW j \in Nat,
                      Stop(f, i)', Stop(f, j)', i < j,
                      \A k \in Nat : Stop(f, k)' => ~(i < k /\ k < j),
                      Put(f, i)' # None, Put(f, j)' # None
               PROVE  Put(f, i)' = Put(f, j)'
    BY DEF SamePlace
  <2>1. j <= n + 1
    BY <1>1
  <2>2. Stop(f, i) /\ Put(f, i)' = Put(f, i)
    BY <1>1, <2>1
  <2>3. CASE Stop(f, j)
    BY <1>1, <2>2, <2>3 DEF Ways, SamePlace
  <2>4. CASE ~Stop(f, j)
    <3>1. f = e /\ j = n + 1 /\ Put(f, j)' = PutBy(m)
      BY <1>1, <2>4
    <3>2. i <= l /\ Stop(e, l) /\ l <= n
      BY <1>1, <1>2, <2>2, <3>1 DEF Final
    <3>3. Stop(e, l)'
      BY <1>1, <3>2
    <3>4. i = l
      BY <1>1, <3>1, <3>2, <3>3
    <3>. QED
      BY <1>2, <2>2, <3>1, <3>4
  <2>. QED
    BY <2>3, <2>4
<1>4. PlacedAt'
  <2> SUFFICES ASSUME NEW f \in Eid PROVE \E i \in Nat : Final(f, i)' /\ Put(f, i)' = PlaceOf(f)'
    BY DEF PlacedAt
  <2>1. CASE f = e
    <3>1. PICK i \in Nat : i = n + 1
      BY <1>1
    <3>2. Final(e, i)' /\ Put(e, i)' = PutBy(m)
      BY <1>1, <3>1 DEF Final
    <3>. QED
      BY <2>1, <3>2
  <2>2. CASE f # e
    <3>1. PICK i \in Nat : Final(f, i) /\ Put(f, i) = PlaceOf(f)
      BY DEF Ways, PlacedAt
    <3>2. Final(f, i)' /\ Put(f, i)' = Put(f, i)
      BY <1>1, <2>2, <3>1 DEF Final
    <3>. QED
      BY <2>2, <3>1, <3>2
  <2>. QED
    BY <2>1, <2>2
<1>5. Levels'
  BY DEF Ways, Levels, Posts
<1>. QED
  BY <1>3, <1>4, <1>5 DEF Ways

LEMMA TakenPut ==
  ASSUME Types, g_msgq # << >>, NEW r \in Seq(Message), \A i \in DOMAIN r : Neutral(r[i]),
         g_msgq' = Tail(g_msgq) \o r
  PROVE  \A e : \A i \in Nat \ {0} : Stop(e, i + 1) => Put(e, i)' = Put(e, i + 1)
<1>1. \A i \in Nat \ {0} : i + 1 \in DOMAIN g_msgq => g_msgq'[i] = g_msgq[i + 1]
  <2>1. g_msgq \in Seq(Message)
    BY DEF Types
  <2>. QED
    BY <2>1, TailIs, Zenon
<1>2. \A i \in Nat \ {0} : i # 0 /\ i + 1 # 0
  OBVIOUS
<1>. QED
  BY <1>1, <1>2 DEF Stop, Put

(* The first message is taken, and the entity it is about is where it      *)
(* puts it.                                                                *)
LEMMA WaysTaken ==
  ASSUME Types, Ways, g_msgq # << >>, NEW r \in Seq(Message), \A i \in DOMAIN r : Neutral(r[i]),
         g_msgq' = Tail(g_msgq) \o r, moved' = moved, placed' = placed,
         \A e \in Eid : Put(e, 0)' = IF Stop(e, 1) THEN Put(e, 1) ELSE Put(e, 0),
         Levels'
  PROVE  Ways'
<1>0. /\ \A e : \A i \in Nat \ {0} : Stop(e, i)' <=> Stop(e, i + 1)
      /\ \A e : \A i \in Nat \ {0} : Stop(e, i + 1) => Put(e, i)' = Put(e, i + 1)
  BY TakenIs, TakenPut DEF Taken
<1>1. \A e : Stop(e, 0) /\ Stop(e, 0)'
  BY DEF Stop
<1>2. \A e \in Eid, i \in Nat : Stop(e, i)' => /\ From(e, i) \in Nat /\ Stop(e, From(e, i))
                                            /\ Put(e, i)' = Put(e, From(e, i))
  BY <1>0, <1>1 DEF From
<1>3. \A e \in Eid, i, j \in Nat : i < j => From(e, i) < From(e, j)
  BY DEF From
<1>4. ASSUME NEW e \in Eid, NEW k \in Nat, Stop(e, k), Stop(e, 1) => k >= 1
      PROVE  \E j \in Nat : From(e, j) = k /\ Stop(e, j)'
  <2>1. CASE k \in {0, 1}
    BY <1>1, <1>4, <2>1 DEF From
  <2>2. CASE k \notin {0, 1}
    <3>1. PICK j \in Nat \ {0} : j + 1 = k
      <4>1. k - 1 \in Nat \ {0} /\ (k - 1) + 1 = k
        BY <2>2
      <4>. QED
        BY <4>1
    <3>. QED
      BY <1>0, <1>4, <3>1 DEF From
  <2>. QED
    BY <2>1, <2>2
<1>5. SamePlace'
  <2> SUFFICES ASSUME NEW e \in Eid, e \notin moved, NEW i \in Nat, NEW j \in Nat,
                      Stop(e, i)', Stop(e, j)', i < j,
                      \A k \in Nat : Stop(e, k)' => ~(i < k /\ k < j),
                      Put(e, i)' # None, Put(e, j)' # None
               PROVE  Put(e, i)' = Put(e, j)'
    BY DEF SamePlace
  <2>1. /\ From(e, i) \in Nat /\ Stop(e, From(e, i)) /\ Put(e, i)' = Put(e, From(e, i))
        /\ From(e, j) \in Nat /\ Stop(e, From(e, j)) /\ Put(e, j)' = Put(e, From(e, j))
        /\ From(e, i) < From(e, j)
    BY <1>2, <1>3
  <2>2. ASSUME NEW k \in Nat, Stop(e, k), From(e, i) < k, k < From(e, j)
        PROVE  FALSE
    <3>1. Stop(e, 1) => k >= 1
      BY <2>2 DEF From
    <3>2. PICK h \in Nat : From(e, h) = k /\ Stop(e, h)'
      BY <1>4, <2>2, <3>1
    <3>3. ~(h < i) /\ h # i /\ ~(j < h) /\ h # j
      <4>1. h < i => From(e, h) < From(e, i)
        BY <1>3
      <4>2. j < h => From(e, j) < From(e, h)
        BY <1>3
      <4>. QED
        BY <2>1, <2>2, <3>2, <4>1, <4>2
    <3>4. i < h /\ h < j
      BY <3>3
    <3>. QED
      BY <3>2, <3>4
  <2>. QED
    BY <2>1, <2>2 DEF Ways, SamePlace
<1>6. PlacedAt'
  <2> SUFFICES ASSUME NEW e \in Eid PROVE \E j \in Nat : Final(e, j)' /\ Put(e, j)' = PlaceOf(e)'
    BY DEF PlacedAt
  <2>1. PICK i \in Nat : Final(e, i) /\ Put(e, i) = PlaceOf(e)
    BY DEF Ways, PlacedAt
  <2>2. Stop(e, i) /\ (Stop(e, 1) => i >= 1)
    BY <2>1 DEF Final
  <2>3. PICK j \in Nat : From(e, j) = i /\ Stop(e, j)'
    BY <1>4, <2>2
  <2>4. ASSUME NEW k \in Nat, Stop(e, k)' PROVE k <= j
    <3>1. From(e, k) <= From(e, j) /\ From(e, k) \in Nat /\ From(e, j) \in Nat
      BY <1>2, <2>1, <2>3, <2>4 DEF Final
    <3>2. j < k => From(e, j) < From(e, k)
      BY <1>3
    <3>. QED
      BY <3>1, <3>2
  <2>5. Final(e, j)'
    BY <2>3, <2>4 DEF Final
  <2>6. Put(e, j)' = Put(e, i) /\ PlaceOf(e)' = PlaceOf(e)
    BY <1>2, <2>3 DEF PlaceOf
  <2>. QED
    BY <2>1, <2>5, <2>6
<1>. QED
  BY <1>5, <1>6 DEF Ways

(* A message about no entity. *)
LEMMA WaysOther ==
  ASSUME Types, Ways, g_msgq # << >>, Neutral(Msg), NEW r \in Seq(Message), \A i \in DOMAIN r : Neutral(r[i]),
         g_msgq' = Tail(g_msgq) \o r, moved' = moved, placed' = placed, ety' = ety
  PROVE  Ways'
<1>1. \A e : ~Stop(e, 1)
  BY MsgIs DEF Stop, Neutral, Moves
<1>2. \A e : Put(e, 0)' = Put(e, 0)
  BY DEF Put
<1>3. Levels'
  BY DEF Ways, Levels
<1>. QED
  BY <1>1, <1>2, <1>3, WaysTaken
-----------------------------------------------------------------------------
(* The steps of the Lua thread, and those that only deliver or age. *)

LEMMA AllRemoved ==
  ASSUME NEW S \in SUBSET Pid, NEW p \in S,
         NEW r, r = [i \in DOMAIN SetToSeq(S) |-> [cmd |-> "REM_EYE", id |-> SetToSeq(S)[i]]]
  PROVE  \E i \in DOMAIN r : r[i].cmd = "REM_EYE" /\ r[i].id = p
<1>. DEFINE n == Cardinality(S)
            X == [1..n -> S]
            f == SetToSeq(S)
<1>1. IsFiniteSet(S)
  BY FS_Subset, WorldAssumption
<1>2. n \in Nat /\ ExistsBijection(1..n, S)
  BY <1>1, FS_CardinalityType
<1>3. \E g \in X : IsInjective(g)
  BY <1>2 DEF ExistsBijection, Bijection, Injection
<1>4. f \in X /\ IsInjective(f)
  BY <1>3 DEF SetToSeq
<1>. HIDE DEF f
<1>5. f \in Injection(1..n, S)
  BY <1>4 DEF Injection, IsInjective
<1>6. Cardinality(1..n) = n
  BY <1>2, FS_Interval
<1>7. f \in Surjection(1..n, S)
  BY <1>1, <1>5, <1>6, FS_Injection
<1>8. PICK i \in 1..n : f[i] = p
  BY <1>7 DEF Surjection
<1>9. DOMAIN f = 1..n
  BY <1>4
<1>. QED
  BY <1>8, <1>9 DEF f

LEMMA AgreesKept ==
  ASSUME NEW p, Agrees(p), Known(p)' = Known(p), ety' = ety, moved \subseteq moved',
         eye'[p].at = eye[p].at, eye'[p].lv = eye[p].lv,
         linking => linking' /\ Msg' = Msg
  PROVE  Agrees(p)'
<1>1. \A e, at : StandsAt(e, at) => StandsAt(e, at)'
  BY DEF StandsAt
<1>2. \A x : Sees(eye[p], x)' <=> Sees(eye[p], x)
  BY DEF Sees
<1>. QED
  BY <1>1, <1>2 DEF Agrees

(* A message is posted by Lua. *)
LEMMA PostViews ==
  ASSUME Types, Packets, Views, NEW m \in Message, Posts(m), moved \subseteq moved',
         eye' = eye, snapshot' = snapshot, told' = told
  PROVE  Packets' /\ Views'
<1>1. Packets'
  BY DEF Packets, Known
<1>2. ASSUME NEW p \in Pid, UpToDate(p)' PROVE Agrees(p)' /\ AroundKnown(p)'
  <2>1. UpToDate(p)
    BY <1>2, PostedAppend DEF UpToDate, Posts
  <2>2. Known(p)' = Known(p) /\ (AroundKnown(p)' <=> AroundKnown(p))
    BY NotSent
  <2>3. linking => linking' /\ Msg' = Msg
    BY PostsAt DEF Posts
  <2>4. Agrees(p)'
    BY <2>1, <2>2, <2>3, AgreesKept DEF Posts, Views
  <2>. QED
    BY <2>1, <2>2, <2>4 DEF Views
<1>. QED
  BY <1>1, <1>2 DEF Views

LEMMA AddView ==
  ASSUME Inv, ViewInv, NEW e \in Eid, NEW at \in Spot, add_ety(e, at)
  PROVE  ViewInv'
<1>. DEFINE m == [cmd |-> "ADD_ETY", id |-> e, at |-> at]
<1>1. m \in Message /\ Posts(m) /\ PutBy(m) = at /\ \A f : Moves(m, f) <=> f = e
  BY DEF Message, Posts, add_ety, Post, PutBy, Moves
<1>2. /\ placed' = [placed EXCEPT ![e] = [at |-> at]] /\ eye' = eye /\ snapshot' = snapshot /\ told' = told
      /\ moved' = IF placed[e] = None \/ placed[e].at = at THEN moved ELSE moved \union {e}
  BY DEF add_ety
<1>. HIDE DEF m
<1>3. PlaceOf(e)' = at
  <2>1. placed'[e] = [at |-> at]
    BY <1>2 DEF Inv, Types
  <2>. QED
    BY <2>1, NotNone DEF PlaceOf
<1>4. \A f \in Eid : f # e => PlaceOf(f)' = PlaceOf(f)
  BY <1>2 DEF PlaceOf, Inv, Types
<1>5. moved \subseteq moved' /\ (e \notin moved' => PlaceOf(e) = None \/ PlaceOf(e) = at)
  BY <1>2 DEF PlaceOf
<1>6. Ways'
  BY <1>1, <1>3, <1>4, <1>5, WaysMoved DEF Inv, ViewInv
<1>7. Packets' /\ Views'
  BY <1>1, <1>2, <1>5, PostViews DEF Inv, ViewInv
<1>. QED
  BY <1>6, <1>7 DEF ViewInv

LEMMA RemView ==
  ASSUME Inv, ViewInv, NEW e \in Eid, rem_ety(e)
  PROVE  ViewInv'
<1>. DEFINE m == [cmd |-> "REM_ETY", id |-> e]
<1>1. m \in Message /\ Posts(m) /\ PutBy(m) = None /\ \A f : Moves(m, f) <=> f = e
  BY DEF Message, Posts, rem_ety, Post, PutBy, Moves
<1>2. /\ placed' = [placed EXCEPT ![e] = None] /\ eye' = eye /\ snapshot' = snapshot /\ told' = told
      /\ moved' = moved
  BY DEF rem_ety
<1>. HIDE DEF m
<1>3. PlaceOf(e)' = None /\ \A f \in Eid : f # e => PlaceOf(f)' = PlaceOf(f)
  BY <1>2 DEF PlaceOf, Inv, Types
<1>4. Ways'
  BY <1>1, <1>2, <1>3, WaysMoved DEF Inv, ViewInv
<1>5. Packets' /\ Views'
  BY <1>1, <1>2, PostViews DEF Inv, ViewInv
<1>. QED
  BY <1>4, <1>5 DEF ViewInv

LEMMA RequestView ==
  ASSUME Inv, ViewInv, EyeRequest \/ \E e \in Eid : roi_broadcast(e)
  PROVE  ViewInv'
<1>1. PICK m \in Message : Neutral(m) /\ g_msgq' = Append(g_msgq, m)
  <2>1. CASE EyeRequest
    <3>1. PICK p \in Pid : roi_add_eye(p) \/ roi_mov_eye(p) \/ roi_rem_eye(p)
      BY <2>1 DEF EyeRequest
    <3>2. CASE roi_add_eye(p)
      BY <3>2 DEF roi_add_eye, Post, Message, Neutral
    <3>3. CASE roi_mov_eye(p)
      BY <3>3 DEF roi_mov_eye, Post, Message, Neutral
    <3>4. CASE roi_rem_eye(p)
      BY <3>4 DEF roi_rem_eye, Post, Message, Neutral
    <3>. QED
      BY <3>1, <3>2, <3>3, <3>4
  <2>2. ASSUME NEW e \in Eid, roi_broadcast(e)
        PROVE  \E m \in Message : Neutral(m) /\ g_msgq' = Append(g_msgq, m)
    BY <2>2 DEF roi_broadcast, Post, Message, Neutral
  <2>. QED
    BY <2>1, <2>2
<1>2. /\ placed' = placed /\ ety' = ety /\ eye' = eye /\ linking' = linking /\ moved' = moved
      /\ snapshot' = snapshot /\ told' = told
  BY DEF EyeRequest, roi_broadcast
<1>3. Posts(m)
  BY <1>1, <1>2 DEF Posts
<1>4. Ways'
  BY <1>1, <1>2, <1>3, WaysNeutral DEF Inv, ViewInv
<1>5. Packets' /\ Views'
  BY <1>2, <1>3, PostViews DEF Inv, ViewInv
<1>. QED
  BY <1>4, <1>5 DEF ViewInv

(* The packets are read. *)
LEMMA PushView == ViewInv /\ push_msg => ViewInv'
<1> SUFFICES ASSUME ViewInv, push_msg PROVE ViewInv'
  OBVIOUS
<1>1. /\ told' = [p \in Pid |-> Known(p)] /\ snapshot' = [p \in Pid |-> << >>]
      /\ placed' = placed /\ ety' = ety /\ eye' = eye /\ linking' = linking /\ moved' = moved /\ g_msgq' = g_msgq
  BY DEF push_msg, history, Known
<1>2. Packets
  BY DEF ViewInv
<1>3. ASSUME NEW p \in Pid PROVE Known(p)' = Known(p)
  <2>1. told'[p] = Known(p) /\ snapshot'[p] = << >> /\ Known(p) \in Knowledge
    BY <1>1, <1>2 DEF Packets
  <2>2. Known(p)' = Read(told'[p], snapshot'[p])
    BY DEF Known
  <2>. QED
    BY <2>1, <2>2, ReadNothing
<1>4. Packets'
  <2>1. \A p \in Pid : Known(p)' \in Knowledge
    BY <1>2, <1>3 DEF Packets
  <2>2. told' \in [Pid -> Knowledge] /\ snapshot' \in [Pid -> Seq(Packet)]
    BY <1>1, <1>2 DEF Packets
  <2>. QED
    BY <2>1, <2>2 DEF Packets
<1>5. Ways'
  BY <1>1 DEF ViewInv, Ways, SamePlace, PlacedAt, Levels, Final, Stop, Put, PlaceOf
<1>6. ASSUME NEW p \in Pid, UpToDate(p)' PROVE Agrees(p)' /\ AroundKnown(p)'
  <2>1. UpToDate(p)
    BY <1>1, <1>6 DEF UpToDate, Posted
  <2>2. Agrees(p)'
    BY <1>1, <1>3, <2>1, AgreesKept DEF ViewInv, Views, Msg
  <2>3. AroundKnown(p)'
    BY <1>1 DEF AroundKnown, AllKnown
  <2>. QED
    BY <2>2, <2>3
<1>. QED
  BY <1>4, <1>5, <1>6 DEF ViewInv, Views

LEMMA AgesView ==
  ASSUME Inv, ViewInv, EyeAges \/ UNCHANGED vars
  PROVE  ViewInv'
<1>1. /\ told' = told /\ snapshot' = snapshot
      /\ placed' = placed /\ ety' = ety /\ linking' = linking /\ moved' = moved /\ g_msgq' = g_msgq
  BY DEF EyeAges, vars, history
<1>2. ASSUME NEW p \in Pid, eye'[p] # None
      PROVE  eye[p] # None /\ eye'[p].at = eye[p].at /\ eye'[p].lv = eye[p].lv
  <2>1. CASE EyeAges
    <3>1. PICK q \in Pid : eye[q] # None /\ eye' = [eye EXCEPT ![q].old = TRUE]
      BY <2>1 DEF EyeAges
    <3>2. eye[q] \in [at : Spot, lv : {0, 1}, old : BOOLEAN]
      BY <3>1 DEF Inv, Types
    <3>. QED
      BY <1>2, <3>1, <3>2 DEF Inv, Types
  <2>2. CASE UNCHANGED vars
    BY <1>2, <2>2 DEF vars
  <2>. QED
    BY <2>1, <2>2
<1>3. Packets'
  BY <1>1 DEF ViewInv, Packets, Known
<1>4. Ways'
  BY <1>1 DEF ViewInv, Ways, SamePlace, PlacedAt, Levels, Final, Stop, Put, PlaceOf
<1>5. ASSUME NEW p \in Pid, UpToDate(p)' PROVE Agrees(p)' /\ AroundKnown(p)'
  <2>1. UpToDate(p)
    BY <1>1, <1>2, <1>5 DEF UpToDate, Posted
  <2>3. eye'[p].at = eye[p].at /\ eye'[p].lv = eye[p].lv
    BY <1>2, <1>5 DEF UpToDate
  <2>2. Known(p)' = Known(p) /\ (AroundKnown(p)' <=> AroundKnown(p))
    BY <1>1, <2>3, NotSent
  <2>4. Agrees(p)'
    BY <1>1, <2>1, <2>2, <2>3, AgreesKept DEF ViewInv, Views, Msg
  <2>. QED
    BY <2>1, <2>2, <2>4 DEF ViewInv, Views
<1>. QED
  BY <1>3, <1>4, <1>5 DEF ViewInv, Views
-----------------------------------------------------------------------------
(* The steps of the roi thread. *)

LEMMA SaysPlace ==
  ASSUME NEW n \in Packet, NEW e, About(n, e)
  PROVE  Says(n, e) \in Place
<1>1. n.what \subseteq Eid \X Place
  BY DEF Packet
<1>2. \E w \in n.what : w[1] = e
  BY DEF About
<1>3. (CHOOSE w \in n.what : w[1] = e) \in n.what
  BY <1>2
<1>. QED
  BY <1>1, <1>3 DEF Says

LEMMA PacketsSent ==
  ASSUME Packets, told' = told, NEW s, snapshot' = [p \in Pid |-> s[p]],
         \A p \in Pid : s[p] = snapshot[p] \/ \E n \in Packet : s[p] = Append(snapshot[p], n)
  PROVE  Packets'
<1>1. ASSUME NEW p \in Pid PROVE snapshot'[p] \in Seq(Packet) /\ Known(p)' \in Knowledge
  <2>0. snapshot'[p] = s[p] /\ told'[p] = told[p]
    OBVIOUS
  <2>1. CASE s[p] = snapshot[p]
    BY <2>0, <2>1 DEF Packets, Known
  <2>2. ASSUME NEW n \in Packet, s[p] = Append(snapshot[p], n)
        PROVE  snapshot'[p] \in Seq(Packet) /\ Known(p)' \in Knowledge
    <3>1. /\ snapshot'[p] \in Seq(Packet)
          /\ Known(p)' = [e \in Eid |-> IF About(n, e) THEN Says(n, e) ELSE Known(p)[e]]
      BY <2>0, <2>2, Sent
    <3>2. \A e \in Eid : (IF About(n, e) THEN Says(n, e) ELSE Known(p)[e]) \in Place
      BY SaysPlace DEF Packets, Knowledge
    <3>. QED
      BY <3>1, <3>2 DEF Knowledge
  <2>. QED
    BY <2>1, <2>2
<1>2. snapshot' \in [Pid -> Seq(Packet)]
  BY <1>1
<1>. QED
  BY <1>1, <1>2 DEF Packets

LEMMA EtysAre ==
  ASSUME Types, NEW y, NEW new, new \subseteq Eid
  PROVE  /\ Etys(y, new) \in Packet /\ Etys(y, new).type = "ADD_ETYS"
         /\ \A e \in Eid : /\ About(Etys(y, new), e) <=> e \in new /\ ety[e] # None /\ Sees(y, ety[e])
                           /\ About(Etys(y, new), e) => Says(Etys(y, new), e) = ety[e].at
<1>. DEFINE S == {x \in new : ety[x] # None /\ Sees(y, ety[x])}
            f == [e \in S |-> ety[e].at]
<1>1. S \subseteq Eid /\ f \in [S -> Place]
  <2>1. \A e \in S : ety[e].at \in Place
    BY DEF Types, Place
  <2>. QED
    BY <2>1
<1>2. {<<e, ety[e].at>> : e \in S} = {<<e, f[e]>> : e \in S}
  OBVIOUS
<1>3. Etys(y, new) = [type |-> "ADD_ETYS", what |-> {<<e, f[e]>> : e \in S}]
  BY <1>2 DEF Etys
<1>4. \A e \in S : f[e] = ety[e].at
  OBVIOUS
<1>5. \A e : e \in S <=> e \in new /\ ety[e] # None /\ Sees(y, ety[e])
  OBVIOUS
<1>. HIDE DEF S, f
<1>6. PICK n : n = Etys(y, new)
  OBVIOUS
<1>7. /\ n \in Packet /\ n.type = "ADD_ETYS"
      /\ \A e \in Eid : (About(n, e) <=> e \in S) /\ (About(n, e) => Says(n, e) = f[e])
  BY <1>1, <1>3, <1>6, EntitiesAre
<1>. QED
  BY <1>4, <1>5, <1>6, <1>7

LEMMA ForgetsAre ==
  ASSUME NEW known \in Knowledge, NEW y
  PROVE  /\ Forgets(known, y) \in Packet /\ Forgets(known, y).type = "FORGET"
         /\ \A e \in Eid : /\ About(Forgets(known, y), e)
                                <=> known[e] # None /\ Dist(known[e], y.at) > Reach(y.lv)
                           /\ About(Forgets(known, y), e) => Says(Forgets(known, y), e) = None
<1>. DEFINE S == {x \in Eid : known[x] # None /\ Dist(known[x], y.at) > Reach(y.lv)}
            f == [e \in S |-> None]
<1>1. S \subseteq Eid /\ f \in [S -> Place]
  BY DEF Place
<1>2. {<<e, None>> : e \in S} = {<<e, f[e]>> : e \in S}
  OBVIOUS
<1>3. Forgets(known, y) = [type |-> "FORGET", what |-> {<<e, f[e]>> : e \in S}]
  BY <1>2 DEF Forgets
<1>4. \A e \in S : f[e] = None
  OBVIOUS
<1>5. \A e \in Eid : e \in S <=> known[e] # None /\ Dist(known[e], y.at) > Reach(y.lv)
  OBVIOUS
<1>. HIDE DEF S, f
<1>6. PICK n : n = Forgets(known, y)
  OBVIOUS
<1>7. /\ n \in Packet /\ n.type = "FORGET"
      /\ \A e \in Eid : (About(n, e) <=> e \in S) /\ (About(n, e) => Says(n, e) = f[e])
  BY <1>1, <1>3, <1>6, EntitiesAre
<1>. QED
  BY <1>4, <1>5, <1>6, <1>7

LEMMA NoneMore ==
  /\ << >> \in Seq(Message) /\ \A i \in DOMAIN << >> : Neutral(<< >>[i])
  /\ \A q \in Seq(Message) : q # << >> => Tail(q) = Tail(q) \o << >>
<1>1. \A q \in Seq(Message) : q # << >> => Tail(q) \in Seq(Message)
  OBVIOUS
<1>2. << >> \in Seq(Message) /\ \A i \in DOMAIN << >> : Neutral(<< >>[i])
  OBVIOUS
<1>. QED
  BY <1>1, <1>2, ConcatEmptySeq

(* What is posted for an eye that is not touched stays. *)
LEMMA TailPosted ==
  ASSUME Types, g_msgq # << >>, g_msgq' = Tail(g_msgq), NEW p, ~(Msg.cmd = "REM_EYE" /\ Msg.id = p),
         Posted("REM_EYE", p)
  PROVE  Posted("REM_EYE", p)'
<1>1. g_msgq \in Seq(Message)
  BY DEF Types
<1>2. g_msgq' = Tail(g_msgq) \o << >> /\ << >> \in Seq(Message)
  BY <1>1, NoneMore
<1>. QED
  BY <1>2, PostedTail

(* Those that watch a place are told, but for the old eyes, which are      *)
(* removed.                                                                *)
LEMMA EyesTold ==
  ASSUME Types, Packets, Views, NEW x, NEW id \in Eid, NEW at \in Place, NEW type \in {"ADD_ETY", "REM_ETY"},
         NEW note, note = [type |-> type, what |-> {<<id, at>>}],
         g_msgq # << >>, Msg.cmd # "REM_EYE", add_ety_to_eye(x, note), told' = told, eye' = eye
  PROVE  /\ Packets'
         /\ \A p \in Pid : UpToDate(p)' =>
              /\ UpToDate(p) /\ AroundKnown(p)'
              /\ \A e \in Eid : Known(p)'[e] = IF e = id /\ Sees(eye[p], x) THEN at ELSE Known(p)[e]
<1>. DEFINE S == OldEyes(x)
            r == [i \in DOMAIN SetToSeq(S) |-> [cmd |-> "REM_EYE", id |-> SetToSeq(S)[i]]]
            s == [p \in Pid |-> IF p \in Watching(x) \ S THEN Append(snapshot[p], note) ELSE snapshot[p]]
<1>1. snapshot' = s /\ g_msgq' = Tail(g_msgq) \o r
  BY DEF add_ety_to_eye
<1>2. S \in SUBSET Pid
  BY DEF OldEyes, Watching
<1>3. r \in Seq(Message)
  BY <1>2, RemovalsType
<1>4. note \in Packet /\ note.type # "AROUND"
      /\ \A e : (About(note, e) <=> e = id) /\ (About(note, e) => Says(note, e) = at)
  BY NoteIs
<1>5. \A p \in Pid : snapshot'[p] = IF p \in Watching(x) \ S THEN Append(snapshot[p], note) ELSE snapshot[p]
  BY <1>1
<1>6. Packets'
  <2>1. snapshot' = [p \in Pid |-> s[p]]
    BY <1>1
  <2>2. \A p \in Pid : s[p] = snapshot[p] \/ \E n \in Packet : s[p] = Append(snapshot[p], n)
    BY <1>4
  <2>. HIDE DEF s
  <2>. QED
    BY <2>1, <2>2, PacketsSent
<1>7. \A p \in S : \E i \in DOMAIN r : r[i].cmd = "REM_EYE" /\ r[i].id = p
  <2>1. PICK q : q = r
    OBVIOUS
  <2>. HIDE DEF S
  <2>2. \A p \in S : \E i \in DOMAIN q : q[i].cmd = "REM_EYE" /\ q[i].id = p
    BY <1>2, <2>1, AllRemoved
  <2>. HIDE DEF r
  <2>. QED
    BY <2>1, <2>2
<1>. HIDE DEF r, s
<1>8. ASSUME NEW p \in Pid, UpToDate(p)'
      PROVE  /\ UpToDate(p) /\ AroundKnown(p)'
             /\ \A e \in Eid : Known(p)'[e] = IF e = id /\ Sees(eye[p], x) THEN at ELSE Known(p)[e]
  <2>1. ~Posted("REM_EYE", p)' /\ eye[p] # None
    BY <1>8 DEF UpToDate
  <2>2. ~Posted("REM_EYE", p)
    BY <1>1, <1>3, <2>1, PostedTail
  <2>3. p \notin S
    BY <1>1, <1>3, <1>7, <2>1, PostedTail
  <2>4. UpToDate(p) /\ AroundKnown(p)
    BY <2>1, <2>2 DEF UpToDate, Views
  <2>5. CASE Sees(eye[p], x)
    <3>1. snapshot'[p] = Append(snapshot[p], note)
      BY <1>5, <2>1, <2>3, <2>5 DEF Watching
    <3>2. /\ Known(p)' = [e \in Eid |-> IF About(note, e) THEN Says(note, e) ELSE Known(p)[e]]
          /\ AroundKnown(p)'
      BY <1>4, <2>4, <3>1, Sent
    <3>. QED
      BY <1>4, <2>4, <2>5, <3>2
  <2>6. CASE ~Sees(eye[p], x)
    <3>1. snapshot'[p] = snapshot[p] /\ told'[p] = told[p]
      BY <1>5, <2>6 DEF Watching
    <3>. QED
      BY <2>4, <2>6, <3>1, NotSent
  <2>. QED
    BY <2>5, <2>6
<1>. QED
  BY <1>6, <1>8

(* The entity is taken out first: what a player knows of it is where the   *)
(* message puts it.                                                        *)
LEMMA AddEtyView == Inv /\ ViewInv /\ AddEty => ViewInv'
<1> SUFFICES ASSUME Inv, ViewInv, AddEty PROVE ViewInv'
  OBVIOUS
<1>0. PICK id : id = Msg.id
  OBVIOUS
<1>1. g_msgq # << >> /\ Msg.cmd = "ADD_ETY" /\ ~linking
  BY DEF AddEty, Handle, Msg
<1>2. /\ placed' = placed /\ linking' = TRUE /\ moved' = moved /\ g_msgq' = g_msgq
      /\ eye' = eye /\ snapshot' = snapshot /\ told' = told
      /\ ety' = [ety EXCEPT ![id] = None]
  BY <1>0 DEF AddEty, history
<1>3. id \in Eid /\ Msg.at \in Spot /\ Msg = g_msgq[1] /\ 1 \in DOMAIN g_msgq /\ Msg' = Msg
  BY <1>0, <1>1, <1>2, MsgIs DEF Inv, Msg
<1>4. ety'[id] = None /\ \A e \in Eid : e # id => ety'[e] = ety[e]
  BY <1>2, <1>3 DEF Inv, Types
<1>5. Stop(id, 0) /\ Stop(id, 1) /\ Put(id, 1) = Msg.at
  BY <1>0, <1>1, <1>3 DEF Stop, Moves, Put
<1>6. \A e, i : Stop(e, i)' <=> Stop(e, i)
  BY <1>2 DEF Stop
<1>7. /\ \A e, i : e \in Eid /\ ~(e = id /\ i = 0) => Put(e, i)' = Put(e, i)
      /\ \A i : i = 0 => Put(id, i)' = None
  BY <1>2, <1>4 DEF Put
<1>8. SamePlace'
  <2> SUFFICES ASSUME NEW e \in Eid, e \notin moved, NEW i \in Nat, NEW j \in Nat,
                      Stop(e, i)', Stop(e, j)', i < j,
                      \A k \in Nat : Stop(e, k)' => ~(i < k /\ k < j),
                      Put(e, i)' # None, Put(e, j)' # None
               PROVE  Put(e, i)' = Put(e, j)'
    BY <1>2 DEF SamePlace
  <2>1. Put(e, i)' = Put(e, i) /\ Put(e, j)' = Put(e, j)
    BY <1>7
  <2>. QED
    BY <1>6, <2>1 DEF ViewInv, Ways, SamePlace
<1>9. PlacedAt'
  <2> SUFFICES ASSUME NEW e \in Eid PROVE \E i \in Nat : Final(e, i)' /\ Put(e, i)' = PlaceOf(e)'
    BY DEF PlacedAt
  <2>1. PICK i \in Nat : Final(e, i) /\ Put(e, i) = PlaceOf(e)
    BY DEF ViewInv, Ways, PlacedAt
  <2>2. ~(e = id /\ i = 0)
    BY <1>5, <2>1 DEF Final
  <2>3. Put(e, i)' = Put(e, i) /\ PlaceOf(e)' = PlaceOf(e)
    BY <1>2, <1>7, <2>2 DEF PlaceOf
  <2>4. Final(e, i)'
    BY <1>6, <2>1 DEF Final
  <2>. QED
    BY <2>1, <2>3, <2>4
<1>10. Levels'
  BY <1>4 DEF ViewInv, Ways, Levels
<1>11. Packets'
  BY <1>2 DEF ViewInv, Packets, Known
<1>12. ASSUME NEW p \in Pid, UpToDate(p)' PROVE Agrees(p)' /\ AroundKnown(p)'
  <2>1. UpToDate(p)
    BY <1>2, <1>12 DEF UpToDate, Posted
  <2>2. Known(p)' = Known(p) /\ AroundKnown(p)' /\ Agrees(p)
    BY <1>2, <2>1, NotSent DEF ViewInv, Views
  <2>3. \A e \in Eid : e # id => (\A at : StandsAt(e, at) => StandsAt(e, at)')
    BY <1>1, <1>4 DEF StandsAt
  <2>4. ASSUME NEW at, at # None, id \notin moved, StandsAt(id, at) PROVE StandsAt(id, at)'
    <3>1. ety[id] # None /\ ety[id].at = at
      BY <1>1, <2>4 DEF StandsAt
    <3>2. Put(id, 0) = at
      BY <3>1 DEF Put
    <3>3. Msg.at # None
      BY <1>3, WorldAssumption
    <3>4. \A k \in Nat : ~(0 < k /\ k < 1)
      OBVIOUS
    <3>5. 0 \in Nat /\ 1 \in Nat /\ 0 < 1
      OBVIOUS
    <3>6. Put(id, 0) = Put(id, 1)
      BY <1>3, <1>5, <2>4, <3>2, <3>3, <3>4, <3>5 DEF ViewInv, Ways, SamePlace
    <3>7. Msg.at = at
      BY <1>5, <3>2, <3>6
    <3>. QED
      BY <1>0, <1>2, <1>3, <3>7 DEF StandsAt
  <2>5. \A y : Sees(eye[p], y)' <=> Sees(eye[p], y')
    BY <1>2 DEF Sees
  <2>6. Agrees(p)'
    <3> SUFFICES ASSUME NEW e \in Eid
                 PROVE  /\ ety'[e] # None /\ Sees(eye'[p], ety'[e]) => Known(p)'[e] = ety'[e].at
                        /\ Known(p)'[e] # None =>
                             /\ Dist(Known(p)'[e], eye'[p].at) <= Reach(eye'[p].lv)
                             /\ eye'[p].lv = 0 \/ e \in Upper
                             /\ e \notin moved' => StandsAt(e, Known(p)[e])'
      BY DEF Agrees
    <3>1. eye' = eye /\ moved' = moved /\ Known(p)'[e] = Known(p)[e]
      BY <1>2, <2>2
    <3>2. ety'[e] # None => e # id /\ ety'[e] = ety[e]
      BY <1>4
    <3>3. Known(p)[e] # None /\ e \notin moved => StandsAt(e, Known(p)[e])
      BY <2>2 DEF Agrees
    <3>4. Known(p)[e] # None /\ e \notin moved => StandsAt(e, Known(p)[e])'
      <4> SUFFICES ASSUME Known(p)[e] # None, e \notin moved PROVE StandsAt(e, Known(p)[e])'
        OBVIOUS
      <4>1. PICK at : at = Known(p)[e]
        OBVIOUS
      <4>2. StandsAt(e, at)'
        BY <2>3, <2>4, <3>3, <4>1
      <4>. QED
        BY <2>2, <4>1, <4>2 DEF StandsAt
    <3>. QED
      BY <2>2, <3>1, <3>2, <3>4 DEF Agrees
  <2>. QED
    BY <2>2, <2>6
<1>. QED
  BY <1>8, <1>9, <1>10, <1>11, <1>12 DEF ViewInv, Ways, Views

(* It is put in its block, and those that watch the block are told.        *)
LEMMA LinkEtyView == Inv /\ ViewInv /\ LinkEty => ViewInv'
<1> SUFFICES ASSUME Inv, ViewInv, LinkEty PROVE ViewInv'
  OBVIOUS
<1>0. PICK id, at : id = Msg.id /\ at = Msg.at
  OBVIOUS
<1>1. linking /\ g_msgq # << >> /\ Msg.cmd = "ADD_ETY" /\ ety[id] = None
  BY <1>0 DEF LinkEty, Inv, Types
<1>2. id \in Eid /\ at \in Spot /\ at # None /\ Msg = g_msgq[1] /\ 1 \in DOMAIN g_msgq
  BY <1>0, <1>1, MsgIs, WorldAssumption DEF Inv
<1>3. PICK x : x = [at |-> at, lv |-> IF id \in Upper THEN 1 ELSE 0]
  OBVIOUS
<1>4. /\ placed' = placed /\ linking' = FALSE /\ moved' = moved
      /\ eye' = eye /\ told' = told /\ ety' = [ety EXCEPT ![id] = x]
      /\ add_ety_to_eye(x, [type |-> "ADD_ETY", what |-> {<<id, at>>}])
  BY <1>0, <1>3 DEF LinkEty, history
<1>5. x \in [at : Spot, lv : {0, 1}] /\ x # None /\ x.at = at /\ x.lv = IF id \in Upper THEN 1 ELSE 0
  BY <1>2, <1>3, NotNone
<1>6. ety'[id] = x /\ \A e \in Eid : e # id => ety'[e] = ety[e]
  BY <1>2, <1>4 DEF Inv, Types
<1>7. Ways'
  <2>. DEFINE r == [i \in DOMAIN SetToSeq(OldEyes(x)) |-> [cmd |-> "REM_EYE", id |-> SetToSeq(OldEyes(x))[i]]]
  <2>1. g_msgq' = Tail(g_msgq) \o r
    BY <1>4 DEF add_ety_to_eye
  <2>2. r \in Seq(Message) /\ \A i \in DOMAIN r : Neutral(r[i])
    <3>1. OldEyes(x) \in SUBSET Pid
      BY DEF OldEyes, Watching
    <3>. QED
      BY <3>1, RemovalsType
  <2>. HIDE DEF r
  <2>3. \A e : Stop(e, 1) <=> e = id
    BY <1>0, <1>1, <1>2 DEF Stop, Moves
  <2>4. Put(id, 1) = at /\ Put(id, 0)' = at
    BY <1>0, <1>1, <1>2, <1>5, <1>6 DEF Put
  <2>5. \A e \in Eid : e # id => Put(e, 0)' = Put(e, 0)
    BY <1>6 DEF Put
  <2>6. \A e \in Eid : Put(e, 0)' = IF Stop(e, 1) THEN Put(e, 1) ELSE Put(e, 0)
    BY <2>3, <2>4, <2>5
  <2>7. Levels'
    BY <1>5, <1>6 DEF ViewInv, Ways, Levels
  <2>. QED
    BY <1>1, <1>4, <2>1, <2>2, <2>6, <2>7, WaysTaken DEF Inv, ViewInv
<1>8. /\ Packets'
      /\ \A p \in Pid : UpToDate(p)' =>
           /\ UpToDate(p) /\ AroundKnown(p)'
           /\ \A e \in Eid : Known(p)'[e] = IF e = id /\ Sees(eye[p], x) THEN at ELSE Known(p)[e]
  <2>1. at \in Place /\ Msg.cmd # "REM_EYE"
    BY <1>1, <1>2 DEF Place
  <2>2. PICK note : note = [type |-> "ADD_ETY", what |-> {<<id, at>>}]
    OBVIOUS
  <2>3. add_ety_to_eye(x, note)
    BY <1>4, <2>2
  <2>. QED
    BY <1>1, <1>2, <1>4, <2>1, <2>2, <2>3, EyesTold DEF Inv, ViewInv
<1>9. ASSUME NEW p \in Pid, UpToDate(p)' PROVE Agrees(p)' /\ AroundKnown(p)'
  <2>1. /\ UpToDate(p) /\ AroundKnown(p)' /\ Agrees(p)
        /\ \A e \in Eid : Known(p)'[e] = IF e = id /\ Sees(eye[p], x) THEN at ELSE Known(p)[e]
    BY <1>8, <1>9 DEF ViewInv, Views
  <2>2. Agrees(p)'
    <3> SUFFICES ASSUME NEW e \in Eid
                 PROVE  /\ ety'[e] # None /\ Sees(eye[p], ety'[e]) => Known(p)'[e] = ety'[e].at
                        /\ Known(p)'[e] # None =>
                             /\ Dist(Known(p)'[e], eye[p].at) <= Reach(eye[p].lv)
                             /\ eye[p].lv = 0 \/ e \in Upper
                             /\ e \notin moved => ety'[e] # None /\ ety'[e].at = Known(p)'[e]
      BY <1>4 DEF Agrees, StandsAt, Sees
    <3>1. CASE e # id
      <4>1. ety'[e] = ety[e] /\ Known(p)'[e] = Known(p)[e]
        BY <1>6, <2>1, <3>1
      <4>2. \A a : StandsAt(e, a) => ety[e] # None /\ ety[e].at = a
        BY <1>0, <3>1 DEF StandsAt
      <4>. QED
        BY <2>1, <4>1, <4>2 DEF Agrees
    <3>2. CASE e = id /\ Sees(eye[p], x)
      <4>1. ety'[e] = x /\ Known(p)'[e] = x.at
        BY <1>5, <1>6, <2>1, <3>2
      <4>2. Dist(eye[p].at, x.at) <= Reach(eye[p].lv) /\ (eye[p].lv = 0 \/ x.lv = 1)
        BY <3>2 DEF Sees
      <4>3. Dist(x.at, eye[p].at) = Dist(eye[p].at, x.at)
        <5>1. eye[p].at \in Spot
          BY <2>1 DEF UpToDate, Inv, Types
        <5>. QED
          BY <1>2, <1>5, <5>1, DistIs
      <4>. QED
        BY <1>5, <3>2, <4>1, <4>2, <4>3
    <3>3. CASE e = id /\ ~Sees(eye[p], x)
      <4>1. ety'[e] = x /\ Known(p)'[e] = Known(p)[e]
        BY <1>6, <2>1, <3>3
      <4>2. \A a : StandsAt(e, a) => a = at
        BY <1>0, <1>1, <3>3 DEF StandsAt
      <4>. QED
        BY <1>5, <2>1, <3>3, <4>1, <4>2 DEF Agrees
    <3>. QED
      BY <3>1, <3>2, <3>3
  <2>. QED
    BY <2>1, <2>2
<1>. QED
  BY <1>7, <1>8, <1>9 DEF ViewInv, Views

(* It is taken out.  Whoever knows where it stands watches the place.      *)
LEMMA RemEtyView == Inv /\ ViewInv /\ RemEty => ViewInv'
<1> SUFFICES ASSUME Inv, ViewInv, RemEty PROVE ViewInv'
  OBVIOUS
<1>0. PICK id, x : id = Msg.id /\ x = ety[id]
  OBVIOUS
<1>1. ~linking /\ g_msgq # << >> /\ Msg.cmd = "REM_ETY"
  BY DEF RemEty, Handle, Msg
<1>2. id \in Eid /\ Msg = g_msgq[1] /\ 1 \in DOMAIN g_msgq
  BY <1>0, <1>1, MsgIs DEF Inv
<1>3. /\ placed' = placed /\ linking' = linking /\ moved' = moved
      /\ eye' = eye /\ told' = told
  BY DEF RemEty, history
<1>4. ety'[id] = None /\ \A e \in Eid : e # id => ety'[e] = ety[e]
  BY <1>0, <1>2 DEF RemEty, Inv, Types
<1>5. PICK r \in Seq(Message) : (\A i \in DOMAIN r : Neutral(r[i])) /\ g_msgq' = Tail(g_msgq) \o r
  <2>1. CASE x = None
    <3>1. g_msgq' = Tail(g_msgq)
      BY <1>0, <2>1 DEF RemEty
    <3>2. g_msgq \in Seq(Message)
      BY DEF Inv, Types
    <3>. QED
      BY <1>1, <3>1, <3>2, NoneMore
  <2>2. CASE x # None
    <3>. DEFINE s == [i \in DOMAIN SetToSeq(OldEyes(x)) |-> [cmd |-> "REM_EYE", id |-> SetToSeq(OldEyes(x))[i]]]
    <3>1. g_msgq' = Tail(g_msgq) \o s
      BY <1>0, <2>2 DEF RemEty, add_ety_to_eye
    <3>2. s \in Seq(Message) /\ \A i \in DOMAIN s : Neutral(s[i])
      <4>1. OldEyes(x) \in SUBSET Pid
        BY DEF OldEyes, Watching
      <4>. QED
        BY <4>1, RemovalsType
    <3>. HIDE DEF s
    <3>. QED
      BY <3>1, <3>2
  <2>. QED
    BY <2>1, <2>2
<1>6. Ways'
  <2>1. \A e : Stop(e, 1) <=> e = id
    BY <1>0, <1>1, <1>2 DEF Stop, Moves
  <2>2. Put(id, 1) = None /\ Put(id, 0)' = None
    BY <1>0, <1>1, <1>2, <1>4 DEF Put
  <2>3. \A e \in Eid : e # id => Put(e, 0)' = Put(e, 0)
    BY <1>4 DEF Put
  <2>4. \A e \in Eid : Put(e, 0)' = IF Stop(e, 1) THEN Put(e, 1) ELSE Put(e, 0)
    BY <2>1, <2>2, <2>3
  <2>5. Levels'
    BY <1>4 DEF ViewInv, Ways, Levels
  <2>. QED
    BY <1>1, <1>3, <1>5, <2>4, <2>5, WaysTaken DEF Inv, ViewInv
<1>7. \A e, a : StandsAt(e, a) => ety[e] # None /\ ety[e].at = a
  BY <1>1 DEF StandsAt
<1>8. CASE x = None
  <2>1. g_msgq' = Tail(g_msgq) /\ ety' = ety /\ snapshot' = snapshot
    BY <1>0, <1>8 DEF RemEty
  <2>2. Packets'
    BY <1>3, <2>1 DEF ViewInv, Packets, Known
  <2>3. ASSUME NEW p \in Pid, UpToDate(p)' PROVE Agrees(p)' /\ AroundKnown(p)'
    <3>1. UpToDate(p)
      BY <1>1, <1>3, <2>1, <2>3, TailPosted DEF UpToDate, Inv
    <3>2. Known(p)' = Known(p) /\ AroundKnown(p)' /\ Agrees(p)
      BY <1>3, <2>1, <3>1, NotSent DEF ViewInv, Views
    <3>. QED
      BY <1>1, <1>3, <2>1, <3>2, AgreesKept
  <2>. QED
    BY <1>6, <2>2, <2>3 DEF ViewInv, Views
<1>9. CASE x # None
  <2>1. x \in [at : Spot, lv : {0, 1}] /\ x.lv = IF id \in Upper THEN 1 ELSE 0
    BY <1>0, <1>2, <1>9 DEF Inv, Types, ViewInv, Ways, Levels
  <2>2. /\ Packets'
        /\ \A p \in Pid : UpToDate(p)' =>
             /\ UpToDate(p) /\ AroundKnown(p)'
             /\ \A e \in Eid : Known(p)'[e] = IF e = id /\ Sees(eye[p], x) THEN None ELSE Known(p)[e]
    <3>1. None \in Place /\ Msg.cmd # "REM_EYE"
      BY <1>1 DEF Place
    <3>2. PICK note : note = [type |-> "REM_ETY", what |-> {<<id, None>>}]
      OBVIOUS
    <3>3. add_ety_to_eye(x, note)
      BY <1>0, <1>9, <3>2 DEF RemEty
    <3>. QED
      BY <1>1, <1>2, <1>3, <3>1, <3>2, <3>3, EyesTold DEF Inv, ViewInv
  <2>3. ASSUME NEW p \in Pid, UpToDate(p)' PROVE Agrees(p)' /\ AroundKnown(p)'
    <3>1. /\ UpToDate(p) /\ AroundKnown(p)' /\ Agrees(p)
          /\ \A e \in Eid : Known(p)'[e] = IF e = id /\ Sees(eye[p], x) THEN None ELSE Known(p)[e]
      BY <2>2, <2>3 DEF ViewInv, Views
    <3>2. Agrees(p)'
      <4> SUFFICES ASSUME NEW e \in Eid
                   PROVE  /\ ety'[e] # None /\ Sees(eye[p], ety'[e]) => Known(p)'[e] = ety'[e].at
                          /\ Known(p)'[e] # None =>
                               /\ Dist(Known(p)'[e], eye[p].at) <= Reach(eye[p].lv)
                               /\ eye[p].lv = 0 \/ e \in Upper
                               /\ e \notin moved => ety'[e] # None /\ ety'[e].at = Known(p)'[e]
        BY <1>3 DEF Agrees, StandsAt, Sees
      <4>1. CASE e # id
        <5>1. ety'[e] = ety[e] /\ Known(p)'[e] = Known(p)[e]
          BY <1>4, <3>1, <4>1
        <5>. QED
          BY <1>7, <3>1, <5>1 DEF Agrees
      <4>2. CASE e = id /\ Sees(eye[p], x)
        <5>1. ety'[e] = None /\ Known(p)'[e] = None
          BY <1>4, <3>1, <4>2
        <5>. QED
          BY <5>1
      <4>3. CASE e = id /\ ~Sees(eye[p], x)
        <5>1. ety'[e] = None /\ Known(p)'[e] = Known(p)[e]
          BY <1>4, <3>1, <4>3
        <5>2. ASSUME Known(p)[e] # None, e \notin moved PROVE FALSE
          <6>1. Known(p)[e] = x.at /\ Dist(x.at, eye[p].at) <= Reach(eye[p].lv) /\ (eye[p].lv = 0 \/ x.lv = 1)
            BY <1>0, <1>7, <2>1, <3>1, <4>3, <5>2 DEF Agrees
          <6>2. eye[p].at \in Spot /\ x.at \in Spot
            BY <2>1, <3>1 DEF UpToDate, Inv, Types
          <6>. QED
            BY <4>3, <6>1, <6>2, DistIs DEF Sees
        <5>. QED
          BY <3>1, <5>1, <5>2 DEF Agrees
      <4>. QED
        BY <4>1, <4>2, <4>3
    <3>. QED
      BY <3>1, <3>2
  <2>. QED
    BY <1>6, <2>2, <2>3 DEF ViewInv, Views
<1>. QED
  BY <1>8, <1>9

(* A player that is not touched: it knows what it knew. *)
LEMMA Untouched ==
  ASSUME Inv, ViewInv, g_msgq # << >>, ~linking, NEW r \in Seq(Message), g_msgq' = Tail(g_msgq) \o r,
         NEW p \in Pid, ~(Msg.cmd = "REM_EYE" /\ Msg.id = p), UpToDate(p)',
         eye'[p] = eye[p], snapshot'[p] = snapshot[p], told'[p] = told[p], ety' = ety, moved' = moved
  PROVE  Agrees(p)' /\ AroundKnown(p)'
<1>1. UpToDate(p)
  BY PostedTail DEF UpToDate, Inv
<1>2. Known(p)' = Known(p) /\ AroundKnown(p)' /\ Agrees(p)
  BY <1>1, NotSent DEF ViewInv, Views
<1>. QED
  BY <1>2, AgreesKept

(* Those around an entity have been told of it. *)
LEMMA BroadcastView == Inv /\ ViewInv /\ Broadcast => ViewInv'
<1> SUFFICES ASSUME Inv, ViewInv, Broadcast PROVE ViewInv'
  OBVIOUS
<1>0. PICK id, n : id = Msg.id /\ n = [type |-> "AROUND", what |-> {}, of |-> id]
  OBVIOUS
<1>1. ~linking /\ g_msgq # << >> /\ Msg.cmd = "BROADCAST" /\ g_msgq' = Tail(g_msgq)
  BY DEF Broadcast, Handle, Msg
<1>2. /\ placed' = placed /\ ety' = ety /\ eye' = eye /\ linking' = linking /\ moved' = moved /\ told' = told
  BY DEF Broadcast, history
<1>3. id \in Eid
  BY <1>0, <1>1, MsgIs DEF Inv
<1>4. n \in Packet /\ n.type = "AROUND" /\ n.of = id /\ \A e : ~About(n, e)
  BY <1>0, <1>3 DEF Packet, About
<1>5. PICK s : s = [p \in Pid |-> IF ety[id] # None /\ eye[p] # None /\ Around(eye[p], ety[id])
                                  THEN Append(snapshot[p], n) ELSE snapshot[p]]
  OBVIOUS
<1>6. snapshot' = s /\ snapshot' = [p \in Pid |-> s[p]]
      /\ \A p \in Pid : s[p] = IF ety[id] # None /\ eye[p] # None /\ Around(eye[p], ety[id])
                               THEN Append(snapshot[p], n) ELSE snapshot[p]
  BY <1>0, <1>5 DEF Broadcast
<1>7. Packets'
  BY <1>2, <1>4, <1>6, PacketsSent DEF ViewInv
<1>8. << >> \in Seq(Message) /\ (\A i \in DOMAIN << >> : Neutral(<< >>[i])) /\ g_msgq' = Tail(g_msgq) \o << >>
  BY <1>1, NoneMore DEF Inv, Types
<1>9. Ways'
  BY <1>1, <1>2, <1>8, WaysOther DEF Inv, ViewInv, Neutral
<1>10. ASSUME NEW p \in Pid, UpToDate(p)' PROVE Agrees(p)' /\ AroundKnown(p)'
  <2>1. CASE s[p] = snapshot[p]
    BY <1>1, <1>2, <1>6, <1>8, <1>10, <2>1, Untouched
  <2>2. CASE s[p] # snapshot[p]
    <3>1. ety[id] # None /\ Around(eye[p], ety[id]) /\ snapshot'[p] = Append(snapshot[p], n)
      BY <1>6, <2>2
    <3>2. UpToDate(p)
      BY <1>1, <1>2, <1>10, TailPosted DEF UpToDate, Inv
    <3>3. Agrees(p) /\ AroundKnown(p)
      BY <3>2 DEF ViewInv, Views
    <3>4. ASSUME id \in Shown(eye[p]) PROVE Known(p)[id] # None
      <4>0. eye[p].lv = 0 \/ ety[id].lv = 1
        BY <1>3, <3>1, <3>4 DEF Shown, ViewInv, Ways, Levels
      <4>1. Sees(eye[p], ety[id])
        BY <3>1, <4>0 DEF Around, Sees
      <4>2. ety[id].at # None
        BY <1>3, <3>1, WorldAssumption DEF Inv, Types
      <4>. QED
        BY <1>3, <3>1, <3>3, <4>1, <4>2 DEF Agrees
    <3>5. /\ Known(p)' = [e \in Eid |-> IF About(n, e) THEN Says(n, e) ELSE Known(p)[e]]
          /\ AroundKnown(p)'
      BY <1>2, <1>4, <3>1, <3>3, <3>4, Sent DEF ViewInv
    <3>6. Known(p)' = Known(p)
      BY <1>4, <3>5 DEF ViewInv, Packets, Knowledge
    <3>7. Agrees(p)'
      BY <1>1, <1>2, <3>3, <3>6, AgreesKept
    <3>. QED
      BY <3>5, <3>7
  <2>. QED
    BY <2>1, <2>2
<1>. QED
  BY <1>7, <1>9, <1>10 DEF ViewInv, Views

(* A new eye is told of all it sees. *)
LEMMA AddEyeView == Inv /\ ViewInv /\ AddEye => ViewInv'
<1> SUFFICES ASSUME Inv, ViewInv, AddEye PROVE ViewInv'
  OBVIOUS
<1>0. PICK id, y : id = Msg.id /\ y = [at |-> Msg.at, lv |-> Msg.lv, old |-> FALSE]
  OBVIOUS
<1>1. ~linking /\ g_msgq # << >> /\ Msg.cmd = "ADD_EYE" /\ g_msgq' = Tail(g_msgq)
  BY DEF AddEye, Handle, Msg
<1>2. id \in Pid /\ y \in [at : Spot, lv : {0, 1}, old : BOOLEAN]
  BY <1>0, <1>1, MsgIs DEF Inv
<1>3. PICK n : n = Etys(y, Eid)
  OBVIOUS
<1>4. /\ placed' = placed /\ ety' = ety /\ linking' = linking /\ moved' = moved
      /\ eye' = [eye EXCEPT ![id] = y] /\ snapshot' = [snapshot EXCEPT ![id] = <<n>>]
      /\ told' = [told EXCEPT ![id] = [e \in Eid |-> None]]
  BY <1>0, <1>3 DEF AddEye, history
<1>5. /\ n \in Packet /\ n.type = "ADD_ETYS"
      /\ \A e \in Eid : (About(n, e) <=> ety[e] # None /\ Sees(y, ety[e])) /\ (About(n, e) => Says(n, e) = ety[e].at)
  BY <1>3, EtysAre DEF Inv
<1>6. PICK k : k = [e \in Eid |-> None]
  OBVIOUS
<1>7. k \in Knowledge /\ \A e \in Eid : k[e] = None
  BY <1>6 DEF Knowledge, Place
<1>8. snapshot'[id] = <<n>> /\ told'[id] = k /\ eye'[id] = y
      /\ \A p \in Pid : p # id => snapshot'[p] = snapshot[p] /\ told'[p] = told[p] /\ eye'[p] = eye[p]
  BY <1>2, <1>4, <1>6 DEF ViewInv, Packets, Inv, Types
<1>9. Known(id)' = [e \in Eid |-> IF About(n, e) THEN Says(n, e) ELSE None]
  <2>1. PICK z : z = << >>
    OBVIOUS
  <2>2. z \in Seq(Packet) /\ Read(k, z) = k /\ Append(z, n) = <<n>>
    BY <1>7, <2>1, ReadNothing
  <2>3. Read(k, Append(z, n)) = [e \in Eid |-> IF About(n, e) THEN Says(n, e) ELSE Read(k, z)[e]]
    <3>1. n \in Packet /\ z \in Seq(Packet)
      BY <1>5, <2>2
    <3>. QED
      BY <3>1, ReadAppend, Zenon
  <2>4. Read(k, <<n>>) = [e \in Eid |-> IF About(n, e) THEN Says(n, e) ELSE None]
    BY <1>7, <2>2, <2>3
  <2>5. Known(id)' = Read(told'[id], snapshot'[id])
    BY <1>0, <1>1 DEF Known
  <2>. QED
    BY <1>8, <2>4, <2>5
<1>10. Packets'
  <2>1. \A e \in Eid : (IF About(n, e) THEN Says(n, e) ELSE None) \in Place
    BY <1>5, SaysPlace DEF Place
  <2>2. \A p \in Pid : Known(p)' \in Knowledge
    <3> SUFFICES ASSUME NEW p \in Pid PROVE Known(p)' \in Knowledge
      OBVIOUS
    <3>1. CASE p = id
      BY <1>9, <2>1, <3>1 DEF Knowledge
    <3>2. CASE p # id
      BY <1>8, <3>2, NotSent DEF ViewInv, Packets
    <3>. QED
      BY <3>1, <3>2
  <2>3. <<n>> \in Seq(Packet)
    BY <1>5
  <2>4. snapshot' \in [Pid -> Seq(Packet)]
    BY <1>4, <2>3 DEF ViewInv, Packets
  <2>5. told' \in [Pid -> Knowledge]
    BY <1>4, <1>6, <1>7 DEF ViewInv, Packets
  <2>. QED
    BY <2>2, <2>4, <2>5 DEF Packets
<1>11. << >> \in Seq(Message) /\ (\A i \in DOMAIN << >> : Neutral(<< >>[i])) /\ g_msgq' = Tail(g_msgq) \o << >>
  BY <1>1, NoneMore DEF Inv, Types
<1>12. Ways'
  BY <1>1, <1>4, <1>11, WaysOther DEF Inv, ViewInv, Neutral
<1>13. ASSUME NEW p \in Pid, UpToDate(p)' PROVE Agrees(p)' /\ AroundKnown(p)'
  <2>1. CASE p # id
    BY <1>1, <1>4, <1>8, <1>11, <1>13, <2>1, Untouched
  <2>2. CASE p = id
    <3>1. AroundKnown(id)'
      <4>1. \A i \in DOMAIN <<n>> : <<n>>[i].type # "AROUND"
        BY <1>5
      <4>. QED
        BY <1>8, <4>1 DEF AroundKnown, AllKnown
    <3>2. Agrees(id)'
      <4> SUFFICES ASSUME NEW e \in Eid
                   PROVE  /\ ety[e] # None /\ Sees(y, ety[e]) => Known(id)'[e] = ety[e].at
                          /\ Known(id)'[e] # None =>
                               /\ Dist(Known(id)'[e], y.at) <= Reach(y.lv)
                               /\ y.lv = 0 \/ e \in Upper
                               /\ ety[e] # None /\ ety[e].at = Known(id)'[e]
        BY <1>4, <1>8 DEF Agrees, StandsAt, Sees
      <4>1. Known(id)'[e] = IF ety[e] # None /\ Sees(y, ety[e]) THEN ety[e].at ELSE None
        BY <1>5, <1>9
      <4>2. ASSUME ety[e] # None, Sees(y, ety[e])
            PROVE  Dist(ety[e].at, y.at) <= Reach(y.lv) /\ (y.lv = 0 \/ e \in Upper)
        <5>1. ety[e].at \in Spot /\ y.at \in Spot
          BY <1>2, <4>2 DEF Inv, Types
        <5>2. ety[e].lv = IF e \in Upper THEN 1 ELSE 0
          BY <4>2 DEF ViewInv, Ways, Levels
        <5>. QED
          BY <4>2, <5>1, <5>2, DistIs DEF Sees
      <4>. QED
        BY <4>1, <4>2
    <3>. QED
      BY <2>2, <3>1, <3>2
  <2>. QED
    BY <2>1, <2>2
<1>. QED
  BY <1>10, <1>12, <1>13 DEF ViewInv, Views

LEMMA RemEyeView == Inv /\ ViewInv /\ RemEye => ViewInv'
<1> SUFFICES ASSUME Inv, ViewInv, RemEye PROVE ViewInv'
  OBVIOUS
<1>0. PICK id : id = Msg.id
  OBVIOUS
<1>1. ~linking /\ g_msgq # << >> /\ Msg.cmd = "REM_EYE" /\ g_msgq' = Tail(g_msgq)
  BY DEF RemEye, Handle, Msg
<1>2. id \in Pid
  BY <1>0, <1>1, MsgIs DEF Inv
<1>3. /\ placed' = placed /\ ety' = ety /\ linking' = linking /\ moved' = moved /\ told' = told
      /\ eye' = [eye EXCEPT ![id] = None] /\ snapshot' = [snapshot EXCEPT ![id] = << >>]
  BY <1>0 DEF RemEye, history, NoSnapshot
<1>4. snapshot'[id] = << >> /\ told'[id] = told[id] /\ eye'[id] = None
      /\ \A p \in Pid : p # id => snapshot'[p] = snapshot[p] /\ told'[p] = told[p] /\ eye'[p] = eye[p]
  BY <1>2, <1>3 DEF ViewInv, Packets, Inv, Types
<1>5. Packets'
  <2>1. << >> \in Seq(Packet) /\ told[id] \in Knowledge /\ Read(told[id], << >>) = told[id]
    BY <1>2, ReadNothing DEF ViewInv, Packets
  <2>2. \A p \in Pid : Known(p)' \in Knowledge
    <3> SUFFICES ASSUME NEW p \in Pid PROVE Known(p)' \in Knowledge
      OBVIOUS
    <3>1. CASE p = id
      <4>1. Known(p)' = Read(told'[p], snapshot'[p])
        BY DEF Known
      <4>. QED
        BY <1>4, <2>1, <3>1, <4>1
    <3>2. CASE p # id
      BY <1>4, <3>2, NotSent DEF ViewInv, Packets
    <3>. QED
      BY <3>1, <3>2
  <2>3. snapshot' \in [Pid -> Seq(Packet)] /\ told' \in [Pid -> Knowledge]
    BY <1>3, <2>1 DEF ViewInv, Packets
  <2>. QED
    BY <2>2, <2>3 DEF Packets
<1>6. << >> \in Seq(Message) /\ (\A i \in DOMAIN << >> : Neutral(<< >>[i])) /\ g_msgq' = Tail(g_msgq) \o << >>
  BY <1>1, NoneMore DEF Inv, Types
<1>7. Ways'
  BY <1>1, <1>3, <1>6, WaysOther DEF Inv, ViewInv, Neutral
<1>8. ASSUME NEW p \in Pid, UpToDate(p)' PROVE Agrees(p)' /\ AroundKnown(p)'
  <2>1. p # id
    BY <1>4, <1>8 DEF UpToDate
  <2>. QED
    BY <1>0, <1>1, <1>3, <1>4, <1>6, <1>8, <2>1, Untouched
<1>. QED
  BY <1>5, <1>7, <1>8 DEF ViewInv, Views

(* An eye in the same block sees the same; in another block it forgets     *)
(* what is out of reach and is told of what was.                           *)
LEMMA MovEyeView == Inv /\ ViewInv /\ MovEye => ViewInv'
<1> SUFFICES ASSUME Inv, ViewInv, MovEye PROVE ViewInv'
  OBVIOUS
<1>0. PICK id, at, old : id = Msg.id /\ at = Msg.at /\ old = eye[id]
  OBVIOUS
<1>1. ~linking /\ g_msgq # << >> /\ Msg.cmd = "MOV_EYE"
  BY DEF MovEye, Handle, Msg
<1>2. id \in Pid /\ at \in Spot
  BY <1>0, <1>1, MsgIs DEF Inv
<1>3. /\ placed' = placed /\ ety' = ety /\ linking' = linking /\ moved' = moved /\ told' = told
  BY DEF MovEye, history
<1>4. PICK r \in Seq(Message) : (\A i \in DOMAIN r : Neutral(r[i])) /\ g_msgq' = Tail(g_msgq) \o r
  <2>0. g_msgq \in Seq(Message) /\ Tail(g_msgq) \in Seq(Message)
    BY <1>1 DEF Inv, Types
  <2>1. CASE old = None
    <3>1. PICK m : m = [cmd |-> "ADD_EYE", id |-> id, at |-> at, lv |-> 0]
      OBVIOUS
    <3>2. m \in Message /\ Neutral(m)
      BY <1>2, <3>1 DEF Message, Lv, Neutral
    <3>3. g_msgq' = Append(Tail(g_msgq), m)
      BY <1>0, <2>1, <3>1 DEF MovEye
    <3>4. g_msgq' = Tail(g_msgq) \o <<m>> /\ <<m>> \in Seq(Message) /\ \A i \in DOMAIN <<m>> : Neutral(<<m>>[i])
      BY <2>0, <3>2, <3>3
    <3>. QED
      BY <3>4
  <2>2. CASE old # None
    <3>1. g_msgq' = Tail(g_msgq)
      BY <1>0, <2>2 DEF MovEye
    <3>. QED
      BY <1>1, <2>0, <3>1, NoneMore
  <2>. QED
    BY <2>1, <2>2
<1>5. Ways'
  BY <1>1, <1>3, <1>4, WaysOther DEF Inv, ViewInv, Neutral
<1>6. /\ snapshot \in [Pid -> Seq(Packet)] /\ told \in [Pid -> Knowledge]
      /\ \A p \in Pid : Known(p) \in Knowledge
  BY DEF ViewInv, Packets
<1>7. CASE eye' = eye /\ snapshot' = snapshot
  <2>1. Packets'
    BY <1>3, <1>7 DEF ViewInv, Packets, Known
  <2>2. ASSUME NEW p \in Pid, UpToDate(p)' PROVE Agrees(p)' /\ AroundKnown(p)'
    BY <1>1, <1>3, <1>4, <1>7, <2>2, Untouched
  <2>. QED
    BY <1>5, <2>1, <2>2 DEF ViewInv, Views
<1>8. CASE old # None
  <2>1. old \in [at : Spot, lv : {0, 1}, old : BOOLEAN]
    BY <1>0, <1>2, <1>8 DEF Inv, Types
  <2>2. CASE Block(old.at) = Block(at)
    <3>1. eye' = [eye EXCEPT ![id].old = FALSE] /\ snapshot' = snapshot
      BY <1>0, <1>8, <2>2 DEF MovEye
    <3>2. Packets'
      BY <1>3, <3>1 DEF ViewInv, Packets, Known
    <3>3. ASSUME NEW p \in Pid, UpToDate(p)' PROVE Agrees(p)' /\ AroundKnown(p)'
      <4>1. eye[p] # None /\ eye'[p].at = eye[p].at /\ eye'[p].lv = eye[p].lv
        <5>1. CASE p = id
          <6>1. eye'[p] = [old EXCEPT !.old = FALSE]
            BY <1>0, <1>2, <3>1, <5>1 DEF Inv, Types
          <6>. QED
            BY <1>0, <1>8, <2>1, <5>1, <6>1
        <5>2. CASE p # id
          <6>1. eye'[p] = eye[p]
            BY <3>1, <5>2 DEF Inv, Types
          <6>. QED
            BY <3>3, <6>1 DEF UpToDate
        <5>. QED
          BY <5>1, <5>2
      <4>2. UpToDate(p)
        BY <1>1, <1>4, <3>3, <4>1, PostedTail DEF UpToDate, Inv
      <4>3. Known(p)' = Known(p) /\ AroundKnown(p)' /\ Agrees(p)
        BY <1>3, <3>1, <4>2, NotSent DEF ViewInv, Views
      <4>. QED
        BY <1>1, <1>3, <4>1, <4>3, AgreesKept
    <3>. QED
      BY <1>5, <3>2, <3>3 DEF ViewInv, Views
  <2>3. CASE Block(old.at) # Block(at)
    <3>1. PICK y : y = [old EXCEPT !.at = at, !.old = FALSE]
      OBVIOUS
    <3>2. y \in [at : Spot, lv : {0, 1}, old : BOOLEAN] /\ y.at = at /\ y.lv = old.lv
      BY <1>2, <2>1, <3>1
    <3>3. PICK new, k : new = {e \in Eid : ety[e] # None /\ NewBlock(old, ety[e].at)} /\ k = Known(id)
      OBVIOUS
    <3>4. PICK f, n : f = Forgets(k, y) /\ n = Etys(y, new)
      OBVIOUS
    <3>5. /\ f \in Packet /\ f.type = "FORGET"
          /\ \A e \in Eid : /\ About(f, e) <=> k[e] # None /\ Dist(k[e], y.at) > Reach(y.lv)
                            /\ About(f, e) => Says(f, e) = None
      BY <1>2, <1>6, <3>3, <3>4, ForgetsAre
    <3>6. /\ n \in Packet /\ n.type = "ADD_ETYS"
          /\ \A e \in Eid : /\ About(n, e) <=> e \in new /\ ety[e] # None /\ Sees(y, ety[e])
                            /\ About(n, e) => Says(n, e) = ety[e].at
      <4>1. new \subseteq Eid
        BY <3>3
      <4>. QED
        BY <3>4, <4>1, EtysAre DEF Inv
    <3>7. eye' = [eye EXCEPT ![id] = y] /\ snapshot' = [snapshot EXCEPT ![id] = Append(Append(@, f), n)]
      BY <1>0, <1>8, <2>3, <3>1, <3>3, <3>4 DEF MovEye, Known
    <3>8. /\ eye'[id] = y /\ snapshot'[id] = Append(Append(snapshot[id], f), n)
          /\ \A p \in Pid : p # id => eye'[p] = eye[p] /\ snapshot'[p] = snapshot[p]
      BY <1>2, <1>6, <3>7 DEF Inv, Types
    <3>9. /\ snapshot'[id] \in Seq(Packet)
          /\ Known(id)' = [e \in Eid |-> IF About(n, e) THEN Says(n, e) ELSE IF About(f, e) THEN Says(f, e) ELSE k[e]]
          /\ AroundKnown(id) => AroundKnown(id)'
      <4>1. PICK s, t : s = snapshot[id] /\ t = Append(s, f)
        OBVIOUS
      <4>2. s \in Seq(Packet) /\ snapshot'[id] = Append(t, n) /\ told'[id] = told[id] /\ k = Read(told[id], s)
        BY <1>2, <1>3, <1>6, <3>3, <3>8, <4>1 DEF Known
      <4>3. t \in Seq(Packet) /\ Read(told[id], t) = [e \in Eid |-> IF About(f, e) THEN Says(f, e) ELSE k[e]]
        BY <3>5, <4>1, <4>2, ReadAppend
      <4>4. /\ Append(t, n) \in Seq(Packet)
            /\ Read(told[id], Append(t, n)) = [e \in Eid |-> IF About(n, e) THEN Says(n, e) ELSE Read(told[id], t)[e]]
        BY <3>6, <4>3, ReadAppend
      <4>5. Read(told[id], Append(t, n)) =
              [e \in Eid |-> IF About(n, e) THEN Says(n, e) ELSE IF About(f, e) THEN Says(f, e) ELSE k[e]]
        BY <4>3, <4>4
      <4>6. ASSUME NEW shown, AllKnown(told[id], s, shown) PROVE AllKnown(told[id], Append(t, n), shown)
        <5>1. AllKnown(told[id], t, shown)
          BY <3>5, <4>1, <4>2, <4>6, AllKnownAppend
        <5>. QED
          BY <3>6, <4>3, <5>1, AllKnownAppend
      <4>7. Shown(eye'[id]) = Shown(eye[id])
        BY <1>0, <1>2, <3>2, <3>8 DEF Shown
      <4>8. AroundKnown(id) => AroundKnown(id)'
        BY <4>1, <4>2, <4>6, <4>7 DEF AroundKnown
      <4>. QED
        BY <4>1, <4>2, <4>4, <4>5, <4>8 DEF Known
    <3>10. Packets'
      <4>1. \A e \in Eid : (IF About(n, e) THEN Says(n, e) ELSE IF About(f, e) THEN Says(f, e) ELSE k[e]) \in Place
        BY <1>2, <1>6, <3>3, <3>5, <3>6, SaysPlace DEF Knowledge
      <4>2. Known(id)' \in Knowledge
        BY <3>9, <4>1 DEF Knowledge
      <4>3. \A p \in Pid : p # id => Known(p)' = Known(p)
        BY <1>3, <3>8, NotSent
      <4>4. \A p \in Pid : Known(p)' \in Knowledge
        BY <1>6, <4>2, <4>3
      <4>5. snapshot' \in [Pid -> Seq(Packet)]
        BY <1>6, <3>7, <3>8, <3>9
      <4>. QED
        BY <1>3, <1>6, <4>4, <4>5 DEF Packets
    <3>11. ASSUME NEW p \in Pid, UpToDate(p)' PROVE Agrees(p)' /\ AroundKnown(p)'
      <4>1. CASE p # id
        BY <1>1, <1>3, <1>4, <3>8, <3>11, <4>1, Untouched
      <4>2. CASE p = id
        <5>1. UpToDate(id)
          BY <1>0, <1>1, <1>4, <1>8, <3>11, <4>2, PostedTail DEF UpToDate, Inv
        <5>2. Agrees(id) /\ AroundKnown(id)
          BY <1>2, <5>1 DEF ViewInv, Views
        <5>3. Agrees(id)'
          <6> SUFFICES ASSUME NEW e \in Eid
                       PROVE  /\ ety[e] # None /\ Sees(y, ety[e]) => Known(id)'[e] = ety[e].at
                              /\ Known(id)'[e] # None =>
                                   /\ Dist(Known(id)'[e], y.at) <= Reach(y.lv)
                                   /\ y.lv = 0 \/ e \in Upper
                                   /\ e \notin moved => StandsAt(e, Known(id)'[e])
            <7>1. \A e, a, b : a = b => (StandsAt(e, a)' <=> StandsAt(e, b))
              BY <1>1, <1>3 DEF StandsAt
            <7>. QED
              BY <1>1, <1>3, <3>8 DEF Agrees, Sees, StandsAt
          <6>1. Known(id)'[e] = IF About(n, e) THEN ety[e].at ELSE IF About(f, e) THEN None ELSE k[e]
            BY <3>5, <3>6, <3>9
          <6>2. ASSUME ety[e] # None
                PROVE  /\ ety[e].at \in Spot /\ ety[e].lv = IF e \in Upper THEN 1 ELSE 0
                       /\ Dist(ety[e].at, y.at) = Dist(y.at, ety[e].at)
                       /\ Dist(ety[e].at, old.at) = Dist(old.at, ety[e].at)
                       /\ Dist(y.at, ety[e].at) \in Nat /\ Dist(old.at, ety[e].at) \in Nat
            <7>1. ety[e].at \in Spot
              BY <6>2 DEF Inv, Types
            <7>2. ety[e].lv = IF e \in Upper THEN 1 ELSE 0
              BY <6>2 DEF ViewInv, Ways, Levels
            <7>3. y.at \in Spot /\ old.at \in Spot
              BY <2>1, <3>2
            <7>. QED
              BY <7>1, <7>2, <7>3, DistIs
          <6>3. Reach(y.lv) \in Nat /\ Reach(old.lv) = Reach(y.lv)
            BY <3>2, ReachIs
          <6>4. ASSUME ety[e] # None, Sees(y, ety[e]) PROVE Known(id)'[e] = ety[e].at
            <7>1. CASE NewBlock(old, ety[e].at)
              BY <3>3, <3>6, <6>1, <6>4, <7>1
            <7>2. CASE ~NewBlock(old, ety[e].at)
              <8>1. Sees(old, ety[e])
                BY <3>2, <6>2, <6>3, <6>4, <7>2 DEF NewBlock, Sees
              <8>2. k[e] = ety[e].at
                BY <1>0, <3>3, <5>2, <6>4, <8>1 DEF Agrees
              <8>3. ~About(f, e)
                BY <3>5, <6>2, <6>3, <6>4, <8>2 DEF Sees
              <8>. QED
                BY <6>1, <8>2, <8>3
            <7>. QED
              BY <7>1, <7>2
          <6>5. ASSUME Known(id)'[e] # None
                PROVE  /\ Dist(Known(id)'[e], y.at) <= Reach(y.lv)
                       /\ y.lv = 0 \/ e \in Upper
                       /\ e \notin moved => StandsAt(e, Known(id)'[e])
            <7>1. CASE About(n, e)
              <8>1. ety[e] # None /\ Sees(y, ety[e]) /\ Known(id)'[e] = ety[e].at
                BY <3>6, <6>1, <7>1
              <8>. QED
                BY <6>2, <8>1 DEF Sees, StandsAt
            <7>2. CASE ~About(n, e)
              <8>1. Known(id)'[e] = k[e] /\ k[e] # None /\ ~(Dist(k[e], y.at) > Reach(y.lv))
                BY <3>5, <6>1, <6>5, <7>2
              <8>2. Dist(k[e], y.at) \in Nat
                <9>1. k[e] \in Spot
                  BY <1>2, <1>6, <3>3, <8>1 DEF Knowledge, Place
                <9>. QED
                  BY <3>2, <9>1, DistIs
              <8>3. (old.lv = 0 \/ e \in Upper) /\ (e \notin moved => StandsAt(e, k[e]))
                BY <1>0, <3>3, <5>2, <8>1 DEF Agrees
              <8>. QED
                BY <3>2, <6>3, <8>1, <8>2, <8>3
            <7>. QED
              BY <7>1, <7>2
          <6>. QED
            BY <6>4, <6>5
        <5>. QED
          BY <3>9, <4>2, <5>2, <5>3
      <4>. QED
        BY <4>1, <4>2
    <3>. QED
      BY <1>5, <3>10, <3>11 DEF ViewInv, Views
  <2>. QED
    BY <2>2, <2>3
<1>9. old = None => eye' = eye /\ snapshot' = snapshot
  BY <1>0 DEF MovEye
<1>. QED
  BY <1>7, <1>8, <1>9

-----------------------------------------------------------------------------

LEMMA NextView == Inv /\ ViewInv /\ [Next]_vars => ViewInv'
<1> SUFFICES ASSUME Inv, ViewInv, [Next]_vars PROVE ViewInv'
  OBVIOUS
<1>1. ASSUME NEW e \in Eid, rem_ety(e) \/ \E at \in Spot : add_ety(e, at)
      PROVE  ViewInv'
  BY <1>1, AddView, RemView
<1>2. CASE EyeRequest \/ \E e \in Eid : roi_broadcast(e)
  BY <1>2, RequestView
<1>3. CASE AddEty \/ LinkEty \/ RemEty
  BY <1>3, AddEtyView, LinkEtyView, RemEtyView
<1>4. CASE Broadcast \/ AddEye \/ RemEye \/ MovEye
  BY <1>4, BroadcastView, AddEyeView, RemEyeView, MovEyeView
<1>5. CASE push_msg \/ EyeAges \/ UNCHANGED vars
  BY <1>5, PushView, AgesView
<1>. QED
  BY <1>1, <1>2, <1>3, <1>4, <1>5 DEF Next

LEMMA InitView == Init => ViewInv
<1> SUFFICES ASSUME Init PROVE ViewInv
  OBVIOUS
<1>1. \A e, i : Stop(e, i) <=> i = 0
  BY DEF Init, Stop
<1>2. \A e \in Eid : Put(e, 0) = None /\ PlaceOf(e) = None
  BY DEF Init, Put, PlaceOf
<1>3. SamePlace
  BY <1>1 DEF SamePlace
<1>4. PlacedAt
  <2>1. \A e \in Eid : Final(e, 0) /\ Put(e, 0) = PlaceOf(e)
    BY <1>1, <1>2 DEF Final
  <2>. QED
    BY <2>1 DEF PlacedAt
<1>5. Levels
  BY DEF Init, Levels
<1>6. Packets
  <2>1. snapshot = [p \in Pid |-> << >>] /\ told = [p \in Pid |-> [e \in Eid |-> None]]
    BY DEF Init
  <2>2. [e \in Eid |-> None] \in Knowledge
    BY DEF Knowledge, Place
  <2>3. PICK k : k = [e \in Eid |-> None]
    OBVIOUS
  <2>4. << >> \in Seq(Packet) /\ Read(k, << >>) = k
    BY <2>2, <2>3, ReadNothing
  <2>5. \A p \in Pid : Known(p) = k
    BY <2>1, <2>3, <2>4 DEF Known
  <2>. QED
    BY <2>1, <2>2, <2>3, <2>4, <2>5 DEF Packets
<1>7. Views
  BY DEF Init, Views, UpToDate
<1>. QED
  BY <1>3, <1>4, <1>5, <1>6, <1>7 DEF ViewInv, Ways

(* On any map and under any number of messages: what a player has been     *)
(* told, with the packets on their way to it, is what there is within the  *)
(* reach of its eye, however entities and eyes have come, gone and moved   *)
(* (world.c: add_ety_to_eye, add_eye_to_link, move_eye, push_msg).         *)
THEOREM ViewAgreesHolds == Spec => []ViewAgrees
<1>1. ViewInv => ViewAgrees
  BY DEF ViewInv, Views, Agrees, ViewAgrees, Known, StandsAt
<1>2. Inv /\ ViewInv /\ [Next]_vars => (Inv /\ ViewInv)'
  BY NextInv, NextView
<1>. QED
  BY <1>1, <1>2, InitInv, InitView, PTL DEF Spec

(* Likewise: a packet for those around an entity reaches a player while it *)
(* has been told of the entity, but for one about a resource that goes to  *)
(* a global eye (world.c: do_broadcast, of which both loops run).          *)
THEOREM BroadcastOfKnownHolds == Spec => []BroadcastOfKnown
<1>1. ViewInv => BroadcastOfKnown
  BY DEF ViewInv, Views, AroundKnown, AllKnown, BroadcastOfKnown, Shown
<1>2. Inv /\ ViewInv /\ [Next]_vars => (Inv /\ ViewInv)'
  BY NextInv, NextView
<1>. QED
  BY <1>1, <1>2, InitInv, InitView, PTL DEF Spec

=============================================================================
