------------------------------ MODULE SkipList ------------------------------
(***************************************************************************)
(* The rank list of the game: zset.lua over the skip list of skiplist.c.   *)
(* A node is its member; tbl is zset's table of scores.                    *)
(***************************************************************************)
EXTENDS Integers, FiniteSets, SequencesExt

CONSTANTS Member,     \* members, in the order of compareslObj
          Score,
          MaxLevel,   \* SKIPLIST_MAXLEVEL
          Header, Nil, Absent

ASSUME SkipListAssumption ==
  /\ Member \subseteq Int /\ Score \subseteq Int /\ MaxLevel \in Nat \ {0}
  /\ {Header, Nil} \intersect Member = {} /\ Header # Nil /\ Absent \notin Score

VARIABLES sl, tbl,
  asked, answer    \* the last call and what it returned

vars == <<sl, tbl, asked, answer>>

Node == Member \union {Header}
Level == 1..MaxLevel

Init ==
  /\ sl = [forward |-> [n \in Node |-> [i \in Level |-> Nil]],
           span |-> [n \in Node |-> [i \in Level |-> 0]],
           backward |-> [n \in Node |-> Nil], score |-> [m \in Member |-> Absent],
           tail |-> Nil, level |-> 1, length |-> 0]
  /\ tbl = [m \in Member |-> Absent]
  /\ asked = << >> /\ answer = << >>

-----------------------------------------------------------------------------
(* skiplist.c *)

(* Mutant: every level counts from its own start. *)
DescendAnew(list, past) ==
  LET walk[i \in Level, place \in [at : Node, rank : Nat]] ==
        LET next == list.forward[place.at][i]
            rank == place.rank + list.span[place.at][i]
        IN  IF next # Nil /\ past[next, rank] THEN walk[i, [at |-> next, rank |-> rank]]
            ELSE place
      update[i \in 1..list.level] ==
        walk[i, [at |-> IF i = list.level THEN Header ELSE update[i + 1].at, rank |-> 0]]
  IN  update

(* The descent common to every function: on each level go forward while    *)
(* past[node, rank] of the next node; the place reached and its rank.      *)
Descend(list, past) ==
  LET walk[i \in Level, place \in [at : Node, rank : Nat]] ==
        LET next == list.forward[place.at][i]
            rank == place.rank + list.span[place.at][i]
        IN  IF next # Nil /\ past[next, rank] THEN walk[i, [at |-> next, rank |-> rank]]
            ELSE place
      update[i \in 1..list.level] ==
        walk[i, IF i = list.level THEN [at |-> Header, rank |-> 0] ELSE update[i + 1]]
  IN  update

LessByScore(list, n, s, m) == list.score[n] < s   \* Mutant
Less(list, n, s, m) == list.score[n] < s \/ (list.score[n] = s /\ n < m)

Back(n) == IF n = Header THEN Nil ELSE n

slInsert(list, s, m, level) ==
  LET found == Descend(list, [n \in Node, r \in Nat |-> Less(list, n, s, m)])
      update == [i \in Level |-> IF i <= list.level THEN found[i] ELSE [at |-> Header, rank |-> 0]]
      At(i) == update[i].at
      Span(i) == IF i <= list.level THEN list.span[At(i)][i] ELSE list.length
      ahead(i) == update[1].rank - update[i].rank
      next == list.forward[At(1)][1]
  IN  [list EXCEPT
        !.score[m] = s,
        !.forward = [n \in Node |-> [i \in Level |->
          IF i > level THEN @[n][i]
          ELSE IF n = m THEN @[At(i)][i] ELSE IF n = At(i) THEN m ELSE @[n][i]]],
        !.span = [n \in Node |-> [i \in Level |->
          IF i > Max({level, list.level}) THEN @[n][i]
          ELSE IF n = m /\ i <= level THEN Span(i) - ahead(i)
          ELSE IF n = At(i) THEN IF i <= level THEN ahead(i) + 1 ELSE Span(i) + 1
          ELSE @[n][i]]],
        !.backward = [n \in Node |-> IF n = m THEN Back(At(1)) ELSE IF n = next THEN m ELSE @[n]],
        !.tail = IF next = Nil THEN m ELSE @,
        !.level = Max({@, level}),
        !.length = @ + 1]

(* Unlinks x, where at[i] is the last node before it on level i. *)
slDeleteNode(s, x, at) ==
  LET levels == 1..s.level
      next == s.forward[x][1]
      forward == [n \in Node |-> [i \in Level |->
        IF n = x THEN Nil
        ELSE IF i \in levels /\ n = at[i] /\ s.forward[n][i] = x THEN s.forward[x][i]
        ELSE s.forward[n][i]]]
  IN  [s EXCEPT
        !.forward = forward,
        !.span = [n \in Node |-> [i \in Level |->
          IF n = x THEN 0
          ELSE IF i \notin levels \/ n # at[i] THEN @[n][i]
          ELSE IF s.forward[n][i] = x THEN @[n][i] + s.span[x][i] - 1 ELSE @[n][i] - 1]],
        !.backward = [n \in Node |-> IF n = x THEN Nil ELSE IF n = next THEN @[x] ELSE @[n]],
        !.tail = IF next = Nil THEN s.backward[x] ELSE @,
        !.level = Max({1} \union {i \in levels : forward[Header][i] # Nil}),
        !.length = @ - 1,
        !.score[x] = Absent]

slDelete(list, s, m) ==
  LET update == Descend(list, [n \in Node, r \in Nat |-> Less(list, n, s, m)])
      x == list.forward[update[1].at][1]
  IN  IF x = m /\ list.score[x] = s THEN slDeleteNode(list, x, [i \in DOMAIN update |-> update[i].at])
      ELSE list

(* The nodes from x on, along next, while more[node, how many so far].     *)
Along(next, x, more) ==
  LET from[n \in Node \union {Nil}, k \in Nat] ==
        IF n = Nil \/ ~more[n, k] THEN << >> ELSE <<n>> \o from[next[n], k + 1]
  IN  from[x, 0]
Onward(list) == [n \in Node |-> list.forward[n][1]]

slDeleteByRank(list, start, end) ==
  LET update == Descend(list, [n \in Node, r \in Nat |-> r < start])
      first == update[1].rank + 1
      gone == Along(Onward(list), list.forward[update[1].at][1], [n \in Node, k \in Nat |-> first + k <= end])
      at == [i \in DOMAIN update |-> update[i].at]
  IN  [list |-> FoldLeft(LAMBDA s, x : slDeleteNode(s, x, at), list, gone), gone |-> gone]

(* Both stop on the highest level that has what they look for.             *)
Hit(update, hits) == IF hits = {} THEN [at |-> Nil, rank |-> 0] ELSE update[Max(hits)]

slGetRank(list, s, m) ==
  LET update == Descend(list, [n \in Node, r \in Nat |-> Less(list, n, s, m) \/ (list.score[n] = s /\ n = m)])
  IN  Hit(update, {i \in DOMAIN update : update[i].at = m}).rank

slGetNodeByRank(list, rank) ==
  LET update == Descend(list, [n \in Node, r \in Nat |-> r <= rank])
  IN  IF rank \notin 1..list.length THEN Nil
      ELSE Hit(update, {i \in DOMAIN update : update[i].rank = rank}).at

slIsInRange(list, min, max) ==
  /\ min <= max
  /\ list.tail # Nil /\ list.score[list.tail] >= min
  /\ list.score[Onward(list)[Header]] <= max

slFirstInRange(list, min, max) ==
  IF ~slIsInRange(list, min, max) THEN Nil
  ELSE Onward(list)[Descend(list, [n \in Node, r \in Nat |-> list.score[n] < min])[1].at]

slLastInRange(list, min, max) ==
  IF ~slIsInRange(list, min, max) THEN Nil
  ELSE Descend(list, [n \in Node, r \in Nat |-> list.score[n] <= max])[1].at

-----------------------------------------------------------------------------
(* lua-skiplist.c and zset.lua *)

get_rank_range(r1, r2) ==
  LET len == IF r1 <= r2 THEN r2 - r1 + 1 ELSE r1 - r2 + 1
  IN  Along(IF r1 <= r2 THEN Onward(sl) ELSE sl.backward, slGetNodeByRank(sl, r1), [n \in Node, k \in Nat |-> k < len])

get_score_range(s1, s2) ==
  IF s1 <= s2 THEN Along(Onward(sl), slFirstInRange(sl, s1, s2), [n \in Node, k \in Nat |-> sl.score[n] <= s2])
              ELSE Along(sl.backward, slLastInRange(sl, s2, s1), [n \in Node, k \in Nat |-> sl.score[n] >= s2])

Returns(call, x) == asked' = call /\ answer' = x

add(s, m, level) ==
  /\ IF tbl[m] = s THEN UNCHANGED <<sl, tbl>>
     ELSE /\ sl' = IF tbl[m] = Absent THEN slInsert(sl, s, m, level)
                   ELSE slInsert(slDelete(sl, tbl[m], m), s, m, level)
          /\ tbl' = [tbl EXCEPT ![m] = s]
  /\ Returns(<<"add", m, s>>, << >>)

rem(m) ==
  /\ IF tbl[m] = Absent THEN UNCHANGED <<sl, tbl>>
     ELSE sl' = slDelete(sl, tbl[m], m) /\ tbl' = [tbl EXCEPT ![m] = Absent]
  /\ Returns(<<"rem", m>>, << >>)

_reverse_rank(r) == sl.length - r + 1

DropRanks(call, from, to) ==
  LET cut == slDeleteByRank(sl, Min({from, to}), Max({from, to}))
  IN  /\ sl' = cut.list
      /\ tbl' = [m \in Member |-> IF \E i \in DOMAIN cut.gone : cut.gone[i] = m THEN Absent ELSE tbl[m]]
      /\ Returns(call, <<Len(cut.gone)>>)

limit(n) ==
  IF sl.length <= n THEN Returns(<<"limit", n>>, <<0>>) /\ UNCHANGED <<sl, tbl>>
  ELSE DropRanks(<<"limit", n>>, n + 1, sl.length)

rev_limit(n) ==
  IF sl.length <= n THEN Returns(<<"rev_limit", n>>, <<0>>) /\ UNCHANGED <<sl, tbl>>
  ELSE DropRanks(<<"rev_limit", n>>, _reverse_rank(n + 1), _reverse_rank(sl.length))

(* A rank below 1, that of rev_range past the end, is taken for 1. *)
Range1(r1, r2) == get_rank_range(Max({r1, 1}), Max({r2, 1}))
range(r1, r2) == Returns(<<"range", r1, r2>>, Range1(r1, r2))
rev_range(r1, r2) ==
  Returns(<<"rev_range", r1, r2>>, Range1(_reverse_rank(r1), _reverse_rank(r2)))

(* The call of rank and that of rev_rank, which asks rank first. *)
rank(m) ==
  LET r == slGetRank(sl, tbl[m], m) IN
  \/ Returns(<<"rank", m>>, IF tbl[m] = Absent THEN << >> ELSE <<r>>)
  \/ Returns(<<"rev_rank", m>>, IF tbl[m] = Absent THEN << >> ELSE <<_reverse_rank(r)>>)

range_by_score(s1, s2) == Returns(<<"range_by_score", s1, s2>>, get_score_range(s1, s2))

Next ==
  \/ \E m \in Member, s \in Score, level \in Level : add(s, m, level)
  \/ \E m \in Member : rem(m)
  \/ \E n \in 0..Cardinality(Member) : limit(n) \/ rev_limit(n)
  \/ /\ \/ \E r1, r2 \in 0..(Cardinality(Member) + 1) : range(r1, r2) \/ rev_range(r1, r2)
        \/ \E m \in Member : rank(m)
        \/ \E s1, s2 \in Score : range_by_score(s1, s2)
     /\ UNCHANGED <<sl, tbl>>

Spec == Init /\ [][Next]_vars

-----------------------------------------------------------------------------
(* The skip list and zset's table implement the sorted set: whatever was   *)
(* added, removed or cut off before, every rank and every range is right.  *)
SortedSet == INSTANCE SortedSet
SortedSetSpec == SortedSet!Spec

(* A span is the distance, on the lowest level, to the next node of its    *)
(* level or to the end, also of nodes that an operation went around.       *)
SpansMeasure ==
  LET order == <<Header>> \o Along(Onward(sl), Onward(sl)[Header], [n \in Node, k \in Nat |-> TRUE])
      Place(n) == CHOOSE k \in DOMAIN order : order[k] = n
  IN  /\ Len(order) = sl.length + 1
      /\ \A k \in DOMAIN order, i \in 1..sl.level :
           LET n == order[k]
               next == sl.forward[n][i]
           IN  /\ next # Nil => sl.span[n][i] = Place(next) - k
               /\ n = Header /\ next = Nil => sl.span[n][i] = sl.length
=============================================================================
