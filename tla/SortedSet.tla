----------------------------- MODULE SortedSet -----------------------------
(***************************************************************************)
(* What a rank list promises: members ranked by score, equal scores by     *)
(* member, and each question answered from that ranking.                   *)
(***************************************************************************)
EXTENDS Integers, FiniteSets, SequencesExt

CONSTANTS Member, Score, Absent

VARIABLES tbl,
  asked,   \* the last operation, with its arguments
  answer   \* what it returned

Members == {m \in Member : tbl[m] # Absent}
Before(m, n) == tbl[m] < tbl[n] \/ (tbl[m] = tbl[n] /\ m < n)
Count == Cardinality(Members)
Rank(m) == Cardinality({n \in Members : Before(n, m)}) + 1
At(r) == CHOOSE m \in Members : Rank(m) = r
FromLast(r) == Count - r + 1

(* The members from rank r to rank s, up or down, as far as there are any; *)
(* a rank before the first stands for the first.                           *)
Ranks(r0, s0) ==
  LET r == Max({r0, 1})
      s == Max({s0, 1})
  IN  IF r > Count THEN << >>
      ELSE IF r <= s THEN [i \in 1..(Min({s, Count}) - r + 1) |-> At(r + i - 1)]
           ELSE [i \in 1..(r - s + 1) |-> At(r - i + 1)]

(* The members with scores from s to t. *)
Scores(s, t) ==
  LET in == {Rank(m) : m \in {n \in Members : tbl[n] \in Min({s, t})..Max({s, t})}}
  IN  IF in = {} THEN << >> ELSE IF s <= t THEN Ranks(Min(in), Max(in)) ELSE Ranks(Max(in), Min(in))

Init == tbl = [m \in Member |-> Absent] /\ asked = << >> /\ answer = << >>

Asked(question, x) == asked' = question /\ answer' = x

Set(question, m, s) == tbl' = [tbl EXCEPT ![m] = s] /\ Asked(question, << >>)

KeepsRanks(question, keep) ==
  LET kept == {m \in Members : Rank(m) \in keep}
  IN  /\ Asked(question, <<Count - Cardinality(kept)>>)
      /\ tbl' = [m \in Member |-> IF m \in kept THEN tbl[m] ELSE Absent]

Answers(question, x) == Asked(question, x) /\ UNCHANGED tbl

AnswersRank(question, m, r) == Answers(question, IF m \in Members THEN <<r>> ELSE << >>)

Next ==
  \/ \E m \in Member :
       \/ \E s \in Score : Set(<<"add", m, s>>, m, s)
       \/ Set(<<"rem", m>>, m, Absent)
       \/ AnswersRank(<<"rank", m>>, m, Rank(m))
       \/ AnswersRank(<<"rev_rank", m>>, m, FromLast(Rank(m)))
  \/ \E n \in 0..Cardinality(Member) :
       \/ KeepsRanks(<<"limit", n>>, 1..n)
       \/ KeepsRanks(<<"rev_limit", n>>, FromLast(n)..Count)
  \/ \E r, s \in 0..(Cardinality(Member) + 1) :
       \/ Answers(<<"range", r, s>>, Ranks(r, s))
       \/ Answers(<<"rev_range", r, s>>, Ranks(FromLast(r), FromLast(s)))
  \/ \E s, t \in Score : Answers(<<"range_by_score", s, t>>, Scores(s, t))

Spec == Init /\ [][Next]_<<tbl, asked, answer>>
=============================================================================
