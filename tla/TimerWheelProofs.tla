-------------------------- MODULE TimerWheelProofs --------------------------
(***************************************************************************)
(* For any timers, delays and sizes of the vectors: the wheel drops no     *)
(* timer and leaves no copy of one behind, hands a timer that entered it   *)
(* in time back at the very jiffy it is due at, and one that entered late  *)
(* within a turn of tv1 (OnTime); and the wheel, its queues and its thread *)
(* are a timer engine (EngineSpec).                                        *)
(***************************************************************************)
EXTENDS TimerWheel, SequenceTheorems, FiniteSetTheorems, WellFoundedInduction, TLAPS

Slots(n) == 0..(Size(n) - 1)
Wheels ==
  {w \in [Vec -> UNION {[Slots(n) -> Seq(Timer)] : n \in Vec}] :
     \A n \in Vec : w[n] \in [Slots(n) -> Seq(Timer)]}

TypeOK ==
  /\ frame \in Nat /\ jiffies \in Nat
  /\ index \in [Vec -> Nat]
  /\ wheel \in Wheels
  /\ due \in [Timer -> Nat]
  /\ adding \in Timer \union {NoTimer}
  /\ put \in Seq(Timer) /\ get \in Seq(Timer)
  /\ tpc \in {"sleep", "run"} /\ turn \in Nat
  /\ control \in {"before", "held", "over"} /\ behind \in Nat
  /\ stray \in SUBSET Timer
  /\ linkedAt \in [Timer -> Nat \union {Never}]
  /\ firedAt \in [Timer -> Nat \union {Never}]

Items(s) == {s[k] : k \in DOMAIN s}
Injective(s) == \A k, l \in DOMAIN s : s[k] = s[l] => k = l

(* The places of a wheel, and the timers it holds. *)
IsPlace(w, n, i, k) == n \in Vec /\ i \in Slots(n) /\ k \in DOMAIN w[n][i]
Holds(w, t) == \E n \in Vec : \E i \in Slots(n) : t \in Items(w[n][i])
Once(w) ==
  \A n1, n2 \in Vec : \A i1 \in Slots(n1) : \A i2 \in Slots(n2) :
    \A k1 \in DOMAIN w[n1][i1] : \A k2 \in DOMAIN w[n2][i2] :
      w[n1][i1][k1] = w[n2][i2][k2] => n1 = n2 /\ i1 = i2 /\ k1 = k2

(* The first slot of tv_n, counted from jiffy 0, that has not cascaded by  *)
(* jiffy j, and the one timer t is for.                                    *)
Coming(n, j) == 1 + ((j - 1) \div Unit(n))
Wanted(n, t) == due[t] \div Unit(n)

(* index is where the clock has got to. *)
Indexed == \A n \in Vec : index[n] = Coming(n, jiffies) % Size(n)

(* Timer t, linked at jiffy l, may be in slot i of tv_n: it is one of the  *)
(* next turn of the vector, or an overdue one in tv1 that comes round      *)
(* before R jiffies have passed.                                           *)
Fits(t, l, n, i, low) ==
  /\ i = Wanted(n, t) % Size(n)
  /\ t \notin stray =>
       IF l <= due[t] THEN low <= Wanted(n, t) /\ Wanted(n, t) < low + Size(n)
       ELSE n = 1 /\ \E x \in jiffies..(l + R - 1) : x % R = i

AllFit(w, link, low) ==
  \A n \in Vec : \A i \in Slots(n) : \A t \in Items(w[n][i]) :
    Fits(t, link[t], n, i, low[n])

Lows(j) == [n \in Vec |-> Coming(n, j)]

(* A timer is with the Lua thread, on gQueTimerPut, in the wheel and on    *)
(* gQueTimerGet, one after the other.                                      *)
Waits(t) == t = adding \/ t \in Items(put) \/ Holds(wheel, t)
Stage(t) ==
  /\ t = adding \/ t \in Items(put) => linkedAt[t] = Never
  /\ t = adding => t \notin Items(put)
  /\ Holds(wheel, t) => linkedAt[t] # Never /\ firedAt[t] = Never
  /\ t \in Items(get) <=> firedAt[t] # Never
  /\ t \in Items(get) => linkedAt[t] # Never
  /\ linkedAt[t] # Never => Holds(wheel, t) \/ t \in Items(get)
  /\ due[t] > 0 <=> t = adding \/ t \in Items(put) \/ linkedAt[t] # Never
  /\ Waits(t) => due[t] < jiffies + Reach[NVecs]
  /\ t \in stray => due[t] > 0
  /\ Holds(wheel, t) /\ t \notin stray => linkedAt[t] <= jiffies

Stages == \A t \in Timer : Stage(t)
Unset == control = "before" => stray = {}

Handed ==
  \A t \in Items(get) \ stray :
    IF linkedAt[t] <= due[t] THEN firedAt[t] = due[t] ELSE firedAt[t] < linkedAt[t] + R

Inv ==
  /\ TypeOK /\ Indexed
  /\ Once(wheel) /\ Injective(put) /\ Injective(get)
  /\ AllFit(wheel, linkedAt, Lows(jiffies))
  /\ Stages /\ Unset /\ Handed

-----------------------------------------------------------------------------
(* Induction, as the least number principle. *)
LEMMA LeastIn ==
  ASSUME NEW Q, IsWellFoundedOn(Q, Nat), \A x, y \in Nat : y < x => <<y, x>> \in Q,
         NEW T, T \subseteq Nat, T # {}
  PROVE  \E x \in T : \A y \in T : x <= y
<1>1. PICK x \in T : \A y \in T : ~ (<<y, x>> \in Q)
  BY WFMin, Zenon
<1>2. \A y \in T : ~(y < x)
  BY <1>1
<1>. QED
  BY <1>2

LEMMA LeastNat ==
  ASSUME NEW T, T \subseteq Nat, T # {}
  PROVE  \E x \in T : \A y \in T : x <= y
<1>1. \A x, y \in Nat : y < x => <<y, x>> \in OpToRel(<, Nat)
  BY DEF OpToRel
<1>. QED
  BY <1>1, NatLessThanWellFounded, LeastIn, Zenon

(* A step taken m times leads somewhere: what the recursive functions of   *)
(* the wheel need to have the values their definitions say.                *)
IsRun(f, S, a, m, step) ==
  f \in [0..m -> S] /\ f[0] = a /\ \A k \in 1..m : f[k] = step[<<f[k - 1], k>>]

LEMMA Iterates ==
  ASSUME NEW S, NEW a \in S, NEW m \in Nat, NEW step \in [S \X (1..m) -> S]
  PROVE  \E f : IsRun(f, S, a, m, step)
<1>. DEFINE Good(j) ==
       \E f \in [0..j -> S] : f[0] = a /\ \A k \in 1..j : f[k] = step[<<f[k - 1], k>>]
     Bad == {j \in 0..m : ~Good(j)}
<1>1. Good(0)
  <2>1. [k \in 0..0 |-> a] \in [0..0 -> S]
    OBVIOUS
  <2>2. [k \in 0..0 |-> a][0] = a
    OBVIOUS
  <2>3. 1..0 = {}
    OBVIOUS
  <2>. QED
    BY <2>1, <2>2, <2>3
<1>2. ASSUME NEW j \in Nat, j + 1 <= m, Good(j)  PROVE Good(j + 1)
  <2>1. PICK f \in [0..j -> S] : f[0] = a /\ \A k \in 1..j : f[k] = step[<<f[k - 1], k>>]
    BY <1>2
  <2>. DEFINE v == step[<<f[j], j + 1>>]
              g == [k \in 0..(j + 1) |-> IF k = j + 1 THEN v ELSE f[k]]
  <2>2. v \in S
    BY <1>2, <2>1
  <2>3. g \in [0..(j + 1) -> S]
    <3>. SUFFICES ASSUME NEW k \in 0..(j + 1)  PROVE (IF k = j + 1 THEN v ELSE f[k]) \in S
      BY Zenon
    <3>1. k # j + 1 => k \in 0..j
      OBVIOUS
    <3>. QED
      BY <2>2, <3>1
  <2>4. g[0] = a
    BY <2>1
  <2>5. ASSUME NEW k \in 1..(j + 1)  PROVE g[k] = step[<<g[k - 1], k>>]
    <3>. HIDE DEF v
    <3>1. CASE k = j + 1
      <4>1. g[k] = v /\ g[k - 1] = f[j]
        BY <3>1
      <4>2. v = step[<<f[j], k>>]
        BY <3>1 DEF v
      <4>. HIDE DEF g
      <4>. QED
        BY <4>1, <4>2
    <3>2. CASE k # j + 1
      <4>1. k \in 1..j /\ k - 1 \in 0..(j + 1) /\ k - 1 # j + 1 /\ k \in 0..(j + 1)
        BY <3>2
      <4>2. g[k] = f[k] /\ g[k - 1] = f[k - 1]
        BY <3>2, <4>1
      <4>. HIDE DEF g
      <4>. QED
        BY <2>1, <4>1, <4>2
    <3>. QED
      BY <3>1, <3>2
  <2>. HIDE DEF g
  <2>. QED
    BY <2>3, <2>4, <2>5
<1>. HIDE DEF Good
<1>3. Bad = {}
  <2>. SUFFICES ASSUME Bad # {}  PROVE FALSE
    OBVIOUS
  <2>. HIDE DEF Bad
  <2>0. Bad \subseteq Nat /\ Bad \subseteq 0..m
    BY DEF Bad
  <2>1. PICK x \in Bad : \A y \in Bad : x <= y
    BY <2>0, LeastNat
  <2>2. x \in 0..m /\ ~Good(x)
    BY DEF Bad
  <2>3. x # 0
    BY <1>1, <2>2
  <2>4. x - 1 \in 0..m /\ x - 1 \notin Bad
    BY <2>0, <2>1, <2>2, <2>3
  <2>5. Good(x - 1)
    BY <2>4 DEF Bad
  <2>. QED
    BY <1>2, <2>2, <2>3, <2>4, <2>5
<1>. QED
  BY <1>3 DEF Good, IsRun

-----------------------------------------------------------------------------
(* The arithmetic of the vectors.  u jiffies are a slot, s slots a vector. *)

LEMMA Division ==
  ASSUME NEW a \in Int, NEW u \in Nat \ {0}
  PROVE  /\ a \div u \in Int /\ a % u \in 0..(u - 1)
         /\ a = u * (a \div u) + (a % u)
OBVIOUS

LEMMA DivisionIs ==
  ASSUME NEW a \in Int, NEW u \in Nat \ {0}, NEW q \in Int, NEW r \in 0..(u - 1), a = u * q + r
  PROVE  a \div u = q /\ a % u = r
OBVIOUS

(* Products of natural numbers grow with their factors. *)
LEMMA Times ==
  ASSUME NEW u \in Nat, NEW x \in Int, NEW y \in Int, x <= y
  PROVE  u * x <= u * y
OBVIOUS

LEMMA TimesLess ==
  ASSUME NEW u \in Nat \ {0}, NEW x \in Int, NEW y \in Int
  PROVE  u * x < u * y <=> x < y
<1>1. x < y => u * x < u * y
  OBVIOUS
<1>2. y <= x => u * y <= u * x
  BY Times
<1>. QED
  BY <1>1, <1>2

(* In s consecutive numbers no two have the same remainder. *)
LEMMA Turn ==
  ASSUME NEW s \in Nat \ {0}, NEW x \in Int, NEW y \in Int, x % s = y % s, x <= y, y < x + s
  PROVE  x = y
<1>1. x = s * (x \div s) + (x % s) /\ y = s * (y \div s) + (y % s)
  BY Division
<1>2. x \div s \in Int /\ y \div s \in Int /\ x % s \in Int
  BY Division
<1>. DEFINE d == (y \div s) - (x \div s)
<1>3. y - x = s * d
  BY <1>1, <1>2
<1>4. d \in Int
  BY <1>2
<1>. HIDE DEF d
<1>5. s * d < s * 1 /\ s * 0 <= s * d
  BY <1>3
<1>6. d = 0
  BY <1>4, <1>5, TimesLess
<1>. QED
  BY <1>3, <1>6

LEMMA Scale ==
  ASSUME NEW u \in Nat \ {0}, NEW s \in Nat \ {0}, NEW c \in Int
  PROVE  (u * c) % (u * s) = u * (c % s)
<1>. DEFINE d == c \div s
            e == c % s
<1>1. d \in Int /\ e \in 0..(s - 1) /\ c = s * d + e
  BY Division
<1>. HIDE DEF d, e
<1>2. u * e < u * s /\ u * 0 <= u * e
  BY <1>1, TimesLess, Times
<1>3. u * c = (u * s) * d + u * e
  BY <1>1
<1>4. u * s \in Nat \ {0} /\ u * e \in Nat
  BY <1>1, <1>2
<1>5. u * c \in Int /\ u * e \in 0..(u * s - 1)
  BY <1>2, <1>4
<1>6. (u * c) % (u * s) = u * e
  BY <1>1, <1>3, <1>4, <1>5, DivisionIs, Zenon
<1>. QED
  BY <1>6 DEF e

(* The jiffies a vector spans. *)
LEMMA ReachIs ==
  ASSUME NEW n \in Vec
  PROVE  /\ Reach[n] \in Nat \ {0}
         /\ n = 1 => Reach[n] = R
         /\ n # 1 => n - 1 \in Vec /\ Reach[n] = Reach[n - 1] * N
<1>. DEFINE step == [p \in (Nat \ {0}) \X (1..(NVecs - 1)) |-> p[1] * N]
<1>1. step \in [(Nat \ {0}) \X (1..(NVecs - 1)) -> Nat \ {0}]
  BY WheelAssumption
<1>2. R \in Nat \ {0} /\ NVecs - 1 \in Nat /\ NVecs \in Nat
  BY WheelAssumption
<1>. HIDE DEF step
<1>3. PICK f \in [0..(NVecs - 1) -> Nat \ {0}] :
        f[0] = R /\ \A k \in 1..(NVecs - 1) : f[k] = step[<<f[k - 1], k>>]
  <2>. DEFINE S == Nat \ {0}
              m == NVecs - 1
  <2>1. step \in [S \X (1..m) -> S] /\ R \in S /\ m \in Nat
    BY <1>1, <1>2
  <2>. HIDE DEF S, m
  <2>2. \E f : IsRun(f, S, R, m, step)
    BY <2>1, Iterates
  <2>. QED
    BY <2>2 DEF S, m, IsRun
<1>4. ASSUME NEW k \in 1..(NVecs - 1)  PROVE f[k] = f[k - 1] * N
  <2>1. k - 1 \in 0..(NVecs - 1)
    BY <1>2
  <2>2. <<f[k - 1], k>> \in (Nat \ {0}) \X (1..(NVecs - 1))
    BY <1>3, <2>1
  <2>. QED
    BY <1>3, <2>2 DEF step
<1>. DEFINE g == [m \in Vec |-> f[m - 1]]
            h == [m \in Vec |-> IF m = 1 THEN R ELSE g[m - 1] * N]
<1>5. ASSUME NEW m \in Vec  PROVE g[m] = h[m]
  <2>1. CASE m = 1
    BY <1>3, <2>1
  <2>2. CASE m # 1
    <3>1. m - 1 \in Vec /\ m - 1 \in 1..(NVecs - 1) /\ (m - 1) - 1 = m - 2
      BY <1>2, <2>2 DEF Vec
    <3>2. g[m - 1] = f[(m - 1) - 1]
      BY <3>1
    <3>3. f[m - 1] = f[(m - 1) - 1] * N
      BY <1>4, <3>1
    <3>. QED
      BY <2>2, <3>2, <3>3
  <2>. QED
    BY <2>1, <2>2
<1>6. g = h
  BY <1>5
<1>7. g = [m \in Vec |-> IF m = 1 THEN R ELSE g[m - 1] * N]
  BY <1>6
<1>8. Reach = [m \in Vec |-> IF m = 1 THEN R ELSE Reach[m - 1] * N]
  <2>. HIDE DEF g
  <2>. QED
    BY <1>7 DEF Reach
<1>. QED
  <2>1. Reach[n] = IF n = 1 THEN R ELSE Reach[n - 1] * N
    BY <1>8
  <2>2. n # 1 => n - 1 \in Vec
    BY <1>2 DEF Vec
  <2>. DEFINE Bad == {m \in Vec : Reach[m] \notin Nat \ {0}}
  <2>3. Bad = {}
    <3>. SUFFICES ASSUME Bad # {}  PROVE FALSE
      OBVIOUS
    <3>1. Bad \subseteq Nat
      BY DEF Vec
    <3>2. PICK x \in Bad : \A y \in Bad : x <= y
      <4>. HIDE DEF Bad
      <4>. QED
        BY <3>1, LeastNat
    <3>3. x # 1
      BY <1>2, <1>8
    <3>4. x - 1 \in Vec /\ ~(x <= x - 1)
      BY <3>3, <1>2 DEF Vec
    <3>5. Reach[x - 1] \in Nat \ {0}
      BY <3>2, <3>4
    <3>6. Reach[x] = Reach[x - 1] * N
      BY <1>8, <3>3
    <3>. QED
      BY <3>5, <3>6, WheelAssumption
  <2>. QED
    BY <2>1, <2>2, <2>3

LEMMA UnitIs ==
  ASSUME NEW n \in Vec
  PROVE  /\ Unit(n) \in Nat \ {0} /\ Size(n) \in Nat \ {0, 1}
         /\ Reach[n] = Unit(n) * Size(n)
         /\ n = 1 => Unit(n) = 1
         /\ n # 1 => n - 1 \in Vec /\ Unit(n) = Reach[n - 1]
<1>1. n # 1 => n - 1 \in Vec
  BY ReachIs
<1>2. n # 1 => Reach[n - 1] \in Nat \ {0}
  BY <1>1, ReachIs
<1>. QED
  BY <1>1, <1>2, ReachIs, WheelAssumption DEF Unit, Size

-----------------------------------------------------------------------------
(* Where the clock has got to in tv_n. *)

LEMMA ComingType ==
  ASSUME NEW n \in Vec, NEW j \in Nat
  PROVE  Coming(n, j) \in Nat
<1>. DEFINE u == Unit(n)
            d == (j - 1) \div u
<1>1. u \in Nat \ {0}
  BY UnitIs
<1>. HIDE DEF u
<1>2. d \in Int /\ (j - 1) % u \in 0..(u - 1) /\ j - 1 = u * d + ((j - 1) % u)
  <2>1. j - 1 \in Int
    OBVIOUS
  <2>. QED
    BY <1>1, <2>1, Division
<1>3. u * (0 - 1) < u * (d + 1)
  BY <1>1, <1>2
<1>. HIDE DEF d
<1>4. 0 - 1 < d + 1
  BY <1>1, <1>2, <1>3, TimesLess
<1>. QED
  BY <1>2, <1>4 DEF d, u, Coming

LEMMA ComingRoot ==
  ASSUME NEW j \in Nat, NEW n \in Vec, n = 1
  PROVE  Coming(n, j) = j
<1>1. (j - 1) \div 1 = j - 1
  OBVIOUS
<1>. QED
  BY <1>1, UnitIs DEF Coming

(* A slot of tv_n starts at jiffy j. *)
LEMMA ComingAt ==
  ASSUME NEW n \in Vec, NEW j \in Nat, j % Unit(n) = 0
  PROVE  /\ Coming(n, j) = j \div Unit(n)
         /\ Coming(n, j + 1) = Coming(n, j) + 1
         /\ j = Unit(n) * Coming(n, j)
<1>. DEFINE u == Unit(n)
            c == j \div u
<1>1. u \in Nat \ {0}
  BY UnitIs
<1>. HIDE DEF u
<1>2. c \in Int /\ j = u * c
  <2>1. j \in Int /\ j % u = 0
    BY DEF u
  <2>2. c \in Int /\ j = u * c + (j % u)
    BY <1>1, <2>1, Division
  <2>. HIDE DEF c
  <2>. QED
    BY <1>1, <2>1, <2>2
<1>. HIDE DEF c
<1>3. j - 1 = u * (c - 1) + (u - 1)
  BY <1>1, <1>2
<1>4. (j - 1) \div u = c - 1
  <2>1. u - 1 \in 0..(u - 1) /\ c - 1 \in Int /\ j - 1 \in Int
    BY <1>1, <1>2
  <2>. QED
    BY <1>1, <1>3, <2>1, DivisionIs
<1>. QED
  BY <1>2, <1>4 DEF u, c, Coming

(* No slot of tv_n starts at jiffy j. *)
LEMMA ComingBetween ==
  ASSUME NEW n \in Vec, NEW j \in Nat, j % Unit(n) # 0
  PROVE  Coming(n, j + 1) = Coming(n, j)
<1>. DEFINE u == Unit(n)
            c == j \div u
            r == j % u
<1>1. u \in Nat \ {0}
  BY UnitIs
<1>. HIDE DEF u
<1>2. c \in Int /\ r \in 0..(u - 1) /\ j = u * c + r
  BY <1>1, Division
<1>3. r # 0
  BY DEF u
<1>. HIDE DEF c, r
<1>4. j - 1 = u * c + (r - 1) /\ r - 1 \in 0..(u - 1)
  BY <1>1, <1>2, <1>3
<1>5. (j - 1) \div u = c
  <2>1. j - 1 \in Int
    OBVIOUS
  <2>. QED
    BY <1>1, <1>2, <1>4, <2>1, DivisionIs
<1>. QED
  BY <1>5 DEF u, c, Coming

(* What lies from one slot to a turn of the vector ahead is wanted after   *)
(* the present slot and before that comes round again.                     *)
LEMMA Window ==
  ASSUME NEW u \in Nat \ {0}, NEW s \in Nat \ {0}, NEW j \in Nat, NEW d \in Nat,
         u <= d - j, d - j < u * s
  PROVE  /\ 1 + (j \div u) <= d \div u
         /\ d \div u < 1 + ((j - 1) \div u) + s
<1>. DEFINE q == d \div u
            c == j \div u
            b == (j - 1) \div u
<1>1. q \in Int /\ d % u \in 0..(u - 1) /\ d = u * q + (d % u)
  BY Division
<1>2. c \in Int /\ j % u \in 0..(u - 1) /\ j = u * c + (j % u)
  BY Division
<1>3. b \in Int /\ (j - 1) % u \in 0..(u - 1) /\ j - 1 = u * b + ((j - 1) % u)
  <2>1. j - 1 \in Int
    OBVIOUS
  <2>. QED
    BY <2>1, Division
<1>. HIDE DEF q, c, b
<1>4. u * (c + 1) < u * (q + 1)
  BY <1>1, <1>2
<1>5. u * q < u * (b + s + 1)
  BY <1>1, <1>3
<1>6. c + 1 < q + 1
  BY <1>1, <1>2, <1>4, TimesLess
<1>7. q < b + s + 1
  <2>1. b + s + 1 \in Int
    BY <1>3
  <2>. QED
    BY <1>1, <1>5, <2>1, TimesLess
<1>. QED
  BY <1>1, <1>2, <1>3, <1>6, <1>7 DEF q, c, b

LEMMA CascadingIs ==
  ASSUME jiffies \in Nat, Indexed, NEW n \in Vec, n # 1
  PROVE  n \in Cascading <=> jiffies % Unit(n) = 0
<1>. DEFINE Right(x) == x \in Cascading <=> jiffies % Unit(x) = 0
            Bad == {x \in Vec \ {1} : ~Right(x)}
<1>0. NVecs \in Nat \ {0, 1}
  BY WheelAssumption
<1>1. Right(2)
  <2>1. 2 \in Vec /\ 1 \in Vec
    BY <1>0 DEF Vec
  <2>2. 2 \in Cascading <=> index[1] = 0
    <3>1. 2..(2 - 1) = {}
      OBVIOUS
    <3>2. 2 \in 2..NVecs
      BY <1>0
    <3>. QED
      BY <3>1, <3>2 DEF Cascading
  <2>3. index[1] = jiffies % R
    BY <2>1, ComingRoot DEF Indexed, Size
  <2>4. Unit(2) = R
    BY <2>1, ReachIs DEF Unit
  <2>. QED
    BY <2>2, <2>3, <2>4
<1>2. ASSUME NEW x \in Vec, x # 1, x + 1 \in Vec, Right(x)  PROVE Right(x + 1)
  <2>0. x \in 2..NVecs /\ x + 1 \in 2..NVecs
    BY <1>0, <1>2 DEF Vec
  <2>1. x + 1 \in Cascading <=> x \in Cascading /\ index[x] = 0
    <3>1. 2..((x + 1) - 1) = (2..(x - 1)) \union {x}
      BY <2>0
    <3>. HIDE DEF Vec
    <3>. QED
      BY <2>0, <3>1 DEF Cascading
  <2>. DEFINE u == Unit(x)
  <2>2. u \in Nat \ {0} /\ Unit(x + 1) = u * N /\ Size(x) = N /\ N \in Nat \ {0}
    <3>1. Unit(x + 1) = Reach[(x + 1) - 1] /\ (x + 1) - 1 = x
      BY <2>0 DEF Unit
    <3>. QED
      BY <1>2, <3>1, UnitIs, WheelAssumption DEF Size
  <2>3. CASE jiffies % u = 0
    <3>. DEFINE c == Coming(x, jiffies)
    <3>1. jiffies = u * c /\ c \in Nat /\ c \in Int
      BY <2>3, ComingAt, ComingType
    <3>2. index[x] = c % N
      BY <2>2 DEF Indexed
    <3>. HIDE DEF c, u
    <3>3. jiffies % (u * N) = u * (c % N)
      BY <2>2, <3>1, Scale
    <3>4. c % N \in 0..(N - 1)
      BY <2>2, <3>1, Division
    <3>5. jiffies % (u * N) = 0 <=> c % N = 0
      BY <2>2, <3>3, <3>4
    <3>6. x \in Cascading
      BY <1>2, <2>3 DEF u
    <3>. QED
      BY <2>1, <2>2, <3>2, <3>5, <3>6
  <2>4. CASE jiffies % u # 0
    <3>1. x \notin Cascading
      BY <1>2, <2>4
    <3>. HIDE DEF u
    <3>2. ASSUME jiffies % (u * N) = 0  PROVE FALSE
      <4>. DEFINE d == jiffies \div (u * N)
      <4>1. u * N \in Nat \ {0}
        BY <2>2
      <4>2. d \in Int /\ jiffies = (u * N) * d
        <5>0. jiffies \in Int
          OBVIOUS
        <5>1. d \in Int /\ jiffies = (u * N) * d + (jiffies % (u * N))
          BY <4>1, <5>0, Division
        <5>. HIDE DEF d
        <5>. QED
          BY <3>2, <4>1, <5>1
      <4>. HIDE DEF d
      <4>3. jiffies = u * (N * d) + 0 /\ N * d \in Int /\ 0 \in 0..(u - 1)
        BY <2>2, <4>2
      <4>4. jiffies % u = 0
        BY <2>2, <4>3, DivisionIs
      <4>. QED
        BY <2>4, <4>4
    <3>. QED
      BY <2>1, <2>2, <3>1, <3>2
  <2>. QED
    BY <2>3, <2>4
<1>. HIDE DEF Right
<1>3. Bad = {}
  <2>. SUFFICES ASSUME Bad # {}  PROVE FALSE
    OBVIOUS
  <2>1. Bad \subseteq Nat
    BY DEF Vec
  <2>2. PICK x \in Bad : \A y \in Bad : x <= y
    <3>. HIDE DEF Bad
    <3>. QED
      BY <2>1, LeastNat
  <2>3. x \in Vec /\ x # 1 /\ ~Right(x)
    OBVIOUS
  <2>4. x # 2 /\ x \in Nat
    BY <1>1, <2>3 DEF Vec
  <2>5. x - 1 \in Vec /\ x - 1 # 1 /\ ~(x <= x - 1) /\ (x - 1) + 1 = x
    BY <1>0, <2>3, <2>4 DEF Vec
  <2>6. Right(x - 1)
    BY <2>2, <2>5
  <2>. QED
    BY <1>2, <2>3, <2>5, <2>6
<1>. QED
  BY <1>3 DEF Right

-----------------------------------------------------------------------------
(* The place of a timer. *)

LEMMA LevelIs ==
  ASSUME NEW idx \in Nat, idx < Reach[NVecs]
  PROVE  /\ Level(idx) \in Vec
         /\ idx < Reach[Level(idx)]
         /\ Level(idx) # 1 => Unit(Level(idx)) <= idx
         /\ \A n \in Vec : n # 1 /\ idx < Unit(n) => Level(idx) < n
<1>0. NVecs \in Nat \ {0, 1} /\ NVecs \in Vec
  BY WheelAssumption DEF Vec
<1>. DEFINE Wide == {n \in Vec : idx < Reach[n]}
<1>1. Wide \subseteq Nat /\ Wide # {}
  BY <1>0 DEF Vec
<1>2. PICK x \in Wide : \A y \in Wide : x <= y
  <2>. HIDE DEF Wide
  <2>. QED
    BY <1>1, LeastNat
<1>3. \A m \in 1..(x - 1) : idx >= Reach[m]
  <2>. SUFFICES ASSUME NEW m \in 1..(x - 1)  PROVE idx >= Reach[m]
    OBVIOUS
  <2>1. m \in Vec /\ ~(x <= m)
    BY <1>0, <1>1 DEF Vec
  <2>2. ~(idx < Reach[m])
    BY <1>2, <2>1
  <2>3. Reach[m] \in Nat
    BY <2>1, ReachIs
  <2>. QED
    BY <2>2, <2>3
<1>. DEFINE l == Level(idx)
<1>4. l \in Vec /\ idx < Reach[l] /\ \A m \in 1..(l - 1) : idx >= Reach[m]
  BY <1>2, <1>3 DEF Level
<1>. HIDE DEF l
<1>5. l # 1 => Unit(l) <= idx
  <2>. SUFFICES ASSUME l # 1  PROVE Unit(l) <= idx
    OBVIOUS
  <2>1. l - 1 \in 1..(l - 1) /\ l - 1 \in Vec
    BY <1>0, <1>4 DEF Vec
  <2>2. Unit(l) = Reach[l - 1] /\ Reach[l - 1] \in Nat
    BY <2>1, ReachIs DEF Unit
  <2>. QED
    BY <1>4, <2>1, <2>2
<1>6. ASSUME NEW n \in Vec, n # 1, idx < Unit(n)  PROVE l < n
  <2>. SUFFICES ASSUME ~(l < n)  PROVE FALSE
    OBVIOUS
  <2>1. n - 1 \in 1..(l - 1) /\ n - 1 \in Vec
    BY <1>0, <1>4, <1>6 DEF Vec
  <2>2. Unit(n) = Reach[n - 1] /\ Reach[n - 1] \in Nat
    BY <1>6, <2>1, ReachIs DEF Unit
  <2>. QED
    BY <1>4, <1>6, <2>1, <2>2
<1>. QED
  BY <1>4, <1>5, <1>6 DEF l

Ahead(t) == IF due[t] - jiffies < 1 THEN 1 ELSE due[t] - jiffies
Vector(t) == Level(Ahead(t))
Slot(t) == Wanted(Vector(t), t) % Size(Vector(t))

(* Within the reach of the wheel a timer gets a slot it fits, after the    *)
(* slots that cascade at this jiffy; an overdue one a slot of tv1.         *)
LEMMA PlaceIs ==
  ASSUME jiffies \in Nat, due \in [Timer -> Nat], NEW t \in Timer,
         due[t] < jiffies + Reach[NVecs]
  PROVE  /\ Vector(t) \in Vec /\ Slot(t) \in Slots(Vector(t))
         /\ due[t] < jiffies => Vector(t) = 1
         /\ Vector(t) = 1 /\ jiffies <= due[t] => Wanted(1, t) = due[t] /\ due[t] < jiffies + R
         /\ Vector(t) # 1 => /\ Coming(Vector(t), jiffies + 1) <= Wanted(Vector(t), t)
                             /\ Wanted(Vector(t), t) < Coming(Vector(t), jiffies) + N
                             /\ jiffies < due[t]
         /\ \A n \in Vec : n # 1 /\ due[t] < jiffies + Unit(n) => Vector(t) < n
<1>0. NVecs \in Vec /\ 1 \in Vec /\ R \in Nat \ {0, 1} /\ N \in Nat \ {0, 1}
  BY WheelAssumption DEF Vec
<1>1. Ahead(t) \in Nat \ {0} /\ due[t] \in Nat
  BY DEF Ahead
<1>2. \A n \in Vec : n # 1 => Unit(n) \in Nat /\ Unit(n) > 1
  <2>. SUFFICES ASSUME NEW n \in Vec, n # 1  PROVE Unit(n) \in Nat /\ Unit(n) > 1
    OBVIOUS
  <2>1. n - 1 \in Vec /\ Unit(n) = Reach[n - 1] /\ Unit(n - 1) \in Nat \ {0}
            /\ Size(n - 1) \in Nat \ {0, 1} /\ Reach[n - 1] = Unit(n - 1) * Size(n - 1)
    BY UnitIs
  <2>2. Unit(n - 1) * 1 < Unit(n - 1) * Size(n - 1)
    BY <2>1, TimesLess
  <2>. QED
    BY <2>1, <2>2
<1>3. Reach[NVecs] \in Nat /\ Reach[NVecs] > 1
  <2>1. Unit(NVecs) \in Nat \ {0} /\ Size(NVecs) \in Nat \ {0, 1}
            /\ Reach[NVecs] = Unit(NVecs) * Size(NVecs)
    BY <1>0, UnitIs
  <2>2. Unit(NVecs) * 1 < Unit(NVecs) * Size(NVecs)
    BY <2>1, TimesLess
  <2>. QED
    BY <2>1, <2>2
<1>4. Ahead(t) < Reach[NVecs]
  BY <1>1, <1>3 DEF Ahead
<1>. DEFINE l == Vector(t)
<1>5. /\ l \in Vec /\ Ahead(t) < Reach[l] /\ (l # 1 => Unit(l) <= Ahead(t))
      /\ \A n \in Vec : n # 1 /\ Ahead(t) < Unit(n) => l < n
  BY <1>1, <1>4, LevelIs DEF Vector
<1>. HIDE DEF l
<1>6. Unit(l) \in Nat \ {0} /\ Size(l) \in Nat \ {0, 1} /\ Reach[l] = Unit(l) * Size(l)
  BY <1>5, UnitIs
<1>7. Wanted(l, t) % Size(l) \in Slots(l)
  <2>1. Wanted(l, t) \in Int
    <3>1. due[t] \in Int
      BY <1>1
    <3>. QED
      BY <1>6, <3>1, Division DEF Wanted
  <2>2. Size(l) \in Nat \ {0}
    BY <1>6
  <2>. QED
    BY <2>1, <2>2, Division DEF Slots
<1>8. due[t] < jiffies => l = 1
  BY <1>1, <1>2, <1>5 DEF Ahead
<1>9. l = 1 /\ jiffies <= due[t] => Wanted(1, t) = due[t] /\ due[t] < jiffies + R
  <2>. SUFFICES ASSUME l = 1, jiffies <= due[t]
                PROVE  Wanted(1, t) = due[t] /\ due[t] < jiffies + R
    OBVIOUS
  <2>1. Unit(1) = 1 /\ Reach[1] = R
    BY <1>0, UnitIs, ReachIs
  <2>2. Wanted(1, t) = due[t]
    BY <1>1, <2>1 DEF Wanted
  <2>. QED
    BY <1>0, <1>1, <1>5, <2>1, <2>2 DEF Ahead
<1>10. ASSUME l # 1
       PROVE  /\ Coming(l, jiffies + 1) <= Wanted(l, t)
              /\ Wanted(l, t) < Coming(l, jiffies) + N
              /\ jiffies < due[t]
  <2>1. Unit(l) > 1 /\ Unit(l) <= Ahead(t)
    BY <1>2, <1>5, <1>10
  <2>2. Ahead(t) = due[t] - jiffies
    BY <1>1, <1>6, <2>1 DEF Ahead
  <2>3. Size(l) = N
    BY <1>10 DEF Size
  <2>. DEFINE u == Unit(l)
  <2>4. u \in Nat \ {0} /\ u <= due[t] - jiffies /\ due[t] - jiffies < u * N
    BY <1>5, <1>6, <2>1, <2>2, <2>3
  <2>. HIDE DEF u
  <2>5. 1 + (jiffies \div u) <= due[t] \div u /\ due[t] \div u < 1 + ((jiffies - 1) \div u) + N
    BY <1>0, <1>1, <2>4, Window
  <2>6. (jiffies + 1) - 1 = jiffies
    OBVIOUS
  <2>. QED
    BY <1>1, <2>4, <2>5, <2>6 DEF Coming, Wanted, u
<1>11. ASSUME NEW n \in Vec, n # 1, due[t] < jiffies + Unit(n)  PROVE l < n
  <2>1. Ahead(t) < Unit(n)
    BY <1>1, <1>2, <1>11 DEF Ahead
  <2>. QED
    BY <1>5, <1>11, <2>1
<1>. QED
  BY <1>5, <1>7, <1>8, <1>9, <1>10, <1>11 DEF l, Slot

-----------------------------------------------------------------------------
(* Timers in slots. *)

LEMMA IsWheel ==
  ASSUME NEW w
  PROVE  w \in Wheels <=> /\ w = [n \in Vec |-> w[n]]
                          /\ \A n \in Vec : w[n] \in [Slots(n) -> Seq(Timer)]
<1>1. w \in Wheels => w = [n \in Vec |-> w[n]]
  BY DEF Wheels
<1>2. ASSUME \A n \in Vec : w[n] \in [Slots(n) -> Seq(Timer)]
      PROVE  \A n \in Vec : w[n] \in UNION {[Slots(m) -> Seq(Timer)] : m \in Vec}
  <2>. SUFFICES ASSUME NEW n \in Vec  PROVE w[n] \in UNION {[Slots(m) -> Seq(Timer)] : m \in Vec}
    OBVIOUS
  <2>1. [Slots(n) -> Seq(Timer)] \in {[Slots(m) -> Seq(Timer)] : m \in Vec}
    OBVIOUS
  <2>. HIDE DEF Slots, Vec
  <2>. QED
    BY <1>2, <2>1, Zenon
<1>. HIDE DEF Vec, Slots
<1>. QED
  BY <1>1, <1>2 DEF Wheels

LEMMA AppendItems ==
  ASSUME NEW S, NEW s \in Seq(S), NEW t \in S
  PROVE  /\ Append(s, t) \in Seq(S)
         /\ DOMAIN Append(s, t) = DOMAIN s \union {Len(s) + 1}
         /\ Len(s) + 1 \notin DOMAIN s
         /\ \A k \in DOMAIN s : Append(s, t)[k] = s[k]
         /\ Append(s, t)[Len(s) + 1] = t
         /\ Items(Append(s, t)) = Items(s) \union {t}
<1>1. /\ Append(s, t) \in Seq(S)
      /\ DOMAIN Append(s, t) = DOMAIN s \union {Len(s) + 1}
      /\ Len(s) + 1 \notin DOMAIN s
      /\ \A k \in DOMAIN s : Append(s, t)[k] = s[k]
      /\ Append(s, t)[Len(s) + 1] = t
  OBVIOUS
<1>2. Items(Append(s, t)) \subseteq Items(s) \union {t}
  <2>. SUFFICES ASSUME NEW k \in DOMAIN Append(s, t)  PROVE Append(s, t)[k] \in Items(s) \union {t}
    BY DEF Items
  <2>1. CASE k = Len(s) + 1
    BY <1>1, <2>1
  <2>2. CASE k \in DOMAIN s
    BY <1>1, <2>2 DEF Items
  <2>. QED
    BY <1>1, <2>1, <2>2
<1>3. t \in Items(Append(s, t))
  BY <1>1, Zenon DEF Items
<1>4. ASSUME NEW k \in DOMAIN s  PROVE s[k] \in Items(Append(s, t))
  <2>1. k \in DOMAIN Append(s, t) /\ Append(s, t)[k] = s[k]
    BY <1>1
  <2>. QED
    BY <2>1, Zenon DEF Items
<1>. QED
  BY <1>1, <1>2, <1>3, <1>4 DEF Items

(* internal_add_timer is an append to the slot of the timer. *)
LEMMA AddIs ==
  ASSUME NEW w, NEW t
  PROVE  internal_add_timer(w, t) = [w EXCEPT ![Vector(t)][Slot(t)] = Append(@, t)]
BY DEF internal_add_timer, Vector, Slot, Ahead, Wanted

LEMMA AddType ==
  ASSUME NEW w \in Wheels, NEW t \in Timer
  PROVE  /\ internal_add_timer(w, t) \in Wheels
         /\ \A n \in Vec : \A i \in Slots(n) :
              internal_add_timer(w, t)[n][i] =
                IF n = Vector(t) /\ i = Slot(t) THEN Append(w[n][i], t) ELSE w[n][i]
<1>. DEFINE l == Vector(t)
            s == Slot(t)
            v == [w EXCEPT ![l][s] = Append(@, t)]
<1>0. internal_add_timer(w, t) = v
  BY AddIs
<1>. HIDE DEF l, s, Vec, Slots
<1>1. w = [n \in Vec |-> w[n]] /\ \A n \in Vec : w[n] \in [Slots(n) -> Seq(Timer)]
  BY IsWheel
<1>2. v = [n \in Vec |-> v[n]]
  BY <1>1
<1>3. ASSUME NEW n \in Vec, NEW i \in Slots(n)
      PROVE  /\ v[n][i] = IF n = l /\ i = s THEN Append(w[n][i], t) ELSE w[n][i]
             /\ v[n][i] \in Seq(Timer)
  <2>1. v[n] = IF n = l THEN [w[n] EXCEPT ![s] = Append(@, t)] ELSE w[n]
    BY <1>1
  <2>2. w[n] \in [Slots(n) -> Seq(Timer)]
    BY <1>1
  <2>3. v[n][i] = IF n = l /\ i = s THEN Append(w[n][i], t) ELSE w[n][i]
    BY <2>1, <2>2
  <2>4. w[n][i] \in Seq(Timer) /\ Append(w[n][i], t) \in Seq(Timer)
    BY <2>2, AppendProperties
  <2>. QED
    BY <2>3, <2>4
<1>4. ASSUME NEW n \in Vec  PROVE v[n] \in [Slots(n) -> Seq(Timer)]
  <2>1. v[n] = IF n = l THEN [w[n] EXCEPT ![s] = Append(@, t)] ELSE w[n]
    BY <1>1
  <2>2. w[n] = [i \in Slots(n) |-> w[n][i]]
    BY <1>1
  <2>3. v[n] = [i \in Slots(n) |-> v[n][i]]
    BY <2>1, <2>2
  <2>. HIDE DEF v
  <2>. QED
    BY <1>3, <2>3
<1>5. v \in Wheels
  <2>. HIDE DEF v
  <2>. QED
    BY <1>2, <1>4, IsWheel
<1>. QED
  BY <1>0, <1>3, <1>5 DEF l, s

Places(t) == Vector(t) \in Vec /\ Slot(t) \in Slots(Vector(t))

LEMMA OnceAt ==
  ASSUME NEW w, Once(w),
         NEW n1 \in Vec, NEW i1 \in Slots(n1), NEW k1 \in DOMAIN w[n1][i1],
         NEW n2 \in Vec, NEW i2 \in Slots(n2), NEW k2 \in DOMAIN w[n2][i2],
         w[n1][i1][k1] = w[n2][i2][k2]
  PROVE  n1 = n2 /\ i1 = i2 /\ k1 = k2
<1>. HIDE DEF Vec, Slots
<1>. QED
  BY DEF Once

(* Wheel v holds what w does and the timers of T, each in its place. *)
Gains(v, w, T) ==
  /\ v \in Wheels
  /\ Once(v)
  /\ \A x : Holds(v, x) <=> Holds(w, x) \/ x \in T
  /\ \A n \in Vec : \A i \in Slots(n) : \A x \in Items(v[n][i]) :
       x \in Items(w[n][i]) \/ (x \in T /\ n = Vector(x) /\ i = Slot(x))

LEMMA AddOne ==
  ASSUME NEW w \in Wheels, NEW t \in Timer, Places(t), Once(w), ~Holds(w, t),
         NEW v, v = internal_add_timer(w, t)
  PROVE  Gains(v, w, {t})
<1>. DEFINE At(n, i) == n = Vector(t) /\ i = Slot(t)
<1>. HIDE DEF Vec, Slots
<1>1. /\ v \in Wheels
      /\ \A n \in Vec : \A i \in Slots(n) :
           v[n][i] = IF At(n, i) THEN Append(w[n][i], t) ELSE w[n][i]
  BY AddType
<1>2. \A n \in Vec : \A i \in Slots(n) : w[n][i] \in Seq(Timer)
  BY IsWheel
<1>3. ASSUME NEW n \in Vec, NEW i \in Slots(n), At(n, i)
      PROVE  /\ Items(v[n][i]) = Items(w[n][i]) \union {t}
             /\ \A k \in DOMAIN v[n][i] :
                  \/ k = Len(w[n][i]) + 1 /\ v[n][i][k] = t
                  \/ k \in DOMAIN w[n][i] /\ v[n][i][k] = w[n][i][k]
  <2>1. v[n][i] = Append(w[n][i], t) /\ w[n][i] \in Seq(Timer)
    BY <1>1, <1>2, <1>3
  <2>. QED
    BY <2>1, AppendItems
<1>4. ASSUME NEW n \in Vec, NEW i \in Slots(n), ~At(n, i)
      PROVE  v[n][i] = w[n][i]
  BY <1>1, <1>4
<1>5. \A n \in Vec : \A i \in Slots(n) : \A x \in Items(v[n][i]) :
        x \in Items(w[n][i]) \/ (x = t /\ At(n, i))
  BY <1>3, <1>4
<1>6. \A x : Holds(v, x) <=> Holds(w, x) \/ x = t
  <2>. TAKE x
  <2>1. Holds(v, x) => Holds(w, x) \/ x = t
    BY <1>5 DEF Holds
  <2>2. Holds(w, x) => Holds(v, x)
    <3>1. \A n \in Vec : \A i \in Slots(n) : Items(w[n][i]) \subseteq Items(v[n][i])
      BY <1>3, <1>4
    <3>. QED
      BY <3>1 DEF Holds
  <2>3. x = t => Holds(v, x)
    <3>1. Vector(t) \in Vec /\ Slot(t) \in Slots(Vector(t)) /\ At(Vector(t), Slot(t))
      BY DEF Places
    <3>2. t \in Items(v[Vector(t)][Slot(t)])
      BY <1>3, <3>1
    <3>. QED
      BY <3>1, <3>2 DEF Holds
  <2>. QED
    BY <2>1, <2>2, <2>3
<1>7. ASSUME NEW n \in Vec, NEW i \in Slots(n), NEW k \in DOMAIN v[n][i]
      PROVE  \/ v[n][i][k] = t /\ At(n, i) /\ k = Len(w[n][i]) + 1
             \/ v[n][i][k] # t /\ k \in DOMAIN w[n][i] /\ v[n][i][k] = w[n][i][k]
  <2>1. \A l \in DOMAIN w[n][i] : w[n][i][l] # t
    BY DEF Holds, Items
  <2>2. CASE At(n, i)
    BY <1>3, <2>1, <2>2
  <2>3. CASE ~At(n, i)
    BY <1>4, <2>1, <2>3
  <2>. QED
    BY <2>2, <2>3
<1>8. Once(v)
  <2>. SUFFICES ASSUME NEW n1 \in Vec, NEW n2 \in Vec, NEW i1 \in Slots(n1), NEW i2 \in Slots(n2),
                       NEW k1 \in DOMAIN v[n1][i1], NEW k2 \in DOMAIN v[n2][i2],
                       v[n1][i1][k1] = v[n2][i2][k2]
                PROVE  n1 = n2 /\ i1 = i2 /\ k1 = k2
    BY DEF Once
  <2>1. CASE v[n1][i1][k1] = t
    <3>1. At(n1, i1) /\ k1 = Len(w[n1][i1]) + 1
      BY <1>7, <2>1
    <3>2. At(n2, i2) /\ k2 = Len(w[n2][i2]) + 1
      BY <1>7, <2>1
    <3>3. n1 = n2 /\ i1 = i2
      BY <3>1, <3>2
    <3>4. Len(w[n1][i1]) = Len(w[n2][i2])
      BY <3>3
    <3>. QED
      BY <3>1, <3>2, <3>3, <3>4
  <2>2. CASE v[n1][i1][k1] # t
    <3>1. k1 \in DOMAIN w[n1][i1] /\ v[n1][i1][k1] = w[n1][i1][k1]
      BY <1>7, <2>2
    <3>2. k2 \in DOMAIN w[n2][i2] /\ v[n2][i2][k2] = w[n2][i2][k2]
      BY <1>7, <2>2
    <3>3. w[n1][i1][k1] = w[n2][i2][k2]
      BY <3>1, <3>2
    <3>. QED
      BY <3>1, <3>2, <3>3, OnceAt
  <2>. QED
    BY <2>1, <2>2
<1>. QED
  BY <1>1, <1>5, <1>6, <1>8 DEF Gains

-----------------------------------------------------------------------------
(* Lists of timers are added one by one. *)

IsAdding(f, w, list) ==
  /\ f \in [0..Len(list) -> Wheels]
  /\ f[0] = w
  /\ \A k \in 1..Len(list) : f[k] = internal_add_timer(f[k - 1], list[k])

LEMMA AddAllRuns ==
  ASSUME NEW w \in Wheels, NEW list \in Seq(Timer)
  PROVE  \E f : IsAdding(f, w, list) /\ AddAll(w, list) = f[Len(list)]
<1>. DEFINE m == Len(list)
            step == [p \in Wheels \X (1..m) |-> internal_add_timer(p[1], list[p[2]])]
<1>0. m \in Nat /\ \A k \in 1..m : list[k] \in Timer
  OBVIOUS
<1>. HIDE DEF m
<1>1. step \in [Wheels \X (1..m) -> Wheels]
  <2>. SUFFICES ASSUME NEW p \in Wheels \X (1..m)
                PROVE  internal_add_timer(p[1], list[p[2]]) \in Wheels
    BY Zenon
  <2>1. p[1] \in Wheels /\ p[2] \in 1..m
    OBVIOUS
  <2>. QED
    BY <1>0, <2>1, AddType
<1>. HIDE DEF step
<1>2. PICK f : IsRun(f, Wheels, w, m, step)
  BY <1>0, <1>1, Iterates
<1>3. f \in [0..m -> Wheels] /\ f[0] = w /\ \A k \in 1..m : f[k] = step[<<f[k - 1], k>>]
  BY <1>2 DEF IsRun
<1>4. ASSUME NEW k \in 1..m  PROVE f[k] = internal_add_timer(f[k - 1], list[k])
  <2>1. k - 1 \in 0..m
    BY <1>0
  <2>2. <<f[k - 1], k>> \in Wheels \X (1..m)
    BY <1>3, <2>1
  <2>3. step[<<f[k - 1], k>>] = internal_add_timer(f[k - 1], list[k])
    BY <2>2 DEF step
  <2>. QED
    BY <1>3, <2>3
<1>5. IsAdding(f, w, list)
  BY <1>3, <1>4 DEF IsAdding, m
<1>. DEFINE ga == [k \in 0..Len(list) |->
                     IF k = 0 THEN w ELSE internal_add_timer(f[k - 1], list[k])]
<1>6. f = ga
  <2>1. \A k \in 0..m : k = 0 \/ k \in 1..m
    BY <1>0
  <2>2. \A k \in 0..m : f[k] = ga[k]
    BY <1>3, <1>4, <2>1 DEF m
  <2>. QED
    BY <1>3, <2>2 DEF m
<1>7. \E g : g = [k \in 0..Len(list) |-> IF k = 0 THEN w ELSE internal_add_timer(g[k - 1], list[k])]
  BY <1>6
<1>. DEFINE added == CHOOSE g :
        g = [k \in 0..Len(list) |-> IF k = 0 THEN w ELSE internal_add_timer(g[k - 1], list[k])]
<1>8. added = [k \in 0..Len(list) |-> IF k = 0 THEN w ELSE internal_add_timer(added[k - 1], list[k])]
  BY <1>7
<1>9. AddAll(w, list) = added[m]
  BY DEF AddAll, m
<1>. HIDE DEF added
<1>10. \A k \in 0..m : added[k] = f[k]
  <2>. DEFINE Bad == {k \in 0..m : added[k] # f[k]}
  <2>. SUFFICES ASSUME Bad # {}  PROVE FALSE
    OBVIOUS
  <2>1. Bad \subseteq Nat
    BY <1>0
  <2>2. PICK x \in Bad : \A y \in Bad : x <= y
    <3>. HIDE DEF Bad
    <3>. QED
      BY <2>1, LeastNat
  <2>3. added[0] = w
    BY <1>0, <1>8 DEF m
  <2>4. x # 0 /\ x \in 0..m
    BY <1>3, <2>3
  <2>5. x - 1 \in 0..m /\ ~(x <= x - 1) /\ x \in 1..m
    BY <1>0, <2>4
  <2>6. added[x - 1] = f[x - 1]
    BY <2>2, <2>5
  <2>7. added[x] = internal_add_timer(added[x - 1], list[x])
    BY <1>8, <2>4 DEF m
  <2>. QED
    BY <1>4, <2>5, <2>6, <2>7
<1>. QED
  BY <1>0, <1>5, <1>9, <1>10 DEF m

(* What adding a list comes to. *)
LEMMA AddingAll ==
  ASSUME NEW w \in Wheels, NEW list \in Seq(Timer), NEW f, IsAdding(f, w, list),
         Once(w), Injective(list), \A t \in Items(list) : Places(t) /\ ~Holds(w, t),
         NEW v, v = f[Len(list)]
  PROVE  Gains(v, w, Items(list))
<1>. DEFINE m == Len(list)
            Some(k) == {list[l] : l \in 1..k}
            Right(k) == Gains(f[k], w, Some(k))
<1>0. m \in Nat /\ DOMAIN list = 1..m
  OBVIOUS
<1>. HIDE DEF m
<1>1. f \in [0..m -> Wheels] /\ f[0] = w
      /\ \A k \in 1..m : f[k] = internal_add_timer(f[k - 1], list[k])
  BY DEF IsAdding, m
<1>2. Right(0)
  <2>1. Some(0) = {}
    OBVIOUS
  <2>. HIDE DEF Some
  <2>. QED
    BY <1>1, <2>1 DEF Gains
<1>3. ASSUME NEW k \in 1..m, Right(k - 1)  PROVE Right(k)
  <2>. DEFINE t == list[k]
  <2>1. t \in Timer /\ t \in Items(list) /\ k - 1 \in 0..m
    BY <1>0 DEF Items
  <2>2. f[k - 1] \in Wheels
    BY <1>1, <2>1
  <2>3. t \notin Some(k - 1)
    <3>. SUFFICES ASSUME NEW l \in 1..(k - 1), list[l] = t  PROVE FALSE
      OBVIOUS
    <3>1. l \in 1..m /\ l # k
      BY <1>0
    <3>. QED
      BY <1>0, <3>1 DEF Injective
  <2>4. Some(k) = Some(k - 1) \union {t}
    <3>1. 1..k = (1..(k - 1)) \union {k}
      BY <1>0
    <3>. QED
      BY <3>1
  <2>5. ~Holds(w, t) /\ Places(t)
    BY <2>1
  <2>. HIDE DEF t, Some
  <2>. DEFINE a == f[k - 1]
              b == f[k]
  <2>7. b = internal_add_timer(a, t)
    BY <1>1 DEF t
  <2>8. Gains(a, w, Some(k - 1))
    BY <1>3
  <2>. HIDE DEF a, b
  <2>9. a \in Wheels /\ Once(a) /\ ~Holds(a, t)
    BY <2>3, <2>5, <2>8 DEF Gains
  <2>10. Gains(b, a, {t})
    BY <2>1, <2>5, <2>7, <2>9, AddOne
  <2>11. Gains(b, w, Some(k))
    BY <2>4, <2>8, <2>10 DEF Gains
  <2>. QED
    BY <2>11 DEF b
<1>. HIDE DEF Right
<1>. DEFINE Bad == {k \in 0..m : ~Right(k)}
<1>4. Bad = {}
  <2>. SUFFICES ASSUME Bad # {}  PROVE FALSE
    OBVIOUS
  <2>1. Bad \subseteq Nat
    BY <1>0
  <2>2. PICK x \in Bad : \A y \in Bad : x <= y
    <3>. HIDE DEF Bad
    <3>. QED
      BY <2>1, LeastNat
  <2>3. x # 0 /\ x \in 0..m
    BY <1>2
  <2>4. x - 1 \in 0..m /\ ~(x <= x - 1) /\ x \in 1..m
    BY <1>0, <2>3
  <2>5. Right(x - 1)
    BY <2>2, <2>4
  <2>. QED
    BY <1>3, <2>4, <2>5
<1>5. m \in 0..m /\ Some(m) = Items(list) /\ v = f[m]
  BY <1>0 DEF Items, m
<1>6. Right(m)
  BY <1>4, <1>5
<1>. HIDE DEF Some
<1>. QED
  BY <1>5, <1>6 DEF Right

-----------------------------------------------------------------------------
(* One vector cascades. *)

Cleared(w, n, i) == [w EXCEPT ![n][i] = << >>]

LEMMA SlotIs ==
  ASSUME NEW w \in Wheels, NEW n \in Vec, NEW i \in Slots(n)
  PROVE  w[n][i] \in Seq(Timer)
<1>. HIDE DEF Vec, Slots
<1>. QED
  BY IsWheel

LEMMA SameWheel ==
  ASSUME NEW w \in Wheels, NEW v \in Wheels,
         \A n \in Vec : \A i \in Slots(n) : w[n][i] = v[n][i]
  PROVE  w = v
<1>. HIDE DEF Vec, Slots
<1>1. ASSUME NEW n \in Vec  PROVE w[n] = v[n]
  <2>1. w[n] \in [Slots(n) -> Seq(Timer)] /\ v[n] \in [Slots(n) -> Seq(Timer)]
    BY IsWheel
  <2>. QED
    BY <2>1
<1>2. w = [n \in Vec |-> w[n]] /\ v = [n \in Vec |-> v[n]]
  BY IsWheel
<1>3. [n \in Vec |-> w[n]] = [n \in Vec |-> v[n]]
  BY <1>1
<1>. QED
  BY <1>2, <1>3

LEMMA ClearedIs ==
  ASSUME NEW w \in Wheels, NEW l \in Vec, NEW s \in Slots(l)
  PROVE  /\ Cleared(w, l, s) \in Wheels
         /\ \A n \in Vec : \A i \in Slots(n) :
              Cleared(w, l, s)[n][i] = IF n = l /\ i = s THEN << >> ELSE w[n][i]
<1>. DEFINE v == [w EXCEPT ![l][s] = << >>]
<1>. HIDE DEF Vec, Slots
<1>1. w = [n \in Vec |-> w[n]] /\ \A n \in Vec : w[n] \in [Slots(n) -> Seq(Timer)]
  BY IsWheel
<1>2. v = [n \in Vec |-> v[n]]
  BY <1>1
<1>3. ASSUME NEW n \in Vec
      PROVE  /\ v[n] \in [Slots(n) -> Seq(Timer)]
             /\ \A i \in Slots(n) : v[n][i] = IF n = l /\ i = s THEN << >> ELSE w[n][i]
  <2>1. v[n] = IF n = l THEN [w[n] EXCEPT ![s] = << >>] ELSE w[n]
    BY <1>1
  <2>2. w[n] \in [Slots(n) -> Seq(Timer)]
    BY <1>1
  <2>3. << >> \in Seq(Timer)
    OBVIOUS
  <2>. QED
    BY <2>1, <2>2, <2>3
<1>4. v \in Wheels
  <2>. HIDE DEF v
  <2>. QED
    BY <1>2, <1>3, IsWheel
<1>. QED
  BY <1>3, <1>4 DEF Cleared

(* Clearing a slot takes its timers out of the wheel. *)
LEMMA ClearedHolds ==
  ASSUME NEW w \in Wheels, Once(w), NEW l \in Vec, NEW s \in Slots(l),
         NEW v, v = Cleared(w, l, s)
  PROVE  /\ v \in Wheels /\ Once(v)
         /\ \A x : Holds(v, x) <=> Holds(w, x) /\ x \notin Items(w[l][s])
         /\ \A n \in Vec : \A i \in Slots(n) :
              v[n][i] = IF n = l /\ i = s THEN << >> ELSE w[n][i]
<1>. HIDE DEF Vec, Slots
<1>1. /\ v \in Wheels
      /\ \A n \in Vec : \A i \in Slots(n) :
           v[n][i] = IF n = l /\ i = s THEN << >> ELSE w[n][i]
  BY ClearedIs
<1>2. DOMAIN << >> = {}
  OBVIOUS
<1>3. ASSUME NEW n \in Vec, NEW i \in Slots(n), NEW k \in DOMAIN v[n][i]
      PROVE  k \in DOMAIN w[n][i] /\ v[n][i][k] = w[n][i][k] /\ ~(n = l /\ i = s)
  BY <1>1, <1>2, <1>3
<1>4. Once(v)
  <2>. SUFFICES ASSUME NEW n1 \in Vec, NEW n2 \in Vec, NEW i1 \in Slots(n1), NEW i2 \in Slots(n2),
                       NEW k1 \in DOMAIN v[n1][i1], NEW k2 \in DOMAIN v[n2][i2],
                       v[n1][i1][k1] = v[n2][i2][k2]
                PROVE  n1 = n2 /\ i1 = i2 /\ k1 = k2
    BY DEF Once
  <2>1. k1 \in DOMAIN w[n1][i1] /\ k2 \in DOMAIN w[n2][i2] /\ w[n1][i1][k1] = w[n2][i2][k2]
    BY <1>3
  <2>. QED
    BY <2>1, OnceAt
<1>5. ASSUME NEW x, Holds(v, x)  PROVE Holds(w, x) /\ x \notin Items(w[l][s])
  <2>0. PICK n \in Vec : \E i \in Slots(n) : x \in Items(v[n][i])
    BY <1>5 DEF Holds
  <2>1. PICK i \in Slots(n) : x \in Items(v[n][i])
    BY <2>0
  <2>2. PICK k \in DOMAIN v[n][i] : x = v[n][i][k]
    BY <2>1 DEF Items
  <2>3. k \in DOMAIN w[n][i] /\ x = w[n][i][k] /\ ~(n = l /\ i = s)
    BY <1>3, <2>2
  <2>4. Holds(w, x)
    BY <2>3 DEF Holds, Items
  <2>5. ASSUME x \in Items(w[l][s])  PROVE FALSE
    <3>1. PICK m \in DOMAIN w[l][s] : x = w[l][s][m]
      BY <2>5 DEF Items
    <3>2. w[n][i][k] = w[l][s][m] /\ k \in DOMAIN w[n][i]
      BY <2>3, <3>1
    <3>3. n = l /\ i = s
      BY <3>1, <3>2, OnceAt
    <3>. QED
      BY <2>3, <3>3
  <2>. QED
    BY <2>4, <2>5
<1>6. ASSUME NEW x, Holds(w, x), x \notin Items(w[l][s])  PROVE Holds(v, x)
  <2>0. PICK n \in Vec : \E i \in Slots(n) : x \in Items(w[n][i])
    BY <1>6 DEF Holds
  <2>1. PICK i \in Slots(n) : x \in Items(w[n][i])
    BY <2>0
  <2>2. ~(n = l /\ i = s)
    BY <1>6, <2>1
  <2>3. v[n][i] = w[n][i]
    BY <1>1, <2>2
  <2>. QED
    BY <2>1, <2>3 DEF Holds
<1>. QED
  BY <1>1, <1>4, <1>5, <1>6

LEMMA CascadeOne ==
  ASSUME NEW w \in Wheels, Once(w), NEW l \in Vec, NEW s \in Slots(l),
         \A t \in Items(w[l][s]) : Places(t) /\ ~(Vector(t) = l /\ Slot(t) = s)
  PROVE  Gains(Cleared(AddAll(w, w[l][s]), l, s), Cleared(w, l, s), Items(w[l][s]))
<1>. DEFINE list == w[l][s]
            m == Len(list)
            c == Cleared(w, l, s)
<1>0. list \in Seq(Timer) /\ m \in Nat /\ DOMAIN list = 1..m
  <2>1. list \in Seq(Timer)
    BY SlotIs
  <2>. QED
    BY <2>1
<1>1. PICK f : IsAdding(f, w, list) /\ AddAll(w, list) = f[m]
  BY <1>0, AddAllRuns
<1>. DEFINE g == [k \in 0..m |-> Cleared(f[k], l, s)]
<1>. HIDE DEF Vec, Slots, list, m, c
<1>2. f \in [0..m -> Wheels] /\ f[0] = w
      /\ \A k \in 1..m : f[k] = internal_add_timer(f[k - 1], list[k])
  BY <1>1 DEF IsAdding, m
<1>3. ASSUME NEW a \in Wheels, NEW t \in Items(list)
      PROVE  Cleared(internal_add_timer(a, t), l, s) = internal_add_timer(Cleared(a, l, s), t)
  <2>0. t \in Timer /\ ~(Vector(t) = l /\ Slot(t) = s)
    BY <1>0 DEF Items, list
  <2>. DEFINE x == Cleared(internal_add_timer(a, t), l, s)
              y == internal_add_timer(Cleared(a, l, s), t)
              At(n, i) == n = Vector(t) /\ i = Slot(t)
  <2>1. /\ internal_add_timer(a, t) \in Wheels
        /\ \A n \in Vec : \A i \in Slots(n) : internal_add_timer(a, t)[n][i] =
              IF n = Vector(t) /\ i = Slot(t) THEN Append(a[n][i], t) ELSE a[n][i]
    BY <2>0, AddType
  <2>2. /\ x \in Wheels
        /\ \A n \in Vec : \A i \in Slots(n) :
             x[n][i] = IF n = l /\ i = s THEN << >> ELSE internal_add_timer(a, t)[n][i]
    BY <2>1, ClearedIs
  <2>3. /\ Cleared(a, l, s) \in Wheels
        /\ \A n \in Vec : \A i \in Slots(n) :
              Cleared(a, l, s)[n][i] = IF n = l /\ i = s THEN << >> ELSE a[n][i]
    BY ClearedIs
  <2>4. /\ y \in Wheels
        /\ \A n \in Vec : \A i \in Slots(n) : y[n][i] =
              IF n = Vector(t) /\ i = Slot(t) THEN Append(Cleared(a, l, s)[n][i], t)
              ELSE Cleared(a, l, s)[n][i]
    BY <2>0, <2>3, AddType
  <2>. HIDE DEF x, y
  <2>5. ASSUME NEW n \in Vec, NEW i \in Slots(n)  PROVE x[n][i] = y[n][i]
    <3>1. CASE n = l /\ i = s
      BY <2>0, <2>2, <2>3, <2>4, <3>1
    <3>2. CASE ~(n = l /\ i = s)
      BY <2>1, <2>2, <2>3, <2>4, <3>2
    <3>. QED
      BY <3>1, <3>2
  <2>6. x = y
    BY <2>2, <2>4, <2>5, SameWheel
  <2>. QED
    BY <2>6 DEF x, y
<1>4. IsAdding(g, c, list)
  <2>1. g \in [0..m -> Wheels]
    <3>. SUFFICES ASSUME NEW k \in 0..m  PROVE Cleared(f[k], l, s) \in Wheels
      BY Zenon
    <3>. QED
      BY <1>2, ClearedIs
  <2>2. g[0] = c
    BY <1>0, <1>2 DEF c
  <2>3. ASSUME NEW k \in 1..m  PROVE g[k] = internal_add_timer(g[k - 1], list[k])
    <3>1. k \in 0..m /\ k - 1 \in 0..m
      BY <1>0
    <3>2. list[k] \in Items(list) /\ f[k - 1] \in Wheels
      BY <1>0, <1>2, <3>1 DEF Items
    <3>3. f[k] = internal_add_timer(f[k - 1], list[k])
      BY <1>2
    <3>4. g[k] = Cleared(f[k], l, s) /\ g[k - 1] = Cleared(f[k - 1], l, s)
      BY <3>1
    <3>. HIDE DEF g
    <3>. QED
      BY <1>3, <3>2, <3>3, <3>4
  <2>. HIDE DEF g
  <2>. QED
    BY <2>1, <2>2, <2>3 DEF IsAdding, m
<1>5. /\ c \in Wheels /\ Once(c)
      /\ \A x : Holds(c, x) <=> Holds(w, x) /\ x \notin Items(list)
  BY ClearedHolds DEF c, list
<1>6. Injective(list)
  <2>. SUFFICES ASSUME NEW k1 \in DOMAIN list, NEW k2 \in DOMAIN list, list[k1] = list[k2]
                PROVE  k1 = k2
    BY DEF Injective
  <2>. QED
    BY OnceAt DEF list
<1>7. \A t \in Items(list) : Places(t) /\ ~Holds(c, t)
  BY <1>5 DEF list
<1>8. Gains(g[m], c, Items(list))
  <2>. HIDE DEF g
  <2>. QED
    BY <1>0, <1>4, <1>5, <1>6, <1>7, AddingAll DEF m
<1>9. g[m] = Cleared(AddAll(w, list), l, s)
  BY <1>0, <1>1
<1>. HIDE DEF g
<1>. QED
  BY <1>8, <1>9 DEF c, list

LEMMA ComingGrows ==
  ASSUME NEW n \in Vec, NEW j \in Nat
  PROVE  /\ Coming(n, j) \in Nat /\ Coming(n, j + 1) \in Nat
         /\ Coming(n, j) <= Coming(n, j + 1)
<1>1. Coming(n, j) \in Nat /\ Coming(n, j + 1) \in Nat
  BY ComingType
<1>2. j % Unit(n) = 0 => Coming(n, j + 1) = Coming(n, j) + 1
  BY ComingAt
<1>3. j % Unit(n) # 0 => Coming(n, j + 1) = Coming(n, j)
  BY ComingBetween
<1>. QED
  BY <1>1, <1>2, <1>3

(* While jiffy j is on, tv_2 to tv_m have cascaded and the others not yet. *)
Mixed(m) ==
  [n \in Vec |-> IF n # 1 /\ n <= m THEN Coming(n, jiffies + 1) ELSE Coming(n, jiffies)]

Timely(w) == \A t \in Timer : Holds(w, t) => due[t] < jiffies + Reach[NVecs]

(* A timer in its place fits there. *)
LEMMA PlacedFits ==
  ASSUME jiffies \in Nat, due \in [Timer -> Nat], NEW t \in Timer,
         due[t] < jiffies + Reach[NVecs],
         NEW l, NEW low, low \in {Coming(Vector(t), jiffies), Coming(Vector(t), jiffies + 1)},
         Vector(t) = 1 => low = jiffies,
         t \notin stray => l <= due[t] /\ jiffies <= due[t]
  PROVE  Fits(t, l, Vector(t), Slot(t), low)
<1>. DEFINE n == Vector(t)
<1>1. /\ n \in Vec
      /\ n = 1 /\ jiffies <= due[t] => Wanted(1, t) = due[t] /\ due[t] < jiffies + R
      /\ n # 1 => /\ Coming(n, jiffies + 1) <= Wanted(n, t)
                  /\ Wanted(n, t) < Coming(n, jiffies) + N
  BY PlaceIs
<1>2. Slot(t) = Wanted(n, t) % Size(n)
  BY DEF Slot
<1>. HIDE DEF n
<1>3. ASSUME t \notin stray  PROVE low <= Wanted(n, t) /\ Wanted(n, t) < low + Size(n)
  <2>1. CASE n = 1
    BY <1>1, <1>3, <2>1 DEF Size, n
  <2>2. CASE n # 1
    <3>1. Coming(n, jiffies) \in Nat /\ Coming(n, jiffies + 1) \in Nat
          /\ Coming(n, jiffies) <= Coming(n, jiffies + 1)
      BY <1>1, ComingGrows
    <3>2. Wanted(n, t) \in Int
      <4>1. Unit(n) \in Nat \ {0} /\ due[t] \in Int
        BY <1>1, UnitIs
      <4>. QED
        BY <4>1, Division DEF Wanted
    <3>3. low \in {Coming(n, jiffies), Coming(n, jiffies + 1)}
      BY DEF n
    <3>. QED
      BY <1>1, <2>2, <3>1, <3>2, <3>3, WheelAssumption DEF Size
  <2>. QED
    BY <2>1, <2>2
<1>. QED
  BY <1>2, <1>3 DEF Fits, n

LEMMA CascadeFits ==
  ASSUME TypeOK, Indexed, NEW n \in Cascading,
         NEW w \in Wheels, Once(w), Timely(w), AllFit(w, linkedAt, Mixed(n - 1)),
         NEW v, v = cascade_timers(w, n)
  PROVE  /\ v \in Wheels /\ Once(v)
         /\ \A x : Holds(v, x) <=> Holds(w, x)
         /\ AllFit(v, linkedAt, Mixed(n))
<1>0. jiffies \in Nat /\ due \in [Timer -> Nat] /\ N \in Nat \ {0, 1} /\ NVecs \in Nat
  <2>1. jiffies \in Nat /\ due \in [Timer -> Nat]
    BY DEF TypeOK
  <2>. QED
    BY <2>1, WheelAssumption
<1>1. n \in Vec /\ n # 1 /\ n \in Nat /\ jiffies % Unit(n) = 0
  <2>1. n \in Vec /\ n # 1 /\ n \in Nat
    BY <1>0 DEF Cascading, Vec
  <2>. QED
    BY <1>0, <2>1, CascadingIs
<1>. DEFINE c == Coming(n, jiffies)
            s == index[n]
            list == w[n][s]
            u == Unit(n)
<1>2. /\ c \in Nat /\ Coming(n, jiffies + 1) = c + 1 /\ jiffies = u * c
      /\ u \in Nat \ {0} /\ Size(n) = N
  BY <1>0, <1>1, ComingAt, ComingType, UnitIs DEF Size
<1>3. s = c % N /\ s \in Slots(n)
  <2>1. s = c % N
    BY <1>1, <1>2 DEF Indexed
  <2>2. c \in Int /\ N \in Nat \ {0}
    BY <1>0, <1>2
  <2>. HIDE DEF c, s
  <2>. QED
    BY <1>2, <2>1, <2>2, Division DEF Slots
<1>. HIDE DEF Vec, Slots, c, s, list, u
<1>4. list \in Seq(Timer) /\ Items(list) \subseteq Timer
  <2>1. list \in Seq(Timer)
    BY <1>1, <1>3, SlotIs DEF list
  <2>. QED
    BY <2>1 DEF Items
<1>5. ASSUME NEW t \in Items(list)
      PROVE  /\ t \in Timer /\ due[t] < jiffies + Reach[NVecs]
             /\ Wanted(n, t) \in Int /\ Wanted(n, t) % N = c % N
             /\ t \notin stray => linkedAt[t] <= due[t] /\ Wanted(n, t) = c
  <2>1. t \in Timer
    BY <1>4
  <2>2. Holds(w, t)
    BY <1>1, <1>3 DEF Holds, list
  <2>3. due[t] < jiffies + Reach[NVecs]
    BY <2>1, <2>2 DEF Timely
  <2>4. Mixed(n - 1)[n] = c
    BY <1>1 DEF Mixed, c
  <2>5. Fits(t, linkedAt[t], n, s, c)
    BY <1>1, <1>3, <2>4 DEF AllFit, list
  <2>6. Wanted(n, t) \in Int
    <3>1. due[t] \in Int
      BY <1>0, <2>1
    <3>. QED
      BY <1>2, <3>1, Division DEF Wanted, u
  <2>7. Wanted(n, t) % N = c % N
    BY <1>2, <1>3, <2>5 DEF Fits
  <2>8. ASSUME t \notin stray  PROVE linkedAt[t] <= due[t] /\ Wanted(n, t) = c
    <3>1. linkedAt[t] <= due[t] /\ c <= Wanted(n, t) /\ Wanted(n, t) < c + N
      BY <1>1, <1>2, <2>5, <2>8 DEF Fits
    <3>2. c \in Int /\ N \in Nat \ {0}
      BY <1>0, <1>2
    <3>3. c = Wanted(n, t)
      BY <2>6, <2>7, <3>1, <3>2, Turn
    <3>. QED
      BY <3>1, <3>3
  <2>. QED
    BY <2>1, <2>3, <2>6, <2>7, <2>8
<1>6. ASSUME NEW t \in Items(list)
      PROVE  Places(t) /\ ~(Vector(t) = n /\ Slot(t) = s)
  <2>1. /\ Vector(t) \in Vec /\ Slot(t) \in Slots(Vector(t))
        /\ Vector(t) # 1 => /\ Coming(Vector(t), jiffies + 1) <= Wanted(Vector(t), t)
                            /\ Wanted(Vector(t), t) < Coming(Vector(t), jiffies) + N
    BY <1>0, <1>5, PlaceIs
  <2>2. ASSUME Vector(t) = n, Slot(t) = s  PROVE FALSE
    <3>1. c + 1 <= Wanted(n, t) /\ Wanted(n, t) < c + N
      BY <1>1, <1>2, <2>1, <2>2 DEF c
    <3>2. Wanted(n, t) % N = c % N /\ Wanted(n, t) \in Int
      BY <1>5
    <3>3. c \in Int /\ N \in Nat \ {0} /\ c <= Wanted(n, t)
      BY <1>0, <1>2, <3>1, <3>2
    <3>4. c = Wanted(n, t)
      BY <3>1, <3>2, <3>3, Turn
    <3>. QED
      BY <1>2, <3>1, <3>4
  <2>. QED
    BY <2>1, <2>2 DEF Places
<1>. DEFINE a == Cleared(w, n, s)
<1>7. v = Cleared(AddAll(w, list), n, s)
  BY DEF cascade_timers, Cleared, list, s
<1>8. /\ a \in Wheels
      /\ \A x : Holds(a, x) <=> Holds(w, x) /\ x \notin Items(list)
      /\ \A m \in Vec : \A i \in Slots(m) :
           a[m][i] = IF m = n /\ i = s THEN << >> ELSE w[m][i]
  BY <1>1, <1>3, ClearedHolds DEF list
<1>9. Gains(v, a, Items(list))
  BY <1>1, <1>3, <1>6, <1>7, CascadeOne DEF list
<1>. HIDE DEF a
<1>10. \A x : Holds(v, x) <=> Holds(w, x)
  <2>1. \A x \in Items(list) : Holds(w, x)
    BY <1>1, <1>3 DEF Holds, list
  <2>. QED
    BY <1>8, <1>9, <2>1 DEF Gains
<1>11. AllFit(v, linkedAt, Mixed(n))
  <2>. SUFFICES ASSUME NEW m \in Vec, NEW i \in Slots(m), NEW t \in Items(v[m][i])
                PROVE  Fits(t, linkedAt[t], m, i, Mixed(n)[m])
    BY DEF AllFit
  <2>1. CASE t \in Items(a[m][i])
    <3>0. Items(<< >>) = {}
      BY DEF Items
    <3>1. ~(m = n /\ i = s) /\ t \in Items(w[m][i])
      BY <1>8, <2>1, <3>0
    <3>2. Fits(t, linkedAt[t], m, i, Mixed(n - 1)[m])
      BY <3>1 DEF AllFit
    <3>3. CASE m # n
      <4>1. Mixed(n)[m] = Mixed(n - 1)[m]
        <5>1. m \in Nat /\ (m <= n <=> m <= n - 1)
          BY <1>0, <1>1, <3>3 DEF Vec
        <5>. QED
          BY <5>1 DEF Mixed
      <4>. QED
        BY <3>2, <4>1
    <3>4. CASE m = n
      <4>1. Mixed(n)[n] = c + 1 /\ Mixed(n - 1)[n] = c
        BY <1>1, <1>2 DEF Mixed, c
      <4>2. i # c % N
        BY <1>3, <3>1, <3>4
      <4>3. Fits(t, linkedAt[t], n, i, c)
        BY <3>2, <3>4, <4>1
      <4>4. t \notin stray /\ linkedAt[t] <= due[t] => Wanted(n, t) # c
        BY <1>2, <4>2, <4>3 DEF Fits
      <4>5. t \in Timer /\ Wanted(n, t) \in Int
        <5>1. w[m][i] \in Seq(Timer)
          BY SlotIs
        <5>2. t \in Timer
          BY <3>1, <5>1 DEF Items
        <5>3. due[t] \in Int
          BY <1>0, <5>2
        <5>. QED
          BY <1>2, <5>2, <5>3, Division DEF Wanted, u
      <4>6. Fits(t, linkedAt[t], n, i, c + 1)
        BY <1>0, <1>1, <1>2, <4>3, <4>4, <4>5 DEF Fits
      <4>. QED
        BY <3>4, <4>1, <4>6
    <3>. QED
      BY <3>3, <3>4
  <2>2. CASE t \in Items(list) /\ m = Vector(t) /\ i = Slot(t)
    <3>1. /\ t \in Timer /\ due[t] < jiffies + Reach[NVecs]
          /\ t \notin stray => linkedAt[t] <= due[t] /\ Wanted(n, t) = c
      BY <1>5, <2>2
    <3>2. t \notin stray => jiffies <= due[t] /\ due[t] < jiffies + u
      <4>. DEFINE q == due[t] \div u
                  r == due[t] % u
      <4>1. r \in 0..(u - 1) /\ due[t] = u * q + r
        <5>1. due[t] \in Int
          BY <1>0, <3>1
        <5>. QED
          BY <1>2, <5>1, Division
      <4>2. t \notin stray => q = c
        BY <3>1 DEF Wanted, u
      <4>. HIDE DEF q, r
      <4>3. t \notin stray => due[t] = jiffies + r
        BY <1>2, <4>1, <4>2
      <4>. HIDE DEF c
      <4>. QED
        BY <1>0, <1>2, <4>1, <4>3
    <3>3. Mixed(n)[m] = IF m # 1 /\ m <= n THEN Coming(m, jiffies + 1) ELSE Coming(m, jiffies)
      BY DEF Mixed
    <3>4. Mixed(n)[m] \in {Coming(m, jiffies), Coming(m, jiffies + 1)}
      BY <3>3
    <3>5. m = 1 => Mixed(n)[m] = jiffies
      BY <1>0, <3>3, ComingRoot
    <3>. QED
      BY <1>0, <2>2, <3>1, <3>2, <3>4, <3>5, PlacedFits
  <2>. QED
    BY <1>9, <2>1, <2>2 DEF Gains
<1>. QED
  BY <1>9, <1>10, <1>11 DEF Gains

(* What has cascaded once the vectors up to tv_m had their turn: nothing   *)
(* is lost, and what was in a slot that cascades has moved to a finer one. *)
Kept(v, m) ==
  /\ v \in Wheels /\ Once(v)
  /\ \A x : Holds(v, x) <=> Holds(wheel, x)
  /\ AllFit(v, linkedAt, Mixed(m))

IsCascading(f) ==
  /\ f \in [0..(NVecs - 1) -> Wheels]
  /\ f[0] = wheel
  /\ \A k \in 1..(NVecs - 1) :
       f[k] = IF k + 1 \in Cascading THEN cascade_timers(f[k - 1], k + 1) ELSE f[k - 1]

LEMMA CascadeType ==
  ASSUME TypeOK, Indexed, NEW n \in Vec, NEW w \in Wheels
  PROVE  cascade_timers(w, n) \in Wheels
<1>. HIDE DEF Vec
<1>1. index[n] \in Slots(n)
  <2>1. Size(n) \in Nat \ {0} /\ Coming(n, jiffies) \in Int
    <3>1. jiffies \in Nat
      BY DEF TypeOK
    <3>. QED
      BY <3>1, UnitIs, ComingType
  <2>. QED
    BY <2>1, Division DEF Indexed, Slots
<1>2. w[n][index[n]] \in Seq(Timer)
  BY <1>1, SlotIs
<1>3. PICK f : IsAdding(f, w, w[n][index[n]]) /\ AddAll(w, w[n][index[n]]) = f[Len(w[n][index[n]])]
  BY <1>2, AddAllRuns
<1>4. Len(w[n][index[n]]) \in 0..Len(w[n][index[n]])
  BY <1>2
<1>5. AddAll(w, w[n][index[n]]) \in Wheels
  BY <1>3, <1>4 DEF IsAdding
<1>6. cascade_timers(w, n) = Cleared(AddAll(w, w[n][index[n]]), n, index[n])
  BY DEF cascade_timers, Cleared
<1>. QED
  BY <1>1, <1>5, <1>6, ClearedIs

LEMMA CascadedRuns ==
  ASSUME TypeOK, Indexed
  PROVE  \E f : IsCascading(f) /\ Cascaded = f[NVecs - 1]
<1>. DEFINE m == NVecs - 1
            step == [p \in Wheels \X (1..m) |->
                       IF p[2] + 1 \in Cascading THEN cascade_timers(p[1], p[2] + 1) ELSE p[1]]
<1>0. m \in Nat /\ m + 1 = NVecs /\ Vec = 1..(m + 1)
  BY WheelAssumption DEF Vec
<1>00. wheel \in Wheels
  BY DEF TypeOK
<1>. HIDE DEF m
<1>1. step \in [Wheels \X (1..m) -> Wheels]
  <2>. SUFFICES ASSUME NEW p \in Wheels \X (1..m)
                PROVE  (IF p[2] + 1 \in Cascading THEN cascade_timers(p[1], p[2] + 1)
                        ELSE p[1]) \in Wheels
    BY Zenon
  <2>1. p[1] \in Wheels /\ p[2] + 1 \in Vec
    BY <1>0
  <2>. QED
    BY <2>1, CascadeType
<1>. HIDE DEF step
<1>2. PICK f : IsRun(f, Wheels, wheel, m, step)
  BY <1>0, <1>00, <1>1, Iterates
<1>3. f \in [0..m -> Wheels] /\ f[0] = wheel /\ \A k \in 1..m : f[k] = step[<<f[k - 1], k>>]
  BY <1>2 DEF IsRun
<1>4. ASSUME NEW k \in 1..m
      PROVE  f[k] = IF k + 1 \in Cascading THEN cascade_timers(f[k - 1], k + 1) ELSE f[k - 1]
  <2>1. k - 1 \in 0..m
    BY <1>0
  <2>2. <<f[k - 1], k>> \in Wheels \X (1..m)
    BY <1>3, <2>1
  <2>3. step[<<f[k - 1], k>>] =
          IF k + 1 \in Cascading THEN cascade_timers(f[k - 1], k + 1) ELSE f[k - 1]
    BY <2>2 DEF step
  <2>. QED
    BY <1>3, <2>3
<1>5. IsCascading(f)
  BY <1>3, <1>4 DEF IsCascading, m
<1>. DEFINE F(g) == [n \in Vec |->
                       IF n = 1 THEN wheel
                       ELSE IF n \in Cascading THEN cascade_timers(g[n - 1], n) ELSE g[n - 1]]
            h == [n \in Vec |-> f[n - 1]]
<1>6. h = F(h)
  <2>1. ASSUME NEW n \in Vec  PROVE h[n] = F(h)[n]
    <3>1. CASE n = 1
      <4>1. h[n] = f[0]
        BY <3>1
      <4>. QED
        BY <1>3, <3>1, <4>1
    <3>2. CASE n # 1
      <4>1. n - 1 \in 1..m /\ n - 1 \in Vec /\ (n - 1) + 1 = n
        BY <1>0, <3>2
      <4>2. f[n - 1] = IF n \in Cascading THEN cascade_timers(f[(n - 1) - 1], n)
                       ELSE f[(n - 1) - 1]
        BY <1>4, <4>1
      <4>3. h[n] = f[n - 1] /\ h[n - 1] = f[(n - 1) - 1]
        BY <4>1
      <4>. HIDE DEF h
      <4>4. F(h)[n] = IF n \in Cascading THEN cascade_timers(h[n - 1], n) ELSE h[n - 1]
        BY <3>2
      <4>. QED
        BY <4>2, <4>3, <4>4
    <3>. QED
      BY <3>1, <3>2
  <2>. HIDE DEF F
  <2>2. h = [n \in Vec |-> h[n]] /\ F(h) = [n \in Vec |-> F(h)[n]]
    BY DEF F
  <2>. HIDE DEF h
  <2>. QED
    BY <2>1, <2>2
<1>7. \E g : g = F(g)
  <2>. HIDE DEF h, F
  <2>. QED
    BY <1>6
<1>. DEFINE upTo == CHOOSE g : g = F(g)
<1>8. upTo = F(upTo)
  <2>. HIDE DEF F
  <2>. QED
    BY <1>7
<1>9. Cascaded = upTo[NVecs]
  BY DEF Cascaded
<1>. HIDE DEF upTo
<1>10. \A k \in 0..m : upTo[k + 1] = f[k]
  <2>. DEFINE Bad == {k \in 0..m : upTo[k + 1] # f[k]}
  <2>. SUFFICES ASSUME Bad # {}  PROVE FALSE
    OBVIOUS
  <2>1. Bad \subseteq Nat
    BY <1>0
  <2>2. PICK x \in Bad : \A y \in Bad : x <= y
    <3>. HIDE DEF Bad
    <3>. QED
      BY <2>1, LeastNat
  <2>3. upTo[1] = wheel
    BY <1>0, <1>8
  <2>4. x # 0 /\ x \in 0..m
    BY <1>3, <2>3
  <2>5. x - 1 \in 0..m /\ ~(x <= x - 1) /\ x \in 1..m /\ x + 1 \in Vec /\ x + 1 # 1
        /\ (x - 1) + 1 = x /\ (x + 1) - 1 = x
    BY <1>0, <2>4
  <2>6. upTo[x] = f[x - 1]
    BY <2>2, <2>5
  <2>7. upTo[x + 1] = IF x + 1 \in Cascading THEN cascade_timers(upTo[x], x + 1) ELSE upTo[x]
    BY <1>8, <2>5
  <2>. QED
    BY <1>4, <2>5, <2>6, <2>7
<1>. QED
  BY <1>0, <1>5, <1>9, <1>10 DEF m

LEMMA CascadedKept ==
  ASSUME TypeOK, Indexed, Once(wheel), Timely(wheel), AllFit(wheel, linkedAt, Lows(jiffies))
  PROVE  Kept(Cascaded, NVecs)
<1>0. NVecs \in Nat \ {0, 1} /\ wheel \in Wheels /\ jiffies \in Nat
  <2>1. wheel \in Wheels /\ jiffies \in Nat
    BY DEF TypeOK
  <2>. QED
    BY <2>1, WheelAssumption
<1>1. PICK f : IsCascading(f) /\ Cascaded = f[NVecs - 1]
  BY CascadedRuns
<1>. DEFINE m == NVecs - 1
            Right(k) == Kept(f[k], k + 1)
<1>01. m \in Nat /\ m + 1 = NVecs /\ Vec = 1..(m + 1)
  BY <1>0 DEF Vec
<1>2. /\ f \in [0..m -> Wheels] /\ f[0] = wheel
      /\ \A k \in 1..m :
           f[k] = IF k + 1 \in Cascading THEN cascade_timers(f[k - 1], k + 1) ELSE f[k - 1]
  BY <1>1 DEF IsCascading
<1>. HIDE DEF m
<1>3. Right(0)
  <2>1. Mixed(0 + 1) = Lows(jiffies)
    <3>1. \A n \in Vec : ~(n # 1 /\ n <= 0 + 1)
      BY <1>01
    <3>. QED
      BY <3>1 DEF Mixed, Lows
  <2>. QED
    BY <1>0, <1>2, <2>1 DEF Kept
<1>4. ASSUME NEW k \in 1..m, Right(k - 1)  PROVE Right(k)
  <2>. DEFINE w == f[k - 1]
              v == f[k]
  <2>1. k + 1 \in Vec /\ k + 1 # 1 /\ (k + 1) - 1 = k /\ (k - 1) + 1 = k
    BY <1>01
  <2>2. v = IF k + 1 \in Cascading THEN cascade_timers(w, k + 1) ELSE w
    BY <1>2
  <2>. HIDE DEF w, v
  <2>3. Kept(w, k)
    BY <1>4, <2>1 DEF w
  <2>4. Timely(w)
    BY <2>3 DEF Timely, Kept
  <2>5. CASE k + 1 \in Cascading
    <3>1. v = cascade_timers(w, k + 1)
      BY <2>2, <2>5
    <3>2. AllFit(w, linkedAt, Mixed((k + 1) - 1))
      BY <2>1, <2>3 DEF Kept
    <3>3. w \in Wheels /\ Once(w)
      BY <2>3 DEF Kept
    <3>4. /\ v \in Wheels /\ Once(v)
          /\ \A x : Holds(v, x) <=> Holds(w, x)
          /\ AllFit(v, linkedAt, Mixed(k + 1))
      BY <2>4, <2>5, <3>1, <3>2, <3>3, CascadeFits
    <3>. QED
      BY <2>3, <3>4 DEF Kept, v
  <2>6. CASE k + 1 \notin Cascading
    <3>1. v = w
      BY <2>2, <2>6
    <3>2. Coming(k + 1, jiffies + 1) = Coming(k + 1, jiffies)
      <4>1. jiffies % Unit(k + 1) # 0
        BY <1>0, <2>1, <2>6, CascadingIs
      <4>. QED
        BY <1>0, <2>1, <4>1, ComingBetween
    <3>3. Mixed(k + 1) = Mixed(k)
      <4>1. ASSUME NEW n \in Vec  PROVE Mixed(k + 1)[n] = Mixed(k)[n]
        <5>1. n = k + 1 \/ (n <= k + 1 <=> n <= k)
          BY <1>01
        <5>. QED
          BY <3>2, <5>1 DEF Mixed
      <4>. QED
        BY <4>1 DEF Mixed
    <3>. QED
      BY <2>3, <3>1, <3>3 DEF Kept, v
  <2>. QED
    BY <2>5, <2>6
<1>. HIDE DEF Right
<1>. DEFINE Bad == {k \in 0..m : ~Right(k)}
<1>5. Bad = {}
  <2>. SUFFICES ASSUME Bad # {}  PROVE FALSE
    OBVIOUS
  <2>1. Bad \subseteq Nat
    BY <1>01
  <2>2. PICK x \in Bad : \A y \in Bad : x <= y
    <3>. HIDE DEF Bad
    <3>. QED
      BY <2>1, LeastNat
  <2>3. x # 0 /\ x \in 0..m
    BY <1>3
  <2>4. x - 1 \in 0..m /\ ~(x <= x - 1) /\ x \in 1..m
    BY <1>01, <2>3
  <2>5. Right(x - 1)
    BY <2>2, <2>4
  <2>. QED
    BY <1>4, <2>4, <2>5
<1>6. Right(m)
  BY <1>01, <1>5
<1>. QED
  BY <1>01, <1>1, <1>6 DEF Right, m

-----------------------------------------------------------------------------
(* The invariant, action by action. *)

LEMMA InvInit == Init => Inv
<1>. SUFFICES ASSUME Init  PROVE Inv
  OBVIOUS
<1>0. R \in Nat \ {0, 1} /\ N \in Nat \ {0, 1} /\ NoTimer \notin Timer
  BY WheelAssumption
<1>1. \A n \in Vec : Size(n) \in Nat \ {0} /\ Coming(n, 0) = 0
  <2>. SUFFICES ASSUME NEW n \in Vec  PROVE Size(n) \in Nat \ {0} /\ Coming(n, 0) = 0
    OBVIOUS
  <2>1. Unit(n) \in Nat \ {0} /\ Size(n) \in Nat \ {0}
    BY UnitIs
  <2>2. 0 - 1 = Unit(n) * (0 - 1) + (Unit(n) - 1) /\ Unit(n) - 1 \in 0..(Unit(n) - 1)
    BY <2>1
  <2>3. (0 - 1) \div Unit(n) = 0 - 1
    <3>1. 0 - 1 \in Int
      OBVIOUS
    <3>. QED
      BY <2>1, <2>2, <3>1, DivisionIs
  <2>. QED
    BY <2>1, <2>3 DEF Coming
<1>2. wheel \in Wheels /\ \A n \in Vec : \A i \in Slots(n) : wheel[n][i] = << >>
  <2>. HIDE DEF Vec
  <2>1. wheel = [n \in Vec |-> [i \in Slots(n) |-> << >>]]
    BY DEF Init, Slots
  <2>. HIDE DEF Slots
  <2>2. \A n \in Vec : wheel[n] \in [Slots(n) -> Seq(Timer)]
    BY <2>1
  <2>3. wheel = [n \in Vec |-> wheel[n]]
    BY <2>1
  <2>4. \A n \in Vec : \A i \in Slots(n) : wheel[n][i] = << >>
    BY <2>1
  <2>. QED
    BY <2>2, <2>3, <2>4, IsWheel
<1>3. TypeOK
  BY <1>0, <1>2 DEF Init, TypeOK
<1>4. Items(<< >>) = {} /\ DOMAIN << >> = {}
  BY DEF Items
<1>5. Indexed
  <2>. SUFFICES ASSUME NEW n \in Vec  PROVE index[n] = Coming(n, jiffies) % Size(n)
    BY DEF Indexed
  <2>1. index[n] = 0 /\ jiffies = 0
    BY DEF Init
  <2>2. 0 % Size(n) = 0
    BY <1>1
  <2>. QED
    BY <1>1, <2>1, <2>2
<1>6. Once(wheel) /\ \A x : ~Holds(wheel, x)
  <2>. HIDE DEF Vec, Slots
  <2>. QED
    BY <1>2, <1>4 DEF Once, Holds
<1>7. AllFit(wheel, linkedAt, Lows(jiffies))
  <2>. HIDE DEF Vec, Slots
  <2>. QED
    BY <1>2, <1>4 DEF AllFit
<1>8. Injective(put) /\ Injective(get) /\ Items(put) = {} /\ Items(get) = {}
  BY <1>4 DEF Init, Injective
<1>9. Stages
  <2>. SUFFICES ASSUME NEW t \in Timer  PROVE Stage(t)
    BY DEF Stages
  <2>. QED
    BY <1>0, <1>6, <1>8 DEF Stage, Waits, Init
<1>10. Unset /\ Handed
  BY <1>8 DEF Unset, Handed, Init
<1>. QED
  BY <1>3, <1>5, <1>6, <1>7, <1>8, <1>9, <1>10 DEF Inv

(* The rest of the state says nothing of where the timers are. *)
LEMMA InvFrame ==
  ASSUME Inv, TypeOK', Unset',
         UNCHANGED <<jiffies, index, wheel, due, adding, put, get, stray, linkedAt, firedAt>>
  PROVE  Inv'
<1>1. Indexed'
  BY DEF Inv, Indexed, Coming
<1>2. Once(wheel)' /\ Injective(put)' /\ Injective(get)'
  BY DEF Inv
<1>3. AllFit(wheel, linkedAt, Lows(jiffies))'
  BY DEF Inv, AllFit, Lows, Fits, Wanted
<1>4. Stages'
  BY DEF Inv, Stages, Stage, Waits
<1>5. Handed'
  BY DEF Inv, Handed
<1>. QED
  BY <1>1, <1>2, <1>3, <1>4, <1>5 DEF Inv

LEMMA InvTick == ASSUME Inv, Tick  PROVE Inv'
<1>1. TypeOK' /\ Unset'
  <2>1. frame \in Nat /\ behind \in Nat
    BY DEF Inv, TypeOK
  <2>2. frame' \in Nat /\ behind' \in Nat
    BY <2>1 DEF Tick
  <2>. QED
    BY <2>2 DEF Inv, TypeOK, Unset, Tick, timerVars, history
<1>. QED
  BY <1>1, InvFrame DEF Tick, timerVars, history

LEMMA InvRelease == ASSUME Inv, Release  PROVE Inv'
<1>1. TypeOK' /\ Unset'
  BY DEF Inv, TypeOK, Unset, Release, timerVars, history
<1>. QED
  BY <1>1, InvFrame DEF Release, timerVars, history

LEMMA InvRunDone == ASSUME Inv, RunDone  PROVE Inv'
<1>1. TypeOK' /\ Unset'
  BY DEF Inv, TypeOK, Unset, RunDone, clock, history
<1>. QED
  BY <1>1, InvFrame DEF RunDone, clock, history

LEMMA InvStutter == ASSUME Inv, UNCHANGED vars  PROVE Inv'
<1>1. TypeOK' /\ Unset'
  BY DEF Inv, TypeOK, Unset, vars, timerVars, clock, history
<1>. QED
  BY <1>1, InvFrame DEF vars, timerVars, clock, history

(* The clock is set back: every timer that waits has lost its time. *)
LEMMA InvSetStart == ASSUME Inv, NEW o \in Outage, SetStart(o)  PROVE Inv'
<1>0. /\ jiffies' = 0 /\ index' = [n \in Vec |-> 0] /\ frame' = 0 /\ behind' = o
      /\ adding = NoTimer /\ control' = "held" /\ control = "before"
      /\ stray' = {t \in Timer : due[t] > 0 /\ firedAt[t] = Never}
      /\ \A t \in stray' : due[t] < Reach[NVecs]
      /\ UNCHANGED <<due, adding, put, wheel, get, tpc, turn, linkedAt, firedAt>>
  BY DEF SetStart, timer_time_set_start, history
<1>1. TypeOK'
  <2>1. o \in Nat
    BY WheelAssumption
  <2>. QED
    BY <1>0, <2>1 DEF Inv, TypeOK
<1>2. \A t \in Timer : Holds(wheel, t) => t \in stray'
  BY <1>0 DEF Inv, Stages, Stage
<1>3. Indexed'
  <2>. SUFFICES ASSUME NEW n \in Vec  PROVE index'[n] = Coming(n, jiffies') % Size(n)
    BY DEF Indexed
  <2>1. Unit(n) \in Nat \ {0} /\ Size(n) \in Nat \ {0}
    BY UnitIs
  <2>2. 0 - 1 = Unit(n) * (0 - 1) + (Unit(n) - 1) /\ Unit(n) - 1 \in 0..(Unit(n) - 1)
    BY <2>1
  <2>3. (0 - 1) \div Unit(n) = 0 - 1
    <3>1. 0 - 1 \in Int
      OBVIOUS
    <3>. QED
      BY <2>1, <2>2, <3>1, DivisionIs
  <2>4. Coming(n, 0) = 0 /\ 0 % Size(n) = 0
    BY <2>1, <2>3 DEF Coming
  <2>. QED
    BY <1>0, <2>4
<1>4. Once(wheel)' /\ Injective(put)' /\ Injective(get)'
  BY <1>0 DEF Inv
<1>5. AllFit(wheel, linkedAt, Lows(jiffies))'
  <2>. SUFFICES ASSUME NEW n \in Vec, NEW i \in Slots(n), NEW t \in Items(wheel[n][i])
                PROVE  Fits(t, linkedAt[t], n, i, Lows(jiffies)[n])'
    BY <1>0 DEF AllFit
  <2>1. Holds(wheel, t) /\ t \in Timer
    <3>1. wheel[n][i] \in Seq(Timer)
      BY SlotIs DEF Inv, TypeOK
    <3>. QED
      BY <3>1 DEF Holds, Items
  <2>2. t \in stray'
    BY <1>2, <2>1
  <2>3. Fits(t, linkedAt[t], n, i, Lows(jiffies)[n])
    BY DEF Inv, AllFit
  <2>. QED
    BY <1>0, <2>2, <2>3 DEF Fits, Wanted
<1>6. Stages'
  <2>. SUFFICES ASSUME NEW t \in Timer  PROVE Stage(t)'
    BY DEF Stages
  <2>1. Stage(t)
    BY DEF Inv, Stages
  <2>2. Waits(t) => t \in stray'
    BY <1>0, <2>1 DEF Stage, Waits
  <2>3. Waits(t) => due[t] < 0 + Reach[NVecs]
    <3>1. NVecs \in Vec
      BY WheelAssumption DEF Vec
    <3>2. Reach[NVecs] \in Nat
      BY <3>1, ReachIs
    <3>. QED
      BY <1>0, <2>2, <3>2
  <2>4. Waits(t)' <=> Waits(t)
    BY <1>0 DEF Waits
  <2>. QED
    BY <1>0, <1>2, <2>1, <2>3, <2>4 DEF Stage
<1>7. Unset'
  BY <1>0 DEF Unset
<1>8. Handed'
  <2>1. \A t \in Items(get) : t \in Timer
    BY DEF Inv, TypeOK, Items
  <2>2. \A t \in Items(get) \ stray' : t \notin stray
    BY <1>0 DEF Inv, Unset
  <2>. QED
    BY <1>0, <2>1, <2>2 DEF Inv, Handed
<1>. QED
  BY <1>1, <1>3, <1>4, <1>5, <1>6, <1>7, <1>8 DEF Inv

LEMMA WideReach == Reach[NVecs] \in Nat /\ Reach[NVecs] > 1
<1>1. NVecs \in Vec
  BY WheelAssumption DEF Vec
<1>2. Unit(NVecs) \in Nat \ {0} /\ Size(NVecs) \in Nat \ {0, 1}
      /\ Reach[NVecs] = Unit(NVecs) * Size(NVecs)
  BY <1>1, UnitIs
<1>3. Unit(NVecs) * 1 < Unit(NVecs) * Size(NVecs)
  BY <1>2, TimesLess
<1>. QED
  BY <1>2, <1>3

LEMMA HeldTimer ==
  ASSUME wheel \in Wheels, NEW n \in Vec, NEW i \in Slots(n), NEW t \in Items(wheel[n][i])
  PROVE  t \in Timer /\ Holds(wheel, t)
<1>1. wheel[n][i] \in Seq(Timer)
  BY SlotIs
<1>. QED
  BY <1>1 DEF Holds, Items

LEMMA InvAddRead == ASSUME Inv, NEW t \in Timer, NEW d \in Delay, AddRead(t, d)  PROVE Inv'
<1>. DEFINE e == IF d < 1 THEN 1 ELSE d
<1>0. /\ adding = NoTimer /\ t \notin Items(put) /\ linkedAt[t] = Never
      /\ due' = [due EXCEPT ![t] = jiffies + e] /\ adding' = t
      /\ UNCHANGED <<frame, jiffies, put, index, wheel, get, tpc, turn, control, behind, stray,
                     linkedAt, firedAt>>
  BY DEF AddRead, timerVars, clock, history, ToSet, Items
<1>1. e \in Nat /\ e > 0 /\ e < Reach[NVecs]
  <2>1. d \in 0..(Reach[NVecs] - 1)
    BY WheelAssumption
  <2>. QED
    BY <2>1, WideReach
<1>. HIDE DEF e
<1>2. TypeOK
  BY DEF Inv
<1>3. due \in [Timer -> Nat] /\ jiffies \in Nat /\ wheel \in Wheels /\ NoTimer \notin Timer
  BY <1>2, WheelAssumption DEF TypeOK
<1>4. due' \in [Timer -> Nat] /\ due'[t] = jiffies + e
      /\ \A x \in Timer : x # t => due'[x] = due[x]
  BY <1>0, <1>1, <1>3
<1>5. TypeOK'
  BY <1>0, <1>2, <1>4 DEF TypeOK
<1>6. ~Holds(wheel, t) /\ t \notin Items(get) /\ t \notin stray
  <2>1. Stage(t)
    BY DEF Inv, Stages
  <2>. QED
    BY <1>0, <1>3, <2>1 DEF Stage
<1>7. Indexed' /\ Once(wheel)' /\ Injective(put)' /\ Injective(get)' /\ Unset'
  BY <1>0 DEF Inv, Indexed, Coming, Unset
<1>8. AllFit(wheel, linkedAt, Lows(jiffies))'
  <2>. SUFFICES ASSUME NEW n \in Vec, NEW i \in Slots(n), NEW x \in Items(wheel[n][i])
                PROVE  Fits(x, linkedAt[x], n, i, Lows(jiffies)[n])'
    BY <1>0 DEF AllFit
  <2>1. Holds(wheel, x) /\ x \in Timer
    BY <1>3, HeldTimer
  <2>2. due'[x] = due[x]
    BY <1>4, <1>6, <2>1
  <2>3. Fits(x, linkedAt[x], n, i, Lows(jiffies)[n])
    BY DEF Inv, AllFit
  <2>. QED
    BY <1>0, <2>2, <2>3 DEF Fits, Wanted, Lows
<1>9. Stages'
  <2>. SUFFICES ASSUME NEW x \in Timer  PROVE Stage(x)'
    BY DEF Stages
  <2>1. Stage(x)
    BY DEF Inv, Stages
  <2>2. CASE x = t
    <3>1. x = adding' /\ linkedAt'[x] = Never /\ x \notin Items(put')
          /\ ~Holds(wheel', x) /\ x \notin Items(get') /\ x \notin stray'
          /\ firedAt' = firedAt
      BY <1>0, <1>6, <2>2
    <3>2. due'[x] > 0 /\ due'[x] < jiffies' + Reach[NVecs]
      BY <1>0, <1>1, <1>3, <1>4, <2>2, WideReach
    <3>. QED
      BY <2>1, <3>1, <3>2, <1>0 DEF Stage
  <2>3. CASE x # t
    <3>1. x # adding /\ x # adding' /\ due'[x] = due[x]
      BY <1>0, <1>3, <1>4, <2>3
    <3>2. Waits(x)' <=> Waits(x)
      BY <1>0, <3>1 DEF Waits
    <3>. QED
      BY <1>0, <2>1, <3>1, <3>2 DEF Stage
  <2>. QED
    BY <2>2, <2>3
<1>10. Handed'
  <2>1. \A x \in Items(get) : due'[x] = due[x]
    <3>1. \A x \in Items(get) : x \in Timer
      BY <1>2 DEF TypeOK, Items
    <3>. QED
      BY <1>4, <1>6, <3>1
  <2>. QED
    BY <1>0, <2>1 DEF Inv, Handed
<1>. QED
  BY <1>5, <1>7, <1>8, <1>9, <1>10 DEF Inv

LEMMA AppendKeepsInjective ==
  ASSUME NEW S, NEW s \in Seq(S), NEW t \in S, Injective(s), t \notin Items(s),
         NEW v, v = Append(s, t)
  PROVE  Injective(v)
<1>. DEFINE last == Len(s) + 1
<1>1. /\ DOMAIN v = DOMAIN s \union {last} /\ v[last] = t
      /\ \A k \in DOMAIN s : v[k] = s[k]
  BY AppendItems
<1>2. \A k \in DOMAIN s : s[k] # t
  BY DEF Items
<1>. HIDE DEF last
<1>. SUFFICES ASSUME NEW k \in DOMAIN v, NEW l \in DOMAIN v, v[k] = v[l]  PROVE k = l
  BY DEF Injective
<1>3. CASE k \in DOMAIN s /\ l \in DOMAIN s
  <2>1. s[k] = s[l]
    BY <1>1, <1>3
  <2>. QED
    BY <1>3, <2>1 DEF Injective
<1>4. CASE ~(k \in DOMAIN s /\ l \in DOMAIN s)
  BY <1>1, <1>2, <1>4
<1>. QED
  BY <1>3, <1>4

LEMMA InvAddPut == ASSUME Inv, AddPut  PROVE Inv'
<1>0. /\ adding # NoTimer /\ put' = Append(put, adding) /\ adding' = NoTimer
      /\ UNCHANGED <<frame, jiffies, due, index, wheel, get, tpc, turn, control, behind, stray,
                     linkedAt, firedAt>>
  BY DEF AddPut, timerVars, clock, history
<1>1. TypeOK /\ adding \in Timer /\ put \in Seq(Timer) /\ NoTimer \notin Timer
  <2>1. TypeOK
    BY DEF Inv
  <2>. QED
    BY <1>0, <2>1, WheelAssumption DEF TypeOK
<1>2. adding \notin Items(put)
  BY <1>1 DEF Inv, Stages, Stage
<1>3. Items(put') = Items(put) \union {adding} /\ put' \in Seq(Timer)
  BY <1>0, <1>1, AppendItems
<1>4. Injective(put')
  <2>1. Injective(put)
    BY DEF Inv
  <2>. QED
    BY <1>0, <1>1, <1>2, <2>1, AppendKeepsInjective
<1>5. TypeOK'
  BY <1>0, <1>1, <1>3 DEF TypeOK
<1>6. Indexed' /\ Once(wheel)' /\ Injective(get)' /\ Unset'
  BY <1>0 DEF Inv, Indexed, Coming, Unset
<1>7. AllFit(wheel, linkedAt, Lows(jiffies))'
  BY <1>0 DEF Inv, AllFit, Lows, Fits, Wanted
<1>8. Stages'
  <2>. SUFFICES ASSUME NEW x \in Timer  PROVE Stage(x)'
    BY DEF Stages
  <2>1. Stage(x)
    BY DEF Inv, Stages
  <2>2. x # adding' /\ (x \in Items(put') <=> x = adding \/ x \in Items(put))
    BY <1>0, <1>1, <1>3
  <2>3. Waits(x)' <=> Waits(x)
    BY <1>0, <2>2 DEF Waits
  <2>. QED
    BY <1>0, <2>1, <2>2, <2>3 DEF Stage
<1>9. Handed'
  BY <1>0 DEF Inv, Handed
<1>. QED
  BY <1>4, <1>5, <1>6, <1>7, <1>8, <1>9 DEF Inv

(* In R jiffies every slot of tv1 comes round. *)
LEMMA ComesRound ==
  ASSUME NEW j \in Nat, NEW i \in 0..(R - 1)
  PROVE  \E x \in j..(j + R - 1) : x % R = i
<1>. DEFINE q == j \div R
            r == j % R
<1>0. R \in Nat \ {0}
  BY WheelAssumption
<1>1. q \in Int /\ r \in 0..(R - 1) /\ j = R * q + r
  <2>1. j \in Int
    OBVIOUS
  <2>. QED
    BY <1>0, <2>1, Division
<1>. HIDE DEF q, r
<1>2. CASE i >= r
  <2>1. R * q + i \in Int /\ R * q + i \in j..(j + R - 1)
    BY <1>0, <1>1, <1>2
  <2>2. (R * q + i) % R = i
    BY <1>0, <1>1, <2>1, DivisionIs
  <2>. QED
    BY <2>1, <2>2
<1>3. CASE i < r
  <2>1. R * (q + 1) + i \in Int /\ R * (q + 1) + i \in j..(j + R - 1) /\ q + 1 \in Int
    BY <1>0, <1>1, <1>3
  <2>2. (R * (q + 1) + i) % R = i
    BY <1>0, <2>1, DivisionIs
  <2>. QED
    BY <2>1, <2>2
<1>. QED
  BY <1>0, <1>1, <1>2, <1>3

LEMMA InvDrain == ASSUME Inv, Drain  PROVE Inv'
<1>0. /\ wheel' = AddAll(wheel, put) /\ put' = << >>
      /\ linkedAt' = [t \in Timer |-> IF t \in Items(put) THEN jiffies ELSE linkedAt[t]]
      /\ tpc' = "run" /\ turn' = 0
      /\ UNCHANGED <<frame, jiffies, due, adding, index, get, control, behind, stray, firedAt>>
  BY DEF Drain, clock, ToSet, Items
<1>1. TypeOK
  BY DEF Inv
<1>2. /\ jiffies \in Nat /\ due \in [Timer -> Nat] /\ wheel \in Wheels /\ put \in Seq(Timer)
      /\ linkedAt \in [Timer -> Nat \union {Never}] /\ Items(put) \subseteq Timer
      /\ Items(get) \subseteq Timer
  BY <1>1 DEF TypeOK, Items
<1>3. Never \notin Nat
  BY DEF Never
<1>4. ASSUME NEW t \in Items(put)
      PROVE  /\ t \in Timer /\ Places(t) /\ ~Holds(wheel, t) /\ linkedAt[t] = Never
             /\ t \notin Items(get) /\ due[t] < jiffies + Reach[NVecs]
  <2>1. t \in Timer
    BY <1>2
  <2>2. Stage(t)
    BY <2>1 DEF Inv, Stages
  <2>3. /\ ~Holds(wheel, t) /\ linkedAt[t] = Never
        /\ t \notin Items(get) /\ due[t] < jiffies + Reach[NVecs]
    BY <2>2 DEF Stage, Waits
  <2>4. Vector(t) \in Vec /\ Slot(t) \in Slots(Vector(t))
    BY <1>2, <2>1, <2>3, PlaceIs
  <2>. QED
    BY <2>1, <2>3, <2>4 DEF Places
<1>5. Gains(wheel', wheel, Items(put))
  <2>1. PICK f : IsAdding(f, wheel, put) /\ AddAll(wheel, put) = f[Len(put)]
    BY <1>2, AddAllRuns
  <2>2. Once(wheel) /\ Injective(put)
    BY DEF Inv
  <2>. QED
    BY <1>0, <1>2, <1>4, <2>1, <2>2, AddingAll
<1>6. /\ wheel' \in Wheels /\ Once(wheel')
      /\ \A x : Holds(wheel', x) <=> Holds(wheel, x) \/ x \in Items(put)
      /\ \A n \in Vec : \A i \in Slots(n) : \A x \in Items(wheel'[n][i]) :
           x \in Items(wheel[n][i]) \/ (x \in Items(put) /\ n = Vector(x) /\ i = Slot(x))
  BY <1>5 DEF Gains
<1>7. \A t \in Timer : linkedAt'[t] = IF t \in Items(put) THEN jiffies ELSE linkedAt[t]
  BY <1>0
<1>8. TypeOK'
  <2>1. linkedAt' \in [Timer -> Nat \union {Never}]
    BY <1>0, <1>2
  <2>2. put' \in Seq(Timer) /\ tpc' \in {"sleep", "run"} /\ turn' \in Nat
    BY <1>0
  <2>. QED
    BY <1>0, <1>1, <1>6, <2>1, <2>2 DEF TypeOK
<1>9. Items(put') = {} /\ Injective(put')
  BY <1>0 DEF Items, Injective
<1>10. Indexed' /\ Once(wheel)' /\ Injective(get)' /\ Unset'
  BY <1>0, <1>6 DEF Inv, Indexed, Coming, Unset
<1>11. AllFit(wheel, linkedAt, Lows(jiffies))'
  <2>. SUFFICES ASSUME NEW n \in Vec, NEW i \in Slots(n), NEW x \in Items(wheel'[n][i])
                PROVE  Fits(x, linkedAt[x], n, i, Lows(jiffies)[n])'
    BY DEF AllFit
  <2>. SUFFICES Fits(x, linkedAt'[x], n, i, Coming(n, jiffies))
    BY <1>0 DEF Fits, Wanted, Lows
  <2>1. CASE x \in Items(wheel[n][i])
    <3>1. x \in Timer /\ Holds(wheel, x)
      BY <1>2, <2>1, HeldTimer
    <3>2. x \notin Items(put)
      BY <1>4, <3>1
    <3>3. linkedAt'[x] = linkedAt[x]
      BY <1>7, <3>1, <3>2
    <3>4. Fits(x, linkedAt[x], n, i, Lows(jiffies)[n])
      BY <2>1 DEF Inv, AllFit
    <3>. QED
      BY <3>3, <3>4 DEF Lows
  <2>2. CASE x \in Items(put) /\ n = Vector(x) /\ i = Slot(x)
    <3>1. x \in Timer /\ due[x] < jiffies + Reach[NVecs]
      BY <1>4, <2>2
    <3>2. linkedAt'[x] = jiffies
      BY <1>7, <2>2, <3>1
    <3>3. n = 1 => Coming(n, jiffies) = jiffies
      BY <1>2, ComingRoot
    <3>4. CASE x \in stray \/ jiffies <= due[x]
      <4>1. Coming(n, jiffies) \in {Coming(Vector(x), jiffies), Coming(Vector(x), jiffies + 1)}
        BY <2>2
      <4>2. Fits(x, jiffies, Vector(x), Slot(x), Coming(n, jiffies))
        BY <1>2, <2>2, <3>1, <3>3, <3>4, <4>1, PlacedFits
      <4>. QED
        BY <2>2, <3>2, <4>2
    <3>5. CASE ~(x \in stray \/ jiffies <= due[x])
      <4>1. due[x] \in Nat /\ due[x] < jiffies
        BY <1>2, <3>1, <3>5
      <4>2. n = 1 /\ i \in Slots(n)
        BY <1>2, <2>2, <3>1, <4>1, PlaceIs
      <4>3. \E y \in jiffies..(jiffies + R - 1) : y % R = i
        BY <1>2, <4>2, ComesRound DEF Slots, Size
      <4>4. i = Wanted(n, x) % Size(n)
        BY <2>2 DEF Slot
      <4>5. ~(jiffies <= due[x])
        BY <3>5
      <4>. QED
        BY <3>2, <4>2, <4>3, <4>4, <4>5 DEF Fits
    <3>. QED
      BY <3>4, <3>5
  <2>. QED
    BY <1>6, <2>1, <2>2
<1>12. Stages'
  <2>. SUFFICES ASSUME NEW x \in Timer  PROVE Stage(x)'
    BY DEF Stages
  <2>1. Stage(x)
    BY DEF Inv, Stages
  <2>2. /\ x \notin Items(put') /\ adding' = adding
        /\ Holds(wheel', x) <=> Holds(wheel, x) \/ x \in Items(put)
        /\ linkedAt'[x] = IF x \in Items(put) THEN jiffies ELSE linkedAt[x]
    BY <1>0, <1>6, <1>7, <1>9
  <2>3. Waits(x)' => Waits(x)
    BY <2>2 DEF Waits
  <2>4. x \in Items(put) => jiffies # Never /\ firedAt[x] = Never /\ x \notin Items(get) /\ x # adding
    BY <1>2, <1>3, <1>4, <2>1 DEF Stage
  <2>5. jiffies <= jiffies
    BY <1>2
  <2>. QED
    BY <1>0, <2>1, <2>2, <2>3, <2>4, <2>5 DEF Stage
<1>13. Handed'
  <2>1. \A x \in Items(get) : linkedAt'[x] = linkedAt[x]
    BY <1>2, <1>4, <1>7
  <2>. QED
    BY <1>0, <2>1 DEF Inv, Handed
<1>. QED
  BY <1>8, <1>9, <1>10, <1>11, <1>12, <1>13 DEF Inv

(* The next slot of a vector. *)
LEMMA NextSlot ==
  ASSUME NEW s \in Nat \ {0}, NEW c \in Int
  PROVE  ((c % s) + 1) % s = (c + 1) % s
<1>. DEFINE q == c \div s
            r == c % s
<1>1. q \in Int /\ r \in 0..(s - 1) /\ c = s * q + r
  BY Division
<1>. HIDE DEF q, r
<1>2. CASE r # s - 1
  <2>1. c + 1 = s * q + (r + 1) /\ r + 1 \in 0..(s - 1) /\ c + 1 \in Int
    BY <1>1, <1>2
  <2>2. r + 1 = s * 0 + (r + 1) /\ r + 1 \in Int
    BY <1>1
  <2>3. (c + 1) % s = r + 1
    BY <1>1, <2>1, DivisionIs
  <2>4. (r + 1) % s = r + 1
    BY <2>1, <2>2, DivisionIs
  <2>. QED
    BY <2>3, <2>4 DEF r
<1>3. CASE r = s - 1
  <2>1. c + 1 = s * (q + 1) + 0 /\ 0 \in 0..(s - 1) /\ c + 1 \in Int /\ q + 1 \in Int
    BY <1>1, <1>3
  <2>2. r + 1 = s * 1 + 0 /\ r + 1 \in Int
    BY <1>1, <1>3
  <2>3. (c + 1) % s = 0
    BY <2>1, DivisionIs
  <2>4. (r + 1) % s = 0
    BY <2>1, <2>2, DivisionIs
  <2>. QED
    BY <2>3, <2>4 DEF r
<1>. QED
  BY <1>2, <1>3

LEMMA IndexedNext ==
  ASSUME TypeOK, Indexed, NEW n \in Vec
  PROVE  (IF n = 1 \/ n \in Cascading THEN (index[n] + 1) % Size(n) ELSE index[n])
           = Coming(n, jiffies + 1) % Size(n)
<1>1. jiffies \in Nat /\ Size(n) \in Nat \ {0} /\ Coming(n, jiffies) \in Int
  <2>1. jiffies \in Nat
    BY DEF TypeOK
  <2>. QED
    BY <2>1, ComingType, UnitIs
<1>2. index[n] = Coming(n, jiffies) % Size(n)
  BY DEF Indexed
<1>3. CASE n = 1 \/ n \in Cascading
  <2>1. jiffies % Unit(n) = 0
    <3>1. CASE n = 1
      <4>1. Unit(n) = 1 /\ jiffies % 1 = 0
        BY <1>1, <3>1, UnitIs
      <4>. QED
        BY <4>1
    <3>2. CASE n # 1
      BY <1>1, <1>3, <3>2, CascadingIs
    <3>. QED
      BY <3>1, <3>2
  <2>2. Coming(n, jiffies + 1) = Coming(n, jiffies) + 1
    BY <1>1, <2>1, ComingAt
  <2>3. ((Coming(n, jiffies) % Size(n)) + 1) % Size(n) = (Coming(n, jiffies) + 1) % Size(n)
    BY <1>1, NextSlot
  <2>. QED
    BY <1>2, <1>3, <2>2, <2>3
<1>4. CASE ~(n = 1 \/ n \in Cascading)
  <2>1. jiffies % Unit(n) # 0
    BY <1>1, <1>4, CascadingIs
  <2>2. Coming(n, jiffies + 1) = Coming(n, jiffies)
    BY <1>1, <2>1, ComingBetween
  <2>. QED
    BY <1>2, <1>4, <2>2
<1>. QED
  BY <1>3, <1>4

LEMMA ConcatItems ==
  ASSUME NEW s \in Seq(Timer), NEW r \in Seq(Timer), Injective(s), Injective(r),
         Items(s) \cap Items(r) = {}, NEW v, v = s \o r
  PROVE  /\ v \in Seq(Timer)
         /\ Items(v) = Items(s) \union Items(r)
         /\ Injective(v)
<1>. DEFINE m == Len(s)
            k == Len(r)
<1>1. /\ m \in Nat /\ k \in Nat /\ v \in Seq(Timer)
      /\ DOMAIN s = 1..m /\ DOMAIN r = 1..k /\ DOMAIN v = 1..(m + k)
      /\ \A i \in 1..m : v[i] = s[i]
      /\ \A i \in (m + 1)..(m + k) : v[i] = r[i - m]
  OBVIOUS
<1>. HIDE DEF m, k
<1>2. \A i \in DOMAIN v : \/ i \in DOMAIN s /\ v[i] = s[i]
                          \/ i - m \in DOMAIN r /\ v[i] = r[i - m]
  BY <1>1
<1>3. Items(v) \subseteq Items(s) \union Items(r)
  BY <1>2 DEF Items
<1>4. Items(s) \subseteq Items(v)
  BY <1>1 DEF Items
<1>5. Items(r) \subseteq Items(v)
  <2>. SUFFICES ASSUME NEW i \in DOMAIN r  PROVE r[i] \in Items(v)
    BY DEF Items
  <2>1. i + m \in (m + 1)..(m + k) /\ (i + m) - m = i /\ i + m \in DOMAIN v
    BY <1>1
  <2>2. v[i + m] = r[i]
    BY <1>1, <2>1
  <2>. QED
    BY <2>1, <2>2 DEF Items
<1>6. Injective(v)
  <2>. SUFFICES ASSUME NEW i \in DOMAIN v, NEW j \in DOMAIN v, v[i] = v[j]  PROVE i = j
    BY DEF Injective
  <2>0. \A x \in DOMAIN s, y \in DOMAIN r : s[x] # r[y]
    BY DEF Items
  <2>1. CASE i \in DOMAIN s /\ v[i] = s[i] /\ j \in DOMAIN s /\ v[j] = s[j]
    BY <2>1 DEF Injective
  <2>2. CASE i - m \in DOMAIN r /\ v[i] = r[i - m] /\ j - m \in DOMAIN r /\ v[j] = r[j - m]
    <3>1. i - m = j - m
      BY <2>2 DEF Injective
    <3>. QED
      BY <1>1, <3>1
  <2>. QED
    BY <1>2, <2>0, <2>1, <2>2
<1>. QED
  BY <1>1, <1>3, <1>4, <1>5, <1>6

Expired == Cascaded[1][index[1]]

(* What is handed back, and what stays in the wheel. *)
LEMMA Expiring ==
  ASSUME Inv
  PROVE  /\ Kept(Cascaded, NVecs) /\ Expired \in Seq(Timer)
         /\ 1 \in Vec /\ index[1] \in Slots(1) /\ index[1] = jiffies % R
         /\ \A t \in Items(Expired) :
              /\ t \in Timer /\ Holds(wheel, t)
              /\ t \notin stray => IF linkedAt[t] <= due[t] THEN due[t] = jiffies
                                   ELSE jiffies < linkedAt[t] + R
<1>0. /\ TypeOK /\ Indexed /\ jiffies \in Nat /\ R \in Nat \ {0, 1} /\ NVecs \in Nat \ {0, 1}
      /\ due \in [Timer -> Nat] /\ wheel \in Wheels
      /\ linkedAt \in [Timer -> Nat \union {Never}]
  <2>1. TypeOK /\ Indexed
    BY DEF Inv
  <2>. QED
    BY <2>1, WheelAssumption DEF TypeOK
<1>1. Timely(wheel)
  BY DEF Inv, Stages, Stage, Timely, Waits
<1>2. Kept(Cascaded, NVecs)
  BY <1>0, <1>1, CascadedKept DEF Inv
<1>3. 1 \in Vec /\ Coming(1, jiffies) = jiffies /\ Size(1) = R
  <2>1. 1 \in Vec
    BY <1>0 DEF Vec
  <2>. QED
    BY <1>0, <2>1, ComingRoot DEF Size
<1>4. index[1] = jiffies % R /\ index[1] \in Slots(1)
  <2>1. index[1] = jiffies % R
    BY <1>0, <1>3 DEF Indexed
  <2>2. jiffies \in Int /\ R \in Nat \ {0}
    BY <1>0
  <2>. QED
    BY <1>3, <2>1, <2>2, Division DEF Slots
<1>. HIDE DEF Vec, Slots
<1>5. Expired \in Seq(Timer)
  BY <1>2, <1>3, <1>4, SlotIs DEF Kept, Expired
<1>6. ASSUME NEW t \in Items(Expired)
      PROVE  /\ t \in Timer /\ Holds(wheel, t)
             /\ t \notin stray => IF linkedAt[t] <= due[t] THEN due[t] = jiffies
                                  ELSE jiffies < linkedAt[t] + R
  <2>1. t \in Timer
    BY <1>5 DEF Items
  <2>2. Holds(wheel, t)
    <3>1. Holds(Cascaded, t)
      BY <1>3, <1>4 DEF Holds, Expired
    <3>. QED
      BY <1>2, <3>1 DEF Kept
  <2>3. Fits(t, linkedAt[t], 1, index[1], jiffies)
    <3>1. Mixed(NVecs)[1] = jiffies
      BY <1>3 DEF Mixed
    <3>. QED
      BY <1>2, <1>3, <1>4, <3>1 DEF Kept, AllFit, Expired
  <2>4. Wanted(1, t) = due[t] /\ due[t] \in Nat
    <3>1. Unit(1) = 1 /\ due[t] \in Nat
      BY <1>0, <1>3, <2>1, UnitIs
    <3>. QED
      BY <3>1 DEF Wanted
  <2>5. ASSUME t \notin stray, linkedAt[t] <= due[t]  PROVE due[t] = jiffies
    <3>1. index[1] = due[t] % R /\ jiffies <= due[t] /\ due[t] < jiffies + R
      BY <1>3, <2>3, <2>4, <2>5 DEF Fits
    <3>2. jiffies \in Int /\ due[t] \in Int /\ R \in Nat \ {0} /\ jiffies % R = due[t] % R
      BY <1>0, <1>4, <2>4, <3>1
    <3>. QED
      BY <3>1, <3>2, Turn
  <2>6. ASSUME t \notin stray, ~(linkedAt[t] <= due[t])  PROVE jiffies < linkedAt[t] + R
    <3>1. \E x \in jiffies..(linkedAt[t] + R - 1) : x % R = index[1]
      BY <2>3, <2>6 DEF Fits
    <3>2. linkedAt[t] \in Int
      BY <1>0, <2>1 DEF Never
    <3>. QED
      BY <1>0, <3>1, <3>2
  <2>. QED
    BY <2>1, <2>2, <2>5, <2>6
<1>. QED
  BY <1>2, <1>3, <1>4, <1>5, <1>6

LEMMA InvRunJiffy == ASSUME Inv, RunJiffy  PROVE Inv'
<1>. DEFINE s == index[1]
<1>0. /\ get' = get \o Expired /\ wheel' = Cleared(Cascaded, 1, s)
      /\ firedAt' = [t \in Timer |-> IF t \in Items(Expired) THEN jiffies ELSE firedAt[t]]
      /\ index' = [n \in Vec |-> IF n = 1 \/ n \in Cascading THEN (index[n] + 1) % Size(n)
                                 ELSE index[n]]
      /\ jiffies' = jiffies + 1 /\ turn' = turn + 1
      /\ UNCHANGED <<frame, due, adding, put, tpc, control, behind, stray, linkedAt>>
  BY DEF RunJiffy, clock, ToSet, Items, Expired, Cleared
<1>1. /\ Kept(Cascaded, NVecs) /\ Expired \in Seq(Timer) /\ 1 \in Vec
      /\ s \in Slots(1) /\ s = jiffies % R
      /\ \A t \in Items(Expired) :
           /\ t \in Timer /\ Holds(wheel, t)
           /\ t \notin stray => IF linkedAt[t] <= due[t] THEN due[t] = jiffies
                                ELSE jiffies < linkedAt[t] + R
  BY Expiring
<1>. HIDE DEF s, Vec, Slots
<1>2. TypeOK /\ Indexed
  BY DEF Inv
<1>3. /\ jiffies \in Nat /\ due \in [Timer -> Nat] /\ wheel \in Wheels /\ get \in Seq(Timer)
      /\ linkedAt \in [Timer -> Nat \union {Never}]
      /\ firedAt \in [Timer -> Nat \union {Never}] /\ turn \in Nat
  BY <1>2 DEF TypeOK
<1>4. R \in Nat \ {0, 1} /\ NVecs \in Nat \ {0, 1} /\ Never \notin Nat
  BY WheelAssumption DEF Never
<1>5. /\ wheel' \in Wheels /\ Once(wheel')
      /\ \A x : Holds(wheel', x) <=> Holds(wheel, x) /\ x \notin Items(Expired)
      /\ \A n \in Vec : \A i \in Slots(n) :
           wheel'[n][i] = IF n = 1 /\ i = s THEN << >> ELSE Cascaded[n][i]
  <2>. DEFINE v == wheel'
              c == Cascaded
  <2>1. c \in Wheels /\ Once(c) /\ (\A x : Holds(c, x) <=> Holds(wheel, x))
    BY <1>1 DEF Kept
  <2>2. v = Cleared(c, 1, s) /\ Expired = c[1][s]
    BY <1>0 DEF Expired, s
  <2>. HIDE DEF v, c
  <2>3. /\ v \in Wheels /\ Once(v)
        /\ \A x : Holds(v, x) <=> Holds(c, x) /\ x \notin Items(c[1][s])
        /\ \A n \in Vec : \A i \in Slots(n) :
             v[n][i] = IF n = 1 /\ i = s THEN << >> ELSE c[n][i]
    BY <1>1, <2>1, <2>2, ClearedHolds
  <2>. QED
    BY <2>1, <2>2, <2>3 DEF v, c
<1>6. /\ Items(get') = Items(get) \union Items(Expired) /\ get' \in Seq(Timer)
      /\ Injective(get')
  <2>1. Items(get) \cap Items(Expired) = {}
    <3>. SUFFICES ASSUME NEW t \in Items(Expired)  PROVE t \notin Items(get)
      OBVIOUS
    <3>1. t \in Timer /\ Holds(wheel, t)
      BY <1>1
    <3>2. Stage(t)
      BY <3>1 DEF Inv, Stages
    <3>. QED
      BY <3>1, <3>2 DEF Stage
  <2>2. Injective(Expired)
    <3>. DEFINE c == Cascaded
    <3>1. c \in Wheels /\ Once(c) /\ Expired = c[1][s]
      BY <1>1 DEF Kept, Expired, s
    <3>. HIDE DEF c
    <3>. SUFFICES ASSUME NEW k \in DOMAIN Expired, NEW l \in DOMAIN Expired, Expired[k] = Expired[l]
                  PROVE  k = l
      BY DEF Injective
    <3>. QED
      BY <1>1, <3>1, OnceAt
  <2>3. Injective(get)
    BY DEF Inv
  <2>. DEFINE e == Expired
              g == get'
  <2>4. g = get \o e /\ e \in Seq(Timer) /\ Items(get) \cap Items(e) = {} /\ Injective(e)
    BY <1>0, <1>1, <2>1, <2>2
  <2>. HIDE DEF e, g
  <2>. DEFINE h == get
  <2>5. h \in Seq(Timer) /\ Injective(h) /\ Items(h) \cap Items(e) = {} /\ g = h \o e
    BY <1>3, <2>3, <2>4
  <2>. HIDE DEF h
  <2>6. Items(g) = Items(h) \union Items(e) /\ g \in Seq(Timer) /\ Injective(g)
    BY <2>4, <2>5, ConcatItems
  <2>. QED
    BY <2>6 DEF e, g, h
<1>7. \A t \in Timer : firedAt'[t] = IF t \in Items(Expired) THEN jiffies ELSE firedAt[t]
  BY <1>0
<1>8. \A n \in Vec : index'[n] = Coming(n, jiffies + 1) % Size(n)
  BY <1>0, <1>2, IndexedNext
<1>9. TypeOK'
  <2>1. firedAt' \in [Timer -> Nat \union {Never}]
    BY <1>0, <1>3
  <2>2. index' \in [Vec -> Nat]
    <3>1. \A n \in Vec : Coming(n, jiffies + 1) % Size(n) \in Nat
      <4>. SUFFICES ASSUME NEW n \in Vec  PROVE Coming(n, jiffies + 1) % Size(n) \in Nat
        OBVIOUS
      <4>. DEFINE c == Coming(n, jiffies + 1)
                  z == Size(n)
      <4>1. c \in Int /\ z \in Nat \ {0}
        BY <1>3, ComingType, UnitIs
      <4>. HIDE DEF c, z
      <4>2. c % z \in 0..(z - 1)
        BY <4>1, Division
      <4>3. c % z \in Nat
        BY <4>1, <4>2
      <4>. QED
        BY <4>3 DEF c, z
    <3>. QED
      BY <1>0, <1>8, <3>1
  <2>3. jiffies' \in Nat /\ turn' \in Nat
    BY <1>0, <1>3
  <2>. QED
    BY <1>0, <1>2, <1>5, <1>6, <2>1, <2>2, <2>3 DEF TypeOK
<1>10. Indexed'
  BY <1>0, <1>8 DEF Indexed, Coming
<1>11. AllFit(wheel, linkedAt, Lows(jiffies))'
  <2>. SUFFICES ASSUME NEW n \in Vec, NEW i \in Slots(n), NEW t \in Items(wheel'[n][i])
                PROVE  Fits(t, linkedAt[t], n, i, Lows(jiffies)[n])'
    BY DEF AllFit
  <2>1. ~(n = 1 /\ i = s) /\ t \in Items(Cascaded[n][i])
    <3>1. Items(<< >>) = {}
      BY DEF Items
    <3>. QED
      BY <1>5, <3>1
  <2>2. Fits(t, linkedAt[t], n, i, Mixed(NVecs)[n])
    BY <1>1, <2>1 DEF Kept, AllFit
  <2>3. t \in Timer /\ due[t] \in Nat /\ linkedAt[t] \in Int
    <3>1. wheel'[n][i] \in Seq(Timer)
      BY <1>5, SlotIs
    <3>2. t \in Timer
      BY <3>1 DEF Items
    <3>. QED
      BY <1>3, <3>2 DEF Never
  <2>4. CASE n # 1
    <3>1. Mixed(NVecs)[n] = Coming(n, jiffies + 1)
      <4>1. n <= NVecs
        BY <1>4 DEF Vec
      <4>. QED
        BY <2>4, <4>1 DEF Mixed
    <3>2. Lows(jiffies)'[n] = Coming(n, jiffies + 1)
      BY <1>0 DEF Lows, Coming
    <3>. QED
      BY <1>0, <2>2, <2>4, <3>1, <3>2 DEF Fits, Wanted
  <2>5. CASE n = 1
    <3>1. Mixed(NVecs)[n] = jiffies
      BY <1>3, <2>5, ComingRoot DEF Mixed
    <3>2. Lows(jiffies)'[n] = jiffies + 1
      <4>1. Lows(jiffies)'[n] = Coming(n, jiffies + 1)
        BY <1>0 DEF Lows, Coming
      <4>2. jiffies + 1 \in Nat
        BY <1>3
      <4>. QED
        BY <2>5, <4>1, <4>2, ComingRoot
    <3>3. Wanted(n, t) = due[t] /\ Size(n) = R
      BY <2>3, <2>5, UnitIs DEF Wanted, Size
    <3>4. i # jiffies % R
      BY <1>1, <2>1, <2>5
    <3>5. Fits(t, linkedAt[t], n, i, jiffies)
      BY <2>2, <3>1
    <3>6. ASSUME t \notin stray, linkedAt[t] <= due[t]
          PROVE  jiffies + 1 <= due[t] /\ due[t] < jiffies + 1 + R
      <4>1. i = due[t] % R /\ jiffies <= due[t] /\ due[t] < jiffies + R
        BY <3>3, <3>5, <3>6 DEF Fits
      <4>2. jiffies # due[t]
        BY <3>4, <4>1
      <4>. QED
        BY <1>3, <1>4, <2>3, <4>1, <4>2
    <3>7. ASSUME t \notin stray, ~(linkedAt[t] <= due[t])
          PROVE  \E x \in (jiffies + 1)..(linkedAt[t] + R - 1) : x % R = i
      <4>1. PICK x \in jiffies..(linkedAt[t] + R - 1) : x % R = i
        BY <3>5, <3>7 DEF Fits
      <4>2. x # jiffies
        BY <3>4, <4>1
      <4>3. x \in (jiffies + 1)..(linkedAt[t] + R - 1)
        BY <1>3, <1>4, <2>3, <4>2
      <4>. QED
        BY <4>1, <4>3
    <3>8. i = Wanted(n, t) % Size(n)
      BY <3>5 DEF Fits
    <3>9. Wanted(n, t)' = due[t] /\ due' = due /\ stray' = stray /\ linkedAt' = linkedAt
      BY <1>0, <3>3 DEF Wanted
    <3>. QED
      BY <1>0, <2>5, <3>2, <3>3, <3>6, <3>7, <3>8, <3>9 DEF Fits
  <2>. QED
    BY <2>4, <2>5
<1>12. Stages'
  <2>. SUFFICES ASSUME NEW x \in Timer  PROVE Stage(x)'
    BY DEF Stages
  <2>1. Stage(x)
    BY DEF Inv, Stages
  <2>2. /\ Holds(wheel', x) <=> Holds(wheel, x) /\ x \notin Items(Expired)
        /\ x \in Items(get') <=> x \in Items(get) \/ x \in Items(Expired)
        /\ firedAt'[x] = IF x \in Items(Expired) THEN jiffies ELSE firedAt[x]
        /\ x \in Items(Expired) => Holds(wheel, x)
    BY <1>1, <1>5, <1>6, <1>7
  <2>3. Waits(x)' => Waits(x)
    BY <1>0, <2>2 DEF Waits
  <2>4. due[x] < jiffies + Reach[NVecs] => due[x] < jiffies' + Reach[NVecs]
    BY <1>0, <1>3, WideReach
  <2>5. linkedAt[x] <= jiffies => linkedAt[x] <= jiffies'
    BY <1>0, <1>3 DEF Never
  <2>6. jiffies # Never
    BY <1>3, <1>4
  <2>. QED
    BY <1>0, <2>1, <2>2, <2>3, <2>4, <2>5, <2>6 DEF Stage
<1>13. Unset'
  BY <1>0 DEF Inv, Unset
<1>14. Handed'
  <2>. SUFFICES ASSUME NEW t \in Items(get'), t \notin stray'
                PROVE  IF linkedAt'[t] <= due'[t] THEN firedAt'[t] = due'[t]
                       ELSE firedAt'[t] < linkedAt'[t] + R
    BY DEF Handed
  <2>1. CASE t \in Items(Expired)
    BY <1>0, <1>1, <1>7, <2>1
  <2>2. CASE t \notin Items(Expired)
    <3>1. t \in Items(get) /\ t \in Timer
      <4>1. t \in Items(get)
        BY <1>6, <2>2
      <4>. QED
        BY <1>3, <4>1 DEF Items
    <3>2. firedAt'[t] = firedAt[t]
      BY <1>7, <2>2, <3>1
    <3>. QED
      BY <1>0, <3>1, <3>2 DEF Inv, Handed
  <2>. QED
    BY <2>1, <2>2
<1>15. Once(wheel)' /\ Injective(put)' /\ Injective(get)'
  BY <1>0, <1>5, <1>6 DEF Inv
<1>. QED
  BY <1>9, <1>10, <1>11, <1>12, <1>13, <1>14, <1>15 DEF Inv

LEMMA InvNext == ASSUME Inv, [Next]_vars  PROVE Inv'
<1>1. CASE Tick
  BY <1>1, InvTick
<1>2. CASE Release
  BY <1>2, InvRelease
<1>3. CASE \E o \in Outage : SetStart(o)
  BY <1>3, InvSetStart
<1>4. CASE \E t \in Timer, d \in Delay : AddRead(t, d)
  BY <1>4, InvAddRead
<1>5. CASE AddPut
  BY <1>5, InvAddPut
<1>6. CASE Drain
  BY <1>6, InvDrain
<1>7. CASE RunJiffy
  BY <1>7, InvRunJiffy
<1>8. CASE RunDone
  BY <1>8, InvRunDone
<1>9. CASE UNCHANGED vars
  BY <1>9, InvStutter
<1>. QED
  BY <1>1, <1>2, <1>3, <1>4, <1>5, <1>6, <1>7, <1>8, <1>9 DEF Next

LEMMA InvHolds == Spec => []Inv
BY InvInit, InvNext, PTL DEF Spec

(* The variables have their types: in particular no list of the wheel ever *)
(* holds anything but timers, and no slot is outside its vector.           *)
THEOREM TypeCorrect == Spec => []TypeOK
<1>1. Inv => TypeOK
  BY DEF Inv
<1>. QED
  BY <1>1, InvHolds, PTL

-----------------------------------------------------------------------------
(* The wheel counted: what OnTime says of a timer. *)

LEMMA ShortList ==
  ASSUME NEW s \in Seq(Timer), Injective(s), NEW k \in DOMAIN s
  PROVE  k \in 1..Cardinality(Timer)
<1>. DEFINE m == Len(s)
            f == [j \in 1..m |-> s[j]]
<1>1. m \in Nat /\ DOMAIN s = 1..m
  OBVIOUS
<1>2. f \in Injection(1..m, Timer)
  <2>1. f \in [1..m -> Timer]
    OBVIOUS
  <2>2. \A a, b \in 1..m : f[a] = f[b] => a = b
    BY <1>1 DEF Injective
  <2>. HIDE DEF f
  <2>. QED
    BY <2>1, <2>2 DEF Injection, IsInjective
<1>. HIDE DEF f, m
<1>3. IsFiniteSet(Timer)
  BY WheelAssumption
<1>4. Cardinality(1..m) <= Cardinality(Timer)
  BY <1>2, <1>3, FS_Injection
<1>5. Cardinality(1..m) = m
  BY <1>1, FS_Interval
<1>6. Cardinality(Timer) \in Nat
  BY <1>3, FS_CardinalityType
<1>. QED
  BY <1>1, <1>4, <1>5, <1>6

LEMMA LinkedIs ==
  ASSUME TypeOK, Once(wheel), NEW t \in Timer
  PROVE  Linked(t) = IF Holds(wheel, t) THEN 1 ELSE 0
<1>. DEFINE P == {p \in Vec \X (0..(R + N)) \X (1..Cardinality(Timer)) :
                    /\ p[2] < Size(p[1])
                    /\ p[3] \in DOMAIN wheel[p[1]][p[2]]
                    /\ wheel[p[1]][p[2]][p[3]] = t}
<1>0. wheel \in Wheels /\ R \in Nat \ {0} /\ N \in Nat \ {0}
  BY WheelAssumption DEF TypeOK
<1>1. Linked(t) = Cardinality(P)
  BY DEF Linked
<1>2. ASSUME NEW p \in P
      PROVE  /\ p = <<p[1], p[2], p[3]>> /\ p[1] \in Vec /\ p[2] \in Slots(p[1])
             /\ p[3] \in DOMAIN wheel[p[1]][p[2]] /\ wheel[p[1]][p[2]][p[3]] = t
  <2>1. p \in Vec \X (0..(R + N)) \X (1..Cardinality(Timer))
    OBVIOUS
  <2>2. p = <<p[1], p[2], p[3]>> /\ p[1] \in Vec /\ p[2] \in 0..(R + N)
    BY <2>1
  <2>3. p[2] < Size(p[1]) /\ p[3] \in DOMAIN wheel[p[1]][p[2]] /\ wheel[p[1]][p[2]][p[3]] = t
    OBVIOUS
  <2>4. p[2] \in Slots(p[1])
    <3>1. Size(p[1]) \in Nat
      BY <1>0 DEF Size
    <3>. QED
      BY <2>2, <2>3, <3>1 DEF Slots
  <2>. QED
    BY <2>2, <2>3, <2>4
<1>. HIDE DEF Vec, Slots
<1>3. CASE ~Holds(wheel, t)
  <2>1. P = {}
    <3>. HIDE DEF P
    <3>. SUFFICES ASSUME NEW p \in P  PROVE FALSE
      OBVIOUS
    <3>1. /\ p[1] \in Vec /\ p[2] \in Slots(p[1])
          /\ p[3] \in DOMAIN wheel[p[1]][p[2]] /\ wheel[p[1]][p[2]][p[3]] = t
      BY <1>2
    <3>2. t \in Items(wheel[p[1]][p[2]])
      BY <3>1 DEF Items
    <3>. QED
      BY <1>3, <3>1, <3>2 DEF Holds
  <2>. QED
    BY <1>1, <1>3, <2>1, FS_EmptySet
<1>4. CASE Holds(wheel, t)
  <2>0. PICK n \in Vec : \E i \in Slots(n) : t \in Items(wheel[n][i])
    BY <1>4 DEF Holds
  <2>1. PICK i \in Slots(n) : t \in Items(wheel[n][i])
    BY <2>0
  <2>2. PICK k \in DOMAIN wheel[n][i] : t = wheel[n][i][k]
    BY <2>1 DEF Items
  <2>3. wheel[n][i] \in Seq(Timer)
    BY <1>0, SlotIs
  <2>4. Injective(wheel[n][i])
    <3>. SUFFICES ASSUME NEW a \in DOMAIN wheel[n][i], NEW b \in DOMAIN wheel[n][i],
                         wheel[n][i][a] = wheel[n][i][b]
                  PROVE  a = b
      BY DEF Injective
    <3>. QED
      BY OnceAt
  <2>5. k \in 1..Cardinality(Timer)
    BY <2>3, <2>4, ShortList
  <2>6. i \in 0..(R + N) /\ i < Size(n)
    <3>1. Size(n) \in Nat /\ Size(n) <= R + N
      BY <1>0 DEF Size
    <3>. QED
      BY <1>0, <3>1 DEF Slots
  <2>7. <<n, i, k>> \in P
    BY <2>2, <2>5, <2>6
  <2>. HIDE DEF P
  <2>8. ASSUME NEW p \in P  PROVE p = <<n, i, k>>
    <3>1. /\ p = <<p[1], p[2], p[3]>> /\ p[1] \in Vec /\ p[2] \in Slots(p[1])
          /\ p[3] \in DOMAIN wheel[p[1]][p[2]] /\ wheel[p[1]][p[2]][p[3]] = t
      BY <1>2
    <3>2. wheel[p[1]][p[2]][p[3]] = wheel[n][i][k]
      BY <2>2, <3>1
    <3>3. p[1] = n /\ p[2] = i /\ p[3] = k
      BY <2>2, <3>1, <3>2, OnceAt
    <3>. QED
      BY <3>1, <3>3
  <2>9. P = {<<n, i, k>>}
    BY <2>7, <2>8
  <2>. QED
    BY <1>1, <1>4, <2>9, FS_Singleton
<1>. QED
  BY <1>3, <1>4

LEMMA OccursIs ==
  ASSUME NEW s \in Seq(Timer), Injective(s), NEW t
  PROVE  Occurs(t, s) = IF t \in Items(s) THEN 1 ELSE 0
<1>. DEFINE P == {k \in DOMAIN s : s[k] = t}
<1>1. CASE t \in Items(s)
  <2>1. PICK k \in DOMAIN s : s[k] = t
    BY <1>1 DEF Items
  <2>2. P = {k}
    BY <2>1 DEF Injective
  <2>. QED
    BY <1>1, <2>2, FS_Singleton DEF Occurs
<1>2. CASE t \notin Items(s)
  <2>1. P = {}
    BY <1>2 DEF Items
  <2>. QED
    BY <1>2, <2>1, FS_EmptySet DEF Occurs
<1>. QED
  BY <1>1, <1>2

LEMMA InvOnTime == Inv => OnTime
<1>. SUFFICES ASSUME Inv, NEW t \in Timer
              PROVE  /\ InOnePlace(t)
                     /\ linkedAt[t] # Never /\ t \notin stray =>
                          IF linkedAt[t] <= due[t] THEN firedAt[t] \in {Never, due[t]}
                          ELSE (IF firedAt[t] = Never THEN jiffies ELSE firedAt[t])
                                 < linkedAt[t] + R
  BY DEF OnTime
<1>0. /\ TypeOK /\ Once(wheel) /\ Injective(get) /\ Stage(t)
  BY DEF Inv, Stages
<1>1. get \in Seq(Timer) /\ wheel \in Wheels /\ jiffies \in Nat
      /\ linkedAt \in [Timer -> Nat \union {Never}]
  BY <1>0 DEF TypeOK
<1>2. InOnePlace(t)
  <2>1. Linked(t) = IF Holds(wheel, t) THEN 1 ELSE 0
    BY <1>0, LinkedIs
  <2>2. Occurs(t, get) = IF t \in Items(get) THEN 1 ELSE 0
    BY <1>0, <1>1, OccursIs
  <2>3. (Holds(wheel, t) => t \notin Items(get))
        /\ (linkedAt[t] # Never <=> Holds(wheel, t) \/ t \in Items(get))
    BY <1>0 DEF Stage
  <2>. HIDE DEF Never
  <2>. QED
    BY <2>1, <2>2, <2>3 DEF InOnePlace
<1>3. ASSUME linkedAt[t] # Never, t \notin stray, t \in Items(get)
      PROVE  /\ firedAt[t] # Never
             /\ IF linkedAt[t] <= due[t] THEN firedAt[t] = due[t]
                ELSE firedAt[t] < linkedAt[t] + R
  BY <1>0, <1>3 DEF Inv, Handed, Stage
<1>4. ASSUME linkedAt[t] # Never, t \notin stray, t \notin Items(get)
      PROVE  /\ firedAt[t] = Never
             /\ ~(linkedAt[t] <= due[t]) => jiffies < linkedAt[t] + R
  <2>1. firedAt[t] = Never /\ Holds(wheel, t)
    BY <1>0, <1>4 DEF Stage
  <2>. HIDE DEF Vec, Slots
  <2>2. PICK n \in Vec : \E i \in Slots(n) : t \in Items(wheel[n][i])
    BY <2>1 DEF Holds
  <2>3. PICK i \in Slots(n) : t \in Items(wheel[n][i])
    BY <2>2
  <2>4. Fits(t, linkedAt[t], n, i, Lows(jiffies)[n])
    BY <2>3 DEF Inv, AllFit
  <2>5. ~(linkedAt[t] <= due[t]) => \E x \in jiffies..(linkedAt[t] + R - 1) : x % R = i
    BY <1>4, <2>4 DEF Fits
  <2>6. linkedAt[t] \in Nat /\ R \in Nat
    BY <1>1, <1>4, WheelAssumption
  <2>. QED
    BY <1>1, <2>1, <2>5, <2>6
<1>5. ASSUME linkedAt[t] # Never, t \notin stray
      PROVE  IF linkedAt[t] <= due[t] THEN firedAt[t] \in {Never, due[t]}
             ELSE (IF firedAt[t] = Never THEN jiffies ELSE firedAt[t]) < linkedAt[t] + R
  BY <1>3, <1>4, <1>5
<1>. QED
  BY <1>2, <1>5

(* For every size of the vectors: no cascade drops a timer or leaves a     *)
(* copy of it behind, one linked before it was overdue is handed back at   *)
(* exactly the jiffy it is due at, and one linked too late within a turn   *)
(* of tv1.                                                                 *)
THEOREM OnTimeHolds == Spec => []OnTime
BY InvHolds, InvOnTime, PTL

-----------------------------------------------------------------------------
(* The wheel as a timer engine, step by step. *)

Due == [t \in Timer |-> IF t \in stray THEN 0 ELSE due[t]]
Pending == {t \in Timer : due[t] > 0 /\ firedAt[t] = Never}

LEMMA AddIsEngineAdd ==
  ASSUME Inv, NEW t \in Timer, NEW d \in Delay, AddRead(t, d)
  PROVE  Engine!Next
<1>. DEFINE e == IF d < 1 THEN 1 ELSE d
<1>0. /\ adding = NoTimer /\ t \notin Items(put) /\ linkedAt[t] = Never
      /\ due' = [due EXCEPT ![t] = jiffies + e]
      /\ jiffies' = jiffies /\ get' = get /\ stray' = stray /\ firedAt' = firedAt
  BY DEF AddRead, timerVars, clock, history, ToSet, Items
<1>1. /\ due \in [Timer -> Nat] /\ jiffies \in Nat /\ NoTimer \notin Timer
      /\ e \in Nat /\ e > 0 /\ e \in {IF x < 1 THEN 1 ELSE x : x \in Delay}
  <2>1. d \in 0..(Reach[NVecs] - 1)
    BY WheelAssumption
  <2>2. e \in Nat /\ e > 0
    BY <2>1, WideReach
  <2>. QED
    BY <2>2, WheelAssumption DEF Inv, TypeOK
<1>. HIDE DEF e
<1>2. Stage(t)
  BY DEF Inv, Stages
<1>3. t \notin stray /\ ~(due[t] > 0) /\ t \notin Items(get) /\ firedAt[t] = Never
  BY <1>0, <1>1, <1>2 DEF Stage
<1>4. Due' = [Due EXCEPT ![t] = jiffies + e]
  BY <1>0, <1>1, <1>3 DEF Due
<1>5. Pending' = Pending \union {t}
  BY <1>0, <1>1, <1>3 DEF Pending
<1>6. t \notin Pending \union Items(get)
  BY <1>3 DEF Pending
<1>7. ToSet(get) = Items(get) /\ ToSet(get)' = ToSet(get)
  BY <1>0 DEF ToSet, Items
<1>8. Engine!Add(t, e)
  BY <1>0, <1>4, <1>5, <1>6, <1>7 DEF Engine!Add, Due, Pending
<1>. QED
  BY <1>1, <1>8 DEF Engine!Next

LEMMA StartIsEngineRestart ==
  ASSUME Inv, NEW o \in Outage, SetStart(o)
  PROVE  Engine!Next
<1>0. /\ jiffies' = 0 /\ control = "before" /\ stray' = Pending
      /\ UNCHANGED <<due, get, firedAt>>
  BY DEF SetStart, timer_time_set_start, history, Pending
<1>1. stray = {}
  BY <1>0 DEF Inv, Unset
<1>2. Due' = [t \in Timer |-> IF t \in Pending THEN 0 ELSE Due[t]]
  BY <1>0, <1>1 DEF Due
<1>3. Pending' = Pending /\ ToSet(get)' = ToSet(get)
  BY <1>0 DEF Pending
<1>4. Engine!Restart
  BY <1>0, <1>2, <1>3 DEF Engine!Restart, Due, Pending
<1>. QED
  BY <1>4 DEF Engine!Next

LEMMA JiffyIsEngineAdvance ==
  ASSUME Inv, RunJiffy
  PROVE  Engine!Next
<1>a. PICK S : S = Items(Expired)
  OBVIOUS
<1>0. /\ get' = get \o Expired /\ jiffies' = jiffies + 1
      /\ firedAt' = [t \in Timer |-> IF t \in S THEN jiffies ELSE firedAt[t]]
      /\ due' = due /\ stray' = stray
  BY <1>a DEF RunJiffy, clock, ToSet, Items, Expired
<1>1. /\ Expired \in Seq(Timer)
      /\ \A t \in S :
           /\ t \in Timer /\ Holds(wheel, t)
           /\ t \notin stray => IF linkedAt[t] <= due[t] THEN due[t] = jiffies
                                ELSE jiffies < linkedAt[t] + R
  BY <1>a, Expiring
<1>2. /\ jiffies \in Nat /\ due \in [Timer -> Nat] /\ get \in Seq(Timer)
      /\ linkedAt \in [Timer -> Nat \union {Never}] /\ Never \notin Nat
  BY DEF Inv, TypeOK, Never
<1>3. Items(get') = Items(get) \union S
  <2>1. S \cap Items(get) = {} /\ Injective(get) /\ Injective(Expired)
    <3>1. \A t \in S : Stage(t)
      BY <1>1 DEF Inv, Stages
    <3>2. \A t \in S : t \notin Items(get)
      BY <1>1, <3>1 DEF Stage
    <3>3. Injective(get)
      BY DEF Inv
    <3>4. Injective(Expired)
      <4>. DEFINE c == Cascaded
                  s == index[1]
      <4>1. c \in Wheels /\ Once(c) /\ Expired = c[1][s] /\ 1 \in Vec /\ s \in Slots(1)
        BY Expiring DEF Kept, Expired
      <4>. HIDE DEF c, s, Vec, Slots
      <4>. SUFFICES ASSUME NEW k \in DOMAIN Expired, NEW l \in DOMAIN Expired,
                           Expired[k] = Expired[l]
                    PROVE  k = l
        BY DEF Injective
      <4>. QED
        BY <4>1, OnceAt
    <3>. QED
      BY <3>2, <3>3, <3>4
  <2>. DEFINE e == Expired
              g == get'
              h == get
  <2>2. g = h \o e /\ e \in Seq(Timer) /\ h \in Seq(Timer) /\ Injective(h) /\ Injective(e)
        /\ Items(h) \cap Items(e) = {}
    BY <1>a, <1>0, <1>1, <1>2, <2>1
  <2>. HIDE DEF e, g, h
  <2>3. Items(g) = Items(h) \union Items(e)
    BY <2>2, ConcatItems
  <2>. QED
    BY <1>a, <2>3 DEF e, g, h
<1>4. ASSUME NEW t \in S  PROVE t \in Pending /\ Due[t] <= jiffies
  <2>1. t \in Timer /\ Holds(wheel, t)
    BY <1>1
  <2>2. Stage(t)
    BY <2>1 DEF Inv, Stages
  <2>3. t \in Pending
    BY <2>1, <2>2 DEF Stage, Pending
  <2>4. Due[t] <= jiffies
    <3>1. CASE t \in stray
      BY <1>2, <2>1, <3>1 DEF Due
    <3>2. CASE t \notin stray
      <4>1. due[t] \in Nat /\ linkedAt[t] \in Nat /\ linkedAt[t] <= jiffies
        BY <1>2, <2>1, <2>2, <3>2 DEF Stage
      <4>2. due[t] <= jiffies
        BY <1>1, <1>2, <3>2, <4>1
      <4>. QED
        BY <2>1, <3>2, <4>2 DEF Due
    <3>. QED
      BY <3>1, <3>2
  <2>. QED
    BY <2>3, <2>4
<1>5. Pending' = Pending \ S
  BY <1>0, <1>2 DEF Pending
<1>6. Due' = Due
  BY <1>0 DEF Due
<1>7. ToSet(get) = Items(get) /\ ToSet(get)' = Items(get')
  BY DEF ToSet, Items
<1>8. Engine!Advance(S)
  BY <1>0, <1>3, <1>4, <1>5, <1>6, <1>7 DEF Engine!Advance, Due, Pending
<1>9. S \in SUBSET {t \in Timer : due[t] > 0 /\ firedAt[t] = Never}
  <2>1. S \in SUBSET Pending
    BY <1>4
  <2>. QED
    BY <2>1 DEF Pending
<1>10. \E X \in SUBSET {t \in Timer : due[t] > 0 /\ firedAt[t] = Never} : Engine!Advance(X)
  BY <1>8, <1>9
<1>. QED
  BY <1>10 DEF Engine!Next

LEMMA InitIsEngine == Init => Engine!Init
<1>. SUFFICES ASSUME Init  PROVE Engine!Init
  OBVIOUS
<1>1. jiffies = 0 /\ Pending = {} /\ Due = [t \in Timer |-> 0]
  BY DEF Init, Pending, Due
<1>2. ToSet(get) = {}
  BY DEF Init, ToSet
<1>. QED
  BY <1>1, <1>2 DEF Engine!Init, Pending, Due

LEMMA NextIsEngine ==
  ASSUME Inv, [Next]_vars
  PROVE  [Engine!Next]_Engine!vars
<1>1. CASE \E o \in Outage : SetStart(o)
  BY <1>1, StartIsEngineRestart
<1>2. CASE \E t \in Timer, d \in Delay : AddRead(t, d)
  BY <1>2, AddIsEngineAdd
<1>3. CASE RunJiffy
  BY <1>3, JiffyIsEngineAdvance
<1>4. CASE Tick \/ Release \/ AddPut \/ Drain \/ RunDone \/ UNCHANGED vars
  <2>1. UNCHANGED <<jiffies, due, get, stray, firedAt>>
    BY <1>4 DEF Tick, Release, AddPut, Drain, RunDone, vars, timerVars, clock, history
  <2>. QED
    BY <2>1 DEF Engine!vars
<1>. QED
  BY <1>1, <1>2, <1>3, <1>4 DEF Next

(* The timing wheel with its put and get queues is the timer engine of     *)
(* TimerEngine: a timer is handed back once, and never before it is due.   *)
THEOREM TimerWheelIsEngine == Spec => EngineSpec
<1>1. Init => Engine!Init
  BY InitIsEngine
<1>2. Inv /\ [Next]_vars => [Engine!Next]_Engine!vars
  BY NextIsEngine
<1>. QED
  BY <1>1, <1>2, InvHolds, PTL DEF Spec, EngineSpec, Engine!Spec

=============================================================================
