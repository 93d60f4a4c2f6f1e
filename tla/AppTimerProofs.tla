--------------------------- MODULE AppTimerProofs ---------------------------
(***************************************************************************)
(* Proofs about AppTimer.                                                  *)
(***************************************************************************)
EXTENDS AppTimer, TLAPS, FiniteSetTheorems, SequenceTheorems, NaturalsInduction, WellFoundedInduction

\* A set of naturals that is not empty has a least element.
LEMMA Least ==
  ASSUME NEW S \in SUBSET Nat, S # {}
  PROVE  \E m \in S : \A k \in S : m <= k
<1>1. PICK m \in S : \A k \in S : ~(<<k, m>> \in OpToRel(<, Nat))
  BY NatLessThanWellFounded, WFMin
<1>2. \A k \in S : ~(k < m)
  BY <1>1 DEF OpToRel
<1> QED BY <1>2


\* Induction up to n, over a set.
LEMMA Induct ==
  ASSUME NEW n \in Nat, NEW S, 0 \in S, \A k \in 0 .. n - 1 : k \in S => k + 1 \in S
  PROVE  \A k \in 0 .. n : k \in S
<1> DEFINE Bad == {k \in 0 .. n : k \notin S}
<1>1. Bad = {}
  <2> SUFFICES ASSUME Bad # {} PROVE FALSE
    OBVIOUS
  <2>1. PICK m \in Bad : \A k \in Bad : m <= k
    <3>1. Bad \in SUBSET Nat
      OBVIOUS
    <3> HIDE DEF Bad
    <3> QED BY <3>1, Least
  <2>2. m # 0
    BY <2>1
  <2>3. m - 1 \in 0 .. n - 1 /\ m - 1 \notin Bad
    BY <2>1, <2>2
  <2> QED BY <2>1, <2>3
<1> QED BY <1>1

\* A set of places that holds every place before one it holds.
LEMMA Prefix ==
  ASSUME NEW n \in Nat, NEW S \in SUBSET (1 .. n), \A i, j \in 1 .. n : j \in S /\ i <= j => i \in S
  PROVE  Cardinality(S) \in 0 .. n /\ S = 1 .. Cardinality(S)
<1> DEFINE Out == {k \in 1 .. n + 1 : k \notin S}
<1>1. PICK m \in Out : \A k \in Out : m <= k
  <2>1. Out \in SUBSET Nat /\ n + 1 \in Out
    OBVIOUS
  <2> HIDE DEF Out
  <2> QED BY <2>1, Least
<1>2. S = 1 .. m - 1
  <2>1. \A k \in 1 .. m - 1 : k \in S
    BY <1>1
  <2>2. \A k \in S : k < m
    <3> SUFFICES ASSUME NEW k \in S, m <= k PROVE FALSE
      BY <1>1
    <3>1. m \in 1 .. n /\ k \in 1 .. n
      BY <1>1
    <3>2. m \in S
      BY <3>1
    <3> QED BY <1>1, <3>2
  <2>3. \A k \in S : k \in 1 .. m - 1
    BY <2>2, <1>1
  <2> QED BY <2>1, <2>3, Zenon
<1>3. Cardinality(1 .. m - 1) = m - 1
  BY FS_Interval
<1> QED BY <1>2, <1>3

-----------------------------------------------------------------------------
(* The constants, and the counter.                                         *)

LEMMA Product ==
  ASSUME NEW a \in Nat, NEW b \in Nat
  PROVE  a * b \in Nat /\ a * (b + 1) = a * b + a
OBVIOUS

LEMMA Remainder ==
  ASSUME NEW m \in Nat, NEW x \in 0 .. m - 1
  PROVE  x % m = x /\ (x + m) % m = x /\ (x - m) % m = x
OBVIOUS

N == Cardinality(Timer)

\* How long after its tick the i-th timer is called at most, handlers permitting.
Room(i) == Offset + Latency + (Offset - 1) * (N - i)

LEMMA Constants ==
  /\ N \in Nat /\ Late \in Nat /\ Late >= 1 /\ Modulus \in Nat /\ Modulus >= 2 /\ 2 * Late <= Modulus
  /\ Half \in Nat /\ 2 * Half <= Modulus - 1 /\ 2 * Half >= Modulus - 2
<1>1. N \in Nat
  BY TimerAssumption, FS_CardinalityType DEF N
<1>2. (Offset - 1) * (N - 1) \in Int /\ (N >= 1 => (Offset - 1) * (N - 1) >= 0)
                                      /\ (N = 0 => (Offset - 1) * (N - 1) = 1 - Offset)
  <2>1. CASE N >= 1
    BY <2>1, <1>1, Product, TimerAssumption
  <2>2. CASE N = 0
    BY <2>2, TimerAssumption
  <2> QED BY <1>1, <2>1, <2>2
<1>3. Late \in Nat /\ Late >= 1
  BY <1>1, <1>2, TimerAssumption DEF Late, N
<1> QED BY <1>1, <1>3, TimerAssumption DEF Half

LEMMA Rooms ==
  /\ \A i \in 1 .. N : /\ Room(i) \in Nat /\ Room(i) >= Offset + Latency
                       /\ Room(i) + Latency <= Late
  /\ \A i \in 2 .. N : Room(i - 1) = Room(i) + Offset - 1
<1>1. N \in Nat /\ Offset - 1 \in Nat /\ Offset \in Nat /\ Latency \in Nat
  BY Constants, TimerAssumption
<1>2. ASSUME NEW i \in 1 .. N
      PROVE  /\ (Offset - 1) * (N - i) \in Nat
             /\ (Offset - 1) * (N - 1) - (Offset - 1) * (N - i) \in Nat
  <2>1. N - i \in Nat /\ i - 1 \in Nat
    BY <1>1
  <2>2. (Offset - 1) * (N - i) \in Nat /\ (Offset - 1) * (i - 1) \in Nat
    BY <2>1, <1>1, Product
  <2>3. (Offset - 1) * (N - 1) = (Offset - 1) * (N - i) + (Offset - 1) * (i - 1)
    BY <1>1
  <2> QED BY <2>2, <2>3
<1>3. ASSUME NEW i \in 2 .. N
      PROVE  (Offset - 1) * (N - (i - 1)) = (Offset - 1) * (N - i) + (Offset - 1)
  BY <1>1
<1>4. ASSUME NEW i \in 1 .. N
      PROVE  /\ Room(i) \in Nat /\ Room(i) >= Offset + Latency /\ Room(i) + Latency <= Late
  BY <1>1, <1>2 DEF Room, Late, N
<1>5. ASSUME NEW i \in 2 .. N PROVE Room(i - 1) = Room(i) + Offset - 1
  <2>1. i \in 1 .. N /\ i - 1 \in 1 .. N
    BY <1>1
  <2> QED BY <1>1, <1>2, <1>3, <2>1 DEF Room
<1> QED BY <1>4, <1>5

Count == 0 .. Modulus - 1

\* What Diff is, and how it changes with the counter and with m_ticks_latest.
LEMMA DiffIs ==
  ASSUME NEW a \in Count, NEW b \in Count
  PROVE  /\ Diff(a, b) \in Count
         /\ Diff(a, b) = IF a >= b THEN a - b ELSE a - b + Modulus
<1>1. CASE a >= b
  <2>1. a - b \in 0 .. Modulus - 1
    BY <1>1, Constants DEF Count
  <2>2. (a - b) % Modulus = a - b
    BY <2>1, Constants, Remainder
  <2> QED BY <1>1, <2>1, <2>2 DEF Diff, Count
<1>2. CASE ~(a >= b)
  <2>1. a - b + Modulus \in 0 .. Modulus - 1 /\ (a - b + Modulus) - Modulus = a - b
    BY <1>2, Constants DEF Count
  <2>2. ((a - b + Modulus) - Modulus) % Modulus = a - b + Modulus
    BY <2>1, Constants, Remainder
  <2> QED BY <1>2, <2>1, <2>2 DEF Diff, Count
<1> QED BY <1>1, <1>2

LEMMA DiffIsNat ==
  ASSUME NEW a \in Count, NEW b \in Count
  PROVE  Diff(a, b) \in Nat /\ Diff(a, b) < Modulus
BY DiffIs, Constants DEF Count

\* b moved on by d.
LEMMA MovedIs ==
  ASSUME NEW b \in Count, NEW d \in Count
  PROVE  /\ (b + d) % Modulus \in Count
         /\ (b + d) % Modulus = IF b + d < Modulus THEN b + d ELSE b + d - Modulus
<1>1. CASE b + d < Modulus
  <2>1. b + d \in 0 .. Modulus - 1
    BY <1>1, Constants DEF Count
  <2>2. (b + d) % Modulus = b + d
    BY <2>1, Constants, Remainder
  <2> QED BY <1>1, <2>1, <2>2 DEF Count
<1>2. CASE ~(b + d < Modulus)
  <2>1. b + d - Modulus \in 0 .. Modulus - 1 /\ (b + d - Modulus) + Modulus = b + d
    BY <1>2, Constants DEF Count
  <2>2. ((b + d - Modulus) + Modulus) % Modulus = b + d - Modulus
    BY <2>1, Constants, Remainder
  <2> QED BY <1>2, <2>1, <2>2 DEF Count
<1> QED BY <1>1, <1>2

LEMMA DiffMoves ==
  ASSUME NEW a \in Count, NEW b \in Count, NEW d \in Count
  PROVE  /\ Diff((b + d) % Modulus, b) = d
         /\ Diff(a, (b + d) % Modulus) = IF d <= Diff(a, b) THEN Diff(a, b) - d ELSE Diff(a, b) - d + Modulus
<1>1. (b + d) % Modulus \in Count
  BY MovedIs
<1>2. Modulus \in Nat
  BY Constants
<1> DEFINE c == (b + d) % Modulus
<1>3. c = IF b + d < Modulus THEN b + d ELSE b + d - Modulus
  BY MovedIs
<1>4. /\ Diff(c, b) = IF c >= b THEN c - b ELSE c - b + Modulus
      /\ Diff(a, c) = IF a >= c THEN a - c ELSE a - c + Modulus
      /\ Diff(a, b) = IF a >= b THEN a - b ELSE a - b + Modulus
  BY <1>1, DiffIs
<1> HIDE DEF c
<1>5. Diff(c, b) = d /\ Diff(a, c) = IF d <= Diff(a, b) THEN Diff(a, b) - d ELSE Diff(a, b) - d + Modulus
  BY <1>1, <1>2, <1>3, <1>4 DEF Count
<1> QED BY <1>5 DEF c

LEMMA DiffSteps ==
  ASSUME NEW a \in Count, NEW b \in Count, Diff(a, b) + 1 < Modulus
  PROVE  (a + 1) % Modulus \in Count /\ Diff((a + 1) % Modulus, b) = Diff(a, b) + 1
<1>1. Modulus \in Nat /\ 1 \in Count
  BY Constants DEF Count
<1> DEFINE c == (a + 1) % Modulus
<1>2. c \in Count /\ c = IF a + 1 < Modulus THEN a + 1 ELSE a + 1 - Modulus
  BY <1>1, MovedIs
<1> HIDE DEF c
<1>3. /\ Diff(c, b) = IF c >= b THEN c - b ELSE c - b + Modulus
      /\ Diff(a, b) = IF a >= b THEN a - b ELSE a - b + Modulus
  BY <1>2, DiffIs
<1>4. Diff(c, b) = Diff(a, b) + 1
  BY <1>1, <1>2, <1>3 DEF Count
<1> QED BY <1>2, <1>4 DEF c

LEMMA DiffDiffers ==
  ASSUME NEW a \in Count, NEW b \in Count, NEW c \in Count
  PROVE  /\ Diff(a, c) = Diff(b, c) => a = b
         /\ Diff(a, c) <= Diff(b, c) => Diff(b, a) = Diff(b, c) - Diff(a, c)
         /\ Diff(a, a) = 0
<1>1. Modulus \in Nat
  BY Constants
<1>2. /\ Diff(a, c) = IF a >= c THEN a - c ELSE a - c + Modulus
      /\ Diff(b, c) = IF b >= c THEN b - c ELSE b - c + Modulus
      /\ Diff(b, a) = IF b >= a THEN b - a ELSE b - a + Modulus
      /\ Diff(a, a) = IF a >= a THEN a - a ELSE a - a + Modulus
  BY DiffIs
<1> QED BY <1>1, <1>2 DEF Count

-----------------------------------------------------------------------------
(* Sums of the ticks of a list.                                            *)

Node == [timer : Timer, ticks : Nat]

\* The recursive function of Until exists, by the least place that it would not reach.
LEMMA UntilIs ==
  ASSUME NEW l \in Seq(Node)
  PROVE  /\ Until(l, 0) = 0
         /\ \A k \in 1 .. Len(l) : Until(l, k) = Until(l, k - 1) + l[k].ticks
         /\ \A k \in 0 .. Len(l) : Until(l, k) \in Nat
<1> DEFINE Sum(f, n) == f = [k \in 0 .. n |-> IF k = 0 THEN 0 ELSE f[k - 1] + l[k].ticks]
           Has(n) == \E f : Sum(f, n)
<1>1. Has(0)
  <2>1. Sum([k \in 0 .. 0 |-> 0], 0)
    OBVIOUS
  <2> QED BY <2>1
<1>2. ASSUME NEW n \in Nat, Has(n) PROVE Has(n + 1)
  <2>1. PICK f : Sum(f, n)
    BY <1>2
  <2> DEFINE g == [k \in 0 .. n + 1 |-> IF k = 0 THEN 0 ELSE f[k - 1] + l[k].ticks]
  <2> HIDE DEF Has
  <2>2. \A k \in 0 .. n : g[k] = f[k]
    BY <2>1
  <2>3. g = [k \in 0 .. n + 1 |-> IF k = 0 THEN 0 ELSE g[k - 1] + l[k].ticks]
    <3>1. \A k \in 0 .. n + 1 : g[k] = IF k = 0 THEN 0 ELSE g[k - 1] + l[k].ticks
      <4>1. \A k \in 0 .. n + 1 : k # 0 => k - 1 \in 0 .. n
        OBVIOUS
      <4>2. \A k \in 0 .. n + 1 : g[k] = IF k = 0 THEN 0 ELSE f[k - 1] + l[k].ticks
        OBVIOUS
      <4> HIDE DEF g
      <4> QED BY <4>1, <4>2, <2>2
    <3>2. g = [k \in 0 .. n + 1 |-> g[k]]
      OBVIOUS
    <3> HIDE DEF g
    <3> QED BY <3>1, <3>2, Zenon
  <2> QED BY <2>3 DEF Has
<1>3. Has(Len(l))
  <2> HIDE DEF Has
  <2> DEFINE Bad == {n \in Nat : ~Has(n)}
  <2>1. Bad = {}
    <3> SUFFICES ASSUME Bad # {} PROVE FALSE
      OBVIOUS
    <3>1. PICK m \in Bad : \A k \in Bad : m <= k
      <4>1. Bad \in SUBSET Nat
        OBVIOUS
      <4> HIDE DEF Bad
      <4> QED BY <4>1, Least
    <3>2. m # 0
      BY <3>1, <1>1
    <3>3. m - 1 \in Nat /\ m - 1 \notin Bad
      BY <3>1, <3>2
    <3>4. Has((m - 1) + 1)
      BY <3>3, <1>2
    <3> QED BY <3>1, <3>4
  <2> QED BY <2>1
<1> DEFINE s == CHOOSE f : Sum(f, Len(l))
<1>4. s = [k \in 0 .. Len(l) |-> IF k = 0 THEN 0 ELSE s[k - 1] + l[k].ticks]
  <2>1. Sum(s, Len(l))
    BY <1>3, Zenon
  <2> QED BY <2>1
<1>5. \A k : Until(l, k) = s[k]
  BY DEF Until
<1> HIDE DEF s, Sum, Has
<1>6. /\ s[0] = 0 /\ \A k \in 1 .. Len(l) : s[k] = s[k - 1] + l[k].ticks
  BY <1>4
<1>7. \A k \in 0 .. Len(l) : s[k] \in Nat
  <2> DEFINE Bad == {k \in 0 .. Len(l) : s[k] \notin Nat}
  <2>1. ASSUME Bad # {} PROVE FALSE
    <3>1. PICK m \in Bad : \A k \in Bad : m <= k
      <4>1. Bad \in SUBSET Nat
        OBVIOUS
      <4> HIDE DEF Bad
      <4> QED BY <4>1, <2>1, Least
    <3>2. m # 0
      BY <3>1, <1>6
    <3>3. m - 1 \in 0 .. Len(l) /\ m - 1 \notin Bad /\ m \in 1 .. Len(l)
      BY <3>1, <3>2
    <3>4. l[m].ticks \in Nat
      <4>1. l[m] \in Node
        BY <3>3
      <4> QED BY <4>1 DEF Node
    <3> QED BY <3>1, <3>3, <3>4, <1>6
  <2> QED BY <2>1
<1> QED BY <1>5, <1>6, <1>7

\* A function that is summed up alike is Until.
LEMMA SumIs ==
  ASSUME NEW l \in Seq(Node), NEW f,
         f[0] = 0, \A k \in 1 .. Len(l) : f[k] = f[k - 1] + l[k].ticks
  PROVE  \A k \in 0 .. Len(l) : Until(l, k) = f[k]
<1> DEFINE S == {k \in 0 .. Len(l) : Until(l, k) = f[k]}
<1>1. Len(l) \in Nat /\ 0 \in S
  BY UntilIs
<1>2. ASSUME NEW k \in 0 .. Len(l) - 1, k \in S PROVE k + 1 \in S
  <2>1. k + 1 \in 1 .. Len(l) /\ (k + 1) - 1 = k
    BY <1>1
  <2>2. Until(l, k + 1) = Until(l, k) + l[k + 1].ticks
    BY <2>1, UntilIs
  <2>3. f[k + 1] = f[k] + l[k + 1].ticks
    BY <2>1
  <2> QED BY <1>2, <2>1, <2>2, <2>3
<1> HIDE DEF S
<1>3. \A k \in 0 .. Len(l) : k \in S
  BY <1>1, <1>2, Induct
<1> QED BY <1>3 DEF S

LEMMA UntilGrows ==
  ASSUME NEW l \in Seq(Node), NEW i \in 0 .. Len(l)
  PROVE  \A j \in 0 .. Len(l) : i <= j => Until(l, i) <= Until(l, j)
<1> DEFINE S == {j \in 0 .. Len(l) : i <= j => Until(l, i) <= Until(l, j)}
<1>1. Len(l) \in Nat /\ 0 \in S
  BY UntilIs
<1>2. ASSUME NEW k \in 0 .. Len(l) - 1, k \in S PROVE k + 1 \in S
  <2>1. k + 1 \in 1 .. Len(l) /\ (k + 1) - 1 = k /\ k \in 0 .. Len(l)
    BY <1>1
  <2>2. Until(l, k + 1) = Until(l, k) + l[k + 1].ticks
    BY <2>1, UntilIs
  <2>3. l[k + 1].ticks \in Nat
    <3>1. l[k + 1] \in Node
      BY <2>1
    <3> QED BY <3>1 DEF Node
  <2>4. Until(l, i) \in Nat /\ Until(l, k) \in Nat /\ Until(l, k + 1) \in Nat
    BY <2>1, UntilIs
  <2> QED BY <1>2, <2>1, <2>2, <2>3, <2>4
<1> HIDE DEF S
<1>3. \A k \in 0 .. Len(l) : k \in S
  BY <1>1, <1>2, Induct
<1> QED BY <1>3 DEF S

\* The expired timers are the first ones.
LEMMA CountIs ==
  ASSUME NEW l \in Seq(Node), NEW e \in Nat
  PROVE  /\ CountExpired(l, e) \in 0 .. Len(l)
         /\ \A i \in 0 .. Len(l) : Until(l, i) <= e <=> i <= CountExpired(l, e)
<1> DEFINE S == {i \in 1 .. Len(l) : Until(l, i) <= e}
<1>1. \A i, j \in 1 .. Len(l) : j \in S /\ i <= j => i \in S
  <2> SUFFICES ASSUME NEW i \in 1 .. Len(l), NEW j \in 1 .. Len(l), j \in S, i <= j PROVE i \in S
    OBVIOUS
  <2>1. Until(l, i) <= Until(l, j) /\ Until(l, i) \in Nat /\ Until(l, j) \in Nat
    BY UntilGrows, UntilIs
  <2> QED BY <2>1
<1>2. Len(l) \in Nat /\ S \in SUBSET (1 .. Len(l))
  OBVIOUS
<1>3. CountExpired(l, e) = Cardinality(S)
  BY DEF CountExpired
<1>4. Until(l, 0) = 0
  BY UntilIs
<1>5. \A i \in 1 .. Len(l) : i \in S <=> Until(l, i) <= e
  OBVIOUS
<1> HIDE DEF S
<1>6. Cardinality(S) \in 0 .. Len(l) /\ S = 1 .. Cardinality(S)
  BY <1>1, <1>2, Prefix
<1> QED BY <1>2, <1>3, <1>4, <1>5, <1>6

Distinct(l) == \A i, j \in 1 .. Len(l) : l[i].timer = l[j].timer => i = j

LEMMA AtMostAll ==
  ASSUME NEW l \in Seq(Node), Distinct(l)
  PROVE  Len(l) <= N
<1> DEFINE f == [i \in 1 .. Len(l) |-> l[i].timer]
<1>1. f \in [1 .. Len(l) -> Timer]
  <2>1. \A i \in 1 .. Len(l) : l[i].timer \in Timer
    <3> SUFFICES ASSUME NEW i \in 1 .. Len(l) PROVE l[i].timer \in Timer
      OBVIOUS
    <3>1. l[i] \in Node
      OBVIOUS
    <3> QED BY <3>1 DEF Node
  <2> QED BY <2>1
<1>1a. \A i, j \in 1 .. Len(l) : f[i] = f[j] => i = j
  BY DEF Distinct
<1> HIDE DEF f
<1>2. f \in Injection(1 .. Len(l), Timer)
  BY <1>1, <1>1a DEF Injection, IsInjective
<1>3. Cardinality(1 .. Len(l)) <= Cardinality(Timer)
  BY <1>2, TimerAssumption, FS_Injection
<1>4. Cardinality(1 .. Len(l)) = Len(l) /\ Len(l) \in Nat
  BY FS_Interval
<1> QED BY <1>3, <1>4 DEF N

-----------------------------------------------------------------------------
(* The operations on the list, place by place.                             *)

LEMMA NodeIs ==
  ASSUME NEW l \in Seq(Node), NEW i \in 1 .. Len(l)
  PROVE  l[i].timer \in Timer /\ l[i].ticks \in Nat /\ l[i] = [timer |-> l[i].timer, ticks |-> l[i].ticks]
<1>1. l[i] \in Node
  OBVIOUS
<1> QED BY <1>1 DEF Node

LEMMA NodesAre ==
  ASSUME NEW l \in Seq(Node)
  PROVE  Len(l) \in Nat /\ \A i \in 1 .. Len(l) : l[i].timer \in Timer /\ l[i].ticks \in Nat
<1>1. ASSUME NEW i \in 1 .. Len(l) PROVE l[i].timer \in Timer /\ l[i].ticks \in Nat
  BY NodeIs
<1> QED BY <1>1

LEMMA ShiftIs ==
  ASSUME NEW l \in Seq(Node), NEW i \in Nat \ {0}, NEW by \in Int, i <= Len(l) => l[i].ticks + by \in Nat
  PROVE  /\ Shift(l, i, by) \in Seq(Node) /\ Len(Shift(l, i, by)) = Len(l)
         /\ \A k \in 1 .. Len(l) : Shift(l, i, by)[k] = IF k = i THEN [timer |-> l[k].timer, ticks |-> l[k].ticks + by] ELSE l[k]
<1>1. CASE i > Len(l)
  BY <1>1 DEF Shift
<1>2. CASE i <= Len(l)
  <2>1. i \in 1 .. Len(l)
    BY <1>2
  <2> DEFINE x == [timer |-> l[i].timer, ticks |-> l[i].ticks + by]
  <2>2. l[i] \in Node /\ x \in Node
    <3>1. l[i] \in Node
      BY <2>1
    <3>2. l[i].timer \in Timer /\ l[i].ticks + by \in Nat
      BY <3>1, <1>2 DEF Node
    <3> QED BY <3>1, <3>2 DEF Node
  <2>3. Shift(l, i, by) = [l EXCEPT ![i].ticks = @ + by]
    BY <1>2 DEF Shift
  <2>4. [l[i] EXCEPT !.ticks = @ + by] = x
    BY <2>2 DEF Node
  <2>5. Shift(l, i, by) = [l EXCEPT ![i] = x]
    BY <2>3, <2>4
  <2> HIDE DEF x
  <2>6. /\ [l EXCEPT ![i] = x] \in Seq(Node) /\ Len([l EXCEPT ![i] = x]) = Len(l)
        /\ \A k \in 1 .. Len(l) : [l EXCEPT ![i] = x][k] = IF k = i THEN x ELSE l[k]
    BY <2>1, <2>2
  <2> QED BY <2>5, <2>6 DEF x
<1> QED BY <1>1, <1>2

LEMMA Joined ==
  ASSUME NEW a \in Seq(Node), NEW b \in Seq(Node)
  PROVE  /\ a \o b \in Seq(Node) /\ Len(a \o b) = Len(a) + Len(b)
         /\ \A k \in 1 .. Len(a) + Len(b) : (a \o b)[k] = IF k <= Len(a) THEN a[k] ELSE b[k - Len(a)]
BY ConcatProperties, Zenon

LEMMA InsertAtIs ==
  ASSUME NEW l \in Seq(Node), NEW i \in 1 .. Len(l) + 1, NEW x \in Node
  PROVE  /\ InsertAt(l, i, x) \in Seq(Node) /\ Len(InsertAt(l, i, x)) = Len(l) + 1
         /\ \A k \in 1 .. Len(l) + 1 : InsertAt(l, i, x)[k] = IF k < i THEN l[k] ELSE IF k = i THEN x ELSE l[k - 1]
<1> DEFINE a == SubSeq(l, 1, i - 1)
           b == <<x>>
           c == SubSeq(l, i, Len(l))
<1>1. a \in Seq(Node) /\ Len(a) = i - 1 /\ \A k \in 1 .. i - 1 : a[k] = l[k]
  OBVIOUS
<1>2. b \in Seq(Node) /\ Len(b) = 1 /\ b[1] = x
  OBVIOUS
<1>3. c \in Seq(Node) /\ Len(c) = Len(l) - i + 1 /\ \A k \in 1 .. Len(l) - i + 1 : c[k] = l[k + i - 1]
  OBVIOUS
<1>4. InsertAt(l, i, x) = (a \o b) \o c
  BY DEF InsertAt
<1> HIDE DEF a, b, c
<1>5. /\ a \o b \in Seq(Node) /\ Len(a \o b) = i
      /\ \A k \in 1 .. i : (a \o b)[k] = IF k < i THEN l[k] ELSE x
  <2>1. /\ a \o b \in Seq(Node) /\ Len(a \o b) = i
        /\ \A k \in 1 .. i : (a \o b)[k] = IF k <= i - 1 THEN a[k] ELSE b[k - (i - 1)]
    <3>1. Len(a) + Len(b) = i /\ Len(a) = i - 1 /\ a \in Seq(Node) /\ b \in Seq(Node)
      BY <1>1, <1>2
    <3>1a. /\ a \o b \in Seq(Node) /\ Len(a \o b) = Len(a) + Len(b)
         /\ \A k \in 1 .. Len(a) + Len(b) : (a \o b)[k] = IF k <= Len(a) THEN a[k] ELSE b[k - Len(a)]
      BY <1>1, <1>2, Joined
    <3> QED BY <3>1, <3>1a
  <2>2. \A k \in 1 .. i : (a \o b)[k] = IF k < i THEN l[k] ELSE x
    <3> SUFFICES ASSUME NEW k \in 1 .. i PROVE (a \o b)[k] = IF k < i THEN l[k] ELSE x
      OBVIOUS
    <3>1. CASE k < i
      BY <3>1, <2>1, <1>1
    <3>2. CASE ~(k < i)
      <4>1. k = i /\ k - (i - 1) = 1 /\ ~(k <= i - 1) /\ ~(k < i)
        BY <3>2
      <4> QED BY <4>1, <2>1, <1>2
    <3> QED BY <3>1, <3>2
  <2> QED BY <2>1, <2>2
<1> DEFINE d == a \o b
<1> HIDE DEF d
<1>6. /\ d \o c \in Seq(Node) /\ Len(d \o c) = Len(l) + 1
      /\ \A k \in 1 .. Len(l) + 1 : (d \o c)[k] = IF k <= i THEN d[k] ELSE c[k - i]
  <2>1. d \in Seq(Node) /\ Len(d) = i
    BY <1>5 DEF d
  <2>2. Len(d) + Len(c) = Len(l) + 1
    BY <2>1, <1>3
  <2>3. /\ d \o c \in Seq(Node) /\ Len(d \o c) = Len(d) + Len(c)
        /\ \A k \in 1 .. Len(d) + Len(c) : (d \o c)[k] = IF k <= Len(d) THEN d[k] ELSE c[k - Len(d)]
    BY <2>1, <1>3, Joined
  <2> QED BY <2>1, <2>2, <2>3
<1>7. \A k \in 1 .. Len(l) + 1 : (d \o c)[k] = IF k < i THEN l[k] ELSE IF k = i THEN x ELSE l[k - 1]
  <2> SUFFICES ASSUME NEW k \in 1 .. Len(l) + 1
               PROVE  (d \o c)[k] = IF k < i THEN l[k] ELSE IF k = i THEN x ELSE l[k - 1]
    OBVIOUS
  <2>1. CASE k <= i
    BY <2>1, <1>5, <1>6 DEF d
  <2>2. CASE ~(k <= i)
    <3>1. k - i \in 1 .. Len(l) - i + 1 /\ (k - i) + i - 1 = k - 1
      BY <2>2
    <3>2. c[k - i] = l[k - 1]
      BY <3>1, <1>3
    <3> QED BY <3>2, <2>2, <1>6
  <2> QED BY <2>1, <2>2
<1> QED BY <1>4, <1>6, <1>7 DEF d

LEMMA RemoveAtIs ==
  ASSUME NEW l \in Seq(Node), NEW i \in 1 .. Len(l)
  PROVE  /\ RemoveAt(l, i) \in Seq(Node) /\ Len(RemoveAt(l, i)) = Len(l) - 1
         /\ \A k \in 1 .. Len(l) - 1 : RemoveAt(l, i)[k] = IF k < i THEN l[k] ELSE l[k + 1]
<1> DEFINE a == SubSeq(l, 1, i - 1)
           c == SubSeq(l, i + 1, Len(l))
<1>1. a \in Seq(Node) /\ Len(a) = i - 1 /\ \A k \in 1 .. i - 1 : a[k] = l[k]
  OBVIOUS
<1>2. c \in Seq(Node) /\ Len(c) = Len(l) - i /\ \A k \in 1 .. Len(l) - i : c[k] = l[k + i]
  OBVIOUS
<1>3. RemoveAt(l, i) = a \o c
  BY DEF RemoveAt
<1> HIDE DEF a, c
<1>4. /\ a \o c \in Seq(Node) /\ Len(a \o c) = Len(l) - 1
      /\ \A k \in 1 .. Len(l) - 1 : (a \o c)[k] = IF k <= i - 1 THEN a[k] ELSE c[k - (i - 1)]
  <2>1. Len(a) + Len(c) = Len(l) - 1 /\ Len(a) = i - 1 /\ a \in Seq(Node) /\ c \in Seq(Node)
    BY <1>1, <1>2
  <2>1a. /\ a \o c \in Seq(Node) /\ Len(a \o c) = Len(a) + Len(c)
         /\ \A k \in 1 .. Len(a) + Len(c) : (a \o c)[k] = IF k <= Len(a) THEN a[k] ELSE c[k - Len(a)]
      BY <1>1, <1>2, Joined
  <2> QED BY <2>1, <2>1a
<1>5. \A k \in 1 .. Len(l) - 1 : (a \o c)[k] = IF k < i THEN l[k] ELSE l[k + 1]
  <2> SUFFICES ASSUME NEW k \in 1 .. Len(l) - 1 PROVE (a \o c)[k] = IF k < i THEN l[k] ELSE l[k + 1]
    OBVIOUS
  <2>1. CASE k < i
    BY <2>1, <1>1, <1>4
  <2>2. CASE ~(k < i)
    <3>1. k - (i - 1) \in 1 .. Len(l) - i /\ (k - (i - 1)) + i = k + 1 /\ ~(k <= i - 1)
      BY <2>2
    <3>2. c[k - (i - 1)] = l[k + 1]
      BY <3>1, <1>2
    <3> QED BY <3>1, <3>2, <2>2, <1>4
  <2> QED BY <2>1, <2>2
<1> QED BY <1>3, <1>4, <1>5

\* What an insertion at place i makes of list l, for a timer with ticks until it expires.
Inserted(l, r, i, t, ticks) ==
  /\ r \in Seq(Node) /\ Len(r) = Len(l) + 1 /\ i \in 1 .. Len(l) + 1
  /\ \A k \in 1 .. i - 1 : r[k].timer = l[k].timer /\ Until(r, k) = Until(l, k) /\ Until(l, k) < ticks
  /\ r[i].timer = t /\ Until(r, i) = ticks
  /\ \A k \in i .. Len(l) : r[k + 1].timer = l[k].timer /\ Until(r, k + 1) = Until(l, k) /\ ticks <= Until(l, k)

HandlerState == [list : Seq(Node), running : SUBSET Timer, count : Count, latest : Count,
                 reset : BOOLEAN, removed : BOOLEAN]

LEMMA InsertIs ==
  ASSUME NEW s \in HandlerState, NEW t \in Timer, NEW ticks \in Nat
  PROVE  /\ \E i \in 1 .. Len(s.list) + 1 : Inserted(s.list, ListInsert(s, t, ticks).list, i, t, ticks)
         /\ ListInsert(s, t, ticks) = [s EXCEPT !.list = ListInsert(s, t, ticks).list, !.running = @ \cup {t}]
<1> DEFINE l == s.list
           S == {j \in 1 .. Len(l) : Until(l, j) < ticks}
           i == Cardinality(S) + 1
           delta == ticks - Until(l, i - 1)
           moved == Shift(l, i, -delta)
           r == InsertAt(moved, i, [timer |-> t, ticks |-> delta])
<1>1. ListInsert(s, t, ticks) = [s EXCEPT !.list = r, !.running = @ \cup {t}]
  BY DEF ListInsert
<1>2. /\ l \in Seq(Node) /\ Len(l) \in Nat
  BY DEF HandlerState
<1>2a. \A j \in 1 .. Len(l) : l[j].ticks \in Nat
  BY <1>2, NodeIs
<1>2b. /\ \A j \in 0 .. Len(l) : Until(l, j) \in Nat
       /\ \A j \in 1 .. Len(l) : Until(l, j) = Until(l, j - 1) + l[j].ticks
  BY <1>2, UntilIs
<1>3. \A j \in 1 .. Len(l) : j \in S <=> Until(l, j) < ticks
  OBVIOUS
<1>4. i - 1 \in 0 .. Len(l) /\ S = 1 .. i - 1 /\ Cardinality(S) \in Int
  <2>1. S \in SUBSET (1 .. Len(l))
    OBVIOUS
  <2>2. \A a, b \in 1 .. Len(l) : b \in S /\ a <= b => a \in S
    <3> SUFFICES ASSUME NEW a \in 1 .. Len(l), NEW b \in 1 .. Len(l), b \in S, a <= b PROVE a \in S
      OBVIOUS
    <3>1. Until(l, a) <= Until(l, b) /\ Until(l, a) \in Nat /\ Until(l, b) \in Nat
      BY <1>2, UntilGrows, UntilIs
    <3>2. Until(l, b) < ticks
      BY <1>3
    <3> HIDE DEF S
    <3> QED BY <3>1, <3>2, <1>3
  <2> HIDE DEF S
  <2>3. Cardinality(S) \in 0 .. Len(l) /\ S = 1 .. Cardinality(S)
    BY <1>2, <2>1, <2>2, Prefix
  <2> QED BY <2>3
<1> HIDE DEF S
<1>5. i \in 1 .. Len(l) + 1
  BY <1>4, <1>2
<1> HIDE DEF i, l
<1>6. \A k \in 1 .. i - 1 : Until(l, k) < ticks
  BY <1>2, <1>3, <1>4, <1>5
<1>7. \A k \in i .. Len(l) : ticks <= Until(l, k)
  <2> SUFFICES ASSUME NEW k \in i .. Len(l) PROVE ticks <= Until(l, k)
    OBVIOUS
  <2>1. k \in 1 .. Len(l) /\ k \notin S
    BY <1>2, <1>4, <1>5
  <2> QED BY <2>1, <1>2, <1>3, UntilIs
<1>8. delta \in Nat /\ Until(l, i - 1) \in Nat
  <2>1. i - 1 \in 0 .. Len(l)
    BY <1>2, <1>5
  <2>2. Until(l, i - 1) \in Nat /\ Until(l, 0) = 0
    BY <2>1, <1>2, UntilIs
  <2>3. CASE i = 1
    BY <2>2, <2>3
  <2>4. CASE i # 1
    <3>1. i - 1 \in 1 .. i - 1
      BY <2>4, <1>5, <1>2
    <3> QED BY <3>1, <2>2, <1>6
  <2> QED BY <2>3, <2>4
<1>9. i <= Len(l) => /\ l[i].ticks - delta = Until(l, i) - ticks /\ Until(l, i) - ticks \in Nat
  <2> SUFFICES ASSUME i <= Len(l) PROVE l[i].ticks - delta = Until(l, i) - ticks /\ Until(l, i) - ticks \in Nat
    OBVIOUS
  <2>1. i \in 1 .. Len(l) /\ i \in i .. Len(l)
    BY <1>5, <1>2
  <2>2. Until(l, i) = Until(l, i - 1) + l[i].ticks /\ Until(l, i) \in Nat /\ l[i].ticks \in Nat
    BY <2>1, <1>2, <1>2a, <1>2b
  <2>3. ticks <= Until(l, i)
    BY <2>1, <1>7
  <2> DEFINE a == Until(l, i)
             b == Until(l, i - 1)
             c == l[i].ticks
             e == delta
  <2>4. a = b + c /\ a \in Nat /\ b \in Nat /\ c \in Nat /\ e = ticks - b /\ ticks <= a /\ e \in Nat
    BY <2>2, <2>3, <1>8
  <2> HIDE DEF a, b, c, e
  <2>5. c - e = a - ticks /\ a - ticks \in Nat
    BY <2>4
  <2> QED BY <2>5 DEF a, c, e
<1> HIDE DEF delta
<1>10. /\ moved \in Seq(Node) /\ Len(moved) = Len(l)
       /\ \A k \in 1 .. Len(l) : moved[k] = IF k = i THEN [timer |-> l[k].timer, ticks |-> l[k].ticks + (-delta)] ELSE l[k]
  <2>1. i \in Nat \ {0} /\ -delta \in Int /\ (i <= Len(l) => l[i].ticks + (-delta) \in Nat)
    <3>1. i <= Len(l) => l[i].ticks \in Nat
      BY <1>2, <1>5, <1>2a
    <3>2. i \in Nat \ {0} /\ -delta \in Int
      BY <1>5, <1>8, <1>2
    <3>3. i <= Len(l) => l[i].ticks - delta \in Nat
      BY <1>9
    <3>4. i <= Len(l) => l[i].ticks + (-delta) = l[i].ticks - delta
      BY <3>1, <1>8
    <3> QED BY <3>2, <3>3, <3>4
  <2> QED BY <2>1, <1>2, ShiftIs
<1>11. [timer |-> t, ticks |-> delta] \in Node
  BY <1>8 DEF Node
<1>12. /\ r \in Seq(Node) /\ Len(r) = Len(l) + 1
       /\ \A k \in 1 .. Len(l) + 1 : r[k] = IF k < i THEN moved[k] ELSE IF k = i THEN [timer |-> t, ticks |-> delta] ELSE moved[k - 1]
  <2> HIDE DEF moved
  <2>1. i \in 1 .. Len(moved) + 1
    BY <1>5, <1>10
  <2> QED BY SMTT(30), <2>1, <1>10, <1>11, InsertAtIs
<1> HIDE DEF moved, r
<1>13. \A k \in 1 .. Len(l) + 1 : r[k] = IF k < i THEN l[k] ELSE IF k = i THEN [timer |-> t, ticks |-> delta]
                                  ELSE IF k = i + 1 THEN [timer |-> l[i].timer, ticks |-> l[i].ticks + (-delta)] ELSE l[k - 1]
  <2> SUFFICES ASSUME NEW k \in 1 .. Len(l) + 1
               PROVE  r[k] = IF k < i THEN l[k] ELSE IF k = i THEN [timer |-> t, ticks |-> delta]
                             ELSE IF k = i + 1 THEN [timer |-> l[i].timer, ticks |-> l[i].ticks + (-delta)] ELSE l[k - 1]
    OBVIOUS
  <2>1. CASE k < i
    <3>1. k \in 1 .. Len(l) /\ k # i
      BY <2>1, <1>5, <1>2
    <3> QED BY <3>1, <2>1, <1>10, <1>12
  <2>2. CASE k = i
    BY <2>2, <1>12, <1>5
  <2>3. CASE k > i
    <3>1. k - 1 \in 1 .. Len(l) /\ (k - 1 = i <=> k = i + 1) /\ ~(k < i) /\ k # i
      BY <2>3, <1>5, <1>2
    <3>2. r[k] = moved[k - 1]
      BY <3>1, <1>12
    <3>3. CASE k = i + 1
      BY <3>1, <3>2, <3>3, <1>10
    <3>4. CASE k # i + 1
      BY <3>1, <3>2, <3>4, <1>10
    <3> QED BY <3>3, <3>4
  <2> QED BY <2>1, <2>2, <2>3, <1>5
<1> DEFINE f == [k \in 0 .. Len(l) + 1 |-> IF k < i THEN Until(l, k) ELSE IF k = i THEN ticks ELSE Until(l, k - 1)]
<1>14. \A k \in 0 .. Len(r) : Until(r, k) = f[k]
  <2>1. f[0] = 0
    BY <1>5, <1>2, UntilIs
  <2>2. ASSUME NEW k \in 1 .. Len(r) PROVE f[k] = f[k - 1] + r[k].ticks
    <3>0. k \in 1 .. Len(l) + 1
      BY <1>12
    <3>1. CASE k < i
      <4>1. k \in 1 .. Len(l) /\ k - 1 < i
        BY <3>0, <3>1, <1>5, <1>2
      <4>2. f[k] = Until(l, k) /\ f[k - 1] = Until(l, k - 1)
        BY <4>1, <3>1, <1>2
      <4>3. r[k].ticks = l[k].ticks
        BY <3>0, <3>1, <1>13
      <4> QED BY <4>1, <4>2, <4>3, <1>2, UntilIs
    <3>2. CASE k = i
      <4>1. f[k] = ticks /\ f[k - 1] = Until(l, i - 1)
        BY <3>2, <1>5, <1>2
      <4>2. r[k].ticks = delta
        BY <3>0, <3>2, <1>13, <1>5
      <4> QED BY <4>1, <4>2, <1>8 DEF delta
    <3>3. CASE k = i + 1
      <4>1. f[k] = Until(l, i) /\ f[k - 1] = ticks /\ i <= Len(l)
        BY <3>0, <3>3, <1>5, <1>2
      <4>2. r[k].ticks = l[i].ticks + (-delta)
        <5>1. ~(k < i) /\ k # i /\ k = i + 1
          BY <3>3, <1>5
        <5>2. r[k] = [timer |-> l[i].timer, ticks |-> l[i].ticks + (-delta)]
          BY <3>0, <5>1, <1>13
        <5> QED BY <5>2
      <4>3. l[i].ticks \in Nat /\ Until(l, i) \in Nat
        BY <4>1, <1>5, <1>2, <1>2a, <1>2b
      <4>4. l[i].ticks - delta = Until(l, i) - ticks
        BY <4>1, <1>9
      <4>5. Until(l, i) = ticks + (l[i].ticks + (-delta))
        BY <4>3, <4>4, <1>8
      <4> HIDE DEF f
      <4> QED BY <4>1, <4>2, <4>5
    <3>4. CASE k > i + 1
      <4>1. k - 1 \in 1 .. Len(l) /\ ~(k < i) /\ k # i /\ k # i + 1 /\ ~(k - 1 < i) /\ k - 1 # i
        BY <3>0, <3>4, <1>5, <1>2
      <4>2. f[k] = Until(l, k - 1) /\ f[k - 1] = Until(l, (k - 1) - 1)
        BY <4>1, <3>0, <1>2
      <4>3. r[k] = l[k - 1]
        BY <3>0, <4>1, <1>13
      <4> QED BY <4>1, <4>2, <4>3, <1>2, UntilIs
    <3> QED BY <3>1, <3>2, <3>3, <3>4, <1>5, <3>0
  <2> HIDE DEF f
  <2> QED BY <2>1, <2>2, <1>12, SumIs
<1>15. Inserted(l, r, i, t, ticks)
  <2>1. \A k \in 1 .. i - 1 : r[k].timer = l[k].timer /\ Until(r, k) = Until(l, k)
    <3> SUFFICES ASSUME NEW k \in 1 .. i - 1 PROVE r[k].timer = l[k].timer /\ Until(r, k) = Until(l, k)
      OBVIOUS
    <3>1. k \in 1 .. Len(l) + 1 /\ k < i /\ k \in 0 .. Len(r)
      BY <1>5, <1>2, <1>12
    <3> QED BY <3>1, <1>13, <1>14, <1>12
  <2>2. r[i].timer = t /\ Until(r, i) = ticks
    <3>1. i \in 0 .. Len(r) /\ i \in 0 .. Len(l) + 1 /\ ~(i < i)
      BY <1>5, <1>12, <1>2
    <3>2. f[i] = ticks
      BY <3>1
    <3> HIDE DEF f
    <3> QED BY <3>1, <3>2, <1>13, <1>14, <1>5
  <2>3. \A k \in i .. Len(l) : r[k + 1].timer = l[k].timer /\ Until(r, k + 1) = Until(l, k)
    <3> SUFFICES ASSUME NEW k \in i .. Len(l) PROVE r[k + 1].timer = l[k].timer /\ Until(r, k + 1) = Until(l, k)
      OBVIOUS
    <3>1. /\ k + 1 \in 1 .. Len(l) + 1 /\ k + 1 \in 0 .. Len(r) /\ k + 1 \in 0 .. Len(l) + 1
          /\ ~(k + 1 < i) /\ k + 1 # i /\ (k + 1) - 1 = k
      BY <1>5, <1>2, <1>12
    <3>2. f[k + 1] = Until(l, k)
      BY <3>1
    <3> HIDE DEF f
    <3>3. r[k + 1].timer = l[k].timer
      <4>1. CASE k = i
        <5>1. r[k + 1] = [timer |-> l[i].timer, ticks |-> l[i].ticks + (-delta)]
          BY <3>1, <4>1, <1>13
        <5> QED BY <5>1, <4>1
      <4>2. CASE k # i
        <5>1. k + 1 # i + 1
          BY <4>2, <1>5
        <5>2. r[k + 1] = l[(k + 1) - 1]
          BY <3>1, <5>1, <1>13
        <5> QED BY <5>2, <3>1
      <4> QED BY <4>1, <4>2
    <3> QED BY <3>1, <3>2, <3>3, <1>14
  <2> QED BY <2>1, <2>2, <2>3, <1>5, <1>6, <1>7, <1>12 DEF Inserted
<1>16. ListInsert(s, t, ticks).list = r
  BY <1>1 DEF HandlerState
<1> QED BY <1>1, <1>5, <1>15, <1>16 DEF l

\* What the removal of place i makes of list l.
Removed(l, r, i) ==
  /\ r \in Seq(Node) /\ Len(r) = Len(l) - 1 /\ i \in 1 .. Len(l)
  /\ \A k \in 1 .. i - 1 : r[k].timer = l[k].timer /\ Until(r, k) = Until(l, k)
  /\ \A k \in i .. Len(l) - 1 : r[k].timer = l[k + 1].timer /\ Until(r, k) = Until(l, k + 1)

LEMMA RemovedIs ==
  ASSUME NEW l \in Seq(Node), NEW i \in 1 .. Len(l)
  PROVE  Removed(l, RemoveAt(Shift(l, i + 1, l[i].ticks), i), i)
<1> DEFINE moved == Shift(l, i + 1, l[i].ticks)
           r == RemoveAt(moved, i)
<1>1. /\ Len(l) \in Nat
      /\ \A j \in 1 .. Len(l) : l[j].ticks \in Nat
  BY NodesAre
<1>2. /\ \A j \in 0 .. Len(l) : Until(l, j) \in Nat
      /\ \A j \in 1 .. Len(l) : Until(l, j) = Until(l, j - 1) + l[j].ticks
      /\ Until(l, 0) = 0
  BY UntilIs
<1>3. /\ moved \in Seq(Node) /\ Len(moved) = Len(l)
      /\ \A k \in 1 .. Len(l) : moved[k] = IF k = i + 1 THEN [timer |-> l[k].timer, ticks |-> l[k].ticks + l[i].ticks] ELSE l[k]
  <2>1. i + 1 \in Nat \ {0} /\ l[i].ticks \in Int /\ (i + 1 <= Len(l) => l[i + 1].ticks + l[i].ticks \in Nat)
    <3>1. l[i].ticks \in Nat /\ (i + 1 <= Len(l) => l[i + 1].ticks \in Nat)
      BY <1>1
    <3> QED BY <3>1
  <2> QED BY <2>1, ShiftIs
<1> HIDE DEF moved
<1>4. /\ r \in Seq(Node) /\ Len(r) = Len(l) - 1
      /\ \A k \in 1 .. Len(l) - 1 : r[k] = IF k < i THEN moved[k] ELSE moved[k + 1]
  <2>1. i \in 1 .. Len(moved)
    BY <1>3
  <2> QED BY <2>1, <1>3, RemoveAtIs
<1> HIDE DEF r
<1>5. \A k \in 1 .. Len(l) - 1 : r[k] = IF k < i THEN l[k] ELSE IF k = i THEN [timer |-> l[i + 1].timer, ticks |-> l[i + 1].ticks + l[i].ticks]
                                        ELSE l[k + 1]
  <2> SUFFICES ASSUME NEW k \in 1 .. Len(l) - 1
               PROVE  r[k] = IF k < i THEN l[k] ELSE IF k = i THEN [timer |-> l[i + 1].timer, ticks |-> l[i + 1].ticks + l[i].ticks]
                             ELSE l[k + 1]
    OBVIOUS
  <2>1. CASE k < i
    <3>1. k \in 1 .. Len(l) /\ k # i + 1
      BY <2>1, <1>1
    <3> QED BY <3>1, <2>1, <1>3, <1>4
  <2>2. CASE k = i
    <3>1. k + 1 \in 1 .. Len(l) /\ k + 1 = i + 1 /\ ~(k < i)
      BY <2>2, <1>1
    <3>2. r[k] = moved[i + 1]
      BY <3>1, <1>4
    <3> QED BY <3>1, <3>2, <2>2, <1>3
  <2>3. CASE ~(k < i) /\ k # i
    <3>1. k + 1 \in 1 .. Len(l) /\ k + 1 # i + 1
      BY <2>3, <1>1
    <3> QED BY <3>1, <2>3, <1>3, <1>4
  <2> QED BY <2>1, <2>2, <2>3
<1> DEFINE f == [k \in 0 .. Len(l) - 1 |-> IF k < i THEN Until(l, k) ELSE Until(l, k + 1)]
<1>6. \A k \in 0 .. Len(r) : Until(r, k) = f[k]
  <2>1. f[0] = 0
    BY <1>1, <1>2
  <2>2. ASSUME NEW k \in 1 .. Len(r) PROVE f[k] = f[k - 1] + r[k].ticks
    <3>0. k \in 1 .. Len(l) - 1
      BY <1>4
    <3>1. CASE k < i
      <4>1. k \in 1 .. Len(l) /\ k - 1 < i
        BY <3>0, <3>1, <1>1
      <4>2. f[k] = Until(l, k) /\ f[k - 1] = Until(l, k - 1)
        BY <4>1, <3>1, <3>0, <1>1
      <4>3. r[k].ticks = l[k].ticks
        BY <3>0, <3>1, <1>5
      <4> HIDE DEF f
      <4> QED BY <4>1, <4>2, <4>3, <1>2
    <3>2. CASE k = i
      <4>1. i + 1 \in 1 .. Len(l) /\ (i + 1) - 1 = i
        BY <3>0, <3>2, <1>1
      <4>2. f[k] = Until(l, i + 1) /\ f[k - 1] = Until(l, i - 1)
        BY <3>2, <3>0, <1>1
      <4>3. r[k].ticks = l[i + 1].ticks + l[i].ticks
        <5>1. r[k] = [timer |-> l[i + 1].timer, ticks |-> l[i + 1].ticks + l[i].ticks]
          BY <3>0, <3>2, <1>5
        <5> QED BY <5>1
      <4>4. Until(l, i + 1) = Until(l, i) + l[i + 1].ticks /\ Until(l, i) = Until(l, i - 1) + l[i].ticks
        BY <4>1, <1>2
      <4>5. l[i].ticks \in Nat /\ l[i + 1].ticks \in Nat /\ Until(l, i - 1) \in Nat
        <5>1. i - 1 \in 0 .. Len(l)
          BY <1>1
        <5> QED BY <5>1, <4>1, <1>1, <1>2
      <4> HIDE DEF f
      <4> DEFINE a == Until(l, i - 1)
                 b == l[i].ticks
                 c == l[i + 1].ticks
                 e == Until(l, i)
                 g == Until(l, i + 1)
      <4>6. a \in Nat /\ b \in Nat /\ c \in Nat /\ g = e + c /\ e = a + b /\ f[k] = g /\ f[k - 1] = a /\ r[k].ticks = c + b
        BY <4>2, <4>3, <4>4, <4>5
      <4> HIDE DEF a, b, c, e, g
      <4>7. g = a + (c + b)
        BY <4>6
      <4> QED BY <4>6, <4>7
    <3>3. CASE ~(k < i) /\ k # i
      <4>1. k + 1 \in 1 .. Len(l) /\ ~(k - 1 < i) /\ (k + 1) - 1 = k /\ (k - 1) + 1 = k
        BY <3>0, <3>3, <1>1
      <4>2. f[k] = Until(l, k + 1) /\ f[k - 1] = Until(l, k)
        BY <4>1, <3>3, <3>0, <1>1
      <4>3. r[k].ticks = l[k + 1].ticks
        BY <3>0, <3>3, <1>5
      <4> HIDE DEF f
      <4> QED BY <4>1, <4>2, <4>3, <1>2
    <3> QED BY <3>1, <3>2, <3>3
  <2> HIDE DEF f
  <2> QED BY <2>1, <2>2, <1>4, SumIs
<1>7. \A k \in 1 .. i - 1 : r[k].timer = l[k].timer /\ Until(r, k) = Until(l, k)
  <2> SUFFICES ASSUME NEW k \in 1 .. i - 1 PROVE r[k].timer = l[k].timer /\ Until(r, k) = Until(l, k)
    OBVIOUS
  <2>1. k \in 1 .. Len(l) - 1 /\ k \in 0 .. Len(r) /\ k < i
    BY <1>1, <1>4
  <2>2. f[k] = Until(l, k)
    BY <2>1, <1>1
  <2> HIDE DEF f
  <2> QED BY <2>1, <2>2, <1>5, <1>6
<1>8. \A k \in i .. Len(l) - 1 : r[k].timer = l[k + 1].timer /\ Until(r, k) = Until(l, k + 1)
  <2> SUFFICES ASSUME NEW k \in i .. Len(l) - 1 PROVE r[k].timer = l[k + 1].timer /\ Until(r, k) = Until(l, k + 1)
    OBVIOUS
  <2>1. k \in 1 .. Len(l) - 1 /\ k \in 0 .. Len(r) /\ ~(k < i)
    BY <1>1, <1>4
  <2>2. f[k] = Until(l, k + 1)
    BY <2>1, <1>1
  <2> HIDE DEF f
  <2>3. r[k].timer = l[k + 1].timer
    <3>1. CASE k = i
      <4>1. r[k] = [timer |-> l[i + 1].timer, ticks |-> l[i + 1].ticks + l[i].ticks]
        BY <2>1, <3>1, <1>5
      <4> QED BY <4>1, <3>1
    <3>2. CASE k # i
      BY <2>1, <3>2, <1>5
    <3> QED BY <3>1, <3>2
  <2> QED BY <2>1, <2>2, <2>3, <1>6
<1>9. Removed(l, r, i)
  BY <1>4, <1>7, <1>8 DEF Removed
<1> QED BY <1>9 DEF r, moved

\* A list that becomes empty makes the counter start anew.
LEMMA RemoveIs ==
  ASSUME NEW s \in HandlerState, NEW t \in Timers(s.list), NEW r, r = ListRemove(s, t)
  PROVE  /\ r \in HandlerState /\ r.running = s.running
         /\ \E i \in 1 .. Len(s.list) : /\ s.list[i].timer = t /\ Removed(s.list, r.list, i)
                                        /\ r.removed = (s.removed \/ i = 1)
         /\ IF r.list = <<>> THEN r.count = 0 /\ r.latest = 0 /\ r.reset
                             ELSE r.count = s.count /\ r.latest = s.latest /\ r.reset = s.reset
<1> DEFINE l == s.list
           i == CHOOSE j \in 1 .. Len(l) : l[j].timer = t
           left_ == RemoveAt(Shift(l, i + 1, l[i].ticks), i)
           q == [s EXCEPT !.list = left_, !.removed = @ \/ i = 1]
<1>1. l \in Seq(Node)
  BY DEF HandlerState
<1>2. i \in 1 .. Len(l) /\ l[i].timer = t
  BY DEF Timers
<1>3. r = IF q.list = <<>> THEN [q EXCEPT !.count = 0, !.latest = 0, !.reset = TRUE] ELSE q
  BY DEF ListRemove
<1> HIDE DEF i
<1>4. Removed(l, left_, i)
  BY <1>1, <1>2, RemovedIs
<1> HIDE DEF left_
<1>5. left_ \in Seq(Node)
  BY <1>4 DEF Removed
<1>6. 0 \in Count
  BY Constants DEF Count
<1>7. q \in HandlerState /\ q.list = left_ /\ q.running = s.running /\ q.removed = (s.removed \/ i = 1)
      /\ q.count = s.count /\ q.latest = s.latest /\ q.reset = s.reset
  BY <1>5 DEF HandlerState
<1> HIDE DEF q
<1>8. /\ r \in HandlerState /\ r.list = left_ /\ r.running = s.running /\ r.removed = (s.removed \/ i = 1)
      /\ IF r.list = <<>> THEN r.count = 0 /\ r.latest = 0 /\ r.reset
                          ELSE r.count = s.count /\ r.latest = s.latest /\ r.reset = s.reset
  BY <1>3, <1>6, <1>7 DEF HandlerState
<1> QED BY <1>2, <1>4, <1>8

\* The list r that is left of l when n timers have expired and the ticks are passed.
Rest(l, r, n, ticks) ==
  /\ r \in Seq(Node) /\ Len(r) = Len(l) - n
  /\ \A k \in 1 .. Len(l) - n : r[k].timer = l[k + n].timer /\ Until(r, k) = Until(l, k + n) - ticks

LEMMA ExpiredIs ==
  ASSUME NEW l \in Seq(Node), NEW n \in 0 .. Len(l), NEW ticks \in Nat,
         \A k \in n + 1 .. Len(l) : ticks <= Until(l, k)
  PROVE  Rest(l, Shift(SubSeq(l, n + 1, Len(l)), 1, Until(l, n) - ticks), n, ticks)
<1> DEFINE c == SubSeq(l, n + 1, Len(l))
           by == Until(l, n) - ticks
           r == Shift(c, 1, by)
<1>1. /\ Len(l) \in Nat
      /\ \A j \in 1 .. Len(l) : l[j].ticks \in Nat
  BY NodesAre
<1>2. /\ \A j \in 0 .. Len(l) : Until(l, j) \in Nat
      /\ \A j \in 1 .. Len(l) : Until(l, j) = Until(l, j - 1) + l[j].ticks
      /\ Until(l, 0) = 0
  BY UntilIs
<1>3. c \in Seq(Node) /\ Len(c) = Len(l) - n /\ \A k \in 1 .. Len(l) - n : c[k] = l[k + n]
  OBVIOUS
<1> HIDE DEF c
<1>4. by \in Int /\ (1 <= Len(c) => c[1].ticks + by = Until(l, n + 1) - ticks /\ c[1].ticks + by \in Nat)
  <2>1. by \in Int
    BY <1>2
  <2>2. ASSUME 1 <= Len(c) PROVE c[1].ticks + by = Until(l, n + 1) - ticks /\ c[1].ticks + by \in Nat
    <3>1. n + 1 \in 1 .. Len(l) /\ n + 1 \in n + 1 .. Len(l) /\ 1 \in 1 .. Len(l) - n /\ 1 + n = n + 1 /\ (n + 1) - 1 = n
      BY <2>2, <1>1, <1>3
    <3>2. c[1] = l[n + 1]
      BY <3>1, <1>3
    <3>3. Until(l, n + 1) = Until(l, n) + l[n + 1].ticks /\ Until(l, n) \in Nat /\ l[n + 1].ticks \in Nat
      BY <3>1, <1>1, <1>2
    <3>4. ticks <= Until(l, n + 1)
      BY <3>1
    <3> QED BY <3>2, <3>3, <3>4
  <2> QED BY <2>1, <2>2
<1> HIDE DEF by
<1>5. /\ r \in Seq(Node) /\ Len(r) = Len(l) - n
      /\ \A k \in 1 .. Len(l) - n : r[k] = IF k = 1 THEN [timer |-> c[k].timer, ticks |-> c[k].ticks + by] ELSE c[k]
  <2>1. 1 \in Nat \ {0} /\ c \in Seq(Node) /\ by \in Int /\ (1 <= Len(c) => c[1].ticks + by \in Nat)
    BY <1>3, <1>4
  <2>2. /\ r \in Seq(Node) /\ Len(r) = Len(c)
        /\ \A k \in 1 .. Len(c) : r[k] = IF k = 1 THEN [timer |-> c[k].timer, ticks |-> c[k].ticks + by] ELSE c[k]
    BY <2>1, ShiftIs
  <2> QED BY <2>2, <1>3
<1> HIDE DEF r
<1> DEFINE f == [k \in 0 .. Len(l) - n |-> IF k = 0 THEN 0 ELSE Until(l, k + n) - ticks]
<1>6. \A k \in 0 .. Len(r) : Until(r, k) = f[k]
  <2>1. f[0] = 0
    BY <1>1
  <2>2. ASSUME NEW k \in 1 .. Len(r) PROVE f[k] = f[k - 1] + r[k].ticks
    <3>0. k \in 1 .. Len(l) - n /\ k \in 0 .. Len(l) - n /\ k - 1 \in 0 .. Len(l) - n /\ k # 0 /\ k \in Int
      BY <1>5, <1>1
    <3>1. f[k] = Until(l, k + n) - ticks
      BY <3>0
    <3>2. f[k - 1] = IF k = 1 THEN 0 ELSE Until(l, k - 1 + n) - ticks
      BY <3>0
    <3> HIDE DEF f
    <3>3. CASE k = 1
      <4>1. r[1] = [timer |-> c[1].timer, ticks |-> c[1].ticks + by] /\ 1 <= Len(c)
        BY <3>0, <3>3, <1>5, <1>3
      <4> QED BY <3>1, <3>2, <3>3, <4>1, <1>4
    <3>4. CASE k # 1
      <4>1. r[k].ticks = l[k + n].ticks
        BY <3>0, <3>4, <1>5, <1>3
      <4>2. k + n \in 1 .. Len(l) /\ (k + n) - 1 = k - 1 + n /\ k - 1 + n \in 0 .. Len(l)
        BY <3>0, <1>1
      <4>3. Until(l, k + n) = Until(l, k - 1 + n) + l[k + n].ticks /\ Until(l, k - 1 + n) \in Nat /\ l[k + n].ticks \in Nat
        BY <4>2, <1>1, <1>2
      <4> QED BY <3>1, <3>2, <3>4, <4>1, <4>3
    <3> QED BY <3>3, <3>4
  <2> HIDE DEF f
  <2> QED BY <2>1, <2>2, <1>5, SumIs
<1>7. ASSUME NEW k \in 1 .. Len(l) - n PROVE r[k].timer = l[k + n].timer /\ Until(r, k) = Until(l, k + n) - ticks
  <2>1. k \in 0 .. Len(r) /\ k # 0 /\ k \in 0 .. Len(l) - n
    BY <1>1, <1>5
  <2>2. f[k] = Until(l, k + n) - ticks
    BY <2>1
  <2>3. r[k].timer = c[k].timer
    <3>1. CASE k = 1
      <4>1. r[k] = [timer |-> c[k].timer, ticks |-> c[k].ticks + by]
        BY <3>1, <1>5
      <4> QED BY <4>1
    <3>2. CASE k # 1
      BY <3>2, <1>5
    <3> QED BY <3>1, <3>2
  <2> HIDE DEF f
  <2> QED BY <2>1, <2>2, <2>3, <1>3, <1>6
<1>8. Rest(l, r, n, ticks)
  BY <1>5, <1>7 DEF Rest
<1> QED BY <1>8 DEF r, by, c

-----------------------------------------------------------------------------
(* The inductive invariant.                                                *)

Elapsed == Diff(hw.count, latest)
\* The timers that a check has called and that are still in the list.
Checked == IF Acquired THEN CountExpired(list, passed.ticks[ReadIndex]) ELSE 0
\* The tick at which the i-th timer of a list is called next, when n are checked.
Due(l, n, i) == Until(l, i) + IF i <= n THEN Period[l[i].timer] ELSE 0

IsStop(op, t) == op.type = "STOP_ALL" \/ (op.type = "STOP" /\ op.timer = t)
IsStart(op, t) == op.type = "START" /\ op.timer = t
Stops(q, t) == \E j \in 1 .. Len(q) : IsStop(q[j], t)
Starts(q, t) == \E j \in 1 .. Len(q) : IsStart(q[j], t)

StartCall == [type : {"START"}, timer : Timer, at : Count, first : Nat \ {0}]
StopCall == [type : {"STOP"}, timer : Timer]
QueuedCall == StartCall \cup StopCall \cup [type : {"STOP_ALL"}]

Types ==
  /\ hw \in [count : Count, cc : Count, on : BOOLEAN] /\ latest \in Count
  /\ list \in Seq(Node) /\ running \in SUBSET Timer /\ ops \in Seq(QueuedCall)
  /\ passed \in [ticks : [0 .. 1 -> Count], read : 0 .. 1, write : 0 .. 1]
  /\ pending \in SUBSET {"timer", "swi"}
  /\ swi = Idle \/ swi \in [pc : {"write", "verify"}, pre : Count, cc : Count]
  /\ call \in [pc : {"idle", "queue", "return"}, timers : SUBSET Timer, age : Nat]
  /\ waited \in 0 .. Latency
  /\ left \in [Timer -> Int \cup {Off}]

ListInv ==
  /\ Distinct(list)
  /\ \A i \in 1 .. Len(list) : Until(list, i) + Late < Modulus
HwInv ==
  /\ hw.on <=> list # <<>>
  /\ ~hw.on => hw.count = 0 /\ latest = 0 /\ ~Acquired /\ swi = Idle
CheckInv ==
  Acquired => /\ "swi" \in pending /\ swi = Idle
              /\ passed.ticks[ReadIndex] = Until(list, Checked) /\ Until(list, Checked) <= Elapsed
              /\ \A i \in 1 .. Len(list) : IF i <= Checked THEN list[i].timer \notin running
                                           ELSE Elapsed <= Until(list, i) - 1 + waited
WaitInv ==
  /\ ops # <<>> => "swi" \in pending /\ swi = Idle
  /\ \A i \in 1 .. Len(list) : Elapsed <= Until(list, i) + Room(i) + waited

\* A value v of the compare register, and a counter that is so far from m_ticks_latest.
Reaches(l, v, from) ==
  /\ \A i \in 1 .. Len(l) : v <= Until(l, i) + Room(i)
  /\ v <= Until(l, 1) \/ v <= from + Offset
ArmedInv ==
  hw.on /\ "timer" \notin pending /\ swi.pc = "idle" /\ ~Acquired =>
    Elapsed < Diff(hw.cc, latest) /\ Reaches(list, Diff(hw.cc, latest), Elapsed)
SwiInv ==
  swi.pc # "idle" =>
    /\ hw.on /\ "swi" \notin pending
    /\ swi.pc = "verify" => hw.cc = swi.cc
    /\ \/ "timer" \in pending
       \/ /\ Diff(swi.pre, latest) <= Elapsed
          /\ Diff(swi.pre, latest) + Offset <= Diff(swi.cc, latest)
          /\ Reaches(list, Diff(swi.cc, latest), Diff(swi.pre, latest))
CallInv ==
  /\ call.pc = "idle" => call = NoCall
  /\ call # NoCall => caller = "main" /\ \A j \in 1 .. Len(ops) : ops[j].type # "START"
  /\ caller = "main" => Len(ops) <= 1
  /\ call.pc = "queue" => ops = <<>> /\ \E t \in Timer : call.timers = {t}
  /\ call.pc = "return" => \A i \in 1 .. Len(list) : list[i].timer \in call.timers => Stops(ops, list[i].timer)

\* The queued starts: when they were made,
StartTime ==
  \A j \in 1 .. Len(ops) : ops[j].type = "START" =>
    /\ Diff(ops[j].at, latest) < Half
    /\ Diff(ops[j].at, latest) <= Elapsed
    /\ Elapsed - Diff(ops[j].at, latest) <= waited
    /\ Diff(ops[j].at, latest) + ops[j].first + Late < Modulus
\* that the timer is not in the list any more when it is to be inserted,
StartFresh ==
  \A j \in 1 .. Len(ops) : ops[j].type = "START" =>
    /\ ops[j].timer \notin running
    /\ (\A k \in 1 .. j - 1 : ~IsStop(ops[k], ops[j].timer)) =>
         \A i \in 1 .. Len(list) : list[i].timer = ops[j].timer => i <= Checked /\ Period[ops[j].timer] = 0
    /\ \A k \in 1 .. j - 1 : IsStart(ops[k], ops[j].timer) => \E m \in k + 1 .. j - 1 : IsStop(ops[m], ops[j].timer)
\* what its user knows of it,
StartLeft ==
  \A j \in 1 .. Len(ops) : ops[j].type = "START" /\ (\A k \in j + 1 .. Len(ops) : ~IsStop(ops[k], ops[j].timer)) =>
    /\ left[ops[j].timer] \in Int
    /\ ops[j].first - left[ops[j].timer] <= waited
    /\ ops[j].first - left[ops[j].timer] >= Elapsed - Diff(ops[j].at, latest)
\* and that it does not bring back a head that left the list after another start.
StartSeen ==
  \A j, k, m \in 1 .. Len(ops) :
    m < k /\ k < j /\ ops[j].type = "START" /\ ops[k] = StopOp(ops[j].timer) /\ ops[m].type = "START"
      => ops[m].timer = ops[j].timer
\* The queued stops.
StopInv ==
  \A j \in 1 .. Len(ops) :
    /\ ops[j].type = "STOP_ALL" => caller = "main"
    /\ \A t \in Timer : IsStop(ops[j], t) /\ (\A k \in j + 1 .. Len(ops) : ~IsStart(ops[k], t)) =>
                          left[t] = Off \/ t \in call.timers

\* A timer that runs is in the list, and waits to be called.
RunInv == \A t \in running : left[t] \in Int /\ \E i \in Checked + 1 .. Len(list) : list[i].timer = t
\* A timer in the list is not called early, was not stopped without a trace, and is
\* running unless it was called or stopped.
DueInv ==
  \A i \in 1 .. Len(list) :
    /\ left[list[i].timer] \in Int /\ ~Starts(ops, list[i].timer) =>
         left[list[i].timer] <= Due(list, Checked, i) - Elapsed
    /\ left[list[i].timer] = Off => Stops(ops, list[i].timer) \/ (i <= Checked /\ Period[list[i].timer] = 0)
    /\ list[i].timer \notin running => \/ i <= Checked \/ Stops(ops, list[i].timer)
                                       \/ call.pc = "queue" /\ list[i].timer \in call.timers
\* A timer that was started is in the list, and not called late.
LeftInv ==
  \A t \in Timer : left[t] \in Int /\ t \notin call.timers /\ ~Starts(ops, t) =>
    \E i \in 1 .. Len(list) : /\ list[i].timer = t /\ left[t] >= Due(list, Checked, i) - Elapsed - Latency
                              /\ t \in running \/ (i <= Checked /\ Period[t] # 0)

IInv == /\ Types /\ ListInv /\ HwInv /\ CheckInv /\ WaitInv /\ ArmedInv /\ SwiInv /\ CallInv
        /\ StartTime /\ StartFresh /\ StartLeft /\ StartSeen /\ StopInv /\ RunInv /\ DueInv /\ LeftInv

-----------------------------------------------------------------------------
(* What follows from it.                                                   *)

LEMMA OffIs == Off \notin Int
BY TimerAssumption

LEMMA Facts ==
  ASSUME IInv
  PROVE  /\ Elapsed \in Count /\ Len(list) \in Nat /\ Len(list) <= N
         /\ \A i \in 0 .. Len(list) : Until(list, i) \in Nat
         /\ Until(list, 0) = 0
         /\ \A i, j \in 0 .. Len(list) : i <= j => Until(list, i) <= Until(list, j)
         /\ Checked \in 0 .. Len(list)
         /\ Acquired => \A i \in 0 .. Len(list) : Until(list, i) <= Until(list, Checked) <=> i <= Checked
         /\ ~Acquired => Checked = 0
         /\ \A i \in 1 .. Len(list) : /\ Room(i) \in Nat /\ Room(i) >= Offset + Latency
                                      /\ Room(i) + Latency <= Late
<1>1. list \in Seq(Node) /\ hw.count \in Count /\ latest \in Count
  BY DEF IInv, Types
<1>2. Elapsed \in Count
  BY <1>1, DiffIs DEF Elapsed
<1>3. Len(list) \in Nat /\ Len(list) <= N
  BY <1>1, AtMostAll DEF IInv, ListInv
<1>4. /\ \A i \in 0 .. Len(list) : Until(list, i) \in Nat
      /\ Until(list, 0) = 0
  BY <1>1, UntilIs
<1>5. \A i, j \in 0 .. Len(list) : i <= j => Until(list, i) <= Until(list, j)
  BY <1>1, UntilGrows
<1>6. ReadIndex \in 0 .. 1 /\ passed.ticks[ReadIndex] \in Nat
  <2>1. passed.read = 0 \/ passed.read = 1
    BY DEF IInv, Types
  <2>2. ReadIndex \in 0 .. 1
    BY <2>1 DEF ReadIndex
  <2>3. passed.ticks \in [0 .. 1 -> Count]
    BY DEF IInv, Types
  <2> QED BY <2>2, <2>3, Constants DEF Count
<1>7. Checked \in 0 .. Len(list)
  <2>1. CountExpired(list, passed.ticks[ReadIndex]) \in 0 .. Len(list)
    BY <1>1, <1>6, CountIs
  <2> QED BY <2>1, <1>3 DEF Checked
<1>8. Acquired => \A i \in 0 .. Len(list) : Until(list, i) <= Until(list, Checked) <=> i <= Checked
  <2> SUFFICES ASSUME Acquired PROVE \A i \in 0 .. Len(list) : Until(list, i) <= Until(list, Checked) <=> i <= Checked
    OBVIOUS
  <2>1. Checked = CountExpired(list, passed.ticks[ReadIndex])
    BY DEF Checked
  <2>2. \A i \in 0 .. Len(list) : Until(list, i) <= passed.ticks[ReadIndex] <=> i <= Checked
    BY <1>1, <1>6, <2>1, CountIs
  <2>3. passed.ticks[ReadIndex] = Until(list, Checked)
    BY DEF IInv, CheckInv
  <2> QED BY <2>2, <2>3
<1>9. ~Acquired => Checked = 0
  BY DEF Checked
<1>10. \A i \in 1 .. Len(list) : /\ Room(i) \in Nat /\ Room(i) >= Offset + Latency
                                 /\ Room(i) + Latency <= Late
  <2> SUFFICES ASSUME NEW i \in 1 .. Len(list)
               PROVE  Room(i) \in Nat /\ Room(i) >= Offset + Latency /\ Room(i) + Latency <= Late
    OBVIOUS
  <2>1. i \in 1 .. N
    BY <1>3, Constants
  <2> QED BY <2>1, Rooms
<1> QED BY <1>2, <1>3, <1>4, <1>5, <1>7, <1>8, <1>9, <1>10

LEMMA CallsAre ==
  ASSUME IInv
  PROVE  \A j \in 1 .. Len(ops) :
           /\ ops[j].type \in {"START", "STOP", "STOP_ALL"}
           /\ ops[j].type = "START" => /\ ops[j].timer \in Timer /\ ops[j].at \in Count /\ ops[j].first \in Nat /\ ops[j].first >= 1
                                       /\ Diff(ops[j].at, latest) \in Nat
           /\ ops[j].type = "STOP" => ops[j].timer \in Timer /\ ops[j] = StopOp(ops[j].timer)
<1> SUFFICES ASSUME NEW j \in 1 .. Len(ops)
             PROVE  /\ ops[j].type \in {"START", "STOP", "STOP_ALL"}
                    /\ ops[j].type = "START" => /\ ops[j].timer \in Timer /\ ops[j].at \in Count
                                                /\ ops[j].first \in Nat /\ ops[j].first >= 1
                                                /\ Diff(ops[j].at, latest) \in Nat
                    /\ ops[j].type = "STOP" => ops[j].timer \in Timer /\ ops[j] = StopOp(ops[j].timer)
  OBVIOUS
<1>1. ops[j] \in QueuedCall /\ latest \in Count
  BY DEF IInv, Types
<1>2. CASE ops[j] \in StartCall
  <2>1. ops[j].type = "START" /\ ops[j].timer \in Timer /\ ops[j].at \in Count /\ ops[j].first \in Nat \ {0}
    BY <1>2 DEF StartCall
  <2> QED BY <2>1, <1>1, DiffIsNat
<1>3. CASE ops[j] \in StopCall
  <2>1. ops[j].type = "STOP" /\ ops[j].timer \in Timer /\ ops[j] = StopOp(ops[j].timer)
    BY <1>3 DEF StopCall, StopOp
  <2> QED BY <2>1
<1>4. CASE ops[j] \in [type : {"STOP_ALL"}]
  BY <1>4
<1> QED BY <1>1, <1>2, <1>3, <1>4 DEF QueuedCall

LEMMA SwiIs ==
  ASSUME IInv, swi.pc # "idle"
  PROVE  /\ swi.pre \in Count /\ swi.cc \in Count
         /\ Diff(swi.pre, latest) \in Nat /\ Diff(swi.cc, latest) \in Nat
<1>1. swi.pre \in Count /\ swi.cc \in Count /\ latest \in Count
  BY DEF IInv, Types, Idle
<1> QED BY <1>1, DiffIsNat

-----------------------------------------------------------------------------
(* The steps: time.                                                        *)

LEMMA InitHolds == Init => IInv
<1> SUFFICES ASSUME Init PROVE IInv
  OBVIOUS
<1>1. list = <<>> /\ ops = <<>> /\ Len(list) = 0 /\ Len(ops) = 0 /\ ~Acquired
  BY DEF Init, Acquired
<1>2. Types
  <2>1. 0 \in Count /\ 0 \in 0 .. Latency
    BY Constants, TimerAssumption DEF Count
  <2>2. list \in Seq(Node) /\ ops \in Seq(QueuedCall)
    BY <1>1
  <2> QED BY <2>1, <2>2 DEF Init, Types, Idle, NoCall
<1>3. ListInv /\ HwInv
  BY <1>1 DEF Init, ListInv, HwInv, Distinct
<1>4. CheckInv /\ WaitInv /\ ArmedInv /\ SwiInv /\ CallInv
  BY <1>1 DEF Init, CheckInv, WaitInv, ArmedInv, SwiInv, CallInv, Idle, NoCall
<1>5. StartTime /\ StartFresh /\ StartLeft /\ StartSeen /\ StopInv
  BY <1>1 DEF StartTime, StartFresh, StartLeft, StartSeen, StopInv
<1>6. RunInv /\ DueInv /\ LeftInv
  BY <1>1, OffIs DEF Init, RunInv, DueInv, LeftInv
<1> QED BY <1>2, <1>3, <1>4, <1>5, <1>6 DEF IInv

LEMMA TickKeeps == ASSUME IInv, Tick PROVE IInv'
<1>1. /\ list' = list /\ latest' = latest /\ running' = running /\ ops' = ops /\ passed' = passed
      /\ swi' = swi /\ caller' = caller
      /\ hw.on' = hw.on /\ hw.cc' = hw.cc
      /\ call'.pc = call.pc /\ call'.timers = call.timers /\ (call' = NoCall <=> call = NoCall)
      /\ pending \subseteq pending' /\ pending' \subseteq pending \cup {"timer"}
  BY DEF Tick, IInv, Types, NoCall
<1>2. Acquired' = Acquired /\ Checked' = Checked /\ HandlerWaits \in BOOLEAN
  BY <1>1 DEF Acquired, Checked, ReadIndex, HandlerWaits
<1>3. waited \in Nat /\ Latency \in Nat /\ Modulus \in Nat /\ Late \in Nat /\ Offset \in Nat /\ Offset >= 1 /\ Elapsed \in Nat
  <2>1. Elapsed \in Nat
    BY Facts, Constants DEF Count
  <2>2. waited \in Nat
    BY TimerAssumption DEF IInv, Types
  <2> QED BY <2>1, <2>2, Constants, TimerAssumption
<1>4. IF HandlerWaits THEN waited < Latency /\ waited' = waited + 1 ELSE waited' = 0
  BY DEF Tick
<1>5. Acquired \/ ops # <<>> \/ swi.pc # "idle" \/ "swi" \in pending => HandlerWaits
  BY DEF HandlerWaits, Enabled, IInv, CheckInv, WaitInv
<1>6. hw.on /\ ~HandlerWaits => /\ "timer" \notin pending /\ swi.pc = "idle" /\ ~Acquired
  BY <1>5 DEF HandlerWaits, Enabled
<1>7. \A i \in 1 .. Len(list) : Elapsed + 1 <= Until(list, i) + Room(i) + waited'
  <2> SUFFICES ASSUME NEW i \in 1 .. Len(list) PROVE Elapsed + 1 <= Until(list, i) + Room(i) + waited'
    OBVIOUS
  <2>1. Until(list, i) \in Nat /\ Room(i) \in Nat
    BY Facts
  <2>2. CASE HandlerWaits
    <3>1. Elapsed <= Until(list, i) + Room(i) + waited
      BY DEF IInv, WaitInv
    <3> QED BY <1>3, <1>4, <2>1, <2>2, <3>1
  <2>3. CASE ~HandlerWaits
    <3>1. hw.on
      BY DEF IInv, HwInv
    <3>2. Elapsed < Diff(hw.cc, latest) /\ Diff(hw.cc, latest) <= Until(list, i) + Room(i)
      BY <1>6, <2>3, <3>1 DEF IInv, ArmedInv, Reaches
    <3>3. Diff(hw.cc, latest) \in Nat
      BY DiffIs DEF IInv, Types, Count
    <3> QED BY <1>3, <1>4, <2>1, <2>3, <3>2, <3>3
  <2> QED BY <2>2, <2>3
<1>8. hw.on => Elapsed + 1 < Modulus
  <2> SUFFICES ASSUME hw.on PROVE Elapsed + 1 < Modulus
    OBVIOUS
  <2>1. 1 \in 1 .. Len(list)
    BY Facts DEF IInv, HwInv, Types
  <2>2. Until(list, 1) \in Nat /\ Room(1) \in Nat /\ Room(1) + Latency <= Late /\ Until(list, 1) + Late < Modulus
    BY <2>1, Facts DEF IInv, ListInv
  <2>3. waited' <= Latency /\ waited' \in Nat
    BY <1>3, <1>4
  <2> QED BY <1>3, <1>7, <2>1, <2>2, <2>3
<1>9. /\ hw.on => hw'.count = (hw.count + 1) % Modulus /\ Elapsed' = Elapsed + 1
      /\ ~hw.on => hw'.count = hw.count /\ Elapsed' = Elapsed
      /\ hw'.count \in Count
  <2>1. hw.count \in Count /\ latest \in Count /\ hw'.count = IF hw.on THEN (hw.count + 1) % Modulus ELSE hw.count
    BY DEF Tick, IInv, Types
  <2>2. hw.on => (hw.count + 1) % Modulus \in Count /\ Diff((hw.count + 1) % Modulus, latest) = Elapsed + 1
    BY <1>8, <2>1, DiffSteps DEF Elapsed
  <2> QED BY <1>1, <2>1, <2>2 DEF Elapsed
<1>10. waited' \in 0 .. Latency /\ Elapsed <= Elapsed' /\ Elapsed' <= Elapsed + 1 /\ Elapsed' \in Nat
  BY <1>3, <1>4, <1>9
<1>11. left' = [t \in Timer |-> IF left[t] = Off THEN Off ELSE left[t] - 1]
  BY DEF Tick
<1>12. Types'
  <2>1. hw' \in [count : Count, cc : Count, on : BOOLEAN] /\ pending' \in SUBSET {"timer", "swi"}
    BY <1>9 DEF Tick, IInv, Types
  <2>2. call' \in [pc : {"idle", "queue", "return"}, timers : SUBSET Timer, age : Nat]
    <3>1. call' = IF call = NoCall THEN NoCall ELSE [call EXCEPT !.age = @ + 1]
      BY DEF Tick
    <3>2. call \in [pc : {"idle", "queue", "return"}, timers : SUBSET Timer, age : Nat]
      BY DEF IInv, Types
    <3>3. call.age + 1 \in Nat
      BY <3>2
    <3>4. [call EXCEPT !.age = @ + 1] \in [pc : {"idle", "queue", "return"}, timers : SUBSET Timer, age : Nat]
      BY <3>2, <3>3
    <3> QED BY <3>1, <3>2, <3>4
  <2>3. left' \in [Timer -> Int \cup {Off}]
    BY <1>11 DEF IInv, Types
  <2> QED BY <1>1, <1>10, <2>1, <2>2, <2>3 DEF IInv, Types
<1>13. ListInv'
  BY <1>1 DEF IInv, ListInv
<1>14. HwInv'
  BY <1>1, <1>2, <1>9 DEF IInv, HwInv
<1>15. CheckInv'
  <2> SUFFICES ASSUME Acquired PROVE CheckInv'
    BY <1>2 DEF CheckInv
  <2>1. "swi" \in pending' /\ swi' = Idle /\ passed'.ticks[ReadIndex'] = Until(list', Checked') /\ Until(list, Checked) <= Elapsed
    BY <1>1, <1>2 DEF IInv, CheckInv, ReadIndex
  <2>2. Until(list', Checked') <= Elapsed'
    BY <2>1, <1>1, <1>2, <1>3, <1>10, Facts
  <2>3. waited' = waited + 1
    BY <1>4, <1>5
  <2>4. ASSUME NEW i \in 1 .. Len(list)
        PROVE  IF i <= Checked THEN list[i].timer \notin running ELSE Elapsed' <= Until(list, i) - 1 + waited'
    <3>1. IF i <= Checked THEN list[i].timer \notin running ELSE Elapsed <= Until(list, i) - 1 + waited
      BY DEF IInv, CheckInv
    <3>2. Until(list, i) \in Nat
      BY Facts
    <3> QED BY <3>1, <3>2, <2>3, <1>3, <1>10
  <2> QED BY <2>1, <2>2, <2>4, <1>1, <1>2 DEF CheckInv
<1>16. WaitInv'
  <2>1. \A i \in 1 .. Len(list) : Elapsed' <= Until(list, i) + Room(i) + waited'
    <3> SUFFICES ASSUME NEW i \in 1 .. Len(list) PROVE Elapsed' <= Until(list, i) + Room(i) + waited'
      OBVIOUS
    <3>1. Elapsed + 1 <= Until(list, i) + Room(i) + waited' /\ Until(list, i) \in Nat /\ Room(i) \in Nat
      BY <1>7, Facts
    <3> QED BY <3>1, <1>3, <1>10
  <2>2. ops' # <<>> => "swi" \in pending' /\ swi' = Idle
    BY <1>1 DEF IInv, WaitInv
  <2> QED BY <1>1, <2>1, <2>2 DEF WaitInv
<1>17. ArmedInv'
  <2> SUFFICES ASSUME hw.on, "timer" \notin pending', swi.pc = "idle", ~Acquired
               PROVE  Elapsed' < Diff(hw.cc, latest) /\ Reaches(list, Diff(hw.cc, latest), Elapsed')
    BY <1>1, <1>2 DEF ArmedInv
  <2>1. Elapsed < Diff(hw.cc, latest) /\ Reaches(list, Diff(hw.cc, latest), Elapsed)
    BY <1>1 DEF IInv, ArmedInv
  <2>2. hw'.count # hw.cc
    BY <1>9 DEF Tick
  <2>3. hw.cc \in Count /\ latest \in Count
    BY DEF IInv, Types
  <2>4. Elapsed' # Diff(hw.cc, latest) /\ Diff(hw.cc, latest) \in Nat
    <3>1. Elapsed' = Diff(hw'.count, latest) /\ hw'.count \in Count
      BY <1>1, <1>9 DEF Elapsed
    <3> QED BY <3>1, <2>2, <2>3, DiffDiffers, DiffIsNat
  <2>5. Reaches(list, Diff(hw.cc, latest), Elapsed')
    BY <2>1, <2>4, <1>3, <1>10 DEF Reaches
  <2> QED BY <2>1, <2>4, <2>5, <1>3, <1>9
<1>18. SwiInv'
  <2> SUFFICES ASSUME swi.pc # "idle", "timer" \notin pending
               PROVE  Diff(swi.pre, latest) <= Elapsed'
    BY <1>1 DEF IInv, SwiInv
  <2>1. Diff(swi.pre, latest) <= Elapsed /\ Diff(swi.pre, latest) \in Nat
    BY SwiIs DEF IInv, SwiInv
  <2> QED BY <2>1, <1>3, <1>10
<1>19. CallInv'
  BY <1>1 DEF IInv, CallInv
<1>20. ASSUME ops # <<>> PROVE waited' = waited + 1
  BY <1>4, <1>5, <1>20
<1>21. StartTime'
  <2> SUFFICES ASSUME NEW j \in 1 .. Len(ops), ops[j].type = "START"
               PROVE  Diff(ops[j].at, latest) <= Elapsed' /\ Elapsed' - Diff(ops[j].at, latest) <= waited'
    BY <1>1 DEF IInv, StartTime
  <2>1. Diff(ops[j].at, latest) <= Elapsed /\ Elapsed - Diff(ops[j].at, latest) <= waited
    BY DEF IInv, StartTime
  <2>2. Diff(ops[j].at, latest) \in Nat
    BY CallsAre
  <2> QED BY <2>1, <2>2, <1>3, <1>10, <1>20
<1>22. StartFresh' /\ StartSeen'
  BY <1>1, <1>2 DEF IInv, StartFresh, StartSeen
<1>23. \A t \in Timer : /\ left'[t] = Off <=> left[t] = Off
                        /\ left'[t] \in Int <=> left[t] \in Int
                        /\ left[t] \in Int => left'[t] = left[t] - 1
  BY <1>11, OffIs DEF IInv, Types
<1>24. StartLeft'
  <2> SUFFICES ASSUME NEW j \in 1 .. Len(ops), ops[j].type = "START", \A k \in j + 1 .. Len(ops) : ~IsStop(ops[k], ops[j].timer)
               PROVE  /\ left'[ops[j].timer] \in Int
                      /\ ops[j].first - left'[ops[j].timer] <= waited'
                      /\ ops[j].first - left'[ops[j].timer] >= Elapsed' - Diff(ops[j].at, latest)
    BY <1>1 DEF StartLeft
  <2>1. /\ left[ops[j].timer] \in Int
        /\ ops[j].first - left[ops[j].timer] <= waited
        /\ ops[j].first - left[ops[j].timer] >= Elapsed - Diff(ops[j].at, latest)
    BY DEF IInv, StartLeft
  <2>2. ops[j].timer \in Timer /\ ops[j].first \in Nat /\ Diff(ops[j].at, latest) \in Nat
    BY CallsAre
  <2>3. left'[ops[j].timer] = left[ops[j].timer] - 1
    BY <2>1, <2>2, <1>23
  <2>4. waited' = waited + 1
    BY <1>20
  <2> DEFINE a == left[ops[j].timer]
             b == left'[ops[j].timer]
             f == ops[j].first
             x == Diff(ops[j].at, latest)
             e == Elapsed
             g == Elapsed'
  <2>5. /\ a \in Int /\ b = a - 1 /\ f \in Nat /\ x \in Nat /\ e \in Nat /\ g \in Nat /\ g <= e + 1
        /\ f - a <= waited /\ f - a >= e - x
    BY <2>1, <2>2, <2>3, <1>3, <1>10
  <2> HIDE DEF a, b, f, x, e, g
  <2>6. b \in Int /\ f - b <= waited' /\ f - b >= g - x
    BY <2>4, <2>5, <1>3
  <2> QED BY <2>6 DEF b, f, x, g
<1>25. StopInv'
  BY <1>1, <1>23 DEF IInv, StopInv
<1>26. RunInv'
  BY <1>1, <1>2, <1>23 DEF IInv, RunInv, Types
<1>27. \A i \in 1 .. Len(list) : list[i].timer \in Timer /\ Due(list, Checked, i) \in Nat /\ Elapsed' = Elapsed + 1
  <2> SUFFICES ASSUME NEW i \in 1 .. Len(list) PROVE list[i].timer \in Timer /\ Due(list, Checked, i) \in Nat /\ Elapsed' = Elapsed + 1
    OBVIOUS
  <2>1. list[i].timer \in Timer /\ hw.on
    BY NodesAre DEF IInv, Types, HwInv
  <2>2. Period[list[i].timer] \in Nat
    BY <2>1, TimerAssumption
  <2> QED BY SMTT(30), <2>1, <2>2, <1>9, Facts DEF Due
<1>28. DueInv'
  <2> SUFFICES ASSUME NEW i \in 1 .. Len(list)
               PROVE  /\ left'[list[i].timer] \in Int /\ ~Starts(ops, list[i].timer) =>
                           left'[list[i].timer] <= Due(list, Checked, i) - Elapsed'
                      /\ left'[list[i].timer] = Off => Stops(ops, list[i].timer) \/ (i <= Checked /\ Period[list[i].timer] = 0)
                      /\ list[i].timer \notin running => \/ i <= Checked \/ Stops(ops, list[i].timer)
                                                         \/ call.pc = "queue" /\ list[i].timer \in call.timers
    BY <1>1, <1>2 DEF DueInv
  <2>1. /\ left[list[i].timer] \in Int /\ ~Starts(ops, list[i].timer) =>
             left[list[i].timer] <= Due(list, Checked, i) - Elapsed
        /\ left[list[i].timer] = Off => Stops(ops, list[i].timer) \/ (i <= Checked /\ Period[list[i].timer] = 0)
        /\ list[i].timer \notin running => \/ i <= Checked \/ Stops(ops, list[i].timer)
                                           \/ call.pc = "queue" /\ list[i].timer \in call.timers
    BY DEF IInv, DueInv
  <2> QED BY <2>1, <1>3, <1>23, <1>27
<1>29. LeftInv'
  <2> SUFFICES ASSUME NEW t \in Timer, left'[t] \in Int, t \notin call.timers, ~Starts(ops, t)
               PROVE  \E i \in 1 .. Len(list) :
                        /\ list[i].timer = t /\ left'[t] >= Due(list, Checked, i) - Elapsed' - Latency
                        /\ t \in running \/ (i <= Checked /\ Period[t] # 0)
    BY <1>1, <1>2 DEF LeftInv
  <2>1. PICK i \in 1 .. Len(list) : /\ list[i].timer = t /\ left[t] >= Due(list, Checked, i) - Elapsed - Latency
                                    /\ t \in running \/ (i <= Checked /\ Period[t] # 0)
    BY <1>23 DEF IInv, LeftInv
  <2>2. left'[t] >= Due(list, Checked, i) - Elapsed' - Latency
    BY <2>1, <1>3, <1>23, <1>27
  <2> QED BY <2>1, <2>2
<1> QED BY <1>12, <1>13, <1>14, <1>15, <1>16, <1>17, <1>18, <1>19, <1>21, <1>22, <1>24, <1>25, <1>26, <1>28, <1>29 DEF IInv

LEMMA TimerIrqKeeps == ASSUME IInv, TimerIrq PROVE IInv'
<1> DEFINE n == CountExpired(list, Elapsed)
           expired == Timers(SubSeq(list, 1, n))
<1>1. hw.on /\ list # <<>> /\ "timer" \in pending /\ swi.pc = "idle" /\ swi = Idle
  BY DEF TimerIrq, Enabled, IInv, HwInv, Types
<1>2. /\ hw' = hw /\ latest' = latest /\ list' = list /\ ops' = ops /\ swi' = swi /\ call' = call
      /\ caller' = caller /\ waited' = waited
      /\ running' = running \ expired
      /\ passed' = [passed EXCEPT !.write = WriteIndex, !.ticks[WriteIndex] = Until(list, n)]
      /\ pending' = (pending \ {"timer"}) \cup {"swi"}
      /\ left' = [t \in Timer |-> IF t \notin Called(expired) THEN left[t]
                                  ELSE IF Period[t] = 0 THEN Off ELSE left[t] + Period[t]]
  BY <1>1 DEF TimerIrq, Elapsed
<1>3. /\ list \in Seq(Node) /\ Len(list) \in Nat /\ Elapsed \in Nat /\ Elapsed < Modulus /\ Modulus \in Nat
      /\ \A i \in 0 .. Len(list) : Until(list, i) \in Nat
  BY Facts, Constants DEF IInv, Types, Count
<1>4. n \in 0 .. Len(list) /\ \A i \in 0 .. Len(list) : Until(list, i) <= Elapsed <=> i <= n
  BY <1>3, CountIs
<1>5. Elapsed' = Elapsed
  BY <1>2 DEF Elapsed
<1>6. \A i \in 1 .. Len(list) : list[i].timer \in Timer /\ (list[i].timer \in expired <=> i <= n)
  <2> SUFFICES ASSUME NEW i \in 1 .. Len(list) PROVE list[i].timer \in Timer /\ (list[i].timer \in expired <=> i <= n)
    OBVIOUS
  <2>1. list[i].timer \in Timer
    BY <1>3, NodesAre
  <2>2. expired = {list[k].timer : k \in 1 .. n}
    <3>1. Len(SubSeq(list, 1, n)) = n /\ \A k \in 1 .. n : SubSeq(list, 1, n)[k] = list[k]
      BY <1>3, <1>4
    <3> QED BY <3>1 DEF Timers
  <2>3. \A k \in 1 .. n : k \in 1 .. Len(list) /\ (list[k].timer = list[i].timer => k = i)
    BY <1>3, <1>4 DEF IInv, ListInv, Distinct
  <2>4. i \in 1 .. n <=> i <= n
    BY <1>3, <1>4
  <2> HIDE DEF n, expired
  <2>5. list[i].timer \in expired <=> i \in 1 .. n
    BY <2>2, <2>3
  <2> QED BY <2>1, <2>4, <2>5
<1> HIDE DEF n, expired
<1>7. /\ passed' \in [ticks : [0 .. 1 -> Count], read : 0 .. 1, write : 0 .. 1]
      /\ passed'.read # passed'.write /\ passed'.ticks[ReadIndex'] = Until(list, n)
  <2>1. passed \in [ticks : [0 .. 1 -> Count], read : 0 .. 1, write : 0 .. 1]
    BY DEF IInv, Types
  <2>2. passed.read \in {0, 1} /\ passed.write \in {0, 1}
    BY <2>1
  <2>3. WriteIndex \in 0 .. 1 /\ WriteIndex # passed.read /\ WriteIndex = (passed.read + 1) % 2
    BY <2>2 DEF WriteIndex, NewSlot
  <2>4. Until(list, n) \in Count
    BY <1>3, <1>4 DEF Count
  <2>5. passed'.read = passed.read /\ passed'.write = WriteIndex /\ passed'.ticks = [passed.ticks EXCEPT ![WriteIndex] = Until(list, n)]
    BY <1>2, <2>1
  <2>6. passed' \in [ticks : [0 .. 1 -> Count], read : 0 .. 1, write : 0 .. 1]
    BY <1>2, <2>1, <2>3, <2>4
  <2>7. ReadIndex' = WriteIndex
    BY <2>3, <2>5 DEF ReadIndex
  <2>8. passed.ticks \in [0 .. 1 -> Count]
    BY <2>1
  <2> QED BY <2>3, <2>5, <2>6, <2>7, <2>8
<1>8. Acquired' /\ Checked' = n
  <2>1. Acquired'
    BY <1>7 DEF Acquired
  <2>2. Checked' = CountExpired(list, Until(list, n))
    BY <2>1, <1>2, <1>7 DEF Checked
  <2>3. /\ CountExpired(list, Until(list, n)) \in 0 .. Len(list)
        /\ \A i \in 0 .. Len(list) : Until(list, i) <= Until(list, n) <=> i <= CountExpired(list, Until(list, n))
    BY <1>3, <1>4, CountIs
  <2> DEFINE c == CountExpired(list, Until(list, n))
  <2> HIDE DEF c
  <2>4. c \in 0 .. Len(list) /\ \A i \in 0 .. Len(list) : Until(list, i) <= Until(list, n) <=> i <= c
    BY <2>3 DEF c
  <2>5. n <= c
    BY <2>4, <1>3, <1>4
  <2>6. Until(list, c) <= Until(list, n) /\ Until(list, n) <= Elapsed /\ Until(list, c) \in Nat /\ Until(list, n) \in Nat
    BY <2>4, <1>3, <1>4
  <2>7. Until(list, c) <= Elapsed
    BY <2>6, <1>3
  <2>8. c <= n
    BY <2>4, <2>7, <1>4
  <2>9. c = n
    BY <2>4, <2>5, <2>8, <1>4, <1>3
  <2> QED BY <2>1, <2>2, <2>9 DEF c
<1>9. Checked \in 0 .. Len(list) /\ Checked <= n
  <2>1. Checked \in 0 .. Len(list)
    BY Facts
  <2>2. Acquired => Until(list, Checked) <= Elapsed
    BY DEF IInv, CheckInv
  <2>3. ~Acquired => Checked = 0
    BY Facts
  <2> QED BY <2>1, <2>2, <2>3, <1>4, <1>3
<1>10. \A t \in Called(expired) : t \in running /\ t \in Timer /\ left[t] \in Int /\ \E i \in Checked + 1 .. n : i \in 1 .. Len(list) /\ list[i].timer = t
  <2> SUFFICES ASSUME NEW t \in Called(expired)
               PROVE  t \in running /\ t \in Timer /\ left[t] \in Int /\ \E i \in Checked + 1 .. n : i \in 1 .. Len(list) /\ list[i].timer = t
    OBVIOUS
  <2>1. t \in running /\ t \in expired /\ t \in Timer
    BY DEF Called, IInv, Types
  <2>2. left[t] \in Int
    BY <2>1 DEF IInv, RunInv
  <2>3. PICK i \in Checked + 1 .. Len(list) : list[i].timer = t
    BY <2>1 DEF IInv, RunInv
  <2>4. i \in 1 .. Len(list)
    BY <1>9, <1>3
  <2>5. i <= n
    BY <2>1, <2>3, <2>4, <1>6
  <2> QED BY <2>1, <2>2, <2>3, <2>4, <2>5, <1>9
<1>11. \A t \in Timer : /\ t \notin Called(expired) => left'[t] = left[t]
                        /\ t \in Called(expired) => left'[t] = IF Period[t] = 0 THEN Off ELSE left[t] + Period[t]
                        /\ Period[t] \in Nat
  BY <1>2, TimerAssumption
<1>12. Types'
  <2>1. left' \in [Timer -> Int \cup {Off}]
    <3>1. \A t \in Timer : (IF t \notin Called(expired) THEN left[t] ELSE IF Period[t] = 0 THEN Off ELSE left[t] + Period[t]) \in Int \cup {Off}
      BY <1>10, <1>11 DEF IInv, Types
    <3> QED BY <1>2, <3>1
  <2>2. running' \in SUBSET Timer /\ pending' \in SUBSET {"timer", "swi"}
    BY <1>2 DEF IInv, Types
  <2> QED BY <1>2, <1>7, <2>1, <2>2 DEF IInv, Types
<1>13. ListInv' /\ HwInv'
  BY <1>1, <1>2 DEF IInv, ListInv, HwInv
<1>14. CheckInv'
  <2>1. "swi" \in pending' /\ swi' = Idle /\ passed'.ticks[ReadIndex'] = Until(list', Checked') /\ Until(list', Checked') <= Elapsed'
    BY <1>1, <1>2, <1>4, <1>5, <1>7, <1>8
  <2>2. ASSUME NEW i \in 1 .. Len(list)
        PROVE  IF i <= n THEN list[i].timer \notin running' ELSE Elapsed <= Until(list, i) - 1 + waited
    <3>1. CASE i <= n
      BY <3>1, <1>2, <1>6
    <3>2. CASE ~(i <= n)
      <4>1. ~(Until(list, i) <= Elapsed) /\ Until(list, i) \in Nat
        BY <3>2, <1>3, <1>4
      <4>2. waited \in Nat
        BY TimerAssumption DEF IInv, Types
      <4> QED BY <3>2, <4>1, <4>2, <1>3
    <3> QED BY <3>1, <3>2
  <2> QED BY <2>1, <2>2, <1>2, <1>5, <1>8 DEF CheckInv
<1>15. WaitInv'
  BY <1>1, <1>2, <1>5 DEF IInv, WaitInv
<1>16. ArmedInv' /\ SwiInv'
  BY <1>1, <1>2, <1>8 DEF ArmedInv, SwiInv
<1>17. CallInv'
  BY <1>2 DEF IInv, CallInv
<1>18. StartTime' /\ StartSeen'
  BY <1>2, <1>5 DEF IInv, StartTime, StartSeen
<1>19. StartFresh'
  <2>1. ASSUME NEW i \in 1 .. Len(list), i <= Checked PROVE i <= n
    BY <2>1, <1>3, <1>4, <1>9
  <2> QED BY <1>2, <1>8, <2>1 DEF IInv, StartFresh
<1>20. StartLeft'
  <2> SUFFICES ASSUME NEW j \in 1 .. Len(ops), ops[j].type = "START" PROVE left'[ops[j].timer] = left[ops[j].timer]
    BY <1>2, <1>5 DEF IInv, StartLeft
  <2>1. ops[j].timer \in Timer /\ ops[j].timer \notin running
    BY CallsAre DEF IInv, StartFresh
  <2> QED BY <2>1, <1>10, <1>11
<1>21. StopInv'
  <2>1. \A t \in Timer : left[t] = Off => left'[t] = Off
    BY <1>10, <1>11, OffIs
  <2> QED BY <1>2, <2>1 DEF IInv, StopInv
<1>22. RunInv'
  <2> SUFFICES ASSUME NEW t \in running' PROVE left'[t] \in Int /\ \E i \in n + 1 .. Len(list) : list[i].timer = t
    BY <1>2, <1>8 DEF RunInv
  <2>1. t \in running /\ t \in Timer /\ t \notin expired
    BY <1>2 DEF IInv, Types
  <2>2. left'[t] = left[t]
    BY <2>1, <1>11 DEF Called
  <2>3. left[t] \in Int /\ \E i \in Checked + 1 .. Len(list) : list[i].timer = t
    BY <2>1 DEF IInv, RunInv
  <2>4. PICK i \in Checked + 1 .. Len(list) : list[i].timer = t
    BY <2>3
  <2>5. i \in 1 .. Len(list) /\ i \in Int
    BY <1>9, <1>3
  <2>6. ~(i <= n)
    BY <2>1, <2>4, <2>5, <1>6
  <2>7. i \in n + 1 .. Len(list)
    BY <2>5, <2>6, <1>3, <1>4
  <2> QED BY <2>2, <2>3, <2>4, <2>7
<1>23. ASSUME NEW i \in 1 .. Len(list)
       PROVE  Due(list, Checked, i) \in Nat /\ Due(list, n, i) \in Nat /\ Due(list, Checked, i) <= Due(list, n, i)
  <2>1. Period[list[i].timer] \in Nat /\ Until(list, i) \in Nat
    BY <1>3, <1>6, <1>11
  <2>2. i <= Checked => i <= n
    BY <1>3, <1>4, <1>9
  <2> QED BY <2>1, <2>2 DEF Due
<1>24. DueInv'
  <2> SUFFICES ASSUME NEW i \in 1 .. Len(list)
               PROVE  /\ left'[list[i].timer] \in Int /\ ~Starts(ops, list[i].timer) =>
                           left'[list[i].timer] <= Due(list, n, i) - Elapsed
                      /\ left'[list[i].timer] = Off => Stops(ops, list[i].timer) \/ (i <= n /\ Period[list[i].timer] = 0)
                      /\ list[i].timer \notin running' => \/ i <= n \/ Stops(ops, list[i].timer)
                                                          \/ call.pc = "queue" /\ list[i].timer \in call.timers
    BY <1>2, <1>5, <1>8 DEF DueInv
  <2> DEFINE t == list[i].timer
  <2>0. t \in Timer /\ (t \in expired <=> i <= n) /\ (i <= Checked => i <= n)
    BY <1>3, <1>4, <1>6, <1>9
  <2>1. /\ left[t] \in Int /\ ~Starts(ops, t) => left[t] <= Due(list, Checked, i) - Elapsed
        /\ left[t] = Off => Stops(ops, t) \/ (i <= Checked /\ Period[t] = 0)
        /\ t \notin running => \/ i <= Checked \/ Stops(ops, t)
                               \/ call.pc = "queue" /\ t \in call.timers
    BY DEF IInv, DueInv
  <2>2. left'[t] \in Int /\ ~Starts(ops, t) => left'[t] <= Due(list, n, i) - Elapsed
    <3> SUFFICES ASSUME left'[t] \in Int, ~Starts(ops, t) PROVE left'[t] <= Due(list, n, i) - Elapsed
      OBVIOUS
    <3>1. CASE t \in Called(expired)
      <4>1. left[t] \in Int /\ i <= n /\ Period[t] # 0 /\ left'[t] = left[t] + Period[t] /\ Period[t] \in Nat
        BY <3>1, <2>0, <1>10, <1>11, OffIs DEF Called
      <4>2. i > Checked
        <5>1. PICK k \in Checked + 1 .. n : k \in 1 .. Len(list) /\ list[k].timer = t
          BY <3>1, <1>10
        <5>2. k = i
          BY <5>1 DEF IInv, ListInv, Distinct
        <5> QED BY <5>1, <5>2, <1>9, <1>4
      <4>3. Due(list, Checked, i) = Until(list, i) /\ Due(list, n, i) = Until(list, i) + Period[t] /\ Until(list, i) \in Nat
        BY <4>1, <4>2, <1>3, <1>4, <1>9 DEF Due
      <4> QED BY <2>1, <4>1, <4>3, <1>3
    <3>2. CASE t \notin Called(expired)
      <4>1. left'[t] = left[t]
        BY <3>2, <2>0, <1>11
      <4> QED BY <2>1, <4>1, <1>3, <1>23
    <3> QED BY <3>1, <3>2
  <2>3. left'[t] = Off => Stops(ops, t) \/ (i <= n /\ Period[t] = 0)
    <3>1. CASE t \in Called(expired)
      <4>1. i <= n /\ left[t] \in Int /\ Period[t] \in Nat
        BY <3>1, <2>0, <1>10, <1>11 DEF Called
      <4>2. left[t] + Period[t] # Off
        BY <4>1, OffIs
      <4> QED BY <3>1, <2>0, <4>1, <4>2, <1>11
    <3>2. CASE t \notin Called(expired)
      BY <3>2, <2>0, <2>1, <1>11
    <3> QED BY <3>1, <3>2
  <2>4. t \notin running' => \/ i <= n \/ Stops(ops, t)
                             \/ call.pc = "queue" /\ t \in call.timers
    BY <2>0, <2>1, <1>2
  <2> QED BY <2>2, <2>3, <2>4
<1>25. LeftInv'
  <2> SUFFICES ASSUME NEW t \in Timer, left'[t] \in Int, t \notin call.timers, ~Starts(ops, t)
               PROVE  \E i \in 1 .. Len(list) :
                        /\ list[i].timer = t /\ left'[t] >= Due(list, n, i) - Elapsed - Latency
                        /\ t \in running' \/ (i <= n /\ Period[t] # 0)
    BY <1>2, <1>5, <1>8 DEF LeftInv
  <2>0. Latency \in Nat
    BY TimerAssumption
  <2>1. left[t] \in Int
    BY <1>10, <1>11
  <2>2. PICK i \in 1 .. Len(list) : /\ list[i].timer = t /\ left[t] >= Due(list, Checked, i) - Elapsed - Latency
                                    /\ t \in running \/ (i <= Checked /\ Period[t] # 0)
    BY <2>1 DEF IInv, LeftInv
  <2>3. (t \in expired <=> i <= n) /\ (i <= Checked => i <= n)
    BY <2>2, <1>3, <1>4, <1>6, <1>9
  <2>4. t \in running => i > Checked
    <3> SUFFICES ASSUME t \in running PROVE i > Checked
      OBVIOUS
    <3>1. PICK k \in Checked + 1 .. Len(list) : list[k].timer = t
      BY DEF IInv, RunInv
    <3>2. k \in 1 .. Len(list)
      BY <1>9, <1>3
    <3>3. k = i
      BY <2>2, <3>1, <3>2 DEF IInv, ListInv, Distinct
    <3> QED BY <3>1, <3>3, <1>9
  <2>5. CASE t \in Called(expired)
    <3>1. i <= n /\ Period[t] # 0 /\ left'[t] = left[t] + Period[t] /\ Period[t] \in Nat /\ i > Checked
      BY <2>3, <2>4, <2>5, <1>10, <1>11, OffIs DEF Called
    <3>2. Due(list, Checked, i) = Until(list, i) /\ Due(list, n, i) = Until(list, i) + Period[t] /\ Until(list, i) \in Nat
      BY <2>2, <3>1, <1>3, <1>4, <1>9 DEF Due
    <3>3. left'[t] >= Due(list, n, i) - Elapsed - Latency
      <4> DEFINE a == left[t]
                 b == left'[t]
                 u == Until(list, i)
                 p == Period[t]
                 e == Elapsed
      <4>1. a \in Int /\ u \in Nat /\ p \in Nat /\ e \in Nat /\ b = a + p /\ a >= u - e - Latency
        BY <2>1, <2>2, <3>1, <3>2, <1>3
      <4> HIDE DEF a, b, u, p, e
      <4>2. b >= (u + p) - e - Latency
        BY <2>0, <4>1
      <4> QED BY <4>2, <3>2 DEF b, u, p, e
    <3> QED BY <2>2, <3>1, <3>3
  <2>6. CASE t \notin Called(expired)
    <3>1. left'[t] = left[t]
      BY <2>6, <1>11
    <3>2. CASE t \in running
      <4>1. t \notin expired /\ t \in running'
        BY <2>6, <3>2, <1>2 DEF Called
      <4>2. ~(i <= n)
        BY <4>1, <2>3
      <4>3. Due(list, n, i) = Due(list, Checked, i)
        BY <4>2, <2>3 DEF Due
      <4> QED BY <2>2, <3>1, <4>1, <4>3
    <3>3. CASE t \notin running
      <4>1. i <= Checked /\ i <= n /\ Period[t] # 0
        BY <2>2, <2>3, <3>3
      <4>2. Due(list, n, i) = Due(list, Checked, i)
        BY <4>1 DEF Due
      <4> QED BY <2>2, <3>1, <4>1, <4>2
    <3> QED BY <3>2, <3>3
  <2> QED BY <2>5, <2>6
<1> QED BY <1>12, <1>13, <1>14, <1>15, <1>16, <1>17, <1>18, <1>19, <1>20, <1>21, <1>22, <1>24, <1>25 DEF IInv

-----------------------------------------------------------------------------
(* The steps: the compare register.                                        *)

\* What does not look at the compare register.
LEMMA RegisterFrame ==
  ASSUME IInv, UNCHANGED <<latest, list, running, ops, passed, call, caller, waited, left>>,
         hw'.on = hw.on, hw'.count = hw.count, swi.pc # "idle"
  PROVE  /\ Elapsed' = Elapsed /\ ~Acquired /\ ~Acquired' /\ Checked' = Checked /\ ops = <<>> /\ hw.on /\ "swi" \notin pending
         /\ ListInv' /\ HwInv' /\ CheckInv' /\ CallInv' /\ StartTime' /\ StartFresh' /\ StartLeft' /\ StartSeen'
         /\ StopInv' /\ RunInv' /\ DueInv' /\ LeftInv' /\ WaitInv'
<1>1. Elapsed' = Elapsed
  BY DEF Elapsed
<1>2. swi # Idle
  BY DEF Idle
<1>3. ~Acquired /\ ops = <<>> /\ hw.on /\ "swi" \notin pending
  BY <1>2 DEF IInv, CheckInv, WaitInv, SwiInv
<1>4. ~Acquired' /\ Checked' = Checked
  BY <1>3 DEF Acquired, Checked
<1>5. ListInv' /\ HwInv' /\ CheckInv' /\ CallInv'
  BY <1>3, <1>4 DEF IInv, ListInv, HwInv, CheckInv, CallInv
<1>6. StartTime' /\ StartFresh' /\ StartLeft' /\ StartSeen'
  BY <1>1, <1>4 DEF IInv, StartTime, StartFresh, StartLeft, StartSeen
<1>7. StopInv' /\ RunInv' /\ DueInv' /\ LeftInv' /\ WaitInv'
  BY <1>1, <1>3, <1>4 DEF IInv, StopInv, RunInv, DueInv, LeftInv, WaitInv
<1> QED BY <1>1, <1>3, <1>4, <1>5, <1>6, <1>7

LEMMA WriteCompareKeeps == ASSUME IInv, WriteCompare PROVE IInv'
<1>1. swi.pc # "idle" /\ hw' = [hw EXCEPT !.cc = swi.cc] /\ swi' = [swi EXCEPT !.pc = "verify"] /\ pending' = pending
      /\ UNCHANGED <<latest, list, running, ops, passed, call, caller, waited, left>>
  BY DEF WriteCompare
<1>2. swi \in [pc : {"write", "verify"}, pre : Count, cc : Count] /\ hw \in [count : Count, cc : Count, on : BOOLEAN]
  BY <1>1 DEF IInv, Types, Idle
<1>3. /\ hw'.on = hw.on /\ hw'.count = hw.count /\ hw'.cc = swi.cc /\ hw' \in [count : Count, cc : Count, on : BOOLEAN]
      /\ swi'.pc = "verify" /\ swi'.pre = swi.pre /\ swi'.cc = swi.cc /\ swi' \in [pc : {"write", "verify"}, pre : Count, cc : Count]
  BY <1>1, <1>2
<1>4. Types'
  BY <1>1, <1>3 DEF IInv, Types
<1>5. Elapsed' = Elapsed
  BY <1>1, <1>3, RegisterFrame
<1>6. SwiInv'
  BY <1>1, <1>3, <1>5 DEF IInv, SwiInv
<1>7. ArmedInv'
  BY <1>3 DEF ArmedInv
<1>8. /\ ListInv' /\ HwInv' /\ CheckInv' /\ CallInv' /\ StartTime' /\ StartFresh' /\ StartLeft' /\ StartSeen'
      /\ StopInv' /\ RunInv' /\ DueInv' /\ LeftInv' /\ WaitInv'
  BY <1>1, <1>3, RegisterFrame
<1> QED BY <1>4, <1>6, <1>7, <1>8 DEF IInv

\* If the counter was not too close, it has not reached the value that was written.
LEMMA VerifyCompareKeeps == ASSUME IInv, VerifyCompare PROVE IInv'
<1>1. swi.pc = "verify" /\ swi' = Idle
      /\ UNCHANGED <<latest, list, running, ops, passed, call, caller, waited, left>>
      /\ IF TooClose THEN hw' = [hw EXCEPT !.cc = hw.count] /\ pending' = pending \cup {"timer"}
                     ELSE hw' = hw /\ pending' = pending
  BY DEF VerifyCompare
<1>2. hw \in [count : Count, cc : Count, on : BOOLEAN] /\ latest \in Count
  BY DEF IInv, Types
<1>3. /\ hw'.on = hw.on /\ hw'.count = hw.count /\ hw' \in [count : Count, cc : Count, on : BOOLEAN]
  BY <1>1, <1>2
<1>4. /\ Elapsed' = Elapsed /\ ~Acquired' /\ hw.on /\ "swi" \notin pending /\ ops = <<>>
      /\ ListInv' /\ HwInv' /\ CheckInv' /\ CallInv' /\ StartTime' /\ StartFresh' /\ StartLeft' /\ StartSeen'
      /\ StopInv' /\ RunInv' /\ DueInv' /\ LeftInv' /\ WaitInv'
  BY <1>1, <1>3, RegisterFrame
<1>5. Types'
  <2>1. pending' \in SUBSET {"timer", "swi"}
    BY <1>1 DEF IInv, Types
  <2> QED BY <1>1, <1>3, <2>1 DEF IInv, Types
<1>6. SwiInv'
  BY <1>1 DEF SwiInv, Idle
<1>7. ArmedInv'
  <2> SUFFICES ASSUME "timer" \notin pending'
               PROVE  Elapsed < Diff(hw'.cc, latest) /\ Reaches(list, Diff(hw'.cc, latest), Elapsed)
    BY <1>1, <1>4 DEF ArmedInv
  <2>1. ~TooClose /\ "timer" \notin pending /\ hw'.cc = hw.cc
    BY <1>1
  <2> DEFINE p == Diff(swi.pre, latest)
             v == Diff(swi.cc, latest)
  <2>2. hw.cc = swi.cc /\ p <= Elapsed /\ p + Offset <= v /\ Reaches(list, v, p)
    BY <1>1, <2>1 DEF IInv, SwiInv
  <2>3. p \in Nat /\ v \in Nat /\ swi.pre \in Count /\ swi.cc \in Count /\ Elapsed \in Nat /\ Offset \in Nat /\ Offset >= 1
    BY <1>1, SwiIs, Facts, TimerAssumption DEF Count
  <2>4. Diff(hw.count, swi.pre) = Elapsed - p /\ Diff(swi.cc, swi.pre) = v - p
    <3>1. p <= Diff(hw.count, latest) /\ p <= v
      BY <2>2, <2>3 DEF Elapsed
    <3> QED BY <3>1, <2>3, <1>2, DiffDiffers DEF Elapsed
  <2>5. ~(Elapsed - p + Offset > v - p)
    BY <2>1, <2>4 DEF TooClose
  <2> HIDE DEF p, v
  <2>6. Elapsed < v
    BY <2>3, <2>5
  <2>7. Reaches(list, v, Elapsed)
    <3>1. v <= p + Offset => v <= Elapsed + Offset
      BY <2>2, <2>3
    <3> QED BY <3>1, <2>2 DEF Reaches
  <2> QED BY <2>1, <2>2, <2>6, <2>7 DEF v
<1> QED BY <1>4, <1>5, <1>6, <1>7 DEF IInv

-----------------------------------------------------------------------------
(* The steps: the calls.                                                   *)

LEMMA CallFrame ==
  ASSUME IInv, UNCHANGED <<hw, latest, list, passed, swi, caller, waited>>, CallerRuns,
         running' \subseteq running, pending \subseteq pending', pending' \subseteq pending \cup {"swi"}
  PROVE  /\ Elapsed' = Elapsed /\ Acquired' = Acquired /\ Checked' = Checked /\ swi = Idle
         /\ ListInv' /\ HwInv' /\ CheckInv' /\ ArmedInv' /\ SwiInv'
         /\ caller = "main" => ops = <<>> /\ ~Acquired
<1>1. Elapsed' = Elapsed
  BY DEF Elapsed
<1>2. Acquired' = Acquired
  BY DEF Acquired
<1>3. Checked' = Checked
  BY <1>2 DEF Checked, ReadIndex
<1>4. swi.pc = "idle" /\ swi = Idle
  BY DEF CallerRuns, IInv, Types
<1>5. ListInv' /\ HwInv'
  BY <1>2 DEF IInv, ListInv, HwInv
<1>6. CheckInv'
  BY <1>1, <1>2, <1>3, <1>4 DEF IInv, CheckInv, ReadIndex
<1>7. ArmedInv' /\ SwiInv'
  BY <1>1, <1>2, <1>4 DEF IInv, ArmedInv, SwiInv
<1>8. caller = "main" => ops = <<>> /\ ~Acquired
  <2> SUFFICES ASSUME caller = "main" PROVE ops = <<>> /\ ~Acquired
    OBVIOUS
  <2>1. "swi" \notin pending
    BY DEF CallerRuns, Enabled
  <2> QED BY <2>1 DEF IInv, CheckInv, WaitInv
<1> QED BY <1>1, <1>2, <1>3, <1>4, <1>5, <1>6, <1>7, <1>8

LEMMA Queued ==
  ASSUME IInv, NEW op \in QueuedCall, ops' = Append(ops, op)
  PROVE  /\ Len(ops) \in Nat /\ Len(ops') = Len(ops) + 1 /\ ops' \in Seq(QueuedCall) /\ ops' # <<>>
         /\ \A j \in 1 .. Len(ops) : ops'[j] = ops[j]
         /\ ops'[Len(ops) + 1] = op
         /\ \A t \in Timer : /\ Stops(ops', t) <=> Stops(ops, t) \/ IsStop(op, t)
                             /\ Starts(ops', t) <=> Starts(ops, t) \/ IsStart(op, t)
<1>1. ops \in Seq(QueuedCall)
  BY DEF IInv, Types
<1>2. /\ Len(ops) \in Nat /\ Len(ops') = Len(ops) + 1 /\ ops' \in Seq(QueuedCall) /\ ops' # <<>>
      /\ \A j \in 1 .. Len(ops) : ops'[j] = ops[j]
      /\ ops'[Len(ops) + 1] = op
  BY <1>1
<1>3. ASSUME NEW t PROVE Stops(ops', t) <=> Stops(ops, t) \/ IsStop(op, t)
  BY <1>2 DEF Stops
<1>4. ASSUME NEW t PROVE Starts(ops', t) <=> Starts(ops, t) \/ IsStart(op, t)
  BY <1>2 DEF Starts
<1> QED BY <1>2, <1>3, <1>4

LEMMA StartKeeps ==
  ASSUME IInv, NEW t \in Timer, NEW d \in IF Period[t] = 0 THEN Ticks ELSE {Period[t]}, Start(t, d)
  PROVE  IInv'
<1> DEFINE op == [type |-> "START", timer |-> t, at |-> hw.count, first |-> d]
           n == Len(ops)
<1>1. /\ CallerRuns /\ call = NoCall /\ left[t] = Off /\ InRange(d) /\ ~Hides(t)
      /\ ops' = Append(ops, op) /\ pending' = pending \cup {"swi"}
      /\ left' = [left EXCEPT ![t] = d]
      /\ UNCHANGED <<hw, latest, list, running, passed, swi, call, caller, waited>>
  BY DEF Start, Queue
<1>2. /\ d \in Nat /\ d >= 1 /\ hw.count \in Count /\ latest \in Count /\ Elapsed \in Nat /\ waited \in Nat
      /\ left \in [Timer -> Int \cup {Off}]
  <2>1. d \in Nat \ {0}
    <3>1. Period[t] = 0 => d \in Ticks
      OBVIOUS
    <3>2. Period[t] # 0 => d = Period[t]
      OBVIOUS
    <3> QED BY <3>1, <3>2, TimerAssumption
  <2>2. Elapsed \in Nat
    BY Facts, Constants DEF Count
  <2>3. hw.count \in Count /\ latest \in Count /\ left \in [Timer -> Int \cup {Off}] /\ waited \in 0 .. Latency
    BY DEF IInv, Types
  <2> QED BY <2>1, <2>2, <2>3, TimerAssumption
<1>3. op \in QueuedCall
  BY <1>2 DEF QueuedCall, StartCall
<1>4. op.type = "START" /\ op.timer = t /\ op.at = hw.count /\ op.first = d
  OBVIOUS
<1> HIDE DEF op
<1>5. /\ Elapsed' = Elapsed /\ Acquired' = Acquired /\ Checked' = Checked /\ swi = Idle
      /\ ListInv' /\ HwInv' /\ CheckInv' /\ ArmedInv' /\ SwiInv'
      /\ caller = "main" => ops = <<>>
  BY <1>1, CallFrame
<1>6. /\ n \in Nat /\ Len(ops') = n + 1 /\ ops' \in Seq(QueuedCall) /\ ops' # <<>>
      /\ \A j \in 1 .. n : ops'[j] = ops[j]
      /\ ops'[n + 1] = op
  BY <1>1, <1>3, Queued
<1>7. \A u \in Timer : /\ Stops(ops', u) <=> Stops(ops, u)
                       /\ Starts(ops', u) <=> Starts(ops, u) \/ u = t
  BY <1>1, <1>3, <1>4, Queued DEF IsStop, IsStart
<1>8. left'[t] = d /\ \A u \in Timer : u # t => left'[u] = left[u]
  BY <1>1, <1>2
<1>9. Types'
  <2>1. left' \in [Timer -> Int \cup {Off}]
    BY <1>1, <1>2
  <2>2. pending' \in SUBSET {"timer", "swi"}
    BY <1>1 DEF IInv, Types
  <2> QED BY <1>1, <1>6, <2>1, <2>2 DEF IInv, Types
<1>10. WaitInv'
  BY <1>1, <1>5 DEF IInv, WaitInv
<1>11. CallInv'
  <2>1. caller = "main" => Len(ops') <= 1
    BY <1>5, <1>6
  <2> QED BY <1>1, <2>1 DEF CallInv, NoCall
<1> HIDE DEF n
<1>12. \A j \in 1 .. n + 1 : j \in 1 .. n \/ j = n + 1
  BY <1>6
<1>13. StartTime'
  <2> SUFFICES ASSUME NEW j \in 1 .. n + 1, ops'[j].type = "START"
               PROVE  /\ Diff(ops'[j].at, latest) < Half /\ Diff(ops'[j].at, latest) <= Elapsed
                      /\ Elapsed - Diff(ops'[j].at, latest) <= waited
                      /\ Diff(ops'[j].at, latest) + ops'[j].first + Late < Modulus
    BY <1>1, <1>5, <1>6 DEF StartTime
  <2>1. CASE j \in 1 .. n
    BY <2>1, <1>6 DEF n, IInv, StartTime
  <2>2. CASE j = n + 1
    <3>1. Diff(ops'[j].at, latest) = Elapsed /\ ops'[j].first = d
      BY <2>2, <1>4, <1>6 DEF Elapsed
    <3>2. Elapsed < Half /\ Elapsed + d + Late < Modulus
      BY <1>1 DEF InRange, Elapsed
    <3> QED BY <3>1, <3>2, <1>2
  <2> QED BY <2>1, <2>2, <1>12
<1>14. \A i \in 1 .. n : IsStart(ops[i], t) => \E m \in i + 1 .. n : IsStop(ops[m], t)
  <2> SUFFICES ASSUME NEW i \in 1 .. n, IsStart(ops[i], t), \A m \in i + 1 .. n : ~IsStop(ops[m], t) PROVE FALSE
    OBVIOUS
  <2>1. left[t] \in Int
    BY DEF IInv, StartLeft, IsStart, n
  <2> QED BY <2>1, <1>1, OffIs
<1>15. StartFresh'
  <2> SUFFICES ASSUME NEW j \in 1 .. n + 1, ops'[j].type = "START"
               PROVE  /\ ops'[j].timer \notin running
                      /\ (\A k \in 1 .. j - 1 : ~IsStop(ops'[k], ops'[j].timer)) =>
                           \A i \in 1 .. Len(list) : list[i].timer = ops'[j].timer => i <= Checked /\ Period[ops'[j].timer] = 0
                      /\ \A k \in 1 .. j - 1 : IsStart(ops'[k], ops'[j].timer) =>
                           \E m \in k + 1 .. j - 1 : IsStop(ops'[m], ops'[j].timer)
    BY <1>1, <1>5, <1>6 DEF StartFresh
  <2>1. \A k \in 1 .. j - 1 : k \in 1 .. n /\ ops'[k] = ops[k]
    BY <1>6
  <2>2. CASE j \in 1 .. n
    <3>1. ops'[j] = ops[j]
      BY <2>2, <1>6
    <3>2. /\ ops[j].timer \notin running
          /\ (\A k \in 1 .. j - 1 : ~IsStop(ops[k], ops[j].timer)) =>
               \A i \in 1 .. Len(list) : list[i].timer = ops[j].timer => i <= Checked /\ Period[ops[j].timer] = 0
          /\ \A k \in 1 .. j - 1 : IsStart(ops[k], ops[j].timer) =>
               \E m \in k + 1 .. j - 1 : IsStop(ops[m], ops[j].timer)
      BY <2>2, <3>1 DEF n, IInv, StartFresh
    <3>3. \A k \in 1 .. j - 1 : \A m \in k + 1 .. j - 1 : m \in 1 .. j - 1
      BY <1>6
    <3> QED BY <2>1, <3>1, <3>2, <3>3
  <2>3. CASE j = n + 1
    <3>1. ops'[j].timer = t /\ j - 1 = n
      BY <2>3, <1>4, <1>6
    <3>2. t \notin running
      BY <1>1, OffIs DEF IInv, RunInv
    <3>3. (\A k \in 1 .. n : ~IsStop(ops[k], t)) =>
             \A i \in 1 .. Len(list) : list[i].timer = t => i <= Checked /\ Period[t] = 0
      BY <1>1 DEF IInv, DueInv, Stops, n
    <3>4. \A k \in 1 .. n : \A m \in k + 1 .. n : m \in 1 .. n
      BY <1>6
    <3> QED BY <2>1, <3>1, <3>2, <3>3, <3>4, <1>14
  <2> QED BY <2>2, <2>3, <1>12
<1>16. StartLeft'
  <2> SUFFICES ASSUME NEW j \in 1 .. n + 1, ops'[j].type = "START", \A k \in j + 1 .. n + 1 : ~IsStop(ops'[k], ops'[j].timer)
               PROVE  /\ left'[ops'[j].timer] \in Int
                      /\ ops'[j].first - left'[ops'[j].timer] <= waited
                      /\ ops'[j].first - left'[ops'[j].timer] >= Elapsed - Diff(ops'[j].at, latest)
    BY <1>1, <1>5, <1>6 DEF StartLeft
  <2>1. CASE j \in 1 .. n
    <3>1. ops'[j] = ops[j]
      BY <2>1, <1>6
    <3>2. \A k \in j + 1 .. n : k \in j + 1 .. n + 1 /\ ops'[k] = ops[k]
      BY <2>1, <1>6
    <3>3. /\ left[ops[j].timer] \in Int
          /\ ops[j].first - left[ops[j].timer] <= waited
          /\ ops[j].first - left[ops[j].timer] >= Elapsed - Diff(ops[j].at, latest)
      BY <2>1, <3>1, <3>2 DEF IInv, StartLeft, n
    <3>4. ops[j].timer # t /\ ops[j].timer \in Timer
      BY <2>1, <3>1, <3>3, <1>1, OffIs, CallsAre DEF n
    <3>5. left'[ops[j].timer] = left[ops[j].timer]
      BY <3>4, <1>8
    <3> QED BY <3>1, <3>3, <3>5
  <2>2. CASE j = n + 1
    <3>1. Diff(ops'[j].at, latest) = Elapsed /\ ops'[j].first = d /\ ops'[j].timer = t
      BY <2>2, <1>4, <1>6 DEF Elapsed
    <3> QED BY <3>1, <1>2, <1>8
  <2> QED BY <2>1, <2>2, <1>12
<1>17. StartSeen'
  <2> SUFFICES ASSUME NEW j \in 1 .. n + 1, NEW k \in 1 .. n + 1, NEW m \in 1 .. n + 1, m < k, k < j,
                      ops'[j].type = "START", ops'[k] = StopOp(ops'[j].timer), ops'[m].type = "START"
               PROVE  ops'[m].timer = ops'[j].timer
    BY <1>6 DEF StartSeen
  <2>1. k \in 1 .. n /\ m \in 1 .. n /\ ops'[k] = ops[k] /\ ops'[m] = ops[m] /\ m \in 1 .. k - 1
    BY <1>6
  <2>2. CASE j \in 1 .. n
    <3>1. ops'[j] = ops[j]
      BY <2>2, <1>6
    <3>2. ops[j].type = "START" /\ ops[k] = StopOp(ops[j].timer) /\ ops[m].type = "START" /\ j \in 1 .. Len(ops) /\ k \in 1 .. Len(ops) /\ m \in 1 .. Len(ops)
      BY <2>1, <2>2, <3>1 DEF n
    <3>3. ops[m].timer = ops[j].timer
      BY <3>2 DEF IInv, StartSeen
    <3> QED BY <2>1, <3>1, <3>3
  <2>3. CASE j = n + 1
    <3>1. ops'[j].timer = t
      BY <2>3, <1>4, <1>6
    <3> QED BY <2>1, <3>1, <1>1 DEF Hides, n
  <2> QED BY <2>2, <2>3, <1>12
<1>18. StopInv'
  <2> SUFFICES ASSUME NEW j \in 1 .. n + 1
               PROVE  /\ ops'[j].type = "STOP_ALL" => caller = "main"
                      /\ \A u \in Timer : IsStop(ops'[j], u) /\ (\A k \in j + 1 .. n + 1 : ~IsStart(ops'[k], u)) =>
                                            left'[u] = Off \/ u \in call.timers
    BY <1>1, <1>6 DEF StopInv
  <2>1. CASE j \in 1 .. n
    <3>1. ops'[j] = ops[j]
      BY <2>1, <1>6
    <3>2. \A k \in j + 1 .. n : k \in j + 1 .. n + 1 /\ ops'[k] = ops[k]
      BY <2>1, <1>6
    <3>3. ASSUME NEW u \in Timer, IsStop(ops'[j], u), \A k \in j + 1 .. n + 1 : ~IsStart(ops'[k], u)
          PROVE  left'[u] = Off \/ u \in call.timers
      <4>1. n + 1 \in j + 1 .. n + 1
        BY <2>1, <1>6
      <4>2. u # t
        BY <3>3, <4>1, <1>4, <1>6 DEF IsStart
      <4>3. left[u] = Off \/ u \in call.timers
        BY <3>1, <3>2, <3>3, <2>1 DEF IInv, StopInv, n
      <4> QED BY <4>2, <4>3, <1>8
    <3>4. ops[j].type = "STOP_ALL" => caller = "main"
      BY <2>1 DEF IInv, StopInv, n
    <3> QED BY <3>1, <3>3, <3>4
  <2>2. CASE j = n + 1
    BY <2>2, <1>4, <1>6 DEF IsStop
  <2> QED BY <2>1, <2>2, <1>12
<1>19. RunInv'
  <2> SUFFICES ASSUME NEW u \in running PROVE left'[u] \in Int /\ \E i \in Checked + 1 .. Len(list) : list[i].timer = u
    BY <1>1, <1>5 DEF RunInv
  <2>1. u \in Timer /\ left[u] \in Int /\ \E i \in Checked + 1 .. Len(list) : list[i].timer = u
    BY DEF IInv, RunInv, Types
  <2> QED BY <2>1, <1>2, <1>8
<1>20. DueInv'
  <2> SUFFICES ASSUME NEW i \in 1 .. Len(list)
               PROVE  /\ left'[list[i].timer] \in Int /\ ~Starts(ops', list[i].timer) =>
                           left'[list[i].timer] <= Due(list, Checked, i) - Elapsed
                      /\ left'[list[i].timer] = Off => Stops(ops', list[i].timer) \/ (i <= Checked /\ Period[list[i].timer] = 0)
                      /\ list[i].timer \notin running => \/ i <= Checked \/ Stops(ops', list[i].timer)
                                                         \/ call.pc = "queue" /\ list[i].timer \in call.timers
    BY <1>1, <1>5 DEF DueInv
  <2>1. /\ left[list[i].timer] \in Int /\ ~Starts(ops, list[i].timer) =>
             left[list[i].timer] <= Due(list, Checked, i) - Elapsed
        /\ left[list[i].timer] = Off => Stops(ops, list[i].timer) \/ (i <= Checked /\ Period[list[i].timer] = 0)
        /\ list[i].timer \notin running => \/ i <= Checked \/ Stops(ops, list[i].timer)
                                           \/ call.pc = "queue" /\ list[i].timer \in call.timers
    BY DEF IInv, DueInv
  <2>2. list[i].timer \in Timer
    BY NodesAre DEF IInv, Types
  <2>3. d # Off
    BY <1>2, OffIs
  <2> QED BY <2>1, <2>2, <2>3, <1>7, <1>8
<1>21. LeftInv'
  <2> SUFFICES ASSUME NEW u \in Timer, left'[u] \in Int, u \notin call.timers, ~Starts(ops', u)
               PROVE  \E i \in 1 .. Len(list) :
                        /\ list[i].timer = u /\ left'[u] >= Due(list, Checked, i) - Elapsed - Latency
                        /\ u \in running \/ (i <= Checked /\ Period[u] # 0)
    BY <1>1, <1>5 DEF LeftInv
  <2>1. u # t /\ ~Starts(ops, u) /\ left'[u] = left[u]
    BY <1>7, <1>8
  <2> QED BY <2>1 DEF IInv, LeftInv
<1> QED BY <1>5, <1>9, <1>10, <1>11, <1>13, <1>15, <1>16, <1>17, <1>18, <1>19, <1>20, <1>21 DEF IInv

\* What the steps keep that do not change the queued calls.
LEMMA StartsFrame ==
  ASSUME IInv, ops' = ops, left' = left, running' \subseteq running,
         UNCHANGED <<hw, latest, list, caller, waited>>, Checked' = Checked, Elapsed' = Elapsed
  PROVE  StartTime' /\ StartFresh' /\ StartLeft' /\ StartSeen'
<1>1. StartTime' /\ StartSeen'
  BY DEF IInv, StartTime, StartSeen
<1>2. StartFresh'
  BY DEF IInv, StartFresh
<1>3. StartLeft'
  BY DEF IInv, StartLeft
<1> QED BY <1>1, <1>2, <1>3

\* What a queued stop keeps, if what the users know does not change but for its timers.
LEMMA StopFrame ==
  ASSUME IInv, NEW op \in QueuedCall, op.type # "START", ops' = Append(ops, op), running' \subseteq running,
         UNCHANGED <<hw, latest, list, caller, waited>>, Checked' = Checked, Elapsed' = Elapsed,
         \A u \in Timer : left'[u] = left[u] \/ IsStop(op, u)
  PROVE  StartTime' /\ StartFresh' /\ StartLeft' /\ StartSeen'
<1> DEFINE n == Len(ops)
<1>1. /\ n \in Nat /\ Len(ops') = n + 1 /\ \A j \in 1 .. n : ops'[j] = ops[j]
      /\ ops'[n + 1] = op
  BY Queued
<1>2. \A j \in 1 .. n + 1 : ops'[j].type = "START" => j \in 1 .. n
  BY <1>1
<1>3. n = Len(ops)
  OBVIOUS
<1> HIDE DEF n
<1>4. StartTime'
  <2> SUFFICES ASSUME NEW j \in 1 .. n + 1, ops'[j].type = "START"
               PROVE  /\ Diff(ops'[j].at, latest) < Half /\ Diff(ops'[j].at, latest) <= Elapsed
                      /\ Elapsed - Diff(ops'[j].at, latest) <= waited
                      /\ Diff(ops'[j].at, latest) + ops'[j].first + Late < Modulus
    BY <1>1 DEF StartTime
  <2> QED BY <1>1, <1>2, <1>3 DEF IInv, StartTime
<1>5. StartFresh'
  <2> SUFFICES ASSUME NEW j \in 1 .. n + 1, ops'[j].type = "START"
               PROVE  /\ ops'[j].timer \notin running'
                      /\ (\A k \in 1 .. j - 1 : ~IsStop(ops'[k], ops'[j].timer)) =>
                           \A i \in 1 .. Len(list) : list[i].timer = ops'[j].timer => i <= Checked /\ Period[ops'[j].timer] = 0
                      /\ \A k \in 1 .. j - 1 : IsStart(ops'[k], ops'[j].timer) =>
                           \E m \in k + 1 .. j - 1 : IsStop(ops'[m], ops'[j].timer)
    BY <1>1 DEF StartFresh
  <2>1. j \in 1 .. n /\ ops'[j] = ops[j]
    BY <1>1, <1>2
  <2>2. \A k \in 1 .. j - 1 : k \in 1 .. n /\ ops'[k] = ops[k]
    BY <2>1, <1>1
  <2>3. /\ ops[j].timer \notin running
        /\ (\A k \in 1 .. j - 1 : ~IsStop(ops[k], ops[j].timer)) =>
             \A i \in 1 .. Len(list) : list[i].timer = ops[j].timer => i <= Checked /\ Period[ops[j].timer] = 0
        /\ \A k \in 1 .. j - 1 : IsStart(ops[k], ops[j].timer) =>
             \E m \in k + 1 .. j - 1 : IsStop(ops[m], ops[j].timer)
    BY <2>1, <1>3 DEF IInv, StartFresh
  <2>4. \A k \in 1 .. j - 1 : \A m \in k + 1 .. j - 1 : m \in 1 .. j - 1
    BY <1>1
  <2> QED BY <2>1, <2>2, <2>3, <2>4
<1>6. StartLeft'
  <2> SUFFICES ASSUME NEW j \in 1 .. n + 1, ops'[j].type = "START", \A k \in j + 1 .. n + 1 : ~IsStop(ops'[k], ops'[j].timer)
               PROVE  /\ left'[ops'[j].timer] \in Int
                      /\ ops'[j].first - left'[ops'[j].timer] <= waited
                      /\ ops'[j].first - left'[ops'[j].timer] >= Elapsed - Diff(ops'[j].at, latest)
    BY <1>1 DEF StartLeft
  <2>1. j \in 1 .. n /\ ops'[j] = ops[j] /\ n + 1 \in j + 1 .. n + 1
    BY <1>1, <1>2
  <2>2. \A k \in j + 1 .. n : k \in j + 1 .. n + 1 /\ ops'[k] = ops[k]
    BY <2>1, <1>1
  <2>3. ~IsStop(op, ops[j].timer) /\ ops[j].timer \in Timer
    BY <2>1, <1>1, <1>3, CallsAre
  <2>4. /\ left[ops[j].timer] \in Int
        /\ ops[j].first - left[ops[j].timer] <= waited
        /\ ops[j].first - left[ops[j].timer] >= Elapsed - Diff(ops[j].at, latest)
    BY <2>1, <2>2, <1>3 DEF IInv, StartLeft
  <2> QED BY <2>1, <2>3, <2>4
<1>7. StartSeen'
  <2> SUFFICES ASSUME NEW j \in 1 .. n + 1, NEW k \in 1 .. n + 1, NEW m \in 1 .. n + 1, m < k, k < j,
                      ops'[j].type = "START", ops'[k] = StopOp(ops'[j].timer), ops'[m].type = "START"
               PROVE  ops'[m].timer = ops'[j].timer
    BY <1>1 DEF StartSeen
  <2>1. j \in 1 .. Len(ops) /\ k \in 1 .. Len(ops) /\ m \in 1 .. Len(ops) /\ ops'[k] = ops[k] /\ ops'[m] = ops[m] /\ ops'[j] = ops[j]
    BY <1>1, <1>2, <1>3
  <2>2. ops[j].type = "START" /\ ops[k] = StopOp(ops[j].timer) /\ ops[m].type = "START"
    BY <2>1
  <2>3. ops[m].timer = ops[j].timer
    BY <2>1, <2>2 DEF IInv, StartSeen
  <2> QED BY <2>1, <2>3
<1> QED BY <1>4, <1>5, <1>6, <1>7

LEMMA StopFromIsrKeeps == ASSUME IInv, NEW t \in Timer, StopFromIsr(t) PROVE IInv'
<1> DEFINE op == StopOp(t)
           n == Len(ops)
<1>1. /\ CallerRuns /\ caller = "isr" /\ running' = running \ {t}
      /\ ops' = Append(ops, op) /\ pending' = pending \cup {"swi"}
      /\ left' = [left EXCEPT ![t] = Off]
      /\ UNCHANGED <<hw, latest, list, passed, swi, call, caller, waited>>
  BY DEF StopFromIsr, Queue, MarkedStopped
<1>2. op \in QueuedCall /\ op.type = "STOP" /\ op.timer = t
  BY DEF QueuedCall, StopCall, StopOp
<1> HIDE DEF op
<1>3. /\ Elapsed' = Elapsed /\ Acquired' = Acquired /\ Checked' = Checked /\ swi = Idle
      /\ ListInv' /\ HwInv' /\ CheckInv' /\ ArmedInv' /\ SwiInv'
  BY <1>1, CallFrame
<1>4. /\ n \in Nat /\ Len(ops') = n + 1 /\ ops' \in Seq(QueuedCall) /\ ops' # <<>>
      /\ \A j \in 1 .. n : ops'[j] = ops[j]
      /\ ops'[n + 1] = op
  BY <1>1, <1>2, Queued
<1>5. \A u \in Timer : /\ Stops(ops', u) <=> Stops(ops, u) \/ u = t
                       /\ Starts(ops', u) <=> Starts(ops, u)
  BY <1>1, <1>2, Queued DEF IsStop, IsStart
<1>6. left'[t] = Off /\ \A u \in Timer : u # t => left'[u] = left[u]
  BY <1>1 DEF IInv, Types
<1>7. Types'
  <2>1. left' \in [Timer -> Int \cup {Off}] /\ pending' \in SUBSET {"timer", "swi"} /\ running' \in SUBSET Timer
    BY <1>1 DEF IInv, Types
  <2> QED BY <1>1, <1>4, <2>1 DEF IInv, Types
<1>8. WaitInv'
  BY <1>1, <1>3 DEF IInv, WaitInv
<1>9. call = NoCall
  BY <1>1 DEF IInv, CallInv
<1>10. CallInv'
  BY <1>1, <1>9 DEF CallInv, NoCall
<1>11. StartTime' /\ StartFresh' /\ StartLeft' /\ StartSeen'
  <2>1. \A u \in Timer : left'[u] = left[u] \/ IsStop(op, u)
    BY <1>2, <1>6 DEF IsStop
  <2> QED BY <1>1, <1>2, <1>3, <2>1, StopFrame
<1> HIDE DEF n
<1>12. StopInv'
  <2> SUFFICES ASSUME NEW j \in 1 .. n + 1
               PROVE  /\ ops'[j].type = "STOP_ALL" => caller = "main"
                      /\ \A u \in Timer : IsStop(ops'[j], u) /\ (\A k \in j + 1 .. n + 1 : ~IsStart(ops'[k], u)) =>
                                            left'[u] = Off \/ u \in call.timers
    BY <1>1, <1>4 DEF StopInv
  <2>1. CASE j \in 1 .. n
    <3>1. ops'[j] = ops[j] /\ \A k \in j + 1 .. n : k \in j + 1 .. n + 1 /\ ops'[k] = ops[k]
      BY <2>1, <1>4
    <3>2. /\ ops[j].type = "STOP_ALL" => caller = "main"
          /\ \A u \in Timer : IsStop(ops[j], u) /\ (\A k \in j + 1 .. n : ~IsStart(ops[k], u)) =>
                                left[u] = Off \/ u \in call.timers
      BY <2>1 DEF IInv, StopInv, n
    <3> QED BY <3>1, <3>2, <1>6
  <2>2. CASE j = n + 1
    BY <2>2, <1>2, <1>4, <1>6 DEF IsStop
  <2>3. j \in 1 .. n \/ j = n + 1
    BY <1>4
  <2> QED BY <2>1, <2>2, <2>3
<1>13. RunInv'
  <2> SUFFICES ASSUME NEW u \in running, u # t PROVE left'[u] \in Int /\ \E i \in Checked + 1 .. Len(list) : list[i].timer = u
    BY <1>1, <1>3 DEF RunInv
  <2>1. u \in Timer /\ left[u] \in Int /\ \E i \in Checked + 1 .. Len(list) : list[i].timer = u
    BY DEF IInv, RunInv, Types
  <2> QED BY <2>1, <1>6
<1>14. DueInv'
  <2> SUFFICES ASSUME NEW i \in 1 .. Len(list)
               PROVE  /\ left'[list[i].timer] \in Int /\ ~Starts(ops', list[i].timer) =>
                           left'[list[i].timer] <= Due(list, Checked, i) - Elapsed
                      /\ left'[list[i].timer] = Off => Stops(ops', list[i].timer) \/ (i <= Checked /\ Period[list[i].timer] = 0)
                      /\ list[i].timer \notin running' => \/ i <= Checked \/ Stops(ops', list[i].timer)
                                                          \/ call.pc = "queue" /\ list[i].timer \in call.timers
    BY <1>1, <1>3 DEF DueInv
  <2>1. /\ left[list[i].timer] \in Int /\ ~Starts(ops, list[i].timer) =>
             left[list[i].timer] <= Due(list, Checked, i) - Elapsed
        /\ left[list[i].timer] = Off => Stops(ops, list[i].timer) \/ (i <= Checked /\ Period[list[i].timer] = 0)
        /\ list[i].timer \notin running => \/ i <= Checked \/ Stops(ops, list[i].timer)
                                           \/ call.pc = "queue" /\ list[i].timer \in call.timers
    BY DEF IInv, DueInv
  <2>2. list[i].timer \in Timer
    BY NodesAre DEF IInv, Types
  <2> QED BY <2>1, <2>2, <1>1, <1>5, <1>6, OffIs
<1>15. LeftInv'
  <2> SUFFICES ASSUME NEW u \in Timer, left'[u] \in Int, u \notin call.timers, ~Starts(ops', u)
               PROVE  \E i \in 1 .. Len(list) :
                        /\ list[i].timer = u /\ left'[u] >= Due(list, Checked, i) - Elapsed - Latency
                        /\ u \in running' \/ (i <= Checked /\ Period[u] # 0)
    BY <1>1, <1>3 DEF LeftInv
  <2>1. u # t /\ ~Starts(ops, u) /\ left'[u] = left[u] /\ (u \in running => u \in running')
    BY <1>1, <1>5, <1>6, OffIs
  <2> QED BY <2>1 DEF IInv, LeftInv
<1> QED BY <1>3, <1>7, <1>8, <1>10, <1>11, <1>12, <1>13, <1>14, <1>15 DEF IInv

LEMMA StopBeginsKeeps == ASSUME IInv, NEW t \in Timer, StopBegins(t) PROVE IInv'
<1>1. /\ CallerRuns /\ caller = "main" /\ call = NoCall /\ running' = running \ {t}
      /\ call' = [pc |-> "queue", timers |-> {t}, age |-> 0]
      /\ UNCHANGED <<hw, latest, list, ops, passed, pending, swi, caller, waited, left>>
  BY DEF StopBegins, MarkedStopped
<1>2. /\ Elapsed' = Elapsed /\ Acquired' = Acquired /\ Checked' = Checked /\ swi = Idle
      /\ ListInv' /\ HwInv' /\ CheckInv' /\ ArmedInv' /\ SwiInv' /\ ops = <<>>
  BY <1>1, CallFrame
<1>3. call'.pc = "queue" /\ call'.timers = {t} /\ call.timers = {} /\ call.pc = "idle" /\ Len(ops) = 0
  BY <1>1, <1>2 DEF NoCall
<1>4. Types'
  <2>1. call' \in [pc : {"idle", "queue", "return"}, timers : SUBSET Timer, age : Nat] /\ running' \in SUBSET Timer
    BY <1>1 DEF IInv, Types
  <2> QED BY <1>1, <2>1 DEF IInv, Types
<1>5. WaitInv'
  BY <1>1, <1>2 DEF IInv, WaitInv
<1>6. CallInv'
  BY <1>1, <1>2, <1>3 DEF CallInv
<1>7. StartTime' /\ StartFresh' /\ StartLeft' /\ StartSeen'
  BY <1>1, <1>2, StartsFrame
<1>8. StopInv'
  BY <1>1, <1>3 DEF StopInv
<1>9. RunInv'
  BY <1>1, <1>2 DEF IInv, RunInv
<1>10. DueInv'
  BY <1>1, <1>2, <1>3 DEF IInv, DueInv
<1>11. LeftInv'
  <2> SUFFICES ASSUME NEW u \in Timer, left[u] \in Int, u # t, ~Starts(ops, u)
               PROVE  \E i \in 1 .. Len(list) :
                        /\ list[i].timer = u /\ left[u] >= Due(list, Checked, i) - Elapsed - Latency
                        /\ u \in running' \/ (i <= Checked /\ Period[u] # 0)
    BY <1>1, <1>2, <1>3 DEF LeftInv
  <2>1. u \notin call.timers /\ (u \in running => u \in running')
    BY <1>1, <1>3
  <2> QED BY <2>1 DEF IInv, LeftInv
<1> QED BY <1>2, <1>4, <1>5, <1>6, <1>7, <1>8, <1>9, <1>10, <1>11 DEF IInv


\* A stop that the main loop queues.
LEMMA MainStopKeeps ==
  ASSUME IInv, CallerRuns, caller = "main", NEW op \in QueuedCall, op.type # "START",
         ops' = Append(ops, op), pending' = pending \cup {"swi"},
         call' \in [pc : {"return"}, timers : SUBSET Timer, age : Nat], call.timers \subseteq call'.timers,
         \A t \in Timer : IsStop(op, t) <=> t \in call'.timers,
         UNCHANGED <<hw, latest, list, running, passed, swi, caller, waited, left>>
  PROVE  IInv'
<1>1. /\ Elapsed' = Elapsed /\ Acquired' = Acquired /\ Checked' = Checked /\ swi = Idle
      /\ ListInv' /\ HwInv' /\ CheckInv' /\ ArmedInv' /\ SwiInv' /\ ops = <<>>
  BY CallFrame
<1>2. /\ Len(ops') = 1 /\ ops' \in Seq(QueuedCall) /\ ops' # <<>> /\ ops'[1] = op
      /\ \A t \in Timer : /\ Stops(ops', t) <=> t \in call'.timers
                          /\ ~Starts(ops', t) /\ ~Starts(ops, t) /\ ~Stops(ops, t)
  <2>1. Len(ops) = 0 /\ \A t \in Timer : ~Starts(ops, t) /\ ~Stops(ops, t)
    BY <1>1 DEF Starts, Stops
  <2>2. /\ Len(ops') = Len(ops) + 1 /\ ops' \in Seq(QueuedCall) /\ ops' # <<>> /\ ops'[Len(ops) + 1] = op
        /\ \A t \in Timer : /\ Stops(ops', t) <=> Stops(ops, t) \/ IsStop(op, t)
                            /\ Starts(ops', t) <=> Starts(ops, t) \/ IsStart(op, t)
    BY Queued
  <2> QED BY <2>1, <2>2 DEF IsStart
<1>3. call'.pc = "return" /\ \A t \in call'.timers : t \in Timer
  OBVIOUS
<1>4. Types'
  <2>1. pending' \in SUBSET {"timer", "swi"} /\ call' \in [pc : {"idle", "queue", "return"}, timers : SUBSET Timer, age : Nat]
    BY DEF IInv, Types
  <2> QED BY <1>2, <2>1 DEF IInv, Types
<1>5. WaitInv'
  BY <1>1 DEF IInv, WaitInv
<1>6. \A i \in 1 .. Len(list) : list[i].timer \in Timer
  BY NodesAre DEF IInv, Types
<1>7. CallInv'
  BY <1>2, <1>3, <1>6 DEF CallInv
<1>8. StartTime' /\ StartFresh' /\ StartLeft' /\ StartSeen'
  BY <1>1, StopFrame
<1>9. StopInv'
  BY <1>2 DEF StopInv
<1>10. RunInv'
  BY <1>1 DEF IInv, RunInv
<1>11. DueInv'
  <2>1. call'.timers = call'.timers /\ \A t \in call.timers : t \in call'.timers
    OBVIOUS
  <2> QED BY <1>1, <1>2, <1>3, <1>6, <2>1 DEF IInv, DueInv
<1>12. LeftInv'
  <2> SUFFICES ASSUME NEW t \in Timer, left[t] \in Int, t \notin call'.timers
               PROVE  \E i \in 1 .. Len(list) :
                        /\ list[i].timer = t /\ left[t] >= Due(list, Checked, i) - Elapsed - Latency
                        /\ t \in running \/ (i <= Checked /\ Period[t] # 0)
    BY <1>1 DEF LeftInv
  <2>1. t \notin call.timers /\ ~Starts(ops, t)
    BY <1>2
  <2> QED BY <2>1 DEF IInv, LeftInv
<1> QED BY <1>1, <1>4, <1>5, <1>7, <1>8, <1>9, <1>10, <1>11, <1>12 DEF IInv

LEMMA StopQueuesKeeps == ASSUME IInv, StopQueues PROVE IInv'
<1>1. PICK t \in call.timers : ops' = Append(ops, StopOp(t)) /\ pending' = pending \cup {"swi"}
  BY DEF StopQueues, Queue
<1>2. CallerRuns /\ caller = "main" /\ call.timers = {t} /\ t \in Timer
  <2>1. CallerRuns /\ call.pc = "queue" /\ call # NoCall
    BY DEF StopQueues, NoCall
  <2> QED BY <2>1, <1>1 DEF IInv, CallInv
<1>3. StopOp(t) \in QueuedCall /\ StopOp(t).type = "STOP" /\ StopOp(t).timer = t
  BY <1>2 DEF StopOp, QueuedCall, StopCall
<1>4. call' \in [pc : {"return"}, timers : SUBSET Timer, age : Nat] /\ call'.timers = {t}
  <2>1. call \in [pc : {"idle", "queue", "return"}, timers : SUBSET Timer, age : Nat] /\ call' = [call EXCEPT !.pc = "return"]
    BY DEF IInv, Types, StopQueues
  <2> QED BY <2>1, <1>2
<1>5. \A u \in Timer : IsStop(StopOp(t), u) <=> u \in call'.timers
  BY <1>3, <1>4 DEF IsStop
<1>6. UNCHANGED <<hw, latest, list, running, passed, swi, caller, waited, left>>
  BY DEF StopQueues
<1> QED BY <1>1, <1>2, <1>3, <1>4, <1>5, <1>6, MainStopKeeps

LEMMA StopAllKeeps == ASSUME IInv, StopAll PROVE IInv'
<1>1. /\ CallerRuns /\ caller = "main" /\ ops' = Append(ops, StopAllOp) /\ pending' = pending \cup {"swi"}
      /\ call = NoCall /\ call' = [pc |-> "return", timers |-> Timer, age |-> 0]
      /\ UNCHANGED <<hw, latest, list, running, passed, swi, caller, waited, left>>
  BY DEF StopAll, Queue
<1>2. StopAllOp \in QueuedCall /\ StopAllOp.type = "STOP_ALL"
  BY DEF StopAllOp, QueuedCall
<1>3. call' \in [pc : {"return"}, timers : SUBSET Timer, age : Nat] /\ call'.timers = Timer /\ call.timers = {}
  BY <1>1 DEF NoCall
<1>4. \A u \in Timer : IsStop(StopAllOp, u) <=> u \in call'.timers
  BY <1>2, <1>3 DEF IsStop
<1> QED BY <1>1, <1>2, <1>3, <1>4, MainStopKeeps

LEMMA StopReturnsKeeps == ASSUME IInv, StopReturns PROVE IInv'
<1>1. /\ CallerRuns /\ call.pc = "return" /\ call' = NoCall
      /\ left' = [t \in Timer |-> IF t \in call.timers THEN Off ELSE left[t]]
      /\ UNCHANGED <<hw, latest, list, running, ops, passed, pending, swi, caller, waited>>
  BY DEF StopReturns
<1>2. /\ Elapsed' = Elapsed /\ Acquired' = Acquired /\ Checked' = Checked /\ swi = Idle
      /\ ListInv' /\ HwInv' /\ CheckInv' /\ ArmedInv' /\ SwiInv'
      /\ caller = "main" => ops = <<>> /\ ~Acquired
  BY <1>1, CallFrame
<1>3. ops = <<>> /\ Len(ops) = 0 /\ ~Acquired /\ Checked = 0
  BY <1>1, <1>2 DEF IInv, CallInv, NoCall, Checked
<1>4. call'.pc = "idle" /\ call'.timers = {}
  BY <1>1 DEF NoCall
<1>5. \A i \in 1 .. Len(list) : list[i].timer \in Timer /\ list[i].timer \notin call.timers
  <2>1. \A i \in 1 .. Len(list) : list[i].timer \in Timer
    BY NodesAre DEF IInv, Types
  <2>2. \A i \in 1 .. Len(list) : list[i].timer \in call.timers => Stops(ops, list[i].timer)
    BY <1>1 DEF IInv, CallInv
  <2> QED BY <2>1, <2>2, <1>3 DEF Stops
<1>6. Types'
  <2>1. left' \in [Timer -> Int \cup {Off}] /\ call' \in [pc : {"idle", "queue", "return"}, timers : SUBSET Timer, age : Nat]
    BY <1>1 DEF IInv, Types, NoCall
  <2> QED BY <1>1, <2>1 DEF IInv, Types
<1>7. WaitInv'
  BY <1>1, <1>2 DEF IInv, WaitInv
<1>8. CallInv'
  BY <1>1, <1>3, <1>4 DEF CallInv
<1>9. StartTime' /\ StartFresh' /\ StartLeft' /\ StartSeen' /\ StopInv'
  BY <1>1, <1>3 DEF StartTime, StartFresh, StartLeft, StartSeen, StopInv
<1>10. \A i \in 1 .. Len(list) : left'[list[i].timer] = left[list[i].timer]
  BY <1>1, <1>5
<1>11. RunInv'
  BY <1>1, <1>2, <1>3, <1>10 DEF IInv, RunInv
<1>12. DueInv'
  BY <1>1, <1>2, <1>3, <1>5, <1>10 DEF IInv, DueInv
<1>13. LeftInv'
  <2> SUFFICES ASSUME NEW t \in Timer, left'[t] \in Int, ~Starts(ops, t)
               PROVE  \E i \in 1 .. Len(list) :
                        /\ list[i].timer = t /\ left'[t] >= Due(list, Checked, i) - Elapsed - Latency
                        /\ t \in running \/ (i <= Checked /\ Period[t] # 0)
    BY <1>1, <1>2 DEF LeftInv
  <2>1. t \notin call.timers /\ left'[t] = left[t]
    BY <1>1, OffIs
  <2> QED BY <2>1 DEF IInv, LeftInv
<1> QED BY <1>2, <1>6, <1>7, <1>8, <1>9, <1>11, <1>12, <1>13 DEF IInv

-----------------------------------------------------------------------------
(* The list handler: its two folds, and the places of a list that changes. *)

\* The state after k restarts, and after k calls: the recursive functions exist.
LEMMA RestartedIs ==
  ASSUME NEW s, NEW n \in Nat
  PROVE  \E f : f[0] = s /\ (\A k \in 0 .. n - 1 : f[k + 1] = Restart(f[k], n - k)) /\ Restarted(s, n) = f[n]
<1> DEFINE Fold(f, m) == f = [k \in 0 .. m |-> IF k = 0 THEN s ELSE Restart(f[k - 1], n - k + 1)]
           Has(m) == \E f : Fold(f, m)
           S == {m \in 0 .. n : Has(m)}
<1>1. 0 \in S
  <2>1. Fold([k \in 0 .. 0 |-> s], 0)
    OBVIOUS
  <2> HIDE DEF Fold
  <2>2. Has(0)
    BY <2>1
  <2> QED BY <2>2
<1>2. ASSUME NEW m \in 0 .. n - 1, m \in S PROVE m + 1 \in S
  <2>1. PICK f : Fold(f, m)
    BY <1>2
  <2> DEFINE g == [k \in 0 .. m + 1 |-> IF k = 0 THEN s ELSE Restart(f[k - 1], n - k + 1)]
  <2> HIDE DEF Has
  <2>2. \A k \in 0 .. m : g[k] = f[k]
    BY <2>1
  <2>3. g = [k \in 0 .. m + 1 |-> IF k = 0 THEN s ELSE Restart(g[k - 1], n - k + 1)]
    <3>1. \A k \in 0 .. m + 1 : g[k] = IF k = 0 THEN s ELSE Restart(g[k - 1], n - k + 1)
      <4>1. \A k \in 0 .. m + 1 : k # 0 => k - 1 \in 0 .. m
        OBVIOUS
      <4>2. \A k \in 0 .. m + 1 : g[k] = IF k = 0 THEN s ELSE Restart(f[k - 1], n - k + 1)
        OBVIOUS
      <4> HIDE DEF g
      <4> QED BY <4>1, <4>2, <2>2
    <3>2. g = [k \in 0 .. m + 1 |-> g[k]]
      OBVIOUS
    <3> HIDE DEF g
    <3> QED BY <3>1, <3>2, Zenon
  <2>4. Has(m + 1)
    BY <2>3 DEF Has
  <2> QED BY <2>4
<1>3. Has(n)
  <2> HIDE DEF Has
  <2>1. S \in SUBSET (0 .. n)
    OBVIOUS
  <2> HIDE DEF S
  <2>2. \A k \in 0 .. n : k \in S
    BY <1>1, <1>2, Induct
  <2> QED BY <2>2 DEF S
<1> DEFINE after == CHOOSE f : Fold(f, n)
<1>4. after = [k \in 0 .. n |-> IF k = 0 THEN s ELSE Restart(after[k - 1], n - k + 1)]
  <2>1. Fold(after, n)
    BY <1>3, Zenon
  <2> QED BY <2>1
<1>5. Restarted(s, n) = after[n]
  BY DEF Restarted
<1> HIDE DEF after, Fold, Has, S
<1>6. after[0] = s
  BY <1>4
<1>7. ASSUME NEW k \in 0 .. n - 1 PROVE after[k + 1] = Restart(after[k], n - k)
  <2>1. k + 1 \in 0 .. n /\ k + 1 # 0 /\ (k + 1) - 1 = k /\ n - (k + 1) + 1 = n - k
    OBVIOUS
  <2>2. after[k + 1] = Restart(after[(k + 1) - 1], n - (k + 1) + 1)
    BY <1>4, <2>1
  <2> QED BY <2>1, <2>2
<1> QED BY <1>5, <1>6, <1>7

LEMMA ExecutedIs ==
  ASSUME NEW s, Len(ops) \in Nat
  PROVE  \E f : f[0] = s /\ (\A k \in 0 .. Len(ops) - 1 : f[k + 1] = Execute(f[k], ops[k + 1])) /\ Executed(s) = f[Len(ops)]
<1> DEFINE Fold(f, m) == f = [k \in 0 .. m |-> IF k = 0 THEN s ELSE Execute(f[k - 1], ops[k])]
           Has(m) == \E f : Fold(f, m)
           S == {m \in 0 .. Len(ops) : Has(m)}
<1>1. 0 \in S
  <2>1. Fold([k \in 0 .. 0 |-> s], 0)
    OBVIOUS
  <2> HIDE DEF Fold
  <2>2. Has(0)
    BY <2>1
  <2> QED BY <2>2
<1>2. ASSUME NEW m \in 0 .. Len(ops) - 1, m \in S PROVE m + 1 \in S
  <2>1. PICK f : Fold(f, m)
    BY <1>2
  <2> DEFINE g == [k \in 0 .. m + 1 |-> IF k = 0 THEN s ELSE Execute(f[k - 1], ops[k])]
  <2> HIDE DEF Has
  <2>2. \A k \in 0 .. m : g[k] = f[k]
    BY <2>1
  <2>3. g = [k \in 0 .. m + 1 |-> IF k = 0 THEN s ELSE Execute(g[k - 1], ops[k])]
    <3>1. \A k \in 0 .. m + 1 : g[k] = IF k = 0 THEN s ELSE Execute(g[k - 1], ops[k])
      <4>1. \A k \in 0 .. m + 1 : k # 0 => k - 1 \in 0 .. m
        OBVIOUS
      <4>2. \A k \in 0 .. m + 1 : g[k] = IF k = 0 THEN s ELSE Execute(f[k - 1], ops[k])
        OBVIOUS
      <4> HIDE DEF g
      <4> QED BY <4>1, <4>2, <2>2
    <3>2. g = [k \in 0 .. m + 1 |-> g[k]]
      OBVIOUS
    <3> HIDE DEF g
    <3> QED BY <3>1, <3>2, Zenon
  <2>4. Has(m + 1)
    BY <2>3 DEF Has
  <2> QED BY <2>4
<1>3. Has(Len(ops))
  <2> HIDE DEF Has
  <2>1. S \in SUBSET (0 .. Len(ops))
    OBVIOUS
  <2> HIDE DEF S
  <2>2. \A k \in 0 .. Len(ops) : k \in S
    BY <1>1, <1>2, Induct
  <2> QED BY <2>2 DEF S
<1> DEFINE after == CHOOSE f : Fold(f, Len(ops))
<1>4. after = [k \in 0 .. Len(ops) |-> IF k = 0 THEN s ELSE Execute(after[k - 1], ops[k])]
  <2>1. Fold(after, Len(ops))
    BY <1>3, Zenon
  <2> QED BY <2>1
<1>5. Executed(s) = after[Len(ops)]
  BY DEF Executed
<1> HIDE DEF after, Fold, Has, S
<1>6. after[0] = s
  BY <1>4
<1>7. ASSUME NEW k \in 0 .. Len(ops) - 1 PROVE after[k + 1] = Execute(after[k], ops[k + 1])
  <2>1. k + 1 \in 0 .. Len(ops) /\ k + 1 # 0 /\ (k + 1) - 1 = k
    OBVIOUS
  <2>2. after[k + 1] = Execute(after[(k + 1) - 1], ops[k + 1])
    BY <1>4, <2>1
  <2> QED BY <2>1, <2>2
<1> QED BY <1>5, <1>6, <1>7

\* Where each timer is after an insertion, and where it was.
LEMMA InsertedPlaces ==
  ASSUME NEW l \in Seq(Node), NEW r, NEW t \in Timer, NEW ticks \in Nat, NEW i, Inserted(l, r, i, t, ticks)
  PROVE  /\ \A q \in 1 .. Len(r) :
              \/ q = i /\ r[q].timer = t /\ Until(r, q) = ticks
              \/ \E p \in 1 .. Len(l) : /\ r[q].timer = l[p].timer /\ Until(r, q) = Until(l, p)
                                        /\ (q < i /\ p = q) \/ (q > i /\ p = q - 1 /\ ticks <= Until(r, q))
         /\ \A p \in 1 .. Len(l) : \E q \in 1 .. Len(r) : r[q].timer = l[p].timer /\ Until(r, q) = Until(l, p)
         /\ i \in 1 .. Len(r) /\ r[i].timer = t /\ Until(r, i) = ticks
         /\ Timers(r) = Timers(l) \cup {t}
         /\ Distinct(l) /\ t \notin Timers(l) => Distinct(r)
<1>1. /\ Len(l) \in Nat /\ Len(r) = Len(l) + 1 /\ i \in 1 .. Len(l) + 1
      /\ \A k \in 1 .. i - 1 : r[k].timer = l[k].timer /\ Until(r, k) = Until(l, k)
      /\ r[i].timer = t /\ Until(r, i) = ticks
      /\ \A k \in i .. Len(l) : r[k + 1].timer = l[k].timer /\ Until(r, k + 1) = Until(l, k) /\ ticks <= Until(l, k)
  BY DEF Inserted
<1>2. ASSUME NEW q \in 1 .. Len(r)
      PROVE  \/ q = i /\ r[q].timer = t /\ Until(r, q) = ticks
             \/ \E p \in 1 .. Len(l) : /\ r[q].timer = l[p].timer /\ Until(r, q) = Until(l, p)
                                       /\ (q < i /\ p = q) \/ (q > i /\ p = q - 1 /\ ticks <= Until(r, q))
  <2>1. CASE q < i
    <3>1. q \in 1 .. i - 1 /\ q \in 1 .. Len(l)
      BY <2>1, <1>1
    <3> QED BY <3>1, <2>1, <1>1
  <2>2. CASE q > i
    <3>1. q - 1 \in i .. Len(l) /\ q - 1 \in 1 .. Len(l) /\ (q - 1) + 1 = q
      BY <2>2, <1>1
    <3>2. r[q].timer = l[q - 1].timer /\ Until(r, q) = Until(l, q - 1) /\ ticks <= Until(l, q - 1)
      BY <3>1, <1>1
    <3> QED BY <3>1, <3>2, <2>2
  <2> QED BY <2>1, <2>2, <1>1
<1>3. ASSUME NEW p \in 1 .. Len(l)
      PROVE  \E q \in 1 .. Len(r) : r[q].timer = l[p].timer /\ Until(r, q) = Until(l, p)
  <2>1. CASE p < i
    <3>1. p \in 1 .. i - 1 /\ p \in 1 .. Len(r)
      BY <2>1, <1>1
    <3> QED BY <3>1, <1>1
  <2>2. CASE ~(p < i)
    <3>1. p \in i .. Len(l) /\ p + 1 \in 1 .. Len(r)
      BY <2>2, <1>1
    <3> QED BY <3>1, <1>1
  <2> QED BY <2>1, <2>2
<1>4. Timers(r) = Timers(l) \cup {t}
  <2>1. \A u \in Timers(r) : u \in Timers(l) \cup {t}
    BY <1>2 DEF Timers
  <2>2. \A u \in Timers(l) : u \in Timers(r)
    BY <1>3 DEF Timers
  <2>3. t \in Timers(r)
    BY <1>1 DEF Timers
  <2> QED BY <2>1, <2>2, <2>3
<1>5. ASSUME Distinct(l), t \notin Timers(l) PROVE Distinct(r)
  <2> SUFFICES ASSUME NEW a \in 1 .. Len(r), NEW b \in 1 .. Len(r), r[a].timer = r[b].timer PROVE a = b
    BY DEF Distinct
  <2>1. \A p \in 1 .. Len(l) : l[p].timer # t
    BY <1>5 DEF Timers
  <2>2. \A p, q \in 1 .. Len(l) : l[p].timer = l[q].timer => p = q
    BY <1>5 DEF Distinct
  <2>3. CASE a = i
    <3>1. b = i
      BY <2>1, <2>3, <1>1, <1>2
    <3> QED BY <2>3, <3>1
  <2>4. CASE b = i
    <3>1. a = i
      BY <2>1, <2>4, <1>1, <1>2
    <3> QED BY <2>4, <3>1
  <2>5. CASE a # i /\ b # i
    <3>1. PICK p \in 1 .. Len(l) : r[a].timer = l[p].timer /\ ((a < i /\ p = a) \/ (a > i /\ p = a - 1))
      BY <2>5, <1>2
    <3>2. PICK q \in 1 .. Len(l) : r[b].timer = l[q].timer /\ ((b < i /\ q = b) \/ (b > i /\ q = b - 1))
      BY <2>5, <1>2
    <3>3. p = q
      BY <3>1, <3>2, <2>2
    <3> QED BY <3>1, <3>2, <3>3, <1>1
  <2> QED BY <2>3, <2>4, <2>5
<1> QED BY <1>1, <1>2, <1>3, <1>4, <1>5

\* The same after a removal.
LEMMA RemovedPlaces ==
  ASSUME NEW l \in Seq(Node), NEW r, NEW i, Removed(l, r, i), Distinct(l)
  PROVE  /\ \A q \in 1 .. Len(r) :
              \E p \in 1 .. Len(l) : /\ r[q].timer = l[p].timer /\ Until(r, q) = Until(l, p) /\ p # i
                                     /\ (q < i /\ p = q) \/ (q >= i /\ p = q + 1)
         /\ \A p \in 1 .. Len(l) : l[p].timer # l[i].timer =>
              \E q \in 1 .. Len(r) : r[q].timer = l[p].timer /\ Until(r, q) = Until(l, p)
         /\ Timers(r) = Timers(l) \ {l[i].timer}
         /\ Distinct(r)
<1>1. /\ Len(l) \in Nat /\ Len(r) = Len(l) - 1 /\ i \in 1 .. Len(l)
      /\ \A k \in 1 .. i - 1 : r[k].timer = l[k].timer /\ Until(r, k) = Until(l, k)
      /\ \A k \in i .. Len(l) - 1 : r[k].timer = l[k + 1].timer /\ Until(r, k) = Until(l, k + 1)
  BY DEF Removed
<1>2. ASSUME NEW q \in 1 .. Len(r)
      PROVE  \E p \in 1 .. Len(l) : /\ r[q].timer = l[p].timer /\ Until(r, q) = Until(l, p) /\ p # i
                                    /\ (q < i /\ p = q) \/ (q >= i /\ p = q + 1)
  <2>1. CASE q < i
    <3>1. q \in 1 .. i - 1 /\ q \in 1 .. Len(l)
      BY <2>1, <1>1
    <3> QED BY <3>1, <2>1, <1>1
  <2>2. CASE ~(q < i)
    <3>1. q \in i .. Len(l) - 1 /\ q + 1 \in 1 .. Len(l) /\ q + 1 # i /\ q >= i
      BY <2>2, <1>1
    <3>2. r[q].timer = l[q + 1].timer /\ Until(r, q) = Until(l, q + 1)
      BY <3>1, <1>1
    <3> QED BY <3>1, <3>2
  <2> QED BY <2>1, <2>2
<1>3. ASSUME NEW p \in 1 .. Len(l), p # i
      PROVE  \E q \in 1 .. Len(r) : r[q].timer = l[p].timer /\ Until(r, q) = Until(l, p)
  <2>1. CASE p < i
    <3>1. p \in 1 .. i - 1 /\ p \in 1 .. Len(r)
      BY <2>1, <1>1
    <3> QED BY <3>1, <1>1
  <2>2. CASE ~(p < i)
    <3>1. p - 1 \in i .. Len(l) - 1 /\ p - 1 \in 1 .. Len(r) /\ (p - 1) + 1 = p
      BY <2>2, <1>1, <1>3
    <3>2. r[p - 1].timer = l[p].timer /\ Until(r, p - 1) = Until(l, p)
      BY <3>1, <1>1
    <3> QED BY <3>1, <3>2
  <2> QED BY <2>1, <2>2
<1>4. \A p, q \in 1 .. Len(l) : l[p].timer = l[q].timer => p = q
  BY DEF Distinct
<1>5. Timers(r) = Timers(l) \ {l[i].timer}
  <2>1. ASSUME NEW u \in Timers(r) PROVE u \in Timers(l) /\ u # l[i].timer
    BY <2>1, <1>1, <1>2, <1>4 DEF Timers
  <2>2. ASSUME NEW u \in Timers(l), u # l[i].timer PROVE u \in Timers(r)
    BY <2>2, <1>3 DEF Timers
  <2> QED BY <2>1, <2>2
<1>6. Distinct(r)
  <2> SUFFICES ASSUME NEW a \in 1 .. Len(r), NEW b \in 1 .. Len(r), r[a].timer = r[b].timer PROVE a = b
    BY DEF Distinct
  <2>1. PICK p \in 1 .. Len(l) : r[a].timer = l[p].timer /\ ((a < i /\ p = a) \/ (a >= i /\ p = a + 1))
    BY <1>2
  <2>2. PICK q \in 1 .. Len(l) : r[b].timer = l[q].timer /\ ((b < i /\ q = b) \/ (b >= i /\ q = b + 1))
    BY <1>2
  <2>3. p = q
    BY <2>1, <2>2, <1>4
  <2> QED BY <2>1, <2>2, <2>3, <1>1
<1> QED BY <1>2, <1>3, <1>5, <1>6

\* The ticks that a check has counted; the list and m_ticks_latest are moved on by them.
Passed == Until(list, Checked)
Base == (latest + Passed) % Modulus
\* The head when the queued calls begin, unless a restarted timer is before it.
OldHead == IF Checked < Len(list) THEN list[Checked + 1].timer ELSE Off

LEMMA PassedIs ==
  ASSUME IInv
  PROVE  /\ Passed \in Count /\ Passed <= Elapsed /\ Base \in Count
         /\ Diff(hw.count, Base) = Elapsed - Passed
         /\ Acquired => passed.ticks[ReadIndex] = Passed
         /\ ~Acquired => Passed = 0 /\ Base = latest
         /\ \A i \in Checked + 1 .. Len(list) : Passed <= Until(list, i)
<1>1. /\ hw.count \in Count /\ latest \in Count /\ list \in Seq(Node) /\ Modulus \in Nat
      /\ Elapsed \in Count /\ Checked \in 0 .. Len(list) /\ (~Acquired => Checked = 0) /\ Until(list, 0) = 0
      /\ Passed \in Nat /\ Len(list) \in Nat
  BY Facts, Constants DEF IInv, Types, Passed
<1>2. Passed <= Elapsed
  <2>1. CASE Acquired
    BY <2>1 DEF IInv, CheckInv, Passed
  <2>2. CASE ~Acquired
    BY <2>2, <1>1 DEF Passed, Count
  <2> QED BY <2>1, <2>2
<1>3. Passed \in Count
  BY <1>1, <1>2 DEF Count
<1>4. Base \in Count /\ (Passed = 0 => Base = latest)
  <2>1. Base \in Count /\ Base = IF latest + Passed < Modulus THEN latest + Passed ELSE latest + Passed - Modulus
    BY <1>1, <1>3, MovedIs DEF Base
  <2> QED BY <2>1, <1>1 DEF Count
<1>5. Diff(hw.count, Base) = Elapsed - Passed
  BY <1>1, <1>2, <1>3, DiffMoves DEF Base, Elapsed
<1>6. Acquired => passed.ticks[ReadIndex] = Passed
  BY DEF IInv, CheckInv, Passed
<1>7. ~Acquired => Passed = 0
  BY <1>1 DEF Passed
<1>8. \A i \in Checked + 1 .. Len(list) : Passed <= Until(list, i)
  <2>1. \A i, j \in 0 .. Len(list) : i <= j => Until(list, i) <= Until(list, j)
    BY Facts
  <2> QED BY <2>1, <1>1 DEF Passed
<1> QED BY <1>2, <1>3, <1>4, <1>5, <1>6, <1>7, <1>8

\* The list handler's state when the expired timers have left the list.
LEMMA BeforeIs ==
  ASSUME IInv, NEW b, b = Handled.before
  PROVE  /\ b \in HandlerState /\ b.running = running /\ b.count = hw.count /\ b.latest = Base
         /\ b.reset = FALSE /\ b.removed = FALSE
         /\ Rest(list, b.list, Checked, Passed)
         /\ HeadOf(b) = OldHead /\ (~Acquired => b.list = list)
         /\ Handled.after = Executed(Restarted(b, Checked))
<1> DEFINE ticks == passed.ticks[ReadIndex]
           s0 == [list |-> list, running |-> running, count |-> hw.count, latest |-> latest,
                  reset |-> FALSE, removed |-> FALSE]
           n == IF Acquired THEN CountExpired(list, ticks) ELSE 0
           s1 == IF Acquired THEN [Expired(s0, ticks, n) EXCEPT !.latest = (@ + ticks) % Modulus] ELSE s0
<1>1. Handled = [before |-> s1, after |-> Executed(Restarted(s1, n))]
  BY DEF Handled
<1>2. b = s1
  BY <1>1
<1>3. n = Checked
  BY DEF Checked
<1> HIDE DEF n, ticks
<1>4. Handled.after = Executed(Restarted(b, Checked))
  <2> HIDE DEF s1
  <2> QED BY <1>1, <1>2, <1>3
<1>5. list \in Seq(Node) /\ running \in SUBSET Timer /\ hw.count \in Count /\ latest \in Count
  BY DEF IInv, Types
<1>6. /\ Passed \in Nat /\ Base \in Count /\ (Acquired => ticks = Passed) /\ (~Acquired => Passed = 0 /\ Base = latest)
      /\ \A i \in Checked + 1 .. Len(list) : Passed <= Until(list, i)
  BY PassedIs, Constants DEF ticks, Count
<1>7. /\ Checked \in 0 .. Len(list) /\ Len(list) \in Nat /\ (~Acquired => Checked = 0)
      /\ \A i \in 0 .. Len(list) : Until(list, i) \in Nat
  BY Facts
<1>8. /\ b \in HandlerState /\ b.running = running /\ b.count = hw.count /\ b.latest = Base
      /\ b.reset = FALSE /\ b.removed = FALSE /\ Rest(list, b.list, Checked, Passed)
      /\ ~Acquired => b.list = list
  <2>1. CASE Acquired
    <3> DEFINE r == Shift(SubSeq(list, Checked + 1, Len(list)), 1, Until(list, Checked) - Passed)
    <3>1. Rest(list, r, Checked, Passed)
      BY <1>5, <1>6, <1>7, ExpiredIs
    <3>2. b = [list |-> r, running |-> running, count |-> hw.count, latest |-> Base, reset |-> FALSE, removed |-> FALSE]
      <4>1. ticks = Passed /\ n = Checked
        BY <2>1, <1>3, <1>6
      <4>2. b = [Expired(s0, Passed, Checked) EXCEPT !.latest = (@ + Passed) % Modulus]
        BY <2>1, <1>2, <4>1
      <4>3. Expired(s0, Passed, Checked) = [s0 EXCEPT !.list = r]
        BY DEF Expired
      <4> HIDE DEF r
      <4>4. Expired(s0, Passed, Checked) = [list |-> r, running |-> running, count |-> hw.count, latest |-> latest,
                                            reset |-> FALSE, removed |-> FALSE]
        BY <4>3
      <4> DEFINE e == Expired(s0, Passed, Checked)
      <4>5. e.latest = latest
        BY <4>4
      <4>6. b = [e EXCEPT !.latest = Base]
        BY <4>2, <4>5, Zenon DEF Base
      <4>7. e = [list |-> r, running |-> running, count |-> hw.count, latest |-> latest,
                 reset |-> FALSE, removed |-> FALSE]
        BY <4>4
      <4> HIDE DEF e
      <4> QED BY <4>6, <4>7
    <3>3. r \in Seq(Node)
      BY <3>1 DEF Rest
    <3> HIDE DEF r
    <3> QED BY <3>1, <3>2, <3>3, <1>5, <1>6, <2>1 DEF HandlerState
  <2>2. CASE ~Acquired
    <3>1. b = s0
      BY <2>2, <1>2
    <3>2. Rest(list, list, Checked, Passed)
      <4>1. Checked = 0 /\ Passed = 0 /\ \A k \in 1 .. Len(list) : k + 0 = k /\ Until(list, k) - 0 = Until(list, k)
        BY <2>2, <1>6, <1>7
      <4> QED BY <4>1, <1>5, <1>7 DEF Rest
    <3>3. b \in HandlerState
      BY <3>1, <1>5 DEF HandlerState
    <3> QED BY <3>1, <3>2, <3>3, <1>6, <2>2
  <2> QED BY <2>1, <2>2
<1>9. HeadOf(b) = OldHead
  <2>1. b.list \in Seq(Node) /\ Len(b.list) = Len(list) - Checked /\ \A k \in 1 .. Len(list) - Checked : b.list[k].timer = list[k + Checked].timer
    BY <1>8 DEF Rest
  <2>2. b.list = <<>> <=> Len(b.list) = 0
    BY <2>1
  <2>3. CASE Checked < Len(list)
    <3>1. 1 \in 1 .. Len(list) - Checked /\ 1 + Checked = Checked + 1 /\ Len(b.list) # 0
      BY <2>1, <2>3, <1>7
    <3>2. b.list[1].timer = list[Checked + 1].timer
      BY <3>1, <2>1
    <3> QED BY <2>2, <2>3, <3>1, <3>2 DEF HeadOf, OldHead
  <2>4. CASE ~(Checked < Len(list))
    <3>1. Len(b.list) = 0
      BY <2>1, <2>4, <1>7
    <3> QED BY <2>2, <2>4, <3>1 DEF HeadOf, OldHead
  <2> QED BY <2>3, <2>4
<1> QED BY <1>4, <1>8, <1>9

\* A periodic timer is inserted again at its next tick.
LEMMA RestartTicks ==
  ASSUME IInv, NEW s, s.latest = Base, NEW i \in 1 .. Checked, Period[list[i].timer] # 0
  PROVE  /\ TicksToExpire(s, (latest + Until(list, i)) % Modulus, Period[list[i].timer]) = Due(list, Checked, i) - Passed
         /\ Due(list, Checked, i) - Passed \in Nat /\ Elapsed <= Due(list, Checked, i)
         /\ Due(list, Checked, i) - Passed + Late < Modulus
<1> DEFINE u == Until(list, i)
           p == Period[list[i].timer]
           at == (latest + u) % Modulus
<1>1. /\ Checked \in 0 .. Len(list) /\ Len(list) \in Nat /\ i \in 1 .. Len(list)
      /\ u \in Nat /\ u <= Passed /\ Passed \in Count /\ Passed <= Elapsed /\ Elapsed \in Count
  <2>1. Checked \in 0 .. Len(list) /\ Len(list) \in Nat /\ Elapsed \in Count
    BY Facts
  <2>2. i \in 1 .. Len(list)
    BY <2>1
  <2>3. u \in Nat /\ u <= Passed
    BY <2>1, <2>2, Facts DEF Passed
  <2> QED BY <2>1, <2>2, <2>3, PassedIs
<1>2. /\ latest \in Count /\ Modulus \in Nat /\ Late \in Nat /\ 2 * Late <= Modulus /\ Half \in Nat /\ 2 * Half <= Modulus - 1
      /\ waited \in 0 .. Latency /\ Latency \in Nat
  BY Constants, TimerAssumption DEF IInv, Types
<1>3. list[i].timer \in Timer
  BY <1>1, NodesAre DEF IInv, Types
<1>4. p \in Nat /\ p # 0 /\ p >= Late /\ p + Late < Modulus
  BY <1>3, TimerAssumption
<1>5. Due(list, Checked, i) = u + p
  BY DEF Due
<1>6. Elapsed <= u + Late
  <2>1. Room(i) \in Nat /\ Room(i) + Latency <= Late
    BY <1>1, Facts
  <2>2. Elapsed <= u + Room(i) + waited
    BY <1>1 DEF IInv, WaitInv
  <2> QED BY <2>1, <2>2, <1>1, <1>2 DEF Count
<1>7. u \in Count
  BY <1>1, <1>2 DEF Count
<1>8. at \in Count /\ Base \in Count /\ Diff(at, latest) = u /\ Diff(Base, latest) = Passed
  BY <1>1, <1>2, <1>7, MovedIs, DiffMoves DEF Base
<1>9. Diff(Base, at) = Passed - u
  BY <1>8, <1>1, <1>2, DiffDiffers
<1>10. Diff(at, Base) = IF u = Passed THEN 0 ELSE u - Passed + Modulus
  <2>1. Diff(at, Base) = IF Passed <= Diff(at, latest) THEN Diff(at, latest) - Passed ELSE Diff(at, latest) - Passed + Modulus
    BY <1>8, <1>1, <1>2, DiffMoves DEF Base
  <2> QED BY <2>1, <1>8, <1>1 DEF Count
<1> HIDE DEF u, p, at
<1>11. TicksToExpire(s, at, p) = u + p - Passed
  <2>1. TicksToExpire(s, at, p) = IF Diff(at, Base) < Half THEN Diff(at, Base) + p
                                  ELSE IF p > Passed - u THEN p - (Passed - u) ELSE 0
    BY <1>9 DEF TicksToExpire
  <2>2. CASE u = Passed
    <3>1. Diff(at, Base) = 0 /\ Passed - u = 0
      BY <2>2, <1>10, <1>1
    <3> QED BY <2>1, <2>2, <3>1, <1>1, <1>4
  <2>3. CASE u # Passed
    <3>1. Diff(at, Base) = u - Passed + Modulus /\ Passed - u <= Late /\ Passed \in Nat
      BY <2>3, <1>10, <1>1, <1>2, <1>6 DEF Count
    <3>2. ~(Diff(at, Base) < Half)
      BY <3>1, <1>1, <1>2
    <3>3. p - (Passed - u) = u + p - Passed /\ (~(p > Passed - u) => u + p - Passed = 0)
      BY <3>1, <1>1, <1>2, <1>4
    <3> QED BY <2>1, <3>2, <3>3
  <2> QED BY <2>2, <2>3
<1>12. u + p - Passed \in Nat /\ Elapsed <= u + p /\ u + p - Passed + Late < Modulus
  BY <1>1, <1>2, <1>4, <1>6 DEF Count
<1> DEFINE due == Due(list, Checked, i)
<1>13. due = u + p
  BY <1>5
<1> HIDE DEF due
<1>14. TicksToExpire(s, at, p) = due - Passed /\ due - Passed \in Nat /\ Elapsed <= due /\ due - Passed + Late < Modulus
  BY <1>11, <1>12, <1>13, <1>1, <1>2, <1>4 DEF Count
<1> QED BY <1>14 DEF p, at, u, due

\* The counter of the list handler, and m_ticks_latest.
Clock(s) == IF s.reset THEN s.count = 0 /\ s.latest = 0 ELSE s.count = hw.count /\ s.latest = Base
Since(s) == Diff(s.count, s.latest)

LEMMA ClockIs ==
  ASSUME IInv, NEW s, Clock(s)
  PROVE  /\ s.count \in Count /\ s.latest \in Count /\ Since(s) \in Nat
         /\ Since(s) = IF s.reset THEN 0 ELSE Elapsed - Passed
<1>1. 0 \in Count /\ hw.count \in Count /\ Base \in Count
  BY Constants, PassedIs DEF IInv, Types, Count
<1>2. s.count \in Count /\ s.latest \in Count
  BY <1>1 DEF Clock
<1>3. Since(s) \in Nat
  BY <1>2, DiffIsNat DEF Since
<1>4. CASE s.reset
  BY <1>1, <1>2, <1>3, <1>4, DiffDiffers DEF Clock, Since
<1>5. CASE ~s.reset
  BY <1>2, <1>3, <1>5, PassedIs DEF Clock, Since
<1> QED BY <1>2, <1>3, <1>4, <1>5

\* When a timer that was started expires, by the list handler's clock.
LEMMA StartTicks ==
  ASSUME IInv, NEW j \in 1 .. Len(ops), ops[j].type = "START", NEW s, Clock(s), NEW ticks,
         ticks = TicksToExpire(s, StartedAt(s, ops[j].at), ops[j].first)
  PROVE  /\ ticks \in Nat /\ ticks + Late < Modulus
         /\ Since(s) <= ticks - 1 + waited
         /\ ops[j].first - (Elapsed - Diff(ops[j].at, latest)) <= ticks - Since(s)
         /\ ticks - Since(s) - Latency <= ops[j].first - waited
<1> DEFINE at == ops[j].at
           d == ops[j].first
           x == Diff(at, latest)
<1>1. ops[j].timer \in Timer /\ at \in Count /\ d \in Nat /\ d >= 1 /\ x \in Nat
  BY CallsAre
<1>2. x < Half /\ x <= Elapsed /\ Elapsed - x <= waited /\ x + d + Late < Modulus
  BY DEF IInv, StartTime
<1>3. /\ latest \in Count /\ Modulus \in Nat /\ Late \in Nat /\ Half \in Nat /\ 2 * Half <= Modulus - 1 /\ 2 * Late <= Modulus
      /\ waited \in 0 .. Latency /\ Latency \in Nat /\ Late >= 1
  BY Constants, TimerAssumption DEF IInv, Types
<1>4. 2 * Latency + 1 <= Late
  <2>1. N >= 1
    <3>1. Cardinality(Timer) # 0
      BY <1>1, FS_EmptySet, TimerAssumption
    <3> QED BY <3>1, Constants DEF N
  <2>2. 1 \in 1 .. N
    BY <2>1, Constants
  <2>3. Room(1) \in Nat /\ Room(1) >= Offset + Latency /\ Room(1) + Latency <= Late
    BY <2>2, Rooms
  <2>4. Offset \in Nat /\ Offset >= 1
    BY TimerAssumption
  <2> QED BY <2>3, <2>4, <1>3
<1>5. /\ Elapsed \in Nat /\ Passed \in Count /\ Passed <= Elapsed /\ Base \in Count
  BY Facts, PassedIs, Constants DEF Count
<1>6. Since(s) = IF s.reset THEN 0 ELSE Elapsed - Passed
  BY ClockIs
<1>7. CASE s.reset
  <2>1. s.latest = 0 /\ StartedAt(s, at) = 0 /\ 0 \in Count /\ Diff(0, 0) = 0
    BY <1>7, Constants, DiffDiffers DEF Clock, StartedAt, Count
  <2>2. ticks = IF 0 < Half THEN 0 + d ELSE IF d > 0 THEN d - 0 ELSE 0
    BY <2>1 DEF TicksToExpire
  <2> HIDE DEF at, d, x
  <2>3. ticks = d
    BY <2>2, <1>1
  <2>4. Since(s) = 0
    BY <1>6, <1>7
  <2>5. /\ ticks \in Nat /\ ticks + Late < Modulus /\ 0 <= ticks - 1 + waited
        /\ d - (Elapsed - x) <= ticks - 0 /\ ticks - 0 - Latency <= d - waited
    BY <2>3, <1>1, <1>2, <1>3, <1>5
  <2> QED BY <2>4, <2>5 DEF at, d, x
<1>8. CASE ~s.reset
  <2>1. s.latest = Base /\ StartedAt(s, at) = at /\ Since(s) = Elapsed - Passed
    BY <1>8, <1>6 DEF Clock, StartedAt
  <2>2. Diff(at, Base) = IF Passed <= x THEN x - Passed ELSE x - Passed + Modulus
    BY SMTT(30), <1>1, <1>3, <1>5, DiffMoves DEF Base
  <2>3. ~(Passed <= x) => Diff(Base, at) = Passed - x
    <3>1. Diff(Base, latest) = Passed
      BY <1>1, <1>3, <1>5, DiffMoves DEF Base
    <3>2. Diff(at, latest) <= Diff(Base, latest) => Diff(Base, at) = Diff(Base, latest) - Diff(at, latest)
      BY <1>1, <1>3, <1>5, DiffDiffers
    <3>3. Passed \in Nat
      BY <1>5, <1>3 DEF Count
    <3> QED BY <3>1, <3>2, <3>3, <1>1
  <2>4. ticks = IF Diff(at, Base) < Half THEN Diff(at, Base) + d
                ELSE IF d > Diff(Base, at) THEN d - Diff(Base, at) ELSE 0
    BY <2>1 DEF TicksToExpire
  <2> HIDE DEF at, d, x
  <2>5. CASE Passed <= x
    <3>1. ticks = x - Passed + d
      BY <2>2, <2>4, <2>5, <1>1, <1>2, <1>3, <1>5 DEF Count
    <3>2. /\ ticks \in Nat /\ ticks + Late < Modulus /\ Elapsed - Passed <= ticks - 1 + waited
          /\ d - (Elapsed - x) <= ticks - (Elapsed - Passed) /\ ticks - (Elapsed - Passed) - Latency <= d - waited
      BY <3>1, <2>5, <1>1, <1>2, <1>3, <1>5 DEF Count
    <3> QED BY <3>2, <2>1 DEF at, d, x
  <2>6. CASE ~(Passed <= x)
    <3>1. Passed - x <= waited /\ ~(x - Passed + Modulus < Half)
      BY <2>6, <1>1, <1>2, <1>3, <1>4, <1>5 DEF Count
    <3>2. ticks = IF d > Passed - x THEN d - (Passed - x) ELSE 0
      BY <3>1, <2>2, <2>3, <2>4, <2>6
    <3>3. /\ ticks \in Nat /\ ticks + Late < Modulus /\ Elapsed - Passed <= ticks - 1 + waited
          /\ d - (Elapsed - x) <= ticks - (Elapsed - Passed) /\ ticks - (Elapsed - Passed) - Latency <= d - waited
      BY <3>1, <3>2, <2>6, <1>1, <1>2, <1>3, <1>5 DEF Count
    <3> QED BY <3>3, <2>1 DEF at, d, x
  <2> QED BY <2>5, <2>6
<1> QED BY <1>7, <1>8

\* The state when k of the checked timers have been handled: the last ones, that are
\* back in the list if they are periodic.
Again(k, i) == i > Checked - k /\ (i <= Checked => Period[list[i].timer] # 0)
Restarting(s, k) ==
  /\ s \in HandlerState /\ Distinct(s.list)
  /\ s.count = hw.count /\ s.latest = Base /\ s.reset = FALSE /\ s.removed = FALSE
  /\ \A q \in 1 .. Len(s.list) : \E i \in 1 .. Len(list) :
       Again(k, i) /\ s.list[q].timer = list[i].timer /\ Until(s.list, q) = Due(list, Checked, i) - Passed
  /\ \A i \in 1 .. Len(list) : Again(k, i) => \E q \in 1 .. Len(s.list) :
       s.list[q].timer = list[i].timer /\ Until(s.list, q) = Due(list, Checked, i) - Passed
  /\ running \subseteq s.running
  /\ \A t \in s.running : t \in running \/ \E i \in 1 .. Checked : Again(k, i) /\ list[i].timer = t
  /\ \A i \in 1 .. Checked : Again(k, i) => list[i].timer \in s.running

LEMMA RestartBegins ==
  ASSUME IInv, NEW b, b = Handled.before
  PROVE  Restarting(b, 0)
<1>1. /\ b \in HandlerState /\ b.running = running /\ b.count = hw.count /\ b.latest = Base
      /\ b.reset = FALSE /\ b.removed = FALSE /\ Rest(list, b.list, Checked, Passed)
  BY BeforeIs
<1>2. /\ b.list \in Seq(Node) /\ Len(b.list) = Len(list) - Checked
      /\ \A k \in 1 .. Len(list) - Checked : b.list[k].timer = list[k + Checked].timer /\ Until(b.list, k) = Until(list, k + Checked) - Passed
  BY <1>1 DEF Rest
<1>3. Checked \in 0 .. Len(list) /\ Len(list) \in Nat /\ \A i \in 0 .. Len(list) : Until(list, i) \in Nat
  BY Facts
<1>4. \A i, j \in 1 .. Len(list) : list[i].timer = list[j].timer => i = j
  BY DEF IInv, ListInv, Distinct
<1>5. Distinct(b.list)
  <2> SUFFICES ASSUME NEW p \in 1 .. Len(b.list), NEW q \in 1 .. Len(b.list), b.list[p].timer = b.list[q].timer PROVE p = q
    BY DEF Distinct
  <2>1. p + Checked \in 1 .. Len(list) /\ q + Checked \in 1 .. Len(list)
    BY <1>2, <1>3
  <2>2. list[p + Checked].timer = list[q + Checked].timer
    BY <1>2
  <2>3. p + Checked = q + Checked
    BY <2>1, <2>2, <1>4
  <2> QED BY <2>3, <1>2, <1>3
<1>6. \A i \in 1 .. Len(list) : Again(0, i) <=> i > Checked
  BY <1>3 DEF Again
<1>7. \A i \in 1 .. Len(list) : i > Checked => Due(list, Checked, i) = Until(list, i)
  BY <1>3 DEF Due
<1>8. ASSUME NEW q \in 1 .. Len(b.list)
      PROVE  \E i \in 1 .. Len(list) :
               Again(0, i) /\ b.list[q].timer = list[i].timer /\ Until(b.list, q) = Due(list, Checked, i) - Passed
  <2>1. q + Checked \in 1 .. Len(list) /\ q + Checked > Checked
    BY <1>2, <1>3
  <2>2. Again(0, q + Checked) /\ Due(list, Checked, q + Checked) = Until(list, q + Checked)
    BY <2>1, <1>6, <1>7
  <2> QED BY <2>1, <2>2, <1>2
<1>9. ASSUME NEW i \in 1 .. Len(list), Again(0, i)
      PROVE  \E q \in 1 .. Len(b.list) : b.list[q].timer = list[i].timer /\ Until(b.list, q) = Due(list, Checked, i) - Passed
  <2>1. i - Checked \in 1 .. Len(b.list) /\ i > Checked /\ (i - Checked) + Checked = i
    BY <1>2, <1>3, <1>6, <1>9
  <2>2. b.list[i - Checked].timer = list[i].timer /\ Until(b.list, i - Checked) = Until(list, i) - Passed
    BY <2>1, <1>2
  <2> QED BY <2>1, <2>2, <1>7
<1>10. \A i \in 1 .. Checked : ~Again(0, i)
  BY <1>3 DEF Again
<1> QED BY <1>1, <1>5, <1>8, <1>9, <1>10 DEF Restarting

LEMMA RestartStep ==
  ASSUME IInv, NEW k \in 0 .. Checked - 1, NEW s, Restarting(s, k)
  PROVE  Restarting(Restart(s, Checked - k), k + 1)
<1> DEFINE n == Checked - k
           t == list[n].timer
           r == Restart(s, n)
<1>1. /\ Checked \in 0 .. Len(list) /\ Len(list) \in Nat /\ Passed \in Nat
      /\ n \in 1 .. Checked /\ n \in 1 .. Len(list)
  <2>1. Checked \in 0 .. Len(list) /\ Len(list) \in Nat /\ Passed \in Nat
    BY Facts, PassedIs, Constants DEF Count
  <2> QED BY <2>1
<1>2. t \in Timer /\ Period[t] \in Nat
  <2>1. t \in Timer
    BY <1>1, NodesAre DEF IInv, Types
  <2> QED BY <2>1, TimerAssumption
<1>3. \A i, j \in 1 .. Len(list) : list[i].timer = list[j].timer => i = j
  BY DEF IInv, ListInv, Distinct
<1>4. \A i \in 1 .. Len(list) : Again(k + 1, i) <=> Again(k, i) \/ (i = n /\ Period[t] # 0)
  <2> SUFFICES ASSUME NEW i \in 1 .. Len(list)
               PROVE  Again(k + 1, i) <=> Again(k, i) \/ (i = n /\ Period[t] # 0)
    OBVIOUS
  <2>1. i > Checked - (k + 1) <=> i > Checked - k \/ i = Checked - k
    BY <1>1
  <2> QED BY <2>1, <1>1 DEF Again
<1>5. ~Again(k, n)
  BY <1>1 DEF Again
<1>6. \A i \in 1 .. Checked : i \in 1 .. Len(list)
  BY <1>1
<1>7. CASE Period[t] = 0
  <2>1. r = s
    BY <1>7 DEF Restart
  <2>2. \A i \in 1 .. Len(list) : Again(k + 1, i) <=> Again(k, i)
    BY <1>4, <1>7
  <2> HIDE DEF r, t, n
  <2>3. Restarting(s, k + 1)
    BY <2>2, <1>6 DEF Restarting
  <2> QED BY <2>1, <2>3 DEF r, n
<1>8. CASE Period[t] # 0
  <2> DEFINE ticks == Due(list, Checked, n) - Passed
  <2>1. r = ListInsert(s, t, ticks) /\ ticks \in Nat
    <3>1. s.latest = Base
      BY DEF Restarting
    <3>2. /\ TicksToExpire(s, (latest + Until(list, n)) % Modulus, Period[t]) = ticks
          /\ ticks \in Nat
      BY <3>1, <1>1, <1>8, RestartTicks
    <3> HIDE DEF ticks
    <3> QED BY <3>2, <1>8 DEF Restart
  <2> HIDE DEF r
  <2>2. s \in HandlerState /\ s.list \in Seq(Node) /\ Distinct(s.list) /\ s.running \in SUBSET Timer
    BY DEF Restarting, HandlerState
  <2>3. r = [s EXCEPT !.list = r.list, !.running = @ \cup {t}]
    BY <2>1, <2>2, <1>2, InsertIs
  <2>4. PICK p \in 1 .. Len(s.list) + 1 : Inserted(s.list, r.list, p, t, ticks)
    BY <2>1, <2>2, <1>2, InsertIs
  <2>5. t \notin Timers(s.list)
    <3> SUFFICES ASSUME NEW q \in 1 .. Len(s.list), s.list[q].timer = t PROVE FALSE
      BY DEF Timers
    <3>1. PICK i \in 1 .. Len(list) : Again(k, i) /\ list[i].timer = t
      BY DEF Restarting
    <3>2. i = n
      BY <3>1, <1>1, <1>3
    <3> QED BY <3>1, <3>2, <1>5
  <2>6. r.list \in Seq(Node)
    BY <2>4 DEF Inserted
  <2>7. /\ r \in HandlerState /\ r.count = s.count /\ r.latest = s.latest /\ r.reset = s.reset /\ r.removed = s.removed
        /\ r.running = s.running \cup {t}
    <3> DEFINE l == r.list
    <3>1. r = [s EXCEPT !.list = l, !.running = @ \cup {t}] /\ l \in Seq(Node)
      BY <2>3, <2>6
    <3> HIDE DEF l
    <3>2. s.running \cup {t} \in SUBSET Timer
      BY <2>2, <1>2
    <3> QED BY <3>1, <3>2, <2>2 DEF HandlerState
  <2> HIDE DEF ticks
  <2>8. /\ \A q \in 1 .. Len(r.list) :
             \/ r.list[q].timer = t /\ Until(r.list, q) = ticks
             \/ \E m \in 1 .. Len(s.list) : r.list[q].timer = s.list[m].timer /\ Until(r.list, q) = Until(s.list, m)
        /\ \A m \in 1 .. Len(s.list) : \E q \in 1 .. Len(r.list) : r.list[q].timer = s.list[m].timer /\ Until(r.list, q) = Until(s.list, m)
        /\ p \in 1 .. Len(r.list) /\ r.list[p].timer = t /\ Until(r.list, p) = ticks
        /\ Distinct(r.list)
    <3> DEFINE l == s.list
               new == r.list
    <3>1. l \in Seq(Node) /\ Inserted(l, new, p, t, ticks) /\ ticks \in Nat /\ t \in Timer /\ Distinct(l) /\ t \notin Timers(l)
      BY <2>1, <2>2, <2>4, <2>5, <1>2
    <3> HIDE DEF l, new, t, n
    <3>2. \A q \in 1 .. Len(new) :
              \/ q = p /\ new[q].timer = t /\ Until(new, q) = ticks
              \/ \E m \in 1 .. Len(l) : /\ new[q].timer = l[m].timer /\ Until(new, q) = Until(l, m)
                                        /\ (q < p /\ m = q) \/ (q > p /\ m = q - 1 /\ ticks <= Until(new, q))
      BY <3>1, InsertedPlaces
    <3>3. /\ \A m \in 1 .. Len(l) : \E q \in 1 .. Len(new) : new[q].timer = l[m].timer /\ Until(new, q) = Until(l, m)
          /\ p \in 1 .. Len(new) /\ new[p].timer = t /\ Until(new, p) = ticks
          /\ Distinct(new)
      BY <3>1, InsertedPlaces
    <3> QED BY <3>2, <3>3 DEF l, new
  <2> HIDE DEF t, n
  <2>9. ASSUME NEW q \in 1 .. Len(r.list)
        PROVE  \E i \in 1 .. Len(list) :
                 Again(k + 1, i) /\ r.list[q].timer = list[i].timer /\ Until(r.list, q) = Due(list, Checked, i) - Passed
    <3>1. CASE r.list[q].timer = t /\ Until(r.list, q) = ticks
      <4>1. Again(k + 1, n) /\ t = list[n].timer /\ ticks = Due(list, Checked, n) - Passed
        BY <1>1, <1>4, <1>8 DEF t, ticks
      <4> QED BY <3>1, <4>1, <1>1
    <3>2. ASSUME NEW m \in 1 .. Len(s.list), r.list[q].timer = s.list[m].timer, Until(r.list, q) = Until(s.list, m)
          PROVE  \E i \in 1 .. Len(list) :
                   Again(k + 1, i) /\ r.list[q].timer = list[i].timer /\ Until(r.list, q) = Due(list, Checked, i) - Passed
      <4>1. PICK i \in 1 .. Len(list) : Again(k, i) /\ s.list[m].timer = list[i].timer /\ Until(s.list, m) = Due(list, Checked, i) - Passed
        BY DEF Restarting
      <4> QED BY <4>1, <3>2, <1>4
    <3> QED BY <3>1, <3>2, <2>8
  <2>10. ASSUME NEW i \in 1 .. Len(list), Again(k + 1, i)
         PROVE  \E q \in 1 .. Len(r.list) : r.list[q].timer = list[i].timer /\ Until(r.list, q) = Due(list, Checked, i) - Passed
    <3>1. CASE i = n
      <4>1. t = list[i].timer /\ ticks = Due(list, Checked, i) - Passed
        BY <3>1 DEF t, ticks
      <4> QED BY <4>1, <2>8
    <3>2. CASE Again(k, i)
      <4>1. PICK m \in 1 .. Len(s.list) : s.list[m].timer = list[i].timer /\ Until(s.list, m) = Due(list, Checked, i) - Passed
        BY <3>2 DEF Restarting
      <4>2. PICK q \in 1 .. Len(r.list) : r.list[q].timer = s.list[m].timer /\ Until(r.list, q) = Until(s.list, m)
        BY <2>8
      <4> QED BY <4>1, <4>2
    <3> QED BY <3>1, <3>2, <1>4, <2>10
  <2>11. running \subseteq r.running
    BY <2>7 DEF Restarting
  <2>12. ASSUME NEW u \in r.running
         PROVE  u \in running \/ \E i \in 1 .. Checked : Again(k + 1, i) /\ list[i].timer = u
    <3>1. CASE u = t
      BY <3>1, <1>1, <1>4, <1>8 DEF t
    <3>2. CASE u \in s.running
      <4>1. u \in running \/ \E i \in 1 .. Checked : Again(k, i) /\ list[i].timer = u
        BY <3>2 DEF Restarting
      <4> QED BY <4>1, <1>4, <1>6
    <3> QED BY <3>1, <3>2, <2>7
  <2>13. ASSUME NEW i \in 1 .. Checked, Again(k + 1, i) PROVE list[i].timer \in r.running
    <3>1. CASE i = n
      BY <3>1, <2>7 DEF t
    <3>2. CASE Again(k, i)
      BY <3>2, <2>7 DEF Restarting
    <3> QED BY <3>1, <3>2, <1>4, <1>6, <2>13
  <2>14. r.count = hw.count /\ r.latest = Base /\ r.reset = FALSE /\ r.removed = FALSE
    BY <2>7 DEF Restarting
  <2>15. Restarting(r, k + 1)
    BY <2>7, <2>8, <2>9, <2>10, <2>11, <2>12, <2>13, <2>14 DEF Restarting
  <2> QED BY <2>15 DEF r, n
<1> QED BY <1>7, <1>8

LEMMA RestartEnds ==
  ASSUME IInv, NEW b, b = Handled.before
  PROVE  Restarting(Restarted(b, Checked), Checked) /\ (~Acquired => Restarted(b, Checked) = b)
<1>1. Checked \in Nat /\ (~Acquired => Checked = 0)
  BY Facts
<1>2. PICK f : f[0] = b /\ (\A k \in 0 .. Checked - 1 : f[k + 1] = Restart(f[k], Checked - k)) /\ Restarted(b, Checked) = f[Checked]
  BY <1>1, RestartedIs
<1> DEFINE S == {k \in 0 .. Checked : Restarting(f[k], k)}
<1>3. 0 \in S
  BY <1>1, <1>2, RestartBegins
<1>4. ASSUME NEW k \in 0 .. Checked - 1, k \in S PROVE k + 1 \in S
  <2>1. Restarting(f[k], k) /\ k + 1 \in 0 .. Checked
    BY <1>1, <1>4
  <2>2. Restarting(Restart(f[k], Checked - k), k + 1)
    BY <2>1, RestartStep
  <2>3. f[k + 1] = Restart(f[k], Checked - k)
    BY <1>2
  <2> QED BY <2>1, <2>2, <2>3
<1> HIDE DEF S
<1>5. \A k \in 0 .. Checked : k \in S
  BY <1>1, <1>3, <1>4, Induct
<1>6. Restarting(f[Checked], Checked)
  BY <1>1, <1>5 DEF S
<1> QED BY <1>1, <1>2, <1>6

LEMMA RoomIs ==
  ASSUME NEW l \in Seq(Node), Distinct(l)
  PROVE  \A q \in 1 .. Len(l) : /\ Room(q) \in Nat /\ Room(q) >= Offset + Latency /\ Room(q) + Latency <= Late
                                /\ q # 1 => Room(q - 1) = Room(q) + Offset - 1
<1> SUFFICES ASSUME NEW q \in 1 .. Len(l)
             PROVE  /\ Room(q) \in Nat /\ Room(q) >= Offset + Latency /\ Room(q) + Latency <= Late
                    /\ q # 1 => Room(q - 1) = Room(q) + Offset - 1
  OBVIOUS
<1>1. Len(l) \in Nat /\ Len(l) <= N /\ N \in Nat
  BY AtMostAll, Constants
<1>2. q \in 1 .. N /\ (q # 1 => q \in 2 .. N)
  BY <1>1
<1> QED BY <1>2, Rooms

\* What is queued after the first k calls.
StopLater(k, t) == \E j \in k + 1 .. Len(ops) : IsStop(ops[j], t)
StartLater(k, t) == \E j \in k + 1 .. Len(ops) : IsStart(ops[j], t)

\* A state s of the list handler when k of the queued calls are executed:
Sound(s) ==
  /\ s \in HandlerState /\ Distinct(s.list) /\ Clock(s) /\ (s.reset => s.removed)
  /\ \A q \in 1 .. Len(s.list) : /\ Until(s.list, q) + Late < Modulus
                                 /\ Since(s) <= Until(s.list, q) + Room(q) + waited
\* what the users know of the timers, given the calls that are still to come,
Runs(s, k) == \A t \in s.running : t \in Timers(s.list) /\ (left[t] \in Int \/ StopLater(k, t))
Noted(s, k, t, until) ==
  /\ left[t] = Off => StopLater(k, t)
  /\ t \notin s.running => StopLater(k, t) \/ (call.pc = "queue" /\ t \in call.timers)
  /\ call.pc = "return" /\ t \in call.timers => StopLater(k, t)
  /\ left[t] \in Int /\ ~StartLater(k, t) => left[t] <= until - Since(s)
Listed(s, k) == \A q \in 1 .. Len(s.list) : Noted(s, k, s.list[q].timer, Until(s.list, q))
Fresh(s, k) ==
  \A j \in k + 1 .. Len(ops) : ops[j].type = "START" /\ (\A m \in k + 1 .. j - 1 : ~IsStop(ops[m], ops[j].timer))
    => ops[j].timer \notin s.running /\ ops[j].timer \notin Timers(s.list)
Kept(s, k) ==
  \A t \in Timer : left[t] \in Int /\ t \notin call.timers /\ ~StartLater(k, t)
    => t \in s.running /\ \E q \in 1 .. Len(s.list) : s.list[q].timer = t /\ left[t] >= Until(s.list, q) - Since(s) - Latency
\* and the compare register: it is right, or is going to be set in time.
Armed(s) ==
  /\ ~Acquired /\ ~s.removed /\ HeadOf(s) = OldHead
  /\ hw.on => Since(s) < Diff(hw.cc, latest) /\ Reaches(s.list, Diff(hw.cc, latest), Since(s))
Near(s) == \A q \in 1 .. Len(s.list) : Since(s) + Offset <= Until(s.list, q) + Room(q)
HeadChanged(s, k) ==
  /\ HeadOf(s) # OldHead
  /\ \E m \in 1 .. k : ops[m].type = "START" /\ ops[m].timer # OldHead
  /\ OldHead \in Timers(s.list) \/ ~StartLater(k, OldHead)
Changed(s, k) == Near(s) /\ (Acquired \/ s.removed \/ (s.list = <<>> /\ k = Len(ops)) \/ HeadChanged(s, k))

Good(s, k) ==
  /\ Sound(s) /\ Runs(s, k) /\ Listed(s, k) /\ Fresh(s, k) /\ Kept(s, k)
  /\ "timer" \in pending \/ Armed(s) \/ Changed(s, k)

LEMMA GoodBegins ==
  ASSUME IInv, swi.pc = "idle", NEW s, Restarting(s, Checked), ~Acquired => s.list = list
  PROVE  Good(s, 0)
<1>1. /\ s \in HandlerState /\ Distinct(s.list) /\ s.list \in Seq(Node) /\ s.running \in SUBSET Timer
      /\ s.count = hw.count /\ s.latest = Base /\ s.reset = FALSE /\ s.removed = FALSE
  BY DEF Restarting, HandlerState
<1>2. Clock(s) /\ Since(s) = Elapsed - Passed
  <2>1. Clock(s)
    BY <1>1 DEF Clock
  <2> QED BY <2>1, <1>1, ClockIs
<1>3. /\ Checked \in 0 .. Len(list) /\ Len(list) \in Nat /\ Elapsed \in Nat /\ Passed \in Nat /\ Passed <= Elapsed
      /\ (~Acquired => Checked = 0 /\ Passed = 0 /\ Base = latest)
      /\ \A i \in 0 .. Len(list) : Until(list, i) \in Nat
  BY Facts, PassedIs, Constants DEF Count
<1>4. /\ Late \in Nat /\ Modulus \in Nat /\ waited \in 0 .. Latency /\ Latency \in Nat /\ Offset \in Nat /\ Offset >= 1
  BY Constants, TimerAssumption DEF IInv, Types
<1>5. \A i \in 1 .. Len(list) : Again(Checked, i) <=> (i <= Checked => Period[list[i].timer] # 0)
  BY <1>3 DEF Again
<1>6. \A i \in 1 .. Len(list) : i > Checked => Due(list, Checked, i) = Until(list, i)
  BY <1>3 DEF Due
<1>7. \A i \in 1 .. Len(list) : list[i].timer \in Timer /\ Period[list[i].timer] \in Nat
  <2>1. \A i \in 1 .. Len(list) : list[i].timer \in Timer
    BY NodesAre DEF IInv, Types
  <2> QED BY <2>1, TimerAssumption
\* What is known of each timer of the list that has been handled.
<1>8. ASSUME NEW i \in 1 .. Len(list), Again(Checked, i)
      PROVE  /\ Due(list, Checked, i) - Passed \in Nat /\ Due(list, Checked, i) - Passed + Late < Modulus
             /\ Acquired => Elapsed <= Due(list, Checked, i) + waited
  <2>1. CASE i <= Checked
    <3>1. i \in 1 .. Checked /\ Period[list[i].timer] # 0
      BY <2>1, <1>5, <1>8, <1>3
    <3>2. s.latest = Base
      BY <1>1
    <3>3. /\ Due(list, Checked, i) - Passed \in Nat /\ Elapsed <= Due(list, Checked, i)
          /\ Due(list, Checked, i) - Passed + Late < Modulus
      BY <3>1, <3>2, RestartTicks
    <3>4. Due(list, Checked, i) \in Int
      <4>1. Due(list, Checked, i) = Until(list, i) + Period[list[i].timer]
        BY <2>1 DEF Due
      <4>2. Until(list, i) \in Nat /\ Period[list[i].timer] \in Nat
        BY <1>3, <1>7
      <4> QED BY <4>1, <4>2
    <3> DEFINE due == Due(list, Checked, i)
    <3>5. due \in Int /\ Elapsed <= due
      BY <3>3, <3>4
    <3> HIDE DEF due
    <3>6. Elapsed <= due + waited
      BY <3>5, <1>3, <1>4
    <3> QED BY <3>3, <3>6 DEF due
  <2>2. CASE ~(i <= Checked)
    <3>1. Due(list, Checked, i) = Until(list, i) /\ i \in Checked + 1 .. Len(list) /\ Until(list, i) \in Nat
      BY <2>2, <1>3, <1>6
    <3>2. Passed <= Until(list, i)
      BY <3>1, PassedIs
    <3>3. Until(list, i) + Late < Modulus
      BY DEF IInv, ListInv
    <3>4. Acquired => Elapsed <= Until(list, i) - 1 + waited
      BY <2>2 DEF IInv, CheckInv
    <3> DEFINE due == Due(list, Checked, i)
    <3>5. /\ due \in Nat /\ Passed \in Nat /\ Passed <= due /\ due + Late < Modulus
          /\ Acquired => Elapsed <= due - 1 + waited
      BY <3>1, <3>2, <3>3, <3>4, <1>3
    <3> HIDE DEF due
    <3>6. due - Passed \in Nat /\ due - Passed + Late < Modulus /\ (Acquired => Elapsed <= due + waited)
      BY <3>5, <1>3, <1>4
    <3> QED BY <3>6 DEF due
  <2> QED BY <2>1, <2>2
<1>9. ASSUME NEW q \in 1 .. Len(s.list)
      PROVE  \E i \in 1 .. Len(list) : Again(Checked, i) /\ s.list[q].timer = list[i].timer
                                       /\ Until(s.list, q) = Due(list, Checked, i) - Passed
  BY DEF Restarting
<1>9a. ASSUME NEW i \in 1 .. Len(list), Again(Checked, i) PROVE list[i].timer \in Timers(s.list)
  <2>1. PICK q \in 1 .. Len(s.list) : s.list[q].timer = list[i].timer
    BY <1>9a DEF Restarting
  <2> QED BY <2>1 DEF Timers
<1>10. \A q \in 1 .. Len(s.list) : Room(q) \in Nat /\ Room(q) >= Offset + Latency
  BY <1>1, RoomIs
<1>11. ASSUME Acquired, NEW q \in 1 .. Len(s.list) PROVE Since(s) + Offset <= Until(s.list, q) + Room(q)
  <2>1. PICK i \in 1 .. Len(list) : Again(Checked, i) /\ Until(s.list, q) = Due(list, Checked, i) - Passed
    BY <1>9
  <2>2. Due(list, Checked, i) - Passed \in Nat /\ Elapsed <= Due(list, Checked, i) + waited
    BY <2>1, <1>8, <1>11
  <2>3. Due(list, Checked, i) \in Int
    BY <1>3, <1>7 DEF Due
  <2> DEFINE due == Due(list, Checked, i)
  <2> HIDE DEF due
  <2>4. due \in Int /\ Elapsed <= due + waited /\ Until(s.list, q) = due - Passed
    BY <2>1, <2>2, <2>3 DEF due
  <2> QED BY <2>4, <1>2, <1>3, <1>4, <1>10
<1>12. Sound(s)
  <2>1. ASSUME NEW q \in 1 .. Len(s.list)
        PROVE  Until(s.list, q) + Late < Modulus /\ Since(s) <= Until(s.list, q) + Room(q) + waited
    <3>1. PICK i \in 1 .. Len(list) : Again(Checked, i) /\ Until(s.list, q) = Due(list, Checked, i) - Passed
      BY <1>9
    <3>2. Until(s.list, q) \in Nat /\ Until(s.list, q) + Late < Modulus
      BY <3>1, <1>8
    <3>3. CASE Acquired
      <4>1. Since(s) + Offset <= Until(s.list, q) + Room(q)
        BY <3>3, <1>11
      <4>2. Since(s) \in Int /\ Room(q) \in Nat /\ Until(s.list, q) \in Nat /\ waited \in Nat /\ Offset \in Nat
        BY <3>2, <1>2, <1>3, <1>4, <1>10
      <4> DEFINE a == Since(s)
                 u == Until(s.list, q)
                 r == Room(q)
      <4>3. a \in Int /\ r \in Nat /\ u \in Nat /\ a + Offset <= u + r
        BY <4>1, <4>2
      <4> HIDE DEF a, u, r
      <4>4. a <= u + r + waited
        BY <4>2, <4>3
      <4> QED BY <4>4, <3>2 DEF a, u, r
    <3>4. CASE ~Acquired
      <4>1. s.list = list /\ Since(s) = Elapsed
        BY <3>4, <1>2, <1>3
      <4>2. \A p \in 1 .. Len(list) : Elapsed <= Until(list, p) + Room(p) + waited
        BY DEF IInv, WaitInv
      <4> QED BY <4>1, <4>2, <3>2
    <3> QED BY <3>3, <3>4
  <2> QED BY <2>1, <1>1, <1>2 DEF Sound
<1>13. \A t : (StopLater(0, t) <=> Stops(ops, t)) /\ (StartLater(0, t) <=> Starts(ops, t))
  BY DEF StopLater, StartLater, Stops, Starts
<1>14. Runs(s, 0)
  <2> SUFFICES ASSUME NEW t \in s.running PROVE t \in Timers(s.list) /\ (left[t] \in Int \/ Stops(ops, t))
    BY <1>13 DEF Runs
  <2>1. t \in Timer
    BY <1>1
  <2>2. CASE t \in running
    <3>1. left[t] \in Int /\ \E i \in Checked + 1 .. Len(list) : list[i].timer = t
      BY <2>2 DEF IInv, RunInv
    <3>2. PICK i \in Checked + 1 .. Len(list) : list[i].timer = t
      BY <3>1
    <3>3. i \in 1 .. Len(list) /\ Again(Checked, i)
      BY <3>2, <1>3, <1>5
    <3>4. t \in Timers(s.list)
      BY <3>2, <3>3, <1>9a
    <3> QED BY <3>1, <3>4
  <2>3. CASE t \notin running
    <3>1. PICK i \in 1 .. Checked : Again(Checked, i) /\ list[i].timer = t
      BY <2>3 DEF Restarting
    <3>2. i \in 1 .. Len(list) /\ i <= Checked /\ Period[t] # 0
      BY <3>1, <1>3, <1>5
    <3>3. t \in Timers(s.list)
      BY <3>1, <3>2, <1>9a
    <3>4. left[t] \in Int \/ left[t] = Off
      BY <2>1 DEF IInv, Types
    <3>5. left[t] = Off => Stops(ops, t)
      BY <3>1, <3>2 DEF IInv, DueInv
    <3> QED BY <3>3, <3>4, <3>5
  <2> QED BY <2>2, <2>3
<1>15. Listed(s, 0)
  <2> SUFFICES ASSUME NEW q \in 1 .. Len(s.list) PROVE Noted(s, 0, s.list[q].timer, Until(s.list, q))
    BY DEF Listed
  <2>1. PICK i \in 1 .. Len(list) : Again(Checked, i) /\ s.list[q].timer = list[i].timer
                                    /\ Until(s.list, q) = Due(list, Checked, i) - Passed
    BY <1>9
  <2> DEFINE t == list[i].timer
             due == Due(list, Checked, i)
  <2>2. /\ left[t] \in Int /\ ~Starts(ops, t) => left[t] <= due - Elapsed
        /\ left[t] = Off => Stops(ops, t) \/ (i <= Checked /\ Period[t] = 0)
        /\ t \notin running => \/ i <= Checked \/ Stops(ops, t)
                               \/ call.pc = "queue" /\ t \in call.timers
    BY DEF IInv, DueInv
  <2>3. call.pc = "return" /\ t \in call.timers => Stops(ops, t)
    BY DEF IInv, CallInv
  <2>4. ~(i <= Checked /\ Period[t] = 0)
    BY <2>1, <1>5
  <2>5. i <= Checked => t \in s.running
    <3> SUFFICES ASSUME i <= Checked PROVE t \in s.running
      OBVIOUS
    <3>1. i \in 1 .. Checked
      BY <1>3
    <3> QED BY <3>1, <2>1 DEF Restarting
  <2>6. t \in running => t \in s.running
    BY DEF Restarting
  <2>7. due \in Int
    BY <1>3, <1>7 DEF Due
  <2>8. s.list[q].timer = t /\ Until(s.list, q) = due - Passed
    BY <2>1
  <2> HIDE DEF t, due
  <2>9. left[t] \in Int /\ ~Starts(ops, t) => left[t] <= Until(s.list, q) - Since(s)
    BY <2>2, <2>7, <2>8, <1>2, <1>3
  <2> QED BY <2>2, <2>3, <2>4, <2>5, <2>6, <2>8, <2>9, <1>13 DEF Noted
<1>16. Fresh(s, 0)
  <2> SUFFICES ASSUME NEW j \in 1 .. Len(ops), ops[j].type = "START", \A m \in 1 .. j - 1 : ~IsStop(ops[m], ops[j].timer)
               PROVE  ops[j].timer \notin s.running /\ ops[j].timer \notin Timers(s.list)
    BY DEF Fresh
  <2> DEFINE t == ops[j].timer
  <2>1. /\ t \notin running
        /\ \A i \in 1 .. Len(list) : list[i].timer = t => i <= Checked /\ Period[t] = 0
    BY DEF IInv, StartFresh
  <2> HIDE DEF t
  <2>2. \A i \in 1 .. Len(list) : Again(Checked, i) => list[i].timer # t
    BY <2>1, <1>5
  <2>3. t \notin Timers(s.list)
    BY <2>2, <1>9 DEF Timers
  <2>4. t \notin s.running
    <3>1. \A i \in 1 .. Checked : i \in 1 .. Len(list)
      BY <1>3
    <3> QED BY <3>1, <2>1, <2>2 DEF Restarting
  <2> QED BY <2>3, <2>4 DEF t
<1>17. Kept(s, 0)
  <2> SUFFICES ASSUME NEW t \in Timer, left[t] \in Int, t \notin call.timers, ~Starts(ops, t)
               PROVE  t \in s.running /\ \E q \in 1 .. Len(s.list) :
                        s.list[q].timer = t /\ left[t] >= Until(s.list, q) - Since(s) - Latency
    BY <1>13 DEF Kept
  <2>1. PICK i \in 1 .. Len(list) : /\ list[i].timer = t /\ left[t] >= Due(list, Checked, i) - Elapsed - Latency
                                    /\ t \in running \/ (i <= Checked /\ Period[t] # 0)
    BY DEF IInv, LeftInv
  <2>2. i <= Checked => Period[t] # 0
    <3> SUFFICES ASSUME i <= Checked PROVE t \notin running
      BY <2>1
    <3>1. Acquired
      BY <1>3
    <3> QED BY <3>1, <2>1 DEF IInv, CheckInv
  <2>3. Again(Checked, i)
    BY <2>1, <2>2, <1>5
  <2>4. PICK q \in 1 .. Len(s.list) : s.list[q].timer = t /\ Until(s.list, q) = Due(list, Checked, i) - Passed
    BY <2>1, <2>3 DEF Restarting
  <2>5. t \in s.running
    <3>1. CASE t \in running
      BY <3>1 DEF Restarting
    <3>2. CASE i <= Checked
      <4>1. i \in 1 .. Checked
        BY <3>2, <1>3
      <4> QED BY <4>1, <2>1, <2>3 DEF Restarting
    <3> QED BY <3>1, <3>2, <2>1
  <2> DEFINE due == Due(list, Checked, i)
  <2>6. due \in Int /\ left[t] >= due - Elapsed - Latency /\ Until(s.list, q) = due - Passed
    <3>1. Until(list, i) \in Nat /\ Period[list[i].timer] \in Nat
      BY <2>1, <1>3, <1>7
    <3>2. due \in Int
      BY <3>1 DEF Due
    <3> HIDE DEF due
    <3>3. left[t] >= due - Elapsed - Latency /\ Until(s.list, q) = due - Passed
      BY <2>1, <2>4 DEF due
    <3> QED BY <3>2, <3>3
  <2> HIDE DEF due
  <2>7. left[t] >= Until(s.list, q) - Since(s) - Latency
    BY <2>6, <1>2, <1>3, <1>4
  <2> QED BY <2>4, <2>5, <2>7
<1>18. "timer" \in pending \/ Armed(s) \/ Changed(s, 0)
  <2>1. CASE Acquired
    BY <2>1, <1>11 DEF Changed, Near
  <2>2. CASE ~Acquired /\ "timer" \notin pending
    <3>1. s.list = list /\ Since(s) = Elapsed /\ Checked = 0
      BY <2>2, <1>2, <1>3
    <3>2. HeadOf(s) = OldHead
      <4>1. list \in Seq(Node) /\ (list = <<>> <=> Len(list) = 0) /\ (0 < Len(list) <=> Len(list) # 0)
        BY <1>3 DEF IInv, Types
      <4> QED BY <4>1, <3>1 DEF HeadOf, OldHead
    <3>3. hw.on => Elapsed < Diff(hw.cc, latest) /\ Reaches(list, Diff(hw.cc, latest), Elapsed)
      BY <2>2 DEF IInv, ArmedInv
    <3> QED BY <3>1, <3>2, <3>3, <2>2, <1>1 DEF Armed
  <2> QED BY <2>1, <2>2
<1> QED BY <1>12, <1>14, <1>15, <1>16, <1>17, <1>18 DEF Good

LEMMA LaterIs ==
  ASSUME IInv, NEW k \in 0 .. Len(ops) - 1
  PROVE  /\ k + 1 \in 1 .. Len(ops)
         /\ \A t : /\ StopLater(k, t) <=> IsStop(ops[k + 1], t) \/ StopLater(k + 1, t)
                   /\ StartLater(k, t) <=> IsStart(ops[k + 1], t) \/ StartLater(k + 1, t)
<1>1. Len(ops) \in Nat
  BY DEF IInv, Types
<1>2. k + 1 \in 1 .. Len(ops) /\ \A j \in k + 1 .. Len(ops) : j = k + 1 \/ j \in (k + 1) + 1 .. Len(ops)
  BY <1>1
<1>3. k + 1 \in k + 1 .. Len(ops) /\ \A j \in (k + 1) + 1 .. Len(ops) : j \in k + 1 .. Len(ops)
  BY <1>1
<1> QED BY <1>2, <1>3 DEF StopLater, StartLater

\* A timer that is stopped last is one that its user has stopped.
LEMMA StoppedLast ==
  ASSUME IInv, NEW k \in 0 .. Len(ops), NEW t \in Timer, StopLater(k, t), ~StartLater(k, t)
  PROVE  left[t] = Off \/ t \in call.timers
<1>1. Len(ops) \in Nat
  BY DEF IInv, Types
<1>2. PICK j \in k + 1 .. Len(ops) : IsStop(ops[j], t)
  BY DEF StopLater
<1>3. j \in 1 .. Len(ops) /\ \A m \in j + 1 .. Len(ops) : m \in k + 1 .. Len(ops)
  BY <1>1, <1>2
<1>4. \A m \in j + 1 .. Len(ops) : ~IsStart(ops[m], t)
  BY <1>3 DEF StartLater
<1> QED BY <1>2, <1>3, <1>4 DEF IInv, StopInv

\* A start inserts its timer.
LEMMA StartExecuted ==
  ASSUME IInv, NEW k \in 0 .. Len(ops) - 1, ops[k + 1].type = "START", NEW s, Good(s, k),
         NEW r, r = Execute(s, ops[k + 1])
  PROVE  /\ ops[k + 1].timer \notin s.running /\ ops[k + 1].timer \notin Timers(s.list)
         /\ r \in HandlerState /\ r.running = s.running \cup {ops[k + 1].timer}
         /\ r.count = s.count /\ r.latest = s.latest /\ r.reset = s.reset /\ r.removed = s.removed
         /\ \E ticks \in Nat : \E p \in 1 .. Len(s.list) + 1 :
              /\ Inserted(s.list, r.list, p, ops[k + 1].timer, ticks)
              /\ ticks + Late < Modulus /\ Since(s) <= ticks - 1 + waited
              /\ ops[k + 1].first - (Elapsed - Diff(ops[k + 1].at, latest)) <= ticks - Since(s)
              /\ ticks - Since(s) - Latency <= ops[k + 1].first - waited
<1> DEFINE op == ops[k + 1]
           t == op.timer
           ticks == TicksToExpire(s, StartedAt(s, op.at), op.first)
<1>1. k + 1 \in 1 .. Len(ops) /\ k + 1 \in k + 1 .. Len(ops) /\ \A m \in k + 1 .. (k + 1) - 1 : FALSE
  BY LaterIs DEF IInv, Types
<1>2. s \in HandlerState /\ Clock(s) /\ s.list \in Seq(Node) /\ s.running \in SUBSET Timer
  BY DEF Good, Sound, HandlerState
<1>3. t \in Timer
  BY <1>1, CallsAre
<1>4. t \notin s.running /\ t \notin Timers(s.list)
  BY <1>1 DEF Good, Fresh
<1>5. r = ListInsert(s, t, ticks)
  BY <1>4 DEF Execute
<1>6. /\ ticks \in Nat /\ ticks + Late < Modulus
      /\ Since(s) <= ticks - 1 + waited
      /\ op.first - (Elapsed - Diff(op.at, latest)) <= ticks - Since(s)
      /\ ticks - Since(s) - Latency <= op.first - waited
  <2> HIDE DEF ticks
  <2>1. ticks = TicksToExpire(s, StartedAt(s, op.at), op.first)
    BY DEF ticks
  <2> QED BY <1>1, <1>2, <2>1, StartTicks
<1> HIDE DEF ticks, t
<1>7. PICK p \in 1 .. Len(s.list) + 1 : Inserted(s.list, r.list, p, t, ticks)
  BY <1>2, <1>3, <1>5, <1>6, InsertIs
<1>8. r = [s EXCEPT !.list = r.list, !.running = @ \cup {t}]
  BY <1>2, <1>3, <1>5, <1>6, InsertIs
<1>9. r.list \in Seq(Node)
  BY <1>7 DEF Inserted
<1>10. /\ r \in HandlerState /\ r.running = s.running \cup {t}
       /\ r.count = s.count /\ r.latest = s.latest /\ r.reset = s.reset /\ r.removed = s.removed
  <2> DEFINE l == r.list
  <2>1. r = [s EXCEPT !.list = l, !.running = @ \cup {t}] /\ l \in Seq(Node)
    BY <1>8, <1>9
  <2> HIDE DEF l
  <2>2. s.running \cup {t} \in SUBSET Timer
    BY <1>2, <1>3
  <2> QED BY <2>1, <2>2, <1>2 DEF HandlerState
<1> QED BY <1>4, <1>6, <1>7, <1>10 DEF t

LEMMA StartGood ==
  ASSUME IInv, NEW k \in 0 .. Len(ops) - 1, ops[k + 1].type = "START", NEW s, Good(s, k),
         NEW r, r = Execute(s, ops[k + 1])
  PROVE  Good(r, k + 1)
<1> DEFINE op == ops[k + 1]
           t == op.timer
<1>1. k + 1 \in 1 .. Len(ops) /\ Len(ops) \in Nat
  BY LaterIs DEF IInv, Types
<1>2. t \in Timer /\ op.first \in Nat /\ Diff(op.at, latest) \in Nat
  BY <1>1, CallsAre
<1>3. /\ s \in HandlerState /\ s.list \in Seq(Node) /\ Distinct(s.list) /\ Len(s.list) \in Nat
      /\ Since(s) \in Nat /\ \A q \in 1 .. Len(s.list) : Until(s.list, q) \in Nat
  <2>1. s \in HandlerState /\ Distinct(s.list) /\ Clock(s)
    BY DEF Good, Sound
  <2>2. s.list \in Seq(Node)
    BY <2>1 DEF HandlerState
  <2> QED BY <2>1, <2>2, ClockIs, UntilIs
<1>4. /\ t \notin s.running /\ t \notin Timers(s.list)
      /\ r \in HandlerState /\ r.running = s.running \cup {t}
      /\ r.count = s.count /\ r.latest = s.latest /\ r.reset = s.reset /\ r.removed = s.removed
  BY StartExecuted
<1>5. PICK ticks \in Nat : \E p \in 1 .. Len(s.list) + 1 :
        /\ Inserted(s.list, r.list, p, t, ticks)
        /\ ticks + Late < Modulus /\ Since(s) <= ticks - 1 + waited
        /\ op.first - (Elapsed - Diff(op.at, latest)) <= ticks - Since(s)
        /\ ticks - Since(s) - Latency <= op.first - waited
  BY StartExecuted
<1>6. PICK p \in 1 .. Len(s.list) + 1 : Inserted(s.list, r.list, p, t, ticks)
  BY <1>5
<1>7. Since(r) = Since(s)
  BY <1>4 DEF Since
<1> DEFINE l == s.list
           new == r.list
<1>8. l \in Seq(Node) /\ Len(l) \in Nat /\ Distinct(l) /\ new \in Seq(Node) /\ Len(new) = Len(l) + 1 /\ Inserted(l, new, p, t, ticks)
  BY <1>3, <1>6 DEF Inserted
<1>9. t \notin Timers(l)
  BY <1>4
<1> HIDE DEF l, new, t, op
<1>10. /\ \A q \in 1 .. Len(new) :
            \/ q = p /\ new[q].timer = t /\ Until(new, q) = ticks
            \/ \E m \in 1 .. Len(l) : /\ new[q].timer = l[m].timer /\ Until(new, q) = Until(l, m)
                                      /\ (q < p /\ m = q) \/ (q > p /\ m = q - 1 /\ ticks <= Until(new, q))
       /\ \A m \in 1 .. Len(l) : \E q \in 1 .. Len(new) : new[q].timer = l[m].timer /\ Until(new, q) = Until(l, m)
       /\ p \in 1 .. Len(new) /\ new[p].timer = t /\ Until(new, p) = ticks
       /\ Timers(new) = Timers(l) \cup {t}
       /\ Distinct(new)
  <2>1. \A q \in 1 .. Len(new) :
            \/ q = p /\ new[q].timer = t /\ Until(new, q) = ticks
            \/ \E m \in 1 .. Len(l) : /\ new[q].timer = l[m].timer /\ Until(new, q) = Until(l, m)
                                      /\ (q < p /\ m = q) \/ (q > p /\ m = q - 1 /\ ticks <= Until(new, q))
    BY <1>2, <1>8, InsertedPlaces
  <2>2. /\ \A m \in 1 .. Len(l) : \E q \in 1 .. Len(new) : new[q].timer = l[m].timer /\ Until(new, q) = Until(l, m)
        /\ p \in 1 .. Len(new) /\ new[p].timer = t /\ Until(new, p) = ticks
        /\ Timers(new) = Timers(l) \cup {t}
        /\ Distinct(new)
    BY <1>2, <1>8, <1>9, InsertedPlaces
  <2> QED BY <2>1, <2>2
<1>11. \A q \in 1 .. Len(new) : Room(q) \in Nat /\ Room(q) >= Offset + Latency
  BY <1>8, <1>10, RoomIs
<1>12. /\ Offset \in Nat /\ Offset >= 1 /\ Latency \in Nat /\ waited \in 0 .. Latency /\ Late \in Nat /\ Modulus \in Nat
       /\ Elapsed \in Nat
  <2>1. Elapsed \in Nat
    BY Facts, Constants DEF Count
  <2>2. waited \in 0 .. Latency
    BY DEF IInv, Types
  <2> QED BY <2>1, <2>2, TimerAssumption, Constants
<1>13. \A q \in 1 .. Len(new) : Until(new, q) \in Nat
  BY <1>8, UntilIs
\* The timers from place p on are not due yet.
<1>14. ASSUME NEW q \in 1 .. Len(new), ~(q < p)
       PROVE  ticks <= Until(new, q) /\ Since(s) <= Until(new, q) - 1 + waited /\ Since(s) + Offset <= Until(new, q) + Room(q)
  <2>1. ticks <= Until(new, q)
    <3>1. CASE q = p
      <4>1. Until(new, q) = ticks
        BY <3>1, <1>10
      <4> QED BY <4>1
    <3>2. CASE q # p
      <4>1. ~(q < p)
        BY <1>14
      <4> QED BY <3>2, <4>1, <1>10
    <3> QED BY <3>1, <3>2
  <2>2. Until(new, q) \in Nat /\ Room(q) \in Nat /\ Room(q) >= Offset + Latency
    BY <1>11, <1>13
  <2>3. Since(s) \in Nat /\ Since(s) <= ticks - 1 + waited
    BY <1>3, <1>5
  <2> DEFINE u == Until(new, q)
             room == Room(q)
             e == Since(s)
  <2>4. /\ u \in Nat /\ room \in Nat /\ room >= Offset + Latency /\ e \in Nat /\ e <= ticks - 1 + waited /\ ticks <= u
        /\ waited \in Int /\ waited <= Latency /\ Latency \in Nat /\ Offset \in Nat
    BY <2>1, <2>2, <2>3, <1>12
  <2> HIDE DEF u, room, e
  <2>5. e <= u - 1 + waited
    BY <2>4
  <2>6. e + Offset <= u + room
    BY <2>4, <2>5
  <2> QED BY <2>4, <2>5, <2>6 DEF u, room, e
<1>15. ASSUME NEW q \in 1 .. Len(new), q < p
       PROVE  q \in 1 .. Len(l) /\ new[q].timer = l[q].timer /\ Until(new, q) = Until(l, q)
  <2>1. \E m \in 1 .. Len(l) : new[q].timer = l[m].timer /\ Until(new, q) = Until(l, m) /\ m = q
    BY <1>10, <1>15
  <2> QED BY <2>1
<1>16. Sound(r)
  <2>1. ASSUME NEW q \in 1 .. Len(new)
        PROVE  Until(new, q) + Late < Modulus /\ Since(s) <= Until(new, q) + Room(q) + waited
    <3>1. \A m \in 1 .. Len(l) : Until(l, m) + Late < Modulus /\ Since(s) <= Until(l, m) + Room(m) + waited
      BY DEF Good, Sound, l
    <3>2. Until(new, q) + Late < Modulus
      <4>1. ticks + Late < Modulus
        BY <1>5
      <4> QED BY <3>1, <4>1, <1>10
    <3>3. CASE q < p
      <4>1. q \in 1 .. Len(l) /\ Until(new, q) = Until(l, q)
        BY <3>3, <1>15
      <4> QED BY <3>1, <3>2, <4>1
    <3>4. CASE ~(q < p)
      <4>1. Since(s) + Offset <= Until(new, q) + Room(q)
        BY <3>4, <1>14
      <4>2. Until(new, q) \in Nat /\ Room(q) \in Nat /\ Since(s) \in Nat
        BY <1>11, <1>13, <1>3
      <4> DEFINE u == Until(new, q)
                 c == Room(q)
                 e == Since(s)
      <4>3. u \in Nat /\ c \in Nat /\ e \in Nat /\ e + Offset <= u + c
        BY <4>1, <4>2
      <4> HIDE DEF u, c, e
      <4>4. e <= u + c + waited
        BY SMTT(30), <4>3, <1>12
      <4> QED BY <4>4, <3>2 DEF u, c, e
    <3> QED BY <3>3, <3>4
  <2>2. Clock(r) /\ (r.reset => r.removed)
    BY <1>4 DEF Good, Sound, Clock
  <2> QED BY <2>1, <2>2, <1>4, <1>7, <1>10 DEF Sound, new
<1>17. /\ \A u : StopLater(k, u) <=> StopLater(k + 1, u)
       /\ \A u : StartLater(k, u) <=> u = t \/ StartLater(k + 1, u)
  BY LaterIs DEF IsStop, IsStart, op, t
<1>18. call = NoCall /\ call.timers = {} /\ call.pc = "idle"
  BY <1>1 DEF IInv, CallInv, NoCall
<1>19. left[t] \in Int \/ left[t] = Off
  BY <1>2 DEF IInv, Types
\* What its user knows of the timer that is started.
<1>20. /\ left[t] = Off => StopLater(k + 1, t)
       /\ left[t] \in Int /\ ~StartLater(k + 1, t) => left[t] <= ticks - Since(s) /\ left[t] >= ticks - Since(s) - Latency
  <2>1. CASE StopLater(k + 1, t)
    <3>1. ~StartLater(k + 1, t) => left[t] = Off
      BY <2>1, <1>1, <1>2, <1>18, StoppedLast
    <3> QED BY <3>1, <2>1, OffIs
  <2>2. CASE ~StopLater(k + 1, t)
    <3>1. \A m \in (k + 1) + 1 .. Len(ops) : ~IsStop(ops[m], ops[k + 1].timer)
      BY <2>2 DEF StopLater, t, op
    <3>2. /\ left[t] \in Int /\ op.first - left[t] <= waited
          /\ op.first - left[t] >= Elapsed - Diff(op.at, latest)
      BY <3>1, <1>1 DEF IInv, StartLeft, t, op
    <3>3. /\ op.first - (Elapsed - Diff(op.at, latest)) <= ticks - Since(s)
          /\ ticks - Since(s) - Latency <= op.first - waited
      BY <1>5
    <3> DEFINE a == left[t]
               f == op.first
               x == Diff(op.at, latest)
    <3>4. a \in Int /\ f \in Nat /\ x \in Nat /\ a # Off
      BY <3>2, <1>2, OffIs
    <3> HIDE DEF a, f, x
    <3>5. a <= ticks - Since(s) /\ a >= ticks - Since(s) - Latency
      <4>1. f - a <= waited /\ f - a >= Elapsed - x /\ f - (Elapsed - x) <= ticks - Since(s) /\ ticks - Since(s) - Latency <= f - waited
        BY <3>2, <3>3 DEF a, f, x
      <4> DEFINE z == Since(s)
                 e == Elapsed
      <4>2. /\ f - a <= waited /\ f - a >= e - x /\ f - (e - x) <= ticks - z /\ ticks - z - Latency <= f - waited
            /\ z \in Int /\ e \in Nat
        BY <4>1, <1>3, <1>12
      <4>3. waited \in Nat /\ Latency \in Nat /\ ticks \in Nat
        BY <1>3, <1>12
      <4> HIDE DEF z, e
      <4>4. a <= ticks - z /\ a >= ticks - z - Latency
        BY <4>2, <4>3, <3>4
      <4> QED BY <4>4 DEF z
    <3> QED BY <3>4, <3>5 DEF a
  <2> QED BY <2>1, <2>2
<1>21. Runs(r, k + 1)
  <2> SUFFICES ASSUME NEW u \in r.running PROVE u \in Timers(new) /\ (left[u] \in Int \/ StopLater(k + 1, u))
    BY DEF Runs, new
  <2>1. CASE u = t
    BY <2>1, <1>10, <1>19, <1>20
  <2>2. CASE u \in s.running
    <3>1. u \in Timers(l) /\ (left[u] \in Int \/ StopLater(k, u))
      BY <2>2 DEF Good, Runs, l
    <3> QED BY <3>1, <1>10, <1>17
  <2> QED BY <2>1, <2>2, <1>4
<1>22. Listed(r, k + 1)
  <2> SUFFICES ASSUME NEW q \in 1 .. Len(new) PROVE Noted(r, k + 1, new[q].timer, Until(new, q))
    BY DEF Listed, new
  <2>1. CASE new[q].timer = t /\ Until(new, q) = ticks
    BY <2>1, <1>4, <1>7, <1>18, <1>20 DEF Noted
  <2>2. ASSUME NEW m \in 1 .. Len(l), new[q].timer = l[m].timer, Until(new, q) = Until(l, m)
        PROVE  Noted(r, k + 1, new[q].timer, Until(new, q))
    <3>1. Noted(s, k, l[m].timer, Until(l, m))
      BY DEF Good, Listed, l
    <3>2. l[m].timer # t
      BY <1>9 DEF Timers
    <3>3. l[m].timer \notin r.running => l[m].timer \notin s.running
      BY <1>4
    <3> QED BY <2>2, <3>1, <3>2, <3>3, <1>7, <1>17 DEF Noted
  <2> QED BY <2>1, <2>2, <1>10
<1>23. Fresh(r, k + 1)
  <2> SUFFICES ASSUME NEW j \in (k + 1) + 1 .. Len(ops), ops[j].type = "START",
                      \A m \in (k + 1) + 1 .. j - 1 : ~IsStop(ops[m], ops[j].timer)
               PROVE  ops[j].timer \notin r.running /\ ops[j].timer \notin Timers(new)
    BY DEF Fresh, new
  <2>1. j \in k + 1 .. Len(ops) /\ j \in 1 .. Len(ops) /\ k + 1 \in 1 .. j - 1
        /\ \A m \in k + 1 .. j - 1 : m = k + 1 \/ m \in (k + 1) + 1 .. j - 1
    BY <1>1
  <2>2. \A m \in k + 1 .. j - 1 : ~IsStop(ops[m], ops[j].timer)
    BY <2>1 DEF IsStop
  <2>3. ops[j].timer \notin s.running /\ ops[j].timer \notin Timers(l)
    BY <2>1, <2>2 DEF Good, Fresh, l
  <2>4. ops[j].timer # t
    <3> SUFFICES ASSUME ops[j].timer = t PROVE FALSE
      OBVIOUS
    <3>1. IsStart(ops[k + 1], ops[j].timer)
      BY DEF IsStart, op, t
    <3>2. \E m \in (k + 1) + 1 .. j - 1 : IsStop(ops[m], ops[j].timer)
      BY <3>1, <2>1 DEF IInv, StartFresh
    <3> QED BY <3>2
  <2> QED BY <2>3, <2>4, <1>4, <1>10
<1>24. Kept(r, k + 1)
  <2> SUFFICES ASSUME NEW u \in Timer, left[u] \in Int, u \notin call.timers, ~StartLater(k + 1, u)
               PROVE  u \in r.running /\ \E q \in 1 .. Len(new) :
                        new[q].timer = u /\ left[u] >= Until(new, q) - Since(s) - Latency
    BY <1>7 DEF Kept, new
  <2>1. CASE u = t
    BY <2>1, <1>4, <1>10, <1>20
  <2>2. CASE u # t
    <3>1. ~StartLater(k, u)
      BY <2>2, <1>17
    <3>2. u \in s.running /\ \E m \in 1 .. Len(l) : l[m].timer = u /\ left[u] >= Until(l, m) - Since(s) - Latency
      BY <3>1 DEF Good, Kept, l
    <3>3. PICK m \in 1 .. Len(l) : l[m].timer = u /\ left[u] >= Until(l, m) - Since(s) - Latency
      BY <3>2
    <3>4. PICK q \in 1 .. Len(new) : new[q].timer = l[m].timer /\ Until(new, q) = Until(l, m)
      BY <1>10
    <3> QED BY <3>2, <3>3, <3>4, <1>4
  <2> QED BY <2>1, <2>2
<1>25. new # <<>> /\ HeadOf(r) = new[1].timer /\ HeadOf(s) = IF l = <<>> THEN Off ELSE l[1].timer
  BY <1>8 DEF HeadOf, new, l
<1>26. HeadOf(r) = IF p = 1 THEN t ELSE HeadOf(s)
  <2>1. CASE p = 1
    BY <2>1, <1>10, <1>25
  <2>2. CASE p # 1
    <3>1. 1 \in 1 .. Len(new) /\ 1 < p
      BY <2>2, <1>8, <1>10
    <3>2. 1 \in 1 .. Len(l) /\ new[1].timer = l[1].timer
      BY <3>1, <1>15
    <3> QED BY <3>2, <2>2, <1>25
  <2> QED BY <2>1, <2>2
<1>27. Armed(s) => Armed(r) \/ Changed(r, k + 1)
  <2> SUFFICES ASSUME Armed(s) PROVE Armed(r) \/ Changed(r, k + 1)
    OBVIOUS
  <2>1. ~Acquired /\ ~s.removed /\ HeadOf(s) = OldHead
    BY DEF Armed
  <2>2. OldHead # t /\ (OldHead \in Timers(l) \/ OldHead = Off)
    <3>1. CASE l = <<>>
      BY <3>1, <2>1, <1>2, <1>25, TimerAssumption
    <3>2. CASE l # <<>>
      <4>1. 1 \in 1 .. Len(l)
        BY <3>2, <1>8
      <4>2. OldHead \in Timers(l)
        BY <4>1, <3>2, <2>1, <1>25 DEF Timers
      <4> QED BY <4>2, <1>9
    <3> QED BY <3>1, <3>2
  <2>3. CASE p = 1
    <3>1. Near(r)
      BY <2>3, <1>7, <1>14 DEF Near, new
    <3>2. HeadOf(r) # OldHead
      BY <2>2, <2>3, <1>26
    <3>3. \E m \in 1 .. k + 1 : ops[m].type = "START" /\ ops[m].timer # OldHead
      <4>1. k + 1 \in 1 .. k + 1
        BY <1>1
      <4> QED BY <4>1, <2>2 DEF t, op
    <3>4. OldHead \in Timers(r.list) \/ ~StartLater(k + 1, OldHead)
      <4>1. OldHead = Off => ~StartLater(k + 1, OldHead)
        <5> SUFFICES ASSUME NEW j \in (k + 1) + 1 .. Len(ops), IsStart(ops[j], Off) PROVE FALSE
          BY DEF StartLater
        <5>1. ops[j].timer \in Timer
          BY <1>1, CallsAre DEF IsStart
        <5> QED BY <5>1, TimerAssumption DEF IsStart
      <4> QED BY <4>1, <2>2, <1>10 DEF new
    <3> QED BY <3>1, <3>2, <3>3, <3>4 DEF Changed, HeadChanged
  <2>4. CASE p # 1
    <3>1. HeadOf(r) = OldHead
      BY <2>1, <2>4, <1>26
    <3> SUFFICES ASSUME hw.on PROVE Since(s) < Diff(hw.cc, latest) /\ Reaches(new, Diff(hw.cc, latest), Since(s))
      BY <3>1, <2>1, <1>4, <1>7 DEF Armed, new
    <3> DEFINE v == Diff(hw.cc, latest)
    <3>2. Since(s) < v /\ Reaches(l, v, Since(s)) /\ v \in Nat
      <4>1. v \in Nat
        BY DiffIsNat DEF IInv, Types
      <4> QED BY <4>1 DEF Armed, l
    <3>3. 1 \in 1 .. Len(new) /\ 1 < p
      BY <2>4, <1>8, <1>10
    <3>4. Until(new, 1) = Until(l, 1)
      BY <3>3, <1>15
    <3> HIDE DEF v
    <3>5. ASSUME NEW q \in 1 .. Len(new) PROVE v <= Until(new, q) + Room(q)
      <4>1. CASE q < p
        BY <4>1, <3>2, <1>15 DEF Reaches
      <4>2. CASE ~(q < p)
        <5>1. v <= Until(l, 1) \/ v <= Since(s) + Offset
          BY <3>2 DEF Reaches
        <5>2. Until(new, 1) <= Until(new, q)
          <6>1. 1 \in 0 .. Len(new) /\ q \in 0 .. Len(new) /\ 1 <= q
            BY <3>3
          <6> QED BY <6>1, <1>8, UntilGrows
        <5>3. Since(s) + Offset <= Until(new, q) + Room(q)
          BY <4>2, <1>14
        <5>4. Until(new, q) \in Nat /\ Until(new, 1) \in Nat /\ Room(q) \in Nat /\ Since(s) \in Nat
          BY <3>3, <1>3, <1>11, <1>13
        <5>5. v <= Until(new, 1) \/ v <= Since(s) + Offset
          BY <5>1, <3>4
        <5> DEFINE a == Until(new, 1)
                   b == Until(new, q)
                   c == Room(q)
                   e == Since(s)
        <5>6. /\ a \in Nat /\ b \in Nat /\ c \in Nat /\ e \in Nat /\ a <= b /\ e + Offset <= b + c
              /\ v <= a \/ v <= e + Offset
          BY <5>2, <5>3, <5>4, <5>5
        <5> HIDE DEF a, b, c, e
        <5>7. v <= b + c
          BY SMTT(30), <5>6, <3>2, <1>12
        <5> QED BY <5>7 DEF b, c
      <4> QED BY <4>1, <4>2
    <3>6. v <= Until(new, 1) \/ v <= Since(s) + Offset
      BY <3>2, <3>4 DEF Reaches
    <3> QED BY <3>2, <3>5, <3>6 DEF Reaches, v
  <2> QED BY <2>3, <2>4
<1>28. Changed(s, k) => Changed(r, k + 1)
  <2> SUFFICES ASSUME Changed(s, k) PROVE Changed(r, k + 1)
    OBVIOUS
  <2>1. Near(r)
    <3>1. ASSUME NEW q \in 1 .. Len(new) PROVE Since(s) + Offset <= Until(new, q) + Room(q)
      <4>1. CASE q < p
        BY <4>1, <1>15 DEF Changed, Near, l
      <4>2. CASE ~(q < p)
        BY <4>2, <1>14
      <4> QED BY <4>1, <4>2
    <3> QED BY <3>1, <1>7 DEF Near, new
  <2>2. CASE Acquired \/ s.removed
    BY <2>1, <2>2, <1>4 DEF Changed
  <2>3. CASE HeadChanged(s, k)
    <3>1. \E m \in 1 .. k + 1 : ops[m].type = "START" /\ ops[m].timer # OldHead
      BY <2>3 DEF HeadChanged
    <3>2. OldHead \in Timers(new) \/ ~StartLater(k + 1, OldHead)
      BY <2>3, <1>10, <1>17 DEF HeadChanged, l
    <3>3. HeadOf(r) # OldHead
      <4>1. OldHead # t
        BY <2>3, <1>9, <1>17 DEF HeadChanged, l
      <4> QED BY <4>1, <2>3, <1>26 DEF HeadChanged
    <3> QED BY <2>1, <3>1, <3>2, <3>3 DEF Changed, HeadChanged, new
  <2>4. k # Len(ops)
    BY <1>1
  <2> QED BY <2>2, <2>3, <2>4 DEF Changed
<1>29. "timer" \in pending \/ Armed(r) \/ Changed(r, k + 1)
  BY <1>27, <1>28 DEF Good
<1> QED BY <1>16, <1>21, <1>22, <1>23, <1>24, <1>29 DEF Good

\* A stop takes its timer out of the list.
LEMMA StopExecuted ==
  ASSUME IInv, NEW k \in 0 .. Len(ops) - 1, ops[k + 1].type = "STOP", NEW s, Good(s, k),
         NEW r, r = Execute(s, ops[k + 1])
  PROVE  /\ r \in HandlerState /\ r.running = s.running \ {ops[k + 1].timer}
         /\ \/ /\ ops[k + 1].timer \notin Timers(s.list) /\ r.list = s.list
               /\ r.count = s.count /\ r.latest = s.latest /\ r.reset = s.reset /\ r.removed = s.removed
            \/ /\ \E i \in 1 .. Len(s.list) : /\ s.list[i].timer = ops[k + 1].timer /\ Removed(s.list, r.list, i)
                                              /\ r.removed = (s.removed \/ i = 1)
               /\ IF r.list = <<>> THEN r.count = 0 /\ r.latest = 0 /\ r.reset
                                   ELSE r.count = s.count /\ r.latest = s.latest /\ r.reset = s.reset
<1> DEFINE t == ops[k + 1].timer
           x == ListRemove(s, t)
<1>1. s \in HandlerState
  BY DEF Good, Sound
<1>2. r = [x EXCEPT !.running = @ \ {t}]
  BY DEF Execute
<1>3. CASE t \notin Timers(s.list)
  <2>1. x = s
    BY <1>3 DEF ListRemove
  <2> HIDE DEF t, x
  <2>2. r = [s EXCEPT !.running = @ \ {t}]
    BY <1>2, <2>1
  <2>3. /\ r \in HandlerState /\ r.running = s.running \ {t} /\ r.list = s.list
        /\ r.count = s.count /\ r.latest = s.latest /\ r.reset = s.reset /\ r.removed = s.removed
    BY <1>1, <2>2 DEF HandlerState
  <2> QED BY <2>3, <1>3 DEF t
<1>4. CASE t \in Timers(s.list)
  <2> HIDE DEF t
  <2>1. /\ x \in HandlerState /\ x.running = s.running
        /\ \E i \in 1 .. Len(s.list) : /\ s.list[i].timer = t /\ Removed(s.list, x.list, i)
                                       /\ x.removed = (s.removed \/ i = 1)
        /\ IF x.list = <<>> THEN x.count = 0 /\ x.latest = 0 /\ x.reset
                            ELSE x.count = s.count /\ x.latest = s.latest /\ x.reset = s.reset
    BY <1>1, <1>4, RemoveIs
  <2> HIDE DEF x
  <2>2. /\ r \in HandlerState /\ r.running = s.running \ {t} /\ r.list = x.list
        /\ r.count = x.count /\ r.latest = x.latest /\ r.reset = x.reset /\ r.removed = x.removed
    BY <1>2, <2>1 DEF HandlerState
  <2> QED BY <2>1, <2>2 DEF t
<1> QED BY <1>3, <1>4

LEMMA StopGood ==
  ASSUME IInv, NEW k \in 0 .. Len(ops) - 1, ops[k + 1].type = "STOP", NEW s, Good(s, k),
         NEW r, r = Execute(s, ops[k + 1])
  PROVE  Good(r, k + 1)
<1> DEFINE t == ops[k + 1].timer
           l == s.list
           new == r.list
<1>1. k + 1 \in 1 .. Len(ops) /\ Len(ops) \in Nat
  BY LaterIs DEF IInv, Types
<1>2. t \in Timer /\ ops[k + 1] = StopOp(t)
  BY <1>1, CallsAre
<1>3. /\ s \in HandlerState /\ l \in Seq(Node) /\ Distinct(l) /\ Len(l) \in Nat /\ Clock(s) /\ (s.reset => s.removed)
      /\ Since(s) \in Nat /\ \A q \in 1 .. Len(l) : Until(l, q) \in Nat
  <2>1. s \in HandlerState /\ Distinct(l) /\ Clock(s) /\ (s.reset => s.removed)
    BY DEF Good, Sound
  <2>2. l \in Seq(Node)
    BY <2>1 DEF HandlerState
  <2> HIDE DEF l
  <2> QED BY <2>1, <2>2, ClockIs, UntilIs
<1>4. r \in HandlerState /\ r.running = s.running \ {t} /\ new \in Seq(Node)
  <2>1. r \in HandlerState /\ r.running = s.running \ {t}
    BY StopExecuted
  <2> QED BY <2>1 DEF HandlerState
<1>5. \/ /\ t \notin Timers(l) /\ new = l
         /\ r.count = s.count /\ r.latest = s.latest /\ r.reset = s.reset /\ r.removed = s.removed
      \/ /\ \E i \in 1 .. Len(l) : l[i].timer = t /\ Removed(l, new, i) /\ r.removed = (s.removed \/ i = 1)
         /\ IF new = <<>> THEN r.count = 0 /\ r.latest = 0 /\ r.reset
                          ELSE r.count = s.count /\ r.latest = s.latest /\ r.reset = s.reset
  BY StopExecuted
<1> HIDE DEF l, new, t
\* Every timer that stays, with its old place.
<1>6. /\ \A q \in 1 .. Len(new) : \E m \in 1 .. Len(l) : /\ new[q].timer = l[m].timer /\ Until(new, q) = Until(l, m)
                                                         /\ m = q \/ m = q + 1
      /\ \A m \in 1 .. Len(l) : l[m].timer # t =>
           \E q \in 1 .. Len(new) : new[q].timer = l[m].timer /\ Until(new, q) = Until(l, m)
      /\ Timers(new) = Timers(l) \ {t} /\ Distinct(new)
  <2>1. CASE t \notin Timers(l) /\ new = l
    BY <2>1, <1>3
  <2>2. ASSUME NEW i \in 1 .. Len(l), l[i].timer = t, Removed(l, new, i)
        PROVE  /\ \A q \in 1 .. Len(new) : \E m \in 1 .. Len(l) : /\ new[q].timer = l[m].timer /\ Until(new, q) = Until(l, m)
                                                                  /\ m = q \/ m = q + 1
               /\ \A m \in 1 .. Len(l) : l[m].timer # t =>
                    \E q \in 1 .. Len(new) : new[q].timer = l[m].timer /\ Until(new, q) = Until(l, m)
               /\ Timers(new) = Timers(l) \ {t} /\ Distinct(new)
    <3>1. \A q \in 1 .. Len(new) :
              \E p \in 1 .. Len(l) : /\ new[q].timer = l[p].timer /\ Until(new, q) = Until(l, p) /\ p # i
                                     /\ (q < i /\ p = q) \/ (q >= i /\ p = q + 1)
      BY <1>3, <2>2, RemovedPlaces
    <3>2. /\ \A p \in 1 .. Len(l) : l[p].timer # l[i].timer =>
              \E q \in 1 .. Len(new) : new[q].timer = l[p].timer /\ Until(new, q) = Until(l, p)
          /\ Timers(new) = Timers(l) \ {l[i].timer} /\ Distinct(new)
      BY <1>3, <2>2, RemovedPlaces
    <3>3. \A q \in 1 .. Len(new) : \E m \in 1 .. Len(l) : /\ new[q].timer = l[m].timer /\ Until(new, q) = Until(l, m)
                                                          /\ m = q \/ m = q + 1
      BY <3>1
    <3> QED BY <3>2, <3>3, <2>2
  <2> QED BY <2>1, <2>2, <1>5
<1>7. Len(new) \in Nat /\ (new = <<>> <=> Len(new) = 0) /\ (l = <<>> <=> Len(l) = 0)
  BY <1>3, <1>4
<1>8. new # <<>> => Since(r) = Since(s)
  BY <1>5 DEF Since
<1>9. /\ Offset \in Nat /\ Offset >= 1 /\ Latency \in Nat /\ waited \in 0 .. Latency
  BY TimerAssumption DEF IInv, Types
<1>10. \A m \in 1 .. Len(l) : Room(m) \in Nat /\ (m # 1 => Room(m - 1) = Room(m) + Offset - 1)
  BY <1>3, RoomIs
<1>11. ASSUME NEW q \in 1 .. Len(new), NEW m \in 1 .. Len(l), m = q \/ m = q + 1
       PROVE  Room(m) \in Nat /\ Room(q) \in Nat /\ Room(m) <= Room(q) /\ (m = q + 1 => Room(q) = Room(m) + Offset - 1)
  <2>1. CASE m = q
    BY <2>1, <1>10
  <2>2. CASE m = q + 1
    <3>1. m # 1 /\ m - 1 = q
      BY <2>2, <1>7
    <3>2. Room(m) \in Nat /\ Room(q) = Room(m) + Offset - 1
      BY <3>1, <1>10
    <3> QED BY <3>2, <1>9, <1>7
  <2> QED BY <2>1, <2>2, <1>11
<1>12. Sound(r)
  <2>1. Clock(r) /\ (r.reset => r.removed)
    <3>1. CASE new # <<>> \/ new = l
      <4>1. \/ r.count = s.count /\ r.latest = s.latest /\ r.reset = s.reset /\ (s.removed => r.removed)
            \/ l = <<>> /\ \E i \in 1 .. Len(l) : TRUE
        BY <3>1, <1>5
      <4>2. r.count = s.count /\ r.latest = s.latest /\ r.reset = s.reset /\ (s.removed => r.removed)
        BY <4>1, <1>7
      <4> QED BY <4>2, <1>3 DEF Clock
    <3>2. CASE new = <<>> /\ new # l
      <4>1. PICK i \in 1 .. Len(l) : Removed(l, new, i) /\ r.removed = (s.removed \/ i = 1)
        BY <3>2, <1>5
      <4>2. i = 1
        <5>1. Len(new) = Len(l) - 1 /\ Len(new) = 0
          BY <4>1, <3>2, <1>7 DEF Removed
        <5>2. Len(l) \in Nat
          BY <1>3
        <5>3. Len(l) = 1
          BY <5>1, <5>2
        <5> QED BY <5>3
      <4>3. r.count = 0 /\ r.latest = 0 /\ r.reset
        BY <3>2, <1>5
      <4> QED BY <4>1, <4>2, <4>3 DEF Clock
    <3> QED BY <3>1, <3>2
  <2>2. ASSUME NEW q \in 1 .. Len(new)
        PROVE  Until(new, q) + Late < Modulus /\ Since(r) <= Until(new, q) + Room(q) + waited
    <3>1. PICK m \in 1 .. Len(l) : Until(new, q) = Until(l, m) /\ (m = q \/ m = q + 1)
      BY <1>6
    <3>2. Until(l, m) + Late < Modulus /\ Since(s) <= Until(l, m) + Room(m) + waited
      BY DEF Good, Sound, l
    <3>3. Since(r) = Since(s)
      BY <1>7, <1>8
    <3>4. Room(m) \in Nat /\ Room(q) \in Nat /\ Room(m) <= Room(q)
      BY <3>1, <1>11
    <3>5. Until(l, m) \in Nat /\ Since(s) \in Nat /\ waited \in Nat
      BY <1>3, <1>9
    <3>6. Since(s) <= Until(l, m) + Room(q) + waited
      BY SMTT(30), <3>2, <3>4, <3>5
    <3> QED BY <3>1, <3>2, <3>3, <3>6
  <2> QED BY <2>1, <2>2, <1>4, <1>6 DEF Sound, new
<1>13. /\ \A u : u # t => (StopLater(k, u) <=> StopLater(k + 1, u))
       /\ \A u : StartLater(k, u) <=> StartLater(k + 1, u)
       /\ StopLater(k, t)
  BY <1>2, LaterIs DEF IsStop, IsStart, StopOp
<1>14. Runs(r, k + 1)
  <2> SUFFICES ASSUME NEW u \in s.running, u # t PROVE u \in Timers(new) /\ (left[u] \in Int \/ StopLater(k + 1, u))
    BY <1>4 DEF Runs, new
  <2>1. u \in Timers(l) /\ (left[u] \in Int \/ StopLater(k, u))
    BY DEF Good, Runs, l
  <2> QED BY <2>1, <1>6, <1>13
<1>15. Listed(r, k + 1)
  <2> SUFFICES ASSUME NEW q \in 1 .. Len(new) PROVE Noted(r, k + 1, new[q].timer, Until(new, q))
    BY DEF Listed, new
  <2>1. PICK m \in 1 .. Len(l) : new[q].timer = l[m].timer /\ Until(new, q) = Until(l, m)
    BY <1>6
  <2>2. Noted(s, k, l[m].timer, Until(l, m))
    BY DEF Good, Listed, l
  <2>3. new[q].timer # t
    <3>1. new[q].timer \in Timers(new)
      BY DEF Timers
    <3> QED BY <3>1, <1>6
  <2>4. Since(r) = Since(s)
    BY <1>7, <1>8
  <2>5. new[q].timer \notin r.running => new[q].timer \notin s.running
    BY <2>3, <1>4
  <2> QED BY <2>1, <2>2, <2>3, <2>4, <2>5, <1>13 DEF Noted
<1>16. Fresh(r, k + 1)
  <2> SUFFICES ASSUME NEW j \in (k + 1) + 1 .. Len(ops), ops[j].type = "START",
                      \A m \in (k + 1) + 1 .. j - 1 : ~IsStop(ops[m], ops[j].timer)
               PROVE  ops[j].timer \notin r.running /\ ops[j].timer \notin Timers(new)
    BY DEF Fresh, new
  <2>1. CASE ops[j].timer = t
    BY <2>1, <1>4, <1>6
  <2>2. CASE ops[j].timer # t
    <3>1. j \in k + 1 .. Len(ops) /\ \A m \in k + 1 .. j - 1 : m = k + 1 \/ m \in (k + 1) + 1 .. j - 1
      BY <1>1
    <3>2. \A m \in k + 1 .. j - 1 : ~IsStop(ops[m], ops[j].timer)
      BY <3>1, <2>2, <1>2 DEF IsStop, StopOp
    <3>3. ops[j].timer \notin s.running /\ ops[j].timer \notin Timers(l)
      BY <3>1, <3>2 DEF Good, Fresh, l
    <3> QED BY <3>3, <1>4, <1>6
  <2> QED BY <2>1, <2>2
<1>17. Kept(r, k + 1)
  <2> SUFFICES ASSUME NEW u \in Timer, left[u] \in Int, u \notin call.timers, ~StartLater(k + 1, u)
               PROVE  u \in r.running /\ \E q \in 1 .. Len(new) :
                        new[q].timer = u /\ left[u] >= Until(new, q) - Since(r) - Latency
    BY DEF Kept, new
  <2>1. ~StartLater(k, u)
    BY <1>13
  <2>2. u # t
    <3> SUFFICES ASSUME u = t PROVE FALSE
      OBVIOUS
    <3>1. left[u] = Off
      <4>1. k \in 0 .. Len(ops)
        BY <1>1
      <4> QED BY <4>1, <2>1, <1>13, StoppedLast
    <3> QED BY <3>1, OffIs
  <2>3. u \in s.running /\ \E m \in 1 .. Len(l) : l[m].timer = u /\ left[u] >= Until(l, m) - Since(s) - Latency
    BY <2>1 DEF Good, Kept, l
  <2>4. PICK m \in 1 .. Len(l) : l[m].timer = u /\ left[u] >= Until(l, m) - Since(s) - Latency
    BY <2>3
  <2>5. PICK q \in 1 .. Len(new) : new[q].timer = u /\ Until(new, q) = Until(l, m)
    BY <2>2, <2>4, <1>6
  <2>6. Since(r) = Since(s)
    BY <1>7, <1>8
  <2> QED BY <2>2, <2>3, <2>4, <2>5, <2>6, <1>4
<1>18. HeadOf(r) = (IF new = <<>> THEN Off ELSE new[1].timer) /\ HeadOf(s) = (IF l = <<>> THEN Off ELSE l[1].timer)
  BY DEF HeadOf, new, l
\* The head stays, or its removal is noted.
<1>19. r.removed \/ (HeadOf(r) = HeadOf(s) /\ (new # <<>> => Until(new, 1) = Until(l, 1)) /\ r.removed = s.removed)
  <2>1. CASE new = l /\ r.removed = s.removed
    BY <2>1, <1>18
  <2>2. ASSUME NEW i \in 1 .. Len(l), Removed(l, new, i), r.removed = (s.removed \/ i = 1)
        PROVE  r.removed \/ (HeadOf(r) = HeadOf(s) /\ (new # <<>> => Until(new, 1) = Until(l, 1)) /\ r.removed = s.removed)
    <3>1. CASE i = 1
      BY <3>1, <2>2
    <3>2. CASE i # 1
      <4>1. 1 \in 1 .. i - 1 /\ Len(new) # 0 /\ Len(l) # 0
        BY <3>2, <2>2, <1>3, <1>7 DEF Removed
      <4>2. new[1].timer = l[1].timer /\ Until(new, 1) = Until(l, 1)
        BY <4>1, <2>2 DEF Removed
      <4>3. r.removed = s.removed
        BY <3>2, <2>2, <1>3 DEF HandlerState
      <4> QED BY <4>1, <4>2, <4>3, <1>7, <1>18
    <3> QED BY <3>1, <3>2
  <2> QED BY <2>1, <2>2, <1>5
<1>20. s.removed => r.removed
  BY <1>5
<1>21. Near(s) => Near(r)
  <2> SUFFICES ASSUME Near(s), NEW q \in 1 .. Len(new) PROVE Since(r) + Offset <= Until(new, q) + Room(q)
    BY DEF Near, new
  <2>1. PICK m \in 1 .. Len(l) : Until(new, q) = Until(l, m) /\ (m = q \/ m = q + 1)
    BY <1>6
  <2>2. Since(s) + Offset <= Until(l, m) + Room(m)
    BY DEF Near, l
  <2>3. Since(r) = Since(s)
    BY <1>7, <1>8
  <2>4. Room(m) \in Nat /\ Room(q) \in Nat /\ Room(m) <= Room(q)
    BY <2>1, <1>11
  <2>5. Until(l, m) \in Nat /\ Since(s) \in Nat
    BY <1>3
  <2>6. Since(s) + Offset <= Until(l, m) + Room(q)
    BY <2>2, <2>4, <2>5, <1>9
  <2> QED BY <2>1, <2>3, <2>6
<1>22. Armed(s) => Armed(r) \/ Changed(r, k + 1)
  <2> SUFFICES ASSUME Armed(s) PROVE Armed(r) \/ Changed(r, k + 1)
    OBVIOUS
  <2> DEFINE v == Diff(hw.cc, latest)
  <2>1. ~Acquired /\ ~s.removed /\ HeadOf(s) = OldHead /\ (hw.on => Since(s) < v /\ Reaches(l, v, Since(s)))
    BY DEF Armed, l
  <2>2. v \in Nat
    BY DiffIsNat DEF IInv, Types
  <2>3. l # <<>> => hw.on
    <3> SUFFICES ASSUME l # <<>> PROVE hw.on
      OBVIOUS
    <3>1. 1 \in 1 .. Len(l)
      BY <1>3, <1>7
    <3>2. l[1].timer \in Timer
      BY <3>1, <1>3, NodesAre
    <3>3. OldHead # Off
      BY <3>2, <2>1, <1>18, TimerAssumption
    <3>4. list # <<>>
      <4>1. Checked < Len(list) /\ Checked \in Nat
        BY <3>3, Facts DEF OldHead
      <4>2. Len(list) # 0 /\ list \in Seq(Node)
        BY <4>1, Facts DEF IInv, Types
      <4> QED BY <4>2
    <3> QED BY <3>4 DEF IInv, HwInv
  <2>4. CASE ~r.removed
    <3>1. HeadOf(r) = OldHead /\ (new # <<>> => Until(new, 1) = Until(l, 1)) /\ ~r.removed
      BY <2>1, <2>4, <1>19
    <3> SUFFICES ASSUME hw.on PROVE Since(r) < v /\ Reaches(new, v, Since(r))
      BY <2>1, <3>1 DEF Armed, new
    <3>2. Since(s) < v /\ Reaches(l, v, Since(s))
      BY <2>1
    <3>3. new # <<>>
      <4>1. list # <<>>
        BY DEF IInv, HwInv
      <4>2. Checked = 0 /\ Len(list) \in Nat /\ Len(list) # 0
        BY <4>1, <2>1, Facts DEF IInv, Types
      <4>3. OldHead = list[1].timer /\ list[1].timer \in Timer
        <5>1. 1 \in 1 .. Len(list) /\ Checked < Len(list)
          BY <4>2
        <5> QED BY <5>1, <4>2, NodesAre DEF OldHead, IInv, Types
      <4> QED BY <4>3, <3>1, <1>18, TimerAssumption
    <3>4. Since(r) = Since(s)
      BY <3>3, <1>8
    <3> HIDE DEF v
    <3>5. ASSUME NEW q \in 1 .. Len(new) PROVE v <= Until(new, q) + Room(q)
      <4>1. PICK m \in 1 .. Len(l) : Until(new, q) = Until(l, m) /\ (m = q \/ m = q + 1)
        BY <1>6
      <4>2. v <= Until(l, m) + Room(m)
        BY <3>2 DEF Reaches
      <4>3. Room(m) \in Nat /\ Room(q) \in Nat /\ Room(m) <= Room(q) /\ Until(l, m) \in Nat
        BY <4>1, <1>3, <1>11
      <4> QED BY <4>1, <4>2, <4>3, <2>2
    <3>6. v <= Until(new, 1) \/ v <= Since(s) + Offset
      BY <3>1, <3>2, <3>3 DEF Reaches
    <3> QED BY <3>2, <3>4, <3>5, <3>6 DEF Reaches
  <2>5. CASE r.removed
    <3>1. PICK i \in 1 .. Len(l) : Removed(l, new, i) /\ r.removed = (s.removed \/ i = 1)
      BY <2>1, <2>5, <1>5
    <3>2. i = 1
      BY <3>1, <2>1, <2>5
    <3>3. Since(s) < v /\ Reaches(l, v, Since(s))
      <4>1. l # <<>>
        BY <3>1, <1>7
      <4> QED BY <4>1, <2>1, <2>3
    <3>4. ASSUME NEW q \in 1 .. Len(new) PROVE Since(r) + Offset <= Until(new, q) + Room(q)
      <4>1. q \in 1 .. Len(l) - 1 /\ q + 1 \in 1 .. Len(l)
        BY <3>1, <3>2, <1>3, <1>7 DEF Removed
      <4>2. Until(new, q) = Until(l, q + 1)
        BY <4>1, <3>1, <3>2 DEF Removed
      <4>3. v <= Until(l, q + 1) + Room(q + 1)
        BY <4>1, <3>3 DEF Reaches
      <4>4. Room(q + 1) \in Nat /\ Room(q) = Room(q + 1) + Offset - 1
        BY <4>1, <1>11
      <4>5. Until(l, q + 1) \in Nat /\ Since(s) \in Nat /\ Since(r) = Since(s)
        BY <4>1, <1>3, <1>7, <1>8
      <4>6. Since(s) < v
        BY <3>3
      <4> DEFINE e == Since(s)
                 u == Until(l, q + 1)
                 room == Room(q + 1)
      <4>7. e \in Nat /\ u \in Nat /\ room \in Nat /\ e < v /\ v <= u + room
        BY <4>3, <4>4, <4>5, <4>6
      <4> HIDE DEF v, e, u, room
      <4>8. e + Offset <= u + (room + Offset - 1)
        BY <4>7, <2>2, <1>9
      <4> QED BY <4>2, <4>4, <4>5, <4>8 DEF e, u, room
    <3> QED BY <2>5, <3>4 DEF Changed, Near, new
  <2>6. r.removed \in BOOLEAN
    BY <1>4 DEF HandlerState
  <2> QED BY <2>4, <2>5, <2>6
<1>23. Changed(s, k) => Changed(r, k + 1)
  <2> SUFFICES ASSUME Changed(s, k) PROVE Changed(r, k + 1)
    OBVIOUS
  <2>1. Near(r)
    BY <1>21 DEF Changed
  <2>2. CASE Acquired \/ s.removed \/ r.removed
    BY <2>1, <2>2, <1>20 DEF Changed
  <2>3. CASE HeadChanged(s, k) /\ ~r.removed
    <3>1. PICK m \in 1 .. k : ops[m].type = "START" /\ ops[m].timer # OldHead
      BY <2>3 DEF HeadChanged
    <3>2. m \in 1 .. k + 1 /\ m \in 1 .. Len(ops) /\ m < k + 1
      BY <1>1
    <3>3. HeadOf(r) # OldHead
      BY <2>3, <1>19 DEF HeadChanged
    <3>4. OldHead \in Timers(new) \/ ~StartLater(k + 1, OldHead)
      <4>1. CASE ~StartLater(k, OldHead)
        BY <4>1, <1>13
      <4>2. CASE OldHead \in Timers(l) /\ OldHead # t
        BY <4>2, <1>6
      <4>3. CASE OldHead = t
        <5> SUFFICES ASSUME NEW j \in (k + 1) + 1 .. Len(ops), IsStart(ops[j], OldHead) PROVE FALSE
          BY DEF StartLater
        <5>1. j \in 1 .. Len(ops) /\ k + 1 < j
          BY <1>1
        <5>2. ops[j].type = "START" /\ ops[k + 1] = StopOp(ops[j].timer) /\ ops[j].timer = OldHead
          BY <4>3, <1>2 DEF IsStart
        <5>3. ops[m].timer = ops[j].timer
          BY <5>1, <5>2, <3>1, <3>2, <1>1 DEF IInv, StartSeen
        <5> QED BY <5>2, <5>3, <3>1
      <4> QED BY <4>1, <4>2, <4>3, <2>3 DEF HeadChanged, l
    <3> QED BY <2>1, <3>1, <3>2, <3>3, <3>4 DEF Changed, HeadChanged, new
  <2>4. k # Len(ops) /\ r.removed \in BOOLEAN
    BY <1>1, <1>4 DEF HandlerState
  <2> QED BY <2>2, <2>3, <2>4 DEF Changed
<1>24. "timer" \in pending \/ Armed(r) \/ Changed(r, k + 1)
  BY <1>22, <1>23 DEF Good
<1> QED BY <1>12, <1>14, <1>15, <1>16, <1>17, <1>24 DEF Good

LEMMA StopAllGood ==
  ASSUME IInv, NEW k \in 0 .. Len(ops) - 1, ops[k + 1].type = "STOP_ALL", NEW s, Good(s, k),
         NEW r, r = Execute(s, ops[k + 1])
  PROVE  Good(r, k + 1)
<1>1. k + 1 \in 1 .. Len(ops) /\ Len(ops) \in Nat
  BY LaterIs DEF IInv, Types
<1>2. k + 1 = Len(ops)
  <2>1. Len(ops) <= 1
    BY <1>1 DEF IInv, StopInv, CallInv
  <2> QED BY <2>1, <1>1
<1>3. s \in HandlerState /\ Clock(s) /\ (s.reset => s.removed)
  BY DEF Good, Sound
<1>4. r = [s EXCEPT !.list = <<>>, !.running = @ \ Timers(s.list)]
  BY DEF Execute
<1>5. /\ r \in HandlerState /\ r.list = <<>> /\ r.running = s.running \ Timers(s.list)
      /\ r.count = s.count /\ r.latest = s.latest /\ r.reset = s.reset /\ r.removed = s.removed
  <2> DEFINE out == Timers(s.list)
  <2>1. r = [s EXCEPT !.list = <<>>, !.running = @ \ out]
    BY <1>4
  <2> HIDE DEF out
  <2>2. <<>> \in Seq(Node)
    OBVIOUS
  <2>3. r = [s EXCEPT !.list = <<>>, !.running = s.running \ out]
    BY <2>1
  <2>4. /\ r.list = <<>> /\ r.running = s.running \ out
        /\ r.count = s.count /\ r.latest = s.latest /\ r.reset = s.reset /\ r.removed = s.removed
    BY <1>3, <2>3 DEF HandlerState
  <2>5. r \in HandlerState
    BY <1>3, <2>2, <2>3 DEF HandlerState
  <2> QED BY <2>4, <2>5 DEF out
<1>6. Len(r.list) = 0 /\ r.running = {}
  BY <1>5 DEF Good, Runs
<1>7. Sound(r) /\ Runs(r, k + 1) /\ Listed(r, k + 1)
  BY <1>3, <1>5, <1>6 DEF Sound, Runs, Listed, Distinct, Clock
<1>8. Fresh(r, k + 1)
  BY <1>2 DEF Fresh
<1>9. Kept(r, k + 1)
  <2> SUFFICES ASSUME NEW u \in Timer, left[u] \in Int, u \notin call.timers, ~StartLater(k + 1, u) PROVE FALSE
    BY DEF Kept
  <2>1. StopLater(k, u) /\ ~StartLater(k, u)
    BY LaterIs DEF IsStop, IsStart
  <2>2. k \in 0 .. Len(ops)
    BY <1>1
  <2>3. left[u] = Off
    BY <2>1, <2>2, StoppedLast
  <2> QED BY <2>3, OffIs
<1>10. Changed(r, k + 1)
  BY <1>2, <1>5, <1>6 DEF Changed, Near
<1> QED BY <1>7, <1>8, <1>9, <1>10 DEF Good

LEMMA AllGood ==
  ASSUME IInv, NEW s, Good(s, 0)
  PROVE  Good(Executed(s), Len(ops))
<1>1. Len(ops) \in Nat
  BY DEF IInv, Types
<1>2. PICK f : f[0] = s /\ (\A k \in 0 .. Len(ops) - 1 : f[k + 1] = Execute(f[k], ops[k + 1])) /\ Executed(s) = f[Len(ops)]
  BY <1>1, ExecutedIs
<1> DEFINE S == {k \in 0 .. Len(ops) : Good(f[k], k)}
<1>3. 0 \in S
  BY <1>1, <1>2
<1>4. ASSUME NEW k \in 0 .. Len(ops) - 1, k \in S PROVE k + 1 \in S
  <2>1. Good(f[k], k) /\ k + 1 \in 0 .. Len(ops) /\ k + 1 \in 1 .. Len(ops)
    BY <1>1, <1>4
  <2>2. f[k + 1] = Execute(f[k], ops[k + 1])
    BY <1>2
  <2>3. ops[k + 1].type \in {"START", "STOP", "STOP_ALL"}
    BY <2>1, CallsAre
  <2>4. Good(f[k + 1], k + 1)
    BY <2>1, <2>2, <2>3, StartGood, StopGood, StopAllGood
  <2> QED BY <2>1, <2>4
<1> HIDE DEF S
<1>5. \A k \in 0 .. Len(ops) : k \in S
  BY <1>1, <1>3, <1>4, Induct
<1>6. Good(f[Len(ops)], Len(ops))
  BY <1>1, <1>5 DEF S
<1> QED BY <1>2, <1>6

LEMMA ListHandlerKeeps == ASSUME IInv, ListHandler PROVE IInv'
<1> DEFINE b == Handled.before
           s == Handled.after
           update == Acquired \/ s.removed \/ HeadOf(s) # HeadOf(b)
           stop == update /\ s.list = <<>>
           set == update /\ s.list # <<>>
<1>1. /\ "swi" \in pending /\ swi.pc = "idle"
      /\ list' = s.list /\ running' = s.running
      /\ latest' = IF stop THEN 0 ELSE s.latest
      /\ hw' = [hw EXCEPT !.count = IF stop THEN 0 ELSE s.count, !.on = IF update THEN set ELSE hw.on]
      /\ swi' = IF set THEN [pc |-> "write", pre |-> s.count, cc |-> CompareValue(s)] ELSE Idle
      /\ pending' = pending \ {"swi"}
      /\ passed' = IF ~Acquired THEN passed ELSE [passed EXCEPT !.read = ReadIndex, !.ticks[ReadIndex] = 0]
      /\ ops' = <<>>
      /\ UNCHANGED <<call, caller, waited, left>>
  BY DEF ListHandler
<1> HIDE DEF b, s
<1>2. Good(s, Len(ops)) /\ HeadOf(b) = OldHead
  <2>1. /\ HeadOf(b) = OldHead /\ (~Acquired => b.list = list) /\ s = Executed(Restarted(b, Checked))
    BY BeforeIs DEF b, s
  <2>2. Restarting(Restarted(b, Checked), Checked) /\ (~Acquired => Restarted(b, Checked) = b)
    BY RestartEnds DEF b
  <2>3. Good(Restarted(b, Checked), 0)
    BY <1>1, <2>1, <2>2, GoodBegins
  <2> QED BY <2>1, <2>3, AllGood
<1>3. /\ s \in HandlerState /\ s.list \in Seq(Node) /\ Distinct(s.list) /\ Clock(s) /\ (s.reset => s.removed)
      /\ s.running \in SUBSET Timer /\ s.removed \in BOOLEAN /\ Len(s.list) \in Nat
      /\ s.count \in Count /\ s.latest \in Count /\ Since(s) \in Nat
  <2>1. s \in HandlerState /\ Distinct(s.list) /\ Clock(s) /\ (s.reset => s.removed)
    BY <1>2 DEF Good, Sound
  <2>2. s.list \in Seq(Node) /\ s.running \in SUBSET Timer /\ s.removed \in BOOLEAN
    BY <2>1 DEF HandlerState
  <2> QED BY <2>1, <2>2, ClockIs
<1>4. \A t : ~StopLater(Len(ops), t) /\ ~StartLater(Len(ops), t)
  <2>1. Len(ops) \in Nat
    BY DEF IInv, Types
  <2>2. Len(ops) + 1 .. Len(ops) = {}
    BY <2>1
  <2> QED BY <2>2 DEF StopLater, StartLater
<1>5. Acquired \in BOOLEAN /\ update \in BOOLEAN
  BY <1>3 DEF Acquired
<1>6. ~update => /\ ~Acquired /\ ~s.removed /\ HeadOf(s) = OldHead
                 /\ s.count = hw.count /\ s.latest = latest
                 /\ (s.list = <<>> <=> list = <<>>)
  <2> SUFFICES ASSUME ~update
               PROVE  /\ ~Acquired /\ ~s.removed /\ HeadOf(s) = OldHead
                      /\ s.count = hw.count /\ s.latest = latest
                      /\ (s.list = <<>> <=> list = <<>>)
    OBVIOUS
  <2>1. ~Acquired /\ ~s.removed /\ HeadOf(s) = OldHead
    BY <1>2
  <2>2. s.count = hw.count /\ s.latest = latest
    <3>1. Base = latest
      BY <2>1, PassedIs
    <3> QED BY <3>1, <2>1, <1>3 DEF Clock
  <2>3. s.list = <<>> <=> HeadOf(s) = Off
    <3>1. CASE s.list = <<>>
      BY <3>1 DEF HeadOf
    <3>2. CASE s.list # <<>>
      <4>1. 1 \in 1 .. Len(s.list)
        BY <3>2, <1>3
      <4>2. s.list[1].timer \in Timer
        BY <4>1, <1>3, NodesAre
      <4> QED BY <3>2, <4>2, TimerAssumption DEF HeadOf
    <3> QED BY <3>1, <3>2
  <2>4. list = <<>> <=> OldHead = Off
    <3>1. Checked = 0 /\ Len(list) \in Nat /\ list \in Seq(Node)
      BY <2>1, Facts DEF IInv, Types
    <3>2. CASE list = <<>>
      BY <3>1, <3>2 DEF OldHead
    <3>3. CASE list # <<>>
      <4>1. 1 \in 1 .. Len(list) /\ Checked < Len(list) /\ Checked + 1 = 1
        BY <3>1, <3>3
      <4>2. list[1].timer \in Timer
        BY <4>1, <3>1, NodesAre
      <4> QED BY <3>3, <4>1, <4>2, TimerAssumption DEF OldHead
    <3> QED BY <3>2, <3>3
  <2> QED BY <2>1, <2>2, <2>3, <2>4
<1> HIDE DEF update
<1>7. /\ hw'.cc = hw.cc /\ hw'.count = (IF stop THEN 0 ELSE s.count) /\ hw'.on = (IF update THEN set ELSE hw.on)
      /\ hw' \in [count : Count, cc : Count, on : BOOLEAN] /\ latest' \in Count
  <2>1. hw \in [count : Count, cc : Count, on : BOOLEAN]
    BY DEF IInv, Types
  <2>2. 0 \in Count /\ set \in BOOLEAN /\ stop \in BOOLEAN
    BY <1>5, Constants DEF Count
  <2> HIDE DEF set, stop
  <2> QED BY <2>1, <2>2, <1>1, <1>3
<1>8. s.list # <<>> => Elapsed' = Since(s) /\ latest' = s.latest /\ hw'.count = s.count
  BY <1>1, <1>7 DEF Elapsed, Since
<1>9. /\ passed' \in [ticks : [0 .. 1 -> Count], read : 0 .. 1, write : 0 .. 1]
      /\ passed'.read = passed'.write
  <2>1. passed \in [ticks : [0 .. 1 -> Count], read : 0 .. 1, write : 0 .. 1] /\ 0 \in Count
    BY Constants DEF IInv, Types, Count
  <2>2. CASE ~Acquired
    BY <2>1, <2>2, <1>1 DEF Acquired
  <2>3. CASE Acquired
    <3>1. (passed.read = 0 \/ passed.read = 1) /\ (passed.write = 0 \/ passed.write = 1) /\ passed.read # passed.write
      BY <2>1, <2>3 DEF Acquired
    <3>2. ReadIndex \in 0 .. 1 /\ ReadIndex = passed.write
      BY <3>1 DEF ReadIndex
    <3>3. passed' = [passed EXCEPT !.read = ReadIndex, !.ticks[ReadIndex] = 0]
      BY <2>3, <1>1
    <3>4. /\ passed'.ticks = [passed.ticks EXCEPT ![ReadIndex] = 0] /\ passed'.read = ReadIndex /\ passed'.write = passed.write
          /\ passed' = [ticks |-> passed'.ticks, read |-> passed'.read, write |-> passed'.write]
      BY <2>1, <3>3
    <3>5. passed'.ticks \in [0 .. 1 -> Count]
      <4>1. passed.ticks \in [0 .. 1 -> Count]
        BY <2>1
      <4> QED BY <4>1, <3>4, <2>1
    <3>6. passed.write \in 0 .. 1
      BY <2>1
    <3> QED BY <3>2, <3>4, <3>5, <3>6
  <2> QED BY <2>2, <2>3
<1>10. ~Acquired' /\ Checked' = 0
  BY <1>9 DEF Acquired, Checked
<1>11. \A i \in 1 .. Len(list') : Due(list', Checked', i) = Until(list', i)
  <2> SUFFICES ASSUME NEW i \in 1 .. Len(list') PROVE Due(list', 0, i) = Until(list', i)
    BY <1>10
  <2>1. ~(i <= 0) /\ list' \in Seq(Node)
    BY <1>1, <1>3
  <2>2. Until(list', i) \in Nat
    BY <2>1, UntilIs
  <2> QED BY <2>1, <2>2 DEF Due
<1>12. Types'
  <2>1. swi' = Idle \/ swi' \in [pc : {"write", "verify"}, pre : Count, cc : Count]
    <3>1. CompareValue(s) \in Count \/ s.list = <<>>
      <4> SUFFICES ASSUME s.list # <<>> PROVE CompareValue(s) \in Count
        OBVIOUS
      <4>1. 1 \in 1 .. Len(s.list)
        BY <1>3
      <4>2. s.list[1].ticks \in Nat
        BY <4>1, <1>3, NodesAre
      <4> DEFINE x == s.latest + (IF Diff(s.count, s.latest) + Offset < s.list[1].ticks THEN s.list[1].ticks
                                  ELSE Diff(s.count, s.latest) + Offset)
      <4>3. x \in Int
        <5>1. s.latest \in Nat /\ Offset \in Nat /\ Diff(s.count, s.latest) \in Nat
          BY <1>3, Constants, TimerAssumption DEF Count, Since
        <5> QED BY <5>1, <4>2
      <4>4. CompareValue(s) = x % Modulus
        BY DEF CompareValue
      <4> HIDE DEF x
      <4>5. Modulus \in Nat /\ Modulus >= 2
        BY Constants
      <4>6. x % Modulus \in 0 .. Modulus - 1
        BY <4>3, <4>5
      <4> QED BY <4>4, <4>6 DEF Count
    <3> QED BY <3>1, <1>1, <1>3
  <2>2. ops' \in Seq(QueuedCall) /\ pending' \in SUBSET {"timer", "swi"}
    BY <1>1 DEF IInv, Types
  <2> QED BY <2>1, <2>2, <1>1, <1>3, <1>7, <1>9 DEF IInv, Types
<1>13. ListInv' /\ CheckInv'
  <2>1. \A q \in 1 .. Len(s.list) : Until(s.list, q) + Late < Modulus
    BY <1>2 DEF Good, Sound
  <2> QED BY <2>1, <1>1, <1>3, <1>10 DEF ListInv, CheckInv
<1>14. HwInv'
  <2>1. CASE update
    BY <2>1, <1>1, <1>7, <1>10 DEF HwInv
  <2>2. CASE ~update
    <3>1. hw'.on = hw.on /\ hw'.count = hw.count /\ latest' = latest /\ (list' = <<>> <=> list = <<>>) /\ swi' = Idle
      BY <2>2, <1>1, <1>6, <1>7
    <3> QED BY <3>1, <1>10 DEF IInv, HwInv
  <2> QED BY <2>1, <2>2
<1>15. WaitInv'
  <2>1. \A q \in 1 .. Len(s.list) : Since(s) <= Until(s.list, q) + Room(q) + waited
    BY <1>2 DEF Good, Sound
  <2>2. ASSUME NEW q \in 1 .. Len(s.list) PROVE s.list # <<>>
    BY <1>3
  <2> QED BY <2>1, <2>2, <1>1, <1>8 DEF WaitInv
<1>16. ArmedInv'
  <2> SUFFICES ASSUME hw'.on, "timer" \notin pending', swi'.pc = "idle"
               PROVE  Elapsed' < Diff(hw'.cc, latest') /\ Reaches(list', Diff(hw'.cc, latest'), Elapsed')
    BY DEF ArmedInv
  <2>1. ~update /\ hw.on
    BY <1>1, <1>7
  <2>2. "timer" \notin pending
    BY <1>1
  <2>3. list # <<>> /\ s.list # <<>>
    BY <2>1, <1>6 DEF IInv, HwInv
  <2>4. ~Changed(s, Len(ops))
    BY <2>1, <2>3, <1>6 DEF Changed, HeadChanged
  <2>5. Armed(s)
    BY <2>2, <2>4, <1>2 DEF Good
  <2>6. Elapsed' = Since(s) /\ latest' = latest /\ hw'.cc = hw.cc
    BY <2>1, <2>3, <1>6, <1>7, <1>8
  <2> QED BY <2>1, <2>5, <2>6, <1>1 DEF Armed
<1>17. SwiInv'
  <2> SUFFICES ASSUME swi'.pc # "idle", "timer" \notin pending
               PROVE  /\ Diff(swi'.pre, latest') <= Elapsed'
                      /\ Diff(swi'.pre, latest') + Offset <= Diff(swi'.cc, latest')
                      /\ Reaches(list', Diff(swi'.cc, latest'), Diff(swi'.pre, latest'))
    <3>1. swi'.pc # "idle" => set /\ swi'.pc = "write"
      BY <1>1 DEF Idle
    <3>2. set => hw'.on
      BY <1>7
    <3>3. "swi" \notin pending' /\ ("timer" \in pending' <=> "timer" \in pending)
      BY <1>1
    <3> QED BY <3>1, <3>2, <3>3 DEF SwiInv
  <2>1. set /\ swi' = [pc |-> "write", pre |-> s.count, cc |-> CompareValue(s)]
    BY <1>1 DEF Idle
  <2>2. s.list # <<>> /\ 1 \in 1 .. Len(s.list)
    BY <2>1, <1>3
  <2>3. swi'.pre = s.count /\ swi'.cc = CompareValue(s) /\ latest' = s.latest /\ Elapsed' = Since(s)
        /\ Diff(swi'.pre, latest') = Since(s)
    BY <2>1, <2>2, <1>8 DEF Since
  <2>4. ~Armed(s)
    BY <2>1, <1>2 DEF Armed, update
  <2>5. Near(s)
    BY <2>4, <1>2 DEF Good, Changed
  <2> DEFINE e == Since(s)
             first == Until(s.list, 1)
             x == IF e + Offset < first THEN first ELSE e + Offset
  <2>6. first \in Nat /\ first = s.list[1].ticks
    <3>1. /\ Until(s.list, 0) = 0 /\ \A k \in 1 .. Len(s.list) : Until(s.list, k) = Until(s.list, k - 1) + s.list[k].ticks
          /\ \A k \in 0 .. Len(s.list) : Until(s.list, k) \in Nat
      BY <1>3, UntilIs
    <3>2. s.list[1].ticks \in Nat
      BY <2>2, <1>3, NodesAre
    <3>3. Until(s.list, 1) = Until(s.list, 1 - 1) + s.list[1].ticks /\ 1 - 1 = 0 /\ Until(s.list, 1) \in Nat
      BY <2>2, <3>1
    <3> QED BY <3>1, <3>2, <3>3
  <2>7. CompareValue(s) = (s.latest + x) % Modulus
    BY <2>6 DEF CompareValue, Since
  <2>8. e \in Nat /\ Offset \in Nat /\ Late \in Nat /\ Modulus \in Nat
    BY <1>3, TimerAssumption, Constants
  <2>9. x \in Nat /\ x < Modulus
    <3>1. first + Late < Modulus
      BY <2>2, <1>2 DEF Good, Sound
    <3>2. e + Offset <= first + Room(1)
      BY <2>2, <2>5 DEF Near
    <3>3. Room(1) \in Nat /\ Room(1) + Latency <= Late /\ Latency \in Nat
      BY <2>2, <1>3, RoomIs, TimerAssumption
    <3> HIDE DEF e, first
    <3>4. e + Offset < Modulus
      BY <3>1, <3>2, <3>3, <2>6, <2>8
    <3>5. first < Modulus
      BY <3>1, <2>6, <2>8
    <3> QED BY <3>4, <3>5, <2>6, <2>8
  <2>10. Diff(CompareValue(s), s.latest) = x
    <3> HIDE DEF x
    <3>1. x \in Count
      BY <2>9, <2>8 DEF Count
    <3> QED BY <3>1, <2>7, <1>3, DiffMoves
  <2>11. ASSUME NEW q \in 1 .. Len(s.list) PROVE x <= Until(s.list, q) + Room(q)
    <3>1. e + Offset <= Until(s.list, q) + Room(q)
      BY <2>5 DEF Near
    <3>2. first <= Until(s.list, q) /\ Until(s.list, q) \in Nat
      <4>1. 1 \in 0 .. Len(s.list) /\ q \in 0 .. Len(s.list) /\ 1 <= q
        BY <2>2
      <4> QED BY <4>1, <1>3, UntilGrows, UntilIs
    <3>3. Room(q) \in Nat
      BY <1>3, RoomIs
    <3> HIDE DEF e, first
    <3> QED BY <3>1, <3>2, <3>3, <2>6, <2>8
  <2>12. (x <= first \/ x <= e + Offset) /\ e + Offset <= x
    <3> HIDE DEF e, first
    <3> QED BY <2>6, <2>8
  <2>13. Reaches(s.list, x, e)
    <3> HIDE DEF x, e
    <3> QED BY <2>11, <2>12 DEF Reaches
  <2> HIDE DEF x
  <2> QED BY <2>3, <2>8, <2>10, <2>12, <2>13, <1>1
<1>18. Listed(s, Len(ops)) /\ Runs(s, Len(ops)) /\ Kept(s, Len(ops))
  BY <1>2 DEF Good
<1>19. Len(ops') = 0 /\ \A t : ~Stops(ops', t) /\ ~Starts(ops', t)
  BY <1>1 DEF Stops, Starts
<1>20. CallInv'
  <2>1. call.pc = "return" => \A i \in 1 .. Len(list') : list'[i].timer \notin call.timers
    BY <1>1, <1>4, <1>18 DEF Listed, Noted
  <2> QED BY <2>1, <1>1, <1>19 DEF IInv, CallInv
<1>21. StartTime' /\ StartFresh' /\ StartLeft' /\ StartSeen' /\ StopInv'
  BY <1>19 DEF StartTime, StartFresh, StartLeft, StartSeen, StopInv
<1>22. RunInv'
  <2> SUFFICES ASSUME NEW t \in s.running PROVE left[t] \in Int /\ \E i \in 1 .. Len(s.list) : s.list[i].timer = t
    BY <1>1, <1>10 DEF RunInv
  <2> QED BY <1>4, <1>18 DEF Runs, Timers
<1>23. DueInv'
  <2> SUFFICES ASSUME NEW i \in 1 .. Len(s.list)
               PROVE  /\ left[s.list[i].timer] \in Int => left[s.list[i].timer] <= Until(s.list, i) - Elapsed'
                      /\ left[s.list[i].timer] # Off
                      /\ s.list[i].timer \notin s.running => call.pc = "queue" /\ s.list[i].timer \in call.timers
    BY <1>1, <1>11, <1>19 DEF DueInv
  <2>1. Elapsed' = Since(s)
    BY <1>3, <1>8
  <2> QED BY <2>1, <1>4, <1>18 DEF Listed, Noted
<1>24. LeftInv'
  <2> SUFFICES ASSUME NEW t \in Timer, left[t] \in Int, t \notin call.timers
               PROVE  \E i \in 1 .. Len(s.list) : /\ s.list[i].timer = t /\ left[t] >= Until(s.list, i) - Elapsed' - Latency
                                                  /\ t \in s.running
    <3>1. \A i \in 1 .. Len(list') : Due(list', Checked', i) = Until(list', i) /\ list' = s.list
      BY <1>1, <1>11
    <3> QED BY <3>1, <1>1, <1>19 DEF LeftInv
  <2>1. t \in s.running /\ \E q \in 1 .. Len(s.list) : s.list[q].timer = t /\ left[t] >= Until(s.list, q) - Since(s) - Latency
    BY <1>4, <1>18 DEF Kept
  <2>2. PICK q \in 1 .. Len(s.list) : s.list[q].timer = t /\ left[t] >= Until(s.list, q) - Since(s) - Latency
    BY <2>1
  <2>3. Elapsed' = Since(s)
    BY <1>3, <1>8
  <2> QED BY <2>1, <2>2, <2>3
<1> QED BY <1>12, <1>13, <1>14, <1>15, <1>16, <1>17, <1>20, <1>21, <1>22, <1>23, <1>24 DEF IInv

LEMMA NextKeeps == ASSUME IInv, [Next]_vars PROVE IInv'
<1>1. CASE UNCHANGED vars
  <2>1. UNCHANGED <<hw, latest, list, running, ops, passed, pending, swi, call, caller, waited, left>>
    BY <1>1 DEF vars
  <2>2. Acquired' = Acquired /\ Elapsed' = Elapsed
    BY <2>1 DEF Acquired, Elapsed
  <2>3. Checked' = Checked
    BY <2>1, <2>2 DEF Checked, ReadIndex
  <2>4. (Types /\ ListInv /\ HwInv /\ CheckInv /\ WaitInv)'
    BY <2>1, <2>2, <2>3 DEF IInv, Types, ListInv, HwInv, CheckInv, WaitInv, ReadIndex
  <2>5. (ArmedInv /\ SwiInv /\ CallInv)'
    BY <2>1, <2>2, <2>3 DEF IInv, ArmedInv, SwiInv, CallInv
  <2>6. (StartTime /\ StartFresh /\ StartLeft /\ StartSeen /\ StopInv)'
    BY <2>1, <2>2, <2>3 DEF IInv, StartTime, StartFresh, StartLeft, StartSeen, StopInv
  <2>7. (RunInv /\ DueInv /\ LeftInv)'
    BY <2>1, <2>2, <2>3 DEF IInv, RunInv, DueInv, LeftInv
  <2> QED BY <2>4, <2>5, <2>6, <2>7 DEF IInv
<1>2. CASE Tick
  BY <1>2, TickKeeps
<1>3. CASE TimerIrq
  BY <1>3, TimerIrqKeeps
<1>4. CASE ListHandler
  BY <1>4, ListHandlerKeeps
<1>5. CASE WriteCompare
  BY <1>5, WriteCompareKeeps
<1>6. CASE VerifyCompare
  BY <1>6, VerifyCompareKeeps
<1>7. ASSUME NEW t \in Timer, NEW d \in IF Period[t] = 0 THEN Ticks ELSE {Period[t]}, Start(t, d) PROVE IInv'
  BY <1>7, StartKeeps
<1>8. ASSUME NEW t \in Timer, StopFromIsr(t) PROVE IInv'
  BY <1>8, StopFromIsrKeeps
<1>9. ASSUME NEW t \in Timer, StopBegins(t) PROVE IInv'
  BY <1>9, StopBeginsKeeps
<1>10. CASE StopQueues
  BY <1>10, StopQueuesKeeps
<1>11. CASE StopAll
  BY <1>11, StopAllKeeps
<1>12. CASE StopReturns
  BY <1>12, StopReturnsKeeps
<1> QED BY <1>1, <1>2, <1>3, <1>4, <1>5, <1>6, <1>7, <1>8, <1>9, <1>10, <1>11, <1>12 DEF Next, Handler, Call

LEMMA Inductive == Spec => []IInv
<1>1. Init => IInv
  BY InitHolds
<1>2. IInv /\ [Next]_vars => IInv'
  BY NextKeeps
<1> QED BY <1>1, <1>2, PTL DEF Spec

-----------------------------------------------------------------------------
(* The properties.                                                         *)

\* TypeOK: the fields of the driver keep to their widths; no timer of the list is
\* a whole turn of the counter or more after the one before it.
THEOREM TypeCorrect == Spec => []TypeOK
<1>1. ASSUME IInv PROVE TypeOK
  <2>1. list \in Seq(Node) /\ Len(list) \in Nat /\ Modulus \in Nat /\ Late \in Nat
    BY <1>1, Constants DEF IInv, Types
  <2>2. ASSUME NEW i \in 1 .. Len(list) PROVE list[i] \in [timer : Timer, ticks : 0 .. Modulus - 1]
    <3>1. list[i] \in Node
      BY <2>1
    <3>2. Until(list, i) = Until(list, i - 1) + list[i].ticks
      BY <2>1, UntilIs
    <3>3. i - 1 \in 0 .. Len(list) /\ i \in 0 .. Len(list)
      BY <2>1
    <3>4. Until(list, i - 1) \in Nat /\ Until(list, i) \in Nat
      BY <2>1, <3>3, UntilIs
    <3>5. Until(list, i) + Late < Modulus
      BY <1>1 DEF IInv, ListInv
    <3>6. list[i].ticks \in Nat
      BY <3>1 DEF Node
    <3>7. list[i].ticks \in 0 .. Modulus - 1
      <4> DEFINE a == Until(list, i)
                 b == Until(list, i - 1)
                 c == list[i].ticks
      <4>1. a = b + c /\ a \in Nat /\ b \in Nat /\ c \in Nat /\ a + Late < Modulus
        BY <3>2, <3>4, <3>5, <3>6
      <4> HIDE DEF a, b, c
      <4>2. c \in 0 .. Modulus - 1
        BY <4>1, <2>1
      <4> QED BY <4>2 DEF c
    <3> QED BY <3>1, <3>7 DEF Node
  <2>3. list \in Seq([timer : Timer, ticks : 0 .. Modulus - 1])
    <3> DEFINE Q == [timer : Timer, ticks : 0 .. Modulus - 1]
    <3>1. \A i \in 1 .. Len(list) : list[i] \in Q
      BY <2>2
    <3> HIDE DEF Q
    <3>2. list = [i \in 1 .. Len(list) |-> list[i]]
      BY <2>1
    <3>3. list \in Seq(Q)
      BY <2>1, <3>1, <3>2
    <3> QED BY <3>3 DEF Q
  <2>4. ops \in Seq([type : {"START"}, timer : Timer, at : 0 .. Modulus - 1, first : Nat]
                    \cup [type : {"STOP"}, timer : Timer] \cup [type : {"STOP_ALL"}])
    <3>1. ops \in Seq(QueuedCall)
      BY <1>1 DEF IInv, Types
    <3> DEFINE Q == [type : {"START"}, timer : Timer, at : 0 .. Modulus - 1, first : Nat]
                    \cup [type : {"STOP"}, timer : Timer] \cup [type : {"STOP_ALL"}]
    <3>2. QueuedCall \subseteq Q
      BY DEF QueuedCall, StartCall, StopCall, Count
    <3> HIDE DEF Q
    <3>3. ops \in Seq(Q)
      BY <3>1, <3>2
    <3> QED BY <3>3 DEF Q
  <2>5. \A t \in Timer : left[t] = Off \/ left[t] \in Int
    BY <1>1 DEF IInv, Types
  <2>6. /\ hw \in [count : 0 .. Modulus - 1, cc : 0 .. Modulus - 1, on : BOOLEAN] /\ latest \in 0 .. Modulus - 1
        /\ running \subseteq Timer /\ pending \subseteq {"timer", "swi"}
        /\ passed \in [ticks : [0 .. 1 -> 0 .. Modulus - 1], read : 0 .. 1, write : 0 .. 1]
    BY <1>1 DEF IInv, Types, Count
  <2> QED BY <2>3, <2>4, <2>5, <2>6 DEF TypeOK
<1> QED BY <1>1, Inductive, PTL

\* ListIsSound: no order of starts, stops, expiries and restarts brings a timer
\* into the list a second time, so its pointers never form a cycle.
THEOREM ListStaysSound == Spec => []ListIsSound
<1>1. IInv => ListIsSound
  BY DEF IInv, ListInv, Distinct, ListIsSound
<1> QED BY <1>1, Inductive, PTL

\* The last queued start of a timer that was not stopped after it.
LEMMA LastStart ==
  ASSUME IInv, NEW t \in Timer, Starts(ops, t), left[t] # Off, t \notin call.timers
  PROVE  \E j \in 1 .. Len(ops) : /\ ops[j].type = "START" /\ ops[j].timer = t
                                  /\ \A k \in j + 1 .. Len(ops) : ~IsStop(ops[k], t)
<1> DEFINE S == {Len(ops) - j : j \in {k \in 1 .. Len(ops) : IsStart(ops[k], t)}}
<1>1. Len(ops) \in Nat
  BY DEF IInv, Types
<1>2. S \in SUBSET Nat /\ S # {}
  BY <1>1 DEF Starts
<1> HIDE DEF S
<1>3. PICK m \in S : \A k \in S : m <= k
  BY <1>2, Least
<1>4. PICK j \in 1 .. Len(ops) : m = Len(ops) - j /\ IsStart(ops[j], t)
  BY <1>3 DEF S
<1>5. ASSUME NEW k \in j + 1 .. Len(ops) PROVE ~IsStart(ops[k], t)
  <2>1. k \in 1 .. Len(ops) /\ Len(ops) - k < m
    BY <1>1, <1>4
  <2>2. Len(ops) - k \in Nat /\ m \in Nat
    BY <1>1, <1>2, <2>1
  <2>3. Len(ops) - k \notin S
    BY <1>3, <2>1, <2>2
  <2> QED BY <2>1, <2>3 DEF S
<1>6. ASSUME NEW k \in j + 1 .. Len(ops), IsStop(ops[k], t) PROVE FALSE
  <2>1. k \in 1 .. Len(ops) /\ \A i \in k + 1 .. Len(ops) : i \in j + 1 .. Len(ops)
    BY <1>1, <1>4
  <2>2. \A i \in k + 1 .. Len(ops) : ~IsStart(ops[i], t)
    BY <1>5, <2>1
  <2>3. left[t] = Off \/ t \in call.timers
    BY <1>6, <2>1, <2>2 DEF IInv, StopInv
  <2> QED BY <2>3
<1> QED BY <1>4, <1>6 DEF IsStart

\* NotLate: whatever the order of the calls, the expiries and the two handlers, the
\* counter does not pass the compare register unnoticed: no timer is called later
\* than Late after the handlers are done.
THEOREM NeverLate == Spec => []NotLate
<1>1. ASSUME IInv PROVE NotLate
  <2> SUFFICES ASSUME NEW t \in Timer, left[t] # Off, t \notin call.timers PROVE left[t] >= -Lateness
    BY DEF NotLate
  <2>1. left[t] \in Int /\ waited \in Nat /\ waited <= Latency /\ Latency \in Nat /\ Late \in Nat /\ Late >= 1
    <3>1. left[t] \in Int
      BY <1>1 DEF IInv, Types
    <3>2. waited \in 0 .. Latency
      BY <1>1 DEF IInv, Types
    <3> QED BY <3>1, <3>2, Constants, TimerAssumption
  <2>2. Late >= Latency
    <3>1. CASE N >= 1
      <4>1. 1 \in 1 .. N
        BY <3>1, Constants
      <4> QED BY <4>1, Rooms, <2>1
    <3>2. CASE ~(N >= 1)
      <4>1. Timer = {}
        BY <3>2, Constants, TimerAssumption, FS_EmptySet DEF N
      <4> QED BY <4>1
    <3> QED BY <3>1, <3>2
  <2>3. CASE Starts(ops, t)
    <3>1. PICK j \in 1 .. Len(ops) : /\ ops[j].type = "START" /\ ops[j].timer = t
                                     /\ \A k \in j + 1 .. Len(ops) : ~IsStop(ops[k], t)
      BY <1>1, <2>3, LastStart
    <3>2. ops[j].first - left[t] <= waited
      BY <1>1, <3>1 DEF IInv, StartLeft
    <3>3. ops[j].first \in Nat
      BY <1>1, <3>1, CallsAre
    <3> QED BY <2>1, <2>2, <3>2, <3>3 DEF Lateness
  <2>4. CASE ~Starts(ops, t)
    <3>1. PICK i \in 1 .. Len(list) : list[i].timer = t /\ left[t] >= Due(list, Checked, i) - Elapsed - Latency
      BY <1>1, <2>1, <2>4 DEF IInv, LeftInv
    <3>2. Elapsed <= Until(list, i) + Room(i) + waited
      BY <1>1 DEF IInv, WaitInv
    <3>3. /\ Elapsed \in Nat /\ Until(list, i) \in Nat
          /\ Room(i) \in Nat /\ Room(i) + Latency <= Late
      <4>1. i \in 0 .. Len(list)
        OBVIOUS
      <4>2. Elapsed \in Count
        BY <1>1, Facts
      <4> QED BY <1>1, <4>1, <4>2, Facts, Constants DEF Count
    <3>4. Due(list, Checked, i) \in Nat /\ Due(list, Checked, i) >= Until(list, i)
      <4>1. list[i].timer \in Timer /\ Period[t] \in Nat
        BY <3>1, TimerAssumption
      <4> QED BY <4>1, <3>1, <3>3 DEF Due
    <3> DEFINE e == Elapsed
               u == Until(list, i)
               r == Room(i)
               d == Due(list, Checked, i)
               x == left[t]
    <3>5. /\ e \in Nat /\ u \in Nat /\ r \in Nat /\ d \in Nat /\ x \in Int
          /\ d >= u /\ e <= u + r + waited /\ r + Latency <= Late /\ x >= d - e - Latency
      BY <2>1, <3>1, <3>2, <3>3, <3>4
    <3> HIDE DEF e, u, r, d, x
    <3>6. x >= -(Late + Latency)
      BY <2>1, <3>5
    <3> QED BY <3>6 DEF x, Lateness
  <2> QED BY <2>3, <2>4
<1> QED BY <1>1, Inductive, PTL

-----------------------------------------------------------------------------
(* The steps are those of the service.                                     *)

\* A timer that is called is due.
LEMMA CalledIsDue ==
  ASSUME IInv, list # <<>>
  PROVE  \A t \in Called(Timers(SubSeq(list, 1, CountExpired(list, Elapsed)))) :
           t \in Timer /\ left[t] \in Int /\ left[t] <= 0
<1> DEFINE n == CountExpired(list, Elapsed)
<1>1. list \in Seq(Node) /\ Len(list) \in Nat /\ Elapsed \in Nat /\ \A i \in 0 .. Len(list) : Until(list, i) \in Nat
  BY Facts, Constants DEF IInv, Types, Count
<1>2. n \in 0 .. Len(list) /\ \A i \in 0 .. Len(list) : Until(list, i) <= Elapsed <=> i <= n
  BY <1>1, CountIs
<1> HIDE DEF n
<1> SUFFICES ASSUME NEW t \in Called(Timers(SubSeq(list, 1, n)))
             PROVE  t \in Timer /\ left[t] \in Int /\ left[t] <= 0
  BY DEF n
<1>3. t \in running /\ t \in Timers(SubSeq(list, 1, n))
  BY DEF Called
<1>4. PICK k \in 1 .. n : list[k].timer = t
  <2>1. Len(SubSeq(list, 1, n)) = n /\ \A k \in 1 .. n : SubSeq(list, 1, n)[k] = list[k]
    BY <1>1, <1>2
  <2> QED BY <1>3, <2>1 DEF Timers
<1>5. t \in Timer /\ left[t] \in Int
  BY <1>3 DEF IInv, Types, RunInv
<1>6. PICK i \in Checked + 1 .. Len(list) : list[i].timer = t
  BY <1>3 DEF IInv, RunInv
<1>7. Checked \in 0 .. Len(list)
  BY Facts
<1>8. i \in 1 .. Len(list) /\ k \in 1 .. Len(list) /\ ~(i <= Checked)
  BY <1>1, <1>2, <1>7
<1>9. i = k
  BY <1>4, <1>6, <1>8 DEF IInv, ListInv, Distinct
<1>10. ~Starts(ops, t)
  BY <1>3 DEF Starts, IsStart, IInv, StartFresh
<1>11. left[t] <= Due(list, Checked, i) - Elapsed
  BY <1>5, <1>6, <1>8, <1>10 DEF IInv, DueInv
<1>12. Due(list, Checked, i) = Until(list, i)
  <2>1. Until(list, i) \in Nat
    BY <1>1, <1>8
  <2> QED BY <1>8, <2>1 DEF Due
<1>13. Until(list, i) <= Elapsed /\ Until(list, i) \in Nat
  <2>1. i \in 0 .. Len(list) /\ i <= n
    BY <1>8, <1>9, <1>2
  <2> QED BY <1>1, <1>2, <2>1
<1> QED BY <1>1, <1>5, <1>11, <1>12, <1>13

LEMMA ExpiryIsDue == ASSUME IInv, TimerIrq PROVE Service!Next
<1> DEFINE S == Called(Timers(SubSeq(list, 1, CountExpired(list, Elapsed))))
<1>1. list # <<>>
  BY DEF TimerIrq, Enabled, IInv, HwInv, Types
<1>2. left' = [t \in Timer |-> IF t \notin S THEN left[t]
                               ELSE IF Period[t] = 0 THEN Off ELSE left[t] + Period[t]]
  BY <1>1 DEF TimerIrq, Elapsed
<1>3. \A t \in S : t \in Timer /\ left[t] \in Int /\ left[t] <= 0
  BY <1>1, CalledIsDue
<1> HIDE DEF S
<1>4. \A t \in S : t \in Service!Running /\ left[t] <= 0
  BY <1>3, OffIs DEF Service!Running
<1>5. Service!Expire(S) /\ S \in SUBSET Timer
  BY <1>2, <1>3, <1>4 DEF Service!Expire
<1> QED BY <1>5 DEF Service!Next

LEMMA StepsAreService == ASSUME IInv, [Next]_vars PROVE [Service!Next]_left
<1>1. CASE UNCHANGED vars
  BY <1>1 DEF vars
<1>2. CASE Tick
  <2>1. left' = [t \in Timer |-> IF left[t] = Off THEN Off ELSE left[t] - 1]
    BY <1>2 DEF Tick
  <2>2. Service!Tick
    BY <2>1 DEF Service!Tick, Service!Running
  <2> QED BY <2>2 DEF Service!Next
<1>3. CASE TimerIrq
  BY <1>3, ExpiryIsDue
<1>4. CASE ListHandler \/ WriteCompare \/ VerifyCompare
  BY <1>4 DEF ListHandler, WriteCompare, VerifyCompare
<1>5. ASSUME NEW t \in Timer, NEW d \in IF Period[t] = 0 THEN Ticks ELSE {Period[t]}, Start(t, d)
      PROVE  Service!Next
  <2>1. Service!Start(t, d)
    BY <1>5 DEF Start, Service!Start, Service!Running
  <2>2. d \in Ticks \cup {Period[u] : u \in Timer}
    BY <1>5
  <2> QED BY <2>1, <2>2 DEF Service!Next
<1>6. ASSUME NEW t \in Timer, StopFromIsr(t) PROVE Service!Next
  <2>1. left \in [Timer -> Int \cup {Off}] /\ left' = [left EXCEPT ![t] = Off]
    BY <1>6 DEF StopFromIsr, IInv, Types
  <2>2. left' = [u \in Timer |-> IF u \in {t} THEN Off ELSE left[u]]
    BY <2>1
  <2>3. Service!Stop({t}) /\ {t} \in SUBSET Timer
    BY <2>2 DEF Service!Stop
  <2> QED BY <2>3 DEF Service!Next
<1>7. ASSUME NEW t \in Timer, StopBegins(t) PROVE left' = left
  BY <1>7 DEF StopBegins
<1>8. CASE StopQueues \/ StopAll
  BY <1>8 DEF StopQueues, StopAll
<1>9. CASE StopReturns
  <2>1. Service!Stop(call.timers)
    BY <1>9 DEF StopReturns, Service!Stop
  <2>2. call.timers \in SUBSET Timer
    BY DEF IInv, Types
  <2> QED BY <2>1, <2>2 DEF Service!Next
<1> QED BY <1>1, <1>2, <1>3, <1>4, <1>5, <1>6, <1>7, <1>8, <1>9 DEF Next, Handler, Call

\* KeepsTime: the driver implements the timer service: no timer expires early, nor
\* after it was stopped, nor twice for one start, whatever calls are queued while
\* the two handlers run and whenever the counter wraps.
THEOREM TimersKeepTime == Spec => KeepsTime
<1>1. Init => Service!Init
  BY DEF Init, Service!Init
<1>2. IInv /\ [Next]_vars => [Service!Next]_left
  BY StepsAreService
<1> QED BY <1>1, <1>2, Inductive, PTL DEF Spec, KeepsTime, Service!Spec
=============================================================================
