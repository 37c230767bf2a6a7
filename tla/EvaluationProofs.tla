-------------------------- MODULE EvaluationProofs --------------------------
(***************************************************************************)
(* What is proved of what the agent says of its forecasts and of the       *)
(* markets it chooses, and of the folds and the sorts they are made with.  *)
(***************************************************************************)
EXTENDS MCPlane, RunningTotalProofs, SequenceTheorems, FiniteSetTheorems, WellFoundedInduction, TLAPS

-----------------------------------------------------------------------------
(***************************************************************************)
(* Products, least and largest numbers, folds over sets of positions, and the *)
(* order of sets.                                                          *)
(***************************************************************************)

\* Facts of arithmetic the solvers take as rules, not as products to multiply out.
LEMMA TimesMono == ASSUME NEW a \in Int, NEW b \in Int, NEW c \in Nat, a <= b PROVE a * c <= b * c
OBVIOUS
LEMMA TimesCancel == ASSUME NEW a \in Int, NEW b \in Int, NEW c \in Nat \ {0}, a * c <= b * c PROVE a <= b
OBVIOUS
LEMMA Swap == ASSUME NEW a \in Int, NEW b \in Int, NEW c \in Int PROVE /\ (a * b) * c = (a * c) * b /\ (a*b)*c \in Int /\ a*b = b*a
OBVIOUS
LEMMA Distr == ASSUME NEW a \in Int, NEW b \in Int, NEW c \in Int PROVE (a - b) * c = a * c - b * c
OBVIOUS

\* Some natural numbers have a least one.
LEMMA LeastOf ==
  ASSUME NEW S \in SUBSET Nat, S # {}
  PROVE  \E m \in S : \A y \in S : m <= y
<1>1. PICK m \in S : \A y \in S : ~(<<y, m>> \in OpToRel(<, Nat))
  BY WFMin, NatLessThanWellFounded
<1>2. \A y \in S : ~(y < m)
  BY <1>1 DEF OpToRel
<1> QED BY <1>2

\* The largest of numbers below a bound is one of them: the distance to the bound
\* has a least value.
LEMMA MaxOfBounded ==
  ASSUME NEW b \in Nat, NEW S \in SUBSET (0 .. b), S # {}
  PROVE  Max(S) \in S /\ \A y \in S : Max(S) >= y
<1> DEFINE gaps == {b - y : y \in S}
<1>1. gaps \in SUBSET Nat /\ gaps # {}
  <2>1. \A y \in S : b - y \in Nat
    OBVIOUS
  <2>2. \A g \in gaps : g \in Nat
    BY <2>1
  <2>3. PICK y \in S : TRUE
    OBVIOUS
  <2>4. b - y \in gaps
    BY <2>3
  <2> HIDE DEF gaps
  <2> QED BY <2>2, <2>4
<1>2. PICK m \in gaps : \A y \in gaps : ~(<<y, m>> \in OpToRel(<, Nat))
  BY <1>1, WFMin, NatLessThanWellFounded
<1>3. \A y \in gaps : ~(y < m)
  BY <1>1, <1>2 DEF OpToRel
<1>4. PICK x \in S : m = b - x
  OBVIOUS
<1>5. \A y \in S : x >= y
  BY <1>3, <1>4
<1>6. \E z \in S : \A y \in S : z >= y
  BY <1>5
<1> QED BY <1>6, Zenon DEF Max

FoldsBy(it, base, F, N) ==
  it = [s \in SUBSET (1 .. N) |-> IF s = {} THEN base ELSE F[<<it[s \ {Max(s)}], Max(s)>>]]

\* Of the numbers up to n + 1 with n + 1 among them, it is the largest.
LEMMA MaxOfUpTo ==
  ASSUME NEW n \in Nat, NEW s \in SUBSET (1 .. n + 1), n + 1 \in s
  PROVE  Max(s) = n + 1
<1>1. \A y \in s : n + 1 >= y
  OBVIOUS
<1>2. \A x \in s : (\A y \in s : x >= y) => x = n + 1
  OBVIOUS
<1> QED BY <1>1, <1>2, Zenon DEF Max

\* The fold that takes the largest position last exists, for any step that keeps the type.
LEMMA FoldExists ==
  ASSUME NEW Typ, NEW base \in Typ, NEW N \in Nat, NEW F \in [Typ \X (1 .. N) -> Typ]
  PROVE  \E it \in [SUBSET (1 .. N) -> Typ] : FoldsBy(it, base, F, N)
<1> DEFINE Folded(n) == \E it \in [SUBSET (1 .. n) -> Typ] : FoldsBy(it, base, F, n)
           T == {n \in Nat : n <= N => Folded(n)}
<1>1. 0 \in T
  <2> DEFINE it == [s \in SUBSET (1 .. 0) |-> base]
  <2>1. it \in [SUBSET (1 .. 0) -> Typ]
    OBVIOUS
  <2>2. \A s \in SUBSET (1 .. 0) : s = {}
    OBVIOUS
  <2>3. FoldsBy(it, base, F, 0)
    BY <2>2 DEF FoldsBy
  <2> QED BY <2>1, <2>3
<1>2. ASSUME NEW n \in T PROVE n + 1 \in T
  <2>1. SUFFICES ASSUME n + 1 <= N PROVE Folded(n + 1)
    <3> HIDE DEF Folded
    <3> QED BY <1>2
  <2>0. n \in Nat /\ Folded(n)
    <3> HIDE DEF Folded
    <3> QED BY <1>2, <2>1
  <2>2. PICK it \in [SUBSET (1 .. n) -> Typ] : FoldsBy(it, base, F, n)
    BY <2>0
  <2> DEFINE t == [s \in SUBSET (1 .. n + 1) |-> IF n + 1 \in s THEN F[<<it[s \ {n + 1}], n + 1>>] ELSE it[s]]
  <2>3. \A s \in SUBSET (1 .. n + 1) : n + 1 \notin s => s \in SUBSET (1 .. n)
    OBVIOUS
  <2>4. \A s \in SUBSET (1 .. n + 1) : s \ {n + 1} \in SUBSET (1 .. n)
    OBVIOUS
  <2>5. t \in [SUBSET (1 .. n + 1) -> Typ]
    <3>1. ASSUME NEW s \in SUBSET (1 .. n + 1) PROVE t[s] \in Typ
      <4>1. CASE n + 1 \in s
        <5>1. n + 1 \in 1 .. N /\ it[s \ {n + 1}] \in Typ
          BY <2>1, <2>4
        <5> QED BY <4>1, <5>1
      <4>2. CASE n + 1 \notin s
        BY <2>3, <4>2
      <4> QED BY <4>1, <4>2
    <3> QED BY <3>1
  <2>6. ASSUME NEW s \in SUBSET (1 .. n + 1)
        PROVE  t[s] = IF s = {} THEN base ELSE F[<<t[s \ {Max(s)}], Max(s)>>]
    <3>1. CASE n + 1 \in s
      <4>1. Max(s) = n + 1
        BY <3>1, MaxOfUpTo
      <4>2. t[s \ {n + 1}] = it[s \ {n + 1}]
        OBVIOUS
      <4> QED BY <3>1, <4>1, <4>2
    <3>2. CASE n + 1 \notin s
      <4>1. s \in SUBSET (1 .. n) /\ t[s] = it[s]
        BY <2>3, <3>2
      <4>2. it[s] = IF s = {} THEN base ELSE F[<<it[s \ {Max(s)}], Max(s)>>]
        BY <2>2, <4>1 DEF FoldsBy
      <4>3. n + 1 \notin s \ {Max(s)} /\ s \ {Max(s)} \in SUBSET (1 .. n + 1)
        BY <3>2
      <4>4. t[s \ {Max(s)}] = it[s \ {Max(s)}]
        BY <4>3
      <4> QED BY <4>1, <4>2, <4>4
    <3> QED BY <3>1, <3>2
  <2>7. FoldsBy(t, base, F, n + 1)
    <3>1. t = [s \in SUBSET (1 .. n + 1) |-> t[s]]
      BY <2>5
    <3> HIDE DEF t
    <3> QED BY <2>6, <3>1 DEF FoldsBy
  <2> QED BY <2>5, <2>7
<1>3. T = Nat
  <2> HIDE DEF T
  <2> QED BY <1>1, <1>2, SetInduction DEF T
<1>4. Folded(N)
  <2> HIDE DEF Folded
  <2> QED BY <1>3
<1> QED BY <1>4

\* A strict order of all elements of S.
IsOrder(R, S) ==
    /\ \A x \in S : <<x, x>> \notin R
    /\ \A x, y \in S : x # y => <<x, y>> \in R \/ <<y, x>> \in R
    /\ \A x, y, z \in S : <<x, y>> \in R /\ <<y, z>> \in R => <<x, z>> \in R

\* Fewer come before what comes before.
LEMMA PrecedingGrows ==
  ASSUME NEW S, IsFiniteSet(S), NEW R, IsOrder(R, S)
  PROVE  /\ \A x \in S : Preceding(S, R, x) \in 0 .. Cardinality(S) - 1
         /\ \A x, y \in S : <<x, y>> \in R => Preceding(S, R, x) < Preceding(S, R, y)
<1> DEFINE below(x) == {y \in S : <<y, x>> \in R}
<1>1. \A x \in S : x \notin below(x)
  BY DEF IsOrder
<1>2. ASSUME NEW x \in S PROVE IsFiniteSet(below(x)) /\ Cardinality(below(x)) \in Nat
  BY FS_Subset, FS_CardinalityType
<1>3. ASSUME NEW x \in S PROVE Cardinality(below(x)) < Cardinality(S)
  <2>1. below(x) \in SUBSET S /\ below(x) # S
    BY <1>1
  <2> HIDE DEF below
  <2> QED BY <1>2, <2>1, FS_Subset, FS_CardinalityType
<1>4. ASSUME NEW x \in S, NEW y \in S, <<x, y>> \in R
      PROVE  Cardinality(below(x)) < Cardinality(below(y))
  <2>1. below(x) \in SUBSET below(y)
    BY <1>4 DEF IsOrder
  <2>2. x \in below(y) /\ x \notin below(x)
    BY <1>1, <1>4
  <2> HIDE DEF below
  <2> QED BY <1>2, <2>1, <2>2, FS_Subset
<1>5. Cardinality(S) \in Nat
  BY FS_CardinalityType
<1> HIDE DEF below
<1>6. \A x \in S : Preceding(S, R, x) = Cardinality(below(x))
  BY DEF Preceding, below
<1> QED BY <1>2, <1>3, <1>4, <1>5, <1>6

\* A finite set put in a strict order: every element once, each before those that follow it.
LEMMA InOrderSorts ==
  ASSUME NEW S, IsFiniteSet(S), NEW R, IsOrder(R, S)
  PROVE  /\ InOrder(S, R) \in [1 .. Cardinality(S) -> S]
         /\ \A x \in S : \E k \in 1 .. Cardinality(S) : InOrder(S, R)[k] = x
         /\ \A i, j \in 1 .. Cardinality(S) : i < j => <<InOrder(S, R)[i], InOrder(S, R)[j]>> \in R
<1> DEFINE n == Cardinality(S)
           rank == [x \in S |-> Preceding(S, R, x)]
           o == InOrder(S, R)
<1>1. n \in Nat
  BY FS_CardinalityType
<1>2. rank \in [S -> 0 .. n - 1] /\ \A x, y \in S : <<x, y>> \in R => rank[x] < rank[y]
  BY PrecedingGrows
<1> HIDE DEF rank
<1>3. \A x, y \in S : x # y => rank[x] # rank[y]
  <2>1. SUFFICES ASSUME NEW x \in S, NEW y \in S, x # y PROVE rank[x] # rank[y]
    OBVIOUS
  <2>2. rank[x] \in Int /\ rank[y] \in Int
    BY <1>2
  <2>3. rank[x] < rank[y] \/ rank[y] < rank[x]
    BY <1>2, <2>1 DEF IsOrder
  <2> QED BY <2>2, <2>3
<1>4. rank \in Injection(S, 0 .. n - 1)
  BY <1>2, <1>3 DEF Injection, IsInjective
<1>5. rank \in Surjection(S, 0 .. n - 1)
  <2>1. IsFiniteSet(0 .. n - 1) /\ Cardinality(0 .. n - 1) = n
    BY <1>1, FS_Interval
  <2> QED BY <1>4, <2>1, FS_Injection
<1>6. ASSUME NEW k \in 1 .. n PROVE o[k] \in S /\ rank[o[k]] = k - 1
  <2>1. k - 1 \in 0 .. n - 1
    BY <1>1
  <2>2. \E x \in S : Preceding(S, R, x) = k - 1
    BY <1>5, <2>1 DEF Surjection, rank
  <2>3. o[k] = CHOOSE x \in S : Preceding(S, R, x) = k - 1
    BY DEF InOrder
  <2> HIDE DEF o
  <2> QED BY <2>2, <2>3 DEF rank
<1>7. o \in [1 .. n -> S]
  <2>1. o = [k \in 1 .. n |-> o[k]]
    BY DEF InOrder
  <2> HIDE DEF o
  <2> QED BY <1>6, <2>1
<1> HIDE DEF o
<1>8. ASSUME NEW x \in S PROVE \E k \in 1 .. n : o[k] = x
  <2>1. PICK k \in 1 .. n : k = rank[x] + 1
    BY <1>1, <1>2
  <2>2. o[k] \in S /\ rank[o[k]] = rank[x]
    BY <1>2, <1>6, <2>1
  <2> QED BY <1>3, <2>2
<1>9. ASSUME NEW i \in 1 .. n, NEW j \in 1 .. n, i < j PROVE <<o[i], o[j]>> \in R
  <2>1. o[i] \in S /\ o[j] \in S /\ rank[o[i]] < rank[o[j]]
    BY <1>1, <1>6, <1>9
  <2>2. ~(<<o[j], o[i]>> \in R) /\ o[i] # o[j]
    BY <1>2, <2>1
  <2> QED BY <2>1, <2>2 DEF IsOrder
<1> QED BY <1>7, <1>8, <1>9 DEF o

\* Numbers are in strict order by size.
LEMMA UpwardsOrders == ASSUME NEW S \in SUBSET Int PROVE IsOrder(Upwards(S), S)
<1>1. \A x, y \in S : <<x, y>> \in Upwards(S) <=> x < y
  BY DEF Upwards
<1>2. \A x \in S : x \in Int
  OBVIOUS
<1> QED BY <1>1, <1>2 DEF IsOrder

\* The rows picked are those at the positions asked for.
LEMMA PickedIsAll ==
  ASSUME NEW T, NEW s \in Seq(T), NEW S \in SUBSET DOMAIN s
  PROVE  /\ Picked(s, S) \in Seq(T) /\ Len(Picked(s, S)) = Cardinality(S) /\ Cardinality(S) \in Nat
         /\ \A k \in 1 .. Cardinality(S) : \E i \in S : Picked(s, S)[k] = s[i]
         /\ \A i \in S : \E k \in 1 .. Cardinality(S) : Picked(s, S)[k] = s[i]
<1> DEFINE n == Cardinality(S)
           at == InOrder(S, Upwards(S))
<1>1. S \in SUBSET Int /\ IsFiniteSet(S) /\ DOMAIN s = 1 .. Len(s) /\ Len(s) \in Nat
  <2>1. DOMAIN s = 1 .. Len(s) /\ Len(s) \in Nat
    BY LenProperties
  <2>2. IsFiniteSet(1 .. Len(s))
    BY <2>1, FS_Interval
  <2>3. S \in SUBSET (1 .. Len(s))
    BY <2>1
  <2>4. IsFiniteSet(S)
    BY <2>2, <2>3, FS_Subset
  <2>5. S \in SUBSET Int
    BY <2>3
  <2> QED BY <2>1, <2>4, <2>5
<1>2. /\ at \in [1 .. n -> S] /\ n \in Nat
      /\ \A x \in S : \E k \in 1 .. n : at[k] = x
  BY <1>1, UpwardsOrders, InOrderSorts, FS_CardinalityType
<1>3. Picked(s, S) = [k \in 1 .. n |-> s[at[k]]]
  BY DEF Picked
<1> HIDE DEF n, at
<1>4. \A k \in 1 .. n : s[at[k]] \in T
  BY <1>1, <1>2, ElementOfSeq
<1>5. Picked(s, S) \in [1 .. n -> T]
  BY <1>3, <1>4
<1>6. Picked(s, S) \in Seq(T) /\ Len(Picked(s, S)) = n
  BY <1>2, <1>5, SeqDef
<1>7. ASSUME NEW i \in S PROVE \E k \in 1 .. n : Picked(s, S)[k] = s[i]
  <2>1. PICK k \in 1 .. n : at[k] = i
    BY <1>2
  <2>2. Picked(s, S)[k] = s[at[k]]
    BY <1>3
  <2> QED BY <2>1, <2>2
<1>8. \A k \in 1 .. n : \E i \in S : Picked(s, S)[k] = s[i]
  BY <1>2, <1>3
<1> QED BY <1>6, <1>7, <1>8 DEF n

-----------------------------------------------------------------------------
(***************************************************************************)
(* Paper: what the loop reports adds up, and no fall of the equity is worse *)
(* than the drawdown it reports.                                           *)
(***************************************************************************)

Drops == [peak : Nat \ {0}, fall : Nat, of : Nat \ {0}]

\* The drawdown stays a fall of a peak.
LEMMA FellType == ASSUME NEW dd \in Drops, NEW v \in Nat PROVE Fell(dd, v) \in Drops
<1> DEFINE peak == IF v > dd.peak THEN v ELSE dd.peak
<1>1. peak \in Nat \ {0} /\ peak >= v
  BY DEF Drops
<1>2. [peak |-> peak, fall |-> peak - v, of |-> peak] \in Drops
  BY <1>1 DEF Drops
<1>3. [dd EXCEPT !.peak = peak] \in Drops
  BY <1>1 DEF Drops
<1> QED BY <1>2, <1>3 DEF Fell

\* The drawdown is computed value by value along the curve.
LEMMA DrawdownFolds ==
  ASSUME NEW curve \in Seq(Nat), Len(curve) > 0, curve[1] > 0
  PROVE  \E d \in [0 .. Len(curve) -> Drops] :
            /\ d[0] = [peak |-> curve[1], fall |-> 0, of |-> curve[1]]
            /\ \A k \in 1 .. Len(curve) : d[k] = Fell(d[k - 1], curve[k])
            /\ MaxDrawdown(curve) = d[Len(curve)]
<1> DEFINE N == Len(curve)
           base == [peak |-> curve[1], fall |-> 0, of |-> curve[1]]
           F == [e \in Drops \X (1 .. N) |-> Fell(e[1], curve[e[2]])]
           Eq(it) == it = [s \in SUBSET (1 .. N) |->
                             IF s = {} THEN base ELSE Fell(it[s \ {Max(s)}], curve[Max(s)])]
<1>1. N \in Nat /\ curve[1] \in Nat /\ \A k \in 1 .. N : curve[k] \in Nat
  BY ElementOfSeq, LenProperties
<1>2. base \in Drops
  BY <1>1 DEF Drops
<1>3. F \in [Drops \X (1 .. N) -> Drops]
  BY <1>1, FellType
<1> DEFINE Eq0(it) == it = [s \in SUBSET DOMAIN curve |->
                              IF s = {} THEN [peak |-> Head(curve), fall |-> 0, of |-> Head(curve)]
                              ELSE Fell(it[s \ {Max(s)}], curve[Max(s)])]
<1>4. MaxDrawdown(curve) = (CHOOSE it : Eq0(it))[DOMAIN curve]
  BY Zenon DEF MaxDrawdown, FoldLeft, MapThenFoldSet
<1>5. DOMAIN curve = 1 .. N /\ Head(curve) = curve[1]
  OBVIOUS
<1>6. \A it : Eq0(it) <=> Eq(it)
  BY <1>5
<1>7. \E it : Eq(it)
  <2>1. PICK it \in [SUBSET (1 .. N) -> Drops] : FoldsBy(it, base, F, N)
    BY <1>1, <1>2, <1>3, FoldExists
  <2>2. ASSUME NEW s \in SUBSET (1 .. N), s # {}
        PROVE  F[<<it[s \ {Max(s)}], Max(s)>>] = Fell(it[s \ {Max(s)}], curve[Max(s)])
    <3>1. Max(s) \in 1 .. N
      <4>1. s \in SUBSET (0 .. N)
        BY <1>1
      <4> QED BY <1>1, <2>2, <4>1, MaxOfBounded
    <3>2. it[s \ {Max(s)}] \in Drops
      OBVIOUS
    <3> QED BY <3>1, <3>2
  <2>3. it = [s \in SUBSET (1 .. N) |-> IF s = {} THEN base ELSE F[<<it[s \ {Max(s)}], Max(s)>>]]
    BY <2>1 DEF FoldsBy
  <2> HIDE DEF F, base
  <2>4. Eq(it)
    BY <2>2, <2>3, Zenon
  <2> QED BY <2>4
<1>8. PICK it : Eq(it) /\ MaxDrawdown(curve) = it[1 .. N]
  <2> HIDE DEF Eq, Eq0, N
  <2>1. Eq0(CHOOSE it : Eq0(it))
    BY <1>6, <1>7, Zenon
  <2> QED BY <1>4, <1>5, <1>6, <2>1, Zenon
<1>9. it[{}] = base
  BY <1>8
<1>10. ASSUME NEW k \in 1 .. N PROVE it[1 .. k] = Fell(it[1 .. k - 1], curve[k])
  <2>1. k - 1 \in Nat /\ 1 .. k \in SUBSET (1 .. N) /\ 1 .. k \in SUBSET (1 .. (k - 1) + 1) /\ k = (k - 1) + 1
    BY <1>1
  <2>2. Max(1 .. k) = k
    <3>1. (k - 1) + 1 \in 1 .. k
      BY <2>1
    <3> QED BY <2>1, <3>1, MaxOfUpTo
  <2>3. 1 .. k # {} /\ (1 .. k) \ {k} = 1 .. k - 1
    <3>1. k \in 1 .. k
      BY <2>1
    <3>2. \A x : x \in 1 .. k - 1 <=> x \in (1 .. k) \ {k}
      BY <2>1
    <3> QED BY <3>1, <3>2
  <2> HIDE DEF N, base
  <2>4. it[1 .. k] = Fell(it[(1 .. k) \ {Max(1 .. k)}], curve[Max(1 .. k)])
    BY <1>8, <2>1, <2>3, Zenon
  <2> QED BY <2>2, <2>3, <2>4
<1> DEFINE d == [k \in 0 .. N |-> it[1 .. k]]
           T == {k \in Nat : k <= N => d[k] \in Drops}
<1>11. d[0] = base
  <2>1. 1 .. 0 = {}
    OBVIOUS
  <2> QED BY <1>1, <1>9, <2>1
<1>12. \A k \in 1 .. N : d[k] = Fell(d[k - 1], curve[k])
  BY <1>1, <1>10
<1>13. T = Nat
  <2>1. 0 \in T
    BY <1>2, <1>11
  <2>2. ASSUME NEW k \in T PROVE k + 1 \in T
    <3>1. SUFFICES ASSUME k + 1 <= N PROVE d[k + 1] \in Drops
      BY <1>1
    <3> HIDE DEF d
    <3>2. d[k] \in Drops /\ k + 1 \in 1 .. N /\ (k + 1) - 1 = k
      BY <1>1, <3>1
    <3>3. d[k + 1] = Fell(d[k], curve[k + 1])
      BY <1>12, <3>2
    <3> QED BY <1>1, <3>2, <3>3, FellType
  <2> HIDE DEF T
  <2> QED BY <2>1, <2>2, SetInduction DEF T
<1>14. d \in [0 .. N -> Drops]
  <2>1. \A k \in 0 .. N : d[k] \in Drops
    <3> HIDE DEF d
    <3> QED BY <1>1, <1>13
  <2> QED BY <2>1
<1>15. MaxDrawdown(curve) = d[N]
  BY <1>1, <1>8
<1> HIDE DEF d
<1> QED BY <1>11, <1>12, <1>14, <1>15

\* A fall from e to f is no worse than the drawdown d.
Within(e, f, d) == (e - f) * d.of <= d.fall * e

\* One more value: no fall to it, and none seen before, is worse than the drawdown.
LEMMA FellIsWorst ==
  ASSUME NEW dd \in Drops, NEW e \in Nat, NEW v \in Nat, e <= dd.peak
  PROVE  /\ e <= Fell(dd, v).peak /\ v <= Fell(dd, v).peak
         /\ Within(e, v, Fell(dd, v))
         /\ \A f \in Nat : Within(e, f, dd) => Within(e, f, Fell(dd, v))
<1> DEFINE top == IF v > dd.peak THEN v ELSE dd.peak
<1>0. PICK peak \in Nat \ {0}, of \in Nat \ {0}, fall \in Nat : peak = top /\ of = dd.of /\ fall = dd.fall
  BY DEF Drops
<1>1. v <= peak /\ e <= peak /\ peak - v \in Nat
  BY <1>0 DEF Drops
\* Of two falls to v the one from the peak is the worse.
<1>2. (e - v) * peak <= (peak - v) * e
  <2>1. e * v <= peak * v
    BY <1>1, TimesMono
  <2>2. (e - v) * peak = e * peak - v * peak /\ (peak - v) * e = peak * e - v * e
    BY Distr
  <2> QED BY <2>1, <2>2, Swap
<1>3. CASE (peak - v) * of > fall * peak
  <2>1. Fell(dd, v) = [peak |-> peak, fall |-> peak - v, of |-> peak]
    BY <1>0, <1>3 DEF Fell
  <2>2. Within(e, v, Fell(dd, v))
    BY <1>2, <2>1 DEF Within
  <2>3. ASSUME NEW f \in Nat, Within(e, f, dd) PROVE Within(e, f, Fell(dd, v))
    <3>1. (e - f) * of <= fall * e
      BY <1>0, <2>3 DEF Within
    <3>2. ((e - f) * of) * peak <= (fall * e) * peak
      BY <3>1, TimesMono
    <3>3. (fall * peak) * e <= ((peak - v) * of) * e
      BY <1>1, <1>3, TimesMono
    <3>4. ((e - f) * of) * peak = ((e - f) * peak) * of /\ (fall * e) * peak = (fall * peak) * e
          /\ ((peak - v) * of) * e = ((peak - v) * e) * of
      BY <1>1, Swap
    <3>5. ((e - f) * peak) * of <= ((peak - v) * e) * of
      BY <3>2, <3>3, <3>4
    <3>6. (e - f) * peak <= (peak - v) * e
      BY <1>1, <3>5, TimesCancel
    <3> QED BY <2>1, <3>6 DEF Within
  <2> QED BY <1>1, <2>1, <2>2, <2>3
<1>4. CASE ~((peak - v) * of > fall * peak)
  <2>1. /\ Fell(dd, v).peak = peak /\ Fell(dd, v).of = of /\ Fell(dd, v).fall = fall
    BY <1>0, <1>4 DEF Fell, Drops
  <2>2. (peak - v) * of <= fall * peak
    BY <1>1, <1>4
  <2>3. ((peak - v) * of) * e <= (fall * peak) * e
    BY <1>1, <2>2, TimesMono
  <2>4. ((e - v) * peak) * of <= ((peak - v) * e) * of
    BY <1>1, <1>2, TimesMono
  <2>5. ((e - v) * peak) * of = ((e - v) * of) * peak /\ (fall * peak) * e = (fall * e) * peak
        /\ ((peak - v) * of) * e = ((peak - v) * e) * of
    BY <1>1, Swap
  <2>6. ((e - v) * of) * peak <= (fall * e) * peak
    BY <2>3, <2>4, <2>5
  <2>7. (e - v) * of <= fall * e
    BY <2>6, TimesCancel
  <2> QED BY <1>0, <1>1, <2>1, <2>7 DEF Within
<1> QED BY <1>3, <1>4

\* No fall from a value of the curve to a later one is worse than the drawdown.
LEMMA DrawdownIsWorst ==
  ASSUME NEW curve \in Seq(Nat), Len(curve) > 0, curve[1] > 0
  PROVE  \A i, j \in DOMAIN curve : i < j => Within(curve[i], curve[j], MaxDrawdown(curve))
<1> DEFINE N == Len(curve)
<1>1. N \in Nat /\ DOMAIN curve = 1 .. N /\ \A k \in 1 .. N : curve[k] \in Nat
  BY ElementOfSeq, LenProperties
<1>2. PICK d \in [0 .. N -> Drops] :
         /\ d[0] = [peak |-> curve[1], fall |-> 0, of |-> curve[1]]
         /\ \A k \in 1 .. N : d[k] = Fell(d[k - 1], curve[k])
         /\ MaxDrawdown(curve) = d[N]
  BY DrawdownFolds
<1> DEFINE Worst(k) == /\ \A i \in 1 .. k : curve[i] <= d[k].peak
                       /\ \A i, j \in 1 .. k : i < j => Within(curve[i], curve[j], d[k])
           T == {k \in Nat : k <= N => Worst(k)}
<1> HIDE DEF N
<1>3. 0 \in T
  OBVIOUS
<1>4. ASSUME NEW k \in T PROVE k + 1 \in T
  <2>1. SUFFICES ASSUME k + 1 <= N PROVE Worst(k + 1)
    <3> HIDE DEF Worst
    <3> QED BY <1>4
  <2>2. k \in Nat /\ Worst(k)
    <3> HIDE DEF Worst
    <3> QED BY <1>1, <1>4, <2>1
  <2>3. k \in 0 .. N /\ k + 1 \in 1 .. N /\ (k + 1) - 1 = k
    BY <1>1, <2>1, <2>2
  <2>4. d[k] \in Drops /\ d[k + 1] = Fell(d[k], curve[k + 1]) /\ curve[k + 1] \in Nat
    BY <1>1, <1>2, <2>3
  <2>5. ASSUME NEW i \in 1 .. k
        PROVE  /\ curve[i] <= d[k + 1].peak
               /\ Within(curve[i], curve[k + 1], d[k + 1])
               /\ \A j \in 1 .. k : i < j => Within(curve[i], curve[j], d[k + 1])
    <3>1. curve[i] \in Nat /\ curve[i] <= d[k].peak
      BY <1>1, <2>1, <2>2
    <3>2. \A j \in 1 .. k : curve[j] \in Nat
      BY <1>1, <2>1, <2>2
    <3>3. \A j \in 1 .. k : i < j => Within(curve[i], curve[j], d[k])
      BY <2>2
    <3> QED BY <2>4, <3>1, <3>2, <3>3, FellIsWorst
  <2>6. curve[k + 1] <= d[k + 1].peak
    <3>1. 0 <= d[k].peak /\ 0 \in Nat
      BY <2>4 DEF Drops
    <3> QED BY <2>4, <3>1, FellIsWorst
  <2>7. \A i \in 1 .. k + 1 : i \in 1 .. k \/ i = k + 1
    BY <2>2
  <2>8. \A i, j \in 1 .. k + 1 : i < j => i \in 1 .. k
    BY <2>2
  <2> QED BY <2>5, <2>6, <2>7, <2>8
<1>5. T = Nat
  <2> HIDE DEF T
  <2> QED BY <1>3, <1>4, SetInduction DEF T
<1>6. Worst(N)
  <2> HIDE DEF Worst
  <2> QED BY <1>1, <1>5
<1> QED BY <1>1, <1>2, <1>6

Ledgers == [fees : Int, gross : Int, turnover : Int, submitted : Nat, filled : Nat,
            equity : Seq(Int), pnls : Seq(Int), forecasts : Nat, outcomes : Nat]

\* What the accumulators owe each other.
AddsUp(a) ==
    /\ Len(a.equity) = Len(a.pnls) + 1 /\ a.equity[1] = 100000
    /\ a.gross - a.fees = a.equity[Len(a.equity)] - 100000
    /\ a.gross - a.fees = Total(a.pnls, Len(a.pnls))
    /\ a.filled <= a.submitted /\ a.outcomes <= a.forecasts

\* The report of a loop that begins adds up.
LEMMA FreshAddsUp == Fresh \in Ledgers /\ AddsUp(Fresh)
<1>1. /\ Fresh.fees = 0 /\ Fresh.gross = 0 /\ Fresh.turnover = 0 /\ Fresh.submitted = 0 /\ Fresh.filled = 0
      /\ Fresh.forecasts = 0 /\ Fresh.outcomes = 0
      /\ Fresh.equity = <<100000>> /\ Fresh.pnls = << >>
  BY DEF Fresh
<1>2. << >> \in Seq(Int) /\ <<100000>> \in Seq(Int)
  OBVIOUS
<1>3. Fresh \in Ledgers
  BY <1>2 DEF Fresh, Ledgers
<1>4. Len(<<100000>>) = 1 /\ <<100000>>[1] = 100000 /\ Len(<< >>) = 0
  OBVIOUS
<1>5. Total(<< >>, 0) = 0
  BY TotalOfNone
<1> QED BY <1>1, <1>3, <1>4, <1>5 DEF AddsUp

\* No part of an order is more than all of it.
LEMMA FillIsPart ==
  ASSUME NEW size \in Nat, NEW m \in PaperMarkets, NEW taker \in BOOLEAN, NEW cancelled \in BOOLEAN
  PROVE  LET fill == SimulateFill(size, m, taker, cancelled)
         IN  fill \in [filled : 0 .. size, price : Nat, fee : Nat]
<1> DEFINE filled == IF size <= m.depth THEN size ELSE (size * FillFraction) \div 100
           price == IF taker THEN m.ask ELSE m.bid
           bps == IF taker THEN FeeBps.taker ELSE FeeBps.maker
<1>1. m.depth \in Nat /\ price \in Nat /\ bps \in Nat /\ FillFraction \in 0 .. 100
  BY PaperAssumption
<1>2. filled \in 0 .. size
  <2>1. PICK share \in Nat : share = size * FillFraction
    BY <1>1
  <2>2. share <= size * 100
    <3>1. FillFraction \in Int /\ FillFraction <= 100
      BY <1>1
    <3>2. FillFraction * size <= 100 * size
      BY <3>1, TimesMono
    <3> QED BY <1>1, <2>1, <3>2, Swap
  <2>3. share \div 100 \in 0 .. size
    BY <2>2
  <2> QED BY <2>1, <2>3
<1>3. filled > 0 => filled * price \in Nat /\ RoundedFee(filled * price, bps) \in Nat
  <2>1. PICK cost \in Nat : cost = filled * price
    BY <1>1, <1>2
  <2>2. PICK due \in Nat : due = cost * bps
    BY <1>1
  <2>3. (due + 500000) \div 1000000 \in Nat
    OBVIOUS
  <2> QED BY <2>1, <2>2, <2>3 DEF RoundedFee
<1>4. SimulateFill(size, m, taker, cancelled) =
        IF cancelled \/ filled <= 0 THEN NoFill
        ELSE [filled |-> filled, price |-> price, fee |-> RoundedFee(filled * price, bps)]
  BY DEF SimulateFill
<1>5. NoFill \in [filled : 0 .. size, price : Nat, fee : Nat]
  BY DEF NoFill
<1> HIDE DEF filled, price, bps
<1> QED BY <1>1, <1>2, <1>3, <1>4, <1>5

\* A report whose every field is written anew.
LEMMA LedgerWritten ==
  ASSUME NEW a \in Ledgers, NEW su \in Nat, NEW fi \in Nat, NEW fe \in Int, NEW gr \in Int, NEW tu \in Int,
         NEW pn \in Seq(Int), NEW eq \in Seq(Int), NEW fo \in Nat, NEW ou \in Nat, NEW b,
         b = [a EXCEPT !.submitted = su, !.filled = fi, !.fees = fe, !.gross = gr, !.turnover = tu,
                       !.pnls = pn, !.equity = eq, !.forecasts = fo, !.outcomes = ou]
  PROVE  /\ b \in Ledgers
         /\ b.submitted = su /\ b.filled = fi /\ b.fees = fe /\ b.gross = gr
         /\ b.pnls = pn /\ b.equity = eq /\ b.forecasts = fo /\ b.outcomes = ou
BY DEF Ledgers

\* What one market adds.
BooksFill(a, b, size, got, fee, pnl, won) ==
    /\ b.submitted = a.submitted + size /\ b.filled = a.filled + got /\ b.fees = a.fees + fee
    /\ b.gross = a.gross + pnl + fee /\ b.forecasts = a.forecasts + 1 /\ b.outcomes = a.outcomes + won
Lengthens(a, b, pnl) ==
    b.pnls = Append(a.pnls, pnl) /\ b.equity = Append(a.equity, a.equity[Len(a.equity)] + pnl)

\* What a fill adds keeps the sums of the report.
LEMMA NextAddsUp ==
  ASSUME NEW a \in Ledgers, AddsUp(a), NEW b \in Ledgers,
         NEW size \in Nat, NEW got \in 0 .. size, NEW fee \in Nat, NEW pnl \in Int, NEW won \in {0, 1},
         BooksFill(a, b, size, got, fee, pnl, won), Lengthens(a, b, pnl)
  PROVE  AddsUp(b)
<1>1. /\ a.equity \in Seq(Int) /\ a.pnls \in Seq(Int)
      /\ a.fees \in Int /\ a.gross \in Int /\ a.submitted \in Nat /\ a.filled \in Nat
      /\ a.forecasts \in Nat /\ a.outcomes \in Nat
  BY DEF Ledgers
<1>2. PICK n \in Nat : n = Len(a.pnls) /\ Len(a.equity) = n + 1
  BY <1>1, LenProperties DEF AddsUp
<1>3. PICK last \in Int : last = a.equity[n + 1]
  BY <1>1, <1>2, ElementOfSeq
<1>4. PICK pn : pn = b.pnls /\ pn = Append(a.pnls, pnl)
  BY DEF Lengthens
<1>5. PICK now \in Int : now = last + pnl
  OBVIOUS
<1>6. PICK eq : eq = b.equity /\ eq = Append(a.equity, now)
  BY <1>2, <1>3, <1>5, Zenon DEF Lengthens
<1>7. /\ Len(eq) = n + 2 /\ eq[1] = a.equity[1] /\ eq[n + 2] = now
  <2>1. /\ Len(eq) = Len(a.equity) + 1 /\ eq[Len(a.equity) + 1] = now
        /\ \A i \in 1 .. Len(a.equity) : eq[i] = a.equity[i]
    BY <1>1, <1>6, AppendProperties
  <2>2. Len(a.equity) + 1 = n + 2 /\ 1 \in 1 .. Len(a.equity)
    BY <1>2
  <2> QED BY <2>1, <2>2
<1>8. /\ Len(pn) = n + 1 /\ pn[n + 1] = pnl /\ \A i \in 1 .. n : pn[i] = a.pnls[i]
  BY <1>1, <1>2, <1>4, AppendProperties
<1>9. \A i \in 1 .. n : a.pnls[i] \in Int
  BY <1>1, <1>2, ElementOfSeq
<1>10. Total(pn, n + 1) = Total(a.pnls, n) + pnl
  <2>1. \A i \in 1 .. n : a.pnls[i] \in Int /\ pn[i] = a.pnls[i]
    BY <1>8, <1>9
  <2>2. pn[n + 1] \in Int
    BY <1>8
  <2>3. Total(pn, n + 1) = Total(a.pnls, n) + pn[n + 1]
    BY <2>1, <2>2, TotalExtend
  <2> QED BY <1>8, <2>3
<1>11. /\ a.gross - a.fees = last - 100000 /\ a.gross - a.fees = Total(a.pnls, n)
       /\ a.filled <= a.submitted /\ a.outcomes <= a.forecasts /\ a.equity[1] = 100000
  BY <1>2, <1>3 DEF AddsUp
<1>12. b.filled <= b.submitted
  <2>1. a.filled <= a.submitted
    BY <1>11
  <2>2. b.filled = a.filled + got /\ b.submitted = a.submitted + size
    BY DEF BooksFill
  <2>3. got <= size /\ got \in Int
    OBVIOUS
  <2> QED BY <1>1, <2>1, <2>2, <2>3
<1>13. b.outcomes <= b.forecasts
  <2>1. a.outcomes <= a.forecasts
    BY <1>11
  <2>2. b.outcomes = a.outcomes + won /\ b.forecasts = a.forecasts + 1
    BY DEF BooksFill
  <2>3. won <= 1 /\ won \in Int
    OBVIOUS
  <2> QED BY <1>1, <2>1, <2>2, <2>3
<1>14. b.gross - b.fees = (a.gross - a.fees) + pnl
  <2>1. b.gross = a.gross + pnl + fee /\ b.fees = a.fees + fee
    BY DEF BooksFill
  <2> QED BY <1>1, <2>1
<1>15. b.gross - b.fees = eq[Len(eq)] - 100000
  BY <1>5, <1>7, <1>11, <1>14
<1>16. b.gross - b.fees = Total(pn, Len(pn))
  BY <1>8, <1>10, <1>11, <1>14
<1>17. Len(eq) = Len(pn) + 1 /\ eq[1] = 100000
  BY <1>7, <1>8, <1>11
<1>18. Len(b.equity) = Len(b.pnls) + 1 /\ b.equity[1] = 100000
  BY <1>4, <1>6, <1>17
<1>19. b.gross - b.fees = b.equity[Len(b.equity)] - 100000 /\ b.gross - b.fees = Total(b.pnls, Len(b.pnls))
  BY <1>4, <1>6, <1>15, <1>16
<1> QED BY <1>12, <1>13, <1>18, <1>19 DEF AddsUp

\* What a fill earns: its distance from even odds, less the fee.
PnlOf(p, fill) == (p - 50) * fill.filled - 100 * fill.fee

\* Counting a fill keeps the sums, and moves the equity by what it earned.
LEMMA CountedAddsUp ==
  ASSUME NEW a \in Ledgers, AddsUp(a), NEW p \in Int, NEW size \in Nat, NEW decided \in BOOLEAN,
         NEW fill \in [filled : 0 .. size, price : Nat, fee : Nat]
  PROVE  /\ Counted(a, p, size, fill, decided) \in Ledgers /\ AddsUp(Counted(a, p, size, fill, decided))
         /\ Counted(a, p, size, fill, decided).equity
              = Append(a.equity, a.equity[Len(a.equity)] + PnlOf(p, fill))
<1>1. PICK pnl \in Int : pnl = (p - 50) * fill.filled - 100 * fill.fee /\ pnl = PnlOf(p, fill)
  BY DEF PnlOf
<1>2. PICK cost \in Int : cost = fill.filled * fill.price
  OBVIOUS
<1>3. /\ a.equity \in Seq(Int) /\ a.pnls \in Seq(Int) /\ Len(a.equity) = Len(a.pnls) + 1
      /\ Len(a.pnls) \in Nat /\ Len(a.equity) \in Nat \ {0}
  BY LenProperties DEF Ledgers, AddsUp
<1>4. PICK last \in Int : last = a.equity[Len(a.equity)] /\ last = Last(a.equity)
  BY <1>3, ElementOfSeq DEF Last
<1>5. PICK got \in 0 .. size : got = fill.filled
  OBVIOUS
<1>6. PICK fee \in Nat : fee = 100 * fill.fee
  OBVIOUS
<1>7. PICK won \in {0, 1} : won = IF decided THEN 1 ELSE 0
  OBVIOUS
<1>8. a.fees \in Int /\ a.gross \in Int /\ a.submitted \in Nat /\ a.filled \in Nat /\ a.turnover \in Int
      /\ a.forecasts \in Nat /\ a.outcomes \in Nat
  BY DEF Ledgers
<1>9. PICK su \in Nat, fi \in Nat : su = a.submitted + size /\ fi = a.filled + got
  BY <1>8
<1>10. PICK fe \in Int, gr \in Int, tu \in Int :
          fe = a.fees + fee /\ gr = a.gross + pnl + fee /\ tu = a.turnover + cost
  BY <1>8
<1>11. PICK fo \in Nat, ou \in Nat : fo = a.forecasts + 1 /\ ou = a.outcomes + won
  BY <1>7, <1>8
<1>12. PICK now \in Int : now = last + pnl
  OBVIOUS
<1>13. PICK pn \in Seq(Int) : pn = Append(a.pnls, pnl)
  BY <1>3, AppendProperties
<1>14. PICK eq \in Seq(Int) : eq = Append(a.equity, now)
  BY <1>3, AppendProperties
<1> DEFINE b == Counted(a, p, size, fill, decided)
<1>15. b = [a EXCEPT !.submitted = su, !.filled = fi, !.fees = fe, !.gross = gr, !.turnover = tu,
                     !.pnls = pn, !.equity = eq, !.forecasts = fo, !.outcomes = ou]
  <2>1. b = [a EXCEPT !.submitted = a.submitted + size, !.filled = a.filled + got,
                  !.fees = a.fees + fee, !.gross = a.gross + pnl + fee, !.turnover = a.turnover + cost,
                  !.pnls = Append(a.pnls, pnl), !.equity = Append(a.equity, last + pnl),
                  !.forecasts = a.forecasts + 1, !.outcomes = a.outcomes + won]
    <3>1. b = [a EXCEPT !.submitted = a.submitted + size, !.filled = a.filled + fill.filled,
                  !.fees = a.fees + 100 * fill.fee,
                  !.gross = a.gross + ((p - 50) * fill.filled - 100 * fill.fee) + 100 * fill.fee,
                  !.turnover = a.turnover + fill.filled * fill.price,
                  !.pnls = Append(a.pnls, (p - 50) * fill.filled - 100 * fill.fee),
                  !.equity = Append(a.equity, Last(a.equity) + ((p - 50) * fill.filled - 100 * fill.fee)),
                  !.forecasts = a.forecasts + 1, !.outcomes = a.outcomes + (IF decided THEN 1 ELSE 0)]
      BY Zenon DEF Counted
    <3>2. /\ pnl = (p - 50) * fill.filled - 100 * fill.fee /\ cost = fill.filled * fill.price
          /\ last = Last(a.equity) /\ got = fill.filled /\ fee = 100 * fill.fee
          /\ won = IF decided THEN 1 ELSE 0
      BY <1>1, <1>2, <1>4, <1>5, <1>6, <1>7, Zenon
    <3> QED BY <3>1, <3>2, Zenon
  <2> QED BY <1>9, <1>10, <1>11, <1>12, <1>13, <1>14, <2>1, Zenon
<1> HIDE DEF b
<1>16. /\ b \in Ledgers
       /\ b.submitted = su /\ b.filled = fi /\ b.fees = fe /\ b.gross = gr
       /\ b.pnls = pn /\ b.equity = eq /\ b.forecasts = fo /\ b.outcomes = ou
  BY <1>15 DEF Ledgers
<1>17. AddsUp(b)
  <2>1. eq = Append(a.equity, a.equity[Len(a.equity)] + pnl)
    BY <1>4, <1>12, <1>14
  <2>2. BooksFill(a, b, size, got, fee, pnl, won)
    BY <1>9, <1>10, <1>11, <1>16 DEF BooksFill
  <2>3. Lengthens(a, b, pnl)
    BY <1>13, <1>16, <2>1 DEF Lengthens
  <2> QED BY <1>16, <2>2, <2>3, NextAddsUp, Zenon
<1> QED BY <1>1, <1>4, <1>12, <1>14, <1>16, <1>17 DEF b

PaperInv ==
    /\ loop.pc \in {"none", "run", "threw", "reported"} /\ loop.taker \in BOOLEAN
    /\ queue \subseteq PaperMarkets
    /\ acc \in Ledgers /\ AddsUp(acc)

\* Every step of the loop keeps the sums of the report.
LEMMA PaperKeeps == ASSUME PaperInv, [PaperNext]_paperVars PROVE PaperInv'
<1>1. CASE UNCHANGED paperVars
  BY <1>1 DEF paperVars, PaperInv
<1>2. ASSUME NEW k \in {"paper", "orchestrated"}, NEW t \in BOOLEAN, LoopStarts(k, t, PaperMarkets)
      PROVE  PaperInv'
  BY <1>2, FreshAddsUp DEF LoopStarts, PaperInv
<1>3. ASSUME NEW m \in queue,
             \/ \E p \in PaperForecasts : Skips(m, p)
             \/ Blocked(m)
      PROVE  PaperInv'
  <2>1. queue' = queue \ {m} /\ loop' = loop /\ acc' = acc
    BY <1>3 DEF Skips, Blocked
  <2> QED BY <2>1 DEF PaperInv
<1>4. ASSUME NEW m \in queue, NEW s \in PaperSizes, Refuses(m, s) PROVE PaperInv'
  <2>1. queue' = queue \ {m} /\ loop' = loop /\ acc' = [acc EXCEPT !.submitted = acc.submitted + s]
    BY <1>4 DEF Refuses
  <2>2. acc \in Ledgers /\ AddsUp(acc) /\ s \in Nat /\ acc.submitted \in Nat /\ acc.filled \in Nat
    BY PaperAssumption DEF PaperInv, Ledgers
  <2>3. PICK sum \in Nat : sum = acc.submitted + s
    BY <2>2
  <2>4. /\ acc' \in Ledgers /\ acc'.submitted = sum
        /\ acc'.fees = acc.fees /\ acc'.gross = acc.gross /\ acc'.filled = acc.filled
        /\ acc'.equity = acc.equity /\ acc'.pnls = acc.pnls
        /\ acc'.forecasts = acc.forecasts /\ acc'.outcomes = acc.outcomes
    BY <2>1, <2>2, <2>3 DEF Ledgers
  <2>5. acc.filled <= acc.submitted
    BY <2>2 DEF AddsUp
  <2>6. acc'.filled <= acc'.submitted
    BY <2>2, <2>3, <2>4, <2>5
  <2>7. AddsUp(acc)'
    BY <2>2, <2>4, <2>6 DEF AddsUp
  <2> QED BY <2>1, <2>4, <2>7 DEF PaperInv
<1>5. ASSUME NEW m \in queue, NEW p \in PaperForecasts, NEW s \in PaperSizes, NEW c \in BOOLEAN, NEW r \in BOOLEAN,
             Trades0(m, p, s, c, r)
      PROVE  PaperInv'
  <2> DEFINE fill == SimulateFill(s, m, loop.taker, c)
  <2>1. /\ queue' = queue \ {m} /\ loop' = loop /\ acc' = Counted(acc, p, s, fill, r)
    BY <1>5 DEF Trades0
  <2>2. /\ acc \in Ledgers /\ AddsUp(acc) /\ s \in Nat /\ p \in Int /\ m \in PaperMarkets
        /\ loop.taker \in BOOLEAN
    BY PaperAssumption DEF PaperInv
  <2>3. fill \in [filled : 0 .. s, price : Nat, fee : Nat]
    BY <2>2, FillIsPart
  <2> HIDE DEF fill
  <2>4. acc' \in Ledgers /\ AddsUp(acc)'
    BY <2>1, <2>2, <2>3, CountedAddsUp
  <2> QED BY <2>1, <2>4 DEF PaperInv
<1>6. CASE LoopEnds
  <2>1. queue' = queue /\ acc' = acc
    BY <1>6 DEF LoopEnds
  <2>2. PICK pc \in {"threw", "reported"} : loop' = [loop EXCEPT !.pc = pc]
    BY <1>6, Zenon DEF LoopEnds
  <2>3. loop'.taker \in BOOLEAN
    BY <2>2 DEF PaperInv
  <2>4. loop'.pc \in {"none", "run", "threw", "reported"}
    BY <1>6 DEF LoopEnds, PaperInv
  <2> QED BY <2>1, <2>3, <2>4 DEF PaperInv
<1> QED BY <1>1, <1>2, <1>3, <1>4, <1>5, <1>6 DEF PaperNext

Solvent == \A i \in DOMAIN acc.equity : acc.equity[i] >= 0

\* A report that adds up balances, if the equity was never below nothing.
LEMMA PaperBalances == ASSUME PaperInv, Solvent PROVE PaperReportBalances /\ PaperTypeOK
<1>1. acc.equity \in Seq(Int) /\ acc.pnls \in Seq(Int) /\ acc \in Ledgers /\ AddsUp(acc)
  BY DEF PaperInv, Ledgers
<1>2. /\ Len(acc.equity) = Len(acc.pnls) + 1 /\ acc.equity[1] = 100000 /\ acc.filled <= acc.submitted
      /\ acc.outcomes \in 0 .. acc.forecasts
  BY <1>1 DEF AddsUp, Ledgers
<1>3. NetPnl = acc.equity[Len(acc.equity)] - 100000 /\ NetPnl = Total(acc.pnls, Len(acc.pnls))
  BY <1>1 DEF AddsUp, NetPnl
<1>4. Len(acc.pnls) \in Nat /\ Len(acc.equity) > 0 /\ DOMAIN acc.equity = 1 .. Len(acc.equity)
  BY <1>1, <1>2, LenProperties
<1>5. Head(acc.equity) = acc.equity[1] /\ Last(acc.equity) = acc.equity[Len(acc.equity)]
  BY <1>1, <1>4 DEF Last
<1>6. acc.equity \in Seq(Nat)
  <2>1. \A i \in 1 .. Len(acc.equity) : acc.equity[i] \in Nat
    BY <1>1, <1>4, ElementOfSeq DEF Solvent
  <2> QED BY <1>1, <1>4, <2>1, IsASeq, LenProperties
<1>7. \A i, j \in DOMAIN acc.equity : i < j => Within(acc.equity[i], acc.equity[j], MaxDrawdown(acc.equity))
  <2>1. acc.equity[1] > 0 /\ Len(acc.equity) > 0
    BY <1>2, <1>4
  <2> QED BY <1>6, <2>1, DrawdownIsWorst
<1>8. NetPnl = Last(acc.equity) - Head(acc.equity)
  BY <1>2, <1>3, <1>5
<1>9. PaperReportBalances
  <2>1. LET dd == MaxDrawdown(acc.equity)
        IN  \A i, j \in DOMAIN acc.equity :
               i < j => (acc.equity[i] - acc.equity[j]) * dd.of <= dd.fall * acc.equity[i]
    BY <1>7, Zenon DEF Within
  <2>2. acc.filled <= acc.submitted
    BY <1>2
  <2>3. NetPnl = Total(acc.pnls, Len(acc.pnls))
    BY <1>3
  <2> QED BY <1>8, <2>1, <2>2, <2>3, Zenon DEF PaperReportBalances
<1>10. PaperTypeOK
  BY <1>2, <1>4 DEF PaperTypeOK, PaperInv
<1> QED BY <1>9, <1>10

\* With worst as the most a market can lose, the equity is never below what is
\* left when every market that was looked at lost that much.
SolventTo(worst) ==
    \A i \in DOMAIN acc.equity :
        acc.equity[i] >= 100000 - worst * (Cardinality(PaperMarkets) - Cardinality(queue))

\* The bound falls by worst when a market leaves the queue.
LEMMA QueueShrinks ==
  ASSUME NEW worst \in Nat, queue \subseteq PaperMarkets
  PROVE  LET left == Cardinality(PaperMarkets) - Cardinality(queue)
         IN  /\ left \in Nat /\ worst * left \in Nat
             /\ worst * left <= worst * Cardinality(PaperMarkets)
             /\ \A m \in queue :
                   LET now == Cardinality(PaperMarkets) - Cardinality(queue \ {m})
                   IN  worst * now = worst * left + worst
<1>1. IsFiniteSet(PaperMarkets) /\ IsFiniteSet(queue)
  BY PaperAssumption, FS_Subset
<1>2. PICK all \in Nat, q \in Nat : all = Cardinality(PaperMarkets) /\ q = Cardinality(queue) /\ q <= all
  BY <1>1, FS_CardinalityType, FS_Subset
<1>3. \A m \in queue : Cardinality(queue \ {m}) = q - 1
  BY <1>1, <1>2, FS_RemoveElement
<1>4. worst * (all - q) \in Nat /\ worst * (all - q) <= worst * all
  <2>1. (all - q) * worst <= all * worst
    BY <1>2, TimesMono
  <2>2. all - q \in Nat
    BY <1>2
  <2>3. PICK d \in Nat : d = all - q
    BY <2>2
  <2>4. d * worst \in Nat
    OBVIOUS
  <2> QED BY <2>1, <2>3, <2>4, Swap
<1>5. worst * (all - (q - 1)) = worst * (all - q) + worst
  OBVIOUS
<1> QED BY <1>2, <1>3, <1>4, <1>5

\* The loop begins with nothing lost.
LEMMA PaperStarts ==
  ASSUME NEW worst \in Nat, PaperInit PROVE PaperInv /\ SolventTo(worst)
<1>1. PaperInv
  BY FreshAddsUp DEF PaperInit, PaperInv
<1>2. acc.equity = <<100000>> /\ queue = {}
  BY DEF PaperInit, Fresh
<1>3. \A i \in DOMAIN <<100000>> : <<100000>>[i] = 100000
  OBVIOUS
<1>4. worst * (Cardinality(PaperMarkets) - Cardinality(queue)) \in Nat
  BY <1>2, QueueShrinks
<1> QED BY <1>1, <1>2, <1>3, <1>4 DEF SolventTo

\* Each market costs no more than the worst outcome of one.
LEMMA SolventKeeps ==
  ASSUME NEW worst \in Nat, Bearable(worst),
         PaperInv, SolventTo(worst), [PaperNext]_paperVars
  PROVE  SolventTo(worst)'
<1> DEFINE left == Cardinality(PaperMarkets) - Cardinality(queue)
<1>1. acc.equity \in Seq(Int) /\ queue \subseteq PaperMarkets /\ acc \in Ledgers /\ AddsUp(acc)
  BY DEF PaperInv, Ledgers
<1>2. PICK lost \in Nat : lost = worst * left
  BY <1>1, QueueShrinks
<1>3. \A i \in DOMAIN acc.equity : acc.equity[i] \in Int /\ acc.equity[i] >= 100000 - lost
  BY <1>1, <1>2, ElementOfSeq, LenProperties DEF SolventTo
<1>4. CASE acc' = acc /\ queue' = queue
  BY <1>4 DEF SolventTo
<1>5. ASSUME NEW m \in queue, queue' = queue \ {m}, acc'.equity = acc.equity PROVE SolventTo(worst)'
  <2>1. worst * (Cardinality(PaperMarkets) - Cardinality(queue')) = lost + worst
    BY <1>1, <1>2, <1>5, QueueShrinks
  <2>2. \A i \in DOMAIN acc.equity : acc.equity[i] >= 100000 - (lost + worst)
    BY <1>3
  <2> QED BY <1>5, <2>1, <2>2 DEF SolventTo
<1>6. ASSUME NEW k \in {"paper", "orchestrated"}, NEW t \in BOOLEAN, LoopStarts(k, t, PaperMarkets)
      PROVE  SolventTo(worst)'
  <2>1. acc' = Fresh /\ queue' = PaperMarkets
    BY <1>6 DEF LoopStarts
  <2>2. acc'.equity = <<100000>>
    BY <2>1 DEF Fresh
  <2>3. \A i \in DOMAIN <<100000>> : <<100000>>[i] = 100000
    OBVIOUS
  <2>4. PICK all \in Nat : all = Cardinality(PaperMarkets)
    BY PaperAssumption, FS_CardinalityType
  <2>5. worst * (Cardinality(PaperMarkets) - Cardinality(queue')) = 0
    <3>1. all - all = 0
      BY <2>4
    <3> QED BY <2>1, <2>4, <3>1
  <2> QED BY <2>2, <2>3, <2>5 DEF SolventTo
<1>7. ASSUME NEW m \in queue, NEW p \in PaperForecasts, NEW s \in PaperSizes, NEW c \in BOOLEAN, NEW r \in BOOLEAN,
             Trades0(m, p, s, c, r)
      PROVE  SolventTo(worst)'
  <2> DEFINE fill == SimulateFill(s, m, loop.taker, c)
  <2>1. queue' = queue \ {m} /\ acc' = Counted(acc, p, s, fill, r) /\ ~Uncertain(p)
    BY <1>7 DEF Trades0
  <2>2. s \in Nat /\ p \in Int /\ m \in PaperMarkets /\ loop.taker \in BOOLEAN
    BY PaperAssumption DEF PaperInv
  <2>3. fill \in [filled : 0 .. s, price : Nat, fee : Nat]
    BY <2>2, FillIsPart
  <2>4. 100 * fill.fee - (p - 50) * fill.filled <= worst
    BY <2>1, <2>2 DEF Bearable
  <2> HIDE DEF fill
  <2>5. PICK pnl \in Int : pnl = (p - 50) * fill.filled - 100 * fill.fee /\ pnl = PnlOf(p, fill)
    BY <2>2, <2>3 DEF PnlOf
  <2>6. pnl >= 0 - worst
    <3>1. PICK won \in Int, fee \in Int : won = (p - 50) * fill.filled /\ fee = 100 * fill.fee
      BY <2>2, <2>3
    <3> QED BY <2>4, <2>5, <3>1
  <2>7. acc'.equity = Append(acc.equity, acc.equity[Len(acc.equity)] + pnl)
    <3>1. acc \in Ledgers /\ AddsUp(acc)
      BY <1>1
    <3>2. Counted(acc, p, s, fill, r).equity
             = Append(acc.equity, acc.equity[Len(acc.equity)] + PnlOf(p, fill))
      <4>1. r \in BOOLEAN /\ s \in Nat /\ p \in Int
        BY <2>2
      <4> QED BY <2>3, <3>1, <4>1, CountedAddsUp
    <3> QED BY <2>1, <2>5, <3>2
  <2>8. Len(acc.equity) \in Nat \ {0} /\ DOMAIN acc.equity = 1 .. Len(acc.equity)
    BY <1>1, LenProperties DEF AddsUp, Ledgers
  <2>9. PICK last \in Int : last = acc.equity[Len(acc.equity)] /\ last >= 100000 - lost
    BY <1>3, <2>8
  <2>10. PICK now \in Int : now = last + pnl
    OBVIOUS
  <2>11. now >= 100000 - (lost + worst)
    BY <2>6, <2>9, <2>10
  <2>12. acc'.equity = Append(acc.equity, now)
    BY <2>7, <2>9, <2>10
  <2>13. /\ DOMAIN acc'.equity = 1 .. Len(acc.equity) + 1
         /\ acc'.equity[Len(acc.equity) + 1] = now
         /\ \A i \in 1 .. Len(acc.equity) : acc'.equity[i] = acc.equity[i]
    BY <1>1, <2>12, AppendProperties, LenProperties
  <2>14. \A i \in 1 .. Len(acc.equity) + 1 : i \in 1 .. Len(acc.equity) \/ i = Len(acc.equity) + 1
    BY <2>8
  <2>15. worst * (Cardinality(PaperMarkets) - Cardinality(queue')) = lost + worst
    BY <1>1, <1>2, <2>1, QueueShrinks
  <2>16. \A i \in DOMAIN acc.equity : acc.equity[i] >= 100000 - (lost + worst)
    BY <1>3
  <2>17. PICK floor : floor = 100000 - (lost + worst)
    OBVIOUS
  <2>18. \A i \in 1 .. Len(acc.equity) + 1 : acc'.equity[i] >= floor
    <3>1. \A i \in 1 .. Len(acc.equity) : acc'.equity[i] >= floor
      BY <2>8, <2>13, <2>16, <2>17
    <3>2. acc'.equity[Len(acc.equity) + 1] >= floor
      BY <2>11, <2>13, <2>17
    <3> QED BY <2>14, <3>1, <3>2, Zenon
  <2> QED BY <2>13, <2>15, <2>17, <2>18 DEF SolventTo
<1>8. ASSUME NEW m \in queue, NEW s \in PaperSizes, Refuses(m, s) PROVE SolventTo(worst)'
  <2>1. queue' = queue \ {m} /\ acc'.equity = acc.equity
    BY <1>1, <1>8 DEF Refuses, Ledgers
  <2> QED BY <1>5, <2>1
<1>9. ASSUME NEW m \in queue, (\E p \in PaperForecasts : Skips(m, p)) \/ Blocked(m) PROVE SolventTo(worst)'
  <2>1. queue' = queue \ {m} /\ acc'.equity = acc.equity
    BY <1>9 DEF Skips, Blocked
  <2> QED BY <1>5, <2>1
<1>10. CASE LoopEnds \/ UNCHANGED paperVars
  BY <1>4, <1>10 DEF LoopEnds, paperVars
<1> QED BY <1>6, <1>7, <1>8, <1>9, <1>10 DEF PaperNext

\* An account that can bear every market is never below nothing.
LEMMA SolventToSolvent ==
  ASSUME NEW worst \in Nat, Bearable(worst), PaperInv, SolventTo(worst)
  PROVE  Solvent
<1>1. acc.equity \in Seq(Int) /\ queue \subseteq PaperMarkets
  BY DEF PaperInv, Ledgers
<1>2. PICK all \in Nat : all = Cardinality(PaperMarkets)
  BY PaperAssumption, FS_CardinalityType
<1>3. PICK lost \in Nat : lost = worst * (Cardinality(PaperMarkets) - Cardinality(queue)) /\ lost <= 100000
  <2>1. PICK most \in Nat : most = worst * all /\ most <= 100000
    BY <1>2 DEF Bearable
  <2>2. /\ worst * (Cardinality(PaperMarkets) - Cardinality(queue)) \in Nat
        /\ worst * (Cardinality(PaperMarkets) - Cardinality(queue)) <= worst * Cardinality(PaperMarkets)
    BY <1>1, QueueShrinks
  <2> QED BY <1>2, <2>1, <2>2
<1>4. \A i \in DOMAIN acc.equity : acc.equity[i] \in Int
  BY <1>1, ElementOfSeq, LenProperties
<1> QED BY <1>3, <1>4 DEF Solvent, SolventTo

-----------------------------------------------------------------------------
(***************************************************************************)
(* Calibration: what the training stores is the isotonic regression of its *)
(* samples.  The blocks partition the samples pooled so far, and the running *)
(* sums of the outcomes never pass below the line of a block within it: when *)
(* the slopes rise, they pass below none of the lines anywhere.            *)
(***************************************************************************)

Blocks == [p : Int, sum : Int, n : Nat \ {0}]

\* At c the running sums f are on or above the line through x with the slope of b.
Over(f, b, x, c) == b.sum * (c - x) <= (f[c] - f[x]) * b.n

\* b pools the samples after x up to y, and no start of them is below its average.
Chord(f, b, x, y) ==
    /\ b.n = y - x /\ b.sum = f[y] - f[x]
    /\ \A c \in x .. y : Over(f, b, x, c)

\* A line is as steep as a chord, or less, and the chord is passed above.
LEMMA Steeper ==
  ASSUME NEW D \in Int, NEW d \in Nat, NEW s1 \in Int, NEW s2 \in Int, NEW n1 \in Nat \ {0}, NEW n2 \in Nat \ {0},
         s1 * d <= D * n1, s2 * n1 <= s1 * n2
  PROVE  s2 * d <= D * n2
<1>1. (s1 * d) * n2 <= (D * n1) * n2
  BY TimesMono
<1>2. (s2 * n1) * d <= (s1 * n2) * d
  BY TimesMono
<1>3. (s1 * d) * n2 = (s1 * n2) * d /\ (s2 * n1) * d = (s2 * d) * n1 /\ (D * n1) * n2 = (D * n2) * n1
  BY Swap
<1>4. (s2 * d) * n1 <= (D * n2) * n1
  BY <1>1, <1>2, <1>3
<1> QED BY <1>4, TimesCancel

\* Above the line of a block up to y, and from there on: above it throughout.
LEMMA OverAdds ==
  ASSUME NEW f, NEW b \in Blocks, NEW x \in Int, NEW y \in Int, NEW c \in Int,
         f[x] \in Int, f[y] \in Int, f[c] \in Int, Over(f, b, x, y), Over(f, b, y, c)
  PROVE  Over(f, b, x, c)
<1>1. PICK s \in Int, n \in Int, X \in Int, Y \in Int, C \in Int : s = b.sum /\ n = b.n /\ X = f[x] /\ Y = f[y] /\ C = f[c]
  BY DEF Blocks
<1>2. s * (y - x) <= (Y - X) * n /\ s * (c - y) <= (C - Y) * n
  BY <1>1 DEF Over
<1>3. s * (y - x) + s * (c - y) = s * (c - x)
  OBVIOUS
<1>4. (Y - X) * n + (C - Y) * n = (C - X) * n
  OBVIOUS
<1>5. s * (c - x) <= (C - X) * n
  BY <1>2, <1>3, <1>4
<1> QED BY <1>1, <1>5 DEF Over

\* The line of a block goes through both its ends.
LEMMA BothEnds ==
  ASSUME NEW f, NEW b \in Blocks, NEW x \in Int, NEW y \in Int,
         f[x] \in Int, f[y] \in Int, b.n = y - x, b.sum = f[y] - f[x]
  PROVE  Over(f, b, x, y) /\ Over(f, b, y, x)
<1>1. PICK s \in Int, n \in Int : s = b.sum /\ n = b.n
  BY DEF Blocks
<1>2. s * (y - x) = (f[y] - f[x]) * n
  BY <1>1
<1>3. s * (x - y) = (f[x] - f[y]) * n
  <2>1. x - y = 0 - n /\ f[x] - f[y] = 0 - s
    BY <1>1
  <2>2. s * (0 - n) = (0 - s) * n
    OBVIOUS
  <2> QED BY <2>1, <2>2
<1>4. s * (y - x) <= (f[y] - f[x]) * n /\ s * (x - y) <= (f[x] - f[y]) * n
  BY <1>1, <1>2, <1>3
<1> QED BY <1>1, <1>4 DEF Over

\* No flatter block is above what a block is below.
LEMMA OverAfter ==
  ASSUME NEW f, NEW a \in Blocks, NEW b \in Blocks, NEW x \in Int, NEW c \in Int, x <= c,
         f[x] \in Int, f[c] \in Int, ~Above(a, b), Over(f, b, x, c)
  PROVE  Over(f, a, x, c)
<1>1. a.sum \in Int /\ b.sum \in Int /\ a.n \in Nat \ {0} /\ b.n \in Nat \ {0} /\ a.sum * b.n \in Int /\ b.sum * a.n \in Int
  BY DEF Blocks
<1>2. a.sum * b.n <= b.sum * a.n
  BY <1>1 DEF Above
<1>3. PICK D \in Int, d \in Nat : D = f[c] - f[x] /\ d = c - x
  OBVIOUS
<1>4. b.sum * d <= D * b.n
  BY <1>3 DEF Over
<1>5. a.sum * d <= D * a.n
  BY <1>1, <1>2, <1>4, Steeper
<1> QED BY <1>3, <1>5 DEF Over

\* Before a block the line of a less steep one lies below too.
LEMMA OverBefore ==
  ASSUME NEW f, NEW a \in Blocks, NEW b \in Blocks, NEW x \in Int, NEW c \in Int, c <= x,
         f[x] \in Int, f[c] \in Int, ~Above(b, a), Over(f, b, x, c)
  PROVE  Over(f, a, x, c)
<1>1. a.sum \in Int /\ b.sum \in Int /\ a.n \in Nat \ {0} /\ b.n \in Nat \ {0} /\ a.sum * b.n \in Int /\ b.sum * a.n \in Int
  BY DEF Blocks
<1>2. b.sum * a.n <= a.sum * b.n
  BY <1>1 DEF Above
<1>3. PICK D \in Int, d \in Nat : D = f[c] - f[x] /\ d = x - c
  OBVIOUS
<1>4. PICK p \in Int, q \in Int, m \in Nat \ {0}, n \in Nat \ {0} : p = a.sum /\ q = b.sum /\ m = a.n /\ n = b.n
  BY <1>1
<1>5. (0 - q) * d <= D * n
  <2>1. q * (c - x) <= D * n
    BY <1>3, <1>4 DEF Over
  <2>2. c - x = 0 - d
    BY <1>3
  <2>3. q * (0 - d) = (0 - q) * d
    OBVIOUS
  <2> QED BY <2>1, <2>2, <2>3
<1>6. (0 - p) * n <= (0 - q) * m
  <2>1. (0 - p) * n = 0 - p * n /\ (0 - q) * m = 0 - q * m
    OBVIOUS
  <2>2. q * m <= p * n
    BY <1>2, <1>4
  <2> QED BY <2>1, <2>2
<1>7. (0 - p) * d <= D * m
  BY <1>5, <1>6, Steeper
<1>8. p * (c - x) <= D * m
  <2>1. c - x = 0 - d
    BY <1>3
  <2>2. p * (0 - d) = (0 - p) * d
    OBVIOUS
  <2> QED BY <1>7, <2>1, <2>2
<1> QED BY <1>3, <1>4, <1>8 DEF Over

\* Averages are ordered as numbers are.
LEMMA AboveChains ==
  ASSUME NEW a \in Blocks, NEW b \in Blocks, NEW c \in Blocks, ~Above(a, b), ~Above(b, c)
  PROVE  ~Above(a, c)
<1>1. PICK p \in Int, q \in Int, r \in Int, l \in Nat \ {0}, m \in Nat \ {0}, n \in Nat \ {0} :
        p = a.sum /\ q = b.sum /\ r = c.sum /\ l = a.n /\ m = b.n /\ n = c.n
  BY DEF Blocks
<1>2. p * m <= q * l /\ q * n <= r * m
  BY <1>1 DEF Above
<1>3. p * n <= r * l
  BY <1>2, Steeper
<1> QED BY <1>1, <1>3 DEF Above

\* Two blocks in the wrong order, pooled, are one.
LEMMA PooledIsChord ==
  ASSUME NEW f, NEW a \in Blocks, NEW b \in Blocks, NEW x \in Int, NEW y \in Int, NEW z \in Int,
         \A c \in x .. z : f[c] \in Int, x <= y, y <= z,
         Chord(f, a, x, y), Chord(f, b, y, z), Above(a, b)
  PROVE  Merged(a, b) \in Blocks /\ Chord(f, Merged(a, b), x, z)
<1> DEFINE m == Merged(a, b)
<1>1. m \in Blocks /\ m.sum = a.sum + b.sum /\ m.n = a.n + b.n
  BY DEF Merged, Blocks
<1>2. PICK p \in Int, q \in Int, k \in Nat \ {0}, l \in Nat \ {0} : p = a.sum /\ q = b.sum /\ k = a.n /\ l = b.n
  BY DEF Blocks
<1>3. q * k < p * l
  BY <1>2 DEF Above
<1> HIDE DEF m
<1>4. ~Above(m, a)
  <2>1. (p + q) * k = p * k + q * k /\ p * (k + l) = p * k + p * l
    OBVIOUS
  <2>2. (p + q) * k <= p * (k + l)
    BY <1>3, <2>1
  <2> QED BY <1>1, <1>2, <2>2 DEF Above
<1>5. ~Above(b, m)
  <2>1. (p + q) * l = p * l + q * l /\ q * (k + l) = q * k + q * l
    OBVIOUS
  <2>2. q * (k + l) <= (p + q) * l
    BY <1>3, <2>1
  <2> QED BY <1>1, <1>2, <2>2 DEF Above
<1>6. m.n = z - x /\ m.sum = f[z] - f[x] /\ f[x] \in Int /\ f[y] \in Int /\ f[z] \in Int
  BY <1>1, <1>2 DEF Chord
<1>7. ASSUME NEW c \in x .. y PROVE Over(f, m, x, c)
  BY <1>1, <1>4, <1>6, <1>7, OverAfter DEF Chord
<1>8. ASSUME NEW c \in y .. z PROVE Over(f, m, x, c)
  <2>1. f[c] \in Int
    OBVIOUS
  <2>2. Over(f, b, z, c)
    <3>1. Over(f, b, y, c) /\ Over(f, b, z, y)
      BY <1>6, BothEnds DEF Chord
    <3> QED BY <1>6, <2>1, <3>1, OverAdds
  <2>3. Over(f, m, z, c)
    BY <1>1, <1>5, <1>6, <2>1, <2>2, OverBefore
  <2>4. Over(f, m, x, z)
    BY <1>1, <1>6, BothEnds
  <2> QED BY <1>1, <1>6, <2>1, <2>3, <2>4, OverAdds
<1>9. \A c \in x .. z : Over(f, m, x, c)
  BY <1>7, <1>8
<1> QED BY <1>1, <1>6, <1>9 DEF Chord, m

\* The blocks bs pool the first t samples, each the ones after the reach of the block before.
Parted(f, bs, e, t) ==
    /\ e \in [0 .. Len(bs) -> 0 .. t] /\ e[0] = 0 /\ e[Len(bs)] = t
    /\ \A i, j \in 0 .. Len(bs) : i < j => e[i] < e[j]
    /\ \A j \in 1 .. Len(bs) : Chord(f, bs[j], e[j - 1], e[j])

\* None of the first n blocks is above a later one.
Rising(bs, n) == \A i, j \in 1 .. n : i < j => ~Above(bs[i], bs[j])

\* A sample is in the first block that reaches it.
LEMMA BlockHolds ==
  ASSUME NEW n \in Nat, NEW t \in Nat, NEW e \in [0 .. n -> 0 .. t], e[0] = 0, e[n] = t,
         \A i, j \in 0 .. n : i < j => e[i] < e[j], NEW k \in 1 .. t
  PROVE  LET S == {j \in 1 .. n : e[j] >= k}
         IN  Min(S) \in 1 .. n /\ e[Min(S) - 1] < k /\ k <= e[Min(S)]
<1> DEFINE S == {j \in 1 .. n : e[j] >= k}
<1>1. n \in S
  <2>1. n # 0 /\ e[n] >= k
    OBVIOUS
  <2> QED BY <2>1
<1>2. S \in SUBSET Nat
  OBVIOUS
<1> HIDE DEF S
<1>3. PICK j \in S : \A y \in S : j <= y
  BY <1>1, <1>2, LeastOf
<1>4. Min(S) \in S /\ \A y \in S : Min(S) <= y
  BY <1>3, Zenon DEF Min
<1>5. Min(S) \in 1 .. n /\ k <= e[Min(S)]
  BY <1>4 DEF S
<1>6. PICK m \in 1 .. n : m = Min(S)
  BY <1>5
<1>7. ~(m - 1 \in S)
  BY <1>4, <1>6
<1>8. m - 1 \in 0 .. n /\ e[m - 1] \in Int /\ e[0] < k
  OBVIOUS
<1>9. e[m - 1] < k
  BY <1>7, <1>8 DEF S
<1> QED BY <1>5, <1>6, <1>9 DEF S

\* The line of every block is below the running sums, from one end to the other.
LEMMA LinesSupport ==
  ASSUME NEW t \in Nat, NEW f, \A i \in 0 .. t : f[i] \in Int, NEW bs \in Seq(Blocks), NEW e,
         Parted(f, bs, e, t), Rising(bs, Len(bs)), NEW j \in 1 .. Len(bs), NEW c \in 0 .. t
  PROVE  Over(f, bs[j], e[j - 1], c) /\ Over(f, bs[j], e[j], c)
<1>0. PICK n \in Nat : n = Len(bs)
  BY LenProperties
<1>1. /\ e \in [0 .. n -> 0 .. t] /\ e[0] = 0 /\ e[n] = t
      /\ \A i, k \in 0 .. n : i < k => e[i] < e[k]
      /\ \A k \in 1 .. n : Chord(f, bs[k], e[k - 1], e[k])
      /\ \A k \in 1 .. n : bs[k] \in Blocks
      /\ \A i, k \in 1 .. n : i < k => ~Above(bs[i], bs[k])
  BY <1>0, ElementOfSeq DEF Parted, Rising
<1>2. \A i \in 0 .. n : e[i] \in Int /\ f[e[i]] \in Int /\ e[i] \in 0 .. t
  BY <1>1
<1>j. j \in 1 .. n /\ bs[j] \in Blocks
  BY <1>0, <1>1
<1>3. ASSUME NEW i \in 1 .. n, j < i, NEW x \in e[i - 1] .. e[i] PROVE Over(f, bs[j], e[i - 1], x)
  <2>1. i - 1 \in 0 .. n /\ x \in 0 .. t /\ f[x] \in Int /\ x \in Int /\ e[i - 1] <= x
    BY <1>2
  <2>2. Over(f, bs[i], e[i - 1], x)
    BY <1>1 DEF Chord
  <2>3. ~Above(bs[j], bs[i])
    BY <1>1, <1>3, <1>j
  <2> QED BY <1>1, <1>2, <1>j, <2>1, <2>2, <2>3, OverAfter
<1>4. ASSUME NEW i \in 1 .. n, i <= j, NEW x \in e[i - 1] .. e[i] PROVE Over(f, bs[j], e[i], x)
  <2>1. i - 1 \in 0 .. n /\ i \in 0 .. n /\ x \in 0 .. t /\ f[x] \in Int /\ x \in Int /\ x <= e[i]
    BY <1>2
  <2>2. Over(f, bs[i], e[i - 1], x) /\ bs[i].n = e[i] - e[i - 1] /\ bs[i].sum = f[e[i]] - f[e[i - 1]]
    BY <1>1 DEF Chord
  <2>3. Over(f, bs[i], e[i], e[i - 1])
    BY <1>1, <1>2, <2>1, <2>2, BothEnds
  <2>4. Over(f, bs[i], e[i], x)
    BY <1>1, <1>2, <2>1, <2>2, <2>3, OverAdds
  <2>5. CASE i = j
    BY <2>4, <2>5
  <2>6. CASE i # j
    <3>1. ~Above(bs[i], bs[j])
      BY <1>1, <1>4, <1>j, <2>6
    <3> QED BY <1>1, <1>2, <1>j, <2>1, <2>4, <3>1, OverBefore
  <2> QED BY <2>5, <2>6
<1>5. Over(f, bs[j], e[j], e[j]) /\ Over(f, bs[j], e[j - 1], e[j]) /\ Over(f, bs[j], e[j], e[j - 1])
  <2>1. j \in 0 .. n /\ j - 1 \in 0 .. n
    BY <1>j
  <2>2. bs[j].n = e[j] - e[j - 1] /\ bs[j].sum = f[e[j]] - f[e[j - 1]]
    BY <1>1, <1>j DEF Chord
  <2>3. Over(f, bs[j], e[j - 1], e[j]) /\ Over(f, bs[j], e[j], e[j - 1])
    BY <1>2, <1>j, <2>1, <2>2, BothEnds
  <2> QED BY <1>2, <1>j, <2>1, <2>3, OverAdds
<1>6. \A i \in 0 .. n : i >= j => Over(f, bs[j], e[j], e[i])
  <2> DEFINE T == {d \in Nat : j + d <= n => Over(f, bs[j], e[j], e[j + d])}
  <2>1. 0 \in T
    BY <1>5, <1>j
  <2>2. ASSUME NEW d \in T PROVE d + 1 \in T
    <3>1. SUFFICES ASSUME j + (d + 1) <= n PROVE Over(f, bs[j], e[j], e[j + (d + 1)])
      OBVIOUS
    <3>2. PICK i \in 1 .. n : i = j + (d + 1) /\ i - 1 = j + d /\ j < i
      BY <1>j, <3>1
    <3>3. Over(f, bs[j], e[j], e[i - 1])
      BY <3>2
    <3>4. e[i] \in e[i - 1] .. e[i]
      <4>1. i - 1 \in 0 .. n /\ i \in 0 .. n /\ i - 1 < i
        BY <3>2
      <4>2. e[i - 1] < e[i] /\ e[i - 1] \in Int /\ e[i] \in Int
        BY <1>1, <1>2, <4>1
      <4> QED BY <4>2
    <3>5. Over(f, bs[j], e[i - 1], e[i])
      BY <1>3, <3>2, <3>4
    <3>6. j \in 0 .. n /\ i \in 0 .. n /\ i - 1 \in 0 .. n
      BY <1>j
    <3> QED BY <1>2, <1>j, <3>2, <3>3, <3>5, <3>6, OverAdds
  <2> HIDE DEF T
  <2>3. T = Nat
    <3>1. T \in SUBSET Nat
      BY DEF T
    <3> QED BY <2>1, <2>2, <3>1, SetInduction
  <2>4. ASSUME NEW i \in 0 .. n, i >= j PROVE Over(f, bs[j], e[j], e[i])
    <3>1. PICK d \in T : i = j + d
      <4>1. i - j \in Nat /\ i = j + (i - j)
        BY <1>j, <2>4
      <4> QED BY <2>3, <4>1
    <3> QED BY <3>1 DEF T
  <2> QED BY <2>4
<1>7. \A i \in 0 .. n : i <= j => Over(f, bs[j], e[j], e[i])
  <2> DEFINE T == {d \in Nat : 0 <= j - d => Over(f, bs[j], e[j], e[j - d])}
  <2>1. 0 \in T
    BY <1>5, <1>j
  <2>2. ASSUME NEW d \in T PROVE d + 1 \in T
    <3>1. SUFFICES ASSUME 0 <= j - (d + 1) PROVE Over(f, bs[j], e[j], e[j - (d + 1)])
      OBVIOUS
    <3>2. PICK i \in 1 .. n : i = j - d /\ i - 1 = j - (d + 1) /\ i <= j
      BY <1>j, <3>1
    <3>3. Over(f, bs[j], e[j], e[i])
      BY <3>2
    <3>6. j \in 0 .. n /\ i \in 0 .. n /\ i - 1 \in 0 .. n
      BY <1>j
    <3>4. e[i - 1] \in e[i - 1] .. e[i]
      BY <1>1, <1>2, <3>2, <3>6
    <3>5. Over(f, bs[j], e[i], e[i - 1])
      BY <1>4, <3>2, <3>4
    <3> QED BY <1>2, <1>j, <3>2, <3>3, <3>5, <3>6, OverAdds
  <2> HIDE DEF T
  <2>3. T = Nat
    <3>1. T \in SUBSET Nat
      BY DEF T
    <3> QED BY <2>1, <2>2, <3>1, SetInduction
  <2>4. ASSUME NEW i \in 0 .. n, i <= j PROVE Over(f, bs[j], e[j], e[i])
    <3>1. PICK d \in T : i = j - d
      <4>1. j - i \in Nat /\ i = j - (j - i)
        BY <1>j, <2>4
      <4> QED BY <2>3, <4>1
    <3> QED BY <3>1 DEF T
  <2> QED BY <2>4
<1>8. Over(f, bs[j], e[j], c)
  <2>1. CASE c = 0
    BY <1>1, <1>7, <1>j, <2>1
  <2>2. CASE c # 0
    <3>1. PICK i \in 1 .. n : e[i - 1] < c /\ c <= e[i]
      <4>1. c \in 1 .. t
        BY <2>2
      <4>2. /\ e \in [0 .. n -> 0 .. t] /\ e[0] = 0 /\ e[n] = t
            /\ \A i, k \in 0 .. n : i < k => e[i] < e[k]
        BY <1>1
      <4>3. LET S == {i \in 1 .. n : e[i] >= c}
            IN  Min(S) \in 1 .. n /\ e[Min(S) - 1] < c /\ c <= e[Min(S)]
        BY <4>1, <4>2, BlockHolds
      <4> QED BY <4>3
    <3>2. i \in 0 .. n /\ i - 1 \in 0 .. n /\ c \in e[i - 1] .. e[i] /\ c \in Int /\ f[c] \in Int /\ j \in 0 .. n
      BY <1>2, <1>j, <3>1
    <3>3. CASE j < i
      <4>1. Over(f, bs[j], e[i - 1], c) /\ Over(f, bs[j], e[j], e[i - 1])
        BY <1>3, <1>6, <3>2, <3>3
      <4> QED BY <1>2, <1>j, <3>2, <4>1, OverAdds
    <3>4. CASE i <= j
      <4>1. Over(f, bs[j], e[i], c) /\ Over(f, bs[j], e[j], e[i])
        BY <1>4, <1>7, <3>2, <3>4
      <4> QED BY <1>2, <1>j, <3>2, <4>1, OverAdds
    <3> QED BY <3>3, <3>4, <1>j
  <2> QED BY <2>1, <2>2
<1>9. Over(f, bs[j], e[j - 1], c)
  <2>1. j \in 0 .. n /\ j - 1 \in 0 .. n /\ c \in Int /\ f[c] \in Int
    BY <1>j
  <2> QED BY <1>2, <1>5, <1>8, <1>j, <2>1, OverAdds
<1> QED BY <1>8, <1>9

\* The running sums of the outcomes are numbers.
LEMMA WonType ==
  ASSUME NEW s \in Seq(Resolutions)
  PROVE  Len(s) \in Nat /\ \A i \in 0 .. Len(s) : Won(s)[i] \in Int
<1> DEFINE ys == [i \in DOMAIN s |-> s[i].y]
<1>1. DOMAIN s = 1 .. Len(s) /\ Len(s) \in Nat /\ \A i \in 1 .. Len(s) : s[i] \in Resolutions
  BY LenProperties, ElementOfSeq
<1>2. \A i \in 1 .. Len(s) : ys[i] \in Int
  BY <1>1, CalibrationAssumption
<1>3. Won(s) = PrefixTotals(ys, Len(s))
  BY DEF Won
<1> HIDE DEF ys
<1> QED BY <1>1, <1>2, <1>3, PrefixType

\* The sizes of the blocks add up to their ends.
LEMMA ReachIsEnd ==
  ASSUME NEW f, NEW t \in Nat, NEW bs \in Seq(Blocks), NEW e, Parted(f, bs, e, t)
  PROVE  \A j \in 0 .. Len(bs) : Reach(bs)[j] = e[j]
<1> DEFINE ns == [j \in DOMAIN bs |-> bs[j].n]
<1>1. PICK n \in Nat : n = Len(bs) /\ DOMAIN bs = 1 .. n
  BY LenProperties
<1>2. \A j \in 1 .. n : bs[j] \in Blocks /\ bs[j].n \in Int
  <2>1. \A j \in 1 .. n : bs[j] \in Blocks
    BY <1>1, ElementOfSeq
  <2> QED BY <2>1 DEF Blocks
<1>3. /\ e \in [0 .. n -> 0 .. t] /\ e[0] = 0
      /\ \A j \in 1 .. n : bs[j].n = e[j] - e[j - 1]
  BY <1>1 DEF Parted, Chord
<1>4. \A j \in 1 .. n : ns[j] \in Int /\ ns[j] = e[j] - e[j - 1]
  BY <1>1, <1>2, <1>3
<1>5. Reach(bs) = PrefixTotals(ns, n)
  BY <1>1 DEF Reach
<1> HIDE DEF ns
<1> DEFINE r == PrefixTotals(ns, n)
           T == {j \in Nat : j <= n => r[j] = e[j]}
<1>6. r[0] = 0 /\ \A j \in Nat : j + 1 <= n => r[j + 1] = r[j] + ns[j + 1]
  BY <1>4, PrefixStep
<1> HIDE DEF r
<1>7. 0 \in T
  BY <1>3, <1>6
<1>8. ASSUME NEW j \in T PROVE j + 1 \in T
  <2>1. SUFFICES ASSUME j + 1 <= n PROVE r[j + 1] = e[j + 1]
    OBVIOUS
  <2>2. r[j] = e[j] /\ r[j + 1] = r[j] + ns[j + 1]
    BY <1>6, <2>1
  <2>3. PICK i \in 1 .. n : i = j + 1 /\ i - 1 = j
    BY <2>1
  <2>4. ns[i] = e[i] - e[i - 1] /\ e[i] \in Int /\ e[i - 1] \in Int
    BY <1>3, <1>4
  <2> QED BY <2>2, <2>3, <2>4
<1>9. T = Nat
  <2>1. T \in SUBSET Nat
    OBVIOUS
  <2> HIDE DEF T
  <2> QED BY <1>7, <1>8, <2>1, SetInduction
<1> QED BY <1>1, <1>5, <1>9 DEF r

\* Blocks of which none is above a later one are the max-min formula's averages.
LEMMA BlocksAreMaxMin ==
  ASSUME NEW s \in Seq(Resolutions), NEW bs \in Seq(Blocks), NEW e,
         Parted(Won(s), bs, e, Len(s)), Rising(bs, Len(bs)), NEW k \in DOMAIN s
  PROVE  /\ \E a \in 1 .. k : \A b \in k .. Len(s) : ~Above(BlockOf(bs, k), Average(s, a, b))
         /\ \A a \in 1 .. k : \E b \in k .. Len(s) : ~Above(Average(s, a, b), BlockOf(bs, k))
<1>1. PICK n \in Nat, t \in Nat : n = Len(bs) /\ DOMAIN bs = 1 .. n /\ t = Len(s) /\ DOMAIN s = 1 .. t
  BY LenProperties
<1>2. PICK f : f = Won(s) /\ \A i \in 0 .. t : f[i] \in Int
  BY <1>1, WonType
<1>3. /\ e \in [0 .. n -> 0 .. t] /\ e[0] = 0 /\ e[n] = t
      /\ \A i, j \in 0 .. n : i < j => e[i] < e[j]
  BY <1>1 DEF Parted
<1>4. k \in 1 .. t
  BY <1>1
<1>5. PICK j \in 1 .. n : BlockOf(bs, k) = bs[j] /\ e[j - 1] < k /\ k <= e[j]
  <2> DEFINE S == {j \in 1 .. n : e[j] >= k}
  <2>1. Min(S) \in 1 .. n /\ e[Min(S) - 1] < k /\ k <= e[Min(S)]
    BY <1>3, <1>4, BlockHolds
  <2>2. {j \in DOMAIN bs : Reach(bs)[j] >= k} = S
    <3>1. \A i \in 0 .. n : Reach(bs)[i] = e[i]
      <4>1. Parted(f, bs, e, t)
        BY <1>1, <1>2
      <4>2. t \in Nat /\ bs \in Seq(Blocks)
        OBVIOUS
      <4>3. \A i \in 0 .. Len(bs) : Reach(bs)[i] = e[i]
        BY <4>1, <4>2, ReachIsEnd
      <4> QED BY <1>1, <4>3
    <3> QED BY <1>1, <3>1
  <2>3. BlockOf(bs, k) = bs[Min(S)]
    BY <2>2 DEF BlockOf
  <2> HIDE DEF S
  <2> QED BY <2>1, <2>3
<1>6. \A c \in 0 .. t : Over(f, bs[j], e[j - 1], c) /\ Over(f, bs[j], e[j], c)
  BY <1>1, <1>2, LinesSupport
<1>7. bs[j].sum \in Int /\ bs[j].n \in Nat \ {0}
  <2>1. bs[j] \in Blocks
    BY <1>1, ElementOfSeq
  <2> QED BY <2>1 DEF Blocks
<1>8. PICK x \in 0 .. t, z \in 0 .. t : x = e[j - 1] /\ z = e[j] /\ x < k /\ k <= z
  <2>1. j \in 0 .. n /\ j - 1 \in 0 .. n
    BY <1>5
  <2> QED BY <1>3, <1>5, <2>1
<1>9. PICK p \in Int, m \in Nat \ {0} : p = bs[j].sum /\ m = bs[j].n
  BY <1>7
<1>10. \A c \in 0 .. t : p * (c - x) <= (f[c] - f[x]) * m /\ p * (c - z) <= (f[c] - f[z]) * m
  BY <1>6, <1>8, <1>9 DEF Over
<1>11. \A a \in 1 .. t, b \in 0 .. t :
         /\ Above(bs[j], Average(s, a, b)) <=> p * (b - a + 1) > (f[b] - f[a - 1]) * m
         /\ Above(Average(s, a, b), bs[j]) <=> (f[b] - f[a - 1]) * m > p * (b - a + 1)
  BY <1>2, <1>9 DEF Above, Average
<1>12. ASSUME NEW b \in k .. t PROVE ~Above(bs[j], Average(s, x + 1, b))
  <2>1. PICK a \in 1 .. t : a = x + 1 /\ a - 1 = x
    BY <1>4, <1>8
  <2>2. b \in 0 .. t
    BY <1>4
  <2>3. b - a + 1 = b - x
    BY <2>1
  <2>4. p * (b - x) \in Int /\ (f[b] - f[x]) * m \in Int
    <3>1. PICK D \in Int, d \in Int : D = f[b] - f[x] /\ d = b - x
      <4>1. f[b] \in Int /\ f[x] \in Int /\ b \in Int /\ x \in Int
        BY <1>2, <1>8, <2>2
      <4> QED BY <4>1
    <3>2. p * d \in Int /\ D * m \in Int
      OBVIOUS
    <3> QED BY <3>1, <3>2
  <2>5. ~(p * (b - x) > (f[b] - f[x]) * m)
    BY <1>10, <2>2, <2>4
  <2> QED BY <1>11, <2>1, <2>2, <2>3, <2>5
<1>13. ASSUME NEW a \in 1 .. k PROVE ~Above(Average(s, a, z), bs[j])
  <2>1. PICK y \in 0 .. t : y = a - 1 /\ a \in 1 .. t
    BY <1>4
  <2>2. PICK D \in Int, d \in Int : D = f[z] - f[y] /\ d = z - a + 1
    <3>1. f[z] \in Int /\ f[y] \in Int /\ z \in Int /\ a \in Int
      BY <1>2, <1>8, <2>1
    <3>2. f[z] - f[y] \in Int /\ z - a + 1 \in Int
      BY <3>1
    <3> QED BY <3>2
  <2>3. y - z = 0 - d /\ f[y] - f[z] = 0 - D
    BY <1>2, <2>1, <2>2
  <2>4. p * (y - z) <= (f[y] - f[z]) * m
    BY <1>10, <2>1
  <2>5. D * m <= p * d
    <3>1. p * (0 - d) = 0 - p * d /\ (0 - D) * m = 0 - D * m /\ p * d \in Int /\ D * m \in Int
      OBVIOUS
    <3>2. p * (0 - d) <= (0 - D) * m
      BY <2>3, <2>4
    <3> QED BY <3>1, <3>2
  <2>6. ~(D * m > p * d)
    <3>1. D * m \in Int /\ p * d \in Int
      OBVIOUS
    <3> QED BY <2>5, <3>1
  <2> QED BY <1>11, <2>1, <2>2, <2>6
<1>14. x + 1 \in 1 .. k /\ z \in k .. Len(s)
  BY <1>1, <1>4, <1>8
<1> QED BY <1>1, <1>5, <1>12, <1>13, <1>14

\* A forecast that is higher is not put lower.
LEMMA ApplyRises ==
  ASSUME NEW bs \in Seq(Blocks), bs # << >>, Rising(bs, Len(bs)), NEW p \in Int, NEW q \in Int, p < q
  PROVE  ~Above(Apply(bs, p), Apply(bs, q))
<1>1. PICK n \in Nat : n = Len(bs) /\ DOMAIN bs = 1 .. n /\ n # 0
  BY LenProperties, EmptySeq
<1>2. \A j \in 1 .. n : bs[j] \in Blocks /\ bs[j].p \in Int /\ bs[j].sum \in Int /\ bs[j].n \in Int
  <2>1. \A j \in 1 .. n : bs[j] \in Blocks
    BY <1>1, ElementOfSeq
  <2> QED BY <2>1 DEF Blocks
<1>3. \A i, j \in 1 .. n : i <= j => ~Above(bs[i], bs[j])
  <2>1. \A i \in 1 .. n : ~Above(bs[i], bs[i])
    BY <1>2 DEF Above
  <2> QED BY <1>1, <2>1 DEF Rising
<1> DEFINE below(x) == {j \in DOMAIN bs : bs[j].p <= x}
<1>4. ASSUME NEW x \in Int, ~(x <= bs[1].p)
      PROVE  Max(below(x)) \in below(x) /\ \A y \in below(x) : Max(below(x)) >= y
  <2>1. below(x) \in SUBSET (0 .. n)
    BY <1>1
  <2>2. 1 \in below(x)
    BY <1>1, <1>2, <1>4
  <2> HIDE DEF below
  <2> QED BY <2>1, <2>2, MaxOfBounded
<1>5. below(p) \in SUBSET below(q)
  BY <1>1, <1>2
<1>6. PICK i \in 1 .. n, j \in 1 .. n : i <= j /\ Apply(bs, p) = bs[i] /\ Apply(bs, q) = bs[j]
  <2>1. \A x : below(x) \in SUBSET (1 .. n)
    BY <1>1
  <2>2. Apply(bs, p) = IF p <= bs[1].p THEN bs[1] ELSE bs[Max(below(p))]
    BY DEF Apply
  <2>3. Apply(bs, q) = IF q <= bs[1].p THEN bs[1] ELSE bs[Max(below(q))]
    BY DEF Apply
  <2> HIDE DEF below
  <2>4. 1 \in 1 .. n /\ bs[1].p \in Int
    BY <1>1, <1>2
  <2>5. CASE p <= bs[1].p
    <3>1. Apply(bs, p) = bs[1]
      BY <2>2, <2>5
    <3>2. \E j \in 1 .. n : Apply(bs, q) = bs[j]
      BY <1>4, <2>1, <2>3, <2>4
    <3> QED BY <2>4, <3>1, <3>2
  <2>6. CASE ~(p <= bs[1].p)
    <3>1. ~(q <= bs[1].p)
      BY <2>4, <2>6
    <3>2. Max(below(p)) \in below(p) /\ Max(below(q)) \in below(q) /\ Max(below(q)) >= Max(below(p))
      BY <1>4, <1>5, <2>6, <3>1
    <3>3. PICK i \in 1 .. n, j \in 1 .. n : i = Max(below(p)) /\ j = Max(below(q))
      BY <2>1, <3>2
    <3> QED BY <2>2, <2>3, <2>6, <3>1, <3>2, <3>3
  <2> QED BY <2>5, <2>6
<1> QED BY <1>3, <1>6

\* The rows in the order of their forecasts.
LEMMA SortedRows ==
  ASSUME NEW rows \in Seq(Resolutions)
  PROVE  /\ SortedByP(rows) \in Seq(Resolutions) /\ Len(SortedByP(rows)) = Len(rows)
         /\ \A i, j \in 1 .. Len(rows) : i < j => SortedByP(rows)[i].p <= SortedByP(rows)[j].p
         /\ \A k \in 1 .. Len(rows) : \E i \in 1 .. Len(rows) : SortedByP(rows)[k] = rows[i]
<1> DEFINE n == Len(rows)
           R == {e \in (DOMAIN rows) \X (DOMAIN rows) :
                     rows[e[1]].p < rows[e[2]].p \/ (rows[e[1]].p = rows[e[2]].p /\ e[1] < e[2])}
           order == InOrder(1 .. n, R)
<1>1. n \in Nat /\ DOMAIN rows = 1 .. n /\ \A i \in 1 .. n : rows[i] \in Resolutions
  BY LenProperties, ElementOfSeq
<1>2. \A i \in 1 .. n : i \in Int /\ rows[i].p \in Int
  BY <1>1, CalibrationAssumption
<1>3. SortedByP(rows) = [k \in 1 .. n |-> rows[order[k]]]
  <2>1. SortedByP(rows) = [k \in 1 .. n |-> rows[InOrder(DOMAIN rows, R)[k]]]
    BY DEF SortedByP
  <2> HIDE DEF R
  <2> QED BY <1>1, <2>1
<1>4. \A x, y \in 1 .. n : <<x, y>> \in R <=> (rows[x].p < rows[y].p \/ (rows[x].p = rows[y].p /\ x < y))
  BY <1>1
<1> HIDE DEF R, n
<1>5. IsOrder(R, 1 .. n)
  <2> DEFINE ps == [i \in 1 .. n |-> rows[i].p]
  <2>1. \A x \in 1 .. n : x \in Int /\ ps[x] \in Int
    BY <1>2
  <2>2. \A x, y \in 1 .. n : <<x, y>> \in R <=> (ps[x] < ps[y] \/ (ps[x] = ps[y] /\ x < y))
    BY <1>4
  <2> HIDE DEF ps
  <2> QED BY <2>1, <2>2 DEF IsOrder
<1>6. IsFiniteSet(1 .. n) /\ Cardinality(1 .. n) = n
  BY <1>1, FS_Interval
<1>7. order \in [1 .. n -> 1 .. n] /\ \A i, j \in 1 .. n : i < j => <<order[i], order[j]>> \in R
  <2>0. PICK S : S = 1 .. n
    OBVIOUS
  <2>1. IsFiniteSet(S) /\ Cardinality(S) = n /\ IsOrder(R, S) /\ order = InOrder(S, R)
    BY <1>5, <1>6, <2>0
  <2> HIDE DEF order
  <2>2. /\ InOrder(S, R) \in [1 .. Cardinality(S) -> S]
        /\ \A i, j \in 1 .. Cardinality(S) : i < j => <<InOrder(S, R)[i], InOrder(S, R)[j]>> \in R
    BY <2>1, InOrderSorts
  <2> QED BY <2>0, <2>1, <2>2
<1> HIDE DEF order
<1>8. SortedByP(rows) \in [1 .. n -> Resolutions]
  BY <1>1, <1>3, <1>7
<1>9. SortedByP(rows) \in Seq(Resolutions) /\ Len(SortedByP(rows)) = n
  BY <1>1, <1>8, SeqDef
<1>10. ASSUME NEW i \in 1 .. n, NEW j \in 1 .. n, i < j
       PROVE  SortedByP(rows)[i].p <= SortedByP(rows)[j].p
  <2>1. order[i] \in 1 .. n /\ order[j] \in 1 .. n /\ <<order[i], order[j]>> \in R
    BY <1>7, <1>10
  <2>2. rows[order[i]].p <= rows[order[j]].p
    BY <1>2, <1>4, <2>1
  <2> QED BY <1>3, <2>2
<1>11. \A k \in 1 .. n : \E i \in 1 .. n : SortedByP(rows)[k] = rows[i]
  BY <1>3, <1>7
<1> QED BY <1>9, <1>10, <1>11 DEF n

\* A map: the blocks that the samples it was fitted to were pooled to.
Fitted(of, points) ==
    /\ of \in Seq(Resolutions) /\ points \in Seq(Blocks)
    /\ \A i, j \in DOMAIN of : i < j => of[i].p <= of[j].p
    /\ of # << >> => Len(of) >= MinSamples
    /\ \E e : Parted(Won(of), points, e, Len(of))
    /\ Rising(points, Len(points))

\* A fit under way: the blocks pool what is not left, and only the last may be too low.
Fitting(of, left, blocks) ==
    /\ of \in Seq(Resolutions) /\ left \in Seq(Resolutions) /\ blocks \in Seq(Blocks)
    /\ \A i, j \in DOMAIN of : i < j => of[i].p <= of[j].p
    /\ of # << >> => Len(of) >= MinSamples
    /\ Len(left) <= Len(of) /\ \A i \in DOMAIN left : left[i] = of[Len(of) - Len(left) + i]
    /\ \E e : Parted(Won(of), blocks, e, Len(of) - Len(left))
    /\ Rising(blocks, Len(blocks) - 1)

CalibrationInv ==
    /\ resolved \in Seq(Resolutions)
    /\ DOMAIN job = {"groups", "samples", "of", "blocks", "busy"}
    /\ job.groups \in Seq(Seq(Resolutions))
    /\ Fitting(job.of, job.samples, job.blocks)
    /\ maps \in [Models -> [points : Seq(Blocks), of : Seq(Resolutions)]]
    /\ \A m \in Models : Fitted(maps[m].of, maps[m].points)

\* No block is a partition of no samples.
LEMMA PartedNone == ASSUME NEW f PROVE \E e : Parted(f, << >>, e, 0)
<1> DEFINE e == [j \in 0 .. 0 |-> 0]
<1>1. Len(<< >>) = 0 /\ 0 .. 0 = {0} /\ 1 .. 0 = {}
  BY EmptySeq
<1>2. e \in [0 .. 0 -> 0 .. 0] /\ e[0] = 0
  OBVIOUS
<1> HIDE DEF e
<1>3. Parted(f, << >>, e, 0)
  BY <1>1, <1>2 DEF Parted
<1> QED BY <1>3

\* All blocks rise when the last does.
LEMMA LastInPlace ==
  ASSUME NEW blocks \in Seq(Blocks), Rising(blocks, Len(blocks) - 1), ~Violated(blocks)
  PROVE  Rising(blocks, Len(blocks))
<1>3. PICK n \in Nat : n = Len(blocks)
  BY LenProperties
<1>4. \A i \in 1 .. n : blocks[i] \in Blocks
  BY <1>3, ElementOfSeq
<1>5. \A i, j \in 1 .. n - 1 : i < j => ~Above(blocks[i], blocks[j])
  BY <1>3 DEF Rising
<1>6. n >= 2 => ~Above(blocks[n - 1], blocks[n])
  BY <1>3 DEF Violated, Last
<1>7. ASSUME NEW i \in 1 .. n, NEW j \in 1 .. n, i < j PROVE ~Above(blocks[i], blocks[j])
  <2>1. CASE j < n
    <3>1. i \in 1 .. n - 1 /\ j \in 1 .. n - 1
      BY <1>7, <2>1
    <3> QED BY <1>5, <1>7, <3>1
  <2>2. CASE j = n /\ i = n - 1
    BY <1>6, <2>2
  <2>3. CASE j = n /\ i < n - 1
    <3>1. PICK k \in 1 .. n - 1 : k = n - 1 /\ i \in 1 .. n - 1 /\ k \in 1 .. n /\ i < k
      BY <2>3
    <3>2. ~Above(blocks[i], blocks[k]) /\ ~Above(blocks[k], blocks[j])
      BY <1>5, <1>6, <2>3, <3>1
    <3> QED BY <1>4, <3>1, <3>2, AboveChains
  <2> QED BY <1>7, <2>1, <2>2, <2>3
<1> QED BY <1>3, <1>7 DEF Rising

\* Without samples left and the last block in its place, the fit is done.
LEMMA FittingEnds ==
  ASSUME NEW of, NEW blocks, Fitting(of, << >>, blocks), ~Violated(blocks)
  PROVE  Fitted(of, blocks)
<1>1. Len(<< >>) = 0 /\ of \in Seq(Resolutions) /\ blocks \in Seq(Blocks) /\ Len(of) \in Nat
  BY EmptySeq, LenProperties DEF Fitting
<1>2. Len(of) - 0 = Len(of)
  BY <1>1
<1>3. Rising(blocks, Len(blocks))
  BY LastInPlace DEF Fitting
<1>4. \E e : Parted(Won(of), blocks, e, Len(of))
  BY <1>1, <1>2 DEF Fitting
<1> QED BY <1>3, <1>4 DEF Fitting, Fitted

\* The running sum grows by the outcome of each sample.
LEMMA WonStep ==
  ASSUME NEW s \in Seq(Resolutions), NEW i \in 1 .. Len(s)
  PROVE  Won(s)[i] = Won(s)[i - 1] + s[i].y /\ s[i].y \in Int /\ s[i].p \in Int
<1> DEFINE ys == [k \in DOMAIN s |-> s[k].y]
<1>1. DOMAIN s = 1 .. Len(s) /\ Len(s) \in Nat /\ \A k \in 1 .. Len(s) : s[k] \in Resolutions
  BY LenProperties, ElementOfSeq
<1>2. \A k \in 1 .. Len(s) : ys[k] \in Int /\ ys[k] = s[k].y /\ s[k].p \in Int
  BY <1>1, CalibrationAssumption
<1>3. Won(s) = PrefixTotals(ys, Len(s))
  BY DEF Won
<1> HIDE DEF ys
<1>4. \A k \in Nat : k + 1 <= Len(s) => Won(s)[k + 1] = Won(s)[k] + ys[k + 1]
  BY <1>1, <1>2, <1>3, PrefixStep
<1>5. PICK k \in Nat : k = i - 1 /\ k + 1 = i /\ k + 1 <= Len(s)
  BY <1>1
<1> QED BY <1>2, <1>4, <1>5

\* A sample is a block of its own.
LEMMA PushParts ==
  ASSUME NEW N \in Nat, NEW f, \A i \in 0 .. N : f[i] \in Int, NEW t \in 0 .. N - 1, NEW bs \in Seq(Blocks), NEW e,
         Parted(f, bs, e, t), NEW b \in Blocks, b.n = 1, b.sum = f[t + 1] - f[t]
  PROVE  \E d : Parted(f, Append(bs, b), d, t + 1)
<1>1. PICK n \in Nat : n = Len(bs)
  BY LenProperties
<1>2. PICK new : new = Append(bs, b)
  OBVIOUS
<1>3. /\ new \in Seq(Blocks) /\ Len(new) = n + 1
      /\ \A j \in 1 .. n : new[j] = bs[j]
      /\ new[n + 1] = b
  BY <1>1, <1>2, AppendProperties
<1>4. /\ e \in [0 .. n -> 0 .. t] /\ e[0] = 0 /\ e[n] = t
      /\ \A i, j \in 0 .. n : i < j => e[i] < e[j]
      /\ \A j \in 1 .. n : Chord(f, bs[j], e[j - 1], e[j])
  BY <1>1 DEF Parted
<1> DEFINE d == [j \in 0 .. n + 1 |-> IF j = n + 1 THEN t + 1 ELSE e[j]]
<1>5. /\ d[n + 1] = t + 1 /\ \A j \in 0 .. n : d[j] = e[j]
      /\ d \in [0 .. n + 1 -> 0 .. t + 1]
  BY <1>4
<1> HIDE DEF d
<1>6. ASSUME NEW i \in 0 .. n + 1, NEW j \in 0 .. n + 1, i < j PROVE d[i] < d[j]
  <2>1. i \in 0 .. n /\ e[i] \in 0 .. t
    BY <1>4, <1>6
  <2>2. CASE j = n + 1
    BY <1>5, <2>1, <2>2
  <2>3. CASE j # n + 1
    <3>1. j \in 0 .. n
      BY <2>3
    <3> QED BY <1>4, <1>5, <1>6, <2>1, <3>1
  <2> QED BY <2>2, <2>3
<1>7. Chord(f, b, t, t + 1)
  <2>1. f[t] \in Int /\ f[t + 1] \in Int /\ t \in Int /\ t + 1 \in Int /\ b.n = (t + 1) - t
    BY <1>4
  <2>2. Over(f, b, t, t + 1) /\ Over(f, b, t + 1, t)
    BY <2>1, BothEnds
  <2>3. Over(f, b, t, t)
    BY <2>1, <2>2, OverAdds
  <2>4. \A c \in t .. t + 1 : c = t \/ c = t + 1
    OBVIOUS
  <2> QED BY <2>1, <2>2, <2>3, <2>4 DEF Chord
<1>8. ASSUME NEW j \in 1 .. n + 1 PROVE Chord(f, new[j], d[j - 1], d[j])
  <2>1. CASE j = n + 1
    <3>1. j - 1 = n /\ n \in 0 .. n
      BY <2>1
    <3>2. d[j - 1] = t /\ d[j] = t + 1 /\ new[j] = b
      BY <1>3, <1>4, <1>5, <2>1, <3>1
    <3> QED BY <1>7, <3>2
  <2>2. CASE j # n + 1
    <3>1. j \in 1 .. n /\ j - 1 \in 0 .. n /\ j \in 0 .. n
      BY <2>2
    <3>2. d[j - 1] = e[j - 1] /\ d[j] = e[j] /\ new[j] = bs[j]
      BY <1>3, <1>5, <3>1
    <3> QED BY <1>4, <3>1, <3>2
  <2> QED BY <2>1, <2>2
<1>9. Parted(f, new, d, t + 1)
  <2>1. d[0] = 0
    BY <1>4, <1>5
  <2> QED BY <1>3, <1>5, <1>6, <1>8, <2>1 DEF Parted
<1> QED BY <1>2, <1>9

\* Pushing a sample as a block of its own keeps the fit.
LEMMA PushKeeps ==
  ASSUME NEW of, NEW left, NEW blocks, Fitting(of, left, blocks), left # << >>, ~Violated(blocks)
  PROVE  Fitting(of, Tail(left), Append(blocks, Block(Head(left))))
<1>1. /\ of \in Seq(Resolutions) /\ left \in Seq(Resolutions) /\ blocks \in Seq(Blocks)
      /\ Len(left) <= Len(of) /\ \A i \in DOMAIN left : left[i] = of[Len(of) - Len(left) + i]
  BY DEF Fitting
<1>2. PICK N \in Nat, l \in Nat \ {0}, n \in Nat : N = Len(of) /\ l = Len(left) /\ n = Len(blocks) /\ DOMAIN left = 1 .. l
  BY <1>1, LenProperties, EmptySeq
<1>3. PICK t \in 0 .. N - 1 : t = N - l /\ t = Len(of) - Len(left)
  <2>1. l <= N
    BY <1>1, <1>2
  <2>2. N - l \in 0 .. N - 1
    BY <2>1
  <2> QED BY <1>2, <2>2
<1>4. PICK rest : rest = Tail(left)
  OBVIOUS
<1>5. /\ rest \in Seq(Resolutions) /\ Len(rest) = l - 1 /\ DOMAIN rest = 1 .. l - 1
      /\ \A i \in 1 .. l - 1 : rest[i] = left[i + 1]
  <2>1. /\ rest \in Seq(Resolutions) /\ Len(rest) = Len(left) - 1
        /\ \A i \in 1 .. Len(rest) : rest[i] = left[i + 1]
    BY <1>1, <1>4, HeadTailProperties
  <2> QED BY <1>2, <2>1, LenProperties
<1>6. Head(left) = of[t + 1]
  <2>1. 1 \in 1 .. l /\ Head(left) = left[1]
    BY <1>1, <1>2
  <2> QED BY <1>1, <1>2, <1>3, <2>1
<1>7. ASSUME NEW i \in DOMAIN rest PROVE rest[i] = of[Len(of) - Len(rest) + i]
  <2>1. i \in 1 .. l - 1 /\ i + 1 \in 1 .. l
    BY <1>5
  <2>2. rest[i] = of[Len(of) - Len(left) + (i + 1)]
    BY <1>1, <1>2, <1>5, <2>1
  <2>3. Len(of) - Len(left) + (i + 1) = Len(of) - Len(rest) + i
    BY <1>2, <1>5, <2>1
  <2> QED BY <2>2, <2>3
<1>8. PICK f : f = Won(of) /\ \A i \in 0 .. N : f[i] \in Int
  BY <1>1, <1>2, WonType
<1>9. PICK b \in Blocks : b = Block(Head(left)) /\ b.n = 1 /\ b.sum = f[t + 1] - f[t]
  <2>1. PICK i \in 1 .. N : i = t + 1 /\ i - 1 = t
    BY <1>3
  <2>2. f[i] = f[i - 1] + of[i].y /\ of[i].y \in Int /\ of[i].p \in Int
    BY <1>1, <1>2, <1>8, WonStep
  <2>3. f[i] \in Int /\ f[i - 1] \in Int
    BY <1>8
  <2>4. of[i].y = f[t + 1] - f[t]
    BY <2>1, <2>2, <2>3
  <2>5. Block(Head(left)) = [p |-> of[i].p, sum |-> of[i].y, n |-> 1]
    BY <1>6, <2>1 DEF Block
  <2>6. [p |-> of[i].p, sum |-> of[i].y, n |-> 1] \in Blocks
    BY <2>2 DEF Blocks
  <2> QED BY <2>4, <2>5, <2>6
<1>10. \E d : Parted(f, Append(blocks, b), d, t + 1)
  <2>1. PICK e : Parted(f, blocks, e, t)
    BY <1>3, <1>8 DEF Fitting
  <2> QED BY <1>1, <1>8, <1>9, <2>1, PushParts
<1>11. Append(blocks, b) \in Seq(Blocks) /\ Len(Append(blocks, b)) = n + 1 /\ \A i \in 1 .. n : Append(blocks, b)[i] = blocks[i]
  BY <1>1, <1>2, AppendProperties
<1>12. Rising(Append(blocks, b), Len(Append(blocks, b)) - 1)
  <2>1. Rising(blocks, n)
    BY <1>2, LastInPlace DEF Fitting
  <2>2. n + 1 - 1 = n
    OBVIOUS
  <2> QED BY <1>11, <2>1, <2>2 DEF Rising
<1>13. Len(of) - Len(rest) = t + 1 /\ Len(rest) <= Len(of)
  BY <1>2, <1>3, <1>5
<1>14. /\ \A i, j \in DOMAIN of : i < j => of[i].p <= of[j].p
       /\ of # << >> => Len(of) >= MinSamples
  BY DEF Fitting
<1> QED BY <1>1, <1>4, <1>5, <1>7, <1>8, <1>9, <1>10, <1>11, <1>12, <1>13, <1>14 DEF Fitting

\* Two blocks pooled reach from the start of the one to the end of the other.
LEMMA MergeParts ==
  ASSUME NEW f, NEW t \in Nat, \A i \in 0 .. t : f[i] \in Int, NEW bs \in Seq(Blocks), NEW e,
         Parted(f, bs, e, t), NEW n \in Nat, n >= 2, Len(bs) = n, Above(bs[n - 1], bs[n]),
         NEW new \in Seq(Blocks), Len(new) = n - 1, \A i \in 1 .. n - 2 : new[i] = bs[i],
         new[n - 1] = Merged(bs[n - 1], bs[n])
  PROVE  \E d : Parted(f, new, d, t)
<1>1. /\ e \in [0 .. n -> 0 .. t] /\ e[0] = 0 /\ e[n] = t
      /\ \A i, j \in 0 .. n : i < j => e[i] < e[j]
      /\ \A j \in 1 .. n : Chord(f, bs[j], e[j - 1], e[j])
  BY DEF Parted
<1> DEFINE d == [j \in 0 .. n - 1 |-> IF j = n - 1 THEN e[n] ELSE e[j]]
<1>2. /\ d[n - 1] = e[n] /\ \A j \in 0 .. n - 2 : d[j] = e[j]
      /\ d \in [0 .. n - 1 -> 0 .. t]
  BY <1>1
<1> HIDE DEF d
<1>3. ASSUME NEW i \in 0 .. n - 1, NEW j \in 0 .. n - 1, i < j PROVE d[i] < d[j]
  <2>1. i \in 0 .. n - 2 /\ i \in 0 .. n /\ i < n /\ n \in 0 .. n
    BY <1>3
  <2>2. CASE j = n - 1
    BY <1>1, <1>2, <2>1, <2>2
  <2>3. CASE j # n - 1
    <3>1. j \in 0 .. n - 2 /\ j \in 0 .. n
      BY <2>3
    <3> QED BY <1>1, <1>2, <1>3, <2>1, <3>1
  <2> QED BY <2>2, <2>3
<1>4. Chord(f, Merged(bs[n - 1], bs[n]), e[n - 2], e[n])
  <2>1. n - 1 \in 1 .. n /\ n \in 1 .. n /\ n - 2 \in 0 .. n /\ n - 1 \in 0 .. n /\ n \in 0 .. n /\ n - 1 - 1 = n - 2
    OBVIOUS
  <2>2. bs[n - 1] \in Blocks /\ bs[n] \in Blocks
    BY <2>1, ElementOfSeq
  <2>3. PICK x \in 0 .. t, y \in 0 .. t, z \in 0 .. t : x = e[n - 2] /\ y = e[n - 1] /\ z = e[n]
    BY <1>1, <2>1
  <2>4. Chord(f, bs[n - 1], x, y) /\ Chord(f, bs[n], y, z)
    BY <1>1, <2>1, <2>3
  <2>5. x < y /\ y < z
    <3>1. n - 2 < n - 1 /\ n - 1 < n
      OBVIOUS
    <3> QED BY <1>1, <2>1, <2>3, <3>1
  <2>6. \A c \in x .. z : f[c] \in Int
    OBVIOUS
  <2> QED BY <2>2, <2>3, <2>4, <2>5, <2>6, PooledIsChord
<1>5. ASSUME NEW j \in 1 .. n - 1 PROVE Chord(f, new[j], d[j - 1], d[j])
  <2>1. CASE j = n - 1
    <3>1. j - 1 = n - 2 /\ n - 2 \in 0 .. n - 2
      BY <2>1
    <3> QED BY <1>2, <1>4, <2>1, <3>1
  <2>2. CASE j # n - 1
    <3>1. j \in 1 .. n - 2 /\ j - 1 \in 0 .. n - 2 /\ j \in 0 .. n - 2 /\ j \in 1 .. n
      BY <2>2
    <3> QED BY <1>1, <1>2, <3>1
  <2> QED BY <2>1, <2>2
<1>6. d[0] = 0
  <2>1. 0 \in 0 .. n - 2
    OBVIOUS
  <2> QED BY <1>1, <1>2, <2>1
<1>7. Parted(f, new, d, t)
  <2>1. d[n - 1] = t
    BY <1>1, <1>2
  <2> QED BY <1>2, <1>3, <1>5, <1>6, <2>1 DEF Parted
<1> QED BY <1>7

\* Two blocks pooled are a block.
LEMMA MergedType == ASSUME NEW a \in Blocks, NEW b \in Blocks PROVE Merged(a, b) \in Blocks
BY DEF Merged, Blocks

\* All of a sequence but its last.
LEMMA FrontIs ==
  ASSUME NEW S, NEW s \in Seq(S), s # << >>
  PROVE  /\ Front(s) \in Seq(S) /\ Len(Front(s)) = Len(s) - 1
         /\ \A i \in 1 .. Len(s) - 1 : Front(s)[i] = s[i]
<1>1. PICK n \in Nat \ {0} : n = Len(s)
  BY EmptySeq
<1>2. \A i \in 1 .. n - 1 : s[i] \in S
  BY <1>1, ElementOfSeq
<1>3. /\ SubSeq(s, 1, n - 1) \in Seq(S)
      /\ Len(SubSeq(s, 1, n - 1)) = IF 1 <= n - 1 THEN (n - 1) - 1 + 1 ELSE 0
      /\ \A i \in 1 .. (n - 1) - 1 + 1 : SubSeq(s, 1, n - 1)[i] = s[1 + i - 1]
  BY <1>2, SubSeqProperties
<1>4. (n - 1) - 1 + 1 = n - 1 /\ (IF 1 <= n - 1 THEN (n - 1) - 1 + 1 ELSE 0) = n - 1
  OBVIOUS
<1>5. \A i \in 1 .. n - 1 : 1 + i - 1 = i
  OBVIOUS
<1> QED BY <1>1, <1>3, <1>4, <1>5 DEF Front

\* Pooling the last two blocks keeps the fit.
LEMMA MergeKeeps ==
  ASSUME NEW of, NEW left, NEW blocks, Fitting(of, left, blocks), Violated(blocks)
  PROVE  Fitting(of, left, Append(Front(Front(blocks)), Merged(Last(Front(blocks)), Last(blocks))))
<1>1. /\ of \in Seq(Resolutions) /\ left \in Seq(Resolutions) /\ blocks \in Seq(Blocks)
      /\ Len(left) <= Len(of)
  BY DEF Fitting
<1>2. PICK n \in Nat : n = Len(blocks) /\ n >= 2 /\ Above(blocks[n - 1], blocks[n])
  BY <1>1, LenProperties DEF Violated, Last
<1>3. PICK front \in Seq(Blocks) : /\ front = Front(blocks) /\ Len(front) = n - 1
                                  /\ \A i \in 1 .. n - 1 : front[i] = blocks[i]
  <2>1. blocks # << >>
    BY <1>2, EmptySeq
  <2> QED BY <1>1, <1>2, <2>1, FrontIs
<1>4. PICK first \in Seq(Blocks) : /\ first = Front(front) /\ Len(first) = n - 2
                                  /\ \A i \in 1 .. n - 2 : first[i] = blocks[i]
  <2>1. front # << >>
    BY <1>2, <1>3, EmptySeq
  <2>2. /\ Front(front) \in Seq(Blocks) /\ Len(Front(front)) = Len(front) - 1
        /\ \A i \in 1 .. Len(front) - 1 : Front(front)[i] = front[i]
    BY <2>1, FrontIs
  <2>3. Len(front) - 1 = n - 2 /\ \A i \in 1 .. n - 2 : i \in 1 .. n - 1
    BY <1>2, <1>3
  <2> QED BY <1>3, <2>2, <2>3
<1>5. Last(front) = blocks[n - 1] /\ Last(blocks) = blocks[n]
  <2>1. n - 1 \in 1 .. n - 1
    BY <1>2
  <2> QED BY <1>2, <1>3, <2>1 DEF Last
<1>6. PICK b \in Blocks : b = Merged(blocks[n - 1], blocks[n])
  <2>1. blocks[n - 1] \in Blocks /\ blocks[n] \in Blocks
    <3>1. n - 1 \in 1 .. n /\ n \in 1 .. n
      BY <1>2
    <3> QED BY <1>1, <1>2, <3>1, ElementOfSeq
  <2>2. Merged(blocks[n - 1], blocks[n]) \in Blocks
    BY <2>1, MergedType
  <2> QED BY <2>2
<1>7. PICK new \in Seq(Blocks) : /\ new = Append(first, b) /\ Len(new) = n - 1
                                /\ \A i \in 1 .. n - 2 : new[i] = blocks[i]
                                /\ new[n - 1] = b
  <2>1. /\ Append(first, b) \in Seq(Blocks) /\ Len(Append(first, b)) = Len(first) + 1
        /\ \A i \in 1 .. Len(first) : Append(first, b)[i] = first[i]
        /\ Append(first, b)[Len(first) + 1] = b
    BY AppendProperties
  <2>2. Len(first) + 1 = n - 1 /\ Len(first) = n - 2
    BY <1>2, <1>4
  <2> QED BY <1>4, <2>1, <2>2
<1>8. PICK t \in Nat : t = Len(of) - Len(left) /\ t <= Len(of) /\ Len(of) \in Nat
  <2>1. Len(of) \in Nat /\ Len(left) \in Nat
    BY <1>1, LenProperties
  <2>2. Len(of) - Len(left) \in Nat /\ Len(of) - Len(left) <= Len(of)
    BY <1>1, <2>1
  <2> QED BY <2>1, <2>2
<1>9. PICK f : f = Won(of) /\ \A i \in 0 .. t : f[i] \in Int
  <2>1. \A i \in 0 .. Len(of) : Won(of)[i] \in Int
    BY <1>1, WonType
  <2> QED BY <1>8, <2>1
<1>10. \E d : Parted(f, new, d, t)
  <2>1. PICK e : Parted(f, blocks, e, t)
    BY <1>8, <1>9 DEF Fitting
  <2>2. \A i \in 0 .. t : f[i] \in Int
    BY <1>9
  <2>3. Len(blocks) = n /\ n >= 2 /\ Above(blocks[n - 1], blocks[n])
    BY <1>2
  <2>4. Len(new) = n - 1 /\ (\A i \in 1 .. n - 2 : new[i] = blocks[i]) /\ new[n - 1] = Merged(blocks[n - 1], blocks[n])
    BY <1>6, <1>7
  <2>5. blocks \in Seq(Blocks)
    BY <1>1
  <2> QED BY <2>1, <2>2, <2>3, <2>4, <2>5, MergeParts
<1>11. Rising(new, Len(new) - 1)
  <2>1. \A i, j \in 1 .. n - 1 : i < j => ~Above(blocks[i], blocks[j])
    BY <1>2 DEF Fitting, Rising
  <2>2. Len(new) - 1 = n - 2 /\ \A i \in 1 .. n - 2 : i \in 1 .. n - 1
    BY <1>2, <1>7
  <2> QED BY <1>7, <2>1, <2>2 DEF Rising
<1> QED BY <1>3, <1>4, <1>5, <1>6, <1>7, <1>8, <1>9, <1>10, <1>11 DEF Fitting

\* A map that was fitted is the isotonic regression of its samples.
LEMMA FittedIsIsotonic ==
  ASSUME NEW s, NEW points, Fitted(s, points)
  PROVE  /\ s # << >> => Len(s) >= MinSamples
         /\ \A i, j \in DOMAIN s : i < j => s[i].p <= s[j].p
         /\ \A k \in DOMAIN s :
               /\ \E a \in 1..k : \A b \in k..Len(s) : ~Above(BlockOf(points, k), Average(s, a, b))
               /\ \A a \in 1..k : \E b \in k..Len(s) : ~Above(Average(s, a, b), BlockOf(points, k))
         /\ s # << >> => \A p, q \in {r.p : r \in Resolutions} :
                            p < q => ~Above(Apply(points, p), Apply(points, q))
<1>1. PICK e : Parted(Won(s), points, e, Len(s))
  BY DEF Fitted
<1>2. s \in Seq(Resolutions) /\ points \in Seq(Blocks) /\ Rising(points, Len(points))
  BY DEF Fitted
<1>3. ASSUME NEW k \in DOMAIN s
      PROVE  /\ \E a \in 1..k : \A b \in k..Len(s) : ~Above(BlockOf(points, k), Average(s, a, b))
             /\ \A a \in 1..k : \E b \in k..Len(s) : ~Above(Average(s, a, b), BlockOf(points, k))
  BY <1>1, <1>2, BlocksAreMaxMin
<1>4. ASSUME s # << >> PROVE points # << >>
  <2>1. Len(s) \in Nat \ {0} /\ Len(<< >>) = 0
    BY <1>2, <1>4, EmptySeq
  <2>2. points = << >> => e[0] = 0 /\ e[0] = Len(s)
    BY <1>1, <2>1 DEF Parted
  <2> QED BY <2>1, <2>2
<1>5. ASSUME s # << >>, NEW p \in {r.p : r \in Resolutions}, NEW q \in {r.p : r \in Resolutions}, p < q
      PROVE  ~Above(Apply(points, p), Apply(points, q))
  <2>1. p \in Int /\ q \in Int
    BY CalibrationAssumption
  <2> QED BY <1>2, <1>4, <1>5, <2>1, ApplyRises
<1>6. /\ s # << >> => Len(s) >= MinSamples
      /\ \A i, j \in DOMAIN s : i < j => s[i].p <= s[j].p
  BY DEF Fitted
<1> QED BY <1>3, <1>5, <1>6

\* What is stored is the isotonic regression of its samples.
LEMMA CalibrationSound == ASSUME CalibrationInv PROVE IsotonicFit
<1>1. ASSUME NEW m \in Models PROVE Fitted(maps[m].of, maps[m].points)
  BY DEF CalibrationInv
<1> QED BY <1>1, FittedIsIsotonic DEF IsotonicFit

\* With no samples there is nothing to fit.
LEMMA FittingNone == Fitting(<< >>, << >>, << >>)
<1>1. << >> \in Seq(Resolutions) /\ << >> \in Seq(Blocks) /\ Len(<< >>) = 0 /\ DOMAIN << >> = {}
  BY EmptySeq
<1>2. PICK f : f = Won(<< >>)
  OBVIOUS
<1>3. \E e : Parted(f, << >>, e, 0 - 0)
  BY PartedNone
<1>4. Rising(<< >>, 0 - 1)
  BY DEF Rising
<1> QED BY <1>1, <1>2, <1>3, <1>4 DEF Fitting

\* A new fit has all its samples left.
LEMMA FittingStarts ==
  ASSUME NEW g \in Seq(Resolutions), Len(g) >= MinSamples
  PROVE  Fitting(SortedByP(g), SortedByP(g), << >>)
<1>1. PICK s \in Seq(Resolutions) : /\ s = SortedByP(g) /\ Len(s) = Len(g)
                                   /\ \A i, j \in 1 .. Len(g) : i < j => s[i].p <= s[j].p
  BY SortedRows
<1>2. PICK n \in Nat : n = Len(s) /\ DOMAIN s = 1 .. n /\ n = Len(g)
  BY <1>1, LenProperties
<1>3. << >> \in Seq(Blocks) /\ Len(<< >>) = 0
  BY EmptySeq
<1>4. n - n = 0 /\ \A i \in 1 .. n : n - n + i = i
  OBVIOUS
<1>5. PICK f : f = Won(s)
  OBVIOUS
<1>6. \E e : Parted(f, << >>, e, n - n)
  BY <1>4, PartedNone
<1>7. Rising(<< >>, 0 - 1)
  BY DEF Rising
<1> QED BY <1>1, <1>2, <1>3, <1>4, <1>5, <1>6, <1>7 DEF Fitting

\* The training takes rows of the table.
LEMMA TakenRows ==
  ASSUME resolved \in Seq(Resolutions)
  PROVE  SubSeq(resolved, 1, IF Len(resolved) < Limit THEN Len(resolved) ELSE Limit) \in Seq(Resolutions)
<1>1. PICK n \in Nat : n = (IF Len(resolved) < Limit THEN Len(resolved) ELSE Limit) /\ n <= Len(resolved)
  <2>1. Len(resolved) \in Nat /\ Limit \in Nat
    BY LenProperties, CalibrationAssumption
  <2> QED BY <2>1
<1>2. \A i \in 1 .. n : resolved[i] \in Resolutions
  <2>1. \A i \in 1 .. n : i \in 1 .. Len(resolved)
    BY <1>1, LenProperties
  <2> QED BY <2>1, ElementOfSeq
<1>3. SubSeq(resolved, 1, n) \in Seq(Resolutions)
  BY <1>2, SubSeqProperties
<1> QED BY <1>1, <1>3

\* Only so many models as there are rows have rows.
LEMMA GroupsOfRows ==
  ASSUME NEW taken \in Seq(Resolutions)
  PROVE  /\ GroupsOf(taken) \in Seq(Seq(Resolutions))
         /\ \A k \in 1 .. Len(GroupsOf(taken)) : \E m : GroupsOf(taken)[k] = Picked(taken, RowsOf(taken, m))
<1> DEFINE of == [i \in DOMAIN taken |-> taken[i].model]
           all == {taken[i].model : i \in DOMAIN taken}
           markets == {m \in Models : RowsOf(taken, m) # {}}
           order == InOrder(markets, {e \in markets \X markets : Min(RowsOf(taken, e[1])) < Min(RowsOf(taken, e[2]))})
<1>1. IsFiniteSet(markets) /\ Cardinality(markets) \in Nat
  <2>1. of \in Surjection(DOMAIN taken, all)
    BY DEF Surjection
  <2>2. PICK n \in Nat : DOMAIN taken = 1 .. n
    BY LenProperties
  <2>3. IsFiniteSet(DOMAIN taken)
    BY <2>2, FS_Interval
  <2> HIDE DEF of, all
  <2>4. IsFiniteSet(all)
    BY <2>1, <2>3, FS_Surjection
  <2>5. markets \in SUBSET all
    BY DEF all, RowsOf
  <2> HIDE DEF markets
  <2> QED BY <2>4, <2>5, FS_Subset, FS_CardinalityType
<1>2. ASSUME NEW m PROVE Picked(taken, RowsOf(taken, m)) \in Seq(Resolutions)
  <2>1. RowsOf(taken, m) \in SUBSET DOMAIN taken
    BY DEF RowsOf
  <2> QED BY <2>1, PickedIsAll
<1>3. GroupsOf(taken) = [k \in 1 .. Cardinality(markets) |-> Picked(taken, RowsOf(taken, order[k]))]
  BY DEF GroupsOf
<1> HIDE DEF markets, order
<1>4. PICK n \in Nat : n = Cardinality(markets)
  BY <1>1
<1>5. GroupsOf(taken) \in [1 .. n -> Seq(Resolutions)]
  BY <1>2, <1>3, <1>4
<1>6. GroupsOf(taken) \in Seq(Seq(Resolutions)) /\ Len(GroupsOf(taken)) = n
  BY <1>5, SeqDef
<1>7. \A k \in 1 .. n : GroupsOf(taken)[k] = Picked(taken, RowsOf(taken, order[k]))
  BY <1>3, <1>4
<1> QED BY <1>6, <1>7

\* The invariant of the training holds before anything is trained.
LEMMA CalibrationStarts == ASSUME CalibrationInit PROVE CalibrationInv
<1>1. << >> \in Seq(Resolutions) /\ << >> \in Seq(Blocks) /\ << >> \in Seq(Seq(Resolutions)) /\ Len(<< >>) = 0
  BY EmptySeq
<1>2. Fitted(<< >>, << >>)
  <2>1. ~Violated(<< >>)
    BY <1>1 DEF Violated
  <2> QED BY <2>1, FittingNone, FittingEnds
<1>3. maps = [m \in Models |-> [points |-> << >>, of |-> << >>]]
  BY DEF CalibrationInit, Untrained
<1>4. resolved = << >> /\ job = [groups |-> << >>, samples |-> << >>, of |-> << >>, blocks |-> << >>, busy |-> FALSE]
  BY DEF CalibrationInit, Idle0
<1> QED BY <1>1, <1>2, <1>3, <1>4, FittingNone DEF CalibrationInv

\* Every step of the training keeps its invariant.
LEMMA CalibrationKeeps ==
  ASSUME CalibrationInv, [CalibrationNext]_calibrationVars PROVE CalibrationInv'
<1>0. /\ resolved \in Seq(Resolutions)
      /\ DOMAIN job = {"groups", "samples", "of", "blocks", "busy"}
      /\ job.groups \in Seq(Seq(Resolutions))
      /\ Fitting(job.of, job.samples, job.blocks)
      /\ maps \in [Models -> [points : Seq(Blocks), of : Seq(Resolutions)]]
      /\ \A m \in Models : Fitted(maps[m].of, maps[m].points)
  BY DEF CalibrationInv
<1>i. /\ DOMAIN Idle0 = {"groups", "samples", "of", "blocks", "busy"}
      /\ Idle0.groups = << >> /\ Idle0.of = << >> /\ Idle0.samples = << >> /\ Idle0.blocks = << >>
      /\ << >> \in Seq(Seq(Resolutions))
  BY EmptySeq DEF Idle0
<1>f. ASSUME NEW of, NEW left, NEW blocks, Fitting(of, left, blocks), of = << >> PROVE left = << >> /\ blocks = << >>
  <2>1. of \in Seq(Resolutions) /\ left \in Seq(Resolutions) /\ blocks \in Seq(Blocks) /\ Len(of) = 0 /\ Len(left) <= Len(of)
    BY <1>f, EmptySeq DEF Fitting
  <2>2. Len(left) \in Nat /\ Len(blocks) \in Nat
    BY <2>1, LenProperties
  <2>3. Len(left) = 0 /\ left = << >>
    BY <2>1, <2>2, EmptySeq
  <2>4. PICK e : Parted(Won(of), blocks, e, 0)
    <3>1. Len(of) - Len(left) = 0
      BY <2>1, <2>3
    <3> QED BY <1>f, <3>1 DEF Fitting
  <2>5. ASSUME Len(blocks) # 0 PROVE FALSE
    <3>1. 0 \in 0 .. Len(blocks) /\ Len(blocks) \in 0 .. Len(blocks) /\ 0 < Len(blocks)
      BY <2>2, <2>5
    <3>2. e[0] < e[Len(blocks)] /\ e[0] = 0 /\ e[Len(blocks)] = 0
      BY <2>4, <3>1 DEF Parted
    <3> QED BY <3>2
  <2> QED BY <2>1, <2>3, <2>5, EmptySeq
<1>1. CASE UNCHANGED calibrationVars
  BY <1>1 DEF calibrationVars, CalibrationInv
<1>2. ASSUME NEW r \in Resolutions, Resolves(r) PROVE CalibrationInv'
  <2>1. resolved' = <<r>> \o resolved /\ job' = job /\ maps' = maps
    BY <1>2 DEF Resolves
  <2>2. <<r>> \in Seq(Resolutions)
    OBVIOUS
  <2>3. resolved' \in Seq(Resolutions)
    BY <1>0, <2>1, <2>2, ConcatProperties
  <2> QED BY <1>0, <2>1, <2>3 DEF CalibrationInv
<1>3. CASE TrainingStarts
  <2>1. PICK taken : taken = SubSeq(resolved, 1, IF Len(resolved) < Limit THEN Len(resolved) ELSE Limit)
    OBVIOUS
  <2>2. PICK groups \in Seq(Seq(Resolutions)) : groups = GroupsOf(taken)
    BY <1>0, <2>1, TakenRows, GroupsOfRows
  <2>5. job' = [Idle0 EXCEPT !.busy = TRUE, !.groups = groups] /\ resolved' = resolved /\ maps' = maps
    BY <1>3, <2>1, <2>2 DEF TrainingStarts
  <2>6. /\ DOMAIN job' = {"groups", "samples", "of", "blocks", "busy"} /\ job'.groups = groups
        /\ job'.of = << >> /\ job'.samples = << >> /\ job'.blocks = << >>
    BY <1>i, <2>5
  <2> QED BY <1>0, <2>5, <2>6, FittingNone DEF CalibrationInv
<1>4. CASE GroupStarts
  <2>1. /\ job.of = << >> /\ job.groups # << >> /\ resolved' = resolved /\ maps' = maps
    BY <1>4 DEF GroupStarts
  <2>2. PICK g, rest : g = Head(job.groups) /\ rest = Tail(job.groups)
    OBVIOUS
  <2>3. g \in Seq(Resolutions) /\ rest \in Seq(Seq(Resolutions))
    BY <1>0, <2>1, <2>2, HeadTailProperties
  <2>4. PICK s : s = SortedByP(g)
    OBVIOUS
  <2>5. job' = IF Len(g) < MinSamples THEN [job EXCEPT !.groups = rest]
               ELSE [[job EXCEPT !.groups = rest] EXCEPT !.samples = s, !.of = s]
    BY <1>4, <2>2, <2>4 DEF GroupStarts
  <2>6. CASE Len(g) < MinSamples
    <3>1. /\ DOMAIN job' = {"groups", "samples", "of", "blocks", "busy"} /\ job'.groups = rest
          /\ job'.of = job.of /\ job'.samples = job.samples /\ job'.blocks = job.blocks
      BY <1>0, <2>5, <2>6
    <3> QED BY <1>0, <2>1, <2>3, <3>1 DEF CalibrationInv
  <2>7. CASE ~(Len(g) < MinSamples)
    <3>1. /\ DOMAIN job' = {"groups", "samples", "of", "blocks", "busy"} /\ job'.groups = rest
          /\ job'.of = s /\ job'.samples = s /\ job'.blocks = job.blocks
      BY <1>0, <2>5, <2>7
    <3>2. job.blocks = << >>
      BY <1>0, <1>f, <2>1
    <3>3. Len(g) >= MinSamples
      BY <2>3, <2>7, LenProperties, CalibrationAssumption
    <3>4. Fitting(s, s, << >>)
      BY <2>3, <2>4, <3>3, FittingStarts
    <3> QED BY <1>0, <2>1, <2>3, <3>1, <3>2, <3>4 DEF CalibrationInv
  <2> QED BY <2>6, <2>7
<1>5. CASE Pushes
  <2>1. PICK rest, blocks : rest = Tail(job.samples) /\ blocks = Append(job.blocks, Block(Head(job.samples)))
    OBVIOUS
  <2>2. /\ job' = [job EXCEPT !.samples = rest, !.blocks = blocks] /\ resolved' = resolved /\ maps' = maps
        /\ job.samples # << >> /\ ~Violated(job.blocks)
    BY <1>5, <2>1 DEF Pushes
  <2>3. Fitting(job.of, rest, blocks)
    BY <1>0, <2>1, <2>2, PushKeeps
  <2>4. /\ DOMAIN job' = {"groups", "samples", "of", "blocks", "busy"} /\ job'.groups = job.groups
        /\ job'.of = job.of /\ job'.samples = rest /\ job'.blocks = blocks
    BY <1>0, <2>2
  <2> QED BY <1>0, <2>2, <2>3, <2>4 DEF CalibrationInv
<1>6. CASE Merges
  <2>1. PICK blocks : blocks = Append(Front(Front(job.blocks)), Merged(Last(Front(job.blocks)), Last(job.blocks)))
    OBVIOUS
  <2>2. /\ job' = [job EXCEPT !.blocks = blocks] /\ resolved' = resolved /\ maps' = maps /\ Violated(job.blocks)
    BY <1>6, <2>1 DEF Merges
  <2>3. Fitting(job.of, job.samples, blocks)
    BY <1>0, <2>1, <2>2, MergeKeeps
  <2>4. /\ DOMAIN job' = {"groups", "samples", "of", "blocks", "busy"} /\ job'.groups = job.groups
        /\ job'.of = job.of /\ job'.samples = job.samples /\ job'.blocks = blocks
    BY <1>0, <2>2
  <2> QED BY <1>0, <2>2, <2>3, <2>4 DEF CalibrationInv
<1>7. CASE TrainingEnds
  <2>1. job' = Idle0 /\ resolved' = resolved /\ maps' = maps
    BY <1>7 DEF TrainingEnds
  <2> QED BY <1>0, <1>i, <2>1, FittingNone DEF CalibrationInv
<1>8. ASSUME NEW ok \in BOOLEAN, Stores(ok) PROVE CalibrationInv'
  <2>1. /\ job.samples = << >> /\ ~Violated(job.blocks) /\ resolved' = resolved
        /\ maps' = (IF ok THEN [maps EXCEPT ![job.of[1].model] = [points |-> job.blocks, of |-> job.of]] ELSE maps)
        /\ job' = [job EXCEPT !.of = << >>, !.blocks = << >>]
    BY <1>8 DEF Stores
  <2>2. Fitted(job.of, job.blocks)
    BY <1>0, <2>1, FittingEnds
  <2>3. job.of \in Seq(Resolutions) /\ job.blocks \in Seq(Blocks)
    BY <2>2 DEF Fitted
  <2>4. /\ DOMAIN job' = {"groups", "samples", "of", "blocks", "busy"} /\ job'.groups = job.groups
        /\ job'.of = << >> /\ job'.samples = << >> /\ job'.blocks = << >>
    BY <1>0, <2>1
  <2>5. PICK map : map = [points |-> job.blocks, of |-> job.of]
    OBVIOUS
  <2>6. map \in [points : Seq(Blocks), of : Seq(Resolutions)] /\ Fitted(map.of, map.points)
    BY <2>2, <2>3, <2>5
  <2>7. \E m : maps' = [maps EXCEPT ![m] = map] \/ maps' = maps
    BY <2>1, <2>5
  <2>8. /\ maps' \in [Models -> [points : Seq(Blocks), of : Seq(Resolutions)]]
        /\ \A m \in Models : maps'[m] = maps[m] \/ maps'[m] = map
    BY <1>0, <2>6, <2>7
  <2>9. \A m \in Models : Fitted(maps'[m].of, maps'[m].points)
    BY <1>0, <2>6, <2>8
  <2> QED BY <1>0, <2>1, <2>4, <2>8, <2>9, FittingNone DEF CalibrationInv
<1> QED BY <1>1, <1>2, <1>3, <1>4, <1>5, <1>6, <1>7, <1>8 DEF CalibrationNext

\* A step of the whole moves the training or leaves it alone.
LEMMA CalibrationSteps == ASSUME [PlaneNext]_planeVars PROVE [CalibrationNext]_calibrationVars
BY DEF PlaneNext, planeVars, Group1, Group2, Group3, Group4, Group5

\* A step of the whole moves the loop of paper mode or leaves it alone.
LEMMA PaperSteps == ASSUME [PlaneNext]_planeVars PROVE [PaperNext]_paperVars
BY DEF PlaneNext, planeVars, Group1, Group2, Group3, Group4, Group5

\* The map the resolution sync trains is the isotonic regression of its samples, for
\* any forecasts and outcomes; and the report of paper mode balances in whatever order
\* markets are looked at, filled, refused and left out, as long as the account can bear
\* the worst outcome of every market.
THEOREM EvaluationSound == LossesBearable => (PlaneSpec => []EvaluationIsSound)
<1>1. SUFFICES ASSUME LossesBearable PROVE PlaneSpec => []EvaluationIsSound
  OBVIOUS
<1>2. PICK worst \in Nat : Bearable(worst)
  BY <1>1 DEF LossesBearable
<1>3. PlaneInit => PaperInv /\ SolventTo(worst) /\ CalibrationInv
  BY <1>2, PaperStarts, CalibrationStarts DEF PlaneInit
<1>4. PaperInv /\ SolventTo(worst) /\ CalibrationInv /\ [PlaneNext]_planeVars => (PaperInv /\ SolventTo(worst) /\ CalibrationInv)'
  BY <1>2, PaperSteps, CalibrationSteps, PaperKeeps, SolventKeeps, CalibrationKeeps
<1>5. PaperInv /\ SolventTo(worst) /\ CalibrationInv => EvaluationIsSound
  BY <1>2, SolventToSolvent, PaperBalances, CalibrationSound DEF EvaluationIsSound
<1> QED BY <1>3, <1>4, <1>5, PTL DEF PlaneSpec


-----------------------------------------------------------------------------
(***************************************************************************)
(* Scouting: the tokens chosen are of the most traded markets that passed, in *)
(* whatever order the books answered, and the flows are of one sync.       *)
(***************************************************************************)

TradeRows == [wallet : ToSet(Wallets), side : {"BUY", "SELL"}, usd : Nat, at : Nat]

FlowInv ==
    /\ trades \in [ToSet(Wallets) -> Seq(TradeRows)] /\ time \in Nat
    /\ sync \in [turn : 0 .. Len(Wallets) + 1, ticks : Nat, seen : Seq(TradeRows)]
    /\ lastSync \in [seen : Seq(TradeRows), at : Nat]
    /\ flows = FlowOf(lastSync.seen, lastSync.at)

\* The wallets are a sequence.
LEMMA WalletsListed == Len(Wallets) \in Nat /\ DOMAIN Wallets = 1 .. Len(Wallets) /\ \A i \in DOMAIN Wallets : Wallets[i] \in ToSet(Wallets)
BY ScoutAssumption, LenProperties DEF ToSet

\* Every step of the sync keeps what the flows stand for.
LEMMA FlowKeeps == ASSUME FlowInv, [Watches]_scoutVars PROVE FlowInv'
<1>1. CASE UNCHANGED scoutVars
  BY <1>1 DEF scoutVars, FlowInv
<1>2. ASSUME NEW w \in ToSet(Wallets), NEW side \in {"BUY", "SELL"}, WalletTrades(w, side, 1) PROVE FlowInv'
  <2>1. /\ trades' = [trades EXCEPT ![w] = Append(trades[w], [wallet |-> w, side |-> side, usd |-> 1, at |-> time])]
        /\ UNCHANGED <<time, sync, flows, lastSync>>
    BY <1>2 DEF WalletTrades
  <2>2. trades[w] \in Seq(TradeRows) /\ [wallet |-> w, side |-> side, usd |-> 1, at |-> time] \in TradeRows
    BY DEF FlowInv, TradeRows
  <2>3. Append(trades[w], [wallet |-> w, side |-> side, usd |-> 1, at |-> time]) \in Seq(TradeRows)
    BY <2>2, AppendProperties
  <2> QED BY <2>1, <2>3 DEF FlowInv
<1>3. CASE TimeMoves
  BY <1>3 DEF TimeMoves, FlowInv
<1>4. CASE SyncTicks
  <2>1. /\ sync' = [turn |-> 1, ticks |-> sync.ticks + 1, seen |-> << >>]
        /\ UNCHANGED <<trades, time, flows, lastSync>>
    BY <1>4 DEF SyncTicks
  <2>2. << >> \in Seq(TradeRows) /\ 1 \in 0 .. Len(Wallets) + 1
    BY WalletsListed, EmptySeq
  <2>3. sync.ticks + 1 \in Nat
    BY DEF FlowInv
  <2> QED BY <2>1, <2>2, <2>3 DEF FlowInv
<1>5. ASSUME NEW answered \in BOOLEAN, WalletRead(answered) PROVE FlowInv'
  <2>1. /\ sync.turn \in DOMAIN Wallets
        /\ sync' = [sync EXCEPT !.turn = sync.turn + 1,
                                !.seen = IF answered THEN sync.seen \o trades[Wallets[sync.turn]] ELSE sync.seen]
        /\ UNCHANGED <<trades, time, flows, lastSync>>
    BY <1>5 DEF WalletRead
  <2>2. sync.seen \in Seq(TradeRows) /\ trades[Wallets[sync.turn]] \in Seq(TradeRows) /\ sync.ticks \in Nat
    BY <2>1, WalletsListed DEF FlowInv
  <2>3. PICK more \in Seq(TradeRows) :
           more = IF answered THEN sync.seen \o trades[Wallets[sync.turn]] ELSE sync.seen
    BY <2>2, ConcatProperties
  <2>4. PICK nextTurn \in 0 .. Len(Wallets) + 1 : nextTurn = sync.turn + 1
    BY <2>1, WalletsListed
  <2>5. sync' = [sync EXCEPT !.turn = nextTurn, !.seen = more]
    BY <2>1, <2>3, <2>4
  <2>6. sync' \in [turn : 0 .. Len(Wallets) + 1, ticks : Nat, seen : Seq(TradeRows)]
    BY <2>5 DEF FlowInv
  <2> QED BY <2>1, <2>6 DEF FlowInv
<1>6. CASE TickEnds
  <2>1. /\ flows' = FlowOf(sync.seen, time)
        /\ lastSync' = [seen |-> sync.seen, at |-> time]
        /\ sync' = [sync EXCEPT !.turn = 0]
        /\ UNCHANGED <<trades, time>>
    BY <1>6 DEF TickEnds, Replaced, NoTick
  <2>2. 0 \in 0 .. Len(Wallets) + 1
    BY WalletsListed
  <2>3. sync' \in [turn : 0 .. Len(Wallets) + 1, ticks : Nat, seen : Seq(TradeRows)]
    BY <2>1, <2>2 DEF FlowInv
  <2>4. /\ lastSync' \in [seen : Seq(TradeRows), at : Nat] /\ lastSync'.seen = sync.seen /\ lastSync'.at = time
    BY <2>1 DEF FlowInv
  <2> QED BY <2>1, <2>3, <2>4 DEF FlowInv
<1> QED BY <1>1, <1>2, <1>3, <1>4, <1>5, <1>6 DEF Watches

\* What a tick leaves in the cache is of the trades it saw.
LEMMA FlowIsOfTick ==
  ASSUME NEW rows \in Seq(TradeRows), NEW now \in Nat, NEW f \in FlowOf(rows, now)
  PROVE  /\ \E i \in DOMAIN rows : rows[i].at = f.updatedAt /\ f.updatedAt >= now - Lookback
         /\ f.trades <= Len(rows)
         /\ Contra(f) => \E i \in DOMAIN rows : rows[i].side = "SELL" /\ rows[i].at >= now - Lookback
<1> DEFINE recent == WithinLookback(rows, now)
           N == Len(rows)
           bought == [i \in DOMAIN rows |-> IF i \in recent /\ rows[i].side = "BUY" THEN rows[i].usd ELSE 0]
           sells == [i \in DOMAIN rows |-> IF i \in recent /\ rows[i].side = "SELL" THEN rows[i].usd ELSE 0]
<1>1. /\ N \in Nat /\ DOMAIN rows = 1 .. N
      /\ \A i \in 1 .. N : rows[i].at \in Nat /\ rows[i].usd \in Nat
  <2>1. Len(rows) \in Nat /\ DOMAIN rows = 1 .. Len(rows)
    BY LenProperties
  <2>2. \A i \in 1 .. Len(rows) : rows[i] \in TradeRows
    BY ElementOfSeq
  <2>3. \A i \in 1 .. Len(rows) : rows[i].at \in Nat /\ rows[i].usd \in Nat
    BY <2>2 DEF TradeRows
  <2> QED BY <2>1, <2>3
<1>2. recent \in SUBSET (1 .. N) /\ \A i \in recent : rows[i].at >= now - Lookback
  BY <1>1 DEF WithinLookback
<1>3. /\ recent # {}
      /\ f.net = Usd(rows, recent, "BUY") - Usd(rows, recent, "SELL")
      /\ f.trades = Cardinality(recent)
      /\ f.updatedAt = Max({rows[i].at : i \in recent})
  <2> HIDE DEF recent
  <2>1. FlowOf(rows, now) =
           IF recent = {} THEN {}
           ELSE {[net |-> Usd(rows, recent, "BUY") - Usd(rows, recent, "SELL"), trades |-> Cardinality(recent),
                  wallets |-> Cardinality({rows[i].wallet : i \in DOMAIN rows}),
                  updatedAt |-> Max({rows[i].at : i \in recent})]}
    BY DEF FlowOf, recent
  <2> QED BY <2>1
<1> HIDE DEF recent
<1>4. f.trades <= N
  <2>0. PICK n \in Nat : n = N
    BY <1>1
  <2>1. IsFiniteSet(1 .. n) /\ Cardinality(1 .. n) = n
    BY FS_Interval
  <2>2. IsFiniteSet(1 .. N) /\ Cardinality(1 .. N) = N
    BY <2>0, <2>1
  <2> HIDE DEF N
  <2> QED BY <1>2, <1>3, <2>2, FS_Subset
<1>5. \E i \in DOMAIN rows : rows[i].at = f.updatedAt /\ f.updatedAt >= now - Lookback
  <2> DEFINE ats == [i \in 1 .. N |-> rows[i].at]
             S == {rows[i].at : i \in recent}
  <2>1. PICK b \in Nat : b = Total(ats, N) /\ \A r \in 1 .. N : ats[r] <= b
    BY <1>1, TotalCovers
  <2>2. S \in SUBSET (0 .. b) /\ S # {}
    <3>1. \A i \in recent : rows[i].at \in 0 .. b
      BY <1>1, <1>2, <2>1
    <3>2. PICK i \in recent : TRUE
      BY <1>3
    <3> QED BY <3>1, <3>2
  <2>3. Max(S) \in S
    <3> HIDE DEF S
    <3> QED BY <2>2, MaxOfBounded
  <2>4. PICK i \in recent : rows[i].at = Max(S)
    BY <2>3
  <2> QED BY <1>1, <1>2, <1>3, <2>4
<1>6. ASSUME Contra(f), \A i \in DOMAIN rows : ~(rows[i].side = "SELL" /\ rows[i].at >= now - Lookback)
      PROVE  FALSE
  <2>1. \A i \in 1 .. N : bought[i] \in Nat /\ sells[i] = 0
    BY <1>1, <1>2, <1>6
  <2>2. Usd(rows, recent, "BUY") = Total(bought, N) /\ Usd(rows, recent, "SELL") = Total(sells, N)
    BY DEF Usd
  <2> HIDE DEF bought, sells, N
  <2>3. Total(bought, N) \in Nat /\ Total(sells, N) = 0
    BY <1>1, <2>1, TotalCovers, TotalOfZeros
  <2>4. f.net < 0
    BY <1>6 DEF Contra
  <2> QED BY <1>3, <2>2, <2>3, <2>4
<1> QED BY <1>4, <1>5, <1>6

\* A flow that stands for one sync is what the property asks for.
LEMMA FlowsAreOfOneSync == ASSUME FlowInv PROVE FlowsOfOneSync
<1>1. lastSync.seen \in Seq(TradeRows) /\ lastSync.at \in Nat /\ flows = FlowOf(lastSync.seen, lastSync.at)
  BY DEF FlowInv
<1> QED BY <1>1, FlowIsOfTick DEF FlowsOfOneSync

MarketRows == [question : STRING, volume : Nat, ends : STRING, tokens : Nat]
Passed(markets) == [market : DOMAIN markets, sides : (SUBSET {"YES", "NO"}) \ {{}}]
Descends(markets) == \A i, j \in DOMAIN markets : i < j => markets[j].volume <= markets[i].volume

SearchInv ==
    /\ DOMAIN search = {"stage", "asked", "open", "touch", "out"}
    /\ search.stage \in {"asking", "touching", "chosen", "refused"}
    /\ search.asked \in Seq(MarketRows) /\ Descends(search.asked)
    /\ search.out \in Seq(Passed(search.asked))
    /\ search.open \subseteq DOMAIN search.asked
    /\ \A u \in universe : u.market \in DOMAIN search.asked /\ u.side \in {"YES", "NO"}
    /\ search.stage = "asking" => search.out = << >> /\ universe = {}

\* A slice from the first holds the first.
LEMMA FirstOfIsPrefix ==
  ASSUME NEW T, NEW s \in Seq(T), NEW n \in Nat
  PROVE  /\ FirstOf(s, n) \in Seq(T) /\ Len(FirstOf(s, n)) \in Nat
         /\ Len(FirstOf(s, n)) <= Len(s) /\ Len(FirstOf(s, n)) <= n
         /\ (Len(FirstOf(s, n)) = Len(s) \/ Len(FirstOf(s, n)) = n)
         /\ \A i \in 1 .. Len(FirstOf(s, n)) : FirstOf(s, n)[i] = s[i]
<1>1. Len(s) \in Nat /\ \A i \in 1 .. Len(s) : s[i] \in T
  BY LenProperties, ElementOfSeq
<1>2. PICK m \in Nat : m = (IF Len(s) < n THEN Len(s) ELSE n) /\ m <= Len(s) /\ m <= n /\ (m = Len(s) \/ m = n)
  BY <1>1
<1>3. FirstOf(s, n) = SubSeq(s, 1, m)
  BY <1>2 DEF FirstOf
<1>4. \A i \in 1 .. m : s[i] \in T
  BY <1>1, <1>2
<1>5. /\ SubSeq(s, 1, m) \in Seq(T) /\ Len(SubSeq(s, 1, m)) = m
      /\ \A i \in 1 .. m : SubSeq(s, 1, m)[i] = s[i]
  <2>1. /\ SubSeq(s, 1, m) \in Seq(T)
        /\ Len(SubSeq(s, 1, m)) = IF 1 <= m THEN m - 1 + 1 ELSE 0
        /\ \A i \in 1 .. m - 1 + 1 : SubSeq(s, 1, m)[i] = s[1 + i - 1]
    BY <1>4, SubSeqProperties
  <2>2. m - 1 + 1 = m /\ \A i \in 1 .. m : 1 + i - 1 = i
    OBVIOUS
  <2>3. (IF 1 <= m THEN m - 1 + 1 ELSE 0) = m
    OBVIOUS
  <2> QED BY <2>1, <2>2, <2>3
<1> QED BY <1>2, <1>3, <1>5

\* The markets asked for come with the most traded first.
LEMMA ByVolumeDescends ==
  ASSUME NEW listing \in Seq(MarketRows)
  PROVE  ByVolume(listing) \in Seq(MarketRows) /\ Descends(ByVolume(listing))
<1> DEFINE kept == {i \in Listed(listing) : listing[i].volume >= MinVolume}
           R == {e \in kept \X kept :
                     \/ listing[e[1]].volume > listing[e[2]].volume
                     \/ listing[e[1]].volume = listing[e[2]].volume /\ e[1] < e[2]}
           n == Cardinality(kept)
           order == InOrder(kept, R)
<1>1. /\ DOMAIN listing = 1 .. Len(listing) /\ Len(listing) \in Nat
      /\ \A i \in 1 .. Len(listing) : listing[i] \in MarketRows
  BY LenProperties, ElementOfSeq
<1>2. kept \in SUBSET (1 .. Len(listing))
  BY <1>1 DEF Listed
<1>3. \A i \in kept : i \in Int /\ listing[i] \in MarketRows /\ listing[i].volume \in Nat
  BY <1>1, <1>2 DEF MarketRows
<1>4. IsFiniteSet(kept) /\ n \in Nat
  <2>1. PICK b \in Nat : b = Len(listing)
    BY <1>1
  <2>2. IsFiniteSet(1 .. b)
    BY FS_Interval
  <2>3. kept \in SUBSET (1 .. b)
    BY <1>2, <2>1
  <2> HIDE DEF kept
  <2> QED BY <2>2, <2>3, FS_Subset, FS_CardinalityType
<1>5. ByVolume(listing) = [k \in 1 .. n |-> listing[order[k]]]
  BY DEF ByVolume
<1> HIDE DEF kept
<1>6. \A x, y \in kept : <<x, y>> \in R <=> (listing[x].volume > listing[y].volume
                                            \/ (listing[x].volume = listing[y].volume /\ x < y))
  OBVIOUS
<1> HIDE DEF R
<1>7. IsOrder(R, kept)
  BY <1>3, <1>6 DEF IsOrder
<1>8. order \in [1 .. n -> kept] /\ \A i, j \in 1 .. n : i < j => <<order[i], order[j]>> \in R
  BY <1>4, <1>7, InOrderSorts
<1> HIDE DEF order, n
<1>9. ByVolume(listing) \in [1 .. n -> MarketRows]
  BY <1>3, <1>5, <1>8
<1>10. ByVolume(listing) \in Seq(MarketRows) /\ DOMAIN ByVolume(listing) = 1 .. n
  BY <1>4, <1>9, SeqDef DEF n
<1>11. ASSUME NEW i \in 1 .. n, NEW j \in 1 .. n, i < j
       PROVE  ByVolume(listing)[j].volume <= ByVolume(listing)[i].volume
  <2>1. order[i] \in kept /\ order[j] \in kept /\ <<order[i], order[j]>> \in R
    BY <1>8, <1>11
  <2>2. listing[order[j]].volume <= listing[order[i]].volume
    BY <1>3, <1>6, <2>1
  <2> QED BY <1>5, <2>2
<1> QED BY <1>10, <1>11 DEF Descends

\* The results in the order of the list are all of them, the first markets first.
LEMMA ListOrder ==
  ASSUME NEW out \in Seq(Passed(search.asked)), search.asked \in Seq(MarketRows)
  PROVE  /\ InListOrder(out) \in Seq(Passed(search.asked)) /\ Len(InListOrder(out)) = Len(out) /\ Len(out) \in Nat
         /\ \A k \in DOMAIN out : \E i \in 1 .. Len(out) : InListOrder(out)[i] = out[k]
         /\ \A i \in 1 .. Len(out) : \E k \in DOMAIN out : InListOrder(out)[i] = out[k]
         /\ \A i, j \in 1 .. Len(out) : i < j => Rank(InListOrder(out)[i].market) <= Rank(InListOrder(out)[j].market)
<1> DEFINE n == Len(out)
           rk == [k \in 1 .. n |-> Rank(out[k].market)]
           R == {e \in (DOMAIN out) \X (DOMAIN out) :
                     \/ Rank(out[e[1]].market) < Rank(out[e[2]].market)
                     \/ Rank(out[e[1]].market) = Rank(out[e[2]].market) /\ e[1] < e[2]}
           order == InOrder(1 .. n, R)
<1>1. /\ DOMAIN out = 1 .. n /\ n \in Nat
      /\ \A k \in 1 .. n : out[k] \in Passed(search.asked)
  BY LenProperties, ElementOfSeq
<1>2. \A k \in 1 .. n : out[k].market \in DOMAIN search.asked
  BY <1>1 DEF Passed
<1>3. ASSUME NEW i \in DOMAIN search.asked PROVE Rank(i) \in Nat
  <2> DEFINE S == {j \in DOMAIN search.asked : search.asked[j].question = search.asked[i].question}
  <2>1. PICK b \in Nat : DOMAIN search.asked = 1 .. b
    BY LenProperties
  <2>2. S \in SUBSET (0 .. b) /\ S # {} /\ \A x \in S : x \in Nat
    BY <2>1
  <2>3. Rank(i) = Max(S)
    BY DEF Rank
  <2> HIDE DEF S
  <2> QED BY <2>2, <2>3, MaxOfBounded
<1>4. \A k \in 1 .. n : rk[k] \in Int
  BY <1>2, <1>3
<1>5. InListOrder(out) = [k \in 1 .. n |-> out[order[k]]]
  <2>1. InListOrder(out) = [k \in 1 .. n |-> out[InOrder(DOMAIN out, R)[k]]]
    BY DEF InListOrder
  <2> HIDE DEF R
  <2> QED BY <1>1, <2>1
<1>6. \A x, y \in 1 .. n : <<x, y>> \in R <=> (rk[x] < rk[y] \/ (rk[x] = rk[y] /\ x < y))
  BY <1>1
<1>7. IsFiniteSet(1 .. n) /\ Cardinality(1 .. n) = n
  <2>0. PICK b \in Nat : b = n
    BY <1>1
  <2>1. IsFiniteSet(1 .. b) /\ Cardinality(1 .. b) = b
    BY FS_Interval
  <2> QED BY <1>1, <2>0, <2>1
<1> HIDE DEF R, rk, n
<1>8. IsOrder(R, 1 .. n)
  <2>1. \A x \in 1 .. n : x \in Int /\ rk[x] \in Int
    BY <1>1, <1>4
  <2>2. \A x \in 1 .. n : <<x, x>> \notin R
    BY <1>6, <2>1
  <2>3. \A x, y \in 1 .. n : x # y => <<x, y>> \in R \/ <<y, x>> \in R
    BY <1>6, <2>1
  <2>4. ASSUME NEW x \in 1 .. n, NEW y \in 1 .. n, NEW z \in 1 .. n, <<x, y>> \in R, <<y, z>> \in R
        PROVE  <<x, z>> \in R
    <3>1. /\ rk[x] < rk[y] \/ (rk[x] = rk[y] /\ x < y)
          /\ rk[y] < rk[z] \/ (rk[y] = rk[z] /\ y < z)
      BY <1>6, <2>4
    <3>2. rk[x] < rk[z] \/ (rk[x] = rk[z] /\ x < z)
      BY <2>1, <3>1
    <3> QED BY <1>6, <3>2
  <2> QED BY <2>2, <2>3, <2>4, Zenon DEF IsOrder
<1>9. /\ order \in [1 .. n -> 1 .. n]
      /\ \A x \in 1 .. n : \E k \in 1 .. n : order[k] = x
      /\ \A i, j \in 1 .. n : i < j => <<order[i], order[j]>> \in R
  <2>0. PICK S : S = 1 .. n
    OBVIOUS
  <2>1. IsFiniteSet(S) /\ Cardinality(S) = n /\ IsOrder(R, S) /\ order = InOrder(S, R)
    BY <1>7, <1>8, <2>0
  <2> HIDE DEF order
  <2>2. /\ InOrder(S, R) \in [1 .. Cardinality(S) -> S]
        /\ \A x \in S : \E k \in 1 .. Cardinality(S) : InOrder(S, R)[k] = x
        /\ \A i, j \in 1 .. Cardinality(S) : i < j => <<InOrder(S, R)[i], InOrder(S, R)[j]>> \in R
    BY <2>1, InOrderSorts
  <2> QED BY <2>0, <2>1, <2>2
<1> HIDE DEF order
<1>10. InListOrder(out) \in [1 .. n -> Passed(search.asked)]
  BY <1>1, <1>5, <1>9
<1>11. InListOrder(out) \in Seq(Passed(search.asked)) /\ Len(InListOrder(out)) = n
  BY <1>1, <1>10, SeqDef
<1>12. ASSUME NEW i \in 1 .. n, NEW j \in 1 .. n, i < j
       PROVE  Rank(InListOrder(out)[i].market) <= Rank(InListOrder(out)[j].market)
  <2>1. order[i] \in 1 .. n /\ order[j] \in 1 .. n /\ <<order[i], order[j]>> \in R
    BY <1>9, <1>12
  <2>2. rk[order[i]] <= rk[order[j]]
    BY <1>4, <1>6, <2>1
  <2>3. InListOrder(out)[i] = out[order[i]] /\ InListOrder(out)[j] = out[order[j]]
    BY <1>5
  <2>4. rk[order[i]] = Rank(out[order[i]].market) /\ rk[order[j]] = Rank(out[order[j]].market)
    BY <2>1 DEF rk
  <2> QED BY <2>2, <2>3, <2>4
<1>13. \A k \in 1 .. n : \E i \in 1 .. n : InListOrder(out)[i] = out[k]
  BY <1>5, <1>9
<1>14. \A i \in 1 .. n : \E k \in 1 .. n : InListOrder(out)[i] = out[k]
  BY <1>5, <1>9
<1> QED BY <1>1, <1>11, <1>12, <1>13, <1>14 DEF n

\* Where no two markets ask the same question, each ranks at its own position.
LEMMA RankIsPosition ==
  ASSUME search.asked \in Seq(MarketRows),
         Cardinality({search.asked[i].question : i \in DOMAIN search.asked}) = Len(search.asked)
  PROVE  \A i \in DOMAIN search.asked : Rank(i) = i
<1> DEFINE D == DOMAIN search.asked
           ask == [i \in D |-> search.asked[i].question]
           questions == {search.asked[i].question : i \in D}
<1>1. PICK b \in Nat : D = 1 .. b /\ Len(search.asked) = b
  BY LenProperties
<1>2. IsFiniteSet(D) /\ Cardinality(D) = b
  BY <1>1, FS_Interval
<1>3. ask \in Surjection(D, questions)
  BY DEF Surjection
<1>4. \A i \in D : ask[i] = search.asked[i].question
  OBVIOUS
<1> HIDE DEF ask, questions
<1>5. ask \in Injection(D, questions)
  <2>1. Cardinality(questions) = Cardinality(D)
    BY <1>1, <1>2 DEF questions
  <2> QED BY <1>2, <1>3, <2>1, FS_Surjection
<1>6. ASSUME NEW i \in D PROVE Rank(i) = i
  <2> DEFINE S == {j \in D : search.asked[j].question = search.asked[i].question}
  <2>1. S = {i}
    BY <1>4, <1>5 DEF Injection, IsInjective
  <2>2. S \in SUBSET (0 .. b) /\ S # {}
    BY <1>1, <2>1
  <2>3. Rank(i) = Max(S)
    BY DEF Rank
  <2> HIDE DEF S
  <2>4. Max(S) \in S
    BY <2>2, MaxOfBounded
  <2> QED BY <2>1, <2>3, <2>4
<1> QED BY <1>6

\* The universe is of the markets chosen and their sides.
LEMMA UniverseIsOfChosen ==
  ASSUME SearchInv, UniverseChosen
  PROVE  \E L \in Seq(Passed(search.asked)), m \in 0 .. Len(search.out) :
           /\ L = InListOrder(search.out)
           /\ \A u \in universe' : u.side \in {"YES", "NO"} /\ \E k \in 1 .. m : u.market = L[k].market
           /\ \A k \in 1 .. m : \E u \in universe' : u.market = L[k].market
<1> DEFINE L == InListOrder(search.out)
           chosen == FirstOf(L, MaxMarkets)
           m == Len(chosen)
           T == Passed(search.asked)
<1>1. L \in Seq(T) /\ Len(L) = Len(search.out)
  BY ListOrder DEF SearchInv
<1>2. universe' = UNION {[market : {chosen[k].market}, side : chosen[k].sides] : k \in DOMAIN chosen}
  BY DEF UniverseChosen
<1> HIDE DEF L, T
<1>3. /\ chosen \in Seq(T) /\ m \in Nat /\ m <= Len(search.out) /\ DOMAIN chosen = 1 .. m
      /\ \A i \in 1 .. m : chosen[i] = L[i] /\ chosen[i] \in T
  <2>1. /\ chosen \in Seq(T) /\ m \in Nat /\ m <= Len(L)
        /\ \A i \in 1 .. m : chosen[i] = L[i]
    BY <1>1, FirstOfIsPrefix, ScoutAssumption
  <2> HIDE DEF chosen
  <2>2. DOMAIN chosen = 1 .. m /\ \A i \in 1 .. m : chosen[i] \in T
    BY <2>1, LenProperties, ElementOfSeq
  <2> QED BY <1>1, <2>1, <2>2
<1> HIDE DEF chosen, m
<1>4. \A k \in 1 .. m : chosen[k].sides \in SUBSET {"YES", "NO"} /\ chosen[k].sides # {}
  BY <1>3 DEF T, Passed
<1>5. ASSUME NEW u \in universe' PROVE u.side \in {"YES", "NO"} /\ \E k \in 1 .. m : u.market = L[k].market
  <2>1. PICK k \in 1 .. m : u \in [market : {chosen[k].market}, side : chosen[k].sides]
    BY <1>2, <1>3
  <2> QED BY <1>3, <1>4, <2>1
<1>6. ASSUME NEW k \in 1 .. m PROVE \E u \in universe' : u.market = L[k].market
  <2>1. PICK side \in chosen[k].sides : TRUE
    BY <1>4
  <2>2. [market |-> chosen[k].market, side |-> side] \in universe'
    BY <1>2, <1>3
  <2>3. [market |-> chosen[k].market, side |-> side].market = L[k].market
    BY <1>3
  <2> QED BY <2>2, <2>3
<1>7. m \in 0 .. Len(search.out)
  <2>1. Len(search.out) \in Nat
    BY LenProperties DEF SearchInv
  <2> QED BY <1>3, <2>1
<1>8. L = InListOrder(search.out)
  BY DEF L
<1> QED BY <1>1, <1>5, <1>6, <1>7, <1>8 DEF T

\* The markets chosen are the most traded of those that passed.
LEMMA ChosenSound ==
  ASSUME SearchInv, UniverseChosen PROVE ChosenAreTheLiquidest'
<1> DEFINE out == search.out
           markets == search.asked
           T == Passed(markets)
<1>1. search'.asked = markets /\ search'.out = out
  BY DEF UniverseChosen, SearchInv
<1>2. PICK L \in Seq(T), m \in 0 .. Len(out) :
           /\ L = InListOrder(out)
           /\ \A u \in universe' : u.side \in {"YES", "NO"} /\ \E k \in 1 .. m : u.market = L[k].market
           /\ \A k \in 1 .. m : \E u \in universe' : u.market = L[k].market
  BY UniverseIsOfChosen
<1>3. /\ L \in Seq(T) /\ Len(L) = Len(out) /\ Len(out) \in Nat
      /\ \A k \in DOMAIN out : \E i \in 1 .. Len(out) : L[i] = out[k]
      /\ \A i, j \in 1 .. Len(out) : i < j => Rank(L[i].market) <= Rank(L[j].market)
  <2>1. out \in Seq(Passed(search.asked)) /\ search.asked \in Seq(MarketRows)
    BY DEF SearchInv
  <2>2. L = InListOrder(out) /\ L \in Seq(T)
    BY <1>2
  <2> QED BY <2>1, <2>2, ListOrder, Zenon
<1>4. SUFFICES ASSUME Cardinality({markets[i].question : i \in DOMAIN markets}) = Len(markets),
                      NEW c \in {u.market : u \in universe'},
                      NEW o \in {out[k].market : k \in DOMAIN out} \ {u.market : u \in universe'}
               PROVE  markets[o].volume <= markets[c].volume
  BY <1>1 DEF ChosenAreTheLiquidest
<1>5. \A i \in DOMAIN markets : Rank(i) = i
  BY <1>4, RankIsPosition DEF SearchInv
<1>6. PICK i \in 1 .. m : c = L[i].market
  <2>1. PICK u \in universe' : c = u.market
    BY <1>4
  <2> QED BY <1>2, <2>1
<1>7. PICK j \in 1 .. Len(out) : o = L[j].market
  BY <1>3, <1>4
<1>8. ~(j \in 1 .. m)
  BY <1>2, <1>4, <1>7
<1>9. i \in 1 .. Len(out) /\ i < j
  BY <1>2, <1>3, <1>6, <1>7, <1>8
<1>10. \A k \in 1 .. Len(out) : L[k].market \in DOMAIN markets
  <2>1. \A k \in 1 .. Len(out) : L[k] \in T
    BY <1>3, ElementOfSeq
  <2> QED BY <2>1 DEF Passed
<1>11. c \in DOMAIN markets /\ o \in DOMAIN markets /\ c <= o
  BY <1>3, <1>5, <1>6, <1>7, <1>9, <1>10
<1>12. Descends(markets) /\ \A k \in DOMAIN markets : k \in Int /\ markets[k].volume \in Int
  <2>1. markets \in Seq(MarketRows) /\ Descends(markets)
    BY DEF SearchInv
  <2>2. \A k \in DOMAIN markets : k \in Int /\ markets[k] \in MarketRows
    BY <2>1, LenProperties, ElementOfSeq
  <2> QED BY <2>1, <2>2 DEF MarketRows
<1>13. c < o => markets[o].volume <= markets[c].volume
  BY <1>11, <1>12, Zenon DEF Descends
<1>14. c = o => markets[o].volume <= markets[c].volume
  BY <1>11, <1>12
<1>15. c < o \/ c = o
  BY <1>11, <1>12
<1> QED BY <1>13, <1>14, <1>15

\* Every step of the discovery keeps its invariant.
LEMMA SearchKeeps ==
  ASSUME SearchInv, ChosenAreTheLiquidest, [Discovers]_scoutVars PROVE SearchInv' /\ ChosenAreTheLiquidest'
<1>1. CASE UNCHANGED scoutVars
  BY <1>1 DEF scoutVars, SearchInv, ChosenAreTheLiquidest, Descends, Passed
<1>2. ASSUME NEW listing \in Listings, ListingArrives(listing) PROVE SearchInv' /\ ChosenAreTheLiquidest'
  <2>1. PICK listed : listed = FirstOf(ByVolume(listing), TopOfList)
    OBVIOUS
  <2>0. /\ search.stage = "asking" /\ universe' = universe
        /\ \E touched \in SUBSET DOMAIN listed : \E touch :
             search' = [search EXCEPT !.stage = "touching", !.asked = listed, !.open = touched, !.touch = touch]
    <3> DEFINE touched == {i \in DOMAIN listed : ~Soon(listed[i])}
    <3>1. touched \in SUBSET DOMAIN listed
      OBVIOUS
    <3>2. /\ search' = [search EXCEPT !.stage = "touching", !.asked = listed, !.open = touched,
                          !.touch = [i \in touched |-> [side \in {"YES", "NO"} |-> NotAsked]]]
          /\ search.stage = "asking" /\ universe' = universe
      BY <1>2, <2>1 DEF ListingArrives
    <3> HIDE DEF touched
    <3> QED BY <3>1, <3>2
  <2>2. PICK touched, touch : /\ touched \subseteq DOMAIN listed
                              /\ search' = [search EXCEPT !.stage = "touching", !.asked = listed, !.open = touched, !.touch = touch]
                              /\ search.stage = "asking" /\ universe' = universe
    BY <2>0
  <2>3. listed \in Seq(MarketRows) /\ Descends(listed)
    <3>1. listing \in Seq(MarketRows)
      BY ScoutAssumption DEF MarketRows
    <3>2. PICK all \in Seq(MarketRows) : all = ByVolume(listing) /\ Descends(all)
      BY <3>1, ByVolumeDescends
    <3>3. PICK b \in Nat, a \in Nat : /\ listed \in Seq(MarketRows) /\ DOMAIN listed = 1 .. b /\ DOMAIN all = 1 .. a /\ b <= a
                                      /\ \A i \in 1 .. b : listed[i] = all[i]
      <4>1. /\ listed \in Seq(MarketRows) /\ Len(listed) <= Len(all)
            /\ \A i \in 1 .. Len(listed) : listed[i] = all[i]
        BY <2>1, <3>2, FirstOfIsPrefix, ScoutAssumption
      <4>2. /\ Len(listed) \in Nat /\ DOMAIN listed = 1 .. Len(listed)
            /\ Len(all) \in Nat /\ DOMAIN all = 1 .. Len(all)
        BY <4>1, LenProperties
      <4> QED BY <4>1, <4>2
    <3> QED BY <3>2, <3>3 DEF Descends
  <2>4. << >> \in Seq(Passed(listed))
    BY EmptySeq
  <2>5. search'.stage = "touching" /\ search'.asked = listed /\ search'.open = touched /\ search'.out = << >> /\ universe' = {}
    BY <2>2 DEF SearchInv
  <2> QED BY <2>2, <2>3, <2>4, <2>5 DEF SearchInv, ChosenAreTheLiquidest
<1>3. CASE ListingFails
  BY <1>3 DEF ListingFails, SearchInv, ChosenAreTheLiquidest
<1>4. CASE UniverseChosen
  <2>1. /\ search'.asked = search.asked /\ search'.out = search.out /\ search'.open = search.open
        /\ search'.stage \in {"chosen", "refused"}
    BY <1>4 DEF UniverseChosen, SearchInv
  <2>2. \A u \in universe' : u.market \in DOMAIN search.asked /\ u.side \in {"YES", "NO"}
    <3>1. PICK L \in Seq(Passed(search.asked)), m \in 0 .. Len(search.out) :
           /\ L = InListOrder(search.out)
           /\ \A u \in universe' : u.side \in {"YES", "NO"} /\ \E k \in 1 .. m : u.market = L[k].market
      BY <1>4, UniverseIsOfChosen
    <3>2. /\ \A k \in 1 .. m : L[k] \in Passed(search.asked)
      <4>1. L \in Seq(Passed(search.asked)) /\ Len(L) = Len(search.out) /\ Len(search.out) \in Nat
        BY <3>1, ListOrder DEF SearchInv
      <4> QED BY <4>1, ElementOfSeq
    <3> QED BY <3>1, <3>2 DEF Passed
  <2>3. DOMAIN search' = {"stage", "asked", "open", "touch", "out"}
    BY <1>4 DEF UniverseChosen, SearchInv
  <2>4. SearchInv'
    BY <2>1, <2>2, <2>3 DEF SearchInv
  <2> QED BY <1>4, <2>4, ChosenSound
<1>5. ASSUME NEW i \in search.open, NEW side \in {"YES", "NO"}, NEW t, TouchAnswers(i, side, t)
      PROVE  SearchInv' /\ ChosenAreTheLiquidest'
  <2>0. PICK touch : touch = [search.touch EXCEPT ![i][side] = t]
    OBVIOUS
  <2>1. PICK kept, decided :
          /\ kept \in SUBSET {"YES", "NO"}
          /\ search' = [search EXCEPT !.touch = touch,
                          !.open = IF decided THEN search.open \ {i} ELSE search.open,
                          !.out = IF decided /\ kept # {} THEN Append(search.out, [market |-> i, sides |-> kept]) ELSE search.out]
          /\ search.stage = "touching" /\ universe' = universe
    <3>1. PICK kept \in SUBSET {"YES", "NO"} : kept = {s \in {"YES", "NO"} : PassesTouch(search.asked[i], touch[i][s])}
      OBVIOUS
    <3>2. PICK decided : decided = (NotAsked \notin {touch[i]["YES"], touch[i]["NO"]})
      OBVIOUS
    <3>3. /\ search' = [search EXCEPT !.touch = touch,
                          !.open = IF decided THEN search.open \ {i} ELSE search.open,
                          !.out = IF decided /\ kept # {} THEN Append(search.out, [market |-> i, sides |-> kept]) ELSE search.out]
          /\ search.stage = "touching" /\ universe' = universe
      BY <1>5, <2>0, <3>1, <3>2, Zenon DEF TouchAnswers
    <3> QED BY <3>3
  <2>2. PICK out \in Seq(Passed(search.asked)) :
          out = IF decided /\ kept # {} THEN Append(search.out, [market |-> i, sides |-> kept]) ELSE search.out
    <3>1. search.out \in Seq(Passed(search.asked)) /\ i \in DOMAIN search.asked
      BY DEF SearchInv
    <3>2. kept # {} => [market |-> i, sides |-> kept] \in Passed(search.asked)
      BY <2>1, <3>1 DEF Passed
    <3> QED BY <3>1, <3>2, AppendProperties
  <2>3. PICK unread \in SUBSET search.open : unread = IF decided THEN search.open \ {i} ELSE search.open
    OBVIOUS
  <2>4. search' = [search EXCEPT !.touch = touch, !.open = unread, !.out = out]
    BY <2>1, <2>2, <2>3
  <2>5. search'.asked = search.asked /\ search'.out = out /\ search'.open = unread /\ search'.stage = "touching"
    BY <2>1, <2>4 DEF SearchInv
  <2> QED BY <2>1, <2>2, <2>3, <2>5 DEF SearchInv, ChosenAreTheLiquidest
<1> QED BY <1>1, <1>2, <1>3, <1>4, <1>5 DEF Discovers

ScoutInv == FlowInv /\ SearchInv /\ ChosenAreTheLiquidest

\* The invariant of the scouting holds before the first search.
LEMMA ScoutStarts == ScoutInit => ScoutInv
<1> SUFFICES ASSUME ScoutInit PROVE ScoutInv
  OBVIOUS
<1>1. << >> \in Seq(TradeRows) /\ << >> \in Seq(MarketRows) /\ << >> \in Seq(Passed(<< >>)) /\ DOMAIN << >> = {}
  BY EmptySeq
<1>2. FlowInv
  <2>1. WithinLookback(<< >>, 0) = {}
    BY <1>1 DEF WithinLookback
  <2>2. FlowOf(<< >>, 0) = {}
    BY <2>1 DEF FlowOf
  <2>3. NoTick \in 0 .. Len(Wallets) + 1
    BY WalletsListed DEF NoTick
  <2> QED BY <1>1, <2>2, <2>3 DEF ScoutInit, FlowInv
<1>3. /\ DOMAIN search = {"stage", "asked", "open", "touch", "out"} /\ search.stage = "asking"
      /\ search.asked = << >> /\ search.out = << >> /\ search.open = {} /\ universe = {}
  BY DEF ScoutInit
<1>4. Descends(search.asked)
  BY <1>1, <1>3 DEF Descends
<1> QED BY <1>1, <1>2, <1>3, <1>4 DEF ScoutInv, SearchInv, ChosenAreTheLiquidest

\* Every step of the scouting keeps its invariant.
LEMMA ScoutKeeps ==
  ASSUME ScoutInv, [Discovers \/ Watches]_scoutVars PROVE ScoutInv'
<1>1. CASE [Discovers]_scoutVars
  <2>1. UNCHANGED <<trades, time, sync, flows, lastSync>>
    BY <1>1 DEF Discovers, ListingArrives, ListingFails, UniverseChosen, TouchAnswers, scoutVars
  <2>2. FlowInv'
    BY <2>1 DEF ScoutInv, FlowInv
  <2> QED BY <1>1, <2>2, SearchKeeps DEF ScoutInv
<1>2. CASE [Watches]_scoutVars
  <2>1. UNCHANGED <<search, universe>>
    BY <1>2 DEF Watches, WalletTrades, TimeMoves, SyncTicks, TickEnds, WalletRead, scoutVars
  <2>2. SearchInv' /\ ChosenAreTheLiquidest'
    BY <2>1 DEF ScoutInv, SearchInv, ChosenAreTheLiquidest, Descends, Passed
  <2> QED BY <1>2, <2>2, FlowKeeps DEF ScoutInv
<1> QED BY <1>1, <1>2

\* A tick leaves at most the one flow of the watched token.
LEMMA ScoutTyped == ASSUME ScoutInv PROVE ScoutTypeOK
<1>1. Cardinality(flows) <= 1
  <2>1. flows = {} \/ \E f : flows = {f}
    <3>1. \A rows, now : FlowOf(rows, now) = {} \/ \E f : FlowOf(rows, now) = {f}
      BY Zenon DEF FlowOf
    <3> QED BY <3>1 DEF ScoutInv, FlowInv
  <2>2. CASE flows = {}
    BY <2>2, FS_EmptySet
  <2>3. ASSUME NEW f, flows = {f} PROVE Cardinality(flows) <= 1
    <3>1. Cardinality({f}) = 1
      BY FS_Singleton
    <3> QED BY <2>3, <3>1
  <2> QED BY <2>1, <2>2, <2>3
<1> QED BY <1>1 DEF ScoutInv, FlowInv, SearchInv, ScoutTypeOK

\* A step of the whole moves the discovery or the sync or leaves it alone.
LEMMA ScoutSteps == ASSUME [PlaneNext]_planeVars PROVE [Discovers \/ Watches]_scoutVars
BY DEF PlaneNext, planeVars, Group1, Group2, Group3, Group4, Group5

\* In whatever order the books answer and whatever wallets cannot be read, the universe
\* is of the most traded markets that passed, and the flow the edge is judged by is of
\* the trades one sync saw: for any listing, books, bounds and watched wallets.
THEOREM ScoutingSound == PlaneSpec => []ScoutingIsSound
<1>1. PlaneInit => ScoutInv
  BY ScoutStarts DEF PlaneInit
<1>2. ScoutInv /\ [PlaneNext]_planeVars => ScoutInv'
  BY ScoutSteps, ScoutKeeps
<1>3. ScoutInv => ScoutingIsSound
  BY FlowsAreOfOneSync DEF ScoutInv, ScoutingIsSound
<1> QED BY <1>1, <1>2, <1>3, PTL DEF PlaneSpec
=============================================================================
