------------------------- MODULE RunningTotalProofs -------------------------
(***************************************************************************)
(* What Total computes, for tables of any length.  The induction is over   *)
(* sets of numbers (a set that holds 0 and is closed under successor is    *)
(* Nat), which needs no operator parameter.                                *)
(***************************************************************************)
EXTENDS RunningTotal, WellFoundedInduction, TLAPS

\* Induction, stated of a set: the least number outside T would have a
\* predecessor in T.
LEMMA SetInduction ==
  ASSUME NEW T \in SUBSET Nat, 0 \in T, \A n \in T : n + 1 \in T
  PROVE  T = Nat
<1> DEFINE Missing == Nat \ T
<1>1. SUFFICES ASSUME Missing # {} PROVE FALSE
  OBVIOUS
<1>2. PICK m \in Missing : \A y \in Missing : ~(<<y, m>> \in OpToRel(<, Nat))
  <2> Missing \subseteq Nat
    OBVIOUS
  <2> QED
    BY <1>1, WFMin, NatLessThanWellFounded
<1>3. \A y \in Missing : ~(y < m)
  BY <1>2 DEF OpToRel
<1>4. m \in Nat /\ m # 0
  OBVIOUS
<1>5. m - 1 \in Nat /\ m - 1 < m
  BY <1>4
<1>6. m - 1 \in T
  BY <1>3, <1>5
<1>7. (m - 1) + 1 \in T
  BY <1>6
<1> QED
  BY <1>4, <1>7

\* The equations a table of prefix totals has to satisfy.
IsPrefixTotals(s, f, n) ==
  s = [i \in 0 .. n |-> IF i = 0 THEN 0 ELSE s[i - 1] + f[i]]

\* Such a table exists for every f of numbers: extend the one for n by n + 1.
LEMMA PrefixTotalsExist ==
  ASSUME NEW f, NEW N \in Nat, \A i \in 1 .. N : f[i] \in Int
  PROVE  \E s \in [0 .. N -> Int] : IsPrefixTotals(s, f, N)
<1> DEFINE T == {n \in Nat : n <= N => \E s \in [0 .. n -> Int] : IsPrefixTotals(s, f, n)}
<1>1. 0 \in T
  <2> DEFINE s == [i \in 0 .. 0 |-> 0]
  <2>1. s \in [0 .. 0 -> Int] /\ IsPrefixTotals(s, f, 0)
    BY DEF IsPrefixTotals
  <2> QED
    BY <2>1
<1>2. ASSUME NEW n \in T PROVE n + 1 \in T
  <2>1. SUFFICES ASSUME n + 1 <= N
                 PROVE  \E s \in [0 .. n + 1 -> Int] : IsPrefixTotals(s, f, n + 1)
    OBVIOUS
  <2>2. PICK s \in [0 .. n -> Int] : IsPrefixTotals(s, f, n)
    BY <2>1
  <2> DEFINE t == [i \in 0 .. n + 1 |-> IF i = n + 1 THEN s[n] + f[n + 1] ELSE s[i]]
  <2>3. f[n + 1] \in Int
    BY <2>1
  <2>4. t \in [0 .. n + 1 -> Int]
    BY <2>2, <2>3
  <2>5. \A i \in 0 .. n + 1 : t[i] = IF i = 0 THEN 0 ELSE t[i - 1] + f[i]
    BY <2>2 DEF IsPrefixTotals
  <2>6. IsPrefixTotals(t, f, n + 1)
    BY <2>4, <2>5 DEF IsPrefixTotals
  <2> QED
    BY <2>4, <2>6
<1>3. T = Nat
  BY <1>1, <1>2, SetInduction
<1> QED
  BY <1>3

\* The definition of PrefixTotals picks one of them, so its equations hold.
LEMMA PrefixTotalsEquations ==
  ASSUME NEW f, NEW N \in Nat, \A i \in 1 .. N : f[i] \in Int
  PROVE  IsPrefixTotals(PrefixTotals(f, N), f, N)
<1>1. \E s : IsPrefixTotals(s, f, N)
  BY PrefixTotalsExist
<1>2. PrefixTotals(f, N) = CHOOSE s : IsPrefixTotals(s, f, N)
  BY DEF PrefixTotals, IsPrefixTotals
<1> QED
  BY <1>1, <1>2

\* The equations one by one.
LEMMA PrefixStep ==
  ASSUME NEW f, NEW N \in Nat, \A i \in 1 .. N : f[i] \in Int
  PROVE  /\ PrefixTotals(f, N)[0] = 0
         /\ \A n \in Nat : n + 1 <= N =>
              PrefixTotals(f, N)[n + 1] = PrefixTotals(f, N)[n] + f[n + 1]
<1> DEFINE s == PrefixTotals(f, N)
<1>1. \A i \in 0 .. N : s[i] = IF i = 0 THEN 0 ELSE s[i - 1] + f[i]
  <2> HIDE DEF s
  <2>1. s = [i \in 0 .. N |-> IF i = 0 THEN 0 ELSE s[i - 1] + f[i]]
    BY PrefixTotalsEquations DEF IsPrefixTotals, s
  <2> QED
    BY <2>1
<1> HIDE DEF s
<1>2. s[0] = 0
  BY <1>1
<1>3. ASSUME NEW n \in Nat, n + 1 <= N PROVE s[n + 1] = s[n] + f[n + 1]
  <2>1. n + 1 \in 0 .. N /\ n + 1 # 0 /\ (n + 1) - 1 = n
    BY <1>3
  <2> QED
    BY <1>1, <2>1
<1> QED
  BY <1>2, <1>3 DEF s

\* Prefix totals are numbers.
LEMMA PrefixType ==
  ASSUME NEW f, NEW N \in Nat, \A i \in 1 .. N : f[i] \in Int
  PROVE  \A n \in 0 .. N : PrefixTotals(f, N)[n] \in Int
<1> DEFINE s == PrefixTotals(f, N)
           T == {n \in Nat : n <= N => s[n] \in Int}
<1>1. 0 \in T
  BY PrefixStep
<1>2. ASSUME NEW n \in T PROVE n + 1 \in T
  BY <1>2, PrefixStep
<1>3. T = Nat
  <2> HIDE DEF T
  <2> QED
    BY <1>1, <1>2, SetInduction DEF T
<1> QED
  BY <1>3

LEMMA TotalOfNone ==
  ASSUME NEW f
  PROVE  Total(f, 0) = 0
BY PrefixStep DEF Total

LEMMA TotalType ==
  ASSUME NEW f, NEW N \in Nat, \A i \in 1 .. N : f[i] \in Int
  PROVE  Total(f, N) \in Int
BY PrefixType DEF Total

\* Changing the entry of r changes every prefix total from r on by the same
\* amount, and none before.
LEMMA PrefixUpdate ==
  ASSUME NEW f, NEW g, NEW N \in Nat, NEW M \in Nat, NEW r \in Nat, NEW d \in Int,
         N <= M,
         \A i \in 1 .. N : f[i] \in Int,
         \A i \in 1 .. M : g[i] \in Int,
         r # 0,
         \A i \in 1 .. N : g[i] = f[i] + (IF i = r THEN d ELSE 0)
  PROVE  \A n \in 0 .. N :
           PrefixTotals(g, M)[n] = PrefixTotals(f, N)[n] + (IF n >= r THEN d ELSE 0)
<1> DEFINE s == PrefixTotals(f, N)
           t == PrefixTotals(g, M)
           T == {n \in Nat : n <= N => t[n] = s[n] + (IF n >= r THEN d ELSE 0)}
<1>1. 0 \in T
  BY PrefixStep
<1>2. ASSUME NEW n \in T PROVE n + 1 \in T
  <2>1. SUFFICES ASSUME n + 1 <= N
                 PROVE  t[n + 1] = s[n + 1] + (IF n + 1 >= r THEN d ELSE 0)
    OBVIOUS
  <2>2. n \in Nat /\ n <= N
    BY <2>1
  <2>3. t[n] = s[n] + (IF n >= r THEN d ELSE 0)
    BY <2>2
  <2>4. t[n + 1] = t[n] + g[n + 1]
    BY <2>1, <2>2, PrefixStep
  <2>5. s[n + 1] = s[n] + f[n + 1]
    BY <2>1, <2>2, PrefixStep
  <2>6. g[n + 1] = f[n + 1] + (IF n + 1 = r THEN d ELSE 0) /\ f[n + 1] \in Int
    BY <2>1, <2>2
  <2>7. s[n] \in Int
    BY <2>2, PrefixType
  <2> HIDE DEF s, t, T
  <2> QED
    BY <2>2, <2>3, <2>4, <2>5, <2>6, <2>7
<1>3. T = Nat
  <2> HIDE DEF T
  <2> QED
    BY <1>1, <1>2, SetInduction DEF T
<1> QED
  BY <1>3

\* Rewriting one entry of a table moves its total by that entry's change.
EntryMoved(f, g, N, r, d) ==
  \A i \in 1 .. N : f[i] \in Int /\ g[i] = f[i] + (IF i = r THEN d ELSE 0)

LEMMA TotalUpdate ==
  ASSUME NEW f, NEW g, NEW N \in Nat, NEW r \in 1 .. N, NEW d \in Int, EntryMoved(f, g, N, r, d)
  PROVE  Total(g, N) = Total(f, N) + d
<1>0. /\ \A i \in 1 .. N : f[i] \in Int
      /\ \A i \in 1 .. N : g[i] = f[i] + (IF i = r THEN d ELSE 0)
  BY DEF EntryMoved
<1>1. \A i \in 1 .. N : g[i] \in Int
  BY <1>0
<1>2. PrefixTotals(g, N)[N] = PrefixTotals(f, N)[N] + (IF N >= r THEN d ELSE 0)
  BY <1>0, <1>1, PrefixUpdate
<1> QED
  BY <1>2 DEF Total

\* Adding an entry adds it to the total.
LEMMA TotalExtend ==
  ASSUME NEW f, NEW g, NEW N \in Nat,
         \A i \in 1 .. N : f[i] \in Int /\ g[i] = f[i],
         g[N + 1] \in Int
  PROVE  Total(g, N + 1) = Total(f, N) + g[N + 1]
<1>1. \A i \in 1 .. N + 1 : g[i] \in Int
  OBVIOUS
<1>2. \A i \in 1 .. N : g[i] = f[i] + (IF i = N + 1 THEN 0 ELSE 0)
  OBVIOUS
<1>3. PrefixTotals(g, N + 1)[N] = PrefixTotals(f, N)[N] + (IF N >= N + 1 THEN 0 ELSE 0)
  BY <1>1, <1>2, PrefixUpdate
<1>4. PrefixTotals(f, N)[N] \in Int
  BY PrefixType
<1>5. PrefixTotals(g, N + 1)[N + 1] = PrefixTotals(g, N + 1)[N] + g[N + 1]
  BY <1>1, PrefixStep
<1> QED
  BY <1>3, <1>4, <1>5 DEF Total

\* A total of amounts is at least each of them, and is an amount.
LEMMA TotalCovers ==
  ASSUME NEW f, NEW N \in Nat, \A i \in 1 .. N : f[i] \in Nat
  PROVE  /\ Total(f, N) \in Nat
         /\ \A r \in 1 .. N : f[r] <= Total(f, N)
<1> DEFINE s == PrefixTotals(f, N)
           T == {n \in Nat : n <= N => /\ s[n] \in Nat
                                      /\ \A r \in 1 .. n : f[r] <= s[n]}
<1>1. 0 \in T
  BY PrefixStep
<1>2. ASSUME NEW n \in T PROVE n + 1 \in T
  <2>1. SUFFICES ASSUME n + 1 <= N
                 PROVE  /\ s[n + 1] \in Nat
                        /\ \A r \in 1 .. n + 1 : f[r] <= s[n + 1]
    OBVIOUS
  <2>2. n \in Nat /\ s[n] \in Nat /\ \A r \in 1 .. n : f[r] <= s[n]
    BY <2>1
  <2>3. s[n + 1] = s[n] + f[n + 1] /\ f[n + 1] \in Nat
    BY <2>1, <2>2, PrefixStep
  <2> HIDE DEF s, T
  <2>4. ASSUME NEW r \in 1 .. n + 1 PROVE f[r] <= s[n + 1]
    <3>1. CASE r = n + 1
      BY <2>2, <2>3, <3>1
    <3>2. CASE r \in 1 .. n
      BY <2>2, <2>3, <3>2, <2>1
    <3> QED
      BY <3>1, <3>2, <2>2
  <2> QED
    BY <2>2, <2>3, <2>4
<1>3. T = Nat
  <2> HIDE DEF T
  <2> QED
    BY <1>1, <1>2, SetInduction DEF T
<1> QED
  BY <1>3 DEF Total

\* A total grows with every entry.
LEMMA TotalMonotone ==
  ASSUME NEW f, NEW g, NEW N \in Nat,
         \A i \in 1 .. N : f[i] \in Int /\ g[i] \in Int /\ f[i] <= g[i]
  PROVE  Total(f, N) <= Total(g, N)
<1> DEFINE s == PrefixTotals(f, N)
           t == PrefixTotals(g, N)
           T == {n \in Nat : n <= N => s[n] <= t[n]}
<1>1. 0 \in T
  BY PrefixStep
<1>2. ASSUME NEW n \in T PROVE n + 1 \in T
  <2>1. SUFFICES ASSUME n + 1 <= N PROVE s[n + 1] <= t[n + 1]
    OBVIOUS
  <2>2. n \in Nat /\ n <= N /\ s[n] <= t[n] /\ n \in 0 .. N
    BY <2>1
  <2>3. s[n + 1] = s[n] + f[n + 1] /\ t[n + 1] = t[n] + g[n + 1]
    BY <2>1, <2>2, PrefixStep
  <2>4. s[n] \in Int /\ t[n] \in Int
    BY <2>2, PrefixType
  <2>5. f[n + 1] \in Int /\ g[n + 1] \in Int /\ f[n + 1] <= g[n + 1]
    BY <2>1, <2>2
  <2> HIDE DEF s, t, T
  <2> QED BY <2>2, <2>3, <2>4, <2>5
<1>3. T = Nat
  <2> HIDE DEF T
  <2> QED BY <1>1, <1>2, SetInduction DEF T
<1> QED BY <1>3 DEF Total

\* The total of the sums is the sum of the totals.
LEMMA TotalOfSums ==
  ASSUME NEW f, NEW g, NEW h, NEW N \in Nat,
         \A i \in 1 .. N : f[i] \in Int /\ g[i] \in Int /\ h[i] = f[i] + g[i]
  PROVE  Total(h, N) = Total(f, N) + Total(g, N)
<1> DEFINE s == PrefixTotals(f, N)
           t == PrefixTotals(g, N)
           u == PrefixTotals(h, N)
           T == {n \in Nat : n <= N => u[n] = s[n] + t[n]}
<1>0. \A i \in 1 .. N : h[i] \in Int
  OBVIOUS
<1>1. 0 \in T
  BY <1>0, PrefixStep
<1>2. ASSUME NEW n \in T PROVE n + 1 \in T
  <2>1. SUFFICES ASSUME n + 1 <= N PROVE u[n + 1] = s[n + 1] + t[n + 1]
    OBVIOUS
  <2>2. n \in Nat /\ n <= N /\ u[n] = s[n] + t[n] /\ n \in 0 .. N
    BY <2>1
  <2>3. s[n + 1] = s[n] + f[n + 1] /\ t[n + 1] = t[n] + g[n + 1]
    BY <2>1, <2>2, PrefixStep
  <2>4. u[n + 1] = u[n] + h[n + 1]
    BY <1>0, <2>1, <2>2, PrefixStep
  <2>5. s[n] \in Int /\ t[n] \in Int
    BY <2>2, PrefixType
  <2>6. f[n + 1] \in Int /\ g[n + 1] \in Int /\ h[n + 1] = f[n + 1] + g[n + 1]
    BY <2>1, <2>2
  <2> HIDE DEF s, t, u, T
  <2> QED BY <2>2, <2>3, <2>4, <2>5, <2>6
<1>3. T = Nat
  <2> HIDE DEF T
  <2> QED BY <1>1, <1>2, SetInduction DEF T
<1> QED BY <1>3 DEF Total

\* Tables with the same entries have the same total.
LEMMA TotalSame ==
  ASSUME NEW f, NEW g, NEW N \in Nat, \A i \in 1 .. N : f[i] \in Int /\ g[i] = f[i]
  PROVE  Total(g, N) = Total(f, N)
<1>1. Total(f, N) \in Int /\ Total(g, N) \in Int
  BY TotalType
<1>2. Total(f, N) <= Total(g, N)
  BY TotalMonotone
<1>3. Total(g, N) <= Total(f, N)
  BY TotalMonotone
<1> QED BY <1>1, <1>2, <1>3

\* A table that grows in one entry only, by at most d, grows by at most d.
LEMMA TotalGrowsAtOne ==
  ASSUME NEW f, NEW g, NEW N \in Nat, NEW r \in 1 .. N, NEW d \in Int,
         \A i \in 1 .. N : /\ f[i] \in Int /\ g[i] \in Int
                           /\ g[i] <= f[i] + (IF i = r THEN d ELSE 0)
  PROVE  Total(g, N) <= Total(f, N) + d
<1> DEFINE h == [i \in 1 .. N |-> f[i] + (IF i = r THEN d ELSE 0)]
<1>0. EntryMoved(f, h, N, r, d)
  BY DEF EntryMoved
<1>1. \A i \in 1 .. N : h[i] \in Int /\ g[i] <= h[i]
  OBVIOUS
<1> HIDE DEF h
<1>2. Total(h, N) = Total(f, N) + d
  BY <1>0, TotalUpdate
<1>3. Total(g, N) <= Total(h, N)
  BY <1>1, TotalMonotone
<1> QED BY <1>2, <1>3

\* Nothing amounts to nothing.
LEMMA TotalOfZeros ==
  ASSUME NEW f, NEW N \in Nat, \A i \in 1 .. N : f[i] = 0
  PROVE  Total(f, N) = 0
<1> DEFINE s == PrefixTotals(f, N)
           T == {n \in Nat : n <= N => s[n] = 0}
<1>1. 0 \in T /\ \A n \in T : n + 1 \in T
  BY PrefixStep
<1>2. T = Nat
  <2> HIDE DEF T
  <2> QED BY <1>1, SetInduction DEF T
<1> QED BY <1>2 DEF Total

\* What the classes of a partition amount to one by one is what everything amounts
\* to: the next entry adds as much to the total of its class as to the whole.
LEMMA TotalByClass ==
  ASSUME NEW f, NEW N \in Nat, NEW M \in Nat, NEW class \in [1 .. N -> 1 .. M],
         \A i \in 1 .. N : f[i] \in Int
  PROVE  Total([m \in 1 .. M |-> Total([i \in 1 .. N |-> IF class[i] = m THEN f[i] ELSE 0], N)], M)
           = Total(f, N)
<1> DEFINE part(m) == [i \in 1 .. N |-> IF class[i] = m THEN f[i] ELSE 0]
           by(n) == [m \in 1 .. M |-> PrefixTotals(part(m), N)[n]]
           s == PrefixTotals(f, N)
           T == {n \in Nat : n <= N => Total(by(n), M) = s[n]}
<1>1. ASSUME NEW m
      PROVE  /\ \A i \in 1 .. N : part(m)[i] \in Int
             /\ PrefixTotals(part(m), N)[0] = 0
             /\ \A n \in 0 .. N : PrefixTotals(part(m), N)[n] \in Int
             /\ \A n \in Nat : n + 1 <= N =>
                  PrefixTotals(part(m), N)[n + 1] = PrefixTotals(part(m), N)[n] + part(m)[n + 1]
  <2> DEFINE g == part(m)
  <2>1. \A i \in 1 .. N : g[i] \in Int
    OBVIOUS
  <2> HIDE DEF g
  <2>2. PrefixTotals(g, N)[0] = 0
    BY <2>1, PrefixStep
  <2>3. \A n \in 0 .. N : PrefixTotals(g, N)[n] \in Int
    BY <2>1, PrefixType
  <2>4. \A n \in Nat : n + 1 <= N => PrefixTotals(g, N)[n + 1] = PrefixTotals(g, N)[n] + g[n + 1]
    BY <2>1, PrefixStep
  <2> QED BY <2>1, <2>2, <2>3, <2>4 DEF g
<1>2. \A m \in 1 .. M : part(m) = [i \in 1 .. N |-> IF class[i] = m THEN f[i] ELSE 0]
  OBVIOUS
<1>3. \A m : /\ PrefixTotals(part(m), N)[0] = 0
             /\ \A n \in 0 .. N : PrefixTotals(part(m), N)[n] \in Int
             /\ \A n \in Nat : n + 1 <= N =>
                  PrefixTotals(part(m), N)[n + 1] = PrefixTotals(part(m), N)[n] + part(m)[n + 1]
  <2> HIDE DEF part
  <2> QED BY <1>1
<1> HIDE DEF part
<1>4. 0 \in T
  <2>1. \A m \in 1 .. M : by(0)[m] = 0
    BY <1>3
  <2>2. s[0] = 0
    BY PrefixStep
  <2> DEFINE none == [m \in 1 .. M |-> 0]
  <2>3. Total(none, M) = 0
    <3>1. \A i \in 1 .. M : none[i] = 0
      OBVIOUS
    <3> HIDE DEF none
    <3> QED BY <3>1, TotalOfZeros
  <2>4. \A m \in 1 .. M : none[m] \in Int /\ by(0)[m] = none[m]
    BY <2>1
  <2>5. Total(by(0), M) = Total(none, M)
    <3> HIDE DEF by, none
    <3> QED BY <2>4, TotalSame
  <2> QED BY <2>2, <2>3, <2>5
<1>5. ASSUME NEW n \in T PROVE n + 1 \in T
  <2>1. SUFFICES ASSUME n + 1 <= N PROVE Total(by(n + 1), M) = s[n + 1]
    OBVIOUS
  <2>2. n \in Nat /\ n <= N /\ Total(by(n), M) = s[n] /\ n \in 0 .. N /\ n + 1 \in 1 .. N
    BY <2>1
  <2>3. s[n + 1] = s[n] + f[n + 1]
    BY <2>1, <2>2, PrefixStep
  <2> DEFINE k == class[n + 1]
             d == f[n + 1]
  <2>4. k \in 1 .. M /\ d \in Int
    BY <2>2
  <2>5. \A m \in 1 .. M : by(n)[m] \in Int
    BY <1>3, <2>2
  <2>6. \A m \in 1 .. M : by(n + 1)[m] = by(n)[m] + (IF m = k THEN d ELSE 0)
    <3>1. SUFFICES ASSUME NEW m \in 1 .. M PROVE by(n + 1)[m] = by(n)[m] + (IF m = k THEN d ELSE 0)
      OBVIOUS
    <3>2. PrefixTotals(part(m), N)[n + 1] = PrefixTotals(part(m), N)[n] + part(m)[n + 1]
      <4> HIDE DEF by, s, T
      <4> QED BY <1>3, <2>1, <2>2
    <3>3. part(m)[n + 1] = IF m = k THEN d ELSE 0
      BY <1>2, <2>2
    <3> HIDE DEF k, d
    <3> QED BY <3>2, <3>3
  <2>7. Total(by(n + 1), M) = Total(by(n), M) + d
    <3> HIDE DEF by, k, d
    <3>1. EntryMoved(by(n), by(n + 1), M, k, d)
      BY <2>5, <2>6 DEF EntryMoved
    <3> QED BY <2>4, <3>1, TotalUpdate
  <2> QED BY <2>2, <2>3, <2>7
<1>6. T = Nat
  <2> HIDE DEF T
  <2> QED BY <1>4, <1>5, SetInduction DEF T
<1>7. Total(by(N), M) = s[N]
  <2>1. N \in T
    BY <1>6
  <2> HIDE DEF by, s
  <2> QED BY <2>1
<1> QED BY <1>7 DEF Total, part
=============================================================================
