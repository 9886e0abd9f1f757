----------------------------- MODULE NaturalOrder -----------------------------
(***************************************************************************)
(* The least element of a set of naturals, from the well-foundedness of <, *)
(* and sums over the ids of a table.                                       *)
(***************************************************************************)
EXTENDS Tables, WellFoundedInduction, NaturalsInduction, TLAPS

Below == {p \in Nat \X Nat : p[1] < p[2]}

\* Every non-empty set of naturals has a least element.
LEMMA LeastNatural ==
  ASSUME NEW T, T \subseteq Nat, T # {}
  PROVE  \E n \in T : \A k \in T : n <= k
<1>1. IsWellFoundedOn(Below, Nat)
  BY NatLessThanWellFounded, Zenon DEF OpToRel, Below
<1>2. PICK n \in T : \A k \in T : <<k, n>> \notin Below
  BY <1>1, WFMin
<1>3. \A k \in T : ~ (k < n)
  BY <1>2 DEF Below
<1> QED BY <1>3

\* A non-empty set of naturals with a bound has a greatest element.
LEMMA GreatestNatural ==
  ASSUME NEW m \in Nat, NEW T, T \subseteq 0..m, T # {}
  PROVE  \E n \in T : \A k \in T : k <= n
<1> DEFINE R == {m - k : k \in T}
<1>1. PICK r \in R : \A q \in R : r <= q
  <2>1. ASSUME NEW k \in T PROVE m - k \in Nat
    OBVIOUS
  <2>2. PICK k \in T : TRUE
    OBVIOUS
  <2>3. m - k \in R
    BY <2>2
  <2>4. R \subseteq Nat /\ R # {}
    BY <2>1, <2>3
  <2> HIDE DEF R
  <2> QED BY <2>4, LeastNatural
<1> QED BY <1>1

-----------------------------------------------------------------------------
(* Sums.  The induction principle is that a set of counterexamples has a    *)
(* least element.                                                          *)

\* The equation of the recursive function in SumTo has a solution.
LEMMA SumToSolvable ==
  ASSUME NEW m \in Nat, NEW f
  PROVE  \E g : g = [n \in 0..m |-> IF n = 0 THEN 0 ELSE g[n - 1] + f[n]]
<1> DEFINE Solves(g, k) == g = [n \in 0..k |-> IF n = 0 THEN 0 ELSE g[n - 1] + f[n]]
           T == {k \in 0..m : ~ \E g : Solves(g, k)}
<1>1. SUFFICES Solves(CHOOSE g : Solves(g, m), m)
  OBVIOUS
<1>2. SUFFICES ASSUME T # {} PROVE FALSE
  <2>1. m \notin T
    OBVIOUS
  <2> HIDE DEF Solves
  <2> QED BY <2>1
<1>3. PICK k \in T : \A j \in T : k <= j
  BY <1>2, LeastNatural, T \subseteq Nat
<1>4. k # 0
  <2>1. Solves([n \in 0..0 |-> 0], 0)
    OBVIOUS
  <2> QED BY <2>1, <1>3
<1>5. PICK h : Solves(h, k - 1)
  <2>1. k - 1 \in 0..m /\ ~ (k <= k - 1)
    BY <1>4, <1>3
  <2> QED BY <2>1, <1>3
<1>6. Solves([n \in 0..k |-> IF n = k THEN h[k - 1] + f[k] ELSE h[n]], k)
  BY <1>5, <1>4, <1>3
<1> HIDE DEF Solves
<1> QED BY <1>6, <1>3

\* A sum is the last of its partial sums.
LEMMA SumToPartial ==
  ASSUME NEW m \in Nat, NEW f
  PROVE  \E g : g = [n \in 0..m |-> IF n = 0 THEN 0 ELSE g[n - 1] + f[n]] /\ SumTo(f, m) = g[m]
<1> DEFINE Solves(g) == g = [n \in 0..m |-> IF n = 0 THEN 0 ELSE g[n - 1] + f[n]]
<1>1. \E g : Solves(g)
  BY SumToSolvable
<1>2. SumTo(f, m) = (CHOOSE g : Solves(g))[m]
  BY DEF SumTo
<1>3. \E g : Solves(g) /\ SumTo(f, m) = g[m]
  <2> HIDE DEF Solves
  <2> QED BY <1>1, <1>2
<1> QED BY <1>3

\* A sum of naturals is a natural.
LEMMA SumToType ==
  ASSUME NEW m \in Nat, NEW f \in [1..m -> Nat]
  PROVE  SumTo(f, m) \in Nat
<1>1. PICK g : /\ g = [n \in 0..m |-> IF n = 0 THEN 0 ELSE g[n - 1] + f[n]]
               /\ SumTo(f, m) = g[m]
  BY SumToPartial
<1> DEFINE T == {n \in 0..m : g[n] \notin Nat}
<1>2. SUFFICES ASSUME T # {} PROVE FALSE
  <2>1. T = {} => g[m] \in Nat
    OBVIOUS
  <2> QED BY <2>1, <1>1
<1>3. PICK n \in T : \A j \in T : n <= j
  BY <1>2, LeastNatural, T \subseteq Nat
<1>4. n # 0
  BY <1>1, <1>3
<1>5. g[n - 1] \in Nat
  <2>1. n - 1 \in 0..m /\ ~ (n <= n - 1)
    BY <1>3, <1>4
  <2>2. n - 1 \notin T
    BY <2>1, <1>3
  <2> QED BY <2>1, <2>2
<1>6. g[n] = g[n - 1] + f[n]
  BY <1>1, <1>3, <1>4
<1>7. f[n] \in Nat
  BY <1>3, <1>4
<1>8. g[n] \notin Nat
  BY <1>3
<1> QED BY <1>5, <1>6, <1>7, <1>8

\* A sum with one non-zero term is that term.
LEMMA SumToPoint ==
  ASSUME NEW m \in Nat, NEW f \in [1..m -> Nat], NEW j \in 1..m,
         \A i \in 1..m : i # j => f[i] = 0
  PROVE  SumTo(f, m) = f[j]
<1>1. PICK g : /\ g = [n \in 0..m |-> IF n = 0 THEN 0 ELSE g[n - 1] + f[n]]
               /\ SumTo(f, m) = g[m]
  BY SumToPartial
<1> DEFINE Expected(n) == IF n < j THEN 0 ELSE f[j]
           T == {n \in 0..m : g[n] # Expected(n)}
<1>2. SUFFICES ASSUME T # {} PROVE FALSE
  <2>1. T = {} => g[m] = Expected(m)
    OBVIOUS
  <2>2. Expected(m) = f[j]
    OBVIOUS
  <2> QED BY <2>1, <2>2, <1>1
<1>3. PICK n \in T : \A k \in T : n <= k
  BY <1>2, LeastNatural, T \subseteq Nat
<1>4. n # 0
  BY <1>1, <1>3
<1>5. g[n - 1] = Expected(n - 1)
  <2>1. n - 1 \in 0..m /\ ~ (n <= n - 1)
    BY <1>3, <1>4
  <2>2. n - 1 \notin T
    BY <2>1, <1>3
  <2> QED BY <2>1, <2>2
<1>6. g[n] = g[n - 1] + f[n]
  BY <1>1, <1>3, <1>4
<1>7. f[n] \in Nat /\ f[j] \in Nat /\ n \in 1..m
  BY <1>3, <1>4
<1>8. g[n] # Expected(n)
  BY <1>3
<1> HIDE DEF T
<1> QED BY <1>5, <1>6, <1>7, <1>8

\* A sum of zeros is zero.
LEMMA SumToZero ==
  ASSUME NEW m \in Nat \ {0}, NEW f \in [1..m -> Nat], \A i \in 1..m : f[i] = 0
  PROVE  SumTo(f, m) = 0
<1>1. 1 \in 1..m
  OBVIOUS
<1> QED BY <1>1, SumToPoint


\* A sum of integers is an integer.
LEMMA SumToInteger ==
  ASSUME NEW m \in Nat, NEW f \in [1..m -> Int]
  PROVE  SumTo(f, m) \in Int
<1>1. PICK g : /\ g = [n \in 0..m |-> IF n = 0 THEN 0 ELSE g[n - 1] + f[n]]
               /\ SumTo(f, m) = g[m]
  BY SumToPartial
<1> DEFINE T == {n \in 0..m : g[n] \notin Int}
<1>2. SUFFICES ASSUME T # {} PROVE FALSE
  <2>1. T = {} => g[m] \in Int
    OBVIOUS
  <2> QED BY <2>1, <1>1
<1>3. PICK n \in T : \A j \in T : n <= j
  BY <1>2, LeastNatural, T \subseteq Nat
<1>4. n # 0
  BY <1>1, <1>3
<1>5. g[n - 1] \in Int
  <2>1. n - 1 \in 0..m /\ ~ (n <= n - 1)
    BY <1>3, <1>4
  <2> QED BY <2>1, <1>3
<1>6. g[n] = g[n - 1] + f[n] /\ f[n] \in Int /\ g[n] \notin Int
  BY <1>1, <1>3, <1>4
<1> QED BY <1>5, <1>6

\* When one term changes, the sum changes by as much.
LEMMA SumToChange ==
  ASSUME NEW m \in Nat, NEW f \in [1..m -> Int], NEW h \in [1..m -> Int], NEW j \in 1..m,
         \A i \in 1..m : i # j => h[i] = f[i]
  PROVE  SumTo(h, m) = SumTo(f, m) + (h[j] - f[j])
<1>1. PICK a : /\ a = [n \in 0..m |-> IF n = 0 THEN 0 ELSE a[n - 1] + f[n]]
               /\ SumTo(f, m) = a[m]
  BY SumToPartial
<1>2. PICK b : /\ b = [n \in 0..m |-> IF n = 0 THEN 0 ELSE b[n - 1] + h[n]]
               /\ SumTo(h, m) = b[m]
  BY SumToPartial
<1> DEFINE Shift(n) == IF n < j THEN 0 ELSE h[j] - f[j]
           Good(n) == a[n] \in Int /\ b[n] = a[n] + Shift(n)
           T == {n \in 0..m : ~ Good(n)}
<1>3. SUFFICES ASSUME T # {} PROVE FALSE
  <2>1. T = {} => Good(m)
    OBVIOUS
  <2>2. Shift(m) = h[j] - f[j]
    OBVIOUS
  <2> QED BY <2>1, <2>2, <1>1, <1>2
<1>4. PICK n \in T : \A k \in T : n <= k
  BY <1>3, LeastNatural, T \subseteq Nat
<1>5. n # 0
  BY <1>1, <1>2, <1>4
<1>6. Good(n - 1)
  <2>1. n - 1 \in 0..m /\ ~ (n <= n - 1)
    BY <1>4, <1>5
  <2>2. n - 1 \notin T
    BY <2>1, <1>4
  <2> QED BY <2>1, <2>2
<1>7. a[n] = a[n - 1] + f[n] /\ b[n] = b[n - 1] + h[n]
  BY <1>1, <1>2, <1>4, <1>5
<1>8. f[n] \in Int /\ h[n] \in Int /\ n \in 1..m /\ (n # j => h[n] = f[n])
  BY <1>4, <1>5
<1>9. ~ Good(n)
  BY <1>4
<1> HIDE DEF T
<1> QED BY <1>6, <1>7, <1>8, <1>9

\* Equal terms add up to equal sums.
LEMMA SumToSame ==
  ASSUME NEW m \in Nat, NEW f \in [1..m -> Int], NEW h \in [1..m -> Int],
         \A i \in 1..m : h[i] = f[i]
  PROVE  SumTo(h, m) = SumTo(f, m)
<1>1. h = f
  OBVIOUS
<1> QED BY <1>1
=============================================================================
