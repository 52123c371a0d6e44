------------------------- MODULE LimitAllocation_proofs -------------------------
(***************************************************************************)
(* What calculateLimits computes, for every maximum current and every      *)
(* sequence of vehicles.                                                   *)
(*                                                                         *)
(* The loops of the algorithm are recursive functions on numbers of turns. *)
(* Induction over them is stated with sets instead of predicates: a set    *)
(* that has 0, and n + 1 with every n, has every natural number.           *)
(***************************************************************************)
EXTENDS LimitAllocation, FiniteSetTheorems, WellFoundedInduction, TLAPS

(***************************************************************************)
(* Induction and recursion                                                 *)
(***************************************************************************)

(* Every non-empty set of natural numbers has a least element.             *)
LEMMA LeastOfSet ==
  ASSUME NEW T \in SUBSET Nat, T # {}
  PROVE  \E m \in T : \A k \in T : m <= k
<1> DEFINE U == {0 .. n - 1 : n \in T}
<1>1. U \subseteq FiniteSubsetsOf(Nat)
  <2>1. \A n \in T : IsFiniteSet(0 .. n - 1) /\ (0 .. n - 1) \subseteq Nat
    BY FS_Interval
  <2> QED
    BY <2>1 DEF FiniteSubsetsOf
<1>2. U # {}
  OBVIOUS
<1>3. PICK x \in U : \A y \in U : <<y, x>> \notin StrictSubsetOrdering(Nat)
  <2> HIDE DEF U
  <2> QED
    BY <1>1, <1>2, WFMin, FS_StrictSubsetOrderingWellFounded
<1>4. PICK m \in T : x = 0 .. m - 1
  BY <1>3
<1>5. ASSUME NEW k \in T, k < m PROVE FALSE
  <2>1. (0 .. k - 1) \in U /\ (0 .. k - 1) \subseteq 0 .. m - 1
    BY <1>5
  <2>2. k \in 0 .. m - 1 /\ k \notin 0 .. k - 1
    BY <1>5
  <2>3. <<0 .. k - 1, 0 .. m - 1>> \in StrictSubsetOrdering(Nat)
    BY <2>1, <2>2 DEF StrictSubsetOrdering
  <2> QED
    BY <2>1, <2>3, <1>3, <1>4
<1> QED
  BY <1>4, <1>5

(* A set that has 0, and n + 1 with every n, has every number.             *)
LEMMA SetInduction ==
  ASSUME NEW T, 0 \in T, \A n \in Nat : n \in T => n + 1 \in T
  PROVE  Nat \subseteq T
<1> SUFFICES ASSUME Nat \ T # {} PROVE FALSE
  OBVIOUS
<1>1. PICK m \in Nat \ T : \A k \in Nat \ T : m <= k
  BY LeastOfSet
<1>2. m - 1 \in Nat /\ m - 1 \in T
  BY <1>1
<1> QED
  BY <1>1, <1>2

(* Induction up to a bound.                                                *)
LEMMA BoundedInduction ==
  ASSUME NEW N \in Nat, NEW T, 0 \in T, \A n \in 0 .. N - 1 : n \in T => n + 1 \in T
  PROVE  \A n \in 0 .. N : n \in T
<1> DEFINE U == {n \in Nat : n <= N => n \in T}
<1>1. 0 \in U
  OBVIOUS
<1>2. \A n \in Nat : n \in U => n + 1 \in U
  OBVIOUS
<1>3. Nat \subseteq U
  <2> HIDE DEF U
  <2> QED
    BY <1>1, <1>2, SetInduction
<1> QED
  BY <1>3

(* g runs from d0 through N steps.                                         *)
Runs(g, N, D, d0, step) ==
  /\ g \in [0 .. N -> D]
  /\ g[0] = d0
  /\ \A k \in 1 .. N : g[k] = step[k][g[k - 1]]

(* Steps that stay in D have a run.                                        *)
LEMMA Recursion ==
  ASSUME NEW N \in Nat, NEW D, NEW d0 \in D, NEW step \in [Nat -> [D -> D]]
  PROVE  \E g : Runs(g, N, D, d0, step)
<1> DEFINE Solves(g, n) == Runs(g, n, D, d0, step)
           T == {n \in Nat : \E g : Solves(g, n)}
<1>1. 0 \in T
  <2>1. Solves([k \in 0 .. 0 |-> d0], 0)
    BY DEF Runs
  <2> QED
    BY <2>1
<1>2. ASSUME NEW n \in Nat, n \in T PROVE n + 1 \in T
  <2>1. PICK g : Solves(g, n)
    BY <1>2
  <2> DEFINE h == [k \in 0 .. n + 1 |-> IF k <= n THEN g[k] ELSE step[n + 1][g[n]]]
  <2>2. g[n] \in D
    BY <2>1 DEF Runs
  <2>3. step[n + 1][g[n]] \in D
    BY <2>2
  <2>4. h \in [0 .. n + 1 -> D]
    <3>1. \A k \in 0 .. n + 1 : (IF k <= n THEN g[k] ELSE step[n + 1][g[n]]) \in D
      BY <2>1, <2>3 DEF Runs
    <3> QED
      BY <3>1
  <2>5. h[0] = d0
    BY <2>1 DEF Runs
  <2>6. ASSUME NEW k \in 1 .. n + 1 PROVE h[k] = step[k][h[k - 1]]
    <3>1. CASE k <= n
      BY <2>1, <3>1 DEF Runs
    <3>2. CASE k = n + 1
      BY <3>2
    <3> QED
      BY <3>1, <3>2
  <2>7. Solves(h, n + 1)
    <3> HIDE DEF h
    <3> QED
      BY <2>4, <2>5, <2>6 DEF Runs
  <2>8. \E f : Solves(f, n + 1)
    BY <2>7
  <2> QED
    BY <2>8
<1>3. Nat \subseteq T
  <2> HIDE DEF T
  <2> QED
    BY <1>1, <1>2, SetInduction
<1>4. N \in T
  BY <1>3
<1> QED
  BY <1>4

(***************************************************************************)
(* Sums                                                                    *)
(***************************************************************************)

(* The partial sums of a sequence.                                         *)
PartialSums(f) ==
  CHOOSE upTo : upTo = [n \in 0 .. Len(f) |-> IF n = 0 THEN 0 ELSE upTo[n - 1] + f[n]]

(* The recursive definition of the partial sums has a solution.            *)
LEMMA SumsExist ==
  ASSUME NEW f, NEW N \in Nat, \A n \in 1 .. N : f[n] \in Int
  PROVE  \E g \in [0 .. N -> Int] :
            g = [n \in 0 .. N |-> IF n = 0 THEN 0 ELSE g[n - 1] + f[n]]
<1> DEFINE step == [n \in Nat |-> [x \in Int |-> IF n \in 1 .. N THEN x + f[n] ELSE 0]]
<1>1. step \in [Nat -> [Int -> Int]]
  <2>1. \A n \in Nat : [x \in Int |-> IF n \in 1 .. N THEN x + f[n] ELSE 0] \in [Int -> Int]
    OBVIOUS
  <2> QED
    BY <2>1
<1>2. \A n \in 1 .. N : \A x \in Int : step[n][x] = x + f[n]
  OBVIOUS
<1>3. 0 \in Int
  OBVIOUS
<1> HIDE DEF step
<1>4. PICK g : Runs(g, N, Int, 0, step)
  <2>1. PICK D : D = Int
    OBVIOUS
  <2>2. step \in [Nat -> [D -> D]] /\ 0 \in D
    BY <1>1, <1>3, <2>1
  <2> QED
    BY <2>1, <2>2, Recursion
<1>5. ASSUME NEW n \in 0 .. N PROVE g[n] = IF n = 0 THEN 0 ELSE g[n - 1] + f[n]
  <2>1. CASE n = 0
    BY <1>4, <2>1 DEF Runs
  <2>2. CASE n # 0
    <3>1. n \in 1 .. N /\ n - 1 \in 0 .. N
      BY <2>2
    <3>2. g[n - 1] \in Int
      BY <1>4, <3>1 DEF Runs
    <3>3. g[n] = g[n - 1] + f[n]
      BY <1>2, <1>4, <3>1, <3>2 DEF Runs
    <3> QED
      BY <2>2, <3>3
  <2> QED
    BY <2>1, <2>2
<1>6. g \in [0 .. N -> Int] /\ g = [n \in 0 .. N |-> g[n]]
  BY <1>4 DEF Runs
<1>7. [n \in 0 .. N |-> g[n]] = [n \in 0 .. N |-> IF n = 0 THEN 0 ELSE g[n - 1] + f[n]]
  BY <1>5, Zenon
<1> QED
  BY <1>6, <1>7, Zenon

(* Total ends the partial sums, and these satisfy their definition.        *)
LEMMA TotalDef ==
  ASSUME NEW f \in Seq(Int)
  PROVE  /\ PartialSums(f) \in [0 .. Len(f) -> Int]
         /\ PartialSums(f)[0] = 0
         /\ \A n \in 1 .. Len(f) : PartialSums(f)[n] = PartialSums(f)[n - 1] + f[n]
         /\ Total(f) = PartialSums(f)[Len(f)]
<1> DEFINE Sums(g) == g = [n \in 0 .. Len(f) |-> IF n = 0 THEN 0 ELSE g[n - 1] + f[n]]
<1>1. Len(f) \in Nat /\ \A n \in 1 .. Len(f) : f[n] \in Int
  OBVIOUS
<1>2. \E g : Sums(g)
  BY <1>1, SumsExist
<1>3. Sums(PartialSums(f))
  <2>1. PartialSums(f) = CHOOSE h : Sums(h)
    BY DEF PartialSums
  <2> HIDE DEF Sums
  <2> QED
    BY <1>2, <2>1
<1>4. Total(f) = PartialSums(f)[Len(f)]
  BY DEF Total, PartialSums
<1>5. PICK P : P = PartialSums(f)
  OBVIOUS
<1>6. Sums(P)
  BY <1>3, <1>5
<1>7. DOMAIN P = 0 .. Len(f)
  BY <1>6
<1>8. P[0] = 0
  <2>1. 0 \in 0 .. Len(f)
    BY <1>1
  <2> QED
    BY <1>6, <2>1
<1>9. \A n \in 1 .. Len(f) : P[n] = P[n - 1] + f[n]
  BY <1>6
<1>10. \A n \in 0 .. Len(f) : P[n] \in Int
  <2> DEFINE T == {k \in 0 .. Len(f) : P[k] \in Int}
  <2>1. 0 \in T
    BY <1>1, <1>8
  <2>2. \A n \in 0 .. Len(f) - 1 : n \in T => n + 1 \in T
    <3> SUFFICES ASSUME NEW n \in 0 .. Len(f) - 1, P[n] \in Int PROVE P[n + 1] \in Int
      BY <1>1
    <3>1. n + 1 \in 1 .. Len(f) /\ (n + 1) - 1 = n
      BY <1>1
    <3>2. P[n + 1] = P[n] + f[n + 1] /\ f[n + 1] \in Int
      BY <1>1, <1>9, <3>1
    <3> QED
      BY <3>2
  <2>3. \A n \in 0 .. Len(f) : n \in T
    <3> HIDE DEF T
    <3> QED
      BY <1>1, <2>1, <2>2, BoundedInduction
  <2> QED
    BY <2>3
<1>11. P \in [0 .. Len(f) -> Int]
  <2>1. P = [n \in 0 .. Len(f) |-> P[n]]
    BY <1>6, <1>7
  <2> HIDE DEF Sums
  <2> QED
    BY <1>10, <2>1
<1> HIDE DEF Sums
<1> QED
  BY <1>4, <1>5, <1>8, <1>9, <1>11

(* The same for a vector of N terms, in the form the inductions use.       *)
LEMMA VectorSums ==
  ASSUME NEW N \in Nat, NEW f \in [1 .. N -> Int]
  PROVE  /\ Total(f) \in Int
         /\ \E p \in [0 .. N -> Int] :
              /\ p[0] = 0 /\ p[N] = Total(f)
              /\ \A n \in 0 .. N - 1 : p[n + 1] = p[n] + f[n + 1]
<1>1. f \in Seq(Int) /\ Len(f) = N
  OBVIOUS
<1>2. PICK p : p = PartialSums(f)
  OBVIOUS
<1>3. /\ p \in [0 .. N -> Int] /\ p[0] = 0 /\ Total(f) = p[N]
      /\ \A n \in 1 .. N : p[n] = p[n - 1] + f[n]
  BY <1>1, <1>2, TotalDef
<1>4. \A n \in 0 .. N - 1 : p[n + 1] = p[n] + f[n + 1]
  <2> SUFFICES ASSUME NEW n \in 0 .. N - 1 PROVE p[n + 1] = p[n] + f[n + 1]
    OBVIOUS
  <2>1. n + 1 \in 1 .. N /\ (n + 1) - 1 = n
    OBVIOUS
  <2> QED
    BY <1>3, <2>1
<1>5. Total(f) \in Int
  <2>1. N \in 0 .. N
    OBVIOUS
  <2> QED
    BY <1>3, <2>1
<1> QED
  BY <1>3, <1>4, <1>5

(* Sums are linear.                                                        *)
LEMMA SumLinear ==
  ASSUME NEW N \in Nat, NEW f \in [1 .. N -> Int], NEW g \in [1 .. N -> Int],
         NEW h \in [1 .. N -> Int], NEW a \in Int, NEW b \in Int,
         \A n \in 1 .. N : h[n] = a * f[n] + b * g[n]
  PROVE  Total(h) = a * Total(f) + b * Total(g)
<1>1. PICK p \in [0 .. N -> Int] : /\ p[0] = 0 /\ p[N] = Total(f)
                                   /\ \A n \in 0 .. N - 1 : p[n + 1] = p[n] + f[n + 1]
  BY VectorSums
<1>2. PICK q \in [0 .. N -> Int] : /\ q[0] = 0 /\ q[N] = Total(g)
                                   /\ \A n \in 0 .. N - 1 : q[n + 1] = q[n] + g[n + 1]
  BY VectorSums
<1>3. PICK r \in [0 .. N -> Int] : /\ r[0] = 0 /\ r[N] = Total(h)
                                   /\ \A n \in 0 .. N - 1 : r[n + 1] = r[n] + h[n + 1]
  BY VectorSums
<1> DEFINE T == {n \in 0 .. N : r[n] = a * p[n] + b * q[n]}
<1>4. 0 \in T
  BY <1>1, <1>2, <1>3
<1>5. ASSUME NEW n \in 0 .. N - 1, n \in T PROVE n + 1 \in T
  <2>1. n \in 0 .. N /\ n + 1 \in 1 .. N /\ n + 1 \in 0 .. N
    OBVIOUS
  <2>2. p[n] \in Int /\ q[n] \in Int /\ f[n + 1] \in Int /\ g[n + 1] \in Int
    BY <2>1
  <2>3. h[n + 1] = a * f[n + 1] + b * g[n + 1]
    BY <2>1
  <2>4. r[n] = a * p[n] + b * q[n]
    BY <1>5
  <2>5. r[n + 1] = (a * p[n] + b * q[n]) + (a * f[n + 1] + b * g[n + 1])
    BY <1>3, <2>3, <2>4
  <2>6. a * p[n + 1] = a * p[n] + a * f[n + 1]
    <3>1. \A x, y, z \in Int : x * (y + z) = x * y + x * z
      OBVIOUS
    <3> QED
      BY <1>1, <2>2, <3>1
  <2>7. b * q[n + 1] = b * q[n] + b * g[n + 1]
    <3>1. \A x, y, z \in Int : x * (y + z) = x * y + x * z
      OBVIOUS
    <3> QED
      BY <1>2, <2>2, <3>1
  <2>8. /\ a * p[n] \in Int /\ b * q[n] \in Int
        /\ a * f[n + 1] \in Int /\ b * g[n + 1] \in Int
    <3>1. \A x, y \in Int : x * y \in Int
      OBVIOUS
    <3> QED
      BY <2>2, <3>1
  <2>9. r[n + 1] = a * p[n + 1] + b * q[n + 1]
    <3>1. \A u, v, x, y \in Int : (u + v) + (x + y) = (u + x) + (v + y)
      OBVIOUS
    <3>2. r[n + 1] = (a * p[n] + a * f[n + 1]) + (b * q[n] + b * g[n + 1])
      <4>1. PICK u, v, x, y \in Int : /\ u = a * p[n] /\ v = b * q[n]
                                     /\ x = a * f[n + 1] /\ y = b * g[n + 1]
        BY <2>8
      <4> QED
        BY <2>5, <3>1, <4>1
    <3> QED
      BY <2>6, <2>7, <3>2
  <2> QED
    BY <2>1, <2>9
<1>6. \A n \in 0 .. N : n \in T
  <2> HIDE DEF T
  <2> QED
    BY <1>4, <1>5, BoundedInduction
<1>7. N \in T
  BY <1>6
<1> QED
  BY <1>1, <1>2, <1>3, <1>7

(* Sums are monotone.                                                      *)
LEMMA SumLe ==
  ASSUME NEW N \in Nat, NEW f \in [1 .. N -> Int], NEW g \in [1 .. N -> Int],
         \A n \in 1 .. N : f[n] <= g[n]
  PROVE  Total(f) <= Total(g)
<1>1. PICK p \in [0 .. N -> Int] : /\ p[0] = 0 /\ p[N] = Total(f)
                                   /\ \A n \in 0 .. N - 1 : p[n + 1] = p[n] + f[n + 1]
  BY VectorSums
<1>2. PICK q \in [0 .. N -> Int] : /\ q[0] = 0 /\ q[N] = Total(g)
                                   /\ \A n \in 0 .. N - 1 : q[n + 1] = q[n] + g[n + 1]
  BY VectorSums
<1> DEFINE T == {n \in 0 .. N : p[n] <= q[n]}
<1>3. 0 \in T
  BY <1>1, <1>2
<1>4. ASSUME NEW n \in 0 .. N - 1, n \in T PROVE n + 1 \in T
  <2>1. n \in 0 .. N /\ n + 1 \in 1 .. N /\ n + 1 \in 0 .. N
    OBVIOUS
  <2>2. /\ p[n] \in Int /\ q[n] \in Int /\ f[n + 1] \in Int /\ g[n + 1] \in Int
        /\ f[n + 1] <= g[n + 1]
    BY <2>1
  <2>3. p[n] <= q[n]
    BY <1>4
  <2>4. p[n + 1] <= q[n + 1]
    BY <1>1, <1>2, <2>2, <2>3
  <2> QED
    BY <2>1, <2>4
<1>5. \A n \in 0 .. N : n \in T
  <2> HIDE DEF T
  <2> QED
    BY <1>3, <1>4, BoundedInduction
<1>6. N \in T
  BY <1>5
<1> QED
  BY <1>1, <1>2, <1>6

(* A sum changes by what one of its terms changes by.                      *)
LEMMA SumUpdate ==
  ASSUME NEW N \in Nat, NEW f \in [1 .. N -> Int], NEW g \in [1 .. N -> Int],
         NEW i \in 1 .. N, \A n \in 1 .. N \ {i} : g[n] = f[n]
  PROVE  Total(g) = Total(f) + (g[i] - f[i])
<1>1. PICK p \in [0 .. N -> Int] : /\ p[0] = 0 /\ p[N] = Total(f)
                                   /\ \A n \in 0 .. N - 1 : p[n + 1] = p[n] + f[n + 1]
  BY VectorSums
<1>2. PICK q \in [0 .. N -> Int] : /\ q[0] = 0 /\ q[N] = Total(g)
                                   /\ \A n \in 0 .. N - 1 : q[n + 1] = q[n] + g[n + 1]
  BY VectorSums
<1> DEFINE T == {n \in 0 .. N : q[n] = p[n] + (IF n < i THEN 0 ELSE g[i] - f[i])}
<1>3. 0 \in T
  BY <1>1, <1>2
<1>4. ASSUME NEW n \in 0 .. N - 1, n \in T PROVE n + 1 \in T
  <2>1. n \in 0 .. N /\ n + 1 \in 1 .. N /\ n + 1 \in 0 .. N
    OBVIOUS
  <2>2. /\ p[n] \in Int /\ q[n] \in Int /\ f[n + 1] \in Int /\ g[n + 1] \in Int
        /\ f[i] \in Int /\ g[i] \in Int
    BY <2>1
  <2>3. q[n] = p[n] + (IF n < i THEN 0 ELSE g[i] - f[i])
    BY <1>4
  <2>4. p[n + 1] = p[n] + f[n + 1] /\ q[n + 1] = q[n] + g[n + 1]
    BY <1>1, <1>2
  <2>5. CASE n + 1 = i
    <3>1. g[n + 1] = g[i] /\ f[n + 1] = f[i]
      BY <2>5, Zenon
    <3>4. n < i /\ ~(n + 1 < i)
      BY <2>5
    <3>2. q[n + 1] = p[n + 1] + (g[i] - f[i])
      BY <2>2, <2>3, <2>4, <3>1, <3>4
    <3>3. q[n + 1] = p[n + 1] + (IF n + 1 < i THEN 0 ELSE g[i] - f[i])
      BY <3>2, <3>4
    <3> QED
      BY <2>1, <3>3
  <2>6. CASE n + 1 # i
    <3>1. g[n + 1] = f[n + 1]
      BY <2>1, <2>6
    <3> QED
      BY <2>1, <2>2, <2>3, <2>4, <2>6, <3>1
  <2> QED
    BY <2>5, <2>6
<1>5. \A n \in 0 .. N : n \in T
  <2> HIDE DEF T
  <2> QED
    BY <1>3, <1>4, BoundedInduction
<1>6. N \in T
  BY <1>5
<1> QED
  BY <1>1, <1>2, <1>6

(* A sum over a set of rows that all count c.                              *)
LEMMA SumConst ==
  ASSUME NEW N \in Nat, NEW S \in SUBSET (1 .. N), NEW c \in Int
  PROVE  Total([n \in 1 .. N |-> IF n \in S THEN c ELSE 0]) = c * Cardinality(S)
<1> DEFINE f == [n \in 1 .. N |-> IF n \in S THEN c ELSE 0]
           upTo(n) == S \cap (1 .. n)
<1>1. f \in [1 .. N -> Int]
  OBVIOUS
<1>2. PICK p \in [0 .. N -> Int] : /\ p[0] = 0 /\ p[N] = Total(f)
                                   /\ \A n \in 0 .. N - 1 : p[n + 1] = p[n] + f[n + 1]
  <2> HIDE DEF f
  <2> QED
    BY <1>1, VectorSums
<1>3. \A n \in Nat : IsFiniteSet(upTo(n)) /\ Cardinality(upTo(n)) \in Nat
  <2> SUFFICES ASSUME NEW n \in Nat
               PROVE  IsFiniteSet(upTo(n)) /\ Cardinality(upTo(n)) \in Nat
    OBVIOUS
  <2>1. IsFiniteSet(1 .. n)
    BY FS_Interval
  <2>2. IsFiniteSet(upTo(n))
    BY <2>1, FS_Intersection
  <2> QED
    BY <2>2, FS_CardinalityType
<1> DEFINE T == {n \in 0 .. N : p[n] = c * Cardinality(upTo(n))}
<1>4. 0 \in T
  <2>1. upTo(0) = {}
    OBVIOUS
  <2>2. Cardinality(upTo(0)) = 0
    BY <2>1, FS_EmptySet
  <2> HIDE DEF upTo
  <2> QED
    BY <1>2, <2>2
<1>5. ASSUME NEW n \in 0 .. N - 1, n \in T PROVE n + 1 \in T
  <2>1. n \in Nat /\ n + 1 \in 1 .. N /\ n + 1 \in 0 .. N
    OBVIOUS
  <2>2. p[n] = c * Cardinality(upTo(n)) /\ p[n + 1] = p[n] + f[n + 1] /\ p[n] \in Int
    BY <1>2, <1>5
  <2>3. CASE n + 1 \in S
    <3>1. upTo(n + 1) = upTo(n) \union {n + 1} /\ n + 1 \notin upTo(n)
      BY <2>3
    <3>2. Cardinality(upTo(n + 1)) = Cardinality(upTo(n)) + 1
      <4> HIDE DEF upTo
      <4> QED
        BY <1>3, <2>1, <3>1, FS_AddElement
    <3>3. f[n + 1] = c
      BY <2>1, <2>3
    <3>4. p[n + 1] = c * (Cardinality(upTo(n)) + 1)
      <4>1. \A x \in Nat : c * x + c = c * (x + 1)
        OBVIOUS
      <4> HIDE DEF upTo, f
      <4> QED
        BY <1>3, <2>1, <2>2, <3>3, <4>1
    <3> QED
      BY <2>1, <3>2, <3>4
  <2>4. CASE n + 1 \notin S
    <3>1. upTo(n + 1) = upTo(n)
      BY <2>4
    <3>2. f[n + 1] = 0
      BY <2>1, <2>4
    <3>3. p[n + 1] = c * Cardinality(upTo(n + 1))
      <4> HIDE DEF upTo, f
      <4> QED
        BY <2>2, <3>1, <3>2
    <3> QED
      BY <2>1, <3>3
  <2> QED
    BY <2>3, <2>4
<1>6. \A n \in 0 .. N : n \in T
  <2> HIDE DEF T
  <2> QED
    BY <1>4, <1>5, BoundedInduction
<1>7. N \in T
  BY <1>6
<1>8. upTo(N) = S
  OBVIOUS
<1> QED
  <2> HIDE DEF upTo
  <2> QED
    BY <1>2, <1>7, <1>8

(* A sum of multiples is the multiple of the sum.                          *)
LEMMA SumScale ==
  ASSUME NEW N \in Nat, NEW f \in [1 .. N -> Int], NEW h \in [1 .. N -> Int], NEW a \in Int,
         \A n \in 1 .. N : h[n] = a * f[n]
  PROVE  Total(h) = a * Total(f)
<1>1. ASSUME NEW n \in 1 .. N PROVE h[n] = a * f[n] + 0 * f[n]
  <2>1. PICK x \in Int : x = f[n]
    OBVIOUS
  <2>2. h[n] = a * x
    BY <2>1
  <2>3. a * x = a * x + 0 * x
    OBVIOUS
  <2> QED
    BY <2>1, <2>2, <2>3
<1>2. PICK b \in Int : b = 0
  OBVIOUS
<1>3. \A n \in 1 .. N : h[n] = a * f[n] + b * f[n]
  BY <1>1, <1>2
<1>4. Total(h) = a * Total(f) + b * Total(f)
  BY <1>3, SumLinear
<1>5. PICK x \in Int : x = Total(f)
  BY VectorSums
<1> QED
  BY <1>2, <1>4, <1>5

(* A sum of sums is the sum of both.                                       *)
LEMMA SumAdd ==
  ASSUME NEW N \in Nat, NEW f \in [1 .. N -> Int], NEW g \in [1 .. N -> Int],
         NEW h \in [1 .. N -> Int], \A n \in 1 .. N : h[n] = f[n] + g[n]
  PROVE  Total(h) = Total(f) + Total(g)
<1>1. PICK a \in Int : a = 1
  OBVIOUS
<1>2. \A x \in Int : a * x = x
  BY <1>1
<1>3. \A n \in 1 .. N : h[n] = a * f[n] + a * g[n]
  BY <1>2
<1>4. Total(h) = a * Total(f) + a * Total(g)
  BY <1>3, SumLinear
<1>5. Total(f) \in Int /\ Total(g) \in Int
  BY VectorSums
<1> QED
  BY <1>2, <1>4, <1>5

(* When each row of O has its weighted part of r, up to c short, all of    *)
(* them have r, up to c for each of them.                                  *)
LEMMA SumOfParts ==
  ASSUME NEW N \in Nat, NEW O \in SUBSET (1 .. N), NEW r \in Int, NEW W \in Nat \ {0},
         NEW w \in [1 .. N -> Int], NEW s \in [1 .. N -> Int], NEW c \in Nat,
         Cardinality(O) \in Nat, Total(w) = W,
         \A i \in O : W * s[i] <= r * w[i] /\ r * w[i] <= W * s[i] + c * W,
         \A i \in 1 .. N \ O : w[i] = 0 /\ s[i] = 0
  PROVE  Total(s) <= r /\ r <= Total(s) + c * Cardinality(O)
<1>1. PICK ones : ones = [n \in 1 .. N |-> IF n \in O THEN c * W ELSE 0]
  OBVIOUS
<1>2. PICK low : low = [n \in 1 .. N |-> W * s[n]]
  OBVIOUS
<1>3. PICK mid : mid = [n \in 1 .. N |-> r * w[n]]
  OBVIOUS
<1>4. PICK high : high = [n \in 1 .. N |-> low[n] + ones[n]]
  OBVIOUS
<1>5. \A x, y \in Int : x * y \in Int /\ x + y \in Int
  OBVIOUS
<1>6. c * W \in Int /\ W \in Int /\ c \in Int
  OBVIOUS
<1>7. ones \in [1 .. N -> Int] /\ low \in [1 .. N -> Int] /\ mid \in [1 .. N -> Int]
  <2>1. ones \in [1 .. N -> Int]
    BY <1>1, <1>6
  <2>2. low \in [1 .. N -> Int]
    BY <1>2, <1>5, <1>6
  <2>3. mid \in [1 .. N -> Int]
    BY <1>3, <1>5
  <2> QED
    BY <2>1, <2>2, <2>3
<1>8. high \in [1 .. N -> Int] /\ \A n \in 1 .. N : high[n] = low[n] + ones[n]
  BY <1>4, <1>5, <1>7
<1>9. ASSUME NEW i \in 1 .. N PROVE low[i] <= mid[i] /\ mid[i] <= high[i]
  <2>1. low[i] = W * s[i] /\ mid[i] = r * w[i] /\ high[i] = low[i] + ones[i]
    BY <1>2, <1>3, <1>8
  <2>2. CASE i \in O
    <3>1. ones[i] = c * W
      BY <1>1, <2>2
    <3> QED
      BY <2>1, <2>2, <3>1
  <2>3. CASE i \notin O
    <3>1. ones[i] = 0 /\ w[i] = 0 /\ s[i] = 0
      BY <1>1, <2>3
    <3> QED
      BY <2>1, <3>1
  <2> QED
    BY <2>2, <2>3
<1>10. Total(ones) = (c * W) * Cardinality(O)
  <2>1. Total([n \in 1 .. N |-> IF n \in O THEN c * W ELSE 0]) = (c * W) * Cardinality(O)
    BY <1>6, SumConst
  <2> QED
    BY <1>1, <2>1
<1>11. Total(low) = W * Total(s)
  <2>1. \A n \in 1 .. N : low[n] = W * s[n]
    BY <1>2
  <2> QED
    BY <1>6, <1>7, <2>1, SumScale
<1>12. Total(mid) = r * W
  BY <1>3, <1>7, SumScale
<1>13. Total(high) = Total(low) + Total(ones)
  BY <1>7, <1>8, SumAdd
<1>14. Total(low) <= Total(mid)
  BY <1>7, <1>9, SumLe
<1>15. Total(mid) <= Total(high)
  BY <1>7, <1>8, <1>9, SumLe
<1>16. PICK S \in Int, k \in Nat : S = Total(s) /\ k = Cardinality(O)
  BY VectorSums
<1>17. W * S <= r * W /\ r * W <= W * S + (c * W) * k
  BY <1>10, <1>11, <1>12, <1>13, <1>14, <1>15, <1>16
<1>18. S <= r
  <2> SUFFICES ASSUME r + 1 <= S PROVE FALSE
    OBVIOUS
  <2>1. W * (r + 1) <= W * S
    OBVIOUS
  <2>2. W * (r + 1) = r * W + W
    OBVIOUS
  <2>3. r * W \in Int /\ W * S \in Int
    OBVIOUS
  <2> QED
    BY <1>17, <2>1, <2>2, <2>3
<1>19. r <= S + c * k
  <2>1. PICK x \in Int : x = S + c * k
    OBVIOUS
  <2>2. W * x = W * S + (c * W) * k
    BY <2>1
  <2>3. r * W <= x * W
    BY <1>17, <2>2
  <2> QED
    BY <2>1, <2>3
<1> QED
  BY <1>16, <1>18, <1>19

(***************************************************************************)
(* Rows and their order                                                    *)
(***************************************************************************)

Vehicle == [weight : Nat \ {0}, start : Nat, cons : Nat,
            last : Nat \union {NoLimit}, grace : BOOLEAN]

(* A block with at least one session, as executeCalculation hands it over.  *)
IsBlock(maxA, evs) == maxA \in Nat /\ evs \in Seq(Vehicle) /\ evs # <<>>

(* The rows of a block and the types of their fields.                      *)
LEMMA BlockRows ==
  ASSUME NEW maxA, NEW evs, IsBlock(maxA, evs)
  PROVE  /\ DOMAIN evs = 1 .. Len(evs) /\ Len(evs) \in Nat \ {0}
         /\ IsFiniteSet(DOMAIN evs) /\ Cardinality(DOMAIN evs) = Len(evs)
         /\ \A i \in DOMAIN evs :
              /\ evs[i].weight \in Nat \ {0} /\ evs[i].start \in Nat /\ evs[i].cons \in Nat
              /\ evs[i].last \in Nat \union {NoLimit} /\ evs[i].grace \in BOOLEAN
<1>1. evs \in Seq(Vehicle) /\ evs # <<>>
  BY DEF IsBlock
<1>2. DOMAIN evs = 1 .. Len(evs) /\ Len(evs) \in Nat \ {0} /\ \A i \in DOMAIN evs : evs[i] \in Vehicle
  BY <1>1
<1>3. \A v \in Vehicle : /\ v.weight \in Nat \ {0} /\ v.start \in Nat /\ v.cons \in Nat
                         /\ v.last \in Nat \union {NoLimit} /\ v.grace \in BOOLEAN
  BY DEF Vehicle
<1>4. IsFiniteSet(1 .. Len(evs)) /\ Cardinality(1 .. Len(evs)) = Len(evs)
  BY <1>2, FS_Interval
<1> QED
  BY <1>2, <1>3, <1>4

(* The order of the sort is a strict total order of the rows.              *)
LEMMA PrecedesOrder ==
  ASSUME NEW maxA, NEW evs, IsBlock(maxA, evs)
  PROVE  /\ \A i \in DOMAIN evs : ~Precedes(evs, i, i)
         /\ \A i, j \in DOMAIN evs : i # j => Precedes(evs, i, j) \/ Precedes(evs, j, i)
         /\ \A i, j \in DOMAIN evs : ~(Precedes(evs, i, j) /\ Precedes(evs, j, i))
         /\ \A i, j, k \in DOMAIN evs :
              Precedes(evs, i, j) /\ Precedes(evs, j, k) => Precedes(evs, i, k)
<1>1. \A i \in DOMAIN evs : i \in Int /\ evs[i].weight \in Int /\ evs[i].start \in Int
  BY BlockRows
<1> QED
  BY <1>1 DEF Precedes

(* Sets of rows are finite and ranks are natural numbers.                  *)
LEMMA RankType ==
  ASSUME NEW maxA, NEW evs, IsBlock(maxA, evs), NEW S \in SUBSET DOMAIN evs, NEW i
  PROVE  /\ IsFiniteSet(S) /\ Cardinality(S) \in Nat
         /\ IsFiniteSet({j \in S : Precedes(evs, j, i)})
         /\ Rank(evs, S, i) \in Nat
<1>1. IsFiniteSet(S)
  BY BlockRows, FS_Subset
<1>2. IsFiniteSet({j \in S : Precedes(evs, j, i)})
  <2>1. {j \in S : Precedes(evs, j, i)} \in SUBSET S
    OBVIOUS
  <2> QED
    BY <1>1, <2>1, FS_Subset
<1> QED
  BY <1>1, <1>2, FS_CardinalityType DEF Rank

(* Ranks follow the order.                                                 *)
LEMMA RankGrows ==
  ASSUME NEW maxA, NEW evs, IsBlock(maxA, evs), NEW S \in SUBSET DOMAIN evs,
         NEW i \in S, NEW j \in DOMAIN evs, Precedes(evs, i, j)
  PROVE  Rank(evs, S, i) < Rank(evs, S, j)
<1> DEFINE P == {k \in S : Precedes(evs, k, i)}
           Q == {k \in S : Precedes(evs, k, j)}
<1>1. P \in SUBSET Q
  BY PrecedesOrder
<1>2. i \in Q /\ i \notin P
  BY PrecedesOrder
<1>3. IsFiniteSet(Q) /\ Cardinality(Q) = Rank(evs, S, j) /\ Cardinality(P) = Rank(evs, S, i)
  BY RankType DEF Rank
<1>4. Rank(evs, S, i) \in Nat /\ Rank(evs, S, j) \in Nat
  BY RankType
<1> HIDE DEF P, Q
<1>5. Cardinality(P) <= Cardinality(Q) /\ Cardinality(P) # Cardinality(Q)
  BY <1>1, <1>2, <1>3, FS_Subset
<1> QED
  BY <1>3, <1>4, <1>5

(* Ranks and the order determine each other.                               *)
LEMMA RankOrder ==
  ASSUME NEW maxA, NEW evs, IsBlock(maxA, evs), NEW S \in SUBSET DOMAIN evs,
         NEW i \in S, NEW j \in S
  PROVE  /\ Rank(evs, S, i) < Rank(evs, S, j) <=> Precedes(evs, i, j)
         /\ Rank(evs, S, i) = Rank(evs, S, j) => i = j
<1>1. Rank(evs, S, i) \in Nat /\ Rank(evs, S, j) \in Nat
  BY RankType
<1>2. i \in DOMAIN evs /\ j \in DOMAIN evs
  OBVIOUS
<1>3. Precedes(evs, i, j) => Rank(evs, S, i) < Rank(evs, S, j)
  BY <1>2, RankGrows
<1>4. Precedes(evs, j, i) => Rank(evs, S, j) < Rank(evs, S, i)
  BY <1>2, RankGrows
<1>5. i = j \/ Precedes(evs, i, j) \/ Precedes(evs, j, i)
  BY <1>2, PrecedesOrder
<1> QED
  BY <1>1, <1>3, <1>4, <1>5

(* Some row of every set has the least rank.                               *)
LEMMA LeastRank ==
  ASSUME NEW maxA, NEW evs, IsBlock(maxA, evs), NEW S \in SUBSET DOMAIN evs,
         NEW T \in SUBSET S, T # {}
  PROVE  \E i \in T : \A j \in T : Rank(evs, S, i) <= Rank(evs, S, j)
<1> DEFINE U == {Rank(evs, S, i) : i \in T}
<1>1. U \in SUBSET Nat /\ U # {}
  BY RankType
<1>2. PICK m \in U : \A k \in U : m <= k
  <2> HIDE DEF U
  <2> QED
    BY <1>1, LeastOfSet
<1> QED
  BY <1>2

(* The first m rows of a set: m of them, or all.                           *)
LEMMA PrefixSize ==
  ASSUME NEW maxA, NEW evs, IsBlock(maxA, evs), NEW S \in SUBSET DOMAIN evs, NEW m \in Nat
  PROVE  LET P == {i \in S : Rank(evs, S, i) < m}
         IN  /\ IsFiniteSet(P) /\ Cardinality(P) \in Nat
             /\ Cardinality(P) <= m
             /\ Cardinality(P) = m \/ P = S
<1> DEFINE P == {i \in S : Rank(evs, S, i) < m}
           f == [i \in P |-> Rank(evs, S, i)]
<1>0. \A i \in S : Rank(evs, S, i) \in Nat
  BY RankType
<1>1. IsFiniteSet(0 .. m - 1) /\ Cardinality(0 .. m - 1) = m
  BY FS_Interval
<1>2. f \in Injection(P, 0 .. m - 1)
  <2>1. \A i \in P : Rank(evs, S, i) \in 0 .. m - 1
    BY <1>0
  <2>2. \A i, j \in P : Rank(evs, S, i) = Rank(evs, S, j) => i = j
    BY RankOrder
  <2> QED
    BY <2>1, <2>2 DEF Injection, IsInjective
<1>3. IsFiniteSet(P) /\ Cardinality(P) <= m
  <2> HIDE DEF P, f
  <2> QED
    BY <1>1, <1>2, FS_Injection
<1>4. Cardinality(P) \in Nat
  BY <1>3, FS_CardinalityType
<1>5. CASE P # S
  <2>1. PICK i \in S \ P : \A j \in S \ P : Rank(evs, S, i) <= Rank(evs, S, j)
    <3>1. S \ P \in SUBSET S /\ S \ P # {}
      BY <1>5
    <3> HIDE DEF P
    <3> QED
      BY <3>1, LeastRank
  <2>2. Rank(evs, S, i) \in Nat /\ m <= Rank(evs, S, i)
    BY <1>0, <2>1
  <2>3. {j \in S : Precedes(evs, j, i)} \in SUBSET P
    <3> SUFFICES ASSUME NEW j \in S, Precedes(evs, j, i) PROVE j \in P
      BY Zenon
    <3>1. Rank(evs, S, j) < Rank(evs, S, i) /\ Rank(evs, S, j) \in Nat
      BY RankGrows, RankType
    <3>2. j \notin S \ P
      BY <2>1, <2>2, <3>1
    <3> QED
      BY <3>2
  <2>4. Rank(evs, S, i) <= Cardinality(P)
    <3> HIDE DEF P
    <3> QED
      BY <1>3, <2>3, FS_Subset DEF Rank
  <2> QED
    BY <1>3, <1>4, <2>2, <2>4
<1> QED
  BY <1>3, <1>4, <1>5

(* The loops find a first row in every set that is not empty.              *)
LEMMA FirstRow ==
  ASSUME NEW maxA, NEW evs, IsBlock(maxA, evs), NEW S \in SUBSET DOMAIN evs, S # {}
  PROVE  First(maxA, evs, S) \in S
<1>1. CASE Sorted(maxA, evs)
  <2>1. PICK i \in S : \A j \in S : Rank(evs, S, i) <= Rank(evs, S, j)
    BY LeastRank
  <2>2. ASSUME NEW j \in S \ {i} PROVE Precedes(evs, i, j)
    <3>1. Rank(evs, S, i) \in Nat /\ Rank(evs, S, j) \in Nat
      BY RankType
    <3>2. Rank(evs, S, i) <= Rank(evs, S, j)
      BY <2>1
    <3>3. Rank(evs, S, i) # Rank(evs, S, j)
      BY RankOrder
    <3>4. Rank(evs, S, i) < Rank(evs, S, j)
      BY <3>1, <3>2, <3>3
    <3> QED
      BY <3>4, RankOrder
  <2> QED
    BY <1>1, <2>2 DEF First
<1>2. CASE ~Sorted(maxA, evs)
  <2>1. S \in SUBSET Nat
    BY BlockRows
  <2>2. PICK i \in S : \A j \in S : i <= j
    BY <2>1, LeastOfSet
  <2>3. \A j \in S \ {i} : i < j
    BY <2>1, <2>2
  <2> QED
    BY <1>2, <2>3 DEF First
<1> QED
  BY <1>1, <1>2

(***************************************************************************)
(* Weights and shares                                                      *)
(***************************************************************************)

(* The weight of a set of rows, and without one of them.                   *)
LEMMA WeightFacts ==
  ASSUME NEW maxA, NEW evs, IsBlock(maxA, evs), NEW S \in SUBSET DOMAIN evs
  PROVE  /\ WeightOf(evs, S) \in Nat
         /\ S = {} => WeightOf(evs, S) = 0
         /\ \A i \in S : /\ evs[i].weight <= WeightOf(evs, S)
                         /\ WeightOf(evs, S) \in Nat \ {0}
                         /\ WeightOf(evs, S \ {i}) = WeightOf(evs, S) - evs[i].weight
<1> DEFINE N == Len(evs)
           vec(R) == [i \in 1 .. N |-> IF i \in R THEN evs[i].weight ELSE 0]
<1>1. DOMAIN evs = 1 .. N /\ N \in Nat /\ \A i \in 1 .. N : evs[i].weight \in Nat \ {0}
  BY BlockRows
<1>2. \A R : WeightOf(evs, R) = Total(vec(R))
  BY <1>1 DEF WeightOf
<1>3. \A R : vec(R) \in [1 .. N -> Int] /\ \A i \in 1 .. N : vec(R)[i] >= 0
  BY <1>1
<1>4. Total(vec({})) = 0
  <2>1. vec({}) = [n \in 1 .. N |-> IF n \in {} THEN 0 ELSE 0]
    OBVIOUS
  <2>2. Total([n \in 1 .. N |-> IF n \in {} THEN 0 ELSE 0]) = 0 * Cardinality({})
    BY <1>1, SumConst
  <2> HIDE DEF vec
  <2> QED
    BY <2>1, <2>2, FS_EmptySet
<1>5. \A R : Total(vec(R)) \in Nat
  <2> SUFFICES ASSUME NEW R PROVE Total(vec(R)) \in Nat
    OBVIOUS
  <2>1. \A i \in 1 .. N : vec({})[i] <= vec(R)[i]
    BY <1>1
  <2> HIDE DEF vec, N
  <2>2. Total(vec(R)) \in Int
    BY <1>1, <1>3, VectorSums
  <2>3. Total(vec({})) <= Total(vec(R))
    BY <1>1, <1>3, <2>1, SumLe
  <2> QED
    BY <1>4, <2>2, <2>3
<1>6. ASSUME NEW i \in S
      PROVE  Total(vec(S \ {i})) = Total(vec(S)) - evs[i].weight
  <2>1. /\ i \in 1 .. N /\ vec(S)[i] = evs[i].weight /\ vec(S \ {i})[i] = 0
        /\ \A n \in 1 .. N \ {i} : vec(S \ {i})[n] = vec(S)[n]
    BY <1>1
  <2>2. vec(S) \in [1 .. N -> Int] /\ vec(S \ {i}) \in [1 .. N -> Int]
    BY <1>3
  <2> HIDE DEF vec, N
  <2>4. Total(vec(S)) \in Nat /\ Total(vec(S \ {i})) \in Nat
    BY <1>5
  <2>3. Total(vec(S \ {i})) = Total(vec(S)) + (vec(S \ {i})[i] - vec(S)[i])
    <3>1. PICK f, g : f = vec(S) /\ g = vec(S \ {i})
      OBVIOUS
    <3>2. /\ f \in [1 .. N -> Int] /\ g \in [1 .. N -> Int] /\ i \in 1 .. N
          /\ \A n \in 1 .. N \ {i} : g[n] = f[n]
      BY <2>1, <2>2, <3>1
    <3>3. Total(g) = Total(f) + (g[i] - f[i])
      BY <1>1, <3>2, SumUpdate
    <3> QED
      BY <3>1, <3>3
  <2> QED
    BY <1>1, <2>1, <2>3, <2>4
<1> HIDE DEF vec, N
<1>7. ASSUME NEW i \in S
      PROVE  /\ evs[i].weight <= WeightOf(evs, S) /\ WeightOf(evs, S) \in Nat \ {0}
             /\ WeightOf(evs, S \ {i}) = WeightOf(evs, S) - evs[i].weight
  <2>1. evs[i].weight \in Nat \ {0}
    BY <1>1
  <2>2. Total(vec(S)) \in Nat /\ Total(vec(S \ {i})) \in Nat
    BY <1>5
  <2> QED
    BY <1>2, <1>6, <2>1, <2>2
<1> QED
  BY <1>2, <1>4, <1>5, <1>7

(* A share is its weighted part of the current, less than an ampere short.  *)
LEMMA ShareBounds ==
  ASSUME NEW rest \in Int, NEW weight \in Nat \ {0}, NEW total \in Nat \ {0}
  PROVE  /\ Share(rest, weight, total) \in Int
         /\ total * Share(rest, weight, total) <= rest * weight
         /\ rest * weight < total * Share(rest, weight, total) + 100 * total
         /\ MinAmps * total <= rest * weight => MinAmps <= Share(rest, weight, total)
         /\ 0 <= rest /\ weight <= total => Share(rest, weight, total) <= rest
<1>1. PICK x \in Int : x = rest * weight
  OBVIOUS
<1>2. PICK y \in Int : y = x \div total /\ total * y <= x /\ x < total * y + total
  OBVIOUS
<1>3. PICK s \in Int : /\ s = Share(rest, weight, total)
                       /\ s <= y /\ y <= s + 99 /\ (y >= 600 => s >= 600)
  BY <1>1, <1>2 DEF Share, Floor, Amp
<1>4. total * s <= total * y /\ total * y <= total * s + 99 * total
  <2>1. \A a, b \in Int : a <= b => total * a <= total * b
    OBVIOUS
  <2>2. total * s <= total * y /\ total * y <= total * (s + 99)
    BY <1>3, <2>1
  <2>3. total * (s + 99) = total * s + 99 * total
    OBVIOUS
  <2> QED
    BY <2>2, <2>3
<1>5. total * s <= x /\ x < total * s + 100 * total
  BY <1>2, <1>4
<1>6. 600 * total <= x => y >= 600
  <2> SUFFICES ASSUME 600 * total <= x, y < 600 PROVE FALSE
    OBVIOUS
  <2>1. total * y <= total * 599
    OBVIOUS
  <2> QED
    BY <1>2, <2>1
<1>7. 0 <= rest /\ weight <= total => s <= rest
  <2> SUFFICES ASSUME 0 <= rest, weight <= total, rest < s PROVE FALSE
    OBVIOUS
  <2>1. rest * weight <= rest * total
    OBVIOUS
  <2>2. total * rest < total * s
    OBVIOUS
  <2> QED
    BY <1>1, <1>5, <2>1, <2>2
<1> QED
  BY <1>1, <1>3, <1>5, <1>6, <1>7 DEF MinAmps, Amp

(* Shares grow with the weight.                                            *)
LEMMA ShareMonotone ==
  ASSUME NEW rest \in Nat, NEW v \in Nat \ {0}, NEW w \in Nat \ {0}, v <= w,
         NEW total \in Nat \ {0}
  PROVE  Share(rest, v, total) <= Share(rest, w, total)
<1>1. PICK x, y \in Int : x = rest * v /\ y = rest * w
  OBVIOUS
<1>2. x <= y
  BY <1>1
<1>3. PICK a, b \in Int : a = x \div total /\ b = y \div total
  OBVIOUS
<1>4. a <= b
  BY <1>2, <1>3
<1> QED
  BY <1>1, <1>3, <1>4 DEF Share, Floor, Amp

(***************************************************************************)
(* The loops                                                               *)
(***************************************************************************)

(* Distributions in progress.                                              *)
Dist(evs) ==
  [open : SUBSET DOMAIN evs, rest : Int, limit : [DOMAIN evs -> Int]]

(* What settling an open row does to the sums and sizes.                   *)
LEMMA SettleFacts ==
  ASSUME NEW maxA, NEW evs, IsBlock(maxA, evs), NEW d \in Dist(evs), NEW i \in d.open,
         NEW c \in Int, d.limit[i] = 0
  PROVE  LET e == Settle(d, i, c)
         IN  /\ e \in Dist(evs)
             /\ e.open = d.open \ {i} /\ e.rest = d.rest - c
             /\ IsFiniteSet(d.open) /\ Cardinality(d.open) \in Nat
             /\ Cardinality(e.open) = Cardinality(d.open) - 1
             /\ e.limit[i] = c /\ \A j \in DOMAIN evs \ {i} : e.limit[j] = d.limit[j]
             /\ Total(e.limit) = Total(d.limit) + c
             /\ WeightOf(evs, e.open) = WeightOf(evs, d.open) - evs[i].weight
<1> DEFINE e == Settle(d, i, c)
<1>1. /\ d.open \in SUBSET DOMAIN evs /\ d.rest \in Int /\ d.limit \in [DOMAIN evs -> Int]
      /\ i \in DOMAIN evs
  BY DEF Dist
<1>2. e.open = d.open \ {i} /\ e.rest = d.rest - c /\ e.limit = [d.limit EXCEPT ![i] = c]
  BY DEF Settle
<1>3. e.limit \in [DOMAIN evs -> Int] /\ e.limit[i] = c
      /\ \A j \in DOMAIN evs \ {i} : e.limit[j] = d.limit[j]
  BY <1>1, <1>2
<1>4. e \in Dist(evs)
  BY <1>1, <1>2, <1>3 DEF Dist, Settle
<1>5. IsFiniteSet(d.open) /\ Cardinality(d.open) \in Nat
  BY <1>1, RankType
<1>6. Cardinality(e.open) = Cardinality(d.open) - 1
  BY <1>2, <1>5, FS_RemoveElement
<1>7. Total(e.limit) = Total(d.limit) + c
  <2>1. PICK f, g, N : f = d.limit /\ g = e.limit /\ N = Len(evs)
    OBVIOUS
  <2>2. DOMAIN evs = 1 .. N /\ N \in Nat
    BY <2>1, BlockRows
  <2>3. /\ f \in [1 .. N -> Int] /\ g \in [1 .. N -> Int] /\ i \in 1 .. N
        /\ \A n \in 1 .. N \ {i} : g[n] = f[n]
    BY <1>1, <1>3, <2>1, <2>2
  <2>4. Total(g) = Total(f) + (g[i] - f[i])
    BY <2>2, <2>3, SumUpdate
  <2>5. Total(f) \in Int
    BY <2>2, <2>3, VectorSums
  <2>6. g[i] = c /\ f[i] = 0
    BY <1>3, <2>1
  <2>7. Total(g) = Total(f) + c
    BY <2>4, <2>5, <2>6
  <2> QED
    BY <2>1, <2>7
<1>8. WeightOf(evs, e.open) = WeightOf(evs, d.open) - evs[i].weight
  BY <1>1, <1>2, WeightFacts
<1> QED
  BY <1>2, <1>3, <1>4, <1>5, <1>6, <1>7, <1>8

(* Settling a row gives a distribution.                                    *)
LEMMA SettleType ==
  ASSUME NEW maxA, NEW evs, IsBlock(maxA, evs), NEW d \in Dist(evs), NEW i \in d.open, NEW c \in Int
  PROVE  Settle(d, i, c) \in Dist(evs)
<1>1. /\ d.open \in SUBSET DOMAIN evs /\ d.rest \in Int /\ d.limit \in [DOMAIN evs -> Int]
      /\ i \in DOMAIN evs
  BY DEF Dist
<1>2. [d.limit EXCEPT ![i] = c] \in [DOMAIN evs -> Int]
  BY <1>1
<1> QED
  BY <1>1, <1>2 DEF Dist, Settle

(* A vehicle needs at least the minimum.                                   *)
LEMMA NeededBounds ==
  ASSUME NEW maxA, NEW evs, IsBlock(maxA, evs), NEW i \in DOMAIN evs
  PROVE  Needed(evs[i]) \in Int /\ MinAmps <= Needed(evs[i])
<1>1. evs[i].cons \in Nat
  BY BlockRows
<1> QED
  BY <1>1 DEF Needed, Round, Floor, MinAmps, Amp

(* A turn of the underload loop gives a distribution.                      *)
LEMMA HoldOneType ==
  ASSUME NEW maxA, NEW evs, IsBlock(maxA, evs), NEW total, NEW d \in Dist(evs)
  PROVE  HoldOne(maxA, evs, total, d) \in Dist(evs)
<1> DEFINE rows == Holdable(maxA, evs, total, d)
           i == First(maxA, evs, rows)
<1>1. rows \in SUBSET d.open /\ d.open \in SUBSET DOMAIN evs
  BY DEF Holdable, Dist
<1>2. CASE rows # {}
  <2>1. i \in rows
    <3> HIDE DEF rows
    <3> QED
      BY <1>1, <1>2, FirstRow
  <2>2. i \in d.open /\ i \in DOMAIN evs
    BY <1>1, <2>1
  <2> HIDE DEF i
  <2>3. Settle(d, i, Needed(evs[i])) \in Dist(evs)
    BY <2>2, NeededBounds, SettleType
  <2> QED
    BY <2>3 DEF HoldOne, i
<1>3. CASE rows = {}
  BY <1>3 DEF HoldOne
<1> QED
  BY <1>2, <1>3

(* A turn of the raising loop gives a distribution.                        *)
LEMMA RaiseOneType ==
  ASSUME NEW maxA, NEW evs, IsBlock(maxA, evs), NEW d \in Dist(evs)
  PROVE  RaiseOne(maxA, evs, d) \in Dist(evs)
<1> DEFINE rows == BelowMin(evs, d)
           i == First(maxA, evs, rows)
<1>1. rows \in SUBSET d.open /\ d.open \in SUBSET DOMAIN evs
  BY DEF BelowMin, Dist
<1>2. CASE rows # {}
  <2>1. i \in rows
    <3> HIDE DEF rows
    <3> QED
      BY <1>1, <1>2, FirstRow
  <2>2. i \in d.open /\ MinAmps \in Int
    BY <1>1, <2>1 DEF MinAmps, Amp
  <2> HIDE DEF i
  <2>3. Settle(d, i, MinAmps) \in Dist(evs)
    BY <2>2, SettleType
  <2> QED
    BY <1>2, <2>3 DEF RaiseOne, i
<1>3. CASE rows = {}
  BY <1>3 DEF RaiseOne
<1> QED
  BY <1>2, <1>3

(* The underload loop is a run of its turns.                               *)
LEMMA HoldTurns ==
  ASSUME NEW maxA, NEW evs, IsBlock(maxA, evs), NEW d0 \in Dist(evs)
  PROVE  LET N == Cardinality(d0.open)
             total == WeightOf(evs, d0.open)
         IN  \E t : /\ N \in Nat /\ t[0] = d0
                    /\ \A n \in 0 .. N : t[n] \in Dist(evs)
                    /\ \A n \in 0 .. N - 1 : t[n + 1] = HoldOne(maxA, evs, total, t[n])
                    /\ HoldUnderloaded(maxA, evs, d0) = t[N]
<1> DEFINE N == Cardinality(d0.open)
           total == WeightOf(evs, d0.open)
           Turns(t) == t = [n \in 0 .. N |->
                              IF n = 0 THEN d0 ELSE HoldOne(maxA, evs, total, t[n - 1])]
           step == [n \in Nat |-> [d \in Dist(evs) |-> HoldOne(maxA, evs, total, d)]]
<1>1. N \in Nat
  BY RankType DEF Dist
<1>2. step \in [Nat -> [Dist(evs) -> Dist(evs)]]
  BY HoldOneType
<1>3. \A n \in Nat : \A d \in Dist(evs) : step[n][d] = HoldOne(maxA, evs, total, d)
  OBVIOUS
<1> HIDE DEF N, step, total
<1>4. PICK t : Runs(t, N, Dist(evs), d0, step)
  BY <1>1, <1>2, Recursion
<1>5. Turns(t)
  <2>1. ASSUME NEW n \in 0 .. N
        PROVE  t[n] = IF n = 0 THEN d0 ELSE HoldOne(maxA, evs, total, t[n - 1])
    <3>1. CASE n = 0
      BY <1>4, <3>1 DEF Runs
    <3>2. CASE n # 0
      <4>1. n \in 1 .. N /\ n - 1 \in 0 .. N
        BY <1>1, <3>2
      <4>2. t[n - 1] \in Dist(evs) /\ t[n] = step[n][t[n - 1]]
        BY <1>4, <4>1 DEF Runs
      <4> QED
        BY <1>3, <3>2, <4>1, <4>2
    <3> QED
      BY <3>1, <3>2
  <2>2. t = [n \in 0 .. N |-> t[n]]
    BY <1>4 DEF Runs
  <2>3. [n \in 0 .. N |-> t[n]] = [n \in 0 .. N |->
           IF n = 0 THEN d0 ELSE HoldOne(maxA, evs, total, t[n - 1])]
    BY <2>1, Zenon
  <2> QED
    BY <2>2, <2>3, Zenon
<1>6. PICK u : u = CHOOSE t1 : Turns(t1)
  OBVIOUS
<1>7. Turns(u)
  <2> HIDE DEF Turns
  <2> QED
    BY <1>5, <1>6
<1>8. HoldUnderloaded(maxA, evs, d0) = u[N]
  BY <1>6 DEF HoldUnderloaded, N, total
<1>9. u[0] = d0
  BY <1>1, <1>7
<1>10. ASSUME NEW n \in 0 .. N - 1 PROVE u[n + 1] = HoldOne(maxA, evs, total, u[n])
  <2>1. n + 1 \in 0 .. N /\ n + 1 # 0 /\ (n + 1) - 1 = n
    BY <1>1
  <2> QED
    BY <1>7, <2>1
<1> HIDE DEF Turns
<1>11. \A n \in 0 .. N : u[n] \in Dist(evs)
  <2> DEFINE T == {n \in 0 .. N : u[n] \in Dist(evs)}
  <2>1. 0 \in T
    BY <1>1, <1>9
  <2>2. \A n \in 0 .. N - 1 : n \in T => n + 1 \in T
    BY <1>1, <1>10, HoldOneType
  <2>3. \A n \in 0 .. N : n \in T
    <3> HIDE DEF T
    <3> QED
      BY <1>1, <2>1, <2>2, BoundedInduction
  <2> QED
    BY <2>3
<1> QED
  BY <1>1, <1>8, <1>9, <1>10, <1>11 DEF N, total

(* The raising loop is a run of its turns.                                 *)
LEMMA RaiseTurns ==
  ASSUME NEW maxA, NEW evs, IsBlock(maxA, evs), NEW d0 \in Dist(evs)
  PROVE  LET N == Cardinality(d0.open)
         IN  \E t : /\ N \in Nat /\ t[0] = d0
                    /\ \A n \in 0 .. N : t[n] \in Dist(evs)
                    /\ \A n \in 0 .. N - 1 : t[n + 1] = RaiseOne(maxA, evs, t[n])
                    /\ RaiseToMinimum(maxA, evs, d0) = t[N]
<1> DEFINE N == Cardinality(d0.open)
           Turns(t) == t = [n \in 0 .. N |->
                              IF n = 0 THEN d0 ELSE RaiseOne(maxA, evs, t[n - 1])]
           step == [n \in Nat |-> [d \in Dist(evs) |-> RaiseOne(maxA, evs, d)]]
<1>1. N \in Nat
  BY RankType DEF Dist
<1>2. step \in [Nat -> [Dist(evs) -> Dist(evs)]]
  BY RaiseOneType
<1>3. \A n \in Nat : \A d \in Dist(evs) : step[n][d] = RaiseOne(maxA, evs, d)
  OBVIOUS
<1> HIDE DEF N, step
<1>4. PICK t : Runs(t, N, Dist(evs), d0, step)
  BY <1>1, <1>2, Recursion
<1>5. Turns(t)
  <2>1. ASSUME NEW n \in 0 .. N
        PROVE  t[n] = IF n = 0 THEN d0 ELSE RaiseOne(maxA, evs, t[n - 1])
    <3>1. CASE n = 0
      BY <1>4, <3>1 DEF Runs
    <3>2. CASE n # 0
      <4>1. n \in 1 .. N /\ n - 1 \in 0 .. N
        BY <1>1, <3>2
      <4>2. t[n - 1] \in Dist(evs) /\ t[n] = step[n][t[n - 1]]
        BY <1>4, <4>1 DEF Runs
      <4> QED
        BY <1>3, <3>2, <4>1, <4>2
    <3> QED
      BY <3>1, <3>2
  <2>2. t = [n \in 0 .. N |-> t[n]]
    BY <1>4 DEF Runs
  <2>3. [n \in 0 .. N |-> t[n]] = [n \in 0 .. N |->
           IF n = 0 THEN d0 ELSE RaiseOne(maxA, evs, t[n - 1])]
    BY <2>1, Zenon
  <2> QED
    BY <2>2, <2>3, Zenon
<1>6. PICK u : u = CHOOSE t1 : Turns(t1)
  OBVIOUS
<1>7. Turns(u)
  <2> HIDE DEF Turns
  <2> QED
    BY <1>5, <1>6
<1>8. RaiseToMinimum(maxA, evs, d0) = u[N]
  BY <1>6 DEF RaiseToMinimum, N
<1>9. u[0] = d0
  BY <1>1, <1>7
<1>10. ASSUME NEW n \in 0 .. N - 1 PROVE u[n + 1] = RaiseOne(maxA, evs, u[n])
  <2>1. n + 1 \in 0 .. N /\ n + 1 # 0 /\ (n + 1) - 1 = n
    BY <1>1
  <2> QED
    BY <1>7, <2>1
<1> HIDE DEF Turns
<1>11. \A n \in 0 .. N : u[n] \in Dist(evs)
  <2> DEFINE T == {n \in 0 .. N : u[n] \in Dist(evs)}
  <2>1. 0 \in T
    BY <1>1, <1>9
  <2>2. \A n \in 0 .. N - 1 : n \in T => n + 1 \in T
    BY <1>1, <1>10, RaiseOneType
  <2>3. \A n \in 0 .. N : n \in T
    <3> HIDE DEF T
    <3> QED
      BY <1>1, <2>1, <2>2, BoundedInduction
  <2> QED
    BY <2>3
<1> QED
  BY <1>1, <1>8, <1>9, <1>10, <1>11 DEF N

(***************************************************************************)
(* The underload loop                                                      *)
(***************************************************************************)

Start(maxA, evs) ==
  [open |-> Admitted(maxA, evs), rest |-> maxA, limit |-> [i \in DOMAIN evs |-> 0]]

(* The invariant of the underload loop: the limits and the rest add up to  *)
(* max_a, what is left is positive, and the closed rows are held.          *)
Holding(maxA, evs, d) ==
  LET A == Admitted(maxA, evs)
  IN  /\ d \in Dist(evs)
      /\ d.open \subseteq A /\ d.open # {}
      /\ d.rest > 0
      /\ Total(d.limit) + d.rest = maxA
      /\ \A i \in DOMAIN evs : i \notin A \/ i \in d.open => d.limit[i] = 0
      /\ \A i \in A \ d.open : /\ Underloaded(maxA, evs[i], WeightOf(evs, A))
                               /\ d.limit[i] = Needed(evs[i])

(* A turn keeps the invariant of the underload loop.                       *)
LEMMA HoldingStep ==
  ASSUME NEW maxA, NEW evs, IsBlock(maxA, evs), NEW d, Holding(maxA, evs, d)
  PROVE  Holding(maxA, evs, HoldOne(maxA, evs, WeightOf(evs, Admitted(maxA, evs)), d))
<1> DEFINE A == Admitted(maxA, evs)
           total == WeightOf(evs, A)
           rows == Holdable(maxA, evs, total, d)
           i == First(maxA, evs, rows)
<1>1. /\ d \in Dist(evs) /\ d.open \subseteq A /\ d.open # {} /\ d.rest > 0
      /\ Total(d.limit) + d.rest = maxA
      /\ \A j \in DOMAIN evs : j \notin A \/ j \in d.open => d.limit[j] = 0
      /\ \A j \in A \ d.open : Underloaded(maxA, evs[j], total) /\ d.limit[j] = Needed(evs[j])
  BY DEF Holding
<1>2. CASE Cardinality(d.open) > 1 /\ rows # {}
  <2>1. d.open \in SUBSET DOMAIN evs /\ rows \in SUBSET d.open /\ d.rest \in Int
        /\ d.limit \in [DOMAIN evs -> Int]
    BY <1>1 DEF Dist, Holdable
  <2>2. i \in rows
    <3> HIDE DEF rows
    <3> QED
      BY <1>2, <2>1, FirstRow
  <2>3. PICK e : e = Settle(d, i, Needed(evs[i]))
    OBVIOUS
  <2>4. HoldOne(maxA, evs, total, d) = e
    BY <1>2, <2>3 DEF HoldOne
  <2>5. /\ i \in d.open /\ i \in DOMAIN evs /\ d.limit[i] = 0
        /\ Underloaded(maxA, evs[i], total)
        /\ Needed(evs[i]) < Share(d.rest, evs[i].weight, WeightOf(evs, d.open))
    BY <1>1, <2>1, <2>2 DEF Holdable
  <2> HIDE DEF i, rows, total, A
  <2>6. Needed(evs[i]) \in Int /\ MinAmps <= Needed(evs[i])
    BY <2>5, NeededBounds
  <2>7. /\ e \in Dist(evs)
        /\ e.open = d.open \ {i} /\ e.rest = d.rest - Needed(evs[i])
        /\ IsFiniteSet(d.open) /\ Cardinality(d.open) \in Nat
        /\ Cardinality(e.open) = Cardinality(d.open) - 1
        /\ e.limit[i] = Needed(evs[i]) /\ \A j \in DOMAIN evs \ {i} : e.limit[j] = d.limit[j]
        /\ Total(e.limit) = Total(d.limit) + Needed(evs[i])
    BY <1>1, <2>3, <2>5, <2>6, SettleFacts
  <2>8. e.open # {}
    BY <1>2, <2>7, FS_EmptySet
  <2>9. e.rest > 0
    <3>1. /\ evs[i].weight \in Nat \ {0} /\ WeightOf(evs, d.open) \in Nat \ {0}
          /\ evs[i].weight <= WeightOf(evs, d.open)
      BY <2>1, <2>5, BlockRows, WeightFacts
    <3>2. /\ Share(d.rest, evs[i].weight, WeightOf(evs, d.open)) \in Int
          /\ Share(d.rest, evs[i].weight, WeightOf(evs, d.open)) <= d.rest
      <4>1. PICK r, w, t : /\ r = d.rest /\ w = evs[i].weight /\ t = WeightOf(evs, d.open)
                           /\ r \in Int /\ w \in Nat \ {0} /\ t \in Nat \ {0} /\ 0 <= r /\ w <= t
        BY <1>1, <2>1, <3>1
      <4>2. Share(r, w, t) \in Int /\ Share(r, w, t) <= r
        BY <4>1, ShareBounds
      <4> QED
        BY <4>1, <4>2
    <3> QED
      BY <2>1, <2>5, <2>6, <2>7, <3>2
  <2>10. Total(e.limit) + e.rest = maxA
    <3>1. Total(d.limit) \in Int
      BY <2>1, BlockRows, VectorSums
    <3> QED
      BY <1>1, <2>1, <2>6, <2>7, <3>1
  <2>11. \A j \in DOMAIN evs : j \notin A \/ j \in e.open => e.limit[j] = 0
    BY <1>1, <2>5, <2>7
  <2>12. \A j \in A \ e.open : /\ Underloaded(maxA, evs[j], total)
                               /\ e.limit[j] = Needed(evs[j])
    <3>1. \A j \in A \ e.open : j = i \/ j \in A \ d.open
      BY <2>7
    <3>2. A \subseteq DOMAIN evs
      BY DEF A, Admitted
    <3> QED
      BY <1>1, <2>5, <2>7, <3>1, <3>2
  <2> QED
    BY <1>1, <2>4, <2>7, <2>8, <2>9, <2>10, <2>11, <2>12 DEF Holding, A, total
<1>3. CASE ~(Cardinality(d.open) > 1 /\ rows # {})
  BY <1>3 DEF HoldOne
<1> QED
  BY <1>2, <1>3

(* The rows admitted are as many as the block can serve, or all.           *)
LEMMA AdmittedRows ==
  ASSUME NEW maxA, NEW evs, IsBlock(maxA, evs)
  PROVE  LET A == Admitted(maxA, evs)
         IN  /\ A \subseteq DOMAIN evs /\ IsFiniteSet(A) /\ Cardinality(A) \in Nat
             /\ MinAmps * Cardinality(A) <= maxA
             /\ A # DOMAIN evs => /\ Sorted(maxA, evs)
                                  /\ Cardinality(A) = Capacity(maxA)
                                  /\ maxA < MinAmps * (Cardinality(A) + 1)
             /\ Capacity(maxA) > 0 => A # {}
<1> DEFINE A == Admitted(maxA, evs)
           K == DOMAIN evs
           cap == Capacity(maxA)
<1>1. maxA \in Nat /\ K = 1 .. Len(evs) /\ Len(evs) \in Nat \ {0} /\ Cardinality(K) = Len(evs)
  BY BlockRows DEF IsBlock
<1>2. cap \in Nat /\ 600 * cap <= maxA /\ maxA < 600 * (cap + 1)
  BY <1>1 DEF Capacity, MinAmps, Amp
<1>3. A \subseteq K
  BY DEF Admitted
<1>4. IsFiniteSet(A) /\ Cardinality(A) \in Nat
  <2> HIDE DEF A
  <2> QED
    BY <1>3, RankType
<1>5. CASE Sorted(maxA, evs)
  <2>1. A = {i \in K : Rank(evs, K, i) < cap}
    BY <1>5 DEF Admitted
  <2>2. Cardinality(A) <= cap /\ (Cardinality(A) = cap \/ A = K)
    <3>1. K \in SUBSET DOMAIN evs
      OBVIOUS
    <3> HIDE DEF A, cap, K
    <3>2. LET P == {i \in K : Rank(evs, K, i) < cap}
          IN  Cardinality(P) <= cap /\ (Cardinality(P) = cap \/ P = K)
      BY <1>2, <3>1, PrefixSize
    <3> QED
      BY <2>1, <3>2
  <2>3. cap > 0 => A # {}
    <3>1. A = {} => Cardinality(A) = 0
      BY FS_EmptySet
    <3> HIDE DEF A, cap
    <3> QED
      BY <1>1, <1>2, <2>2, <3>1
  <2> HIDE DEF A, cap
  <2>4. 600 * Cardinality(A) <= maxA
    BY <1>1, <1>2, <1>4, <2>2
  <2>5. A # K => Cardinality(A) = cap /\ maxA < 600 * (Cardinality(A) + 1)
    BY <1>2, <2>2
  <2> QED
    BY <1>3, <1>4, <1>5, <2>3, <2>4, <2>5 DEF A, cap, MinAmps, Amp
<1>6. CASE ~Sorted(maxA, evs)
  <2>1. A = K
    BY <1>6 DEF Admitted
  <2>2. Cardinality(A) <= cap
    BY <1>1, <1>2, <1>6, <2>1 DEF Sorted
  <2>3. A # {}
    BY <1>1, <2>1
  <2> HIDE DEF A, cap
  <2>4. 600 * Cardinality(A) <= maxA
    BY <1>1, <1>2, <1>4, <2>2
  <2> QED
    BY <1>3, <1>4, <2>1, <2>3, <2>4 DEF A, cap, MinAmps, Amp
<1> QED
  BY <1>5, <1>6

(* The underload loop ends in a distribution that satisfies it.            *)
LEMMA HeldResult ==
  ASSUME NEW maxA, NEW evs, IsBlock(maxA, evs), Cardinality(Admitted(maxA, evs)) > 1
  PROVE  Holding(maxA, evs, HoldUnderloaded(maxA, evs, Start(maxA, evs)))
<1> DEFINE A == Admitted(maxA, evs)
           d0 == Start(maxA, evs)
           N == Cardinality(d0.open)
<1>1. /\ A \subseteq DOMAIN evs /\ IsFiniteSet(A) /\ Cardinality(A) \in Nat
      /\ MinAmps * Cardinality(A) <= maxA /\ maxA \in Nat
  BY AdmittedRows DEF IsBlock
<1>2. /\ d0.open = A /\ d0.rest = maxA
      /\ d0.limit = [i \in DOMAIN evs |-> 0] /\ d0 \in Dist(evs)
  BY <1>1 DEF Start, Dist
<1>3. Total(d0.limit) = 0
  <2>1. DOMAIN evs = 1 .. Len(evs) /\ Len(evs) \in Nat
    BY BlockRows
  <2>2. d0.limit = [n \in 1 .. Len(evs) |-> IF n \in {} THEN 0 ELSE 0]
    BY <1>2, <2>1
  <2>3. Total([n \in 1 .. Len(evs) |-> IF n \in {} THEN 0 ELSE 0]) = 0 * Cardinality({})
    BY <2>1, SumConst
  <2> QED
    BY <2>2, <2>3, FS_EmptySet
<1>4. A # {}
  BY FS_EmptySet
<1>5. maxA > 0
  BY <1>1 DEF MinAmps, Amp
<1>6. Holding(maxA, evs, d0)
  <2> HIDE DEF d0, A
  <2>1. \A i \in DOMAIN evs : d0.limit[i] = 0
    BY <1>2
  <2>2. Total(d0.limit) + d0.rest = maxA
    BY <1>1, <1>2, <1>3
  <2> QED
    BY <1>2, <1>4, <1>5, <2>1, <2>2 DEF Holding, A
<1> HIDE DEF d0
<1>7. PICK t : /\ N \in Nat /\ t[0] = d0
               /\ \A n \in 0 .. N - 1 :
                    t[n + 1] = HoldOne(maxA, evs, WeightOf(evs, d0.open), t[n])
               /\ HoldUnderloaded(maxA, evs, d0) = t[N]
  BY <1>2, HoldTurns
<1> DEFINE T == {n \in 0 .. N : Holding(maxA, evs, t[n])}
<1> HIDE DEF N, A
<1>8. 0 \in T
  BY <1>6, <1>7
<1>9. \A n \in 0 .. N - 1 : n \in T => n + 1 \in T
  <2> SUFFICES ASSUME NEW n \in 0 .. N - 1, Holding(maxA, evs, t[n]) PROVE n + 1 \in T
    BY <1>7
  <2>1. Holding(maxA, evs, HoldOne(maxA, evs, WeightOf(evs, A), t[n]))
    BY HoldingStep DEF A
  <2>2. t[n + 1] = HoldOne(maxA, evs, WeightOf(evs, A), t[n])
    BY <1>2, <1>7
  <2>3. n + 1 \in 0 .. N
    BY <1>7
  <2> QED
    BY <2>1, <2>2, <2>3
<1>10. N \in T
  <2> HIDE DEF T
  <2>1. \A n \in 0 .. N : n \in T
    BY <1>7, <1>8, <1>9, BoundedInduction
  <2> QED
    BY <1>7, <2>1
<1> QED
  BY <1>7, <1>10 DEF d0

(***************************************************************************)
(* The loop that raises rows to the minimum                                *)
(***************************************************************************)

(* Its invariant, from the distribution s that it starts with: the rows it *)
(* closes get the minimum, the rest pays for each of them, and every open  *)
(* row no heavier than a raised one is due to be raised too.               *)
Raising(maxA, evs, s, d) ==
  /\ d \in Dist(evs)
  /\ d.open \subseteq s.open
  /\ Total(d.limit) + d.rest = maxA
  /\ \A i \in DOMAIN evs \ s.open : d.limit[i] = s.limit[i]
  /\ \A i \in d.open : d.limit[i] = 0
  /\ \A i \in s.open \ d.open : d.limit[i] = MinAmps
  /\ d.rest + MinAmps * (Cardinality(s.open) - Cardinality(d.open)) = s.rest
  /\ d.open = {} => d.rest < 0
  /\ \A k \in s.open \ d.open : \A j \in d.open :
       evs[j].weight <= evs[k].weight => j \in BelowMin(evs, d)

(* A row below the minimum stays below it when another one is raised, and  *)
(* so does a row no heavier than the raised one.                           *)
LEMMA StillBelow ==
  ASSUME NEW r \in Int, NEW W \in Nat \ {0}, NEW v \in Nat \ {0}, NEW w \in Nat \ {0},
         v + w <= W, r * w < 600 * W, v <= w \/ r * v < 600 * W
  PROVE  (r - 600) * v < 600 * (W - w)
<1>1. (r - 600) * v = r * v - 600 * v /\ 600 * (W - w) = 600 * W - 600 * w
  OBVIOUS
<1>2. CASE r < 600
  <2>1. (r - 600) * v < 0
    BY <1>2
  <2>2. 600 * (W - w) > 0
    OBVIOUS
  <2> QED
    BY <2>1, <2>2
<1>3. CASE r >= 600 /\ v <= w
  <2>1. PICK k \in Nat : w = v + k
    <3>1. w - v \in Nat /\ w = v + (w - v)
      BY <1>3
    <3> QED
      BY <3>1
  <2>2. r * w = r * v + r * k
    BY <2>1
  <2>3. r * k >= 600 * k
    BY <1>3
  <2> QED
    BY <1>1, <2>1, <2>2, <2>3
<1>4. CASE v > w /\ r * v < 600 * W
  BY <1>1, <1>4
<1> QED
  BY <1>2, <1>3, <1>4

(* A turn that raises a row keeps the invariant and closes one row.        *)
LEMMA RaisingStep ==
  ASSUME NEW maxA, NEW evs, IsBlock(maxA, evs), NEW s \in Dist(evs), NEW d,
         Raising(maxA, evs, s, d), BelowMin(evs, d) # {}
  PROVE  LET e == RaiseOne(maxA, evs, d)
         IN  Raising(maxA, evs, s, e) /\ Cardinality(e.open) = Cardinality(d.open) - 1
<1> DEFINE rows == BelowMin(evs, d)
           i == First(maxA, evs, rows)
           W == WeightOf(evs, d.open)
<1>1. /\ d \in Dist(evs) /\ d.open \subseteq s.open
      /\ Total(d.limit) + d.rest = maxA
      /\ \A j \in DOMAIN evs \ s.open : d.limit[j] = s.limit[j]
      /\ \A j \in d.open : d.limit[j] = 0
      /\ \A j \in s.open \ d.open : d.limit[j] = MinAmps
      /\ d.rest + MinAmps * (Cardinality(s.open) - Cardinality(d.open)) = s.rest
      /\ \A k \in s.open \ d.open : \A j \in d.open :
            evs[j].weight <= evs[k].weight => j \in rows
  BY DEF Raising
<1>2. /\ d.open \in SUBSET DOMAIN evs /\ rows \in SUBSET d.open /\ d.rest \in Int
      /\ d.limit \in [DOMAIN evs -> Int] /\ s.open \in SUBSET DOMAIN evs /\ s.rest \in Int
      /\ rows \in SUBSET DOMAIN evs /\ rows # {}
  BY <1>1 DEF Dist, BelowMin
<1>3. i \in rows
  <2> HIDE DEF rows
  <2> QED
    BY <1>2, FirstRow
<1>4. PICK e : e = Settle(d, i, MinAmps)
  OBVIOUS
<1>5. RaiseOne(maxA, evs, d) = e
  BY <1>4 DEF RaiseOne
<1>6. /\ i \in d.open /\ i \in DOMAIN evs /\ d.limit[i] = 0
      /\ d.rest * evs[i].weight < MinAmps * W
  BY <1>1, <1>2, <1>3 DEF BelowMin
<1>7. \A j \in d.open : j \in rows <=> d.rest * evs[j].weight < MinAmps * W
  BY DEF BelowMin
<1> HIDE DEF i, rows, W
<1>8. MinAmps = 600
  BY DEF MinAmps, Amp
<1>9. /\ e \in Dist(evs)
      /\ e.open = d.open \ {i} /\ e.rest = d.rest - 600
      /\ IsFiniteSet(d.open) /\ Cardinality(d.open) \in Nat
      /\ Cardinality(e.open) = Cardinality(d.open) - 1
      /\ e.limit[i] = 600 /\ \A j \in DOMAIN evs \ {i} : e.limit[j] = d.limit[j]
      /\ Total(e.limit) = Total(d.limit) + 600
      /\ WeightOf(evs, e.open) = WeightOf(evs, d.open) - evs[i].weight
  BY <1>1, <1>4, <1>6, <1>8, SettleFacts
<1>10. Total(e.limit) + e.rest = maxA
  <2>1. Total(d.limit) \in Int
    BY <1>2, BlockRows, VectorSums
  <2> QED
    BY <1>1, <1>2, <1>9, <2>1
<1>11. e.rest + MinAmps * (Cardinality(s.open) - Cardinality(e.open)) = s.rest
  <2>1. Cardinality(s.open) \in Nat
    BY <1>2, RankType
  <2> QED
    BY <1>1, <1>2, <1>8, <1>9, <2>1
<1>12. W \in Nat \ {0} /\ \A j \in DOMAIN evs : evs[j].weight \in Nat \ {0}
  BY <1>2, <1>6, BlockRows, WeightFacts DEF W
<1>13. e.open = {} => e.rest < 0
  <2> SUFFICES ASSUME e.open = {} PROVE e.rest < 0
    OBVIOUS
  <2>1. WeightOf(evs, e.open) = 0
    BY <1>9, WeightFacts
  <2>2. PICK w \in Nat \ {0} : w = evs[i].weight /\ w = W
    BY <1>6, <1>9, <1>12, <2>1 DEF W
  <2>3. d.rest * w < 600 * w
    BY <1>6, <1>8, <2>2
  <2>4. d.rest < 600
    BY <1>2, <2>3
  <2> QED
    BY <1>2, <1>9, <2>4
<1>14. ASSUME NEW k \in s.open \ e.open, NEW j \in e.open, evs[j].weight <= evs[k].weight
       PROVE  j \in BelowMin(evs, e)
  <2>1. j \in d.open /\ j # i /\ j \in DOMAIN evs
    BY <1>2, <1>9
  <2>2. PICK v, w, V : v = evs[j].weight /\ w = evs[i].weight /\ V = WeightOf(evs, e.open)
    OBVIOUS
  <2>3. v \in Nat \ {0} /\ w \in Nat \ {0}
    BY <1>6, <1>12, <2>1, <2>2
  <2>4. V = W - w /\ v <= V
    <3>1. v <= V
      <4>1. e.open \in SUBSET DOMAIN evs
        BY <1>9 DEF Dist
      <4> QED
        BY <2>2, <4>1, WeightFacts
    <3> QED
      BY <1>9, <2>2, <3>1 DEF W
  <2>5. PICK r \in Int : r = d.rest
    BY <1>2
  <2>6. v <= w \/ r * v < 600 * W
    <3>1. CASE k = i
      BY <1>14, <2>2, <3>1
    <3>2. CASE k # i
      <4>1. k \in s.open \ d.open
        BY <1>9, <3>2
      <4> QED
        BY <1>1, <1>7, <1>8, <1>14, <2>1, <2>2, <2>5, <4>1
    <3> QED
      BY <3>1, <3>2
  <2>7. r * w < 600 * W
    BY <1>6, <1>8, <2>2, <2>5
  <2>8. v + w <= W
    BY <1>12, <2>3, <2>4
  <2>9. (r - 600) * v < 600 * (W - w)
    BY <1>12, <2>3, <2>6, <2>7, <2>8, StillBelow
  <2>10. e.rest * evs[j].weight < MinAmps * WeightOf(evs, e.open)
    BY <1>8, <1>9, <2>2, <2>4, <2>5, <2>9
  <2> QED
    BY <2>10 DEF BelowMin
<1>15. \A j \in DOMAIN evs \ s.open : e.limit[j] = s.limit[j]
  BY <1>1, <1>6, <1>9
<1>16. \A j \in e.open : e.limit[j] = 0
  BY <1>1, <1>2, <1>9
<1>17. \A j \in s.open \ e.open : e.limit[j] = MinAmps
  BY <1>1, <1>2, <1>8, <1>9
<1>18. e.open \subseteq s.open
  BY <1>1, <1>9
<1>19. Raising(maxA, evs, s, e)
  BY <1>9, <1>10, <1>11, <1>13, <1>14, <1>15, <1>16, <1>17, <1>18 DEF Raising
<1> QED
  BY <1>5, <1>9, <1>19

(* After as many turns as rows, no row is below the minimum.               *)
LEMMA RaisedResult ==
  ASSUME NEW maxA, NEW evs, IsBlock(maxA, evs), NEW s, Holding(maxA, evs, s)
  PROVE  LET d == RaiseToMinimum(maxA, evs, s)
         IN  Raising(maxA, evs, s, d) /\ BelowMin(evs, d) = {}
<1> DEFINE N == Cardinality(s.open)
<1>1. /\ s \in Dist(evs) /\ s.open # {} /\ Total(s.limit) + s.rest = maxA
      /\ s.open \in SUBSET DOMAIN evs /\ s.rest \in Int
      /\ \A i \in s.open : s.limit[i] = 0
  BY DEF Holding, Dist
<1>2. IsFiniteSet(s.open) /\ N \in Nat
  BY <1>1, RankType
<1>3. Raising(maxA, evs, s, s)
  <2>1. s.rest + MinAmps * (N - N) = s.rest
    BY <1>1, <1>2 DEF MinAmps, Amp
  <2> QED
    BY <1>1, <2>1 DEF Raising
<1>4. PICK t : /\ t[0] = s
               /\ \A n \in 0 .. N - 1 : t[n + 1] = RaiseOne(maxA, evs, t[n])
               /\ RaiseToMinimum(maxA, evs, s) = t[N]
  BY <1>1, RaiseTurns
<1> HIDE DEF N
<1> DEFINE Done(n) == BelowMin(evs, t[n]) = {} \/ Cardinality(t[n].open) = N - n
           T == {n \in 0 .. N : Raising(maxA, evs, s, t[n]) /\ Done(n)}
<1>5. 0 \in T
  BY <1>2, <1>3, <1>4 DEF N
<1>6. \A n \in 0 .. N - 1 : n \in T => n + 1 \in T
  <2> SUFFICES ASSUME NEW n \in 0 .. N - 1, Raising(maxA, evs, s, t[n]), Done(n)
               PROVE  n + 1 \in T
    BY <1>2
  <2>1. n + 1 \in 0 .. N /\ t[n + 1] = RaiseOne(maxA, evs, t[n])
    BY <1>2, <1>4
  <2>2. CASE BelowMin(evs, t[n]) = {}
    <3>1. t[n + 1] = t[n]
      BY <2>1, <2>2 DEF RaiseOne
    <3> QED
      BY <2>1, <2>2, <3>1
  <2>3. CASE BelowMin(evs, t[n]) # {}
    <3>1. PICK d : d = t[n]
      OBVIOUS
    <3>2. /\ Raising(maxA, evs, s, t[n + 1])
          /\ Cardinality(t[n + 1].open) = Cardinality(t[n].open) - 1
      <4>1. /\ Raising(maxA, evs, s, RaiseOne(maxA, evs, d))
            /\ Cardinality(RaiseOne(maxA, evs, d).open) = Cardinality(d.open) - 1
        BY <1>1, <2>3, <3>1, RaisingStep
      <4> QED
        BY <2>1, <3>1, <4>1
    <3>3. Cardinality(t[n].open) = N - n
      BY <2>3
    <3>4. Cardinality(t[n + 1].open) = N - (n + 1)
      BY <1>2, <3>2, <3>3
    <3> QED
      BY <2>1, <3>2, <3>4
  <2> QED
    BY <2>2, <2>3
<1>7. N \in T
  <2> HIDE DEF T
  <2>1. \A n \in 0 .. N : n \in T
    BY <1>2, <1>5, <1>6, BoundedInduction
  <2> QED
    BY <1>2, <2>1
<1>8. BelowMin(evs, t[N]) = {}
  <2> SUFFICES ASSUME Cardinality(t[N].open) = N - N PROVE BelowMin(evs, t[N]) = {}
    BY <1>7
  <2>1. t[N].open \in SUBSET DOMAIN evs
    BY <1>7 DEF Raising, Dist
  <2>2. IsFiniteSet(t[N].open)
    BY <2>1, RankType
  <2>3. t[N].open = {}
    BY <1>2, <2>2, FS_EmptySet
  <2> QED
    BY <2>3 DEF BelowMin
<1> QED
  BY <1>4, <1>7, <1>8

(***************************************************************************)
(* The weighted shares                                                     *)
(***************************************************************************)

(* What the last stage makes of a distribution whose open rows all have a  *)
(* share of at least the minimum.                                          *)
LEMMA ShareOutFacts ==
  ASSUME NEW maxA, NEW evs, IsBlock(maxA, evs), NEW d \in Dist(evs), d.open # {},
         BelowMin(evs, d) = {}, \A i \in d.open : d.limit[i] = 0
  PROVE  LET L == ShareOut(evs, d)
         IN  /\ L \in [DOMAIN evs -> Int]
             /\ \A i \in DOMAIN evs \ d.open : L[i] = d.limit[i]
             /\ \A i \in d.open : L[i] >= MinAmps
             /\ Total(L) <= Total(d.limit) + d.rest
             /\ Total(L) > Total(d.limit) + d.rest - Amp
             /\ \A i, j \in d.open :
                  /\ evs[i].weight > evs[j].weight => L[i] >= L[j]
                  /\ evs[i].weight = evs[j].weight => L[i] - L[j] <= Amp
<1>1. PICK N, O, r, limit, W :
        /\ N = Len(evs) /\ O = d.open /\ r = d.rest /\ limit = d.limit /\ W = WeightOf(evs, O)
  OBVIOUS
<1>2. /\ N \in Nat /\ DOMAIN evs = 1 .. N /\ DOMAIN limit = 1 .. N
      /\ O \in SUBSET (1 .. N) /\ O \in SUBSET DOMAIN evs /\ O # {}
      /\ r \in Int /\ limit \in [1 .. N -> Int] /\ \A i \in O : limit[i] = 0
      /\ IsFiniteSet(O) /\ Cardinality(O) \in Nat
  BY <1>1, BlockRows, RankType DEF Dist
<1>3. /\ W \in Nat \ {0} /\ \A i \in 1 .. N : evs[i].weight \in Nat \ {0}
      /\ \A i \in O : evs[i].weight <= W
  BY <1>1, <1>2, BlockRows, WeightFacts
<1>4. \A i \in O : 600 * W <= r * evs[i].weight
  <2> SUFFICES ASSUME NEW i \in O PROVE 600 * W <= r * evs[i].weight
    OBVIOUS
  <2>1. ~(r * evs[i].weight < 600 * W)
    BY <1>1 DEF BelowMin, MinAmps, Amp
  <2>2. evs[i].weight \in Nat \ {0}
    BY <1>2, <1>3
  <2>3. r * evs[i].weight \in Int /\ 600 * W \in Int
    <3>1. \A x, y \in Int : x * y \in Int
      OBVIOUS
    <3> QED
      BY <1>2, <1>3, <2>2, <3>1
  <2> QED
    BY <2>1, <2>3
<1>5. r \in Nat
  <2>1. PICK i \in O : TRUE
    BY <1>2
  <2>2. PICK w \in Nat \ {0} : w = evs[i].weight
    BY <1>2, <1>3
  <2>3. r * w > 0
    <3>1. 600 * W <= r * w /\ 600 * W > 0 /\ r * w \in Int /\ 600 * W \in Int
      BY <1>2, <1>3, <1>4, <2>2
    <3> QED
      BY <3>1
  <2> QED
    BY <1>2, <2>3
<1> DEFINE s(i) == Share(r, evs[i].weight, W)
           share == [i \in 1 .. N |-> IF i \in O THEN s(i) ELSE 0]
           weights == [i \in 1 .. N |-> IF i \in O THEN evs[i].weight ELSE 0]
           lost == r - Total(share)
           m == lost \div Amp
           P == {i \in O : Rank(evs, O, i) < m}
           bonus == [i \in 1 .. N |-> IF i \in P THEN 100 ELSE 0]
           L == ShareOut(evs, d)
<1>6. ASSUME NEW i \in O
      PROVE  /\ s(i) \in Int /\ s(i) >= 600
             /\ W * s(i) <= r * evs[i].weight
             /\ r * evs[i].weight <= W * s(i) + 100 * W
  <2>1. PICK w \in Nat \ {0} : w = evs[i].weight /\ 600 * W <= r * w
    BY <1>2, <1>3, <1>4
  <2>2. /\ Share(r, w, W) \in Int /\ W * Share(r, w, W) <= r * w
        /\ r * w < W * Share(r, w, W) + 100 * W
        /\ MinAmps * W <= r * w => MinAmps <= Share(r, w, W)
    BY <1>2, <1>3, ShareBounds
  <2>3. PICK x \in Int : x = Share(r, w, W)
    BY <2>2
  <2>4. x >= 600 /\ W * x <= r * w /\ r * w <= W * x + 100 * W
    BY <1>2, <1>3, <2>1, <2>2, <2>3 DEF MinAmps, Amp
  <2> QED
    BY <2>1, <2>3, <2>4
<1>7. share \in [1 .. N -> Int] /\ weights \in [1 .. N -> Int] /\ bonus \in [1 .. N -> Int]
  BY <1>2, <1>3, <1>6
<1>8. Total(weights) = W
  BY <1>1, <1>2 DEF WeightOf
<1>10. Total(share) \in Int
  <2> HIDE DEF share
  <2> QED
    BY <1>2, <1>7, VectorSums
<1>17. 0 <= lost /\ lost <= 100 * Cardinality(O)
  <2>1. PICK f, w : f = share /\ w = weights
    BY Zenon
  <2>7. PICK c \in Nat : c = 100
    OBVIOUS
  <2>2. /\ \A i \in O : W * f[i] <= r * w[i] /\ r * w[i] <= W * f[i] + c * W
        /\ \A i \in 1 .. N \ O : w[i] = 0 /\ f[i] = 0
    <3>1. \A i \in O : f[i] = s(i) /\ w[i] = evs[i].weight
      BY <1>2, <2>1
    <3>2. \A i \in 1 .. N \ O : w[i] = 0 /\ f[i] = 0
      BY <2>1
    <3>3. ASSUME NEW i \in O PROVE W * f[i] <= r * w[i] /\ r * w[i] <= W * f[i] + c * W
      <4> HIDE DEF s, share, weights
      <4> QED
        BY <1>6, <2>7, <3>1
    <3> QED
      BY <3>2, <3>3
  <2> HIDE DEF share, weights
  <2>3. f \in [1 .. N -> Int] /\ w \in [1 .. N -> Int] /\ Total(w) = W
    BY <1>7, <1>8, <2>1
  <2>4. Total(f) <= r /\ r <= Total(f) + c * Cardinality(O)
    <3>1. /\ N \in Nat /\ O \in SUBSET (1 .. N) /\ r \in Int /\ W \in Nat \ {0}
          /\ Cardinality(O) \in Nat
      BY <1>2, <1>3
    <3> QED
      BY <2>2, <2>3, <3>1, SumOfParts
  <2>5. PICK S \in Int, k \in Nat : S = Total(f) /\ k = Cardinality(O)
    BY <1>2, <1>10, <2>1
  <2>6. S <= r /\ r <= S + 100 * k
    BY <2>4, <2>5, <2>7
  <2> QED
    BY <1>2, <2>1, <2>5, <2>6
<1>18. /\ lost \in Int /\ m \in Nat /\ m <= Cardinality(O)
       /\ 100 * m <= lost /\ lost < 100 * m + 100
  <2> HIDE DEF lost
  <2>1. lost \in Int
    <3> HIDE DEF share
    <3> QED
      BY <1>2, <1>10 DEF lost
  <2>2. PICK x \in Int, k \in Nat : x = lost /\ k = Cardinality(O)
    BY <1>2, <2>1
  <2>3. 0 <= x /\ x <= 100 * k
    BY <1>17, <2>2
  <2>4. x \div 100 \in Nat /\ x \div 100 <= k /\ 100 * (x \div 100) <= x /\ x < 100 * (x \div 100) + 100
    BY <2>3
  <2>5. m = x \div 100
    BY <2>2 DEF Amp
  <2> HIDE DEF m
  <2> QED
    BY <2>1, <2>2, <2>4, <2>5
<1>19. Cardinality(P) = m
  <2> HIDE DEF m
  <2>1. Cardinality(P) \in Nat /\ Cardinality(P) <= m /\ (Cardinality(P) = m \/ P = O)
    <3>1. PICK k \in Nat : k = m
      BY <1>18
    <3>2. O \in SUBSET DOMAIN evs
      BY <1>2
    <3>3. LET Q == {i \in O : Rank(evs, O, i) < k}
          IN  /\ Cardinality(Q) \in Nat /\ Cardinality(Q) <= k
              /\ Cardinality(Q) = k \/ Q = O
      BY <3>2, PrefixSize
    <3> QED
      BY <3>1, <3>3
  <2> HIDE DEF P
  <2> QED
    BY <1>2, <1>18, <2>1
<1>20. Total(bonus) = 100 * m
  <2>1. P \in SUBSET (1 .. N)
    BY <1>2
  <2> HIDE DEF P
  <2>2. Total([i \in 1 .. N |-> IF i \in P THEN 100 ELSE 0]) = 100 * Cardinality(P)
    BY <1>2, <2>1, SumConst
  <2> QED
    BY <1>19, <2>2
<1>21. \A i \in 1 .. N :
         /\ i \in O => L[i] = s(i) + (IF Rank(evs, O, i) < m THEN 100 ELSE 0)
         /\ i \notin O => L[i] = limit[i]
  BY <1>1, <1>2 DEF ShareOut, Amp
<1>22. DOMAIN L = 1 .. N
  BY <1>1, <1>2 DEF ShareOut
<1>23. L \in [1 .. N -> Int]
  <2>1. L = [i \in 1 .. N |-> L[i]]
    BY <1>1, <1>2, <1>22 DEF ShareOut
  <2>2. \A i \in 1 .. N : L[i] \in Int
    <3> HIDE DEF L, s, m
    <3> QED
      BY <1>2, <1>6, <1>21
  <2> HIDE DEF L
  <2> QED
    BY <2>1, <2>2
<1> DEFINE extra == [i \in 1 .. N |-> share[i] + bonus[i]]
<1>24. Total(L) = Total(limit) + (Total(share) + 100 * m)
  <2>1. extra \in [1 .. N -> Int]
    <3> HIDE DEF share, bonus
    <3> QED
      BY <1>7
  <2>2. Total(extra) = Total(share) + Total(bonus)
    <3>1. \A i \in 1 .. N : extra[i] = share[i] + bonus[i]
      <4> HIDE DEF share, bonus
      <4> QED
        BY <1>7
    <3>2. PICK f, g, h : f = share /\ g = bonus /\ h = extra
      OBVIOUS
    <3> HIDE DEF share, bonus, extra
    <3>3. Total(h) = Total(f) + Total(g)
      BY <1>2, <1>7, <2>1, <3>1, <3>2, SumAdd
    <3> QED
      BY <3>2, <3>3
  <2>3. \A i \in 1 .. N : L[i] = limit[i] + extra[i]
    <3> SUFFICES ASSUME NEW i \in 1 .. N PROVE L[i] = limit[i] + extra[i]
      OBVIOUS
    <3>1. limit[i] \in Int /\ L[i] \in Int
      <4> HIDE DEF L
      <4> QED
        BY <1>2, <1>23
    <3>2. CASE i \in O
      <4>1. extra[i] = s(i) + (IF Rank(evs, O, i) < m THEN 100 ELSE 0)
        <5>1. share[i] = s(i) /\ bonus[i] = (IF Rank(evs, O, i) < m THEN 100 ELSE 0)
          <6> HIDE DEF s, m
          <6> QED
            BY <3>2
        <5> HIDE DEF share, bonus, s, m
        <5> QED
          BY <5>1
      <4>2. extra[i] = L[i] /\ limit[i] = 0
        <5> HIDE DEF L, extra, s, m
        <5> QED
          BY <1>2, <1>21, <3>2, <4>1
      <4> HIDE DEF L, extra
      <4> QED
        BY <3>1, <4>2
    <3>3. CASE i \notin O
      <4>1. extra[i] = 0
        <5>1. share[i] = 0 /\ bonus[i] = 0
          <6> HIDE DEF s, m
          <6> QED
            BY <3>3
        <5> HIDE DEF share, bonus
        <5> QED
          BY <5>1
      <4>2. L[i] = limit[i]
        <5> HIDE DEF L
        <5> QED
          BY <1>21, <3>3
      <4> HIDE DEF L, extra
      <4> QED
        BY <3>1, <4>1, <4>2
    <3> QED
      BY <3>2, <3>3
  <2>4. Total(L) = Total(limit) + Total(extra)
    <3>1. PICK g, h : g = extra /\ h = L
      OBVIOUS
    <3> HIDE DEF L, extra
    <3>2. Total(h) = Total(limit) + Total(g)
      BY <1>2, <1>23, <2>1, <2>3, <3>1, SumAdd
    <3> QED
      BY <3>1, <3>2
  <2> HIDE DEF L, extra, share, bonus
  <2> QED
    BY <1>20, <2>2, <2>4
<1>25. Total(L) <= Total(limit) + r /\ Total(L) > Total(limit) + r - 100
  <2>1. PICK T \in Int : T = Total(limit)
    BY <1>2, VectorSums
  <2>2. PICK S \in Int : S = Total(share)
    BY <1>10
  <2>3. PICK k \in Nat : k = m
    BY <1>18
  <2>4. 100 * k <= r - S /\ r - S < 100 * k + 100
    <3> HIDE DEF m, share
    <3> QED
      BY <1>18, <2>2, <2>3
  <2>5. Total(L) = T + (S + 100 * k)
    <3> HIDE DEF m, share, L
    <3> QED
      BY <1>24, <2>1, <2>2, <2>3
  <2> HIDE DEF L
  <2> QED
    BY <1>2, <2>1, <2>4, <2>5
<1>26. \A i \in O : L[i] >= 600
  <2> HIDE DEF L, s, m
  <2> QED
    BY <1>2, <1>6, <1>21
<1>27. ASSUME NEW i \in O, NEW j \in O
       PROVE  /\ evs[i].weight > evs[j].weight => L[i] >= L[j]
              /\ evs[i].weight = evs[j].weight => L[i] - L[j] <= 100
  <2>1. /\ L[i] = s(i) + (IF Rank(evs, O, i) < m THEN 100 ELSE 0)
        /\ L[j] = s(j) + (IF Rank(evs, O, j) < m THEN 100 ELSE 0)
    BY <1>2, <1>21
  <2>2. s(i) \in Int /\ s(j) \in Int
    BY <1>6
  <2>3. PICK v, w \in Nat \ {0} : v = evs[i].weight /\ w = evs[j].weight
    BY <1>2, <1>3
  <2>4. CASE v > w
    <3>1. Share(r, w, W) <= Share(r, v, W)
      BY <1>3, <1>5, <2>4, ShareMonotone
    <3>2. s(j) <= s(i)
      BY <2>3, <3>1
    <3>3. Precedes(evs, i, j)
      BY <2>3, <2>4 DEF Precedes
    <3>4. Rank(evs, O, i) < Rank(evs, O, j) /\ Rank(evs, O, i) \in Nat /\ Rank(evs, O, j) \in Nat
      BY <1>2, <3>3, RankOrder, RankType
    <3> HIDE DEF L, s, m
    <3> QED
      BY <1>18, <2>1, <2>2, <2>3, <2>4, <3>2, <3>4
  <2>5. CASE v = w
    <3>1. s(i) = s(j)
      BY <2>3, <2>5
    <3> HIDE DEF L, s, m
    <3> QED
      BY <2>1, <2>2, <2>3, <2>5, <3>1
  <2>6. CASE v < w
    BY <2>3, <2>6
  <2> QED
    BY <2>3, <2>4, <2>5, <2>6
<1> HIDE DEF L, s, share, weights, lost, m, P, bonus, extra
<1>28. L \in [DOMAIN evs -> Int] /\ \A i \in DOMAIN evs \ d.open : L[i] = d.limit[i]
  BY <1>1, <1>2, <1>21, <1>23
<1>29. Total(L) <= Total(d.limit) + d.rest /\ Total(L) > Total(d.limit) + d.rest - Amp
  BY <1>1, <1>25 DEF Amp
<1>30. \A i \in d.open : L[i] >= MinAmps
  BY <1>1, <1>26 DEF MinAmps, Amp
<1>31. \A i, j \in d.open : /\ evs[i].weight > evs[j].weight => L[i] >= L[j]
                            /\ evs[i].weight = evs[j].weight => L[i] - L[j] <= Amp
  BY <1>1, <1>27 DEF Amp
<1> QED
  BY <1>28, <1>29, <1>30, <1>31 DEF L

(***************************************************************************)
(* The result                                                              *)
(***************************************************************************)

(* Row i has the limit the underload loop holds it at.                     *)
HeldAt(maxA, evs, L, i) ==
  Underloaded(maxA, evs[i], WeightOf(evs, Admitted(maxA, evs))) /\ L[i] = Needed(evs[i])

(* What a distribution promises of its limits.                             *)
Outcome(maxA, evs, L) ==
  LET A == Admitted(maxA, evs)
      free == {i \in A : ~HeldAt(maxA, evs, L, i)}
  IN  /\ L \in [DOMAIN evs -> Int]
      /\ \A i \in DOMAIN evs : IF i \in A THEN L[i] >= MinAmps ELSE L[i] = 0
      /\ Total(L) > maxA => /\ free # A /\ \A i \in free : L[i] = MinAmps
                            /\ Total(L) - maxA < MinAmps * Cardinality(A)
      /\ Capacity(maxA) > 0 => Total(L) > maxA - Amp
      /\ \A i, j \in free :
           /\ evs[i].weight > evs[j].weight => L[i] >= L[j]
           /\ evs[i].weight = evs[j].weight => L[i] - L[j] <= Amp

(* A vector of zeros adds up to zero.                                      *)
LEMMA ZeroTotal ==
  ASSUME NEW maxA, NEW evs, IsBlock(maxA, evs), NEW f \in [DOMAIN evs -> Int],
         \A i \in DOMAIN evs : f[i] = 0
  PROVE  Total(f) = 0
<1>1. DOMAIN evs = 1 .. Len(evs) /\ Len(evs) \in Nat
  BY BlockRows
<1>2. PICK N \in Nat : N = Len(evs)
  BY <1>1
<1>3. f \in [1 .. N -> Int] /\ \A n \in 1 .. N : f[n] = 0 * f[n]
  <2>1. \A n \in 1 .. N : f[n] = 0
    BY <1>1, <1>2
  <2> QED
    BY <1>1, <1>2, <2>1
<1>4. Total(f) = 0 * Total(f) /\ Total(f) \in Int
  <2>1. PICK a \in Int : a = 0
    OBVIOUS
  <2>2. Total(f) = a * Total(f)
    BY <1>3, <2>1, SumScale
  <2> QED
    BY <1>3, <2>1, <2>2, VectorSums
<1> QED
  BY <1>4

(* The outcome when several rows are admitted: the loops and the shares.   *)
LEMMA ManyAdmitted ==
  ASSUME NEW maxA, NEW evs, IsBlock(maxA, evs), Cardinality(Admitted(maxA, evs)) > 1
  PROVE  Outcome(maxA, evs, CalculateLimits(maxA, evs))
<1>1. PICK A, s, d, L :
        /\ A = Admitted(maxA, evs)
        /\ s = HoldUnderloaded(maxA, evs, Start(maxA, evs))
        /\ d = RaiseToMinimum(maxA, evs, s)
        /\ L = ShareOut(evs, d)
  OBVIOUS
<1>2. CalculateLimits(maxA, evs) = L
  BY <1>1 DEF CalculateLimits, Start, DistributeWeightedRest
<1>3. Holding(maxA, evs, s)
  BY <1>1, HeldResult
<1>4. Raising(maxA, evs, s, d) /\ BelowMin(evs, d) = {}
  BY <1>1, <1>3, RaisedResult
<1>5. /\ A \subseteq DOMAIN evs /\ IsFiniteSet(A) /\ Cardinality(A) \in Nat
      /\ 600 * Cardinality(A) <= maxA /\ maxA \in Nat
  BY <1>1, AdmittedRows DEF IsBlock, MinAmps, Amp
<1>6. /\ s \in Dist(evs) /\ s.open \subseteq A /\ s.open # {} /\ s.rest > 0
      /\ Total(s.limit) + s.rest = maxA
      /\ \A i \in DOMAIN evs : i \notin A \/ i \in s.open => s.limit[i] = 0
      /\ \A i \in A \ s.open : /\ Underloaded(maxA, evs[i], WeightOf(evs, A))
                               /\ s.limit[i] = Needed(evs[i])
  BY <1>1, <1>3 DEF Holding
<1>7. /\ d \in Dist(evs) /\ d.open \subseteq s.open
      /\ Total(d.limit) + d.rest = maxA
      /\ \A i \in DOMAIN evs \ s.open : d.limit[i] = s.limit[i]
      /\ \A i \in d.open : d.limit[i] = 0
      /\ \A i \in s.open \ d.open : d.limit[i] = 600
      /\ d.rest + 600 * (Cardinality(s.open) - Cardinality(d.open)) = s.rest
      /\ d.open = {} => d.rest < 0
      /\ \A k \in s.open \ d.open : \A j \in d.open : ~(evs[j].weight <= evs[k].weight)
  BY <1>4 DEF Raising, MinAmps, Amp
<1>8. /\ s.open \in SUBSET DOMAIN evs /\ s.rest \in Int /\ s.limit \in [DOMAIN evs -> Int]
      /\ d.open \in SUBSET DOMAIN evs /\ d.rest \in Int /\ d.limit \in [DOMAIN evs -> Int]
      /\ IsFiniteSet(s.open) /\ Cardinality(s.open) \in Nat
  <2>1. /\ s.open \in SUBSET DOMAIN evs /\ s.rest \in Int /\ s.limit \in [DOMAIN evs -> Int]
        /\ d.open \in SUBSET DOMAIN evs /\ d.rest \in Int /\ d.limit \in [DOMAIN evs -> Int]
    BY <1>6, <1>7 DEF Dist
  <2> QED
    BY <2>1, RankType
<1>9. /\ L \in [DOMAIN evs -> Int]
      /\ \A i \in DOMAIN evs \ d.open : L[i] = d.limit[i]
      /\ \A i \in d.open : L[i] >= 600
  <2>1. CASE d.open # {}
    BY <1>1, <1>4, <1>7, <2>1, ShareOutFacts DEF MinAmps, Amp
  <2>2. CASE d.open = {}
    <3>1. DOMAIN L = DOMAIN evs /\ \A i \in DOMAIN evs : L[i] = d.limit[i]
      BY <1>1, <1>8, <2>2 DEF ShareOut
    <3>2. L = [i \in DOMAIN evs |-> L[i]]
      BY <1>1, <1>8 DEF ShareOut
    <3> QED
      BY <1>8, <2>2, <3>1, <3>2
  <2> QED
    BY <2>1, <2>2
<1>10. Total(d.limit) \in Int
  BY <1>8, BlockRows, VectorSums
<1>11. \A i \in A \ s.open : Underloaded(maxA, evs[i], WeightOf(evs, A)) /\ L[i] = Needed(evs[i])
  BY <1>5, <1>6, <1>7, <1>9
<1>12. \A i \in s.open \ d.open : L[i] = 600
  BY <1>7, <1>8, <1>9
<1>13. \A i \in DOMAIN evs : IF i \in A THEN L[i] >= MinAmps ELSE L[i] = 0
  <2> SUFFICES ASSUME NEW i \in DOMAIN evs PROVE IF i \in A THEN L[i] >= MinAmps ELSE L[i] = 0
    OBVIOUS
  <2>1. CASE i \notin A
    BY <1>6, <1>7, <1>9, <2>1
  <2>2. CASE i \in A \ s.open
    <3>1. Needed(evs[i]) \in Int /\ MinAmps <= Needed(evs[i]) /\ L[i] = Needed(evs[i])
      BY <1>11, <2>2, NeededBounds
    <3> QED
      BY <2>2, <3>1 DEF MinAmps, Amp
  <2>3. CASE i \in s.open
    BY <1>6, <1>9, <1>12, <2>3 DEF MinAmps, Amp
  <2> QED
    BY <2>1, <2>2, <2>3
<1> DEFINE free == {i \in A : ~HeldAt(maxA, evs, L, i)}
<1>14. free \subseteq s.open
  BY <1>1, <1>11 DEF HeldAt
<1> HIDE DEF free
<1>15. CASE d.open = {}
  <2>1. Total(L) = Total(d.limit) /\ d.rest < 0
    <3>1. L = d.limit
      <4>1. \A i \in DOMAIN evs : L[i] = d.limit[i]
        BY <1>9, <1>15
      <4> QED
        BY <1>8, <1>9, <4>1
    <3> QED
      BY <1>7, <1>15, <3>1
  <2>2. Total(L) > maxA - Amp
    BY <1>5, <1>7, <1>8, <1>10, <2>1 DEF Amp
  <2>3. \A i \in free : L[i] = 600
    BY <1>12, <1>14, <1>15
  <2>4. Cardinality(d.open) = 0
    BY <1>15, FS_EmptySet
  <2>5. free # A
    <3> SUFFICES ASSUME free = A PROVE FALSE
      OBVIOUS
    <3>1. s.open = A
      BY <1>6, <1>14
    <3>2. \A i \in DOMAIN evs : s.limit[i] = 0
      BY <1>6, <3>1
    <3>3. Total(s.limit) = 0
      BY <1>8, <3>2, ZeroTotal
    <3> QED
      BY <1>5, <1>6, <1>7, <1>8, <2>1, <2>4, <3>1, <3>3
  <2>6. Total(L) - maxA < MinAmps * Cardinality(A)
    <3>1. Cardinality(s.open) <= Cardinality(A)
      BY <1>5, <1>6, FS_Subset
    <3> QED
      BY <1>5, <1>6, <1>7, <1>8, <1>10, <2>1, <2>4, <3>1 DEF MinAmps, Amp
  <2>7. \A i, j \in free : /\ L[i] >= L[j] /\ L[i] - L[j] <= Amp
    BY <2>3 DEF Amp
  <2> QED
    BY <1>1, <1>2, <1>9, <1>13, <2>2, <2>3, <2>5, <2>6, <2>7 DEF Outcome, free, MinAmps, Amp
<1>16. CASE d.open # {}
  <2>1. /\ Total(L) <= Total(d.limit) + d.rest
        /\ Total(L) > Total(d.limit) + d.rest - Amp
        /\ \A i, j \in d.open : /\ evs[i].weight > evs[j].weight => L[i] >= L[j]
                                /\ evs[i].weight = evs[j].weight => L[i] - L[j] <= Amp
    BY <1>1, <1>4, <1>7, <1>16, ShareOutFacts
  <2>2. Total(L) <= maxA /\ Total(L) > maxA - Amp
    BY <1>5, <1>7, <1>8, <1>10, <2>1 DEF Amp
  <2>3. Total(L) \in Int
    BY <1>9, BlockRows, VectorSums
  <2>4. ASSUME NEW i \in free, NEW j \in free
        PROVE  /\ evs[i].weight > evs[j].weight => L[i] >= L[j]
               /\ evs[i].weight = evs[j].weight => L[i] - L[j] <= Amp
    <3>1. /\ i \in s.open /\ j \in s.open
          /\ evs[i].weight \in Nat /\ evs[j].weight \in Nat /\ L[i] \in Int /\ L[j] \in Int
      <4>1. i \in s.open /\ j \in s.open
        BY <1>14
      <4>2. i \in DOMAIN evs /\ j \in DOMAIN evs
        BY <1>8, <4>1
      <4> QED
        BY <1>9, <4>1, <4>2, BlockRows
    <3>2. CASE i \in d.open /\ j \in d.open
      BY <2>1, <3>2
    <3>3. CASE i \in d.open /\ j \notin d.open
      <4>1. L[i] >= 600 /\ L[j] = 600 /\ ~(evs[i].weight <= evs[j].weight)
        BY <1>7, <1>9, <1>12, <3>1, <3>3
      <4> QED
        BY <3>1, <4>1
    <3>4. CASE i \notin d.open /\ j \in d.open
      <4>1. ~(evs[j].weight <= evs[i].weight)
        BY <1>7, <3>1, <3>4
      <4> QED
        BY <3>1, <4>1
    <3>5. CASE i \notin d.open /\ j \notin d.open
      BY <1>12, <3>1, <3>5 DEF Amp
    <3> QED
      BY <3>2, <3>3, <3>4, <3>5
  <2> QED
    BY <1>1, <1>2, <1>5, <1>9, <1>13, <2>2, <2>3, <2>4 DEF Outcome, free
<1> QED
  BY <1>15, <1>16

(* The outcome when one row is admitted, or none.                          *)
LEMMA FewAdmitted ==
  ASSUME NEW maxA, NEW evs, IsBlock(maxA, evs), ~(Cardinality(Admitted(maxA, evs)) > 1)
  PROVE  Outcome(maxA, evs, CalculateLimits(maxA, evs))
<1>1. PICK A, L, c : /\ A = Admitted(maxA, evs) /\ c = Floor10(maxA)
                     /\ L = [i \in DOMAIN evs |-> IF i \in A THEN c ELSE 0]
  OBVIOUS
<1>2. CalculateLimits(maxA, evs) = L
  BY <1>1 DEF CalculateLimits
<1>3. /\ A \subseteq DOMAIN evs /\ IsFiniteSet(A) /\ Cardinality(A) \in Nat
      /\ 600 * Cardinality(A) <= maxA /\ maxA \in Nat /\ (Capacity(maxA) > 0 => A # {})
  BY <1>1, AdmittedRows DEF IsBlock, MinAmps, Amp
<1>4. /\ c \in Int /\ c <= maxA /\ c > maxA - 100 /\ (maxA >= 600 => c >= 600)
  BY <1>1, <1>3 DEF Floor10, Amp
<1>5. L \in [DOMAIN evs -> Int] /\ \A i \in A : L[i] = c
  BY <1>1, <1>3, <1>4
<1>6. Total(L) = c * Cardinality(A)
  <2>1. DOMAIN evs = 1 .. Len(evs) /\ Len(evs) \in Nat
    BY BlockRows
  <2>2. Total([n \in 1 .. Len(evs) |-> IF n \in A THEN c ELSE 0]) = c * Cardinality(A)
    BY <1>3, <1>4, <2>1, SumConst
  <2> QED
    BY <1>1, <2>1, <2>2
<1>7. Cardinality(A) = 0 \/ Cardinality(A) = 1
  BY <1>1, <1>3
<1>8. Cardinality(A) = 0 <=> A = {}
  BY <1>3, FS_EmptySet
<1>9. \A i \in DOMAIN evs : IF i \in A THEN L[i] >= MinAmps ELSE L[i] = 0
  <2>1. A # {} => c >= 600
    BY <1>3, <1>4, <1>7, <1>8
  <2> QED
    BY <1>1, <2>1 DEF MinAmps, Amp
<1>10. Total(L) <= maxA /\ Total(L) \in Int
  BY <1>3, <1>4, <1>6, <1>7
<1>11. Capacity(maxA) > 0 => Total(L) > maxA - Amp
  BY <1>3, <1>4, <1>6, <1>7, <1>8 DEF Amp
<1>12. \A i, j \in A : L[i] >= L[j] /\ L[i] - L[j] <= Amp
  BY <1>4, <1>5 DEF Amp
<1> QED
  BY <1>1, <1>2, <1>3, <1>5, <1>9, <1>10, <1>11, <1>12 DEF Outcome

(* Every block gets what a distribution promises.                          *)
THEOREM CalculatedOutcome ==
  ASSUME NEW maxA, NEW evs, IsBlock(maxA, evs)
  PROVE  Outcome(maxA, evs, CalculateLimits(maxA, evs))
BY ManyAdmitted, FewAdmitted

===============================================================================
