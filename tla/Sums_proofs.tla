----------------------------- MODULE Sums_proofs -----------------------------
(***************************************************************************)
(* Facts about MapThenSumSet, which adds up what a function says of the    *)
(* members of a finite set.  It picks the members in an order of its own,  *)
(* so that two sums over one set go through it side by side: whatever      *)
(* holds of the terms one by one holds of the sums.  The inductions look   *)
(* for the smallest set, or the least number, for which a fact fails.      *)
(***************************************************************************)
EXTENDS Integers, FiniteSetsExt, FiniteSetTheorems, WellFoundedInduction, TLAPS

\* The sum of f[x] over the members x of S.
Total(f, S) == MapThenSumSet(LAMBDA x : f[x], S)

\* The member of a set the sum deals with next.
Picked(T) == CHOOSE x \in T : TRUE

\* g is f added up over every subset of S.
IsSum(g, f, S) ==
  g = [T \in SUBSET S |-> IF T = {} THEN 0 ELSE f[Picked(T)] + g[T \ {Picked(T)}]]

-----------------------------------------------------------------------------
\* A set of subsets of a finite set has one of which no part is in it.
LEMMA Smallest ==
  ASSUME NEW S, IsFiniteSet(S), NEW W \in SUBSET SUBSET S, W # {}
  PROVE  \E U \in W : \A T \in SUBSET U : T # U => T \notin W
<1>1. IsWellFoundedOn(StrictSubsetOrdering(S), FiniteSubsetsOf(S))
  BY FS_StrictSubsetOrderingWellFounded
<1>2. W \subseteq FiniteSubsetsOf(S)  BY FS_FiniteSubsetsOfFinite
<1>3. PICK U \in W : \A T \in W : <<T, U>> \notin StrictSubsetOrdering(S)
  BY <1>1, <1>2, WFMin
<1>4. ASSUME NEW T \in SUBSET U, T # U, T \in W  PROVE FALSE
  BY <1>3, <1>4 DEF StrictSubsetOrdering
<1> QED  BY <1>4

\* A set of numbers has a least one.
LEMMA Least ==
  ASSUME NEW W \in SUBSET Nat, W # {}
  PROVE  \E n \in W : \A k \in W : n <= k
<1> PICK top \in W : TRUE
  OBVIOUS
<1> DEFINE S == 0 .. top
           V == {0 .. n : n \in W \cap S}
<1>1. V \in SUBSET SUBSET S  OBVIOUS
<1>2. V # {}
  <2>1. top \in W \cap S  OBVIOUS
  <2> QED  BY <2>1
<1>3. IsFiniteSet(S)  BY FS_Interval
<1> HIDE DEF S, V
<1>4. PICK U \in V : \A T \in SUBSET U : T # U => T \notin V
  BY <1>1, <1>2, <1>3, Smallest
<1>5. PICK n \in W \cap S : U = 0 .. n  BY DEF V
<1>6. ASSUME NEW k \in W, k < n  PROVE FALSE
  <2>1. 0 .. k \in V /\ 0 .. k \in SUBSET U  BY <1>5, <1>6 DEF S, V
  <2>2. n \in U /\ n \notin 0 .. k  BY <1>5, <1>6
  <2> QED  BY <1>4, <2>1, <2>2
<1> QED  BY <1>5, <1>6

\* The sum over a part does not depend on the whole.
LEMMA SameSum ==
  ASSUME NEW S, IsFiniteSet(S), NEW U \in SUBSET S, NEW f, NEW g, NEW h,
         IsSum(g, f, S), IsSum(h, f, U)
  PROVE  \A T \in SUBSET U : g[T] = h[T]
<1> DEFINE W == {T \in SUBSET U : g[T] # h[T]}
<1> SUFFICES ASSUME W # {} PROVE FALSE
  OBVIOUS
<1>1. IsFiniteSet(U) /\ W \in SUBSET SUBSET U  BY FS_Subset
<1>a. \A T \in SUBSET U : T \in W <=> g[T] # h[T]  OBVIOUS
<1> HIDE DEF W
<1>2. PICK T \in W : \A R \in SUBSET T : R # T => R \notin W
  BY <1>1, Smallest
<1>3. g[{}] = 0 /\ h[{}] = 0  BY DEF IsSum
<1>4. T \in SUBSET U /\ T # {}  BY <1>1, <1>3, <1>a
<1>5. Picked(T) \in T  BY <1>4 DEF Picked
<1>6. g[T \ {Picked(T)}] = h[T \ {Picked(T)}]  BY <1>2, <1>4, <1>5, <1>a
<1>7. /\ g[T] = f[Picked(T)] + g[T \ {Picked(T)}]
      /\ h[T] = f[Picked(T)] + h[T \ {Picked(T)}]
  BY <1>4 DEF IsSum
<1> QED  BY <1>4, <1>6, <1>7, <1>a

\* Every function can be added up.
LEMMA SumExists ==
  ASSUME NEW S, IsFiniteSet(S), NEW f
  PROVE  \E g : IsSum(g, f, S)
<1> DEFINE W == {U \in SUBSET S : ~ \E g : IsSum(g, f, U)}
<1> SUFFICES ASSUME W # {} PROVE FALSE
  OBVIOUS
<1>a. W \in SUBSET SUBSET S  OBVIOUS
<1>b. \A T \in SUBSET S : T \in W <=> ~ \E g : IsSum(g, f, T)  OBVIOUS
<1> HIDE DEF W
<1>1. PICK U \in W : \A T \in SUBSET U : T # U => T \notin W
  BY <1>a, Smallest
<1>c. U \in SUBSET S  BY <1>a
<1> DEFINE Rest(T) == T \ {Picked(T)}
           sum(T)  == CHOOSE g : IsSum(g, f, T)
           all     == [T \in SUBSET U |->
                         IF T = {} THEN 0 ELSE f[Picked(T)] + sum(Rest(T))[Rest(T)]]
<1>2. \A T \in SUBSET U : T # U => IsSum(sum(T), f, T)  BY <1>1, <1>b, <1>c
<1>3. \A T \in SUBSET U : T # {} => Rest(T) \in SUBSET T /\ Rest(T) # T
  BY DEF Picked
<1>4. ASSUME NEW T \in SUBSET U, T # {}
      PROVE  sum(Rest(T))[Rest(T)] = all[Rest(T)]
  <2> DEFINE R == Rest(T)
  <2>1. R \in SUBSET U /\ R # U /\ IsSum(sum(R), f, R)
    BY <1>2, <1>3, <1>4
  <2>2. CASE R = {}
    BY <2>1, <2>2 DEF IsSum
  <2>3. CASE R # {}
    <3>1. Rest(R) \in SUBSET R /\ Rest(R) # R  BY <1>3, <2>1, <2>3
    <3>2. Rest(R) \in SUBSET U /\ Rest(R) # U  BY <2>1, <3>1
    <3>3. IsSum(sum(Rest(R)), f, Rest(R))  BY <1>2, <3>2
    <3>4. IsFiniteSet(R)
      <4>1. R \in SUBSET S  BY <1>c, <2>1
      <4> HIDE DEF R
      <4> QED  BY <4>1, FS_Subset
    <3>5. sum(R)[Rest(R)] = sum(Rest(R))[Rest(R)]
      <4> DEFINE Q == Rest(R)
      <4>1. IsSum(sum(R), f, R) /\ IsSum(sum(Q), f, Q) /\ Q \in SUBSET R
        BY <2>1, <3>1, <3>3
      <4> HIDE DEF Q, R, sum
      <4>2. \A T1 \in SUBSET Q : sum(R)[T1] = sum(Q)[T1]
        BY <3>4, <4>1, SameSum
      <4> QED  BY <4>2 DEF Q
    <3>6. sum(R)[R] = f[Picked(R)] + sum(R)[Rest(R)]
      BY <2>1, <2>3 DEF IsSum
    <3>7. all[R] = f[Picked(R)] + sum(Rest(R))[Rest(R)]
      BY <2>1, <2>3
    <3> QED  BY <3>5, <3>6, <3>7
  <2> QED  BY <2>2, <2>3
<1>5. all = [T \in SUBSET U |-> IF T = {} THEN 0 ELSE f[Picked(T)] + all[Rest(T)]]
  <2> DEFINE next == [T \in SUBSET U |-> IF T = {} THEN 0 ELSE f[Picked(T)] + all[Rest(T)]]
  <2>1. ASSUME NEW T \in SUBSET U, T # {}
        PROVE  all[T] = f[Picked(T)] + all[Rest(T)]
    <3>1. all[T] = f[Picked(T)] + sum(Rest(T))[Rest(T)]  BY <2>1
    <3> QED  BY <1>4, <2>1, <3>1
  <2>2. all[{}] = 0  OBVIOUS
  <2>3. all = [T \in SUBSET U |-> all[T]]  OBVIOUS
  <2> HIDE DEF all
  <2> QED  BY <2>1, <2>2, <2>3
<1>6. IsSum(all, f, U)  BY <1>5 DEF IsSum
<1> HIDE DEF all
<1> QED  BY <1>6, <1>b, <1>c

LEMMA TotalIsSum ==
  ASSUME NEW S, IsFiniteSet(S), NEW f
  PROVE  \E g : IsSum(g, f, S) /\ Total(f, S) = g[S]
<1> DEFINE g == CHOOSE g : IsSum(g, f, S)
<1>1. IsSum(g, f, S)  BY SumExists
<1>2. Total(f, S) = g[S]
  BY DEF Total, MapThenSumSet, MapThenFoldSet, IsSum, Picked
<1> HIDE DEF g
<1> QED  BY <1>1, <1>2

\* The sum over no members.
LEMMA TotalOfNothing ==
  ASSUME NEW f
  PROVE  Total(f, {}) = 0
<1>1. IsFiniteSet({})  BY FS_EmptySet
<1> QED  BY <1>1, TotalIsSum DEF IsSum

-----------------------------------------------------------------------------
\* An induction over the parts of S: f and g are added up side by side.
LEMMA TotalMonotone ==
  ASSUME NEW S, IsFiniteSet(S), NEW f \in [S -> Int], NEW g \in [S -> Int],
         \A x \in S : f[x] <= g[x]
  PROVE  Total(f, S) <= Total(g, S)
<1> PICK F : IsSum(F, f, S) /\ Total(f, S) = F[S]  BY TotalIsSum
<1> PICK G : IsSum(G, g, S) /\ Total(g, S) = G[S]  BY TotalIsSum
<1> DEFINE W == {T \in SUBSET S : ~ (F[T] \in Int /\ G[T] \in Int /\ F[T] <= G[T])}
<1>1. W \in SUBSET SUBSET S
      /\ \A T \in SUBSET S :
           T \notin W <=> F[T] \in Int /\ G[T] \in Int /\ F[T] <= G[T]
  OBVIOUS
<1> HIDE DEF W
<1>2. ASSUME W # {} PROVE FALSE
  <2>1. PICK T \in W : \A R \in SUBSET T : R # T => R \notin W
    BY <1>1, <1>2, Smallest
  <2>2. {} \notin W
    <3>1. F[{}] = 0 /\ G[{}] = 0  BY DEF IsSum
    <3> QED  BY <1>1, <3>1
  <2>3. T \in SUBSET S /\ T # {}  BY <1>1, <2>2
  <2> DEFINE R == T \ {Picked(T)}
  <2>4. Picked(T) \in S /\ R \in SUBSET T /\ R # T  BY <2>3 DEF Picked
  <2>5. R \notin W  BY <2>1, <2>4
  <2>6. F[T] = f[Picked(T)] + F[R] /\ G[T] = g[Picked(T)] + G[R]
    BY <2>3 DEF IsSum
  <2>7. F[R] \in Int /\ G[R] \in Int /\ F[R] <= G[R]  BY <1>1, <2>3, <2>4, <2>5
  <2>8. f[Picked(T)] \in Int /\ g[Picked(T)] \in Int /\ f[Picked(T)] <= g[Picked(T)]
    BY <2>4
  <2> HIDE DEF R
  <2>9. T \notin W  BY <1>1, <2>3, <2>6, <2>7, <2>8
  <2> QED  BY <2>9
<1> QED  BY <1>1, <1>2

LEMMA TotalType ==
  ASSUME NEW S, IsFiniteSet(S), NEW f \in [S -> Int]
  PROVE  Total(f, S) \in Int
<1> PICK F : IsSum(F, f, S) /\ Total(f, S) = F[S]  BY TotalIsSum
<1> DEFINE W == {T \in SUBSET S : F[T] \notin Int}
<1>1. W \in SUBSET SUBSET S /\ \A T \in SUBSET S : T \notin W <=> F[T] \in Int
  OBVIOUS
<1> HIDE DEF W
<1>2. ASSUME W # {} PROVE FALSE
  <2>1. PICK T \in W : \A R \in SUBSET T : R # T => R \notin W
    BY <1>1, <1>2, Smallest
  <2>2. {} \notin W
    <3>1. F[{}] = 0  BY DEF IsSum
    <3> QED  BY <1>1, <3>1
  <2>3. T \in SUBSET S /\ T # {}  BY <1>1, <2>2
  <2> DEFINE R == T \ {Picked(T)}
  <2>4. Picked(T) \in S /\ R \in SUBSET T /\ R # T  BY <2>3 DEF Picked
  <2>5. F[T] = f[Picked(T)] + F[R]  BY <2>3 DEF IsSum
  <2>6. F[R] \in Int  BY <1>1, <2>1, <2>3, <2>4
  <2> HIDE DEF R
  <2> QED  BY <1>1, <2>3, <2>4, <2>5, <2>6
<1> QED  BY <1>1, <1>2

\* Sums are linear.
LEMMA TotalLinear ==
  ASSUME NEW S, IsFiniteSet(S), NEW f \in [S -> Int], NEW g \in [S -> Int],
         NEW a \in Int, NEW b \in Int
  PROVE  Total([x \in S |-> a * f[x] - b * g[x]], S) = a * Total(f, S) - b * Total(g, S)
<1> DEFINE h == [x \in S |-> a * f[x] - b * g[x]]
<1> PICK F : IsSum(F, f, S) /\ Total(f, S) = F[S]  BY TotalIsSum
<1> PICK G : IsSum(G, g, S) /\ Total(g, S) = G[S]  BY TotalIsSum
<1>0. \A x \in S : h[x] = a * f[x] - b * g[x]  OBVIOUS
<1> HIDE DEF h
<1> PICK H : IsSum(H, h, S) /\ Total(h, S) = H[S]  BY TotalIsSum
<1> DEFINE Fine(T) == F[T] \in Int /\ G[T] \in Int /\ H[T] = a * F[T] - b * G[T]
           W       == {T \in SUBSET S : ~Fine(T)}
<1>1. W \in SUBSET SUBSET S /\ \A T \in SUBSET S : T \notin W <=> Fine(T)
  OBVIOUS
<1> HIDE DEF W
<1>2. ASSUME W # {} PROVE FALSE
  <2>1. PICK T \in W : \A R \in SUBSET T : R # T => R \notin W
    BY <1>1, <1>2, Smallest
  <2>2. Fine({})
    <3>1. F[{}] = 0 /\ G[{}] = 0 /\ H[{}] = 0  BY DEF IsSum
    <3> QED  BY <3>1
  <2>3. T \in SUBSET S /\ T # {}  BY <1>1, <2>2
  <2> DEFINE R == T \ {Picked(T)}
             p == Picked(T)
  <2>4. p \in S /\ R \in SUBSET T /\ R # T  BY <2>3 DEF Picked
  <2>5. F[T] = f[p] + F[R] /\ G[T] = g[p] + G[R] /\ H[T] = h[p] + H[R]
    BY <2>3 DEF IsSum
  <2>6. Fine(R)  BY <1>1, <2>1, <2>3, <2>4
  <2>7. f[p] \in Int /\ g[p] \in Int /\ h[p] = a * f[p] - b * g[p]  BY <1>0, <2>4
  <2> HIDE DEF R, p
  <2>8. Fine(T)
    <3>1. \A x, y, v, w \in Int :
            (a * x - b * y) + (a * v - b * w) = a * (x + v) - b * (y + w)
      OBVIOUS
    <3>2. H[T] = (a * f[p] - b * g[p]) + (a * F[R] - b * G[R])  BY <2>5, <2>6, <2>7
    <3> QED  BY <2>5, <2>6, <2>7, <3>1, <3>2
  <2> QED  BY <1>1, <2>3, <2>8
<1>3. Fine(S)  BY <1>1, <1>2
<1> QED  BY <1>3 DEF h
-----------------------------------------------------------------------------
(***************************************************************************)
(* Fractions of positive numbers, compared by cross-multiplication as in   *)
(* CarbonScaler: f/g is no more than c/e, which is no more than x/y.       *)
(***************************************************************************)
LEMMA Scale ==
  ASSUME NEW a \in Int, NEW b \in Int, NEW k \in Nat, a <= b
  PROVE  a * k <= b * k
OBVIOUS

LEMMA Cancel ==
  ASSUME NEW a \in Int, NEW b \in Int, NEW k \in Nat \ {0}, k * a <= k * b
  PROVE  a <= b
<1> SUFFICES ASSUME b + 1 <= a PROVE FALSE
  OBVIOUS
<1>1. (b + 1) * k <= a * k  BY Scale
<1>2. (b + 1) * k = b * k + k  OBVIOUS
<1> QED  BY <1>1, <1>2

LEMMA Transitive ==
  ASSUME NEW a \in Nat, NEW b \in Nat, NEW c \in Nat, NEW e \in Nat \ {0},
         NEW x \in Nat, NEW y \in Nat,
         a * e <= c * b, c * y <= x * e
  PROVE  a * y <= x * b
<1>1. (a * e) * y <= (c * b) * y  BY Scale
<1>2. (c * y) * b <= (x * e) * b  BY Scale
<1>3. (a * e) * y = e * (a * y)  OBVIOUS
<1>4. (c * b) * y = (c * y) * b  OBVIOUS
<1>5. (x * e) * b = e * (x * b)  OBVIOUS
<1>6. e * (a * y) <= e * (x * b)  BY <1>1, <1>2, <1>3, <1>4, <1>5
<1> QED  BY <1>6, Cancel

\* One of finitely many fractions is no more than any other.
LEMMA Worst ==
  ASSUME NEW S, IsFiniteSet(S), S # {},
         NEW f \in [S -> Nat \ {0}], NEW g \in [S -> Nat \ {0}]
  PROVE  \E m \in S : \A p \in S : f[m] * g[p] <= f[p] * g[m]
<1> DEFINE HasWorst(U) == \E m \in U : \A p \in U : f[m] * g[p] <= f[p] * g[m]
           W == {U \in SUBSET S : U # {} /\ ~HasWorst(U)}
<1> SUFFICES ASSUME W # {} PROVE FALSE
  OBVIOUS
<1>1. W \in SUBSET SUBSET S /\ \A U \in SUBSET S : U \in W <=> U # {} /\ ~HasWorst(U)
  OBVIOUS
<1> HIDE DEF W
<1>2. PICK U \in W : \A T \in SUBSET U : T # U => T \notin W  BY <1>1, Smallest
<1>3. U \in SUBSET S /\ U # {} /\ ~HasWorst(U)  BY <1>1
<1> PICK x \in U : TRUE  BY <1>3
<1>4. x \in S  BY <1>3
<1> DEFINE T == U \ {x}
<1>5. CASE T = {}
  <2>1. \A p \in U : p = x  BY <1>5
  <2>2. f[x] * g[x] <= f[x] * g[x]  BY <1>4
  <2> QED  BY <1>3, <2>1, <2>2
<1>6. CASE T # {}
  <2>1. HasWorst(T)
    <3>1. T \in SUBSET U /\ T # U /\ T \in SUBSET S  BY <1>3
    <3> QED  BY <1>1, <1>2, <1>6, <3>1
  <2> PICK m \in T : \A p \in T : f[m] * g[p] <= f[p] * g[m]  BY <2>1
  <2>2. m \in S /\ m \in U  BY <1>3
  <2>3. CASE f[m] * g[x] <= f[x] * g[m]
    BY <1>3, <2>2, <2>3
  <2>4. CASE f[x] * g[m] <= f[m] * g[x]
    <3>1. ASSUME NEW p \in T PROVE f[x] * g[p] <= f[p] * g[x]
      <4>1. p \in S /\ f[m] * g[p] <= f[p] * g[m]  BY <1>3, <3>1
      <4>2. /\ f[x] \in Nat /\ f[m] \in Nat /\ f[p] \in Nat
            /\ g[x] \in Nat /\ g[m] \in Nat \ {0} /\ g[p] \in Nat
        BY <1>4, <2>2, <4>1
      <4> QED  BY <2>4, <4>1, <4>2, Transitive
    <3>2. f[x] * g[x] <= f[x] * g[x]  BY <1>4
    <3> QED  BY <1>3, <3>1, <3>2
  <2>5. f[m] * g[x] \in Int /\ f[x] * g[m] \in Int  BY <1>4, <2>2
  <2> QED  BY <2>3, <2>4, <2>5
<1> QED  BY <1>5, <1>6

\* Fractions none of which is more than the one before it never rise.
LEMMA Chain ==
  ASSUME NEW N \in Nat, NEW f \in [1 .. N -> Nat \ {0}], NEW g \in [1 .. N -> Nat \ {0}],
         \A n \in 2 .. N : f[n] * g[n - 1] <= f[n - 1] * g[n]
  PROVE  \A n \in 1 .. N : \A m \in 1 .. n : f[n] * g[m] <= f[m] * g[n]
<1> DEFINE Fine(n) == \A m \in 1 .. n : f[n] * g[m] <= f[m] * g[n]
           W == {n \in 1 .. N : ~Fine(n)}
<1> SUFFICES ASSUME W # {} PROVE FALSE
  OBVIOUS
<1>1. W \in SUBSET Nat /\ \A n \in 1 .. N : n \in W <=> ~Fine(n)  OBVIOUS
<1>2. W \subseteq 1 .. N  OBVIOUS
<1> HIDE DEF W
<1>3. PICK n \in W : \A k \in W : n <= k  BY <1>1, Least
<1>4. n \in 1 .. N /\ ~Fine(n)  BY <1>1, <1>2
<1>5. PICK m \in 1 .. n : ~ (f[n] * g[m] <= f[m] * g[n])  BY <1>4
<1>6. m # n
  <2>1. f[n] * g[n] <= f[n] * g[n]  BY <1>4
  <2> QED  BY <1>5, <2>1
<1>7. n - 1 \in 1 .. N /\ n \in 2 .. N /\ m \in 1 .. n - 1 /\ m \in 1 .. N
  BY <1>4, <1>6
<1>8. Fine(n - 1)
  <2>1. n - 1 \notin W  BY <1>3, <1>7
  <2> HIDE DEF Fine
  <2> QED  BY <1>1, <1>7, <2>1
<1>9. f[n - 1] * g[m] <= f[m] * g[n - 1] /\ f[n] * g[n - 1] <= f[n - 1] * g[n]
  BY <1>7, <1>8
<1>10. /\ f[n] \in Nat /\ f[n - 1] \in Nat /\ f[m] \in Nat
       /\ g[n] \in Nat /\ g[n - 1] \in Nat \ {0} /\ g[m] \in Nat
  BY <1>4, <1>7
<1>11. f[n] * g[m] <= f[m] * g[n]
  <2> DEFINE a == f[n]  b == g[n]  c == f[n - 1]  e == g[n - 1]  x == f[m]  y == g[m]
  <2>1. /\ a \in Nat /\ c \in Nat /\ x \in Nat
        /\ b \in Nat /\ e \in Nat \ {0} /\ y \in Nat
        /\ a * e <= c * b /\ c * y <= x * e
    BY <1>9, <1>10
  <2> HIDE DEF a, b, c, e, x, y
  <2>2. a * y <= x * b  BY <2>1, Transitive
  <2> QED  BY <2>2 DEF a, b, x, y
<1> QED  BY <1>5, <1>11

\* What falls as far as m and rises from there is least at m.
LEMMA Valley ==
  ASSUME NEW N \in Nat, NEW G \in [0 .. N -> Int], NEW m \in 0 .. N,
         \A n \in 1 .. m : G[n] <= G[n - 1],
         \A n \in m + 1 .. N : G[n - 1] <= G[n]
  PROVE  \A n \in 0 .. N : G[m] <= G[n]
<1> DEFINE W == {k \in 0 .. N : (m + k <= N /\ G[m] > G[m + k]) \/ (k <= m /\ G[m] > G[m - k])}
<1>1. W \in SUBSET Nat /\ W \subseteq 0 .. N  OBVIOUS
<1>2. ASSUME W # {} PROVE FALSE
  <2>a. \A k \in 0 .. N : k \in W <=> (m + k <= N /\ G[m] > G[m + k]) \/ (k <= m /\ G[m] > G[m - k])
    OBVIOUS
  <2> HIDE DEF W
  <2>1. PICK k \in W : \A j \in W : k <= j  BY <1>1, <1>2, Least
  <2>2. k \in 0 .. N /\ k # 0
    <3>1. k \in 0 .. N  BY <1>1
    <3>2. 0 \in 0 .. N /\ m + 0 = m /\ m - 0 = m /\ G[m] \in Int  OBVIOUS
    <3>3. 0 \notin W  BY <2>a, <3>2
    <3> QED  BY <3>1, <3>3
  <2>3. k - 1 \in 0 .. N /\ k - 1 \notin W  BY <2>1, <2>2
  <2>4. CASE m + k <= N /\ G[m] > G[m + k]
    <3>1. G[m] <= G[m + (k - 1)]  BY <2>2, <2>3, <2>4, <2>a
    <3>2. m + k \in m + 1 .. N /\ m + (k - 1) = (m + k) - 1  BY <2>2, <2>4
    <3>3. G[(m + k) - 1] <= G[m + k]  BY <3>2
    <3>4. G[m] \in Int /\ G[m + k] \in Int /\ G[(m + k) - 1] \in Int  BY <3>2
    <3> QED  BY <2>4, <3>1, <3>2, <3>3, <3>4
  <2>5. CASE k <= m /\ G[m] > G[m - k]
    <3>1. G[m] <= G[m - (k - 1)]  BY <2>2, <2>3, <2>5, <2>a
    <3>2. m - (k - 1) \in 1 .. m /\ m - k = (m - (k - 1)) - 1  BY <2>2, <2>5
    <3>3. G[m - (k - 1)] <= G[m - k]  BY <3>2
    <3>4. G[m] \in Int /\ G[m - k] \in Int /\ G[m - (k - 1)] \in Int  BY <3>2
    <3> QED  BY <2>5, <3>1, <3>3, <3>4
  <2> QED  BY <2>1, <2>2, <2>4, <2>5, <2>a
<1>3. ASSUME NEW n \in 0 .. N, ~ (G[m] <= G[n]) PROVE FALSE
  <2>1. CASE n >= m
    <3>1. n - m \in 0 .. N /\ m + (n - m) = n  BY <2>1
    <3>2. n - m \in W  BY <1>3, <3>1
    <3> QED  BY <1>2, <3>2
  <2>2. CASE n < m
    <3>1. m - n \in 0 .. N /\ m - (m - n) = n /\ m - n <= m  BY <2>2
    <3>2. m - n \in W  BY <1>3, <3>1
    <3> QED  BY <1>2, <3>2
  <2> QED  BY <2>1, <2>2
<1> QED  BY <1>3
=============================================================================
