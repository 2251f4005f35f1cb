------------------------- MODULE MappingGridProofs -------------------------
(***************************************************************************)
(* For any fan, poses, growth step and number of keyframes: the grids stay *)
(* the sum of the tiles, and a growth displaces none of them.              *)
(***************************************************************************)
EXTENDS MappingGrid, FiniteSetTheorems, SequenceTheorems, WellFoundedInduction, TLAPS

----------------------------------------------------------------------------
(* Sums.                                                                   *)

\* Every nonempty set of natural numbers has a least element.
LEMMA LeastOf ==
  ASSUME NEW T \in SUBSET Nat, T # {}
  PROVE  \E m \in T : \A k \in T : m <= k
<1> DEFINE Intervals == {0 .. m : m \in T}
<1>1. \A m \in T : (0 .. m) \in FiniteSubsetsOf(Nat)
  BY FS_Interval DEF FiniteSubsetsOf
<1>2. Intervals \subseteq FiniteSubsetsOf(Nat) /\ Intervals # {}
  BY <1>1
<1>3. PICK x \in Intervals : \A y \in Intervals : ~(<<y, x>> \in StrictSubsetOrdering(Nat))
  BY <1>2, WFMin, FS_StrictSubsetOrderingWellFounded
<1>4. PICK m \in T : x = 0 .. m
  OBVIOUS
<1>5. ASSUME NEW k \in T, k < m PROVE FALSE
  <2>1. 0 .. k \subseteq 0 .. m /\ m \in 0 .. m /\ m \notin 0 .. k
    BY <1>5
  <2>2. <<0 .. k, 0 .. m>> \in StrictSubsetOrdering(Nat)
    BY <2>1 DEF StrictSubsetOrdering
  <2> QED BY <1>3, <1>4, <2>2
<1> QED BY <1>5

\* Induction up to n, for a set in place of a predicate.
LEMMA UpTo ==
  ASSUME NEW n \in Nat, NEW T, 0 \in T, \A k \in 0 .. n - 1 : k \in T => k + 1 \in T
  PROVE  0 .. n \subseteq T
<1> DEFINE Bad == {k \in 0 .. n : k \notin T}
<1>1. ASSUME Bad # {} PROVE FALSE
  <2>1. PICK m \in Bad : \A k \in Bad : m <= k
    <3>1. Bad \in SUBSET Nat
      OBVIOUS
    <3> HIDE DEF Bad
    <3> QED BY <1>1, <3>1, LeastOf
  <2>2. m # 0 /\ m - 1 \in 0 .. n - 1 /\ m - 1 \notin Bad
    BY <2>1
  <2> QED BY <2>2
<1> QED BY <1>1

\* A table of the sums of a function over the subsets of S.
SumTable(I, g, S) ==
  /\ I \in [SUBSET S -> Int] /\ I[{}] = 0
  /\ \A s \in SUBSET S : \A x \in s : I[s] = g[x] + I[s \ {x}]

\* The fold of the library is such a table, in whichever order it picks.
LEMMA SumUnfold ==
  ASSUME NEW S, IsFiniteSet(S), NEW g \in [S -> Int]
  PROVE  \E I : SumTable(I, g, S) /\ SumFunction(g) = I[S]
<1> DEFINE n == Cardinality(S)
           Small(k) == {s \in SUBSET S : Cardinality(s) <= k}
           Pick(s) == CHOOSE x \in s : TRUE
           Step(s, r) == IF s = {} THEN 0 ELSE g[Pick(s)] + r
           Fold(I, k) == I = [s \in Small(k) |-> Step(s, I[s \ {Pick(s)}])]
           Good == {k \in 0 .. n : \E I : Fold(I, k)}
<1>1. /\ n \in Nat
      /\ \A s \in SUBSET S : IsFiniteSet(s) /\ Cardinality(s) \in 0 .. n
      /\ \A s \in SUBSET S : \A x \in s :
           s \ {x} \in SUBSET S /\ Cardinality(s \ {x}) = Cardinality(s) - 1
  BY FS_CardinalityType, FS_Subset, FS_RemoveElement
<1>2. \A s \in SUBSET S : s # {} => Pick(s) \in s
  OBVIOUS
<1> HIDE DEF Pick
<1>3. /\ \A k \in 0 .. n - 1 : \A s \in Small(k + 1) : s # {} => s \ {Pick(s)} \in Small(k)
      /\ \A k \in 0 .. n - 1 : Small(k) \subseteq Small(k + 1)
      /\ Small(n) = SUBSET S
  <2> HIDE DEF n
  <2>1. ASSUME NEW k \in 0 .. n - 1, NEW s \in Small(k + 1), s # {}
        PROVE  s \ {Pick(s)} \in Small(k)
    BY <1>1, <1>2, <2>1
  <2>2. \A k \in 0 .. n - 1 : Small(k) \subseteq Small(k + 1)
    BY <1>1
  <2>3. Small(n) = SUBSET S
    BY <1>1
  <2> HIDE DEF Small
  <2> QED BY <2>1, <2>2, <2>3
<1>4. Small(0) = {{}}
  <2>1. \A s \in SUBSET S : Cardinality(s) = 0 <=> s = {}
    BY <1>1, FS_EmptySet
  <2> QED BY <1>1, <2>1
<1> HIDE DEF Small
<1>5. ASSUME NEW I, NEW k \in 0 .. n - 1, Fold(I, k)
      PROVE  Fold([s \in Small(k + 1) |-> Step(s, I[s \ {Pick(s)}])], k + 1)
  <2> DEFINE J == [s \in Small(k + 1) |-> Step(s, I[s \ {Pick(s)}])]
  <2>1. \A a, b : Step({}, a) = Step({}, b)
    OBVIOUS
  <2> HIDE DEF Step
  <2>2. \A s \in Small(k) : J[s] = I[s]
    BY <1>3, <1>5
  <2> HIDE DEF J
  <2>3. \A s \in Small(k + 1) : s # {} => J[s \ {Pick(s)}] = I[s \ {Pick(s)}]
    BY <1>3, <2>2
  <2>4. \A s \in Small(k + 1) : Step(s, I[s \ {Pick(s)}]) = Step(s, J[s \ {Pick(s)}])
    BY <2>1, <2>3
  <2> QED BY <2>4 DEF J
<1>6. \E I : Fold(I, 0)
  <2>1. Fold([s \in {{}} |-> 0], 0)
    BY <1>4
  <2> QED BY <2>1
<1>7. 0 .. n \subseteq Good
  <2> HIDE DEF Fold
  <2>1. 0 \in Good
    BY <1>1, <1>6
  <2>2. ASSUME NEW k \in 0 .. n - 1, k \in Good PROVE k + 1 \in Good
    <3>1. \E I : Fold(I, k + 1)
      BY <1>5, <2>2
    <3> QED BY <1>1, <3>1
  <2> HIDE DEF Good
  <2> QED BY <1>1, <2>1, <2>2, UpTo
<1> DEFINE All(I) == I = [s \in SUBSET S |-> Step(s, I[s \ {Pick(s)}])]
<1>8. All(CHOOSE I : All(I))
  <2>1. \E I : All(I)
    <3>1. \E I : Fold(I, n)
      <4> HIDE DEF Fold
      <4> QED BY <1>1, <1>7
    <3> QED BY <1>3, <3>1
  <2> HIDE DEF All
  <2> QED BY <2>1
<1>9. DOMAIN g = S
  OBVIOUS
<1>10. SumFunction(g) = (CHOOSE I : All(I))[S]
  <2>1. SumFunction(g) = SumFunctionOnSet(g, S)
    BY <1>9 DEF SumFunction
  <2> QED BY <2>1 DEF SumFunctionOnSet, FoldFunctionOnSet, MapThenFoldSet, Pick
<1>11. PICK I : All(I) /\ SumFunction(g) = I[S]
  BY <1>8, <1>10
<1>12. I[{}] = 0 /\ \A s \in SUBSET S : s # {} => I[s] = g[Pick(s)] + I[s \ {Pick(s)}]
  BY <1>11
<1> DEFINE Ints == {k \in 0 .. n : \A s \in Small(k) : I[s] \in Int}
<1>13. I \in [SUBSET S -> Int]
  <2>1. 0 \in Ints
    <3>1. \A s \in Small(0) : I[s] = 0
      BY <1>4, <1>12
    <3> QED BY <1>1, <3>1
  <2>2. ASSUME NEW k \in 0 .. n - 1, k \in Ints PROVE k + 1 \in Ints
    <3>1. ASSUME NEW s \in Small(k + 1) PROVE I[s] \in Int
      <4>1. CASE s = {} BY <4>1, <1>12
      <4>2. CASE s # {}
        <5>1. s \in SUBSET S
          BY DEF Small
        <5>2. g[Pick(s)] \in Int /\ I[s \ {Pick(s)}] \in Int
          BY <1>2, <1>3, <2>2, <4>2, <5>1
        <5> QED BY <1>12, <4>2, <5>1, <5>2
      <4> QED BY <4>1, <4>2
    <3> QED BY <1>1, <3>1
  <2>3. n \in Ints
    <3> HIDE DEF Ints, n
    <3> QED BY <1>1, <2>1, <2>2, UpTo
  <2> QED BY <1>3, <1>11, <2>3
<1> DEFINE Sums == {k \in 0 .. n : \A s \in Small(k) : \A x \in s : I[s] = g[x] + I[s \ {x}]}
<1>14. \A s \in SUBSET S : \A x \in s : I[s] = g[x] + I[s \ {x}]
  <2>1. 0 \in Sums
    BY <1>1, <1>4
  <2>2. ASSUME NEW k \in 0 .. n - 1, k \in Sums PROVE k + 1 \in Sums
    <3>1. ASSUME NEW s \in Small(k + 1), NEW x \in s PROVE I[s] = g[x] + I[s \ {x}]
      <4> DEFINE c == Pick(s)
      <4>1. s \in SUBSET S /\ c \in s /\ I[s] = g[c] + I[s \ {c}]
        BY <1>2, <1>12 DEF Small
      <4>2. CASE c = x BY <4>1, <4>2
      <4>3. CASE c # x
        <5> HIDE DEF c
        <5>1. s \ {c} \in Small(k) /\ s \ {x} \in Small(k)
          BY <1>1, <4>1 DEF Small
        <5>2. I[s \ {c}] = g[x] + I[(s \ {c}) \ {x}] /\ I[s \ {x}] = g[c] + I[(s \ {x}) \ {c}]
          BY <2>2, <4>1, <4>3, <5>1
        <5>3. (s \ {c}) \ {x} = (s \ {x}) \ {c} /\ (s \ {c}) \ {x} \in SUBSET S
          BY <4>1
        <5> DEFINE r == I[(s \ {c}) \ {x}]
        <5>4. r \in Int /\ g[x] \in Int /\ g[c] \in Int
          BY <1>13, <4>1, <5>3
        <5>5. I[s] = g[c] + (g[x] + r) /\ I[s \ {x}] = g[c] + r
          BY <4>1, <5>2, <5>3
        <5> HIDE DEF r
        <5> QED BY <5>4, <5>5
      <4> QED BY <4>2, <4>3
    <3> QED BY <1>1, <3>1
  <2>3. n \in Sums
    <3> HIDE DEF Sums, n
    <3> QED BY <1>1, <2>1, <2>2, UpTo
  <2> QED BY <1>3, <2>3
<1> QED BY <1>11, <1>12, <1>13, <1>14 DEF SumTable

\* Two tables agree where their functions do.
LEMMA SumAgree ==
  ASSUME NEW S, NEW T, NEW R, IsFiniteSet(R), R \subseteq S, R \subseteq T,
         NEW g \in [S -> Int], NEW h \in [T -> Int], \A x \in R : g[x] = h[x],
         NEW I, NEW J, SumTable(I, g, S), SumTable(J, h, T)
  PROVE  I[R] = J[R]
<1> DEFINE n == Cardinality(R)
           Same == {k \in 0 .. n : \A s \in SUBSET R : Cardinality(s) <= k => I[s] = J[s]}
<1>1. /\ n \in Nat
      /\ \A s \in SUBSET R : Cardinality(s) \in 0 .. n
      /\ \A s \in SUBSET R : Cardinality(s) = 0 <=> s = {}
      /\ \A s \in SUBSET R : \A x \in s :
           s \ {x} \in SUBSET R /\ Cardinality(s \ {x}) = Cardinality(s) - 1
  <2>1. n \in Nat /\ \A s \in SUBSET R : IsFiniteSet(s) /\ Cardinality(s) \in 0 .. n
    BY FS_CardinalityType, FS_Subset
  <2>2. \A s \in SUBSET R : Cardinality(s) = 0 <=> s = {}
    BY <2>1, FS_EmptySet
  <2>3. \A s \in SUBSET R : \A x \in s :
          s \ {x} \in SUBSET R /\ Cardinality(s \ {x}) = Cardinality(s) - 1
    BY <2>1, FS_RemoveElement
  <2> QED BY <2>1, <2>2, <2>3
<1>2. 0 \in Same
  <2>1. \A s \in SUBSET R : Cardinality(s) <= 0 => s = {}
    <3> HIDE DEF n
    <3> QED BY <1>1
  <2>2. I[{}] = J[{}]
    BY DEF SumTable
  <2> QED BY <1>1, <2>1, <2>2
<1>3. ASSUME NEW k \in 0 .. n - 1, k \in Same PROVE k + 1 \in Same
  <2>1. ASSUME NEW s \in SUBSET R, Cardinality(s) <= k + 1 PROVE I[s] = J[s]
    <3>1. CASE s = {} BY <3>1 DEF SumTable
    <3>2. CASE s # {}
      <4>1. PICK x \in s : TRUE
        BY <3>2
      <4>2. I[s] = g[x] + I[s \ {x}] /\ J[s] = h[x] + J[s \ {x}]
        BY <4>1 DEF SumTable
      <4>3. s \ {x} \in SUBSET R /\ Cardinality(s \ {x}) <= k
        BY <1>1, <2>1, <4>1
      <4>4. I[s \ {x}] = J[s \ {x}] /\ g[x] = h[x]
        BY <1>3, <4>1, <4>3
      <4> QED BY <4>2, <4>4
    <3> QED BY <3>1, <3>2
  <2> QED BY <1>1, <2>1
<1>4. n \in Same
  <2> HIDE DEF Same, n
  <2> QED BY <1>1, <1>2, <1>3, UpTo
<1> QED BY <1>4

\* Two functions that differ at most at x: so do their sums.
LEMMA SumChange ==
  ASSUME NEW S, NEW T, IsFiniteSet(S), IsFiniteSet(T), NEW x, S \ {x} = T \ {x},
         NEW g \in [S -> Int], NEW h \in [T -> Int], \A y \in S \ {x} : g[y] = h[y]
  PROVE  /\ SumFunction(g) \in Int /\ SumFunction(h) \in Int
         /\ SumFunction(g) - (IF x \in S THEN g[x] ELSE 0) =
              SumFunction(h) - (IF x \in T THEN h[x] ELSE 0)
<1> DEFINE R == S \ {x}
<1>1. PICK I : SumTable(I, g, S) /\ SumFunction(g) = I[S]
  BY SumUnfold
<1>2. PICK J : SumTable(J, h, T) /\ SumFunction(h) = J[T]
  BY SumUnfold
<1>3. IsFiniteSet(R) /\ R \subseteq S /\ R \subseteq T
  BY FS_Subset
<1>4. I[R] = J[R]
  BY <1>1, <1>2, <1>3, SumAgree
<1>5. I[S] \in Int /\ J[T] \in Int /\ I[R] \in Int
  BY <1>1, <1>2, <1>3 DEF SumTable
<1>6. I[S] - (IF x \in S THEN g[x] ELSE 0) = I[R]
  <2>1. CASE x \in S
    <3>1. I[S] = g[x] + I[R]
      BY <1>1, <2>1 DEF SumTable
    <3> QED BY <2>1, <3>1, <1>5
  <2>2. CASE x \notin S
    <3>1. I[R] = I[S]
      <4>1. R = S
        BY <2>2
      <4> QED BY <4>1
    <3> HIDE DEF R
    <3> QED BY <2>2, <3>1, <1>5
  <2> QED BY <2>1, <2>2
<1>7. J[T] - (IF x \in T THEN h[x] ELSE 0) = J[R]
  <2>1. CASE x \in T
    <3>1. J[T] = h[x] + J[R]
      BY <1>2, <2>1 DEF SumTable
    <3> QED BY <2>1, <3>1, <1>5, <1>4
  <2>2. CASE x \notin T
    <3>1. R = T
      BY <2>2
    <3> QED BY <2>2, <3>1, <1>4, <1>5
  <2> QED BY <2>1, <2>2
<1> QED BY <1>1, <1>2, <1>4, <1>5, <1>6, <1>7

\* The sum of nothing.
LEMMA SumEmpty ==
  ASSUME NEW g, DOMAIN g = {}, g \in [{} -> Int]
  PROVE  SumFunction(g) = 0
BY SumUnfold, FS_EmptySet DEF SumTable

----------------------------------------------------------------------------
(* Bounds and cells.                                                       *)

\* A nonempty set of integers that can be listed: it has a least and a
\* greatest element.
Listed(V) == \E n \in Nat \ {0} : \E h \in [1 .. n -> Int] : V = {h[i] : i \in 1 .. n}

LEMMA Extremes ==
  ASSUME NEW V, Listed(V)
  PROVE  /\ V \subseteq Int
         /\ Min(V) \in V /\ \A v \in V : Min(V) <= v
         /\ Max(V) \in V /\ \A v \in V : Max(V) >= v
<1>0. PICK n \in Nat \ {0} : \E h \in [1 .. n -> Int] : V = {h[i] : i \in 1 .. n}
  BY DEF Listed
<1>1. PICK h \in [1 .. n -> Int] : V = {h[i] : i \in 1 .. n}
  BY <1>0
<1> DEFINE Least(k, m)    == m \in 1 .. k + 1 /\ \A i \in 1 .. k + 1 : h[m] <= h[i]
           Greatest(k, m) == m \in 1 .. k + 1 /\ \A i \in 1 .. k + 1 : h[m] >= h[i]
           Good == {k \in 0 .. n - 1 : (\E m : Least(k, m)) /\ (\E m : Greatest(k, m))}
<1>2. 0 \in Good
  <2>1. Least(0, 1) /\ Greatest(0, 1)
    BY <1>1
  <2> HIDE DEF Least, Greatest
  <2> QED BY <1>1, <2>1
<1>3. ASSUME NEW k \in 0 .. n - 2, k \in Good PROVE k + 1 \in Good
  <2>1. PICK a, b : Least(k, a) /\ Greatest(k, b)
    BY <1>3
  <2>2. k + 2 \in 1 .. n /\ \A i \in 1 .. k + 2 : h[i] \in Int
    BY <1>1
  <2>3. Least(k + 1, a) \/ Least(k + 1, k + 2)
    BY <2>1, <2>2
  <2>4. Greatest(k + 1, b) \/ Greatest(k + 1, k + 2)
    BY <2>1, <2>2
  <2> HIDE DEF Least, Greatest
  <2> QED BY <2>3, <2>4
<1>4. n - 1 \in Good
  <2> DEFINE l == n - 1
  <2>1. l \in Nat /\ l - 1 = n - 2
    BY <1>1
  <2>2. \A k \in 0 .. l - 1 : k \in Good => k + 1 \in Good
    BY <1>3, <2>1
  <2>3. l \in 0 .. l
    BY <2>1
  <2> HIDE DEF Good, l
  <2>4. l \in Good
    BY <1>2, <2>1, <2>2, <2>3, UpTo
  <2> QED BY <2>4 DEF l
<1>5. PICK a, b : Least(n - 1, a) /\ Greatest(n - 1, b)
  BY <1>4
<1>6. a \in 1 .. n /\ b \in 1 .. n /\ \A i \in 1 .. n : h[a] <= h[i] /\ h[b] >= h[i]
  BY <1>5
<1>7. h[a] \in V /\ h[b] \in V /\ \A v \in V : h[a] <= v /\ h[b] >= v
  BY <1>1, <1>6
<1>8. V \subseteq Int
  BY <1>1
<1>9. Min(V) \in V /\ \A v \in V : Min(V) <= v
  BY <1>7 DEF Min
<1>10. Max(V) \in V /\ \A v \in V : Max(V) >= v
  BY <1>7 DEF Max
<1> QED BY <1>8, <1>9, <1>10

LEMMA ListedMore ==
  ASSUME NEW V, Listed(V), NEW v \in Int
  PROVE  Listed({v} \cup V)
<1>0. PICK n \in Nat \ {0} : \E h \in [1 .. n -> Int] : V = {h[i] : i \in 1 .. n}
  BY DEF Listed
<1>1. PICK h \in [1 .. n -> Int] : V = {h[i] : i \in 1 .. n}
  BY <1>0
<1> DEFINE f == [i \in 1 .. n + 1 |-> IF i = n + 1 THEN v ELSE h[i]]
<1>2. f \in [1 .. n + 1 -> Int] /\ n + 1 \in Nat \ {0} /\ f[n + 1] = v
  BY <1>1
<1>3. \A i \in 1 .. n : f[i] = h[i]
  BY <1>1
<1>4. 1 .. n + 1 = (1 .. n) \cup {n + 1}
  BY <1>1
<1> HIDE DEF f
<1>5. {v} \cup V = {f[i] : i \in 1 .. n + 1}
  BY <1>1, <1>2, <1>3, <1>4
<1> QED BY <1>2, <1>5 DEF Listed

\* Enough steps, never fewer than none.
LEMMA StepsCover ==
  ASSUME NEW x \in Int
  PROVE  Steps(x) \in Nat /\ Inc * Steps(x) \in Nat /\ Inc * Steps(x) >= x
<1>1. Inc \in Nat \ {0}
  BY GridAssumption
<1>2. CASE x <= 0
  BY <1>1, <1>2 DEF Steps
<1>3. CASE x > 0
  <2> DEFINE q == (x + Inc - 1) \div Inc
  <2>1. q \in Int /\ Inc * q <= x + Inc - 1 /\ x + Inc - 1 < Inc * q + Inc
    BY <1>1, <1>3
  <2>2. Steps(x) = q
    BY <1>3 DEF Steps
  <2>3. Inc * q \in Int
    BY <1>1, <2>1
  <2> HIDE DEF q
  <2>4. q >= 0
    <3>1. ASSUME q < 0 PROVE FALSE
      <4>1. Inc * q <= Inc * (-1)
        BY <1>1, <2>1, <3>1
      <4> QED BY <1>1, <1>3, <2>1, <2>3, <4>1
    <3> QED BY <2>1, <3>1
  <2> QED BY <1>1, <2>1, <2>2, <2>3, <2>4
<1> QED BY <1>2, <1>3

Placements == UNION {[D -> [Layers -> Int]] : D \in SUBSET (Int \X Int)}
Tile == [pose : Pose, valid : BOOLEAN, neutral : BOOLEAN, cells : Placements]

LEMMA WorldType ==
  ASSUME NEW p \in Pose, NEW i \in DOMAIN Fan
  PROVE  World(p, i) \in Int \X Int
<1>1. Fan[i] \in Int \X Int /\ p.at \in Int \X Int /\ p.yaw \in 0 .. 3
  <2>1. Fan \in Seq(Int \X Int)
    BY GridAssumption
  <2>2. Fan[i] \in Int \X Int
    BY <2>1, ElementOfSeq
  <2>3. p.at \in Int \X Int /\ p.yaw \in 0 .. 3
    BY GridAssumption DEF Pose
  <2> QED BY <2>2, <2>3
<1>2. Turned(Fan[i], p.yaw) \in Int \X Int
  BY <1>1 DEF Turned
<1> QED BY <1>1, <1>2 DEF World, Plus

LEMMA DepositType ==
  ASSUME NEW k \in Nat, NEW i \in Nat, NEW neutral \in BOOLEAN
  PROVE  Deposit(k, i, neutral) \in [Layers -> Int]
<1>1. 10 ^ k \in Int
  OBVIOUS
<1> DEFINE t == 10 ^ k
<1>2. Deposit(k, i, neutral) =
        [logodds   |-> IF neutral THEN 0 ELSE IF i % 2 = 0 THEN t ELSE -t,
         intensity |-> i * t,
         counter   |-> 1]
  BY DEF Deposit
<1>3. t \in Int
  BY <1>1
<1> HIDE DEF t
<1>4. i * t \in Int
  BY <1>3
<1> QED BY <1>2, <1>3, <1>4 DEF Layers

LEMMA PlacementIs ==
  ASSUME NEW cells
  PROVE  cells \in Placements <=>
           \E D \in SUBSET (Int \X Int) : cells \in [D -> [Layers -> Int]]
BY DEF Placements

\* A shift moves the cells and leaves what they hold.
LEMMA ShiftMoves ==
  ASSUME NEW cells \in Placements, NEW shift \in Int \X Int
  PROVE  /\ Shifted(cells, shift) \in Placements
         /\ DOMAIN Shifted(cells, shift) = {Plus(c, shift) : c \in DOMAIN cells}
         /\ \A cell \in Int \X Int :
              /\ cell \in DOMAIN Shifted(cells, shift) <=> Minus(cell, shift) \in DOMAIN cells
              /\ cell \in DOMAIN Shifted(cells, shift) =>
                   Shifted(cells, shift)[cell] = cells[Minus(cell, shift)]
         /\ cells = NoCells => Shifted(cells, shift) = NoCells
<1>1. PICK D \in SUBSET (Int \X Int) : cells \in [D -> [Layers -> Int]]
  BY PlacementIs
<1>2. \A c \in Int \X Int : /\ Plus(c, shift) \in Int \X Int /\ Minus(c, shift) \in Int \X Int
                            /\ Minus(Plus(c, shift), shift) = c
                            /\ Plus(Minus(c, shift), shift) = c
  BY DEF Plus, Minus
<1> DEFINE E == {Plus(c, shift) : c \in D}
<1>3. E \in SUBSET (Int \X Int) /\ \A e \in E : Minus(e, shift) \in D
  BY <1>2
<1>4. \A cell \in Int \X Int : cell \in E <=> Minus(cell, shift) \in D
  BY <1>2
<1>5. DOMAIN cells = D
  BY <1>1
<1>6. Shifted(cells, shift) = [cell \in E |-> cells[Minus(cell, shift)]]
  BY <1>5 DEF Shifted
<1> HIDE DEF E
<1>7. Shifted(cells, shift) \in [E -> [Layers -> Int]]
  BY <1>1, <1>3, <1>6
<1>8. cells = NoCells => Shifted(cells, shift) = NoCells
  <2>1. DOMAIN NoCells = {}
    BY DEF NoCells
  <2> SUFFICES ASSUME cells = NoCells PROVE Shifted(cells, shift) = NoCells
    OBVIOUS
  <2>2. E = {}
    BY <1>5, <2>1 DEF E
  <2>3. \A f : [cell \in {} |-> f[cell]] = [cell \in {} |-> 0]
    OBVIOUS
  <2> QED BY <1>6, <2>2 DEF NoCells
<1> QED BY <1>3, <1>4, <1>5, <1>6, <1>7, <1>8, PlacementIs DEF E

----------------------------------------------------------------------------
(* The invariant.                                                          *)

Types ==
  /\ size \in (Nat \ {0}) \X (Nat \ {0}) /\ origin \in Int \X Int
  /\ \A a \in Axes : low[a] \in Int /\ high[a] \in Int
  /\ tiles \in Seq(Tile)

\* The cached cells are cells of the grids.
Fits(ts, sz) == \A k \in DOMAIN ts : DOMAIN ts[k].cells \subseteq Cells(sz)

\* The grids have a value in every cell, the sum of the tiles.
Sums(g, sz, ts) ==
  \A y \in Layers :
    /\ DOMAIN g[y] = Cells(sz)
    /\ \A cell \in Cells(sz) : g[y][cell] \in Int /\ g[y][cell] = SumFunction(Shares(ts, cell, y))

GridInv == Types /\ Fits(tiles, size) /\ Sums(grid, size, tiles) /\ TilesStayPut

\* The shares of a cell are a finite table of integers.
LEMMA SharesType ==
  ASSUME NEW ts \in Seq(Tile), NEW cell, NEW y \in Layers
  PROVE  /\ IsFiniteSet(DOMAIN Shares(ts, cell, y))
         /\ Shares(ts, cell, y) \in [DOMAIN Shares(ts, cell, y) -> Int]
<1> DEFINE S == {j \in DOMAIN ts : cell \in DOMAIN ts[j].cells}
<1>1. IsFiniteSet(S)
  <2>1. DOMAIN ts = 1 .. Len(ts) /\ Len(ts) \in Nat
    BY SeqDef
  <2>2. IsFiniteSet(1 .. Len(ts))
    BY <2>1, FS_Interval
  <2> QED BY <2>1, <2>2, FS_Subset
<1>2. ASSUME NEW j \in S PROVE ts[j].cells[cell][y] \in Int
  <2>1. ts[j] \in Tile
    BY SeqDef, ElementOfSeq
  <2>2. ts[j].cells \in Placements
    BY <2>1 DEF Tile
  <2>3. PICK D \in SUBSET (Int \X Int) : ts[j].cells \in [D -> [Layers -> Int]]
    BY <2>2, PlacementIs
  <2>4. cell \in D
    BY <2>3
  <2>5. ts[j].cells[cell] \in [Layers -> Int]
    BY <2>3, <2>4
  <2> QED BY <2>5
<1>3. Shares(ts, cell, y) = [j \in S |-> ts[j].cells[cell][y]]
  BY DEF Shares
<1> HIDE DEF S
<1>4. DOMAIN Shares(ts, cell, y) = S
  BY <1>3
<1> QED BY <1>1, <1>2, <1>3, <1>4

\* Cell c of ts holds what cell d of us does, except for keyframe k.
SameBut(ts, us, c, d, k) ==
  /\ (DOMAIN ts) \ {k} = (DOMAIN us) \ {k}
  /\ \A j \in (DOMAIN ts) \ {k} :
       /\ c \in DOMAIN ts[j].cells <=> d \in DOMAIN us[j].cells
       /\ c \in DOMAIN ts[j].cells => ts[j].cells[c] = us[j].cells[d]

\* What keyframe k has in cell c of layer y.
ShareOf(ts, k, c, y) ==
  IF k \in DOMAIN ts /\ c \in DOMAIN ts[k].cells THEN ts[k].cells[c][y] ELSE 0

\* Then the sums of the two cells differ by what keyframe k has there.
LEMMA OneTile ==
  ASSUME NEW ts \in Seq(Tile), NEW us \in Seq(Tile), NEW c, NEW d, NEW y \in Layers, NEW k,
         SameBut(ts, us, c, d, k)
  PROVE  /\ SumFunction(Shares(ts, c, y)) \in Int /\ SumFunction(Shares(us, d, y)) \in Int
         /\ SumFunction(Shares(ts, c, y)) - ShareOf(ts, k, c, y) =
              SumFunction(Shares(us, d, y)) - ShareOf(us, k, d, y)
<1> DEFINE g == Shares(ts, c, y)
           h == Shares(us, d, y)
           S == {j \in DOMAIN ts : c \in DOMAIN ts[j].cells}
           T == {j \in DOMAIN us : d \in DOMAIN us[j].cells}
<1>1. g = [j \in S |-> ts[j].cells[c][y]] /\ h = [j \in T |-> us[j].cells[d][y]]
  BY DEF Shares
<1>2. IsFiniteSet(DOMAIN g) /\ g \in [DOMAIN g -> Int] /\ IsFiniteSet(DOMAIN h) /\ h \in [DOMAIN h -> Int]
  BY SharesType
<1>3. S \ {k} = T \ {k}
  BY DEF SameBut
<1>4. \A j \in S \ {k} : ts[j].cells[c][y] = us[j].cells[d][y]
  BY DEF SameBut
<1>5. /\ k \in S => g[k] = ts[k].cells[c][y]
      /\ k \in T => h[k] = us[k].cells[d][y]
  <2> HIDE DEF S, T, g, h
  <2> QED BY <1>1
<1>6. /\ k \in S <=> k \in DOMAIN ts /\ c \in DOMAIN ts[k].cells
      /\ k \in T <=> k \in DOMAIN us /\ d \in DOMAIN us[k].cells
  OBVIOUS
<1>7. DOMAIN g = S /\ DOMAIN h = T /\ \A j \in S \ {k} : g[j] = h[j]
  <2> HIDE DEF S, T, g, h
  <2> QED BY <1>1, <1>3, <1>4
<1>8. /\ SumFunction(g) \in Int /\ SumFunction(h) \in Int
      /\ SumFunction(g) - (IF k \in S THEN g[k] ELSE 0) =
           SumFunction(h) - (IF k \in T THEN h[k] ELSE 0)
  <2> HIDE DEF S, T, g, h
  <2>1. IsFiniteSet(S) /\ IsFiniteSet(T) /\ g \in [S -> Int] /\ h \in [T -> Int]
    BY <1>2, <1>7
  <2>2. \A j \in S \ {k} : g[j] = h[j]
    BY <1>7
  <2> QED BY <1>3, <2>1, <2>2, SumChange, SMTT(30)
<1>9. /\ (IF k \in S THEN g[k] ELSE 0) = ShareOf(ts, k, c, y)
      /\ (IF k \in T THEN h[k] ELSE 0) = ShareOf(us, k, d, y)
  <2> HIDE DEF S, T, g, h
  <2> QED BY <1>5, <1>6 DEF ShareOf
<1> QED BY <1>8, <1>9

\* What a placement computes: how far the grids grow and shift, and the cells
\* that the pixels fall into.
Raw(p)   == {Minus(World(p, i), origin) : i \in DOMAIN Fan}
Shift(p) == <<Inc * Before(Raw(p), 1), Inc * Before(Raw(p), 2)>>
Grown(p) == [a \in Axes |-> size[a] + Shift(p)[a] + Inc * After(Raw(p), a)]
First(p, c) == Min({i \in DOMAIN Fan : Plus(Minus(World(p, i), origin), Shift(p)) = c})
Placed(k, p, neutral) ==
  [c \in {Plus(r, Shift(p)) : r \in Raw(p)} |-> Deposit(k, First(p, c), neutral)]
Moved(others, shift) ==
  [j \in DOMAIN others |-> [others[j] EXCEPT !.cells = Shifted(@, shift)]]

LEMMA PlaceIs ==
  ASSUME NEW k, NEW p, NEW neutral, NEW g, NEW others, Place(k, p, neutral, g, others)
  PROVE  /\ size' = <<Grown(p)[1], Grown(p)[2]>>
         /\ origin' = Minus(origin, Shift(p))
         /\ low'  = [a \in Axes |-> Min({low[a] + Shift(p)[a]} \cup
                                        {c[a] : c \in DOMAIN Placed(k, p, neutral)})]
         /\ high' = [a \in Axes |-> Max({high[a] + Shift(p)[a]} \cup
                                        {c[a] : c \in DOMAIN Placed(k, p, neutral)})]
         /\ grid' = Deposited(Regrown(g, Shift(p), Grown(p)), Placed(k, p, neutral), 1)
         /\ LET tile == [pose |-> p, valid |-> TRUE, neutral |-> neutral,
                         cells |-> Placed(k, p, neutral)]
            IN  tiles' = IF k \in DOMAIN others
                           THEN [Moved(others, Shift(p)) EXCEPT ![k] = tile]
                           ELSE Append(Moved(others, Shift(p)), tile)
BY DEF Place, Raw, Shift, Grown, First, Placed, Moved

\* The grids grow until every pixel of the fan has a cell.
LEMMA GrowthCovers ==
  ASSUME Types, NEW p \in Pose
  PROVE  /\ Raw(p) \in SUBSET (Int \X Int) /\ Raw(p) # {}
         /\ \A a \in Axes : Listed({r[a] : r \in Raw(p)})
         /\ Shift(p) \in Nat \X Nat
         /\ \A a \in Axes : /\ Grown(p)[a] \in Nat \ {0} /\ Grown(p)[a] >= size[a] + Shift(p)[a]
                            /\ \A r \in Raw(p) : r[a] + Shift(p)[a] \in 0 .. Grown(p)[a] - 1
<1> DEFINE n == Len(Fan)
           at == [i \in 1 .. n |-> Minus(World(p, i), origin)]
<1>1. n \in Nat \ {0} /\ DOMAIN Fan = 1 .. n
  <2>1. Fan \in Seq(Int \X Int) /\ Fan # <<>>
    BY GridAssumption
  <2> QED BY <2>1, EmptySeq
<1>2. \A i \in 1 .. n : at[i] \in Int \X Int
  <2>1. ASSUME NEW i \in 1 .. n PROVE Minus(World(p, i), origin) \in Int \X Int
    <3>1. World(p, i) \in Int \X Int /\ origin \in Int \X Int
      BY <1>1, WorldType DEF Types
    <3> QED BY <3>1 DEF Minus
  <2> QED BY <2>1
<1>3. Raw(p) = {at[i] : i \in 1 .. n}
  BY <1>1 DEF Raw
<1> HIDE DEF at, n
<1>4. Raw(p) \in SUBSET (Int \X Int) /\ Raw(p) # {}
  BY <1>1, <1>2, <1>3
<1>5. ASSUME NEW a \in Axes PROVE Listed({r[a] : r \in Raw(p)})
  <2> DEFINE h == [i \in 1 .. n |-> at[i][a]]
  <2>1. h \in [1 .. n -> Int]
    BY <1>2 DEF Axes
  <2>2. {r[a] : r \in Raw(p)} = {h[i] : i \in 1 .. n}
    BY <1>3
  <2> HIDE DEF h
  <2> QED BY <1>1, <2>1, <2>2 DEF Listed
<1>6. ASSUME NEW a \in Axes
      PROVE  /\ Inc * Before(Raw(p), a) \in Nat /\ Inc * After(Raw(p), a) \in Nat
             /\ \A r \in Raw(p) : /\ r[a] + Inc * Before(Raw(p), a) >= 0
                                  /\ r[a] + 1 - size[a] <= Inc * After(Raw(p), a)
  <2> DEFINE V == {r[a] : r \in Raw(p)}
             lo == Min(V)
             hi == Max(V)
  <2>1. V \subseteq Int /\ lo \in V /\ hi \in V /\ \A v \in V : lo <= v /\ hi >= v
    BY <1>5, Extremes
  <2>2. size[a] \in Int
    BY DEF Types, Axes
  <2>3. Before(Raw(p), a) = Steps(-lo) /\ After(Raw(p), a) = Steps(hi + 1 - size[a])
    BY DEF Before, After
  <2>4. \A r \in Raw(p) : r[a] \in V
    OBVIOUS
  <2> HIDE DEF V, lo, hi
  <2>5. -lo \in Int /\ hi + 1 - size[a] \in Int
    BY <2>1, <2>2
  <2>6. /\ Inc * Before(Raw(p), a) \in Nat /\ Inc * Before(Raw(p), a) >= -lo
        /\ Inc * After(Raw(p), a) \in Nat /\ Inc * After(Raw(p), a) >= hi + 1 - size[a]
    BY <2>3, <2>5, StepsCover
  <2> DEFINE b == Inc * Before(Raw(p), a)
             e == Inc * After(Raw(p), a)
  <2> HIDE DEF b, e
  <2>7. b \in Nat /\ b >= -lo /\ e \in Nat /\ e >= hi + 1 - size[a]
    BY <2>6 DEF b, e
  <2>8. \A r \in Raw(p) : r[a] + b >= 0 /\ r[a] + 1 - size[a] <= e
    <3>1. ASSUME NEW x \in Int, NEW z \in Int, lo <= x, hi >= x, z = size[a]
          PROVE  x + b >= 0 /\ x + 1 - z <= e
      BY <2>1, <2>7, <3>1
    <3> QED BY <2>1, <2>2, <2>4, <3>1
  <2> QED BY <2>7, <2>8 DEF b, e
<1>7. \A a \in Axes : Shift(p)[a] = Inc * Before(Raw(p), a)
  BY DEF Shift, Axes
<1>8. Shift(p) \in Nat \X Nat
  BY <1>6 DEF Shift, Axes
<1>9. ASSUME NEW a \in Axes
      PROVE  /\ Grown(p)[a] \in Nat \ {0} /\ Grown(p)[a] >= size[a] + Shift(p)[a]
             /\ \A r \in Raw(p) : r[a] + Shift(p)[a] \in 0 .. Grown(p)[a] - 1
  <2> DEFINE b == Shift(p)[a]
             e == Inc * After(Raw(p), a)
  <2>1. size[a] \in Nat \ {0} /\ \A r \in Raw(p) : r[a] \in Int
    BY <1>4 DEF Types, Axes
  <2>2. b \in Nat /\ e \in Nat /\ \A r \in Raw(p) : r[a] + b >= 0 /\ r[a] + 1 - size[a] <= e
    BY <1>6, <1>7
  <2>3. Grown(p)[a] = size[a] + b + e
    BY DEF Grown
  <2> HIDE DEF b, e
  <2>4. Grown(p)[a] \in Nat \ {0} /\ Grown(p)[a] >= size[a] + b
    BY <2>1, <2>2, <2>3
  <2>5. \A r \in Raw(p) : r[a] + b \in 0 .. Grown(p)[a] - 1
    BY <2>1, <2>2, <2>3
  <2> QED BY <2>4, <2>5 DEF b
<1> QED BY <1>4, <1>5, <1>8, <1>9

\* A placement deposits something into every cell that a pixel falls into.
LEMMA PlacedType ==
  ASSUME Types, NEW p \in Pose, NEW k \in Nat, NEW neutral \in BOOLEAN
  PROVE  /\ Placed(k, p, neutral) \in Placements
         /\ DOMAIN Placed(k, p, neutral) = {Plus(r, Shift(p)) : r \in Raw(p)}
         /\ DOMAIN Placed(k, p, neutral) \in SUBSET (Int \X Int)
         /\ \A c \in DOMAIN Placed(k, p, neutral) : \A y \in Layers :
              Placed(k, p, neutral)[c][y] \in Int
<1> DEFINE D == {Plus(r, Shift(p)) : r \in Raw(p)}
<1>1. D \in SUBSET (Int \X Int)
  BY GrowthCovers DEF Plus
<1>2. ASSUME NEW c \in D PROVE Deposit(k, First(p, c), neutral) \in [Layers -> Int]
  <2> DEFINE I == {i \in DOMAIN Fan : Plus(Minus(World(p, i), origin), Shift(p)) = c}
  <2>1. I \in SUBSET Nat
    <3>1. Fan \in Seq(Int \X Int)
      BY GridAssumption
    <3> QED BY <3>1
  <2>2. I # {}
    BY DEF Raw
  <2>3. First(p, c) = Min(I)
    BY DEF First
  <2> HIDE DEF I
  <2>4. Min(I) \in I
    <3>1. \E m \in I : \A i \in I : m <= i
      BY <2>1, <2>2, LeastOf
    <3> QED BY <3>1 DEF Min
  <2>5. First(p, c) \in Nat
    BY <2>1, <2>3, <2>4
  <2> QED BY <2>5, DepositType
<1>3. Placed(k, p, neutral) = [c \in D |-> Deposit(k, First(p, c), neutral)]
  BY DEF Placed
<1> HIDE DEF D
<1>4. Placed(k, p, neutral) \in [D -> [Layers -> Int]]
  BY <1>2, <1>3
<1>5. DOMAIN Placed(k, p, neutral) = D
  BY <1>3
<1>6. \A c \in D : \A y \in Layers : Placed(k, p, neutral)[c][y] \in Int
  BY <1>4
<1> QED BY <1>1, <1>4, <1>5, <1>6, PlacementIs DEF D

\* Placing a tile that is in none of the grids keeps the invariant, whatever
\* the grids and the other tiles were before.
LEMMA PlaceKeeps ==
  ASSUME Types, NEW g, NEW others \in Seq(Tile), NEW k \in 1 .. Len(others) + 1,
         NEW p \in Pose, NEW neutral \in BOOLEAN,
         Fits(others, size), Sums(g, size, others),
         k \in DOMAIN others => others[k].cells = NoCells,
         \A j \in DOMAIN others : others[j].cells # NoCells =>
           /\ {Plus(c, origin) : c \in DOMAIN others[j].cells} =
                {World(others[j].pose, i) : i \in DOMAIN Fan}
           /\ \A c \in DOMAIN others[j].cells : \A a \in Axes : low[a] <= c[a] /\ c[a] <= high[a],
         Place(k, p, neutral, g, others)
  PROVE  GridInv'
<1> DEFINE shift == Shift(p)
           sz    == Grown(p)
           cells == Placed(k, p, neutral)
           moved == Moved(others, shift)
           tile  == [pose |-> p, valid |-> TRUE, neutral |-> neutral, cells |-> cells]
<1>1. /\ size' = <<sz[1], sz[2]>>
      /\ origin' = Minus(origin, shift)
      /\ low'  = [a \in Axes |-> Min({low[a] + shift[a]} \cup {c[a] : c \in DOMAIN cells})]
      /\ high' = [a \in Axes |-> Max({high[a] + shift[a]} \cup {c[a] : c \in DOMAIN cells})]
      /\ grid' = Deposited(Regrown(g, shift, sz), cells, 1)
      /\ tiles' = IF k \in DOMAIN others THEN [moved EXCEPT ![k] = tile]
                                         ELSE Append(moved, tile)
  BY PlaceIs
<1>2. /\ Raw(p) \in SUBSET (Int \X Int) /\ Raw(p) # {}
      /\ \A a \in Axes : Listed({r[a] : r \in Raw(p)})
      /\ shift \in Nat \X Nat
      /\ \A a \in Axes : /\ sz[a] \in Nat \ {0} /\ sz[a] >= size[a] + shift[a]
                         /\ \A r \in Raw(p) : r[a] + shift[a] \in 0 .. sz[a] - 1
  BY GrowthCovers
<1>3. /\ cells \in Placements
      /\ DOMAIN cells = {Plus(r, shift) : r \in Raw(p)}
      /\ DOMAIN cells \in SUBSET (Int \X Int)
      /\ \A c \in DOMAIN cells : \A y \in Layers : cells[c][y] \in Int
  <2>1. k \in Nat
    BY LenProperties
  <2> QED BY <2>1, PlacedType
<1> HIDE DEF shift, sz, cells
<1>4. /\ size \in (Nat \ {0}) \X (Nat \ {0}) /\ origin \in Int \X Int
      /\ \A a \in Axes : low[a] \in Int /\ high[a] \in Int
  BY DEF Types
<1>5. shift \in Int \X Int /\ \A a \in Axes : shift[a] \in Nat
  BY <1>2 DEF Axes
<1>6. Cells(sz) \in SUBSET (Int \X Int) /\ Cells(size) \in SUBSET (Int \X Int) /\ Cells(size') = Cells(sz)
  BY <1>1 DEF Cells
<1>7. DOMAIN cells \subseteq Cells(sz)
  <2>1. ASSUME NEW r \in Raw(p) PROVE Plus(r, shift) \in Cells(sz)
    BY <1>2, <2>1 DEF Axes, Plus, Cells
  <2> QED BY <1>3, <2>1
<1>8. \A c \in Cells(size) : Plus(c, shift) \in Cells(sz)
  <2>1. ASSUME NEW c \in Cells(size) PROVE Plus(c, shift) \in Cells(sz)
    <3>1. c[1] \in 0 .. size[1] - 1 /\ c[2] \in 0 .. size[2] - 1
      BY DEF Cells
    <3>2. sz[1] \in Nat /\ sz[1] >= size[1] + shift[1] /\ sz[2] \in Nat /\ sz[2] >= size[2] + shift[2]
      BY <1>2 DEF Axes
    <3>3. \A w \in Int : \A z, t, m \in Nat : /\ w \in 0 .. m - 1 /\ z >= m + t => w + t \in 0 .. z - 1
      OBVIOUS
    <3>4. size[1] \in Nat /\ size[2] \in Nat /\ shift[1] \in Nat /\ shift[2] \in Nat
      BY <1>4, <1>5 DEF Axes
    <3>5. c[1] + shift[1] \in 0 .. sz[1] - 1
      <4>1. c[1] \in 0 .. size[1] - 1 /\ c[1] \in Int
        BY <3>1
      <4>2. sz[1] \in Nat /\ sz[1] >= size[1] + shift[1]
        BY <3>2
      <4> QED BY <3>3, <3>4, <4>1, <4>2
    <3>6. c[2] + shift[2] \in 0 .. sz[2] - 1
      <4>1. c[2] \in 0 .. size[2] - 1 /\ c[2] \in Int
        BY <3>1
      <4>2. sz[2] \in Nat /\ sz[2] >= size[2] + shift[2]
        BY <3>2
      <4> QED BY <3>3, <3>4, <4>1, <4>2
    <3> QED BY <3>5, <3>6 DEF Plus, Cells
  <2> QED BY <2>1
\* The tiles, afterwards.
<1>9. /\ DOMAIN others = 1 .. Len(others) /\ Len(others) \in Nat
      /\ \A j \in DOMAIN others : others[j] \in Tile
  BY SeqDef, ElementOfSeq
<1>10. ASSUME NEW j \in DOMAIN others
       PROVE  /\ others[j].cells \in Placements
              /\ moved[j] \in Tile
              /\ moved[j].pose = others[j].pose
              /\ moved[j].cells = Shifted(others[j].cells, shift)
              /\ DOMAIN moved[j].cells = {Plus(c, shift) : c \in DOMAIN others[j].cells}
              /\ \A cell \in Int \X Int :
                   /\ cell \in DOMAIN moved[j].cells <=> Minus(cell, shift) \in DOMAIN others[j].cells
                   /\ cell \in DOMAIN moved[j].cells =>
                        moved[j].cells[cell] = others[j].cells[Minus(cell, shift)]
              /\ others[j].cells = NoCells => moved[j].cells = NoCells
  <2>1. others[j].cells \in Placements
    BY <1>9 DEF Tile
  <2>2. Shifted(others[j].cells, shift) \in Placements
    BY <1>5, <2>1, ShiftMoves
  <2>3. moved[j] = [others[j] EXCEPT !.cells = Shifted(others[j].cells, shift)]
    BY DEF Moved
  <2>4. others[j] \in Tile
    BY <1>9
  <2> HIDE DEF moved
  <2>5. /\ moved[j] \in Tile
        /\ moved[j].pose = others[j].pose
        /\ moved[j].cells = Shifted(others[j].cells, shift)
    BY <2>2, <2>3, <2>4 DEF Tile
  <2> DEFINE held == others[j].cells
  <2>6. held \in Placements /\ moved[j].cells = Shifted(held, shift)
    BY <2>1, <2>5
  <2> HIDE DEF held
  <2>7. /\ DOMAIN moved[j].cells = {Plus(c, shift) : c \in DOMAIN held}
        /\ \A cell \in Int \X Int :
             /\ cell \in DOMAIN moved[j].cells <=> Minus(cell, shift) \in DOMAIN held
             /\ cell \in DOMAIN moved[j].cells => moved[j].cells[cell] = held[Minus(cell, shift)]
        /\ held = NoCells => moved[j].cells = NoCells
    <3>1. /\ DOMAIN Shifted(held, shift) = {Plus(c, shift) : c \in DOMAIN held}
          /\ \A cell \in Int \X Int :
               /\ cell \in DOMAIN Shifted(held, shift) <=> Minus(cell, shift) \in DOMAIN held
               /\ cell \in DOMAIN Shifted(held, shift) =>
                    Shifted(held, shift)[cell] = held[Minus(cell, shift)]
          /\ held = NoCells => Shifted(held, shift) = NoCells
      BY <1>5, <2>6, ShiftMoves
    <3> QED BY <2>6, <3>1
  <2> QED BY <2>1, <2>5, <2>7 DEF held
<1>11. tile \in Tile /\ tile.pose = p /\ tile.cells = cells
  BY <1>3 DEF Tile
<1>12. moved \in Seq(Tile) /\ DOMAIN moved = DOMAIN others /\ Len(moved) = Len(others)
  <2>1. moved = [j \in 1 .. Len(others) |-> moved[j]]
    BY <1>9 DEF Moved
  <2> HIDE DEF moved
  <2>2. moved \in [1 .. Len(others) -> Tile]
    BY <1>9, <1>10, <2>1
  <2> QED BY <1>9, <2>2, SeqDef, LenProperties
<1> HIDE DEF moved, tile
<1>13. /\ tiles' \in Seq(Tile)
       /\ DOMAIN tiles' = DOMAIN others \cup {k}
       /\ tiles'[k] = tile
       /\ \A j \in DOMAIN others : j # k => tiles'[j] = moved[j]
  <2>1. CASE k \in DOMAIN others
    <3>1. tiles' = [moved EXCEPT ![k] = tile]
      BY <1>1, <2>1
    <3> QED BY <1>9, <1>11, <1>12, <2>1, <3>1, ExceptSeq
  <2>2. CASE k \notin DOMAIN others
    <3>1. tiles' = Append(moved, tile) /\ k = Len(moved) + 1
      <4>1. k = Len(others) + 1
        BY <1>9, <2>2
      <4> QED BY <1>1, <1>12, <2>2, <4>1
    <3> QED BY <1>9, <1>11, <1>12, <3>1, AppendProperties
  <2> QED BY <2>1, <2>2
\* They keep to the grids, and to the world.
<1>14. Fits(tiles', size')
  <2>1. ASSUME NEW j \in DOMAIN tiles' PROVE DOMAIN tiles'[j].cells \subseteq Cells(sz)
    <3>1. CASE j = k
      BY <1>7, <1>11, <1>13, <3>1
    <3>2. CASE j # k
      <4>1. j \in DOMAIN others /\ tiles'[j] = moved[j]
        BY <1>13, <3>2
      <4>2. DOMAIN tiles'[j].cells = {Plus(c, shift) : c \in DOMAIN others[j].cells}
        BY <1>10, <4>1
      <4>3. DOMAIN others[j].cells \subseteq Cells(size)
        BY <4>1 DEF Fits
      <4> QED BY <1>8, <4>2, <4>3
    <3> QED BY <3>1, <3>2
  <2> QED BY <1>6, <2>1 DEF Fits
<1>15. ASSUME NEW a \in Axes
       PROVE  /\ low'[a] \in Int /\ low'[a] <= low[a] + shift[a]
              /\ high'[a] \in Int /\ high'[a] >= high[a] + shift[a]
              /\ \A c \in DOMAIN cells : low'[a] <= c[a] /\ c[a] <= high'[a]
  <2> DEFINE V == {c[a] : c \in DOMAIN cells}
  <2>1. Listed(V)
    <3>1. PICK n \in Nat \ {0} : \E h \in [1 .. n -> Int] : {r[a] : r \in Raw(p)} = {h[i] : i \in 1 .. n}
      BY <1>2 DEF Listed
    <3>2. PICK h \in [1 .. n -> Int] : {r[a] : r \in Raw(p)} = {h[i] : i \in 1 .. n}
      BY <3>1
    <3> DEFINE f == [i \in 1 .. n |-> h[i] + shift[a]]
    <3>3. f \in [1 .. n -> Int]
      BY <1>5
    <3>4. \A r \in Raw(p) : Plus(r, shift)[a] = r[a] + shift[a]
      <4>1. \A r : Plus(r, shift) = <<r[1] + shift[1], r[2] + shift[2]>>
        BY DEF Plus
      <4>2. a = 1 \/ a = 2
        BY DEF Axes
      <4> QED BY <4>1, <4>2
    <3>5. V = {r[a] + shift[a] : r \in Raw(p)}
      BY <1>3, <3>4
    <3>6. V = {f[i] : i \in 1 .. n}
      <4>1. \A r \in Raw(p) : \E i \in 1 .. n : r[a] = h[i]
        BY <3>2
      <4>2. \A i \in 1 .. n : \E r \in Raw(p) : r[a] = h[i]
        BY <3>2
      <4>3. \A i \in 1 .. n : f[i] = h[i] + shift[a]
        OBVIOUS
      <4>4. \A r \in Raw(p) : \E i \in 1 .. n : r[a] + shift[a] = f[i]
        BY <4>1, <4>3
      <4>5. \A i \in 1 .. n : \E r \in Raw(p) : r[a] + shift[a] = f[i]
        BY <4>2, <4>3
      <4> HIDE DEF V, f
      <4> QED BY <3>5, <4>4, <4>5
    <3> HIDE DEF V, f
    <3> QED BY <3>3, <3>6 DEF Listed
  <2>2. low[a] + shift[a] \in Int /\ high[a] + shift[a] \in Int
    BY <1>4, <1>5
  <2>3. Listed({low[a] + shift[a]} \cup V) /\ Listed({high[a] + shift[a]} \cup V)
    <3> HIDE DEF V
    <3> QED BY <2>1, <2>2, ListedMore
  <2>4. low'[a] = Min({low[a] + shift[a]} \cup V) /\ high'[a] = Max({high[a] + shift[a]} \cup V)
    BY <1>1
  <2>5. \A c \in DOMAIN cells : c[a] \in V
    OBVIOUS
  <2> HIDE DEF V
  <2> DEFINE L == {low[a] + shift[a]} \cup V
             H == {high[a] + shift[a]} \cup V
  <2>6. low[a] + shift[a] \in L /\ high[a] + shift[a] \in H /\ V \subseteq L /\ V \subseteq H
    OBVIOUS
  <2>7. Listed(L) /\ Listed(H) /\ low'[a] = Min(L) /\ high'[a] = Max(H)
    BY <2>3, <2>4
  <2> HIDE DEF L, H
  <2>8. /\ L \subseteq Int /\ Min(L) \in L /\ \A v \in L : Min(L) <= v
        /\ H \subseteq Int /\ Max(H) \in H /\ \A v \in H : Max(H) >= v
    BY <2>7, Extremes
  <2>9. low'[a] \in Int /\ high'[a] \in Int /\ \A v \in V : low'[a] <= v /\ v <= high'[a]
    BY <2>6, <2>7, <2>8
  <2> QED BY <2>5, <2>6, <2>7, <2>8, <2>9
<1>16. \A u \in Int \X Int :
         /\ Plus(u, origin) \in Int \X Int
         /\ Plus(Plus(u, shift), origin') = Plus(u, origin)
         /\ \A a \in Axes : Plus(u, shift)[a] = u[a] + shift[a] /\ u[a] \in Int
  <2>1. ASSUME NEW u \in Int \X Int
        PROVE  /\ Plus(u, origin) \in Int \X Int
               /\ Plus(Plus(u, shift), origin') = Plus(u, origin)
    <3>1. u[1] \in Int /\ u[2] \in Int /\ origin[1] \in Int /\ origin[2] \in Int
          /\ shift[1] \in Int /\ shift[2] \in Int
      BY <1>4, <1>5
    <3>2. /\ Plus(u, origin) = <<u[1] + origin[1], u[2] + origin[2]>>
          /\ Plus(Plus(u, shift), origin') =
               <<(u[1] + shift[1]) + (origin[1] - shift[1]), (u[2] + shift[2]) + (origin[2] - shift[2])>>
      BY <1>1 DEF Plus, Minus
    <3>3. /\ (u[1] + shift[1]) + (origin[1] - shift[1]) = u[1] + origin[1]
          /\ (u[2] + shift[2]) + (origin[2] - shift[2]) = u[2] + origin[2]
      BY <3>1
    <3>4. u[1] + origin[1] \in Int /\ u[2] + origin[2] \in Int
      BY <3>1
    <3> QED BY <3>2, <3>3, <3>4
  <2>2. ASSUME NEW u \in Int \X Int, NEW a \in Axes
        PROVE  Plus(u, shift)[a] = u[a] + shift[a] /\ u[a] \in Int
    <3>1. Plus(u, shift) = <<u[1] + shift[1], u[2] + shift[2]>>
      BY DEF Plus
    <3>2. CASE a = 1 BY <3>1, <3>2
    <3>3. CASE a = 2 BY <3>1, <3>3
    <3> QED BY <3>2, <3>3 DEF Axes
  <2> QED BY <2>1, <2>2
<1>17. ASSUME NEW j \in DOMAIN tiles', tiles'[j].cells # NoCells
       PROVE  /\ {Plus(c, origin') : c \in DOMAIN tiles'[j].cells} =
                   {World(tiles'[j].pose, i) : i \in DOMAIN Fan}
              /\ \A c \in DOMAIN tiles'[j].cells : \A a \in Axes : low'[a] <= c[a] /\ c[a] <= high'[a]
  <2>1. CASE j = k
    <3>1. tiles'[j].cells = cells /\ tiles'[j].pose = p
      BY <1>11, <1>13, <2>1
    <3>2. \A i \in DOMAIN Fan : Plus(Minus(World(p, i), origin), origin) = World(p, i)
      BY <1>4, WorldType DEF Plus, Minus
    <3>3. {Plus(r, origin) : r \in Raw(p)} = {World(p, i) : i \in DOMAIN Fan}
      BY <3>2 DEF Raw
    <3>4. {Plus(c, origin') : c \in DOMAIN cells} = {Plus(r, origin) : r \in Raw(p)}
      BY <1>2, <1>3, <1>16
    <3> QED BY <1>15, <3>1, <3>3, <3>4
  <2>2. CASE j # k
    <3> DEFINE D == DOMAIN others[j].cells
    <3>1. /\ j \in DOMAIN others /\ tiles'[j].pose = others[j].pose
          /\ tiles'[j] = moved[j] /\ others[j].cells \in Placements
      BY <1>10, <1>13, <2>2
    <3>2. others[j].cells # NoCells
      BY <1>10, <1>17, <3>1
    <3>3. DOMAIN tiles'[j].cells = {Plus(c, shift) : c \in D}
      BY <1>10, <3>1
    <3>4. D \subseteq Int \X Int
      BY <1>6, <3>1 DEF Fits
    <3>5. {Plus(c, origin) : c \in D} = {World(others[j].pose, i) : i \in DOMAIN Fan}
      BY <3>1, <3>2
    <3>6. \A c \in D : \A a \in Axes : low[a] <= c[a] /\ c[a] <= high[a]
      BY <3>1, <3>2
    <3> HIDE DEF D
    <3>7. {Plus(e, origin') : e \in DOMAIN tiles'[j].cells} = {Plus(c, origin) : c \in D}
      BY <1>16, <3>3, <3>4
    <3>8. ASSUME NEW c \in D, NEW a \in Axes
          PROVE  low'[a] <= Plus(c, shift)[a] /\ Plus(c, shift)[a] <= high'[a]
      <4>1. low'[a] <= low[a] + shift[a] /\ high'[a] >= high[a] + shift[a] /\ low'[a] \in Int /\ high'[a] \in Int
        BY <1>15
      <4>2. Plus(c, shift)[a] = c[a] + shift[a] /\ c[a] \in Int /\ low[a] <= c[a] /\ c[a] <= high[a]
        BY <1>16, <3>4, <3>6
      <4>3. shift[a] \in Int /\ low[a] \in Int /\ high[a] \in Int
        BY <1>4, <1>5
      <4> QED BY <4>1, <4>2, <4>3
    <3> QED BY <3>1, <3>3, <3>5, <3>7, <3>8
  <2> QED BY <2>1, <2>2
\* Each cell gains what the new tile deposits there, and nothing else.
<1>18. ASSUME NEW y \in Layers
       PROVE  /\ DOMAIN grid'[y] = Cells(sz)
              /\ \A cell \in Cells(sz) :
                   /\ grid'[y][cell] \in Int
                   /\ grid'[y][cell] = SumFunction(Shares(tiles', cell, y))
  <2> DEFINE R == Regrown(g, shift, sz)
  <2>1. DOMAIN g[y] = Cells(size)
    BY DEF Sums
  <2>2. R[y] = [cell \in Cells(sz) |->
                  IF Minus(cell, shift) \in Cells(size) THEN g[y][Minus(cell, shift)] ELSE 0]
    BY <2>1 DEF Regrown
  <2>3. grid' = Deposited(R, cells, 1)
    BY <1>1
  <2> HIDE DEF R
  <2>4. grid'[y] = [cell \in Cells(sz) |->
                      IF cell \in DOMAIN cells THEN R[y][cell] + 1 * cells[cell][y] ELSE R[y][cell]]
    BY <2>2, <2>3 DEF Deposited
  <2>5. ASSUME NEW cell \in Cells(sz)
        PROVE  /\ grid'[y][cell] \in Int
               /\ grid'[y][cell] = SumFunction(Shares(tiles', cell, y))
    <3> DEFINE c   == Minus(cell, shift)
               old == SumFunction(Shares(others, c, y))
               own == IF cell \in DOMAIN cells THEN cells[cell][y] ELSE 0
    <3>1. c \in Int \X Int /\ cell \in Int \X Int
      BY <1>5, <1>6 DEF Minus
    <3> HIDE DEF c
    <3>2. R[y][cell] = old
      <4>1. CASE c \in Cells(size)
        <5>1. R[y][cell] = g[y][c]
          BY <2>2, <4>1 DEF c
        <5> QED BY <4>1, <5>1 DEF Sums
      <4>2. CASE c \notin Cells(size)
        <5>1. R[y][cell] = 0
          BY <2>2, <4>2 DEF c
        <5>2. \A j \in DOMAIN others : c \notin DOMAIN others[j].cells
          BY <4>2 DEF Fits
        <5>3. DOMAIN Shares(others, c, y) = {}
          BY <5>2 DEF Shares
        <5>4. Shares(others, c, y) \in [{} -> Int]
          BY <5>3, SharesType
        <5> QED BY <5>1, <5>3, <5>4, SumEmpty
      <4> QED BY <4>1, <4>2
    <3>3. old \in Int /\ old = SumFunction(Shares(tiles', cell, y)) - own
          /\ SumFunction(Shares(tiles', cell, y)) \in Int
      <4>1. (DOMAIN others) \ {k} = (DOMAIN tiles') \ {k}
        BY <1>13
      <4>2. ASSUME NEW j \in (DOMAIN others) \ {k}
            PROVE  /\ c \in DOMAIN others[j].cells <=> cell \in DOMAIN tiles'[j].cells
                   /\ c \in DOMAIN others[j].cells => others[j].cells[c] = tiles'[j].cells[cell]
        <5>1. tiles'[j] = moved[j]
          BY <1>13
        <5> QED BY <1>10, <3>1, <5>1 DEF c
      <4>3. SameBut(others, tiles', c, cell, k)
        BY <4>1, <4>2 DEF SameBut
      <4>4. ShareOf(others, k, c, y) = 0
        <5>1. DOMAIN NoCells = {}
          BY DEF NoCells
        <5> QED BY <5>1 DEF ShareOf
      <4>5. ShareOf(tiles', k, cell, y) = own
        BY <1>11, <1>13 DEF ShareOf
      <4>6. tiles' \in Seq(Tile)
        BY <1>13
      <4>7. /\ old \in Int /\ SumFunction(Shares(tiles', cell, y)) \in Int
            /\ old - ShareOf(others, k, c, y) =
                 SumFunction(Shares(tiles', cell, y)) - ShareOf(tiles', k, cell, y)
        BY <4>3, <4>6, OneTile
      <4> HIDE DEF old, own
      <4> QED BY <4>4, <4>5, <4>7
    <3>4. own \in Int
      BY <1>3
    <3>5. grid'[y][cell] = old + own
      <4>1. cell \in DOMAIN cells => cells[cell][y] \in Int
        BY <1>3
      <4> HIDE DEF old
      <4> QED BY <2>4, <3>2, <3>3, <4>1
    <3> HIDE DEF old, own
    <3> QED BY <3>3, <3>4, <3>5
  <2>6. DOMAIN grid'[y] = Cells(sz)
    BY <2>4
  <2> QED BY <2>5, <2>6
<1>19. Types'
  <2>1. size' \in (Nat \ {0}) \X (Nat \ {0}) /\ origin' \in Int \X Int
    <3>1. sz[1] \in Nat \ {0} /\ sz[2] \in Nat \ {0}
      BY <1>2 DEF Axes
    <3>2. size' \in (Nat \ {0}) \X (Nat \ {0})
      BY <1>1, <3>1
    <3>3. origin' \in Int \X Int
      BY <1>1, <1>4, <1>5 DEF Minus
    <3> QED BY <3>2, <3>3
  <2> QED BY <1>13, <1>15, <2>1 DEF Types
<1>20. Fits(tiles, size)' /\ Sums(grid, size, tiles)' /\ TilesStayPut'
  <2>1. TilesStayPut'
    BY <1>17 DEF TilesStayPut
  <2>2. Sums(grid', size', tiles')
    BY <1>6, <1>18 DEF Sums
  <2> QED BY <1>14, <2>1, <2>2
<1> QED BY <1>19, <1>20 DEF GridInv

LEMMA GridInit == Init => GridInv
<1> SUFFICES ASSUME Init PROVE GridInv
  OBVIOUS
<1>1. Size0 \in (Nat \ {0}) \X (Nat \ {0}) /\ Origin0 \in Int \X Int
  BY GridAssumption
<1>2. tiles = <<>> /\ tiles \in Seq(Tile) /\ DOMAIN tiles = {}
  BY EmptySeq DEF Init
<1>3. low = <<Size0[1] - 1, Size0[2] - 1>> /\ high = <<0, 0>>
  BY DEF Init
<1>4. \A a \in Axes : low[a] \in Int /\ high[a] \in Int
  <2>1. low[1] \in Int /\ low[2] \in Int /\ high[1] \in Int /\ high[2] \in Int
    BY <1>1, <1>3
  <2> QED BY <2>1 DEF Axes
<1>5. Types
  BY <1>1, <1>2, <1>4 DEF Init, Types
<1>6. Fits(tiles, size) /\ TilesStayPut
  BY <1>2 DEF Fits, TilesStayPut
<1>7. Sums(grid, size, tiles)
  <2>1. ASSUME NEW y \in Layers, NEW cell PROVE SumFunction(Shares(tiles, cell, y)) = 0
    <3>1. DOMAIN Shares(tiles, cell, y) = {}
      BY <1>2 DEF Shares
    <3>2. Shares(tiles, cell, y) \in [{} -> Int]
      BY <1>2, <3>1, SharesType
    <3> QED BY <3>1, <3>2, SumEmpty
  <2>2. \A y \in Layers : grid[y] = [cell \in Cells(size) |-> 0]
    BY DEF Init
  <2> QED BY <2>1, <2>2 DEF Sums
<1> QED BY <1>5, <1>6, <1>7 DEF GridInv

\* A tile taken out of the grids leaves the sum of the others.
LEMMA TakeOut ==
  ASSUME GridInv, NEW k \in DOMAIN tiles
  PROVE  LET out == Deposited(grid, tiles[k].cells, -1)
             emptied == [tiles EXCEPT ![k].cells = NoCells]
         IN  /\ emptied \in Seq(Tile) /\ DOMAIN emptied = DOMAIN tiles
             /\ Len(emptied) = Len(tiles)
             /\ emptied[k].cells = NoCells
             /\ \A j \in DOMAIN tiles : j # k => emptied[j] = tiles[j]
             /\ Fits(emptied, size) /\ Sums(out, size, emptied)
<1> DEFINE out     == Deposited(grid, tiles[k].cells, -1)
           emptied == [tiles EXCEPT ![k].cells = NoCells]
           bare    == [tiles[k] EXCEPT !.cells = NoCells]
<1>1. tiles \in Seq(Tile) /\ k \in 1 .. Len(tiles) /\ tiles[k] \in Tile /\ DOMAIN tiles = 1 .. Len(tiles)
  <2>1. tiles \in Seq(Tile)
    BY DEF GridInv, Types
  <2> QED BY <2>1, LenProperties, ElementOfSeq
<1>2. NoCells \in Placements /\ DOMAIN NoCells = {}
  <2>1. NoCells \in [{} -> [Layers -> Int]] /\ {} \in SUBSET (Int \X Int)
    BY DEF NoCells
  <2>2. DOMAIN NoCells = {}
    BY DEF NoCells
  <2> HIDE DEF NoCells
  <2> QED BY <2>1, <2>2, PlacementIs
<1>3. bare \in Tile /\ bare.cells = NoCells
  BY <1>1, <1>2 DEF Tile
<1>4. emptied = [tiles EXCEPT ![k] = bare]
  BY <1>1
<1> HIDE DEF emptied, bare
<1>5. /\ emptied \in Seq(Tile) /\ DOMAIN emptied = DOMAIN tiles /\ Len(emptied) = Len(tiles)
      /\ emptied[k] = bare
      /\ \A j \in DOMAIN tiles : j # k => emptied[j] = tiles[j]
  <2>1. /\ emptied \in Seq(Tile) /\ Len(emptied) = Len(tiles)
        /\ \A j \in 1 .. Len(tiles) : emptied[j] = IF j = k THEN bare ELSE tiles[j]
    BY <1>1, <1>3, <1>4, ExceptSeq
  <2>2. DOMAIN emptied = DOMAIN tiles
    BY <1>4
  <2> QED BY <1>1, <2>1, <2>2
<1>6. Fits(emptied, size)
  <2>1. ASSUME NEW j \in DOMAIN tiles PROVE DOMAIN emptied[j].cells \subseteq Cells(size)
    <3>1. CASE j = k BY <1>2, <1>3, <1>5, <3>1
    <3>2. CASE j # k BY <1>5, <3>2 DEF GridInv, Fits
    <3> QED BY <3>1, <3>2
  <2> QED BY <1>5, <2>1 DEF Fits
<1>7. ASSUME NEW y \in Layers, NEW cell \in Cells(size)
      PROVE  /\ out[y][cell] \in Int
             /\ out[y][cell] = SumFunction(Shares(emptied, cell, y))
  <2> DEFINE own == ShareOf(tiles, k, cell, y)
             all == SumFunction(Shares(tiles, cell, y))
             rest == SumFunction(Shares(emptied, cell, y))
  <2>1. SameBut(tiles, emptied, cell, cell, k)
    BY <1>5 DEF SameBut
  <2>2. ShareOf(emptied, k, cell, y) = 0
    BY <1>2, <1>3, <1>5 DEF ShareOf
  <2>3. /\ all \in Int /\ rest \in Int
        /\ all - own = rest - ShareOf(emptied, k, cell, y)
    BY <1>1, <1>5, <2>1, OneTile
  <2>4. DOMAIN grid[y] = Cells(size) /\ grid[y][cell] = all
    BY DEF GridInv, Sums
  <2>5. own \in Int
    <3>1. tiles[k].cells \in Placements
      BY <1>1 DEF Tile
    <3>2. PICK D \in SUBSET (Int \X Int) : tiles[k].cells \in [D -> [Layers -> Int]]
      BY <3>1, PlacementIs
    <3>3. cell \in DOMAIN tiles[k].cells => tiles[k].cells[cell][y] \in Int
      <4>1. cell \in D => tiles[k].cells[cell] \in [Layers -> Int]
        BY <3>2
      <4> QED BY <3>2, <4>1
    <3> QED BY <3>3 DEF ShareOf
  <2>6. out[y][cell] = IF cell \in DOMAIN tiles[k].cells
                         THEN grid[y][cell] + (-1) * tiles[k].cells[cell][y] ELSE grid[y][cell]
    <3>1. out[y] = [c \in Cells(size) |->
                      IF c \in DOMAIN tiles[k].cells
                        THEN grid[y][c] + (-1) * tiles[k].cells[c][y] ELSE grid[y][c]]
      BY <2>4 DEF Deposited
    <3> QED BY <3>1
  <2>7. out[y][cell] = all - own
    <3>1. CASE cell \in DOMAIN tiles[k].cells
      <4>1. own = tiles[k].cells[cell][y]
        BY <3>1 DEF ShareOf
      <4> HIDE DEF own, all, out
      <4> QED BY <2>3, <2>4, <2>5, <2>6, <3>1, <4>1
    <3>2. CASE cell \notin DOMAIN tiles[k].cells
      <4>1. own = 0
        BY <3>2 DEF ShareOf
      <4> HIDE DEF own, all, out
      <4> QED BY <2>3, <2>4, <2>6, <3>2, <4>1
    <3> QED BY <3>1, <3>2
  <2> HIDE DEF own, all, rest, out
  <2>8. out[y][cell] = rest
    BY <2>2, <2>3, <2>5, <2>7
  <2> QED BY <2>3, <2>8 DEF rest
<1>8. \A y \in Layers : DOMAIN out[y] = Cells(size)
  BY DEF GridInv, Sums, Deposited
<1>9. Sums(out, size, emptied)
  <2> HIDE DEF out
  <2> QED BY <1>7, <1>8 DEF Sums
<1> QED BY <1>3, <1>5, <1>6, <1>9 DEF emptied

\* A slot that no pixel fills, or a pose that moves one, changes no sum.
LEMMA BareKeeps ==
  ASSUME GridInv, UNCHANGED <<size, origin, low, high, grid>>, tiles' \in Seq(Tile),
         DOMAIN tiles \subseteq DOMAIN tiles',
         \A j \in DOMAIN tiles : tiles'[j].cells = tiles[j].cells,
         \A j \in DOMAIN tiles' \ DOMAIN tiles : tiles'[j].cells = NoCells,
         \A j \in DOMAIN tiles :
           tiles[j].cells # NoCells => tiles'[j].pose = tiles[j].pose
  PROVE  GridInv'
<1>1. DOMAIN NoCells = {}
  BY DEF NoCells
<1>2. Types'
  BY DEF GridInv, Types
<1>3. \A j \in DOMAIN tiles' : DOMAIN tiles'[j].cells \subseteq Cells(size')
  <2>1. ASSUME NEW j \in DOMAIN tiles' PROVE DOMAIN tiles'[j].cells \subseteq Cells(size)
    <3>1. CASE j \in DOMAIN tiles BY <3>1 DEF GridInv, Fits
    <3>2. CASE j \notin DOMAIN tiles BY <1>1, <3>2
    <3> QED BY <3>1, <3>2
  <2> QED BY <2>1
<1>4. \A cell, y : Shares(tiles', cell, y) = Shares(tiles, cell, y)
  <2>1. ASSUME NEW cell, NEW y PROVE Shares(tiles', cell, y) = Shares(tiles, cell, y)
    <3> DEFINE S == {j \in DOMAIN tiles : cell \in DOMAIN tiles[j].cells}
               T == {j \in DOMAIN tiles' : cell \in DOMAIN tiles'[j].cells}
    <3>1. S = T
      <4>1. \A j \in T : j \in DOMAIN tiles
        BY <1>1
      <4> QED BY <4>1
    <3>2. \A j \in S : tiles'[j].cells[cell][y] = tiles[j].cells[cell][y]
      OBVIOUS
    <3>3. /\ Shares(tiles', cell, y) = [j \in T |-> tiles'[j].cells[cell][y]]
          /\ Shares(tiles, cell, y) = [j \in S |-> tiles[j].cells[cell][y]]
      BY DEF Shares
    <3> HIDE DEF S, T
    <3> QED BY <3>1, <3>2, <3>3
  <2> QED BY <2>1
<1>5. Sums(grid', size', tiles')
  BY <1>4 DEF GridInv, Sums
<1>6. TilesStayPut'
  <2>1. ASSUME NEW j \in DOMAIN tiles', tiles'[j].cells # NoCells
        PROVE  /\ {Plus(c, origin') : c \in DOMAIN tiles'[j].cells} =
                    {World(tiles'[j].pose, i) : i \in DOMAIN Fan}
               /\ \A c \in DOMAIN tiles'[j].cells : \A a \in Axes :
                    low'[a] <= c[a] /\ c[a] <= high'[a]
    <3>1. j \in DOMAIN tiles /\ tiles'[j].cells = tiles[j].cells /\ tiles'[j].pose = tiles[j].pose
      BY <2>1
    <3>2. origin' = origin /\ low' = low /\ high' = high
      OBVIOUS
    <3> QED BY <2>1, <3>1, <3>2 DEF GridInv, TilesStayPut
  <2> QED BY <2>1 DEF TilesStayPut
<1>7. Fits(tiles', size')
  BY <1>3 DEF Fits
<1> QED BY <1>2, <1>5, <1>6, <1>7 DEF GridInv

LEMMA AppendKeeps ==
  ASSUME GridInv, UNCHANGED <<size, origin, low, high, grid>>,
         NEW t \in Tile, t.cells = NoCells, tiles' = Append(tiles, t)
  PROVE  GridInv'
<1>1. tiles \in Seq(Tile)
  BY DEF GridInv, Types
<1>2. /\ tiles' \in Seq(Tile) /\ DOMAIN tiles = 1 .. Len(tiles) /\ Len(tiles) \in Nat
      /\ DOMAIN tiles' = 1 .. Len(tiles) + 1
      /\ \A j \in DOMAIN tiles : tiles'[j] = tiles[j]
      /\ tiles'[Len(tiles) + 1] = t
  BY <1>1, AppendProperties, LenProperties
<1>3. DOMAIN tiles \subseteq DOMAIN tiles' /\ \A j \in DOMAIN tiles' \ DOMAIN tiles : j = Len(tiles) + 1
  BY <1>2
<1> QED BY <1>2, <1>3, BareKeeps

LEMMA GridStep == GridInv /\ [Next]_vars => GridInv'
<1> SUFFICES ASSUME GridInv, [Next]_vars PROVE GridInv'
  OBVIOUS
<1>1. /\ Types /\ tiles \in Seq(Tile) /\ DOMAIN tiles = 1 .. Len(tiles) /\ Len(tiles) \in Nat
      /\ \A k \in DOMAIN tiles : tiles[k] \in Tile
  <2>1. Types /\ tiles \in Seq(Tile)
    BY DEF GridInv, Types
  <2> QED BY <2>1, LenProperties, ElementOfSeq
<1>2. NoCells \in Placements
  <2>1. NoCells \in [{} -> [Layers -> Int]] /\ {} \in SUBSET (Int \X Int)
    BY DEF NoCells
  <2> HIDE DEF NoCells
  <2> QED BY <2>1, PlacementIs
<1>3. \A k \in DOMAIN tiles : tiles[k].cells # NoCells =>
        /\ {Plus(c, origin) : c \in DOMAIN tiles[k].cells} =
             {World(tiles[k].pose, i) : i \in DOMAIN Fan}
        /\ \A c \in DOMAIN tiles[k].cells : \A a \in Axes : low[a] <= c[a] /\ c[a] <= high[a]
  BY DEF GridInv, TilesStayPut
<1>4. ASSUME NEW p \in Pose, NEW neutral \in BOOLEAN, AddKeyframe(p, neutral) PROVE GridInv'
  <2> DEFINE k == Len(tiles) + 1
  <2>1. k \in 1 .. Len(tiles) + 1 /\ k \notin DOMAIN tiles
    BY <1>1
  <2>2. Place(k, p, neutral, grid, tiles)
    BY <1>4 DEF AddKeyframe
  <2>3. Fits(tiles, size) /\ Sums(grid, size, tiles)
    BY DEF GridInv
  <2> HIDE DEF k
  <2> QED BY <1>1, <1>3, <2>1, <2>2, <2>3, PlaceKeeps
<1>5. ASSUME NEW p \in Pose, AddBare(p) PROVE GridInv'
  <2> DEFINE t == [pose |-> p, valid |-> TRUE, neutral |-> TRUE, cells |-> NoCells]
  <2>1. t \in Tile /\ t.cells = NoCells
    BY <1>2 DEF Tile
  <2>2. tiles' = Append(tiles, t) /\ UNCHANGED <<size, origin, low, high, grid>>
    BY <1>5 DEF AddBare
  <2> HIDE DEF t
  <2> QED BY <2>1, <2>2, AppendKeeps
<1>6. ASSUME NEW p \in Pose, AddSkipped(p) PROVE GridInv'
  <2> DEFINE t == [pose |-> p, valid |-> FALSE, neutral |-> TRUE, cells |-> NoCells]
  <2>1. t \in Tile /\ t.cells = NoCells
    BY <1>2 DEF Tile
  <2>2. tiles' = Append(tiles, t) /\ UNCHANGED <<size, origin, low, high, grid>>
    BY <1>6 DEF AddSkipped
  <2> HIDE DEF t
  <2> QED BY <2>1, <2>2, AppendKeeps
<1>7. ASSUME NEW p \in Pose, NEW k \in DOMAIN tiles, UpdatePose(k, p) PROVE GridInv'
  <2>1. CASE tiles[k].cells = NoCells
    <3> DEFINE t == [tiles[k] EXCEPT !.pose = p]
    <3>1. t \in Tile /\ t.cells = tiles[k].cells
      BY <1>1 DEF Tile
    <3>2. tiles' = [tiles EXCEPT ![k] = t] /\ UNCHANGED <<size, origin, low, high, grid>>
      BY <1>7, <2>1 DEF UpdatePose
    <3> HIDE DEF t
    <3>3. /\ tiles' \in Seq(Tile) /\ DOMAIN tiles' = DOMAIN tiles /\ tiles'[k] = t
          /\ \A j \in DOMAIN tiles : j # k => tiles'[j] = tiles[j]
      BY <1>1, <3>1, <3>2, ExceptSeq
    <3>4. \A j \in DOMAIN tiles :
            /\ tiles'[j].cells = tiles[j].cells
            /\ tiles[j].cells # NoCells => tiles'[j].pose = tiles[j].pose
      <4>1. ASSUME NEW j \in DOMAIN tiles
            PROVE  /\ tiles'[j].cells = tiles[j].cells
                   /\ tiles[j].cells # NoCells => tiles'[j].pose = tiles[j].pose
        <5>1. CASE j = k BY <2>1, <3>1, <3>3, <5>1
        <5>2. CASE j # k BY <3>3, <5>2
        <5> QED BY <5>1, <5>2
      <4> QED BY <4>1
    <3> QED BY <3>2, <3>3, <3>4, BareKeeps
  <2>2. CASE tiles[k].cells # NoCells
    <3> DEFINE out     == Deposited(grid, tiles[k].cells, -1)
               emptied == [tiles EXCEPT ![k].cells = NoCells]
               held    == tiles[k].neutral
    <3>1. Place(k, p, held, out, emptied)
      BY <1>7, <2>2 DEF UpdatePose
    <3>2. /\ emptied \in Seq(Tile) /\ DOMAIN emptied = DOMAIN tiles /\ Len(emptied) = Len(tiles)
          /\ emptied[k].cells = NoCells
          /\ \A j \in DOMAIN tiles : j # k => emptied[j] = tiles[j]
          /\ Fits(emptied, size) /\ Sums(out, size, emptied)
      BY TakeOut
    <3>3. held \in BOOLEAN /\ k \in 1 .. Len(emptied) + 1
      BY <1>1, <3>2 DEF Tile
    <3> HIDE DEF out, emptied, held
    <3>4. \A j \in DOMAIN emptied : emptied[j].cells # NoCells =>
            /\ {Plus(c, origin) : c \in DOMAIN emptied[j].cells} =
                 {World(emptied[j].pose, i) : i \in DOMAIN Fan}
            /\ \A c \in DOMAIN emptied[j].cells : \A a \in Axes : low[a] <= c[a] /\ c[a] <= high[a]
      <4>1. \A j \in DOMAIN emptied : emptied[j].cells # NoCells => j \in DOMAIN tiles /\ emptied[j] = tiles[j]
        BY <3>2
      <4> QED BY <1>3, <4>1
    <3> QED BY <1>1, <3>1, <3>2, <3>3, <3>4, PlaceKeeps
  <2> QED BY <2>1, <2>2
<1>8. CASE UNCHANGED vars
  <2>1. /\ size' = size /\ origin' = origin /\ low' = low /\ high' = high
        /\ grid' = grid /\ tiles' = tiles
    BY <1>8 DEF vars
  <2> QED BY <1>1, <2>1, BareKeeps
<1> QED BY <1>4, <1>5, <1>6, <1>7, <1>8 DEF Next

----------------------------------------------------------------------------
(* The theorems.                                                           *)

LEMMA GridAlways == Spec => []GridInv
BY GridInit, GridStep, PTL DEF Spec

\* However often a loop closure re-places keyframes and the grids grow, each
\* cell of each grid is the sum of the cached tiles (mapping.cpp, inc_grid,
\* dec_grid and adjust_bounds).
THEOREM GridsAreSums == Spec => []GridIsSumOfTiles
<1>1. GridInv => GridIsSumOfTiles
  BY DEF GridInv, Sums, GridIsSumOfTiles
<1> QED BY <1>1, GridAlways, PTL

\* A growth on any side displaces no tile, and the published box shows all
\* of them (mapping.cpp, adjust_bounds shifts the cached cells).
THEOREM GrowthDisplacesNone == Spec => []TilesStayPut
<1>1. GridInv => TilesStayPut
  BY DEF GridInv
<1> QED BY <1>1, GridAlways, PTL

=============================================================================
