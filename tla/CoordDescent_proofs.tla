------------------------ MODULE CoordDescent_proofs ------------------------
(***************************************************************************)
(* The coordinate descent of CoordDescent for every block, budget, penalty *)
(* and starting point: what the sweeps hold is the gradient, and the       *)
(* answer is the optimum of every column.                                  *)
(***************************************************************************)
EXTENDS CoordDescent, Sums_proofs, FiniteSetTheorems, TLAPS

(* G is F at the k places of q, outside which F is zero.                   *)
Selects(k, p, q, F, G) ==
  /\ \A h \in 1 .. k : q[h] \in 1 .. p /\ G[h] = F[q[h]]
  /\ \A h, i \in 1 .. k : q[h] = q[i] => h = i
  /\ \A j \in 1 .. p : F[j] \in Int /\ ((\A h \in 1 .. k : q[h] # j) => F[j] = 0)

(* A total over a selection is that of the whole where the rest is zero.   *)
LEMMA TotalSelected ==
  ASSUME NEW k \in Nat, NEW p \in Nat, NEW q, NEW F, NEW G, Selects(k, p, q, F, G)
  PROVE  Total(k, G) = Total(p, F)
<1> USE DEF Selects
<1> DEFINE A == [j \in 1 .. p |-> [h \in 1 .. k |-> IF q[h] = j THEN F[j] ELSE 0]]
           B == [h \in 1 .. k |-> [j \in 1 .. p |-> IF q[h] = j THEN F[j] ELSE 0]]
<1>1. \A j \in 1 .. p : \A h \in 1 .. k : A[j][h] \in Int /\ B[h][j] = A[j][h]
  OBVIOUS
<1>2. ASSUME NEW j \in 1 .. p PROVE F[j] = Total(k, A[j])
  <2>1. CASE \A h \in 1 .. k : q[h] # j
    <3>1. \A h \in 1 .. k : A[j][h] = 0
      BY <2>1
    <3> HIDE DEF A
    <3>2. Total(k, A[j]) = 0
      BY <3>1, TotalOfZeros
    <3> QED BY <2>1, <3>2
  <2>2. ASSUME NEW h \in 1 .. k, q[h] = j PROVE F[j] = Total(k, A[j])
    <3>1. A[j][h] = F[j] /\ \A i \in 1 .. k : i # h => A[j][i] = 0
      BY <2>2
    <3>2. A[j][h] \in Int
      BY <3>1
    <3> DEFINE a == A[j]
    <3>3. a[h] \in Int /\ a[h] = F[j] /\ \A i \in 1 .. k : i # h => a[i] = 0
      BY <3>1, <3>2
    <3> HIDE DEF a, A
    <3>4. Total(k, a) = a[h]
      BY <3>3, TotalOfOne
    <3> QED BY <3>3, <3>4 DEF a
  <2> QED BY <2>1, <2>2
<1>3. ASSUME NEW h \in 1 .. k PROVE G[h] = Total(p, B[h])
  <2> DEFINE j == q[h]
  <2>1. j \in 1 .. p /\ B[h][j] = F[j] /\ F[j] \in Int /\ \A i \in 1 .. p : i # j => B[h][i] = 0
    OBVIOUS
  <2>2. G[h] = F[j]
    OBVIOUS
  <2> DEFINE b == B[h]
  <2>3. b[j] \in Int /\ b[j] = F[j] /\ \A i \in 1 .. p : i # j => b[i] = 0
    BY <2>1
  <2>4. j \in 1 .. p
    BY <2>1
  <2> HIDE DEF b, B, j
  <2>5. PICK i \in 1 .. p : i = j
    BY <2>4
  <2>6. Total(p, b) = b[i]
    BY <2>3, <2>5, TotalOfOne
  <2> QED BY <2>2, <2>3, <2>5, <2>6 DEF b
<1> HIDE DEF A, B, Selects
<1>4. Tabulates(p, k, A, B, F, G)
  BY <1>1, <1>2, <1>3 DEF Tabulates
<1>5. Total(p, F) = Total(k, G)
  BY <1>4, TotalExchange
<1> QED BY <1>5

-----------------------------------------------------------------------------
(* An ascending enumeration of S.                                          *)
Enumerates(q, S) ==
  /\ q \in [1 .. Cardinality(S) -> S]
  /\ Range(q) = S /\ \A h, k \in DOMAIN q : h < k => q[h] < q[k]

LEMMA EnumerationExists ==
  \A p \in Nat : \A S \in SUBSET (1 .. p) : \E q : Enumerates(q, S)
<1> DEFINE T == {p \in Nat : \A S \in SUBSET (1 .. p) : \E q : Enumerates(q, S)}
<1>1. 0 \in T
  <2> SUFFICES ASSUME NEW S \in SUBSET (1 .. 0) PROVE \E q : Enumerates(q, S)
    OBVIOUS
  <2> DEFINE q == [i \in 1 .. 0 |-> i]
  <2>1. S = {} /\ Cardinality(S) = 0
    <3>1. S = {}
      OBVIOUS
    <3>2. Cardinality({}) = 0
      BY FS_EmptySet
    <3> QED BY <3>1, <3>2
  <2>2. Range(q) = {} /\ q \in [1 .. 0 -> S] /\ DOMAIN q = {}
    BY DEF Range
  <2> HIDE DEF q
  <2>3. Enumerates(q, S)
    BY <2>1, <2>2 DEF Enumerates
  <2> QED BY <2>3
<1>2. ASSUME NEW p \in Nat, p \in T PROVE p + 1 \in T
  <2> SUFFICES ASSUME NEW S \in SUBSET (1 .. p + 1) PROVE \E q : Enumerates(q, S)
    OBVIOUS
  <2>1. CASE p + 1 \notin S
    <3>1. S \in SUBSET (1 .. p)
      BY <2>1
    <3> QED BY <3>1, <1>2
  <2>2. CASE p + 1 \in S
    <3> DEFINE R == S \ {p + 1}
    <3>1. R \in SUBSET (1 .. p)
      OBVIOUS
    <3>2. PICK s : Enumerates(s, R)
      BY <3>1, <1>2
    <3>3. IsFiniteSet(S)
      <4>1. IsFiniteSet(1 .. p + 1)
        BY FS_Interval
      <4> QED BY <4>1, FS_Subset
    <3> DEFINE n == Cardinality(R)
    <3>4. Cardinality(S) = n + 1 /\ n \in Nat
      <4>1. IsFiniteSet(R) /\ S = R \union {p + 1} /\ p + 1 \notin R
        BY <2>2, <3>3, FS_Subset
      <4> QED BY <4>1, FS_AddElement, FS_CardinalityType
    <3> DEFINE q == [i \in 1 .. n + 1 |-> IF i = n + 1 THEN p + 1 ELSE s[i]]
    <3>5. s \in [1 .. n -> R] /\ Range(s) = R /\ \A h, k \in 1 .. n : h < k => s[h] < s[k]
      BY <3>2 DEF Enumerates
    <3> HIDE DEF n
    <3>6. q \in [1 .. n + 1 -> S]
      BY <3>4, <3>5, <2>2
    <3>7. Range(q) = S
      <4>1. \A i \in 1 .. n : i \in 1 .. n + 1 /\ q[i] = s[i]
        BY <3>4
      <4>2. q[n + 1] = p + 1 /\ n + 1 \in 1 .. n + 1
        BY <3>4
      <4>3. \A j \in R : \E i \in 1 .. n : s[i] = j
        BY <3>5 DEF Range
      <4>4. \A j \in S : \E i \in 1 .. n + 1 : q[i] = j
        BY <4>1, <4>2, <4>3
      <4> QED BY <4>4, <3>6 DEF Range
    <3>8. ASSUME NEW h \in 1 .. n + 1, NEW k \in 1 .. n + 1, h < k PROVE q[h] < q[k]
      <4>1. h \in 1 .. n /\ q[h] = s[h] /\ s[h] \in 1 .. p
        <5>1. h \in 1 .. n /\ h # n + 1
          BY <3>8, <3>4
        <5>2. q[h] = s[h]
          BY <5>1
        <5>3. s[h] \in R
          BY <5>1, <3>5
        <5> HIDE DEF q, R
        <5> QED BY <5>1, <5>2, <5>3, <3>1
      <4>2. CASE k = n + 1
        BY <4>1, <4>2
      <4>3. CASE k # n + 1
        <5>1. k \in 1 .. n /\ q[k] = s[k]
          BY <4>3, <3>4
        <5> QED BY <4>1, <5>1, <3>5, <3>8
      <4> QED BY <4>2, <4>3
    <3>9. Enumerates(q, S)
      BY <3>4, <3>6, <3>7, <3>8 DEF Enumerates
    <3> QED BY <3>9
  <2> QED BY <2>1, <2>2
<1> HIDE DEF T
<1>3. Nat \subseteq T
  BY <1>1, <1>2, NatSet
<1> QED BY <1>3 DEF T

LEMMA AscendingEnumerates ==
  ASSUME NEW p \in Nat, NEW S \in SUBSET (1 .. p)
  PROVE  /\ Enumerates(Ascending(S), S)
         /\ Ascending(S) \in Seq(S) /\ Range(Ascending(S)) = S
         /\ \A h, k \in 1 .. Len(Ascending(S)) :
              h < k => Ascending(S)[h] < Ascending(S)[k]
<1> DEFINE q == Ascending(S)
<1>1. Enumerates(q, S)
  <2>1. \E s : Enumerates(s, S)
    BY EnumerationExists
  <2> QED BY <2>1 DEF Enumerates, Ascending
<1>2. Cardinality(S) \in Nat
  <2>1. IsFiniteSet(S)
    <3>1. IsFiniteSet(1 .. p)
      BY FS_Interval
    <3> QED BY <3>1, FS_Subset
  <2> QED BY <2>1, FS_CardinalityType
<1>3. q \in Seq(S) /\ DOMAIN q = 1 .. Len(q)
  <2> HIDE DEF q
  <2> QED BY <1>1, <1>2 DEF Enumerates
<1> HIDE DEF q
<1>4. q \in Seq(S) /\ Range(q) = S /\ \A h, k \in 1 .. Len(q) : h < k => q[h] < q[k]
  BY <1>1, <1>3 DEF Enumerates
<1> QED BY <1>1, <1>4 DEF q

LEMMA LargestExists ==
  ASSUME NEW p \in Nat, NEW G, \A j \in 1 .. p + 1 : G[j] \in Int
  PROVE  \E j \in 1 .. p + 1 : \A k \in 1 .. p + 1 : G[k] < G[j] \/ (G[k] = G[j] /\ j <= k)
<1> DEFINE Lead(n, j) == \A k \in 1 .. n + 1 : G[k] < G[j] \/ (G[k] = G[j] /\ j <= k)
           T == {n \in Nat : n <= p => \E j \in 1 .. n + 1 : Lead(n, j)}
<1>1. 0 \in T
  OBVIOUS
<1>2. ASSUME NEW n \in Nat, n \in T PROVE n + 1 \in T
  <2> SUFFICES ASSUME n + 1 <= p PROVE \E j \in 1 .. n + 1 + 1 : Lead(n + 1, j)
    OBVIOUS
  <2>1. PICK j \in 1 .. n + 1 : Lead(n, j)
    BY <1>2
  <2>2. \A k \in 1 .. n + 1 + 1 : G[k] \in Int /\ (k \in 1 .. n + 1 \/ k = n + 1 + 1)
    OBVIOUS
  <2>3. CASE G[n + 1 + 1] <= G[j]
    <3>1. Lead(n + 1, j)
      BY <2>1, <2>2, <2>3
    <3> QED BY <3>1
  <2>4. CASE G[j] < G[n + 1 + 1]
    <3>1. Lead(n + 1, n + 1 + 1)
      BY <2>1, <2>2, <2>4
    <3> QED BY <3>1
  <2> QED BY <2>2, <2>3, <2>4
<1> HIDE DEF T
<1>3. Nat \subseteq T
  BY <1>1, <1>2, NatSet
<1> QED BY <1>3 DEF T

-----------------------------------------------------------------------------
(* The block in hand, and its response net of the intercept.               *)
Posed == prob \in Problems
Exact(u) == prob.center => W * Mean(u) = Weighted(prob.w, u)
Response(u) == u \in [Rows -> Int] /\ Exact(u)

LEMMA BlockShape ==
  ASSUME Posed
  PROVE  /\ N \in Nat /\ P \in Nat /\ P >= 1
         /\ \A i \in Rows : w(i) \in Nat
         /\ \A j \in Cols : prob.X[j] \in [Rows -> Int] /\ \A i \in Rows : x(i, j) \in Int
         /\ W = Total(N, prob.w)
         /\ prob.kink \in [Cols -> Nat]
         /\ prob.prevKink # None => prob.prevKink \in [Cols -> Nat]
         /\ {prob.sparse, prob.center} \subseteq BOOLEAN /\ prob.penalty \in {"lasso", "mcp"}
         /\ \A y \in prob.responses : y \in [Rows -> Int]
<1>1. IsProblem(prob)
  BY CoordAssumption DEF Posed
<1>2. prob.X \in Seq(Seq(Int)) /\ prob.X # <<>> /\ prob.w \in Seq(Nat)
  BY <1>1 DEF IsProblem
<1>3. N \in Nat /\ P \in Nat /\ P >= 1
  BY <1>2 DEF N, P
<1>4. \A j \in Cols : prob.X[j] \in Seq(Int) /\ prob.X[j] \in Range(prob.X)
  BY <1>2, SMTT(30) DEF Cols, P, Range
<1>5. \A j \in Cols : Len(prob.X[j]) = N
  BY <1>1, <1>4 DEF IsProblem, N
<1>6. \A j \in Cols : prob.X[j] \in [Rows -> Int]
  BY <1>4, <1>5 DEF Rows
<1>7. \A i \in Rows : w(i) \in Nat
  BY <1>2 DEF Rows, N, w
<1>8. \A y \in prob.responses : y \in [Rows -> Int]
  <2> TAKE y \in prob.responses
  <2>1. y \in Seq(Int) /\ Len(y) = N
    BY <1>1 DEF IsProblem, N
  <2> QED BY <2>1 DEF Rows
<1>9. DOMAIN prob.X = Cols
  BY <1>2 DEF Cols, P
<1> QED BY <1>1, <1>3, <1>6, <1>7, <1>8, <1>9 DEF IsProblem, x, W, Weight, N

LEMMA WeightIsInt == ASSUME Posed PROVE W \in Int
<1>1. \A i \in 1 .. N : prob.w[i] \in Int
  BY BlockShape DEF Rows, w
<1> QED BY <1>1, BlockShape, TotalIsInt

(* Where the block is centered the means are exact.                        *)
LEMMA ExactMeans ==
  ASSUME Posed, prob.center
  PROVE  /\ W \in Int /\ W > 0
         /\ \A j \in Cols : W * Mean(prob.X[j]) = Weighted(prob.w, prob.X[j])
         /\ \A y \in prob.responses : W * Mean(y) = Weighted(prob.w, y)
<1>1. IsProblem(prob) /\ prob.X \in Seq(Seq(Int))
  BY CoordAssumption DEF Posed, IsProblem
<1>2. \A j \in Cols : prob.X[j] \in Range(prob.X)
  BY <1>1 DEF Cols, P, Range
<1>3. W \in Int
  BY WeightIsInt
<1> QED BY <1>1, <1>2, <1>3 DEF IsProblem, W, Mean

LEMMA Exactly == \A a, k \in Int : a > 0 => (a * k) \div a = k
OBVIOUS

(* A weighted sum over the rows.                                           *)
LEMMA WeightedIs ==
  ASSUME Posed, NEW u, \A i \in Rows : u[i] \in Int
  PROVE  /\ Weighted(prob.w, u) = Total(N, [i \in Rows |-> w(i) * u[i]])
         /\ Weighted(prob.w, u) \in Int
         /\ \A i \in 1 .. N : [k \in Rows |-> w(k) * u[k]][i] \in Int
<1> DEFINE F == [i \in Rows |-> w(i) * u[i]]
<1>1. \A i \in 1 .. N : F[i] \in Int
  BY BlockShape DEF Rows
<1>2. Weighted(prob.w, u) = Total(N, F)
  BY DEF Weighted, N, Rows, w
<1>3. Total(N, F) \in Int
  <2> HIDE DEF F
  <2> QED BY <1>1, BlockShape, TotalIsInt
<1> QED BY <1>1, <1>2, <1>3

(* What a walk sums is the sum over all rows, in either storage.           *)
LEMMA AlongIs ==
  ASSUME Posed, NEW j \in Cols, NEW u, \A i \in Rows : u[i] \in Int
  PROVE  /\ Along(j, u) = Weighted(prob.w, [i \in Rows |-> x(i, j) * u[i]])
         /\ Along(j, u) = Total(N, [i \in Rows |-> w(i) * x(i, j) * u[i]])
         /\ Along(j, u) \in Int
<1> DEFINE F == [i \in Rows |-> w(i) * x(i, j) * u[i]]
           G == [i \in Rows |-> IF i \in Walk(j) THEN w(i) * x(i, j) * u[i] ELSE 0]
           y == [i \in Rows |-> x(i, j) * u[i]]
           H == [i \in Rows |-> w(i) * y[i]]
<1>1. \A i \in 1 .. N : w(i) \in Int /\ x(i, j) \in Int /\ u[i] \in Int
  BY BlockShape DEF Rows
<1>2. \A a, b, e \in Int : a * b * e \in Int /\ a * b * e = a * (b * e) /\ b * e \in Int /\ a * 0 * e = 0
  OBVIOUS
<1>3. \A i \in 1 .. N : F[i] \in Int /\ G[i] = F[i] /\ H[i] = F[i]
  <2> TAKE i \in 1 .. N
  <2>1. F[i] = w(i) * x(i, j) * u[i] /\ F[i] \in Int /\ H[i] = w(i) * (x(i, j) * u[i])
    BY <1>1, <1>2 DEF Rows
  <2>2. x(i, j) # 0 => i \in Walk(j)
    BY DEF Walk, Rows
  <2>3. G[i] = IF i \in Walk(j) THEN F[i] ELSE 0
    BY DEF Rows
  <2>4. x(i, j) = 0 => F[i] = 0
    <3> HAVE x(i, j) = 0
    <3> QED BY <1>1, <1>2, <2>1
  <2> QED BY <1>1, <1>2, <2>1, <2>2, <2>3, <2>4
<1>4. Along(j, u) = Total(N, G)
  BY DEF Along
<1>5. Weighted(prob.w, y) = Total(N, H)
  <2>1. \A i \in Rows : y[i] \in Int
    BY <1>1, <1>2 DEF Rows
  <2> HIDE DEF y
  <2> QED BY <2>1, WeightedIs
<1>6. Total(N, G) = Total(N, F) /\ Total(N, H) = Total(N, F) /\ Total(N, F) \in Int
  <2> HIDE DEF F, G, H
  <2> QED BY <1>3, BlockShape, TotalSame, TotalIsInt
<1> QED BY <1>4, <1>5, <1>6

(* The mean of a column, which is zero where nothing is centered.          *)
LEMMA MuIs ==
  ASSUME Posed, NEW j \in Cols
  PROVE  /\ mu(j) \in Int /\ (~ prob.center => mu(j) = 0)
         /\ prob.center => mu(j) = Mean(prob.X[j])
                           /\ W * mu(j) = Total(N, [i \in Rows |-> w(i) * x(i, j)])
<1> DEFINE one == [i \in Rows |-> 1]
           F == [i \in Rows |-> w(i) * x(i, j) * one[i]]
           H == [i \in Rows |-> w(i) * x(i, j)]
           K == [i \in Rows |-> w(i) * prob.X[j][i]]
<1>1. CASE ~ prob.center
  BY <1>1 DEF mu
<1>2. CASE prob.center
  <2>1. \A i \in 1 .. N : w(i) \in Int /\ x(i, j) \in Int /\ one[i] = 1
    BY BlockShape DEF Rows
  <2>2. \A a, b \in Int : a * b * 1 = a * b /\ a * b \in Int
    OBVIOUS
  <2>3. \A i \in 1 .. N : H[i] \in Int /\ F[i] = H[i] /\ K[i] = H[i]
    BY <2>1, <2>2 DEF Rows, x
  <2>4. Along(j, one) = Total(N, F)
    <3>1. \A i \in Rows : one[i] \in Int
      OBVIOUS
    <3> HIDE DEF one
    <3> QED BY <3>1, AlongIs
  <2>5. Weighted(prob.w, prob.X[j]) = Total(N, K)
    BY BlockShape, WeightedIs
  <2>6. Total(N, F) = Total(N, H) /\ Total(N, K) = Total(N, H) /\ Total(N, H) \in Int
    <3> HIDE DEF F, H, K
    <3> QED BY <2>3, BlockShape, TotalSame, TotalIsInt
  <2>7. mu(j) = Along(j, one) \div W /\ Mean(prob.X[j]) = Weighted(prob.w, prob.X[j]) \div W
    BY <1>2 DEF mu, Mean
  <2>8. mu(j) = Mean(prob.X[j]) /\ W * mu(j) = Total(N, H)
    BY <1>2, <2>4, <2>5, <2>6, <2>7, ExactMeans
  <2>9. mu(j) \in Int
    <3>1. \A a, b \in Int : b > 0 => a \div b \in Int
      OBVIOUS
    <3> HIDE DEF H, F, K, one
    <3> QED BY <1>2, <2>4, <2>6, <2>7, <3>1, ExactMeans
  <2> QED BY <1>2, <2>8, <2>9
<1> QED BY <1>1, <1>2, BlockShape

(* Weighted sums are linear, and that of a constant is as many weights.    *)
LEMMA WeightedLinear ==
  ASSUME Posed, NEW a \in Int, NEW u, NEW y, NEW h,
         \A i \in Rows : u[i] \in Int /\ y[i] \in Int /\ h[i] = a * u[i] + y[i]
  PROVE  Weighted(prob.w, h) = a * Weighted(prob.w, u) + Weighted(prob.w, y)
<1> DEFINE F == [i \in Rows |-> w(i) * u[i]]
           G == [i \in Rows |-> w(i) * y[i]]
           H == [i \in Rows |-> w(i) * h[i]]
<1>0. \A k, b, s, t \in Int : /\ k * (b * s + t) = b * (k * s) + k * t
                              /\ b * s + t \in Int /\ k * s \in Int
  OBVIOUS
<1>1. \A i \in Rows : w(i) \in Int /\ h[i] \in Int
  BY <1>0, BlockShape
<1>2. \A i \in 1 .. N : F[i] \in Int /\ G[i] \in Int /\ H[i] = a * F[i] + G[i]
  BY <1>0, <1>1 DEF Rows
<1>3. /\ Weighted(prob.w, u) = Total(N, F) /\ Weighted(prob.w, y) = Total(N, G)
      /\ Weighted(prob.w, h) = Total(N, H)
  BY <1>1, WeightedIs
<1> HIDE DEF F, G, H
<1>4. Total(N, H) = a * Total(N, F) + Total(N, G)
  BY <1>2, BlockShape, TotalLinear
<1> QED BY <1>3, <1>4

LEMMA WeightedConstant ==
  ASSUME Posed, NEW k \in Int, NEW u, \A i \in Rows : u[i] = k
  PROVE  Weighted(prob.w, u) = k * W /\ W \in Int
<1> DEFINE H == [i \in Rows |-> w(i) * u[i]]
<1>0. \A a, b \in Int : a * b = b * a
  OBVIOUS
<1>1. \A i \in 1 .. N : prob.w[i] \in Int /\ H[i] = k * prob.w[i]
  BY <1>0, BlockShape DEF Rows, w
<1>2. Weighted(prob.w, u) = Total(N, H)
  BY WeightedIs
<1> HIDE DEF H
<1>3. Total(N, H) = k * Total(N, prob.w) /\ Total(N, prob.w) \in Int
  BY <1>1, BlockShape, TotalScale, TotalIsInt
<1> QED BY <1>2, <1>3, BlockShape

Coefficients(b) == b \in [Cols -> Int]

LEMMA FittedIs ==
  ASSUME Posed, NEW b, Coefficients(b)
  PROVE  /\ \A i \in Rows : /\ Fitted(b)[i] = Total(P, [j \in Cols |-> x(i, j) * b[j]])
                            /\ Fitted(b)[i] \in Int
                            /\ \A j \in 1 .. P : [k \in Cols |-> x(i, k) * b[k]][j] \in Int
         /\ \A j \in 1 .. P : [k \in Cols |-> mu(k) * b[k]][j] \in Int
         /\ FittedMean(b) \in Int
         /\ ~ prob.center => FittedMean(b) = 0 /\ zbar = 0
<1>0. \A s, t \in Int : s * t \in Int /\ 0 * t = 0
  OBVIOUS
<1>1. \A j \in 1 .. P : b[j] \in Int /\ mu(j) \in Int
  BY MuIs DEF Coefficients, Cols
<1>2. ASSUME NEW i \in Rows
      PROVE  /\ Fitted(b)[i] = Total(P, [j \in Cols |-> x(i, j) * b[j]])
             /\ Fitted(b)[i] \in Int
             /\ \A j \in 1 .. P : [k \in Cols |-> x(i, k) * b[k]][j] \in Int
  <2> DEFINE F == [j \in Cols |-> x(i, j) * b[j]]
  <2>1. \A j \in 1 .. P : F[j] \in Int
    BY <1>0, <1>1, BlockShape DEF Cols
  <2>2. Fitted(b)[i] = Total(P, F)
    BY DEF Fitted
  <2> HIDE DEF F
  <2>3. Total(P, F) \in Int
    BY <2>1, BlockShape, TotalIsInt
  <2> QED BY <2>1, <2>2, <2>3 DEF F
<1>3. /\ \A j \in 1 .. P : [k \in Cols |-> mu(k) * b[k]][j] \in Int
      /\ FittedMean(b) \in Int
      /\ ~ prob.center => FittedMean(b) = 0
  <2> DEFINE F == [j \in Cols |-> mu(j) * b[j]]
  <2>1. \A j \in 1 .. P : F[j] \in Int
    BY <1>0, <1>1 DEF Cols
  <2>2. ~ prob.center => \A j \in 1 .. P : F[j] = 0
    BY <1>0, <1>1, MuIs DEF Cols
  <2>3. FittedMean(b) = Total(P, F)
    BY DEF FittedMean
  <2> HIDE DEF F
  <2>4. Total(P, F) \in Int /\ (~ prob.center => Total(P, F) = 0)
    BY <2>1, <2>2, BlockShape, TotalIsInt, TotalOfZeros
  <2> QED BY <2>1, <2>3, <2>4 DEF F
<1> QED BY <1>2, <1>3 DEF zbar

(* The weighted mean of X b is that of the columns' means.                 *)
LEMMA FittedIsExact ==
  ASSUME Posed, prob.center, NEW b, Coefficients(b)
  PROVE  Weighted(prob.w, Fitted(b)) = W * FittedMean(b)
<1> DEFINE A == [i \in Rows |-> [j \in Cols |-> w(i) * (x(i, j) * b[j])]]
           B == [j \in Cols |-> [i \in Rows |-> w(i) * (x(i, j) * b[j])]]
           R == [i \in Rows |-> w(i) * Fitted(b)[i]]
           C == [j \in Cols |-> b[j] * (W * mu(j))]
           D == [j \in Cols |-> mu(j) * b[j]]
<1>0. /\ \A s, t, k \in Int : s * (t * k) = k * (s * t) /\ s * (t * k) \in Int
      /\ \A s, t \in Int : s * t \in Int
  OBVIOUS
<1>1. N \in Nat /\ P \in Nat /\ W \in Int
  BY BlockShape, ExactMeans
<1>2. /\ \A i \in Rows : w(i) \in Int /\ \A j \in Cols : x(i, j) \in Int
      /\ \A j \in Cols : b[j] \in Int /\ mu(j) \in Int
  <2>1. \A i \in Rows : w(i) \in Int
    BY BlockShape
  <2>2. \A i \in Rows : \A j \in Cols : x(i, j) \in Int
    BY BlockShape
  <2>3. \A j \in Cols : b[j] \in Int /\ mu(j) \in Int
    BY MuIs DEF Coefficients
  <2> QED BY <2>1, <2>2, <2>3
<1>3. ASSUME NEW i \in Rows PROVE R[i] = Total(P, A[i])
  <2> DEFINE F == [j \in Cols |-> x(i, j) * b[j]]
             a == A[i]
  <2>1. \A j \in 1 .. P : F[j] \in Int /\ a[j] = w(i) * F[j]
    BY <1>0, <1>2 DEF Cols
  <2>2. Fitted(b)[i] = Total(P, F)
    BY FittedIs
  <2>3. R[i] = w(i) * Fitted(b)[i]
    OBVIOUS
  <2> HIDE DEF F, a, A, R
  <2>4. Total(P, a) = w(i) * Total(P, F)
    BY <1>1, <1>2, <2>1, TotalScale
  <2> QED BY <2>2, <2>3, <2>4 DEF a
<1>4. ASSUME NEW j \in Cols PROVE C[j] = Total(N, B[j])
  <2> DEFINE F == [i \in Rows |-> w(i) * x(i, j)]
             e == B[j]
  <2>1. \A i \in 1 .. N : F[i] \in Int /\ e[i] = b[j] * F[i]
    BY <1>0, <1>2 DEF Rows
  <2>2. W * mu(j) = Total(N, F)
    BY MuIs
  <2>3. C[j] = b[j] * (W * mu(j))
    OBVIOUS
  <2> HIDE DEF F, e, B, C
  <2>4. Total(N, e) = b[j] * Total(N, F)
    BY <1>1, <1>2, <2>1, TotalScale
  <2> QED BY <2>2, <2>3, <2>4 DEF e
<1>5. Tabulates(N, P, A, B, R, C)
  <2>1. \A i \in 1 .. N : \A j \in 1 .. P : A[i][j] \in Int /\ B[j][i] = A[i][j]
    BY <1>0, <1>2 DEF Rows, Cols
  <2> HIDE DEF A, B, R, C
  <2> QED BY <1>3, <1>4, <2>1 DEF Tabulates, Rows, Cols
<1>6. \A j \in 1 .. P : D[j] \in Int /\ C[j] = W * D[j]
  BY <1>0, <1>1, <1>2 DEF Cols
<1>7. Weighted(prob.w, Fitted(b)) = Total(N, R)
  BY FittedIs, WeightedIs
<1>8. FittedMean(b) = Total(P, D)
  BY DEF FittedMean
<1> HIDE DEF A, B, R, C, D
<1>9. Total(N, R) = Total(P, C)
  BY <1>1, <1>5, TotalExchange
<1>10. Total(P, C) = W * Total(P, D)
  BY <1>1, <1>6, TotalScale
<1> QED BY <1>7, <1>8, <1>9, <1>10

(* The residual of the centered problem.                                   *)
Bar(u) == IF prob.center THEN Mean(u) ELSE 0
RestOf(u, b) == [i \in Rows |-> (u[i] - Fitted(b)[i]) - (Bar(u) - FittedMean(b))]

LEMMA RestOfIs ==
  ASSUME Posed, NEW u, Response(u), NEW b, Coefficients(b)
  PROVE  /\ Bar(u) \in Int /\ \A i \in Rows : u[i] \in Int
         /\ RestOf(u, b) \in [Rows -> Int]
         /\ Centered([i \in Rows |-> u[i] - Fitted(b)[i]]) = RestOf(u, b)
         /\ prob.center => Weighted(prob.w, RestOf(u, b)) = 0
<1> DEFINE Net == Centered([i \in Rows |-> u[i] - Fitted(b)[i]])
           e == [i \in Rows |-> u[i] - Fitted(b)[i]]
           k == Bar(u) - FittedMean(b)
           one == [i \in Rows |-> k]
<1>0. \A s, t \in Int : s - t \in Int
  OBVIOUS
<1>1. \A i \in Rows : u[i] \in Int /\ Fitted(b)[i] \in Int /\ e[i] \in Int
  BY <1>0, FittedIs DEF Response
<1>2. Bar(u) \in Int
  <2>1. CASE ~ prob.center
    BY <2>1 DEF Bar
  <2>2. CASE prob.center
    <3>1. \A s, t \in Int : t > 0 => s \div t \in Int
      OBVIOUS
    <3>2. Weighted(prob.w, u) \in Int
      BY <1>1, WeightedIs
    <3> QED BY <2>2, <3>1, <3>2, ExactMeans DEF Bar, Mean
  <2> QED BY <2>1, <2>2
<1>3. k \in Int /\ FittedMean(b) \in Int
  BY <1>2, <1>0, FittedIs
<1>4. RestOf(u, b) \in [Rows -> Int] /\ \A i \in Rows : RestOf(u, b)[i] = e[i] - k
  BY <1>0, <1>1, <1>3 DEF RestOf
<1>5. Net = Centered(e)
  OBVIOUS
<1>6. CASE ~ prob.center
  <2>1. k = 0
    BY <1>6, FittedIs DEF Bar
  <2>2. Centered(e) = e
    BY <1>6 DEF Centered
  <2>3. \A i \in Rows : RestOf(u, b)[i] = e[i]
    <3>1. \A s \in Int : s - 0 = s
      OBVIOUS
    <3> HIDE DEF e, k
    <3> QED BY <1>1, <1>4, <2>1, <3>1
  <2>4. RestOf(u, b) = e
    <3>1. e \in [Rows -> Int]
      BY <1>1
    <3> HIDE DEF e
    <3> QED BY <1>4, <2>3, <3>1
  <2> QED BY <1>1, <1>2, <1>4, <1>5, <1>6, <2>2, <2>4
<1>7. CASE prob.center
  <2>1. W \in Int /\ W > 0
    BY <1>7, ExactMeans
  <2>2. Weighted(prob.w, u) = W * Bar(u)
    BY <1>7 DEF Response, Exact, Bar
  <2>3. Weighted(prob.w, Fitted(b)) = W * FittedMean(b)
    BY <1>7, FittedIsExact
  <2>4. Weighted(prob.w, e) = (-1) * Weighted(prob.w, Fitted(b)) + Weighted(prob.w, u)
    <3>1. \A s, t \in Int : s - t = (-1) * t + s
      OBVIOUS
    <3>2. \A i \in Rows : e[i] = (-1) * Fitted(b)[i] + u[i]
      BY <1>1, <3>1
    <3>3. -1 \in Int
      OBVIOUS
    <3> HIDE DEF e
    <3> QED BY <1>1, <3>2, <3>3, WeightedLinear
  <2>5. Weighted(prob.w, e) = W * k
    <3>1. \A a, s, t \in Int : (-1) * (a * t) + a * s = a * (s - t)
      OBVIOUS
    <3> QED BY <1>2, <1>3, <2>1, <2>2, <2>3, <2>4, <3>1
  <2>6. Mean(e) = k
    <3> HIDE DEF e, k
    <3> QED BY <1>3, <2>1, <2>5, Exactly DEF Mean
  <2>7. Net = RestOf(u, b)
    <3>1. Net = [i \in Rows |-> e[i] - k]
      BY <1>5, <1>7, <2>6 DEF Centered
    <3> QED BY <3>1, <1>4
  <2>8. Weighted(prob.w, one) = k * W
    <3>1. \A i \in Rows : one[i] = k
      OBVIOUS
    <3> HIDE DEF one, k
    <3> QED BY <1>3, <3>1, WeightedConstant
  <2>9. Weighted(prob.w, RestOf(u, b)) = (-1) * Weighted(prob.w, one) + Weighted(prob.w, e)
    <3>1. \A s, t \in Int : s - t = (-1) * t + s
      OBVIOUS
    <3>2. \A i \in Rows : one[i] \in Int /\ RestOf(u, b)[i] = (-1) * one[i] + e[i]
      BY <1>1, <1>3, <1>4, <3>1
    <3>3. -1 \in Int
      OBVIOUS
    <3> HIDE DEF e, one
    <3> QED BY <1>1, <3>2, <3>3, WeightedLinear
  <2>10. Weighted(prob.w, RestOf(u, b)) = 0
    <3>1. \A a, s \in Int : (-1) * (s * a) + a * s = 0
      OBVIOUS
    <3> HIDE DEF e, k, one
    <3> QED BY <1>3, <2>1, <2>5, <2>8, <2>9, <3>1
  <2> QED BY <1>1, <1>2, <1>4, <2>7, <2>10
<1> QED BY <1>6, <1>7, BlockShape

Rest(b) == [i \in Rows |-> (z[i] - Fitted(b)[i]) - (zbar - FittedMean(b))]

LEMMA RestIs ==
  ASSUME Posed, Response(z), NEW b, Coefficients(b)
  PROVE  /\ zbar \in Int /\ \A i \in Rows : z[i] \in Int
         /\ Rest(b) \in [Rows -> Int]
         /\ TrueResidual(b) = Rest(b)
         /\ prob.center => Weighted(prob.w, Rest(b)) = 0
<1>1. zbar = Bar(z) /\ Rest(b) = RestOf(z, b)
  BY DEF zbar, Bar, Rest, RestOf
<1>2. TrueResidual(b) = Centered([i \in Rows |-> z[i] - Fitted(b)[i]])
  BY DEF TrueResidual
<1> QED BY <1>1, <1>2, RestOfIs

(* Two responses that are the same once centered leave the same residual.  *)
LEMMA SameReading ==
  ASSUME Posed, NEW u, Response(u), NEW y, Response(y), Centered(u) = Centered(y),
         NEW b, Coefficients(b)
  PROVE  Centered([i \in Rows |-> u[i] - Fitted(b)[i]])
           = Centered([i \in Rows |-> y[i] - Fitted(b)[i]])
<1>1. \A i \in Rows : u[i] \in Int /\ y[i] \in Int /\ Fitted(b)[i] \in Int
  BY FittedIs DEF Response
<1>2. Bar(u) \in Int /\ Bar(y) \in Int /\ FittedMean(b) \in Int
  BY RestOfIs, FittedIs
<1>3. \A i \in Rows : u[i] - Bar(u) = y[i] - Bar(y)
  <2> TAKE i \in Rows
  <2>1. Centered(u)[i] = u[i] - Bar(u)
    <3>1. u[i] - 0 = u[i]
      BY <1>1
    <3> QED BY <3>1 DEF Centered, Bar
  <2>2. Centered(y)[i] = y[i] - Bar(y)
    <3>1. y[i] - 0 = y[i]
      BY <1>1
    <3> QED BY <3>1 DEF Centered, Bar
  <2> QED BY <2>1, <2>2
<1>4. \A i \in Rows : (u[i] - Fitted(b)[i]) - (Bar(u) - FittedMean(b))
                       = (y[i] - Fitted(b)[i]) - (Bar(y) - FittedMean(b))
  BY <1>1, <1>2, <1>3
<1>5. RestOf(u, b) = RestOf(y, b)
  BY <1>4 DEF RestOf
<1> QED BY <1>5, RestOfIs

LEMMA TrueColumnIs ==
  ASSUME Posed, NEW j \in Cols
  PROVE  \A i \in Rows : TrueColumn(j)[i] = x(i, j) - mu(j) /\ TrueColumn(j)[i] \in Int
<1>0. \A s, t \in Int : s - t \in Int /\ s - 0 = s
  OBVIOUS
<1>1. \A i \in Rows : x(i, j) \in Int /\ prob.X[j][i] = x(i, j)
  BY BlockShape DEF x
<1>2. mu(j) \in Int
  BY MuIs
<1>3. CASE prob.center
  <2>1. \A i \in Rows : TrueColumn(j)[i] = x(i, j) - mu(j)
    BY <1>1, <1>3, MuIs DEF TrueColumn, Centered
  <2> QED BY <1>0, <1>1, <1>2, <2>1
<1>4. CASE ~ prob.center
  <2>1. \A i \in Rows : TrueColumn(j)[i] = x(i, j) /\ mu(j) = 0
    BY <1>1, <1>4, MuIs DEF TrueColumn, Centered
  <2> QED BY <1>0, <1>1, <2>1
<1> QED BY <1>3, <1>4

(* The gradient the kernel computes from scratch is that of the centered   *)
(* problem: what the centering takes from the column meets a residual of   *)
(* mean zero.                                                              *)
LEMMA GradientIs ==
  ASSUME Posed, Response(z), NEW b, Coefficients(b), NEW j \in Cols
  PROVE  /\ Gradient(b, j) = Along(j, Rest(b))
         /\ Gradient(b, j) = TrueGradient(b, j)
         /\ Gradient(b, j) \in Int
<1> DEFINE e == Rest(b)
           F == [i \in Rows |-> w(i) * e[i]]
           G == [i \in Rows |-> w(i) * x(i, j) * e[i]]
           H == [i \in Rows |-> w(i) * TrueColumn(j)[i] * TrueResidual(b)[i]]
<1>1. Gradient(b, j) = Along(j, e)
  BY DEF Gradient, Rest
<1>2. /\ \A i \in 1 .. N : w(i) \in Int /\ x(i, j) \in Int /\ e[i] \in Int
      /\ mu(j) \in Int /\ N \in Nat
  <2>1. \A i \in Rows : w(i) \in Int /\ x(i, j) \in Int
    BY BlockShape
  <2>2. \A i \in Rows : e[i] \in Int
    BY RestIs
  <2> QED BY <2>1, <2>2, MuIs, BlockShape DEF Rows
<1>3. TrueResidual(b) = e
  BY RestIs
<1>4. \A i \in 1 .. N : TrueColumn(j)[i] = x(i, j) - mu(j)
  BY TrueColumnIs DEF Rows
<1>5. Along(j, e) = Total(N, G) /\ Along(j, e) \in Int
  <2>1. \A i \in Rows : e[i] \in Int
    BY <1>2 DEF Rows
  <2> HIDE DEF e
  <2> QED BY <2>1, AlongIs
<1>6. Weighted(prob.w, e) = Total(N, F)
  <2>1. \A i \in Rows : e[i] \in Int
    BY <1>2 DEF Rows
  <2> HIDE DEF e
  <2> QED BY <2>1, WeightedIs
<1>7. TrueGradient(b, j) = Total(N, H)
  BY DEF TrueGradient
<1>8. \A i \in 1 .. N : F[i] \in Int /\ G[i] \in Int /\ H[i] = (-mu(j)) * F[i] + G[i]
  <2>1. \A a, s, k, t \in Int : /\ a * (s - k) * t = (-k) * (a * t) + a * s * t
                                /\ a * t \in Int /\ a * s * t \in Int
    OBVIOUS
  <2> TAKE i \in 1 .. N
  <2>2. /\ F[i] = w(i) * e[i] /\ G[i] = w(i) * x(i, j) * e[i]
        /\ H[i] = w(i) * (x(i, j) - mu(j)) * e[i]
    BY <1>3, <1>4 DEF Rows
  <2> HIDE DEF e, F, G, H
  <2> QED BY <1>2, <2>1, <2>2
<1> HIDE DEF e, F, G, H
<1>9. Total(N, H) = (-mu(j)) * Total(N, F) + Total(N, G)
  <2>1. -mu(j) \in Int
    BY <1>2
  <2> QED BY <1>2, <1>8, <2>1, TotalLinear
<1>10. mu(j) = 0 \/ Total(N, F) = 0
  BY <1>6, MuIs, RestIs DEF e
<1>11. Total(N, F) \in Int /\ Total(N, G) \in Int
  BY <1>2, <1>8, TotalIsInt
<1>12. Total(N, H) = Total(N, G)
  <2>1. \A s, t, k \in Int : (s = 0 \/ t = 0) => (-s) * t + k = k
    OBVIOUS
  <2> QED BY <1>2, <1>9, <1>10, <1>11, <2>1
<1> QED BY <1>1, <1>5, <1>7, <1>12 DEF e

-----------------------------------------------------------------------------
(* The entry of X'WX of two columns, centered.                             *)
Gram(j, k) == Along(j, [i \in Rows |-> x(i, k)]) - W * mu(k) * mu(j)

LEMMA GramIs ==
  ASSUME Posed, NEW j \in Cols, NEW k \in Cols
  PROVE  /\ Gram(j, k) \in Int
         /\ Gram(j, k) = Total(N, [i \in Rows |-> w(i) * x(i, j) * (x(i, k) - mu(k))])
         /\ \A i \in 1 .. N : [h \in Rows |-> w(h) * x(h, j) * (x(h, k) - mu(k))][i] \in Int
<1> DEFINE y == [i \in Rows |-> x(i, k)]
           F == [i \in Rows |-> w(i) * x(i, j)]
           G == [i \in Rows |-> w(i) * x(i, j) * y[i]]
           H == [i \in Rows |-> w(i) * x(i, j) * (x(i, k) - mu(k))]
<1>1. /\ \A i \in 1 .. N : w(i) \in Int /\ x(i, j) \in Int /\ x(i, k) \in Int
      /\ mu(k) \in Int /\ mu(j) \in Int /\ N \in Nat /\ W \in Int
  <2>1. \A i \in Rows : w(i) \in Int /\ x(i, j) \in Int /\ x(i, k) \in Int
    BY BlockShape
  <2>2. W \in Int
    BY WeightIsInt
  <2> QED BY <2>1, <2>2, MuIs, BlockShape DEF Rows
<1>2. Along(j, y) = Total(N, G)
  <2>1. \A i \in Rows : y[i] \in Int
    BY <1>1 DEF Rows
  <2> HIDE DEF y
  <2> QED BY <2>1, AlongIs
<1>3. \A i \in 1 .. N : F[i] \in Int /\ G[i] \in Int /\ H[i] = (-mu(k)) * F[i] + G[i] /\ H[i] \in Int
  <2>1. \A a, s, t, u \in Int : /\ a * s * (t - u) = (-u) * (a * s) + a * s * t
                                /\ a * s \in Int /\ a * s * t \in Int
                                /\ a * s * (t - u) \in Int
    OBVIOUS
  <2> TAKE i \in 1 .. N
  <2>2. /\ F[i] = w(i) * x(i, j) /\ G[i] = w(i) * x(i, j) * x(i, k)
        /\ H[i] = w(i) * x(i, j) * (x(i, k) - mu(k))
    BY DEF Rows
  <2> HIDE DEF F, G, H, y
  <2> QED BY <1>1, <2>1, <2>2
<1>4. (mu(j) = 0 /\ mu(k) = 0) \/ W * mu(j) = Total(N, F)
  BY MuIs
<1> HIDE DEF y, F, G, H
<1>5. Total(N, H) = (-mu(k)) * Total(N, F) + Total(N, G)
  <2>1. -mu(k) \in Int
    BY <1>1
  <2> QED BY <1>1, <1>3, <2>1, TotalLinear
<1>6. Total(N, F) \in Int /\ Total(N, G) \in Int /\ Total(N, H) \in Int
  BY <1>1, <1>3, TotalIsInt
<1>7. Total(N, H) = Total(N, G) - W * mu(k) * mu(j)
  <2>1. \A a, s, t, u \in Int : (-t) * (a * s) + u = u - a * t * s
    OBVIOUS
  <2>2. \A a, t, u \in Int : (-0) * t + u = u - a * 0 * 0
    OBVIOUS
  <2> QED BY <1>1, <1>4, <1>5, <1>6, <2>1, <2>2
<1>8. Gram(j, k) = Along(j, y) - W * mu(k) * mu(j)
  BY DEF Gram, y
<1> QED BY <1>2, <1>3, <1>6, <1>7, <1>8 DEF H

(* H is F but for d more at p.                                             *)
DiffersAt(n, p, d, F, H) ==
  \A i \in 1 .. n : F[i] \in Int /\ H[i] = IF i = p THEN F[i] + d ELSE F[i]

LEMMA TotalPoint ==
  ASSUME NEW n \in Nat, NEW p \in 1 .. n, NEW d \in Int, NEW F, NEW H,
         DiffersAt(n, p, d, F, H)
  PROVE  Total(n, H) = Total(n, F) + d
<1> USE DEF DiffersAt
<1> DEFINE D == [i \in 1 .. n |-> IF i = p THEN d ELSE 0]
<1>1. \A i \in 1 .. n : F[i] \in Int /\ D[i] \in Int /\ H[i] = F[i] + D[i]
  OBVIOUS
<1>2. D[p] = d /\ \A i \in 1 .. n : i # p => D[i] = 0
  OBVIOUS
<1> HIDE DEF D
<1>3. Total(n, D) = d
  BY <1>2, TotalOfOne
<1> QED BY <1>1, <1>3, TotalSum

(* A change of one coefficient moves what is left, and every gradient by   *)
(* the Gram entry.                                                         *)
LEMMA RestChange ==
  ASSUME Posed, Response(z), NEW b, Coefficients(b), NEW k \in Cols, NEW d \in Int
  PROVE  /\ Coefficients([b EXCEPT ![k] = @ + d])
         /\ FittedMean([b EXCEPT ![k] = @ + d]) = FittedMean(b) + mu(k) * d
         /\ \A i \in Rows :
              Rest([b EXCEPT ![k] = @ + d])[i] = Rest(b)[i] - (x(i, k) - mu(k)) * d
<1> DEFINE b2 == [b EXCEPT ![k] = @ + d]
<1>0. \A s, t, u \in Int : s * (t + u) = s * t + s * u /\ s * t \in Int /\ s + t \in Int
  OBVIOUS
<1>1. /\ Coefficients(b2)
      /\ \A j \in 1 .. P : b[j] \in Int /\ b2[j] = IF j = k THEN b[j] + d ELSE b[j]
      /\ k \in 1 .. P /\ P \in Nat
  BY BlockShape DEF Coefficients, Cols
<1>2. \A j \in 1 .. P : mu(j) \in Int
  BY MuIs DEF Cols
<1> HIDE DEF b2
<1>3. FittedMean(b2) = FittedMean(b) + mu(k) * d
  <2> DEFINE F == [j \in Cols |-> mu(j) * b[j]]
             H == [j \in Cols |-> mu(j) * b2[j]]
  <2>1. \A j \in 1 .. P : /\ F[j] \in Int
                          /\ H[j] = IF j = k THEN F[j] + mu(k) * d ELSE F[j]
    BY <1>0, <1>1, <1>2 DEF Cols
  <2>2. mu(k) * d \in Int
    BY <1>0, <1>1, <1>2
  <2> DEFINE s == mu(k) * d
  <2> HIDE DEF F, H, s
  <2>3. s \in Int /\ DiffersAt(P, k, s, F, H)
    BY <2>1, <2>2 DEF s, DiffersAt
  <2>4. Total(P, H) = Total(P, F) + s
    BY <1>1, <2>3, TotalPoint
  <2> QED BY <2>4 DEF F, H, s, FittedMean
<1>4. ASSUME NEW i \in Rows PROVE Fitted(b2)[i] = Fitted(b)[i] + x(i, k) * d
  <2> DEFINE F == [j \in Cols |-> x(i, j) * b[j]]
             H == [j \in Cols |-> x(i, j) * b2[j]]
  <2>0. \A j \in 1 .. P : x(i, j) \in Int
    BY BlockShape DEF Cols
  <2>1. \A j \in 1 .. P : /\ F[j] \in Int
                          /\ H[j] = IF j = k THEN F[j] + x(i, k) * d ELSE F[j]
    BY <1>0, <1>1, <2>0 DEF Cols
  <2>2. x(i, k) * d \in Int
    BY <1>0, <1>1, <2>0
  <2>3. Fitted(b)[i] = Total(P, F) /\ Fitted(b2)[i] = Total(P, H)
    BY <1>1, FittedIs
  <2> DEFINE s == x(i, k) * d
  <2> HIDE DEF F, H, s
  <2>4. s \in Int /\ DiffersAt(P, k, s, F, H)
    BY <2>1, <2>2 DEF s, DiffersAt
  <2>5. Total(P, H) = Total(P, F) + s
    BY <1>1, <2>4, TotalPoint
  <2> QED BY <2>3, <2>5 DEF s
<1>5. ASSUME NEW i \in Rows PROVE Rest(b2)[i] = Rest(b)[i] - (x(i, k) - mu(k)) * d
  <2>1. /\ z[i] \in Int /\ zbar \in Int
    BY RestIs
  <2>2. Fitted(b)[i] \in Int /\ FittedMean(b) \in Int
    BY FittedIs
  <2>3. x(i, k) \in Int /\ mu(k) \in Int
    BY BlockShape, MuIs
  <2>4. /\ Rest(b)[i] = (z[i] - Fitted(b)[i]) - (zbar - FittedMean(b))
        /\ Rest(b2)[i] = (z[i] - Fitted(b2)[i]) - (zbar - FittedMean(b2))
    BY DEF Rest
  <2>5. \A s, t, u, h, a, y \in Int :
          (s - (t + a * d)) - (u - (h + y * d)) = ((s - t) - (u - h)) - (a - y) * d
    OBVIOUS
  <2> QED BY <1>3, <1>4, <2>1, <2>2, <2>3, <2>4, <2>5
<1> QED BY <1>1, <1>3, <1>5 DEF b2

LEMMA GradientChange ==
  ASSUME Posed, Response(z), NEW b, Coefficients(b), NEW k \in Cols, NEW d \in Int,
         NEW j \in Cols
  PROVE  Gradient([b EXCEPT ![k] = @ + d], j) = Gradient(b, j) - Gram(j, k) * d
<1> DEFINE b2 == [b EXCEPT ![k] = @ + d]
           F == [i \in Rows |-> w(i) * x(i, j) * (x(i, k) - mu(k))]
           G == [i \in Rows |-> w(i) * x(i, j) * Rest(b)[i]]
           H == [i \in Rows |-> w(i) * x(i, j) * Rest(b2)[i]]
<1>1. Coefficients(b2) /\ \A i \in Rows : Rest(b2)[i] = Rest(b)[i] - (x(i, k) - mu(k)) * d
  BY RestChange
<1> HIDE DEF b2
<1>2. /\ \A i \in 1 .. N : /\ w(i) \in Int /\ x(i, j) \in Int /\ x(i, k) \in Int
                           /\ Rest(b)[i] \in Int /\ Rest(b2)[i] \in Int
      /\ mu(k) \in Int /\ N \in Nat
  <2>1. \A i \in Rows : w(i) \in Int /\ x(i, j) \in Int /\ x(i, k) \in Int
    BY BlockShape
  <2>2. \A i \in Rows : Rest(b)[i] \in Int /\ Rest(b2)[i] \in Int
    BY <1>1, RestIs
  <2> QED BY <2>1, <2>2, MuIs, BlockShape DEF Rows
<1>3. /\ Gradient(b, j) = Total(N, G) /\ Gradient(b2, j) = Total(N, H)
      /\ Gradient(b, j) \in Int
  <2>1. /\ Gradient(b, j) = Along(j, Rest(b)) /\ Gradient(b2, j) = Along(j, Rest(b2))
        /\ Gradient(b, j) \in Int
    BY <1>1, GradientIs
  <2>2. \A i \in Rows : Rest(b)[i] \in Int /\ Rest(b2)[i] \in Int
    BY <1>2 DEF Rows
  <2> QED BY <2>1, <2>2, AlongIs
<1>4. Gram(j, k) = Total(N, F) /\ Gram(j, k) \in Int
  BY GramIs
<1>5. \A i \in 1 .. N : F[i] \in Int /\ G[i] \in Int /\ H[i] = (-d) * F[i] + G[i]
  <2>1. \A a, s, t, u, e \in Int :
          /\ a * s * (e - (t - u) * d) = (-d) * (a * s * (t - u)) + a * s * e
          /\ a * s * (t - u) \in Int /\ a * s * e \in Int
    OBVIOUS
  <2> TAKE i \in 1 .. N
  <2>2. /\ F[i] = w(i) * x(i, j) * (x(i, k) - mu(k)) /\ G[i] = w(i) * x(i, j) * Rest(b)[i]
        /\ H[i] = w(i) * x(i, j) * (Rest(b)[i] - (x(i, k) - mu(k)) * d)
    BY <1>1 DEF Rows
  <2> HIDE DEF F, G, H
  <2> QED BY <1>2, <2>1, <2>2
<1> HIDE DEF F, G, H
<1>6. Total(N, H) = (-d) * Total(N, F) + Total(N, G)
  <2>1. -d \in Int
    OBVIOUS
  <2> QED BY <1>2, <1>5, <2>1, TotalLinear
<1>7. \A s, t \in Int : (-d) * s + t = t - s * d
  OBVIOUS
<1> QED BY <1>3, <1>4, <1>6, <1>7 DEF b2

(* The gradient from the response's and the Gram entries: what the         *)
(* covariance form starts from.                                            *)
LEMMA GradientWhole ==
  ASSUME Posed, Response(z), NEW b, Coefficients(b), NEW j \in Cols
  PROVE  /\ Gradient(b, j) = Along(j, [i \in Rows |-> z[i] - zbar])
                               - Total(P, [k \in Cols |-> Gram(j, k) * b[k]])
         /\ Along(j, [i \in Rows |-> z[i] - zbar]) \in Int
         /\ \A k \in 1 .. P : [h \in Cols |-> Gram(j, h) * b[h]][k] \in Int
<1> DEFINE U == [i \in Rows |-> Fitted(b)[i] - FittedMean(b)]
           y == [i \in Rows |-> z[i] - zbar]
           A == [i \in Rows |-> [k \in Cols |-> (w(i) * x(i, j)) * ((x(i, k) - mu(k)) * b[k])]]
           B == [k \in Cols |-> [i \in Rows |-> (w(i) * x(i, j)) * ((x(i, k) - mu(k)) * b[k])]]
           R == [i \in Rows |-> w(i) * x(i, j) * U[i]]
           C == [k \in Cols |-> Gram(j, k) * b[k]]
           G == [i \in Rows |-> w(i) * x(i, j) * y[i]]
           H == [i \in Rows |-> w(i) * x(i, j) * Rest(b)[i]]
<1>0. /\ \A s, t \in Int : s - t \in Int /\ s * t \in Int
      /\ \A a, s, t \in Int : a * s * t \in Int
      /\ \A a, s, t, u \in Int : (a * s) * (t * u) \in Int
  OBVIOUS
<1>1. /\ N \in Nat /\ P \in Nat /\ FittedMean(b) \in Int /\ zbar \in Int
      /\ \A i \in Rows : /\ w(i) \in Int /\ x(i, j) \in Int /\ z[i] \in Int
                         /\ Fitted(b)[i] \in Int /\ Rest(b)[i] \in Int
  <2>1. \A i \in Rows : w(i) \in Int /\ x(i, j) \in Int
    BY BlockShape
  <2>2. FittedMean(b) \in Int /\ \A i \in Rows : Fitted(b)[i] \in Int
    BY FittedIs
  <2>3. zbar \in Int /\ \A i \in Rows : z[i] \in Int /\ Rest(b)[i] \in Int
    BY RestIs
  <2> QED BY <2>1, <2>2, <2>3, BlockShape
<1>2. \A i \in Rows : \A k \in Cols : x(i, k) \in Int
  BY BlockShape
<1>3. \A k \in Cols : b[k] \in Int /\ mu(k) \in Int
  BY MuIs DEF Coefficients
<1>4. \A k \in Cols : Gram(j, k) \in Int
  BY GramIs
<1>5. \A i \in Rows : U[i] \in Int /\ y[i] \in Int
  BY <1>0, <1>1
<1>6. ASSUME NEW i \in Rows PROVE R[i] = Total(P, A[i])
  <2> DEFINE F == [k \in Cols |-> x(i, k) * b[k]]
             D == [k \in Cols |-> mu(k) * b[k]]
             E == [k \in Cols |-> (x(i, k) - mu(k)) * b[k]]
             a == A[i]
             s == w(i) * x(i, j)
  <2>1. \A k \in 1 .. P : F[k] \in Int /\ D[k] \in Int /\ E[k] = F[k] - D[k] /\ E[k] \in Int
    <3>1. \A t, u, h \in Int : /\ (t - u) * h = t * h - u * h
                               /\ t * h \in Int /\ (t - u) * h \in Int
      OBVIOUS
    <3> QED BY <3>1, <1>2, <1>3 DEF Cols
  <2>2. Fitted(b)[i] = Total(P, F) /\ FittedMean(b) = Total(P, D)
    BY FittedIs DEF FittedMean
  <2>3. \A k \in 1 .. P : a[k] = s * E[k]
    BY DEF Cols
  <2>4. R[i] = s * U[i] /\ U[i] = Fitted(b)[i] - FittedMean(b) /\ s \in Int
    BY <1>0, <1>1
  <2> HIDE DEF F, D, E, a, s, A, R, U
  <2>5. Total(P, E) = Total(P, F) - Total(P, D)
    BY <1>1, <2>1, TotalDifference
  <2>6. Total(P, a) = s * Total(P, E)
    BY <1>1, <2>1, <2>3, <2>4, TotalScale
  <2> QED BY <2>2, <2>4, <2>5, <2>6 DEF a
<1>7. ASSUME NEW k \in Cols PROVE C[k] = Total(N, B[k])
  <2> DEFINE F == [i \in Rows |-> w(i) * x(i, j) * (x(i, k) - mu(k))]
             e == B[k]
  <2>1. \A i \in 1 .. N : F[i] \in Int /\ e[i] = b[k] * F[i]
    <3>1. \A s, t, u, h \in Int : /\ (s * t) * (u * h) = h * (s * t * u)
                                  /\ s * t * u \in Int
      OBVIOUS
    <3>2. \A i \in 1 .. N : /\ w(i) \in Int /\ x(i, j) \in Int /\ x(i, k) - mu(k) \in Int
                            /\ b[k] \in Int
      BY <1>0, <1>1, <1>2, <1>3 DEF Rows
    <3>3. \A i \in 1 .. N : /\ F[i] = w(i) * x(i, j) * (x(i, k) - mu(k))
                            /\ e[i] = (w(i) * x(i, j)) * ((x(i, k) - mu(k)) * b[k])
      BY DEF Rows
    <3> HIDE DEF F, e
    <3> QED BY <3>1, <3>2, <3>3
  <2>2. Gram(j, k) = Total(N, F)
    BY GramIs
  <2>3. C[k] = b[k] * Gram(j, k)
    <3>1. \A s, t \in Int : s * t = t * s
      OBVIOUS
    <3> QED BY <3>1, <1>3, <1>4
  <2> HIDE DEF F, e, B, C
  <2>4. Total(N, e) = b[k] * Total(N, F)
    BY <1>1, <1>3, <2>1, TotalScale
  <2> QED BY <2>2, <2>3, <2>4 DEF e
<1>8. Tabulates(N, P, A, B, R, C)
  <2>1. \A i \in 1 .. N : \A k \in 1 .. P : A[i][k] \in Int /\ B[k][i] = A[i][k]
    BY <1>0, <1>1, <1>2, <1>3 DEF Rows, Cols
  <2> HIDE DEF A, B, R, C
  <2> QED BY <1>6, <1>7, <2>1 DEF Tabulates, Rows, Cols
<1>9. \A i \in 1 .. N : G[i] \in Int /\ R[i] \in Int /\ H[i] = G[i] - R[i]
  <2> TAKE i \in 1 .. N
  <2>1. /\ G[i] = w(i) * x(i, j) * y[i] /\ R[i] = w(i) * x(i, j) * U[i]
        /\ H[i] = w(i) * x(i, j) * Rest(b)[i]
    BY DEF Rows
  <2>2. Rest(b)[i] = y[i] - U[i]
    <3>1. \A s, t, u, h \in Int : (s - t) - (u - h) = (s - u) - (t - h)
      OBVIOUS
    <3>2. /\ Rest(b)[i] = (z[i] - Fitted(b)[i]) - (zbar - FittedMean(b))
          /\ y[i] = z[i] - zbar /\ U[i] = Fitted(b)[i] - FittedMean(b)
      BY DEF Rest, Rows
    <3> HIDE DEF y, U
    <3> QED BY <1>1, <3>1, <3>2 DEF Rows
  <2>3. \A s, t, u, h \in Int : s * t * (u - h) = s * t * u - s * t * h
    OBVIOUS
  <2> HIDE DEF y, U, G, R, H
  <2> QED BY <1>0, <1>1, <1>5, <2>1, <2>2, <2>3 DEF Rows
<1>10. Gradient(b, j) = Total(N, H)
  <2>1. Gradient(b, j) = Along(j, Rest(b))
    BY GradientIs
  <2> QED BY <1>1, <2>1, AlongIs
<1>11. Along(j, y) = Total(N, G) /\ Along(j, y) \in Int
  <2> HIDE DEF y
  <2> QED BY <1>5, AlongIs
<1>12. \A k \in 1 .. P : C[k] \in Int
  BY <1>0, <1>3, <1>4 DEF Cols
<1> HIDE DEF A, B, R, C, G, H, y
<1>13. Total(N, R) = Total(P, C)
  BY <1>1, <1>8, TotalExchange
<1>14. Total(N, H) = Total(N, G) - Total(N, R)
  BY <1>1, <1>9, TotalDifference
<1> QED BY <1>10, <1>11, <1>12, <1>13, <1>14 DEF y, C

(* The curvature the kernel reads off the stored entries is that of the    *)
(* centered column.                                                        *)
LEMMA CurvatureIs ==
  ASSUME Posed, NEW j \in Cols
  PROVE  Curvature(j) = TrueCurvature(j) /\ Curvature(j) \in Int
<1> DEFINE H == [i \in Rows |-> w(i) * TrueColumn(j)[i] * TrueColumn(j)[i]]
<1>1. /\ \A i \in 1 .. N : /\ w(i) \in Int /\ x(i, j) \in Int
                           /\ TrueColumn(j)[i] = x(i, j) - mu(j)
      /\ mu(j) \in Int /\ N \in Nat /\ W \in Int
  <2>1. \A i \in Rows : w(i) \in Int /\ x(i, j) \in Int
    BY BlockShape
  <2> QED BY <2>1, MuIs, BlockShape, TrueColumnIs, WeightIsInt DEF Rows
<1>2. TrueCurvature(j) = Total(N, H)
  BY DEF TrueCurvature
<1>3. \A i \in 1 .. N : H[i] = w(i) * (x(i, j) - mu(j)) * (x(i, j) - mu(j)) /\ H[i] \in Int
  <2>1. \A s, t, u \in Int : s * (t - u) * (t - u) \in Int
    OBVIOUS
  <2>2. \A i \in 1 .. N : H[i] = w(i) * (x(i, j) - mu(j)) * (x(i, j) - mu(j))
    BY <1>1 DEF Rows
  <2> HIDE DEF H
  <2> QED BY <1>1, <2>1, <2>2
<1>4. CASE ~ prob.center
  <2> DEFINE F == [i \in Rows |-> w(i) * x(i, j) * prob.X[j][i]]
  <2>1. Curvature(j) = Along(j, prob.X[j])
    BY <1>4 DEF Curvature
  <2>2. Along(j, prob.X[j]) = Total(N, F)
    BY BlockShape, AlongIs
  <2>3. \A i \in 1 .. N : F[i] = H[i]
    <3>1. mu(j) = 0
      BY <1>4, MuIs
    <3>2. \A s \in Int : s - 0 = s
      OBVIOUS
    <3>3. \A i \in 1 .. N : F[i] = w(i) * x(i, j) * x(i, j)
      BY DEF x, Rows
    <3> HIDE DEF F, H
    <3> QED BY <1>1, <1>3, <3>1, <3>2, <3>3
  <2> HIDE DEF F, H
  <2> QED BY <1>1, <1>2, <1>3, <2>1, <2>2, <2>3, TotalSame, TotalIsInt
<1>5. CASE prob.center
  <2> DEFINE stored == {i \in Walk(j) : x(i, j) # 0}
             F == [i \in Rows |-> IF i \in stored
                                  THEN w(i) * (x(i, j) - mu(j)) * (x(i, j) - mu(j)) ELSE 0]
             G == [i \in Rows |-> IF i \in stored THEN w(i) ELSE 0]
             K == [i \in Rows |-> w(i) - G[i]]
  <2>1. Curvature(j) = Total(N, F) + mu(j) * mu(j) * (W - Total(N, G))
    BY <1>5 DEF Curvature
  <2>2. \A i \in Rows : i \in stored <=> x(i, j) # 0
    BY DEF Walk
  <2>3. \A i \in 1 .. N : /\ prob.w[i] \in Int /\ G[i] \in Int
                          /\ K[i] = prob.w[i] - G[i] /\ K[i] \in Int
    <3>1. \A s, t \in Int : s - t \in Int
      OBVIOUS
    <3> QED BY <1>1, <3>1 DEF Rows, w
  <2>4. \A i \in 1 .. N : F[i] \in Int /\ H[i] = (mu(j) * mu(j)) * K[i] + F[i]
    <3> TAKE i \in 1 .. N
    <3>1. /\ F[i] = IF x(i, j) # 0 THEN H[i] ELSE 0
          /\ K[i] = IF x(i, j) # 0 THEN w(i) - w(i) ELSE w(i) - 0
      <4>1. i \in Rows /\ (i \in stored <=> x(i, j) # 0)
        BY <2>2 DEF Rows
      <4> HIDE DEF stored, H
      <4> QED BY <1>3, <4>1
    <3>2. \A s, t, u \in Int : /\ (u * u) * (s - s) + t = t
                               /\ s * (0 - u) * (0 - u) = (u * u) * (s - 0) + 0
      OBVIOUS
    <3> HIDE DEF F, H, K
    <3> QED BY <1>1, <1>3, <3>1, <3>2
  <2> HIDE DEF F, G, H, K, stored
  <2>5. Total(N, K) = Total(N, prob.w) - Total(N, G)
    BY <1>1, <2>3, TotalDifference
  <2>6. Total(N, H) = (mu(j) * mu(j)) * Total(N, K) + Total(N, F)
    <3>1. mu(j) * mu(j) \in Int
      <4>1. \A s \in Int : s * s \in Int
        OBVIOUS
      <4> QED BY <1>1, <4>1
    <3> DEFINE d == mu(j) * mu(j)
    <3>2. /\ N \in Nat /\ d \in Int
          /\ \A i \in 1 .. N : K[i] \in Int /\ F[i] \in Int /\ H[i] = d * K[i] + F[i]
      BY <1>1, <2>3, <2>4, <3>1
    <3> HIDE DEF d
    <3>3. Total(N, H) = d * Total(N, K) + Total(N, F)
      BY <3>2, TotalLinear
    <3> QED BY <3>3 DEF d
  <2>7. Total(N, F) \in Int /\ Total(N, K) \in Int /\ Total(N, G) \in Int /\ Total(N, H) \in Int
    BY <1>1, <1>3, <2>3, <2>4, TotalIsInt
  <2>8. Curvature(j) = Total(N, H)
    <3>1. W - Total(N, G) = Total(N, K)
      BY <2>5, BlockShape
    <3>2. \A s, t, u \in Int : s + u * u * t = (u * u) * t + s
      OBVIOUS
    <3> QED BY <1>1, <2>1, <2>6, <2>7, <3>1, <3>2
  <2> QED BY <1>2, <2>7, <2>8 DEF H
<1> QED BY <1>4, <1>5, BlockShape

-----------------------------------------------------------------------------
(* The columns kept.                                                       *)
Sorted == keep \in Seq(Cols) /\ \A a, b \in 1 .. m : a < b => keep[a] < keep[b]
Kept == Sorted /\ keep # <<>>

LEMMA KeptIs ==
  ASSUME Posed, Kept
  PROVE  /\ m \in Nat /\ m >= 1
         /\ \A a \in 1 .. m : Swept(a) = keep[a] /\ keep[a] \in Cols /\ keep[a] \in Range(keep)
         /\ \A j \in Range(keep) : j \in Cols /\ \E a \in 1 .. m : keep[a] = j
         /\ \A a, b \in 1 .. m : keep[a] = keep[b] => a = b
<1>1. m \in Nat /\ m >= 1 /\ DOMAIN keep = 1 .. m /\ \A a \in 1 .. m : keep[a] \in Cols
  BY DEF Kept, Sorted, m
<1>2. \A a, b \in 1 .. m : keep[a] = keep[b] => a = b
  <2>1. \A a \in 1 .. m : keep[a] \in Int
    BY <1>1 DEF Cols
  <2> SUFFICES ASSUME NEW a \in 1 .. m, NEW b \in 1 .. m, keep[a] = keep[b] PROVE a = b
    OBVIOUS
  <2>2. ~ (a < b) /\ ~ (b < a)
    BY <2>1 DEF Kept, Sorted
  <2> QED BY <2>2, <1>1
<1> QED BY <1>1, <1>2 DEF Swept, Range

(* The columns scattered are the Gram entries, and never empty.            *)
LEMMA GramColumnIs ==
  ASSUME Posed, Kept, NEW a \in 1 .. m
  PROVE  /\ GramColumn(a) # <<>>
         /\ \A b \in 1 .. m : GramColumn(a)[b] = Gram(keep[b], keep[a])
<1>1. \A h \in 1 .. m : Swept(h) = keep[h] /\ keep[h] \in Cols
  BY KeptIs
<1>2. m \in Nat /\ m >= 1
  BY KeptIs
<1>3. [i \in Rows |-> IF i \in Walk(keep[a]) THEN x(i, keep[a]) ELSE 0] = [i \in Rows |-> x(i, keep[a])]
  BY DEF Walk
<1>4. ASSUME NEW b \in 1 .. m PROVE GramColumn(a)[b] = Gram(keep[b], keep[a])
  BY <1>1, <1>3 DEF GramColumn, Gram
<1>5. DOMAIN GramColumn(a) = 1 .. m
  BY DEF GramColumn
<1>6. 1 \in 1 .. m /\ DOMAIN <<>> = {}
  BY <1>2
<1> QED BY <1>4, <1>5, <1>6

(* What the rule keeps is ascending and not empty, and everything away     *)
(* from zero is in it.                                                     *)
LEMMA ScreenIs ==
  ASSUME Posed, NEW b, Coefficients(b), NEW zz, \A i \in Rows : zz[i] \in Int
  PROVE  \E S \in SUBSET Cols : /\ Screen(b, zz) = Ascending(S) /\ S # {}
                                /\ \A j \in Cols : b[j] # 0 => j \in S
<1>1. CASE prob.prevKink = None
  <2>1. 1 \in Cols
    BY BlockShape DEF Cols
  <2> QED BY <1>1, <2>1 DEF Screen
<1>2. CASE prob.prevKink # None
  <2> DEFINE G == Steepness(b, zz)
             kept == {j \in Cols : G[j] >= 2 * prob.kink[j] - prob.prevKink[j] \/ b[j] # 0}
             S == IF kept = {} THEN {Largest(G)} ELSE kept
  <2>1. Screen(b, zz) = Ascending(S)
    BY <1>2 DEF Screen
  <2>2. \A j \in Cols : G[j] \in Int
    <3> DEFINE res == [i \in Rows |-> zz[i] - Fitted(b)[i]]
               mean == IF prob.center THEN Mean(res) ELSE 0
    <3>1. \A i \in Rows : res[i] \in Int
      <4>1. \A s, t \in Int : s - t \in Int
        OBVIOUS
      <4> QED BY <4>1, FittedIs
    <3>2. mean \in Int
      <4>1. CASE ~ prob.center
        BY <4>1
      <4>2. CASE prob.center
        <5>1. Weighted(prob.w, res) \in Int
          <6> HIDE DEF res
          <6> QED BY <3>1, WeightedIs
        <5>2. \A s, t \in Int : t > 0 => s \div t \in Int
          OBVIOUS
        <5> HIDE DEF res
        <5> QED BY <4>2, <5>1, <5>2, ExactMeans DEF Mean
      <4> QED BY <4>1, <4>2
    <3>3. ASSUME NEW j \in Cols PROVE G[j] \in Int
      <4> DEFINE F == [i \in Rows |-> w(i) * x(i, j) * (res[i] - mean)]
      <4>1. G[j] = Abs(Total(N, F))
        BY DEF Steepness
      <4>2. \A i \in 1 .. N : F[i] \in Int
        <5>1. \A s, t, u, h \in Int : s * t * (u - h) \in Int
          OBVIOUS
        <5>2. \A i \in 1 .. N : w(i) \in Int /\ x(i, j) \in Int /\ res[i] \in Int
          BY <3>1, BlockShape DEF Rows
        <5>3. \A i \in 1 .. N : F[i] = w(i) * x(i, j) * (res[i] - mean)
          BY DEF Rows
        <5> HIDE DEF F, res, mean
        <5> QED BY <3>2, <5>1, <5>2, <5>3
      <4> HIDE DEF F, G
      <4>3. Total(N, F) \in Int
        BY <4>2, BlockShape, TotalIsInt
      <4> QED BY <4>1, <4>3 DEF Abs
    <3> QED BY <3>3
  <2>3. Largest(G) \in Cols
    <3> HIDE DEF G
    <3>1. P - 1 \in Nat /\ 1 .. P - 1 + 1 = Cols
      BY BlockShape DEF Cols
    <3>2. \E j \in Cols : \A k \in Cols : G[k] < G[j] \/ (G[k] = G[j] /\ j <= k)
      BY <2>2, <3>1, LargestExists
    <3> QED BY <3>2 DEF Largest
  <2>4. S \in SUBSET Cols /\ S # {} /\ \A j \in Cols : b[j] # 0 => j \in S
    <3>1. \A j \in Cols : b[j] # 0 => j \in kept
      OBVIOUS
    <3>2. kept \in SUBSET Cols
      OBVIOUS
    <3> HIDE DEF kept, G
    <3> QED BY <2>3, <3>1, <3>2
  <2> HIDE DEF S
  <2> QED BY <2>1, <2>4
<1> QED BY <1>1, <1>2

-----------------------------------------------------------------------------
(* What does not move while the block and its response stand still.        *)
LEMMA StillBlock ==
  ASSUME UNCHANGED prob
  PROVE  /\ N' = N /\ P' = P /\ Rows' = Rows /\ Cols' = Cols /\ Posed' = Posed /\ W' = W
         /\ \A j : mu(j)' = mu(j) /\ Walk(j)' = Walk(j)
         /\ \A j, u : Along(j, u)' = Along(j, u)
         /\ \A b : Fitted(b)' = Fitted(b) /\ FittedMean(b)' = FittedMean(b)
         /\ \A j, k : Gram(j, k)' = Gram(j, k)
         /\ \A j : Curvature(j)' = Curvature(j) /\ TrueCurvature(j)' = TrueCurvature(j)
BY DEF N, P, Rows, Cols, Posed, W, mu, Walk, Along, Fitted, FittedMean, Gram, Curvature,
       TrueCurvature, x, w, TrueColumn, Centered, Mean

LEMMA StillResponse ==
  ASSUME UNCHANGED <<prob, z>>
  PROVE  /\ Response(z)' = Response(z) /\ zbar' = zbar
         /\ \A b : Rest(b)' = Rest(b) /\ TrueResidual(b)' = TrueResidual(b)
         /\ \A b, j : Gradient(b, j)' = Gradient(b, j) /\ TrueGradient(b, j)' = TrueGradient(b, j)
BY StillBlock DEF Response, Exact, zbar, Rest, TrueResidual, Gradient, TrueGradient,
   N, P, Rows, Cols, W, mu, Walk, Along, Fitted, FittedMean, TrueColumn, Centered, Mean, x, w

-----------------------------------------------------------------------------
(* The inductive invariant: the numbers a run carries, ...                 *)
Shape ==
  /\ phase \in {"idle", "read", "call", "sweep", "swept", "checked", "over"}
  /\ trip \in 0 .. MaxTrips /\ sweep \in 0 .. MaxSweeps
  /\ delta \in Nat /\ c \in Int /\ inter \in Int /\ full \in BOOLEAN /\ met \in BOOLEAN
  /\ verdict \in {None, "unmoved", "small", "stuck", "budget"}

(* ... the block and what was asked about it, the problem last read being  *)
(* the response in hand, ...                                               *)
Asked ==
  /\ phase = "idle" => keep = <<>>
  /\ phase # "idle" =>
       /\ Posed /\ Coefficients(cur) /\ Sorted
       /\ IF trip = 0 THEN prev = None ELSE Response(z) /\ prev = Centered(z)

(* ... everything away from zero kept, from the rule to the check, ...     *)
Called ==
  phase \in {"call", "sweep", "swept", "checked"} =>
    trip > 0 /\ Kept /\ \A j \in Cols : cur[j] # 0 => j \in Range(keep)

(* ... the kernel's coefficients, moved in kept columns only, ...          *)
Solved ==
  phase \in {"sweep", "swept", "checked"} =>
    Coefficients(beta) /\ \A j \in Cols : beta[j] # cur[j] => j \in Range(keep)

(* ... the place of a sweep, ...                                           *)
Placed ==
  /\ phase \in {"sweep", "swept"} => active \in Seq(1 .. m)
  /\ phase = "sweep" => pos \in 1 .. QEnd + 1

(* ... and what a sweep holds: a Gram column is fetched once and is right  *)
(* from then on, the gradients are up to date, or else the residual is.    *)
Numbers ==
  phase = "sweep" =>
    /\ \A a \in 1 .. m : v[a] = Curvature(keep[a]) /\ tab[a] = Table(a, v[a])
    /\ c = zbar - FittedMean(beta)
    /\ IF covariance
       THEN /\ \A a \in 1 .. m : g[a] = Gradient(beta, keep[a])
            /\ DOMAIN gram = 1 .. m
            /\ \A a, b \in 1 .. m :
                 gram[a] # <<>> => gram[a][b] = Gram(keep[b], keep[a])
       ELSE \A i \in Rows : r[i] = z[i] - Fitted(beta)[i]

IInv == Shape /\ Asked /\ Called /\ Solved /\ Placed /\ Numbers

LEMMA InitHolds == Init => IInv
<1> SUFFICES ASSUME Init PROVE IInv
  OBVIOUS
<1>1. Shape
  BY CoordAssumption DEF Init, Shape
<1> QED BY <1>1 DEF Init, IInv, Asked, Called, Solved, Placed, Numbers

-----------------------------------------------------------------------------
(* What stands still with the block, its response and the columns kept.    *)
LEMMA AskedStill ==
  ASSUME Asked, UNCHANGED <<problem, keep>>, phase # "idle", phase' # "idle"
  PROVE  Asked'
<1>1. UNCHANGED <<prob, trip, cur, z, prev, keep>>
  BY DEF problem
<1>2. Response(z)' = Response(z) /\ Posed' = Posed /\ Cols' = Cols /\ Rows' = Rows
  BY <1>1, StillBlock, StillResponse
<1>3. Centered(z)' = Centered(z)
  BY <1>1 DEF Centered, Mean, W, Rows, N
<1>4. Sorted' = Sorted /\ Coefficients(cur)' = Coefficients(cur)
  BY <1>1, <1>2 DEF Sorted, Coefficients, m
<1> QED BY <1>1, <1>2, <1>3, <1>4 DEF Asked

LEMMA CalledStill ==
  ASSUME Called, UNCHANGED <<problem, keep>>,
         phase \in {"call", "sweep", "swept", "checked"}
  PROVE  Called' /\ Kept' = Kept
<1>1. UNCHANGED <<prob, trip, cur, keep>>
  BY DEF problem
<1>2. Cols' = Cols
  BY <1>1, StillBlock
<1>3. Kept' = Kept
  BY <1>1, <1>2 DEF Kept, Sorted, m
<1> QED BY <1>1, <1>2, <1>3 DEF Called

LEMMA SolvedStill ==
  ASSUME Solved, UNCHANGED <<problem, keep, beta>>, phase \in {"sweep", "swept", "checked"}
  PROVE  Solved'
<1>1. UNCHANGED <<prob, cur, keep, beta>>
  BY DEF problem
<1>2. Cols' = Cols
  BY <1>1, StillBlock
<1> QED BY <1>1, <1>2 DEF Solved, Coefficients

(* A step that leaves everything leaves the invariant.                     *)
LEMMA StutterHolds == ASSUME IInv, UNCHANGED vars PROVE IInv'
<1>1. UNCHANGED <<phase, prob, trip, cur, inter, z, prev, keep, tab, v, beta, g, gram, r, c,
                  active, full, sweep, pos, delta, met, verdict>>
  BY DEF vars, problem, numbers, sweeps
<1>2. Shape' /\ Placed'
  <2>1. Shape'
    BY <1>1 DEF IInv, Shape
  <2>2. Placed'
    BY <1>1 DEF IInv, Placed, QEnd, m
  <2> QED BY <2>1, <2>2
<1>3. Asked'
  BY <1>1, AskedStill DEF IInv, problem, Asked
<1>4. Called' /\ Solved'
  BY <1>1, CalledStill, SolvedStill DEF IInv, problem, Called, Solved
<1>5. Numbers'
  BY <1>1, StillBlock, StillResponse DEF IInv, Numbers, Table, PenaltyMap, Swept, m, covariance
<1> QED BY <1>2, <1>3, <1>4, <1>5 DEF IInv

-----------------------------------------------------------------------------
(* A response net of an intercept.                                         *)
LEMMA ResponseNet ==
  ASSUME Posed, NEW y \in prob.responses, NEW k \in Int
  PROVE  Response([i \in Rows |-> y[i] - k])
<1> DEFINE u == [i \in Rows |-> y[i] - k]
           one == [i \in Rows |-> 1]
<1>1. \A i \in Rows : y[i] \in Int
  BY BlockShape
<1>2. \A i \in Rows : one[i] = 1 /\ u[i] = (-k) * one[i] + y[i]
  <2>1. \A s, t \in Int : s - t = (-t) * 1 + s
    OBVIOUS
  <2> QED BY <1>1, <2>1
<1>3. u \in [Rows -> Int]
  <2>1. \A s, t \in Int : s - t \in Int
    OBVIOUS
  <2> QED BY <1>1, <2>1
<1>4. ASSUME prob.center PROVE W * Mean(u) = Weighted(prob.w, u)
  <2>1. W \in Int /\ W > 0 /\ W * Mean(y) = Weighted(prob.w, y) /\ Weighted(prob.w, y) \in Int
    BY <1>1, <1>4, ExactMeans, WeightedIs
  <2>2. Mean(y) \in Int
    <3>1. \A s, t \in Int : t > 0 => s \div t \in Int
      OBVIOUS
    <3> QED BY <2>1, <3>1 DEF Mean
  <2> HIDE DEF u, one
  <2>3. Weighted(prob.w, one) = 1 * W
    BY <1>2, WeightedConstant
  <2>4. Weighted(prob.w, u) = (-k) * Weighted(prob.w, one) + Weighted(prob.w, y)
    <3>1. -k \in Int /\ \A i \in Rows : one[i] \in Int
      BY <1>2
    <3> QED BY <1>1, <1>2, <3>1, WeightedLinear
  <2>5. Weighted(prob.w, u) = W * (Mean(y) - k)
    <3>1. \A s, t, h \in Int : (-h) * (1 * s) + s * t = s * (t - h)
      OBVIOUS
    <3> QED BY <2>1, <2>2, <2>3, <2>4, <3>1
  <2>6. Mean(u) = Mean(y) - k
    <3>1. Mean(y) - k \in Int
      BY <2>2
    <3> QED BY <2>1, <2>5, <3>1, Exactly DEF Mean
  <2> QED BY <2>5, <2>6
<1> QED BY <1>3, <1>4 DEF Response, Exact

LEMMA StillReading ==
  ASSUME UNCHANGED prob
  PROVE  \A u : Response(u)' = Response(u) /\ Centered(u)' = Centered(u)
BY DEF Response, Exact, Centered, Mean, W, Rows, N

LEMMA ScreenSorts ==
  ASSUME Posed, NEW b, Coefficients(b), NEW zz, \A i \in Rows : zz[i] \in Int,
         NEW q, q = Screen(b, zz)
  PROVE  /\ q \in Seq(Cols) /\ q # <<>>
         /\ \A h, k \in 1 .. Len(q) : h < k => q[h] < q[k]
         /\ \A j \in Cols : b[j] # 0 => j \in Range(q)
<1>1. PICK S \in SUBSET Cols : /\ q = Ascending(S) /\ S # {}
                               /\ \A j \in Cols : b[j] # 0 => j \in S
  BY ScreenIs
<1>2. P \in Nat /\ S \in SUBSET (1 .. P)
  BY BlockShape DEF Cols
<1>3. /\ q \in Seq(S) /\ Range(q) = S
      /\ \A h, k \in 1 .. Len(q) : h < k => q[h] < q[k]
  BY <1>1, <1>2, AscendingEnumerates
<1>4. q # <<>>
  BY <1>1, <1>3 DEF Range
<1>5. q \in Seq(Cols)
  BY <1>3
<1> QED BY <1>1, <1>3, <1>4, <1>5

-----------------------------------------------------------------------------
LEMMA PoseHolds == ASSUME IInv, Pose PROVE IInv'
<1>1. /\ phase = "idle" /\ phase' = "read" /\ trip' = 0 /\ prev' = None
      /\ inter' = 0 /\ verdict' = None
      /\ prob' \in Problems
      /\ UNCHANGED <<keep, sweep, delta, c, full, met>>
  BY DEF Pose, numbers, sweeps
<1>2. Shape'
  BY <1>1, CoordAssumption DEF IInv, Shape
<1>3. Coefficients(cur)'
  <2>1. cur' \in Starts /\ DOMAIN cur' = DOMAIN prob'.X
    BY DEF Pose
  <2>2. cur' \in Seq(Int) /\ IsProblem(prob')
    BY <1>1, <2>1, CoordAssumption
  <2>3. prob'.X \in Seq(Seq(Int))
    BY <2>2 DEF IsProblem
  <2>4. DOMAIN prob'.X = 1 .. Len(prob'.X)
    BY <2>3
  <2>5. cur' \in [DOMAIN cur' -> Int]
    BY <2>2
  <2> QED BY <2>1, <2>4, <2>5 DEF Coefficients, Cols, P
<1>4. Asked'
  <2>1. Sorted'
    <3>1. keep' = <<>>
      BY <1>1 DEF IInv, Asked
    <3>2. m' = 0 /\ keep' \in Seq(Cols')
      BY <3>1 DEF m
    <3> QED BY <3>2 DEF Sorted
  <2> QED BY <1>1, <1>3, <2>1 DEF Asked, Posed
<1> QED BY <1>1, <1>2, <1>4 DEF IInv, Called, Solved, Placed, Numbers

LEMMA BudgetHolds == ASSUME IInv, Budget PROVE IInv'
<1>1. /\ phase = "read" /\ phase' = "over" /\ verdict' = "budget"
      /\ UNCHANGED <<problem, keep, trip, inter, sweep, delta, c, full, met>>
  BY DEF Budget, Leave, problem, numbers, sweeps
<1>2. Shape'
  BY <1>1 DEF IInv, Shape
<1>3. Asked'
  BY <1>1, AskedStill DEF IInv
<1> QED BY <1>1, <1>2, <1>3 DEF IInv, Called, Solved, Placed, Numbers

(* What a reading leaves: a response that differs from the last one by its *)
(* intercept, and columns that hold everything away from zero.             *)
LEMMA ReadReads ==
  ASSUME IInv, Read
  PROVE  /\ phase = "read" /\ Posed /\ Coefficients(cur) /\ Sorted /\ trip \in Nat
         /\ UNCHANGED <<prob, cur, inter>> /\ trip' = trip + 1 /\ trip < MaxTrips
         /\ UNCHANGED <<sweep, delta, c, full, met>>
         /\ Response(z')
         /\ \/ /\ prev = Centered(z') /\ phase' = "over" /\ verdict' = "unmoved"
               /\ UNCHANGED <<prev, keep>>
            \/ /\ prev # Centered(z') /\ prev' = Centered(z') /\ keep' = Screen(cur, z')
               /\ phase' = "call" /\ UNCHANGED verdict
<1>1. /\ phase = "read" /\ UNCHANGED <<prob, cur, inter>> /\ trip' = trip + 1 /\ trip < MaxTrips
      /\ UNCHANGED <<sweep, delta, c, full, met>>
  BY DEF Read, numbers, sweeps
<1>2. Posed /\ Coefficients(cur) /\ Sorted /\ trip \in Nat /\ inter \in Int
  BY <1>1 DEF IInv, Asked, Shape
<1>3. PICK y \in prob.responses : z' = [i \in Rows |-> y[i] - inter]
  BY DEF Read
<1>4. Response(z')
  BY <1>2, <1>3, ResponseNet
<1>5. IF prev = Centered(z') THEN /\ phase' = "over" /\ verdict' = "unmoved"
                                  /\ UNCHANGED <<prev, keep>>
      ELSE /\ prev' = Centered(z') /\ keep' = Screen(cur, z')
           /\ phase' = "call" /\ UNCHANGED verdict
  BY DEF Read, Leave
<1> QED BY <1>1, <1>2, <1>4, <1>5

LEMMA ReadHolds == ASSUME IInv, Read PROVE IInv'
<1>1. /\ Posed /\ Coefficients(cur) /\ Sorted /\ UNCHANGED <<prob, cur>> /\ Response(z')
      /\ trip' = trip + 1 /\ trip \in Nat
  BY ReadReads
<1>2. Shape'
  BY ReadReads, CoordAssumption DEF IInv, Shape
<1>3. /\ Posed' /\ Coefficients(cur)' /\ Cols' = Cols
      /\ Response(z)' /\ Centered(z)' = Centered(z')
  BY <1>1, StillBlock, StillReading DEF Coefficients
<1>4. CASE phase' = "over" /\ UNCHANGED keep
  <2>1. Sorted'
    BY <1>1, <1>3, <1>4 DEF Sorted, m
  <2>2. prev' = Centered(z') /\ trip' # 0
    BY <1>1, <1>4, ReadReads
  <2>3. Asked'
    BY <1>3, <1>4, <2>1, <2>2 DEF Asked
  <2> QED BY <1>2, <1>4, <2>3 DEF IInv, Called, Solved, Placed, Numbers
<1>5. CASE phase' = "call" /\ keep' = Screen(cur, z')
  <2>1. \A i \in Rows : z'[i] \in Int
    BY <1>1 DEF Response
  <2>2. /\ keep' \in Seq(Cols) /\ keep' # <<>>
        /\ \A h, k \in 1 .. Len(keep') : h < k => keep'[h] < keep'[k]
        /\ \A j \in Cols : cur[j] # 0 => j \in Range(keep')
    BY <1>1, <1>5, <2>1, ScreenSorts
  <2>3. Sorted' /\ Kept'
    BY <1>3, <2>2 DEF Sorted, Kept, m
  <2>4. prev' = Centered(z') /\ trip' > 0
    BY <1>1, <1>5, ReadReads
  <2>5. Asked'
    BY <1>3, <1>5, <2>3, <2>4 DEF Asked
  <2>6. Called'
    BY <1>1, <1>3, <2>2, <2>3, <2>4 DEF Called
  <2> QED BY <1>2, <1>5, <2>5, <2>6 DEF IInv, Solved, Placed, Numbers
<1> QED BY <1>4, <1>5, ReadReads

-----------------------------------------------------------------------------
(* A coordinate's map: the piece it takes, ...                             *)
Rounded(t, piece) ==
  LET val == piece.num * Abs(t) + piece.icept
      b   == (2 * val + piece.den) \div (2 * piece.den)
  IN  IF t < 0 THEN -b ELSE b

LEMMA ApplyAt ==
  ASSUME NEW t \in Int, NEW n \in Nat \ {0}, NEW row, Len(row) = n, DOMAIN row = 1 .. n,
         \A q \in 1 .. n : row[q].cut \in Int, NEW k \in 1 .. n,
         \A o \in 1 .. k - 1 : Abs(t) > row[o].cut,
         Abs(t) <= row[k].cut \/ (k = n /\ Abs(t) > row[n].cut)
  PROVE  ApplyTable(t, row) = Rounded(t, row[k])
<1> DEFINE At(q) == Abs(t) <= row[q].cut /\ \A o \in 1 .. q - 1 : Abs(t) > row[o].cut
           piece == IF \E q \in DOMAIN row : Abs(t) <= row[q].cut
                    THEN CHOOSE q \in DOMAIN row : At(q) ELSE Len(row)
<1>0. Abs(t) \in Int
  BY DEF Abs
<1>1. ApplyTable(t, row) = Rounded(t, row[piece])
  BY DEF ApplyTable, Rounded
<1>2. piece = k
  <2>1. CASE Abs(t) <= row[k].cut
    <3>1. At(k)
      BY <2>1
    <3>2. ASSUME NEW q \in 1 .. n, At(q) PROVE q = k
      <4>1. ~ (q < k)
        <5> SUFFICES ASSUME q < k PROVE FALSE
          OBVIOUS
        <5>1. q \in 1 .. k - 1
          OBVIOUS
        <5> QED BY <1>0, <3>2, <5>1
      <4>2. ~ (k < q)
        <5> SUFFICES ASSUME k < q PROVE FALSE
          OBVIOUS
        <5>1. k \in 1 .. q - 1
          OBVIOUS
        <5> QED BY <1>0, <2>1, <3>2, <5>1
      <4> QED BY <4>1, <4>2
    <3> HIDE DEF At
    <3>3. (CHOOSE q \in DOMAIN row : At(q)) = k
      BY <3>1, <3>2
    <3> QED BY <2>1, <3>3
  <2>2. CASE k = n /\ Abs(t) > row[n].cut
    <3>1. \A q \in 1 .. n : ~ (Abs(t) <= row[q].cut)
      <4> TAKE q \in 1 .. n
      <4>1. CASE q = n
        BY <1>0, <2>2, <4>1
      <4>2. CASE q # n
        <5>1. q \in 1 .. k - 1
          BY <2>2, <4>2
        <5> QED BY <1>0, <5>1
      <4> QED BY <4>1, <4>2
    <3> QED BY <2>2, <3>1
  <2> QED BY <2>1, <2>2
<1> QED BY <1>1, <1>2

(* ... under a lasso and under an MCP, and that it is an integer.          *)
Nearest(a, q) == (2 * a + q) \div (2 * q)
Mapped(s, q, t) ==
  LET A == Abs(t)
      b == IF A <= s THEN 0
           ELSE IF prob.penalty = "lasso" THEN Nearest(A - s, q)
           ELSE IF A <= Gamma * s THEN Nearest(Gamma * (A - s), (Gamma - 1) * q)
           ELSE Nearest(A, q)
  IN  IF t < 0 THEN -b ELSE b

LEMMA NearestIs ==
  ASSUME NEW a \in Int, NEW q \in Int, q > 0
  PROVE  /\ Nearest(a, q) \in Int
         /\ 2 * (q * Nearest(a, q)) <= 2 * a + q
         /\ 2 * a + q < 2 * (q * Nearest(a, q)) + 2 * q
         /\ a >= 0 => Nearest(a, q) >= 0
<1> DEFINE e == 2 * a + q
           h == 2 * q
           k == e \div h
<1>1. e \in Int /\ h \in Int /\ h > 0 /\ Nearest(a, q) = k
  BY DEF Nearest
<1>2. \A s, t \in Int : t > 0 => /\ s \div t \in Int /\ t * (s \div t) <= s
                                 /\ s < t * (s \div t) + t
                                 /\ (s >= 0 => s \div t >= 0)
  OBVIOUS
<1> HIDE DEF e, h, k
<1>3. k \in Int /\ h * k <= e /\ e < h * k + h /\ (e >= 0 => k >= 0)
  BY <1>1, <1>2 DEF k
<1>4. h * k = 2 * (q * k)
  <2>1. \A s, t \in Int : (2 * s) * t = 2 * (s * t)
    OBVIOUS
  <2> QED BY <1>3, <2>1 DEF h
<1> QED BY <1>1, <1>3, <1>4 DEF e, h

LEMMA MapIs ==
  ASSUME Posed, NEW s \in Nat, NEW q \in Int, q > 0, NEW t \in Int
  PROVE  ApplyTable(t, PenaltyMap(s, q)) = Mapped(s, q, t) /\ Mapped(s, q, t) \in Int
<1>0. Abs(t) \in Nat /\ Gamma \in Nat /\ Gamma > 1
  BY CoordAssumption DEF Abs
<1>1. s <= Gamma * s /\ Gamma * s \in Int
  <2>1. \A k, e \in Nat : e > 1 => k <= e * k /\ e * k \in Int
    OBVIOUS
  <2> QED BY <1>0, <2>1
<1>2. Rounded(t, Piece(s, 0, 0, 1)) = 0
  BY <1>0 DEF Rounded, Piece
<1>3. CASE prob.penalty = "lasso"
  <2> DEFINE row == <<Piece(s, 0, 0, 1), Piece(s, 1, -s, q)>>
  <2>1. PenaltyMap(s, q) = row
    BY <1>3 DEF PenaltyMap
  <2>2. Len(row) = 2 /\ DOMAIN row = 1 .. 2 /\ row[1].cut = s /\ row[2].cut = s
    BY DEF Piece
  <2>3. ApplyTable(t, row) = IF Abs(t) <= s THEN Rounded(t, row[1]) ELSE Rounded(t, row[2])
    <3> HIDE DEF row
    <3>1. \A o \in 1 .. 2 : row[o].cut \in Int
      BY <2>2
    <3>2. CASE Abs(t) <= s
      <4>1. \A o \in 1 .. 1 - 1 : Abs(t) > row[o].cut
        OBVIOUS
      <4>2. Abs(t) <= row[1].cut
        BY <2>2, <3>2
      <4>3. 1 \in 1 .. 2 /\ 2 \in Nat \ {0}
        OBVIOUS
      <4> QED BY <2>2, <3>1, <3>2, <4>1, <4>2, <4>3, ApplyAt, ZenonT(60)
    <3>3. CASE Abs(t) > s
      <4>1. \A o \in 1 .. 2 - 1 : Abs(t) > row[o].cut
        BY <2>2, <3>3
      <4>2. Abs(t) > row[2].cut
        BY <2>2, <3>3
      <4>3. 2 \in 1 .. 2 /\ 2 \in Nat \ {0}
        OBVIOUS
      <4>4. ApplyTable(t, row) = Rounded(t, row[2])
        BY <2>2, <3>1, <4>1, <4>2, <4>3, ApplyAt, ZenonT(60)
      <4> QED BY <1>0, <3>3, <4>4
    <3> QED BY <1>0, <3>2, <3>3
  <2>4. Rounded(t, row[2]) = LET b == Nearest(Abs(t) - s, q) IN IF t < 0 THEN -b ELSE b
    <3>1. 1 * Abs(t) + (-s) = Abs(t) - s
      BY <1>0
    <3> QED BY <3>1 DEF Rounded, Piece, Nearest
  <2>5. Nearest(Abs(t) - s, q) \in Int
    <3>1. Abs(t) - s \in Int
      BY <1>0
    <3> QED BY <3>1, NearestIs
  <2> QED BY <1>0, <1>2, <1>3, <2>1, <2>3, <2>4, <2>5 DEF Mapped
<1>4. CASE prob.penalty # "lasso"
  <2> DEFINE row == <<Piece(s, 0, 0, 1), Piece(Gamma * s, Gamma, -Gamma * s, (Gamma - 1) * q),
                      Piece(Gamma * s, 1, 0, q)>>
  <2>1. PenaltyMap(s, q) = row
    BY <1>4 DEF PenaltyMap
  <2>2. /\ Len(row) = 3 /\ DOMAIN row = 1 .. 3 /\ row[1].cut = s
        /\ row[2].cut = Gamma * s /\ row[3].cut = Gamma * s
    BY DEF Piece
  <2>3. ApplyTable(t, row) = IF Abs(t) <= s THEN Rounded(t, row[1])
                             ELSE IF Abs(t) <= Gamma * s THEN Rounded(t, row[2])
                             ELSE Rounded(t, row[3])
    <3> HIDE DEF row
    <3>1. (\A o \in 1 .. 3 : row[o].cut \in Int) /\ 3 \in Nat \ {0}
      BY <1>1, <2>2
    <3>2. CASE Abs(t) <= s
      <4>1. \A o \in 1 .. 1 - 1 : Abs(t) > row[o].cut
        OBVIOUS
      <4>2. Abs(t) <= row[1].cut /\ 1 \in 1 .. 3
        BY <2>2, <3>2
      <4> QED BY <2>2, <3>1, <3>2, <4>1, <4>2, ApplyAt, ZenonT(60)
    <3>3. CASE Abs(t) > s /\ Abs(t) <= Gamma * s
      <4>1. \A o \in 1 .. 2 - 1 : Abs(t) > row[o].cut
        BY <2>2, <3>3
      <4>2. Abs(t) <= row[2].cut /\ 2 \in 1 .. 3
        BY <2>2, <3>3
      <4>3. ApplyTable(t, row) = Rounded(t, row[2])
        BY <2>2, <3>1, <4>1, <4>2, ApplyAt, ZenonT(60)
      <4> QED BY <1>0, <3>3, <4>3
    <3>4. CASE Abs(t) > s /\ Abs(t) > Gamma * s
      <4>1. \A o \in 1 .. 3 - 1 : Abs(t) > row[o].cut
        <5>1. \A o \in 1 .. 3 - 1 : o = 1 \/ o = 2
          OBVIOUS
        <5> QED BY <2>2, <3>4, <5>1
      <4>2. Abs(t) > row[3].cut /\ 3 \in 1 .. 3
        BY <2>2, <3>4
      <4>3. ApplyTable(t, row) = Rounded(t, row[3])
        BY <2>2, <3>1, <4>1, <4>2, ApplyAt, ZenonT(60)
      <4> QED BY <1>0, <1>1, <3>4, <4>3
    <3> QED BY <1>0, <1>1, <3>2, <3>3, <3>4
  <2>4. Rounded(t, row[2]) = LET b == Nearest(Gamma * (Abs(t) - s), (Gamma - 1) * q)
                             IN  IF t < 0 THEN -b ELSE b
    <3>1. Gamma * Abs(t) + (-Gamma * s) = Gamma * (Abs(t) - s)
      <4>1. \A e, a, k \in Int : e * a + (-e * k) = e * (a - k)
        OBVIOUS
      <4> QED BY <1>0, <4>1
    <3> QED BY <3>1 DEF Rounded, Piece, Nearest
  <2>5. Rounded(t, row[3]) = LET b == Nearest(Abs(t), q) IN IF t < 0 THEN -b ELSE b
    <3>1. 1 * Abs(t) + 0 = Abs(t)
      BY <1>0
    <3> QED BY <3>1 DEF Rounded, Piece, Nearest
  <2>6. Nearest(Gamma * (Abs(t) - s), (Gamma - 1) * q) \in Int
    <3>1. \A e, a, k \in Int : e * (a - k) \in Int /\ (e - 1) * k \in Int
      OBVIOUS
    <3>2. \A e, k \in Int : e > 1 /\ k > 0 => (e - 1) * k > 0
      OBVIOUS
    <3>3. Gamma * (Abs(t) - s) \in Int /\ (Gamma - 1) * q \in Int /\ (Gamma - 1) * q > 0
      BY <1>0, <3>1, <3>2
    <3> QED BY <3>3, NearestIs
  <2>7. Nearest(Abs(t), q) \in Int
    BY <1>0, NearestIs
  <2> QED BY <1>0, <1>2, <1>4, <2>1, <2>3, <2>4, <2>5, <2>6, <2>7 DEF Mapped
<1> QED BY <1>3, <1>4

-----------------------------------------------------------------------------
(* What the kernel starts from is the gradient at the coefficients it is   *)
(* given, in either form.                                                  *)
Fetched(G) == G = [b \in 1 .. m |-> IF cur[Swept(b)] # 0 THEN GramColumn(b) ELSE <<>>]
FromZero(G, a) ==
  Along(Swept(a), [i \in Rows |-> z[i] - zbar])
    - Total(m, [b \in 1 .. m |-> IF cur[Swept(b)] # 0 THEN G[b][a] * cur[Swept(b)] ELSE 0])

LEMMA StartIsTheGradient ==
  ASSUME Posed, Kept, Response(z), Coefficients(cur),
         \A j \in Cols : cur[j] # 0 => j \in Range(keep),
         NEW G, Fetched(G), NEW a \in 1 .. m
  PROVE  FromZero(G, a) = Gradient(cur, keep[a])
<1> DEFINE j == keep[a]
           F == [k \in Cols |-> Gram(j, k) * cur[k]]
           T == [b \in 1 .. m |-> IF cur[Swept(b)] # 0 THEN G[b][a] * cur[Swept(b)] ELSE 0]
<1>1. /\ m \in Nat /\ P \in Nat /\ j \in Cols
      /\ \A b \in 1 .. m : Swept(b) = keep[b] /\ keep[b] \in Cols
      /\ \A h, i \in 1 .. m : keep[h] = keep[i] => h = i
      /\ \A k \in Range(keep) : \E h \in 1 .. m : keep[h] = k
  BY KeptIs, BlockShape
<1>2. \A k \in Cols : Gram(j, k) \in Int /\ cur[k] \in Int
  BY <1>1, GramIs DEF Coefficients
<1>3. \A b \in 1 .. m : T[b] = F[keep[b]]
  <2> TAKE b \in 1 .. m
  <2>1. F[keep[b]] = Gram(j, keep[b]) * cur[keep[b]]
    BY <1>1
  <2>2. T[b] = IF cur[keep[b]] # 0 THEN G[b][a] * cur[keep[b]] ELSE 0
    BY <1>1
  <2>3. CASE cur[keep[b]] # 0
    <3>1. G[b] = GramColumn(b)
      BY <1>1, <2>3 DEF Fetched
    <3>2. GramColumn(b)[a] = Gram(j, keep[b])
      BY GramColumnIs
    <3> QED BY <2>1, <2>2, <2>3, <3>1, <3>2
  <2>4. CASE cur[keep[b]] = 0
    <3>1. \A s \in Int : s * 0 = 0
      OBVIOUS
    <3>2. Gram(j, keep[b]) \in Int
      BY <1>1, <1>2
    <3> HIDE DEF F, T
    <3> QED BY <2>1, <2>2, <2>4, <3>1, <3>2
  <2> QED BY <2>3, <2>4
<1>4. \A k \in 1 .. P : F[k] \in Int /\ ((\A h \in 1 .. m : keep[h] # k) => F[k] = 0)
  <2> TAKE k \in 1 .. P
  <2>1. F[k] = Gram(j, k) * cur[k] /\ k \in Cols
    BY DEF Cols
  <2>2. (\A h \in 1 .. m : keep[h] # k) => cur[k] = 0
    BY <1>1, <2>1
  <2>3. \A s, t \in Int : s * t \in Int /\ s * 0 = 0
    OBVIOUS
  <2> HIDE DEF F
  <2> QED BY <1>2, <2>1, <2>2, <2>3
<1>5. Selects(m, P, keep, F, T)
  <2> HIDE DEF F, T
  <2> QED BY <1>1, <1>3, <1>4 DEF Selects, Cols
<1>6. Total(m, T) = Total(P, F)
  <2> HIDE DEF F, T
  <2> QED BY <1>1, <1>5, TotalSelected
<1>7. Gradient(cur, j) = Along(j, [i \in Rows |-> z[i] - zbar]) - Total(P, F)
  BY <1>1, GradientWhole
<1> QED BY <1>1, <1>6, <1>7 DEF FromZero

LEMMA ResidualStarts ==
  ASSUME Posed, Coefficients(cur), NEW i \in Rows
  PROVE  Total(P, [j \in Cols |-> IF i \in Walk(j) THEN x(i, j) * cur[j] ELSE 0])
           = Fitted(cur)[i]
<1>1. \A j \in Cols : (IF i \in Walk(j) THEN x(i, j) * cur[j] ELSE 0) = x(i, j) * cur[j]
  <2> TAKE j \in Cols
  <2>1. x(i, j) \in Int /\ cur[j] \in Int
    BY BlockShape DEF Coefficients
  <2>2. i \in Walk(j) \/ x(i, j) = 0
    BY DEF Walk
  <2>3. \A s \in Int : 0 * s = 0
    OBVIOUS
  <2> QED BY <2>1, <2>2, <2>3
<1>2. [j \in Cols |-> IF i \in Walk(j) THEN x(i, j) * cur[j] ELSE 0] = [j \in Cols |-> x(i, j) * cur[j]]
  BY <1>1
<1> QED BY <1>2, FittedIs

LEMMA StillTable ==
  ASSUME UNCHANGED <<prob, keep>>
  PROVE  /\ m' = m /\ covariance' = covariance
         /\ \A a, q : Table(a, q)' = Table(a, q)
BY StillBlock DEF Table, PenaltyMap, Swept, m, covariance

LEMMA StartHolds == ASSUME IInv, Start PROVE IInv'
<1>1. /\ phase = "call" /\ phase' = "sweep" /\ UNCHANGED <<problem, keep, verdict>>
      /\ beta' = cur /\ c' = zbar - FittedMean(cur)
      /\ full' = TRUE /\ active' = <<>> /\ sweep' = 1 /\ pos' = 1 /\ delta' = 0
      /\ met' = FALSE
      /\ v' = [a \in 1 .. m |-> Curvature(Swept(a))]
      /\ tab' = [a \in 1 .. m |-> Table(a, v'[a])]
  BY DEF Start
<1>2. UNCHANGED <<prob, trip, cur, inter, z, prev, keep>>
  BY <1>1 DEF problem
<1>3. /\ Posed /\ Kept /\ Response(z) /\ Coefficients(cur)
      /\ \A j \in Cols : cur[j] # 0 => j \in Range(keep)
  BY <1>1 DEF IInv, Asked, Called, Shape
<1>4. m \in Nat /\ m >= 1 /\ \A a \in 1 .. m : Swept(a) = keep[a] /\ keep[a] \in Cols
  BY <1>3, KeptIs
<1>5. zbar \in Int /\ FittedMean(cur) \in Int
  BY <1>3, RestIs, FittedIs
<1>6. Shape'
  <2>1. c' \in Int
    BY <1>1, <1>5
  <2>2. 1 \in 0 .. MaxSweeps
    BY CoordAssumption
  <2> QED BY <1>1, <1>2, <2>1, <2>2 DEF IInv, Shape
<1>7. Asked' /\ Called'
  BY <1>1, AskedStill, CalledStill DEF IInv
<1>8. /\ m' = m /\ covariance' = covariance /\ Cols' = Cols /\ Rows' = Rows /\ zbar' = zbar
      /\ \A a, q : Table(a, q)' = Table(a, q)
      /\ \A j : Curvature(j)' = Curvature(j)
      /\ \A b : Fitted(b)' = Fitted(b) /\ FittedMean(b)' = FittedMean(b)
      /\ \A j, k : Gram(j, k)' = Gram(j, k)
      /\ \A b, j : Gradient(b, j)' = Gradient(b, j)
  BY <1>2, StillTable, StillBlock, StillResponse
<1>9. Solved'
  BY <1>1, <1>2, <1>3, <1>8 DEF Solved, Coefficients
<1>10. Placed'
  <2>1. QEnd' = m
    BY <1>1, <1>8 DEF QEnd
  <2> QED BY <1>1, <1>4, <2>1 DEF Placed
<1>11. \A a \in 1 .. m : v'[a] = Curvature(keep[a])' /\ tab'[a] = Table(a, v[a])'
  <2> TAKE a \in 1 .. m
  <2>1. v'[a] = Curvature(keep[a])
    BY <1>1, <1>4
  <2>2. Curvature(keep[a])' = Curvature(keep[a])
    BY <1>2, <1>8
  <2>3. tab'[a] = Table(a, v'[a])
    BY <1>1
  <2>4. Table(a, v[a])' = Table(a, v'[a])
    BY <1>8
  <2> QED BY <2>1, <2>2, <2>3, <2>4
<1>12. c' = (zbar - FittedMean(beta))'
  BY <1>1, <1>8
<1>13. ASSUME covariance
       PROVE  /\ \A a \in 1 .. m : g'[a] = Gradient(beta, keep[a])'
              /\ DOMAIN gram' = 1 .. m
              /\ \A a, b \in 1 .. m : gram'[a] # <<>> => gram'[a][b] = Gram(keep[b], keep[a])'
  <2>1. Fetched(gram') /\ g' = [a \in 1 .. m |-> FromZero(gram', a)]
    BY <1>13 DEF Start, Fetched, FromZero
  <2>2. \A a \in 1 .. m : g'[a] = Gradient(cur, keep[a])
    BY <1>3, <2>1, StartIsTheGradient
  <2>3. \A a \in 1 .. m : Gradient(beta, keep[a])' = Gradient(cur, keep[a])
    BY <1>1, <1>2, <1>8
  <2>4. ASSUME NEW a \in 1 .. m, NEW b \in 1 .. m, gram'[a] # <<>>
        PROVE  gram'[a][b] = Gram(keep[b], keep[a])'
    <3>1. gram'[a] = GramColumn(a)
      BY <2>1, <2>4 DEF Fetched
    <3>2. GramColumn(a)[b] = Gram(keep[b], keep[a])
      BY <1>3, GramColumnIs
    <3>3. Gram(keep[b], keep[a])' = Gram(keep[b], keep[a])
      BY <1>2, <1>8
    <3> QED BY <3>1, <3>2, <3>3
  <2>5. DOMAIN gram' = 1 .. m
    BY <2>1 DEF Fetched
  <2> QED BY <2>2, <2>3, <2>4, <2>5
<1>14. ASSUME ~ covariance PROVE \A i \in Rows : r'[i] = (z[i] - Fitted(beta)[i])'
  <2> TAKE i \in Rows
  <2>1. r' = [k \in Rows |->
                z[k] - Total(P, [j \in Cols |-> IF k \in Walk(j) THEN x(k, j) * cur[j] ELSE 0])]
    BY <1>14 DEF Start
  <2>2. r'[i] = z[i] - Fitted(cur)[i]
    BY <1>3, <2>1, ResidualStarts
  <2>3. (z[i] - Fitted(beta)[i])' = z[i] - Fitted(cur)[i]
    BY <1>1, <1>2, <1>8
  <2> QED BY <2>2, <2>3
<1>15. Numbers'
  <2>1. /\ \A a \in 1 .. m' : v'[a] = Curvature(keep[a])' /\ tab'[a] = Table(a, v[a])'
        /\ c' = (zbar - FittedMean(beta))'
    BY <1>8, <1>11, <1>12
  <2>2. CASE covariance
    BY <1>8, <1>13, <2>1, <2>2 DEF Numbers
  <2>3. CASE ~ covariance
    BY <1>8, <1>14, <2>1, <2>3 DEF Numbers
  <2> QED BY <2>2, <2>3
<1> QED BY <1>6, <1>7, <1>9, <1>10, <1>15 DEF IInv

-----------------------------------------------------------------------------
(* Where a sweep stands: its block, its columns and its coefficients.      *)
LEMMA SweepIs ==
  ASSUME IInv, phase = "sweep"
  PROVE  /\ Posed /\ Kept /\ Response(z) /\ Coefficients(beta) /\ Coefficients(cur)
         /\ m \in Nat /\ m >= 1 /\ pos \in 1 .. QEnd + 1 /\ active \in Seq(1 .. m)
         /\ QEnd \in Nat
<1>1. Posed /\ Kept /\ Response(z) /\ Coefficients(beta) /\ Coefficients(cur)
  BY DEF IInv, Asked, Called, Solved, Shape
<1>2. m \in Nat /\ m >= 1
  BY <1>1, KeptIs
<1>3. pos \in 1 .. QEnd + 1 /\ active \in Seq(1 .. m)
  BY DEF IInv, Placed
<1> QED BY <1>1, <1>2, <1>3 DEF QEnd

LEMMA VisitedIs ==
  ASSUME IInv, phase = "sweep", pos <= QEnd
  PROVE  Visited \in 1 .. m
<1>1. m \in Nat /\ pos \in 1 .. QEnd /\ active \in Seq(1 .. m)
  BY SweepIs
<1>2. CASE full
  BY <1>1, <1>2 DEF Visited, QEnd
<1>3. CASE ~ full
  <2>1. pos \in 1 .. Len(active)
    BY <1>1, <1>3 DEF QEnd
  <2> QED BY <1>1, <1>3, <2>1 DEF Visited
<1> QED BY <1>2, <1>3

(* The gradient as a sweep reads it is the gradient.                       *)
InHand(a) == IF covariance THEN g[a] ELSE Along(Swept(a), [i \in Rows |-> r[i] - c])

LEMMA InHandIs ==
  ASSUME IInv, phase = "sweep", NEW a \in 1 .. m
  PROVE  /\ InHand(a) = Gradient(beta, keep[a])
         /\ Gradient(beta, keep[a]) = TrueGradient(beta, keep[a])
         /\ InHand(a) \in Int
         /\ ~ covariance => [i \in Rows |-> r[i] - c] = TrueResidual(beta)
<1>1. /\ Posed /\ Kept /\ Response(z) /\ Coefficients(beta)
      /\ keep[a] \in Cols /\ Swept(a) = keep[a]
  BY SweepIs, KeptIs
<1>2. /\ Gradient(beta, keep[a]) = Along(keep[a], Rest(beta))
      /\ Gradient(beta, keep[a]) = TrueGradient(beta, keep[a])
      /\ Gradient(beta, keep[a]) \in Int /\ TrueResidual(beta) = Rest(beta)
  BY <1>1, GradientIs, RestIs
<1>3. CASE covariance
  BY <1>2, <1>3 DEF IInv, Numbers, InHand
<1>4. CASE ~ covariance
  <2>1. [i \in Rows |-> r[i] - c] = Rest(beta)
    BY <1>4 DEF IInv, Numbers, Rest
  <2> QED BY <1>1, <1>2, <1>4, <2>1 DEF InHand
<1> QED BY <1>3, <1>4

(* The value a coordinate is taken to.                                     *)
Target(a) == ApplyTable(v[a] * beta[Swept(a)] + InHand(a), tab[a])

LEMMA TargetIs ==
  ASSUME IInv, phase = "sweep", NEW a \in 1 .. m, v[a] > 0
  PROVE  /\ v[a] = TrueCurvature(keep[a]) /\ v[a] \in Int
         /\ v[a] * beta[keep[a]] + TrueGradient(beta, keep[a]) \in Int
         /\ Target(a) = Mapped(prob.kink[keep[a]], v[a],
                               v[a] * beta[keep[a]] + TrueGradient(beta, keep[a]))
         /\ Target(a) \in Int /\ beta[keep[a]] \in Int
<1>1. /\ Posed /\ Kept /\ Coefficients(beta) /\ keep[a] \in Cols /\ Swept(a) = keep[a]
  BY SweepIs, KeptIs
<1>2. v[a] = Curvature(keep[a]) /\ tab[a] = Table(a, v[a])
  BY DEF IInv, Numbers
<1>3. v[a] = TrueCurvature(keep[a]) /\ v[a] \in Int
  BY <1>1, <1>2, CurvatureIs
<1>4. prob.kink[keep[a]] \in Nat /\ beta[keep[a]] \in Int
  BY <1>1, BlockShape DEF Coefficients
<1>5. InHand(a) = TrueGradient(beta, keep[a]) /\ InHand(a) \in Int
  BY InHandIs
<1> DEFINE t == v[a] * beta[keep[a]] + InHand(a)
<1>6. t \in Int
  <2>1. \A s, k, h \in Int : s * k + h \in Int
    OBVIOUS
  <2> QED BY <1>3, <1>4, <1>5, <2>1
<1>7. Target(a) = ApplyTable(t, PenaltyMap(prob.kink[keep[a]], v[a]))
  BY <1>1, <1>2 DEF Target, Table
<1> HIDE DEF t
<1>8. ApplyTable(t, PenaltyMap(prob.kink[keep[a]], v[a])) = Mapped(prob.kink[keep[a]], v[a], t)
      /\ Mapped(prob.kink[keep[a]], v[a], t) \in Int
  BY <1>1, <1>3, <1>4, <1>6, MapIs
<1> QED BY <1>3, <1>4, <1>5, <1>6, <1>7, <1>8 DEF t

LEMMA VisitIs ==
  ASSUME IInv, Visit
  PROVE  /\ phase = "sweep" /\ phase' = "sweep" /\ pos <= QEnd /\ pos' = pos + 1
         /\ UNCHANGED <<problem, keep, active, full, sweep, met, verdict>>
         /\ Visited \in 1 .. m
         /\ \/ /\ v[Visited] > 0 /\ Target(Visited) # beta[Swept(Visited)]
               /\ Move(Visited, Target(Visited) - beta[Swept(Visited)])
            \/ /\ v[Visited] > 0 => Target(Visited) = beta[Swept(Visited)]
               /\ UNCHANGED <<numbers, delta>>
<1>1. /\ phase = "sweep" /\ phase' = "sweep" /\ pos <= QEnd /\ pos' = pos + 1
      /\ UNCHANGED <<problem, keep, active, full, sweep, met, verdict>>
  BY DEF Visit
<1>2. Visited \in 1 .. m
  BY <1>1, VisitedIs
<1> DEFINE a == Visited
           d == Target(a) - beta[Swept(a)]
<1>3. IF v[a] > 0 /\ d # 0 THEN Move(a, d) ELSE UNCHANGED <<numbers, delta>>
  BY DEF Visit, Target, InHand
<1>4. v[a] > 0 => (d = 0 <=> Target(a) = beta[Swept(a)])
  <2> HAVE v[a] > 0
  <2>1. Target(a) \in Int /\ beta[Swept(a)] \in Int
    BY <1>1, <1>2, TargetIs, SweepIs, KeptIs
  <2> HIDE DEF a
  <2> QED BY <2>1
<1> HIDE DEF a, d
<1>5. CASE v[a] > 0 /\ d # 0
  BY <1>1, <1>2, <1>3, <1>4, <1>5 DEF a, d
<1>6. CASE ~ (v[a] > 0 /\ d # 0)
  BY <1>1, <1>2, <1>3, <1>4, <1>6 DEF a
<1> QED BY <1>5, <1>6

-----------------------------------------------------------------------------
(* A move leaves everything a sweep holds as it was: right.                *)
LEMMA MoveHolds ==
  ASSUME IInv, phase = "sweep", NEW a \in 1 .. m, NEW d \in Int, Move(a, d),
         UNCHANGED <<problem, keep>>, phase' = "sweep"
  PROVE  Solved' /\ Numbers' /\ delta' \in Nat /\ c' \in Int
         /\ (delta' = 0 => d = 0 /\ delta = 0)
<1> DEFINE j == keep[a]
           e == [beta EXCEPT ![j] = @ + d]
           column == IF gram[a] = <<>> THEN GramColumn(a) ELSE gram[a]
<1>1. /\ Posed /\ Kept /\ Response(z) /\ Coefficients(beta) /\ j \in Cols /\ m \in Nat
      /\ j \in Range(keep)
      /\ \A b \in 1 .. m : Swept(b) = keep[b] /\ keep[b] \in Cols
  BY SweepIs, KeptIs
<1>2. UNCHANGED <<prob, z, cur, keep>>
  BY DEF problem
<1>3. /\ beta' = e /\ c' = c - mu(j) * d /\ UNCHANGED <<tab, v>>
      /\ delta' = IF Abs(d) > delta THEN Abs(d) ELSE delta
  BY <1>1 DEF Move
<1>4. /\ Coefficients(e) /\ FittedMean(e) = FittedMean(beta) + mu(j) * d
      /\ \A i \in Rows : Rest(e)[i] = Rest(beta)[i] - (x(i, j) - mu(j)) * d
  <2>1. Posed /\ Response(z) /\ Coefficients(beta) /\ j \in Cols
    BY <1>1
  <2> HIDE DEF j
  <2> QED BY <2>1, RestChange, ZenonT(60)
<1>5. /\ FittedMean(beta) \in Int /\ zbar \in Int /\ mu(j) \in Int
      /\ FittedMean(e) \in Int /\ mu(j) * d \in Int
  <2>1. FittedMean(beta) \in Int /\ zbar \in Int /\ mu(j) \in Int /\ FittedMean(e) \in Int
    BY <1>1, <1>4, FittedIs, RestIs, MuIs
  <2>2. \A s, t \in Int : s * t \in Int
    OBVIOUS
  <2> QED BY <2>1, <2>2
<1>6. c = zbar - FittedMean(beta)
  BY DEF IInv, Numbers
<1>7. c' = zbar - FittedMean(e) /\ c' \in Int
  BY <1>3, <1>4, <1>5, <1>6
<1>8. /\ m' = m /\ covariance' = covariance /\ Cols' = Cols /\ Rows' = Rows /\ zbar' = zbar
      /\ \A h, q : Table(h, q)' = Table(h, q)
      /\ \A h : Curvature(h)' = Curvature(h)
      /\ \A b : Fitted(b)' = Fitted(b) /\ FittedMean(b)' = FittedMean(b)
      /\ \A h, k : Gram(h, k)' = Gram(h, k)
      /\ \A b, h : Gradient(b, h)' = Gradient(b, h)
  BY <1>2, StillTable, StillBlock, StillResponse
<1>9. Solved'
  <2>1. \A k \in Cols : beta[k] # cur[k] => k \in Range(keep)
    BY DEF IInv, Solved
  <2>2. \A k \in Cols : k # j => e[k] = beta[k]
    BY <1>1 DEF Coefficients
  <2>3. \A k \in Cols : e[k] # cur[k] => k \in Range(keep)
    BY <1>1, <2>1, <2>2
  <2> HIDE DEF e
  <2>4. Coefficients(beta)'
    BY <1>3, <1>4, <1>8 DEF Coefficients
  <2> QED BY <1>2, <1>3, <1>8, <2>3, <2>4 DEF Solved
<1>10. delta' \in Nat /\ (delta' = 0 => d = 0 /\ delta = 0)
  BY <1>3 DEF IInv, Shape, Abs
<1>11. ASSUME covariance
       PROVE  /\ \A b \in 1 .. m : g'[b] = Gradient(beta, keep[b])'
              /\ DOMAIN gram' = 1 .. m
              /\ \A h, b \in 1 .. m : gram'[h] # <<>> => gram'[h][b] = Gram(keep[b], keep[h])'
  <2>1. /\ gram' = [gram EXCEPT ![a] = column]
        /\ g' = [b \in 1 .. m |-> g[b] - column[b] * d]
    BY <1>11 DEF Move
  <2>2. /\ \A b \in 1 .. m : g[b] = Gradient(beta, keep[b])
        /\ DOMAIN gram = 1 .. m
        /\ \A h, b \in 1 .. m : gram[h] # <<>> => gram[h][b] = Gram(keep[b], keep[h])
    BY <1>11 DEF IInv, Numbers
  <2>3. \A b \in 1 .. m : column[b] = Gram(keep[b], keep[a])
    <3>1. \A b \in 1 .. m : GramColumn(a)[b] = Gram(keep[b], keep[a])
      BY <1>1, GramColumnIs
    <3> QED BY <2>2, <3>1
  <2> HIDE DEF column
  <2>4. \A b \in 1 .. m : Gradient(e, keep[b]) = Gradient(beta, keep[b]) - Gram(keep[b], j) * d
    BY <1>1, GradientChange
  <2> HIDE DEF e
  <2>5. \A b \in 1 .. m : g'[b] = Gradient(beta, keep[b])'
    <3> TAKE b \in 1 .. m
    <3>1. g'[b] = Gradient(e, keep[b])
      BY <2>1, <2>2, <2>3, <2>4
    <3>2. Gradient(beta, keep[b])' = Gradient(e, keep[b])
      BY <1>2, <1>3, <1>8
    <3> QED BY <3>1, <3>2
  <2>6. ASSUME NEW h \in 1 .. m, NEW b \in 1 .. m, gram'[h] # <<>>
        PROVE  gram'[h][b] = Gram(keep[b], keep[h])'
    <3>1. gram'[h] = IF h = a THEN column ELSE gram[h]
      BY <2>1, <2>2
    <3>2. Gram(keep[b], keep[h])' = Gram(keep[b], keep[h])
      BY <1>2, <1>8
    <3> QED BY <2>2, <2>3, <2>6, <3>1, <3>2
  <2>7. DOMAIN gram' = 1 .. m
    BY <2>1, <2>2
  <2> QED BY <2>5, <2>6, <2>7
<1>12. ASSUME ~ covariance PROVE \A i \in Rows : r'[i] = (z[i] - Fitted(beta)[i])'
  <2> TAKE i \in Rows
  <2>1. r'[i] = IF i \in Walk(j) THEN r[i] - x(i, j) * d ELSE r[i]
    BY <1>1, <1>12 DEF Move
  <2>2. r[i] = z[i] - Fitted(beta)[i]
    BY <1>12 DEF IInv, Numbers
  <2>3. z[i] \in Int /\ Fitted(beta)[i] \in Int /\ Fitted(e)[i] \in Int /\ x(i, j) \in Int
    <3>1. z[i] \in Int
      BY <1>1, RestIs
    <3>2. Fitted(beta)[i] \in Int /\ Fitted(e)[i] \in Int
      BY <1>1, <1>4, FittedIs
    <3>3. x(i, j) \in Int
      BY <1>1, BlockShape
    <3> QED BY <3>1, <3>2, <3>3
  <2>4. /\ Rest(e)[i] = (z[i] - Fitted(e)[i]) - (zbar - FittedMean(e))
        /\ Rest(beta)[i] = (z[i] - Fitted(beta)[i]) - (zbar - FittedMean(beta))
    BY DEF Rest
  <2>5. /\ (x(i, j) - mu(j)) * d = x(i, j) * d - mu(j) * d
        /\ x(i, j) * d \in Int
    <3>1. \A s, t, u \in Int : (s - t) * u = s * u - t * u /\ s * u \in Int
      OBVIOUS
    <3> QED BY <1>5, <2>3, <3>1
  <2>6. Rest(e)[i] = Rest(beta)[i] - (x(i, j) - mu(j)) * d
    BY <1>4
  <2> HIDE DEF e, j
  <2>7. Fitted(e)[i] = Fitted(beta)[i] + x(i, j) * d
    <3> DEFINE s == x(i, j) * d
               t == mu(j) * d
    <3>1. Rest(e)[i] = Rest(beta)[i] - (s - t) /\ FittedMean(e) = FittedMean(beta) + t
          /\ s \in Int /\ t \in Int
      BY <1>4, <1>5, <2>5, <2>6
    <3> HIDE DEF s, t
    <3> DEFINE y  == z[i]
               fe == Fitted(e)[i]
               fb == Fitted(beta)[i]
               me == FittedMean(e)
               mb == FittedMean(beta)
    <3>2. /\ y \in Int /\ fe \in Int /\ fb \in Int /\ me \in Int /\ mb \in Int
          /\ zbar \in Int /\ me = mb + t
      BY <1>5, <2>3, <3>1
    <3>3. (y - fe) - (zbar - me) = ((y - fb) - (zbar - mb)) - (s - t)
      BY <2>4, <3>1
    <3> HIDE DEF y, fe, fb, me, mb
    <3>4. fe = fb + s
      BY <3>1, <3>2, <3>3
    <3> QED BY <3>4 DEF s, fe, fb
  <2>8. i \in Walk(j) \/ x(i, j) * d = 0
    <3>1. i \in Walk(j) \/ x(i, j) = 0
      BY DEF Walk
    <3>2. \A s \in Int : 0 * s = 0
      OBVIOUS
    <3> QED BY <3>1, <3>2
  <2>9. r'[i] = z[i] - Fitted(e)[i]
    BY <2>1, <2>2, <2>3, <2>5, <2>7, <2>8
  <2>10. (z[i] - Fitted(beta)[i])' = z[i] - Fitted(e)[i]
    BY <1>2, <1>3, <1>8
  <2> QED BY <2>9, <2>10
<1>13. Numbers'
  <2>1. \A h \in 1 .. m' : v'[h] = Curvature(keep[h])' /\ tab'[h] = Table(h, v[h])'
    <3>1. \A h \in 1 .. m : v[h] = Curvature(keep[h]) /\ tab[h] = Table(h, v[h])
      BY DEF IInv, Numbers
    <3> QED BY <1>2, <1>3, <1>8, <3>1
  <2>2. c' = (zbar - FittedMean(beta))'
    BY <1>3, <1>7, <1>8
  <2>3. CASE covariance
    BY <1>8, <1>11, <2>1, <2>2, <2>3 DEF Numbers
  <2>4. CASE ~ covariance
    BY <1>8, <1>12, <2>1, <2>2, <2>4 DEF Numbers
  <2> QED BY <2>3, <2>4
<1> QED BY <1>7, <1>9, <1>10, <1>13

LEMMA VisitHolds == ASSUME IInv, Visit PROVE IInv'
<1>1. /\ phase = "sweep" /\ phase' = "sweep" /\ pos <= QEnd /\ pos' = pos + 1
      /\ UNCHANGED <<problem, keep, active, full, sweep, met, verdict>>
      /\ Visited \in 1 .. m
  BY VisitIs
<1>2. UNCHANGED <<prob, trip, cur, inter, z, prev>>
  BY <1>1 DEF problem
<1>3. Asked' /\ Called' /\ m' = m
  BY <1>1, <1>2, AskedStill, CalledStill, StillTable DEF IInv
<1>4. Placed'
  <2>1. pos \in 1 .. QEnd + 1 /\ QEnd \in Nat /\ active \in Seq(1 .. m)
    BY <1>1, SweepIs
  <2>2. QEnd' = QEnd
    BY <1>1, <1>3 DEF QEnd
  <2> QED BY <1>1, <1>3, <2>1, <2>2 DEF Placed
<1>5. Solved' /\ Numbers' /\ delta' \in Nat /\ c' \in Int
  <2>1. CASE UNCHANGED <<numbers, delta>>
    <3>1. UNCHANGED <<tab, v, beta, g, gram, r, c, delta>>
      BY <2>1 DEF numbers
    <3>2. Solved'
      BY <1>1, <3>1, SolvedStill DEF IInv
    <3>3. Numbers'
      <4>1. /\ covariance' = covariance /\ zbar' = zbar /\ Rows' = Rows
            /\ \A a, q : Table(a, q)' = Table(a, q)
            /\ \A j : Curvature(j)' = Curvature(j)
            /\ \A b : Fitted(b)' = Fitted(b) /\ FittedMean(b)' = FittedMean(b)
            /\ \A j, k : Gram(j, k)' = Gram(j, k)
            /\ \A b, j : Gradient(b, j)' = Gradient(b, j)
        BY <1>1, <1>2, StillTable, StillBlock, StillResponse
      <4> QED BY <1>1, <1>2, <1>3, <3>1, <4>1 DEF IInv, Numbers
    <3> QED BY <3>1, <3>2, <3>3 DEF IInv, Shape
  <2>2. CASE /\ v[Visited] > 0
             /\ Move(Visited, Target(Visited) - beta[Swept(Visited)])
    <3>1. Target(Visited) - beta[Swept(Visited)] \in Int
      <4>1. Target(Visited) \in Int /\ beta[keep[Visited]] \in Int /\ Swept(Visited) = keep[Visited]
        BY <1>1, <2>2, TargetIs, SweepIs, KeptIs
      <4> QED BY <4>1
    <3> QED BY <1>1, <2>2, <3>1, MoveHolds
  <2> QED BY <2>1, <2>2, VisitIs
<1>6. Shape'
  BY <1>1, <1>2, <1>5 DEF IInv, Shape
<1> QED BY <1>3, <1>4, <1>5, <1>6 DEF IInv

-----------------------------------------------------------------------------
(* The end of a sweep rebuilds the active set from what is not zero.       *)
LEMMA SeqWider == ASSUME NEW S, NEW T, S \subseteq T, NEW q \in Seq(S) PROVE q \in Seq(T)
OBVIOUS

LEMMA SeqEntries == ASSUME NEW T, NEW q \in Seq(T) PROVE \A i \in DOMAIN q : q[i] \in T
OBVIOUS

LEMMA NonZeroIs ==
  ASSUME Posed, Kept
  PROVE  /\ NonZero \in Seq(1 .. m)
         /\ Range(NonZero) = {a \in 1 .. m : beta[Swept(a)] # 0}
<1> DEFINE S == {a \in 1 .. m : beta[Swept(a)] # 0}
<1>1. m \in Nat /\ S \in SUBSET (1 .. m)
  BY KeptIs
<1>2. NonZero = Ascending(S)
  BY DEF NonZero
<1> HIDE DEF S
<1>3. Ascending(S) \in Seq(S) /\ Range(Ascending(S)) = S
  BY <1>1, AscendingEnumerates
<1>4. Ascending(S) \in Seq(1 .. m)
  BY <1>1, <1>3, SeqWider
<1> QED BY <1>2, <1>3, <1>4 DEF S

LEMMA EndSweepIs ==
  ASSUME IInv, EndSweep
  PROVE  /\ phase = "sweep" /\ pos > QEnd /\ UNCHANGED <<problem, keep, numbers, verdict>>
         /\ active' = IF full THEN NonZero ELSE active
         /\ full' = IF delta < Tol THEN TRUE ELSE active' = <<>>
         /\ full' \in BOOLEAN /\ met' \in BOOLEAN
         /\ met' => delta < Tol /\ full /\ phase' = "swept"
         /\ \/ phase' = "swept" /\ UNCHANGED <<sweep, pos, delta>>
            \/ /\ phase' = "sweep" /\ sweep < MaxSweeps /\ sweep' = sweep + 1
               /\ pos' = 1 /\ delta' = 0
<1>1. /\ phase = "sweep" /\ pos > QEnd /\ UNCHANGED <<problem, keep, numbers, verdict>>
      /\ active' = IF full THEN NonZero ELSE active
      /\ full' = IF delta < Tol THEN TRUE ELSE active' = <<>>
      /\ IF met' \/ sweep = MaxSweeps THEN phase' = "swept" /\ UNCHANGED <<sweep, pos, delta>>
         ELSE phase' = "sweep" /\ sweep' = sweep + 1 /\ pos' = 1 /\ delta' = 0
  BY DEF EndSweep
<1>2. met' = (delta < Tol /\ full)
  BY DEF EndSweep
<1>3. full \in BOOLEAN /\ sweep \in 0 .. MaxSweeps
  BY DEF IInv, Shape
<1>4. full' \in BOOLEAN
  BY <1>1
<1>5. met' \in BOOLEAN
  BY <1>2, Zenon
<1>6. met' => delta < Tol /\ full
  BY <1>2, Zenon
<1>7. met' => phase' = "swept"
  BY <1>1
<1>8. \/ phase' = "swept" /\ UNCHANGED <<sweep, pos, delta>>
      \/ /\ phase' = "sweep" /\ sweep < MaxSweeps /\ sweep' = sweep + 1
         /\ pos' = 1 /\ delta' = 0
  BY <1>1, <1>3, CoordAssumption
<1> QED BY <1>1, <1>4, <1>5, <1>6, <1>7, <1>8

LEMMA EndSweepHolds == ASSUME IInv, EndSweep PROVE IInv'
<1>1. /\ phase = "sweep" /\ phase' \in {"sweep", "swept"}
      /\ UNCHANGED <<problem, keep, numbers, verdict>>
  BY EndSweepIs
<1>2. UNCHANGED <<prob, trip, cur, inter, z, prev, tab, v, beta, g, gram, r, c>>
  BY <1>1 DEF problem, numbers
<1>3. Asked' /\ Called' /\ Solved' /\ m' = m
  BY <1>1, <1>2, AskedStill, CalledStill, SolvedStill, StillTable DEF IInv
<1>4. /\ Posed /\ Kept /\ m \in Nat /\ m >= 1 /\ active \in Seq(1 .. m)
      /\ NonZero \in Seq(1 .. m)
  BY <1>1, SweepIs, NonZeroIs
<1>5. Shape'
  <2>1. sweep' \in 0 .. MaxSweeps /\ delta' \in Nat
    <3>1. sweep \in 0 .. MaxSweeps /\ delta \in Nat /\ MaxSweeps \in Nat
      BY CoordAssumption DEF IInv, Shape
    <3>2. CASE UNCHANGED <<sweep, delta>>
      BY <3>1, <3>2
    <3>3. CASE sweep < MaxSweeps /\ sweep' = sweep + 1 /\ delta' = 0
      BY <3>1, <3>3
    <3> QED BY <3>2, <3>3, EndSweepIs
  <2>2. full' \in BOOLEAN /\ met' \in BOOLEAN
    BY EndSweepIs
  <2> QED BY <1>1, <1>2, <2>1, <2>2 DEF IInv, Shape
<1>6. Placed'
  <2>1. active' \in Seq(1 .. m)
    BY <1>4, EndSweepIs
  <2>2. QEnd' \in Nat
    BY <1>3, <1>4, <2>1 DEF QEnd
  <2>3. phase' = "sweep" => pos' = 1
    BY EndSweepIs
  <2> QED BY <1>1, <1>3, <2>1, <2>2, <2>3 DEF Placed
<1>7. Numbers'
  <2>1. /\ covariance' = covariance /\ zbar' = zbar /\ Rows' = Rows
        /\ \A a, q : Table(a, q)' = Table(a, q)
        /\ \A j : Curvature(j)' = Curvature(j)
        /\ \A b : Fitted(b)' = Fitted(b) /\ FittedMean(b)' = FittedMean(b)
        /\ \A j, k : Gram(j, k)' = Gram(j, k)
        /\ \A b, j : Gradient(b, j)' = Gradient(b, j)
    BY <1>1, <1>2, StillTable, StillBlock, StillResponse
  <2> QED BY <1>1, <1>2, <1>3, <2>1 DEF IInv, Numbers
<1> QED BY <1>3, <1>5, <1>6, <1>7 DEF IInv

-----------------------------------------------------------------------------
LEMMA RecheckHolds == ASSUME IInv, Recheck PROVE IInv'
<1> DEFINE kept == Range(keep)
           back == {j \in Cols \ kept : Abs(Gradient(beta, j)) > prob.kink[j]}
<1>1. /\ phase = "swept" /\ UNCHANGED <<problem, numbers, sweeps, verdict>>
      /\ IF back = {} THEN phase' = "checked" /\ UNCHANGED keep
         ELSE phase' = "call" /\ keep' = Ascending(kept \union back)
  BY DEF Recheck
<1>2. UNCHANGED <<prob, trip, cur, inter, z, prev, beta, c, sweep, delta, full, met, verdict>>
  BY <1>1 DEF problem, numbers, sweeps
<1>3. Shape'
  BY <1>1, <1>2 DEF IInv, Shape
<1>4. /\ Posed /\ Kept /\ P \in Nat /\ kept \in SUBSET Cols
      /\ \A j \in Cols : cur[j] # 0 => j \in kept
  BY <1>1, KeptIs, BlockShape DEF IInv, Asked, Called
<1>5. CASE phase' = "checked" /\ UNCHANGED keep
  <2>1. Asked' /\ Called' /\ Solved'
    BY <1>1, <1>2, <1>5, AskedStill, CalledStill, SolvedStill DEF IInv
  <2> QED BY <1>3, <1>5, <2>1 DEF IInv, Placed, Numbers
<1>6. CASE phase' = "call" /\ keep' = Ascending(kept \union back)
  <2> DEFINE S == kept \union back
  <2>1. S \in SUBSET (1 .. P) /\ S # {} /\ kept \subseteq S
    <3>1. kept # {}
      BY <1>4, KeptIs
    <3> QED BY <1>4, <3>1 DEF Cols
  <2> HIDE DEF S
  <2>2. /\ keep' \in Seq(S) /\ Range(keep') = S
        /\ \A h, k \in 1 .. Len(keep') : h < k => keep'[h] < keep'[k]
    <3>1. keep' = Ascending(S)
      BY <1>6 DEF S
    <3> QED BY <1>4, <2>1, <3>1, AscendingEnumerates
  <2>3. keep' \in Seq(Cols) /\ keep' # <<>>
    <3>1. keep' # <<>>
      BY <2>1, <2>2 DEF Range
    <3>2. S \subseteq Cols
      BY <2>1 DEF Cols
    <3> QED BY <2>2, <3>1, <3>2, SeqWider
  <2>4. Cols' = Cols /\ Rows' = Rows /\ Posed' = Posed
        /\ Response(z)' = Response(z) /\ Centered(z)' = Centered(z)
    BY <1>2, StillBlock, StillReading, StillResponse
  <2>5. Sorted' /\ Kept'
    BY <2>2, <2>3, <2>4 DEF Sorted, Kept, m
  <2>6. Asked'
    BY <1>1, <1>2, <1>6, <2>4, <2>5 DEF IInv, Asked, Coefficients
  <2>7. Called'
    <3>1. trip > 0
      BY <1>1 DEF IInv, Called
    <3> QED BY <1>2, <1>4, <2>1, <2>2, <2>4, <2>5, <3>1 DEF Called
  <2> QED BY <1>3, <1>6, <2>6, <2>7 DEF IInv, Solved, Placed, Numbers
<1> QED BY <1>1, <1>5, <1>6

(* A step toward an integer is an integer, and a whole one arrives.        *)
LEMMA TowardIs ==
  ASSUME NEW s \in Int, NEW t \in Int, NEW h \in Nat \ {0}
  PROVE  Toward(s, t, h) \in Int /\ (h = 1 => Toward(s, t, h) = t)
<1>1. \A e \in Int : e \div h \in Int /\ (h = 1 => e \div h = e)
  OBVIOUS
<1>2. s - t \in Int /\ t - s \in Int
  OBVIOUS
<1>3. (s - t) \div h \in Int /\ (t - s) \div h \in Int
  BY <1>1, <1>2
<1>4. h = 1 => (s - t) \div h = s - t /\ (t - s) \div h = t - s
  BY <1>1, <1>2
<1> QED BY <1>3, <1>4 DEF Toward

LEMMA StepIs ==
  ASSUME IInv, Step
  PROVE  /\ phase = "checked" /\ Posed /\ Coefficients(beta) /\ Coefficients(cur)
         /\ UNCHANGED <<prob, trip, z, prev, keep, numbers, sweeps>>
         /\ cur' \in [Cols -> Int] /\ inter' \in Int
         /\ Whole => cur' = beta
         /\ \/ phase' = "read" /\ UNCHANGED verdict
            \/ phase' = "over" /\ verdict' = "small"
<1>1. PICK h \in IF Whole THEN {1} ELSE Halvings :
        /\ cur' = [j \in Cols |-> Toward(cur[j], beta[j], h)]
        /\ inter' = Toward(inter, inter + zbar - FittedMean(beta), h)
        /\ IF Moved(cur') THEN phase' = "read" /\ UNCHANGED verdict ELSE Leave("small")
  BY DEF Step
<1>2. h \in Nat \ {0} /\ (Whole => h = 1)
  BY CoordAssumption
<1>3. phase = "checked" /\ UNCHANGED <<prob, trip, z, prev, keep, numbers, sweeps>>
  BY DEF Step
<1>4. /\ Posed /\ Response(z) /\ Coefficients(beta) /\ Coefficients(cur) /\ inter \in Int
  BY <1>3 DEF IInv, Shape, Asked, Called, Solved
<1>5. zbar \in Int /\ FittedMean(beta) \in Int
  BY <1>4, RestIs, FittedIs
<1>6. inter' \in Int
  <2>1. inter + zbar - FittedMean(beta) \in Int
    BY <1>4, <1>5
  <2> QED BY <1>1, <1>2, <1>4, <2>1, TowardIs
<1>7. \A j \in Cols : /\ Toward(cur[j], beta[j], h) \in Int
                      /\ (Whole => Toward(cur[j], beta[j], h) = beta[j])
  <2> TAKE j \in Cols
  <2>1. cur[j] \in Int /\ beta[j] \in Int
    BY <1>4 DEF Coefficients
  <2> QED BY <1>2, <2>1, TowardIs
<1>8. cur' \in [Cols -> Int] /\ (Whole => cur' = beta)
  BY <1>1, <1>4, <1>7 DEF Coefficients
<1> QED BY <1>1, <1>3, <1>4, <1>6, <1>8 DEF Leave

LEMMA StepHolds == ASSUME IInv, Step PROVE IInv'
<1>1. /\ phase = "checked" /\ UNCHANGED <<prob, trip, z, prev, keep, c, sweep, delta, full, met>>
      /\ phase' \in {"read", "over"}
  BY StepIs DEF numbers, sweeps
<1>2. Shape'
  BY <1>1, StepIs DEF IInv, Shape
<1>3. /\ Cols' = Cols /\ Rows' = Rows /\ Posed' = Posed
      /\ Response(z)' = Response(z) /\ Centered(z)' = Centered(z)
  BY <1>1, StillBlock, StillReading, StillResponse
<1>4. Sorted' = Sorted
  BY <1>1, <1>3 DEF Sorted, m
<1>5. Coefficients(cur)'
  BY <1>3, StepIs DEF Coefficients
<1>6. Asked'
  BY <1>1, <1>3, <1>4, <1>5 DEF IInv, Asked
<1> QED BY <1>1, <1>2, <1>6 DEF IInv, Called, Solved, Placed, Numbers

LEMMA StuckHolds == ASSUME IInv, Stuck PROVE IInv'
<1>1. /\ phase = "checked" /\ phase' = "over" /\ verdict' = "stuck"
      /\ UNCHANGED <<problem, keep, numbers, sweeps>>
  BY DEF Stuck, Leave
<1>2. Shape'
  BY <1>1 DEF IInv, Shape, problem, numbers, sweeps
<1>3. Asked'
  BY <1>1, AskedStill DEF IInv
<1> QED BY <1>1, <1>2, <1>3 DEF IInv, Called, Solved, Placed, Numbers

LEMMA ReturnHolds == ASSUME IInv, Return PROVE IInv'
<1>1. /\ phase' = "idle" /\ trip' = 0 /\ inter' = 0 /\ keep' = <<>> /\ verdict' = None
      /\ c' = 0 /\ full' = TRUE /\ sweep' = 0 /\ delta' = 0 /\ met' = TRUE
  BY DEF Return
<1>2. Shape'
  BY <1>1, CoordAssumption DEF Shape
<1> QED BY <1>1, <1>2 DEF IInv, Asked, Called, Solved, Placed, Numbers

LEMMA NextHolds == IInv /\ [Next]_vars => IInv'
<1> SUFFICES ASSUME IInv, [Next]_vars PROVE IInv'
  OBVIOUS
<1>1. CASE Pose
  BY <1>1, PoseHolds
<1>2. CASE Budget
  BY <1>2, BudgetHolds
<1>3. CASE Read
  BY <1>3, ReadHolds
<1>4. CASE Start
  BY <1>4, StartHolds
<1>5. CASE Visit
  BY <1>5, VisitHolds
<1>6. CASE EndSweep
  BY <1>6, EndSweepHolds
<1>7. CASE Recheck
  BY <1>7, RecheckHolds
<1>8. CASE Step
  BY <1>8, StepHolds
<1>9. CASE Stuck
  BY <1>9, StuckHolds
<1>10. CASE Return
  BY <1>10, ReturnHolds
<1>11. CASE UNCHANGED vars
  BY <1>11, StutterHolds
<1> QED BY <1>1, <1>2, <1>3, <1>4, <1>5, <1>6, <1>7, <1>8, <1>9, <1>10, <1>11 DEF Next, Kernel

THEOREM Invariant == Spec => []IInv
<1>1. Init => IInv
  BY InitHolds
<1>2. IInv /\ [Next]_vars => IInv'
  BY NextHolds
<1> QED BY <1>1, <1>2, PTL DEF Spec

(* The columns kept are columns of the block in ascending order, the       *)
(* coefficients of a sweep are those of the trip outside them, and the     *)
(* active set holds their positions, for every block and every budget      *)
(* (coord_descent.cpp, R/coord.R).                                         *)
THEOREM TypeCorrect == Spec => []TypeOK
<1>1. IInv => TypeOK
  <2> SUFFICES ASSUME IInv PROVE TypeOK
    OBVIOUS
  <2>1. /\ phase \in {"idle", "read", "call", "sweep", "swept", "checked", "over"}
        /\ trip \in 0 .. MaxTrips /\ sweep \in 0 .. MaxSweeps
        /\ delta \in Nat /\ c \in Int /\ inter \in Int /\ {full, met} \subseteq BOOLEAN
        /\ verdict \in {None, "unmoved", "small", "stuck", "budget"}
    BY DEF IInv, Shape
  <2>2. phase # "idle" => /\ prob \in Problems
                          /\ cur \in [Cols -> Int]
                          /\ \A a \in 1 .. m : a > 1 => keep[a - 1] < keep[a]
                          /\ Range(keep) \subseteq Cols
    <3> HAVE phase # "idle"
    <3>1. prob \in Problems /\ cur \in [Cols -> Int] /\ Sorted
      BY DEF IInv, Asked, Posed, Coefficients
    <3>2. keep \in Seq(Cols) /\ m \in Nat /\ m = Len(keep)
      BY <3>1 DEF Sorted, m
    <3>3. \A a \in 1 .. m : a > 1 => keep[a - 1] < keep[a]
      <4> TAKE a \in 1 .. m
      <4> HAVE a > 1
      <4>1. a - 1 \in 1 .. m /\ a - 1 < a
        BY <3>2
      <4> QED BY <3>1, <4>1 DEF Sorted
    <3>4. Range(keep) \subseteq Cols
      BY <3>2 DEF Range
    <3> QED BY <3>1, <3>3, <3>4
  <2>3. phase \in {"call", "sweep", "swept", "checked"} => keep # <<>>
    BY DEF IInv, Called, Kept
  <2>4. phase \in {"sweep", "swept"} =>
          /\ beta \in [Cols -> Int]
          /\ \A j \in Cols : beta[j] # cur[j] => j \in Range(keep)
          /\ \A q \in DOMAIN active : active[q] \in 1 .. m
    <3> HAVE phase \in {"sweep", "swept"}
    <3>1. active \in Seq(1 .. m)
      BY DEF IInv, Placed
    <3>2. \A q \in DOMAIN active : active[q] \in 1 .. m
      BY <3>1, SeqEntries
    <3> QED BY <3>2 DEF IInv, Solved, Coefficients
  <2>5. phase = "sweep" => pos \in 1 .. QEnd + 1
    BY DEF IInv, Placed
  <2> QED BY <2>1, <2>2, <2>3, <2>4, <2>5 DEF TypeOK
<1> QED BY <1>1, Invariant, PTL

(* What a sweep holds in place of the gradient is the gradient, in both    *)
(* forms, both storages, with and without centering, whatever the block    *)
(* (coord_descent.cpp).                                                    *)
THEOREM CacheHolds == Spec => []CacheIsTheGradient
<1>1. IInv => CacheIsTheGradient
  <2> SUFFICES ASSUME IInv, phase = "sweep"
               PROVE  IF covariance THEN \A a \in 1 .. m : g[a] = TrueGradient(beta, keep[a])
                      ELSE [i \in Rows |-> r[i] - c] = TrueResidual(beta)
    BY DEF CacheIsTheGradient
  <2>1. 1 \in 1 .. m
    BY SweepIs
  <2>2. CASE covariance
    BY <2>2, InHandIs DEF InHand
  <2>3. CASE ~ covariance
    BY <2>1, <2>3, InHandIs
  <2> QED BY <2>2, <2>3
<1> QED BY <1>1, Invariant, PTL

-----------------------------------------------------------------------------
(* The slope at curvature q, at t = q b + gradient, and its two sides.     *)
SlopeAt(q, t, s, b, o) ==
  LET h == 2 * b + o
      p == IF prob.penalty = "lasso" THEN 2 * Gamma * s
           ELSE LET d == 2 * Gamma * s - q * Abs(h) IN IF d > 0 THEN d ELSE 0
  IN  Gamma * q * h - 2 * Gamma * t + (IF h > 0 THEN p ELSE -p)
Sides(q, t, s, b) == SlopeAt(q, t, s, b, -1) <= 0 /\ SlopeAt(q, t, s, b, 1) >= 0

LEMMA OptimalIs ==
  ASSUME NEW b, NEW j
  PROVE  Optimal(b, j) <=>
           (TrueCurvature(j) > 0 => Sides(TrueCurvature(j), TrueCurvature(j) * b[j] + TrueGradient(b, j),
                                          prob.kink[j], b[j]))
BY DEF Optimal, Slope, Sides, SlopeAt

(* The rounding keeps to its interval: at zero below the kink, ...         *)
Near(q, a, b) == 2 * (q * b) <= 2 * a + q /\ 2 * a + q < 2 * (q * b) + 2 * q

(* What a slope is in terms of its products.                               *)
LEMMA SlopeOf ==
  ASSUME NEW q \in Int, q > 0, NEW t \in Nat, NEW s \in Nat, NEW b \in Nat
  PROVE  LET hi == 2 * (q * b) + q
             lo == 2 * (q * b) - q
             p(e) == IF prob.penalty = "lasso" THEN 2 * (Gamma * s)
                     ELSE IF 2 * (Gamma * s) - e > 0 THEN 2 * (Gamma * s) - e ELSE 0
         IN  /\ SlopeAt(q, t, s, b, 1) = Gamma * hi - 2 * (Gamma * t) + p(hi)
             /\ b > 0 => SlopeAt(q, t, s, b, -1) = Gamma * lo - 2 * (Gamma * t) + p(lo)
             /\ b = 0 => SlopeAt(q, t, s, b, -1) = -(Gamma * q) - 2 * (Gamma * t) - p(q)
<1>0. Gamma \in Int
  BY CoordAssumption
<1>1. /\ \A e, k, h \in Int : e * k * h = e * (k * h)
      /\ \A e, k \in Int : 2 * e * k = 2 * (e * k) /\ e * k \in Int
      /\ \A e, k \in Int : e * (2 * k + 1) = 2 * (e * k) + e /\ e * (2 * k + (-1)) = 2 * (e * k) - e
      /\ \A e, k \in Int : e * k * (2 * 0 + (-1)) = -(e * k)
  OBVIOUS
<1>2. q * b \in Int /\ Gamma * s \in Int /\ Gamma * t \in Int /\ Gamma * q \in Int
  BY <1>0, <1>1
<1>3. /\ q * (2 * b + 1) = 2 * (q * b) + q /\ q * (2 * b + (-1)) = 2 * (q * b) - q
      /\ 2 * Gamma * s = 2 * (Gamma * s) /\ 2 * Gamma * t = 2 * (Gamma * t)
  BY <1>0, <1>1
<1>4. /\ Gamma * q * (2 * b + 1) = Gamma * (2 * (q * b) + q)
      /\ Gamma * q * (2 * b + (-1)) = Gamma * (2 * (q * b) - q)
  <2>1. 2 * b + 1 \in Int /\ 2 * b + (-1) \in Int
    OBVIOUS
  <2>2. /\ Gamma * q * (2 * b + 1) = Gamma * (q * (2 * b + 1))
        /\ Gamma * q * (2 * b + (-1)) = Gamma * (q * (2 * b + (-1)))
    BY <1>0, <1>1, <2>1
  <2> QED BY <1>3, <2>2
<1>5. /\ 2 * b + 1 > 0 /\ Abs(2 * b + 1) = 2 * b + 1
      /\ b > 0 => 2 * b + (-1) > 0 /\ Abs(2 * b + (-1)) = 2 * b + (-1)
      /\ b = 0 => 2 * b + (-1) = -1 /\ Abs(2 * b + (-1)) = 1
  BY DEF Abs
<1>6. SlopeAt(q, t, s, b, 1) =
        Gamma * (2 * (q * b) + q) - 2 * (Gamma * t)
          + (IF prob.penalty = "lasso" THEN 2 * (Gamma * s)
             ELSE IF 2 * (Gamma * s) - (2 * (q * b) + q) > 0
                  THEN 2 * (Gamma * s) - (2 * (q * b) + q) ELSE 0)
  BY <1>3, <1>4, <1>5 DEF SlopeAt
<1>7. ASSUME b > 0
      PROVE  SlopeAt(q, t, s, b, -1) =
               Gamma * (2 * (q * b) - q) - 2 * (Gamma * t)
                 + (IF prob.penalty = "lasso" THEN 2 * (Gamma * s)
                    ELSE IF 2 * (Gamma * s) - (2 * (q * b) - q) > 0
                         THEN 2 * (Gamma * s) - (2 * (q * b) - q) ELSE 0)
  BY <1>3, <1>4, <1>5, <1>7 DEF SlopeAt
<1>8. ASSUME b = 0
      PROVE  SlopeAt(q, t, s, b, -1) =
               -(Gamma * q) - 2 * (Gamma * t)
                 - (IF prob.penalty = "lasso" THEN 2 * (Gamma * s)
                    ELSE IF 2 * (Gamma * s) - q > 0 THEN 2 * (Gamma * s) - q ELSE 0)
  <2> DEFINE p == IF prob.penalty = "lasso" THEN 2 * (Gamma * s)
                  ELSE IF 2 * (Gamma * s) - q > 0 THEN 2 * (Gamma * s) - q ELSE 0
  <2>1. Gamma * q * (2 * b + (-1)) = -(Gamma * q)
    BY <1>0, <1>1, <1>8
  <2>2. q * Abs(2 * b + (-1)) = q /\ ~ (2 * b + (-1) > 0)
    BY <1>5, <1>8
  <2>3. SlopeAt(q, t, s, b, -1) = -(Gamma * q) - 2 * (Gamma * t) + (-p)
    BY <1>3, <2>1, <2>2 DEF SlopeAt
  <2>4. p \in Int
    BY <1>2
  <2> HIDE DEF p
  <2>5. SlopeAt(q, t, s, b, -1) = -(Gamma * q) - 2 * (Gamma * t) - p
    BY <1>2, <2>3, <2>4
  <2> QED BY <2>5 DEF p
<1> QED BY <1>6, <1>7, <1>8

LEMMA SidesOfLasso ==
  ASSUME prob.penalty = "lasso", NEW q \in Int, q > 0, NEW t \in Nat, NEW s \in Nat,
         NEW b \in Nat, (b = 0 /\ t <= s) \/ (t > s /\ Near(q, t - s, b))
  PROVE  Sides(q, t, s, b)
<1>0. Gamma \in Nat /\ Gamma > 1
  BY CoordAssumption
<1> DEFINE k == q * b
           hi == 2 * k + q
           lo == 2 * k - q
<1>1. k \in Int /\ hi \in Int /\ lo \in Int /\ (b = 0 => k = 0)
  <2>1. \A e, h \in Int : e * h \in Int /\ e * 0 = 0
    OBVIOUS
  <2> QED BY <2>1
<1>2. hi - 2 * t + 2 * s >= 0 /\ (b > 0 => lo - 2 * t + 2 * s <= 0)
  <2>1. CASE b = 0 /\ t <= s
    BY <1>1, <2>1
  <2>2. CASE t > s /\ Near(q, t - s, b)
    <3>1. 2 * k <= 2 * (t - s) + q /\ 2 * (t - s) + q < 2 * k + 2 * q
      BY <2>2 DEF Near
    <3> HIDE DEF k
    <3> QED BY <1>1, <3>1
  <2> QED BY <2>1, <2>2
<1>3. /\ SlopeAt(q, t, s, b, 1) = Gamma * hi - 2 * (Gamma * t) + 2 * (Gamma * s)
      /\ b > 0 => SlopeAt(q, t, s, b, -1) = Gamma * lo - 2 * (Gamma * t) + 2 * (Gamma * s)
      /\ b = 0 => SlopeAt(q, t, s, b, -1) = -(Gamma * q) - 2 * (Gamma * t) - 2 * (Gamma * s)
  <2>1. SlopeAt(q, t, s, b, 1) = Gamma * hi - 2 * (Gamma * t) + 2 * (Gamma * s)
    BY SlopeOf
  <2>2. b > 0 => SlopeAt(q, t, s, b, -1) = Gamma * lo - 2 * (Gamma * t) + 2 * (Gamma * s)
    BY SlopeOf
  <2>3. b = 0 => SlopeAt(q, t, s, b, -1) = -(Gamma * q) - 2 * (Gamma * t) - 2 * (Gamma * s)
    <3> HIDE DEF k, hi, lo
    <3> QED BY SlopeOf
  <2> QED BY <2>1, <2>2, <2>3
<1> HIDE DEF hi, lo, k
<1>4. \A e \in Int : Gamma * e - 2 * (Gamma * t) + 2 * (Gamma * s) = Gamma * (e - 2 * t + 2 * s)
  BY <1>0
<1>5. /\ \A e, h \in Int : e > 0 /\ h >= 0 => e * h >= 0
      /\ \A e, h \in Int : e > 0 /\ h <= 0 => e * h <= 0
      /\ \A e, h \in Int : e * h \in Int
  OBVIOUS
<1>6. hi - 2 * t + 2 * s \in Int /\ lo - 2 * t + 2 * s \in Int
  BY <1>1
<1>7. SlopeAt(q, t, s, b, 1) >= 0
  BY <1>0, <1>1, <1>2, <1>3, <1>4, <1>5, <1>6
<1>8. b > 0 => SlopeAt(q, t, s, b, -1) <= 0
  BY <1>0, <1>1, <1>2, <1>3, <1>4, <1>5, <1>6
<1>9. b = 0 => SlopeAt(q, t, s, b, -1) <= 0
  <2>1. Gamma * q >= 0 /\ Gamma * t >= 0 /\ Gamma * s >= 0
    BY <1>0, <1>5
  <2>2. Gamma * q \in Int /\ Gamma * t \in Int /\ Gamma * s \in Int
    BY <1>0, <1>5
  <2> QED BY <1>3, <2>1, <2>2
<1> QED BY <1>7, <1>8, <1>9 DEF Sides

LEMMA SidesOfMcp ==
  ASSUME prob.penalty # "lasso", NEW q \in Int, q > 0, NEW t \in Nat, NEW s \in Nat,
         NEW b \in Nat,
         \/ b = 0 /\ t <= s
         \/ t > s /\ t <= Gamma * s /\ Near((Gamma - 1) * q, Gamma * (t - s), b)
         \/ t > Gamma * s /\ Near(q, t, b)
  PROVE  Sides(q, t, s, b)
<1>0. Gamma \in Nat /\ Gamma > 1
  BY CoordAssumption
<1> DEFINE k == q * b
           hi == 2 * k + q
           lo == 2 * k - q
           gs == Gamma * s
           gt == Gamma * t
           gh == Gamma * hi
           gl == Gamma * lo
           up == IF 2 * gs - hi > 0 THEN 2 * gs - hi ELSE 0
           dn == IF 2 * gs - lo > 0 THEN 2 * gs - lo ELSE 0
           at == IF 2 * gs - q > 0 THEN 2 * gs - q ELSE 0
<1>1. /\ \A e, h \in Int : e * h \in Int /\ e * 0 = 0
      /\ \A e, h, n \in Int : e > 0 /\ h <= n => e * h <= e * n
      /\ \A e, h, n \in Int : e > 0 /\ e * h <= e * n => h <= n
  OBVIOUS
<1>2. k \in Int /\ hi \in Int /\ lo \in Int /\ (b = 0 => k = 0) /\ k >= 0
  <2>1. \A e, h \in Int : e > 0 /\ h >= 0 => e * h >= 0
    OBVIOUS
  <2> QED BY <1>1, <2>1
<1>3. /\ gs \in Int /\ gt \in Int /\ gh \in Int /\ gl \in Int /\ Gamma * q \in Int
      /\ gt >= 0 /\ gs >= 0 /\ Gamma * q >= 0
  <2>1. \A e, h \in Int : e > 0 /\ h >= 0 => e * h >= 0
    OBVIOUS
  <2> HIDE DEF hi, lo
  <2> QED BY <1>0, <1>1, <1>2, <2>1
<1>4. /\ SlopeAt(q, t, s, b, 1) = gh - 2 * gt + up
      /\ b > 0 => SlopeAt(q, t, s, b, -1) = gl - 2 * gt + dn
      /\ b = 0 => SlopeAt(q, t, s, b, -1) = -(Gamma * q) - 2 * gt - at
  BY SlopeOf
<1>5. up \in Int /\ up >= 0 /\ up >= 2 * gs - hi
  <2> HIDE DEF gs, hi
  <2> QED BY <1>2, <1>3
<1>6. at \in Int /\ at >= 0
  <2> HIDE DEF gs
  <2> QED BY <1>3
<1>7. b = 0 => SlopeAt(q, t, s, b, -1) <= 0
  <2> HIDE DEF gs, gt, at
  <2> QED BY <1>3, <1>4, <1>6
<1>8. gh >= hi
  <2>1. \A e, h \in Int : e >= 1 /\ h >= 0 => e * h >= h
    OBVIOUS
  <2>2. hi >= 0 /\ hi \in Int
    <3> HIDE DEF k
    <3> QED BY <1>2
  <2> HIDE DEF hi
  <2> QED BY <1>0, <2>1, <2>2
<1>9. CASE b = 0 /\ t <= s
  <2>1. gt <= gs
    BY <1>0, <1>1, <1>9
  <2> HIDE DEF gs, gt, gh, hi, up
  <2>2. gh - 2 * gt + up >= 0
    BY <1>2, <1>3, <1>5, <1>8, <2>1
  <2> QED BY <1>4, <1>7, <1>9, <2>2 DEF Sides
<1>10. CASE t > s /\ t <= Gamma * s /\ Near((Gamma - 1) * q, Gamma * (t - s), b)
  <2>1. /\ ((Gamma - 1) * q) * b = Gamma * k - k
        /\ Gamma * (t - s) = gt - gs /\ (Gamma - 1) * q = Gamma * q - q
    <3>1. \A e, h, n \in Int : /\ ((e - 1) * h) * n = e * (h * n) - h * n
                               /\ e * (h - n) = e * h - e * n
                               /\ (e - 1) * h = e * h - h
      OBVIOUS
    <3> QED BY <1>0, <3>1
  <2>2. gh = 2 * (Gamma * k) + Gamma * q /\ gl = 2 * (Gamma * k) - Gamma * q /\ Gamma * k \in Int
    <3>1. \A e, h, n \in Int : /\ e * (2 * h + n) = 2 * (e * h) + e * n
                               /\ e * (2 * h - n) = 2 * (e * h) - e * n
      OBVIOUS
    <3> HIDE DEF k
    <3> QED BY <1>0, <1>1, <1>2, <3>1
  <2>3. /\ 2 * (Gamma * k - k) <= 2 * (gt - gs) + (Gamma * q - q)
        /\ 2 * (gt - gs) + (Gamma * q - q) < 2 * (Gamma * k - k) + 2 * (Gamma * q - q)
    BY <1>10, <2>1 DEF Near
  <2>4. /\ gl - lo <= 2 * gt - 2 * gs /\ 2 * gt - 2 * gs < gh - hi
    <3> DEFINE a == Gamma * k
               e == Gamma * q
    <3>1. a \in Int /\ e \in Int /\ gh = 2 * a + e /\ gl = 2 * a - e
      BY <1>3, <2>2
    <3>2. 2 * (a - k) <= 2 * (gt - gs) + (e - q) /\ 2 * (gt - gs) + (e - q) < 2 * (a - k) + 2 * (e - q)
      BY <2>3
    <3> HIDE DEF a, e, k, gt, gs, gh, gl
    <3> QED BY <1>2, <1>3, <3>1, <3>2
  <2>5. gl <= 2 * gt
    <3>1. gl - lo = (Gamma - 1) * lo /\ 2 * gt - 2 * t = (Gamma - 1) * (2 * t)
      <4>1. \A e, h \in Int : e * h - h = (e - 1) * h /\ 2 * (e * h) - 2 * h = (e - 1) * (2 * h)
        OBVIOUS
      <4> HIDE DEF lo
      <4> QED BY <1>0, <1>2, <4>1
    <3>2. gl - lo <= 2 * gt - 2 * t
      <4>1. t <= gs
        BY <1>10
      <4> HIDE DEF gl, lo, gt, gs
      <4> QED BY <1>2, <1>3, <2>4, <4>1
    <3>3. Gamma - 1 \in Int /\ Gamma - 1 > 0 /\ 2 * t \in Int
      BY <1>0
    <3> HIDE DEF gl, lo, gt
    <3>4. lo <= 2 * t
      <4>1. (Gamma - 1) * lo <= (Gamma - 1) * (2 * t)
        BY <3>1, <3>2
      <4> QED BY <1>1, <1>2, <3>3, <4>1
    <3>5. Gamma * lo <= Gamma * (2 * t)
      BY <1>0, <1>1, <1>2, <3>3, <3>4
    <3>6. Gamma * (2 * t) = 2 * (Gamma * t)
      BY <1>0
    <3> QED BY <3>5, <3>6 DEF gl, gt
  <2> HIDE DEF gs, gt, gh, gl, hi, lo
  <2>6. gh - 2 * gt + up >= 0
    <3> HIDE DEF up
    <3> QED BY <1>2, <1>3, <1>5, <2>4
  <2>7. gl - 2 * gt + dn <= 0
    BY <1>2, <1>3, <2>4, <2>5
  <2> QED BY <1>4, <1>7, <2>6, <2>7 DEF Sides
<1>11. CASE t > Gamma * s /\ Near(q, t, b)
  <2>1. lo <= 2 * t /\ 2 * t <= hi
    <3>1. 2 * k <= 2 * t + q /\ 2 * t + q < 2 * k + 2 * q
      BY <1>11 DEF Near
    <3> HIDE DEF k
    <3> QED BY <1>2, <3>1
  <2>2. gl <= 2 * gt /\ 2 * gt <= gh
    <3>1. Gamma * (2 * t) = 2 * gt /\ 2 * t \in Int
      BY <1>0
    <3>2. Gamma * lo <= Gamma * (2 * t) /\ Gamma * (2 * t) <= Gamma * hi
      <4> HIDE DEF lo, hi
      <4> QED BY <1>0, <1>1, <1>2, <2>1, <3>1
    <3> QED BY <3>1, <3>2
  <2>3. 2 * gs - lo > 0 => gl - 2 * gt + (2 * gs - lo) <= 0
    <3> HAVE 2 * gs - lo > 0
    <3>1. gl - lo = (Gamma - 1) * lo
          /\ Gamma * (2 * gs) - 2 * gs = (Gamma - 1) * (2 * gs) /\ Gamma * (2 * gs) = 2 * (Gamma * gs)
      <4>1. \A e, h \in Int : e * h - h = (e - 1) * h /\ e * (2 * h) - 2 * h = (e - 1) * (2 * h)
                              /\ e * (2 * h) = 2 * (e * h)
        OBVIOUS
      <4> HIDE DEF lo, gs
      <4> QED BY <1>0, <1>2, <1>3, <4>1
    <3>2. (Gamma - 1) * lo <= (Gamma - 1) * (2 * gs)
      <4> HIDE DEF lo, gs
      <4>1. lo <= 2 * gs /\ 2 * gs \in Int /\ Gamma - 1 \in Int /\ Gamma - 1 > 0
        BY <1>0, <1>2, <1>3
      <4> QED BY <1>1, <1>2, <4>1
    <3>3. Gamma * gs <= gt /\ Gamma * gs \in Int
      <4>1. gs <= t
        BY <1>3, <1>11
      <4> HIDE DEF gs
      <4> QED BY <1>0, <1>1, <1>3, <4>1
    <3> DEFINE e == Gamma * gs
               n == (Gamma - 1) * lo
               y == (Gamma - 1) * (2 * gs)
    <3>4. gl - lo = n /\ 2 * e - 2 * gs = y /\ n <= y /\ e <= gt /\ e \in Int
      BY <3>1, <3>2, <3>3
    <3> HIDE DEF gs, gl, lo, gt, e, n, y
    <3>5. gl - lo <= 2 * e - 2 * gs
      BY <3>4
    <3> QED BY <1>2, <1>3, <3>4, <3>5
  <2> HIDE DEF gs, gt, gh, gl, hi, lo
  <2>4. gh - 2 * gt + up >= 0
    <3> HIDE DEF up
    <3> QED BY <1>2, <1>3, <1>5, <2>2
  <2>5. gl - 2 * gt + dn <= 0
    BY <1>2, <1>3, <2>2, <2>3
  <2> QED BY <1>4, <1>7, <2>4, <2>5 DEF Sides
<1> QED BY <1>9, <1>10, <1>11

(* The other side of zero is the mirror image.                             *)
LEMMA SidesMirror ==
  ASSUME NEW q \in Int, NEW t \in Int, NEW s \in Nat, NEW b \in Int, Sides(q, t, s, b)
  PROVE  Sides(q, -t, s, -b)
<1>0. Gamma \in Int
  BY CoordAssumption
<1>1. ASSUME NEW o \in Int, NEW n \in Int, o = 1 \/ o = -1, n = -o
      PROVE  SlopeAt(q, -t, s, -b, n) = -SlopeAt(q, t, s, b, o)
  <2> DEFINE h == 2 * b + o
             d == 2 * Gamma * s - q * Abs(h)
             p == IF prob.penalty = "lasso" THEN 2 * Gamma * s ELSE IF d > 0 THEN d ELSE 0
  <2>1. 2 * (-b) + n = -h /\ h \in Int /\ h # 0 /\ Abs(-h) = Abs(h) /\ Abs(h) \in Int
    BY <1>1 DEF Abs
  <2>2. /\ \A e, k \in Int : e * k \in Int /\ e * (-k) = -(e * k)
        /\ \A e, k, y \in Int : e * k * y \in Int /\ e * k * (-y) = -(e * k * y)
    OBVIOUS
  <2>3. p \in Int
    BY <1>0, <2>1, <2>2
  <2>4. SlopeAt(q, t, s, b, o) = Gamma * q * h - 2 * Gamma * t + (IF h > 0 THEN p ELSE -p)
    BY DEF SlopeAt
  <2>5. SlopeAt(q, -t, s, -b, n) = Gamma * q * (-h) - 2 * Gamma * (-t) + (IF -h > 0 THEN p ELSE -p)
    BY <2>1 DEF SlopeAt
  <2>6. /\ Gamma * q * h \in Int /\ Gamma * q * (-h) = -(Gamma * q * h)
        /\ 2 * Gamma * t \in Int /\ 2 * Gamma * (-t) = -(2 * Gamma * t)
    <3> HIDE DEF h
    <3> QED BY <1>0, <2>1, <2>2
  <2> DEFINE y == Gamma * q * h
             k == 2 * Gamma * t
  <2>7. /\ SlopeAt(q, t, s, b, o) = y - k + (IF h > 0 THEN p ELSE -p)
        /\ SlopeAt(q, -t, s, -b, n) = -y - (-k) + (IF -h > 0 THEN p ELSE -p)
        /\ y \in Int /\ k \in Int
    BY <2>4, <2>5, <2>6
  <2> HIDE DEF h, p, y, k
  <2> QED BY <2>1, <2>3, <2>7
<1>2. SlopeAt(q, t, s, b, -1) \in Int /\ SlopeAt(q, t, s, b, 1) \in Int
  <2>1. ASSUME NEW o \in {-1, 1} PROVE SlopeAt(q, t, s, b, o) \in Int
    <3> DEFINE h == 2 * b + o
               d == 2 * Gamma * s - q * Abs(h)
               p == IF prob.penalty = "lasso" THEN 2 * Gamma * s ELSE IF d > 0 THEN d ELSE 0
    <3>1. h \in Int /\ Abs(h) \in Int
      BY DEF Abs
    <3>2. /\ \A e, n \in Int : e * n \in Int
          /\ \A e, n, y \in Int : e * n * y \in Int
      OBVIOUS
    <3>3. p \in Int
      BY <1>0, <3>1, <3>2
    <3>4. SlopeAt(q, t, s, b, o) = Gamma * q * h - 2 * Gamma * t + (IF h > 0 THEN p ELSE -p)
      BY DEF SlopeAt
    <3>5. Gamma * q * h \in Int /\ 2 * Gamma * t \in Int
      <4> HIDE DEF h
      <4> QED BY <1>0, <3>1, <3>2
    <3> HIDE DEF h, p
    <3> QED BY <3>3, <3>4, <3>5
  <2> QED BY <2>1
<1>3. SlopeAt(q, -t, s, -b, -1) = -SlopeAt(q, t, s, b, 1)
  BY <1>1
<1>4. SlopeAt(q, -t, s, -b, 1) = -SlopeAt(q, t, s, b, -1)
  BY <1>1
<1> QED BY <1>2, <1>3, <1>4 DEF Sides

-----------------------------------------------------------------------------
(* A coordinate at the value of its map is at its optimum, ...             *)
LEMMA MappedSides ==
  ASSUME Posed, NEW s \in Nat, NEW q \in Int, q > 0, NEW t \in Int
  PROVE  Sides(q, t, s, Mapped(s, q, t))
<1>0. Gamma \in Nat /\ Gamma > 1
  BY CoordAssumption
<1>1. ASSUME NEW a \in Nat
      PROVE  Mapped(s, q, a) \in Nat /\ Sides(q, a, s, Mapped(s, q, a))
  <2> DEFINE b == Mapped(s, q, a)
  <2>0. Abs(a) = a /\ ~ (a < 0) /\ s <= Gamma * s /\ Gamma * s \in Int
    <3>1. \A k, e \in Nat : e > 1 => k <= e * k /\ e * k \in Int
      OBVIOUS
    <3> QED BY <1>0, <3>1 DEF Abs
  <2>1. CASE a <= s
    <3>1. b = 0
      BY <2>0, <2>1 DEF Mapped
    <3> QED BY <2>1, <3>1, SidesOfLasso, SidesOfMcp
  <2>2. CASE a > s /\ prob.penalty = "lasso"
    <3>1. b = Nearest(a - s, q)
      BY <2>0, <2>2 DEF Mapped
    <3>2. a - s \in Int /\ a - s >= 0
      BY <2>2
    <3>3. b \in Nat /\ Near(q, a - s, b)
      <4>1. Nearest(a - s, q) \in Nat
        BY <3>2, NearestIs
      <4>2. Near(q, a - s, Nearest(a - s, q))
        BY <3>2, NearestIs DEF Near
      <4> QED BY <3>1, <4>1, <4>2
    <3> HIDE DEF b
    <3>4. Sides(q, a, s, b)
      BY <2>2, <3>3, SidesOfLasso
    <3> QED BY <3>3, <3>4 DEF b
  <2>3. CASE a > s /\ prob.penalty # "lasso" /\ a <= Gamma * s
    <3> DEFINE e == Gamma * (a - s)
               d == (Gamma - 1) * q
    <3>1. b = Nearest(e, d)
      BY <2>0, <2>3 DEF Mapped
    <3>2. e \in Int /\ e >= 0 /\ d \in Int /\ d > 0
      <4>1. /\ \A k, h \in Int : k > 0 /\ h > 0 => k * h > 0
            /\ \A k, h \in Int : k * h \in Int
        OBVIOUS
      <4>2. a - s \in Int /\ a - s > 0 /\ Gamma - 1 \in Int /\ Gamma - 1 > 0
        BY <1>0, <2>3
      <4> QED BY <1>0, <4>1, <4>2
    <3>3. b \in Nat /\ Near(d, e, b)
      <4> HIDE DEF e, d
      <4>1. Nearest(e, d) \in Nat
        BY <3>2, NearestIs
      <4>2. Near(d, e, Nearest(e, d))
        BY <3>2, NearestIs DEF Near
      <4> QED BY <3>1, <4>1, <4>2
    <3> HIDE DEF b
    <3>4. Sides(q, a, s, b)
      BY <2>3, <3>3, SidesOfMcp
    <3> QED BY <3>3, <3>4 DEF b
  <2>4. CASE a > s /\ prob.penalty # "lasso" /\ a > Gamma * s
    <3>1. b = Nearest(a, q)
      BY <2>0, <2>4 DEF Mapped
    <3>2. b \in Nat /\ Near(q, a, b)
      <4>1. Nearest(a, q) \in Nat
        BY NearestIs
      <4>2. Near(q, a, Nearest(a, q))
        BY NearestIs DEF Near
      <4> QED BY <3>1, <4>1, <4>2
    <3> HIDE DEF b
    <3>3. Sides(q, a, s, b)
      BY <2>4, <3>2, SidesOfMcp
    <3> QED BY <3>2, <3>3 DEF b
  <2> QED BY <2>0, <2>1, <2>2, <2>3, <2>4
<1>2. CASE t >= 0
  BY <1>1, <1>2
<1>3. CASE t < 0
  <2> DEFINE a == -t
  <2>1. a \in Nat /\ Abs(t) = a /\ Abs(a) = a /\ ~ (a < 0) /\ -a = t
    BY <1>3 DEF Abs
  <2>2. Mapped(s, q, t) = -Mapped(s, q, a)
    BY <1>3, <2>1 DEF Mapped
  <2>3. Mapped(s, q, a) \in Nat /\ Sides(q, a, s, Mapped(s, q, a))
    BY <1>1, <2>1
  <2> HIDE DEF a
  <2>4. Sides(q, -a, s, -Mapped(s, q, a))
    BY <2>1, <2>3, SidesMirror
  <2> QED BY <2>1, <2>2, <2>4
<1> QED BY <1>2, <1>3

(* ... and so is one that is left at zero below its kink.                  *)
LEMMA ZeroIsOptimal ==
  ASSUME Posed, Response(z), NEW b, Coefficients(b), NEW j \in Cols,
         b[j] = 0, ~ (Abs(Gradient(b, j)) > prob.kink[j])
  PROVE  Optimal(b, j)
<1> DEFINE q == TrueCurvature(j)
           t == TrueGradient(b, j)
           s == prob.kink[j]
<1>1. q \in Int /\ t \in Int /\ s \in Nat /\ t = Gradient(b, j)
  BY CurvatureIs, GradientIs, BlockShape
<1>2. q * b[j] + t = t
  <2>1. \A k \in Int : k * 0 = 0
    OBVIOUS
  <2> HIDE DEF q, t
  <2> QED BY <1>1, <2>1
<1>3. ~ (Abs(t) > s)
  BY <1>1
<1> HIDE DEF q, t, s
<1>4. Mapped(s, q, t) = 0
  <2>1. Abs(t) \in Int /\ Abs(t) <= s
    BY <1>1, <1>3 DEF Abs
  <2> DEFINE k == IF Abs(t) <= s THEN 0
                  ELSE IF prob.penalty = "lasso" THEN Nearest(Abs(t) - s, q)
                  ELSE IF Abs(t) <= Gamma * s THEN Nearest(Gamma * (Abs(t) - s), (Gamma - 1) * q)
                  ELSE Nearest(Abs(t), q)
  <2>2. Mapped(s, q, t) = IF t < 0 THEN -k ELSE k
    BY DEF Mapped
  <2>3. k = 0
    BY <2>1
  <2> HIDE DEF k
  <2>4. k \in Int /\ k + k = 0
    BY <2>3
  <2>5. -k = k
    BY <2>4
  <2>6. Mapped(s, q, t) = k
    BY <2>2, <2>5
  <2> QED BY <2>3, <2>6
<1>5. q > 0 => Sides(q, t, s, 0)
  BY <1>1, <1>4, MappedSides
<1> QED BY <1>2, <1>5, OptimalIs DEF q, t, s

LEMMA FixedIsOptimal ==
  ASSUME IInv, phase = "sweep", NEW a \in 1 .. m,
         v[a] > 0 => Target(a) = beta[Swept(a)]
  PROVE  Optimal(beta, keep[a])
<1> DEFINE j == keep[a]
           t == v[a] * beta[j] + TrueGradient(beta, j)
<1>1. Posed /\ Kept /\ j \in Cols /\ Swept(a) = j
  BY SweepIs, KeptIs
<1>2. v[a] = TrueCurvature(j)
  BY <1>1, CurvatureIs DEF IInv, Numbers
<1>3. ASSUME v[a] > 0 PROVE Sides(v[a], t, prob.kink[j], beta[j])
  <2>1. /\ v[a] \in Int /\ t \in Int /\ Target(a) = Mapped(prob.kink[j], v[a], t)
    BY <1>3, TargetIs
  <2>2. prob.kink[j] \in Nat
    BY <1>1, BlockShape
  <2>3. beta[j] = Mapped(prob.kink[j], v[a], t)
    BY <1>1, <1>3, <2>1
  <2> HIDE DEF t, j
  <2> QED BY <1>1, <1>3, <2>1, <2>2, <2>3, MappedSides
<1> QED BY <1>2, <1>3, OptimalIs

-----------------------------------------------------------------------------
(* The answer, where the tolerance is the unit coefficients are rounded to *)
(* and a sweep that met it moved nothing: what a full sweep has passed is  *)
(* at its optimum as long as nothing moved, and stays so to the end.       *)
Answered ==
  /\ phase = "sweep" /\ full /\ delta = 0 => \A a \in 1 .. m : a < pos => Optimal(beta, keep[a])
  /\ phase = "swept" /\ met => \A a \in 1 .. m : Optimal(beta, keep[a])
  /\ phase = "checked" /\ met => \A j \in Cols : Optimal(beta, j)
  /\ phase = "read" /\ trip > 0 /\ met /\ Whole => \A j \in Cols : Optimal(cur, j)
  /\ Converged /\ met => \A j \in Cols : Optimal(cur, j)

LEMMA StillOptimal ==
  ASSUME UNCHANGED <<prob, z>>
  PROVE  /\ \A b, j : Optimal(b, j)' = Optimal(b, j)
         /\ Whole' = Whole /\ Cols' = Cols
<1>1. \A j : TrueCurvature(j)' = TrueCurvature(j)
  BY StillBlock
<1>2. \A b, j : TrueGradient(b, j)' = TrueGradient(b, j)
  BY StillResponse
<1> QED BY <1>1, <1>2, StillBlock DEF Optimal, Slope, Whole, Still

(* Rereading a problem that did not move leaves the optimum where it was.  *)
LEMMA ReadOptimal ==
  ASSUME UNCHANGED <<prob, cur>>, Posed, Response(z), Response(z'), Coefficients(cur),
         Centered(z) = Centered(z')
  PROVE  /\ \A j : Optimal(cur, j)' = Optimal(cur, j)
         /\ Whole' = Whole /\ Cols' = Cols
<1>1. /\ N' = N /\ Rows' = Rows /\ Cols' = Cols
      /\ \A i : w(i)' = w(i)
      /\ \A j : TrueColumn(j)' = TrueColumn(j) /\ TrueCurvature(j)' = TrueCurvature(j)
      /\ \A b : Fitted(b)' = Fitted(b) /\ \A u : Centered(u)' = Centered(u)
  BY StillBlock, StillReading DEF w, TrueColumn
<1>2. TrueResidual(cur)' = TrueResidual(cur)
  <2>1. Centered([i \in Rows |-> z[i] - Fitted(cur)[i]])
          = Centered([i \in Rows |-> z'[i] - Fitted(cur)[i]])
    BY SameReading
  <2>2. TrueResidual(cur)' = Centered([i \in Rows |-> z'[i] - Fitted(cur)[i]])
    BY <1>1 DEF TrueResidual
  <2>3. TrueResidual(cur) = Centered([i \in Rows |-> z[i] - Fitted(cur)[i]])
    BY DEF TrueResidual
  <2> QED BY <2>1, <2>2, <2>3
<1>3. \A j : TrueGradient(cur, j)' = TrueGradient(cur, j)
  BY <1>1, <1>2 DEF TrueGradient
<1> QED BY <1>1, <1>3 DEF Optimal, Slope, Whole, Still

LEMMA InitAnswered == Init => Answered
BY CoordAssumption DEF Init, Answered, Converged

LEMMA ReadAnswered == ASSUME IInv, Answered, Read PROVE Answered'
<1>1. /\ phase = "read" /\ Posed /\ Coefficients(cur) /\ UNCHANGED <<prob, cur, met>>
      /\ Response(z')
  BY ReadReads
<1>2. CASE prev = Centered(z') /\ phase' = "over"
  <2>1. trip > 0 /\ Response(z) /\ prev = Centered(z)
    <3>1. trip # 0
      <4> SUFFICES ASSUME trip = 0 PROVE FALSE
        OBVIOUS
      <4>1. prev = None
        BY <1>1 DEF IInv, Asked
      <4>2. Centered(z') \in Seq(Int)
        <5>1. \A i \in Rows : z'[i] \in Int
          BY <1>1 DEF Response
        <5>2. Centered(z') = [i \in Rows |-> IF prob.center THEN z'[i] - Mean(z') ELSE z'[i]]
          BY DEF Centered
        <5>3. prob.center => Mean(z') \in Int
          <6> HAVE prob.center
          <6>1. Weighted(prob.w, z') \in Int /\ W \in Int /\ W > 0
            BY <1>1, <5>1, WeightedIs, ExactMeans
          <6>2. \A s, t \in Int : t > 0 => s \div t \in Int
            OBVIOUS
          <6> QED BY <6>1, <6>2 DEF Mean
        <5>4. Centered(z') \in [Rows -> Int]
          <6>1. \A i \in Rows : (IF prob.center THEN z'[i] - Mean(z') ELSE z'[i]) \in Int
            BY <5>1, <5>3
          <6> QED BY <5>2, <6>1
        <5>5. Rows = 1 .. N /\ N \in Nat
          BY <1>1, BlockShape DEF Rows
        <5> QED BY <5>4, <5>5
      <4> QED BY <1>2, <4>1, <4>2, CoordAssumption
    <3> QED BY <1>1, <3>1 DEF IInv, Asked, Shape
  <2>2. /\ \A j : Optimal(cur, j)' = Optimal(cur, j)
        /\ Whole' = Whole /\ Cols' = Cols
    BY <1>1, <1>2, <2>1, ReadOptimal
  <2>3. met /\ Whole => \A j \in Cols : Optimal(cur, j)
    BY <1>1, <2>1 DEF Answered
  <2> QED BY <1>1, <1>2, <2>2, <2>3 DEF Answered, Converged
<1>3. CASE phase' = "call"
  BY <1>3 DEF Answered, Converged
<1> QED BY <1>2, <1>3, ReadReads

LEMMA VisitAnswered == ASSUME IInv, Answered, Visit PROVE Answered'
<1>1. /\ phase = "sweep" /\ phase' = "sweep" /\ pos <= QEnd /\ pos' = pos + 1
      /\ UNCHANGED <<problem, keep, full>> /\ Visited \in 1 .. m
  BY VisitIs
<1>2. UNCHANGED <<prob, z, keep>> /\ m' = m
  BY <1>1 DEF problem, m
<1>3. \A b, j : Optimal(b, j)' = Optimal(b, j)
  BY <1>2, StillOptimal
<1>4. ASSUME full', delta' = 0, NEW a \in 1 .. m, a < pos' PROVE Optimal(beta, keep[a])'
  <2>1. Visited = pos /\ pos \in Nat
    BY <1>1, <1>4, SweepIs DEF Visited
  <2>2. CASE UNCHANGED <<numbers, delta>> /\ (v[Visited] > 0 => Target(Visited) = beta[Swept(Visited)])
    <3>1. UNCHANGED <<beta, delta>>
      BY <2>2 DEF numbers
    <3>2. Optimal(beta, keep[a])
      <4>1. CASE a = pos
        BY <1>1, <2>1, <2>2, <4>1, FixedIsOptimal
      <4>2. CASE a < pos
        BY <1>1, <1>4, <3>1, <4>2 DEF Answered
      <4> QED BY <1>1, <1>4, <2>1, <4>1, <4>2
    <3> QED BY <1>2, <1>3, <3>1, <3>2
  <2>3. CASE /\ v[Visited] > 0 /\ Target(Visited) # beta[Swept(Visited)]
             /\ Move(Visited, Target(Visited) - beta[Swept(Visited)])
    <3> DEFINE d == Target(Visited) - beta[Swept(Visited)]
    <3>1. d \in Int /\ d # 0
      <4>1. /\ Target(Visited) \in Int /\ beta[keep[Visited]] \in Int
            /\ Swept(Visited) = keep[Visited]
        BY <1>1, <2>3, TargetIs, SweepIs, KeptIs
      <4> QED BY <2>3, <4>1
    <3>2. Move(Visited, d)
      BY <2>3
    <3> HIDE DEF d
    <3>3. d = 0
      BY <1>1, <1>4, <3>1, <3>2, MoveHolds
    <3> QED BY <3>1, <3>3
  <2> QED BY <2>2, <2>3, VisitIs
<1> QED BY <1>1, <1>2, <1>4 DEF Answered, Converged

LEMMA EndSweepAnswered == ASSUME IInv, Answered, Tol = 1, EndSweep PROVE Answered'
<1>1. /\ phase = "sweep" /\ pos > QEnd /\ UNCHANGED <<problem, keep, numbers>>
      /\ phase' \in {"sweep", "swept"}
      /\ met' => delta < Tol /\ full
      /\ phase' = "sweep" => pos' = 1
  BY EndSweepIs
<1>2. UNCHANGED <<prob, z, keep, beta>> /\ m' = m
  BY <1>1 DEF problem, numbers, m
<1>3. \A b, j : Optimal(b, j)' = Optimal(b, j)
  BY <1>2, StillOptimal
<1>4. ASSUME met', NEW a \in 1 .. m PROVE Optimal(beta, keep[a])'
  <2>1. full /\ delta = 0
    BY <1>1, <1>4 DEF IInv, Shape
  <2>2. a < pos
    BY <1>1, <2>1, SweepIs DEF QEnd
  <2>3. Optimal(beta, keep[a])
    BY <1>1, <2>1, <2>2 DEF Answered
  <2> QED BY <1>2, <1>3, <2>3
<1>5. \A a \in 1 .. m : ~ (a < 1)
  BY <1>1, SweepIs
<1> QED BY <1>1, <1>2, <1>4, <1>5 DEF Answered, Converged

LEMMA RecheckAnswered == ASSUME IInv, Answered, Recheck PROVE Answered'
<1> DEFINE kept == Range(keep)
           back == {j \in Cols \ kept : Abs(Gradient(beta, j)) > prob.kink[j]}
<1>1. /\ phase = "swept" /\ UNCHANGED <<problem, numbers, sweeps>>
      /\ IF back = {} THEN phase' = "checked" /\ UNCHANGED keep
         ELSE phase' = "call" /\ keep' = Ascending(kept \union back)
  BY DEF Recheck
<1>2. UNCHANGED <<prob, z, cur, beta, met>>
  BY <1>1 DEF problem, numbers, sweeps
<1>3. /\ Posed /\ Kept /\ Response(z) /\ Coefficients(beta)
      /\ \A j \in Cols : cur[j] # 0 => j \in kept
      /\ \A j \in Cols : beta[j] # cur[j] => j \in kept
  BY <1>1 DEF IInv, Shape, Asked, Called, Solved
<1>4. CASE phase' = "call"
  BY <1>4 DEF Answered, Converged
<1>5. CASE phase' = "checked" /\ back = {}
  <2>1. ASSUME met, NEW j \in Cols PROVE Optimal(beta, j)
    <3>1. CASE j \in kept
      <4>1. PICK a \in 1 .. m : keep[a] = j
        BY <1>3, <3>1, KeptIs
      <4> QED BY <1>1, <2>1, <4>1 DEF Answered
    <3>2. CASE j \notin kept
      <4>1. beta[j] = 0
        BY <1>3, <3>2
      <4>2. ~ (Abs(Gradient(beta, j)) > prob.kink[j])
        BY <1>5, <3>2
      <4> QED BY <1>3, <4>1, <4>2, ZeroIsOptimal
    <3> QED BY <3>1, <3>2
  <2>2. /\ \A b, j : Optimal(b, j)' = Optimal(b, j)
        /\ Cols' = Cols
    BY <1>2, StillOptimal
  <2> QED BY <1>2, <1>5, <2>1, <2>2 DEF Answered, Converged
<1> QED BY <1>1, <1>4, <1>5

LEMMA StepAnswered == ASSUME IInv, Answered, Step PROVE Answered'
<1>1. /\ phase = "checked" /\ UNCHANGED <<prob, z, met>> /\ phase' \in {"read", "over"}
      /\ Whole => cur' = beta
  BY StepIs DEF sweeps
<1>2. /\ \A b, j : Optimal(b, j)' = Optimal(b, j)
      /\ Whole' = Whole /\ Cols' = Cols
  BY <1>1, StillOptimal
<1>3. met /\ Whole => \A j \in Cols : Optimal(cur, j)'
  <2> SUFFICES ASSUME met, Whole, NEW j \in Cols PROVE Optimal(cur, j)'
    OBVIOUS
  <2>1. Optimal(beta, j)
    BY <1>1 DEF Answered
  <2>2. cur' = beta
    BY <1>1
  <2> QED BY <1>2, <2>1, <2>2
<1> QED BY <1>1, <1>2, <1>3 DEF Answered, Converged

LEMMA NextAnswered == ASSUME Tol = 1 PROVE IInv /\ Answered /\ [Next]_vars => Answered'
<1> SUFFICES ASSUME IInv, Answered, [Next]_vars PROVE Answered'
  OBVIOUS
<1>1. CASE Pose
  <2>1. phase' = "read" /\ trip' = 0
    BY <1>1 DEF Pose
  <2> QED BY <2>1 DEF Answered, Converged
<1>2. CASE Budget
  <2>1. phase' = "over" /\ verdict' = "budget"
    BY <1>2 DEF Budget, Leave
  <2> QED BY <2>1 DEF Answered, Converged
<1>3. CASE Read
  BY <1>3, ReadAnswered
<1>4. CASE Start
  <2>1. phase' = "sweep" /\ pos' = 1 /\ UNCHANGED keep /\ phase = "call"
    BY <1>4 DEF Start
  <2>2. \A a \in 1 .. m' : ~ (a < pos')
    BY <2>1
  <2> QED BY <2>1, <2>2 DEF Answered, Converged
<1>5. CASE Visit
  BY <1>5, VisitAnswered
<1>6. CASE EndSweep
  BY <1>6, EndSweepAnswered
<1>7. CASE Recheck
  BY <1>7, RecheckAnswered
<1>8. CASE Step
  BY <1>8, StepAnswered
<1>9. CASE Stuck
  <2>1. phase' = "over" /\ verdict' = "stuck"
    BY <1>9 DEF Stuck, Leave
  <2> QED BY <2>1 DEF Answered, Converged
<1>10. CASE Return
  <2>1. phase' = "idle"
    BY <1>10 DEF Return
  <2> QED BY <2>1 DEF Answered, Converged
<1>11. CASE UNCHANGED vars
  <2>1. UNCHANGED <<phase, prob, trip, cur, z, keep, beta, full, pos, delta, met, verdict>>
    BY <1>11 DEF vars, problem, numbers, sweeps
  <2>2. /\ \A b, j : Optimal(b, j)' = Optimal(b, j)
        /\ Whole' = Whole /\ Cols' = Cols
    BY <2>1, StillOptimal
  <2> QED BY <2>1, <2>2 DEF Answered, Converged, m
<1> QED BY <1>1, <1>2, <1>3, <1>4, <1>5, <1>6, <1>7, <1>8, <1>9, <1>10, <1>11 DEF Next, Kernel

(* Where the tolerance is the unit of the rounding, a kernel that left by  *)
(* it left every kept column at its optimum, the check extends that to     *)
(* every column of the block, and a fit that then converged by whole steps *)
(* solves the last working problem in every column, whatever the strong    *)
(* rule left out (coord_descent.cpp, R/coord.R).                           *)
THEOREM AnswerHolds ==
  ASSUME Tol = 1
  PROVE  Spec => []AnswerIsOfEveryColumn
<1>1. Init => IInv /\ Answered
  BY InitHolds, InitAnswered
<1>2. IInv /\ Answered /\ [Next]_vars => (IInv /\ Answered)'
  BY NextHolds, NextAnswered
<1>3. IInv /\ Answered => AnswerIsOfEveryColumn
  <2> SUFFICES ASSUME IInv, Answered, met PROVE
        /\ phase = "swept" => \A j \in Range(keep) : Optimal(beta, j)
        /\ phase = "checked" => \A j \in Cols : Optimal(beta, j)
        /\ Converged => \A j \in Cols : Optimal(cur, j)
    BY DEF AnswerIsOfEveryColumn
  <2>1. ASSUME phase = "swept", NEW j \in Range(keep) PROVE Optimal(beta, j)
    <3>1. Posed /\ Kept
      BY <2>1 DEF IInv, Asked, Called
    <3>2. PICK a \in 1 .. m : keep[a] = j
      BY <2>1, <3>1, KeptIs
    <3> QED BY <2>1, <3>2 DEF Answered
  <2> QED BY <2>1 DEF Answered
<1> QED BY <1>1, <1>2, <1>3, PTL DEF Spec

-----------------------------------------------------------------------------
(* What is left of a fit in progress, the weightiest first: the trips; the *)
(* stage of this one; the columns the rule left out; whether the kernel is *)
(* yet to start or to end; its sweeps; the places of this sweep.           *)
StageLeft ==
  CASE phase \in {"call", "sweep", "swept"} -> 3
    [] phase = "checked" -> 2
    [] phase = "read" -> 1
    [] OTHER -> 0
OutLeft == IF StageLeft = 3 THEN Cardinality(Cols \ Range(keep)) ELSE 0
KernelLeft == CASE phase = "call" -> 2 [] phase = "sweep" -> 1 [] OTHER -> 0
SweepsLeft == IF phase = "sweep" THEN MaxSweeps - sweep ELSE 0
PlacesLeft == IF phase = "sweep" THEN QEnd + 1 - pos ELSE 0
FitLeft == <<MaxTrips - trip, StageLeft, OutLeft, KernelLeft, SweepsLeft, PlacesLeft>>

(* The lexicographic order of six numbers, which has no endless descent.   *)
Below(a, b) == \E i \in 1 .. 6 : a[i] < b[i] /\ \A h \in 1 .. i - 1 : a[h] = b[h]

LEMMA BelowIs ==
  ASSUME NEW a1, NEW a2, NEW a3, NEW a4, NEW a5, NEW a6,
         NEW b1, NEW b2, NEW b3, NEW b4, NEW b5, NEW b6,
         \/ a1 < b1
         \/ a1 = b1 /\ a2 < b2
         \/ a1 = b1 /\ a2 = b2 /\ a3 < b3
         \/ a1 = b1 /\ a2 = b2 /\ a3 = b3 /\ a4 < b4
         \/ a1 = b1 /\ a2 = b2 /\ a3 = b3 /\ a4 = b4 /\ a5 < b5
         \/ a1 = b1 /\ a2 = b2 /\ a3 = b3 /\ a4 = b4 /\ a5 = b5 /\ a6 < b6
  PROVE  Below(<<a1, a2, a3, a4, a5, a6>>, <<b1, b2, b3, b4, b5, b6>>)
<1> DEFINE a == <<a1, a2, a3, a4, a5, a6>>
           b == <<b1, b2, b3, b4, b5, b6>>
<1>1. /\ a[1] = a1 /\ a[2] = a2 /\ a[3] = a3 /\ a[4] = a4 /\ a[5] = a5 /\ a[6] = a6
      /\ b[1] = b1 /\ b[2] = b2 /\ b[3] = b3 /\ b[4] = b4 /\ b[5] = b5 /\ b[6] = b6
  OBVIOUS
<1> HIDE DEF a, b
<1>2. \A i \in 1 .. 6 :
        i = 1 \/ i = 2 \/ i = 3 \/ i = 4 \/ i = 5 \/ i = 6
  OBVIOUS
<1>3. \A i, h \in 1 .. 6 : h \in 1 .. i - 1 => h < i
  OBVIOUS
<1>4. CASE a1 < b1
  <2>1. 1 \in 1 .. 6 /\ 1 .. 1 - 1 = {}
    OBVIOUS
  <2> QED BY <1>1, <1>4, <2>1 DEF Below
<1>5. CASE a1 = b1 /\ a2 < b2
  <2>1. 2 \in 1 .. 6 /\ 1 .. 2 - 1 = {1}
    OBVIOUS
  <2> QED BY <1>1, <1>5, <2>1 DEF Below
<1>6. CASE a1 = b1 /\ a2 = b2 /\ a3 < b3
  <2>1. 3 \in 1 .. 6 /\ 1 .. 3 - 1 = {1, 2}
    OBVIOUS
  <2> QED BY <1>1, <1>6, <2>1 DEF Below
<1>7. CASE a1 = b1 /\ a2 = b2 /\ a3 = b3 /\ a4 < b4
  <2>1. 4 \in 1 .. 6 /\ 1 .. 4 - 1 = {1, 2, 3}
    OBVIOUS
  <2> QED BY <1>1, <1>7, <2>1 DEF Below
<1>8. CASE a1 = b1 /\ a2 = b2 /\ a3 = b3 /\ a4 = b4 /\ a5 < b5
  <2>1. 5 \in 1 .. 6 /\ 1 .. 5 - 1 = {1, 2, 3, 4}
    OBVIOUS
  <2> QED BY <1>1, <1>8, <2>1 DEF Below
<1>9. CASE a1 = b1 /\ a2 = b2 /\ a3 = b3 /\ a4 = b4 /\ a5 = b5 /\ a6 < b6
  <2>1. 6 \in 1 .. 6 /\ 1 .. 6 - 1 = {1, 2, 3, 4, 5}
    OBVIOUS
  <2> QED BY <1>1, <1>9, <2>1 DEF Below
<1>10. Below(a, b)
  BY <1>4, <1>5, <1>6, <1>7, <1>8, <1>9 DEF a, b
<1> QED BY <1>10 DEF a, b

(* The columns left out, while the kernel is called.                       *)
LEMMA OutIs ==
  ASSUME IInv, phase # "idle"
  PROVE  IsFiniteSet(Cols) /\ Cardinality(Cols \ Range(keep)) \in Nat
<1>1. P \in Nat
  BY BlockShape DEF IInv, Asked
<1>2. IsFiniteSet(Cols)
  BY <1>1, FS_Interval DEF Cols
<1>3. Cols \ Range(keep) \in SUBSET Cols
  OBVIOUS
<1>4. IsFiniteSet(Cols \ Range(keep))
  BY <1>2, <1>3, FS_Subset
<1> QED BY <1>2, <1>4, FS_CardinalityType

LEMMA FitLeftIs == IInv => FitLeft \in Nat \X Nat \X Nat \X Nat \X Nat \X Nat
<1> SUFFICES ASSUME IInv PROVE FitLeft \in Nat \X Nat \X Nat \X Nat \X Nat \X Nat
  OBVIOUS
<1>1. /\ trip \in 0 .. MaxTrips /\ sweep \in 0 .. MaxSweeps
      /\ MaxTrips \in Nat /\ MaxSweeps \in Nat
  BY CoordAssumption DEF IInv, Shape
<1>2. MaxTrips - trip \in Nat /\ MaxSweeps - sweep \in Nat
  BY <1>1
<1>3. StageLeft \in Nat /\ KernelLeft \in Nat
  BY DEF StageLeft, KernelLeft
<1>4. OutLeft \in Nat
  <2>1. StageLeft = 3 => phase # "idle"
    BY DEF StageLeft
  <2> QED BY <2>1, OutIs DEF OutLeft
<1>5. PlacesLeft \in Nat
  <2>1. CASE phase = "sweep"
    <3>1. pos \in 1 .. QEnd + 1 /\ QEnd \in Nat
      BY <2>1, SweepIs
    <3> QED BY <2>1, <3>1 DEF PlacesLeft
  <2> QED BY <2>1 DEF PlacesLeft
<1> QED BY <1>2, <1>3, <1>4, <1>5 DEF FitLeft, SweepsLeft

(* A recheck that brings columns back leaves fewer out.                    *)
LEMMA FewerOut ==
  ASSUME IInv, Recheck, phase' = "call"
  PROVE  Cardinality(Cols \ Range(keep))' < Cardinality(Cols \ Range(keep))
<1> DEFINE kept == Range(keep)
           back == {j \in Cols \ kept : Abs(Gradient(beta, j)) > prob.kink[j]}
<1>1. phase = "swept" /\ prob' = prob /\ back # {} /\ keep' = Ascending(kept \union back)
  BY DEF Recheck, problem
<1>2. Posed /\ Kept /\ P \in Nat /\ kept \in SUBSET Cols /\ Cols' = Cols
  BY <1>1, KeptIs, BlockShape, StillBlock DEF IInv, Asked, Called
<1>3. Range(keep') = kept \union back
  <2> DEFINE S == kept \union back
  <2>1. S \in SUBSET (1 .. P)
    BY <1>2 DEF Cols
  <2> HIDE DEF S
  <2>2. Range(Ascending(S)) = S
    BY <1>2, <2>1, AscendingEnumerates
  <2> QED BY <1>1, <2>2 DEF S
<1> DEFINE A == Cols \ kept
           B == Cols \ Range(keep')
<1>4. B \in SUBSET A /\ A # B
  BY <1>1, <1>3
<1>5. IsFiniteSet(A) /\ Cardinality(A) \in Nat
  <2>1. IsFiniteSet(Cols) /\ A \in SUBSET Cols
    BY <1>1, OutIs
  <2>2. IsFiniteSet(A)
    BY <2>1, FS_Subset
  <2> QED BY <2>2, FS_CardinalityType
<1> HIDE DEF A, B
<1>6. Cardinality(B) <= Cardinality(A) /\ Cardinality(A) # Cardinality(B) /\ IsFiniteSet(B)
  BY <1>4, <1>5, FS_Subset
<1>7. Cardinality(B) \in Nat
  BY <1>6, FS_CardinalityType
<1>8. Cardinality(B) < Cardinality(A)
  BY <1>5, <1>6, <1>7
<1> QED BY <1>2, <1>8 DEF A, B

LEMMA FitLeftFalls ==
  ASSUME IInv, Next, phase # "idle"
  PROVE  phase' = "idle" \/ Below(FitLeft', FitLeft)
<1>1. trip \in Nat /\ MaxTrips \in Nat
  BY CoordAssumption DEF IInv, Shape
<1>2. CASE Budget \/ Stuck
  <2>1. trip' = trip /\ phase \in {"read", "checked"} /\ phase' = "over"
    BY <1>2 DEF Budget, Stuck, Leave, problem
  <2>2. StageLeft' < StageLeft
    BY <2>1 DEF StageLeft
  <2> QED BY <2>1, <2>2, BelowIs DEF FitLeft
<1>3. CASE Read
  <2>1. MaxTrips - trip' < MaxTrips - trip
    BY <1>1, <1>3, ReadReads
  <2> QED BY <2>1, BelowIs DEF FitLeft
<1>4. CASE Start
  <2>1. trip' = trip /\ prob' = prob /\ keep' = keep /\ phase = "call" /\ phase' = "sweep"
    BY <1>4 DEF Start, problem
  <2>2. Cols' = Cols /\ StageLeft = 3 /\ StageLeft' = 3 /\ KernelLeft = 2 /\ KernelLeft' = 1
    BY <2>1, StillBlock DEF StageLeft, KernelLeft
  <2>3. OutLeft' = OutLeft /\ KernelLeft' < KernelLeft
    BY <2>1, <2>2 DEF OutLeft
  <2> QED BY <2>1, <2>2, <2>3, BelowIs DEF FitLeft
<1>5. CASE Visit
  <2>1. /\ trip' = trip /\ prob' = prob /\ keep' = keep /\ phase = "sweep" /\ phase' = "sweep"
        /\ sweep' = sweep /\ full' = full /\ active' = active /\ pos' = pos + 1
    BY <1>5, VisitIs DEF problem
  <2>2. pos \in Int /\ QEnd \in Int
    BY <2>1, SweepIs
  <2>3. Cols' = Cols /\ QEnd' = QEnd
    BY <2>1, StillBlock, StillTable DEF QEnd
  <2>4. StageLeft' = StageLeft /\ KernelLeft' = KernelLeft
    BY <2>1 DEF StageLeft, KernelLeft
  <2>5. OutLeft' = OutLeft /\ SweepsLeft' = SweepsLeft
    BY <2>1, <2>3, <2>4 DEF OutLeft, SweepsLeft
  <2>6. PlacesLeft' < PlacesLeft
    BY <2>1, <2>2, <2>3 DEF PlacesLeft
  <2> QED BY <2>1, <2>4, <2>5, <2>6, BelowIs DEF FitLeft
<1>6. CASE EndSweep
  <2>1. trip' = trip /\ prob' = prob /\ keep' = keep /\ phase = "sweep" /\ phase' \in {"sweep", "swept"}
    BY <1>6, EndSweepIs DEF problem
  <2>2. Cols' = Cols /\ StageLeft' = StageLeft
    BY <2>1, StillBlock DEF StageLeft
  <2>3. OutLeft' = OutLeft
    BY <2>1, <2>2 DEF OutLeft
  <2>4. CASE phase' = "swept"
    <3>1. KernelLeft' < KernelLeft
      BY <2>1, <2>4 DEF KernelLeft
    <3> QED BY <2>1, <2>2, <2>3, <3>1, BelowIs DEF FitLeft
  <2>5. CASE phase' = "sweep"
    <3>1. KernelLeft' = KernelLeft
      BY <2>1, <2>5 DEF KernelLeft
    <3>2. sweep' = sweep + 1
      BY <1>6, <2>5, EndSweepIs
    <3>3. sweep \in Int /\ MaxSweeps \in Int
      BY CoordAssumption DEF IInv, Shape
    <3>4. SweepsLeft' < SweepsLeft
      BY <2>1, <2>5, <3>2, <3>3 DEF SweepsLeft
    <3> QED BY <2>1, <2>2, <2>3, <3>1, <3>4, BelowIs DEF FitLeft
  <2> QED BY <2>1, <2>4, <2>5
<1>7. CASE Recheck
  <2>1. trip' = trip /\ phase = "swept" /\ phase' \in {"call", "checked"}
    BY <1>7 DEF Recheck, problem
  <2>2. CASE phase' = "checked"
    <3>1. StageLeft' < StageLeft
      BY <2>1, <2>2 DEF StageLeft
    <3> QED BY <2>1, <3>1, BelowIs DEF FitLeft
  <2>3. CASE phase' = "call"
    <3>1. StageLeft = 3 /\ StageLeft' = 3
      BY <2>1, <2>3 DEF StageLeft
    <3>2. OutLeft' < OutLeft
      BY <1>7, <2>3, <3>1, FewerOut DEF OutLeft
    <3> QED BY <2>1, <3>1, <3>2, BelowIs DEF FitLeft
  <2> QED BY <2>1, <2>2, <2>3
<1>8. CASE Step
  <2>1. trip' = trip /\ phase = "checked" /\ phase' \in {"read", "over"}
    BY <1>8, StepIs
  <2>2. StageLeft' < StageLeft
    BY <2>1 DEF StageLeft
  <2> QED BY <2>1, <2>2, BelowIs DEF FitLeft
<1>9. CASE Pose \/ Return
  BY <1>9 DEF Pose, Return
<1> QED BY <1>2, <1>3, <1>4, <1>5, <1>6, <1>7, <1>8, <1>9 DEF Next, Kernel

(* Every step of a fit leaves less of it, in the order of its trips, their *)
(* stages, the columns left out, the kernel's sweeps and the places of a   *)
(* sweep, or ends it: a kernel called again has more columns, and nothing  *)
(* else goes back (coord_descent.cpp, R/coord.R).                          *)
THEOREM FitsRunOut ==
  Spec => /\ [](FitLeft \in Nat \X Nat \X Nat \X Nat \X Nat \X Nat)
          /\ [][phase # "idle" => phase' = "idle" \/ Below(FitLeft', FitLeft)]_vars
<1>1. IInv /\ Next => (phase # "idle" => phase' = "idle" \/ Below(FitLeft', FitLeft))
  BY FitLeftFalls
<1> QED BY Invariant, FitLeftIs, <1>1, PTL DEF Spec
=============================================================================
