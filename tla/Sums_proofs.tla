---------------------------- MODULE Sums_proofs ----------------------------
(***************************************************************************)
(* What the sums of the compiled loops are, for every number of terms: a   *)
(* total is linear, exchanges with another, and is the same modulo p       *)
(* whether its terms are reduced before or after.  No theorem of the       *)
(* library says how a recursive function ends, so each induction here goes *)
(* by the least number that a set leaves out.                              *)
(***************************************************************************)
EXTENDS Sums, FiniteSetTheorems, WellFoundedInduction, TLAPS

(* A set of numbers that holds 0 and the successor of each of its elements *)
(* holds them all: the least interval 0 .. k that leaves it does not exist.*)
LEMMA NatSet ==
  ASSUME NEW S, 0 \in S, \A n \in Nat : n \in S => n + 1 \in S
  PROVE  Nat \subseteq S
<1> SUFFICES ASSUME Nat \ S # {} PROVE FALSE
  OBVIOUS
<1> DEFINE R == StrictSubsetOrdering(Nat)
           T == {0 .. k : k \in Nat \ S}
<1>1. T \subseteq FiniteSubsetsOf(Nat) /\ T # {}
  <2>1. \A k \in Nat : IsFiniteSet(0 .. k)
    BY FS_Interval
  <2> QED BY <2>1 DEF FiniteSubsetsOf
<1>2. IsWellFoundedOn(R, FiniteSubsetsOf(Nat))
  BY FS_StrictSubsetOrderingWellFounded
<1>3. PICK t \in T : \A y \in T : ~ (<<y, t>> \in R)
  <2> HIDE DEF R, T
  <2> QED BY <1>1, <1>2, WFMin
<1>4. PICK n \in Nat \ S : t = 0 .. n
  OBVIOUS
<1>5. n # 0 /\ n - 1 \in Nat
  OBVIOUS
<1>6. n - 1 \in Nat \ S
  BY <1>5
<1>7. 0 .. n - 1 \in T /\ <<0 .. n - 1, 0 .. n>> \in R
  <2>1. 0 .. n - 1 \in SUBSET Nat /\ 0 .. n \in SUBSET Nat
    BY <1>5
  <2>2. 0 .. n - 1 \subseteq 0 .. n /\ n \in 0 .. n /\ n \notin 0 .. n - 1
    BY <1>5
  <2> QED BY <1>6, <2>1, <2>2 DEF StrictSubsetOrdering
<1> QED BY <1>3, <1>4, <1>7

-----------------------------------------------------------------------------
(* The running totals of n terms.                                          *)
Runs(n, F, t) == t = [k \in 0 .. n |-> IF k = 0 THEN 0 ELSE t[k - 1] + F[k]]

(* They exist, are integers, and are the same whatever follows them.       *)
LEMMA RunsExist ==
  ASSUME NEW F
  PROVE  \A n \in Nat : (\A i \in 1 .. n : F[i] \in Int)
                          => \E t \in [0 .. n -> Int] : Runs(n, F, t)
<1> DEFINE S == {n \in Nat : (\A i \in 1 .. n : F[i] \in Int)
                               => \E t \in [0 .. n -> Int] : Runs(n, F, t)}
<1>1. 0 \in S
  <2> DEFINE t == [k \in 0 .. 0 |-> 0]
  <2>1. t \in [0 .. 0 -> Int] /\ Runs(0, F, t)
    BY DEF Runs
  <2> QED BY <2>1
<1>2. ASSUME NEW n \in Nat, n \in S PROVE n + 1 \in S
  <2> SUFFICES ASSUME \A i \in 1 .. n + 1 : F[i] \in Int
               PROVE  \E t \in [0 .. n + 1 -> Int] : Runs(n + 1, F, t)
    OBVIOUS
  <2>1. \A i \in 1 .. n : F[i] \in Int
    OBVIOUS
  <2>2. PICK s \in [0 .. n -> Int] : Runs(n, F, s)
    BY <1>2, <2>1
  <2> DEFINE t == [k \in 0 .. n + 1 |-> IF k = n + 1 THEN s[n] + F[n + 1] ELSE s[k]]
  <2>3. t \in [0 .. n + 1 -> Int]
    OBVIOUS
  <2>4. \A k \in 0 .. n : s[k] = IF k = 0 THEN 0 ELSE s[k - 1] + F[k]
    BY <2>2 DEF Runs
  <2>5. \A k \in 0 .. n + 1 : t[k] = IF k = 0 THEN 0 ELSE t[k - 1] + F[k]
    <3> SUFFICES ASSUME NEW k \in 0 .. n + 1
                 PROVE  t[k] = IF k = 0 THEN 0 ELSE t[k - 1] + F[k]
      OBVIOUS
    <3>1. CASE k = n + 1
      BY <3>1
    <3>2. CASE k \in 0 .. n
      BY <3>2, <2>4
    <3> QED BY <3>1, <3>2
  <2>6. t = [k \in 0 .. n + 1 |-> IF k = 0 THEN 0 ELSE t[k - 1] + F[k]]
    BY <2>5
  <2> QED BY <2>3, <2>6 DEF Runs
<1> HIDE DEF S
<1>3. Nat \subseteq S
  BY <1>1, <1>2, NatSet
<1> QED BY <1>3 DEF S

LEMMA RunsAgree ==
  ASSUME NEW F, NEW G, NEW n \in Nat, NEW t, NEW p \in Nat, NEW u,
         n <= p, \A i \in 1 .. n : F[i] = G[i],
         Runs(n, F, t), Runs(p, G, u)
  PROVE  \A k \in 0 .. n : t[k] = u[k]
<1> DEFINE S == {k \in Nat : k <= n => t[k] = u[k]}
<1>0. /\ \A k \in 0 .. n : t[k] = IF k = 0 THEN 0 ELSE t[k - 1] + F[k]
      /\ \A k \in 0 .. p : u[k] = IF k = 0 THEN 0 ELSE u[k - 1] + G[k]
  BY DEF Runs
<1>1. 0 \in S
  BY <1>0
<1>2. ASSUME NEW k \in Nat, k \in S PROVE k + 1 \in S
  <2> SUFFICES ASSUME k + 1 <= n PROVE t[k + 1] = u[k + 1]
    OBVIOUS
  <2>1. k <= n /\ k + 1 \in 1 .. n /\ k + 1 \in 0 .. p /\ k + 1 # 0 /\ k + 1 - 1 = k
    OBVIOUS
  <2> QED BY <2>1, <1>0, <1>2
<1> HIDE DEF S
<1>3. Nat \subseteq S
  BY <1>1, <1>2, NatSet
<1> QED BY <1>3 DEF S

(* A total is the last of its running totals.                              *)
LEMMA TotalRuns ==
  ASSUME NEW n \in Nat, NEW F, \A i \in 1 .. n : F[i] \in Int
  PROVE  \E t \in [0 .. n -> Int] : Runs(n, F, t) /\ Total(n, F) = t[n]
<1> DEFINE u == CHOOSE t : Runs(n, F, t)
<1>1. PICK t \in [0 .. n -> Int] : Runs(n, F, t)
  BY RunsExist
<1>2. Runs(n, F, u)
  BY <1>1
<1>3. Total(n, F) = u[n]
  BY DEF Total, Runs
<1> HIDE DEF u
<1>4. u[n] = t[n]
  BY <1>1, <1>2, RunsAgree
<1> QED BY <1>1, <1>3, <1>4

LEMMA TotalOfNone == ASSUME NEW F PROVE Total(0, F) = 0
<1>1. PICK t \in [0 .. 0 -> Int] : Runs(0, F, t) /\ Total(0, F) = t[0]
  <2>1. \A i \in 1 .. 0 : F[i] \in Int
    OBVIOUS
  <2> QED BY <2>1, TotalRuns
<1> QED BY <1>1 DEF Runs

LEMMA TotalIsInt ==
  ASSUME NEW n \in Nat, NEW F, \A i \in 1 .. n : F[i] \in Int
  PROVE  Total(n, F) \in Int
BY TotalRuns

LEMMA TotalStep ==
  ASSUME NEW n \in Nat, NEW F, \A i \in 1 .. n + 1 : F[i] \in Int
  PROVE  Total(n + 1, F) = Total(n, F) + F[n + 1]
<1>1. PICK t \in [0 .. n + 1 -> Int] : Runs(n + 1, F, t) /\ Total(n + 1, F) = t[n + 1]
  <2>1. n + 1 \in Nat
    OBVIOUS
  <2> QED BY <2>1, TotalRuns
<1>2. PICK s \in [0 .. n -> Int] : Runs(n, F, s) /\ Total(n, F) = s[n]
  <2>1. \A i \in 1 .. n : F[i] \in Int
    OBVIOUS
  <2> QED BY <2>1, TotalRuns
<1>3. s[n] = t[n]
  <2>1. \A k \in 0 .. n : s[k] = t[k]
    BY <1>1, <1>2, RunsAgree
  <2> QED BY <2>1
<1>4. t[n + 1] = t[n] + F[n + 1]
  BY <1>1 DEF Runs
<1> QED BY <1>1, <1>2, <1>3, <1>4

(* Totals are linear.                                                      *)
LEMMA TotalLinear ==
  ASSUME NEW n \in Nat, NEW a \in Int, NEW F, NEW G, NEW H,
         \A i \in 1 .. n : F[i] \in Int /\ G[i] \in Int /\ H[i] = a * F[i] + G[i]
  PROVE  Total(n, H) = a * Total(n, F) + Total(n, G)
<1> DEFINE S == {k \in Nat : k <= n => Total(k, H) = a * Total(k, F) + Total(k, G)}
<1>1. 0 \in S
  BY TotalOfNone
<1>2. ASSUME NEW k \in Nat, k \in S PROVE k + 1 \in S
  <2> SUFFICES ASSUME k + 1 <= n
               PROVE  Total(k + 1, H) = a * Total(k + 1, F) + Total(k + 1, G)
    OBVIOUS
  <2>1. \A i \in 1 .. k + 1 : F[i] \in Int /\ G[i] \in Int /\ H[i] \in Int
    <3>1. \A i \in 1 .. k + 1 : i \in 1 .. n
      OBVIOUS
    <3>2. \A u, y \in Int : a * u + y \in Int
      OBVIOUS
    <3> QED BY <3>1, <3>2
  <2>2. \A i \in 1 .. k : F[i] \in Int /\ G[i] \in Int
    BY <2>1
  <2>3. /\ Total(k + 1, F) = Total(k, F) + F[k + 1]
        /\ Total(k + 1, G) = Total(k, G) + G[k + 1]
        /\ Total(k + 1, H) = Total(k, H) + H[k + 1]
    BY <2>1, TotalStep
  <2>4. Total(k, F) \in Int /\ Total(k, G) \in Int
    BY <2>2, TotalIsInt
  <2>5. Total(k, H) = a * Total(k, F) + Total(k, G)
    BY <1>2
  <2>6. k + 1 \in 1 .. n
    OBVIOUS
  <2>7. F[k + 1] \in Int /\ G[k + 1] \in Int /\ H[k + 1] = a * F[k + 1] + G[k + 1]
    BY <2>6
  <2>8. \A t, u, f, h \in Int : (a * t + u) + (a * f + h) = a * (t + f) + (u + h)
    OBVIOUS
  <2> QED BY <2>3, <2>4, <2>5, <2>7, <2>8
<1> HIDE DEF S
<1>3. Nat \subseteq S
  BY <1>1, <1>2, NatSet
<1> QED BY <1>3 DEF S

LEMMA TotalOfZeros ==
  ASSUME NEW n \in Nat, NEW F, \A i \in 1 .. n : F[i] = 0
  PROVE  Total(n, F) = 0
<1>1. \A i \in 1 .. n : F[i] \in Int /\ F[i] = 1 * F[i] + F[i]
  OBVIOUS
<1>2. Total(n, F) = 1 * Total(n, F) + Total(n, F)
  BY <1>1, TotalLinear
<1>3. Total(n, F) \in Int
  BY <1>1, TotalIsInt
<1>4. \A t \in Int : t = 1 * t + t => t = 0
  OBVIOUS
<1> QED BY <1>2, <1>3, <1>4

LEMMA TotalScale ==
  ASSUME NEW n \in Nat, NEW a \in Int, NEW F, NEW H,
         \A i \in 1 .. n : F[i] \in Int /\ H[i] = a * F[i]
  PROVE  Total(n, H) = a * Total(n, F)
<1> DEFINE Z == [i \in 1 .. n |-> 0]
<1>1. \A i \in 1 .. n : Z[i] = 0 /\ Z[i] \in Int
  OBVIOUS
<1>2. Total(n, Z) = 0
  BY <1>1, TotalOfZeros
<1>3. \A i \in 1 .. n : F[i] \in Int /\ Z[i] \in Int /\ H[i] = a * F[i] + Z[i]
  <2>1. \A f \in Int : a * f = a * f + 0
    OBVIOUS
  <2> QED BY <1>1, <2>1
<1> HIDE DEF Z
<1>4. Total(n, H) = a * Total(n, F) + Total(n, Z)
  BY <1>3, TotalLinear
<1>5. Total(n, F) \in Int
  BY TotalIsInt
<1>6. \A t \in Int : a * t + 0 = a * t
  OBVIOUS
<1> QED BY <1>2, <1>4, <1>5, <1>6

LEMMA TotalSame ==
  ASSUME NEW n \in Nat, NEW F, NEW G, \A i \in 1 .. n : F[i] \in Int /\ G[i] = F[i]
  PROVE  Total(n, G) = Total(n, F)
<1>1. \A i \in 1 .. n : F[i] \in Int /\ G[i] = 1 * F[i]
  OBVIOUS
<1>2. Total(n, G) = 1 * Total(n, F)
  BY <1>1, TotalScale
<1>3. Total(n, F) \in Int
  BY TotalIsInt
<1> QED BY <1>2, <1>3

LEMMA TotalSum ==
  ASSUME NEW n \in Nat, NEW F, NEW G, NEW H,
         \A i \in 1 .. n : F[i] \in Int /\ G[i] \in Int /\ H[i] = F[i] + G[i]
  PROVE  Total(n, H) = Total(n, F) + Total(n, G)
<1>1. \A i \in 1 .. n : F[i] \in Int /\ G[i] \in Int /\ H[i] = 1 * F[i] + G[i]
  OBVIOUS
<1>2. Total(n, H) = 1 * Total(n, F) + Total(n, G)
  BY <1>1, TotalLinear
<1>3. Total(n, F) \in Int
  BY TotalIsInt
<1> QED BY <1>2, <1>3

LEMMA TotalDifference ==
  ASSUME NEW n \in Nat, NEW F, NEW G, NEW H,
         \A i \in 1 .. n : F[i] \in Int /\ G[i] \in Int /\ H[i] = F[i] - G[i]
  PROVE  Total(n, H) = Total(n, F) - Total(n, G)
<1>1. \A i \in 1 .. n : F[i] \in Int /\ G[i] \in Int /\ H[i] = (-1) * G[i] + F[i]
  OBVIOUS
<1>2. Total(n, H) = (-1) * Total(n, G) + Total(n, F)
  <2>1. -1 \in Int
    OBVIOUS
  <2> QED BY <1>1, <2>1, TotalLinear
<1>3. Total(n, F) \in Int /\ Total(n, G) \in Int
  BY TotalIsInt
<1> QED BY <1>2, <1>3

(* One term that is not zero is the total.                                 *)
LEMMA TotalOfOne ==
  ASSUME NEW n \in Nat, NEW p \in 1 .. n, NEW F,
         F[p] \in Int, \A i \in 1 .. n : i # p => F[i] = 0
  PROVE  Total(n, F) = F[p]
<1> DEFINE S == {k \in Nat : k <= n => Total(k, F) = IF k < p THEN 0 ELSE F[p]}
<1>0. \A i \in 1 .. n : F[i] \in Int
  OBVIOUS
<1>1. 0 \in S
  BY TotalOfNone
<1>2. ASSUME NEW k \in Nat, k \in S PROVE k + 1 \in S
  <2> SUFFICES ASSUME k + 1 <= n
               PROVE  Total(k + 1, F) = IF k + 1 < p THEN 0 ELSE F[p]
    OBVIOUS
  <2>1. \A i \in 1 .. k + 1 : F[i] \in Int
    BY <1>0
  <2>2. Total(k + 1, F) = Total(k, F) + F[k + 1]
    BY <2>1, TotalStep
  <2>3. Total(k, F) = IF k < p THEN 0 ELSE F[p]
    BY <1>2
  <2> QED BY <2>2, <2>3
<1> HIDE DEF S
<1>3. Nat \subseteq S
  BY <1>1, <1>2, NatSet
<1> QED BY <1>3 DEF S

(* A table of n rows A and p columns B, with their totals.                 *)
Tabulates(n, p, A, B, R, C) ==
  /\ \A i \in 1 .. n : \A j \in 1 .. p : A[i][j] \in Int /\ B[j][i] = A[i][j]
  /\ \A i \in 1 .. n : R[i] = Total(p, A[i])
  /\ \A j \in 1 .. p : C[j] = Total(n, B[j])

(* The total of a table is that of its rows' totals and of its columns'.   *)
LEMMA TotalExchange ==
  ASSUME NEW n \in Nat, NEW p \in Nat, NEW A, NEW B, NEW R, NEW C,
         Tabulates(n, p, A, B, R, C)
  PROVE  Total(n, R) = Total(p, C)
<1> USE DEF Tabulates
<1> DEFINE D(k) == [j \in 1 .. p |-> Total(k, B[j])]
           S == {k \in Nat : k <= n => Total(k, R) = Total(p, D(k))}
<1>0. \A k \in Nat : k <= n => \A j \in 1 .. p : \A i \in 1 .. k : B[j][i] \in Int
  OBVIOUS
<1>1. \A k \in Nat : k <= n => \A j \in 1 .. p : Total(k, B[j]) \in Int
  BY <1>0, TotalIsInt
<1>2. \A i \in 1 .. n : R[i] \in Int
  BY TotalIsInt
<1>3. 0 \in S
  <2>1. \A j \in 1 .. p : D(0)[j] = 0
    BY TotalOfNone
  <2>2. Total(p, D(0)) = 0
    BY <2>1, TotalOfZeros
  <2> QED BY <2>2, TotalOfNone
<1>4. ASSUME NEW k \in Nat, k \in S PROVE k + 1 \in S
  <2> SUFFICES ASSUME k + 1 <= n PROVE Total(k + 1, R) = Total(p, D(k + 1))
    OBVIOUS
  <2>1. Total(k + 1, R) = Total(k, R) + R[k + 1]
    <3>1. \A i \in 1 .. k + 1 : R[i] \in Int
      BY <1>2
    <3> QED BY <3>1, TotalStep
  <2>2. ASSUME NEW j \in 1 .. p
        PROVE  /\ D(k)[j] \in Int /\ A[k + 1][j] \in Int
               /\ D(k + 1)[j] = D(k)[j] + A[k + 1][j]
    <3>1. \A i \in 1 .. k + 1 : B[j][i] \in Int
      BY <1>0
    <3>2. Total(k + 1, B[j]) = Total(k, B[j]) + B[j][k + 1]
      BY <3>1, TotalStep
    <3>3. k + 1 \in 1 .. n /\ k <= n
      OBVIOUS
    <3> QED BY <3>2, <3>3, <1>1
  <2>3. Total(p, D(k + 1)) = Total(p, D(k)) + Total(p, A[k + 1])
    <3> HIDE DEF D
    <3> QED BY <2>2, TotalSum
  <2>4. Total(k, R) = Total(p, D(k)) /\ R[k + 1] = Total(p, A[k + 1])
    BY <1>4
  <2> QED BY <2>1, <2>3, <2>4
<1> HIDE DEF S
<1>5. Nat \subseteq S
  BY <1>3, <1>4, NatSet
<1>6. Total(n, R) = Total(p, D(n))
  <2>1. n \in S
    BY <1>5
  <2> HIDE DEF D
  <2> QED BY <2>1 DEF S
<1>7. \A j \in 1 .. p : C[j] \in Int /\ D(n)[j] = C[j]
  BY <1>1
<1>8. Total(p, D(n)) = Total(p, C)
  <2> HIDE DEF D
  <2> QED BY <1>7, TotalSame
<1> QED BY <1>6, <1>8

-----------------------------------------------------------------------------
(* Remainders: each is the only number of 0 .. p - 1 a multiple away, so a *)
(* sum, a product or a total may take them before or after.                *)
LEMMA ModIs ==
  ASSUME NEW p \in Nat \ {0}, NEW a \in Int
  PROVE  a % p \in 0 .. p - 1 /\ a \div p \in Int /\ a = (a \div p) * p + (a % p)
OBVIOUS

LEMMA ModSame ==
  ASSUME NEW p \in Nat \ {0}, NEW a \in Int, NEW b \in Int, NEW q \in Int, a = b + q * p
  PROVE  a % p = b % p
<1> DEFINE s == a \div p
           t == b \div p
           c == a % p
           d == b % p
<1>1. /\ c \in 0 .. p - 1 /\ s \in Int /\ a = s * p + c
      /\ d \in 0 .. p - 1 /\ t \in Int /\ b = t * p + d
  BY ModIs
<1> HIDE DEF s, t, c, d
<1> DEFINE z == t + q - s
<1>2. z \in Int /\ c - d = z * p
  <2>1. s * p + c = t * p + d + q * p
    BY <1>1
  <2>2. \A x, y, u, v \in Int : x * p + u = y * p + v + q * p => u - v = (y + q - x) * p
    OBVIOUS
  <2> QED BY <1>1, <2>1, <2>2
<1>3. z = 0
  <2> HIDE DEF z
  <2>1. c - d < p /\ -p < c - d
    BY <1>1
  <2>2. \A x \in Int : x >= 1 => x * p >= p
    OBVIOUS
  <2>3. \A x \in Int : x <= -1 => x * p <= -p
    OBVIOUS
  <2> QED BY <1>2, <2>1, <2>2, <2>3
<1>4. c = d
  BY <1>1, <1>2, <1>3
<1> QED BY <1>4 DEF c, d

LEMMA ModPlus ==
  ASSUME NEW p \in Nat \ {0}, NEW a \in Int, NEW b \in Int
  PROVE  ((a % p) + b) % p = (a + b) % p
<1> DEFINE s == a \div p
           c == a % p
<1>1. c \in Int /\ s \in Int /\ a = s * p + c
  BY ModIs
<1> HIDE DEF s, c
<1>2. a + b = (c + b) + s * p
  BY <1>1
<1>3. (a + b) % p = (c + b) % p
  <2>1. a + b \in Int /\ c + b \in Int
    BY <1>1
  <2> QED BY <1>1, <1>2, <2>1, ModSame
<1> QED BY <1>3 DEF c

LEMMA ModTimes ==
  ASSUME NEW p \in Nat \ {0}, NEW a \in Int, NEW b \in Int
  PROVE  ((a % p) * b) % p = (a * b) % p
<1> DEFINE s == a \div p
           c == a % p
<1>1. c \in Int /\ s \in Int /\ a = s * p + c
  BY ModIs
<1> HIDE DEF s, c
<1> DEFINE x == a * b
           y == c * b
           z == s * b
<1>2. x \in Int /\ y \in Int /\ z \in Int /\ x = y + z * p
  <2>1. \A u, v \in Int : (u * p + v) * b = v * b + (u * b) * p
    OBVIOUS
  <2> QED BY <1>1, <2>1
<1> HIDE DEF x, y, z
<1>3. x % p = y % p
  BY <1>2, ModSame
<1> QED BY <1>3 DEF c, x, y

LEMMA ModMod ==
  ASSUME NEW p \in Nat \ {0}, NEW a \in 0 .. p - 1
  PROVE  a % p = a
<1> DEFINE s == a \div p
           c == a % p
<1>1. c \in 0 .. p - 1 /\ s \in Int /\ a = s * p + c
  BY ModIs
<1> HIDE DEF s, c
<1>2. s = 0
  <2>1. \A x \in Int : x >= 1 => x * p >= p
    OBVIOUS
  <2>2. \A x \in Int : x <= -1 => x * p <= -p
    OBVIOUS
  <2> QED BY <1>1, <2>1, <2>2
<1>3. c = a
  BY <1>1, <1>2
<1> QED BY <1>3 DEF c

LEMMA ModTotal ==
  ASSUME NEW p \in Nat \ {0}, NEW n \in Nat, NEW F, NEW G,
         \A i \in 1 .. n : F[i] \in Int /\ G[i] \in Int /\ F[i] % p = G[i] % p
  PROVE  Total(n, F) % p = Total(n, G) % p
<1> DEFINE S == {k \in Nat : k <= n => Total(k, F) % p = Total(k, G) % p}
<1>1. 0 \in S
  BY TotalOfNone
<1>2. ASSUME NEW k \in Nat, k \in S PROVE k + 1 \in S
  <2> SUFFICES ASSUME k + 1 <= n PROVE Total(k + 1, F) % p = Total(k + 1, G) % p
    OBVIOUS
  <2>1. \A i \in 1 .. k + 1 : F[i] \in Int /\ G[i] \in Int
    OBVIOUS
  <2>2. \A i \in 1 .. k : F[i] \in Int /\ G[i] \in Int
    OBVIOUS
  <2> DEFINE s == Total(k, F)
             t == Total(k, G)
             b == F[k + 1]
             c == G[k + 1]
  <2>3. Total(k + 1, F) = s + b /\ Total(k + 1, G) = t + c
    BY <2>1, TotalStep
  <2>4. s \in Int /\ t \in Int
    BY <2>2, TotalIsInt
  <2>5. k + 1 \in 1 .. n
    OBVIOUS
  <2>6. b \in Int /\ c \in Int /\ b % p = c % p
    BY <2>5
  <2>7. s % p = t % p
    BY <1>2
  <2> HIDE DEF s, t, b, c
  <2>8. /\ ((s % p) + b) % p = (s + b) % p /\ ((t % p) + b) % p = (t + b) % p
        /\ ((b % p) + t) % p = (b + t) % p /\ ((c % p) + t) % p = (c + t) % p
    BY <2>4, <2>6, ModPlus
  <2>9. t + b = b + t /\ t + c = c + t
    BY <2>4, <2>6
  <2> QED BY <2>3, <2>6, <2>7, <2>8, <2>9
<1> HIDE DEF S
<1>3. Nat \subseteq S
  BY <1>1, <1>2, NatSet
<1> QED BY <1>3 DEF S
=============================================================================
