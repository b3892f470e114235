------------------------ MODULE JointScaling_proofs ------------------------
(***************************************************************************)
(* The scaling and the driving vector of JointScaling are the derivatives  *)
(* they are written out to be, in every prime field, for every number of   *)
(* filtered parameters, every family and every order the code has.         *)
(*                                                                         *)
(* The components of all orders are one series: a matrix for each word     *)
(* over the predictors, whose value is that of the word's multiset.  The   *)
(* Leibniz terms written out by hand are the product of two series, an     *)
(* algebra with a unit, whose product is associative, turns with the       *)
(* transpose, and does not depend on the order of the letters where its    *)
(* factors do not.  The functions of order m make one product equal to the *)
(* unit at the words of length m as well: that X S = 1 though the          *)
(* functions solve S X = 1 is that a right inverse of a symmetric series   *)
(* is its left inverse and symmetric.                                      *)
(***************************************************************************)
EXTENDS JointScaling, Sums_proofs, SequenceTheorems, TLAPS

(* Matrices over the field, entry by entry.                                *)
Plus(X, Y) == [x \in Cells |-> (X[x] + Y[x]) % Prime]

(* The field and the number of parameters are not empty.                   *)
LEMMA Positive == Prime \in Nat \ {0} /\ K \in Nat \ {0} /\ K \in Nat
BY ScalingAssumption

(* What the field is: a remainder is in it, and it is its own remainder.   *)
LEMMA Numbers ==
  /\ Prime \in Nat \ {0} /\ K \in Nat \ {0} /\ 0 \in Field /\ Field \subseteq Nat
  /\ \A a \in Int : a % Prime \in Field
  /\ \A a \in Field : a % Prime = a
<1>1. Prime \in Nat \ {0} /\ K \in Nat \ {0}
  BY ScalingAssumption
<1>2. 0 \in Field /\ Field \subseteq Nat
  BY <1>1 DEF Field
<1>3. \A a \in Int : a % Prime \in Field
  BY <1>1, ModIs DEF Field
<1>4. \A a \in Field : a % Prime = a
  BY <1>1, ModMod DEF Field
<1> QED BY <1>1, <1>2, <1>3, <1>4

(* A cell is its row and its column.                                       *)
LEMMA Positions ==
  /\ \A x \in Cells : x[1] \in Index /\ x[2] \in Index /\ x = <<x[1], x[2]>>
  /\ \A a, c \in Index : <<a, c>> \in Cells
BY DEF Cells

(* Every entry of a matrix is in the field, so an integer below.           *)
LEMMA Entries ==
  ASSUME NEW X \in Matrices
  PROVE  /\ \A a, c \in Index : X[<<a, c>>] \in Field
         /\ \A x \in Cells : X[x] = X[<<x[1], x[2]>>] /\ X[x] \in Field
BY Positions DEF Matrices

(* The entries of a matrix as integers.                                    *)
LEMMA Whole ==
  ASSUME NEW X \in Matrices
  PROVE  /\ \A a, c \in Index : X[<<a, c>>] \in Int
         /\ \A x \in Cells : X[x] \in Int
<1>1. \A e : e \in Field => e \in Int
  BY DEF Field
<1> QED BY <1>1, Entries

(* Two matrices with the same entries are one.                             *)
LEMMA SameMatrix ==
  ASSUME NEW X \in Matrices, NEW Y \in Matrices, \A a, c \in Index : X[<<a, c>>] = Y[<<a, c>>]
  PROVE  X = Y
<1>1. \A x \in Cells : X[x] = Y[x]
  BY Positions
<1> QED BY <1>1 DEF Matrices

(* The sum of two matrices, entry by entry.                                *)
LEMMA PlusIs ==
  ASSUME NEW X \in Matrices, NEW Y \in Matrices
  PROVE  /\ Plus(X, Y) \in Matrices
         /\ \A a, c \in Index : Plus(X, Y)[<<a, c>>] = (X[<<a, c>>] + Y[<<a, c>>]) % Prime
<1>1. \A x \in Cells : X[x] + Y[x] \in Int
  BY Whole
<1>2. Plus(X, Y) \in Matrices
  BY <1>1, Numbers DEF Plus, Matrices
<1>3. \A a, c \in Index : Plus(X, Y)[<<a, c>>] = (X[<<a, c>>] + Y[<<a, c>>]) % Prime
  BY Positions DEF Plus
<1> QED BY <1>2, <1>3

(* A line of X against a line of Y.                                        *)
Line(X, Y, a, c) == [k \in Index |-> X[<<a, k>>] * Y[<<k, c>>]]

(* The terms of one entry of a product are integers, and so is their       *)
(* total.                                                                  *)
LEMMA LineIs ==
  ASSUME NEW X \in Matrices, NEW Y \in Matrices, NEW a \in Index, NEW c \in Index
  PROVE  /\ \A k \in 1 .. K : Line(X, Y, a, c)[k] = X[<<a, k>>] * Y[<<k, c>>]
                              /\ Line(X, Y, a, c)[k] \in Int
         /\ Total(K, Line(X, Y, a, c)) \in Int
<1>1. \A k \in 1 .. K : X[<<a, k>>] \in Int /\ Y[<<k, c>>] \in Int
  BY Whole DEF Index
<1>2. \A u, v \in Int : u * v \in Int
  OBVIOUS
<1>3. \A k \in 1 .. K : Line(X, Y, a, c)[k] = X[<<a, k>>] * Y[<<k, c>>]
                        /\ Line(X, Y, a, c)[k] \in Int
  BY <1>1, <1>2 DEF Line, Index
<1> QED BY <1>3, TotalIsInt, Positive

(* The product of two matrices, entry by entry.                            *)
LEMMA TimesIs ==
  ASSUME NEW X \in Matrices, NEW Y \in Matrices
  PROVE  /\ Times(X, Y) \in Matrices
         /\ \A a, c \in Index : Times(X, Y)[<<a, c>>] = Total(K, Line(X, Y, a, c)) % Prime
<1>1. \A x \in Cells : Times(X, Y)[x] = Total(K, Line(X, Y, x[1], x[2])) % Prime
  BY DEF Times, Line
<1>2. \A x \in Cells : Times(X, Y)[x] \in Field
  BY <1>1, Positions, LineIs, Numbers
<1>3. Times(X, Y) \in Matrices
  <2>1. Times(X, Y) = [x \in Cells |-> Times(X, Y)[x]]
    BY DEF Times
  <2> QED BY <1>2, <2>1 DEF Matrices
<1>4. \A a, c \in Index : Times(X, Y)[<<a, c>>] = Total(K, Line(X, Y, a, c)) % Prime
  BY <1>1, Positions
<1> QED BY <1>3, <1>4

(* The transpose, entry by entry; taken twice it is the matrix.            *)
LEMMA TransposeIs ==
  ASSUME NEW X \in Matrices
  PROVE  /\ Transpose(X) \in Matrices
         /\ \A a, c \in Index : Transpose(X)[<<a, c>>] = X[<<c, a>>]
         /\ Transpose(Transpose(X)) = X
<1>1. \A a, c \in Index : Transpose(X)[<<a, c>>] = X[<<c, a>>]
  BY Positions DEF Transpose
<1>2. Transpose(X) \in Matrices
  BY Positions, Entries DEF Transpose, Matrices
<1>3. \A Y : \A a, c \in Index : Transpose(Y)[<<a, c>>] = Y[<<c, a>>]
  BY Positions DEF Transpose
<1>4. Transpose(Transpose(X)) \in Matrices
  BY <1>2, Positions, Entries DEF Transpose, Matrices
<1>5. Transpose(Transpose(X)) = X
  <2>1. \A a, c \in Index : Transpose(Transpose(X))[<<a, c>>] = X[<<a, c>>]
    BY <1>1, <1>3
  <2> QED BY <2>1, <1>4, SameMatrix
<1> QED BY <1>1, <1>2, <1>5

(* The matrix of zeros, entry by entry.                                    *)
LEMMA NoughtIs ==
  /\ Nought \in Matrices /\ \A a, c \in Index : Nought[<<a, c>>] = 0
  /\ \A x \in Cells : Nought[x] = 0
BY Positions, Numbers DEF Nought, Matrices

(* The zero matrix is its own transpose.                                   *)
LEMMA NoughtTurns == Transpose(Nought) = Nought /\ IsMatrix(Nought)
<1>1. Nought \in Matrices /\ \A a, c \in Index : Nought[<<a, c>>] = 0
  BY NoughtIs
<1> DEFINE X == Nought
           Y == Transpose(X)
<1>2. X \in Matrices /\ \A a, c \in Index : X[<<a, c>>] = 0
  BY <1>1
<1> HIDE DEF X
<1>3. Y \in Matrices /\ \A a, c \in Index : Y[<<a, c>>] = X[<<c, a>>]
  BY <1>2, TransposeIs
<1> HIDE DEF Y
<1>4. ASSUME NEW a \in Index, NEW c \in Index PROVE Y[<<a, c>>] = X[<<a, c>>]
  BY <1>2, <1>3, Zenon
<1>5. Y = X
  BY <1>2, <1>3, <1>4, SameMatrix
<1> QED BY <1>1, <1>5 DEF X, Y, IsMatrix

(* A diagonal matrix, entry by entry.                                      *)
LEMMA DiagonalIs ==
  ASSUME NEW y \in Vectors
  PROVE  /\ Diagonal(y) \in Matrices
         /\ \A a, c \in Index : Diagonal(y)[<<a, c>>] = IF a = c THEN y[a] ELSE 0
<1>1. \A a, c \in Index : Diagonal(y)[<<a, c>>] = IF a = c THEN y[a] ELSE 0
  BY Positions DEF Diagonal
<1>2. \A a \in Index : y[a] \in Field
  BY DEF Vectors
<1>3. \A x \in Cells : Diagonal(y)[x] \in Field
  BY <1>2, Positions, Numbers DEF Diagonal
<1>4. Diagonal(y) \in Matrices
  BY <1>3 DEF Diagonal, Matrices
<1> QED BY <1>1, <1>4

-----------------------------------------------------------------------------
(* The matrices are a ring.                                                *)
LEMMA PlusCommutes ==
  ASSUME NEW X \in Matrices, NEW Y \in Matrices
  PROVE  Plus(X, Y) = Plus(Y, X)
<1>1. \A a, c \in Index : Plus(X, Y)[<<a, c>>] = Plus(Y, X)[<<a, c>>]
  <2> SUFFICES ASSUME NEW a \in Index, NEW c \in Index
               PROVE  Plus(X, Y)[<<a, c>>] = Plus(Y, X)[<<a, c>>]
    OBVIOUS
  <2>1. X[<<a, c>>] + Y[<<a, c>>] = Y[<<a, c>>] + X[<<a, c>>]
    BY Whole
  <2> QED BY <2>1, PlusIs
<1> QED BY <1>1, PlusIs, SameMatrix

(* Sums associate.                                                         *)
LEMMA PlusAssociates ==
  ASSUME NEW X \in Matrices, NEW Y \in Matrices, NEW Z \in Matrices
  PROVE  Plus(Plus(X, Y), Z) = Plus(X, Plus(Y, Z))
<1>1. Plus(X, Y) \in Matrices /\ Plus(Y, Z) \in Matrices
  BY PlusIs
<1>2. Plus(Plus(X, Y), Z) \in Matrices /\ Plus(X, Plus(Y, Z)) \in Matrices
  BY <1>1, PlusIs
<1>3. ASSUME NEW a \in Index, NEW c \in Index
      PROVE  Plus(Plus(X, Y), Z)[<<a, c>>] = Plus(X, Plus(Y, Z))[<<a, c>>]
  <2> DEFINE u == X[<<a, c>>]
             v == Y[<<a, c>>]
             w == Z[<<a, c>>]
  <2>1. u \in Int /\ v \in Int /\ w \in Int
    BY Whole
  <2>2. Plus(Plus(X, Y), Z)[<<a, c>>] = (((u + v) % Prime) + w) % Prime
    BY <1>1, PlusIs
  <2>3. Plus(X, Plus(Y, Z))[<<a, c>>] = (u + ((v + w) % Prime)) % Prime
    BY <1>1, PlusIs
  <2> HIDE DEF u, v, w
  <2>4. (((u + v) % Prime) + w) % Prime = ((u + v) + w) % Prime
    <3>1. u + v \in Int
      BY <2>1
    <3> QED BY <3>1, <2>1, ModPlus, Positive
  <2>5. (((v + w) % Prime) + u) % Prime = ((v + w) + u) % Prime
    <3>1. v + w \in Int
      BY <2>1
    <3> QED BY <3>1, <2>1, ModPlus, Positive
  <2>6. (v + w) % Prime \in Int
    <3>1. v + w \in Int
      BY <2>1
    <3> QED BY <3>1, Numbers
  <2>7. u + ((v + w) % Prime) = ((v + w) % Prime) + u
    BY <2>1, <2>6
  <2>8. (v + w) + u = (u + v) + w
    BY <2>1
  <2> QED BY <2>2, <2>3, <2>4, <2>5, <2>7, <2>8
<1> QED BY <1>2, <1>3, SameMatrix

(* The zeros are the unit of the sum.                                      *)
LEMMA PlusNought ==
  ASSUME NEW X \in Matrices
  PROVE  Plus(X, Nought) = X /\ Plus(Nought, X) = X
<1>1. ASSUME NEW a \in Index, NEW c \in Index
      PROVE  Plus(X, Nought)[<<a, c>>] = X[<<a, c>>]
  <2>1. X[<<a, c>>] \in Field /\ X[<<a, c>>] + 0 = X[<<a, c>>]
    BY Whole, Entries
  <2>2. Plus(X, Nought)[<<a, c>>] = (X[<<a, c>>] + 0) % Prime
    BY PlusIs, NoughtIs
  <2> QED BY <2>1, <2>2, Numbers
<1>2. Plus(X, Nought) = X
  BY <1>1, PlusIs, NoughtIs, SameMatrix
<1> QED BY <1>2, PlusCommutes, NoughtIs

(* The product distributes over the sum on either side.                    *)
LEMMA TimesPlus ==
  ASSUME NEW X \in Matrices, NEW Y \in Matrices, NEW Z \in Matrices
  PROVE  /\ Times(X, Plus(Y, Z)) = Plus(Times(X, Y), Times(X, Z))
         /\ Times(Plus(Y, Z), X) = Plus(Times(Y, X), Times(Z, X))
<1>1. Plus(Y, Z) \in Matrices
  BY PlusIs
<1>2. /\ Times(X, Plus(Y, Z)) \in Matrices /\ Times(Plus(Y, Z), X) \in Matrices
      /\ Times(X, Y) \in Matrices /\ Times(X, Z) \in Matrices
      /\ Times(Y, X) \in Matrices /\ Times(Z, X) \in Matrices
  BY <1>1, TimesIs
<1>3. /\ Plus(Times(X, Y), Times(X, Z)) \in Matrices
      /\ Plus(Times(Y, X), Times(Z, X)) \in Matrices
  BY <1>2, PlusIs
\* Three lines of which the last is the sum of the others, but for multiples.
<1> DEFINE Adds(A, B, C) == \A k \in 1 .. K : C[k] % Prime = (A[k] + B[k]) % Prime
           Whole1(A) == \A k \in 1 .. K : A[k] \in Int
<1>4. ASSUME NEW A, NEW B, NEW C, Whole1(A), Whole1(B), Whole1(C), Adds(A, B, C)
      PROVE  Total(K, C) % Prime = ((Total(K, A) % Prime) + (Total(K, B) % Prime)) % Prime
  <2> DEFINE D == [k \in 1 .. K |-> A[k] + B[k]]
             s == Total(K, A)
             t == Total(K, B)
  <2>1. \A k \in 1 .. K : D[k] = A[k] + B[k] /\ D[k] \in Int
    BY <1>4
  <2>2. \A k \in 1 .. K : C[k] % Prime = D[k] % Prime
    BY <2>1, <1>4
  <2> HIDE DEF D
  <2>3. Total(K, D) = s + t
    BY <2>1, <1>4, TotalSum, Positive
  <2>4. Total(K, C) % Prime = Total(K, D) % Prime
    <3>1. \A k \in 1 .. K : C[k] \in Int /\ D[k] \in Int /\ C[k] % Prime = D[k] % Prime
      BY <2>1, <2>2, <1>4
    <3> QED BY <3>1, ModTotal, Positive
  <2>5. s \in Int /\ t \in Int
    BY <1>4, TotalIsInt, Positive
  <2> HIDE DEF s, t
  <2> DEFINE b == t % Prime
  <2>6. b \in Int
    BY <2>5, ModIs, Positive
  <2>7. ((s % Prime) + b) % Prime = (s + b) % Prime
    BY <2>5, <2>6, ModPlus, Positive
  <2>8. (b + s) % Prime = (t + s) % Prime
    BY <2>5, ModPlus, Positive
  <2>9. b + s = s + b /\ t + s = s + t
    BY <2>5, <2>6
  <2> QED BY <2>3, <2>4, <2>7, <2>8, <2>9 DEF s, t, b
<1> DEFINE P == Plus(Y, Z)
<1>5. ASSUME NEW a \in Index, NEW c \in Index
      PROVE  Times(X, Plus(Y, Z))[<<a, c>>] = Plus(Times(X, Y), Times(X, Z))[<<a, c>>]
  <2> DEFINE A == Line(X, Y, a, c)
             B == Line(X, Z, a, c)
             C == Line(X, P, a, c)
  <2>1. Whole1(A) /\ Whole1(B) /\ Whole1(C)
    BY <1>1, LineIs
  <2>2. ASSUME NEW k \in 1 .. K PROVE C[k] % Prime = (A[k] + B[k]) % Prime
    <3> DEFINE x == X[<<a, k>>]
               y == Y[<<k, c>>]
               z == Z[<<k, c>>]
    <3>1. A[k] = x * y /\ B[k] = x * z /\ C[k] = x * P[<<k, c>>]
      BY <1>1, LineIs
    <3>2. P[<<k, c>>] = (y + z) % Prime
      BY PlusIs DEF Index
    <3>3. x \in Int /\ y \in Int /\ z \in Int
      BY Whole DEF Index
    <3> HIDE DEF A, B, C, P, x, y, z
    <3> DEFINE e == (y + z) % Prime
    <3>4. y + z \in Int /\ e \in Int
      <4>1. y + z \in Int
        BY <3>3
      <4> QED BY <4>1, ModIs, Positive
    <3>5. (e * x) % Prime = ((y + z) * x) % Prime
      BY <3>3, <3>4, ModTimes, Positive
    <3>6. e * x = x * e
      <4> HIDE DEF e
      <4> QED BY <3>3, <3>4
    <3>7. (y + z) * x = x * y + x * z
      BY <3>3
    <3> QED BY <3>1, <3>2, <3>5, <3>6, <3>7
  <2> HIDE DEF A, B, C, P
  <2>3. Total(K, C) % Prime = ((Total(K, A) % Prime) + (Total(K, B) % Prime)) % Prime
    BY <2>1, <2>2, <1>4
  <2>4. /\ Times(X, P)[<<a, c>>] = Total(K, C) % Prime
        /\ Times(X, Y)[<<a, c>>] = Total(K, A) % Prime
        /\ Times(X, Z)[<<a, c>>] = Total(K, B) % Prime
    BY <1>1, TimesIs DEF A, B, C, P
  <2> QED BY <2>3, <2>4, <1>2, PlusIs DEF P
<1>6. ASSUME NEW a \in Index, NEW c \in Index
      PROVE  Times(Plus(Y, Z), X)[<<a, c>>] = Plus(Times(Y, X), Times(Z, X))[<<a, c>>]
  <2> DEFINE A == Line(Y, X, a, c)
             B == Line(Z, X, a, c)
             C == Line(P, X, a, c)
  <2>1. Whole1(A) /\ Whole1(B) /\ Whole1(C)
    BY <1>1, LineIs
  <2>2. ASSUME NEW k \in 1 .. K PROVE C[k] % Prime = (A[k] + B[k]) % Prime
    <3> DEFINE x == X[<<k, c>>]
               y == Y[<<a, k>>]
               z == Z[<<a, k>>]
    <3>1. A[k] = y * x /\ B[k] = z * x /\ C[k] = P[<<a, k>>] * x
      BY <1>1, LineIs
    <3>2. P[<<a, k>>] = (y + z) % Prime
      BY PlusIs DEF Index
    <3>3. x \in Int /\ y \in Int /\ z \in Int
      BY Whole DEF Index
    <3> HIDE DEF A, B, C, P, x, y, z
    <3> DEFINE e == (y + z) % Prime
    <3>4. y + z \in Int
      BY <3>3
    <3>5. (e * x) % Prime = ((y + z) * x) % Prime
      BY <3>3, <3>4, ModTimes, Positive
    <3>7. (y + z) * x = y * x + z * x
      BY <3>3
    <3> QED BY <3>1, <3>2, <3>5, <3>7
  <2> HIDE DEF A, B, C, P
  <2>3. Total(K, C) % Prime = ((Total(K, A) % Prime) + (Total(K, B) % Prime)) % Prime
    BY <2>1, <2>2, <1>4
  <2>4. /\ Times(P, X)[<<a, c>>] = Total(K, C) % Prime
        /\ Times(Y, X)[<<a, c>>] = Total(K, A) % Prime
        /\ Times(Z, X)[<<a, c>>] = Total(K, B) % Prime
    BY <1>1, TimesIs DEF A, B, C, P
  <2> QED BY <2>3, <2>4, <1>2, PlusIs DEF P
<1>7. Times(X, Plus(Y, Z)) = Plus(Times(X, Y), Times(X, Z))
  BY <1>2, <1>3, <1>5, SameMatrix
<1>8. Times(Plus(Y, Z), X) = Plus(Times(Y, X), Times(Z, X))
  BY <1>2, <1>3, <1>6, SameMatrix
<1> QED BY <1>7, <1>8

(* Products associate, by exchanging the two sums of an entry.             *)
LEMMA TimesAssociates ==
  ASSUME NEW X \in Matrices, NEW Y \in Matrices, NEW Z \in Matrices
  PROVE  Times(Times(X, Y), Z) = Times(X, Times(Y, Z))
<1> DEFINE V == Times(X, Y)
           W == Times(Y, Z)
<1>1. V \in Matrices /\ W \in Matrices
  BY TimesIs
<1>2. Times(V, Z) \in Matrices /\ Times(X, W) \in Matrices
  BY <1>1, TimesIs
<1>3. ASSUME NEW a \in Index, NEW c \in Index
      PROVE  Times(V, Z)[<<a, c>>] = Times(X, W)[<<a, c>>]
  \* The table of the products, whose rows add up to one side and columns to
  \* the other.
  <2> DEFINE A == [i \in 1 .. K |-> [j \in 1 .. K |-> (X[<<a, j>>] * Y[<<j, i>>]) * Z[<<i, c>>]]]
             B == [j \in 1 .. K |-> [i \in 1 .. K |-> (X[<<a, j>>] * Y[<<j, i>>]) * Z[<<i, c>>]]]
             R == [i \in 1 .. K |-> Total(K, A[i])]
             C == [j \in 1 .. K |-> Total(K, B[j])]
  <2>0. \A i, j \in 1 .. K : /\ X[<<a, j>>] \in Int /\ Y[<<j, i>>] \in Int /\ Z[<<i, c>>] \in Int
                            /\ (X[<<a, j>>] * Y[<<j, i>>]) * Z[<<i, c>>] \in Int
    <3>1. \A i, j \in 1 .. K : X[<<a, j>>] \in Int /\ Y[<<j, i>>] \in Int /\ Z[<<i, c>>] \in Int
      BY Whole DEF Index
    <3>2. \A u, v, w \in Int : (u * v) * w \in Int
      OBVIOUS
    <3> QED BY <3>1, <3>2
  <2>1. Tabulates(K, K, A, B, R, C)
    <3>1. \A i \in 1 .. K : \A j \in 1 .. K : A[i][j] \in Int /\ B[j][i] = A[i][j]
      BY <2>0
    <3>2. (\A i \in 1 .. K : R[i] = Total(K, A[i])) /\ \A j \in 1 .. K : C[j] = Total(K, B[j])
      OBVIOUS
    <3> HIDE DEF A, B, R, C
    <3> QED BY <3>1, <3>2 DEF Tabulates
  <2>2. Total(K, R) = Total(K, C)
    <3> HIDE DEF A, B, R, C
    <3> QED BY <2>1, TotalExchange, Positive
  <2>3. ASSUME NEW i \in 1 .. K
        PROVE  /\ R[i] \in Int /\ Line(V, Z, a, c)[i] \in Int
               /\ Line(V, Z, a, c)[i] % Prime = R[i] % Prime
    <3> DEFINE l == Line(X, Y, a, i)
               z == Z[<<i, c>>]
               s == Total(K, l)
               h == A[i]
    <3>1. \A j \in 1 .. K : l[j] \in Int /\ h[j] = z * l[j]
      <4>1. \A j \in 1 .. K : l[j] = X[<<a, j>>] * Y[<<j, i>>] /\ l[j] \in Int
        BY LineIs DEF Index
      <4>2. \A j \in 1 .. K : h[j] = l[j] * z
        BY <4>1
      <4>3. \A j \in 1 .. K : l[j] * z = z * l[j]
        <5> HIDE DEF l, z, h
        <5>1. z \in Int
          BY <2>0 DEF z
        <5>2. \A u, v \in Int : u * v = v * u
          OBVIOUS
        <5> QED BY <4>1, <5>1, <5>2
      <4> QED BY <4>1, <4>2, <4>3
    <3>2. R[i] = Total(K, h)
      OBVIOUS
    <3>3. z \in Int /\ s \in Int
      BY <2>0, LineIs DEF Index
    <3>4. V[<<a, i>>] = s % Prime
      BY TimesIs DEF Index
    <3>5. Line(V, Z, a, c)[i] = V[<<a, i>>] * z /\ Line(V, Z, a, c)[i] \in Int
      BY <1>1, LineIs
    <3> HIDE DEF l, z, h, A, R, V
    <3>6. Total(K, h) = z * s
      BY <3>1, <3>3, TotalScale, Positive
    <3> HIDE DEF s
    <3>7. z * s \in Int /\ z * s = s * z
      BY <3>3
    <3>8. ((s % Prime) * z) % Prime = (s * z) % Prime
      BY <3>3, ModTimes, Positive
    <3> QED BY <3>2, <3>4, <3>5, <3>6, <3>7, <3>8
  <2>4. ASSUME NEW j \in 1 .. K
        PROVE  /\ C[j] \in Int /\ Line(X, W, a, c)[j] \in Int
               /\ Line(X, W, a, c)[j] % Prime = C[j] % Prime
    <3> DEFINE l == Line(Y, Z, j, c)
               x == X[<<a, j>>]
               s == Total(K, l)
               h == B[j]
    <3>1. \A i \in 1 .. K : l[i] \in Int /\ h[i] = x * l[i]
      <4>1. \A i \in 1 .. K : l[i] = Y[<<j, i>>] * Z[<<i, c>>] /\ l[i] \in Int
        BY LineIs DEF Index
      <4>2. \A i \in 1 .. K : h[i] = (x * Y[<<j, i>>]) * Z[<<i, c>>]
        OBVIOUS
      <4>3. \A i \in 1 .. K : (x * Y[<<j, i>>]) * Z[<<i, c>>] = x * (Y[<<j, i>>] * Z[<<i, c>>])
        <5> HIDE DEF l, x, h
        <5>1. x \in Int
          BY <2>0 DEF x
        <5>2. \A u, v, w \in Int : (u * v) * w = u * (v * w)
          OBVIOUS
        <5>3. \A i \in 1 .. K : Y[<<j, i>>] \in Int /\ Z[<<i, c>>] \in Int
          BY <2>0
        <5> QED BY <5>1, <5>2, <5>3
      <4> QED BY <4>1, <4>2, <4>3
    <3>2. C[j] = Total(K, h)
      OBVIOUS
    <3>3. x \in Int /\ s \in Int
      BY <2>0, LineIs DEF Index
    <3>4. W[<<j, c>>] = s % Prime
      BY TimesIs DEF Index
    <3>5. Line(X, W, a, c)[j] = x * W[<<j, c>>] /\ Line(X, W, a, c)[j] \in Int
      BY <1>1, LineIs
    <3>0. W[<<j, c>>] \in Int
      BY <1>1, Whole DEF Index
    <3> HIDE DEF l, x, h, B, C, W
    <3>6. Total(K, h) = x * s
      BY <3>1, <3>3, TotalScale, Positive
    <3> HIDE DEF s
    <3>7. x * s \in Int /\ x * s = s * x /\ x * W[<<j, c>>] = W[<<j, c>>] * x
      BY <3>0, <3>3
    <3>8. ((s % Prime) * x) % Prime = (s * x) % Prime
      BY <3>3, ModTimes, Positive
    <3> QED BY <3>2, <3>4, <3>5, <3>6, <3>7, <3>8
  <2> HIDE DEF R, C, V, W, A, B
  <2>5. Total(K, Line(V, Z, a, c)) % Prime = Total(K, R) % Prime
    BY <2>3, ModTotal, Positive
  <2>6. Total(K, Line(X, W, a, c)) % Prime = Total(K, C) % Prime
    BY <2>4, ModTotal, Positive
  <2>7. Times(V, Z)[<<a, c>>] = Total(K, Line(V, Z, a, c)) % Prime
    BY <1>1, TimesIs
  <2>8. Times(X, W)[<<a, c>>] = Total(K, Line(X, W, a, c)) % Prime
    BY <1>1, TimesIs
  <2> QED BY <2>2, <2>5, <2>6, <2>7, <2>8
<1> HIDE DEF V, W
<1>4. Times(V, Z) = Times(X, W)
  BY <1>2, <1>3, SameMatrix
<1> QED BY <1>4 DEF V, W

(* A product with a diagonal scales the columns or the rows.               *)
LEMMA TimesDiagonal ==
  ASSUME NEW X \in Matrices, NEW y \in Vectors, NEW a \in Index, NEW c \in Index
  PROVE  /\ Times(X, Diagonal(y))[<<a, c>>] = (X[<<a, c>>] * y[c]) % Prime
         /\ Times(Diagonal(y), X)[<<a, c>>] = (y[a] * X[<<a, c>>]) % Prime
<1> DEFINE D == Diagonal(y)
           A == Line(X, D, a, c)
           B == Line(D, X, a, c)
<1>1. D \in Matrices /\ \A i, j \in Index : D[<<i, j>>] = IF i = j THEN y[i] ELSE 0
  BY DiagonalIs
<1>2. \A k \in 1 .. K : /\ A[k] = X[<<a, k>>] * D[<<k, c>>] /\ A[k] \in Int
                       /\ B[k] = D[<<a, k>>] * X[<<k, c>>] /\ B[k] \in Int
  BY <1>1, LineIs
<1>3. \A k \in 1 .. K : X[<<a, k>>] \in Int /\ X[<<k, c>>] \in Int
  BY Whole DEF Index
<1>4. Times(X, D)[<<a, c>>] = Total(K, A) % Prime /\ Times(D, X)[<<a, c>>] = Total(K, B) % Prime
  BY <1>1, TimesIs
<1>5. a \in 1 .. K /\ c \in 1 .. K
  BY DEF Index
<1>0. Index = 1 .. K
  BY DEF Index
<1> HIDE DEF A, B, D
<1>6. \A u \in Int : u * 0 = 0 /\ 0 * u = 0
  OBVIOUS
<1>7. Total(K, A) = A[c]
  <2>1. ASSUME NEW k \in 1 .. K, k # c PROVE A[k] = 0
    <3>1. A[k] = X[<<a, k>>] * D[<<k, c>>] /\ X[<<a, k>>] \in Int
      BY <1>2, <1>3
    <3>2. D[<<k, c>>] = 0
      BY <1>0, <1>1, <2>1
    <3> QED BY <3>1, <3>2, <1>6
  <2> QED BY <1>2, <1>5, <2>1, TotalOfOne, Positive
<1>8. Total(K, B) = B[a]
  <2>1. ASSUME NEW k \in 1 .. K, k # a PROVE B[k] = 0
    <3>1. B[k] = D[<<a, k>>] * X[<<k, c>>] /\ X[<<k, c>>] \in Int
      BY <1>2, <1>3
    <3>2. D[<<a, k>>] = 0
      BY <1>0, <1>1, <2>1
    <3> QED BY <3>1, <3>2, <1>6
  <2> QED BY <1>2, <1>5, <2>1, TotalOfOne, Positive
<1>9. A[c] = X[<<a, c>>] * y[c] /\ B[a] = y[a] * X[<<a, c>>]
  BY <1>1, <1>2, <1>5
<1> QED BY <1>4, <1>7, <1>8, <1>9 DEF D

(* The identity is a symmetric matrix.                                     *)
LEMMA IdentityIs ==
  /\ [k \in Index |-> 1 % Prime] \in Vectors /\ Identity \in Matrices
  /\ Transpose(Identity) = Identity
<1> DEFINE one == [k \in Index |-> 1 % Prime]
<1>1. one \in Vectors
  BY Numbers DEF Vectors
<1>2. Identity \in Matrices /\ \A a, c \in Index : Identity[<<a, c>>] = IF a = c THEN 1 % Prime ELSE 0
  <2>1. \A a \in Index : one[a] = 1 % Prime
    OBVIOUS
  <2> HIDE DEF one
  <2>2. Diagonal(one) \in Matrices /\ \A a, c \in Index : Diagonal(one)[<<a, c>>] = IF a = c THEN 1 % Prime ELSE 0
    BY <1>1, <2>1, DiagonalIs
  <2> QED BY <2>2 DEF Identity, one
<1>3. ASSUME NEW a \in Index, NEW c \in Index
      PROVE  Transpose(Identity)[<<a, c>>] = Identity[<<a, c>>]
  <2>1. Transpose(Identity)[<<a, c>>] = Identity[<<c, a>>]
    BY <1>2, TransposeIs
  <2>2. Identity[<<c, a>>] = Identity[<<a, c>>]
    BY <1>2
  <2> QED BY <2>1, <2>2
<1>4. Transpose(Identity) \in Matrices
  BY <1>2, TransposeIs
<1> QED BY <1>1, <1>2, <1>3, <1>4, SameMatrix

(* The identity is the unit of the product.                                *)
LEMMA TimesIdentity ==
  ASSUME NEW X \in Matrices
  PROVE  Times(X, Identity) = X /\ Times(Identity, X) = X
<1> DEFINE one == [k \in Index |-> 1 % Prime]
<1>0. one \in Vectors /\ (\A k \in Index : one[k] = 1 % Prime) /\ Identity = Diagonal(one)
  BY IdentityIs DEF Identity
<1> HIDE DEF one
<1>1. ASSUME NEW a \in Index, NEW c \in Index
      PROVE  Times(X, Identity)[<<a, c>>] = X[<<a, c>>] /\ Times(Identity, X)[<<a, c>>] = X[<<a, c>>]
  <2> DEFINE x == X[<<a, c>>]
             e == 1 % Prime
  <2>1. Times(X, Identity)[<<a, c>>] = (x * e) % Prime /\ Times(Identity, X)[<<a, c>>] = (e * x) % Prime
    BY <1>0, TimesDiagonal
  <2>2. x \in Field /\ x \in Int /\ e \in Int
    BY Entries, Whole, ModIs, Positive
  <2>3. ((1 % Prime) * x) % Prime = (1 * x) % Prime
    <3>1. 1 \in Int
      OBVIOUS
    <3> HIDE DEF x
    <3> QED BY <2>2, <3>1, ModTimes, Positive
  <2> HIDE DEF e
  <2>4. e * x = x * e /\ 1 * x = x
    BY <2>2
  <2> QED BY <2>1, <2>2, <2>3, <2>4, Numbers DEF e
<1>2. Times(X, Identity) \in Matrices /\ Times(Identity, X) \in Matrices
  BY IdentityIs, TimesIs
<1>3. Times(X, Identity) = X
  BY <1>1, <1>2, SameMatrix
<1>4. Times(Identity, X) = X
  BY <1>1, <1>2, SameMatrix
<1> QED BY <1>3, <1>4

(* A product with the zeros is the zeros.                                  *)
LEMMA TimesNought ==
  ASSUME NEW X \in Matrices
  PROVE  Times(X, Nought) = Nought /\ Times(Nought, X) = Nought
<1>1. Nought \in Matrices /\ \A a, c \in Index : Nought[<<a, c>>] = 0
  BY NoughtIs
<1>2. 0 % Prime = 0
  BY Numbers
<1>3. ASSUME NEW a \in Index, NEW c \in Index
      PROVE  Times(X, Nought)[<<a, c>>] = 0 /\ Times(Nought, X)[<<a, c>>] = 0
  <2> DEFINE A == Line(X, Nought, a, c)
             B == Line(Nought, X, a, c)
  <2>1. \A k \in 1 .. K : A[k] = X[<<a, k>>] * Nought[<<k, c>>] /\ B[k] = Nought[<<a, k>>] * X[<<k, c>>]
    BY <1>1, LineIs
  <2>2. \A k \in 1 .. K : X[<<a, k>>] \in Int /\ X[<<k, c>>] \in Int /\ Nought[<<k, c>>] = 0 /\ Nought[<<a, k>>] = 0
    BY <1>1, Whole DEF Index
  <2>3. Times(X, Nought)[<<a, c>>] = Total(K, A) % Prime /\ Times(Nought, X)[<<a, c>>] = Total(K, B) % Prime
    BY <1>1, TimesIs
  <2> HIDE DEF A, B
  <2>4. \A u \in Int : u * 0 = 0 /\ 0 * u = 0
    OBVIOUS
  <2>5. \A k \in 1 .. K : A[k] = 0 /\ B[k] = 0
    BY <2>1, <2>2, <2>4
  <2>6. Total(K, A) = 0 /\ Total(K, B) = 0
    BY <2>5, TotalOfZeros, Positive
  <2> QED BY <1>2, <2>3, <2>6
<1>4. Times(X, Nought) \in Matrices /\ Times(Nought, X) \in Matrices
  BY <1>1, TimesIs
<1>5. Times(X, Nought) = Nought
  BY <1>1, <1>3, <1>4, SameMatrix
<1>6. Times(Nought, X) = Nought
  BY <1>1, <1>3, <1>4, SameMatrix
<1> QED BY <1>5, <1>6

(* The transpose of a sum.                                                 *)
LEMMA TransposePlus ==
  ASSUME NEW X \in Matrices, NEW Y \in Matrices
  PROVE  Transpose(Plus(X, Y)) = Plus(Transpose(X), Transpose(Y))
<1>1. Plus(X, Y) \in Matrices /\ Transpose(X) \in Matrices /\ Transpose(Y) \in Matrices
  BY PlusIs, TransposeIs
<1>2. Transpose(Plus(X, Y)) \in Matrices /\ Plus(Transpose(X), Transpose(Y)) \in Matrices
  BY <1>1, PlusIs, TransposeIs
<1>3. \A a, c \in Index : Transpose(Plus(X, Y))[<<a, c>>] = Plus(X, Y)[<<c, a>>]
  BY <1>1, TransposeIs
<1>4. \A a, c \in Index : Plus(X, Y)[<<c, a>>] = (X[<<c, a>>] + Y[<<c, a>>]) % Prime
  BY PlusIs
<1>5. \A a, c \in Index : Plus(Transpose(X), Transpose(Y))[<<a, c>>] = (Transpose(X)[<<a, c>>] + Transpose(Y)[<<a, c>>]) % Prime
  BY <1>1, PlusIs
<1>6. \A a, c \in Index : Transpose(X)[<<a, c>>] = X[<<c, a>>] /\ Transpose(Y)[<<a, c>>] = Y[<<c, a>>]
  BY TransposeIs
<1>7. \A a, c \in Index : Transpose(Plus(X, Y))[<<a, c>>] = Plus(Transpose(X), Transpose(Y))[<<a, c>>]
  <2> SUFFICES ASSUME NEW a \in Index, NEW c \in Index
               PROVE  Transpose(Plus(X, Y))[<<a, c>>] = Plus(Transpose(X), Transpose(Y))[<<a, c>>]
    OBVIOUS
  <2>1. Transpose(Plus(X, Y))[<<a, c>>] = (X[<<c, a>>] + Y[<<c, a>>]) % Prime
    BY <1>3, <1>4
  <2> QED BY <1>5, <1>6, <2>1
<1> QED BY <1>2, <1>7, SameMatrix

(* The transpose of a product is that of its factors in reverse.           *)
LEMMA TransposeTimes ==
  ASSUME NEW X \in Matrices, NEW Y \in Matrices
  PROVE  Transpose(Times(X, Y)) = Times(Transpose(Y), Transpose(X))
<1> DEFINE V == Transpose(X)
           W == Transpose(Y)
<1>1. Times(X, Y) \in Matrices /\ V \in Matrices /\ W \in Matrices
  BY TimesIs, TransposeIs
<1>2. Transpose(Times(X, Y)) \in Matrices /\ Times(W, V) \in Matrices
  BY <1>1, TimesIs, TransposeIs
<1>3. ASSUME NEW a \in Index, NEW c \in Index
      PROVE  Transpose(Times(X, Y))[<<a, c>>] = Times(W, V)[<<a, c>>]
  <2> DEFINE A == Line(X, Y, c, a)
             B == Line(W, V, a, c)
  <2>1. Transpose(Times(X, Y))[<<a, c>>] = Total(K, A) % Prime
    <3>1. Transpose(Times(X, Y))[<<a, c>>] = Times(X, Y)[<<c, a>>]
      BY <1>1, TransposeIs
    <3> QED BY <3>1, TimesIs
  <2>2. Times(W, V)[<<a, c>>] = Total(K, B) % Prime
    BY <1>1, TimesIs
  <2>3. \A k \in 1 .. K : A[k] = X[<<c, k>>] * Y[<<k, a>>] /\ A[k] \in Int
    BY LineIs
  <2>4. \A k \in 1 .. K : B[k] = W[<<a, k>>] * V[<<k, c>>]
    BY <1>1, LineIs
  <2>5. \A k \in 1 .. K : W[<<a, k>>] = Y[<<k, a>>] /\ V[<<k, c>>] = X[<<c, k>>]
    BY TransposeIs DEF Index
  <2>6. \A k \in 1 .. K : X[<<c, k>>] \in Int /\ Y[<<k, a>>] \in Int
    BY Whole DEF Index
  <2> HIDE DEF A, B, V, W
  <2>7. \A u, v \in Int : u * v = v * u
    OBVIOUS
  <2>8. \A k \in 1 .. K : B[k] = A[k]
    BY <2>3, <2>4, <2>5, <2>6, <2>7
  <2>9. Total(K, B) = Total(K, A)
    BY <2>3, <2>8, TotalSame, Positive
  <2> QED BY <2>1, <2>2, <2>9
<1> HIDE DEF V, W
<1>4. Transpose(Times(X, Y)) = Times(W, V)
  BY <1>2, <1>3, SameMatrix
<1> QED BY <1>4 DEF V, W

(* A word with a letter added.                                             *)
LEMMA AddIs ==
  ASSUME NEW D, NEW w \in Seq(D), NEW b \in D
  PROVE  /\ Append(w, b) \in Seq(D) /\ Len(Append(w, b)) = Len(w) + 1 /\ Len(w) \in Nat
         /\ Append(w, b)[Len(w) + 1] = b /\ \A k \in 1 .. Len(w) : Append(w, b)[k] = w[k]
         /\ Append(w, b) # <<>>
BY AppendProperties, LenProperties

(* A set of words that holds the empty one and every word that adds a      *)
(* letter to one of its own holds them all.                                *)
LEMMA WordSet ==
  ASSUME NEW D, NEW T, <<>> \in T,
         \A w \in Seq(D) : w \in T => \A b \in D : Append(w, b) \in T
  PROVE  Seq(D) \subseteq T
<1> DEFINE N == {n \in Nat : \A w \in Seq(D) : Len(w) = n => w \in T}
<1>1. 0 \in N
  BY EmptySeq
<1>2. ASSUME NEW n \in Nat, n \in N PROVE n + 1 \in N
  <2> SUFFICES ASSUME NEW w \in Seq(D), Len(w) = n + 1 PROVE w \in T
    OBVIOUS
  <2>1. w # <<>>
    <3>1. n + 1 # 0
      OBVIOUS
    <3> QED BY <3>1, EmptySeq
  <2>2. PICK v \in Seq(D), b \in D : w = Append(v, b)
    BY <2>1, SequenceEmptyOrAppend
  <2>3. Len(v) = n
    <3>1. Len(w) = Len(v) + 1 /\ Len(v) \in Nat
      BY <2>2, AddIs
    <3> QED BY <3>1
  <2> QED BY <1>2, <2>2, <2>3
<1> HIDE DEF N
<1>3. Nat \subseteq N
  BY <1>1, <1>2, NatSet
<1>4. ASSUME NEW w \in Seq(D) PROVE w \in T
  <2>1. Len(w) \in N
    BY <1>3, LenProperties
  <2> QED BY <2>1 DEF N
<1> QED BY <1>4

-----------------------------------------------------------------------------
(* The functions that the recursive definitions of the model choose exist: *)
(* each goes through n steps from a start.                                 *)
Steps(T, s, m, step) == s \in T /\ m \in Nat /\ step \in [1 .. m -> [T -> T]]
Goes(s, step, n, u) == \A k \in 0 .. n : u[k] = IF k = 0 THEN s ELSE step[k][u[k - 1]]

(* A recursion whose steps stay in a set has its values, all of them in    *)
(* it.                                                                     *)
LEMMA StepsExist ==
  ASSUME NEW T, NEW s, NEW m, NEW step, Steps(T, s, m, step)
  PROVE  \E u \in [0 .. m -> T] : Goes(s, step, m, u)
<1> DEFINE N == {n \in Nat : n <= m => \E u \in [0 .. n -> T] : Goes(s, step, n, u)}
<1> USE DEF Steps, Goes
<1>1. 0 \in N
  <2> DEFINE u == [k \in 0 .. 0 |-> s]
  <2>1. u \in [0 .. 0 -> T] /\ Goes(s, step, 0, u)
    OBVIOUS
  <2> QED BY <2>1
<1>2. ASSUME NEW n \in Nat, n \in N PROVE n + 1 \in N
  <2> SUFFICES ASSUME n + 1 <= m PROVE \E u \in [0 .. n + 1 -> T] : Goes(s, step, n + 1, u)
    OBVIOUS
  <2>1. PICK v \in [0 .. n -> T] : Goes(s, step, n, v)
    BY <1>2
  <2> DEFINE t == step[n + 1][v[n]]
             u == [k \in 0 .. n + 1 |-> IF k = n + 1 THEN t ELSE v[k]]
  <2>2. t \in T
    <3>1. v[n] \in T /\ n + 1 \in 1 .. m
      OBVIOUS
    <3> QED BY <3>1
  <2>3. u \in [0 .. n + 1 -> T]
    <3> HIDE DEF t
    <3> QED BY <2>2
  <2>4. ASSUME NEW k \in 0 .. n + 1 PROVE u[k] = IF k = 0 THEN s ELSE step[k][u[k - 1]]
    <3>1. CASE k = n + 1
      <4>1. u[k] = t /\ k # 0 /\ k - 1 = n /\ u[k - 1] = v[n]
        BY <3>1
      <4> QED BY <4>1, <3>1
    <3>2. CASE k \in 0 .. n
      <4>1. u[k] = v[k] /\ (k # 0 => u[k - 1] = v[k - 1])
        BY <3>2
      <4>2. v[k] = IF k = 0 THEN s ELSE step[k][v[k - 1]]
        BY <2>1, <3>2
      <4> HIDE DEF u
      <4> QED BY <4>1, <4>2
    <3> QED BY <3>1, <3>2
  <2> HIDE DEF u, t
  <2> QED BY <2>3, <2>4
<1> HIDE DEF N
<1>3. Nat \subseteq N
  BY <1>1, <1>2, NatSet
<1>4. m \in N
  BY <1>3
<1> QED BY <1>4 DEF N

Together(m, u, v) == u[0] = v[0] /\ \A k \in 1 .. m : u[k - 1] = v[k - 1] => u[k] = v[k]

(* Two recursions that start and step alike have the same values.          *)
LEMMA Alike ==
  ASSUME NEW m \in Nat, NEW u, NEW v, Together(m, u, v)
  PROVE  \A k \in 0 .. m : u[k] = v[k]
<1> USE DEF Together
<1> DEFINE N == {n \in Nat : n <= m => u[n] = v[n]}
<1>1. 0 \in N
  OBVIOUS
<1>2. ASSUME NEW n \in Nat, n \in N PROVE n + 1 \in N
  <2> SUFFICES ASSUME n + 1 <= m PROVE u[n + 1] = v[n + 1]
    OBVIOUS
  <2>1. n + 1 \in 1 .. m /\ n + 1 - 1 = n /\ u[n] = v[n]
    BY <1>2
  <2> QED BY <2>1
<1> HIDE DEF N
<1>3. Nat \subseteq N
  BY <1>1, <1>2, NatSet
<1> QED BY <1>3 DEF N

-----------------------------------------------------------------------------
(* The sub-tuples.                                                         *)
SubRuns(B, A, u) ==
  u = [k \in 0 .. Len(B) |->
         IF k = 0 THEN <<>> ELSE IF k \in A THEN Append(u[k - 1], B[k]) ELSE u[k - 1]]

(* The values of Sub's recursion are words.                                *)
LEMMA SubRunsExist ==
  ASSUME NEW D, NEW B \in Seq(D), NEW A
  PROVE  \E u \in [0 .. Len(B) -> Seq(D)] : SubRuns(B, A, u) /\ Sub(B, A) = u[Len(B)]
<1> DEFINE m == Len(B)
           T == Seq(D)
           step == [k \in 1 .. m |-> [t \in T |-> IF k \in A THEN Append(t, B[k]) ELSE t]]
<1>1. m \in Nat /\ <<>> \in T /\ \A k \in 1 .. m : B[k] \in D
  BY LenProperties, EmptySeq, ElementOfSeq
<1>2. step \in [1 .. m -> [T -> T]]
  BY <1>1, AddIs
<1>3. PICK u \in [0 .. m -> T] : \A k \in 0 .. m : u[k] = IF k = 0 THEN <<>> ELSE step[k][u[k - 1]]
  <2> HIDE DEF m, T, step
  <2>1. Steps(T, <<>>, m, step)
    BY <1>1, <1>2 DEF Steps
  <2>2. \E u \in [0 .. m -> T] : Goes(<<>>, step, m, u)
    BY <2>1, StepsExist
  <2> QED BY <2>2 DEF Goes
<1>4. ASSUME NEW k \in 0 .. m
      PROVE  u[k] = IF k = 0 THEN <<>> ELSE IF k \in A THEN Append(u[k - 1], B[k]) ELSE u[k - 1]
  <2>1. CASE k = 0
    BY <1>3, <2>1
  <2>2. CASE k # 0
    <3>1. k \in 1 .. m /\ k - 1 \in 0 .. m
      BY <1>1, <2>2
    <3>2. u[k - 1] \in T
      BY <3>1
    <3>3. u[k] = step[k][u[k - 1]]
      BY <1>3, <2>2
    <3> HIDE DEF T, m
    <3> QED BY <2>2, <3>1, <3>2, <3>3
  <2> QED BY <2>1, <2>2
<1> HIDE DEF step
<1>5. SubRuns(B, A, u)
  BY <1>4 DEF SubRuns
<1> DEFINE c == CHOOSE v : SubRuns(B, A, v)
<1>6. SubRuns(B, A, c) /\ Sub(B, A) = c[m]
  BY <1>5 DEF Sub, SubRuns
<1> HIDE DEF c
<1>7. \A k \in 0 .. m : c[k] = IF k = 0 THEN <<>> ELSE IF k \in A THEN Append(c[k - 1], B[k]) ELSE c[k - 1]
  BY <1>6 DEF SubRuns
<1>8. \A k \in 0 .. m : c[k] = u[k]
  <2> HIDE DEF m
  <2>1. c[0] = u[0]
    BY <1>1, <1>4, <1>7
  <2>2. ASSUME NEW k \in 1 .. m, c[k - 1] = u[k - 1] PROVE c[k] = u[k]
    <3>1. k \in 0 .. m /\ k # 0
      OBVIOUS
    <3> QED BY <2>2, <3>1, <1>4, <1>7
  <2>3. Together(m, c, u)
    BY <2>1, <2>2 DEF Together
  <2> QED BY <1>1, <2>3, Alike
<1>9. c[m] = u[m]
  BY <1>1, <1>8
<1> QED BY <1>5, <1>6, <1>9

(* A sub-word is a word, and depends on the mask only within the word.     *)
LEMMA SubIs ==
  ASSUME NEW D, NEW w \in Seq(D), NEW A
  PROVE  /\ Sub(w, A) \in Seq(D)
         /\ Sub(<<>>, A) = <<>>
         /\ \A C : (\A k \in 1 .. Len(w) : k \in A <=> k \in C) => Sub(w, C) = Sub(w, A)
<1>1. PICK u \in [0 .. Len(w) -> Seq(D)] : SubRuns(w, A, u) /\ Sub(w, A) = u[Len(w)]
  BY SubRunsExist
<1>2. Len(w) \in Nat
  BY LenProperties
<1>3. Sub(w, A) \in Seq(D)
  BY <1>1, <1>2
<1>4. Sub(<<>>, A) = <<>>
  <2>1. <<>> \in Seq(D) /\ Len(<<>>) = 0
    BY EmptySeq
  <2>2. PICK v \in [0 .. 0 -> Seq(D)] : SubRuns(<<>>, A, v) /\ Sub(<<>>, A) = v[0]
    BY <2>1, SubRunsExist
  <2> QED BY <2>1, <2>2 DEF SubRuns
<1>5. ASSUME NEW C, \A k \in 1 .. Len(w) : k \in A <=> k \in C
      PROVE  Sub(w, C) = Sub(w, A)
  <2>1. PICK v \in [0 .. Len(w) -> Seq(D)] : SubRuns(w, C, v) /\ Sub(w, C) = v[Len(w)]
    BY SubRunsExist
  <2>2. /\ \A k \in 0 .. Len(w) : u[k] = IF k = 0 THEN <<>> ELSE IF k \in A THEN Append(u[k - 1], w[k]) ELSE u[k - 1]
        /\ \A k \in 0 .. Len(w) : v[k] = IF k = 0 THEN <<>> ELSE IF k \in C THEN Append(v[k - 1], w[k]) ELSE v[k - 1]
    BY <1>1, <2>1 DEF SubRuns
  <2>3. \A k \in 0 .. Len(w) : v[k] = u[k]
    <3>1. v[0] = u[0]
      BY <1>2, <2>2
    <3>2. ASSUME NEW k \in 1 .. Len(w), v[k - 1] = u[k - 1] PROVE v[k] = u[k]
      <4>1. k \in 0 .. Len(w) /\ k # 0
        BY <1>2
      <4> QED BY <4>1, <3>2, <2>2, <1>5
    <3>3. Together(Len(w), v, u)
      BY <3>1, <3>2 DEF Together
    <3> QED BY <1>2, <3>3, Alike
  <2> QED BY <1>1, <1>2, <2>1, <2>3
<1> QED BY <1>3, <1>4, <1>5

(* The sub-word of a word with a letter added.                             *)
LEMMA SubAdd ==
  ASSUME NEW D, NEW w \in Seq(D), NEW b \in D, NEW A
  PROVE  Sub(Append(w, b), A) = IF Len(w) + 1 \in A THEN Append(Sub(w, A), b) ELSE Sub(w, A)
<1> DEFINE n == Len(w)
           x == Append(w, b)
           m == Len(x)
<1>1. /\ x \in Seq(D) /\ m = n + 1 /\ n \in Nat /\ m \in Nat
      /\ x[m] = b /\ \A k \in 1 .. n : x[k] = w[k]
  BY AddIs
<1>2. PICK u : SubRuns(w, A, u) /\ Sub(w, A) = u[n]
  BY SubRunsExist
<1>3. PICK v : SubRuns(x, A, v) /\ Sub(x, A) = v[m]
  <2> HIDE DEF x
  <2> QED BY <1>1, SubRunsExist
<1>4. /\ \A k \in 0 .. n : u[k] = IF k = 0 THEN <<>> ELSE IF k \in A THEN Append(u[k - 1], w[k]) ELSE u[k - 1]
      /\ \A k \in 0 .. m : v[k] = IF k = 0 THEN <<>> ELSE IF k \in A THEN Append(v[k - 1], x[k]) ELSE v[k - 1]
  <2> HIDE DEF x
  <2> QED BY <1>2, <1>3 DEF SubRuns
<1> HIDE DEF n, m, x
<1>5. \A k \in 0 .. n : v[k] = u[k]
  <2>1. v[0] = u[0]
    BY <1>1, <1>4
  <2>2. ASSUME NEW k \in 1 .. n, v[k - 1] = u[k - 1] PROVE v[k] = u[k]
    <3>1. k \in 0 .. n /\ k \in 0 .. m /\ k # 0 /\ x[k] = w[k]
      BY <1>1
    <3>2. u[k] = IF k \in A THEN Append(u[k - 1], w[k]) ELSE u[k - 1]
      BY <3>1, <1>4
    <3>3. v[k] = IF k \in A THEN Append(v[k - 1], x[k]) ELSE v[k - 1]
      BY <3>1, <1>4
    <3> QED BY <3>1, <3>2, <3>3, <2>2
  <2>3. Together(n, v, u)
    BY <2>1, <2>2 DEF Together
  <2> QED BY <1>1, <2>3, Alike
<1>6. v[m] = IF m \in A THEN Append(v[n], b) ELSE v[n]
  <2>1. m \in 0 .. m /\ m # 0 /\ m - 1 = n
    BY <1>1
  <2>2. v[m] = IF m \in A THEN Append(v[m - 1], x[m]) ELSE v[m - 1]
    BY <2>1, <1>4
  <2> QED BY <2>1, <2>2, <1>1
<1>7. v[n] = u[n]
  BY <1>1, <1>5
<1> QED BY <1>1, <1>2, <1>3, <1>6, <1>7 DEF n, x

(* The rest of a word with a letter added.                                 *)
LEMMA RestAdd ==
  ASSUME NEW D, NEW w \in Seq(D), NEW b \in D, NEW A
  PROVE  /\ Rest(Append(w, b), A) = IF Len(w) + 1 \in A THEN Rest(w, A) ELSE Append(Rest(w, A), b)
         /\ Rest(w, A) \in Seq(D)
<1> DEFINE C == 1 .. Len(w) + 1 \ A
<1>1. Len(Append(w, b)) = Len(w) + 1 /\ Len(w) \in Nat
  BY AddIs
<1>2. Rest(Append(w, b), A) = Sub(Append(w, b), C)
  BY <1>1 DEF Rest
<1>3. Sub(Append(w, b), C) = IF Len(w) + 1 \in C THEN Append(Sub(w, C), b) ELSE Sub(w, C)
  BY SubAdd
<1>4. Sub(w, C) = Rest(w, A)
  <2>1. \A k \in 1 .. Len(w) : k \in 1 .. Len(w) \ A <=> k \in C
    BY <1>1
  <2> QED BY <2>1, SubIs DEF Rest
<1>5. Len(w) + 1 \in C <=> Len(w) + 1 \notin A
  BY <1>1
<1> QED BY <1>2, <1>3, <1>4, <1>5, SubIs DEF Rest

(* The sizes of a sub-tuple and of its complement.                         *)
LEMMA SubSizes ==
  ASSUME NEW D
  PROVE  \A w \in Seq(D) : \A A :
           /\ Len(Sub(w, A)) + Len(Rest(w, A)) = Len(w)
           /\ (\E k \in 1 .. Len(w) : k \in A) => Len(Sub(w, A)) > 0
           /\ (\E k \in 1 .. Len(w) : k \notin A) => Len(Rest(w, A)) > 0
<1> DEFINE Good(w) == \A A :
             /\ Len(Sub(w, A)) + Len(Rest(w, A)) = Len(w)
             /\ (\E k \in 1 .. Len(w) : k \in A) => Len(Sub(w, A)) > 0
             /\ (\E k \in 1 .. Len(w) : k \notin A) => Len(Rest(w, A)) > 0
           T == {w \in Seq(D) : Good(w)}
<1>1. <<>> \in T
  <2>1. \A A : Sub(<<>>, A) = <<>> /\ Rest(<<>>, A) = <<>>
    BY EmptySeq, SubIs DEF Rest
  <2> QED BY <2>1, EmptySeq
<1>2. ASSUME NEW w \in Seq(D), w \in T, NEW b \in D PROVE Append(w, b) \in T
  <2> SUFFICES ASSUME NEW A
               PROVE  /\ Len(Sub(Append(w, b), A)) + Len(Rest(Append(w, b), A)) = Len(Append(w, b))
                      /\ (\E k \in 1 .. Len(Append(w, b)) : k \in A) => Len(Sub(Append(w, b), A)) > 0
                      /\ (\E k \in 1 .. Len(Append(w, b)) : k \notin A) => Len(Rest(Append(w, b), A)) > 0
    BY AddIs
  <2> DEFINE s == Sub(w, A)
             t == Rest(w, A)
  <2>1. Len(Append(w, b)) = Len(w) + 1 /\ Len(w) \in Nat
    BY AddIs
  <2>2. /\ Len(s) + Len(t) = Len(w)
        /\ (\E k \in 1 .. Len(w) : k \in A) => Len(s) > 0
        /\ (\E k \in 1 .. Len(w) : k \notin A) => Len(t) > 0
    BY <1>2
  <2>3. s \in Seq(D) /\ t \in Seq(D)
    BY SubIs, RestAdd
  <2>4. /\ Len(s) \in Nat /\ Len(t) \in Nat
        /\ Len(Append(s, b)) = Len(s) + 1 /\ Len(Append(t, b)) = Len(t) + 1
    <3> HIDE DEF s, t
    <3> QED BY <2>3, AddIs
  <2>5. /\ Sub(Append(w, b), A) = IF Len(w) + 1 \in A THEN Append(s, b) ELSE s
        /\ Rest(Append(w, b), A) = IF Len(w) + 1 \in A THEN t ELSE Append(t, b)
    BY SubAdd, RestAdd
  <2>6. \A k \in 1 .. Len(Append(w, b)) : k \in 1 .. Len(w) \/ k = Len(w) + 1
    BY <2>1
  <2> HIDE DEF s, t
  <2>7. CASE Len(w) + 1 \in A
    <3>1. Sub(Append(w, b), A) = Append(s, b) /\ Rest(Append(w, b), A) = t
      BY <2>5, <2>7
    <3>2. (\E k \in 1 .. Len(Append(w, b)) : k \notin A) => \E k \in 1 .. Len(w) : k \notin A
      BY <2>6, <2>7
    <3> QED BY <3>1, <3>2, <2>1, <2>2, <2>4
  <2>8. CASE Len(w) + 1 \notin A
    <3>1. Sub(Append(w, b), A) = s /\ Rest(Append(w, b), A) = Append(t, b)
      BY <2>5, <2>8
    <3>2. (\E k \in 1 .. Len(Append(w, b)) : k \in A) => \E k \in 1 .. Len(w) : k \in A
      BY <2>6, <2>8
    <3> QED BY <3>1, <3>2, <2>1, <2>2, <2>4
  <2> QED BY <2>7, <2>8
<1> HIDE DEF T
<1>3. Seq(D) \subseteq T
  BY <1>1, <1>2, WordSet
<1> QED BY <1>3 DEF T

(* The full mask takes the whole word.                                     *)
LEMMA SubWhole ==
  ASSUME NEW D
  PROVE  \A w \in Seq(D) : Sub(w, 1 .. Len(w)) = w
<1> DEFINE T == {w \in Seq(D) : Sub(w, 1 .. Len(w)) = w}
<1>1. <<>> \in T
  BY EmptySeq, SubIs
<1>2. ASSUME NEW w \in Seq(D), w \in T, NEW b \in D PROVE Append(w, b) \in T
  <2> DEFINE C == 1 .. Len(Append(w, b))
  <2>1. Append(w, b) \in Seq(D) /\ Len(Append(w, b)) = Len(w) + 1 /\ Len(w) \in Nat
    BY AddIs
  <2>2. Len(w) + 1 \in C /\ \A k \in 1 .. Len(w) : k \in 1 .. Len(w) <=> k \in C
    BY <2>1
  <2>3. Sub(w, C) = Sub(w, 1 .. Len(w))
    BY <2>2, SubIs
  <2> HIDE DEF C
  <2>4. Sub(Append(w, b), C) = IF Len(w) + 1 \in C THEN Append(Sub(w, C), b) ELSE Sub(w, C)
    BY SubAdd
  <2>5. Sub(Append(w, b), C) = Append(w, b)
    BY <1>2, <2>2, <2>3, <2>4
  <2> QED BY <2>1, <2>5 DEF C
<1> HIDE DEF T
<1>3. Seq(D) \subseteq T
  BY <1>1, <1>2, WordSet
<1> QED BY <1>3 DEF T

(* The sizes at a mask: a sub-tuple is empty at the empty mask only, and   *)
(* its complement at the full one.                                         *)
LEMMA MaskSizes ==
  ASSUME NEW D, NEW w \in Seq(D), NEW A \in Masks(Len(w))
  PROVE  /\ Sub(w, A) \in Seq(D) /\ Rest(w, A) \in Seq(D)
         /\ Len(Sub(w, A)) \in Nat /\ Len(Rest(w, A)) \in Nat /\ Len(w) \in Nat
         /\ Len(Sub(w, A)) + Len(Rest(w, A)) = Len(w)
         /\ A # {} => Len(Sub(w, A)) > 0
         /\ A # 1 .. Len(w) => Len(Rest(w, A)) > 0
         /\ A = {} => Sub(w, A) = <<>>
         /\ A = 1 .. Len(w) => Rest(w, A) = <<>>
<1>1. Sub(w, A) \in Seq(D) /\ Rest(w, A) \in Seq(D)
  BY SubIs DEF Rest
<1>2. Len(Sub(w, A)) \in Nat /\ Len(Rest(w, A)) \in Nat /\ Len(w) \in Nat
  BY <1>1, LenProperties
<1>3. /\ Len(Sub(w, A)) + Len(Rest(w, A)) = Len(w)
      /\ (\E k \in 1 .. Len(w) : k \in A) => Len(Sub(w, A)) > 0
      /\ (\E k \in 1 .. Len(w) : k \notin A) => Len(Rest(w, A)) > 0
  BY SubSizes
<1>4. /\ A # {} => \E k \in 1 .. Len(w) : k \in A
      /\ A # 1 .. Len(w) => \E k \in 1 .. Len(w) : k \notin A
  BY DEF Masks
<1>5. \A C : (\A k \in 1 .. Len(w) : k \notin C) => Len(Sub(w, C)) = 0
  <2> SUFFICES ASSUME NEW C, \A k \in 1 .. Len(w) : k \notin C PROVE Len(Sub(w, C)) = 0
    OBVIOUS
  <2>1. \A k \in 1 .. Len(w) : k \in 1 .. Len(w) \ C <=> k \in 1 .. Len(w)
    OBVIOUS
  <2>2. Sub(w, C) \in Seq(D) /\ Rest(w, C) \in Seq(D)
    BY SubIs DEF Rest
  <2>3. Len(Sub(w, C)) + Len(Rest(w, C)) = Len(w)
    BY SubSizes
  <2>4. Len(Rest(w, C)) = Len(w)
    <3>1. Rest(w, C) = Sub(w, 1 .. Len(w))
      BY <2>1, SubIs DEF Rest
    <3>2. Sub(w, 1 .. Len(w)) = w
      BY SubWhole
    <3> QED BY <3>1, <3>2
  <2> QED BY <1>2, <2>2, <2>3, <2>4, LenProperties
<1>6. A = {} => Sub(w, A) = <<>>
  BY <1>1, <1>5, EmptySeq
<1>7. A = 1 .. Len(w) => Rest(w, A) = <<>>
  BY <1>1, <1>5, EmptySeq DEF Rest
<1> QED BY <1>1, <1>2, <1>3, <1>4, <1>6, <1>7

(* The partial sums over the masks.                                        *)
SumRuns(m, F, u) ==
  u = [j \in 0 .. m |->
         [A \in Masks(m) |-> IF j = 0 THEN F[A] ELSE u[j - 1][A] + u[j - 1][A \union {j}]]]
Summable(m, F) == \A A \in Masks(m) : F[A] \in Int

(* The values of SumOver's recursion are integers.                         *)
LEMMA SumRunsExist ==
  ASSUME NEW m \in Nat, NEW F, Summable(m, F)
  PROVE  \E u \in [0 .. m -> [Masks(m) -> Int]] : SumRuns(m, F, u) /\ SumOver(m, F) = u[m][{}]
<1> DEFINE T == [Masks(m) -> Int]
           s == [A \in Masks(m) |-> F[A]]
           step == [j \in 1 .. m |-> [t \in T |-> [A \in Masks(m) |-> t[A] + t[A \union {j}]]]]
<1>1. \A j \in 1 .. m : \A A \in Masks(m) : A \union {j} \in Masks(m)
  BY DEF Masks
<1>2. s \in T
  BY DEF Summable
<1>3. step \in [1 .. m -> [T -> T]]
  BY <1>1
<1>4. PICK u \in [0 .. m -> T] : Goes(s, step, m, u)
  <2> HIDE DEF T, s, step
  <2>1. Steps(T, s, m, step)
    BY <1>2, <1>3 DEF Steps
  <2> QED BY <2>1, StepsExist
<1>5. ASSUME NEW j \in 0 .. m
      PROVE  u[j] = [A \in Masks(m) |-> IF j = 0 THEN F[A] ELSE u[j - 1][A] + u[j - 1][A \union {j}]]
  <2>1. CASE j = 0
    <3>1. u[0] = s
      BY <1>4, <2>1 DEF Goes
    <3> QED BY <2>1, <3>1
  <2>2. CASE j # 0
    <3>1. j \in 1 .. m /\ j - 1 \in 0 .. m
      BY <2>2
    <3>2. u[j - 1] \in T
      BY <3>1
    <3>3. u[j] = step[j][u[j - 1]]
      BY <1>4, <2>2 DEF Goes
    <3>4. step[j][u[j - 1]] = [A \in Masks(m) |-> u[j - 1][A] + u[j - 1][A \union {j}]]
      BY <3>1, <3>2
    <3> QED BY <2>2, <3>3, <3>4
  <2> QED BY <2>1, <2>2
<1> HIDE DEF step, s
<1>6. SumRuns(m, F, u)
  <2> HIDE DEF T
  <2> QED BY <1>5 DEF SumRuns
<1> DEFINE c == CHOOSE v : SumRuns(m, F, v)
<1>7. SumRuns(m, F, c) /\ SumOver(m, F) = c[m][{}]
  BY <1>6 DEF SumOver, SumRuns
<1> HIDE DEF c, T
<1>8. \A j \in 0 .. m : c[j] = [A \in Masks(m) |-> IF j = 0 THEN F[A] ELSE c[j - 1][A] + c[j - 1][A \union {j}]]
  BY <1>7 DEF SumRuns
<1>9. Together(m, c, u)
  <2>1. c[0] = u[0]
    <3>1. 0 \in 0 .. m
      OBVIOUS
    <3>2. c[0] = [A \in Masks(m) |-> F[A]] /\ u[0] = [A \in Masks(m) |-> F[A]]
      BY <3>1, <1>5, <1>8
    <3> QED BY <3>2
  <2>2. ASSUME NEW j \in 1 .. m, c[j - 1] = u[j - 1] PROVE c[j] = u[j]
    <3>1. j \in 0 .. m /\ j # 0
      OBVIOUS
    <3>2. c[j] = [A \in Masks(m) |-> c[j - 1][A] + c[j - 1][A \union {j}]]
      BY <3>1, <1>8
    <3>3. u[j] = [A \in Masks(m) |-> u[j - 1][A] + u[j - 1][A \union {j}]]
      BY <3>1, <1>5
    <3> QED BY <3>2, <3>3, <2>2
  <2> QED BY <2>1, <2>2 DEF Together
<1>10. c[m] = u[m]
  BY <1>9, Alike
<1> QED BY <1>6, <1>7, <1>10 DEF T

(* A sum of integers over the masks is an integer.                         *)
LEMMA SumOverIsInt ==
  ASSUME NEW m \in Nat, NEW F, Summable(m, F)
  PROVE  SumOver(m, F) \in Int
<1>1. PICK u \in [0 .. m -> [Masks(m) -> Int]] : SumOver(m, F) = u[m][{}]
  BY SumRunsExist
<1>2. {} \in Masks(m) /\ m \in 0 .. m
  BY DEF Masks
<1> QED BY <1>1, <1>2

(* Over no position there is one mask.                                     *)
LEMMA SumOverOne ==
  ASSUME NEW F, F[{}] \in Int
  PROVE  Summable(0, F) /\ SumOver(0, F) = F[{}]
<1>1. Masks(0) = {{}}
  BY DEF Masks
<1>2. Summable(0, F)
  BY <1>1 DEF Summable
<1>3. PICK u \in [0 .. 0 -> [Masks(0) -> Int]] : SumRuns(0, F, u) /\ SumOver(0, F) = u[0][{}]
  BY <1>2, SumRunsExist
<1> QED BY <1>1, <1>2, <1>3 DEF SumRuns

(* The masks of order m + 1 are those of order m and those with m + 1.     *)
Halves(m, F, G, H) == \A A \in Masks(m) : G[A] = F[A] /\ H[A] = F[A \union {m + 1}]

(* With one position more, the sum is that over the masks without it and   *)
(* that over the masks with it.                                            *)
LEMMA SumOverAdd ==
  ASSUME NEW m \in Nat, NEW F, NEW G, NEW H, Summable(m + 1, F), Halves(m, F, G, H)
  PROVE  /\ Summable(m, G) /\ Summable(m, H)
         /\ SumOver(m + 1, F) = SumOver(m, G) + SumOver(m, H)
<1> DEFINE p == m + 1
<1>0. p \in Nat /\ p = m + 1
  OBVIOUS
<1> HIDE DEF p
<1>1. \A A \in Masks(m) : A \in Masks(p) /\ A \union {p} \in Masks(p)
  BY <1>0 DEF Masks
<1>2. Summable(p, F) /\ \A A \in Masks(m) : G[A] = F[A] /\ H[A] = F[A \union {p}]
  BY <1>0 DEF Halves
<1>3. Summable(m, G) /\ Summable(m, H)
  BY <1>1, <1>2 DEF Summable
<1>4. PICK u : SumRuns(p, F, u) /\ SumOver(p, F) = u[p][{}]
  BY <1>0, <1>2, SumRunsExist
<1>5. PICK v : SumRuns(m, G, v) /\ SumOver(m, G) = v[m][{}]
  BY <1>3, SumRunsExist
<1>6. PICK w : SumRuns(m, H, w) /\ SumOver(m, H) = w[m][{}]
  BY <1>3, SumRunsExist
<1>7. /\ \A A \in Masks(p) : u[0][A] = F[A]
      /\ \A j \in 1 .. p : \A A \in Masks(p) : u[j][A] = u[j - 1][A] + u[j - 1][A \union {j}]
  <2>1. \A j \in 0 .. p : u[j] = [A \in Masks(p) |-> IF j = 0 THEN F[A] ELSE u[j - 1][A] + u[j - 1][A \union {j}]]
    BY <1>4 DEF SumRuns
  <2>2. 0 \in 0 .. p /\ \A j \in 1 .. p : j \in 0 .. p /\ j # 0
    BY <1>0
  <2>3. u[0] = [A \in Masks(p) |-> F[A]]
    BY <2>1, <2>2
  <2>4. \A j \in 1 .. p : u[j] = [A \in Masks(p) |-> u[j - 1][A] + u[j - 1][A \union {j}]]
    BY <2>1, <2>2
  <2> QED BY <2>3, <2>4
<1>8. /\ \A A \in Masks(m) : v[0][A] = G[A]
      /\ \A j \in 1 .. m : \A A \in Masks(m) : v[j][A] = v[j - 1][A] + v[j - 1][A \union {j}]
  <2>1. \A j \in 0 .. m : v[j] = [A \in Masks(m) |-> IF j = 0 THEN G[A] ELSE v[j - 1][A] + v[j - 1][A \union {j}]]
    BY <1>5 DEF SumRuns
  <2>2. 0 \in 0 .. m /\ \A j \in 1 .. m : j \in 0 .. m /\ j # 0
    BY <1>0
  <2>3. v[0] = [A \in Masks(m) |-> G[A]]
    BY <2>1, <2>2
  <2>4. \A j \in 1 .. m : v[j] = [A \in Masks(m) |-> v[j - 1][A] + v[j - 1][A \union {j}]]
    BY <2>1, <2>2
  <2> QED BY <2>3, <2>4
<1>9. /\ \A A \in Masks(m) : w[0][A] = H[A]
      /\ \A j \in 1 .. m : \A A \in Masks(m) : w[j][A] = w[j - 1][A] + w[j - 1][A \union {j}]
  <2>1. \A j \in 0 .. m : w[j] = [A \in Masks(m) |-> IF j = 0 THEN H[A] ELSE w[j - 1][A] + w[j - 1][A \union {j}]]
    BY <1>6 DEF SumRuns
  <2>2. 0 \in 0 .. m /\ \A j \in 1 .. m : j \in 0 .. m /\ j # 0
    BY <1>0
  <2>3. w[0] = [A \in Masks(m) |-> H[A]]
    BY <2>1, <2>2
  <2>4. \A j \in 1 .. m : w[j] = [A \in Masks(m) |-> w[j - 1][A] + w[j - 1][A \union {j}]]
    BY <2>1, <2>2
  <2> QED BY <2>3, <2>4
<1> DEFINE Both(j) == \A A \in Masks(m) : u[j][A] = v[j][A] /\ u[j][A \union {p}] = w[j][A]
           N == {n \in Nat : n <= m => Both(n)}
<1>10. 0 \in N
  <2> SUFFICES ASSUME NEW A \in Masks(m) PROVE u[0][A] = v[0][A] /\ u[0][A \union {p}] = w[0][A]
    OBVIOUS
  <2>1. 0 \in 0 .. p /\ 0 \in 0 .. m
    BY <1>0
  <2>2. u[0][A] = F[A] /\ u[0][A \union {p}] = F[A \union {p}]
    BY <1>1, <1>7, <2>1
  <2>3. v[0][A] = G[A] /\ w[0][A] = H[A]
    BY <1>8, <1>9, <2>1
  <2> QED BY <2>2, <2>3, <1>2
<1>11. ASSUME NEW n \in Nat, n \in N PROVE n + 1 \in N
  <2> SUFFICES ASSUME n + 1 <= m, NEW A \in Masks(m)
               PROVE  u[n + 1][A] = v[n + 1][A] /\ u[n + 1][A \union {p}] = w[n + 1][A]
    OBVIOUS
  <2> DEFINE j == n + 1
             C == A \union {j}
  <2>1. j \in 0 .. m /\ j \in 0 .. p /\ j # 0 /\ j - 1 = n /\ j \in 1 .. m
    BY <1>0
  <2>2. Both(n)
    BY <1>11
  <2> HIDE DEF j
  <2>3. C \in Masks(m) /\ (A \union {p}) \union {j} = C \union {p}
    BY <2>1 DEF Masks
  <2>4. u[j][A] = u[n][A] + u[n][C]
    <3>1. j \in 1 .. p
      BY <1>0, <2>1
    <3>2. u[j][A] = u[j - 1][A] + u[j - 1][A \union {j}]
      BY <1>1, <1>7, <3>1, Zenon
    <3> QED BY <3>2, <2>1
  <2>5. u[j][A \union {p}] = u[n][A \union {p}] + u[n][C \union {p}]
    <3>1. u[j][A \union {p}] = u[j - 1][A \union {p}] + u[j - 1][(A \union {p}) \union {j}]
      <4>1. j \in 1 .. p
        BY <1>0, <2>1
      <4> QED BY <1>1, <1>7, <4>1, Zenon
    <3> QED BY <3>1, <2>1, <2>3
  <2>6. v[j][A] = v[n][A] + v[n][C] /\ w[j][A] = w[n][A] + w[n][C]
    <3>1. v[j][A] = v[j - 1][A] + v[j - 1][A \union {j}] /\ w[j][A] = w[j - 1][A] + w[j - 1][A \union {j}]
      BY <1>8, <1>9, <2>1, Zenon
    <3> QED BY <3>1, <2>1
  <2>7. u[n][A] = v[n][A] /\ u[n][C] = v[n][C] /\ u[n][A \union {p}] = w[n][A] /\ u[n][C \union {p}] = w[n][C]
    BY <2>2, <2>3
  <2> QED BY <2>4, <2>5, <2>6, <2>7 DEF j
<1> HIDE DEF N
<1>12. Nat \subseteq N
  BY <1>10, <1>11, NatSet
<1>13. Both(m)
  <2>1. m \in N /\ m <= m
    BY <1>12
  <2> QED BY <2>1 DEF N
<1>14. u[p][{}] = u[m][{}] + u[m][{} \union {p}]
  <2>1. p \in 1 .. p /\ p - 1 = m /\ {} \in Masks(p)
    BY <1>0 DEF Masks
  <2>2. u[p][{}] = u[p - 1][{}] + u[p - 1][{} \union {p}]
    BY <1>7, <2>1
  <2> QED BY <2>1, <2>2
<1>15. {} \in Masks(m)
  BY DEF Masks
<1>16. u[m][{}] = v[m][{}] /\ u[m][{} \union {p}] = w[m][{}]
  BY <1>13, <1>15
<1> QED BY <1>0, <1>3, <1>4, <1>5, <1>6, <1>14, <1>16

(* Insertion, an entry at a time.                                          *)
InsertRuns(s, b, u) ==
  u = [k \in 0 .. Len(s) |->
         IF k = 0 THEN <<b>>
         ELSE IF s[k] <= b THEN Append(SubSeq(s, 1, k), b)
         ELSE Append(u[k - 1], s[k])]

(* The values of Insert's recursion are words.                             *)
LEMMA InsertRunsExist ==
  ASSUME NEW D, NEW s \in Seq(D), NEW b \in D
  PROVE  \E u \in [0 .. Len(s) -> Seq(D)] : InsertRuns(s, b, u) /\ Insert(s, b) = u[Len(s)]
<1> DEFINE m == Len(s)
           T == Seq(D)
           step == [k \in 1 .. m |->
                      [t \in T |-> IF s[k] <= b THEN Append(SubSeq(s, 1, k), b) ELSE Append(t, s[k])]]
<1>1. m \in Nat /\ <<b>> \in T /\ \A k \in 1 .. m : s[k] \in D
  <2>1. <<b>> \in Seq(D)
    OBVIOUS
  <2> QED BY <2>1, LenProperties, ElementOfSeq
<1>2. \A k \in 1 .. m : SubSeq(s, 1, k) \in T
  <2> SUFFICES ASSUME NEW k \in 1 .. m PROVE SubSeq(s, 1, k) \in Seq(D)
    OBVIOUS
  <2>1. 1 \in Int /\ k \in Int /\ \A i \in 1 .. k : s[i] \in D
    BY <1>1
  <2> QED BY <2>1, SubSeqProperties
<1>3. step \in [1 .. m -> [T -> T]]
  <2>1. \A k \in 1 .. m : \A t \in T : Append(t, s[k]) \in T /\ Append(SubSeq(s, 1, k), b) \in T
    BY <1>1, <1>2, AddIs
  <2> HIDE DEF T, m
  <2> QED BY <2>1
<1>4. PICK u \in [0 .. m -> T] : Goes(<<b>>, step, m, u)
  <2> HIDE DEF m, T, step
  <2>1. Steps(T, <<b>>, m, step)
    BY <1>1, <1>3 DEF Steps
  <2> QED BY <2>1, StepsExist
<1>5. ASSUME NEW k \in 0 .. m
      PROVE  u[k] = IF k = 0 THEN <<b>>
                    ELSE IF s[k] <= b THEN Append(SubSeq(s, 1, k), b)
                    ELSE Append(u[k - 1], s[k])
  <2>1. CASE k = 0
    BY <1>4, <2>1 DEF Goes
  <2>2. CASE k # 0
    <3>1. k \in 1 .. m /\ k - 1 \in 0 .. m
      BY <1>1, <2>2
    <3>2. u[k - 1] \in T
      BY <3>1
    <3>3. u[k] = step[k][u[k - 1]]
      BY <1>4, <2>2 DEF Goes
    <3> HIDE DEF T, m
    <3> QED BY <2>2, <3>1, <3>2, <3>3
  <2> QED BY <2>1, <2>2
<1> HIDE DEF step, T
<1>6. InsertRuns(s, b, u)
  BY <1>5 DEF InsertRuns
<1> DEFINE c == CHOOSE v : InsertRuns(s, b, v)
<1>7. InsertRuns(s, b, c) /\ Insert(s, b) = c[m]
  BY <1>6 DEF Insert, InsertRuns
<1> HIDE DEF c
<1>8. \A k \in 0 .. m : c[k] = IF k = 0 THEN <<b>>
                               ELSE IF s[k] <= b THEN Append(SubSeq(s, 1, k), b)
                               ELSE Append(c[k - 1], s[k])
  BY <1>7 DEF InsertRuns
<1> HIDE DEF m
<1>9. Together(m, c, u)
  <2>1. c[0] = u[0]
    BY <1>1, <1>5, <1>8
  <2>2. ASSUME NEW k \in 1 .. m, c[k - 1] = u[k - 1] PROVE c[k] = u[k]
    <3>1. k \in 0 .. m /\ k # 0
      OBVIOUS
    <3>2. c[k] = IF s[k] <= b THEN Append(SubSeq(s, 1, k), b) ELSE Append(c[k - 1], s[k])
      BY <3>1, <1>8, Zenon
    <3>3. u[k] = IF s[k] <= b THEN Append(SubSeq(s, 1, k), b) ELSE Append(u[k - 1], s[k])
      BY <3>1, <1>5, Zenon
    <3> QED BY <3>2, <3>3, <2>2
  <2> QED BY <2>1, <2>2 DEF Together
<1>10. c[m] = u[m]
  BY <1>1, <1>9, Alike
<1> QED BY <1>6, <1>7, <1>10 DEF m, T

(* What Insert returns is a word.                                          *)
LEMMA InsertIs ==
  ASSUME NEW D, NEW s \in Seq(D), NEW b \in D
  PROVE  Insert(s, b) \in Seq(D) /\ Insert(<<>>, b) = Append(<<>>, b)
<1>1. Insert(s, b) \in Seq(D)
  <2>1. Len(s) \in 0 .. Len(s)
    BY LenProperties
  <2> QED BY <2>1, InsertRunsExist
<1>2. Insert(<<>>, b) = Append(<<>>, b)
  <2>1. <<>> \in Seq(D) /\ Len(<<>>) = 0
    BY EmptySeq
  <2>2. PICK v \in [0 .. 0 -> Seq(D)] : InsertRuns(<<>>, b, v) /\ Insert(<<>>, b) = v[0]
    BY <2>1, InsertRunsExist
  <2>3. v[0] = <<b>>
    BY <2>1, <2>2 DEF InsertRuns
  <2>4. Append(<<>>, b) = <<b>>
    OBVIOUS
  <2> QED BY <2>2, <2>3, <2>4
<1> QED BY <1>1, <1>2

(* Insertion into a word with a letter at its end.                         *)
LEMMA InsertAdd ==
  ASSUME NEW D, NEW s \in Seq(D), NEW c \in D, NEW b \in D
  PROVE  Insert(Append(s, c), b) = IF c <= b THEN Append(Append(s, c), b) ELSE Append(Insert(s, b), c)
<1> DEFINE n == Len(s)
           x == Append(s, c)
           m == Len(x)
<1>1. /\ x \in Seq(D) /\ m = n + 1 /\ n \in Nat /\ m \in Nat
      /\ x[m] = c /\ \A k \in 1 .. n : x[k] = s[k]
  BY AddIs
<1>2. PICK u : InsertRuns(s, b, u) /\ Insert(s, b) = u[n]
  BY InsertRunsExist
<1>3. PICK v : InsertRuns(x, b, v) /\ Insert(x, b) = v[m]
  <2> HIDE DEF x
  <2> QED BY <1>1, InsertRunsExist
<1>4. /\ \A k \in 0 .. n : u[k] = IF k = 0 THEN <<b>>
                                  ELSE IF s[k] <= b THEN Append(SubSeq(s, 1, k), b)
                                  ELSE Append(u[k - 1], s[k])
      /\ \A k \in 0 .. m : v[k] = IF k = 0 THEN <<b>>
                                  ELSE IF x[k] <= b THEN Append(SubSeq(x, 1, k), b)
                                  ELSE Append(v[k - 1], x[k])
  <2> HIDE DEF x
  <2> QED BY <1>2, <1>3 DEF InsertRuns
<1>5. SubSeq(x, 1, m) = x
  <2> HIDE DEF x
  <2> QED BY <1>1, SubSeqFull
<1>6. ASSUME NEW k \in 1 .. n PROVE SubSeq(x, 1, k) = SubSeq(s, 1, k)
  <2> HIDE DEF n, x, m
  <2>1. 1 \in Int /\ k \in Int /\ (\A i \in 1 .. k : x[i] = s[i]) /\ k \in Nat /\ 1 <= k /\ k - 1 + 1 = k
    BY <1>1
  <2>2. \A i \in 1 .. k : s[i] \in D /\ x[i] \in D
    <3>1. \A i \in 1 .. k : i \in 1 .. n
      BY <1>1
    <3> QED BY <2>1, <3>1, ElementOfSeq DEF n
  <2>3. /\ SubSeq(x, 1, k) \in Seq(D) /\ Len(SubSeq(x, 1, k)) = k
        /\ \A i \in 1 .. k : SubSeq(x, 1, k)[i] = x[1 + i - 1]
    BY <2>1, <2>2, SubSeqProperties
  <2>4. /\ SubSeq(s, 1, k) \in Seq(D) /\ Len(SubSeq(s, 1, k)) = k
        /\ \A i \in 1 .. k : SubSeq(s, 1, k)[i] = s[1 + i - 1]
    BY <2>1, <2>2, SubSeqProperties
  <2>5. \A i \in 1 .. k : 1 + i - 1 = i
    OBVIOUS
  <2>6. \A i \in 1 .. k : SubSeq(x, 1, k)[i] = SubSeq(s, 1, k)[i]
    BY <2>1, <2>3, <2>4, <2>5
  <2> QED BY <2>3, <2>4, <2>6, SeqEqual
<1> HIDE DEF n, m, x
<1>7. Together(n, v, u)
  <2>1. v[0] = u[0]
    <3>1. 0 \in 0 .. n /\ 0 \in 0 .. m
      BY <1>1
    <3> QED BY <3>1, <1>4
  <2>2. ASSUME NEW k \in 1 .. n, v[k - 1] = u[k - 1] PROVE v[k] = u[k]
    <3>1. k \in 0 .. n /\ k \in 0 .. m /\ k # 0 /\ x[k] = s[k]
      BY <1>1
    <3>2. u[k] = IF s[k] <= b THEN Append(SubSeq(s, 1, k), b) ELSE Append(u[k - 1], s[k])
      BY <3>1, <1>4, Zenon
    <3>3. v[k] = IF x[k] <= b THEN Append(SubSeq(x, 1, k), b) ELSE Append(v[k - 1], x[k])
      BY <3>1, <1>4, Zenon
    <3>4. SubSeq(x, 1, k) = SubSeq(s, 1, k)
      BY <1>6
    <3>5. CASE s[k] <= b
      <4>1. x[k] <= b
        BY <3>1, <3>5
      <4>2. v[k] = Append(SubSeq(x, 1, k), b) /\ u[k] = Append(SubSeq(s, 1, k), b)
        BY <3>2, <3>3, <3>5, <4>1, Zenon
      <4> QED BY <3>4, <4>2, Zenon
    <3>6. CASE ~ (s[k] <= b)
      <4>1. ~ (x[k] <= b)
        BY <3>1, <3>6
      <4>2. v[k] = Append(v[k - 1], x[k]) /\ u[k] = Append(u[k - 1], s[k])
        BY <3>2, <3>3, <3>6, <4>1, Zenon
      <4> QED BY <3>1, <4>2, <2>2
    <3> QED BY <3>5, <3>6
  <2> QED BY <2>1, <2>2 DEF Together
<1>8. v[n] = u[n]
  BY <1>1, <1>7, Alike
<1>9. v[m] = IF c <= b THEN Append(x, b) ELSE Append(v[n], c)
  <2>1. m \in 0 .. m /\ m # 0 /\ m - 1 = n
    BY <1>1
  <2>2. v[m] = IF x[m] <= b THEN Append(SubSeq(x, 1, m), b) ELSE Append(v[m - 1], x[m])
    BY <2>1, <1>4, Zenon
  <2> QED BY <2>1, <2>2, <1>1, <1>5
<1> QED BY <1>2, <1>3, <1>8, <1>9, Zenon DEF x

(* The values of Sorted's recursion.                                       *)
SortedRuns(w, u) == u = [k \in 0 .. Len(w) |-> IF k = 0 THEN <<>> ELSE Insert(u[k - 1], w[k])]

(* They are words.                                                         *)
LEMMA SortedRunsExist ==
  ASSUME NEW D, NEW w \in Seq(D)
  PROVE  \E u \in [0 .. Len(w) -> Seq(D)] : SortedRuns(w, u) /\ Sorted(w) = u[Len(w)]
<1> DEFINE m == Len(w)
           T == Seq(D)
           step == [k \in 1 .. m |-> [t \in T |-> Insert(t, w[k])]]
<1>1. m \in Nat /\ <<>> \in T /\ \A k \in 1 .. m : w[k] \in D
  BY LenProperties, ElementOfSeq, EmptySeq
<1>3. step \in [1 .. m -> [T -> T]]
  BY <1>1, InsertIs
<1>4. PICK u \in [0 .. m -> T] : Goes(<<>>, step, m, u)
  <2> HIDE DEF m, T, step
  <2>1. Steps(T, <<>>, m, step)
    BY <1>1, <1>3 DEF Steps
  <2> QED BY <2>1, StepsExist
<1>5. ASSUME NEW k \in 0 .. m
      PROVE  u[k] = IF k = 0 THEN <<>> ELSE Insert(u[k - 1], w[k])
  <2>1. CASE k = 0
    BY <1>4, <2>1 DEF Goes
  <2>2. CASE k # 0
    <3>1. k \in 1 .. m /\ k - 1 \in 0 .. m
      BY <1>1, <2>2
    <3>2. u[k - 1] \in T
      BY <3>1
    <3>3. u[k] = step[k][u[k - 1]]
      BY <1>4, <2>2 DEF Goes
    <3> HIDE DEF T, m
    <3> QED BY <2>2, <3>1, <3>2, <3>3
  <2> QED BY <2>1, <2>2
<1> HIDE DEF step, T
<1>6. SortedRuns(w, u)
  BY <1>5 DEF SortedRuns
<1> DEFINE c == CHOOSE v : SortedRuns(w, v)
<1>7. SortedRuns(w, c) /\ Sorted(w) = c[m]
  BY <1>6 DEF Sorted, SortedRuns
<1> HIDE DEF c
<1>8. \A k \in 0 .. m : c[k] = IF k = 0 THEN <<>> ELSE Insert(c[k - 1], w[k])
  BY <1>7 DEF SortedRuns
<1> HIDE DEF m
<1>9. Together(m, c, u)
  <2>1. c[0] = u[0]
    BY <1>1, <1>5, <1>8
  <2>2. ASSUME NEW k \in 1 .. m, c[k - 1] = u[k - 1] PROVE c[k] = u[k]
    <3>1. k \in 0 .. m /\ k # 0
      OBVIOUS
    <3>2. c[k] = Insert(c[k - 1], w[k]) /\ u[k] = Insert(u[k - 1], w[k])
      BY <3>1, <1>5, <1>8, Zenon
    <3> QED BY <3>2, <2>2
  <2> QED BY <2>1, <2>2 DEF Together
<1>10. c[m] = u[m]
  BY <1>1, <1>9, Alike
<1> QED BY <1>6, <1>7, <1>10 DEF m, T

(* What Sorted returns is a word.                                          *)
LEMMA SortedIs ==
  ASSUME NEW D, NEW w \in Seq(D)
  PROVE  Sorted(w) \in Seq(D) /\ Sorted(<<>>) = <<>>
<1>1. Sorted(w) \in Seq(D)
  <2>1. Len(w) \in 0 .. Len(w)
    BY LenProperties
  <2> QED BY <2>1, SortedRunsExist
<1>2. Sorted(<<>>) = <<>>
  <2>1. <<>> \in Seq(D) /\ Len(<<>>) = 0
    BY EmptySeq
  <2>2. PICK v \in [0 .. 0 -> Seq(D)] : SortedRuns(<<>>, v) /\ Sorted(<<>>) = v[0]
    BY <2>1, SortedRunsExist
  <2> QED BY <2>1, <2>2 DEF SortedRuns
<1> QED BY <1>1, <1>2

(* Sorting a word with a letter added inserts that letter.                 *)
LEMMA SortedAdd ==
  ASSUME NEW D, NEW w \in Seq(D), NEW b \in D
  PROVE  Sorted(Append(w, b)) = Insert(Sorted(w), b)
<1> DEFINE n == Len(w)
           x == Append(w, b)
           m == Len(x)
<1>1. /\ x \in Seq(D) /\ m = n + 1 /\ n \in Nat /\ m \in Nat
      /\ x[m] = b /\ \A k \in 1 .. n : x[k] = w[k]
  BY AddIs
<1>2. PICK u : SortedRuns(w, u) /\ Sorted(w) = u[n]
  BY SortedRunsExist
<1>3. PICK v : SortedRuns(x, v) /\ Sorted(x) = v[m]
  <2> HIDE DEF x
  <2> QED BY <1>1, SortedRunsExist
<1>4. /\ \A k \in 0 .. n : u[k] = IF k = 0 THEN <<>> ELSE Insert(u[k - 1], w[k])
      /\ \A k \in 0 .. m : v[k] = IF k = 0 THEN <<>> ELSE Insert(v[k - 1], x[k])
  <2> HIDE DEF x
  <2> QED BY <1>2, <1>3 DEF SortedRuns
<1> HIDE DEF n, m, x
<1>5. Together(n, v, u)
  <2>1. v[0] = u[0]
    <3>1. 0 \in 0 .. n /\ 0 \in 0 .. m
      BY <1>1
    <3> QED BY <3>1, <1>4
  <2>2. ASSUME NEW k \in 1 .. n, v[k - 1] = u[k - 1] PROVE v[k] = u[k]
    <3>1. k \in 0 .. n /\ k \in 0 .. m /\ k # 0 /\ x[k] = w[k]
      BY <1>1
    <3>2. u[k] = Insert(u[k - 1], w[k]) /\ v[k] = Insert(v[k - 1], x[k])
      BY <3>1, <1>4, Zenon
    <3> QED BY <3>1, <3>2, <2>2
  <2> QED BY <2>1, <2>2 DEF Together
<1>6. v[n] = u[n]
  BY <1>1, <1>5, Alike
<1>7. v[m] = Insert(v[n], b)
  <2>1. m \in 0 .. m /\ m # 0 /\ m - 1 = n
    BY <1>1
  <2>2. v[m] = Insert(v[m - 1], x[m])
    BY <2>1, <1>4, Zenon
  <2> QED BY <2>1, <2>2, <1>1
<1> QED BY <1>2, <1>3, <1>6, <1>7 DEF x

(* Words whose entries never fall, and words below a letter.               *)
Ascends(w) == \A i, j \in 1 .. Len(w) : i <= j => w[i] <= w[j]
Below(w, c) == \A i \in 1 .. Len(w) : w[i] <= c

(* When a word with a letter added ascends, and what is above it.          *)
LEMMA AscendsAdd ==
  ASSUME NEW D, D \subseteq Int, NEW s \in Seq(D), NEW c \in D
  PROVE  /\ Ascends(Append(s, c)) <=> Ascends(s) /\ Below(s, c)
         /\ \A e : Below(Append(s, c), e) <=> Below(s, e) /\ c <= e
<1> DEFINE x == Append(s, c)
           n == Len(s)
<1>1. Len(x) = n + 1 /\ n \in Nat /\ x[n + 1] = c /\ \A k \in 1 .. n : x[k] = s[k]
  BY AddIs
<1>2. \A k \in 1 .. n : s[k] \in Int
  BY ElementOfSeq
<1> HIDE DEF x, n
<1>3. \A k \in 1 .. n + 1 : k \in 1 .. n \/ k = n + 1
  BY <1>1
<1>4. \A k \in 1 .. n : k \in 1 .. n + 1 /\ k <= n + 1
  BY <1>1
<1>5. n + 1 \in 1 .. n + 1
  BY <1>1
<1>6. Ascends(x) => Ascends(s) /\ Below(s, c)
  BY <1>1, <1>4, <1>5 DEF Ascends, Below, n
<1>7. ASSUME Ascends(s), Below(s, c) PROVE Ascends(x)
  <2> SUFFICES ASSUME NEW i \in 1 .. n + 1, NEW j \in 1 .. n + 1, i <= j PROVE x[i] <= x[j]
    BY <1>1 DEF Ascends
  <2>1. CASE i \in 1 .. n /\ j \in 1 .. n
    BY <1>1, <1>7, <2>1 DEF Ascends, n
  <2>2. CASE i \in 1 .. n /\ j = n + 1
    BY <1>1, <1>7, <2>2 DEF Below, n
  <2>3. CASE i = n + 1
    <3>1. j = n + 1 /\ c \in Int
      BY <1>1, <2>3
    <3> QED BY <1>1, <2>3, <3>1
  <2> QED BY <1>3, <2>1, <2>2, <2>3
<1>8. ASSUME NEW e PROVE Below(x, e) <=> Below(s, e) /\ c <= e
  <2>1. Below(x, e) <=> \A k \in 1 .. n + 1 : x[k] <= e
    BY <1>1 DEF Below
  <2>2. Below(s, e) <=> \A k \in 1 .. n : x[k] <= e
    BY <1>1 DEF Below, n
  <2> QED BY <1>1, <1>3, <1>4, <1>5, <2>1, <2>2
<1> QED BY <1>6, <1>7, <1>8 DEF x

(* A letter that none exceeds goes to the end.                             *)
LEMMA InsertLarge ==
  ASSUME NEW D, D \subseteq Int, NEW s \in Seq(D), NEW b \in D, Below(s, b)
  PROVE  Insert(s, b) = Append(s, b)
<1>1. CASE s = <<>>
  BY <1>1, InsertIs
<1>2. CASE s # <<>>
  <2>1. PICK t \in Seq(D), c \in D : s = Append(t, c)
    BY <1>2, SequenceEmptyOrAppend
  <2>2. c <= b
    BY <2>1, AscendsAdd
  <2>3. Insert(Append(t, c), b) = IF c <= b THEN Append(Append(t, c), b) ELSE Append(Insert(t, b), c)
    BY InsertAdd
  <2> QED BY <2>1, <2>2, <2>3
<1> QED BY <1>1, <1>2

(* Insertion adds one entry, and keeps a word below its bound and ascending.*)
LEMMA InsertKeeps ==
  ASSUME NEW D, D \subseteq Int
  PROVE  \A s \in Seq(D) : \A b \in D :
           /\ Len(Insert(s, b)) = Len(s) + 1
           /\ \A e \in D : Below(s, e) /\ b <= e => Below(Insert(s, b), e)
           /\ Ascends(s) => Ascends(Insert(s, b))
<1> DEFINE Good(s, b) ==
             /\ Len(Insert(s, b)) = Len(s) + 1
             /\ \A e \in D : Below(s, e) /\ b <= e => Below(Insert(s, b), e)
             /\ Ascends(s) => Ascends(Insert(s, b))
           T == {s \in Seq(D) : \A b \in D : Good(s, b)}
<1>0. <<>> \in Seq(D)
  BY EmptySeq
<1>1. <<>> \in T
  <2> SUFFICES ASSUME NEW b \in D PROVE Good(<<>>, b)
    BY <1>0
  <2>1. Insert(<<>>, b) = Append(<<>>, b)
    BY <1>0, InsertIs
  <2>2. Below(<<>>, b) /\ Ascends(<<>>) /\ Len(<<>>) = 0
    BY EmptySeq DEF Below, Ascends
  <2>3. Len(Append(<<>>, b)) = Len(<<>>) + 1
    BY <1>0, AddIs
  <2>4. Ascends(Append(<<>>, b)) /\ \A e \in D : b <= e => Below(Append(<<>>, b), e)
    <3>1. \A e : Below(<<>>, e)
      BY EmptySeq DEF Below
    <3> QED BY <1>0, <2>2, <3>1, AscendsAdd
  <2> QED BY <2>1, <2>3, <2>4
<1>2. ASSUME NEW s \in Seq(D), s \in T, NEW c \in D PROVE Append(s, c) \in T
  <2>0. Append(s, c) \in Seq(D) /\ Len(Append(s, c)) = Len(s) + 1 /\ Len(s) \in Nat
    BY AddIs
  <2> SUFFICES ASSUME NEW b \in D PROVE Good(Append(s, c), b)
    BY <2>0
  <2>1. Insert(Append(s, c), b) = IF c <= b THEN Append(Append(s, c), b) ELSE Append(Insert(s, b), c)
    BY InsertAdd
  <2>2. /\ Ascends(Append(s, c)) <=> Ascends(s) /\ Below(s, c)
        /\ \A e \in D : Below(Append(s, c), e) <=> Below(s, e) /\ c <= e
    BY AscendsAdd
  <2>3. CASE c <= b
    <3>1. Insert(Append(s, c), b) = Append(Append(s, c), b)
      BY <2>1, <2>3
    <3>2. Len(Append(Append(s, c), b)) = Len(Append(s, c)) + 1
      BY <2>0, AddIs
    <3>3. /\ Ascends(Append(Append(s, c), b)) <=> Ascends(Append(s, c)) /\ Below(Append(s, c), b)
          /\ \A e \in D : Below(Append(Append(s, c), b), e) <=> Below(Append(s, c), e) /\ b <= e
      BY <2>0, AscendsAdd
    <3>4. Below(s, c) => Below(s, b)
      <4>1. \A i \in 1 .. Len(s) : s[i] \in Int
        BY ElementOfSeq
      <4>2. c \in Int /\ b \in Int
        OBVIOUS
      <4> QED BY <2>3, <4>1, <4>2 DEF Below
    <3> QED BY <2>2, <2>3, <3>1, <3>2, <3>3, <3>4
  <2>4. CASE ~ (c <= b)
    <3> DEFINE t == Insert(s, b)
    <3>1. Insert(Append(s, c), b) = Append(t, c)
      BY <2>1, <2>4
    <3>2. t \in Seq(D)
      BY InsertIs
    <3>3. Good(s, b)
      BY <1>2
    <3>4. Len(t) = Len(s) + 1 /\ (Ascends(s) => Ascends(t)) /\ \A e \in D : Below(s, e) /\ b <= e => Below(t, e)
      BY <3>3
    <3> HIDE DEF t
    <3>5. Len(Append(t, c)) = Len(t) + 1
      BY <3>2, AddIs
    <3>6. /\ Ascends(Append(t, c)) <=> Ascends(t) /\ Below(t, c)
          /\ \A e \in D : Below(Append(t, c), e) <=> Below(t, e) /\ c <= e
      BY <3>2, AscendsAdd
    <3>7. b <= c
      BY <2>4
    <3>8. Len(Append(t, c)) = Len(Append(s, c)) + 1
      BY <2>0, <3>4, <3>5
    <3>9. \A e \in D : Below(Append(s, c), e) /\ b <= e => Below(Append(t, c), e)
      BY <2>2, <3>4, <3>6
    <3>10. Ascends(Append(s, c)) => Ascends(Append(t, c))
      BY <2>2, <3>4, <3>6, <3>7
    <3> QED BY <3>1, <3>8, <3>9, <3>10
  <2> QED BY <2>3, <2>4
<1> HIDE DEF T
<1>3. Seq(D) \subseteq T
  BY <1>1, <1>2, WordSet
<1> QED BY <1>3 DEF T

(* Sorting keeps the length, ascends, and leaves a word that ascends.      *)
LEMMA SortedAscends ==
  ASSUME NEW D, D \subseteq Int
  PROVE  \A w \in Seq(D) :
           /\ Len(Sorted(w)) = Len(w) /\ Ascends(Sorted(w))
           /\ Ascends(w) => Sorted(w) = w
<1> DEFINE T == {w \in Seq(D) : /\ Len(Sorted(w)) = Len(w) /\ Ascends(Sorted(w))
                                /\ Ascends(w) => Sorted(w) = w}
<1>1. <<>> \in T
  <2>1. <<>> \in Seq(D) /\ Len(<<>>) = 0
    BY EmptySeq
  <2>2. Sorted(<<>>) = <<>>
    BY <2>1, SortedIs
  <2>3. Ascends(<<>>)
    BY <2>1 DEF Ascends
  <2> QED BY <2>1, <2>2, <2>3
<1>2. ASSUME NEW w \in Seq(D), w \in T, NEW b \in D PROVE Append(w, b) \in T
  <2>1. Append(w, b) \in Seq(D) /\ Len(Append(w, b)) = Len(w) + 1
    BY AddIs
  <2>2. Sorted(Append(w, b)) = Insert(Sorted(w), b) /\ Sorted(w) \in Seq(D)
    BY SortedAdd, SortedIs
  <2>3. Len(Insert(Sorted(w), b)) = Len(Sorted(w)) + 1 /\ Ascends(Insert(Sorted(w), b))
    BY <1>2, <2>2, InsertKeeps
  <2>4. ASSUME Ascends(Append(w, b)) PROVE Insert(Sorted(w), b) = Append(w, b)
    <3>1. Ascends(w) /\ Below(w, b)
      BY <2>4, AscendsAdd
    <3>2. Sorted(w) = w
      BY <1>2, <3>1
    <3> QED BY <3>1, <3>2, InsertLarge
  <2> QED BY <1>2, <2>1, <2>2, <2>3, <2>4
<1> HIDE DEF T
<1>3. Seq(D) \subseteq T
  BY <1>1, <1>2, WordSet
<1> QED BY <1>3 DEF T

(* The order of two insertions does not matter.                            *)
LEMMA InsertSwaps ==
  ASSUME NEW D, D \subseteq Int
  PROVE  \A s \in Seq(D) : \A b, c \in D : Insert(Insert(s, b), c) = Insert(Insert(s, c), b)
<1> DEFINE T == {s \in Seq(D) : \A b, c \in D : Insert(Insert(s, b), c) = Insert(Insert(s, c), b)}
<1>0. \A b, c \in D : b \in Int /\ c \in Int
  OBVIOUS
<1>1. <<>> \in T
  <2> DEFINE o == <<>>
  <2>1. o \in Seq(D) /\ \A e \in D : Insert(o, e) = Append(o, e)
    BY EmptySeq, InsertIs
  <2> SUFFICES ASSUME NEW b \in D, NEW c \in D
               PROVE  Insert(Insert(o, b), c) = Insert(Insert(o, c), b)
    BY <2>1
  <2> HIDE DEF o
  <2>2. Insert(Append(o, b), c) = IF b <= c THEN Append(Append(o, b), c) ELSE Append(Insert(o, c), b)
    BY <2>1, InsertAdd
  <2>3. Insert(Append(o, c), b) = IF c <= b THEN Append(Append(o, c), b) ELSE Append(Insert(o, b), c)
    BY <2>1, InsertAdd
  <2>4. (b <= c /\ c <= b => b = c) /\ (b <= c \/ c <= b)
    BY <1>0
  <2> QED BY <2>1, <2>2, <2>3, <2>4
<1>2. ASSUME NEW s \in Seq(D), s \in T, NEW d \in D PROVE Append(s, d) \in T
  <2>1. \A v \in Seq(D) : \A e \in D : Append(v, e) \in Seq(D) /\ Insert(v, e) \in Seq(D)
    BY AddIs, InsertIs
  <2>2. \A v \in Seq(D) : \A a, e \in D :
          Insert(Append(v, a), e) = IF a <= e THEN Append(Append(v, a), e) ELSE Append(Insert(v, e), a)
    BY InsertAdd
  <2> DEFINE x == Append(s, d)
  <2> SUFFICES ASSUME NEW b \in D, NEW c \in D
               PROVE  Insert(Insert(x, b), c) = Insert(Insert(x, c), b)
    BY <2>1
  <2>3. b <= c /\ c <= b => b = c
    BY <1>0
  <2>4. b <= c \/ c <= b
    BY <1>0
  <2> HIDE DEF T
  <2>5. CASE d <= b /\ d <= c
    <3>1. Insert(x, b) = Append(x, b) /\ Insert(x, c) = Append(x, c)
      BY <2>2, <2>5
    <3>2. Insert(Append(x, b), c) = IF b <= c THEN Append(Append(x, b), c) ELSE Append(Insert(x, c), b)
      BY <2>1, <2>2
    <3>3. Insert(Append(x, c), b) = IF c <= b THEN Append(Append(x, c), b) ELSE Append(Insert(x, b), c)
      BY <2>1, <2>2
    <3> HIDE DEF x
    <3> QED BY <2>3, <2>4, <3>1, <3>2, <3>3
  <2>6. CASE d <= b /\ ~ (d <= c)
    <3>1. Insert(x, b) = Append(x, b) /\ Insert(x, c) = Append(Insert(s, c), d)
      BY <2>2, <2>6
    <3>2. ~ (b <= c)
      <4>1. b \in Int /\ c \in Int /\ d \in Int
        BY <1>0
      <4> QED BY <2>6, <4>1
    <3>3. Insert(Append(x, b), c) = Append(Insert(x, c), b)
      BY <2>1, <2>2, <3>2
    <3>4. Insert(Append(Insert(s, c), d), b) = Append(Append(Insert(s, c), d), b)
      BY <2>1, <2>2, <2>6
    <3> HIDE DEF x
    <3> QED BY <3>1, <3>3, <3>4
  <2>7. CASE ~ (d <= b) /\ d <= c
    <3>1. Insert(x, c) = Append(x, c) /\ Insert(x, b) = Append(Insert(s, b), d)
      BY <2>2, <2>7
    <3>2. ~ (c <= b)
      <4>1. b \in Int /\ c \in Int /\ d \in Int
        BY <1>0
      <4> QED BY <2>7, <4>1
    <3>3. Insert(Append(x, c), b) = Append(Insert(x, b), c)
      BY <2>1, <2>2, <3>2
    <3>4. Insert(Append(Insert(s, b), d), c) = Append(Append(Insert(s, b), d), c)
      BY <2>1, <2>2, <2>7
    <3> HIDE DEF x
    <3> QED BY <3>1, <3>3, <3>4
  <2>8. CASE ~ (d <= b) /\ ~ (d <= c)
    <3>1. Insert(x, b) = Append(Insert(s, b), d) /\ Insert(x, c) = Append(Insert(s, c), d)
      BY <2>2, <2>8
    <3>2. Insert(Append(Insert(s, b), d), c) = Append(Insert(Insert(s, b), c), d)
      BY <2>1, <2>2, <2>8
    <3>3. Insert(Append(Insert(s, c), d), b) = Append(Insert(Insert(s, c), b), d)
      BY <2>1, <2>2, <2>8
    <3>4. Insert(Insert(s, b), c) = Insert(Insert(s, c), b)
      BY <1>2 DEF T
    <3> HIDE DEF x
    <3> QED BY <3>1, <3>2, <3>3, <3>4
  <2> QED BY <2>5, <2>6, <2>7, <2>8
<1> HIDE DEF T
<1>3. Seq(D) \subseteq T
  BY <1>1, <1>2, WordSet
<1> QED BY <1>3 DEF T

(* The multisets are the ascending words.                                  *)
LEMMA MultisetsAre ==
  ASSUME NEW P \in Nat, NEW n \in Nat
  PROVE  /\ \A B : B \in TuplesOver(P, n) <=> B \in Seq(1 .. P) /\ Len(B) = n
         /\ \A B : B \in MultisetsOver(P, n) <=> B \in Seq(1 .. P) /\ Len(B) = n /\ Ascends(B)
<1>1. ASSUME NEW B PROVE B \in TuplesOver(P, n) <=> B \in Seq(1 .. P) /\ Len(B) = n
  <2>1. ASSUME B \in [1 .. n -> 1 .. P] PROVE B \in Seq(1 .. P) /\ Len(B) = n
    BY <2>1
  <2>2. ASSUME B \in Seq(1 .. P), Len(B) = n PROVE B \in [1 .. n -> 1 .. P]
    BY <2>2, LenProperties
  <2> QED BY <2>1, <2>2 DEF TuplesOver
<1>2. ASSUME NEW B \in Seq(1 .. P), Len(B) = n
      PROVE  (\A j \in 2 .. n : B[j - 1] <= B[j]) <=> Ascends(B)
  <2>0. \A k \in 1 .. n : B[k] \in Int
    BY <1>2, ElementOfSeq
  <2>1. ASSUME Ascends(B) PROVE \A j \in 2 .. n : B[j - 1] <= B[j]
    <3>1. \A j \in 2 .. n : j - 1 \in 1 .. n /\ j \in 1 .. n /\ j - 1 <= j
      OBVIOUS
    <3> QED BY <1>2, <2>1, <3>1 DEF Ascends
  <2>2. ASSUME \A j \in 2 .. n : B[j - 1] <= B[j], NEW i \in 1 .. n
        PROVE  \A j \in 1 .. n : i <= j => B[i] <= B[j]
    <3> DEFINE N == {k \in Nat : i + k <= n => B[i] <= B[i + k]}
    <3>1. 0 \in N
      BY <2>0
    <3>2. ASSUME NEW k \in Nat, k \in N PROVE k + 1 \in N
      <4> SUFFICES ASSUME i + (k + 1) <= n PROVE B[i] <= B[i + (k + 1)]
        OBVIOUS
      <4> DEFINE j == i + (k + 1)
      <4>1. j \in 2 .. n /\ j - 1 = i + k /\ i + k \in 1 .. n /\ j \in 1 .. n /\ i + k <= n
        OBVIOUS
      <4>2. B[i] <= B[i + k]
        BY <3>2, <4>1
      <4> HIDE DEF j
      <4>3. B[j - 1] <= B[j]
        BY <2>2, <4>1
      <4>4. B[i] \in Int /\ B[j] \in Int /\ B[i + k] \in Int
        BY <2>0, <4>1
      <4>5. B[i] <= B[j]
        BY <4>1, <4>2, <4>3, <4>4
      <4> QED BY <4>5 DEF j
    <3> HIDE DEF N
    <3>3. Nat \subseteq N
      BY <3>1, <3>2, NatSet
    <3> SUFFICES ASSUME NEW j \in 1 .. n, i <= j PROVE B[i] <= B[j]
      OBVIOUS
    <3>4. j - i \in N /\ i + (j - i) = j /\ j <= n
      BY <3>3
    <3> QED BY <3>4 DEF N
  <2>3. ASSUME \A j \in 2 .. n : B[j - 1] <= B[j] PROVE Ascends(B)
    BY <1>2, <2>2, <2>3 DEF Ascends
  <2> QED BY <2>1, <2>3
<1> QED BY <1>1, <1>2 DEF MultisetsOver

(* Four matrices may be added in another order.                            *)
LEMMA PlusSwap ==
  ASSUME NEW X \in Matrices, NEW Y \in Matrices, NEW V \in Matrices, NEW W \in Matrices
  PROVE  Plus(Plus(X, Y), Plus(V, W)) = Plus(Plus(X, V), Plus(Y, W))
<1>1. Plus(X, Y) \in Matrices /\ Plus(V, W) \in Matrices /\ Plus(Y, W) \in Matrices /\ Plus(Y, V) \in Matrices /\ Plus(V, Y) \in Matrices
  BY PlusIs
<1>2. Plus(Plus(X, Y), Plus(V, W)) = Plus(X, Plus(Y, Plus(V, W)))
  BY <1>1, PlusAssociates
<1>3. Plus(Y, Plus(V, W)) = Plus(Plus(Y, V), W)
  BY PlusAssociates
<1>4. Plus(Y, V) = Plus(V, Y)
  BY PlusCommutes
<1>5. Plus(Plus(V, Y), W) = Plus(V, Plus(Y, W))
  BY PlusAssociates
<1>6. Plus(X, Plus(V, Plus(Y, W))) = Plus(Plus(X, V), Plus(Y, W))
  BY <1>1, PlusAssociates
<1> QED BY <1>2, <1>3, <1>4, <1>5, <1>6

(* What is added to leave a matrix as it is.                               *)
LEMMA PlusCancels ==
  ASSUME NEW X \in Matrices, NEW Y \in Matrices, Plus(X, Y) = Y
  PROVE  X = Nought
<1>1. ASSUME NEW a \in Index, NEW c \in Index PROVE X[<<a, c>>] = Nought[<<a, c>>]
  <2> DEFINE x == X[<<a, c>>]
             y == Y[<<a, c>>]
  <2>1. x \in Field /\ y \in Field
    BY Entries
  <2>2. (x + y) % Prime = y
    BY PlusIs
  <2> HIDE DEF x, y
  <2>3. x + y \in Int /\ x \in Int /\ y \in Int
    BY <2>1 DEF Field
  <2> DEFINE q == (x + y) \div Prime
  <2>4. q \in Int /\ x + y = q * Prime + ((x + y) % Prime)
    BY <2>3, ModIs, Positive
  <2> HIDE DEF q
  <2>5. x = 0 + q * Prime
    BY <2>2, <2>3, <2>4, Positive
  <2>6. x % Prime = 0 % Prime
    <3>1. 0 \in Int
      OBVIOUS
    <3> QED BY <2>3, <2>4, <2>5, <3>1, ModSame, Positive
  <2>7. x = 0
    BY <2>1, <2>6, Numbers
  <2> QED BY <2>7, NoughtIs DEF x
<1> QED BY <1>1, NoughtIs, SameMatrix

-----------------------------------------------------------------------------
(* A series gives a matrix for every word over P letters.  The product of  *)
(* two adds up, over the ways of sharing the letters of a word out, the    *)
(* products of the matrices of the two parts; the derivative in a letter   *)
(* is the series of what follows when that letter comes last.              *)
Words(P) == Seq(1 .. P)
Series(P) == [Words(P) -> Matrices]
Terms(X, Y, w, x) == [A \in Masks(Len(w)) |-> Times(X[Sub(w, A)], Y[Rest(w, A)])[x]]
Conv(X, Y) == [w \in DOMAIN X |-> [x \in Cells |-> SumOver(Len(w), Terms(X, Y, w, x)) % Prime]]
Der(b, X) == [w \in DOMAIN X |-> X[Append(w, b)]]
Sum2(X, Y) == [w \in DOMAIN X |-> Plus(X[w], Y[w])]

(* The words over the predictors, their additions and their sub-words.     *)
LEMMA WordsAre ==
  ASSUME NEW P, NEW w \in Words(P)
  PROVE  /\ Len(w) \in Nat /\ <<>> \in Words(P)
         /\ \A b \in 1 .. P : Append(w, b) \in Words(P) /\ Append(w, b) # <<>> /\ Len(Append(w, b)) = Len(w) + 1
         /\ \A A \in Masks(Len(w)) : Sub(w, A) \in Words(P) /\ Rest(w, A) \in Words(P)
BY LenProperties, EmptySeq, AddIs, MaskSizes DEF Words

(* A set that holds the empty word and each addition holds every word.     *)
LEMMA WordSteps ==
  ASSUME NEW P, NEW T, <<>> \in T, \A w \in Words(P) : w \in T => \A b \in 1 .. P : Append(w, b) \in T
  PROVE  Words(P) \subseteq T
BY WordSet DEF Words

(* The derivative and the sum of series are series.                        *)
LEMMA SeriesAre ==
  ASSUME NEW P, NEW X \in Series(P)
  PROVE  /\ DOMAIN X = Words(P) /\ \A w \in Words(P) : X[w] \in Matrices
         /\ \A b \in 1 .. P : /\ Der(b, X) \in Series(P)
                              /\ \A w \in Words(P) : Der(b, X)[w] = X[Append(w, b)]
         /\ \A Y \in Series(P) : /\ Sum2(X, Y) \in Series(P)
                                 /\ \A w \in Words(P) : Sum2(X, Y)[w] = Plus(X[w], Y[w])
<1>1. DOMAIN X = Words(P) /\ \A w \in Words(P) : X[w] \in Matrices
  BY DEF Series
<1>2. ASSUME NEW b \in 1 .. P
      PROVE  Der(b, X) \in Series(P) /\ \A w \in Words(P) : Der(b, X)[w] = X[Append(w, b)]
  <2>1. \A w \in Words(P) : Append(w, b) \in Words(P)
    BY WordsAre
  <2> QED BY <1>1, <2>1 DEF Der, Series
<1>3. ASSUME NEW Y \in Series(P)
      PROVE  Sum2(X, Y) \in Series(P) /\ \A w \in Words(P) : Sum2(X, Y)[w] = Plus(X[w], Y[w])
  <2>1. \A w \in Words(P) : Plus(X[w], Y[w]) \in Matrices
    BY <1>1, PlusIs DEF Series
  <2> QED BY <1>1, <2>1 DEF Sum2, Series
<1> QED BY <1>1, <1>2, <1>3

(* Two series with the same components are one.                            *)
LEMMA SameSeries ==
  ASSUME NEW P, NEW X \in Series(P), NEW Y \in Series(P), \A w \in Words(P) : X[w] = Y[w]
  PROVE  X = Y
BY DEF Series

(* The product of two series is a series whose terms are integers.         *)
LEMMA ConvIs ==
  ASSUME NEW P, NEW X \in Series(P), NEW Y \in Series(P)
  PROVE  /\ Conv(X, Y) \in Series(P)
         /\ \A w \in Words(P) : \A x \in Cells :
              /\ Summable(Len(w), Terms(X, Y, w, x))
              /\ Conv(X, Y)[w][x] = SumOver(Len(w), Terms(X, Y, w, x)) % Prime
<1>1. ASSUME NEW w \in Words(P), NEW x \in Cells
      PROVE  /\ Summable(Len(w), Terms(X, Y, w, x))
             /\ SumOver(Len(w), Terms(X, Y, w, x)) % Prime \in Field
  <2>1. Summable(Len(w), Terms(X, Y, w, x))
    <3> SUFFICES ASSUME NEW A \in Masks(Len(w)) PROVE Times(X[Sub(w, A)], Y[Rest(w, A)])[x] \in Int
      BY DEF Summable, Terms
    <3>1. X[Sub(w, A)] \in Matrices /\ Y[Rest(w, A)] \in Matrices
      BY WordsAre, SeriesAre
    <3>2. Times(X[Sub(w, A)], Y[Rest(w, A)]) \in Matrices
      BY <3>1, TimesIs
    <3> QED BY <3>2, Whole
  <2>2. Len(w) \in Nat
    BY WordsAre
  <2>3. SumOver(Len(w), Terms(X, Y, w, x)) \in Int
    BY <2>1, <2>2, SumOverIsInt
  <2> QED BY <2>1, <2>3, Numbers
<1>2. \A w \in Words(P) : [x \in Cells |-> SumOver(Len(w), Terms(X, Y, w, x)) % Prime] \in Matrices
  BY <1>1 DEF Matrices
<1>3. DOMAIN X = Words(P)
  BY SeriesAre
<1>4. Conv(X, Y) \in Series(P)
  BY <1>2, <1>3 DEF Conv, Series
<1>5. ASSUME NEW w \in Words(P), NEW x \in Cells
      PROVE  Conv(X, Y)[w][x] = SumOver(Len(w), Terms(X, Y, w, x)) % Prime
  BY <1>3 DEF Conv
<1> QED BY <1>1, <1>4, <1>5

(* Two matrices with the same cells are one.                               *)
LEMMA SameCells ==
  ASSUME NEW X \in Matrices, NEW Y \in Matrices, \A x \in Cells : X[x] = Y[x]
  PROVE  X = Y
BY DEF Matrices

(* At the empty word the product is that of the two matrices.              *)
LEMMA ConvEmpty ==
  ASSUME NEW P, NEW X \in Series(P), NEW Y \in Series(P)
  PROVE  Conv(X, Y)[<<>>] = Times(X[<<>>], Y[<<>>])
<1>0. <<>> \in Words(P) /\ Len(<<>>) = 0
  BY EmptySeq DEF Words
<1>1. X[<<>>] \in Matrices /\ Y[<<>>] \in Matrices
  BY <1>0, SeriesAre
<1>2. Times(X[<<>>], Y[<<>>]) \in Matrices
  BY <1>1, TimesIs
<1>3. ASSUME NEW x \in Cells PROVE Conv(X, Y)[<<>>][x] = Times(X[<<>>], Y[<<>>])[x]
  <2> DEFINE F == Terms(X, Y, <<>>, x)
  <2>1. Conv(X, Y)[<<>>][x] = SumOver(Len(<<>>), F) % Prime
    BY <1>0, ConvIs
  <2>2. {} \in Masks(Len(<<>>)) /\ Sub(<<>>, {}) = <<>> /\ Rest(<<>>, {}) = <<>>
    BY <1>0, SubIs DEF Masks, Rest, Words
  <2>3. F[{}] = Times(X[<<>>], Y[<<>>])[x]
    BY <2>2 DEF Terms
  <2>4. F[{}] \in Field /\ F[{}] \in Int
    BY <1>2, <2>3, Entries, Whole
  <2> HIDE DEF F
  <2>5. SumOver(0, F) = F[{}]
    BY <2>4, SumOverOne
  <2> QED BY <1>0, <2>1, <2>3, <2>4, <2>5, Numbers
<1>4. Conv(X, Y)[<<>>] \in Matrices
  BY <1>0, ConvIs, SeriesAre
<1> QED BY <1>2, <1>3, <1>4, SameCells

(* The product rule at a word with a letter added.                         *)
LEMMA ConvAdd ==
  ASSUME NEW P, NEW X \in Series(P), NEW Y \in Series(P), NEW w \in Words(P), NEW b \in 1 .. P
  PROVE  Conv(X, Y)[Append(w, b)] = Plus(Conv(X, Der(b, Y))[w], Conv(Der(b, X), Y)[w])
<1> DEFINE m == Len(w)
           v == Append(w, b)
<1>1. v \in Words(P) /\ Len(v) = m + 1 /\ m \in Nat
  BY WordsAre
<1>2. Der(b, X) \in Series(P) /\ Der(b, Y) \in Series(P)
  BY SeriesAre
<1>3. ASSUME NEW A \in Masks(m)
      PROVE  /\ A \in Masks(m + 1) /\ A \union {m + 1} \in Masks(m + 1)
             /\ Sub(v, A) = Sub(w, A) /\ Rest(v, A) = Append(Rest(w, A), b)
             /\ Sub(v, A \union {m + 1}) = Append(Sub(w, A), b)
             /\ Rest(v, A \union {m + 1}) = Rest(w, A)
  <2> DEFINE C == A \union {m + 1}
  <2>1. m + 1 \notin A /\ m + 1 \in C /\ \A k \in 1 .. m : k \in A <=> k \in C
    BY <1>1 DEF Masks
  <2>2. A \in Masks(m + 1) /\ C \in Masks(m + 1)
    <3>1. m + 1 \in 1 .. m + 1 /\ \A k \in 1 .. m : k \in 1 .. m + 1
      BY <1>1
    <3> HIDE DEF m
    <3> QED BY <3>1 DEF Masks
  <2> DEFINE D == 1 .. P
  <2>3. w \in Seq(D) /\ b \in D
    BY DEF Words
  <2> HIDE DEF D
  <2>4. Sub(w, C) = Sub(w, A)
    BY <2>1, <2>3, SubIs
  <2>5. Rest(w, C) = Rest(w, A)
    <3>1. \A k \in 1 .. m : k \in 1 .. m \ A <=> k \in 1 .. m \ C
      BY <2>1
    <3> QED BY <2>3, <3>1, SubIs DEF Rest
  <2> HIDE DEF C
  <2>6. Sub(v, A) = Sub(w, A) /\ Rest(v, A) = Append(Rest(w, A), b)
    <3>1. Sub(v, A) = IF Len(w) + 1 \in A THEN Append(Sub(w, A), b) ELSE Sub(w, A)
      BY <2>3, SubAdd
    <3>2. Rest(v, A) = IF Len(w) + 1 \in A THEN Rest(w, A) ELSE Append(Rest(w, A), b)
      BY <2>3, RestAdd
    <3> QED BY <2>1, <3>1, <3>2, Zenon
  <2>7. Sub(v, C) = Append(Sub(w, C), b) /\ Rest(v, C) = Rest(w, C)
    <3>1. Sub(v, C) = IF Len(w) + 1 \in C THEN Append(Sub(w, C), b) ELSE Sub(w, C)
      BY <2>3, SubAdd
    <3>2. Rest(v, C) = IF Len(w) + 1 \in C THEN Rest(w, C) ELSE Append(Rest(w, C), b)
      BY <2>3, RestAdd
    <3> QED BY <2>1, <3>1, <3>2, Zenon
  <2> QED BY <2>2, <2>4, <2>5, <2>6, <2>7 DEF C
<1> HIDE DEF v
<1>4. ASSUME NEW x \in Cells
      PROVE  Conv(X, Y)[v][x] = Plus(Conv(X, Der(b, Y))[w], Conv(Der(b, X), Y)[w])[x]
  <2> DEFINE F == Terms(X, Y, v, x)
             G == Terms(X, Der(b, Y), w, x)
             H == Terms(Der(b, X), Y, w, x)
  <2>1. Summable(m + 1, F)
    BY <1>1, ConvIs
  <2>2. Halves(m, F, G, H)
    <3> SUFFICES ASSUME NEW A \in Masks(m) PROVE G[A] = F[A] /\ H[A] = F[A \union {m + 1}]
      BY DEF Halves
    <3>1. F[A] = Times(X[Sub(w, A)], Y[Append(Rest(w, A), b)])[x]
      BY <1>1, <1>3 DEF Terms
    <3>2. F[A \union {m + 1}] = Times(X[Append(Sub(w, A), b)], Y[Rest(w, A)])[x]
      BY <1>1, <1>3 DEF Terms
    <3>3. Sub(w, A) \in Words(P) /\ Rest(w, A) \in Words(P)
      BY WordsAre
    <3>4. Der(b, Y)[Rest(w, A)] = Y[Append(Rest(w, A), b)] /\ Der(b, X)[Sub(w, A)] = X[Append(Sub(w, A), b)]
      BY <3>3, SeriesAre
    <3>5. G[A] = Times(X[Sub(w, A)], Der(b, Y)[Rest(w, A)])[x] /\ H[A] = Times(Der(b, X)[Sub(w, A)], Y[Rest(w, A)])[x]
      BY DEF Terms
    <3> QED BY <3>1, <3>2, <3>4, <3>5
  <2>3. /\ Conv(X, Y)[v][x] = SumOver(m + 1, F) % Prime
        /\ Conv(X, Der(b, Y))[w][x] = SumOver(m, G) % Prime
        /\ Conv(Der(b, X), Y)[w][x] = SumOver(m, H) % Prime
    BY <1>1, <1>2, ConvIs
  <2> HIDE DEF F, G, H, m
  <2> DEFINE s == SumOver(m, G)
             t == SumOver(m, H)
  <2>4. Summable(m, G) /\ Summable(m, H) /\ SumOver(m + 1, F) = s + t
    BY <1>1, <2>1, <2>2, SumOverAdd
  <2>5. s \in Int /\ t \in Int
    BY <1>1, <2>4, SumOverIsInt
  <2> HIDE DEF s, t
  <2>6. t % Prime \in Int
    BY <2>5, ModIs, Positive
  <2>7. ((s % Prime) + (t % Prime)) % Prime = (s + (t % Prime)) % Prime
    BY <2>5, <2>6, ModPlus, Positive
  <2>8. ((t % Prime) + s) % Prime = (t + s) % Prime
    BY <2>5, ModPlus, Positive
  <2>9. (t % Prime) + s = s + (t % Prime) /\ t + s = s + t
    BY <2>5, <2>6
  <2>10. Plus(Conv(X, Der(b, Y))[w], Conv(Der(b, X), Y)[w])[x] = ((s % Prime) + (t % Prime)) % Prime
    BY <2>3 DEF Plus, s, t
  <2> QED BY <2>3, <2>4, <2>7, <2>8, <2>9, <2>10
<1>5. Conv(X, Y)[v] \in Matrices /\ Plus(Conv(X, Der(b, Y))[w], Conv(Der(b, X), Y)[w]) \in Matrices
  <2>1. Conv(X, Y) \in Series(P) /\ Conv(X, Der(b, Y)) \in Series(P) /\ Conv(Der(b, X), Y) \in Series(P)
    BY <1>2, ConvIs
  <2> QED BY <1>1, <2>1, SeriesAre, PlusIs
<1>6. Conv(X, Y)[v] = Plus(Conv(X, Der(b, Y))[w], Conv(Der(b, X), Y)[w])
  BY <1>4, <1>5, SameCells
<1> QED BY <1>6 DEF v

Zero(P) == [w \in Words(P) |-> Nought]
One(P) == [w \in Words(P) |-> IF w = <<>> THEN Identity ELSE Nought]
\* A series without its first term.
Later(X) == [w \in DOMAIN X |-> IF w = <<>> THEN Nought ELSE X[w]]
Turned(X) == [w \in DOMAIN X |-> Transpose(X[w])]

(* The product of series distributes over the sum, on either side.         *)
LEMMA ConvPlus ==
  ASSUME NEW P
  PROVE  \A w \in Words(P) : \A X, Y, Z \in Series(P) :
           /\ Conv(Sum2(X, Y), Z)[w] = Plus(Conv(X, Z)[w], Conv(Y, Z)[w])
           /\ Conv(Z, Sum2(X, Y))[w] = Plus(Conv(Z, X)[w], Conv(Z, Y)[w])
<1> DEFINE Good(w) == \A X, Y, Z \in Series(P) :
             /\ Conv(Sum2(X, Y), Z)[w] = Plus(Conv(X, Z)[w], Conv(Y, Z)[w])
             /\ Conv(Z, Sum2(X, Y))[w] = Plus(Conv(Z, X)[w], Conv(Z, Y)[w])
           T == {w \in Words(P) : Good(w)}
<1>0. <<>> \in Words(P)
  BY EmptySeq DEF Words
<1>1. <<>> \in T
  <2> SUFFICES ASSUME NEW X \in Series(P), NEW Y \in Series(P), NEW Z \in Series(P)
               PROVE  /\ Conv(Sum2(X, Y), Z)[<<>>] = Plus(Conv(X, Z)[<<>>], Conv(Y, Z)[<<>>])
                      /\ Conv(Z, Sum2(X, Y))[<<>>] = Plus(Conv(Z, X)[<<>>], Conv(Z, Y)[<<>>])
    BY <1>0
  <2> DEFINE x == X[<<>>]
             y == Y[<<>>]
             z == Z[<<>>]
  <2>1. x \in Matrices /\ y \in Matrices /\ z \in Matrices
    BY <1>0, SeriesAre
  <2>2. Sum2(X, Y) \in Series(P) /\ Sum2(X, Y)[<<>>] = Plus(x, y)
    BY <1>0, SeriesAre
  <2>3. /\ Conv(Sum2(X, Y), Z)[<<>>] = Times(Sum2(X, Y)[<<>>], z)
        /\ Conv(Z, Sum2(X, Y))[<<>>] = Times(z, Sum2(X, Y)[<<>>])
    BY <2>2, ConvEmpty
  <2>4. /\ Conv(X, Z)[<<>>] = Times(x, z) /\ Conv(Y, Z)[<<>>] = Times(y, z)
        /\ Conv(Z, X)[<<>>] = Times(z, x) /\ Conv(Z, Y)[<<>>] = Times(z, y)
    BY ConvEmpty
  <2> HIDE DEF x, y, z
  <2>5. Times(z, Plus(x, y)) = Plus(Times(z, x), Times(z, y)) /\ Times(Plus(x, y), z) = Plus(Times(x, z), Times(y, z))
    BY <2>1, TimesPlus
  <2> QED BY <2>2, <2>3, <2>4, <2>5
<1>2. ASSUME NEW w \in Words(P), w \in T, NEW b \in 1 .. P PROVE Append(w, b) \in T
  <2>0. Append(w, b) \in Words(P)
    BY WordsAre
  <2> SUFFICES ASSUME NEW X \in Series(P), NEW Y \in Series(P), NEW Z \in Series(P)
               PROVE  /\ Conv(Sum2(X, Y), Z)[Append(w, b)] = Plus(Conv(X, Z)[Append(w, b)], Conv(Y, Z)[Append(w, b)])
                      /\ Conv(Z, Sum2(X, Y))[Append(w, b)] = Plus(Conv(Z, X)[Append(w, b)], Conv(Z, Y)[Append(w, b)])
    BY <2>0
  <2> DEFINE A == Der(b, X)
             B == Der(b, Y)
             C == Der(b, Z)
             V == Sum2(X, Y)
  <2>1. A \in Series(P) /\ B \in Series(P) /\ C \in Series(P) /\ V \in Series(P)
    BY SeriesAre
  <2>2. Der(b, V) = Sum2(A, B)
    <3>1. Der(b, V) \in Series(P) /\ Sum2(A, B) \in Series(P)
      BY <2>1, SeriesAre
    <3>2. ASSUME NEW u \in Words(P) PROVE Der(b, V)[u] = Sum2(A, B)[u]
      <4>1. Append(u, b) \in Words(P)
        BY WordsAre
      <4>2. Der(b, V)[u] = V[Append(u, b)] /\ A[u] = X[Append(u, b)] /\ B[u] = Y[Append(u, b)]
        BY <2>1, SeriesAre
      <4>3. V[Append(u, b)] = Plus(X[Append(u, b)], Y[Append(u, b)])
        BY <4>1, SeriesAre
      <4>4. Sum2(A, B)[u] = Plus(A[u], B[u])
        BY <2>1, SeriesAre
      <4> QED BY <4>2, <4>3, <4>4
    <3> QED BY <3>1, <3>2, SameSeries
  <2>3. /\ Conv(V, Z)[Append(w, b)] = Plus(Conv(V, C)[w], Conv(Sum2(A, B), Z)[w])
        /\ Conv(Z, V)[Append(w, b)] = Plus(Conv(Z, Sum2(A, B))[w], Conv(C, V)[w])
    BY <2>1, <2>2, ConvAdd
  <2>4. /\ Conv(X, Z)[Append(w, b)] = Plus(Conv(X, C)[w], Conv(A, Z)[w])
        /\ Conv(Y, Z)[Append(w, b)] = Plus(Conv(Y, C)[w], Conv(B, Z)[w])
        /\ Conv(Z, X)[Append(w, b)] = Plus(Conv(Z, A)[w], Conv(C, X)[w])
        /\ Conv(Z, Y)[Append(w, b)] = Plus(Conv(Z, B)[w], Conv(C, Y)[w])
    BY ConvAdd
  <2>5. Good(w)
    BY <1>2
  <2>6. /\ Conv(V, C)[w] = Plus(Conv(X, C)[w], Conv(Y, C)[w])
        /\ Conv(C, V)[w] = Plus(Conv(C, X)[w], Conv(C, Y)[w])
    BY <2>1, <2>5
  <2> HIDE DEF A, B, C
  <2>7. /\ Conv(Sum2(A, B), Z)[w] = Plus(Conv(A, Z)[w], Conv(B, Z)[w])
        /\ Conv(Z, Sum2(A, B))[w] = Plus(Conv(Z, A)[w], Conv(Z, B)[w])
    BY <2>1, <2>5
  <2>8. \A D, E \in Series(P) : Conv(D, E)[w] \in Matrices
    BY ConvIs, SeriesAre
  <2>9. Plus(Plus(Conv(X, C)[w], Conv(Y, C)[w]), Plus(Conv(A, Z)[w], Conv(B, Z)[w]))
          = Plus(Plus(Conv(X, C)[w], Conv(A, Z)[w]), Plus(Conv(Y, C)[w], Conv(B, Z)[w]))
    BY <2>1, <2>8, PlusSwap
  <2>10. Plus(Plus(Conv(Z, A)[w], Conv(Z, B)[w]), Plus(Conv(C, X)[w], Conv(C, Y)[w]))
          = Plus(Plus(Conv(Z, A)[w], Conv(C, X)[w]), Plus(Conv(Z, B)[w], Conv(C, Y)[w]))
    BY <2>1, <2>8, PlusSwap
  <2> QED BY <2>3, <2>4, <2>6, <2>7, <2>9, <2>10
<1> HIDE DEF T
<1>3. Words(P) \subseteq T
  BY <1>1, <1>2, WordSteps
<1> QED BY <1>3 DEF T

(* The derivative of a product.                                            *)
LEMMA ConvDer ==
  ASSUME NEW P, NEW X \in Series(P), NEW Y \in Series(P), NEW b \in 1 .. P
  PROVE  Der(b, Conv(X, Y)) = Sum2(Conv(X, Der(b, Y)), Conv(Der(b, X), Y))
<1> DEFINE A == Conv(X, Der(b, Y))
           B == Conv(Der(b, X), Y)
           V == Conv(X, Y)
<1>1. A \in Series(P) /\ B \in Series(P) /\ V \in Series(P)
  BY SeriesAre, ConvIs
<1>2. ASSUME NEW w \in Words(P) PROVE Der(b, V)[w] = Sum2(A, B)[w]
  <2>1. V[Append(w, b)] = Plus(A[w], B[w])
    BY ConvAdd
  <2> HIDE DEF A, B, V
  <2> QED BY <1>1, <2>1, SeriesAre
<1> HIDE DEF A, B, V
<1>3. Der(b, V) = Sum2(A, B)
  BY <1>1, <1>2, SeriesAre, SameSeries
<1> QED BY <1>3 DEF A, B, V

(* It associates: by the product rule, a letter at a time.                 *)
LEMMA ConvAssociates ==
  ASSUME NEW P
  PROVE  \A X, Y, Z \in Series(P) : Conv(Conv(X, Y), Z) = Conv(X, Conv(Y, Z))
<1> DEFINE Good(w) == \A X, Y, Z \in Series(P) : Conv(Conv(X, Y), Z)[w] = Conv(X, Conv(Y, Z))[w]
           T == {w \in Words(P) : Good(w)}
<1>0. <<>> \in Words(P)
  BY EmptySeq DEF Words
<1>1. <<>> \in T
  <2> SUFFICES ASSUME NEW X \in Series(P), NEW Y \in Series(P), NEW Z \in Series(P)
               PROVE  Conv(Conv(X, Y), Z)[<<>>] = Conv(X, Conv(Y, Z))[<<>>]
    BY <1>0
  <2>1. X[<<>>] \in Matrices /\ Y[<<>>] \in Matrices /\ Z[<<>>] \in Matrices
    BY <1>0, SeriesAre
  <2>2. Conv(X, Y) \in Series(P) /\ Conv(Y, Z) \in Series(P)
    BY ConvIs
  <2>3. Conv(X, Y)[<<>>] = Times(X[<<>>], Y[<<>>]) /\ Conv(Y, Z)[<<>>] = Times(Y[<<>>], Z[<<>>])
    BY ConvEmpty
  <2>4. /\ Conv(Conv(X, Y), Z)[<<>>] = Times(Conv(X, Y)[<<>>], Z[<<>>])
        /\ Conv(X, Conv(Y, Z))[<<>>] = Times(X[<<>>], Conv(Y, Z)[<<>>])
    BY <2>2, ConvEmpty
  <2> QED BY <2>1, <2>3, <2>4, TimesAssociates
<1>2. ASSUME NEW w \in Words(P), w \in T, NEW b \in 1 .. P PROVE Append(w, b) \in T
  <2>0. Append(w, b) \in Words(P)
    BY WordsAre
  <2> SUFFICES ASSUME NEW X \in Series(P), NEW Y \in Series(P), NEW Z \in Series(P)
               PROVE  Conv(Conv(X, Y), Z)[Append(w, b)] = Conv(X, Conv(Y, Z))[Append(w, b)]
    BY <2>0
  <2> DEFINE A == Der(b, X)
             B == Der(b, Y)
             C == Der(b, Z)
  <2>1. A \in Series(P) /\ B \in Series(P) /\ C \in Series(P)
    BY SeriesAre
  <2>2. Good(w)
    BY <1>2
  <2>3. Der(b, Conv(X, Y)) = Sum2(Conv(X, B), Conv(A, Y)) /\ Der(b, Conv(Y, Z)) = Sum2(Conv(Y, C), Conv(B, Z))
    BY ConvDer
  <2> DEFINE XY == Conv(X, Y)
             XB == Conv(X, B)
             AY == Conv(A, Y)
             YZ == Conv(Y, Z)
             YC == Conv(Y, C)
             BZ == Conv(B, Z)
  <2> HIDE DEF A, B, C
  <2>4. XY \in Series(P) /\ XB \in Series(P) /\ AY \in Series(P) /\ YZ \in Series(P) /\ YC \in Series(P) /\ BZ \in Series(P)
    BY <2>1, ConvIs
  <2>5. /\ Conv(XY, C)[w] = Conv(X, YC)[w]
        /\ Conv(XB, Z)[w] = Conv(X, BZ)[w]
        /\ Conv(AY, Z)[w] = Conv(A, YZ)[w]
    BY <2>1, <2>2
  <2>6. Der(b, XY) = Sum2(XB, AY) /\ Der(b, YZ) = Sum2(YC, BZ)
    BY <2>3 DEF A, B, C
  <2> HIDE DEF XY, XB, AY, YZ, YC, BZ
  <2>7. Conv(XY, Z)[Append(w, b)] = Plus(Conv(XY, C)[w], Conv(Sum2(XB, AY), Z)[w])
    BY <2>4, <2>6, ConvAdd DEF C
  <2>8. Conv(X, YZ)[Append(w, b)] = Plus(Conv(X, Sum2(YC, BZ))[w], Conv(A, YZ)[w])
    BY <2>4, <2>6, ConvAdd DEF A
  <2>9. Conv(Sum2(XB, AY), Z)[w] = Plus(Conv(XB, Z)[w], Conv(AY, Z)[w])
    BY <2>4, ConvPlus
  <2>10. Conv(X, Sum2(YC, BZ))[w] = Plus(Conv(X, YC)[w], Conv(X, BZ)[w])
    BY <2>4, ConvPlus
  <2>11. Conv(X, YC)[w] \in Matrices /\ Conv(X, BZ)[w] \in Matrices /\ Conv(A, YZ)[w] \in Matrices
    BY <2>1, <2>4, ConvIs, SeriesAre
  <2>12. Plus(Plus(Conv(X, YC)[w], Conv(X, BZ)[w]), Conv(A, YZ)[w])
           = Plus(Conv(X, YC)[w], Plus(Conv(X, BZ)[w], Conv(A, YZ)[w]))
    BY <2>11, PlusAssociates
  <2>13. Conv(XY, Z)[Append(w, b)] = Conv(X, YZ)[Append(w, b)]
    BY <2>5, <2>7, <2>8, <2>9, <2>10, <2>12
  <2> QED BY <2>13 DEF XY, YZ
<1> HIDE DEF T
<1>3. Words(P) \subseteq T
  BY <1>1, <1>2, WordSteps
<1>4. \A w \in Words(P) : Good(w)
  BY <1>3 DEF T
<1> SUFFICES ASSUME NEW X \in Series(P), NEW Y \in Series(P), NEW Z \in Series(P)
             PROVE  Conv(Conv(X, Y), Z) = Conv(X, Conv(Y, Z))
  OBVIOUS
<1>5. Conv(X, Y) \in Series(P) /\ Conv(Y, Z) \in Series(P)
  BY ConvIs
<1>6. Conv(Conv(X, Y), Z) \in Series(P) /\ Conv(X, Conv(Y, Z)) \in Series(P)
  BY <1>5, ConvIs
<1> QED BY <1>4, <1>6, SameSeries

(* A word is empty or has a last letter.                                   *)
LEMMA WordLast ==
  ASSUME NEW P
  PROVE  \A w \in Words(P) : w = <<>> \/ \E v \in Words(P), b \in 1 .. P : w = Append(v, b)
<1> DEFINE T == {w \in Words(P) : w = <<>> \/ \E v \in Words(P), b \in 1 .. P : w = Append(v, b)}
<1>1. <<>> \in T
  BY EmptySeq DEF Words
<1>2. \A w \in Words(P) : w \in T => \A b \in 1 .. P : Append(w, b) \in T
  BY WordsAre
<1> HIDE DEF T
<1>3. Words(P) \subseteq T
  BY <1>1, <1>2, WordSteps
<1> QED BY <1>3 DEF T

(* A product reads of each series the words no longer than its own.        *)
Until(P, n, X, Y) == \A w \in Words(P) : Len(w) <= n => X[w] = Y[w]

(* Products with the same terms at a word are equal there.                 *)
LEMMA SameTerms ==
  ASSUME NEW P, NEW X \in Series(P), NEW Y \in Series(P), NEW V \in Series(P), NEW W \in Series(P),
         NEW w \in Words(P),
         \A A \in Masks(Len(w)) : Times(X[Sub(w, A)], Y[Rest(w, A)]) = Times(V[Sub(w, A)], W[Rest(w, A)])
  PROVE  Conv(X, Y)[w] = Conv(V, W)[w]
<1>1. ASSUME NEW x \in Cells PROVE Conv(X, Y)[w][x] = Conv(V, W)[w][x]
  <2>1. Terms(X, Y, w, x) = Terms(V, W, w, x)
    BY DEF Terms
  <2> QED BY <2>1, ConvIs
<1>2. Conv(X, Y)[w] \in Matrices /\ Conv(V, W)[w] \in Matrices
  BY ConvIs, SeriesAre
<1> QED BY <1>1, <1>2, SameCells

(* Products of series that agree up to an order agree up to it.            *)
LEMMA ConvUntil ==
  ASSUME NEW P, NEW X \in Series(P), NEW Y \in Series(P), NEW V \in Series(P), NEW W \in Series(P),
         NEW n \in Int, Until(P, n, X, V), Until(P, n, Y, W)
  PROVE  Until(P, n, Conv(X, Y), Conv(V, W))
<1> SUFFICES ASSUME NEW w \in Words(P), Len(w) <= n PROVE Conv(X, Y)[w] = Conv(V, W)[w]
  BY DEF Until
<1>1. ASSUME NEW A \in Masks(Len(w))
      PROVE  Times(X[Sub(w, A)], Y[Rest(w, A)]) = Times(V[Sub(w, A)], W[Rest(w, A)])
  <2>1. Sub(w, A) \in Words(P) /\ Rest(w, A) \in Words(P)
    BY WordsAre
  <2>2. Len(Sub(w, A)) <= Len(w) /\ Len(Rest(w, A)) <= Len(w) /\ Len(w) \in Nat /\ Len(Sub(w, A)) \in Nat /\ Len(Rest(w, A)) \in Nat
    BY MaskSizes DEF Words
  <2>3. Len(Sub(w, A)) <= n /\ Len(Rest(w, A)) <= n
    BY <2>2
  <2> QED BY <2>1, <2>3 DEF Until
<1> QED BY <1>1, SameTerms

(* The series of zeros, and the unit series.                               *)
LEMMA ZeroIs ==
  ASSUME NEW P
  PROVE  /\ Zero(P) \in Series(P) /\ \A w \in Words(P) : Zero(P)[w] = Nought
         /\ One(P) \in Series(P) /\ One(P)[<<>>] = Identity
         /\ \A w \in Words(P) : w # <<>> => One(P)[w] = Nought
<1>1. \A w \in Words(P) : (IF w = <<>> THEN Identity ELSE Nought) \in Matrices
  BY IdentityIs, NoughtIs
<1>2. <<>> \in Words(P)
  BY WordsAre, EmptySeq DEF Words
<1> QED BY <1>1, <1>2, NoughtIs DEF Zero, One, Series

(* A series without its first term, and its transpose.                     *)
LEMMA LaterIs ==
  ASSUME NEW P, NEW X \in Series(P)
  PROVE  /\ Later(X) \in Series(P) /\ Later(X)[<<>>] = Nought
         /\ \A w \in Words(P) : w # <<>> => Later(X)[w] = X[w]
         /\ \A b \in 1 .. P : Der(b, Later(X)) = Der(b, X)
         /\ Turned(X) \in Series(P)
         /\ \A w \in Words(P) : Turned(X)[w] = Transpose(X[w])
<1>0. <<>> \in Words(P)
  BY EmptySeq DEF Words
<1>1. /\ Later(X) \in Series(P) /\ Later(X)[<<>>] = Nought
      /\ \A w \in Words(P) : w # <<>> => Later(X)[w] = X[w]
  <2>1. DOMAIN X = Words(P) /\ \A w \in Words(P) : X[w] \in Matrices
    BY SeriesAre
  <2>2. Later(X) = [w \in Words(P) |-> IF w = <<>> THEN Nought ELSE X[w]]
    BY <2>1 DEF Later
  <2>3. \A w \in Words(P) : (IF w = <<>> THEN Nought ELSE X[w]) \in Matrices
    BY <2>1, NoughtIs
  <2>4. \A w \in Words(P) : Later(X)[w] = IF w = <<>> THEN Nought ELSE X[w]
    BY <2>2
  <2>5. Later(X) \in Series(P)
    BY <2>2, <2>3 DEF Series
  <2>6. Later(X)[<<>>] = Nought
    BY <1>0, <2>4
  <2>7. \A w \in Words(P) : w # <<>> => Later(X)[w] = X[w]
    BY <2>4
  <2> QED BY <2>5, <2>6, <2>7
<1>2. Turned(X) \in Series(P) /\ \A w \in Words(P) : Turned(X)[w] = Transpose(X[w])
  <2>1. \A w \in Words(P) : Transpose(X[w]) \in Matrices
    BY SeriesAre, TransposeIs
  <2> QED BY <2>1, SeriesAre DEF Turned, Series
<1>3. ASSUME NEW b \in 1 .. P PROVE Der(b, Later(X)) = Der(b, X)
  <2>1. ASSUME NEW w \in Words(P) PROVE Der(b, Later(X))[w] = Der(b, X)[w]
    <3>1. Append(w, b) \in Words(P) /\ Append(w, b) # <<>>
      BY WordsAre
    <3>2. Der(b, Later(X))[w] = Later(X)[Append(w, b)]
      BY <1>1, SeriesAre
    <3>3. Der(b, X)[w] = X[Append(w, b)]
      BY SeriesAre
    <3> QED BY <1>1, <3>1, <3>2, <3>3
  <2>2. Der(b, Later(X)) \in Series(P) /\ Der(b, X) \in Series(P)
    BY <1>1, SeriesAre
  <2> QED BY <2>1, <2>2, SameSeries
<1> QED BY <1>1, <1>2, <1>3

(* The product with the zeros is zero.                                     *)
LEMMA ConvZero ==
  ASSUME NEW P
  PROVE  \A w \in Words(P) : \A X \in Series(P) :
           Conv(Zero(P), X)[w] = Nought /\ Conv(X, Zero(P))[w] = Nought
<1> SUFFICES ASSUME NEW w \in Words(P), NEW X \in Series(P)
             PROVE  Conv(Zero(P), X)[w] = Nought /\ Conv(X, Zero(P))[w] = Nought
  OBVIOUS
<1> DEFINE O == Zero(P)
           c == Conv(O, X)[w]
           d == Conv(X, O)[w]
<1>0. O \in Series(P)
  BY ZeroIs
<1>1. c \in Matrices /\ d \in Matrices
  BY <1>0, ConvIs, SeriesAre
<1>2. Sum2(O, O) = O
  <2>1. Sum2(O, O) \in Series(P)
    BY <1>0, SeriesAre
  <2>2. ASSUME NEW v \in Words(P) PROVE Sum2(O, O)[v] = O[v]
    <3>1. O[v] = Nought
      BY ZeroIs
    <3>2. Sum2(O, O)[v] = Plus(O[v], O[v])
      BY <1>0, SeriesAre
    <3> QED BY <3>1, <3>2, NoughtIs, PlusNought
  <2> QED BY <1>0, <2>1, <2>2, SameSeries
<1>3. c = Plus(c, c) /\ d = Plus(d, d)
  BY <1>0, <1>2, ConvPlus
<1> HIDE DEF c, d
<1>4. c = Nought /\ d = Nought
  BY <1>1, <1>3, PlusCancels
<1> QED BY <1>4 DEF c, d

(* The first term set apart.                                               *)
LEMMA ConvPick ==
  ASSUME NEW P
  PROVE  \A w \in Words(P) : \A X, Y \in Series(P) :
           /\ Conv(X, Y)[w] = Plus(Times(X[<<>>], Y[w]), Conv(Later(X), Y)[w])
           /\ Conv(X, Y)[w] = Plus(Times(X[w], Y[<<>>]), Conv(X, Later(Y))[w])
<1> DEFINE Good(w) == \A X, Y \in Series(P) :
             /\ Conv(X, Y)[w] = Plus(Times(X[<<>>], Y[w]), Conv(Later(X), Y)[w])
             /\ Conv(X, Y)[w] = Plus(Times(X[w], Y[<<>>]), Conv(X, Later(Y))[w])
           T == {w \in Words(P) : Good(w)}
<1>0. <<>> \in Words(P)
  BY EmptySeq DEF Words
<1>1. <<>> \in T
  <2> SUFFICES ASSUME NEW X \in Series(P), NEW Y \in Series(P)
               PROVE  /\ Conv(X, Y)[<<>>] = Plus(Times(X[<<>>], Y[<<>>]), Conv(Later(X), Y)[<<>>])
                      /\ Conv(X, Y)[<<>>] = Plus(Times(X[<<>>], Y[<<>>]), Conv(X, Later(Y))[<<>>])
    BY <1>0
  <2>1. X[<<>>] \in Matrices /\ Y[<<>>] \in Matrices
    BY <1>0, SeriesAre
  <2>2. Later(X) \in Series(P) /\ Later(Y) \in Series(P) /\ Later(X)[<<>>] = Nought /\ Later(Y)[<<>>] = Nought
    BY LaterIs
  <2>3. Conv(X, Y)[<<>>] = Times(X[<<>>], Y[<<>>])
    BY ConvEmpty
  <2>4. Conv(Later(X), Y)[<<>>] = Times(Nought, Y[<<>>]) /\ Conv(X, Later(Y))[<<>>] = Times(X[<<>>], Nought)
    BY <2>2, ConvEmpty
  <2>5. Times(Nought, Y[<<>>]) = Nought /\ Times(X[<<>>], Nought) = Nought
    BY <2>1, TimesNought
  <2>6. Times(X[<<>>], Y[<<>>]) \in Matrices
    BY <2>1, TimesIs
  <2> QED BY <2>3, <2>4, <2>5, <2>6, PlusNought
<1>2. ASSUME NEW w \in Words(P), w \in T, NEW b \in 1 .. P PROVE Append(w, b) \in T
  <2> DEFINE v == Append(w, b)
  <2>0. v \in Words(P)
    BY WordsAre
  <2> SUFFICES ASSUME NEW X \in Series(P), NEW Y \in Series(P)
               PROVE  /\ Conv(X, Y)[v] = Plus(Times(X[<<>>], Y[v]), Conv(Later(X), Y)[v])
                      /\ Conv(X, Y)[v] = Plus(Times(X[v], Y[<<>>]), Conv(X, Later(Y))[v])
    BY <2>0
  <2> DEFINE A == Der(b, X)
             B == Der(b, Y)
             LX == Later(X)
             LY == Later(Y)
  <2>1. A \in Series(P) /\ B \in Series(P) /\ LX \in Series(P) /\ LY \in Series(P)
    BY SeriesAre, LaterIs
  <2>2. Der(b, LX) = A /\ Der(b, LY) = B
    BY LaterIs
  <2>3. Conv(X, Y)[v] = Plus(Conv(X, B)[w], Conv(A, Y)[w])
    BY ConvAdd
  <2>4. Conv(LX, Y)[v] = Plus(Conv(LX, B)[w], Conv(A, Y)[w])
    BY <2>1, <2>2, ConvAdd
  <2>5. Conv(X, LY)[v] = Plus(Conv(X, B)[w], Conv(A, LY)[w])
    BY <2>1, <2>2, ConvAdd
  <2>6. B[w] = Y[v] /\ A[w] = X[v]
    BY SeriesAre
  <2>7. Good(w)
    BY <1>2
  <2>8. Conv(X, B)[w] = Plus(Times(X[<<>>], B[w]), Conv(LX, B)[w])
    BY <2>1, <2>7
  <2>9. Conv(A, Y)[w] = Plus(Times(A[w], Y[<<>>]), Conv(A, LY)[w])
    BY <2>1, <2>7
  <2>10. X[<<>>] \in Matrices /\ Y[<<>>] \in Matrices /\ B[w] \in Matrices /\ A[w] \in Matrices
    BY <1>0, <2>1, SeriesAre
  <2> HIDE DEF A, B, LX, LY
  <2>11. Times(X[<<>>], B[w]) \in Matrices /\ Times(A[w], Y[<<>>]) \in Matrices
    BY <2>10, TimesIs
  <2>12. Conv(LX, B)[w] \in Matrices /\ Conv(A, Y)[w] \in Matrices /\ Conv(A, LY)[w] \in Matrices /\ Conv(X, B)[w] \in Matrices
    BY <2>1, ConvIs, SeriesAre
  <2>13. Plus(Plus(Times(X[<<>>], B[w]), Conv(LX, B)[w]), Conv(A, Y)[w])
           = Plus(Times(X[<<>>], B[w]), Plus(Conv(LX, B)[w], Conv(A, Y)[w]))
    BY <2>11, <2>12, PlusAssociates
  <2> DEFINE t == Times(A[w], Y[<<>>])
             p == Conv(X, B)[w]
             q == Conv(A, LY)[w]
  <2>14. Plus(p, Plus(t, q)) = Plus(t, Plus(p, q))
    <3>1. p \in Matrices /\ t \in Matrices /\ q \in Matrices
      BY <2>11, <2>12
    <3> HIDE DEF p, t, q
    <3>2. Plus(p, Plus(t, q)) = Plus(Plus(p, t), q) /\ Plus(t, Plus(p, q)) = Plus(Plus(t, p), q)
      BY <3>1, PlusAssociates
    <3>3. Plus(p, t) = Plus(t, p)
      BY <3>1, PlusCommutes
    <3> QED BY <3>2, <3>3
  <2>15. Conv(X, Y)[v] = Plus(Times(X[<<>>], Y[v]), Conv(LX, Y)[v])
    BY <2>3, <2>4, <2>6, <2>8, <2>13
  <2>16. Conv(X, Y)[v] = Plus(Times(X[v], Y[<<>>]), Conv(X, LY)[v])
    BY <2>3, <2>5, <2>6, <2>9, <2>14
  <2> QED BY <2>15, <2>16 DEF LX, LY
<1> HIDE DEF T
<1>3. Words(P) \subseteq T
  BY <1>1, <1>2, WordSteps
<1> QED BY <1>3 DEF T

(* The unit series is the unit of the product.                             *)
LEMMA ConvUnit ==
  ASSUME NEW P, NEW X \in Series(P)
  PROVE  Conv(One(P), X) = X /\ Conv(X, One(P)) = X
<1>0. <<>> \in Words(P)
  BY EmptySeq DEF Words
<1>1. Later(One(P)) = Zero(P)
  <2>1. Later(One(P)) \in Series(P) /\ Zero(P) \in Series(P)
    BY ZeroIs, LaterIs
  <2>2. ASSUME NEW w \in Words(P) PROVE Later(One(P))[w] = Zero(P)[w]
    BY ZeroIs, LaterIs
  <2> QED BY <2>1, <2>2, SameSeries
<1>2. One(P) \in Series(P) /\ One(P)[<<>>] = Identity
  BY ZeroIs
<1>3. Conv(One(P), X) \in Series(P) /\ Conv(X, One(P)) \in Series(P)
  BY <1>2, ConvIs
<1>4. ASSUME NEW w \in Words(P) PROVE Conv(One(P), X)[w] = X[w] /\ Conv(X, One(P))[w] = X[w]
  <2>1. Conv(One(P), X)[w] = Plus(Times(Identity, X[w]), Conv(Zero(P), X)[w])
    BY <1>1, <1>2, ConvPick
  <2>2. Conv(X, One(P))[w] = Plus(Times(X[w], Identity), Conv(X, Zero(P))[w])
    BY <1>1, <1>2, ConvPick
  <2>3. Conv(Zero(P), X)[w] = Nought /\ Conv(X, Zero(P))[w] = Nought
    BY ConvZero
  <2>4. X[w] \in Matrices
    BY SeriesAre
  <2>5. Times(Identity, X[w]) = X[w] /\ Times(X[w], Identity) = X[w]
    BY <2>4, TimesIdentity
  <2> QED BY <2>1, <2>2, <2>3, <2>4, <2>5, PlusNought
<1> QED BY <1>3, <1>4, SameSeries

(* The transpose and the derivative commute.                               *)
LEMMA TurnedDer ==
  ASSUME NEW P, NEW X \in Series(P), NEW b \in 1 .. P
  PROVE  Der(b, Turned(X)) = Turned(Der(b, X))
<1>1. Turned(X) \in Series(P) /\ Der(b, X) \in Series(P)
  BY LaterIs, SeriesAre
<1>2. Der(b, Turned(X)) \in Series(P) /\ Turned(Der(b, X)) \in Series(P)
  BY <1>1, LaterIs, SeriesAre
<1>3. ASSUME NEW w \in Words(P) PROVE Der(b, Turned(X))[w] = Turned(Der(b, X))[w]
  <2>1. Append(w, b) \in Words(P)
    BY WordsAre
  <2>2. Der(b, Turned(X))[w] = Turned(X)[Append(w, b)]
    BY <1>1, SeriesAre
  <2>3. Turned(X)[Append(w, b)] = Transpose(X[Append(w, b)])
    BY <2>1, LaterIs
  <2>4. Turned(Der(b, X))[w] = Transpose(Der(b, X)[w])
    BY <1>1, LaterIs
  <2>5. Der(b, X)[w] = X[Append(w, b)]
    BY SeriesAre
  <2> QED BY <2>2, <2>3, <2>4, <2>5
<1> QED BY <1>2, <1>3, SameSeries

(* The transpose of a product is that of the transposes, the other way.    *)
LEMMA ConvTurned ==
  ASSUME NEW P
  PROVE  \A w \in Words(P) : \A X, Y \in Series(P) :
           Transpose(Conv(X, Y)[w]) = Conv(Turned(Y), Turned(X))[w]
<1> DEFINE Good(w) == \A X, Y \in Series(P) : Transpose(Conv(X, Y)[w]) = Conv(Turned(Y), Turned(X))[w]
           T == {w \in Words(P) : Good(w)}
<1>0. <<>> \in Words(P)
  BY EmptySeq DEF Words
<1>1. <<>> \in T
  <2> SUFFICES ASSUME NEW X \in Series(P), NEW Y \in Series(P)
               PROVE  Transpose(Conv(X, Y)[<<>>]) = Conv(Turned(Y), Turned(X))[<<>>]
    BY <1>0
  <2>1. X[<<>>] \in Matrices /\ Y[<<>>] \in Matrices
    BY <1>0, SeriesAre
  <2>2. Turned(X) \in Series(P) /\ Turned(Y) \in Series(P)
    BY LaterIs
  <2>3. Turned(X)[<<>>] = Transpose(X[<<>>]) /\ Turned(Y)[<<>>] = Transpose(Y[<<>>])
    BY <1>0, LaterIs
  <2>4. Conv(X, Y)[<<>>] = Times(X[<<>>], Y[<<>>])
    BY ConvEmpty
  <2>5. Conv(Turned(Y), Turned(X))[<<>>] = Times(Turned(Y)[<<>>], Turned(X)[<<>>])
    BY <2>2, ConvEmpty
  <2> QED BY <2>1, <2>3, <2>4, <2>5, TransposeTimes
<1>2. ASSUME NEW w \in Words(P), w \in T, NEW b \in 1 .. P PROVE Append(w, b) \in T
  <2> DEFINE v == Append(w, b)
  <2>0. v \in Words(P)
    BY WordsAre
  <2> SUFFICES ASSUME NEW X \in Series(P), NEW Y \in Series(P)
               PROVE  Transpose(Conv(X, Y)[v]) = Conv(Turned(Y), Turned(X))[v]
    BY <2>0
  <2> DEFINE A == Der(b, X)
             B == Der(b, Y)
             TX == Turned(X)
             TY == Turned(Y)
             TA == Turned(A)
             TB == Turned(B)
  <2>1. A \in Series(P) /\ B \in Series(P)
    BY SeriesAre
  <2>2. Der(b, TX) = TA /\ Der(b, TY) = TB
    BY TurnedDer
  <2>3. Conv(X, Y)[v] = Plus(Conv(X, B)[w], Conv(A, Y)[w])
    BY ConvAdd
  <2>4. Good(w)
    BY <1>2
  <2>5. Transpose(Conv(X, B)[w]) = Conv(TB, TX)[w] /\ Transpose(Conv(A, Y)[w]) = Conv(TY, TA)[w]
    BY <2>1, <2>4
  <2> HIDE DEF A, B
  <2>6. TX \in Series(P) /\ TY \in Series(P) /\ TA \in Series(P) /\ TB \in Series(P)
    BY <2>1, LaterIs
  <2> HIDE DEF TX, TY, TA, TB
  <2>7. Conv(TY, TX)[v] = Plus(Conv(TY, TA)[w], Conv(TB, TX)[w])
    BY <2>2, <2>6, ConvAdd
  <2>8. Conv(X, B)[w] \in Matrices /\ Conv(A, Y)[w] \in Matrices
    BY <2>1, ConvIs, SeriesAre
  <2>9. Conv(TB, TX)[w] \in Matrices /\ Conv(TY, TA)[w] \in Matrices
    BY <2>6, ConvIs, SeriesAre
  <2>10. Transpose(Conv(X, Y)[v]) = Plus(Conv(TB, TX)[w], Conv(TY, TA)[w])
    BY <2>3, <2>5, <2>8, TransposePlus
  <2>11. Plus(Conv(TB, TX)[w], Conv(TY, TA)[w]) = Plus(Conv(TY, TA)[w], Conv(TB, TX)[w])
    BY <2>9, PlusCommutes
  <2>12. Transpose(Conv(X, Y)[v]) = Conv(TY, TX)[v]
    BY <2>7, <2>10, <2>11
  <2> QED BY <2>12 DEF TX, TY
<1> HIDE DEF T
<1>3. Words(P) \subseteq T
  BY <1>1, <1>2, WordSteps
<1> QED BY <1>3 DEF T

-----------------------------------------------------------------------------
(* A series that does not read the order of a word's letters, and the      *)
(* product of two such.                                                    *)
Orderless(P, X) == X \in Series(P) /\ \A w \in Words(P) : X[w] = X[Sorted(w)]

(* What sorting does to a word over the predictors.                        *)
LEMMA WordOrders ==
  ASSUME NEW P, NEW w \in Words(P)
  PROVE  /\ Sorted(w) \in Words(P) /\ Len(Sorted(w)) = Len(w) /\ Ascends(Sorted(w))
         /\ Sorted(Sorted(w)) = Sorted(w) /\ Sorted(<<>>) = <<>>
         /\ Ascends(w) => Sorted(w) = w
         /\ \A b \in 1 .. P : Sorted(Append(w, b)) = Insert(Sorted(w), b)
<1> DEFINE D == 1 .. P
<1>1. D \subseteq Int /\ w \in Seq(D)
  BY DEF Words
<1> HIDE DEF D
<1>2. Sorted(w) \in Seq(D) /\ Sorted(<<>>) = <<>>
  BY <1>1, SortedIs
<1>3. Len(Sorted(w)) = Len(w) /\ Ascends(Sorted(w)) /\ (Ascends(w) => Sorted(w) = w)
  BY <1>1, SortedAscends
<1>4. Sorted(Sorted(w)) = Sorted(w)
  BY <1>1, <1>2, <1>3, SortedAscends
<1>5. \A b \in D : Sorted(Append(w, b)) = Insert(Sorted(w), b)
  BY <1>1, SortedAdd
<1> QED BY <1>2, <1>3, <1>4, <1>5 DEF D, Words

(* The derivatives of a series that does not depend on the order of the    *)
(* letters are such a series, and commute.                                 *)
LEMMA OrderlessSwaps ==
  ASSUME NEW P, NEW X, Orderless(P, X), NEW b \in 1 .. P, NEW c \in 1 .. P
  PROVE  /\ X \in Series(P) /\ Orderless(P, Der(b, X))
         /\ Der(b, Der(c, X)) = Der(c, Der(b, X))
<1>1. X \in Series(P) /\ \A w \in Words(P) : X[w] = X[Sorted(w)]
  BY DEF Orderless
<1>2. /\ Der(b, X) \in Series(P) /\ \A w \in Words(P) : Der(b, X)[w] = X[Append(w, b)]
      /\ Der(c, X) \in Series(P) /\ \A w \in Words(P) : Der(c, X)[w] = X[Append(w, c)]
  BY <1>1, SeriesAre
<1>3. Orderless(P, Der(b, X))
  <2>1. ASSUME NEW w \in Words(P) PROVE Der(b, X)[w] = Der(b, X)[Sorted(w)]
    <3> DEFINE s == Sorted(w)
    <3>1. s \in Words(P) /\ Sorted(s) = s
      BY WordOrders
    <3>2. Append(w, b) \in Words(P) /\ Append(s, b) \in Words(P)
      BY <3>1, WordsAre
    <3>3. Sorted(Append(w, b)) = Insert(s, b)
      BY WordOrders
    <3>4. Sorted(Append(s, b)) = Insert(s, b)
      BY <3>1, WordOrders
    <3>5. X[Append(w, b)] = X[Append(s, b)]
      BY <1>1, <3>2, <3>3, <3>4
    <3> QED BY <1>2, <3>1, <3>5
  <2> QED BY <1>2, <2>1 DEF Orderless
<1>4. Der(b, Der(c, X)) = Der(c, Der(b, X))
  <2>1. ASSUME NEW w \in Words(P) PROVE Der(b, Der(c, X))[w] = Der(c, Der(b, X))[w]
    <3>1. Append(w, b) \in Words(P) /\ Append(w, c) \in Words(P)
      BY WordsAre
    <3>2. Append(Append(w, b), c) \in Words(P) /\ Append(Append(w, c), b) \in Words(P)
      BY <3>1, WordsAre
    <3>3. Der(b, Der(c, X))[w] = Der(c, X)[Append(w, b)]
      BY <1>2, SeriesAre
    <3>4. Der(c, Der(b, X))[w] = Der(b, X)[Append(w, c)]
      BY <1>2, SeriesAre
    <3> DEFINE s == Sorted(w)
               D == 1 .. P
    <3>5. Sorted(Append(Append(w, b), c)) = Insert(Insert(s, b), c)
      BY <3>1, WordOrders
    <3>6. Sorted(Append(Append(w, c), b)) = Insert(Insert(s, c), b)
      BY <3>1, WordOrders
    <3>7. D \subseteq Int /\ s \in Seq(D) /\ b \in D /\ c \in D
      BY WordOrders DEF Words
    <3> HIDE DEF D, s
    <3>8. Insert(Insert(s, b), c) = Insert(Insert(s, c), b)
      BY <3>7, InsertSwaps, ZenonT(60)
    <3>9. X[Append(Append(w, b), c)] = X[Append(Append(w, c), b)]
      BY <1>1, <3>2, <3>5, <3>6, <3>8
    <3> QED BY <1>2, <3>1, <3>3, <3>4, <3>9
  <2>2. Der(b, Der(c, X)) \in Series(P) /\ Der(c, Der(b, X)) \in Series(P)
    BY <1>2, SeriesAre
  <2> QED BY <2>1, <2>2, SameSeries
<1> QED BY <1>1, <1>3, <1>4

(* The last two letters of a product of two such series can be swapped.    *)
LEMMA ConvSwaps ==
  ASSUME NEW P, NEW X, Orderless(P, X), NEW Y, Orderless(P, Y),
         NEW w \in Words(P), NEW b \in 1 .. P, NEW c \in 1 .. P
  PROVE  Conv(X, Y)[Append(Append(w, b), c)] = Conv(X, Y)[Append(Append(w, c), b)]
<1> DEFINE Xb == Der(b, X)
           Xc == Der(c, X)
           Yb == Der(b, Y)
           Yc == Der(c, Y)
           Xbc == Der(b, Xc)
           Ybc == Der(b, Yc)
<1>1. X \in Series(P) /\ Y \in Series(P)
  BY DEF Orderless
<1>2. Xb \in Series(P) /\ Xc \in Series(P) /\ Yb \in Series(P) /\ Yc \in Series(P)
  BY <1>1, SeriesAre
<1>3. Xbc \in Series(P) /\ Ybc \in Series(P)
  BY <1>2, SeriesAre
<1>4. Der(c, Xb) = Xbc /\ Der(c, Yb) = Ybc
  BY OrderlessSwaps
<1>5. Append(w, b) \in Words(P) /\ Append(w, c) \in Words(P)
  BY WordsAre
<1>6. Conv(X, Y)[Append(Append(w, b), c)] = Plus(Conv(X, Yc)[Append(w, b)], Conv(Xc, Y)[Append(w, b)])
  BY <1>1, <1>5, ConvAdd
<1>7. Conv(X, Y)[Append(Append(w, c), b)] = Plus(Conv(X, Yb)[Append(w, c)], Conv(Xb, Y)[Append(w, c)])
  BY <1>1, <1>5, ConvAdd
<1>8. Conv(X, Yc)[Append(w, b)] = Plus(Conv(X, Ybc)[w], Conv(Xb, Yc)[w])
  BY <1>1, <1>2, ConvAdd
<1>9. Conv(Xc, Y)[Append(w, b)] = Plus(Conv(Xc, Yb)[w], Conv(Xbc, Y)[w])
  BY <1>1, <1>2, ConvAdd
<1>10. Conv(X, Yb)[Append(w, c)] = Plus(Conv(X, Ybc)[w], Conv(Xc, Yb)[w])
  BY <1>1, <1>2, <1>4, ConvAdd
<1>11. Conv(Xb, Y)[Append(w, c)] = Plus(Conv(Xb, Yc)[w], Conv(Xbc, Y)[w])
  BY <1>1, <1>2, <1>4, ConvAdd
<1> HIDE DEF Xb, Xc, Yb, Yc, Xbc, Ybc
<1>12. /\ Conv(X, Ybc)[w] \in Matrices /\ Conv(Xb, Yc)[w] \in Matrices
       /\ Conv(Xc, Yb)[w] \in Matrices /\ Conv(Xbc, Y)[w] \in Matrices
  BY <1>1, <1>2, <1>3, ConvIs, SeriesAre
<1>13. Plus(Plus(Conv(X, Ybc)[w], Conv(Xb, Yc)[w]), Plus(Conv(Xc, Yb)[w], Conv(Xbc, Y)[w]))
        = Plus(Plus(Conv(X, Ybc)[w], Conv(Xc, Yb)[w]), Plus(Conv(Xb, Yc)[w], Conv(Xbc, Y)[w]))
  BY <1>12, PlusSwap
<1> QED BY <1>6, <1>7, <1>8, <1>9, <1>10, <1>11, <1>13

(* The product of two series that do not depend on the order of the        *)
(* letters does not either.                                                *)
LEMMA ConvOrderless ==
  ASSUME NEW P
  PROVE  \A X, Y : Orderless(P, X) /\ Orderless(P, Y) => Orderless(P, Conv(X, Y))
<1> DEFINE Same(X, Y, w) == Conv(X, Y)[w] = Conv(X, Y)[Sorted(w)]
           Good(n) == \A w \in Words(P) : Len(w) = n =>
                        \A X, Y : Orderless(P, X) /\ Orderless(P, Y) => Same(X, Y, w)
           T == {n \in Nat : Good(n)}
<1>1. 0 \in T
  <2>1. \A w \in Words(P) : Len(w) = 0 => w = <<>>
    BY EmptySeq DEF Words
  <2>2. \A w \in Words(P) : Len(w) = 0 => Sorted(w) = w
    BY <2>1, WordOrders
  <2> QED BY <2>2
<1>2. ASSUME NEW n \in Nat, n \in T PROVE n + 1 \in T
  <2> SUFFICES ASSUME NEW v \in Words(P), Len(v) = n + 1,
                      NEW X, NEW Y, Orderless(P, X), Orderless(P, Y)
               PROVE  Conv(X, Y)[v] = Conv(X, Y)[Sorted(v)]
    OBVIOUS
  <2>0. v # <<>>
    <3>1. Len(<<>>) = 0
      BY EmptySeq
    <3>2. n + 1 # 0
      OBVIOUS
    <3> QED BY <3>1, <3>2
  <2>1. PICK w \in Words(P), b \in 1 .. P : v = Append(w, b)
    BY <2>0, WordLast
  <2>2. Len(w) = n
    BY <2>1, WordsAre
  <2>3. ASSUME NEW u \in Words(P), Len(u) = n, NEW V, NEW W, Orderless(P, V), Orderless(P, W)
        PROVE  Conv(V, W)[u] = Conv(V, W)[Sorted(u)]
    BY <1>2, <2>3
  <2> HIDE DEF T, Good, Same
  <2>4. X \in Series(P) /\ Y \in Series(P)
    BY DEF Orderless
  <2>5. ASSUME NEW u \in Words(P), Len(u) = n, NEW e \in 1 .. P
        PROVE  Conv(X, Y)[Append(u, e)] = Conv(X, Y)[Append(Sorted(u), e)]
    <3> DEFINE Xe == Der(e, X)
               Ye == Der(e, Y)
               s == Sorted(u)
    <3>1. Orderless(P, Xe) /\ Orderless(P, Ye) /\ s \in Words(P)
      BY OrderlessSwaps, WordOrders
    <3>2. Conv(X, Y)[Append(u, e)] = Plus(Conv(X, Ye)[u], Conv(Xe, Y)[u])
      BY <2>4, ConvAdd
    <3>3. Conv(X, Y)[Append(s, e)] = Plus(Conv(X, Ye)[s], Conv(Xe, Y)[s])
      BY <2>4, <3>1, ConvAdd
    <3>4. Conv(X, Ye)[u] = Conv(X, Ye)[s] /\ Conv(Xe, Y)[u] = Conv(Xe, Y)[s]
      BY <2>3, <2>5, <3>1
    <3> QED BY <3>2, <3>3, <3>4
  <2> DEFINE s == Sorted(w)
             D == 1 .. P
  <2>6. s \in Words(P) /\ Len(s) = n /\ Ascends(s) /\ Sorted(v) = Insert(s, b)
    BY <2>1, <2>2, WordOrders
  <2>7. Conv(X, Y)[v] = Conv(X, Y)[Append(s, b)]
    BY <2>1, <2>2, <2>5
  <2> HIDE DEF s
  <2>8. Conv(X, Y)[Append(s, b)] = Conv(X, Y)[Insert(s, b)]
    <3>1. CASE s = <<>>
      <4>1. s \in Seq(D) /\ b \in D
        BY <2>6 DEF Words
      <4> HIDE DEF D
      <4> QED BY <3>1, <4>1, InsertIs
    <3>2. CASE s # <<>>
      <4>1. PICK t \in Words(P), c \in 1 .. P : s = Append(t, c)
        BY <2>6, <3>2, WordLast
      <4>2. t \in Seq(D) /\ b \in D /\ c \in D /\ D \subseteq Int
        BY DEF Words
      <4> HIDE DEF D
      <4>3. Insert(s, b) = IF c <= b THEN Append(s, b) ELSE Append(Insert(t, b), c)
        BY <4>1, <4>2, InsertAdd
      <4>4. CASE c <= b
        BY <4>3, <4>4
      <4>5. CASE ~(c <= b)
        <5>1. Insert(s, b) = Append(Insert(t, b), c)
          BY <4>3, <4>5
        <5>2. Conv(X, Y)[Append(s, b)] = Conv(X, Y)[Append(Append(t, b), c)]
          BY <4>1, ConvSwaps
        <5>3. Ascends(t)
          BY <2>6, <4>1, <4>2, AscendsAdd
        <5>4. Sorted(t) = t
          BY <5>3, WordOrders
        <5>5. Append(t, b) \in Words(P) /\ Len(Append(t, b)) = n
          BY <2>6, <4>1, WordsAre
        <5>6. Sorted(Append(t, b)) = Insert(t, b)
          BY <5>4, WordOrders
        <5>7. Conv(X, Y)[Append(Append(t, b), c)] = Conv(X, Y)[Append(Insert(t, b), c)]
          BY <2>5, <5>5, <5>6
        <5> QED BY <5>1, <5>2, <5>7
      <4> QED BY <4>4, <4>5
    <3> QED BY <3>1, <3>2
  <2> QED BY <2>6, <2>7, <2>8
<1> HIDE DEF T
<1>3. Nat \subseteq T
  BY <1>1, <1>2, NatSet
<1> SUFFICES ASSUME NEW X, NEW Y, Orderless(P, X), Orderless(P, Y)
             PROVE  Orderless(P, Conv(X, Y))
  OBVIOUS
<1>4. \A w \in Words(P) : Len(w) \in Nat
  BY WordsAre
<1>5. \A w \in Words(P) : Conv(X, Y)[w] = Conv(X, Y)[Sorted(w)]
  BY <1>3, <1>4 DEF T
<1>6. Conv(X, Y) \in Series(P)
  BY ConvIs DEF Orderless
<1> QED BY <1>5, <1>6 DEF Orderless

(* An orthogonal basis, and a matrix turned into it.                       *)
Basis(V) ==
  V \in Matrices /\ Times(V, Transpose(V)) = Identity /\ Times(Transpose(V), V) = Identity
InBasis(V, A) == Times(Times(V, A), Transpose(V))

(* To turn matrices into an orthogonal basis keeps sums, products,         *)
(* transposes and the identity.                                            *)
LEMMA BasisTimes ==
  ASSUME NEW V, Basis(V), NEW A \in Matrices, NEW B \in Matrices
  PROVE  /\ InBasis(V, A) \in Matrices
         /\ Times(InBasis(V, A), InBasis(V, B)) = InBasis(V, Times(A, B))
         /\ InBasis(V, Plus(A, B)) = Plus(InBasis(V, A), InBasis(V, B))
         /\ Transpose(InBasis(V, A)) = InBasis(V, Transpose(A))
         /\ InBasis(V, Identity) = Identity
         /\ InBasis(V, Times(Times(Transpose(V), A), V)) = A
<1> DEFINE W == Transpose(V)
<1>1. V \in Matrices /\ W \in Matrices /\ Times(V, W) = Identity /\ Times(W, V) = Identity /\ Transpose(W) = V
  BY TransposeIs DEF Basis
<1> HIDE DEF W
<1> DEFINE VA == Times(V, A)
           VB == Times(V, B)
           WA == Times(W, A)
           BW == Times(B, W)
<1>2. VA \in Matrices /\ VB \in Matrices /\ WA \in Matrices /\ BW \in Matrices /\ Times(A, B) \in Matrices
  BY <1>1, TimesIs
<1>3. Times(VA, W) \in Matrices /\ Times(VB, W) \in Matrices /\ Times(A, BW) \in Matrices
  BY <1>1, <1>2, TimesIs
<1>4. Times(Times(VA, W), Times(VB, W)) = Times(Times(V, Times(A, B)), W)
  <2>1. Times(Times(VA, W), Times(VB, W)) = Times(VA, Times(W, Times(VB, W)))
    BY <1>1, <1>2, <1>3, TimesAssociates
  <2>2. Times(VB, W) = Times(V, BW)
    BY <1>1, TimesAssociates
  <2>3. Times(W, Times(V, BW)) = Times(Times(W, V), BW)
    BY <1>1, <1>2, TimesAssociates
  <2>4. Times(Identity, BW) = BW
    BY <1>2, TimesIdentity
  <2>5. Times(VA, BW) = Times(V, Times(A, BW))
    BY <1>1, <1>2, TimesAssociates
  <2>6. Times(A, BW) = Times(Times(A, B), W)
    BY <1>1, TimesAssociates
  <2>7. Times(V, Times(Times(A, B), W)) = Times(Times(V, Times(A, B)), W)
    BY <1>1, <1>2, TimesAssociates
  <2> QED BY <1>1, <2>1, <2>2, <2>3, <2>4, <2>5, <2>6, <2>7
<1>5. Times(Times(V, Plus(A, B)), W) = Plus(Times(VA, W), Times(VB, W))
  <2>1. Times(V, Plus(A, B)) = Plus(VA, VB)
    BY <1>1, TimesPlus
  <2> QED BY <1>1, <1>2, <2>1, TimesPlus
<1>6. Transpose(Times(VA, W)) = Times(Times(V, Transpose(A)), W)
  <2>1. Transpose(Times(VA, W)) = Times(V, Transpose(VA))
    BY <1>1, <1>2, TransposeTimes
  <2>2. Transpose(VA) = Times(Transpose(A), W)
    BY <1>1, TransposeTimes DEF W
  <2>3. Transpose(A) \in Matrices
    BY TransposeIs
  <2> HIDE DEF VA
  <2> QED BY <1>1, <2>1, <2>2, <2>3, TimesAssociates
<1>7. Times(Times(V, Identity), W) = Identity
  BY <1>1, TimesIdentity
<1>8. Times(Times(V, Times(WA, V)), W) = A
  <2>1. Times(V, Times(WA, V)) = Times(Times(V, WA), V)
    BY <1>1, <1>2, TimesAssociates
  <2>2. Times(V, WA) = Times(Times(V, W), A)
    BY <1>1, TimesAssociates
  <2>3. Times(Identity, A) = A /\ Times(A, Identity) = A
    BY TimesIdentity
  <2>4. Times(Times(A, V), W) = Times(A, Times(V, W))
    BY <1>1, TimesAssociates
  <2> QED BY <1>1, <2>1, <2>2, <2>3, <2>4
<1> QED BY <1>3, <1>4, <1>5, <1>6, <1>7, <1>8 DEF InBasis, W

(* The inverse in the field, which CHOOSE finds where it exists.           *)
LEMMA InvIs ==
  ASSUME NEW a \in Field, a # 0
  PROVE  Inv(a) \in Field /\ (a * Inv(a)) % Prime = 1 % Prime
<1>1. \E b \in Field : (a * b) % Prime = 1 % Prime
  BY ScalingAssumption
<1> QED BY <1>1 DEF Inv

(* Diagonal matrices multiply entry by entry.                              *)
LEMMA DiagonalTimes ==
  ASSUME NEW y \in Vectors, NEW z \in Vectors, NEW u \in Vectors,
         \A k \in Index : u[k] = (y[k] * z[k]) % Prime
  PROVE  /\ Times(Diagonal(y), Diagonal(z)) = Diagonal(u)
         /\ Transpose(Diagonal(y)) = Diagonal(y)
<1>1. Diagonal(y) \in Matrices /\ Diagonal(z) \in Matrices /\ Diagonal(u) \in Matrices
  BY DiagonalIs
<1>2. Times(Diagonal(y), Diagonal(z)) \in Matrices /\ Transpose(Diagonal(y)) \in Matrices
  BY <1>1, TimesIs, TransposeIs
<1>3. \A k \in Index : y[k] \in Int /\ z[k] \in Int
  BY DEF Vectors, Field
<1>4. ASSUME NEW a \in Index, NEW c \in Index
      PROVE  /\ Times(Diagonal(y), Diagonal(z))[<<a, c>>] = Diagonal(u)[<<a, c>>]
             /\ Transpose(Diagonal(y))[<<a, c>>] = Diagonal(y)[<<a, c>>]
  <2>1. Times(Diagonal(y), Diagonal(z))[<<a, c>>] = (y[a] * Diagonal(z)[<<a, c>>]) % Prime
    BY <1>1, TimesDiagonal
  <2>2. Diagonal(z)[<<a, c>>] = IF a = c THEN z[a] ELSE 0
    BY DiagonalIs
  <2>3. Diagonal(u)[<<a, c>>] = IF a = c THEN u[a] ELSE 0
    BY DiagonalIs
  <2>4. y[a] * 0 = 0 /\ 0 % Prime = 0
    BY <1>3, Numbers
  <2>5. Transpose(Diagonal(y))[<<a, c>>] = Diagonal(y)[<<c, a>>]
    BY <1>1, TransposeIs
  <2>6. /\ Diagonal(y)[<<c, a>>] = IF c = a THEN y[c] ELSE 0
        /\ Diagonal(y)[<<a, c>>] = IF a = c THEN y[a] ELSE 0
    BY DiagonalIs
  <2>7. CASE a = c
    BY <2>1, <2>2, <2>3, <2>5, <2>6, <2>7
  <2>8. CASE a # c
    BY <2>1, <2>2, <2>3, <2>4, <2>5, <2>6, <2>8
  <2> QED BY <2>7, <2>8
<1> QED BY <1>1, <1>2, <1>4, SameMatrix

(* What sylvester() returns.                                               *)
LEMMA SylvesterSolves ==
  ASSUME NEW R \in Matrices, Basis(Q), r \in Vectors,
         \A a, c \in Index : (r[a] + r[c]) % Prime # 0
  PROVE  /\ Sylvester(R) \in Matrices
         /\ Plus(Times(Root0, Sylvester(R)), Times(Sylvester(R), Root0)) = R
         /\ R = Transpose(R) => Sylvester(R) = Transpose(Sylvester(R))
<1> DEFINE D == Diagonal(r)
           W == Transpose(Q)
           T1 == Times(Times(W, R), Q)
           w(a, c) == Inv((r[a] + r[c]) % Prime)
           T2 == [x \in Cells |-> (T1[x] * Inv((r[x[1]] + r[x[2]]) % Prime)) % Prime]
<1>1. Q \in Matrices /\ W \in Matrices /\ Times(W, R) \in Matrices
  BY TransposeIs, TimesIs DEF Basis
<1>2. T1 \in Matrices /\ D \in Matrices
  BY <1>1, TimesIs, DiagonalIs
<1>3. \A k \in Index : r[k] \in Int
  BY DEF Vectors, Field
<1>4. ASSUME NEW a \in Index, NEW c \in Index
      PROVE  w(a, c) \in Field /\ w(a, c) \in Int /\ (((r[a] + r[c]) % Prime) * w(a, c)) % Prime = 1 % Prime
  <2>1. r[a] + r[c] \in Int
    BY <1>3
  <2>2. (r[a] + r[c]) % Prime \in Field /\ (r[a] + r[c]) % Prime # 0
    BY <2>1, Numbers
  <2>3. w(a, c) \in Field /\ (((r[a] + r[c]) % Prime) * w(a, c)) % Prime = 1 % Prime
    BY <2>2, InvIs
  <2>4. \A i \in Field : i \in Int
    BY DEF Field
  <2> HIDE DEF w
  <2> QED BY <2>3, <2>4
<1>5. Sylvester(R) = InBasis(Q, T2)
  BY DEF Sylvester, InBasis
<1> HIDE DEF T1, w
<1>6. T2 \in Matrices /\ \A a, c \in Index : T2[<<a, c>>] = (T1[<<a, c>>] * w(a, c)) % Prime
  <2>1. \A a, c \in Index : (T1[<<a, c>>] * w(a, c)) % Prime \in Field
    <3> SUFFICES ASSUME NEW a \in Index, NEW c \in Index PROVE (T1[<<a, c>>] * w(a, c)) % Prime \in Field
      OBVIOUS
    <3>1. T1[<<a, c>>] \in Int /\ w(a, c) \in Int
      BY <1>2, <1>4, Whole
    <3>2. T1[<<a, c>>] * w(a, c) \in Int
      BY <3>1
    <3> QED BY <3>2, Numbers
  <2>2. \A x \in Cells : T2[x] = (T1[<<x[1], x[2]>>] * w(x[1], x[2])) % Prime
    BY <1>2, Entries DEF w
  <2>3. \A x \in Cells : T2[x] \in Field
    BY <2>1, <2>2, Positions
  <2>4. T2 \in Matrices
    BY <2>3 DEF Matrices
  <2>5. ASSUME NEW a \in Index, NEW c \in Index PROVE T2[<<a, c>>] = (T1[<<a, c>>] * w(a, c)) % Prime
    <3>1. <<a, c>> \in Cells
      BY Positions
    <3> QED BY <3>1 DEF w
  <2> QED BY <2>4, <2>5
<1> HIDE DEF T2
<1>7. Plus(Times(D, T2), Times(T2, D)) = T1
  <2>1. Times(D, T2) \in Matrices /\ Times(T2, D) \in Matrices
    BY <1>2, <1>6, TimesIs
  <2>2. ASSUME NEW a \in Index, NEW c \in Index
        PROVE  Plus(Times(D, T2), Times(T2, D))[<<a, c>>] = T1[<<a, c>>]
    <3> DEFINE t == T1[<<a, c>>]
               s == T2[<<a, c>>]
               p == r[a]
               q == r[c]
               v == w(a, c)
    <3>1. Times(D, T2)[<<a, c>>] = (p * s) % Prime /\ Times(T2, D)[<<a, c>>] = (s * q) % Prime
      BY <1>6, TimesDiagonal
    <3>2. Plus(Times(D, T2), Times(T2, D))[<<a, c>>] = (((p * s) % Prime) + ((s * q) % Prime)) % Prime
      BY <2>1, <3>1, PlusIs
    <3>3. t \in Field /\ t \in Int /\ s \in Int /\ p \in Int /\ q \in Int /\ v \in Int /\ s = (t * v) % Prime
      BY <1>2, <1>3, <1>4, <1>6, Entries, Whole
    <3>4. (((p + q) % Prime) * v) % Prime = 1 % Prime
      BY <1>4
    <3> HIDE DEF t, s, p, q, v
    <3> DEFINE n == p + q
    <3>5. n \in Int /\ p * s \in Int /\ s * q \in Int /\ t * v \in Int /\ n * v \in Int /\ s * n \in Int
      BY <3>3
    <3>6. (((p * s) % Prime) + ((s * q) % Prime)) % Prime = ((p * s) + (s * q)) % Prime
      <4>1. ((s * q) % Prime) \in Int
        BY <3>5, ModIs, Positive
      <4>2. (((p * s) % Prime) + ((s * q) % Prime)) % Prime = ((p * s) + ((s * q) % Prime)) % Prime
        BY <3>5, <4>1, ModPlus, Positive
      <4>3. (((s * q) % Prime) + (p * s)) % Prime = ((s * q) + (p * s)) % Prime
        BY <3>5, ModPlus, Positive
      <4>4. \A i, j \in Int : i + j = j + i
        OBVIOUS
      <4> QED BY <3>5, <4>1, <4>2, <4>3, <4>4
    <3>7. (p * s) + (s * q) = s * n
      <4>1. \A i, j, k \in Int : (i * j) + (j * k) = j * (i + k)
        OBVIOUS
      <4> QED BY <3>3, <4>1
    <3>8. (n * v) % Prime = 1 % Prime
      <4> HIDE DEF n
      <4> QED BY <3>3, <3>4, <3>5, ModTimes, Positive DEF n
    <3> HIDE DEF n
    <3>9. (s * n) % Prime = ((t * v) * n) % Prime
      BY <3>3, <3>5, ModTimes, Positive
    <3>10. (t * v) * n = (n * v) * t
      <4>1. \A i, j, k \in Int : (i * j) * k = (k * j) * i
        OBVIOUS
      <4> QED BY <3>3, <3>5, <4>1
    <3>11. ((n * v) * t) % Prime = (((n * v) % Prime) * t) % Prime
      BY <3>3, <3>5, ModTimes, Positive
    <3>12. ((1 % Prime) * t) % Prime = (1 * t) % Prime
      <4>1. 1 \in Int
        OBVIOUS
      <4> QED BY <3>3, <4>1, ModTimes, Positive
    <3>13. 1 * t = t /\ t % Prime = t
      BY <3>3, Numbers
    <3> QED BY <3>2, <3>6, <3>7, <3>8, <3>9, <3>10, <3>11, <3>12, <3>13 DEF t
  <2> QED BY <1>2, <2>1, <2>2, PlusIs, SameMatrix
<1>8. Times(D, T2) \in Matrices /\ Times(T2, D) \in Matrices
  BY <1>2, <1>6, TimesIs
<1>9. Root0 = InBasis(Q, D)
  BY DEF Root0, InBasis
<1> DEFINE X == InBasis(Q, T2)
<1> HIDE DEF D
<1>10. Times(Root0, X) = InBasis(Q, Times(D, T2)) /\ Times(X, Root0) = InBasis(Q, Times(T2, D))
  BY <1>2, <1>6, <1>9, BasisTimes
<1>11. Plus(InBasis(Q, Times(D, T2)), InBasis(Q, Times(T2, D))) = InBasis(Q, T1)
  BY <1>7, <1>8, BasisTimes
<1>12. InBasis(Q, T1) = R
  BY BasisTimes DEF T1, W
<1>13. X \in Matrices
  BY <1>6, BasisTimes
<1>14. ASSUME R = Transpose(R) PROVE X = Transpose(X)
  <2>1. Transpose(T1) = T1
    <3>1. Transpose(T1) = Times(W, Transpose(Times(W, R)))
      BY <1>1, TransposeTimes DEF T1, W
    <3>2. Transpose(Times(W, R)) = Times(Transpose(R), Transpose(W))
      BY <1>1, TransposeTimes
    <3>3. Transpose(W) = Q
      BY <1>1, TransposeIs DEF W
    <3>4. Times(W, Times(R, Q)) = Times(Times(W, R), Q)
      BY <1>1, TimesAssociates
    <3> QED BY <1>14, <3>1, <3>2, <3>3, <3>4 DEF T1
  <2>2. Transpose(T2) \in Matrices
    BY <1>6, TransposeIs
  <2>3. ASSUME NEW a \in Index, NEW c \in Index PROVE Transpose(T2)[<<a, c>>] = T2[<<a, c>>]
    <3>1. Transpose(T2)[<<a, c>>] = (T1[<<c, a>>] * w(c, a)) % Prime
      BY <1>6, TransposeIs
    <3>2. T1[<<c, a>>] = T1[<<a, c>>]
      BY <1>2, <2>1, TransposeIs
    <3>3. w(c, a) = w(a, c)
      <4>1. r[c] + r[a] = r[a] + r[c]
        BY <1>3
      <4> QED BY <4>1 DEF w
    <3> QED BY <1>6, <3>1, <3>2, <3>3
  <2>4. Transpose(T2) = T2
    BY <1>6, <2>2, <2>3, SameMatrix
  <2> QED BY <1>6, <2>4, BasisTimes
<1> QED BY <1>5, <1>10, <1>11, <1>12, <1>13, <1>14

(* jsc_s0_cpp(): the power of the information in its eigenbasis, its root  *)
(* and what the root's square is.                                          *)
ScaleZero(V, y) ==
  [x \in Cells |-> Total(K, [k \in Index |-> V[<<x[1], k>>] * V[<<x[2], k>>] * Inv(y[k])]) % Prime]

(* What jsc_s0_cpp() returns is symmetric, and the inverse of the root.    *)
LEMMA ScaleZeroIs ==
  ASSUME NEW V, Basis(V), NEW y \in Vectors, \A k \in Index : y[k] # 0
  PROVE  /\ ScaleZero(V, y) \in Matrices /\ ScaleZero(V, y) = Transpose(ScaleZero(V, y))
         /\ Times(InBasis(V, Diagonal(y)), ScaleZero(V, y)) = Identity
<1> DEFINE z == [k \in Index |-> Inv(y[k])]
           E == Diagonal(z)
           VE == Times(V, E)
           W == Transpose(V)
           X == ScaleZero(V, y)
           one == [k \in Index |-> 1 % Prime]
<1>1. \A k \in Index : y[k] \in Field /\ Inv(y[k]) \in Field /\ (y[k] * Inv(y[k])) % Prime = 1 % Prime
  BY InvIs DEF Vectors
<1>2. z \in Vectors /\ \A k \in Index : z[k] = Inv(y[k])
  BY <1>1 DEF Vectors
<1>3. V \in Matrices /\ W \in Matrices
  BY TransposeIs DEF Basis
<1> HIDE DEF z
<1>4. E \in Matrices /\ VE \in Matrices
  BY <1>2, <1>3, DiagonalIs, TimesIs
<1>5. \A i \in Field : i \in Int
  BY DEF Field
<1>6. ASSUME NEW x \in Cells PROVE X[x] = InBasis(V, E)[x]
  <2> DEFINE a == x[1]
             c == x[2]
             F == [k \in Index |-> V[<<x[1], k>>] * V[<<x[2], k>>] * Inv(y[k])]
             G == Line(VE, W, a, c)
  <2>1. a \in Index /\ c \in Index /\ x = <<a, c>>
    BY Positions
  <2>2. X[x] = Total(K, F) % Prime
    BY DEF ScaleZero
  <2>3. InBasis(V, E)[x] = Total(K, G) % Prime
    BY <1>3, <1>4, <2>1, TimesIs DEF InBasis
  <2>4. ASSUME NEW k \in 1 .. K PROVE F[k] \in Int /\ G[k] \in Int /\ F[k] % Prime = G[k] % Prime
    <3> DEFINE p == V[<<a, k>>]
               q == V[<<c, k>>]
               i == Inv(y[k])
    <3>0. k \in Index
      BY DEF Index
    <3>1. p \in Int /\ q \in Int /\ i \in Int
      BY <1>1, <1>3, <1>5, <2>1, <3>0, Whole
    <3>2. F[k] = p * q * i
      BY <3>0
    <3>3. G[k] = VE[<<a, k>>] * W[<<k, c>>]
      BY <1>3, <1>4, <2>1, LineIs
    <3>4. W[<<k, c>>] = q
      BY <1>3, <2>1, <3>0, TransposeIs
    <3>5. VE[<<a, k>>] = (p * z[k]) % Prime
      BY <1>2, <1>3, <2>1, <3>0, TimesDiagonal
    <3>6. z[k] = i
      BY <1>2, <3>0
    <3> HIDE DEF p, q, i, F, G, E, VE, W, a, c, X
    <3>7. p * i \in Int /\ (p * i) % Prime \in Int
      BY <3>1, ModIs, Positive
    <3>8. F[k] \in Int /\ F[k] = (p * i) * q
      <4>1. \A j, l, m \in Int : j * l * m = (j * m) * l /\ j * l * m \in Int
        OBVIOUS
      <4> QED BY <3>1, <3>2, <4>1
    <3>9. G[k] = ((p * i) % Prime) * q
      BY <3>3, <3>4, <3>5, <3>6
    <3>10. G[k] \in Int
      BY <3>1, <3>7, <3>9
    <3>11. (((p * i) % Prime) * q) % Prime = ((p * i) * q) % Prime
      BY <3>1, <3>7, ModTimes, Positive
    <3> QED BY <3>8, <3>9, <3>10, <3>11
  <2> HIDE DEF F, G, X
  <2>5. Total(K, F) % Prime = Total(K, G) % Prime
    BY <2>4, ModTotal, Positive
  <2> QED BY <2>2, <2>3, <2>5
<1>7. InBasis(V, E) \in Matrices
  BY <1>4, BasisTimes
<1>8. X = InBasis(V, E)
  BY <1>6, <1>7 DEF Matrices, ScaleZero
<1>9. one \in Vectors /\ Identity = Diagonal(one)
  BY IdentityIs DEF Identity
<1>10. \A k \in Index : one[k] = (y[k] * z[k]) % Prime
  BY <1>1, <1>2
<1> HIDE DEF one, X
<1>11. Times(Diagonal(y), E) = Identity
  BY <1>2, <1>9, <1>10, DiagonalTimes
<1>12. Diagonal(y) \in Matrices
  BY DiagonalIs
<1>13. Times(InBasis(V, Diagonal(y)), InBasis(V, E)) = InBasis(V, Times(Diagonal(y), E))
  BY <1>4, <1>12, BasisTimes
<1>14. InBasis(V, Identity) = Identity
  BY <1>4, BasisTimes
<1>15. Transpose(E) = E
  <2> DEFINE u == [k \in Index |-> (z[k] * z[k]) % Prime]
  <2>1. \A k \in Index : u[k] = (z[k] * z[k]) % Prime
    OBVIOUS
  <2>2. \A k \in Index : (z[k] * z[k]) % Prime \in Field
    <3> SUFFICES ASSUME NEW k \in Index PROVE (z[k] * z[k]) % Prime \in Field
      OBVIOUS
    <3>1. z[k] \in Int
      BY <1>1, <1>2, <1>5
    <3>2. z[k] * z[k] \in Int
      BY <3>1
    <3> QED BY <3>2, Numbers
  <2>3. u \in Vectors
    BY <2>2 DEF Vectors
  <2> HIDE DEF u
  <2> QED BY <1>2, <2>1, <2>3, DiagonalTimes
<1>16. Transpose(InBasis(V, E)) = InBasis(V, E)
  BY <1>4, <1>15, BasisTimes
<1> QED BY <1>7, <1>8, <1>11, <1>13, <1>14, <1>16 DEF X

(* The root and its square.                                                *)
LEMMA RootIs ==
  ASSUME NEW V, Basis(V), NEW y \in Vectors, NEW u \in Vectors,
         \A k \in Index : u[k] = (y[k] * y[k]) % Prime
  PROVE  /\ InBasis(V, Diagonal(y)) \in Matrices
         /\ InBasis(V, Diagonal(y)) = Transpose(InBasis(V, Diagonal(y)))
         /\ Times(InBasis(V, Diagonal(y)), InBasis(V, Diagonal(y))) = InBasis(V, Diagonal(u))
<1> DEFINE D == Diagonal(y)
<1>1. D \in Matrices
  BY DiagonalIs
<1>2. Times(D, D) = Diagonal(u) /\ Transpose(D) = D
  BY DiagonalTimes
<1> HIDE DEF D
<1>3. /\ InBasis(V, D) \in Matrices /\ Times(InBasis(V, D), InBasis(V, D)) = InBasis(V, Times(D, D))
      /\ Transpose(InBasis(V, D)) = InBasis(V, Transpose(D))
  BY <1>1, BasisTimes
<1> QED BY <1>2, <1>3 DEF D

-----------------------------------------------------------------------------
(* A vector as the matrix that repeats it.                                 *)
Wide(y) == [x \in Cells |-> y[x[1]]]

(* A vector as the matrix of equal columns: the product with a matrix is   *)
(* Apply.                                                                  *)
LEMMA WideIs ==
  ASSUME NEW y \in Vectors
  PROVE  /\ Wide(y) \in Matrices
         /\ \A x \in Cells : Wide(y)[x] = y[x[1]]
         /\ \A z \in Vectors : Wide(z) = Wide(y) => z = y
         /\ \A X \in Matrices : Apply(X, y) \in Vectors /\ Wide(Apply(X, y)) = Times(X, Wide(y))
<1>1. Wide(y) \in Matrices /\ \A a, c \in Index : Wide(y)[<<a, c>>] = y[a]
  <2>1. \A x \in Cells : y[x[1]] \in Field
    BY Positions DEF Vectors
  <2> QED BY <2>1, Positions DEF Wide, Matrices
<1>2. ASSUME NEW z \in Vectors, Wide(z) = Wide(y) PROVE z = y
  <2>1. ASSUME NEW a \in Index PROVE z[a] = y[a]
    <3>1. <<a, a>> \in Cells
      BY Positions
    <3>2. Wide(z)[<<a, a>>] = z[a]
      BY <3>1 DEF Wide
    <3> QED BY <1>1, <1>2, <3>2
  <2> QED BY <2>1 DEF Vectors
<1>3. ASSUME NEW X \in Matrices
      PROVE  Apply(X, y) \in Vectors /\ Wide(Apply(X, y)) = Times(X, Wide(y))
  <2>1. ASSUME NEW a \in Index, NEW c \in Index PROVE Times(X, Wide(y))[<<a, c>>] = Apply(X, y)[a]
    <3>1. Times(X, Wide(y))[<<a, c>>] = Total(K, Line(X, Wide(y), a, c)) % Prime
      BY <1>1, TimesIs
    <3>2. Line(X, Wide(y), a, c) = [k \in Index |-> X[<<a, k>>] * y[k]]
      BY <1>1 DEF Line
    <3> QED BY <3>1, <3>2 DEF Apply
  <2>2. Times(X, Wide(y)) \in Matrices
    BY <1>1, TimesIs
  <2>3. Apply(X, y) \in Vectors
    <3>1. \A a \in Index : Apply(X, y)[a] \in Field
      <4> SUFFICES ASSUME NEW a \in Index PROVE Apply(X, y)[a] \in Field
        OBVIOUS
      <4>1. Times(X, Wide(y))[<<a, a>>] \in Field
        BY <2>2, Entries
      <4> QED BY <2>1, <4>1
    <3> QED BY <3>1 DEF Apply, Vectors
  <2>4. ASSUME NEW x \in Cells PROVE Wide(Apply(X, y))[x] = Times(X, Wide(y))[x]
    <3>1. x[1] \in Index /\ x[2] \in Index /\ x = <<x[1], x[2]>>
      BY Positions
    <3>2. Wide(Apply(X, y))[x] = Apply(X, y)[x[1]]
      BY DEF Wide
    <3>3. Times(X, Wide(y))[<<x[1], x[2]>>] = Apply(X, y)[x[1]]
      BY <2>1, <3>1
    <3> QED BY <3>1, <3>2, <3>3
  <2>5. Wide(Apply(X, y)) \in Matrices
    <3>1. \A x \in Cells : Apply(X, y)[x[1]] \in Field
      BY <2>3, Positions DEF Vectors
    <3> QED BY <3>1 DEF Wide, Matrices
  <2> QED BY <2>2, <2>3, <2>4, <2>5, SameCells
<1>4. \A x \in Cells : Wide(y)[x] = y[x[1]]
  BY DEF Wide
<1> QED BY <1>1, <1>2, <1>3, <1>4

(* A sum over the masks is the sum over their complements.                 *)
Flipped(m, F, G) == \A A \in Masks(m) : G[A] = F[1 .. m \ A]

(* A sum over the masks is that over their complements.                    *)
LEMMA SumFlip ==
  \A m \in Nat : \A F, G : Summable(m, F) /\ Flipped(m, F, G)
                             => Summable(m, G) /\ SumOver(m, G) = SumOver(m, F)
<1> DEFINE Good(m) == \A F, G : Summable(m, F) /\ Flipped(m, F, G)
                                  => Summable(m, G) /\ SumOver(m, G) = SumOver(m, F)
           T == {m \in Nat : Good(m)}
<1>1. 0 \in T
  <2> SUFFICES ASSUME NEW F, NEW G, Summable(0, F), Flipped(0, F, G)
               PROVE  Summable(0, G) /\ SumOver(0, G) = SumOver(0, F)
    OBVIOUS
  <2>1. {} \in Masks(0) /\ 1 .. 0 \ {} = {}
    BY DEF Masks
  <2>2. G[{}] = F[{}] /\ F[{}] \in Int
    BY <2>1 DEF Summable, Flipped
  <2>3. SumOver(0, F) = F[{}] /\ SumOver(0, G) = G[{}] /\ Summable(0, G)
    BY <2>2, SumOverOne
  <2> QED BY <2>2, <2>3
<1>2. ASSUME NEW m \in Nat, m \in T PROVE m + 1 \in T
  <2> SUFFICES ASSUME NEW F, NEW G, Summable(m + 1, F), Flipped(m + 1, F, G)
               PROVE  Summable(m + 1, G) /\ SumOver(m + 1, G) = SumOver(m + 1, F)
    OBVIOUS
  <2>0. Good(m)
    BY <1>2
  <2> HIDE DEF T, Good
  <2> DEFINE n == m + 1
             F1 == [A \in Masks(m) |-> F[A]]
             F2 == [A \in Masks(m) |-> F[A \union {n}]]
             G1 == [A \in Masks(m) |-> G[A]]
             G2 == [A \in Masks(m) |-> G[A \union {n}]]
  <2>1. Halves(m, F, F1, F2) /\ Halves(m, G, G1, G2)
    BY DEF Halves
  <2>2. \A A \in Masks(n) : 1 .. n \ A \in Masks(n)
    BY DEF Masks
  <2>3. Summable(n, G)
    BY <2>2 DEF Summable, Flipped
  <2>4. 1 .. n = (1 .. m) \union {n} /\ n \notin 1 .. m
    OBVIOUS
  <2> HIDE DEF n
  <2>5. ASSUME NEW A \in Masks(m)
        PROVE  /\ A \in Masks(n) /\ A \union {n} \in Masks(n)
               /\ 1 .. n \ A = (1 .. m \ A) \union {n} /\ 1 .. n \ (A \union {n}) = 1 .. m \ A
               /\ 1 .. m \ A \in Masks(m)
    BY <2>4 DEF Masks
  <2>6. Flipped(m, F2, G1)
    <3> SUFFICES ASSUME NEW A \in Masks(m) PROVE G1[A] = F2[1 .. m \ A]
      BY DEF Flipped
    <3>1. G1[A] = G[A] /\ F2[1 .. m \ A] = F[(1 .. m \ A) \union {n}]
      BY <2>5
    <3>2. G[A] = F[1 .. n \ A]
      BY <2>5 DEF Flipped, n
    <3> QED BY <2>5, <3>1, <3>2
  <2>7. Flipped(m, F1, G2)
    <3> SUFFICES ASSUME NEW A \in Masks(m) PROVE G2[A] = F1[1 .. m \ A]
      BY DEF Flipped
    <3>1. G2[A] = G[A \union {n}] /\ F1[1 .. m \ A] = F[1 .. m \ A]
      BY <2>5
    <3>2. G[A \union {n}] = F[1 .. n \ (A \union {n})]
      BY <2>5 DEF Flipped, n
    <3> QED BY <2>5, <3>1, <3>2
  <2> HIDE DEF F1, F2, G1, G2
  <2>8. Summable(m, F1) /\ Summable(m, F2) /\ SumOver(m + 1, F) = SumOver(m, F1) + SumOver(m, F2)
    BY <2>1, SumOverAdd
  <2>9. SumOver(m + 1, G) = SumOver(m, G1) + SumOver(m, G2)
    BY <2>1, <2>3, SumOverAdd DEF n
  <2>10. SumOver(m, G1) = SumOver(m, F2) /\ SumOver(m, G2) = SumOver(m, F1)
    BY <2>0, <2>6, <2>7, <2>8 DEF Good
  <2>11. SumOver(m, F1) \in Int /\ SumOver(m, F2) \in Int
    BY <2>8, SumOverIsInt
  <2>12. \A i, j \in Int : i + j = j + i
    OBVIOUS
  <2> QED BY <2>3, <2>8, <2>9, <2>10, <2>11, <2>12 DEF n
<1> HIDE DEF T
<1>3. Nat \subseteq T
  BY <1>1, <1>2, NatSet
<1> QED BY <1>3 DEF T

(* The components by order as a series: at a word, the one of its multiset.*)
Table(P, Z, X) ==
  [w \in Words(P) |-> IF Len(w) \in DOMAIN X THEN X[Len(w)][Sorted(w)]
                      ELSE IF w = <<>> THEN Z ELSE Nought]
\* Every multiset of the orders there is has a matrix, or a symmetric one.
Filled(P, X) ==
  \A o \in DOMAIN X : \A B \in MultisetsOver(P, o) : B \in DOMAIN X[o] /\ X[o][B] \in Matrices
Complete(P, X) ==
  \A o \in DOMAIN X : \A B \in MultisetsOver(P, o) : B \in DOMAIN X[o] /\ IsMatrix(X[o][B])

(* A table with every multiset of its orders is a series that does not     *)
(* depend on the order of the letters.                                     *)
LEMMA TableIs ==
  ASSUME NEW P \in Nat, NEW Z \in Matrices, NEW X, Filled(P, X), DOMAIN X \subseteq Nat
  PROVE  /\ Table(P, Z, X) \in Series(P) /\ Orderless(P, Table(P, Z, X))
         /\ \A w \in Words(P) : Len(w) \in DOMAIN X
              => /\ Table(P, Z, X)[w] = At(X, w) /\ At(X, w) \in Matrices
                 /\ Sorted(w) \in DOMAIN X[Len(w)]
         /\ \A w \in Words(P) : Len(w) \notin DOMAIN X /\ w # <<>> => Table(P, Z, X)[w] = Nought
         /\ 0 \notin DOMAIN X => Table(P, Z, X)[<<>>] = Z
<1> DEFINE T == Table(P, Z, X)
<1>1. Nought \in Matrices
  BY NoughtIs
<1>2. ASSUME NEW w \in Words(P), Len(w) \in DOMAIN X
      PROVE  Sorted(w) \in DOMAIN X[Len(w)] /\ At(X, w) \in Matrices
  <2>1. Sorted(w) \in Words(P) /\ Len(Sorted(w)) = Len(w) /\ Ascends(Sorted(w)) /\ Len(w) \in Nat
    BY WordOrders, WordsAre
  <2>2. Sorted(w) \in MultisetsOver(P, Len(w))
    BY <2>1, MultisetsAre DEF Words
  <2>3. Sorted(w) \in DOMAIN X[Len(w)] /\ X[Len(w)][Sorted(w)] \in Matrices
    BY <1>2, <2>2, Zenon DEF Filled
  <2> QED BY <2>3 DEF At
<1>3. \A w \in Words(P) : T[w] = IF Len(w) \in DOMAIN X THEN At(X, w) ELSE IF w = <<>> THEN Z ELSE Nought
  BY DEF Table, At
<1>4. T = [w \in Words(P) |-> T[w]]
  BY DEF Table
<1> HIDE DEF T
<1>5. \A w \in Words(P) : T[w] \in Matrices
  BY <1>1, <1>2, <1>3
<1>6. T \in Series(P)
  BY <1>4, <1>5 DEF Series
<1>7. Orderless(P, T)
  <2>1. ASSUME NEW w \in Words(P) PROVE T[w] = T[Sorted(w)]
    <3> DEFINE s == Sorted(w)
    <3>1. s \in Words(P) /\ Len(s) = Len(w) /\ Sorted(s) = s /\ Len(w) \in Nat
      BY WordOrders, WordsAre
    <3>2. (w = <<>>) <=> (s = <<>>)
      <4>1. \A v \in Words(P) : v = <<>> <=> Len(v) = 0
        BY EmptySeq DEF Words
      <4> QED BY <3>1, <4>1
    <3>3. At(X, s) = At(X, w)
      BY <3>1 DEF At
    <3> HIDE DEF s
    <3>4. T[w] = IF Len(w) \in DOMAIN X THEN At(X, w) ELSE IF w = <<>> THEN Z ELSE Nought
      BY <1>3
    <3>5. T[s] = IF Len(s) \in DOMAIN X THEN At(X, s) ELSE IF s = <<>> THEN Z ELSE Nought
      BY <1>3, <3>1
    <3>6. CASE Len(w) \in DOMAIN X
      BY <3>1, <3>3, <3>4, <3>5, <3>6 DEF s
    <3>7. CASE Len(w) \notin DOMAIN X
      BY <3>1, <3>2, <3>4, <3>5, <3>7 DEF s
    <3> QED BY <3>6, <3>7 DEF s
  <2> QED BY <1>6, <2>1 DEF Orderless
<1>8. ASSUME 0 \notin DOMAIN X PROVE T[<<>>] = Z
  <2>1. <<>> \in Words(P) /\ Len(<<>>) = 0
    BY EmptySeq DEF Words
  <2> QED BY <1>3, <1>8, <2>1
<1>9. \A w \in Words(P) : Len(w) \in DOMAIN X
              => /\ T[w] = At(X, w) /\ At(X, w) \in Matrices
                 /\ Sorted(w) \in DOMAIN X[Len(w)]
  BY <1>2, <1>3
<1>10. \A w \in Words(P) : Len(w) \notin DOMAIN X /\ w # <<>> => T[w] = Nought
  BY <1>3
<1> QED BY <1>6, <1>7, <1>8, <1>9, <1>10 DEF T

(* If its matrices are symmetric, so is the series.                        *)
LEMMA TableTurned ==
  ASSUME NEW P \in Nat, NEW Z, IsMatrix(Z), NEW X, Complete(P, X), DOMAIN X \subseteq Nat
  PROVE  Z \in Matrices /\ Filled(P, X) /\ Turned(Table(P, Z, X)) = Table(P, Z, X)
<1> DEFINE T == Table(P, Z, X)
<1>1. IsMatrix(Nought)
  BY NoughtTurns
<1>2. Z \in Matrices /\ Filled(P, X)
  BY DEF Complete, Filled, IsMatrix
<1>3. T \in Series(P)
  BY <1>2, TableIs
<1>4. ASSUME NEW w \in Words(P) PROVE Transpose(T[w]) = T[w]
  <2>1. CASE Len(w) \in DOMAIN X
    <3>1. Sorted(w) \in Words(P) /\ Len(Sorted(w)) = Len(w) /\ Ascends(Sorted(w)) /\ Len(w) \in Nat
      BY WordOrders, WordsAre
    <3>2. Sorted(w) \in MultisetsOver(P, Len(w))
      BY <3>1, MultisetsAre DEF Words
    <3>3. IsMatrix(X[Len(w)][Sorted(w)])
      BY <2>1, <3>2, Zenon DEF Complete
    <3>4. T[w] = At(X, w)
      BY <1>2, <2>1, TableIs
    <3> QED BY <3>3, <3>4 DEF At, IsMatrix
  <2>2. CASE Len(w) \notin DOMAIN X
    <3>1. T[w] = IF w = <<>> THEN Z ELSE Nought
      BY <2>2 DEF Table
    <3> HIDE DEF T
    <3>2. IsMatrix(T[w])
      BY <1>1, <3>1
    <3> QED BY <3>2 DEF IsMatrix
  <2> QED BY <2>1, <2>2
<1> HIDE DEF T
<1>5. Turned(T) \in Series(P) /\ \A w \in Words(P) : Turned(T)[w] = Transpose(T[w])
  BY <1>3, LaterIs
<1>6. \A w \in Words(P) : Turned(T)[w] = T[w]
  BY <1>4, <1>5
<1> QED BY <1>2, <1>3, <1>5, <1>6, SameSeries DEF T

(* The terms the code lists add up to the product of two series when they  *)
(* are the series' own, and those it leaves out are nought.                *)
Lists(X, Y, V, W, B, masks) ==
  \A A \in Masks(Len(B)) :
    IF A \in masks THEN At(X, Sub(B, A)) = V[Sub(B, A)] /\ At(Y, Rest(B, A)) = W[Rest(B, A)]
    ELSE Times(V[Sub(B, A)], W[Rest(B, A)]) = Nought

(* Leibniz over masks whose terms are those of two series, the others      *)
(* zero, is their product.                                                 *)
LEMMA LeibnizIs ==
  ASSUME NEW P, NEW V \in Series(P), NEW W \in Series(P), NEW B \in Words(P),
         NEW X, NEW Y, NEW masks, Lists(X, Y, V, W, B, masks)
  PROVE  Leibniz(X, Y, B, masks) = Conv(V, W)[B]
<1> DEFINE F(x) == [A \in Masks(Len(B)) |->
                      IF A \in masks THEN Times(At(X, Sub(B, A)), At(Y, Rest(B, A)))[x] ELSE 0]
<1>1. ASSUME NEW x \in Cells PROVE F(x) = Terms(V, W, B, x)
  <2>1. ASSUME NEW A \in Masks(Len(B))
        PROVE  (IF A \in masks THEN Times(At(X, Sub(B, A)), At(Y, Rest(B, A)))[x] ELSE 0)
                 = Times(V[Sub(B, A)], W[Rest(B, A)])[x]
    <3>1. CASE A \in masks
      BY <3>1 DEF Lists
    <3>2. CASE A \notin masks
      <4>1. Times(V[Sub(B, A)], W[Rest(B, A)]) = Nought
        BY <3>2 DEF Lists
      <4> QED BY <3>2, <4>1, NoughtIs
    <3> QED BY <3>1, <3>2
  <2> QED BY <2>1 DEF Terms
<1>2. \A x \in Cells : Conv(V, W)[B][x] = SumOver(Len(B), Terms(V, W, B, x)) % Prime
  BY ConvIs
<1>3. Conv(V, W)[B] \in Matrices
  BY ConvIs, SeriesAre
<1>4. Leibniz(X, Y, B, masks) = [x \in Cells |-> SumOver(Len(B), F(x)) % Prime]
  BY DEF Leibniz
<1> HIDE DEF F
<1>5. \A x \in Cells : Leibniz(X, Y, B, masks)[x] = Conv(V, W)[B][x]
  BY <1>1, <1>2, <1>4
<1>6. Leibniz(X, Y, B, masks) \in Matrices
  BY <1>3, <1>4, <1>5 DEF Matrices
<1> QED BY <1>3, <1>5, <1>6, SameCells

(* The same for the products with vectors, over all the masks.             *)
ListsWide(X, y, V, W, B) ==
  \A A \in Masks(Len(B)) :
    At(X, Rest(B, A)) = V[Rest(B, A)] /\ At(y, Sub(B, A)) \in Vectors /\ Wide(At(y, Sub(B, A))) = W[Sub(B, A)]

(* LeibnizVector is the product with the series of vectors.                *)
LEMMA LeibnizVectorIs ==
  ASSUME NEW P, NEW V \in Series(P), NEW W \in Series(P), NEW B \in Words(P),
         NEW X, NEW y, ListsWide(X, y, V, W, B)
  PROVE  /\ LeibnizVector(X, y, B, All(Len(B))) \in Vectors
         /\ Wide(LeibnizVector(X, y, B, All(Len(B)))) = Conv(V, W)[B]
<1> DEFINE m == Len(B)
           u == LeibnizVector(X, y, B, All(Len(B)))
           F(a) == [A \in Masks(m) |->
                      IF A \in All(m) THEN Apply(At(X, Rest(B, A)), At(y, Sub(B, A)))[a] ELSE 0]
<1>0. m \in Nat
  BY WordsAre
<1>1. u = [a \in Index |-> SumOver(m, F(a)) % Prime]
  BY DEF LeibnizVector
<1>2. ASSUME NEW x \in Cells
      PROVE  SumOver(m, F(x[1])) % Prime = Conv(V, W)[B][x]
  <2> DEFINE G == Terms(V, W, B, x)
             H == F(x[1])
  <2>1. Summable(m, G) /\ Conv(V, W)[B][x] = SumOver(m, G) % Prime
    BY ConvIs
  <2>2. Flipped(m, G, H)
    <3> SUFFICES ASSUME NEW A \in Masks(m) PROVE H[A] = G[1 .. m \ A]
      BY DEF Flipped
    <3> DEFINE C == 1 .. m \ A
    <3>1. C \in Masks(m) /\ 1 .. m \ C = A
      BY DEF Masks
    <3>2. H[A] = Apply(At(X, Rest(B, A)), At(y, Sub(B, A)))[x[1]]
      BY DEF All
    <3>3. G[C] = Times(V[Sub(B, C)], W[Rest(B, C)])[x]
      BY <3>1 DEF Terms
    <3>4. Sub(B, C) = Rest(B, A) /\ Rest(B, C) = Sub(B, A)
      BY <3>1 DEF Rest
    <3>5. At(X, Rest(B, A)) = V[Rest(B, A)] /\ At(y, Sub(B, A)) \in Vectors /\ Wide(At(y, Sub(B, A))) = W[Sub(B, A)]
      BY DEF ListsWide
    <3>6. V[Rest(B, A)] \in Matrices
      BY WordsAre, SeriesAre
    <3>7. Wide(Apply(V[Rest(B, A)], At(y, Sub(B, A)))) = Times(V[Rest(B, A)], W[Sub(B, A)])
      BY <3>5, <3>6, WideIs
    <3>8. Wide(Apply(V[Rest(B, A)], At(y, Sub(B, A))))[x] = Apply(V[Rest(B, A)], At(y, Sub(B, A)))[x[1]]
      BY DEF Wide
    <3> HIDE DEF C, G, H
    <3> QED BY <3>2, <3>3, <3>4, <3>5, <3>7, <3>8 DEF C
  <2> HIDE DEF G, H, m
  <2>3. SumOver(m, H) = SumOver(m, G)
    BY <1>0, <2>1, <2>2, SumFlip
  <2> QED BY <2>1, <2>3 DEF H
<1>3. Conv(V, W)[B] \in Matrices
  BY ConvIs, SeriesAre
<1> HIDE DEF F, m
<1>4. \A a \in Index : u[a] = SumOver(m, F(a)) % Prime
  BY <1>1
<1>5. ASSUME NEW a \in Index PROVE u[a] \in Field
  <2>1. <<a, a>> \in Cells /\ <<a, a>>[1] = a
    BY Positions
  <2>2. SumOver(m, F(a)) % Prime = Conv(V, W)[B][<<a, a>>]
    BY <1>2, <2>1
  <2> QED BY <1>3, <1>4, <2>1, <2>2, Entries
<1>6. u \in Vectors
  BY <1>1, <1>5 DEF Vectors
<1> HIDE DEF u
<1>7. ASSUME NEW x \in Cells PROVE Wide(u)[x] = Conv(V, W)[B][x]
  <2>1. x[1] \in Index
    BY Positions
  <2>2. Wide(u)[x] = u[x[1]]
    BY DEF Wide
  <2> QED BY <1>2, <1>4, <2>1, <2>2
<1>8. Wide(u) = Conv(V, W)[B]
  BY <1>3, <1>6, <1>7, WideIs, SameCells
<1> QED BY <1>6, <1>8 DEF u

(* The difference of two matrices as the code writes it.                   *)
Less(X, Y) == [x \in Cells |-> (X[x] + Prime - Y[x]) % Prime]

(* The difference, added back, is the minuend.                             *)
LEMMA LessIs ==
  ASSUME NEW X \in Matrices, NEW Y \in Matrices
  PROVE  /\ Less(X, Y) \in Matrices /\ Plus(Less(X, Y), Y) = X
         /\ X = Transpose(X) /\ Y = Transpose(Y) => Less(X, Y) = Transpose(Less(X, Y))
<1> DEFINE D == Less(X, Y)
<1>1. \A x \in Cells : X[x] \in Int /\ Y[x] \in Int /\ X[x] + Prime - Y[x] \in Int
  BY Whole, Positive
<1>2. \A x \in Cells : (X[x] + Prime - Y[x]) % Prime \in Field
  BY <1>1, Numbers
<1>3. D \in Matrices /\ \A x \in Cells : D[x] = (X[x] + Prime - Y[x]) % Prime
  BY <1>2 DEF Less, Matrices
<1> HIDE DEF D
<1>4. ASSUME NEW a \in Index, NEW c \in Index PROVE Plus(D, Y)[<<a, c>>] = X[<<a, c>>]
  <2> DEFINE p == X[<<a, c>>]
             q == Y[<<a, c>>]
             n == p + Prime - q
  <2>1. p \in Int /\ q \in Int /\ p \in Field /\ Prime \in Int /\ <<a, c>> \in Cells
    BY Entries, Whole, Positive, Positions
  <2>2. Plus(D, Y)[<<a, c>>] = ((n % Prime) + q) % Prime
    BY <1>3, <2>1, PlusIs
  <2> HIDE DEF p, q
  <2>3. n \in Int /\ n + q = p + 1 * Prime /\ n + q \in Int /\ 1 \in Int
    BY <2>1
  <2> HIDE DEF n
  <2>4. ((n % Prime) + q) % Prime = (n + q) % Prime
    BY <2>1, <2>3, ModPlus, Positive
  <2>5. (n + q) % Prime = p % Prime
    BY <2>1, <2>3, ModSame, Positive
  <2>6. p % Prime = p
    BY <2>1, Numbers
  <2> QED BY <2>2, <2>4, <2>5, <2>6 DEF p
<1>5. Plus(D, Y) = X
  BY <1>3, <1>4, PlusIs, SameMatrix
<1>6. ASSUME X = Transpose(X), Y = Transpose(Y) PROVE D = Transpose(D)
  <2>1. Transpose(D) \in Matrices
    BY <1>3, TransposeIs
  <2>2. ASSUME NEW a \in Index, NEW c \in Index PROVE D[<<a, c>>] = Transpose(D)[<<a, c>>]
    <3>1. <<a, c>> \in Cells /\ <<c, a>> \in Cells
      BY Positions
    <3>2. X[<<a, c>>] = X[<<c, a>>] /\ Y[<<a, c>>] = Y[<<c, a>>]
      BY <1>6, TransposeIs
    <3>3. Transpose(D)[<<a, c>>] = D[<<c, a>>]
      BY <1>3, TransposeIs
    <3> QED BY <1>3, <3>1, <3>2, <3>3
  <2> QED BY <1>3, <2>1, <2>2, SameMatrix
<1> QED BY <1>3, <1>5, <1>6 DEF D

(* mm_neg of a product: what is added to give nought.                      *)
LEMMA NegLeftIs ==
  ASSUME NEW Z \in Matrices, NEW Y \in Matrices, NEW A \in Matrices, Times(Z, Y) = Identity
  PROVE  NegLeft(Y, A) \in Matrices /\ Plus(Times(Z, NegLeft(Y, A)), A) = Nought
<1> DEFINE T == Times(Y, A)
           N == NegLeft(Y, A)
<1>1. T \in Matrices /\ Nought \in Matrices
  BY TimesIs, NoughtIs
<1>2. N = Less(Nought, T)
  <2>1. \A x \in Cells : (Prime - T[x]) % Prime = (Nought[x] + Prime - T[x]) % Prime
    <3> SUFFICES ASSUME NEW x \in Cells PROVE Prime - T[x] = Nought[x] + Prime - T[x]
      OBVIOUS
    <3>1. Nought[x] = 0 /\ T[x] \in Int /\ Prime \in Int
      BY <1>1, NoughtIs, Whole, Positive
    <3> HIDE DEF T
    <3> QED BY <3>1
  <2> QED BY <2>1 DEF NegLeft, Less
<1> HIDE DEF N, T
<1>3. N \in Matrices /\ Plus(N, T) = Nought
  BY <1>1, <1>2, LessIs
<1>4. Plus(Times(Z, N), Times(Z, T)) = Times(Z, Nought)
  BY <1>1, <1>3, TimesPlus
<1>5. Times(Z, T) = A
  <2>1. Times(Z, T) = Times(Times(Z, Y), A)
    BY TimesAssociates DEF T
  <2> QED BY <2>1, TimesIdentity
<1> QED BY <1>3, <1>4, <1>5, TimesNought DEF N

-----------------------------------------------------------------------------
(* A right inverse of a series of symmetric matrices is a left inverse,    *)
(* and symmetric.                                                          *)
LEMMA InverseTurned ==
  ASSUME NEW P, NEW n \in Int, NEW X \in Series(P), NEW Y \in Series(P), Turned(X) = X,
         Until(P, n, Conv(X, Y), One(P))
  PROVE  Until(P, n, Turned(Y), Y) /\ Until(P, n, Conv(Y, X), One(P))
<1> DEFINE T == Turned(Y)
           O == One(P)
<1>1. T \in Series(P) /\ O \in Series(P)
  BY LaterIs, ZeroIs
<1>2. Conv(X, Y) \in Series(P) /\ Conv(T, X) \in Series(P) /\ Conv(Y, X) \in Series(P)
  BY <1>1, ConvIs
<1>3. Until(P, n, Conv(T, X), O)
  <2> SUFFICES ASSUME NEW w \in Words(P), Len(w) <= n PROVE Conv(T, X)[w] = O[w]
    BY DEF Until
  <2>1. Transpose(Conv(X, Y)[w]) = Conv(T, X)[w]
    BY ConvTurned
  <2>2. Conv(X, Y)[w] = O[w]
    BY DEF Until
  <2>3. Transpose(O[w]) = O[w]
    <3>1. CASE w = <<>>
      BY <3>1, ZeroIs, IdentityIs
    <3>2. CASE w # <<>>
      <4>1. O[w] = Nought
        BY <3>2, ZeroIs
      <4> QED BY <4>1, NoughtTurns
    <3> QED BY <3>1, <3>2
  <2> QED BY <2>1, <2>2, <2>3
<1> HIDE DEF T, O
<1>4. \A V : Until(P, n, V, V)
  BY DEF Until
<1>5. Until(P, n, Conv(T, Conv(X, Y)), Conv(T, O))
  BY <1>1, <1>2, <1>4, ConvUntil DEF O
<1>6. Until(P, n, Conv(Conv(T, X), Y), Conv(O, Y))
  BY <1>1, <1>2, <1>3, <1>4, ConvUntil
<1>7. Conv(T, O) = T /\ Conv(O, Y) = Y
  BY <1>1, ConvUnit DEF O
<1>8. Conv(T, Conv(X, Y)) = Conv(Conv(T, X), Y)
  BY <1>1, ConvAssociates
<1>9. Until(P, n, T, Y)
  BY <1>5, <1>6, <1>7, <1>8 DEF Until
<1>10. Until(P, n, Conv(T, X), Conv(Y, X))
  BY <1>1, <1>4, <1>9, ConvUntil
<1>11. Until(P, n, Conv(Y, X), O)
  BY <1>3, <1>10 DEF Until
<1> QED BY <1>9, <1>11 DEF T, O

-----------------------------------------------------------------------------
(* The family as series, and its root at order zero.                       *)
Infos(fam) == [w \in Words(fam.P) |-> IF Len(w) <= MaxOrder THEN fam.I[Sorted(w)] ELSE Nought]
(* I^d at order zero, which RootIs and ScaleZeroIs are about.              *)
Roots(fam) == InBasis(fam.Q, Diagonal(fam.root))

(* What a family gives the functions, and its information as a series.     *)
LEMMA FamilyIs ==
  ASSUME NEW fam \in Families
  PROVE  /\ fam.P \in Nat /\ fam.d \in {"half", "one"} /\ Basis(fam.Q) /\ fam.root \in Vectors
         /\ IsMatrix(Roots(fam)) /\ MaxOrder \in Nat
         /\ (\A k \in Index : fam.root[k] # 0) => \A a, c \in Index : (fam.root[a] + fam.root[c]) % Prime # 0
         /\ Orderless(fam.P, Infos(fam))
         /\ \A k \in 0 .. MaxOrder : \A B \in MultisetsOver(fam.P, k) :
              Infos(fam)[B] = fam.I[B] /\ IsMatrix(fam.I[B]) /\ fam.g[B] \in Vectors
         /\ fam.d = "one" => Infos(fam)[<<>>] = Roots(fam)
         /\ fam.d = "half" => Infos(fam)[<<>>] = Times(Roots(fam), Roots(fam))
<1> DEFINE P == fam.P
           power == [k \in Index |-> IF fam.d = "one" THEN fam.root[k]
                                     ELSE (fam.root[k] * fam.root[k]) % Prime]
<1>0. IsFamily(fam) /\ MaxOrder \in Nat
  BY ScalingAssumption
<1>1. /\ P \in Nat /\ fam.d \in {"half", "one"} /\ Basis(fam.Q) /\ fam.root \in Vectors
      /\ (\A k \in Index : fam.root[k] # 0) => \A a, c \in Index : (fam.root[a] + fam.root[c]) % Prime # 0
  BY <1>0 DEF IsFamily, Basis
<1>2. fam.I[<<>>] = InBasis(fam.Q, Diagonal(power))
  BY <1>0, Zenon DEF IsFamily, InBasis
<1>3. \A k \in 0 .. MaxOrder : \A B \in MultisetsOver(P, k) : IsMatrix(fam.I[B]) /\ fam.g[B] \in Vectors
  BY <1>0, Zenon DEF IsFamily, IsMatrix
<1> HIDE DEF P
<1>4. ASSUME NEW w \in Words(P) PROVE Sorted(w) \in MultisetsOver(P, Len(w)) /\ Len(w) \in Nat
  <2>1. Sorted(w) \in Words(P) /\ Len(Sorted(w)) = Len(w) /\ Ascends(Sorted(w)) /\ Len(w) \in Nat
    BY WordOrders, WordsAre
  <2> QED BY <1>1, <2>1, MultisetsAre DEF Words
<1> DEFINE T == Infos(fam)
<1>5. T = [w \in Words(P) |-> IF Len(w) <= MaxOrder THEN fam.I[Sorted(w)] ELSE Nought]
  BY DEF Infos, P
<1> HIDE DEF T
<1>6. T \in Series(P)
  <2>1. ASSUME NEW w \in Words(P), Len(w) <= MaxOrder PROVE fam.I[Sorted(w)] \in Matrices
    <3>1. Len(w) \in 0 .. MaxOrder /\ Sorted(w) \in MultisetsOver(P, Len(w))
      BY <1>0, <1>4, <2>1
    <3>2. IsMatrix(fam.I[Sorted(w)])
      BY <1>3, <3>1
    <3> QED BY <3>2 DEF IsMatrix
  <2>2. \A w \in Words(P) : (IF Len(w) <= MaxOrder THEN fam.I[Sorted(w)] ELSE Nought) \in Matrices
    BY <2>1, NoughtIs
  <2> QED BY <1>5, <2>2 DEF Series
<1>7. \A w \in Words(P) : T[w] = IF Len(w) <= MaxOrder THEN fam.I[Sorted(w)] ELSE Nought
  BY <1>5
<1>8. Orderless(P, T)
  <2>1. ASSUME NEW w \in Words(P) PROVE T[w] = T[Sorted(w)]
    <3>1. Sorted(w) \in Words(P) /\ Len(Sorted(w)) = Len(w) /\ Sorted(Sorted(w)) = Sorted(w)
      BY WordOrders
    <3> QED BY <1>7, <3>1
  <2> QED BY <1>6, <2>1 DEF Orderless
<1>9. ASSUME NEW k \in 0 .. MaxOrder, NEW B \in MultisetsOver(P, k)
      PROVE  T[B] = fam.I[B] /\ IsMatrix(fam.I[B]) /\ fam.g[B] \in Vectors
  <2>1. k \in Nat /\ k <= MaxOrder
    BY <1>0
  <2>2. B \in Words(P) /\ Len(B) = k /\ Ascends(B)
    BY <1>1, <2>1, MultisetsAre DEF Words
  <2>3. Sorted(B) = B
    BY <2>2, WordOrders
  <2> QED BY <1>3, <1>7, <2>1, <2>2, <2>3
<1>10. T[<<>>] = fam.I[<<>>]
  <2>1. <<>> \in Words(P) /\ Len(<<>>) = 0 /\ Sorted(<<>>) = <<>>
    BY EmptySeq, WordOrders DEF Words
  <2> QED BY <1>0, <1>7, <2>1
<1> DEFINE u == [k \in Index |-> (fam.root[k] * fam.root[k]) % Prime]
<1>11. u \in Vectors /\ \A k \in Index : u[k] = (fam.root[k] * fam.root[k]) % Prime
  <2>1. ASSUME NEW k \in Index PROVE (fam.root[k] * fam.root[k]) % Prime \in Field
    <3>1. fam.root[k] \in Int
      BY <1>1 DEF Vectors, Field
    <3>2. fam.root[k] * fam.root[k] \in Int
      BY <3>1
    <3> QED BY <3>2, Numbers
  <2> QED BY <2>1 DEF Vectors
<1>12. fam.d = "one" => power = fam.root
  BY <1>1 DEF Vectors
<1>13. fam.d = "half" => power = u
  OBVIOUS
<1> HIDE DEF power, u
<1>14. /\ Roots(fam) \in Matrices /\ Roots(fam) = Transpose(Roots(fam))
       /\ Times(Roots(fam), Roots(fam)) = InBasis(fam.Q, Diagonal(u))
  BY <1>1, <1>11, RootIs DEF Roots
<1>15. fam.d = "one" => T[<<>>] = Roots(fam)
  BY <1>2, <1>10, <1>12 DEF Roots
<1>16. fam.d = "half" => T[<<>>] = Times(Roots(fam), Roots(fam))
  BY <1>2, <1>10, <1>13, <1>14
<1> QED BY <1>0, <1>1, <1>8, <1>9, <1>14, <1>15, <1>16 DEF T, P, IsMatrix

\* The series of the root and of the scaling, and the power of the root.
RootTable(fam, X) == Table(fam.P, Roots(fam), X)
ScaleTable(fam, Y) == Table(fam.P, Nought, Y)
Power(fam, V) == IF fam.d = "one" THEN V ELSE Conv(V, V)

(* The functions up to order n have returned the derivatives of the root,  *)
(* whose power is the information, and of its inverse.                     *)
Powers(fam, n, X, Y) ==
  /\ DOMAIN X = 1 .. n /\ DOMAIN Y = 0 .. n
  /\ Complete(fam.P, X) /\ Complete(fam.P, Y)
  /\ Until(fam.P, n, Power(fam, RootTable(fam, X)), Infos(fam))
  /\ Until(fam.P, n, Conv(RootTable(fam, X), ScaleTable(fam, Y)), One(fam.P))

(* The empty word is the only one of length zero.                          *)
LEMMA NoWords ==
  ASSUME NEW P
  PROVE  <<>> \in Words(P) /\ Len(<<>>) = 0 /\ \A w \in Words(P) : Len(w) \in Nat /\ (Len(w) <= 0 <=> w = <<>>)
BY EmptySeq DEF Words

(* jsc_s0_cpp() establishes the equations at order zero.                   *)
LEMMA PowersZero ==
  ASSUME NEW fam \in Families, \A k \in Index : fam.root[k] # 0,
         NEW X, DOMAIN X = 1 .. 0, NEW Y, DOMAIN Y = {0},
         Y[0] = [B \in MultisetsOver(fam.P, 0) |-> ScaleZero(fam.Q, fam.root)]
  PROVE  Powers(fam, 0, X, Y)
<1> DEFINE P == fam.P
           V == RootTable(fam, X)
           W == ScaleTable(fam, Y)
           Z == ScaleZero(fam.Q, fam.root)
<1>1. /\ P \in Nat /\ Basis(fam.Q) /\ fam.root \in Vectors /\ IsMatrix(Roots(fam)) /\ fam.d \in {"half", "one"}
      /\ fam.d = "one" => Infos(fam)[<<>>] = Roots(fam)
      /\ fam.d = "half" => Infos(fam)[<<>>] = Times(Roots(fam), Roots(fam))
  BY FamilyIs
<1>2. IsMatrix(Z) /\ Times(Roots(fam), Z) = Identity
  BY <1>1, ScaleZeroIs DEF IsMatrix, Roots
<1> HIDE DEF Z, P
<1>3. Complete(P, X) /\ Complete(P, Y)
  BY <1>2 DEF Complete, Z, P
<1>4. IsMatrix(Nought)
  BY NoughtTurns
<1>5. DOMAIN X \subseteq Nat /\ DOMAIN Y \subseteq Nat /\ 0 \notin DOMAIN X /\ 0 \in DOMAIN Y
  OBVIOUS
<1>6. Filled(P, X) /\ Filled(P, Y) /\ Roots(fam) \in Matrices /\ Nought \in Matrices
  BY <1>1, <1>3, <1>4, <1>5, TableTurned
<1>7. V \in Series(P) /\ V[<<>>] = Roots(fam)
  BY <1>1, <1>5, <1>6, TableIs DEF RootTable, P
<1>8. <<>> \in Words(P) /\ Len(<<>>) = 0 /\ \A w \in Words(P) : Len(w) <= 0 => w = <<>>
  BY NoWords
<1>9. W \in Series(P) /\ W[<<>>] = Z
  <2>1. W \in Series(P) /\ W[<<>>] = At(Y, <<>>)
    BY <1>1, <1>5, <1>6, <1>8, TableIs DEF ScaleTable, P
  <2>2. Sorted(<<>>) = <<>>
    BY <1>8, WordOrders
  <2>3. <<>> \in MultisetsOver(P, 0)
    <3>1. Ascends(<<>>)
      BY <1>8, <2>2, WordOrders
    <3> QED BY <1>1, <1>8, <3>1, MultisetsAre DEF Words
  <2>4. At(Y, <<>>) = Z
    BY <1>8, <2>2, <2>3 DEF At, Z, P
  <2> QED BY <2>1, <2>4
<1> HIDE DEF V, W
<1>10. Conv(V, W)[<<>>] = Identity
  BY <1>2, <1>7, <1>9, ConvEmpty
<1>11. Until(P, 0, Conv(V, W), One(P))
  BY <1>8, <1>10, ZeroIs DEF Until
<1>12. Power(fam, V)[<<>>] = Infos(fam)[<<>>]
  <2>1. CASE fam.d = "one"
    BY <1>1, <1>7, <2>1 DEF Power
  <2>2. CASE fam.d = "half"
    <3>1. Conv(V, V)[<<>>] = Times(Roots(fam), Roots(fam))
      BY <1>7, ConvEmpty
    <3> QED BY <1>1, <2>2, <3>1 DEF Power
  <2> QED BY <1>1, <2>1, <2>2
<1>13. Until(P, 0, Power(fam, V), Infos(fam))
  BY <1>8, <1>12 DEF Until
<1>14. DOMAIN X = 1 .. 0 /\ DOMAIN Y = 0 .. 0
  OBVIOUS
<1> QED BY <1>3, <1>11, <1>13, <1>14 DEF Powers, P, V, W

-----------------------------------------------------------------------------
(* What Scale(m) makes of the orders below.                                *)
RootStep(fam, m, X, B) ==
  IF fam.d = "one" THEN fam.I[B] ELSE Sylvester(Less(fam.I[B], Leibniz(X, X, B, Proper(m))))
Scales(fam, m, X, Y, X2, Y2) ==
  /\ DOMAIN X2 = 1 .. m /\ DOMAIN Y2 = 0 .. m
  /\ \A o \in 1 .. m - 1 : X2[o] = X[o]
  /\ \A o \in 0 .. m - 1 : Y2[o] = Y[o]
  /\ X2[m] = [B \in MultisetsOver(fam.P, m) |-> RootStep(fam, m, X, B)]
  /\ Y2[m] = [B \in MultisetsOver(fam.P, m) |-> NegLeft(Y[0][<<>>], Leibniz(X2, Y, B, NonEmpty(m)))]

(* The masks a function lists, by the sizes of the two parts.              *)
LEMMA MaskParts ==
  ASSUME NEW P, NEW B \in Words(P), NEW m \in Nat, Len(B) = m, NEW A \in Masks(m)
  PROVE  /\ Sub(B, A) \in Words(P) /\ Rest(B, A) \in Words(P)
         /\ Len(Sub(B, A)) \in 0 .. m /\ Len(Rest(B, A)) \in 0 .. m
         /\ A \in All(m)
         /\ A \in NonEmpty(m) => Sub(B, A) # <<>> /\ Len(Sub(B, A)) \in 1 .. m /\ Len(Rest(B, A)) \in 0 .. m - 1
         /\ A \in Proper(m) => /\ Sub(B, A) # <<>> /\ Len(Sub(B, A)) \in 1 .. m - 1
                               /\ Rest(B, A) # <<>> /\ Len(Rest(B, A)) \in 1 .. m - 1
         /\ A \notin NonEmpty(m) => Sub(B, A) = <<>>
         /\ A \notin Proper(m) => Sub(B, A) = <<>> \/ Rest(B, A) = <<>>
<1> DEFINE s == Sub(B, A)
           t == Rest(B, A)
<1>1. s \in Words(P) /\ t \in Words(P)
  BY WordsAre
<1>2. /\ Len(s) \in Nat /\ Len(t) \in Nat /\ Len(s) + Len(t) = m
      /\ A # {} => Len(s) > 0
      /\ A # 1 .. m => Len(t) > 0
      /\ A = {} => s = <<>>
      /\ A = 1 .. m => t = <<>>
  BY MaskSizes DEF Words
<1>3. Len(<<>>) = 0
  BY NoWords
<1> HIDE DEF s, t
<1>4. A \in NonEmpty(m) <=> A # {}
  BY DEF NonEmpty
<1>5. A \in Proper(m) <=> A # {} /\ A # 1 .. m
  BY DEF Proper
<1>6. A \in All(m)
  BY DEF All
<1>7. ASSUME Len(s) > 0 PROVE s # <<>> /\ Len(s) \in 1 .. m /\ Len(t) \in 0 .. m - 1
  BY <1>2, <1>3, <1>7
<1>8. ASSUME Len(s) > 0, Len(t) > 0
      PROVE  s # <<>> /\ Len(s) \in 1 .. m - 1 /\ t # <<>> /\ Len(t) \in 1 .. m - 1
  BY <1>2, <1>3, <1>8
<1>9. Len(s) \in 0 .. m /\ Len(t) \in 0 .. m
  BY <1>2
<1>10. A \in NonEmpty(m) => s # <<>> /\ Len(s) \in 1 .. m /\ Len(t) \in 0 .. m - 1
  BY <1>2, <1>4, <1>7
<1>11. A \in Proper(m) => s # <<>> /\ Len(s) \in 1 .. m - 1 /\ t # <<>> /\ Len(t) \in 1 .. m - 1
  BY <1>2, <1>5, <1>8
<1>12. A \notin NonEmpty(m) => s = <<>>
  BY <1>2, <1>4
<1>13. A \notin Proper(m) => s = <<>> \/ t = <<>>
  BY <1>2, <1>5
<1> QED BY <1>1, <1>6, <1>9, <1>10, <1>11, <1>12, <1>13 DEF s, t

\* The series V is the table X at the orders from a to b.
Reads(P, a, b, X, V) ==
  V \in Series(P) /\ \A w \in Words(P) : Len(w) \in a .. b => V[w] = At(X, w)

(* The terms that are neither empty nor full are the product of the two    *)
(* series without their first terms.                                       *)
LEMMA ProperIs ==
  ASSUME NEW P, NEW m \in Nat, NEW X, NEW V, Reads(P, 1, m - 1, X, V), NEW B \in Words(P), Len(B) = m
  PROVE  Leibniz(X, X, B, Proper(m)) = Conv(Later(V), Later(V))[B]
<1> DEFINE L == Later(V)
<1>1. V \in Series(P) /\ L \in Series(P) /\ L[<<>>] = Nought
  BY LaterIs DEF Reads
<1>2. ASSUME NEW w \in Words(P), w # <<>>, Len(w) \in 1 .. m - 1 PROVE At(X, w) = L[w]
  <2>1. V[w] = At(X, w)
    BY <1>2 DEF Reads
  <2> QED BY <1>1, <1>2, <2>1, LaterIs
<1> HIDE DEF L
<1>3. ASSUME NEW A \in Masks(m)
      PROVE  IF A \in Proper(m) THEN At(X, Sub(B, A)) = L[Sub(B, A)] /\ At(X, Rest(B, A)) = L[Rest(B, A)]
             ELSE Times(L[Sub(B, A)], L[Rest(B, A)]) = Nought
  <2>1. Sub(B, A) \in Words(P) /\ Rest(B, A) \in Words(P)
    BY MaskParts
  <2>2. CASE A \in Proper(m)
    <3>1. /\ Sub(B, A) # <<>> /\ Len(Sub(B, A)) \in 1 .. m - 1
          /\ Rest(B, A) # <<>> /\ Len(Rest(B, A)) \in 1 .. m - 1
      BY <2>2, MaskParts
    <3> QED BY <1>2, <2>1, <2>2, <3>1
  <2>3. CASE A \notin Proper(m)
    <3>1. Sub(B, A) = <<>> \/ Rest(B, A) = <<>>
      BY <2>3, MaskParts
    <3>2. L[Sub(B, A)] \in Matrices /\ L[Rest(B, A)] \in Matrices
      BY <1>1, <2>1, SeriesAre
    <3>3. \A Z \in Matrices : Times(Z, Nought) = Nought /\ Times(Nought, Z) = Nought
      BY TimesNought
    <3> QED BY <1>1, <2>3, <3>1, <3>2, <3>3
  <2> QED BY <2>2, <2>3
<1>4. Lists(X, X, L, L, B, Proper(m))
  BY <1>3 DEF Lists
<1>5. Leibniz(X, X, B, Proper(m)) = Conv(L, L)[B]
  BY <1>1, <1>4, LeibnizIs
<1> QED BY <1>5 DEF L

(* The terms that are not empty are the product with the first series      *)
(* without its first term.                                                 *)
LEMMA NonEmptyIs ==
  ASSUME NEW P, NEW m \in Nat, NEW X, NEW V, Reads(P, 1, m, X, V),
         NEW Y, NEW W, Reads(P, 0, m - 1, Y, W), NEW B \in Words(P), Len(B) = m
  PROVE  Leibniz(X, Y, B, NonEmpty(m)) = Conv(Later(V), W)[B]
<1> DEFINE L == Later(V)
<1>1. V \in Series(P) /\ W \in Series(P) /\ L \in Series(P) /\ L[<<>>] = Nought
  BY LaterIs DEF Reads
<1>2. ASSUME NEW w \in Words(P), w # <<>>, Len(w) \in 1 .. m PROVE At(X, w) = L[w]
  <2>1. V[w] = At(X, w)
    BY <1>2 DEF Reads
  <2> QED BY <1>1, <1>2, <2>1, LaterIs
<1> HIDE DEF L
<1>3. ASSUME NEW A \in Masks(m)
      PROVE  IF A \in NonEmpty(m) THEN At(X, Sub(B, A)) = L[Sub(B, A)] /\ At(Y, Rest(B, A)) = W[Rest(B, A)]
             ELSE Times(L[Sub(B, A)], W[Rest(B, A)]) = Nought
  <2>1. Sub(B, A) \in Words(P) /\ Rest(B, A) \in Words(P)
    BY MaskParts
  <2>2. CASE A \in NonEmpty(m)
    <3>1. Sub(B, A) # <<>> /\ Len(Sub(B, A)) \in 1 .. m /\ Len(Rest(B, A)) \in 0 .. m - 1
      BY <2>2, MaskParts
    <3>2. At(X, Sub(B, A)) = L[Sub(B, A)]
      BY <1>2, <2>1, <3>1
    <3>3. At(Y, Rest(B, A)) = W[Rest(B, A)]
      BY <2>1, <3>1 DEF Reads
    <3> QED BY <2>2, <3>2, <3>3
  <2>3. CASE A \notin NonEmpty(m)
    <3>1. Sub(B, A) = <<>>
      BY <2>3, MaskParts
    <3>2. W[Rest(B, A)] \in Matrices
      BY <1>1, <2>1, SeriesAre
    <3>3. Times(Nought, W[Rest(B, A)]) = Nought
      BY <3>2, TimesNought
    <3> QED BY <1>1, <2>3, <3>1, <3>3
  <2> QED BY <2>2, <2>3
<1>4. Lists(X, Y, L, W, B, NonEmpty(m))
  BY <1>3 DEF Lists
<1>5. Leibniz(X, Y, B, NonEmpty(m)) = Conv(L, W)[B]
  BY <1>1, <1>4, LeibnizIs
<1> QED BY <1>5 DEF L

(* All the terms are the whole product.                                    *)
LEMMA AllAre ==
  ASSUME NEW P, NEW m \in Nat, NEW X, NEW V, Reads(P, 0, m, X, V),
         NEW Y, NEW W, Reads(P, 0, m, Y, W), NEW B \in Words(P), Len(B) = m
  PROVE  Leibniz(X, Y, B, Masks(m)) = Conv(V, W)[B]
<1>1. ASSUME NEW A \in Masks(m)
      PROVE  At(X, Sub(B, A)) = V[Sub(B, A)] /\ At(Y, Rest(B, A)) = W[Rest(B, A)]
  <2>1. /\ Sub(B, A) \in Words(P) /\ Rest(B, A) \in Words(P)
        /\ Len(Sub(B, A)) \in 0 .. m /\ Len(Rest(B, A)) \in 0 .. m
    BY MaskParts
  <2> QED BY <2>1 DEF Reads
<1>2. Lists(X, Y, V, W, B, Masks(m))
  BY <1>1 DEF Lists
<1> QED BY <1>2, LeibnizIs DEF Reads

(* A table is read as its own series.                                      *)
LEMMA TableReads ==
  ASSUME NEW P \in Nat, NEW Z \in Matrices, NEW X, Filled(P, X), DOMAIN X \subseteq Nat,
         NEW a, NEW b, a .. b \subseteq DOMAIN X
  PROVE  Reads(P, a, b, X, Table(P, Z, X))
BY TableIs DEF Reads

(* A table whose lower orders are those of another reads the same.         *)
LEMMA ReadsLower ==
  ASSUME NEW P, NEW a \in Int, NEW b \in Int, NEW X, NEW Y, NEW V, Reads(P, a, b, X, V),
         \A o \in a .. b : Y[o] = X[o]
  PROVE  Reads(P, a, b, Y, V)
<1>1. ASSUME NEW w \in Words(P), Len(w) \in a .. b PROVE V[w] = At(Y, w)
  <2>1. V[w] = At(X, w)
    BY <1>1 DEF Reads
  <2>2. Y[Len(w)] = X[Len(w)]
    BY <1>1
  <2> QED BY <2>1, <2>2 DEF At
<1> QED BY <1>1 DEF Reads

-----------------------------------------------------------------------------
(* The root of order m: its matrices are symmetric, and its power has the  *)
(* information's derivative.                                               *)
LEMMA RootStepIs ==
  ASSUME NEW fam \in Families, NEW m \in 1 .. MaxOrder, NEW X, NEW Y, Powers(fam, m - 1, X, Y),
         Q = fam.Q, r = fam.root, \A k \in Index : fam.root[k] # 0,
         NEW B \in MultisetsOver(fam.P, m)
  PROVE  /\ IsMatrix(RootStep(fam, m, X, B)) /\ IsMatrix(Leibniz(X, X, B, Proper(m)))
         /\ fam.d = "half"
              => Plus(Plus(Times(RootStep(fam, m, X, B), Roots(fam)), Leibniz(X, X, B, Proper(m))),
                      Times(Roots(fam), RootStep(fam, m, X, B))) = fam.I[B]
<1> DEFINE P == fam.P
           V == RootTable(fam, X)
           L == Later(V)
           p == Leibniz(X, X, B, Proper(m))
           n == m - 1
<1>0. m \in Nat /\ n \in Nat /\ m - 1 = n /\ m \in 0 .. MaxOrder
  BY ScalingAssumption
<1>1. /\ P \in Nat /\ Basis(fam.Q) /\ fam.root \in Vectors /\ IsMatrix(Roots(fam)) /\ fam.d \in {"half", "one"}
      /\ \A a, c \in Index : (fam.root[a] + fam.root[c]) % Prime # 0
      /\ IsMatrix(fam.I[B])
  BY <1>0, FamilyIs
<1>2. B \in Words(P) /\ Len(B) = m
  BY <1>0, <1>1, MultisetsAre DEF Words
<1> HIDE DEF n
<1>3. DOMAIN X = 1 .. n /\ Complete(P, X)
  BY DEF Powers, n
<1>4. DOMAIN X \subseteq Nat
  BY <1>0, <1>3
<1>5. Roots(fam) \in Matrices /\ Filled(P, X) /\ Turned(V) = V
  BY <1>1, <1>3, <1>4, TableTurned DEF RootTable
<1>6. V \in Series(P) /\ Reads(P, 1, n, X, V)
  BY <1>1, <1>3, <1>4, <1>5, TableIs, TableReads DEF RootTable
<1> HIDE DEF V, P
<1>7. p = Conv(L, L)[B]
  BY <1>0, <1>2, <1>6, ProperIs DEF n
<1>8. L \in Series(P) /\ Turned(L) \in Series(P)
  BY <1>6, LaterIs
<1>9. Turned(L) = L
  <2>1. ASSUME NEW w \in Words(P) PROVE Turned(L)[w] = L[w]
    <3>1. Turned(L)[w] = Transpose(L[w])
      BY <1>8, LaterIs
    <3>2. CASE w = <<>>
      <4>1. L[w] = Nought
        BY <1>6, <3>2, LaterIs
      <4> QED BY <3>1, <4>1, NoughtTurns
    <3>3. CASE w # <<>>
      <4>1. L[w] = V[w]
        BY <1>6, <3>3, LaterIs
      <4>2. Turned(V)[w] = Transpose(V[w])
        BY <1>6, LaterIs
      <4> QED BY <1>5, <3>1, <4>1, <4>2
    <3> QED BY <3>2, <3>3
  <2> QED BY <1>8, <2>1, SameSeries
<1> HIDE DEF L
<1>10. p \in Matrices /\ Transpose(p) = p
  <2>1. Conv(L, L)[B] \in Matrices
    BY <1>2, <1>8, ConvIs, SeriesAre
  <2>2. Transpose(Conv(L, L)[B]) = Conv(L, L)[B]
    BY <1>2, <1>8, <1>9, ConvTurned
  <2> QED BY <1>7, <2>1, <2>2
<1> HIDE DEF p
<1>11. CASE fam.d = "one"
  BY <1>1, <1>10, <1>11 DEF RootStep, IsMatrix, p
<1>12. CASE fam.d = "half"
  <2> DEFINE R == Less(fam.I[B], p)
             Z == Sylvester(R)
  <2>1. R \in Matrices /\ R = Transpose(R) /\ Plus(R, p) = fam.I[B]
    BY <1>1, <1>10, LessIs DEF IsMatrix
  <2>2. Root0 = Roots(fam)
    BY DEF Root0, Roots, InBasis
  <2>3. Basis(Q) /\ r \in Vectors /\ \A a, c \in Index : (r[a] + r[c]) % Prime # 0
    BY <1>1
  <2> HIDE DEF R
  <2>4. Z \in Matrices /\ Plus(Times(Root0, Z), Times(Z, Root0)) = R /\ Z = Transpose(Z)
    BY <2>1, <2>3, SylvesterSolves
  <2>5. RootStep(fam, m, X, B) = Z
    BY <1>12 DEF RootStep, R, p
  <2> HIDE DEF Z
  <2> DEFINE s == Times(Roots(fam), Z)
             t == Times(Z, Roots(fam))
  <2>6. s \in Matrices /\ t \in Matrices /\ Plus(s, t) = R
    BY <1>5, <2>2, <2>4, TimesIs
  <2> HIDE DEF s, t
  <2>7. Plus(Plus(t, p), s) = Plus(s, Plus(t, p))
    BY <1>10, <2>6, PlusIs, PlusCommutes
  <2>8. Plus(s, Plus(t, p)) = Plus(Plus(s, t), p)
    BY <1>10, <2>6, PlusAssociates
  <2>9. Plus(Plus(t, p), s) = fam.I[B]
    BY <2>1, <2>6, <2>7, <2>8
  <2>10. IsMatrix(Z) /\ IsMatrix(p)
    BY <1>10, <2>4 DEF IsMatrix
  <2> QED BY <2>5, <2>9, <2>10 DEF s, t, p
<1> QED BY <1>1, <1>11, <1>12

(* The power of the root, and its product with the scaling, at one order.  *)
LEMMA PowerOrderless ==
  ASSUME NEW fam \in Families, NEW V, Orderless(fam.P, V)
  PROVE  Orderless(fam.P, Power(fam, V)) /\ Power(fam, V) \in Series(fam.P)
<1>1. Orderless(fam.P, Conv(V, V))
  BY ConvOrderless
<1> QED BY <1>1 DEF Power, Orderless

(* Two such series that agree up to order m - 1 and at the multisets of m  *)
(* agree up to m.                                                          *)
LEMMA UntilStep ==
  ASSUME NEW P \in Nat, NEW m \in Nat \ {0}, NEW V, Orderless(P, V), NEW W, Orderless(P, W),
         Until(P, m - 1, V, W), \A B \in MultisetsOver(P, m) : V[B] = W[B]
  PROVE  Until(P, m, V, W)
<1> SUFFICES ASSUME NEW w \in Words(P), Len(w) <= m PROVE V[w] = W[w]
  BY DEF Until
<1>1. Len(w) \in Nat
  BY WordsAre
<1>2. CASE Len(w) <= m - 1
  BY <1>2 DEF Until
<1>3. CASE Len(w) = m
  <2>1. Sorted(w) \in Words(P) /\ Len(Sorted(w)) = Len(w) /\ Ascends(Sorted(w))
    BY WordOrders
  <2>2. Sorted(w) \in MultisetsOver(P, m)
    BY <1>3, <2>1, MultisetsAre DEF Words
  <2> QED BY <2>2 DEF Orderless
<1> QED BY <1>1, <1>2, <1>3

(* The unit series does not depend on the order of the letters.            *)
LEMMA OneOrderless ==
  ASSUME NEW P
  PROVE  Orderless(P, One(P))
<1>1. ASSUME NEW w \in Words(P) PROVE One(P)[w] = One(P)[Sorted(w)]
  <2>1. Sorted(w) \in Words(P) /\ Len(Sorted(w)) = Len(w)
    BY WordOrders
  <2>2. w = <<>> <=> Sorted(w) = <<>>
    <3>1. \A v \in Words(P) : v = <<>> <=> Len(v) = 0
      BY EmptySeq DEF Words
    <3> QED BY <2>1, <3>1
  <2> QED BY <2>1, <2>2, ZeroIs
<1> QED BY <1>1, ZeroIs DEF Orderless

(* The functions of order m extend the equations from the orders below to  *)
(* m.                                                                      *)
LEMMA PowersStep ==
  ASSUME NEW fam \in Families, NEW m \in 1 .. MaxOrder, NEW X, NEW Y, Powers(fam, m - 1, X, Y),
         Q = fam.Q, r = fam.root, \A k \in Index : fam.root[k] # 0,
         NEW X2, NEW Y2, Scales(fam, m, X, Y, X2, Y2)
  PROVE  Powers(fam, m, X2, Y2)
<1> DEFINE P == fam.P
           R == Roots(fam)
           V == RootTable(fam, X)
           V2 == RootTable(fam, X2)
           W == ScaleTable(fam, Y)
           W2 == ScaleTable(fam, Y2)
           L == Later(V2)
           n == m - 1
           S0 == Y[0][<<>>]
<1>0. m \in Nat \ {0} /\ n \in Nat /\ m - 1 = n /\ m \in 0 .. MaxOrder /\ n < m /\ m \in Nat
  BY ScalingAssumption
<1>1. /\ P \in Nat /\ IsMatrix(R) /\ fam.d \in {"half", "one"} /\ Orderless(P, Infos(fam))
      /\ \A B \in MultisetsOver(P, m) : Infos(fam)[B] = fam.I[B]
  BY <1>0, FamilyIs
<1>2. /\ DOMAIN X = 1 .. n /\ DOMAIN Y = 0 .. n /\ Complete(P, X) /\ Complete(P, Y)
      /\ Until(P, n, Power(fam, V), Infos(fam))
      /\ Until(P, n, Conv(V, W), One(P))
  BY DEF Powers
<1>3. /\ DOMAIN X2 = 1 .. m /\ DOMAIN Y2 = 0 .. m
      /\ \A o \in 1 .. n : X2[o] = X[o]
      /\ \A o \in 0 .. n : Y2[o] = Y[o]
      /\ X2[m] = [B \in MultisetsOver(P, m) |-> RootStep(fam, m, X, B)]
      /\ Y2[m] = [B \in MultisetsOver(P, m) |-> NegLeft(S0, Leibniz(X2, Y, B, NonEmpty(m)))]
  BY DEF Scales
<1>4. \A B \in MultisetsOver(P, m) : IsMatrix(RootStep(fam, m, X, B))
  BY RootStepIs
<1>5. IsMatrix(Nought)
  BY NoughtTurns
<1> HIDE DEF n, S0
<1>6. \A o \in Nat : (o \in 1 .. m => o \in 1 .. n \/ o = m) /\ (o \in 0 .. m => o \in 0 .. n \/ o = m)
  BY <1>0 DEF n
<1>7. /\ 1 .. n \subseteq 1 .. m /\ 0 .. n \subseteq 0 .. m /\ 1 .. n \subseteq Nat /\ 0 .. n \subseteq Nat
      /\ 1 .. m \subseteq Nat /\ 0 .. m \subseteq Nat /\ 0 \notin 1 .. n /\ 0 \notin 1 .. m /\ 0 \in 0 .. n
      /\ m \in 1 .. m /\ m \in 0 .. m /\ 1 .. n \subseteq 0 .. n
  BY <1>0 DEF n
<1>8. Complete(P, X2)
  <2> SUFFICES ASSUME NEW o \in 1 .. m, NEW B \in MultisetsOver(P, o)
               PROVE  B \in DOMAIN X2[o] /\ IsMatrix(X2[o][B])
    BY <1>3, Zenon DEF Complete
  <2>1. CASE o \in 1 .. n
    <3>1. B \in DOMAIN X[o] /\ IsMatrix(X[o][B])
      BY <1>2, <2>1, Zenon DEF Complete
    <3> QED BY <1>3, <2>1, <3>1
  <2>2. CASE o = m
    BY <1>3, <1>4, <2>2
  <2> QED BY <1>6, <1>7, <2>1, <2>2
<1>9. R \in Matrices /\ Nought \in Matrices /\ Filled(P, X) /\ Filled(P, Y) /\ Filled(P, X2) /\ Turned(V2) = V2
  <2>1. R \in Matrices /\ Filled(P, X)
    BY <1>1, <1>2, <1>7, TableTurned
  <2>2. Nought \in Matrices /\ Filled(P, Y)
    BY <1>1, <1>2, <1>5, <1>7, TableTurned
  <2>3. Filled(P, X2) /\ Turned(V2) = V2
    BY <1>1, <1>3, <1>7, <1>8, TableTurned DEF RootTable
  <2> QED BY <2>1, <2>2, <2>3
<1>10. /\ Orderless(P, V) /\ V \in Series(P) /\ V[<<>>] = R /\ Reads(P, 1, n, X, V)
       /\ Orderless(P, W) /\ W \in Series(P) /\ Reads(P, 0, n, Y, W)
  <2>1. Orderless(P, V) /\ V \in Series(P) /\ V[<<>>] = R
    BY <1>1, <1>2, <1>7, <1>9, TableIs DEF RootTable
  <2>2. Reads(P, 1, n, X, V)
    BY <1>1, <1>2, <1>7, <1>9, TableReads DEF RootTable
  <2>3. Orderless(P, W) /\ W \in Series(P)
    BY <1>1, <1>2, <1>7, <1>9, TableIs DEF ScaleTable
  <2>4. Reads(P, 0, n, Y, W)
    BY <1>1, <1>2, <1>7, <1>9, TableReads DEF ScaleTable
  <2> QED BY <2>1, <2>2, <2>3, <2>4
<1>11. Orderless(P, V2) /\ V2 \in Series(P) /\ V2[<<>>] = R /\ Reads(P, 1, m, X2, V2) /\ Reads(P, 1, n, X2, V2)
  <2>1. Orderless(P, V2) /\ V2 \in Series(P) /\ V2[<<>>] = R
    BY <1>1, <1>3, <1>7, <1>9, TableIs DEF RootTable
  <2>2. Reads(P, 1, m, X2, V2)
    BY <1>1, <1>3, <1>7, <1>9, TableReads DEF RootTable
  <2>3. Reads(P, 1, n, X2, V2)
    BY <1>1, <1>3, <1>7, <1>9, TableReads DEF RootTable
  <2> QED BY <2>1, <2>2, <2>3
<1>12. Until(P, n, V2, V)
  <2> SUFFICES ASSUME NEW w \in Words(P), Len(w) <= n PROVE V2[w] = V[w]
    BY DEF Until
  <2>1. Len(w) \in Nat /\ <<>> \in Words(P) /\ (Len(w) <= 0 <=> w = <<>>)
    BY NoWords
  <2>2. CASE w = <<>>
    BY <1>10, <1>11, <2>2
  <2>3. CASE w # <<>>
    <3>1. Len(w) \in 1 .. n
      BY <1>0, <2>1, <2>3
    <3>2. V[w] = At(X, w) /\ V2[w] = At(X2, w)
      BY <1>10, <1>11, <3>1 DEF Reads
    <3>3. X2[Len(w)] = X[Len(w)]
      BY <1>3, <3>1
    <3> QED BY <3>2, <3>3 DEF At
  <2> QED BY <2>2, <2>3
<1>13. ASSUME NEW B \in MultisetsOver(P, m)
       PROVE  /\ B \in Words(P) /\ Len(B) = m /\ B # <<>> /\ Sorted(B) = B
              /\ V2[B] = RootStep(fam, m, X, B) /\ L[B] = V2[B]
  <2>1. B \in Words(P) /\ Len(B) = m /\ Ascends(B)
    BY <1>0, <1>1, MultisetsAre DEF Words
  <2>2. Sorted(B) = B
    BY <2>1, WordOrders
  <2>3. B # <<>>
    BY <1>0, <2>1, NoWords
  <2>4. V2[B] = At(X2, B)
    BY <1>7, <1>11, <2>1 DEF Reads
  <2>5. At(X2, B) = RootStep(fam, m, X, B)
    BY <1>3, <2>1, <2>2 DEF At
  <2> HIDE DEF V2
  <2>6. L[B] = V2[B]
    BY <1>11, <2>1, <2>3, LaterIs
  <2> QED BY <2>1, <2>2, <2>3, <2>4, <2>5, <2>6
<1>14. L \in Series(P) /\ L[<<>>] = Nought
  BY <1>11, LaterIs
<1> HIDE DEF V, V2, W, W2, L, P, R
<1>15. Until(P, m, Power(fam, V2), Infos(fam))
  <2>1. Until(P, n, Power(fam, V2), Power(fam, V))
    <3>1. Until(P, n, Conv(V2, V2), Conv(V, V))
      BY <1>0, <1>10, <1>11, <1>12, ConvUntil
    <3> QED BY <1>12, <3>1 DEF Power
  <2>2. Until(P, n, Power(fam, V2), Infos(fam))
    BY <1>2, <2>1 DEF Until
  <2>3. ASSUME NEW B \in MultisetsOver(P, m) PROVE Power(fam, V2)[B] = Infos(fam)[B]
    <3>0. B \in Words(P) /\ Len(B) = m /\ V2[B] = RootStep(fam, m, X, B) /\ L[B] = V2[B]
      BY <1>13
    <3>1. CASE fam.d = "one"
      BY <1>1, <3>0, <3>1 DEF Power, RootStep
    <3>2. CASE fam.d = "half"
      <4> DEFINE Z == RootStep(fam, m, X, B)
                 p == Leibniz(X, X, B, Proper(m))
      <4>1. Power(fam, V2) = Conv(V2, V2)
        BY <3>2 DEF Power
      <4>2. Plus(Plus(Times(Z, R), p), Times(R, Z)) = fam.I[B] /\ IsMatrix(Z) /\ IsMatrix(p)
        BY <3>2, RootStepIs DEF P, R
      <4>3. Conv(V2, V2)[B] = Plus(Times(R, V2[B]), Conv(L, V2)[B])
        BY <1>11, <3>0, ConvPick DEF L
      <4>4. Conv(L, V2)[B] = Plus(Times(L[B], R), Conv(L, L)[B])
        BY <1>11, <1>14, <3>0, ConvPick DEF L
      <4>5. Reads(P, 1, n, X, V2)
        <5>1. \A o \in 1 .. n : X[o] = X2[o]
          BY <1>3
        <5>2. 1 \in Int /\ n \in Int
          BY <1>0
        <5> QED BY <1>11, <5>1, <5>2, ReadsLower
      <4>6. p = Conv(L, L)[B]
        BY <1>0, <3>0, <4>5, ProperIs DEF L, n
      <4> HIDE DEF Z, p
      <4>7. V2[B] = Z /\ L[B] = Z
        BY <3>0 DEF Z
      <4>8. Z \in Matrices /\ p \in Matrices
        BY <4>2 DEF IsMatrix
      <4>9. Times(Z, R) \in Matrices /\ Times(R, Z) \in Matrices
        BY <1>9, <4>8, TimesIs
      <4>10. Plus(Times(Z, R), p) \in Matrices
        BY <4>8, <4>9, PlusIs
      <4>11. Plus(Times(R, Z), Plus(Times(Z, R), p)) = Plus(Plus(Times(Z, R), p), Times(R, Z))
        BY <4>9, <4>10, PlusCommutes
      <4> QED BY <1>1, <4>1, <4>2, <4>3, <4>4, <4>6, <4>7, <4>11
    <3> QED BY <1>1, <3>1, <3>2
  <2>4. Orderless(P, Power(fam, V2))
    BY <1>11, PowerOrderless DEF P
  <2> QED BY <1>0, <1>1, <2>2, <2>3, <2>4, UntilStep
<1>16. Times(R, S0) = Identity /\ S0 \in Matrices
  <2>1. <<>> \in Words(P) /\ Len(<<>>) = 0
    BY NoWords
  <2>2. W[<<>>] = S0
    <3>1. W[<<>>] = At(Y, <<>>)
      BY <1>7, <1>10, <2>1 DEF Reads
    <3>2. Sorted(<<>>) = <<>>
      BY <2>1, WordOrders
    <3> QED BY <2>1, <3>1, <3>2 DEF At, S0
  <2>3. Conv(V, W)[<<>>] = One(P)[<<>>]
    BY <1>0, <1>2, <2>1 DEF Until
  <2>4. Conv(V, W)[<<>>] = Times(V[<<>>], W[<<>>])
    BY <1>10, ConvEmpty
  <2>5. W[<<>>] \in Matrices
    BY <1>10, <2>1, SeriesAre
  <2> QED BY <1>10, <2>2, <2>3, <2>4, <2>5, ZeroIs
<1>17. ASSUME NEW B \in MultisetsOver(P, m)
       PROVE  /\ Leibniz(X2, Y, B, NonEmpty(m)) = Conv(L, W)[B]
              /\ Y2[m][B] \in Matrices /\ Plus(Times(R, Y2[m][B]), Conv(L, W)[B]) = Nought
  <2>0. B \in Words(P) /\ Len(B) = m
    BY <1>13
  <2>1. Leibniz(X2, Y, B, NonEmpty(m)) = Conv(L, W)[B]
    BY <1>0, <1>10, <1>11, <2>0, NonEmptyIs DEF L, n
  <2>2. Conv(L, W)[B] \in Matrices
    BY <1>10, <1>14, <2>0, ConvIs, SeriesAre
  <2>3. Y2[m][B] = NegLeft(S0, Conv(L, W)[B])
    BY <1>3, <2>1
  <2>4. NegLeft(S0, Conv(L, W)[B]) \in Matrices /\ Plus(Times(R, NegLeft(S0, Conv(L, W)[B])), Conv(L, W)[B]) = Nought
    BY <1>9, <1>16, <2>2, NegLeftIs
  <2> QED BY <2>1, <2>3, <2>4
<1>18. Filled(P, Y2)
  <2> SUFFICES ASSUME NEW o \in 0 .. m, NEW B \in MultisetsOver(P, o)
               PROVE  B \in DOMAIN Y2[o] /\ Y2[o][B] \in Matrices
    BY <1>3, Zenon DEF Filled
  <2>1. CASE o \in 0 .. n
    <3>1. B \in DOMAIN Y[o] /\ Y[o][B] \in Matrices
      BY <1>2, <1>9, <2>1, Zenon DEF Filled
    <3> QED BY <1>3, <2>1, <3>1
  <2>2. CASE o = m
    BY <1>3, <1>17, <2>2
  <2> QED BY <1>6, <1>7, <2>1, <2>2
<1>19. Orderless(P, W2) /\ W2 \in Series(P) /\ Reads(P, 0, m, Y2, W2) /\ Reads(P, 0, n, Y2, W2)
  <2>1. Orderless(P, W2) /\ W2 \in Series(P)
    BY <1>1, <1>3, <1>7, <1>9, <1>18, TableIs DEF ScaleTable, W2, P
  <2>2. Reads(P, 0, m, Y2, W2)
    BY <1>1, <1>3, <1>7, <1>9, <1>18, TableReads DEF ScaleTable, W2, P
  <2>3. Reads(P, 0, n, Y2, W2)
    BY <1>1, <1>3, <1>7, <1>9, <1>18, TableReads DEF ScaleTable, W2, P
  <2> QED BY <2>1, <2>2, <2>3
<1>20. Reads(P, 0, n, Y, W2)
  <2>1. \A o \in 0 .. n : Y[o] = Y2[o]
    BY <1>3
  <2>2. 0 \in Int /\ n \in Int
    BY <1>0
  <2> QED BY <1>19, <2>1, <2>2, ReadsLower
<1>21. Until(P, n, W2, W)
  <2> SUFFICES ASSUME NEW w \in Words(P), Len(w) <= n PROVE W2[w] = W[w]
    BY DEF Until
  <2>1. Len(w) \in 0 .. n
    BY <1>0, WordsAre
  <2> QED BY <1>10, <1>20, <2>1 DEF Reads
<1>22. Until(P, m, Conv(V2, W2), One(P))
  <2>1. Until(P, n, Conv(V2, W2), Conv(V, W))
    BY <1>0, <1>10, <1>11, <1>12, <1>19, <1>21, ConvUntil
  <2>2. Until(P, n, Conv(V2, W2), One(P))
    BY <1>2, <2>1 DEF Until
  <2>3. ASSUME NEW B \in MultisetsOver(P, m) PROVE Conv(V2, W2)[B] = One(P)[B]
    <3>0. B \in Words(P) /\ Len(B) = m /\ B # <<>> /\ Sorted(B) = B
      BY <1>13
    <3>1. Conv(V2, W2)[B] = Plus(Times(R, W2[B]), Conv(L, W2)[B])
      BY <1>11, <1>19, <3>0, ConvPick DEF L
    <3>2. W2[B] = Y2[m][B]
      <4>1. W2[B] = At(Y2, B)
        BY <1>7, <1>19, <3>0 DEF Reads
      <4> QED BY <3>0, <4>1 DEF At
    <3>3. Leibniz(X2, Y, B, NonEmpty(m)) = Conv(L, W2)[B]
      BY <1>0, <1>11, <1>20, <3>0, NonEmptyIs DEF L, n
    <3>4. Conv(L, W2)[B] = Conv(L, W)[B]
      BY <1>17, <3>3
    <3>5. Plus(Times(R, Y2[m][B]), Conv(L, W)[B]) = Nought
      BY <1>17
    <3>6. One(P)[B] = Nought
      BY <3>0, ZeroIs
    <3> QED BY <3>1, <3>2, <3>4, <3>5, <3>6
  <2>4. Orderless(P, Conv(V2, W2)) /\ Orderless(P, One(P))
    BY <1>11, <1>19, ConvOrderless, OneOrderless
  <2> QED BY <1>0, <1>1, <2>2, <2>3, <2>4, UntilStep
<1>23. Complete(P, Y2)
  <2>1. Until(P, m, Turned(W2), W2)
    <3>1. m \in Int
      BY <1>0
    <3> QED BY <1>9, <1>11, <1>19, <1>22, <3>1, InverseTurned
  <2> SUFFICES ASSUME NEW o \in 0 .. m, NEW B \in MultisetsOver(P, o)
               PROVE  B \in DOMAIN Y2[o] /\ IsMatrix(Y2[o][B])
    BY <1>3, Zenon DEF Complete
  <2>2. B \in DOMAIN Y2[o] /\ Y2[o][B] \in Matrices
    BY <1>3, <1>18, Zenon DEF Filled
  <2>3. o \in Nat /\ o <= m
    BY <1>0
  <2>4. B \in Words(P) /\ Len(B) = o /\ Ascends(B)
    BY <1>1, <2>3, MultisetsAre DEF Words
  <2>5. Sorted(B) = B
    BY <2>4, WordOrders
  <2>6. W2[B] = At(Y2, B)
    BY <1>19, <2>4 DEF Reads
  <2>7. W2[B] = Y2[o][B]
    BY <2>4, <2>5, <2>6 DEF At
  <2>8. Turned(W2)[B] = Transpose(W2[B])
    BY <1>19, <2>4, LaterIs
  <2>9. Turned(W2)[B] = W2[B]
    BY <2>1, <2>3, <2>4 DEF Until
  <2> QED BY <2>2, <2>7, <2>8, <2>9 DEF IsMatrix
<1> QED BY <1>3, <1>8, <1>15, <1>22, <1>23 DEF Powers, P, V2, W2

\* By order, the information, the square of the scaling and the gradient.
InfoTable(fam) == [o \in 0 .. MaxOrder |-> [B \in MultisetsOver(fam.P, o) |-> fam.I[B]]]
SquareTable(fam, Y) ==
  [o \in DOMAIN Y |-> [B \in MultisetsOver(fam.P, o) |-> Leibniz(Y, Y, B, Masks(o))]]
GradTable(fam, n) == [k \in 0 .. n |-> [B \in MultisetsOver(fam.P, k) |-> fam.g[B]]]
Grads(fam) == [w \in Words(fam.P) |-> IF Len(w) <= MaxOrder THEN Wide(fam.g[Sorted(w)]) ELSE Nought]

(* What the equations up to an order say of the two tables as series.      *)
LEMMA PowersRead ==
  ASSUME NEW fam \in Families, NEW n \in 0 .. MaxOrder, NEW X, NEW Y, Powers(fam, n, X, Y)
  PROVE  /\ n \in Nat /\ n \in Int /\ fam.P \in Nat
         /\ Orderless(fam.P, RootTable(fam, X)) /\ RootTable(fam, X) \in Series(fam.P)
         /\ Turned(RootTable(fam, X)) = RootTable(fam, X)
         /\ RootTable(fam, X)[<<>>] = Roots(fam) /\ Reads(fam.P, 1, n, X, RootTable(fam, X))
         /\ Orderless(fam.P, ScaleTable(fam, Y)) /\ ScaleTable(fam, Y) \in Series(fam.P)
         /\ Reads(fam.P, 0, n, Y, ScaleTable(fam, Y))
         /\ Until(fam.P, n, Power(fam, RootTable(fam, X)), Infos(fam))
         /\ Until(fam.P, n, Conv(RootTable(fam, X), ScaleTable(fam, Y)), One(fam.P))
         /\ Until(fam.P, n, Conv(ScaleTable(fam, Y), RootTable(fam, X)), One(fam.P))
<1> DEFINE P == fam.P
           V == RootTable(fam, X)
           W == ScaleTable(fam, Y)
<1>1. P \in Nat /\ IsMatrix(Roots(fam)) /\ MaxOrder \in Nat
  BY FamilyIs
<1>2. n \in Nat /\ n \in Int
  BY <1>1
<1>3. /\ DOMAIN X = 1 .. n /\ DOMAIN Y = 0 .. n /\ Complete(P, X) /\ Complete(P, Y)
      /\ Until(P, n, Power(fam, V), Infos(fam)) /\ Until(P, n, Conv(V, W), One(P))
  BY DEF Powers
<1>4. 1 .. n \subseteq Nat /\ 0 .. n \subseteq Nat /\ 0 \notin 1 .. n
  BY <1>2
<1>5. IsMatrix(Nought)
  BY NoughtTurns
<1>6. Roots(fam) \in Matrices /\ Filled(P, X) /\ Turned(V) = V
  BY <1>1, <1>3, <1>4, TableTurned DEF RootTable
<1>7. Nought \in Matrices /\ Filled(P, Y)
  BY <1>1, <1>3, <1>4, <1>5, TableTurned
<1>8. Orderless(P, V) /\ V \in Series(P) /\ V[<<>>] = Roots(fam)
  BY <1>1, <1>3, <1>4, <1>6, TableIs DEF RootTable
<1>9. Reads(P, 1, n, X, V)
  BY <1>1, <1>3, <1>4, <1>6, TableReads DEF RootTable
<1>10. Orderless(P, W) /\ W \in Series(P)
  BY <1>1, <1>3, <1>4, <1>7, TableIs DEF ScaleTable
<1>11. Reads(P, 0, n, Y, W)
  BY <1>1, <1>3, <1>4, <1>7, TableReads DEF ScaleTable
<1> HIDE DEF P, V, W
<1>12. Until(P, n, Conv(W, V), One(P))
  BY <1>2, <1>3, <1>6, <1>8, <1>10, InverseTurned
<1> QED BY <1>1, <1>2, <1>3, <1>6, <1>8, <1>9, <1>10, <1>11, <1>12 DEF P, V, W

(* The power of the scaling inverts the information.                       *)
LEMMA ScalingSolves ==
  ASSUME NEW fam \in Families, NEW n \in 0 .. MaxOrder, NEW X, NEW Y, Powers(fam, n, X, Y),
         NEW B \in MultisetsOver(fam.P, n)
  PROVE  Leibniz(IF fam.d = "one" THEN Y ELSE SquareTable(fam, Y), InfoTable(fam), B, Masks(n))
           = IF n = 0 THEN Identity ELSE Nought
<1> DEFINE P == fam.P
           V == RootTable(fam, X)
           W == ScaleTable(fam, Y)
           J == Infos(fam)
<1>1. /\ n \in Nat /\ n \in Int /\ P \in Nat
      /\ Orderless(P, V) /\ V \in Series(P)
      /\ Orderless(P, W) /\ W \in Series(P) /\ Reads(P, 0, n, Y, W)
      /\ Until(P, n, Power(fam, V), J) /\ Until(P, n, Conv(W, V), One(P))
  BY PowersRead
<1>2. /\ fam.d \in {"half", "one"} /\ Orderless(P, J) /\ MaxOrder \in Nat
      /\ \A k \in 0 .. MaxOrder : \A C \in MultisetsOver(P, k) : J[C] = fam.I[C]
  BY FamilyIs
<1>3. B \in Words(P) /\ Len(B) = n
  BY <1>1, MultisetsAre DEF Words
<1>4. DOMAIN Y = 0 .. n
  BY DEF Powers
<1> HIDE DEF P, V, W, J
<1>5. ASSUME NEW w \in Words(P), Len(w) \in 0 .. n
      PROVE  /\ Len(w) \in 0 .. MaxOrder /\ Len(w) \in Nat /\ Sorted(w) \in MultisetsOver(P, Len(w))
             /\ Sorted(w) \in Words(P) /\ Len(Sorted(w)) = Len(w) /\ Sorted(Sorted(w)) = Sorted(w)
  <2>1. Sorted(w) \in Words(P) /\ Len(Sorted(w)) = Len(w) /\ Ascends(Sorted(w)) /\ Sorted(Sorted(w)) = Sorted(w)
    BY WordOrders
  <2>2. Len(w) \in 0 .. MaxOrder /\ Len(w) \in Nat
    BY <1>1, <1>2, <1>5
  <2> QED BY <1>1, <2>1, <2>2, MultisetsAre DEF Words
<1>6. Reads(P, 0, n, InfoTable(fam), J)
  <2>1. ASSUME NEW w \in Words(P), Len(w) \in 0 .. n PROVE J[w] = At(InfoTable(fam), w)
    <3>1. /\ Len(w) \in 0 .. MaxOrder /\ Sorted(w) \in MultisetsOver(P, Len(w))
      BY <1>5, <2>1
    <3>2. J[w] = J[Sorted(w)]
      BY <1>2 DEF Orderless
    <3>3. J[Sorted(w)] = fam.I[Sorted(w)]
      BY <1>2, <3>1
    <3>4. At(InfoTable(fam), w) = fam.I[Sorted(w)]
      BY <3>1 DEF At, InfoTable, P
    <3> QED BY <3>2, <3>3, <3>4
  <2> QED BY <1>2, <2>1 DEF Reads, Orderless
<1>7. Reads(P, 0, n, IF fam.d = "one" THEN Y ELSE SquareTable(fam, Y), Power(fam, W))
  <2>1. CASE fam.d = "one"
    BY <1>1, <2>1 DEF Power
  <2>2. CASE fam.d = "half"
    <3>0. Orderless(P, Conv(W, W))
      BY <1>1, ConvOrderless
    <3>1. ASSUME NEW w \in Words(P), Len(w) \in 0 .. n PROVE Conv(W, W)[w] = At(SquareTable(fam, Y), w)
      <4> DEFINE s == Sorted(w)
                 k == Len(w)
      <4>1. k \in 0 .. n /\ k \in Nat /\ s \in MultisetsOver(P, k) /\ s \in Words(P) /\ Len(s) = k
        BY <1>5, <3>1
      <4>2. At(SquareTable(fam, Y), w) = Leibniz(Y, Y, s, Masks(k))
        BY <1>4, <4>1 DEF At, SquareTable, P
      <4>3. Reads(P, 0, k, Y, W)
        <5>1. \A i \in 0 .. k : i \in 0 .. n
          BY <1>1, <4>1
        <5> HIDE DEF k
        <5> QED BY <1>1, <5>1 DEF Reads
      <4>4. Leibniz(Y, Y, s, Masks(k)) = Conv(W, W)[s]
        BY <4>1, <4>3, AllAre
      <4>5. Conv(W, W)[w] = Conv(W, W)[s]
        BY <3>0 DEF Orderless
      <4> QED BY <4>2, <4>4, <4>5
    <3>2. Reads(P, 0, n, SquareTable(fam, Y), Conv(W, W))
      BY <3>0, <3>1 DEF Reads, Orderless
    <3> QED BY <2>2, <3>2 DEF Power
  <2> QED BY <1>2, <2>1, <2>2
<1> DEFINE Y2 == IF fam.d = "one" THEN Y ELSE SquareTable(fam, Y)
<1> HIDE DEF Y2
<1>8. Leibniz(Y2, InfoTable(fam), B, Masks(n)) = Conv(Power(fam, W), J)[B]
  BY <1>1, <1>3, <1>6, <1>7, AllAre DEF Y2
<1>9. /\ Power(fam, W) \in Series(P) /\ Power(fam, V) \in Series(P) /\ J \in Series(P)
      /\ Conv(W, V) \in Series(P) /\ One(P) \in Series(P) /\ Conv(W, W) \in Series(P) /\ Conv(V, V) \in Series(P)
  <2>1. Power(fam, W) \in Series(P) /\ Power(fam, V) \in Series(P)
    BY <1>1, PowerOrderless DEF P
  <2> QED BY <1>1, <1>2, <2>1, ConvIs, ZeroIs DEF Orderless
<1>10. \A Z : Until(P, n, Z, Z)
  BY DEF Until
<1>11. Until(P, n, Conv(Power(fam, W), Power(fam, V)), Conv(Power(fam, W), J))
  BY <1>1, <1>9, <1>10, ConvUntil
<1>12. Until(P, n, Conv(Power(fam, W), Power(fam, V)), One(P))
  <2>1. CASE fam.d = "one"
    BY <1>1, <2>1 DEF Power
  <2>2. CASE fam.d = "half"
    <3> DEFINE WV == Conv(W, V)
    <3>1. Conv(Conv(W, W), Conv(V, V)) = Conv(W, Conv(W, Conv(V, V)))
      BY <1>1, <1>9, ConvAssociates
    <3>2. Conv(W, Conv(V, V)) = Conv(WV, V)
      BY <1>1, ConvAssociates
    <3>3. Conv(WV, V) \in Series(P)
      BY <1>1, <1>9, ConvIs
    <3> HIDE DEF WV
    <3>4. WV \in Series(P) /\ Until(P, n, WV, One(P))
      BY <1>1, <1>9 DEF WV
    <3>5. Until(P, n, Conv(WV, V), Conv(One(P), V))
      BY <1>1, <1>9, <1>10, <3>4, ConvUntil
    <3>6. Conv(One(P), V) = V
      BY <1>1, ConvUnit
    <3>7. Until(P, n, Conv(W, Conv(WV, V)), Conv(W, V))
      BY <1>1, <1>10, <3>3, <3>5, <3>6, ConvUntil
    <3>8. Until(P, n, Conv(Conv(W, W), Conv(V, V)), One(P))
      BY <1>1, <3>1, <3>2, <3>7 DEF Until
    <3> QED BY <2>2, <3>8 DEF Power
  <2> QED BY <1>2, <2>1, <2>2
<1>13. Conv(Power(fam, W), J)[B] = One(P)[B]
  <2>1. Len(B) <= n
    BY <1>1, <1>3
  <2> QED BY <1>3, <1>11, <1>12, <2>1 DEF Until
<1>14. One(P)[B] = IF n = 0 THEN Identity ELSE Nought
  <2>1. B = <<>> <=> n = 0
    BY <1>1, <1>3, NoWords
  <2>2. CASE n = 0
    BY <2>1, <2>2, ZeroIs
  <2>3. CASE n # 0
    BY <1>3, <2>1, <2>3, ZeroIs
  <2> QED BY <2>2, <2>3
<1> QED BY <1>8, <1>13, <1>14 DEF Y2

(* The gradient and its derivatives as a series of vectors.                *)
LEMMA GradsAre ==
  ASSUME NEW fam \in Families, NEW n \in 0 .. MaxOrder
  PROVE  /\ Orderless(fam.P, Grads(fam)) /\ Grads(fam) \in Series(fam.P)
         /\ \A w \in Words(fam.P) : Len(w) \in 0 .. n =>
              /\ At(GradTable(fam, n), w) = fam.g[Sorted(w)] /\ fam.g[Sorted(w)] \in Vectors
              /\ Wide(fam.g[Sorted(w)]) = Grads(fam)[w]
<1> DEFINE P == fam.P
           G == Grads(fam)
<1>1. /\ P \in Nat /\ MaxOrder \in Nat
      /\ \A k \in 0 .. MaxOrder : \A C \in MultisetsOver(P, k) : fam.g[C] \in Vectors
  BY FamilyIs
<1>2. G = [w \in Words(P) |-> IF Len(w) <= MaxOrder THEN Wide(fam.g[Sorted(w)]) ELSE Nought]
  BY DEF Grads
<1> HIDE DEF P, G
<1>3. ASSUME NEW w \in Words(P)
      PROVE  /\ Len(w) \in Nat /\ Sorted(w) \in Words(P) /\ Len(Sorted(w)) = Len(w) /\ Sorted(Sorted(w)) = Sorted(w)
             /\ Sorted(w) \in MultisetsOver(P, Len(w))
  <2>1. Sorted(w) \in Words(P) /\ Len(Sorted(w)) = Len(w) /\ Ascends(Sorted(w)) /\ Sorted(Sorted(w)) = Sorted(w)
    BY WordOrders
  <2>2. Len(w) \in Nat
    BY WordsAre
  <2> QED BY <1>1, <2>1, <2>2, MultisetsAre DEF Words
<1>4. ASSUME NEW w \in Words(P), Len(w) <= MaxOrder
      PROVE  fam.g[Sorted(w)] \in Vectors /\ Wide(fam.g[Sorted(w)]) \in Matrices
  <2>1. Len(w) \in 0 .. MaxOrder /\ Sorted(w) \in MultisetsOver(P, Len(w))
    BY <1>1, <1>3, <1>4
  <2>2. fam.g[Sorted(w)] \in Vectors
    BY <1>1, <2>1
  <2> QED BY <2>2, WideIs
<1>5. G \in Series(P)
  <2>1. \A w \in Words(P) : (IF Len(w) <= MaxOrder THEN Wide(fam.g[Sorted(w)]) ELSE Nought) \in Matrices
    BY <1>4, NoughtIs
  <2> QED BY <1>2, <2>1 DEF Series
<1>6. \A w \in Words(P) : G[w] = IF Len(w) <= MaxOrder THEN Wide(fam.g[Sorted(w)]) ELSE Nought
  BY <1>2
<1>7. Orderless(P, G)
  <2>1. ASSUME NEW w \in Words(P) PROVE G[w] = G[Sorted(w)]
    <3>1. Sorted(w) \in Words(P) /\ Len(Sorted(w)) = Len(w) /\ Sorted(Sorted(w)) = Sorted(w)
      BY <1>3
    <3> QED BY <1>6, <3>1
  <2> QED BY <1>5, <2>1 DEF Orderless
<1>8. ASSUME NEW w \in Words(P), Len(w) \in 0 .. n
      PROVE  /\ At(GradTable(fam, n), w) = fam.g[Sorted(w)] /\ fam.g[Sorted(w)] \in Vectors
             /\ Wide(fam.g[Sorted(w)]) = G[w]
  <2>1. Len(w) <= MaxOrder /\ Sorted(w) \in MultisetsOver(P, Len(w))
    BY <1>1, <1>3, <1>8
  <2>2. At(GradTable(fam, n), w) = fam.g[Sorted(w)]
    BY <1>8, <2>1 DEF At, GradTable, P
  <2> QED BY <1>4, <1>6, <2>1, <2>2
<1> QED BY <1>5, <1>7, <1>8 DEF P, G

(* The driving vector's derivatives up to order n.                         *)
Drives(fam, n, Y, u) ==
  /\ DOMAIN u = 0 .. n
  /\ \A o \in 0 .. n :
       /\ u[o] \in [TuplesOver(fam.P, o) -> Vectors]
       /\ \A T \in TuplesOver(fam.P, o) : Wide(u[o][T]) = Conv(ScaleTable(fam, Y), Grads(fam))[T]

(* jsc_u0_cpp() is the product S g at the empty word.                      *)
LEMMA DriveZeroIs ==
  ASSUME NEW fam \in Families, NEW n \in 0 .. MaxOrder, NEW X, NEW Y, Powers(fam, n, X, Y)
  PROVE  /\ Apply(Y[0][<<>>], GradTable(fam, n)[0][<<>>]) \in Vectors
         /\ Wide(Apply(Y[0][<<>>], GradTable(fam, n)[0][<<>>])) = Conv(ScaleTable(fam, Y), Grads(fam))[<<>>]
<1> DEFINE P == fam.P
           W == ScaleTable(fam, Y)
           G == Grads(fam)
           y == GradTable(fam, n)[0][<<>>]
<1>1. n \in Nat /\ W \in Series(P) /\ Reads(P, 0, n, Y, W)
  BY PowersRead
<1>2. <<>> \in Words(P) /\ Len(<<>>) = 0 /\ 0 \in 0 .. n
  BY <1>1, NoWords
<1>3. Sorted(<<>>) = <<>>
  BY <1>2, WordOrders
<1>4. G \in Series(P) /\ At(GradTable(fam, n), <<>>) \in Vectors /\ Wide(At(GradTable(fam, n), <<>>)) = G[<<>>]
  <2>1. Len(<<>>) \in 0 .. n
    BY <1>2
  <2> QED BY <1>2, <2>1, GradsAre
<1>5. At(GradTable(fam, n), <<>>) = y
  BY <1>2, <1>3 DEF At
<1>6. W[<<>>] = At(Y, <<>>)
  <2>1. Len(<<>>) \in 0 .. n
    BY <1>2
  <2> QED BY <1>1, <1>2, <2>1 DEF Reads
<1>7. At(Y, <<>>) = Y[0][<<>>]
  BY <1>2, <1>3 DEF At
<1> HIDE DEF W, G, y
<1>8. Y[0][<<>>] \in Matrices
  BY <1>1, <1>2, <1>6, <1>7, SeriesAre
<1>9. Conv(W, G)[<<>>] = Times(W[<<>>], G[<<>>])
  BY <1>1, <1>4, ConvEmpty
<1>10. y \in Vectors /\ Wide(y) = G[<<>>]
  BY <1>4, <1>5
<1>11. Apply(Y[0][<<>>], y) \in Vectors /\ Wide(Apply(Y[0][<<>>], y)) = Times(Y[0][<<>>], Wide(y))
  BY <1>8, <1>10, WideIs
<1> QED BY <1>6, <1>7, <1>9, <1>10, <1>11 DEF W, G, y

(* What a driving function of order m returns is the product S g at every  *)
(* word of length m.                                                       *)
LEMMA DriveStepIs ==
  ASSUME NEW fam \in Families, NEW n \in 0 .. MaxOrder, NEW X, NEW Y, Powers(fam, n, X, Y),
         NEW m \in 0 .. n, NEW T \in TuplesOver(fam.P, m)
  PROVE  /\ Sorted(T) \in MultisetsOver(fam.P, m)
         /\ LeibnizVector(Y, GradTable(fam, n), Sorted(T), All(m)) \in Vectors
         /\ Wide(LeibnizVector(Y, GradTable(fam, n), Sorted(T), All(m)))
              = Conv(ScaleTable(fam, Y), Grads(fam))[T]
<1> DEFINE P == fam.P
           W == ScaleTable(fam, Y)
           G == Grads(fam)
           y == GradTable(fam, n)
           B == Sorted(T)
<1>1. n \in Nat /\ P \in Nat /\ W \in Series(P) /\ Orderless(P, W) /\ Reads(P, 0, n, Y, W)
  BY PowersRead
<1>2. m \in Nat /\ 0 .. m \subseteq 0 .. n
  BY <1>1
<1>3. T \in Words(P) /\ Len(T) = m
  BY <1>1, <1>2, MultisetsAre DEF Words
<1>4. B \in Words(P) /\ Len(B) = m /\ Ascends(B)
  BY <1>3, WordOrders
<1>5. B \in MultisetsOver(P, m)
  BY <1>1, <1>2, <1>4, MultisetsAre DEF Words
<1>6. /\ G \in Series(P) /\ Orderless(P, G)
      /\ \A w \in Words(P) : Len(w) \in 0 .. n => At(y, w) \in Vectors /\ Wide(At(y, w)) = G[w]
  BY GradsAre
<1> HIDE DEF W, G, y, B, P
<1>7. ListsWide(Y, y, W, G, B)
  <2> SUFFICES ASSUME NEW A \in Masks(Len(B))
               PROVE  /\ At(Y, Rest(B, A)) = W[Rest(B, A)]
                      /\ At(y, Sub(B, A)) \in Vectors /\ Wide(At(y, Sub(B, A))) = G[Sub(B, A)]
    BY DEF ListsWide
  <2>1. /\ Sub(B, A) \in Words(P) /\ Rest(B, A) \in Words(P)
        /\ Len(Sub(B, A)) \in 0 .. m /\ Len(Rest(B, A)) \in 0 .. m
    BY <1>2, <1>4, MaskParts
  <2>2. Len(Sub(B, A)) \in 0 .. n /\ Len(Rest(B, A)) \in 0 .. n
    BY <1>2, <2>1
  <2>3. At(Y, Rest(B, A)) = W[Rest(B, A)]
    BY <1>1, <2>1, <2>2 DEF Reads
  <2> QED BY <1>6, <2>1, <2>2, <2>3
<1>8. /\ LeibnizVector(Y, y, B, All(m)) \in Vectors
      /\ Wide(LeibnizVector(Y, y, B, All(m))) = Conv(W, G)[B]
  BY <1>1, <1>4, <1>6, <1>7, LeibnizVectorIs
<1>9. Conv(W, G)[T] = Conv(W, G)[B]
  <2>1. Orderless(P, Conv(W, G))
    BY <1>1, <1>6, ConvOrderless
  <2> QED BY <1>3, <2>1 DEF Orderless, B
<1> QED BY <1>5, <1>8, <1>9 DEF W, G, y, B, P

(* A sum of products with vectors, one for each mask.                      *)
SumWide(m, F) == [a \in Index |-> SumOver(m, [A \in Masks(m) |-> F[A][a]]) % Prime]

(* A sum of vectors over the masks is the product of series at the word.   *)
LEMMA WideSum ==
  ASSUME NEW P, NEW V \in Series(P), NEW H \in Series(P), NEW T \in Words(P), NEW F,
         \A A \in Masks(Len(T)) : F[A] \in Vectors /\ Wide(F[A]) = Times(V[Sub(T, A)], H[Rest(T, A)])
  PROVE  SumWide(Len(T), F) \in Vectors /\ Wide(SumWide(Len(T), F)) = Conv(V, H)[T]
<1> DEFINE m == Len(T)
           E(a) == [A \in Masks(m) |-> F[A][a]]
           v == [a \in Index |-> SumOver(m, E(a)) % Prime]
<1>1. ASSUME NEW x \in Cells PROVE E(x[1]) = Terms(V, H, T, x)
  <2>1. ASSUME NEW A \in Masks(m) PROVE F[A][x[1]] = Times(V[Sub(T, A)], H[Rest(T, A)])[x]
    <3>1. Wide(F[A]) = Times(V[Sub(T, A)], H[Rest(T, A)])
      OBVIOUS
    <3>2. Wide(F[A])[x] = F[A][x[1]]
      BY DEF Wide
    <3> QED BY <3>1, <3>2
  <2> QED BY <2>1 DEF Terms
<1>2. \A x \in Cells : Conv(V, H)[T][x] = SumOver(m, Terms(V, H, T, x)) % Prime
  BY ConvIs
<1>3. Conv(V, H)[T] \in Matrices
  BY ConvIs, SeriesAre
<1> HIDE DEF E, m
<1>4. \A x \in Cells : SumOver(m, E(x[1])) % Prime = Conv(V, H)[T][x]
  BY <1>1, <1>2
<1>5. \A a \in Index : v[a] = SumOver(m, E(a)) % Prime
  OBVIOUS
<1>6. ASSUME NEW a \in Index PROVE v[a] \in Field
  <2>1. <<a, a>> \in Cells /\ <<a, a>>[1] = a
    BY Positions
  <2>2. SumOver(m, E(a)) % Prime = Conv(V, H)[T][<<a, a>>]
    BY <1>4, <2>1
  <2> QED BY <1>3, <1>5, <2>1, <2>2, Entries
<1>7. v \in Vectors
  BY <1>6 DEF Vectors
<1> HIDE DEF v
<1>8. ASSUME NEW x \in Cells PROVE Wide(v)[x] = Conv(V, H)[T][x]
  <2>1. x[1] \in Index
    BY Positions
  <2>2. Wide(v)[x] = v[x[1]]
    BY DEF Wide
  <2> QED BY <1>4, <1>5, <2>1, <2>2
<1>9. Wide(v) = Conv(V, H)[T]
  BY <1>3, <1>7, <1>8, WideIs, SameCells
<1> QED BY <1>7, <1>9 DEF v, E, m, SumWide

\* The root and its derivatives by order.
FullTable(fam, n, X) ==
  [o \in 0 .. n |-> IF o = 0 THEN [B \in MultisetsOver(fam.P, 0) |-> Roots(fam)] ELSE X[o]]

(* Applied to the driving vector, the root gives the gradient back.        *)
LEMMA DriveSolves ==
  ASSUME NEW fam \in Families, NEW n \in 0 .. MaxOrder, NEW X, NEW Y, Powers(fam, n, X, Y),
         NEW o \in 0 .. n, NEW u, Drives(fam, o, Y, u), NEW T \in TuplesOver(fam.P, o), NEW F,
         \A A \in Masks(o) : F[A] = Apply(At(FullTable(fam, n, X), Sub(T, A)), u[Len(Rest(T, A))][Rest(T, A)])
  PROVE  SumWide(o, F) = fam.g[Sorted(T)]
<1> DEFINE P == fam.P
           V == RootTable(fam, X)
           W == ScaleTable(fam, Y)
           G == Grads(fam)
           H == Conv(W, G)
           R == FullTable(fam, n, X)
<1>1. /\ n \in Nat /\ n \in Int /\ P \in Nat /\ V \in Series(P) /\ V[<<>>] = Roots(fam) /\ Reads(P, 1, n, X, V)
      /\ W \in Series(P) /\ Until(P, n, Conv(V, W), One(P))
  BY PowersRead
<1>2. o \in Nat /\ 0 .. o \subseteq 0 .. n
  BY <1>1
<1>3. T \in Words(P) /\ Len(T) = o
  BY <1>1, <1>2, MultisetsAre DEF Words
<1>4. /\ G \in Series(P)
      /\ fam.g[Sorted(T)] \in Vectors /\ Wide(fam.g[Sorted(T)]) = G[T]
  BY <1>3, GradsAre
<1> HIDE DEF V, W, G, P, H
<1>5. H \in Series(P)
  BY <1>1, <1>4, ConvIs DEF H
<1>6. ASSUME NEW w \in Words(P), Len(w) \in 0 .. n PROVE At(R, w) = V[w]
  <2>1. CASE w = <<>>
    <3>1. <<>> \in Words(P) /\ Len(<<>>) = 0
      BY NoWords
    <3>2. Sorted(<<>>) = <<>> /\ Ascends(<<>>)
      <4>1. Sorted(<<>>) = <<>>
        BY <3>1, WordOrders
      <4>2. Ascends(Sorted(<<>>))
        BY <3>1, WordOrders
      <4> QED BY <4>1, <4>2
    <3>3. <<>> \in MultisetsOver(P, 0)
      BY <1>1, <3>1, <3>2, MultisetsAre DEF Words
    <3>4. At(R, <<>>) = R[0][<<>>]
      BY <3>1, <3>2 DEF At
    <3>5. R[0] = [B \in MultisetsOver(P, 0) |-> Roots(fam)]
      BY <1>1 DEF FullTable, P
    <3>6. R[0][<<>>] = Roots(fam)
      BY <3>3, <3>5
    <3> HIDE DEF R
    <3> QED BY <1>1, <2>1, <3>4, <3>6
  <2>2. CASE w # <<>>
    <3>1. Len(w) \in 1 .. n /\ Len(w) # 0
      <4>1. Len(w) \in Nat /\ (Len(w) <= 0 <=> w = <<>>)
        BY NoWords
      <4> QED BY <1>1, <1>6, <2>2, <4>1
    <3>2. R[Len(w)] = X[Len(w)]
      BY <1>6, <3>1 DEF FullTable
    <3>3. V[w] = At(X, w)
      BY <1>1, <3>1 DEF Reads
    <3> QED BY <3>2, <3>3 DEF At
  <2> QED BY <2>1, <2>2
<1>7. ASSUME NEW A \in Masks(o)
      PROVE  F[A] \in Vectors /\ Wide(F[A]) = Times(V[Sub(T, A)], H[Rest(T, A)])
  <2> DEFINE s == Sub(T, A)
             t == Rest(T, A)
  <2>1. s \in Words(P) /\ t \in Words(P) /\ Len(s) \in 0 .. o /\ Len(t) \in 0 .. o /\ Len(t) \in Nat
    BY <1>2, <1>3, MaskParts
  <2>2. t \in TuplesOver(P, Len(t))
    BY <1>1, <2>1, MultisetsAre DEF Words
  <2>3. u[Len(t)][t] \in Vectors /\ Wide(u[Len(t)][t]) = H[t]
    <3>1. /\ u[Len(t)] \in [TuplesOver(P, Len(t)) -> Vectors]
          /\ \A z \in TuplesOver(P, Len(t)) : Wide(u[Len(t)][z]) = H[z]
      <4>1. \A k \in 0 .. o : /\ u[k] \in [TuplesOver(P, k) -> Vectors]
                             /\ \A z \in TuplesOver(P, k) : Wide(u[k][z]) = H[z]
        BY Zenon DEF Drives, H, W, G, P
      <4> HIDE DEF s, t
      <4> QED BY <2>1, <4>1, Zenon
    <3> QED BY <2>2, <3>1
  <2>4. At(R, s) = V[s] /\ V[s] \in Matrices
    <3>1. Len(s) \in 0 .. n
      BY <1>2, <2>1
    <3> QED BY <1>1, <1>6, <2>1, <3>1, SeriesAre
  <2>5. F[A] = Apply(V[s], u[Len(t)][t])
    BY <2>4
  <2> HIDE DEF s, t
  <2>6. F[A] \in Vectors /\ Wide(F[A]) = Times(V[s], H[t])
    BY <2>3, <2>4, <2>5, WideIs
  <2> QED BY <2>6 DEF s, t
<1> DEFINE v == SumWide(o, F)
<1>8. v \in Vectors /\ Wide(v) = Conv(V, H)[T]
  <2> HIDE DEF R
  <2>1. SumWide(Len(T), F) \in Vectors /\ Wide(SumWide(Len(T), F)) = Conv(V, H)[T]
    BY <1>1, <1>3, <1>5, <1>7, WideSum
  <2> QED BY <1>3, <2>1
<1>9. Conv(V, H)[T] = G[T]
  <2>1. Conv(V, H) = Conv(Conv(V, W), G)
    BY <1>1, <1>4, ConvAssociates DEF H
  <2>2. Conv(V, W) \in Series(P) /\ One(P) \in Series(P) /\ Until(P, n, G, G)
    BY <1>1, ConvIs, ZeroIs DEF Until
  <2>3. Until(P, n, Conv(Conv(V, W), G), Conv(One(P), G))
    BY <1>1, <1>4, <2>2, ConvUntil
  <2>4. Conv(One(P), G) = G
    BY <1>4, ConvUnit
  <2>5. Len(T) <= n
    BY <1>1, <1>2, <1>3
  <2> QED BY <1>3, <2>1, <2>3, <2>4, <2>5 DEF Until
<1> HIDE DEF v
<1>10. v = fam.g[Sorted(T)]
  BY <1>4, <1>8, <1>9, WideIs
<1> QED BY <1>10 DEF v

(* The eigenbasis in hand is that of this call's information.              *)
Ready == Q = f.Q /\ r = f.root /\ \A k \in Index : f.root[k] # 0
(* Nothing has been returned yet.                                          *)
Unwritten == M = <<>> /\ S = <<>> /\ U = <<>>

(* The invariant: whenever a function is called, what those before it      *)
(* returned solves the equations at every order there is.                  *)
IInv ==
  /\ phase \in {"idle", "scale", "drive", "done", "stopped"} /\ order \in 0 .. MaxOrder
  /\ phase # "idle" => f \in Families
  /\ phase \in {"idle", "stopped"} => Unwritten
  /\ phase = "scale" => U = <<>> /\ (Unwritten \/ (Ready /\ \E n \in 0 .. order : Powers(f, n, M, S)))
  /\ phase \in {"drive", "done"} =>
       Ready /\ Powers(f, order, M, S) /\ (U = <<>> \/ \E o \in 0 .. order : Drives(f, o, S, U))

(* Nothing returned is a table of no order.                                *)
LEMMA NoDomain == DOMAIN <<>> = {} /\ MaxOrder \in 1 .. 5 /\ MaxOrder \in Nat
BY ScalingAssumption

(* An interval from zero has one end.                                      *)
LEMMA SameRange ==
  ASSUME NEW m \in Nat, NEW n \in Nat, 0 .. m = 0 .. n
  PROVE  m = n
<1>1. m \in 0 .. n /\ n \in 0 .. m
  <2>1. m \in 0 .. m /\ n \in 0 .. n
    OBVIOUS
  <2> QED BY <2>1
<1> QED BY <1>1

(* It holds at the start.                                                  *)
LEMMA InitHolds == Init => IInv
BY NoDomain DEF Init, IInv, Unwritten

(* jsc_s0_cpp() keeps the invariant.                                       *)
LEMMA StartHolds ==
  ASSUME IInv, JscS0
  PROVE  IInv'
<1> USE DEF JscS0
<1>1. phase = "scale" /\ f \in Families /\ order \in 0 .. MaxOrder /\ order' = order /\ f' = f /\ M' = M /\ U' = U
  BY DEF IInv
<1>2. Unwritten /\ U = <<>>
  <2>1. S = <<>>
    OBVIOUS
  <2>2. ASSUME NEW n \in 0 .. order, Powers(f, n, M, S) PROVE FALSE
    <3>1. DOMAIN S = 0 .. n /\ 0 \in 0 .. n
      BY <1>1, <2>2, NoDomain DEF Powers
    <3> QED BY <2>1, <3>1, NoDomain
  <2> QED BY <1>1, <2>2 DEF IInv
<1>3. CASE \E k \in Index : f.root[k] = 0
  <2>1. phase' = "stopped" /\ S' = S
    BY <1>3
  <2> QED BY <1>1, <1>2, <2>1 DEF IInv, Unwritten
<1>4. CASE \A k \in Index : f.root[k] # 0
  <2>1. phase' = phase /\ Q' = f.Q /\ r' = f.root
    BY <1>4
  <2>2. S' = [o \in {0} |-> [B \in MultisetsOver(f.P, 0) |-> ScaleZero(f.Q, f.root)]]
    BY <1>4 DEF Multisets, Tuples, MultisetsOver, ScaleZero
  <2>3. DOMAIN S' = {0} /\ S'[0] = [B \in MultisetsOver(f.P, 0) |-> ScaleZero(f.Q, f.root)]
    BY <2>2
  <2>4. DOMAIN M = 1 .. 0
    BY <1>2, NoDomain DEF Unwritten
  <2>5. Powers(f, 0, M, S')
    BY <1>1, <1>4, <2>3, <2>4, PowersZero
  <2>6. Powers(f', 0, M', S') /\ 0 \in 0 .. order' /\ Ready'
    BY <1>1, <1>4, <2>1, <2>5, NoDomain DEF Ready
  <2> QED BY <1>1, <1>2, <2>1, <2>6 DEF IInv
<1> QED BY <1>3, <1>4

(* The functions of the scaling keep it, whatever the order.               *)
LEMMA ScaleHolds ==
  ASSUME NEW m \in 1 .. 5, IInv, Scale(m)
  PROVE  IInv'
<1>1. /\ phase = "scale" /\ f \in Families /\ order \in 0 .. MaxOrder /\ order' = order /\ f' = f /\ U' = U
      /\ phase' = phase /\ Q' = Q /\ r' = r /\ DOMAIN S = 0 .. m - 1 /\ m <= order /\ U = <<>>
  BY DEF IInv, Scale, basis
<1>2. m \in 1 .. MaxOrder /\ m \in 0 .. order /\ m - 1 \in Nat /\ 0 \in 0 .. m - 1
  BY <1>1, NoDomain
<1>3. S # <<>>
  BY <1>1, <1>2, NoDomain
<1>4. PICK n \in 0 .. order : Powers(f, n, M, S) /\ Ready
  BY <1>1, <1>3 DEF IInv, Unwritten
<1>5. n = m - 1
  <2>1. DOMAIN S = 0 .. n /\ n \in Nat
    BY <1>1, <1>4, NoDomain DEF Powers
  <2> QED BY <1>1, <1>2, <2>1, SameRange
<1>6. Powers(f, m - 1, M, S)
  BY <1>4, <1>5
<1>7. DOMAIN M = 1 .. m - 1
  BY <1>6 DEF Powers
<1>8. Multisets(m) = MultisetsOver(f.P, m)
  BY DEF Multisets
<1>9. M' = [o \in 1 .. m |-> IF o < m THEN M[o] ELSE [B \in MultisetsOver(f.P, m) |-> RootStep(f, m, M, B)]]
  BY <1>8 DEF Scale, RootStep, Less
<1>10. S' = [o \in 0 .. m |->
               IF o < m THEN S[o]
               ELSE [B \in MultisetsOver(f.P, m) |-> NegLeft(S[0][<<>>], Leibniz(M', S, B, NonEmpty(m)))]]
  BY <1>8 DEF Scale
<1>11. Scales(f, m, M, S, M', S')
  <2>1. DOMAIN M' = 1 .. m /\ DOMAIN S' = 0 .. m
    BY <1>9, <1>10
  <2>2. \A o \in 1 .. m - 1 : o \in 1 .. m /\ o < m
    BY <1>2
  <2>3. \A o \in 0 .. m - 1 : o \in 0 .. m /\ o < m
    BY <1>2
  <2>4. m \in 1 .. m /\ m \in 0 .. m /\ ~(m < m)
    BY <1>2
  <2>5. \A o \in 1 .. m - 1 : M'[o] = M[o]
    BY <1>9, <2>2
  <2>6. \A o \in 0 .. m - 1 : S'[o] = S[o]
    BY <1>10, <2>3
  <2>7. M'[m] = [B \in MultisetsOver(f.P, m) |-> RootStep(f, m, M, B)]
    BY <1>9, <2>4
  <2>8. S'[m] = [B \in MultisetsOver(f.P, m) |-> NegLeft(S[0][<<>>], Leibniz(M', S, B, NonEmpty(m)))]
    BY <1>10, <2>4
  <2> QED BY <2>1, <2>5, <2>6, <2>7, <2>8 DEF Scales
<1>12. Powers(f, m, M', S')
  BY <1>1, <1>2, <1>4, <1>6, <1>11, PowersStep DEF Ready
<1>13. Powers(f', m, M', S') /\ Ready' /\ m \in 0 .. order'
  BY <1>1, <1>2, <1>4, <1>12 DEF Ready
<1> QED BY <1>1, <1>13 DEF IInv

(* jsc_u0_cpp() keeps it.                                                  *)
LEMMA DriveStartHolds ==
  ASSUME IInv, JscU0
  PROVE  IInv'
<1>1. /\ phase = "drive" /\ f \in Families /\ order \in 0 .. MaxOrder /\ order' = order /\ f' = f
      /\ phase' = phase /\ Q' = Q /\ r' = r /\ M' = M /\ S' = S
      /\ Ready /\ Powers(f, order, M, S)
  BY DEF IInv, JscU0, basis
<1> DEFINE v == Apply(S[0][<<>>], g[0][<<>>])
           P == f.P
<1>2. U' = [o \in {0} |-> [T \in TuplesOver(P, 0) |-> v]]
  BY DEF JscU0, Tuples
<1>3. g = GradTable(f, order)
  BY DEF g, GradTable, Multisets
<1>4. v \in Vectors /\ Wide(v) = Conv(ScaleTable(f, S), Grads(f))[<<>>]
  BY <1>1, <1>3, DriveZeroIs
<1>5. P \in Nat
  BY <1>1, FamilyIs
<1>6. \A T \in TuplesOver(P, 0) : T = <<>>
  <2> SUFFICES ASSUME NEW T \in TuplesOver(P, 0) PROVE T = <<>>
    OBVIOUS
  <2>1. T \in Words(P) /\ Len(T) = 0
    BY <1>5, MultisetsAre DEF Words
  <2> QED BY <2>1, EmptySeq DEF Words
<1> HIDE DEF v, P
<1>7. DOMAIN U' = 0 .. 0 /\ U'[0] = [T \in TuplesOver(P, 0) |-> v]
  BY <1>2
<1>8. Drives(f, 0, S, U')
  <2>1. U'[0] \in [TuplesOver(P, 0) -> Vectors]
    BY <1>4, <1>7
  <2>2. \A T \in TuplesOver(P, 0) : Wide(U'[0][T]) = Conv(ScaleTable(f, S), Grads(f))[T]
    BY <1>4, <1>6, <1>7
  <2>3. \A o \in 0 .. 0 : o = 0
    OBVIOUS
  <2> QED BY <1>7, <2>1, <2>2, <2>3 DEF Drives, P
<1>9. Drives(f', 0, S', U') /\ 0 \in 0 .. order' /\ Powers(f', order', M', S') /\ Ready'
  BY <1>1, <1>8, NoDomain DEF Ready
<1> QED BY <1>1, <1>9 DEF IInv

(* The functions of the driving vector keep it, whatever the order.        *)
LEMMA DriveHolds ==
  ASSUME NEW m \in 1 .. 5, IInv, Drive(m)
  PROVE  IInv'
<1>1. /\ phase = "drive" /\ f \in Families /\ order \in 0 .. MaxOrder /\ order' = order /\ f' = f
      /\ phase' = phase /\ Q' = Q /\ r' = r /\ M' = M /\ S' = S
      /\ DOMAIN U = 0 .. m - 1 /\ m <= order
      /\ Ready /\ Powers(f, order, M, S)
  BY DEF IInv, Drive, basis
<1>2. m \in 0 .. order /\ m - 1 \in Nat /\ 0 \in 0 .. m - 1
  BY <1>1, NoDomain
<1>3. U # <<>>
  BY <1>1, <1>2, NoDomain
<1>4. PICK o \in 0 .. order : Drives(f, o, S, U)
  BY <1>1, <1>3 DEF IInv
<1>5. o = m - 1
  <2>1. DOMAIN U = 0 .. o /\ o \in Nat
    BY <1>1, <1>4, NoDomain DEF Drives
  <2> QED BY <1>1, <1>2, <2>1, SameRange
<1> DEFINE P == f.P
           n == m - 1
           G == GradTable(f, order)
           H == Conv(ScaleTable(f, S), Grads(f))
           D(T) == LeibnizVector(S, G, Sorted(T), All(m))
<1>6. g = G /\ Multisets(m) = MultisetsOver(P, m) /\ Tuples(m) = TuplesOver(P, m)
  BY DEF g, GradTable, Multisets, Tuples
<1>7. \A T \in TuplesOver(P, m) : Sorted(T) \in MultisetsOver(P, m) /\ D(T) \in Vectors /\ Wide(D(T)) = H[T]
  BY <1>1, <1>2, DriveStepIs
<1>8. U' = [k \in 0 .. m |->
              IF k < m THEN U[k]
              ELSE [T \in TuplesOver(P, m) |->
                      [B \in MultisetsOver(P, m) |-> LeibnizVector(S, G, B, All(m))][Sorted(T)]]]
  BY <1>6 DEF Drive
<1>9. \A k \in 0 .. n : U[k] \in [TuplesOver(P, k) -> Vectors] /\ \A T \in TuplesOver(P, k) : Wide(U[k][T]) = H[T]
  BY <1>4, <1>5 DEF Drives
<1>10. \A T \in TuplesOver(P, m) : [B \in MultisetsOver(P, m) |-> LeibnizVector(S, G, B, All(m))][Sorted(T)] = D(T)
  BY <1>7
<1> HIDE DEF P, n, G, H, D
<1>11. DOMAIN U' = 0 .. m /\ m \in 0 .. m /\ ~(m < m)
  BY <1>2, <1>8
<1>12. U'[m] = [T \in TuplesOver(P, m) |-> D(T)]
  BY <1>8, <1>10, <1>11
<1>13. \A k \in 0 .. n : k \in 0 .. m /\ k < m
  BY <1>2 DEF n
<1>14. \A k \in 0 .. n : U'[k] = U[k]
  BY <1>8, <1>13
<1>15. \A k \in 0 .. m : k \in 0 .. n \/ k = m
  BY <1>2 DEF n
<1>16. ASSUME NEW k \in 0 .. m
       PROVE  U'[k] \in [TuplesOver(P, k) -> Vectors] /\ \A T \in TuplesOver(P, k) : Wide(U'[k][T]) = H[T]
  <2>1. CASE k \in 0 .. n
    BY <1>9, <1>14, <2>1
  <2>2. CASE k = m
    <3>1. U'[m] \in [TuplesOver(P, m) -> Vectors]
      BY <1>7, <1>12
    <3>2. \A T \in TuplesOver(P, m) : Wide(U'[m][T]) = H[T]
      BY <1>7, <1>12
    <3> QED BY <2>2, <3>1, <3>2
  <2> QED BY <1>15, <2>1, <2>2
<1>17. Drives(f, m, S, U')
  BY <1>11, <1>16 DEF Drives, P, H
<1>18. Drives(f', m, S', U') /\ m \in 0 .. order' /\ Powers(f', order', M', S') /\ Ready'
  BY <1>1, <1>2, <1>17 DEF Ready
<1> QED BY <1>1, <1>18 DEF IInv

(* So does passing from the one to the other.                              *)
LEMMA ScaledHolds ==
  ASSUME IInv, Scaled
  PROVE  IInv'
<1>1. /\ phase = "scale" /\ f \in Families /\ order \in 0 .. MaxOrder /\ DOMAIN S = 0 .. order
      /\ phase' = "drive" /\ order' = order /\ f' = f /\ Q' = Q /\ r' = r /\ M' = M /\ S' = S /\ U' = U
      /\ U = <<>>
  BY DEF IInv, Scaled, basis
<1>2. order \in Nat /\ 0 \in 0 .. order
  BY <1>1, NoDomain
<1>3. S # <<>>
  BY <1>1, <1>2, NoDomain
<1>4. PICK n \in 0 .. order : Powers(f, n, M, S) /\ Ready
  BY <1>1, <1>3 DEF IInv, Unwritten
<1>5. n = order
  <2>1. DOMAIN S = 0 .. n /\ n \in Nat
    BY <1>2, <1>4 DEF Powers
  <2> QED BY <1>1, <1>2, <2>1, SameRange
<1>6. Powers(f', order', M', S') /\ Ready'
  BY <1>1, <1>4, <1>5 DEF Ready
<1> QED BY <1>1, <1>6 DEF IInv

(* Every step keeps the invariant.                                         *)
LEMMA StepHolds ==
  ASSUME IInv, [Next]_vars
  PROVE  IInv'
<1>0. MaxOrder \in Nat /\ 1 \in 1 .. 5 /\ 2 \in 1 .. 5 /\ 3 \in 1 .. 5 /\ 4 \in 1 .. 5 /\ 5 \in 1 .. 5
  BY NoDomain
<1>1. CASE Call
  <2>1. f' \in Families /\ order' \in 0 .. MaxOrder /\ phase' = "scale" /\ phase = "idle"
    BY <1>0, <1>1 DEF Call
  <2>2. Unwritten' /\ U' = <<>>
    <3>1. M = <<>> /\ S = <<>> /\ U = <<>>
      BY <2>1 DEF IInv, Unwritten
    <3>2. M' = M /\ S' = S /\ U' = U
      BY <1>1 DEF Call
    <3> QED BY <3>1, <3>2 DEF Unwritten
  <2>3. Unwritten' /\ U' = <<>> /\ phase' \in {"idle", "scale", "drive", "done", "stopped"}
    BY <2>1, <2>2
  <2>4. phase' # "idle" /\ ~(phase' \in {"idle", "stopped"}) /\ ~(phase' \in {"drive", "done"})
    BY <2>1
  <2> QED BY <2>1, <2>3, <2>4 DEF IInv
<1>2. CASE JscS0
  BY <1>2, StartHolds
<1>3. CASE JscS1 \/ JscS2 \/ JscS3 \/ JscS4 \/ JscS5
  BY <1>0, <1>3, ScaleHolds DEF JscS1, JscS2, JscS3, JscS4, JscS5
<1>4. CASE Scaled
  BY <1>4, ScaledHolds
<1>5. CASE JscU0
  BY <1>5, DriveStartHolds
<1>6. CASE JscU1 \/ JscU2 \/ JscU3 \/ JscU4 \/ JscU5
  BY <1>0, <1>6, DriveHolds DEF JscU1, JscU2, JscU3, JscU4, JscU5
<1>7. CASE Driven
  <2>1. /\ phase = "drive" /\ phase' = "done" /\ f' = f /\ order' = order /\ Q' = Q /\ r' = r
        /\ M' = M /\ S' = S /\ U' = U
    BY <1>7 DEF Driven, basis
  <2>2. /\ f \in Families /\ order \in 0 .. MaxOrder /\ Ready /\ Powers(f, order, M, S)
        /\ (U = <<>> \/ \E o \in 0 .. order : Drives(f, o, S, U))
    BY <2>1 DEF IInv
  <2>3. Ready' /\ Powers(f', order', M', S') /\ (U' = <<>> \/ \E o \in 0 .. order' : Drives(f', o, S', U'))
    BY <2>1, <2>2 DEF Ready
  <2> QED BY <2>1, <2>2, <2>3 DEF IInv
<1>8. CASE Return
  <2>1. phase' = "idle" /\ order' = 0 /\ Unwritten'
    BY <1>8 DEF Return, Unwritten
  <2> QED BY <1>0, <2>1 DEF IInv
<1>9. CASE UNCHANGED vars
  <2>1. /\ phase' = phase /\ f' = f /\ order' = order /\ Q' = Q /\ r' = r /\ M' = M /\ S' = S /\ U' = U
    BY <1>9 DEF vars, basis
  <2> QED BY <2>1 DEF IInv, Unwritten, Ready
<1> QED BY <1>1, <1>2, <1>3, <1>4, <1>5, <1>6, <1>7, <1>8, <1>9 DEF Next

(* The invariant holds throughout.                                         *)
THEOREM Invariance == Spec => []IInv
<1>1. Init => IInv
  BY InitHolds
<1>2. IInv /\ [Next]_vars => IInv'
  BY StepHolds
<1> QED BY <1>1, <1>2, PTL DEF Spec

-----------------------------------------------------------------------------
(* From the invariant, the type.                                           *)
LEMMA InvTypes == IInv => TypeOK
<1> SUFFICES ASSUME IInv PROVE TypeOK
  OBVIOUS
<1>1. /\ phase \in {"idle", "scale", "drive", "done", "stopped"} /\ order \in 0 .. MaxOrder
      /\ phase # "idle" => f \in Families
  BY DEF IInv
<1>2. ASSUME Unwritten PROVE TypeOK
  BY <1>1, <1>2, NoDomain DEF Unwritten, TypeOK
<1>3. ASSUME NEW n \in 0 .. order, phase # "idle", Powers(f, n, M, S),
             U = <<>> \/ \E o \in 0 .. order : Drives(f, o, S, U)
      PROVE  TypeOK
  <2>1. /\ f.P \in Nat /\ DOMAIN M = 1 .. n /\ DOMAIN S = 0 .. n /\ Complete(f.P, M) /\ Complete(f.P, S) /\ n \in Nat
    BY <1>1, <1>3, FamilyIs, NoDomain DEF Powers
  <2>2. ASSUME NEW X, Complete(f.P, X), NEW o \in DOMAIN X, o \in Nat, NEW T \in Tuples(o)
        PROVE  Sorted(T) \in DOMAIN X[o] /\ IsMatrix(X[o][Sorted(T)])
    <3>1. T \in Words(f.P) /\ Len(T) = o
      BY <2>1, <2>2, MultisetsAre DEF Words, Tuples
    <3>2. Sorted(T) \in Words(f.P) /\ Len(Sorted(T)) = o /\ Ascends(Sorted(T))
      BY <3>1, WordOrders
    <3>3. Sorted(T) \in MultisetsOver(f.P, o)
      BY <2>1, <2>2, <3>2, MultisetsAre DEF Words
    <3> QED BY <2>2, <3>3, Zenon DEF Complete
  <2>3. \A o \in DOMAIN S : \A T \in Tuples(o) : Sorted(T) \in DOMAIN S[o] /\ IsMatrix(S[o][Sorted(T)])
    <3>1. \A o \in DOMAIN S : o \in Nat
      BY <2>1
    <3> QED BY <2>1, <2>2, <3>1
  <2>4. \A o \in DOMAIN M : \A T \in Tuples(o) : Sorted(T) \in DOMAIN M[o] /\ IsMatrix(M[o][Sorted(T)])
    <3>1. \A o \in DOMAIN M : o \in Nat
      BY <2>1
    <3> QED BY <2>1, <2>2, <3>1
  <2>5. \A o \in DOMAIN U : U[o] \in [Tuples(o) -> Vectors]
    BY <1>3, NoDomain DEF Drives, Tuples
  <2> QED BY <1>1, <2>3, <2>4, <2>5 DEF TypeOK
<1>4. CASE phase \in {"idle", "stopped"}
  BY <1>2, <1>4 DEF IInv
<1>5. CASE phase = "scale"
  BY <1>2, <1>3, <1>5 DEF IInv
<1>6. CASE phase \in {"drive", "done"}
  <2>1. order \in 0 .. order
    BY <1>1, NoDomain
  <2> QED BY <1>3, <1>6, <2>1 DEF IInv
<1> QED BY <1>1, <1>4, <1>5, <1>6

(* From the invariant, the scaling's equation, the factors in the other    *)
(* order.                                                                  *)
LEMMA InvScaling == IInv => ScalingIsThePower
<1> SUFFICES ASSUME IInv, phase = "scale", NEW o \in DOMAIN S, o + 1 \notin DOMAIN S, NEW B \in Multisets(o)
             PROVE  Leibniz(IF f.d = "one" THEN S ELSE Squared, Information, B, Masks(o))
                      = IF o = 0 THEN Identity ELSE Nought
  BY DEF ScalingIsThePower
<1>1. f \in Families /\ order \in 0 .. MaxOrder
  BY DEF IInv
<1>2. S # <<>>
  BY NoDomain
<1>3. PICK n \in 0 .. order : Powers(f, n, M, S)
  BY <1>2 DEF IInv, Unwritten
<1>4. n \in 0 .. MaxOrder /\ n \in Nat
  BY <1>1, <1>3, NoDomain
<1>5. o = n
  <2>1. o \in 0 .. n /\ o + 1 \notin 0 .. n
    BY <1>3 DEF Powers
  <2> QED BY <1>4, <2>1
<1>6. B \in MultisetsOver(f.P, n)
  BY <1>5 DEF Multisets
<1>7. Squared = SquareTable(f, S) /\ Information = InfoTable(f)
  BY DEF Squared, SquareTable, Information, InfoTable, Multisets
<1> QED BY <1>1, <1>3, <1>4, <1>5, <1>6, <1>7, ScalingSolves

(* From the invariant, the driving vector's equation.                      *)
LEMMA InvDrive == IInv => DriveIsTheDerivative
<1> SUFFICES ASSUME IInv, phase = "drive", NEW o \in DOMAIN U, o + 1 \notin DOMAIN U, NEW T \in Tuples(o)
             PROVE  [a \in Index |->
                       SumOver(o, [A \in Masks(o) |->
                          Apply(At(Rooted, Sub(T, A)), U[Len(Rest(T, A))][Rest(T, A)])[a]]) % Prime]
                      = f.g[Sorted(T)]
  BY DEF DriveIsTheDerivative
<1>1. f \in Families /\ order \in 0 .. MaxOrder /\ Ready /\ Powers(f, order, M, S)
  BY DEF IInv
<1>2. U # <<>>
  BY NoDomain
<1>3. PICK n \in 0 .. order : Drives(f, n, S, U)
  BY <1>2 DEF IInv
<1>4. o = n
  <2>1. o \in 0 .. n /\ o + 1 \notin 0 .. n /\ n \in Nat
    BY <1>1, <1>3, NoDomain DEF Drives
  <2> QED BY <2>1
<1>5. T \in TuplesOver(f.P, n)
  BY <1>4 DEF Tuples
<1>6. Root0 = Roots(f)
  BY <1>1 DEF Root0, Roots, InBasis, Ready
<1>7. Rooted = FullTable(f, order, M)
  BY <1>6 DEF Rooted, FullTable, Multisets
<1> DEFINE F == [A \in Masks(n) |-> Apply(At(Rooted, Sub(T, A)), U[Len(Rest(T, A))][Rest(T, A)])]
<1>8. \A A \in Masks(n) : F[A] = Apply(At(FullTable(f, order, M), Sub(T, A)), U[Len(Rest(T, A))][Rest(T, A)])
  BY <1>7
<1>9. \A a \in Index : [A \in Masks(n) |-> F[A][a]]
        = [A \in Masks(n) |-> Apply(At(Rooted, Sub(T, A)), U[Len(Rest(T, A))][Rest(T, A)])[a]]
  OBVIOUS
<1> HIDE DEF F
<1>10. SumWide(n, F) = f.g[Sorted(T)]
  BY <1>1, <1>3, <1>5, <1>8, DriveSolves
<1> QED BY <1>4, <1>9, <1>10 DEF SumWide

(* Every sub-multiset a function of a higher order looks up was returned   *)
(* by one of a lower order, at every order and for every family, and is a  *)
(* symmetric matrix (joint_scaling.cpp).                                   *)
THEOREM TypeCorrect == Spec => []TypeOK
BY Invariance, InvTypes, PTL

(* The functions return the derivatives of the power -d of the             *)
(* information, to every order up to five: S I = 1 for d = 1 and S S I = 1 *)
(* for d = 1/2, though the code solves I S = 1 and a Sylvester equation    *)
(* (joint_scaling.cpp, jsc_s0_cpp() to jsc_s5_cpp()).                      *)
THEOREM ScalingIsRight == Spec => []ScalingIsThePower
BY Invariance, InvScaling, PTL

(* The driving vector's derivatives, at every tuple of predictors in any   *)
(* order, are those of the u with I^d u = g (joint_scaling.cpp,            *)
(* jsc_u0_cpp() to jsc_u5_cpp()).                                          *)
THEOREM DriveIsRight == Spec => []DriveIsTheDerivative
BY Invariance, InvDrive, PTL
=============================================================================
