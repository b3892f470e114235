---------------------------- MODULE JointScaling ----------------------------
(***************************************************************************)
(* The driving vector u = S g of a joint score-driven filter, S = I^-d the *)
(* scaling by a power of the expected information, and its derivatives in  *)
(* the predictors up to order five (joint_scaling.cpp and                  *)
(* R/joint_scaling.R): one compiled function per order and per object,     *)
(* each fed with what the functions of the lower orders returned, and each *)
(* with its Leibniz terms written out by hand.                             *)
(*                                                                         *)
(* Doubles are the elements of a prime field, where the rational identities*)
(* of the derivatives hold exactly; one observation is modelled, since no  *)
(* observation reads another.  A bit mask is the set of positions it holds.*)
(***************************************************************************)
EXTENDS Sums, Sequences

CONSTANTS
  Prime,      \* the field
  K,          \* how many parameters are filtered
  Families,   \* what the family gives at the fitted predictors: see IsFamily
  MaxOrder,   \* 5 in the code
  NoFamily

VARIABLES phase,   \* "idle", "scale", "drive", "done" or "stopped"
          f,       \* the family's derivatives at this call
          order,   \* the highest order asked for
          Q, r,    \* the eigenbasis jsc_s0_cpp() returned, r_k its roots
          M, S,    \* by order, a matrix for each multiset of predictors
          U        \* by order, a vector for each tuple of predictors

basis == <<Q, r>>
vars  == <<phase, f, order, basis, M, S, U>>

Field == 0 .. Prime - 1
Inv(a) == CHOOSE b \in Field : (a * b) % Prime = 1 % Prime
Index == 1 .. K
Cells == Index \X Index
Matrices == [Cells -> Field]
Vectors == [Index -> Field]

Times(X, Y) ==
  [x \in Cells |-> Total(K, [k \in Index |-> X[<<x[1], k>>] * Y[<<k, x[2]>>]]) % Prime]
Apply(X, y) == [a \in Index |-> Total(K, [k \in Index |-> X[<<a, k>>] * y[k]]) % Prime]
Transpose(X) == [x \in Cells |-> X[<<x[2], x[1]>>]]
Diagonal(y) == [x \in Cells |-> IF x[1] = x[2] THEN y[x[1]] ELSE 0]
Identity == Diagonal([k \in Index |-> 1 % Prime])
Nought == [x \in Cells |-> 0]

-----------------------------------------------------------------------------
(* joint_scale_tables(): the multisets of size k as sorted tuples over p   *)
(* predictors; sort(), an entry at a time.                                 *)
TuplesOver(p, k) == [1 .. k -> 1 .. p]
MultisetsOver(p, k) == {B \in TuplesOver(p, k) : \A j \in 2 .. k : B[j - 1] <= B[j]}
Tuples(k) == TuplesOver(f.P, k)

(* Mutant: the sorted tuples are the strictly increasing ones.             *)
Multisets_strict(k) == {B \in Tuples(k) : \A j \in 2 .. k : B[j - 1] < B[j]}

Multisets(k) == MultisetsOver(f.P, k)

Insert(s, b) ==
  LET upto[k \in 0 .. Len(s)] ==
        IF k = 0 THEN <<b>>
        ELSE IF s[k] <= b THEN Append(SubSeq(s, 1, k), b)
        ELSE Append(upto[k - 1], s[k])
  IN  upto[Len(s)]
Sorted(T) ==
  LET upto[k \in 0 .. Len(T)] == IF k = 0 THEN <<>> ELSE Insert(upto[k - 1], T[k])
  IN  upto[Len(T)]

(* The sub-tuple at the positions of a mask, and the component of its order*)
(* at its multiset.                                                        *)
Sub(B, A) ==
  LET upto[k \in 0 .. Len(B)] ==
        IF k = 0 THEN <<>> ELSE IF k \in A THEN Append(upto[k - 1], B[k]) ELSE upto[k - 1]
  IN  upto[Len(B)]
Rest(B, A) == Sub(B, 1 .. Len(B) \ A)
At(X, T) == X[Len(T)][Sorted(T)]

-----------------------------------------------------------------------------
(* The sum of F over the masks of order m, from the last position down.    *)
Masks(m) == SUBSET (1 .. m)
SumOver(m, F) ==
  LET upto[j \in 0 .. m] ==
        [A \in Masks(m) |-> IF j = 0 THEN F[A] ELSE upto[j - 1][A] + upto[j - 1][A \union {j}]]
  IN  upto[m][{}]

(* mm_add() and mm_sub() over the masks a function lists: the products of  *)
(* the components of A and of its complement.                              *)
Leibniz(X, Y, B, masks) ==
  [x \in Cells |->
     SumOver(Len(B), [A \in Masks(Len(B)) |->
                        IF A \in masks THEN Times(At(X, Sub(B, A)), At(Y, Rest(B, A)))[x]
                        ELSE 0]) % Prime]

(* mv_add() over the masks a function lists.                               *)
LeibnizVector(X, y, B, masks) ==
  [a \in Index |->
     SumOver(Len(B), [A \in Masks(Len(B)) |->
                        IF A \in masks THEN Apply(At(X, Rest(B, A)), At(y, Sub(B, A)))[a]
                        ELSE 0]) % Prime]

(* Mutant: order three has one term less.                                  *)
NonEmpty_oneMissing(m) == Masks(m) \ (IF m = 3 THEN {{}, {1, 3}} ELSE {{}})

(* The terms written out for order m: all that are not empty, all that are *)
(* neither empty nor full, and all.                                        *)
NonEmpty(m) == Masks(m) \ {{}}
Proper(m) == Masks(m) \ {{}, 1 .. m}

(* Mutant: order four has one term less.                                   *)
All_oneMissing(m) == Masks(m) \ (IF m = 4 THEN {{4}} ELSE {})

All(m) == Masks(m)

NegLeft(S0, acc) == [x \in Cells |-> (Prime - Times(S0, acc)[x]) % Prime]

(* sylvester(): the X with X0 X + X X0 = R, in the eigenbasis of X0.       *)
Sylvester(R) ==
  LET T1 == Times(Times(Transpose(Q), R), Q)
      T2 == [x \in Cells |-> (T1[x] * Inv((r[x[1]] + r[x[2]]) % Prime)) % Prime]
  IN  Times(Times(Q, T2), Transpose(Q))

-----------------------------------------------------------------------------
(* A family: the power, its predictors, the orthogonal eigenbasis of its   *)
(* information with the roots I^d has there, and the derivatives of the    *)
(* information and of the gradient, one for each multiset.  Eigenvalues    *)
(* that are all positive have roots no two of which add up to zero.        *)
IsFamily(fam) ==
  /\ fam.d \in {"half", "one"} /\ fam.P \in Nat \ {0}
  /\ fam.Q \in Matrices /\ fam.root \in Vectors
  /\ Times(fam.Q, Transpose(fam.Q)) = Identity
  /\ Times(Transpose(fam.Q), fam.Q) = Identity
  /\ (\A k \in Index : fam.root[k] # 0) =>
       \A a, c \in Index : (fam.root[a] + fam.root[c]) % Prime # 0
  /\ \A k \in 0 .. MaxOrder : \A B \in MultisetsOver(fam.P, k) :
       /\ fam.I[B] \in Matrices /\ fam.I[B] = Transpose(fam.I[B])
       /\ fam.g[B] \in Vectors
  /\ LET power == [k \in Index |-> IF fam.d = "one" THEN fam.root[k]
                                   ELSE (fam.root[k] * fam.root[k]) % Prime]
     IN  fam.I[<<>>] = Times(Times(fam.Q, Diagonal(power)), Transpose(fam.Q))

ASSUME ScalingAssumption ==
  /\ {Prime, K} \subseteq Nat \ {0} /\ MaxOrder \in 1 .. 5
  /\ \A a \in Field \ {0} : \E b \in Field : (a * b) % Prime = 1 % Prime
  /\ \A fam \in Families : IsFamily(fam)

Init ==
  /\ phase = "idle" /\ f = NoFamily /\ order = 0
  /\ Q = <<>> /\ r = <<>> /\ M = <<>> /\ S = <<>> /\ U = <<>>

Call ==
  /\ phase = "idle"
  /\ f' \in Families /\ order' \in 1 .. MaxOrder
  /\ phase' = "scale"
  /\ UNCHANGED <<basis, M, S, U>>

(* dsyev's eigenbasis and I^-d in it; an eigenvalue that is not positive,  *)
(* zero here, stops the call.                                              *)
JscS0 ==
  /\ phase = "scale" /\ S = <<>>
  /\ Q' = f.Q /\ r' = f.root
  /\ IF \E k \in Index : f.root[k] = 0
     THEN phase' = "stopped" /\ UNCHANGED S
     ELSE /\ S' = [o \in {0} |-> [B \in Multisets(0) |->
                     [x \in Cells |->
                        Total(K, [k \in Index |-> f.Q[<<x[1], k>>] * f.Q[<<x[2], k>>] * Inv(f.root[k])])
                          % Prime]]]
          /\ UNCHANGED phase
  /\ UNCHANGED <<f, order, M, U>>

(* M and S of order m for every multiset, from the orders below.           *)
Scale(m) ==
  /\ phase = "scale" /\ DOMAIN S = 0 .. m - 1 /\ m <= order
  /\ LET Root(B) == LET p == Leibniz(M, M, B, Proper(m))
                    IN  Sylvester([x \in Cells |-> (f.I[B][x] + Prime - p[x]) % Prime])
     IN  M' = [o \in 1 .. m |->
                 IF o < m THEN M[o]
                 ELSE [B \in Multisets(m) |-> IF f.d = "one" THEN f.I[B] ELSE Root(B)]]
  /\ S' = [o \in 0 .. m |->
             IF o < m THEN S[o]
             ELSE [B \in Multisets(m) |->
                     NegLeft(S[0][<<>>], Leibniz(M', S, B, NonEmpty(m)))]]
  /\ UNCHANGED <<phase, f, order, basis, U>>

JscS1 == Scale(1)
JscS2 == Scale(2)
JscS3 == Scale(3)
JscS4 == Scale(4)
JscS5 == Scale(5)

Scaled ==
  /\ phase = "scale" /\ DOMAIN S = 0 .. order
  /\ phase' = "drive"
  /\ UNCHANGED <<f, order, basis, M, S, U>>

(* The family's derivatives by order: order 1 + k at a multiset of size k. *)
g == [k \in 0 .. order |-> [B \in Multisets(k) |-> f.g[B]]]

JscU0 ==
  /\ phase = "drive" /\ U = <<>>
  /\ U' = [o \in {0} |-> [T \in Tuples(0) |-> Apply(S[0][<<>>], g[0][<<>>])]]
  /\ UNCHANGED <<phase, f, order, basis, M, S>>

(* U of order r for every multiset, copied to the permutations of each.    *)
Drive(m) ==
  /\ phase = "drive" /\ DOMAIN U = 0 .. m - 1 /\ m <= order
  /\ LET Uc == [B \in Multisets(m) |-> LeibnizVector(S, g, B, All(m))]
     IN  U' = [o \in 0 .. m |->
                 IF o < m THEN U[o] ELSE [T \in Tuples(m) |-> Uc[Sorted(T)]]]
  /\ UNCHANGED <<phase, f, order, basis, M, S>>

JscU1 == Drive(1)
JscU2 == Drive(2)
JscU3 == Drive(3)
JscU4 == Drive(4)
JscU5 == Drive(5)

Driven ==
  /\ phase = "drive" /\ DOMAIN U = 0 .. order
  /\ phase' = "done"
  /\ UNCHANGED <<f, order, basis, M, S, U>>

Return ==
  /\ phase \in {"done", "stopped"}
  /\ phase' = "idle" /\ f' = NoFamily /\ order' = 0
  /\ Q' = <<>> /\ r' = <<>> /\ M' = <<>> /\ S' = <<>> /\ U' = <<>>

Next ==
  \/ Call \/ JscS0 \/ JscS1 \/ JscS2 \/ JscS3 \/ JscS4 \/ JscS5 \/ Scaled
  \/ JscU0 \/ JscU1 \/ JscU2 \/ JscU3 \/ JscU4 \/ JscU5 \/ Driven \/ Return

Spec == Init /\ [][Next]_vars

-----------------------------------------------------------------------------
IsMatrix(X) == X \in Matrices /\ X = Transpose(X)

(* Every sub-multiset a later function looks up is there, and what is      *)
(* there is a symmetric matrix.                                            *)
TypeOK ==
  /\ phase \in {"idle", "scale", "drive", "done", "stopped"}
  /\ order \in 0 .. MaxOrder
  /\ phase # "idle" => f \in Families
  /\ \A o \in DOMAIN S : \A T \in Tuples(o) :
       Sorted(T) \in DOMAIN S[o] /\ IsMatrix(S[o][Sorted(T)])
  /\ \A o \in DOMAIN M : \A T \in Tuples(o) :
       Sorted(T) \in DOMAIN M[o] /\ IsMatrix(M[o][Sorted(T)])
  /\ \A o \in DOMAIN U : U[o] \in [Tuples(o) -> Vectors]

(* The information and its derivatives, and the square of S with its own,  *)
(* by the product rule over the positions of each multiset.                *)
Information == [o \in 0 .. MaxOrder |-> [B \in Multisets(o) |-> f.I[B]]]
Squared ==
  [o \in DOMAIN S |-> [B \in Multisets(o) |-> Leibniz(S, S, B, Masks(o))]]

(* What the functions return in turn are the derivatives of one function   *)
(* of the information, its power -d: S I = 1 for d = 1 and S S I = 1 for   *)
(* d = 1/2, at order zero and in every derivative, though the code solves  *)
(* I S = 1, and for d = 1/2 a Sylvester equation for the root              *)
(* (joint_scaling.cpp).                                                    *)
ScalingIsThePower ==
  phase = "scale" =>
    \A o \in DOMAIN S : (o + 1 \notin DOMAIN S) =>
      \A B \in Multisets(o) :
        Leibniz(IF f.d = "one" THEN S ELSE Squared, Information, B, Masks(o))
          = IF o = 0 THEN Identity ELSE Nought

Root0 == Times(Times(Q, Diagonal(r)), Transpose(Q))
Rooted == [o \in 0 .. order |-> IF o = 0 THEN [B \in Multisets(0) |-> Root0] ELSE M[o]]

(* The driving vector's derivatives, at every tuple of predictors in any   *)
(* order, are those of the vector u with I^d u = g: what the two families  *)
(* of functions compute fits together, order by order (joint_scaling.cpp,  *)
(* R/joint_scaling.R).                                                     *)
DriveIsTheDerivative ==
  phase = "drive" =>
    \A o \in DOMAIN U : (o + 1 \notin DOMAIN U) =>
      \A T \in Tuples(o) :
        LET product(A) == Apply(At(Rooted, Sub(T, A)), U[Len(Rest(T, A))][Rest(T, A)])
        IN  [a \in Index |-> SumOver(o, [A \in Masks(o) |-> product(A)[a]]) % Prime]
              = f.g[Sorted(T)]
=============================================================================
