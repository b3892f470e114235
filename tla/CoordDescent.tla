---------------------------- MODULE CoordDescent ----------------------------
(***************************************************************************)
(* The coordinate descent of a block under a kinked penalty: the compiled  *)
(* kernel (coord_descent.cpp), which sweeps the columns the strong rule    *)
(* kept and afterwards only the ones that left zero, and the loop around   *)
(* it (R/coord.R), which brings back what the rule should not have left    *)
(* out, rereads the working problem at the new coefficients, and stops.    *)
(*                                                                         *)
(* Doubles are integers: designs, weights and responses are chosen with    *)
(* integral weighted means, so every sum is exact, and a new coefficient   *)
(* is rounded to the nearest integer, which is the rounding of the model.  *)
(* A coordinate's map is read at t = v u rather than at u, v its curvature.*)
(***************************************************************************)
EXTENDS Sums, Sequences, FiniteSets, Functions

CONSTANTS
  Problems,    \* the blocks: see IsProblem for the fields
  Starts,      \* the coefficients a fit starts from
  MaxSweeps,   \* `maxit' of the kernel
  MaxTrips,    \* `maxit' of coord_fit()
  Tol,         \* `tol'
  CovWidth, CovRatio,   \* 32 and 8 in coord_covariance()
  Gamma,       \* the concavity of an MCP
  Halvings,    \* one over the lengths a step may be accepted at
  None

Weighted(ww, u) == Total(Len(ww), [i \in 1 .. Len(ww) |-> ww[i] * u[i]])
Weight(ww) == Total(Len(ww), ww)

(* A block: its columns and their rows' weights, the storage, whether it   *)
(* is centered, the penalty with its kinks, those of the path's last       *)
(* point, and the responses it may meet, one for a gaussian mean.          *)
IsProblem(q) ==
  /\ q.w \in Seq(Nat) /\ q.X \in Seq(Seq(Int)) /\ q.X # <<>>
  /\ q.responses \subseteq Seq(Int)
  /\ \A u \in Range(q.X) \union q.responses : Len(u) = Len(q.w)
  /\ {q.sparse, q.center} \subseteq BOOLEAN /\ q.penalty \in {"lasso", "mcp"}
  /\ q.kink \in [DOMAIN q.X -> Nat]
  /\ q.prevKink # None => /\ q.prevKink \in [DOMAIN q.X -> Nat]
                          /\ \A j \in DOMAIN q.X : q.kink[j] > 0
  /\ q.center =>
       /\ Weight(q.w) > 0
       /\ \A u \in Range(q.X) \union q.responses :
            Weight(q.w) * (Weighted(q.w, u) \div Weight(q.w)) = Weighted(q.w, u)

ASSUME CoordAssumption ==
  /\ {MaxTrips, CovWidth, CovRatio} \subseteq Nat
  /\ {MaxSweeps, Tol} \subseteq Nat \ {0} /\ Halvings \subseteq Nat \ {0}
  /\ Gamma \in Nat \ {0, 1}
  /\ \A q \in Problems : IsProblem(q)
  /\ Starts \subseteq Seq(Int)
  /\ None \notin Seq(Int)

VARIABLES
  phase,       \* "idle", "read", "call", "sweep", "swept", "checked" or "over"
  prob, trip, cur, inter, z, prev,            \* coord_fit()
  keep,                                       \* its kept columns, ascending
  tab, v, beta, g, gram, r, c,                \* the kernel's table and numbers
  active, full, sweep, pos, delta, met,       \* its sweeps
  verdict      \* what coord_fit() returned: "unmoved", "small", "stuck", "budget"

problem == <<prob, trip, cur, inter, z, prev>>
numbers == <<tab, v, beta, g, gram, r, c>>
sweeps  == <<active, full, sweep, pos, delta, met>>
vars    == <<phase, problem, keep, numbers, sweeps, verdict>>

Abs(x) == IF x < 0 THEN -x ELSE x
P == Len(prob.X)
N == Len(prob.w)
Cols == 1 .. P
Rows == 1 .. N
x(i, j) == prob.X[j][i]
w(i) == prob.w[i]

(* What a walk over a column visits in either storage, and a sum along it. *)
Walk(j) == IF prob.sparse THEN {i \in Rows : x(i, j) # 0} ELSE Rows
Along(j, u) == Total(N, [i \in Rows |-> IF i \in Walk(j) THEN w(i) * x(i, j) * u[i] ELSE 0])

W == Weight(prob.w)
Mean(u) == Weighted(prob.w, u) \div W
mu(j) == IF prob.center THEN Along(j, [i \in Rows |-> 1]) \div W ELSE 0
zbar == IF prob.center THEN Mean(z) ELSE 0

(* X b, and the part of it the centering takes.                            *)
Fitted(b) == [i \in Rows |-> Total(P, [j \in Cols |-> x(i, j) * b[j]])]
FittedMean(b) == Total(P, [j \in Cols |-> mu(j) * b[j]])

(* v_j; zero for a constant column once centered, which no sweep visits.   *)
Curvature(j) ==
  IF ~ prob.center THEN Along(j, prob.X[j])
  ELSE LET stored == {i \in Walk(j) : x(i, j) # 0}
           part(i) == w(i) * (x(i, j) - mu(j)) * (x(i, j) - mu(j))
       IN  Total(N, [i \in Rows |-> IF i \in stored THEN part(i) ELSE 0])
             + mu(j) * mu(j) * (W - Total(N, [i \in Rows |-> IF i \in stored THEN w(i) ELSE 0]))

m == Len(keep)
covariance == m <= CovWidth /\ N > CovRatio * m
Swept(a) == keep[a]

-----------------------------------------------------------------------------
(* The table of a kept coordinate: pieces of slope num / den and intercept *)
(* icept / den up to a cut, the last one without end.                      *)
Piece(cut, num, icept, den) == [cut |-> cut, num |-> num, icept |-> icept, den |-> den]

(* The map of one coordinate of a penalty with kink s.                     *)
PenaltyMap(s, vj) ==
  IF prob.penalty = "lasso"
  THEN <<Piece(s, 0, 0, 1), Piece(s, 1, -s, vj)>>
  ELSE <<Piece(s, 0, 0, 1), Piece(Gamma * s, Gamma, -Gamma * s, (Gamma - 1) * vj),
         Piece(Gamma * s, 1, 0, vj)>>

(* Mutant: row a is that of column a, not of the a-th kept column.         *)
Table_rowOfColumn(a, vj) == PenaltyMap(prob.kink[a], vj)

(* The penalty is restricted to the kept columns before its table is built.*)
Table(a, vj) == PenaltyMap(prob.kink[Swept(a)], vj)

(* apply_table(): the first piece whose cut is not below |t|.              *)
ApplyTable(t, row) ==
  LET k   == IF \E q \in DOMAIN row : Abs(t) <= row[q].cut
             THEN CHOOSE q \in DOMAIN row :
                    Abs(t) <= row[q].cut /\ \A o \in 1 .. q - 1 : Abs(t) > row[o].cut
             ELSE Len(row)
      val == row[k].num * Abs(t) + row[k].icept
      b   == (2 * val + row[k].den) \div (2 * row[k].den)
  IN  IF t < 0 THEN -b ELSE b

-----------------------------------------------------------------------------
(* The gradient of the weighted quadratic, over every column, from scratch.*)
Gradient(b, j) ==
  Along(j, [i \in Rows |-> (z[i] - Fitted(b)[i]) - (zbar - FittedMean(b))])

(* X'WX between kept columns, the column of the a-th of them: it is        *)
(* scattered and each of the others is walked against it.                  *)
GramColumn(a) ==
  [b \in 1 .. m |-> Along(Swept(b), [i \in Rows |-> IF i \in Walk(Swept(a)) THEN x(i, Swept(a)) ELSE 0])
                      - W * mu(Swept(a)) * mu(Swept(b))]

Ascending(S) == CHOOSE q \in [1 .. Cardinality(S) -> S] :
                  Range(q) = S /\ \A h, k \in DOMAIN q : h < k => q[h] < q[k]
Largest(G) == CHOOSE j \in Cols : \A k \in Cols : G[k] < G[j] \/ (G[k] = G[j] /\ j <= k)

(* How steep the quadratic is in every column, for the rule.               *)
Steepness(b, zz) ==
  LET res  == [i \in Rows |-> zz[i] - Fitted(b)[i]]
      mean == IF prob.center THEN Mean(res) ELSE 0
  IN  [j \in Cols |-> Abs(Total(N, [i \in Rows |-> w(i) * x(i, j) * (res[i] - mean)]))]

(* Mutant: the rule does not keep a coordinate that is away from zero.     *)
Screen_gradientOnly(b, zz) ==
  IF prob.prevKink = None THEN Ascending(Cols)
  ELSE LET G    == Steepness(b, zz)
           kept == {j \in Cols : G[j] >= 2 * prob.kink[j] - prob.prevKink[j]}
       IN  Ascending(IF kept = {} THEN {Largest(G)} ELSE kept)

(* coord_screen(): the sequential strong rule.                             *)
Screen(b, zz) ==
  IF prob.prevKink = None THEN Ascending(Cols)
  ELSE LET G    == Steepness(b, zz)
           kept == {j \in Cols : G[j] >= 2 * prob.kink[j] - prob.prevKink[j] \/ b[j] # 0}
       IN  Ascending(IF kept = {} THEN {Largest(G)} ELSE kept)

-----------------------------------------------------------------------------
Init ==
  /\ phase = "idle" /\ prob = None /\ trip = 0 /\ cur = <<>> /\ inter = 0 /\ z = <<>>
  /\ prev = None /\ keep = <<>> /\ verdict = None
  /\ tab = <<>> /\ v = <<>> /\ beta = <<>> /\ g = <<>> /\ gram = <<>> /\ r = <<>> /\ c = 0
  /\ active = <<>> /\ full = TRUE /\ sweep = 0 /\ pos = 0 /\ delta = 0 /\ met = TRUE

(* coord_fit() is called for one block at the fit's coefficients.          *)
Pose ==
  /\ phase = "idle"
  /\ prob' \in Problems
  /\ cur' \in {b \in Starts : DOMAIN b = DOMAIN prob'.X}
  /\ phase' = "read" /\ trip' = 0 /\ inter' = 0 /\ prev' = None /\ verdict' = None
  /\ UNCHANGED <<z, keep, numbers, sweeps>>

Leave(why) == phase' = "over" /\ verdict' = why

Budget ==
  /\ phase = "read" /\ trip = MaxTrips
  /\ Leave("budget")
  /\ UNCHANGED <<problem, keep, numbers, sweeps>>

Still == Cardinality(prob.responses) = 1
Centered(u) == [i \in Rows |-> IF prob.center THEN u[i] - Mean(u) ELSE u[i]]

(* The working response at the current coefficients, net of the intercept: *)
(* a gaussian mean has one, y, whatever the coefficients, and any other    *)
(* problem moves with them.  Where it did not move the loop ends, and else *)
(* the rule is applied.                                                    *)
Read ==
  /\ phase = "read" /\ trip < MaxTrips
  /\ trip' = trip + 1
  /\ \E y \in prob.responses : z' = [i \in Rows |-> y[i] - inter]
  /\ LET zc == Centered(z')
     IN  /\ Still \/ prev # zc
         /\ IF prev = zc THEN Leave("unmoved") /\ UNCHANGED <<prev, keep>>
            ELSE /\ prev' = zc /\ keep' = Screen(cur, z')
                 /\ phase' = "call" /\ UNCHANGED verdict
  /\ UNCHANGED <<prob, cur, inter, numbers, sweeps>>

(* The kernel before its sweeps: the centered residual's scalar, and the   *)
(* gradients with the Gram columns of what is not zero, or the residual.   *)
Start ==
  /\ phase = "call"
  /\ v' = [a \in 1 .. m |-> Curvature(Swept(a))]
  /\ tab' = [a \in 1 .. m |-> Table(a, v'[a])]
  /\ beta' = cur
  /\ c' = zbar - FittedMean(cur)
  /\ IF covariance
     THEN /\ gram' = [a \in 1 .. m |-> IF cur[Swept(a)] # 0 THEN GramColumn(a) ELSE <<>>]
          /\ g' = [a \in 1 .. m |->
                     Along(Swept(a), [i \in Rows |-> z[i] - zbar])
                       - Total(m, [b \in 1 .. m |-> IF cur[Swept(b)] # 0
                                                 THEN gram'[b][a] * cur[Swept(b)] ELSE 0])]
          /\ r' = <<>>
     ELSE /\ r' = [i \in Rows |->
                     z[i] - Total(P, [j \in Cols |-> IF i \in Walk(j) THEN x(i, j) * cur[j] ELSE 0])]
          /\ gram' = <<>> /\ g' = <<>>
  /\ full' = TRUE /\ active' = <<>> /\ sweep' = 1 /\ pos' = 1 /\ delta' = 0 /\ met' = FALSE
  /\ phase' = "sweep"
  /\ UNCHANGED <<problem, keep, verdict>>

QEnd == IF full THEN m ELSE Len(active)
Visited == IF full THEN pos ELSE active[pos]

Move(a, d) ==
  LET j == Swept(a)
      column == IF gram[a] = <<>> THEN GramColumn(a) ELSE gram[a]
  IN  /\ IF covariance
         THEN /\ gram' = [gram EXCEPT ![a] = column]
              /\ g' = [b \in 1 .. m |-> g[b] - column[b] * d]
              /\ UNCHANGED r
         ELSE /\ r' = [i \in Rows |-> IF i \in Walk(j) THEN r[i] - x(i, j) * d ELSE r[i]]
              /\ UNCHANGED <<g, gram>>
      /\ c' = c - mu(j) * d
      /\ beta' = [beta EXCEPT ![j] = @ + d]
      /\ delta' = IF Abs(d) > delta THEN Abs(d) ELSE delta
      /\ UNCHANGED <<tab, v>>

(* One coordinate of a sweep.                                              *)
Visit ==
  /\ phase = "sweep" /\ pos <= QEnd
  /\ LET a  == Visited
         j  == Swept(a)
         gj == IF covariance THEN g[a]
               ELSE Along(j, [i \in Rows |-> r[i] - c])
         d  == ApplyTable(v[a] * beta[j] + gj, tab[a]) - beta[j]
     IN  IF v[a] > 0 /\ d # 0 THEN Move(a, d) ELSE UNCHANGED <<numbers, delta>>
  /\ pos' = pos + 1
  /\ UNCHANGED <<phase, problem, keep, active, full, sweep, met, verdict>>

(* Mutant: the active set holds columns and not their positions.           *)
NonZero_columns == Ascending({j \in Range(keep) : beta[j] # 0})

NonZero == Ascending({a \in 1 .. m : beta[Swept(a)] # 0})

(* The end of a sweep: a full one rebuilds the active set, and only a full *)
(* one that moved nothing by tol ends the kernel before its budget.        *)
EndSweep ==
  /\ phase = "sweep" /\ pos > QEnd
  /\ active' = IF full THEN NonZero ELSE active
  /\ full' = IF delta < Tol THEN TRUE ELSE active' = <<>>
  /\ met' = (delta < Tol /\ full)
  /\ IF met' \/ sweep = MaxSweeps THEN phase' = "swept" /\ UNCHANGED <<sweep, pos, delta>>
     ELSE phase' = "sweep" /\ sweep' = sweep + 1 /\ pos' = 1 /\ delta' = 0
  /\ UNCHANGED <<problem, keep, numbers, verdict>>

(* Mutant: what comes back replaces what was kept.                         *)
Recheck_replace ==
  /\ phase = "swept"
  /\ LET kept == Range(keep)
         back == {j \in Cols \ kept : Abs(Gradient(beta, j)) > prob.kink[j]}
     IN  IF back = {} THEN phase' = "checked" /\ UNCHANGED keep
         ELSE phase' = "call" /\ keep' = Ascending(back)
  /\ UNCHANGED <<problem, numbers, sweeps, verdict>>

(* The kernel's last gradient is compared with the kinks of the columns    *)
(* left out; those above theirs come back and the kernel is called again.  *)
Recheck ==
  /\ phase = "swept"
  /\ LET kept == Range(keep)
         back == {j \in Cols \ kept : Abs(Gradient(beta, j)) > prob.kink[j]}
     IN  IF back = {} THEN phase' = "checked" /\ UNCHANGED keep
         ELSE phase' = "call" /\ keep' = Ascending(kept \union back)
  /\ UNCHANGED <<problem, numbers, sweeps, verdict>>

Moved(b) == \E j \in Cols : Abs(b[j] - cur[j]) >= Tol
Toward(from, to, h) ==
  IF to < from THEN from - ((from - to) \div h) ELSE from + ((to - from) \div h)
Whole == Still \/ prob.penalty = "mcp"

(* The step to the block's solution and the intercept that goes with it,   *)
(* halved until the objective falls.  Where the working problem is the     *)
(* model itself the whole step falls, and a penalty whose curvature is     *)
(* damped takes it whole.                                                  *)
Step ==
  /\ phase = "checked"
  /\ \E h \in IF Whole THEN {1} ELSE Halvings :
       /\ cur' = [j \in Cols |-> Toward(cur[j], beta[j], h)]
       /\ inter' = Toward(inter, inter + zbar - FittedMean(beta), h)
       /\ IF Moved(cur') THEN phase' = "read" /\ UNCHANGED verdict ELSE Leave("small")
  /\ UNCHANGED <<prob, trip, z, prev, keep, numbers, sweeps>>

(* No length of the step lowers the objective.                             *)
Stuck ==
  /\ phase = "checked" /\ ~ Whole
  /\ Leave("stuck")
  /\ UNCHANGED <<problem, keep, numbers, sweeps>>

Return ==
  /\ phase = "over" /\ phase' = "idle"
  /\ prob' = None /\ trip' = 0 /\ cur' = <<>> /\ inter' = 0 /\ z' = <<>> /\ prev' = None
  /\ keep' = <<>> /\ verdict' = None
  /\ tab' = <<>> /\ v' = <<>> /\ beta' = <<>> /\ g' = <<>> /\ gram' = <<>> /\ r' = <<>> /\ c' = 0
  /\ active' = <<>> /\ full' = TRUE /\ sweep' = 0 /\ pos' = 0 /\ delta' = 0 /\ met' = TRUE

Kernel == Start \/ Visit \/ EndSweep
Next == Pose \/ Budget \/ Read \/ Kernel \/ Recheck \/ Step \/ Stuck \/ Return

(* The fit runs; that it is called is not promised.                        *)
Spec == Init /\ [][Next]_vars
          /\ WF_vars(Budget \/ Read \/ Kernel \/ Recheck \/ Step \/ Stuck \/ Return)

-----------------------------------------------------------------------------
(* The problem in its own terms: the centered columns and residual.        *)
TrueResidual(b) == Centered([i \in Rows |-> z[i] - Fitted(b)[i]])
TrueColumn(j) == Centered(prob.X[j])
TrueGradient(b, j) ==
  Total(N, [i \in Rows |-> w(i) * TrueColumn(j)[i] * TrueResidual(b)[i]])
TrueCurvature(j) ==
  Total(N, [i \in Rows |-> w(i) * TrueColumn(j)[i] * TrueColumn(j)[i]])

(* Twice Gamma times the slope, half a unit to the side `o' of b_j, of the *)
(* objective in coordinate j with its penalty.                             *)
Slope(b, j, o) ==
  LET q == TrueCurvature(j)
      h == 2 * b[j] + o
      t == q * b[j] + TrueGradient(b, j)
      p == IF prob.penalty = "lasso" THEN 2 * Gamma * prob.kink[j]
           ELSE LET d == 2 * Gamma * prob.kink[j] - q * Abs(h) IN IF d > 0 THEN d ELSE 0
  IN  Gamma * q * h - 2 * Gamma * t + (IF h > 0 THEN p ELSE -p)

(* b_j is the integer nearest to the minimum in its own coordinate.        *)
Optimal(b, j) == TrueCurvature(j) > 0 => Slope(b, j, -1) <= 0 /\ Slope(b, j, 1) >= 0

TypeOK ==
  /\ phase \in {"idle", "read", "call", "sweep", "swept", "checked", "over"}
  /\ trip \in 0 .. MaxTrips /\ sweep \in 0 .. MaxSweeps
  /\ delta \in Nat /\ c \in Int /\ inter \in Int /\ {full, met} \subseteq BOOLEAN
  /\ verdict \in {None, "unmoved", "small", "stuck", "budget"}
  /\ phase # "idle" =>
       /\ prob \in Problems
       /\ cur \in [Cols -> Int]
       /\ \A a \in 1 .. m : a > 1 => keep[a - 1] < keep[a]
       /\ Range(keep) \subseteq Cols
  /\ phase \in {"call", "sweep", "swept", "checked"} => keep # <<>>
  /\ phase \in {"sweep", "swept"} =>
       /\ beta \in [Cols -> Int]
       /\ \A j \in Cols : beta[j] # cur[j] => j \in Range(keep)
       /\ \A q \in DOMAIN active : active[q] \in 1 .. m
  /\ phase = "sweep" => pos \in 1 .. QEnd + 1

(* What a sweep holds in place of the gradient is the gradient, at every   *)
(* move of every kind: in the covariance form the entry of each kept       *)
(* column, the columns left out having no coefficient; in the naive form   *)
(* the residual less the scalar that centers it, in both storages          *)
(* (coord_descent.cpp).                                                    *)
CacheIsTheGradient ==
  phase = "sweep" =>
    IF covariance THEN \A a \in 1 .. m : g[a] = TrueGradient(beta, keep[a])
    ELSE [i \in Rows |-> r[i] - c] = TrueResidual(beta)

Converged == phase = "over" /\ verdict \in {"unmoved", "small"} /\ Whole

(* A kernel that left by its tolerance left every kept column at its own   *)
(* optimum; once the columns left out have been checked that holds of      *)
(* every column of the block, whatever the rule left out; and what the fit *)
(* then calls converged after whole steps solves the last working problem  *)
(* in every column, also where it ended because the problem had not moved  *)
(* (coord_descent.cpp, R/coord.R).                                         *)
AnswerIsOfEveryColumn ==
  met => /\ phase = "swept" => \A j \in Range(keep) : Optimal(beta, j)
         /\ phase = "checked" => \A j \in Cols : Optimal(beta, j)
         /\ Converged => \A j \in Cols : Optimal(cur, j)

(* The last of these without the condition on the kernel, "the previous    *)
(* call already returned this problem's solution" (R/coord.R:264): it does *)
(* not hold where a kernel runs out of sweeps.                             *)
ConvergedSolves == Converged => \A j \in Cols : Optimal(cur, j)

(* Every call returns: the sweeps and the trips have budgets, and the      *)
(* columns that come back stay.                                            *)
FitEnds == phase # "idle" ~> phase = "idle"
=============================================================================
