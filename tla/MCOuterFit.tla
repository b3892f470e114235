---------------------------- MODULE MCOuterFit ----------------------------
(* Instances of OuterFit for TLC: an inner problem with two basins.  The   *)
(* basin is `beta', and a structural term's parameters are in it (1) or    *)
(* out of it (2).                                                          *)
EXTENDS OuterFit

MCHyper == {"near", "far", "edge"}
(* TwoTerms is a term that recomputes its block at every inner fit.       *)
OneTerms == {1}
TwoTerms == {1, 2}

(* "far" carries the fit into the second basin; "edge" cannot be fitted    *)
(* from there, and leaves the structural parameters where it failed.       *)
Reached(v, b) == IF v = "far" THEN 2 ELSE b

Criterion(v, b, z) ==
  CASE v = "near" -> IF b = 1 THEN 10 ELSE 13
    [] v = "far"  -> IF z = 1 THEN 9 ELSE 6
    [] v = "edge" -> IF z = 1 THEN 7 ELSE -2

MCInner ==
  [x \in MCHyper \X BOOLEAN \X Beta \X Zeta \X Terms |->
     LET v == x[1]  b == x[3]  z == x[4] IN
     [ok    |-> ~(v = "edge" /\ b = 2 /\ z = 1)
                /\ ~(v = "near" /\ b = 2 /\ z = 2 /\ ~x[2]),
      beta  |-> Reached(v, b),
      zeta  |-> IF v = "edge" THEN 2 ELSE IF v = "far" /\ b = 2 THEN 1 ELSE z,
      terms |-> IF 2 \in Terms THEN 3 - x[5] ELSE x[5],
      value |-> IF <<v, b, z>> \in {<<"far", 1, 2>>, <<"near", 2, 2>>}
                THEN NonFinite
                ELSE Criterion(v, Reached(v, b), z)]]
=============================================================================
