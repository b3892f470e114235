---------------------------- MODULE MCAlternate ----------------------------
(* Instances of Alternate for TLC: one model of each composition the inner *)
(* fit treats differently.                                                 *)
EXTENDS Alternate

CONSTANTS p1, p2, q1, q2, z1, z2, c1, c2

MCPar == {p1, p2}
MCPos == {q1, q2}
MCZeta == {z1, z2}
MCScale == {c1, c2}

MCValue ==
  [x \in Points |->
     IF x = <<c1, p2, q2, z2>> THEN NonFinite
     ELSE   (IF x[2] = p1 THEN 0 ELSE 2)
          + (IF x[3] = q1 THEN 1 ELSE 3) * (IF x[4] = z1 THEN 1 ELSE 2)
          + (IF x[1] = c1 THEN 0 ELSE 5)]

MCStationary == {x \in Points : x[2] = p1 /\ x[4] = z1}

Plain == [smooth |-> TRUE, frozen |-> FALSE, jacobian |-> FALSE,
          structural |-> "none", sparse |-> <<>>, curvature |-> FALSE,
          hold |-> FALSE, raises |-> FALSE]

MCModels ==
  { Plain,
    [Plain EXCEPT !.sparse = <<"coef">>],
    [Plain EXCEPT !.sparse = <<"coef", "coef">>, !.curvature = TRUE],
    [Plain EXCEPT !.smooth = FALSE, !.sparse = <<"coef">>],
    [Plain EXCEPT !.frozen = TRUE],
    [Plain EXCEPT !.frozen = TRUE, !.hold = TRUE],
    [Plain EXCEPT !.jacobian = TRUE],
    [Plain EXCEPT !.frozen = TRUE, !.jacobian = TRUE],
    [Plain EXCEPT !.structural = "joint"],
    [Plain EXCEPT !.structural = "joint", !.sparse = <<"zeta">>],
    [Plain EXCEPT !.structural = "joint", !.sparse = <<"zeta">>,
                  !.raises = TRUE],
    [Plain EXCEPT !.structural = "joint", !.jacobian = TRUE],
    [Plain EXCEPT !.structural = "route"],
    [Plain EXCEPT !.structural = "route", !.sparse = <<"coef">>],
    [Plain EXCEPT !.structural = "route", !.frozen = TRUE],
    [Plain EXCEPT !.structural = "joint", !.smooth = FALSE,
                  !.sparse = <<"zeta", "coef">>] }

(* A sharp break-point beside a score-driven filter, jump(t) + gas(1, 1).  *)
JumpBesideFilter == {[Plain EXCEPT !.structural = "joint", !.frozen = TRUE]}
=============================================================================
