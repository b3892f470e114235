-------------------------- MODULE MCStatmodDriver --------------------------
(* Instances of StatmodDriver for TLC: the kinds of model whose candidates *)
(* and stages differ.                                                      *)
EXTENDS StatmodDriver

CONSTANTS z1, z2, t1, t2

MCZetas == {z1, z2}
MCPositions == {t1, t2}

MCValue == [x \in Points |-> (IF x[2] = z1 THEN 2 ELSE 1) + (IF x[1] = t1 THEN 0 ELSE 3)]
MCCriterion == [x \in Points |-> (IF x[2] = z1 THEN 4 ELSE 1) + (IF x[1] = t1 THEN 0 ELSE 1)]

Plain == [criterion |-> TRUE, later |-> FALSE, sparse |-> FALSE,
          marginal |-> TRUE, structural |-> FALSE, info |-> FALSE,
          two_routes |-> FALSE, starts |-> 0, sharp |-> FALSE,
          seg |-> FALSE, boot |-> FALSE, chart |-> TRUE]

Structural == [Plain EXCEPT !.structural = TRUE]
Jump == [Plain EXCEPT !.sharp = TRUE, !.boot = TRUE]

MCModels ==
  { [Structural EXCEPT !.info = TRUE],
    [Structural EXCEPT !.info = TRUE, !.criterion = FALSE],
    [Structural EXCEPT !.two_routes = TRUE, !.starts = 2],
    [Structural EXCEPT !.criterion = FALSE, !.starts = 1],
    [Structural EXCEPT !.criterion = FALSE, !.sparse = TRUE],
    [Plain EXCEPT !.seg = TRUE, !.boot = TRUE],
    [Plain EXCEPT !.seg = TRUE, !.criterion = FALSE],
    Jump,
    [Jump EXCEPT !.boot = FALSE, !.chart = FALSE],
    [Jump EXCEPT !.criterion = FALSE, !.sparse = TRUE, !.marginal = FALSE],
    [Jump EXCEPT !.criterion = FALSE, !.later = TRUE, !.boot = FALSE],
    [Jump EXCEPT !.structural = TRUE, !.starts = 1, !.boot = FALSE],
    [Jump EXCEPT !.structural = TRUE, !.two_routes = TRUE, !.criterion = FALSE,
                 !.boot = FALSE] }

(* A sharp break-point beside a score-driven filter, jump(t) + gas(1, 1).  *)
JumpBesideFilter == {[Jump EXCEPT !.structural = TRUE, !.info = TRUE,
                                  !.boot = FALSE, !.chart = FALSE]}
=============================================================================
