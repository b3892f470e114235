------------------------- MODULE MCBootstrapEngine -------------------------
(* An instance of BootstrapEngine for TLC: a fit and a copy of it with     *)
(* other estimates, which share a store, over a generator with two cycles: *)
(* on one few replicates fail, on the other nearly all of them.            *)
EXTENDS BootstrapEngine

CONSTANTS fit, copy

MCSeeds == {0, 1, 2, 10, 11}

MCAfter == [x \in MCSeeds |-> CASE x < 2 -> x + 1 [] x = 2 -> 0
                                [] x = 10 -> 11 [] x = 11 -> 10]

MCReseeded == [x \in Keys \X MCSeeds |-> IF x[2] < 10 THEN 10 ELSE 0]

MCOutcome ==
  [x \in Keys \X MCSeeds |->
     CASE x[1] = fit  -> (CASE x[2] = 1 -> 1 [] x[2] = 2 -> 2
                            [] x[2] \in {10, 11} -> 3 [] OTHER -> 0)
       [] x[1] = copy -> IF x[2] >= 10 THEN 1 ELSE 0]
=============================================================================
