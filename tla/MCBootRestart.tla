--------------------------- MODULE MCBootRestart ---------------------------
(* Instances of BootRestart for TLC.                                       *)
EXTENDS BootRestart

CONSTANTS p1, p2, q1, q2, z1, z2

MCPar == {p1, p2}
MCPos == {q1, q2}
MCZeta == {z1, z2}

(* An objective whose minimum needs one particular triple, with ties, and  *)
(* one triple at which it is not finite.                                   *)
MCValue ==
  [f \in MCPar \X MCPos \X MCZeta |->
     IF f = <<p2, q2, z1>> THEN NonFinite
     ELSE   (IF f[1] = p1 THEN 0 ELSE 2)
          + (IF f[2] = q1 THEN 1 ELSE 3)
          * (IF f[3] = z1 THEN 1 ELSE 2)]
=============================================================================
