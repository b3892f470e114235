--------------------------- MODULE MCSettleBreaks ---------------------------
(* Instances of SettleBreaks for TLC: with one structural state (no        *)
(* structural term in the model) and with two.                             *)
EXTENDS SettleBreaks

CONSTANTS p1, p2, p3, q1, q2, q3, z1, z2

MCPar == {p1, p2, p3}
MCPos == {q1, q2, q3}
OneZeta == {z1}
TwoZetas == {z1, z2}

PV(p) == IF p = p1 THEN 0 ELSE IF p = p2 THEN 2 ELSE 5
QV(q) == IF q = q1 THEN 1 ELSE IF q = q2 THEN 2 ELSE 4
ZV(z) == IF z = z1 THEN 1 ELSE 2

Mode(s, e) == [sharp |-> s, exact |-> e]
AllOfThem == {Mode(s, e) : s, e \in BOOLEAN}
SharpExact == {Mode(TRUE, TRUE)}

MCValue ==
  [f \in Fits |-> IF f[1] = p3 /\ f[2] = q3 THEN NonFinite
                  ELSE PV(f[1]) + QV(f[2]) * ZV(f[3])]
=============================================================================
