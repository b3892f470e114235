--------------------------- MODULE MCJointScaling ---------------------------
(* Instances of JointScaling for TLC: two filtered parameters, in families *)
(* of two and of three predictors, with arbitrary derivatives of the       *)
(* information, that commute with nothing, and of the gradient.            *)
EXTENDS JointScaling

Square(q) == [x \in Cells |-> q[2 * (x[1] - 1) + x[2]]]

Bases == {<<1, 0, 0, 1>>, <<2, 7, 6, 2>>}

\* A sequence of numbers with no pattern, by multiset.
Mix(seed, B, k) ==
  LET to[j \in 0 .. Len(B)] == IF j = 0 THEN seed + 3 * k ELSE (5 * to[j - 1] + B[j] * (k + j) + 1) % Prime
  IN  (to[Len(B)] * to[Len(B)] + k) % Prime

Sizes(p) == UNION {MultisetsOver(p, k) : k \in 0 .. MaxOrder}

Family(d, q, root, p, seed) ==
  LET power == [k \in Index |-> IF d = "half" THEN (root[k] * root[k]) % Prime ELSE root[k]]
      I0 == Times(Times(Square(q), Diagonal(power)), Transpose(Square(q)))
  IN  [d |-> d, P |-> p, Q |-> Square(q), root |-> root,
       I |-> [B \in Sizes(p) |-> IF B = <<>> THEN I0
                                 ELSE [x \in Cells |-> Mix(seed, B, x[1] + x[2] + x[1] * x[2])]],
       g |-> [B \in Sizes(p) |-> [l \in Index |-> Mix(seed + 1, B, 7 + l)]]]

MCFamilies ==
  {Family(d, q, root, 2, seed) : d \in {"half", "one"}, q \in Bases,
      root \in {<<1, 2>>, <<3, 5>>, <<4, 0>>}, seed \in {1, 4}}
    \union {Family(d, <<2, 7, 6, 2>>, <<3, 2>>, 3, 5) : d \in {"half", "one"}}
=============================================================================
