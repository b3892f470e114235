---------------------------- MODULE MCParKernels ----------------------------
(* Instances of ParKernels for TLC: products of two rows, one of them of   *)
(* blocks of unequal width, a leverage with empty rows, and factors of a   *)
(* square and of a wide matrix.                                            *)
EXTENDS ParKernels

MCCalls ==
  { [kernel |-> "xtv", n |-> 2, p |-> 3],
    [kernel |-> "wxsq", n |-> 1, p |-> 2],
    [kernel |-> "xtx", n |-> 2, p |-> 2],
    [kernel |-> "wcrossprod", n |-> 2, pa |-> 2, pb |-> 2],
    [kernel |-> "wcrossprod", n |-> 1, pa |-> 3, pb |-> 1],
    [kernel |-> "leverage", n |-> 1, na |-> [i \in {0} |-> 2], nb |-> [i \in {0} |-> 1]],
    [kernel |-> "leverage", n |-> 3, na |-> [i \in 0 .. 2 |-> <<1, 0, 2>>[i + 1]],
                                     nb |-> [i \in 0 .. 2 |-> <<2, 1, 2>>[i + 1]]],
    [kernel |-> "qr", m |-> 3, p |-> 3],
    [kernel |-> "qr", m |-> 2, p |-> 3] }
=============================================================================
