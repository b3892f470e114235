-------------------------------- MODULE Sums --------------------------------
(* The sum the compiled loops accumulate: F[1] + ... + F[n].               *)
EXTENDS Integers

Total(n, F) == LET to[k \in 0 .. n] == IF k = 0 THEN 0 ELSE to[k - 1] + F[k] IN to[n]
=============================================================================
