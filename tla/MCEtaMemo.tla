----------------------------- MODULE MCEtaMemo -----------------------------
(* Instances of EtaMemo for TLC.                                           *)
EXTENDS EtaMemo

CONSTANTS b1, b2, b3, t1, t2, z1, z2

MCCoef == {b1, b2, b3}
MCTerms == {t1, t2}
MCZeta == {z1, z2}

Kind(r, s) == [refreshable |-> r, structural |-> s]
OneAtMost == {Kind(FALSE, FALSE), Kind(TRUE, FALSE), Kind(FALSE, TRUE)}
Both == {Kind(TRUE, TRUE)}
=============================================================================
