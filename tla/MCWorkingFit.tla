---------------------------- MODULE MCWorkingFit ----------------------------
(* Instances of WorkingFit for TLC.                                        *)
EXTENDS WorkingFit

MCW == {0, 1, 3}
=============================================================================
