------------------------- MODULE ImprovementSearch -------------------------
(***************************************************************************)
(* What every restart in the package promises its caller.                  *)
(*                                                                         *)
(* A restart holds an INCUMBENT, the fit it would hand back now, and tries *)
(* candidates against it.  Trying one runs a whole fit, which writes into  *)
(* the design as it goes, so what the design holds between two decisions   *)
(* is of no interest: `live' is unconstrained while the search runs.  What *)
(* is promised is that the incumbent only ever gets better, and that when  *)
(* the search ends the design holds the state of the fit handed back.      *)
(***************************************************************************)
EXTENDS Integers

CONSTANTS Fits,        \* the fits a search can stand on
          Value,       \* the objective of each, an integer or NonFinite
          NonFinite    \* an objective that is not a finite number

VARIABLES inc,         \* the incumbent
          live,        \* the fit whose state the design holds
          done         \* the search has returned

vars == <<inc, live, done>>

(* `is.finite(new) && new < old': a comparison with a NaN is not TRUE.     *)
Better(new, old) == /\ new # NonFinite
                    /\ old # NonFinite
                    /\ new < old

Init == /\ inc \in Fits
        /\ live = inc
        /\ done = FALSE

Try == /\ ~done
       /\ live' \in Fits
       /\ UNCHANGED <<inc, done>>

Improve == /\ ~done
           /\ inc' \in Fits
           /\ Better(Value[inc'], Value[inc])
           /\ live' \in Fits
           /\ UNCHANGED done

Return == /\ ~done
          /\ done' = TRUE
          /\ live' = inc
          /\ UNCHANGED inc

Next == Try \/ Improve \/ Return

Spec == Init /\ [][Next]_vars
=============================================================================
