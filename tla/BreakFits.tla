------------------------------ MODULE BreakFits ------------------------------
(***************************************************************************)
(* What the searches of R/boot_restart.R for better break-points share.    *)
(*                                                                         *)
(* The design is one mutable object shared by every refit: `pos' stands    *)
(* for its st$terms (where the break-point terms are) and `zeta' for its   *)
(* sst$zeta (a structural term's own parameters).  A fit is the            *)
(* coefficients together with the two states they were fitted in, since    *)
(* the objective is a function of the three; the result a refit returns    *)
(* carries the coefficients and the objective only.                        *)
(***************************************************************************)
EXTENDS Integers

CONSTANTS Par,         \* coefficient vectors
          Pos,         \* states of the break-point terms
          Zeta,        \* states of the structural terms
          Value,       \* the objective at each <<par, pos, zeta>>
          NonFinite    \* an objective that is not finite

Fits == Par \X Pos \X Zeta

Values == Int \union {NonFinite}

ASSUME FitsAssumption == NonFinite \notin Int /\ Value \in [Fits -> Values]

VARIABLES pc,          \* where the search stands, "done" once it has returned
          best,        \* [par, value]: the result that would be returned
          pos, zeta    \* the shared state of the design

Result(f) == [par |-> f[1], value |-> Value[f]]

-----------------------------------------------------------------------------
(* The coefficients returned and the state the design is left in are one   *)
(* fit: reading the objective again gives the objective returned.  After a *)
(* settle it holds where no structural term stands beside the break-points *)
(* (Zeta has one element).                                                 *)
ReturnedFitIsTheDesigns ==
  pc = "done" => best.value = Value[<<best.par, pos, zeta>>]
=============================================================================
