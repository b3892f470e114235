---------------------------- MODULE BootRestart ----------------------------
(***************************************************************************)
(* statmod_boot_restart() of R/boot_restart.R: the bootstrap restarting of *)
(* a break-point fit.                                                      *)
(*                                                                         *)
(* Beside the state of BreakFits the design has `working', its st$working, *)
(* set while fit_working() solves its plain linear model.                  *)
(***************************************************************************)
EXTENDS BreakFits

CONSTANTS NBoot,       \* n_boot, the budget of proposals
          MayRaise     \* whether a refit can end in an R error

DryLimit == 4

ASSUME BootAssumption == NBoot \in Nat \ {0} /\ MayRaise \in BOOLEAN

(* pc is "propose", "refit", "done" or "error".                            *)
VARIABLES b,           \* proposals made so far
          dry,         \* consecutive proposals that did not improve
          keep,        \* <<pos, zeta>>: the snapshot taken at the incumbent
          start,       \* the coefficients a proposal starts its refit from
          working      \* st$working

design == <<pos, zeta, working>>
vars == <<pc, b, dry, best, keep, start, design>>

TypeOK ==
  /\ pc \in {"propose", "refit", "done", "error"}
  /\ b \in 0 .. NBoot
  /\ dry \in 0 .. DryLimit
  /\ best \in [par: Par, value: Values]
  /\ keep \in Pos \X Zeta
  /\ start \in Par
  /\ pos \in Pos /\ zeta \in Zeta /\ working \in BOOLEAN

(* `best <- res; keep <- snap()': the result improved is the one whose fit *)
(* left the design as it is.  statmod() does not call it for a budget of   *)
(* zero.                                                                   *)
Init ==
  /\ pc = "propose"
  /\ b = 0 /\ dry = 0
  /\ pos \in Pos /\ zeta \in Zeta /\ working = FALSE
  /\ keep = <<pos, zeta>>
  /\ start \in Par
  /\ best = Result(<<start, pos, zeta>>)

(* Mutant: off by one in the budget.                                       *)
More_oneTooMany == b <= NBoot /\ dry < DryLimit

More == b < NBoot /\ dry < DryLimit

(* restore(keep), then propose(): the positions it writes are those of the *)
(* terms whose own profile improved.  `NoProposal' also stands for an      *)
(* error inside propose(), which can leave some of the terms written.      *)
NoProposal ==
  /\ pc = "propose" /\ More
  /\ b' = b + 1
  /\ dry' = dry + 1
  /\ pos' \in Pos
  /\ zeta' = keep[2]
  /\ UNCHANGED <<pc, best, keep, start, working>>

Propose ==
  /\ pc = "propose" /\ More
  /\ pc' = "refit"
  /\ b' = b + 1
  /\ start' \in Par
  /\ pos' \in Pos
  /\ zeta' = keep[2]
  /\ UNCHANGED <<dry, best, keep, working>>

(* The test `ro$value < best$value - 1e-8 (|best$value| + 1)'; an incumbent *)
(* that is not finite makes it NA, which `if' refuses.                     *)
Improves(v) == v # NonFinite /\ best.value # NonFinite /\ v < best.value

(* Mutant: the snapshot is not taken again at the new incumbent.           *)
Accept_oldSnapshot ==
  /\ pc = "refit"
  /\ \E f \in Fits :
       /\ Improves(Value[f])
       /\ best' = Result(f)
       /\ pos' = f[2] /\ zeta' = f[3]
  /\ working' = FALSE
  /\ dry' = 0
  /\ pc' = "propose"
  /\ UNCHANGED <<b, keep, start>>

Accept ==
  /\ pc = "refit"
  /\ \E f \in Fits :
       /\ Improves(Value[f])
       /\ best' = Result(f)
       /\ keep' = <<f[2], f[3]>>
       /\ pos' = f[2] /\ zeta' = f[3]
  /\ working' = FALSE
  /\ dry' = 0
  /\ pc' = "propose"
  /\ UNCHANGED <<b, start>>

Reject ==
  /\ pc = "refit"
  /\ \E f \in Fits :
       /\ Value[f] = NonFinite \/ best.value # NonFinite
       /\ ~Improves(Value[f])
       /\ pos' = f[2] /\ zeta' = f[3]
  /\ working' = FALSE
  /\ dry' = dry + 1
  /\ pc' = "propose"
  /\ UNCHANGED <<b, best, keep, start>>

(* A finite candidate against an incumbent that is not: `if (NA)' raises.  *)
Raise ==
  /\ pc = "refit"
  /\ best.value = NonFinite
  /\ \E f \in Fits : /\ Value[f] # NonFinite
                     /\ pos' = f[2] /\ zeta' = f[3]
  /\ working' = FALSE
  /\ pc' = "error"
  /\ UNCHANGED <<b, dry, best, keep, start>>

(* The refit raises and tryCatch() turns it into NULL.  Whatever it had    *)
(* written stays written, st$working among it when the error was raised    *)
(* inside a working fit.                                                   *)
RefitRaises ==
  /\ MayRaise
  /\ pc = "refit"
  /\ pos' \in Pos /\ zeta' \in Zeta /\ working' \in BOOLEAN
  /\ dry' = dry + 1
  /\ pc' = "propose"
  /\ UNCHANGED <<b, best, keep, start>>

(* The last restore(keep).                                                 *)
Finish ==
  /\ pc = "propose" /\ ~More
  /\ pc' = "done"
  /\ pos' = keep[1] /\ zeta' = keep[2]
  /\ UNCHANGED <<b, dry, best, keep, start, working>>

Next == NoProposal \/ Propose \/ Accept \/ Reject \/ Raise \/ RefitRaises \/ Finish

Spec == Init /\ [][Next]_vars

-----------------------------------------------------------------------------
(* The snapshot is at all times the state of the incumbent.                *)
SnapshotIsTheIncumbents ==
  best.value = Value[<<best.par, keep[1], keep[2]>>]

-----------------------------------------------------------------------------
Restart == INSTANCE ImprovementSearch WITH
  inc  <- <<best.par, keep[1], keep[2]>>,
  live <- <<best.par, pos, zeta>>,
  done <- pc = "done"

(* The restart is an improvement search over fits.                         *)
RefinesSearch == Restart!Spec
=============================================================================
