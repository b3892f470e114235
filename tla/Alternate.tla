----------------------------- MODULE Alternate -----------------------------
(***************************************************************************)
(* statmod_alternate() of R/statmod.R: the inner fit at one value of the   *)
(* hyperparameters.  A pass fits the smooth block (or the joint system of  *)
(* the coefficients and a structural term's parameters, or the working     *)
(* fits of a frozen break-point), then the structural terms, then each     *)
(* kinked block, then commits the terms that recompute their own block.    *)
(*                                                                         *)
(* `par' stands for the stacked coefficients, `pos' for st$terms, `zeta'   *)
(* for sst$zeta, `scale' for the curvature a SCAD or MCP penalty is scaled *)
(* by; the objective is a function of the four.  Abstracted: where an      *)
(* inner fit goes and what it says of itself are free.                     *)
(***************************************************************************)
EXTENDS Integers, Sequences

CONSTANTS Par, Pos, Zeta, Scale,
          Value,         \* the objective at each <<scale, par, pos, zeta>>
          NonFinite,     \* an objective that is not finite
          Stationary,    \* the points at which alternation_settled() is TRUE
          Models,        \* what a model is made of: see ModelType
          Tol,           \* two objectives at most Tol apart are equal
          MaxIt          \* `maxit', the budget of passes

Points == Scale \X Par \X Pos \X Zeta
Values == Int \union {NonFinite}

(* structural: "none"; "joint", the kinds statmod_fit_joint() takes;       *)
(* "route", those on the alternate route.                                  *)
(* sparse: the kinked blocks in order, over coefficients or over `zeta'.   *)
(* raises: whether the optimizer of a block over `zeta' can raise.         *)
ModelType ==
  [smooth: BOOLEAN, frozen: BOOLEAN, jacobian: BOOLEAN,
   structural: {"none", "joint", "route"},
   sparse: Seq({"coef", "zeta"}), curvature: BOOLEAN, hold: BOOLEAN,
   raises: BOOLEAN]

ASSUME AlternateAssumption ==
  /\ NonFinite \notin Int
  /\ Value \in [Points -> Values]
  /\ Stationary \subseteq Points
  /\ Models \subseteq ModelType
  /\ Tol \in Nat /\ MaxIt \in Nat \ {0}

VARIABLES model,       \* chosen once
          pc, pass,
          blk,         \* the kinked blocks fitted in this pass
          scale, par, pos, zeta,
          value, before,
          smooth_ok, terms_ok, frozen_ok, frozen_stalled,
          converged,
          zsave,       \* `zeta' as the finishing joint step found it
          rp,          \* what that step returned: nothing where it raised
          worked,      \* history: what the last working fit said, if any
          entry        \* history: the fit the finishing joint step began from

flags == <<smooth_ok, terms_ok, frozen_ok, frozen_stalled>>
finish == <<zsave, rp, entry>>
vars == <<model, pc, pass, blk, scale, par, pos, zeta, value, before,
          flags, converged, worked, finish>>

has_structural == model.structural # "none"
has_refresh == model.frozen \/ model.jacobian
has_frozen == model.frozen /\ ~model.hold
alternate_route == model.structural = "route"
joint == model.structural = "joint" /\ model.smooth

(* With nothing to alternate with, the pass is the inner fit.              *)
lone == /\ model.sparse = <<>>
        /\ ~has_refresh
        /\ has_structural => joint

Close(a, b) == /\ a # NonFinite /\ b # NonFinite
               /\ a - b <= Tol /\ b - a <= Tol

Steps == {"joint", "smooth", "structural", "sparse", "commit"}

TypeOK ==
  /\ model \in Models
  /\ pc \in {"pass", "verdict", "finish", "joining", "compare", "done", "raised"}
              \union Steps
  /\ pass \in 0 .. MaxIt
  /\ blk \in 0 .. Len(model.sparse)
  /\ scale \in Scale /\ par \in Par /\ pos \in Pos /\ zeta \in Zeta
  /\ value \in Values /\ before \in Values
  /\ smooth_ok \in BOOLEAN /\ terms_ok \in BOOLEAN
  /\ frozen_ok \in BOOLEAN /\ frozen_stalled \in BOOLEAN
  /\ converged \in BOOLEAN
  /\ worked \in {"none", "settled", "unsettled"}
  /\ zsave \in Zeta
  /\ rp \subseteq [par: Par, value: Values, converged: BOOLEAN]
  /\ entry \in Par \X Zeta \X Values \X BOOLEAN

Init ==
  /\ model \in Models
  /\ pc = "pass" /\ pass = 0 /\ blk = 0
  /\ scale \in Scale /\ par \in Par /\ pos \in Pos /\ zeta \in Zeta
  /\ value = Value[<<scale, par, pos, zeta>>]
  /\ before = value
  /\ smooth_ok = TRUE /\ terms_ok = TRUE
  /\ frozen_ok = TRUE /\ frozen_stalled = FALSE
  /\ converged = FALSE
  /\ worked = "none"
  /\ zsave = zeta /\ rp = {} /\ entry = <<par, zeta, value, converged>>

Reread == value' = Value[<<scale', par', pos', zeta'>>]

-----------------------------------------------------------------------------
Rescale == model.curvature /\ scale' \in Scale

(* Mutant: one pass more than the budget.                                  *)
StartPass_oneMore ==
  /\ pc = "pass" /\ pass <= MaxIt
  /\ pass' = pass + 1 /\ blk' = 0
  /\ UNCHANGED <<model, scale, par, pos, zeta, value, flags, converged, worked,
                 finish>>
  /\ before' = value'
  /\ pc' = "joint"

(* A new pass reads the curvature again where a penalty is scaled by it,   *)
(* and the objective with it, unless the reading fails (statmod_curv() is  *)
(* NULL).                                                                  *)
StartPass ==
  /\ pc = "pass" /\ pass < MaxIt
  /\ pass' = pass + 1 /\ blk' = 0
  /\ UNCHANGED <<model, par, pos, zeta, flags, converged, worked, finish>>
  /\ \/ Rescale /\ Reread
     \/ UNCHANGED <<scale, value>>
  /\ before' = value'
  /\ pc' = "joint"

BudgetSpent ==
  /\ pc = "pass" /\ pass = MaxIt
  /\ pc' = "finish"
  /\ UNCHANGED <<model, pass, blk, scale, par, pos, zeta, value, before,
                 flags, converged, worked, finish>>

Applies(s) ==
  CASE s = "joint"      -> joint
    [] s = "smooth"     -> model.smooth /\ ~joint
    [] s = "structural" -> has_structural /\ ~joint
    [] s = "sparse"     -> blk < Len(model.sparse)
    [] s = "commit"     -> has_refresh

Following == [joint |-> "smooth", smooth |-> "structural",
              structural |-> "sparse", sparse |-> "commit",
              commit |-> "verdict"]

Skip ==
  /\ pc \in Steps /\ ~Applies(pc)
  /\ pc' = Following[pc]
  /\ UNCHANGED <<model, pass, blk, scale, par, pos, zeta, value, before,
                 flags, converged, worked, finish>>

(* statmod_fit_joint() writes the coefficients and the term's parameters.  *)
Joint ==
  /\ pc = "joint" /\ Applies(pc)
  /\ par' \in Par /\ zeta' \in Zeta
  /\ UNCHANGED <<scale, pos>> /\ Reread
  /\ smooth_ok' \in BOOLEAN
  /\ pc' = Following[pc]
  /\ UNCHANGED <<model, pass, blk, before, terms_ok, frozen_ok,
                 frozen_stalled, converged, worked, finish>>

(* fit_smooth(): the break-points stay where they are.                     *)
Smooth ==
  /\ pc = "smooth" /\ Applies(pc) /\ ~has_frozen
  /\ par' \in Par
  /\ UNCHANGED <<scale, pos, zeta>> /\ Reread
  /\ smooth_ok' \in BOOLEAN
  /\ pc' = Following[pc]
  /\ UNCHANGED <<model, pass, blk, before, terms_ok, frozen_ok,
                 frozen_stalled, converged, worked, finish>>

(* fit_working(): module WorkingFit.                                       *)
Working ==
  /\ pc = "smooth" /\ Applies(pc) /\ has_frozen
  /\ par' \in Par /\ pos' \in Pos
  /\ UNCHANGED <<scale, zeta>> /\ Reread
  /\ smooth_ok' \in BOOLEAN /\ frozen_stalled' \in BOOLEAN
  /\ frozen_ok' = smooth_ok'
  /\ frozen_stalled' => ~frozen_ok'
  /\ worked' = IF frozen_ok' THEN "settled" ELSE "unsettled"
  /\ pc' = Following[pc]
  /\ UNCHANGED <<model, pass, blk, before, terms_ok, converged, finish>>

(* statmod_fit_structural(), the coefficients held.                        *)
Structural ==
  /\ pc = "structural" /\ Applies(pc)
  /\ zeta' \in Zeta
  /\ UNCHANGED <<scale, par, pos>> /\ Reread
  /\ pc' = Following[pc]
  /\ UNCHANGED <<model, pass, blk, before, flags, converged, worked, finish>>

(* One kinked block, by coordinate descent or a proximal gradient.         *)
Sparse ==
  /\ pc = "sparse" /\ Applies(pc)
  /\ blk' = blk + 1
  /\ IF model.sparse[blk'] = "coef"
     THEN par' \in Par /\ UNCHANGED zeta
     ELSE zeta' \in Zeta /\ UNCHANGED par
  /\ UNCHANGED <<scale, pos>> /\ Reread
  /\ UNCHANGED <<model, pc, pass, before, flags, converged, worked, finish>>

(* sparse_fit_structural() returns the objective it read on entry where    *)
(* its optimizer raises; the trial points it wrote into sst$zeta stay.     *)
SparseFails ==
  /\ model.raises
  /\ pc = "sparse" /\ Applies(pc)
  /\ model.sparse[blk + 1] = "zeta"
  /\ blk' = blk + 1
  /\ zeta' \in Zeta
  /\ UNCHANGED <<model, pc, pass, scale, par, pos, value, before, flags,
                 converged, worked, finish>>

(* Mutant: the objective is not read again at the terms committed.         *)
Commit_noReread ==
  /\ pc = "commit" /\ Applies(pc)
  /\ IF model.jacobian
     THEN par' \in Par /\ pos' \in Pos /\ terms_ok' \in BOOLEAN
     ELSE terms_ok' = TRUE /\ UNCHANGED <<par, pos>>
  /\ pc' = Following[pc]
  /\ UNCHANGED <<model, pass, blk, scale, zeta, value, before, smooth_ok,
                 frozen_ok, frozen_stalled, converged, worked, finish>>

(* statmod_commit_refresh(which = "jacobian"), and the terms' own verdict. *)
Commit ==
  /\ pc = "commit" /\ Applies(pc)
  /\ IF model.jacobian
     THEN par' \in Par /\ pos' \in Pos /\ terms_ok' \in BOOLEAN
     ELSE terms_ok' = TRUE /\ UNCHANGED <<par, pos>>
  /\ UNCHANGED <<scale, zeta>> /\ Reread
  /\ pc' = Following[pc]
  /\ UNCHANGED <<model, pass, blk, before, smooth_ok, frozen_ok,
                 frozen_stalled, converged, worked, finish>>

-----------------------------------------------------------------------------
(* Mutant: the flags are believed and the point is not read.               *)
Verdict_flagsOnly == IF has_refresh THEN terms_ok /\ frozen_ok ELSE smooth_ok

(* The verdict where the objective has stopped: the terms' own flags where *)
(* a term recomputes its block, and the readings at the point where there  *)
(* is something to alternate with.                                         *)
Verdict ==
  /\ has_refresh => terms_ok /\ frozen_ok
  /\ model.sparse # <<>> \/ has_structural =>
       <<scale, par, pos, zeta>> \in Stationary

Leave(ok) == converged' = ok /\ pc' = "finish"
GoOn == pc' = "pass" /\ UNCHANGED converged

(* After the first pass a term that recomputes its block has no step to    *)
(* measure yet.                                                            *)
MissingMeasure == has_refresh /\ pass = 1 /\ ~terms_ok

(* The exits of a pass in the order of the code.  An objective that is not *)
(* finite makes the relative change NaN, which `if' refuses; so can the    *)
(* one the pass began with.                                                *)
EndPass ==
  /\ pc = "verdict"
  /\ \/ frozen_stalled /\ Leave(FALSE)
     \/ ~frozen_stalled /\ lone /\ Leave(smooth_ok)
     \/ /\ ~frozen_stalled /\ ~lone
        /\ \/ /\ Close(before, value)
              /\ IF MissingMeasure THEN GoOn ELSE Leave(Verdict)
           \/ value # NonFinite /\ ~Close(before, value) /\ GoOn
           \/ /\ value = NonFinite \/ before = NonFinite
              /\ pc' = "raised" /\ UNCHANGED converged
  /\ UNCHANGED <<model, pass, blk, scale, par, pos, zeta, value, before, flags, worked,
                 finish>>

finishes == /\ alternate_route /\ model.smooth
            /\ model.sparse = <<>> /\ ~has_refresh

(* The alternate route ends in the joint system, on whose way every point  *)
(* tried is written into `zeta'.                                           *)
FinishStarts ==
  /\ pc = "finish" /\ finishes
  /\ zsave' = zeta /\ entry' = <<par, zeta, value, converged>>
  /\ pc' = "joining"
  /\ UNCHANGED <<model, pass, blk, scale, par, pos, zeta, value, before,
                 flags, converged, worked, rp>>

(* statmod_fit_joint() again: the coefficients are returned in `rp', the   *)
(* term's parameters are left where the last point tried has them.         *)
FinishReturns ==
  /\ pc = "joining"
  /\ zeta' \in Zeta
  /\ \E p \in Par, ok \in BOOLEAN :
       rp' = {[par |-> p, value |-> Value[<<scale, p, pos, zeta'>>], converged |-> ok]}
  /\ pc' = "compare"
  /\ UNCHANGED <<model, pass, blk, scale, par, pos, value, before,
                 flags, converged, worked, zsave, entry>>

FinishRaises ==
  /\ pc = "joining"
  /\ zeta' \in Zeta
  /\ rp' = {}
  /\ pc' = "compare"
  /\ UNCHANGED <<model, pass, blk, scale, par, pos, value, before,
                 flags, converged, worked, zsave, entry>>

NotWorse(r) == r.value # NonFinite /\ value # NonFinite /\ r.value <= value

(* The step is kept where it does not raise the objective.                 *)
FinishKept ==
  /\ pc = "compare"
  /\ \E r \in rp : /\ NotWorse(r)
                   /\ par' = r.par /\ value' = r.value /\ converged' = r.converged
  /\ pc' = "done"
  /\ UNCHANGED <<model, pass, blk, scale, pos, zeta, before, flags, worked, finish>>

(* Mutant: the term's parameters stay where the step left them.            *)
FinishTurnedDown_noRestore ==
  /\ pc = "compare"
  /\ \A r \in rp : ~NotWorse(r)
  /\ pc' = "done"
  /\ UNCHANGED <<model, pass, blk, scale, par, pos, zeta, value, before,
                 flags, converged, worked, finish>>

(* Otherwise, as where it raised an error, they are put back.              *)
FinishTurnedDown ==
  /\ pc = "compare"
  /\ \A r \in rp : ~NotWorse(r)
  /\ zeta' = zsave
  /\ pc' = "done"
  /\ UNCHANGED <<model, pass, blk, scale, par, pos, value, before,
                 flags, converged, worked, finish>>

Return ==
  /\ pc = "finish" /\ ~finishes
  /\ pc' = "done"
  /\ UNCHANGED <<model, pass, blk, scale, par, pos, zeta, value, before,
                 flags, converged, worked, finish>>

Next == \/ StartPass \/ BudgetSpent \/ Skip \/ Joint \/ Smooth \/ Working
        \/ Structural \/ Sparse \/ SparseFails \/ Commit \/ EndPass
        \/ FinishStarts \/ FinishReturns \/ FinishRaises \/ FinishKept
        \/ FinishTurnedDown \/ Return

Spec == Init /\ [][Next]_vars /\ WF_vars(Next)

-----------------------------------------------------------------------------
(* The value returned is the objective of the point returned, in the state *)
(* the design is in, whichever of the six writers moved it last, as long   *)
(* as no inner optimizer raises.                                           *)
ValueIsOfThePoint ==
  (pc \in {"finish", "done"} /\ ~model.raises)
    => value = Value[<<scale, par, pos, zeta>>]

(* What the fit ends on is an answer.  Where it alternates between blocks  *)
(* and calls itself converged, the readings of its point are those of an   *)
(* optimum, on the word of no block alone, each of which can be settled    *)
(* beside a point that is not; since "where a term recomputes its own      *)
(* block, the verdict is the objective's together with that term's own     *)
(* flags" (R/statmod.R:1249), it has fitted its frozen break-points, unless*)
(* asked to hold them, and found them settled; and unsettled terms do not  *)
(* end a fit after a first pass that began at their answer, as a warm      *)
(* start does.                                                             *)
ConvergedIsAnAnswer ==
  /\ (converged /\ (model.sparse # <<>> \/ (has_structural /\ ~joint)) /\ ~finishes)
       => <<scale, par, pos, zeta>> \in Stationary
  /\ (converged /\ has_frozen) => worked = "settled"
  /\ (pc = "done" /\ pass = 1 /\ MaxIt > 1 /\ has_refresh /\ ~terms_ok)
       => frozen_stalled \/ ~Close(before, value)

(* The joint step that ends the alternate route writes the term's          *)
(* parameters as it goes, whether it returns or raises, and the            *)
(* coefficients only where it is kept.  What the fit ends on is all of it  *)
(* or nothing: a fit no worse than the one it began from, with the value of*)
(* its own point, or that one, unmoved.                                    *)
FinishIsAllOrNothing ==
  (pc = "done" /\ finishes) =>
     \/ <<par, zeta, value, converged>> = entry
     \/ value <= entry[3] /\ value = Value[<<scale, par, pos, zeta>>]
=============================================================================
