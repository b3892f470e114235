--------------------------- MODULE StatmodDriver ---------------------------
(***************************************************************************)
(* statmod() of R/statmod.R from the first fit to the fit it returns: the  *)
(* stages of fit_once(), and the candidates that are compared with the fit *)
(* in hand: a second start of a filter's loadings, a second route, further *)
(* starts, and restarts from the edge of a chart.                          *)
(*                                                                         *)
(* All of them move one design, by reference: `zeta', the structural       *)
(* parameters, and `terms', the positions of the sharp break-points.  A    *)
(* fit's objective and criterion stand here for the point they were read   *)
(* at.  The inner fits, the selection, the boot restarts and the settles   *)
(* are steps, each with what it may leave behind.                          *)
(***************************************************************************)
EXTENDS Integers

CONSTANTS Zetas, Positions,
          ZStart,       \* the structural parameters the first fit starts from
          Value,        \* the objective of a point, minimized
          Criterion,    \* its criterion, maximized
          Tie,          \* two fits this close are the same
          Models,
          NoCrit, Unread, NoHeld, NoFit

Points == Positions \X Zetas

MaxRounds == 3
MaxAttempts == 3
MaxStarts == 2

(* criterion: an outer criterion from the start.  later: the default one   *)
(* has something to choose once a break-point is held.  marginal: it       *)
(* estimates coefficients too, which the refits hold.  chart: coordinates  *)
(* that can run past the edge of their chart.                              *)
ModelType == [criterion: BOOLEAN, later: BOOLEAN, sparse: BOOLEAN,
              marginal: BOOLEAN, structural: BOOLEAN, info: BOOLEAN,
              two_routes: BOOLEAN, starts: 0 .. MaxStarts, sharp: BOOLEAN,
              seg: BOOLEAN, boot: BOOLEAN, chart: BOOLEAN]

ASSUME DriverAssumption ==
  /\ ZStart \in Zetas
  /\ Value \in [Points -> Int] /\ Criterion \in [Points -> Int]
  /\ Tie \in Nat
  /\ Models \subseteq ModelType
  /\ \A m \in Models :
       /\ m.info \/ m.two_routes \/ m.starts > 0 => m.structural
       /\ m.boot => m.sharp \/ m.seg
       /\ m.later => m.sharp /\ m.marginal /\ ~m.criterion /\ ~m.sparse
  /\ NoCrit \notin Points /\ Unread \notin Points /\ NoHeld \notin Points
  /\ NoCrit # Unread

VARIABLES model,
          zeta, terms, route,    \* sst$zeta, st$terms, sst$route
          frozen,                \* some break-point is not held yet
          outer,                 \* outer_criterion is not NULL
          phase,                 \* the candidate being fitted
          pc,                    \* the stage of its fit_once()
          fit,                   \* res, crit and spec_h of fit_once()
          deferred, round,
          settled, moved,        \* st0's two flags in one, and sg0$moved
          best,                  \* those in hand: res, crit, spec_h
          saved,                 \* zinfo, zfirst, zbest, zsave
          starts, attempt,
          undone                 \* history: a fit that moved the design
                                 \* raised, or was turned down

design == <<zeta, terms, route, frozen>>
ofFit == <<fit, deferred, round, settled, moved>>
ofTournament == <<best, saved, starts, attempt>>
vars == <<model, design, outer, phase, pc, ofFit, ofTournament, undone>>

refresh == model.sharp \/ model.seg
crit_on == outer \/ model.sparse
here == <<terms, zeta>>

(* at, by: where the objective was read, and by which route.  crit: where  *)
(* the criterion was read; NoCrit, no search ran; Unread, one did, and its *)
(* reading after the last refit gave nothing.  held: where the             *)
(* coefficients it estimated were; spec: where those the refits hold were. *)
Fits == [at: Points, by: {"joint", "alternate"},
         crit: Points \union {NoCrit, Unread}, held: Points \union {NoHeld},
         spec: Points \union {NoHeld}, converged: BOOLEAN, sound: BOOLEAN]

HasCrit(f) == f.crit \in Points

ASSUME NoFitAssumption == NoFit \notin Fits

TypeOK ==
  /\ model \in Models
  /\ zeta \in Zetas /\ terms \in Positions /\ route \in {"joint", "alternate"}
  /\ frozen \in BOOLEAN /\ outer \in BOOLEAN
  /\ phase \in {"first", "info", "route", "start", "kkt", "done", "stopped"}
  /\ pc \in {"select", "deferred", "refine", "boot", "reselect", "settle",
             "deferral", "held", "reread", "end", "raised", "next", "over"}
  /\ fit \in Fits \union {NoFit} /\ best \in Fits \union {NoFit}
  /\ deferred \in BOOLEAN /\ round \in 1 .. MaxRounds
  /\ settled \in {"no", "held", "moved"} /\ moved \in BOOLEAN
  /\ saved \in Zetas
  /\ starts \in 0 .. MaxStarts /\ attempt \in 0 .. MaxAttempts
  /\ undone \in BOOLEAN

Init ==
  /\ model \in Models
  /\ zeta = ZStart /\ terms \in Positions /\ route = "joint"
  /\ frozen = model.sharp /\ outer = model.criterion
  /\ phase = "first" /\ pc = "select"
  /\ fit = NoFit /\ deferred = FALSE /\ round = 1
  /\ settled = "no" /\ moved = FALSE
  /\ best = NoFit /\ saved = ZStart
  /\ starts = model.starts /\ attempt = 0
  /\ undone = FALSE

-----------------------------------------------------------------------------
(* fit_once()                                                              *)

(* The filter and the coefficients are solved in one system.               *)
joint == model.structural /\ route = "joint"

(* Where a fit can leave the design: the filter's parameters move in all,  *)
(* the positions of frozen break-points only by the working fits, which a  *)
(* selection and the joint system do not run.                              *)
Moves(hold) ==
  /\ zeta' \in IF model.structural THEN Zetas ELSE {zeta}
  /\ terms' \in IF frozen /\ ~hold /\ ~joint THEN Positions ELSE {terms}
  /\ UNCHANGED <<route, frozen>>

(* A fit whose verdicts matter only where a filter may start again.        *)
Verdicts == IF model.info THEN BOOLEAN ELSE {TRUE}

(* The criterion of a search is the one at the mode of its last refit, or  *)
(* NA where it cannot be read there.                                       *)
Readings == {here', Unread}

(* What statmod_select() returns.  A working linearization is refused for  *)
(* the coefficients of a dispersion.                                       *)
Selected(c, s, r) ==
  LET held == IF model.marginal /\ outer /\ ~frozen THEN here' ELSE NoHeld IN
  [at |-> here', by |-> route, crit |-> r, held |-> held, spec |-> held,
   converged |-> c, sound |-> s]

(* What statmod_alternate() gives, in the result f.                        *)
Alternated(c, s, f) == [f EXCEPT !.at = here', !.by = route,
                                 !.converged = c, !.sound = s]

Empty == [at |-> here, by |-> route, crit |-> NoCrit, held |-> NoHeld,
          spec |-> NoHeld, converged |-> FALSE, sound |-> FALSE]

(* The selection, or the alternation where nothing chooses.                *)
Select ==
  /\ pc = "select" /\ Moves(crit_on)
  /\ \E c, s \in Verdicts :
       IF crit_on THEN \E r \in Readings : fit' = Selected(c, s, r)
       ELSE fit' = Alternated(c, s, Empty)
  /\ pc' = IF crit_on /\ frozen THEN "refine" ELSE "boot"
  /\ UNCHANGED <<model, outer, phase, deferred, round, settled, moved, ofTournament, undone>>

(* "unavailable at the starting hyperparameters"                           *)
Defer ==
  /\ pc = "select" /\ outer /\ refresh
  /\ Moves(TRUE)
  /\ deferred' = TRUE /\ pc' = "deferred"
  /\ UNCHANGED <<model, outer, phase, fit, round, settled, moved, ofTournament,
                 undone>>

Deferred ==
  /\ pc = "deferred" /\ Moves(FALSE)
  /\ \E c, s \in Verdicts : fit' = Alternated(c, s, Empty)
  /\ pc' = "boot"
  /\ UNCHANGED <<model, outer, phase, deferred, round, settled, moved, ofTournament, undone>>

(* Anything else it raises ends fit_once().                                *)
Raises ==
  /\ pc \in {"select", "deferred"} /\ Moves(pc = "select" /\ crit_on)
  /\ pc' = "raised" /\ undone' = TRUE
  /\ UNCHANGED <<model, outer, phase, ofFit, ofTournament>>

(* The frozen break-points move at the hyperparameters chosen.             *)
Refine ==
  /\ pc = "refine" /\ Moves(FALSE)
  /\ \E c, s \in Verdicts : fit' = Alternated(c, s, fit)
  /\ pc' = "boot"
  /\ UNCHANGED <<model, outer, phase, deferred, round, settled, moved, ofTournament, undone>>

(* It raises, or its objective is not finite: the result is left alone.    *)
RefineFails ==
  /\ pc = "refine" /\ Moves(FALSE)
  /\ undone' = TRUE /\ pc' = "boot"
  /\ UNCHANGED <<model, outer, phase, ofFit, ofTournament>>

(* statmod_boot_restart(): a better fit, with the design it left, or the   *)
(* same.                                                                   *)
Boot ==
  /\ pc = "boot" /\ model.boot
  /\ \/ /\ UNCHANGED <<design, fit>> /\ pc' = "settle"
     \/ /\ terms' \in IF model.sharp THEN Positions ELSE {terms}
        /\ zeta' \in IF model.structural THEN Zetas ELSE {zeta}
        /\ UNCHANGED <<route, frozen>>
        /\ \E c, s \in Verdicts : fit' = Alternated(c, s, fit)
        /\ pc' = IF fit.held # NoHeld THEN "reselect" ELSE "settle"
  /\ UNCHANGED <<model, outer, phase, deferred, round, settled, moved, ofTournament, undone>>

NoBoot ==
  /\ pc = "boot" /\ ~model.boot
  /\ pc' = "settle"
  /\ UNCHANGED <<model, design, outer, phase, ofFit, ofTournament, undone>>

(* The search again from the restarted point.  spec_h stays.               *)
Reselect ==
  /\ pc = "reselect" /\ Moves(TRUE)
  /\ \E c, s \in Verdicts, r \in Readings :
       fit' = [Selected(c, s, r) EXCEPT !.spec = fit.spec]
  /\ pc' = "settle"
  /\ UNCHANGED <<model, outer, phase, deferred, round, settled, moved, ofTournament, undone>>

ReselectFails ==
  /\ pc = "reselect" /\ Moves(TRUE)
  /\ undone' = TRUE /\ pc' = "settle"
  /\ UNCHANGED <<model, outer, phase, ofFit, ofTournament>>

(* The two settles.  They put the positions back to those of the fit they  *)
(* return, and the filter's parameters stay where the last refit was.      *)
Settle ==
  /\ pc = "settle"
  /\ settled' \in IF model.sharp THEN {"no", "held", "moved"} ELSE {"no"}
  /\ moved' \in IF model.seg THEN BOOLEAN ELSE {FALSE}
  /\ terms' \in IF settled' = "moved" THEN Positions ELSE {terms}
  /\ zeta' \in IF model.structural /\ refresh THEN Zetas ELSE {zeta}
  /\ IF settled' = "no" /\ ~moved' THEN UNCHANGED fit
     ELSE \E z \in IF model.structural THEN Zetas ELSE {zeta} :
            fit' = [fit EXCEPT !.at = <<terms', z>>, !.by = route]
  /\ undone' = (undone \/ fit'.at # here')
  /\ pc' = IF deferred THEN "deferral" ELSE "held"
  /\ UNCHANGED <<model, route, frozen, outer, phase, deferred, round, ofTournament>>

(* The criterion that could not be read at the start, read now.            *)
ReadDeferred ==
  /\ pc = "deferral" /\ Moves(TRUE)
  /\ \E c, s \in Verdicts, r \in Readings : fit' = Selected(c, s, r)
  /\ moved' = TRUE
  /\ pc' = "held"
  /\ UNCHANGED <<model, outer, phase, deferred, round, settled, ofTournament, undone>>

DeferralFails ==
  /\ pc = "deferral" /\ Moves(TRUE)
  /\ pc' = "raised" /\ undone' = TRUE
  /\ UNCHANGED <<model, outer, phase, ofFit, ofTournament>>

Same == settled # "moved" /\ ~moved
Nothing == settled = "no" /\ ~moved

(* From here on a break-point that is held is a block like any other, and  *)
(* the default criterion may have something to choose.                     *)
Hold ==
  /\ pc = "held"
  /\ IF round > 1 /\ Same
     THEN pc' = "end" /\ UNCHANGED <<frozen, outer, deferred, round>>
     ELSE /\ frozen' = (frozen /\ settled = "no")
          /\ outer' = (outer \/ (settled # "no" /\ ~crit_on /\ model.later))
          /\ deferred' = FALSE
          /\ pc' = IF (outer' \/ model.sparse) /\ ~Nothing
                   THEN (IF ~deferred THEN "reread"
                         ELSE IF round < MaxRounds THEN "settle" ELSE "end")
                   ELSE "end"
          /\ round' = IF pc' = "settle" THEN round + 1 ELSE round
  /\ UNCHANGED <<model, zeta, terms, route, phase, fit, settled, moved,
                 ofTournament, undone>>

(* Mutant: as long as something moves.                                     *)
Again_noBound == pc' = "settle" /\ round' = round + 1

Again == IF round < MaxRounds THEN pc' = "settle" /\ round' = round + 1
         ELSE pc' = "end" /\ UNCHANGED round

(* Mutant: the refits go on holding what the first search estimated.       *)
Reread_keepSpec ==
  /\ pc = "reread" /\ Moves(TRUE)
  /\ \E c, s \in Verdicts, r \in Readings :
       fit' = [Selected(c, s, r) EXCEPT !.spec = fit.spec]
  /\ Again
  /\ UNCHANGED <<model, outer, phase, deferred, settled, moved, ofTournament, undone>>

(* The criterion on the held block, whether or not a position moved.       *)
Reread ==
  /\ pc = "reread" /\ Moves(TRUE)
  /\ \E c, s \in Verdicts, r \in Readings : fit' = Selected(c, s, r)
  /\ Again
  /\ UNCHANGED <<model, outer, phase, deferred, settled, moved, ofTournament, undone>>

RereadFails ==
  /\ pc = "reread" /\ Moves(TRUE)
  /\ undone' = TRUE /\ Again
  /\ UNCHANGED <<model, outer, phase, fit, deferred, settled, moved, ofTournament>>

-----------------------------------------------------------------------------
(* The candidates                                                          *)

FitOnce(ph) == /\ phase' = ph /\ pc' = "select"
               /\ fit' = NoFit /\ deferred' = FALSE /\ round' = 1
               /\ settled' = "no" /\ moved' = FALSE

(* Mutant: the objective decides, whatever criterion ran.                  *)
Better_objective(new, old) == Value[new.at] < Value[old.at]

(* edge_restart_better(): a criterion that is NA on either side leaves it  *)
(* to the objective.                                                       *)
Better(new, old) ==
  IF HasCrit(new) /\ HasCrit(old)
  THEN Criterion[new.crit] > Criterion[old.crit]
  ELSE Value[new.at] < Value[old.at]

Near(x, y) == x - y \in -Tie .. Tie

(* retry_tie()                                                             *)
Tied(a, b) == IF HasCrit(a) /\ HasCrit(b)
              THEN Near(Criterion[a.crit], Criterion[b.crit])
              ELSE Near(Value[a.at], Value[b.at])

(* The second start is paid only on a failure of the first.                *)
FirstDone ==
  /\ phase = "first" /\ pc = "end"
  /\ best' = fit
  /\ IF model.info /\ ~(fit.converged /\ fit.sound)
     THEN saved' = zeta /\ zeta' \in Zetas /\ FitOnce("info")
     ELSE pc' = "next" /\ UNCHANGED <<saved, zeta, phase, ofFit>>
  /\ UNCHANGED <<model, terms, route, frozen, outer, starts, attempt, undone>>

FirstRaises ==
  /\ phase = "first" /\ pc = "raised"
  /\ IF model.info
     THEN saved' = zeta /\ zeta' \in Zetas /\ FitOnce("info")
     ELSE /\ phase' = "stopped" /\ pc' = "over"
          /\ UNCHANGED <<saved, zeta, ofFit>>
  /\ UNCHANGED <<model, terms, route, frozen, outer, best, starts, attempt, undone>>

InfoWins == \/ best = NoFit
            \/ Better(fit, best)
            \/ fit.converged /\ (~Better(best, fit) \/ Tied(best, fit))

(* The filter's parameters go back; nothing else of the design does.       *)
TurnDown == zeta' = saved /\ undone' = TRUE /\ UNCHANGED best

Keep == best' = fit /\ UNCHANGED <<zeta, undone>>

InfoDone ==
  /\ phase = "info" /\ pc = "end"
  /\ IF InfoWins THEN Keep ELSE TurnDown
  /\ pc' = "next"
  /\ UNCHANGED <<model, terms, route, frozen, outer, phase, ofFit, saved, starts,
                 attempt>>

InfoRaises ==
  /\ phase = "info" /\ pc = "raised"
  /\ TurnDown
  /\ IF best = NoFit THEN phase' = "stopped" /\ pc' = "over"
     ELSE pc' = "next" /\ UNCHANGED phase
  /\ UNCHANGED <<model, terms, route, frozen, outer, ofFit, saved, starts, attempt>>

routeLeft == phase \in {"first", "info"} /\ model.two_routes

(* From the start of the first fit, by the alternation.                    *)
TryRoute ==
  /\ pc = "next" /\ routeLeft
  /\ saved' = zeta /\ zeta' = ZStart /\ route' = "alternate"
  /\ FitOnce("route")
  /\ UNCHANGED <<model, terms, frozen, outer, best, starts, attempt, undone>>

RouteDone ==
  /\ phase = "route" /\ pc = "end" /\ Better(fit, best)
  /\ Keep
  /\ pc' = "next"
  /\ UNCHANGED <<model, terms, route, frozen, outer, phase, ofFit, saved, starts,
                 attempt>>

(* Mutant: the route that lost stays recorded.                             *)
RouteLoses_kept ==
  /\ phase = "route"
  /\ pc = "raised" \/ (pc = "end" /\ ~Better(fit, best))
  /\ TurnDown
  /\ pc' = "next"
  /\ UNCHANGED <<model, terms, route, frozen, outer, phase, ofFit, saved, starts,
                 attempt>>

RouteLoses ==
  /\ phase = "route"
  /\ pc = "raised" \/ (pc = "end" /\ ~Better(fit, best))
  /\ TurnDown /\ route' = "joint"
  /\ pc' = "next"
  /\ UNCHANGED <<model, terms, frozen, outer, phase, ofFit, saved, starts, attempt>>

TryStart ==
  /\ pc = "next" /\ ~routeLeft /\ starts > 0
  /\ starts' = starts - 1
  /\ saved' = zeta /\ zeta' \in Zetas
  /\ FitOnce("start")
  /\ UNCHANGED <<model, terms, route, frozen, outer, best, attempt, undone>>

StartDone ==
  /\ phase = "start" /\ pc \in {"end", "raised"}
  /\ IF pc = "end" /\ Better(fit, best) THEN Keep ELSE TurnDown
  /\ pc' = "next"
  /\ UNCHANGED <<model, terms, route, frozen, outer, phase, ofFit, saved, starts,
                 attempt>>

tried == pc = "next" /\ ~routeLeft /\ starts = 0

Restarted(c, s, r) ==
  IF crit_on THEN LET f == Selected(c, s, r) IN
                  [f EXCEPT !.spec = IF f.held # NoHeld THEN f.held ELSE best.spec]
  ELSE [Alternated(c, s, Empty) EXCEPT !.spec = best.spec]

(* A coordinate past the edge of its chart points inward: it is moved back *)
(* and the model fitted again from there.                                  *)
EdgeGains ==
  /\ tried /\ model.chart /\ attempt < MaxAttempts
  /\ attempt' = attempt + 1 /\ phase' = "kkt"
  /\ Moves(crit_on)
  /\ \E c, s \in Verdicts, r \in Readings : best' = Restarted(c, s, r)
  /\ Better(best', best)
  /\ UNCHANGED <<model, outer, pc, ofFit, saved, starts, undone>>

(* It raises, or is no better.                                             *)
EdgeTurnedDown ==
  /\ tried /\ model.chart /\ attempt < MaxAttempts
  /\ attempt' = MaxAttempts /\ phase' = "kkt"
  /\ zeta' = zeta
  /\ terms' \in IF frozen /\ ~crit_on /\ ~joint THEN Positions ELSE {terms}
  /\ undone' = TRUE
  /\ UNCHANGED <<model, route, frozen, outer, pc, ofFit, best, saved, starts>>

(* The fit is put together from what is in hand and from the design.       *)
Assemble ==
  /\ tried
  /\ phase' = "done" /\ pc' = "over"
  /\ UNCHANGED <<model, design, outer, ofFit, ofTournament, undone>>

Stages == \/ Select \/ Defer \/ Deferred \/ Raises \/ Refine \/ RefineFails
          \/ Boot \/ NoBoot \/ Reselect \/ ReselectFails \/ Settle
          \/ ReadDeferred \/ DeferralFails \/ Hold \/ Reread \/ RereadFails

Candidates == \/ FirstDone \/ FirstRaises \/ InfoDone \/ InfoRaises
              \/ TryRoute \/ RouteDone \/ RouteLoses \/ TryStart \/ StartDone
              \/ EdgeGains \/ EdgeTurnedDown \/ Assemble

Next == Stages \/ Candidates

Spec == Init /\ [][Next]_vars
-----------------------------------------------------------------------------
(* The fit returned, "the coefficients, hyperparameters and structural     *)
(* parameters that the fit reached" (R/statmod.R:10), is one fit: the      *)
(* structural parameters and the route in the design are those of the      *)
(* coefficients and the objective in hand, whatever candidates were turned *)
(* down or raised on the way, and a criterion that was read was read       *)
(* there.  With break-points, as long as no fit that moved the design was  *)
(* discarded.                                                              *)
ReturnedFitIsOne ==
  (phase = "done" /\ (refresh => ~undone)) =>
    /\ best.at = here
    /\ model.two_routes => best.by = route
    /\ HasCrit(best) /\ ~refresh => best.crit = best.at

(* The same without that condition.                                        *)
PositionsAreTheFits ==
  phase = "done" => best.at[1] = terms

(* "the coefficients the criterion estimated stay where it put them in     *)
(* every refit below" (R/statmod.R:729): what the settles' refits and the  *)
(* restarts hold is where the last search put it, unless a boot restart    *)
(* came between.                                                           *)
HeldWhereTheCriterionPutThem ==
  ~model.boot =>
    /\ pc = "settle" /\ fit.held # NoHeld => fit.spec = fit.held
    /\ pc = "next" /\ best.held # NoHeld => best.spec = best.held

(* A criterion that was asked for and put off has had its search before    *)
(* the fit is returned, or the fit stops, so no candidate enters the       *)
(* comparisons that none chose; and no comparison gives up what was        *)
(* reached.  Candidates go by three measures: the criterion where both     *)
(* fits have one, the objective where either is NA, and the verdict        *)
(* between fits that tie.  The fit in hand is never replaced by one of a   *)
(* lower criterion, nor, where a reading is NA, by one of a higher         *)
(* objective (R/kkt.R:131, R/statmod.R:912).                               *)
CriterionNeverLost ==
  [][/\ (pc' \in {"end", "next"} /\ (model.criterion \/ model.sparse)) =>
          /\ pc' = "end" => fit'.crit # NoCrit
          /\ pc' = "next" => best'.crit # NoCrit
     /\ best # NoFit =>
          /\ best.crit # NoCrit => best'.crit # NoCrit
          /\ IF HasCrit(best) /\ HasCrit(best')
             THEN Criterion[best'.crit] + Tie >= Criterion[best.crit]
             ELSE Value[best'.at] <= Value[best.at] + Tie]_vars
=============================================================================
