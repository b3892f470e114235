------------------------ MODULE StatmodDriver_proofs ------------------------
(***************************************************************************)
(* The driver of StatmodDriver for every objective, criterion and set of   *)
(* models: the fit it returns is one fit.                                  *)
(***************************************************************************)
EXTENDS StatmodDriver, TLAPS

(* The stages at which fit_once() has a result in hand.                    *)
Fitted == pc \in {"refine", "boot", "reselect", "settle", "deferral", "held",
                  "reread", "end"}

(* A fit is in hand whenever one is used, and the phases follow each other *)
(* with the stages.                                                        *)
InHand ==
  /\ Fitted => fit \in Fits
  /\ pc = "next" \/ phase \in {"route", "start", "kkt", "done"} => best \in Fits
  /\ phase = "first" /\ pc # "next" => best = NoFit
  /\ phase = "kkt" => pc = "next"
  /\ pc = "over" <=> phase \in {"done", "stopped"}

(* The route changes only for the candidate that is fitted by it.          *)
FirstRoute == phase \in {"first", "info"} => route = "joint"

(* Without break-points a fit has three stages, and none is put off.       *)
NoBreaks ==
  ~refresh => /\ ~frozen /\ ~deferred /\ settled = "no" /\ ~moved
              /\ pc \notin {"deferred", "refine", "reselect", "deferral", "reread"}

(* The result in hand is that of the design.                               *)
Undisturbed == refresh => ~undone

FitIsHere == Undisturbed /\ Fitted => fit.at = here /\ fit.by = route

BestIsHere ==
  Undisturbed /\ (pc = "next" \/ phase = "done")
    => best.at = here /\ best.by = route

(* While a candidate is fitted, what would be put back is that of the fit  *)
(* in hand: the parameters saved, and the first route.                     *)
BestIsSaved ==
  (/\ ~refresh /\ pc \notin {"next", "over"}
   /\ phase \in {"info", "route", "start"} /\ best # NoFit)
    => /\ best.at = <<terms, saved>>
       /\ best.by = IF phase = "route" THEN "joint" ELSE route

(* Without break-points nothing moves after a criterion is read.           *)
CritOf(f) == f.crit \in {NoCrit, Unread} \/ f.crit = f.at
FitCrit == ~refresh /\ Fitted => CritOf(fit)
BestCrit == ~refresh /\ best \in Fits => CritOf(best)

IInv == /\ TypeOK /\ InHand /\ FirstRoute /\ NoBreaks
        /\ FitIsHere /\ BestIsHere /\ BestIsSaved /\ FitCrit /\ BestCrit

-----------------------------------------------------------------------------
(* What the two kinds of inner fit return is a fit, of the design they     *)
(* leave and by its route.                                                 *)
LEMMA SelectedIsHere ==
  ASSUME NEW c \in BOOLEAN, NEW s \in BOOLEAN, NEW r \in Readings,
         here' \in Points, route \in {"joint", "alternate"}
  PROVE  /\ Selected(c, s, r) \in Fits
         /\ Selected(c, s, r).at = here' /\ Selected(c, s, r).by = route
         /\ Selected(c, s, r).crit \in {here', Unread}
<1>1. r \in {here', Unread} /\ r \in Points \union {NoCrit, Unread}
  BY DEF Readings
<1> QED
  BY <1>1 DEF Selected, Fits

LEMMA AlternatedIsHere ==
  ASSUME NEW c \in BOOLEAN, NEW s \in BOOLEAN, NEW f \in Fits,
         here' \in Points, route \in {"joint", "alternate"}
  PROVE  /\ Alternated(c, s, f) \in Fits
         /\ Alternated(c, s, f).at = here' /\ Alternated(c, s, f).by = route
         /\ Alternated(c, s, f).crit = f.crit
  BY DEF Alternated, Fits

LEMMA EmptyIsFit ==
  ASSUME TypeOK
  PROVE  Empty \in Fits /\ Empty.crit = NoCrit
  BY DEF TypeOK, Empty, Fits, Points, here

(* An inner fit leaves the design where a design can be, on its route and  *)
(* with its break-points held or not, and those that are held in place.    *)
LEMMA MovesStay ==
  ASSUME TypeOK, NEW hold \in BOOLEAN, Moves(hold)
  PROVE  /\ zeta' \in Zetas /\ terms' \in Positions /\ here' \in Points
         /\ UNCHANGED <<route, frozen>>
         /\ ~frozen => UNCHANGED terms
  BY DEF TypeOK, Moves, here, Points

LEMMA VerdictIsBoolean == ASSUME NEW c \in Verdicts PROVE c \in BOOLEAN
  BY DEF Verdicts

-----------------------------------------------------------------------------
LEMMA InitHolds == Init => IInv
<1> SUFFICES ASSUME Init PROVE IInv
  OBVIOUS
<1> USE DriverAssumption DEF DriverAssumption
<1>1. model \in ModelType
  BY DEF Init
<1>2. starts \in 0 .. MaxStarts /\ frozen \in BOOLEAN /\ outer \in BOOLEAN
  <2>1. starts = model.starts /\ frozen = model.sharp /\ outer = model.criterion
    BY DEF Init
  <2> QED
    BY <1>1, <2>1 DEF ModelType
<1>3. TypeOK
  <2>1. deferred \in BOOLEAN /\ moved \in BOOLEAN /\ undone \in BOOLEAN
    BY DEF Init
  <2>2. round \in 1 .. MaxRounds /\ attempt \in 0 .. MaxAttempts
    BY DEF Init, MaxRounds, MaxAttempts
  <2>3. /\ model \in Models /\ zeta \in Zetas /\ saved \in Zetas /\ terms \in Positions
        /\ route = "joint" /\ phase = "first" /\ pc = "select" /\ settled = "no"
        /\ fit = NoFit /\ best = NoFit
    BY DEF Init
  <2> QED
    BY <1>2, <2>1, <2>2, <2>3 DEF TypeOK
<1>4. ~Fitted /\ phase = "first" /\ pc = "select"
  BY DEF Init, Fitted
<1>5. InHand /\ FirstRoute /\ FitIsHere /\ BestIsHere /\ BestIsSaved /\ FitCrit
  BY <1>4 DEF Init, InHand, FirstRoute, FitIsHere, BestIsHere, BestIsSaved, FitCrit
<1>6. NoBreaks
  BY DEF Init, NoBreaks, refresh
<1>7. BestCrit
  BY NoFitAssumption DEF Init, BestCrit
<1> QED
  BY <1>3, <1>5, <1>6, <1>7 DEF IInv

-----------------------------------------------------------------------------
(* What every stage of fit_once() does to the invariant: the tournament is *)
(* left alone, and the result is again that of the design.                 *)
StageLeaves ==
  /\ UNCHANGED <<model, route, phase, best, saved, starts, attempt>>
  /\ pc \notin {"next", "over"}
  /\ Fitted' \/ pc' \in {"deferred", "raised"}
  /\ zeta' \in Zetas /\ terms' \in Positions /\ frozen' \in BOOLEAN
  /\ outer' \in BOOLEAN /\ deferred' \in BOOLEAN /\ round' \in 1 .. MaxRounds
  /\ settled' \in {"no", "held", "moved"} /\ moved' \in BOOLEAN
  /\ undone' \in BOOLEAN /\ (undone => undone')
  /\ fit' \in Fits \union {NoFit} /\ (Fitted' => fit' \in Fits)
  /\ ~refresh => UNCHANGED terms
  /\ NoBreaks' /\ FitIsHere' /\ FitCrit'

LEMMA StageHolds == IInv /\ StageLeaves => IInv'
<1> SUFFICES ASSUME IInv, StageLeaves PROVE IInv'
  OBVIOUS
<1> USE DEF IInv, StageLeaves
<1>1. pc' \notin {"next", "over"}
  BY DEF Fitted
<1>2. TypeOK'
  BY DEF TypeOK, Fitted
<1>3. InHand'
  BY <1>1 DEF InHand
<1>4. FirstRoute' /\ BestCrit'
  BY DEF FirstRoute, BestCrit, refresh
<1>5. BestIsHere'
  BY <1>1, <1>3 DEF BestIsHere, InHand
<1>6. BestIsSaved'
  BY <1>1 DEF BestIsSaved, refresh
<1> QED
  BY <1>2, <1>3, <1>4, <1>5, <1>6

(* An inner fit whose result is taken.                                     *)
LEMMA TakenHolds ==
  ASSUME IInv, NEW hold \in BOOLEAN, Moves(hold), fit' \in Fits,
         fit'.at = here', fit'.by = route, ~refresh => CritOf(fit)',
         UNCHANGED <<model, outer, phase, deferred, settled, best, saved, starts,
                     attempt, undone>>,
         round' \in 1 .. MaxRounds, moved' \in BOOLEAN,
         pc \notin {"next", "over"}, Fitted', NoBreaks'
  PROVE  IInv'
<1>1. /\ zeta' \in Zetas /\ terms' \in Positions /\ UNCHANGED <<route, frozen>>
      /\ ~frozen => UNCHANGED terms
  BY MovesStay DEF IInv
<1>2. ~refresh => UNCHANGED terms
  BY <1>1 DEF IInv, NoBreaks
<1>3. FitIsHere' /\ FitCrit'
  BY <1>1 DEF FitIsHere, FitCrit, refresh, here
<1>4. StageLeaves
  BY <1>1, <1>2, <1>3 DEF StageLeaves, IInv, TypeOK
<1> QED
  BY <1>4, StageHolds

(* One that is not, having moved the design.                               *)
LEMMA LostHolds ==
  ASSUME IInv, NEW hold \in BOOLEAN, Moves(hold),
         (refresh /\ undone') \/ pc' \in {"deferred", "raised"},
         UNCHANGED <<model, outer, phase, fit, settled, moved, best, saved, starts,
                     attempt>>,
         deferred' \in BOOLEAN, undone' \in BOOLEAN, undone => undone',
         round' \in 1 .. MaxRounds,
         pc \notin {"next", "over"},
         Fitted' \/ pc' \in {"deferred", "raised"}, Fitted' => Fitted, NoBreaks'
  PROVE  IInv'
<1>1. /\ zeta' \in Zetas /\ terms' \in Positions /\ UNCHANGED <<route, frozen>>
      /\ ~frozen => UNCHANGED terms
  BY MovesStay DEF IInv
<1>2. ~refresh => UNCHANGED terms
  BY <1>1 DEF IInv, NoBreaks
<1>3. FitIsHere' /\ FitCrit'
  BY DEF FitIsHere, FitCrit, refresh, Undisturbed, Fitted
<1>4. Fitted' => fit' \in Fits
  BY DEF IInv, InHand
<1>5. StageLeaves
  BY <1>1, <1>2, <1>3, <1>4 DEF StageLeaves, IInv, TypeOK
<1> QED
  BY <1>5, StageHolds

-----------------------------------------------------------------------------
LEMMA HereIsPoint ==
  ASSUME IInv, NEW hold \in BOOLEAN, Moves(hold)
  PROVE  here' \in Points /\ route \in {"joint", "alternate"}
  BY MovesStay DEF IInv, TypeOK

(* The settles are not begun again for ever.                               *)
LEMMA AgainIsBounded ==
  ASSUME round \in 1 .. MaxRounds, Again
  PROVE  round' \in 1 .. MaxRounds
  BY DEF Again, MaxRounds

LEMMA SelectHolds == IInv /\ Select => IInv'
<1> SUFFICES ASSUME IInv, Select PROVE IInv'
  OBVIOUS
<1>1. Moves(crit_on) /\ crit_on \in BOOLEAN
  BY DEF Select, crit_on, IInv, TypeOK
<1>2. PICK c \in Verdicts, s \in Verdicts :
        IF crit_on THEN \E r \in Readings : fit' = Selected(c, s, r)
        ELSE fit' = Alternated(c, s, Empty)
  BY DEF Select
<1>4. c \in BOOLEAN /\ s \in BOOLEAN /\ here' \in Points /\ route \in {"joint", "alternate"}
  BY <1>1, VerdictIsBoolean, HereIsPoint
<1>5. fit' \in Fits /\ fit'.at = here' /\ fit'.by = route /\ CritOf(fit)'
  <2>1. CASE crit_on
    <3>1. PICK r \in Readings : fit' = Selected(c, s, r)
      BY <1>2, <2>1
    <3> QED
      BY <1>4, <3>1, SelectedIsHere DEF CritOf
  <2>2. CASE ~crit_on
    BY <1>2, <1>4, <2>2, EmptyIsFit, AlternatedIsHere DEF CritOf, IInv
  <2> QED
    BY <2>1, <2>2
<1>6. NoBreaks' /\ Fitted'
  BY <1>1, MovesStay DEF Select, IInv, NoBreaks, refresh, Fitted
<1> QED
  BY <1>1, <1>5, <1>6, TakenHolds DEF Select, ofTournament, IInv, TypeOK

(* The alternation in place of a criterion that cannot be read, and from   *)
(* the hyperparameters chosen.                                             *)
LEMMA AlternationsHold == IInv /\ (Deferred \/ Refine) => IInv'
<1> SUFFICES ASSUME IInv, Deferred \/ Refine PROVE IInv'
  OBVIOUS
<1>1. Moves(FALSE) /\ pc \in {"deferred", "refine"} /\ pc' = "boot"
  BY DEF Deferred, Refine
<1>2. PICK f \in {Empty, fit} : f \in Fits /\ \E c, s \in Verdicts : fit' = Alternated(c, s, f)
  <2>1. CASE Deferred
    BY <2>1, EmptyIsFit DEF Deferred, IInv
  <2>2. CASE Refine
    BY <2>2 DEF Refine, IInv, InHand, Fitted
  <2> QED
    BY <2>1, <2>2
<1>3. PICK c \in Verdicts : \E s \in Verdicts : fit' = Alternated(c, s, f)
  BY <1>2
<1>4. PICK s \in Verdicts : fit' = Alternated(c, s, f)
  BY <1>3
<1>5. c \in BOOLEAN /\ s \in BOOLEAN /\ here' \in Points /\ route \in {"joint", "alternate"}
  BY <1>1, VerdictIsBoolean, HereIsPoint
<1>6. fit' \in Fits /\ fit'.at = here' /\ fit'.by = route
  BY <1>2, <1>4, <1>5, AlternatedIsHere
<1>7. refresh /\ NoBreaks' /\ Fitted'
  BY <1>1, MovesStay DEF Deferred, Refine, IInv, NoBreaks, refresh, Fitted
<1> QED
  BY <1>1, <1>6, <1>7, TakenHolds DEF Deferred, Refine, ofTournament, IInv, TypeOK

(* The searches after the first.                                           *)
LEMMA SearchesHold == IInv /\ (Reselect \/ ReadDeferred \/ Reread) => IInv'
<1> SUFFICES ASSUME IInv, Reselect \/ ReadDeferred \/ Reread PROVE IInv'
  OBVIOUS
<1>1. Moves(TRUE) /\ pc \in {"reselect", "deferral", "reread"}
      /\ pc' \in {"settle", "held", "end"}
  BY DEF Reselect, ReadDeferred, Reread, Again
<1>2. PICK c \in Verdicts, s \in Verdicts, r \in Readings :
        fit' = Selected(c, s, r) \/ fit' = [Selected(c, s, r) EXCEPT !.spec = fit.spec]
  BY DEF Reselect, ReadDeferred, Reread
<1>4. c \in BOOLEAN /\ s \in BOOLEAN /\ here' \in Points /\ route \in {"joint", "alternate"}
  BY <1>1, VerdictIsBoolean, HereIsPoint
<1>5. fit \in Fits
  BY <1>1 DEF IInv, InHand, Fitted
<1>6. fit' \in Fits /\ fit'.at = here' /\ fit'.by = route
  <2>1. /\ Selected(c, s, r) \in Fits
        /\ Selected(c, s, r).at = here' /\ Selected(c, s, r).by = route
    BY <1>4, SelectedIsHere
  <2>2. CASE fit' = Selected(c, s, r)
    BY <2>1, <2>2
  <2>3. CASE fit' = [Selected(c, s, r) EXCEPT !.spec = fit.spec]
    BY <2>1, <2>3, <1>5 DEF Fits
  <2> QED
    BY <1>2, <2>2, <2>3
<1>7. refresh /\ NoBreaks' /\ Fitted'
  BY <1>1 DEF Reselect, ReadDeferred, Reread, IInv, NoBreaks, refresh, Fitted
<1>8. round' \in 1 .. MaxRounds /\ moved' \in BOOLEAN
  <2>1. round' = round \/ Again
    BY DEF Reselect, ReadDeferred, Reread
  <2>2. round' \in 1 .. MaxRounds
    BY <2>1, AgainIsBounded DEF IInv, TypeOK
  <2>3. moved' = TRUE \/ moved' = moved
    BY DEF Reselect, ReadDeferred, Reread
  <2> QED
    BY <2>2, <2>3 DEF IInv, TypeOK
<1> QED
  BY <1>1, <1>6, <1>7, <1>8, TakenHolds
     DEF Reselect, ReadDeferred, Reread, ofTournament, IInv, TypeOK

(* What raises, or is not finite, has moved the design.                    *)
LEMMA FailuresHold ==
  IInv /\ (Defer \/ Raises \/ RefineFails \/ ReselectFails \/ DeferralFails \/ RereadFails)
    => IInv'
<1> SUFFICES ASSUME IInv, Defer \/ Raises \/ RefineFails \/ ReselectFails
                            \/ DeferralFails \/ RereadFails
             PROVE  IInv'
  OBVIOUS
<1>1. PICK hold \in BOOLEAN : Moves(hold)
  BY DEF Defer, Raises, RefineFails, ReselectFails, DeferralFails, RereadFails
<1>2. /\ UNCHANGED <<model, outer, phase, fit, settled, moved, best, saved, starts,
                     attempt>>
      /\ pc \notin {"next", "over"}
  BY DEF Defer, Raises, RefineFails, ReselectFails, DeferralFails, RereadFails,
         ofFit, ofTournament
<1>3. /\ deferred' \in BOOLEAN /\ undone' \in BOOLEAN
      /\ undone => undone'
      /\ round' \in 1 .. MaxRounds
  <2>1. round' = round \/ Again
    BY DEF Defer, Raises, RefineFails, ReselectFails, DeferralFails, RereadFails, ofFit
  <2>2. round' \in 1 .. MaxRounds
    BY <2>1, AgainIsBounded DEF IInv, TypeOK
  <2>3. undone' = TRUE \/ undone' = undone
    BY DEF Defer, Raises, RefineFails, ReselectFails, DeferralFails, RereadFails
  <2>4. deferred' = TRUE \/ deferred' = deferred
    BY DEF Defer, Raises, RefineFails, ReselectFails, DeferralFails, RereadFails, ofFit
  <2> QED
    BY <2>2, <2>3, <2>4 DEF IInv, TypeOK
<1>4. /\ (refresh /\ undone') \/ pc' \in {"deferred", "raised"}
      /\ Fitted' \/ pc' \in {"deferred", "raised"}
      /\ Fitted' => Fitted
  BY DEF Defer, Raises, RefineFails, ReselectFails, DeferralFails, RereadFails, Again,
         IInv, NoBreaks, Fitted
<1>5. NoBreaks'
  BY <1>1, <1>2, MovesStay
     DEF Defer, Raises, RefineFails, ReselectFails, DeferralFails, RereadFails, Again,
         ofFit, IInv, NoBreaks, refresh
<1> QED
  BY <1>1, <1>2, <1>3, <1>4, <1>5, LostHolds

LEMMA BootHolds == IInv /\ (Boot \/ NoBoot) => IInv'
<1> SUFFICES ASSUME IInv, Boot \/ NoBoot PROVE IInv'
  OBVIOUS
<1> USE DEF IInv
<1>1. /\ UNCHANGED <<model, outer, phase, deferred, round, settled, moved, best, saved,
                     starts, attempt, undone, route, frozen>>
      /\ pc = "boot" /\ pc' \in {"settle", "reselect"}
  BY DEF Boot, NoBoot, ofTournament, ofFit, design
<1>2. Fitted /\ Fitted' /\ fit \in Fits
  BY <1>1 DEF Fitted, InHand
<1>3. CASE UNCHANGED <<zeta, terms, fit>> /\ pc' = "settle"
  <2>1. NoBreaks' /\ FitIsHere' /\ FitCrit'
    BY <1>1, <1>2, <1>3 DEF NoBreaks, FitIsHere, FitCrit, CritOf, Undisturbed, refresh, here
  <2>2. StageLeaves
    BY <1>1, <1>2, <1>3, <2>1 DEF StageLeaves, TypeOK
  <2> QED
    BY <2>2, StageHolds
<1>4. CASE /\ model.boot
           /\ terms' \in IF model.sharp THEN Positions ELSE {terms}
           /\ zeta' \in IF model.structural THEN Zetas ELSE {zeta}
           /\ \E c, s \in Verdicts : fit' = Alternated(c, s, fit)
  <2>1. refresh /\ refresh'
    BY <1>1, <1>4, DriverAssumption DEF DriverAssumption, TypeOK, refresh
  <2>2. zeta' \in Zetas /\ terms' \in Positions
    BY <1>4 DEF TypeOK
  <2>3. here' \in Points /\ route \in {"joint", "alternate"}
    BY <2>2 DEF here, Points, TypeOK
  <2>4. fit' \in Fits /\ fit'.at = here' /\ fit'.by = route
    BY <1>2, <1>4, <2>3, VerdictIsBoolean, AlternatedIsHere
  <2>5. NoBreaks' /\ FitIsHere' /\ FitCrit'
    BY <1>1, <2>1, <2>4 DEF NoBreaks, FitIsHere, FitCrit
  <2>6. StageLeaves
    BY <1>1, <1>2, <2>1, <2>2, <2>4, <2>5 DEF StageLeaves, TypeOK
  <2> QED
    BY <2>6, StageHolds
<1> QED
  BY <1>3, <1>4 DEF Boot, NoBoot, design, ofFit

(* The settles leave the positions of the fit they return; where the       *)
(* structural parameters are elsewhere, `undone' says so.                  *)
LEMMA SettleHolds == IInv /\ Settle => IInv'
<1> SUFFICES ASSUME IInv, Settle PROVE IInv'
  OBVIOUS
<1> USE DEF IInv
<1>1. /\ UNCHANGED <<model, route, frozen, outer, phase, deferred, round, best, saved,
                     starts, attempt>>
      /\ pc = "settle" /\ pc' \in {"deferral", "held"}
  BY DEF Settle, ofTournament
<1>2. Fitted /\ Fitted' /\ fit \in Fits
  BY <1>1 DEF Fitted, InHand
<1>3. /\ settled' \in {"no", "held", "moved"} /\ moved' \in BOOLEAN
      /\ zeta' \in Zetas /\ terms' \in Positions
  BY DEF Settle, TypeOK
<1>4. \/ fit' = fit
      \/ \E z \in Zetas : fit' = [fit EXCEPT !.at = <<terms', z>>, !.by = route]
  BY DEF Settle, TypeOK
<1>5. fit' \in Fits /\ (fit' = fit \/ fit'.by = route)
  <2>1. CASE fit' = fit
    BY <2>1, <1>2
  <2>2. ASSUME NEW z \in Zetas, fit' = [fit EXCEPT !.at = <<terms', z>>, !.by = route]
        PROVE  fit' \in Fits /\ fit'.by = route
    <3>1. <<terms', z>> \in Points /\ route \in {"joint", "alternate"}
      BY <1>3 DEF Points, TypeOK
    <3> QED
      BY <1>2, <2>2, <3>1 DEF Fits
  <2> QED
    BY <1>4, <2>1, <2>2
<1>6. undone' \in BOOLEAN /\ (undone => undone') /\ (~undone' => fit'.at = here')
  BY DEF Settle, TypeOK
<1>7. ~refresh => UNCHANGED <<terms, zeta, fit>> /\ settled' = "no" /\ ~moved'
  BY DEF Settle, refresh
<1>8. NoBreaks'
  BY <1>1, <1>7 DEF NoBreaks, refresh, Settle
<1>9. FitIsHere'
  <2>1. CASE refresh
    BY <2>1, <1>1, <1>2, <1>5, <1>6 DEF FitIsHere, Undisturbed, refresh
  <2>2. CASE ~refresh
    BY <2>2, <1>1, <1>2, <1>7 DEF FitIsHere, Undisturbed, refresh, here
  <2> QED
    BY <2>1, <2>2
<1>10. FitCrit'
  BY <1>1, <1>2, <1>7 DEF FitCrit, CritOf, refresh
<1>11. StageLeaves
  BY <1>1, <1>2, <1>3, <1>5, <1>6, <1>7, <1>8, <1>9, <1>10 DEF StageLeaves, TypeOK
<1> QED
  BY <1>11, StageHolds

LEMMA HoldHolds == IInv /\ Hold => IInv'
<1> SUFFICES ASSUME IInv, Hold PROVE IInv'
  OBVIOUS
<1> USE DEF IInv
<1>1. /\ UNCHANGED <<model, zeta, terms, route, phase, fit, settled, moved, best, saved,
                     starts, attempt, undone>>
      /\ pc = "held" /\ pc' \in {"end", "reread", "settle"}
  BY DEF Hold, ofTournament
<1>2. Fitted /\ Fitted' /\ fit \in Fits
  BY <1>1 DEF Fitted, InHand
<1>3. frozen' \in BOOLEAN /\ outer' \in BOOLEAN /\ deferred' \in BOOLEAN
  BY DEF Hold, TypeOK
<1>4. round' \in 1 .. MaxRounds
  <2>1. round' = round \/ (round < MaxRounds /\ round' = round + 1)
    BY DEF Hold
  <2> QED
    BY <2>1 DEF TypeOK, MaxRounds
<1>5. NoBreaks'
  <2>1. ~refresh => /\ Nothing /\ ~deferred /\ ~frozen
                    /\ UNCHANGED <<settled, moved>> /\ settled = "no" /\ ~moved
    BY <1>1 DEF NoBreaks, Nothing
  <2>2. ~refresh => pc' = "end" /\ ~frozen' /\ ~deferred'
    BY <2>1 DEF Hold
  <2> QED
    BY <1>1, <2>1, <2>2 DEF NoBreaks, refresh
<1>6. FitIsHere' /\ FitCrit'
  BY <1>1, <1>2 DEF FitIsHere, FitCrit, CritOf, Undisturbed, refresh, here
<1>7. StageLeaves
  BY <1>1, <1>2, <1>3, <1>4, <1>5, <1>6 DEF StageLeaves, TypeOK
<1> QED
  BY <1>7, StageHolds

-----------------------------------------------------------------------------
(* A candidate begins, with what would be put back saved.                  *)
LEMMA BeginHolds ==
  ASSUME IInv, NEW ph \in {"info", "route", "start"}, FitOnce(ph),
         saved' = zeta, zeta' \in Zetas,
         UNCHANGED <<model, terms, frozen, outer, attempt, undone>>,
         route' \in {"joint", "alternate"}, starts' \in 0 .. MaxStarts,
         best' \in Fits \union {NoFit}, ph # "info" => best' \in Fits,
         ~refresh /\ best' # NoFit =>
           /\ CritOf(best)'
           /\ best'.at = here
           /\ best'.by = IF ph = "route" THEN "joint" ELSE route',
         ph = "info" => route' = "joint"
  PROVE  IInv'
<1> USE DEF IInv
<1>1. /\ phase' = ph /\ pc' = "select" /\ fit' = NoFit
      /\ deferred' = FALSE /\ settled' = "no" /\ moved' = FALSE
      /\ round' \in 1 .. MaxRounds
  BY DEF FitOnce, MaxRounds
<1>2. TypeOK'
  BY <1>1 DEF TypeOK
<1>3. ~Fitted'
  BY <1>1 DEF Fitted
<1>4. InHand' /\ FirstRoute' /\ FitIsHere' /\ BestIsHere' /\ FitCrit'
  BY <1>1, <1>3 DEF InHand, FirstRoute, FitIsHere, BestIsHere, FitCrit
<1>5. NoBreaks'
  BY <1>1 DEF NoBreaks, refresh
<1>6. BestCrit'
  BY NoFitAssumption DEF BestCrit, refresh
<1>7. BestIsSaved'
  BY <1>1 DEF BestIsSaved, refresh, here
<1> QED
  BY <1>2, <1>4, <1>5, <1>6, <1>7

(* One ends, and a fit is in hand.                                         *)
LEMMA EndHolds ==
  ASSUME IInv, pc' = "next", phase' \notin {"done", "stopped"},
         UNCHANGED <<model, terms, frozen, outer, phase, fit, deferred, round, settled,
                     moved, saved, starts, attempt>>,
         route' \in {"joint", "alternate"}, zeta' \in Zetas, undone' \in BOOLEAN,
         best' \in Fits, BestIsHere', BestCrit', FirstRoute'
  PROVE  IInv'
<1> USE DEF IInv
<1>1. TypeOK'
  BY DEF TypeOK
<1>2. ~Fitted'
  BY DEF Fitted
<1>3. InHand' /\ FitIsHere' /\ FitCrit' /\ BestIsSaved'
  BY <1>2 DEF InHand, FitIsHere, FitCrit, BestIsSaved
<1>4. NoBreaks'
  BY DEF NoBreaks, refresh
<1> QED
  BY <1>1, <1>3, <1>4

(* The candidate fitted is kept, with the design as it is.                 *)
LEMMA KeepHolds ==
  ASSUME IInv, pc = "end", Keep, pc' = "next",
         UNCHANGED <<model, terms, route, frozen, outer, phase, ofFit, saved, starts,
                     attempt>>
  PROVE  IInv'
<1> USE DEF IInv
<1>1. /\ best' = fit /\ UNCHANGED <<zeta, undone>>
      /\ UNCHANGED <<fit, deferred, round, settled, moved>>
  BY DEF Keep, ofFit
<1>2. Fitted /\ fit \in Fits
  BY DEF Fitted, InHand
<1>3. BestIsHere' /\ BestCrit' /\ FirstRoute'
  BY <1>1, <1>2 DEF BestIsHere, BestCrit, FirstRoute, FitIsHere, FitCrit, CritOf,
                    Undisturbed, refresh, here
<1>4. phase' \notin {"done", "stopped"}
  BY DEF InHand
<1> QED
  BY <1>1, <1>2, <1>3, <1>4, EndHolds DEF TypeOK

(* It is turned down: what was saved goes back, and the first route.       *)
LEMMA TurnDownHolds ==
  ASSUME IInv, pc \notin {"next", "over"}, phase \in {"info", "route", "start"},
         TurnDown, pc' = "next", best \in Fits,
         route' = IF phase = "route" THEN "joint" ELSE route,
         UNCHANGED <<model, terms, frozen, outer, phase, ofFit, saved, starts,
                     attempt>>
  PROVE  IInv'
<1> USE DEF IInv
<1>1. /\ zeta' = saved /\ undone' = TRUE /\ best' = best
      /\ UNCHANGED <<fit, deferred, round, settled, moved>>
  BY DEF TurnDown, ofFit
<1>2. best # NoFit
  BY NoFitAssumption
<1>3. BestIsHere'
  BY <1>1, <1>2 DEF BestIsHere, BestIsSaved, Undisturbed, refresh, here
<1>4. BestCrit' /\ FirstRoute'
  BY <1>1 DEF BestCrit, FirstRoute, refresh
<1> QED
  BY <1>1, <1>3, <1>4, EndHolds DEF TypeOK

(* Neither start gave a fit.                                               *)
LEMMA StopHolds ==
  ASSUME IInv, pc' = "over", phase' = "stopped", best' = NoFit,
         UNCHANGED <<model, terms, route, frozen, outer, ofFit, saved, starts, attempt>>,
         zeta' \in Zetas, undone' \in BOOLEAN
  PROVE  IInv'
<1> USE DEF IInv
<1>1. UNCHANGED <<fit, deferred, round, settled, moved>>
  BY DEF ofFit
<1>2. TypeOK'
  BY <1>1 DEF TypeOK
<1>3. ~Fitted'
  BY DEF Fitted
<1>4. InHand' /\ FirstRoute' /\ FitIsHere' /\ BestIsHere' /\ BestIsSaved' /\ FitCrit'
  BY <1>3 DEF InHand, FirstRoute, FitIsHere, BestIsHere, BestIsSaved, FitCrit
<1>5. NoBreaks'
  BY <1>1 DEF NoBreaks, refresh
<1>6. BestCrit'
  BY NoFitAssumption DEF BestCrit
<1> QED
  BY <1>2, <1>4, <1>5, <1>6

-----------------------------------------------------------------------------
LEMMA FirstHolds == IInv /\ (FirstDone \/ FirstRaises) => IInv'
<1> SUFFICES ASSUME IInv, FirstDone \/ FirstRaises PROVE IInv'
  OBVIOUS
<1> USE DEF IInv
<1>1. phase = "first" /\ best = NoFit /\ route = "joint"
  BY DEF FirstDone, FirstRaises, InHand, FirstRoute
<1>2. CASE FirstDone
  <2>1. /\ pc = "end" /\ Fitted /\ fit \in Fits /\ best' = fit
        /\ UNCHANGED <<model, terms, route, frozen, outer, starts, attempt, undone>>
    BY <1>2 DEF FirstDone, InHand, Fitted
  <2>2. ~refresh => CritOf(fit) /\ fit.at = here /\ fit.by = route
    BY <2>1 DEF FitIsHere, FitCrit, Undisturbed
  <2>3. CASE saved' = zeta /\ zeta' \in Zetas /\ FitOnce("info")
    BY <1>1, <2>1, <2>2, <2>3, BeginHolds DEF TypeOK
  <2>4. CASE pc' = "next" /\ UNCHANGED <<saved, zeta, phase, ofFit>>
    BY <2>1, <2>4, KeepHolds DEF Keep
  <2> QED
    BY <1>2, <2>3, <2>4 DEF FirstDone
<1>3. CASE FirstRaises
  <2>1. UNCHANGED <<model, terms, route, frozen, outer, best, starts, attempt, undone>>
    BY <1>3 DEF FirstRaises
  <2>2. CASE saved' = zeta /\ zeta' \in Zetas /\ FitOnce("info")
    BY <1>1, <2>1, <2>2, BeginHolds DEF TypeOK
  <2>3. CASE phase' = "stopped" /\ pc' = "over" /\ UNCHANGED <<saved, zeta, ofFit>>
    BY <1>1, <2>1, <2>3, StopHolds DEF TypeOK
  <2> QED
    BY <1>3, <2>2, <2>3 DEF FirstRaises
<1> QED
  BY <1>2, <1>3

LEMMA InfoHolds == IInv /\ (InfoDone \/ InfoRaises) => IInv'
<1> SUFFICES ASSUME IInv, InfoDone \/ InfoRaises PROVE IInv'
  OBVIOUS
<1> USE DEF IInv
<1>1. CASE InfoDone
  <2>1. CASE InfoWins
    BY <1>1, <2>1, KeepHolds DEF InfoDone
  <2>2. CASE ~InfoWins
    <3>1. best \in Fits
      BY <2>2 DEF InfoWins, TypeOK
    <3> QED
      BY <1>1, <2>2, <3>1, TurnDownHolds DEF InfoDone
  <2> QED
    BY <2>1, <2>2
<1>2. CASE InfoRaises
  <2>1. CASE best = NoFit
    <3>1. /\ zeta' \in Zetas /\ undone' \in BOOLEAN /\ best' = NoFit
      BY <1>2, <2>1 DEF InfoRaises, TurnDown, TypeOK
    <3> QED
      BY <1>2, <2>1, <3>1, StopHolds DEF InfoRaises
  <2>2. CASE best # NoFit
    BY <1>2, <2>2, TurnDownHolds DEF InfoRaises, TypeOK
  <2> QED
    BY <2>1, <2>2
<1> QED
  BY <1>1, <1>2

LEMMA RouteHolds == IInv /\ (TryRoute \/ RouteDone \/ RouteLoses) => IInv'
<1> SUFFICES ASSUME IInv, TryRoute \/ RouteDone \/ RouteLoses PROVE IInv'
  OBVIOUS
<1> USE DEF IInv
<1>1. CASE TryRoute
  <2>1. /\ FitOnce("route") /\ saved' = zeta /\ zeta' \in Zetas /\ route' = "alternate"
        /\ UNCHANGED <<model, terms, frozen, outer, best, starts, attempt, undone>>
    BY <1>1, DriverAssumption DEF TryRoute, DriverAssumption
  <2>2. best \in Fits /\ route = "joint" /\ pc = "next"
    BY <1>1 DEF TryRoute, routeLeft, InHand, FirstRoute
  <2>3. ~refresh => CritOf(best) /\ best.at = here /\ best.by = route
    BY <2>2 DEF BestIsHere, BestCrit, Undisturbed
  <2> QED
    BY <2>1, <2>2, <2>3, BeginHolds DEF TypeOK
<1>2. CASE RouteDone
  BY <1>2, KeepHolds DEF RouteDone
<1>3. CASE RouteLoses
  <2>1. best \in Fits
    BY <1>3 DEF RouteLoses, InHand
  <2> QED
    BY <1>3, <2>1, TurnDownHolds DEF RouteLoses
<1> QED
  BY <1>1, <1>2, <1>3

LEMMA StartsHold == IInv /\ (TryStart \/ StartDone) => IInv'
<1> SUFFICES ASSUME IInv, TryStart \/ StartDone PROVE IInv'
  OBVIOUS
<1> USE DEF IInv
<1>1. CASE TryStart
  <2>1. /\ FitOnce("start") /\ saved' = zeta /\ zeta' \in Zetas
        /\ UNCHANGED <<model, terms, route, frozen, outer, best, attempt, undone>>
    BY <1>1 DEF TryStart
  <2>2. best \in Fits /\ pc = "next"
    BY <1>1 DEF TryStart, InHand
  <2>3. ~refresh => CritOf(best) /\ best.at = here /\ best.by = route
    BY <2>2 DEF BestIsHere, BestCrit, Undisturbed
  <2>4. starts' \in 0 .. MaxStarts
    BY <1>1 DEF TryStart, TypeOK, MaxStarts
  <2> QED
    BY <2>1, <2>2, <2>3, <2>4, BeginHolds DEF TypeOK
<1>2. CASE StartDone
  <2>1. best \in Fits
    BY <1>2 DEF StartDone, InHand
  <2>2. CASE pc = "end" /\ Better(fit, best)
    BY <1>2, <2>2, KeepHolds DEF StartDone
  <2>3. CASE ~(pc = "end" /\ Better(fit, best))
    BY <1>2, <2>1, <2>3, TurnDownHolds DEF StartDone
  <2> QED
    BY <2>2, <2>3
<1> QED
  BY <1>1, <1>2

(* A restart from the edge of a chart is taken at once, or leaves what is  *)
(* in hand where it was.                                                   *)
LEMMA EdgeHolds == IInv /\ (EdgeGains \/ EdgeTurnedDown) => IInv'
<1> SUFFICES ASSUME IInv, EdgeGains \/ EdgeTurnedDown PROVE IInv'
  OBVIOUS
<1> USE DEF IInv
<1>1. /\ pc = "next" /\ pc' = "next" /\ phase' = "kkt" /\ best \in Fits
      /\ UNCHANGED <<model, route, frozen, outer, fit, deferred, round, settled, moved,
                     saved, starts>>
      /\ attempt' \in 0 .. MaxAttempts
  <2>1. attempt' \in 0 .. MaxAttempts
    BY DEF EdgeGains, EdgeTurnedDown, TypeOK, MaxAttempts
  <2>2. pc = "next" /\ pc' = "next" /\ phase' = "kkt"
    BY DEF EdgeGains, EdgeTurnedDown, tried
  <2>3. UNCHANGED <<model, route, frozen, outer, fit, deferred, round, settled, moved,
                     saved, starts>>
    BY DEF EdgeGains, EdgeTurnedDown, Moves, ofFit
  <2> QED
    BY <2>1, <2>2, <2>3 DEF InHand
<1>2. /\ best' \in Fits /\ zeta' \in Zetas /\ terms' \in Positions /\ undone' \in BOOLEAN
      /\ BestIsHere' /\ BestCrit'
  <2>1. CASE EdgeGains
    <3>1. Moves(crit_on) /\ crit_on \in BOOLEAN /\ undone' = undone
      BY <2>1 DEF EdgeGains, crit_on, TypeOK
    <3>2. here' \in Points /\ route \in {"joint", "alternate"}
          /\ zeta' \in Zetas /\ terms' \in Positions
      BY <3>1, HereIsPoint, MovesStay
    <3>3. PICK c \in Verdicts, s \in Verdicts, d \in Readings : best' = Restarted(c, s, d)
      BY <2>1 DEF EdgeGains
    <3>5. c \in BOOLEAN /\ s \in BOOLEAN
      BY VerdictIsBoolean
    <3>6. best' \in Fits /\ best'.at = here' /\ best'.by = route /\ CritOf(best)'
      <4>1. PICK r \in Fits, h \in Points \union {NoHeld} :
              /\ r.at = here' /\ r.by = route /\ r.crit \in {NoCrit, Unread, here'}
              /\ best' = [r EXCEPT !.spec = h]
        <5>1. CASE crit_on
          <6>1. Selected(c, s, d) \in Fits /\ Selected(c, s, d).held \in Points \union {NoHeld}
            BY <3>2, <3>5, SelectedIsHere DEF Fits
          <6>2. best.spec \in Points \union {NoHeld}
            BY <1>1 DEF Fits
          <6>3. /\ Selected(c, s, d).at = here' /\ Selected(c, s, d).by = route
                /\ Selected(c, s, d).crit \in {here', Unread}
            BY <3>2, <3>5, SelectedIsHere
          <6>4. \E h \in Points \union {NoHeld} :
                  best' = [Selected(c, s, d) EXCEPT !.spec = h]
            BY <3>3, <5>1, <6>1, <6>2 DEF Restarted
          <6> QED
            BY <6>1, <6>3, <6>4
        <5>2. CASE ~crit_on
          <6>1. best.spec \in Points \union {NoHeld}
            BY <1>1 DEF Fits
          <6>2. Empty \in Fits /\ Empty.crit = NoCrit
            BY EmptyIsFit
          <6>3. /\ Alternated(c, s, Empty) \in Fits
                /\ Alternated(c, s, Empty).at = here' /\ Alternated(c, s, Empty).by = route
                /\ Alternated(c, s, Empty).crit = NoCrit
            BY <3>2, <3>5, <6>2, AlternatedIsHere
          <6>4. best' = [Alternated(c, s, Empty) EXCEPT !.spec = best.spec]
            BY <3>3, <5>2 DEF Restarted
          <6> QED
            BY <6>1, <6>3, <6>4
        <5> QED
          BY <5>1, <5>2
      <4> QED
        BY <4>1 DEF Fits, CritOf
    <3> QED
      BY <1>1, <3>1, <3>2, <3>6 DEF BestIsHere, BestCrit, TypeOK
  <2>2. CASE EdgeTurnedDown
    <3>1. /\ zeta' = zeta /\ best' = best /\ undone' = TRUE
          /\ terms' \in Positions /\ (~frozen => UNCHANGED terms)
      BY <2>2 DEF EdgeTurnedDown, TypeOK
    <3>2. ~refresh => here' = here
      BY <3>1 DEF NoBreaks, here
    <3> QED
      BY <1>1, <3>1, <3>2 DEF BestIsHere, BestCrit, Undisturbed, refresh, TypeOK
  <2> QED
    BY <2>1, <2>2
<1>3. TypeOK'
  BY <1>1, <1>2 DEF TypeOK
<1>4. ~Fitted'
  BY <1>1 DEF Fitted
<1>5. InHand' /\ FirstRoute' /\ FitIsHere' /\ FitCrit' /\ BestIsSaved'
  BY <1>1, <1>2, <1>4 DEF InHand, FirstRoute, FitIsHere, FitCrit, BestIsSaved
<1>6. NoBreaks'
  BY <1>1 DEF NoBreaks, refresh
<1> QED
  BY <1>2, <1>3, <1>5, <1>6

LEMMA AssembleHolds == IInv /\ Assemble => IInv'
<1> SUFFICES ASSUME IInv, Assemble PROVE IInv'
  OBVIOUS
<1> USE DEF IInv
<1>1. /\ pc = "next" /\ phase' = "done" /\ pc' = "over" /\ best \in Fits
      /\ UNCHANGED <<model, zeta, terms, route, frozen, outer, fit, deferred, round,
                     settled, moved, best, saved, starts, attempt, undone>>
  BY DEF Assemble, tried, design, ofFit, ofTournament, InHand
<1>2. ~Fitted'
  BY <1>1 DEF Fitted
<1>3. TypeOK'
  BY <1>1 DEF TypeOK
<1>4. InHand' /\ FirstRoute' /\ FitIsHere' /\ FitCrit' /\ BestIsSaved'
  BY <1>1, <1>2 DEF InHand, FirstRoute, FitIsHere, FitCrit, BestIsSaved
<1>5. NoBreaks' /\ BestIsHere' /\ BestCrit'
  BY <1>1 DEF NoBreaks, BestIsHere, BestCrit, CritOf, Undisturbed, refresh, here
<1> QED
  BY <1>3, <1>4, <1>5

LEMMA StutterHolds == IInv /\ UNCHANGED vars => IInv'
  BY DEF IInv, vars, design, ofFit, ofTournament, TypeOK, InHand, FirstRoute, NoBreaks,
         FitIsHere, BestIsHere, BestIsSaved, FitCrit, BestCrit, CritOf, Fitted,
         Undisturbed, refresh, here

LEMMA StepHolds == IInv /\ [Next]_vars => IInv'
  BY SelectHolds, AlternationsHold, SearchesHold, FailuresHold, BootHolds, SettleHolds,
     HoldHolds, FirstHolds, InfoHolds, RouteHolds, StartsHold, EdgeHolds, AssembleHolds,
     StutterHolds
     DEF Next, Stages, Candidates

LEMMA Invariance == Spec => []IInv
  BY InitHolds, StepHolds, PTL DEF Spec

(* A fit returned is the fit in hand, and without break-points its         *)
(* criterion was read at it.                                               *)
LEMMA InHandIsReturned == IInv => ReturnedFitIsOne
  BY DriverAssumption
  DEF IInv, ReturnedFitIsOne, BestIsHere, BestCrit, CritOf, HasCrit, InHand,
      Undisturbed, DriverAssumption

-----------------------------------------------------------------------------
(* Every variable of the driver keeps its type: the settles are run three  *)
(* times at most, the restarts from an edge as often.                      *)
THEOREM TypeCorrect == Spec => []TypeOK
<1>1. IInv => TypeOK
  BY DEF IInv
<1> QED
  BY Invariance, <1>1, PTL

(* The fit statmod() returns is one fit, whatever candidates were tried,   *)
(* kept, turned down or raised on the way.                                 *)
THEOREM FitIsOne == Spec => []ReturnedFitIsOne
  BY Invariance, InHandIsReturned, PTL
-----------------------------------------------------------------------------
(* What the refits hold is what the last search estimated: no fit has them *)
(* differ but one that a boot restart moved, and the fit in hand, when it  *)
(* has anything, holds that.                                               *)
HeldAsEstimated ==
  ~model.boot =>
    /\ pc # "reselect"
    /\ fit \in Fits => fit.spec = fit.held
    /\ best \in Fits /\ best.held # NoHeld => best.spec = best.held

(* A search was run for whoever asked, and for whoever has had one.        *)
Asked == model.criterion \/ model.sparse
Reading == /\ Fitted /\ pc # "deferral"
           /\ deferred => pc \in {"held", "reread", "end"}
Searched(f) == f \in Fits /\ f.crit # NoCrit

CriterionIsSearched ==
  /\ model.criterion => outer
  /\ pc \in {"deferred", "deferral"} => deferred
  /\ deferred \/ pc \in {"reselect", "reread"} => crit_on
  /\ Searched(fit) \/ Searched(best) => crit_on
  /\ fit \in Fits /\ fit.held # NoHeld => crit_on
  /\ (Asked \/ Searched(best)) /\ Reading => fit.crit # NoCrit
  /\ Asked /\ best \in Fits => best.crit # NoCrit

Kept == HeldAsEstimated /\ CriterionIsSearched

LEMMA KeptAtFirst == Init => Kept
<1> SUFFICES ASSUME Init PROVE Kept
  OBVIOUS
<1>1. /\ fit \notin Fits /\ best \notin Fits /\ pc = "select" /\ ~deferred
      /\ outer = model.criterion
  BY NoFitAssumption DEF Init
<1> QED BY <1>1 DEF Kept, HeldAsEstimated, CriterionIsSearched, Searched, Reading, Fitted

(* A stage that carries the result on, or fails and leaves it.             *)
LEMMA CarriedKept ==
  ASSUME IInv, Kept, UNCHANGED <<model, best>>, outer => outer',
         Fitted, fit' \in Fits, fit'.crit = fit.crit, fit'.held = fit.held,
         fit'.spec = fit.spec, deferred' => deferred, pc' # "deferred",
         pc' = "deferral" => deferred',
         pc' = "reselect" => model.boot /\ fit.held # NoHeld,
         pc' = "reread" => outer' \/ model.sparse, Reading' => Reading
  PROVE  Kept'
<1>1. fit \in Fits
  BY DEF IInv, InHand
<1>2. HeldAsEstimated'
  BY <1>1 DEF Kept, HeldAsEstimated
<1>3. crit_on => crit_on'
  BY DEF crit_on
<1>4. CriterionIsSearched'
  BY <1>1, <1>3 DEF Kept, CriterionIsSearched, Searched, Asked, crit_on
<1> QED BY <1>2, <1>4 DEF Kept

(* A search was run, and the coefficients are where it put them.           *)
LEMMA SearchKept ==
  ASSUME IInv, Kept, UNCHANGED <<model, best, outer, deferred>>, crit_on,
         fit' \in Fits, fit'.crit # NoCrit, model.boot \/ fit'.spec = fit'.held,
         pc' \notin {"deferred", "deferral", "reselect"}
  PROVE  Kept'
<1>1. HeldAsEstimated'
  BY DEF Kept, HeldAsEstimated
<1>2. CriterionIsSearched'
  BY DEF Kept, CriterionIsSearched, Searched, Asked, crit_on
<1> QED BY <1>1, <1>2 DEF Kept

(* An alternation without a search, where nothing chooses or the choice    *)
(* has been put off.                                                       *)
LEMMA UnreadKept ==
  ASSUME IInv, Kept, UNCHANGED <<model, best, outer, deferred>>, deferred \/ ~crit_on,
         fit' \in Fits, fit'.crit = NoCrit, fit'.held = NoHeld, fit'.spec = NoHeld,
         pc' = "boot"
  PROVE  Kept'
<1>1. HeldAsEstimated'
  BY DEF Kept, HeldAsEstimated
<1>2. (Asked \/ Searched(best))' => crit_on
  BY DEF Kept, CriterionIsSearched, Searched, Asked, crit_on
<1>3. ~ (crit_on /\ Reading')
  BY DEF Reading, Kept, CriterionIsSearched
<1>4. CriterionIsSearched'
  BY <1>2, <1>3 DEF Kept, CriterionIsSearched, Searched, Asked, crit_on
<1> QED BY <1>1, <1>4 DEF Kept

(* What is in hand is left as it is, and nothing is read for now.          *)
LEMMA LeftKept ==
  ASSUME IInv, Kept, UNCHANGED <<model, outer, fit, best>>, deferred' => crit_on,
         pc' \in {"next", "over", "raised", "deferred"}, pc' = "deferred" => deferred'
  PROVE  Kept'
<1>1. HeldAsEstimated'
  BY DEF Kept, HeldAsEstimated
<1>2. ~Reading'
  BY DEF Reading, Fitted
<1>3. CriterionIsSearched'
  BY <1>2 DEF Kept, CriterionIsSearched, Searched, Asked, crit_on
<1> QED BY <1>1, <1>3 DEF Kept

(* The next candidate is fitted, the last one taken or not.                *)
LEMMA BegunKept ==
  ASSUME IInv, Kept, UNCHANGED <<model, outer>>, NEW ph, FitOnce(ph),
         best' = best \/ (best' = fit /\ pc = "end")
  PROVE  Kept'
<1>1. /\ pc' = "select" /\ fit' \notin Fits /\ ~deferred' /\ ~Reading'
  BY NoFitAssumption DEF FitOnce, Reading, Fitted
<1>2. pc = "end" => fit \in Fits /\ (Asked => fit.crit # NoCrit)
  BY DEF IInv, InHand, Fitted, Kept, CriterionIsSearched, Reading
<1>3. HeldAsEstimated'
  BY <1>1, <1>2 DEF Kept, HeldAsEstimated
<1>4. CriterionIsSearched'
  BY <1>1, <1>2 DEF Kept, CriterionIsSearched, Searched, Asked, crit_on
<1> QED BY <1>3, <1>4 DEF Kept

LEMMA TakenKept ==
  ASSUME IInv, Kept, UNCHANGED <<model, outer, fit, deferred>>,
         pc = "end", pc' = "next", best' = fit
  PROVE  Kept'
<1>1. fit \in Fits /\ (Asked => fit.crit # NoCrit) /\ ~Reading'
  BY DEF IInv, InHand, Fitted, Kept, CriterionIsSearched, Reading
<1>2. HeldAsEstimated'
  BY <1>1 DEF Kept, HeldAsEstimated
<1>3. CriterionIsSearched'
  BY <1>1 DEF Kept, CriterionIsSearched, Searched, Asked, crit_on
<1> QED BY <1>2, <1>3 DEF Kept

LEMMA SelectedHolds ==
  ASSUME NEW c, NEW s, NEW r \in Readings, here' \in Points
  PROVE  /\ Selected(c, s, r).spec = Selected(c, s, r).held
         /\ Selected(c, s, r).crit = r /\ r # NoCrit
<1>1. r # NoCrit
  BY DriverAssumption DEF DriverAssumption, Readings
<1> QED
  BY <1>1 DEF Selected

LEMMA AlternatedCarries ==
  ASSUME NEW c, NEW s, NEW f \in Fits
  PROVE  /\ Alternated(c, s, f).crit = f.crit
         /\ Alternated(c, s, f).held = f.held /\ Alternated(c, s, f).spec = f.spec
  BY DEF Alternated, Fits

LEMMA SelectKept == IInv /\ Kept /\ Select => Kept'
<1> SUFFICES ASSUME IInv, Kept, Select PROVE Kept'
  OBVIOUS
<1>1. /\ Moves(crit_on) /\ crit_on \in BOOLEAN
      /\ UNCHANGED <<model, best, outer, deferred>> /\ pc' \in {"refine", "boot"}
      /\ ~crit_on => pc' = "boot"
  BY DEF Select, crit_on, IInv, TypeOK, ofTournament
<1>2. PICK c \in Verdicts, s \in Verdicts :
        IF crit_on THEN \E r \in Readings : fit' = Selected(c, s, r)
        ELSE fit' = Alternated(c, s, Empty)
  BY DEF Select
<1>3. here' \in Points
  BY <1>1, HereIsPoint
<1>4. fit' \in Fits
  BY <1>1, SelectHolds DEF IInv, InHand, Fitted
<1>5. CASE crit_on
  <2>1. fit'.crit # NoCrit /\ fit'.spec = fit'.held
    BY <1>2, <1>3, <1>5, SelectedHolds
  <2> QED BY <1>1, <1>4, <1>5, <2>1, SearchKept
<1>6. CASE ~crit_on
  <2>1. Empty \in Fits /\ Empty.crit = NoCrit /\ Empty.held = NoHeld /\ Empty.spec = NoHeld
    BY EmptyIsFit DEF IInv, Empty
  <2>2. fit'.crit = NoCrit /\ fit'.held = NoHeld /\ fit'.spec = NoHeld
    BY <1>2, <1>6, <2>1, AlternatedCarries
  <2> QED BY <1>1, <1>4, <1>6, <2>2, UnreadKept
<1> QED BY <1>1, <1>5, <1>6

LEMMA AlternationsKept == IInv /\ Kept /\ (Deferred \/ Refine) => Kept'
<1> SUFFICES ASSUME IInv, Kept, Deferred \/ Refine PROVE Kept'
  OBVIOUS
<1>1. fit' \in Fits
  BY AlternationsHold DEF IInv, InHand, Fitted, Deferred, Refine
<1>2. CASE Deferred
  <2>1. /\ UNCHANGED <<model, best, outer, deferred>> /\ pc' = "boot" /\ deferred
    BY <1>2 DEF Deferred, ofTournament, Kept, CriterionIsSearched
  <2>2. PICK c \in Verdicts, s \in Verdicts : fit' = Alternated(c, s, Empty)
    BY <1>2 DEF Deferred
  <2>3. Empty \in Fits /\ Empty.crit = NoCrit /\ Empty.held = NoHeld /\ Empty.spec = NoHeld
    BY EmptyIsFit DEF IInv, Empty
  <2>4. fit'.crit = NoCrit /\ fit'.held = NoHeld /\ fit'.spec = NoHeld
    BY <2>2, <2>3, AlternatedCarries
  <2> QED BY <1>1, <2>1, <2>4, UnreadKept
<1>3. CASE Refine
  <2>1. /\ UNCHANGED <<model, best, outer, deferred>> /\ pc = "refine" /\ pc' = "boot"
    BY <1>3 DEF Refine, ofTournament
  <2>2. PICK c \in Verdicts, s \in Verdicts : fit' = Alternated(c, s, fit)
    BY <1>3 DEF Refine
  <2>3. Fitted /\ fit \in Fits /\ (Reading' => Reading)
    BY <2>1 DEF Fitted, IInv, InHand, Reading
  <2>4. fit'.crit = fit.crit /\ fit'.held = fit.held /\ fit'.spec = fit.spec
    BY <2>2, <2>3, AlternatedCarries
  <2> QED BY <1>1, <2>1, <2>3, <2>4, CarriedKept
<1> QED BY <1>2, <1>3

LEMMA SearchesKept == IInv /\ Kept /\ (Reselect \/ ReadDeferred \/ Reread) => Kept'
<1> SUFFICES ASSUME IInv, Kept, Reselect \/ ReadDeferred \/ Reread PROVE Kept'
  OBVIOUS
<1>1. /\ UNCHANGED <<model, best, outer, deferred>>
      /\ pc \in {"reselect", "deferral", "reread"}
      /\ pc' \in {"settle", "held", "end"} /\ Moves(TRUE)
  BY DEF Reselect, ReadDeferred, Reread, Again, ofTournament
<1>2. fit' \in Fits
  BY <1>1, SearchesHold DEF IInv, InHand, Fitted
<1>3. here' \in Points
  BY <1>1, HereIsPoint
<1>4. CASE Reselect
  <2>1. PICK c \in Verdicts, s \in Verdicts, r \in Readings :
          fit' = [Selected(c, s, r) EXCEPT !.spec = fit.spec]
    BY <1>4 DEF Reselect
  <2>2. fit'.crit # NoCrit
    <3>1. fit'.crit = r
      BY <2>1 DEF Selected
    <3> QED BY <1>3, <3>1, SelectedHolds
  <2>3. crit_on /\ model.boot
    BY <1>4 DEF Reselect, Kept, CriterionIsSearched, HeldAsEstimated
  <2> QED BY <1>1, <1>2, <2>2, <2>3, SearchKept
<1>5. CASE ReadDeferred \/ Reread
  <2>1. PICK c \in Verdicts, s \in Verdicts, r \in Readings : fit' = Selected(c, s, r)
    BY <1>5 DEF ReadDeferred, Reread
  <2>2. fit'.crit # NoCrit /\ fit'.spec = fit'.held
    BY <1>3, <2>1, SelectedHolds
  <2>3. CASE Reread
    <3>1. crit_on
      BY <2>3 DEF Reread, Kept, CriterionIsSearched
    <3> QED BY <1>1, <1>2, <2>2, <3>1, SearchKept
  <2>4. CASE ReadDeferred
    <3>1. deferred => crit_on
      BY DEF Kept, CriterionIsSearched
    <3>2. crit_on
      BY <2>4, <3>1 DEF ReadDeferred, Kept, CriterionIsSearched
    <3> QED BY <1>1, <1>2, <2>2, <3>2, SearchKept
  <2> QED BY <1>5, <2>3, <2>4
<1> QED BY <1>4, <1>5

LEMMA FailuresKept ==
  IInv /\ Kept /\ (Defer \/ Raises \/ RefineFails \/ ReselectFails \/ DeferralFails
                     \/ RereadFails) => Kept'
<1> SUFFICES ASSUME IInv, Kept,
                    Defer \/ Raises \/ RefineFails \/ ReselectFails \/ DeferralFails
                      \/ RereadFails
             PROVE  Kept'
  OBVIOUS
<1>1. CASE Defer \/ Raises \/ DeferralFails
  <2>1. /\ UNCHANGED <<model, outer, fit, best>> /\ pc' \in {"deferred", "raised"}
        /\ pc' = "deferred" => deferred'
    BY <1>1 DEF Defer, Raises, DeferralFails, ofFit, ofTournament
  <2>2. deferred' => crit_on
    <3>1. outer \/ deferred' = deferred
      BY <1>1 DEF Defer, Raises, DeferralFails, ofFit
    <3>2. deferred => crit_on
      BY DEF Kept, CriterionIsSearched
    <3> QED BY <3>1, <3>2 DEF crit_on
  <2> QED BY <2>1, <2>2, LeftKept
<1>2. CASE RefineFails \/ ReselectFails \/ RereadFails
  <2>1. /\ UNCHANGED <<model, outer, fit, best, deferred>>
        /\ pc \in {"refine", "reselect", "reread"}
        /\ pc' \in {"boot", "settle", "end"} /\ (pc' = "end" => pc = "reread")
    BY <1>2 DEF RefineFails, ReselectFails, RereadFails, Again, ofFit, ofTournament
  <2>2. Fitted /\ fit \in Fits /\ (Reading' => Reading)
    BY <2>1 DEF Fitted, IInv, InHand, Reading
  <2> QED BY <2>1, <2>2, CarriedKept
<1> QED BY <1>1, <1>2

LEMMA BootKept == IInv /\ Kept /\ (Boot \/ NoBoot) => Kept'
<1> SUFFICES ASSUME IInv, Kept, Boot \/ NoBoot PROVE Kept'
  OBVIOUS
<1>1. /\ UNCHANGED <<model, outer, best, deferred>> /\ pc = "boot"
      /\ pc' \in {"reselect", "settle"}
      /\ pc' = "reselect" => model.boot /\ fit.held # NoHeld
      /\ fit' = fit \/ \E c, s \in Verdicts : fit' = Alternated(c, s, fit)
  BY DEF Boot, NoBoot, ofFit, ofTournament
<1>2. Fitted /\ fit \in Fits /\ (Reading' => Reading)
  BY <1>1 DEF Fitted, IInv, InHand, Reading
<1>3. fit' \in Fits
  BY <1>1, BootHolds DEF IInv, InHand, Fitted
<1>4. fit'.crit = fit.crit /\ fit'.held = fit.held /\ fit'.spec = fit.spec
  BY <1>1, <1>2, AlternatedCarries
<1> QED BY <1>1, <1>2, <1>3, <1>4, CarriedKept

LEMMA SettleKept == IInv /\ Kept /\ Settle => Kept'
<1> SUFFICES ASSUME IInv, Kept, Settle PROVE Kept'
  OBVIOUS
<1>1. /\ UNCHANGED <<model, outer, best, deferred>> /\ pc = "settle"
      /\ pc' = IF deferred THEN "deferral" ELSE "held"
      /\ fit' = fit \/ \E z : fit' = [fit EXCEPT !.at = <<terms', z>>, !.by = route]
  <2>1. fit' = fit \/ \E z : fit' = [fit EXCEPT !.at = <<terms', z>>, !.by = route]
    <3>1. CASE settled' = "no" /\ ~moved'
      BY <3>1 DEF Settle
    <3>2. CASE ~ (settled' = "no" /\ ~moved')
      BY <3>2 DEF Settle
    <3> QED BY <3>1, <3>2
  <2> QED BY <2>1 DEF Settle, ofTournament
<1>2. Fitted /\ fit \in Fits /\ (Reading' => Reading)
  BY <1>1 DEF Fitted, IInv, InHand, Reading
<1>3. fit' \in Fits
  BY <1>1, SettleHolds DEF IInv, InHand, Fitted
<1>4. fit'.crit = fit.crit /\ fit'.held = fit.held /\ fit'.spec = fit.spec
  BY <1>1, <1>2 DEF Fits
<1> QED BY <1>1, <1>2, <1>3, <1>4, CarriedKept

LEMMA HoldKept == IInv /\ Kept /\ Hold => Kept'
<1> SUFFICES ASSUME IInv, Kept, Hold PROVE Kept'
  OBVIOUS
<1>1. /\ UNCHANGED <<model, best, fit>> /\ (outer => outer') /\ pc = "held"
      /\ (deferred' => deferred) /\ pc' \in {"end", "reread", "settle"}
      /\ pc' = "reread" => outer' \/ model.sparse
      /\ pc' \in {"reread", "settle"} => ~deferred'
  BY DEF Hold, ofTournament
<1>2. Fitted /\ fit \in Fits /\ Reading
  BY <1>1 DEF Fitted, IInv, InHand, Reading
<1> QED BY <1>1, <1>2, CarriedKept

-----------------------------------------------------------------------------
(* A fit in hand is replaced only by one whose criterion is no lower, up   *)
(* to a tie, where both have one, and whose objective is no higher where   *)
(* either has none; and only by one that was searched for, if it was.      *)
NoLower ==
  best \in Fits =>
    /\ Searched(best) => Searched(best)'
    /\ IF HasCrit(best) /\ HasCrit(best')
       THEN Criterion[best'.crit] + Tie >= Criterion[best.crit]
       ELSE Value[best'.at] <= Value[best.at] + Tie

LEMMA MeasuresAreIntegers ==
  ASSUME NEW f \in Fits
  PROVE  /\ Value[f.at] \in Int /\ Tie \in Nat
         /\ HasCrit(f) => Criterion[f.crit] \in Int
  BY DriverAssumption DEF Fits, HasCrit, DriverAssumption

LEMMA LeftNoLower == ASSUME IInv, best' = best PROVE NoLower
<1> SUFFICES ASSUME best \in Fits PROVE NoLower
  BY DEF NoLower
<1>1. Searched(best) => Searched(best)'
  BY DEF Searched
<1>2. /\ Value[best.at] \in Int /\ Tie \in Nat
      /\ HasCrit(best) => Criterion[best.crit] \in Int
  BY MeasuresAreIntegers
<1>3. \A x \in Int : x + Tie >= x /\ x <= x + Tie
  BY <1>2
<1> QED BY <1>1, <1>2, <1>3 DEF NoLower

(* Each way for a fit to win leaves the criterion no lower, or the         *)
(* objective no higher.                                                    *)
LEMMA PreferredIsNoLower ==
  ASSUME NEW new \in Fits, NEW old \in Fits,
         Better(new, old) \/ ~Better(old, new) \/ Tied(old, new)
  PROVE  IF HasCrit(old) /\ HasCrit(new)
         THEN Criterion[new.crit] + Tie >= Criterion[old.crit]
         ELSE Value[new.at] <= Value[old.at] + Tie
<1>1. CASE HasCrit(old) /\ HasCrit(new)
  <2> DEFINE n == Criterion[new.crit]
             o == Criterion[old.crit]
  <2>1. n \in Int /\ o \in Int /\ Tie \in Nat
    BY <1>1, MeasuresAreIntegers
  <2>2. n > o \/ ~ (o > n) \/ o - n \in -Tie .. Tie
    BY <1>1 DEF Better, Tied, Near
  <2> HIDE DEF n, o
  <2>3. n + Tie >= o
    BY <2>1, <2>2
  <2> QED BY <1>1, <2>3 DEF n, o
<1>2. CASE ~ (HasCrit(old) /\ HasCrit(new))
  <2> DEFINE n == Value[new.at]
             o == Value[old.at]
  <2>1. n \in Int /\ o \in Int /\ Tie \in Nat
    BY MeasuresAreIntegers
  <2>2. n < o \/ ~ (o < n) \/ o - n \in -Tie .. Tie
    BY <1>2 DEF Better, Tied, Near
  <2> HIDE DEF n, o
  <2>3. n <= o + Tie
    BY <2>1, <2>2
  <2> QED BY <1>2, <2>3 DEF n, o
<1> QED BY <1>1, <1>2

LEMMA WinnerNoLower ==
  ASSUME IInv, Kept, pc = "end", best' = fit, best # NoFit,
         Better(fit, best) \/ ~Better(best, fit) \/ Tied(best, fit)
  PROVE  NoLower
<1> SUFFICES ASSUME best \in Fits PROVE NoLower
  BY DEF NoLower
<1>1. fit \in Fits /\ (Searched(best) => Searched(fit))
  BY DEF IInv, InHand, Fitted, Kept, CriterionIsSearched, Reading, Searched
<1>2. Searched(best) => Searched(best)'
  BY <1>1 DEF Searched
<1>3. IF HasCrit(best) /\ HasCrit(fit)
      THEN Criterion[fit.crit] + Tie >= Criterion[best.crit]
      ELSE Value[fit.at] <= Value[best.at] + Tie
  BY <1>1, PreferredIsNoLower
<1> QED BY <1>2, <1>3 DEF NoLower

LEMMA StagesKept == IInv /\ Kept /\ Stages => Kept' /\ best' = best
<1>1. IInv /\ Kept /\ Stages => Kept'
  BY SelectKept, AlternationsKept, SearchesKept, FailuresKept, BootKept, SettleKept,
     HoldKept DEF Stages
<1>2. Stages => best' = best
  BY DEF Stages, Select, Defer, Deferred, Raises, Refine, RefineFails, Boot, NoBoot,
         Reselect, ReselectFails, Settle, ReadDeferred, DeferralFails, Hold, Reread,
         RereadFails, ofTournament
<1> QED BY <1>1, <1>2

LEMMA FirstKept ==
  IInv /\ Kept /\ (FirstDone \/ FirstRaises) => Kept' /\ NoLower
<1> SUFFICES ASSUME IInv, Kept, FirstDone \/ FirstRaises PROVE Kept' /\ NoLower
  OBVIOUS
<1>1. CASE FirstDone
  <2>1. best = NoFit /\ pc = "end" /\ best' = fit /\ UNCHANGED <<model, outer>>
    BY <1>1 DEF FirstDone, IInv, InHand
  <2>2. NoLower
    BY <2>1, NoFitAssumption DEF NoLower
  <2>3. CASE FitOnce("info")
    BY <2>1, <2>2, <2>3, BegunKept
  <2>4. CASE pc' = "next" /\ UNCHANGED ofFit
    BY <2>1, <2>2, <2>4, TakenKept DEF ofFit
  <2> QED BY <1>1, <2>2, <2>3, <2>4 DEF FirstDone
<1>2. CASE FirstRaises
  <2>1. UNCHANGED <<model, outer, best>>
    BY <1>2 DEF FirstRaises
  <2>2. CASE FitOnce("info")
    BY <2>1, <2>2, BegunKept, LeftNoLower
  <2>3. CASE pc' = "over" /\ UNCHANGED ofFit
    <3>1. deferred' => crit_on
      BY <2>3 DEF ofFit, Kept, CriterionIsSearched
    <3> QED BY <2>1, <2>3, <3>1, LeftKept, LeftNoLower DEF ofFit
  <2> QED BY <1>2, <2>2, <2>3 DEF FirstRaises
<1> QED BY <1>1, <1>2

LEMMA InfoKept ==
  IInv /\ Kept /\ (InfoDone \/ InfoRaises) => Kept' /\ NoLower
<1> SUFFICES ASSUME IInv, Kept, InfoDone \/ InfoRaises PROVE Kept' /\ NoLower
  OBVIOUS
<1>1. /\ UNCHANGED <<model, outer, fit, deferred>> /\ pc' \in {"next", "over"}
      /\ deferred' => crit_on
  BY DEF InfoDone, InfoRaises, ofFit, Kept, CriterionIsSearched
<1>2. CASE best' = best
  BY <1>1, <1>2, LeftKept, LeftNoLower
<1>3. CASE best' # best
  <2>1. InfoWins /\ pc = "end" /\ pc' = "next" /\ best' = fit
    BY <1>3 DEF InfoDone, InfoRaises, TurnDown, Keep
  <2>2. best = NoFit => NoLower
    BY NoFitAssumption DEF NoLower
  <2>3. best # NoFit => NoLower
    <3> SUFFICES ASSUME best # NoFit PROVE NoLower
      OBVIOUS
    <3>1. Better(fit, best) \/ ~Better(best, fit) \/ Tied(best, fit)
      BY <2>1 DEF InfoWins
    <3> QED BY <2>1, <3>1, WinnerNoLower
  <2> QED BY <1>1, <2>1, <2>2, <2>3, TakenKept
<1> QED BY <1>2, <1>3

LEMMA RouteKept ==
  IInv /\ Kept /\ (TryRoute \/ RouteDone \/ RouteLoses) => Kept' /\ NoLower
<1> SUFFICES ASSUME IInv, Kept, TryRoute \/ RouteDone \/ RouteLoses PROVE Kept' /\ NoLower
  OBVIOUS
<1>1. CASE TryRoute
  BY <1>1, BegunKept, LeftNoLower DEF TryRoute
<1>2. CASE RouteDone
  <2>1. /\ UNCHANGED <<model, outer, fit, deferred>> /\ pc = "end" /\ pc' = "next"
        /\ best' = fit /\ Better(fit, best)
    BY <1>2 DEF RouteDone, Keep, ofFit
  <2>2. best # NoFit
    BY <1>2, NoFitAssumption DEF RouteDone, IInv, InHand
  <2> QED BY <2>1, <2>2, TakenKept, WinnerNoLower
<1>3. CASE RouteLoses
  <2>1. /\ UNCHANGED <<model, outer, fit, deferred, best>> /\ pc' = "next"
        /\ deferred' => crit_on
    BY <1>3 DEF RouteLoses, TurnDown, ofFit, Kept, CriterionIsSearched
  <2> QED BY <2>1, LeftKept, LeftNoLower
<1> QED BY <1>1, <1>2, <1>3

LEMMA StartsKept ==
  IInv /\ Kept /\ (TryStart \/ StartDone) => Kept' /\ NoLower
<1> SUFFICES ASSUME IInv, Kept, TryStart \/ StartDone PROVE Kept' /\ NoLower
  OBVIOUS
<1>1. CASE TryStart
  BY <1>1, BegunKept, LeftNoLower DEF TryStart
<1>2. CASE StartDone
  <2>1. /\ UNCHANGED <<model, outer, fit, deferred>> /\ pc' = "next"
        /\ deferred' => crit_on
    BY <1>2 DEF StartDone, ofFit, Kept, CriterionIsSearched
  <2>2. CASE best' = best
    BY <2>1, <2>2, LeftKept, LeftNoLower
  <2>3. CASE best' # best
    <3>1. pc = "end" /\ best' = fit /\ Better(fit, best)
      BY <1>2, <2>3 DEF StartDone, TurnDown, Keep
    <3>2. best # NoFit
      BY <1>2, NoFitAssumption DEF StartDone, IInv, InHand
    <3> QED BY <2>1, <3>1, <3>2, TakenKept, WinnerNoLower
  <2> QED BY <2>2, <2>3
<1> QED BY <1>1, <1>2

(* A restart from the edge is searched for a criterion where one ran, and  *)
(* holds what that search estimated, or what was held before.              *)
LEMMA EdgeKept ==
  IInv /\ Kept /\ (EdgeGains \/ EdgeTurnedDown) => Kept' /\ NoLower
<1> SUFFICES ASSUME IInv, Kept, EdgeGains \/ EdgeTurnedDown PROVE Kept' /\ NoLower
  OBVIOUS
<1>1. /\ UNCHANGED <<model, outer, fit, deferred, pc>> /\ pc = "next"
      /\ deferred' => crit_on
  BY DEF EdgeGains, EdgeTurnedDown, tried, ofFit, Kept, CriterionIsSearched
<1>2. CASE EdgeTurnedDown
  BY <1>1, <1>2, LeftKept, LeftNoLower DEF EdgeTurnedDown
<1>3. CASE EdgeGains
  <2>1. Moves(crit_on) /\ crit_on \in BOOLEAN /\ Better(best', best)
    BY <1>3 DEF EdgeGains, crit_on, IInv, TypeOK
  <2>2. PICK c \in Verdicts, s \in Verdicts, d \in Readings : best' = Restarted(c, s, d)
    BY <1>3 DEF EdgeGains
  <2>3. here' \in Points
    BY <2>1, HereIsPoint
  <2>4. best' \in Fits /\ best \in Fits
    BY <1>1, <1>3, EdgeHolds DEF IInv, InHand
  <2>5. IF HasCrit(best) /\ HasCrit(best')
        THEN Criterion[best'.crit] + Tie >= Criterion[best.crit]
        ELSE Value[best'.at] <= Value[best.at] + Tie
    BY <2>1, <2>4, PreferredIsNoLower
  <2>6. CASE crit_on
    <3> DEFINE r == Selected(c, s, d)
    <3>1. best' = [r EXCEPT !.spec = IF r.held # NoHeld THEN r.held ELSE best.spec]
      BY <2>2, <2>6 DEF Restarted
    <3>2. /\ r = [at |-> r.at, by |-> r.by, crit |-> r.crit, held |-> r.held,
                  spec |-> r.spec, converged |-> r.converged, sound |-> r.sound]
          /\ r.crit # NoCrit
      <4>1. r.crit # NoCrit
        BY <2>3, SelectedHolds
      <4> QED BY <4>1 DEF Selected
    <3> HIDE DEF r
    <3>3. /\ best'.crit # NoCrit /\ best'.held = r.held
          /\ best'.spec = IF r.held # NoHeld THEN r.held ELSE best.spec
      BY <3>1, <3>2
    <3>4. HeldAsEstimated'
      BY <1>1, <2>4, <3>3 DEF Kept, HeldAsEstimated
    <3>5. CriterionIsSearched'
      BY <1>1, <2>4, <2>6, <3>3
         DEF Kept, CriterionIsSearched, Searched, Asked, crit_on, Reading, Fitted
    <3>6. Searched(best)'
      BY <2>4, <3>3 DEF Searched
    <3> QED BY <2>5, <3>4, <3>5, <3>6 DEF Kept, NoLower
  <2>7. CASE ~crit_on
    <3>1. best' = [Alternated(c, s, Empty) EXCEPT !.spec = best.spec]
      BY <2>2, <2>7 DEF Restarted
    <3>2. Empty \in Fits /\ Empty.crit = NoCrit /\ Empty.held = NoHeld
      BY EmptyIsFit DEF IInv, Empty
    <3>3. Alternated(c, s, Empty) \in Fits
      BY <2>1, <2>3, <3>2, HereIsPoint, VerdictIsBoolean, AlternatedIsHere
    <3>4. best'.crit = NoCrit /\ best'.held = NoHeld
      BY <3>1, <3>2, <3>3, AlternatedCarries DEF Fits
    <3>5. ~Asked /\ ~Searched(best)
      BY <2>7 DEF Kept, CriterionIsSearched, Asked, crit_on
    <3>6. HeldAsEstimated'
      BY <1>1, <3>4 DEF Kept, HeldAsEstimated
    <3>7. CriterionIsSearched'
      BY <1>1, <2>7, <3>4, <3>5
         DEF Kept, CriterionIsSearched, Searched, Asked, crit_on, Reading, Fitted
    <3> QED BY <2>5, <3>5, <3>6, <3>7 DEF Kept, NoLower
  <2> QED BY <2>6, <2>7
<1> QED BY <1>2, <1>3

LEMMA AssembleKept == IInv /\ Kept /\ Assemble => Kept' /\ NoLower
<1> SUFFICES ASSUME IInv, Kept, Assemble PROVE Kept' /\ NoLower
  OBVIOUS
<1>1. /\ UNCHANGED <<model, outer, fit, deferred, best>> /\ pc' = "over"
      /\ deferred' => crit_on
  BY DEF Assemble, ofFit, ofTournament, Kept, CriterionIsSearched
<1> QED BY <1>1, LeftKept, LeftNoLower

LEMMA StutterKept == IInv /\ Kept /\ UNCHANGED vars => Kept' /\ NoLower
<1> SUFFICES ASSUME IInv, Kept, UNCHANGED vars PROVE Kept' /\ NoLower
  OBVIOUS
<1>1. UNCHANGED <<model, outer, fit, deferred, best, pc>>
  BY DEF vars, ofFit, ofTournament
<1>2. Kept'
  BY <1>1 DEF Kept, HeldAsEstimated, CriterionIsSearched, Searched, Asked, crit_on, Reading,
              Fitted
<1> QED BY <1>1, <1>2, LeftNoLower

LEMMA ModelStays == [Next]_vars => model' = model
  BY DEF vars, Next, Stages, Candidates, Select, Defer, Deferred, Raises, Refine,
         RefineFails, Boot, NoBoot, Reselect, ReselectFails, Settle, ReadDeferred,
         DeferralFails, Hold, Reread, RereadFails, FirstDone, FirstRaises, InfoDone,
         InfoRaises, TryRoute, RouteDone, RouteLoses, TryStart, StartDone, EdgeGains,
         EdgeTurnedDown, Assemble

LEMMA StepKept == IInv /\ Kept /\ [Next]_vars => Kept' /\ NoLower
  BY StagesKept, LeftNoLower, FirstKept, InfoKept, RouteKept, StartsKept, EdgeKept,
     AssembleKept, StutterKept DEF Next, Candidates

-----------------------------------------------------------------------------
(* Unless a boot restart came between, what the settles' refits and the    *)
(* restarts hold is where the last search put it (R/statmod.R:729).        *)
THEOREM HeldAreEstimated == Spec => []HeldWhereTheCriterionPutThem
<1>1. IInv /\ Kept => HeldWhereTheCriterionPutThem
  BY DEF IInv, InHand, Fitted, Kept, HeldAsEstimated, HeldWhereTheCriterionPutThem
<1> QED BY Invariance, KeptAtFirst, StepKept, <1>1, PTL DEF Spec

(* A criterion asked for has had its search for every fit that is          *)
(* compared, and a fit in hand is replaced only by one whose criterion is  *)
(* no lower, or, where the criterion of either is NA, whose objective is   *)
(* no higher, but for ties.                                                *)
THEOREM NeverLost == Spec => CriterionNeverLost
<1> DEFINE Compared ==
      /\ (pc' \in {"end", "next"} /\ (model.criterion \/ model.sparse)) =>
           /\ pc' = "end" => fit'.crit # NoCrit
           /\ pc' = "next" => best'.crit # NoCrit
      /\ best # NoFit =>
           /\ best.crit # NoCrit => best'.crit # NoCrit
           /\ IF HasCrit(best) /\ HasCrit(best')
              THEN Criterion[best'.crit] + Tie >= Criterion[best.crit]
              ELSE Value[best'.at] <= Value[best.at] + Tie
<1>1. IInv /\ Kept /\ [Next]_vars => [Compared]_vars
  <2> SUFFICES ASSUME IInv, Kept, [Next]_vars PROVE Compared
    OBVIOUS
  <2>1. IInv' /\ Kept' /\ NoLower
    BY StepHolds, StepKept
  <2>2. model' = model
    BY ModelStays
  <2>3. ASSUME pc' \in {"end", "next"}, model.criterion \/ model.sparse
        PROVE  /\ pc' = "end" => fit'.crit # NoCrit
               /\ pc' = "next" => best'.crit # NoCrit
    BY <2>1, <2>2, <2>3
       DEF Kept, CriterionIsSearched, Asked, Reading, Fitted, IInv, InHand
  <2>4. best # NoFit => best \in Fits
    BY DEF IInv, TypeOK
  <2> QED BY <2>1, <2>3, <2>4 DEF NoLower, Searched
<1> QED
  BY Invariance, KeptAtFirst, StepKept, <1>1, PTL DEF Spec, CriterionNeverLost
=============================================================================
