--------------------------- MODULE Bootstrap_proofs ---------------------------
(***************************************************************************)
(* Proofs about the two bootstraps.                                        *)
(*                                                                         *)
(* The searches for better break-points, for every objective, limit and    *)
(* state space: the bootstrap restarting of BootRestart, its invariants    *)
(* and that it implements ImprovementSearch, and the settles of            *)
(* SettleBreaks, which hand back one fit and say truly whether they        *)
(* replaced the one they began from.  The engine of BootstrapEngine, for   *)
(* every generator, every outcome of the refits, every number of           *)
(* replicates and of processes.                                            *)
(***************************************************************************)
EXTENDS BootRestart, SettleBreaks, BootstrapEngine, SequenceTheorems,
        FunctionTheorems, FiniteSetTheorems, TLAPS

(* The objective of a fit is an integer or NonFinite, so the result made   *)
(* of a fit has the type of an incumbent and is that fit's.                *)
LEMMA ResultOfFit ==
  ASSUME NEW f \in Fits
  PROVE  /\ f = <<f[1], f[2], f[3]>>
         /\ f[1] \in Par /\ f[2] \in Pos /\ f[3] \in Zeta
         /\ Value[f] \in Values
         /\ Result(f) \in [par: Par, value: Values]
         /\ Result(f).par = f[1] /\ Result(f).value = Value[f]
  BY FitsAssumption DEF Fits, Values, Result

-----------------------------------------------------------------------------
(* The bootstrap restarting.                                               *)

(* A refit is tried only while the proposals that failed in a row are      *)
(* fewer than the limit, and what is left at the end is the snapshot.      *)
Within == pc = "refit" => dry < DryLimit
PutBack == pc = "done" => pos = keep[1] /\ zeta = keep[2]

IInv == TypeOK /\ Within /\ PutBack /\ SnapshotIsTheIncumbents

-----------------------------------------------------------------------------
LEMMA InitHolds == Init => IInv
<1> SUFFICES ASSUME Init PROVE IInv
  OBVIOUS
<1>1. <<start, pos, zeta>> \in Fits /\ best = Result(<<start, pos, zeta>>)
  BY DEF Init, Fits
<1>2. best \in [par: Par, value: Values]
  BY <1>1, ResultOfFit
<1>3. best.par = start /\ best.value = Value[<<start, pos, zeta>>]
  BY <1>1 DEF Result
<1>4. keep \in Pos \X Zeta /\ 0 \in 0 .. NBoot /\ 0 \in 0 .. DryLimit
  BY BootAssumption DEF Init, DryLimit
<1>5. TypeOK
  BY <1>2, <1>4 DEF Init, TypeOK
<1> QED BY <1>3, <1>5 DEF Init, IInv, Within, PutBack, SnapshotIsTheIncumbents

LEMMA StepHolds == IInv /\ [Next]_vars => IInv'
<1> SUFFICES ASSUME IInv, [Next]_vars PROVE IInv'
  OBVIOUS
<1> USE DEF IInv, design
<1>0. NBoot \in Nat
  BY BootAssumption
<1>1. CASE NoProposal
  <2>1. TypeOK'
    BY <1>0, <1>1 DEF NoProposal, More, TypeOK, DryLimit
  <2> QED BY <1>1, <2>1 DEF NoProposal, Within, PutBack, SnapshotIsTheIncumbents
<1>2. CASE Propose
  <2>1. TypeOK'
    BY <1>0, <1>2 DEF Propose, More, TypeOK, DryLimit
  <2> QED BY <1>2, <2>1 DEF Propose, More, Within, PutBack, SnapshotIsTheIncumbents
<1>3. CASE Accept
  <2>1. PICK f \in Fits : /\ best' = Result(f)
                          /\ keep' = <<f[2], f[3]>>
                          /\ pos' = f[2] /\ zeta' = f[3]
    BY <1>3 DEF Accept
  <2>2. /\ best' \in [par: Par, value: Values]
        /\ keep' \in Pos \X Zeta /\ pos' \in Pos /\ zeta' \in Zeta
    BY <2>1, ResultOfFit
  <2>4. /\ pc' = "propose" /\ dry' = 0 /\ working' = FALSE
        /\ UNCHANGED <<b, start>>
    BY <1>3 DEF Accept
  <2>5. dry' \in 0 .. DryLimit
    BY <2>4 DEF DryLimit
  <2>6. TypeOK'
    BY <2>2, <2>4, <2>5 DEF TypeOK
  <2>3. SnapshotIsTheIncumbents'
    BY <2>1, ResultOfFit DEF SnapshotIsTheIncumbents
  <2> QED BY <2>3, <2>4, <2>6 DEF Within, PutBack
<1>4. CASE Reject
  <2>1. PICK f \in Fits : pos' = f[2] /\ zeta' = f[3]
    BY <1>4 DEF Reject
  <2>2. pos' \in Pos /\ zeta' \in Zeta
    BY <2>1, ResultOfFit
  <2>3. /\ pc = "refit" /\ pc' = "propose" /\ dry' = dry + 1 /\ working' = FALSE
        /\ UNCHANGED <<b, best, keep, start>>
    BY <1>4 DEF Reject
  <2>4. dry' \in 0 .. DryLimit
    BY <2>3 DEF Within, TypeOK, DryLimit
  <2>5. TypeOK'
    BY <2>2, <2>3, <2>4 DEF TypeOK
  <2> QED BY <2>3, <2>5 DEF Within, PutBack, SnapshotIsTheIncumbents
<1>5. CASE Raise
  <2>1. PICK f \in Fits : pos' = f[2] /\ zeta' = f[3]
    BY <1>5 DEF Raise
  <2>2. pos' \in Pos /\ zeta' \in Zeta
    BY <2>1, ResultOfFit
  <2>3. TypeOK'
    BY <1>5, <2>2 DEF Raise, TypeOK
  <2> QED BY <1>5, <2>3 DEF Raise, Within, PutBack, SnapshotIsTheIncumbents
<1>6. CASE RefitRaises
  <2>1. TypeOK'
    BY <1>6 DEF RefitRaises, Within, TypeOK, DryLimit
  <2> QED BY <1>6, <2>1 DEF RefitRaises, Within, PutBack, SnapshotIsTheIncumbents
<1>7. CASE Finish
  <2>1. TypeOK'
    BY <1>7 DEF Finish, TypeOK
  <2> QED BY <1>7, <2>1 DEF Finish, Within, PutBack, SnapshotIsTheIncumbents
<1>8. CASE UNCHANGED vars
  BY <1>8 DEF vars, TypeOK, Within, PutBack, SnapshotIsTheIncumbents
<1> QED BY <1>1, <1>2, <1>3, <1>4, <1>5, <1>6, <1>7, <1>8 DEF Next

(* IInv is an invariant of the restart.                                    *)
LEMMA Invariance == Spec => []IInv
BY InitHolds, StepHolds, PTL DEF Spec

-----------------------------------------------------------------------------
(* Every variable keeps its type, the two counters their bounds.           *)
THEOREM TypeCorrect == Spec => []TypeOK
<1>1. IInv => TypeOK
  BY DEF IInv
<1> QED BY Invariance, <1>1, PTL

(* The snapshot restore() puts back always belongs to the incumbent, also  *)
(* after a refit that raised.                                              *)
THEOREM SnapshotBelongs == Spec => []SnapshotIsTheIncumbents
<1>1. IInv => SnapshotIsTheIncumbents
  BY DEF IInv
<1> QED BY Invariance, <1>1, PTL

(* The coefficients the restart returns and the state it leaves the design *)
(* in are one fit: the objective read there is the one returned.           *)
THEOREM FitReturnedIsTheDesigns == Spec => []ReturnedFitIsTheDesigns
<1>1. IInv => ReturnedFitIsTheDesigns
  BY DEF IInv, PutBack, SnapshotIsTheIncumbents, ReturnedFitIsTheDesigns
<1> QED BY Invariance, <1>1, PTL

-----------------------------------------------------------------------------
LEMMA InitRefines == IInv /\ Init => Restart!Init
<1> SUFFICES ASSUME IInv, Init PROVE Restart!Init
  OBVIOUS
<1>1. keep = <<pos, zeta>> /\ pc = "propose"
  BY DEF Init
<1>2. <<best.par, keep[1], keep[2]>> \in Fits
  BY DEF IInv, TypeOK, Fits
<1> QED BY <1>1, <1>2 DEF Restart!Init

(* Where the incumbent stays, whatever is tried is a step or a stutter of  *)
(* the search.                                                             *)
LEMMA TryRefines ==
  ASSUME IInv, IInv', UNCHANGED <<best, keep>>, pc # "done", pc' # "done"
  PROVE  Restart!Try
<1>1. <<best'.par, pos', zeta'>> \in Fits
  BY DEF IInv, TypeOK, Fits
<1> QED BY <1>1 DEF Restart!Try

LEMMA StepRefines ==
  IInv /\ IInv' /\ [Next]_vars => [Restart!Next]_(Restart!vars)
<1> SUFFICES ASSUME IInv, IInv', [Next]_vars
             PROVE  [Restart!Next]_(Restart!vars)
  OBVIOUS
<1>1. CASE NoProposal \/ Propose \/ Reject \/ Raise \/ RefitRaises
  <2>1. UNCHANGED <<best, keep>> /\ pc # "done" /\ pc' # "done"
    BY <1>1 DEF NoProposal, Propose, Reject, Raise, RefitRaises
  <2>2. Restart!Try
    BY <2>1, TryRefines
  <2> QED BY <2>2 DEF Restart!Next
<1>2. CASE Accept
  <2>1. PICK f \in Fits : /\ Improves(Value[f])
                          /\ best' = Result(f)
                          /\ keep' = <<f[2], f[3]>>
                          /\ pos' = f[2] /\ zeta' = f[3]
    BY <1>2 DEF Accept
  <2>2. /\ <<best.par, keep[1], keep[2]>>' = f
        /\ <<best.par, pos, zeta>>' = f
    BY <2>1, ResultOfFit
  <2>3. Restart!Better(Value[f], Value[<<best.par, keep[1], keep[2]>>])
    BY <2>1 DEF Improves, Restart!Better, IInv, SnapshotIsTheIncumbents
  <2>4. Restart!Improve
    BY <1>2, <2>2, <2>3 DEF Accept, Restart!Improve
  <2> QED BY <2>4 DEF Restart!Next
<1>3. CASE Finish
  <2>1. Restart!Return
    BY <1>3 DEF Finish, Restart!Return
  <2> QED BY <2>1 DEF Restart!Next
<1>4. CASE UNCHANGED vars
  BY <1>4 DEF vars, design, Restart!vars
<1> QED BY <1>1, <1>2, <1>3, <1>4 DEF Next

(* The restart is an improvement search: the incumbent is only ever        *)
(* replaced by a fit whose objective is lower, and the design ends in the  *)
(* state of the one returned.                                              *)
THEOREM Refinement == Spec => RefinesSearch
<1>1. Spec => Init /\ [][Next]_vars
  BY PTL DEF Spec
<1> QED
  BY <1>1, Invariance, InitHolds, InitRefines, StepRefines, PTL
  DEF RefinesSearch, Restart!Spec

-----------------------------------------------------------------------------
(* The settles.                                                            *)

(* The incumbent's objective is the one at its coefficients and terms, for *)
(* some structural parameters: those its refit left behind.                *)
Belongs == \E z \in Zeta : best.value = Value[<<best.par, bestPos, z>>]

TermsPutBack == pc = "done" => pos = bestPos

(* The history of the flag: lowered, nothing has been replaced since the   *)
(* search began; raised, the incumbent is better than what it began from.  *)
Gained ==
  /\ pc = "hold" => ~moved
  /\ ~moved => entry = <<best, bestPos>>
  /\ moved => /\ best.value # NonFinite
              /\ entry[1].value # NonFinite => best.value < entry[1].value

SettleIInv == SettleTypeOK /\ Belongs /\ TermsPutBack /\ Gained

-----------------------------------------------------------------------------
LEMMA SettleInitHolds == SettleInit => SettleIInv
<1> SUFFICES ASSUME SettleInit PROVE SettleIInv
  OBVIOUS
<1>1. PICK p \in Par : best = Result(<<p, pos, zeta>>)
  BY DEF SettleInit
<1>2. <<p, pos, zeta>> \in Fits
  BY DEF SettleInit, Fits
<1>3. best \in [par: Par, value: Values] /\ best.par = p /\ best.value = Value[<<p, pos, zeta>>]
  BY <1>1, <1>2, ResultOfFit
<1>4. SettleTypeOK
  <2>1. pc \in {"hold", "polish", "search", "done"}
    BY DEF SettleInit
  <2>2. 0 \in 0 .. (IF Rounds > MaxCand THEN Rounds ELSE MaxCand)
    BY SettleAssumption
  <2> QED
    BY <1>3, <2>1, <2>2 DEF SettleInit, SettleTypeOK
<1>5. Belongs
  BY <1>3 DEF SettleInit, Belongs
<1>6. TermsPutBack /\ Gained
  BY DEF SettleInit, TermsPutBack, Gained
<1> QED
  BY <1>4, <1>5, <1>6 DEF SettleIInv

(* A refit taken keeps the invariant, whichever loop runs it.              *)
LEMMA TakeHolds ==
  ASSUME SettleIInv, NEW f \in Fits, Take(f)
  PROVE  /\ best' \in [par: Par, value: Values] /\ bestPos' \in Pos
         /\ pos' \in Pos /\ zeta' \in Zeta
         /\ Belongs'
         /\ moved' = TRUE
         /\ best'.value # NonFinite
         /\ entry'[1].value # NonFinite => best'.value < entry'[1].value
<1>1. /\ best' = Result(f) /\ bestPos' = f[2] /\ pos' = f[2] /\ zeta' = f[3]
      /\ moved' = TRUE /\ entry' = entry /\ Better(Value[f])
  BY DEF Take
<1>2. best'.value = Value[f] /\ best'.par = f[1] /\ Value[f] \in Values
  BY <1>1, ResultOfFit
<1>3. Belongs'
  BY <1>1, <1>2, ResultOfFit DEF Belongs
<1>4. best'.value # NonFinite
  BY <1>1, <1>2 DEF Better
<1>5. entry[1].value # NonFinite => best'.value < entry[1].value
  <2> SUFFICES ASSUME entry[1].value # NonFinite PROVE best'.value < entry[1].value
    OBVIOUS
  <2>1. best.value \in Values /\ entry[1].value \in Values
    BY DEF SettleIInv, SettleTypeOK
  <2>2. CASE moved
    <3>1. best.value # NonFinite /\ best.value < entry[1].value
      BY <2>2 DEF SettleIInv, Gained
    <3>2. Value[f] # NonFinite /\ Value[f] < best.value
      BY <1>1, <3>1 DEF Better
    <3> QED
      BY <1>2, <2>1, <3>1, <3>2 DEF Values
  <2>3. CASE ~moved
    <3>1. entry[1] = best
      BY <2>3 DEF SettleIInv, Gained
    <3> QED
      BY <1>1, <1>2, <3>1 DEF Better
  <2> QED
    BY <2>2, <2>3
<1> QED
  BY <1>1, <1>3, <1>4, <1>5, ResultOfFit

(* A refit turned down moves the design and nothing else.                  *)
LEMMA TurnDownHolds ==
  ASSUME SettleIInv, TurnDown
  PROVE  /\ pos' \in Pos /\ zeta' \in Zeta
         /\ UNCHANGED <<mode, best, bestPos, moved, settled, entry>>
         /\ Belongs'
  BY DEF TurnDown, SettleIInv, Belongs

LEMMA HoldHolds == SettleIInv /\ Hold => SettleIInv'
<1> SUFFICES ASSUME SettleIInv, Hold PROVE SettleIInv'
  OBVIOUS
<1>1. PICK f \in Fits : /\ best' = Result(f)
                        /\ bestPos' = f[2] /\ pos' = f[2] /\ zeta' = f[3]
  BY DEF Hold
<1>2. best' \in [par: Par, value: Values] /\ best'.value = Value[f] /\ best'.par = f[1]
  BY <1>1, ResultOfFit
<1>3. Belongs'
  BY <1>1, <1>2, ResultOfFit DEF Belongs
<1>4. SettleTypeOK'
  BY <1>1, <1>2, ResultOfFit DEF Hold, SettleIInv, SettleTypeOK
<1>5. TermsPutBack' /\ Gained'
  BY DEF Hold, SettleIInv, TermsPutBack, Gained
<1> QED
  BY <1>3, <1>4, <1>5 DEF SettleIInv

LEMMA PolishHolds == SettleIInv /\ Polish => SettleIInv'
<1> SUFFICES ASSUME SettleIInv, Polish PROVE SettleIInv'
  OBVIOUS
<1>1. ASSUME NEW f \in Fits, Take(f), n' = n + 1, UNCHANGED pc PROVE SettleIInv'
  <2>1. SettleTypeOK'
    BY <1>1, TakeHolds, SettleAssumption DEF Polish, Take, SettleIInv, SettleTypeOK
  <2>2. Gained' /\ TermsPutBack' /\ Belongs'
    BY <1>1, TakeHolds DEF Polish, Gained, TermsPutBack
  <2> QED
    BY <2>1, <2>2 DEF SettleIInv
<1>2. ASSUME TurnDown, pc' = "search", n' = 0 PROVE SettleIInv'
  <2>1. SettleTypeOK'
    BY <1>2, TurnDownHolds, SettleAssumption DEF SettleIInv, SettleTypeOK
  <2>2. Gained' /\ TermsPutBack' /\ Belongs'
    BY <1>2, TurnDownHolds DEF SettleIInv, Gained, TermsPutBack
  <2> QED
    BY <2>1, <2>2 DEF SettleIInv
<1> QED
  BY <1>1, <1>2 DEF Polish

LEMMA SearchHolds == SettleIInv /\ Search => SettleIInv'
<1> SUFFICES ASSUME SettleIInv, Search PROVE SettleIInv'
  OBVIOUS
<1>1. n' \in 0 .. (IF Rounds > MaxCand THEN Rounds ELSE MaxCand)
  BY SettleAssumption DEF Search, SettleIInv, SettleTypeOK
<1>2. ASSUME NEW f \in Fits, Take(f) PROVE SettleIInv'
  <2>1. SettleTypeOK'
    BY <1>1, <1>2, TakeHolds DEF Search, Take, SettleIInv, SettleTypeOK
  <2>2. Gained' /\ TermsPutBack' /\ Belongs'
    BY <1>2, TakeHolds DEF Search, Gained, TermsPutBack
  <2> QED
    BY <2>1, <2>2 DEF SettleIInv
<1>3. ASSUME TurnDown PROVE SettleIInv'
  <2>1. SettleTypeOK'
    BY <1>1, <1>3, TurnDownHolds DEF Search, SettleIInv, SettleTypeOK
  <2>2. Gained' /\ TermsPutBack' /\ Belongs'
    BY <1>3, TurnDownHolds DEF Search, SettleIInv, Gained, TermsPutBack
  <2> QED
    BY <2>1, <2>2 DEF SettleIInv
<1> QED
  BY <1>2, <1>3 DEF Search

LEMMA SettleStepHolds == SettleIInv /\ [SettleNext]_settleVars => SettleIInv'
<1> SUFFICES ASSUME SettleIInv, [SettleNext]_settleVars PROVE SettleIInv'
  OBVIOUS
<1>1. CASE Hold
  BY <1>1, HoldHolds
<1>2. CASE HoldFails
  BY <1>2 DEF HoldFails, SettleIInv, SettleTypeOK, Belongs, TermsPutBack, Gained
<1>3. CASE Polish
  BY <1>3, PolishHolds
<1>4. CASE StopPolishing
  BY <1>4, SettleAssumption DEF StopPolishing, SettleIInv, SettleTypeOK, Belongs, TermsPutBack, Gained
<1>5. CASE Search
  BY <1>5, SearchHolds
<1>6. CASE SettleFinish
  BY <1>6 DEF SettleFinish, SettleIInv, SettleTypeOK, Belongs, TermsPutBack, Gained
<1>7. CASE UNCHANGED settleVars
  BY <1>7 DEF settleVars, SettleIInv, SettleTypeOK, Belongs, TermsPutBack, Gained
<1> QED
  BY <1>1, <1>2, <1>3, <1>4, <1>5, <1>6, <1>7 DEF SettleNext

LEMMA SettleInvariance == SettleSpec => []SettleIInv
  BY SettleInitHolds, SettleStepHolds, PTL DEF SettleSpec

(* Where there is one structural state, it is the incumbent's.             *)
LEMMA OneStateReturns ==
  ASSUME \A z, zz \in Zeta : z = zz, SettleIInv
  PROVE  ReturnedFitIsTheDesigns
<1>1. PICK z \in Zeta : best.value = Value[<<best.par, bestPos, z>>]
  BY DEF SettleIInv, Belongs
<1>2. z = zeta
  BY DEF SettleIInv, SettleTypeOK
<1> QED
  BY <1>1, <1>2 DEF SettleIInv, TermsPutBack, ReturnedFitIsTheDesigns

(* An incumbent that is better than what the search began from is another. *)
LEMMA GainedIsTheVerdict == SettleIInv => MovedIsTheVerdict
<1> SUFFICES ASSUME SettleIInv PROVE MovedIsTheVerdict
  OBVIOUS
<1>1. CASE moved
  <2>1. best.value \in Values /\ entry[1].value \in Values
    BY DEF SettleIInv, SettleTypeOK
  <2>2. best.value # NonFinite /\ (entry[1].value # NonFinite => best.value < entry[1].value)
    BY <1>1 DEF SettleIInv, Gained
  <2>3. best.value # entry[1].value
    BY <2>1, <2>2 DEF Values
  <2>4. <<best, bestPos>> # entry
    BY <2>3
  <2> QED
    BY <1>1, <2>2, <2>4 DEF MovedIsTheVerdict
<1>2. CASE ~moved
  BY <1>2 DEF SettleIInv, Gained, MovedIsTheVerdict
<1> QED
  BY <1>1, <1>2 DEF SettleIInv, SettleTypeOK

-----------------------------------------------------------------------------
(* Every variable of the settles keeps its type: the rounds and the        *)
(* candidates stay within their limits.                                    *)
THEOREM SettleTypeCorrect == SettleSpec => []SettleTypeOK
  BY SettleInvariance, PTL DEF SettleIInv

(* Where no structural term stands beside the break-points, the fit handed *)
(* back and the design are one fit, for every objective.                   *)
THEOREM SettledFitIsTheDesigns ==
  ASSUME \A z, zz \in Zeta : z = zz
  PROVE  SettleSpec => []ReturnedFitIsTheDesigns
<1>1. SettleIInv => ReturnedFitIsTheDesigns
  BY OneStateReturns
<1> QED
  BY SettleInvariance, <1>1, PTL

(* The caller is told exactly whether a better fit replaced the one the    *)
(* search began from.                                                      *)
THEOREM FlagIsTrue == SettleSpec => []MovedIsTheVerdict
  BY SettleInvariance, GainedIsTheVerdict, PTL

-----------------------------------------------------------------------------
(* The engine.                                                             *)

(* While a round is made, the generator stands after its last draw; while  *)
(* it is read, the end of the stream is after the last draw read.  `Alive' *)
(* is a call that keeps a stream and has not failed.                       *)
Alive == at \in {"round", "draw", "here", "there", "read"}
         /\ call.kind # "predict"

Chained == \A i \in 1 .. Len(plans) - 1 : plans[i + 1] = After[plans[i]]

Joined == IF j = 0 THEN plans # <<>> => plans[1] = seed_end
                   ELSE seed_end = After[plans[j]]

Stands == IF plans = <<>> THEN session = seed_end
          ELSE session = After[plans[Len(plans)]]

Truthful == \A i \in 1 .. Len(plans) :
               res[i] # NotRun => res[i] = Outcome[<<call.key, plans[i]>>]

Kept == /\ seed_start \in Seeds /\ seed_end \in Seeds /\ session \in Seeds
        /\ store[call.key] # NoEntry => seed_start = store[call.key].end
        /\ Run(seed_start, drawn, seed_end)
        /\ Recorded(call.key, drawn, status)
        /\ Len(rows) >= call.n => LastKept(call.key, drawn)

RoundsStand == /\ at = "round" /\ Len(rows) < call.n => session = seed_end
               /\ at # "round" => Chained /\ Joined /\ Stands /\ Truthful
               /\ at \in {"draw", "here", "there"} => j = 0 /\ Len(rows) < call.n
               /\ at \in {"here", "there", "read"} => plans # <<>>

(* The arguments and the seeds of a call in progress have their types.     *)
Called == /\ at # "idle" => call \in Calls /\ {session, seed_start, seed_end} \subseteq Seeds
          /\ at = "read" => Unrun = {}

EngineInv == EngineTypeOK /\ Called /\ EntryIsOneRun /\ (Alive => Kept /\ RoundsStand)

-----------------------------------------------------------------------------
(* A run goes on by the draw at its end.                                   *)
LEMMA RunGoesOn ==
  ASSUME NEW s \in Seeds, NEW ds \in Seq(Seeds), NEW e \in Seeds, Run(s, ds, e)
  PROVE  Run(s, Append(ds, e), After[e])
<1> DEFINE as == Append(ds, e)
<1>1. /\ Len(as) = Len(ds) + 1 /\ Len(ds) \in Nat
      /\ as[Len(ds) + 1] = e
      /\ \A i \in 1 .. Len(ds) : as[i] = ds[i]
  OBVIOUS
<1>2. as # <<>>
  BY <1>1
<1>3. as[1] = s
  <2>1. CASE ds = <<>>
    BY <2>1, <1>1 DEF Run
  <2>2. CASE ds # <<>>
    <3>1. 1 \in 1 .. Len(ds)
      BY <2>2
    <3> QED BY <2>2, <3>1, <1>1 DEF Run
  <2> QED BY <2>1, <2>2
<1>4. ASSUME NEW i \in 1 .. Len(as) - 1 PROVE as[i + 1] = After[as[i]]
  <2>1. CASE i = Len(ds)
    <3>1. ds # <<>> /\ i \in 1 .. Len(ds)
      BY <2>1, <1>1
    <3> QED BY <2>1, <3>1, <1>1 DEF Run
  <2>2. CASE i # Len(ds)
    <3>1. i \in 1 .. Len(ds) - 1 /\ i + 1 \in 1 .. Len(ds) /\ i \in 1 .. Len(ds)
      BY <2>2, <1>1
    <3> QED BY <3>1, <1>1 DEF Run
  <2> QED BY <2>1, <2>2
<1> HIDE DEF as
<1>5. Run(s, as, After[e])
  BY <1>1, <1>2, <1>3, <1>4 DEF Run
<1> QED BY <1>5 DEF as

(* Two runs that meet are one run.                                         *)
LEMMA RunsJoin ==
  ASSUME NEW s \in Seeds, NEW m \in Seeds, NEW e \in Seeds,
         NEW a \in Seq(Seeds), NEW bs \in Seq(Seeds),
         Run(s, a, m), Run(m, bs, e)
  PROVE  Run(s, a \o bs, e)
<1> DEFINE c == a \o bs
<1>1. /\ c \in Seq(Seeds) /\ Len(c) = Len(a) + Len(bs)
      /\ Len(a) \in Nat /\ Len(bs) \in Nat
      /\ \A i \in 1 .. Len(a) : c[i] = a[i]
      /\ \A i \in 1 .. Len(bs) : c[Len(a) + i] = bs[i]
  OBVIOUS
<1>2. CASE bs = <<>>
  <2>1. c = a /\ m = e
    BY <1>2 DEF Run
  <2> QED BY <2>1
<1>3. CASE a = <<>>
  <2>1. c = bs /\ m = s
    BY <1>3 DEF Run
  <2> QED BY <2>1
<1>4. CASE a # <<>> /\ bs # <<>>
  <2>1. Len(a) >= 1 /\ Len(bs) >= 1
    BY <1>4, <1>1
  <2>2. c # <<>> /\ c[1] = s
    BY <2>1, <1>1, <1>4 DEF Run
  <2>3. c[Len(c)] = bs[Len(bs)]
    <3>1. Len(bs) \in 1 .. Len(bs) /\ Len(c) = Len(a) + Len(bs)
      BY <2>1, <1>1
    <3> QED BY <3>1, <1>1
  <2>4. e = After[c[Len(c)]]
    BY <2>3, <1>4 DEF Run
  <2>5. ASSUME NEW i \in 1 .. Len(c) - 1 PROVE c[i + 1] = After[c[i]]
    <3>1. CASE i < Len(a)
      <4>1. i \in 1 .. Len(a) - 1 /\ i \in 1 .. Len(a) /\ i + 1 \in 1 .. Len(a)
        BY <3>1, <1>1
      <4> QED BY <4>1, <1>1 DEF Run
    <3>2. CASE i = Len(a)
      <4>1. c[i] = a[Len(a)] /\ c[i + 1] = bs[1]
        BY <3>2, <2>1, <1>1
      <4> QED BY <4>1, <1>4 DEF Run
    <3>3. CASE i > Len(a)
      <4> DEFINE l == i - Len(a)
      <4>1. /\ l \in 1 .. Len(bs) - 1 /\ l \in 1 .. Len(bs) /\ l + 1 \in 1 .. Len(bs)
            /\ i = Len(a) + l /\ i + 1 = Len(a) + (l + 1)
        BY <3>3, <1>1
      <4>2. c[i] = bs[l] /\ c[i + 1] = bs[l + 1]
        BY <4>1, <1>1
      <4>3. bs[l + 1] = After[bs[l]]
        BY <4>1 DEF Run
      <4> QED BY <4>2, <4>3
    <3> QED BY <3>1, <3>2, <3>3, <1>1
  <2> HIDE DEF c
  <2>6. Run(s, c, e)
    BY <2>2, <2>4, <2>5 DEF Run
  <2> QED BY <2>6 DEF c
<1> QED BY <1>2, <1>3, <1>4

LEMMA RecordGoesOn ==
  ASSUME NEW k \in Keys, NEW ds \in Seq(Seeds), NEW st \in Seq(0 .. 3),
         Recorded(k, ds, st), NEW x \in Seeds, NEW o \in 0 .. 3, o = Outcome[<<k, x>>]
  PROVE  /\ Recorded(k, Append(ds, x), Append(st, o))
         /\ o = 0 => LastKept(k, Append(ds, x))
<1> DEFINE c == Append(ds, x)
           w == Append(st, o)
<1>1. /\ Len(ds) \in Nat /\ Len(st) = Len(ds)
      /\ Len(c) = Len(ds) + 1 /\ Len(w) = Len(ds) + 1
      /\ c[Len(ds) + 1] = x /\ w[Len(ds) + 1] = o
      /\ \A i \in 1 .. Len(ds) : c[i] = ds[i] /\ w[i] = st[i]
  BY DEF Recorded
<1>2. ASSUME NEW i \in 1 .. Len(c) PROVE w[i] = Outcome[<<k, c[i]>>]
  <2>1. CASE i = Len(ds) + 1
    BY <2>1, <1>1
  <2>2. CASE i \in 1 .. Len(ds)
    BY <2>2, <1>1 DEF Recorded
  <2>3. i = Len(ds) + 1 \/ i \in 1 .. Len(ds)
    BY <1>1
  <2> QED BY <2>1, <2>2, <2>3
<1>3. c # <<>>
  BY <1>1
<1> HIDE DEF c, w
<1>4. Recorded(k, c, w) /\ (o = 0 => LastKept(k, c))
  BY <1>1, <1>2, <1>3 DEF Recorded, LastKept
<1> QED BY <1>4 DEF c, w

LEMMA RecordsJoin ==
  ASSUME NEW k \in Keys, NEW a \in Seq(Seeds), NEW bs \in Seq(Seeds),
         NEW u \in Seq(0 .. 3), NEW v \in Seq(0 .. 3),
         Recorded(k, a, u), Recorded(k, bs, v), LastKept(k, bs)
  PROVE  Recorded(k, a \o bs, u \o v) /\ LastKept(k, a \o bs)
<1> DEFINE c == a \o bs
           w == u \o v
<1>0. Len(u) = Len(a) /\ Len(v) = Len(bs) /\ bs # <<>>
  BY DEF Recorded, LastKept
<1>1. /\ Len(c) = Len(a) + Len(bs) /\ Len(w) = Len(c)
      /\ Len(a) \in Nat /\ Len(bs) \in Nat /\ Len(bs) >= 1
      /\ Len(u) = Len(a) /\ Len(v) = Len(bs)
  BY <1>0, SMTT(30)
<1>2. /\ \A i \in 1 .. Len(a) : c[i] = a[i] /\ w[i] = u[i]
      /\ \A i \in 1 .. Len(bs) : c[Len(a) + i] = bs[i] /\ w[Len(a) + i] = v[i]
  BY <1>1
<1>3. ASSUME NEW i \in 1 .. Len(c) PROVE w[i] = Outcome[<<k, c[i]>>]
  <2>1. CASE i <= Len(a)
    <3>1. i \in 1 .. Len(a)
      BY <2>1, <1>1
    <3> QED BY <3>1, <1>2 DEF Recorded
  <2>2. CASE i > Len(a)
    <3>1. PICK l \in 1 .. Len(bs) : i = Len(a) + l
      <4>1. i - Len(a) \in 1 .. Len(bs) /\ i = Len(a) + (i - Len(a))
        BY <2>2, <1>1
      <4> QED BY <4>1
    <3>2. c[i] = bs[l] /\ w[i] = v[l]
      BY <3>1, <1>2
    <3>3. v[l] = Outcome[<<k, bs[l]>>]
      BY DEF Recorded
    <3> QED BY <3>2, <3>3
  <2>3. i <= Len(a) \/ i > Len(a)
    BY <1>1
  <2> QED BY <2>1, <2>2, <2>3
<1>4. c # <<>> /\ c[Len(c)] = bs[Len(bs)]
  <2>1. Len(bs) \in 1 .. Len(bs)
    BY <1>1
  <2>2. c[Len(a) + Len(bs)] = bs[Len(bs)]
    BY <2>1, <1>2
  <2> QED BY <2>2, <1>1
<1> HIDE DEF c, w
<1>5. Recorded(k, c, w) /\ LastKept(k, c)
  BY <1>1, <1>3, <1>4 DEF Recorded, LastKept
<1> QED BY <1>5 DEF c, w

-----------------------------------------------------------------------------
LEMMA EngineInitHolds == EngineInit => EngineInv
<1> SUFFICES ASSUME EngineInit PROVE EngineInv
  OBVIOUS
<1>1. EngineTypeOK
  BY DEF EngineInit, EngineTypeOK
<1>2. EntryIsOneRun
  BY DEF EngineInit, EntryIsOneRun
<1> QED BY <1>1, <1>2 DEF EngineInit, EngineInv, Called, Alive

(* A step keeps the types.                                                 *)
LEMMA TypeStep ==
  EngineTypeOK /\ Called /\ [EngineNext]_engineVars => EngineTypeOK' /\ Called'
<1> SUFFICES ASSUME EngineTypeOK, Called, [EngineNext]_engineVars
             PROVE  EngineTypeOK' /\ Called'
  OBVIOUS
<1> USE EngineAssumption
<1>0. /\ plans \in Seq(Seeds) /\ res \in Seq(0 .. 3 \union {NotRun})
      /\ Len(res) = Len(plans) /\ Len(plans) \in Nat
      /\ j \in 0 .. Len(plans)
      /\ rows \in Seq(Seeds) /\ status \in Seq(0 .. 3) /\ drawn \in Seq(Seeds)
  BY DEF EngineTypeOK
<1>1. CASE Elsewhere
  BY <1>1 DEF Elsewhere, EngineTypeOK, Called, engine
<1>2. ASSUME NEW kd \in Kinds, NEW k \in Keys, NEW m \in Wanted, NEW c \in Cores,
             Call(kd, k, m, c)
      PROVE  EngineTypeOK' /\ Called'
  <2>1. session' \in Seeds
    BY <1>2 DEF Call, Start, Entries, EngineTypeOK
  <2>2. Held(k) \in Nat
    BY DEF Held, Entries, EngineTypeOK
  <2>3. call' \in Calls
    <3>1. CASE kd = "predict"
      BY <1>2, <3>1 DEF Call, Calls, EngineTypeOK
    <3>2. CASE kd # "predict"
      <4>1. m - Held(k) \in Nat \ {0}
        BY <1>2, <3>2, <2>2 DEF Call
      <4> QED BY <1>2, <3>2, <4>1 DEF Call, Calls, EngineTypeOK
    <3> QED BY <3>1, <3>2
  <2>4. /\ at' = "round" /\ store' = store
        /\ seed_start' = session' /\ seed_end' = session'
        /\ plans' = <<>> /\ res' = <<>> /\ j' = 0
        /\ rows' = <<>> /\ status' = <<>> /\ drawn' = <<>>
    BY <1>2 DEF Call
  <2> QED BY <2>1, <2>3, <2>4 DEF Called, EngineTypeOK
<1>3. CASE Round
  BY <1>3 DEF Round, EngineTypeOK, Called
<1>4. CASE Draw
  <2>1. /\ at = "draw" /\ plans' = Append(plans, session)
        /\ res' = Append(res, NotRun) /\ session' = After[session]
        /\ UNCHANGED <<store, at, call, seed_start, seed_end, j, rows, status, drawn>>
    BY <1>4 DEF Draw
  <2>2. session \in Seeds /\ session' \in Seeds
    BY <2>1 DEF Called
  <2>3. /\ plans' \in Seq(Seeds) /\ res' \in Seq(0 .. 3 \union {NotRun})
        /\ Len(plans') = Len(plans) + 1 /\ Len(res') = Len(plans')
    BY <1>0, <2>1, <2>2
  <2>4. j' \in 0 .. Len(plans')
    BY <1>0, <2>1, <2>3
  <2> QED BY <2>1, <2>2, <2>3, <2>4 DEF EngineTypeOK, Called
<1>5. CASE DrawRaises
  BY <1>5 DEF DrawRaises, EngineTypeOK, Called, engine
<1>6. CASE MapHere \/ MapThere \/ WorkerDies \/ AllRun \/ GiveUp \/ NextRound
  BY <1>6 DEF MapHere, MapThere, WorkerDies, AllRun, GiveUp, NextRound, EngineTypeOK,
              Called, Unrun, engine
<1>7. CASE RefitHere \/ RefitThere
  <2>0. PICK i \in Unrun : \E s \in Refits(plans[i]) : res' = [res EXCEPT ![i] = s]
    BY <1>7 DEF RefitHere, RefitThere
  <2>1. PICK s \in Refits(plans[i]) : res' = [res EXCEPT ![i] = s]
    BY <2>0
  <2>2. /\ at \in {"here", "there"}
        /\ UNCHANGED <<store, at, call, seed_start, seed_end, plans, j, rows, status, drawn>>
    BY <1>7 DEF RefitHere, RefitThere
  <2>3. i \in 1 .. Len(res) /\ plans[i] \in Seeds
    BY <1>0 DEF Unrun
  <2>4. call \in Calls /\ call.key \in Keys
    BY <2>2 DEF Called, Calls
  <2>5. Outcome[<<call.key, plans[i]>>] \in 0 .. 3
    BY <2>3, <2>4
  <2>6. s \in 0 .. 3
    BY <2>5 DEF Refits
  <2>7. res' \in Seq(0 .. 3 \union {NotRun}) /\ Len(res') = Len(res)
    BY <1>0, <2>1, <2>3, <2>6, ExceptSeq
  <2>8. session \in Seeds /\ seed_end \in Seeds
    BY <2>2 DEF Called
  <2>9. session' \in Seeds
    <3>1. Reseeded[<<call.key, plans[i]>>] \in Seeds
      BY <2>3, <2>4
    <3>2. CASE RefitHere
      <4>1. PICK l \in Unrun : session' \in {session, Reseeded[<<call.key, plans[l]>>]}
        BY <3>2 DEF RefitHere
      <4>2. plans[l] \in Seeds
        BY <1>0 DEF Unrun
      <4> QED BY <4>1, <4>2, <2>4, <2>8
    <3>3. CASE RefitThere
      BY <3>3, <2>8 DEF RefitThere
    <3> QED BY <3>2, <3>3, <1>7
  <2> QED BY <1>0, <2>2, <2>4, <2>7, <2>8, <2>9 DEF EngineTypeOK, Called
<1>8. CASE ReadOne
  <2>1. /\ at = "read" /\ j < Len(plans) /\ j' = j + 1
        /\ status' = Append(status, res[j']) /\ drawn' = Append(drawn, plans[j'])
        /\ rows' \in {rows, Append(rows, plans[j'])}
        /\ seed_end' \in {seed_end, After[plans[j']]}
        /\ session' = session \/ session' \in Seeds
        /\ UNCHANGED <<store, at, call, seed_start, plans, res>>
    BY <1>8 DEF ReadOne, reading
  <2>2. /\ j' \in 1 .. Len(plans) /\ plans[j'] \in Seeds
    BY <1>0, <2>1
  <2>3. call \in Calls /\ {session, seed_start, seed_end} \subseteq Seeds
    BY <2>1 DEF Called
  <2>4. res[j'] \in 0 .. 3
    <3>1. res[j'] \in 0 .. 3 \union {NotRun} /\ j' \in DOMAIN res
      BY <1>0, <2>2
    <3>2. j' \notin Unrun
      BY <2>1 DEF Called
    <3> QED BY <3>1, <3>2 DEF Unrun
  <2>5. status' \in Seq(0 .. 3)
    BY <1>0, <2>1, <2>4
  <2>6. drawn' \in Seq(Seeds) /\ rows' \in Seq(Seeds)
    <3>1. Append(rows, plans[j']) \in Seq(Seeds) /\ Append(drawn, plans[j']) \in Seq(Seeds)
      BY <1>0, <2>2
    <3> QED BY <1>0, <2>1, <3>1
  <2>7. seed_end' \in Seeds /\ session' \in Seeds
    BY <2>1, <2>2, <2>3
  <2>8. Unrun' = Unrun /\ at' = "read"
    BY <2>1 DEF Unrun
  <2> QED BY <1>0, <2>1, <2>2, <2>3, <2>5, <2>6, <2>7, <2>8 DEF EngineTypeOK, Called
<1>9. CASE FinishCall
  <2>1. /\ at = "round" /\ Return
        /\ session' = CASE call.kind = "fill" -> seed_end
                        [] call.kind = "stored" ->
                             IF call.session = NoSeed THEN seed_end ELSE call.session
                        [] call.kind = "predict" -> session
        /\ \/ store' = store
           \/ store' = [store EXCEPT ![call.key] =
                            IF @ = NoEntry THEN Fresh ELSE Extended(@)]
    BY <1>9 DEF FinishCall
  <2>2. call \in Calls /\ {session, seed_start, seed_end} \subseteq Seeds
    BY <2>1 DEF Called
  <2>3. /\ call.kind \in Kinds /\ call.key \in Keys
        /\ call.session \in Seeds \union {NoSeed}
    BY <2>2 DEF Calls
  <2>4. session' \in Seeds
    BY <2>1, <2>2, <2>3 DEF Kinds
  <2>5. Fresh \in Entries
    BY <1>0, <2>2 DEF Fresh, Entries
  <2>6. ASSUME NEW e \in Entries PROVE Extended(e) \in Entries
    <3>1. /\ e.start \in Seeds /\ e.rows \in Seq(Seeds)
          /\ e.status \in Seq(0 .. 3) /\ e.draws \in Seq(Seeds)
      BY DEF Entries
    <3>2. /\ e.rows \o rows \in Seq(Seeds) /\ e.status \o status \in Seq(0 .. 3)
          /\ e.draws \o drawn \in Seq(Seeds)
      BY <3>1, <1>0
    <3> QED BY <3>1, <3>2, <2>2 DEF Entries, Extended
  <2>7. store' \in [Keys -> Entries \union {NoEntry}]
    <3>1. store \in [Keys -> Entries \union {NoEntry}]
      BY DEF EngineTypeOK
    <3>2. CASE store[call.key] = NoEntry
      <4>1. store' \in {store, [store EXCEPT ![call.key] = Fresh]}
        BY <3>2, <2>1
      <4> QED BY <3>1, <4>1, <2>3, <2>5
    <3>3. CASE store[call.key] # NoEntry
      <4>1. store' \in {store, [store EXCEPT ![call.key] = Extended(store[call.key])]}
        BY <3>3, <2>1
      <4>2. Extended(store[call.key]) \in Entries
        BY <3>1, <3>3, <2>3, <2>6
      <4> QED BY <3>1, <4>1, <4>2, <2>3
    <3> QED BY <3>2, <3>3
  <2>8. /\ at' = "idle" /\ call' = NoCall /\ seed_start' = NoSeed /\ seed_end' = NoSeed
        /\ plans' = <<>> /\ res' = <<>> /\ j' = 0
        /\ rows' = <<>> /\ status' = <<>> /\ drawn' = <<>>
    BY <2>1 DEF Return
  <2> QED BY <2>4, <2>7, <2>8 DEF EngineTypeOK, Called
<1>10. CASE Abandon
  BY <1>10 DEF Abandon, Return, EngineTypeOK, Called
<1>11. CASE UNCHANGED engineVars
  BY <1>11 DEF engineVars, EngineTypeOK, Called, Unrun, engine
<1> QED BY <1>1, <1>2, <1>3, <1>4, <1>5, <1>6, <1>7, <1>8, <1>9, <1>10, <1>11
        DEF EngineNext, Engine

LEMMA OnlyFinishStores ==
  ASSUME [EngineNext]_engineVars, store' # store
  PROVE  FinishCall /\ call.kind # "predict"
  BY DEF EngineNext, Engine, engineVars, Elsewhere, Call, Round, Draw, DrawRaises, MapHere,
         MapThere, RefitHere, RefitThere, WorkerDies, AllRun, ReadOne, GiveUp,
         NextRound, FinishCall, Abandon

(* Only Finish writes an entry: it is one run if the call's draws go on    *)
(* from where the entry ended.                                             *)
LEMMA EntryStep ==
  ASSUME EngineTypeOK, Called, EntryIsOneRun, Alive => Kept, [EngineNext]_engineVars
  PROVE  EntryIsOneRun'
<1> USE EngineAssumption
<1>1. CASE store' = store
  BY <1>1 DEF EntryIsOneRun
<1>2. CASE store' # store
  <2> DEFINE k == call.key
             e == store[call.key]
  <2>1. FinishCall /\ call.kind # "predict"
    BY <1>2, OnlyFinishStores
  <2>2. /\ at = "round" /\ Need <= 0
        /\ store' = [store EXCEPT ![k] = IF @ = NoEntry THEN Fresh ELSE Extended(@)]
    BY <2>1 DEF FinishCall
  <2>3. Kept
    BY <2>1, <2>2 DEF Alive
  <2>4. /\ call \in Calls /\ k \in Keys /\ call.n \in Nat
        /\ store \in [Keys -> Entries \union {NoEntry}]
        /\ rows \in Seq(Seeds) /\ status \in Seq(0 .. 3) /\ drawn \in Seq(Seeds)
        /\ seed_start \in Seeds /\ seed_end \in Seeds
    BY <2>2 DEF Called, Calls, EngineTypeOK
  <2>5. /\ Run(seed_start, drawn, seed_end) /\ Recorded(k, drawn, status)
        /\ LastKept(k, drawn)
    <3>1. Len(rows) >= call.n
      BY <2>1, <2>2, <2>4 DEF Need, replace
    <3> QED BY <3>1, <2>3 DEF Kept
  <2>6. CASE e = NoEntry
    <3>1. store' = [store EXCEPT ![k] = Fresh]
      BY <2>2, <2>6
    <3>2. /\ Fresh.start = seed_start /\ Fresh.end = seed_end
          /\ Fresh.draws = drawn /\ Fresh.status = status
      BY DEF Fresh
    <3>3. ASSUME NEW l \in Keys, store'[l] # NoEntry
          PROVE  /\ Run(store'[l].start, store'[l].draws, store'[l].end)
                 /\ Recorded(l, store'[l].draws, store'[l].status)
                 /\ LastKept(l, store'[l].draws)
      <4>1. CASE l = k
        <5>1. store'[l] = Fresh
          BY <4>1, <3>1, <2>4
        <5> QED BY <5>1, <4>1, <3>2, <2>5
      <4>2. CASE l # k
        <5>1. store'[l] = store[l]
          BY <4>2, <3>1, <2>4
        <5> QED BY <5>1, <3>3 DEF EntryIsOneRun
      <4> QED BY <4>1, <4>2
    <3> QED BY <3>3 DEF EntryIsOneRun
  <2>7. CASE e # NoEntry
    <3>1. store' = [store EXCEPT ![k] = Extended(e)]
      BY <2>2, <2>7
    <3>2. /\ Extended(e).start = e.start /\ Extended(e).end = seed_end
          /\ Extended(e).draws = e.draws \o drawn
          /\ Extended(e).status = e.status \o status
      BY DEF Extended
    <3>3. e \in Entries
      BY <2>4, <2>7
    <3>4. /\ e.start \in Seeds /\ e.end \in Seeds
          /\ e.draws \in Seq(Seeds) /\ e.status \in Seq(0 .. 3)
      BY <3>3 DEF Entries
    <3>5. /\ Run(e.start, e.draws, seed_start) /\ Recorded(k, e.draws, e.status)
      <4>1. seed_start = e.end
        BY <2>3, <2>7 DEF Kept
      <4> QED BY <4>1, <2>4, <2>7 DEF EntryIsOneRun
    <3>6. Run(e.start, e.draws \o drawn, seed_end)
      BY <3>4, <3>5, <2>4, <2>5, RunsJoin
    <3>7. /\ Recorded(k, e.draws \o drawn, e.status \o status)
          /\ LastKept(k, e.draws \o drawn)
      BY <3>4, <3>5, <2>4, <2>5, RecordsJoin
    <3>8. ASSUME NEW l \in Keys, store'[l] # NoEntry
          PROVE  /\ Run(store'[l].start, store'[l].draws, store'[l].end)
                 /\ Recorded(l, store'[l].draws, store'[l].status)
                 /\ LastKept(l, store'[l].draws)
      <4>1. CASE l = k
        <5>1. store'[l] = Extended(e)
          BY <4>1, <3>1, <2>4
        <5> QED BY <5>1, <4>1, <3>2, <3>6, <3>7
      <4>2. CASE l # k
        <5>1. store'[l] = store[l]
          BY <4>2, <3>1, <2>4
        <5> QED BY <5>1, <3>8 DEF EntryIsOneRun
      <4> QED BY <4>1, <4>2
    <3> QED BY <3>8 DEF EntryIsOneRun
  <2> QED BY <2>6, <2>7
<1> QED BY <1>1, <1>2

(* While a call is alive, its draws are one run, on which the round in     *)
(* progress goes on.                                                       *)
LEMMA AliveStep ==
  ASSUME EngineTypeOK, Called, Alive => Kept /\ RoundsStand, [EngineNext]_engineVars, Alive'
  PROVE  Kept' /\ RoundsStand'
<1> USE EngineAssumption
<1>0. /\ plans \in Seq(Seeds) /\ res \in Seq(0 .. 3 \union {NotRun})
      /\ Len(res) = Len(plans) /\ Len(plans) \in Nat
      /\ j \in 0 .. Len(plans)
      /\ rows \in Seq(Seeds) /\ status \in Seq(0 .. 3) /\ drawn \in Seq(Seeds)
  BY DEF EngineTypeOK
<1>a. ASSUME Alive, UNCHANGED <<store, call, seed_start, seed_end, rows, status, drawn>>,
             session' \in Seeds
      PROVE  Kept'
  BY <1>a DEF Kept, Run, Recorded, LastKept
<1>1. ASSUME NEW kd \in Kinds, NEW k \in Keys, NEW m \in Wanted, NEW c \in Cores,
             Call(kd, k, m, c)
      PROVE  Kept' /\ RoundsStand'
  <2>1. kd # "predict" /\ call'.kind = kd /\ call'.key = k
    BY <1>1 DEF Call, Alive
  <2>2. /\ session' \in Seeds
        /\ store[k] # NoEntry => session' = store[k].end
    BY <1>1, <2>1 DEF Call, Start, stream, Entries, EngineTypeOK
  <2>3. call'.n \in Nat \ {0}
    <3>1. Held(k) \in Nat
      BY DEF Held, Entries, EngineTypeOK
    <3> QED BY <1>1, <2>1, <3>1 DEF Call
  <2>4. /\ at' = "round" /\ store' = store
        /\ seed_start' = session' /\ seed_end' = session'
        /\ plans' = <<>> /\ res' = <<>> /\ j' = 0
        /\ rows' = <<>> /\ status' = <<>> /\ drawn' = <<>>
    BY <1>1 DEF Call
  <2>5. Run(seed_start', drawn', seed_end') /\ Recorded(call'.key, drawn', status')
    BY <2>4 DEF Run, Recorded
  <2>6. Kept'
    BY <2>1, <2>2, <2>3, <2>4, <2>5 DEF Kept
  <2>7. RoundsStand'
    BY <2>4 DEF RoundsStand
  <2> QED BY <2>6, <2>7
<1>2. CASE Round
  <2>1. Alive /\ Kept /\ RoundsStand /\ call \in Calls /\ session \in Seeds
    BY <1>2 DEF Round, Alive, Called
  <2>2. Kept'
    BY <1>2, <2>1, <1>a DEF Round
  <2>3. Len(rows) < call.n
    BY <1>2, <2>1, <1>0 DEF Round, Need, replace, Alive, Calls
  <2>4. session = seed_end
    BY <1>2, <2>1, <2>3 DEF Round, RoundsStand
  <2>5. RoundsStand'
    BY <1>2, <2>3, <2>4 DEF Round, RoundsStand, Chained, Joined, Stands, Truthful
  <2> QED BY <2>2, <2>5
<1>3. CASE Draw
  <2>1. /\ at = "draw" /\ at' = "draw" /\ plans' = Append(plans, session)
        /\ res' = Append(res, NotRun) /\ session' = After[session]
        /\ UNCHANGED <<store, call, seed_start, seed_end, j, rows, status, drawn>>
    BY <1>3 DEF Draw
  <2>2. Alive /\ Kept /\ RoundsStand /\ session \in Seeds /\ session' \in Seeds
    BY <2>1 DEF Alive, Called
  <2>3. Kept'
    BY <2>1, <2>2, <1>a
  <2>4. Chained /\ Joined /\ Stands /\ Truthful /\ j = 0 /\ Len(rows) < call.n
    BY <2>1, <2>2 DEF RoundsStand
  <2>5. /\ Len(plans') = Len(plans) + 1 /\ plans'[Len(plans) + 1] = session
        /\ res'[Len(plans) + 1] = NotRun
        /\ \A i \in 1 .. Len(plans) : plans'[i] = plans[i] /\ res'[i] = res[i]
    BY <1>0, <2>1, <2>2
  <2>6. Chained'
    <3>1. ASSUME NEW i \in 1 .. Len(plans') - 1 PROVE plans'[i + 1] = After[plans'[i]]
      <4>1. i \in 1 .. Len(plans) /\ Len(plans) >= 1 /\ plans'[i] = plans[i]
        BY <1>0, <2>5
      <4>2. CASE i = Len(plans)
        BY <4>1, <4>2, <2>4, <2>5 DEF Stands
      <4>3. CASE i # Len(plans)
        <5>1. i \in 1 .. Len(plans) - 1 /\ i + 1 \in 1 .. Len(plans)
          BY <4>1, <4>3, <1>0
        <5> QED BY <5>1, <4>1, <2>4, <2>5 DEF Chained
      <4> QED BY <4>2, <4>3
    <3> QED BY <3>1 DEF Chained
  <2>7. Joined'
    <3>1. CASE plans = <<>>
      BY <3>1, <2>1, <2>4, <2>5 DEF Joined, Stands
    <3>2. CASE plans # <<>>
      <4>1. 1 \in 1 .. Len(plans)
        BY <3>2, <1>0
      <4> QED BY <4>1, <3>2, <2>1, <2>4, <2>5 DEF Joined
    <3> QED BY <3>1, <3>2
  <2>8. Stands'
    <3>1. plans' # <<>>
      BY <1>0, <2>5
    <3> QED BY <3>1, <2>1, <2>5 DEF Stands
  <2>9. Truthful'
    <3>1. ASSUME NEW i \in 1 .. Len(plans'), res'[i] # NotRun
          PROVE  res'[i] = Outcome[<<call'.key, plans'[i]>>]
      <4>1. i \in 1 .. Len(plans)
        BY <3>1, <1>0, <2>5
      <4> QED BY <4>1, <3>1, <2>1, <2>4, <2>5 DEF Truthful
    <3> QED BY <3>1 DEF Truthful
  <2> QED BY <2>1, <2>3, <2>4, <2>6, <2>7, <2>8, <2>9 DEF RoundsStand
<1>4. CASE MapHere \/ MapThere
  <2>1. /\ at = "draw" /\ at' \in {"here", "there"} /\ Len(plans) = k_draws
        /\ UNCHANGED <<session, store, call, engine>>
    BY <1>4 DEF MapHere, MapThere
  <2>2. Alive /\ Kept /\ RoundsStand /\ session \in Seeds /\ call \in Calls
    BY <2>1 DEF Alive, Called
  <2>3. Kept'
    BY <2>1, <2>2, <1>a DEF engine
  <2>4. Chained /\ Joined /\ Stands /\ Truthful /\ j = 0 /\ Len(rows) < call.n
    BY <2>1, <2>2 DEF RoundsStand
  <2>5. plans # <<>>
    <3>1. Len(plans) = call.n - Len(rows)
      BY <2>1, <2>2 DEF Alive, k_draws, Need, replace
    <3>2. Len(plans) >= 1
      BY <3>1, <2>2, <2>4, <1>0 DEF Calls
    <3> QED BY <3>2
  <2> QED BY <2>1, <2>3, <2>4, <2>5 DEF RoundsStand, engine, Chained, Joined, Stands, Truthful
<1>5. CASE RefitHere \/ RefitThere
  <2>0. PICK i \in Unrun : \E s \in Refits(plans[i]) : res' = [res EXCEPT ![i] = s]
    BY <1>5 DEF RefitHere, RefitThere
  <2>1. PICK s \in Refits(plans[i]) : res' = [res EXCEPT ![i] = s]
    BY <2>0
  <2>2. /\ at \in {"here", "there"}
        /\ UNCHANGED <<store, at, call, seed_start, seed_end, plans, j, rows, status, drawn>>
    BY <1>5 DEF RefitHere, RefitThere
  <2>3. Alive /\ Kept /\ RoundsStand /\ session \in Seeds /\ call.kind # "predict"
    BY <2>2 DEF Alive, Called
  <2>4. session' = session
    BY <1>5, <2>3 DEF RefitHere, RefitThere, stream
  <2>5. Kept'
    BY <2>2, <2>3, <2>4, <1>a
  <2>6. Chained /\ Joined /\ Stands /\ Truthful /\ j = 0 /\ Len(rows) < call.n
        /\ plans # <<>>
    BY <2>2, <2>3 DEF RoundsStand
  <2>7. s = Outcome[<<call.key, plans[i]>>]
    BY <2>3 DEF Refits
  <2>8. Truthful'
    <3>1. ASSUME NEW l \in 1 .. Len(plans), res'[l] # NotRun
          PROVE  res'[l] = Outcome[<<call.key, plans[l]>>]
      <4>1. l \in DOMAIN res
        BY <1>0
      <4>2. res'[l] = IF l = i THEN s ELSE res[l]
        BY <2>1, <4>1
      <4> QED BY <4>2, <3>1, <2>6, <2>7 DEF Truthful
    <3> QED BY <3>1, <2>2 DEF Truthful
  <2>9. Chained' /\ Joined' /\ Stands'
    BY <2>2, <2>4, <2>6 DEF Chained, Joined, Stands
  <2> QED BY <2>2, <2>5, <2>6, <2>8, <2>9 DEF RoundsStand
<1>6. CASE AllRun
  <2>1. /\ at \in {"here", "there"} /\ at' = "read"
        /\ UNCHANGED <<session, store, call, engine>>
    BY <1>6 DEF AllRun
  <2>2. Alive /\ Kept /\ RoundsStand /\ session \in Seeds
    BY <2>1 DEF Alive, Called
  <2>3. Kept'
    BY <2>1, <2>2, <1>a DEF engine
  <2> QED BY <2>1, <2>2, <2>3 DEF RoundsStand, engine, Chained, Joined, Stands, Truthful
<1>7. CASE ReadOne
  <2> DEFINE x == plans[j + 1]
             o == res[j + 1]
  <2>1. /\ at = "read" /\ at' = "read" /\ reading /\ j' = j + 1
        /\ status' = Append(status, o) /\ drawn' = Append(drawn, x)
        /\ rows' = IF o = 0 THEN Append(rows, x) ELSE rows
        /\ UNCHANGED <<store, call, seed_start, plans, res>>
    BY <1>7 DEF ReadOne
  <2>2. Alive /\ Kept /\ RoundsStand /\ session \in Seeds /\ call \in Calls
        /\ call.kind # "predict"
    BY <2>1 DEF Alive, Called
  <2>3. session' = session /\ seed_end' = After[x]
    BY <1>7, <2>2 DEF ReadOne, stream
  <2>4. /\ j + 1 \in 1 .. Len(plans) /\ j + 1 \in DOMAIN res /\ x \in Seeds
    BY <1>0, <2>1 DEF reading
  <2>5. Chained /\ Joined /\ Stands /\ Truthful /\ plans # <<>> /\ Unrun = {}
    BY <2>1, <2>2 DEF RoundsStand, Called
  <2>6. o = Outcome[<<call.key, x>>] /\ o \in 0 .. 3 /\ call.key \in Keys
    <3>1. o # NotRun
      BY <2>4, <2>5 DEF Unrun
    <3> QED BY <3>1, <2>2, <2>4, <2>5 DEF Truthful, Calls
  <2>7. x = seed_end
    <3>1. CASE j = 0
      BY <3>1, <2>5 DEF Joined
    <3>2. CASE j # 0
      <4>1. j \in 1 .. Len(plans) - 1
        BY <3>2, <1>0, <2>4
      <4> QED BY <4>1, <3>2, <2>5 DEF Joined, Chained
    <3> QED BY <3>1, <3>2
  <2>8. Run(seed_start, Append(drawn, x), After[x])
    BY <2>2, <2>4, <2>7, <1>0, RunGoesOn DEF Kept
  <2>9. /\ Recorded(call.key, Append(drawn, x), Append(status, o))
        /\ o = 0 => LastKept(call.key, Append(drawn, x))
    BY <2>2, <2>4, <2>6, <1>0, RecordGoesOn DEF Kept
  <2>10. Len(rows') >= call.n => o = 0
    BY <2>1, <2>2 DEF reading, enough, replace
  <2>11. After[x] \in Seeds
    BY <2>4
  <2>12. Kept'
    BY <2>1, <2>2, <2>3, <2>8, <2>9, <2>10, <2>11 DEF Kept
  <2>13. Joined'
    BY <2>1, <2>3, <2>4, <1>0 DEF Joined
  <2>14. Chained' /\ Stands' /\ Truthful'
    BY <2>1, <2>3, <2>5 DEF Chained, Stands, Truthful
  <2> QED BY <2>1, <2>5, <2>12, <2>13, <2>14 DEF RoundsStand
<1>8. CASE NextRound
  <2>1. /\ at = "read" /\ at' = "round" /\ ~reading
        /\ UNCHANGED <<session, store, call, engine>>
    BY <1>8 DEF NextRound
  <2>2. Alive /\ Kept /\ RoundsStand /\ session \in Seeds /\ call \in Calls
        /\ call.kind # "predict"
    BY <2>1 DEF Alive, Called
  <2>3. Kept'
    BY <2>1, <2>2, <1>a DEF engine
  <2>4. Joined /\ Stands /\ plans # <<>>
    BY <2>1, <2>2 DEF RoundsStand
  <2>5. Len(rows) < call.n => session = seed_end
    <3>1. SUFFICES ASSUME Len(rows) < call.n PROVE session = seed_end
      OBVIOUS
    <3>2. j = Len(plans) /\ j # 0
      BY <3>1, <1>0, <2>1, <2>2, <2>4 DEF reading, enough, Calls
    <3> QED BY <3>2, <2>4 DEF Joined, Stands
  <2> QED BY <2>1, <2>3, <2>5 DEF RoundsStand, engine
<1>9. CASE Elsewhere \/ DrawRaises \/ WorkerDies \/ GiveUp \/ FinishCall \/ Abandon
  BY <1>9 DEF Elsewhere, DrawRaises, WorkerDies, GiveUp, FinishCall, Abandon, Return, Alive
<1>10. CASE UNCHANGED engineVars
  <2>1. Alive /\ Kept /\ RoundsStand /\ session \in Seeds
    BY <1>10 DEF engineVars, Alive, Called
  <2>2. Kept'
    BY <1>10, <2>1, <1>a DEF engineVars, engine
  <2> QED BY <1>10, <2>1, <2>2
          DEF engineVars, engine, RoundsStand, Chained, Joined, Stands, Truthful
<1> QED BY <1>1, <1>2, <1>3, <1>4, <1>5, <1>6, <1>7, <1>8, <1>9, <1>10 DEF EngineNext, Engine

LEMMA Inductive == EngineInv /\ [EngineNext]_engineVars => EngineInv'
<1> SUFFICES ASSUME EngineInv, [EngineNext]_engineVars PROVE EngineInv'
  OBVIOUS
<1>1. EngineTypeOK' /\ Called'
  BY TypeStep DEF EngineInv
<1>2. EntryIsOneRun'
  BY EntryStep DEF EngineInv
<1>3. Alive' => Kept' /\ RoundsStand'
  BY AliveStep DEF EngineInv
<1> QED BY <1>1, <1>2, <1>3 DEF EngineInv

-----------------------------------------------------------------------------
(* The rows.  A call that replaces failures has no more rows than it was   *)
(* asked for, and will make its entry as long as was wanted; one that does *)
(* not has made no more draws than were asked for, one to a round.         *)
EntriesInOrder == \A k \in Keys : store[k] # NoEntry =>
                    InOrder(k, store[k].draws, store[k].rows)

Replacing == /\ InOrder(call.key, drawn, rows)
             /\ Len(rows) <= call.n
             /\ Held(call.key) + call.n \in Wanted

Counting ==
  /\ at \in {"round", "draw", "here", "there", "read"} /\ call.kind = "predict"
       => Len(status) <= call.n
  /\ at \in {"draw", "here", "there", "read"} /\ call.kind = "predict"
       => Len(plans) <= 1 /\ Len(status) - j < call.n

Rowed == EntriesInOrder /\ (Alive => Replacing) /\ Counting

LEMMA PlacesFinite ==
  ASSUME NEW k, NEW ds \in Seq(Seeds)
  PROVE  /\ Places(k, ds) \subseteq 1 .. Len(ds)
         /\ IsFiniteSet(Places(k, ds)) /\ Cardinality(Places(k, ds)) \in Nat
         /\ \A i : /\ IsFiniteSet(UpTo(Places(k, ds), i))
                   /\ Cardinality(UpTo(Places(k, ds), i)) \in Nat
<1> DEFINE P == Places(k, ds)
<1>1. P \subseteq 1 .. Len(ds) /\ Len(ds) \in Nat
  BY DEF Places
<1>2. IsFiniteSet(1 .. Len(ds))
  BY <1>1, FS_Interval
<1>3. IsFiniteSet(P)
  BY <1>1, <1>2, FS_Subset
<1>4. ASSUME NEW i PROVE IsFiniteSet(UpTo(P, i))
  <2>1. UpTo(P, i) \in SUBSET P
    BY DEF UpTo
  <2> QED BY <2>1, <1>3, FS_Subset
<1> HIDE DEF P
<1>5. Cardinality(P) \in Nat /\ \A i : Cardinality(UpTo(P, i)) \in Nat
  BY <1>3, <1>4, FS_CardinalityType
<1> QED BY <1>1, <1>3, <1>4, <1>5 DEF P

(* A draw that is kept is the last of the rows, one that is not leaves     *)
(* them as they are.                                                       *)
LEMMA OrderGoesOn ==
  ASSUME NEW k, NEW ds \in Seq(Seeds), NEW rs \in Seq(Seeds), InOrder(k, ds, rs),
         NEW x \in Seeds, NEW o, o = Outcome[<<k, x>>]
  PROVE  InOrder(k, Append(ds, x), IF o = 0 THEN Append(rs, x) ELSE rs)
<1> DEFINE c == Append(ds, x)
           len == Len(ds)
           P == Places(k, ds)
           Q == Places(k, c)
<1>1. /\ len \in Nat /\ c \in Seq(Seeds) /\ Len(c) = len + 1 /\ c[len + 1] = x
      /\ \A i \in 1 .. len : c[i] = ds[i]
  OBVIOUS
<1>2. /\ P \subseteq 1 .. len /\ IsFiniteSet(P) /\ Cardinality(P) \in Nat
      /\ \A i : Cardinality(UpTo(P, i)) \in Nat
  BY PlacesFinite
<1>3. Len(rs) = Cardinality(P) /\ \A i \in P : rs[Cardinality(UpTo(P, i))] = ds[i]
  BY DEF InOrder
<1>4. Q = IF o = 0 THEN P \union {len + 1} ELSE P
  <2>1. 1 .. Len(c) = (1 .. len) \union {len + 1}
    BY <1>1
  <2>2. P = {i \in 1 .. len : Outcome[<<k, ds[i]>>] = 0}
    BY DEF Places
  <2>3. Q = {i \in (1 .. len) \union {len + 1} : Outcome[<<k, c[i]>>] = 0}
    BY <2>1 DEF Places
  <2>4. Outcome[<<k, c[len + 1]>>] = o
    BY <1>1
  <2> HIDE DEF P, Q, c
  <2> QED BY <1>1, <2>2, <2>3, <2>4
<1> HIDE DEF P, Q, c
<1>5. CASE o = 0
  <2> DEFINE w == Append(rs, x)
  <2>1. Q = P \union {len + 1} /\ len + 1 \notin P
    BY <1>1, <1>2, <1>4, <1>5
  <2>2. Cardinality(Q) = Cardinality(P) + 1
    BY <2>1, <1>2, FS_AddElement
  <2>3. Len(w) = Cardinality(Q) /\ w[Len(rs) + 1] = x
        /\ \A i \in 1 .. Len(rs) : w[i] = rs[i]
    BY <1>2, <1>3, <2>2
  <2>4. ASSUME NEW i \in Q PROVE w[Cardinality(UpTo(Q, i))] = c[i]
    <3>1. CASE i = len + 1
      <4>1. UpTo(Q, i) = Q
        <5>1. \A l \in Q : l \in Nat /\ l <= len + 1
          BY <2>1, <1>1, <1>2
        <5> QED BY <5>1, <3>1 DEF UpTo
      <4> QED BY <4>1, <3>1, <2>2, <2>3, <1>1, <1>3
    <3>2. CASE i \in P
      <4>1. UpTo(Q, i) = UpTo(P, i)
        BY <3>2, <2>1, <1>1, <1>2 DEF UpTo
      <4>2. Cardinality(UpTo(P, i)) \in 1 .. Len(rs)
        <5>1. UpTo(P, i) \in SUBSET P /\ i \in UpTo(P, i)
          BY <3>2, <1>1, <1>2 DEF UpTo
        <5>2. IsFiniteSet(UpTo(P, i)) /\ Cardinality(UpTo(P, i)) <= Cardinality(P)
          BY <5>1, <1>2, FS_Subset
        <5>3. Cardinality(UpTo(P, i)) # 0
          BY <5>1, <5>2, FS_EmptySet
        <5> QED BY <5>2, <5>3, <1>2, <1>3
      <4>3. i \in 1 .. len
        BY <3>2, <1>2
      <4> QED BY <4>1, <4>2, <4>3, <3>2, <2>3, <1>1, <1>3
    <3> QED BY <3>1, <3>2, <2>1
  <2> HIDE DEF w
  <2>5. InOrder(k, c, w)
    BY <2>3, <2>4 DEF InOrder, Q
  <2> QED BY <2>5, <1>5 DEF c, w
<1>6. CASE o # 0
  <2>1. Q = P
    BY <1>4, <1>6
  <2>2. ASSUME NEW i \in Q PROVE rs[Cardinality(UpTo(Q, i))] = c[i]
    BY <2>1, <1>1, <1>2, <1>3
  <2>3. InOrder(k, c, rs)
    BY <2>1, <2>2, <1>3 DEF InOrder, Q
  <2> QED BY <2>3, <1>6 DEF c
<1> QED BY <1>5, <1>6

(* The size of two sets of places, the second moved past the first.        *)
LEMMA ShiftedUnion ==
  ASSUME NEW len \in Nat, NEW A, IsFiniteSet(A), A \subseteq 1 .. len,
         NEW S, IsFiniteSet(S), S \subseteq Nat \ {0}
  PROVE  Cardinality(A \union {len + i : i \in S}) = Cardinality(A) + Cardinality(S)
<1> DEFINE T == {len + i : i \in S}
           f == [i \in S |-> len + i]
<1>1. /\ f \in [S -> T]
      /\ \A x, y \in S : f[x] = f[y] => x = y
      /\ \A t \in T : \E s \in S : f[s] = t
  OBVIOUS
<1> HIDE DEF f, T
<1>2. f \in Bijection(S, T)
  BY <1>1, Fun_IsBij
<1>3. ExistsBijection(S, T)
  BY <1>2 DEF ExistsBijection
<1>4. IsFiniteSet(T) /\ Cardinality(T) = Cardinality(S)
  BY <1>3, FS_Bijection
<1>5. A \cap T = {}
  BY DEF T
<1>6. Cardinality(A \union T) = Cardinality(A) + Cardinality(T) - Cardinality(A \cap T)
  BY <1>4, FS_Union
<1>7. Cardinality(A \cap T) = 0
  BY <1>5, FS_EmptySet
<1>9. Cardinality(A) \in Nat /\ Cardinality(T) \in Nat
  BY <1>4, FS_CardinalityType
<1>8. Cardinality(A \union T) = Cardinality(A) + Cardinality(T)
  BY <1>6, <1>7, <1>9
<1> QED BY <1>4, <1>8 DEF T

(* Rows in the order of two runs of draws are, together, in their order.   *)
LEMMA OrdersJoin ==
  ASSUME NEW k, NEW a \in Seq(Seeds), NEW bs \in Seq(Seeds),
         NEW u \in Seq(Seeds), NEW v \in Seq(Seeds),
         InOrder(k, a, u), InOrder(k, bs, v)
  PROVE  InOrder(k, a \o bs, u \o v)
<1> DEFINE c == a \o bs
           w == u \o v
           len == Len(a)
           A == Places(k, a)
           B == Places(k, bs)
           Shift(S) == {len + i : i \in S}
           C == Places(k, c)
<1>1. /\ len \in Nat /\ Len(bs) \in Nat /\ c \in Seq(Seeds) /\ Len(c) = len + Len(bs)
      /\ \A i \in 1 .. len : c[i] = a[i]
      /\ \A i \in 1 .. Len(bs) : c[len + i] = bs[i]
  OBVIOUS
<1>2. /\ Len(u) \in Nat /\ Len(v) \in Nat /\ Len(w) = Len(u) + Len(v)
      /\ \A i \in 1 .. Len(u) : w[i] = u[i]
      /\ \A i \in 1 .. Len(v) : w[Len(u) + i] = v[i]
  OBVIOUS
<1>3. /\ A \subseteq 1 .. len /\ IsFiniteSet(A) /\ Cardinality(A) = Len(u)
      /\ \A i \in A : u[Cardinality(UpTo(A, i))] = a[i]
  BY PlacesFinite DEF InOrder
<1>4. /\ B \subseteq 1 .. Len(bs) /\ IsFiniteSet(B) /\ Cardinality(B) = Len(v)
      /\ \A i \in B : v[Cardinality(UpTo(B, i))] = bs[i]
      /\ \A i : IsFiniteSet(UpTo(B, i)) /\ Cardinality(UpTo(B, i)) \in Nat
  BY PlacesFinite DEF InOrder
<1>5. C = A \union Shift(B)
  <2>1. A = {i \in 1 .. len : Outcome[<<k, a[i]>>] = 0}
        /\ B = {i \in 1 .. Len(bs) : Outcome[<<k, bs[i]>>] = 0}
        /\ C = {i \in 1 .. len + Len(bs) : Outcome[<<k, c[i]>>] = 0}
    BY <1>1 DEF Places
  <2> HIDE DEF A, B, C, c, len
  <2>2. ASSUME NEW i \in C PROVE i \in A \union Shift(B)
    <3>1. CASE i <= len
      <4>1. i \in 1 .. len
        BY <3>1, <2>1, <1>1
      <4> QED BY <4>1, <2>1, <1>1
    <3>2. CASE i > len
      <4>1. i - len \in 1 .. Len(bs) /\ i = len + (i - len)
        BY <3>2, <2>1, <1>1
      <4>2. c[i] = bs[i - len]
        BY <4>1, <1>1
      <4> QED BY <4>1, <4>2, <2>1
    <3> QED BY <3>1, <3>2, <2>1, <1>1
  <2>3. ASSUME NEW i \in A PROVE i \in C
    <3>1. i \in 1 .. len /\ Outcome[<<k, a[i]>>] = 0
      BY <2>1
    <3>2. i \in 1 .. len + Len(bs) /\ c[i] = a[i]
      BY <3>1, <1>1
    <3> QED BY <3>1, <3>2, <2>1
  <2>4. ASSUME NEW i \in B PROVE len + i \in C
    <3>1. i \in 1 .. Len(bs) /\ len + i \in 1 .. len + Len(bs) /\ c[len + i] = bs[i]
      BY <2>1, <1>1
    <3> QED BY <3>1, <2>1
  <2> QED BY <2>2, <2>3, <2>4
<1> HIDE DEF A, B, C, c, w, len
<1>a. len \in Nat /\ A \subseteq 1 .. len
  BY <1>1, <1>3
<1>b. \A m \in A : m \in Nat /\ m <= len
  <2>1. \A m \in 1 .. len : m \in Nat /\ m <= len
    BY <1>a
  <2> QED BY <2>1, <1>a
<1>c. B \subseteq 1 .. Len(bs) /\ \A m \in B : m \in Nat \ {0} /\ m <= m
  <2>1. B \subseteq 1 .. Len(bs)
    BY <1>4
  <2>2. \A m \in 1 .. Len(bs) : m \in Nat \ {0} /\ m <= m
    BY <1>1
  <2> QED BY <2>1, <2>2
<1>6. ASSUME NEW S, IsFiniteSet(S), S \subseteq Nat \ {0}
      PROVE  Cardinality(A \union Shift(S)) = Len(u) + Cardinality(S)
  <2>1. Cardinality(A \union {len + i : i \in S}) = Cardinality(A) + Cardinality(S)
    BY <1>1, <1>3, <1>6, ShiftedUnion, ZenonT(60)
  <2> QED BY <2>1, <1>3
<1>7. Cardinality(C) = Len(w)
  <2>1. B \subseteq Nat \ {0}
    BY <1>1, <1>4
  <2>2. Cardinality(A \union Shift(B)) = Len(u) + Cardinality(B)
    BY <2>1, <1>4, <1>6
  <2> QED BY <2>2, <1>2, <1>4, <1>5
<1>8. ASSUME NEW i \in C PROVE w[Cardinality(UpTo(C, i))] = c[i]
  <2>1. CASE i \in A
    <3>1. UpTo(C, i) = UpTo(A, i)
      BY <2>1, <1>1, <1>3, <1>4, <1>5 DEF UpTo
    <3>2. Cardinality(UpTo(A, i)) \in 1 .. Len(u)
      <4>1. UpTo(A, i) \in SUBSET A /\ i \in UpTo(A, i)
        BY <2>1, <1>1, <1>3 DEF UpTo
      <4>2. IsFiniteSet(UpTo(A, i)) /\ Cardinality(UpTo(A, i)) <= Cardinality(A)
        BY <4>1, <1>3, FS_Subset
      <4>3. Cardinality(UpTo(A, i)) # 0 /\ Cardinality(UpTo(A, i)) \in Nat
        BY <4>1, <4>2, FS_EmptySet, FS_CardinalityType
      <4> QED BY <4>2, <4>3, <1>2, <1>3
    <3>3. w[Cardinality(UpTo(A, i))] = u[Cardinality(UpTo(A, i))]
      BY <3>2, <1>2
    <3>4. u[Cardinality(UpTo(A, i))] = a[i]
      BY <2>1, <1>3
    <3>5. c[i] = a[i]
      BY <2>1, <1>a, <1>1
    <3> QED BY <3>1, <3>3, <3>4, <3>5
  <2>2. CASE i \in Shift(B)
    <3>1. PICK l \in B : i = len + l
      BY <2>2
    <3>2. UpTo(C, i) = A \union Shift(UpTo(B, l))
      <4>1. \A m \in A : m \in Nat /\ m <= len
        BY <1>b
      <4>2. l \in Nat /\ \A m \in B : m \in Nat /\ (len + m <= len + l <=> m <= l)
        BY <1>1, <1>4
      <4>3. \A m \in A : m <= i
        BY <4>1, <4>2, <3>1, <1>1
      <4>4. ASSUME NEW m PROVE m \in UpTo(C, i) <=> m \in A \union Shift(UpTo(B, l))
        <5>1. m \in UpTo(C, i) <=> (m \in A \/ \E h \in B : m = len + h) /\ m <= i
          BY <1>5 DEF UpTo
        <5>2. m \in A \union Shift(UpTo(B, l))
                <=> m \in A \/ \E h \in B : m = len + h /\ h <= l
          BY DEF UpTo
        <5>3. ASSUME NEW h \in B, m = len + h PROVE m <= i <=> h <= l
          BY <5>3, <4>2, <3>1
        <5>4. (m \in A \/ \E h \in B : m = len + h) /\ m <= i
                <=> m \in A \/ \E h \in B : m = len + h /\ h <= l
          BY <4>3, <5>3
        <5> QED BY <5>1, <5>2, <5>4
      <4> QED BY <4>4
    <3>3. UpTo(B, l) \in SUBSET B /\ l \in UpTo(B, l) /\ UpTo(B, l) \subseteq Nat \ {0}
      BY <1>c DEF UpTo
    <3>4. Cardinality(UpTo(C, i)) = Len(u) + Cardinality(UpTo(B, l))
      BY <3>2, <3>3, <1>4, <1>6
    <3>5. Cardinality(UpTo(B, l)) \in 1 .. Len(v)
      <4>1. Cardinality(UpTo(B, l)) <= Cardinality(B)
        BY <3>3, <1>4, FS_Subset
      <4>2. Cardinality(UpTo(B, l)) # 0
        BY <3>3, <1>4, FS_EmptySet
      <4> QED BY <4>1, <4>2, <1>2, <1>4
    <3>6. l \in 1 .. Len(bs)
      BY <1>4
    <3>7. w[Len(u) + Cardinality(UpTo(B, l))] = v[Cardinality(UpTo(B, l))]
      BY <3>5, <1>2
    <3>8. v[Cardinality(UpTo(B, l))] = bs[l]
      BY <1>4
    <3>9. c[i] = bs[l]
      BY <3>1, <3>6, <1>1
    <3> QED BY <3>4, <3>7, <3>8, <3>9
  <2> QED BY <2>1, <2>2, <1>5
<1>9. InOrder(k, c, w)
  BY <1>7, <1>8 DEF InOrder, C
<1> QED BY <1>9 DEF c, w

(* An entry is written with the rows of its draws, or goes on by those of  *)
(* the call.                                                               *)
LEMMA EntriesInOrderStep ==
  ASSUME EngineTypeOK, Called, Rowed, [EngineNext]_engineVars
  PROVE  EntriesInOrder'
<1>1. CASE store' = store
  BY <1>1 DEF Rowed, EntriesInOrder
<1>2. CASE store' # store
  <2> DEFINE k == call.key
             e == store[call.key]
  <2>1. FinishCall /\ call.kind # "predict"
    BY <1>2, OnlyFinishStores
  <2>2. /\ at = "round"
        /\ store' = [store EXCEPT ![k] = IF @ = NoEntry THEN Fresh ELSE Extended(@)]
    BY <2>1 DEF FinishCall
  <2>3. /\ call \in Calls /\ k \in Keys /\ InOrder(k, drawn, rows)
        /\ store \in [Keys -> Entries \union {NoEntry}]
        /\ rows \in Seq(Seeds) /\ drawn \in Seq(Seeds)
    BY <2>1, <2>2 DEF Called, Calls, EngineTypeOK, Alive, Rowed, Replacing
  <2> DEFINE new == IF e = NoEntry THEN Fresh ELSE Extended(e)
  <2>4. InOrder(k, new.draws, new.rows)
    <3>1. CASE e = NoEntry
      BY <3>1, <2>3 DEF Fresh
    <3>2. CASE e # NoEntry
      <4>1. e \in Entries
        BY <3>2, <2>3
      <4>2. /\ e.draws \in Seq(Seeds) /\ e.rows \in Seq(Seeds)
            /\ InOrder(k, e.draws, e.rows)
        BY <4>1, <3>2, <2>3 DEF Entries, Rowed, EntriesInOrder
      <4>3. InOrder(k, e.draws \o drawn, e.rows \o rows)
        BY <4>2, <2>3, OrdersJoin
      <4> QED BY <4>3, <3>2 DEF Extended
    <3> QED BY <3>1, <3>2
  <2>5. \A l \in Keys : store'[l] = IF l = k THEN new ELSE store[l]
    BY <2>2, <2>3
  <2> HIDE DEF new, k
  <2>6. ASSUME NEW l \in Keys, store'[l] # NoEntry
        PROVE  InOrder(l, store'[l].draws, store'[l].rows)
    BY <2>4, <2>5, <2>6 DEF Rowed, EntriesInOrder
  <2> QED BY <2>6 DEF EntriesInOrder
<1> QED BY <1>1, <1>2

(* A call in progress keeps its rows in the order of its draws, and never  *)
(* reads one too many.                                                     *)
LEMMA ReplacingStep ==
  ASSUME EngineTypeOK, Called, Alive => Kept /\ RoundsStand, Rowed, [EngineNext]_engineVars, Alive'
  PROVE  Replacing'
<1>0. /\ plans \in Seq(Seeds) /\ res \in Seq(0 .. 3 \union {NotRun})
      /\ Len(res) = Len(plans) /\ Len(plans) \in Nat /\ j \in 0 .. Len(plans)
      /\ rows \in Seq(Seeds) /\ drawn \in Seq(Seeds)
  BY DEF EngineTypeOK
<1>1. ASSUME NEW kd \in Kinds, NEW k \in Keys, NEW m \in Wanted, NEW c \in Cores,
             Call(kd, k, m, c)
      PROVE  Replacing'
  <2>1. /\ call'.key = k /\ call'.n = m - Held(k) /\ Held(k) < m
        /\ drawn' = <<>> /\ rows' = <<>> /\ store' = store
    BY <1>1 DEF Call, Alive
  <2>2. Held(k) \in Nat /\ m \in Nat
    BY EngineAssumption DEF Held, Entries, EngineTypeOK
  <2>3. InOrder(k, <<>>, <<>>)
    <3>1. Places(k, <<>>) = {}
      BY DEF Places
    <3> QED BY <3>1, FS_EmptySet DEF InOrder
  <2>4. Held(k)' = Held(k)
    BY <2>1 DEF Held
  <2> HIDE DEF Held
  <2>5. Len(rows') <= call'.n /\ Held(k)' + call'.n = m
    BY <2>1, <2>2, <2>4
  <2> QED BY <2>1, <2>3, <2>5 DEF Replacing, Held
<1>2. CASE ReadOne
  <2> DEFINE x == plans[j + 1]
             o == res[j + 1]
  <2>1. /\ at = "read" /\ reading /\ drawn' = Append(drawn, x)
        /\ rows' = IF o = 0 THEN Append(rows, x) ELSE rows
        /\ UNCHANGED <<store, call, plans, res>>
    BY <1>2 DEF ReadOne
  <2>2. Alive /\ RoundsStand /\ Replacing /\ call \in Calls /\ call.kind # "predict"
    BY <2>1 DEF Alive, Called, Rowed
  <2>3. /\ j + 1 \in 1 .. Len(plans) /\ j + 1 \in DOMAIN res /\ x \in Seeds
    BY <1>0, <2>1 DEF reading
  <2>4. o = Outcome[<<call.key, x>>]
    <3>1. Truthful /\ Unrun = {}
      BY <2>1, <2>2 DEF RoundsStand, Called
    <3> QED BY <3>1, <2>3 DEF Truthful, Unrun
  <2>5. InOrder(call.key, drawn', rows')
    BY <1>0, <2>1, <2>2, <2>3, <2>4, OrderGoesOn DEF Replacing
  <2>6. Len(rows) < call.n /\ Len(rows') <= Len(rows) + 1
    BY <1>0, <2>1, <2>2, <2>3 DEF reading, enough, replace, Calls
  <2>7. Len(rows') <= call.n
    <3>1. rows' \in Seq(Seeds)
      BY <1>0, <2>1, <2>3
    <3> QED BY <3>1, <1>0, <2>2, <2>6 DEF Calls
  <2> QED BY <2>1, <2>2, <2>5, <2>7 DEF Replacing, Held
<1>3. CASE Round \/ Draw \/ MapHere \/ MapThere \/ RefitHere \/ RefitThere
             \/ AllRun \/ NextRound \/ UNCHANGED engineVars
  <2>1. UNCHANGED <<store, call, rows, drawn>>
    BY <1>3 DEF Round, Draw, MapHere, MapThere, RefitHere, RefitThere, AllRun,
                NextRound, engineVars, engine
  <2>2. Alive
    BY <1>3, <2>1 DEF Alive, Round, Draw, MapHere, MapThere, RefitHere, RefitThere,
                      AllRun, NextRound, engineVars
  <2> QED BY <2>1, <2>2 DEF Rowed, Replacing, Held
<1>4. CASE Elsewhere \/ DrawRaises \/ WorkerDies \/ GiveUp \/ FinishCall \/ Abandon
  BY <1>4 DEF Elsewhere, DrawRaises, WorkerDies, GiveUp, FinishCall, Abandon, Return, Alive
<1> QED BY <1>1, <1>2, <1>3, <1>4 DEF EngineNext, Engine

(* Where failures are not replaced the draws come one at a time, and no    *)
(* more of them than were asked for.                                       *)
LEMMA CountingStep ==
  ASSUME EngineTypeOK, Called, Counting, [EngineNext]_engineVars
  PROVE  Counting'
<1>0. /\ plans \in Seq(Seeds) /\ Len(plans) \in Nat /\ j \in 0 .. Len(plans)
      /\ status \in Seq(0 .. 3) /\ Len(status) \in Nat
      /\ at # "idle" => call \in Calls /\ call.n \in Nat
  BY DEF EngineTypeOK, Called, Calls
<1>1. ASSUME NEW kd \in Kinds, NEW k \in Keys, NEW m \in Wanted, NEW c \in Cores,
             Call(kd, k, m, c)
      PROVE  Counting'
  <2>1. /\ at' = "round" /\ status' = <<>>
        /\ call'.kind = "predict" => call'.n = m
    BY <1>1 DEF Call
  <2> QED BY <2>1, EngineAssumption DEF Counting
<1>2. CASE Round
  <2>1. /\ at = "round" /\ Need > 0 /\ plans' = <<>> /\ j' = 0 /\ at' = "draw"
        /\ UNCHANGED <<call, status>>
    BY <1>2 DEF Round
  <2>2. call.kind = "predict" => Need = call.n - Len(status)
    BY DEF Need, replace
  <2> QED BY <1>0, <2>1, <2>2 DEF Counting
<1>3. CASE Draw
  <2>1. /\ at = "draw" /\ at' = "draw" /\ Len(plans) < k_draws
        /\ plans' = Append(plans, session) /\ UNCHANGED <<call, status, j>>
    BY <1>3 DEF Draw
  <2>2. call.kind = "predict" => Len(plans) < 1
    BY <2>1 DEF k_draws
  <2>3. Len(plans') = Len(plans) + 1
    BY <1>0, <2>1
  <2> QED BY <1>0, <2>1, <2>2, <2>3 DEF Counting
<1>4. CASE MapHere \/ MapThere \/ RefitHere \/ RefitThere \/ AllRun \/ UNCHANGED engineVars
  <2>1. UNCHANGED <<call, status, plans, j>>
    BY <1>4 DEF MapHere, MapThere, RefitHere, RefitThere, AllRun, engineVars, engine
  <2>2. at' = at \/ (at \in {"draw", "here", "there"} /\ at' \in {"here", "there", "read"})
    BY <1>4 DEF MapHere, MapThere, RefitHere, RefitThere, AllRun, engineVars
  <2> QED BY <2>1, <2>2 DEF Counting
<1>5. CASE ReadOne
  <2>1. /\ at = "read" /\ at' = "read" /\ j < Len(plans) /\ j' = j + 1
        /\ status' = Append(status, res[j + 1]) /\ UNCHANGED <<call, plans>>
    BY <1>5 DEF ReadOne, reading
  <2>2. Len(status') = Len(status) + 1
    BY <1>0, <2>1
  <2> QED BY <1>0, <2>1, <2>2 DEF Counting
<1>6. CASE NextRound
  BY <1>6 DEF NextRound, engine, Counting
<1>7. CASE Elsewhere \/ DrawRaises \/ WorkerDies \/ GiveUp \/ FinishCall \/ Abandon
  BY <1>7 DEF Elsewhere, DrawRaises, WorkerDies, GiveUp, FinishCall, Abandon, Return,
              Counting
<1> QED BY <1>1, <1>2, <1>3, <1>4, <1>5, <1>6, <1>7 DEF EngineNext, Engine

LEMMA RowedHolds == EngineInit => Rowed
  BY DEF EngineInit, Rowed, EntriesInOrder, Alive, Counting

LEMMA RowedStep == EngineInv /\ Rowed /\ [EngineNext]_engineVars => Rowed'
<1> SUFFICES ASSUME EngineInv, Rowed, [EngineNext]_engineVars PROVE Rowed'
  OBVIOUS
<1>1. EntriesInOrder'
  BY EntriesInOrderStep DEF EngineInv
<1>2. Alive' => Replacing'
  BY ReplacingStep DEF EngineInv
<1>3. Counting'
  BY CountingStep DEF EngineInv, Rowed
<1> QED BY <1>1, <1>2, <1>3 DEF Rowed

LEMMA RowedIsKept == EngineInv /\ Rowed => RowsAreTheKept
<1> SUFFICES ASSUME EngineInv, Rowed PROVE RowsAreTheKept
  OBVIOUS
<1>1. ASSUME at = "round", Need <= 0
      PROVE  IF replace
             THEN Len(rows) = call.n /\ Held(call.key) + call.n \in Wanted
             ELSE Len(status) = call.n
  <2>1. call \in Calls /\ call.n \in Nat /\ Len(rows) \in Nat /\ Len(status) \in Nat
    BY <1>1 DEF EngineInv, EngineTypeOK, Called, Calls
  <2>2. CASE call.kind = "predict"
    BY <1>1, <2>1, <2>2 DEF Need, replace, Rowed, Counting
  <2>3. CASE call.kind # "predict"
    <3>1. Replacing
      BY <1>1, <2>3 DEF Rowed, Alive
    <3>2. Need = call.n - Len(rows) /\ replace
      BY <2>3 DEF Need, replace
    <3> QED BY <3>1, <3>2, <1>1, <2>1 DEF Replacing
  <2> QED BY <2>2, <2>3
<1> QED BY <1>1 DEF Rowed, EntriesInOrder, RowsAreTheKept

-----------------------------------------------------------------------------
(* The end of a call.  Failures that do not outnumber the rows bound the   *)
(* replicates a call can record, `Allowed'; a round is as many as are      *)
(* missing; and a round records one at least.                              *)
Allowed == MinDraws + 3 * call.n

Running == at \notin {"idle", "failed"}

Bounded ==
  Running =>
    /\ Len(rows) <= Len(status) /\ Len(status) <= Allowed
    /\ at = "round" /\ Need > 0 => Len(status) <= MinDraws + 2 * call.n
    /\ at \in {"draw", "here", "there"} =>
         j = 0 /\ Need > 0 /\ Len(status) <= MinDraws + 2 * call.n /\ Len(plans) <= k_draws
    /\ at \in {"here", "there"} => Len(plans) = k_draws
    /\ at = "read" =>
         plans # <<>> /\ Len(status) + (Len(plans) - j) <= Allowed /\ (j = 0 => Need > 0)

(* The steps a call has left: a round's worth for every replicate it may   *)
(* still record, and what is left of the round.                            *)
Weight == 2 * call.n + 6
Stage ==
  CASE at = "read" -> IF j = 0 THEN 1 ELSE Weight - 1
    [] at = "round" -> Weight - 2
    [] at = "draw" -> Weight - 3 - Len(plans)
    [] at \in {"here", "there"} -> 2 + Cardinality(Unrun)
    [] OTHER -> 0
CallLeft == IF Running THEN (Allowed - Len(status)) * Weight + Stage ELSE 0

(* The numbers of a call in progress.                                      *)
LEMMA CallIs ==
  ASSUME EngineInv, at # "idle"
  PROVE  /\ call.n \in Nat \ {0} /\ Len(plans) \in Nat /\ Len(res) = Len(plans)
         /\ Len(rows) \in Nat /\ Len(status) \in Nat /\ j \in 0 .. Len(plans) /\ j \in Nat
         /\ MinDraws = 10
<1>1. call \in Calls /\ EngineTypeOK
  BY DEF EngineInv, Called
<1> QED BY <1>1 DEF Calls, EngineTypeOK, MinDraws

(* The draws a round takes are between one and as many as were asked for.  *)
LEMMA RoundIs ==
  ASSUME EngineInv, at # "idle", Need > 0
  PROVE  k_draws \in 1 .. call.n /\ Need \in Nat
BY CallIs DEF Need, k_draws, replace

(* The bound of the replicates stands.                                     *)
LEMMA BoundedStep ==
  ASSUME EngineInv, EngineInv', Bounded, [EngineNext]_engineVars
  PROVE  Bounded'
<1> SUFFICES ASSUME Running' PROVE
    (/\ Len(rows) <= Len(status) /\ Len(status) <= Allowed
     /\ at = "round" /\ Need > 0 => Len(status) <= MinDraws + 2 * call.n
     /\ at \in {"draw", "here", "there"} =>
          j = 0 /\ Need > 0 /\ Len(status) <= MinDraws + 2 * call.n /\ Len(plans) <= k_draws
     /\ at \in {"here", "there"} => Len(plans) = k_draws
     /\ at = "read" =>
          plans # <<>> /\ Len(status) + (Len(plans) - j) <= Allowed /\ (j = 0 => Need > 0))'
  BY DEF Bounded
<1>0. at' \notin {"idle", "failed"}
  BY DEF Running
<1>1. ASSUME NEW kd \in Kinds, NEW k \in Keys, NEW m \in Wanted, NEW cc \in Cores, Call(kd, k, m, cc)
      PROVE  Bounded'
  <2>1. rows' = <<>> /\ status' = <<>> /\ at' = "round" /\ Len(<<>>) = 0
    BY <1>1 DEF Call
  <2>2. call'.n \in Nat \ {0}
    <3>1. Called'
      BY DEF EngineInv
    <3>2. call' \in Calls
      BY <1>0, <3>1 DEF Called
    <3> QED BY <3>2 DEF Calls
  <2> QED BY <2>1, <2>2 DEF Bounded, Allowed, MinDraws
<1>2. CASE Elsewhere \/ DrawRaises \/ WorkerDies \/ GiveUp \/ FinishCall \/ Abandon
  <2>1. at' \in {"idle", "failed"}
    BY <1>2 DEF Elsewhere, DrawRaises, WorkerDies, GiveUp, FinishCall, Abandon, Return
  <2> QED BY <1>0, <2>1
<1>3. CASE Round
  <2>1. /\ at = "round" /\ Need > 0 /\ plans' = <<>> /\ j' = 0 /\ at' = "draw"
        /\ UNCHANGED <<call, rows, status>> /\ Len(<<>>) = 0
    BY <1>3 DEF Round
  <2>2. k_draws \in 1 .. call.n
    BY <2>1, RoundIs
  <2>3. Need' = Need /\ k_draws' = k_draws /\ Allowed' = Allowed
    BY <2>1 DEF Need, k_draws, replace, Allowed
  <2> QED BY <2>1, <2>2, <2>3 DEF Bounded, Running
<1>4. CASE Draw
  <2>1. /\ at = "draw" /\ Len(plans) < k_draws /\ plans' = Append(plans, session)
        /\ UNCHANGED <<at, call, j, rows, status>>
    BY <1>4 DEF Draw
  <2>2. /\ j = 0 /\ Need > 0 /\ Len(status) <= MinDraws + 2 * call.n
        /\ Len(rows) <= Len(status) /\ Len(status) <= Allowed
    BY <2>1 DEF Bounded, Running
  <2>3. k_draws \in 1 .. call.n /\ Len(plans) \in Nat /\ plans \in Seq(Seeds)
    BY <2>1, <2>2, RoundIs, CallIs DEF EngineInv, EngineTypeOK
  <2>4. Need' = Need /\ k_draws' = k_draws /\ Allowed' = Allowed
    BY <2>1 DEF Need, k_draws, replace, Allowed
  <2>5. Len(plans') = Len(plans) + 1
    BY <2>1, <2>3
  <2>6. Len(plans') <= k_draws
    BY <2>1, <2>3, <2>5
  <2> QED BY <2>1, <2>2, <2>4, <2>6
<1>5. CASE MapHere \/ MapThere
  <2>1. at = "draw" /\ Len(plans) = k_draws /\ at' \in {"here", "there"} /\ UNCHANGED <<call, engine>>
    BY <1>5 DEF MapHere, MapThere
  <2>2. /\ j = 0 /\ Need > 0 /\ Len(status) <= MinDraws + 2 * call.n
        /\ Len(rows) <= Len(status) /\ Len(status) <= Allowed
    BY <2>1 DEF Bounded, Running
  <2>3. UNCHANGED <<call, plans, j, rows, status>>
    BY <2>1 DEF engine
  <2>4. Need' = Need /\ k_draws' = k_draws /\ Allowed' = Allowed
    BY <2>3 DEF Need, k_draws, replace, Allowed
  <2>5. Len(plans) <= k_draws
    BY <2>1, <2>2, RoundIs
  <2> QED BY <2>1, <2>2, <2>3, <2>4, <2>5
<1>6. CASE RefitHere \/ RefitThere
  <2>1. at \in {"here", "there"} /\ UNCHANGED <<at, call, plans, j, rows, status>>
    BY <1>6 DEF RefitHere, RefitThere
  <2>2. Need' = Need /\ k_draws' = k_draws /\ Allowed' = Allowed
    BY <2>1 DEF Need, k_draws, replace, Allowed
  <2> QED BY <2>1, <2>2 DEF Bounded, Running
<1>7. CASE AllRun
  <2>1. at \in {"here", "there"} /\ at' = "read" /\ UNCHANGED <<call, engine>>
    BY <1>7 DEF AllRun
  <2>2. /\ j = 0 /\ Need > 0 /\ Len(status) <= MinDraws + 2 * call.n
        /\ Len(rows) <= Len(status) /\ Len(status) <= Allowed /\ Len(plans) = k_draws
    BY <2>1 DEF Bounded, Running
  <2>3. UNCHANGED <<call, plans, j, rows, status>>
    BY <2>1 DEF engine
  <2>4. Need' = Need /\ Allowed' = Allowed
    BY <2>3 DEF Need, replace, Allowed
  <2>5. k_draws \in 1 .. call.n /\ call.n \in Nat /\ Len(plans) \in Nat /\ Len(status) \in Nat
    BY <2>1, <2>2, RoundIs, CallIs
  <2>6. plans # <<>>
    BY <2>2, <2>5
  <2>7. Len(status) + (Len(plans) - j) <= Allowed
    BY <2>2, <2>5 DEF Allowed, MinDraws
  <2> QED BY <2>1, <2>2, <2>3, <2>4, <2>6, <2>7
<1>8. CASE ReadOne
  <2>1. /\ at = "read" /\ j < Len(plans) /\ j' = j + 1 /\ status' = Append(status, res[j'])
        /\ rows' = Append(rows, plans[j']) \/ rows' = rows
        /\ UNCHANGED <<at, call, plans>>
    BY <1>8 DEF ReadOne, reading
  <2>2. Len(rows) <= Len(status) /\ plans # <<>> /\ Len(status) + (Len(plans) - j) <= Allowed
    BY <2>1 DEF Bounded, Running
  <2>3. /\ Len(plans) \in Nat /\ Len(rows) \in Nat /\ Len(status) \in Nat /\ j \in Nat /\ call.n \in Nat
        /\ rows \in Seq(Seeds) /\ status \in Seq(0 .. 3)
    BY <2>1, CallIs DEF EngineInv, EngineTypeOK
  <2>4. Len(status') = Len(status) + 1 /\ Len(rows') \in {Len(rows), Len(rows) + 1}
    BY <2>1, <2>3
  <2>5. Allowed' = Allowed /\ Allowed \in Nat
    BY <2>1, <2>3 DEF Allowed, MinDraws
  <2>6. Len(rows') <= Len(status') /\ Len(status') + (Len(plans') - j') <= Allowed' /\ Len(status') <= Allowed'
    BY <2>1, <2>2, <2>3, <2>4, <2>5
  <2>7. j' # 0 /\ at' = "read" /\ plans' # <<>>
    BY <2>1, <2>2, <2>3
  <2> QED BY <2>6, <2>7
<1>9. CASE NextRound
  <2>1. at = "read" /\ ~MostFail /\ at' = "round" /\ UNCHANGED <<call, engine>>
    BY <1>9 DEF NextRound
  <2>2. UNCHANGED <<call, plans, j, rows, status>>
    BY <2>1 DEF engine
  <2>3. Len(rows) <= Len(status) /\ Len(status) + (Len(plans) - j) <= Allowed
    BY <2>1 DEF Bounded, Running
  <2>4. /\ Len(plans) \in Nat /\ Len(rows) \in Nat /\ Len(status) \in Nat /\ j \in 0 .. Len(plans)
        /\ call.n \in Nat
    BY <2>1, CallIs
  <2>5. Need' = Need /\ Allowed' = Allowed /\ Allowed \in Nat
    BY <2>2, <2>4 DEF Need, replace, Allowed, MinDraws
  <2>6. Need > 0 => Len(status) <= MinDraws + 2 * call.n
    <3>1. CASE call.kind = "predict"
      BY <2>4, <3>1 DEF Need, replace, MinDraws
    <3>2. CASE call.kind # "predict"
      BY <2>1, <2>4, <3>2 DEF Need, replace, MinDraws, MostFail, Failures
    <3> QED BY <3>1, <3>2
  <2>7. Len(status) <= Allowed
    BY <2>3, <2>4, <2>5
  <2> QED BY <2>1, <2>2, <2>3, <2>5, <2>6, <2>7
<1>10. CASE UNCHANGED engineVars
  <2>1. UNCHANGED <<at, call, plans, res, j, rows, status>>
    BY <1>10 DEF engineVars, engine
  <2> QED BY <2>1 DEF Bounded, Running, Need, k_draws, replace, Allowed
<1> QED BY <1>1, <1>2, <1>3, <1>4, <1>5, <1>6, <1>7, <1>8, <1>9, <1>10 DEF EngineNext, Engine, Bounded

(* What is left of a call in progress, in its two parts.                   *)
LEMMA LeftIs ==
  ASSUME EngineInv, Bounded, Running
  PROVE  /\ Weight \in Nat /\ Weight > 5 /\ Stage \in Nat \ {0}
         /\ (Allowed - Len(status)) * Weight \in Nat
         /\ IsFiniteSet(Unrun) /\ Cardinality(Unrun) \in 0 .. Len(plans)
<1>1. /\ call.n \in Nat \ {0} /\ Len(plans) \in Nat /\ Len(res) = Len(plans) /\ Len(status) \in Nat
      /\ MinDraws = 10 /\ at # "idle"
  BY CallIs DEF Running
<1>2. Weight \in Nat /\ Weight > 5 /\ Weight = 2 * call.n + 6
  BY <1>1 DEF Weight
<1>3. Len(status) <= Allowed /\ Allowed \in Nat
  BY <1>1 DEF Bounded, Allowed
<1>4. (Allowed - Len(status)) * Weight \in Nat
  <2>1. \A x, y \in Nat : x * y \in Nat
    OBVIOUS
  <2>2. Allowed - Len(status) \in Nat
    BY <1>1, <1>3
  <2> QED BY <1>2, <2>1, <2>2
<1>5. IsFiniteSet(Unrun) /\ Cardinality(Unrun) \in 0 .. Len(plans)
  <2>1. IsFiniteSet(1 .. Len(res)) /\ Cardinality(1 .. Len(res)) = Len(res)
    <3>1. 1 \in Int /\ Len(res) \in Nat
      BY <1>1
    <3>2. /\ IsFiniteSet(1 .. Len(res))
          /\ Cardinality(1 .. Len(res)) = IF 1 > Len(res) THEN 0 ELSE Len(res) - 1 + 1
      BY <3>1, FS_Interval
    <3> QED BY <3>1, <3>2
  <2>2. DOMAIN res = 1 .. Len(res)
    BY DEF EngineInv, EngineTypeOK
  <2>3. Unrun \in SUBSET (1 .. Len(res))
    BY <2>2 DEF Unrun
  <2>4. IsFiniteSet(Unrun) /\ Cardinality(Unrun) <= Len(res)
    BY <2>1, <2>3, FS_Subset
  <2>5. Cardinality(Unrun) \in Nat
    BY <2>4, FS_CardinalityType
  <2> QED BY <1>1, <2>4, <2>5
<1>6. Stage \in Nat \ {0}
  <2>1. CASE at = "draw"
    <3>1. k_draws \in 1 .. call.n /\ Len(plans) <= k_draws
      BY <1>1, <2>1, RoundIs DEF Bounded
    <3>2. Stage = Weight - 3 - Len(plans)
      BY <2>1 DEF Stage
    <3>3. Len(plans) \in Nat /\ Len(plans) <= call.n /\ call.n \in Nat
      BY <1>1, <3>1
    <3>4. \A x, y \in Nat : x <= y => (2 * y + 6) - 3 - x \in Nat \ {0}
      OBVIOUS
    <3> QED BY <1>2, <3>2, <3>3, <3>4
  <2>2. CASE at \in {"here", "there"}
    BY <1>1, <1>5, <2>2 DEF Stage
  <2>3. CASE at = "read"
    BY <1>2, <2>3 DEF Stage
  <2>4. CASE at = "round"
    BY <1>2, <2>4 DEF Stage
  <2>5. at \in {"draw", "here", "there", "read", "round"}
    BY DEF Running, EngineInv, EngineTypeOK
  <2> QED BY <2>1, <2>2, <2>3, <2>4, <2>5
<1> QED BY <1>2, <1>4, <1>5, <1>6

(* What is left is a number, and not none while the call runs.             *)
LEMMA LeftIsNat == EngineInv /\ Bounded => CallLeft \in Nat /\ (Running => CallLeft > 0)
<1> DEFINE X == (Allowed - Len(status)) * Weight
<1>1. ASSUME EngineInv, Bounded, Running PROVE CallLeft \in Nat /\ CallLeft > 0
  <2>1. X \in Nat /\ Stage \in Nat \ {0} /\ CallLeft = X + Stage
    BY <1>1, LeftIs DEF CallLeft
  <2> HIDE DEF X
  <2> QED BY <2>1
<1>2. ~Running => CallLeft = 0
  BY DEF CallLeft
<1> QED BY <1>1, <1>2

(* A step of a call that neither records a replicate nor ends the call     *)
(* goes to an earlier stage.                                               *)
LEMMA StageStep ==
  ASSUME EngineInv, Bounded, Running, UNCHANGED <<call, status>>,
         Round \/ Draw \/ MapHere \/ MapThere \/ RefitHere \/ RefitThere \/ AllRun \/ NextRound
  PROVE  Running' /\ Stage' \in Int /\ Stage' < Stage
<1>1. /\ call.n \in Nat \ {0} /\ Len(plans) \in Nat /\ Len(res) = Len(plans) /\ at # "idle"
      /\ j \in 0 .. Len(plans) /\ Len(rows) \in Nat /\ Len(status) \in Nat
  BY CallIs DEF Running
<1>2. Weight' = Weight /\ Weight \in Nat /\ Weight = 2 * call.n + 6
  BY <1>1 DEF Weight
<1>3. IsFiniteSet(Unrun) /\ Cardinality(Unrun) \in 0 .. Len(plans)
  BY LeftIs
<1>4. CASE Round
  <2>1. at = "round" /\ at' = "draw" /\ Len(plans') = 0
    BY <1>4 DEF Round
  <2> QED BY <1>1, <1>2, <2>1 DEF Stage, Running
<1>5. CASE Draw
  <2>1. at = "draw" /\ at' = "draw" /\ Len(plans') = Len(plans) + 1
    BY <1>5 DEF Draw, EngineInv, EngineTypeOK
  <2>2. Stage = Weight - 3 - Len(plans) /\ Stage' = Weight - 3 - (Len(plans) + 1)
    BY <1>2, <2>1 DEF Stage
  <2>3. \A x, y \in Int : y - 3 - (x + 1) \in Int /\ y - 3 - (x + 1) < y - 3 - x
    OBVIOUS
  <2>4. Len(plans) \in Int /\ Weight \in Int
    BY <1>1, <1>2
  <2>5. Running'
    BY <2>1 DEF Running
  <2> QED BY <2>2, <2>3, <2>4, <2>5
<1>6. CASE MapHere \/ MapThere
  <2>1. at = "draw" /\ at' \in {"here", "there"} /\ res' = res
    BY <1>6 DEF MapHere, MapThere, engine
  <2>2. Unrun' = Unrun
    BY <2>1 DEF Unrun
  <2>3. k_draws \in 1 .. call.n /\ Len(plans) <= k_draws
    BY <1>1, <2>1, RoundIs DEF Bounded
  <2>4. Stage' = 2 + Cardinality(Unrun) /\ Stage = Weight - 3 - Len(plans)
    BY <2>1, <2>2 DEF Stage
  <2> DEFINE c == Cardinality(Unrun)
             l == Len(plans)
             w == call.n
  <2>5. c \in Nat /\ l \in Nat /\ w \in Nat /\ c <= l /\ l <= w
    BY <1>1, <1>3, <2>3
  <2>6. Stage' = 2 + c /\ Stage = Weight - 3 - l /\ Weight = 2 * w + 6
    BY <1>2, <2>4
  <2>7. Running'
    BY <2>1 DEF Running
  <2> HIDE DEF c, l, w
  <2>8. Stage = (2 * w + 6) - 3 - l
    BY <2>6
  <2>9. \A x, y, z \in Nat : x <= y /\ y <= z => 2 + x \in Int /\ 2 + x < (2 * z + 6) - 3 - y
    OBVIOUS
  <2> QED BY <2>5, <2>6, <2>7, <2>8, <2>9
<1>7. CASE RefitHere \/ RefitThere
  <2>1. PICK i \in Unrun : \E s \in Refits(plans[i]) : res' = [res EXCEPT ![i] = s]
    BY <1>7 DEF RefitHere, RefitThere
  <2>2. PICK s \in Refits(plans[i]) : res' = [res EXCEPT ![i] = s]
    BY <2>1
  <2>3. at \in {"here", "there"} /\ at' = at
    BY <1>7 DEF RefitHere, RefitThere
  <2>4. s # NotRun
    <3>1. plans[i] \in Seeds /\ call \in Calls
      BY <1>1, <2>1 DEF EngineInv, EngineTypeOK, Called, Unrun
    <3>2. Outcome[<<call.key, plans[i]>>] \in 0 .. 3
      BY <3>1, EngineAssumption DEF Calls
    <3> QED BY <2>2, <3>2, EngineAssumption DEF Refits
  <2>5. Unrun' = Unrun \ {i}
    <3>1. DOMAIN res' = DOMAIN res
      BY <2>2
    <3>2. \A l \in DOMAIN res : res'[l] = IF l = i THEN s ELSE res[l]
      BY <2>2
    <3> QED BY <2>4, <3>1, <3>2 DEF Unrun
  <2>6. Cardinality(Unrun') = Cardinality(Unrun) - 1
    BY <1>3, <2>1, <2>5, FS_RemoveElement
  <2>7. Stage' = 2 + Cardinality(Unrun') /\ Stage = 2 + Cardinality(Unrun)
    BY <2>3 DEF Stage
  <2> QED BY <1>1, <1>3, <2>3, <2>6, <2>7 DEF Running
<1>8. CASE AllRun
  <2>1. at \in {"here", "there"} /\ at' = "read" /\ j' = j
    BY <1>8 DEF AllRun, engine
  <2>2. j = 0
    BY <2>1 DEF Bounded
  <2>3. Stage' = 1 /\ Stage = 2 + Cardinality(Unrun)
    BY <2>1, <2>2 DEF Stage
  <2> QED BY <1>1, <1>3, <2>1, <2>3 DEF Running
<1>9. CASE NextRound
  <2>1. at = "read" /\ ~reading /\ at' = "round"
    BY <1>9 DEF NextRound
  <2>2. plans # <<>> /\ (j = 0 => Need > 0)
    BY <2>1 DEF Bounded
  <2>3. j # 0
    <3>1. ASSUME j = 0 PROVE reading
      <4>1. Len(plans) # 0
        BY <2>2 DEF EngineInv, EngineTypeOK
      <4>2. ~enough
        BY <1>1, <2>2, <3>1 DEF enough, Need, replace
      <4> QED BY <1>1, <3>1, <4>1, <4>2 DEF reading
    <3> QED BY <2>1, <3>1
  <2>4. Stage' = Weight' - 2 /\ Stage = Weight - 1
    BY <2>1, <2>3 DEF Stage
  <2> QED BY <1>1, <1>2, <2>1, <2>4 DEF Running
<1> QED BY <1>4, <1>5, <1>6, <1>7, <1>8, <1>9

(* Every step of a call leaves less of it, or ends it.                     *)
LEMMA LeftStep ==
  ASSUME EngineInv, Bounded, EngineNext, at # "idle"
  PROVE  at' = "idle" \/ CallLeft' < CallLeft
<1>1. CASE FinishCall \/ Abandon
  BY <1>1 DEF FinishCall, Abandon, Return
<1>2. CASE DrawRaises \/ WorkerDies \/ GiveUp
  <2>1. at \in {"draw", "there", "read"} /\ at' = "failed"
    BY <1>2 DEF DrawRaises, WorkerDies, GiveUp
  <2> QED BY <2>1, LeftIsNat DEF CallLeft, Running
<1>3. CASE ReadOne
  <2>1. /\ at = "read" /\ at' = "read" /\ j' = j + 1 /\ call' = call
        /\ status' = Append(status, res[j'])
    BY <1>3 DEF ReadOne
  <2>2. Len(status) \in Nat /\ j \in Nat /\ call.n \in Nat /\ Len(status') = Len(status) + 1
    BY <2>1, CallIs DEF EngineInv, EngineTypeOK
  <2>3. Weight' = Weight /\ Allowed' = Allowed /\ Allowed \in Nat
    BY <2>1, <2>2 DEF Weight, Allowed, MinDraws
  <2>4. Running /\ Running' /\ Stage' = Weight - 1
    BY <2>1, <2>2, <2>3 DEF Running, Stage
  <2>5. Weight \in Nat /\ Stage \in Nat \ {0}
    BY <2>4, LeftIs
  <2> DEFINE A == Allowed - Len(status)
  <2>6. A \in Int /\ Allowed' - Len(status') = A - 1
    BY <2>2, <2>3
  <2>7. CallLeft' = (A - 1) * Weight + (Weight - 1) /\ CallLeft = A * Weight + Stage
    BY <2>3, <2>4, <2>6 DEF CallLeft
  <2> HIDE DEF A
  <2>8. \A x, y \in Int : (x - 1) * y + (y - 1) = x * y - 1 /\ x * y \in Int
    OBVIOUS
  <2>9. CallLeft' = A * Weight - 1 /\ A * Weight \in Int
    BY <2>5, <2>6, <2>7, <2>8
  <2> QED BY <2>5, <2>7, <2>9
<1>4. CASE Round \/ Draw \/ MapHere \/ MapThere \/ RefitHere \/ RefitThere \/ AllRun \/ NextRound
  <2>1. UNCHANGED <<call, status>> /\ at \in {"round", "draw", "here", "there", "read"}
    BY <1>4 DEF Round, Draw, MapHere, MapThere, RefitHere, RefitThere, AllRun, NextRound, engine
  <2>2. Running
    BY <2>1 DEF Running
  <2>3. Running' /\ Stage' \in Int /\ Stage' < Stage
    BY <1>4, <2>1, <2>2, StageStep
  <2> DEFINE X == (Allowed - Len(status)) * Weight
  <2>4. X' = X
    BY <2>1 DEF Allowed, Weight
  <2>5. X \in Nat /\ Stage \in Nat
    BY <2>2, LeftIs
  <2>6. CallLeft = X + Stage /\ CallLeft' = X + Stage'
    BY <2>2, <2>3, <2>4 DEF CallLeft
  <2>7. X \in Int /\ Stage \in Int /\ Stage' \in Int /\ Stage' < Stage
    BY <2>3, <2>5
  <2>8. \A x, s, t \in Int : t < s => x + t < x + s
    OBVIOUS
  <2> HIDE DEF X
  <2>9. X + Stage' < X + Stage
    BY <2>7, <2>8
  <2> QED BY <2>6, <2>9
<1>5. CASE Elsewhere \/ \E kd \in Kinds, k \in Keys, m \in Wanted, cc \in Cores : Call(kd, k, m, cc)
  BY <1>5 DEF Elsewhere, Call
<1> QED BY <1>1, <1>2, <1>3, <1>4, <1>5 DEF EngineNext, Engine

-----------------------------------------------------------------------------
(* The variables of the engine keep their types: in particular, the refits *)
(* of a round are as many as its draws, and none is read past the last.    *)
THEOREM EngineTypeCorrect == EngineSpec => []EngineTypeOK
<1>1. EngineInv => EngineTypeOK
  BY DEF EngineInv
<1> QED BY EngineInitHolds, Inductive, <1>1, PTL DEF EngineSpec

(* 500 replicates and then 300 more are the 800 of a single call, for      *)
(* every generator, every pattern of failures and any number of calls,     *)
(* processes and draws made in between.                                    *)
THEOREM EntriesAreOneRun == EngineSpec => []EntryIsOneRun
<1>1. EngineInv => EntryIsOneRun
  BY DEF EngineInv
<1> QED BY EngineInitHolds, Inductive, <1>1, PTL DEF EngineSpec

(* The replicates are the kept draws, in the order of the draws and at no  *)
(* place of a failed one, and are as many as were asked for, in whatever   *)
(* order the processes finish them.                                        *)
THEOREM RowsAreKept == EngineSpec => []RowsAreTheKept
<1>1. EngineInv /\ Rowed => RowsAreTheKept
  BY RowedIsKept
<1> QED BY EngineInitHolds, RowedHolds, Inductive, RowedStep, <1>1, PTL DEF EngineSpec

(* Every step of a call uses up some of what is left of it, or ends it:    *)
(* however many replicates fail, workers die and rounds follow, a call has *)
(* at most (10 + 3n)(2n + 6) + 2n + 5 steps for n replicates               *)
(* (R/bootstrap_engine.R:140).                                             *)
THEOREM CallsRunOut ==
  EngineSpec =>
    /\ [](CallLeft \in Nat)
    /\ [][at # "idle" => at' = "idle" \/ CallLeft' < CallLeft]_engineVars
<1>1. EngineInit => Bounded
  BY DEF EngineInit, Bounded, Running
<1>2. EngineInv /\ EngineInv' /\ Bounded /\ [EngineNext]_engineVars => Bounded'
  BY BoundedStep
<1>3. EngineInv /\ Bounded => CallLeft \in Nat
  BY LeftIsNat
<1>4. EngineInv /\ Bounded /\ EngineNext => (at # "idle" => at' = "idle" \/ CallLeft' < CallLeft)
  BY LeftStep
<1> QED BY EngineInitHolds, Inductive, <1>1, <1>2, <1>3, <1>4, PTL DEF EngineSpec
=============================================================================
