--------------------------- MODULE InnerFit_proofs ---------------------------
(***************************************************************************)
(* Proofs about the inner fit.                                             *)
(*                                                                         *)
(* Alternate: for every model, objective, tolerance and budget, what the   *)
(* inner fit returns is one fit, and what it calls converged is an answer. *)
(* WorkingFit, its fit of the frozen break-points, which sets and clears   *)
(* st$working: for every set of objectives, tolerance, budget and stall    *)
(* limit.  EtaMemo, the memos they read the predictors through, keyed by   *)
(* that flag: none ever serves a stale reading where no model has both a   *)
(* term that recomputes its own block and a structural term.               *)
(***************************************************************************)
EXTENDS Alternate, WorkingFit, EtaMemo, TLAPS

Here == <<scale, par, pos, zeta>>

(* No frozen break-point is left to a pass that has no working fit for it: *)
(* the smooth block is there, and no joint system takes its place.         *)
FrozenIsFitted ==
  \A md \in Models : (md.frozen /\ ~md.hold) => md.smooth /\ md.structural # "joint"

(* The value is that of the point at every step but those of the finishing *)
(* joint step, not only at the end.                                        *)
Finishing == pc \in {"joining", "compare"}
ValueHere == (~model.raises /\ ~Finishing) => value = Value[Here]

(* What the flags of the frozen break-points remember of the working fits. *)
Worked ==
  /\ worked = "settled" => frozen_ok
  /\ frozen_ok => worked # "unsettled"

(* Once a pass is beyond its smooth block, a working fit has run in it.    *)
Fitted ==
  /\ pc # "pass" => pass > 0
  /\ (FrozenIsFitted /\ has_frozen /\ pass > 0 /\ worked = "none") =>
       pass = 1 /\ pc \in {"joint", "smooth"}

Alternates == (model.sparse # <<>> \/ (has_structural /\ ~joint)) /\ ~finishes

(* The verdict is still about the point where it stands.                   *)
Ended ==
  /\ converged => Finishing \/ pc \in {"finish", "done"}
  /\ (converged /\ Alternates) => Here \in Stationary
  /\ (FrozenIsFitted /\ converged /\ has_frozen) => worked = "settled"
  /\ (pc \in {"finish", "done"} /\ pass = 1 /\ MaxIt > 1 /\ has_refresh /\ ~terms_ok)
       => frozen_stalled \/ ~Close(before, value)

(* On the way of the finishing joint step the coefficients and the value   *)
(* are still those it began from, the parameters it began from are `zsave',*)
(* and what it returned belongs to the parameters it left.                 *)
Joining ==
  Finishing =>
    /\ finishes
    /\ entry = <<par, zsave, value, converged>>
    /\ ~model.raises => value = Value[<<scale, par, pos, zsave>>]
    /\ pc = "compare" => \A r \in rp : r.value = Value[<<scale, r.par, pos, zeta>>]

IInv == /\ TypeOK /\ ValueHere /\ Worked /\ Fitted /\ Ended
        /\ Joining /\ FinishIsAllOrNothing

-----------------------------------------------------------------------------
LEMMA ValueType ==
  ASSUME NEW s \in Scale, NEW p \in Par, NEW q \in Pos, NEW z \in Zeta
  PROVE  Value[<<s, p, q, z>>] \in Values
  BY AlternateAssumption DEF Points

LEMMA ModelIs ==
  ASSUME TypeOK
  PROVE  /\ model \in ModelType
         /\ model.smooth \in BOOLEAN /\ model.frozen \in BOOLEAN
         /\ model.jacobian \in BOOLEAN /\ model.hold \in BOOLEAN
         /\ model.raises \in BOOLEAN /\ Len(model.sparse) \in Nat
  BY AlternateAssumption DEF TypeOK, ModelType

LEMMA InitHolds == Init => IInv
<1> SUFFICES ASSUME Init PROVE IInv
  OBVIOUS
<1>1. TypeOK
  <2>1. Len(model.sparse) \in Nat
    BY AlternateAssumption DEF Init, ModelType
  <2>2. 0 \in 0 .. Len(model.sparse) /\ 0 \in 0 .. MaxIt
    BY <2>1, AlternateAssumption
  <2>3. value \in Values /\ entry \in Par \X Zeta \X Values \X BOOLEAN
    BY ValueType DEF Init
  <2> QED
    BY <2>2, <2>3 DEF Init, TypeOK
<1> QED
  BY <1>1 DEF Init, IInv, ValueHere, Finishing, Here, Worked, Fitted, Ended, Joining,
              FinishIsAllOrNothing

(* Nothing is asked of the finishing joint step until it begins.           *)
LEMMA NotFinishing ==
  ASSUME pc' \notin {"joining", "compare", "done"}
  PROVE  Joining' /\ FinishIsAllOrNothing'
  BY DEF Joining, Finishing, FinishIsAllOrNothing

(* A step of a pass that moves the point reads the objective there, and    *)
(* says nothing of convergence.                                            *)
LEMMA MoveHolds ==
  ASSUME IInv, model' = model, before' = before, pass' = pass,
         scale' = scale, par' \in Par, pos' \in Pos, zeta' \in Zeta, Reread,
         blk' \in 0 .. Len(model.sparse), pc \in Steps, pc' \in Steps \union {"verdict"},
         flags' \in BOOLEAN \X BOOLEAN \X BOOLEAN \X BOOLEAN,
         converged' = converged, worked' \in {"none", "settled", "unsettled"},
         UNCHANGED finish
  PROVE  /\ TypeOK' /\ ValueHere' /\ Ended' /\ ~converged'
         /\ Joining' /\ FinishIsAllOrNothing'
<1>1. TypeOK'
  BY ValueType DEF IInv, TypeOK, Reread, flags, Steps, finish
<1>2. ValueHere'
  BY DEF Reread, ValueHere, Here
<1>3. ~converged /\ pc' \notin {"finish", "joining", "compare", "done"}
  BY DEF IInv, Ended, Finishing, Steps
<1> QED
  BY <1>1, <1>2, <1>3, NotFinishing DEF Ended, Finishing

LEMMA StartPassHolds == IInv /\ StartPass => IInv'
<1> SUFFICES ASSUME IInv, StartPass PROVE IInv'
  OBVIOUS
<1>1. TypeOK'
  <2>1. pass' \in 0 .. MaxIt
    BY AlternateAssumption DEF IInv, TypeOK, StartPass
  <2>2. blk' \in 0 .. Len(model'.sparse)
    BY ModelIs DEF IInv, StartPass
  <2>3. scale' \in Scale /\ value' \in Values
    BY ValueType DEF IInv, TypeOK, StartPass, Rescale, Reread
  <2> QED
    BY <2>1, <2>2, <2>3 DEF IInv, TypeOK, StartPass, flags, Steps, finish
<1>2. ValueHere'
  BY DEF IInv, StartPass, Reread, ValueHere, Finishing, Here
<1>3. Worked' /\ Ended'
  BY DEF IInv, StartPass, Worked, Ended, Finishing, flags
<1>4. Fitted'
  <2>1. pass \in Nat /\ pass' = pass + 1 /\ pc' = "joint"
    BY AlternateAssumption DEF IInv, TypeOK, StartPass
  <2>2. has_frozen' = has_frozen /\ worked' = worked /\ pc = "pass"
    BY DEF StartPass, has_frozen
  <2> QED
    BY <2>1, <2>2 DEF IInv, Fitted
<1>5. Joining' /\ FinishIsAllOrNothing'
  BY NotFinishing DEF StartPass
<1> QED
  BY <1>1, <1>2, <1>3, <1>4, <1>5 DEF IInv

LEMMA BudgetHolds == IInv /\ BudgetSpent => IInv'
<1> SUFFICES ASSUME IInv, BudgetSpent PROVE IInv'
  OBVIOUS
<1>1. TypeOK' /\ ValueHere' /\ Worked'
  BY DEF IInv, TypeOK, ValueHere, Finishing, Here, Worked, BudgetSpent, flags, finish
<1>2. pass = MaxIt /\ MaxIt \in Nat \ {0} /\ pass' = pass /\ pc = "pass"
  BY AlternateAssumption DEF BudgetSpent
<1>3. Fitted'
  BY <1>2 DEF IInv, Fitted, BudgetSpent, has_frozen
<1>4. Ended'
  BY <1>2 DEF IInv, Ended, Finishing, BudgetSpent
<1>5. Joining' /\ FinishIsAllOrNothing'
  BY NotFinishing DEF BudgetSpent
<1> QED
  BY <1>1, <1>3, <1>4, <1>5 DEF IInv

(* A block is only skipped where the model does not have it: with frozen   *)
(* break-points to fit, the smooth block is not.                           *)
LEMMA SkipHolds == IInv /\ Skip => IInv'
<1> SUFFICES ASSUME IInv, Skip PROVE IInv'
  OBVIOUS
<1>1. pc \in Steps /\ pc' = Following[pc] /\ pc' \in Steps \union {"verdict"}
  BY DEF Skip, Steps, Following
<1>2. TypeOK' /\ ValueHere' /\ Worked'
  BY <1>1 DEF IInv, TypeOK, ValueHere, Finishing, Here, Worked, Skip, Steps, flags, finish
<1>3. Ended'
  BY <1>1 DEF IInv, Ended, Finishing, Skip, Steps
<1>4. FrozenIsFitted /\ has_frozen => pc # "smooth"
  BY DEF IInv, TypeOK, Skip, Applies, has_frozen, joint, FrozenIsFitted
<1>5. Fitted'
  BY <1>1, <1>4 DEF IInv, Fitted, Skip, has_frozen, Steps, Following
<1>6. Joining' /\ FinishIsAllOrNothing'
  BY <1>1, NotFinishing DEF Steps
<1> QED
  BY <1>2, <1>3, <1>5, <1>6 DEF IInv

LEMMA JointHolds == IInv /\ Joint => IInv'
<1> SUFFICES ASSUME IInv, Joint PROVE IInv'
  OBVIOUS
<1>1. TypeOK' /\ ValueHere' /\ Ended' /\ Joining' /\ FinishIsAllOrNothing'
  BY MoveHolds DEF Joint, IInv, TypeOK, Steps, Following, flags
<1>2. Worked'
  BY DEF IInv, Worked, Joint
<1>3. Fitted'
  BY DEF IInv, Fitted, Joint, has_frozen, Following
<1> QED
  BY <1>1, <1>2, <1>3 DEF IInv

LEMMA SmoothHolds == IInv /\ Smooth => IInv'
<1> SUFFICES ASSUME IInv, Smooth PROVE IInv'
  OBVIOUS
<1>1. TypeOK' /\ ValueHere' /\ Ended' /\ Joining' /\ FinishIsAllOrNothing'
  BY MoveHolds DEF Smooth, IInv, TypeOK, Steps, Following, flags
<1>2. Worked'
  BY DEF IInv, Worked, Smooth
<1>3. Fitted'
  BY DEF IInv, Fitted, Smooth, has_frozen, Following
<1> QED
  BY <1>1, <1>2, <1>3 DEF IInv

LEMMA WorkingHolds == IInv /\ Working => IInv'
<1> SUFFICES ASSUME IInv, Working PROVE IInv'
  OBVIOUS
<1>1. frozen_ok' \in BOOLEAN /\ worked' \in {"settled", "unsettled"}
  BY DEF Working
<1>2. TypeOK' /\ ValueHere' /\ Ended' /\ Joining' /\ FinishIsAllOrNothing'
  BY <1>1, MoveHolds DEF Working, IInv, TypeOK, Steps, Following, flags
<1>3. Worked' /\ Fitted'
  BY DEF IInv, Worked, Fitted, Working, Following
<1> QED
  BY <1>2, <1>3 DEF IInv

LEMMA StructuralHolds == IInv /\ Structural => IInv'
<1> SUFFICES ASSUME IInv, Structural PROVE IInv'
  OBVIOUS
<1>1. TypeOK' /\ ValueHere' /\ Ended' /\ Joining' /\ FinishIsAllOrNothing'
  BY MoveHolds DEF Structural, IInv, TypeOK, Steps, Following, flags
<1>2. Worked' /\ Fitted'
  BY DEF IInv, Worked, Fitted, Structural, has_frozen, Following, flags
<1> QED
  BY <1>1, <1>2 DEF IInv

LEMMA SparseHolds == IInv /\ Sparse => IInv'
<1> SUFFICES ASSUME IInv, Sparse PROVE IInv'
  OBVIOUS
<1>1. blk' \in 0 .. Len(model.sparse)
  BY ModelIs DEF IInv, TypeOK, Sparse, Applies
<1>2. par' \in Par /\ zeta' \in Zeta
  BY DEF IInv, TypeOK, Sparse
<1>3. TypeOK' /\ ValueHere' /\ Ended' /\ Joining' /\ FinishIsAllOrNothing'
  BY <1>1, <1>2, MoveHolds DEF Sparse, IInv, TypeOK, Steps, flags
<1>4. Worked' /\ Fitted'
  BY DEF IInv, Worked, Fitted, Sparse, has_frozen, flags
<1> QED
  BY <1>3, <1>4 DEF IInv

(* Where an optimizer raises, the value is no longer that of the point.    *)
LEMMA SparseFailsHolds == IInv /\ SparseFails => IInv'
<1> SUFFICES ASSUME IInv, SparseFails PROVE IInv'
  OBVIOUS
<1>1. blk' \in 0 .. Len(model.sparse)
  BY ModelIs DEF IInv, TypeOK, SparseFails, Applies
<1>2. TypeOK' /\ ValueHere' /\ Worked' /\ Fitted'
  BY <1>1 DEF IInv, TypeOK, ValueHere, Worked, Fitted, SparseFails, has_frozen, flags,
     finish
<1>3. Ended' /\ Joining' /\ FinishIsAllOrNothing'
  BY NotFinishing DEF IInv, Ended, Finishing, SparseFails
<1> QED
  BY <1>2, <1>3 DEF IInv

LEMMA CommitHolds == IInv /\ Commit => IInv'
<1> SUFFICES ASSUME IInv, Commit PROVE IInv'
  OBVIOUS
<1>1. par' \in Par /\ pos' \in Pos /\ terms_ok' \in BOOLEAN
  BY DEF IInv, TypeOK, Commit
<1>2. TypeOK' /\ ValueHere' /\ Ended' /\ Joining' /\ FinishIsAllOrNothing'
  BY <1>1, MoveHolds DEF Commit, IInv, TypeOK, Steps, Following, flags
<1>3. Worked' /\ Fitted'
  BY DEF IInv, Worked, Fitted, Commit, has_frozen, Following
<1> QED
  BY <1>2, <1>3 DEF IInv

-----------------------------------------------------------------------------
(* The exits of a pass: where it says converged, alone the block has       *)
(* nothing beside it, and otherwise the verdict was read at the point.     *)
LEMMA EndPassHolds == IInv /\ EndPass => IInv'
<1> SUFFICES ASSUME IInv, EndPass PROVE IInv'
  OBVIOUS
<1> USE DEF EndPass
<1>1. /\ UNCHANGED <<model, pass, blk, scale, par, pos, zeta, value, before,
                     smooth_ok, terms_ok, frozen_ok, frozen_stalled, worked,
                     zsave, rp, entry>>
      /\ pc = "verdict" /\ ~converged
  BY DEF flags, finish, IInv, Ended, Finishing
<1>2. /\ pc' \in {"finish", "pass", "raised"} /\ converged' \in BOOLEAN
      /\ pc' # "finish" => converged' = converged
  BY DEF IInv, TypeOK, Leave, GoOn, lone, Verdict, has_refresh, has_structural
<1>3. TypeOK' /\ ValueHere' /\ Worked'
  BY <1>1, <1>2 DEF IInv, TypeOK, ValueHere, Finishing, Here, Worked
<1>4. Fitted'
  BY <1>1, <1>2 DEF IInv, Fitted, has_frozen
<1>5. /\ joint' = joint /\ finishes' = finishes /\ has_frozen' = has_frozen
      /\ has_refresh' = has_refresh /\ has_structural' = has_structural
      /\ Close(before, value)' = Close(before, value)
  BY <1>1 DEF joint, finishes, has_frozen, has_refresh, has_structural,
              alternate_route, Close
<1>6. converged' => lone \/ Verdict
  BY <1>1, <1>2 DEF Leave, GoOn
<1>7. (converged' /\ Alternates') => (Here \in Stationary)'
  BY <1>1, <1>5, <1>6 DEF Alternates, lone, Verdict, Here
<1>8. (FrozenIsFitted /\ converged' /\ has_frozen') => worked' = "settled"
  <2> SUFFICES ASSUME FrozenIsFitted, converged', has_frozen PROVE worked = "settled"
    BY <1>1, <1>5
  <2>1. has_refresh /\ frozen_ok
    BY <1>6 DEF lone, Verdict, has_refresh, has_frozen
  <2>2. worked \notin {"none", "unsettled"}
    BY <1>1, <2>1 DEF IInv, Worked, Fitted
  <2> QED
    BY <2>2 DEF IInv, TypeOK
<1>9. (/\ pc' \in {"finish", "done"} /\ pass' = 1 /\ MaxIt > 1
       /\ has_refresh' /\ ~terms_ok')
        => frozen_stalled' \/ ~Close(before, value)'
  BY <1>1, <1>5 DEF lone, MissingMeasure, Leave, GoOn
<1>10. Ended'
  BY <1>1, <1>2, <1>7, <1>8, <1>9 DEF Ended
<1>11. Joining' /\ FinishIsAllOrNothing'
  BY <1>2, NotFinishing
<1> QED
  BY <1>3, <1>4, <1>10, <1>11 DEF IInv

-----------------------------------------------------------------------------
(* What the steps of the finishing joint step do not touch, and that they  *)
(* only ever follow the alternate route, which has no term that recomputes *)
(* its block.                                                              *)
LEMMA FinishingHolds ==
  ASSUME IInv, finishes, pc \in {"finish", "joining", "compare"},
         pc' \in {"joining", "compare", "done"},
         UNCHANGED <<model, pass, blk, scale, pos, before, flags, worked>>
  PROVE  finishes' /\ Worked' /\ Fitted' /\ Ended'
<1>1. finishes' /\ ~has_refresh /\ ~has_refresh' /\ ~has_frozen /\ ~has_frozen'
  BY DEF finishes, has_refresh, has_frozen, alternate_route
<1>2. Worked' /\ Fitted'
  BY <1>1 DEF IInv, Worked, Fitted, flags
<1>3. Ended'
  BY <1>1 DEF IInv, Ended, Finishing, Alternates
<1> QED
  BY <1>1, <1>2, <1>3

LEMMA FinishStartsHolds == IInv /\ FinishStarts => IInv'
<1> SUFFICES ASSUME IInv, FinishStarts PROVE IInv'
  OBVIOUS
<1> USE DEF FinishStarts
<1>1. finishes' /\ Worked' /\ Fitted' /\ Ended'
  BY FinishingHolds
<1>2. TypeOK'
  BY DEF IInv, TypeOK, flags
<1>3. ValueHere' /\ FinishIsAllOrNothing'
  BY DEF ValueHere, Finishing, FinishIsAllOrNothing
<1>4. ~model.raises => value = Value[Here]
  BY DEF IInv, ValueHere, Finishing
<1>5. Joining'
  BY <1>1, <1>4 DEF Joining, Here
<1> QED
  BY <1>1, <1>2, <1>3, <1>5 DEF IInv

LEMMA FinishReturnsHolds == IInv /\ FinishReturns => IInv'
<1> SUFFICES ASSUME IInv, FinishReturns PROVE IInv'
  OBVIOUS
<1>1. PICK p \in Par, ok \in BOOLEAN :
        rp' = {[par |-> p, value |-> Value[<<scale, p, pos, zeta'>>], converged |-> ok]}
  BY DEF FinishReturns
<1>2. /\ UNCHANGED <<model, pass, blk, scale, par, pos, value, before, smooth_ok,
                     terms_ok, frozen_ok, frozen_stalled, converged, worked,
                     zsave, entry>>
      /\ pc = "joining" /\ pc' = "compare" /\ zeta' \in Zeta
  BY DEF FinishReturns, flags
<1>3. finishes
  BY <1>2 DEF IInv, Joining, Finishing
<1>4. finishes' /\ Worked' /\ Fitted' /\ Ended'
  BY <1>2, <1>3, FinishingHolds DEF flags
<1>5. Value[<<scale, p, pos, zeta'>>] \in Values
  BY <1>2, ValueType DEF IInv, TypeOK
<1>6. rp' \subseteq [par: Par, value: Values, converged: BOOLEAN]
  BY <1>1, <1>5
<1>7. TypeOK'
  BY <1>2, <1>6 DEF IInv, TypeOK
<1>8. ValueHere' /\ FinishIsAllOrNothing'
  BY <1>2 DEF ValueHere, Finishing, FinishIsAllOrNothing
<1>9. \A r \in rp' : r.value = Value[<<scale, r.par, pos, zeta'>>]
  BY <1>1
<1>10. Joining'
  BY <1>2, <1>4, <1>9 DEF IInv, Joining, Finishing
<1> QED
  BY <1>4, <1>7, <1>8, <1>10 DEF IInv

LEMMA FinishRaisesHolds == IInv /\ FinishRaises => IInv'
<1> SUFFICES ASSUME IInv, FinishRaises PROVE IInv'
  OBVIOUS
<1>1. /\ UNCHANGED <<model, pass, blk, scale, par, pos, value, before, smooth_ok,
                     terms_ok, frozen_ok, frozen_stalled, converged, worked,
                     zsave, entry>>
      /\ pc = "joining" /\ pc' = "compare" /\ zeta' \in Zeta /\ rp' = {}
  BY DEF FinishRaises, flags
<1>2. finishes
  BY <1>1 DEF IInv, Joining, Finishing
<1>3. finishes' /\ Worked' /\ Fitted' /\ Ended'
  BY <1>1, <1>2, FinishingHolds DEF flags
<1>4. TypeOK'
  BY <1>1 DEF IInv, TypeOK
<1>5. ValueHere' /\ FinishIsAllOrNothing'
  BY <1>1 DEF ValueHere, Finishing, FinishIsAllOrNothing
<1>6. Joining'
  BY <1>1, <1>3 DEF IInv, Joining, Finishing
<1> QED
  BY <1>3, <1>4, <1>5, <1>6 DEF IInv

LEMMA FinishKeptHolds == IInv /\ FinishKept => IInv'
<1> SUFFICES ASSUME IInv, FinishKept PROVE IInv'
  OBVIOUS
<1>1. PICK r \in rp : /\ NotWorse(r)
                      /\ par' = r.par /\ value' = r.value /\ converged' = r.converged
  BY DEF FinishKept
<1>2. /\ UNCHANGED <<model, pass, blk, scale, pos, zeta, before, smooth_ok,
                     terms_ok, frozen_ok, frozen_stalled, worked, zsave, rp, entry>>
      /\ pc = "compare" /\ pc' = "done"
  BY DEF FinishKept, flags, finish
<1>3. /\ finishes /\ entry = <<par, zsave, value, converged>>
      /\ r.value = Value[<<scale, r.par, pos, zeta>>]
  BY <1>2 DEF IInv, Joining, Finishing
<1>4. finishes' /\ Worked' /\ Fitted' /\ Ended'
  BY <1>2, <1>3, FinishingHolds DEF flags
<1>5. r \in [par: Par, value: Values, converged: BOOLEAN]
  BY DEF IInv, TypeOK
<1>6. TypeOK'
  BY <1>1, <1>2, <1>5 DEF IInv, TypeOK
<1>7. value' = Value[<<scale, par', pos, zeta>>] /\ value' <= entry[3]
  BY <1>1, <1>3 DEF NotWorse
<1>8. ValueHere' /\ FinishIsAllOrNothing' /\ Joining'
  BY <1>2, <1>7 DEF ValueHere, Finishing, Here, FinishIsAllOrNothing, Joining
<1> QED
  BY <1>4, <1>6, <1>8 DEF IInv

LEMMA FinishTurnedDownHolds == IInv /\ FinishTurnedDown => IInv'
<1> SUFFICES ASSUME IInv, FinishTurnedDown PROVE IInv'
  OBVIOUS
<1>1. /\ UNCHANGED <<model, pass, blk, scale, par, pos, value, before, smooth_ok,
                     terms_ok, frozen_ok, frozen_stalled, converged, worked,
                     zsave, rp, entry>>
      /\ pc = "compare" /\ pc' = "done" /\ zeta' = zsave
  BY DEF FinishTurnedDown, flags, finish
<1>2. /\ finishes /\ entry = <<par, zsave, value, converged>>
      /\ ~model.raises => value = Value[<<scale, par, pos, zsave>>]
  BY <1>1 DEF IInv, Joining, Finishing
<1>3. finishes' /\ Worked' /\ Fitted' /\ Ended'
  BY <1>1, <1>2, FinishingHolds DEF flags
<1>4. TypeOK'
  BY <1>1 DEF IInv, TypeOK
<1>5. ValueHere' /\ FinishIsAllOrNothing' /\ Joining'
  BY <1>1, <1>2 DEF ValueHere, Finishing, Here, FinishIsAllOrNothing, Joining
<1> QED
  BY <1>3, <1>4, <1>5 DEF IInv

LEMMA ReturnHolds == IInv /\ Return => IInv'
<1> SUFFICES ASSUME IInv, Return PROVE IInv'
  OBVIOUS
<1>1. TypeOK' /\ ValueHere' /\ Worked' /\ Fitted'
  BY DEF IInv, TypeOK, ValueHere, Finishing, Here, Worked, Fitted, Return, flags, finish,
         has_frozen
<1>2. Ended'
  BY DEF IInv, Ended, Finishing, Alternates, Return, flags, Here, joint, finishes,
         has_frozen, has_refresh, has_structural, alternate_route, Close
<1>3. Joining' /\ FinishIsAllOrNothing'
  BY DEF Return, Joining, Finishing, FinishIsAllOrNothing, finishes, alternate_route,
         has_refresh
<1> QED
  BY <1>1, <1>2, <1>3 DEF IInv

LEMMA StutterHolds == IInv /\ UNCHANGED vars => IInv'
  BY DEF IInv, TypeOK, ValueHere, Finishing, Here, Worked, Fitted, Ended, Alternates,
         Joining, FinishIsAllOrNothing, vars, flags, finish, joint, finishes, has_frozen,
         has_refresh, has_structural, alternate_route, Close

LEMMA StepHolds == IInv /\ [Next]_vars => IInv'
  BY StartPassHolds, BudgetHolds, SkipHolds, JointHolds, SmoothHolds,
     WorkingHolds, StructuralHolds, SparseHolds, SparseFailsHolds, CommitHolds,
     EndPassHolds, FinishStartsHolds, FinishReturnsHolds, FinishRaisesHolds,
     FinishKeptHolds, FinishTurnedDownHolds, ReturnHolds, StutterHolds DEF Next

LEMMA Invariance == Spec => []IInv
  BY InitHolds, StepHolds, PTL DEF Spec

-----------------------------------------------------------------------------
(* Every variable keeps its type, the passes their budget and the kinked   *)
(* blocks their number.                                                    *)
THEOREM TypeCorrect == Spec => []TypeOK
<1>1. IInv => TypeOK
  BY DEF IInv
<1> QED
  BY <1>1, Invariance, PTL

(* The value an inner fit returns is the objective of the coefficients,    *)
(* terms and structural parameters it leaves, whichever block moved them.  *)
THEOREM ValueIsThePoints == Spec => []ValueIsOfThePoint
<1>1. IInv => ValueIsOfThePoint
  BY DEF IInv, ValueHere, Finishing, Here, ValueIsOfThePoint
<1> QED
  BY <1>1, Invariance, PTL

(* Converged is said of a stationary point with settled break-points only, *)
(* where every model with frozen break-points has working fits for them.   *)
THEOREM ConvergedIsEarned == ASSUME FrozenIsFitted PROVE Spec => []ConvergedIsAnAnswer
<1>1. IInv => ConvergedIsAnAnswer
  BY DEF IInv, Ended, Alternates, Here, ConvergedIsAnAnswer
<1> QED
  BY <1>1, Invariance, PTL

(* However many points the finishing joint step tried, and whether it      *)
(* returned or raised, the fit ends on all of it or on the fit it began    *)
(* from, for every model and objective.                                    *)
THEOREM FinishIsWhole == Spec => []FinishIsAllOrNothing
<1>1. IInv => FinishIsAllOrNothing
  BY DEF IInv
<1> QED
  BY <1>1, Invariance, PTL

-----------------------------------------------------------------------------
(* The working fits committed so far, one verdict each.                    *)
m == Len(floored)

Running == at \in {"plain", "enter", "solve", "commit"}

Histories == seen \in Seq(Objectives) /\ floored \in Seq(BOOLEAN)

(* Where the loop is between two commits.                                  *)
Place ==
  /\ at \in {"plain", "enter"} => Len(seen) = it /\ m = it /\ it < Budget
  /\ at = "solve" => Len(seen) = m /\ it = m + 1
  /\ at = "commit" => Len(seen) = it /\ it = m + 1 /\ w = seen[it]

(* The counters never exceed the commits they count, and the loop only     *)
(* goes on below the limits of two of them.                                *)
Counters ==
  Running => /\ verdict = "none"
             /\ stall <= m /\ cyc <= m /\ floor_run <= m
             /\ cyc < 2 /\ floor_run < StallLimit

(* w_prev and w_prev2 are the last two objectives committed.               *)
Memory ==
  Running => /\ w_prev = IF m >= 1 THEN seen[m] ELSE NotFinite
             /\ w_prev2 = IF m >= 2 THEN seen[m - 1] ELSE NotFinite

(* cyc is positive exactly where the last objective repeats the one two    *)
(* before it, floor_run counts the last commits without step control.      *)
Cycles == Running => (cyc >= 1 <=> m >= 3 /\ Near(seen[m], seen[m - 2]))
Floors == Running => \A i \in m - floor_run + 1 .. m : floored[i]

(* Two repetitions in a row end the loop.                                  *)
Broken ==
  Running /\ m >= 4 =>
    ~(Near(seen[m], seen[m - 2]) /\ Near(seen[m - 1], seen[m - 3]))

(* st$working is set inside a working fit only, and where one raised.      *)
Flag == at \notin {"solve", "raised"} => working = FALSE

WorkingInv == /\ WorkingTypeOK /\ Histories /\ Place /\ Counters /\ Memory /\ Cycles
              /\ Floors /\ Broken /\ Flag
              /\ NeverMidTravel /\ StalledMeansUnbroken /\ ValueIsTheModels

-----------------------------------------------------------------------------
LEMMA WorkingInitHolds == WorkingInit => WorkingInv
<1> SUFFICES ASSUME WorkingInit PROVE WorkingInv
  OBVIOUS
<1> USE WorkingAssumption DEF WorkingAssumption
<1>1. WorkingTypeOK
  <2>1. working \in BOOLEAN
    BY DEF WorkingInit
  <2>2. {w, w_prev, w_prev2} \subseteq Objectives
    BY DEF WorkingInit, Objectives
  <2> QED
    BY <2>1, <2>2 DEF WorkingInit, WorkingTypeOK
<1>2. Len(seen) = 0 /\ Len(floored) = 0 /\ Histories
  BY DEF WorkingInit, Histories
<1>3. Place /\ Counters /\ Memory /\ Cycles /\ Floors /\ Broken /\ Flag
  BY <1>2 DEF WorkingInit, Place, Counters, Memory, Cycles, Floors, Broken, Flag, m
<1>4. NeverMidTravel /\ StalledMeansUnbroken /\ ValueIsTheModels
  BY DEF WorkingInit, NeverMidTravel, StalledMeansUnbroken, ValueIsTheModels
<1> QED
  BY <1>1, <1>2, <1>3, <1>4 DEF WorkingInv

(* An objective solved for is appended to those before it.                 *)
LEMMA SolveHolds == WorkingInv /\ Solve => WorkingInv'
<1> SUFFICES ASSUME WorkingInv, Solve PROVE WorkingInv'
  OBVIOUS
<1> USE WorkingAssumption DEF WorkingAssumption
<1> USE DEF WorkingInv
<1>1. WorkingTypeOK'
  BY DEF Solve, WorkingTypeOK
<1>2. /\ Histories' /\ m' = m /\ m \in Nat
      /\ Len(seen') = Len(seen) + 1 /\ Len(seen) = m
      /\ seen'[m + 1] = w'
      /\ \A i \in 1 .. m : seen'[i] = seen[i]
  BY DEF Solve, Histories, Place, m
<1>3. Place'
  BY <1>2 DEF Solve, Place
<1>4. Counters' /\ Floors' /\ Flag'
  BY <1>2 DEF Solve, Counters, Floors, Flag, Running, m
<1>5. Memory' /\ Cycles' /\ Broken'
  BY <1>2 DEF Solve, Memory, Cycles, Broken, Running, Near
<1>6. NeverMidTravel' /\ StalledMeansUnbroken' /\ ValueIsTheModels'
  BY DEF Solve, Counters, Running, NeverMidTravel, StalledMeansUnbroken,
         ValueIsTheModels
<1> QED
  BY <1>1, <1>2, <1>3, <1>4, <1>5, <1>6

(* A commit reads the three objectives in hand and counts.                 *)
LEMMA CommitFitHolds == WorkingInv /\ CommitFit => WorkingInv'
<1> SUFFICES ASSUME WorkingInv, CommitFit PROVE WorkingInv'
  OBVIOUS
<1> USE WorkingAssumption DEF WorkingAssumption
<1>1. PICK settled \in BOOLEAN : \E flo \in BOOLEAN :
        /\ Counts(flo)
        /\ floored' = Append(floored, flo)
        /\ \/ Settles(settled) /\ LeaveLoop("settled")
           \/ ~Settles(settled) /\ floor_run' >= StallLimit /\ LeaveLoop("stalled")
           \/ ~Settles(settled) /\ floor_run' < StallLimit /\ Again
  BY DEF CommitFit
<1>2. PICK flo \in BOOLEAN :
        /\ Counts(flo)
        /\ floored' = Append(floored, flo)
        /\ \/ Settles(settled) /\ LeaveLoop("settled")
           \/ ~Settles(settled) /\ floor_run' >= StallLimit /\ LeaveLoop("stalled")
           \/ ~Settles(settled) /\ floor_run' < StallLimit /\ Again
  BY <1>1
<1>3. /\ at = "commit" /\ UNCHANGED <<it, w, working, reading, seen>>
  BY DEF CommitFit
<1>4. /\ Histories' /\ m \in Nat /\ m' = m + 1 /\ Len(seen) = m + 1
      /\ it = m + 1 /\ it \in Nat
      /\ floored'[m + 1] = flo
      /\ \A i \in 1 .. m : floored'[i] = floored[i]
  BY <1>2, <1>3 DEF WorkingInv, WorkingTypeOK, Histories, Place, m
<1>5. /\ w = seen[m + 1]
      /\ w_prev = IF m >= 1 THEN seen[m] ELSE NotFinite
      /\ w_prev2 = IF m >= 2 THEN seen[m - 1] ELSE NotFinite
  BY <1>3, <1>4 DEF WorkingInv, Place, Memory, Running
<1>6. /\ Near(w, w_prev) => m >= 1 /\ Near(seen[m + 1], seen[m])
      /\ m >= 2 /\ Near(seen[m + 1], seen[m - 1]) <=> Near(w, w_prev2)
  BY <1>4, <1>5 DEF Near
<1>7. /\ stall \in 0 .. m /\ cyc \in 0 .. 1 /\ cyc <= m
      /\ floor_run \in 0 .. m /\ floor_run < StallLimit
      /\ verdict = "none"
      /\ cyc >= 1 => m >= 3 /\ Near(seen[m], seen[m - 2])
      /\ m >= 3 /\ Near(seen[m], seen[m - 2]) => cyc >= 1
  BY <1>3, <1>4 DEF WorkingInv, WorkingTypeOK, Counters, Cycles, Running
<1>8. /\ stall' \in 0 .. m + 1 /\ cyc' \in 0 .. 2 /\ cyc' <= m + 1
      /\ floor_run' \in 0 .. m + 1 /\ floor_run' <= StallLimit
  BY <1>2, <1>4, <1>7 DEF Counts
<1>9. /\ cyc' >= 1 <=> m >= 2 /\ Near(seen[m + 1], seen[m - 1])
      /\ cyc' >= 2 => m >= 3 /\ Near(seen[m], seen[m - 2])
      /\ m >= 3 /\ Near(seen[m], seen[m - 2]) /\ cyc' >= 1 => cyc' >= 2
  BY <1>2, <1>4, <1>6, <1>7 DEF Counts
<1>10. \A i \in m + 1 - floor_run' + 1 .. m + 1 : floored'[i]
  <2>1. \A i \in m - floor_run + 1 .. m : floored[i]
    BY <1>3 DEF WorkingInv, Floors, Running
  <2> SUFFICES ASSUME NEW i \in m + 1 - floor_run' + 1 .. m + 1
               PROVE  floored'[i]
    OBVIOUS
  <2>2. flo => floor_run' = floor_run + 1
    BY <1>2 DEF Counts
  <2>3. ~flo => floor_run' = 0
    BY <1>2 DEF Counts
  <2>4. flo
    BY <2>3, <1>4
  <2>5. CASE i = m + 1
    BY <2>4, <2>5, <1>4, Zenon
  <2>6. CASE i # m + 1
    <3>1. i \in m - floor_run + 1 .. m /\ i \in 1 .. m
      BY <2>2, <2>4, <2>6, <1>4, <1>7
    <3> QED
      BY <3>1, <2>1, <1>4, Zenon
  <2> QED
    BY <2>5, <2>6
<1>11. m + 1 <= Budget
  BY <1>4 DEF WorkingInv, WorkingTypeOK
<1>12. Floors'
  <2>1. m' - floor_run' + 1 = m + 1 - floor_run' + 1 /\ m' = m + 1
    BY <1>4, <1>8
  <2> QED
    BY <2>1, <1>10, Zenon DEF Floors
<1>13. Cycles'
  BY <1>3, <1>4, <1>9 DEF Cycles, Running, Near
<1>14. ValueIsTheModels' /\ Flag' /\ reading' = reading /\ at' \in {"others", "enter"}
  BY <1>2, <1>3 DEF WorkingInv, ValueIsTheModels, Flag, LeaveLoop, Again
<1>15. CASE Settles(settled) /\ LeaveLoop("settled")
  <2>1. at' = "others" /\ verdict' = "settled" /\ UNCHANGED <<w_prev, w_prev2>>
    BY <1>15 DEF LeaveLoop
  <2>2. WorkingTypeOK'
    BY <2>1, <1>3, <1>4, <1>7, <1>8, <1>11 DEF WorkingInv, WorkingTypeOK
  <2>3. Place' /\ Counters' /\ Memory' /\ Broken' /\ StalledMeansUnbroken'
    BY <2>1 DEF Place, Counters, Memory, Broken, Running, StalledMeansUnbroken
  <2>4. stall' >= 1 \/ cyc' >= 2
    BY <1>15, <1>8 DEF Settles
  <2>5. stall' >= 1 => m >= 1 /\ Near(seen[m + 1], seen[m])
    BY <1>2, <1>6 DEF Counts
  <2>6. cyc' >= 2 => /\ m >= 3 /\ Near(seen[m + 1], seen[m - 1])
                     /\ Near(seen[m], seen[m - 2])
    BY <1>8, <1>9
  <2>7. NeverMidTravel'
    BY <2>4, <2>5, <2>6, <1>3, <1>4 DEF NeverMidTravel, Back, Near
  <2> QED
    BY <2>2, <2>3, <2>7, <1>4, <1>12, <1>13, <1>14 DEF WorkingInv
<1>16. CASE ~Settles(settled) /\ floor_run' >= StallLimit /\ LeaveLoop("stalled")
  <2>1. at' = "others" /\ verdict' = "stalled" /\ UNCHANGED <<w_prev, w_prev2>>
    BY <1>16 DEF LeaveLoop
  <2>2. WorkingTypeOK'
    BY <2>1, <1>3, <1>4, <1>7, <1>8, <1>11 DEF WorkingInv, WorkingTypeOK
  <2>3. Place' /\ Counters' /\ Memory' /\ Broken' /\ NeverMidTravel'
    BY <2>1 DEF Place, Counters, Memory, Broken, Running, NeverMidTravel
  <2>4. floor_run' = StallLimit /\ m' = m + 1 /\ StallLimit <= m + 1
    BY <1>4, <1>8, <1>16
  <2>5. StalledMeansUnbroken'
    BY <2>4, <1>4, <1>10 DEF StalledMeansUnbroken, m
  <2> QED
    BY <2>2, <2>3, <2>5, <1>4, <1>12, <1>13, <1>14 DEF WorkingInv
<1>17. CASE ~Settles(settled) /\ floor_run' < StallLimit /\ Again
  <2>1. w_prev2' = w_prev /\ w_prev' = w /\ verdict' \in {"none", "budget"}
    BY <1>7, <1>17 DEF Again
  <2>2. at' = "enter" => it < Budget /\ verdict' = "none"
    BY <1>7, <1>17 DEF Again
  <2>3. WorkingTypeOK'
    BY <2>1, <1>3, <1>4, <1>7, <1>8, <1>11, <1>14 DEF WorkingInv, WorkingTypeOK
  <2>4. Place'
    BY <2>2, <1>3, <1>4, <1>14 DEF Place
  <2>5. cyc' < 2
    BY <1>17, <1>8 DEF Settles
  <2>6. Counters'
    BY <2>2, <2>5, <1>4, <1>8, <1>14, <1>17 DEF Counters, Running
  <2>7. Memory'
    BY <2>1, <1>3, <1>4, <1>5 DEF Memory
  <2>8. Broken'
    <3> SUFFICES ASSUME m' >= 4, Near(seen[m + 1], seen[m - 1]),
                        Near(seen[m], seen[m - 2])
                 PROVE  FALSE
      BY <1>3, <1>4 DEF Broken, Near
    <3> QED
      BY <2>5, <1>4, <1>8, <1>9
  <2>9. NeverMidTravel' /\ StalledMeansUnbroken'
    BY <2>1 DEF NeverMidTravel, StalledMeansUnbroken
  <2> QED
    BY <2>3, <2>4, <2>6, <2>7, <2>8, <2>9, <1>4, <1>12, <1>13, <1>14 DEF WorkingInv
<1> QED
  BY <1>2, <1>15, <1>16, <1>17

LEMMA WorkingStepHolds == WorkingInv /\ [WorkingNext]_workingVars => WorkingInv'
<1> SUFFICES ASSUME WorkingInv, [WorkingNext]_workingVars PROVE WorkingInv'
  OBVIOUS
<1> USE WorkingAssumption DEF WorkingAssumption, WorkingInv
<1>1. CASE PlainFit
  BY <1>1 DEF PlainFit, loop, WorkingTypeOK, Histories, Place, Counters, Memory, Cycles,
     Floors, Broken, Flag, Running, m, NeverMidTravel, StalledMeansUnbroken,
     ValueIsTheModels, Back
<1>2. CASE Enter
  BY <1>2 DEF Enter, WorkingTypeOK, Histories, Place, Counters, Memory, Cycles,
     Floors, Broken, Flag, Running, m, NeverMidTravel, StalledMeansUnbroken,
     ValueIsTheModels, Back
<1>3. CASE Solve
  BY <1>3, SolveHolds
<1>4. CASE SolveRaises
  BY <1>4 DEF SolveRaises, loop, WorkingTypeOK, Histories, Place, Counters, Memory, Cycles,
     Floors, Broken, Flag, Running, m, NeverMidTravel, StalledMeansUnbroken,
     ValueIsTheModels, Back
<1>5. CASE CommitFit
  BY <1>5, CommitFitHolds
<1>6. CASE ReturnFit
  BY <1>6 DEF ReturnFit, loop, WorkingTypeOK, Histories, Place, Counters, Memory, Cycles,
     Floors, Broken, Flag, Running, m, NeverMidTravel, StalledMeansUnbroken,
     ValueIsTheModels, Back
<1>7. CASE OthersRaise
  BY <1>7 DEF OthersRaise, loop, WorkingTypeOK, Histories, Place, Counters, Memory, Cycles,
     Floors, Broken, Flag, Running, m, NeverMidTravel, StalledMeansUnbroken,
     ValueIsTheModels, Back
<1>8. CASE UNCHANGED workingVars
  BY <1>8 DEF workingVars, loop, WorkingTypeOK, Histories, Place, Counters, Memory, Cycles,
     Floors, Broken, Flag, Running, m, NeverMidTravel, StalledMeansUnbroken,
     ValueIsTheModels, Back
<1> QED
  BY <1>1, <1>2, <1>3, <1>4, <1>5, <1>6, <1>7, <1>8 DEF WorkingNext

LEMMA WorkingInvariance == WorkingSpec => []WorkingInv
  BY WorkingInitHolds, WorkingStepHolds, PTL DEF WorkingSpec

(* What is asked as the loop goes on follows from what it counts.          *)
LEMMA CycleEnds == WorkingInv => NoCycleGoesOn
  BY DEF WorkingInv, Place, Broken, Running, NoCycleGoesOn, Back, m, WorkingTypeOK

-----------------------------------------------------------------------------
(* Every counter of the loop stays within its limit, the working fits      *)
(* within their budget.                                                    *)
THEOREM WorkingTypeCorrect == WorkingSpec => []WorkingTypeOK
  BY WorkingInvariance, PTL DEF WorkingInv

(* The working fits call themselves settled only at a fixed point of the   *)
(* iteration or in its cycle.                                              *)
THEOREM SettledIsNoTravel == WorkingSpec => []NeverMidTravel
  BY WorkingInvariance, PTL DEF WorkingInv

(* A cycle of period two always ends them.                                 *)
THEOREM CyclesEnd == WorkingSpec => []NoCycleGoesOn
  BY WorkingInvariance, CycleEnds, PTL

(* They give up only after StallLimit commits in a row without control.    *)
THEOREM StalledIsUnbroken == WorkingSpec => []StalledMeansUnbroken
  BY WorkingInvariance, PTL DEF WorkingInv

(* The three together, which is what the run checks.                       *)
THEOREM ExitsAreEarned == WorkingSpec => []ExitIsEarned
  BY SettledIsNoTravel, CyclesEnd, StalledIsUnbroken, PTL DEF ExitIsEarned

(* The value they return is never the working model's.                     *)
THEOREM ValueIsOfTheModel == WorkingSpec => []ValueIsTheModels
  BY WorkingInvariance, PTL DEF WorkingInv

-----------------------------------------------------------------------------
(* The composition EtaMemoBoth.cfg shows to be the exception.              *)
OneKindOfTerm == \A k \in Kinds : ~(k.refreshable /\ k.structural)

(* What an entry of each memo holds is the design as it is now, at the     *)
(* coefficients and at the rest of its key.  In a proposal the entry of    *)
(* the design is of the fit it is made from, and it is there from the      *)
(* first reading on, before which the terms have not moved.                *)
StEntries == proposal = {} => \A e \in st : e.value = <<e.key[1], terms, e.key[2]>>

Held(q) ==
  /\ \A e \in st : /\ e.key = <<q.par, FALSE>>
                   /\ e.value = <<q.par, q.terms, FALSE>>
  /\ q.netted => st # {}
  /\ st = {} => terms = q.terms

InProposal ==
  /\ proposal # {} => Refreshable /\ ~st_working
  /\ \A q \in proposal : Held(q) /\ proposal = {q}

SstEntries ==
  WithStructural =>
    \A e \in sst : e.value = <<<<e.key[1], terms, st_working>>, e.key[2]>>

MmEntries ==
  Plain => \A e \in mm : e.value = <<<<e.key, terms, st_working>>, sst_zeta>>

(* Only a term that recomputes its block has a working model.              *)
WorkingIsRefreshable == st_working => Refreshable

MemoIInv == /\ MemoTypeOK
            /\ StEntries /\ SstEntries /\ MmEntries
            /\ WorkingIsRefreshable /\ InProposal
            /\ ReadIsFresh /\ ProposalReadsOneFit

-----------------------------------------------------------------------------
(* statmod_design_at() returns the design at the coefficients asked for    *)
(* and leaves a memo that says so, hit or miss.                            *)
LEMMA DesignAtIsFresh ==
  ASSUME MemoTypeOK, StEntries, proposal = {},
         NEW c \in Coef, NEW b \in Blocks, NEW mo, DesignAt(c, b, mo)
  PROVE  /\ b = <<c, terms, st_working>>
         /\ mo \subseteq [key: Coef \X BOOLEAN, value: Blocks]
         /\ \A e \in mo : e.value = <<e.key[1], terms, e.key[2]>>
<1>1. CASE Refreshable /\ mo = st /\ \E e \in st : e.key = <<c, st_working>> /\ b = e.value
  BY <1>1 DEF MemoTypeOK, StEntries
<1>2. CASE /\ Refreshable /\ \A e \in st : e.key # <<c, st_working>>
           /\ b = <<c, terms, st_working>>
           /\ mo = {[key |-> <<c, st_working>>, value |-> b]}
  BY <1>2 DEF MemoTypeOK, Blocks
<1>3. CASE ~Refreshable /\ b = <<c, terms, st_working>> /\ mo = st
  BY <1>3 DEF MemoTypeOK, StEntries
<1> QED BY <1>1, <1>2, <1>3 DEF DesignAt

(* In a proposal it returns the design of the fit the proposal is made     *)
(* from: the first reading comes before any term moves, and the others     *)
(* are served by its entry.                                                *)
LEMMA DesignAtIsTheFits ==
  ASSUME MemoTypeOK, InProposal, NEW q \in proposal,
         NEW b \in Blocks, NEW mo, DesignAt(q.par, b, mo)
  PROVE  /\ b = <<q.par, q.terms, FALSE>>
         /\ mo # {}
         /\ mo \subseteq [key: Coef \X BOOLEAN, value: Blocks]
         /\ \A e \in mo : e.key = <<q.par, FALSE>> /\ e.value = b
<1>1. Refreshable /\ st_working = FALSE /\ Held(q)
  BY DEF InProposal, MemoTypeOK
<1>2. q \in Proposals
  BY DEF MemoTypeOK
<1>3. CASE mo = st /\ \E e \in st : e.key = <<q.par, st_working>> /\ b = e.value
  BY <1>1, <1>3 DEF MemoTypeOK, Held
<1>4. CASE /\ \A e \in st : e.key # <<q.par, st_working>>
           /\ b = <<q.par, terms, st_working>>
           /\ mo = {[key |-> <<q.par, st_working>>, value |-> b]}
  <2>1. st = {}
    BY <1>1, <1>4 DEF Held
  <2> QED
    <3>1. b = <<q.par, q.terms, FALSE>> /\ mo = {[key |-> <<q.par, FALSE>>, value |-> b]}
      BY <1>1, <1>4, <2>1 DEF Held
    <3>2. q.par \in Coef /\ FALSE \in BOOLEAN
      BY <1>2 DEF Proposals
    <3> DEFINE e0 == [key |-> <<q.par, FALSE>>, value |-> b]
    <3>3. /\ e0.key = <<q.par, FALSE>> /\ e0.value = b
          /\ e0 \in [key: Coef \X BOOLEAN, value: Blocks]
      BY <3>2
    <3>4. mo = {e0}
      BY <3>1
    <3> HIDE DEF e0
    <3> QED
      BY <3>1, <3>3, <3>4, Zenon
<1> QED BY <1>1, <1>3, <1>4 DEF DesignAt

LEMMA MemoInitHolds == MemoInit => MemoIInv
<1> SUFFICES ASSUME MemoInit PROVE MemoIInv
  OBVIOUS
<1>1. PICK c \in Coef : last = [now |-> <<<<c, terms, st_working>>, sst_zeta>>,
                                got |-> <<<<c, terms, st_working>>, sst_zeta>>,
                                within |-> {}]
  BY DEF MemoInit
<1>2. MemoTypeOK /\ ReadIsFresh /\ ProposalReadsOneFit
  BY <1>1 DEF MemoInit, MemoTypeOK, ReadIsFresh, ProposalReadsOneFit, Predictors, Blocks
<1> QED BY <1>2 DEF MemoInit, MemoIInv, StEntries, SstEntries, MmEntries,
                    WorkingIsRefreshable, InProposal

(* A reading that computes the predictors.  A model with terms that        *)
(* recompute their block has no other memo, so in a proposal every reading *)
(* is of this kind.                                                        *)
LEMMA AskMissHolds ==
  ASSUME OneKindOfTerm, MemoIInv, AskMiss
  PROVE  MemoIInv'
<1> USE DEF MemoIInv
<1>0. ~(Refreshable /\ WithStructural)
  BY DEF OneKindOfTerm, MemoTypeOK, Refreshable, WithStructural
<1>1. PICK c \in Asked, b \in Blocks :
        /\ DesignAt(c, b, st')
        /\ Read(c, <<b, sst_zeta>>)
        /\ sst' = IF WithStructural
                  THEN {[key |-> <<c, sst_zeta>>, value |-> <<b, sst_zeta>>]}
                  ELSE sst
        /\ mm' = IF Plain THEN {[key |-> c, value |-> <<b, sst_zeta>>]} ELSE mm
  BY DEF AskMiss
<1>2. UNCHANGED <<kind, terms, st_working, sst_zeta>>
  BY DEF AskMiss, design
<1>3. /\ last' = [now |-> Now(c), got |-> <<b, sst_zeta>>, within |-> proposal]
      /\ proposal' = {[r EXCEPT !.netted = TRUE] : r \in proposal}
  BY <1>1 DEF Read
<1>4. c \in Coef
  BY DEF Asked, MemoTypeOK, Proposals
<1>5. proposal' \subseteq Proposals
  BY <1>3 DEF MemoTypeOK, Proposals
<1>6. sst' \subseteq [key: Coef \X Zetas, value: Predictors]
  BY <1>1, <1>4 DEF MemoTypeOK, Predictors
<1>7. mm' \subseteq [key: Coef, value: Predictors]
  BY <1>1, <1>4 DEF MemoTypeOK, Predictors
<1>8. last' \in [now: Predictors, got: Predictors, within: SUBSET Proposals]
  BY <1>3, <1>4 DEF MemoTypeOK, Now, Predictors, Blocks
<1>9. WorkingIsRefreshable'
  BY <1>2 DEF WorkingIsRefreshable, Refreshable
<1>10. CASE proposal = {}
  <2>1. /\ b = <<c, terms, st_working>>
        /\ st' \subseteq [key: Coef \X BOOLEAN, value: Blocks]
        /\ \A e \in st' : e.value = <<e.key[1], terms, e.key[2]>>
    BY <1>1, <1>4, <1>10, DesignAtIsFresh
  <2>2. proposal' = {}
    BY <1>3, <1>10
  <2>3. MemoTypeOK'
    BY <1>2, <1>5, <1>6, <1>7, <1>8, <2>1 DEF MemoTypeOK
  <2>4. StEntries' /\ InProposal'
    BY <1>2, <2>1, <2>2 DEF StEntries, InProposal
  <2>5. SstEntries' /\ MmEntries'
    BY <1>1, <1>2, <2>1 DEF SstEntries, MmEntries, WithStructural, Plain, Refreshable
  <2>6. ReadIsFresh' /\ ProposalReadsOneFit'
    BY <1>3, <1>10, <2>1 DEF ReadIsFresh, ProposalReadsOneFit, Now
  <2> QED BY <1>9, <2>3, <2>4, <2>5, <2>6
<1>11. CASE proposal # {}
  <2>1. PICK q : proposal = {q} /\ q \in Proposals /\ c = q.par
    BY <1>11 DEF InProposal, Asked, MemoTypeOK
  <2>2. /\ b = <<q.par, q.terms, FALSE>>
        /\ st' # {}
        /\ st' \subseteq [key: Coef \X BOOLEAN, value: Blocks]
        /\ \A e \in st' : e.key = <<q.par, FALSE>> /\ e.value = b
    BY <1>1, <2>1, DesignAtIsTheFits
  <2> DEFINE q2 == [q EXCEPT !.netted = TRUE]
  <2>3. proposal' = {q2} /\ q2.par = q.par /\ q2.terms = q.terms
    <3>1. q2.par = q.par /\ q2.terms = q.terms
      BY <2>1 DEF Proposals
    <3>2. proposal' = {q2}
      BY <1>3, <2>1, Zenon
    <3> QED
      BY <3>1, <3>2
  <2> HIDE DEF q2
  <2>4. Refreshable /\ ~st_working /\ Refreshable' /\ ~st_working'
    BY <1>2, <1>11 DEF InProposal, Refreshable
  <2>5. MemoTypeOK'
    BY <1>2, <1>5, <1>6, <1>7, <1>8, <2>2 DEF MemoTypeOK
  <2>6. StEntries' /\ InProposal'
    BY <2>2, <2>3, <2>4 DEF StEntries, InProposal, Held
  <2>7. ReadIsFresh' /\ ProposalReadsOneFit'
    BY <1>3, <1>11, <2>1, <2>2 DEF ReadIsFresh, ProposalReadsOneFit, Now
  <2>8. SstEntries' /\ MmEntries'
    BY <1>0, <1>2, <2>4 DEF SstEntries, MmEntries, WithStructural, Plain, Refreshable
  <2> QED BY <1>9, <2>5, <2>6, <2>7, <2>8
<1> QED BY <1>10, <1>11

LEMMA MemoStepHolds ==
  ASSUME OneKindOfTerm, MemoIInv, [MemoNext]_memoVars
  PROVE  MemoIInv'
<1> USE DEF MemoIInv
<1>0. ~(Refreshable /\ WithStructural)
  BY DEF OneKindOfTerm, MemoTypeOK, Refreshable, WithStructural
<1>1. CASE AskHit
  <2> USE <1>1 DEF AskHit, design
  <2>1. PICK c \in Asked, v \in Predictors :
          /\ Read(c, v)
          /\ \/ WithStructural /\ \E e \in sst : Hit(c, e) /\ v = e.value
             \/ Plain /\ \E e \in mm : e.key = c /\ v = e.value
    BY DEF MemoTypeOK
  <2>2. proposal = {} /\ c \in Coef
    BY <1>0, <2>1 DEF InProposal, Plain, Asked
  <2>3. v = Now(c)
    <3>1. CASE WithStructural
      <4>1. PICK e \in sst : e.key = <<c, sst_zeta>> /\ v = e.value
        BY <2>1, <3>1 DEF Hit, Plain
      <4> QED BY <3>1, <4>1 DEF SstEntries, Now
    <3>2. CASE ~WithStructural
      <4>1. PICK e \in mm : e.key = c /\ v = e.value
        BY <2>1, <3>2
      <4> QED BY <2>1, <3>2, <4>1 DEF MmEntries, Now
    <3> QED BY <3>1, <3>2
  <2>4. last' = [now |-> Now(c), got |-> v, within |-> {}] /\ proposal' = {}
    BY <2>1, <2>2 DEF Read
  <2>5. Now(c) \in Predictors
    BY <2>2 DEF MemoTypeOK, Now, Predictors, Blocks
  <2>6. MemoTypeOK' /\ ReadIsFresh' /\ ProposalReadsOneFit'
    BY <2>3, <2>4, <2>5 DEF MemoTypeOK, ReadIsFresh, ProposalReadsOneFit
  <2>7. (StEntries /\ SstEntries /\ MmEntries /\ WorkingIsRefreshable /\ InProposal)'
    BY <2>2, <2>4 DEF StEntries, SstEntries, MmEntries, WorkingIsRefreshable, InProposal,
                      WithStructural, Plain, Refreshable
  <2> QED BY <2>6, <2>7
<1>2. CASE AskMiss
  BY <1>2, AskMissHolds
<1>3. CASE EnterWorking \/ LeaveWorking \/ MoveTerms \/ Restore \/ EndProposal
  <2> USE <1>3 DEF EnterWorking, LeaveWorking, MoveTerms, Restore, PutBack, EndProposal,
                   NoProposal, design
  <2>1. Refreshable /\ ~WithStructural /\ ~Plain
    BY <1>0 DEF WorkingIsRefreshable, InProposal, Plain
  <2>2. kind' = kind /\ st' = {} /\ last' = last
    OBVIOUS
  <2>3. proposal' = {}
    BY DEF InProposal
  <2>4. MemoTypeOK'
    BY <2>1, <2>2, <2>3 DEF MemoTypeOK
  <2>5. (StEntries /\ InProposal)'
    BY <2>2, <2>3 DEF StEntries, InProposal
  <2>6. (SstEntries /\ MmEntries /\ WorkingIsRefreshable)'
    BY <2>1, <2>2 DEF SstEntries, MmEntries, WorkingIsRefreshable, WithStructural, Plain, Refreshable
  <2>7. (ReadIsFresh /\ ProposalReadsOneFit)'
    BY <2>2 DEF ReadIsFresh, ProposalReadsOneFit
  <2> QED BY <2>4, <2>5, <2>6, <2>7
<1>4. CASE BeginProposal
  <2> USE <1>4 DEF BeginProposal, PutBack
  <2>1. Refreshable /\ ~WithStructural /\ ~Plain /\ ~st_working
    BY <1>0 DEF Plain
  <2>2. PICK c \in Coef : proposal' = {[par |-> c, terms |-> terms', netted |-> FALSE]}
    OBVIOUS
  <2>3. /\ UNCHANGED <<kind, st_working, sst_zeta, sst, mm, last>>
        /\ st' = {} /\ terms' \in Terms
    BY <2>1
  <2>4. MemoTypeOK'
    BY <2>2, <2>3 DEF MemoTypeOK, Proposals
  <2>5. (StEntries /\ InProposal)'
    BY <2>1, <2>2, <2>3 DEF StEntries, InProposal, Held, Refreshable
  <2>6. (SstEntries /\ MmEntries /\ WorkingIsRefreshable)'
    BY <2>1, <2>3 DEF SstEntries, MmEntries, WorkingIsRefreshable, WithStructural, Plain, Refreshable
  <2>7. (ReadIsFresh /\ ProposalReadsOneFit)'
    BY <2>3 DEF ReadIsFresh, ProposalReadsOneFit
  <2> QED BY <2>4, <2>5, <2>6, <2>7
<1>5. CASE ProposeTerm
  <2> USE <1>5 DEF ProposeTerm
  <2>1. PICK q : proposal = {q} /\ q \in Proposals /\ q.netted /\ Held(q)
    BY DEF InProposal, MemoTypeOK
  <2> DEFINE q2 == [q EXCEPT !.netted = FALSE]
  <2>2. /\ proposal' = {q2} /\ q2 \in Proposals
        /\ q2.par = q.par /\ q2.terms = q.terms /\ q2.netted = FALSE
    <3>1. /\ q2 \in Proposals
          /\ q2.par = q.par /\ q2.terms = q.terms /\ q2.netted = FALSE
      BY <2>1 DEF Proposals
    <3>2. proposal' = {q2}
      BY <2>1, Zenon
    <3> QED
      BY <3>1, <3>2
  <2> HIDE DEF q2
  <2>3. /\ UNCHANGED <<kind, st_working, sst_zeta, st, sst, mm, last>>
        /\ st # {} /\ terms' \in Terms
    BY <2>1 DEF Held
  <2>4. Refreshable /\ ~WithStructural /\ ~Plain /\ ~st_working
    BY <1>0, <2>1 DEF InProposal, Plain
  <2>5. MemoTypeOK'
    BY <2>2, <2>3 DEF MemoTypeOK
  <2>6. (StEntries /\ InProposal)'
    <3>1. \A e \in st' : e.key = <<q2.par, FALSE>> /\ e.value = <<q2.par, q2.terms, FALSE>>
      BY <2>1, <2>2, <2>3 DEF Held
    <3>2. Held(q2)'
      BY <2>2, <2>3, <3>1 DEF Held
    <3>3. Refreshable' /\ ~st_working'
      BY <2>3, <2>4 DEF Refreshable
    <3> QED
      BY <2>2, <3>2, <3>3 DEF StEntries, InProposal
  <2>7. (SstEntries /\ MmEntries /\ WorkingIsRefreshable)'
    BY <2>3, <2>4 DEF SstEntries, MmEntries, WorkingIsRefreshable, WithStructural, Plain, Refreshable
  <2>8. (ReadIsFresh /\ ProposalReadsOneFit)'
    BY <2>3 DEF ReadIsFresh, ProposalReadsOneFit
  <2> QED BY <2>5, <2>6, <2>7, <2>8
<1>6. CASE SetZeta \/ WriteZeta
  <2> USE <1>6 DEF SetZeta, WriteZeta, NoProposal
  <2>1. WithStructural /\ ~Plain
    BY DEF Plain
  <2>2. MemoTypeOK'
    BY DEF MemoTypeOK
  <2>3. (StEntries /\ SstEntries /\ MmEntries /\ WorkingIsRefreshable /\ InProposal)'
    BY <2>1 DEF StEntries, SstEntries, MmEntries, WorkingIsRefreshable, InProposal,
                WithStructural, Plain, Refreshable
  <2>4. (ReadIsFresh /\ ProposalReadsOneFit)'
    BY DEF ReadIsFresh, ProposalReadsOneFit
  <2> QED BY <2>2, <2>3, <2>4
<1>7. CASE UNCHANGED memoVars
  BY <1>7 DEF memoVars, design, MemoTypeOK, StEntries, SstEntries, MmEntries,
              WorkingIsRefreshable, InProposal, Held, ReadIsFresh, ProposalReadsOneFit,
              WithStructural, Plain, Refreshable
<1> QED BY <1>1, <1>2, <1>3, <1>4, <1>5, <1>6, <1>7 DEF MemoNext

-----------------------------------------------------------------------------
(* Every variable keeps its type, for every set of models in which no      *)
(* term recomputes its block beside a structural one.                      *)
THEOREM MemoTypeCorrect ==
  ASSUME OneKindOfTerm
  PROVE  MemoSpec => []MemoTypeOK
<1>1. MemoIInv => MemoTypeOK
  BY DEF MemoIInv
<1> QED BY MemoInitHolds, MemoStepHolds, <1>1, PTL DEF MemoSpec

(* What statmod_eta() and statmod_design_at() return from a memo outside a *)
(* proposal is what they would compute now, whatever the fits, commits,    *)
(* restarts and proposals that came between, for every set of models in    *)
(* which no term recomputes its block beside a structural one.             *)
THEOREM MemosAreFresh ==
  ASSUME OneKindOfTerm
  PROVE  MemoSpec => []ReadIsFresh
<1>1. MemoIInv => ReadIsFresh
  BY DEF MemoIInv
<1> QED BY MemoInitHolds, MemoStepHolds, <1>1, PTL DEF MemoSpec

(* Every term of a proposal is screened on the predictors of the fit it is *)
(* made from, however many terms before it have moved, for those models.   *)
THEOREM ProposalsAreOfOneFit ==
  ASSUME OneKindOfTerm
  PROVE  MemoSpec => []ProposalReadsOneFit
<1>1. MemoIInv => ProposalReadsOneFit
  BY DEF MemoIInv
<1> QED BY MemoInitHolds, MemoStepHolds, <1>1, PTL DEF MemoSpec
=============================================================================
