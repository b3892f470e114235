---------------------------- MODULE SettleBreaks ----------------------------
(***************************************************************************)
(* statmod_settle_seg() and statmod_settle_breakpoints() of                *)
(* R/boot_restart.R: the break-points are moved to the minimum of the      *)
(* working profile and the model is refitted from there, as long as the    *)
(* refit lowers the objective.  With Sharp the terms are jump() and jseg() *)
(* and are first held where the iteration stopped; without it they are     *)
(* seg() and stay free.                                                    *)
(*                                                                         *)
(* A candidate refit is one step here: the terms placed, the fit run, the  *)
(* verdict taken.                                                          *)
(***************************************************************************)
EXTENDS BreakFits

CONSTANTS Modes,       \* the searches that are run: see AllModes
          Rounds,      \* `rounds', how often the profile is polished again
          MaxCand      \* candidates the local search refits, at most

(* sharp: settle_breakpoints() rather than settle_seg(); exact: the working *)
(* profile is the objective itself (working_exact()).                      *)
AllModes == [sharp: BOOLEAN, exact: BOOLEAN]

ASSUME SettleAssumption ==
  /\ Modes \subseteq AllModes
  /\ Rounds \in Nat /\ MaxCand \in Nat

(* pc is "hold", "polish", "search" or "done".                             *)
VARIABLES mode,        \* chosen once
          n,           \* rounds polished, then candidates searched
          bestPos,     \* best_terms
          moved, settled,
          entry        \* history: <<best, bestPos>> as the search began

settleVars == <<mode, pc, n, best, bestPos, moved, settled, entry, pos, zeta>>

SettleTypeOK ==
  /\ mode \in Modes
  /\ pc \in {"hold", "polish", "search", "done"}
  /\ n \in 0 .. (IF Rounds > MaxCand THEN Rounds ELSE MaxCand)
  /\ best \in [par: Par, value: Values]
  /\ bestPos \in Pos
  /\ moved \in BOOLEAN /\ settled \in BOOLEAN
  /\ entry \in [par: Par, value: Values] \X Pos
  /\ pos \in Pos /\ zeta \in Zeta

SettleInit ==
  /\ mode \in Modes
  /\ pc = IF mode.sharp THEN "hold" ELSE "polish"
  /\ n = 0
  /\ pos \in Pos /\ zeta \in Zeta
  /\ best \in {Result(<<p, pos, zeta>>) : p \in Par}
  /\ bestPos = pos
  /\ moved = FALSE /\ settled = FALSE
  /\ entry = <<best, bestPos>>

(* The first fit of a sharp term, held where the iteration stopped, is     *)
(* taken whatever its objective: it is the exact fit at that position.     *)
Hold ==
  /\ pc = "hold"
  /\ \E f \in Fits :
       /\ Value[f] # NonFinite
       /\ best' = Result(f)
       /\ bestPos' = f[2] /\ pos' = f[2] /\ zeta' = f[3]
  /\ entry' = <<best', bestPos'>>
  /\ settled' = TRUE
  /\ pc' = "polish"
  /\ UNCHANGED <<mode, n, moved>>

(* Mutant: the terms stay held after the refit that failed.                *)
HoldFails_noRestore ==
  /\ pc = "hold"
  /\ pos' \in Pos /\ zeta' \in Zeta
  /\ pc' = "done"
  /\ UNCHANGED <<mode, n, best, bestPos, moved, settled, entry>>

(* That fit raised, or its objective is not finite: the terms are put back *)
(* and nothing was settled.                                                *)
HoldFails ==
  /\ pc = "hold"
  /\ pos' = bestPos
  /\ zeta' \in Zeta
  /\ pc' = "done"
  /\ UNCHANGED <<mode, n, best, bestPos, moved, settled, entry>>

(* better(): a finite objective, below the incumbent's or the incumbent's  *)
(* not finite (settle_seg() alone can meet that case).                     *)
Better(v) == /\ v # NonFinite
             /\ best.value # NonFinite => v < best.value

(* Mutant: the flag the caller reads is not raised.                        *)
Take_silent(f) ==
  /\ Better(Value[f])
  /\ best' = Result(f)
  /\ bestPos' = f[2] /\ pos' = f[2] /\ zeta' = f[3]
  /\ UNCHANGED <<mode, moved, settled, entry>>

(* A refit that improves becomes the incumbent; one that does not, or that *)
(* raises, leaves the design where it took it.                             *)
Take(f) ==
  /\ Better(Value[f])
  /\ best' = Result(f)
  /\ bestPos' = f[2] /\ pos' = f[2] /\ zeta' = f[3]
  /\ moved' = TRUE
  /\ UNCHANGED <<mode, settled, entry>>

TurnDown ==
  /\ pos' \in Pos /\ zeta' \in Zeta
  /\ UNCHANGED <<mode, best, bestPos, moved, settled, entry>>

(* One round of polishing: the first that does not improve is the last.    *)
Polish ==
  /\ pc = "polish" /\ n < Rounds
  /\ \/ \E f \in Fits : Take(f) /\ n' = n + 1 /\ UNCHANGED pc
     \/ TurnDown /\ pc' = "search" /\ n' = 0

(* No position moved on the profile, or the rounds are spent.              *)
StopPolishing ==
  /\ pc = "polish"
  /\ pc' = "search" /\ n' = 0
  /\ UNCHANGED <<mode, best, bestPos, moved, settled, entry, pos, zeta>>

(* Mutant: one candidate more than the limit.                              *)
Search_oneMore ==
  /\ pc = "search" /\ ~mode.exact /\ n <= MaxCand
  /\ n' = n + 1
  /\ \/ \E f \in Fits : Take(f)
     \/ TurnDown
  /\ UNCHANGED pc

(* Where the profile is only a model of the objective, its deepest local   *)
(* minima (and, for a sharp term, the intervals beside the best) are       *)
(* refitted one after the other, each compared with the best so far.       *)
Search ==
  /\ pc = "search" /\ ~mode.exact /\ n < MaxCand
  /\ n' = n + 1
  /\ \/ \E f \in Fits : Take(f)
     \/ TurnDown
  /\ UNCHANGED pc

(* `st$terms <- best_terms; reset()': the terms go back to the incumbent's, *)
(* the structural state stays where the last refit left it.                *)
SettleFinish ==
  /\ pc = "search"
  /\ pc' = "done"
  /\ pos' = bestPos
  /\ UNCHANGED <<mode, n, best, bestPos, moved, settled, entry, zeta>>

SettleNext == Hold \/ HoldFails \/ Polish \/ StopPolishing \/ Search \/ SettleFinish

SettleSpec == SettleInit /\ [][SettleNext]_settleVars /\ WF_settleVars(SettleNext)

-----------------------------------------------------------------------------
(* `moved', by which statmod() decides whether to read its criterion       *)
(* again, says exactly whether the fit handed back replaced the one the    *)
(* search began from, and what replaced it, over however many refits, has  *)
(* a finite and a strictly lower objective.                                *)
MovedIsTheVerdict ==
  pc = "done" =>
    /\ moved <=> <<best, bestPos>> # entry
    /\ moved => /\ best.value # NonFinite
                /\ entry[1].value # NonFinite => best.value < entry[1].value

=============================================================================
