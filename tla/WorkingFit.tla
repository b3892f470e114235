----------------------------- MODULE WorkingFit -----------------------------
(***************************************************************************)
(* fit_working() of R/statmod.R: the fit of the equations that carry a     *)
(* frozen break-point block.  Each iteration solves the plain linear       *)
(* working model (st$working is set while it runs), then commits the       *)
(* break-points read off its coefficients; the loop leaves at a fixed      *)
(* point of that iteration, in the cycle it settles into, when the         *)
(* break-points move without step control, or when the budget is spent.    *)
(*                                                                         *)
(* Abstracted: the fit itself, which returns any working objective, and    *)
(* the terms' own verdicts after a commit, which are free.                 *)
(***************************************************************************)
EXTENDS Integers, Sequences

CONSTANTS W,           \* working objectives, a finite set of integers
          NotFinite,   \* a working objective that is not finite
          NearTol,     \* near(): two objectives at most this far apart
          Budget,      \* `budget' of the call, 500 or 200 in the code
          StallLimit,  \* `stall_limit', 20 in the code
          Others,      \* whether some coefficients lie outside the working fit
          MayRaise     \* whether the smooth fit can end in an R error

ASSUME WorkingAssumption ==
  /\ W \subseteq Int
  /\ NotFinite \notin Int
  /\ NearTol \in Nat
  /\ Budget \in Nat \ {0} /\ StallLimit \in Nat \ {0}
  /\ Others \in BOOLEAN /\ MayRaise \in BOOLEAN

Objectives == W \union {NotFinite}

VARIABLES at,          \* "plain", "enter", "solve", "commit", "others", "done"
                       \* or "raised"
          it,          \* working fits so far
          w,           \* the working objective of the last one
          w_prev, w_prev2,
          stall, cyc, floor_run,
          verdict,     \* "none", "settled", "stalled" or "budget"
          working,     \* st$working
          reading,     \* which model the value returned was read on
          seen,        \* history: the working objectives, in order
          floored      \* history: whether each commit was without step control

loop == <<it, w, w_prev, w_prev2, stall, cyc, floor_run>>
workingVars == <<at, loop, verdict, working, reading, seen, floored>>

Near(a, b) == /\ a # NotFinite /\ b # NotFinite
              /\ a - b <= NearTol /\ b - a <= NearTol

WorkingTypeOK ==
  /\ at \in {"plain", "enter", "solve", "commit", "others", "done", "raised"}
  /\ it \in 0 .. Budget
  /\ w \in Objectives /\ w_prev \in Objectives /\ w_prev2 \in Objectives
  /\ stall \in 0 .. Budget /\ cyc \in 0 .. Budget
  /\ floor_run \in 0 .. StallLimit
  /\ verdict \in {"none", "settled", "stalled", "budget"}
  /\ working \in BOOLEAN
  /\ reading \in {"none", "working", "model"}

(* "plain": no column of the frozen equations is in the smooth block.      *)
WorkingInit ==
  /\ at \in {"plain", "enter"}
  /\ it = 0
  /\ w = NotFinite /\ w_prev = NotFinite /\ w_prev2 = NotFinite
  /\ stall = 0 /\ cyc = 0 /\ floor_run = 0
  /\ verdict = "none"
  /\ working = FALSE
  /\ reading = "none"
  /\ seen = <<>> /\ floored = <<>>

(* Nothing to iterate over: the ordinary fit is the whole answer.          *)
PlainFit ==
  /\ at = "plain"
  /\ \/ reading' = "model" /\ at' = "done"
     \/ MayRaise /\ at' = "raised" /\ UNCHANGED reading
  /\ UNCHANGED <<loop, verdict, working, seen, floored>>

Enter ==
  /\ at = "enter"
  /\ it' = it + 1
  /\ working' = TRUE
  /\ at' = "solve"
  /\ UNCHANGED <<w, w_prev, w_prev2, stall, cyc, floor_run,
                 verdict, reading, seen, floored>>

(* Mutant: the design is left in the working model.                        *)
Solve_staysWorking ==
  /\ at = "solve"
  /\ w' \in Objectives
  /\ seen' = Append(seen, w')
  /\ at' = "commit"
  /\ UNCHANGED <<it, w_prev, w_prev2, stall, cyc, floor_run,
                 verdict, working, reading, floored>>

Solve ==
  /\ at = "solve"
  /\ w' \in Objectives
  /\ seen' = Append(seen, w')
  /\ working' = FALSE
  /\ at' = "commit"
  /\ UNCHANGED <<it, w_prev, w_prev2, stall, cyc, floor_run,
                 verdict, reading, floored>>

(* Nothing resets st$working when the fit raises.                          *)
SolveRaises ==
  /\ MayRaise
  /\ at = "solve"
  /\ at' = "raised"
  /\ UNCHANGED <<loop, verdict, working, reading, seen, floored>>

(* Mutant: the count of cycles survives an objective that breaks the cycle. *)
Counts_noReset(flo) ==
  /\ stall' = IF Near(w, w_prev) THEN stall + 1 ELSE 0
  /\ cyc' = IF Near(w, w_prev2) THEN cyc + 1 ELSE cyc
  /\ floor_run' = IF flo THEN floor_run + 1 ELSE 0

(* The three counters after a commit.  `flo' is statmod_refresh_stalled(), *)
(* read only where the loop goes on.                                       *)
Counts(flo) ==
  /\ stall' = IF Near(w, w_prev) THEN stall + 1 ELSE 0
  /\ cyc' = IF Near(w, w_prev2) THEN cyc + 1 ELSE 0
  /\ floor_run' = IF flo THEN floor_run + 1 ELSE 0

(* A fixed point the terms confirm, three stalls, or a period-two cycle.   *)
Settles(settled) == (settled /\ stall' >= 1) \/ stall' >= 3 \/ cyc' >= 2

LeaveLoop(v) == /\ verdict' = v
                /\ at' = "others"
                /\ UNCHANGED <<w_prev, w_prev2>>

(* Mutant: the budget is never read.                                       *)
Again_noBudget ==
  /\ w_prev2' = w_prev /\ w_prev' = w
  /\ at' = "enter"
  /\ UNCHANGED verdict

(* The end of an iteration: the next one, or the budget is exhausted.      *)
Again ==
  /\ w_prev2' = w_prev /\ w_prev' = w
  /\ IF it < Budget
     THEN at' = "enter" /\ UNCHANGED verdict
     ELSE at' = "others" /\ verdict' = "budget"

CommitFit ==
  /\ at = "commit"
  /\ \E settled, flo \in BOOLEAN :
       /\ Counts(flo)
       /\ floored' = Append(floored, flo)
       /\ \/ Settles(settled) /\ LeaveLoop("settled")
          \/ ~Settles(settled) /\ floor_run' >= StallLimit /\ LeaveLoop("stalled")
          \/ ~Settles(settled) /\ floor_run' < StallLimit /\ Again
  /\ UNCHANGED <<it, w, working, reading, seen>>

(* The other equations, once, and the objective at the point reached.      *)
ReturnFit ==
  /\ at = "others"
  /\ reading' = IF working THEN "working" ELSE "model"
  /\ at' = "done"
  /\ UNCHANGED <<loop, verdict, working, seen, floored>>

OthersRaise ==
  /\ MayRaise /\ Others
  /\ at = "others"
  /\ at' = "raised"
  /\ UNCHANGED <<loop, verdict, working, reading, seen, floored>>

WorkingNext == \/ PlainFit \/ Enter \/ Solve \/ SolveRaises \/ CommitFit \/ ReturnFit
               \/ OthersRaise

WorkingSpec == WorkingInit /\ [][WorkingNext]_workingVars

-----------------------------------------------------------------------------
(* The k-th working objective before the last one.                         *)
Back(k) == seen[Len(seen) - k]

(* "The exit is at a FIXED POINT of the iteration or in the cycle it       *)
(* settles into, never mid-travel" (R/statmod.R:2630): the fit calls       *)
(* itself settled only where the last objective repeats the one before it, *)
(* or the last two repeat the two before them.                             *)
NeverMidTravel ==
  verdict = "settled" =>
    \/ Len(seen) >= 2 /\ Near(Back(0), Back(1))
    \/ Len(seen) >= 4 /\ Near(Back(0), Back(2)) /\ Near(Back(1), Back(3))

(* A cycle of period two never outlives its second repetition, whatever    *)
(* the terms say of themselves.                                            *)
NoCycleGoesOn ==
  (at = "enter" /\ Len(seen) >= 4) =>
    ~(Near(Back(0), Back(2)) /\ Near(Back(1), Back(3)))

(* The fit gives up for want of step control only after StallLimit commits *)
(* in a row without any.                                                   *)
StalledMeansUnbroken ==
  verdict = "stalled" =>
    /\ Len(floored) >= StallLimit
    /\ \A i \in Len(floored) - StallLimit + 1 .. Len(floored) : floored[i]

(* The three together: the loop ends where it must and nowhere else.       *)
ExitIsEarned == NeverMidTravel /\ NoCycleGoesOn /\ StalledMeansUnbroken

(* The value returned is the model's and never the working model's.        *)
ValueIsTheModels == at = "done" => reading = "model"
=============================================================================
