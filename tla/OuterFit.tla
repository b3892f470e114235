------------------------------ MODULE OuterFit ------------------------------
(***************************************************************************)
(* outer_fit() of R/outer.R: the search over the hyperparameters.  Every   *)
(* evaluation is a whole inner fit, which writes into the design; the      *)
(* optimizer's accept and reject are not visible here, so what a trial     *)
(* leaves behind is decided by evaluate() alone.  The first search is      *)
(* followed by up to five kinds of second search, each kept only where it  *)
(* gains, and by a refit at the point reported.                            *)
(*                                                                         *)
(* Abstracted: the inner fit, a function of the hyperparameters and of the *)
(* state it starts from (`Inner'), so that two trials of one point differ  *)
(* only where they start differently; the optimizer, which may try any     *)
(* point and reports one it read; the readings of curvature, which are     *)
(* free; the criterion, on the scale that is minimized.                    *)
(***************************************************************************)
EXTENDS Integers

CONSTANTS Hyper,         \* the points of the search
          Start,         \* eta0
          Beta, Zeta, Terms,   \* what an inner fit starts from and moves
          Inner,         \* its outcome: see Outcome
          NonFinite,     \* a criterion that is not finite
          NoPoint,       \* no incumbent, no last point, no result, no criterion
          Limit,         \* mode_error_limit()
          MaxEvals       \* evaluations all the searches may take together

Values == Int \union {NonFinite}

(* `ok': the criterion can be read there (converged, or at its mode).  The *)
(* argument after the point says whether flat directions are left out.     *)
Outcome == [ok: BOOLEAN, beta: Beta, zeta: Zeta, terms: Terms, value: Values]

ASSUME OuterAssumption ==
  /\ Start \in Hyper
  /\ Inner \in [Hyper \X BOOLEAN \X Beta \X Zeta \X Terms -> Outcome]
  /\ NonFinite \notin Int
  /\ Limit \in Nat /\ MaxEvals \in Nat \ {0}

Incumbents == [v: Int, at: Hyper, beta: Beta, zeta: Zeta]
Points == [v: Hyper, value: Values]
Reported == [v: Hyper, value: Int]

VARIABLES pc,          \* "first", "minimize", "settle", "rising", "edge",
                       \* "probe", "refit", "done" or "error"
          stage,       \* which search is running
          s,           \* the environment `state' and the design
          run,         \* the readings of the search that is running
          begin,       \* the one it began with
          res,         \* the point reported so far
          converged, settled,
          criterion,   \* of the refit, the one returned
          attempt,     \* restarts of the present kind
          keep,        \* what a probe that is turned down puts back
          log,         \* history: <<point, incumbent, value>> of each trial
          last_res     \* history: the point reported when the run began

vars == <<pc, stage, s, run, begin, res, converged, settled, attempt, keep,
          criterion, log, last_res>>

Stages == {"main", "box", "retry", "rising", "edge"}

TypeOK ==
  /\ pc \in {"first", "minimize", "settle", "rising", "edge", "probe",
             "refit", "done", "error"}
  /\ stage \in Stages
  /\ s \in [beta: Beta, zeta: Zeta, terms: Terms, pinned: BOOLEAN,
            best: Incumbents \union {NoPoint}, worst: Values, evals: Nat,
            last: [v: Hyper, fn: Values, ok: BOOLEAN] \union {NoPoint}]
  /\ run \subseteq Points
  /\ begin \in Points \union {NoPoint}
  /\ {res, last_res} \subseteq Reported \union {NoPoint}
  /\ converged \in BOOLEAN /\ settled \in BOOLEAN
  /\ criterion \in Values \union {NoPoint}
  /\ attempt \in 0 .. 3
  /\ keep \in [best: Incumbents \union {NoPoint}, beta: Beta] \union {NoPoint}

-----------------------------------------------------------------------------
(* Mutant: a trial starts from the last usable point.                      *)
WarmStart_last(st) == <<st.beta, st.zeta>>

(* Every trial starts from the incumbent, and from the last usable point   *)
(* where there is none.                                                    *)
WarmStart(st) == IF st.best = NoPoint THEN <<st.beta, st.zeta>>
                 ELSE <<st.best.beta, st.best.zeta>>

Fit(st, v) == Inner[<<v, st.pinned, WarmStart(st)[1], WarmStart(st)[2], st.terms>>]

(* Mutant: a barrier no worse than the worst point.                        *)
Barrier_flat(w) == IF w = NonFinite THEN 1 ELSE w

(* Worse than everything seen, and finite.                                 *)
Barrier(w) == IF w = NonFinite THEN 3 ELSE 2 * (IF w < 0 THEN 0 ELSE w) + 1

(* Mutant: they stay where the failed fit left them.                       *)
Unavailable_noRestore(st, v) ==
  [st EXCEPT !.zeta = Fit(st, v).zeta, !.terms = Fit(st, v).terms,
             !.evals = @ + 1,
             !.last = [v |-> v, fn |-> Barrier(st.worst), ok |-> FALSE]]

(* An unavailable point: the structural parameters go back to where the    *)
(* trial started, the coefficients were never moved.                       *)
Unavailable(st, v) ==
  [st EXCEPT !.zeta = WarmStart(st)[2], !.terms = Fit(st, v).terms,
             !.evals = @ + 1,
             !.last = [v |-> v, fn |-> Barrier(st.worst), ok |-> FALSE]]

Finite(x) == x # NonFinite

(* Mutant: the parameters of the structural term are not kept with it.     *)
Incumbent_oldZeta(st, v, r) ==
  IF Finite(r.value) /\ (st.best # NoPoint => r.value < st.best.v)
  THEN [v |-> r.value, at |-> v, beta |-> r.beta,
        zeta |-> WarmStart(st)[2]]
  ELSE st.best

(* Mutant: the first usable point is the incumbent, finite or not.         *)
Incumbent_first(st, v, r) ==
  IF st.best = NoPoint \/ (Finite(r.value) /\ r.value < st.best.v)
  THEN [v |-> r.value, at |-> v, beta |-> r.beta, zeta |-> r.zeta]
  ELSE st.best

Incumbent(st, v, r) ==
  IF Finite(r.value) /\ (st.best # NoPoint => r.value < st.best.v)
  THEN [v |-> r.value, at |-> v, beta |-> r.beta, zeta |-> r.zeta]
  ELSE st.best

Worst(w, x) == IF ~Finite(x) THEN w
               ELSE IF ~Finite(w) \/ x > w THEN x ELSE w

Usable(st, v) ==
  LET r == Fit(st, v) IN
  [st EXCEPT !.beta = r.beta, !.zeta = r.zeta, !.terms = r.terms,
             !.best = Incumbent(st, v, r), !.worst = Worst(st.worst, r.value),
             !.evals = @ + 1,
             !.last = [v |-> v, fn |-> r.value, ok |-> TRUE]]

Cached(st, v) == st.last # NoPoint /\ st.last.v = v

(* evaluate(): the state it leaves, the last point being remembered.       *)
Evaluate(st, v) == IF Cached(st, v) THEN st
                   ELSE IF Fit(st, v).ok THEN Usable(st, v)
                   ELSE Unavailable(st, v)

(* What an evaluation adds to the history.                                 *)
Logged(st, v) == IF Cached(st, v) \/ ~Fit(st, v).ok THEN {}
                 ELSE {<<v, st.pinned, st.best, Fit(st, v).value>>}

Eval(st, v) == s' = Evaluate(st, v) /\ log' = log \union Logged(st, v)
NoEval == UNCHANGED <<s, log>>

-----------------------------------------------------------------------------
Init ==
  /\ pc = "first" /\ stage = "main"
  /\ s \in [beta: Beta, zeta: Zeta, terms: Terms, pinned: {FALSE},
            best: {NoPoint}, worst: {NonFinite}, evals: {0}, last: {NoPoint}]
  /\ run = {} /\ begin = NoPoint /\ res = NoPoint /\ last_res = NoPoint
  /\ converged = FALSE /\ settled = FALSE /\ criterion = NoPoint
  /\ attempt = 0 /\ keep = NoPoint
  /\ log = {}

(* A search from v evaluates v first, in the state st.                     *)
Begin(st, v, what) ==
  /\ Eval(st, v)
  /\ begin' = [v |-> v, value |-> s'.last.fn]
  /\ run' = {begin'}
  /\ stage' = what /\ pc' = "minimize"
  /\ last_res' = res

(* The first evaluation: nothing has moved yet, so a point that is not     *)
(* available is the caller's and is raised, after one more try with the    *)
(* directions the model does not identify left out of the determinant.     *)
(* That try finds the structural parameters where the first left them.     *)
First ==
  /\ pc = "first"
  /\ \/ Fit(s, Start).ok /\ Begin(s, Start, "main")
     \/ /\ ~Fit(s, Start).ok
        /\ LET again == [s EXCEPT !.pinned = TRUE,
                                  !.zeta = Fit(s, Start).zeta,
                                  !.terms = Fit(s, Start).terms]
           IN /\ Fit(again, Start).ok
              /\ Begin(again, Start, "main")
  /\ UNCHANGED <<res, converged, settled, attempt, keep, criterion>>

FirstRaises ==
  /\ pc = "first" /\ ~Fit(s, Start).ok
  /\ pc' = "error"
  /\ UNCHANGED <<stage, s, run, begin, res, converged, settled, attempt,
                 keep, log, last_res, criterion>>

Trial ==
  /\ pc \in {"minimize", "probe"} /\ s.evals < MaxEvals
  /\ pc = "minimize" => Finite(begin.value)
  /\ \E v \in Hyper :
       /\ Eval(s, v)
       /\ run' = run \union {[v |-> v, value |-> s'.last.fn]}
  /\ UNCHANGED <<pc, stage, begin, res, converged, settled, attempt, keep,
                 last_res, criterion>>

(* What minimize() may report: a point it read, no worse than its start;   *)
(* it stops where the start is not finite.                                 *)
Reports(r) ==
  /\ Finite(begin.value) /\ Finite(r.value)
  /\ r.value <= begin.value

MainDone ==
  /\ pc = "minimize" /\ stage = "main"
  /\ \E r \in run : Reports(r) /\ res' = r
  /\ converged' \in BOOLEAN
  /\ \/ pc' = "settle" /\ UNCHANGED <<stage, begin, run, last_res>> /\ NoEval
     \/ \E v \in Hyper :          \* ran_out(): again, inside the box
          /\ Eval(s, v)
          /\ begin' = [v |-> v, value |-> s'.last.fn] /\ run' = {begin'}
          /\ stage' = "box" /\ last_res' = res' /\ UNCHANGED pc
  /\ UNCHANGED <<settled, attempt, keep, criterion>>

MainRaises ==
  /\ pc = "minimize" /\ stage = "main" /\ ~Finite(begin.value)
  /\ pc' = "error"
  /\ UNCHANGED <<stage, s, run, begin, res, converged, settled, attempt,
                 keep, log, last_res, criterion>>

(* A search that ran off the chart is run again inside a box and replaced. *)
BoxDone ==
  /\ pc = "minimize" /\ stage = "box"
  /\ \/ (\E r \in run : Reports(r) /\ res' = r) /\ converged' \in BOOLEAN
     \/ UNCHANGED <<res, converged>>
  /\ pc' = "settle"
  /\ UNCHANGED <<stage, s, run, begin, settled, attempt, keep, log, last_res,
                 criterion>>

(* Whether the point reported is the optimum: the decrement read there, on *)
(* an exact Hessian, evaluates it.  A line search that failed at the       *)
(* rounding of the criterion is called converged on the same reading.      *)
Settle ==
  /\ pc = "settle"
  /\ \/ converged /\ settled' = TRUE /\ UNCHANGED converged /\ NoEval
     \/ ~converged /\ settled' = FALSE /\ UNCHANGED converged /\ NoEval
     \/ /\ ~converged /\ settled' \in BOOLEAN /\ Eval(s, res.v)
        /\ converged' = (settled' /\ stage \in {"main", "box"})
           \/ converged' = FALSE
  /\ pc' = "rising" /\ attempt' = 0
  /\ UNCHANGED <<stage, run, begin, res, keep, last_res, criterion>>

(* A Newton search that did not settle is run again by lbfgs(), from the   *)
(* start.  Every second search may gain too little, or end in an error:    *)
(* nothing of it is taken then.                                            *)
Retry ==
  /\ pc = "rising" /\ ~settled /\ stage \in {"main", "box"}
  /\ Begin(s, Start, "retry")
  /\ UNCHANGED <<res, converged, settled, attempt, keep, criterion>>

Gains(r, by) == r.value < res.value - by

RetryDone ==
  /\ pc = "minimize" /\ stage = "retry"
  /\ \/ /\ \E r \in run : Reports(r) /\ Gains(r, 0) /\ res' = r
        /\ converged' \in BOOLEAN
        /\ pc' = "settle"
     \/ pc' = "rising" /\ UNCHANGED <<res, converged>>
  /\ UNCHANGED <<stage, s, run, begin, settled, attempt, keep, log, last_res,
                 criterion>>

(* A search that stopped for want of a measurable decrease while the       *)
(* criterion still rises is begun again from its point.                    *)
Rising ==
  /\ pc = "rising" /\ converged /\ attempt < 3
  /\ Begin(s, res.v, "rising")
  /\ attempt' = attempt + 1
  /\ UNCHANGED <<res, converged, settled, keep, criterion>>

RisingDone ==
  /\ pc = "minimize" /\ stage = "rising"
  /\ \/ /\ \E r \in run : Reports(r) /\ Gains(r, Limit) /\ res' = r
        /\ converged' \in BOOLEAN /\ settled' = converged'
        /\ pc' = "rising" /\ UNCHANGED attempt /\ NoEval
     \/ /\ UNCHANGED <<res, converged, settled>>
        /\ Eval(s, res.v)
        /\ pc' = "edge" /\ attempt' = 0
  /\ UNCHANGED <<stage, run, begin, keep, last_res, criterion>>

(* No restart is called for, the reading of the rise having evaluated the  *)
(* point.                                                                  *)
NotRising ==
  /\ pc = "rising"
  /\ IF converged THEN NoEval \/ Eval(s, res.v) ELSE NoEval
  /\ pc' = "edge" /\ attempt' = 0
  /\ UNCHANGED <<stage, run, begin, res, converged, settled, keep, last_res,
                 criterion>>

(* A hyperparameter at the edge of its chart is probed from inside.        *)
Probe ==
  /\ pc = "edge" /\ attempt < 3
  /\ keep' = [best |-> s.best, beta |-> s.beta]
  /\ run' = {} /\ last_res' = res
  /\ pc' = "probe"
  /\ UNCHANGED <<stage, s, begin, res, converged, settled, attempt, log,
                 criterion>>

(* restore(): the incumbent goes back, and the point reported is evaluated *)
(* once more.                                                              *)
PutBack == [s EXCEPT !.best = keep.best, !.beta = keep.beta]

TurnDown ==
  /\ Eval(PutBack, res.v)
  /\ pc' = "refit"
  /\ UNCHANGED <<stage, run, begin, res, converged, settled, attempt, last_res,
                 criterion>>

ProbeFails == pc = "probe" /\ TurnDown /\ UNCHANGED keep

ProbeGains ==
  /\ pc = "probe"
  /\ \E r \in run : /\ Finite(r.value) /\ Gains(r, Limit)
                    /\ Begin(s, r.v, "edge")
  /\ UNCHANGED <<res, converged, settled, attempt, keep, criterion>>

EdgeDone ==
  /\ pc = "minimize" /\ stage = "edge"
  /\ \/ /\ \E r \in run : Reports(r) /\ Gains(r, Limit) /\ res' = r
        /\ converged' \in BOOLEAN
        /\ IF converged' THEN settled' = TRUE /\ NoEval
                         ELSE settled' \in BOOLEAN /\ Eval(s, res'.v)
        /\ pc' = "edge" /\ attempt' = attempt + 1
        /\ UNCHANGED <<stage, run, begin, keep, last_res, criterion>>
     \/ TurnDown /\ UNCHANGED keep

NoEdge ==
  /\ pc = "edge"
  /\ pc' = "refit"
  /\ UNCHANGED <<stage, s, run, begin, res, converged, settled, attempt,
                 keep, log, last_res, criterion>>

(* The fit at the point reported, from the incumbent, its own verdict, and *)
(* the criterion read at its mode.  A fit whose criterion cannot be read   *)
(* is returned all the same, with NA for it.                               *)
Refit ==
  /\ pc = "refit"
  /\ LET r == Fit(s, res.v) IN
       /\ s' = [s EXCEPT !.zeta = r.zeta, !.terms = r.terms]
       /\ criterion' \in IF r.ok THEN {r.value} ELSE {r.value, NoPoint}
       /\ \E fit \in BOOLEAN : /\ converged' = (converged /\ fit)
                               /\ settled' = (settled /\ fit)
  /\ pc' = "done"
  /\ UNCHANGED <<stage, run, begin, res, attempt, keep, log, last_res>>

Next == \/ First \/ FirstRaises \/ Trial \/ MainDone \/ MainRaises \/ BoxDone
        \/ Settle \/ Retry \/ RetryDone \/ Rising \/ RisingDone \/ NotRising
        \/ Probe \/ ProbeFails \/ ProbeGains \/ EdgeDone \/ NoEdge \/ Refit

Spec == Init /\ [][Next]_vars /\ WF_vars(Next)

-----------------------------------------------------------------------------
(* A trial reads the same criterion whenever it is tried from the same     *)
(* incumbent: what was tried in between, usable or not, is not part of it. *)
(* A line search that compares against a value it can no longer reproduce  *)
(* backtracks to exhaustion (R/outer.R:1703).                              *)
TrialsAreReproducible ==
  \A a, b \in log : (/\ a[1] = b[1] /\ a[2] = b[2]
                     /\ a[3] = b[3] /\ a[3] # NoPoint) => a[4] = b[4]

(* The incumbent is one reading: the coefficients and the structural       *)
(* parameters kept are those its value was read at, and a fit begun from   *)
(* them was once seen to end there.                                        *)
IncumbentIsOneReading ==
  s.best # NoPoint =>
    \E x \in Hyper \X BOOLEAN \X Beta \X Zeta \X Terms :
       /\ x[1] = s.best.at
       /\ Inner[x].ok /\ Inner[x].value = s.best.v
       /\ Inner[x].beta = s.best.beta /\ Inner[x].zeta = s.best.zeta

(* The barrier a point that is not available is given exceeds every        *)
(* criterion read so far, so no optimizer moves to it.                     *)
BarrierIsAbove ==
  (s.last # NoPoint /\ ~s.last.ok) =>
    \A e \in log : Finite(e[4]) => e[4] < s.last.fn

(* What is not taken leaves no trace, at each of the three levels: a trial *)
(* that is not available leaves the design, and what the next one starts   *)
(* from, as this one found them ("a step the search takes back must leave  *)
(* NO TRACE", R/outer.R:1682), the one that follows a probe turned down as *)
(* they were before the probe; a probe that is turned down leaves the      *)
(* incumbent before it, or the point reported, which is read once more     *)
(* (R/outer.R:2424); and a second search replaces the result only where it *)
(* gains.                                                                  *)
WhatIsNotTakenLeavesNoTrace ==
  [][LET from == IF pc' = "refit" THEN PutBack ELSE s IN
     /\ (pc \in {"minimize", "probe"} /\ s'.evals = s.evals + 1 /\ ~s'.last.ok)
          => /\ WarmStart(s') = WarmStart(from) /\ s'.zeta = WarmStart(from)[2]
             /\ s'.terms = s.terms
     /\ (pc \in {"probe", "minimize"} /\ pc' = "refit")
          => s'.best = keep.best \/ s'.best.at = res.v
     /\ (pc = "minimize" /\ stage \in {"retry", "rising", "edge"} /\ res' # res)
          => res'.value < last_res.value]_vars
=============================================================================
