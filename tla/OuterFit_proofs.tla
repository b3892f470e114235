--------------------------- MODULE OuterFit_proofs ---------------------------
(***************************************************************************)
(* The outer search of OuterFit for every inner fit, whatever its modes,   *)
(* and every optimizer: what a trial reads and leaves, what the incumbent  *)
(* is, and what the barrier exceeds.                                       *)
(***************************************************************************)
EXTENDS OuterFit, TLAPS

States == [beta: Beta, zeta: Zeta, terms: Terms, pinned: BOOLEAN,
           best: Incumbents \union {NoPoint}, worst: Values, evals: Nat,
           last: [v: Hyper, fn: Values, ok: BOOLEAN] \union {NoPoint}]
Entries == Hyper \X BOOLEAN \X (Incumbents \union {NoPoint}) \X Values
Saved == [best: Incumbents \union {NoPoint}, beta: Beta]

(* An incumbent is the outcome of one fit that could be read.              *)
IsReading(best) ==
  best # NoPoint =>
    \E x \in Hyper \X BOOLEAN \X Beta \X Zeta \X Terms :
       /\ x[1] = best.at
       /\ Inner[x].ok /\ Inner[x].value = best.v
       /\ Inner[x].beta = best.beta /\ Inner[x].zeta = best.zeta

(* `worst' is no less than any criterion read, the barrier of the last     *)
(* point above them all.                                                   *)
Bounds(st) ==
  /\ \A e \in log : Finite(e[4]) => Finite(st.worst) /\ e[4] <= st.worst
  /\ (st.last # NoPoint /\ ~st.last.ok) =>
       \A e \in log : Finite(e[4]) => e[4] < st.last.fn

(* What an evaluation may find.                                            *)
Sound(st) == st \in States /\ IsReading(st.best) /\ Bounds(st)

(* Every entry of the history was read from the incumbent beside it.       *)
Logs == /\ log \subseteq Entries
        /\ \A e \in log : e[3] # NoPoint =>
             \E t \in Terms :
               e[4] = Inner[<<e[1], e[2], e[3].beta, e[3].zeta, t>>].value

(* Who has a point reported, a search begun, and a probe to turn down.     *)
Probing == pc = "probe" \/ (pc = "minimize" /\ stage = "edge")
Stage ==
  /\ (pc \in {"settle", "rising", "edge", "probe", "refit", "done"}
        \/ (pc = "minimize" /\ stage # "main")) => res \in Reported
  /\ pc = "minimize" => begin \in Points
  /\ (pc = "minimize" /\ stage \in {"retry", "rising", "edge"}) => last_res = res
  /\ Probing => attempt < 3 /\ keep \in Saved /\ IsReading(keep.best)
  /\ pc = "first" => s.last = NoPoint /\ s.best = NoPoint /\ log = {}

(* What is left of the type invariant once the evaluation is dealt with.   *)
Others ==
  /\ pc \in {"first", "minimize", "settle", "rising", "edge", "probe",
             "refit", "done", "error"}
  /\ stage \in Stages
  /\ run \subseteq Points
  /\ begin \in Points \union {NoPoint}
  /\ {res, last_res} \subseteq Reported \union {NoPoint}
  /\ converged \in BOOLEAN /\ settled \in BOOLEAN
  /\ attempt \in 0 .. 3
  /\ keep \in Saved \union {NoPoint}

IInv == Others /\ Sound(s) /\ Logs /\ Stage

-----------------------------------------------------------------------------
(* Where a fit starts, and what it returns.                                *)
LEMMA FitIsAnOutcome ==
  ASSUME NEW st \in States, NEW v \in Hyper
  PROVE  /\ WarmStart(st) \in Beta \X Zeta
         /\ Fit(st, v) \in Outcome
         /\ <<v, st.pinned, WarmStart(st)[1], WarmStart(st)[2], st.terms>>
              \in Hyper \X BOOLEAN \X Beta \X Zeta \X Terms
         /\ Fit(st, v)
              = Inner[<<v, st.pinned, WarmStart(st)[1], WarmStart(st)[2], st.terms>>]
<1>1. WarmStart(st) \in Beta \X Zeta
  BY DEF States, Incumbents, WarmStart
<1>2. <<v, st.pinned, WarmStart(st)[1], WarmStart(st)[2], st.terms>>
        \in Hyper \X BOOLEAN \X Beta \X Zeta \X Terms
  BY <1>1 DEF States
<1> QED
  BY <1>1, <1>2, OuterAssumption DEF Fit

LEMMA UsableIsSound ==
  ASSUME NEW st \in States, NEW v \in Hyper, IsReading(st.best), Bounds(st), Logs,
         Fit(st, v).ok, ~Cached(st, v),
         s' = Usable(st, v), log' = log \union Logged(st, v)
  PROVE  Sound(s)' /\ Logs'
<1> DEFINE r == Fit(st, v)
           x == <<v, st.pinned, WarmStart(st)[1], WarmStart(st)[2], st.terms>>
           new == <<v, st.pinned, st.best, r.value>>
<1>1. r \in Outcome /\ r = Inner[x] /\ x \in Hyper \X BOOLEAN \X Beta \X Zeta \X Terms
  BY FitIsAnOutcome
<1>2. /\ r.beta \in Beta /\ r.zeta \in Zeta /\ r.terms \in Terms
      /\ r.value \in Values /\ r.ok
  BY <1>1 DEF Outcome
<1>3. log' = log \union {new}
  BY DEF Logged
<1>4. /\ s'.beta = r.beta /\ s'.zeta = r.zeta /\ s'.terms = r.terms
      /\ s'.pinned = st.pinned /\ s'.best = Incumbent(st, v, r)
      /\ s'.worst = Worst(st.worst, r.value) /\ s'.evals = st.evals + 1
      /\ s'.last = [v |-> v, fn |-> r.value, ok |-> TRUE]
  BY DEF Usable, States
<1>5. s' \in States
  <2>1. s'.best \in Incumbents \union {NoPoint}
    BY <1>2, <1>4 DEF Incumbent, Incumbents, States, Finite, Values
  <2>2. s'.worst \in Values
    BY <1>2, <1>4 DEF Worst, States
  <2>3. s'.last \in [v: Hyper, fn: Values, ok: BOOLEAN]
    BY <1>2, <1>4
  <2> QED
    <3>1. s' = [beta |-> s'.beta, zeta |-> s'.zeta, terms |-> s'.terms,
                pinned |-> s'.pinned, best |-> s'.best, worst |-> s'.worst,
                evals |-> s'.evals, last |-> s'.last]
      BY DEF Usable, States
    <3>2. /\ s'.beta \in Beta /\ s'.zeta \in Zeta /\ s'.terms \in Terms
          /\ s'.pinned \in BOOLEAN /\ s'.evals \in Nat
      BY <1>2, <1>4 DEF States
    <3> HIDE DEF r, x, new
    <3> QED
      BY <2>1, <2>2, <2>3, <3>1, <3>2 DEF States
<1>6. IsReading(s.best)'
  <2>1. CASE s'.best = st.best
    BY <2>1 DEF IsReading
  <2>2. CASE s'.best # st.best
    <3>1. s'.best = [v |-> r.value, at |-> v, beta |-> r.beta, zeta |-> r.zeta]
      BY <1>4, <2>2 DEF Incumbent
    <3>2. x[1] = s'.best.at /\ Inner[x].ok /\ Inner[x].value = s'.best.v
            /\ Inner[x].beta = s'.best.beta /\ Inner[x].zeta = s'.best.zeta
      BY <1>1, <1>2, <3>1
    <3> QED
      BY <1>1, <3>2 DEF IsReading
  <2> QED
    BY <2>1, <2>2
<1>7. Bounds(s)'
  <2>1. ASSUME NEW e \in log', Finite(e[4])
        PROVE  Finite(s'.worst) /\ e[4] <= s'.worst
    <3>1. e[4] \in Values /\ st.worst \in Values
      BY <1>2, <1>3 DEF Logs, Entries, States
    <3>2. CASE e \in log
      <4>1. Finite(st.worst) /\ e[4] <= st.worst
        BY <2>1, <3>2 DEF Bounds
      <4> QED
        BY <1>2, <1>4, <2>1, <3>1, <4>1 DEF Worst, Values, Finite
    <3>3. CASE e = new
      BY <1>2, <1>4, <2>1, <3>1, <3>3 DEF Worst, Values, Finite
    <3> QED
      BY <1>3, <3>2, <3>3
  <2>2. s'.last.ok
    BY <1>4
  <2> QED
    BY <2>1, <2>2 DEF Bounds
<1>8. Logs'
  <2>1. new \in Entries
    BY <1>2 DEF Entries, States
  <2>2. st.best # NoPoint =>
          r.value = Inner[<<v, st.pinned, st.best.beta, st.best.zeta, st.terms>>].value
    BY <1>1 DEF WarmStart
  <2>3. st.terms \in Terms
    BY DEF States
  <2> QED
    BY <1>3, <2>1, <2>2, <2>3 DEF Logs
<1> QED
  BY <1>5, <1>6, <1>7, <1>8 DEF Sound

(* The barrier is an integer, and above what `worst' is above.             *)
LEMMA BarrierType == ASSUME NEW u \in Values PROVE Barrier(u) \in Int
  BY OuterAssumption DEF Barrier, Values

LEMMA UnavailableIsSound ==
  ASSUME NEW st \in States, NEW v \in Hyper, IsReading(st.best), Bounds(st), Logs,
         ~Fit(st, v).ok, ~Cached(st, v),
         s' = Unavailable(st, v), log' = log \union Logged(st, v)
  PROVE  Sound(s)' /\ Logs'
<1>1. log' = log
  BY DEF Logged
<1>2. /\ s'.beta = st.beta /\ s'.zeta = WarmStart(st)[2]
      /\ s'.terms = Fit(st, v).terms /\ s'.pinned = st.pinned
      /\ s'.best = st.best /\ s'.worst = st.worst /\ s'.evals = st.evals + 1
      /\ s'.last = [v |-> v, fn |-> Barrier(st.worst), ok |-> FALSE]
  BY DEF Unavailable, States
<1>3. s' \in States
  <2>1. WarmStart(st)[2] \in Zeta /\ Fit(st, v).terms \in Terms
    BY FitIsAnOutcome DEF Outcome
  <2>2. Barrier(st.worst) \in Values
    BY BarrierType DEF States, Values
  <2> QED
    <3>1. s' = [beta |-> s'.beta, zeta |-> s'.zeta, terms |-> s'.terms,
                pinned |-> s'.pinned, best |-> s'.best, worst |-> s'.worst,
                evals |-> s'.evals, last |-> s'.last]
      BY DEF Unavailable, States
    <3>2. /\ s'.beta \in Beta /\ s'.zeta \in Zeta /\ s'.terms \in Terms
          /\ s'.pinned \in BOOLEAN /\ s'.evals \in Nat
          /\ s'.best \in Incumbents \union {NoPoint} /\ s'.worst \in Values
      BY <1>2, <2>1 DEF States
    <3>3. s'.last \in [v: Hyper, fn: Values, ok: BOOLEAN]
      BY <1>2, <2>2
    <3> QED
      BY <3>1, <3>2, <3>3 DEF States
<1>4. Bounds(s)'
  <2>1. ASSUME NEW e \in log, Finite(e[4])
        PROVE  Finite(st.worst) /\ e[4] <= st.worst /\ e[4] < Barrier(st.worst)
    <3>1. Finite(st.worst) /\ e[4] <= st.worst
      BY <2>1 DEF Bounds
    <3>2. e[4] \in Int /\ st.worst \in Int
      BY <2>1, <3>1 DEF Logs, Entries, States, Values, Finite
    <3> QED
      BY <3>1, <3>2 DEF Barrier, Finite
  <2> QED
    BY <1>1, <1>2, <2>1 DEF Bounds
<1>5. IsReading(s.best)' /\ Logs'
  BY <1>1, <1>2 DEF IsReading, Logs
<1> QED
  BY <1>3, <1>4, <1>5 DEF Sound

(* Every evaluation, from the design as it is or from one put back, leaves *)
(* a design that the next one may start from, and a last point.            *)
LEMMA EvalIsSound ==
  ASSUME NEW st, NEW v \in Hyper, Sound(st), Logs,
         s' = Evaluate(st, v), log' = log \union Logged(st, v)
  PROVE  Sound(s)' /\ Logs' /\ s'.last.fn \in Values
<1>1. CASE Cached(st, v)
  <2>1. s' = st /\ log' = log
    BY <1>1 DEF Evaluate, Logged
  <2>2. st.last \in [v: Hyper, fn: Values, ok: BOOLEAN]
    BY <1>1 DEF Cached, Sound, States
  <2> QED
    BY <2>1, <2>2 DEF Sound, Bounds, IsReading, Logs
<1>2. CASE ~Cached(st, v) /\ Fit(st, v).ok
  <2>1. s' = Usable(st, v)
    BY <1>2 DEF Evaluate
  <2>2. Sound(s)' /\ Logs'
    BY <1>2, <2>1, UsableIsSound DEF Sound
  <2>3. s'.last.fn = Fit(st, v).value
    BY <2>1 DEF Usable, Sound, States
  <2> QED
    BY <2>2, <2>3, FitIsAnOutcome DEF Sound, Outcome
<1>3. CASE ~Cached(st, v) /\ ~Fit(st, v).ok
  <2>1. s' = Unavailable(st, v)
    BY <1>3 DEF Evaluate
  <2>2. Sound(s)' /\ Logs'
    BY <1>3, <2>1, UnavailableIsSound DEF Sound
  <2>3. s'.last.fn = Barrier(st.worst)
    BY <2>1 DEF Unavailable, Sound, States
  <2> QED
    BY <2>2, <2>3, BarrierType DEF Sound, States, Values
<1> QED
  BY <1>1, <1>2, <1>3

(* An action evaluates once, in the state `st', or not at all.             *)
LEMMA Evaluated ==
  ASSUME IInv, NEW st, Sound(st), NEW v \in Hyper, Eval(st, v)
  PROVE  Sound(s)' /\ Logs' /\ [v |-> v, value |-> s'.last.fn] \in Points
<1>1. s' = Evaluate(st, v) /\ log' = log \union Logged(st, v) /\ Logs
  BY DEF Eval, IInv
<1>2. Sound(s)' /\ Logs' /\ s'.last.fn \in Values
  BY <1>1, EvalIsSound
<1> QED
  BY <1>2 DEF Points

LEMMA NotEvaluated == ASSUME IInv, NoEval PROVE Sound(s)' /\ Logs'
  BY DEF NoEval, IInv, Sound, Bounds, Logs

LEMMA Begun ==
  ASSUME IInv, NEW st, Sound(st), NEW v \in Hyper, NEW what, Begin(st, v, what)
  PROVE  /\ Sound(s)' /\ Logs'
         /\ begin' \in Points /\ run' \subseteq Points
         /\ pc' = "minimize" /\ stage' = what /\ last_res' = res
  BY Evaluated DEF Begin

LEMMA Parts == IInv <=> Others /\ Sound(s) /\ Logs /\ Stage
  BY DEF IInv

LEMMA PartsNext == IInv' <=> Others' /\ Sound(s)' /\ Logs' /\ Stage'
  BY DEF IInv

LEMMA InitHolds == Init => IInv
<1> SUFFICES ASSUME Init PROVE IInv
  OBVIOUS
<1>1. s \in States /\ s.best = NoPoint /\ s.last = NoPoint
  <2>1. {FALSE} \subseteq BOOLEAN /\ {NonFinite} \subseteq Values /\ {0} \subseteq Nat
    BY DEF Values
  <2> QED
    BY <2>1 DEF Init, States
<1>2. Sound(s) /\ Logs
  BY <1>1 DEF Init, Sound, IsReading, Bounds, Logs
<1>3. Others
  <2>1. converged \in BOOLEAN /\ settled \in BOOLEAN
    BY DEF Init
  <2>2. stage \in Stages /\ 0 \in 0 .. 3
    BY DEF Init, Stages
  <2> QED
    BY <2>1, <2>2 DEF Init, Others
<1>4. Stage
  BY <1>1 DEF Init, Stage, Probing, IsReading, Saved
<1> QED
  BY <1>2, <1>3, <1>4, Parts

LEMMA FieldsReplaced ==
  ASSUME NEW B, NEW Z, NEW T, NEW P, NEW I, NEW V, NEW N, NEW L,
         NEW st \in [beta: B, zeta: Z, terms: T, pinned: P, best: I, worst: V,
                    evals: N, last: L],
         NEW p \in P, NEW z \in Z, NEW t \in T
  PROVE  LET n == [st EXCEPT !.pinned = p, !.zeta = z, !.terms = t]
         IN  /\ n \in [beta: B, zeta: Z, terms: T, pinned: P, best: I, worst: V,
                       evals: N, last: L]
             /\ n.best = st.best /\ n.last = st.last /\ n.worst = st.worst
  OBVIOUS

LEMMA PinnedState ==
  ASSUME NEW st \in States, NEW z \in Zeta, NEW t \in Terms
  PROVE  LET n == [st EXCEPT !.pinned = TRUE, !.zeta = z, !.terms = t]
         IN  n \in States /\ n.best = st.best /\ n.last = st.last /\ n.worst = st.worst
<1>1. TRUE \in BOOLEAN
  OBVIOUS
<1> QED
  BY <1>1, FieldsReplaced, Zenon DEF States

(* The first evaluation may be made a second time, with the flat           *)
(* directions left out, in a design whose structural parameters moved.     *)
LEMMA FirstHolds == IInv /\ First => IInv'
<1> SUFFICES ASSUME IInv, First PROVE IInv'
  OBVIOUS
<1> DEFINE again == [s EXCEPT !.pinned = TRUE, !.zeta = Fit(s, Start).zeta,
                              !.terms = Fit(s, Start).terms]
<1>1. Start \in Hyper /\ s \in States
  BY OuterAssumption DEF IInv, Sound
<1>2. Sound(again)
  <2>1. Fit(s, Start).zeta \in Zeta /\ Fit(s, Start).terms \in Terms
    BY <1>1, FitIsAnOutcome DEF Outcome
  <2>2. /\ again \in States /\ again.best = s.best
        /\ again.last = s.last /\ again.worst = s.worst
    BY <1>1, <2>1, PinnedState, ZenonT(60)
  <2> HIDE DEF again
  <2> QED
    BY <2>2 DEF IInv, Sound, IsReading, Bounds
<1>3. Begin(s, Start, "main") \/ Begin(again, Start, "main")
  BY DEF First
<1>4. /\ Sound(s)' /\ Logs' /\ begin' \in Points /\ run' \subseteq Points
      /\ pc' = "minimize" /\ stage' = "main" /\ last_res' = res
  <2> HIDE DEF again
  <2> QED
    BY <1>1, <1>2, <1>3, Begun, "main" \in Stages DEF IInv, Stages
<1>5. UNCHANGED <<res, converged, settled, attempt, keep>>
  BY DEF First
<1>6. Others'
  BY <1>4, <1>5, Parts DEF Others, Stages
<1>7. Stage'
  BY <1>4 DEF Stage, Probing
<1> QED
  BY <1>4, <1>6, <1>7, PartsNext

LEMMA TrialHolds == IInv /\ Trial => IInv'
<1> SUFFICES ASSUME IInv, Trial PROVE IInv'
  OBVIOUS
<1>1. PICK v \in Hyper : /\ Eval(s, v)
                         /\ run' = run \union {[v |-> v, value |-> s'.last.fn]}
  BY DEF Trial
<1>2. Sound(s)' /\ Logs' /\ run' \subseteq Points
  BY <1>1, Evaluated DEF IInv, Others
<1>3. pc \in {"minimize", "probe"}
      /\ UNCHANGED <<pc, stage, begin, res, converged, settled, attempt, keep, last_res>>
  BY DEF Trial
<1>4. Others'
  BY <1>2, <1>3, Parts DEF Others
<1>5. Stage'
  BY <1>3 DEF IInv, Stage, Probing, IsReading
<1> QED
  BY <1>2, <1>4, <1>5, PartsNext

(* What a search reports is a point with an integral criterion.            *)
LEMMA ReportedPoint ==
  ASSUME IInv, NEW r \in run, Finite(r.value) PROVE r \in Reported
<1>1. r \in Points
  BY DEF IInv, Others
<1> QED
  BY <1>1 DEF Points, Reported, Values, Finite

LEMMA MainDoneHolds == IInv /\ MainDone => IInv'
<1> SUFFICES ASSUME IInv, MainDone PROVE IInv'
  OBVIOUS
<1>1. res' \in Reported
  BY ReportedPoint DEF MainDone, Reports
<1>2. converged' \in BOOLEAN /\ UNCHANGED <<settled, attempt, keep>>
  BY DEF MainDone
<1>3. CASE pc' = "settle" /\ UNCHANGED <<stage, begin, run, last_res>> /\ NoEval
  <2>1. Sound(s)' /\ Logs'
    BY <1>3, NotEvaluated
  <2>2. Others' /\ Stage'
    BY <1>1, <1>2, <1>3, Parts DEF Others, Stage, Probing
  <2> QED
    BY <2>1, <2>2, PartsNext
<1>4. ASSUME NEW v \in Hyper, Eval(s, v), run' = {begin'},
             begin' = [v |-> v, value |-> s'.last.fn],
             stage' = "box", last_res' = res', UNCHANGED pc
      PROVE  IInv'
  <2>1. Sound(s)' /\ Logs' /\ begin' \in Points
    BY <1>4, Evaluated DEF IInv
  <2>2. Others' /\ Stage'
    BY <1>1, <1>2, <1>4, <2>1, Parts DEF MainDone, Others, Stage, Probing, Stages
  <2> QED
    BY <2>1, <2>2, PartsNext
<1> QED
  BY <1>3, <1>4 DEF MainDone

LEMMA BoxDoneHolds == IInv /\ BoxDone => IInv'
<1> SUFFICES ASSUME IInv, BoxDone PROVE IInv'
  OBVIOUS
<1>1. /\ pc = "minimize" /\ stage = "box" /\ pc' = "settle"
      /\ UNCHANGED <<stage, s, run, begin, settled, attempt, keep, log, last_res>>
  BY DEF BoxDone
<1>2. res' \in Reported /\ converged' \in BOOLEAN
  <2>1. CASE UNCHANGED <<res, converged>>
    BY <1>1, <2>1 DEF IInv, Others, Stage
  <2>2. CASE (\E r \in run : Reports(r) /\ res' = r) /\ converged' \in BOOLEAN
    BY <2>2, ReportedPoint DEF Reports
  <2> QED
    BY <2>1, <2>2 DEF BoxDone
<1>3. Sound(s)' /\ Logs'
  BY <1>1, NotEvaluated DEF NoEval
<1>4. Others' /\ Stage'
  BY <1>1, <1>2, Parts DEF Others, Stage, Probing
<1> QED
  BY <1>3, <1>4, PartsNext

LEMMA SettleHolds == IInv /\ Settle => IInv'
<1> SUFFICES ASSUME IInv, Settle PROVE IInv'
  OBVIOUS
<1>1. /\ pc = "settle" /\ pc' = "rising" /\ attempt' = 0
      /\ UNCHANGED <<stage, run, begin, res, keep, last_res>>
  BY DEF Settle
<1>2. res \in Reported /\ res.v \in Hyper
  BY <1>1 DEF IInv, Stage, Reported
<1>3. converged' \in BOOLEAN /\ settled' \in BOOLEAN
  BY DEF Settle, IInv, Others
<1>4. Sound(s)' /\ Logs'
  BY <1>2, Evaluated, NotEvaluated DEF Settle, IInv
<1>5. Others' /\ Stage'
  BY <1>1, <1>2, <1>3, Parts DEF Others, Stage, Probing
<1> QED
  BY <1>4, <1>5, PartsNext

LEMMA RetryHolds == IInv /\ Retry => IInv'
<1> SUFFICES ASSUME IInv, Retry PROVE IInv'
  OBVIOUS
<1>1. Begin(s, Start, "retry") /\ UNCHANGED <<res, converged, settled, attempt, keep>>
  BY DEF Retry
<1>2. /\ Sound(s)' /\ Logs' /\ begin' \in Points /\ run' \subseteq Points
      /\ pc' = "minimize" /\ stage' = "retry" /\ last_res' = res
  BY <1>1, Begun, OuterAssumption DEF IInv
<1>3. res \in Reported
  BY DEF Retry, IInv, Stage
<1>4. Others' /\ Stage'
  BY <1>1, <1>2, <1>3, Parts DEF Others, Stage, Probing, Stages
<1> QED
  BY <1>2, <1>4, PartsNext

LEMMA RetryDoneHolds == IInv /\ RetryDone => IInv'
<1> SUFFICES ASSUME IInv, RetryDone PROVE IInv'
  OBVIOUS
<1>1. /\ pc = "minimize" /\ stage = "retry" /\ pc' \in {"settle", "rising"}
      /\ UNCHANGED <<stage, s, run, begin, settled, attempt, keep, log, last_res>>
  BY DEF RetryDone
<1>2. res' \in Reported /\ converged' \in BOOLEAN
  <2>1. CASE UNCHANGED <<res, converged>>
    BY <1>1, <2>1 DEF IInv, Others, Stage
  <2>2. CASE (\E r \in run : Reports(r) /\ res' = r) /\ converged' \in BOOLEAN
    BY <2>2, ReportedPoint DEF Reports
  <2> QED
    BY <2>1, <2>2 DEF RetryDone
<1>3. Sound(s)' /\ Logs'
  BY <1>1, NotEvaluated DEF NoEval
<1>4. Others' /\ Stage'
  BY <1>1, <1>2, Parts DEF Others, Stage, Probing
<1> QED
  BY <1>3, <1>4, PartsNext

LEMMA RisingHolds == IInv /\ Rising => IInv'
<1> SUFFICES ASSUME IInv, Rising PROVE IInv'
  OBVIOUS
<1>1. /\ Begin(s, res.v, "rising") /\ attempt < 3 /\ attempt' = attempt + 1
      /\ UNCHANGED <<res, converged, settled, keep>>
  BY DEF Rising
<1>2. res \in Reported /\ res.v \in Hyper
  BY DEF Rising, IInv, Stage, Reported
<1>3. /\ Sound(s)' /\ Logs' /\ begin' \in Points /\ run' \subseteq Points
      /\ pc' = "minimize" /\ stage' = "rising" /\ last_res' = res
  BY <1>1, <1>2, Begun DEF IInv
<1>4. Others' /\ Stage'
  BY <1>1, <1>2, <1>3, Parts DEF Others, Stage, Probing, Stages
<1> QED
  BY <1>3, <1>4, PartsNext

LEMMA RisingDoneHolds == IInv /\ RisingDone => IInv'
<1> SUFFICES ASSUME IInv, RisingDone PROVE IInv'
  OBVIOUS
<1>1. /\ pc = "minimize" /\ stage = "rising" /\ pc' \in {"rising", "edge"}
      /\ UNCHANGED <<stage, run, begin, keep, last_res>>
      /\ attempt' \in {attempt, 0}
  BY DEF RisingDone
<1>2. res \in Reported /\ res.v \in Hyper
  BY <1>1 DEF IInv, Stage, Reported
<1>3. res' \in Reported
  BY <1>2, ReportedPoint DEF RisingDone, Reports
<1>4. converged' \in BOOLEAN /\ settled' \in BOOLEAN
  BY DEF RisingDone, IInv, Others
<1>5. Sound(s)' /\ Logs'
  BY <1>2, Evaluated, NotEvaluated DEF RisingDone, IInv
<1>6. Others' /\ Stage'
  BY <1>1, <1>3, <1>4, Parts DEF Others, Stage, Probing
<1> QED
  BY <1>5, <1>6, PartsNext

LEMMA NotRisingHolds == IInv /\ NotRising => IInv'
<1> SUFFICES ASSUME IInv, NotRising PROVE IInv'
  OBVIOUS
<1>1. /\ pc = "rising" /\ pc' = "edge" /\ attempt' = 0
      /\ UNCHANGED <<stage, run, begin, res, converged, settled, keep, last_res>>
  BY DEF NotRising
<1>2. res \in Reported /\ res.v \in Hyper
  BY <1>1 DEF IInv, Stage, Reported
<1>3. Sound(s)' /\ Logs'
  BY <1>2, Evaluated, NotEvaluated DEF NotRising, IInv
<1>4. Others' /\ Stage'
  BY <1>1, <1>2, Parts DEF Others, Stage, Probing
<1> QED
  BY <1>3, <1>4, PartsNext

LEMMA ProbeHolds == IInv /\ Probe => IInv'
<1> SUFFICES ASSUME IInv, Probe PROVE IInv'
  OBVIOUS
<1>1. /\ pc = "edge" /\ attempt < 3 /\ keep' = [best |-> s.best, beta |-> s.beta]
      /\ run' = {} /\ last_res' = res /\ pc' = "probe"
      /\ UNCHANGED <<stage, s, begin, res, converged, settled, attempt, log>>
  BY DEF Probe
<1>2. keep' \in Saved /\ keep'.best = s.best
  BY <1>1 DEF IInv, Sound, States, Saved
<1>3. IsReading(keep'.best)
  BY <1>2 DEF IInv, Sound
<1>4. Sound(s)' /\ Logs'
  BY <1>1, NotEvaluated DEF NoEval
<1>5. Others'
  BY <1>1, <1>2, Parts DEF Others
<1>6. Stage'
  BY <1>1, <1>2, <1>3 DEF IInv, Stage, Probing, IsReading
<1> QED
  BY <1>4, <1>5, <1>6, PartsNext

(* What a probe that is turned down goes back to.                          *)
LEMMA PutBackIsSound == ASSUME IInv, Probing PROVE Sound(PutBack)
<1>1. s \in States /\ keep \in Saved /\ IsReading(keep.best)
  BY DEF IInv, Sound, Stage
<1>2. /\ PutBack \in States /\ PutBack.best = keep.best
      /\ PutBack.last = s.last /\ PutBack.worst = s.worst
  BY <1>1 DEF PutBack, States, Saved
<1> QED
  BY <1>1, <1>2 DEF IInv, Sound, Bounds

LEMMA TurnDownHolds == ASSUME IInv, Probing, TurnDown, UNCHANGED keep PROVE IInv'
<1>1. /\ pc' = "refit" /\ Eval(PutBack, res.v)
      /\ UNCHANGED <<stage, run, begin, res, converged, settled, attempt, last_res, keep>>
  BY DEF TurnDown
<1>2. res \in Reported /\ res.v \in Hyper
  BY DEF IInv, Stage, Probing, Reported
<1>3. Sound(s)' /\ Logs'
  BY <1>1, <1>2, Evaluated, PutBackIsSound
<1>4. Others' /\ Stage'
  BY <1>1, <1>2, Parts DEF Others, Stage, Probing
<1> QED
  BY <1>3, <1>4, PartsNext

LEMMA ProbeGainsHolds == IInv /\ ProbeGains => IInv'
<1> SUFFICES ASSUME IInv, ProbeGains PROVE IInv'
  OBVIOUS
<1>1. PICK r \in run : Begin(s, r.v, "edge")
  BY DEF ProbeGains
<1>2. r.v \in Hyper
  BY DEF IInv, Others, Points
<1>3. /\ Sound(s)' /\ Logs' /\ begin' \in Points /\ run' \subseteq Points
      /\ pc' = "minimize" /\ stage' = "edge" /\ last_res' = res
  BY <1>1, <1>2, Begun DEF IInv
<1>4. /\ pc = "probe" /\ UNCHANGED <<res, converged, settled, attempt, keep>>
  BY DEF ProbeGains
<1>5. Others'
  BY <1>3, <1>4, Parts DEF Others, Stages
<1>6. Stage'
  BY <1>3, <1>4 DEF IInv, Stage, Probing, IsReading
<1> QED
  BY <1>3, <1>5, <1>6, PartsNext

LEMMA EdgeDoneHolds == IInv /\ EdgeDone => IInv'
<1> SUFFICES ASSUME IInv, EdgeDone PROVE IInv'
  OBVIOUS
<1>1. CASE TurnDown /\ UNCHANGED keep
  BY <1>1, TurnDownHolds DEF EdgeDone, Probing
<1>2. CASE ~(TurnDown /\ UNCHANGED keep)
  <2>1. /\ pc = "minimize" /\ stage = "edge" /\ pc' = "edge" /\ attempt' = attempt + 1
        /\ UNCHANGED <<stage, run, begin, keep, last_res>>
    BY <1>2 DEF EdgeDone
  <2>2. res' \in Reported /\ res'.v \in Hyper
    BY <1>2, ReportedPoint DEF EdgeDone, Reports, Reported
  <2>3. converged' \in BOOLEAN /\ settled' \in BOOLEAN
    BY <1>2 DEF EdgeDone
  <2>4. Sound(s)' /\ Logs'
    <3>1. NoEval \/ Eval(s, res'.v)
      BY <1>2 DEF EdgeDone
    <3> QED
      BY <2>2, <3>1, Evaluated, NotEvaluated DEF IInv
  <2>5. attempt' \in 0 .. 3
    BY <2>1 DEF IInv, Others, Stage, Probing
  <2>6. Others' /\ Stage'
    BY <2>1, <2>2, <2>3, <2>5, Parts DEF Others, Stage, Probing
  <2> QED
    BY <2>4, <2>6, PartsNext
<1> QED
  BY <1>1, <1>2

LEMMA RefitHolds == IInv /\ Refit => IInv'
<1> SUFFICES ASSUME IInv, Refit PROVE IInv'
  OBVIOUS
<1> DEFINE r == Fit(s, res.v)
<1>1. /\ pc = "refit" /\ pc' = "done" /\ s' = [s EXCEPT !.zeta = r.zeta, !.terms = r.terms]
      /\ UNCHANGED <<stage, run, begin, res, attempt, keep, log, last_res>>
  BY DEF Refit
<1>2. res \in Reported /\ res.v \in Hyper /\ s \in States
  BY <1>1 DEF IInv, Stage, Reported, Sound
<1>3. r.zeta \in Zeta /\ r.terms \in Terms
  BY <1>2, FitIsAnOutcome DEF Outcome
<1>4. /\ s' \in States /\ s'.best = s.best /\ s'.last = s.last /\ s'.worst = s.worst
  <2> HIDE DEF r
  <2> QED
    BY <1>1, <1>2, <1>3 DEF States
<1>5. Sound(s)' /\ Logs'
  BY <1>1, <1>4 DEF IInv, Sound, IsReading, Bounds, Logs
<1>6. converged' \in BOOLEAN /\ settled' \in BOOLEAN
  BY DEF Refit
<1>7. Others' /\ Stage'
  BY <1>1, <1>2, <1>6, Parts DEF Others, Stage, Probing
<1> QED
  BY <1>5, <1>7, PartsNext

LEMMA StepHolds == IInv /\ [Next]_vars => IInv'
<1> SUFFICES ASSUME IInv, [Next]_vars PROVE IInv'
  OBVIOUS
<1>1. CASE First
  BY <1>1, FirstHolds
<1>2. ASSUME UNCHANGED <<stage, s, run, begin, res, converged, settled, attempt,
                         keep, log, last_res>>,
             \/ pc' = "error"
             \/ pc = "edge" /\ pc' = "refit"
             \/ UNCHANGED pc
      PROVE  IInv'
  <2>1. Sound(s)' /\ Logs'
    BY <1>2, NotEvaluated DEF NoEval
  <2>2. Others'
    BY <1>2, Parts DEF Others
  <2>3. Stage'
    BY <1>2 DEF IInv, Stage, Probing, IsReading
  <2> QED
    BY <2>1, <2>2, <2>3, PartsNext
<1>3. CASE FirstRaises \/ MainRaises \/ NoEdge \/ UNCHANGED vars
  BY <1>2, <1>3 DEF FirstRaises, MainRaises, NoEdge, vars
<1>4. CASE Trial \/ MainDone \/ BoxDone \/ Settle
  BY <1>4, TrialHolds, MainDoneHolds, BoxDoneHolds, SettleHolds
<1>5. CASE Retry \/ RetryDone \/ Rising \/ RisingDone \/ NotRising
  BY <1>5, RetryHolds, RetryDoneHolds, RisingHolds, RisingDoneHolds, NotRisingHolds
<1>6. CASE Probe \/ ProbeGains \/ EdgeDone \/ Refit
  BY <1>6, ProbeHolds, ProbeGainsHolds, EdgeDoneHolds, RefitHolds
<1>7. CASE ProbeFails
  BY <1>7, TurnDownHolds DEF ProbeFails, Probing
<1> QED
  BY <1>1, <1>3, <1>4, <1>5, <1>6, <1>7 DEF Next

LEMMA Invariance == Spec => []IInv
  BY InitHolds, StepHolds, PTL DEF Spec

(* The criterion returned is one a fit can have, or none.                  *)
Read == criterion \in Values \union {NoPoint}

LEMMA InitIsRead == Init => Read
  BY DEF Init, Read

LEMMA StepIsRead == IInv /\ Read /\ [Next]_vars => Read'
<1> SUFFICES ASSUME IInv, Read, [Next]_vars PROVE Read'
  OBVIOUS
<1>1. CASE Refit
  <2> DEFINE r == Fit(s, res.v)
  <2>1. res.v \in Hyper /\ s \in States
    BY <1>1 DEF Refit, IInv, Stage, Reported, Sound
  <2>2. r.value \in Values
    BY <2>1, FitIsAnOutcome DEF Outcome
  <2>3. criterion' \in {r.value, NoPoint}
    BY <1>1 DEF Refit
  <2> QED
    BY <2>2, <2>3 DEF Read
<1>2. CASE ~Refit
  <2>1. criterion' = criterion
    BY <1>2 DEF Next, vars, First, FirstRaises, Trial, MainDone, MainRaises, BoxDone,
                Settle, Retry, RetryDone, Rising, RisingDone, NotRising, Probe,
                ProbeFails, ProbeGains, EdgeDone, TurnDown, NoEdge
  <2> QED
    BY <2>1 DEF Read
<1> QED
  BY <1>1, <1>2

-----------------------------------------------------------------------------
(* No term of the model is moved through its Jacobian.                     *)
NoMovedTerms == \A t, u \in Terms : t = u

LEMMA OneTermReproduces == ASSUME NoMovedTerms, IInv PROVE TrialsAreReproducible
<1> SUFFICES ASSUME NEW a \in log, NEW b \in log,
                    a[1] = b[1], a[2] = b[2], a[3] = b[3], a[3] # NoPoint
             PROVE  a[4] = b[4]
  BY DEF TrialsAreReproducible
<1>1. PICK t \in Terms : a[4] = Inner[<<a[1], a[2], a[3].beta, a[3].zeta, t>>].value
  BY DEF IInv, Logs
<1>2. PICK u \in Terms : b[4] = Inner[<<b[1], b[2], b[3].beta, b[3].zeta, u>>].value
  BY DEF IInv, Logs
<1> QED
  BY <1>1, <1>2 DEF NoMovedTerms

(* A trial that is not available leaves what the next one starts from.     *)
LEMMA UnavailableLeaves ==
  ASSUME NoMovedTerms, IInv, NEW st, Sound(st), NEW v \in Hyper, Eval(st, v),
         st.evals = s.evals, s'.evals = s.evals + 1, ~s'.last.ok
  PROVE  WarmStart(s') = WarmStart(st) /\ s'.zeta = WarmStart(st)[2] /\ s'.terms = s.terms
<1>1. st \in States /\ s \in States /\ s.evals \in Nat /\ s' = Evaluate(st, v)
  BY DEF IInv, Sound, States, Eval
<1>2. ~Cached(st, v) /\ ~Fit(st, v).ok
  <2>1. CASE Cached(st, v)
    BY <1>1, <2>1 DEF Evaluate
  <2>2. CASE ~Cached(st, v) /\ Fit(st, v).ok
    BY <1>1, <2>2 DEF Evaluate, Usable, States
  <2> QED
    BY <2>1, <2>2
<1>3. s' = Unavailable(st, v)
  BY <1>1, <1>2 DEF Evaluate
<1>4. s'.best = st.best /\ s'.beta = st.beta /\ s'.zeta = WarmStart(st)[2]
  BY <1>1, <1>3 DEF Unavailable, States
<1>5. WarmStart(s') = WarmStart(st)
  BY <1>4 DEF WarmStart
<1>6. s'.terms \in Terms /\ s.terms \in Terms
  <2>1. s'.terms = Fit(st, v).terms
    BY <1>1, <1>3 DEF Unavailable, States
  <2> QED
    BY <1>1, <2>1, FitIsAnOutcome DEF States, Outcome
<1> QED
  BY <1>4, <1>5, <1>6 DEF NoMovedTerms

(* The incumbent after a probe that was turned down.                       *)
LEMMA TurnedDownIncumbent ==
  ASSUME IInv, Probing, TurnDown
  PROVE  s'.best = keep.best \/ s'.best.at = res.v
<1> DEFINE r == Fit(PutBack, res.v)
<1>1. PutBack \in States /\ PutBack.best = keep.best
  BY PutBackIsSound DEF Sound, IInv, PutBack, States
<1>2. s' = Evaluate(PutBack, res.v)
  BY DEF TurnDown, Eval
<1>3. CASE s' = PutBack
  BY <1>1, <1>3
<1>4. CASE s' = Unavailable(PutBack, res.v)
  BY <1>1, <1>4 DEF Unavailable, States
<1>5. CASE s' = Usable(PutBack, res.v)
  <2>1. s'.best = Incumbent(PutBack, res.v, r)
    BY <1>1, <1>5 DEF Usable, States
  <2>2. s'.best = PutBack.best
          \/ s'.best = [v |-> r.value, at |-> res.v, beta |-> r.beta, zeta |-> r.zeta]
    BY <2>1 DEF Incumbent
  <2> QED
    BY <1>1, <2>2
<1> QED
  BY <1>2, <1>3, <1>4, <1>5 DEF Evaluate

(* A second search replaces the result only where it gains.                *)
LEMMA SecondSearchGains ==
  ASSUME IInv, Next, pc = "minimize", stage \in {"retry", "rising", "edge"}, res' # res
  PROVE  res'.value < last_res.value
<1>1. last_res = res /\ res \in Reported /\ Limit \in Nat
  BY OuterAssumption DEF IInv, Stage
<1>2. RetryDone \/ RisingDone \/ EdgeDone
  <2>1. CASE First \/ FirstRaises \/ Settle \/ Retry \/ Rising \/ NotRising \/ Probe
             \/ ProbeFails \/ ProbeGains \/ NoEdge \/ Refit
    BY <2>1 DEF First, FirstRaises, Settle, Retry, Rising, NotRising, Probe, ProbeFails,
                ProbeGains, NoEdge, Refit
  <2>2. CASE Trial \/ MainDone \/ MainRaises \/ BoxDone
    BY <2>2 DEF Trial, MainDone, MainRaises, BoxDone
  <2> QED
    BY <2>1, <2>2 DEF Next
<1>3. PICK r \in run : /\ Finite(r.value) /\ res' = r
                       /\ Gains(r, 0) \/ Gains(r, Limit)
  BY <1>2 DEF RetryDone, RisingDone, EdgeDone, TurnDown, Reports
<1>4. r \in Reported
  BY <1>3, ReportedPoint
<1> QED
  BY <1>1, <1>3, <1>4 DEF Gains, Reported

LEMMA NoTrace ==
  ASSUME NoMovedTerms, IInv, Next
  PROVE  LET from == IF pc' = "refit" THEN PutBack ELSE s IN
         /\ (pc \in {"minimize", "probe"} /\ s'.evals = s.evals + 1 /\ ~s'.last.ok)
              => /\ WarmStart(s') = WarmStart(from) /\ s'.zeta = WarmStart(from)[2]
                 /\ s'.terms = s.terms
         /\ (pc \in {"probe", "minimize"} /\ pc' = "refit")
              => s'.best = keep.best \/ s'.best.at = res.v
         /\ (pc = "minimize" /\ stage \in {"retry", "rising", "edge"} /\ res' # res)
              => res'.value < last_res.value
<1> DEFINE from == IF pc' = "refit" THEN PutBack ELSE s
<1>1. ASSUME pc \in {"minimize", "probe"}
      PROVE  \/ Probing /\ pc' = "refit" /\ TurnDown
             \/ pc' # "refit" /\ s' = s
             \/ pc' # "refit" /\ \E v \in Hyper : Eval(s, v)
  <2>1. res \in Reported => res.v \in Hyper
    BY DEF Reported
  <2>2. \A r \in run : r.v \in Hyper
    BY DEF IInv, Others, Points
  <2>3. CASE Trial \/ MainDone \/ MainRaises \/ BoxDone \/ RetryDone
    BY <1>1, <2>3 DEF Trial, MainDone, MainRaises, BoxDone, RetryDone, NoEval
  <2>4. CASE RisingDone
    BY <2>1, <2>4 DEF RisingDone, NoEval, IInv, Stage
  <2>5. CASE ProbeFails
    BY <2>5 DEF ProbeFails, TurnDown, Probing
  <2>6. CASE ProbeGains
    BY <2>2, <2>6 DEF ProbeGains, Begin
  <2>7. CASE EdgeDone
    <3>1. CASE TurnDown
      BY <2>7, <3>1 DEF EdgeDone, TurnDown, Probing
    <3>2. CASE ~TurnDown
      BY <2>2, <2>7, <3>2 DEF EdgeDone, NoEval
    <3> QED
      BY <3>1, <3>2
  <2> QED
    BY <1>1, <2>3, <2>4, <2>5, <2>6, <2>7
       DEF Next, First, FirstRaises, Settle, Retry, Rising, NotRising, Probe, NoEdge, Refit
<1>2. ASSUME pc \in {"minimize", "probe"}, s'.evals = s.evals + 1, ~s'.last.ok
      PROVE  /\ WarmStart(s') = WarmStart(from) /\ s'.zeta = WarmStart(from)[2]
             /\ s'.terms = s.terms
  <2>1. s.evals \in Nat /\ s \in States
    BY DEF IInv, Sound, States
  <2>2. CASE Probing /\ pc' = "refit" /\ TurnDown
    <3>1. Sound(PutBack) /\ PutBack.evals = s.evals /\ Eval(PutBack, res.v)
      BY <2>1, <2>2, PutBackIsSound DEF PutBack, States, TurnDown
    <3>2. res.v \in Hyper
      BY <2>2 DEF IInv, Stage, Probing, Reported
    <3> QED
      BY <1>2, <2>2, <3>1, <3>2, UnavailableLeaves
  <2>3. CASE pc' # "refit" /\ s' = s
    BY <1>2, <2>1, <2>3
  <2>4. CASE pc' # "refit" /\ \E v \in Hyper : Eval(s, v)
    BY <1>2, <2>4, UnavailableLeaves DEF IInv
  <2> QED
    BY <1>1, <1>2, <2>2, <2>3, <2>4
<1>3. ASSUME pc \in {"probe", "minimize"}, pc' = "refit"
      PROVE  s'.best = keep.best \/ s'.best.at = res.v
  BY <1>1, <1>3, TurnedDownIncumbent
<1> QED
  BY <1>2, <1>3, SecondSearchGains

-----------------------------------------------------------------------------
(* The type invariant, for every inner fit and every optimizer.            *)
THEOREM TypeCorrect == Spec => []TypeOK
<1>1. IInv /\ Read => TypeOK
  BY DEF IInv, Read, TypeOK, Others, Sound, States, Saved
<1> QED
  BY <1>1, InitHolds, StepHolds, InitIsRead, StepIsRead, PTL DEF Spec

(* The incumbent's value, coefficients and structural parameters are those *)
(* of one inner fit, whatever was tried, boxed, retried, probed or put     *)
(* back since (R/outer.R, evaluate()).                                     *)
THEOREM IncumbentIsAReading == Spec => []IncumbentIsOneReading
<1>1. IInv => IncumbentIsOneReading
  BY DEF IInv, Sound, IsReading, IncumbentIsOneReading
<1> QED
  BY <1>1, Invariance, PTL

(* The barrier exceeds every criterion read before it (R/outer.R).         *)
THEOREM BarrierExceeds == Spec => []BarrierIsAbove
<1>1. IInv => BarrierIsAbove
  BY DEF IInv, Sound, Bounds, BarrierIsAbove
<1> QED
  BY <1>1, Invariance, PTL

(* Without terms moved through their Jacobian a trial reads one criterion  *)
(* from one incumbent, however many others come between (R/outer.R:1703).  *)
THEOREM Reproducible == ASSUME NoMovedTerms PROVE Spec => []TrialsAreReproducible
<1>1. IInv => TrialsAreReproducible
  BY OneTermReproduces
<1> QED
  BY <1>1, Invariance, PTL

(* What is not taken leaves no trace, at each of the three levels          *)
(* (R/outer.R:1682), where no term is moved through its Jacobian.          *)
THEOREM LeavesNoTrace == ASSUME NoMovedTerms PROVE Spec => WhatIsNotTakenLeavesNoTrace
<1> DEFINE A == LET from == IF pc' = "refit" THEN PutBack ELSE s IN
         /\ (pc \in {"minimize", "probe"} /\ s'.evals = s.evals + 1 /\ ~s'.last.ok)
              => /\ WarmStart(s') = WarmStart(from) /\ s'.zeta = WarmStart(from)[2]
                 /\ s'.terms = s.terms
         /\ (pc \in {"probe", "minimize"} /\ pc' = "refit")
              => s'.best = keep.best \/ s'.best.at = res.v
         /\ (pc = "minimize" /\ stage \in {"retry", "rising", "edge"} /\ res' # res)
              => res'.value < last_res.value
<1>1. IInv /\ [Next]_vars => [A]_vars
  BY NoTrace
<1>2. Spec => [][A]_vars
  <2> HIDE DEF A
  <2> QED
    BY <1>1, Invariance, PTL DEF Spec
<1> QED
  BY <1>2 DEF WhatIsNotTakenLeavesNoTrace
=============================================================================
