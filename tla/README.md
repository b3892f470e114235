# Formal models of statmodels7

statmodels7 is the modelling layer of an R toolkit. `statmod()` reads one
formula with an equation for each parameter of a distribution, builds a design
from its terms, and fits it by penalized likelihood: the coefficients in an
inner fit, the smoothing parameters and prior scales in an outer search, with
break-points settled and competing fits compared on the way. Almost all of this
is sequential R code around **one mutable design**. The environment `st`
(`attr(design, "refresh")`) holds the terms that move with the fit, `sst`
(`attr(design, "structural")`) the parameters of a filter or another structural
term. Every refit, trial, probe and candidate writes into it, and whoever turns
one down has to put it back by hand. That is where the code is hard to get
right and hard to test, so it is what the models here are about: *whether the
coefficients, the objective, the criterion and the state of the design that are
returned belong to one fit, whatever was tried, turned down or raised before*.
The second subject is the bootstrap engine, the one part with processes that
can die and state that outlives a call. The third is the compiled code: the
threaded kernels, the coordinate descent and the scaling of a joint
score-driven filter, where what can go wrong are races, cached gradients and
hand-written expansions.

Paths below are those of the repository (`R/…`, `src/…` for the C++ sources,
`tests/…`). `PROJECT.json` lists components, runs, theorems, hazards and
findings, and maps every definition to the lines it stands for.

## 1. Inventory

### The state the fit keeps

| Name in the code | What it is | Written by |
|---|---|---|
| `beta`, `res$par` | the stacked coefficients | every inner fit; passed by value |
| `st$terms` | terms that recompute their block: `seg()`, `jump()`, `nl()`, … at their positions | `statmod_commit_refresh()`, `fit_working()`, settles, restarts; by reference |
| `st$working` | a frozen break-point's linear working model is being solved | `fit_working()` only |
| `st$key`, `sst$key`, `mm$key` | one-entry memos of designs and predictors | dropped by hand by the writers above |
| `sst$zeta` | a structural term's own parameters | inner fits and optimizers' trials; by reference |
| `sst$route` | `joint` or `alternate` | the driver's second route |
| `spec`, `blocks`, `hyper` | specification, penalty blocks, hyperparameters | passed by value; replaced by the driver and the outer search |
| `boot_env(fit)` | bootstrap entries of a fit, shared by its copies | the bootstrap engine |

### Components

| Component | Code | State and operations | What is hard | Correct when | Here |
|---|---|---|---|---|---|
| `statmod()` driver | `statmod()`, `R/statmod.R` 457–1185, `R/kkt.R`, `statmod_select()` in `R/path.R` | stages of `fit_once()`: selection, refinement, boot restarts, settles, rereading the criterion; then candidates: second start of the loadings, second route, multistarts, restarts from the edge of a chart | candidates share the design; criteria put off; three nested ways out | the fit returned is one fit; no comparison loses the criterion | modelled in part |
| Inner alternation | `statmod_alternate()`, `R/statmod.R` 1275–1585 | passes over smooth, structural, kinked and self-refreshing blocks, verdict, final joint step | six writers of one state; flags of several routes read together | value is that of the point; "converged" is said of optima only | modelled, proved |
| Working fits | `fit_working()`, `R/statmod.R` 2574–2686; `R/refresh.R` | linear fit, commit, repeat | cycles; travel without step control; a flag that says which model is read | exit only at a fixed point or in a cycle; value of the true model | modelled, proved |
| Settling of break-points | `R/boot_restart.R` 361–734 | hold, polish the working profile, local search | what is put back, and what is said to have moved | the fit handed back is the one in the design | modelled, proved |
| Bootstrap restarting | `R/boot_restart.R` 143–273 | perturbed profile, refit, accept or restore | refits that raise half way | an improvement search over one snapshot | modelled, proved |
| Design and memos | `statmod_eta()`, `statmod_design_at()` | reads through one-entry memos | invalidation by hand | no read is stale | modelled, proved |
| Outer search | `outer_fit()`, `R/outer.R` 1543–2588 | evaluations that are whole inner fits; five kinds of second search; refit | the inner problem has several modes; barriers; rejected trials | reproducible trials, one incumbent, no trace of what was turned down | modelled in part |
| Bootstrap engine | `R/bootstrap_engine.R`, `boot_fill()`, `worker_map()` | draw, refit in workers or here, read, extend an entry | workers that die, failures replaced, one generator for two uses | 500 + 300 replicates are the 800 of one call | modelled in part, proved |
| IWLS | `iwls_fit()`, `R/iwls.R` 979–1412 | scoring step, fallbacks, damping, constrained fit at a kink | counters shared by several exits | descent, and a verdict about the last point | planned |
| Coordinate descent | `R/coord.R`, `src/coord_descent.cpp` | screening, active set, sweeps over a cached gradient, loop over working problems | a heuristic that must be checked afterwards; a gradient never read again; rows indexed two ways | optimum over every column, screened out or not | modelled in part |
| Paths and cross-validation | `R/path.R` | warm-started paths, folds in workers | failures of single points | folds and points stay aligned | planned (`worker_map()` is modelled) |
| Profiles | `R/profile.R` | two chains of restricted fits from the optimum | chains that fail or overlap | each point is its best fit | planned |
| Threads | `src/par_for.h`, `src/wcrossprod.cpp`, `src/leverage.cpp`, `src/qr_factor.cpp`, `R/threads.R` | a range split into chunks over a pool, six kernels on it | shared output without locks, sums that round | no race; the same doubles for any number of threads | modelled in part, proved |
| Scaling of a joint filter | `src/joint_scaling.cpp`, `R/joint_scaling.R` | twelve functions, each fed with what the lower orders returned | products of matrices that do not commute, written out to order five; lookup by sub-multiset | the derivatives of one function, order by order | modelled |
| Starting values | `R/start.R` | search over starts | | | not modelled |
| Structural terms | `R/structural.R`, `R/joint_filter.R` | filters and log-likelihood terms fitted inside a pass | errors after trials that moved `sst$zeta` | an error leaves what the alternation takes it to leave | only as steps of `Alternate` |
| Restricted fits, separation, order | `R/restricted.R`, `R/separation.R`, `R/order.R` | the same alternation on a reduced problem | | | not modelled |
| Joint posterior engine | `R/jfp_*.R` | a sampler | correctness is distributional | | not modelled |
| Derivatives, information, leverage, sandwich | `R/outer_*.R`, `R/information.R`, … | closed forms and linear algebra | floating point, no control | | not modelled |
| Inference, prediction, intervals, plots, reports | the rest of `R/` | functions of a finished fit | no state of their own | | not modelled |
| Specification, formulas, plumbing | `R/spec.R`, `R/formula.R`, … | parsing, validation, composition rules | | | not modelled; the compositions it allows are the models the runs take |

### How they interact

```
statmod()                            StatmodDriver
  fit_once()
    statmod_select()
      outer_fit()                    OuterFit         trials are whole inner fits
        statmod_alternate()          Alternate        passes over the blocks
          fit_working()              WorkingFit       frozen break-points
          iwls_fit()                 (planned)
          coord_fit()                CoordDescent     compiled sweeps of a kinked block
          statmod_fit_structural()   JointScaling     the filter's driving vector
            statmod_eta()            EtaMemo          every read goes through memos
    statmod_boot_restart()           BootRestart      refits = statmod_alternate()
    statmod_settle_*()               SettleBreaks     refits = statmod_alternate()
    wcrossprod(), leverage(), qr     ParKernels       regions of threads
bootstrap()                          BootstrapEngine  refits = statmod(), in workers
```

A module takes the component below it as a step with every outcome that
component may have: `SettleBreaks` lets a refit return any fit, `OuterFit` takes
the inner fit as a function of where it starts. What is assumed of a step is
what the module of that component shows, or less. Calls are synchronous and
shared state is all by reference; an R error unwinds to the nearest
`tryCatch()`, leaving what was written. No module restores anything the code
does not.

## 2. Modules

Coefficients, positions and structural parameters are members of small sets
(`Par`, `Pos`, `Zeta`), the objective an arbitrary function of them. A *fit* is
the triple of them, because the objective depends on all three, and the code's
result records carry only the coefficients and the value. The history variables
(named in each module) serve the properties and guard no action.

**`ImprovementSearch`** is the abstract promise of a restarting search: some
state tried, the incumbent replaced only by a better fit, and at the end the
state of the design that of the fit returned.

**`BreakFits`** – what the two searches for better break-points share: the one
mutable design (`pos`, `zeta`), the objective at a fit, the result that carries
it, and the promise that the result is the design's. `BootRestart` and
`SettleBreaks` extend it; the definitions of the second carry its name
(`SettleNext`, `SettleTypeOK`), and those of the engine the engine's
(`EngineNext`), so that one module of proofs, `Bootstrap_proofs`, can extend all.

**`BootRestart`** – `statmod_boot_restart()`. `NoProposal`, `Propose`, `Accept`,
`Reject`, `RefitRaises`, `Finish` are the iterations of its loop by how they
end; `keep` is `snapshot()`, `More` the loop's two bounds. `INSTANCE
ImprovementSearch` gives the refinement (`RefinesSearch`).

**`SettleBreaks`** – `statmod_settle_breakpoints()` (`mode.sharp`) and
`statmod_settle_seg()`: `Hold` / `HoldFails`, `Polish` / `StopPolishing`,
`Search`, `Finish`. A candidate refit is one step: terms placed, fit run,
verdict taken.

**`WorkingFit`** – `fit_working()`: `PlainFit` (nothing of the frozen equations
in the smooth block), `Enter`, `Solve` (the working model solved, the working
objective read), `CommitFit` (the break-points committed, the counters `stall`,
`cyc`, `floor_run` moved, the loop left or continued: `LeaveLoop`, `Again`),
`ReturnFit`, and the two places where a fit can raise.

**`Alternate`** – `statmod_alternate()`. One action per kind of block (`Joint`,
`Smooth`, `Working`, `Structural`, `Sparse`, `SparseFails`), `Commit`,
`EndPass` with the `Verdict`. `Applies` says which blocks the model has, in the
order of the code. The joint step that may finish the alternate route is taken
apart as the code takes it: `FinishStarts` saves `sst$zeta` (`zsave`),
`FinishReturns` or `FinishRaises` leave it wherever the joint system wrote it,
and `FinishKept` or `FinishTurnedDown` take the result or put `zsave` back.

**`EtaMemo`** – the three memos, with every writer of the state they are keyed
by: commits, working fits, restores, trials of structural parameters, and the
proposals of the boot restarts. The order of calls is free, which covers every
caller. A commit (`MoveTerms`) drops `st$key` in the step that writes the terms:
nothing reads between the two. `propose()` is another matter: it writes the terms
one after another (`ProposeTerm`, `R/boot_restart.R:227`) and drops `st$key` when
all were visited (`EndProposal`, 234), so the reads `net_y()` makes for the next
term come in between, at the coefficients of the fit it started from. They are
hits on the terms of that fit, which is what the screening wants; `proposal` says
that one is under way and what it started from. A proposal that raises ends in
the `Restore` of the next round. Its definitions carry the memo's
name (`MemoNext`, `MemoTypeOK`, `st_working` for `st$working`, `sst_zeta` for
`sst$zeta`) and those of `WorkingFit`, whose `Enter` and `Solve` move the flag,
that of the working fits (`WorkingNext`), so that one module of proofs,
`InnerFit_proofs`, can extend both beside `Alternate`.

**`OuterFit`** – `outer_fit()`: `Eval` is `evaluate()` with its warm start,
incumbent, barrier and put-back; `Trial` is one call of it by an optimizer,
which is otherwise unconstrained; `MainDone`, `BoxDone`, `Settle`, `RetryDone`,
`Rising`, `Probe`, … are the second searches and what keeps or turns them down.
`Refit` ends it with the fit at the point reported and the reading of the
criterion there, which may give nothing (`criterion = NoPoint`, NA in the code)
beside a search that is called converged.

**`StatmodDriver`** – `fit_once()` stage by stage (`Select`, `Defer`,
`Deferred`, `Refine`, `Boot`, `Reselect`, `Settle`, `ReadDeferred`, `Hold`,
`Reread`, with the failing variant of each) and the candidates (`InfoDone`,
`RouteDone`, `StartDone`, `EdgeGains`, …) with the comparison each of them
makes. An objective or a criterion stands for the point it was read at. A search
may return without a criterion (`Unread`, the `NA_real_` of `R/outer.R:2494`),
and the comparisons then go by the objective (`HasCrit` in `Better` and `Tied`).

**`BootstrapEngine`** – `boot_fill()` over `bootstrap_engine()` and
`worker_map()`. `Call` and `Elsewhere` (draws of the session in between) are
the environment; `Round`, `Draw`, `MapHere` / `MapThere`, `RefitHere` /
`RefitThere`, `WorkerDies`, `ReadOne`, `NextRound`, `Return`, `Abandon` are the
engine. The generator is a function `After` on its states, a refit an outcome
of the state its draw was made from.

**`Kernels`**, **`OneThread`**, **`ParKernels`** – the six kernels of
`src/wcrossprod.cpp`, `src/leverage.cpp` and `src/qr_factor.cpp`. `Kernels` says
which entries the body of each element of a range writes and from which terms,
a sum being the sequence of its terms in the order of addition. `OneThread` is
the promise: a region is one step. `ParKernels` is `par_for()`: `Open` cuts the
range into chunks, `Take`, `Accumulate`, `Store`, `Advance` are a thread of the
pool at work (an entry is computed in one step and stored in another), `Join`
is the caller going on; `Begin`, `PassOver`, `Reflect`, `Factored`, `Return` the
code around the regions. Its `SameAtAnyCount` instantiates `OneThread`.

**`CoordDescent`** – `coord_run()` and `coord_fit()`. `Start`, `Visit`,
`EndSweep` are the kernel, one coordinate at a time, in its covariance and its
naive form, over dense and sparse columns; `Read`, `Recheck`, `Step`, `Stuck`,
`Budget` the loop around it, with the strong rule in `Screen`.

**`JointScaling`** – the twelve functions `jsc_s0_cpp()` … `jsc_u5_cpp()` as one
action each, called in the order of `R/joint_scaling.R`. A bit mask is the set of
positions it holds, a Leibniz sum runs over the masks the function writes out,
and the component a term reads is looked up by its sorted sub-tuple, as in the
tables of `joint_scale_tables()`. **`Sums`** is the accumulating loop, shared
with `CoordDescent`.

The `MC…` modules give the constants their values. An operator headed `Mutant:`
stands beside the definition it alters, as a plausible slip in that code; no
specification uses it, and it only serves to see that a property would notice.

## 3. Runs

| Run | States | What it asks | Bounds, and why they are enough |
|---|---|---|---|
| `boot_restart` | 2 878 | `RefinesSearch` | 2 × 2 × 2 fits with ties and one not finite, 6 proposals against a dry limit of 4 (the code's): both bounds of the loop end it, and an improvement after dry rounds occurs |
| `settle_breaks` | 2 162 | `ReturnedFitIsTheDesigns`, `MovedIsTheVerdict` | 3 coefficients × 3 positions, all four modes, 3 rounds and 4 candidates: each stage can improve, fail, and improve again |
| `working_fit` | 120 584 | `ExitIsEarned`, `ValueIsTheModels` | objectives {0, 1, 3} and one not finite, tolerance 1, so that nearness is not transitive; 5 fits (500 or 200 in the code) hold two repetitions of a cycle of two; stall limit 3 (20 in the code) |
| `alternate` | 146 619 | `ValueIsOfThePoint`, `ConvergedIsAnAnswer`, `FinishIsAllOrNothing` | sixteen compositions, two points of each kind, 3 passes: a first, a middle and a last one; the finishing step is kept, turned down and raises, having moved the parameters or not |
| `eta_memo` | 960 | `ReadIsFresh`, `ProposalReadsOneFit` | the whole state space for three coefficient vectors, two states of the terms and two of the structural parameters, in any order and without end; a proposal may write any number of terms, each after its read |
| `eta_memo_both` | violation | `CommittedIsRead` | both kinds of term in one model |
| `outer_fit` | 68 149 | `TrialsAreReproducible`, `IncumbentIsOneReading`, `BarrierIsAbove`, `WhatIsNotTakenLeavesNoTrace` | three points (one that carries the fit into a second basin, one that cannot be fitted from there, criteria of both signs and two not finite), 5 evaluations over all searches; every second search is entered, kept and turned down |
| `driver` | 219 410 | `ReturnedFitIsOne`, `HeldWhereTheCriterionPutThem`, `CriterionNeverLost` | thirteen kinds of model (`MCModels`) that between them take every stage and candidate; 3 settles and 3 restarts from an edge, as in the code; 2 further starts; criteria that tie, and after every search one that reads NA |
| `boot_engine` | 342 318 | `EntryIsOneRun`, `RowsAreTheKept`, `CallsEnd` | a fit and its copy on one store, a generator with two cycles (few failures on one, nearly all on the other), 1 or 3 replicates, two processes, any number of calls |
| `par_kernels` | 99 912 | `NoSharedEntry`, `EntriesAreTheirSums`, `SameAtAnyCount`, `CallsReturn` | every kernel, ranges of up to four elements cut in every way, 1 to 3 threads, two floating-point environments; blocks of unequal width, rows without entries, a square and a wide matrix with a threaded step followed by a sequential one |
| `coord_descent` | 99 731 | `CacheIsTheGradient`, `AnswerIsOfEveryColumn`, `FitEnds` | two or three correlated columns over two to four rows, one constant, one design wide; lasso and MCP; dense, sparse, centered or not; with a path behind (where the rule discards, rightly and wrongly) or without; 6 sweeps and 3 trips, so that both budgets end some runs and tolerance the others |
| `joint_scaling` | 1 071 | `ScalingIsThePower`, `DriveIsTheDerivative` | orders 1 to 5, both powers, two filtered parameters with two and three predictors; derivatives that commute with nothing, over the field of 13 elements; an information that is not positive definite |

Every passing run also checks its module's one type invariant (`TypeOK`, in the
settles `SettleTypeOK`, of the memos `MemoTypeOK`, of the working fits
`WorkingTypeOK`, of the engine `EngineTypeOK`). What
each property says, with the sentence of the code it comes from, stands above it
in its module. `CHECK_DEADLOCK FALSE` is set where a fit ends; `eta_memo`,
`boot_engine`, `par_kernels`, `coord_descent` and `joint_scaling` model what can
be called again and are checked for deadlock.

**What is hardest here.** `ReturnedFitIsOne` (driver) takes a sequence of
candidates, each moving the shared design by several stages, to break, and the
code keeps it by assignments written out at every candidate. `TrialsAreReproducible` is the reason
`evaluate()` starts every trial from the incumbent rather than from the last
point. `EntryIsOneRun` has to hold over calls, failures, deaths of workers and
draws made by others in between. `AnswerIsOfEveryColumn` relates a kernel that
has seen some columns, and moved a cached gradient along, to the problem in all
of them. `SameAtAnyCount` compares every interleaving with one sequence, rounding
included. `ScalingIsThePower` is about thirty-one products at order five, where
a missing one changes no fit visibly.

**Conditions the properties carry.** They are part of what was learnt:
`ValueIsOfThePoint` holds where no optimizer of a structural block raises;
`ReturnedFitIsTheDesigns` of the settles where no structural term stands beside
the break-points; `ConvergedIsAnAnswer` where every frozen break-point has
working fits, which it has not beside a joint filter; `AnswerIsOfEveryColumn`
of the fit where the last kernel did not run out of sweeps; `ReturnedFitIsOne`, for a model with break-points, where no
candidate that moved the design was discarded; `HeldWhereTheCriterionPutThem`
where no boot restart comes between; `ReadIsFresh` where a model has not both
kinds of term; `WhatIsNotTakenLeavesNoTrace` for a model without a term moved through
its Jacobian. Each of them is witnessed by the violation run or described in
section 6, with the instance that shows it. `CriterionNeverLost` compares
criteria where both fits have one; where a reading gave NA all it promises is
that the objective rises by a tie at most, which is what the code does (section 6).

**Fairness.** `WF_vars(Next)` in the sequential modules says that R goes on
executing: there is one thread of control and no step waits for anything. No
property of theirs needs it. In `BootstrapEngine` only the engine's own steps are fair; nothing is assumed of what the environment may do (`Call`,
`Elsewhere`) and neither of errors nor of deaths (`DrawRaises`, `WorkerDies` are
alternatives to steps of the engine, never required). `CallsEnd` rests on the
engine's own rule that a call gives up once failures outnumber the replicates
kept (`MostFail`). In `ParKernels` every thread of the pool and the caller are
fair (they are running threads, and none waits inside a region), which is what
`CallsReturn` needs; `Begin` is not. In `CoordDescent` the fit's own steps are,
and `FitEnds` says that the two budgets and the columns that come back do end
it; `Pose` is not fair. The sequential modules have no liveness property: their
loops are bounded by counters (the restart's is a `for` over a fixed vector), and
a property saying so would restate the bound.

## 4. Proofs

TLAPS checks the following for **every** value of the constants, subject to the
assumption named in the module.

| Module | Theorems | Inductive invariant and why it is needed |
|---|---|---|
| `Bootstrap_proofs` (`FitsAssumption`, `BootAssumption`, `SettleAssumption`) | of `BootRestart`: `TypeCorrect`; `SnapshotBelongs`; `FitReturnedIsTheDesigns`; `Refinement`: `Spec => Restart!Spec` | `TypeOK /\ Within /\ PutBack /\ SnapshotIsTheIncumbents`. The returned fit is the design's because the last step restores a snapshot, so what has to be inductive is that the *snapshot* is the incumbent's; `Within` keeps the count of dry rounds under its limit after a refit. |
| the same | of `SettleBreaks`: `SettleTypeCorrect`; `SettledFitIsTheDesigns`, where the structural parameters have one value; `FlagIsTrue` | The incumbent's objective is that of its coefficients and terms, and the flag tracks the history: lowered, nothing was replaced; raised, the incumbent is better than the entry. |
| `InnerFit_proofs` (`MemoAssumption`, and `OneKindOfTerm` as a hypothesis) | of `EtaMemo`: `MemoTypeCorrect`, `MemosAreFresh`, `ProposalsAreOfOneFit` | each memo's entry equals the design at its own key (`StEntries`, `SstEntries`, `MmEntries`) and the working model is only entered with a refreshable term. During a proposal the entry equals the design as it was when the proposal began, and by the time a term is written there is one for the coefficients every read asks for (`InProposal`), so no later term is read off a half-written design. `eta_memo_both` shows that `OneKindOfTerm` cannot be dropped. |
| the same (`WorkingAssumption`) | of `WorkingFit`: `WorkingTypeCorrect`, `ExitsAreEarned` (from `SettledIsNoTravel`, `CyclesEnd`, `StalledIsUnbroken`), `ValueIsOfTheModel` | ties the three remembered objectives and the three counters to the *history* of objectives and of commits: `Memory`, `Cycles` and `Floors` say what the counters count, `Flag` that `st$working` is up exactly while the working model is solved. |
| `StatmodDriver_proofs` (`DriverAssumption`, `NoFitAssumption`) | `TypeCorrect`, `FitIsOne` | `FitIsHere` (the result of `fit_once()` is at the design while its stages run), `BestIsHere` and `BestIsSaved` (the fit in hand is at the design between candidates, and at what was saved during one), `FitCrit` / `BestCrit` (the criterion, where there is one, was read there), with `InHand` and `FirstRoute` for the order of the phases. |
| the same | `HeldAreEstimated`; `NeverLost`: `Spec => CriterionNeverLost` | `Kept`, on top of the invariant above. `HeldAsEstimated`: only a boot restart leaves a fit whose refits hold something else than its search put there. `CriterionIsSearched`: whoever asked for a criterion has had a search for it at every stage but those before a deferred one is. A search may still end without a reading, and a comparison goes by the criterion only where both fits have one; `NoLower` follows for each of the three ways to win (`PreferredIsNoLower`, `WinnerNoLower`), by the measure the two fits were compared by. |
| `Bootstrap_proofs` (`EngineAssumption`) | of `BootstrapEngine`: `EngineTypeCorrect`, `EntriesAreOneRun` | `EngineTypeOK /\ Called /\ EntryIsOneRun /\ (Alive => Kept /\ Rounds)`. The draws kept so far are one run of the generator (`Kept`), those planned for the round continue it (`Rounds`), and two runs that meet join into one (`RunsJoin`, `RecordsJoin`): that is what makes an extended entry one run. |
| the same | `RowsAreKept` | `Rowed`: the rows of an entry are the successes among its draws, in order (`EntriesInOrder`, over `OrderGoesOn` and `OrdersJoin`: appending a draw, or the draws of a round, keeps them so), and their number is what the bookkeeping says (`Counting`). |
| `InnerFit_proofs` (`AlternateAssumption`) | of `Alternate`: `TypeCorrect`, `ValueIsThePoints`, `FinishIsWhole`; `ConvergedIsEarned`, where every frozen break-point has working fits (`FrozenIsFitted`) | `TypeOK /\ ValueHere /\ Worked /\ Fitted /\ Ended /\ Joining /\ FinishIsAllOrNothing`. `Joining` carries the fit the finishing step began from: while the joint system moves `sst$zeta`, the coefficients and the value are still those of the entry and `zsave` its parameters, and what it returns has the value of its own point. The flag of the frozen break-points starts `TRUE`, so what has to be inductive is that a pass beyond its smooth block has run a working fit (`Fitted`) and that the flag says what that fit said (`Worked`). |
| `ParKernels_proofs` (`ParAssumption`) | `TypeCorrect`, `RaceFree`; `ThreadsDoNotMatter`: `Spec => OnOneThread!Spec` | `Outer /\ (phase = "region" => Chunks /\ Bodies /\ Contents)`, over lemmas that every kernel's elements own entries of their own (`RegionsApart`: for the mirrored product the pair belongs to the larger index, for the unfolded range by division with remainder). An entry holds what it held when the region was opened until it is stored, and its final value from then on (`Contents`); at `Join` nothing waits, so the whole effect of the region is there. For any calls, dimensions, threads and chunks. |
| the same | `SumsAreRight` | `Sums`: an entry of a product is zero until its region and what one body writes afterwards; of a factor, the columns from `Past` on have gone through the same reflectors, and each one before it went first through what every column to its right went through first (`Columns`, with one lemma for each of a column passed over, reduced and updated). For the products, that every entry is written (`MirroredSums`, `UnfoldedSums`: by division with remainder). |
| `OuterFit_proofs` (`OuterAssumption`; for the last two theorems `NoMovedTerms`) | `TypeCorrect`, `IncumbentIsAReading`, `BarrierExceeds`; `Reproducible`; `LeavesNoTrace`: `Spec => WhatIsNotTakenLeavesNoTrace` | `Others /\ Sound(s) /\ Logs /\ Stage`, and `Read` for the criterion returned. The incumbent is one inner fit and the barrier lies above all that was read (`Sound`), the log of trials is of such states (`Logs`), and what a second search would be put back to is sound as well (`Stage`). |
| `CoordDescent_proofs` (`CoordAssumption`; for the last `Tol = 1`) | `TypeCorrect`, `CacheHolds`; `AnswerHolds` | `IInv == Shape /\ Asked /\ Called /\ Solved /\ Placed /\ Numbers`. `Numbers` says what the kernel keeps: in the covariance form each gradient is that of the coefficients it holds and a Gram column is either empty or right, and it is right for every column that is not zero; in the naive form the residual and the scalar of the centering are. `Placed` says where the sweep is, `Solved` that what was not kept has not moved. `Answered`, on top of it, says which columns of a sweep are at their optimum while nothing has moved by the tolerance. |
| `Bootstrap_proofs`, `CoordDescent_proofs`, `ParKernels_proofs` (as above; for the last, that `Nothing` is no pair) | `CallsRunOut` of `BootstrapEngine`; `FitsRunOut`; `CallsRunOut` of `ParKernels` | see *What runs out* below |
| `JointScaling_proofs` (`ScalingAssumption`) | `TypeCorrect`, `ScalingIsRight`, `DriveIsRight` (from `Invariance`) | `IInv`, whose parts are `Powers` and `Drives`: with the orders up to n computed, all of them are symmetric and complete, the power of the root table agrees with the information at every word of length up to n, and the product of the root and the scaling tables with the unit; the driving vector is the product of the scaling and the gradient tables. The properties look at the last order only and multiply in the other order; neither is inductive. |

Each proof has one lemma or step per action. The strengthenings were checked
by TLC on the instances above before they were proved.

**Sums.** The accumulating loops are one function, `Total`, over an initial
segment. What a proof needs of it – linear, zero off its terms, exchanged when
nested, the same modulo p whether its terms are reduced before or after – is
stated over every length by the lemmas of `Sums_proofs` (`TotalLinear`,
`TotalExchange`, `ModTotal`, …), each by first-order induction: a set of naturals
that holds 0 and every successor has them all.

**The descent.** It rests on those lemmas. From them come the identities the kernel relies on: the gradient is
linear in the coefficients with the Gram column as its slope (`GradientChange`),
the Gram column scattered from either storage is the centered product, the
curvature read off stored entries alone is that of the centered column
(`CurvatureIs`). The means are integral for every block (`IsProblem`), so that
centering is exact: that is where the model stands for real arithmetic. The rest
is about one coordinate. `apply_table()` of the lasso's and of the MCP's row is
the thresholding it encodes, and a fixed point of it is a stationary point of the
penalised coordinate up to the rounding. With `Tol = 1`, the unit coefficients
are rounded to, a sweep that moved nothing by the tolerance moved nothing, and
the answer is the optimum; under a larger tolerance it is so only to within it,
as in the code, and the theorem is not claimed. The run takes the same value.

**The scaling.** The arrays of all orders are one series: a matrix for each word
over the predictors, the one of the word's multiset. A Leibniz sum is then the
product of two series at a word (`Conv`), and everything follows from its
algebra, each law by induction over words through the product rule
(`ConvAdd`, `ConvDer`): associative (`ConvAssociates`), with a unit
(`ConvUnit`), reversed by the transpose (`ConvTurned`), blind to the order of the
letters where its factors are (`ConvOrderless`, for which sorting by insertion is
shown to commute with itself, `InsertSwaps`). Order zero is the eigenbasis
(`ScaleZeroIs`). At order m the function for S makes one product the unit at the
words of length m too, and for d = 1/2 `sylvester()` solves the equation of the
root in the eigenbasis (`SylvesterSolves`), no two of whose roots add up to zero
(`PowersStep`). The code solves I S = 1 where the property reads S I = 1: a right
inverse of a symmetric series is its left inverse and symmetric
(`InverseTurned`). The driving vector is carried as the matrix that repeats it
(`Wide`), so that the same algebra gives I^d u = g (`DriveSolves`). Nothing is
assumed of the field but that what is not zero has an inverse, nor of the family
but symmetry, its eigenbasis and that positive roots have no zero sum
(`IsFamily`); the orders are one to five, as in the code.

**What runs out.** For each of the three liveness properties a measure is proved
to be natural and to fall at every step of a call, so that no call goes on for
ever by moving. A call of the engine has `CallLeft`: the replicates it may still
record, at most ten and thrice those asked for (`Allowed`), times a bound on the
steps between two of them; that a round is entered with something still to find
and records at least one entry (`Bounded`, inductive over `EngineInv`) is what
keeps empty rounds from going on. For n replicates that is at most
(10 + 3n)(2n + 6) + 2n + 5 steps. A fit of the descent has six numbers in
lexicographic order (`FitLeft`): its trips, the stage of this one, the columns
left out, the kernel, its sweeps and their places; the recheck goes back to the
kernel only with fewer columns left out (`FewerOut`). A call of a kernel has six
as well (`CallLeft`): the steps of a factor, their stage, and the elements still
to take and to run, the entries still to store and to compute. TLC checked each
measure on the instances above before it was proved.

Model-checked only: that fair scheduling takes those steps, which is liveness
(`CallsEnd`, `CallsReturn`, `FitEnds`) and needs `ENABLED`, which
is beyond the prover; and the violation run. Every other property of a passing run is stated by a theorem. No
module declares a RECURSIVE operator.

## 5. Findings with a run

**`eta_memo_both`** – a commit drops `st$key` and not `sst$key`; a structural
model that reads at unchanged coefficients after it gets the predictors of the
terms before (`R/objective.R:75`).

## 6. Disagreements seen while modelling, without a run of their own

The first four can be reproduced with the instance named, in place of the one
the passing run takes.

- `statmod_settle_breakpoints()` restores `st$terms` and not `sst$zeta`
  (`R/boot_restart.R:540`), nor does the settle of `seg()` (706): after a refit
  that was turned down the objective handed back is not that of the state left.
  `R/statmod.R:28`–30 documents the objective as the one "there", at the fitted
  coefficients. `MCSettleBreaks` with `Zeta <- TwoZetas` (and `SharpExact`
  for the modes) violates `ReturnedFitIsTheDesigns`.
- `joint` (`R/statmod.R:1323`) does not ask whether a frozen break-point stands
  beside the filter; the working fits never run, and the flag that would say so
  keeps its initial `TRUE`, although "the verdict is the objective's together
  with that term's own flags" (`R/statmod.R:1249`). `MCAlternate` with
  `Models <- JumpBesideFilter` violates `ConvergedIsAnAnswer`; this is the
  hypothesis `FrozenIsFitted` of the theorem.
- A candidate turned down has `sst$zeta` put back and not `st$terms`, which its
  settle moved (`R/statmod.R:925`, 963, 1005, 1046). `MCStatmodDriver` with
  `Models <- JumpBesideFilter` violates `PositionsAreTheFits`.
- `coord_call()` gives the kernel 500 sweeps (`R/coord.R:537`–546) and
  `coord_fit()` does not ask whether it used them up. Where the working response
  does not move, the next trip finds the problem unchanged and calls the fit
  converged, because "the previous call already returned this problem's
  solution" (`R/coord.R:263`–264). `MCCoordDescent` with `MaxSweeps = 2`
  violates `ConvergedSolves`; `AnswerIsOfEveryColumn` carries the condition that
  the kernel left by its tolerance.
- Where the criterion cannot be read after the last refit, `outer_fit()` returns
  NA for it beside `converged` and `settled` (`R/outer.R:2494`–2499), and so does
  a path (`R/path.R:1756`–1759). `edge_restart_better()` and `retry_tie()` then go
  by the objective (`R/kkt.R:135`, 165), so a candidate without a criterion
  replaces a fit that has one wherever its objective is lower, at other
  hyperparameters; `R/kkt.R:115`–117 says the comparison "uses the criterion that
  chose the hyperparameters, where one ran". Seen with `StatmodDriver`, whose
  `CriterionNeverLost` states what does hold.
- A restart turned down at `R/outer.R:2400` leaves its better point as the
  incumbent, and the refit starts from it; `R/outer.R:2473`–2475 says the point
  reported is the one the search stands on. Seen with `OuterFit`.
- `evaluate()` puts back `sst$zeta` where a trial cannot be read
  (`R/outer.R:1827`) and not terms moved through their Jacobian: "A step the
  search takes back must leave NO TRACE" (1682). Seen with
  `Terms <- TwoTerms` in `MCOuterFit`.
- `restore()` of the boot restarts does not clear `st$working` after a refit that
  raised inside `fit_working()` (`R/boot_restart.R:160` against 107–109);
  the variable `working` of `BootRestart` carries it.
- `sparse_fit_structural()` returns the objective on entry where its optimizer
  raises (`R/structural.R:1276`, 1330), its trials having moved `sst$zeta`;
  `R/statmod.R:1248` says "the penalized objective there".
- After the reselection that follows a boot restart (`R/statmod.R:777`–781)
  `spec_h` is not set again, though "the coefficients the criterion estimated
  stay where it put them in every refit below" (729–730).
- `outer_criterion <<- crit_default` (`R/statmod.R:847`) stays set if the
  rereading that follows raises; failures of the refinement and of the rereadings
  (742–751, 771–776, 851–856) keep the earlier result over a design that has
  moved.
- `boot_special_replicate()` does not take `validate = FALSE` into account,
  though `R/bootstrap_engine.R:42`–43 says such a call "fails a replicate on an
  error only".

## 7. Hazards

`PROJECT.json` lists them by line. Most are one of three kinds: shared state
moved by something that is turned down or raises afterwards; a verdict or a
memo that belongs to a state since left; a loop whose exits share counters.
Real concurrency is confined to the worker processes of `worker_map()`, modelled
with the engine, and to the threads of `src/par_for.h`, modelled with the
kernels. The entries with a note and no property are those of the parts still
planned.

## 8. What is abstracted, and what is left out

- Numbers: objectives and criteria are integers or "not finite". Tolerances that
  decide control are kept (`Tol`, `Tie`, `Limit`); those that only absorb
  rounding are not (a strict comparison stands for `< v - 1e-8 (|v| + 1)`).
- A refresh that raises part way through a commit, with some of the terms written
  and `st$key` not dropped yet (`R/refresh.R:288`–296), is left out of `EtaMemo`;
  so is any error between a write and its drop other than inside a proposal,
  which the next `restore()` covers.
- What a numerical step computes is free, within what its caller relies on: an
  inner fit ends anywhere, an optimizer may try any point and reports one it
  read, a term's own verdicts are free after every commit.
- `Kernels`: a double is symbolic, a sum the sequence of its terms under the
  environment they are added in; a product commutes. The column of a
  Householder step is one entry, its elements taken together. The wrappers of
  `R/threads.R` take a kernel only for more than one thread, a dense design and
  enough work, and the BLAS otherwise: what is shown is that the kernels do not
  depend on the count, not that a fit with one thread and a fit with several
  agree where the two routes round differently. Which chunks RcppParallel cuts,
  and who takes them, is free.
- `CoordDescent`: doubles are integers, and a new coefficient is rounded to the
  nearest; the map of a coordinate is read at v t. Weighted means are integral for
  every block posed, so that centering is exact. A step is halved up to thirty
  times in the code; `Halvings` is the set of lengths at which its objective,
  which is not computed, may be found to fall. Left out: a design that moves
  with its coefficients, the curvature an MCP or SCAD is damped by from one set
  to the next (its curvature is the current step's here), and the exits to the
  proximal gradient (no table, no positive weight or curvature).
- `JointScaling`: doubles are elements of a prime field, where the identities of
  the derivatives hold exactly and a wrong term shows; one observation, since
  none reads another. The eigenbasis LAPACK returns is given.
- Report fields, messages and verbosity, timing, and the assembly of the result.
- The components marked so in section 1. The posterior sampler is correct, or
  not, in distribution; derivatives, information and sandwich estimators are
  real analysis and floating point; the rest are functions of a finished fit.

## 9. Plan

| Next | Module | What it would show | Proof |
|---|---|---|---|
| 1 | `IwlsFit` (`R/iwls.R` 979–1412) | the objective never rises; the retries of the damping end; a verdict taken at a kink is about the point returned | descent, bounds of the counters |
| 2 | `PathFolds` (`R/path.R` 996–1110, 1313–1777) | warm starts across failed points, folds and points aligned for any workers | alignment |
| 3 | `ProfileChains` (`R/profile.R` 1141–1281) | each grid point holds the best of the fits made for it, failed or not | the merge |
| 4 | composition | `StatmodDriver`'s `Boot` and `Settle` steps implemented by `BootRestart` and `SettleBreaks`; `WorkingFit` and `CoordDescent` as steps of `Alternate` | step simulation |

Not planned: starting values (a search over starts before the first fit, whose
result any later stage may replace), the generated wrappers of
`src/RcppExports.cpp`, and `src/lapack_rcond.cpp` (one call of LAPACK).
