-------------------------- MODULE BootstrapEngine --------------------------
(***************************************************************************)
(* boot_fill() of R/bootstrap_fit.R and the bootstrap_engine() of          *)
(* R/bootstrap_engine.R it calls, with worker_map() of R/path.R, over any  *)
(* sequence of calls and of other uses of the session's random numbers.    *)
(*                                                                         *)
(* Shared state: `session', the .Random.seed of the process, and `store',  *)
(* the environment of the entries, which a fit shares with its copies; a   *)
(* key is a fit's estimates with a scheme and a refit.  A draw takes the   *)
(* generator from one state to the next, so the state it started from      *)
(* stands for the data drawn, and for the replicate refitted on it.        *)
(***************************************************************************)
EXTENDS Integers, Sequences, FiniteSets

CONSTANTS Keys,
          Seeds,       \* states of the generator
          After,       \* the state after a draw, at each state
          Reseeded,    \* the state a refit that draws leaves, at each draw
          Outcome,     \* 0 kept, 1 error, 2 mode error, 3 unidentified
          Wanted,      \* numbers of replicates asked for
          Cores,
          NoSeed, NoEntry, NoCall, NotRun

MinDraws == 10

ASSUME EngineAssumption ==
  /\ After \in [Seeds -> Seeds]
  /\ Reseeded \in [Keys \X Seeds -> Seeds]
  /\ Outcome \in [Keys \X Seeds -> 0 .. 3]
  /\ Wanted \subseteq Nat \ {0} /\ Cores \subseteq Nat \ {0}
  /\ NoSeed \notin Seeds /\ NotRun \notin 0 .. 3

(* "fill": add_bootstrap() and bootstrap_vcov().  "stored": an interval    *)
(* that extends an entry and puts the session back.  "predict": replicas   *)
(* that are used at once, in batches of one, and never stored.             *)
Kinds == {"fill", "stored", "predict"}

VARIABLES session, store,
          at,
          call,                  \* the arguments of the call, and the session
                                 \* that "stored" puts back
          seed_start, seed_end,
          plans,                 \* the draws of the round
          res,                   \* their refits, by place
          j,                     \* refits of the round read so far
          rows, status,          \* as in the code, over the whole call
          drawn                  \* history: the draws behind `status'

engine == <<seed_start, seed_end, plans, res, j, rows, status, drawn>>
engineVars == <<session, store, at, call, engine>>

Calls == [kind: Kinds, key: Keys, n: Nat \ {0}, cores: Cores,
          session: Seeds \union {NoSeed}]

Entries == [start: Seeds, end: Seeds, rows: Seq(Seeds), status: Seq(0 .. 3),
            draws: Seq(Seeds)]

EngineTypeOK ==
  /\ session \in Seeds \union {NoSeed}
  /\ store \in [Keys -> Entries \union {NoEntry}]
  /\ at \in {"idle", "draw", "here", "there", "read", "round", "failed"}
  /\ call \in Calls \union {NoCall}
  /\ {seed_start, seed_end} \subseteq Seeds \union {NoSeed}
  /\ plans \in Seq(Seeds)
  /\ res \in Seq(0 .. 3 \union {NotRun}) /\ Len(res) = Len(plans)
  /\ j \in 0 .. Len(plans)
  /\ rows \in Seq(Seeds) /\ status \in Seq(0 .. 3) /\ drawn \in Seq(Seeds)

stream == call.kind # "predict"
replace == call.kind # "predict"

Held(k) == IF store[k] = NoEntry THEN 0 ELSE Len(store[k].rows)

EngineInit ==
  /\ session \in Seeds \union {NoSeed}
  /\ store = [k \in Keys |-> NoEntry]
  /\ at = "idle"
  /\ call = NoCall
  /\ seed_start = NoSeed /\ seed_end = NoSeed
  /\ plans = <<>> /\ res = <<>> /\ j = 0
  /\ rows = <<>> /\ status = <<>> /\ drawn = <<>>

-----------------------------------------------------------------------------
(* The session draws, or calls set.seed(), between two calls.              *)
Elsewhere ==
  /\ at = "idle"
  /\ session' \in Seeds
  /\ UNCHANGED <<store, at, call, engine>>

(* A new entry starts where the session is, an old one goes on from its    *)
(* own end.  A session that has drawn nothing is started first.            *)
Start(k) ==
  IF stream' /\ store[k] # NoEntry THEN session' = store[k].end
  ELSE IF session = NoSeed THEN session' \in Seeds
  ELSE UNCHANGED session

(* An entry that is long enough is returned as it is.                      *)
Call(kd, k, m, c) ==
  /\ at = "idle"
  /\ kd = "predict" \/ Held(k) < m
  /\ call' = [kind |-> kd, key |-> k, cores |-> c, session |-> session,
              n |-> IF kd = "predict" THEN m ELSE m - Held(k)]
  /\ Start(k)
  /\ seed_start' = session' /\ seed_end' = session'
  /\ plans' = <<>> /\ res' = <<>> /\ j' = 0
  /\ rows' = <<>> /\ status' = <<>> /\ drawn' = <<>>
  /\ at' = "round"
  /\ UNCHANGED store

Need == call.n - (IF replace THEN Len(rows) ELSE Len(status))

(* Mutant: the refits of the round before are still there.                 *)
Round_keepRes ==
  /\ at = "round" /\ Need > 0
  /\ plans' = <<>> /\ j' = 0
  /\ at' = "draw"
  /\ UNCHANGED <<session, store, call, seed_start, seed_end, res, rows, status,
                 drawn>>

(* `batch': as many draws as are missing, or one at a time.                *)
Round ==
  /\ at = "round" /\ Need > 0
  /\ plans' = <<>> /\ res' = <<>> /\ j' = 0
  /\ at' = "draw"
  /\ UNCHANGED <<session, store, call, seed_start, seed_end, rows, status, drawn>>

k_draws == IF call.kind = "predict" THEN 1 ELSE Need

Draw ==
  /\ at = "draw" /\ Len(plans) < k_draws
  /\ plans' = Append(plans, session)
  /\ res' = Append(res, NotRun)
  /\ session' = After[session]
  /\ UNCHANGED <<store, at, call, seed_start, seed_end, j, rows, status, drawn>>

(* A draw can raise: a prior that gives no draw for an effect.             *)
DrawRaises ==
  /\ at = "draw" /\ Len(plans) < k_draws
  /\ session' \in {session, After[session]}
  /\ at' = "failed"
  /\ UNCHANGED <<store, call, engine>>

(* worker_map(): over processes where there is more than one and they can  *)
(* be had, and here otherwise.  A cluster that does not start, or cannot   *)
(* load the package, is no error.                                          *)
MapHere ==
  /\ at = "draw" /\ Len(plans) = k_draws
  /\ at' = "here"
  /\ UNCHANGED <<session, store, call, engine>>

MapThere ==
  /\ at = "draw" /\ Len(plans) = k_draws
  /\ call.cores > 1 /\ call.kind # "predict" /\ k_draws > 1
  /\ at' = "there"
  /\ UNCHANGED <<session, store, call, engine>>

(* Without `validate' only an error fails a replicate, unless its model has *)
(* a verdict of its own.                                                   *)
Refits(x) == LET s == Outcome[<<call.key, x>>] IN
             IF call.kind = "predict" /\ s # 1 THEN {0, s} ELSE {s}

Unrun == {i \in DOMAIN res : res[i] = NotRun}

(* Mutant: the generator is not put back after a refit in this process.    *)
RefitHere_moved ==
  /\ at = "here"
  /\ \E i \in Unrun :
       /\ \A l \in Unrun : i <= l
       /\ \E s \in Refits(plans[i]) : res' = [res EXCEPT ![i] = s]
       /\ session' \in {session, Reseeded[<<call.key, plans[i]>>]}
  /\ UNCHANGED <<store, at, call, seed_start, seed_end, plans, j, rows, status, drawn>>

(* boot_body() in this process, in order.  A refit that draws is seeded    *)
(* from its own draw; the generator is put back where the call keeps a     *)
(* stream.                                                                 *)
RefitHere ==
  /\ at = "here"
  /\ \E i \in Unrun :
       /\ \A l \in Unrun : i <= l
       /\ \E s \in Refits(plans[i]) : res' = [res EXCEPT ![i] = s]
       /\ IF stream THEN UNCHANGED session
          ELSE session' \in {session, Reseeded[<<call.key, plans[i]>>]}
  /\ UNCHANGED <<store, at, call, seed_start, seed_end, plans, j, rows, status, drawn>>

(* In a process of its own, in any order.                                  *)
RefitThere ==
  /\ at = "there"
  /\ \E i \in Unrun : \E s \in Refits(plans[i]) : res' = [res EXCEPT ![i] = s]
  /\ UNCHANGED <<session, store, at, call, seed_start, seed_end, plans, j, rows, status, drawn>>

WorkerDies ==
  /\ at = "there"
  /\ at' = "failed"
  /\ UNCHANGED <<session, store, call, engine>>

AllRun ==
  /\ at \in {"here", "there"} /\ Unrun = {}
  /\ at' = "read"
  /\ UNCHANGED <<session, store, call, engine>>

enough == replace /\ Len(rows) >= call.n
reading == j < Len(plans) /\ ~enough

(* Mutant: the failures are not recorded.                                  *)
ReadOne_unrecorded ==
  /\ at = "read" /\ reading
  /\ j' = j + 1
  /\ LET x == plans[j'] IN
       IF res[j'] = 0
       THEN /\ status' = Append(status, 0) /\ drawn' = Append(drawn, x)
            /\ rows' = Append(rows, x) /\ seed_end' = After[x]
       ELSE UNCHANGED <<status, drawn, rows, seed_end>>
  /\ UNCHANGED <<session, store, at, call, seed_start, plans, res>>

(* Mutant: a refit that only missed its mode is kept.                      *)
ReadOne_modeKept ==
  /\ at = "read" /\ reading
  /\ j' = j + 1
  /\ LET x == plans[j'] IN
       /\ status' = Append(status, res[j']) /\ drawn' = Append(drawn, x)
       /\ seed_end' = IF stream THEN After[x] ELSE seed_end
       /\ IF res[j'] \in {0, 2} THEN rows' = Append(rows, x) ELSE UNCHANGED rows
  /\ UNCHANGED <<session, store, at, call, seed_start, plans, res>>

(* The refits are read in the order of the draws; a kept one may be handed *)
(* to the caller's hook, which draws.                                      *)
ReadOne ==
  /\ at = "read" /\ reading
  /\ j' = j + 1
  /\ LET x == plans[j'] IN
       /\ status' = Append(status, res[j']) /\ drawn' = Append(drawn, x)
       /\ seed_end' = IF stream THEN After[x] ELSE seed_end
       /\ IF res[j'] = 0 THEN rows' = Append(rows, x) ELSE UNCHANGED rows
  /\ IF call.kind = "predict" /\ res[j'] = 0 THEN session' \in Seeds
     ELSE UNCHANGED session
  /\ UNCHANGED <<store, at, call, seed_start, plans, res>>

Failures == Len(status) - Len(rows)

MostFail == /\ replace /\ Len(rows) < call.n
            /\ Len(status) >= MinDraws /\ Failures > Len(rows)

(* Nothing is stored, and the generator stays where the draws left it.     *)
GiveUp ==
  /\ at = "read" /\ ~reading /\ MostFail
  /\ at' = "failed"
  /\ UNCHANGED <<session, store, call, engine>>

NextRound ==
  /\ at = "read" /\ ~reading /\ ~MostFail
  /\ at' = "round"
  /\ UNCHANGED <<session, store, call, engine>>

Fresh == [start |-> seed_start, end |-> seed_end, rows |-> rows,
          status |-> status, draws |-> drawn]

Extended(e) ==
  [start |-> e.start, end |-> seed_end, rows |-> e.rows \o rows,
   status |-> e.status \o status, draws |-> e.draws \o drawn]

(* The variables of the call go with it.                                   *)
Return ==
  /\ at' = "idle" /\ call' = NoCall
  /\ seed_start' = NoSeed /\ seed_end' = NoSeed
  /\ plans' = <<>> /\ res' = <<>> /\ j' = 0
  /\ rows' = <<>> /\ status' = <<>> /\ drawn' = <<>>

(* The generator is set to the end of the stream kept, or back to where a  *)
(* "stored" call found it, and the entry is written.                       *)
FinishCall ==
  /\ at = "round" /\ Need <= 0
  /\ session' = CASE call.kind = "fill" -> seed_end
                  [] call.kind = "stored" ->
                       IF call.session = NoSeed THEN seed_end ELSE call.session
                  [] call.kind = "predict" -> session
  /\ IF call.kind = "predict" THEN UNCHANGED store
     ELSE store' = [store EXCEPT ![call.key] =
                      IF @ = NoEntry THEN Fresh ELSE Extended(@)]
  /\ Return

Abandon == at = "failed" /\ Return /\ UNCHANGED <<session, store>>

Engine == \/ Round \/ Draw \/ MapHere \/ MapThere \/ RefitHere \/ RefitThere
          \/ AllRun \/ ReadOne \/ GiveUp \/ NextRound \/ FinishCall \/ Abandon

EngineNext == \/ Elsewhere
              \/ \E kd \in Kinds, k \in Keys, m \in Wanted, c \in Cores : Call(kd, k, m, c)
              \/ DrawRaises \/ WorkerDies
              \/ Engine

EngineSpec == EngineInit /\ [][EngineNext]_engineVars /\ WF_engineVars(Engine)
-----------------------------------------------------------------------------
(* The draws ds are those of one run of the generator from s to e.         *)
Run(s, ds, e) ==
  /\ ds = <<>> => e = s
  /\ ds # <<>> => ds[1] = s /\ e = After[ds[Len(ds)]]
  /\ \A i \in 1 .. Len(ds) - 1 : ds[i + 1] = After[ds[i]]

Recorded(k, ds, st) == /\ Len(st) = Len(ds)
                       /\ \A i \in 1 .. Len(ds) : st[i] = Outcome[<<k, ds[i]>>]

LastKept(k, ds) == ds # <<>> /\ Outcome[<<k, ds[Len(ds)]>>] = 0

(* "500 replicates and then 300 more equal the 800 replicates of a single  *)
(* call from the same seed" (R/bootstrap_fit.R:38): the draws of an entry, *)
(* failed ones among them, are those one call would have made from its     *)
(* seed, and it ends after the last one kept, however many calls built it, *)
(* over however many processes, whatever was drawn or failed in between.   *)
EntryIsOneRun ==
  \A k \in Keys : store[k] # NoEntry =>
    /\ Run(store[k].start, store[k].draws, store[k].end)
    /\ Recorded(k, store[k].draws, store[k].status)
    /\ LastKept(k, store[k].draws)

(* The places of the draws ds whose replicates are kept, and the rows rs   *)
(* that hold these in the order of the draws, each at its rank.            *)
Places(k, ds) == {i \in 1 .. Len(ds) : Outcome[<<k, ds[i]>>] = 0}
UpTo(P, i) == {l \in P : l <= i}

InOrder(k, ds, rs) ==
  LET P == Places(k, ds)
  IN  /\ Len(rs) = Cardinality(P)
      /\ \A i \in P : rs[Cardinality(UpTo(P, i))] = ds[i]

(* The replicates of an entry are those of its draws that were kept, in    *)
(* the order of the draws and not of the processes, and a call ends with   *)
(* as many as were asked for, or, where failures are not replaced, after   *)
(* as many draws.                                                          *)
RowsAreTheKept ==
  /\ \A k \in Keys : store[k] # NoEntry =>
       InOrder(k, store[k].draws, store[k].rows)
  /\ (at = "round" /\ Need <= 0) =>
       IF replace
       THEN Len(rows) = call.n /\ Held(call.key) + call.n \in Wanted
       ELSE Len(status) = call.n

(* A call ends, however many replicates fail.                              *)
CallsEnd == (at # "idle") ~> (at = "idle")
=============================================================================
