----------------------------- MODULE ParKernels -----------------------------
(***************************************************************************)
(* The threaded kernels with the threads of par_for.h: a region splits its *)
(* range into chunks of consecutive elements, the threads of the pool take *)
(* chunks as they come and run their bodies at the same time over the one  *)
(* output, and the caller goes on when the last chunk is done.  A body     *)
(* accumulates an entry and then stores it, in two steps.  Which chunks a  *)
(* range is cut into, and who takes them, is RcppParallel's.  The entries  *)
(* one body writes are stored here in any order.                           *)
(***************************************************************************)
EXTENDS Kernels, FiniteSets

CONSTANTS Calls,         \* the calls, records with the kernel's dimensions
          Envs,          \* floating-point environments
          MaxThreads,    \* the largest `threads' a caller asks for
          LeverageGate,  \* the rows from which the leverage is threaded
          QrGate,        \* the work from which a Householder step is
          NoCall, Nothing

ASSUME ParAssumption ==
  /\ MaxThreads \in Nat \ {0} /\ LeverageGate \in Nat /\ QrGate \in Nat
  /\ NoCall \notin Calls
  /\ \A c \in Calls :
       \/ c \in [kernel: {"xtv", "wxsq", "xtx"}, n: Nat, p: Nat]
       \/ c \in [kernel: {"wcrossprod"}, n: Nat, pa: Nat, pb: Nat]
       \/ /\ c.kernel = "leverage" /\ c.n \in Nat
          /\ {c.na, c.nb} \subseteq [Below(c.n) -> Nat]
       \/ c \in [kernel: {"qr"}, m: Nat, p: Nat]

VARIABLES phase,    \* "idle", "step", "open", "region" or "done"
          call, threads,
          step,     \* the Householder step j
          v,        \* its reflector, which the bodies share
          env,      \* what the worker's constructor read off the caller
          mem,      \* the output
          before,   \* the output as the region was opened
          part,     \* the chunk of each element of the range, by its first
          free,     \* the elements of the chunks nobody has taken
          left,     \* per thread: what is left of its chunk
          todo,     \* per thread: the entries its current body has to store
          acc,      \* per thread: the entry it has computed, or Nothing
          mode      \* per thread: the environment it computes in

caller == <<phase, call, threads, step, v, env>>
region == <<before, part>>
work   == <<free, left, todo, acc, mode>>
vars   == <<caller, region, work, mem>>

Threads == 1 .. MaxThreads
None == [t \in Threads |-> {}]
Least(S) == CHOOSE x \in S : \A y \in S : x <= y

TypeOK ==
  /\ phase \in {"idle", "step", "open", "region", "done"}
  /\ call \in Calls \union {NoCall}
  /\ threads \in Threads
  /\ step \in Nat
  /\ env \in Envs
  /\ mode \in [Threads -> Envs]
  /\ phase = "region" =>
       /\ DOMAIN mem = Entries(call) /\ DOMAIN before = Entries(call)
       /\ free \subseteq Region(call, step).range
       /\ left \in [Threads -> SUBSET Region(call, step).range]
       /\ todo \in [Threads -> SUBSET Entries(call)]
       /\ acc \in [Threads -> Entries(call) \X {Stored(call, x, before[x], v, env) :
                                                 x \in Entries(call)}
                              \union {Nothing}]

Init ==
  /\ phase = "idle" /\ call = NoCall /\ threads = 1
  /\ step = 0 /\ v = Zero /\ mem = <<>> /\ before = <<>> /\ part = <<>>
  /\ free = {} /\ left = None /\ todo = None
  /\ acc = [t \in Threads |-> Nothing]
  /\ env \in Envs /\ mode \in [Threads -> Envs]

(* A kernel allocates its output, zero or a copy of the matrix to factor.  *)
Begin ==
  /\ phase = "idle"
  /\ call' \in Calls /\ threads' \in Threads /\ env' \in Envs
  /\ mem' = [x \in Entries(call') |-> Zero]
  /\ phase' = IF call'.kernel = "qr" THEN "step" ELSE "open"
  /\ step' = 0 /\ v' = Zero
  /\ UNCHANGED <<region, work>>

(* The two `continue's of a Householder step before its column is written. *)
PassOver ==
  /\ phase = "step" /\ step < Steps(call)
  /\ step' = step + 1
  /\ UNCHANGED <<phase, call, threads, v, env, region, work, mem>>

(* The reflector is formed from the column and the column reduced.         *)
Reflect ==
  /\ phase = "step" /\ step < Steps(call)
  /\ v' = <<step, mem[<<0, step>>]>>
  /\ mem' = [mem EXCEPT ![<<0, step>>] = Append(@, Reduced)]
  /\ IF step + 1 < call.p THEN phase' = "open" /\ UNCHANGED step
                          ELSE phase' = "step" /\ step' = step + 1
  /\ UNCHANGED <<call, threads, env, region, work>>

(* The count of threads a region is opened with.                           *)
Team ==
  CASE call.kernel = "leverage" -> IF call.n >= LeverageGate THEN threads ELSE 1
    [] call.kernel = "qr" ->
         IF (call.p - step - 1) * (call.m - step) >= QrGate THEN threads ELSE 1
    [] OTHER -> threads

(* par_for(): chunks of consecutive elements; on one thread the range is   *)
(* one chunk, run by the caller.                                           *)
Open ==
  /\ phase = "open"
  /\ LET R == Region(call, step).range
     IN  /\ part' \in {f \in [R -> R] : \A i, j \in R :
                          f[i] <= i /\ f[f[i]] = f[i] /\ (i <= j => f[i] <= f[j])}
         /\ Team = 1 => \A i \in R : part'[i] = 0
         /\ free' = R
  /\ phase' = "region" /\ before' = mem
  /\ UNCHANGED <<call, threads, step, v, env, left, todo, acc, mode, mem>>

(* Mutant: the worker does not install the caller's environment.           *)
Take_ownEnv(t) ==
  /\ phase = "region" /\ t <= Team /\ left[t] = {}
  /\ \E k \in {part[i] : i \in free} :
       LET chunk == {i \in free : part[i] = k}
       IN  /\ left' = [left EXCEPT ![t] = chunk]
           /\ todo' = [todo EXCEPT ![t] = Region(call, step).writes[Least(chunk)]]
           /\ free' = free \ chunk
  /\ UNCHANGED <<caller, region, acc, mode, mem>>

(* A thread takes a chunk and installs the environment before its bodies.  *)
Take(t) ==
  /\ phase = "region" /\ t <= Team /\ left[t] = {}
  /\ \E k \in {part[i] : i \in free} :
       LET chunk == {i \in free : part[i] = k}
       IN  /\ left' = [left EXCEPT ![t] = chunk]
           /\ todo' = [todo EXCEPT ![t] = Region(call, step).writes[Least(chunk)]]
           /\ free' = free \ chunk
  /\ mode' = [mode EXCEPT ![t] = env]
  /\ UNCHANGED <<caller, region, acc, mem>>

(* The sum of an entry, or a column and its product with the reflector.    *)
Accumulate(t) ==
  /\ phase = "region" /\ acc[t] = Nothing
  /\ \E x \in todo[t] :
       acc' = [acc EXCEPT ![t] = <<x, Stored(call, x, mem[x], v, mode[t])>>]
  /\ UNCHANGED <<caller, region, free, left, todo, mode, mem>>

Store(t) ==
  /\ phase = "region" /\ acc[t] # Nothing
  /\ mem' = [mem EXCEPT ![acc[t][1]] = acc[t][2]]
  /\ todo' = [todo EXCEPT ![t] = @ \ {acc[t][1]}]
  /\ acc' = [acc EXCEPT ![t] = Nothing]
  /\ UNCHANGED <<caller, region, free, left, mode>>

(* Mutant: the loop over a chunk does not see its end.                     *)
Advance_noEnd(t) ==
  /\ phase = "region" /\ left[t] # {} /\ todo[t] = {}
  /\ LET rest == left[t] \ {Least(left[t])}
     IN  IF rest = {} THEN UNCHANGED <<left, todo>>
         ELSE /\ left' = [left EXCEPT ![t] = rest]
              /\ todo' = [todo EXCEPT ![t] = Region(call, step).writes[Least(rest)]]
  /\ UNCHANGED <<caller, region, free, acc, mode, mem>>

(* The body of an element is done: the next one of the chunk.              *)
Advance(t) ==
  /\ phase = "region" /\ left[t] # {} /\ todo[t] = {}
  /\ LET rest == left[t] \ {Least(left[t])}
     IN  /\ left' = [left EXCEPT ![t] = rest]
         /\ todo' = [todo EXCEPT ![t] = IF rest = {} THEN {}
                                        ELSE Region(call, step).writes[Least(rest)]]
  /\ UNCHANGED <<caller, region, free, acc, mode, mem>>

(* parallelFor() returns when every chunk has been run.                    *)
Join ==
  /\ phase = "region" /\ free = {} /\ left = None
  /\ IF call.kernel = "qr" THEN phase' = "step" /\ step' = step + 1
                           ELSE phase' = "done" /\ UNCHANGED step
  /\ UNCHANGED <<call, threads, v, env, region, work, mem>>

(* The factor is read off the upper triangle.                              *)
Factored ==
  /\ phase = "step" /\ step = Steps(call)
  /\ phase' = "done"
  /\ UNCHANGED <<call, threads, step, v, env, region, work, mem>>

Return ==
  /\ phase = "done"
  /\ phase' = "idle" /\ call' = NoCall
  /\ UNCHANGED <<threads, step, v, env, region, work, mem>>

Worker(t) == Take(t) \/ Accumulate(t) \/ Store(t) \/ Advance(t)
Control == PassOver \/ Reflect \/ Open \/ Join \/ Factored \/ Return
Next == Begin \/ Control \/ \E t \in Threads : Worker(t)

(* A region's threads are running threads, and so is the caller.           *)
Fairness == WF_vars(Control) /\ \A t \in Threads : WF_vars(Worker(t))
Spec == Init /\ [][Next]_vars /\ Fairness

-----------------------------------------------------------------------------
(* What the entries a thread still has to read or write are.               *)
Held(t) == Owned(Region(call, step), left[t])

(* No entry belongs to two threads at work, and an entry a thread has      *)
(* computed is one of its own: without a lock, every access of a region is *)
(* free of races (par_for.h, wcrossprod.cpp, qr_factor.cpp).               *)
NoSharedEntry ==
  phase = "region" =>
    /\ \A t, s \in Threads : t # s => Held(t) \intersect Held(s) = {}
    /\ \A t \in Threads : acc[t] # Nothing => acc[t][1] \in Held(t)
    /\ \A t \in Threads :
         \A x \in Held(t) : x[2] # step \/ call.kernel # "qr"

(* What an entry is by the kernel's own formula, entry by entry.           *)
ByFormula(c, x, e) ==
  CASE c.kernel = "xtv" ->
         Sum([i \in 1 .. c.n |-> Times(<<"X", i, x[2]>>, <<"v", i, 0>>)], e)
    [] c.kernel = "wxsq" ->
         Sum([i \in 1 .. c.n |->
                <<<<"w", i, 0>>, Times(<<"X", i, x[2]>>, <<"X", i, x[2]>>)>>], e)
    [] c.kernel = "xtx" ->
         Sum([i \in 1 .. c.n |-> Times(<<"A", i, x[2]>>, <<"A", i, x[1]>>)], e)
    [] c.kernel = "wcrossprod" ->
         Sum([i \in 1 .. c.n |->
                <<Times(<<"w", i, 0>>, <<"A", i, x[1]>>), <<"B", i, x[2]>>>>], e)
    [] OTHER -> mem[x]

(* What a column went through before it was itself reduced.                *)
Incoming(col) ==
  IF col # Zero /\ col[Len(col)] = Reduced THEN SubSeq(col, 1, Len(col) - 1) ELSE col

StartsWith(col, own) ==
  Len(own) <= Len(col) /\ \A i \in 1 .. Len(own) : col[i] = own[i]

(* Every entry of a product is the ordered sum that its formula says, the  *)
(* mirrored half and the entries of the unfolded range included, and a     *)
(* column of a factor has gone through every reflector of the columns to   *)
(* its left, in their order: what it went through before its own reduction *)
(* is what every later column went through first (wcrossprod.cpp,          *)
(* qr_factor.cpp).                                                         *)
EntriesAreTheirSums ==
  phase = "done" =>
    /\ \A x \in Entries(call) : mem[x] = ByFormula(call, x, env)
    /\ call.kernel = "leverage" =>
         \A x \in Entries(call) :
           LET pairs == call.na[x[2]] * call.nb[x[2]]
           IN  IF pairs = 0 THEN mem[x] = Zero
               ELSE mem[x][1] = env /\ Len(mem[x][2]) = pairs
    /\ call.kernel = "qr" =>
         \A x, y \in Entries(call) :
           x[2] < y[2] => StartsWith(mem[y], Incoming(mem[x]))

(* The kernels on any number of threads, whatever the chunks and whoever   *)
(* takes them, are the kernels on one thread: a region takes effect when   *)
(* it is joined (par_for.h: bit-identical at any thread count).            *)
OnOneThread == INSTANCE OneThread
  WITH phase <- IF phase = "open" THEN "region" ELSE phase,
       mem <- IF phase = "region" THEN before ELSE mem
SameAtAnyCount == OnOneThread!Spec

(* Every call returns: no thread waits for another inside a region, and    *)
(* the chunks run out.                                                     *)
CallsReturn == phase # "idle" ~> phase = "idle"
=============================================================================
