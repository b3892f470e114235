-------------------------- MODULE ParKernels_proofs --------------------------
(***************************************************************************)
(* Proofs about ParKernels, for any set of calls, any dimensions, any      *)
(* number of threads, any chunks and any way of taking them.               *)
(***************************************************************************)
EXTENDS ParKernels, SequenceTheorems, FiniteSetTheorems, WellFoundedInduction, TLAPS

(* The least element of a set of naturals is one of its elements.          *)
LEMMA LeastIsElement ==
  ASSUME NEW S \in SUBSET Nat, S # {}
  PROVE  Least(S) \in S
<1> DEFINE R == {z \in Nat \X Nat : z[1] < z[2]}
<1>1. IsWellFoundedOn(R, Nat)
  BY NatLessThanWellFounded DEF OpToRel
<1>2. \E x \in S : \A y \in S : ~ (<<y, x>> \in R)
  <2> HIDE DEF R
  <2> QED BY <1>1, WFMin
<1>3. PICK x \in S : \A y \in S : ~ (<<y, x>> \in R)
  BY <1>2
<1>4. \A y \in S : x <= y
  <2> TAKE y \in S
  <2>1. <<y, x>> \in Nat \X Nat /\ <<y, x>> \notin R
    BY <1>3
  <2>2. ~ (<<y, x>>[1] < <<y, x>>[2])
    BY <2>1
  <2> QED BY <2>2
<1> QED BY <1>4 DEF Least

Kind(c) ==
  \/ c \in [kernel: {"xtv", "wxsq", "xtx"}, n: Nat, p: Nat]
  \/ c \in [kernel: {"wcrossprod"}, n: Nat, pa: Nat, pb: Nat]
  \/ /\ c.kernel = "leverage" /\ c.n \in Nat
     /\ {c.na, c.nb} \subseteq [Below(c.n) -> Nat]
  \/ c \in [kernel: {"qr"}, m: Nat, p: Nat]

(* What the bodies of a region own: entries of the output, none of them    *)
(* shared by two elements of the range.                                    *)
OwnsApart(c, r) ==
  /\ r.range \subseteq Nat
  /\ \A t \in r.range : r.writes[t] \subseteq Entries(c)
  /\ \A t, s \in r.range : t # s => r.writes[t] \intersect r.writes[s] = {}

LEMMA VectorsApart ==
  ASSUME NEW c, c.kernel \in {"xtv", "wxsq"}, c.p \in Nat, NEW j
  PROVE  OwnsApart(c, Region(c, j))
<1>1. CASE c.kernel = "xtv"
  <2>1. Region(c, j) = Xtv(c)
    BY <1>1 DEF Region
  <2> QED BY <2>1, <1>1 DEF Xtv, OwnsApart, Entries, Below
<1>2. CASE c.kernel = "wxsq"
  <2>1. Region(c, j) = Wxsq(c)
    BY <1>2 DEF Region
  <2> QED BY <2>1, <1>2 DEF Wxsq, OwnsApart, Entries, Below
<1> QED BY <1>1, <1>2

(* The pair (j, k) and its mirror belong to the larger of j and k.         *)
LEMMA MirrorsApart ==
  ASSUME NEW c, c.kernel = "xtx", c.p \in Nat, NEW j
  PROVE  OwnsApart(c, Region(c, j))
<1>1. Region(c, j) = Xtx(c)
  BY DEF Region
<1> DEFINE W(k) == {<<i, k>> : i \in 0 .. k} \union {<<k, i>> : i \in 0 .. k}
<1>2. /\ Region(c, j).range = Below(c.p)
      /\ \A k \in Below(c.p) : Region(c, j).writes[k] = W(k)
  BY <1>1 DEF Xtx
<1>3. \A k \in Below(c.p) : W(k) \subseteq Below(c.p) \X Below(c.p)
  BY DEF Below
<1>4. \A k, l \in Below(c.p) : k # l => W(k) \intersect W(l) = {}
  <2> SUFFICES ASSUME NEW k \in Below(c.p), NEW l \in Below(c.p), k # l,
                      NEW x, x \in W(k), x \in W(l)
               PROVE  FALSE
    OBVIOUS
  <2>1. \E i \in 0 .. k : x = <<i, k>> \/ x = <<k, i>>
    OBVIOUS
  <2>2. \E i \in 0 .. l : x = <<i, l>> \/ x = <<l, i>>
    OBVIOUS
  <2> QED BY <2>1, <2>2 DEF Below
<1>5. Entries(c) = Below(c.p) \X Below(c.p)
  BY DEF Entries
<1> QED BY <1>2, <1>3, <1>4, <1>5 DEF OwnsApart, Below

(* Element t of the range is k pa + j for one pair (j, k) only.            *)
LEMMA UnfoldedApart ==
  ASSUME NEW c, c.kernel = "wcrossprod", c.pa \in Nat, c.pb \in Nat, NEW j
  PROVE  OwnsApart(c, Region(c, j))
<1>1. Region(c, j) = Wcrossprod(c)
  BY DEF Region
<1> DEFINE x(t) == <<t - (t \div c.pa) * c.pa, t \div c.pa>>
<1>2. /\ Region(c, j).range = Below(c.pa * c.pb)
      /\ \A t \in Below(c.pa * c.pb) : Region(c, j).writes[t] = {x(t)}
  BY <1>1 DEF Wcrossprod
<1>3. Entries(c) = Below(c.pa) \X Below(c.pb)
  BY DEF Entries
<1>4. ASSUME NEW t \in Below(c.pa * c.pb)
      PROVE  x(t) \in Entries(c) /\ t \div c.pa \in Nat
  <2>1. c.pa > 0 /\ c.pb > 0 /\ t \in Nat /\ t < c.pa * c.pb
    BY DEF Below
  <2>2. /\ t \div c.pa \in Nat
        /\ (t \div c.pa) * c.pa <= t /\ t < (t \div c.pa) * c.pa + c.pa
    BY <2>1
  <2>3. t \div c.pa < c.pb
    BY <2>1, <2>2
  <2> QED BY <1>3, <2>1, <2>2, <2>3 DEF Below
<1>5. ASSUME NEW t \in Below(c.pa * c.pb), NEW s \in Below(c.pa * c.pb), x(t) = x(s)
      PROVE  t = s
  <2>1. /\ t - (t \div c.pa) * c.pa = s - (s \div c.pa) * c.pa
        /\ t \div c.pa = s \div c.pa
    BY <1>5
  <2>2. t - (t \div c.pa) * c.pa = s - (t \div c.pa) * c.pa
    BY <2>1
  <2>3. (t \div c.pa) * c.pa \in Int /\ t \in Int /\ s \in Int
    BY <1>4 DEF Below
  <2> QED BY <2>2, <2>3
<1>6. Below(c.pa * c.pb) \subseteq Nat
  BY DEF Below
<1> QED BY <1>2, <1>4, <1>5, <1>6 DEF OwnsApart

LEMMA RowsApart ==
  ASSUME NEW c, c.kernel = "leverage", c.n \in Nat, NEW j
  PROVE  OwnsApart(c, Region(c, j))
<1>1. Region(c, j) = Leverage(c)
  BY DEF Region
<1> QED BY <1>1 DEF Leverage, OwnsApart, Entries, Below

(* The trailing columns lie to the right of the one being reduced.         *)
LEMMA ColumnsApart ==
  ASSUME NEW c, c.kernel = "qr", c.p \in Nat, NEW j \in Nat
  PROVE  /\ OwnsApart(c, Region(c, j))
         /\ \A t \in Region(c, j).range :
              \A x \in Region(c, j).writes[t] : x[2] # j
<1>1. Region(c, j) = Trailing(c, j)
  BY DEF Region
<1> QED BY <1>1 DEF Trailing, OwnsApart, Entries, Below

(* The bodies of any region of any call own their entries apart.           *)
LEMMA RegionsApart ==
  ASSUME NEW c \in Calls, NEW j \in Nat
  PROVE  OwnsApart(c, Region(c, j))
<1>1. Kind(c)
  BY ParAssumption DEF Kind
<1>2. CASE c \in [kernel: {"xtv", "wxsq", "xtx"}, n: Nat, p: Nat]
  BY <1>2, VectorsApart, MirrorsApart
<1>3. CASE c \in [kernel: {"wcrossprod"}, n: Nat, pa: Nat, pb: Nat]
  BY <1>3, UnfoldedApart
<1>4. CASE /\ c.kernel = "leverage" /\ c.n \in Nat
           /\ {c.na, c.nb} \subseteq [Below(c.n) -> Nat]
  BY <1>4, RowsApart
<1>5. CASE c \in [kernel: {"qr"}, m: Nat, p: Nat]
  BY <1>5, ColumnsApart
<1> QED BY <1>1, <1>2, <1>3, <1>4, <1>5 DEF Kind

-----------------------------------------------------------------------------
(* The inductive invariant.  Outside a region nobody is at work; inside    *)
(* one the elements of the range are dealt out once (Chunks), a thread has *)
(* computed only an entry it still has to store, from what the entry held  *)
(* when the region was opened and in the caller's environment (Bodies),    *)
(* and an entry holds what it held until it is stored and its final value  *)
(* from then on (Contents).                                                *)
Reg == Region(call, step)

Outer ==
  /\ phase \in {"idle", "step", "open", "region", "done"}
  /\ call \in Calls \union {NoCall}
  /\ phase # "idle" => call \in Calls
  /\ threads \in Threads /\ step \in Nat /\ env \in Envs
  /\ mode \in [Threads -> Envs]
  /\ phase # "idle" => mem = [x \in Entries(call) |-> mem[x]]
  /\ phase # "region" => /\ free = {} /\ left = None /\ todo = None
                         /\ acc = [t \in Threads |-> Nothing]

Chunks ==
  /\ free \subseteq Reg.range
  /\ left \in [Threads -> SUBSET Reg.range]
  /\ \A t \in Threads : free \intersect left[t] = {}
  /\ \A t, s \in Threads : t # s => left[t] \intersect left[s] = {}

Computed(t) == {<<x, Stored(call, x, before[x], v, env)>> : x \in todo[t]}

Bodies ==
  /\ todo \in [Threads -> SUBSET Entries(call)]
  /\ acc = [t \in Threads |-> acc[t]]
  /\ \A t \in Threads :
       /\ left[t] = {} => todo[t] = {}
       /\ left[t] # {} => /\ todo[t] \subseteq Reg.writes[Least(left[t])]
                          /\ mode[t] = env
       /\ acc[t] # Nothing => acc[t] \in Computed(t)

Waiting(x) ==
  \/ x \in Owned(Reg, free)
  \/ \E t \in Threads : \/ x \in Owned(Reg, left[t] \ {Least(left[t])})
                        \/ x \in todo[t]

Contents ==
  /\ before = [x \in Entries(call) |-> before[x]]
  /\ \A x \in Entries(call) :
       mem[x] = IF Waiting(x) \/ x \notin Owned(Reg, Reg.range) THEN before[x]
                ELSE Stored(call, x, before[x], v, env)

IInv == Outer /\ (phase = "region" => Chunks /\ Bodies /\ Contents)

LEMMA InitInv == Init => IInv
BY ParAssumption DEF Init, IInv, Outer, None, Threads

-----------------------------------------------------------------------------
(* Outside the regions, and across their opening and their joining.        *)
LEMMA OuterSteps ==
  ASSUME IInv, Begin \/ PassOver \/ Reflect \/ Factored \/ Return
  PROVE  IInv'
<1>1. phase # "region" /\ phase' # "region"
  BY DEF Begin, PassOver, Reflect, Factored, Return
<1>2. Outer'
  <2>1. CASE Begin
    <3>1. /\ call' \in Calls /\ threads' \in Threads /\ env' \in Envs
          /\ phase' \in {"step", "open"} /\ step' = 0
          /\ mem' = [x \in Entries(call') |-> Zero]
          /\ UNCHANGED <<free, left, todo, acc, mode>>
      BY <2>1 DEF Begin, work
    <3>2. mem' = [x \in Entries(call') |-> mem'[x]]
      BY <3>1
    <3>3. /\ mode \in [Threads -> Envs] /\ free = {} /\ left = None
          /\ todo = None /\ acc = [t \in Threads |-> Nothing]
      BY <1>1 DEF IInv, Outer
    <3> QED BY <3>1, <3>2, <3>3 DEF Outer
  <2>2. CASE PassOver
    BY <1>1, <2>2 DEF IInv, Outer, PassOver, region, work
  <2>3. CASE Reflect
    <3>1. /\ phase' \in {"open", "step"} /\ step' \in {step, step + 1}
          /\ mem' = [mem EXCEPT ![<<0, step>>] = Append(@, Reduced)]
          /\ UNCHANGED <<call, threads, env, free, left, todo, acc, mode>>
          /\ phase = "step"
      BY <2>3 DEF Reflect, work
    <3>2. Outer
      BY DEF IInv
    <3>3. mem' = [x \in Entries(call) |-> mem'[x]]
      BY <3>1, <3>2 DEF Outer
    <3>4. step' \in Nat
      BY <3>1, <3>2 DEF Outer
    <3> QED BY <3>1, <3>2, <3>3, <3>4 DEF Outer
  <2>4. CASE Factored
    BY <1>1, <2>4 DEF IInv, Outer, Factored, region, work
  <2>5. CASE Return
    BY <1>1, <2>5 DEF IInv, Outer, Return, region, work
  <2> QED BY <2>1, <2>2, <2>3, <2>4, <2>5
<1> QED BY <1>1, <1>2 DEF IInv

LEMMA OpenStep ==
  ASSUME IInv, Open
  PROVE  IInv'
<1>1. /\ phase = "open" /\ phase' = "region" /\ before' = mem /\ mem' = mem
      /\ free' = Reg.range
      /\ UNCHANGED <<call, threads, step, v, env, left, todo, acc, mode>>
  BY DEF Open, Reg
<1>2. /\ Outer /\ call \in Calls /\ left = None /\ todo = None
      /\ acc = [t \in Threads |-> Nothing]
  BY <1>1 DEF IInv, Outer
<1>3. Reg' = Reg
  BY <1>1 DEF Reg
<1>4. Outer'
  BY <1>1, <1>2 DEF Outer
<1>5. Chunks'
  BY <1>1, <1>2, <1>3 DEF Chunks, None
<1>6. Bodies'
  BY <1>1, <1>2, <1>3 DEF Bodies, None
<1>7. Contents'
  <2>1. mem = [x \in Entries(call) |-> mem[x]]
    BY <1>1, <1>2 DEF Outer
  <2>2. \A x : x \in Owned(Reg, Reg.range) => Waiting(x)'
    BY <1>1, <1>3 DEF Waiting
  <2> QED BY <1>1, <1>3, <2>1, <2>2 DEF Contents
<1> QED BY <1>4, <1>5, <1>6, <1>7 DEF IInv

(* A region joined has had its whole effect.                               *)
LEMMA Joined ==
  ASSUME IInv, phase = "region", free = {}, left = None
  PROVE  /\ mem = Effect(call, step, before, v, env)
         /\ todo = None /\ acc = [t \in Threads |-> Nothing]
<1>1. Outer /\ Chunks /\ Bodies /\ Contents
  BY DEF IInv
<1>2. todo = None
  BY <1>1 DEF Bodies, None
<1>3. acc = [t \in Threads |-> Nothing]
  BY <1>1, <1>2 DEF Bodies, Computed, None
<1>4. \A x : ~ Waiting(x)
  BY <1>2 DEF Waiting, None, Owned
<1>5. mem = [x \in Entries(call) |-> mem[x]]
  BY <1>1 DEF Outer
<1>6. \A x \in Entries(call) :
        mem[x] = IF x \in Owned(Reg, Reg.range)
                 THEN Stored(call, x, before[x], v, env) ELSE before[x]
  BY <1>1, <1>4 DEF Contents
<1>7. mem = Effect(call, step, before, v, env)
  BY <1>5, <1>6 DEF Effect, Reg
<1> QED BY <1>2, <1>3, <1>7

LEMMA JoinStep ==
  ASSUME IInv, Join
  PROVE  IInv'
<1>1. /\ phase = "region" /\ phase' # "region" /\ free = {} /\ left = None
      /\ UNCHANGED <<call, threads, v, env, region, work, mem>>
      /\ phase' \in {"step", "done"} /\ (step' = step + 1 \/ step' = step)
  BY DEF Join
<1>2. todo = None /\ acc = [t \in Threads |-> Nothing]
  BY <1>1, Joined
<1>3. Outer'
  BY <1>1, <1>2 DEF IInv, Outer, work
<1> QED BY <1>1, <1>3 DEF IInv

-----------------------------------------------------------------------------
(* The steps of the threads.                                               *)

(* An entry has one owner.                                                 *)
LEMMA OneOwner ==
  ASSUME IInv, phase = "region"
  PROVE  /\ Reg.range \subseteq Nat
         /\ \A i \in Reg.range : Reg.writes[i] \subseteq Entries(call)
         /\ \A i, j \in Reg.range : \A x : x \in Reg.writes[i] /\ x \in Reg.writes[j] => i = j
<1>1. call \in Calls /\ step \in Nat
  BY DEF IInv, Outer
<1>2. OwnsApart(call, Reg)
  BY <1>1, RegionsApart DEF Reg
<1> QED BY <1>2 DEF OwnsApart

(* Left of a chunk: what the current element owns, and the rest.           *)
LEMMA CurrentAndRest ==
  ASSUME NEW r, NEW S \in SUBSET Nat, S # {}
  PROVE  /\ Least(S) \in S
         /\ \A x : x \in Owned(r, S) <=> \/ x \in Owned(r, S \ {Least(S)})
                                        \/ x \in r.writes[Least(S)]
BY LeastIsElement DEF Owned

LEMMA TakeStep ==
  ASSUME IInv, NEW t \in Threads, Take(t)
  PROVE  IInv'
<1>1. PICK k \in {part[i] : i \in free} :
        LET chunk == {i \in free : part[i] = k}
        IN  /\ left' = [left EXCEPT ![t] = chunk]
            /\ todo' = [todo EXCEPT ![t] = Reg.writes[Least(chunk)]]
            /\ free' = free \ chunk
  BY DEF Take, Reg
<1> DEFINE chunk == {i \in free : part[i] = k}
<1>2. /\ left' = [left EXCEPT ![t] = chunk]
      /\ todo' = [todo EXCEPT ![t] = Reg.writes[Least(chunk)]]
      /\ free' = free \ chunk
      /\ chunk # {} /\ chunk \subseteq free
  BY <1>1
<1> HIDE DEF chunk
<1>3. /\ phase = "region" /\ left[t] = {} /\ mode' = [mode EXCEPT ![t] = env]
      /\ UNCHANGED <<caller, region, acc, mem>>
  BY DEF Take
<1>4. /\ Outer /\ Chunks /\ Bodies /\ Contents
  BY <1>3 DEF IInv
<1>5. Reg' = Reg /\ phase' = "region"
  BY <1>3 DEF Reg, caller
<1>6. chunk \in SUBSET Nat /\ chunk \subseteq Reg.range
  BY <1>2, <1>3, <1>4, OneOwner DEF Chunks
<1>7. Least(chunk) \in chunk
  BY <1>2, <1>6, LeastIsElement
<1>8. /\ left' \in [Threads -> SUBSET Reg.range]
      /\ left'[t] = chunk /\ todo'[t] = Reg.writes[Least(chunk)]
      /\ \A s \in Threads : s # t => left'[s] = left[s] /\ todo'[s] = todo[s]
  BY <1>2, <1>4, <1>6 DEF Chunks, Bodies
<1>9. Outer'
  BY <1>3, <1>4, <1>5 DEF Outer, caller
<1>10. Chunks'
  BY <1>2, <1>4, <1>5, <1>8 DEF Chunks
<1>11. Bodies'
  <2>1. Reg.writes[Least(chunk)] \subseteq Entries(call)
    BY <1>3, <1>6, <1>7, OneOwner
  <2>2. todo' \in [Threads -> SUBSET Entries(call)]
    BY <1>2, <1>4, <2>1 DEF Bodies
  <2>3. todo[t] = {} /\ acc[t] = Nothing
    BY <1>3, <1>4 DEF Bodies, Computed
  <2>4. \A s \in Threads : s # t => mode'[s] = mode[s]
    BY <1>3
  <2>5. mode'[t] = env
    BY <1>3, <1>4 DEF Outer
  <2>6. \A s \in Threads : s # t => Computed(s)' = Computed(s)
    BY <1>3, <1>8 DEF Computed, caller, region
  <2> QED BY <1>2, <1>3, <1>4, <1>5, <1>7, <1>8, <2>2, <2>3, <2>4, <2>5, <2>6
          DEF Bodies, caller
<1>12. Contents'
  <2>1. \A x : x \in Owned(Reg, chunk) <=> \/ x \in Owned(Reg, chunk \ {Least(chunk)})
                                           \/ x \in Reg.writes[Least(chunk)]
    BY <1>2, <1>6, CurrentAndRest
  <2>2. \A x : x \in Owned(Reg, free) <=> x \in Owned(Reg, free') \/ x \in Owned(Reg, chunk)
    BY <1>2 DEF Owned
  <2>3. Owned(Reg, left[t] \ {Least(left[t])}) = {} /\ todo[t] = {}
    BY <1>3, <1>4 DEF Owned, Bodies
  <2>4. \A x : Waiting(x)' <=> Waiting(x)
    BY <1>5, <1>8, <2>1, <2>2, <2>3 DEF Waiting
  <2> QED BY <1>3, <1>4, <1>5, <2>4 DEF Contents, caller, region
<1> QED BY <1>5, <1>9, <1>10, <1>11, <1>12 DEF IInv

LEMMA AccumulateStep ==
  ASSUME IInv, NEW t \in Threads, Accumulate(t)
  PROVE  IInv'
<1>1. /\ phase = "region"
      /\ UNCHANGED <<caller, region, free, left, todo, mode, mem>>
  BY DEF Accumulate
<1>2. PICK x \in todo[t] :
        acc' = [acc EXCEPT ![t] = <<x, Stored(call, x, mem[x], v, mode[t])>>]
  BY DEF Accumulate
<1>3. Outer /\ Chunks /\ Bodies /\ Contents
  BY <1>1 DEF IInv
<1>4. x \in Entries(call) /\ mode[t] = env
  BY <1>3 DEF Bodies
<1>5. mem[x] = before[x]
  BY <1>3, <1>4 DEF Contents, Waiting
<1>6. Reg' = Reg /\ phase' = "region" /\ \A s \in Threads : Computed(s)' = Computed(s)
  BY <1>1 DEF Reg, Computed, caller, region
<1>7. <<x, Stored(call, x, mem[x], v, mode[t])>> \in Computed(t)
  BY <1>4, <1>5 DEF Computed
<1>8. Outer'
  BY <1>1, <1>3, <1>6 DEF Outer, caller
<1>9. Chunks'
  BY <1>1, <1>3, <1>6 DEF Chunks
<1>10. Bodies'
  BY <1>1, <1>2, <1>3, <1>6, <1>7 DEF Bodies, caller
<1>11. Contents'
  BY <1>1, <1>3, <1>6 DEF Contents, Waiting, caller, region
<1> QED BY <1>6, <1>8, <1>9, <1>10, <1>11 DEF IInv

LEMMA StoreStep ==
  ASSUME IInv, NEW t \in Threads, Store(t)
  PROVE  IInv'
<1>1. /\ phase = "region" /\ acc[t] # Nothing
      /\ mem' = [mem EXCEPT ![acc[t][1]] = acc[t][2]]
      /\ todo' = [todo EXCEPT ![t] = @ \ {acc[t][1]}]
      /\ acc' = [acc EXCEPT ![t] = Nothing]
      /\ UNCHANGED <<caller, region, free, left, mode>>
  BY DEF Store
<1>2. Outer /\ Chunks /\ Bodies /\ Contents
  BY <1>1 DEF IInv
<1>3. PICK x \in todo[t] : acc[t] = <<x, Stored(call, x, before[x], v, env)>>
  BY <1>1, <1>2 DEF Bodies, Computed
<1>4. /\ mem' = [mem EXCEPT ![x] = Stored(call, x, before[x], v, env)]
      /\ todo' = [todo EXCEPT ![t] = @ \ {x}]
  BY <1>1, <1>3
<1>5. /\ x \in Entries(call) /\ left[t] # {}
      /\ x \in Reg.writes[Least(left[t])] /\ todo[t] \subseteq Reg.writes[Least(left[t])]
  BY <1>2 DEF Bodies
<1>6. Reg' = Reg /\ phase' = "region"
  BY <1>1 DEF Reg, caller
<1>7. \A s \in Threads : left[s] \subseteq Reg.range /\ left[s] \in SUBSET Nat
  BY <1>1, <1>2, OneOwner DEF Chunks
<1>8. \A s \in Threads : left[s] # {} => Least(left[s]) \in left[s]
  BY <1>7, LeastIsElement
<1>9. \A i \in Reg.range : x \in Reg.writes[i] => i = Least(left[t])
  BY <1>1, <1>5, <1>7, <1>8, OneOwner
<1>10. \A s \in Threads : s # t => x \notin todo[s]
  <2> SUFFICES ASSUME NEW s \in Threads, s # t, x \in todo[s] PROVE FALSE
    OBVIOUS
  <2>1. left[s] # {} /\ x \in Reg.writes[Least(left[s])]
    BY <1>2 DEF Bodies
  <2>2. Least(left[s]) = Least(left[t])
    BY <1>7, <1>8, <1>9, <2>1
  <2> QED BY <1>2, <1>5, <1>8, <2>1, <2>2 DEF Chunks
<1>11. x \notin Owned(Reg, free)
  <2> SUFFICES ASSUME NEW i \in free, x \in Reg.writes[i] PROVE FALSE
    BY DEF Owned
  <2>1. i = Least(left[t])
    BY <1>2, <1>9 DEF Chunks
  <2> QED BY <1>2, <1>5, <1>8, <2>1 DEF Chunks
<1>12. \A s \in Threads : x \notin Owned(Reg, left[s] \ {Least(left[s])})
  <2> SUFFICES ASSUME NEW s \in Threads,
                      NEW i \in left[s] \ {Least(left[s])}, x \in Reg.writes[i]
               PROVE  FALSE
    BY DEF Owned
  <2>1. i = Least(left[t])
    BY <1>7, <1>9
  <2>2. s = t
    BY <1>2, <1>5, <1>8, <2>1 DEF Chunks
  <2> QED BY <2>1, <2>2
<1>13. /\ todo' \in [Threads -> SUBSET Entries(call)]
       /\ todo'[t] = todo[t] \ {x}
       /\ \A s \in Threads : s # t => todo'[s] = todo[s]
  BY <1>2, <1>4 DEF Bodies
<1>14. Outer'
  <2>1. mem' = [y \in Entries(call) |-> mem'[y]]
    BY <1>1, <1>2, <1>4 DEF Outer
  <2> QED BY <1>1, <1>2, <1>6, <2>1 DEF Outer, caller
<1>15. Chunks'
  BY <1>1, <1>2, <1>6 DEF Chunks
<1>16. Bodies'
  <2>1. \A s \in Threads : s # t => Computed(s)' = Computed(s)
    BY <1>1, <1>13 DEF Computed, caller, region
  <2> QED BY <1>1, <1>2, <1>6, <1>13, <2>1 DEF Bodies, caller
<1>17. Contents'
  <2>1. ~ Waiting(x)'
    BY <1>1, <1>6, <1>10, <1>11, <1>12, <1>13 DEF Waiting
  <2>2. \A y : y # x => (Waiting(y)' <=> Waiting(y))
    BY <1>1, <1>6, <1>13 DEF Waiting
  <2>3. x \in Owned(Reg, Reg.range)
    BY <1>5, <1>7, <1>8 DEF Owned
  <2>4. mem = [y \in Entries(call) |-> mem[y]]
    BY <1>1, <1>2 DEF Outer
  <2>5. mem'[x] = Stored(call, x, before[x], v, env)
    BY <1>4, <1>5, <2>4
  <2>6. \A y \in Entries(call) : y # x => mem'[y] = mem[y]
    BY <1>4, <2>4
  <2> QED BY <1>1, <1>2, <1>6, <2>1, <2>2, <2>3, <2>5, <2>6
          DEF Contents, caller, region
<1> QED BY <1>6, <1>14, <1>15, <1>16, <1>17 DEF IInv

LEMMA AdvanceStep ==
  ASSUME IInv, NEW t \in Threads, Advance(t)
  PROVE  IInv'
<1> DEFINE rest == left[t] \ {Least(left[t])}
<1>1. /\ phase = "region" /\ left[t] # {} /\ todo[t] = {}
      /\ left' = [left EXCEPT ![t] = rest]
      /\ todo' = [todo EXCEPT ![t] = IF rest = {} THEN {}
                                     ELSE Reg.writes[Least(rest)]]
      /\ UNCHANGED <<caller, region, free, acc, mode, mem>>
  BY DEF Advance, Reg
<1>2. Outer /\ Chunks /\ Bodies /\ Contents
  BY <1>1 DEF IInv
<1>3. rest \subseteq Reg.range /\ rest \in SUBSET Nat
  BY <1>1, <1>2, OneOwner DEF Chunks
<1>4. rest \subseteq left[t]
  OBVIOUS
<1>5. Reg' = Reg /\ phase' = "region"
  BY <1>1 DEF Reg, caller
<1>6. /\ left' \in [Threads -> SUBSET Reg.range] /\ left'[t] = rest
      /\ todo'[t] = IF rest = {} THEN {} ELSE Reg.writes[Least(rest)]
      /\ \A s \in Threads : s # t => left'[s] = left[s] /\ todo'[s] = todo[s]
  <2> HIDE DEF rest
  <2> QED BY <1>1, <1>2, <1>3 DEF Chunks, Bodies
<1>7. Outer'
  BY <1>1, <1>2, <1>5 DEF Outer, caller
<1>8. Chunks'
  <2> HIDE DEF rest
  <2> QED BY <1>1, <1>2, <1>4, <1>5, <1>6 DEF Chunks
<1>9. Bodies'
  <2>1. rest # {} => Reg.writes[Least(rest)] \subseteq Entries(call)
    <3> HIDE DEF rest
    <3> QED BY <1>1, <1>3, LeastIsElement, OneOwner
  <2>2. todo' \in [Threads -> SUBSET Entries(call)]
    <3> HIDE DEF rest
    <3> QED BY <1>1, <1>2, <2>1 DEF Bodies
  <2>3. acc[t] = Nothing
    BY <1>1, <1>2 DEF Bodies, Computed
  <2>4. \A s \in Threads : s # t => Computed(s)' = Computed(s)
    BY <1>1, <1>6 DEF Computed, caller, region
  <2> HIDE DEF rest
  <2> QED BY <1>1, <1>2, <1>4, <1>5, <1>6, <2>2, <2>3, <2>4 DEF Bodies, caller
<1>10. Contents'
  <2>1. rest # {} => \A x : x \in Owned(Reg, rest) <=>
                       \/ x \in Owned(Reg, rest \ {Least(rest)})
                       \/ x \in Reg.writes[Least(rest)]
    <3> HIDE DEF rest
    <3> QED BY <1>3, CurrentAndRest
  <2>2. rest = {} => Owned(Reg, rest) = {} /\ Owned(Reg, rest \ {Least(rest)}) = {}
    BY DEF Owned
  <2>3. \A x : Waiting(x)' <=> Waiting(x)
    BY <1>1, <1>5, <1>6, <2>1, <2>2 DEF Waiting
  <2> QED BY <1>1, <1>2, <1>5, <2>3 DEF Contents, caller, region
<1> QED BY <1>5, <1>7, <1>8, <1>9, <1>10 DEF IInv

LEMMA NextInv == IInv /\ [Next]_vars => IInv'
<1> SUFFICES ASSUME IInv, [Next]_vars PROVE IInv'
  OBVIOUS
<1>1. CASE Begin \/ PassOver \/ Reflect \/ Factored \/ Return
  BY <1>1, OuterSteps
<1>2. CASE Open
  BY <1>2, OpenStep
<1>3. CASE Join
  BY <1>3, JoinStep
<1>4. CASE \E t \in Threads : Worker(t)
  BY <1>4, TakeStep, AccumulateStep, StoreStep, AdvanceStep DEF Worker
<1>5. CASE UNCHANGED vars
  <2>1. Reg' = Reg /\ UNCHANGED <<caller, region, work, mem>>
    BY <1>5 DEF Reg, vars, caller
  <2>2. Outer' <=> Outer
    BY <2>1 DEF Outer, caller, work
  <2>3. Chunks' <=> Chunks
    BY <2>1 DEF Chunks, work
  <2>4. Bodies' <=> Bodies
    BY <2>1 DEF Bodies, Computed, caller, region, work
  <2>5. Contents' <=> Contents
    BY <2>1 DEF Contents, Waiting, caller, region, work
  <2> QED BY <2>1, <2>2, <2>3, <2>4, <2>5 DEF IInv, caller
<1> QED BY <1>1, <1>2, <1>3, <1>4, <1>5 DEF Next, Control

LEMMA InvAlways == Spec => []IInv
<1>1. Init => IInv
  BY InitInv
<1>2. IInv /\ [Next]_vars => IInv'
  BY NextInv
<1> QED BY <1>1, <1>2, PTL DEF Spec

-----------------------------------------------------------------------------
(* The regions are free of races: no entry belongs to two threads at work, *)
(* what a thread has computed is an entry of its own, and no thread of a   *)
(* Householder step touches the column the reflector was read from.        *)
THEOREM RaceFree == Spec => []NoSharedEntry
<1>1. IInv => NoSharedEntry
  <2> SUFFICES ASSUME IInv, phase = "region" PROVE NoSharedEntry
    BY DEF NoSharedEntry
  <2>1. Outer /\ Chunks /\ Bodies /\ call \in Calls
    BY DEF IInv, Outer
  <2>2. \A t \in Threads : left[t] \subseteq Reg.range
    BY <2>1 DEF Chunks
  <2>3. ASSUME NEW t \in Threads, NEW s \in Threads, t # s, NEW x \in Held(t),
               x \in Held(s)
        PROVE  FALSE
    <3>1. PICK i \in left[t] : x \in Reg.writes[i]
      BY DEF Held, Owned, Reg
    <3>2. PICK k \in left[s] : x \in Reg.writes[k]
      BY <2>3 DEF Held, Owned, Reg
    <3>3. i = k
      BY <2>2, <3>1, <3>2, OneOwner
    <3> QED BY <2>1, <2>3, <3>1, <3>2, <3>3 DEF Chunks
  <2>4. ASSUME NEW t \in Threads, acc[t] # Nothing
        PROVE  acc[t][1] \in Held(t)
    <3>1. acc[t][1] \in todo[t]
      BY <2>1, <2>4 DEF Bodies, Computed
    <3>2. left[t] # {} /\ acc[t][1] \in Reg.writes[Least(left[t])]
      BY <2>1, <3>1 DEF Bodies
    <3>3. left[t] \in SUBSET Nat
      BY <2>2, OneOwner
    <3> QED BY <3>2, <3>3, LeastIsElement DEF Held, Owned, Reg
  <2>5. ASSUME NEW t \in Threads, NEW x \in Held(t), x[2] = step, call.kernel = "qr"
        PROVE  FALSE
    <3>1. PICK i \in Reg.range : x \in Reg.writes[i]
      BY <2>2 DEF Held, Owned, Reg
    <3>2. call.p \in Nat /\ step \in Nat
      BY <2>1, <2>5, ParAssumption DEF Outer
    <3> QED BY <2>5, <3>1, <3>2, ColumnsApart DEF Reg
  <2> QED BY <2>3, <2>4, <2>5 DEF NoSharedEntry
<1> QED BY <1>1, InvAlways, PTL

(* The abstract specification computes with the same kernels.              *)
LEMMA SameKernels ==
  /\ OnOneThread!Zero = Zero /\ OnOneThread!Reduced = Reduced
  /\ \A c : OnOneThread!Steps(c) = Steps(c)
  /\ \A c : OnOneThread!Entries(c) = Entries(c)
  /\ \A c, j, m, u, e : OnOneThread!Effect(c, j, m, u, e) = Effect(c, j, m, u, e)
<1>1. /\ OnOneThread!Zero = Zero
      /\ \A n : OnOneThread!Below(n) = Below(n)
      /\ \A x, y : OnOneThread!Times(x, y) = Times(x, y)
      /\ \A q, e : OnOneThread!Sum(q, e) = Sum(q, e)
  BY DEF OnOneThread!Zero, Zero, OnOneThread!Below, Below, OnOneThread!Times, Times,
         OnOneThread!Sum, Sum
<1>2. OnOneThread!Reduced = Reduced
  BY <1>1 DEF OnOneThread!Reduced, Reduced
<1>3. \A c : OnOneThread!Steps(c) = Steps(c)
  BY DEF OnOneThread!Steps, Steps
<1>4. \A c : OnOneThread!Entries(c) = Entries(c)
  BY <1>1 DEF OnOneThread!Entries, Entries
<1>5. \A c, j : OnOneThread!Region(c, j) = Region(c, j)
  <2>1. \A c : OnOneThread!Xtv(c) = Xtv(c)
    BY Zenon DEF OnOneThread!Xtv, Xtv, OnOneThread!Below, Below, OnOneThread!Times, Times
  <2>2. \A c : OnOneThread!Wxsq(c) = Wxsq(c)
    BY Zenon DEF OnOneThread!Wxsq, Wxsq, OnOneThread!Below, Below, OnOneThread!Times, Times
  <2>3. \A c : OnOneThread!Xtx(c) = Xtx(c)
    BY Zenon DEF OnOneThread!Xtx, Xtx, OnOneThread!Below, Below, OnOneThread!Times, Times
  <2>4. \A c : OnOneThread!Wcrossprod(c) = Wcrossprod(c)
    BY Zenon DEF OnOneThread!Wcrossprod, Wcrossprod, OnOneThread!Below, Below,
                 OnOneThread!Times, Times
  <2>5. \A c : OnOneThread!Leverage(c) = Leverage(c)
    BY Zenon DEF OnOneThread!Leverage, Leverage, OnOneThread!Below, Below
  <2>6. \A c, j : OnOneThread!Trailing(c, j) = Trailing(c, j)
    BY Zenon DEF OnOneThread!Trailing, Trailing, OnOneThread!Below, Below
  <2> QED BY <2>1, <2>2, <2>3, <2>4, <2>5, <2>6 DEF OnOneThread!Region, Region
<1>6. \A c, x, o, u, e : OnOneThread!Stored(c, x, o, u, e) = Stored(c, x, o, u, e)
  BY <1>1, <1>5 DEF OnOneThread!Stored, Stored
<1>7. \A r, q : OnOneThread!Owned(r, q) = Owned(r, q)
  BY Zenon DEF OnOneThread!Owned, Owned
<1>8. \A c, j, m, u, e : OnOneThread!Effect(c, j, m, u, e) = Effect(c, j, m, u, e)
  BY <1>4, <1>5, <1>6, <1>7 DEF OnOneThread!Effect, Effect
<1> QED BY <1>1, <1>2, <1>3, <1>4, <1>8

(* The kernels on any number of threads are the kernels on one: every step *)
(* is one of OneThread or leaves what the caller sees alone, and the whole *)
(* effect of a region is there when it is joined.                          *)
THEOREM ThreadsDoNotMatter == Spec => SameAtAnyCount
<1>1. Init => OnOneThread!Init
  BY SameKernels DEF Init, OnOneThread!Init
<1> DEFINE shown == IF phase = "open" THEN "region" ELSE phase
           seen  == IF phase = "region" THEN before ELSE mem
<1>2. IInv /\ [Next]_vars => [OnOneThread!Next]_OnOneThread!vars
  <2> SUFFICES ASSUME IInv, [Next]_vars
               PROVE  OnOneThread!Next \/ UNCHANGED OnOneThread!vars
    OBVIOUS
  <2>1. CASE Begin
    <3>1. OnOneThread!Begin
      <4>1. /\ phase = "idle" /\ phase' \in {"step", "open"}
            /\ phase' = IF call'.kernel = "qr" THEN "step" ELSE "open"
            /\ mem' = [x \in Entries(call') |-> Zero]
            /\ call' \in Calls /\ env' \in Envs /\ step' = 0 /\ v' = Zero
        BY <2>1 DEF Begin
      <4>2. shown = "idle" /\ seen' = mem'
        BY <4>1
      <4>3. shown' = IF call'.kernel = "qr" THEN "step" ELSE "region"
        BY <4>1
      <4> QED BY <4>1, <4>2, <4>3, SameKernels DEF OnOneThread!Begin
    <3> QED BY <3>1 DEF OnOneThread!Next
  <2>2. CASE PassOver
    <3>1. OnOneThread!PassOver
      BY <2>2, SameKernels DEF PassOver, OnOneThread!PassOver, region
    <3> QED BY <3>1 DEF OnOneThread!Next
  <2>3. CASE Reflect
    <3>1. OnOneThread!Reflect
      <4>1. /\ phase = "step" /\ phase' \in {"step", "open"} /\ step < Steps(call)
            /\ v' = <<step, mem[<<0, step>>]>>
            /\ mem' = [mem EXCEPT ![<<0, step>>] = Append(@, Reduced)]
            /\ call' = call /\ env' = env
        BY <2>3 DEF Reflect
      <4>2. IF step + 1 < call.p THEN phase' = "open" /\ step' = step
                                 ELSE phase' = "step" /\ step' = step + 1
        BY <2>3 DEF Reflect
      <4>3. shown = "step" /\ seen = mem /\ seen' = mem'
        BY <4>1
      <4>4. IF step + 1 < call.p THEN shown' = "region" /\ step' = step
                                 ELSE shown' = "step" /\ step' = step + 1
        BY <4>2
      <4> QED BY <4>1, <4>3, <4>4, SameKernels DEF OnOneThread!Reflect
    <3> QED BY <3>1 DEF OnOneThread!Next
  <2>4. CASE Open
    BY <2>4 DEF Open, OnOneThread!vars
  <2>5. CASE Join
    <3>1. phase = "region" /\ free = {} /\ left = None
      BY <2>5 DEF Join
    <3>2. mem = Effect(call, step, before, v, env)
      BY <3>1, Joined
    <3>3. /\ IF call.kernel = "qr" THEN phase' = "step" /\ step' = step + 1
                                  ELSE phase' = "done" /\ UNCHANGED step
          /\ UNCHANGED <<call, env, v, mem>>
      BY <2>5 DEF Join
    <3>4. shown = "region" /\ seen = before /\ seen' = mem
      BY <3>1, <3>3
    <3>5. IF call.kernel = "qr" THEN shown' = "step" /\ step' = step + 1
                                ELSE shown' = "done" /\ UNCHANGED step
      BY <3>3
    <3>6. OnOneThread!WholeRegion
      BY <3>2, <3>3, <3>4, <3>5, SameKernels DEF OnOneThread!WholeRegion
    <3> QED BY <3>6 DEF OnOneThread!Next
  <2>6. CASE Factored
    <3>1. OnOneThread!Factored
      BY <2>6, SameKernels DEF Factored, OnOneThread!Factored, region
    <3> QED BY <3>1 DEF OnOneThread!Next
  <2>7. CASE Return
    BY <2>7 DEF Return, OnOneThread!Next, OnOneThread!Return
  <2>8. CASE \E t \in Threads : Worker(t)
    <3>1. phase = "region" /\ UNCHANGED <<caller, region>>
      BY <2>8 DEF Worker, Take, Accumulate, Store, Advance
    <3> QED BY <3>1 DEF OnOneThread!vars, caller, region
  <2>9. CASE UNCHANGED vars
    BY <2>9 DEF vars, caller, region, OnOneThread!vars
  <2> QED BY <2>1, <2>2, <2>3, <2>4, <2>5, <2>6, <2>7, <2>8, <2>9
          DEF Next, Control
<1> QED BY <1>1, <1>2, InvAlways, PTL DEF Spec, SameAtAnyCount, OnOneThread!Spec

(* The state a region works on is well formed: the elements of the range   *)
(* that are left, the entries still to be stored, and what has been        *)
(* computed, which is always the caller's environment's value.             *)
THEOREM TypeCorrect == Spec => []TypeOK
<1>1. IInv => TypeOK
  <2> SUFFICES ASSUME IInv PROVE TypeOK
    OBVIOUS
  <2>1. Outer
    BY DEF IInv
  <2>2. ASSUME phase = "region"
        PROVE  /\ DOMAIN mem = Entries(call) /\ DOMAIN before = Entries(call)
               /\ free \subseteq Reg.range
               /\ left \in [Threads -> SUBSET Reg.range]
               /\ todo \in [Threads -> SUBSET Entries(call)]
    BY <2>2 DEF IInv, Outer, Chunks, Bodies, Contents
  <2>3. ASSUME phase = "region"
        PROVE  acc \in [Threads -> Entries(call) \X {Stored(call, x, before[x], v, env) :
                                                 x \in Entries(call)}
                              \union {Nothing}]
    <3>1. Bodies
      BY <2>3 DEF IInv
    <3> DEFINE V == {Stored(call, x, before[x], v, env) : x \in Entries(call)}
    <3>2. ASSUME NEW t \in Threads, acc[t] # Nothing
          PROVE  acc[t] \in Entries(call) \X V
      <4>1. PICK x \in todo[t] : acc[t] = <<x, Stored(call, x, before[x], v, env)>>
        BY <3>1, <3>2 DEF Bodies, Computed
      <4>2. x \in Entries(call)
        BY <3>1 DEF Bodies
      <4> QED BY <4>1, <4>2
    <3> HIDE DEF V
    <3>3. acc = [t \in Threads |-> acc[t]]
      BY <3>1 DEF Bodies
    <3>4. acc \in [Threads -> (Entries(call) \X V) \union {Nothing}]
      BY <3>2, <3>3
    <3> QED BY <3>4 DEF V
  <2> QED BY <2>1, <2>2, <2>3 DEF Outer, TypeOK, Reg
<1> QED BY <1>1, InvAlways, PTL

-----------------------------------------------------------------------------
(* The sums.  A product is written once, from zeros.  Of a factor, the     *)
(* columns from Past on have all gone through the same reflectors; those   *)
(* before it went first through what every column to their right went      *)
(* through first.                                                          *)
Seen == IF phase = "region" THEN before ELSE mem
Past == IF phase \in {"open", "region"} THEN step + 1 ELSE step
IsSequenceOf(col) == \E S : col \in Seq(S)

Columns(q, n) ==
  /\ \A x \in Entries(call) : IsSequenceOf(q[x])
  /\ \A x, y \in Entries(call) : x[2] >= n /\ y[2] >= n => q[x] = q[y]
  /\ \A x, y \in Entries(call) :
       x[2] < n /\ x[2] < y[2] => StartsWith(q[y], Incoming(q[x]))

Written(x) == IF x \in Owned(Reg, Reg.range) THEN Stored(call, x, Zero, v, env) ELSE Zero

Sums ==
  /\ phase # "idle" /\ call.kernel = "qr" => Columns(Seen, Past)
  /\ phase # "idle" /\ call.kernel # "qr" =>
       /\ phase # "step"
       /\ phase \in {"open", "region"} => \A x \in Entries(call) : Seen[x] = Zero
       /\ phase = "done" => \A x \in Entries(call) : mem[x] = Written(x)

(* What a sequence begins with, and what it is before its reduction.       *)
LEMMA Prefixes ==
  ASSUME NEW S, NEW T, NEW a \in Seq(S), NEW b \in Seq(T), NEW r
  PROVE  /\ IsSequenceOf(a) /\ IsSequenceOf(Append(a, r))
         /\ IsSequenceOf(Incoming(a)) /\ StartsWith(a, Incoming(a))
         /\ StartsWith(b, a) => StartsWith(Append(b, r), a)
         /\ Incoming(Append(a, Reduced)) = a
<1>1. IsSequenceOf(a)
  BY DEF IsSequenceOf
<1>2. Append(a, r) \in Seq(S \union {r})
  <2>1. a \in Seq(S \union {r})
    OBVIOUS
  <2> QED BY <2>1
<1>3. IsSequenceOf(Append(a, r))
  BY <1>2 DEF IsSequenceOf
<1>4. Incoming(a) \in Seq(S) /\ StartsWith(a, Incoming(a))
  <2>1. CASE a # Zero /\ a[Len(a)] = Reduced
    <3>1. Len(a) \in Nat \ {0}
      BY <2>1 DEF Zero
    <3>2. Incoming(a) = SubSeq(a, 1, Len(a) - 1)
      BY <2>1 DEF Incoming
    <3>3. /\ SubSeq(a, 1, Len(a) - 1) \in Seq(S)
          /\ Len(SubSeq(a, 1, Len(a) - 1)) = Len(a) - 1
          /\ \A i \in 1 .. Len(a) - 1 : SubSeq(a, 1, Len(a) - 1)[i] = a[i]
      <4>1. /\ Len(a) - 1 \in Int /\ 1 \in Int /\ (1 <= Len(a) - 1 \/ Len(a) - 1 = 0)
            /\ \A i \in 1 .. Len(a) - 1 : a[i] \in S
        <5>1. Len(a) - 1 \in Int /\ 1 \in Int
          BY <3>1
        <5>2. 1 <= Len(a) - 1 \/ Len(a) - 1 = 0
          <6>1. \A l \in Nat \ {0} : 1 <= l - 1 \/ l - 1 = 0
            OBVIOUS
          <6> QED BY <3>1, <6>1
        <5>3. \A i \in 1 .. Len(a) - 1 : i \in 1 .. Len(a)
          BY <3>1
        <5>4. \A i \in 1 .. Len(a) : a[i] \in S
          OBVIOUS
        <5> QED BY <5>1, <5>2, <5>3, <5>4
      <4>2. /\ SubSeq(a, 1, Len(a) - 1) \in Seq(S)
            /\ Len(SubSeq(a, 1, Len(a) - 1))
                 = IF 1 <= Len(a) - 1 THEN (Len(a) - 1) - 1 + 1 ELSE 0
            /\ \A i \in 1 .. (Len(a) - 1) - 1 + 1 :
                 SubSeq(a, 1, Len(a) - 1)[i] = a[1 + i - 1]
        BY <4>1, SubSeqProperties
      <4> QED BY <3>1, <4>1, <4>2
    <3> DEFINE d == SubSeq(a, 1, Len(a) - 1)
    <3>6. /\ d \in Seq(S) /\ Len(d) = Len(a) - 1
          /\ \A i \in 1 .. Len(a) - 1 : d[i] = a[i]
      BY <3>3
    <3> HIDE DEF d
    <3>4. d \in Seq(S) /\ Len(d) <= Len(a) /\ \A i \in 1 .. Len(d) : a[i] = d[i]
      BY <3>1, <3>6
    <3>5. d \in Seq(S) /\ StartsWith(a, d)
      BY <3>4 DEF StartsWith
    <3> QED BY <3>2, <3>5 DEF d
  <2>2. CASE ~ (a # Zero /\ a[Len(a)] = Reduced)
    <3>1. Incoming(a) = a
      BY <2>2 DEF Incoming
    <3> QED BY <3>1 DEF StartsWith
  <2> QED BY <2>1, <2>2
<1>5. IsSequenceOf(Incoming(a))
  BY <1>4 DEF IsSequenceOf
<1>6. StartsWith(b, a) => StartsWith(Append(b, r), a)
  <2>1. b \in Seq(T \union {r})
    OBVIOUS
  <2>2. Len(Append(b, r)) = Len(b) + 1 /\ \A i \in 1 .. Len(b) : Append(b, r)[i] = b[i]
    BY <2>1
  <2> QED BY <2>2 DEF StartsWith
<1>7. Incoming(Append(a, Reduced)) = a
  <2> DEFINE c == Append(a, Reduced)
  <2>1. a \in Seq(S \union {Reduced})
    OBVIOUS
  <2>2. c \in Seq(S \union {Reduced}) /\ Len(c) = Len(a) + 1 /\ Len(a) \in Nat
        /\ c[Len(a) + 1] = Reduced /\ \A i \in 1 .. Len(a) : c[i] = a[i]
    BY <2>1
  <2> HIDE DEF c
  <2>3. c # Zero
    BY <2>2 DEF Zero
  <2>4. Incoming(c) = SubSeq(c, 1, Len(a))
    BY <2>2, <2>3 DEF Incoming
  <2>5. SubSeq(c, 1, Len(a)) = a
    <3>1. /\ SubSeq(c, 1, Len(a)) \in Seq(S \union {Reduced})
          /\ Len(SubSeq(c, 1, Len(a))) = Len(a)
          /\ \A i \in 1 .. Len(a) : SubSeq(c, 1, Len(a))[i] = c[i]
      BY <2>2
    <3> HIDE DEF Zero
    <3> DEFINE d == SubSeq(c, 1, Len(a))
    <3>2. \A i \in 1 .. Len(a) : d[i] = a[i]
      BY <2>2, <3>1
    <3> HIDE DEF d
    <3>3. d \in Seq(S \union {Reduced}) /\ Len(d) = Len(a)
      BY <3>1 DEF d
    <3>4. d = a
      BY <2>1, <3>2, <3>3, SeqEqual
    <3> QED BY <3>4 DEF d
  <2> QED BY <2>4, <2>5 DEF c
<1> QED BY <1>1, <1>3, <1>4, <1>5, <1>6, <1>7

(* The entries of a factor are its columns, by their number.               *)
LEMMA ColumnNatural ==
  ASSUME NEW c \in Calls, c.kernel = "qr"
  PROVE  \A x \in Entries(c) : x[2] \in Nat
<1>1. c.p \in Nat
  BY ParAssumption
<1> QED BY <1>1 DEF Entries, Below

(* The columns from n on agree, so column n may be passed over.            *)
LEMMA ColumnsPass ==
  ASSUME NEW q, NEW n \in Nat, Columns(q, n), \A x \in Entries(call) : x[2] \in Nat
  PROVE  Columns(q, n + 1)
<1>1. ASSUME NEW x \in Entries(call), NEW y \in Entries(call), x[2] = n, x[2] < y[2]
      PROVE  StartsWith(q[y], Incoming(q[x]))
  <2>1. q[x] = q[y]
    BY <1>1 DEF Columns
  <2>2. PICK S : q[x] \in Seq(S)
    BY DEF Columns, IsSequenceOf
  <2> QED BY <2>1, <2>2, Prefixes
<1> QED BY <1>1 DEF Columns

(* The column n is reduced.                                                *)
LEMMA ColumnsReflect ==
  ASSUME NEW q, NEW n \in Nat, Columns(q, n), \A x \in Entries(call) : x[2] \in Nat,
         NEW z \in Entries(call), z[2] = n, \A x \in Entries(call) : x[2] = n => x = z,
         NEW r, \A x \in Entries(call) : r[x] = IF x = z THEN Append(q[z], Reduced) ELSE q[x]
  PROVE  Columns(r, n + 1)
<1>1. PICK S : q[z] \in Seq(S)
  BY DEF Columns, IsSequenceOf
<1>2. Incoming(r[z]) = q[z] /\ IsSequenceOf(r[z])
  BY <1>1, Prefixes
<1>3. ASSUME NEW x \in Entries(call), NEW y \in Entries(call), x[2] < n + 1, x[2] < y[2]
      PROVE  StartsWith(r[y], Incoming(r[x]))
  <2>1. CASE x = z
    <3>1. y # z /\ r[y] = q[z]
      BY <1>3, <2>1 DEF Columns
    <3>2. StartsWith(q[z], q[z])
      BY <1>1 DEF StartsWith
    <3> QED BY <3>1, <3>2, <1>2, <2>1
  <2>2. CASE x # z
    <3>1. r[x] = q[x] /\ x[2] < n
      BY <1>3, <2>2
    <3>2. StartsWith(q[y], Incoming(q[x]))
      BY <3>1, <1>3 DEF Columns
    <3>3. PICK T, V : q[x] \in Seq(T) /\ q[y] \in Seq(V)
      BY DEF Columns, IsSequenceOf
    <3>4. PICK U : Incoming(q[x]) \in Seq(U)
      BY <3>3, Prefixes DEF IsSequenceOf
    <3>5. StartsWith(Append(q[y], Reduced), Incoming(q[x]))
      BY <3>2, <3>3, <3>4, Prefixes
    <3> QED BY <3>1, <3>2, <3>5
  <2> QED BY <2>1, <2>2
<1>4. ASSUME NEW x \in Entries(call) PROVE IsSequenceOf(r[x])
  BY <1>2 DEF Columns
<1>5. ASSUME NEW x \in Entries(call), NEW y \in Entries(call),
             x[2] >= n + 1, y[2] >= n + 1
      PROVE  r[x] = r[y]
  BY <1>5 DEF Columns
<1> QED BY <1>3, <1>4, <1>5 DEF Columns

(* A reflector is applied to every column from n on.                       *)
LEMMA ColumnsApply ==
  ASSUME NEW q, NEW n \in Nat, Columns(q, n), \A x \in Entries(call) : x[2] \in Nat,
         NEW e, NEW r,
         \A x \in Entries(call) : r[x] = IF x[2] >= n THEN Append(q[x], e) ELSE q[x]
  PROVE  Columns(r, n)
<1>1. ASSUME NEW x \in Entries(call) PROVE IsSequenceOf(r[x])
  <2>1. PICK S : q[x] \in Seq(S)
    BY DEF Columns, IsSequenceOf
  <2>2. IsSequenceOf(q[x]) /\ IsSequenceOf(Append(q[x], e))
    BY <2>1, Prefixes
  <2> QED BY <2>2
<1>2. ASSUME NEW x \in Entries(call), NEW y \in Entries(call), x[2] < n, x[2] < y[2]
      PROVE  StartsWith(r[y], Incoming(r[x]))
  <2>1. r[x] = q[x] /\ StartsWith(q[y], Incoming(q[x]))
    BY <1>2 DEF Columns
  <2>2. PICK T, V : q[x] \in Seq(T) /\ q[y] \in Seq(V)
    BY DEF Columns, IsSequenceOf
  <2>3. PICK U : Incoming(q[x]) \in Seq(U)
    BY <2>2, Prefixes DEF IsSequenceOf
  <2>4. StartsWith(Append(q[y], e), Incoming(q[x]))
    BY <2>1, <2>2, <2>3, Prefixes
  <2> QED BY <2>1, <2>4
<1>3. ASSUME NEW x \in Entries(call), NEW y \in Entries(call), x[2] >= n, y[2] >= n
      PROVE  r[x] = r[y]
  BY <1>3 DEF Columns
<1> QED BY <1>1, <1>2, <1>3 DEF Columns

(* A column index is a natural number, and where the call is a factor, the *)
(* trailing region of a step writes the columns to the right of it.        *)
LEMMA ColumnIndex ==
  ASSUME call \in Calls, call.kernel = "qr"
  PROVE  /\ call.p \in Nat /\ call.m \in Nat
         /\ Entries(call) = {0} \X Below(call.p)
         /\ \A x \in Entries(call) : x[2] \in Nat /\ x[2] < call.p /\ x = <<0, x[2]>>
<1>1. call.p \in Nat /\ call.m \in Nat
  BY ParAssumption
<1>2. Entries(call) = {0} \X Below(call.p)
  BY DEF Entries
<1> QED BY <1>1, <1>2 DEF Below

LEMMA TrailingOwned ==
  ASSUME call \in Calls, call.kernel = "qr", step \in Nat, NEW x \in Entries(call)
  PROVE  x \in Owned(Reg, Reg.range) <=> x[2] >= step + 1
<1>1. Reg = Trailing(call, step)
  BY DEF Reg, Region
<1>2. /\ Reg.range = Below(call.p - step - 1)
      /\ \A t \in Reg.range : Reg.writes[t] = {<<0, step + 1 + t>>}
  BY <1>1 DEF Trailing
<1>3. x[2] \in Nat /\ x[2] < call.p /\ x = <<0, x[2]>> /\ call.p \in Nat
  BY ColumnIndex
<1>4. ASSUME x[2] >= step + 1 PROVE x \in Owned(Reg, Reg.range)
  <2>1. x[2] - step - 1 \in Below(call.p - step - 1) /\ x[2] = step + 1 + (x[2] - step - 1)
    BY <1>3, <1>4 DEF Below
  <2>2. x \in Reg.writes[x[2] - step - 1]
    BY <1>2, <1>3, <2>1
  <2> QED BY <1>2, <2>1, <2>2 DEF Owned
<1>5. ASSUME x \in Owned(Reg, Reg.range) PROVE x[2] >= step + 1
  <2>1. PICK t \in Reg.range : x \in Reg.writes[t]
    BY <1>5 DEF Owned
  <2>2. x[2] = step + 1 + t /\ t \in Nat
    BY <2>1, <1>2 DEF Below
  <2> QED BY <2>2
<1> QED BY <1>4, <1>5

-----------------------------------------------------------------------------
(* What the bodies of the products write is every entry, by its formula.   *)
LEMMA VectorSums ==
  ASSUME NEW c, c.kernel \in {"xtv", "wxsq"}, c.p \in Nat, c.n \in Nat,
         NEW x \in Entries(c), NEW j, NEW e, NEW u
  PROVE  /\ x \in Owned(Region(c, j), Region(c, j).range)
         /\ Stored(c, x, Zero, u, e) = ByFormula(c, x, e)
<1>1. x \in {0} \X Below(c.p)
  BY DEF Entries
<1>2. CASE c.kernel = "xtv"
  <2>1. Region(c, j) = Xtv(c) /\ Region(c, 0) = Xtv(c)
    BY <1>2 DEF Region
  <2>2. x \in Owned(Xtv(c), Xtv(c).range)
    BY <1>1 DEF Owned, Xtv
  <2>3. Xtv(c).terms[x] = [i \in 1 .. c.n |-> Times(<<"X", i, x[2]>>, <<"v", i, 0>>)]
    BY <1>1 DEF Xtv
  <2> QED BY <1>2, <2>1, <2>2, <2>3 DEF Stored, ByFormula
<1>3. CASE c.kernel = "wxsq"
  <2>1. Region(c, j) = Wxsq(c) /\ Region(c, 0) = Wxsq(c)
    BY <1>3 DEF Region
  <2>2. x \in Owned(Wxsq(c), Wxsq(c).range)
    BY <1>1 DEF Owned, Wxsq
  <2>3. Wxsq(c).terms[x]
          = [i \in 1 .. c.n |->
               <<<<"w", i, 0>>, Times(<<"X", i, x[2]>>, <<"X", i, x[2]>>)>>]
    BY <1>1 DEF Wxsq
  <2> QED BY <1>3, <2>1, <2>2, <2>3 DEF Stored, ByFormula
<1> QED BY <1>2, <1>3

(* Of the two entries <<j, k>> and <<k, j>> each is written by the larger. *)
LEMMA MirroredSums ==
  ASSUME NEW c, c.kernel = "xtx", c.p \in Nat, c.n \in Nat,
         NEW x \in Entries(c), NEW j, NEW e, NEW u
  PROVE  /\ x \in Owned(Region(c, j), Region(c, j).range)
         /\ Stored(c, x, Zero, u, e) = ByFormula(c, x, e)
<1>1. x \in Below(c.p) \X Below(c.p)
  BY DEF Entries
<1>2. Region(c, j) = Xtx(c) /\ Region(c, 0) = Xtx(c)
  BY DEF Region
<1>3. PICK a \in Below(c.p), b \in Below(c.p) : x = <<a, b>>
  BY <1>1
<1>4. a \in Nat /\ b \in Nat
  BY DEF Below
<1>5. x \in Owned(Xtx(c), Xtx(c).range)
  <2> DEFINE W(k) == {<<i, k>> : i \in 0 .. k} \union {<<k, i>> : i \in 0 .. k}
  <2>1. Xtx(c).range = Below(c.p) /\ \A k \in Below(c.p) : Xtx(c).writes[k] = W(k)
    BY DEF Xtx
  <2>2. CASE a <= b
    <3>1. x \in W(b)
      BY <1>3, <1>4, <2>2
    <3> QED BY <2>1, <3>1 DEF Owned
  <2>3. CASE b <= a
    <3>1. x \in W(a)
      BY <1>3, <1>4, <2>3
    <3> QED BY <2>1, <3>1 DEF Owned
  <2> QED BY <1>4, <2>2, <2>3
<1>6. Xtx(c).terms[x] = [i \in 1 .. c.n |-> Times(<<"A", i, x[1]>>, <<"A", i, x[2]>>)]
  BY <1>1 DEF Xtx
<1>7. \A y, z : Times(y, z) = Times(z, y)
  BY DEF Times
<1>8. Xtx(c).terms[x] = [i \in 1 .. c.n |-> Times(<<"A", i, x[2]>>, <<"A", i, x[1]>>)]
  BY <1>6, <1>7
<1> QED BY <1>2, <1>5, <1>8 DEF Stored, ByFormula

(* The entry <<j, k>> is written by the element k pa + j of the range.     *)
LEMMA UnfoldedSums ==
  ASSUME NEW c, c.kernel = "wcrossprod", c.pa \in Nat, c.pb \in Nat, c.n \in Nat,
         NEW x \in Entries(c), NEW j, NEW e, NEW u
  PROVE  /\ x \in Owned(Region(c, j), Region(c, j).range)
         /\ Stored(c, x, Zero, u, e) = ByFormula(c, x, e)
<1>1. x \in Below(c.pa) \X Below(c.pb)
  BY DEF Entries
<1>2. Region(c, j) = Wcrossprod(c) /\ Region(c, 0) = Wcrossprod(c)
  BY DEF Region
<1>3. PICK a \in Below(c.pa), b \in Below(c.pb) : x = <<a, b>>
  BY <1>1
<1>4. a \in Nat /\ b \in Nat /\ a < c.pa /\ b < c.pb
  BY DEF Below
<1> DEFINE t == b * c.pa + a
           q == t \div c.pa
<1>5. t \in Nat /\ t < c.pa * c.pb /\ c.pa > 0
  <2>1. b + 1 <= c.pb
    BY <1>4
  <2>2. (b + 1) * c.pa <= c.pb * c.pa
    BY <2>1, <1>4
  <2>3. (b + 1) * c.pa = b * c.pa + c.pa
    BY <1>4
  <2>4. b * c.pa \in Nat /\ c.pb * c.pa = c.pa * c.pb
    BY <1>4
  <2> QED BY <2>2, <2>3, <2>4, <1>4
<1>6. q = b
  <2>1. q \in Int /\ q * c.pa <= t /\ t < q * c.pa + c.pa
    BY <1>5
  <2>2. b * c.pa <= t /\ t < b * c.pa + c.pa
    BY <1>4
  <2>5. \A m, n \in Int : (m + 1) * n = m * n + n
    OBVIOUS
  <2> HIDE DEF q, t
  <2>3. ~ (q < b)
    <3> SUFFICES ASSUME q + 1 <= b PROVE FALSE
      BY <2>1, <1>4
    <3>1. (q + 1) * c.pa <= b * c.pa
      BY <2>1, <1>4
    <3>2. (q + 1) * c.pa = q * c.pa + c.pa
      <4>1. q \in Int /\ c.pa \in Int
        BY <2>1
      <4> QED BY <4>1, <2>5
    <3> QED BY <3>1, <3>2, <2>1, <2>2, <1>4, <1>5
  <2>4. ~ (b < q)
    <3> SUFFICES ASSUME b + 1 <= q PROVE FALSE
      BY <2>1, <1>4
    <3>1. (b + 1) * c.pa <= q * c.pa
      BY <2>1, <1>4
    <3>2. (b + 1) * c.pa = b * c.pa + c.pa
      BY <1>4
    <3> QED BY <3>1, <3>2, <2>1, <2>2, <1>4, <1>5
  <2> QED BY <2>1, <2>3, <2>4, <1>4
<1>7. x = <<t - (t \div c.pa) * c.pa, t \div c.pa>>
  BY <1>3, <1>4, <1>6
<1>8. x \in Owned(Wcrossprod(c), Wcrossprod(c).range)
  <2>1. t \in Below(c.pa * c.pb)
    BY <1>4, <1>5 DEF Below
  <2> HIDE DEF t
  <2>2. x \in Wcrossprod(c).writes[t]
    BY <1>7, <2>1 DEF Wcrossprod
  <2>3. Wcrossprod(c).range = Below(c.pa * c.pb)
    BY DEF Wcrossprod
  <2> QED BY <2>1, <2>2, <2>3 DEF Owned
<1>9. Wcrossprod(c).terms[x]
        = [i \in 1 .. c.n |->
             <<Times(<<"A", i, x[1]>>, <<"w", i, 0>>), <<"B", i, x[2]>>>>]
  BY <1>1 DEF Wcrossprod
<1>10. \A y, z : Times(y, z) = Times(z, y)
  BY DEF Times
<1>11. Wcrossprod(c).terms[x]
        = [i \in 1 .. c.n |->
             <<Times(<<"w", i, 0>>, <<"A", i, x[1]>>), <<"B", i, x[2]>>>>]
  BY <1>9, <1>10
<1> QED BY <1>2, <1>8, <1>11 DEF Stored, ByFormula

(* A row is written when it has nonzeros in both designs.                  *)
LEMMA PairedOwned ==
  ASSUME call.kernel = "leverage", call.n \in Nat,
         call.na \in [Below(call.n) -> Nat], call.nb \in [Below(call.n) -> Nat],
         NEW x \in Entries(call)
  PROVE  x \in Owned(Region(call, step), Region(call, step).range) <=> call.na[x[2]] * call.nb[x[2]] # 0
<1> DEFINE pairs == call.na[x[2]] * call.nb[x[2]]
<1>1. x \in {0} \X Below(call.n) /\ x[2] \in Below(call.n) /\ x = <<0, x[2]>>
  BY DEF Entries
<1>2. call.na[x[2]] \in Nat /\ call.nb[x[2]] \in Nat
  BY <1>1
<1>3. pairs \in Nat /\ (pairs = 0 <=> call.na[x[2]] = 0 \/ call.nb[x[2]] = 0)
  BY <1>2
<1>4. Region(call, step) = Leverage(call)
  BY DEF Region
<1>5. /\ Leverage(call).range = Below(call.n)
      /\ \A i \in Below(call.n) :
           Leverage(call).writes[i] = IF call.na[i] = 0 \/ call.nb[i] = 0 THEN {} ELSE {<<0, i>>}
  BY DEF Leverage
<1>6. x \in Owned(Leverage(call), Leverage(call).range) <=> pairs # 0
  <2>1. ASSUME pairs # 0 PROVE x \in Owned(Leverage(call), Leverage(call).range)
    <3>1. ~ (call.na[x[2]] = 0 \/ call.nb[x[2]] = 0)
      BY <2>1, <1>3
    <3>2. Leverage(call).writes[x[2]] = {<<0, x[2]>>}
      BY <3>1, <1>1, <1>5
    <3>3. x \in Leverage(call).writes[x[2]] /\ x[2] \in Leverage(call).range
      BY <3>2, <1>1, <1>5
    <3> QED BY <3>3 DEF Owned
  <2>2. ASSUME x \in Owned(Leverage(call), Leverage(call).range) PROVE pairs # 0
    <3>1. PICK i \in Below(call.n) : x \in Leverage(call).writes[i]
      BY <2>2, <1>5 DEF Owned
    <3>2. x = <<0, i>> /\ ~ (call.na[i] = 0 \/ call.nb[i] = 0)
      BY <3>1, <1>5
    <3>3. i = x[2]
      BY <3>2
    <3> QED BY <3>2, <3>3, <1>3
  <2> QED BY <2>1, <2>2
<1> QED BY <1>4, <1>6

(* One term to each pair of the nonzeros of a row.                         *)
LEMMA PairedSums ==
  ASSUME call.kernel = "leverage", call.n \in Nat,
         call.na \in [Below(call.n) -> Nat], call.nb \in [Below(call.n) -> Nat],
         NEW x \in Entries(call)
  PROVE  /\ Stored(call, x, Zero, v, env)[1] = env
         /\ Len(Stored(call, x, Zero, v, env)[2]) = call.na[x[2]] * call.nb[x[2]]
<1> DEFINE pairs == call.na[x[2]] * call.nb[x[2]]
<1>1. x \in {0} \X Below(call.n) /\ x[2] \in Below(call.n)
  BY DEF Entries
<1>3. pairs \in Nat
  BY <1>1
<1>4. Region(call, 0) = Leverage(call)
  BY DEF Region
<1> DEFINE f == Leverage(call).terms[x]
<1>7. \E S : f \in Seq(S) /\ Len(f) = pairs
  <2> DEFINE term(s) == LET q == (s - 1) % call.nb[x[2]]
                            p == (s - 1) \div call.nb[x[2]]
                        IN  <<<<"A", x[2], p>>, <<"B", x[2], q>>, <<"M", p, q>>>>
             S == {term(s) : s \in 1 .. pairs}
  <2>1. f = [s \in 1 .. pairs |-> term(s)]
    BY <1>1 DEF Leverage
  <2>2. \A s \in 1 .. pairs : term(s) \in S
    OBVIOUS
  <2> HIDE DEF term, S, pairs, f
  <2>3. f \in [1 .. pairs -> S]
    BY <2>1, <2>2
  <2>4. f \in Seq(S) /\ Len(f) = pairs
    BY <2>3, <1>3
  <2> QED BY <2>4
<1>8. Stored(call, x, Zero, v, env) = <<env, f>>
  BY <1>4 DEF Stored, Sum
<1> HIDE DEF f
<1>9. Stored(call, x, Zero, v, env)[1] = env /\ Stored(call, x, Zero, v, env)[2] = f
  BY <1>8
<1>10. Len(Stored(call, x, Zero, v, env)[2]) = pairs
  BY <1>7, <1>9
<1> QED BY <1>9, <1>10
-----------------------------------------------------------------------------
LEMMA SumsStep ==
  ASSUME IInv, Sums, [Next]_vars
  PROVE  Sums'
<1>1. Outer
  BY DEF IInv
<1>2. CASE Begin
  <2>1. /\ phase' = IF call'.kernel = "qr" THEN "step" ELSE "open"
        /\ step' = 0 /\ call' \in Calls
        /\ mem' = [x \in Entries(call') |-> Zero]
    BY <1>2 DEF Begin
  <2>2. Seen' = mem'
    BY <2>1 DEF Seen
  <2>3. CASE call'.kernel = "qr"
    <3>1. Past' = 0
      BY <2>1, <2>3 DEF Past
    <3>2. Zero \in Seq(Nat)
      BY DEF Zero
    <3>3. IsSequenceOf(Zero)
      BY <3>2 DEF IsSequenceOf
    <3>4. \A x \in Entries(call') : x[2] \in Nat
      BY <2>1, <2>3, ColumnNatural
    <3>5. Columns(Seen, Past)'
      BY <2>1, <2>2, <3>1, <3>3, <3>4 DEF Columns, IsSequenceOf
    <3> QED BY <2>1, <2>3, <3>5 DEF Sums
  <2>4. CASE call'.kernel # "qr"
    BY <2>1, <2>2, <2>4 DEF Sums
  <2> QED BY <2>3, <2>4
<1>3. ASSUME phase # "idle", call' = call, call.kernel = "qr", Columns(Seen', Past')
      PROVE  Sums'
  <2>1. Columns(Seen, Past)'
    BY <1>3 DEF Columns
  <2> QED BY <1>3, <2>1 DEF Sums
<1>4. CASE PassOver
  <2>1. /\ phase = "step" /\ phase' = "step" /\ step' = step + 1
        /\ UNCHANGED <<call, mem>>
    BY <1>4 DEF PassOver
  <2>2. call \in Calls /\ call.kernel = "qr" /\ step \in Nat
    BY <1>1, <2>1 DEF Sums, Outer
  <2>3. Seen = mem /\ Past = step /\ Seen' = mem /\ Past' = step + 1
    BY <2>1 DEF Seen, Past
  <2>4. Columns(mem, step)
    BY <2>1, <2>2, <2>3 DEF Sums
  <2>5. Columns(mem, step + 1)
    BY <2>2, <2>4, ColumnIndex, ColumnsPass
  <2> QED BY <1>3, <2>1, <2>2, <2>3, <2>5
<1>5. CASE Reflect
  <2> DEFINE z == <<0, step>>
  <2>1. /\ phase = "step" /\ step < Steps(call) /\ UNCHANGED call
        /\ mem' = [mem EXCEPT ![z] = Append(@, Reduced)]
        /\ \/ phase' = "open" /\ step' = step
           \/ phase' = "step" /\ step' = step + 1
    BY <1>5 DEF Reflect
  <2>2. /\ call \in Calls /\ call.kernel = "qr" /\ step \in Nat
        /\ mem = [x \in Entries(call) |-> mem[x]]
    BY <1>1, <2>1 DEF Sums, Outer
  <2>3. Seen = mem /\ Past = step /\ Seen' = mem' /\ Past' = step + 1
    BY <2>1 DEF Seen, Past
  <2>4. Columns(mem, step)
    BY <2>1, <2>2, <2>3 DEF Sums
  <2>5. step < call.p
    BY <2>1, <2>2, ColumnIndex DEF Steps
  <2>6. z \in Entries(call) /\ z[2] = step
    BY <2>2, <2>5, ColumnIndex DEF Below
  <2>7. \A x \in Entries(call) : x[2] \in Nat /\ (x[2] = step => x = z)
    BY <2>2, ColumnIndex
  <2> HIDE DEF z
  <2>8. \A x \in Entries(call) :
          mem'[x] = IF x = z THEN Append(mem[z], Reduced) ELSE mem[x]
    BY <2>1, <2>2
  <2>9. Columns(mem', step + 1)
    <3> DEFINE r == mem'
    <3>1. \A x \in Entries(call) : r[x] = IF x = z THEN Append(mem[z], Reduced) ELSE mem[x]
      BY <2>8
    <3> HIDE DEF r
    <3>2. Columns(r, step + 1)
      BY <2>2, <2>4, <2>6, <2>7, <3>1, ColumnsReflect
    <3> QED BY <3>2 DEF r
  <2> QED BY <1>3, <2>1, <2>2, <2>3, <2>9
<1>6. CASE Open
  <2>1. /\ phase = "open" /\ phase' = "region" /\ before' = mem
        /\ UNCHANGED <<call, step>>
    BY <1>6 DEF Open
  <2>2. Seen' = Seen /\ Past' = Past
    BY <2>1 DEF Seen, Past
  <2>3. CASE call.kernel = "qr"
    BY <1>3, <2>1, <2>2, <2>3 DEF Sums
  <2>4. CASE call.kernel # "qr"
    BY <2>1, <2>2, <2>4 DEF Sums
  <2> QED BY <2>3, <2>4
<1>7. CASE Join
  <2>1. /\ phase = "region" /\ free = {} /\ left = None
        /\ IF call.kernel = "qr" THEN phase' = "step" /\ step' = step + 1
                                 ELSE phase' = "done" /\ step' = step
        /\ UNCHANGED <<call, v, env, mem>>
    BY <1>7 DEF Join
  <2>2. mem = Effect(call, step, before, v, env)
    BY <2>1, Joined
  <2>3. \A x \in Entries(call) :
          mem[x] = IF x \in Owned(Reg, Reg.range)
                   THEN Stored(call, x, before[x], v, env) ELSE before[x]
    BY <2>2 DEF Effect, Reg
  <2>4. call \in Calls /\ step \in Nat /\ Seen = before /\ Past = step + 1 /\ Seen' = mem
    BY <1>1, <2>1 DEF Outer, Seen, Past
  <2>5. CASE call.kernel = "qr"
    <3>1. Past' = step + 1
      BY <2>1, <2>5 DEF Past
    <3>2. Columns(before, step + 1)
      BY <2>1, <2>4, <2>5 DEF Sums
    <3> DEFINE e == [by |-> v, in |-> env]
    <3>3. \A x \in Entries(call) :
            mem[x] = IF x[2] >= step + 1 THEN Append(before[x], e) ELSE before[x]
      BY <2>3, <2>4, <2>5, TrailingOwned DEF Stored
    <3> HIDE DEF e
    <3>4. \A x \in Entries(call) : x[2] \in Nat
      BY <2>4, <2>5, ColumnIndex
    <3>5. Columns(mem, step + 1)
      <4>1. step + 1 \in Nat
        BY <2>4
      <4> QED BY <4>1, <3>2, <3>3, <3>4, ColumnsApply, ZenonT(60)
    <3> QED BY <1>3, <2>1, <2>4, <2>5, <3>1, <3>5
  <2>6. CASE call.kernel # "qr"
    <3>1. \A x \in Entries(call) : before[x] = Zero
      BY <2>1, <2>4, <2>6 DEF Sums
    <3>2. \A x \in Entries(call) : mem[x] = Written(x)
      BY <2>3, <3>1 DEF Written
    <3>3. phase' = "done" /\ step' = step /\ call' = call /\ v' = v /\ env' = env /\ mem' = mem
      BY <2>1, <2>6
    <3>4. \A x \in Entries(call) : Written(x)' = Written(x)
      BY <3>3 DEF Written, Reg
    <3> QED BY <2>6, <3>2, <3>3, <3>4 DEF Sums
  <2> QED BY <2>5, <2>6
<1>8. CASE Factored
  <2>1. phase = "step" /\ phase' = "done" /\ UNCHANGED <<call, step, mem>>
    BY <1>8 DEF Factored
  <2>2. call.kernel = "qr" /\ Seen' = Seen /\ Past' = Past
    BY <2>1 DEF Sums, Seen, Past
  <2> QED BY <1>3, <2>1, <2>2 DEF Sums
<1>9. CASE Return
  BY <1>9 DEF Return, Sums
<1>10. CASE \E t \in Threads : Worker(t)
  <2>1. phase = "region" /\ UNCHANGED <<caller, region>>
    BY <1>10 DEF Worker, Take, Accumulate, Store, Advance
  <2>2. phase' = "region" /\ call' = call /\ Seen' = Seen /\ Past' = Past
    BY <2>1 DEF caller, region, Seen, Past
  <2>3. CASE call.kernel = "qr"
    BY <1>3, <2>1, <2>2, <2>3 DEF Sums
  <2>4. CASE call.kernel # "qr"
    BY <2>1, <2>2, <2>4 DEF Sums
  <2> QED BY <2>3, <2>4
<1>11. CASE UNCHANGED vars
  <2>1. UNCHANGED <<phase, call, step, v, env, before, mem>>
    BY <1>11 DEF vars, caller, region
  <2>2. Seen' = Seen /\ Past' = Past /\ \A x : Written(x)' = Written(x)
    BY <2>1 DEF Seen, Past, Written, Reg
  <2>3. CASE phase # "idle" /\ call.kernel = "qr"
    BY <1>3, <2>1, <2>2, <2>3 DEF Sums
  <2>4. CASE phase = "idle" \/ call.kernel # "qr"
    BY <2>1, <2>2, <2>4 DEF Sums
  <2> QED BY <2>3, <2>4
<1> QED BY <1>2, <1>4, <1>5, <1>6, <1>7, <1>8, <1>9, <1>10, <1>11 DEF Next, Control

(* At the end of a call.                                                   *)
LEMMA SumsAtTheEnd ==
  ASSUME IInv, Sums
  PROVE  EntriesAreTheirSums
<1> SUFFICES ASSUME phase = "done" PROVE EntriesAreTheirSums
  BY DEF EntriesAreTheirSums
<1>1. call \in Calls /\ step \in Nat /\ Seen = mem /\ Past = step
  BY DEF IInv, Outer, Seen, Past
<1>2. Kind(call)
  BY <1>1, ParAssumption DEF Kind
<1>3. call.kernel # "qr" => \A x \in Entries(call) : mem[x] = Written(x)
  BY DEF Sums
<1>4. \A x \in Entries(call) : mem[x] = ByFormula(call, x, env)
  <2> TAKE x \in Entries(call)
  <2>1. CASE call.kernel \in {"xtv", "wxsq"}
    <3>1. call.p \in Nat /\ call.n \in Nat
      BY <1>2, <2>1 DEF Kind
    <3> QED BY <1>3, <2>1, <3>1, VectorSums DEF Written, Reg
  <2>2. CASE call.kernel = "xtx"
    <3>1. call.p \in Nat /\ call.n \in Nat
      BY <1>2, <2>2 DEF Kind
    <3> QED BY <1>3, <2>2, <3>1, MirroredSums DEF Written, Reg
  <2>3. CASE call.kernel = "wcrossprod"
    <3>1. call.pa \in Nat /\ call.pb \in Nat /\ call.n \in Nat
      BY <1>2, <2>3 DEF Kind
    <3> QED BY <1>3, <2>3, <3>1, UnfoldedSums DEF Written, Reg
  <2>4. CASE call.kernel \notin {"xtv", "wxsq", "xtx", "wcrossprod"}
    BY <2>4 DEF ByFormula
  <2> QED BY <2>1, <2>2, <2>3, <2>4
<1>5. ASSUME call.kernel = "leverage", NEW x \in Entries(call)
      PROVE  LET pairs == call.na[x[2]] * call.nb[x[2]]
             IN  IF pairs = 0 THEN mem[x] = Zero
                 ELSE mem[x][1] = env /\ Len(mem[x][2]) = pairs
  <2> DEFINE pairs == call.na[x[2]] * call.nb[x[2]]
  <2>1. /\ call.n \in Nat
        /\ call.na \in [Below(call.n) -> Nat] /\ call.nb \in [Below(call.n) -> Nat]
    BY <1>2, <1>5 DEF Kind
  <2>2. /\ x \in Owned(Reg, Reg.range) <=> pairs # 0
        /\ Stored(call, x, Zero, v, env)[1] = env
        /\ Len(Stored(call, x, Zero, v, env)[2]) = pairs
    BY <1>5, <2>1, PairedOwned, PairedSums DEF Reg
  <2>3. mem[x] = Written(x)
    BY <1>3, <1>5
  <2> HIDE DEF pairs
  <2>4. IF pairs = 0 THEN mem[x] = Zero ELSE mem[x][1] = env /\ Len(mem[x][2]) = pairs
    BY <2>2, <2>3 DEF Written
  <2> QED BY <2>4 DEF pairs
<1>6. ASSUME call.kernel = "qr", NEW x \in Entries(call), NEW y \in Entries(call), x[2] < y[2]
      PROVE  StartsWith(mem[y], Incoming(mem[x]))
  <2>1. Columns(mem, step)
    BY <1>1, <1>6 DEF Sums
  <2>2. CASE x[2] < step
    BY <1>6, <2>1, <2>2 DEF Columns
  <2>3. CASE ~ (x[2] < step)
    <3>1. x[2] \in Nat /\ y[2] \in Nat
      BY <1>1, <1>6, ColumnIndex
    <3>4. x[2] >= step /\ y[2] >= step
      BY <1>1, <1>6, <2>3, <3>1
    <3>2. mem[x] = mem[y]
      BY <1>6, <2>1, <3>4 DEF Columns
    <3>3. PICK S : mem[x] \in Seq(S)
      BY <2>1 DEF Columns, IsSequenceOf
    <3> QED BY <3>2, <3>3, Prefixes
  <2> QED BY <2>2, <2>3
<1> QED BY <1>4, <1>5, <1>6 DEF EntriesAreTheirSums

(* When a call is done, every entry of a product is the ordered sum of its *)
(* own terms, the mirrored half and the unfolded range included, a row of  *)
(* the leverage has one term to each pair of its nonzeros, and a column of *)
(* a factor has gone through every reflector of the columns to its left in *)
(* their order (wcrossprod.cpp, leverage.cpp, qr_factor.cpp).              *)
THEOREM SumsAreRight == Spec => []EntriesAreTheirSums
<1>1. Init => Sums
  BY DEF Init, Sums
<1>2. IInv /\ Sums /\ [Next]_vars => Sums'
  BY SumsStep
<1>3. IInv /\ Sums => EntriesAreTheirSums
  BY SumsAtTheEnd
<1> QED BY <1>1, <1>2, <1>3, InvAlways, PTL DEF Spec

-----------------------------------------------------------------------------
(* What is left of a call in progress, the weightiest first: the steps of  *)
(* a factor; the stage of this one; the elements nobody has taken; those   *)
(* the threads have; the entries they have to store, and to compute.       *)
StepsLeft == IF phase # "idle" /\ call.kernel = "qr" THEN Steps(call) - step ELSE 0
StageLeft ==
  CASE phase = "step" -> 4 [] phase = "open" -> 3 [] phase = "region" -> 2
    [] phase = "done" -> 1 [] OTHER -> 0
Had == {q \in Threads \X Reg.range : q[2] \in left[q[1]]}
Due == {q \in Threads \X Entries(call) : q[2] \in todo[q[1]]}
Unread == {t \in Threads : acc[t] = Nothing}
CountIn(S) == IF phase = "region" THEN Cardinality(S) ELSE 0
CallLeft ==
  <<StepsLeft, StageLeft, CountIn(free), CountIn(Had), CountIn(Due), CountIn(Unread)>>

(* The lexicographic order of six numbers, which has no endless descent.   *)
Precedes(a, b) == \E i \in 1 .. 6 : a[i] < b[i] /\ \A h \in 1 .. i - 1 : a[h] = b[h]

(* A Householder step in hand is one of the factor's.                      *)
Stepping ==
  /\ phase = "step" => call.kernel = "qr"
  /\ phase # "idle" /\ call.kernel = "qr" =>
       step \in 0 .. Steps(call) /\ (phase \in {"open", "region"} => step < Steps(call))

LEMMA PrecedesIs ==
  ASSUME NEW a1, NEW a2, NEW a3, NEW a4, NEW a5, NEW a6,
         NEW b1, NEW b2, NEW b3, NEW b4, NEW b5, NEW b6,
         \/ a1 < b1
         \/ a1 = b1 /\ a2 < b2
         \/ a1 = b1 /\ a2 = b2 /\ a3 < b3
         \/ a1 = b1 /\ a2 = b2 /\ a3 = b3 /\ a4 < b4
         \/ a1 = b1 /\ a2 = b2 /\ a3 = b3 /\ a4 = b4 /\ a5 < b5
         \/ a1 = b1 /\ a2 = b2 /\ a3 = b3 /\ a4 = b4 /\ a5 = b5 /\ a6 < b6
  PROVE  Precedes(<<a1, a2, a3, a4, a5, a6>>, <<b1, b2, b3, b4, b5, b6>>)
<1> DEFINE a == <<a1, a2, a3, a4, a5, a6>>
           b == <<b1, b2, b3, b4, b5, b6>>
<1>1. /\ a[1] = a1 /\ a[2] = a2 /\ a[3] = a3 /\ a[4] = a4 /\ a[5] = a5 /\ a[6] = a6
      /\ b[1] = b1 /\ b[2] = b2 /\ b[3] = b3 /\ b[4] = b4 /\ b[5] = b5 /\ b[6] = b6
  OBVIOUS
<1> HIDE DEF a, b
<1>2. PICK i \in 1 .. 6 : a[i] < b[i] /\ \A h \in 1 .. 6 : h < i => a[h] = b[h]
  <2>1. \A h \in 1 .. 6 : h = 1 \/ h = 2 \/ h = 3 \/ h = 4 \/ h = 5 \/ h = 6
    OBVIOUS
  <2>2. CASE a1 < b1
    BY <1>1, <2>2
  <2>3. CASE a1 = b1 /\ a2 < b2
    BY <1>1, <2>1, <2>3
  <2>4. CASE a1 = b1 /\ a2 = b2 /\ a3 < b3
    BY <1>1, <2>1, <2>4
  <2>5. CASE a1 = b1 /\ a2 = b2 /\ a3 = b3 /\ a4 < b4
    BY <1>1, <2>1, <2>5
  <2>6. CASE a1 = b1 /\ a2 = b2 /\ a3 = b3 /\ a4 = b4 /\ a5 < b5
    BY <1>1, <2>1, <2>6
  <2>7. CASE a1 = b1 /\ a2 = b2 /\ a3 = b3 /\ a4 = b4 /\ a5 = b5 /\ a6 < b6
    BY <1>1, <2>1, <2>7
  <2> QED BY <2>2, <2>3, <2>4, <2>5, <2>6, <2>7
<1>3. Precedes(a, b)
  BY <1>2 DEF Precedes
<1> QED BY <1>3 DEF a, b

(* A part of a finite set that misses an element counts less.              *)
LEMMA CountsLess ==
  ASSUME NEW B, IsFiniteSet(B), NEW A \in SUBSET B, A # B
  PROVE  Cardinality(A) < Cardinality(B)
<1>1. /\ IsFiniteSet(A) /\ Cardinality(A) <= Cardinality(B)
      /\ Cardinality(A) # Cardinality(B)
  BY FS_Subset
<1>2. Cardinality(A) \in Nat /\ Cardinality(B) \in Nat
  BY <1>1, FS_CardinalityType
<1> QED BY <1>1, <1>2

LEMMA FiniteBelow == \A n \in Int : IsFiniteSet(Below(n))
BY FS_Interval DEF Below

(* The range of a region and the entries of a call are finite.             *)
LEMMA FiniteCall ==
  ASSUME NEW c \in Calls, NEW j \in Nat
  PROVE  IsFiniteSet(Region(c, j).range) /\ IsFiniteSet(Entries(c))
<1>1. Kind(c)
  BY ParAssumption DEF Kind
<1>2. IsFiniteSet({0})
  BY FS_Singleton
<1>3. CASE c \in [kernel: {"xtv", "wxsq", "xtx"}, n: Nat, p: Nat]
  <2>1. c.p \in Nat /\ Region(c, j).range = Below(c.p)
    BY <1>3 DEF Region, Xtv, Wxsq, Xtx
  <2>2. Entries(c) = {0} \X Below(c.p) \/ Entries(c) = Below(c.p) \X Below(c.p)
    BY <1>3 DEF Entries
  <2> QED BY <1>2, <2>1, <2>2, FiniteBelow, FS_Product
<1>4. CASE c \in [kernel: {"wcrossprod"}, n: Nat, pa: Nat, pb: Nat]
  <2>1. c.pa \in Nat /\ c.pb \in Nat /\ Region(c, j).range = Below(c.pa * c.pb)
    BY <1>4 DEF Region, Wcrossprod
  <2>2. \A h, k \in Nat : h * k \in Nat
    OBVIOUS
  <2>3. Entries(c) = Below(c.pa) \X Below(c.pb)
    BY <1>4 DEF Entries
  <2> QED BY <2>1, <2>2, <2>3, FiniteBelow, FS_Product
<1>5. CASE c.kernel = "leverage" /\ c.n \in Nat
  <2>1. Region(c, j).range = Below(c.n) /\ Entries(c) = {0} \X Below(c.n)
    BY <1>5 DEF Region, Leverage, Entries
  <2> QED BY <1>2, <1>5, <2>1, FiniteBelow, FS_Product
<1>6. CASE c \in [kernel: {"qr"}, m: Nat, p: Nat]
  <2>1. c.p \in Nat /\ Region(c, j).range = Below(c.p - j - 1)
    BY <1>6 DEF Region, Trailing
  <2>2. Entries(c) = {0} \X Below(c.p)
    BY <1>6 DEF Entries
  <2>3. c.p - j - 1 \in Int /\ c.p \in Int
    BY <2>1
  <2>4. IsFiniteSet(Below(c.p - j - 1)) /\ IsFiniteSet(Below(c.p))
    BY <2>3, FiniteBelow
  <2> QED BY <1>2, <2>1, <2>2, <2>4, FS_Product
<1> QED BY <1>1, <1>3, <1>4, <1>5, <1>6 DEF Kind

(* What is counted in a region is finite.                                  *)
LEMMA Countable ==
  ASSUME IInv, phase = "region"
  PROVE  /\ IsFiniteSet(free) /\ IsFiniteSet(Had) /\ IsFiniteSet(Due) /\ IsFiniteSet(Unread)
         /\ Reg' = Reg /\ call' = call =>
              Had' = {q \in Threads \X Reg.range : q[2] \in left'[q[1]]}
              /\ Due' = {q \in Threads \X Entries(call) : q[2] \in todo'[q[1]]}
<1>1. Outer /\ Chunks /\ call \in Calls /\ step \in Nat
  BY DEF IInv, Outer
<1>2. IsFiniteSet(Reg.range) /\ IsFiniteSet(Entries(call))
  BY <1>1, FiniteCall DEF Reg
<1>3. IsFiniteSet(Threads)
  BY ParAssumption, FS_Interval DEF Threads
<1>4. IsFiniteSet(Threads \X Reg.range) /\ IsFiniteSet(Threads \X Entries(call))
  BY <1>2, <1>3, FS_Product
<1>5. IsFiniteSet(free)
  BY <1>1, <1>2, FS_Subset DEF Chunks
<1>6. Had \in SUBSET (Threads \X Reg.range) /\ Due \in SUBSET (Threads \X Entries(call))
      /\ Unread \in SUBSET Threads
  BY DEF Had, Due, Unread
<1>7. IsFiniteSet(Had) /\ IsFiniteSet(Due) /\ IsFiniteSet(Unread)
  BY <1>3, <1>4, <1>6, FS_Subset
<1> QED BY <1>5, <1>7 DEF Had, Due

LEMMA SteppingStep ==
  ASSUME IInv, Stepping, [Next]_vars
  PROVE  Stepping'
<1>1. phase # "idle" => call \in Calls
  BY DEF IInv, Outer
<1>2. \A k \in Calls : k.kernel = "qr" => Steps(k) \in Nat /\ Steps(k) <= k.p /\ k.p \in Nat
  <2> SUFFICES ASSUME NEW k \in Calls, k.kernel = "qr"
               PROVE  Steps(k) \in Nat /\ Steps(k) <= k.p /\ k.p \in Nat
    OBVIOUS
  <2>1. k.m \in Nat /\ k.p \in Nat
    BY ParAssumption
  <2> QED BY <2>1 DEF Steps
<1>3. CASE Begin
  BY <1>2, <1>3 DEF Begin, Stepping
<1>4. CASE PassOver \/ Reflect
  <2>1. /\ phase = "step" /\ step < Steps(call) /\ call' = call
        /\ \/ phase' = "step" /\ step' = step + 1
           \/ phase' = "open" /\ step' = step
    BY <1>4 DEF PassOver, Reflect
  <2>2. call.kernel = "qr" /\ step \in Nat /\ Steps(call) \in Nat
    BY <1>1, <1>2, <2>1 DEF Stepping
  <2> QED BY <2>1, <2>2 DEF Stepping
<1>5. CASE Open
  BY <1>5 DEF Open, Stepping
<1>6. CASE Join
  <2>1. /\ phase = "region" /\ call' = call
        /\ IF call.kernel = "qr" THEN phase' = "step" /\ step' = step + 1
                                 ELSE phase' = "done" /\ step' = step
    BY <1>6 DEF Join
  <2>2. call.kernel = "qr" => step \in Nat /\ Steps(call) \in Nat /\ step < Steps(call)
    BY <1>1, <1>2, <2>1 DEF Stepping
  <2> QED BY <2>1, <2>2 DEF Stepping
<1>7. CASE Factored
  BY <1>7 DEF Factored, Stepping
<1>8. CASE Return
  BY <1>8 DEF Return, Stepping
<1>9. CASE (\E t \in Threads : Worker(t)) \/ UNCHANGED vars
  <2>1. UNCHANGED caller
    BY <1>9 DEF Worker, Take, Accumulate, Store, Advance, vars
  <2> QED BY <2>1 DEF Stepping, caller
<1> QED BY <1>3, <1>4, <1>5, <1>6, <1>7, <1>8, <1>9 DEF Next, Control

LEMMA CallLeftIs == IInv /\ Stepping => CallLeft \in Nat \X Nat \X Nat \X Nat \X Nat \X Nat
<1> SUFFICES ASSUME IInv, Stepping PROVE CallLeft \in Nat \X Nat \X Nat \X Nat \X Nat \X Nat
  OBVIOUS
<1>1. StepsLeft \in Nat
  <2>1. CASE phase # "idle" /\ call.kernel = "qr"
    <3>1. call.m \in Nat /\ call.p \in Nat
      BY <2>1, ParAssumption DEF IInv, Outer
    <3>2. Steps(call) \in Nat /\ step \in 0 .. Steps(call)
      BY <2>1, <3>1 DEF Steps, Stepping
    <3> QED BY <2>1, <3>2 DEF StepsLeft
  <2> QED BY <2>1 DEF StepsLeft
<1>2. StageLeft \in Nat
  BY DEF StageLeft
<1>3. CountIn(free) \in Nat /\ CountIn(Had) \in Nat /\ CountIn(Due) \in Nat /\ CountIn(Unread) \in Nat
  BY Countable, FS_CardinalityType DEF CountIn
<1> QED BY <1>1, <1>2, <1>3 DEF CallLeft

(* A step of a thread: what is taken is not free, what is run is not had,  *)
(* what is stored is not due, what is computed is not to be read.          *)
LEMMA WorkerFalls ==
  ASSUME IInv, NEW t \in Threads, Worker(t), \A x, y : <<x, y>> # Nothing
  PROVE  Precedes(CallLeft', CallLeft)
<1>1. phase = "region" /\ UNCHANGED <<caller, region>>
  BY DEF Worker, Take, Accumulate, Store, Advance
<1>2. /\ call' = call /\ phase' = "region" /\ Reg' = Reg
      /\ StepsLeft' = StepsLeft /\ StageLeft' = StageLeft
  BY <1>1 DEF caller, Reg, StepsLeft, StageLeft
<1>3. /\ IsFiniteSet(free) /\ IsFiniteSet(Had) /\ IsFiniteSet(Due) /\ IsFiniteSet(Unread)
      /\ Had' = {q \in Threads \X Reg.range : q[2] \in left'[q[1]]}
      /\ Due' = {q \in Threads \X Entries(call) : q[2] \in todo'[q[1]]}
  BY <1>1, <1>2, Countable
<1>4. Outer /\ Chunks /\ Bodies
  BY <1>1 DEF IInv
<1>5. /\ CountIn(free) = Cardinality(free) /\ CountIn(free)' = Cardinality(free')
      /\ CountIn(Had) = Cardinality(Had) /\ CountIn(Had)' = Cardinality(Had')
      /\ CountIn(Due) = Cardinality(Due) /\ CountIn(Due)' = Cardinality(Due')
      /\ CountIn(Unread) = Cardinality(Unread) /\ CountIn(Unread)' = Cardinality(Unread')
  BY <1>1, <1>2 DEF CountIn
<1>6. CASE Take(t)
  <2>1. PICK k \in {part[i] : i \in free} : free' = free \ {i \in free : part[i] = k}
    BY <1>6 DEF Take
  <2>2. free' \in SUBSET free /\ free' # free
    BY <2>1
  <2>3. Cardinality(free') < Cardinality(free)
    BY <1>3, <2>2, CountsLess
  <2> QED BY <1>2, <1>5, <2>3, PrecedesIs DEF CallLeft
<1>7. CASE Accumulate(t)
  <2>1. PICK x \in todo[t] : acc' = [acc EXCEPT ![t] = <<x, Stored(call, x, mem[x], v, mode[t])>>]
    BY <1>7 DEF Accumulate
  <2>2. UNCHANGED <<free, left, todo>> /\ acc[t] = Nothing
    BY <1>7 DEF Accumulate
  <2>3. acc'[t] # Nothing
    BY <1>4, <2>1 DEF Bodies
  <2>4. Unread' = Unread \ {t} /\ t \in Unread
    BY <1>4, <2>1, <2>2, <2>3 DEF Unread, Bodies
  <2>5. Unread' \in SUBSET Unread /\ Unread' # Unread
    BY <2>4
  <2>6. Cardinality(Unread') < Cardinality(Unread)
    BY <1>3, <2>5, CountsLess
  <2>7. Had' = Had /\ Due' = Due /\ free' = free
    BY <1>2, <2>2 DEF Had, Due
  <2> QED BY <1>2, <1>5, <2>6, <2>7, PrecedesIs DEF CallLeft
<1>8. CASE Store(t)
  <2>1. /\ acc[t] # Nothing /\ UNCHANGED <<free, left>>
        /\ todo' = [todo EXCEPT ![t] = @ \ {acc[t][1]}]
    BY <1>8 DEF Store
  <2>2. PICK x \in todo[t] : acc[t][1] = x
    BY <1>4, <2>1 DEF Bodies, Computed
  <2>3. /\ x \in Entries(call) /\ todo'[t] = todo[t] \ {x}
        /\ \A s \in Threads : s # t => todo'[s] = todo[s]
    BY <1>4, <2>1, <2>2 DEF Bodies
  <2>4. Due' \in SUBSET Due
    BY <1>3, <2>3 DEF Due
  <2>5. <<t, x>> \in Due /\ <<t, x>> \notin Due'
    BY <1>3, <2>3 DEF Due
  <2>6. Cardinality(Due') < Cardinality(Due)
    BY <1>3, <2>4, <2>5, CountsLess
  <2>7. Had' = Had /\ free' = free
    BY <1>2, <2>1 DEF Had
  <2> QED BY <1>2, <1>5, <2>6, <2>7, PrecedesIs DEF CallLeft
<1>9. CASE Advance(t)
  <2> DEFINE x == Least(left[t])
  <2>1. left[t] # {} /\ left' = [left EXCEPT ![t] = left[t] \ {x}] /\ free' = free
    BY <1>9 DEF Advance
  <2>2. x \in left[t] /\ x \in Reg.range
    <3>1. left[t] \in SUBSET Nat /\ left[t] \subseteq Reg.range
      BY <1>1, <1>4, OneOwner DEF Chunks
    <3> QED BY <2>1, <3>1, LeastIsElement
  <2> HIDE DEF x
  <2>3. left'[t] = left[t] \ {x} /\ \A s \in Threads : s # t => left'[s] = left[s]
    BY <1>4, <2>1 DEF Chunks
  <2>4. Had' \in SUBSET Had
    BY <1>3, <2>3 DEF Had
  <2>5. <<t, x>> \in Had /\ <<t, x>> \notin Had'
    BY <1>3, <2>2, <2>3 DEF Had
  <2>6. Cardinality(Had') < Cardinality(Had)
    BY <1>3, <2>4, <2>5, CountsLess
  <2> QED BY <1>2, <1>5, <2>1, <2>6, PrecedesIs DEF CallLeft
<1> QED BY <1>6, <1>7, <1>8, <1>9 DEF Worker

(* A step of the caller: a step of the factor less, or a stage.            *)
LEMMA ControlFalls ==
  ASSUME IInv, Stepping, Control
  PROVE  phase' = "idle" \/ Precedes(CallLeft', CallLeft)
<1>1. phase # "idle" => call \in Calls
  BY DEF IInv, Outer
<1>2. call \in Calls /\ call.kernel = "qr" => Steps(call) \in Nat
  <2> HAVE call \in Calls /\ call.kernel = "qr"
  <2>1. call.m \in Nat /\ call.p \in Nat
    BY ParAssumption
  <2> QED BY <2>1 DEF Steps
<1>3. CASE step' = step + 1 /\ phase \in {"step", "region"} /\ phase' = "step" /\ call' = call
           /\ call.kernel = "qr"
  <2>1. step \in Nat /\ Steps(call) \in Nat
    BY <1>1, <1>2, <1>3 DEF IInv, Outer
  <2>2. StepsLeft = Steps(call) - step /\ StepsLeft' = Steps(call) - (step + 1)
    BY <1>3 DEF StepsLeft
  <2>3. StepsLeft' < StepsLeft
    BY <2>1, <2>2
  <2> QED BY <2>3, PrecedesIs DEF CallLeft
<1>4. CASE /\ step' = step /\ call' = call
           /\ \/ phase = "step" /\ phase' \in {"open", "done"}
              \/ phase = "open" /\ phase' = "region"
              \/ phase = "region" /\ phase' = "done"
  <2>1. StepsLeft' = StepsLeft
    BY <1>4 DEF StepsLeft
  <2>2. StageLeft' < StageLeft
    BY <1>4 DEF StageLeft
  <2> QED BY <2>1, <2>2, PrecedesIs DEF CallLeft
<1>5. CASE PassOver \/ Reflect
  <2>1. /\ phase = "step" /\ call' = call
        /\ \/ phase' = "step" /\ step' = step + 1
           \/ phase' = "open" /\ step' = step
    BY <1>5 DEF PassOver, Reflect
  <2>2. call.kernel = "qr"
    BY <2>1 DEF Stepping
  <2> QED BY <1>3, <1>4, <2>1, <2>2
<1>6. CASE Open
  BY <1>4, <1>6 DEF Open
<1>7. CASE Join
  <2>1. /\ phase = "region" /\ call' = call
        /\ IF call.kernel = "qr" THEN phase' = "step" /\ step' = step + 1
                                 ELSE phase' = "done" /\ step' = step
    BY <1>7 DEF Join
  <2> QED BY <1>3, <1>4, <2>1
<1>8. CASE Factored
  BY <1>4, <1>8 DEF Factored
<1>9. CASE Return
  BY <1>9 DEF Return
<1> QED BY <1>5, <1>6, <1>7, <1>8, <1>9 DEF Control

(* Every step of a call, of the caller or of any of its threads, leaves    *)
(* less of it, or ends it: the steps of a factor, their stages, what is    *)
(* still to take, to run, to store and to compute only run out, whatever   *)
(* the chunks and whoever takes them (par_for.h, qr_factor.cpp).           *)
THEOREM CallsRunOut ==
  ASSUME \A x, y : <<x, y>> # Nothing
  PROVE  Spec => /\ [](CallLeft \in Nat \X Nat \X Nat \X Nat \X Nat \X Nat)
                 /\ [][phase # "idle" => phase' = "idle" \/ Precedes(CallLeft', CallLeft)]_vars
<1>1. Init => Stepping
  BY DEF Init, Stepping
<1>2. IInv /\ Stepping /\ [Next]_vars => Stepping'
  BY SteppingStep
<1>3. IInv /\ Stepping /\ Next => (phase # "idle" => phase' = "idle" \/ Precedes(CallLeft', CallLeft))
  <2> SUFFICES ASSUME IInv, Stepping, Next, phase # "idle"
               PROVE  phase' = "idle" \/ Precedes(CallLeft', CallLeft)
    OBVIOUS
  <2>1. ~ Begin
    BY DEF Begin
  <2> QED BY <2>1, ControlFalls, WorkerFalls DEF Next
<1> QED BY <1>1, <1>2, <1>3, InvAlways, CallLeftIs, PTL DEF Spec
=============================================================================
