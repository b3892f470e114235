------------------------------- MODULE Kernels -------------------------------
(***************************************************************************)
(* The bodies of the threaded kernels (wcrossprod.cpp, leverage.cpp and    *)
(* qr_factor.cpp): which entries of the output each element of a region's  *)
(* range writes, and with what.  A double is symbolic: a sum is the        *)
(* sequence of its terms in the order in which they are added, under the   *)
(* floating-point environment they are added in, because addition rounds   *)
(* and is not associative; a product of two doubles is the set of its      *)
(* factors, because it is commutative.                                     *)
(***************************************************************************)
EXTENDS Integers, Sequences

Zero == <<>>                    \* what an output is allocated with
Below(n) == 0 .. n - 1
Times(x, y) == {x, y}
Sum(terms, e) == <<e, terms>>

\* A call is a record with the kernel's name and its dimensions; a kernel's
\* region is its range, the entries each element of the range writes, and
\* the terms of each entry.

(* X'v: one dot product per column, rows ascending.                        *)
Xtv(c) ==
  [range  |-> Below(c.p),
   writes |-> [j \in Below(c.p) |-> {<<0, j>>}],
   terms  |-> [x \in {0} \X Below(c.p) |->
                 [i \in 1 .. c.n |-> Times(<<"X", i, x[2]>>, <<"v", i, 0>>)]]]

(* w'(X * X): the square is rounded before the weight multiplies it.       *)
Wxsq(c) ==
  [range  |-> Below(c.p),
   writes |-> [j \in Below(c.p) |-> {<<0, j>>}],
   terms  |-> [x \in {0} \X Below(c.p) |->
                 [i \in 1 .. c.n |->
                    <<<<"w", i, 0>>, Times(<<"X", i, x[2]>>, <<"X", i, x[2]>>)>>]]]

(* Mutant: the walk over the columns does not stop at the diagonal.        *)
Xtx_bothHalves(c) ==
  [range  |-> Below(c.p),
   writes |-> [k \in Below(c.p) |->
                 {<<j, k>> : j \in Below(c.p)} \union {<<k, j>> : j \in Below(c.p)}],
   terms  |-> [x \in Below(c.p) \X Below(c.p) |->
                 [i \in 1 .. c.n |-> Times(<<"A", i, x[1]>>, <<"A", i, x[2]>>)]]]

(* Mutant: the mirror is not written.                                      *)
Xtx_noMirror(c) ==
  [range  |-> Below(c.p),
   writes |-> [k \in Below(c.p) |-> {<<j, k>> : j \in 0 .. k}],
   terms  |-> [x \in Below(c.p) \X Below(c.p) |->
                 [i \in 1 .. c.n |-> Times(<<"A", i, x[1]>>, <<"A", i, x[2]>>)]]]

(* A'A: column k of the upper triangle and its mirror.                     *)
Xtx(c) ==
  [range  |-> Below(c.p),
   writes |-> [k \in Below(c.p) |->
                 {<<j, k>> : j \in 0 .. k} \union {<<k, j>> : j \in 0 .. k}],
   terms  |-> [x \in Below(c.p) \X Below(c.p) |->
                 [i \in 1 .. c.n |-> Times(<<"A", i, x[1]>>, <<"A", i, x[2]>>)]]]

(* A'diag(w)B: element t of the range is the entry (j, k) with t = k pa + j.*)
Wcrossprod(c) ==
  [range  |-> Below(c.pa * c.pb),
   writes |-> [t \in Below(c.pa * c.pb) |-> {<<t - (t \div c.pa) * c.pa, t \div c.pa>>}],
   terms  |-> [x \in Below(c.pa) \X Below(c.pb) |->
                 [i \in 1 .. c.n |->
                    <<Times(<<"A", i, x[1]>>, <<"w", i, 0>>), <<"B", i, x[2]>>>>]]]

(* The leverage of row i: the double loop over its nonzeros in the two     *)
(* designs; a row without any writes nothing and keeps its zero.           *)
Leverage(c) ==
  [range  |-> Below(c.n),
   writes |-> [i \in Below(c.n) |->
                 IF c.na[i] = 0 \/ c.nb[i] = 0 THEN {} ELSE {<<0, i>>}],
   terms  |-> [x \in {0} \X Below(c.n) |->
                 [s \in 1 .. c.na[x[2]] * c.nb[x[2]] |->
                    LET q == (s - 1) % c.nb[x[2]]
                        p == (s - 1) \div c.nb[x[2]]
                    IN  <<<<"A", x[2], p>>, <<"B", x[2], q>>, <<"M", p, q>>>>]]]

(* Mutant: the walk goes one column past the last.                         *)
Trailing_onePast(c, j) ==
  [range  |-> Below(c.p - j),
   writes |-> [t \in Below(c.p - j) |-> {<<0, j + 1 + t>>}]]

(* The trailing columns of Householder step j, updated in place.           *)
Trailing(c, j) ==
  [range  |-> Below(c.p - j - 1),
   writes |-> [t \in Below(c.p - j - 1) |-> {<<0, j + 1 + t>>}]]

Steps(c) == IF c.m < c.p THEN c.m ELSE c.p

Region(c, j) ==
  CASE c.kernel = "xtv" -> Xtv(c)
    [] c.kernel = "wxsq" -> Wxsq(c)
    [] c.kernel = "xtx" -> Xtx(c)
    [] c.kernel = "wcrossprod" -> Wcrossprod(c)
    [] c.kernel = "leverage" -> Leverage(c)
    [] c.kernel = "qr" -> Trailing(c, j)

Entries(c) ==
  CASE c.kernel \in {"xtv", "wxsq"} -> {0} \X Below(c.p)
    [] c.kernel = "xtx" -> Below(c.p) \X Below(c.p)
    [] c.kernel = "wcrossprod" -> Below(c.pa) \X Below(c.pb)
    [] c.kernel = "leverage" -> {0} \X Below(c.n)
    [] c.kernel = "qr" -> {0} \X Below(c.p)

(* What a body stores in an entry that held `old': a sum accumulated from  *)
(* zero, or for a trailing column (its entries taken together) that column *)
(* with the reflector v applied.                                           *)
Stored(c, x, old, v, e) ==
  IF c.kernel = "qr" THEN Append(old, [by |-> v, in |-> e])
  ELSE Sum(Region(c, 0).terms[x], e)

(* What reducing the column itself leaves in it: alpha and zeros.          *)
Reduced == [by |-> Zero, in |-> Zero]

Owned(r, tasks) == UNION {r.writes[t] : t \in tasks}

(* What a region leaves in the memory, whoever runs its bodies.            *)
Effect(c, j, mem, v, e) ==
  [x \in Entries(c) |->
     IF x \in Owned(Region(c, j), Region(c, j).range)
     THEN Stored(c, x, mem[x], v, e) ELSE mem[x]]
=============================================================================
