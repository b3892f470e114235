--------------------------- MODULE MCCoordDescent ---------------------------
(* Instances of CoordDescent for TLC: blocks of two or three columns over  *)
(* two to four rows, correlated, with zeros, with a constant column, some  *)
(* of them centered, with a path behind them or without.                   *)
EXTENDS CoordDescent

Weights == [n \in 2 .. 4 |-> CASE n = 2 -> <<1, 1>> [] n = 3 -> <<1, 1, 2>>
                                [] n = 4 -> <<1, 1, 1, 1>>]

Designs ==
  { << <<2, 0>>, <<1, 3>> >>,
    << <<4, 0, 0>>, <<2, 0, 1>>, <<0, 0, 2>> >>,
    << <<1, 1, 1>>, <<1, 1, -1>>, <<2, 2, 0>> >>,
    << <<4, 0, 0, 0>>, <<3, 1, 0, 0>>, <<0, 0, 2, 2>> >>,
    << <<1, -1, 0, 0>>, <<3, 1, 0, 0>>, <<-4, 0, 0, 0>> >> }

Responses(n) ==
  CASE n = 2 -> {<<6, -2>>, <<-4, 8>>}
    [] n = 3 -> {<<12, 0, 4>>, <<-8, 4, 2>>, <<3, 3, -5>>}
    [] n = 4 -> {<<8, 0, -4, 0>>, <<-3, 9, 5, 1>>}

Kinks(p) == {[j \in 1 .. p |-> 2], [j \in 1 .. p |-> 3 * j]}

AllProblems ==
  UNION { LET p == Len(X)  n == Len(X[1])
          IN  [X : {X}, w : {Weights[n]}, sparse : BOOLEAN, center : BOOLEAN,
               penalty : {"lasso", "mcp"}, kink : Kinks(p),
               prevKink : {None, [j \in 1 .. p |-> 3 * j], [j \in 1 .. p |-> 9]},
               responses : {{y} : y \in Responses(n)} \union {Responses(n)}] :
          X \in Designs }
MCProblems == {q \in AllProblems : q.sparse => q.center}

MCStarts == UNION {{[j \in 1 .. p |-> 0], [j \in 1 .. p |-> IF j = p THEN 2 ELSE 0]} :
                   p \in 2 .. 3}
=============================================================================
