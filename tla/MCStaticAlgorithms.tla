------------------------- MODULE MCStaticAlgorithms -------------------------
(* Five vertices: fewer have no odd CAT that a solution of the relaxation      *)
(* without violated subtours can violate.  Values are halves.                  *)
EXTENDS StaticAlgorithms

Table(lines) == [e \in Edges |-> lines[e[1] + 1][e[2] + 1]]

\* The cheapest assignment is a cycle through the first vertex and one without it.
Subtours == Table(<<<<0, 1, 4, 6, 5>>, <<4, 0, 1, 5, 6>>, <<1, 4, 0, 5, 7>>, <<6, 5, 5, 0, 1>>, <<5, 6, 5, 1, 0>>>>)

\* A solution of cost 7 without violated subtours, but with a violated odd CAT; tours cost 8.
Trails == Table(<<<<0, 3, 1, 1, 5>>, <<3, 0, 4, 1, 2>>, <<2, 2, 0, 5, 4>>, <<1, 5, 5, 0, 1>>, <<3, 2, 1, 5, 0>>>>)

MCCostFuncs == {Subtours, Trails}
-----------------------------------------------------------------------------
\* The graph of computeMaxTime: the set that is left (0), three vertices, and the
\* return (4), which is joined to the set again.  Between the three there are cycles of
\* two and three vertices, and such that close when another one is contracted.
Among == {<<1, 2>>, <<2, 1>>, <<1, 3>>, <<3, 1>>, <<2, 3>>, <<3, 2>>}

Weights(entry, within) ==
  [e \in Among \cup {<<0, v>> : v \in DOMAIN entry} \cup {<<v, 4>> : v \in 1 .. 3} \cup {<<4, 0>>} |->
     IF e \in Among THEN within[e] ELSE IF e[1] = 0 THEN entry[e[2]] ELSE IF e[2] = 4 THEN e[1] ELSE 0]

\* The last entry: nothing but the second vertex is reached from the set, and one
\* graph in which the others are not reached from it.
Entries == {[v \in 1 .. 3 |-> IF v = 2 THEN 2 ELSE 3], [v \in 1 .. 3 |-> 4 - v], [v \in {2} |-> 1]}
AmongWeights == {w \in [Among -> {0, 1, 3}] : w[<<1, 2>>] # 3 /\ w[<<1, 3>>] # 0 /\ w[<<2, 1>>] # 1 /\ w[<<3, 2>>] # 0}

MCGraphs ==
  {[vertices |-> 0 .. 4, root |-> 0, weights |-> Weights(entry, within)] : entry \in Entries, within \in AmongWeights}
  \cup {[vertices |-> 0 .. 3, root |-> 0,
         weights |-> [e \in {<<0, 1>>, <<2, 3>>, <<3, 2>>, <<2, 1>>} |-> IF e = <<0, 1>> THEN 0 ELSE 1]]}
=============================================================================
