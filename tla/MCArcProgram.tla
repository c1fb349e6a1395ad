----------------------------- MODULE MCArcProgram -----------------------------
(* Five vertices, with travel times that fall and with fixed ones.  The        *)
(* distances are the shortest arrivals over the arcs, so that they meet the    *)
(* assumption.                                                                 *)
EXTENDS CoveringRelaxation

MCVertices == 0 .. 4
MCArcs == {a \in MCVertices \X MCVertices : a[1] # a[2]}

\* Two pairs of vertices that are close to each other.
Pairs(a, t) ==
  IF a \in {<<0, 1>>, <<0, 2>>, <<0, 3>>, <<1, 2>>, <<2, 1>>, <<1, 4>>, <<2, 3>>, <<3, 4>>,
            <<4, 3>>, <<2, 0>>, <<3, 0>>, <<4, 0>>}
  THEN 1 ELSE 3

\* Some arcs are slow until time 2.
Falling(a, t) ==
  (CASE a \in {<<0, 1>>, <<1, 2>>, <<2, 1>>, <<2, 4>>, <<3, 0>>, <<3, 2>>, <<3, 4>>, <<4, 3>>} -> 1
     [] a \in {<<0, 4>>, <<1, 3>>, <<3, 1>>, <<4, 0>>, <<4, 1>>} -> 3
     [] OTHER -> 2)
  + (IF a \notin {<<0, 3>>, <<2, 0>>, <<3, 2>>, <<4, 1>>} \/ t > 3 THEN 0
     ELSE IF t = 3 THEN 1 ELSE 2)

\* The earliest arrival over at most three arcs, as a table.
Closure(travel(_, _)) ==
  LET Step(v, w, t) == IF v = w THEN t ELSE t + travel(<<v, w>>, t)
      Earliest(v, w, t) == Min({Step(y, w, Step(x, y, Step(v, x, t))) : x, y \in MCVertices})
      Table(a) == FoldSet(LAMBDA t, table : table @@ (t :> Earliest(a[1], a[2], t) - t), <<>>, 0 .. MaxTime)
  IN  FoldSet(LAMBDA a, table : table @@ (a :> Table(a)), <<>>, MCVertices \X MCVertices)

MCDistanceFuncs == {Closure(Falling), Closure(Pairs)}
MCTours == {<<0, 1, 2, 3, 4>>, <<0, 2, 1, 4, 3>>}
MCLowerBounds == {0, 5}
MCseparators == {"subtour", "lifted", "twoCycle", "dk", "oddCAT", "unitaryAFC", "pathFree", "cycle"}
=============================================================================
