--------------------------- MODULE MCTourHeuristics ---------------------------
(* Five vertices; travel times that fall with time, and fixed ones.            *)
EXTENDS TourHeuristics

MCVertices == <<0, 1, 2, 3, 4>>
MCTime == 0 .. 60
Base(lines) == [p \in (0 .. 4) \X (0 .. 4) |-> lines[p[1] + 1][p[2] + 1]]
Table(lines, slow) ==
  [p \in (0 .. 4) \X (0 .. 4) |->
     [t \in MCTime |-> Base(lines)[p] + IF p \in slow /\ t < 4 THEN 4 - t ELSE 0]]

First  == <<<<0, 5, 2, 4, 1>>, <<3, 0, 4, 1, 6>>, <<2, 6, 0, 5, 3>>, <<6, 2, 4, 0, 5>>, <<1, 5, 3, 2, 0>>>>
Second == <<<<0, 2, 2, 3, 1>>, <<2, 0, 4, 1, 2>>, <<2, 1, 0, 1, 3>>, <<1, 2, 1, 0, 4>>, <<3, 1, 2, 2, 0>>>>

MCDistanceFuncs == {Table(First, {<<0, 2>>, <<2, 4>>, <<0, 4>>}), Table(Second, {})}
MCStatic == [p \in (0 .. 4) \X (0 .. 4) |-> 1 + Base(First)[p]]
MCGarbage == {0, 99}
=============================================================================
