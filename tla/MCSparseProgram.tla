---------------------------- MODULE MCSparseProgram ----------------------------
(* Four vertices, travel times that fall: the tour r c a b takes 8, r b a c 7, *)
(* and no other one is in time.  Half of r b a c b r and half of r c r solve   *)
(* the relaxation.                                                             *)
EXTENDS SparseProgram

MCVertices == {"r", "a", "b", "c"}
MCArcs == {a \in MCVertices \X MCVertices : a[1] # a[2]}

travel(a, t) ==
  CASE a \in {<<"r", "c">>, <<"a", "c">>, <<"b", "a">>, <<"c", "a">>} -> 1
    [] a \in {<<"r", "a">>, <<"r", "b">>, <<"b", "c">>} -> 2
    [] a = <<"a", "b">> -> IF t < 3 THEN 3 ELSE 2
    [] a = <<"c", "b">> -> IF t < 3 THEN 3 ELSE IF t = 3 THEN 2 ELSE 1
    [] OTHER -> 3

MCDistance == [a \in MCArcs |-> Min({travel(a, t) : t \in 0 .. 8})]

\* What is expanded from the initial tour: journeys that leave time to return.
Expanded ==
  LET Journey(a, t) == [source |-> [vertex |-> a[1], time |-> t],
                        target |-> [vertex |-> a[2], time |-> t + travel(a, t)]]
      InTime(e) == IF e.target.vertex = "r" THEN e.target.time \in 4 .. Horizon
                   ELSE e.target.time + travel(<<e.target.vertex, "r">>, e.target.time) <= Horizon
      Out(v) == {e \in {Journey(a, v.time) : a \in {a \in MCArcs : a[1] = v.vertex}} : InTime(e)}
      Edges[n \in 0 .. Horizon] ==
        IF n = 0 THEN Out([vertex |-> "r", time |-> 0])
        ELSE LET before == Edges[n - 1]
             IN  before \cup UNION {Out(e.target) : e \in {e \in before : e.target.vertex # "r"}}
  IN  Edges[Horizon]

MCTimedEdges == Expanded
MCTimedVertices == {[vertex |-> "r", time |-> 0]} \cup {e.target : e \in Expanded}

\* Branching and cuts of cycles; and the other cuts, at one node.
MCBranching ==
  [separators |-> {"cycle"}, ForbiddenSets |-> {{}, {<<"r", "b">>}, {<<"c", "r">>}}, MaxCalls |-> 2]
MCCutting ==
  [separators |-> {"subtour", "lifted", "dk", "oddCAT", "unitaryAFC", "pathFree"},
   ForbiddenSets |-> {{}}, MaxCalls |-> 1]
MCSettings == {MCBranching, MCCutting}
MCCyclesOnly == {[separators |-> {"cycle"}, ForbiddenSets |-> {{}}, MaxCalls |-> 1]}

MCLowerBounds == {5, 7}
MCInitialTour == <<"r", "c", "a", "b">>
=============================================================================
