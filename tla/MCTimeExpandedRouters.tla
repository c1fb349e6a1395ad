------------------------ MODULE MCTimeExpandedRouters ------------------------
(* A network for each of the routers.                                       *)
EXTENDS TimeExpandedRouters

(* The two-cycle-free router: a depot and four customers, so that three      *)
(* vertices compete for the two labels of a fourth.  Journeys take one unit, *)
(* but those of two units from a to b at time 1: b is reached from a at time *)
(* 3 by two departures.  The duals make some customers worth visiting again  *)
(* and again.                                                                *)

MCArcs ==
  {<<"r", "a">>, <<"r", "c">>, <<"r", "d">>, <<"c", "d">>, <<"a", "b">>, <<"c", "b">>, <<"d", "b">>,
   <<"b", "a">>, <<"b", "c">>, <<"a", "c">>, <<"c", "a">>, <<"a", "d">>, <<"a", "r">>, <<"c", "r">>}

MCHorizon == 5

MCTravel(u, v) == IF u.vertex = "a" /\ v.vertex = "b" /\ u.time = 1 THEN 2 ELSE 1

MCTimedVertices ==
  {[vertex |-> "r", time |-> 0]}
    \cup {[vertex |-> "r", time |-> t] : t \in 2 .. MCHorizon}
    \cup {[vertex |-> v, time |-> t] : v \in {"a", "c"}, t \in 1 .. MCHorizon - 1}
    \cup {[vertex |-> "b", time |-> t] : t \in {2, 3}}
    \cup {[vertex |-> "d", time |-> t] : t \in {1, 2}}

MCTimedEdges ==
  {e \in [source : MCTimedVertices, target : MCTimedVertices] :
     /\ <<e.source.vertex, e.target.vertex>> \in MCArcs
     /\ ~ (e.source.vertex = "r" /\ e.source.time > 0)
     /\ e.target.time = e.source.time + MCTravel(e.source, e.target)}

MCNoEdge == [none |-> TRUE]

MCDuals == {[r |-> 0, a |-> 3, b |-> 3, c |-> 1, d |-> 0],
            [r |-> 0, a |-> 0, b |-> 3, c |-> 3, d |-> 3],
            [r |-> 0, a |-> 1, b |-> 4, c |-> 1, d |-> 2]}

MCCostFuncs ==
  {[e \in MCTimedEdges |->
      MCTravel(e.source, e.target) - dual[e.target.vertex]] : dual \in MCDuals}

MCRequests ==
  {[forbidden |-> {}, cutoff |-> 0, lower |-> 0, upper |-> 999, maxNumPaths |-> 2],
   [forbidden |-> {<<"r", "a">>, <<"b", "c">>}, cutoff |-> 999, lower |-> 3, upper |-> 3, maxNumPaths |-> 2]}
-----------------------------------------------------------------------------
(* The simple router: a complete network of a depot and two customers up to  *)
(* time 5.  Costs are travel times less the duals of the vertex entered, as  *)
(* the pricers compute them.                                                 *)

SimpleVertices == {"r", "a", "b"}

SimpleHorizon == 5

SimpleTravel(u, v) == IF {u, v} = {"a", "b"} THEN 2 ELSE 1

SimpleTimedVertices ==
  {[vertex |-> "r", time |-> 0]} \cup {[vertex |-> v, time |-> t] : v \in SimpleVertices, t \in 1 .. SimpleHorizon}

SimpleTimedEdges ==
  {e \in [source : SimpleTimedVertices, target : SimpleTimedVertices] :
     /\ e.source.vertex # e.target.vertex
     /\ ~ (e.source.vertex = "r" /\ e.source.time > 0)
     /\ e.target.time = e.source.time + SimpleTravel(e.source.vertex, e.target.vertex)}

SimpleCostFuncs ==
  {[e \in SimpleTimedEdges |-> SimpleTravel(e.source.vertex, e.target.vertex) - dual[e.target.vertex]] :
     dual \in [SimpleVertices -> {0, 3}]}

SimpleRequests ==
  {[forbidden |-> {}, cutoff |-> 0, lower |-> 0, upper |-> 999, maxNumPaths |-> 1],
   [forbidden |-> {}, cutoff |-> 999, lower |-> 3, upper |-> 4, maxNumPaths |-> 2],
   [forbidden |-> {<<"a", "b">>}, cutoff |-> 999, lower |-> 0, upper |-> 999, maxNumPaths |-> 3]}

MCSimple == [vertices |-> SimpleTimedVertices, edges |-> SimpleTimedEdges,
             costs |-> SimpleCostFuncs, requests |-> SimpleRequests]
-----------------------------------------------------------------------------
(* The acyclic routers: a depot and four customers; a, b and c all lead to   *)
(* d, so that labels with three different prefixes meet there.  Under        *)
(* TieFree no two labels of a vertex cost the same; under Equal those that   *)
(* meet at d do, every edge costing its travel time and d alone having a     *)
(* dual.                                                                     *)

AcyclicArcs ==
  {<<"r", "a">>, <<"r", "b">>, <<"r", "c">>, <<"a", "d">>, <<"b", "d">>, <<"c", "d">>,
   <<"d", "a">>, <<"d", "b">>, <<"d", "c">>, <<"a", "b">>, <<"b", "c">>, <<"d", "r">>, <<"b", "r">>, <<"c", "r">>}

AcyclicHorizon == 5

AcyclicTimedVertices ==
  {[vertex |-> "r", time |-> 0]}
    \cup {[vertex |-> "r", time |-> t] : t \in 4 .. AcyclicHorizon}
    \cup {[vertex |-> v, time |-> t] : v \in {"a", "b", "c"}, t \in {1, 3, 4}}
    \cup {[vertex |-> "d", time |-> t] : t \in {2, 4}}

AcyclicTimedEdges ==
  {e \in [source : AcyclicTimedVertices, target : AcyclicTimedVertices] :
     /\ <<e.source.vertex, e.target.vertex>> \in AcyclicArcs
     /\ ~ (e.source.vertex = "r" /\ e.source.time > 0)
     /\ e.target.time = e.source.time + 1}

AcyclicDuals == {[r |-> 0, a |-> 40, b |-> 30, c |-> 20, d |-> 30],
            [r |-> 0, a |-> 10, b |-> 20, c |-> 40, d |-> 35]}

AcyclicNumber == [r |-> 1, a |-> 2, b |-> 4, c |-> 7, d |-> 12]

TieFree ==
  {[e \in AcyclicTimedEdges |->
      10 - dual[e.target.vertex] + AcyclicNumber[e.source.vertex] * (e.source.time + 1)] : dual \in AcyclicDuals}

Equal == {[e \in AcyclicTimedEdges |-> IF e.target.vertex = "d" THEN -6 ELSE 1]}

AcyclicCostFuncs == TieFree \cup Equal

\* The first two: the hole-free router, the third: the acyclic one.
AcyclicRequests ==
  {[holeFree |-> TRUE, forbidden |-> {}, cutoff |-> 999, lower |-> 0, upper |-> 999, maxNumPaths |-> 2],
   [holeFree |-> TRUE, forbidden |-> {<<"d", "a">>}, cutoff |-> 0, lower |-> 0, upper |-> 4, maxNumPaths |-> 2],
   [holeFree |-> FALSE, forbidden |-> {}, cutoff |-> 999, lower |-> 0, upper |-> 999, maxNumPaths |-> 2]}

MCAcyclic == [vertices |-> AcyclicTimedVertices, edges |-> AcyclicTimedEdges,
              costs |-> AcyclicCostFuncs, requests |-> AcyclicRequests]
MCTies == [MCAcyclic EXCEPT !.costs = Equal]
=============================================================================
