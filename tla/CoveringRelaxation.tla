-------------------------- MODULE CoveringRelaxation --------------------------
(***************************************************************************)
(* CoveringRelaxation (tour/timed/covering_relaxation.cc): the covering    *)
(* rows of the arc-based program are replaced by penalties.  Each iteration *)
(* finds the cheapest path under them, moves them along what is meant to   *)
(* be a subgradient, and makes a tour of the path.                         *)
(*                                                                         *)
(* Penalties and bounds are in units of 1 / Scale, so that the steps of    *)
(* 5 / iteration are integers.                                             *)
(***************************************************************************)
EXTENDS ArcProgram

CONSTANTS
  maxIterations,
  Scale             \* bound: a multiple of 1, ..., maxIterations

ASSUME ScaleAssumption ==
  /\ maxIterations \in Nat /\ Scale \in Nat
  /\ \A i \in 1 .. maxIterations : Scale % i = 0

\* Vertices are numbers, and there is a way back from all of them.
ASSUME WaysAssumption ==
  /\ Vertices \subseteq Nat
  /\ \A v \in Vertices \ {Root} : <<v, Root>> \in Arcs

VARIABLES
  iteration, penalties, lastBound,
  bestBound, bestPath,     (* the best bound and the path it was found with *)
  bestTour,                (* the shortest of the tours made: its edges     *)
  result                   (* the vertices that are returned                *)

relaxationVars == <<iteration, penalties, lastBound, bestBound, bestPath, bestTour, result>>
crVars == <<vars, relaxationVars>>

Arrival(path) == IF path = <<>> THEN 0 ELSE Last(path).target.time
Visits(path, v) == Cardinality({i \in DOMAIN path : path[i].source.vertex = v})

\* The cheapest paths: a vertex that is left earns its penalty.
PathCost(path) == Arrival(path) * Scale - Sum([v \in Vertices |-> Visits(path, v) * penalties[v]])

findPath ==
  LET all == {InOrder(set) : set \in Journeys}
      costs == {PathCost(p) : p \in all}
  IN  {p \in all : PathCost(p) = Min(costs)}

\* a faulty variant of evaluate: a vertex that is left again does not pay its penalty
evaluateOnce(path) == PathCost(path) + Sum([v \in Vertices |-> Visits(path, v) * penalties[v]])
                      + Sum([v \in Vertices |-> IF Visits(path, v) = 0 THEN penalties[v] ELSE 0])

evaluate(path) == Arrival(path) * Scale + Sum([v \in Vertices |-> (1 - Visits(path, v)) * penalties[v]])
-----------------------------------------------------------------------------
(* convertPath                                                             *)
Visited(path) == {Root} \cup {path[i].target.vertex : i \in DOMAIN path}
EdgesTo(path, set) == {e \in edges : e.source = EndOf(path) /\ e.target.vertex \in set}
Along1(path, v) == path \o SetToSeq(EdgesTo(path, {v}))

\* Vertices that have been visited are left out, there is an edge to the next one.
Shortened(path) ==
  LET Upto[i \in 0 .. Len(path)] ==
        IF i = 0 THEN <<>>
        ELSE LET p == Upto[i - 1]
                 v == path[i].target.vertex
             IN  IF v \in Visited(p) THEN p ELSE Along1(p, v)
  IN  Upto[Len(path)]

\* The nearest of the vertices that are missed, the first if many; none if no edge
\* leads to one.
Missed(p) == Vertices \ Visited(p)

Nearest(p) ==
  LET out == EdgesTo(p, Missed(p))
      least == Min({e.target.time : e \in out})
  IN  Min({e.target.vertex : e \in {e \in out : e.target.time = least}})

Filled(path) ==
  LET Fill[n \in 0 .. Cardinality(Vertices)] ==
        IF n = 0 THEN path
        ELSE LET p == Fill[n - 1]
             IN  IF EdgesTo(p, Missed(p)) = {} THEN p ELSE Along1(p, Nearest(p))
  IN  Fill[Cardinality(Vertices)]

Completed(path) ==
  LET filled == Filled(path)
  IN  IF Missed(filled) # {} THEN <<>> ELSE Along1(filled, Root)

convertPath(path) == Completed(Shortened(path))

createTourOf(path) == [i \in DOMAIN path |-> path[i].source.vertex]
-----------------------------------------------------------------------------
(* solve                                                                   *)

\* Maps over timed vertices are read at the vertices of the underlying graph, by their
\* numbers: those of the source and of the copies that are reached from it, as these
\* are expanded first.
numbered(v) == IF v = Root THEN Start ELSE (CHOOSE e \in edges : e.source = Start /\ e.target.vertex = v).target

subGradient(path, v) == 1 - Cardinality({i \in DOMAIN path : path[i].source = numbered(v)})

\* lastBound is a num: what is assigned to it loses its fraction.
Truncated(x) == IF x >= 0 THEN (x \div Scale) * Scale ELSE 0 - (((0 - x) \div Scale) * Scale)

RInit ==
  /\ Init0
  /\ iteration = 0 /\ penalties = [v \in Vertices |-> 0] /\ lastBound = - Scale
  /\ bestBound = 0 /\ bestPath = <<>> /\ bestTour = <<>> /\ result = <<>>

Relax ==
  /\ phase = "created"
  /\ phase' = "relax"
  /\ UNCHANGED <<expansionVars, decompositionVars, program, initial, rows, found, round, answer, relaxationVars>>

Iterate ==
  /\ phase = "relax" /\ iteration < maxIterations
  /\ iteration' = iteration + 1
  /\ \E path \in findPath :
       LET bound == evaluate(path)
           converted == convertPath(path)
       IN  /\ penalties' = [v \in Vertices |->
                              penalties[v] + ((5 * Scale) \div iteration') * subGradient(path, v)]
           /\ bestTour' = IF converted # <<>> /\ (bestTour = <<>> \/ Arrival(converted) < Arrival(bestTour))
                          THEN converted ELSE bestTour
           /\ bestBound' = Max({bestBound, bound})
           /\ bestPath' = IF bestBound < bound THEN path ELSE bestPath
           /\ lastBound' = Truncated(bound)
           /\ phase' = IF lastBound = bound THEN "stopped" ELSE "relax"
  /\ UNCHANGED <<expansionVars, decompositionVars, program, initial, rows, found, round, answer, result>>

\* What is returned is made of bestPath; or all vertices if no tour was made.
Return ==
  /\ phase = "stopped" \/ (phase = "relax" /\ iteration = maxIterations)
  /\ result' = IF bestTour # <<>> THEN createTourOf(bestPath) ELSE SetToSortSeq(Vertices, <)
  /\ phase' = "relaxed"
  /\ UNCHANGED <<expansionVars, decompositionVars, program, initial, rows, found, round, answer>>
  /\ UNCHANGED <<iteration, penalties, lastBound, bestBound, bestPath, bestTour>>

RNext == (ANext /\ UNCHANGED relaxationVars) \/ Relax \/ Iterate \/ Return

RSpec == RInit /\ [][RNext]_crVars
-----------------------------------------------------------------------------
\* Whatever the penalties have become, although they do not follow a subgradient: the
\* bound is one for every tour, and what is made of a path is a tour of the network
\* (asserted at lines 52 and 116), at least as long as the bound.
RelaxationIsSound ==
  /\ \A tour \in tours : \A e \in tour : bestBound <= e.target.time * Scale \/ ~ IsEnd(e.target)
  /\ bestTour # <<>> => Range(bestTour) \in tours

\* The tour returned goes through all vertices once, and takes as long as the one that
\* is reported as the best.
ReturnedTourIsBest ==
  phase = "relaxed" =>
    /\ Len(result) = Cardinality(Vertices) /\ Range(result) = Vertices
    /\ bestTour # <<>> => cost(result, distances) = Arrival(bestTour)
=============================================================================
