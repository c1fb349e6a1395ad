------------------------------ MODULE ArcProgram ------------------------------
(***************************************************************************)
(* The arc-based program (tour/timed/simple_program.cc) over the network   *)
(* that is expanded from the initial tour: a variable for every timed      *)
(* edge, flow conservation, and every vertex left once.  Time keeps its    *)
(* solutions from having subtours, but paths of the relaxation return to   *)
(* vertices; the separators of tour/timed/separators look for such points. *)
(*                                                                         *)
(* A solution of the relaxation is a flow in units of 1 / Units: any that  *)
(* the rows admit may be the one SCIP finds.  Unlike in SparseProgram a    *)
(* separator answers for the point it is given.                            *)
(***************************************************************************)
EXTENDS PathDecomposition

CONSTANTS
  separators,      (* the names of those that are added to the program      *)
  MaxRounds        (* bound: rounds of separation                           *)

\* A tour goes through every vertex once, from the source, along edges of the graph.
ASSUME ToursAssumption ==
  /\ Units \in Nat \ {0} /\ IsFiniteSet(Vertices)
  /\ \A tour \in Tours :
       /\ Len(tour) > 1 /\ tour[1] = Root /\ Range(tour) = Vertices /\ IsInjective(tour)
       /\ \A i \in 1 .. Len(tour) : <<tour[i], successor(tour, i)>> \in Arcs

VARIABLES
  phase,           (* where SCIP is                                         *)
  points,          (* what the rows of createProgram admit, in units ...    *)
  tours,           (* ... and with integral values                          *)
  initial,         (* the initial solution: the edges it sets to one        *)
  rows,            (* the cuts                                              *)
  found,           (* those of the last call of a separator                 *)
  round,
  answer           (* the tour that is returned                             *)

program == <<points, tours>>
scipVars == <<phase, program, initial, rows, found, round, answer>>
vars == <<expansionVars, decompositionVars, scipVars>>

\* Travel times whatever the time.
leastDistance == [a \in Vertices \X Vertices |-> Min(Range(distances[a]))]

Cut == INSTANCE SparseCuts WITH TimedVertices <- vertices, TimedEdges <- edges,
                                Distance <- leastDistance, Horizon <- timeHorizon

arc(e) == <<e.source.vertex, e.target.vertex>>
One(condition) == IF condition THEN 1 ELSE 0

Total(b, set) == Cardinality({x \in set \X (1 .. Units) : x[2] <= Value(b, x[1])})
-----------------------------------------------------------------------------
(* The rows                                                                *)

\* Every vertex is left once, the source among them.
Covering(b, unit) ==
  \A v \in Vertices : Total(b, {e \in BagToSet(b) : e.source.vertex = v}) = unit

\* CycleSeparator: who takes the incoming edge turns off before the cycle closes, to
\* a vertex he has not been to.
visited(c, i) ==
  {c.incoming.source.vertex, c.incoming.target.vertex} \cup {c.cycle[j].target.vertex : j \in 1 .. i}

cycleCut(c, e) ==
  Cardinality({i \in 1 .. Len(c.cycle) :
                 e.source = c.cycle[i].source /\ e.target.vertex \notin visited(c, i)})
  - One(e = c.incoming)

\* TwoCycleSeparator: who takes the incoming edge does not turn back.
twoCycleCut(c, e) ==
  One(e = c.incoming)
  - One(e.source = c.incoming.target /\ e.target.vertex # c.incoming.source.vertex)

\* The others are those of the sparse program, over all edges of the network.
subtourCut(c, e) == Cut!subtourCreated(c, e)
liftedCut(c, e) == Cut!liftedCreated(c, e)
dkCut(c, e) == Cut!dkCreated(c, e)
oddCATCut(c, e) == Cut!oddCATCreated(c, e)
unitaryAFCCut(c, e) == Cut!unitaryAFCCreated(c, e)
oddPathFreeCut(c, e) == Cut!pathFreeCreated(c, e)

\* generateCut
coefficient(c, e) ==
  CASE c.kind = "cycle"      -> cycleCut(c, e)
    [] c.kind = "twoCycle"   -> twoCycleCut(c, e)
    [] c.kind = "subtour"    -> subtourCut(c, e)
    [] c.kind = "lifted"     -> liftedCut(c, e)
    [] c.kind = "dk"         -> dkCut(c, e)
    [] c.kind = "oddCAT"     -> oddCATCut(c, e)
    [] c.kind = "unitaryAFC" -> unitaryAFCCut(c, e)
    [] c.kind = "pathFree"   -> oddPathFreeCut(c, e)

Admits(c, activity, unit) ==
  CASE c.kind \in {"subtour", "lifted"}   -> activity >= unit
    [] c.kind \in {"cycle", "unitaryAFC"} -> activity >= 0
    [] c.kind = "twoCycle"                -> activity <= 0
    [] c.kind = "dk"                      -> activity <= (Len(c.cycle) - 1) * unit
    [] c.kind = "oddCAT"                  -> activity <= ((Cardinality(c.arcs) - 1) \div 2) * unit
    [] c.kind = "pathFree"                -> activity <= unit

Satisfies(b, c, unit) ==
  Admits(c, MapThenSumSet(LAMBDA e : coefficient(c, e) * Value(b, e), BagToSet(b)), unit)
-----------------------------------------------------------------------------
(* Separators.  Each answers with cuts for the values of the relaxation.   *)

combined(a) == Total(flow, {e \in BagToSet(flow) : arc(e) = a})
support == {arc(e) : e \in BagToSet(flow)}
Between(s, t) == MapThenSumSet(combined, {a \in support : a[1] \in s /\ a[2] \in t})

Leaving(s) == Between(s, Vertices \ s)

\* computeMinCut, between all pairs or from the source only: a least cut, any if many.
MinCuts(sets) == {s \in sets : \A t \in sets : Leaving(s) <= Leaving(t)}

SubtourSeparator ==
  {{[kind |-> "subtour", set |-> s]} :
     s \in {s \in MinCuts((SUBSET Vertices) \ {{}, Vertices}) : Leaving(s) < Units}}

\* The length of a shortest way from a set through all other vertices to the source.
tourBound(s) ==
  LET others == Vertices \ s
      n == Cardinality(others)
      Orders == {p \in [1 .. n -> others] : Range(p) = others}
      Length(p) == Min({leastDistance[<<u, p[1]>>] : u \in s}) + leastDistance[<<p[n], Root>>]
                   + MapThenSumSet(LAMBDA i : leastDistance[<<p[i], p[i + 1]>>], 1 .. n - 1)
  IN  Min({Length(p) : p \in Orders})

\* a faulty variant of maxTimes: leaving at the latest time is too late
maxTimesBefore(s) == {timeHorizon - tourBound(s) - 1, timeHorizon - Cut!arborescenceBound(s) - 1}

\* The latest time to leave a set: what remains takes at least an arborescence, or the
\* way of TourSolver, whichever the separator was made with.
maxTimes(s) == {timeHorizon - tourBound(s), timeHorizon - Cut!arborescenceBound(s)}

LiftedSubtourSeparator ==
  LET Sets == {s \in (SUBSET Vertices) \ {Vertices} : Root \in s}
      Lifted(s) == {{[kind |-> "lifted", set |-> s, maxTime |-> t]} : t \in maxTimes(s)}
  IN  UNION {Lifted(s) : s \in {s \in MinCuts(Sets) : Leaving(s) < Units}}

\* The edges of a path, by the times they are entered.
InOrder(set) ==
  LET position(e) == Cardinality({f \in set : f.source.time <= e.source.time})
  IN  [i \in 1 .. Cardinality(set) |-> CHOOSE e \in set : position(e) = i]

\* Cycles of the paths that the flow has been taken apart into.
CycleSeparator ==
  LET cuts == Cut!Cycles({InOrder(paths[i].edges) : i \in DOMAIN paths})
  IN  {{c \in cuts : ~ Satisfies(flow, c, Units)}}

TwoCycleSeparator ==
  {{[kind |-> "twoCycle", incoming |-> e] :
     e \in {e \in BagToSet(flow) :
              /\ e.target.vertex # Root
              /\ Total(flow, {f \in BagToSet(flow) : f.source = e.target
                                    /\ f.target.vertex # e.source.vertex}) < Value(flow, e)}}}

\* a faulty variant of Prolonged: chords to the vertex before are not doubled
ProlongedSimple(entry, v) ==
  LET s == entry.cycle
      last == Last(s)
  IN  [cycle  |-> Append(s, v),
       weight |-> entry.weight + combined(<<s[1], v>>) + combined(<<v, last>>)
                  + Between(Range(s) \ {last, s[1]}, {last}) - Units,
       bound  |-> entry.bound + combined(<<v, last>>) + Between(Range(s), {v}) - Units,
       prefix |-> IF Len(s) = 1 THEN -1 ELSE Max({entry.prefix, entry.weight})]

\* DKSeparator: sequences of vertices, prolonged while they may be part of a
\* violated cut.  The weight of an entry is its violation, prefix the largest weight
\* of the entries it goes back to.
Prolonged(entry, v) ==
  LET s == entry.cycle
      last == Last(s)
  IN  [cycle  |-> Append(s, v),
       weight |-> entry.weight + combined(<<s[1], v>>) + combined(<<v, last>>)
                  + Between(Range(s) \ {last}, {last}) - Units,
       bound  |-> entry.bound + combined(<<v, last>>) + Between(Range(s), {v}) - Units,
       prefix |-> IF Len(s) = 1 THEN -1 ELSE Max({entry.prefix, entry.weight})]

Worthwhile(entry, v) ==
  /\ v \notin Range(entry.cycle)
  /\ entry.bound + combined(<<Last(entry.cycle), v>>) >= 0

dkEntries ==
  LET Of[k \in 1 .. Cardinality(Vertices) - 1] ==
        IF k = 1 THEN {[cycle |-> <<v>>, weight |-> 0, bound |-> 0, prefix |-> -1] : v \in Vertices}
        ELSE {entry \in UNION {{Prolonged(e, v) : v \in {v \in Vertices : Worthwhile(e, v)}} : e \in Of[k - 1]} :
                entry.weight >= 0}
  IN  UNION {Of[k] : k \in 1 .. Cardinality(Vertices) - 1}

DKSeparator ==
  {{[kind |-> "dk", cycle |-> entry.cycle] :
     entry \in {entry \in dkEntries :
                  /\ entry.weight > 0 /\ entry.prefix < entry.weight
                  /\ Len(entry.cycle) = 2 => entry.cycle[1] < entry.cycle[2]}}}

\* Simple odd cycles of incompatible arcs; the costs of paths are kept in integers there:
\* which of them are found is left open.
findOddCycles == Cut!OddCATs(support)

oddCATViolation(set) == MapThenSumSet(combined, set) - ((Cardinality(set) - 1) \div 2) * Units

OddCATSeparator == {{}} \cup {{c} : c \in {c \in findOddCycles : oddCATViolation(c.arcs) > 0}}

\* findCut: the vertices on the side of the incoming edge in a minimum cut between it
\* and a vertex where the graph of findVertices ends.  They are reached by positive
\* values; the edges to the source of the tour, which the row has, are no part of it.
UnitaryAFCOf(incoming) ==
  LET all   == Cut!findVertices(incoming)
      Inside(s, t) == {e \in BagToSet(flow) : e.source \in s /\ e.target \in t}
      sinks == {v \in all \ {incoming.target} : ~ \E e \in edges : e.source = v /\ e.target \in all}
      reached == {e.target : e \in Inside(all, all)}
      sides == {s \cup {incoming.target} : s \in {s \in SUBSET reached : ~ sinks \subseteq s}}
      Out(s) == Total(flow, Inside(s, all \ s))
  IN  {s \in sides : Out(s) < Value(flow, incoming) /\ \A t \in sides : Out(s) <= Out(t)}

UnitaryAFCSeparator ==
  LET Candidates == {e \in BagToSet(flow) : Root \notin Range(arc(e)) /\ UnitaryAFCOf(e) # {}}
  IN  {{[kind |-> "unitaryAFC", incoming |-> e, timed |-> CHOOSE s \in UnitaryAFCOf(e) : TRUE] :
          e \in Candidates}}

\* For every vertex the three vertices, it among them, with most flow among them.
bestSets ==
  LET Triples == kSubset(3, Vertices \ {Root})
      getWeight(t) == Between(t, t)
  IN  {t \in Triples : /\ getWeight(t) > Units
                       /\ \E v \in t : \A u \in Triples : v \in u => getWeight(t) >= getWeight(u)}

\* SeparationProblem: the heaviest sets of edges among them without two that follow each
\* other; which of them SCIP returns is left open.
separationProblem(t) ==
  LET Sets == {s \in SUBSET {e \in BagToSet(flow) : Range(arc(e)) \subseteq t} : Cut!pathFree(s)}
  IN  {s \in Sets : \A u \in Sets : Total(flow, s) >= Total(flow, u)}

OddPathFreeSeparator ==
  {{[kind |-> "pathFree", edges |-> s] : s \in {s \in {chosen[t] : t \in bestSets} : Total(flow, s) > Units}} :
     chosen \in {f \in [bestSets -> UNION {separationProblem(t) : t \in bestSets}] :
                   \A t \in bestSets : f[t] \in separationProblem(t)}}

\* What a separator may answer.
Answers(name) ==
  CASE name = "subtour"    -> SubtourSeparator
    [] name = "lifted"     -> LiftedSubtourSeparator
    [] name = "twoCycle"   -> TwoCycleSeparator
    [] name = "dk"         -> DKSeparator
    [] name = "oddCAT"     -> OddCATSeparator
    [] name = "unitaryAFC" -> UnitaryAFCSeparator
    [] name = "pathFree"   -> OddPathFreeSeparator
    [] name = "cycle"      -> CycleSeparator
-----------------------------------------------------------------------------
Init0 ==
  /\ Init /\ DInit
  /\ phase = "expand" /\ points = {} /\ tours = {}
  /\ initial = {} /\ rows = {} /\ found = {} /\ round = 0 /\ answer = <<>>

\* createTimeExpandedGraph, and the journeys of TourExpansion.
Create == phase = "expand" /\ Next /\ UNCHANGED <<decompositionVars, scipVars>>

\* The paths through the network, as sets of edges.
EndOf(path) == IF path = <<>> THEN Start ELSE Last(path).target

Longer(set) == UNION {{Append(p, e) : e \in {e \in edges : e.source = EndOf(p)}} : p \in set}

Journeys ==
  LET Upto[n \in 0 .. timeHorizon] ==
        IF n = 0 THEN {<<>>} ELSE Upto[n - 1] \cup Longer(Upto[n - 1])
  IN  {Range(p) : p \in {p \in Upto[timeHorizon] : IsEnd(EndOf(p))}}

\* The columns and rows: flow conservation everywhere but at the source, in a graph
\* without cycles, leaves sums of paths.  No lower bound is given to the expansion.
createProgram ==
  /\ phase = "expand" /\ Done /\ journey = {} /\ lowerBound = 0
  /\ LET J == Journeys
         Sums[n \in 0 .. Units] ==
           IF n = 0 THEN {EmptyBag} ELSE {SetToBag(j) (+) b : j \in J, b \in Sums[n - 1]}
     IN  /\ points' = {b \in Sums[Units] : Covering(b, Units)}
         /\ tours' = {j \in J : Covering(SetToBag(j), 1)}
  /\ phase' = "created"
  /\ UNCHANGED <<expansionVars, decompositionVars, initial, rows, found, round, answer>>

\* The edges along a tour, up to the first one that the network does not have.
Along(tour) ==
  LET n == Len(tour)
      Walk[i \in 0 .. n] ==
        IF i = 0 THEN [at |-> Start, path |-> {}, stopped |-> FALSE]
        ELSE LET before == Walk[i - 1]
                 outgoing == {e \in edges : /\ e.source = before.at
                                            /\ e.target.vertex = successor(tour, i)}
                 edge == CHOOSE e \in outgoing : TRUE
             IN  IF before.stopped \/ outgoing = {} THEN [before EXCEPT !.stopped = TRUE]
                 ELSE [at |-> edge.target, path |-> before.path \cup {edge}, stopped |-> FALSE]
  IN  Walk[n].path

\* a faulty variant of addInitialSolution: the way back to the source is left out
addInitialSolutionOpen ==
  /\ phase = "created"
  /\ \E tour \in Tours : /\ cost(tour, distances) = timeHorizon
                         /\ initial' = {e \in Along(tour) : ~ IsEnd(e.target)}
  /\ phase' = "lp"
  /\ UNCHANGED <<expansionVars, decompositionVars, program, rows, found, round, answer>>

\* Of the tours that cost as much as the horizon one is the initial tour.
addInitialSolution ==
  /\ phase = "created"
  /\ \E tour \in Tours : cost(tour, distances) = timeHorizon /\ initial' = Along(tour)
  /\ phase' = "lp"
  /\ UNCHANGED <<expansionVars, decompositionVars, program, rows, found, round, answer>>

\* SCIP solves the relaxation.
SolveLP ==
  /\ phase = "lp" /\ round < MaxRounds
  /\ \E b \in points : (\A c \in rows : Satisfies(b, c, Units)) /\ flow' = b
  /\ phase' = "separate" /\ found' = {}
  /\ currentFlow' = EmptyBag /\ remainingValue' = 0 /\ paths' = <<>>
  /\ UNCHANGED <<expansionVars, initial, program, rows, round, answer>>

Separated(name) ==
  /\ name \in separators
  /\ \E cuts \in Answers(name) : cuts # {} /\ found' = cuts
  /\ rows' = rows \cup found' /\ round' = round + 1 /\ phase' = "lp"
  /\ UNCHANGED <<expansionVars, decompositionVars, initial, program, answer>>

\* scip_execlp of a separator that finds something; SCIP goes on to the next otherwise.
Separate(name) == phase = "separate" /\ name # "cycle" /\ Separated(name)

StartDecomposition ==
  /\ phase = "separate" /\ "cycle" \in separators
  /\ Decompose(flow)
  /\ phase' = "decompose"
  /\ UNCHANGED <<expansionVars, initial, program, rows, found, round, answer>>

DecompositionStep == phase = "decompose" /\ Extract /\ UNCHANGED <<expansionVars, scipVars>>

SeparateCycles == phase = "decompose" /\ remainingValue = 0 /\ Separated("cycle")

\* createTour: from the start along the edges of a solution.
createTour(set) ==
  LET Walk[n \in 0 .. timeHorizon] ==
        IF n = 0 THEN [at |-> Start, tour |-> <<Root>>]
        ELSE LET before == Walk[n - 1]
                 next == {e \in set : e.source = before.at}
                 edge == CHOOSE e \in next : TRUE
             IN  IF next = {} THEN before
                 ELSE [at |-> edge.target, tour |-> Append(before.tour, edge.target.vertex)]
  IN  Walk[timeHorizon].tour

\* SCIP has branched: a solution with integral values.
Solve ==
  /\ phase = "lp"
  /\ \E set \in tours : (\A c \in rows : Satisfies(SetToBag(set), c, 1)) /\ answer' = createTour(set)
  /\ phase' = "solved"
  /\ flow' = EmptyBag /\ currentFlow' = EmptyBag /\ remainingValue' = 0 /\ paths' = <<>>
  /\ rows' = {} /\ found' = {} /\ round' = 0
  /\ UNCHANGED <<expansionVars, initial, program>>

ANext ==
  \/ Create \/ createProgram \/ addInitialSolution \/ SolveLP \/ (\E name \in separators : Separate(name))
  \/ StartDecomposition \/ DecompositionStep \/ SeparateCycles \/ Solve

ASpec == Init0 /\ [][ANext]_vars
-----------------------------------------------------------------------------
\* The tour the network was expanded from is a solution: SCIP can store it
\* (asserted at line 108), and starts with a cutoff bound.
InitialSolutionIsStored ==
  phase \in {"lp", "separate", "decompose", "solved"} => initial \in tours

\* A cycle entered from the start that has all vertices but the source.
Spanning(c) ==
  c.kind = "cycle" /\ c.incoming.source = Start /\ Len(c.cycle) + 1 = Cardinality(Vertices)

\* No cut removes a tour, but for those of cycles that leave no vertex to turn off to.
FoundCutsKeepTours ==
  \A c \in found : ~ Spanning(c) =>
    \A set \in tours : Satisfies(SetToBag(set), c, 1)

\* The weight that is kept up to date while a sequence is prolonged is the violation of
\* its inequality (hasValidWeight).
violation(s) ==
  MapThenSumSet(LAMBDA a : Cut!factor(s, a) * combined(a), support) - (Len(s) - 1) * Units

WeightsAreViolations ==
  phase = "separate" => \A entry \in dkEntries : Len(entry.cycle) > 1 => entry.weight = violation(entry.cycle)

\* What is found cuts off the point it was found for: rounds of separation make progress.
\* Unitary action flow cuts need not, they are found in a graph without the edges to the
\* source that their rows have.
FoundCutsAreViolated ==
  /\ \A c \in found : c.kind # "unitaryAFC" => ~ Satisfies(flow, c, Units)
  /\ WeightsAreViolations
=============================================================================
