----------------------------- MODULE SparseProgram -----------------------------
(***************************************************************************)
(* The sparse program (tour/sparse): branch, cut and price over a time-    *)
(* expanded graph whose variables are only created once they are priced.   *)
(* SCIP owns the loop; the pricer, the separators, the propagator and the  *)
(* heuristics are called back by it, in any order as far as they know, and *)
(* each reads and writes the variables and rows there are.                 *)
(*                                                                         *)
(* What a call answers depends on fractional values; the model has every   *)
(* answer that some values could give.  Of SCIP it has what the callbacks  *)
(* see: the bounds, the edges that branching has forbidden, the solutions. *)
(***************************************************************************)
EXTENDS SparseCuts, SequencesExt

CONSTANTS
  Inf,             (* the upper bound without a solution                    *)
  InitialTour,     (* its vertices, from the source                         *)
  numPaths,        (* paths (or edges) per call of the pricer               *)
  maxRounds,       (* rounds of separation                                  *)
  maxCutsPerRound,
  LowerBounds,     (* bound: the values SCIP's lower bound takes            *)
  Settings         (* of SCIP: separators, the kinds of cuts that were      *)
                   (* added to the manager; bounds: ForbiddenSets, the sets *)
                   (* of edges that branching may forbid, and MaxCalls of   *)
                   (* the pricer and of the heuristics                      *)

VARIABLES
  setting,         (* one of the settings; never changes                    *)
  variables,       (* the timed edges that have a variable                  *)
  rows,            (* flow rows, linking rows, cuts: a coefficient for each *)
                   (* of the variables                                      *)
  initiated,       (* has the first call of the pricer been made?           *)
  best,            (* the best solution: its timed edges, or none           *)
  lower,           (* SCIPgetLowerbound                                     *)
  fixed,           (* variables with an upper bound of zero                 *)
  cutoffBound,     (* the cutoff the propagator has used last               *)
  forbidden,       (* edges excluded by branching                           *)
  currentRound,
  calls            (* how often the pricer and the heuristics were called   *)

vars == <<setting, variables, rows, initiated, best, lower, fixed, cutoffBound, forbidden, currentRound, calls>>

travelTime(e) == e.target.time - e.source.time
Cost(set) == MapThenSumSet(travelTime, set)

\* SCIPgetCutoffbound
upper == IF best = {} THEN Inf ELSE Cost(best)
-----------------------------------------------------------------------------
EndOf(p) == IF p = <<>> THEN Start ELSE Last(p).target

\* Paths from the start, as sequences of edges, by their length ...
PathsFromStart[n \in 0 .. Horizon] ==
  IF n = 0 THEN {<<>>}
  ELSE UNION {{Append(p, e) : e \in {e \in TimedEdges : e.source = EndOf(p)}} : p \in PathsFromStart[n - 1]}

\* ... and those to a later copy of the source.
Walks == {p \in UNION {PathsFromStart[n] : n \in 1 .. Horizon} : IsEnd(EndOf(p))}

isTour(p) ==
  Len(p) = Cardinality(Vertices) /\ {p[i].source.vertex : i \in 1 .. Len(p)} = Vertices

Tours == {p \in Walks : isTour(p)}

Arrival(p) == Last(p).target.time

IsAlong(p, tour) == \A i \in 1 .. Len(p) : p[i].source.vertex = tour[i]

\* The walk of a tour through the network.
AsPath(tour) == CHOOSE p \in Tours : IsAlong(p, tour)

\* The graph was expanded up to the horizon, with all journeys of the initial tour; a
\* journey along an edge that starts at a time arrives at one.
ASSUME ExpandedAssumption ==
  /\ IsFiniteSet(Vertices) /\ IsFiniteSet(TimedEdges) /\ Root \in Vertices
  /\ Horizon \in Nat /\ Inf \in Nat /\ LowerBounds \subseteq Nat
  /\ \A v \in TimedVertices : v.vertex \in Vertices /\ v.time <= Horizon
  /\ \A e, f \in TimedEdges : e.source = f.source /\ e.target.vertex = f.target.vertex => e = f
  /\ \E p \in Tours : IsAlong(p, InitialTour)
  /\ \A s \in Settings :
       s.separators \subseteq {"subtour", "lifted", "cycle", "dk", "oddCAT", "unitaryAFC", "pathFree"}

\* The graph is complete; the distances are the shortest ones for the least costs of
\* the edges (Instance: staticCosts): no journey is faster, nor is any way round.
ASSUME DistanceAssumption ==
  /\ Arcs = {a \in Vertices \X Vertices : a[1] # a[2]}
  /\ Distance \in [Arcs -> Nat]
  /\ \A e \in TimedEdges : Distance[arc(e)] <= e.target.time - e.source.time
  /\ \A u, v, w \in Vertices :
       u # v /\ v # w /\ u # w => Distance[<<u, w>>] <= Distance[<<u, v>>] + Distance[<<v, w>>]
-----------------------------------------------------------------------------
FlowRow(v) == [kind |-> "flow", timedVertex |-> v]
LinkingRow(a) == [kind |-> "linking", edge |-> a]

\* The coefficient a new variable has in a row.
priced(row, e) ==
  CASE row.kind = "flow"    -> One(row.timedVertex = e.source) - One(row.timedVertex = e.target)
    [] row.kind = "linking" -> One(row.edge = arc(e))
    [] OTHER                -> addedEdge(row, e)

\* What its dual value adds to the reduced cost of any edge (getDualValues).
dual(row, e) ==
  CASE row.kind = "flow"    -> One(row.timedVertex = e.source) - One(row.timedVertex = e.target)
    [] row.kind = "linking" -> One(row.edge = arc(e))
    [] OTHER                -> addDualCosts(row, e)

\* a faulty variant of addVertex: one row for all timed copies of a vertex
addVertexOnce(v) ==
  IF v.vertex = Root \/ \E row \in DOMAIN rows : row.kind = "flow" /\ row.timedVertex.vertex = v.vertex
  THEN {} ELSE {FlowRow(v)}

addVertex(v) == IF v.vertex = Root THEN {} ELSE {FlowRow(v)}

\* addEdge, for some edges: those without a variable open the flow rows they
\* need and enter these, a linking row and all cuts.
AddEdges(edges) ==
  LET new    == edges \ variables
      opened == UNION {addVertex(e.source) \cup addVertex(e.target) : e \in new}
  IN  /\ variables' = variables \cup edges
      /\ rows' = [row \in DOMAIN rows \cup opened |->
                    [e \in variables \cup edges |->
                       IF e \in new THEN priced(row, e)
                       ELSE IF row \in DOMAIN rows THEN rows[row][e] ELSE 0]]

\* SCIPaddSolFree: the cheapest solution is the best one.
AddSolution(sets) ==
  \/ \E s \in sets : Cost(s) < upper /\ (\A t \in sets : Cost(s) <= Cost(t)) /\ best' = s
  \/ (\A s \in sets : Cost(s) >= upper) /\ UNCHANGED best
-----------------------------------------------------------------------------
Init ==
  /\ setting \in Settings
  /\ variables = {}
  /\ rows = [row \in {LinkingRow(a) : a \in Arcs} |-> <<>>]
  /\ initiated = FALSE
  /\ best = {}
  /\ lower = 0
  /\ fixed = {}
  /\ cutoffBound = Horizon
  /\ forbidden = {}
  /\ currentRound = 0
  /\ calls = 0

\* The first call: the program is infeasible without variables, those of the
\* initial tour are added.
scip_farkas ==
  /\ ~ initiated
  /\ initiated' = TRUE
  /\ AddEdges(ToSet(AsPath(InitialTour)))
  /\ AddSolution({ToSet(AsPath(InitialTour))})
  /\ UNCHANGED <<lower, fixed, cutoffBound, forbidden, currentRound, calls>>

Called == initiated /\ calls < setting.MaxCalls /\ calls' = calls + 1

InWindow(p) == lower <= Arrival(p) /\ Arrival(p) <= upper

PathsInWindow ==
  {p \in Walks : InWindow(p) /\ \A i \in 1 .. Len(p) : arc(p[i]) \notin forbidden}

\* performPricing of the path pricers, and addPath for each path: those that are
\* tours are solutions.
PricePaths ==
  /\ Called
  /\ \E n \in 1 .. numPaths : \E result \in [1 .. n -> PathsInWindow] :
       /\ AddEdges(UNION {ToSet(p) : p \in ToSet(result)})
       /\ AddSolution({ToSet(p) : p \in {p \in ToSet(result) : isTour(p)}})
  /\ UNCHANGED <<initiated, lower, fixed, cutoffBound, forbidden, currentRound>>

\* performPricing of the edge pricer: single edges.
PriceEdges ==
  /\ Called
  /\ \E n \in 1 .. numPaths :
       \E result \in [1 .. n -> {e \in TimedEdges :
           /\ arc(e) \notin forbidden
           /\ e.target.time <= upper
           /\ e.target.vertex = Root => e.target.time >= lower}] : AddEdges(ToSet(result))
  /\ UNCHANGED <<initiated, best, lower, fixed, cutoffBound, forbidden, currentRound>>

\* The greedy heuristics: a tour, vertex by vertex.  Only its last edge, the way
\* back, may be a forbidden one.
Heuristic ==
  /\ Called
  /\ \E p \in Tours :
       /\ \A i \in 1 .. Len(p) - 1 : p[i].source.time < upper /\ arc(p[i]) \notin forbidden
       /\ AddEdges(ToSet(p))
       /\ AddSolution({ToSet(p)})
  /\ UNCHANGED <<initiated, lower, fixed, cutoffBound, forbidden, currentRound>>

AllOddCATs == OddCATs(Arcs)

\* What the separators can find.
Families ==
  UNION {CASE kind = "subtour"    -> Subtours
           [] kind = "lifted"     -> LiftedSubtours
           [] kind = "cycle"      -> Cycles({p \in Walks : ToSet(p) \subseteq variables})
           [] kind = "dk"         -> DKs
           [] kind = "oddCAT"     -> AllOddCATs
           [] kind = "unitaryAFC" -> {c \in UnitaryAFCs : c.incoming \in variables}
           [] kind = "pathFree"   -> OddPathFrees(variables) : kind \in setting.separators}

\* scip_execlp of the separation manager.
Separate ==
  /\ initiated
  /\ currentRound < maxRounds
  /\ currentRound' = currentRound + 1
  /\ \E n \in 0 .. maxCutsPerRound : \E new \in [1 .. n -> Families \ DOMAIN rows] :
       rows' = [row \in DOMAIN rows \cup ToSet(new) |->
                  IF row \in ToSet(new) THEN [e \in variables |-> createCut(row, e)] ELSE rows[row]]
  /\ UNCHANGED <<variables, initiated, best, lower, fixed, cutoffBound, forbidden, calls>>

propagateDualBound == {e \in variables : IsEnd(e.target) /\ e.target.time < lower}

\* a faulty variant of propagatePrimalBound: fixes by the time an edge could end
propagatePrimalBoundEarly == {e \in variables : e.target.time + 1 >= upper}

\* Only for a cutoff that is less than the last one.
propagatePrimalBound ==
  IF upper >= cutoffBound THEN {} ELSE {e \in variables : e.target.time >= upper}

\* scip_exec of the propagator.
Propagate ==
  /\ initiated
  /\ fixed' = fixed \cup propagateDualBound \cup propagatePrimalBound
  /\ cutoffBound' = IF upper < cutoffBound THEN upper ELSE cutoffBound
  /\ UNCHANGED <<variables, rows, initiated, best, lower, forbidden, currentRound, calls>>
-----------------------------------------------------------------------------
Activity(row, set) == MapThenSumSet(LAMBDA e : rows[row][e], set)

\* The covering rows admit sets with a variable out of every vertex, the linking
\* rows no second one.
Covering ==
  FoldSet(LAMBDA v, sets : {s \cup {e} : s \in sets, e \in {e \in variables : e.source.vertex = v}},
          {{}}, Vertices)

\* Do the bounds and the rows admit the variables of a set, the others being zero?
Feasible(set) ==
  /\ set \cap fixed = {}
  /\ \A e \in set : arc(e) \notin forbidden
  /\ \A row \in DOMAIN rows :
       CASE row.kind = "flow"    -> Activity(row, set) = 0
         [] row.kind = "linking" -> Activity(row, set) = One(\E e \in set : arc(e) = row.edge)
         [] OTHER                -> Admits(row, Activity(row, set))

\* SCIP finds a solution of its own.
Solution ==
  /\ initiated
  /\ \E set \in Covering :
       /\ Cost(set) < upper
       /\ Feasible(set)
       /\ AddSolution({set})
  /\ UNCHANGED <<variables, rows, initiated, lower, fixed, cutoffBound, forbidden, currentRound, calls>>

\* SCIP proves a better lower bound, never one above the best tour.
RaiseLower ==
  /\ initiated
  /\ \E x \in LowerBounds : /\ lower < x /\ \A p \in Tours : x <= Arrival(p)
                         /\ lower' = x
  /\ UNCHANGED <<variables, rows, initiated, best, fixed, cutoffBound, forbidden, currentRound, calls>>

\* SCIP goes to another node: other edges are forbidden; fixings are of the node
\* they were made at and of those below.
NextNode ==
  /\ initiated
  /\ forbidden' \in setting.ForbiddenSets \ {forbidden}
  /\ fixed' \in {fixed, {}}
  /\ UNCHANGED <<variables, rows, initiated, best, lower, cutoffBound, currentRound, calls>>

Next ==
  /\ \/ scip_farkas \/ PricePaths \/ PriceEdges \/ Heuristic \/ Separate
     \/ Propagate \/ Solution \/ RaiseLower \/ NextNode
  /\ UNCHANGED setting

Spec == Init /\ [][Next]_vars
-----------------------------------------------------------------------------
\* Along the edges of the best solution.
Follow(v) == LET out == {e \in best : e.source = v} IN IF out = {} THEN v ELSE (CHOOSE e \in out : TRUE).target

Reached[n \in 0 .. Cardinality(Vertices)] == IF n = 0 THEN Start ELSE Follow(Reached[n - 1])

\* The vertices along the edges of the best solution.
createTour == [n \in 1 .. Cardinality(Vertices) + 1 |-> Reached[n - 1].vertex]

\* Every row has a coefficient for exactly the variables there are, and wherever a
\* variable starts or ends there is a row that conserves the flow.  The prices are
\* right: a variable has the coefficients that the pricer charges it for, whether it
\* was there when a cut was found (createCut), or was priced after (addedEdge).
\* Otherwise the pricer would return what is there already, or declare optimal what
\* is not.
RowsMatchDuals ==
  /\ \A row \in DOMAIN rows : rows[row] = [e \in variables |-> dual(row, e)]
  /\ \A e \in variables : addVertex(e.source) \cup addVertex(e.target) \subseteq DOMAIN rows

KeepsTours(cut) ==
  \A p \in Tours : Admits(cut, MapThenSumSet(LAMBDA e : dual(cut, e), ToSet(p)))

Cuts == {row \in DOMAIN rows : row.kind \notin {"flow", "linking"}}

\* No cut removes a tour, not even one whose edges are yet to be priced.
CutsKeepTours == \A cut \in Cuts : KeepsTours(cut)

\* A cycle entered from the start that has all vertices but the source.
Spanning(cut) ==
  cut.kind = "cycle" /\ cut.incoming.source = Start /\ Len(cut.cycle) + 1 = Cardinality(Vertices)

\* The same but for cycles that leave no vertex to turn off to: who enters such a
\* cycle can but return to the source, and that is not counted as turning off.
ProperCutsKeepTours == \A cut \in Cuts : ~ Spanning(cut) => KeepsTours(cut)

\* Whatever set of variables the rows admit is one tour from the start, although
\* only some of the vertices have a row and nothing forbids subtours: createTour
\* walks through all vertices and back, and arrives when the solution says.
SolutionIsTour ==
  best # {} =>
    /\ \E p \in Tours : ToSet(p) = best
    /\ createTour[1] = Root /\ Last(createTour) = Root
    /\ ToSet(createTour) = Vertices
    /\ Arrival(AsPath(createTour)) = upper

\* The propagator fixes no edge of a tour that is better than the best one known,
\* and it does not matter that it is not called again for edges priced later.
FixingsKeepBetterTours ==
  \A p \in Tours : Arrival(p) < upper => ToSet(p) \cap fixed = {}
=============================================================================
