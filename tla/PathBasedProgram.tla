--------------------------- MODULE PathBasedProgram ---------------------------
(***************************************************************************)
(* Column generation over paths with stabilised dual values                *)
(* (tour/path).  SCIP solves a program over the paths that have a variable *)
(* and calls the pricer, which looks for paths of negative reduced cost:   *)
(* under the dual values of SCIP, or under a point between these and the   *)
(* point (the center) that has given the best bound so far.                *)
(*                                                                         *)
(* Of the program itself it matters what its solutions are: combinations   *)
(* of paths that leave every vertex once (covers).  Dual values enter as   *)
(* the reduced costs they give to the paths, together with an offset; that *)
(* they never value a cover below its cost is what makes them dual.        *)
(*                                                                         *)
(* The sparse program prices in the same way (tour/sparse/pricers).  Its   *)
(* variables are the timed edges: a path is a column as soon as all of its *)
(* edges are, though no router may ever return it.                         *)
(***************************************************************************)
EXTENDS Integers, FiniteSets, FiniteSetsExt

CONSTANTS
  Vertices, Root,
  Paths,           (* closed paths from the source                          *)
  Edges,           (* the timed edges of each: <<vertex, vertex, time>>     *)
  Cost,            (* the travel time of each, in units                     *)
  Class,           (* the paths the router looks for, with all tours        *)
  Settings,        (* bound: which of the programs, and how it is solved    *)
  InitialTour,
  maxNumPaths,     (* paths per call of the router                          *)
  Explore,         (* 1 / explorationFactor                                 *)
  Threshold,       (* cutoffThreshold                                       *)
  ProveGap,        (* 1 / initialProveGap, for the two programs             *)
  Eps,             (* cmp::eps                                              *)
  Nodes,           (* bound: what branching may fix                         *)
  ReducedCosts,    (* bound: those that SCIP's dual values give to a path   *)
  Inf

Unfixed == [forbidden |-> {}, required |-> {}]

Unsolved == [offset |-> 0, rc |-> Cost]

arc(e) == <<e[1], e[2]>>
Count(p, a) == Cardinality({e \in Edges[p] : arc(e) = a})
Leaves(p, v) == Cardinality({e \in Edges[p] : e[1] = v})
Arcs == UNION {{arc(e) : e \in Edges[p]} : p \in Paths}

\* A faulty variant: paths that miss vertices are taken for tours.
isTourSimple(p) == \A v \in Vertices : Leaves(p, v) <= 1

isTour(p) == Cardinality(Edges[p]) = Cardinality(Vertices) /\ \A v \in Vertices : Leaves(p, v) <= 1

\* What tours are: paths that leave every vertex once.
Tours == {p \in Paths : \A v \in Vertices : Leaves(p, v) = 1}

\* The edge that follows another one on a path is the one that leaves next.
Follows(p, e, f) ==
  /\ f \in Edges[p] /\ e[3] < f[3]
  /\ \A g \in Edges[p] : e[3] < g[3] => f[3] <= g[3]

\* Paths of the time-expanded graph: from the source at time 0 back to it, along edges
\* that end where and when the next one starts, whatever the path.  Edges make a path.
ASSUME WalksAssumption ==
  /\ IsFiniteSet(Vertices)
  /\ \A p \in Paths :
       /\ IsFiniteSet(Edges[p]) /\ Edges[p] \subseteq Vertices \X Vertices \X Nat
       /\ \E e \in Edges[p] : e[3] = 0
       /\ \A e \in Edges[p] : e[1] = Root <=> e[3] = 0
       /\ \A e, f \in Edges[p] : /\ e[3] = f[3] => e = f
                                 /\ Follows(p, e, f) => e[2] = f[1]
       /\ \A e \in Edges[p] : e[2] # Root => \E f \in Edges[p] : e[3] < f[3]
  /\ \A p, q \in Paths :
       /\ Edges[p] = Edges[q] => p = q
       /\ \A e \in Edges[p] \cap Edges[q], f \in Edges[p], g \in Edges[q] :
            Follows(p, e, f) /\ Follows(q, e, g) => f[3] = g[3]

ASSUME PathsAssumption ==
  /\ IsFiniteSet(Paths) /\ Cost \in [Paths -> Nat]
  /\ Class \subseteq Paths /\ Tours \subseteq Class /\ InitialTour \in Tours
  /\ Unfixed \in Nodes /\ Nodes \subseteq [forbidden : SUBSET Arcs, required : SUBSET Arcs]
  /\ Settings \subseteq [sparse : BOOLEAN, relaxation : BOOLEAN]
  /\ ReducedCosts \in [Paths -> SUBSET Int] /\ \A p \in Paths : 0 \in ReducedCosts[p]

ASSUME NumbersAssumption ==
  /\ Explore \in Nat \ {0} /\ Threshold \in Nat /\ Eps \in Nat /\ maxNumPaths \in Nat \ {0}
  /\ Inf \in Nat /\ ProveGap \in [BOOLEAN -> Nat \ {0}]
  /\ Explore * (Eps + 2) + Eps <= Threshold

VARIABLES
  settings,        (* [sparse, relaxation : BOOLEAN]                        *)
  variables,       (* pathVariables: how many each path has                 *)
  node,            (* arcs with bounds changed: [forbidden, required]       *)
  best,            (* the best solution, a cover, or {} if there is none    *)
  lower,           (* SCIPgetLowerbound                                     *)
  phase,           (* "solve", "farkas", "redcost", "optimal", "infeasible" *)
  current,         (* SCIP's dual values: [offset, rc]                      *)
  center,          (* centeredDualValues: [offset, rc, lagrangianBound]     *)
  halvings,        (* of the proveGap                                       *)
  proveDirectly,
  reported         (* the bound the pricer has given to SCIP, or -Inf       *)

vars == <<settings, variables, node, best, lower, phase, current, center, halvings, proveDirectly, reported>>
-----------------------------------------------------------------------------
Columns == {p \in Paths : variables[p] > 0}

\* Covers are made of halves of two paths (bound: SCIP's are of any fractions).
Covers == {w \in Paths \X Paths : \A v \in Vertices : Leaves(w[1], v) + Leaves(w[2], v) = 2}

Usage(w, a) == Count(w[1], a) + Count(w[2], a)

Value(w) == Cost[w[1]] + Cost[w[2]]

\* The covers that the bounds of a node admit.
CoversAt(n) ==
  {w \in Covers : \A a \in Arcs :
     /\ Usage(w, a) <= 2
     /\ a \in n.forbidden => Usage(w, a) = 0
     /\ a \in n.required => Usage(w, a) = 2}

CoversBy(columns, n) == {w \in CoversAt(n) : {w[1], w[2]} \subseteq columns}

Single(p) == <<p, p>>

\* SCIPgetCutoffbound
upper == IF best = {} THEN Inf ELSE Min({Value(w) \div 2 : w \in best})

\* What solve reads from a solution: the paths with a value above one half.
solve(w) == {p \in {w[1], w[2]} : w[1] = w[2]}

hasFixedEdges == node.forbidden \cup node.required # {}

\* What SCIP's dual values can be when it has solved the program over the columns:
\* no column has negative reduced cost, those in use have none, and no cover is
\* valued at more than it costs.  Variables of the sparse program have an upper
\* bound, which hides reduced costs of its columns; only when it stabilises are
\* these added back (getCurrentDualValues).
DualPoints(columns, n) ==
  LET covers  == CoversAt(n)
      optimal == Min({Value(w) : w \in CoversBy(columns, n)})
      used    == UNION {{w[1], w[2]} : w \in {w \in CoversBy(columns, n) : Value(w) = optimal}}
      hidden  == settings.sparse /\ hasFixedEdges
      Possible(p) == {x \in ReducedCosts[p] : /\ p \in used => x <= 0
                                              /\ p \in columns => x >= 0 \/ hidden}
  IN  {d \in [offset : {optimal \div 2}, rc : [Paths -> UNION {ReducedCosts[p] : p \in Paths}]] :
         /\ \A p \in Paths : d.rc[p] \in Possible(p)
         /\ \A w \in covers : 2 * d.offset + d.rc[w[1]] + d.rc[w[2]] <= Value(w)}

\* Farkas values: no column is of use, every cover has a path that is.
FarkasPoints(columns, n) ==
  {d \in [offset : {0}, rc : [Paths -> {-1, 0}]] :
     /\ \A p \in columns : d.rc[p] = 0
     /\ \A w \in CoversAt(n) : \E p \in {w[1], w[2]} : d.rc[p] < 0}
-----------------------------------------------------------------------------
\* findPaths: some of the paths with negative reduced cost, a cheapest among them.
Negative(rc, paths) == {p \in paths : rc[p] < 0}

MinCost(rc, paths) == Min({0} \cup {rc[p] : p \in paths})

FindPaths(rc, paths) ==
  {answer \in SUBSET Negative(rc, paths) :
     /\ Cardinality(answer) <= maxNumPaths
     /\ Negative(rc, paths) # {} => \E p \in answer : rc[p] = MinCost(rc, paths)}

InWindow(p) == settings.relaxation \/ (lower <= Cost[p] + Eps /\ Cost[p] <= upper + Eps)

\* The paths of the router in the window, without edges that are forbidden.
PathsInWindow ==
  {p \in Class : InWindow(p) /\ \A e \in Edges[p] : arc(e) \notin node.forbidden}

\* A path of the sparse program has its variables with those of others.
Recombined(columns) ==
  LET edges == UNION {Edges[p] : p \in columns} IN {p \in Paths : Edges[p] \subseteq edges}

\* addTimedPaths: a variable for each; those that are tours are solutions.  SCIP
\* solves the program again if there is anything new.
AddTimedPaths(paths) ==
  /\ variables' = IF settings.sparse
                  THEN [p \in Paths |-> IF p \in Recombined(Columns \cup paths) THEN 1 ELSE 0]
                  ELSE [p \in Paths |-> IF p \in paths THEN variables[p] + 1 ELSE variables[p]]
  /\ best' = LET found == best \cup {Single(p) : p \in {q \in paths : isTour(q)}}
             IN  {w \in found : \A x \in found : Value(w) <= Value(x)}
  /\ phase' = IF variables' # variables THEN "solve" ELSE IF phase = "farkas" THEN "infeasible" ELSE "optimal"
  /\ current' = IF phase' = "solve" THEN Unsolved ELSE current
-----------------------------------------------------------------------------
Init ==
  /\ settings \in Settings
  /\ variables = [p \in Paths |-> IF p = InitialTour /\ ~ settings.relaxation THEN 1 ELSE 0]
  /\ best = IF settings.relaxation THEN {} ELSE {Single(InitialTour)}
  /\ node = Unfixed
  /\ lower = 0
  /\ phase = "solve"
  /\ current = Unsolved
  /\ center = [offset |-> 0, rc |-> Cost, lagrangianBound |-> 0]
  /\ halvings = 0
  /\ proveDirectly = FALSE
  /\ reported = -Inf

\* SCIP solves the program over the columns there are.
SolveLP ==
  /\ phase = "solve"
  /\ IF CoversBy(Columns, node) # {}
     THEN current' \in DualPoints(Columns, node) /\ phase' = "redcost"
     ELSE current' \in FarkasPoints(Columns, node) /\ phase' = "farkas"
  /\ reported' = -Inf
  /\ UNCHANGED <<settings, variables, node, best, lower, center, halvings, proveDirectly>>

\* scip_farkas: no bound is given.
Farkas ==
  /\ phase = "farkas"
  /\ \E paths \in FindPaths(current.rc, PathsInWindow) : AddTimedPaths(paths)
  /\ UNCHANGED <<settings, node, lower, center, halvings, proveDirectly, reported>>

\* When is the center left alone?
Plain ==
  \/ hasFixedEdges
  \/ proveDirectly
  \/ settings.sparse /\ current.offset < center.lagrangianBound

\* performPricing with the dual values as they are.
PricePlain ==
  /\ phase = "redcost" /\ Plain
  /\ \E paths \in FindPaths(current.rc, PathsInWindow) :
       /\ AddTimedPaths(paths)
       /\ reported' = IF paths = {} THEN -Inf ELSE current.offset + MinCost(current.rc, PathsInWindow)
  /\ UNCHANGED <<settings, node, lower, center, halvings, proveDirectly>>

\* Is the gap between the value and the bound within the proveGap?
GapIsSmall ==
  LET bound == center.lagrangianBound
  IN  bound > 0 /\ current.offset - bound <= bound \div (ProveGap[settings.sparse] * 2 ^ halvings)

\* The attempt to prove that the value is optimal.
Prove ==
  /\ phase = "redcost" /\ ~ Plain /\ GapIsSmall
  /\ \E paths \in FindPaths(current.rc, Class) :
       LET bound    == current.offset + MinCost(current.rc, Class)
           improved == paths # {} /\ bound > center.lagrangianBound + Eps
       IN  /\ AddTimedPaths(paths)
           /\ center' = IF improved
                        THEN [offset |-> current.offset, rc |-> current.rc, lagrangianBound |-> bound]
                        ELSE center
           /\ halvings' = IF paths # {} /\ ~ improved THEN halvings + 1 ELSE halvings
  /\ reported' = center'.lagrangianBound
  /\ UNCHANGED <<settings, node, lower, proveDirectly>>

\* A number between one of SCIP's and one of the center, rounded down.
Between(x, y) == (x + (Explore - 1) * y) \div Explore

StabilizedRC == [p \in Paths |-> Between(current.rc[p], center.rc[p])]

StabilizedOffset == Between(current.offset, center.offset)

\* A faulty variant: with the offset of SCIP's dual values.
StabilizedBoundUnmixed == current.offset + MinCost(StabilizedRC, Class)

StabilizedBound == StabilizedOffset + MinCost(StabilizedRC, Class)

\* Is the center to be moved?
Improved == StabilizedBound > center.lagrangianBound + Eps

\* A faulty variant: the bound moves without the reduced costs.
MovedBoundOnly == IF Improved THEN [center EXCEPT !.lagrangianBound = StabilizedBound] ELSE center

Moved ==
  IF Improved
  THEN [offset |-> StabilizedOffset, rc |-> StabilizedRC, lagrangianBound |-> StabilizedBound]
  ELSE center

\* A faulty variant: against the value between.
CutOffStabilized == ~ settings.sparse /\ StabilizedOffset <= Moved.lagrangianBound + Threshold

\* Only the path-based program has a threshold.
CutOff == ~ settings.sparse /\ current.offset <= Moved.lagrangianBound + Threshold

\* A faulty variant: all that was found.
CurrentPathsAll(paths) == paths

\* A faulty variant: under the center.
CurrentPathsCenter(paths) == {p \in paths : center.rc[p] < -Eps}

\* What was found and is of use under SCIP's dual values.
CurrentPaths(paths) == {p \in paths : current.rc[p] < -Eps}

\* One pass of the loop: the paths that are found under the dual values between
\* SCIP's and the center's are added if they are of use under SCIP's; if none is
\* (misprice) the next pass takes the new center.
Stabilize ==
  /\ phase = "redcost" /\ ~ Plain /\ ~ GapIsSmall
  /\ center' = Moved
  /\ \E paths \in FindPaths(StabilizedRC, Class) :
       LET currentPaths == CurrentPaths(paths)
       IN  \/ /\ CutOff
              /\ reported' = -Inf
              /\ phase' = "optimal"
              /\ UNCHANGED <<variables, best, current, proveDirectly>>
           \/ /\ ~ CutOff /\ currentPaths # {}
              /\ reported' = center'.lagrangianBound
              /\ AddTimedPaths(currentPaths)
              /\ UNCHANGED proveDirectly
           \/ /\ ~ CutOff /\ currentPaths = {}
              /\ proveDirectly' = (~ settings.sparse /\ ~ Improved)
              /\ UNCHANGED <<variables, best, phase, current, reported>>
  /\ UNCHANGED <<settings, node, lower, halvings>>

\* SCIP goes on to a node.  Without bounds that were changed, the bound of a node
\* is a bound of the program.
NextNode ==
  /\ phase \in {"optimal", "infeasible"} /\ ~ settings.relaxation
  /\ lower' = IF phase = "optimal" /\ ~ hasFixedEdges THEN Max({lower, current.offset}) ELSE lower
  /\ node' \in Nodes
  /\ phase' = "solve"
  /\ current' = Unsolved
  /\ reported' = -Inf
  /\ UNCHANGED <<settings, variables, best, center, halvings, proveDirectly>>

\* SCIP finds that a cover is a solution: every arc is used or not.
Solution ==
  /\ phase = "optimal"
  /\ \E w \in CoversBy(Columns, node) :
       /\ \A a \in Arcs : Usage(w, a) \in {0, 2}
       /\ Value(w) \div 2 < upper
       /\ best' = {w}
  /\ UNCHANGED <<settings, variables, node, lower, phase, current, center, halvings, proveDirectly, reported>>

\* The relaxation is all that was asked for.
Ended == phase \in {"optimal", "infeasible"} /\ settings.relaxation /\ UNCHANGED vars

PerformPricing == Farkas \/ PricePlain \/ Prove \/ Stabilize

Next == SolveLP \/ PerformPricing \/ NextNode \/ Solution \/ Ended

\* SCIP ends every solve of a program.
Solved == phase = "solve" /\ phase' \in {"redcost", "farkas"}

Spec == Init /\ [][Next]_vars /\ WF_phase(Solved) /\ WF_vars(PerformPricing)
-----------------------------------------------------------------------------
\* The tours SCIP may still look for: not excluded at the node, better than the best
\* solution, and not below its own lower bound.
Wanted ==
  {p \in Tours : /\ Single(p) \in CoversAt(node)
                 /\ settings.relaxation \/ (lower <= Cost[p] + Eps /\ Cost[p] < upper)}

\* Every bound given to SCIP is one: no tour it may still look for costs less,
\* whether the bound comes from its own dual values or from a center that stands
\* for many of them, rounded, and was moved long before.
BoundIsValid == \A p \in Wanted : reported <= Cost[p]

\* The center never knows more than is true of any cover, so that it stays a bound
\* whatever is added and fixed later.
CenterIsValid ==
  \A w \in CoversAt(Unfixed) :
    {w[1], w[2]} \subseteq Class => 2 * center.lagrangianBound <= Value(w)

\* No path is given a second variable (the assertion in addTimedPath), although
\* paths are found under other dual values than those of the columns.
NoDuplicates == \A p \in Paths : variables[p] <= 1

\* When the pricer has found nothing SCIP takes the program for solved: up to the
\* threshold there is nothing better, and nothing at all if it is infeasible.  In the
\* sparse program the hidden reduced costs can make columns crowd out new paths.
\* SCIP's lower bound, which closes the window of all later calls, is one up to the
\* threshold, whatever the nodes, windows and centers it went by.
PricingIsExact ==
  /\ phase = "optimal" /\ ~ (settings.sparse /\ hasFixedEdges) =>
       \A p \in Wanted : current.offset <= Cost[p] + Threshold
  /\ phase = "infeasible" => Wanted = {}
  /\ \A p \in Tours : lower <= Cost[p] + Threshold

\* After a misprice the center has moved (the assertion of the sparse pricer);
\* the fallback of the path-based one is never taken.
MispriceMovesCenter ==
  [][Stabilize /\ phase' = "redcost" => center'.lagrangianBound > center.lagrangianBound + Eps]_vars

\* What has integral arcs is a tour, given by a single path: when the arcs of the best
\* solution are integral solve finds the one path it needs, and no other.
SolutionIsTour == \A w \in best : solve(w) # {} /\ solve(w) \subseteq Tours

\* Pricing ends at every node.
PricingEnds == []<>(phase \in {"optimal", "infeasible"})
=============================================================================
