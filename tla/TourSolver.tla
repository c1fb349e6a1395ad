------------------------------ MODULE TourSolver ------------------------------
(***************************************************************************)
(* TourSolver and SubtourHandler (tour/static): branch and cut for the     *)
(* tour of least cost, over assignments.  SCIP owns the loop; it asks the  *)
(* handler to separate a solution of the relaxation, to enforce one that   *)
(* it would take for a solution, and to check what its heuristics find.    *)
(*                                                                         *)
(* A solution of the relaxation is a sum of assignments in units of        *)
(* 1 / Units, one of the cheapest that rows and fixings admit.             *)
(***************************************************************************)
EXTENDS MaxFlow

CONSTANTS
  CostFuncs,     (* costs of the edges                                      *)
  Units          (* bound: of 1 are in a solution of the relaxation         *)

VARIABLES
  costs,         (* the objective; never changes                            *)
  phase,         (* of SCIP at the node                                     *)
  open,          (* the nodes to come to: the values edges are fixed to     *)
  node,
  rows,          (* the cuts                                                *)
  best,          (* the best solution: its edges, or none                   *)
  answer         (* the vertices that findTour returns                      *)

scipVars == <<costs, phase, open, node, rows, best, answer>>
vars == <<flowVars, scipVars>>

point == capacities

support == {e \in Edges : point[e] > 0}

\* The cuts are those of the other programs, without time.
Cut == INSTANCE SparseCuts WITH Root <- 0, Arcs <- Edges, Distance <- costs, Horizon <- 0,
                                TimedVertices <- {[vertex |-> 0, time |-> 0]}, TimedEdges <- {}

Cost(set) == MapThenSumSet(LAMBDA e : costs[e], set)
solutionCost == IF best = {} THEN Inf ELSE Cost(best)

\* createFlowConstraints: one edge out of every vertex, and one into it.
Assignments ==
  {{<<v, p[v]>> : v \in Vertices} :
     p \in {p \in [Vertices -> Vertices] : (\A v \in Vertices : p[v] # v) /\ {p[v] : v \in Vertices} = Vertices}}

\* edge.leaves
leaves(set) == {e \in Edges : e[1] \in set /\ e[2] \notin set}

\* The edges of a sum of assignments that are in a set, one by one.
Within(sum, set) == Cardinality({c \in (DOMAIN sum) \X set : c[2] \in sum[c[1]]})

\* a faulty variant of Admits: subtours as for a graph without directions
AdmitsTwice(sum, c) ==
  CASE c.kind = "subtour" -> Within(sum, leaves(c.set)) >= 2 * Len(sum)
    [] c.kind = "oddCAT"  -> Within(sum, c.arcs) <= ((Cardinality(c.arcs) - 1) \div 2) * Len(sum)

\* generateSubtourConstraint, and generateCut of the separator.
Admits(sum, c) ==
  CASE c.kind = "subtour" -> Within(sum, leaves(c.set)) >= Len(sum)
    [] c.kind = "oddCAT"  -> Within(sum, c.arcs) <= ((Cardinality(c.arcs) - 1) \div 2) * Len(sum)

\* a faulty variant of findSubtour: only the last vertex of the walk is compared
findSubtourLast(set) ==
  LET After(v) == CHOOSE w \in Vertices : <<v, w>> \in set
      At[n \in 0 .. NumVertices - 1] == IF n = 0 THEN 0 ELSE After(At[n - 1])
  IN  At[NumVertices - 1] = 0

\* Is the walk from the first vertex back before it has been everywhere?
findSubtour(set) ==
  LET After(v) == CHOOSE w \in Vertices : <<v, w>> \in set
      At[n \in 0 .. NumVertices - 1] == IF n = 0 THEN 0 ELSE After(At[n - 1])
  IN  \E n \in 1 .. NumVertices - 1 : At[n] = 0

\* The vertices along a solution.
createTour(set) ==
  LET At[n \in Vertices] == IF n = 0 THEN 0 ELSE CHOOSE w \in Vertices : <<At[n - 1], w>> \in set
  IN  [n \in 1 .. NumVertices |-> At[n - 1]]
-----------------------------------------------------------------------------
Init ==
  /\ costs \in CostFuncs
  /\ phase = "select" /\ open = <<<<>>>> /\ node = <<>>
  /\ rows = {} /\ best = {} /\ answer = <<>>
  /\ FlowInit(NoFlow)

\* Bound: SCIP dives, into the node where the edge is taken first.
Select ==
  /\ phase = "select"
  /\ open # <<>>
  /\ node' = Head(open) /\ open' = Tail(open) /\ phase' = "lp"
  /\ UNCHANGED <<costs, rows, best, answer, flowVars>>

Relaxed ==
  LET fixed == {set \in Assignments : \A e \in DOMAIN node : (e \in set) = (node[e] = 1)}
  IN  {sum \in [1 .. Units -> fixed] : \A c \in rows : Admits(sum, c)}

\* The cheapest solutions of the relaxation that cost less than the best solution.
Optima ==
  LET priced == {<<MapThenSumSet(LAMBDA i : Cost(sum[i]), 1 .. Units), sum>> : sum \in Relaxed}
      least == Min({p[1] : p \in priced} \cup {solutionCost * Units})
  IN  {[e \in Edges |-> Cardinality({i \in 1 .. Units : e \in p[2][i]})] :
         p \in {p \in priced : p[1] = least /\ least < solutionCost * Units}}

\* A node that is infeasible, or cannot beat the best solution, is left; else the
\* handler is asked to separate.
SolveLP ==
  /\ phase = "lp"
  /\ LET optima == Optima
     IN  \/ /\ optima = {}
            /\ phase' = "select"
            /\ UNCHANGED flowVars
         \/ /\ capacities' \in optima
            /\ pair' = 1 /\ flow' = NoFlow /\ value' = 0 /\ minCut' = [set |-> {}, value |-> Inf]
            /\ phase' = "separate"
  /\ UNCHANGED <<costs, open, node, rows, best, answer>>

MinCut == phase = "separate" /\ computeMinCut /\ UNCHANGED scipVars

\* scip_sepalp; after a cut SCIP solves again.
Separated ==
  /\ phase = "separate" /\ FlowIdle
  /\ IF minCut.value >= Units THEN phase' = "enforce" /\ UNCHANGED rows
     ELSE phase' = "lp" /\ rows' = rows \cup {[kind |-> "subtour", set |-> minCut.set]}
  /\ UNCHANGED <<costs, open, node, best, answer, flowVars>>

oddCATViolation(c) == MapThenSumSet(LAMBDA e : point[e], c.arcs) - ((Cardinality(c.arcs) - 1) \div 2) * Units

\* scip_execlp of StaticOddCATSeparator, which is asked before the handler.  Bound: at the
\* first solution, and one of the cuts that could be found.
Separate ==
  /\ phase = "separate" /\ pair = 1 /\ flow = NoFlow /\ node = <<>> /\ rows = {}
  /\ \E c \in Cut!OddCATs(support) : oddCATViolation(c) > 0 /\ rows' = {c}
  /\ phase' = "lp"
  /\ UNCHANGED <<costs, open, node, best, answer, flowVars>>

\* SCIP may stop separating before no cut is found.  Bound: it does so at the root.
Stop ==
  /\ phase = "separate" /\ FlowIdle /\ node = <<>>
  /\ phase' = "enforce"
  /\ UNCHANGED <<costs, open, node, rows, best, answer, flowVars>>

integral == \A e \in support : point[e] = Units

candidates == IF integral THEN support \ DOMAIN node ELSE {e \in support : point[e] < Units}

Fixed(e, x) == [f \in DOMAIN node \cup {e} |-> IF f = e THEN x ELSE node[f]]

\* SCIP branches on an edge with a fractional value or, if there is none, on one of the
\* solution that is not fixed; with all of them fixed the node is infeasible.
Branch ==
  /\ phase = "enforce"
  /\ ~ integral \/ findSubtour(support)
  /\ \/ candidates = {} /\ UNCHANGED open
     \/ \E e \in candidates :
          open' = <<Fixed(e, 1), Fixed(e, 0)>> \o open
  /\ phase' = "select"
  /\ UNCHANGED <<costs, node, rows, best, answer, flowVars>>

\* scip_enfolp, of a solution with integral values: one that is feasible is the best.
Enforced ==
  /\ phase = "enforce"
  /\ integral /\ ~ findSubtour(support)
  /\ best' = support
  /\ phase' = "select"
  /\ UNCHANGED <<costs, open, node, rows, answer, flowVars>>

\* scip_check, of an assignment that a heuristic has rounded the solution to.
Check ==
  /\ phase = "separate" /\ FlowIdle
  /\ \E set \in Assignments :
       /\ set \subseteq support /\ Cost(set) < solutionCost
       /\ ~ findSubtour(set)
       /\ best' = set
  /\ UNCHANGED <<costs, phase, open, node, rows, answer, flowVars>>

\* SCIP has come to all nodes; findTour throws if there is no solution.
Solved ==
  /\ phase = "select" /\ open = <<>>
  /\ IF best = {} THEN phase' = "failed" /\ UNCHANGED answer
     ELSE phase' = "solved" /\ answer' = createTour(best)
  /\ UNCHANGED <<costs, open, node, rows, best, flowVars>>

Next ==
  \/ Select \/ SolveLP \/ Separate \/ MinCut \/ Separated \/ Stop \/ Branch \/ Enforced \/ Check \/ Solved

Spec == Init /\ [][Next]_vars
-----------------------------------------------------------------------------
Tours == {set \in Assignments : \A s \in (SUBSET Vertices) \ {{}, Vertices} : Admits(<<set>>, [kind |-> "subtour", set |-> s])}

\* A solution, whether it was enforced or checked, is one cycle through all vertices;
\* createTour has each of them once (asserted at line 205).
SolutionIsTour ==
  /\ best # {} => best \in Tours
  /\ phase = "solved" => /\ Len(answer) = NumVertices /\ ToSet(answer) = Vertices
                         /\ \A i \in 1 .. NumVertices : <<answer[i], answer[(i % NumVertices) + 1]>> \in best

\* The tour that is returned costs least: the lifted subtour cuts of the programs, and
\* the expansion of the network from it, count on that.
AnswerIsOptimal ==
  /\ phase # "failed"
  /\ phase = "solved" => \A tour \in Tours : solutionCost <= Cost(tour)
=============================================================================
