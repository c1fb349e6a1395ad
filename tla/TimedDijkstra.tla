---------------------------- MODULE TimedDijkstra ----------------------------
(***************************************************************************)
(* TimedDijkstra::shortestPath (timed/timed_router.hh): the label-setting  *)
(* search for the earliest arrival at a target when the cost of an edge    *)
(* depends on the time it is entered.  One behaviour is one call: the      *)
(* search loop, then the walk back along the labels that builds the path.  *)
(* Dijkstra::shortestPath (router/router.hh) is the same loop with costs   *)
(* that do not depend on time and a departure time of 0.                   *)
(***************************************************************************)
EXTENDS LabelHeap, Sequences

CONSTANTS
  Source, Target,   (* endpoints of an edge, as functions of the edge       *)
  Horizon,          (* timeHorizon: the costs of an edge are known up to it *)
  CostFuncs,        (* the cost functions the call may be given             *)
  Queries           (* the arguments the call may be given                  *)

Times == 0 .. Horizon

\* First in, first out: leaving later never lets a traveller arrive earlier.
\* AugmentedEdgeFunc is built to have this property (see AugmentedEdgeFunc.tla).
FIFO(c) == \A e \in Edges : \A s, t \in Times :
             s <= t => s + c[e][s] <= t + c[e][t]

ASSUME GraphAssumption ==
  /\ Source \in [Edges -> Vertices]
  /\ Target \in [Edges -> Vertices]
  /\ NoEdge \notin Edges
  /\ Horizon \in Nat

ASSUME CostAssumption ==
  \A c \in CostFuncs : c \in [Edges -> [Times -> Nat]] /\ FIFO(c)

\* bound = Inf stands for the unbounded instantiation of the template; allowed
\* is the set of edges the filter accepts.
Query == [source : Vertices, target : Vertices, departure : Times,
          bound : Nat, allowed : SUBSET Edges]

ASSUME QueryAssumption == \A q \in Queries : q \in Query

VARIABLES
  costs,     (* the cost function of this call; never changes               *)
  query,     (* the arguments of this call; never changes                   *)
  pc,        (* "search", "trace" or an outcome                             *)
  current,   (* the label last extracted                                    *)
  pending,   (* its outgoing edges not looked at yet                        *)
  at,        (* during the walk back: the vertex of the current label       *)
  path       (* the path built so far                                       *)

args == <<costs, query>>
vars == <<labels, heap, costs, query, pc, current, pending, at, path>>

Outcome == {"found", "notFound", "outOfRange"}

bounded == query.bound # Inf

Init ==
  /\ costs \in CostFuncs
  /\ query \in Queries
  /\ RootedAt(query.source, query.departure)
  /\ pc = "search"
  /\ current = query.source
  /\ pending = {}
  /\ at = query.target
  /\ path = <<>>

\* The edges the loop body relaxes: those the filter does not skip.
Outgoing(v) == {e \in query.allowed : Source[e] = v}

\* a faulty variant of Extract: the search stops as soon as the target has a label
ExtractEarly(v) ==
  /\ pc = "search" /\ pending = {}
  /\ ExtractMin(v)
  /\ current' = v
  /\ \/ ~ Unknown(query.target) /\ pc' = "trace" /\ pending' = {}
     \/ Unknown(query.target) /\ pc' = "search" /\ pending' = Outgoing(v)
  /\ UNCHANGED <<costs, query, at, path>>

\* a faulty variant of Extract: a label that meets the bound exactly is refused
ExtractStrict(v) ==
  /\ pc = "search" /\ pending = {}
  /\ ExtractMin(v)
  /\ current' = v
  /\ LET exceeded == bounded /\ labels[v].cost >= query.bound
     IN  \/ exceeded /\ pc' = "notFound" /\ pending' = {}
         \/ ~ exceeded /\ v = query.target /\ pc' = "trace" /\ pending' = {}
         \/ ~ exceeded /\ v # query.target /\ pc' = "search" /\ pending' = Outgoing(v)
  /\ UNCHANGED <<costs, query, at, path>>

\* extractMin and the two early exits of the loop.
Extract(v) ==
  /\ pc = "search" /\ pending = {}
  /\ ExtractMin(v)
  /\ current' = v
  /\ LET exceeded == bounded /\ labels[v].cost > query.bound
     IN  \/ exceeded /\ pc' = "notFound" /\ pending' = {}
         \/ ~ exceeded /\ v = query.target /\ pc' = "trace" /\ pending' = {}
         \/ ~ exceeded /\ v # query.target /\ pc' = "search" /\ pending' = Outgoing(v)
  /\ UNCHANGED <<costs, query, at, path>>

\* a faulty variant of Relax: the cost of the edge is taken at the departure time
RelaxStale(e) ==
  /\ pc = "search" /\ e \in pending
  /\ labels[current].cost \in Times
  /\ Update(Target[e], labels[current].cost + costs[e][query.departure], e)
  /\ pending' = pending \ {e}
  /\ UNCHANGED <<costs, query, pc, current, at, path>>

\* One iteration of the loop over the outgoing edges.
Relax(e) ==
  /\ pc = "search" /\ e \in pending
  /\ labels[current].cost \in Times
  /\ LET now == labels[current].cost
     IN  Update(Target[e], now + costs[e][now], e)
  /\ pending' = pending \ {e}
  /\ UNCHANGED <<costs, query, pc, current, at, path>>

\* The cost of an edge is asked for past the horizon: timedCosts(edge).at()
\* throws (augmented_edge_func.hh, debug build) and the call is over.
PastHorizon ==
  /\ pc = "search" /\ pending # {}
  /\ labels[current].cost \notin Times
  /\ pc' = "outOfRange"
  /\ UNCHANGED <<labels, heap, costs, query, current, pending, at, path>>

\* The heap ran empty before the target was settled.
Exhausted ==
  /\ pc = "search" /\ pending = {} /\ IsEmpty
  /\ pc' = "notFound"
  /\ UNCHANGED <<labels, heap, costs, query, current, pending, at, path>>

\* One iteration of the walk back: path.prepend and on to the edge's source.
Trace ==
  /\ pc = "trace" /\ at # query.source
  /\ LET e == labels[at].edge
     IN  /\ path' = <<e>> \o path
         /\ at' = Source[e]
  /\ UNCHANGED <<labels, heap, costs, query, pc, current, pending>>

Return ==
  /\ pc = "trace" /\ at = query.source
  /\ pc' = "found"
  /\ UNCHANGED <<labels, heap, costs, query, current, pending, at, path>>

Next ==
  \/ \E v \in Vertices : Extract(v)
  \/ \E e \in Edges : Relax(e)
  \/ PastHorizon
  \/ Exhausted
  \/ Trace
  \/ Return

\* A call is a loop of one thread: it is never suspended while it can go on.
Spec == Init /\ [][Next]_vars /\ WF_vars(Next)

-----------------------------------------------------------------------------
TypeOK ==
  /\ LabelTypeOK
  /\ costs \in CostFuncs
  /\ query \in Queries
  /\ pc \in {"search", "trace"} \cup Outcome
  /\ current \in Vertices
  /\ pending \subseteq Edges
  /\ at \in Vertices
  /\ path \in Seq(Edges)

Cost(v) == labels[v].cost

\* A label that can be part of a path: it was reached over an allowed edge from
\* a vertex settled before it, at exactly the time that edge takes from there.
Derived(v) ==
  LET e == labels[v].edge
  IN  /\ e \in query.allowed
      /\ Target[e] = v
      /\ Settled(Source[e])
      /\ Cost(Source[e]) \in Times
      /\ Cost(v) = Cost(Source[e]) + costs[e][Cost(Source[e])]

\* The labels form a tree of real journeys rooted in the source.  The walk back
\* in shortestPath relies on it: a label that kept an edge of a former, dearer
\* label would make the path disagree with the reported cost.
LabelTree ==
  \A v \in Vertices :
    ~ Unknown(v) => \/ v = query.source /\ Cost(v) = query.departure
                    \/ Derived(v)

\* Vertices are settled in the order of their arrival times: nothing that still
\* waits (or is reached later) arrives before a vertex that is settled.
SettleOrder ==
  \A u \in Vertices, v \in DOMAIN heap : Settled(u) => Cost(u) <= heap[v]

\* The loop was left before its last vertex had its edges relaxed: the target
\* was settled or the bound was exceeded.
LimitHit == bounded /\ Cost(current) > query.bound
LeftEarly == \/ pc \in {"trace", "found"}
             \/ pc = "notFound" /\ LimitHit

\* The relaxation of a settled vertex is complete: over each of its allowed
\* edges the head is labelled no later than the edge delivers.  Only edges of
\* the vertex settled last may be missing.
Closed ==
  \A e \in query.allowed :
    Settled(Source[e]) /\ ~ (Source[e] = current /\ (e \in pending \/ LeftEarly))
    => /\ ~ Unknown(Target[e])
       /\ Cost(Source[e]) \in Times
       /\ Cost(Target[e]) <= Cost(Source[e]) + costs[e][Cost(Source[e])]

\* Arrival time of a traveller that follows a sequence of edges.
Ride(p, departure) ==
  LET f[i \in 0 .. Len(p)] ==
        IF i = 0 THEN departure ELSE f[i - 1] + costs[p[i]][f[i - 1]]
  IN  f[Len(p)]

Connects(p, u, v) ==
  IF p = <<>> THEN u = v
  ELSE /\ Source[p[1]] = u /\ Target[p[Len(p)]] = v
       /\ \A i \in 1 .. Len(p) - 1 : Target[p[i]] = Source[p[i + 1]]

\* What the caller gets is a journey of the graph: the path connects the two
\* vertices, uses allowed edges only, arrives exactly when the result says and
\* no later than the bound.
PathRealisesCost ==
  pc = "found" =>
    /\ Connects(path, query.source, query.target)
    /\ \A i \in 1 .. Len(path) : path[i] \in query.allowed
    /\ Ride(path, query.departure) = Cost(query.target)
    /\ bounded => Cost(query.target) <= query.bound
=============================================================================
