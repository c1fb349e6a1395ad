----------------------- MODULE AcyclicTimeExpandedRouter -----------------------
(***************************************************************************)
(* AcyclicTimeExpandedRouter<size> (acyclic_time_expanded_router.hh, with  *)
(* large_label.hh): cheapest paths without cycles of up to `size`          *)
(* vertices.  A timed vertex has one label for every prefix, the sequence  *)
(* of the last `size` underlying vertices of a path.  A pass in reverse    *)
(* finds the least cost to an end, cycles or not; a label is dropped when  *)
(* even that cannot beat the best path known, and tried with that path.    *)
(***************************************************************************)
EXTENDS TimeExpandedRouter, FiniteSets

CONSTANT Size     \* at least 1

VARIABLES
  bounds,     (* lowerBounds[v]: a cost, and the edge out of v it comes by  *)
  labels,     (* labels[v]: a set of labels                                 *)
  at,         (* the timed vertex the loop is at                            *)
  open        (* its labels that have not been looked at                    *)

searchVars == <<bounds, labels, at, open>>

vars == <<arguments, pc, todo, pathSetVars, rivalVars, searchVars>>

\* A label; pred is the prefix of the label at the source of its edge.
label(prefix, cost, edge, pred) == [prefix |-> prefix, cost |-> cost, edge |-> edge, pred |-> pred]

sourceLabel == label(<<Root>>, 0, NoEdge, <<>>)

Init ==
  /\ RouterInit
  /\ pc = "bounds"
  /\ bounds = [v \in TimedVertices |->
                 [cost |-> IF IsEnd(v) /\ InWindow(v) THEN 0 ELSE Inf, edge |-> NoEdge]]
  /\ labels = [v \in TimedVertices |-> IF v = Start THEN {sourceLabel} ELSE {}]
  /\ at = Start
  /\ open = {}
  /\ RivalInit(Size)
-----------------------------------------------------------------------------
\* a faulty variant of Bound: the last edge wins, cheaper or not
BoundLast(v) ==
  /\ pc = "bounds"
  /\ v \in todo /\ \A w \in todo : w.time <= v.time
  /\ todo' = todo \ {v}
  /\ bounds' = [u \in TimedVertices |->
       LET e == EdgeTo(u, v)
       IN  IF /\ bounds[v].cost < Inf
              /\ e \in TimedEdges /\ Usable(e)
           THEN [cost |-> bounds[v].cost + costs[e], edge |-> e]
           ELSE bounds[u]]
  /\ UNCHANGED <<pc, labels, at, open, pathSetVars>>

\* findLowerBounds: the vertices in reverse order, each relaxing what enters it.
Bound(v) ==
  /\ pc = "bounds"
  /\ v \in todo /\ \A w \in todo : w.time <= v.time
  /\ todo' = todo \ {v}
  /\ bounds' = [u \in TimedVertices |->
       LET e == EdgeTo(u, v)
       IN  IF /\ bounds[v].cost < Inf
              /\ e \in TimedEdges /\ Usable(e)
              /\ bounds[u].cost > bounds[v].cost + costs[e]
           THEN [cost |-> bounds[v].cost + costs[e], edge |-> e]
           ELSE bounds[u]]
  /\ UNCHANGED <<pc, labels, at, open, pathSetVars>>

BoundsFound ==
  /\ pc = "bounds"
  /\ todo = {}
  /\ pc' = "search"
  /\ todo' = TimedVertices
  /\ UNCHANGED <<searchVars, pathSetVars>>
-----------------------------------------------------------------------------
\* createPath: by the predecessors back to the source.
PathTo(v, prefix) ==
  LET Labelled == UNION {{w} \X {l.prefix : l \in labels[w]} : w \in TimedVertices}
      labelAt(x) == CHOOSE l \in labels[x[1]] : l.prefix = x[2]
      path[x \in Labelled] ==
        IF labelAt(x).edge = NoEdge THEN <<>>
        ELSE Append(path[<<labelAt(x).edge.source, labelAt(x).pred>>], labelAt(x).edge)
  IN  path[<<v, prefix>>]

\* The cheapest path from v to an end.
BoundPath(v) ==
  LET path[w \in TimedVertices] ==
        IF bounds[w].edge = NoEdge THEN <<>> ELSE <<bounds[w].edge>> \o path[bounds[w].edge.target]
  IN  path[v]

Visited(p) == [i \in 1 .. Len(p) |-> p[i].target.vertex]

contains(prefix, v) == \E i \in 1 .. Len(prefix) : prefix[i] = v

\* The path p can go on from the prefix: no vertex of it is among the last
\* `size` before it.
CanExtend(prefix, p) ==
  \A i \in 1 .. Len(p) :
    ~ contains(LastOf(prefix \o SubSeq(Visited(p), 1, i - 1), Size), Visited(p)[i])

\* LabelSet::insert
Inserted(set, l) ==
  IF \E m \in set : m.prefix = l.prefix /\ m.cost <= l.cost THEN set
  ELSE {m \in set : m.prefix # l.prefix} \cup {l}

\* The labels after the edges out of the vertex of l.
Relaxed(l) ==
  [w \in TimedVertices |->
     LET e == EdgeTo(at, w)
     IN  IF e \in Outgoing(at) /\ ~ contains(l.prefix, w.vertex)
         THEN Inserted(labels[w], label(LastOf(Append(l.prefix, w.vertex), Size),
                                        l.cost + costs[e], e, l.prefix))
         ELSE labels[w]]

\* The loop comes to v, when it is done with the labels of the last vertex.
Arrive(v) ==
  /\ open = {}
  /\ Visit(v)
  /\ at' = v
  /\ open' = IF IsEnd(v) /\ ~ InWindow(v) THEN {} ELSE labels[v]
  /\ UNCHANGED <<pc, bounds, labels, pathSetVars>>

Take(l) ==
  /\ pc = "search"
  /\ l \in open
  /\ open' = open \ {l}
  /\ UNCHANGED <<pc, todo, at, bounds>>

\* A label at an end.
Close(l) ==
  /\ IsEnd(at)
  /\ Take(l)
  /\ IF l.cost < request.cutoff THEN Offer(PathTo(at, l.prefix), l.cost, request.maxNumPaths)
     ELSE UNCHANGED pathSetVars
  /\ UNCHANGED labels

\* No end can be reached, or none at less than the best path costs.
Hopeless(l) == bounds[at].cost = Inf \/ bounds[at].cost + l.cost > bestValue

Discard(l) ==
  /\ ~ IsEnd(at)
  /\ Take(l)
  /\ Hopeless(l)
  /\ UNCHANGED <<labels, pathSetVars>>

\* The path to l is offered with the cheapest path on from it, if the two fit.
OfferExtended(l) ==
  IF CanExtend(l.prefix, BoundPath(at)) /\ bounds[at].cost + l.cost < request.cutoff
  THEN Offer(PathTo(at, l.prefix) \o BoundPath(at), bounds[at].cost + l.cost, request.maxNumPaths)
  ELSE UNCHANGED pathSetVars

Expand(l) ==
  /\ ~ IsEnd(at)
  /\ Take(l)
  /\ ~ Hopeless(l)
  /\ OfferExtended(l)
  /\ labels' = Relaxed(l)

Finish ==
  /\ pc = "search"
  /\ todo = {} /\ open = {}
  /\ pc' = "done"
  /\ UNCHANGED <<todo, searchVars, pathSetVars>>

LowerBounds == (\E v \in TimedVertices : Bound(v)) \/ BoundsFound

Search ==
  /\ \/ LowerBounds
     \/ \E v \in TimedVertices : Arrive(v)
     \/ \E l \in open : Close(l) \/ Discard(l) \/ Expand(l)
     \/ Finish
  /\ UNCHANGED <<arguments, rivalVars>>

Rival == \E e \in TimedEdges : Walk(e, Size) /\ UNCHANGED searchVars

Next == Search \/ Rival

Spec == Init /\ [][Next]_vars
-----------------------------------------------------------------------------
\* The state has its types; a timed vertex has one label for a prefix, and the
\* prefix ends there (asserted at line 197).
TypeOK ==
  /\ costs \in CostFuncs /\ request \in Requests
  /\ pc \in {"bounds", "search", "done"}
  /\ todo \subseteq TimedVertices
  /\ at \in TimedVertices /\ open \subseteq labels[at]
  /\ \A v \in TimedVertices :
       /\ \A l \in labels[v] : Len(l.prefix) \in 1 .. Size /\ l.prefix[Len(l.prefix)] = v.vertex
       /\ Cardinality({l.prefix : l \in labels[v]}) = Cardinality(labels[v])
  /\ pos \in TimedVertices /\ spent \in Int

\* The paths collected, those completed by a bound among them, are different
\* paths of the network from the source back to it without cycles of up to
\* `size` vertices; they arrive in the time window, use no forbidden edge and
\* cost what is noted for them, less than the cutoff.
Answers == PathsAreAnswers(Size)

\* Nobody who walks the network without such cycles beats the best path,
\* whatever was dropped because of its bound or its prefix.
RivalBeaten == Arrived => bestValue <= spent
=============================================================================
