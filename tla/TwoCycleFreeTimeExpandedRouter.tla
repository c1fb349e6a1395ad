-------------------- MODULE TwoCycleFreeTimeExpandedRouter --------------------
(***************************************************************************)
(* TwoCycleFreeTimeExpandedRouter (two_cycle_free_time_expanded_router.cc): *)
(* cheapest paths that never return at once to the vertex they came from.  *)
(* Every timed vertex has two labels, left and right, that come from       *)
(* different underlying vertices; a path goes on from the better one, or   *)
(* from the other where the better one would turn back.                    *)
(***************************************************************************)
EXTENDS TimeExpandedRouter

VARIABLE labels       (* labels[v]: the label at each side                  *)

vars == <<arguments, pc, todo, pathSetVars, rivalVars, labels>>

Sides == {"left", "right"}

Opposite(side) == IF side = "left" THEN "right" ELSE "left"

empty == [cost |-> Inf, edge |-> NoEdge, pred |-> "left"]

isEmpty(l) == l.cost = Inf

\* The label of the source has an edge from the source to itself.
Init ==
  /\ RouterInit
  /\ pc = "search"
  /\ labels = [v \in TimedVertices |->
                 [left  |-> IF v = Start THEN [cost |-> 0, edge |-> EdgeTo(v, v), pred |-> "right"] ELSE empty,
                  right |-> empty]]
  /\ RivalInit(2)

\* The underlying vertex a label comes from.
From(l) == l.edge.source.vertex

sameUnderlyingPredecessor(l, m) == ~ isEmpty(l) /\ ~ isEmpty(m) /\ From(l) = From(m)

\* a faulty variant of Slot: with both sides taken the left one is replaced
SlotLeft(pair, other) ==
  IF sameUnderlyingPredecessor(pair.right, other) THEN "right"
  ELSE IF ~ isEmpty(pair.left) /\ isEmpty(pair.right) /\ From(pair.left) # From(other) THEN "right"
  ELSE "left"

\* LargeLabel::update: the side another label belongs to - that of a label from
\* the same vertex, else a free side, else that of the dearer label ...
Slot(pair, other) ==
  IF isEmpty(pair.left) \/ sameUnderlyingPredecessor(pair.left, other) THEN "left"
  ELSE IF isEmpty(pair.right) \/ sameUnderlyingPredecessor(pair.right, other) THEN "right"
  ELSE IF pair.left.cost > pair.right.cost THEN "left" ELSE "right"

\* ... where it is put if it is cheaper.
Updated(pair, other) ==
  LET side == Slot(pair, other)
  IN  IF isEmpty(pair[side]) \/ other.cost < pair[side].cost
      THEN [left  |-> IF side = "left" THEN other ELSE pair.left,
            right |-> IF side = "right" THEN other ELSE pair.right]
      ELSE pair

\* shouldUseLeftLabel
BestSide(pair) ==
  IF isEmpty(pair.right) \/ pair.left.cost < pair.right.cost THEN "left" ELSE "right"

\* The side a path to w goes on from.
SideTo(pair, w) ==
  IF w.vertex = From(pair[BestSide(pair)]) THEN Opposite(BestSide(pair)) ELSE BestSide(pair)

\* createPath: from the label at a side back to the source; it comes to no empty
\* label.
PathTo(v, side) ==
  LET labelAt(x) == labels[x[1]][x[2]]
      path[x \in TimedVertices \X Sides] ==
        IF x[1] = Start \/ isEmpty(labelAt(x)) THEN <<>>
        ELSE Append(path[<<labelAt(x).edge.source, labelAt(x).pred>>], labelAt(x).edge)
  IN  path[<<v, side>>]

Skip(v) ==
  /\ Visit(v)
  /\ isEmpty(labels[v].left) /\ isEmpty(labels[v].right)
  /\ UNCHANGED <<labels, pathSetVars>>

\* An end: the left label is offered, then the right one, each if it is cheaper
\* than the cutoff.  The rest of the visit is "right".
Offered(v, side) ==
  IF InWindow(v) /\ labels[v][side].cost < request.cutoff /\ labels[v][side].cost < cutoffValue
  THEN Insert(PathTo(v, side), labels[v][side].cost, request.maxNumPaths)
  ELSE UNCHANGED pathSetVars

CloseLeft(v) ==
  /\ Visit(v)
  /\ IsEnd(v)
  /\ ~ isEmpty(labels[v].left)
  /\ pc' = "right"
  /\ Offered(v, "left")
  /\ UNCHANGED labels

\* v is the vertex the loop came to last.
CloseRight(v) ==
  /\ pc = "right"
  /\ IsEnd(v) /\ v \notin todo /\ \A w \in TimedVertices : IsEnd(w) /\ w \notin todo => w.time <= v.time
  /\ pc' = "search"
  /\ Offered(v, "right")
  /\ UNCHANGED <<todo, labels>>

\* Costs stay below inf, the mark of an empty label (asserted at line 183).
Bounded(v) ==
  \A e \in Outgoing(v), side \in Sides :
    ~ isEmpty(labels[v][side]) => labels[v][side].cost + costs[e] < Inf

\* The edges out of v, each relaxed from the side its target allows.
Expand(v) ==
  /\ Visit(v)
  /\ ~ IsEnd(v)
  /\ ~ isEmpty(labels[v].left)
  /\ Bounded(v)
  /\ labels' = [w \in TimedVertices |->
       LET e    == EdgeTo(v, w)
           side == SideTo(labels[v], w)
           next == [cost |-> labels[v][side].cost + costs[e], edge |-> e, pred |-> side]
       IN  IF e \in Outgoing(v) /\ ~ isEmpty(labels[v][side]) THEN Updated(labels[w], next) ELSE labels[w]]
  /\ UNCHANGED pathSetVars

Finish ==
  /\ pc = "search"
  /\ todo = {}
  /\ pc' = "done"
  /\ UNCHANGED <<todo, labels, pathSetVars>>

Search ==
  /\ \/ \E v \in TimedVertices : (Skip(v) \/ Expand(v)) /\ UNCHANGED pc
     \/ \E v \in TimedVertices : CloseLeft(v) \/ CloseRight(v)
     \/ Finish
  /\ UNCHANGED <<arguments, rivalVars>>

Rival == \E e \in TimedEdges : Walk(e, 2) /\ UNCHANGED labels

Next == Search \/ Rival

Spec == Init /\ [][Next]_vars
-----------------------------------------------------------------------------
\* The state has its types, and isValid() of the code: the right label of a
\* vertex is not there without the left one, and comes from another vertex.
TypeOK ==
  /\ costs \in CostFuncs /\ request \in Requests
  /\ pc \in {"search", "right", "done"}
  /\ todo \subseteq TimedVertices
  /\ \A v \in TimedVertices :
       /\ isEmpty(labels[v].left) => isEmpty(labels[v].right)
       /\ ~ sameUnderlyingPredecessor(labels[v].left, labels[v].right)
  /\ pos \in TimedVertices /\ spent \in Int

\* The paths collected are different paths of the network from the source back
\* to it, none with a two-cycle, that arrive in the time window, use no
\* forbidden edge and cost what is noted for them, less than the cutoff.
Answers == PathsAreAnswers(2)

\* Two labels a vertex are enough, whatever was dropped for them: wherever the
\* rival is and whichever vertex he may go to next, a label of his vertex that
\* may go there too costs no more than he spent.
TwoLabelsSuffice ==
  pc = "done" =>
    \A q \in {v.vertex : v \in TimedVertices} :
      (\A i \in 1 .. Len(trail) : trail[i] # q) =>
        \E side \in Sides : /\ labels[pos][side].cost <= spent
                           /\ ~ isEmpty(labels[pos][side])
                           /\ From(labels[pos][side]) # q

\* Nobody who walks the network without two-cycles beats the best path.
RivalBeaten == Arrived => bestValue <= spent
=============================================================================
