---------------------- MODULE TimeExpandedRoutersProofs ----------------------
(***************************************************************************)
(* Proofs about the routers over the time-expanded graph, for every        *)
(* network, request and cost function.                                     *)
(***************************************************************************)
EXTENDS TimeExpandedRouters, SequenceTheorems, FiniteSetTheorems, WellFoundedInduction, TLAPS

\* isValid() of the code, and the types of a pair.
Valid(pair) ==
  /\ pair = [left |-> pair.left, right |-> pair.right]
  /\ pair.left.cost \in Int /\ pair.left.cost <= Inf
  /\ pair.right.cost \in Int /\ pair.right.cost <= Inf
  /\ isEmpty(pair.left) => isEmpty(pair.right)
  /\ ~ isEmpty(pair.right) => From(pair.left) # From(pair.right)

\* A label that leads on to q at cost c.
LeadsTo(l, q, c) == ~ isEmpty(l) /\ From(l) # q /\ l.cost <= c

Serves(pair, c, p) == \A q : q # p => LeadsTo(pair.left, q, c) \/ LeadsTo(pair.right, q, c)

-----------------------------------------------------------------------------
\* An updated pair is valid again.
LEMMA UpdatedIsValid ==
  ASSUME NEW pair, NEW l, Valid(pair), Inf \in Nat, l.cost \in Int, l.cost < Inf
  PROVE  Valid(Updated(pair, l))
<1>1. CASE Slot(pair, l) = "left"
  <2>1. ~ isEmpty(l)
    BY DEF isEmpty
  <2>2. ~ isEmpty(pair.right) => From(l) # From(pair.right)
    BY <1>1, <2>1 DEF Valid, Slot, sameUnderlyingPredecessor
  <2>3. Updated(pair, l) = [left |-> l, right |-> pair.right] \/ Updated(pair, l) = pair
    BY <1>1 DEF Updated
  <2> QED
    BY <2>1, <2>2, <2>3 DEF Valid
<1>2. CASE Slot(pair, l) = "right"
  <2>1. ~ isEmpty(l)
    BY DEF isEmpty
  <2>2. ~ isEmpty(pair.left) /\ From(pair.left) # From(l)
    BY <1>2, <2>1 DEF Slot, sameUnderlyingPredecessor
  <2>3. Updated(pair, l) = [left |-> pair.left, right |-> l] \/ Updated(pair, l) = pair
    BY <1>2 DEF Updated
  <2> QED
    BY <2>1, <2>2, <2>3 DEF Valid
<1> QED
  BY <1>1, <1>2 DEF Slot

\* It serves whom it served before.
LEMMA UpdatedStillServes ==
  ASSUME NEW pair, NEW l, Valid(pair), Inf \in Nat, l.cost \in Int, l.cost < Inf,
         NEW c \in Int, NEW p, Serves(pair, c, p)
  PROVE  Serves(Updated(pair, l), c, p)
<1> SUFFICES ASSUME NEW q, q # p
             PROVE  LET u == Updated(pair, l) IN LeadsTo(u.left, q, c) \/ LeadsTo(u.right, q, c)
  BY DEF Serves
<1>1. LeadsTo(pair.left, q, c) \/ LeadsTo(pair.right, q, c)
  BY DEF Serves
<1>2. From(l) # p => LeadsTo(pair.left, From(l), c) \/ LeadsTo(pair.right, From(l), c)
  BY DEF Serves
<1>3. From(pair.left) # p => LeadsTo(pair.right, From(pair.left), c)
  BY DEF Serves, LeadsTo
<1>4. From(pair.right) # p => LeadsTo(pair.left, From(pair.right), c)
  BY DEF Serves, LeadsTo
<1>5. CASE Slot(pair, l) = "left"
  BY <1>1, <1>2, <1>3, <1>4, <1>5 DEF Valid, Updated, Slot, isEmpty, sameUnderlyingPredecessor, LeadsTo
<1>6. CASE Slot(pair, l) = "right"
  BY <1>1, <1>2, <1>3, <1>4, <1>6 DEF Valid, Updated, Slot, isEmpty, sameUnderlyingPredecessor, LeadsTo
<1> QED
  BY <1>5, <1>6 DEF Slot

\* It serves the traveller of the label that came, whether or not it was kept.
LEMMA UpdatedServes ==
  ASSUME NEW pair, NEW l, Valid(pair), Inf \in Nat, l.cost \in Int, l.cost < Inf
  PROVE  Serves(Updated(pair, l), l.cost, From(l))
<1> SUFFICES ASSUME NEW q, q # From(l)
             PROVE  LET u == Updated(pair, l) IN LeadsTo(u.left, q, l.cost) \/ LeadsTo(u.right, q, l.cost)
  BY DEF Serves
<1>1. CASE Slot(pair, l) = "left"
  BY <1>1 DEF Valid, Updated, Slot, isEmpty, sameUnderlyingPredecessor, LeadsTo
<1>2. CASE Slot(pair, l) = "right"
  BY <1>2 DEF Valid, Updated, Slot, isEmpty, sameUnderlyingPredecessor, LeadsTo
<1> QED
  BY <1>1, <1>2 DEF Slot

\* A pair that serves a traveller lets him on, to any vertex but the one he came
\* from, at a side that costs no more than he spent.
LEMMA ServedGoOn ==
  ASSUME NEW pair, NEW w, Valid(pair), Inf \in Nat, NEW c \in Int, NEW p, Serves(pair, c, p), w.vertex # p
  PROVE  LET l == pair[SideTo(pair, w)] IN ~ isEmpty(l) /\ l.cost <= c
<1>1. LeadsTo(pair.left, w.vertex, c) \/ LeadsTo(pair.right, w.vertex, c)
  BY DEF Serves
<1>2. CASE BestSide(pair) = "left"
  BY <1>1, <1>2 DEF Valid, SideTo, BestSide, Opposite, LeadsTo, isEmpty
<1>3. CASE BestSide(pair) = "right"
  BY <1>1, <1>3 DEF Valid, SideTo, BestSide, Opposite, LeadsTo, isEmpty
<1> QED
  BY <1>2, <1>3 DEF BestSide

\* Who is served at a cost is served at a greater one.
LEMMA ServesMore ==
  ASSUME NEW pair, Valid(pair), NEW c \in Int, NEW d \in Int, c <= d, NEW p, Serves(pair, c, p)
  PROVE  Serves(pair, d, p)
  BY DEF Serves, LeadsTo, Valid

\* The label at the side a path goes on from has a cost.
LEMMA SideHasCost ==
  ASSUME NEW pair, NEW w, Valid(pair)
  PROVE  pair[SideTo(pair, w)].cost \in Int /\ SideTo(pair, w) \in Sides
<1>1. SideTo(pair, w) = "left" \/ SideTo(pair, w) = "right"
  BY DEF SideTo, BestSide, Opposite
<1> QED
  BY <1>1 DEF Valid, Sides

\* The trail after a step: the vertex left, and the vertex entered.
LEMMA TrailAfter ==
  ASSUME NEW U, NEW t \in Seq(U), Len(t) \in {1, 2}, NEW w \in U
  PROVE  /\ LastOf(Append(t, w), 2) \in Seq(U) /\ Len(LastOf(Append(t, w), 2)) = 2
         /\ LastOf(Append(t, w), 2)[1] = t[Len(t)] /\ LastOf(Append(t, w), 2)[2] = w
<1> DEFINE a == Append(t, w)
           u == LastOf(a, 2)
<1>1. a \in Seq(U) /\ Len(a) = Len(t) + 1 /\ a[Len(t)] = t[Len(t)] /\ a[Len(t) + 1] = w
  <2>1. /\ Append(t, w) \in Seq(U) /\ Len(Append(t, w)) = Len(t) + 1
        /\ \A i \in 1 .. Len(t) : Append(t, w)[i] = t[i]
        /\ Append(t, w)[Len(t) + 1] = w
    BY AppendProperties
  <2>2. Len(t) \in 1 .. Len(t)
    <3>1. CASE Len(t) = 1
      BY <3>1
    <3>2. CASE Len(t) = 2
      BY <3>2
    <3> QED
      BY <3>1, <3>2
  <2> QED
    BY <2>1, <2>2
<1>2. u = SubSeq(a, Len(t), Len(t) + 1)
  <2>1. CASE Len(t) = 1
    BY <1>1, <2>1 DEF LastOf
  <2>2. CASE Len(t) = 2
    BY <1>1, <2>2 DEF LastOf
  <2> QED
    BY <2>1, <2>2
<1>3. u \in Seq(U) /\ Len(u) = 2 /\ u[1] = a[Len(t)] /\ u[2] = a[Len(t) + 1]
  <2> HIDE DEF a, u
  <2>1. \A i \in Len(t) .. Len(t) + 1 : i \in 1 .. Len(a)
    BY <1>1
  <2>2. /\ SubSeq(a, Len(t), Len(t) + 1) \in Seq(U)
        /\ Len(SubSeq(a, Len(t), Len(t) + 1)) = 2
        /\ \A i \in 1 .. 2 : SubSeq(a, Len(t), Len(t) + 1)[i] = a[Len(t) + i - 1]
    BY <1>1, <2>1, SubSeqProperties
  <2> QED
    BY <1>1, <1>2, <2>2
<1> QED
  BY <1>1, <1>3

-----------------------------------------------------------------------------
Vertices == {v.vertex : v \in TimedVertices}

Types ==
  /\ costs \in CostFuncs /\ request \in Requests
  /\ pc \in {"search", "right", "done"}
  /\ todo \subseteq TimedVertices
  /\ DOMAIN labels = TimedVertices
  /\ \A v \in TimedVertices : Valid(labels[v])
  /\ pos \in TimedVertices /\ spent \in Int
  /\ trail \in Seq(Vertices) /\ Len(trail) \in {1, 2} /\ trail[Len(trail)] = pos.vertex

\* What has been visited is no later than what has not.
InOrder == \A v \in TimedVertices \ todo : \A w \in todo : v.time <= w.time

\* Over every edge out of a visited vertex, the pair at its end serves him who
\* comes from the side that leads there.
Settled ==
  \A e \in TimedEdges :
    LET l == labels[e.source][SideTo(labels[e.source], e.target)]
    IN  Usable(e) /\ e.source \notin todo /\ ~ isEmpty(l)
        => Serves(labels[e.target], l.cost + costs[e], e.source.vertex)

Finished == pc = "done" => todo = {}

IInv ==
  /\ Types /\ InOrder /\ Settled /\ Finished
  /\ Serves(labels[Start], 0, Root)
  /\ Serves(labels[pos], spent, trail[1])

\* The costs and the fields of the arguments have the types of the assumptions.
LEMMA Arguments ==
  ASSUME costs \in CostFuncs
  PROVE  /\ Inf \in Nat \ {0}
         /\ \A e \in TimedEdges : costs[e] \in Int
<1>1. costs \in [TimedEdges -> Int]
  BY RequestAssumption, InfAssumption DEF AreRequests
<1> QED
  BY <1>1, RequestAssumption, InfAssumption DEF AreRequests

\* What the network assumption says of an edge.
LEMMA Edges ==
  ASSUME NEW e \in TimedEdges
  PROVE  /\ e = [source |-> e.source, target |-> e.target]
         /\ e.source \in TimedVertices /\ e.target \in TimedVertices
         /\ e.source.time \in Nat /\ e.target.time \in Nat
         /\ e.source.time < e.target.time
         /\ e.source.vertex # e.target.vertex
         /\ ~ IsEnd(e.source)
  BY NetworkAssumption DEF IsNetwork

\* The invariant holds at the beginning, when nothing has been visited.
LEMMA InitInvariant == Init => IInv
<1> SUFFICES ASSUME Init PROVE IInv
  OBVIOUS
<1>1. Start \in TimedVertices /\ Inf \in Nat \ {0} /\ Start.vertex = Root
  BY NetworkAssumption, RequestAssumption, InfAssumption DEF IsNetwork, AreRequests, Start
<1>2. /\ DOMAIN labels = TimedVertices
      /\ \A v \in TimedVertices :
           labels[v] = [left  |-> IF v = Start THEN [cost |-> 0, edge |-> EdgeTo(v, v), pred |-> "right"]
                                  ELSE empty,
                        right |-> empty]
  BY DEF Init
<1>3. \A v \in TimedVertices : Valid(labels[v])
  BY <1>1, <1>2 DEF Valid, isEmpty, empty
<1>5. Serves(labels[Start], 0, Root)
  <2>1. From(labels[Start].left) = Root /\ labels[Start].left.cost = 0
    BY <1>1, <1>2 DEF From, EdgeTo
  <2> QED
    BY <1>1, <2>1 DEF Serves, LeadsTo, isEmpty
<1>6. Root \in Vertices
  BY <1>1 DEF Vertices
<1>7. trail \in Seq(Vertices) /\ Len(trail) = 1 /\ trail[1] = Root
  <2>1. trail = SubSeq(<<Root>>, 1, 1)
    BY DEF Init, RivalInit, LastOf
  <2>2. \A i \in 1 .. 1 : <<Root>>[i] \in Vertices
    BY <1>6
  <2>3. /\ SubSeq(<<Root>>, 1, 1) \in Seq(Vertices) /\ Len(SubSeq(<<Root>>, 1, 1)) = 1
        /\ \A i \in 1 .. 1 : SubSeq(<<Root>>, 1, 1)[i] = <<Root>>[1 + i - 1]
    BY <2>2, SubSeqProperties
  <2> QED
    BY <2>1, <2>3
<1>8. Types
  BY <1>1, <1>2, <1>3, <1>7 DEF Types, Init, RouterInit, RivalInit
<1>9. InOrder /\ Settled
  BY Edges DEF InOrder, Settled, Init, RouterInit
<1>10. Finished /\ pos = Start /\ spent = 0
  BY DEF Finished, Init, RivalInit
<1> QED
  BY <1>1, <1>5, <1>7, <1>8, <1>9, <1>10 DEF IInv

\* A visit that leaves the labels alone, of a vertex without edges or labels.
LEMMA IdleInvariant ==
  ASSUME IInv, NEW v \in TimedVertices, Visit(v), IsEnd(v) \/ (isEmpty(labels[v].left) /\ isEmpty(labels[v].right)),
         pc' \in {"search", "right"}, UNCHANGED <<labels, arguments, rivalVars>>
  PROVE  IInv'
<1>1. \A w \in TimedVertices : w.time \in Nat
  BY NetworkAssumption DEF IsNetwork
<1>2. /\ UNCHANGED <<labels, costs, request, pos, trail, spent>>
      /\ todo' = todo \ {v} /\ pc = "search" /\ v \in todo /\ \A w \in todo : v.time <= w.time
  BY DEF Visit, Due, arguments, rivalVars
<1>3. Types'
  BY <1>2 DEF IInv, Types, Valid
<1>4. InOrder'
  BY <1>1, <1>2 DEF IInv, Types, InOrder
<1>5. Settled'
  <2> SUFFICES ASSUME NEW e \in TimedEdges, Usable(e), e.source \notin todo',
                      ~ isEmpty(labels[e.source][SideTo(labels[e.source], e.target)])
               PROVE  Serves(labels[e.target],
                             labels[e.source][SideTo(labels[e.source], e.target)].cost + costs[e],
                             e.source.vertex)
    BY <1>2 DEF Settled, Usable
  <2>1. SideTo(labels[e.source], e.target) \in Sides
    BY Edges, SideHasCost DEF IInv, Types
  <2>2. e.source # v
    BY <2>1, Edges DEF Sides
  <2> QED
    BY <2>2, <1>2 DEF IInv, Settled
<1>6. Finished'
  BY <1>2 DEF IInv, Finished
<1> QED
  BY <1>2, <1>3, <1>4, <1>5, <1>6 DEF IInv

\* The right label of an end is offered.
LEMMA CloseRightInvariant ==
  ASSUME IInv, NEW v \in TimedVertices, CloseRight(v), UNCHANGED <<arguments, rivalVars>>
  PROVE  IInv'
<1>1. /\ UNCHANGED <<labels, costs, request, pos, trail, spent, todo>>
      /\ pc = "right" /\ pc' = "search"
  BY DEF CloseRight, arguments, rivalVars
<1> QED
  BY <1>1 DEF IInv, Types, InOrder, Settled, Finished, Usable

\* The visit of a vertex that is expanded.
LEMMA ExpandInvariant ==
  ASSUME IInv, NEW v \in TimedVertices, Expand(v), UNCHANGED <<pc, arguments, rivalVars>>
  PROVE  IInv'
<1> DEFINE side(w) == SideTo(labels[v], w)
           next(w) == [cost |-> labels[v][side(w)].cost + costs[EdgeTo(v, w)],
                       edge |-> EdgeTo(v, w), pred |-> side(w)]
           reached(w) == EdgeTo(v, w) \in Outgoing(v) /\ ~ isEmpty(labels[v][side(w)])
<1>1. /\ UNCHANGED <<costs, request, pos, trail, spent, pc>>
      /\ todo' = todo \ {v} /\ pc = "search" /\ v \in todo /\ Bounded(v)
      /\ \A w \in todo : v.time <= w.time
  BY DEF Expand, Visit, Due, arguments, rivalVars
<1>2. labels' = [w \in TimedVertices |-> IF reached(w) THEN Updated(labels[w], next(w)) ELSE labels[w]]
  BY DEF Expand
<1>3. /\ Inf \in Nat /\ \A e \in TimedEdges : costs[e] \in Int
      /\ \A w \in TimedVertices : w.time \in Nat /\ Valid(labels[w])
  BY Arguments, NetworkAssumption DEF IsNetwork, IInv, Types
<1>4. \A w \in TimedVertices : reached(w) =>
        /\ EdgeTo(v, w) \in TimedEdges
        /\ next(w).cost \in Int /\ next(w).cost < Inf
        /\ From(next(w)) = v.vertex
  <2> SUFFICES ASSUME NEW w \in TimedVertices, reached(w)
               PROVE  /\ EdgeTo(v, w) \in TimedEdges
                      /\ next(w).cost \in Int /\ next(w).cost < Inf
                      /\ From(next(w)) = v.vertex
    OBVIOUS
  <2>1. EdgeTo(v, w) \in Outgoing(v) /\ EdgeTo(v, w) \in TimedEdges /\ ~ isEmpty(labels[v][side(w)])
    BY DEF Outgoing
  <2>2. labels[v][side(w)].cost \in Int /\ side(w) \in Sides
    BY <1>3, SideHasCost
  <2>3. labels[v][side(w)].cost + costs[EdgeTo(v, w)] < Inf
    BY <2>1, <2>2, <1>1 DEF Bounded
  <2>4. From(next(w)) = v.vertex
    BY DEF From, EdgeTo
  <2> QED
    BY <2>1, <2>2, <2>3, <2>4, <1>3
<1> HIDE DEF next, reached
<1>5. \A w \in TimedVertices : Valid(labels'[w])
  BY <1>2, <1>3, <1>4, UpdatedIsValid
<1>6. \A w \in TimedVertices, c \in Int : \A p : Serves(labels[w], c, p) => Serves(labels'[w], c, p)
  BY <1>2, <1>3, <1>4, UpdatedStillServes
<1>7. \A w \in TimedVertices : w \notin todo \/ w = v => labels'[w] = labels[w]
  <2> SUFFICES ASSUME NEW w \in TimedVertices, w \notin todo \/ w = v, EdgeTo(v, w) \in TimedEdges
               PROVE  FALSE
    BY <1>2, <1>4
  <2>1. v.time < w.time
    BY Edges DEF EdgeTo
  <2>2. w \notin todo /\ w.time <= v.time
    BY <2>1, <1>1, <1>3 DEF IInv, InOrder
  <2> QED
    BY <2>1, <2>2, <1>3
<1>8. Types'
  BY <1>1, <1>2, <1>5 DEF IInv, Types
<1>9. InOrder'
  BY <1>1, <1>3 DEF IInv, Types, InOrder
<1>10. Settled'
  <2> SUFFICES ASSUME NEW e \in TimedEdges, Usable(e), e.source \notin todo',
                      ~ isEmpty(labels'[e.source][SideTo(labels'[e.source], e.target)])
               PROVE  Serves(labels'[e.target],
                             labels'[e.source][SideTo(labels'[e.source], e.target)].cost + costs[e],
                             e.source.vertex)
    BY <1>1 DEF Settled, Usable
  <2>1. e.source \in TimedVertices /\ e.target \in TimedVertices /\ costs[e] \in Int
    BY Edges, <1>3
  <2>2. labels'[e.source] = labels[e.source]
    BY <2>1, <1>1, <1>7
  <2>3. labels[e.source][SideTo(labels[e.source], e.target)].cost \in Int
    BY <2>1, <1>3, SideHasCost
  <2>4. CASE e.source = v
    <3>1. EdgeTo(v, e.target) = e /\ e \in Outgoing(v)
      BY <2>4, Edges DEF EdgeTo, Outgoing
    <3>2. reached(e.target)
      BY <3>1, <2>2, <2>4 DEF reached
    <3>3. /\ labels'[e.target] = Updated(labels[e.target], next(e.target))
          /\ next(e.target).cost = labels[v][SideTo(labels[v], e.target)].cost + costs[e]
      BY <3>1, <3>2, <2>1, <1>2 DEF next
    <3> QED
      BY <3>2, <3>3, <2>1, <2>2, <2>4, <1>3, <1>4, UpdatedServes
  <2>5. CASE e.source # v
    <3>1. Serves(labels[e.target],
                 labels[e.source][SideTo(labels[e.source], e.target)].cost + costs[e], e.source.vertex)
      BY <2>2, <2>5, <1>1 DEF IInv, Settled
    <3>2. labels[e.source][SideTo(labels[e.source], e.target)].cost + costs[e] \in Int
      BY <2>1, <2>3
    <3> QED
      BY <3>1, <3>2, <2>1, <2>2, <1>6
  <2> QED
    BY <2>4, <2>5
<1>11. Finished'
  BY <1>1 DEF IInv, Finished
<1>12. Serves(labels'[Start], 0, Root) /\ Serves(labels'[pos], spent, trail[1])
  <2>1. Start \in TimedVertices /\ pos \in TimedVertices /\ spent \in Int
    BY NetworkAssumption DEF IsNetwork, IInv, Types
  <2>2. Serves(labels'[Start], 0, Root)
    BY <2>1, <1>6 DEF IInv
  <2>3. Serves(labels'[pos], spent, trail[1])
    BY <2>1, <1>6 DEF IInv
  <2> QED
    BY <2>2, <2>3
<1> QED
  BY <1>1, <1>8, <1>9, <1>10, <1>11, <1>12 DEF IInv

\* The end of the loop.
LEMMA FinishInvariant ==
  ASSUME IInv, Finish, UNCHANGED <<arguments, rivalVars>>
  PROVE  IInv'
<1>1. /\ UNCHANGED <<labels, costs, request, pos, trail, spent, todo>>
      /\ todo = {} /\ pc' = "done"
  BY DEF Finish, arguments, rivalVars
<1> QED
  BY <1>1 DEF IInv, Types, InOrder, Settled, Finished, Usable

\* The rival goes on: he is served where he is, so a label goes on as well, and
\* what it costs there serves him too.
LEMMA RivalInvariant ==
  ASSUME IInv, Rival
  PROVE  IInv'
<1>1. PICK e \in TimedEdges : Walk(e, 2) /\ UNCHANGED labels
  BY DEF Rival
<1>2. /\ pc = "done" /\ e.source = pos /\ Usable(e) /\ pos' = e.target /\ spent' = spent + costs[e]
      /\ trail' = LastOf(Append(trail, e.target.vertex), 2)
      /\ \A i \in 1 .. Len(trail) : trail[i] # e.target.vertex
      /\ UNCHANGED <<labels, costs, request, pc, todo>>
  BY <1>1 DEF Walk, Outgoing, arguments
<1>3. /\ costs[e] \in Int /\ Inf \in Nat /\ e.target \in TimedVertices /\ spent \in Int
      /\ Valid(labels[pos]) /\ Valid(labels[e.target])
  BY Arguments, Edges DEF IInv, Types
<1>4. /\ trail' \in Seq(Vertices) /\ Len(trail') = 2
      /\ trail'[1] = pos.vertex /\ trail'[2] = e.target.vertex
  <2>1. trail \in Seq(Vertices) /\ Len(trail) \in {1, 2} /\ trail[Len(trail)] = pos.vertex
        /\ e.target.vertex \in Vertices
    BY <1>3 DEF IInv, Types, Vertices
  <2> DEFINE u == LastOf(Append(trail, e.target.vertex), 2)
  <2>2. u \in Seq(Vertices) /\ Len(u) = 2 /\ u[1] = trail[Len(trail)] /\ u[2] = e.target.vertex
    BY <2>1, TrailAfter
  <2> QED
    BY <2>1, <2>2, <1>2
<1>5. Types'
  BY <1>2, <1>3, <1>4 DEF IInv, Types
<1>6. e.target.vertex # trail[1]
  BY <1>2 DEF IInv, Types
<1> DEFINE l == labels[pos][SideTo(labels[pos], e.target)]
<1>7. ~ isEmpty(l) /\ l.cost <= spent /\ l.cost \in Int
  BY <1>3, <1>6, ServedGoOn, SideHasCost DEF IInv
<1>8. Serves(labels[e.target], l.cost + costs[e], pos.vertex)
  BY <1>2, <1>7 DEF IInv, Settled, Finished
<1>9. Serves(labels[e.target], spent + costs[e], pos.vertex)
  <2>1. l.cost + costs[e] \in Int /\ spent + costs[e] \in Int /\ l.cost + costs[e] <= spent + costs[e]
    BY <1>3, <1>7
  <2> QED
    BY <2>1, <1>3, <1>8, ServesMore
<1> QED
  BY <1>2, <1>4, <1>5, <1>9 DEF IInv, InOrder, Settled, Finished, Usable

\* Every step keeps the invariant.
LEMMA NextInvariant == IInv /\ [Next]_vars => IInv'
<1> SUFFICES ASSUME IInv, [Next]_vars PROVE IInv'
  OBVIOUS
<1>1. ASSUME NEW v \in TimedVertices, Skip(v), UNCHANGED <<pc, arguments, rivalVars>> PROVE IInv'
  BY <1>1, IdleInvariant DEF Skip, Visit
<1>2. ASSUME NEW v \in TimedVertices, CloseLeft(v), UNCHANGED <<arguments, rivalVars>> PROVE IInv'
  BY <1>2, IdleInvariant DEF CloseLeft
<1>3. CASE Search
  BY <1>1, <1>2, <1>3, CloseRightInvariant, ExpandInvariant, FinishInvariant DEF Search
<1>4. CASE Rival
  BY <1>4, RivalInvariant
<1>5. CASE UNCHANGED vars
  BY <1>5 DEF vars, arguments, rivalVars, IInv, Types, InOrder, Settled, Finished, Usable
<1> QED
  BY <1>3, <1>4, <1>5 DEF Next

-----------------------------------------------------------------------------
SimpleTypes ==
  /\ costs \in Simple.costs /\ request \in Simple.requests
  /\ otherPc \in {"search", "done"}
  /\ todo \subseteq Simple.vertices
  /\ \A v \in Simple.vertices : simpleLabels[v].cost \in Int
  /\ DOMAIN simpleLabels = Simple.vertices
  /\ minCost \in Int
  /\ pos \in Simple.vertices /\ spent \in Int

\* What has been visited is no later than what has not.
SimpleInOrder == \A v \in Simple.vertices \ todo : \A w \in todo : v.time <= w.time

\* No edge out of a vertex that has been visited lowers a label.
SimpleSettled ==
  \A e \in Simple.edges :
    /\ S!Usable(e) /\ e.source \notin todo /\ simpleLabels[e.source].cost < Inf
    => simpleLabels[e.target].cost <= simpleLabels[e.source].cost + costs[e]

\* The ends that have been visited and are in order were noted.
Noted ==
  \A v \in Simple.vertices \ todo :
    /\ S!IsEnd(v) /\ S!InWindow(v) /\ simpleLabels[v].cost < request.cutoff
    => minCost <= simpleLabels[v].cost

\* What is reported when the loop is through.
Reported == otherPc = "done" => todo = {} /\ (minCost < request.cutoff => answer = minCost)

\* The rival never spends less than the label of the vertex he is at.
NotBelow == simpleLabels[pos].cost <= spent /\ spent < Inf

SimpleInv == SimpleTypes /\ SimpleInOrder /\ SimpleSettled /\ Noted /\ Reported /\ NotBelow /\ simpleLabels[S!Start].cost <= 0

-----------------------------------------------------------------------------
\* The costs and the fields of the arguments have the types of the assumptions.
LEMMA SimpleArguments ==
  ASSUME SimpleTypes
  PROVE  /\ Inf \in Nat \ {0}
         /\ \A e \in Simple.edges : costs[e] \in Int
         /\ request.cutoff \in Int /\ request.cutoff <= Inf
         /\ request.lower \in Nat /\ request.upper \in Nat
<1>1. costs \in [Simple.edges -> Int]
  BY NetworksAssumption, InfAssumption DEF IsNetwork, AreRequests, SimpleTypes
<1> QED
  BY <1>1, NetworksAssumption, InfAssumption DEF IsNetwork, AreRequests, SimpleTypes

\* What the network assumption says of an edge.
LEMMA SimpleEdges ==
  ASSUME NEW e \in Simple.edges
  PROVE  /\ e = [source |-> e.source, target |-> e.target]
         /\ e.source \in Simple.vertices /\ e.target \in Simple.vertices
         /\ e.source.time \in Nat /\ e.target.time \in Nat
         /\ e.source.time < e.target.time
         /\ ~ S!IsEnd(e.source)
  BY NetworksAssumption DEF IsNetwork, IsEnd, S!IsEnd

\* The invariant holds at the beginning, when nothing has been visited.
LEMMA SimpleInitInvariant == S!Init => SimpleInv
<1> SUFFICES ASSUME S!Init PROVE SimpleInv
  OBVIOUS
<1> USE DEF S!Init, S!RouterInit, S!RivalInit
<1>1. S!Start \in Simple.vertices /\ Inf \in Nat \ {0}
  BY NetworksAssumption, InfAssumption DEF IsNetwork, Start, S!Start
<1>2. SimpleTypes
  <2>1. \A v \in Simple.vertices : simpleLabels[v].cost \in {0, Inf}
    OBVIOUS
  <2>2. DOMAIN simpleLabels = Simple.vertices /\ minCost \in Int /\ pos \in Simple.vertices /\ spent \in Int
    BY <1>1
  <2>3. costs \in Simple.costs /\ request \in Simple.requests /\ otherPc \in {"search", "done"} /\ todo \subseteq Simple.vertices
    OBVIOUS
  <2> QED
    BY <1>1, <2>1, <2>2, <2>3 DEF SimpleTypes
<1>3. SimpleInOrder /\ SimpleSettled /\ Noted
  BY SimpleEdges DEF SimpleInOrder, SimpleSettled, Noted
<1>4. Reported /\ NotBelow /\ simpleLabels[S!Start].cost <= 0
  BY <1>1 DEF Reported, NotBelow
<1> QED
  BY <1>2, <1>3, <1>4 DEF SimpleInv

\* A step of the loop that visits v keeps the order.
LEMMA SimpleVisitKeepsOrder ==
  ASSUME SimpleInv, NEW v \in Simple.vertices, S!Visit(v)
  PROVE  SimpleInOrder' /\ todo' \subseteq Simple.vertices
<1>1. \A w \in Simple.vertices : w.time \in Nat
  BY NetworksAssumption, InfAssumption DEF IsNetwork, AreRequests
<1> QED
  BY <1>1 DEF SimpleInv, SimpleTypes, SimpleInOrder, S!Visit, S!Due

\* Visiting a vertex without a label keeps the invariant.
LEMMA SimpleSkipInvariant ==
  ASSUME SimpleInv, NEW v \in Simple.vertices, S!Skip(v), UNCHANGED <<otherPc, answer, S!arguments, S!rivalVars>>
  PROVE  SimpleInv'
<1>1. SimpleInOrder' /\ todo' \subseteq Simple.vertices
  BY SimpleVisitKeepsOrder DEF S!Skip
<1> USE DEF S!Skip, S!Visit, SimpleInv, S!arguments, S!rivalVars
<1>2. SimpleTypes'
  BY <1>1 DEF SimpleTypes
<1>3. SimpleSettled'
  <2>1. simpleLabels[v].cost = Inf /\ todo' = todo \ {v} /\ UNCHANGED <<simpleLabels, costs, request>>
    OBVIOUS
  <2>2. \A e \in Simple.edges : e.source \in Simple.vertices
    BY SimpleEdges
  <2> QED
    BY <2>1, <2>2, SimpleArguments DEF SimpleSettled, S!Usable
<1>4. Noted'
  BY SimpleArguments DEF Noted, S!InWindow, SimpleTypes
<1>5. Reported' /\ NotBelow' /\ (simpleLabels[S!Start].cost <= 0)'
  BY DEF Reported, NotBelow
<1> QED
  BY <1>1, <1>2, <1>3, <1>4, <1>5

\* So does closing a path: the least cost covers the end visited.
LEMMA SimpleCloseInvariant ==
  ASSUME SimpleInv, NEW v \in Simple.vertices, S!Close(v), UNCHANGED <<otherPc, answer, S!arguments, S!rivalVars>>
  PROVE  SimpleInv'
<1>1. SimpleInOrder' /\ todo' \subseteq Simple.vertices
  BY SimpleVisitKeepsOrder DEF S!Close
<1>2. minCost' \in Int /\ minCost' <= minCost
      /\ (S!InWindow(v) /\ simpleLabels[v].cost < request.cutoff => minCost' <= simpleLabels[v].cost)
  BY DEF S!Close, SimpleInv, SimpleTypes
<1> USE DEF S!Visit, SimpleInv, S!arguments, S!rivalVars
<1>3. /\ UNCHANGED <<simpleLabels, costs, request, pos, trail, spent, otherPc, answer>>
      /\ todo' = todo \ {v} /\ otherPc = "search" /\ S!IsEnd(v)
  BY DEF S!Close
<1>4. SimpleTypes'
  BY <1>1, <1>2, <1>3 DEF SimpleTypes
<1>5. SimpleSettled'
  BY <1>3, SimpleEdges DEF SimpleSettled, S!Usable
<1>6. Noted'
  BY <1>2, <1>3 DEF Noted, S!InWindow, SimpleTypes
<1>7. Reported' /\ NotBelow' /\ (simpleLabels[S!Start].cost <= 0)'
  BY <1>3 DEF Reported, NotBelow
<1> QED
  BY <1>1, <1>4, <1>5, <1>6, <1>7

\* Relaxing the edges out of v settles v; labels only go down, and those of the
\* vertices visited before stay, for v is not before any of them.
LEMMA SimpleExpandInvariant ==
  ASSUME SimpleInv, NEW v \in Simple.vertices, S!Expand(v), UNCHANGED <<otherPc, answer, S!arguments, S!rivalVars>>
  PROVE  SimpleInv'
<1>1. SimpleInOrder' /\ todo' \subseteq Simple.vertices
  BY SimpleVisitKeepsOrder DEF S!Expand
<1>2. /\ UNCHANGED <<costs, request, pos, trail, spent, otherPc, answer, minCost>>
      /\ todo' = todo \ {v} /\ otherPc = "search" /\ ~ S!IsEnd(v) /\ v \in todo
      /\ simpleLabels[v].cost < Inf /\ simpleLabels' = S!Relaxed(v)
      /\ \A w \in todo : v.time <= w.time
  BY DEF S!Expand, S!Visit, S!Due, S!arguments, S!rivalVars
<1>3. /\ \A e \in Simple.edges : costs[e] \in Int
      /\ Inf \in Nat \ {0} /\ SimpleTypes
      /\ \A w \in Simple.vertices : w.time \in Nat
  BY SimpleArguments, NetworksAssumption, InfAssumption DEF IsNetwork, AreRequests, SimpleInv
<1>4. \A w \in Simple.vertices : simpleLabels'[w].cost \in Int /\ simpleLabels'[w].cost <= simpleLabels[w].cost
  BY <1>2, <1>3 DEF S!Relaxed, S!Outgoing, SimpleTypes
<1>5. DOMAIN simpleLabels' = Simple.vertices
  BY <1>2 DEF S!Relaxed
<1>6. \A w \in Simple.vertices : w \notin todo \/ w = v => simpleLabels'[w] = simpleLabels[w]
  <2> SUFFICES ASSUME NEW w \in Simple.vertices, w \notin todo \/ w = v,
                      S!EdgeTo(v, w) \in Simple.edges
               PROVE  FALSE
    BY <1>2 DEF S!Relaxed, S!Outgoing
  <2>1. v.time < w.time
    BY SimpleEdges DEF S!EdgeTo
  <2>2. w \notin todo /\ w.time <= v.time
    BY <2>1, <1>2, <1>3 DEF SimpleInv, SimpleInOrder
  <2> QED
    BY <2>1, <2>2, <1>3
<1>7. SimpleTypes'
  BY <1>1, <1>2, <1>3, <1>4, <1>5 DEF SimpleTypes
<1>8. SimpleSettled'
  <2> SUFFICES ASSUME NEW e \in Simple.edges, S!Usable(e), e.source \notin todo',
                      simpleLabels'[e.source].cost < Inf
               PROVE  simpleLabels'[e.target].cost <= simpleLabels'[e.source].cost + costs[e]
    BY <1>2 DEF SimpleSettled, S!Usable
  <2>1. e.source \in Simple.vertices /\ e.target \in Simple.vertices /\ costs[e] \in Int
    BY SimpleEdges, <1>3
  <2>2. simpleLabels'[e.source] = simpleLabels[e.source]
    BY <2>1, <1>2, <1>6
  <2>3. CASE e.source = v
    <3>1. S!EdgeTo(v, e.target) = e /\ e \in S!Outgoing(v)
      BY <2>3, SimpleEdges DEF S!EdgeTo, S!Outgoing
    <3> QED
      BY <3>1, <2>1, <2>2, <2>3, <1>2, <1>3 DEF S!Relaxed, SimpleTypes
  <2>4. CASE e.source # v
    <3>1. simpleLabels[e.target].cost <= simpleLabels[e.source].cost + costs[e]
      BY <2>1, <2>2, <2>4, <1>2 DEF SimpleInv, SimpleSettled
    <3> QED
      BY <3>1, <2>1, <2>2, <1>3, <1>4 DEF SimpleTypes
  <2> QED
    BY <2>3, <2>4
<1>9. Noted'
  <2> SUFFICES ASSUME NEW w \in Simple.vertices \ todo', S!IsEnd(w), S!InWindow(w),
                      simpleLabels'[w].cost < request.cutoff
               PROVE  minCost <= simpleLabels'[w].cost
    BY <1>2 DEF Noted, S!InWindow
  <2>1. w # v /\ simpleLabels'[w] = simpleLabels[w]
    BY <1>2, <1>6
  <2> QED
    BY <2>1, <1>2 DEF SimpleInv, Noted
<1>10. Reported'
  BY <1>2 DEF SimpleInv, Reported
<1>11. NotBelow' /\ (simpleLabels[S!Start].cost <= 0)'
  BY <1>2, <1>3, <1>4, NetworksAssumption DEF IsNetwork, Start, S!Start, SimpleInv, NotBelow, SimpleTypes
<1> QED
  BY <1>1, <1>7, <1>8, <1>9, <1>10, <1>11 DEF SimpleInv

\* The end of the loop.
LEMMA SimpleFinishInvariant ==
  ASSUME SimpleInv, S!Finish, UNCHANGED <<S!arguments, S!rivalVars>>
  PROVE  SimpleInv'
  BY DEF SimpleInv, S!Finish, S!arguments, S!rivalVars, SimpleTypes, SimpleInOrder, SimpleSettled, Noted, Reported,
         NotBelow, S!Usable, S!InWindow

\* A step of the rival, over an edge that lowers no label.
LEMMA SimpleRivalInvariant ==
  ASSUME SimpleInv, S!Rival
  PROVE  SimpleInv'
<1>1. PICK e \in Simple.edges : S!Walk(e, 0) /\ UNCHANGED <<simpleLabels, minCost, answer>>
  BY DEF S!Rival
<1>2. /\ otherPc = "done" /\ e.source = pos /\ S!Usable(e) /\ pos' = e.target /\ spent' = spent + costs[e]
      /\ spent + costs[e] < Inf
      /\ UNCHANGED <<simpleLabels, minCost, answer, costs, request, otherPc, todo>>
  BY <1>1 DEF S!Walk, S!Outgoing, S!arguments
<1>3. costs[e] \in Int /\ Inf \in Nat \ {0} /\ e.target \in Simple.vertices
  BY SimpleArguments, SimpleEdges DEF SimpleInv
<1>4. simpleLabels[e.target].cost <= simpleLabels[pos].cost + costs[e]
  BY <1>2 , <1>3 DEF SimpleInv, SimpleSettled, Reported, NotBelow, SimpleTypes
<1>5. NotBelow'
  BY <1>2, <1>3, <1>4 DEF SimpleInv, NotBelow, SimpleTypes
<1>6. SimpleTypes'
  BY <1>2, <1>3 DEF SimpleInv, SimpleTypes
<1> QED
  BY <1>2, <1>5, <1>6 DEF SimpleInv, SimpleInOrder, SimpleSettled, Noted, Reported, S!Usable, S!InWindow

\* Every step keeps the invariant.
LEMMA SimpleNextInvariant == SimpleInv /\ (S!Next \/ UNCHANGED S!vars) => SimpleInv'
<1> SUFFICES ASSUME SimpleInv, S!Next \/ UNCHANGED S!vars PROVE SimpleInv'
  OBVIOUS
<1>1. CASE S!Search
  BY <1>1, SimpleSkipInvariant, SimpleCloseInvariant, SimpleExpandInvariant, SimpleFinishInvariant DEF S!Search
<1>2. CASE S!Rival
  BY <1>2, SimpleRivalInvariant
<1>3. CASE UNCHANGED S!vars
  BY <1>3 DEF S!vars, S!arguments, S!rivalVars, SimpleInv, SimpleTypes, SimpleInOrder, SimpleSettled, Noted, Reported,
              NotBelow, S!Usable, S!InWindow
<1> QED
  BY <1>1, <1>2, <1>3 DEF S!Next

\* The minimum reported is at most what a rival spends who arrives.
LEMMA SimpleIsBeaten == SimpleInv => S!RivalBeaten
<1> SUFFICES ASSUME SimpleInv, S!Arrived PROVE answer <= spent
  BY DEF S!RivalBeaten
<1>1. /\ simpleLabels[pos].cost \in Int /\ spent \in Int /\ minCost \in Int
      /\ request.cutoff \in Int
      /\ pos \in Simple.vertices \ todo
  BY SimpleArguments DEF SimpleInv, SimpleTypes, S!Arrived, Reported
<1>2. simpleLabels[pos].cost <= spent /\ spent < request.cutoff /\ S!IsEnd(pos) /\ S!InWindow(pos)
  BY DEF SimpleInv, NotBelow, S!Arrived, S!InWindow
<1>3. minCost <= simpleLabels[pos].cost
  BY <1>1, <1>2 DEF SimpleInv, Noted
<1> QED
  BY <1>1, <1>2, <1>3 DEF SimpleInv, Reported, S!Arrived

-----------------------------------------------------------------------------
(* Finite sets and recursion.                                              *)

\* Numbers are reached one by one.
LEMMA Induction ==
  ASSUME NEW D \in SUBSET Nat, 0 \in D, \A n \in D : n + 1 \in D
  PROVE  D = Nat
<1> DEFINE T == Nat \ D
<1> SUFFICES ASSUME T # {} PROVE FALSE
  OBVIOUS
<1>1. PICK n \in T : \A m \in T : ~ (<<m, n>> \in OpToRel(<, Nat))
  <2>1. T \subseteq Nat  OBVIOUS
  <2> HIDE DEF T
  <2> QED BY <2>1, NatLessThanWellFounded, WFMin
<1>2. \A m \in T : ~ (m < n)
  BY <1>1 DEF OpToRel
<1>3. n # 0 /\ n - 1 \in Nat /\ n - 1 < n  OBVIOUS
<1>4. n - 1 \in D  BY <1>2, <1>3
<1>5. (n - 1) + 1 = n  OBVIOUS
<1> QED BY <1>4, <1>5

\* A set of numbers has a least one, ...
LEMMA LeastExists ==
  ASSUME NEW T \in SUBSET Nat, T # {}
  PROVE  \E n \in T : \A m \in T : n <= m
<1>1. PICK n \in T : \A m \in T : ~ (<<m, n>> \in OpToRel(<, Nat))
  BY NatLessThanWellFounded, WFMin
<1>2. \A m \in T : ~ (m < n)
  BY <1>1 DEF OpToRel
<1>3. \A m \in T : n <= m
  BY <1>2
<1> QED BY <1>3

\* ... and a set of subsets of a finite set one that has none of the others in it.
LEMMA LeastSubsetExists ==
  ASSUME NEW D, IsFiniteSet(D), NEW T \in SUBSET SUBSET D, T # {}
  PROVE  \E s \in T : s \in SUBSET D /\ \A t \in SUBSET s : t # s => t \notin T
<1>1. IsWellFoundedOn(StrictSubsetOrdering(D), SUBSET D)
  BY FS_StrictSubsetOrderingWellFounded, FS_FiniteSubsetsOfFinite
<1>2. PICK s \in T : \A t \in T : ~ (<<t, s>> \in StrictSubsetOrdering(D))
  BY <1>1, WFMin
<1>3. \A t \in SUBSET s : t # s => t \notin T
  BY <1>2 DEF StrictSubsetOrdering
<1> QED BY <1>3

First(s) == CHOOSE x \in s : TRUE

\* A function that is defined by taking the elements of a set one by one.
IsFold(g, F, base, D, V) ==
  /\ g \in [SUBSET D -> V]
  /\ \A s \in SUBSET D : g[s] = IF s = {} THEN base ELSE F[First(s)][g[s \ {First(s)}]]

LEMMA FoldExists ==
  ASSUME NEW D, IsFiniteSet(D), NEW V, NEW base \in V, NEW F \in [D -> [V -> V]]
  PROVE  \E g : IsFold(g, F, base, D, V)
<1> DEFINE Small(n) == {s \in SUBSET D : Cardinality(s) <= n}
           Folds(g, n) == \A s \in Small(n) : g[s] = IF s = {} THEN base ELSE F[First(s)][g[s \ {First(s)}]]
           T == {n \in Nat : \E g \in [Small(n) -> V] : Folds(g, n)}
<1>1. \A s \in SUBSET D : s # {} =>
        /\ First(s) \in s /\ First(s) \in D /\ s \ {First(s)} \in SUBSET D
        /\ Cardinality(s) \in Nat /\ Cardinality(s) # 0
        /\ Cardinality(s \ {First(s)}) = Cardinality(s) - 1
  <2> TAKE s \in SUBSET D
  <2> HAVE s # {}
  <2>1. IsFiniteSet(s)  BY FS_Subset
  <2>2. First(s) \in s  BY DEF First
  <2> QED BY <2>1, <2>2, FS_RemoveElement, FS_CardinalityType, FS_EmptySet
<1>2. {} \in SUBSET D /\ Cardinality({}) = 0  BY FS_EmptySet
<1>3. 0 \in T
  <2> DEFINE g == [s \in Small(0) |-> base]
  <2>1. \A s \in Small(0) : s = {}
    <3> SUFFICES ASSUME NEW s \in SUBSET D, Cardinality(s) <= 0, s # {} PROVE FALSE
      OBVIOUS
    <3>1. Cardinality(s) \in Nat /\ Cardinality(s) # 0  BY <1>1
    <3> QED BY <3>1
  <2>2. g \in [Small(0) -> V] /\ Folds(g, 0)  BY <2>1
  <2> HIDE DEF g
  <2> QED BY <2>2
<1>4. \A n \in T : n + 1 \in T
  <2> TAKE n \in T
  <2>1. PICK g \in [Small(n) -> V] : Folds(g, n)  OBVIOUS
  <2>2. n \in Nat  OBVIOUS
  <2> DEFINE h == [s \in Small(n + 1) |-> IF s \in Small(n) THEN g[s] ELSE F[First(s)][g[s \ {First(s)}]]]
  <2>3. \A s \in Small(n + 1) : s # {} => s \ {First(s)} \in Small(n) /\ s \ {First(s)} \in Small(n + 1)
    BY <1>1, <2>2
  <2>4. {} \in Small(n)  BY <1>2, <2>2
  <2>5. h \in [Small(n + 1) -> V]
    <3> SUFFICES ASSUME NEW s \in Small(n + 1), s \notin Small(n)
                 PROVE  F[First(s)][g[s \ {First(s)}]] \in V
      BY <2>1
    <3>1. s # {}  BY <2>4
    <3>2. First(s) \in D /\ g[s \ {First(s)}] \in V  BY <1>1, <2>1, <2>3, <3>1
    <3>3. F[First(s)] \in [V -> V]  BY <3>2
    <3> QED BY <3>2, <3>3
  <2>6. Folds(h, n + 1)
    <3> SUFFICES ASSUME NEW s \in Small(n + 1)
                 PROVE  h[s] = IF s = {} THEN base ELSE F[First(s)][h[s \ {First(s)}]]
      OBVIOUS
    <3>1. s # {} => h[s \ {First(s)}] = g[s \ {First(s)}]  BY <2>3
    <3>2. CASE s \in Small(n)
      <4>1. h[s] = g[s]  BY <3>2
      <4>2. g[s] = IF s = {} THEN base ELSE F[First(s)][g[s \ {First(s)}]]  BY <2>1, <3>2
      <4> QED BY <3>1, <4>1, <4>2
    <3>3. CASE s \notin Small(n)
      <4>1. h[s] = F[First(s)][g[s \ {First(s)}]] /\ s # {}  BY <2>4, <3>3
      <4> QED BY <3>1, <4>1
    <3> QED BY <3>2, <3>3
  <2> HIDE DEF h, Folds, Small
  <2> QED BY <2>2, <2>5, <2>6
<1>5. T = Nat
  <2>1. T \in SUBSET Nat  OBVIOUS
  <2> HIDE DEF T
  <2> QED BY <1>3, <1>4, <2>1, Induction
<1>6. Cardinality(D) \in Nat  BY FS_CardinalityType
<1>7. Small(Cardinality(D)) = SUBSET D
  <2>1. \A s \in SUBSET D : Cardinality(s) <= Cardinality(D)  BY FS_Subset
  <2> QED BY <2>1
<1>8. PICK g \in [Small(Cardinality(D)) -> V] : Folds(g, Cardinality(D))
  BY <1>5, <1>6
<1>9. g \in [SUBSET D -> V] /\ \A s \in SUBSET D : g[s] = IF s = {} THEN base ELSE F[First(s)][g[s \ {First(s)}]]
  BY <1>7, <1>8
<1> QED BY <1>9 DEF IsFold

-----------------------------------------------------------------------------
(* Dominance.                                                              *)

\* The last elements of a sequence.
LEMMA LastOfIs ==
  ASSUME NEW U, NEW s \in Seq(U), NEW n \in Nat
  PROVE  LET t == LastOf(s, n)
             k == IF Len(s) > n THEN n ELSE Len(s)
         IN  t \in Seq(U) /\ Len(t) = k /\ \A i \in 1 .. k : t[i] = s[Len(s) - k + i]
<1> DEFINE m == IF Len(s) > n THEN Len(s) - n + 1 ELSE 1
           N == Len(s)
<1>1. N \in Nat /\ m \in Int /\ m >= 1
  BY LenProperties
<1>2. \A i \in m .. N : s[i] \in U
  BY <1>1, ElementOfSeq
<1>3. LastOf(s, n) = SubSeq(s, m, N)
  BY DEF LastOf
<1>4. m - 1 = N - (IF N > n THEN n ELSE N)
  BY <1>1
<1>5. /\ SubSeq(s, m, N) \in Seq(U)
      /\ Len(SubSeq(s, m, N)) = IF m <= N THEN N - m + 1 ELSE 0
      /\ \A i \in 1 .. N - m + 1 : SubSeq(s, m, N)[i] = s[m + i - 1]
  <2> HIDE DEF m, N
  <2> QED BY <1>1, <1>2, SubSeqProperties
<1>6. (IF N > n THEN n ELSE N) = N - m + 1 /\ N - (IF N > n THEN n ELSE N) = m - 1
  BY <1>1, <1>4
<1>7. m <= N \/ N - m + 1 = 0
  BY <1>1
<1> HIDE DEF m
<1>8. \A i \in 1 .. N - m + 1 : (m - 1) + i = m + i - 1
  BY <1>1
<1> QED BY <1>1, <1>3, <1>5, <1>6, <1>7, <1>8

\* That a label allows an extension.
Allows(prefix, x) ==
  \A i \in 1 .. Size : ~ A!contains(A!LastOf(prefix \o SubSeq(x, 1, i - 1), Size), x[i])

Distinct(x) == \A i, j \in 1 .. Size : x[i] = x[j] => i = j

Remembers(prefix, x) ==
  \E i \in 1 .. Size, k \in 1 .. Len(prefix) : i <= Size - Len(prefix) + k /\ prefix[k] = x[i]

\* Position by position: the extension has no vertex twice, and none of those of the
\* prefix that its position still remembers.
LEMMA AllowsIs ==
  ASSUME NEW U, NEW prefix \in Seq(U), Len(prefix) \in 1 .. Size, NEW x \in [1 .. Size -> U]
  PROVE  Allows(prefix, x) <=> Distinct(x) /\ ~ Remembers(prefix, x)
<1> DEFINE L == Len(prefix)
           Ahead(i) == prefix \o SubSeq(x, 1, i - 1)
<1>1. Size \in Nat \ {0} /\ L \in 1 .. Size
  BY SizeAssumption
<1>2. ASSUME NEW i \in 1 .. Size
      PROVE  A!contains(A!LastOf(Ahead(i), Size), x[i]) <=>
               \/ \E k \in 1 .. L : i <= Size - L + k /\ prefix[k] = x[i]
               \/ \E h \in 1 .. i - 1 : x[h] = x[i]
  <2> DEFINE b == SubSeq(x, 1, i - 1)
             s == Ahead(i)
             t == LastOf(s, Size)
             K == IF L + i - 1 > Size THEN Size ELSE L + i - 1
  <2>1. b \in Seq(U) /\ Len(b) = i - 1 /\ \A h \in 1 .. i - 1 : b[h] = x[h]
    <3>1. \A h \in 1 .. i - 1 : x[h] \in U  BY <1>1
    <3> QED BY <3>1, SubSeqProperties
  <2>2. s \in Seq(U) /\ Len(s) = L + i - 1
        /\ \A h \in 1 .. L + i - 1 : s[h] = IF h <= L THEN prefix[h] ELSE x[h - L]
    <3>1. s = prefix \o b  OBVIOUS
    <3> HIDE DEF s, b
    <3>2. /\ prefix \o b \in Seq(U) /\ Len(prefix \o b) = Len(prefix) + Len(b)
          /\ \A h \in 1 .. Len(prefix) + Len(b) :
               (prefix \o b)[h] = IF h <= Len(prefix) THEN prefix[h] ELSE b[h - Len(prefix)]
      BY <2>1, ConcatProperties
    <3>3. L + (i - 1) = L + i - 1 /\ i \in Nat /\ L \in Nat  BY <1>1
    <3>4. ASSUME NEW h \in 1 .. L + i - 1 PROVE s[h] = IF h <= L THEN prefix[h] ELSE x[h - L]
      <4>1. h > L => h - L \in 1 .. i - 1  BY <3>3
      <4>2. s[h] = IF h <= L THEN prefix[h] ELSE b[h - L]  BY <2>1, <3>1, <3>2, <3>3
      <4> QED BY <2>1, <4>1, <4>2, <3>3
    <3> QED BY <2>1, <3>1, <3>2, <3>3, <3>4
  <2>0. /\ i \in Nat /\ L \in Nat /\ Size \in Nat /\ 1 <= L /\ L <= Size /\ 1 <= i /\ i <= Size /\ K \in Nat
        /\ K <= L + i - 1 /\ K <= Size /\ (K = Size \/ K = L + i - 1)
    BY <1>1
  <2> HIDE DEF s, b
  <2>3. t \in Seq(U) /\ Len(t) = K /\ \A h \in 1 .. K : t[h] = s[L + i - 1 - K + h]
    <3>1. /\ LastOf(s, Size) \in Seq(U)
          /\ Len(LastOf(s, Size)) = IF Len(s) > Size THEN Size ELSE Len(s)
          /\ \A h \in 1 .. IF Len(s) > Size THEN Size ELSE Len(s) :
               LastOf(s, Size)[h] = s[Len(s) - (IF Len(s) > Size THEN Size ELSE Len(s)) + h]
      BY <1>1, <2>2, LastOfIs
    <3>2. (IF Len(s) > Size THEN Size ELSE Len(s)) = K  BY <2>2
    <3> HIDE DEF K
    <3>3. Len(s) = L + i - 1  BY <2>2
    <3>4. t \in Seq(U) /\ Len(t) = K /\ \A h \in 1 .. K : t[h] = s[Len(s) - K + h]  BY <3>1, <3>2
    <3> QED BY <3>3, <3>4
  <2>4. A!LastOf(s, Size) = t  BY DEF A!LastOf, LastOf
  <2>5. A!contains(t, x[i]) <=> \E h \in 1 .. K : t[h] = x[i]
    <3> HIDE DEF t
    <3> QED BY <2>3 DEF A!contains
  <2> HIDE DEF K, L
  <2>6. (\E h \in 1 .. K : t[h] = x[i]) <=> \E h \in L + i - K .. L + i - 1 : s[h] = x[i]
    <3>1. ASSUME NEW h \in 1 .. K PROVE L + i - 1 - K + h \in L + i - K .. L + i - 1
      BY <2>0
    <3>2. ASSUME NEW h \in L + i - K .. L + i - 1
          PROVE  h - (L + i - 1 - K) \in 1 .. K /\ L + i - 1 - K + (h - (L + i - 1 - K)) = h
      BY <2>0
    <3> HIDE DEF t
    <3> QED BY <2>3, <3>1, <3>2
  <2>7. (\E h \in L + i - K .. L + i - 1 : s[h] = x[i]) <=>
          \/ \E k \in 1 .. L : i <= Size - L + k /\ prefix[k] = x[i]
          \/ \E h \in 1 .. i - 1 : x[h] = x[i]
    <3>1. ASSUME NEW h \in L + i - K .. L + i - 1, s[h] = x[i]
          PROVE  \/ \E k \in 1 .. L : i <= Size - L + k /\ prefix[k] = x[i]
                 \/ \E k \in 1 .. i - 1 : x[k] = x[i]
      <4>1. CASE h <= L
        <5>1. h \in 1 .. L /\ i <= Size - L + h  BY <2>0, <4>1
        <5> QED BY <2>0, <2>2, <3>1, <4>1, <5>1
      <4>2. CASE h > L
        <5>1. h - L \in 1 .. i - 1 /\ h \in 1 .. L + i - 1 /\ ~ (h <= L)  BY <2>0, <4>2
        <5> QED BY <2>2, <3>1, <5>1
      <4> QED BY <2>0, <4>1, <4>2
    <3>2. ASSUME NEW k \in 1 .. L, i <= Size - L + k, prefix[k] = x[i]
          PROVE  k \in L + i - K .. L + i - 1 /\ s[k] = x[i]
      BY <2>0, <2>2, <3>2
    <3>3. ASSUME NEW h \in 1 .. i - 1, x[h] = x[i]
          PROVE  L + h \in L + i - K .. L + i - 1 /\ s[L + h] = x[i]
      <4>1. L + h \in L + i - K .. L + i - 1 /\ L + h \in 1 .. L + i - 1 /\ ~ (L + h <= L) /\ (L + h) - L = h
        BY <2>0
      <4> QED BY <2>2, <3>3, <4>1
    <3> QED BY <3>1, <3>2, <3>3
  <2> QED BY <2>4, <2>5, <2>6, <2>7 DEF s
<1> HIDE DEF L
<1>3. Allows(prefix, x) <=>
        \A i \in 1 .. Size : ~ (\/ \E k \in 1 .. L : i <= Size - L + k /\ prefix[k] = x[i]
                               \/ \E h \in 1 .. i - 1 : x[h] = x[i])
  BY <1>2 DEF Allows
<1>4. (\A i \in 1 .. Size : \A h \in 1 .. i - 1 : x[h] # x[i]) <=> \A i, j \in 1 .. Size : x[i] = x[j] => i = j
  <2>1. \A i, j \in 1 .. Size : i = j \/ i \in 1 .. j - 1 \/ j \in 1 .. i - 1
    BY <1>1
  <2>2. \A i \in 1 .. Size : \A h \in 1 .. i - 1 : h \in 1 .. Size /\ h # i
    BY <1>1
  <2> QED BY <2>1, <2>2
<1> QED BY <1>3, <1>4 DEF L, Distinct, Remembers

\* An extension as a set of positions and vertices.
Cells(x) == {<<i - 1, x[i]>> : i \in 1 .. Size}

LEMMA CellsAre ==
  ASSUME NEW U, NEW x \in [1 .. Size -> U], Distinct(x)
  PROVE  IsFiniteSet(Cells(x)) /\ \A b, c \in Cells(x) : b[1] = c[1] <=> b[2] = c[2]
<1>1. Size \in Nat  BY SizeAssumption
<1>2. IsFiniteSet(1 .. Size)  BY <1>1, FS_Interval
<1>3. IsFiniteSet(Cells(x))
  <2>1. IsFiniteSet({<<i - 1, x[i]>> : i \in 1 .. Size})
    <3> DEFINE f == [i \in 1 .. Size |-> <<i - 1, x[i]>>]
    <3>1. f \in Surjection(1 .. Size, {<<i - 1, x[i]>> : i \in 1 .. Size})
      BY DEF Surjection
    <3> HIDE DEF f
    <3> QED BY <1>2, <3>1, FS_Surjection
  <2> QED BY <2>1 DEF Cells
<1>4. ASSUME NEW b \in Cells(x), NEW c \in Cells(x) PROVE b[1] = c[1] <=> b[2] = c[2]
  <2>1. PICK i \in 1 .. Size : b = <<i - 1, x[i]>>  BY DEF Cells
  <2>2. PICK j \in 1 .. Size : c = <<j - 1, x[j]>>  BY DEF Cells
  <2> QED BY <1>1, <2>1, <2>2 DEF Distinct
<1> QED BY <1>3, <1>4

\* The hole set of a prefix has the extensions it does not allow.
LEMMA HolesAre ==
  ASSUME NEW U, NEW prefix \in Seq(U), Len(prefix) \in 1 .. Size, NEW x \in [1 .. Size -> U], Distinct(x)
  PROVE  Allows(prefix, x) <=> \A f \in A!fromPrefix(prefix) : ~ (f \subseteq Cells(x))
<1> DEFINE L == Len(prefix)
<1>1. Size \in Nat /\ L \in Nat /\ 1 <= L /\ L <= Size  BY SizeAssumption
<1>2. Allows(prefix, x) <=> ~ Remembers(prefix, x)
  BY AllowsIs
<1> DEFINE reach(k) == 0 .. Size - L + k - 1
           holes(k) == {{<<j, prefix[k]>>} : j \in reach(k)}
<1>0. A!fromPrefix(prefix) = UNION {holes(k) : k \in 1 .. L}
  BY DEF A!fromPrefix
<1> HIDE DEF L
<1>3. \A f : f \in A!fromPrefix(prefix) <=> \E k \in 1 .. L : \E j \in 0 .. Size - L + k - 1 : f = {<<j, prefix[k]>>}
  <2> HIDE DEF reach, holes
  <2>1. \A f : f \in A!fromPrefix(prefix) <=> \E k \in 1 .. L : f \in holes(k)
    BY <1>0
  <2>2. \A k, f : f \in holes(k) <=> \E j \in reach(k) : f = {<<j, prefix[k]>>}
    BY DEF holes
  <2> QED BY <2>1, <2>2 DEF reach
<1>4. ASSUME NEW i \in 1 .. Size, NEW k \in 1 .. L, i <= Size - L + k, prefix[k] = x[i]
      PROVE  \E f \in A!fromPrefix(prefix) : f \subseteq Cells(x)
  <2>1. i - 1 \in 0 .. Size - L + k - 1  BY <1>1, <1>4
  <2>2. {<<i - 1, prefix[k]>>} \in A!fromPrefix(prefix)  BY <1>3, <2>1
  <2>3. {<<i - 1, prefix[k]>>} \subseteq Cells(x)  BY <1>4 DEF Cells
  <2> QED BY <2>2, <2>3
<1>5. ASSUME NEW f \in A!fromPrefix(prefix), f \subseteq Cells(x)
      PROVE  \E i \in 1 .. Size, k \in 1 .. L : i <= Size - L + k /\ prefix[k] = x[i]
  <2>1. PICK k \in 1 .. L : \E j \in 0 .. Size - L + k - 1 : f = {<<j, prefix[k]>>}  BY <1>3
  <2>2. PICK j \in 0 .. Size - L + k - 1 : f = {<<j, prefix[k]>>}  BY <2>1
  <2>3. <<j, prefix[k]>> \in Cells(x)  BY <1>5, <2>2
  <2>4. PICK i \in 1 .. Size : <<j, prefix[k]>> = <<i - 1, x[i]>>  BY <2>3 DEF Cells
  <2>5. j = i - 1 /\ prefix[k] = x[i]  BY <2>4
  <2>6. i <= Size - L + k  BY <1>1, <2>5
  <2> QED BY <2>5, <2>6
<1>6. Remembers(prefix, x) <=> \E i \in 1 .. Size, k \in 1 .. L : i <= Size - L + k /\ prefix[k] = x[i]
  BY DEF Remembers, L
<1> QED BY <1>2, <1>4, <1>5, <1>6

\* What two hole sets describe, their intersection describes.
LEMMA IntersectionDescribes ==
  ASSUME NEW X, IsFiniteSet(X), \A b, c \in X : b[1] = c[1] <=> b[2] = c[2],
         NEW forms, NEW others, NEW f \in forms, f \subseteq X, NEW g \in others, g \subseteq X
  PROVE  \E h \in A!intersect(forms, others) : h \subseteq X
<1> DEFINE below == {d \in forms : A!Covered(d, others)} \cup {d \in others : A!Covered(d, forms)}
           unions == {d \cup e : d \in forms \ below, e \in others \ below}
           results == below \cup {d \in unions : A!Consistent(d)}
           greatest == {d \in results : ~ \E e \in results : d # e /\ A!LessForm(d, e)}
<1>1. A!intersect(forms, others) = greatest
  BY DEF A!intersect
<1>2. \E d \in results : d \subseteq X
  <2>1. CASE f \in below \/ g \in below  BY <2>1
  <2>2. CASE f \notin below /\ g \notin below
    <3>1. f \cup g \in unions /\ f \cup g \subseteq X  BY <2>2
    <3>2. A!Consistent(f \cup g)  BY <3>1 DEF A!Consistent
    <3> QED BY <3>1, <3>2
  <2> QED BY <2>1, <2>2
<1> HIDE DEF results
<1> DEFINE T == {d \in results : d \subseteq X}
<1>3. T \in SUBSET SUBSET X /\ T # {}
  BY <1>2
<1>4. PICK d \in T : \A e \in SUBSET d : e # d => e \notin T
  <2> HIDE DEF T
  <2> QED BY <1>3, LeastSubsetExists
<1>5. d \in greatest
  BY <1>4 DEF A!LessForm
<1> QED BY <1>1, <1>4, <1>5

\* What one label does for the extensions that are left: all that it allows go, and those
\* which l does not allow.
Left(prefix, before, running) ==
  {f \in A!intersect(running, A!fromPrefix(before)) : ~ A!Covered(f, A!fromPrefix(prefix))}

\* An extension that l allows and none of the rivals does is left at last.
LEMMA DominanceLosesNothing ==
  ASSUME NEW U, NEW l, l.prefix \in Seq(U), Len(l.prefix) \in 1 .. Size,
         IsFiniteSet(A!Rivals(l)),
         \A m \in A!Rivals(l) : m.prefix \in Seq(U) /\ Len(m.prefix) \in 1 .. Size,
         A!isDominated(l), NEW x \in [1 .. Size -> U], Allows(l.prefix, x)
  PROVE  \E m \in A!Rivals(l) : Allows(m.prefix, x)
<1> DEFINE R == A!Rivals(l)
           Forms == SUBSET (Int \X U)
           V == SUBSET Forms
           F == [m \in R |-> [running \in V |-> Left(l.prefix, m.prefix, running)]]
           Folds(g) == g = [s \in SUBSET R |->
                              IF s = {} THEN {{}} ELSE Left(l.prefix, First(s).prefix, g[s \ {First(s)}])]
<1> SUFFICES ASSUME \A m \in R : ~ Allows(m.prefix, x) PROVE FALSE
  OBVIOUS
<1>1. Size \in Nat  BY SizeAssumption
<1>2. Distinct(x)  BY AllowsIs
<1>3. IsFiniteSet(Cells(x)) /\ \A b, c \in Cells(x) : b[1] = c[1] <=> b[2] = c[2]
  BY <1>2, CellsAre
<1>4. \A m \in R : \E f \in A!fromPrefix(m.prefix) : f \subseteq Cells(x)
  BY <1>2, HolesAre
<1>5. \A f \in A!fromPrefix(l.prefix) : ~ (f \subseteq Cells(x))
  BY <1>2, HolesAre
<1>6. R # {} /\ (CHOOSE g : Folds(g))[R] = {}
  BY DEF A!isDominated, A!FoldSet, A!MapThenFoldSet, First, Left
<1>7. F \in [R -> [V -> V]] /\ {{}} \in V
  <2>1. ASSUME NEW m \in R, NEW running \in V
        PROVE  Left(l.prefix, m.prefix, running) \in V
    <3>1. A!fromPrefix(m.prefix) \in V
      <4>1. \A k \in 1 .. Len(m.prefix) : m.prefix[k] \in U  BY ElementOfSeq
      <4>2. \A k \in 1 .. Len(m.prefix), j \in Int : {<<j, m.prefix[k]>>} \in Forms  BY <4>1
      <4>3. Len(m.prefix) \in Nat  OBVIOUS
      <4>4. \A k \in 1 .. Len(m.prefix) : \A j \in 0 .. Size - Len(m.prefix) + k - 1 : j \in Int  OBVIOUS
      <4> HIDE DEF Forms
      <4> QED BY <4>2, <4>4 DEF A!fromPrefix
    <3>2. \A a, b \in V : A!intersect(a, b) \in V
      BY DEF A!intersect
    <3> HIDE DEF V
    <3>3. A!intersect(running, A!fromPrefix(m.prefix)) \in V  BY <3>1, <3>2
    <3> QED BY <3>3 DEF Left, V
  <2> QED BY <2>1
<1>8. PICK g : IsFold(g, F, {{}}, R, V)
  <2> HIDE DEF F, V, R
  <2>1. IsFiniteSet(R)  BY DEF R
  <2> QED BY <2>1, <1>7, FoldExists
<1>9. Folds(g)
  <2>1. g \in [SUBSET R -> V]  BY <1>8 DEF IsFold
  <2>2. \A t \in SUBSET R : t # {} => First(t) \in R /\ g[t \ {First(t)}] \in V
    BY <2>1 DEF First
  <2>3. \A t \in SUBSET R : t # {} =>
          F[First(t)][g[t \ {First(t)}]] = Left(l.prefix, First(t).prefix, g[t \ {First(t)}])
    BY <2>2
  <2>4. \A t \in SUBSET R : g[t] = IF t = {} THEN {{}} ELSE F[First(t)][g[t \ {First(t)}]]
    <3> HIDE DEF F, V
    <3> QED BY <1>8 DEF IsFold
  <2> HIDE DEF F, V
  <2>5. DOMAIN g = SUBSET R /\ g = [t \in DOMAIN g |-> g[t]]  BY <2>1
  <2>6. \A t \in SUBSET R :
          g[t] = IF t = {} THEN {{}} ELSE Left(l.prefix, First(t).prefix, g[t \ {First(t)}])
    BY <2>3, <2>4
  <2> QED BY <2>5, <2>6
<1> HIDE DEF Folds
<1>10. Folds(CHOOSE h : Folds(h))  BY <1>9
<1> DEFINE G == CHOOSE h : Folds(h)
<1>11. \A t \in SUBSET R : G[t] = IF t = {} THEN {{}} ELSE Left(l.prefix, First(t).prefix, G[t \ {First(t)}])
  BY <1>10 DEF Folds
<1> HIDE DEF G, F, V, R
<1> DEFINE Describes(forms) == \E f \in forms : f \subseteq Cells(x)
           N == {n \in Nat : \A t \in SUBSET R : Cardinality(t) = n => Describes(G[t])}
<1>12. IsFiniteSet(R)  BY DEF R
<1>13. \A t \in SUBSET R : IsFiniteSet(t) /\ Cardinality(t) \in Nat  BY <1>12, FS_Subset, FS_CardinalityType
<1> HIDE DEF Describes
<1>14. 0 \in N
  <2> SUFFICES ASSUME NEW t \in SUBSET R, Cardinality(t) = 0 PROVE Describes(G[t])
    OBVIOUS
  <2>1. t = {}  BY <1>13, FS_EmptySet
  <2>2. G[t] = {{}}  BY <1>11, <2>1
  <2> QED BY <2>2 DEF Describes
<1>15. \A n \in N : n + 1 \in N
  <2> SUFFICES ASSUME NEW n \in N, NEW t \in SUBSET R, Cardinality(t) = n + 1 PROVE Describes(G[t])
    OBVIOUS
  <2>1. n \in Nat /\ n + 1 # 0  OBVIOUS
  <2>2. t # {}  BY <2>1, FS_EmptySet
  <2> DEFINE m == First(t)
             u == t \ {m}
  <2>3. m \in t  BY <2>2 DEF First
  <2>4. u \in SUBSET R /\ Cardinality(u) = n
    <3> HIDE DEF m
    <3> QED BY <1>13, <2>1, <2>3, FS_RemoveElement
  <2>5. PICK f \in G[u] : f \subseteq Cells(x)  BY <2>4 DEF Describes
  <2>6. m \in R  BY <2>3
  <2>7. PICK d \in A!fromPrefix(m.prefix) : d \subseteq Cells(x)
    <3> HIDE DEF m
    <3> QED BY <1>4, <2>6 DEF R
  <2>8. PICK h \in A!intersect(G[u], A!fromPrefix(m.prefix)) : h \subseteq Cells(x)
    <3> HIDE DEF m, u
    <3> QED BY <1>3, <2>5, <2>7, IntersectionDescribes
  <2>9. ~ A!Covered(h, A!fromPrefix(l.prefix))
    BY <1>5, <2>8 DEF A!Covered, A!LessForm
  <2>10. h \in Left(l.prefix, m.prefix, G[u])
    BY <2>8, <2>9 DEF Left
  <2>11. G[t] = Left(l.prefix, m.prefix, G[u])  BY <1>11, <2>2
  <2> QED BY <2>8, <2>10, <2>11 DEF Describes
<1>16. N = Nat
  <2>1. N \in SUBSET Nat  OBVIOUS
  <2> HIDE DEF N
  <2> QED BY <1>14, <1>15, <2>1, Induction
<1>17. Describes(G[R])  BY <1>13, <1>16
<1> QED BY <1>6, <1>17 DEF G, R, Describes

-----------------------------------------------------------------------------
(* The acyclic routers.                                                    *)

Names == {v.vertex : v \in Acyclic.vertices}

\* A label of v.
IsLabel(l, v) ==
  /\ l = A!label(l.prefix, l.cost, l.edge, l.pred)
  /\ l.prefix \in Seq(Names) /\ Len(l.prefix) \in 1 .. Size /\ l.prefix[Len(l.prefix)] = v.vertex
  /\ l.cost \in Int

AcyclicTypes ==
  /\ costs \in Acyclic.costs /\ request \in Acyclic.requests
  /\ otherPc \in {"bounds", "search", "done"}
  /\ todo \subseteq Acyclic.vertices
  /\ DOMAIN acyclicLabels = Acyclic.vertices
  /\ \A v \in Acyclic.vertices : IsFiniteSet(acyclicLabels[v]) /\ \A l \in acyclicLabels[v] : IsLabel(l, v)
  /\ \A v \in Acyclic.vertices : \A l, m \in acyclicLabels[v] : l.prefix = m.prefix => l = m
  /\ at \in Acyclic.vertices /\ open \subseteq acyclicLabels[at]
  /\ pos \in Acyclic.vertices /\ spent \in Int

\* The bounds are found against the order of time, the search goes with it.
AcyclicOrder ==
  /\ otherPc = "bounds" => open = {} /\ \A v \in Acyclic.vertices \ todo : \A w \in todo : w.time <= v.time
  /\ otherPc = "search" => \A v \in Acyclic.vertices \ todo : \A w \in todo : v.time <= w.time
  /\ otherPc = "done" => todo = {} /\ open = {}
  /\ open # {} => at \notin todo

\* The costs and the fields of the arguments have the types of the assumptions.
LEMMA AcyclicArguments ==
  ASSUME AcyclicTypes
  PROVE  /\ Inf \in Nat \ {0}
         /\ \A e \in Acyclic.edges : costs[e] \in Int
         /\ request.cutoff \in Int /\ request.cutoff <= Inf
         /\ request.lower \in Nat /\ request.upper \in Nat
         /\ request.maxNumPaths \in Nat \ {0}
<1>1. costs \in [Acyclic.edges -> Int]
  BY NetworksAssumption DEF AcyclicTypes, AreRequests
<1> QED
  BY <1>1, NetworksAssumption, InfAssumption DEF AcyclicTypes, AreRequests

\* What the network assumption says of an edge and of the vertices.
LEMMA AcyclicEdges ==
  ASSUME NEW e \in Acyclic.edges
  PROVE  /\ e = A!EdgeTo(e.source, e.target)
         /\ e.source \in Acyclic.vertices /\ e.target \in Acyclic.vertices
         /\ e.source.time \in Nat /\ e.target.time \in Nat
         /\ e.source.time < e.target.time
         /\ e.source.vertex # e.target.vertex
         /\ ~ A!IsEnd(e.source)
  BY NetworksAssumption DEF IsNetwork, IsEnd, A!IsEnd, A!EdgeTo

LEMMA AcyclicVertices ==
  /\ IsFiniteSet(Acyclic.vertices) /\ A!Start \in Acyclic.vertices
  /\ \A v \in Acyclic.vertices : v.time \in Nat /\ v.vertex \in Names
  /\ A!Start.vertex = Root /\ A!Start.time = 0
  /\ NoEdge \notin Acyclic.edges
  BY NetworksAssumption DEF IsNetwork, Start, A!Start, Names

\* A set of labels takes another one.
LEMMA InsertedIs ==
  ASSUME NEW set, NEW l
  PROVE  LET new == A!Inserted(set, l) IN
         /\ IsFiniteSet(set) => IsFiniteSet(new)
         /\ new \subseteq set \cup {l}
         /\ (\A k, m \in set : k.prefix = m.prefix => k = m) => \A k, m \in new : k.prefix = m.prefix => k = m
         /\ \E m \in new : m.prefix = l.prefix /\ (m = l \/ m.cost <= l.cost)
         /\ \A k \in set : k \in new \/ (l.prefix = k.prefix /\ l \in new /\ ~ k.cost <= l.cost)
<1> DEFINE kept == {m \in set : m.prefix # l.prefix}
           new == A!Inserted(set, l)
<1>1. CASE \E m \in set : m.prefix = l.prefix /\ m.cost <= l.cost
  <2>1. new = set  BY <1>1 DEF A!Inserted
  <2> QED BY <1>1, <2>1
<1>2. CASE ~ \E m \in set : m.prefix = l.prefix /\ m.cost <= l.cost
  <2>1. new = kept \cup {l}  BY <1>2 DEF A!Inserted
  <2>2. IsFiniteSet(set) => IsFiniteSet(kept \cup {l})
    <3> SUFFICES ASSUME IsFiniteSet(set) PROVE IsFiniteSet(kept \cup {l})  OBVIOUS
    <3>1. IsFiniteSet(kept)  BY FS_Subset
    <3> HIDE DEF kept
    <3> QED BY <3>1, FS_AddElement
  <2> QED BY <1>2, <2>1, <2>2
<1> QED BY <1>1, <1>2

\* The label that a label and an edge give.
Onward(l, w) == A!label(A!LastOf(Append(l.prefix, w.vertex), Size), l.cost + costs[A!EdgeTo(at, w)],
                       A!EdgeTo(at, w), l.prefix)

LEMMA NextLabel ==
  ASSUME NEW l, NEW v \in Acyclic.vertices, IsLabel(l, v), NEW w \in Acyclic.vertices
  PROVE  LET p == A!LastOf(Append(l.prefix, w.vertex), Size) IN
         p \in Seq(Names) /\ Len(p) \in 1 .. Size /\ p[Len(p)] = w.vertex
<1> DEFINE a == Append(l.prefix, w.vertex)
           p == LastOf(a, Size)
           k == IF Len(a) > Size THEN Size ELSE Len(a)
<1>1. /\ Size \in Nat \ {0} /\ w.vertex \in Names /\ l.prefix \in Seq(Names)
      /\ Len(l.prefix) \in Nat
  BY SizeAssumption, AcyclicVertices DEF IsLabel
<1>2. a \in Seq(Names) /\ Len(a) = Len(l.prefix) + 1 /\ a[Len(l.prefix) + 1] = w.vertex
  BY <1>1, AppendProperties
<1> HIDE DEF a
<1>3. p \in Seq(Names) /\ Len(p) = k /\ \A i \in 1 .. k : p[i] = a[Len(a) - k + i]
  BY <1>1, <1>2, LastOfIs
<1>4. k \in 1 .. Size /\ Len(a) - k + k = Len(a)
  BY <1>1, <1>2
<1>5. A!LastOf(a, Size) = p  BY DEF A!LastOf, LastOf
<1>6. p[Len(p)] = w.vertex
  <2> HIDE DEF k, p
  <2>1. k \in 1 .. k  BY <1>4
  <2> QED BY <1>1, <1>2, <1>3, <1>4, <2>1
<1> HIDE DEF p, k
<1> QED BY <1>3, <1>4, <1>5, <1>6 DEF a

\* The labels after an expansion.
LEMMA RelaxedIs ==
  ASSUME AcyclicTypes, NEW l \in open, NEW w \in Acyclic.vertices
  PROVE  \/ A!Relaxed(l)[w] = acyclicLabels[w]
         \/ /\ A!EdgeTo(at, w) \in A!Outgoing(at) /\ ~ A!contains(l.prefix, w.vertex)
            /\ IsLabel(Onward(l, w), w)
            /\ A!Relaxed(l)[w] = A!Inserted(acyclicLabels[w], Onward(l, w))
<1>1. CASE A!EdgeTo(at, w) \in A!Outgoing(at) /\ ~ A!contains(l.prefix, w.vertex)
  <2>1. A!Relaxed(l)[w] = A!Inserted(acyclicLabels[w], Onward(l, w))
    BY <1>1 DEF A!Relaxed, Onward
  <2>2. IsLabel(l, at) /\ at \in Acyclic.vertices  BY DEF AcyclicTypes
  <2> DEFINE p == A!LastOf(Append(l.prefix, w.vertex), Size)
  <2>3. p \in Seq(Names) /\ Len(p) \in 1 .. Size /\ p[Len(p)] = w.vertex
    BY <2>2, NextLabel
  <2>4. l.cost + costs[A!EdgeTo(at, w)] \in Int
    BY <1>1, <2>2, AcyclicArguments DEF IsLabel, A!Outgoing
  <2> HIDE DEF p
  <2>5. IsLabel(Onward(l, w), w)
    <3>1. Onward(l, w) = A!label(p, l.cost + costs[A!EdgeTo(at, w)], A!EdgeTo(at, w), l.prefix)
      BY DEF Onward, p
    <3> QED BY <2>3, <2>4, <3>1 DEF IsLabel, A!label
  <2> QED BY <1>1, <2>1, <2>5
<1>2. CASE ~ (A!EdgeTo(at, w) \in A!Outgoing(at) /\ ~ A!contains(l.prefix, w.vertex))
  BY <1>2 DEF A!Relaxed
<1> QED BY <1>1, <1>2

\* What a step of the search leaves alone.
LEMMA SearchKeeps ==
  ASSUME A!HoleFreeSearch
  PROVE  UNCHANGED <<costs, request, pos, trail, spent>>
  BY DEF A!HoleFreeSearch, A!arguments, A!rivalVars

\* What the steps of a search do to its labels and its loop.
LEMMA AcyclicSteps ==
  ASSUME AcyclicTypes, A!HoleFreeSearch
  PROVE  \/ /\ otherPc = "bounds" /\ UNCHANGED <<otherPc, acyclicLabels, at, open>>
            /\ \E v \in Acyclic.vertices : A!Bound(v)
         \/ /\ otherPc = "bounds" /\ otherPc' = "search" /\ todo = {} /\ todo' = Acyclic.vertices
            /\ UNCHANGED <<bounds, acyclicLabels, at, open, allPaths, valuedPaths>>
         \/ /\ otherPc = "search" /\ UNCHANGED <<otherPc, bounds, acyclicLabels, allPaths, valuedPaths>>
            /\ \E v \in Acyclic.vertices : A!Arrive(v)
         \/ /\ otherPc = "search" /\ UNCHANGED <<otherPc, bounds, todo, at>>
            /\ \E l \in open : /\ open' = open \ {l}
                               /\ \/ A!Close(l) /\ UNCHANGED acyclicLabels
                                  \/ A!Discard(l) /\ UNCHANGED acyclicLabels
                                  \/ /\ ~ A!IsEnd(at) /\ ~ A!Hopeless(l) /\ A!OfferExtended(l)
                                     /\ \/ UNCHANGED acyclicLabels /\ request.holeFree /\ A!isDominated(l)
                                        \/ acyclicLabels' = A!Relaxed(l)
         \/ /\ otherPc = "search" /\ otherPc' = "done" /\ todo = {} /\ open = {}
            /\ UNCHANGED <<todo, bounds, acyclicLabels, at, open, allPaths, valuedPaths>>
<1>1. CASE A!LowerBounds
  BY <1>1 DEF A!LowerBounds, A!Bound, A!BoundsFound, A!searchVars, A!pathSetVars
<1>2. CASE \E v \in Acyclic.vertices : A!Arrive(v)
  BY <1>2 DEF A!Arrive, A!Visit, A!pathSetVars
<1>3. CASE \E l \in open : A!Close(l) \/ A!Discard(l)
  BY <1>3 DEF A!Close, A!Discard, A!Take
<1>4. CASE request.holeFree /\ \E l \in open : A!ExpandUndominated(l)
  BY <1>4 DEF A!ExpandUndominated, A!Take
<1>5. CASE \E l \in open : A!Expand(l)
  BY <1>5 DEF A!Expand, A!Take
<1>6. CASE A!Finish
  BY <1>6 DEF A!Finish, A!searchVars, A!pathSetVars
<1> QED BY <1>1, <1>2, <1>3, <1>4, <1>5, <1>6 DEF A!HoleFreeSearch

LEMMA AcyclicInit == A!Init => AcyclicTypes /\ AcyclicOrder
<1> SUFFICES ASSUME A!Init PROVE AcyclicTypes /\ AcyclicOrder
  OBVIOUS
<1>1. A!Start \in Acyclic.vertices /\ Root \in Names /\ A!Start.vertex = Root
  BY AcyclicVertices
<1>2. /\ DOMAIN acyclicLabels = Acyclic.vertices
      /\ \A v \in Acyclic.vertices : acyclicLabels[v] = IF v = A!Start THEN {A!sourceLabel} ELSE {}
  BY DEF A!Init
<1>3. IsLabel(A!sourceLabel, A!Start)
  BY <1>1, SizeAssumption DEF IsLabel, A!sourceLabel, A!label
<1>4. \A v \in Acyclic.vertices : IsFiniteSet(acyclicLabels[v]) /\ \A l \in acyclicLabels[v] : IsLabel(l, v)
  <2>1. IsFiniteSet({A!sourceLabel}) /\ IsFiniteSet({})  BY FS_EmptySet, FS_Singleton
  <2> QED BY <1>2, <1>3, <2>1
<1>5. \A v \in Acyclic.vertices : \A l, m \in acyclicLabels[v] : l.prefix = m.prefix => l = m
  BY <1>2
<1>6. /\ costs \in Acyclic.costs /\ request \in Acyclic.requests /\ otherPc = "bounds"
      /\ todo = Acyclic.vertices /\ at = A!Start /\ open = {} /\ pos = A!Start /\ spent = 0
  BY DEF A!Init, A!RouterInit, A!RivalInit
<1> QED BY <1>1, <1>2, <1>4, <1>5, <1>6 DEF AcyclicTypes, AcyclicOrder

\* Relaxed labels are labels.
LEMMA RelaxedTypes ==
  ASSUME AcyclicTypes, NEW l \in open
  PROVE  LET new == A!Relaxed(l) IN
         /\ DOMAIN new = Acyclic.vertices
         /\ \A v \in Acyclic.vertices : IsFiniteSet(new[v]) /\ \A k \in new[v] : IsLabel(k, v)
         /\ \A v \in Acyclic.vertices : \A k, m \in new[v] : k.prefix = m.prefix => k = m
<1> DEFINE new == A!Relaxed(l)
<1>1. DOMAIN new = Acyclic.vertices  BY DEF A!Relaxed
<1>2. ASSUME NEW v \in Acyclic.vertices
      PROVE  /\ IsFiniteSet(new[v]) /\ \A k \in new[v] : IsLabel(k, v)
             /\ \A k, m \in new[v] : k.prefix = m.prefix => k = m
  <2> HIDE DEF new
  <2>1. CASE new[v] = acyclicLabels[v]
    BY <2>1 DEF AcyclicTypes
  <2>2. CASE IsLabel(Onward(l, v), v) /\ new[v] = A!Inserted(acyclicLabels[v], Onward(l, v))
    <3> DEFINE set == acyclicLabels[v]
               k == Onward(l, v)
    <3>1. IsFiniteSet(set) /\ (\A h \in set : IsLabel(h, v)) /\ \A h, m \in set : h.prefix = m.prefix => h = m
      BY DEF AcyclicTypes
    <3>2. IsLabel(k, v) /\ new[v] = A!Inserted(set, k)  BY <2>2
    <3> HIDE DEF set, k
    <3>3. /\ IsFiniteSet(A!Inserted(set, k)) /\ A!Inserted(set, k) \subseteq set \cup {k}
          /\ \A h, m \in A!Inserted(set, k) : h.prefix = m.prefix => h = m
      BY <3>1, InsertedIs
    <3> QED BY <3>1, <3>2, <3>3
  <2> QED BY <2>1, <2>2, RelaxedIs DEF new
<1> QED BY <1>1, <1>2

\* The vertex the loop is at keeps its labels: edges lead on.
LEMMA RelaxedElsewhere ==
  ASSUME AcyclicTypes, NEW l \in open
  PROVE  \A v \in Acyclic.vertices : v.time <= at.time => A!Relaxed(l)[v] = acyclicLabels[v]
<1> SUFFICES ASSUME NEW v \in Acyclic.vertices, v.time <= at.time, A!EdgeTo(at, v) \in A!Outgoing(at) PROVE FALSE
  BY RelaxedIs
<1>1. A!EdgeTo(at, v) \in Acyclic.edges /\ A!EdgeTo(at, v).source = at /\ A!EdgeTo(at, v).target = v
  BY DEF A!Outgoing, A!EdgeTo
<1>2. at.time < v.time /\ at.time \in Nat /\ v.time \in Nat
  BY <1>1, AcyclicEdges
<1> QED BY <1>2

LEMMA AcyclicSearchStep ==
  ASSUME AcyclicTypes, AcyclicOrder, A!HoleFreeSearch
  PROVE  AcyclicTypes' /\ AcyclicOrder'
<1> DEFINE Fit(labs) ==
             /\ DOMAIN labs = Acyclic.vertices
             /\ \A v \in Acyclic.vertices : IsFiniteSet(labs[v]) /\ \A l \in labs[v] : IsLabel(l, v)
             /\ \A v \in Acyclic.vertices : \A l, m \in labs[v] : l.prefix = m.prefix => l = m
<1>1. /\ UNCHANGED <<costs, request, pos, trail, spent>>
      /\ costs \in Acyclic.costs /\ request \in Acyclic.requests /\ pos \in Acyclic.vertices /\ spent \in Int
      /\ Fit(acyclicLabels) /\ at \in Acyclic.vertices /\ open \subseteq acyclicLabels[at] /\ todo \subseteq Acyclic.vertices
  BY SearchKeeps DEF AcyclicTypes
<1>2. ASSUME otherPc' \in {"bounds", "search", "done"}, todo' \subseteq Acyclic.vertices, Fit(acyclicLabels'),
             at' \in Acyclic.vertices, open' \subseteq acyclicLabels'[at']
      PROVE  AcyclicTypes'
  BY <1>1, <1>2 DEF AcyclicTypes
<1> HIDE DEF Fit
<1>3. \A v \in Acyclic.vertices : v.time \in Nat  BY AcyclicVertices
<1>4. CASE otherPc = "bounds" /\ UNCHANGED <<otherPc, acyclicLabels, at, open>> /\ \E v \in Acyclic.vertices : A!Bound(v)
  <2>1. PICK v \in Acyclic.vertices : A!Bound(v)  BY <1>4
  <2>2. v \in todo /\ (\A w \in todo : w.time <= v.time) /\ todo' = todo \ {v}  BY <2>1 DEF A!Bound
  <2>3. AcyclicOrder'  BY <1>1, <1>3, <1>4, <2>2 DEF AcyclicOrder
  <2> QED BY <1>1, <1>2, <1>4, <2>2, <2>3
<1>5. CASE /\ otherPc = "bounds" /\ otherPc' = "search" /\ todo = {} /\ todo' = Acyclic.vertices
           /\ UNCHANGED <<bounds, acyclicLabels, at, open, allPaths, valuedPaths>>
  BY <1>1, <1>2, <1>5 DEF AcyclicOrder
<1>6. CASE /\ otherPc = "search" /\ UNCHANGED <<otherPc, bounds, acyclicLabels, allPaths, valuedPaths>>
           /\ \E v \in Acyclic.vertices : A!Arrive(v)
  <2>1. PICK v \in Acyclic.vertices : A!Arrive(v)  BY <1>6
  <2>2. /\ v \in todo /\ (\A w \in todo : v.time <= w.time) /\ todo' = todo \ {v} /\ at' = v
        /\ open' \subseteq acyclicLabels[v]
    BY <2>1 DEF A!Arrive, A!Visit, A!Due
  <2>3. AcyclicOrder'  BY <1>1, <1>3, <1>6, <2>2 DEF AcyclicOrder
  <2> QED BY <1>1, <1>2, <1>6, <2>2, <2>3
<1>7. CASE /\ otherPc = "search" /\ UNCHANGED <<otherPc, bounds, todo, at>>
           /\ \E l \in open : /\ open' = open \ {l}
                              /\ UNCHANGED acyclicLabels \/ acyclicLabels' = A!Relaxed(l)
  <2>1. PICK l \in open : open' = open \ {l} /\ (UNCHANGED acyclicLabels \/ acyclicLabels' = A!Relaxed(l))
    BY <1>7
  <2>2. AcyclicOrder'  BY <1>7, <2>1 DEF AcyclicOrder
  <2>3. Fit(acyclicLabels')
    <3>1. CASE UNCHANGED acyclicLabels  BY <1>1, <3>1
    <3>2. CASE acyclicLabels' = A!Relaxed(l)  BY <3>2, RelaxedTypes DEF Fit
    <3> QED BY <2>1, <3>1, <3>2
  <2>4. acyclicLabels'[at] = acyclicLabels[at]
    <3>1. at.time <= at.time  BY <1>1, <1>3
    <3> QED BY <1>1, <2>1, <3>1, RelaxedElsewhere
  <2> QED BY <1>1, <1>2, <1>7, <2>1, <2>2, <2>3, <2>4
<1>8. CASE /\ otherPc = "search" /\ otherPc' = "done" /\ todo = {} /\ open = {}
           /\ UNCHANGED <<todo, bounds, acyclicLabels, at, open, allPaths, valuedPaths>>
  BY <1>1, <1>2, <1>8 DEF AcyclicOrder
<1> QED BY <1>4, <1>5, <1>6, <1>7, <1>8, AcyclicSteps

\* A step of the rival.
LEMMA AcyclicRivalStep ==
  ASSUME AcyclicTypes, AcyclicOrder, A!Rival
  PROVE  AcyclicTypes' /\ AcyclicOrder'
<1>1. PICK e \in Acyclic.edges : A!Walk(e, Size) /\ UNCHANGED A!searchVars
  BY DEF A!Rival
<1>2. /\ pos' = e.target /\ spent' = spent + costs[e]
      /\ UNCHANGED <<costs, request, otherPc, todo, bounds, acyclicLabels, at, open>>
  BY <1>1 DEF A!Walk, A!arguments, A!searchVars
<1>3. costs[e] \in Int /\ e.target \in Acyclic.vertices
  BY AcyclicArguments, AcyclicEdges
<1>4. pos' \in Acyclic.vertices /\ spent' \in Int
  BY <1>2, <1>3 DEF AcyclicTypes
<1> QED BY <1>2, <1>4 DEF AcyclicTypes, AcyclicOrder

LEMMA AcyclicStutter ==
  ASSUME AcyclicTypes, AcyclicOrder, UNCHANGED A!vars
  PROVE  AcyclicTypes' /\ AcyclicOrder'
<1>1. UNCHANGED <<costs, request, otherPc, todo, bounds, acyclicLabels, at, open, pos, spent>>
  BY DEF A!vars, A!arguments, A!searchVars, A!rivalVars
<1> QED BY <1>1 DEF AcyclicTypes, AcyclicOrder

\* A dominated label has no extension that its rivals do not have.
LEMMA DominatedIsCovered == AcyclicTypes => A!DominanceIsSound
<1> SUFFICES ASSUME AcyclicTypes PROVE A!DominanceIsSound
  OBVIOUS
<1> DEFINE Exts == [1 .. Size -> Names]
           allowed(m) == {x \in Exts : Allows(m.prefix, x)}
<1>1. ASSUME NEW l \in open, A!isDominated(l)
      PROVE  \A x \in allowed(l) : \E m \in A!Rivals(l) : x \in allowed(m)
  <2>1. IsLabel(l, at) /\ IsFiniteSet(acyclicLabels[at]) /\ \A m \in acyclicLabels[at] : IsLabel(m, at)
    BY DEF AcyclicTypes
  <2>2. A!Rivals(l) \subseteq acyclicLabels[at]  BY DEF A!Rivals
  <2>3. IsFiniteSet(A!Rivals(l))  BY <2>1, <2>2, FS_Subset
  <2>4. \A m \in A!Rivals(l) : m.prefix \in Seq(Names) /\ Len(m.prefix) \in 1 .. Size
    BY <2>1, <2>2 DEF IsLabel
  <2>5. l.prefix \in Seq(Names) /\ Len(l.prefix) \in 1 .. Size  BY <2>1 DEF IsLabel
  <2> SUFFICES ASSUME NEW x \in Exts, Allows(l.prefix, x) PROVE \E m \in A!Rivals(l) : Allows(m.prefix, x)
    OBVIOUS
  <2> QED BY <1>1, <2>3, <2>4, <2>5, DominanceLosesNothing
<1>2. A!DominanceIsSound <=>
        \A l \in open : A!isDominated(l) => allowed(l) \subseteq UNION {allowed(m) : m \in A!Rivals(l)}
  BY DEF A!DominanceIsSound, Allows, Names
<1> HIDE DEF allowed
<1> QED BY <1>1, <1>2

-----------------------------------------------------------------------------
(* Paths and their costs.                                                  *)

\* A function that is given at an element by its value at another one, of lower rank.
IsRecursion(g, D, stop, base, prev, G, V) ==
  /\ g \in [D -> V]
  /\ \A x \in D : g[x] = IF x \in stop THEN base ELSE G[x][g[prev[x]]]

LEMMA RecursionExists ==
  ASSUME NEW D, NEW N \in Nat, NEW rank \in [D -> 0 .. N], NEW stop, NEW prev \in [D -> D],
         \A x \in D \ stop : rank[prev[x]] < rank[x],
         NEW V, NEW base \in V, NEW G \in [D -> [V -> V]]
  PROVE  \E g : IsRecursion(g, D, stop, base, prev, G, V)
<1> DEFINE Low(n) == {x \in D : rank[x] <= n}
           Solves(g, n) == \A x \in Low(n) : g[x] = IF x \in stop THEN base ELSE G[x][g[prev[x]]]
           T == {n \in Nat : \E g \in [Low(n) -> V] : Solves(g, n)}
<1>0. \A x \in D : rank[x] \in Nat /\ prev[x] \in D  OBVIOUS
<1>1. 0 \in T
  <2> DEFINE g == [x \in Low(0) |-> base]
  <2>1. \A x \in Low(0) : x \in stop  BY <1>0
  <2>2. g \in [Low(0) -> V] /\ Solves(g, 0)  BY <2>1
  <2> HIDE DEF g
  <2> QED BY <2>2
<1>2. \A n \in T : n + 1 \in T
  <2> TAKE n \in T
  <2>1. PICK g \in [Low(n) -> V] : Solves(g, n)  OBVIOUS
  <2>2. n \in Nat  OBVIOUS
  <2> DEFINE h == [x \in Low(n + 1) |->
                     IF x \in Low(n) THEN g[x] ELSE IF x \in stop THEN base ELSE G[x][g[prev[x]]]]
  <2>3. \A x \in Low(n + 1) : x \notin stop => prev[x] \in Low(n) /\ prev[x] \in Low(n + 1)
    BY <1>0, <2>2
  <2>4. h \in [Low(n + 1) -> V]
    <3> SUFFICES ASSUME NEW x \in Low(n + 1), x \notin Low(n), x \notin stop
                 PROVE  G[x][g[prev[x]]] \in V
      BY <2>1
    <3>1. g[prev[x]] \in V  BY <2>1, <2>3
    <3>2. G[x] \in [V -> V]  OBVIOUS
    <3> QED BY <3>1, <3>2
  <2>5. Solves(h, n + 1)
    <3> SUFFICES ASSUME NEW x \in Low(n + 1)
                 PROVE  h[x] = IF x \in stop THEN base ELSE G[x][h[prev[x]]]
      OBVIOUS
    <3>1. x \notin stop => h[prev[x]] = g[prev[x]]  BY <2>3
    <3>2. CASE x \in Low(n)
      <4>1. h[x] = g[x]  BY <3>2
      <4>2. g[x] = IF x \in stop THEN base ELSE G[x][g[prev[x]]]  BY <2>1, <3>2
      <4> QED BY <3>1, <4>1, <4>2
    <3>3. CASE x \notin Low(n)
      <4>1. h[x] = IF x \in stop THEN base ELSE G[x][g[prev[x]]]  BY <3>3
      <4> QED BY <3>1, <4>1
    <3> QED BY <3>2, <3>3
  <2> HIDE DEF h, Solves, Low
  <2> QED BY <2>2, <2>4, <2>5
<1>3. T = Nat
  <2>1. T \in SUBSET Nat  OBVIOUS
  <2> HIDE DEF T
  <2> QED BY <1>1, <1>2, <2>1, Induction
<1>4. Low(N) = D  OBVIOUS
<1>5. PICK g \in [Low(N) -> V] : Solves(g, N)  BY <1>3
<1>6. g \in [D -> V] /\ \A x \in D : g[x] = IF x \in stop THEN base ELSE G[x][g[prev[x]]]
  BY <1>4, <1>5
<1> QED BY <1>6 DEF IsRecursion

\* The sum of c along p.
Total(c, p) ==
  LET f[i \in 0 .. Len(p)] == IF i = 0 THEN 0 ELSE f[i - 1] + c[p[i]]
  IN  f[Len(p)]

LEMMA PathCostIsTotal == \A p : /\ PathCost(p) = Total(costs, p)
                                /\ S!PathCost(p) = Total(costs, p)
                                /\ A!PathCost(p) = Total(costs, p)
  BY DEF PathCost, S!PathCost, A!PathCost, Total

\* The partial sums.
Sums(g, c, p) == g = [i \in 0 .. Len(p) |-> IF i = 0 THEN 0 ELSE g[i - 1] + c[p[i]]]

LEMMA SumsExist ==
  ASSUME NEW E, NEW c \in [E -> Int], NEW p \in Seq(E)
  PROVE  \E g \in [0 .. Len(p) -> Int] : Sums(g, c, p)
<1> DEFINE N == Len(p)
           D == 0 .. N
           rank == [i \in D |-> i]
           prev == [i \in D |-> IF i = 0 THEN 0 ELSE i - 1]
           G == [i \in D |-> [n \in Int |-> IF i = 0 THEN n ELSE n + c[p[i]]]]
<1>1. N \in Nat /\ \A i \in 1 .. N : c[p[i]] \in Int
  BY LenProperties, ElementOfSeq
<1>2. rank \in [D -> 0 .. N] /\ prev \in [D -> D] /\ \A x \in D \ {0} : rank[prev[x]] < rank[x]
  BY <1>1
<1>3. G \in [D -> [Int -> Int]]
  BY <1>1
<1>4. PICK g : IsRecursion(g, D, {0}, 0, prev, G, Int)
  <2> HIDE DEF N, rank, prev, G, D
  <2>1. 0 \in Int  OBVIOUS
  <2> QED BY <1>1, <1>2, <1>3, <2>1, RecursionExists DEF D
<1>5. g \in [D -> Int] /\ \A i \in D : g[i] = IF i = 0 THEN 0 ELSE G[i][g[prev[i]]]
  <2> HIDE DEF N, rank, prev, G, D
  <2> QED BY <1>4 DEF IsRecursion
<1>6. ASSUME NEW i \in D PROVE g[i] = IF i = 0 THEN 0 ELSE g[i - 1] + c[p[i]]
  <2>1. CASE i = 0  BY <1>5, <2>1
  <2>2. CASE i # 0
    <3>0. i \in D /\ i - 1 \in D  BY <1>1, <2>2
    <3>1. prev[i] = i - 1  BY <2>2
    <3>3. g[i - 1] \in Int
      <4> HIDE DEF D, G, prev
      <4> QED BY <1>5, <3>0
    <3>2. \A n \in Int : G[i][n] = n + c[p[i]]  BY <2>2
    <3> HIDE DEF G, prev
    <3> QED BY <1>5, <2>2, <3>1, <3>2, <3>3
  <2> QED BY <2>1, <2>2
<1> QED BY <1>5, <1>6 DEF Sums

\* Where two of them are defined they agree.
LEMMA SumsAgree ==
  ASSUME NEW n \in Nat, NEW c, NEW p, NEW q, NEW g, NEW h, Sums(g, c, p), Sums(h, c, q),
         n <= Len(p), n <= Len(q), Len(p) \in Nat, Len(q) \in Nat, \A i \in 1 .. n : p[i] = q[i]
  PROVE  g[n] = h[n]
<1> DEFINE T == {k \in Nat : k <= n => g[k] = h[k]}
<1>1. \A k \in 0 .. n : /\ g[k] = IF k = 0 THEN 0 ELSE g[k - 1] + c[p[k]]
                        /\ h[k] = IF k = 0 THEN 0 ELSE h[k - 1] + c[q[k]]
  <2> TAKE k \in 0 .. n
  <2>1. k \in 0 .. Len(p) /\ k \in 0 .. Len(q)  OBVIOUS
  <2>2. g[k] = IF k = 0 THEN 0 ELSE g[k - 1] + c[p[k]]  BY <2>1 DEF Sums
  <2>3. h[k] = IF k = 0 THEN 0 ELSE h[k - 1] + c[q[k]]  BY <2>1 DEF Sums
  <2> QED BY <2>2, <2>3
<1>2. 0 \in T  BY <1>1
<1>3. \A k \in T : k + 1 \in T
  <2> SUFFICES ASSUME NEW k \in T, k + 1 <= n PROVE g[k + 1] = h[k + 1]
    OBVIOUS
  <2>1. k \in Nat /\ k <= n /\ k + 1 \in 0 .. n /\ k + 1 # 0 /\ (k + 1) - 1 = k /\ k + 1 \in 1 .. n
    OBVIOUS
  <2>2. g[k] = h[k] /\ p[k + 1] = q[k + 1]  BY <2>1
  <2>3. g[k + 1] = g[(k + 1) - 1] + c[p[k + 1]] /\ h[k + 1] = h[(k + 1) - 1] + c[q[k + 1]]
    BY <1>1, <2>1
  <2> QED BY <2>1, <2>2, <2>3
<1>4. T = Nat
  <2>1. T \in SUBSET Nat  OBVIOUS
  <2> HIDE DEF T
  <2> QED BY <1>2, <1>3, <2>1, Induction
<1> QED BY <1>4

LEMMA TotalIs ==
  ASSUME NEW E, NEW c \in [E -> Int], NEW p \in Seq(E)
  PROVE  \E g \in [0 .. Len(p) -> Int] : Sums(g, c, p) /\ Total(c, p) = g[Len(p)]
<1>1. Total(c, p) = (CHOOSE g : Sums(g, c, p))[Len(p)]
  BY DEF Total, Sums
<1>2. PICK h \in [0 .. Len(p) -> Int] : Sums(h, c, p)  BY SumsExist
<1> DEFINE g == CHOOSE g : Sums(g, c, p)
<1>3. Sums(g, c, p)  BY <1>2
<1> HIDE DEF g
<1>4. Len(p) \in Nat  BY LenProperties
<1>5. g = h
  <2>1. \A n \in 0 .. Len(p) : g[n] = h[n]
    <3> TAKE n \in 0 .. Len(p)
    <3>1. n \in Nat /\ n <= Len(p)  BY <1>4
    <3> QED BY <1>2, <1>3, <1>4, <3>1, SumsAgree
  <2>2. DOMAIN g = 0 .. Len(p) /\ g = [i \in DOMAIN g |-> g[i]]
    <3>1. g = [i \in 0 .. Len(p) |-> IF i = 0 THEN 0 ELSE g[i - 1] + c[p[i]]]  BY <1>3 DEF Sums
    <3> QED BY <3>1
  <2> QED BY <2>1, <2>2
<1> QED BY <1>1, <1>2, <1>5 DEF g

LEMMA NothingIsFree ==
  ASSUME NEW E, NEW c \in [E -> Int]
  PROVE  Total(c, <<>>) = 0
<1> DEFINE p == <<>>
<1>1. p \in Seq(E) /\ Len(p) = 0  OBVIOUS
<1> HIDE DEF p
<1>2. PICK f \in [0 .. Len(p) -> Int] : Sums(f, c, p) /\ Total(c, p) = f[Len(p)]  BY <1>1, TotalIs
<1>3. f[0] = 0  BY <1>1, <1>2 DEF Sums
<1> QED BY <1>1, <1>2, <1>3 DEF p

\* One more edge costs what it costs.
LEMMA TotalGrows ==
  ASSUME NEW E, NEW c \in [E -> Int], NEW p \in Seq(E), NEW e \in E
  PROVE  Total(c, p) \in Int /\ Total(c, Append(p, e)) = Total(c, p) + c[e]
<1> DEFINE q == Append(p, e)
<1>1. q \in Seq(E) /\ Len(q) = Len(p) + 1 /\ (\A i \in 1 .. Len(p) : q[i] = p[i]) /\ q[Len(p) + 1] = e
      /\ Len(p) \in Nat
  BY AppendProperties, LenProperties
<1> HIDE DEF q
<1>2. PICK g \in [0 .. Len(p) -> Int] : Sums(g, c, p) /\ Total(c, p) = g[Len(p)]  BY TotalIs
<1>3. PICK h \in [0 .. Len(q) -> Int] : Sums(h, c, q) /\ Total(c, q) = h[Len(q)]  BY <1>1, TotalIs
<1>4. g[Len(p)] = h[Len(p)]
  <2> DEFINE n == Len(p)
  <2>1. /\ n <= Len(p) /\ n <= Len(q) /\ n \in Nat /\ Len(p) \in Nat /\ Len(q) \in Nat
        /\ \A i \in 1 .. n : p[i] = q[i]
    BY <1>1
  <2>2. Sums(g, c, p) /\ Sums(h, c, q)  BY <1>2, <1>3
  <2> HIDE DEF n
  <2>3. g[n] = h[n]  BY <2>1, <2>2, SumsAgree
  <2> QED BY <2>3 DEF n
<1>5. h[Len(q)] = h[Len(p)] + c[e]
  <2>1. Len(q) \in 0 .. Len(q) /\ Len(q) # 0 /\ Len(q) - 1 = Len(p)  BY <1>1
  <2>2. h[Len(q)] = h[Len(q) - 1] + c[q[Len(q)]]  BY <1>3, <2>1 DEF Sums
  <2> QED BY <1>1, <2>1, <2>2
<1>6. Len(p) \in 0 .. Len(p)  BY <1>1
<1>8. Total(c, p) \in Int  BY <1>2, <1>6
<1> QED BY <1>1, <1>2, <1>3, <1>4, <1>5, <1>8 DEF q

-----------------------------------------------------------------------------
(* The paths that are collected.                                           *)

\* A heap has its least element in front.
LEMMA FrontIsLeast ==
  ASSUME NEW U, NEW s \in Seq([path : U, value : Int]), HeapOrdered(s)
  PROVE  \A i \in 1 .. Len(s) : s[1].value <= s[i].value
<1> DEFINE N == Len(s)
           T == {i \in Nat : i \in 1 .. N /\ ~ (s[1].value <= s[i].value)}
<1>1. N \in Nat /\ \A i \in 1 .. N : s[i].value \in Int
  <2>1. N \in Nat  BY LenProperties
  <2>2. \A i \in 1 .. N : s[i] \in [path : U, value : Int]  BY ElementOfSeq
  <2> QED BY <2>1, <2>2
<1> SUFFICES ASSUME T # {} PROVE FALSE
  BY <1>1
<1>2. PICK i \in T : \A j \in T : i <= j
  <2>1. T \in SUBSET Nat  OBVIOUS
  <2> HIDE DEF T
  <2> QED BY <2>1, LeastExists
<1>3. i \in 1 .. N /\ i # 1 /\ ~ (s[1].value <= s[i].value)
  BY <1>1, <1>2
<1>4. i \in 2 .. N /\ i \div 2 \in 1 .. N /\ i \div 2 < i
  BY <1>1, <1>3
<1>5. s[i \div 2].value <= s[i].value
  BY <1>4 DEF HeapOrdered
<1>6. i \div 2 \notin T
  <2> DEFINE j == i \div 2
  <2>1. j < i /\ j \in Nat /\ i \in Nat  BY <1>4
  <2> HIDE DEF j, T
  <2>2. j \notin T  BY <1>2, <2>1
  <2> QED BY <2>2 DEF j
<1>7. s[1].value <= s[i \div 2].value
  BY <1>4, <1>6
<1>8. 1 \in 1 .. N  BY <1>1, <1>3
<1>9. s[1].value \in Int /\ s[i].value \in Int /\ s[i \div 2].value \in Int  BY <1>1, <1>3, <1>4, <1>8
<1> QED BY <1>3, <1>5, <1>7, <1>9

\* The elements of r are those of s and x.
Rearranged(r, s, x) ==
  \E q \in [1 .. Len(r) -> 1 .. Len(r)] :
    /\ \A i, j \in 1 .. Len(r) : q[i] = q[j] => i = j
    /\ \A j \in 1 .. Len(r) : \E i \in 1 .. Len(r) : q[i] = j
    /\ \A i \in 1 .. Len(r) : r[i] = IF q[i] = Len(r) THEN x ELSE s[q[i]]

\* What push_heap may leave has the old elements and the new one, and no others.
LEMMA PushedIs ==
  ASSUME NEW U, NEW s \in Seq(U), NEW x \in U, NEW r \in Pushed(s, x)
  PROVE  r \in Seq(U) /\ Len(r) = Len(s) + 1 /\ HeapOrdered(r) /\ Rearranged(r, s, x)
<1> DEFINE t == Append(s, x)
           N == Len(s) + 1
<1>1. t \in Seq(U) /\ Len(t) = N /\ N \in Nat /\ Len(s) \in Nat
      /\ \A i \in 1 .. N : t[i] = IF i = N THEN x ELSE s[i]
  <2>1. /\ Append(s, x) \in Seq(U) /\ Len(Append(s, x)) = Len(s) + 1
        /\ \A i \in 1 .. Len(s) : Append(s, x)[i] = s[i]
        /\ Append(s, x)[Len(s) + 1] = x
    BY AppendProperties
  <2>2. Len(s) \in Nat  BY LenProperties
  <2>3. \A i \in 1 .. N : i = N \/ i \in 1 .. Len(s)  BY <2>2
  <2> QED BY <2>1, <2>2, <2>3
<1> HIDE DEF t
<1>2. PICK q \in [1 .. Len(t) -> 1 .. Len(t)] :
        (\A i, j \in 1 .. Len(t) : q[i] = q[j] => i = j) /\ r = [i \in 1 .. Len(t) |-> t[q[i]]]
  BY DEF Pushed, t
<1>3. HeapOrdered(r)  BY DEF Pushed
<1> HIDE DEF N
<1>4. q \in [1 .. N -> 1 .. N] /\ (\A i, j \in 1 .. N : q[i] = q[j] => i = j) /\ r = [i \in 1 .. N |-> t[q[i]]]
  BY <1>1, <1>2
<1>5. r \in Seq(U) /\ Len(r) = N
  <2>1. \A i \in 1 .. N : t[q[i]] \in U
    <3>1. \A j \in 1 .. N : t[j] \in U  BY <1>1, ElementOfSeq
    <3> QED BY <1>4, <3>1
  <2>2. r \in [1 .. N -> U]  BY <1>4, <2>1
  <2> QED BY <1>1, <2>2
<1>6. \A j \in 1 .. N : \E i \in 1 .. N : q[i] = j
  <2>1. q \in Injection(1 .. N, 1 .. N)  BY <1>4 DEF Injection, IsInjective
  <2>2. IsFiniteSet(1 .. N)
    <3>1. 1 \in Int /\ N \in Int  BY <1>1
    <3> QED BY <3>1, FS_Interval
  <2>3. q \in Surjection(1 .. N, 1 .. N)
    <3> DEFINE D == 1 .. N
    <3>1. q \in Injection(D, D) /\ IsFiniteSet(D)  BY <2>1, <2>2
    <3> HIDE DEF D
    <3>2. Cardinality(D) = Cardinality(D) <=> q \in Surjection(D, D)  BY <3>1, FS_Injection
    <3> QED BY <3>2 DEF D
  <2> QED BY <2>3 DEF Surjection
<1>7. \A i \in 1 .. N : r[i] = IF q[i] = N THEN x ELSE s[q[i]]
  BY <1>1, <1>4
<1>8. Len(r) = Len(s) + 1  BY <1>5 DEF N
<1>9. N = Len(r)  BY <1>5
<1>10. /\ q \in [1 .. Len(r) -> 1 .. Len(r)]
       /\ \A i, j \in 1 .. Len(r) : q[i] = q[j] => i = j
       /\ \A j \in 1 .. Len(r) : \E i \in 1 .. Len(r) : q[i] = j
       /\ \A i \in 1 .. Len(r) : r[i] = IF q[i] = Len(r) THEN x ELSE s[q[i]]
  BY <1>4, <1>6, <1>7, <1>9
<1>11. Rearranged(r, s, x)  BY <1>10 DEF Rearranged
<1> QED BY <1>3, <1>5, <1>8, <1>11

\* The paths kept: different ones, as many as may be, in a heap.
Kept(P, max) ==
  /\ valuedPaths \in Seq([path : P, value : Int]) /\ Len(valuedPaths) <= max
  /\ HeapOrdered(valuedPaths)
  /\ \A i \in 1 .. Len(valuedPaths) : valuedPaths[i].path \in allPaths /\ valuedPaths[i].value < Inf
  /\ \A i, j \in 1 .. Len(valuedPaths) : valuedPaths[i].path = valuedPaths[j].path => i = j

\* The best value is no more than the cutoff, which is inf at most.
LEMMA BestIsLeast ==
  ASSUME NEW P, NEW max, Kept(P, max), Inf \in Nat
  PROVE  bestValue \in Int /\ cutoffValue \in Int /\ bestValue <= cutoffValue /\ cutoffValue <= Inf
<1>1. CASE valuedPaths = <<>>
  BY <1>1 DEF bestValue, cutoffValue
<1>2. CASE valuedPaths # <<>>
  <2> DEFINE N == Len(valuedPaths)
  <2>1. N \in 1 .. N /\ 1 \in 1 .. N  BY <1>2, EmptySeq DEF Kept
  <2>2. valuedPaths[1].value <= valuedPaths[N].value  BY <2>1, FrontIsLeast DEF Kept
  <2>3. \A i \in 1 .. N : valuedPaths[i].value \in Int
    <3>1. \A i \in 1 .. N : valuedPaths[i] \in [path : P, value : Int]  BY ElementOfSeq DEF Kept
    <3> QED BY <3>1
  <2>4. valuedPaths[N].value < Inf  BY <2>1 DEF Kept
  <2> QED BY <1>2, <2>1, <2>2, <2>3, <2>4 DEF bestValue, cutoffValue
<1> QED BY <1>1, <1>2

\* What an insertion does: it keeps the heap, and the least value counts what was offered.
LEMMA InsertKeeps ==
  ASSUME NEW P, NEW max \in Nat \ {0}, Kept(P, max), Inf \in Nat,
         NEW path \in P, NEW value \in Int, value < Inf, Insert(path, value, max)
  PROVE  /\ Kept(P, max)' /\ allPaths' = allPaths \cup {path}
         /\ path \in allPaths => UNCHANGED valuedPaths
         /\ path \notin allPaths => bestValue' = IF value < bestValue THEN value ELSE bestValue
         /\ \A i \in 1 .. Len(valuedPaths)' :
              \/ valuedPaths'[i] = [path |-> path, value |-> value]
              \/ \E j \in 1 .. Len(valuedPaths) : valuedPaths'[i] = valuedPaths[j]
<1> DEFINE entry == [path |-> path, value |-> value]
           E == [path : P, value : Int]
<1>1. CASE path \in allPaths /\ UNCHANGED pathSetVars
  <2>1. UNCHANGED <<allPaths, valuedPaths>>  BY <1>1 DEF pathSetVars
  <2>2. Kept(P, max)'  BY <2>1 DEF Kept
  <2> QED BY <1>1, <2>1, <2>2
<1>2. CASE path \notin allPaths /\ allPaths' = allPaths \cup {path} /\ value >= cutoffValue /\ UNCHANGED valuedPaths
  <2>1. bestValue' = bestValue  BY <1>2 DEF bestValue
  <2>2. Kept(P, max)'  BY <1>2 DEF Kept
  <2>3. ~ (value < bestValue)  BY <1>2, BestIsLeast
  <2> QED BY <1>2, <2>1, <2>2, <2>3
<1>3. CASE /\ path \notin allPaths /\ allPaths' = allPaths \cup {path} /\ value < cutoffValue
           /\ \E r \in Pushed(valuedPaths, entry) :
                valuedPaths' = SubSeq(r, 1, IF Len(r) < max THEN Len(r) ELSE max)
  <2>1. PICK r \in Pushed(valuedPaths, entry) : valuedPaths' = SubSeq(r, 1, IF Len(r) < max THEN Len(r) ELSE max)
    BY <1>3
  <2>2. valuedPaths \in Seq(E) /\ entry \in E /\ Len(valuedPaths) \in Nat /\ HeapOrdered(valuedPaths)
    BY LenProperties DEF Kept
  <2> DEFINE n == Len(valuedPaths)
             N == Len(r)
             k == IF N < max THEN N ELSE max
  <2> HIDE DEF entry, E
  <2>3. r \in Seq(E) /\ N = n + 1 /\ HeapOrdered(r) /\ Rearranged(r, valuedPaths, entry)
    <3> HIDE DEF k
    <3>1. r \in Pushed(valuedPaths, entry) /\ valuedPaths \in Seq(E) /\ entry \in E  BY <2>1, <2>2
    <3> QED BY <3>1, PushedIs
  <2>4. PICK q \in [1 .. N -> 1 .. N] :
             /\ \A i, j \in 1 .. N : q[i] = q[j] => i = j
             /\ \A j \in 1 .. N : \E i \in 1 .. N : q[i] = j
             /\ \A i \in 1 .. N : r[i] = IF q[i] = N THEN entry ELSE valuedPaths[q[i]]
    BY <2>3 DEF Rearranged
  <2>5. n \in Nat /\ N = n + 1 /\ k \in 1 .. N /\ k <= max /\ N \in Nat  BY <2>2, <2>3
  <2>6. valuedPaths' \in Seq(E) /\ Len(valuedPaths') = k /\ \A i \in 1 .. k : valuedPaths'[i] = r[i]
    <3> HIDE DEF k
    <3>1. \A i \in 1 .. k : r[i] \in E
      <4>1. \A i \in 1 .. N : r[i] \in E  BY <2>3, ElementOfSeq
      <4> QED BY <4>1, <2>5
    <3>2. k \in Int /\ 1 <= k /\ k - 1 + 1 = k /\ \A i \in 1 .. k : 1 + i - 1 = i  BY <2>5
    <3>3. /\ SubSeq(r, 1, k) \in Seq(E) /\ Len(SubSeq(r, 1, k)) = IF 1 <= k THEN k - 1 + 1 ELSE 0
          /\ \A i \in 1 .. k - 1 + 1 : SubSeq(r, 1, k)[i] = r[1 + i - 1]
      BY <3>1, <3>2, SubSeqProperties
    <3>4. valuedPaths' = SubSeq(r, 1, k)  BY <2>1 DEF k
    <3> QED BY <3>2, <3>3, <3>4
  <2> HIDE DEF n, N, k
  <2>7. HeapOrdered(valuedPaths')
    <3>1. \A i \in 2 .. k : i \in 2 .. N /\ i \in 1 .. k /\ i \div 2 \in 1 .. k  BY <2>5
    <3> QED BY <2>3, <2>6, <3>1 DEF HeapOrdered, N
  <2>8. \A i \in 1 .. k : \/ valuedPaths'[i] = entry /\ q[i] = N
                          \/ q[i] \in 1 .. n /\ q[i] # N /\ valuedPaths'[i] = valuedPaths[q[i]]
    <3> TAKE i \in 1 .. k
    <3>1. i \in 1 .. N /\ q[i] \in 1 .. N  BY <2>5
    <3>2. q[i] # N => q[i] \in 1 .. n  BY <2>5, <3>1
    <3>3. valuedPaths'[i] = IF q[i] = N THEN entry ELSE valuedPaths[q[i]]  BY <2>4, <2>6, <3>1
    <3> QED BY <3>1, <3>2, <3>3
  <2>9. entry.path = path /\ entry.value = value  BY DEF entry
  <2>10. \A i \in 1 .. k : valuedPaths'[i].path \in allPaths' /\ valuedPaths'[i].value < Inf
    <3>1. \A i \in 1 .. n : valuedPaths[i].path \in allPaths /\ valuedPaths[i].value < Inf  BY DEF Kept, n
    <3> QED BY <1>3, <2>8, <2>9, <3>1
  <2>11. ASSUME NEW i \in 1 .. k, NEW j \in 1 .. k, valuedPaths'[i].path = valuedPaths'[j].path PROVE i = j
    <3>1. \A h \in 1 .. n : valuedPaths[h].path # path  BY <1>3 DEF Kept, n
    <3>2. \A g, h \in 1 .. n : valuedPaths[g].path = valuedPaths[h].path => g = h  BY DEF Kept, n
    <3>3. q[i] = q[j]  BY <2>8, <2>9, <2>11, <3>1, <3>2
    <3>4. i \in 1 .. N /\ j \in 1 .. N  BY <2>5
    <3> QED BY <2>4, <3>3, <3>4
  <2>12. Kept(P, max)'
    <3>1. valuedPaths' \in Seq([path : P, value : Int])  BY <2>6 DEF E
    <3> QED BY <2>5, <2>6, <2>7, <2>10, <2>11, <3>1 DEF Kept
  <2>13. bestValue' = IF value < bestValue THEN value ELSE bestValue
    <3>1. bestValue' = r[1].value
      <4>1. valuedPaths' # <<>> /\ 1 \in 1 .. k
        <5>1. k # 0  BY <2>5
        <5> QED BY <2>5, <2>6, <5>1
      <4> QED BY <2>6, <4>1 DEF bestValue
    <3>2. \A i \in 1 .. N : r[1].value <= r[i].value
      <4>1. r \in Seq([path : P, value : Int]) /\ HeapOrdered(r)  BY <2>3 DEF E
      <4> QED BY <4>1, FrontIsLeast DEF N
    <3>3. N \in 1 .. N /\ 1 \in 1 .. N  BY <2>5
    <3>4. r[1].value <= value
      <4>1. PICK i \in 1 .. N : q[i] = N  BY <2>4, <3>3
      <4>2. r[i] = entry  BY <2>4, <4>1
      <4> QED BY <2>9, <3>2, <4>2
    <3>5. r[1].value = value \/ \E j \in 1 .. n : r[1] = valuedPaths[j]
      <4>1. q[1] \in 1 .. N  BY <3>3
      <4>2. q[1] = N \/ q[1] \in 1 .. n  BY <2>5, <4>1
      <4>3. r[1] = IF q[1] = N THEN entry ELSE valuedPaths[q[1]]  BY <2>4, <3>3
      <4> QED BY <2>9, <4>2, <4>3
    <3>6. CASE valuedPaths = <<>>
      <4>1. bestValue = Inf /\ n = 0  BY <3>6 DEF bestValue, n
      <4>2. r[1].value = value  BY <3>5, <4>1
      <4> QED BY <3>1, <4>1, <4>2
    <3>7. CASE valuedPaths # <<>>
      <4>1. bestValue = valuedPaths[1].value /\ 1 \in 1 .. n
        <5>1. n # 0  BY <2>2, <3>7, EmptySeq DEF n
        <5> QED BY <2>5, <3>7, <5>1 DEF bestValue
      <4>2. \A j \in 1 .. n : bestValue <= valuedPaths[j].value
        BY <2>2, <4>1, FrontIsLeast DEF n, E
      <4>3. r[1].value <= bestValue
        <5>1. 1 \in 1 .. N /\ 1 # N  BY <2>5, <4>1
        <5>2. PICK i \in 1 .. N : q[i] = 1  BY <2>4, <5>1
        <5>3. r[i] = valuedPaths[1]  BY <2>4, <5>1, <5>2
        <5> QED BY <3>2, <4>1, <5>3
      <4>4. bestValue \in Int /\ r[1].value \in Int /\ value \in Int
        <5>1. r[1] \in E  BY <2>3, <3>3, ElementOfSeq DEF N
        <5> QED BY <5>1, BestIsLeast DEF E
      <4>5. r[1].value = value \/ bestValue <= r[1].value  BY <3>5, <4>2
      <4> QED BY <3>1, <3>4, <4>3, <4>4, <4>5
    <3> QED BY <3>6, <3>7
  <2>14. \A i \in 1 .. Len(valuedPaths)' :
              \/ valuedPaths'[i] = entry
              \/ \E j \in 1 .. Len(valuedPaths) : valuedPaths'[i] = valuedPaths[j]
    BY <2>6, <2>8 DEF n
  <2> QED BY <1>3, <2>12, <2>13, <2>14 DEF entry
<1> QED BY <1>1, <1>2, <1>3 DEF Insert

\* The paths kept are worth what they cost, and none that was offered costs less
\* than the best of them.
Found(E, max, limit) ==
  /\ Kept(Seq(E), max)
  /\ costs \in [E -> Int]
  /\ \A i \in 1 .. Len(valuedPaths) :
       valuedPaths[i].value = Total(costs, valuedPaths[i].path) /\ valuedPaths[i].value < limit
  /\ allPaths \subseteq Seq(E) /\ \A p \in allPaths : bestValue <= Total(costs, p)

\* What is kept after a path was offered was kept before or is that path.
NoOthers(path) ==
  \A i \in 1 .. Len(valuedPaths') :
    \/ valuedPaths'[i].path = path
    \/ \E j \in 1 .. Len(valuedPaths) : valuedPaths'[i].path = valuedPaths[j].path

LEMMA InsertFinds ==
  ASSUME NEW E, NEW max \in Nat \ {0}, NEW limit \in Int, Found(E, max, limit), Inf \in Nat,
         NEW path \in Seq(E), NEW value, value = Total(costs, path), value < Inf, value < limit,
         Insert(path, value, max), UNCHANGED costs
  PROVE  /\ Found(E, max, limit)' /\ NoOthers(path)
         /\ bestValue' = IF value < bestValue THEN value ELSE bestValue
<1> DEFINE P == Seq(E)
           entry == [path |-> path, value |-> value]
<1>1. Kept(P, max) /\ path \in P /\ costs \in [E -> Int]  BY DEF Found
<1>2. \A p \in P : Total(costs, p) \in Int
  <2> TAKE p \in P
  <2>1. PICK g \in [0 .. Len(p) -> Int] : Sums(g, costs, p) /\ Total(costs, p) = g[Len(p)]
    BY <1>1, TotalIs
  <2>2. Len(p) \in 0 .. Len(p)  BY LenProperties
  <2> QED BY <2>1, <2>2
<1>3. value \in Int  BY <1>1, <1>2
<1> HIDE DEF P
<1>4. /\ Kept(P, max)' /\ allPaths' = allPaths \cup {path}
      /\ path \in allPaths => UNCHANGED valuedPaths
      /\ path \notin allPaths => bestValue' = IF value < bestValue THEN value ELSE bestValue
      /\ \A i \in 1 .. Len(valuedPaths)' :
           \/ valuedPaths'[i] = [path |-> path, value |-> value]
           \/ \E j \in 1 .. Len(valuedPaths) : valuedPaths'[i] = valuedPaths[j]
  BY <1>1, <1>3, InsertKeeps
<1>5. bestValue \in Int  BY <1>1, BestIsLeast
<1>6. bestValue' = IF value < bestValue THEN value ELSE bestValue
  <2>1. CASE path \in allPaths
    <3>1. bestValue <= value  BY <2>1 DEF Found
    <3>2. bestValue' = bestValue  BY <1>4, <2>1 DEF bestValue
    <3> QED BY <1>3, <1>5, <3>1, <3>2
  <2> QED BY <1>4, <2>1
<1>7. \A i \in 1 .. Len(valuedPaths') :
        \/ valuedPaths'[i].path = path /\ valuedPaths'[i].value = value
        \/ \E j \in 1 .. Len(valuedPaths) : valuedPaths'[i] = valuedPaths[j]
  <2>1. entry.path = path /\ entry.value = value  OBVIOUS
  <2> HIDE DEF entry
  <2>2. \A i \in 1 .. Len(valuedPaths') :
          valuedPaths'[i] = entry \/ \E j \in 1 .. Len(valuedPaths) : valuedPaths'[i] = valuedPaths[j]
    BY <1>4 DEF entry
  <2> QED BY <2>1, <2>2
<1>8. NoOthers(path)  BY <1>7 DEF NoOthers
<1>9. \A i \in 1 .. Len(valuedPaths') :
        valuedPaths'[i].value = Total(costs, valuedPaths'[i].path) /\ valuedPaths'[i].value < limit
  BY <1>7 DEF Found
<1>10. \A p \in allPaths' : p \in Seq(E) /\ bestValue' <= Total(costs, p)
  <2> TAKE p \in allPaths'
  <2>1. CASE p = path
    <3>1. bestValue' <= value  BY <1>3, <1>5, <1>6
    <3> QED BY <2>1, <3>1
  <2>2. CASE p \in allPaths
    <3>1. p \in Seq(E) /\ bestValue <= Total(costs, p)  BY <2>2 DEF Found
    <3>2. Total(costs, p) \in Int  BY <1>2, <3>1 DEF P
    <3>3. bestValue' <= bestValue /\ bestValue' \in Int  BY <1>3, <1>5, <1>6
    <3> QED BY <1>5, <3>1, <3>2, <3>3
  <2> QED BY <1>4, <2>1, <2>2
<1>11. Found(E, max, limit)'
  <2>1. Kept(Seq(E), max)'  BY <1>4 DEF P
  <2>2. (costs \in [E -> Int])'  BY <1>1
  <2> QED BY <1>9, <1>10, <2>1, <2>2 DEF Found
<1> QED BY <1>6, <1>8, <1>11

\* The same of an offer, which builds no path that cannot be kept.
LEMMA OfferFinds ==
  ASSUME NEW E, NEW max \in Nat \ {0}, NEW limit \in Int, Found(E, max, limit), Inf \in Nat,
         NEW path \in Seq(E), NEW value, value = Total(costs, path), value < Inf, value < limit,
         Offer(path, value, max), UNCHANGED costs
  PROVE  /\ Found(E, max, limit)' /\ NoOthers(path)
         /\ bestValue' = IF value < bestValue THEN value ELSE bestValue
<1>1. CASE Insert(path, value, max)
  BY <1>1, InsertFinds
<1>2. CASE value >= cutoffValue /\ UNCHANGED pathSetVars
  <2>1. UNCHANGED <<allPaths, valuedPaths>>  BY <1>2 DEF pathSetVars
  <2>2. bestValue' = bestValue  BY <2>1 DEF bestValue
  <2>3. Found(E, max, limit)'
    BY <2>1, <2>2 DEF Found, Kept
  <2>4. NoOthers(path)  BY <2>1 DEF NoOthers
  <2>5. ~ (value < bestValue)
    <3>1. bestValue \in Int /\ cutoffValue \in Int /\ bestValue <= cutoffValue
      <4> DEFINE P == Seq(E)
      <4>1. Kept(P, max)  BY DEF Found
      <4> HIDE DEF P
      <4> QED BY <4>1, BestIsLeast
    <3>2. value \in Int
      <4>1. <<>> \in Seq(E)  OBVIOUS
      <4>2. PICK g \in [0 .. Len(path) -> Int] : Sums(g, costs, path) /\ Total(costs, path) = g[Len(path)]
        BY TotalIs DEF Found
      <4>3. Len(path) \in 0 .. Len(path)  BY LenProperties
      <4> QED BY <4>2, <4>3
    <3> QED BY <1>2, <3>1, <3>2
  <2> QED BY <2>2, <2>3, <2>4, <2>5
<1> QED BY <1>1, <1>2 DEF Offer

-----------------------------------------------------------------------------
(* Paths from the source.                                                  *)

\* A walk over edges of E from the source to w.
IsRoute(E, p, w) ==
  /\ p \in Seq(E)
  /\ p = <<>> => w = Start
  /\ p # <<>> => p[1].source = Start /\ p[Len(p)].target = w
  /\ \A i \in 1 .. Len(p) - 1 : p[i].target = p[i + 1].source

LEMMA RouteGrows ==
  ASSUME NEW E, NEW p, NEW w, IsRoute(E, p, w), NEW e \in E, e.source = w
  PROVE  IsRoute(E, Append(p, e), e.target) /\ Append(p, e) # <<>>
<1> DEFINE q == Append(p, e)
           n == Len(p)
<1>1. p \in Seq(E) /\ n \in Nat  BY LenProperties DEF IsRoute
<1>2. q \in Seq(E) /\ Len(q) = n + 1 /\ (\A i \in 1 .. n : q[i] = p[i]) /\ q[n + 1] = e
  BY <1>1, AppendProperties
<1>3. p = <<>> <=> n = 0  BY <1>1, EmptySeq
<1> HIDE DEF q, n
<1>4. q # <<>>
  <2>1. q = <<>> => Len(q) = 0  OBVIOUS
  <2> QED BY <1>1, <1>2, <2>1
<1>5. q[1].source = Start
  <2>1. CASE n = 0
    <3>1. q[1] = e /\ w = Start  BY <1>2, <1>3, <2>1 DEF IsRoute
    <3> QED BY <3>1
  <2>2. CASE n # 0
    <3>1. q[1] = p[1] /\ p # <<>>  BY <1>1, <1>2, <1>3, <2>2
    <3> QED BY <3>1 DEF IsRoute
  <2> QED BY <2>1, <2>2
<1>6. \A i \in 1 .. Len(q) - 1 : q[i].target = q[i + 1].source
  <2> TAKE i \in 1 .. Len(q) - 1
  <2>1. i \in 1 .. n /\ q[i] = p[i]  BY <1>1, <1>2
  <2>2. CASE i = n
    <3>1. q[i + 1] = e /\ p # <<>>  BY <1>1, <1>2, <1>3, <2>1, <2>2
    <3> QED BY <2>1, <2>2, <3>1 DEF IsRoute, n
  <2>3. CASE i # n
    <3>1. i + 1 \in 1 .. n /\ i \in 1 .. n - 1  BY <1>1, <2>1, <2>3
    <3>2. q[i + 1] = p[i + 1]  BY <1>2, <3>1
    <3> QED BY <2>1, <3>1, <3>2 DEF IsRoute, n
  <2> QED BY <2>2, <2>3
<1>7. q[Len(q)] = e  BY <1>1, <1>2
<1>8. IsRoute(E, q, e.target)  BY <1>2, <1>4, <1>5, <1>6, <1>7 DEF IsRoute
<1> QED BY <1>4, <1>8 DEF q

\* Numbers by which the vertices of a finite set are in the order of their times.
LEMMA RanksExist ==
  ASSUME NEW V, IsFiniteSet(V), \A v \in V : v.time \in Nat
  PROVE  \E N \in Nat : \E rank \in [V -> 0 .. N] : \A u, v \in V : u.time < v.time => rank[u] < rank[v]
<1> DEFINE below(v) == {u \in V : u.time < v.time}
           rank == [v \in V |-> Cardinality(below(v))]
           N == Cardinality(V)
<1>1. N \in Nat  BY FS_CardinalityType
<1>2. \A v \in V : IsFiniteSet(below(v)) /\ Cardinality(below(v)) \in Nat /\ Cardinality(below(v)) <= N
  <2> TAKE v \in V
  <2>1. below(v) \subseteq V  OBVIOUS
  <2> HIDE DEF below
  <2> QED BY <2>1, FS_Subset, FS_CardinalityType
<1>3. rank \in [V -> 0 .. N]  BY <1>1, <1>2
<1>4. ASSUME NEW u \in V, NEW v \in V, u.time < v.time PROVE rank[u] < rank[v]
  <2>1. below(u) \subseteq below(v) /\ u \in below(v) /\ u \notin below(u)  BY <1>4
  <2> HIDE DEF below
  <2>2. Cardinality(below(u)) <= Cardinality(below(v)) /\ Cardinality(below(u)) # Cardinality(below(v))
    BY <1>2, <2>1, FS_Subset
  <2> QED BY <1>2, <2>2
<1> HIDE DEF rank, N
<1> QED BY <1>1, <1>3, <1>4

\* What holds where it holds below holds everywhere.
LEMMA RankInduction ==
  ASSUME NEW D, NEW N \in Nat, NEW rank \in [D -> 0 .. N], NEW T,
         \A x \in D : (\A y \in D : rank[y] < rank[x] => y \in T) => x \in T
  PROVE  D \subseteq T
<1> DEFINE R == {n \in Nat : \E x \in D : x \notin T /\ rank[x] = n}
<1> SUFFICES ASSUME NEW z \in D, z \notin T PROVE FALSE
  OBVIOUS
<1>1. rank[z] \in R  OBVIOUS
<1>2. PICK n \in R : \A m \in R : n <= m
  <2>1. R \in SUBSET Nat /\ R # {}  BY <1>1
  <2> HIDE DEF R
  <2> QED BY <2>1, LeastExists
<1>3. PICK x \in D : x \notin T /\ rank[x] = n  OBVIOUS
<1>4. PICK y \in D : rank[y] < rank[x] /\ y \notin T  BY <1>3
<1>5. rank[y] \in R  BY <1>4
<1>6. rank[y] \in Nat /\ rank[x] \in Nat  OBVIOUS
<1> QED BY <1>2, <1>3, <1>4, <1>5, <1>6

\* A function by which paths grow along the predecessors.
IsTrace(g, D, stop, prev, edge) == g = [x \in D |-> IF x \in stop THEN <<>> ELSE Append(g[prev[x]], edge[x])]

LEMMA TraceExists ==
  ASSUME NEW D, NEW N \in Nat, NEW rank \in [D -> 0 .. N], NEW stop, NEW prev \in [D -> D],
         \A x \in D \ stop : rank[prev[x]] < rank[x],
         NEW edge
  PROVE  \E g : IsTrace(g, D, stop, prev, edge)
<1> DEFINE E == {edge[x] : x \in D}
           V == Seq(E)
           G == [x \in D |-> [p \in V |-> Append(p, edge[x])]]
<1>1. <<>> \in V  OBVIOUS
<1>2. G \in [D -> [V -> V]]
  <2> SUFFICES ASSUME NEW x \in D, NEW p \in V PROVE Append(p, edge[x]) \in V
    OBVIOUS
  <2>1. edge[x] \in E  OBVIOUS
  <2> HIDE DEF E
  <2> QED BY <2>1, AppendProperties
<1>3. \A x \in D, p \in V : G[x][p] = Append(p, edge[x])  OBVIOUS
<1> HIDE DEF V, G
<1>4. PICK g : IsRecursion(g, D, stop, <<>>, prev, G, V)
  <2> DEFINE base == <<>>
  <2>1. base \in V  BY <1>1
  <2> HIDE DEF base
  <2>2. \E g : IsRecursion(g, D, stop, base, prev, G, V)  BY <1>2, <2>1, RecursionExists
  <2> QED BY <2>2 DEF base
<1>5. g \in [D -> V] /\ \A x \in D : g[x] = IF x \in stop THEN <<>> ELSE G[x][g[prev[x]]]
  BY <1>4 DEF IsRecursion
<1>6. \A x \in D : g[x] = IF x \in stop THEN <<>> ELSE Append(g[prev[x]], edge[x])
  <2> TAKE x \in D
  <2>1. g[prev[x]] \in V  BY <1>5
  <2> QED BY <1>3, <1>5, <2>1
<1>7. IsTrace(g, D, stop, prev, edge)
  <2>1. g = [x \in D |-> g[x]]  BY <1>5
  <2> QED BY <1>6, <2>1 DEF IsTrace
<1> QED BY <1>7

-----------------------------------------------------------------------------
(* The answers of the simple router.                                       *)

SimpleUsable == {e \in Simple.edges : S!Usable(e)}

\* A label is the first one, or leads on from one that stays.
SimpleLink(w) ==
  LET l == simpleLabels[w] IN
  \/ l.edge = NoEdge /\ l.cost = IF w = Start THEN 0 ELSE Inf
  \/ /\ l.edge \in SimpleUsable /\ l.edge.target = w
     /\ l.edge.source \notin todo /\ simpleLabels[l.edge.source].cost < Inf
     /\ l.cost = simpleLabels[l.edge.source].cost + costs[l.edge] /\ l.cost < Inf

SimpleAnswers ==
  /\ \A w \in Simple.vertices : SimpleLink(w)
  /\ Found(Simple.edges, request.maxNumPaths, request.cutoff)
  /\ \A i \in 1 .. Len(valuedPaths) : S!IsAnswer(valuedPaths[i].path, 0)
  /\ minCost = bestValue
  /\ otherPc = "done" => answer = bestValue

\* createPath gives a path to the vertex that costs what its label says.
LEMMA SimplePathIs ==
  ASSUME SimpleTypes, \A w \in Simple.vertices : SimpleLink(w),
         NEW v \in Simple.vertices, simpleLabels[v].cost < Inf
  PROVE  IsRoute(SimpleUsable, S!PathTo(v), v) /\ Total(costs, S!PathTo(v)) = simpleLabels[v].cost
<1> DEFINE D == Simple.vertices
           stop == {w \in D : simpleLabels[w].edge = NoEdge}
           edge == [w \in D |-> simpleLabels[w].edge]
           prev == [w \in D |-> IF w \in stop THEN w ELSE simpleLabels[w].edge.source]
           Eq(g) == g = [w \in D |-> IF simpleLabels[w].edge = NoEdge THEN <<>>
                                     ELSE Append(g[simpleLabels[w].edge.source], simpleLabels[w].edge)]
           f == CHOOSE g : Eq(g)
           good(w) == IsRoute(SimpleUsable, f[w], w) /\ Total(costs, f[w]) = simpleLabels[w].cost
           T == {w \in D : simpleLabels[w].cost < Inf => good(w)}
<1>1. IsFiniteSet(D) /\ \A w \in D : w.time \in Nat
  BY NetworksAssumption DEF IsNetwork
<1>2. PICK N \in Nat : \E rank \in [D -> 0 .. N] : \A u, w \in D : u.time < w.time => rank[u] < rank[w]
  <2> HIDE DEF D
  <2> QED BY <1>1, RanksExist
<1>3. PICK rank \in [D -> 0 .. N] : \A u, w \in D : u.time < w.time => rank[u] < rank[w]
  BY <1>2
<1>4. Inf \in Nat \ {0} /\ costs \in [Simple.edges -> Int] /\ NoEdge \notin Simple.edges
  BY NetworksAssumption, InfAssumption DEF AreRequests, SimpleTypes
<1>5. ASSUME NEW w \in D \ stop
      PROVE  LET e == simpleLabels[w].edge IN
             /\ e \in SimpleUsable /\ e \in Simple.edges /\ e.target = w
             /\ e.source \in D /\ simpleLabels[e.source].cost < Inf
             /\ simpleLabels[w].cost = simpleLabels[e.source].cost + costs[e]
             /\ rank[e.source] < rank[w]
  <2>1. SimpleLink(w) /\ w \in D  OBVIOUS
  <2>2. simpleLabels[w].edge \in SimpleUsable /\ simpleLabels[w].edge \in Simple.edges
        /\ simpleLabels[w].edge.target = w
    BY <2>1, <1>5 DEF SimpleLink, SimpleUsable
  <2>3. simpleLabels[w].edge.source \in D /\ simpleLabels[w].edge.source.time < w.time
    BY <2>2, SimpleEdges
  <2> QED BY <1>3, <1>5, <2>1, <2>2, <2>3 DEF SimpleLink
<1>6. Eq(f)
  <2>1. prev \in [D -> D] /\ \A w \in D \ stop : rank[prev[w]] < rank[w]
    BY <1>5
  <2>2. PICK g : IsTrace(g, D, stop, prev, edge)
    <3> HIDE DEF D, stop, edge, prev
    <3> QED BY <2>1, TraceExists
  <2>3. Eq(g)
    <3>1. \A w \in D : w \in stop <=> simpleLabels[w].edge = NoEdge  OBVIOUS
    <3>2. \A w \in D : w \notin stop => prev[w] = simpleLabels[w].edge.source /\ edge[w] = simpleLabels[w].edge
      OBVIOUS
    <3> HIDE DEF D, stop, edge, prev
    <3> QED BY <2>2, <3>1, <3>2 DEF IsTrace
  <2> HIDE DEF Eq
  <2> QED BY <2>3
<1>7. S!PathTo(v) = f[v]
  BY DEF S!PathTo
<1>8. \A w \in D : f[w] = IF w \in stop THEN <<>> ELSE Append(f[simpleLabels[w].edge.source], simpleLabels[w].edge)
  <2> HIDE DEF f
  <2> QED BY <1>6
<1> HIDE DEF f
<1>9. ASSUME NEW w \in D, \A y \in D : rank[y] < rank[w] => y \in T
      PROVE  w \in T
  <2> SUFFICES ASSUME simpleLabels[w].cost < Inf PROVE good(w)
    OBVIOUS
  <2>1. CASE w \in stop
    <3>1. f[w] = <<>>  BY <1>8, <2>1
    <3>2. simpleLabels[w].edge = NoEdge /\ SimpleLink(w)  BY <2>1
    <3>3. NoEdge \notin SimpleUsable  BY <1>4 DEF SimpleUsable
    <3>4. w = Start /\ simpleLabels[w].cost = 0  BY <1>4, <3>2, <3>3 DEF SimpleLink
    <3>5. Total(costs, <<>>) = 0  BY <1>4, NothingIsFree
    <3>6. IsRoute(SimpleUsable, <<>>, Start)  BY EmptySeq DEF IsRoute
    <3> QED BY <3>1, <3>4, <3>5, <3>6
  <2>2. CASE w \notin stop
    <3> DEFINE e == simpleLabels[w].edge
    <3>1. /\ e \in SimpleUsable /\ e \in Simple.edges /\ e.target = w
          /\ e.source \in D /\ simpleLabels[e.source].cost < Inf
          /\ simpleLabels[w].cost = simpleLabels[e.source].cost + costs[e]
          /\ rank[e.source] < rank[w]
      BY <1>5, <2>2
    <3>2. good(e.source)  BY <1>9, <3>1
    <3>3. f[w] = Append(f[e.source], e)  BY <1>8, <2>2
    <3> HIDE DEF e
    <3>4. IsRoute(SimpleUsable, Append(f[e.source], e), e.target)  BY <3>1, <3>2, RouteGrows
    <3>5. f[e.source] \in Seq(Simple.edges)
      <4>1. f[e.source] \in Seq(SimpleUsable)  BY <3>2 DEF IsRoute
      <4>2. SimpleUsable \subseteq Simple.edges  BY DEF SimpleUsable
      <4> QED BY <4>1, <4>2
    <3>6. Total(costs, Append(f[e.source], e)) = Total(costs, f[e.source]) + costs[e]
      BY <1>4, <3>1, <3>5, TotalGrows
    <3> QED BY <3>1, <3>2, <3>3, <3>4, <3>6
  <2> QED BY <2>1, <2>2
<1>10. v \in T
  <2>1. v \in D  OBVIOUS
  <2> HIDE DEF D, T
  <2>2. D \subseteq T  BY <1>9, RankInduction
  <2> QED BY <2>1, <2>2
<1> QED BY <1>7, <1>10

\* A route of the request that is not empty and ends in order is an answer.
LEMMA SimpleRouteIsAnswer ==
  ASSUME NEW p, NEW v, IsRoute(SimpleUsable, p, v), S!IsEnd(v), S!InWindow(v)
  PROVE  S!IsAnswer(p, 0) /\ p \in Seq(Simple.edges)
<1>1. p \in Seq(SimpleUsable) /\ SimpleUsable \subseteq Simple.edges /\ Len(p) \in Nat
  BY LenProperties DEF IsRoute, SimpleUsable
<1>2. p # <<>>
  <2>1. v # Start  BY DEF S!IsEnd, Start
  <2> QED BY <2>1 DEF IsRoute
<1>3. p[1].source = S!Start /\ p[Len(p)].target = v
  BY <1>2 DEF IsRoute, Start, S!Start
<1>4. \A i \in 1 .. Len(p) : p[i] \in Simple.edges /\ S!Usable(p[i])
  BY <1>1, ElementOfSeq DEF SimpleUsable
<1>5. \A i \in 1 .. Len(p), j \in 1 .. Len(p) : j < i \/ j - i >= 0
  BY <1>1
<1>6. p \in Seq(Simple.edges)  BY <1>1
<1> QED BY <1>2, <1>3, <1>4, <1>5, <1>6 DEF S!IsAnswer, IsRoute, S!InWindow

\* The routers share one set of paths, and insert into it alike.
LEMMA SharedPaths ==
  /\ \A p, value, max : S!Offer(p, value, max) <=> Offer(p, value, max)
  /\ \A p, value, max : A!Offer(p, value, max) <=> Offer(p, value, max)
  /\ S!bestValue = bestValue /\ A!bestValue = bestValue
<1>1. /\ S!bestValue = bestValue /\ A!bestValue = bestValue
      /\ S!cutoffValue = cutoffValue /\ A!cutoffValue = cutoffValue
      /\ S!pathSetVars = pathSetVars /\ A!pathSetVars = pathSetVars
  BY DEF S!bestValue, bestValue, A!bestValue, S!cutoffValue, cutoffValue, A!cutoffValue,
         S!pathSetVars, pathSetVars, A!pathSetVars
<1>2. \A s, x : S!Pushed(s, x) = Pushed(s, x) /\ A!Pushed(s, x) = Pushed(s, x)
  BY DEF S!Pushed, Pushed, A!Pushed, S!HeapOrdered, HeapOrdered, A!HeapOrdered
<1>3. ASSUME NEW p, NEW value, NEW max
      PROVE  /\ S!Insert(p, value, max) <=> Insert(p, value, max)
             /\ A!Insert(p, value, max) <=> Insert(p, value, max)
  BY <1>1, <1>2 DEF S!Insert, Insert, A!Insert, S!pathSetVars, pathSetVars, A!pathSetVars
<1>4. ASSUME NEW p, NEW value, NEW max
      PROVE  /\ S!Offer(p, value, max) <=> Offer(p, value, max)
             /\ A!Offer(p, value, max) <=> Offer(p, value, max)
  BY <1>1, <1>3 DEF S!Offer, Offer, A!Offer, S!pathSetVars, pathSetVars, A!pathSetVars
<1> QED BY <1>1, <1>4

\* An empty set of paths.
LEMMA NothingFound ==
  ASSUME NEW E, NEW max \in Nat \ {0}, NEW limit, PathSetInit, costs \in [E -> Int]
  PROVE  Found(E, max, limit) /\ bestValue = Inf
<1>1. valuedPaths = <<>> /\ allPaths = {} /\ Len(valuedPaths) = 0  BY DEF PathSetInit
<1>2. HeapOrdered(valuedPaths)  BY <1>1 DEF HeapOrdered
<1>3. valuedPaths \in Seq([path : Seq(E), value : Int])  BY <1>1
<1>4. bestValue = Inf  BY <1>1 DEF bestValue
<1> QED BY <1>1, <1>2, <1>3, <1>4 DEF Found, Kept

LEMMA SimpleAnswersInit == S!Init => SimpleAnswers
<1> SUFFICES ASSUME S!Init PROVE SimpleAnswers
  OBVIOUS
<1>1. SimpleInv  BY SimpleInitInvariant
<1>2. request.maxNumPaths \in Nat \ {0} /\ costs \in [Simple.edges -> Int]
  BY <1>1, NetworksAssumption DEF SimpleInv, SimpleTypes, AreRequests
<1>3. PathSetInit  BY DEF S!Init, S!RouterInit, S!PathSetInit, PathSetInit
<1>4. Found(Simple.edges, request.maxNumPaths, request.cutoff) /\ bestValue = Inf  BY <1>2, <1>3, NothingFound
<1>5. \A w \in Simple.vertices : SimpleLink(w)
  BY DEF SimpleLink, S!Init, Start, S!Start
<1>6. minCost = Inf /\ otherPc = "search" /\ Len(valuedPaths) = 0
  BY <1>3 DEF S!Init, PathSetInit
<1> QED BY <1>4, <1>5, <1>6 DEF SimpleAnswers

\* The paths kept stay answers while the request does.
LEMMA SimpleUnchangedAnswers ==
  ASSUME SimpleAnswers, UNCHANGED <<costs, request, simpleLabels, minCost, allPaths, valuedPaths>>,
         todo' \subseteq todo, otherPc' = "done" => answer' = bestValue
  PROVE  SimpleAnswers'
<1>1. bestValue' = bestValue  BY DEF bestValue
<1>2. \A w \in Simple.vertices : SimpleLink(w)'
  BY DEF SimpleAnswers, SimpleLink, SimpleUsable, S!Usable
<1>3. Found(Simple.edges, request.maxNumPaths, request.cutoff)'
  BY <1>1 DEF SimpleAnswers, Found, Kept
<1>4. (\A i \in 1 .. Len(valuedPaths) : S!IsAnswer(valuedPaths[i].path, 0))'
  BY DEF SimpleAnswers, S!IsAnswer, S!Usable
<1> QED BY <1>1, <1>2, <1>3, <1>4 DEF SimpleAnswers

LEMMA SimpleCloseAnswers ==
  ASSUME SimpleInv, SimpleAnswers, NEW v \in Simple.vertices, S!Close(v),
         UNCHANGED <<otherPc, answer, S!arguments, S!rivalVars>>
  PROVE  SimpleAnswers'
<1>1. /\ todo' = todo \ {v} /\ otherPc = "search" /\ S!IsEnd(v) /\ simpleLabels[v].cost < Inf
      /\ UNCHANGED <<otherPc, simpleLabels, costs, request>>
  BY DEF S!Close, S!Visit, S!arguments
<1>2. CASE ~ (S!InWindow(v) /\ simpleLabels[v].cost < request.cutoff)
  <2>1. UNCHANGED <<minCost, allPaths, valuedPaths>>  BY <1>2 DEF S!Close, S!pathSetVars
  <2> QED BY <1>1, <2>1, SimpleUnchangedAnswers
<1>3. CASE S!InWindow(v) /\ simpleLabels[v].cost < request.cutoff
  <2> DEFINE E == Simple.edges
  <2>0. PICK p, c, max, limit :
          p = S!PathTo(v) /\ c = simpleLabels[v].cost /\ max = request.maxNumPaths /\ limit = request.cutoff
    OBVIOUS
  <2>1. minCost' = (IF c < minCost THEN c ELSE minCost) /\ Offer(p, c, max)
    BY <1>3, <2>0, SharedPaths DEF S!Close
  <2>2. IsRoute(SimpleUsable, p, v) /\ Total(costs, p) = c
    BY <1>1, <2>0, SimplePathIs DEF SimpleInv, SimpleAnswers
  <2>3. S!IsAnswer(p, 0) /\ p \in Seq(E)  BY <1>1, <1>3, <2>2, SimpleRouteIsAnswer
  <2>4. max \in Nat \ {0} /\ limit \in Int /\ Inf \in Nat
    BY <2>0, SimpleArguments, NetworksAssumption DEF SimpleInv, SimpleTypes, AreRequests
  <2>5. Found(E, max, limit) /\ minCost = bestValue  BY <2>0 DEF SimpleAnswers
  <2>6. c < Inf /\ c < limit /\ UNCHANGED costs /\ c = Total(costs, p)  BY <1>1, <1>3, <2>0, <2>2
  <2> HIDE DEF E
  <2>8. /\ Found(E, max, limit)' /\ NoOthers(p)
        /\ bestValue' = IF c < bestValue THEN c ELSE bestValue
    BY <2>1, <2>3, <2>4, <2>5, <2>6, OfferFinds
  <2>9. (\A i \in 1 .. Len(valuedPaths) : S!IsAnswer(valuedPaths[i].path, 0))'
    <3>1. \A q : S!IsAnswer(q, 0) => S!IsAnswer(q, 0)'  BY <1>1 DEF S!IsAnswer, S!Usable
    <3>2. \A i \in 1 .. Len(valuedPaths) : S!IsAnswer(valuedPaths[i].path, 0)  BY DEF SimpleAnswers
    <3>3. \A i \in 1 .. Len(valuedPaths') : S!IsAnswer(valuedPaths'[i].path, 0)
      BY <2>3, <2>8, <3>2 DEF NoOthers
    <3> QED BY <3>1, <3>3
  <2>10. \A w \in Simple.vertices : SimpleLink(w)'
    BY <1>1 DEF SimpleAnswers, SimpleLink, SimpleUsable, S!Usable
  <2>11. minCost' = bestValue'  BY <2>1, <2>5, <2>8
  <2>12. otherPc' # "done"  BY <1>1
  <2>13. Found(Simple.edges, request.maxNumPaths, request.cutoff)'  BY <1>1, <2>0, <2>8 DEF E
  <2> QED BY <2>9, <2>10, <2>11, <2>12, <2>13 DEF SimpleAnswers
<1> QED BY <1>2, <1>3

LEMMA SimpleExpandAnswers ==
  ASSUME SimpleInv, SimpleAnswers, NEW v \in Simple.vertices, S!Expand(v),
         UNCHANGED <<otherPc, answer, S!arguments, S!rivalVars>>
  PROVE  SimpleAnswers'
<1>1. /\ UNCHANGED <<costs, request, otherPc, minCost, allPaths, valuedPaths>>
      /\ todo' = todo \ {v} /\ otherPc = "search" /\ v \in todo
      /\ simpleLabels[v].cost < Inf /\ simpleLabels' = S!Relaxed(v)
      /\ \A w \in todo : v.time <= w.time
  BY DEF S!Expand, S!Visit, S!Due, S!arguments, S!pathSetVars
<1>2. /\ \A e \in Simple.edges : costs[e] \in Int
      /\ Inf \in Nat /\ SimpleTypes
      /\ \A w \in Simple.vertices : w.time \in Nat
  BY SimpleArguments, NetworksAssumption DEF IsNetwork, SimpleInv
<1>3. \A w \in Simple.vertices : w \notin todo \/ w = v => simpleLabels'[w] = simpleLabels[w]
  <2> SUFFICES ASSUME NEW w \in Simple.vertices, w \notin todo \/ w = v,
                      S!EdgeTo(v, w) \in Simple.edges
               PROVE  FALSE
    BY <1>1 DEF S!Relaxed, S!Outgoing
  <2>1. v.time < w.time
    BY SimpleEdges DEF S!EdgeTo
  <2>2. w \notin todo /\ w.time <= v.time
    BY <2>1, <1>1, <1>2 DEF SimpleInv, SimpleInOrder
  <2> QED
    BY <2>1, <2>2, <1>2
<1>4. ASSUME NEW w \in Simple.vertices PROVE SimpleLink(w)'
  <2> DEFINE e == S!EdgeTo(v, w)
             new == [cost |-> simpleLabels[v].cost + costs[e], edge |-> e]
  <2>1. SimpleLink(w)  BY DEF SimpleAnswers
  <2>2. CASE e \in S!Outgoing(v) /\ simpleLabels[w].cost > simpleLabels[v].cost + costs[e]
    <3>1. simpleLabels'[w] = new  BY <1>1, <2>2 DEF S!Relaxed
    <3>2. e.source = v /\ e.target = w /\ e \in SimpleUsable
      BY <2>2 DEF S!EdgeTo, S!Outgoing, SimpleUsable
    <3>3. simpleLabels'[v] = simpleLabels[v] /\ v \notin todo'  BY <1>1, <1>3
    <3>4. simpleLabels[w].cost \in Int /\ simpleLabels[w].cost <= Inf
      BY <1>2, <2>1 DEF SimpleTypes, SimpleLink
    <3>5. simpleLabels[v].cost + costs[e] < Inf
      <4>1. simpleLabels[v].cost \in Int /\ costs[e] \in Int  BY <1>2, <3>2 DEF SimpleTypes, SimpleUsable
      <4> QED BY <1>2, <2>2, <3>4, <4>1
    <3>6. new.edge = e /\ new.cost = simpleLabels[v].cost + costs[e]  OBVIOUS
    <3>7. SimpleUsable' = SimpleUsable  BY <1>1 DEF SimpleUsable, S!Usable
    <3> HIDE DEF e, new
    <3> QED BY <1>1, <3>1, <3>2, <3>3, <3>5, <3>6, <3>7 DEF SimpleLink
  <2>3. CASE ~ (e \in S!Outgoing(v) /\ simpleLabels[w].cost > simpleLabels[v].cost + costs[e])
    <3>1. simpleLabels'[w] = simpleLabels[w]  BY <1>1, <2>3 DEF S!Relaxed
    <3>2. SimpleUsable' = SimpleUsable  BY <1>1 DEF SimpleUsable, S!Usable
    <3>3. \A d \in SimpleUsable : d.source \notin todo => simpleLabels'[d.source] = simpleLabels[d.source]
      BY <1>3, SimpleEdges DEF SimpleUsable
    <3> QED BY <1>1, <2>1, <3>1, <3>2, <3>3 DEF SimpleLink
  <2> QED BY <2>2, <2>3
<1>5. bestValue' = bestValue  BY <1>1 DEF bestValue
<1>6. Found(Simple.edges, request.maxNumPaths, request.cutoff)'
  BY <1>1, <1>5 DEF SimpleAnswers, Found, Kept
<1>7. (\A i \in 1 .. Len(valuedPaths) : S!IsAnswer(valuedPaths[i].path, 0))'
  BY <1>1 DEF SimpleAnswers, S!IsAnswer, S!Usable
<1> QED BY <1>1, <1>4, <1>5, <1>6, <1>7 DEF SimpleAnswers

LEMMA SimpleAnswersStep == SimpleInv /\ SimpleAnswers /\ (S!Next \/ UNCHANGED S!vars) => SimpleAnswers'
<1> SUFFICES ASSUME SimpleInv, SimpleAnswers, S!Next \/ UNCHANGED S!vars PROVE SimpleAnswers'
  OBVIOUS
<1>1. ASSUME NEW v \in Simple.vertices, S!Skip(v), UNCHANGED <<otherPc, answer, S!arguments, S!rivalVars>>
      PROVE  SimpleAnswers'
  <2>1. /\ UNCHANGED <<costs, request, simpleLabels, minCost, allPaths, valuedPaths, answer, otherPc>>
        /\ todo' \subseteq todo
    BY <1>1 DEF S!Skip, S!Visit, S!pathSetVars, S!arguments
  <2> QED BY <2>1, SimpleUnchangedAnswers DEF SimpleAnswers
<1>2. CASE S!Finish /\ UNCHANGED <<S!arguments, S!rivalVars>>
  <2>1. /\ UNCHANGED <<costs, request, simpleLabels, minCost, allPaths, valuedPaths, todo>>
        /\ answer' = (IF minCost < request.cutoff THEN minCost ELSE S!bestValue)
    BY <1>2 DEF S!Finish, S!pathSetVars, S!arguments
  <2>2. answer' = bestValue  BY <2>1, SharedPaths DEF SimpleAnswers
  <2> QED BY <2>1, <2>2, SimpleUnchangedAnswers
<1>3. CASE S!Rival \/ UNCHANGED S!vars
  <2>1. UNCHANGED <<costs, request, simpleLabels, minCost, allPaths, valuedPaths, answer, otherPc, todo>>
    BY <1>3 DEF S!Rival, S!Walk, S!vars, S!pathSetVars, S!arguments
  <2> QED BY <2>1, SimpleUnchangedAnswers DEF SimpleAnswers
<1> QED BY <1>1, <1>2, <1>3, SimpleCloseAnswers, SimpleExpandAnswers DEF S!Next, S!Search

\* What the simple router promises of its answers.
LEMMA SimpleAnswersAre == SimpleInv /\ SimpleAnswers => S!Answers /\ S!AnswerAttained
<1> SUFFICES ASSUME SimpleInv, SimpleAnswers PROVE S!Answers /\ S!AnswerAttained
  OBVIOUS
<1>1. Found(Simple.edges, request.maxNumPaths, request.cutoff)  BY DEF SimpleAnswers
<1>2. S!Answers
  <2>1. Len(valuedPaths) <= request.maxNumPaths  BY <1>1 DEF Found, Kept
  <2>2. ASSUME NEW i \in 1 .. Len(valuedPaths)
        PROVE  LET entry == valuedPaths[i]
               IN  /\ S!IsAnswer(entry.path, 0)
                   /\ entry.value = S!PathCost(entry.path)
                   /\ entry.value < request.cutoff
                   /\ \A j \in 1 .. Len(valuedPaths) : entry.path = valuedPaths[j].path => i = j
    <3>1. S!IsAnswer(valuedPaths[i].path, 0)  BY DEF SimpleAnswers
    <3>2. valuedPaths[i].value = S!PathCost(valuedPaths[i].path) /\ valuedPaths[i].value < request.cutoff
      BY <1>1, PathCostIsTotal DEF Found
    <3>3. \A j \in 1 .. Len(valuedPaths) : valuedPaths[i].path = valuedPaths[j].path => i = j
      BY <1>1 DEF Found, Kept
    <3> QED BY <3>1, <3>2, <3>3
  <2> QED BY <2>1, <2>2 DEF S!Answers, S!PathsAreAnswers
<1>3. S!AnswerAttained
  <2> SUFFICES ASSUME otherPc = "done"
               PROVE  IF valuedPaths = <<>> THEN answer = Inf
                      ELSE \E i \in 1 .. Len(valuedPaths) : valuedPaths[i].value = answer
    BY DEF S!AnswerAttained
  <2>1. answer = bestValue  BY DEF SimpleAnswers
  <2>2. valuedPaths # <<>> => 1 \in 1 .. Len(valuedPaths)
    BY <1>1, EmptySeq, LenProperties DEF Found, Kept
  <2> QED BY <2>1, <2>2 DEF bestValue
<1> QED BY <1>2, <1>3

-----------------------------------------------------------------------------
(* The answers of the two-cycle-free router.                               *)

UsableEdges == {e \in TimedEdges : Usable(e)}

\* A label is empty, the first one, or leads on from one that stays and that does
\* not come from the vertex it leads to.
Link(w, s) ==
  LET l == labels[w][s] IN
  \/ isEmpty(l)
  \/ w = Start /\ l.cost = 0
  \/ /\ w # Start
     /\ l.edge \in UsableEdges /\ l.edge.target = w /\ l.edge.source \notin todo /\ l.pred \in Sides
     /\ ~ isEmpty(labels[l.edge.source][l.pred])
     /\ From(labels[l.edge.source][l.pred]) # w.vertex
     /\ l.cost = labels[l.edge.source][l.pred].cost + costs[l.edge]

\* An end the loop has come to, and no other end since.
LatestEnd(v) == IsEnd(v) /\ v \notin todo /\ \A w \in TimedVertices : IsEnd(w) /\ w \notin todo => w.time <= v.time

\* The labels of the ends that are in order were offered.
Closed ==
  \A v \in TimedVertices \ todo : \A s \in Sides :
    /\ IsEnd(v) /\ InWindow(v)
    /\ ~ isEmpty(labels[v][s]) /\ labels[v][s].cost < request.cutoff
    => bestValue <= labels[v][s].cost \/ (s = "right" /\ pc = "right" /\ LatestEnd(v))

AnswersFound ==
  /\ \A w \in TimedVertices, s \in Sides : Link(w, s)
  /\ Found(TimedEdges, request.maxNumPaths, request.cutoff)
  /\ \A i \in 1 .. Len(valuedPaths) : IsAnswer(valuedPaths[i].path, 2)
  /\ Closed

\* A walk that does not turn back.
NoReturn(p) == \A i \in 1 .. Len(p) - 1 : p[i].source.vertex # p[i + 1].target.vertex

LEMMA NoReturnGrows ==
  ASSUME NEW E, NEW p \in Seq(E), NoReturn(p), NEW e \in E,
         p # <<>> => p[Len(p)].source.vertex # e.target.vertex
  PROVE  NoReturn(Append(p, e)) /\ Append(p, e)[Len(Append(p, e))] = e
<1> DEFINE q == Append(p, e)
           n == Len(p)
<1>1. n \in Nat  BY LenProperties
<1>2. q \in Seq(E) /\ Len(q) = n + 1 /\ (\A i \in 1 .. n : q[i] = p[i]) /\ q[n + 1] = e
  BY AppendProperties
<1>3. p = <<>> <=> n = 0  BY EmptySeq
<1> HIDE DEF q
<1>4. ASSUME NEW i \in 1 .. Len(q) - 1 PROVE q[i].source.vertex # q[i + 1].target.vertex
  <2>1. i \in 1 .. n /\ q[i] = p[i]  BY <1>1, <1>2
  <2>2. CASE i = n
    <3>1. q[i + 1] = e /\ p # <<>>  BY <1>1, <1>2, <1>3, <2>1, <2>2
    <3> QED BY <2>1, <2>2, <3>1
  <2>3. CASE i # n
    <3>1. i + 1 \in 1 .. n /\ i \in 1 .. n - 1  BY <1>1, <2>1, <2>3
    <3>2. q[i + 1] = p[i + 1]  BY <1>2, <3>1
    <3> QED BY <2>1, <3>1, <3>2 DEF NoReturn
  <2> QED BY <2>2, <2>3
<1>5. q[Len(q)] = e  BY <1>1, <1>2
<1>6. NoReturn(q)  BY <1>4 DEF NoReturn
<1> QED BY <1>5, <1>6 DEF q

\* The side a path goes on from does not come from where it goes to.
LEMMA SideDoesNotReturn ==
  ASSUME NEW pair, NEW w, Valid(pair), ~ isEmpty(pair[SideTo(pair, w)])
  PROVE  From(pair[SideTo(pair, w)]) # w.vertex
<1>1. CASE BestSide(pair) = "left"
  BY <1>1 DEF SideTo, Opposite, Valid
<1>2. CASE BestSide(pair) = "right"
  <2>1. ~ isEmpty(pair.right)  BY <1>2 DEF BestSide
  <2> QED BY <1>2, <2>1 DEF SideTo, Opposite, Valid
<1> QED BY <1>1, <1>2 DEF BestSide

\* An update puts a label at one side, or none.
LEMMA UpdatedSides ==
  ASSUME NEW pair, Valid(pair), NEW l, NEW s \in Sides
  PROVE  Updated(pair, l)[s] = pair[s] \/ Updated(pair, l)[s] = l
<1>1. Updated(pair, l) = pair \/ \E side \in Sides :
        Updated(pair, l) = [left  |-> IF side = "left" THEN l ELSE pair.left,
                            right |-> IF side = "right" THEN l ELSE pair.right]
  BY DEF Updated, Sides, Slot
<1> QED BY <1>1 DEF Sides

\* createPath gives a path to the vertex of the label, which costs what the label
\* says and does not turn back.
LEMMA PathIs ==
  ASSUME Types, \A w \in TimedVertices, s \in Sides : Link(w, s),
         NEW v \in TimedVertices, NEW side \in Sides, ~ isEmpty(labels[v][side])
  PROVE  /\ IsRoute(UsableEdges, PathTo(v, side), v) /\ NoReturn(PathTo(v, side))
         /\ Total(costs, PathTo(v, side)) = labels[v][side].cost
<1> DEFINE D == TimedVertices \X Sides
           label(x) == labels[x[1]][x[2]]
           stop == {x \in D : x[1] = Start \/ isEmpty(label(x))}
           edge == [x \in D |-> label(x).edge]
           prev == [x \in D |-> IF x \in stop THEN x ELSE <<label(x).edge.source, label(x).pred>>]
           Eq(g) == g = [x \in D |-> IF x[1] = Start \/ isEmpty(label(x)) THEN <<>>
                                     ELSE Append(g[<<label(x).edge.source, label(x).pred>>], label(x).edge)]
           f == CHOOSE g : Eq(g)
           good(x) == /\ IsRoute(UsableEdges, f[x], x[1]) /\ NoReturn(f[x])
                      /\ f[x] # <<>> => f[x][Len(f[x])] = label(x).edge
                      /\ Total(costs, f[x]) = label(x).cost
           T == {x \in D : ~ isEmpty(label(x)) => good(x)}
<1>1. IsFiniteSet(TimedVertices) /\ \A w \in TimedVertices : w.time \in Nat
  BY NetworkAssumption DEF IsNetwork
<1>2. PICK N \in Nat : \E rank \in [TimedVertices -> 0 .. N] :
                         \A u, w \in TimedVertices : u.time < w.time => rank[u] < rank[w]
  BY <1>1, RanksExist
<1>3. PICK order \in [TimedVertices -> 0 .. N] : \A u, w \in TimedVertices : u.time < w.time => order[u] < order[w]
  BY <1>2
<1> DEFINE rank == [x \in D |-> order[x[1]]]
<1>4. Inf \in Nat \ {0} /\ costs \in [TimedEdges -> Int]
  BY RequestAssumption, InfAssumption DEF AreRequests, Types
<1>5. ASSUME NEW x \in D \ stop
      PROVE  LET l == label(x) IN
             /\ l.edge \in UsableEdges /\ l.edge \in TimedEdges /\ l.edge.target = x[1]
             /\ <<l.edge.source, l.pred>> \in D /\ l.edge.source \in TimedVertices /\ l.pred \in Sides
             /\ ~ isEmpty(labels[l.edge.source][l.pred])
             /\ From(labels[l.edge.source][l.pred]) # x[1].vertex
             /\ l.cost = labels[l.edge.source][l.pred].cost + costs[l.edge]
             /\ order[l.edge.source] < order[x[1]]
  <2>1. x[1] \in TimedVertices /\ x[2] \in Sides /\ x[1] # Start /\ ~ isEmpty(label(x))  BY <1>5
  <2>2. Link(x[1], x[2])  BY <2>1
  <2>3. /\ label(x).edge \in UsableEdges /\ label(x).edge \in TimedEdges /\ label(x).edge.target = x[1]
        /\ label(x).pred \in Sides
        /\ ~ isEmpty(labels[label(x).edge.source][label(x).pred])
        /\ From(labels[label(x).edge.source][label(x).pred]) # x[1].vertex
        /\ label(x).cost = labels[label(x).edge.source][label(x).pred].cost + costs[label(x).edge]
    BY <2>1, <2>2 DEF Link, UsableEdges
  <2>4. label(x).edge.source \in TimedVertices /\ label(x).edge.source.time < x[1].time
    BY <2>3, Edges
  <2> QED BY <1>3, <2>1, <2>3, <2>4
<1>6. Eq(f)
  <2>1. prev \in [D -> D]  BY <1>5
  <2>2. rank \in [D -> 0 .. N]  BY <1>3
  <2>3. \A x \in D \ stop : rank[prev[x]] < rank[x]
    <3> TAKE x \in D \ stop
    <3>1. prev[x] = <<label(x).edge.source, label(x).pred>> /\ prev[x] \in D  BY <1>5
    <3>2. rank[prev[x]] = order[label(x).edge.source] /\ rank[x] = order[x[1]]  BY <3>1
    <3> QED BY <1>5, <3>2
  <2>4. PICK g : IsTrace(g, D, stop, prev, edge)
    <3> HIDE DEF D, stop, edge, prev, rank
    <3> QED BY <2>1, <2>2, <2>3, TraceExists
  <2>5. Eq(g)
    <3>1. \A x \in D : x \in stop <=> x[1] = Start \/ isEmpty(label(x))  OBVIOUS
    <3>2. \A x \in D : x \notin stop => prev[x] = <<label(x).edge.source, label(x).pred>> /\ edge[x] = label(x).edge
      OBVIOUS
    <3> HIDE DEF D, stop, edge, prev, label
    <3> QED BY <2>4, <3>1, <3>2 DEF IsTrace
  <2> HIDE DEF Eq
  <2> QED BY <2>5
<1>7. PathTo(v, side) = f[<<v, side>>]
  BY DEF PathTo
<1>8. \A x \in D : f[x] = IF x \in stop THEN <<>> ELSE Append(f[<<label(x).edge.source, label(x).pred>>], label(x).edge)
  <2> HIDE DEF f
  <2> QED BY <1>6
<1> HIDE DEF f
<1>9. ASSUME NEW x \in D, \A y \in D : rank[y] < rank[x] => y \in T
      PROVE  x \in T
  <2> SUFFICES ASSUME ~ isEmpty(label(x)) PROVE good(x)
    OBVIOUS
  <2>1. CASE x \in stop
    <3>1. f[x] = <<>> /\ x[1] = Start  BY <1>8, <2>1
    <3>2. label(x).cost = 0
      <4>1. Link(x[1], x[2])  OBVIOUS
      <4> QED BY <3>1, <4>1 DEF Link
    <3>3. Total(costs, <<>>) = 0  BY <1>4, NothingIsFree
    <3>4. IsRoute(UsableEdges, <<>>, Start)  BY EmptySeq DEF IsRoute
    <3>5. NoReturn(<<>>)  BY DEF NoReturn
    <3> QED BY <3>1, <3>2, <3>3, <3>4, <3>5
  <2>2. CASE x \notin stop
    <3> DEFINE l == label(x)
               e == l.edge
               y == <<e.source, l.pred>>
               p == f[y]
    <3>1. /\ e \in UsableEdges /\ e \in TimedEdges /\ e.target = x[1]
          /\ y \in D /\ e.source \in TimedVertices /\ ~ isEmpty(label(y))
          /\ From(label(y)) # x[1].vertex
          /\ l.cost = label(y).cost + costs[e]
          /\ rank[y] < rank[x]
      BY <1>5, <2>2
    <3>2. good(y)
      <4> HIDE DEF y, good
      <4> QED BY <1>9, <3>1
    <3>3. f[x] = Append(p, e)  BY <1>8, <2>2
    <3>4. y[1] = e.source  OBVIOUS
    <3>5. /\ IsRoute(UsableEdges, p, e.source) /\ NoReturn(p) /\ Total(costs, p) = label(y).cost
          /\ p # <<>> => p[Len(p)] = label(y).edge
      BY <3>2, <3>4
    <3>6. p # <<>> => p[Len(p)].source.vertex # e.target.vertex
      BY <3>1, <3>5 DEF From
    <3>7. p \in Seq(UsableEdges) /\ p \in Seq(TimedEdges)
      <4>1. p \in Seq(UsableEdges)  BY <3>5 DEF IsRoute
      <4>2. UsableEdges \subseteq TimedEdges  BY DEF UsableEdges
      <4> HIDE DEF p
      <4> QED BY <4>1, <4>2
    <3> HIDE DEF p, e
    <3>8. IsRoute(UsableEdges, Append(p, e), e.target)  BY <3>1, <3>5, RouteGrows
    <3>9. NoReturn(Append(p, e)) /\ Append(p, e)[Len(Append(p, e))] = e
      BY <3>1, <3>5, <3>6, <3>7, NoReturnGrows
    <3>10. Total(costs, Append(p, e)) = Total(costs, p) + costs[e]
      BY <1>4, <3>1, <3>7, TotalGrows
    <3> QED BY <3>1, <3>3, <3>5, <3>8, <3>9, <3>10 DEF e
  <2> QED BY <2>1, <2>2
<1>10. <<v, side>> \in T
  <2>1. <<v, side>> \in D /\ rank \in [D -> 0 .. N]  BY <1>3
  <2> HIDE DEF D, T, rank
  <2>2. D \subseteq T  BY <1>9, <2>1, RankInduction
  <2> QED BY <2>1, <2>2
<1>11. good(<<v, side>>)
  <2>1. label(<<v, side>>) = labels[v][side]  OBVIOUS
  <2> HIDE DEF good
  <2> QED BY <1>10, <2>1
<1> QED BY <1>7, <1>11

\* Such a path to an end that is in order is an answer.
LEMMA RouteIsAnswer ==
  ASSUME NEW p, NEW v, IsRoute(UsableEdges, p, v), NoReturn(p), IsEnd(v), InWindow(v)
  PROVE  IsAnswer(p, 2) /\ p \in Seq(TimedEdges)
<1>1. p \in Seq(UsableEdges) /\ UsableEdges \subseteq TimedEdges /\ Len(p) \in Nat
  BY LenProperties DEF IsRoute, UsableEdges
<1>2. p # <<>>
  <2>1. v # Start  BY DEF IsEnd, Start
  <2> QED BY <2>1 DEF IsRoute
<1>3. p[1].source = Start /\ p[Len(p)].target = v
  BY <1>2 DEF IsRoute
<1>4. \A i \in 1 .. Len(p) : p[i] \in TimedEdges /\ Usable(p[i])
  BY <1>1, ElementOfSeq DEF UsableEdges
<1>5. ASSUME NEW i \in 1 .. Len(p), NEW j \in 1 .. Len(p), p[i].source.vertex = p[j].target.vertex
      PROVE  j < i \/ j - i >= 2
  <2>1. j # i  BY <1>4, <1>5, Edges
  <2>2. j # i + 1
    <3>1. j = i + 1 => i \in 1 .. Len(p) - 1  BY <1>1
    <3> QED BY <1>5, <3>1 DEF NoReturn
  <2> QED BY <1>1, <2>1, <2>2
<1>6. p \in Seq(TimedEdges)  BY <1>1
<1> QED BY <1>2, <1>3, <1>4, <1>5, <1>6 DEF IsAnswer, IsRoute, InWindow

LEMMA AnswersInit == Init => AnswersFound
<1> SUFFICES ASSUME Init PROVE AnswersFound
  OBVIOUS
<1>1. IInv  BY InitInvariant
<1>2. request.maxNumPaths \in Nat \ {0} /\ costs \in [TimedEdges -> Int]
  BY <1>1, RequestAssumption DEF IInv, Types, AreRequests
<1>3. PathSetInit  BY DEF Init, RouterInit
<1>4. Found(TimedEdges, request.maxNumPaths, request.cutoff) /\ Len(valuedPaths) = 0
  BY <1>2, <1>3, NothingFound DEF PathSetInit
<1>5. \A w \in TimedVertices, s \in Sides : Link(w, s)
  BY DEF Link, Init, Sides, isEmpty, empty
<1>6. Closed  BY DEF Closed, Init, RouterInit
<1> QED BY <1>4, <1>5, <1>6 DEF AnswersFound

\* Labels keep their links, and the paths kept stay answers, where nothing of them changes.
LEMMA LinksStay ==
  ASSUME AnswersFound, UNCHANGED <<costs, request, labels>>, todo' \subseteq todo
  PROVE  \A w \in TimedVertices, s \in Sides : Link(w, s)'
<1> TAKE w \in TimedVertices, s \in Sides
<1>1. Link(w, s)  BY DEF AnswersFound
<1>2. UsableEdges' = UsableEdges  BY DEF UsableEdges, Usable
<1>3. labels[w][s].edge.source \notin todo => labels[w][s].edge.source \notin todo'  OBVIOUS
<1> QED BY <1>1, <1>2, <1>3 DEF Link, isEmpty, From

LEMMA AnswersStay ==
  ASSUME AnswersFound, UNCHANGED <<costs, request, allPaths, valuedPaths>>
  PROVE  /\ Found(TimedEdges, request.maxNumPaths, request.cutoff)'
         /\ (\A i \in 1 .. Len(valuedPaths) : IsAnswer(valuedPaths[i].path, 2))'
         /\ bestValue' = bestValue
<1>1. bestValue' = bestValue  BY DEF bestValue
<1>2. Found(TimedEdges, request.maxNumPaths, request.cutoff)'
  BY <1>1 DEF AnswersFound, Found, Kept
<1>3. (\A i \in 1 .. Len(valuedPaths) : IsAnswer(valuedPaths[i].path, 2))'
  BY DEF AnswersFound, IsAnswer, Usable
<1> QED BY <1>1, <1>2, <1>3

\* The label at a side of an end is offered.
LEMMA OfferedFinds ==
  ASSUME IInv, AnswersFound, NEW v \in TimedVertices, NEW side \in Sides, IsEnd(v), Offered(v, side),
         UNCHANGED <<costs, request>>
  PROVE  /\ Found(TimedEdges, request.maxNumPaths, request.cutoff)'
         /\ (\A i \in 1 .. Len(valuedPaths) : IsAnswer(valuedPaths[i].path, 2))'
         /\ bestValue \in Int /\ bestValue' \in Int /\ bestValue' <= bestValue
         /\ InWindow(v) /\ labels[v][side].cost < request.cutoff => bestValue' <= labels[v][side].cost
<1>1. Found(TimedEdges, request.maxNumPaths, request.cutoff)  BY DEF AnswersFound
<1>2. /\ bestValue \in Int /\ cutoffValue \in Int /\ bestValue <= cutoffValue
      /\ labels[v][side].cost \in Int /\ Inf \in Nat
      /\ request.maxNumPaths \in Nat \ {0} /\ request.cutoff \in Int /\ request.cutoff <= Inf
  <2>1. Kept(Seq(TimedEdges), request.maxNumPaths) /\ Inf \in Nat  BY <1>1, InfAssumption DEF Found
  <2>2. bestValue \in Int /\ cutoffValue \in Int /\ bestValue <= cutoffValue
    <3> DEFINE P == Seq(TimedEdges)
    <3>1. Kept(P, request.maxNumPaths)  BY <2>1
    <3> HIDE DEF P
    <3> QED BY <2>1, <3>1, BestIsLeast
  <2>3. labels[v][side].cost \in Int  BY DEF IInv, Types, Valid, Sides
  <2> QED BY <2>1, <2>2, <2>3, RequestAssumption DEF IInv, Types, AreRequests
<1>3. CASE ~ (InWindow(v) /\ labels[v][side].cost < request.cutoff /\ labels[v][side].cost < cutoffValue)
  <2>1. UNCHANGED <<allPaths, valuedPaths>>  BY <1>3 DEF Offered, pathSetVars
  <2>2. /\ Found(TimedEdges, request.maxNumPaths, request.cutoff)'
        /\ (\A i \in 1 .. Len(valuedPaths) : IsAnswer(valuedPaths[i].path, 2))'
        /\ bestValue' = bestValue
    BY <2>1, AnswersStay
  <2> QED BY <1>2, <1>3, <2>2
<1>4. CASE InWindow(v) /\ labels[v][side].cost < request.cutoff /\ labels[v][side].cost < cutoffValue
  <2>1. PICK p, c, max, limit :
          p = PathTo(v, side) /\ c = labels[v][side].cost /\ max = request.maxNumPaths /\ limit = request.cutoff
    OBVIOUS
  <2>2. Insert(p, c, max)  BY <1>4, <2>1 DEF Offered
  <2>3. ~ isEmpty(labels[v][side])  BY <1>2, <1>4 DEF isEmpty
  <2>4. IsRoute(UsableEdges, p, v) /\ NoReturn(p) /\ Total(costs, p) = c
    BY <2>1, <2>3, PathIs DEF IInv, AnswersFound
  <2>5. IsAnswer(p, 2) /\ p \in Seq(TimedEdges)  BY <1>4, <2>4, RouteIsAnswer
  <2>6. /\ max \in Nat \ {0} /\ limit \in Int /\ Found(TimedEdges, max, limit) /\ Inf \in Nat
        /\ c = Total(costs, p) /\ c < Inf /\ c < limit /\ UNCHANGED costs /\ c \in Int
    BY <1>1, <1>2, <1>4, <2>1, <2>4
  <2>7. /\ Found(TimedEdges, max, limit)' /\ NoOthers(p)
        /\ bestValue' = IF c < bestValue THEN c ELSE bestValue
    BY <2>2, <2>5, <2>6, InsertFinds
  <2>8. (\A i \in 1 .. Len(valuedPaths) : IsAnswer(valuedPaths[i].path, 2))'
    <3>1. \A q : IsAnswer(q, 2) => IsAnswer(q, 2)'  BY DEF IsAnswer, Usable
    <3>2. \A i \in 1 .. Len(valuedPaths) : IsAnswer(valuedPaths[i].path, 2)  BY DEF AnswersFound
    <3>3. \A i \in 1 .. Len(valuedPaths') : IsAnswer(valuedPaths'[i].path, 2)
      BY <2>5, <2>7, <3>2 DEF NoOthers
    <3> QED BY <3>1, <3>3
  <2>9. Found(TimedEdges, request.maxNumPaths, request.cutoff)'  BY <2>1, <2>7
  <2>10. bestValue' \in Int /\ bestValue' <= bestValue /\ bestValue' <= c  BY <1>2, <2>6, <2>7
  <2> QED BY <1>2, <2>1, <2>8, <2>9, <2>10
<1> QED BY <1>3, <1>4

LEMMA SkipAnswers ==
  ASSUME IInv, AnswersFound, NEW v \in TimedVertices, Skip(v), UNCHANGED <<pc, arguments, rivalVars>>
  PROVE  AnswersFound'
<1>1. /\ UNCHANGED <<costs, request, labels, allPaths, valuedPaths, pc>> /\ pc = "search" /\ todo' = todo \ {v}
      /\ isEmpty(labels[v].left) /\ isEmpty(labels[v].right)
  BY DEF Skip, Visit, arguments, pathSetVars
<1>2. bestValue' = bestValue  BY <1>1 DEF bestValue
<1>3. Closed'
  <2> SUFFICES ASSUME NEW w \in TimedVertices \ todo', NEW s \in Sides, IsEnd(w), InWindow(w),
                      ~ isEmpty(labels[w][s]), labels[w][s].cost < request.cutoff
               PROVE  bestValue <= labels[w][s].cost
    BY <1>1, <1>2 DEF Closed, InWindow, isEmpty
  <2>1. w # v  BY <1>1 DEF Sides
  <2> QED BY <1>1, <2>1 DEF AnswersFound, Closed
<1> QED BY <1>1, <1>3, LinksStay, AnswersStay DEF AnswersFound

LEMMA CloseLeftAnswers ==
  ASSUME IInv, AnswersFound, NEW v \in TimedVertices, CloseLeft(v), UNCHANGED <<arguments, rivalVars>>
  PROVE  AnswersFound'
<1>1. /\ UNCHANGED <<costs, request, labels>> /\ pc = "search" /\ pc' = "right" /\ todo' = todo \ {v}
      /\ IsEnd(v) /\ Offered(v, "left") /\ v \in todo /\ \A w \in todo : v.time <= w.time
  BY DEF CloseLeft, Visit, Due, arguments
<1>2. /\ Found(TimedEdges, request.maxNumPaths, request.cutoff)'
      /\ (\A i \in 1 .. Len(valuedPaths) : IsAnswer(valuedPaths[i].path, 2))'
      /\ bestValue \in Int /\ bestValue' \in Int /\ bestValue' <= bestValue
      /\ InWindow(v) /\ labels[v].left.cost < request.cutoff => bestValue' <= labels[v].left.cost
  BY <1>1, OfferedFinds DEF Sides
<1>3. \A w \in TimedVertices : w.time \in Nat  BY NetworkAssumption DEF IsNetwork
<1>4. LatestEnd(v)'
  <2>1. \A w \in TimedVertices : w \notin todo' => w.time <= v.time
    BY <1>1, <1>3 DEF IInv, InOrder
  <2> QED BY <1>1, <2>1 DEF LatestEnd
<1>5. Closed'
  <2> SUFFICES ASSUME NEW w \in TimedVertices \ todo', NEW s \in Sides, IsEnd(w), InWindow(w),
                      ~ isEmpty(labels[w][s]), labels[w][s].cost < request.cutoff
               PROVE  bestValue' <= labels[w][s].cost \/ (s = "right" /\ LatestEnd(w)')
    BY <1>1 DEF Closed, InWindow, isEmpty
  <2>1. CASE w = v  BY <1>2, <1>4, <2>1 DEF Sides
  <2>2. CASE w # v
    <3>1. bestValue <= labels[w][s].cost  BY <1>1, <2>2 DEF AnswersFound, Closed
    <3>2. labels[w][s].cost \in Int  BY DEF IInv, Types, Valid, Sides
    <3> QED BY <1>2, <3>1, <3>2
  <2> QED BY <2>1, <2>2
<1> QED BY <1>1, <1>2, <1>5, LinksStay DEF AnswersFound

LEMMA CloseRightAnswers ==
  ASSUME IInv, AnswersFound, NEW v \in TimedVertices, CloseRight(v), UNCHANGED <<arguments, rivalVars>>
  PROVE  AnswersFound'
<1>1. /\ UNCHANGED <<costs, request, labels, todo>> /\ pc' = "search"
      /\ IsEnd(v) /\ Offered(v, "right") /\ LatestEnd(v)
  BY DEF CloseRight, arguments, LatestEnd
<1>2. /\ Found(TimedEdges, request.maxNumPaths, request.cutoff)'
      /\ (\A i \in 1 .. Len(valuedPaths) : IsAnswer(valuedPaths[i].path, 2))'
      /\ bestValue \in Int /\ bestValue' \in Int /\ bestValue' <= bestValue
      /\ InWindow(v) /\ labels[v].right.cost < request.cutoff => bestValue' <= labels[v].right.cost
  BY <1>1, OfferedFinds DEF Sides
<1>3. \A w \in TimedVertices : w.time \in Nat /\ w = [vertex |-> w.vertex, time |-> w.time]
  BY NetworkAssumption DEF IsNetwork
<1>4. \A w \in TimedVertices : LatestEnd(w) => w = v
  <2> SUFFICES ASSUME NEW w \in TimedVertices, LatestEnd(w) PROVE w = v
    OBVIOUS
  <2>1. w.time = v.time /\ w.vertex = v.vertex  BY <1>1, <1>3 DEF LatestEnd, IsEnd
  <2> QED BY <1>3, <2>1
<1>5. Closed'
  <2> SUFFICES ASSUME NEW w \in TimedVertices \ todo, NEW s \in Sides, IsEnd(w), InWindow(w),
                      ~ isEmpty(labels[w][s]), labels[w][s].cost < request.cutoff
               PROVE  bestValue' <= labels[w][s].cost
    BY <1>1 DEF Closed, InWindow, isEmpty
  <2>1. bestValue <= labels[w][s].cost \/ (s = "right" /\ LatestEnd(w))  BY DEF AnswersFound, Closed
  <2>2. CASE s = "right" /\ w = v  BY <1>2, <2>2
  <2>3. CASE bestValue <= labels[w][s].cost
    <3>1. labels[w][s].cost \in Int  BY DEF IInv, Types, Valid, Sides
    <3> QED BY <1>2, <2>3, <3>1
  <2> QED BY <1>4, <2>1, <2>2, <2>3
<1> QED BY <1>1, <1>2, <1>5, LinksStay DEF AnswersFound

LEMMA ExpandAnswers ==
  ASSUME IInv, AnswersFound, NEW v \in TimedVertices, Expand(v), UNCHANGED <<pc, arguments, rivalVars>>
  PROVE  AnswersFound'
<1> DEFINE side(w) == SideTo(labels[v], w)
           next(w) == [cost |-> labels[v][side(w)].cost + costs[EdgeTo(v, w)],
                       edge |-> EdgeTo(v, w), pred |-> side(w)]
           reached(w) == EdgeTo(v, w) \in Outgoing(v) /\ ~ isEmpty(labels[v][side(w)])
<1>1. /\ UNCHANGED <<costs, request, pc, allPaths, valuedPaths>>
      /\ todo' = todo \ {v} /\ pc = "search" /\ v \in todo /\ ~ IsEnd(v)
      /\ \A w \in todo : v.time <= w.time
  BY DEF Expand, Visit, Due, arguments, pathSetVars
<1>2. labels' = [w \in TimedVertices |-> IF reached(w) THEN Updated(labels[w], next(w)) ELSE labels[w]]
  BY DEF Expand
<1>3. /\ \A w \in TimedVertices : w.time \in Nat /\ Valid(labels[w])
      /\ Start.time = 0
  BY NetworkAssumption DEF IsNetwork, IInv, Types, Start
<1>4. \A w \in TimedVertices : w \notin todo \/ w = v => labels'[w] = labels[w]
  <2> SUFFICES ASSUME NEW w \in TimedVertices, w \notin todo \/ w = v, EdgeTo(v, w) \in TimedEdges
               PROVE  FALSE
    BY <1>2 DEF Outgoing
  <2>1. v.time < w.time
    BY Edges DEF EdgeTo
  <2>2. w \notin todo /\ w.time <= v.time
    BY <2>1, <1>1, <1>3 DEF IInv, InOrder
  <2> QED
    BY <2>1, <2>2, <1>3
<1>5. UsableEdges' = UsableEdges  BY <1>1 DEF UsableEdges, Usable
<1>6. ASSUME NEW w \in TimedVertices, NEW s \in Sides PROVE Link(w, s)'
  <2>1. CASE labels'[w][s] = labels[w][s]
    <3>1. Link(w, s)  BY DEF AnswersFound
    <3>2. \A e \in UsableEdges : e.source \notin todo => labels'[e.source] = labels[e.source]
      BY <1>4, Edges DEF UsableEdges
    <3> QED BY <1>1, <1>5, <2>1, <3>1, <3>2 DEF Link, isEmpty, From
  <2>2. CASE reached(w) /\ labels'[w][s] = next(w)
    <3>1. /\ EdgeTo(v, w) \in UsableEdges /\ EdgeTo(v, w).source = v /\ EdgeTo(v, w).target = w
          /\ v.time < w.time
      BY <2>2, Edges DEF Outgoing, UsableEdges, EdgeTo
    <3>2. w # Start  BY <1>3, <3>1
    <3>3. side(w) \in Sides  BY <1>3, SideHasCost
    <3>4. ~ isEmpty(labels[v][side(w)]) /\ From(labels[v][side(w)]) # w.vertex
      BY <1>3, <2>2, SideDoesNotReturn
    <3>5. labels'[v] = labels[v] /\ v \notin todo'  BY <1>1, <1>4
    <3>6. /\ next(w).edge = EdgeTo(v, w) /\ next(w).pred = side(w)
          /\ next(w).cost = labels[v][side(w)].cost + costs[EdgeTo(v, w)]
      OBVIOUS
    <3> HIDE DEF next, side, reached
    <3> QED BY <1>1, <1>5, <2>2, <3>1, <3>2, <3>3, <3>4, <3>5, <3>6 DEF Link, isEmpty, From
  <2>3. labels'[w][s] = labels[w][s] \/ (reached(w) /\ labels'[w][s] = next(w))
    <3> HIDE DEF next, reached
    <3> QED BY <1>2, <1>3, UpdatedSides
  <2> QED BY <2>1, <2>2, <2>3
<1>7. /\ Found(TimedEdges, request.maxNumPaths, request.cutoff)'
      /\ (\A i \in 1 .. Len(valuedPaths) : IsAnswer(valuedPaths[i].path, 2))'
      /\ bestValue' = bestValue
  BY <1>1, AnswersStay
<1>8. Closed'
  <2> SUFFICES ASSUME NEW w \in TimedVertices \ todo', NEW s \in Sides, IsEnd(w), InWindow(w),
                      ~ isEmpty(labels'[w][s]), labels'[w][s].cost < request.cutoff
               PROVE  bestValue <= labels'[w][s].cost
    BY <1>1, <1>7 DEF Closed, InWindow, isEmpty
  <2>1. w # v /\ labels'[w] = labels[w] /\ w \notin todo  BY <1>1, <1>4
  <2> QED BY <1>1, <2>1 DEF AnswersFound, Closed, isEmpty
<1> QED BY <1>6, <1>7, <1>8 DEF AnswersFound

\* A step that leaves the loop and the paths alone, when the right label has been offered.
LEMMA IdleAnswers ==
  ASSUME AnswersFound, UNCHANGED <<costs, request, labels, allPaths, valuedPaths, todo>>, pc # "right" \/ pc' = pc
  PROVE  AnswersFound'
<1>1. bestValue' = bestValue  BY DEF bestValue
<1>2. Closed'  BY <1>1 DEF AnswersFound, Closed, InWindow, isEmpty, LatestEnd
<1>3. todo' \subseteq todo  OBVIOUS
<1> QED BY <1>2, <1>3, LinksStay, AnswersStay DEF AnswersFound

LEMMA AnswersStep == IInv /\ AnswersFound /\ [Next]_vars => AnswersFound'
<1> SUFFICES ASSUME IInv, AnswersFound, [Next]_vars PROVE AnswersFound'
  OBVIOUS
<1>1. CASE Search
  <2>1. CASE Finish /\ UNCHANGED <<arguments, rivalVars>>
    BY <2>1, IdleAnswers DEF Finish, pathSetVars, arguments
  <2> QED BY <1>1, <2>1, SkipAnswers, ExpandAnswers, CloseLeftAnswers, CloseRightAnswers DEF Search
<1>2. CASE Rival
  BY <1>2, IdleAnswers DEF Rival, Walk, pathSetVars, arguments
<1>3. CASE UNCHANGED vars
  BY <1>3, IdleAnswers DEF vars, pathSetVars, arguments
<1> QED BY <1>1, <1>2, <1>3 DEF Next

\* What the two-cycle-free router promises.
LEMMA AnswersAre == IInv /\ AnswersFound => Answers /\ RivalBeaten
<1> SUFFICES ASSUME IInv, AnswersFound PROVE Answers /\ RivalBeaten
  OBVIOUS
<1>1. Found(TimedEdges, request.maxNumPaths, request.cutoff)  BY DEF AnswersFound
<1>2. Answers
  <2>1. Len(valuedPaths) <= request.maxNumPaths  BY <1>1 DEF Found, Kept
  <2>2. ASSUME NEW i \in 1 .. Len(valuedPaths)
        PROVE  LET entry == valuedPaths[i]
               IN  /\ IsAnswer(entry.path, 2)
                   /\ entry.value = PathCost(entry.path)
                   /\ entry.value < request.cutoff
                   /\ \A j \in 1 .. Len(valuedPaths) : entry.path = valuedPaths[j].path => i = j
    <3>1. IsAnswer(valuedPaths[i].path, 2)  BY DEF AnswersFound
    <3>2. valuedPaths[i].value = PathCost(valuedPaths[i].path) /\ valuedPaths[i].value < request.cutoff
      BY <1>1, PathCostIsTotal DEF Found
    <3>3. \A j \in 1 .. Len(valuedPaths) : valuedPaths[i].path = valuedPaths[j].path => i = j
      BY <1>1 DEF Found, Kept
    <3> QED BY <3>1, <3>2, <3>3
  <2> QED BY <2>1, <2>2 DEF Answers, PathsAreAnswers
<1>3. RivalBeaten
  <2> SUFFICES ASSUME Arrived PROVE bestValue <= spent
    BY DEF RivalBeaten
  <2>1. pc = "done" /\ IsEnd(pos) /\ InWindow(pos) /\ spent < request.cutoff /\ pos \in TimedVertices \ todo
    BY DEF Arrived, InWindow, IInv, Finished, Types
  <2>2. PICK q : q # trail[1]
    <3>1. "left" # "right"  OBVIOUS
    <3>2. CASE trail[1] = "left"
      <4>1. "right" # trail[1]  BY <3>2
      <4> QED BY <4>1
    <3>3. CASE trail[1] # "left"
      <4>1. "left" # trail[1]  BY <3>3
      <4> QED BY <4>1
    <3> QED BY <3>2, <3>3
  <2>3. PICK s \in Sides : ~ isEmpty(labels[pos][s]) /\ labels[pos][s].cost <= spent
    BY <2>2 DEF IInv, Serves, LeadsTo, Sides
  <2>4. /\ spent \in Int /\ labels[pos][s].cost \in Int /\ request.cutoff \in Int
        /\ Kept(Seq(TimedEdges), request.maxNumPaths) /\ Inf \in Nat
    BY <1>1, RequestAssumption, InfAssumption DEF AreRequests, IInv, Types, Valid, Sides, Found
  <2>5. bestValue <= labels[pos][s].cost
    BY <2>1, <2>3, <2>4 DEF AnswersFound, Closed
  <2>6. bestValue \in Int
    <3> DEFINE P == Seq(TimedEdges)
    <3>1. Kept(P, request.maxNumPaths)  BY <2>4
    <3> HIDE DEF P
    <3> QED BY <2>4, <3>1, BestIsLeast
  <2> QED BY <2>3, <2>4, <2>5, <2>6
<1> QED BY <1>2, <1>3

-----------------------------------------------------------------------------
(* The answers of the acyclic routers.                                     *)

\* The cost of two paths, one after the other.
LEMMA TotalOfBoth ==
  ASSUME NEW E, NEW c \in [E -> Int], NEW p \in Seq(E), NEW q \in Seq(E)
  PROVE  /\ Total(c, p) \in Int /\ Total(c, q) \in Int
         /\ Total(c, p \o q) = Total(c, p) + Total(c, q)
<1> DEFINE r == p \o q
           n == Len(p)
           m == Len(q)
<1>1. n \in Nat /\ m \in Nat  BY LenProperties
<1>2. r \in Seq(E) /\ Len(r) = n + m /\ \A i \in 1 .. n + m : r[i] = IF i <= n THEN p[i] ELSE q[i - n]
  BY ConcatProperties
<1> HIDE DEF r
<1>3. PICK f : f \in [0 .. Len(p) -> Int] /\ Sums(f, c, p) /\ Total(c, p) = f[Len(p)]  BY TotalIs
<1>4. PICK g : g \in [0 .. Len(q) -> Int] /\ Sums(g, c, q) /\ Total(c, q) = g[Len(q)]  BY TotalIs
<1>5. PICK h : h \in [0 .. Len(r) -> Int] /\ Sums(h, c, r) /\ Total(c, r) = h[Len(r)]  BY <1>2, TotalIs
<1>6. f[n] \in Int /\ g[m] \in Int
  <2>1. n \in 0 .. n /\ m \in 0 .. m  BY <1>1
  <2> QED BY <1>3, <1>4, <2>1
<1>7. h[n] = f[n]
  <2>1. PICK k, u, w, d : k = n /\ u = p /\ w = r /\ d = c  OBVIOUS
  <2>2. k \in Nat /\ k <= Len(u) /\ k <= Len(w) /\ Len(u) \in Nat /\ Len(w) \in Nat
    BY <1>1, <1>2, <2>1
  <2>3. Sums(f, d, u) /\ Sums(h, d, w)  BY <1>3, <1>5, <2>1
  <2>4. \A i \in 1 .. k : u[i] = w[i]  BY <1>1, <1>2, <2>1
  <2>5. f[k] = h[k]
    <3> HIDE DEF n, m
    <3> QED BY <2>2, <2>3, <2>4, SumsAgree
  <2> QED BY <2>1, <2>5
<1> DEFINE T == {k \in Nat : k <= m => h[n + k] = f[n] + g[k]}
<1> HIDE DEF n, m
<1>8. 0 \in T
  <2>1. g[0] = 0  BY <1>1, <1>4 DEF Sums, m
  <2>2. n + 0 = n  BY <1>1
  <2> QED BY <1>1, <1>6, <1>7, <2>1, <2>2
<1>9. \A k \in T : k + 1 \in T
  <2> SUFFICES ASSUME NEW k \in T, k + 1 <= m PROVE h[n + (k + 1)] = f[n] + g[k + 1]
    OBVIOUS
  <2>1. k \in Nat /\ k <= m /\ h[n + k] = f[n] + g[k]
    <3>1. k \in Nat /\ (k <= m => h[n + k] = f[n] + g[k])  OBVIOUS
    <3>2. k <= m  BY <1>1, <3>1
    <3> QED BY <3>1, <3>2
  <2>2. g[k + 1] = g[k] + c[q[k + 1]]
    <3>1. k + 1 \in 0 .. Len(q) /\ k + 1 # 0 /\ (k + 1) - 1 = k  BY <1>1, <2>1 DEF m
    <3>2. g[k + 1] = g[(k + 1) - 1] + c[q[k + 1]]  BY <1>4, <3>1 DEF Sums
    <3> QED BY <3>1, <3>2
  <2>3. h[n + (k + 1)] = h[n + k] + c[r[n + (k + 1)]]
    <3>1. n + (k + 1) \in 0 .. Len(r) /\ n + (k + 1) # 0 /\ (n + (k + 1)) - 1 = n + k  BY <1>1, <1>2, <2>1
    <3>2. h[n + (k + 1)] = h[(n + (k + 1)) - 1] + c[r[n + (k + 1)]]  BY <1>5, <3>1 DEF Sums
    <3> QED BY <3>1, <3>2
  <2>4. r[n + (k + 1)] = q[k + 1]
    <3>1. n + (k + 1) \in 1 .. n + m /\ ~ (n + (k + 1) <= n) /\ (n + (k + 1)) - n = k + 1  BY <1>1, <2>1
    <3> QED BY <1>2, <3>1
  <2>5. g[k] \in Int /\ c[q[k + 1]] \in Int
    <3>1. k \in 0 .. Len(q) /\ k + 1 \in 1 .. Len(q)  BY <1>1, <2>1 DEF m
    <3>2. q[k + 1] \in E  BY <3>1, ElementOfSeq
    <3> QED BY <1>4, <3>1, <3>2
  <2> QED BY <1>6, <2>1, <2>2, <2>3, <2>4, <2>5
<1>10. T = Nat
  <2>1. T \in SUBSET Nat  OBVIOUS
  <2> HIDE DEF T
  <2> QED BY <1>8, <1>9, <2>1, Induction
<1>11. h[n + m] = f[n] + g[m]
  <2>1. m <= m  BY <1>1
  <2>2. m \in T
    <3> HIDE DEF T
    <3> QED BY <1>1, <1>10
  <2> QED BY <2>1, <2>2
<1> QED BY <1>2, <1>3, <1>4, <1>5, <1>6, <1>11 DEF n, m, r

\* One edge before a path.
LEMMA TotalBefore ==
  ASSUME NEW E, NEW c \in [E -> Int], NEW e \in E, NEW q \in Seq(E)
  PROVE  Total(c, <<e>> \o q) = c[e] + Total(c, q) /\ Total(c, q) \in Int
<1> DEFINE p == <<>>
           s == <<e>>
<1>1. p \in Seq(E) /\ s \in Seq(E) /\ s = Append(p, e)  OBVIOUS
<1>2. Total(c, p) = 0  BY NothingIsFree
<1> HIDE DEF p, s
<1>3. Total(c, s) = Total(c, p) + c[e]  BY <1>1, TotalGrows
<1>4. Total(c, s \o q) = Total(c, s) + Total(c, q) /\ Total(c, q) \in Int  BY <1>1, TotalOfBoth
<1>5. c[e] \in Int  OBVIOUS
<1> QED BY <1>2, <1>3, <1>4, <1>5 DEF s

AcyclicUsable == {e \in Acyclic.edges : A!Usable(e)}

\* A bound is that of an end in order, or none, or leads on to one that stays.
BoundLink(v) ==
  LET b == bounds[v] IN
  /\ b.cost \in Int /\ b.cost <= Inf
  /\ \/ b.edge = NoEdge /\ b.cost = IF A!IsEnd(v) /\ A!InWindow(v) THEN 0 ELSE Inf
     \/ /\ b.edge \in AcyclicUsable /\ b.edge.source = v
        /\ otherPc = "bounds" => b.edge.target \notin todo
        /\ bounds[b.edge.target].cost < Inf
        /\ b.cost = bounds[b.edge.target].cost + costs[b.edge] /\ b.cost < Inf

\* The bounds are least: no edge lowers one.
BoundsInv ==
  /\ \A v \in Acyclic.vertices : BoundLink(v)
  /\ \A e \in AcyclicUsable :
       /\ otherPc = "bounds" => e.target \notin todo
       /\ bounds[e.target].cost < Inf
       => bounds[e.source].cost <= bounds[e.target].cost + costs[e]

LEMMA BoundsInit == A!Init => BoundsInv
<1> SUFFICES ASSUME A!Init PROVE BoundsInv
  OBVIOUS
<1>1. /\ otherPc = "bounds" /\ todo = Acyclic.vertices
      /\ \A v \in Acyclic.vertices :
           bounds[v] = [cost |-> IF A!IsEnd(v) /\ A!InWindow(v) THEN 0 ELSE Inf, edge |-> NoEdge]
  BY DEF A!Init, A!RouterInit
<1>2. Inf \in Nat \ {0}  BY InfAssumption
<1>3. \A e \in AcyclicUsable : e.target \in todo  BY <1>1, AcyclicEdges DEF AcyclicUsable
<1>4. ASSUME NEW v \in Acyclic.vertices PROVE BoundLink(v)
  <2>1. PICK c : c = IF A!IsEnd(v) /\ A!InWindow(v) THEN 0 ELSE Inf  OBVIOUS
  <2>2. bounds[v] = [cost |-> c, edge |-> NoEdge]  BY <1>1, <2>1
  <2>3. c \in Int /\ c <= Inf  BY <1>2, <2>1
  <2> QED BY <2>1, <2>2, <2>3 DEF BoundLink
<1> QED BY <1>1, <1>3, <1>4 DEF BoundsInv

\* One vertex is relaxed: what its bound and the later ones are stays.
LEMMA BoundStep ==
  ASSUME AcyclicTypes, AcyclicOrder, BoundsInv, otherPc = "bounds", NEW v \in Acyclic.vertices, A!Bound(v),
         UNCHANGED <<costs, request, otherPc>>
  PROVE  BoundsInv'
<1> DEFINE lower(u) == /\ bounds[v].cost < Inf
                       /\ A!EdgeTo(u, v) \in AcyclicUsable
                       /\ bounds[u].cost > bounds[v].cost + costs[A!EdgeTo(u, v)]
<1>1. /\ v \in todo /\ (\A w \in todo : w.time <= v.time) /\ todo' = todo \ {v}
      /\ \A u \in Acyclic.vertices :
           bounds'[u] = IF lower(u) THEN [cost |-> bounds[v].cost + costs[A!EdgeTo(u, v)], edge |-> A!EdgeTo(u, v)]
                        ELSE bounds[u]
  BY DEF A!Bound, AcyclicUsable
<1> HIDE DEF lower
<1>0. ASSUME NEW u \in Acyclic.vertices, lower(u)
      PROVE  bounds'[u].cost = bounds[v].cost + costs[A!EdgeTo(u, v)] /\ bounds'[u].edge = A!EdgeTo(u, v)
  <2>1. PICK c, d : c = bounds[v].cost + costs[A!EdgeTo(u, v)] /\ d = A!EdgeTo(u, v)  OBVIOUS
  <2>2. bounds'[u] = [cost |-> c, edge |-> d]  BY <1>0, <1>1, <2>1
  <2> QED BY <2>1, <2>2
<1>2. /\ Inf \in Nat \ {0} /\ (\A e \in Acyclic.edges : costs[e] \in Int)
      /\ \A u \in Acyclic.vertices : u.time \in Nat /\ bounds[u].cost \in Int /\ bounds[u].cost <= Inf
  BY AcyclicArguments, AcyclicVertices DEF BoundsInv, BoundLink
<1>3. AcyclicUsable' = AcyclicUsable /\ AcyclicUsable \subseteq Acyclic.edges
  BY DEF AcyclicUsable, A!Usable
<1>4. \A u : A!EdgeTo(u, v).source = u /\ A!EdgeTo(u, v).target = v  BY DEF A!EdgeTo
<1>5. \A u \in Acyclic.vertices : u \notin todo \/ u = v => bounds'[u] = bounds[u]
  <2> SUFFICES ASSUME NEW u \in Acyclic.vertices, u \notin todo \/ u = v, A!EdgeTo(u, v) \in AcyclicUsable
               PROVE  FALSE
    BY <1>1 DEF lower
  <2>1. u.time < v.time  BY <1>3, <1>4, AcyclicEdges
  <2>2. u \notin todo  BY <1>2, <2>1
  <2>3. v.time <= u.time  BY <1>1, <2>2 DEF AcyclicOrder
  <2> QED BY <1>2, <2>1, <2>3
<1>6. ASSUME NEW u \in Acyclic.vertices
      PROVE  bounds'[u].cost \in Int /\ bounds'[u].cost <= bounds[u].cost
  <2>1. CASE lower(u)
    <3>1. bounds'[u].cost = bounds[v].cost + costs[A!EdgeTo(u, v)]  BY <1>0, <2>1
    <3>2. costs[A!EdgeTo(u, v)] \in Int  BY <1>2, <1>3, <2>1 DEF lower
    <3> QED BY <1>2, <2>1, <3>1, <3>2 DEF lower
  <2>2. CASE ~ lower(u)
    <3>1. bounds'[u] = bounds[u]  BY <1>1, <2>2
    <3> QED BY <1>2, <3>1
  <2> QED BY <2>1, <2>2
<1>7. ASSUME NEW u \in Acyclic.vertices PROVE BoundLink(u)'
  <2>0. bounds'[u].cost \in Int /\ bounds'[u].cost <= Inf  BY <1>2, <1>6
  <2>1. CASE lower(u)
    <3> DEFINE e == A!EdgeTo(u, v)
    <3>1. bounds'[u].edge = e /\ bounds'[u].cost = bounds[v].cost + costs[e]  BY <1>0, <2>1
    <3>2. e \in AcyclicUsable /\ e.source = u /\ e.target = v /\ bounds[v].cost < Inf
          /\ bounds[u].cost > bounds[v].cost + costs[e] /\ costs[e] \in Int
      BY <1>2, <1>3, <1>4, <2>1 DEF lower
    <3>3. bounds'[v] = bounds[v] /\ v \notin todo'  BY <1>1, <1>5
    <3>4. bounds'[u].cost < Inf  BY <1>2, <3>1, <3>2
    <3> HIDE DEF e
    <3> QED BY <1>3, <2>0, <3>1, <3>2, <3>3, <3>4 DEF BoundLink
  <2>2. CASE ~ lower(u)
    <3>1. bounds'[u] = bounds[u] /\ BoundLink(u)  BY <1>1, <2>2 DEF BoundsInv
    <3>2. CASE bounds[u].edge = NoEdge /\ bounds[u].cost = IF A!IsEnd(u) /\ A!InWindow(u) THEN 0 ELSE Inf
      BY <2>0, <3>1, <3>2 DEF BoundLink, A!InWindow, A!IsEnd
    <3>3. CASE /\ bounds[u].edge \in AcyclicUsable /\ bounds[u].edge.source = u
               /\ bounds[u].edge.target \notin todo
               /\ bounds[bounds[u].edge.target].cost < Inf
               /\ bounds[u].cost = bounds[bounds[u].edge.target].cost + costs[bounds[u].edge] /\ bounds[u].cost < Inf
      <4> DEFINE w == bounds[u].edge.target
      <4>1. w \in Acyclic.vertices  BY <1>3, <3>3, AcyclicEdges
      <4>2. bounds'[w] = bounds[w] /\ w \notin todo'  BY <1>1, <1>5, <3>3, <4>1
      <4> HIDE DEF w
      <4> QED BY <1>3, <2>0, <3>1, <3>3, <4>2 DEF BoundLink, w
    <3> QED BY <3>1, <3>2, <3>3 DEF BoundLink
  <2> QED BY <2>1, <2>2
<1>8. ASSUME NEW e \in AcyclicUsable, e.target \notin todo', bounds'[e.target].cost < Inf
      PROVE  bounds'[e.source].cost <= bounds'[e.target].cost + costs[e]
  <2>1. e.source \in Acyclic.vertices /\ e.target \in Acyclic.vertices /\ costs[e] \in Int
        /\ e = A!EdgeTo(e.source, e.target)
    BY <1>2, <1>3, AcyclicEdges
  <2>2. CASE e.target = v
    <3>1. bounds'[v] = bounds[v]  BY <1>5
    <3>2. CASE lower(e.source)
      <4>1. bounds'[e.source].cost = bounds[v].cost + costs[e]  BY <1>0, <2>1, <2>2, <3>2
      <4> QED BY <1>2, <2>1, <2>2, <3>1, <4>1
    <3>3. CASE ~ lower(e.source)
      <4>1. bounds'[e.source] = bounds[e.source]  BY <1>1, <2>1, <3>3
      <4>2. ~ (bounds[e.source].cost > bounds[v].cost + costs[e])  BY <1>8, <2>1, <2>2, <3>1, <3>3 DEF lower
      <4> QED BY <1>2, <2>1, <2>2, <3>1, <4>1, <4>2
    <3> QED BY <3>2, <3>3
  <2>3. CASE e.target # v
    <3>1. e.target \notin todo /\ bounds'[e.target] = bounds[e.target]  BY <1>1, <1>5, <1>8, <2>1, <2>3
    <3>2. bounds[e.source].cost <= bounds[e.target].cost + costs[e]  BY <1>8, <3>1 DEF BoundsInv
    <3> QED BY <1>2, <1>6, <2>1, <3>1, <3>2
  <2> QED BY <2>2, <2>3
<1> QED BY <1>3, <1>7, <1>8 DEF BoundsInv

LEMMA BoundsStay ==
  ASSUME BoundsInv, UNCHANGED <<costs, request, bounds>>,
         (otherPc' # "bounds" /\ (otherPc = "bounds" => todo = {})) \/ UNCHANGED <<otherPc, todo>>
  PROVE  BoundsInv'
<1>1. AcyclicUsable' = AcyclicUsable  BY DEF AcyclicUsable, A!Usable
<1>2. \A v \in Acyclic.vertices : BoundLink(v) => BoundLink(v)'
  BY <1>1 DEF BoundLink, A!InWindow, A!IsEnd
<1> QED BY <1>1, <1>2 DEF BoundsInv

\* A walk from v to an end that is in order.
IsWay(E, q, v) ==
  /\ q \in Seq(E)
  /\ q = <<>> => A!IsEnd(v) /\ A!InWindow(v)
  /\ q # <<>> => q[1].source = v /\ A!IsEnd(q[Len(q)].target) /\ A!InWindow(q[Len(q)].target)
  /\ \A i \in 1 .. Len(q) - 1 : q[i].target = q[i + 1].source

LEMMA WayGrows ==
  ASSUME NEW E, NEW e \in E, NEW q, IsWay(E, q, e.target)
  PROVE  IsWay(E, <<e>> \o q, e.source)
<1> DEFINE r == <<e>> \o q
           n == Len(q)
<1>1. q \in Seq(E) /\ n \in Nat /\ (q = <<>> <=> n = 0)  BY LenProperties, EmptySeq DEF IsWay
<1>2. r \in Seq(E) /\ Len(r) = n + 1 /\ r[1] = e /\ \A i \in 2 .. n + 1 : r[i] = q[i - 1]
  <2> DEFINE s == <<e>>
  <2>1. s \in Seq(E) /\ Len(s) = 1 /\ s[1] = e  OBVIOUS
  <2> HIDE DEF s
  <2>2. /\ s \o q \in Seq(E) /\ Len(s \o q) = Len(s) + Len(q)
        /\ \A i \in 1 .. Len(s) + Len(q) : (s \o q)[i] = IF i <= Len(s) THEN s[i] ELSE q[i - Len(s)]
    BY <1>1, <2>1, ConcatProperties
  <2>3. r = s \o q  BY DEF s
  <2> HIDE DEF r
  <2>4. 1 \in 1 .. 1 + n /\ 1 <= 1 /\ \A i \in 2 .. n + 1 : i \in 1 .. 1 + n /\ ~ (i <= 1)  BY <1>1
  <2> QED BY <1>1, <2>1, <2>2, <2>3, <2>4
<1> HIDE DEF r, n
<1>3. r # <<>>
  <2>1. r = <<>> => Len(r) = 0  OBVIOUS
  <2> QED BY <1>1, <1>2, <2>1
<1>4. A!IsEnd(r[Len(r)].target) /\ A!InWindow(r[Len(r)].target)
  <2>1. CASE n = 0  BY <1>1, <1>2, <2>1 DEF IsWay
  <2>2. CASE n # 0
    <3>1. n + 1 \in 2 .. n + 1 /\ (n + 1) - 1 = n  BY <1>1, <2>2
    <3>2. r[Len(r)] = q[n]  BY <1>2, <3>1
    <3> QED BY <1>1, <2>2, <3>2 DEF IsWay, n
  <2> QED BY <2>1, <2>2
<1>5. \A i \in 1 .. Len(r) - 1 : r[i].target = r[i + 1].source
  <2> TAKE i \in 1 .. Len(r) - 1
  <2>1. i \in 1 .. n /\ i + 1 \in 2 .. n + 1 /\ (i + 1) - 1 = i  BY <1>1, <1>2
  <2>2. r[i + 1] = q[i]  BY <1>2, <2>1
  <2>3. CASE i = 1
    <3>1. q # <<>>  BY <1>1, <2>1
    <3> QED BY <1>2, <2>2, <2>3, <3>1 DEF IsWay
  <2>4. CASE i # 1
    <3>1. i \in 2 .. n + 1 /\ i - 1 \in 1 .. n - 1 /\ (i - 1) + 1 = i  BY <1>1, <2>1, <2>4
    <3>2. r[i] = q[i - 1]  BY <1>2, <3>1
    <3>3. q[i - 1].target = q[(i - 1) + 1].source  BY <3>1 DEF IsWay, n
    <3> QED BY <2>2, <3>1, <3>2, <3>3
  <2> QED BY <2>3, <2>4
<1> QED BY <1>2, <1>3, <1>4, <1>5 DEF IsWay, r

\* A function by which paths grow towards the source.
IsGuide(g, D, stop, next, edge) == g = [x \in D |-> IF x \in stop THEN <<>> ELSE <<edge[x]>> \o g[next[x]]]

LEMMA GuideExists ==
  ASSUME NEW D, NEW N \in Nat, NEW rank \in [D -> 0 .. N], NEW stop, NEW next \in [D -> D],
         \A x \in D \ stop : rank[next[x]] < rank[x],
         NEW edge
  PROVE  \E g : IsGuide(g, D, stop, next, edge)
<1> DEFINE E == {edge[x] : x \in D}
           V == Seq(E)
           G == [x \in D |-> [p \in V |-> <<edge[x]>> \o p]]
<1>1. <<>> \in V  OBVIOUS
<1>2. G \in [D -> [V -> V]]
  <2> SUFFICES ASSUME NEW x \in D, NEW p \in V PROVE <<edge[x]>> \o p \in V
    OBVIOUS
  <2>1. edge[x] \in E  OBVIOUS
  <2> DEFINE s == <<edge[x]>>
  <2>2. s \in Seq(E)  BY <2>1
  <2> HIDE DEF E, s
  <2>3. s \o p \in Seq(E)  BY <2>2, ConcatProperties
  <2> QED BY <2>3 DEF s
<1>3. \A x \in D, p \in V : G[x][p] = <<edge[x]>> \o p  OBVIOUS
<1> HIDE DEF V, G
<1>4. PICK g : IsRecursion(g, D, stop, <<>>, next, G, V)
  <2> DEFINE base == <<>>
  <2>1. base \in V  BY <1>1
  <2> HIDE DEF base
  <2>2. \E g : IsRecursion(g, D, stop, base, next, G, V)  BY <1>2, <2>1, RecursionExists
  <2> QED BY <2>2 DEF base
<1>5. g \in [D -> V] /\ \A x \in D : g[x] = IF x \in stop THEN <<>> ELSE G[x][g[next[x]]]
  BY <1>4 DEF IsRecursion
<1>6. \A x \in D : g[x] = IF x \in stop THEN <<>> ELSE <<edge[x]>> \o g[next[x]]
  <2> TAKE x \in D
  <2>1. g[next[x]] \in V  BY <1>5
  <2> QED BY <1>3, <1>5, <2>1
<1>7. IsGuide(g, D, stop, next, edge)
  <2>1. g = [x \in D |-> g[x]]  BY <1>5
  <2> QED BY <1>6, <2>1 DEF IsGuide
<1> QED BY <1>7

\* The vertices of the network by falling time.
LEMMA FallingRanks ==
  \E N \in Nat : \E rank \in [Acyclic.vertices -> 0 .. N] :
    \A u, v \in Acyclic.vertices : u.time < v.time => rank[v] < rank[u]
<1> DEFINE D == Acyclic.vertices
<1>1. PICK N \in Nat : \E rank \in [D -> 0 .. N] : \A u, v \in D : u.time < v.time => rank[u] < rank[v]
  <2>1. IsFiniteSet(D) /\ \A v \in D : v.time \in Nat  BY AcyclicVertices
  <2> HIDE DEF D
  <2> QED BY <2>1, RanksExist
<1>2. PICK rank \in [D -> 0 .. N] : \A u, v \in D : u.time < v.time => rank[u] < rank[v]  BY <1>1
<1> DEFINE falling == [v \in D |-> N - rank[v]]
<1>3. falling \in [D -> 0 .. N]  OBVIOUS
<1>4. \A u, v \in D : u.time < v.time => falling[v] < falling[u]  BY <1>2
<1> HIDE DEF falling
<1> QED BY <1>3, <1>4

\* The path a bound notes goes from the vertex to an end and costs what the bound says.
LEMMA BoundPathIs ==
  ASSUME AcyclicTypes, BoundsInv, NEW v \in Acyclic.vertices, bounds[v].cost < Inf
  PROVE  IsWay(AcyclicUsable, A!BoundPath(v), v) /\ Total(costs, A!BoundPath(v)) = bounds[v].cost
<1> DEFINE D == Acyclic.vertices
           stop == {w \in D : bounds[w].edge = NoEdge}
           edge == [w \in D |-> bounds[w].edge]
           next == [w \in D |-> IF w \in stop THEN w ELSE bounds[w].edge.target]
           Eq(g) == g = [w \in D |-> IF bounds[w].edge = NoEdge THEN <<>>
                                     ELSE <<bounds[w].edge>> \o g[bounds[w].edge.target]]
           f == CHOOSE g : Eq(g)
           good(w) == IsWay(AcyclicUsable, f[w], w) /\ Total(costs, f[w]) = bounds[w].cost
           T == {w \in D : bounds[w].cost < Inf => good(w)}
<1>0. PICK N \in Nat : \E rank \in [D -> 0 .. N] : \A u, w \in D : u.time < w.time => rank[w] < rank[u]
  BY FallingRanks
<1>1. PICK rank \in [D -> 0 .. N] : \A u, w \in D : u.time < w.time => rank[w] < rank[u]
  BY <1>0
<1>2. Inf \in Nat \ {0} /\ costs \in [Acyclic.edges -> Int] /\ NoEdge \notin Acyclic.edges
  BY NetworksAssumption, InfAssumption DEF AreRequests, AcyclicTypes
<1>3. ASSUME NEW w \in D \ stop
      PROVE  LET e == bounds[w].edge IN
             /\ e \in AcyclicUsable /\ e \in Acyclic.edges /\ e.source = w
             /\ e.target \in D /\ bounds[e.target].cost < Inf
             /\ bounds[w].cost = bounds[e.target].cost + costs[e]
             /\ rank[e.target] < rank[w]
  <2>1. BoundLink(w) /\ w \in D  BY DEF BoundsInv
  <2>2. bounds[w].edge \in AcyclicUsable /\ bounds[w].edge \in Acyclic.edges /\ bounds[w].edge.source = w
    BY <1>3, <2>1 DEF BoundLink, AcyclicUsable
  <2>3. bounds[w].edge.target \in D /\ w.time < bounds[w].edge.target.time
    BY <2>2, AcyclicEdges
  <2> QED BY <1>1, <1>3, <2>1, <2>2, <2>3 DEF BoundLink
<1>4. Eq(f)
  <2>1. next \in [D -> D] /\ \A w \in D \ stop : rank[next[w]] < rank[w]
    BY <1>3
  <2>2. PICK g : IsGuide(g, D, stop, next, edge)
    <3> HIDE DEF D, stop, edge, next
    <3> QED BY <2>1, GuideExists
  <2>3. Eq(g)
    <3>1. \A w \in D : w \in stop <=> bounds[w].edge = NoEdge  OBVIOUS
    <3>2. \A w \in D : w \notin stop => next[w] = bounds[w].edge.target /\ edge[w] = bounds[w].edge
      OBVIOUS
    <3> HIDE DEF D, stop, edge, next
    <3> QED BY <2>2, <3>1, <3>2 DEF IsGuide
  <2> HIDE DEF Eq
  <2> QED BY <2>3
<1>5. A!BoundPath(v) = f[v]
  BY DEF A!BoundPath
<1>6. \A w \in D : f[w] = IF w \in stop THEN <<>> ELSE <<bounds[w].edge>> \o f[bounds[w].edge.target]
  <2> HIDE DEF f
  <2> QED BY <1>4
<1> HIDE DEF f
<1>7. ASSUME NEW w \in D, \A y \in D : rank[y] < rank[w] => y \in T
      PROVE  w \in T
  <2> SUFFICES ASSUME bounds[w].cost < Inf PROVE good(w)
    OBVIOUS
  <2>1. CASE w \in stop
    <3>1. f[w] = <<>>  BY <1>6, <2>1
    <3>2. bounds[w].edge = NoEdge /\ BoundLink(w)  BY <2>1 DEF BoundsInv
    <3>3. NoEdge \notin AcyclicUsable  BY <1>2 DEF AcyclicUsable
    <3>4. A!IsEnd(w) /\ A!InWindow(w) /\ bounds[w].cost = 0  BY <1>2, <3>2, <3>3 DEF BoundLink
    <3>5. Total(costs, <<>>) = 0  BY <1>2, NothingIsFree
    <3>6. IsWay(AcyclicUsable, <<>>, w)  BY <3>4, EmptySeq DEF IsWay
    <3> QED BY <3>1, <3>4, <3>5, <3>6
  <2>2. CASE w \notin stop
    <3> DEFINE e == bounds[w].edge
               q == f[e.target]
    <3>1. /\ e \in AcyclicUsable /\ e \in Acyclic.edges /\ e.source = w
          /\ e.target \in D /\ bounds[e.target].cost < Inf
          /\ bounds[w].cost = bounds[e.target].cost + costs[e]
          /\ rank[e.target] < rank[w]
      BY <1>3, <2>2
    <3>2. good(e.target)  BY <1>7, <3>1
    <3>3. f[w] = <<e>> \o q  BY <1>6, <2>2
    <3>4. IsWay(AcyclicUsable, q, e.target) /\ Total(costs, q) = bounds[e.target].cost  BY <3>2
    <3> HIDE DEF e, q
    <3>5. IsWay(AcyclicUsable, <<e>> \o q, e.source)  BY <3>1, <3>4, WayGrows
    <3>6. q \in Seq(Acyclic.edges)
      <4>1. q \in Seq(AcyclicUsable)  BY <3>4 DEF IsWay
      <4>2. AcyclicUsable \subseteq Acyclic.edges  BY DEF AcyclicUsable
      <4> QED BY <4>1, <4>2
    <3>7. Total(costs, <<e>> \o q) = costs[e] + Total(costs, q) /\ Total(costs, q) \in Int
      BY <1>2, <3>1, <3>6, TotalBefore
    <3>8. costs[e] \in Int  BY <1>2, <3>1
    <3> QED BY <3>1, <3>3, <3>4, <3>5, <3>7, <3>8
  <2> QED BY <2>1, <2>2
<1>8. v \in T
  <2>1. v \in D  OBVIOUS
  <2> HIDE DEF D, T
  <2>2. D \subseteq T  BY <1>7, RankInduction
  <2> QED BY <2>1, <2>2
<1> QED BY <1>5, <1>8

\* The underlying vertices of a path from the source, from position 0 on.
Stop(p, i) == IF i = 0 THEN Root ELSE p[i].target.vertex

\* No cycle of up to `size` vertices.
Spread(p) == \A a, b \in 0 .. Len(p) : a < b /\ Stop(p, a) = Stop(p, b) => b - a > Size

\* The prefix has the last vertices of the path.
IsTail(prefix, p) ==
  /\ Len(prefix) = IF Len(p) + 1 > Size THEN Size ELSE Len(p) + 1
  /\ \A i \in 1 .. Len(prefix) : prefix[i] = Stop(p, Len(p) - Len(prefix) + i)

LEMMA SpreadGrows ==
  ASSUME NEW E, NEW p \in Seq(E), NEW e \in E, NEW U, NEW prefix \in Seq(U), e.target.vertex \in U,
         Spread(p), IsTail(prefix, p), ~ A!contains(prefix, e.target.vertex)
  PROVE  Spread(Append(p, e)) /\ IsTail(A!LastOf(Append(prefix, e.target.vertex), Size), Append(p, e))
<1> DEFINE n == Len(p)
           k == Len(prefix)
           r == Append(p, e)
           w == e.target.vertex
           s == Append(prefix, w)
           t == LastOf(s, Size)
           K == IF k + 1 > Size THEN Size ELSE k + 1
<1>1. n \in Nat /\ Size \in Nat \ {0} /\ k \in Nat /\ k = (IF n + 1 > Size THEN Size ELSE n + 1)
  BY LenProperties, SizeAssumption DEF IsTail
<1>2. r \in Seq(E) /\ Len(r) = n + 1 /\ (\A i \in 1 .. n : r[i] = p[i]) /\ r[n + 1] = e
  BY AppendProperties
<1>3. s \in Seq(U) /\ Len(s) = k + 1 /\ (\A i \in 1 .. k : s[i] = prefix[i]) /\ s[k + 1] = w
  BY AppendProperties
<1>4. \A i \in 1 .. k : prefix[i] = Stop(p, n - k + i) /\ prefix[i] # w
  BY DEF IsTail, A!contains
<1> HIDE DEF n, k, r, s
<1>5. (\A i \in 0 .. n : Stop(r, i) = Stop(p, i)) /\ Stop(r, n + 1) = w
  <2>1. \A i \in 0 .. n : i = 0 \/ i \in 1 .. n  BY <1>1
  <2>2. n + 1 # 0  BY <1>1
  <2> QED BY <1>2, <2>1, <2>2 DEF Stop
<1>6. ASSUME NEW a \in 0 .. n, Stop(p, a) = w PROVE n + 1 - a > Size
  <2>1. a <= n - k
    <3> SUFFICES ASSUME ~ (a <= n - k) PROVE FALSE  OBVIOUS
    <3>1. a - (n - k) \in 1 .. k /\ n - k + (a - (n - k)) = a  BY <1>1
    <3> QED BY <1>4, <1>6, <3>1
  <2> QED BY <1>1, <2>1
<1>7. Spread(r)
  <2> SUFFICES ASSUME NEW a \in 0 .. n + 1, NEW b \in 0 .. n + 1, a < b, Stop(r, a) = Stop(r, b) PROVE b - a > Size
    BY <1>2 DEF Spread
  <2>1. a \in 0 .. n  BY <1>1
  <2>2. CASE b = n + 1
    <3>1. Stop(p, a) = w  BY <1>5, <2>1, <2>2
    <3>2. n + 1 - a > Size  BY <1>6, <2>1, <3>1
    <3> QED BY <1>1, <2>2, <3>2
  <2>3. CASE b # n + 1
    <3>1. b \in 0 .. n  BY <1>1, <2>3
    <3> QED BY <1>5, <2>1, <3>1 DEF Spread, n
  <2> QED BY <2>2, <2>3
<1>8. t \in Seq(U) /\ Len(t) = K /\ \A i \in 1 .. K : t[i] = s[k + 1 - K + i]
  <2>1. /\ LastOf(s, Size) \in Seq(U)
        /\ Len(LastOf(s, Size)) = IF Len(s) > Size THEN Size ELSE Len(s)
        /\ \A h \in 1 .. IF Len(s) > Size THEN Size ELSE Len(s) :
             LastOf(s, Size)[h] = s[Len(s) - (IF Len(s) > Size THEN Size ELSE Len(s)) + h]
    BY <1>1, <1>3, LastOfIs
  <2>2. (IF Len(s) > Size THEN Size ELSE Len(s)) = K /\ Len(s) = k + 1  BY <1>3
  <2> HIDE DEF K
  <2>3. t \in Seq(U) /\ Len(t) = K /\ \A i \in 1 .. K : t[i] = s[Len(s) - K + i]  BY <2>1, <2>2
  <2>4. Len(s) = k + 1 /\ k \in Int /\ K \in Int
    <3>1. K \in Int  BY <1>1 DEF K
    <3> QED BY <1>1, <1>3, <3>1
  <2> HIDE DEF t
  <2> QED BY <2>3, <2>4
<1>9. A!LastOf(s, Size) = t  BY DEF A!LastOf, LastOf
<1>10. K = (IF (n + 1) + 1 > Size THEN Size ELSE (n + 1) + 1) /\ K \in 1 .. k + 1 /\ K \in Nat
  BY <1>1
<1> HIDE DEF t, K
<1>11. ASSUME NEW i \in 1 .. K PROVE t[i] = Stop(r, (n + 1) - K + i)
  <2>1. t[i] = s[k + 1 - K + i] /\ k + 1 - K + i \in 1 .. k + 1  BY <1>1, <1>8, <1>10
  <2>2. CASE i = K
    <3>1. k + 1 - K + i = k + 1 /\ (n + 1) - K + i = n + 1  BY <1>1, <1>10, <2>2
    <3> QED BY <1>3, <1>5, <2>1, <3>1
  <2>3. CASE i # K
    <3> DEFINE j == k + 1 - K + i
    <3>1. j \in 1 .. k /\ n - k + j \in 0 .. n /\ (n + 1) - K + i = n - k + j  BY <1>1, <1>10, <2>3
    <3> HIDE DEF j
    <3>2. s[j] = Stop(p, n - k + j)  BY <1>3, <1>4, <3>1
    <3>3. Stop(p, n - k + j) = Stop(r, n - k + j)  BY <1>5, <3>1
    <3> QED BY <2>1, <3>1, <3>2, <3>3 DEF j
  <2> QED BY <2>2, <2>3
<1>12. IsTail(t, r)  BY <1>2, <1>8, <1>10, <1>11 DEF IsTail
<1> QED BY <1>7, <1>9, <1>12 DEF r, s

\* A path that can go on from the prefix makes no short cycle with the path to it.
LEMMA SpreadExtends ==
  ASSUME NEW E, NEW p \in Seq(E), NEW q \in Seq(E), NEW U, NEW prefix \in Seq(U),
         \A e \in E : e.target.vertex \in U,
         Spread(p), IsTail(prefix, p), A!CanExtend(prefix, q)
  PROVE  Spread(p \o q)
<1> DEFINE n == Len(p)
           m == Len(q)
           k == Len(prefix)
           r == p \o q
           vq == A!Visited(q)
<1>1. /\ n \in Nat /\ m \in Nat /\ Size \in Nat \ {0} /\ k \in Nat
      /\ k = (IF n + 1 > Size THEN Size ELSE n + 1)
      /\ \A i \in 1 .. k : prefix[i] = Stop(p, n - k + i)
  BY LenProperties, SizeAssumption DEF IsTail
<1>2. r \in Seq(E) /\ Len(r) = n + m /\ \A i \in 1 .. n + m : r[i] = IF i <= n THEN p[i] ELSE q[i - n]
  BY ConcatProperties
<1>3. vq = [i \in 1 .. m |-> q[i].target.vertex] /\ \A i \in 1 .. m : q[i] \in E /\ vq[i] = q[i].target.vertex
  BY ElementOfSeq DEF A!Visited
<1> HIDE DEF n, m, k, r, vq
<1>4. /\ \A i \in 0 .. n : Stop(r, i) = Stop(p, i)
      /\ \A i \in 1 .. m : Stop(r, n + i) = vq[i]
  <2>1. ASSUME NEW i \in 0 .. n PROVE Stop(r, i) = Stop(p, i)
    <3>1. i = 0 \/ (i \in 1 .. n + m /\ i <= n)  BY <1>1
    <3> QED BY <1>2, <3>1 DEF Stop
  <2>2. ASSUME NEW i \in 1 .. m PROVE Stop(r, n + i) = vq[i]
    <3>1. n + i \in 1 .. n + m /\ ~ (n + i <= n) /\ (n + i) - n = i /\ n + i # 0  BY <1>1
    <3> QED BY <1>2, <1>3, <3>1 DEF Stop
  <2> QED BY <2>1, <2>2
<1>5. ASSUME NEW i \in 1 .. m, NEW a \in 0 .. n + i - 1, Stop(r, a) = vq[i] PROVE n + i - a > Size
  <2> DEFINE b == SubSeq(vq, 1, i - 1)
             s == prefix \o b
             t == LastOf(s, Size)
             K == IF k + (i - 1) > Size THEN Size ELSE k + (i - 1)
  <2>1. b \in Seq(U) /\ Len(b) = i - 1 /\ \A h \in 1 .. i - 1 : b[h] = vq[h]
    <3>1. \A h \in 1 .. i - 1 : vq[h] \in U  BY <1>1, <1>3
    <3> QED BY <1>1, <3>1, SubSeqProperties
  <2> HIDE DEF b
  <2>2. s \in Seq(U) /\ Len(s) = k + (i - 1)
        /\ \A h \in 1 .. k + (i - 1) : s[h] = IF h <= k THEN prefix[h] ELSE b[h - k]
    <3>1. /\ prefix \o b \in Seq(U) /\ Len(prefix \o b) = Len(prefix) + Len(b)
          /\ \A h \in 1 .. Len(prefix) + Len(b) :
               (prefix \o b)[h] = IF h <= Len(prefix) THEN prefix[h] ELSE b[h - Len(prefix)]
      BY <2>1, ConcatProperties
    <3>2. Len(prefix) = k  BY DEF k
    <3> QED BY <2>1, <3>1, <3>2
  <2> HIDE DEF s
  <2>3. \A h \in 1 .. k + (i - 1) : s[h] = Stop(r, n - k + h)
    <3> TAKE h \in 1 .. k + (i - 1)
    <3>1. CASE h <= k
      <4>1. h \in 1 .. k /\ n - k + h \in 0 .. n  BY <1>1, <3>1
      <4> QED BY <1>1, <1>4, <2>2, <3>1, <4>1
    <3>2. CASE h > k
      <4> DEFINE g == h - k
      <4>1. g \in 1 .. i - 1 /\ g \in 1 .. m /\ n - k + h = n + g /\ ~ (h <= k)  BY <1>1, <3>2
      <4>2. s[h] = b[g]  BY <2>2, <4>1
      <4> HIDE DEF g
      <4>3. Stop(r, n + g) = vq[g] /\ b[g] = vq[g]  BY <1>4, <2>1, <4>1
      <4> QED BY <4>1, <4>2, <4>3
    <3> QED BY <1>1, <3>1, <3>2
  <2>4. t \in Seq(U) /\ Len(t) = K /\ \A h \in 1 .. K : t[h] = s[k + (i - 1) - K + h]
    <3>1. /\ LastOf(s, Size) \in Seq(U)
          /\ Len(LastOf(s, Size)) = IF Len(s) > Size THEN Size ELSE Len(s)
          /\ \A h \in 1 .. IF Len(s) > Size THEN Size ELSE Len(s) :
               LastOf(s, Size)[h] = s[Len(s) - (IF Len(s) > Size THEN Size ELSE Len(s)) + h]
      BY <1>1, <2>2, LastOfIs
    <3>2. (IF Len(s) > Size THEN Size ELSE Len(s)) = K /\ Len(s) = k + (i - 1)  BY <2>2
    <3> HIDE DEF K
    <3>3. t \in Seq(U) /\ Len(t) = K /\ \A h \in 1 .. K : t[h] = s[Len(s) - K + h]  BY <3>1, <3>2
    <3>4. Len(s) = k + (i - 1) /\ k \in Int /\ i \in Int /\ K \in Int
      <4>1. K \in Int  BY <1>1 DEF K
      <4> QED BY <1>1, <2>2, <4>1
    <3> HIDE DEF t
    <3> QED BY <3>3, <3>4
  <2>5. ~ A!contains(t, vq[i])
    <3>1. i \in 1 .. Len(q)  BY DEF m
    <3>2. ~ A!contains(A!LastOf(prefix \o SubSeq(A!Visited(q), 1, i - 1), Size), A!Visited(q)[i])
      BY <3>1 DEF A!CanExtend
    <3>3. A!LastOf(s, Size) = t  BY DEF A!LastOf, LastOf
    <3> QED BY <3>2, <3>3 DEF s, b, vq
  <2>6. K \in Nat /\ K <= Size /\ K <= k + (i - 1) /\ (K = Size \/ K = k + (i - 1))  BY <1>1
  <2> HIDE DEF t, K
  <2>7. ~ (a >= n + i - K)
    <3> SUFFICES ASSUME a >= n + i - K PROVE FALSE  OBVIOUS
    <3> DEFINE h == a - (n + i - 1 - K)
               j == k + (i - 1) - K + h
    <3>1. h \in 1 .. K /\ j \in 1 .. k + (i - 1) /\ n - k + j = a  BY <1>1, <2>6
    <3>2. t[h] = s[j]
      <4> HIDE DEF h
      <4> QED BY <2>4, <3>1
    <3> HIDE DEF h, j
    <3>3. s[j] = vq[i]  BY <1>5, <2>3, <3>1
    <3> QED BY <2>4, <2>5, <3>1, <3>2, <3>3 DEF A!contains
  <2> QED BY <1>1, <2>6, <2>7
<1>6. Spread(r)
  <2> SUFFICES ASSUME NEW a \in 0 .. n + m, NEW b \in 0 .. n + m, a < b, Stop(r, a) = Stop(r, b) PROVE b - a > Size
    BY <1>2 DEF Spread
  <2>1. CASE b <= n
    <3>1. a \in 0 .. n /\ b \in 0 .. n  BY <1>1, <2>1
    <3> QED BY <1>4, <3>1 DEF Spread, n
  <2>2. CASE b > n
    <3> DEFINE i == b - n
    <3>1. i \in 1 .. m /\ n + i = b /\ a \in 0 .. n + i - 1  BY <1>1, <2>2
    <3> HIDE DEF i
    <3>2. Stop(r, a) = vq[i]  BY <1>4, <3>1
    <3>3. n + i - a > Size  BY <1>5, <3>1, <3>2
    <3> QED BY <1>1, <3>1, <3>3
  <2> QED BY <1>1, <2>1, <2>2
<1> QED BY <1>6 DEF r

\* A label is the first one, or leads on from one that stays.
AcyclicLink(w, l) ==
  \/ l = A!sourceLabel /\ w = A!Start
  \/ /\ otherPc # "bounds"
     /\ l.edge \in AcyclicUsable /\ l.edge.target = w /\ l.edge.source \notin todo
     /\ \E m \in acyclicLabels[l.edge.source] :
          /\ m.prefix = l.pred /\ l.cost = m.cost + costs[l.edge]
          /\ ~ A!contains(m.prefix, w.vertex)
          /\ l.prefix = A!LastOf(Append(m.prefix, w.vertex), Size)

\* createPath gives a path to the vertex of the label, which costs what the label says,
\* has no short cycle, and ends in the prefix.
LEMMA AcyclicPathIs ==
  ASSUME AcyclicTypes, \A w \in Acyclic.vertices : \A k \in acyclicLabels[w] : AcyclicLink(w, k),
         NEW v \in Acyclic.vertices, NEW l \in acyclicLabels[v]
  PROVE  LET p == A!PathTo(v, l.prefix) IN
         /\ IsRoute(AcyclicUsable, p, v) /\ Total(costs, p) = l.cost
         /\ Spread(p) /\ IsTail(l.prefix, p)
<1> DEFINE V == Acyclic.vertices
           D == UNION {{w} \X {k.prefix : k \in acyclicLabels[w]} : w \in V}
           labelAt(x) == CHOOSE k \in acyclicLabels[x[1]] : k.prefix = x[2]
           stop == {x \in D : labelAt(x).edge = NoEdge}
           edge == [x \in D |-> labelAt(x).edge]
           prev == [x \in D |-> IF x \in stop THEN x ELSE <<labelAt(x).edge.source, labelAt(x).pred>>]
           Eq(g) == g = [x \in D |-> IF labelAt(x).edge = NoEdge THEN <<>>
                                     ELSE Append(g[<<labelAt(x).edge.source, labelAt(x).pred>>], labelAt(x).edge)]
           f == CHOOSE g : Eq(g)
           good(x) == /\ IsRoute(AcyclicUsable, f[x], x[1]) /\ Total(costs, f[x]) = labelAt(x).cost
                      /\ Spread(f[x]) /\ IsTail(x[2], f[x])
           T == {x \in D : good(x)}
<1>1. PICK N \in Nat : \E order \in [V -> 0 .. N] : \A u, w \in V : u.time < w.time => order[u] < order[w]
  <2>1. IsFiniteSet(V) /\ \A w \in V : w.time \in Nat  BY AcyclicVertices
  <2> HIDE DEF V
  <2> QED BY <2>1, RanksExist
<1>2. PICK order \in [V -> 0 .. N] : \A u, w \in V : u.time < w.time => order[u] < order[w]
  BY <1>1
<1> DEFINE rank == [x \in D |-> order[x[1]]]
<1>3. /\ costs \in [Acyclic.edges -> Int] /\ NoEdge \notin Acyclic.edges /\ AcyclicUsable \subseteq Acyclic.edges
      /\ Size \in Nat \ {0}
  BY NetworksAssumption, SizeAssumption DEF AreRequests, AcyclicTypes, AcyclicUsable
<1>4. \A x : x \in D <=> \E w \in V : \E k \in acyclicLabels[w] : x = <<w, k.prefix>>
  <2>1. ASSUME NEW x \in D PROVE \E w \in V : \E k \in acyclicLabels[w] : x = <<w, k.prefix>>
    <3>1. PICK w \in V : x \in {w} \X {k.prefix : k \in acyclicLabels[w]}  OBVIOUS
    <3> QED BY <3>1
  <2>2. ASSUME NEW w \in V, NEW k \in acyclicLabels[w] PROVE <<w, k.prefix>> \in D
    <3>1. <<w, k.prefix>> \in {w} \X {h.prefix : h \in acyclicLabels[w]}  OBVIOUS
    <3> QED BY <3>1
  <2> HIDE DEF D
  <2> QED BY <2>1, <2>2
<1>5. ASSUME NEW w \in V, NEW k \in acyclicLabels[w] PROVE labelAt(<<w, k.prefix>>) = k
  BY DEF AcyclicTypes
<1>6. ASSUME NEW x \in D
      PROVE  /\ x = <<x[1], x[2]>> /\ x[1] \in V /\ labelAt(x) \in acyclicLabels[x[1]] /\ labelAt(x).prefix = x[2]
             /\ IsLabel(labelAt(x), x[1]) /\ AcyclicLink(x[1], labelAt(x))
  <2> HIDE DEF D, labelAt
  <2>1. PICK w \in V : \E k \in acyclicLabels[w] : x = <<w, k.prefix>>  BY <1>4
  <2>2. PICK k \in acyclicLabels[w] : x = <<w, k.prefix>>  BY <2>1
  <2>3. labelAt(x) = k  BY <1>5, <2>2
  <2>4. IsLabel(k, w) /\ AcyclicLink(w, k)  BY DEF AcyclicTypes
  <2> QED BY <2>2, <2>3, <2>4
<1> HIDE DEF D, labelAt
<1>7. ASSUME NEW x \in D, x \in stop
      PROVE  x[1] = A!Start /\ x[2] = <<Root>> /\ labelAt(x).cost = 0
  <2>1. labelAt(x).edge \notin AcyclicUsable  BY <1>3, <1>7
  <2>2. labelAt(x) = A!sourceLabel /\ x[1] = A!Start  BY <1>6, <2>1 DEF AcyclicLink
  <2>3. labelAt(x).prefix = <<Root>> /\ labelAt(x).cost = 0  BY <2>2 DEF A!sourceLabel, A!label
  <2> QED BY <1>6, <2>2, <2>3
<1>8. ASSUME NEW x \in D, x \notin stop
      PROVE  LET k == labelAt(x)
                 y == <<k.edge.source, k.pred>>
             IN  /\ k.edge \in AcyclicUsable /\ k.edge.target = x[1] /\ k.edge.source \in V
                 /\ y \in D /\ y[1] = k.edge.source /\ y[2] \in Seq(Names) /\ order[y[1]] < order[x[1]]
                 /\ k.cost = labelAt(y).cost + costs[k.edge]
                 /\ ~ A!contains(y[2], x[1].vertex) /\ x[1].vertex \in Names
                 /\ x[2] = A!LastOf(Append(y[2], x[1].vertex), Size)
  <2> DEFINE k == labelAt(x)
             y == <<k.edge.source, k.pred>>
  <2>1. k # A!sourceLabel  BY <1>8 DEF A!sourceLabel, A!label
  <2>2. k.edge \in AcyclicUsable /\ k.edge.target = x[1]  BY <1>6, <2>1 DEF AcyclicLink
  <2>3. PICK m \in acyclicLabels[k.edge.source] :
          /\ m.prefix = k.pred /\ k.cost = m.cost + costs[k.edge]
          /\ ~ A!contains(m.prefix, x[1].vertex)
          /\ k.prefix = A!LastOf(Append(m.prefix, x[1].vertex), Size)
    BY <1>6, <2>1 DEF AcyclicLink
  <2>4. k.edge.source \in V /\ k.edge.source.time < k.edge.target.time /\ x[1] \in V /\ x[1].vertex \in Names
    BY <1>3, <1>6, <2>2, AcyclicEdges, AcyclicVertices
  <2>5. y \in D /\ labelAt(y) = m
    <3>1. y = <<k.edge.source, m.prefix>>  BY <2>3
    <3> HIDE DEF k, y
    <3> QED BY <1>4, <1>5, <2>3, <2>4, <3>1
  <2>6. m.prefix \in Seq(Names)  BY <2>4 DEF AcyclicTypes, IsLabel
  <2>7. order[k.edge.source] < order[x[1]]  BY <1>2, <2>2, <2>4
  <2>8. y[1] = k.edge.source /\ y[2] = m.prefix  BY <2>3
  <2>9. k.prefix = x[2]  BY <1>6
  <2> HIDE DEF k, y
  <2> QED BY <2>2, <2>3, <2>4, <2>5, <2>6, <2>7, <2>8, <2>9 DEF k, y
<1>9. Eq(f)
  <2>1. prev \in [D -> D]  BY <1>8
  <2>2. rank \in [D -> 0 .. N]  BY <1>2, <1>6
  <2>3. \A x \in D \ stop : rank[prev[x]] < rank[x]
    <3> TAKE x \in D \ stop
    <3> DEFINE y == <<labelAt(x).edge.source, labelAt(x).pred>>
    <3>1. prev[x] = y /\ y \in D /\ order[y[1]] < order[x[1]]  BY <1>8
    <3> HIDE DEF y
    <3>2. rank[y] = order[y[1]] /\ rank[x] = order[x[1]]  BY <3>1
    <3> QED BY <3>1, <3>2
  <2>4. PICK g : IsTrace(g, D, stop, prev, edge)
    <3> HIDE DEF stop, edge, prev, rank
    <3> QED BY <1>1, <2>1, <2>2, <2>3, TraceExists
  <2>5. Eq(g)
    <3>1. \A x \in D : x \in stop <=> labelAt(x).edge = NoEdge  OBVIOUS
    <3>2. \A x \in D : x \notin stop => prev[x] = <<labelAt(x).edge.source, labelAt(x).pred>> /\ edge[x] = labelAt(x).edge
      OBVIOUS
    <3> HIDE DEF stop, edge, prev
    <3> QED BY <2>4, <3>1, <3>2 DEF IsTrace
  <2> HIDE DEF Eq
  <2> QED BY <2>5
<1>10. A!PathTo(v, l.prefix) = f[<<v, l.prefix>>]
  BY DEF A!PathTo, D, labelAt
<1>11. \A x \in D : f[x] = IF x \in stop THEN <<>>
                           ELSE Append(f[<<labelAt(x).edge.source, labelAt(x).pred>>], labelAt(x).edge)
  <2> HIDE DEF f
  <2> QED BY <1>9
<1> HIDE DEF f
<1>12. ASSUME NEW x \in D, \A y \in D : rank[y] < rank[x] => y \in T
       PROVE  good(x)
  <2>1. CASE x \in stop
    <3>1. f[x] = <<>> /\ x[1] = A!Start /\ x[2] = <<Root>> /\ labelAt(x).cost = 0  BY <1>7, <1>11, <2>1
    <3>2. Total(costs, <<>>) = 0  BY <1>3, NothingIsFree
    <3>3. IsRoute(AcyclicUsable, <<>>, A!Start)  BY EmptySeq DEF IsRoute, Start, A!Start
    <3>4. Spread(<<>>)  BY DEF Spread
    <3>5. IsTail(<<Root>>, <<>>)
      <4>1. Len(<<Root>>) = 1 /\ Len(<<>>) = 0 /\ <<Root>>[1] = Root  OBVIOUS
      <4>2. (IF 0 + 1 > Size THEN Size ELSE 0 + 1) = 1  BY <1>3
      <4>3. \A i \in 1 .. 1 : i = 1 /\ 0 - 1 + i = 0  OBVIOUS
      <4> QED BY <4>1, <4>2, <4>3 DEF IsTail, Stop
    <3> QED BY <3>1, <3>2, <3>3, <3>4, <3>5
  <2>2. CASE x \notin stop
    <3> DEFINE k == labelAt(x)
               e == k.edge
               y == <<e.source, k.pred>>
               p == f[y]
    <3>1. /\ e \in AcyclicUsable /\ e.target = x[1] /\ e.source \in V
          /\ y \in D /\ y[1] = e.source /\ y[2] \in Seq(Names) /\ order[y[1]] < order[x[1]]
          /\ k.cost = labelAt(y).cost + costs[e]
          /\ ~ A!contains(y[2], x[1].vertex) /\ x[1].vertex \in Names
          /\ x[2] = A!LastOf(Append(y[2], x[1].vertex), Size)
      BY <1>8, <2>2
    <3>2. f[x] = Append(p, e)  BY <1>11, <2>2
    <3>3. good(y)
      <4> HIDE DEF y, good
      <4>1. rank[y] = order[y[1]] /\ rank[x] = order[x[1]]  BY <3>1
      <4> QED BY <1>12, <3>1, <4>1
    <3>4. /\ IsRoute(AcyclicUsable, p, e.source) /\ Total(costs, p) = labelAt(y).cost
          /\ Spread(p) /\ IsTail(y[2], p)
      BY <3>1, <3>3
    <3>5. p \in Seq(AcyclicUsable) /\ p \in Seq(Acyclic.edges)
      <4>1. p \in Seq(AcyclicUsable)  BY <3>4 DEF IsRoute
      <4> HIDE DEF p
      <4> QED BY <1>3, <4>1
    <3> HIDE DEF p, e, y, k
    <3>6. IsRoute(AcyclicUsable, Append(p, e), e.target)  BY <3>1, <3>4, RouteGrows
    <3>7. Total(costs, Append(p, e)) = Total(costs, p) + costs[e]
      BY <1>3, <3>1, <3>5, TotalGrows
    <3>8. PICK prefix : prefix = y[2]  OBVIOUS
    <3>9. prefix \in Seq(Names) /\ e.target.vertex \in Names /\ IsTail(prefix, p) /\ ~ A!contains(prefix, e.target.vertex)
      BY <3>1, <3>4, <3>8
    <3>10. Spread(Append(p, e)) /\ IsTail(A!LastOf(Append(prefix, e.target.vertex), Size), Append(p, e))
      BY <3>1, <3>4, <3>5, <3>9, SpreadGrows
    <3> QED BY <3>1, <3>2, <3>4, <3>6, <3>7, <3>8, <3>10 DEF k
  <2> QED BY <2>1, <2>2
<1>13. <<v, l.prefix>> \in T
  <2>1. <<v, l.prefix>> \in D /\ rank \in [D -> 0 .. N]  BY <1>2, <1>4, <1>6
  <2>2. \A x \in D : (\A y \in D : rank[y] < rank[x] => y \in T) => x \in T
    <3> TAKE x \in D
    <3> SUFFICES ASSUME \A y \in D : rank[y] < rank[x] => y \in T PROVE good(x)
      OBVIOUS
    <3> HIDE DEF good, rank, T
    <3> QED BY <1>12
  <2> HIDE DEF T, rank
  <2>3. PICK F, r, G : F = D /\ r = rank /\ G = T  OBVIOUS
  <2>4. N \in Nat /\ r \in [F -> 0 .. N] /\ \A x \in F : (\A y \in F : r[y] < r[x] => y \in G) => x \in G
    BY <1>1, <2>1, <2>2, <2>3
  <2>5. F \subseteq G  BY <2>4, RankInduction
  <2> QED BY <2>1, <2>3, <2>5
<1>14. good(<<v, l.prefix>>)
  <2> HIDE DEF good
  <2> QED BY <1>13
<1>15. labelAt(<<v, l.prefix>>) = l  BY <1>5
<1> QED BY <1>10, <1>14, <1>15

\* A route that goes on to an end that is in order.
LEMMA RouteGoesOn ==
  ASSUME NEW E, NEW p, NEW q, NEW v, IsRoute(E, p, v), IsWay(E, q, v)
  PROVE  \E w : IsRoute(E, p \o q, w) /\ A!IsEnd(w) /\ A!InWindow(w)
<1> DEFINE n == Len(p)
           m == Len(q)
           r == p \o q
<1>1. /\ p \in Seq(E) /\ q \in Seq(E) /\ n \in Nat /\ m \in Nat
      /\ (p = <<>> <=> n = 0) /\ (q = <<>> <=> m = 0)
  BY LenProperties, EmptySeq DEF IsRoute, IsWay
<1>2. r \in Seq(E) /\ Len(r) = n + m /\ \A i \in 1 .. n + m : r[i] = IF i <= n THEN p[i] ELSE q[i - n]
  BY <1>1, ConcatProperties
<1>3. r = <<>> <=> n + m = 0
  <2>1. r = <<>> <=> Len(r) = 0  BY <1>2, EmptySeq
  <2> QED BY <1>2, <2>1
<1>4. /\ n # 0 => p[1].source = Start /\ p[n].target = v
      /\ n = 0 => v = Start
      /\ \A i \in 1 .. n - 1 : p[i].target = p[i + 1].source
      /\ m # 0 => q[1].source = v /\ A!IsEnd(q[m].target) /\ A!InWindow(q[m].target)
      /\ m = 0 => A!IsEnd(v) /\ A!InWindow(v)
      /\ \A i \in 1 .. m - 1 : q[i].target = q[i + 1].source
  BY <1>1 DEF IsRoute, IsWay
<1> HIDE DEF r, n, m
<1>5. \A i \in 1 .. n + m - 1 : r[i].target = r[i + 1].source
  <2> TAKE i \in 1 .. n + m - 1
  <2>1. i \in 1 .. n + m /\ i + 1 \in 1 .. n + m  BY <1>1
  <2>2. CASE i < n
    <3>1. i <= n /\ i + 1 <= n /\ i \in 1 .. n - 1  BY <1>1, <2>2
    <3> QED BY <1>2, <1>4, <2>1, <3>1
  <2>3. CASE i = n
    <3>1. i <= n /\ ~ (i + 1 <= n) /\ (i + 1) - n = 1 /\ n # 0 /\ m # 0  BY <1>1, <2>3
    <3> QED BY <1>2, <1>4, <2>1, <2>3, <3>1
  <2>4. CASE i > n
    <3> DEFINE j == i - n
    <3>1. ~ (i <= n) /\ ~ (i + 1 <= n) /\ (i + 1) - n = j + 1 /\ j \in 1 .. m - 1  BY <1>1, <2>4
    <3>2. r[i] = q[j] /\ r[i + 1] = q[j + 1]  BY <1>2, <2>1, <3>1
    <3> HIDE DEF j
    <3> QED BY <1>4, <3>1, <3>2
  <2> QED BY <1>1, <2>2, <2>3, <2>4
<1>6. n + m # 0 => r[1].source = Start
  <2> SUFFICES ASSUME n + m # 0 PROVE r[1].source = Start  OBVIOUS
  <2>1. 1 \in 1 .. n + m  BY <1>1
  <2>2. CASE n = 0
    <3>1. ~ (1 <= n) /\ 1 - n = 1 /\ m # 0  BY <1>1, <2>2
    <3> QED BY <1>2, <1>4, <2>1, <2>2, <3>1
  <2>3. CASE n # 0
    <3>1. 1 <= n  BY <1>1, <2>3
    <3> QED BY <1>2, <1>4, <2>1, <2>3, <3>1
  <2> QED BY <2>2, <2>3
<1>9. /\ r \in Seq(E) /\ (r = <<>> <=> n + m = 0) /\ (n + m # 0 => r[1].source = Start)
      /\ \A i \in 1 .. Len(r) - 1 : r[i].target = r[i + 1].source
      /\ r[Len(r)] = r[n + m]
  <2>1. PICK k : k = n + m  OBVIOUS
  <2>2. Len(r) = k /\ \A i \in 1 .. k - 1 : r[i].target = r[i + 1].source
    BY <1>1, <1>2, <1>5, <2>1
  <2>3. \A i \in 1 .. Len(r) - 1 : r[i].target = r[i + 1].source  BY <2>2
  <2>4. r[Len(r)] = r[n + m]  BY <2>1, <2>2
  <2> QED BY <1>2, <1>3, <1>6, <2>3, <2>4
<1>7. CASE m = 0
  <2>1. n + m # 0 => r[n + m].target = v
    <3> SUFFICES ASSUME n + m # 0 PROVE r[n + m].target = v  OBVIOUS
    <3>1. n + m = n /\ n \in 1 .. n + m /\ n <= n /\ n # 0  BY <1>1, <1>7
    <3> QED BY <1>2, <1>4, <3>1
  <2>2. n + m = 0 => v = Start  BY <1>1, <1>4, <1>7
  <2>3. IsRoute(E, r, v)  BY <1>9, <2>1, <2>2 DEF IsRoute
  <2> QED BY <1>4, <1>7, <2>3 DEF r
<1>8. CASE m # 0
  <2>1. r[n + m] = q[m]
    <3>1. n + m \in 1 .. n + m /\ ~ (n + m <= n) /\ (n + m) - n = m  BY <1>1, <1>8
    <3> QED BY <1>2, <3>1
  <2>2. n + m # 0  BY <1>1, <1>8
  <2>3. IsRoute(E, r, q[m].target)  BY <1>9, <2>1, <2>2 DEF IsRoute
  <2> QED BY <1>4, <1>8, <2>3 DEF r
<1> QED BY <1>7, <1>8

\* A route without short cycles to an end in order is an answer.
LEMMA AcyclicRouteIsAnswer ==
  ASSUME NEW p, NEW v, IsRoute(AcyclicUsable, p, v), A!IsEnd(v), A!InWindow(v), Spread(p)
  PROVE  A!IsAnswer(p, Size) /\ p \in Seq(Acyclic.edges)
<1>1. p \in Seq(AcyclicUsable) /\ AcyclicUsable \subseteq Acyclic.edges /\ Len(p) \in Nat /\ Size \in Nat
  BY LenProperties, SizeAssumption DEF IsRoute, AcyclicUsable
<1>2. p # <<>>
  <2>1. v # Start  BY DEF A!IsEnd, Start
  <2> QED BY <2>1 DEF IsRoute
<1>3. p[1].source = A!Start /\ p[Len(p)].target = v
  BY <1>2 DEF IsRoute, Start, A!Start
<1>4. \A i \in 1 .. Len(p) : p[i] \in Acyclic.edges /\ A!Usable(p[i])
  BY <1>1, ElementOfSeq DEF AcyclicUsable
<1>5. ASSUME NEW i \in 1 .. Len(p) PROVE p[i].source.vertex = Stop(p, i - 1)
  <2>1. CASE i = 1
    <3>1. i - 1 = 0 /\ p[i].source = A!Start  BY <1>3, <2>1
    <3> QED BY <3>1, AcyclicVertices DEF Stop
  <2>2. CASE i # 1
    <3>1. i - 1 \in 1 .. Len(p) - 1 /\ (i - 1) + 1 = i /\ i - 1 # 0  BY <1>1, <2>2
    <3>2. p[i - 1].target = p[(i - 1) + 1].source  BY <3>1 DEF IsRoute
    <3> QED BY <3>1, <3>2 DEF Stop
  <2> QED BY <2>1, <2>2
<1>6. ASSUME NEW i \in 1 .. Len(p), NEW j \in 1 .. Len(p), p[i].source.vertex = p[j].target.vertex
      PROVE  j < i \/ j - i >= Size
  <2> SUFFICES ASSUME ~ (j < i) PROVE j - i >= Size  OBVIOUS
  <2>1. i - 1 \in 0 .. Len(p) /\ j \in 0 .. Len(p) /\ i - 1 < j /\ j # 0  BY <1>1
  <2>2. Stop(p, j) = p[j].target.vertex  BY <2>1 DEF Stop
  <2>3. Stop(p, i - 1) = Stop(p, j)  BY <1>5, <1>6, <2>2
  <2>4. j - (i - 1) > Size  BY <2>1, <2>3 DEF Spread
  <2> QED BY <1>1, <2>4
<1>7. p \in Seq(Acyclic.edges)  BY <1>1
<1>8. \A i \in 1 .. Len(p) - 1 : p[i].target = p[i + 1].source  BY DEF IsRoute
<1> QED BY <1>2, <1>3, <1>4, <1>6, <1>7, <1>8 DEF A!IsAnswer, A!InWindow, A!IsEnd

\* What the acyclic routers have found: least bounds, labels that lead on from one
\* another, and paths that are answers.
AcyclicAnswers ==
  /\ BoundsInv
  /\ \A w \in Acyclic.vertices : \A l \in acyclicLabels[w] : AcyclicLink(w, l)
  /\ Found(Acyclic.edges, request.maxNumPaths, request.cutoff)
  /\ \A i \in 1 .. Len(valuedPaths) : A!IsAnswer(valuedPaths[i].path, Size)
  /\ otherPc = "search" => \A v \in Acyclic.vertices \ todo : v.time <= at.time
  /\ open # {} /\ A!IsEnd(at) => A!InWindow(at)

LEMMA AcyclicAnswersInit == A!Init => AcyclicAnswers
<1> SUFFICES ASSUME A!Init PROVE AcyclicAnswers
  OBVIOUS
<1>1. AcyclicTypes /\ AcyclicOrder /\ BoundsInv  BY AcyclicInit, BoundsInit
<1>2. request.maxNumPaths \in Nat \ {0} /\ costs \in [Acyclic.edges -> Int]
  BY <1>1, NetworksAssumption DEF AcyclicTypes, AreRequests
<1>3. PathSetInit  BY DEF A!Init, A!RouterInit, A!PathSetInit, PathSetInit
<1>4. Found(Acyclic.edges, request.maxNumPaths, request.cutoff)  BY <1>2, <1>3, NothingFound
<1>5. \A w \in Acyclic.vertices : acyclicLabels[w] = IF w = A!Start THEN {A!sourceLabel} ELSE {}
  BY DEF A!Init
<1>6. Len(valuedPaths) = 0  BY <1>3 DEF PathSetInit
<1>7. otherPc = "bounds" /\ open = {}  BY DEF A!Init
<1> QED BY <1>1, <1>4, <1>5, <1>6, <1>7 DEF AcyclicAnswers, AcyclicLink

\* The paths kept stay answers while the request does.
LEMMA AcyclicAnswersStay ==
  ASSUME AcyclicAnswers, UNCHANGED <<costs, request, allPaths, valuedPaths>>
  PROVE  /\ Found(Acyclic.edges, request.maxNumPaths, request.cutoff)'
         /\ (\A i \in 1 .. Len(valuedPaths) : A!IsAnswer(valuedPaths[i].path, Size))'
<1>1. bestValue' = bestValue  BY DEF bestValue
<1>2. Found(Acyclic.edges, request.maxNumPaths, request.cutoff)'
  BY <1>1 DEF AcyclicAnswers, Found, Kept
<1>3. (\A i \in 1 .. Len(valuedPaths) : A!IsAnswer(valuedPaths[i].path, Size))'
  BY DEF AcyclicAnswers, A!IsAnswer, A!Usable
<1> QED BY <1>2, <1>3

\* A path that is offered is found.
LEMMA AcyclicOfferFinds ==
  ASSUME AcyclicTypes, AcyclicAnswers, UNCHANGED <<costs, request>>,
         NEW p, NEW c, NEW v, IsRoute(AcyclicUsable, p, v), A!IsEnd(v), A!InWindow(v), Spread(p),
         c = Total(costs, p), c \in Int, c < request.cutoff,
         A!Offer(p, c, request.maxNumPaths)
  PROVE  /\ Found(Acyclic.edges, request.maxNumPaths, request.cutoff)'
         /\ (\A i \in 1 .. Len(valuedPaths) : A!IsAnswer(valuedPaths[i].path, Size))'
         /\ bestValue' = IF c < bestValue THEN c ELSE bestValue
<1> DEFINE E == Acyclic.edges
<1>0. PICK max, limit : max = request.maxNumPaths /\ limit = request.cutoff  OBVIOUS
<1>1. A!IsAnswer(p, Size) /\ p \in Seq(E)  BY AcyclicRouteIsAnswer
<1>2. max \in Nat \ {0} /\ limit \in Int /\ Inf \in Nat /\ c < Inf /\ c < limit
  BY <1>0, AcyclicArguments
<1>3. Found(E, max, limit) /\ Offer(p, c, max)  BY <1>0, SharedPaths DEF AcyclicAnswers
<1> HIDE DEF E
<1>4. /\ Found(E, max, limit)' /\ NoOthers(p)
      /\ bestValue' = IF c < bestValue THEN c ELSE bestValue
  BY <1>1, <1>2, <1>3, OfferFinds
<1>5. (\A i \in 1 .. Len(valuedPaths) : A!IsAnswer(valuedPaths[i].path, Size))'
  <2>1. \A q : A!IsAnswer(q, Size) => A!IsAnswer(q, Size)'  BY DEF A!IsAnswer, A!Usable
  <2>2. \A i \in 1 .. Len(valuedPaths) : A!IsAnswer(valuedPaths[i].path, Size)  BY DEF AcyclicAnswers
  <2>3. \A i \in 1 .. Len(valuedPaths') : A!IsAnswer(valuedPaths'[i].path, Size)
    BY <1>1, <1>4, <2>2 DEF NoOthers
  <2> QED BY <2>1, <2>3
<1>6. Found(Acyclic.edges, request.maxNumPaths, request.cutoff)'  BY <1>0, <1>4 DEF E
<1> QED BY <1>4, <1>5, <1>6

LEMMA AcyclicLinkStays ==
  ASSUME UNCHANGED <<costs, request>>, NEW w \in Acyclic.vertices, NEW l, AcyclicLink(w, l),
         \/ otherPc = "bounds"
         \/ /\ otherPc' # "bounds" /\ todo' \subseteq todo
            /\ \A u \in Acyclic.vertices \ todo : acyclicLabels'[u] = acyclicLabels[u]
  PROVE  AcyclicLink(w, l)'
<1>1. CASE l = A!sourceLabel /\ w = A!Start
  <2>1. (l = A!sourceLabel /\ w = A!Start)'  BY <1>1 DEF A!sourceLabel, A!Start, A!label
  <2> QED BY <2>1 DEF AcyclicLink
<1>2. CASE ~ (l = A!sourceLabel /\ w = A!Start)
  <2>1. /\ otherPc # "bounds"
        /\ l.edge \in AcyclicUsable /\ l.edge.target = w /\ l.edge.source \notin todo
        /\ \E m \in acyclicLabels[l.edge.source] :
             /\ m.prefix = l.pred /\ l.cost = m.cost + costs[l.edge]
             /\ ~ A!contains(m.prefix, w.vertex)
             /\ l.prefix = A!LastOf(Append(m.prefix, w.vertex), Size)
    BY <1>2 DEF AcyclicLink
  <2>2. l.edge.source \in Acyclic.vertices  BY <2>1, AcyclicEdges DEF AcyclicUsable
  <2>3. acyclicLabels'[l.edge.source] = acyclicLabels[l.edge.source] /\ l.edge.source \notin todo'
        /\ otherPc' # "bounds"
    BY <2>1, <2>2
  <2>4. AcyclicUsable' = AcyclicUsable  BY DEF AcyclicUsable, A!Usable
  <2>5. \A m : A!contains(m.prefix, w.vertex)' <=> A!contains(m.prefix, w.vertex)  BY DEF A!contains
  <2>6. \A s : A!LastOf(s, Size)' = A!LastOf(s, Size)  BY DEF A!LastOf
  <2> QED BY <2>1, <2>3, <2>4, <2>5, <2>6 DEF AcyclicLink
<1> QED BY <1>1, <1>2

LEMMA AcyclicAnswersKept ==
  ASSUME AcyclicAnswers,
         UNCHANGED <<costs, request, otherPc, todo, bounds, acyclicLabels, at, open, allPaths, valuedPaths>>
  PROVE  AcyclicAnswers'
<1>1. BoundsInv'  BY BoundsStay DEF AcyclicAnswers
<1>2. \A w \in Acyclic.vertices : \A l \in acyclicLabels'[w] : AcyclicLink(w, l)'
  BY AcyclicLinkStays DEF AcyclicAnswers
<1>3. (open # {} /\ A!IsEnd(at) => A!InWindow(at))'  BY DEF AcyclicAnswers, A!IsEnd, A!InWindow
<1>4. (otherPc = "search" => \A v \in Acyclic.vertices \ todo : v.time <= at.time)'  BY DEF AcyclicAnswers
<1> QED BY <1>1, <1>2, <1>3, <1>4, AcyclicAnswersStay DEF AcyclicAnswers

\* The bounds are found first.
LEMMA BoundAnswers ==
  ASSUME AcyclicTypes, AcyclicOrder, AcyclicAnswers, NEW v \in Acyclic.vertices, A!Bound(v),
         UNCHANGED <<costs, request>>
  PROVE  AcyclicAnswers'
<1>1. otherPc = "bounds" /\ UNCHANGED <<otherPc, acyclicLabels, at, open, allPaths, valuedPaths>>
  BY DEF A!Bound, A!pathSetVars
<1>2. BoundsInv'  BY <1>1, BoundStep DEF AcyclicAnswers
<1>3. \A w \in Acyclic.vertices : \A l \in acyclicLabels'[w] : AcyclicLink(w, l)'
  BY <1>1, AcyclicLinkStays DEF AcyclicAnswers
<1>4. open' = {} /\ otherPc' # "search"  BY <1>1 DEF AcyclicOrder
<1> QED BY <1>1, <1>2, <1>3, <1>4, AcyclicAnswersStay DEF AcyclicAnswers

LEMMA BoundsFoundAnswers ==
  ASSUME AcyclicTypes, AcyclicOrder, AcyclicAnswers,
         otherPc = "bounds", otherPc' = "search", todo = {}, todo' = Acyclic.vertices,
         UNCHANGED <<costs, request, bounds, acyclicLabels, at, open, allPaths, valuedPaths>>
  PROVE  AcyclicAnswers'
<1>1. BoundsInv'  BY BoundsStay DEF AcyclicAnswers
<1>2. \A w \in Acyclic.vertices : \A l \in acyclicLabels'[w] : AcyclicLink(w, l)'
  BY AcyclicLinkStays DEF AcyclicAnswers
<1>3. open' = {} /\ Acyclic.vertices \ todo' = {}  BY DEF AcyclicOrder
<1> QED BY <1>1, <1>2, <1>3, AcyclicAnswersStay DEF AcyclicAnswers

LEMMA ArriveAnswers ==
  ASSUME AcyclicTypes, AcyclicOrder, AcyclicAnswers, NEW v \in Acyclic.vertices, A!Arrive(v),
         UNCHANGED <<costs, request>>
  PROVE  AcyclicAnswers'
<1>1. /\ otherPc = "search" /\ v \in todo /\ todo' = todo \ {v} /\ at' = v
      /\ open' = IF A!IsEnd(v) /\ ~ A!InWindow(v) THEN {} ELSE acyclicLabels[v]
      /\ UNCHANGED <<otherPc, bounds, acyclicLabels, allPaths, valuedPaths>>
  BY DEF A!Arrive, A!Visit, A!Due, A!pathSetVars
<1>2. BoundsInv'  BY <1>1, BoundsStay DEF AcyclicAnswers
<1>3. \A w \in Acyclic.vertices : \A l \in acyclicLabels'[w] : AcyclicLink(w, l)'
  BY <1>1, AcyclicLinkStays DEF AcyclicAnswers
<1>4. \A w \in Acyclic.vertices \ todo' : w.time <= v.time
  <2> TAKE w \in Acyclic.vertices \ todo'
  <2>1. CASE w = v  BY <2>1, AcyclicVertices
  <2>2. CASE w \notin todo  BY <1>1, <2>2 DEF AcyclicOrder
  <2> QED BY <1>1, <2>1, <2>2
<1>5. (open # {} /\ A!IsEnd(at) => A!InWindow(at))'  BY <1>1 DEF A!IsEnd, A!InWindow
<1> QED BY <1>1, <1>2, <1>3, <1>4, <1>5, AcyclicAnswersStay DEF AcyclicAnswers

\* What the loop does to a label: which paths it offers, ...
LEMMA CloseFinds ==
  ASSUME AcyclicTypes, AcyclicOrder, AcyclicAnswers, NEW l \in open, A!Close(l), UNCHANGED <<costs, request>>
  PROVE  /\ Found(Acyclic.edges, request.maxNumPaths, request.cutoff)'
         /\ (\A i \in 1 .. Len(valuedPaths) : A!IsAnswer(valuedPaths[i].path, Size))'
         /\ bestValue' = IF l.cost < request.cutoff /\ l.cost < bestValue THEN l.cost ELSE bestValue
<1>1. A!IsEnd(at) /\ A!InWindow(at)  BY DEF A!Close, AcyclicAnswers
<1>2. at \in Acyclic.vertices /\ l \in acyclicLabels[at] /\ l.cost \in Int
  BY DEF AcyclicTypes, IsLabel
<1>3. CASE l.cost < request.cutoff
  <2>1. PICK p, c : p = A!PathTo(at, l.prefix) /\ c = l.cost  OBVIOUS
  <2>2. PICK v : v = at  OBVIOUS
  <2>3. IsRoute(AcyclicUsable, p, v) /\ Total(costs, p) = c /\ Spread(p)
    BY <1>2, <2>1, <2>2, AcyclicPathIs DEF AcyclicAnswers
  <2>4. A!Offer(p, c, request.maxNumPaths)  BY <1>3, <2>1 DEF A!Close
  <2>5. c < request.cutoff /\ c \in Int /\ A!IsEnd(v) /\ A!InWindow(v)  BY <1>1, <1>2, <1>3, <2>1, <2>2
  <2>6. /\ Found(Acyclic.edges, request.maxNumPaths, request.cutoff)'
        /\ (\A i \in 1 .. Len(valuedPaths) : A!IsAnswer(valuedPaths[i].path, Size))'
        /\ bestValue' = IF c < bestValue THEN c ELSE bestValue
    BY <2>3, <2>4, <2>5, AcyclicOfferFinds
  <2> QED BY <1>3, <2>1, <2>6
<1>4. CASE ~ (l.cost < request.cutoff)
  <2>1. UNCHANGED <<allPaths, valuedPaths>>  BY <1>4 DEF A!Close, A!pathSetVars
  <2>2. bestValue' = bestValue  BY <2>1 DEF bestValue
  <2> QED BY <1>4, <2>1, <2>2, AcyclicAnswersStay
<1> QED BY <1>3, <1>4

LEMMA OfferExtendedFinds ==
  ASSUME AcyclicTypes, AcyclicOrder, AcyclicAnswers, NEW l \in open, bounds[at].cost # Inf, A!OfferExtended(l),
         UNCHANGED <<costs, request>>
  PROVE  /\ Found(Acyclic.edges, request.maxNumPaths, request.cutoff)'
         /\ (\A i \in 1 .. Len(valuedPaths) : A!IsAnswer(valuedPaths[i].path, Size))'
         /\ bestValue' \in Int /\ bestValue' <= bestValue
<1>1. /\ at \in Acyclic.vertices /\ l \in acyclicLabels[at] /\ l.cost \in Int /\ l.prefix \in Seq(Names)
  BY DEF AcyclicTypes, IsLabel
<1>2. bounds[at].cost \in Int /\ bounds[at].cost < Inf
  <2>1. BoundLink(at) /\ Inf \in Nat  BY <1>1, AcyclicArguments DEF AcyclicAnswers, BoundsInv
  <2> QED BY <2>1 DEF BoundLink
<1>0. bestValue \in Int
  <2>1. PICK max : max = request.maxNumPaths  OBVIOUS
  <2> DEFINE P == Seq(Acyclic.edges)
  <2>2. Kept(P, max) /\ Inf \in Nat  BY <2>1, AcyclicArguments DEF AcyclicAnswers, Found
  <2> HIDE DEF P
  <2> QED BY <2>2, BestIsLeast
<1>3. CASE A!CanExtend(l.prefix, A!BoundPath(at)) /\ bounds[at].cost + l.cost < request.cutoff
  <2>1. PICK p, q, c, d : p = A!PathTo(at, l.prefix) /\ q = A!BoundPath(at) /\ c = bounds[at].cost + l.cost
                          /\ d = bounds[at].cost
    OBVIOUS
  <2>2. PICK v, prefix : v = at /\ prefix = l.prefix  OBVIOUS
  <2>3. IsRoute(AcyclicUsable, p, v) /\ Total(costs, p) = l.cost /\ Spread(p) /\ IsTail(prefix, p)
    BY <1>1, <2>1, <2>2, AcyclicPathIs DEF AcyclicAnswers
  <2>4. IsWay(AcyclicUsable, q, v) /\ Total(costs, q) = d
    BY <1>1, <1>2, <2>1, <2>2, BoundPathIs DEF AcyclicAnswers
  <2>5. p \in Seq(AcyclicUsable) /\ q \in Seq(AcyclicUsable)  BY <2>3, <2>4 DEF IsRoute, IsWay
  <2>6. AcyclicUsable \subseteq Acyclic.edges /\ \A e \in AcyclicUsable : e.target.vertex \in Names
    BY AcyclicEdges, AcyclicVertices DEF AcyclicUsable
  <2>7. PICK w : IsRoute(AcyclicUsable, p \o q, w) /\ A!IsEnd(w) /\ A!InWindow(w)
    BY <2>3, <2>4, RouteGoesOn
  <2>8. Spread(p \o q)
    <3>1. prefix \in Seq(Names) /\ A!CanExtend(prefix, q)  BY <1>1, <1>3, <2>1, <2>2
    <3>2. PICK E : E = AcyclicUsable  OBVIOUS
    <3>3. p \in Seq(E) /\ q \in Seq(E) /\ \A e \in E : e.target.vertex \in Names  BY <2>5, <2>6, <3>2
    <3> QED BY <2>3, <3>1, <3>3, SpreadExtends
  <2>9. Total(costs, p \o q) = Total(costs, p) + Total(costs, q)
    <3>1. costs \in [Acyclic.edges -> Int]  BY NetworksAssumption DEF AreRequests, AcyclicTypes
    <3>2. p \in Seq(Acyclic.edges) /\ q \in Seq(Acyclic.edges)  BY <2>5, <2>6
    <3> QED BY <3>1, <3>2, TotalOfBoth
  <2>10. c = Total(costs, p \o q) /\ c \in Int /\ c < request.cutoff
    BY <1>1, <1>2, <1>3, <2>1, <2>3, <2>4, <2>9
  <2>11. PICK r : r = p \o q  OBVIOUS
  <2>12. A!Offer(r, c, request.maxNumPaths)  BY <1>3, <2>1, <2>11 DEF A!OfferExtended
  <2>13. IsRoute(AcyclicUsable, r, w) /\ Spread(r) /\ c = Total(costs, r)  BY <2>7, <2>8, <2>10, <2>11
  <2>14. /\ Found(Acyclic.edges, request.maxNumPaths, request.cutoff)'
         /\ (\A i \in 1 .. Len(valuedPaths) : A!IsAnswer(valuedPaths[i].path, Size))'
         /\ bestValue' = IF c < bestValue THEN c ELSE bestValue
    BY <2>7, <2>10, <2>12, <2>13, AcyclicOfferFinds
  <2> QED BY <1>0, <2>10, <2>14
<1>4. CASE ~ (A!CanExtend(l.prefix, A!BoundPath(at)) /\ bounds[at].cost + l.cost < request.cutoff)
  <2>1. UNCHANGED <<allPaths, valuedPaths>>  BY <1>4 DEF A!OfferExtended, A!pathSetVars
  <2>2. bestValue' = bestValue  BY <2>1 DEF bestValue
  <2> QED BY <1>0, <2>1, <2>2, AcyclicAnswersStay
<1> QED BY <1>3, <1>4

\* ... and that its labels lead on from one another.
LEMMA RelaxedLinks ==
  ASSUME AcyclicTypes, AcyclicOrder, AcyclicAnswers, otherPc = "search", NEW l \in open,
         acyclicLabels' = A!Relaxed(l), UNCHANGED <<costs, request, otherPc, todo, at>>
  PROVE  \A w \in Acyclic.vertices : \A k \in acyclicLabels'[w] : AcyclicLink(w, k)'
<1>1. at \in Acyclic.vertices /\ at \notin todo /\ l \in acyclicLabels[at]
  BY DEF AcyclicTypes, AcyclicOrder
<1>2. \A u \in Acyclic.vertices \ todo : acyclicLabels'[u] = acyclicLabels[u]
  BY RelaxedElsewhere DEF AcyclicAnswers
<1>3. ASSUME NEW w \in Acyclic.vertices, NEW k \in acyclicLabels[w] PROVE AcyclicLink(w, k)'
  BY <1>2, <1>3, AcyclicLinkStays DEF AcyclicAnswers
<1>4. ASSUME NEW w \in Acyclic.vertices, A!EdgeTo(at, w) \in A!Outgoing(at), ~ A!contains(l.prefix, w.vertex)
      PROVE  AcyclicLink(w, Onward(l, w))'
  <2>1. PICK k, e, m : k = Onward(l, w) /\ e = A!EdgeTo(at, w) /\ m = l  OBVIOUS
  <2>2. /\ k.edge = e /\ k.pred = m.prefix /\ k.cost = m.cost + costs[e]
        /\ k.prefix = A!LastOf(Append(m.prefix, w.vertex), Size)
    BY <2>1 DEF Onward, A!label
  <2>3. e \in AcyclicUsable /\ e.source = at /\ e.target = w
    BY <1>4, <2>1 DEF A!Outgoing, AcyclicUsable, A!EdgeTo
  <2>4. m \in acyclicLabels'[at] /\ at \notin todo'  BY <1>1, <1>2, <2>1
  <2>5. AcyclicUsable' = AcyclicUsable  BY DEF AcyclicUsable, A!Usable
  <2>6. ~ A!contains(m.prefix, w.vertex)  BY <1>4, <2>1
  <2>7. AcyclicLink(w, k)'
    <3>1. ~ A!contains(m.prefix, w.vertex)'  BY <2>6 DEF A!contains
    <3>2. k.prefix = A!LastOf(Append(m.prefix, w.vertex), Size)'  BY <2>2 DEF A!LastOf
    <3>3. otherPc' # "bounds"  OBVIOUS
    <3> QED BY <2>2, <2>3, <2>4, <2>5, <3>1, <3>2, <3>3 DEF AcyclicLink
  <2>8. k = Onward(l, w)'  BY <2>1 DEF Onward, A!LastOf, A!label, A!EdgeTo
  <2> QED BY <2>7, <2>8
<1>5. ASSUME NEW w \in Acyclic.vertices, NEW k \in acyclicLabels'[w] PROVE AcyclicLink(w, k)'
  <2>1. CASE k \in acyclicLabels[w]  BY <1>3, <2>1
  <2>2. CASE k \notin acyclicLabels[w]
    <3>1. /\ A!EdgeTo(at, w) \in A!Outgoing(at) /\ ~ A!contains(l.prefix, w.vertex)
          /\ A!Relaxed(l)[w] = A!Inserted(acyclicLabels[w], Onward(l, w))
      BY <2>2, RelaxedIs
    <3>2. A!Inserted(acyclicLabels[w], Onward(l, w)) \subseteq acyclicLabels[w] \cup {Onward(l, w)}
      <4> DEFINE set == acyclicLabels[w]
                 new == Onward(l, w)
      <4> HIDE DEF set, new
      <4>1. A!Inserted(set, new) \subseteq set \cup {new}  BY InsertedIs
      <4> QED BY <4>1 DEF set, new
    <3>3. k = Onward(l, w)  BY <2>2, <3>1, <3>2
    <3>4. Onward(l, w)' = Onward(l, w)  BY DEF Onward, A!LastOf, A!label, A!EdgeTo
    <3>5. AcyclicLink(w, Onward(l, w))'  BY <1>4, <3>1
    <3> QED BY <3>3, <3>4, <3>5 DEF AcyclicLink
  <2> QED BY <2>1, <2>2
<1> QED BY <1>5

LEMMA TakeAnswers ==
  ASSUME AcyclicTypes, AcyclicOrder, AcyclicAnswers, otherPc = "search", NEW l \in open,
         UNCHANGED <<costs, request, otherPc, bounds, todo, at>>, open' = open \ {l},
         UNCHANGED acyclicLabels \/ acyclicLabels' = A!Relaxed(l),
         Found(Acyclic.edges, request.maxNumPaths, request.cutoff)',
         (\A i \in 1 .. Len(valuedPaths) : A!IsAnswer(valuedPaths[i].path, Size))'
  PROVE  AcyclicAnswers'
<1>1. BoundsInv'  BY BoundsStay DEF AcyclicAnswers
<1>2. \A w \in Acyclic.vertices : \A k \in acyclicLabels'[w] : AcyclicLink(w, k)'
  <2>1. CASE UNCHANGED acyclicLabels  BY <2>1, AcyclicLinkStays DEF AcyclicAnswers
  <2>2. CASE acyclicLabels' = A!Relaxed(l)  BY <2>2, RelaxedLinks
  <2> QED BY <2>1, <2>2
<1>3. (open # {} /\ A!IsEnd(at) => A!InWindow(at))'  BY DEF AcyclicAnswers, A!IsEnd, A!InWindow
<1>4. (otherPc = "search" => \A v \in Acyclic.vertices \ todo : v.time <= at.time)'  BY DEF AcyclicAnswers
<1> QED BY <1>1, <1>2, <1>3, <1>4 DEF AcyclicAnswers

LEMMA AcyclicAnswersStep ==
  AcyclicTypes /\ AcyclicOrder /\ AcyclicAnswers /\ (A!HoleFreeSearch \/ A!Rival \/ UNCHANGED A!vars) => AcyclicAnswers'
<1> SUFFICES ASSUME AcyclicTypes, AcyclicOrder, AcyclicAnswers, A!HoleFreeSearch \/ A!Rival \/ UNCHANGED A!vars
             PROVE  AcyclicAnswers'
  OBVIOUS
<1>1. CASE A!HoleFreeSearch
  <2>0. UNCHANGED <<costs, request>>  BY <1>1, SearchKeeps
  <2>1. CASE otherPc = "bounds" /\ \E v \in Acyclic.vertices : A!Bound(v)
    BY <2>0, <2>1, BoundAnswers
  <2>2. CASE /\ otherPc = "bounds" /\ otherPc' = "search" /\ todo = {} /\ todo' = Acyclic.vertices
             /\ UNCHANGED <<bounds, acyclicLabels, at, open, allPaths, valuedPaths>>
    BY <2>0, <2>2, BoundsFoundAnswers
  <2>3. CASE \E v \in Acyclic.vertices : A!Arrive(v)
    BY <2>0, <2>3, ArriveAnswers
  <2>4. CASE /\ otherPc = "search" /\ UNCHANGED <<otherPc, bounds, todo, at>>
             /\ \E l \in open : /\ open' = open \ {l}
                                /\ \/ A!Close(l) /\ UNCHANGED acyclicLabels
                                   \/ A!Discard(l) /\ UNCHANGED acyclicLabels
                                   \/ /\ ~ A!Hopeless(l) /\ A!OfferExtended(l)
                                      /\ UNCHANGED acyclicLabels \/ acyclicLabels' = A!Relaxed(l)
    <3>1. PICK l \in open : /\ open' = open \ {l}
                            /\ \/ A!Close(l) /\ UNCHANGED acyclicLabels
                               \/ A!Discard(l) /\ UNCHANGED acyclicLabels
                               \/ /\ ~ A!Hopeless(l) /\ A!OfferExtended(l)
                                  /\ UNCHANGED acyclicLabels \/ acyclicLabels' = A!Relaxed(l)
      BY <2>4
    <3>2. /\ Found(Acyclic.edges, request.maxNumPaths, request.cutoff)'
          /\ (\A i \in 1 .. Len(valuedPaths) : A!IsAnswer(valuedPaths[i].path, Size))'
      <4>1. CASE A!Close(l)  BY <2>0, <4>1, CloseFinds
      <4>2. CASE A!Discard(l)
        <5>1. UNCHANGED <<allPaths, valuedPaths>>  BY <4>2 DEF A!Discard, A!pathSetVars
        <5> QED BY <2>0, <5>1, AcyclicAnswersStay
      <4>3. CASE ~ A!Hopeless(l) /\ A!OfferExtended(l)
        <5>1. bounds[at].cost # Inf  BY <4>3 DEF A!Hopeless
        <5> QED BY <2>0, <4>3, <5>1, OfferExtendedFinds
      <4> QED BY <3>1, <4>1, <4>2, <4>3
    <3>3. UNCHANGED acyclicLabels \/ acyclicLabels' = A!Relaxed(l)  BY <3>1
    <3>4. otherPc = "search" /\ UNCHANGED <<costs, request, otherPc, bounds, todo, at>> /\ open' = open \ {l}
      BY <2>0, <2>4, <3>1
    <3> QED BY <3>2, <3>3, <3>4, TakeAnswers
  <2>5. CASE /\ otherPc = "search" /\ otherPc' = "done" /\ todo = {} /\ open = {}
             /\ UNCHANGED <<todo, bounds, acyclicLabels, at, open, allPaths, valuedPaths>>
    <3>1. BoundsInv'  BY <2>0, <2>5, BoundsStay DEF AcyclicAnswers
    <3>2. \A w \in Acyclic.vertices : \A k \in acyclicLabels'[w] : AcyclicLink(w, k)'
      BY <2>0, <2>5, AcyclicLinkStays DEF AcyclicAnswers
    <3> QED BY <2>0, <2>5, <3>1, <3>2, AcyclicAnswersStay DEF AcyclicAnswers
  <2> QED BY <1>1, <2>1, <2>2, <2>3, <2>4, <2>5, AcyclicSteps
<1>2. CASE A!Rival \/ UNCHANGED A!vars
  <2>1. UNCHANGED <<costs, request, otherPc, todo, bounds, acyclicLabels, at, open, allPaths, valuedPaths>>
    BY <1>2 DEF A!Rival, A!Walk, A!vars, A!pathSetVars, A!arguments, A!searchVars
  <2> QED BY <2>1, AcyclicAnswersKept
<1> QED BY <1>1, <1>2

\* What the acyclic routers promise of their answers.
LEMMA AcyclicAnswersAre == AcyclicAnswers => A!Answers
<1> SUFFICES ASSUME AcyclicAnswers PROVE A!Answers
  OBVIOUS
<1>1. Found(Acyclic.edges, request.maxNumPaths, request.cutoff)  BY DEF AcyclicAnswers
<1>2. Len(valuedPaths) <= request.maxNumPaths  BY <1>1 DEF Found, Kept
<1>3. ASSUME NEW i \in 1 .. Len(valuedPaths)
      PROVE  LET entry == valuedPaths[i]
             IN  /\ A!IsAnswer(entry.path, Size)
                 /\ entry.value = A!PathCost(entry.path)
                 /\ entry.value < request.cutoff
                 /\ \A j \in 1 .. Len(valuedPaths) : entry.path = valuedPaths[j].path => i = j
  <2>1. A!IsAnswer(valuedPaths[i].path, Size)  BY DEF AcyclicAnswers
  <2>2. valuedPaths[i].value = A!PathCost(valuedPaths[i].path) /\ valuedPaths[i].value < request.cutoff
    BY <1>1, PathCostIsTotal DEF Found
  <2>3. \A j \in 1 .. Len(valuedPaths) : valuedPaths[i].path = valuedPaths[j].path => i = j
    BY <1>1 DEF Found, Kept
  <2> QED BY <2>1, <2>2, <2>3
<1> QED BY <1>2, <1>3 DEF A!Answers, A!PathsAreAnswers

-----------------------------------------------------------------------------
(* The traveller of the acyclic routers.                                   *)

\* What can be reached at all is reached at less than inf.
LEMMA BoundIsNear ==
  ASSUME AcyclicTypes, BoundsInv, NEW most \in Nat,
         \A e \in Acyclic.edges : costs[e] <= most * (e.target.time - e.source.time),
         NEW v \in Acyclic.vertices, bounds[v].cost < Inf
  PROVE  \E u \in Acyclic.vertices : bounds[v].cost <= most * (u.time - v.time)
<1> DEFINE D == Acyclic.vertices
           good(w) == \E u \in D : bounds[w].cost <= most * (u.time - w.time)
           T == {w \in D : bounds[w].cost < Inf => good(w)}
<1>0. PICK N \in Nat : \E rank \in [D -> 0 .. N] : \A u, w \in D : u.time < w.time => rank[w] < rank[u]
  BY FallingRanks
<1>1. PICK rank \in [D -> 0 .. N] : \A u, w \in D : u.time < w.time => rank[w] < rank[u]
  BY <1>0
<1>2. Inf \in Nat \ {0} /\ NoEdge \notin Acyclic.edges /\ \A w \in D : w.time \in Nat
  BY NetworksAssumption, InfAssumption, AcyclicVertices
<1>3. ASSUME NEW w \in D, \A y \in D : rank[y] < rank[w] => y \in T, bounds[w].cost < Inf
      PROVE  good(w)
  <2>1. BoundLink(w)  BY DEF BoundsInv
  <2>2. CASE bounds[w].edge = NoEdge
    <3>1. NoEdge \notin AcyclicUsable  BY <1>2 DEF AcyclicUsable
    <3>2. bounds[w].cost = 0  BY <1>2, <1>3, <2>1, <2>2, <3>1 DEF BoundLink
    <3>3. most * (w.time - w.time) = 0  BY <1>2
    <3> QED BY <3>2, <3>3
  <2>3. CASE bounds[w].edge # NoEdge
    <3>1. PICK e : e = bounds[w].edge  OBVIOUS
    <3>2. /\ e \in AcyclicUsable /\ e.source = w /\ bounds[e.target].cost < Inf
          /\ bounds[w].cost = bounds[e.target].cost + costs[e]
      BY <2>1, <2>3, <3>1 DEF BoundLink
    <3>3. e \in Acyclic.edges /\ e.target \in D /\ w.time < e.target.time
      BY <3>2, AcyclicEdges DEF AcyclicUsable
    <3>4. e.target \in T  BY <1>1, <1>3, <3>3
    <3>5. PICK u \in D : bounds[e.target].cost <= most * (u.time - e.target.time)
      BY <3>2, <3>4
    <3>6. costs[e] <= most * (e.target.time - w.time) /\ costs[e] \in Int
      BY <3>2, <3>3, AcyclicArguments
    <3>7. bounds[e.target].cost \in Int  BY <3>3 DEF BoundsInv, BoundLink
    <3>8. PICK a, b, c : a = u.time /\ b = e.target.time /\ c = w.time  OBVIOUS
    <3>9. a \in Nat /\ b \in Nat /\ c \in Nat  BY <1>2, <3>3, <3>8
    <3>10. most * (a - b) + most * (b - c) = most * (a - c)
           /\ most * (a - b) \in Int /\ most * (b - c) \in Int /\ most * (a - c) \in Int
      BY <3>9
    <3>11. bounds[w].cost <= most * (a - b) + most * (b - c)
      <4> DEFINE r == most * (a - b)
                 s == most * (b - c)
      <4>1. bounds[e.target].cost <= r /\ costs[e] <= s /\ r \in Int /\ s \in Int
        BY <3>2, <3>5, <3>6, <3>8, <3>10
      <4> HIDE DEF r, s
      <4>2. bounds[w].cost <= r + s  BY <3>2, <3>6, <3>7, <4>1
      <4> QED BY <4>2 DEF r, s
    <3>12. bounds[w].cost <= most * (u.time - w.time)  BY <3>8, <3>10, <3>11
    <3> QED BY <3>12
  <2> QED BY <2>2, <2>3
<1>4. v \in T
  <2>1. v \in D  OBVIOUS
  <2>2. \A w \in D : (\A y \in D : rank[y] < rank[w] => y \in T) => w \in T
    <3> TAKE w \in D
    <3> SUFFICES ASSUME \A y \in D : rank[y] < rank[w] => y \in T, bounds[w].cost < Inf PROVE good(w)
      OBVIOUS
    <3> HIDE DEF good, T
    <3> QED BY <1>3
  <2> HIDE DEF D, T
  <2>3. D \subseteq T  BY <2>2, RankInduction
  <2> QED BY <2>1, <2>3
<1> QED BY <1>4

\* When the bounds are found, they lead back over every edge.
LEMMA BoundsLeadBack ==
  ASSUME AcyclicTypes, BoundsInv, otherPc # "bounds",
         NEW e \in AcyclicUsable, bounds[e.target].cost < Inf
  PROVE  /\ bounds[e.source].cost <= bounds[e.target].cost + costs[e]
         /\ bounds[e.source].cost < Inf
<1>1. PICK most \in 0 .. Inf :
        /\ \A c \in Acyclic.costs, d \in Acyclic.edges : c[d] <= most * (d.target.time - d.source.time)
        /\ \A v \in Acyclic.vertices : most * v.time < Inf
  BY CostsAssumption
<1>2. most \in Nat /\ costs \in Acyclic.costs /\ Inf \in Nat  BY InfAssumption DEF AcyclicTypes
<1>3. /\ e \in Acyclic.edges /\ e.source \in Acyclic.vertices /\ e.target \in Acyclic.vertices
      /\ costs[e] \in Int
  BY AcyclicEdges, AcyclicArguments DEF AcyclicUsable
<1>4. PICK u \in Acyclic.vertices : bounds[e.target].cost <= most * (u.time - e.target.time)
  BY <1>1, <1>2, <1>3, BoundIsNear
<1>5. PICK a, b, c : a = u.time /\ b = e.target.time /\ c = e.source.time  OBVIOUS
<1>6. a \in Nat /\ b \in Nat /\ c \in Nat  BY <1>3, <1>5, AcyclicVertices
<1>7. bounds[e.target].cost \in Int /\ bounds[e.source].cost \in Int  BY <1>3 DEF BoundsInv, BoundLink
<1>8. costs[e] <= most * (b - c)  BY <1>1, <1>2, <1>3, <1>5
<1>9. most * (a - b) + most * (b - c) + most * c = most * a /\ most * c >= 0
      /\ most * (a - b) \in Int /\ most * (b - c) \in Int /\ most * c \in Int /\ most * a \in Int
  BY <1>2, <1>6
<1>10. bounds[e.source].cost <= bounds[e.target].cost + costs[e]  BY DEF BoundsInv
<1>11. bounds[e.target].cost + costs[e] < Inf
  <2> DEFINE r == most * (a - b)
             s == most * (b - c)
             t == most * c
             z == most * a
  <2>1. /\ bounds[e.target].cost <= r /\ costs[e] <= s /\ r \in Int /\ s \in Int /\ t \in Int /\ z \in Int
        /\ r + s + t = z /\ t >= 0 /\ z < Inf
    BY <1>1, <1>4, <1>5, <1>8, <1>9
  <2> HIDE DEF r, s, t, z
  <2> QED BY <1>2, <1>3, <1>7, <2>1
<1> QED BY <1>2, <1>3, <1>7, <1>10, <1>11

\* An extension by one more vertex in front.
Shifted(w, x) == [i \in 1 .. Size |-> IF i = 1 THEN w ELSE x[i - 1]]

\* An extension is open after w when the one with w in front is open before.
LEMMA ShiftIs ==
  ASSUME NEW U, NEW prefix \in Seq(U), Len(prefix) \in 1 .. Size, NEW w \in U, NEW x \in [1 .. Size -> U]
  PROVE  LET next == A!LastOf(Append(prefix, w), Size) IN
         /\ next \in Seq(U) /\ Len(next) \in 1 .. Size /\ Shifted(w, x) \in [1 .. Size -> U]
         /\ ~ A!contains(prefix, w) /\ Allows(next, x) <=>
              Allows(prefix, Shifted(w, x)) /\ Distinct(x) /\ \A i \in 1 .. Size : x[i] # w
<1> DEFINE L == Len(prefix)
           s == Append(prefix, w)
           next == LastOf(s, Size)
           K == IF L + 1 > Size THEN Size ELSE L + 1
           y == Shifted(w, x)
<1>1. Size \in Nat \ {0} /\ L \in 1 .. Size  BY SizeAssumption
<1>2. s \in Seq(U) /\ Len(s) = L + 1 /\ (\A i \in 1 .. L : s[i] = prefix[i]) /\ s[L + 1] = w
  BY AppendProperties
<1> HIDE DEF s, L
<1>3. next \in Seq(U) /\ Len(next) = K /\ \A i \in 1 .. K : next[i] = s[L + 1 - K + i]
  <2>1. /\ LastOf(s, Size) \in Seq(U)
        /\ Len(LastOf(s, Size)) = IF Len(s) > Size THEN Size ELSE Len(s)
        /\ \A h \in 1 .. IF Len(s) > Size THEN Size ELSE Len(s) :
             LastOf(s, Size)[h] = s[Len(s) - (IF Len(s) > Size THEN Size ELSE Len(s)) + h]
    BY <1>1, <1>2, LastOfIs
  <2>2. (IF Len(s) > Size THEN Size ELSE Len(s)) = K /\ Len(s) = L + 1  BY <1>2
  <2> HIDE DEF K
  <2>3. next \in Seq(U) /\ Len(next) = K /\ \A i \in 1 .. K : next[i] = s[Len(s) - K + i]  BY <2>1, <2>2
  <2>4. Len(s) = L + 1 /\ L \in Int /\ K \in Int
    <3>1. K \in Int  BY <1>1 DEF K
    <3> QED BY <1>1, <1>2, <3>1
  <2> HIDE DEF next
  <2> QED BY <2>3, <2>4
<1>4. A!LastOf(s, Size) = next  BY DEF A!LastOf, LastOf
<1>5. K \in 1 .. Size /\ K \in 1 .. L + 1 /\ (K = L + 1 \/ K = Size)  BY <1>1
<1> HIDE DEF next, K
<1>6. y \in [1 .. Size -> U] /\ y[1] = w /\ \A i \in 2 .. Size : y[i] = x[i - 1]
  <2>1. \A i \in 2 .. Size : i \in 1 .. Size /\ i # 1 /\ i - 1 \in 1 .. Size  BY <1>1
  <2>2. \A i \in 1 .. Size : i = 1 \/ i \in 2 .. Size  BY <1>1
  <2> QED BY <1>1, <2>1, <2>2 DEF Shifted
<1> HIDE DEF y
<1>7. Allows(next, x) <=> Distinct(x) /\ ~ Remembers(next, x)  BY <1>3, <1>5, AllowsIs
<1>8. Allows(prefix, y) <=> Distinct(y) /\ ~ Remembers(prefix, y)  BY <1>1, <1>6, AllowsIs DEF L
<1>9. Remembers(next, x) <=> \/ \E i \in 1 .. Size : x[i] = w
                             \/ \E i \in 1 .. Size, j \in 1 .. L : i + 1 <= Size - L + j /\ prefix[j] = x[i]
  <2>1. ASSUME NEW i \in 1 .. Size, NEW k \in 1 .. K, i <= Size - K + k, next[k] = x[i]
        PROVE  \/ \E h \in 1 .. Size : x[h] = w
               \/ \E h \in 1 .. Size, j \in 1 .. L : h + 1 <= Size - L + j /\ prefix[j] = x[h]
    <3> DEFINE j == L + 1 - K + k
    <3>1. j \in 1 .. L + 1 /\ i + 1 <= Size - L + j /\ (j = L + 1 \/ j \in 1 .. L)  BY <1>1, <1>5, <2>1
    <3>2. s[j] = x[i]  BY <1>3, <2>1
    <3> HIDE DEF j
    <3>3. CASE j = L + 1  BY <1>2, <3>2, <3>3
    <3>4. CASE j \in 1 .. L
      <4>1. prefix[j] = x[i]  BY <1>2, <3>2, <3>4
      <4> QED BY <3>1, <3>4, <4>1
    <3> QED BY <3>1, <3>3, <3>4
  <2>2. ASSUME NEW i \in 1 .. Size, x[i] = w PROVE Remembers(next, x)
    <3>1. K \in 1 .. K /\ L + 1 - K + K = L + 1 /\ i <= Size - K + K  BY <1>1, <1>5
    <3>2. next[K] = w  BY <1>2, <1>3, <3>1
    <3> QED BY <1>3, <2>2, <3>1, <3>2 DEF Remembers
  <2>3. ASSUME NEW i \in 1 .. Size, NEW j \in 1 .. L, i + 1 <= Size - L + j, prefix[j] = x[i]
        PROVE  Remembers(next, x)
    <3> DEFINE k == j - (L + 1 - K)
    <3>1. k \in 1 .. K /\ i <= Size - K + k /\ L + 1 - K + k = j  BY <1>1, <1>5, <2>3
    <3> HIDE DEF k
    <3>2. next[k] = s[j]  BY <1>3, <3>1
    <3>3. next[k] = x[i]  BY <1>2, <2>3, <3>2
    <3> QED BY <1>3, <3>1, <3>3 DEF Remembers
  <2> QED BY <1>3, <2>1, <2>2, <2>3 DEF Remembers
<1>10. Remembers(prefix, y) <=> \/ \E j \in 1 .. L : prefix[j] = w
                                \/ \E i \in 1 .. Size, j \in 1 .. L : i + 1 <= Size - L + j /\ prefix[j] = x[i]
  <2>1. ASSUME NEW i \in 1 .. Size, NEW j \in 1 .. L, i <= Size - L + j, prefix[j] = y[i]
        PROVE  \/ \E h \in 1 .. L : prefix[h] = w
               \/ \E h \in 1 .. Size, g \in 1 .. L : h + 1 <= Size - L + g /\ prefix[g] = x[h]
    <3>1. CASE i = 1  BY <1>6, <2>1, <3>1
    <3>2. CASE i # 1
      <4>1. i \in 2 .. Size /\ i - 1 \in 1 .. Size /\ (i - 1) + 1 = i  BY <1>1, <3>2
      <4>2. prefix[j] = x[i - 1]  BY <1>6, <2>1, <4>1
      <4> QED BY <2>1, <4>1, <4>2
    <3> QED BY <3>1, <3>2
  <2>2. ASSUME NEW j \in 1 .. L, prefix[j] = w PROVE Remembers(prefix, y)
    <3>1. 1 \in 1 .. Size /\ 1 <= Size - L + j  BY <1>1
    <3> QED BY <1>6, <2>2, <3>1 DEF Remembers, L
  <2>3. ASSUME NEW i \in 1 .. Size, NEW j \in 1 .. L, i + 1 <= Size - L + j, prefix[j] = x[i]
        PROVE  Remembers(prefix, y)
    <3>1. i + 1 \in 2 .. Size /\ i + 1 \in 1 .. Size /\ (i + 1) - 1 = i  BY <1>1, <2>3
    <3>2. y[i + 1] = x[i]  BY <1>6, <3>1
    <3> QED BY <2>3, <3>1, <3>2 DEF Remembers, L
  <2> QED BY <2>1, <2>2, <2>3 DEF Remembers, L
<1>11. Distinct(x) /\ (\A i \in 1 .. Size : x[i] # w) => Distinct(y)
  <2> SUFFICES ASSUME Distinct(x), \A i \in 1 .. Size : x[i] # w,
                      NEW i \in 1 .. Size, NEW j \in 1 .. Size, y[i] = y[j]
               PROVE  i = j
    BY DEF Distinct
  <2>1. \A h \in 1 .. Size : h = 1 \/ (h \in 2 .. Size /\ h - 1 \in 1 .. Size)  BY <1>1
  <2>2. CASE i = 1 \/ j = 1  BY <1>6, <2>1, <2>2
  <2>3. CASE i # 1 /\ j # 1
    <3>1. x[i - 1] = x[j - 1] /\ i - 1 \in 1 .. Size /\ j - 1 \in 1 .. Size  BY <1>6, <2>1, <2>3
    <3>2. i - 1 = j - 1  BY <3>1 DEF Distinct
    <3> QED BY <1>1, <3>2
  <2> QED BY <2>2, <2>3
<1>12. A!contains(prefix, w) <=> \E j \in 1 .. L : prefix[j] = w  BY DEF A!contains, L
<1>13. next \in Seq(U) /\ Len(next) \in 1 .. Size  BY <1>3, <1>5
<1>14. ~ A!contains(prefix, w) /\ Allows(next, x) <=>
         Allows(prefix, y) /\ Distinct(x) /\ \A i \in 1 .. Size : x[i] # w
  BY <1>7, <1>8, <1>9, <1>10, <1>11, <1>12
<1> QED BY <1>4, <1>6, <1>13, <1>14 DEF s, y

\* Names of which an extension can be that no prefix forbids.
Stranger == CHOOSE c : c \notin {n[1] : n \in Names}

Universe == Names \cup {<<Stranger, i>> : i \in 1 .. Size}

LEMMA StrangersAreFree ==
  ASSUME NEW prefix \in Seq(Names), Len(prefix) \in 1 .. Size
  PROVE  \E x \in [1 .. Size -> Universe] : Allows(prefix, x)
<1> DEFINE x == [i \in 1 .. Size |-> <<Stranger, i>>]
           V == {n[1] : n \in Names}
<1>1. Stranger \notin V
  <2> DEFINE R == {n \in V : n \notin n}
  <2>1. R \notin V  OBVIOUS
  <2>2. \E c : c \notin V  BY <2>1
  <2> QED BY <2>2 DEF Stranger
<1>2. \A i \in 1 .. Size : <<Stranger, i>> \notin Names
  <2> SUFFICES ASSUME NEW i \in 1 .. Size, <<Stranger, i>> \in Names PROVE FALSE  OBVIOUS
  <2>1. <<Stranger, i>>[1] \in V  OBVIOUS
  <2>2. <<Stranger, i>>[1] = Stranger  OBVIOUS
  <2> QED BY <1>1, <2>1, <2>2
<1>3. x \in [1 .. Size -> Universe] /\ \A i \in 1 .. Size : x[i] = <<Stranger, i>>  BY DEF Universe
<1> HIDE DEF x
<1>4. Distinct(x)
  <2>1. ASSUME NEW i \in 1 .. Size, NEW j \in 1 .. Size, x[i] = x[j] PROVE i = j
    <3>1. <<Stranger, i>> = <<Stranger, j>>  BY <1>3, <2>1
    <3>2. <<Stranger, i>>[2] = i /\ <<Stranger, j>>[2] = j  OBVIOUS
    <3> QED BY <3>1, <3>2
  <2> QED BY <2>1 DEF Distinct
<1>5. ~ Remembers(prefix, x)
  <2>1. \A k \in 1 .. Len(prefix) : prefix[k] \in Names  BY ElementOfSeq
  <2> QED BY <1>2, <1>3, <2>1 DEF Remembers
<1>6. prefix \in Seq(Universe)  BY DEF Universe
<1>7. Allows(prefix, x)  BY <1>3, <1>4, <1>5, <1>6, AllowsIs
<1> QED BY <1>3, <1>7

Extensions == [1 .. Size -> Universe]

\* From a label the loop has gone on over every edge its prefix allows, ...
Extended(v, l) ==
  \A e \in AcyclicUsable :
    e.source = v /\ ~ A!contains(l.prefix, e.target.vertex) =>
      \E m \in acyclicLabels[e.target] :
        /\ m.prefix = A!LastOf(Append(l.prefix, e.target.vertex), Size)
        /\ m.cost <= l.cost + costs[e]

\* ... or from others that cost no more and allow together what it allows, ...
Dispensable(v, l) ==
  /\ request.holeFree
  /\ \A x \in Extensions : Allows(l.prefix, x) =>
       \E m \in acyclicLabels[v] : m # l /\ m.cost <= l.cost /\ Allows(m.prefix, x)

\* ... unless nothing was to be gained; that of an end was offered.
SettledAt(v, l) ==
  IF A!IsEnd(v) THEN A!InWindow(v) /\ l.cost < request.cutoff => bestValue <= l.cost
  ELSE \/ bounds[v].cost = Inf
       \/ bestValue < bounds[v].cost + l.cost
       \/ Extended(v, l)
       \/ Dispensable(v, l)

\* What the rival could do from a vertex at a cost, one of the labels there can do,
\* unless even the bound does not bring him below the best path.
AcyclicServes(v, prefix, c) ==
  \/ bounds[v].cost = Inf
  \/ bestValue <= c + bounds[v].cost
  \/ \A x \in Extensions : Allows(prefix, x) =>
       \E m \in acyclicLabels[v] : m.cost <= c /\ Allows(m.prefix, x)

AcyclicSettled ==
  /\ otherPc # "bounds" =>
       \A v \in Acyclic.vertices \ todo : \A l \in acyclicLabels[v] : (v = at /\ l \in open) \/ SettledAt(v, l)
  /\ A!sourceLabel \in acyclicLabels[A!Start]
  /\ trail \in Seq(Names) /\ Len(trail) \in 1 .. Size
  /\ otherPc # "done" => pos = A!Start /\ trail = <<Root>> /\ spent = 0
  /\ (request.holeFree => A!NoTies) => AcyclicServes(pos, trail, spent)

LEMMA BestIsNumber ==
  ASSUME AcyclicTypes, AcyclicAnswers
  PROVE  bestValue \in Int
<1> DEFINE P == Seq(Acyclic.edges)
<1>1. PICK max : max = request.maxNumPaths  OBVIOUS
<1>2. Kept(P, max) /\ Inf \in Nat  BY <1>1, AcyclicArguments DEF AcyclicAnswers, Found
<1> HIDE DEF P
<1> QED BY <1>2, BestIsLeast

\* Before the rival leaves, the first label does what he can do.
LEMMA StartIsServed ==
  ASSUME A!sourceLabel \in acyclicLabels[A!Start]
  PROVE  AcyclicServes(A!Start, <<Root>>, 0)
<1>1. A!sourceLabel.prefix = <<Root>> /\ A!sourceLabel.cost = 0  BY DEF A!sourceLabel, A!label
<1> QED BY <1>1 DEF AcyclicServes

LEMMA AcyclicSettledInit == A!Init => AcyclicSettled
<1> SUFFICES ASSUME A!Init PROVE AcyclicSettled
  OBVIOUS
<1>1. otherPc = "bounds" /\ pos = A!Start /\ spent = 0 /\ A!sourceLabel \in acyclicLabels[A!Start]
  BY AcyclicVertices DEF A!Init, A!RivalInit
<1>2. trail = <<Root>>
  <2> DEFINE s == <<Root>>
  <2>1. s \in Seq({Root}) /\ Len(s) = 1 /\ ~ (1 > Size)  BY SizeAssumption
  <2>2. trail = A!LastOf(s, Size)  BY DEF A!Init, A!RivalInit
  <2> HIDE DEF s
  <2>3. trail = SubSeq(s, 1, Len(s))  BY <2>1, <2>2 DEF A!LastOf
  <2>4. trail = s  BY <2>1, <2>3, SubSeqFull
  <2> QED BY <2>4 DEF s
<1>3. trail \in Seq(Names) /\ Len(trail) \in 1 .. Size
  <2>1. Root \in Names  BY AcyclicVertices
  <2> QED BY <1>2, <2>1, SizeAssumption
<1> QED BY <1>1, <1>2, <1>3, StartIsServed DEF AcyclicSettled

\* What is settled stays so, while labels are only replaced by cheaper ones.
LEMMA SettledStays ==
  ASSUME AcyclicTypes, AcyclicTypes', BoundsInv, UNCHANGED <<costs, request, bounds>>,
         bestValue \in Int, bestValue' \in Int, bestValue' <= bestValue,
         \A w \in Acyclic.vertices : \A k \in acyclicLabels[w] :
           \E m \in acyclicLabels'[w] : m.prefix = k.prefix /\ m.cost <= k.cost,
         NEW v \in Acyclic.vertices, acyclicLabels'[v] = acyclicLabels[v],
         NEW l \in acyclicLabels[v], SettledAt(v, l)
  PROVE  SettledAt(v, l)'
<1>1. l.cost \in Int /\ bounds[v].cost \in Int /\ bounds'[v] = bounds[v]
  BY DEF AcyclicTypes, IsLabel, BoundsInv, BoundLink
<1>2. CASE A!IsEnd(v)
  <2>1. (A!InWindow(v) /\ l.cost < request.cutoff => bestValue <= l.cost)'
    BY <1>1, <1>2 DEF SettledAt, A!InWindow
  <2> QED BY <1>2, <2>1 DEF SettledAt, A!IsEnd
<1>3. CASE ~ A!IsEnd(v)
  <2>1. CASE bounds[v].cost = Inf \/ bestValue < bounds[v].cost + l.cost
    <3>1. bounds'[v].cost = Inf \/ bestValue' < bounds'[v].cost + l.cost  BY <1>1, <2>1
    <3> QED BY <1>3, <3>1 DEF SettledAt, A!IsEnd
  <2>2. CASE Extended(v, l)
    <3>1. AcyclicUsable' = AcyclicUsable  BY DEF AcyclicUsable, A!Usable
    <3>2. ASSUME NEW e \in AcyclicUsable, e.source = v, ~ A!contains(l.prefix, e.target.vertex)
          PROVE  \E m \in acyclicLabels'[e.target] :
                   /\ m.prefix = A!LastOf(Append(l.prefix, e.target.vertex), Size)
                   /\ m.cost <= l.cost + costs[e]
      <4>1. PICK k \in acyclicLabels[e.target] :
              /\ k.prefix = A!LastOf(Append(l.prefix, e.target.vertex), Size)
              /\ k.cost <= l.cost + costs[e]
        BY <2>2, <3>2 DEF Extended
      <4>2. e.target \in Acyclic.vertices /\ costs[e] \in Int  BY AcyclicEdges, AcyclicArguments DEF AcyclicUsable
      <4>3. PICK m \in acyclicLabels'[e.target] : m.prefix = k.prefix /\ m.cost <= k.cost  BY <4>2
      <4>4. k.cost \in Int /\ m.cost \in Int  BY <4>2 DEF AcyclicTypes, IsLabel
      <4>5. m.cost <= l.cost + costs[e]  BY <1>1, <4>1, <4>2, <4>3, <4>4
      <4> QED BY <4>1, <4>3, <4>5
    <3>3. Extended(v, l)'
      BY <3>1, <3>2 DEF Extended, A!contains, A!LastOf
    <3> QED BY <1>3, <3>3 DEF SettledAt, A!IsEnd
  <2>3. CASE Dispensable(v, l)
    <3>1. Dispensable(v, l)'
      BY <2>3 DEF Dispensable, Extensions, Allows, A!contains, A!LastOf
    <3> QED BY <1>3, <3>1 DEF SettledAt, A!IsEnd
  <2> QED BY <1>3, <2>1, <2>2, <2>3 DEF SettledAt
<1> QED BY <1>2, <1>3

\* Relaxed labels: what was there is there or cheaper, and the label is extended.
LEMMA RelaxedGrows ==
  ASSUME AcyclicTypes, NEW l \in open
  PROVE  /\ \A w \in Acyclic.vertices : \A k \in acyclicLabels[w] :
              \E m \in A!Relaxed(l)[w] : m.prefix = k.prefix /\ m.cost <= k.cost
         /\ \A w \in Acyclic.vertices :
              A!EdgeTo(at, w) \in A!Outgoing(at) /\ ~ A!contains(l.prefix, w.vertex) =>
                \E m \in A!Relaxed(l)[w] : /\ m.prefix = A!LastOf(Append(l.prefix, w.vertex), Size)
                                           /\ m.cost <= l.cost + costs[A!EdgeTo(at, w)]
<1>1. ASSUME NEW w \in Acyclic.vertices, NEW k \in acyclicLabels[w]
      PROVE  \E m \in A!Relaxed(l)[w] : m.prefix = k.prefix /\ m.cost <= k.cost
  <2>1. k.cost \in Int  BY DEF AcyclicTypes, IsLabel
  <2>2. CASE A!Relaxed(l)[w] = acyclicLabels[w]  BY <2>1, <2>2
  <2>3. CASE IsLabel(Onward(l, w), w) /\ A!Relaxed(l)[w] = A!Inserted(acyclicLabels[w], Onward(l, w))
    <3>1. PICK set, h : set = acyclicLabels[w] /\ h = Onward(l, w)  OBVIOUS
    <3>2. k \in A!Inserted(set, h) \/ (h.prefix = k.prefix /\ h \in A!Inserted(set, h) /\ ~ k.cost <= h.cost)
      <4>1. \A g \in set : g \in A!Inserted(set, h) \/ (h.prefix = g.prefix /\ h \in A!Inserted(set, h) /\ ~ g.cost <= h.cost)
        BY InsertedIs
      <4> QED BY <3>1, <4>1
    <3>3. h.cost \in Int  BY <2>3, <3>1 DEF IsLabel
    <3>4. A!Relaxed(l)[w] = A!Inserted(set, h)  BY <2>3, <3>1
    <3> QED BY <2>1, <3>2, <3>3, <3>4
  <2> QED BY <2>2, <2>3, RelaxedIs
<1>2. ASSUME NEW w \in Acyclic.vertices,
             A!EdgeTo(at, w) \in A!Outgoing(at), ~ A!contains(l.prefix, w.vertex)
      PROVE  \E m \in A!Relaxed(l)[w] : /\ m.prefix = A!LastOf(Append(l.prefix, w.vertex), Size)
                                        /\ m.cost <= l.cost + costs[A!EdgeTo(at, w)]
  <2>1. A!Relaxed(l)[w] = A!Inserted(acyclicLabels[w], Onward(l, w))
    BY <1>2 DEF A!Relaxed, Onward
  <2>2. PICK set, h : set = acyclicLabels[w] /\ h = Onward(l, w)  OBVIOUS
  <2>3. PICK m \in A!Inserted(set, h) : m.prefix = h.prefix /\ (m = h \/ m.cost <= h.cost)  BY InsertedIs
  <2>4. /\ h.prefix = A!LastOf(Append(l.prefix, w.vertex), Size)
        /\ h.cost = l.cost + costs[A!EdgeTo(at, w)]
    BY <2>2 DEF Onward, A!label
  <2>5. h.cost \in Int
    <3>1. l.cost \in Int  BY DEF AcyclicTypes, IsLabel
    <3>2. costs[A!EdgeTo(at, w)] \in Int  BY <1>2, AcyclicArguments DEF A!Outgoing
    <3> QED BY <2>4, <3>1, <3>2
  <2>6. m.cost <= h.cost  BY <2>3, <2>5
  <2> QED BY <2>1, <2>2, <2>3, <2>4, <2>6
<1> QED BY <1>1, <1>2

\* The steps of the search.
LEMMA AcyclicSettledStep ==
  ASSUME AcyclicTypes, AcyclicTypes', AcyclicOrder, AcyclicAnswers, AcyclicSettled, A!HoleFreeSearch
  PROVE  AcyclicSettled'
<1>0. UNCHANGED <<costs, request, pos, trail, spent>>  BY SearchKeeps
<1>1. bestValue \in Int /\ BoundsInv  BY BestIsNumber DEF AcyclicAnswers
<1>2. /\ A!sourceLabel \in acyclicLabels[A!Start]
      /\ trail \in Seq(Names) /\ Len(trail) \in 1 .. Size
      /\ otherPc # "done" => pos = A!Start /\ trail = <<Root>> /\ spent = 0
  BY DEF AcyclicSettled
<1>3. otherPc # "done"
  BY AcyclicSteps
<1>4. (A!sourceLabel \in acyclicLabels[A!Start])' =>
        /\ (trail \in Seq(Names) /\ Len(trail) \in 1 .. Size)'
        /\ (otherPc # "done" => pos = A!Start /\ trail = <<Root>> /\ spent = 0)'
        /\ AcyclicServes(pos, trail, spent)'
  <2>1. pos' = A!Start /\ trail' = <<Root>> /\ spent' = 0  BY <1>0, <1>2, <1>3
  <2>2. (A!Start)' = A!Start /\ (A!sourceLabel)' = A!sourceLabel  BY DEF A!Start, A!sourceLabel, A!label
  <2>3. A!sourceLabel.prefix = <<Root>> /\ A!sourceLabel.cost = 0  BY DEF A!sourceLabel, A!label
  <2>4. A!sourceLabel \in acyclicLabels'[A!Start] => AcyclicServes(pos, trail, spent)'
    <3> SUFFICES ASSUME A!sourceLabel \in acyclicLabels'[A!Start]
                 PROVE  AcyclicServes(pos, trail, spent)'
        OBVIOUS
    <3>1. \A p, x : (Allows(p, x))' <=> Allows(p, x)  BY DEF Allows, A!contains, A!LastOf
    <3>2. \A x \in Extensions : Allows(<<Root>>, x) =>
            \E m \in acyclicLabels'[A!Start] : m.cost <= 0 /\ Allows(m.prefix, x)
      BY <2>3
    <3>3. \A x \in Extensions : (Allows(trail, x))' =>
            \E m \in acyclicLabels'[pos'] : m.cost <= spent' /\ Allows(m.prefix, x)
      BY <2>1, <3>1, <3>2
    <3>4. \A x \in Extensions : (Allows(trail, x))' =>
            \E m \in acyclicLabels'[pos'] : m.cost <= spent' /\ (Allows(m.prefix, x))'
      BY <3>1, <3>3
    <3> QED BY <3>4 DEF AcyclicServes, Extensions, Universe
  <2> QED BY <1>0, <1>2, <2>1, <2>2, <2>4
<1>5. CASE /\ otherPc = "bounds" /\ UNCHANGED <<otherPc, acyclicLabels>>
  BY <1>2, <1>4, <1>5 DEF AcyclicSettled, A!Start, A!sourceLabel, A!label
<1>6. CASE /\ otherPc = "bounds" /\ todo' = Acyclic.vertices /\ UNCHANGED acyclicLabels
  BY <1>2, <1>4, <1>6 DEF AcyclicSettled, A!Start, A!sourceLabel, A!label
<1>7. ASSUME otherPc = "search", UNCHANGED <<bounds, acyclicLabels, allPaths, valuedPaths>>
      PROVE  \A v \in Acyclic.vertices : \A l \in acyclicLabels[v] : SettledAt(v, l) => SettledAt(v, l)'
  <2>1. bestValue' = bestValue /\ bestValue <= bestValue  BY <1>1, <1>7 DEF bestValue
  <2>2. \A w \in Acyclic.vertices : \A k \in acyclicLabels[w] :
          \E m \in acyclicLabels'[w] : m.prefix = k.prefix /\ m.cost <= k.cost
    BY <1>7 DEF AcyclicTypes, IsLabel
  <2> QED BY <1>0, <1>1, <1>7, <2>1, <2>2, SettledStays
<1>8. CASE /\ otherPc = "search" /\ UNCHANGED <<otherPc, bounds, acyclicLabels, allPaths, valuedPaths>>
           /\ \E v \in Acyclic.vertices : A!Arrive(v)
  <2>1. PICK v \in Acyclic.vertices : A!Arrive(v)  BY <1>8
  <2>2. /\ open = {} /\ todo' = todo \ {v} /\ at' = v
        /\ open' = IF A!IsEnd(v) /\ ~ A!InWindow(v) THEN {} ELSE acyclicLabels[v]
    BY <2>1 DEF A!Arrive, A!Visit
  <2>3. ASSUME NEW w \in Acyclic.vertices \ todo', NEW l \in acyclicLabels'[w], ~ (w = at' /\ l \in open')
        PROVE  SettledAt(w, l)'
    <3>1. l \in acyclicLabels[w]  BY <1>8
    <3>2. CASE w = v
      <4>1. A!IsEnd(v) /\ ~ A!InWindow(v)  BY <2>2, <2>3, <3>1, <3>2
      <4>2. SettledAt(w, l)  BY <3>2, <4>1 DEF SettledAt
      <4> QED BY <1>7, <1>8, <3>1, <4>2
    <3>3. CASE w # v
      <4>1. SettledAt(w, l)  BY <1>8, <2>2, <3>1, <3>3 DEF AcyclicSettled
      <4> QED BY <1>7, <1>8, <3>1, <4>1
    <3> QED BY <3>2, <3>3
  <2>4. (A!sourceLabel \in acyclicLabels[A!Start])'  BY <1>2, <1>8 DEF A!Start, A!sourceLabel, A!label
  <2> QED BY <1>4, <2>3, <2>4 DEF AcyclicSettled
<1>9. CASE /\ otherPc = "search" /\ otherPc' = "done" /\ todo = {} /\ open = {}
           /\ UNCHANGED <<todo, bounds, acyclicLabels, at, open, allPaths, valuedPaths>>
  <2>1. (A!sourceLabel \in acyclicLabels[A!Start])'  BY <1>2, <1>9 DEF A!Start, A!sourceLabel, A!label
  <2>2. \A v \in Acyclic.vertices \ todo' : \A l \in acyclicLabels'[v] : SettledAt(v, l)'
    BY <1>7, <1>9 DEF AcyclicSettled
  <2> QED BY <1>4, <2>1, <2>2 DEF AcyclicSettled
<1>10. ASSUME NEW l \in open, otherPc = "search", UNCHANGED <<otherPc, bounds, todo, at>>, open' = open \ {l},
              bestValue' \in Int, bestValue' <= bestValue,
              UNCHANGED acyclicLabels \/ acyclicLabels' = A!Relaxed(l),
              SettledAt(at, l)'
       PROVE  AcyclicSettled'
  <2>1. at \in Acyclic.vertices /\ at \notin todo /\ \A w \in Acyclic.vertices : w.time \in Nat
    BY AcyclicVertices DEF AcyclicTypes, AcyclicOrder
  <2>2. \A w \in Acyclic.vertices \ todo : acyclicLabels'[w] = acyclicLabels[w]
    BY <1>10, RelaxedElsewhere DEF AcyclicAnswers
  <2>3. \A w \in Acyclic.vertices : \A k \in acyclicLabels[w] :
          \E m \in acyclicLabels'[w] : m.prefix = k.prefix /\ m.cost <= k.cost
    <3>1. CASE UNCHANGED acyclicLabels  BY <3>1 DEF AcyclicTypes, IsLabel
    <3>2. CASE acyclicLabels' = A!Relaxed(l)  BY <3>2, RelaxedGrows
    <3> QED BY <1>10, <3>1, <3>2
  <2>4. ASSUME NEW w \in Acyclic.vertices \ todo', NEW k \in acyclicLabels'[w], ~ (w = at' /\ k \in open')
        PROVE  SettledAt(w, k)'
    <3>1. k \in acyclicLabels[w] /\ w \notin todo /\ acyclicLabels'[w] = acyclicLabels[w]  BY <1>10, <2>2
    <3>2. CASE w = at /\ k = l
      <4>1. w = at' /\ SettledAt(at, l)'  BY <1>10, <3>2
      <4> QED BY <3>2, <4>1 DEF SettledAt
    <3>3. CASE ~ (w = at /\ k = l)
      <4>1. SettledAt(w, k)  BY <1>10, <2>4, <3>1, <3>3 DEF AcyclicSettled
      <4> QED BY <1>0, <1>1, <1>10, <2>3, <3>1, <4>1, SettledStays
    <3> QED BY <3>2, <3>3
  <2>5. (A!sourceLabel \in acyclicLabels[A!Start])'
    <3>1. acyclicLabels'[A!Start] = acyclicLabels[A!Start]
      <4>1. CASE UNCHANGED acyclicLabels  BY <4>1
      <4>2. CASE acyclicLabels' = A!Relaxed(l)
        <5>1. A!Start.time <= at.time  BY <2>1, AcyclicVertices
        <5> QED BY <4>2, <5>1, RelaxedElsewhere, AcyclicVertices
      <4> QED BY <1>10, <4>1, <4>2
    <3> QED BY <1>2, <3>1 DEF A!Start, A!sourceLabel, A!label
  <2> QED BY <1>4, <2>4, <2>5 DEF AcyclicSettled
<1>11. CASE /\ otherPc = "search" /\ UNCHANGED <<otherPc, bounds, todo, at>>
            /\ \E l \in open : /\ open' = open \ {l}
                               /\ \/ A!Close(l) /\ UNCHANGED acyclicLabels
                                  \/ A!Discard(l) /\ UNCHANGED acyclicLabels
                                  \/ /\ ~ A!IsEnd(at) /\ ~ A!Hopeless(l) /\ A!OfferExtended(l)
                                     /\ \/ UNCHANGED acyclicLabels /\ request.holeFree /\ A!isDominated(l)
                                        \/ acyclicLabels' = A!Relaxed(l)
  <2>1. PICK l \in open :
          /\ open' = open \ {l}
          /\ \/ A!Close(l) /\ UNCHANGED acyclicLabels
             \/ A!Discard(l) /\ UNCHANGED acyclicLabels
             \/ /\ ~ A!IsEnd(at) /\ ~ A!Hopeless(l) /\ A!OfferExtended(l)
                /\ \/ UNCHANGED acyclicLabels /\ request.holeFree /\ A!isDominated(l)
                   \/ acyclicLabels' = A!Relaxed(l)
    BY <1>11
  <2>2. /\ at \in Acyclic.vertices /\ l \in acyclicLabels[at] /\ l.cost \in Int /\ bounds[at].cost \in Int
        /\ IsLabel(l, at)
    BY <1>1 DEF AcyclicTypes, IsLabel, BoundsInv, BoundLink
  <2>3. CASE A!Close(l) /\ UNCHANGED acyclicLabels
    <3>1. bestValue' = IF l.cost < request.cutoff /\ l.cost < bestValue THEN l.cost ELSE bestValue
      BY <1>0, <2>3, CloseFinds
    <3>2. bestValue' \in Int /\ bestValue' <= bestValue /\ (l.cost < request.cutoff => bestValue' <= l.cost)
      BY <1>1, <2>2, <3>1
    <3>3. A!IsEnd(at)  BY <2>3 DEF A!Close
    <3>4. SettledAt(at, l)'  BY <1>0, <1>11, <3>2, <3>3 DEF SettledAt, A!IsEnd, A!InWindow
    <3> QED BY <1>10, <1>11, <2>1, <2>3, <3>2, <3>4
  <2>4. CASE A!Discard(l) /\ UNCHANGED acyclicLabels
    <3>1. ~ A!IsEnd(at) /\ A!Hopeless(l) /\ UNCHANGED valuedPaths  BY <2>4 DEF A!Discard, A!pathSetVars
    <3>2. bestValue' = bestValue /\ bestValue <= bestValue  BY <1>1, <3>1 DEF bestValue
    <3>3. bounds[at].cost = Inf \/ bestValue < bounds[at].cost + l.cost
      BY <1>1, <2>2, <3>1, SharedPaths DEF A!Hopeless
    <3>4. SettledAt(at, l)'  BY <1>11, <3>1, <3>2, <3>3 DEF SettledAt, A!IsEnd
    <3> QED BY <1>1, <1>10, <1>11, <2>1, <2>4, <3>2, <3>4
  <2>5. CASE /\ ~ A!IsEnd(at) /\ ~ A!Hopeless(l) /\ A!OfferExtended(l)
             /\ \/ UNCHANGED acyclicLabels /\ request.holeFree /\ A!isDominated(l)
                \/ acyclicLabels' = A!Relaxed(l)
    <3>1. bounds[at].cost # Inf  BY <2>5 DEF A!Hopeless
    <3>2. bestValue' \in Int /\ bestValue' <= bestValue  BY <1>0, <2>5, <3>1, OfferExtendedFinds
    <3>3. CASE UNCHANGED acyclicLabels /\ request.holeFree /\ A!isDominated(l)
      <4>1. A!Rivals(l) = {m \in acyclicLabels[at] : m # l /\ m.cost <= l.cost}  BY DEF A!Rivals
      <4>2. IsFiniteSet(A!Rivals(l))
        <5>1. IsFiniteSet(acyclicLabels[at])  BY <2>2 DEF AcyclicTypes
        <5>2. A!Rivals(l) \subseteq acyclicLabels[at]  BY <4>1
        <5> QED BY <5>1, <5>2, FS_Subset
      <4>3. \A m \in A!Rivals(l) : m.prefix \in Seq(Universe) /\ Len(m.prefix) \in 1 .. Size
        BY <2>2, <4>1 DEF AcyclicTypes, IsLabel, Universe
      <4>4. l.prefix \in Seq(Universe) /\ Len(l.prefix) \in 1 .. Size  BY <2>2 DEF IsLabel, Universe
      <4>5. \A x \in [1 .. Size -> Universe] : Allows(l.prefix, x) => \E m \in A!Rivals(l) : Allows(m.prefix, x)
        BY <3>3, <4>2, <4>3, <4>4, DominanceLosesNothing
      <4>6. Dispensable(at, l)  BY <3>3, <4>1, <4>5 DEF Dispensable, Extensions
      <4>7. Dispensable(at, l)'
        BY <1>0, <1>11, <3>3, <4>6 DEF Dispensable, Extensions, Allows, A!contains, A!LastOf
      <4>8. SettledAt(at, l)'  BY <1>11, <2>5, <4>7 DEF SettledAt, A!IsEnd
      <4> QED BY <1>10, <1>11, <2>1, <3>2, <3>3, <4>8
    <3>4. CASE acyclicLabels' = A!Relaxed(l)
      <4>1. AcyclicUsable' = AcyclicUsable  BY <1>0 DEF AcyclicUsable, A!Usable
      <4>2. ASSUME NEW e \in AcyclicUsable, e.source = at, ~ A!contains(l.prefix, e.target.vertex)
            PROVE  \E m \in acyclicLabels'[e.target] :
                     /\ m.prefix = A!LastOf(Append(l.prefix, e.target.vertex), Size)
                     /\ m.cost <= l.cost + costs[e]
        <5>1. e.target \in Acyclic.vertices /\ A!EdgeTo(at, e.target) = e /\ e \in A!Outgoing(at)
          BY <4>2, AcyclicEdges DEF AcyclicUsable, A!Outgoing
        <5> QED BY <3>4, <4>2, <5>1, RelaxedGrows
      <4>3. Extended(at, l)'  BY <1>0, <1>11, <4>1, <4>2 DEF Extended, A!contains, A!LastOf
      <4>4. SettledAt(at, l)'  BY <1>11, <2>5, <4>3 DEF SettledAt, A!IsEnd
      <4> QED BY <1>10, <1>11, <2>1, <3>2, <3>4, <4>4
    <3> QED BY <2>5, <3>3, <3>4
  <2> QED BY <2>1, <2>3, <2>4, <2>5
<1> QED BY <1>5, <1>6, <1>8, <1>9, <1>11, AcyclicSteps

\* Of finitely many labels one costs least.
LEMMA CheapestExists ==
  ASSUME NEW D, IsFiniteSet(D), D # {}, \A d \in D : d.cost \in Int
  PROVE  \E m \in D : \A d \in D : m.cost <= d.cost
<1> DEFINE T == {t \in SUBSET D : t # {} /\ \A a \in t, b \in D : b.cost <= a.cost => b \in t}
<1>1. D \in T  OBVIOUS
<1>2. T \in SUBSET SUBSET D /\ T # {}  BY <1>1
<1>3. \A t \in SUBSET D : t \in T <=> t # {} /\ \A a \in t, b \in D : b.cost <= a.cost => b \in t
  OBVIOUS
<1> HIDE DEF T
<1>4. PICK s \in T : s \in SUBSET D /\ \A t \in SUBSET s : t # s => t \notin T
  BY <1>2, LeastSubsetExists
<1>5. PICK m \in s : m \in D  BY <1>3, <1>4
<1> DEFINE t == {b \in s : b.cost < m.cost}
<1>6. t \in SUBSET s /\ t \in SUBSET D /\ m \notin t /\ m.cost \in Int  BY <1>4, <1>5
<1>7. t \notin T  BY <1>4, <1>5, <1>6
<1>8. \A a \in t, b \in D : b.cost <= a.cost => b \in t
  <2> SUFFICES ASSUME NEW a \in t, NEW b \in D, b.cost <= a.cost PROVE b \in t
    OBVIOUS
  <2>1. b \in s  BY <1>3, <1>4
  <2>2. a.cost \in Int /\ b.cost \in Int /\ a.cost < m.cost  BY <1>6
  <2>3. b.cost < m.cost  BY <1>6, <2>2
  <2> QED BY <2>1, <2>3
<1>9. t = {}  BY <1>3, <1>6, <1>7, <1>8
<1>10. ASSUME NEW d \in D PROVE m.cost <= d.cost
  <2>1. d.cost \in Int  OBVIOUS
  <2>2. CASE d \in s
    <3>1. ~ (d.cost < m.cost)  BY <1>9, <2>2
    <3> QED BY <1>6, <2>1, <3>1
  <2>3. CASE d \notin s
    <3>1. ~ (d.cost <= m.cost)  BY <1>3, <1>4, <1>5, <2>3
    <3> QED BY <1>6, <2>1, <3>1
  <2> QED BY <2>2, <2>3
<1> QED BY <1>5, <1>10

\* When the rival goes on, the cheapest label that does what he does next is
\* settled, and what it was extended to does what he can do from there.
LEMMA WalkIsServed ==
  ASSUME AcyclicTypes, AcyclicOrder, AcyclicAnswers, AcyclicSettled, otherPc = "done",
         request.holeFree => A!NoTies,
         NEW e \in AcyclicUsable, e.source = pos, ~ A!contains(trail, e.target.vertex)
  PROVE  AcyclicServes(e.target, A!LastOf(Append(trail, e.target.vertex), Size), spent + costs[e])
<1> DEFINE v == e.source
           w == e.target
           name == w.vertex
           c == costs[e]
<1>1. /\ v \in Acyclic.vertices /\ w \in Acyclic.vertices /\ ~ A!IsEnd(v) /\ c \in Int
      /\ name \in Names /\ v = pos
  BY AcyclicEdges, AcyclicArguments, AcyclicVertices DEF AcyclicUsable
<1>2. BoundsInv /\ bestValue \in Int  BY BestIsNumber DEF AcyclicAnswers
<1>3. spent \in Int /\ bounds[v].cost \in Int /\ bounds[w].cost \in Int /\ bounds[w].cost <= Inf
      /\ Inf \in Int /\ (\A l \in acyclicLabels[v] : IsLabel(l, v) /\ l.cost \in Int)
      /\ IsFiniteSet(acyclicLabels[v])
  BY <1>1, <1>2, InfAssumption DEF AcyclicTypes, BoundsInv, BoundLink, IsLabel
<1>4. AcyclicServes(v, trail, spent) /\ trail \in Seq(Names) /\ Len(trail) \in 1 .. Size
      /\ (\A l \in acyclicLabels[v] : SettledAt(v, l))
  BY <1>1 DEF AcyclicSettled, AcyclicOrder
<1>5. SUFFICES ASSUME bounds[w].cost < Inf, ~ (bestValue <= spent + c + bounds[w].cost),
                      NEW x \in Extensions, Allows(A!LastOf(Append(trail, name), Size), x)
               PROVE  \E m \in acyclicLabels[w] :
                        m.cost <= spent + c /\ Allows(m.prefix, x)
  BY <1>3 DEF AcyclicServes
<1>6. bounds[v].cost <= bounds[w].cost + c /\ bounds[v].cost < Inf
  BY <1>2, <1>5, BoundsLeadBack
<1>7. ~ (bestValue <= spent + bounds[v].cost)  BY <1>1, <1>2, <1>3, <1>5, <1>6
<1>8. name \in Universe /\ x \in [1 .. Size -> Universe] /\ Seq(Names) \subseteq Seq(Universe)
  BY <1>1 DEF Universe, Extensions
<1> DEFINE y == Shifted(name, x)
           next(prefix) == A!LastOf(Append(prefix, name), Size)
<1> HIDE DEF v, w, name, c
<1>9. ASSUME NEW prefix \in Seq(Names), Len(prefix) \in 1 .. Size
      PROVE  /\ y \in Extensions
             /\ ~ A!contains(prefix, name) /\ Allows(next(prefix), x) <=>
                  Allows(prefix, y) /\ Distinct(x) /\ \A i \in 1 .. Size : x[i] # name
  <2>1. prefix \in Seq(Universe)  BY <1>8
  <2> QED BY <1>8, <1>9, <2>1, ShiftIs DEF Extensions
<1> HIDE DEF y, next
<1>10. /\ y \in Extensions /\ Allows(trail, y)
       /\ Distinct(x) /\ \A i \in 1 .. Size : x[i] # name
  <2>1. Allows(next(trail), x)  BY <1>5 DEF next
  <2>2. ~ A!contains(trail, name)  BY DEF name, w
  <2> QED BY <1>4, <1>9, <2>1, <2>2
<1> DEFINE C == {m \in acyclicLabels[v] : m.cost <= spent /\ Allows(m.prefix, y)}
<1>11. C # {} /\ IsFiniteSet(C) /\ \A m \in C : m.cost \in Int
  <2>1. \E m \in acyclicLabels[v] : m.cost <= spent /\ Allows(m.prefix, y)
    BY <1>3, <1>4, <1>6, <1>7, <1>10 DEF AcyclicServes
  <2>2. IsFiniteSet(C)  BY <1>3, FS_Subset
  <2> QED BY <1>3, <2>1, <2>2
<1>12. PICK m \in C : \A d \in C : m.cost <= d.cost
  <2> HIDE DEF C
  <2> QED BY <1>11, CheapestExists
<1>13. m \in acyclicLabels[v] /\ m.cost <= spent /\ Allows(m.prefix, y) /\ m.cost \in Int
       /\ m.prefix \in Seq(Names) /\ Len(m.prefix) \in 1 .. Size
  BY <1>3, <1>12 DEF IsLabel
<1>14. ~ A!contains(m.prefix, name) /\ Allows(next(m.prefix), x)
  BY <1>9, <1>10, <1>13
<1>15. ~ (bestValue < bounds[v].cost + m.cost)  BY <1>2, <1>3, <1>7, <1>13
<1>16. bounds[v].cost # Inf  BY <1>3, <1>6
<1>17. Extended(v, m) \/ Dispensable(v, m)  BY <1>1, <1>4, <1>13, <1>15, <1>16 DEF SettledAt
<1>18. CASE Extended(v, m)
  <2>1. e.source = v /\ ~ A!contains(m.prefix, e.target.vertex)  BY <1>14 DEF v, w, name
  <2>2. PICK k \in acyclicLabels[w] : k.prefix = next(m.prefix) /\ k.cost <= m.cost + c
    BY <1>18, <2>1 DEF Extended, w, name, c, next
  <2>3. k.cost \in Int  BY <1>1, <2>2 DEF AcyclicTypes, IsLabel, w
  <2>4. k.cost <= spent + c  BY <1>1, <1>3, <1>13, <2>2, <2>3
  <2> QED BY <1>14, <2>2, <2>4
<1>19. CASE Dispensable(v, m)
  <2>1. PICK d \in acyclicLabels[v] : d # m /\ d.cost <= m.cost /\ Allows(d.prefix, y)
    BY <1>10, <1>13, <1>19 DEF Dispensable
  <2>2. d.cost \in Int /\ d.cost <= spent  BY <1>3, <1>13, <2>1
  <2>3. d.cost = m.cost  BY <1>12, <1>13, <2>1, <2>2
  <2>4. A!NoTies  BY <1>19 DEF Dispensable
  <2> QED BY <1>1, <1>13, <2>1, <2>3, <2>4 DEF A!NoTies
<1> QED BY <1>17, <1>18, <1>19

\* What is settled depends on what the search leaves behind.
LEMMA SettledLasts ==
  ASSUME UNCHANGED <<costs, request, bounds, acyclicLabels, allPaths, valuedPaths>>
  PROVE  /\ \A v \in Acyclic.vertices : \A l \in acyclicLabels[v] : SettledAt(v, l) => (SettledAt(v, l))'
         /\ \A v, prefix, c : AcyclicServes(v, prefix, c) => (AcyclicServes(v, prefix, c))'
         /\ A!NoTies' => A!NoTies
<1>1. bestValue' = bestValue  BY DEF bestValue
<1>2. \A p, x : (Allows(p, x))' <=> Allows(p, x)  BY DEF Allows, A!contains, A!LastOf
<1>3. Extensions' = Extensions /\ AcyclicUsable' = AcyclicUsable
  BY DEF Extensions, Universe, Names, Stranger, AcyclicUsable, A!Usable
<1>4. \A v, l : (SettledAt(v, l))' <=>
        IF A!IsEnd(v) THEN A!InWindow(v) /\ l.cost < request.cutoff => bestValue <= l.cost
        ELSE \/ bounds[v].cost = Inf
             \/ bestValue < bounds[v].cost + l.cost
             \/ (Extended(v, l))'
             \/ (Dispensable(v, l))'
  BY <1>1 DEF SettledAt, A!IsEnd, A!InWindow
<1>5. \A v, l : Extended(v, l) => (Extended(v, l))'
  BY <1>3 DEF Extended, A!contains, A!LastOf
<1>6. \A v, l : Dispensable(v, l) => (Dispensable(v, l))'
  BY <1>2, <1>3 DEF Dispensable
<1>7. \A v, l : SettledAt(v, l) => (SettledAt(v, l))'
  BY <1>4, <1>5, <1>6 DEF SettledAt
<1>8. \A v, prefix, c : AcyclicServes(v, prefix, c) => (AcyclicServes(v, prefix, c))'
  BY <1>1, <1>2, <1>3 DEF AcyclicServes
<1>9. A!NoTies' => A!NoTies  BY DEF A!NoTies
<1> QED BY <1>7, <1>8, <1>9

LEMMA AcyclicRivalSettled ==
  ASSUME AcyclicTypes, AcyclicOrder, AcyclicAnswers, AcyclicSettled, A!Rival
  PROVE  AcyclicSettled'
<1>1. PICK e \in Acyclic.edges : A!Walk(e, Size) /\ UNCHANGED A!searchVars
  BY DEF A!Rival
<1>2. /\ otherPc = "done" /\ e \in AcyclicUsable /\ e.source = pos /\ ~ A!contains(trail, e.target.vertex)
      /\ pos' = e.target /\ trail' = A!LastOf(Append(trail, e.target.vertex), Size)
      /\ spent' = spent + costs[e]
  BY <1>1 DEF A!Walk, A!Outgoing, A!contains, AcyclicUsable
<1>3. UNCHANGED <<costs, request, otherPc, todo, bounds, acyclicLabels, at, open, allPaths, valuedPaths>>
  BY <1>1 DEF A!Walk, A!arguments, A!searchVars, A!pathSetVars
<1>4. trail \in Seq(Names) /\ Len(trail) \in 1 .. Size /\ A!sourceLabel \in acyclicLabels[A!Start]
  BY DEF AcyclicSettled
<1>5. trail' \in Seq(Names) /\ Len(trail') \in 1 .. Size
  <2>1. PICK name : name = e.target.vertex  OBVIOUS
  <2>2. name \in Names  BY <1>2, <2>1, AcyclicEdges, AcyclicVertices
  <2>3. PICK s, n : s = trail /\ n = name  OBVIOUS
  <2>4. PICK x : x = [i \in 1 .. Size |-> name]  OBVIOUS
  <2>5. x \in [1 .. Size -> Names]  BY <2>2, <2>4
  <2>6. A!LastOf(Append(trail, name), Size) \in Seq(Names) /\ Len(A!LastOf(Append(trail, name), Size)) \in 1 .. Size
    BY <1>4, <2>2, <2>5, ShiftIs
  <2> QED BY <1>2, <2>1, <2>6
<1>6. (A!sourceLabel \in acyclicLabels[A!Start])'
  BY <1>3, <1>4 DEF A!sourceLabel, A!label, A!Start
<1>7. (otherPc # "bounds" =>
         \A v \in Acyclic.vertices \ todo : \A l \in acyclicLabels[v] : (v = at /\ l \in open) \/ SettledAt(v, l))'
  <2>1. \A v \in Acyclic.vertices \ todo : \A l \in acyclicLabels[v] :
          (v = at /\ l \in open) \/ SettledAt(v, l)
    BY <1>2 DEF AcyclicSettled
  <2>2. \A v \in Acyclic.vertices : \A l \in acyclicLabels[v] : SettledAt(v, l) => (SettledAt(v, l))'
    BY <1>3, SettledLasts
  <2> QED BY <1>3, <2>1, <2>2
<1>8. ((request.holeFree => A!NoTies) => AcyclicServes(pos, trail, spent))'
  <2> SUFFICES ASSUME (request.holeFree => A!NoTies)' PROVE (AcyclicServes(pos, trail, spent))'
    OBVIOUS
  <2>1. request.holeFree => A!NoTies  BY <1>3, SettledLasts
  <2>2. PICK v, prefix, c : /\ v = e.target /\ prefix = A!LastOf(Append(trail, e.target.vertex), Size)
                            /\ c = spent + costs[e]
    OBVIOUS
  <2>3. AcyclicServes(v, prefix, c)  BY <1>2, <2>1, <2>2, WalkIsServed
  <2>4. (AcyclicServes(v, prefix, c))'  BY <1>3, <2>3, SettledLasts
  <2>5. pos' = v /\ trail' = prefix /\ spent' = c  BY <1>2, <2>2
  <2> QED BY <2>4, <2>5 DEF AcyclicServes
<1>9. (otherPc # "done" => pos = A!Start /\ trail = <<Root>> /\ spent = 0)'  BY <1>2, <1>3
<1> QED BY <1>5, <1>6, <1>7, <1>8, <1>9 DEF AcyclicSettled

LEMMA AcyclicSettledStutter ==
  ASSUME AcyclicSettled, UNCHANGED A!vars
  PROVE  AcyclicSettled'
<1>1. UNCHANGED <<costs, request, otherPc, todo, bounds, acyclicLabels, at, open, allPaths, valuedPaths,
                  pos, trail, spent>>
  BY DEF A!vars, A!arguments, A!searchVars, A!rivalVars, A!pathSetVars
<1>2. (otherPc # "bounds" =>
         \A v \in Acyclic.vertices \ todo : \A l \in acyclicLabels[v] : (v = at /\ l \in open) \/ SettledAt(v, l))'
  <2>1. \A v \in Acyclic.vertices : \A l \in acyclicLabels[v] : SettledAt(v, l) => (SettledAt(v, l))'
    BY <1>1, SettledLasts
  <2> QED BY <1>1, <2>1 DEF AcyclicSettled
<1>3. ((request.holeFree => A!NoTies) => AcyclicServes(pos, trail, spent))'
  <2> SUFFICES ASSUME (request.holeFree => A!NoTies)' PROVE (AcyclicServes(pos, trail, spent))'
    OBVIOUS
  <2>1. AcyclicServes(pos, trail, spent)  BY <1>1, SettledLasts DEF AcyclicSettled
  <2>2. PICK v, prefix, c : v = pos /\ prefix = trail /\ c = spent  OBVIOUS
  <2>3. AcyclicServes(v, prefix, c)  BY <2>1, <2>2
  <2>4. (AcyclicServes(v, prefix, c))'  BY <1>1, <2>3, SettledLasts
  <2> QED BY <1>1, <2>2, <2>4 DEF AcyclicServes
<1>4. (A!sourceLabel \in acyclicLabels[A!Start])'
  BY <1>1 DEF AcyclicSettled, A!sourceLabel, A!label, A!Start
<1>5. (trail \in Seq(Names) /\ Len(trail) \in 1 .. Size)'
      /\ (otherPc # "done" => pos = A!Start /\ trail = <<Root>> /\ spent = 0)'
  BY <1>1 DEF AcyclicSettled, A!Start
<1> QED BY <1>2, <1>3, <1>4, <1>5 DEF AcyclicSettled

\* When the rival arrives, the end has a label that cost no more; it was offered.
LEMMA AcyclicIsBeaten ==
  ASSUME AcyclicTypes, AcyclicOrder, AcyclicAnswers, AcyclicSettled
  PROVE  A!RivalBeatenUnlessTied
<1> SUFFICES ASSUME request.holeFree => A!NoTies, A!Arrived PROVE bestValue <= spent
  BY SharedPaths DEF A!RivalBeatenUnlessTied, A!RivalBeaten
<1>1. /\ otherPc = "done" /\ todo = {} /\ open = {} /\ A!IsEnd(pos) /\ A!InWindow(pos)
      /\ spent < request.cutoff
  BY DEF A!Arrived, A!InWindow, AcyclicOrder
<1>2. /\ BoundsInv /\ bestValue \in Int /\ spent \in Int /\ request.cutoff \in Int /\ Inf \in Nat \ {0}
      /\ pos \in Acyclic.vertices
  BY BestIsNumber, AcyclicArguments DEF AcyclicAnswers, AcyclicTypes
<1>3. bounds[pos].cost = 0
  <2>1. BoundLink(pos)  BY <1>2 DEF BoundsInv
  <2>2. ~ (bounds[pos].edge \in AcyclicUsable /\ bounds[pos].edge.source = pos)
    BY <1>1, AcyclicEdges DEF AcyclicUsable
  <2> QED BY <1>1, <2>1, <2>2 DEF BoundLink
<1>4. AcyclicServes(pos, trail, spent) /\ trail \in Seq(Names) /\ Len(trail) \in 1 .. Size
      /\ (\A l \in acyclicLabels[pos] : SettledAt(pos, l))
  BY <1>1, <1>2 DEF AcyclicSettled
<1>5. PICK x \in Extensions : Allows(trail, x)  BY <1>4, StrangersAreFree DEF Extensions
<1>6. CASE bestValue <= spent + bounds[pos].cost  BY <1>2, <1>3, <1>6
<1>7. CASE ~ (bestValue <= spent + bounds[pos].cost)
  <2>1. PICK m \in acyclicLabels[pos] : m.cost <= spent
    BY <1>2, <1>3, <1>4, <1>5, <1>7 DEF AcyclicServes
  <2>2. m.cost \in Int  BY <1>2 DEF AcyclicTypes, IsLabel
  <2>3. m.cost < request.cutoff  BY <1>1, <1>2, <2>1, <2>2
  <2>4. bestValue <= m.cost  BY <1>1, <1>4, <2>3 DEF SettledAt
  <2> QED BY <1>2, <2>1, <2>2, <2>4
<1> QED BY <1>6, <1>7

-----------------------------------------------------------------------------
\* The invariants of the routers under the calls of the pricers.
RoutersInv ==
  /\ router \in {"twoCycleFree", "simple", "acyclic"}
  /\ router # "twoCycleFree" => pc = "idle"
  /\ router = "twoCycleFree" => IInv /\ AnswersFound
  /\ router = "simple" => SimpleInv /\ SimpleAnswers
  /\ router = "acyclic" => AcyclicTypes /\ AcyclicOrder /\ AcyclicAnswers /\ AcyclicSettled

LEMMA RoutersInitInvariant == RoutersInit => RoutersInv
<1>1. AskTwoCycleFree => RoutersInv
  BY InitInvariant, AnswersInit DEF AskTwoCycleFree, RoutersInv
<1>2. AskSimple => RoutersInv
  BY SimpleInitInvariant, SimpleAnswersInit DEF AskSimple, NoTwoCycleFree, RoutersInv
<1>3. AskAcyclic => RoutersInv
  BY AcyclicInit, AcyclicAnswersInit, AcyclicSettledInit DEF AskAcyclic, NoTwoCycleFree, RoutersInv
<1> QED
  BY <1>1, <1>2, <1>3 DEF RoutersInit

LEMMA RoutersNextInvariant == RoutersInv /\ [RoutersNext]_routersVars => RoutersInv'
<1> SUFFICES ASSUME RoutersInv, [RoutersNext]_routersVars PROVE RoutersInv'
  OBVIOUS
<1>1. CASE router = "twoCycleFree" /\ Next /\ UNCHANGED <<router, otherPc, simpleVars, acyclicVars>>
  BY <1>1, NextInvariant, AnswersStep DEF RoutersInv
<1>2. CASE router = "simple" /\ S!Next /\ UNCHANGED <<router, pc, labels, acyclicVars>>
  BY <1>2, SimpleNextInvariant, SimpleAnswersStep DEF RoutersInv
<1>3. CASE router = "acyclic" /\ A!HoleFreeSearch /\ UNCHANGED <<router, pc, labels, simpleVars>>
  BY <1>3, AcyclicSearchStep, AcyclicAnswersStep, AcyclicSettledStep DEF RoutersInv
<1>4. CASE router = "acyclic" /\ A!Rival /\ UNCHANGED <<router, pc, labels, simpleVars>>
  BY <1>4, AcyclicRivalStep, AcyclicAnswersStep, AcyclicRivalSettled DEF RoutersInv
<1>5. CASE UNCHANGED routersVars
  <2>1. UNCHANGED vars /\ UNCHANGED <<router, pc>>
    BY <1>5 DEF routersVars, vars
  <2>2. UNCHANGED S!vars
    BY <1>5 DEF routersVars, vars, simpleVars, S!vars, arguments, S!arguments, pathSetVars, S!pathSetVars,
                rivalVars, S!rivalVars
  <2>3. UNCHANGED A!vars
    BY <1>5 DEF routersVars, vars, acyclicVars, A!vars, arguments, A!arguments, pathSetVars, A!pathSetVars,
                rivalVars, A!rivalVars, A!searchVars
  <2> QED
    BY <2>1, <2>2, <2>3, NextInvariant, AnswersStep, SimpleNextInvariant, SimpleAnswersStep, AcyclicStutter,
       AcyclicAnswersStep, AcyclicSettledStutter DEF RoutersInv
<1> QED
  BY <1>1, <1>2, <1>3, <1>4, <1>5 DEF RoutersNext

\* In every state of every call: the pairs of the two-cycle-free router are valid,
\* as isValid() asserts before and after every update, and serve the traveller over
\* every edge out of a visited vertex; the label of a vertex the loop of the simple
\* router has left can be lowered over no edge.  A label the loop of an acyclic router
\* has looked at could gain nothing, or was extended over every edge, or cheaper ones
\* do what it does.
THEOREM LabelsAreSettled == RoutersSpec => []RoutersInv
  BY RoutersInitInvariant, RoutersNextInvariant, PTL DEF RoutersSpec

\* Two labels a vertex are enough, whatever the network, the costs and the
\* request: wherever a walk without two-cycles leads, one of the two labels there
\* costs no more and may go on where the walk may.
THEOREM TwoLabelsAreEnough == RoutersSpec => []TwoLabelsSuffice
<1>1. RoutersInv => TwoLabelsSuffice
  <2> SUFFICES ASSUME RoutersInv, pc = "done", NEW q \in {v.vertex : v \in TimedVertices},
                      \A i \in 1 .. Len(trail) : trail[i] # q
               PROVE  \E side \in Sides : /\ labels[pos][side].cost <= spent
                                          /\ ~ isEmpty(labels[pos][side])
                                          /\ From(labels[pos][side]) # q
    BY DEF TwoLabelsSuffice
  <2>1. IInv
    BY DEF RoutersInv
  <2>2. q # trail[1]
    BY <2>1 DEF IInv, Types
  <2>3. LeadsTo(labels[pos].left, q, spent) \/ LeadsTo(labels[pos].right, q, spent)
    BY <2>1, <2>2 DEF IInv, Serves
  <2> QED
    BY <2>3 DEF LeadsTo, Sides
<1> QED
  BY <1>1, LabelsAreSettled, PTL

\* Dominance takes nothing from the traveller, whatever the network, the size of
\* the prefixes and the labels: isDominated() of the hole-free router says so of a
\* label only when every extension it allows is allowed by a rival of no higher cost.
THEOREM DominanceIsAlwaysSound == RoutersSpec => []DominanceIsSound
<1>1. RoutersInv => DominanceIsSound
  BY DominatedIsCovered DEF RoutersInv, DominanceIsSound
<1> QED
  BY <1>1, LabelsAreSettled, PTL

\* What a router returns is what was asked for, whatever the network, the costs and
\* the request: different paths from the source back to it, of the router's class, in
\* order for the request, that cost what is noted for them and less than the cutoff -
\* those the acyclic routers complete by the path of a bound among them - and the
\* simple router reports the cost of one it returns, though its heap is cut at an end.
THEOREM AnswersAreAlwaysSound == RoutersSpec => []AnswersAreSound
<1>1. RoutersInv => AnswersAreSound
  BY SimpleAnswersAre, AnswersAre, AcyclicAnswersAre DEF RoutersInv, AnswersAreSound
<1> QED
  BY <1>1, LabelsAreSettled, PTL

\* Nobody who walks the network as the request asks, and as the class of the router
\* does, beats the cost it reports, whatever the network, the costs, the request and
\* the size of the prefixes: not what the bounds hold back, not what a cheaper label
\* of the same prefix replaces, and in the hole-free router, while no labels tie, not
\* what isDominated() drops.
THEOREM NobodyIsEverCheaper == RoutersSpec => []NobodyIsCheaper
<1>1. ASSUME RoutersInv, router = "simple" PROVE S!RivalBeaten
  BY <1>1, SimpleIsBeaten DEF RoutersInv
<1>2. ASSUME RoutersInv, router = "twoCycleFree" PROVE RivalBeaten
  BY <1>2, AnswersAre DEF RoutersInv
<1>3. ASSUME RoutersInv, router = "acyclic" PROVE A!RivalBeatenUnlessTied
  BY <1>3, AcyclicIsBeaten DEF RoutersInv
<1>4. RoutersInv => NobodyIsCheaper
  BY <1>1, <1>2, <1>3 DEF NobodyIsCheaper
<1> QED
  BY <1>4, LabelsAreSettled, PTL
=============================================================================
