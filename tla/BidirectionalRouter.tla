------------------------- MODULE BidirectionalRouter -------------------------
(***************************************************************************)
(* BidirectionalRouter::shortestPath (router/bidirectional_router.hh): two *)
(* label-setting searches, one from the source along the edges the forward *)
(* filter accepts, one from the target against those the backward filter   *)
(* accepts, that take turns until no pair of their labels can beat the     *)
(* best vertex at which they have met.                                     *)
(***************************************************************************)
EXTENDS Integers, Sequences, FiniteSets

CONSTANTS
  Vertices, Edges, NoEdge, Inf,   (* see LabelHeap                          *)
  Source, Target,                 (* endpoints of an edge                   *)
  CostFuncs,                      (* the cost functions of a call           *)
  Queries                         (* the other arguments of a call          *)

\* bound = Inf stands for the instantiation of the template that has no bound.
Query == [source : Vertices, target : Vertices, bound : Nat,
          forward : SUBSET Edges, backward : SUBSET Edges]

VARIABLES
  flabels, fheap,      (* forwardHeap                                       *)
  blabels, bheap,      (* backwardHeap                                      *)
  costs, query,        (* the arguments; never change                       *)
  pc,                  (* "search", "prepend", "append" or an outcome       *)
  side, current,       (* the heap last extracted from, and the label       *)
  pending,             (* its edges not looked at yet                       *)
  found, split, splitValue,
  at, path             (* building the path: the vertex of the current label *)

F == INSTANCE LabelHeap WITH labels <- flabels, heap <- fheap
B == INSTANCE LabelHeap WITH labels <- blabels, heap <- bheap

meeting == <<found, split, splitValue>>
vars == <<flabels, fheap, blabels, bheap, costs, query, pc, side, current, pending,
          found, split, splitValue, at, path>>

bounded == query.bound # Inf

Init ==
  /\ costs \in CostFuncs
  /\ query \in Queries
  /\ F!RootedAt(query.source, 0)
  /\ B!RootedAt(query.target, 0)
  /\ pc = IF query.source = query.target THEN "found" ELSE "search"
  /\ side = "forward" /\ current = query.source /\ pending = {}
  /\ found = FALSE /\ split = query.source
  /\ splitValue = IF query.source = query.target THEN 0 ELSE Inf
  /\ at = query.source /\ path = <<>>

\* Costs of the label on top of a heap (peek).
Least(heap) == CHOOSE c \in {heap[v] : v \in DOMAIN heap} : \A v \in DOMAIN heap : c <= heap[v]

bestValue == Least(fheap) + Least(bheap)

\* The loop condition and the two exits at the top of the body.
GoOn ==
  /\ pc = "search" /\ pending = {}
  /\ ~ F!IsEmpty /\ ~ B!IsEmpty
  /\ bestValue < splitValue
  /\ ~ (bounded /\ bestValue > query.bound)

ExtractForward(v) ==
  /\ GoOn
  /\ Least(fheap) < Least(bheap)
  /\ F!ExtractMin(v)
  /\ side' = "forward" /\ current' = v
  /\ pending' = {e \in query.forward : Source[e] = v}
  /\ UNCHANGED <<blabels, bheap, costs, query, pc, found, split, splitValue, at, path>>

ExtractBackward(v) ==
  /\ GoOn
  /\ ~ (Least(fheap) < Least(bheap))
  /\ B!ExtractMin(v)
  /\ side' = "backward" /\ current' = v
  /\ pending' = {e \in query.backward : Target[e] = v}
  /\ UNCHANGED <<flabels, fheap, costs, query, pc, found, split, splitValue, at, path>>

\* The searches meet in v: the new label on one side, other on the other.
Meet(v, other, cost) ==
  LET value == other[v].cost + cost
  IN  \/ /\ other[v].state # "UNKNOWN" /\ value < splitValue
         /\ splitValue' = value /\ split' = v /\ found' = TRUE
      \/ /\ ~ (other[v].state # "UNKNOWN" /\ value < splitValue)
         /\ UNCHANGED meeting

RelaxForward(e) ==
  /\ pc = "search" /\ side = "forward" /\ e \in pending
  /\ LET nextCost == flabels[current].cost + costs[e]
     IN  /\ F!Update(Target[e], nextCost, e)
         /\ Meet(Target[e], blabels, nextCost)
  /\ pending' = pending \ {e}
  /\ UNCHANGED <<blabels, bheap, costs, query, pc, side, current, at, path>>

RelaxBackward(e) ==
  /\ pc = "search" /\ side = "backward" /\ e \in pending
  /\ LET nextCost == blabels[current].cost + costs[e]
     IN  /\ B!Update(Source[e], nextCost, e)
         /\ Meet(Source[e], flabels, nextCost)
  /\ pending' = pending \ {e}
  /\ UNCHANGED <<flabels, fheap, costs, query, pc, side, current, at, path>>

\* a faulty variant of Stop: the bound is not checked again after the loop
StopUnchecked ==
  /\ pc = "search" /\ pending = {} /\ ~ GoOn
  /\ \/ found /\ pc' = "prepend" /\ at' = split
     \/ ~ found /\ pc' = "notFound" /\ UNCHANGED at
  /\ UNCHANGED <<flabels, fheap, blabels, bheap, costs, query, side, current, pending,
                 found, split, splitValue, path>>

\* The loop is over: a meeting within the bound is turned into a path.
Stop ==
  /\ pc = "search" /\ pending = {} /\ ~ GoOn
  /\ LET within == found /\ ~ (bounded /\ splitValue > query.bound)
     IN  \/ within /\ pc' = "prepend" /\ at' = split
         \/ ~ within /\ pc' = "notFound" /\ UNCHANGED at
  /\ UNCHANGED <<flabels, fheap, blabels, bheap, costs, query, side, current, pending,
                 found, split, splitValue, path>>

\* The walk from the split back to the source.
WalkBack ==
  /\ pc = "prepend"
  /\ \/ /\ at # query.source
        /\ path' = <<flabels[at].edge>> \o path
        /\ at' = Source[flabels[at].edge]
        /\ UNCHANGED pc
     \/ /\ at = query.source
        /\ at' = split /\ pc' = "append"
        /\ UNCHANGED path
  /\ UNCHANGED <<flabels, fheap, blabels, bheap, costs, query, side, current, pending,
                 found, split, splitValue>>

\* The walk from the split on to the target.
WalkOn ==
  /\ pc = "append"
  /\ \/ /\ at # query.target
        /\ path' = Append(path, blabels[at].edge)
        /\ at' = Target[blabels[at].edge]
        /\ UNCHANGED pc
     \/ /\ at = query.target
        /\ pc' = "found"
        /\ UNCHANGED <<path, at>>
  /\ UNCHANGED <<flabels, fheap, blabels, bheap, costs, query, side, current, pending,
                 found, split, splitValue>>

Next ==
  \/ \E v \in Vertices : ExtractForward(v) \/ ExtractBackward(v)
  \/ \E e \in Edges : RelaxForward(e) \/ RelaxBackward(e)
  \/ Stop
  \/ WalkBack
  \/ WalkOn

-----------------------------------------------------------------------------
TypeOK ==
  /\ F!LabelTypeOK /\ B!LabelTypeOK
  /\ costs \in CostFuncs /\ query \in Queries
  /\ pc \in {"search", "prepend", "append", "found", "notFound"}
  /\ side \in {"forward", "backward"} /\ current \in Vertices /\ pending \subseteq Edges
  /\ found \in BOOLEAN /\ split \in Vertices /\ splitValue \in Nat
  /\ at \in Vertices /\ path \in Seq(Edges)

\* Sum of the costs of the edges of a path.
PathCost(p) ==
  LET f[i \in 0 .. Len(p)] == IF i = 0 THEN 0 ELSE f[i - 1] + costs[p[i]]
  IN  f[Len(p)]

Connects(p, u, v) ==
  IF p = <<>> THEN u = v
  ELSE /\ Source[p[1]] = u /\ Target[p[Len(p)]] = v
       /\ \A i \in 1 .. Len(p) - 1 : Target[p[i]] = Source[p[i + 1]]

\* The assertions at the end of shortestPath: the two walks give a path that
\* connects source and target and costs splitValue; some prefix of it obeys the
\* forward filter and the rest the backward filter.
PathRealisesSplit ==
  pc = "found" =>
    /\ Connects(path, query.source, query.target)
    /\ PathCost(path) = splitValue
    /\ \E m \in 0 .. Len(path) : /\ \A i \in 1 .. m : path[i] \in query.forward
                                 /\ \A i \in m + 1 .. Len(path) : path[i] \in query.backward

\* Reference: least costs over walks of at most |Vertices| allowed edges, from r
\* along the edges, or to r against them.
Minimum(S) == CHOOSE x \in S : \A y \in S : x <= y
Distances(r, allowed, from, to) ==
  LET d[n \in 0 .. Cardinality(Vertices)] ==
        IF n = 0 THEN [v \in Vertices |-> IF v = r THEN 0 ELSE Inf]
        ELSE LET prev == d[n - 1]
             IN  [v \in Vertices |->
                    Minimum({prev[v]} \cup {prev[from[e]] + costs[e] :
                              e \in {x \in allowed : to[x] = v /\ prev[from[x]] < Inf}})]
  IN  d[Cardinality(Vertices)]

\* The least cost of a path whose first part obeys the forward filter and whose
\* other part obeys the backward filter; at least Inf if there is none.
Optimum ==
  LET df == Distances(query.source, query.forward, Source, Target)
      db == Distances(query.target, query.backward, Target, Source)
  IN  Minimum({df[v] + db[v] : v \in Vertices})

\* "Finds a shortest path between the given source and target Vertex which
\* satisfies the given filters and which is bounded by the given bound value"
\* (bidirectional_router.hh): although the search stops long before either side
\* has settled everything.
Shortest ==
  pc = "found" => splitValue = Optimum /\ (bounded => splitValue <= query.bound)

\* Nothing is found only when there is nothing, or nothing within the bound.
NotFoundIsRight ==
  pc = "notFound" => Optimum >= Inf \/ (bounded /\ Optimum > query.bound)

\* However early the search stops, the caller gets a path, a shortest one, or is rightly
\* told that there is none.
AnswerIsRight == PathRealisesSplit /\ Shortest /\ NotFoundIsRight
=============================================================================
