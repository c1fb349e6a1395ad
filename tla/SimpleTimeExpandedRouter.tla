----------------------- MODULE SimpleTimeExpandedRouter -----------------------
(***************************************************************************)
(* SimpleTimeExpandedRouter (timed/router/simple_time_expanded_router.cc): *)
(* a cheapest path over the time-expanded graph, one label per timed       *)
(* vertex.  A visit of a vertex is one step, all its edges included.       *)
(***************************************************************************)
EXTENDS TimeExpandedRouter

VARIABLES
  labels,     (* labels[v]: cost, and the edge it came by                   *)
  minCost,    (* the least cost of an end that was in order                 *)
  answer      (* result.minCost                                             *)

vars == <<arguments, pc, todo, pathSetVars, rivalVars, labels, minCost, answer>>

Init ==
  /\ RouterInit
  /\ pc = "search"
  /\ labels = [v \in TimedVertices |-> [cost |-> IF v = Start THEN 0 ELSE Inf, edge |-> NoEdge]]
  /\ minCost = Inf
  /\ answer = Inf
  /\ RivalInit(0)

\* createPath: from the label back to the source.
PathTo(v) ==
  LET path[w \in TimedVertices] ==
        IF labels[w].edge = NoEdge THEN <<>> ELSE Append(path[labels[w].edge.source], labels[w].edge)
  IN  path[v]

\* Not reached.
Skip(v) ==
  /\ Visit(v)
  /\ labels[v].cost = Inf
  /\ UNCHANGED <<labels, minCost, pathSetVars>>

\* The end of a path: it is offered when it is in order.
Close(v) ==
  /\ Visit(v)
  /\ labels[v].cost < Inf
  /\ IsEnd(v)
  /\ IF InWindow(v) /\ labels[v].cost < request.cutoff
     THEN /\ minCost' = IF labels[v].cost < minCost THEN labels[v].cost ELSE minCost
          /\ Offer(PathTo(v), labels[v].cost, request.maxNumPaths)
     ELSE UNCHANGED <<minCost, pathSetVars>>
  /\ UNCHANGED labels

\* The labels after the edges out of v.
Relaxed(v) ==
  [w \in TimedVertices |->
     IF EdgeTo(v, w) \in Outgoing(v) /\ labels[w].cost > labels[v].cost + costs[EdgeTo(v, w)]
     THEN [cost |-> labels[v].cost + costs[EdgeTo(v, w)], edge |-> EdgeTo(v, w)]
     ELSE labels[w]]

Expand(v) ==
  /\ Visit(v)
  /\ labels[v].cost < Inf
  /\ ~ IsEnd(v)
  /\ labels' = Relaxed(v)
  /\ UNCHANGED <<minCost, pathSetVars>>

\* result.minCost is the value of the best path kept, unless a least cost was
\* noted.
Finish ==
  /\ pc = "search"
  /\ todo = {}
  /\ pc' = "done"
  /\ answer' = IF minCost < request.cutoff THEN minCost ELSE bestValue
  /\ UNCHANGED <<todo, labels, minCost, pathSetVars>>

Search ==
  /\ \/ \E v \in TimedVertices : (Skip(v) \/ Close(v) \/ Expand(v)) /\ UNCHANGED <<pc, answer>>
     \/ Finish
  /\ UNCHANGED <<arguments, rivalVars>>

Rival == \E e \in TimedEdges : Walk(e, 0) /\ UNCHANGED <<labels, minCost, answer>>

Next == Search \/ Rival

Spec == Init /\ [][Next]_vars
-----------------------------------------------------------------------------
\* Labels, the state of the loop and the rival have their types; the edge of a
\* label enters its vertex, as the assertion at line 149 has it.
TypeOK ==
  /\ costs \in CostFuncs /\ request \in Requests
  /\ pc \in {"search", "done"}
  /\ todo \subseteq TimedVertices
  /\ labels \in [TimedVertices -> [cost : Int, edge : TimedEdges \cup {NoEdge}]]
  /\ \A v \in TimedVertices : labels[v].cost < Inf => v = Start \/ labels[v].edge \in {e \in TimedEdges : e.target = v}
  /\ minCost \in Int /\ answer \in Int
  /\ pos \in TimedVertices /\ spent \in Int

\* The paths collected are different paths of the network from the source back
\* to it, arrive in the time window, use no forbidden edge, and cost what is
\* noted for them, less than the cutoff.
Answers == PathsAreAnswers(0)

\* Nobody who walks the network as the request asks beats the reported cost:
\* what a pricer takes for the least reduced cost.
RivalBeaten == Arrived => answer <= spent

\* When a path was found at all, the reported cost is that of a path which is
\* returned: the heap keeps the cheapest when its end is cut off.
AnswerAttained ==
  pc = "done" => IF valuedPaths = <<>> THEN answer = Inf
                 ELSE \E i \in 1 .. Len(valuedPaths) : valuedPaths[i].value = answer
=============================================================================
