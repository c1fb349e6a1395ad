-------------------------- MODULE TimeExpandedRouter --------------------------
(***************************************************************************)
(* What the routers over the time-expanded graph have in common            *)
(* (timed/router/time_expanded_router.hh): the network, the request, the   *)
(* order in which timed vertices are visited, and the promise.             *)
(*                                                                         *)
(* The promise is stated against a rival, who walks the network from the   *)
(* source once the router has answered.  A router of class `size` forbids  *)
(* cycles of up to `size` vertices (0: none is forbidden); so does he, by  *)
(* remembering the last vertices he was at.                                *)
(***************************************************************************)
EXTENDS TimedPathSet, TimeExpandedNetwork

CONSTANTS
  NoEdge,          (* the missing edge of a label                           *)
  CostFuncs,       (* request.costs: reduced costs, of either sign          *)
  Requests         (* the other fields of a request                         *)

\* forbidden: edges of the underlying graph; cutoff = Inf, lower = 0 and
\* upper = Inf stand for optionals that are not set.
AreRequests(edges, costFuncs, requests) ==
  /\ costFuncs \subseteq [edges -> Int]
  /\ \A r \in requests :
       /\ r.cutoff \in Int /\ r.cutoff <= Inf
       /\ r.lower \in Nat /\ r.upper \in Nat
       /\ r.maxNumPaths \in Nat \ {0}

ASSUME InfAssumption == Inf \in Nat \ {0}

ASSUME RequestAssumption == NoEdge \notin TimedEdges /\ AreRequests(TimedEdges, CostFuncs, Requests)

VARIABLES
  costs, request,   (* the arguments; never change                          *)
  pc,               (* where the call is; "done" when it has returned       *)
  todo              (* timed vertices the loop has not come to              *)

Usable(e) == <<e.source.vertex, e.target.vertex>> \notin request.forbidden

Outgoing(v) == {e \in TimedEdges : e.source = v /\ Usable(e)}

\* The edge between two timed vertices: there is one at most.
EdgeTo(v, w) == [source |-> v, target |-> w]

\* The ordering is sorted by time; std::sort leaves open how ties are broken.
Due(v) == v \in todo /\ \A w \in todo : v.time <= w.time

InWindow(v) == request.lower <= v.time /\ v.time <= request.upper

\* The loop comes to v.
Visit(v) ==
  /\ pc = "search"
  /\ Due(v)
  /\ todo' = todo \ {v}

RouterInit ==
  /\ costs \in CostFuncs
  /\ request \in Requests
  /\ todo = TimedVertices
  /\ PathSetInit

arguments == <<costs, request>>
-----------------------------------------------------------------------------
VARIABLES
  pos,     (* the timed vertex the rival is at                              *)
  trail,   (* the last underlying vertices he was at, this one included     *)
  spent    (* the cost of his walk                                          *)

rivalVars == <<pos, trail, spent>>

\* The last n elements of a sequence.
LastOf(s, n) == SubSeq(s, IF Len(s) > n THEN Len(s) - n + 1 ELSE 1, Len(s))

RivalInit(size) == pos = Start /\ trail = LastOf(<<Root>>, size) /\ spent = 0

\* Costs stay below inf, the mark of a label that is not set.
Walk(e, size) ==
  /\ pc = "done"
  /\ e \in Outgoing(pos)
  /\ spent + costs[e] < Inf
  /\ \A i \in 1 .. Len(trail) : trail[i] # e.target.vertex
  /\ pos' = e.target
  /\ trail' = LastOf(Append(trail, e.target.vertex), size)
  /\ spent' = spent + costs[e]
  /\ UNCHANGED <<arguments, pc, todo, pathSetVars>>

\* His walk is one the request asks for.
Arrived ==
  /\ pc = "done"
  /\ IsEnd(pos) /\ request.lower <= pos.time /\ pos.time <= request.upper
  /\ spent < request.cutoff
-----------------------------------------------------------------------------
\* Cost of a path.
PathCost(p) ==
  LET f[i \in 0 .. Len(p)] == IF i = 0 THEN 0 ELSE f[i - 1] + costs[p[i]]
  IN  f[Len(p)]

\* A path of the network from the source to one of its copies that obeys the
\* request and has no cycle of up to `size` vertices.
IsAnswer(p, size) ==
  /\ p # <<>> /\ p[1].source = Start
  /\ \A i \in 1 .. Len(p) : p[i] \in TimedEdges /\ Usable(p[i])
  /\ \A i \in 1 .. Len(p) - 1 : p[i].target = p[i + 1].source
  /\ IsEnd(p[Len(p)].target)
  /\ request.lower <= p[Len(p)].target.time /\ p[Len(p)].target.time <= request.upper
  /\ \A i \in 1 .. Len(p), j \in 1 .. Len(p) :
       p[i].source.vertex = p[j].target.vertex => j < i \/ j - i >= size

\* What is collected are different answers, each worth what is noted for it and
\* less than the cutoff, no more of them than asked for.
PathsAreAnswers(size) ==
  /\ Len(valuedPaths) <= request.maxNumPaths
  /\ \A i \in 1 .. Len(valuedPaths) :
       LET entry == valuedPaths[i]
       IN  /\ IsAnswer(entry.path, size)
           /\ entry.value = PathCost(entry.path)
           /\ entry.value < request.cutoff
           /\ \A j \in 1 .. Len(valuedPaths) : entry.path = valuedPaths[j].path => i = j
=============================================================================
