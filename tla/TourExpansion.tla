----------------------------- MODULE TourExpansion -----------------------------
(***************************************************************************)
(* createTimeExpandedGraph (tour/timed/expand_tour.cc): the network that   *)
(* the programs and the routers work on is expanded, in order of time,     *)
(* from the source of a tour.  Only journeys are kept that leave time to   *)
(* be back before that tour would be, and returns not before lowerBound.   *)
(*                                                                         *)
(* A traveller then rides from vertex to vertex as he likes: the network   *)
(* has every one of his journeys that brings him back in time.             *)
(***************************************************************************)
EXTENDS Integers, Sequences

CONSTANTS
  Vertices,
  Arcs,           (* the edges of originalGraph, as pairs                    *)
  Root,           (* initialVertex: the source of the tour                   *)
  MaxTime,        (* bound: the distances are known up to this time          *)
  DistanceFuncs,  (* distances[<<v, w>>][t]: the travel time                 *)
  Tours,          (* the tours to expand, as sequences of vertices           *)
  LowerBounds

\* Tour::cost: to the next vertex, from the last to the first one.
successor(tour, i) == tour[IF i = Len(tour) THEN 1 ELSE i + 1]

arrivals(tour, distances) ==
  LET At[i \in 0 .. Len(tour)] ==
        IF i = 0 THEN 0 ELSE At[i - 1] + distances[<<tour[i], successor(tour, i)>>][At[i - 1]]
  IN  At

cost(tour, distances) == arrivals(tour, distances)[Len(tour)]

\* Travel takes time, and no detour arrives earlier: distances are lengths of
\* shortest paths in a network that is first-in-first-out.
ASSUME DistanceAssumption ==
  /\ Root \in Vertices /\ MaxTime \in Nat
  /\ Arcs \subseteq Vertices \X Vertices
  /\ LowerBounds \subseteq Nat /\ Tours \subseteq Seq(Vertices)
  /\ \A d \in DistanceFuncs :
       /\ d \in [Vertices \X Vertices -> [0 .. MaxTime -> Nat]]
       /\ \A v, w \in Vertices : \A t \in 0 .. MaxTime : d[<<v, w>>][t] = 0 <=> v = w
       /\ \A u, v, w \in Vertices : \A t \in 0 .. MaxTime :
            LET arrival == t + d[<<u, v>>][t]
            IN  arrival <= MaxTime => t + d[<<u, w>>][t] <= arrival + d[<<v, w>>][arrival]
       /\ \A tour \in Tours : \A i \in 0 .. Len(tour) : arrivals(tour, d)[i] \in 0 .. MaxTime

VARIABLES
  distances, timeHorizon, lowerBound,  (* the arguments                      *)
  vertices,      (* timed vertices: one copy for a vertex and a time         *)
  edges,         (* timed edges                                              *)
  unprocessed,   (* the queue                                                *)
  at,            (* where the traveller is                                   *)
  journey        (* his edges                                                *)

arguments == <<distances, timeHorizon, lowerBound>>
graph == <<vertices, edges, unprocessed>>
traveller == <<at, journey>>
expansionVars == <<arguments, graph, traveller>>

Start == [vertex |-> Root, time |-> 0]
IsEnd(v) == v.vertex = Root /\ v.time > 0

Edge(a, t) ==
  [source |-> [vertex |-> a[1], time |-> t],
   target |-> [vertex |-> a[2], time |-> t + distances[a][t]]]

\* The way home from a vertex.
sourceTime(v) == v.time + distances[<<v.vertex, Root>>][v.time]
-----------------------------------------------------------------------------
Init ==
  /\ distances \in DistanceFuncs
  /\ timeHorizon \in {cost(tour, distances) : tour \in Tours}
  /\ lowerBound \in LowerBounds
  /\ vertices = {Start} /\ edges = {} /\ unprocessed = {Start}
  /\ at = Start /\ journey = {}

\* a faulty variant of Kept: arriving at the horizon is too late
KeptBefore(e) ==
  /\ e.target.vertex = Root => e.target.time >= lowerBound
  /\ e.target.time < timeHorizon
  /\ sourceTime(e.target) < timeHorizon

\* a faulty variant of Kept: the way home is not looked at
KeptAnyway(e) ==
  /\ e.target.vertex = Root => e.target.time >= lowerBound
  /\ e.target.time <= timeHorizon

Kept(e) ==
  /\ e.target.vertex = Root => e.target.time >= lowerBound
  /\ e.target.time <= timeHorizon
  /\ sourceTime(e.target) <= timeHorizon

Outgoing(v) == {Edge(a, v.time) : a \in {a \in Arcs : a[1] = v.vertex /\ a[2] # v.vertex}}

\* The queue gives any one of the earliest vertices.
Pop(v) ==
  /\ v \in unprocessed
  /\ \A w \in unprocessed : v.time <= w.time

\* One iteration of the loop: nothing leaves the later copies of the source.
Skip(v) ==
  /\ Pop(v)
  /\ IsEnd(v)
  /\ unprocessed' = unprocessed \ {v}
  /\ UNCHANGED <<arguments, vertices, edges, traveller>>

Expand(v) ==
  /\ Pop(v)
  /\ ~ IsEnd(v)
  /\ LET kept    == {e \in Outgoing(v) : Kept(e)}
         targets == {e.target : e \in kept}
     IN  /\ edges' = edges \cup kept
         /\ vertices' = vertices \cup targets
         /\ unprocessed' = (unprocessed \ {v}) \cup (targets \ vertices)
  /\ UNCHANGED <<arguments, traveller>>

Done == unprocessed = {}

Ride(a) ==
  /\ Done
  /\ ~ IsEnd(at)
  /\ a[1] = at.vertex /\ a[2] # at.vertex
  /\ at.time + distances[a][at.time] <= MaxTime
  /\ at' = Edge(a, at.time).target
  /\ journey' = journey \cup {Edge(a, at.time)}
  /\ UNCHANGED <<arguments, graph>>

Next == (\E v \in vertices : Skip(v) \/ Expand(v)) \/ \E a \in Arcs : Ride(a)

Spec == Init /\ [][Next]_expansionVars
-----------------------------------------------------------------------------
TypeOK ==
  /\ distances \in DistanceFuncs /\ timeHorizon \in 0 .. MaxTime /\ lowerBound \in LowerBounds
  /\ vertices \subseteq [vertex : Vertices, time : 0 .. timeHorizon]
  /\ unprocessed \subseteq vertices
  /\ at \in [vertex : Vertices, time : 0 .. MaxTime]

\* What the routers and the programs rely on, at any time of the expansion: edges
\* join timed vertices there are and go forward in time, nothing leaves the later
\* copies of the source, which are between the bounds; from everywhere there is
\* time to be home; and a vertex that waits has no edges yet (asserted at line
\* 46), so that none is entered twice.
NetworkIsSound ==
  /\ Start \in vertices
  /\ \A v \in vertices : /\ sourceTime(v) <= timeHorizon \/ v = Start
                         /\ IsEnd(v) => v.time >= lowerBound
  /\ \A e \in edges : /\ e.source \in vertices \ unprocessed /\ e.target \in vertices
                      /\ e.source.time < e.target.time
                      /\ ~ IsEnd(e.source)

\* The traveller is back not before lowerBound and not after the tour.
Back == IsEnd(at) /\ lowerBound <= at.time /\ at.time <= timeHorizon

\* No journey that could be a better tour is lost: wherever the traveller has been,
\* the network has his edges although they were dropped without looking ahead.
JourneysKept == Back => journey \subseteq edges
=============================================================================
