-------------------------- MODULE TimeExpandedNetwork --------------------------
(***************************************************************************)
(* The time-expanded graph as its users see it: copies of the vertices of  *)
(* the underlying graph, one per time of arrival, and an edge between two  *)
(* copies for each journey.  Edges are given by the copies they join: a    *)
(* journey that starts at a time arrives at one.                           *)
(***************************************************************************)
EXTENDS Integers, FiniteSets

CONSTANTS
  Root,            (* the source of the tour: originalSource                *)
  TimedVertices,   (* records of an underlying vertex and a time            *)
  TimedEdges       (* records of the source and the target timed vertex     *)

Start == [vertex |-> Root, time |-> 0]

\* Copies of the source at later times: a path ends there.
IsEnd(v) == v.vertex = Root /\ v.time > 0

\* Edges go forward in time; nothing leaves the copies of the source (asserted
\* by SimpleTimeExpandedRouter).
IsNetwork(vertices, edges) ==
  /\ IsFiniteSet(vertices) /\ Start \in vertices
  /\ \A v \in vertices : v = [vertex |-> v.vertex, time |-> v.time] /\ v.time \in Nat
  /\ \A e \in edges :
       /\ e = [source |-> e.source, target |-> e.target]
       /\ e.source \in vertices /\ e.target \in vertices
       /\ e.source.time < e.target.time
       /\ e.source.vertex # e.target.vertex
       /\ ~ IsEnd(e.source)

ASSUME NetworkAssumption == IsNetwork(TimedVertices, TimedEdges)
=============================================================================
