------------------------------ MODULE LabelHeap ------------------------------
(***************************************************************************)
(* The label-setting priority queue every shortest-path search of the      *)
(* repository runs on (router/label_heap.hh, router/label.hh).             *)
(*                                                                         *)
(* A label is kept twice: in a vertex map (labels) and, while its vertex   *)
(* is waiting to be settled, as a copy in a binary heap that is reached    *)
(* through a stored handle (heap).  A search owns both; the operators      *)
(* below are the two calls that change them.                               *)
(***************************************************************************)
EXTENDS Integers

CONSTANTS
  Vertices,   (* vertices of the graph                                      *)
  Edges,      (* edges of the graph, identified by themselves               *)
  NoEdge,     (* the default-constructed Edge() of a root label             *)
  Inf         (* the value of inf, util.cc                                  *)

ASSUME InfAssumption == Inf \in Nat

VARIABLES
  labels,     (* VertexMap<Label> : one label per vertex, whatever its state *)
  heap        (* costs of the labels in the heap, by vertex                 *)

heapVars == <<labels, heap>>

State == {"UNKNOWN", "LABELED", "SETTLED"}

Label == [cost : Nat, edge : Edges \cup {NoEdge}, state : State]

Empty == [v \in {} |-> 0]

\* The state after update(root) on a fresh heap: every other label is unknown.
RootedAt(root, cost) ==
  /\ labels = [v \in Vertices |->
       IF v = root THEN [cost |-> cost, edge |-> NoEdge, state |-> "LABELED"]
                   ELSE [cost |-> Inf, edge |-> NoEdge, state |-> "UNKNOWN"]]
  /\ heap = [v \in {root} |-> cost]

Unknown(v) == labels[v].state = "UNKNOWN"
Settled(v) == labels[v].state = "SETTLED"

\* a faulty variant of Accepts: a settled vertex is opened again on a tie
AcceptsSettled(v, c) == Unknown(v) \/ labels[v].cost >= c

\* Whether update() takes a label of cost c for v: the first one of an unknown
\* vertex, a cheaper one of a vertex that waits, none of a settled vertex.
Accepts(v, c) ==
  \/ Unknown(v)
  \/ labels[v].state = "LABELED" /\ labels[v].cost > c

\* a faulty variant of Update: the map entry is lowered, its copy in the heap is
\* left where it was
UpdateMapOnly(v, c, e) ==
  \/ /\ Accepts(v, c)
     /\ labels' = [labels EXCEPT ![v] = [cost |-> c, edge |-> e, state |-> "LABELED"]]
     /\ heap' = [w \in DOMAIN heap \cup {v} |-> IF w \in DOMAIN heap THEN heap[w] ELSE c]
  \/ /\ ~ Accepts(v, c)
     /\ UNCHANGED heapVars

Update(v, c, e) ==
  \/ /\ Accepts(v, c)
     /\ labels' = [labels EXCEPT ![v] = [cost |-> c, edge |-> e, state |-> "LABELED"]]
     /\ heap' = [w \in DOMAIN heap \cup {v} |-> IF w = v THEN c ELSE heap[w]]
  \/ /\ ~ Accepts(v, c)
     /\ UNCHANGED heapVars

IsEmpty == DOMAIN heap = {}

\* The entries the heap may have on top: boost's d-ary heap is not stable, any
\* entry of least cost may be there.
Top(v) == v \in DOMAIN heap /\ \A w \in DOMAIN heap : heap[v] <= heap[w]

ExtractMin(v) ==
  /\ Top(v)
  /\ heap' = [w \in DOMAIN heap \ {v} |-> heap[w]]
  /\ labels' = [labels EXCEPT ![v] =
       [cost |-> labels[v].cost, edge |-> labels[v].edge, state |-> "SETTLED"]]

\* The two copies of a label agree: exactly the labels in state LABELED are in
\* the heap, each with the cost its map entry has (push, update and pop in
\* LabelHeap keep them in step through the handle).
HeapCoherent ==
  /\ DOMAIN heap = {v \in Vertices : labels[v].state = "LABELED"}
  /\ \A v \in DOMAIN heap : heap[v] = labels[v].cost

LabelTypeOK ==
  /\ labels \in [Vertices -> Label]
  /\ DOMAIN heap \subseteq Vertices
  /\ heap \in [DOMAIN heap -> Nat]
=============================================================================
