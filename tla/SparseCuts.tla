------------------------------ MODULE SparseCuts ------------------------------
(***************************************************************************)
(* The families of cutting planes (tour/sparse/separators, and the         *)
(* separators of tour/separators that find their members).  A cut is       *)
(* written down three times in the code: when its row is created over the  *)
(* variables there are (createCut), when a variable is priced in later     *)
(* (addedEdge), and when its dual value is spread over all edges of the    *)
(* network (addDualCosts).  So it is here: "created", "added", "dual" give *)
(* the coefficient of a timed edge.                                        *)
(*                                                                         *)
(* What separators answer depends on a fractional solution.  A family has  *)
(* every member that some solution over the variables could make them      *)
(* answer with.                                                            *)
(***************************************************************************)
EXTENDS TimeExpandedNetwork, SequencesExt, FiniteSetsExt

CONSTANTS
  Vertices,      (* the underlying graph ...                                *)
  Arcs,          (* ... and its edges, as pairs                             *)
  Distance,      (* Distance[a]: the least travel time between its vertices *)
  Horizon        (* timeHorizon: the cost of the initial tour               *)

arc(e) == <<e.source.vertex, e.target.vertex>>

leaves(a, set) == a[1] \in set /\ a[2] \notin set

One(condition) == IF condition THEN 1 ELSE 0
-----------------------------------------------------------------------------
\* Subtours: some edge leaves a set of vertices; any set may be a minimum cut.
Subtours == {[kind |-> "subtour", set |-> s] : s \in (SUBSET Vertices) \ {{}, Vertices}}

subtourCreated(c, e) == One(leaves(arc(e), c.set))
subtourAdded(c, e) == One(leaves(arc(e), c.set))
subtourDual(c, e) == One(leaves(arc(e), c.set))
-----------------------------------------------------------------------------
\* Lifted subtours: the set has the source of the tour, and it is left in time to
\* visit the other vertices and to return.
Entry(s, v) == Min({Distance[<<u, v>>] : u \in {u \in s : <<u, v>> \in Arcs}})

\* The least cost of an arborescence from the set over the other vertices to the
\* return to the source: Root stands for the set as a parent, for the return as a child.
arborescenceBound(s) ==
  LET others == Vertices \ s
      Weight(parent, v) == IF v = Root THEN Distance[<<parent, Root>>]
                           ELSE IF parent = Root THEN Entry(s, v)
                           ELSE Distance[<<parent, v>>]
      Trees == {p \in [others \cup {Root} -> others \cup {Root}] :
                  /\ p[Root] # Root
                  /\ \A d \in (SUBSET others) \ {{}} : \E v \in d : p[v] \notin d}
  IN  Min({MapThenSumSet(LAMBDA v : Weight(p[v], v), DOMAIN p) : p \in Trees})

LiftedSubtours ==
  {[kind |-> "lifted", set |-> s, maxTime |-> Horizon - arborescenceBound(s)] :
     s \in {s \in (SUBSET Vertices) \ {Vertices} : Root \in s}}

liftedCreated(c, e) == One(leaves(arc(e), c.set) /\ e.source.time <= c.maxTime)

liftedAdded(c, e) == One(leaves(arc(e), c.set) /\ e.source.time <= c.maxTime)
liftedDual(c, e) == One(leaves(arc(e), c.set) /\ e.source.time <= c.maxTime)
-----------------------------------------------------------------------------
\* Cycles: who enters a cycle of timed edges leaves it before he is back, for a
\* vertex he has not been to.

\* hasCycle: where a path comes to a vertex for the second time, and the first.
Again(p) == {j \in 1 .. Len(p) : \E i \in 1 .. j - 1 : p[i].target.vertex = p[j].target.vertex}

CycleOf(p) ==
  LET j == Min(Again(p))
      i == CHOOSE i \in 1 .. j - 1 : p[i].target.vertex = p[j].target.vertex
  IN  [kind |-> "cycle", incoming |-> p[i], cycle |-> SubSeq(p, i + 1, j)]

Cycles(paths) ==
  {c \in {CycleOf(p) : p \in {p \in paths : Again(p) # {}}} : Len(c.cycle) < Cardinality(Vertices)}

index(c, v) ==
  IF v = c.incoming.source.vertex THEN 0
  ELSE IF \E i \in 1 .. Len(c.cycle) : c.cycle[i].source.vertex = v
  THEN CHOOSE i \in 1 .. Len(c.cycle) : c.cycle[i].source.vertex = v
  ELSE -1

\* a faulty variant of TurnsOff: only to a later vertex of the cycle
TurnsOffLater(c, i, e) ==
  e.source = c.cycle[i].source /\ e # c.cycle[i] /\ index(c, e.target.vertex) > index(c, e.source.vertex)

\* e turns off at the i-th edge of the cycle, to a vertex that comes later or never.
TurnsOff(c, i, e) ==
  /\ e.source = c.cycle[i].source /\ e # c.cycle[i]
  /\ index(c, e.target.vertex) = -1 \/ index(c, e.target.vertex) > index(c, e.source.vertex)

cycleCreated(c, e) ==
  Cardinality({i \in 1 .. Len(c.cycle) : TurnsOff(c, i, e)}) - One(e = c.incoming)

\* a faulty variant of cycleAdded: whatever turns off counts
cycleAddedAny(c, e) == One(\E i \in 1 .. Len(c.cycle) : e.source = c.cycle[i].source)

cycleAdded(c, e) == One(\E i \in 1 .. Len(c.cycle) : TurnsOff(c, i, e))
cycleDual(c, e) ==
  Cardinality({i \in 1 .. Len(c.cycle) : TurnsOff(c, i, e)}) - One(e = c.incoming)
-----------------------------------------------------------------------------
\* D_k cuts: of a cycle of k vertices, with factors for its edges and chords.
DKs ==
  {[kind |-> "dk", cycle |-> s] :
     s \in UNION {{s \in [1 .. k -> Vertices] : \A i, j \in 1 .. k : s[i] = s[j] => i = j} :
                    k \in 2 .. Cardinality(Vertices) - 1}}

\* computeFactors; its positions count from 0.
factor(s, a) ==
  LET k == Len(s)
      pair == {ij \in (1 .. k) \X (1 .. k) : s[ij[1]] = a[1] /\ s[ij[2]] = a[2]}
      Of(i, j) == IF i = 1 THEN IF j = k THEN 1 ELSE 2
                  ELSE One(j + 1 = i \/ (i < j /\ j >= 3 /\ j < k))
  IN  MapThenSumSet(LAMBDA ij : Of(ij[1], ij[2]), pair)

dkCreated(c, e) == factor(c.cycle, arc(e))
dkAdded(c, e) == factor(c.cycle, arc(e))
dkDual(c, e) == factor(c.cycle, arc(e))
-----------------------------------------------------------------------------
\* Odd closed alternating trails: cycles of odd length of arcs of which no tour
\* has two neighbours.
areIncompatible(a, b) ==
  a # b /\ (a[1] = b[1] \/ a[2] = b[2] \/ a = <<b[2], b[1]>>)

validCycle(s) ==
  \A i \in 1 .. Len(s) : areIncompatible(s[i], s[IF i = Len(s) THEN 1 ELSE i + 1])

OddCATs(arcs) ==
  {[kind |-> "oddCAT", arcs |-> set] :
     set \in UNION {{set \in kSubset(k, arcs) :
                       \E s \in SetToSeqs(set) : validCycle(s)} :
                      k \in {3, 5}}}

oddCATCreated(c, e) == One(arc(e) \in c.arcs)
oddCATAdded(c, e) == One(arc(e) \in c.arcs)
oddCATDual(c, e) == One(arc(e) \in c.arcs)
-----------------------------------------------------------------------------
\* Unitary action flow cuts: who takes the incoming edge leaves a set of timed
\* vertices, for a vertex other than the two of that edge.

\* findVertices: what is reached from the edge without its vertices and the source.
findVertices(incoming) ==
  LET Reached[n \in 0 .. Horizon] ==
        IF n = 0 THEN {incoming.target}
        ELSE LET before == Reached[n - 1]
             IN  before \cup {e.target : e \in {e \in TimedEdges :
                   /\ e.source \in before
                   /\ e.target.vertex \notin {Root, incoming.source.vertex, incoming.target.vertex}}}
  IN  Reached[Horizon]

\* The sets that part an edge from a vertex where the graph of findCut ends.
UnitaryAFCs ==
  LET Sets(incoming) ==
        LET all   == findVertices(incoming)
            sinks == {v \in all : ~ \E e \in TimedEdges : e.source = v /\ e.target \in all}
        IN  {s \cup {incoming.target} : s \in {s \in SUBSET (all \ {incoming.target}) : ~ sinks \subseteq s}}
      Of(incoming) == {[kind |-> "unitaryAFC", incoming |-> incoming, timed |-> s] : s \in Sets(incoming)}
  IN  UNION {Of(e) : e \in {e \in TimedEdges : e.source.vertex # Root /\ e.target.vertex # Root}}

validEdge(c, e) ==
  /\ e.source \in c.timed /\ e.target \notin c.timed
  /\ e.target.vertex \notin {c.incoming.source.vertex, c.incoming.target.vertex}

unitaryAFCCreated(c, e) == One(validEdge(c, e)) - One(e = c.incoming)
unitaryAFCAdded(c, e) == One(validEdge(c, e))
unitaryAFCDual(c, e) == One(validEdge(c, e)) - One(e = c.incoming)
-----------------------------------------------------------------------------
\* Odd path-free sets: of three vertices, timed edges among them of which no two
\* follow each other, but for those that go back and forth.
pathFree(s) ==
  \A e, f \in s : e.target = f.source => e.source.vertex = f.target.vertex

OddPathFrees(variables) ==
  LET Among(vertices) == {e \in variables : e.source.vertex \in vertices /\ e.target.vertex \in vertices}
      Triples == kSubset(3, Vertices \ {Root})
  IN  {[kind |-> "pathFree", edges |-> s] :
         s \in UNION {{s \in (SUBSET Among(t)) \ {{}} : pathFree(s)} : t \in Triples}}

pathFreeCreated(c, e) == One(e \in c.edges)
pathFreeAdded(c, e) == 0
pathFreeDual(c, e) == One(e \in c.edges)
-----------------------------------------------------------------------------
createCut(c, e) ==
  CASE c.kind = "subtour"    -> subtourCreated(c, e)
    [] c.kind = "lifted"     -> liftedCreated(c, e)
    [] c.kind = "cycle"      -> cycleCreated(c, e)
    [] c.kind = "dk"         -> dkCreated(c, e)
    [] c.kind = "oddCAT"     -> oddCATCreated(c, e)
    [] c.kind = "unitaryAFC" -> unitaryAFCCreated(c, e)
    [] c.kind = "pathFree"   -> pathFreeCreated(c, e)

addedEdge(c, e) ==
  CASE c.kind = "subtour"    -> subtourAdded(c, e)
    [] c.kind = "lifted"     -> liftedAdded(c, e)
    [] c.kind = "cycle"      -> cycleAdded(c, e)
    [] c.kind = "dk"         -> dkAdded(c, e)
    [] c.kind = "oddCAT"     -> oddCATAdded(c, e)
    [] c.kind = "unitaryAFC" -> unitaryAFCAdded(c, e)
    [] c.kind = "pathFree"   -> pathFreeAdded(c, e)

addDualCosts(c, e) ==
  CASE c.kind = "subtour"    -> subtourDual(c, e)
    [] c.kind = "lifted"     -> liftedDual(c, e)
    [] c.kind = "cycle"      -> cycleDual(c, e)
    [] c.kind = "dk"         -> dkDual(c, e)
    [] c.kind = "oddCAT"     -> oddCATDual(c, e)
    [] c.kind = "unitaryAFC" -> unitaryAFCDual(c, e)
    [] c.kind = "pathFree"   -> pathFreeDual(c, e)

\* The row of a cut admits a left-hand side of this value.
Admits(c, activity) ==
  CASE c.kind \in {"subtour", "lifted"}   -> activity >= 1
    [] c.kind \in {"cycle", "unitaryAFC"} -> activity >= 0
    [] c.kind = "dk"                      -> activity <= Len(c.cycle) - 1
    [] c.kind = "oddCAT"                  -> activity <= (Cardinality(c.arcs) - 1) \div 2
    [] c.kind = "pathFree"                -> activity <= 1
=============================================================================
