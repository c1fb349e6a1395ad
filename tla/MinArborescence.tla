---------------------------- MODULE MinArborescence ----------------------------
(***************************************************************************)
(* minArborescence (arborescence/min_arborescence.cc): every vertex but    *)
(* the root takes its cheapest incoming edge; a cycle of such edges is     *)
(* contracted and the smaller problem solved, and on the way back the      *)
(* cycle is opened where the solution enters it.                           *)
(*                                                                         *)
(* The vertices of a contracted graph are sets of vertices of the first    *)
(* one, and an edge is that of the first graph that it was made from, so   *)
(* that parallel edges stay apart.                                         *)
(***************************************************************************)
EXTENDS Integers, SequencesExt

CONSTANTS
  Graphs         (* records: vertices, root, and the weights of the edges   *)

VARIABLES
  graph,         (* the argument; never changes                             *)
  stage,         (* "contract", "expand", "done" or "thrown"                *)
  levels,        (* the calls that have not returned, the last one first    *)
  arborescence   (* what the call before has returned                       *)

Block(level, v) == CHOOSE b \in level.blocks : v \in b
source(level, e) == Block(level, e[1])
target(level, e) == Block(level, e[2])
edgesOf(level) == DOMAIN level.weights
rootOf(level) == Block(level, graph.root)

incoming(level, b) == {e \in edgesOf(level) : target(level, e) = b}

MInit ==
  /\ graph \in Graphs
  /\ stage = "contract"
  /\ levels = <<[blocks |-> {{v} : v \in graph.vertices}, weights |-> graph.weights, cycle |-> {}]>>
  /\ arborescence = {}
-----------------------------------------------------------------------------
\* One of the edges into every vertex but the root.
OneIntoEach(level, set) ==
  FoldSet(LAMBDA b, sets : {s \cup {e} : s \in sets, e \in set \cap incoming(level, b)},
          {{}}, level.blocks \ {rootOf(level)})

\* The cheapest ones, any of those that tie.
CheapestIntoEach(level) ==
  OneIntoEach(level, {e \in edgesOf(level) :
                        \A f \in incoming(level, target(level, e)) : level.weights[e] <= level.weights[f]})

\* findCycle: sets of edges, each of which starts where another one ends.
Cycles(level, chosen) ==
  {c \in (SUBSET chosen) \ {{}} :
     /\ {source(level, e) : e \in c} = {target(level, e) : e \in c}
     /\ \A d \in (SUBSET c) \ {{}, c} : {source(level, e) : e \in d} # {target(level, e) : e \in d}}

\* a faulty variant of Contracted: edges into the cycle keep their weight
ContractedFully(level, cycle) ==
  LET inside == UNION {target(level, e) : e \in cycle}
  IN  [blocks  |-> {b \in level.blocks : b \cap inside = {}} \cup {inside},
       weights |-> [e \in {e \in edgesOf(level) : ~ (e[1] \in inside /\ e[2] \in inside)} |-> level.weights[e]],
       cycle   |-> {}]

\* contractCycle: who enters the cycle saves the edge of it that ends there.
Contracted(level, cycle) ==
  LET inside == UNION {target(level, e) : e \in cycle}
      saved(e) == level.weights[CHOOSE f \in cycle : target(level, f) = target(level, e)]
  IN  [blocks  |-> {b \in level.blocks : b \cap inside = {}} \cup {inside},
       weights |-> [e \in {e \in edgesOf(level) : ~ (e[1] \in inside /\ e[2] \in inside)} |->
                      level.weights[e] - (IF e[2] \in inside THEN saved(e) ELSE 0)],
       cycle   |-> {}]

\* A call finds a vertex that no edge enters.
Throw ==
  /\ stage = "contract"
  /\ \E b \in Head(levels).blocks \ {rootOf(Head(levels))} : incoming(Head(levels), b) = {}
  /\ stage' = "thrown"
  /\ UNCHANGED <<graph, levels, arborescence>>

\* A call up to its return, or to the next call.
Contract ==
  /\ stage = "contract"
  /\ LET level == Head(levels)
     IN  \E chosen \in CheapestIntoEach(level) :
           IF Cycles(level, chosen) = {} THEN stage' = "expand" /\ arborescence' = chosen /\ UNCHANGED levels
           ELSE \E cycle \in Cycles(level, chosen) :
                  /\ levels' = <<Contracted(level, cycle), [level EXCEPT !.cycle = cycle]>> \o Tail(levels)
                  /\ UNCHANGED <<stage, arborescence>>
  /\ UNCHANGED graph

\* The call before it puts the cycle back, without the edge that ends where it is entered.
Expand ==
  /\ stage = "expand" /\ Len(levels) > 1
  /\ LET level == levels[2]
         inside == UNION {target(level, e) : e \in level.cycle}
         entry == CHOOSE e \in arborescence : e[2] \in inside
     IN  arborescence' = arborescence \cup {e \in level.cycle : target(level, e) # target(level, entry)}
  /\ levels' = Tail(levels)
  /\ UNCHANGED <<graph, stage>>

Return ==
  /\ stage = "expand" /\ Len(levels) = 1
  /\ stage' = "done"
  /\ UNCHANGED <<graph, levels, arborescence>>

minArborescence == Throw \/ Contract \/ Expand \/ Return
-----------------------------------------------------------------------------
\* Every block but the root is entered once, and every set of them from outside.
Arborescences(level) ==
  LET Entered(set, e) == target(level, e) \in set /\ source(level, e) \notin set
  IN  {set \in OneIntoEach(level, edgesOf(level)) :
         \A d \in (SUBSET (level.blocks \ {rootOf(level)})) \ {{}} : \E e \in set : Entered(d, e)}

\* What every call returns is a cheapest arborescence of the graph it was called with, the
\* contracted ones included, and only a graph that has none is refused: the latest times
\* of the lifted subtour cuts rest on it being a bound.
ArborescenceIsLeast ==
  LET level == Head(levels)
      all == Arborescences(level)
      Weight(set) == MapThenSumSet(LAMBDA e : level.weights[e], set)
  IN  /\ stage \in {"expand", "done"} =>
           arborescence \in all /\ \A set \in all : Weight(arborescence) <= Weight(set)
      /\ stage = "thrown" => Arborescences(levels[Len(levels)]) = {}
=============================================================================
