--------------------------- MODULE PathDecomposition ---------------------------
(***************************************************************************)
(* pathDecomposition (timed/path_decomposition.cc): a flow from the start  *)
(* to the later copies of the source is taken apart into paths, always the *)
(* widest one to the earliest copy that can be reached.  The separators    *)
(* look for cycles in these paths.                                         *)
(*                                                                         *)
(* It is a solution of the relaxation, in units of 1 / Units; ArcProgram    *)
(* says which.                                                             *)
(***************************************************************************)
EXTENDS TourExpansion, SequencesExt, Bags, FiniteSetsExt

CONSTANT Units     \* bound: the value of the flow, which is one in the code

VARIABLES
  flow,            \* a bag of edges
  currentFlow,     \* what is left of it
  remainingValue,  \* the value of what is left
  paths            \* a sequence of the values and edges of the paths

decompositionVars == <<flow, currentFlow, remainingValue, paths>>

DInit == flow = EmptyBag /\ currentFlow = EmptyBag /\ remainingValue = 0 /\ paths = <<>>

\* The arguments: a flow of value one.
Decompose(values) ==
  /\ flow' = values /\ currentFlow' = values
  /\ remainingValue' = Units /\ paths' = <<>>
-----------------------------------------------------------------------------
Value(b, e) == IF BagIn(e, b) THEN b[e] ELSE 0

width(e) == Value(currentFlow, e)

Incoming(v) == {e \in BagToSet(currentFlow) : e.target = v}

\* entries: the width of a widest path to each vertex, none if it is not reached.
entries ==
  LET E[t \in 0 .. timeHorizon] ==
        IF t = 0 THEN [v \in vertices |-> IF v = Start THEN remainingValue ELSE 0]
        ELSE LET before == E[t - 1]
             IN  [v \in vertices |->
                    IF v.time # t THEN before[v]
                    ELSE Max({0} \cup {Min({before[e.source], width(e)}) : e \in Incoming(v)})]
  IN  E[timeHorizon]

\* timedTarget: the first later copy of the source that has an entry.
Targets == {v \in vertices : IsEnd(v) /\ entries[v] > 0}
timedTarget == CHOOSE v \in Targets : \A w \in Targets : v.time <= w.time

\* The widest paths to a vertex, as sets of edges: which of them the entries lead
\* back along depends on the order of the edges.
WaysTo(target) ==
  LET W[t \in 0 .. timeHorizon] ==
        IF t = 0 THEN [v \in vertices |-> IF v = Start THEN {{}} ELSE {}]
        ELSE LET before == W[t - 1]
             IN  [v \in vertices |->
                    IF v.time # t THEN before[v]
                    ELSE UNION {{p \cup {e} : p \in before[e.source]} :
                                  e \in {e \in Incoming(v) :
                                           entries[v] = Min({entries[e.source], width(e)})}}]
  IN  W[timeHorizon][target]

Copies(set, n) == [e \in set |-> n]

\* a faulty variant of Removed: every edge gives what it has, up to its entry
RemovedWidths(path, value) == currentFlow (-) [e \in path |-> entries[e.target]]

\* currentFlow along the path is reduced by the value of the path.
Removed(path, value) == currentFlow (-) Copies(path, value)

\* One iteration of the loop.
Extract ==
  /\ remainingValue > 0 /\ Targets # {}
  /\ \E path \in WaysTo(timedTarget) :
       LET value == entries[timedTarget]
       IN  /\ currentFlow' = Removed(path, value)
           /\ paths' = Append(paths, [value |-> value, edges |-> path])
           /\ remainingValue' = remainingValue - value
  /\ UNCHANGED flow
-----------------------------------------------------------------------------
Sum(f) == MapThenSumSet(LAMBDA x : f[x], DOMAIN f)

\* The paths and what is left make up the flow, whatever edges they share.  The
\* loop goes on while there is a path, so that no value is left over: line 105
\* speaks of a flow that disappears, which exact arithmetic rules out.
PathsMakeUpFlow ==
  paths # <<>> =>
    /\ \A e \in edges :
         Value(flow, e) = width(e) + Sum([i \in DOMAIN paths |-> IF e \in paths[i].edges THEN paths[i].value ELSE 0])
    /\ remainingValue + Sum([i \in DOMAIN paths |-> paths[i].value]) = Units
    /\ IF remainingValue > 0 THEN Targets # {} ELSE currentFlow = EmptyBag
=============================================================================
