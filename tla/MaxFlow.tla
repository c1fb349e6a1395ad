-------------------------------- MODULE MaxFlow --------------------------------
(***************************************************************************)
(* computeMinCut and computeMaxFlow (flow/max_flow.cc): between the last   *)
(* vertex and every other one, in both directions, flow is pushed along    *)
(* shortest paths of the residual graph until none is left; what is still  *)
(* reached is a cut.  The cheapest of the cuts is returned.                *)
(***************************************************************************)
EXTENDS Integers, SequencesExt

CONSTANTS NumVertices, Inf

Vertices == 0 .. NumVertices - 1
Edges == {e \in Vertices \X Vertices : e[1] # e[2]}

VARIABLES
  capacities,
  pair,         (* the number of the call of computeMaxFlow                 *)
  flow, value,  (* its result                                               *)
  minCut        (* the best cut so far, and its value                       *)

flowVars == <<capacities, pair, flow, value, minCut>>

\* The last vertex is the source of the odd calls, and the target of the even ones.
last == NumVertices - 1
source == IF pair % 2 = 1 THEN last ELSE pair \div 2 - 1
target == IF pair % 2 = 1 THEN pair \div 2 ELSE last

NoFlow == [e \in Edges |-> 0]

FlowInit(c) == capacities = c /\ pair = 1 /\ flow = NoFlow /\ value = 0 /\ minCut = [set |-> {}, value |-> Inf]

FlowIdle == pair = 2 * NumVertices - 1
-----------------------------------------------------------------------------
forward(u, v) == capacities[<<u, v>>] - flow[<<u, v>>]

\* What can still be pushed from u to v: over an edge or, if it is full, back over the
\* opposite one.
residual(u, v) == IF forward(u, v) > 0 THEN forward(u, v) ELSE flow[<<v, u>>]

Walks == UNION {{p \in [1 .. n -> Vertices] : IsInjective(p)} : n \in 1 .. NumVertices}

\* The walks from the source along which something can be pushed, and their ends.
residualWalks ==
  {p \in Walks : p[1] = source /\ \A i \in 2 .. Len(p) : residual(p[i - 1], p[i]) > 0}

visited == {Last(p) : p \in residualWalks}

\* The shortest ones to the target; the search finds one of them.
Paths ==
  LET ending == {p \in residualWalks : Last(p) = target}
      length == Min({Len(p) : p \in ending})
  IN  {p \in ending : Len(p) = length}

\* One iteration.  What goes back over an edge takes all of its flow (line 101).
Augment ==
  /\ ~ FlowIdle
  /\ target \in visited
  /\ \E p \in Paths :
       LET steps == {<<p[i], p[i + 1]>> : i \in 1 .. Len(p) - 1}
           amount == Min({residual(s[1], s[2]) : s \in steps})
       IN  /\ flow' = [e \in Edges |->
                        IF e \in steps /\ forward(e[1], e[2]) > 0 THEN Min({capacities[e], flow[e] + amount})
                        ELSE IF <<e[2], e[1]>> \in steps /\ forward(e[2], e[1]) <= 0
                        THEN Min({0, flow[e] - amount})
                        ELSE flow[e]]
           /\ value' = value + amount
  /\ UNCHANGED <<capacities, pair, minCut>>

\* a faulty variant of NextPair: the last cut is the one that is kept
NextPairLast ==
  /\ ~ FlowIdle
  /\ target \notin visited
  /\ minCut' = [set |-> visited, value |-> value]
  /\ pair' = pair + 1 /\ flow' = NoFlow /\ value' = 0
  /\ UNCHANGED capacities

\* The target is not reached any more; only a better cut replaces the best one.
NextPair ==
  /\ ~ FlowIdle
  /\ target \notin visited
  /\ minCut' = IF value < minCut.value THEN [set |-> visited, value |-> value] ELSE minCut
  /\ pair' = pair + 1 /\ flow' = NoFlow /\ value' = 0
  /\ UNCHANGED capacities

computeMinCut == Augment \/ NextPair
-----------------------------------------------------------------------------
Leaving(set) == MapThenSumSet(LAMBDA e : capacities[e], {e \in Edges : e[1] \in set /\ e[2] \notin set})

\* computeMinCut returns a cut that is worth what it says, and no cut is worth less: the
\* row that the handler writes for it cuts off the solution it was found for.
CutIsMinimum ==
  FlowIdle =>
    /\ minCut.set \in (SUBSET Vertices) \ {{}, Vertices}
    /\ minCut.value = Leaving(minCut.set)
    /\ \A set \in (SUBSET Vertices) \ {{}, Vertices} : minCut.value <= Leaving(set)
=============================================================================
