------------------------------ MODULE MCSearches ------------------------------
(* The time-dependent search: a diamond with a two-cycle in its middle, every *)
(* edge with each of four profiles.  The bidirectional search: two ways that  *)
(* cross and a shortcut, every edge with costs 0, 1 or 3.                     *)
EXTENDS Searches

MCVertices == 1 .. 4
MCEdges == {<<1, 2>>, <<1, 3>>, <<2, 3>>, <<3, 2>>, <<2, 4>>, <<3, 4>>}
MCSource == [e \in MCEdges |-> e[1]]
MCTarget == [e \in MCEdges |-> e[2]]
MCHorizon == 4
MCInf == 99

MCTimes == 0 .. MCHorizon

Free    == [t \in MCTimes |-> 0]
Steady  == [t \in MCTimes |-> 1]
Rising  == [t \in MCTimes |-> IF t < 2 THEN 1 ELSE 2]
Falling == [t \in MCTimes |-> IF t < 3 THEN 4 - t ELSE 1]

\* The edges out of the source and out of the cycle range over all profiles,
\* those of the cycle over the two extremes.
MCCostFuncs ==
  {c \in [MCEdges -> {Free, Steady, Rising, Falling}] :
     /\ c[<<3, 2>>] \in {Free, Steady}
     /\ c[<<2, 3>>] \in {Free, Falling}
     /\ c[<<1, 2>>] \in {Free, Steady, Falling}
     /\ c[<<1, 3>>] # Free}

\* Unbounded, unreachable behind the filter, and bounds that are met with
\* equality, or missed by one.
MCQueries ==
  {[source |-> 1, target |-> 4, departure |-> 0, bound |-> b, allowed |-> a] :
     b \in {MCInf, 2}, a \in {MCEdges, {<<1, 3>>, <<3, 2>>}, {<<1, 3>>, <<3, 2>>, <<2, 4>>}}}
  \cup {[source |-> 1, target |-> 4, departure |-> 1, bound |-> MCInf, allowed |-> MCEdges]}
-----------------------------------------------------------------------------
StaticEdges == {<<1, 2>>, <<1, 3>>, <<2, 3>>, <<3, 2>>, <<2, 4>>, <<3, 4>>, <<1, 4>>}

StaticCosts ==
  {c \in [StaticEdges -> {0, 1, 3}] :
     c[<<1, 2>>] # 3 /\ c[<<3, 4>>] # 0 /\ c[<<1, 4>>] # 0 /\ c[<<2, 3>>] = c[<<3, 2>>]}

\* The same filter on both sides; bounds that are met exactly or missed by one.
StaticQueries ==
  {[source |-> 1, target |-> t, bound |-> b, forward |-> a, backward |-> a] :
     t \in {4}, b \in {2, MCInf}, a \in {StaticEdges, StaticEdges \ {<<1, 4>>}, {<<1, 2>>, <<2, 3>>}}}
  \cup {[source |-> 1, target |-> 1, bound |-> MCInf, forward |-> StaticEdges, backward |-> StaticEdges]}

MCStatic == [edges |-> StaticEdges, source |-> [e \in StaticEdges |-> e[1]], target |-> [e \in StaticEdges |-> e[2]],
             costs |-> StaticCosts, queries |-> StaticQueries]
=============================================================================
