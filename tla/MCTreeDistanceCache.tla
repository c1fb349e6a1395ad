------------------------- MODULE MCTreeDistanceCache -------------------------
(* Three vertices, of which 3 cannot be left towards the others; distances    *)
(* that tie, a target that cannot be reached, one that is only reached past   *)
(* the horizon.                                                               *)
EXTENDS TreeDistanceCache

MCVertices == 1 .. 3
MCDepartures == 1 .. 2
MCHorizon == 2
MCInf == 99

\* Edges with their cost per entering time (first in, first out).
Graph == [e \in {<<1, 2>>, <<2, 1>>, <<2, 3>>, <<3, 3>>} |->
  IF e = <<1, 2>> THEN [t \in 0 .. MCHorizon |-> IF t < 2 THEN 2 ELSE 1]
                  ELSE [t \in 0 .. MCHorizon |-> 1]]

\* Earliest arrivals in Graph, by source, departure and vertex.
MCArrival == << << <<1, 3, MCInf>>, <<2, 3, MCInf>> >>,
                << <<2, 1, 2>>, <<3, 2, 3>> >>,
                << <<MCInf, MCInf, 1>>, <<MCInf, MCInf, 2>> >> >>

Least(S) == CHOOSE x \in S : \A y \in S : x <= y

\* Earliest arrivals over walks of at most n edges.
ArrivalWithin(s, d) ==
  LET f[n \in 0 .. 3] ==
        IF n = 0 THEN [v \in MCVertices |-> IF v = s THEN d ELSE MCInf]
        ELSE [v \in MCVertices |->
               Least({f[n - 1][v]} \cup
                     {f[n - 1][e[1]] + Graph[e][f[n - 1][e[1]]] :
                        e \in {x \in DOMAIN Graph : x[2] = v /\ f[n - 1][x[1]] <= MCHorizon}})]
  IN  f[3]

ASSUME ArrivalIsEarliest ==
  \A s \in MCVertices, d \in MCDepartures : MCArrival[s][d] = ArrivalWithin(s, d)

\* Calls that share a search, tie, or throw.
MCRequests ==
  {[source |-> 1, target |-> t, departure |-> 1] : t \in {2, 3}}
  \cup {[source |-> 2, target |-> t, departure |-> 1] : t \in {1, 3}}
  \cup {[source |-> 2, target |-> 1, departure |-> 2]}
  \cup {[source |-> 3, target |-> t, departure |-> 1] : t \in {1, 3}}

MCVertexLists == {<<>>, <<3, 1, 2>>, <<2, 1>>}
MCCapacities == 1 .. 3
=============================================================================
