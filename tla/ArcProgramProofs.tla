--------------------------- MODULE ArcProgramProofs ---------------------------
(***************************************************************************)
(* Proofs about the arc-based program, for every graph, all travel times   *)
(* and all tours: the network that is expanded is sound and loses no       *)
(* better tour, the tour it was expanded from is a solution, the bounds    *)
(* and tours of the covering relaxation are sound, and the paths that a    *)
(* flow is taken apart into make it up.                                    *)
(*                                                                         *)
(* That no journey is lost is not inductive: it says something of journeys *)
(* that have ended, while edges are dropped long before.  The invariant is *)
(* that a traveller who has left the network can no longer be back in      *)
(* time, for no detour shortens the way home.                              *)
(***************************************************************************)
EXTENDS CoveringRelaxation, FiniteSetTheorems, SequenceTheorems, WellFoundedInduction, TLAPS

\* A vertex that has been taken from the queue has all the edges that are kept.
Closed ==
  \A v \in vertices \ unprocessed : \A a \in Arcs :
    ~ IsEnd(v) /\ a[1] = v.vertex /\ a[2] # v.vertex /\ Kept(Edge(a, v.time))
    => Edge(a, v.time) \in edges /\ Edge(a, v.time).target \in vertices

Late == sourceTime(at) > timeHorizon
Early == IsEnd(at) /\ at.time < lowerBound
Inside == journey \subseteq edges /\ at \in vertices

\* A traveller outside of the network will be too late, or was too early.
LostIsUseless == Late \/ Early \/ Inside

\* An edge is an arc, entered at a time.
EdgesAreTimed ==
  \A e \in edges : \E a \in Arcs : a[1] # a[2] /\ e = Edge(a, e.source.time)

IInv == TypeOK /\ NetworkIsSound /\ Closed /\ EdgesAreTimed /\ LostIsUseless

-----------------------------------------------------------------------------
\* What the assumption says of the travel times of the run.
LEMMA Travel ==
  ASSUME TypeOK
  PROVE  /\ Root \in Vertices /\ MaxTime \in Nat /\ Arcs \subseteq Vertices \X Vertices
         /\ lowerBound \in Nat /\ timeHorizon \in Nat /\ timeHorizon <= MaxTime
         /\ \A v, w \in Vertices : \A t \in 0 .. MaxTime :
              /\ distances[<<v, w>>][t] \in Nat
              /\ distances[<<v, w>>][t] = 0 <=> v = w
<1>1. distances \in [Vertices \X Vertices -> [0 .. MaxTime -> Nat]]
  BY DistanceAssumption DEF TypeOK
<1>2. \A v, w \in Vertices : \A t \in 0 .. MaxTime : distances[<<v, w>>][t] \in Nat
  BY <1>1
<1>3. \A v, w \in Vertices : \A t \in 0 .. MaxTime : distances[<<v, w>>][t] = 0 <=> v = w
  BY DistanceAssumption DEF TypeOK
<1> QED
  BY <1>2, <1>3, DistanceAssumption DEF TypeOK

\* No detour shortens the way home.
LEMMA NoShortcut ==
  ASSUME TypeOK, NEW v \in Vertices, NEW w \in Vertices, NEW t \in 0 .. MaxTime,
         t + distances[<<v, w>>][t] <= MaxTime
  PROVE  t + distances[<<v, Root>>][t]
           <= t + distances[<<v, w>>][t] + distances[<<w, Root>>][t + distances[<<v, w>>][t]]
  BY DistanceAssumption DEF TypeOK

\* The edge of a journey, and where it leads.
LEMMA Journey ==
  ASSUME TypeOK, NEW a \in Arcs, NEW t \in 0 .. MaxTime, a[1] # a[2]
  PROVE  /\ a[1] \in Vertices /\ a[2] \in Vertices /\ a = <<a[1], a[2]>>
         /\ distances[a][t] \in Nat \ {0}
         /\ Edge(a, t).source = [vertex |-> a[1], time |-> t]
         /\ Edge(a, t).target = [vertex |-> a[2], time |-> t + distances[a][t]]
<1>1. a[1] \in Vertices /\ a[2] \in Vertices /\ a = <<a[1], a[2]>>
  BY Travel
<1>2. distances[<<a[1], a[2]>>][t] \in Nat \ {0}
  BY <1>1, Travel
<1> QED
  BY <1>1, <1>2 DEF Edge

LEMMA InitInvariant == Init => IInv
<1> SUFFICES ASSUME Init PROVE IInv
  OBVIOUS
<1> USE DEF Init
<1>1. TypeOK
  <2>1. timeHorizon \in 0 .. MaxTime
    <3>1. PICK tour \in Tours : timeHorizon = arrivals(tour, distances)[Len(tour)]
      BY DEF cost
    <3>2. Len(tour) \in 0 .. Len(tour)
      BY <3>1, DistanceAssumption
    <3> QED
      BY <3>1, <3>2, DistanceAssumption
  <2>2. Root \in Vertices /\ MaxTime \in Nat
    BY DistanceAssumption
  <2>3. Start \in [vertex : Vertices, time : 0 .. timeHorizon]
    BY <2>1, <2>2 DEF Start
  <2>4. Start \in [vertex : Vertices, time : 0 .. MaxTime]
    BY <2>2 DEF Start
  <2> QED
    BY <2>1, <2>3, <2>4 DEF TypeOK
<1>2. NetworkIsSound
  BY DEF NetworkIsSound, IsEnd, Start
<1>3. Closed /\ EdgesAreTimed /\ LostIsUseless
  BY DEF Closed, EdgesAreTimed, LostIsUseless, Inside
<1> QED
  BY <1>1, <1>2, <1>3 DEF IInv

\* Taking a later copy of the source from the queue keeps the invariant.
LEMMA SkipInvariant ==
  ASSUME IInv, NEW v \in vertices, Skip(v)
  PROVE  IInv'
<1> USE DEF Skip, arguments, traveller, IInv
<1>1. TypeOK'
  BY DEF TypeOK
<1>2. NetworkIsSound'
  BY DEF NetworkIsSound, sourceTime
<1>3. Closed' /\ EdgesAreTimed'
  BY DEF Closed, EdgesAreTimed, Kept, Edge, sourceTime
<1>4. LostIsUseless'
  BY DEF LostIsUseless, Late, Early, Inside, sourceTime
<1> QED
  BY <1>1, <1>2, <1>3, <1>4

\* So does giving a vertex its edges.
LEMMA ExpandInvariant ==
  ASSUME IInv, NEW v \in vertices, Expand(v)
  PROVE  IInv'
<1> DEFINE kept == {e \in Outgoing(v) : Kept(e)}
           targets == {e.target : e \in kept}
<1>1. /\ edges' = edges \cup kept /\ vertices' = vertices \cup targets
      /\ unprocessed' = (unprocessed \ {v}) \cup (targets \ vertices)
      /\ v \in unprocessed /\ ~ IsEnd(v)
      /\ UNCHANGED <<arguments, traveller>>
  BY DEF Expand, Pop
<1>2. TypeOK /\ NetworkIsSound /\ Closed /\ EdgesAreTimed /\ LostIsUseless
  BY DEF IInv
<1>3. v.vertex \in Vertices /\ v.time \in 0 .. MaxTime /\ v = [vertex |-> v.vertex, time |-> v.time]
  BY <1>2, Travel DEF TypeOK
<1>4. \A e \in kept :
        /\ e.source = v /\ e.target \in [vertex : Vertices, time : 0 .. timeHorizon]
        /\ v.time < e.target.time /\ sourceTime(e.target) <= timeHorizon
        /\ IsEnd(e.target) => e.target.time >= lowerBound
  <2> SUFFICES ASSUME NEW a \in Arcs, a[1] = v.vertex, a[2] # v.vertex, Kept(Edge(a, v.time))
               PROVE  LET e == Edge(a, v.time)
                      IN  /\ e.source = v /\ e.target \in [vertex : Vertices, time : 0 .. timeHorizon]
                          /\ v.time < e.target.time /\ sourceTime(e.target) <= timeHorizon
                          /\ IsEnd(e.target) => e.target.time >= lowerBound
    BY DEF Outgoing
  <2>1. /\ Edge(a, v.time).source = v
        /\ Edge(a, v.time).target = [vertex |-> a[2], time |-> v.time + distances[a][v.time]]
        /\ a[2] \in Vertices /\ distances[a][v.time] \in Nat \ {0}
    BY <1>2, <1>3, Journey
  <2>2. v.time + distances[a][v.time] <= timeHorizon
    BY <2>1 DEF Kept
  <2>3. Edge(a, v.time).target \in [vertex : Vertices, time : 0 .. timeHorizon]
    BY <1>2, <1>3, <2>1, <2>2, Travel
  <2>4. v.time < Edge(a, v.time).target.time
    BY <1>3, <2>1
  <2> QED
    BY <2>1, <2>3, <2>4 DEF Kept, IsEnd
<1>10. \A e \in kept : \E a \in Arcs : a[1] # a[2] /\ e = Edge(a, e.source.time)
  <2> SUFFICES ASSUME NEW a \in Arcs, a[1] = v.vertex, a[2] # v.vertex, Kept(Edge(a, v.time))
               PROVE  Edge(a, v.time) = Edge(a, Edge(a, v.time).source.time)
    BY DEF Outgoing
  <2> QED
    BY DEF Edge
<1> HIDE DEF kept
<1>5. /\ UNCHANGED <<distances, timeHorizon, lowerBound, at, journey>>
      /\ \A w : sourceTime(w)' = sourceTime(w)
  BY <1>1 DEF arguments, traveller, sourceTime
<1>6. TypeOK'
  BY <1>1, <1>2, <1>4, <1>5 DEF TypeOK
<1>7. NetworkIsSound'
  <2>1. (Start \in vertices)'
    BY <1>1, <1>2 DEF NetworkIsSound, Start
  <2>2. (\A w \in vertices : (sourceTime(w) <= timeHorizon \/ w = Start) /\ (IsEnd(w) => w.time >= lowerBound))'
    <3> SUFFICES ASSUME NEW w \in vertices'
                 PROVE  /\ sourceTime(w) <= timeHorizon \/ w = Start
                        /\ IsEnd(w) => w.time >= lowerBound
      BY <1>5 DEF sourceTime, IsEnd, Start
    <3> QED
      BY <1>1, <1>2, <1>4 DEF NetworkIsSound
  <2>3. (\A e \in edges : /\ e.source \in vertices \ unprocessed /\ e.target \in vertices
                          /\ e.source.time < e.target.time
                          /\ ~ IsEnd(e.source))'
    <3> SUFFICES ASSUME NEW e \in edges'
                 PROVE  /\ e.source \in vertices' \ unprocessed' /\ e.target \in vertices'
                        /\ e.source.time < e.target.time
                        /\ ~ IsEnd(e.source)
      BY DEF IsEnd
    <3>1. CASE e \in edges
      BY <1>1, <1>2, <3>1 DEF NetworkIsSound
    <3>2. CASE e \in kept
      BY <1>1, <1>4, <3>2
    <3> QED
      BY <1>1, <3>1, <3>2
  <2> QED
    BY <2>1, <2>2, <2>3 DEF NetworkIsSound
<1>8. Closed'
  <2> SUFFICES ASSUME NEW w \in vertices' \ unprocessed', NEW a \in Arcs,
                      ~ IsEnd(w), a[1] = w.vertex, a[2] # w.vertex, Kept(Edge(a, w.time))
               PROVE  Edge(a, w.time) \in edges' /\ Edge(a, w.time).target \in vertices'
    <3>1. \A w, a : Edge(a, w.time)' = Edge(a, w.time)
      BY <1>5 DEF Edge
    <3>2. \A e : Kept(e)' <=> Kept(e)
      BY <1>5 DEF Kept, sourceTime
    <3>3. \A w, a : Kept(Edge(a, w.time))' <=> Kept(Edge(a, w.time))
      BY <3>1, <3>2
    <3> QED
      BY <3>1, <3>3 DEF Closed, IsEnd
  <2>1. CASE w = v
    <3>1. Edge(a, v.time) \in kept
      BY <2>1 DEF kept, Outgoing
    <3> QED
      BY <1>1, <2>1, <3>1
  <2>2. CASE w \in vertices \ unprocessed
    BY <1>1, <1>2, <2>2 DEF Closed
  <2> QED
    BY <1>1, <2>1, <2>2
<1>9. LostIsUseless'
  BY <1>1, <1>2, <1>5 DEF LostIsUseless, Late, Early, Inside, IsEnd
<1>11. EdgesAreTimed'
  <2> SUFFICES ASSUME NEW e \in edges'
               PROVE  \E a \in Arcs : a[1] # a[2] /\ e = Edge(a, e.source.time)
    BY <1>5 DEF EdgesAreTimed, Edge
  <2> QED
    BY <1>1, <1>2, <1>10 DEF EdgesAreTimed
<1> QED
  BY <1>6, <1>7, <1>8, <1>9, <1>11 DEF IInv

\* So does a journey: an edge that was dropped leads where it is too late to be back.
LEMMA RideInvariant ==
  ASSUME IInv, NEW a \in Arcs, Ride(a)
  PROVE  IInv'
<1> DEFINE next == [vertex |-> a[2], time |-> at.time + distances[a][at.time]]
<1>1. TypeOK /\ NetworkIsSound /\ Closed /\ EdgesAreTimed /\ LostIsUseless
  BY DEF IInv
<1>2. /\ unprocessed = {} /\ ~ IsEnd(at) /\ a[1] = at.vertex /\ a[1] # a[2]
      /\ at.time + distances[a][at.time] <= MaxTime
      /\ at' = Edge(a, at.time).target /\ journey' = journey \cup {Edge(a, at.time)}
      /\ UNCHANGED <<distances, timeHorizon, lowerBound, vertices, edges, unprocessed>>
  BY DEF Ride, Done, arguments, graph
<1>3. at.vertex \in Vertices /\ at.time \in 0 .. MaxTime
  BY <1>1 DEF TypeOK
<1>4. /\ Edge(a, at.time).target = next /\ a = <<at.vertex, a[2]>>
      /\ a[2] \in Vertices /\ distances[a][at.time] \in Nat \ {0}
  BY <1>1, <1>2, <1>3, Journey
<1>5. next.vertex = a[2] /\ next.time = at.time + distances[a][at.time] /\ next.time \in 1 .. MaxTime
  BY <1>2, <1>3, <1>4, <1>1, Travel
<1>6. at' = next
  BY <1>2, <1>4
<1>7. TypeOK'
  <2>1. next \in [vertex : Vertices, time : 0 .. MaxTime]
    BY <1>4, <1>5
  <2> QED
    BY <1>1, <1>2, <1>6, <2>1 DEF TypeOK
<1>8. NetworkIsSound' /\ Closed' /\ EdgesAreTimed'
  BY <1>1, <1>2 DEF NetworkIsSound, Closed, EdgesAreTimed, Kept, Edge, sourceTime
<1>9. LostIsUseless'
  <2> SUFFICES \/ sourceTime(next) > timeHorizon
               \/ IsEnd(next) /\ next.time < lowerBound
               \/ journey' \subseteq edges /\ next \in vertices
    BY <1>2, <1>6 DEF LostIsUseless, Late, Early, Inside, sourceTime, IsEnd
  <2>1. /\ sourceTime(next) = next.time + distances[<<a[2], Root>>][next.time]
        /\ distances[<<a[2], Root>>][next.time] \in Nat
        /\ sourceTime(at) = at.time + distances[<<at.vertex, Root>>][at.time]
        /\ distances[<<at.vertex, Root>>][at.time] \in Nat
    BY <1>1, <1>3, <1>4, <1>5, Travel DEF sourceTime
  <2>2. CASE Late
    <3>1. sourceTime(at) <= sourceTime(next)
      BY <1>1, <1>2, <1>3, <1>4, <1>5, <2>1, NoShortcut
    <3> QED
      BY <1>1, <1>3, <1>5, <2>1, <2>2, <3>1, Travel DEF Late
  <2>3. CASE Inside
    <3>1. CASE Kept(Edge(a, at.time))
      BY <1>1, <1>2, <1>4, <2>3, <3>1 DEF Inside, Closed
    <3>2. CASE ~ Kept(Edge(a, at.time))
      <4>1. \/ next.vertex = Root /\ ~ (next.time >= lowerBound)
            \/ ~ (next.time <= timeHorizon)
            \/ ~ (sourceTime(next) <= timeHorizon)
        BY <1>4, <3>2 DEF Kept
      <4> QED
        BY <1>1, <1>5, <2>1, <4>1, Travel DEF IsEnd
    <3> QED
      BY <3>1, <3>2
  <2> QED
    BY <1>1, <1>2, <2>2, <2>3 DEF LostIsUseless, Early
<1> QED
  BY <1>7, <1>8, <1>9 DEF IInv

LEMMA NextInvariant == IInv /\ [Next]_expansionVars => IInv'
<1> SUFFICES ASSUME IInv, [Next]_expansionVars PROVE IInv'
  OBVIOUS
<1>1. CASE \E v \in vertices : Skip(v) \/ Expand(v)
  BY <1>1, SkipInvariant, ExpandInvariant
<1>2. CASE \E a \in Arcs : Ride(a)
  BY <1>2, RideInvariant
<1>3. CASE UNCHANGED expansionVars
  <2> USE <1>3 DEF expansionVars, arguments, graph, traveller, IInv
  <2>1. TypeOK' /\ NetworkIsSound'
    BY DEF TypeOK, NetworkIsSound, sourceTime
  <2>2. Closed' /\ EdgesAreTimed' /\ LostIsUseless'
    BY DEF Closed, EdgesAreTimed, Kept, Edge, sourceTime, LostIsUseless, Late, Early, Inside
  <2> QED
    BY <2>1, <2>2
<1> QED
  BY <1>1, <1>2, <1>3 DEF Next

\* A traveller who is back in time has used edges of the network.
LEMMA KeptInvariant == IInv => JourneysKept
<1> SUFFICES ASSUME IInv, Back PROVE journey \subseteq edges
  BY DEF JourneysKept
<1>1. TypeOK /\ LostIsUseless /\ at.time \in 0 .. MaxTime /\ at.vertex = Root
  BY DEF IInv, TypeOK, Back, IsEnd
<1>2. sourceTime(at) = at.time
  BY <1>1, Travel DEF sourceTime
<1> QED
  BY <1>1, <1>2, Travel DEF LostIsUseless, Late, Early, Inside, Back

\* The programs and the routers are given a network whose edges join timed vertices
\* there are, go forward in time, and leave the later copies of the source alone;
\* from everywhere in it there is time to be home (createTimeExpandedGraph).
THEOREM ExpansionIsSound == Spec => []NetworkIsSound
<1>1. IInv => NetworkIsSound
  BY DEF IInv
<1> QED
  BY <1>1, InitInvariant, NextInvariant, PTL DEF Spec

\* No journey that would be a better tour than the given one is lost, although the
\* expansion drops edges long before they lead home.
THEOREM ExpansionLosesNoTour == Spec => []JourneysKept
  BY KeptInvariant, InitInvariant, NextInvariant, PTL DEF Spec
-----------------------------------------------------------------------------
(* Recursion.  Induction is by sets of numbers, with the least one that is not in it.  *)

LEMMA Induction ==
  ASSUME NEW S \in SUBSET Nat, 0 \in S, \A n \in S : n + 1 \in S
  PROVE  S = Nat
<1> DEFINE T == Nat \ S
<1> SUFFICES ASSUME T # {} PROVE FALSE
  OBVIOUS
<1>1. PICK n \in T : \A m \in T : ~ (<<m, n>> \in OpToRel(<, Nat))
  <2>1. T \subseteq Nat  OBVIOUS
  <2> HIDE DEF T
  <2> QED BY <2>1, NatLessThanWellFounded, WFMin
<1>2. \A m \in T : ~ (m < n)
  BY <1>1 DEF OpToRel
<1>3. n # 0 /\ n - 1 \in Nat /\ n - 1 < n  OBVIOUS
<1>4. n - 1 \in S  BY <1>2, <1>3
<1>5. (n - 1) + 1 = n  OBVIOUS
<1> QED BY <1>4, <1>5

\* A set of numbers has a least one, ...
LEMMA LeastExists ==
  ASSUME NEW T \in SUBSET Nat, T # {}
  PROVE  /\ \E n \in T : \A m \in T : n <= m
         /\ Min(T) \in T /\ \A m \in T : Min(T) <= m
<1>1. PICK n \in T : \A m \in T : ~ (<<m, n>> \in OpToRel(<, Nat))
  BY NatLessThanWellFounded, WFMin
<1>2. \A m \in T : ~ (m < n)
  BY <1>1 DEF OpToRel
<1>3. \A m \in T : n <= m
  BY <1>2
<1> QED BY <1>3 DEF Min

\* A function that is defined by iteration.
IsIteration(g, F, base, N, V) ==
  /\ g \in [0 .. N -> V]
  /\ \A n \in 0 .. N : g[n] = IF n = 0 THEN base ELSE F[g[n - 1]]

LEMMA IterationExists ==
  ASSUME NEW V, NEW base \in V, NEW F \in [V -> V], NEW N \in Nat
  PROVE  \E g : IsIteration(g, F, base, N, V)
<1> DEFINE Exists(k) == \E g \in [0 .. k -> V] : \A n \in 0 .. k : g[n] = IF n = 0 THEN base ELSE F[g[n - 1]]
           S == {k \in Nat : Exists(k)}
<1>1. 0 \in S
  <2> DEFINE g == [n \in 0 .. 0 |-> base]
  <2>1. g \in [0 .. 0 -> V] /\ \A n \in 0 .. 0 : n = 0 /\ g[n] = base  OBVIOUS
  <2>2. Exists(0)
    <3> HIDE DEF g
    <3> QED BY <2>1
  <2> QED BY <2>2
<1>2. \A k \in S : k + 1 \in S
  <2> TAKE k \in S
  <2>1. PICK g \in [0 .. k -> V] : \A n \in 0 .. k : g[n] = IF n = 0 THEN base ELSE F[g[n - 1]]
    OBVIOUS
  <2> DEFINE h == [n \in 0 .. k + 1 |-> IF n = k + 1 THEN F[g[k]] ELSE g[n]]
  <2>2. k \in Nat  OBVIOUS
  <2>3. h \in [0 .. k + 1 -> V]  BY <2>2
  <2>4. \A n \in 0 .. k + 1 : h[n] = IF n = 0 THEN base ELSE F[h[n - 1]]
    <3> TAKE n \in 0 .. k + 1
    <3>1. CASE n = k + 1
      <4>1. n # 0 /\ n - 1 = k /\ k \in 0 .. k + 1 /\ k # k + 1  BY <2>2, <3>1
      <4> QED BY <3>1, <4>1
    <3>2. CASE n # k + 1
      <4>1. n \in 0 .. k /\ h[n] = g[n]  BY <2>2, <3>2
      <4>2. n # 0 => n - 1 \in 0 .. k + 1 /\ n - 1 # k + 1 /\ h[n - 1] = g[n - 1]  BY <2>2, <4>1
      <4> QED BY <2>1, <4>1, <4>2
    <3> QED BY <3>1, <3>2
  <2>5. Exists(k + 1)
    <3> HIDE DEF h
    <3> QED BY <2>3, <2>4
  <2> QED BY <2>2, <2>5
<1>3. S = Nat
  <2>1. S \in SUBSET Nat  OBVIOUS
  <2> HIDE DEF S
  <2> QED BY <1>1, <1>2, <2>1, Induction
<1>4. Exists(N)  BY <1>3
<1> QED BY <1>4 DEF IsIteration

\* A set of subsets of a finite set has one with none of the others below it.
LEMMA LeastSubsetExists ==
  ASSUME NEW S, IsFiniteSet(S), NEW T \in SUBSET SUBSET S, T # {}
  PROVE  \E s \in T : s \in SUBSET S /\ \A t \in SUBSET s : t # s => t \notin T
<1>1. IsWellFoundedOn(StrictSubsetOrdering(S), SUBSET S)
  BY FS_StrictSubsetOrderingWellFounded, FS_FiniteSubsetsOfFinite
<1>2. PICK s \in T : \A t \in T : ~ (<<t, s>> \in StrictSubsetOrdering(S))
  BY <1>1, WFMin
<1>3. \A t \in SUBSET s : t # s => t \notin T
  BY <1>2 DEF StrictSubsetOrdering
<1> QED BY <1>3

First(s) == CHOOSE x \in s : TRUE

\* A function that is defined by taking the elements of a set one by one.
IsFold(g, F, base, S, V) ==
  /\ g \in [SUBSET S -> V]
  /\ \A s \in SUBSET S : g[s] = IF s = {} THEN base ELSE F[First(s)][g[s \ {First(s)}]]

LEMMA FoldExists ==
  ASSUME NEW S, IsFiniteSet(S), NEW V, NEW base \in V, NEW F \in [S -> [V -> V]]
  PROVE  \E g : IsFold(g, F, base, S, V)
<1> DEFINE Small(n) == {s \in SUBSET S : Cardinality(s) <= n}
           Folds(g, n) == \A s \in Small(n) : g[s] = IF s = {} THEN base ELSE F[First(s)][g[s \ {First(s)}]]
           T == {n \in Nat : \E g \in [Small(n) -> V] : Folds(g, n)}
<1>1. \A s \in SUBSET S : s # {} =>
        /\ First(s) \in s /\ First(s) \in S /\ s \ {First(s)} \in SUBSET S
        /\ Cardinality(s) \in Nat /\ Cardinality(s) # 0
        /\ Cardinality(s \ {First(s)}) = Cardinality(s) - 1
  <2> TAKE s \in SUBSET S
  <2> HAVE s # {}
  <2>1. IsFiniteSet(s)  BY FS_Subset
  <2>2. First(s) \in s  BY DEF First
  <2> QED BY <2>1, <2>2, FS_RemoveElement, FS_CardinalityType, FS_EmptySet
<1>2. {} \in SUBSET S /\ Cardinality({}) = 0  BY FS_EmptySet
<1>3. 0 \in T
  <2> DEFINE g == [s \in Small(0) |-> base]
  <2>1. \A s \in Small(0) : s = {}
    <3> SUFFICES ASSUME NEW s \in SUBSET S, Cardinality(s) <= 0, s # {} PROVE FALSE
      OBVIOUS
    <3>1. Cardinality(s) \in Nat /\ Cardinality(s) # 0  BY <1>1
    <3> QED BY <3>1
  <2>2. g \in [Small(0) -> V] /\ Folds(g, 0)  BY <2>1
  <2> HIDE DEF g
  <2> QED BY <2>2
<1>4. \A n \in T : n + 1 \in T
  <2> TAKE n \in T
  <2>1. PICK g \in [Small(n) -> V] : Folds(g, n)  OBVIOUS
  <2>2. n \in Nat  OBVIOUS
  <2> DEFINE h == [s \in Small(n + 1) |-> IF s \in Small(n) THEN g[s] ELSE F[First(s)][g[s \ {First(s)}]]]
  <2>3. \A s \in Small(n + 1) : s # {} => s \ {First(s)} \in Small(n) /\ s \ {First(s)} \in Small(n + 1)
    BY <1>1, <2>2
  <2>4. {} \in Small(n)  BY <1>2, <2>2
  <2>5. h \in [Small(n + 1) -> V]
    <3> SUFFICES ASSUME NEW s \in Small(n + 1), s \notin Small(n)
                 PROVE  F[First(s)][g[s \ {First(s)}]] \in V
      BY <2>1
    <3>1. s # {}  BY <2>4
    <3>2. First(s) \in S /\ g[s \ {First(s)}] \in V  BY <1>1, <2>1, <2>3, <3>1
    <3>3. F[First(s)] \in [V -> V]  BY <3>2
    <3> QED BY <3>2, <3>3
  <2>6. Folds(h, n + 1)
    <3> SUFFICES ASSUME NEW s \in Small(n + 1)
                 PROVE  h[s] = IF s = {} THEN base ELSE F[First(s)][h[s \ {First(s)}]]
      OBVIOUS
    <3>1. s # {} => h[s \ {First(s)}] = g[s \ {First(s)}]  BY <2>3
    <3>2. CASE s \in Small(n)
      <4>1. h[s] = g[s]  BY <3>2
      <4>2. g[s] = IF s = {} THEN base ELSE F[First(s)][g[s \ {First(s)}]]  BY <2>1, <3>2
      <4> QED BY <3>1, <4>1, <4>2
    <3>3. CASE s \notin Small(n)
      <4>1. h[s] = F[First(s)][g[s \ {First(s)}]] /\ s # {}  BY <2>4, <3>3
      <4> QED BY <3>1, <4>1
    <3> QED BY <3>2, <3>3
  <2> HIDE DEF h, Folds, Small
  <2> QED BY <2>2, <2>5, <2>6
<1>5. T = Nat
  <2>1. T \in SUBSET Nat  OBVIOUS
  <2> HIDE DEF T
  <2> QED BY <1>3, <1>4, <2>1, Induction
<1>6. Cardinality(S) \in Nat  BY FS_CardinalityType
<1>7. Small(Cardinality(S)) = SUBSET S
  <2>1. \A s \in SUBSET S : Cardinality(s) <= Cardinality(S)  BY FS_Subset
  <2> QED BY <2>1
<1>8. PICK g \in [Small(Cardinality(S)) -> V] : Folds(g, Cardinality(S))
  BY <1>5, <1>6
<1>9. g \in [SUBSET S -> V] /\ \A s \in SUBSET S : g[s] = IF s = {} THEN base ELSE F[First(s)][g[s \ {First(s)}]]
  BY <1>7, <1>8
<1> QED BY <1>9 DEF IsFold

-----------------------------------------------------------------------------
(* Sums.                                                                   *)

\* g has the sums of f over the subsets of S.
HasSums(g, f, S) ==
  /\ g \in [SUBSET S -> Int]
  /\ \A s \in SUBSET S :
       g[s] = IF s = {} THEN 0 ELSE f[First(s)] + g[s \ {First(s)}]

LEMMA SumExists ==
  ASSUME NEW S, IsFiniteSet(S), NEW f \in [S -> Int]
  PROVE  \E g : HasSums(g, f, S)
<1> DEFINE F == [x \in S |-> [a \in Int |-> f[x] + a]]
<1>1. F \in [S -> [Int -> Int]] /\ 0 \in Int  OBVIOUS
<1>2. PICK g : IsFold(g, F, 0, S, Int)
  <2> HIDE DEF F
  <2> QED BY <1>1, FoldExists
<1>3. g \in [SUBSET S -> Int]  BY <1>2 DEF IsFold
<1>4. \A s \in SUBSET S : g[s] = IF s = {} THEN 0 ELSE f[First(s)] + g[s \ {First(s)}]
  <2> TAKE s \in SUBSET S
  <2>1. s # {} => First(s) \in S /\ s \ {First(s)} \in SUBSET S  BY DEF First
  <2>2. g[s] = IF s = {} THEN 0 ELSE F[First(s)][g[s \ {First(s)}]]
    <3> HIDE DEF F
    <3> QED BY <1>2 DEF IsFold
  <2>3. s # {} => F[First(s)][g[s \ {First(s)}]] = f[First(s)] + g[s \ {First(s)}]
    BY <1>3, <2>1
  <2> HIDE DEF F
  <2> QED BY <2>2, <2>3
<1> QED BY <1>3, <1>4 DEF HasSums

\* The elements can be taken in any order.
InAnyOrder(g, f, S) == \A s \in SUBSET S : \A y \in s : g[s] = f[y] + g[s \ {y}]

LEMMA SumInAnyOrder ==
  ASSUME NEW S, IsFiniteSet(S), NEW f \in [S -> Int], NEW g, HasSums(g, f, S)
  PROVE  InAnyOrder(g, f, S)
<1> DEFINE Every(s) == \A y \in s : g[s] = f[y] + g[s \ {y}]
           T == {s \in SUBSET S : ~ Every(s)}
<1>1. g \in [SUBSET S -> Int] /\ \A s \in SUBSET S : s # {} => g[s] = f[First(s)] + g[s \ {First(s)}]
  BY DEF HasSums
<1> SUFFICES ASSUME T # {} PROVE FALSE
  BY DEF InAnyOrder
<1>2. PICK s \in T : \A t \in SUBSET s : t # s => t \notin T
  <2>1. T \in SUBSET SUBSET S  OBVIOUS
  <2> HIDE DEF T
  <2> QED BY <2>1, LeastSubsetExists
<1>3. \A t \in SUBSET s : t # s => Every(t)
  <2> TAKE t \in SUBSET s
  <2> HAVE t # s
  <2>1. t \in SUBSET S  OBVIOUS
  <2> HIDE DEF Every
  <2> QED BY <1>2, <2>1
<1>4. PICK y \in s : ~ (g[s] = f[y] + g[s \ {y}])  OBVIOUS
<1> DEFINE x == First(s)
<1>5. x \in s /\ g[s] = f[x] + g[s \ {x}]  BY <1>1, <1>4 DEF First
<1> HIDE DEF x, T, Every
<1>6. x # y  BY <1>4, <1>5
<1>7. g[s \ {x}] = f[y] + g[(s \ {x}) \ {y}]
  <2>1. s \ {x} \in SUBSET s /\ s \ {x} # s /\ y \in s \ {x}  BY <1>4, <1>5, <1>6
  <2> QED BY <1>3, <2>1 DEF Every
<1>8. g[s \ {y}] = f[x] + g[(s \ {y}) \ {x}]
  <2>1. s \ {y} \in SUBSET s /\ s \ {y} # s /\ x \in s \ {y}  BY <1>4, <1>5, <1>6
  <2> QED BY <1>3, <2>1 DEF Every
<1>9. (s \ {x}) \ {y} = (s \ {y}) \ {x}  OBVIOUS
<1> DEFINE k == g[(s \ {x}) \ {y}]
<1>10. f[x] \in Int /\ f[y] \in Int /\ k \in Int
  <2>1. s \in SUBSET S  BY DEF T
  <2> QED BY <1>1, <1>5, <2>1
<1>11. g[s] = f[x] + (f[y] + k) /\ g[s \ {y}] = f[x] + k  BY <1>5, <1>7, <1>8, <1>9
<1> HIDE DEF k
<1> QED BY <1>4, <1>10, <1>11

\* A sum of what is not positive is no more than any of it.
LEMMA SumIsAtMost ==
  ASSUME NEW S, IsFiniteSet(S), NEW f \in [S -> Int], NEW g, HasSums(g, f, S), \A x \in S : f[x] <= 0
  PROVE  (\A s \in SUBSET S : g[s] <= 0) /\ (\A s \in SUBSET S : \A x \in s : g[s] <= f[x])
<1> DEFINE T == {s \in SUBSET S : ~ (g[s] <= 0)}
<1>1. g \in [SUBSET S -> Int] /\ g[{}] = 0  BY DEF HasSums
<1>2. InAnyOrder(g, f, S)  BY SumInAnyOrder
<1>3. T = {}
  <2> SUFFICES ASSUME T # {} PROVE FALSE
    OBVIOUS
  <2>1. PICK s \in T : \A t \in SUBSET s : t # s => t \notin T
    <3>1. T \in SUBSET SUBSET S  OBVIOUS
    <3> HIDE DEF T
    <3> QED BY <3>1, LeastSubsetExists
  <2>2. PICK y \in s : TRUE  BY <1>1
  <2>3. s \ {y} \in SUBSET S /\ s \ {y} \subseteq s /\ s \ {y} # s  OBVIOUS
  <2>4. g[s \ {y}] <= 0  BY <2>1, <2>3
  <2>5. g[s] = f[y] + g[s \ {y}] /\ f[y] <= 0 /\ f[y] \in Int /\ g[s \ {y}] \in Int /\ g[s] \in Int
    BY <1>1, <1>2, <2>2, <2>3 DEF InAnyOrder
  <2>6. g[s] <= 0  BY <2>4, <2>5
  <2> QED BY <2>6
<1>4. \A s \in SUBSET S : g[s] <= 0  BY <1>3
<1>5. \A s \in SUBSET S : \A x \in s : g[s] <= f[x]
  <2> TAKE s \in SUBSET S
  <2> TAKE x \in s
  <2>1. g[s] = f[x] + g[s \ {x}] /\ g[s \ {x}] <= 0 /\ g[s \ {x}] \in Int /\ f[x] \in Int
    BY <1>1, <1>2, <1>4 DEF InAnyOrder
  <2> QED BY <2>1
<1> QED BY <1>4, <1>5

\* A sum of what is not negative is no less than any of it.
LEMMA SumIsAtLeast ==
  ASSUME NEW S, IsFiniteSet(S), NEW f \in [S -> Int], NEW g, HasSums(g, f, S), \A x \in S : 0 <= f[x]
  PROVE  (\A s \in SUBSET S : 0 <= g[s]) /\ (\A s \in SUBSET S : \A x \in s : f[x] <= g[s])
<1> DEFINE h == [x \in S |-> 0 - f[x]]
           k == [s \in SUBSET S |-> 0 - g[s]]
<1>1. g \in [SUBSET S -> Int]  BY DEF HasSums
<1>2. h \in [S -> Int] /\ (\A x \in S : h[x] <= 0 /\ h[x] = 0 - f[x]) /\ k \in [SUBSET S -> Int]
  BY <1>1
<1>3. HasSums(k, h, S)
  <2> SUFFICES ASSUME NEW s \in SUBSET S
               PROVE  k[s] = IF s = {} THEN 0 ELSE h[First(s)] + k[s \ {First(s)}]
    BY <1>2 DEF HasSums
  <2>1. CASE s = {}
    <3>1. g[s] = 0  BY <2>1 DEF HasSums
    <3> QED BY <2>1, <3>1
  <2>2. CASE s # {}
    <3> DEFINE x == First(s)
    <3>1. g[s] = f[x] + g[s \ {x}]  BY <2>2 DEF HasSums
    <3>2. x \in S  BY <2>2 DEF First
    <3> HIDE DEF x
    <3>3. s \ {x} \in SUBSET S  OBVIOUS
    <3>4. f[x] \in Int /\ g[s \ {x}] \in Int  BY <1>1, <3>2, <3>3
    <3>5. k[s] = h[x] + k[s \ {x}]  BY <3>1, <3>2, <3>3, <3>4
    <3> QED BY <2>2, <3>5 DEF x
  <2> QED BY <2>1, <2>2
<1>4. (\A s \in SUBSET S : k[s] <= 0) /\ (\A s \in SUBSET S : \A x \in s : k[s] <= h[x])
  <2> HIDE DEF h, k
  <2> QED BY <1>2, <1>3, SumIsAtMost
<1>5. \A s \in SUBSET S : g[s] \in Int /\ k[s] = 0 - g[s]  BY <1>1
<1>6. \A s \in SUBSET S : \A x \in s : f[x] \in Int /\ h[x] = 0 - f[x]  OBVIOUS
<1> HIDE DEF h, k
<1>7. \A s \in SUBSET S : 0 <= g[s]
  BY <1>4, <1>5
<1>8. \A s \in SUBSET S : \A x \in s : f[x] <= g[s]
  <2> TAKE s \in SUBSET S
  <2> TAKE x \in s
  <2>1. k[s] <= h[x] /\ k[s] = 0 - g[s] /\ h[x] = 0 - f[x] /\ g[s] \in Int /\ f[x] \in Int
    BY <1>4, <1>5, <1>6
  <2> QED BY <2>1
<1> QED BY <1>7, <1>8

\* Whatever is defined as a sum is one.
Sums(g, f, S) ==
  g = [s \in SUBSET S |-> IF s = {} THEN 0 ELSE f[First(s)] + g[s \ {First(s)}]]

LEMMA FoldIsSum ==
  ASSUME NEW S, IsFiniteSet(S), NEW f \in [S -> Int], NEW g, Sums(g, f, S)
  PROVE  HasSums(g, f, S)
<1> DEFINE T == {s \in SUBSET S : g[s] \notin Int}
<1>1. \A s \in SUBSET S : g[s] = IF s = {} THEN 0 ELSE f[First(s)] + g[s \ {First(s)}]
  BY DEF Sums
<1>2. T = {}
  <2> SUFFICES ASSUME T # {} PROVE FALSE
    OBVIOUS
  <2>1. PICK s \in T : \A t \in SUBSET s : t # s => t \notin T
    <3>1. T \in SUBSET SUBSET S  OBVIOUS
    <3> HIDE DEF T
    <3> QED BY <3>1, LeastSubsetExists
  <2>2. s # {} /\ g[s] = f[First(s)] + g[s \ {First(s)}]
    <3>1. s \in SUBSET S /\ g[s] \notin Int  OBVIOUS
    <3> HIDE DEF T
    <3>2. g[s] = IF s = {} THEN 0 ELSE f[First(s)] + g[s \ {First(s)}]  BY <1>1, <3>1
    <3> QED BY <3>1, <3>2
  <2>3. First(s) \in s /\ First(s) \in S  BY <2>2 DEF First
  <2>4. s \ {First(s)} \in SUBSET S /\ s \ {First(s)} \subseteq s /\ s \ {First(s)} # s  BY <2>3
  <2>5. g[s \ {First(s)}] \in Int  BY <2>1, <2>4
  <2>6. f[First(s)] \in Int  BY <2>3
  <2>7. g[s] \in Int  BY <2>2, <2>5, <2>6
  <2> QED BY <2>7
<1>3. g \in [SUBSET S -> Int]
  <2>1. \A s \in SUBSET S : g[s] \in Int  BY <1>2
  <2>2. DOMAIN g = SUBSET S /\ g = [s \in DOMAIN g |-> g[s]]  BY DEF Sums
  <2> HIDE DEF T
  <2> QED BY <2>1, <2>2
<1> QED BY <1>1, <1>3 DEF HasSums

LEMMA SumsAre ==
  ASSUME NEW S, IsFiniteSet(S), NEW f \in [S -> Int]
  PROVE  HasSums(CHOOSE g : Sums(g, f, S), f, S)
<1>1. PICK g : HasSums(g, f, S)  BY SumExists
<1>2. Sums(g, f, S)
  BY <1>1 DEF HasSums, Sums
<1>3. Sums(CHOOSE h : Sums(h, f, S), f, S)  BY <1>2
<1> QED BY <1>3, FoldIsSum

-----------------------------------------------------------------------------
(* The initial solution.                                                   *)

\* The numbers of the vertices that come next.
LEMMA Successor ==
  ASSUME NEW tour \in Tours
  PROVE  /\ Len(tour) \in Nat /\ Len(tour) > 1 /\ tour \in Seq(Vertices)
         /\ \A i \in 0 .. Len(tour) : successor(tour, i) \in Vertices
         /\ \A i \in 1 .. Len(tour) : tour[i] \in Vertices /\ successor(tour, i - 1) = tour[i]
         /\ tour[1] = Root /\ successor(tour, Len(tour)) = Root
         /\ \A i \in 1 .. Len(tour) : tour[i] # successor(tour, i) /\ <<tour[i], successor(tour, i)>> \in Arcs
         /\ \A i \in 1 .. Len(tour) - 1 : successor(tour, i) # Root
<1>1. tour \in Seq(Vertices) /\ Len(tour) \in Nat /\ Len(tour) > 1 /\ tour[1] = Root
  BY DistanceAssumption, ToursAssumption
<1>2. \A i, j \in 1 .. Len(tour) : tour[i] = tour[j] => i = j
  BY <1>1, ToursAssumption DEF IsInjective
<1>3. \A i \in 1 .. Len(tour) : tour[i] \in Vertices
  BY <1>1
<1>4. \A i \in 0 .. Len(tour) : successor(tour, i) = IF i = Len(tour) THEN tour[1] ELSE tour[i + 1]
  BY DEF successor
<1>5. \A i \in 0 .. Len(tour) : i # Len(tour) => i + 1 \in 1 .. Len(tour)
  BY <1>1
<1>6. 1 \in 1 .. Len(tour)
  BY <1>1
<1>7. \A i \in 0 .. Len(tour) : successor(tour, i) \in Vertices
  BY <1>3, <1>4, <1>5, <1>6
<1>8. \A i \in 1 .. Len(tour) : successor(tour, i - 1) = tour[i]
  <2> TAKE i \in 1 .. Len(tour)
  <2>1. i - 1 \in 0 .. Len(tour) /\ i - 1 # Len(tour) /\ (i - 1) + 1 = i
    BY <1>1
  <2> QED
    BY <1>4, <2>1
<1>9. Len(tour) \in 0 .. Len(tour)
  BY <1>1
<1>10. \A i \in 1 .. Len(tour) : i \in 0 .. Len(tour) /\ i + 1 # i /\ (i = Len(tour) => i # 1)
  BY <1>1
<1>11. \A i \in 1 .. Len(tour) : tour[i] # successor(tour, i)
  BY <1>2, <1>4, <1>5, <1>6, <1>10
<1>12. \A i \in 1 .. Len(tour) - 1 : successor(tour, i) # Root
  <2> TAKE i \in 1 .. Len(tour) - 1
  <2>1. i \in 0 .. Len(tour) /\ i # Len(tour) /\ i + 1 \in 1 .. Len(tour) /\ i + 1 # 1
    BY <1>1
  <2> QED
    BY <1>1, <1>2, <1>4, <1>6, <2>1
<1> QED
  BY <1>1, <1>3, <1>4, <1>7, <1>8, <1>9, <1>11, <1>12, ToursAssumption

\* Arrivals are defined from one vertex of the tour to the next.
IsTimetable(g, k, tour, d) ==
  g = [i \in 0 .. k |-> IF i = 0 THEN 0 ELSE g[i - 1] + d[<<tour[i], successor(tour, i)>>][g[i - 1]]]

LEMMA ArrivalsAre ==
  ASSUME NEW tour \in Tours, NEW d \in DistanceFuncs
  PROVE  /\ arrivals(tour, d)[0] = 0
         /\ \A i \in 1 .. Len(tour) :
              arrivals(tour, d)[i] = arrivals(tour, d)[i - 1]
                                     + d[<<tour[i], successor(tour, i)>>][arrivals(tour, d)[i - 1]]
         /\ \A i \in 0 .. Len(tour) : arrivals(tour, d)[i] \in 0 .. MaxTime
<1> DEFINE S == {k \in Nat : \E g : IsTimetable(g, k, tour, d)}
<1>1. 0 \in S
  <2> DEFINE g == [i \in 0 .. 0 |-> 0]
  <2>1. IsTimetable(g, 0, tour, d)  BY DEF IsTimetable
  <2> QED BY <2>1
<1>2. \A k \in S : k + 1 \in S
  <2> SUFFICES ASSUME NEW k \in Nat, NEW g, IsTimetable(g, k, tour, d)
               PROVE  \E h : IsTimetable(h, k + 1, tour, d)
    OBVIOUS
  <2> DEFINE F(i, x) == x + d[<<tour[i], successor(tour, i)>>][x]
             h == [i \in 0 .. k + 1 |-> IF i = k + 1 THEN F(i, g[k]) ELSE g[i]]
  <2>1. \A i \in 0 .. k : g[i] = IF i = 0 THEN 0 ELSE F(i, g[i - 1])
    BY DEF IsTimetable
  <2> HIDE DEF F
  <2>2. \A i \in 0 .. k + 1 : h[i] = IF i = 0 THEN 0 ELSE F(i, h[i - 1])
    <3> TAKE i \in 0 .. k + 1
    <3>1. CASE i = k + 1
      <4>1. i # 0 /\ i - 1 = k /\ k \in 0 .. k + 1 /\ k # k + 1  BY <3>1
      <4> QED BY <3>1, <4>1
    <3>2. CASE i # k + 1
      <4>1. i \in 0 .. k /\ h[i] = g[i]  BY <3>2
      <4>2. i # 0 => i - 1 \in 0 .. k + 1 /\ i - 1 # k + 1 /\ h[i - 1] = g[i - 1]  BY <4>1
      <4> QED BY <2>1, <4>1, <4>2
    <3> QED BY <3>1, <3>2
  <2>3. h = [i \in 0 .. k + 1 |-> h[i]]  OBVIOUS
  <2> HIDE DEF h
  <2>4. h = [i \in 0 .. k + 1 |-> IF i = 0 THEN 0 ELSE F(i, h[i - 1])]
    BY <2>2, <2>3
  <2>5. IsTimetable(h, k + 1, tour, d)
    BY <2>4 DEF IsTimetable, F
  <2> QED BY <2>5
<1>3. S = Nat
  <2>1. S \in SUBSET Nat  OBVIOUS
  <2> HIDE DEF S
  <2> QED BY <1>1, <1>2, <2>1, Induction
<1>4. Len(tour) \in Nat
  BY Successor
<1>5. \E g : IsTimetable(g, Len(tour), tour, d)
  BY <1>3, <1>4
<1>6. arrivals(tour, d) = CHOOSE g : IsTimetable(g, Len(tour), tour, d)
  BY DEF arrivals, IsTimetable
<1>7. IsTimetable(arrivals(tour, d), Len(tour), tour, d)
  BY <1>5, <1>6
<1>8. \A i \in 0 .. Len(tour) :
        arrivals(tour, d)[i] =
          IF i = 0 THEN 0
          ELSE arrivals(tour, d)[i - 1] + d[<<tour[i], successor(tour, i)>>][arrivals(tour, d)[i - 1]]
  <2> DEFINE A == arrivals(tour, d)
  <2>1. A = [i \in 0 .. Len(tour) |-> IF i = 0 THEN 0 ELSE A[i - 1] + d[<<tour[i], successor(tour, i)>>][A[i - 1]]]
    BY <1>7 DEF IsTimetable
  <2> HIDE DEF A
  <2>2. \A i \in 0 .. Len(tour) : A[i] = IF i = 0 THEN 0 ELSE A[i - 1] + d[<<tour[i], successor(tour, i)>>][A[i - 1]]
    BY <2>1
  <2> QED BY <2>2 DEF A
<1>9. 0 \in 0 .. Len(tour) /\ \A i \in 1 .. Len(tour) : i \in 0 .. Len(tour) /\ i # 0
  BY <1>4
<1> QED
  BY <1>8, <1>9, DistanceAssumption

\* Where a tour is, and the edges that lead there.
Place(tour, i) == [vertex |-> successor(tour, i), time |-> arrivals(tour, distances)[i]]
Leg(tour, i) == [source |-> Place(tour, i - 1), target |-> Place(tour, i)]

LEMMA Legs ==
  ASSUME TypeOK, NEW tour \in Tours
  PROVE  /\ Place(tour, 0) = Start
         /\ \A i \in 0 .. Len(tour) : Place(tour, i) \in [vertex : Vertices, time : 0 .. MaxTime]
         /\ Place(tour, Len(tour)) = [vertex |-> Root, time |-> cost(tour, distances)]
         /\ \A i \in 1 .. Len(tour) :
              /\ Leg(tour, i) = Edge(<<tour[i], successor(tour, i)>>, Place(tour, i - 1).time)
              /\ Place(tour, i).time = Place(tour, i - 1).time
                   + distances[<<tour[i], successor(tour, i)>>][Place(tour, i - 1).time]
              /\ Place(tour, i - 1).time < Place(tour, i).time
              /\ Place(tour, i - 1).vertex = tour[i] /\ Place(tour, i).vertex = successor(tour, i)
              /\ ~ IsEnd(Place(tour, i - 1))
         /\ IsEnd(Place(tour, Len(tour)))
<1> DEFINE A == arrivals(tour, distances)
           n == Len(tour)
<1>1. distances \in DistanceFuncs
  BY DEF TypeOK
<1>2. /\ A[0] = 0
      /\ \A i \in 1 .. n : A[i] = A[i - 1] + distances[<<tour[i], successor(tour, i)>>][A[i - 1]]
      /\ \A i \in 0 .. n : A[i] \in 0 .. MaxTime
  BY <1>1, ArrivalsAre
<1>3. /\ n \in Nat /\ n > 1 /\ tour[1] = Root
      /\ \A i \in 0 .. n : successor(tour, i) \in Vertices
      /\ \A i \in 1 .. n : tour[i] \in Vertices /\ successor(tour, i - 1) = tour[i]
      /\ successor(tour, n) = Root
      /\ \A i \in 1 .. n : tour[i] # successor(tour, i)
      /\ \A i \in 1 .. n - 1 : successor(tour, i) # Root
  BY Successor
<1>4. \A i \in 0 .. n : Place(tour, i).vertex = successor(tour, i) /\ Place(tour, i).time = A[i]
  BY DEF Place
<1>5. \A i \in 1 .. n : i \in 0 .. n /\ i - 1 \in 0 .. n /\ (i - 1 # 0 => i - 1 \in 1 .. n - 1)
  BY <1>3
<1>6. n \in 0 .. n /\ 0 \in 0 .. n /\ 1 \in 1 .. n /\ 1 - 1 = 0
  BY <1>3
<1>7. cost(tour, distances) = A[n]
  BY DEF cost
<1>8. Place(tour, 0) = Start
  BY <1>2, <1>3, <1>6 DEF Place, Start
<1>9. \A i \in 0 .. n : Place(tour, i) \in [vertex : Vertices, time : 0 .. MaxTime]
  BY <1>2, <1>3 DEF Place
<1>10. Place(tour, n) = [vertex |-> Root, time |-> cost(tour, distances)]
  BY <1>3, <1>7 DEF Place
<1> HIDE DEF A, n
<1>11. ASSUME NEW i \in 1 .. n
       PROVE  /\ Leg(tour, i) = Edge(<<tour[i], successor(tour, i)>>, Place(tour, i - 1).time)
              /\ Place(tour, i).time = Place(tour, i - 1).time
                   + distances[<<tour[i], successor(tour, i)>>][Place(tour, i - 1).time]
              /\ Place(tour, i - 1).time < Place(tour, i).time
              /\ Place(tour, i - 1).vertex = tour[i] /\ Place(tour, i).vertex = successor(tour, i)
              /\ ~ IsEnd(Place(tour, i - 1))
  <2>1. distances[<<tour[i], successor(tour, i)>>][A[i - 1]] \in Nat \ {0}
    BY <1>2, <1>3, <1>5, Travel
  <2>2. A[i - 1] < A[i] /\ A[i] = A[i - 1] + distances[<<tour[i], successor(tour, i)>>][A[i - 1]]
    BY <1>2, <1>5, <2>1
  <2>3. /\ Place(tour, i - 1).vertex = tour[i] /\ Place(tour, i).vertex = successor(tour, i)
        /\ Place(tour, i - 1).time = A[i - 1] /\ Place(tour, i).time = A[i]
    BY <1>3, <1>4, <1>5
  <2>4. Leg(tour, i) = Edge(<<tour[i], successor(tour, i)>>, Place(tour, i - 1).time)
    <3>1. Place(tour, i - 1) = [vertex |-> tour[i], time |-> A[i - 1]]
      BY <1>3 DEF Place, A
    <3>2. Place(tour, i) = [vertex |-> successor(tour, i), time |-> A[i]]
      BY DEF Place, A
    <3> QED
      BY <2>2, <2>3, <3>1, <3>2 DEF Leg, Edge
  <2>5. ~ IsEnd(Place(tour, i - 1))
    <3>1. CASE i - 1 = 0
      BY <1>8, <3>1 DEF IsEnd, Start
    <3>2. CASE i - 1 # 0
      BY <1>3, <1>4, <1>5, <3>2 DEF IsEnd
    <3> QED
      BY <3>1, <3>2
  <2> QED
    BY <2>2, <2>3, <2>4, <2>5
<1>12. IsEnd(Place(tour, n))
  <2>1. n \in 1 .. n
    BY <1>3
  <2>2. A[n - 1] < A[n] /\ A[n - 1] \in Nat /\ A[n] \in Nat
    <3>1. n \in 0 .. n /\ n - 1 \in 0 .. n
      BY <1>3
    <3>2. A[n - 1] \in Nat /\ A[n] \in Nat
      BY <1>2, <3>1
    <3>3. Place(tour, n - 1).time = A[n - 1] /\ Place(tour, n).time = A[n]
      BY <1>4, <3>1
    <3>4. Place(tour, n - 1).time < Place(tour, n).time
      BY <1>11, <2>1
    <3> QED
      BY <3>2, <3>3, <3>4
  <2>3. A[n] > 0
    BY <2>2
  <2> QED
    BY <1>3, <1>4, <1>6, <2>3 DEF IsEnd
<1> QED
  BY <1>8, <1>9, <1>10, <1>11, <1>12 DEF n

\* Who goes round a tour can be home in time, wherever he is.
LEMMA LegsLeadHome ==
  ASSUME TypeOK, NEW tour \in Tours, cost(tour, distances) = timeHorizon
  PROVE  \A i \in 0 .. Len(tour) : sourceTime(Place(tour, i)) <= timeHorizon
<1> DEFINE n == Len(tour)
           Home(i) == sourceTime(Place(tour, i))
           S == {k \in Nat : k <= n => Home(n - k) <= timeHorizon}
<1>1. /\ n \in Nat /\ n > 1
      /\ \A i \in 1 .. n : tour[i] \in Vertices /\ successor(tour, i) \in Vertices
  BY Successor
<1>2. Root \in Vertices /\ MaxTime \in Nat /\ timeHorizon \in 0 .. MaxTime
  BY Travel DEF TypeOK
<1>3. /\ \A i \in 0 .. n : Place(tour, i) \in [vertex : Vertices, time : 0 .. MaxTime]
      /\ Place(tour, n) = [vertex |-> Root, time |-> timeHorizon]
      /\ \A i \in 1 .. n :
           /\ Place(tour, i).time = Place(tour, i - 1).time
                + distances[<<tour[i], successor(tour, i)>>][Place(tour, i - 1).time]
           /\ Place(tour, i - 1).vertex = tour[i] /\ Place(tour, i).vertex = successor(tour, i)
  BY Legs
<1>4. Home(n) <= timeHorizon
  <2>1. distances[<<Root, Root>>][timeHorizon] = 0
    BY <1>2, Travel
  <2> QED
    BY <1>2, <1>3, <2>1 DEF sourceTime
<1>5. \A i \in 1 .. n : Home(i - 1) <= Home(i)
  <2> TAKE i \in 1 .. n
  <2> DEFINE t == Place(tour, i - 1).time
             u == Place(tour, i).time
  <2>1. i - 1 \in 0 .. n /\ i \in 0 .. n
    BY <1>1
  <2>2. t \in 0 .. MaxTime /\ u \in 0 .. MaxTime
    BY <1>3, <2>1
  <2>3. /\ u = t + distances[<<tour[i], successor(tour, i)>>][t]
        /\ Home(i - 1) = t + distances[<<tour[i], Root>>][t]
        /\ Home(i) = u + distances[<<successor(tour, i), Root>>][u]
    BY <1>3, <2>1 DEF sourceTime
  <2> HIDE DEF t, u, Home
  <2>4. t + distances[<<tour[i], Root>>][t] <= u + distances[<<successor(tour, i), Root>>][u]
    <3>1. u <= MaxTime
      BY <1>2, <2>2
    <3> QED
      BY <1>1, <2>2, <2>3, <3>1, NoShortcut
  <2> QED
    BY <2>3, <2>4
<1>6. \A i \in 0 .. n : Home(i) \in Nat
  <2> TAKE i \in 0 .. n
  <2>1. Place(tour, i).vertex \in Vertices /\ Place(tour, i).time \in 0 .. MaxTime
    BY <1>3
  <2>2. distances[<<Place(tour, i).vertex, Root>>][Place(tour, i).time] \in Nat
    BY <1>2, <2>1, Travel
  <2> QED
    BY <2>1, <2>2 DEF sourceTime
<1> HIDE DEF Home
<1>7. 0 \in S
  BY <1>1, <1>4
<1>8. \A k \in S : k + 1 \in S
  <2> SUFFICES ASSUME NEW k \in Nat, k + 1 <= n, k <= n => Home(n - k) <= timeHorizon
               PROVE  Home(n - (k + 1)) <= timeHorizon
    OBVIOUS
  <2>1. n - k \in 1 .. n /\ n - k \in 0 .. n /\ (n - k) - 1 = n - (k + 1) /\ n - (k + 1) \in 0 .. n
    BY <1>1
  <2>2. Home(n - (k + 1)) <= Home(n - k)
    BY <1>5, <2>1
  <2>3. Home(n - (k + 1)) \in Nat /\ Home(n - k) \in Nat /\ timeHorizon \in Nat
    BY <1>2, <1>6, <2>1
  <2>4. Home(n - k) <= timeHorizon
    BY <1>1
  <2> QED
    BY <2>2, <2>3, <2>4
<1>9. S = Nat
  <2>1. S \in SUBSET Nat  OBVIOUS
  <2> HIDE DEF S
  <2> QED BY <1>7, <1>8, <2>1, Induction
<1> SUFFICES ASSUME NEW i \in 0 .. n PROVE Home(i) <= timeHorizon
  BY DEF Home
<1>10. n - i \in Nat /\ n - i <= n /\ n - (n - i) = i
  BY <1>1
<1>11. n - i \in S
  <2> HIDE DEF S
  <2> QED BY <1>9, <1>10
<1> QED
  BY <1>10, <1>11

\* The network is expanded, with no bound on the times of return.
Expanded == IInv /\ Done /\ lowerBound = 0

\* It has the edges of the tour it was expanded from.
LEMMA LegsAreEdges ==
  ASSUME Expanded, NEW tour \in Tours, cost(tour, distances) = timeHorizon
  PROVE  \A i \in 1 .. Len(tour) : Leg(tour, i) \in edges
<1> DEFINE n == Len(tour)
           S == {k \in Nat : k <= n => Place(tour, k) \in vertices /\ (k # 0 => Leg(tour, k) \in edges)}
<1>1. TypeOK /\ NetworkIsSound /\ Closed /\ unprocessed = {} /\ lowerBound = 0
  BY DEF Expanded, IInv, Done
<1>2. n \in Nat /\ \A i \in 1 .. n : /\ <<tour[i], successor(tour, i)>> \in Arcs
                                     /\ tour[i] # successor(tour, i)
  BY Successor
<1>3. /\ Place(tour, 0) = Start
      /\ \A i \in 0 .. n : Place(tour, i) \in [vertex : Vertices, time : 0 .. MaxTime]
      /\ \A i \in 1 .. n :
           /\ Leg(tour, i) = Edge(<<tour[i], successor(tour, i)>>, Place(tour, i - 1).time)
           /\ Place(tour, i - 1).vertex = tour[i] /\ ~ IsEnd(Place(tour, i - 1))
  BY <1>1, Legs
<1>4. \A i \in 0 .. n : sourceTime(Place(tour, i)) <= timeHorizon
  BY <1>1, LegsLeadHome
<1>5. 0 \in S
  BY <1>1, <1>3 DEF NetworkIsSound
<1>6. \A k \in S : k + 1 \in S
  <2> SUFFICES ASSUME NEW k \in Nat, k + 1 <= n, k <= n => Place(tour, k) \in vertices
               PROVE  Place(tour, k + 1) \in vertices /\ Leg(tour, k + 1) \in edges
    OBVIOUS
  <2> DEFINE i == k + 1
             a == <<tour[i], successor(tour, i)>>
             v == Place(tour, k)
  <2>1. i \in 1 .. n /\ i - 1 = k /\ i \in 0 .. n /\ k \in 0 .. n /\ k <= n
    BY <1>2
  <2>2. /\ Leg(tour, i) = Edge(a, v.time) /\ v.vertex = tour[i] /\ ~ IsEnd(v)
        /\ a \in Arcs /\ tour[i] # successor(tour, i)
    BY <1>2, <1>3, <2>1
  <2>3. a[1] = tour[i] /\ a[2] = successor(tour, i)
    OBVIOUS
  <2>4. Leg(tour, i).target = Place(tour, i)
    BY DEF Leg
  <2>5. Place(tour, i).vertex \in Vertices /\ Place(tour, i).time \in 0 .. MaxTime
        /\ sourceTime(Place(tour, i)) <= timeHorizon
    BY <1>3, <1>4, <2>1
  <2>6. distances[<<Place(tour, i).vertex, Root>>][Place(tour, i).time] \in Nat
    BY <1>1, <2>5, Travel
  <2>7. Place(tour, i).time <= timeHorizon /\ Place(tour, i).time >= lowerBound
    BY <1>1, <2>5, <2>6, Travel DEF sourceTime
  <2> HIDE DEF a, v, i
  <2>8. Kept(Leg(tour, i))
    BY <2>4, <2>5, <2>7 DEF Kept
  <2>9. v \in vertices \ unprocessed
    BY <1>1, <2>1 DEF v
  <2>10. Edge(a, v.time) \in edges /\ Edge(a, v.time).target \in vertices
    BY <1>1, <2>2, <2>3, <2>8, <2>9 DEF Closed
  <2> QED
    BY <2>2, <2>4, <2>10 DEF i
<1>7. S = Nat
  <2>1. S \in SUBSET Nat  OBVIOUS
  <2> HIDE DEF S
  <2> QED BY <1>5, <1>6, <2>1, Induction
<1> SUFFICES ASSUME NEW i \in 1 .. n PROVE Leg(tour, i) \in edges
  OBVIOUS
<1>8. i \in Nat /\ i <= n /\ i # 0
  BY <1>2
<1>9. i \in S
  <2> HIDE DEF S
  <2> QED BY <1>7, <1>8
<1> QED
  BY <1>8, <1>9

-----------------------------------------------------------------------------
(* Journeys.                                                               *)

\* Edges that leave the start one after the other.
Chain(p) ==
  /\ p \in Seq(edges)
  /\ p # <<>> => p[1].source = Start
  /\ \A i \in 1 .. Len(p) - 1 : p[i].target = p[i + 1].source

Chains(n) == {p \in Seq(edges) : Len(p) <= n /\ Chain(p)}

LEMMA EndOfChain ==
  ASSUME NEW p \in Seq(edges)
  PROVE  EndOf(p) = IF p = <<>> THEN Start ELSE p[Len(p)].target
BY DEF EndOf, Last

\* A chain without its last edge, which goes on from where the others end.
LEMMA ShorterChain ==
  ASSUME NEW q, Chain(q), q # <<>>
  PROVE  \E p, e : /\ p \in Seq(edges) /\ Len(p) = Len(q) - 1 /\ Chain(p)
                   /\ e \in edges /\ e.source = EndOf(p) /\ q = Append(p, e)
<1> DEFINE n == Len(q) - 1
           p == SubSeq(q, 1, n)
           e == q[n + 1]
<1>1. /\ q \in Seq(edges) /\ Len(q) \in Nat \ {0} /\ n \in Nat /\ n + 1 = Len(q)
      /\ \A i \in 1 .. n : q[i].target = q[i + 1].source
  <2>1. q \in Seq(edges) /\ q # <<>>  BY DEF Chain
  <2> QED BY <2>1 DEF Chain
<1>2. p \in Seq(edges) /\ Len(p) = n /\ \A i \in 1 .. n : p[i] = q[i]
  BY <1>1, SubSeqProperties
<1>3. e \in edges /\ q = Append(p, e)
  <2>1. n + 1 \in 1 .. Len(q)  BY <1>1
  <2>2. e \in edges  BY <1>1, <2>1
  <2> HIDE DEF p
  <2>3. Append(p, e) \in Seq(edges) /\ Len(Append(p, e)) = n + 1
    BY <1>2, <2>2
  <2>4. \A i \in 1 .. n + 1 : Append(p, e)[i] = q[i]
    BY <1>1, <1>2, <2>2
  <2> HIDE DEF n
  <2> QED BY <1>1, <1>2, <2>2, <2>3, <2>4, SeqEqual
<1> HIDE DEF p, e, n
<1>4. Chain(p)
  <2>1. p # <<>> => p[1] = q[1] /\ q # <<>>  BY <1>1, <1>2
  <2>2. \A i \in 1 .. Len(p) - 1 : p[i].target = p[i + 1].source
    <3> TAKE i \in 1 .. Len(p) - 1
    <3>1. i \in 1 .. n /\ i + 1 \in 1 .. n  BY <1>1, <1>2
    <3> QED BY <1>1, <1>2, <3>1
  <2> QED BY <1>1, <1>2, <2>1, <2>2 DEF Chain
<1>5. e.source = EndOf(p)
  <2>1. CASE n = 0
    <3>1. p = <<>>  BY <1>2, <2>1
    <3>2. e.source = Start  BY <1>1, <2>1 DEF Chain, e
    <3> QED BY <3>1, <3>2 DEF EndOf
  <2>2. CASE n # 0
    <3>1. p # <<>> /\ n \in 1 .. n  BY <1>1, <1>2, <2>2
    <3>2. EndOf(p) = q[n].target  BY <1>2, <3>1, EndOfChain
    <3> QED BY <1>1, <3>1, <3>2 DEF e
  <2> QED BY <2>1, <2>2
<1>6. Len(p) = Len(q) - 1
  BY <1>2 DEF n
<1> QED BY <1>2, <1>3, <1>4, <1>5, <1>6

\* A chain and an edge that leaves its end make a longer one.
LEMMA LongerChain ==
  ASSUME NEW p, Chain(p), NEW e \in edges, e.source = EndOf(p)
  PROVE  Append(p, e) \in Seq(edges) /\ Len(Append(p, e)) = Len(p) + 1 /\ Chain(Append(p, e))
<1> DEFINE q == Append(p, e)
           n == Len(p)
<1>1. p \in Seq(edges) /\ n \in Nat  BY DEF Chain
<1>2. /\ q \in Seq(edges) /\ Len(q) = n + 1 /\ q # <<>>
      /\ q[n + 1] = e /\ \A i \in 1 .. n : q[i] = p[i]
  BY <1>1
<1> HIDE DEF q
<1>3. q[1].source = Start
  <2>1. CASE n = 0
    <3>1. p = <<>> /\ q[1] = e  BY <1>1, <1>2, <2>1
    <3>2. e.source = Start  BY <3>1 DEF EndOf
    <3> QED BY <3>1, <3>2
  <2>2. CASE n # 0
    <3>1. p # <<>> /\ 1 \in 1 .. n  BY <1>1, <2>2
    <3> QED BY <1>2, <3>1 DEF Chain
  <2> QED BY <2>1, <2>2
<1>4. \A i \in 1 .. Len(q) - 1 : q[i].target = q[i + 1].source
  <2> TAKE i \in 1 .. Len(q) - 1
  <2>1. i \in 1 .. n  BY <1>1, <1>2
  <2>2. CASE i = n
    <3>1. p # <<>> /\ EndOf(p) = p[n].target  BY <1>1, <2>1, <2>2, EndOfChain
    <3> QED BY <1>2, <2>1, <2>2, <3>1
  <2>3. CASE i # n
    <3>1. i \in 1 .. Len(p) - 1 /\ i + 1 \in 1 .. n  BY <1>1, <2>1, <2>3
    <3> QED BY <1>2, <2>1, <3>1 DEF Chain
  <2> QED BY <2>2, <2>3
<1> QED BY <1>1, <1>2, <1>3, <1>4 DEF Chain, q

LEMMA LongerChains ==
  ASSUME NEW n \in Nat
  PROVE  Chains(n) \cup Longer(Chains(n)) = Chains(n + 1)
<1>1. ASSUME NEW q \in Longer(Chains(n))
      PROVE  q \in Chains(n + 1)
  <2>1. PICK p \in Chains(n) : \E e \in edges : e.source = EndOf(p) /\ q = Append(p, e)
    BY <1>1 DEF Longer
  <2>2. PICK e \in edges : e.source = EndOf(p) /\ q = Append(p, e)
    BY <2>1
  <2>3. p \in Seq(edges) /\ Len(p) \in Nat /\ Len(p) <= n /\ Chain(p)  BY DEF Chains
  <2>4. q \in Seq(edges) /\ Len(q) = Len(p) + 1 /\ Chain(q)
    BY <2>2, <2>3, LongerChain
  <2>5. Len(q) <= n + 1  BY <2>3, <2>4
  <2> QED BY <2>4, <2>5 DEF Chains
<1>2. ASSUME NEW q \in Chains(n)
      PROVE  q \in Chains(n + 1)
  BY DEF Chains
<1>3. ASSUME NEW q \in Chains(n + 1)
      PROVE  q \in Chains(n) \cup Longer(Chains(n))
  <2>1. q \in Seq(edges) /\ Len(q) \in Nat /\ Len(q) <= n + 1 /\ Chain(q)  BY <1>3 DEF Chains
  <2>2. CASE q = <<>>
    <3>1. Len(q) <= n  BY <2>2
    <3> QED BY <2>1, <3>1 DEF Chains
  <2>3. CASE q # <<>>
    <3>1. PICK p, e : /\ p \in Seq(edges) /\ Len(p) = Len(q) - 1 /\ Chain(p)
                      /\ e \in edges /\ e.source = EndOf(p) /\ q = Append(p, e)
      BY <2>1, <2>3, ShorterChain
    <3>2. Len(p) <= n  BY <2>1, <3>1
    <3>3. p \in Chains(n)  BY <3>1, <3>2 DEF Chains
    <3> QED BY <3>1, <3>3 DEF Longer
  <2> QED BY <2>2, <2>3
<1> QED BY <1>1, <1>2, <1>3

\* Journeys are the edges of the chains that end at the source.
Routes == {p \in Seq(edges) : Chain(p) /\ Len(p) <= timeHorizon /\ p # <<>> /\ IsEnd(p[Len(p)].target)}

LEMMA JourneysAre ==
  ASSUME timeHorizon \in Nat
  PROVE  Journeys = {Range(p) : p \in Routes}
<1> DEFINE V == SUBSET Seq(edges)
           F == [set \in V |-> set \cup Longer(set)]
           Extends(h) == h = [k \in 0 .. timeHorizon |-> IF k = 0 THEN {<<>>} ELSE h[k - 1] \cup Longer(h[k - 1])]
           Upto == CHOOSE h : Extends(h)
<1>1. F \in [V -> V] /\ {<<>>} \in V
  <2>1. ASSUME NEW set \in V PROVE Longer(set) \in V
    <3>1. \A p \in set : \A e \in edges : Append(p, e) \in Seq(edges)  BY <2>1
    <3> QED BY <3>1 DEF Longer
  <2> QED BY <2>1
<1>2. PICK g : IsIteration(g, F, {<<>>}, timeHorizon, V)
  <2> HIDE DEF F, V
  <2> QED BY <1>1, IterationExists
<1>3. Extends(g)
  <2>1. \A k \in 0 .. timeHorizon : k # 0 => k - 1 \in 0 .. timeHorizon  OBVIOUS
  <2>2. \A k \in 0 .. timeHorizon : k # 0 => F[g[k - 1]] = g[k - 1] \cup Longer(g[k - 1])
    BY <1>2, <2>1 DEF IsIteration
  <2> HIDE DEF F, V
  <2> QED BY <1>2, <2>2 DEF IsIteration
<1>4. Journeys = {Range(p) : p \in {p \in Upto[timeHorizon] : IsEnd(EndOf(p))}}
  BY DEF Journeys
<1>5. Extends(Upto)
  <2> HIDE DEF Extends
  <2> QED BY <1>3
<1> DEFINE S == {k \in Nat : k <= timeHorizon => Upto[k] = Chains(k)}
<1> HIDE DEF Upto
<1>6. 0 \in S
  <2>1. Upto[0] = {<<>>}  BY <1>5
  <2>2. Chains(0) = {<<>>}
    <3>1. \A p \in Seq(edges) : Len(p) <= 0 => p = <<>>  OBVIOUS
    <3>2. <<>> \in Seq(edges) /\ Len(<<>>) = 0  OBVIOUS
    <3>3. Chain(<<>>)  BY <3>2 DEF Chain
    <3>4. \A p \in Chains(0) : p = <<>>  BY <3>1 DEF Chains
    <3>5. <<>> \in Chains(0)  BY <3>2, <3>3 DEF Chains
    <3> QED BY <3>4, <3>5
  <2> QED BY <2>1, <2>2
<1>7. \A k \in S : k + 1 \in S
  <2> SUFFICES ASSUME NEW k \in S, k + 1 <= timeHorizon
               PROVE  Upto[k + 1] = Chains(k + 1)
    OBVIOUS
  <2>1. k \in Nat /\ k + 1 \in 0 .. timeHorizon /\ k + 1 # 0 /\ (k + 1) - 1 = k /\ k <= timeHorizon
    OBVIOUS
  <2>2. Upto[k + 1] = Upto[k] \cup Longer(Upto[k])
    <3> HIDE DEF S
    <3> QED BY <1>5, <2>1
  <2>3. Upto[k] = Chains(k)  BY <2>1
  <2> HIDE DEF S, Extends
  <2> QED BY <2>1, <2>2, <2>3, LongerChains
<1>8. S = Nat
  <2>1. S \in SUBSET Nat  OBVIOUS
  <2> HIDE DEF S
  <2> QED BY <1>6, <1>7, <2>1, Induction
<1>9. timeHorizon \in S  BY <1>8
<1>10. Upto[timeHorizon] = Chains(timeHorizon)  BY <1>9
<1> HIDE DEF Extends, S
<1>11. {p \in Chains(timeHorizon) : IsEnd(EndOf(p))} = Routes
  <2>1. ASSUME NEW p \in Seq(edges)
        PROVE  IsEnd(EndOf(p)) <=> p # <<>> /\ IsEnd(p[Len(p)].target)
    <3>1. ~ IsEnd(Start)  BY DEF IsEnd, Start
    <3> QED BY <3>1, EndOfChain
  <2> QED BY <2>1 DEF Chains, Routes
<1> QED BY <1>4, <1>10, <1>11

-----------------------------------------------------------------------------
(* The walk along the initial tour.                                        *)

StepAlong(tour, i, before) ==
  LET outgoing == {e \in edges : e.source = before.at /\ e.target.vertex = successor(tour, i)}
      edge == CHOOSE e \in outgoing : TRUE
  IN  IF before.stopped \/ outgoing = {} THEN [before EXCEPT !.stopped = TRUE]
      ELSE [at |-> edge.target, path |-> before.path \cup {edge}, stopped |-> FALSE]

IsWalkAlong(h, tour) ==
  h = [i \in 0 .. Len(tour) |->
         IF i = 0 THEN [at |-> Start, path |-> {}, stopped |-> FALSE] ELSE StepAlong(tour, i, h[i - 1])]

LegsUpto(tour, k) == {Leg(tour, i) : i \in 1 .. k}

\* Only one edge goes on to the next vertex of the tour: its leg.
LEMMA LegIsNext ==
  ASSUME Expanded, NEW tour \in Tours, cost(tour, distances) = timeHorizon, NEW i \in 1 .. Len(tour)
  PROVE  {e \in edges : e.source = Place(tour, i - 1) /\ e.target.vertex = successor(tour, i)} = {Leg(tour, i)}
<1>1. IInv /\ TypeOK /\ EdgesAreTimed
  BY DEF Expanded, IInv
<1>2. /\ Leg(tour, i) = Edge(<<tour[i], successor(tour, i)>>, Place(tour, i - 1).time)
      /\ Place(tour, i - 1).vertex = tour[i] /\ Place(tour, i).vertex = successor(tour, i)
  BY <1>1, Legs
<1>3. Leg(tour, i) \in edges
  BY LegsAreEdges
<1>4. Leg(tour, i).source = Place(tour, i - 1) /\ Leg(tour, i).target = Place(tour, i)
  BY DEF Leg
<1>5. ASSUME NEW e \in edges, e.source = Place(tour, i - 1), e.target.vertex = successor(tour, i)
      PROVE  e = Leg(tour, i)
  <2>1. PICK a \in Arcs : a[1] # a[2] /\ e = Edge(a, e.source.time)
    BY <1>1 DEF EdgesAreTimed
  <2>2. a = <<a[1], a[2]>>
    BY DistanceAssumption
  <2>3. e.source.vertex = a[1] /\ e.target.vertex = a[2]
    <3>1. /\ Edge(a, e.source.time).source.vertex = a[1]
          /\ Edge(a, e.source.time).target.vertex = a[2]
      BY DEF Edge
    <3> QED
      BY <2>1, <3>1
  <2>4. a = <<tour[i], successor(tour, i)>>
    BY <1>2, <1>5, <2>2, <2>3
  <2> QED
    BY <1>2, <1>5, <2>1, <2>4
<1> QED
  BY <1>2, <1>3, <1>4, <1>5

LEMMA AlongIs ==
  ASSUME Expanded, NEW tour \in Tours, cost(tour, distances) = timeHorizon
  PROVE  Along(tour) = LegsUpto(tour, Len(tour))
<1> DEFINE n == Len(tour)
           here(i) == [at |-> Place(tour, i), path |-> LegsUpto(tour, i), stopped |-> FALSE]
           g == [i \in 0 .. n |-> here(i)]
           Walk == CHOOSE h : IsWalkAlong(h, tour)
<1>1. n \in Nat /\ n > 1
  BY Successor
<1>2. Place(tour, 0) = Start
  BY Legs DEF Expanded, IInv
<1>3. here(0) = [at |-> Start, path |-> {}, stopped |-> FALSE]
  <2>1. LegsUpto(tour, 0) = {}
    BY DEF LegsUpto
  <2> QED
    BY <1>2, <2>1
<1>4. \A i \in 1 .. n : StepAlong(tour, i, here(i - 1)) = here(i)
  <2> TAKE i \in 1 .. n
  <2>1. {e \in edges : e.source = Place(tour, i - 1) /\ e.target.vertex = successor(tour, i)} = {Leg(tour, i)}
    BY LegIsNext
  <2>2. (CHOOSE e \in {Leg(tour, i)} : TRUE) = Leg(tour, i)
    OBVIOUS
  <2>3. LegsUpto(tour, i - 1) \cup {Leg(tour, i)} = LegsUpto(tour, i)
    <3>1. \A j : j \in 1 .. i <=> j \in 1 .. i - 1 \/ j = i
      BY <1>1
    <3> QED
      BY <3>1 DEF LegsUpto
  <2>4. Leg(tour, i).target = Place(tour, i)
    BY DEF Leg
  <2>5. here(i - 1).at = Place(tour, i - 1) /\ here(i - 1).path = LegsUpto(tour, i - 1) /\ ~ here(i - 1).stopped
    OBVIOUS
  <2>6. {e \in edges : e.source = here(i - 1).at /\ e.target.vertex = successor(tour, i)} = {Leg(tour, i)}
    BY <2>1, <2>5
  <2> DEFINE before == here(i - 1)
  <2> HIDE DEF here, before
  <2>7. StepAlong(tour, i, before)
          = [at |-> Leg(tour, i).target, path |-> before.path \cup {Leg(tour, i)}, stopped |-> FALSE]
    <3>1. /\ before.stopped = FALSE
          /\ {e \in edges : e.source = before.at /\ e.target.vertex = successor(tour, i)} = {Leg(tour, i)}
      BY <2>5, <2>6 DEF before, here
    <3> QED
      BY <2>2, <3>1 DEF StepAlong
  <2>8. here(i) = [at |-> Place(tour, i), path |-> LegsUpto(tour, i), stopped |-> FALSE]
    BY DEF here
  <2> QED
    BY <2>3, <2>4, <2>5, <2>7, <2>8 DEF before
<1> HIDE DEF here
<1>5. \A i \in 1 .. n : i - 1 \in 0 .. n /\ i \in 0 .. n /\ i # 0
  BY <1>1
<1>6. \A i \in 0 .. n : g[i] = IF i = 0 THEN [at |-> Start, path |-> {}, stopped |-> FALSE]
                               ELSE StepAlong(tour, i, g[i - 1])
  <2> TAKE i \in 0 .. n
  <2>1. CASE i = 0
    BY <1>3, <2>1
  <2>2. CASE i # 0
    <3>1. i \in 1 .. n
      BY <1>1, <2>2
    <3>2. g[i - 1] = here(i - 1) /\ g[i] = here(i)
      BY <1>5, <3>1
    <3> QED
      BY <1>4, <2>2, <3>1, <3>2
  <2> QED
    BY <2>1, <2>2
<1>7. g = [i \in 0 .. n |-> g[i]] /\ \A i \in 0 .. n : g[i] = here(i)
  OBVIOUS
<1> HIDE DEF g
<1>8. IsWalkAlong(g, tour)
  BY <1>6, <1>7 DEF IsWalkAlong
<1>9. IsWalkAlong(Walk, tour)
  BY <1>8
<1>10. Along(tour) = Walk[n].path
  BY DEF Along, IsWalkAlong, StepAlong
<1> HIDE DEF Walk
<1>11. \A i \in 0 .. n : Walk[i] = IF i = 0 THEN [at |-> Start, path |-> {}, stopped |-> FALSE]
                                   ELSE StepAlong(tour, i, Walk[i - 1])
  BY <1>9 DEF IsWalkAlong
<1> DEFINE S == {k \in Nat : k <= n => Walk[k] = here(k)}
<1>12. 0 \in S
  <2>1. 0 \in 0 .. n
    BY <1>1
  <2>2. Walk[0] = here(0)
    BY <1>3, <1>11, <2>1
  <2> QED
    BY <2>2
<1>13. \A k \in S : k + 1 \in S
  <2> SUFFICES ASSUME NEW k \in Nat, k + 1 <= n, k <= n => Walk[k] = here(k)
               PROVE  Walk[k + 1] = here(k + 1)
    OBVIOUS
  <2>1. k <= n /\ k + 1 \in 1 .. n /\ k + 1 \in 0 .. n /\ (k + 1) - 1 = k /\ k + 1 # 0
    BY <1>1
  <2>2. Walk[k + 1] = StepAlong(tour, k + 1, Walk[k])
    BY <1>11, <2>1
  <2>3. StepAlong(tour, k + 1, here(k)) = here(k + 1)
    BY <1>4, <2>1
  <2> QED
    BY <2>1, <2>2, <2>3
<1>14. S = Nat
  <2>1. S \in SUBSET Nat  OBVIOUS
  <2> HIDE DEF S
  <2> QED BY <1>12, <1>13, <2>1, Induction
<1>15. Walk[n] = here(n)
  <2>1. n \in S
    <3> HIDE DEF S
    <3> QED BY <1>1, <1>14
  <2> QED BY <1>1, <2>1
<1> QED
  BY <1>10, <1>15 DEF here

\* It goes round the tour: one of the routes of the network.
LEMMA AlongIsJourney ==
  ASSUME Expanded, NEW tour \in Tours, cost(tour, distances) = timeHorizon
  PROVE  Along(tour) \in Journeys
<1> DEFINE n == Len(tour)
           p == [i \in 1 .. n |-> Leg(tour, i)]
<1>1. TypeOK /\ timeHorizon \in Nat
  BY Travel DEF Expanded, IInv
<1>2. n \in Nat /\ n > 1
  BY Successor
<1>3. /\ Place(tour, 0) = Start /\ IsEnd(Place(tour, n))
      /\ Place(tour, n).time = timeHorizon
      /\ \A i \in 0 .. n : Place(tour, i).time \in Nat
      /\ \A i \in 1 .. n : Place(tour, i - 1).time < Place(tour, i).time
  <2>1. /\ Place(tour, 0) = Start /\ IsEnd(Place(tour, n))
        /\ Place(tour, n) = [vertex |-> Root, time |-> timeHorizon]
        /\ \A i \in 0 .. n : Place(tour, i) \in [vertex : Vertices, time : 0 .. MaxTime]
        /\ \A i \in 1 .. n : Place(tour, i - 1).time < Place(tour, i).time
    BY <1>1, Legs
  <2>2. \A i \in 0 .. n : Place(tour, i).time \in Nat
    BY <2>1
  <2> QED
    BY <2>1, <2>2
<1>4. \A i \in 1 .. n : Leg(tour, i) \in edges
  BY LegsAreEdges
<1>5. \A i \in 1 .. n : Leg(tour, i).source = Place(tour, i - 1) /\ Leg(tour, i).target = Place(tour, i)
  BY DEF Leg
<1>6. p \in Seq(edges) /\ Len(p) = n /\ \A i \in 1 .. n : p[i] = Leg(tour, i)
  BY <1>2, <1>4
<1> HIDE DEF p, n
<1>7. p # <<>> /\ 1 \in 1 .. n /\ n \in 1 .. n
  BY <1>2, <1>6
<1>8. Chain(p)
  <2>1. p[1].source = Start
    <3>1. 1 - 1 = 0
      OBVIOUS
    <3> QED
      BY <1>3, <1>5, <1>6, <1>7, <3>1
  <2>2. \A i \in 1 .. Len(p) - 1 : p[i].target = p[i + 1].source
    <3> TAKE i \in 1 .. Len(p) - 1
    <3>1. i \in 1 .. n /\ i + 1 \in 1 .. n /\ (i + 1) - 1 = i
      BY <1>2, <1>6
    <3> QED
      BY <1>5, <1>6, <3>1
  <2> QED
    BY <1>6, <2>1, <2>2 DEF Chain
<1>9. n <= timeHorizon
  <2> DEFINE S == {k \in Nat : k <= n => k <= Place(tour, k).time}
  <2>1. 0 \in S
    BY <1>2, <1>3
  <2>2. \A k \in S : k + 1 \in S
    <3> SUFFICES ASSUME NEW k \in Nat, k + 1 <= n, k <= n => k <= Place(tour, k).time
                 PROVE  k + 1 <= Place(tour, k + 1).time
      OBVIOUS
    <3>1. k <= n /\ k \in 0 .. n /\ k + 1 \in 1 .. n /\ (k + 1) - 1 = k /\ k + 1 \in 0 .. n
      BY <1>2
    <3>2. Place(tour, k).time < Place(tour, k + 1).time
      BY <1>3, <3>1
    <3>3. Place(tour, k).time \in Nat /\ Place(tour, k + 1).time \in Nat
      BY <1>3, <3>1
    <3> QED
      BY <3>1, <3>2, <3>3
  <2>3. S = Nat
    <3>1. S \in SUBSET Nat  OBVIOUS
    <3> HIDE DEF S
    <3> QED BY <2>1, <2>2, <3>1, Induction
  <2>4. n \in S
    <3> HIDE DEF S
    <3> QED BY <1>2, <2>3
  <2> QED
    BY <1>2, <1>3, <2>4
<1>10. IsEnd(p[Len(p)].target)
  BY <1>3, <1>5, <1>6, <1>7
<1>11. p \in Routes
  BY <1>6, <1>7, <1>8, <1>9, <1>10 DEF Routes
<1>12. Range(p) = LegsUpto(tour, n)
  <2>1. Range(p) = {p[i] : i \in 1 .. n}
    BY <1>6 DEF Range
  <2> QED
    BY <1>6, <2>1 DEF LegsUpto
<1>13. Along(tour) = LegsUpto(tour, n)
  BY AlongIs DEF n
<1> QED
  BY <1>1, <1>11, <1>12, <1>13, JourneysAre

\* A flow of one along a set of edges leaves every vertex once if one of the edges does.
LEMMA CoveringIs ==
  ASSUME NEW set, \A v \in Vertices : \E e : {f \in set : f.source.vertex = v} = {e}
  PROVE  Covering(SetToBag(set), 1)
<1> SUFFICES ASSUME NEW v \in Vertices
             PROVE  Total(SetToBag(set), {f \in BagToSet(SetToBag(set)) : f.source.vertex = v}) = 1
  BY DEF Covering
<1>9. PICK e : {f \in set : f.source.vertex = v} = {e}
  OBVIOUS
<1> DEFINE b == SetToBag(set)
           X == {x \in {e} \X (1 .. Units) : x[2] <= Value(b, x[1])}
<1>1. BagToSet(b) = set /\ \A f \in set : Value(b, f) = 1
  BY DEF SetToBag, BagToSet, BagIn, Value
<1>2. e \in set
  BY <1>9
<1>3. Units \in Nat \ {0}
  BY ToursAssumption
<1>4. X = {<<e, 1>>}
  <2>1. \A x \in {e} \X (1 .. Units) : x[1] = e /\ x[2] \in 1 .. Units /\ x = <<x[1], x[2]>>
    OBVIOUS
  <2>2. Value(b, e) = 1
    BY <1>1, <1>2
  <2> HIDE DEF b
  <2>3. \A x \in X : x = <<e, 1>>
    <3> TAKE x \in X
    <3>1. x[1] = e /\ x[2] \in 1 .. Units /\ x[2] <= 1 /\ x = <<x[1], x[2]>>
      BY <2>1, <2>2
    <3>2. x[2] = 1
      BY <1>3, <3>1
    <3> QED
      BY <3>1, <3>2
  <2>4. <<e, 1>> \in {e} \X (1 .. Units)
    BY <1>3
  <2>5. <<e, 1>> \in X
    BY <2>2, <2>4
  <2> QED
    BY <2>3, <2>5
<1>5. Total(b, {e}) = Cardinality(X)
  BY DEF Total
<1> HIDE DEF X, b
<1>6. Cardinality({<<e, 1>>}) = 1
  BY FS_Singleton
<1>7. Total(b, {e}) = 1
  BY <1>4, <1>5, <1>6
<1>8. {f \in BagToSet(b) : f.source.vertex = v} = {e}
  BY <1>1, <1>9
<1> QED
  BY <1>7, <1>8 DEF b

LEMMA AlongCovers ==
  ASSUME Expanded, NEW tour \in Tours, cost(tour, distances) = timeHorizon
  PROVE  Covering(SetToBag(Along(tour)), 1)
<1> DEFINE n == Len(tour)
<1> SUFFICES ASSUME NEW v \in Vertices
             PROVE  \E e : {f \in Along(tour) : f.source.vertex = v} = {e}
  BY CoveringIs
<1>1. n \in Nat /\ n > 1 /\ tour \in Seq(Vertices)
  BY Successor
<1>2. PICK i \in 1 .. n : tour[i] = v
  <2>1. v \in Range(tour) /\ DOMAIN tour = 1 .. n
    BY <1>1, ToursAssumption
  <2> QED
    BY <2>1 DEF Range
<1>3. \A j \in 1 .. n : tour[j] = v => j = i
  <2>1. DOMAIN tour = 1 .. n /\ IsInjective(tour)
    BY <1>1, ToursAssumption
  <2> QED
    BY <1>2, <2>1 DEF IsInjective
<1>4. \A j \in 1 .. n : Leg(tour, j).source.vertex = tour[j]
  <2>1. \A j \in 1 .. n : Place(tour, j - 1).vertex = tour[j]
    BY Legs DEF Expanded, IInv
  <2> QED
    BY <2>1 DEF Leg
<1>5. Along(tour) = LegsUpto(tour, n)
  BY AlongIs
<1>6. {f \in LegsUpto(tour, n) : f.source.vertex = v} = {Leg(tour, i)}
  <2> HIDE DEF n
  <2>1. Leg(tour, i) \in LegsUpto(tour, n)
    BY DEF LegsUpto
  <2>2. ASSUME NEW f \in LegsUpto(tour, n), f.source.vertex = v
        PROVE  f = Leg(tour, i)
    <3>1. PICK j \in 1 .. n : f = Leg(tour, j)
      BY DEF LegsUpto
    <3>2. j = i
      BY <1>3, <1>4, <2>2, <3>1
    <3> QED
      BY <3>1, <3>2
  <2> QED
    BY <1>2, <1>4, <2>1, <2>2
<1> QED
  BY <1>5, <1>6

-----------------------------------------------------------------------------
(* The program.                                                            *)

SolutionsAreKnown == tours = {j \in Journeys : Covering(SetToBag(j), 1)}

AInv ==
  /\ IInv
  /\ phase # "expand" => Expanded /\ SolutionsAreKnown
  /\ InitialSolutionIsStored

\* When the network is not touched, its journeys and what is known of it stay the same.
LEMMA SameNetwork ==
  ASSUME UNCHANGED expansionVars
  PROVE  /\ Journeys' = Journeys
         /\ IInv => IInv'
         /\ Expanded => Expanded'
<1> USE DEF expansionVars, arguments, graph, traveller
<1>1. Journeys' = Journeys
  BY DEF Journeys, Longer
<1>2. IInv => IInv'
  BY NextInvariant
<1>3. Expanded => Expanded'
  BY <1>2 DEF Expanded, Done
<1> QED
  BY <1>1, <1>2, <1>3

LEMMA InitAInv == Init0 => AInv
<1> SUFFICES ASSUME Init0 PROVE AInv
  OBVIOUS
<1>1. Init /\ phase = "expand"
  BY DEF Init0
<1>2. IInv
  BY <1>1, InitInvariant
<1> QED
  BY <1>1, <1>2 DEF AInv, InitialSolutionIsStored

\* Whatever leaves the network and its tours alone keeps the invariant, if the initial
\* solution is a tour.
LEMMA ProgramStays ==
  ASSUME AInv, UNCHANGED <<expansionVars, tours>>, phase # "expand", phase' # "expand",
         phase' \in {"lp", "separate", "decompose", "solved"} => initial' \in tours
  PROVE  AInv'
<1>1. Expanded /\ SolutionsAreKnown /\ IInv
  BY DEF AInv
<1>2. IInv' /\ Expanded' /\ Journeys' = Journeys
  BY <1>1, SameNetwork
<1>3. SolutionsAreKnown'
  <2>1. tours = {j \in Journeys : Covering(SetToBag(j), 1)}
    BY <1>1 DEF SolutionsAreKnown
  <2> QED
    BY <1>2, <2>1 DEF SolutionsAreKnown
<1>4. InitialSolutionIsStored'
  BY DEF InitialSolutionIsStored
<1> QED
  BY <1>2, <1>3, <1>4 DEF AInv

\* The initial tour is among the solutions.
LEMMA InitialIsSolution ==
  ASSUME AInv, addInitialSolution
  PROVE  initial' \in tours
<1>1. PICK tour \in Tours : cost(tour, distances) = timeHorizon /\ initial' = Along(tour)
  BY DEF addInitialSolution
<1>2. Expanded /\ tours = {j \in Journeys : Covering(SetToBag(j), 1)}
  BY DEF AInv, SolutionsAreKnown, addInitialSolution
<1>3. Along(tour) \in Journeys /\ Covering(SetToBag(Along(tour)), 1)
  BY <1>1, <1>2, AlongIsJourney, AlongCovers
<1> QED
  BY <1>1, <1>2, <1>3

LEMMA CreateKeeps ==
  ASSUME AInv, Create
  PROVE  AInv'
<1>1. phase = "expand" /\ phase' = "expand" /\ Next /\ IInv
  BY DEF Create, scipVars, AInv
<1>2. IInv'
  BY <1>1, NextInvariant
<1> QED
  BY <1>1, <1>2 DEF AInv, InitialSolutionIsStored

LEMMA CreateProgramKeeps ==
  ASSUME AInv, createProgram
  PROVE  AInv'
<1>1. /\ IInv /\ Done /\ lowerBound = 0
      /\ tours' = {j \in Journeys : Covering(SetToBag(j), 1)}
      /\ phase' = "created" /\ UNCHANGED expansionVars
  BY DEF AInv, createProgram
<1>2. IInv' /\ Expanded' /\ Journeys' = Journeys
  BY <1>1, SameNetwork DEF Expanded
<1>3. SolutionsAreKnown'
  BY <1>1, <1>2 DEF SolutionsAreKnown
<1> QED
  BY <1>1, <1>2, <1>3 DEF AInv, InitialSolutionIsStored

LEMMA NextAInv ==
  ASSUME AInv, ANext
  PROVE  AInv'
<1>1. CASE Create
  BY <1>1, CreateKeeps
<1>2. CASE createProgram
  BY <1>2, CreateProgramKeeps
<1>3. CASE addInitialSolution
  <2>1. /\ phase = "created" /\ phase' = "lp"
        /\ UNCHANGED <<expansionVars, tours>>
    BY <1>3 DEF addInitialSolution, program
  <2> QED
    BY <1>3, <2>1, InitialIsSolution, ProgramStays
<1>4. ASSUME phase \in {"lp", "separate", "decompose"},
             phase' \in {"lp", "separate", "decompose", "solved"},
             UNCHANGED <<expansionVars, initial, tours>>
      PROVE  AInv'
  <2>1. initial \in tours
    BY <1>4 DEF AInv, InitialSolutionIsStored
  <2> QED
    BY <1>4, <2>1, ProgramStays
<1>5. CASE SolveLP
  BY <1>4, <1>5 DEF SolveLP, program
<1>6. CASE \E name \in separators : Separate(name)
  BY <1>4, <1>6 DEF Separate, Separated, program
<1>7. CASE StartDecomposition
  BY <1>4, <1>7 DEF StartDecomposition, program
<1>8. CASE DecompositionStep
  BY <1>4, <1>8 DEF DecompositionStep, scipVars, program
<1>9. CASE SeparateCycles
  BY <1>4, <1>9 DEF SeparateCycles, Separated, program
<1>10. CASE Solve
  BY <1>4, <1>10 DEF Solve, program
<1> QED
  BY <1>1, <1>2, <1>3, <1>5, <1>6, <1>7, <1>8, <1>9, <1>10 DEF ANext

LEMMA StutterAInv ==
  ASSUME AInv, UNCHANGED vars
  PROVE  AInv'
<1>1. UNCHANGED <<expansionVars, phase, initial, tours>>
  BY DEF vars, scipVars, program
<1>2. CASE phase = "expand"
  <2>1. IInv'
    BY <1>1, SameNetwork DEF AInv
  <2> QED
    BY <1>1, <1>2, <2>1 DEF AInv, InitialSolutionIsStored
<1>3. CASE phase # "expand"
  BY <1>1, <1>3, ProgramStays DEF AInv, InitialSolutionIsStored
<1> QED
  BY <1>2, <1>3

\* The tour the network was expanded from is a solution of the program, although edges
\* are dropped and copies of vertices shared while it is expanded: SCIP can store it
\* and starts with a cutoff bound (simple_program.cc:72, addInitialSolution).
THEOREM InitialTourIsAlwaysStored == ASpec => []InitialSolutionIsStored
<1>1. AInv /\ [ANext]_vars => AInv'
  BY NextAInv, StutterAInv
<1>2. AInv => InitialSolutionIsStored
  BY DEF AInv
<1> QED
  BY <1>1, <1>2, InitAInv, PTL DEF ASpec

-----------------------------------------------------------------------------
(* The relaxation.  Routes.                                                *)

LEMMA EdgesOfChain ==
  ASSUME IInv, NEW p, Chain(p)
  PROVE  /\ p \in Seq(edges) /\ Len(p) \in Nat
         /\ \A i \in 1 .. Len(p) :
              /\ p[i] \in edges
              /\ p[i].source \in vertices /\ p[i].target \in vertices
              /\ p[i].source.vertex \in Vertices /\ p[i].target.vertex \in Vertices
              /\ p[i].source.time \in Nat /\ p[i].target.time \in Nat
              /\ p[i].source.time < p[i].target.time
              /\ p[i].target.time <= timeHorizon
              /\ ~ IsEnd(p[i].source)
         /\ \A i \in 1 .. Len(p) - 1 : p[i].target = p[i + 1].source
<1>1. p \in Seq(edges)
  BY DEF Chain
<1>2. \A i \in 1 .. Len(p) : p[i] \in edges
  BY <1>1
<1>3. TypeOK /\ NetworkIsSound /\ timeHorizon \in Nat
  BY Travel DEF IInv
<1>4. \A v \in vertices : v.vertex \in Vertices /\ v.time \in Nat /\ v.time <= timeHorizon
  BY <1>3 DEF TypeOK
<1>5. \A e \in edges :
        /\ e.source \in vertices /\ e.target \in vertices
        /\ e.source.time < e.target.time
        /\ ~ IsEnd(e.source)
  BY <1>3 DEF NetworkIsSound
<1> QED
  BY <1>1, <1>2, <1>4, <1>5 DEF Chain

\* Along a chain time passes.
LEMMA TimePasses ==
  ASSUME IInv, NEW p, Chain(p)
  PROVE  /\ \A i \in 1 .. Len(p) : i <= p[i].target.time
         /\ \A i, j \in 1 .. Len(p) : i < j => p[i].source.time < p[j].source.time
<1>1. /\ Len(p) \in Nat
      /\ \A i \in 1 .. Len(p) : /\ p[i].source.time \in Nat /\ p[i].target.time \in Nat
                                /\ p[i].source.time < p[i].target.time
      /\ \A i \in 1 .. Len(p) - 1 : p[i].target = p[i + 1].source
  BY EdgesOfChain
<1> DEFINE S == {n \in Nat : n + 1 <= Len(p) =>
                   /\ n <= p[n + 1].source.time
                   /\ \A i \in 1 .. n : p[i].source.time < p[n + 1].source.time}
<1>2. 0 \in S
  <2> SUFFICES ASSUME 1 <= Len(p) PROVE 0 <= p[1].source.time
    OBVIOUS
  <2>1. 1 \in 1 .. Len(p)  BY <1>1
  <2> QED BY <1>1, <2>1
<1>3. \A n \in S : n + 1 \in S
  <2> SUFFICES ASSUME NEW n \in S, (n + 1) + 1 <= Len(p)
               PROVE  /\ n + 1 <= p[(n + 1) + 1].source.time
                      /\ \A i \in 1 .. n + 1 : p[i].source.time < p[(n + 1) + 1].source.time
    OBVIOUS
  <2> DEFINE m == n + 1
  <2>1. n \in Nat /\ m \in 1 .. Len(p) - 1 /\ m \in 1 .. Len(p) /\ m + 1 \in 1 .. Len(p)  BY <1>1
  <2>2. n <= p[m].source.time /\ \A i \in 1 .. n : p[i].source.time < p[m].source.time  BY <1>1, <2>1
  <2>3. p[m].source.time < p[m + 1].source.time
        /\ p[m].source.time \in Nat /\ p[m + 1].source.time \in Nat
    BY <1>1, <2>1
  <2>4. m <= p[m + 1].source.time  BY <2>1, <2>2, <2>3
  <2>5. \A i \in 1 .. m : p[i].source.time < p[m + 1].source.time
    <3> TAKE i \in 1 .. m
    <3>1. i \in 1 .. Len(p) /\ (i = m \/ i \in 1 .. n)  BY <2>1
    <3>2. p[i].source.time \in Nat  BY <1>1, <3>1
    <3>3. i \in 1 .. n => p[i].source.time < p[m].source.time  BY <2>2
    <3> QED BY <2>3, <3>1, <3>2, <3>3
  <2> QED BY <2>4, <2>5
<1>4. S = Nat
  <2>1. S \in SUBSET Nat  OBVIOUS
  <2> HIDE DEF S
  <2> QED BY <1>2, <1>3, <2>1, Induction
<1>5. \A i \in 1 .. Len(p) : /\ i - 1 <= p[i].source.time
                             /\ \A j \in 1 .. i - 1 : p[j].source.time < p[i].source.time
  <2> TAKE i \in 1 .. Len(p)
  <2>1. i - 1 \in Nat /\ (i - 1) + 1 = i /\ i <= Len(p)  BY <1>1
  <2>2. i - 1 \in S
    <3> HIDE DEF S
    <3> QED BY <1>4, <2>1
  <2> QED BY <2>1, <2>2
<1> HIDE DEF S
<1>6. \A i \in 1 .. Len(p) : i <= p[i].target.time
  <2> TAKE i \in 1 .. Len(p)
  <2>1. i \in Nat /\ p[i].source.time \in Nat /\ p[i].target.time \in Nat
        /\ p[i].source.time < p[i].target.time /\ i - 1 <= p[i].source.time
    BY <1>1, <1>5
  <2> QED BY <2>1
<1>7. \A i, j \in 1 .. Len(p) : i < j => p[i].source.time < p[j].source.time
  <2> TAKE i, j \in 1 .. Len(p)
  <2> HAVE i < j
  <2>1. i \in 1 .. j - 1  BY <1>1
  <2> QED BY <1>5, <2>1
<1> QED BY <1>6, <1>7

\* The edges of a chain differ: as many of them as there are numbers.
LEMMA ChainsAreInjective ==
  ASSUME IInv, NEW p, Chain(p), NEW i \in 0 .. Len(p)
  PROVE  /\ \A j, k \in 1 .. Len(p) : p[j] = p[k] => j = k
         /\ IsFiniteSet({p[j] : j \in 1 .. i}) /\ Cardinality({p[j] : j \in 1 .. i}) = i
<1>1. Len(p) \in Nat /\ \A j \in 1 .. Len(p) : p[j].source.time \in Nat
  BY EdgesOfChain
<1>2. \A j, k \in 1 .. Len(p) : p[j] = p[k] => j = k
  <2> TAKE j, k \in 1 .. Len(p)
  <2> HAVE p[j] = p[k]
  <2>1. ~ (j < k) /\ ~ (k < j)
    <3>1. p[j].source.time \in Nat /\ p[j].source.time = p[k].source.time
      BY <1>1
    <3> QED
      BY <3>1, TimePasses
  <2> QED
    BY <1>1, <2>1
<1> DEFINE f == [j \in 1 .. i |-> p[j]]
           D == {p[j] : j \in 1 .. i}
<1>3. i \in Nat /\ \A j \in 1 .. i : j \in 1 .. Len(p)
  BY <1>1
<1>4. f \in Bijection(1 .. i, D)
  <2>1. f \in [1 .. i -> D] /\ (\A d \in D : \E j \in 1 .. i : f[j] = d)
    OBVIOUS
  <2>2. \A j, k \in 1 .. i : f[j] = f[k] => j = k
    BY <1>2, <1>3
  <2> HIDE DEF f, D
  <2>3. IsInjective(f)
    BY <2>1, <2>2 DEF IsInjective
  <2> QED
    BY <2>1, <2>3 DEF Bijection, Injection, Surjection
<1> HIDE DEF f, D
<1>5. IsFiniteSet(1 .. i) /\ Cardinality(1 .. i) = i
  BY <1>3, FS_Interval
<1>6. ExistsBijection(1 .. i, D)
  BY <1>4 DEF ExistsBijection
<1>7. IsFiniteSet(D) /\ Cardinality(D) = i
  BY <1>5, <1>6, FS_Bijection
<1> QED
  BY <1>2, <1>7 DEF D

LEMMA RangeOfChain ==
  ASSUME IInv, NEW p, Chain(p)
  PROVE  Range(p) = {p[j] : j \in 1 .. Len(p)}
<1>1. p \in Seq(edges)
  BY DEF Chain
<1>2. DOMAIN p = 1 .. Len(p)
  BY <1>1
<1> QED
  BY <1>2 DEF Range

\* The order of the edges of a chain is that in time.
LEMMA ChainsAreInOrder ==
  ASSUME IInv, NEW p, Chain(p)
  PROVE  InOrder(Range(p)) = p
<1> DEFINE n == Len(p)
           set == {p[j] : j \in 1 .. n}
           position(e) == Cardinality({f \in set : f.source.time <= e.source.time})
<1>1. /\ n \in Nat /\ p \in Seq(edges)
      /\ \A i \in 1 .. n : p[i].source.time \in Nat
  BY EdgesOfChain
<1>2. \A i, j \in 1 .. n : i < j => p[i].source.time < p[j].source.time
  BY TimePasses
<1>3. \A i \in 1 .. n : position(p[i]) = i
  <2> TAKE i \in 1 .. n
  <2>1. i \in 0 .. n
    BY <1>1
  <2>2. {f \in set : f.source.time <= p[i].source.time} = {p[j] : j \in 1 .. i}
    <3>1. \A j \in 1 .. n : p[j].source.time <= p[i].source.time <=> j \in 1 .. i
      <4> TAKE j \in 1 .. n
      <4>1. p[j].source.time \in Nat /\ p[i].source.time \in Nat
        BY <1>1
      <4>2. (i < j => p[i].source.time < p[j].source.time) /\ (j < i => p[j].source.time < p[i].source.time)
        BY <1>2
      <4> QED
        BY <1>1, <4>1, <4>2
    <3>2. \A j \in 1 .. i : j \in 1 .. n
      BY <1>1
    <3> QED
      BY <3>1, <3>2
  <2> QED
    BY <2>1, <2>2, ChainsAreInjective
<1>4. \A i \in 1 .. n : (CHOOSE e \in set : position(e) = i) = p[i]
  <2> TAKE i \in 1 .. n
  <2>1. p[i] \in set /\ position(p[i]) = i
    BY <1>3
  <2>2. \A e \in set : position(e) = i => e = p[i]
    <3> TAKE e \in set
    <3>1. PICK j \in 1 .. n : e = p[j]
      OBVIOUS
    <3> HIDE DEF position, set
    <3> QED
      BY <1>3, <3>1
  <2> HIDE DEF position, set
  <2> QED
    BY <2>1, <2>2
<1>5. Cardinality(set) = n
  <2>1. n \in 0 .. Len(p)
    BY <1>1
  <2> QED
    BY <2>1, ChainsAreInjective
<1>6. Range(p) = set
  BY RangeOfChain
<1>7. InOrder(set) = [i \in 1 .. n |-> CHOOSE e \in set : position(e) = i]
  BY <1>5 DEF InOrder
<1>8. p = [i \in 1 .. n |-> p[i]]
  BY <1>1
<1> HIDE DEF position, set, n
<1> QED
  BY <1>4, <1>6, <1>7, <1>8

-----------------------------------------------------------------------------
(* Cheapest routes.                                                        *)

\* A finite set of numbers has a least one.
LEMMA LeastOfFinite ==
  ASSUME NEW D \in SUBSET Int, IsFiniteSet(D), D # {}
  PROVE  Min(D) \in D /\ \A x \in D : Min(D) <= x
<1> DEFINE HasLeast(s) == \E x \in s : \A y \in s : x <= y
           T == {s \in SUBSET D : s # {} /\ ~ HasLeast(s)}
<1>1. T = {}
  <2> SUFFICES ASSUME T # {} PROVE FALSE
    OBVIOUS
  <2>0. T # {} /\ IsFiniteSet(D)  OBVIOUS
  <2>1. PICK s \in T : \A t \in SUBSET s : t # s => t \notin T
    <3>1. T \in SUBSET SUBSET D  OBVIOUS
    <3> HIDE DEF T, HasLeast
    <3>2. \E s \in T : s \in SUBSET D /\ \A t \in SUBSET s : t # s => t \notin T
      BY ONLY <2>0, <3>1, LeastSubsetExists
    <3> QED BY <3>2
  <2>2. s \in SUBSET D /\ s # {} /\ ~ HasLeast(s)  OBVIOUS
  <2>3. PICK x \in s : TRUE  BY <2>2
  <2> DEFINE r == s \ {x}
  <2>4. r \in SUBSET s /\ r # s /\ r \in SUBSET D  BY <2>2, <2>3
  <2>5. CASE r = {}
    <3>1. \A y \in s : y = x  BY <2>5
    <3>2. x \in Int  BY <2>2
    <3>3. x <= x  BY <3>2
    <3>4. HasLeast(s)  BY <2>3, <3>1, <3>3
    <3> QED BY <2>2, <3>4
  <2>6. CASE r # {}
    <3>1. r \notin T  BY <2>1, <2>4
    <3>2. HasLeast(r)  BY <2>4, <2>6, <3>1
    <3>3. PICK z \in r : \A y \in r : z <= y  BY <3>2
    <3>4. x \in Int /\ z \in Int /\ z \in s /\ \A y \in s : y \in Int /\ (y = x \/ y \in r)
      BY <2>2, <2>3
    <3>5. CASE x <= z
      <4>1. \A y \in s : x <= y
        <5> TAKE y \in s
        <5>1. y \in Int /\ (y = x \/ z <= y)  BY <3>3, <3>4
        <5> QED BY <3>4, <3>5, <5>1
      <4> QED BY <2>2, <2>3, <4>1
    <3>6. CASE ~ (x <= z)
      <4>1. \A y \in s : z <= y
        <5> TAKE y \in s
        <5>1. y = x \/ z <= y  BY <3>3, <3>4
        <5> QED BY <3>4, <3>6, <5>1
      <4> QED BY <2>2, <3>4, <4>1
    <3> QED BY <3>5, <3>6
  <2> QED BY <2>5, <2>6
<1>2. D \notin T  BY <1>1
<1>3. HasLeast(D)  BY <1>2
<1> QED BY <1>3 DEF Min

LEMMA FiniteRecords ==
  ASSUME NEW A, NEW B, IsFiniteSet(A), IsFiniteSet(B)
  PROVE  IsFiniteSet([vertex : A, time : B]) /\ IsFiniteSet([source : A, target : B])
<1> DEFINE f == [x \in A \X B |-> [vertex |-> x[1], time |-> x[2]]]
           g == [x \in A \X B |-> [source |-> x[1], target |-> x[2]]]
<1>1. IsFiniteSet(A \X B)
  BY FS_Product
<1>2. f \in Surjection(A \X B, [vertex : A, time : B])
  <2>1. f \in [A \X B -> [vertex : A, time : B]]
    OBVIOUS
  <2>2. \A r \in [vertex : A, time : B] : \E x \in A \X B : f[x] = r
    <3> TAKE r \in [vertex : A, time : B]
    <3>1. <<r.vertex, r.time>> \in A \X B /\ f[<<r.vertex, r.time>>] = r
      OBVIOUS
    <3> QED
      BY <3>1
  <2> HIDE DEF f
  <2> QED
    BY <2>1, <2>2 DEF Surjection
<1>3. g \in Surjection(A \X B, [source : A, target : B])
  <2>1. g \in [A \X B -> [source : A, target : B]]
    OBVIOUS
  <2>2. \A r \in [source : A, target : B] : \E x \in A \X B : g[x] = r
    <3> TAKE r \in [source : A, target : B]
    <3>1. <<r.source, r.target>> \in A \X B /\ g[<<r.source, r.target>>] = r
      OBVIOUS
    <3> QED
      BY <3>1
  <2> HIDE DEF g
  <2> QED
    BY <2>1, <2>2 DEF Surjection
<1> QED
  BY <1>1, <1>2, <1>3, FS_Surjection

LEMMA NetworkIsFinite ==
  ASSUME IInv
  PROVE  IsFiniteSet(edges) /\ IsFiniteSet(Journeys) /\ Journeys \subseteq SUBSET edges
<1> DEFINE TV == [vertex : Vertices, time : 0 .. timeHorizon]
<1>1. TypeOK /\ NetworkIsSound /\ EdgesAreTimed /\ timeHorizon \in Nat
  BY Travel DEF IInv
<1>2. IsFiniteSet(Vertices) /\ IsFiniteSet(0 .. timeHorizon)
  BY <1>1, ToursAssumption, FS_Interval
<1>3. IsFiniteSet(TV)
  BY <1>2, FiniteRecords
<1>4. \A e \in edges : e = [source |-> e.source, target |-> e.target]
  <2> TAKE e \in edges
  <2>1. PICK a \in Arcs : e = Edge(a, e.source.time)
    BY <1>1 DEF EdgesAreTimed
  <2> QED
    BY <2>1 DEF Edge
<1>5. edges \subseteq [source : TV, target : TV]
  <2>1. vertices \subseteq TV
    BY <1>1 DEF TypeOK
  <2> HIDE DEF TV
  <2>2. \A e \in edges : e.source \in TV /\ e.target \in TV
    BY <1>1, <2>1 DEF NetworkIsSound
  <2> QED
    BY <1>4, <2>2
<1> HIDE DEF TV
<1>6. IsFiniteSet([source : TV, target : TV])
  BY <1>3, FiniteRecords
<1>7. IsFiniteSet(edges)
  BY <1>5, <1>6, FS_Subset
<1>8. Journeys \subseteq SUBSET edges
  <2>1. ASSUME NEW p \in Routes
        PROVE  Range(p) \subseteq edges
    <3>1. Chain(p)
      BY DEF Routes
    <3> QED
      BY <3>1, RangeOfChain, EdgesOfChain
  <2> QED
    BY <1>1, <2>1, JourneysAre
<1>9. IsFiniteSet(SUBSET edges)
  BY <1>7, FS_SUBSET
<1> QED
  BY <1>7, <1>8, <1>9, FS_Subset

\* The sum of the values of a function over a finite set.
LEMMA SumIs ==
  ASSUME NEW S, IsFiniteSet(S), NEW f \in [S -> Int]
  PROVE  \E g : HasSums(g, f, S) /\ Sum(f) = g[S]
<1> DEFINE Values(g) == g = [s \in SUBSET S |-> IF s = {} THEN 0 ELSE f[First(s)] + g[s \ {First(s)}]]
<1>1. IsFiniteSet(S) /\ DOMAIN f = S
  OBVIOUS
<1>2. Sum(f) = (CHOOSE g : Values(g))[S]
  BY <1>1 DEF Sum, MapThenSumSet, MapThenFoldSet, First
<1>3. \A g : Values(g) <=> Sums(g, f, S)
  BY DEF Sums
<1> HIDE DEF Values
<1>4. (CHOOSE g : Values(g)) = (CHOOSE g : Sums(g, f, S))
  BY <1>3
<1>5. HasSums(CHOOSE g : Sums(g, f, S), f, S)
  BY <1>1, SumsAre
<1> QED
  BY <1>2, <1>4, <1>5

\* There is one way to have the sums.
LEMMA SumsAreUnique ==
  ASSUME NEW S, IsFiniteSet(S), NEW f \in [S -> Int], NEW g, HasSums(g, f, S), NEW h, HasSums(h, f, S)
  PROVE  \A s \in SUBSET S : g[s] = h[s]
<1> DEFINE T == {s \in SUBSET S : g[s] # h[s]}
<1> SUFFICES ASSUME T # {} PROVE FALSE
  OBVIOUS
<1>1. PICK s \in T : \A t \in SUBSET s : t # s => t \notin T
  <2>1. T \in SUBSET SUBSET S  OBVIOUS
  <2> HIDE DEF T
  <2> QED BY <2>1, LeastSubsetExists
<1> DEFINE r == s \ {First(s)}
<1>2. s \in SUBSET S /\ g[s] # h[s]  OBVIOUS
<1>3. /\ g[s] = IF s = {} THEN 0 ELSE f[First(s)] + g[r]
      /\ h[s] = IF s = {} THEN 0 ELSE f[First(s)] + h[r]
  BY <1>2 DEF HasSums
<1>4. s # {} => First(s) \in s  BY DEF First
<1>5. s # {} => r \in SUBSET s /\ r # s /\ r \in SUBSET S  BY <1>2, <1>4
<1>6. s # {} => g[r] = h[r]  BY <1>1, <1>5
<1> QED BY <1>2, <1>3, <1>6

LEMMA SumOfSum ==
  ASSUME NEW S, IsFiniteSet(S), NEW f \in [S -> Int], NEW h \in [S -> Int]
  PROVE  /\ Sum(f) \in Int /\ Sum(h) \in Int
         /\ Sum([v \in S |-> f[v] + h[v]]) = Sum(f) + Sum(h)
<1> DEFINE k == [v \in S |-> f[v] + h[v]]
<1>1. IsFiniteSet(S) /\ k \in [S -> Int]
  OBVIOUS
<1>2. PICK fs : HasSums(fs, f, S) /\ Sum(f) = fs[S]
  BY SumIs
<1>3. PICK hs : HasSums(hs, h, S) /\ Sum(h) = hs[S]
  BY SumIs
<1>4. PICK ks : HasSums(ks, k, S) /\ Sum(k) = ks[S]
  <2> HIDE DEF k
  <2> QED BY <1>1, SumIs
<1> DEFINE both == [s \in SUBSET S |-> fs[s] + hs[s]]
<1>5. \A s \in SUBSET S :
        /\ fs[s] \in Int /\ hs[s] \in Int
        /\ fs[s] = IF s = {} THEN 0 ELSE f[First(s)] + fs[s \ {First(s)}]
        /\ hs[s] = IF s = {} THEN 0 ELSE h[First(s)] + hs[s \ {First(s)}]
  BY <1>2, <1>3 DEF HasSums
<1>6. HasSums(both, k, S)
  <2>1. both \in [SUBSET S -> Int]
    <3>1. \A s \in SUBSET S : fs[s] + hs[s] \in Int
      <4> TAKE s \in SUBSET S
      <4>1. fs[s] \in Int /\ hs[s] \in Int
        BY <1>5
      <4> QED
        BY <4>1
    <3> QED
      BY <3>1
  <2>2. ASSUME NEW s \in SUBSET S
        PROVE  both[s] = IF s = {} THEN 0 ELSE k[First(s)] + both[s \ {First(s)}]
    <3>1. CASE s = {}
      <4>1. fs[s] = 0 /\ hs[s] = 0
        BY <1>5, <3>1
      <4>2. both[s] = fs[s] + hs[s]
        OBVIOUS
      <4>3. both[s] = 0
        <5> HIDE DEF both
        <5> QED BY <4>1, <4>2
      <4> HIDE DEF both, k
      <4> QED
        BY <3>1, <4>3
    <3>2. CASE s # {}
      <4> DEFINE x == First(s)
                 r == s \ {x}
      <4>1. x \in S /\ r \in SUBSET S
        BY <3>2 DEF First
      <4>2. fs[s] = f[x] + fs[r] /\ hs[s] = h[x] + hs[r]
        BY <1>5, <3>2
      <4> HIDE DEF x
      <4>3. f[x] \in Int /\ h[x] \in Int /\ fs[r] \in Int /\ hs[r] \in Int
        BY <1>5, <4>1
      <4>4. both[s] = k[x] + both[r]
        <5>1. both[s] = fs[s] + hs[s] /\ both[r] = fs[r] + hs[r] /\ k[x] = f[x] + h[x]
          BY <4>1
        <5> HIDE DEF both, k, r
        <5> QED
          BY <4>2, <4>3, <5>1
      <4> QED
        BY <3>2, <4>4 DEF x
    <3> QED
      BY <3>1, <3>2
  <2> HIDE DEF both, k
  <2> QED
    BY <2>1, <2>2 DEF HasSums
<1> HIDE DEF k
<1>7. ks[S] = both[S]
  <2> HIDE DEF both
  <2> QED BY <1>1, <1>4, <1>6, SumsAreUnique
<1>8. both[S] = fs[S] + hs[S] /\ fs[S] \in Int /\ hs[S] \in Int
  BY <1>5
<1> QED
  BY <1>2, <1>3, <1>4, <1>7, <1>8 DEF k

-----------------------------------------------------------------------------
(* What a path earns.                                                      *)

\* A route that is covering leaves every vertex once.
LEMMA CoveringTells ==
  ASSUME IInv, NEW p, Chain(p), Covering(SetToBag(Range(p)), 1), NEW v \in Vertices
  PROVE  Visits(p, v) = 1
<1> DEFINE set == Range(p)
           b == SetToBag(set)
           S == {e \in set : e.source.vertex = v}
           X == {x \in S \X (1 .. Units) : x[2] <= Value(b, x[1])}
           D == {i \in 1 .. Len(p) : p[i].source.vertex = v}
           f == [i \in D |-> <<p[i], 1>>]
<1>1. p \in Seq(edges) /\ Len(p) \in Nat /\ DOMAIN p = 1 .. Len(p)
  BY DEF Chain
<1>2. set = {p[i] : i \in 1 .. Len(p)}
  BY RangeOfChain
<1>3. \A i, j \in 1 .. Len(p) : p[i] = p[j] => i = j
  <2>1. 0 \in 0 .. Len(p)
    BY <1>1
  <2> QED
    BY <2>1, ChainsAreInjective
<1>4. BagToSet(b) = set /\ \A e \in set : Value(b, e) = 1
  BY DEF SetToBag, BagToSet, BagIn, Value
<1>5. Cardinality(X) = 1
  <2>1. Total(b, {e \in BagToSet(b) : e.source.vertex = v}) = 1
    BY DEF Covering
  <2>2. {e \in BagToSet(b) : e.source.vertex = v} = S
    BY <1>4
  <2>3. Total(b, S) = 1
    <3> HIDE DEF b, S
    <3> QED BY <2>1, <2>2
  <2> QED
    BY <2>3 DEF Total
<1> HIDE DEF b, set
<1>6. 1 \in 1 .. Units /\ Units \in Nat
  BY ToursAssumption
<1>7. \A i \in D : f[i] \in X
  <2> TAKE i \in D
  <2>1. p[i] \in S /\ Value(b, p[i]) = 1
    BY <1>2, <1>4
  <2>2. <<p[i], 1>> \in S \X (1 .. Units)
    BY <1>6, <2>1
  <2>3. <<p[i], 1>> \in X
    BY <2>1, <2>2
  <2> QED
    BY <2>3
<1>8. \A x \in X : \E i \in D : f[i] = x
  <2> TAKE x \in X
  <2>1. x[1] \in S /\ x[2] \in 1 .. Units /\ x[2] <= Value(b, x[1]) /\ x = <<x[1], x[2]>>
    OBVIOUS
  <2>2. x[1] \in set /\ x[1].source.vertex = v
    BY <2>1
  <2>3. x[2] = 1
    BY <1>4, <1>6, <2>1, <2>2
  <2>4. PICK i \in 1 .. Len(p) : x[1] = p[i]
    BY <1>2, <2>2
  <2>5. i \in D
    BY <2>2, <2>4
  <2>6. f[i] = x
    BY <2>1, <2>3, <2>4, <2>5
  <2> QED
    BY <2>5, <2>6
<1>9. \A i, j \in D : f[i] = f[j] => i = j
  BY <1>3
<1>10. f \in [D -> X]
  <2>1. f = [i \in D |-> f[i]]
    OBVIOUS
  <2> HIDE DEF f, X, D
  <2> QED
    BY <1>7, <2>1
<1>11. f \in Bijection(D, X)
  <2> HIDE DEF f, X, D
  <2>1. IsInjective(f)
    BY <1>9, <1>10 DEF IsInjective
  <2> QED
    BY <1>8, <1>10, <2>1 DEF Bijection, Injection, Surjection
<1>12. IsFiniteSet(D)
  <2>1. D \in SUBSET (1 .. Len(p))
    OBVIOUS
  <2>2. IsFiniteSet(1 .. Len(p))
    BY <1>1, FS_Interval
  <2> HIDE DEF f, X, D
  <2> QED
    BY <2>1, <2>2, FS_Subset
<1>13. Cardinality(D) = Cardinality(X)
  <2>1. ExistsBijection(D, X)
    BY <1>11 DEF ExistsBijection
  <2> HIDE DEF f, X, D
  <2> QED
    BY <1>12, <2>1, FS_Bijection
<1>14. Visits(p, v) = Cardinality(D)
  BY <1>1 DEF Visits
<1> QED
  BY <1>5, <1>13, <1>14

LEMMA VisitsAre ==
  ASSUME IInv, NEW p, Chain(p), NEW v
  PROVE  Visits(p, v) \in Nat
<1> DEFINE D == {i \in DOMAIN p : p[i].source.vertex = v}
<1>1. p \in Seq(edges) /\ Len(p) \in Nat /\ DOMAIN p = 1 .. Len(p)
  BY DEF Chain
<1>2. IsFiniteSet(D)
  <2>1. D \in SUBSET (1 .. Len(p))
    BY <1>1
  <2>2. IsFiniteSet(1 .. Len(p))
    BY <1>1, FS_Interval
  <2> HIDE DEF D
  <2> QED
    BY <2>1, <2>2, FS_Subset
<1>3. Cardinality(D) \in Nat
  <2> HIDE DEF D
  <2> QED BY <1>2, FS_CardinalityType
<1> QED
  BY <1>3 DEF Visits

\* The bound of a path is its cost and all penalties.
LEMMA EvaluateIs ==
  ASSUME IInv, NEW p \in Routes, penalties \in [Vertices -> Int]
  PROVE  /\ PathCost(p) \in Int /\ Sum(penalties) \in Int /\ Arrival(p) \in Nat
         /\ evaluate(p) = PathCost(p) + Sum(penalties)
<1> DEFINE earned == [v \in Vertices |-> Visits(p, v) * penalties[v]]
           owed == [v \in Vertices |-> (1 - Visits(p, v)) * penalties[v]]
<1>1. Chain(p) /\ p \in Seq(edges) /\ p # <<>> /\ Len(p) \in 1 .. Len(p)
  <2>1. Chain(p) /\ p \in Seq(edges) /\ p # <<>>
    BY DEF Routes
  <2> QED
    BY <2>1
<1>2. Arrival(p) = p[Len(p)].target.time /\ Arrival(p) \in Nat
  BY <1>1, EdgesOfChain DEF Arrival, Last
<1>3. \A v \in Vertices : Visits(p, v) \in Int
  BY <1>1, VisitsAre
<1>4. \A v \in Vertices : /\ earned[v] \in Int /\ owed[v] \in Int
                          /\ earned[v] + owed[v] = penalties[v]
  <2> TAKE v \in Vertices
  <2> DEFINE m == Visits(p, v)
             r == penalties[v]
  <2>1. m \in Int /\ r \in Int
    BY <1>3
  <2>2. earned[v] = m * r /\ owed[v] = (1 - m) * r
    OBVIOUS
  <2> HIDE DEF m, r
  <2>3. m * r \in Int /\ (1 - m) * r \in Int /\ m * r + (1 - m) * r = r
    BY <2>1
  <2> HIDE DEF earned, owed
  <2> QED
    BY <2>2, <2>3 DEF r
<1>5. earned \in [Vertices -> Int] /\ owed \in [Vertices -> Int]
  BY <1>4
<1>6. [v \in Vertices |-> earned[v] + owed[v]] = penalties
  <2>1. penalties = [v \in Vertices |-> penalties[v]]
    OBVIOUS
  <2> HIDE DEF earned, owed
  <2> QED
    BY <1>4, <2>1
<1>7. PathCost(p) = Arrival(p) * Scale - Sum(earned) /\ evaluate(p) = Arrival(p) * Scale + Sum(owed)
  BY DEF PathCost, evaluate
<1> HIDE DEF earned, owed
<1>8. Sum(earned) \in Int /\ Sum(owed) \in Int /\ Sum(penalties) = Sum(earned) + Sum(owed)
  <2>1. IsFiniteSet(Vertices)
    BY ToursAssumption
  <2> QED
    BY <1>5, <1>6, <2>1, SumOfSum
<1>9. Arrival(p) * Scale \in Int
  BY <1>2, ScaleAssumption
<1> DEFINE a == Arrival(p) * Scale
<1> HIDE DEF a
<1> QED
  BY <1>2, <1>7, <1>8, <1>9 DEF a

\* A tour earns all of them.
LEMMA CostOfTour ==
  ASSUME IInv, NEW p \in Routes, penalties \in [Vertices -> Int], Covering(SetToBag(Range(p)), 1)
  PROVE  PathCost(p) = Arrival(p) * Scale - Sum(penalties)
<1>1. Chain(p)
  BY DEF Routes
<1>2. \A v \in Vertices : Visits(p, v) * penalties[v] = penalties[v]
  <2> TAKE v \in Vertices
  <2>1. Visits(p, v) = 1 /\ penalties[v] \in Int
    BY <1>1, CoveringTells
  <2> QED
    BY <2>1
<1>3. [v \in Vertices |-> Visits(p, v) * penalties[v]] = penalties
  <2>1. penalties = [v \in Vertices |-> penalties[v]]
    OBVIOUS
  <2> QED
    BY <1>2, <2>1
<1> QED
  BY <1>3 DEF PathCost

\* What is found is a cheapest route.
LEMMA FoundAreCheapest ==
  ASSUME IInv, penalties \in [Vertices -> Int], NEW path \in findPath
  PROVE  path \in Routes /\ \A q \in Routes : PathCost(path) <= PathCost(q)
<1> DEFINE all == {InOrder(set) : set \in Journeys}
           costs == {PathCost(p) : p \in all}
           f == [set \in Journeys |-> PathCost(InOrder(set))]
<1>1. timeHorizon \in Nat
  BY Travel DEF IInv
<1>2. all = Routes
  <2>1. \A p \in Routes : InOrder(Range(p)) = p
    BY ChainsAreInOrder DEF Routes
  <2>2. Journeys = {Range(p) : p \in Routes}
    BY <1>1, JourneysAre
  <2> QED
    BY <2>1, <2>2
<1>3. path \in all /\ PathCost(path) = Min(costs)
  BY DEF findPath
<1>4. \A p \in Routes : PathCost(p) \in Int
  BY EvaluateIs
<1>5. costs = {PathCost(p) : p \in Routes}
  BY <1>2
<1>6. costs = {PathCost(InOrder(set)) : set \in Journeys}
  OBVIOUS
<1> HIDE DEF all
<1>7. IsFiniteSet(costs)
  <2>1. f \in Surjection(Journeys, costs)
    <3>1. \A set \in Journeys : f[set] \in costs
      BY <1>6
    <3>2. \A c \in costs : \E set \in Journeys : f[set] = c
      BY <1>6
    <3>3. f = [set \in Journeys |-> f[set]]
      OBVIOUS
    <3> HIDE DEF f, costs
    <3> QED
      BY <3>1, <3>2, <3>3 DEF Surjection
  <2>2. IsFiniteSet(Journeys)
    BY NetworkIsFinite
  <2> HIDE DEF f, costs
  <2> QED
    BY <2>1, <2>2, FS_Surjection
<1>8. costs \in SUBSET Int /\ costs # {}
  BY <1>2, <1>3, <1>4, <1>5
<1>9. \A c \in costs : Min(costs) <= c
  <2> HIDE DEF costs
  <2> QED
    BY <1>7, <1>8, LeastOfFinite
<1> QED
  BY <1>2, <1>3, <1>5, <1>9

\* However the penalties are: the bound of a cheapest path is one for every tour.
LEMMA BoundIsSound ==
  ASSUME IInv, penalties \in [Vertices -> Int], NEW path \in findPath,
         NEW q \in Routes, Covering(SetToBag(Range(q)), 1)
  PROVE  evaluate(path) \in Int /\ evaluate(path) <= Arrival(q) * Scale
<1>1. path \in Routes /\ PathCost(path) <= PathCost(q)
  BY FoundAreCheapest
<1>2. PathCost(path) \in Int /\ evaluate(path) = PathCost(path) + Sum(penalties)
  BY <1>1, EvaluateIs
<1>3. PathCost(q) \in Int /\ Sum(penalties) \in Int /\ Arrival(q) \in Nat
  BY EvaluateIs
<1>4. PathCost(q) = Arrival(q) * Scale - Sum(penalties) /\ Arrival(q) * Scale \in Int
  BY <1>3, CostOfTour, ScaleAssumption
<1> DEFINE a == Arrival(q) * Scale
           b == PathCost(q)
           c == PathCost(path)
<1>5. a \in Int /\ b \in Int /\ c \in Int /\ c <= b /\ b = a - Sum(penalties)
      /\ evaluate(path) = c + Sum(penalties)
  BY <1>1, <1>2, <1>3, <1>4
<1>6. evaluate(path) \in Int /\ evaluate(path) <= a
  <2> HIDE DEF a, b, c
  <2> QED BY <1>3, <1>5
<1> QED
  BY <1>6

\* A route is back with its last edge only.
LEMMA LastEdge ==
  ASSUME IInv, NEW q \in Routes, NEW e \in Range(q), IsEnd(e.target)
  PROVE  Arrival(q) = e.target.time
<1>1. Chain(q) /\ q # <<>>
  BY DEF Routes
<1>2. PICK i \in 1 .. Len(q) : e = q[i]
  BY <1>1, RangeOfChain
<1>3. Len(q) \in Nat /\ \A j \in 1 .. Len(q) : ~ IsEnd(q[j].source)
  BY <1>1, EdgesOfChain
<1>4. i = Len(q)
  <2> SUFFICES ASSUME i # Len(q) PROVE FALSE
    OBVIOUS
  <2>1. i \in 1 .. Len(q) - 1 /\ i + 1 \in 1 .. Len(q)
    BY <1>3
  <2>2. q[i].target = q[i + 1].source
    BY <1>1, <2>1 DEF Chain
  <2> QED
    BY <1>2, <1>3, <2>1, <2>2
<1> QED
  BY <1>1, <1>2, <1>4 DEF Arrival, Last

-----------------------------------------------------------------------------
(* convertPath.                                                            *)

\* A function that is defined by a different step each time.
IsRecursion(g, F, base, N, V) ==
  g \in [0 .. N -> V] /\ g = [i \in 0 .. N |-> IF i = 0 THEN base ELSE F[i][g[i - 1]]]

LEMMA RecursionExists ==
  ASSUME NEW V, NEW base \in V, NEW N \in Nat, NEW F \in [1 .. N -> [V -> V]]
  PROVE  \E g : IsRecursion(g, F, base, N, V)
<1> DEFINE Upto(k) == \E g : /\ g \in [0 .. k -> V]
                             /\ \A i \in 0 .. k : g[i] = IF i = 0 THEN base ELSE F[i][g[i - 1]]
           S == {k \in Nat : k <= N => Upto(k)}
<1>1. 0 \in S
  <2> DEFINE g == [i \in 0 .. 0 |-> base]
  <2>1. g \in [0 .. 0 -> V] /\ \A i \in 0 .. 0 : i = 0 /\ g[i] = base  OBVIOUS
  <2>2. Upto(0)
    <3> HIDE DEF g
    <3> QED BY <2>1
  <2> QED BY <2>2
<1>2. \A k \in S : k + 1 \in S
  <2> SUFFICES ASSUME NEW k \in Nat, k + 1 <= N, Upto(k)
               PROVE  Upto(k + 1)
    <3>1. \A k \in Nat : k + 1 <= N => k <= N  OBVIOUS
    <3> HIDE DEF Upto
    <3> QED BY <3>1
  <2> PICK g \in [0 .. k -> V] : \A i \in 0 .. k : g[i] = IF i = 0 THEN base ELSE F[i][g[i - 1]]
    OBVIOUS
  <2> HIDE DEF S
  <2> DEFINE m == k + 1
             h == [i \in 0 .. m |-> IF i = m THEN F[m][g[k]] ELSE g[i]]
  <2>1. m \in 1 .. N /\ k \in 0 .. k /\ m - 1 = k /\ m # 0 /\ k # m /\ k \in 0 .. m
        /\ \A i \in 0 .. m : i = m \/ (i \in 0 .. k /\ i # m)
    OBVIOUS
  <2> HIDE DEF m
  <2>2. F[m] \in [V -> V] /\ g[k] \in V  BY <2>1
  <2>3. F[m][g[k]] \in V  BY <2>2
  <2>4. \A i \in 0 .. m : h[i] \in V
    <3> TAKE i \in 0 .. m
    <3>1. CASE i = m  BY <2>3, <3>1
    <3>2. CASE i \in 0 .. k /\ i # m  BY <3>2
    <3> QED BY <2>1, <3>1, <3>2
  <2>5. h = [i \in 0 .. m |-> h[i]]  OBVIOUS
  <2>6. \A i \in 0 .. m : h[i] = IF i = 0 THEN base ELSE F[i][h[i - 1]]
    <3> TAKE i \in 0 .. m
    <3>1. CASE i = m
      <4>1. h[k] = g[k] /\ h[m] = F[m][g[k]]  BY <2>1
      <4> HIDE DEF h
      <4> QED BY <2>1, <3>1, <4>1
    <3>2. CASE i \in 0 .. k /\ i # m
      <4>1. h[i] = g[i]  BY <3>2
      <4>2. i # 0 => i - 1 \in 0 .. k /\ i - 1 \in 0 .. m /\ i - 1 # m  BY <2>1, <3>2 DEF m
      <4>3. i # 0 => h[i - 1] = g[i - 1]  BY <4>2
      <4> HIDE DEF h
      <4> QED BY <3>2, <4>1, <4>3
    <3> QED BY <2>1, <3>1, <3>2
  <2> HIDE DEF h
  <2>7. h \in [0 .. m -> V]  BY <2>4, <2>5
  <2> QED BY <2>6, <2>7 DEF m
<1>3. S = Nat
  <2>1. S \in SUBSET Nat  OBVIOUS
  <2> HIDE DEF S
  <2> QED BY <1>1, <1>2, <2>1, Induction
<1>4. Upto(N)
  <2>1. N \in S
    <3> HIDE DEF S
    <3> QED BY <1>3
  <2> QED BY <2>1
<1>5. PICK g : /\ g \in [0 .. N -> V]
               /\ \A i \in 0 .. N : g[i] = IF i = 0 THEN base ELSE F[i][g[i - 1]]
  BY <1>4
<1>6. g = [i \in 0 .. N |-> g[i]]  BY <1>5
<1>7. g = [i \in 0 .. N |-> IF i = 0 THEN base ELSE F[i][g[i - 1]]]  BY <1>5, <1>6
<1>8. IsRecursion(g, F, base, N, V)  BY <1>5, <1>7 DEF IsRecursion
<1> QED BY <1>8

\* One edge at most leads from the end of a chain to a vertex.
LEMMA OneWay ==
  ASSUME IInv, NEW p, NEW v, EdgesTo(p, {v}) # {}
  PROVE  \E e \in edges : EdgesTo(p, {v}) = {e} /\ e.source = EndOf(p) /\ e.target.vertex = v
<1>1. PICK e \in edges : e.source = EndOf(p) /\ e.target.vertex = v
  BY DEF EdgesTo
<1>2. ASSUME NEW f \in edges, f.source = EndOf(p), f.target.vertex = v
      PROVE  f = e
  <2> DEFINE t == EndOf(p).time
             w == EndOf(p).vertex
  <2>1. ASSUME NEW g \in edges, g.source = EndOf(p), g.target.vertex = v
        PROVE  g = Edge(<<w, v>>, t)
    <3>1. PICK a \in Arcs : a[1] # a[2] /\ g = Edge(a, g.source.time)
      BY DEF IInv, EdgesAreTimed
    <3>2. a = <<a[1], a[2]>>
      BY DistanceAssumption
    <3>3. g.source.vertex = a[1] /\ g.target.vertex = a[2]
      <4>1. /\ Edge(a, g.source.time).source.vertex = a[1]
            /\ Edge(a, g.source.time).target.vertex = a[2]
        BY DEF Edge
      <4> QED
        BY <3>1, <4>1
    <3>4. a = <<w, v>>
      BY <2>1, <3>2, <3>3
    <3> QED
      BY <2>1, <3>1, <3>4
  <2> QED
    BY <1>1, <1>2, <2>1
<1>3. EdgesTo(p, {v}) = {e}
  BY <1>1, <1>2 DEF EdgesTo
<1> QED
  BY <1>1, <1>3

LEMMA SequencesOfFew ==
  /\ SetToSeq({}) = <<>>
  /\ \A e : SetToSeq({e}) = <<e>>
<1>1. SetToSeq({}) = <<>>
  <2> DEFINE F == [1 .. 0 -> {}]
  <2>1. Cardinality({}) = 0
    BY FS_EmptySet
  <2>2. SetToSeq({}) = CHOOSE f \in F : IsInjective(f)
    BY <2>1 DEF SetToSeq
  <2>3. <<>> \in F /\ IsInjective(<<>>)
    BY DEF IsInjective
  <2>4. \A f \in F : f = <<>>
    OBVIOUS
  <2> HIDE DEF F
  <2> QED
    BY <2>2, <2>3, <2>4
<1>2. ASSUME NEW e PROVE SetToSeq({e}) = <<e>>
  <2> DEFINE F == [1 .. 1 -> {e}]
  <2>1. Cardinality({e}) = 1
    BY FS_Singleton
  <2>2. SetToSeq({e}) = CHOOSE f \in F : IsInjective(f)
    BY <2>1 DEF SetToSeq
  <2>3. <<e>> \in F /\ IsInjective(<<e>>)
    BY DEF IsInjective
  <2>4. \A f \in F : f = <<e>>
    OBVIOUS
  <2> HIDE DEF F
  <2> QED
    BY <2>2, <2>3, <2>4
<1> QED
  BY <1>1, <1>2

\* Going along to a vertex: by the edge that leads there, if there is one.
LEMMA Along1Is ==
  ASSUME IInv, NEW p, Chain(p), NEW v
  PROVE  \/ EdgesTo(p, {v}) = {} /\ Along1(p, v) = p
         \/ \E e \in edges : /\ e.source = EndOf(p) /\ e.target.vertex = v
                             /\ EdgesTo(p, {v}) = {e} /\ Along1(p, v) = Append(p, e)
<1>1. p \in Seq(edges)
  BY DEF Chain
<1>2. CASE EdgesTo(p, {v}) = {}
  <2>1. Along1(p, v) = p \o <<>>
    BY <1>2, SequencesOfFew DEF Along1
  <2>2. p \o <<>> = p
    BY <1>1
  <2> QED
    BY <1>2, <2>1, <2>2
<1>3. CASE EdgesTo(p, {v}) # {}
  <2>1. PICK e \in edges : EdgesTo(p, {v}) = {e} /\ e.source = EndOf(p) /\ e.target.vertex = v
    BY <1>3, OneWay
  <2>2. Along1(p, v) = p \o <<e>>
    BY <2>1, SequencesOfFew DEF Along1
  <2>3. p \o <<e>> = Append(p, e)
    BY <1>1
  <2> QED
    BY <2>1, <2>2, <2>3
<1> QED
  BY <1>2, <1>3

\* A chain that comes to no vertex twice and is not back yet.
Simple(p) ==
  /\ Chain(p)
  /\ \A i \in 1 .. Len(p) :
       /\ p[i].target.vertex # Root
       /\ \A j \in 1 .. Len(p) : p[j].target.vertex = p[i].target.vertex => j = i

SimpleChains == {p \in Seq(edges) : Simple(p)}

LEMMA SimpleBegins == <<>> \in SimpleChains
<1>1. <<>> \in Seq(edges) /\ Len(<<>>) = 0
  OBVIOUS
<1>2. Chain(<<>>)
  BY <1>1 DEF Chain
<1> QED
  BY <1>1, <1>2 DEF SimpleChains, Simple

LEMMA VisitedAre ==
  ASSUME NEW p \in Seq(edges)
  PROVE  Visited(p) = {Root} \cup {p[i].target.vertex : i \in 1 .. Len(p)}
<1>1. DOMAIN p = 1 .. Len(p)
  OBVIOUS
<1> QED
  BY <1>1 DEF Visited

\* It stays one when it is prolonged to a vertex that has not been visited.
LEMMA SimpleGoesOn ==
  ASSUME IInv, NEW p \in SimpleChains, NEW v, v \notin Visited(p)
  PROVE  Along1(p, v) \in SimpleChains
<1> DEFINE n == Len(p)
<1>1. /\ p \in Seq(edges) /\ n \in Nat /\ Chain(p)
      /\ \A i \in 1 .. n :
           /\ p[i].target.vertex # Root
           /\ \A j \in 1 .. n : p[j].target.vertex = p[i].target.vertex => j = i
  BY DEF SimpleChains, Simple
<1>2. v # Root /\ \A i \in 1 .. n : p[i].target.vertex # v
  BY <1>1, VisitedAre
<1>3. CASE Along1(p, v) = p
  BY <1>3
<1>4. ASSUME NEW e \in edges, e.source = EndOf(p), e.target.vertex = v, Along1(p, v) = Append(p, e)
      PROVE  Along1(p, v) \in SimpleChains
  <2> DEFINE q == Append(p, e)
  <2>1. q \in Seq(edges) /\ Len(q) = n + 1 /\ Chain(q)
    BY <1>1, <1>4, LongerChain
  <2>2. q[n + 1] = e /\ \A i \in 1 .. n : q[i] = p[i]
    BY <1>1
  <2> HIDE DEF q
  <2>3. ASSUME NEW i \in 1 .. n + 1, NEW j \in 1 .. n + 1, q[j].target.vertex = q[i].target.vertex
        PROVE  q[i].target.vertex # Root /\ j = i
    <3>1. (i = n + 1 \/ i \in 1 .. n) /\ (j = n + 1 \/ j \in 1 .. n)
      BY <1>1
    <3>2. CASE i = n + 1 /\ j = n + 1
      BY <1>2, <1>4, <2>2, <3>2
    <3>3. CASE i = n + 1 /\ j \in 1 .. n
      BY <1>2, <1>4, <2>2, <2>3, <3>3
    <3>4. CASE i \in 1 .. n /\ j = n + 1
      BY <1>2, <1>4, <2>2, <2>3, <3>4
    <3>5. CASE i \in 1 .. n /\ j \in 1 .. n
      BY <1>1, <2>2, <2>3, <3>5
    <3> QED
      BY <3>1, <3>2, <3>3, <3>4, <3>5
  <2>4. \A i \in 1 .. Len(q) :
          /\ q[i].target.vertex # Root
          /\ \A j \in 1 .. Len(q) : q[j].target.vertex = q[i].target.vertex => j = i
    BY <2>1, <2>3
  <2>5. Simple(q)
    BY <2>1, <2>4 DEF Simple
  <2>6. q \in SimpleChains
    BY <2>1, <2>5 DEF SimpleChains
  <2>7. Along1(p, v) = q
    BY <1>4 DEF q
  <2> QED
    BY <2>6, <2>7
<1>5. \/ Along1(p, v) = p
      \/ \E e \in edges : e.source = EndOf(p) /\ e.target.vertex = v /\ Along1(p, v) = Append(p, e)
  <2> HIDE DEF n
  <2>1. Chain(p)
    BY <1>1
  <2> QED
    BY <2>1, Along1Is
<1> QED
  BY <1>3, <1>4, <1>5

\* What is left of a path when vertices are left out that have been visited.
Shorter(path, i, p) ==
  LET v == path[i].target.vertex
  IN  IF v \in Visited(p) THEN p ELSE Along1(p, v)

LEMMA ShortenedIsSimple ==
  ASSUME IInv, NEW path, Len(path) \in Nat
  PROVE  Shortened(path) \in SimpleChains
<1> DEFINE N == Len(path)
           V == SimpleChains
           F == [i \in 1 .. N |-> [p \in V |-> Shorter(path, i, p)]]
           Is(h) == h = [i \in 0 .. N |-> IF i = 0 THEN <<>> ELSE Shorter(path, i, h[i - 1])]
           Upto == CHOOSE h : Is(h)
<1>1. N \in Nat /\ <<>> \in V
  BY SimpleBegins
<1>2. \A i \in 1 .. N : \A p \in V : Shorter(path, i, p) \in V
  BY SimpleGoesOn DEF Shorter
<1>3. F \in [1 .. N -> [V -> V]]
  <2> HIDE DEF V, N
  <2> QED
    BY <1>2
<1>4. PICK g : g = [i \in 0 .. N |-> IF i = 0 THEN <<>> ELSE F[i][g[i - 1]]] /\ g \in [0 .. N -> V]
  <2> HIDE DEF V, N, F
  <2>1. \E g : IsRecursion(g, F, <<>>, N, V)
    BY <1>1, <1>3, RecursionExists
  <2> QED
    BY <2>1 DEF IsRecursion
<1>5. Is(g)
  <2>1. \A i \in 0 .. N : i # 0 => i \in 1 .. N /\ i - 1 \in 0 .. N
    BY <1>1
  <2>2. \A i \in 0 .. N : i # 0 => g[i - 1] \in V
    <3> HIDE DEF V, N, F
    <3> QED
      BY <1>4, <2>1
  <2>3. \A i \in 0 .. N : i # 0 => F[i][g[i - 1]] = Shorter(path, i, g[i - 1])
    <3> HIDE DEF V, N
    <3> QED
      BY <2>1, <2>2
  <2>4. \A i \in 0 .. N : (IF i = 0 THEN <<>> ELSE F[i][g[i - 1]])
                          = (IF i = 0 THEN <<>> ELSE Shorter(path, i, g[i - 1]))
    <3> HIDE DEF V, N, F
    <3> QED
      BY <2>3
  <2> HIDE DEF V, N, F
  <2> QED
    BY <1>4, <2>4
<1>6. Is(Upto)
  <2> HIDE DEF Is
  <2> QED
    BY <1>5
<1>7. Shortened(path) = Upto[N]
  BY DEF Shortened, Shorter
<1> HIDE DEF Upto, V, F
<1> DEFINE S == {k \in Nat : k <= N => Upto[k] \in V}
<1>8. 0 \in S
  <2>1. Upto[0] = <<>>
    BY <1>1, <1>6
  <2> QED
    BY <1>1, <2>1
<1>9. \A k \in S : k + 1 \in S
  <2> SUFFICES ASSUME NEW k \in Nat, k + 1 <= N, k <= N => Upto[k] \in V
               PROVE  Upto[k + 1] \in V
    OBVIOUS
  <2>1. k + 1 \in 1 .. N /\ k + 1 \in 0 .. N /\ (k + 1) - 1 = k /\ k + 1 # 0 /\ k <= N
    BY <1>1
  <2>2. Upto[k + 1] = Shorter(path, k + 1, Upto[k])
    BY <1>6, <2>1
  <2> QED
    BY <1>2, <2>1, <2>2
<1>10. S = Nat
  <2>1. S \in SUBSET Nat  OBVIOUS
  <2> HIDE DEF S
  <2> QED BY <1>8, <1>9, <2>1, Induction
<1>11. Upto[N] \in V
  <2>1. N \in S
    <3> HIDE DEF S
    <3> QED BY <1>1, <1>10
  <2> QED BY <1>1, <2>1
<1> QED
  BY <1>7, <1>11 DEF V

\* The nearest vertex that is missed is one of those.
LEMMA NearestIsMissed ==
  ASSUME IInv, NEW p, EdgesTo(p, Missed(p)) # {}
  PROVE  Nearest(p) \in Missed(p)
<1> DEFINE out == EdgesTo(p, Missed(p))
           times == {e.target.time : e \in out}
           first == {e \in out : e.target.time = Min(times)}
           near == {e.target.vertex : e \in first}
<1>1. \A e \in out : e \in edges /\ e.target.vertex \in Missed(p)
  BY DEF EdgesTo
<1>2. Missed(p) \subseteq Nat
  BY WaysAssumption DEF Missed
<1>3. \A e \in edges : e.target.time \in Nat
  BY DEF IInv, NetworkIsSound, TypeOK
<1>4. Min(times) \in times
  <2>1. times \in SUBSET Nat /\ times # {}
    BY <1>1, <1>3
  <2> HIDE DEF times
  <2> QED
    BY <2>1, LeastExists
<1>5. first # {}
  BY <1>4
<1>6. near \in SUBSET Nat /\ near # {} /\ near \subseteq Missed(p)
  BY <1>1, <1>2, <1>5
<1>7. Min(near) \in near
  <2> HIDE DEF near
  <2> QED
    BY <1>6, LeastExists
<1>8. Nearest(p) = Min(near)
  BY DEF Nearest
<1> QED
  BY <1>6, <1>7, <1>8

\* One step of filling a chain up.
Fuller(p) == IF EdgesTo(p, Missed(p)) = {} THEN p ELSE Along1(p, Nearest(p))

LEMMA FilledIsSimple ==
  ASSUME IInv, NEW path \in SimpleChains
  PROVE  Filled(path) \in SimpleChains
<1> DEFINE N == Cardinality(Vertices)
           V == SimpleChains
           F == [i \in 1 .. N |-> [p \in V |-> Fuller(p)]]
           Is(h) == h = [i \in 0 .. N |-> IF i = 0 THEN path ELSE Fuller(h[i - 1])]
           Fill == CHOOSE h : Is(h)
<1>1. N \in Nat /\ path \in V
  BY FS_CardinalityType, ToursAssumption
<1>2. \A p \in V : Fuller(p) \in V
  <2> TAKE p \in V
  <2>1. CASE EdgesTo(p, Missed(p)) = {}
    BY <2>1 DEF Fuller
  <2>2. CASE EdgesTo(p, Missed(p)) # {}
    <3>1. Nearest(p) \notin Visited(p)
      BY <2>2, NearestIsMissed DEF Missed
    <3>2. Along1(p, Nearest(p)) \in SimpleChains
      BY <3>1, SimpleGoesOn
    <3> QED
      BY <2>2, <3>2 DEF Fuller
  <2> QED
    BY <2>1, <2>2
<1>3. F \in [1 .. N -> [V -> V]]
  <2> HIDE DEF V, N
  <2> QED
    BY <1>2
<1>4. PICK g : g = [i \in 0 .. N |-> IF i = 0 THEN path ELSE F[i][g[i - 1]]] /\ g \in [0 .. N -> V]
  <2> HIDE DEF V, N, F
  <2>1. \E g : IsRecursion(g, F, path, N, V)
    BY <1>1, <1>3, RecursionExists
  <2> QED
    BY <2>1 DEF IsRecursion
<1>5. Is(g)
  <2>1. \A i \in 0 .. N : i # 0 => i \in 1 .. N /\ i - 1 \in 0 .. N
    BY <1>1
  <2>2. \A i \in 0 .. N : i # 0 => g[i - 1] \in V
    <3> HIDE DEF V, N, F
    <3> QED
      BY <1>4, <2>1
  <2>3. \A i \in 0 .. N : i # 0 => F[i][g[i - 1]] = Fuller(g[i - 1])
    <3> HIDE DEF V, N
    <3> QED
      BY <2>1, <2>2
  <2>4. \A i \in 0 .. N : (IF i = 0 THEN path ELSE F[i][g[i - 1]])
                          = (IF i = 0 THEN path ELSE Fuller(g[i - 1]))
    <3> HIDE DEF V, N, F
    <3> QED
      BY <2>3
  <2> HIDE DEF V, N, F
  <2> QED
    BY <1>4, <2>4
<1>6. Is(Fill)
  <2> HIDE DEF Is
  <2> QED
    BY <1>5
<1>7. Filled(path) = Fill[N]
  BY DEF Filled, Fuller
<1> HIDE DEF Fill, V, F, N
<1> DEFINE S == {k \in Nat : k <= N => Fill[k] \in V}
<1>8. 0 \in S
  <2>1. Fill[0] = path
    BY <1>1, <1>6
  <2> QED
    BY <1>1, <2>1
<1>9. \A k \in S : k + 1 \in S
  <2> SUFFICES ASSUME NEW k \in Nat, k + 1 <= N, k <= N => Fill[k] \in V
               PROVE  Fill[k + 1] \in V
    OBVIOUS
  <2>1. k + 1 \in 0 .. N /\ (k + 1) - 1 = k /\ k + 1 # 0 /\ k <= N
    BY <1>1
  <2>2. Fill[k + 1] = Fuller(Fill[k])
    BY <1>6, <2>1
  <2> QED
    BY <1>2, <2>1, <2>2
<1>10. S = Nat
  <2>1. S \in SUBSET Nat  OBVIOUS
  <2> HIDE DEF S
  <2> QED BY <1>8, <1>9, <2>1, Induction
<1>11. Fill[N] \in V
  <2>1. N \in S
    <3> HIDE DEF S
    <3> QED BY <1>1, <1>10
  <2> QED BY <1>1, <2>1
<1> QED
  BY <1>7, <1>11 DEF V

\* From every vertex of the network there is an edge home.
LEMMA WayHome ==
  ASSUME Expanded, NEW v \in vertices, v.vertex # Root
  PROVE  \E e \in edges : e.source = v /\ e.target.vertex = Root /\ IsEnd(e.target)
<1> DEFINE a == <<v.vertex, Root>>
           e == Edge(a, v.time)
<1>1. TypeOK /\ NetworkIsSound /\ Closed /\ unprocessed = {} /\ lowerBound = 0
  BY DEF Expanded, IInv, Done
<1>2. /\ v \in [vertex : Vertices, time : 0 .. timeHorizon]
      /\ Root \in Vertices /\ timeHorizon \in Nat /\ MaxTime \in Nat /\ timeHorizon <= MaxTime
  BY <1>1, Travel DEF TypeOK
<1>3. v.vertex \in Vertices /\ v.time \in Nat /\ v.time <= timeHorizon /\ v.time \in 0 .. MaxTime
      /\ v = [vertex |-> v.vertex, time |-> v.time]
  BY <1>2
<1>4. distances[a][v.time] \in Nat /\ distances[a][v.time] # 0
  BY <1>1, <1>2, <1>3, Travel
<1>5. sourceTime(v) <= timeHorizon
  <2>1. v # Start
    BY DEF Start
  <2> QED
    BY <1>1, <2>1 DEF NetworkIsSound
<1>6. e.source = v /\ e.target.vertex = Root /\ e.target.time = sourceTime(v)
  BY <1>3 DEF Edge, sourceTime
<1>7. e.target.time \in Nat /\ e.target.time > 0 /\ e.target.time <= timeHorizon
  BY <1>3, <1>4, <1>5, <1>6 DEF sourceTime
<1>8. sourceTime(e.target) = e.target.time
  <2> DEFINE t == e.target.time
  <2>1. t \in 0 .. MaxTime
    BY <1>2, <1>7
  <2>2. distances[<<Root, Root>>][t] = 0
    BY <1>1, <1>2, <2>1, Travel
  <2>3. sourceTime(e.target) = t + distances[<<Root, Root>>][t]
    BY <1>6 DEF sourceTime
  <2> HIDE DEF t
  <2>4. t + distances[<<Root, Root>>][t] = t
    BY <2>1, <2>2
  <2> QED
    BY <2>3, <2>4 DEF t
<1> HIDE DEF e
<1>9. Kept(e)
  BY <1>1, <1>6, <1>7, <1>8 DEF Kept
<1>10. a \in Arcs
  BY <1>3, WaysAssumption
<1>11. a[1] = v.vertex /\ a[2] # v.vertex /\ ~ IsEnd(v) /\ v \in vertices \ unprocessed
  BY <1>1 DEF IsEnd
<1> HIDE DEF a
<1>12. e \in edges
  BY <1>1, <1>9, <1>10, <1>11 DEF Closed, e
<1>13. IsEnd(e.target)
  BY <1>6, <1>7 DEF IsEnd
<1> QED
  BY <1>6, <1>12, <1>13

LEMMA NoLoop ==
  ASSUME IInv, NEW e \in edges
  PROVE  e.source.vertex # e.target.vertex
<1>1. PICK a \in Arcs : a[1] # a[2] /\ e = Edge(a, e.source.time)
  BY DEF IInv, EdgesAreTimed
<1>2. /\ Edge(a, e.source.time).source.vertex = a[1]
      /\ Edge(a, e.source.time).target.vertex = a[2]
  BY DEF Edge
<1> QED
  BY <1>1, <1>2

\* A chain that has been everywhere once, and the edge home, make a tour.
LEMMA ClosedIsTour ==
  ASSUME Expanded, NEW p \in SimpleChains, Missed(p) = {}, NEW e \in edges,
         e.source = EndOf(p), IsEnd(e.target)
  PROVE  Append(p, e) \in Routes /\ Covering(SetToBag(Range(Append(p, e))), 1)
<1> DEFINE n == Len(p)
           r == Append(p, e)
<1>1. IInv /\ timeHorizon \in Nat
  BY Travel DEF Expanded, IInv
<1>2. /\ p \in Seq(edges) /\ n \in Nat /\ Chain(p)
      /\ \A i \in 1 .. n :
           /\ p[i].target.vertex # Root
           /\ \A j \in 1 .. n : p[j].target.vertex = p[i].target.vertex => j = i
  BY DEF SimpleChains, Simple
<1>3. r \in Seq(edges) /\ Len(r) = n + 1 /\ Chain(r)
  BY <1>2, LongerChain
<1>4. r[n + 1] = e /\ \A i \in 1 .. n : r[i] = p[i]
  BY <1>2
<1> HIDE DEF r
<1>5. r # <<>> /\ n + 1 \in 1 .. Len(r) /\ 1 \in 1 .. Len(r)
  BY <1>2, <1>3
<1>6. r \in Routes
  <2>1. n + 1 <= e.target.time
    BY <1>1, <1>3, <1>4, <1>5, TimePasses
  <2>2. e.target.time \in Nat /\ e.target.time <= timeHorizon
    BY <1>1, <1>3, <1>4, <1>5, EdgesOfChain
  <2>3. Len(r) <= timeHorizon
    BY <1>1, <1>2, <1>3, <2>1, <2>2
  <2>4. IsEnd(r[Len(r)].target)
    BY <1>3, <1>4
  <2> QED
    BY <1>3, <1>5, <2>3, <2>4 DEF Routes
<1>7. r[1].source.vertex = Root
  BY <1>3, <1>5 DEF Chain, Start
<1>8. \A i \in 1 .. n : i + 1 \in 1 .. Len(r) /\ r[i + 1].source = p[i].target
  <2> TAKE i \in 1 .. n
  <2>1. i \in 1 .. Len(r) - 1 /\ i + 1 \in 1 .. Len(r)
    BY <1>2, <1>3
  <2>2. r[i].target = r[i + 1].source
    BY <1>3, <2>1 DEF Chain
  <2> QED
    BY <1>4, <2>1, <2>2
<1>9. Range(r) = {r[i] : i \in 1 .. Len(r)}
  BY <1>1, <1>3, RangeOfChain
<1>10. \A j \in 1 .. Len(r) : j = 1 \/ (j - 1 \in 1 .. n /\ (j - 1) + 1 = j)
  BY <1>2, <1>3
<1>11. ASSUME NEW v \in Vertices
       PROVE  \E f : {g \in Range(r) : g.source.vertex = v} = {f}
  <2> SUFFICES ASSUME NEW k \in 1 .. Len(r), r[k].source.vertex = v,
                      \A j \in 1 .. Len(r) : r[j].source.vertex = v => j = k
               PROVE  \E f : {g \in Range(r) : g.source.vertex = v} = {f}
    <3>1. CASE v = Root
      <4>1. \A j \in 1 .. Len(r) : r[j].source.vertex = v => j = 1
        <5> TAKE j \in 1 .. Len(r)
        <5> HAVE r[j].source.vertex = v
        <5>1. j - 1 \notin 1 .. n \/ (j - 1) + 1 # j
          BY <1>2, <1>8, <3>1
        <5> QED
          BY <1>10, <5>1
      <4> QED
        BY <1>5, <1>7, <3>1, <4>1
    <3>2. CASE v # Root
      <4>1. v \in Visited(p)
        BY DEF Missed
      <4>2. PICK i \in 1 .. n : p[i].target.vertex = v
        BY <1>2, <3>2, <4>1, VisitedAre
      <4>3. i + 1 \in 1 .. Len(r) /\ r[i + 1].source.vertex = v
        BY <1>8, <4>2
      <4>4. \A j \in 1 .. Len(r) : r[j].source.vertex = v => j = i + 1
        <5> TAKE j \in 1 .. Len(r)
        <5> HAVE r[j].source.vertex = v
        <5>1. j # 1
          BY <1>7, <3>2
        <5>2. j - 1 \in 1 .. n /\ (j - 1) + 1 = j
          BY <1>10, <5>1
        <5>3. p[j - 1].target.vertex = v
          BY <1>8, <5>2
        <5>4. j - 1 = i
          BY <1>2, <4>2, <5>2, <5>3
        <5> QED
          BY <5>2, <5>4
      <4> QED
        BY <4>3, <4>4
    <3> QED
      BY <3>1, <3>2
  <2>1. {g \in Range(r) : g.source.vertex = v} = {r[k]}
    BY <1>9
  <2> QED
    BY <2>1
<1>12. Covering(SetToBag(Range(r)), 1)
  BY <1>11, CoveringIs
<1> QED
  BY <1>6, <1>12 DEF r

\* What is made of a path is a tour, or nothing.
LEMMA ConvertedIsTour ==
  ASSUME Expanded, NEW path \in Routes, convertPath(path) # <<>>
  PROVE  /\ convertPath(path) \in Routes
         /\ Covering(SetToBag(Range(convertPath(path))), 1)
<1> DEFINE short == Shortened(path)
           p == Filled(short)
<1>1. IInv
  BY DEF Expanded
<1>2. Len(path) \in Nat
  BY DEF Routes
<1>3. short \in SimpleChains
  BY <1>1, <1>2, ShortenedIsSimple
<1>4. p \in SimpleChains
  BY <1>1, <1>3, FilledIsSimple
<1>5. convertPath(path) = IF Missed(p) # {} THEN <<>> ELSE Along1(p, Root)
  BY DEF convertPath, Completed
<1> HIDE DEF p, short
<1>6. Missed(p) = {} /\ convertPath(path) = Along1(p, Root) /\ Along1(p, Root) # <<>>
  BY <1>5
<1>7. Chain(p) /\ p \in Seq(edges) /\ \A i \in 1 .. Len(p) : p[i].target.vertex # Root
  BY <1>4 DEF SimpleChains, Simple
<1>8. p # <<>>
  <2> SUFFICES ASSUME p = <<>> PROVE FALSE
    OBVIOUS
  <2>1. EndOf(p) = Start
    BY DEF EndOf
  <2>2. ~ \E e \in edges : e.source = Start /\ e.target.vertex = Root
    BY <1>1, NoLoop DEF Start
  <2>3. EdgesTo(p, {Root}) = {}
    BY <2>1, <2>2 DEF EdgesTo
  <2>4. Along1(p, Root) = p
    <3>1. \A e : EdgesTo(p, {Root}) # {e}
      BY <2>3
    <3> HIDE DEF p
    <3>2. \/ EdgesTo(p, {Root}) = {} /\ Along1(p, Root) = p
          \/ \E e \in edges : /\ e.source = EndOf(p) /\ e.target.vertex = Root
                              /\ EdgesTo(p, {Root}) = {e} /\ Along1(p, Root) = Append(p, e)
      BY <1>1, <1>7, Along1Is
    <3> QED
      BY <3>1, <3>2
  <2> QED
    BY <1>6, <2>4
<1>9. EndOf(p) \in vertices /\ EndOf(p).vertex # Root
  <2>1. Len(p) \in 1 .. Len(p)
    BY <1>7, <1>8
  <2>2. EndOf(p) = p[Len(p)].target
    BY <1>7, <1>8, EndOfChain
  <2> QED
    BY <1>1, <1>7, <2>1, <2>2, EdgesOfChain
<1>10. PICK e \in edges : e.source = EndOf(p) /\ e.target.vertex = Root /\ IsEnd(e.target)
  BY <1>9, WayHome
<1>11. e \in EdgesTo(p, {Root})
  BY <1>10 DEF EdgesTo
<1>12. Along1(p, Root) = Append(p, e)
  <2>1. PICK f \in edges : EdgesTo(p, {Root}) = {f} /\ Along1(p, Root) = Append(p, f)
    BY <1>1, <1>7, <1>11, Along1Is
  <2>2. e = f
    BY <1>11, <2>1
  <2> QED
    BY <2>1, <2>2
<1> QED
  BY <1>4, <1>6, <1>10, <1>12, ClosedIsTour

-----------------------------------------------------------------------------
(* The relaxation.                                                         *)

BoundHolds ==
  \A tour \in tours : \A e \in tour : IsEnd(e.target) => bestBound <= e.target.time * Scale

RInv ==
  /\ AInv
  /\ phase = "expand" => tours = {} /\ bestBound = 0 /\ bestTour = <<>>
  /\ iteration \in Nat /\ penalties \in [Vertices -> Int] /\ bestBound \in Int
  /\ BoundHolds
  /\ bestTour # <<>> => Range(bestTour) \in tours

LEMMA InitRInv == RInit => RInv
<1> SUFFICES ASSUME RInit PROVE RInv
  OBVIOUS
<1>1. AInv
  BY InitAInv DEF RInit
<1>2. tours = {} /\ iteration = 0 /\ penalties = [v \in Vertices |-> 0] /\ bestBound = 0 /\ bestTour = <<>>
  BY DEF RInit, Init0
<1> QED
  BY <1>1, <1>2 DEF RInv, BoundHolds

\* Whatever leaves the solutions and the relaxation alone.
LEMMA RelaxationStays ==
  ASSUME RInv, AInv', UNCHANGED <<tours, iteration, penalties, bestBound, bestTour>>,
         phase = "expand" \/ phase' # "expand"
  PROVE  RInv'
<1>1. BoundHolds'
  BY DEF RInv, BoundHolds, IsEnd
<1> QED
  BY <1>1 DEF RInv

LEMMA CreateProgramKeepsRInv ==
  ASSUME RInv, createProgram, UNCHANGED relaxationVars
  PROVE  RInv'
<1>1. AInv /\ bestBound = 0 /\ bestTour = <<>>
  BY DEF RInv, createProgram
<1>2. AInv'
  BY <1>1, CreateProgramKeeps
<1>3. /\ UNCHANGED <<iteration, penalties, bestBound, bestTour, expansionVars>> /\ phase' = "created"
      /\ tours' = {j \in Journeys : Covering(SetToBag(j), 1)}
  BY DEF createProgram, relaxationVars
<1>4. IInv /\ Journeys \subseteq SUBSET edges
  BY <1>1, NetworkIsFinite DEF AInv
<1>5. \A e \in edges : e.target.time \in Nat
  BY <1>4 DEF IInv, NetworkIsSound, TypeOK
<1>6. BoundHolds'
  <2> SUFFICES ASSUME NEW tour \in tours', NEW e \in tour
               PROVE  0 <= e.target.time * Scale
    BY <1>1, <1>3 DEF BoundHolds
  <2>1. e.target.time \in Nat
    BY <1>3, <1>4, <1>5
  <2> DEFINE t == e.target.time
  <2>2. t \in Nat /\ Scale \in Nat
    BY <2>1, ScaleAssumption
  <2> HIDE DEF t
  <2>3. 0 <= t * Scale
    BY <2>2
  <2> QED
    BY <2>3 DEF t
<1> QED
  BY <1>1, <1>2, <1>3, <1>6 DEF RInv

LEMMA SubGradientIs ==
  ASSUME NEW path, Len(path) \in Nat, DOMAIN path = 1 .. Len(path), NEW v
  PROVE  subGradient(path, v) \in Int
<1> DEFINE D == {i \in DOMAIN path : path[i].source = numbered(v)}
<1>1. D \in SUBSET (1 .. Len(path))
  OBVIOUS
<1>2. IsFiniteSet(1 .. Len(path))
  BY FS_Interval
<1>3. Cardinality(D) \in Nat
  <2> HIDE DEF D
  <2> QED BY <1>1, <1>2, FS_Subset, FS_CardinalityType
<1>4. subGradient(path, v) = 1 - Cardinality(D)
  BY DEF subGradient
<1> HIDE DEF D
<1> QED
  BY <1>3, <1>4

\* An iteration: weak duality for the bound, and what convertPath makes for the tour.
LEMMA IterateKeepsRInv ==
  ASSUME RInv, Iterate
  PROVE  RInv'
<1>1. /\ AInv /\ iteration \in Nat /\ penalties \in [Vertices -> Int] /\ bestBound \in Int
      /\ BoundHolds /\ (bestTour # <<>> => Range(bestTour) \in tours)
  BY DEF RInv
<1>2. /\ phase = "relax" /\ phase' \in {"stopped", "relax"} /\ iteration' = iteration + 1
      /\ UNCHANGED <<expansionVars, tours, initial>>
  BY DEF Iterate, program
<1>3. AInv'
  BY <1>1, <1>2, ProgramStays
<1>4. IInv /\ Expanded /\ SolutionsAreKnown /\ timeHorizon \in Nat
  BY <1>1, <1>2, Travel DEF AInv, IInv
<1>5. PICK path \in findPath :
        /\ penalties' = [v \in Vertices |->
                           penalties[v] + ((5 * Scale) \div iteration') * subGradient(path, v)]
        /\ bestTour' \in {bestTour, convertPath(path)}
        /\ bestBound' = Max({bestBound, evaluate(path)})
  BY DEF Iterate
<1>6. path \in Routes /\ evaluate(path) \in Int
  <2>1. path \in Routes
    BY <1>1, <1>4, FoundAreCheapest
  <2>2. PathCost(path) \in Int /\ Sum(penalties) \in Int /\ evaluate(path) = PathCost(path) + Sum(penalties)
    BY <1>1, <1>4, <2>1, EvaluateIs
  <2> QED
    BY <2>1, <2>2
<1>7. penalties' \in [Vertices -> Int]
  <2> DEFINE step == (5 * Scale) \div iteration'
  <2>1. step \in Int
    <3>1. iteration' \in Nat /\ iteration' > 0 /\ 5 * Scale \in Nat
      BY <1>1, <1>2, ScaleAssumption
    <3> QED
      BY <3>1
  <2>2. \A v \in Vertices : subGradient(path, v) \in Int
    BY <1>6, SubGradientIs DEF Routes
  <2>3. penalties' = [v \in Vertices |-> penalties[v] + step * subGradient(path, v)]
    BY <1>5
  <2> HIDE DEF step
  <2>4. \A v \in Vertices : penalties[v] + step * subGradient(path, v) \in Int
    <3> TAKE v \in Vertices
    <3> DEFINE d == subGradient(path, v)
    <3>1. d \in Int /\ penalties[v] \in Int
      BY <1>1, <2>2
    <3> HIDE DEF d
    <3>2. step * d \in Int
      BY <2>1, <3>1
    <3>3. penalties[v] + step * d \in Int
      BY <3>1, <3>2
    <3> QED
      BY <3>3 DEF d
  <2> QED
    BY <2>3, <2>4
<1>8. bestBound' \in {bestBound, evaluate(path)}
  <2> DEFINE m == evaluate(path)
  <2> HIDE DEF m
  <2>1. m \in Int /\ bestBound \in Int
    BY <1>1, <1>6 DEF m
  <2>2. \E x \in {bestBound, m} : \A y \in {bestBound, m} : x >= y
    BY <2>1
  <2>3. Max({bestBound, m}) \in {bestBound, m}
    BY <2>2 DEF Max
  <2> QED
    BY <1>5, <2>3 DEF m
<1>9. \A tour \in tours : \A e \in tour : IsEnd(e.target) => evaluate(path) <= e.target.time * Scale
  <2> SUFFICES ASSUME NEW tour \in tours, NEW e \in tour, IsEnd(e.target)
               PROVE  evaluate(path) <= e.target.time * Scale
    OBVIOUS
  <2>1. tour \in Journeys /\ Covering(SetToBag(tour), 1)
    BY <1>4 DEF SolutionsAreKnown
  <2>2. PICK q \in Routes : tour = Range(q)
    BY <1>4, <2>1, JourneysAre
  <2>3. Arrival(q) = e.target.time
    BY <1>4, <2>2, LastEdge
  <2> QED
    BY <1>1, <1>4, <2>1, <2>2, <2>3, BoundIsSound
<1>10. BoundHolds'
  BY <1>1, <1>2, <1>8, <1>9 DEF BoundHolds, IsEnd
<1>11. convertPath(path) # <<>> => Range(convertPath(path)) \in tours
  <2> SUFFICES ASSUME convertPath(path) # <<>> PROVE Range(convertPath(path)) \in tours
    OBVIOUS
  <2> DEFINE c == convertPath(path)
  <2>1. c \in Routes /\ Covering(SetToBag(Range(c)), 1)
    BY <1>4, <1>6, ConvertedIsTour
  <2> HIDE DEF c
  <2>2. Range(c) \in Journeys
    BY <1>4, <2>1, JourneysAre
  <2> QED
    BY <1>4, <2>1, <2>2 DEF SolutionsAreKnown, c
<1>12. (bestTour # <<>> => Range(bestTour) \in tours)'
  BY <1>1, <1>2, <1>5, <1>11
<1> QED
  BY <1>1, <1>2, <1>3, <1>6, <1>7, <1>8, <1>10, <1>12 DEF RInv

LEMMA NextRInv ==
  ASSUME RInv, RNext
  PROVE  RInv'
<1>1. AInv
  BY DEF RInv
<1>2. CASE ANext /\ UNCHANGED relaxationVars
  <2>1. AInv'
    BY <1>1, <1>2, NextAInv
  <2>2. UNCHANGED <<iteration, penalties, bestBound, bestTour>>
    BY <1>2 DEF relaxationVars
  <2>3. CASE Create
    BY <2>1, <2>2, <2>3, RelaxationStays DEF Create, scipVars, program
  <2>4. CASE createProgram
    BY <1>2, <2>4, CreateProgramKeepsRInv
  <2>5. ASSUME phase' # "expand", UNCHANGED tours
        PROVE  RInv'
    BY <2>1, <2>2, <2>5, RelaxationStays
  <2>6. CASE addInitialSolution
    BY <2>5, <2>6 DEF addInitialSolution, program
  <2>7. CASE SolveLP
    BY <2>5, <2>7 DEF SolveLP, program
  <2>8. CASE \E name \in separators : Separate(name)
    BY <2>5, <2>8 DEF Separate, Separated, program
  <2>9. CASE StartDecomposition
    BY <2>5, <2>9 DEF StartDecomposition, program
  <2>10. CASE DecompositionStep
    BY <2>5, <2>10 DEF DecompositionStep, scipVars, program
  <2>11. CASE SeparateCycles
    BY <2>5, <2>11 DEF SeparateCycles, Separated, program
  <2>12. CASE Solve
    BY <2>5, <2>12 DEF Solve, program
  <2> QED
    BY <1>2, <2>3, <2>4, <2>6, <2>7, <2>8, <2>9, <2>10, <2>11, <2>12 DEF ANext
<1>3. CASE Relax
  <2>1. /\ phase = "created" /\ phase' = "relax"
        /\ UNCHANGED <<expansionVars, tours, iteration, penalties, bestBound, bestTour>>
    BY <1>3 DEF Relax, program, relaxationVars
  <2>2. AInv'
    BY <1>1, <2>1, ProgramStays
  <2> QED
    BY <2>1, <2>2, RelaxationStays
<1>4. CASE Iterate
  BY <1>4, IterateKeepsRInv
<1>5. CASE Return
  <2>1. /\ phase # "expand" /\ phase' = "relaxed"
        /\ UNCHANGED <<expansionVars, tours, iteration, penalties, bestBound, bestTour>>
    BY <1>5 DEF Return, program
  <2>2. AInv'
    BY <1>1, <2>1, ProgramStays
  <2> QED
    BY <2>1, <2>2, RelaxationStays
<1> QED
  BY <1>2, <1>3, <1>4, <1>5 DEF RNext

LEMMA StutterRInv ==
  ASSUME RInv, UNCHANGED crVars
  PROVE  RInv'
<1>1. UNCHANGED vars /\ UNCHANGED relaxationVars
  BY DEF crVars
<1>2. AInv'
  BY <1>1, StutterAInv DEF RInv
<1>3. UNCHANGED <<phase, tours, iteration, penalties, bestBound, bestTour>>
  BY <1>1 DEF vars, scipVars, program, relaxationVars
<1> QED
  BY <1>2, <1>3, RelaxationStays

\* Whatever the penalties have become, although they do not follow a subgradient: the
\* bound is one for every tour, and what is made of a path is a tour of the network
\* (covering_relaxation.cc, asserted at lines 52 and 116).
THEOREM RelaxationIsAlwaysSound == RSpec => []RelaxationIsSound
<1>1. RInv /\ [RNext]_crVars => RInv'
  BY NextRInv, StutterRInv
<1>2. RInv => RelaxationIsSound
  BY DEF RInv, BoundHolds, RelaxationIsSound
<1> QED
  BY <1>1, <1>2, InitRInv, PTL DEF RSpec

-----------------------------------------------------------------------------
(* Flows.  Sums over the edges.                                            *)

\* One element can be taken apart.
LEMMA SumOfRest ==
  ASSUME NEW S, IsFiniteSet(S), NEW f \in [S -> Int], NEW y \in S
  PROVE  /\ Sum(f) \in Int /\ Sum([x \in S \ {y} |-> f[x]]) \in Int
         /\ Sum(f) = f[y] + Sum([x \in S \ {y} |-> f[x]])
<1> DEFINE r == S \ {y}
           h == [x \in r |-> f[x]]
<1>1. PICK g : HasSums(g, f, S) /\ Sum(f) = g[S]
  BY SumIs
<1>2. IsFiniteSet(r) /\ h \in [r -> Int] /\ r \in SUBSET S
  BY FS_Subset
<1>3. PICK k : HasSums(k, h, r) /\ Sum(h) = k[r]
  <2> HIDE DEF h, r
  <2> QED BY <1>2, SumIs
<1>4. g[S] = f[y] + g[r]
  BY <1>1, SumInAnyOrder DEF InAnyOrder
<1> DEFINE few == [s \in SUBSET r |-> g[s]]
<1>5. HasSums(few, h, r)
  <2>1. \A s \in SUBSET r : s \in SUBSET S /\ (s # {} => First(s) \in r /\ s \ {First(s)} \in SUBSET r)
    BY DEF First
  <2>2. few \in [SUBSET r -> Int]
    BY <1>1, <2>1 DEF HasSums
  <2>3. ASSUME NEW s \in SUBSET r
        PROVE  few[s] = IF s = {} THEN 0 ELSE h[First(s)] + few[s \ {First(s)}]
    <3>1. g[s] = IF s = {} THEN 0 ELSE f[First(s)] + g[s \ {First(s)}]
      BY <1>1, <2>1 DEF HasSums
    <3>2. s # {} => h[First(s)] = f[First(s)] /\ few[s \ {First(s)}] = g[s \ {First(s)}]
      BY <2>1
    <3> QED
      BY <3>1, <3>2
  <2> HIDE DEF few, h, r
  <2> QED
    BY <2>2, <2>3 DEF HasSums
<1>6. few[r] = g[r] /\ g[r] \in Int
  <2>1. g \in [SUBSET S -> Int]
    BY <1>1 DEF HasSums
  <2> QED
    BY <1>2, <2>1
<1>7. k[r] = few[r]
  <2>1. r \in SUBSET r
    OBVIOUS
  <2> HIDE DEF few, h, r
  <2> QED
    BY <1>2, <1>3, <1>5, <2>1, SumsAreUnique
<1>8. f[y] \in Int
  OBVIOUS
<1> HIDE DEF few
<1> QED
  BY <1>1, <1>3, <1>4, <1>6, <1>7, <1>8

\* What a sum is of, and what it tells of that.
LEMMA SumTells ==
  ASSUME NEW S, IsFiniteSet(S), NEW f \in [S -> Nat]
  PROVE  /\ Sum(f) \in Nat /\ \A x \in S : f[x] <= Sum(f)
         /\ (\A x \in S : f[x] = 0) => Sum(f) = 0
         /\ Sum(f) > 0 => \E x \in S : f[x] > 0
<1>1. f \in [S -> Int] /\ \A x \in S : 0 <= f[x] /\ f[x] \in Nat
  OBVIOUS
<1>2. PICK g : HasSums(g, f, S) /\ Sum(f) = g[S]
  BY <1>1, SumIs
<1>3. 0 <= g[S] /\ \A x \in S : f[x] <= g[S]
  <2>1. S \in SUBSET S
    OBVIOUS
  <2>2. /\ \A s \in SUBSET S : 0 <= g[s]
        /\ \A s \in SUBSET S : \A x \in s : f[x] <= g[s]
    BY <1>1, <1>2, SumIsAtLeast
  <2> QED
    BY <2>1, <2>2
<1>4. g[S] \in Int
  BY <1>2 DEF HasSums
<1>5. (\A x \in S : f[x] <= 0) => g[S] <= 0
  <2> HAVE \A x \in S : f[x] <= 0
  <2>1. S \in SUBSET S
    OBVIOUS
  <2>2. \A s \in SUBSET S : g[s] <= 0
    BY <1>1, <1>2, SumIsAtMost
  <2> QED
    BY <2>1, <2>2
<1>6. (\A x \in S : f[x] = 0) => g[S] = 0
  BY <1>3, <1>4, <1>5
<1>7. g[S] > 0 => \E x \in S : f[x] > 0
  <2> HAVE g[S] > 0
  <2>1. ~ (g[S] <= 0)
    BY <1>4
  <2>2. PICK x \in S : ~ (f[x] <= 0)
    BY <1>5, <2>1
  <2>3. f[x] > 0
    BY <1>1, <2>2
  <2> QED
    BY <2>3
<1> QED
  BY <1>2, <1>3, <1>4, <1>6, <1>7

\* A single element, all others being zero.
LEMMA SumOfOne ==
  ASSUME NEW S, IsFiniteSet(S), NEW f \in [S -> Nat], NEW y \in S, \A x \in S \ {y} : f[x] = 0
  PROVE  Sum(f) = f[y]
<1> DEFINE r == S \ {y}
           h == [x \in r |-> f[x]]
<1>1. IsFiniteSet(r) /\ h \in [r -> Nat] /\ \A x \in r : h[x] = 0
  BY FS_Subset
<1>2. Sum(h) = 0
  <2> HIDE DEF h, r
  <2> QED BY <1>1, SumTells
<1>3. f \in [S -> Int] /\ f[y] \in Int
  OBVIOUS
<1>4. Sum(f) = f[y] + Sum(h)
  BY <1>3, SumOfRest
<1> HIDE DEF h
<1> QED
  BY <1>2, <1>3, <1>4

\* One more of a sequence.
LEMMA SumOfMore ==
  ASSUME NEW n \in Nat, NEW f \in [1 .. n + 1 -> Int]
  PROVE  /\ Sum(f) \in Int /\ Sum([i \in 1 .. n |-> f[i]]) \in Int
         /\ Sum(f) = f[n + 1] + Sum([i \in 1 .. n |-> f[i]])
<1> DEFINE m == n + 1
           S == 1 .. m
<1>1. IsFiniteSet(S) /\ m \in S /\ S \ {m} = 1 .. n
  <2>1. S \ {m} = 1 .. n
    OBVIOUS
  <2> QED
    BY <2>1, FS_Interval
<1> HIDE DEF S, m
<1>2. f \in [S -> Int]
  BY DEF S, m
<1>3. /\ Sum(f) \in Int /\ Sum([x \in S \ {m} |-> f[x]]) \in Int
      /\ Sum(f) = f[m] + Sum([x \in S \ {m} |-> f[x]])
  <2>1. IsFiniteSet(S) /\ m \in S
    BY <1>1
  <2> QED
    BY ONLY <1>2, <2>1, SumOfRest
<1> QED
  BY <1>1, <1>3 DEF m

-----------------------------------------------------------------------------
\* Bags of edges: what they have of some of them.
BagOfEdges(b) == IsABag(b) /\ DOMAIN b \subseteq edges

Amount(b, set) == Sum([e \in set |-> Value(b, e)])

LEMMA ValueIs ==
  ASSUME NEW b, BagOfEdges(b)
  PROVE  \A e : Value(b, e) \in Nat /\ (Value(b, e) > 0 <=> e \in DOMAIN b)
<1>1. b \in [DOMAIN b -> {n \in Nat : n > 0}]
  BY DEF BagOfEdges, IsABag
<1> TAKE e
<1>2. CASE e \in DOMAIN b
  <2>1. b[e] \in Nat /\ b[e] > 0
    BY <1>1, <1>2
  <2> QED
    BY <1>2, <2>1 DEF Value, BagIn, BagToSet
<1>3. CASE e \notin DOMAIN b
  BY <1>3 DEF Value, BagIn, BagToSet
<1> QED
  BY <1>2, <1>3

LEMMA AmountIs ==
  ASSUME IInv, NEW b, BagOfEdges(b), NEW set \in SUBSET edges
  PROVE  /\ Amount(b, set) \in Nat
         /\ \A e \in set : Value(b, e) <= Amount(b, set)
         /\ (\A e \in set : Value(b, e) = 0) => Amount(b, set) = 0
         /\ Amount(b, set) > 0 => \E e \in set : Value(b, e) > 0
         /\ \A y \in set : (\A e \in set \ {y} : Value(b, e) = 0) => Amount(b, set) = Value(b, y)
<1> DEFINE f == [e \in set |-> Value(b, e)]
<1>1. IsFiniteSet(set)
  <2>1. set \in SUBSET edges /\ IsFiniteSet(edges)
    BY NetworkIsFinite
  <2> QED
    BY <2>1, FS_Subset
<1>2. f \in [set -> Nat]
  <2>1. \A e \in set : Value(b, e) \in Nat
    BY ValueIs
  <2> QED
    BY <2>1
<1>3. Amount(b, set) = Sum(f) /\ \A e \in set : f[e] = Value(b, e)
  BY DEF Amount
<1> HIDE DEF f
<1>4. /\ Sum(f) \in Nat /\ \A x \in set : f[x] <= Sum(f)
      /\ (\A x \in set : f[x] = 0) => Sum(f) = 0
      /\ Sum(f) > 0 => \E x \in set : f[x] > 0
  BY <1>1, <1>2, SumTells
<1>5. ASSUME NEW y \in set, \A e \in set \ {y} : Value(b, e) = 0
      PROVE  Sum(f) = f[y]
  <2>1. \A x \in set \ {y} : f[x] = 0
    BY <1>3, <1>5
  <2> QED
    BY <1>1, <1>2, <2>1, SumOfOne
<1> QED
  BY <1>3, <1>4, <1>5

LEMMA AmountsAdd ==
  ASSUME IInv, NEW a, NEW b, NEW c, BagOfEdges(a), BagOfEdges(b), BagOfEdges(c),
         \A e \in edges : Value(a, e) = Value(b, e) + Value(c, e),
         NEW set \in SUBSET edges
  PROVE  Amount(a, set) = Amount(b, set) + Amount(c, set)
<1> DEFINE f == [e \in set |-> Value(b, e)]
           h == [e \in set |-> Value(c, e)]
<1>1. IsFiniteSet(set)
  <2>1. set \in SUBSET edges /\ IsFiniteSet(edges)
    BY NetworkIsFinite
  <2> QED
    BY <2>1, FS_Subset
<1>2. f \in [set -> Int] /\ h \in [set -> Int]
  <2>1. \A e \in set : Value(b, e) \in Int /\ Value(c, e) \in Int
    <3>1. \A e \in set : Value(b, e) \in Nat /\ Value(c, e) \in Nat
      BY ValueIs
    <3> QED
      BY <3>1
  <2> QED
    BY <2>1
<1>3. [e \in set |-> Value(a, e)] = [e \in set |-> f[e] + h[e]]
  <2>1. \A e \in set : Value(a, e) = f[e] + h[e]
    OBVIOUS
  <2> HIDE DEF f, h
  <2> QED
    BY <2>1
<1>4. Amount(b, set) = Sum(f) /\ Amount(c, set) = Sum(h)
  BY DEF Amount
<1> HIDE DEF f, h
<1>5. Sum([e \in set |-> f[e] + h[e]]) = Sum(f) + Sum(h)
  BY <1>1, <1>2, SumOfSum
<1> QED
  BY <1>3, <1>4, <1>5 DEF Amount

\* A flow of value n: as much of it leaves a vertex as enters it.
Outof(v) == {e \in edges : e.source = v}
Into(v) == {e \in edges : e.target = v}

FlowOf(b, n) ==
  /\ BagOfEdges(b) /\ n \in Nat
  /\ Amount(b, Outof(Start)) = n
  /\ \A v \in vertices : v.vertex # Root => Amount(b, Outof(v)) = Amount(b, Into(v))

\* Flows can be put together, and taken from each other.
LEMMA FlowsAdd ==
  ASSUME IInv, NEW a, NEW b, NEW c, BagOfEdges(a), BagOfEdges(b), BagOfEdges(c),
         \A e \in edges : Value(a, e) = Value(b, e) + Value(c, e),
         NEW m, NEW n, FlowOf(b, n)
  PROVE  /\ FlowOf(c, m) => FlowOf(a, n + m)
         /\ FlowOf(a, m) => FlowOf(c, m - n) /\ n <= m
<1>1. \A set \in SUBSET edges :
        /\ Amount(a, set) = Amount(b, set) + Amount(c, set)
        /\ Amount(a, set) \in Nat /\ Amount(b, set) \in Nat /\ Amount(c, set) \in Nat
  BY AmountsAdd, AmountIs
<1>2. \A v : Outof(v) \in SUBSET edges /\ Into(v) \in SUBSET edges
  BY DEF Outof, Into
<1>3. n \in Nat /\ Amount(b, Outof(Start)) = n
      /\ \A v \in vertices : v.vertex # Root => Amount(b, Outof(v)) = Amount(b, Into(v))
  BY DEF FlowOf
<1>4. ASSUME FlowOf(c, m)
      PROVE  FlowOf(a, n + m)
  <2>1. m \in Nat /\ Amount(c, Outof(Start)) = m
        /\ \A v \in vertices : v.vertex # Root => Amount(c, Outof(v)) = Amount(c, Into(v))
    BY <1>4 DEF FlowOf
  <2>2. Amount(a, Outof(Start)) = n + m /\ n + m \in Nat
    BY <1>1, <1>2, <1>3, <2>1
  <2>3. \A v \in vertices : v.vertex # Root => Amount(a, Outof(v)) = Amount(a, Into(v))
    BY <1>1, <1>2, <1>3, <2>1
  <2> QED
    BY <2>2, <2>3 DEF FlowOf
<1>5. ASSUME FlowOf(a, m)
      PROVE  FlowOf(c, m - n) /\ n <= m
  <2>1. m \in Nat /\ Amount(a, Outof(Start)) = m
        /\ \A v \in vertices : v.vertex # Root => Amount(a, Outof(v)) = Amount(a, Into(v))
    BY <1>5 DEF FlowOf
  <2>2. Amount(c, Outof(Start)) = m - n /\ m - n \in Nat /\ n <= m
    <3>1. m = n + Amount(c, Outof(Start)) /\ Amount(c, Outof(Start)) \in Nat
      BY <1>1, <1>2, <1>3, <2>1
    <3> QED
      BY <1>3, <2>1, <3>1
  <2>3. \A v \in vertices : v.vertex # Root => Amount(c, Outof(v)) = Amount(c, Into(v))
    <3> TAKE v \in vertices
    <3> HAVE v.vertex # Root
    <3>1. /\ Amount(a, Outof(v)) = Amount(b, Outof(v)) + Amount(c, Outof(v))
          /\ Amount(a, Into(v)) = Amount(b, Into(v)) + Amount(c, Into(v))
          /\ Amount(b, Outof(v)) \in Nat /\ Amount(c, Outof(v)) \in Nat /\ Amount(c, Into(v)) \in Nat
      BY <1>1, <1>2
    <3>2. Amount(a, Outof(v)) = Amount(a, Into(v)) /\ Amount(b, Outof(v)) = Amount(b, Into(v))
      BY <1>3, <2>1
    <3> QED
      BY <3>1, <3>2
  <2> QED
    BY <2>2, <2>3 DEF FlowOf
<1> QED
  BY <1>4, <1>5

LEMMA CopiesAre ==
  ASSUME NEW set \in SUBSET edges, NEW n \in Nat \ {0}
  PROVE  /\ BagOfEdges(Copies(set, n))
         /\ \A e : Value(Copies(set, n), e) = IF e \in set THEN n ELSE 0
         /\ SetToBag(set) = Copies(set, 1)
<1> DEFINE b == Copies(set, n)
<1>1. b = [e \in set |-> n]
  BY DEF Copies
<1>2. DOMAIN b = set /\ \A e \in set : b[e] = n
  BY <1>1
<1>3. b \in [set -> {k \in Nat : k > 0}]
  BY <1>1
<1>4. BagOfEdges(b)
  <2> HIDE DEF b
  <2> QED BY <1>2, <1>3 DEF BagOfEdges, IsABag
<1>5. \A e : Value(b, e) = IF e \in set THEN n ELSE 0
  <2> HIDE DEF b
  <2> QED BY <1>2 DEF Value, BagIn, BagToSet
<1>6. SetToBag(set) = Copies(set, 1)
  BY DEF SetToBag, Copies
<1> QED
  BY <1>4, <1>5, <1>6

LEMMA BagsAdd ==
  ASSUME NEW a, NEW b, BagOfEdges(a), BagOfEdges(b)
  PROVE  /\ BagOfEdges(a (+) b)
         /\ \A e : Value(a (+) b, e) = Value(a, e) + Value(b, e)
<1> DEFINE c == a (+) b
           D == DOMAIN a \cup DOMAIN b
<1>1. c = [e \in D |-> Value(a, e) + Value(b, e)]
  BY DEF (+), Value, BagIn, BagToSet
<1>2. \A e : /\ Value(a, e) \in Nat /\ (Value(a, e) > 0 <=> e \in DOMAIN a)
             /\ Value(b, e) \in Nat /\ (Value(b, e) > 0 <=> e \in DOMAIN b)
  BY ValueIs
<1>3. \A e : /\ Value(a, e) + Value(b, e) \in Nat
             /\ (Value(a, e) + Value(b, e) > 0 <=> e \in D)
  <2> TAKE e
  <2>1. /\ Value(a, e) \in Nat /\ (Value(a, e) > 0 <=> e \in DOMAIN a)
        /\ Value(b, e) \in Nat /\ (Value(b, e) > 0 <=> e \in DOMAIN b)
    BY <1>2
  <2>2. Value(a, e) + Value(b, e) \in Nat
        /\ (Value(a, e) + Value(b, e) > 0 <=> Value(a, e) > 0 \/ Value(b, e) > 0)
    BY <2>1
  <2> QED
    BY <2>1, <2>2
<1> HIDE DEF c
<1>4. DOMAIN c = D /\ c \in [D -> {n \in Nat : n > 0}]
  BY <1>1, <1>3
<1>5. BagOfEdges(c)
  BY <1>4 DEF BagOfEdges, IsABag
<1>6. \A e : Value(c, e) = Value(a, e) + Value(b, e)
  <2> TAKE e
  <2>1. CASE e \in D
    <3>1. Value(c, e) = c[e]
      BY <1>4, <2>1 DEF Value, BagIn, BagToSet
    <3> QED
      BY <1>1, <2>1, <3>1
  <2>2. CASE e \notin D
    <3>1. Value(c, e) = 0
      BY <1>4, <2>2 DEF Value, BagIn, BagToSet
    <3>2. Value(a, e) = 0 /\ Value(b, e) = 0
      BY <2>2 DEF Value, BagIn, BagToSet
    <3> QED
      BY <3>1, <3>2
  <2> QED
    BY <2>1, <2>2
<1> QED
  BY <1>5, <1>6 DEF c

LEMMA BagsSubtract ==
  ASSUME NEW a, NEW b, BagOfEdges(a), BagOfEdges(b), \A e : Value(b, e) <= Value(a, e)
  PROVE  /\ BagOfEdges(a (-) b)
         /\ \A e : Value(a, e) = Value(b, e) + Value(a (-) b, e)
<1> DEFINE c == a (-) b
           h == [e \in DOMAIN a |-> IF e \in DOMAIN b THEN a[e] - b[e] ELSE a[e]]
           D == {d \in DOMAIN h : h[d] > 0}
<1>1. c = [e \in D |-> h[e]]
  BY DEF (-)
<1>2. \A e : /\ Value(a, e) \in Nat /\ (Value(a, e) > 0 <=> e \in DOMAIN a)
             /\ Value(b, e) \in Nat /\ (Value(b, e) > 0 <=> e \in DOMAIN b)
  BY ValueIs
<1>3. \A e \in DOMAIN a : h[e] = Value(a, e) - Value(b, e)
  <2> TAKE e \in DOMAIN a
  <2>1. Value(a, e) = a[e] /\ Value(a, e) \in Nat
    BY <1>2 DEF Value, BagIn, BagToSet
  <2>2. CASE e \in DOMAIN b
    <3>1. Value(b, e) = b[e]
      BY <2>2 DEF Value, BagIn, BagToSet
    <3> QED
      BY <2>1, <2>2, <3>1
  <2>3. CASE e \notin DOMAIN b
    <3>1. Value(b, e) = 0 /\ h[e] = a[e]
      BY <2>3 DEF Value, BagIn, BagToSet
    <3> HIDE DEF h
    <3> QED
      BY <2>1, <3>1
  <2> QED
    BY <2>2, <2>3
<1>4. DOMAIN h = DOMAIN a
  OBVIOUS
<1> HIDE DEF c, h
<1>5. \A e \in DOMAIN a : h[e] \in Nat
  <2> TAKE e \in DOMAIN a
  <2>1. Value(a, e) \in Nat /\ Value(b, e) \in Nat /\ Value(b, e) <= Value(a, e)
    BY <1>2
  <2> QED
    BY <1>3, <2>1
<1>6. DOMAIN c = D /\ D \subseteq DOMAIN a /\ c \in [D -> {n \in Nat : n > 0}]
  BY <1>1, <1>4, <1>5
<1>7. BagOfEdges(c)
  BY <1>6 DEF BagOfEdges, IsABag
<1>8. \A e : Value(a, e) = Value(b, e) + Value(c, e)
  <2> TAKE e
  <2>1. Value(a, e) \in Nat /\ Value(b, e) \in Nat /\ Value(b, e) <= Value(a, e)
    BY <1>2
  <2>2. CASE e \in D
    <3>1. Value(c, e) = h[e]
      BY <1>1, <1>6, <2>2 DEF Value, BagIn, BagToSet
    <3>2. h[e] = Value(a, e) - Value(b, e)
      BY <1>3, <1>6, <2>2
    <3> QED
      BY <2>1, <3>1, <3>2
  <2>3. CASE e \in DOMAIN a /\ e \notin D
    <3>1. Value(c, e) = 0
      BY <1>6, <2>3 DEF Value, BagIn, BagToSet
    <3>2. h[e] = Value(a, e) - Value(b, e) /\ ~ (h[e] > 0)
      BY <1>3, <1>4, <2>3
    <3> QED
      BY <2>1, <3>1, <3>2
  <2>4. CASE e \notin DOMAIN a
    <3>1. Value(c, e) = 0
      BY <1>6, <2>4 DEF Value, BagIn, BagToSet
    <3>2. ~ (Value(a, e) > 0)
      BY <1>2, <2>4
    <3> QED
      BY <2>1, <3>1, <3>2
  <2> QED
    BY <2>2, <2>3, <2>4
<1> QED
  BY <1>7, <1>8 DEF c

\* The empty bag is a flow of value zero.
LEMMA EmptyIsFlow ==
  ASSUME IInv
  PROVE  FlowOf(EmptyBag, 0)
<1>1. DOMAIN EmptyBag = {} /\ BagOfEdges(EmptyBag)
  <2>1. EmptyBag = [e \in {} |-> 1]
    BY DEF EmptyBag, SetToBag
  <2> QED
    BY <2>1 DEF BagOfEdges, IsABag
<1>2. \A e : Value(EmptyBag, e) = 0
  BY <1>1 DEF Value, BagIn, BagToSet
<1>3. \A set \in SUBSET edges : Amount(EmptyBag, set) = 0
  BY <1>1, <1>2, AmountIs
<1>4. \A v : Outof(v) \in SUBSET edges /\ Into(v) \in SUBSET edges
  BY DEF Outof, Into
<1> QED
  BY <1>1, <1>3, <1>4 DEF FlowOf

\* What follows the same route is a flow.
LEMMA RouteIsFlow ==
  ASSUME IInv, NEW p \in Routes, NEW n \in Nat \ {0}
  PROVE  FlowOf(Copies(Range(p), n), n)
<1> DEFINE b == Copies(Range(p), n)
           m == Len(p)
<1>1. /\ Chain(p) /\ m \in Nat \ {0} /\ IsEnd(p[m].target) /\ p[1].source = Start
  BY DEF Routes, Chain
<1>2. /\ \A i \in 1 .. m : /\ p[i] \in edges
                           /\ p[i].source.time \in Nat /\ p[i].target.time \in Nat
                           /\ p[i].source.time < p[i].target.time
                           /\ ~ IsEnd(p[i].source)
      /\ \A i \in 1 .. m - 1 : p[i].target = p[i + 1].source
  BY <1>1, EdgesOfChain
<1>3. \A i, j \in 1 .. m : i < j => p[i].source.time < p[j].source.time
  BY <1>1, TimePasses
<1>4. Range(p) = {p[i] : i \in 1 .. m}
  BY <1>1, RangeOfChain
<1>5. Range(p) \in SUBSET edges
  BY <1>2, <1>4
<1>6. BagOfEdges(b) /\ \A e : Value(b, e) = IF e \in Range(p) THEN n ELSE 0
  BY <1>5, CopiesAre
<1> HIDE DEF b, m
\* No two edges leave the same vertex, nor enter it.
<1>7. \A i, j \in 1 .. m : p[i].source = p[j].source => i = j
  <2> TAKE i, j \in 1 .. m
  <2> HAVE p[i].source = p[j].source
  <2>1. p[i].source.time = p[j].source.time /\ p[i].source.time \in Nat /\ i \in Nat /\ j \in Nat
    BY <1>2
  <2>2. ~ (i < j) /\ ~ (j < i)
    BY <1>3, <2>1
  <2> QED
    BY <2>1, <2>2
<1>8. \A i, j \in 1 .. m : p[i].target = p[j].target => ~ (i < j)
  <2> TAKE i, j \in 1 .. m
  <2> SUFFICES ASSUME p[i].target = p[j].target, i < j PROVE FALSE
    OBVIOUS
  <2>1. i \in 1 .. m - 1 /\ i + 1 \in 1 .. m /\ i + 1 <= j
    BY <1>1
  <2>2. p[i].target = p[i + 1].source
    BY <1>2, <2>1
  <2>3. p[j].target.time = p[i + 1].source.time /\ p[j].source.time < p[j].target.time
        /\ p[j].source.time \in Nat
    BY <1>2, <2>2
  <2>4. CASE i + 1 = j
    BY <2>3, <2>4
  <2>5. CASE i + 1 < j
    <3>1. p[i + 1].source.time < p[j].source.time /\ p[i + 1].source.time \in Nat
      BY <1>2, <1>3, <2>1, <2>5
    <3> QED
      BY <2>3, <3>1
  <2>6. i + 1 = j \/ i + 1 < j
    BY <2>1
  <2> QED
    BY <2>4, <2>5, <2>6
<1>9. ASSUME NEW set \in SUBSET edges, NEW i \in 1 .. m, p[i] \in set,
             \A j \in 1 .. m : p[j] \in set => j = i
      PROVE  Amount(b, set) = n
  <2>1. \A e \in set \ {p[i]} : Value(b, e) = 0
    BY <1>4, <1>6, <1>9
  <2>2. Value(b, p[i]) = n
    BY <1>4, <1>6
  <2> QED
    BY <1>6, <1>9, <2>1, <2>2, AmountIs
<1>10. ASSUME NEW set \in SUBSET edges, \A j \in 1 .. m : p[j] \notin set
       PROVE  Amount(b, set) = 0
  <2>1. \A e \in set : Value(b, e) = 0
    BY <1>4, <1>6, <1>10
  <2> QED
    BY <1>6, <2>1, AmountIs
<1>11. \A v : Outof(v) \in SUBSET edges /\ Into(v) \in SUBSET edges
  BY DEF Outof, Into
<1>12. \A v : \A i \in 1 .. m : /\ p[i] \in Outof(v) <=> p[i].source = v
                                /\ p[i] \in Into(v) <=> p[i].target = v
  BY <1>2 DEF Outof, Into
<1>13. Amount(b, Outof(Start)) = n
  <2>1. 1 \in 1 .. m
    BY <1>1
  <2> QED
    BY <1>1, <1>7, <1>9, <1>11, <1>12, <2>1
<1>14. ASSUME NEW v \in vertices, v.vertex # Root
       PROVE  Amount(b, Outof(v)) = Amount(b, Into(v))
  <2>1. CASE \E i \in 1 .. m : p[i].target = v
    <3>1. PICK i \in 1 .. m : p[i].target = v
      BY <2>1
    <3>2. i # m
      BY <1>1, <1>14, <3>1 DEF IsEnd
    <3>3. i \in 1 .. m - 1 /\ i + 1 \in 1 .. m
      BY <1>1, <3>2
    <3>4. p[i + 1].source = v
      BY <1>2, <3>1, <3>3
    <3>5. Amount(b, Outof(v)) = n
      <4> DEFINE k == i + 1
      <4>1. k \in 1 .. m /\ p[k].source = v
        BY <3>3, <3>4
      <4> HIDE DEF k
      <4>2. p[k] \in Outof(v) /\ \A j \in 1 .. m : p[j] \in Outof(v) => j = k
        BY <1>7, <1>12, <4>1
      <4> QED
        BY <1>9, <1>11, <4>1, <4>2
    <3>6. Amount(b, Into(v)) = n
      <4>1. \A j \in 1 .. m : p[j] \in Into(v) => j = i
        <5> TAKE j \in 1 .. m
        <5> HAVE p[j] \in Into(v)
        <5>1. p[j].target = p[i].target
          BY <1>12, <3>1
        <5>2. ~ (i < j) /\ ~ (j < i)
          BY <1>8, <5>1
        <5> QED
          BY <5>2
      <4> QED
        BY <1>9, <1>11, <1>12, <3>1, <4>1
    <3> QED
      BY <3>5, <3>6
  <2>2. CASE \A i \in 1 .. m : p[i].target # v
    <3>1. \A i \in 1 .. m : p[i].source # v
      <4> TAKE i \in 1 .. m
      <4>1. CASE i = 1
        BY <1>1, <1>14, <4>1 DEF Start
      <4>2. CASE i # 1
        <5> DEFINE k == i - 1
        <5>1. k \in 1 .. m - 1 /\ k \in 1 .. m /\ k + 1 = i
          BY <1>1, <4>2
        <5>2. p[k].target = p[k + 1].source
          BY <1>2, <5>1
        <5> QED
          BY <2>2, <5>1, <5>2
      <4> QED
        BY <4>1, <4>2
    <3> QED
      BY <1>10, <1>11, <1>12, <2>2, <3>1
  <2> QED
    BY <2>1, <2>2
<1>15. FlowOf(b, n)
  BY <1>6, <1>13, <1>14 DEF FlowOf
<1> QED
  BY <1>15 DEF b

\* The points of the program are flows of the value one.
Joined(B) == {SetToBag(j) (+) b : j \in Journeys, b \in B}

LEMMA PointsAre ==
  ASSUME IInv, createProgram
  PROVE  \A b \in points' : FlowOf(b, Units)
<1> DEFINE Bags0 == UNION {[D -> {n \in Nat : n > 0}] : D \in SUBSET edges}
           V == SUBSET Bags0
           F == [B \in V |-> Joined(B)]
           Extends(h) == h = [n \in 0 .. Units |->
                                IF n = 0 THEN {EmptyBag}
                                ELSE Joined(h[n - 1])]
           Upto == CHOOSE h : Extends(h)
<1>1. points' = {b \in Upto[Units] : Covering(b, Units)}
  BY DEF createProgram, Joined
<1>2. timeHorizon \in Nat /\ Units \in Nat
  BY Travel, ToursAssumption DEF IInv
<1>3. ASSUME NEW j \in Journeys
      PROVE  BagOfEdges(SetToBag(j)) /\ FlowOf(SetToBag(j), 1)
  <2>1. PICK p \in Routes : j = Range(p)
    BY <1>2, JourneysAre
  <2>2. j \in SUBSET edges
    BY NetworkIsFinite
  <2>3. SetToBag(j) = Copies(j, 1)
    BY <2>2, CopiesAre
  <2>4. FlowOf(Copies(Range(p), 1), 1)
    BY RouteIsFlow
  <2> QED
    BY <2>1, <2>3, <2>4 DEF FlowOf
<1>4. \A b : BagOfEdges(b) <=> b \in Bags0
  BY DEF BagOfEdges, IsABag
<1>5. {EmptyBag} \in V /\ FlowOf(EmptyBag, 0)
  <2>1. FlowOf(EmptyBag, 0) /\ BagOfEdges(EmptyBag)
    BY EmptyIsFlow DEF FlowOf
  <2> HIDE DEF Bags0
  <2> QED
    BY <1>4, <2>1
<1> HIDE DEF Bags0
<1>6. F \in [V -> V]
  <2>1. ASSUME NEW B \in V
        PROVE  Joined(B) \in V
    <3>1. \A j \in Journeys : \A b \in B : SetToBag(j) (+) b \in Bags0
      BY <1>3, <1>4, BagsAdd
    <3> QED
      BY <3>1 DEF Joined
  <2> QED
    BY <2>1
<1>7. \E g : IsIteration(g, F, {EmptyBag}, Units, V)
  <2> HIDE DEF F, V
  <2> QED
    BY <1>2, <1>5, <1>6, IterationExists
<1>8. PICK g : Extends(g)
  <2>1. PICK g : IsIteration(g, F, {EmptyBag}, Units, V)
    BY <1>7
  <2>2. /\ g \in [0 .. Units -> V]
        /\ \A n \in 0 .. Units : g[n] = IF n = 0 THEN {EmptyBag} ELSE F[g[n - 1]]
    <3> HIDE DEF F, V
    <3> QED BY <2>1 DEF IsIteration
  <2>3. \A n \in 0 .. Units : n # 0 => F[g[n - 1]] = Joined(g[n - 1])
    <3> TAKE n \in 0 .. Units
    <3> HAVE n # 0
    <3>1. n - 1 \in 0 .. Units
      BY <1>2
    <3>2. g[n - 1] \in V
      BY <2>2, <3>1
    <3> QED
      BY <3>2
  <2>4. g = [n \in 0 .. Units |-> g[n]]
    BY <2>2
  <2> HIDE DEF F, V
  <2>5. \A n \in 0 .. Units : g[n] = IF n = 0 THEN {EmptyBag}
                                     ELSE Joined(g[n - 1])
    BY <2>2, <2>3
  <2>6. Extends(g)
    BY <2>4, <2>5
  <2> HIDE DEF Extends
  <2> QED
    BY <2>6
<1>9. Extends(Upto)
  <2> HIDE DEF Extends
  <2> QED
    BY <1>8
<1> HIDE DEF Upto, F, V
<1> DEFINE S == {k \in Nat : k <= Units => \A b \in Upto[k] : FlowOf(b, k)}
<1>10. 0 \in S
  <2>1. Upto[0] = {EmptyBag}
    BY <1>2, <1>9
  <2> QED
    BY <1>5, <2>1
<1>11. \A k \in S : k + 1 \in S
  <2> SUFFICES ASSUME NEW k \in S, k + 1 <= Units
               PROVE  \A b \in Upto[k + 1] : FlowOf(b, k + 1)
    OBVIOUS
  <2>1. k \in Nat /\ k + 1 \in 0 .. Units /\ k + 1 # 0 /\ (k + 1) - 1 = k /\ k <= Units
    BY <1>2
  <2>2. \A b \in Upto[k] : FlowOf(b, k)
    BY <2>1
  <2>3. Upto[k + 1] = Joined(Upto[k])
    <3> HIDE DEF S
    <3> QED
      BY <1>9, <2>1
  <2>4. ASSUME NEW j \in Journeys, NEW b \in Upto[k]
        PROVE  FlowOf(SetToBag(j) (+) b, k + 1)
    <3>1. /\ BagOfEdges(SetToBag(j)) /\ FlowOf(SetToBag(j), 1)
          /\ BagOfEdges(b) /\ FlowOf(b, k)
      BY <1>3, <2>2 DEF FlowOf
    <3>2. /\ BagOfEdges(SetToBag(j) (+) b)
          /\ \A e \in edges : Value(SetToBag(j) (+) b, e) = Value(SetToBag(j), e) + Value(b, e)
      BY <3>1, BagsAdd
    <3>3. FlowOf(SetToBag(j) (+) b, 1 + k)
      BY <3>1, <3>2, FlowsAdd
    <3>4. 1 + k = k + 1
      BY <2>1
    <3> QED
      BY <3>3, <3>4
  <2> HIDE DEF S
  <2> QED
    BY <2>3, <2>4 DEF Joined
<1>12. S = Nat
  <2>1. S \in SUBSET Nat
    OBVIOUS
  <2> HIDE DEF S
  <2> QED
    BY <1>10, <1>11, <2>1, Induction
<1>13. \A b \in Upto[Units] : FlowOf(b, Units)
  <2>1. Units \in S
    <3> HIDE DEF S
    <3> QED BY <1>2, <1>12
  <2>2. Units <= Units
    BY <1>2
  <2> QED
    BY <2>1, <2>2
<1> HIDE DEF S
<1> QED
  BY <1>1, <1>13

-----------------------------------------------------------------------------
(* Flows through the network.                                              *)

\* Where an edge leaves and enters.
LEMMA EdgesAre ==
  ASSUME IInv
  PROVE  /\ timeHorizon \in Nat /\ Start \in vertices
         /\ \A v \in vertices : v.time \in Nat /\ v.time <= timeHorizon
         /\ \A e \in edges :
              /\ e.source \in vertices /\ e.target \in vertices
              /\ e.source.time < e.target.time
              /\ e.source = Start \/ e.source.vertex # Root
              /\ IsEnd(e.target) \/ e.target.vertex # Root
<1>1. TypeOK /\ NetworkIsSound /\ timeHorizon \in Nat
  BY Travel DEF IInv
<1>2. \A v \in vertices : /\ v.time \in Nat /\ v.time <= timeHorizon
                          /\ v = [vertex |-> v.vertex, time |-> v.time]
  BY <1>1 DEF TypeOK
<1>3. \A e \in edges : /\ e.source \in vertices /\ e.target \in vertices
                       /\ e.source.time < e.target.time /\ ~ IsEnd(e.source)
  BY <1>1 DEF NetworkIsSound
<1>4. ASSUME NEW e \in edges
      PROVE  /\ e.source = Start \/ e.source.vertex # Root
             /\ IsEnd(e.target) \/ e.target.vertex # Root
  <2>1. e.source.time \in Nat /\ e.target.time \in Nat /\ e.target.time > 0
    BY <1>2, <1>3
  <2>2. e.source.vertex = Root => e.source.time = 0
    BY <1>3, <2>1 DEF IsEnd
  <2>3. e.source.vertex = Root => e.source = Start
    BY <1>2, <1>3, <2>2 DEF Start
  <2>4. e.target.vertex = Root => IsEnd(e.target)
    BY <2>1 DEF IsEnd
  <2> QED
    BY <2>3, <2>4
<1> QED
  BY <1>1, <1>2, <1>3, <1>4 DEF NetworkIsSound

\* What enters a vertex leaves it again, and what leaves it has entered it.
LEMMA FlowGoesOn ==
  ASSUME IInv, NEW b, NEW n, FlowOf(b, n), NEW e \in DOMAIN b
  PROVE  /\ e \in edges
         /\ e.source = Start => n > 0
         /\ e.source # Start => \E f \in DOMAIN b : f.target = e.source
         /\ ~ IsEnd(e.target) => \E f \in DOMAIN b : f.source = e.target
<1>1. BagOfEdges(b) /\ n \in Nat /\ Amount(b, Outof(Start)) = n
      /\ \A v \in vertices : v.vertex # Root => Amount(b, Outof(v)) = Amount(b, Into(v))
  BY DEF FlowOf
<1>2. e \in edges
  BY <1>1 DEF BagOfEdges
<1>3. \A f : Value(b, f) \in Nat /\ (Value(b, f) > 0 <=> f \in DOMAIN b)
  BY <1>1, ValueIs
<1>4. \A v : Outof(v) \in SUBSET edges /\ Into(v) \in SUBSET edges
  BY DEF Outof, Into
<1>5. \A set \in SUBSET edges : /\ Amount(b, set) \in Nat
                                /\ e \in set => Amount(b, set) > 0
                                /\ Amount(b, set) > 0 => \E f \in set : f \in DOMAIN b
  <2> TAKE set \in SUBSET edges
  <2>1. /\ Amount(b, set) \in Nat
        /\ \A f \in set : Value(b, f) <= Amount(b, set)
        /\ Amount(b, set) > 0 => \E f \in set : Value(b, f) > 0
    BY <1>1, AmountIs
  <2>2. Value(b, e) \in Nat /\ Value(b, e) > 0
    BY <1>3
  <2>3. e \in set => Amount(b, set) > 0
    BY <2>1, <2>2
  <2> QED
    BY <1>3, <2>1, <2>3
<1>6. e.source = Start => n > 0
  <2> HAVE e.source = Start
  <2>1. e \in Outof(Start)
    BY <1>2 DEF Outof
  <2> QED
    BY <1>1, <1>4, <1>5, <2>1
<1>7. e.source # Start => \E f \in DOMAIN b : f.target = e.source
  <2> HAVE e.source # Start
  <2>1. e.source \in vertices /\ e.source.vertex # Root /\ e \in Outof(e.source)
    BY <1>2, EdgesAre DEF Outof
  <2>2. Amount(b, Outof(e.source)) > 0
    BY <1>4, <1>5, <2>1
  <2>3. Amount(b, Into(e.source)) > 0
    BY <1>1, <2>1, <2>2
  <2>4. PICK f \in Into(e.source) : f \in DOMAIN b
    BY <1>4, <1>5, <2>3
  <2> QED
    BY <2>4 DEF Into
<1>8. ~ IsEnd(e.target) => \E f \in DOMAIN b : f.source = e.target
  <2> HAVE ~ IsEnd(e.target)
  <2>1. e.target \in vertices /\ e.target.vertex # Root /\ e \in Into(e.target)
    BY <1>2, EdgesAre DEF Into
  <2>2. Amount(b, Into(e.target)) > 0
    BY <1>4, <1>5, <2>1
  <2>3. Amount(b, Outof(e.target)) > 0
    BY <1>1, <2>1, <2>2
  <2>4. PICK f \in Outof(e.target) : f \in DOMAIN b
    BY <1>4, <1>5, <2>3
  <2> QED
    BY <2>4 DEF Outof
<1> QED
  BY <1>2, <1>6, <1>7, <1>8

\* Time passes along a flow: one of value zero has no edges.
LEMMA NoFlow ==
  ASSUME IInv, NEW b, FlowOf(b, 0)
  PROVE  b = EmptyBag
<1>1. BagOfEdges(b)
  BY DEF FlowOf
<1>2. DOMAIN b = {}
  <2> SUFFICES ASSUME DOMAIN b # {} PROVE FALSE
    OBVIOUS
  <2> DEFINE T == {e.source.time : e \in DOMAIN b}
  <2>1. \A e \in DOMAIN b : e \in edges /\ e.source.time \in Nat /\ e.target.time \in Nat
                            /\ e.source.time < e.target.time
    BY <1>1, EdgesAre DEF BagOfEdges
  <2>2. T \in SUBSET Nat /\ T # {}
    BY <2>1
  <2> HIDE DEF T
  <2>3. PICK k \in T : \A m \in T : k <= m
    BY <2>2, LeastExists
  <2>4. PICK e \in DOMAIN b : e.source.time = k
    BY <2>3 DEF T
  <2>5. e.source # Start
    BY FlowGoesOn
  <2>6. PICK f \in DOMAIN b : f.target = e.source
    BY <2>5, FlowGoesOn
  <2>7. f.source.time \in T
    BY DEF T
  <2>8. k <= f.source.time /\ f.source.time < k /\ f.source.time \in Nat /\ k \in Nat
    BY <2>1, <2>3, <2>4, <2>6, <2>7
  <2> QED
    BY <2>8
<1>3. b = [e \in {} |-> 1]
  BY <1>1, <1>2 DEF BagOfEdges, IsABag
<1> QED
  BY <1>3 DEF EmptyBag, SetToBag

\* Any other has an edge that leads home.
LEMMA FlowLeadsHome ==
  ASSUME IInv, NEW b, NEW n, FlowOf(b, n), n > 0
  PROVE  \E e \in DOMAIN b : IsEnd(e.target)
<1>1. BagOfEdges(b) /\ Amount(b, Outof(Start)) > 0
  BY DEF FlowOf
<1>2. DOMAIN b # {}
  <2>1. Outof(Start) \in SUBSET edges
    BY DEF Outof
  <2>2. \E e \in Outof(Start) : Value(b, e) > 0
    BY <1>1, <2>1, AmountIs
  <2> QED
    BY <1>1, <2>2, ValueIs
<1> SUFFICES ASSUME \A e \in DOMAIN b : ~ IsEnd(e.target) PROVE FALSE
  OBVIOUS
<1> DEFINE T == {timeHorizon - e.target.time : e \in DOMAIN b}
<1>3. timeHorizon \in Nat
  BY EdgesAre
<1>4. \A e \in DOMAIN b : /\ e.source.time \in Nat /\ e.target.time \in Nat
                          /\ e.target.time <= timeHorizon
                          /\ e.source.time < e.target.time
  BY <1>1, EdgesAre DEF BagOfEdges
<1>5. T \in SUBSET Nat /\ T # {}
  <2>1. \A e \in DOMAIN b : timeHorizon - e.target.time \in Nat
    BY <1>3, <1>4
  <2> QED
    BY <1>2, <2>1
<1> HIDE DEF T
<1>6. PICK k \in T : \A m \in T : k <= m
  BY <1>5, LeastExists
<1>7. PICK e \in DOMAIN b : k = timeHorizon - e.target.time
  BY <1>6 DEF T
<1>8. PICK f \in DOMAIN b : f.source = e.target
  BY FlowGoesOn
<1>9. timeHorizon - f.target.time \in T
  BY DEF T
<1>10. timeHorizon - e.target.time <= timeHorizon - f.target.time
  BY <1>6, <1>7, <1>9
<1>11. e.target.time < f.target.time /\ e.target.time \in Nat /\ f.target.time \in Nat
  BY <1>4, <1>8
<1> QED
  BY <1>3, <1>10, <1>11

-----------------------------------------------------------------------------
(* Functions of timed vertices that are defined in order of time.          *)

\* Time by time the vertices of that time get their values.
IsLayered(g, F, base, X) ==
  /\ g \in [0 .. timeHorizon -> [vertices -> X]]
  /\ \A t \in 0 .. timeHorizon :
       g[t] = IF t = 0 THEN base
              ELSE [v \in vertices |-> IF v.time # t THEN g[t - 1][v] ELSE F[v][g[t - 1]]]

\* The value of a vertex depends on those of earlier ones.
LooksBack(F, X) ==
  \A v \in vertices : \A f, h \in [vertices -> X] :
    (\A u \in vertices : u.time < v.time => f[u] = h[u]) => F[v][f] = F[v][h]

\* In the end every value is what the others make of it.
Settled(h, F, base, X) ==
  /\ h \in [vertices -> X]
  /\ \A v \in vertices : h[v] = IF v.time = 0 THEN base[v] ELSE F[v][h]

LEMMA LayersExist ==
  ASSUME IInv, NEW X, NEW base \in [vertices -> X], NEW F \in [vertices -> [[vertices -> X] -> X]]
  PROVE  \E g : IsLayered(g, F, base, X)
<1> DEFINE V == [vertices -> X]
           N == timeHorizon
           Layer(t, f) == [v \in vertices |-> IF v.time # t THEN f[v] ELSE F[v][f]]
           G == [t \in 1 .. N |-> [f \in V |-> Layer(t, f)]]
<1>1. N \in Nat /\ base \in V
  BY EdgesAre
<1>2. \A t : \A f \in V : Layer(t, f) \in V
  OBVIOUS
<1> HIDE DEF Layer
<1>3. G \in [1 .. N -> [V -> V]]
  BY <1>2
<1>4. \E g : IsRecursion(g, G, base, N, V)
  <2> HIDE DEF G, V, N
  <2> QED
    BY <1>1, <1>3, RecursionExists
<1>5. PICK g : IsRecursion(g, G, base, N, V)
  <2> HIDE DEF G, V, N
  <2> QED
    BY <1>4
<1>6. g \in [0 .. N -> V] /\ \A t \in 0 .. N : g[t] = IF t = 0 THEN base ELSE G[t][g[t - 1]]
  <2> HIDE DEF G, V, N
  <2>1. g \in [0 .. N -> V] /\ g = [t \in 0 .. N |-> IF t = 0 THEN base ELSE G[t][g[t - 1]]]
    BY <1>5 DEF IsRecursion
  <2> QED
    BY <2>1
<1>7. \A t \in 0 .. N : g[t] = IF t = 0 THEN base ELSE Layer(t, g[t - 1])
  <2> TAKE t \in 0 .. N
  <2>1. CASE t = 0
    BY <1>6, <2>1
  <2>2. CASE t # 0
    <3>1. t \in 1 .. N /\ t - 1 \in 0 .. N
      BY <1>1, <2>2
    <3>2. g[t - 1] \in V
      BY <1>6, <3>1
    <3>3. G[t][g[t - 1]] = Layer(t, g[t - 1])
      BY <3>1, <3>2
    <3>4. g[t] = G[t][g[t - 1]]
      <4> HIDE DEF G, V, N
      <4> QED
        BY <1>6, <2>2
    <3> HIDE DEF G
    <3> QED
      BY <2>2, <3>3, <3>4
  <2> QED
    BY <2>1, <2>2
<1>8. IsLayered(g, F, base, X)
  BY <1>6, <1>7 DEF IsLayered, Layer
<1> QED
  BY <1>8

LEMMA LayersAre ==
  ASSUME IInv, NEW X, NEW base \in [vertices -> X], NEW F \in [vertices -> [[vertices -> X] -> X]],
         LooksBack(F, X), NEW g, IsLayered(g, F, base, X)
  PROVE  Settled(g[timeHorizon], F, base, X)
<1> DEFINE N == timeHorizon
           S == {k \in Nat : k <= N => \A v \in vertices : v.time <= k => g[k][v] = g[v.time][v]}
<1>1. N \in Nat /\ \A v \in vertices : v.time \in Nat /\ v.time <= N
  BY EdgesAre
<1>2. /\ g \in [0 .. N -> [vertices -> X]]
      /\ \A t \in 0 .. N :
           g[t] = IF t = 0 THEN base
                  ELSE [v \in vertices |-> IF v.time # t THEN g[t - 1][v] ELSE F[v][g[t - 1]]]
  BY DEF IsLayered
<1>3. \A t \in 0 .. N : \A v \in vertices :
        t # 0 => g[t][v] = IF v.time # t THEN g[t - 1][v] ELSE F[v][g[t - 1]]
  <2> TAKE t \in 0 .. N
  <2> TAKE v \in vertices
  <2> HAVE t # 0
  <2>1. g[t] = [w \in vertices |-> IF w.time # t THEN g[t - 1][w] ELSE F[w][g[t - 1]]]
    BY <1>2
  <2> QED
    BY <2>1
<1>4. 0 \in S
  <2>1. \A v \in vertices : v.time <= 0 => v.time = 0
    BY <1>1
  <2> QED
    BY <2>1
<1>5. \A k \in S : k + 1 \in S
  <2> SUFFICES ASSUME NEW k \in S, k + 1 <= N, NEW v \in vertices, v.time <= k + 1
               PROVE  g[k + 1][v] = g[v.time][v]
    OBVIOUS
  <2> DEFINE m == k + 1
  <2>1. k \in Nat /\ k <= N /\ m \in 0 .. N /\ m # 0 /\ m - 1 = k
    <3>1. k \in Nat
      OBVIOUS
    <3> HIDE DEF S
    <3> QED
      BY <1>1, <3>1
  <2>2. v.time <= k => g[k][v] = g[v.time][v]
    BY <2>1
  <2>3. v.time # m => v.time <= k
    <3>1. v.time \in Nat /\ v.time <= k + 1
      BY <1>1
    <3> HIDE DEF S
    <3>2. \A x \in Nat : x <= k + 1 /\ x # k + 1 => x <= k
      BY <2>1
    <3> QED
      BY ONLY <3>1, <3>2
  <2> HIDE DEF m, S
  <2>4. v.time # m => g[m][v] = g[k][v]
    BY <1>3, <2>1
  <2>5. g[m][v] = g[v.time][v]
    BY <2>2, <2>3, <2>4
  <2> QED
    BY <2>5 DEF m
<1>6. S = Nat
  <2>1. S \in SUBSET Nat
    OBVIOUS
  <2> HIDE DEF S
  <2> QED
    BY <1>4, <1>5, <2>1, Induction
<1>7. \A k \in 0 .. N : \A v \in vertices : v.time <= k => g[k][v] = g[v.time][v]
  <2> TAKE k \in 0 .. N
  <2>1. k \in S /\ k <= N
    <3>1. k \in Nat /\ k <= N
      BY <1>1
    <3> HIDE DEF S
    <3> QED
      BY <1>6, <3>1
  <2> QED
    BY <2>1
<1> HIDE DEF S
<1>8. N \in 0 .. N /\ 0 \in 0 .. N
  BY <1>1
<1>9. g[N] \in [vertices -> X] /\ g[0] = base
  BY <1>2, <1>8
<1>10. ASSUME NEW v \in vertices
       PROVE  g[N][v] = IF v.time = 0 THEN base[v] ELSE F[v][g[N]]
  <2>1. g[N][v] = g[v.time][v]
    BY <1>1, <1>7, <1>8
  <2>2. CASE v.time = 0
    BY <1>9, <2>1, <2>2
  <2>3. CASE v.time # 0
    <3> DEFINE t == v.time - 1
    <3>1. t \in 0 .. N /\ v.time \in 0 .. N
      <4>1. v.time \in Nat /\ v.time <= N
        BY <1>1
      <4>2. \A x \in Nat : x # 0 /\ x <= N => x - 1 \in 0 .. N /\ x \in 0 .. N
        BY <1>1
      <4> QED
        BY ONLY <2>3, <4>1, <4>2
    <3>2. g[v.time][v] = F[v][g[t]]
      BY <1>3, <2>3, <3>1
    <3>3. \A u \in vertices : u.time < v.time => g[t][u] = g[N][u]
      <4> TAKE u \in vertices
      <4> HAVE u.time < v.time
      <4>1. u.time <= t /\ u.time <= N
        BY <1>1, <2>3
      <4> HIDE DEF t
      <4>2. g[t][u] = g[u.time][u] /\ g[N][u] = g[u.time][u]
        BY <1>7, <1>8, <3>1, <4>1
      <4> QED
        BY <4>2
    <3>4. g[t] \in [vertices -> X]
      BY <1>2, <3>1
    <3> HIDE DEF t, N
    <3>5. F[v][g[t]] = F[v][g[N]]
      BY <1>9, <3>3, <3>4 DEF LooksBack
    <3> QED
      BY <2>1, <2>3, <3>2, <3>5
  <2> QED
    BY <2>2, <2>3
<1> QED
  BY <1>9, <1>10 DEF Settled

-----------------------------------------------------------------------------
(* The entries.                                                            *)

\* A finite set of numbers has a greatest one, and one of two is the lesser.
LEMMA GreatestOfFinite ==
  ASSUME NEW D \in SUBSET Int, IsFiniteSet(D), D # {}
  PROVE  Max(D) \in D /\ \A x \in D : x <= Max(D)
<1> DEFINE E == {0 - x : x \in D}
           f == [x \in D |-> 0 - x]
<1>1. f \in Surjection(D, E)
  <2>1. f \in [D -> E] /\ \A y \in E : \E x \in D : f[x] = y
    OBVIOUS
  <2> HIDE DEF f, E
  <2> QED
    BY <2>1 DEF Surjection
<1>2. IsFiniteSet(E)
  <2> HIDE DEF f, E
  <2> QED
    BY <1>1, FS_Surjection
<1>3. E \in SUBSET Int /\ E # {}
  OBVIOUS
<1> HIDE DEF E
<1>4. Min(E) \in E /\ \A y \in E : Min(E) <= y
  BY <1>2, <1>3, LeastOfFinite
<1>5. PICK x \in D : Min(E) = 0 - x
  BY <1>4 DEF E
<1>6. \A y \in D : x >= y
  <2> TAKE y \in D
  <2>1. 0 - y \in E
    BY DEF E
  <2>2. 0 - x <= 0 - y
    BY <1>4, <1>5, <2>1
  <2>3. x \in Int /\ y \in Int
    OBVIOUS
  <2> QED
    BY <2>2, <2>3
<1>7. Max(D) \in D /\ \A y \in D : Max(D) >= y
  BY <1>6 DEF Max
<1>8. \A y \in D : y <= Max(D)
  <2> TAKE y \in D
  <2>1. y \in Int /\ Max(D) \in Int /\ Max(D) >= y
    BY <1>7
  <2> QED
    BY <2>1
<1> QED
  BY <1>7, <1>8

LEMMA LesserIs ==
  ASSUME NEW a \in Nat, NEW b \in Nat
  PROVE  /\ Min({a, b}) \in {a, b} /\ Min({a, b}) \in Nat
         /\ Min({a, b}) <= a /\ Min({a, b}) <= b
<1> DEFINE T == {a, b}
<1>1. T \in SUBSET Nat /\ T # {}
  OBVIOUS
<1> HIDE DEF T
<1>2. Min(T) \in T /\ \A m \in T : Min(T) <= m
  BY <1>1, LeastExists
<1>3. a \in T /\ b \in T
  BY DEF T
<1>4. Min(T) \in Nat /\ Min(T) <= a /\ Min(T) <= b
  BY <1>1, <1>2, <1>3
<1> QED
  BY <1>2, <1>4 DEF T

\* The entry of a vertex, given those of earlier ones.
Width(f, e) == Min({f[e.source], width(e)})
EntryOf(f, v) == Max({0} \cup {Width(f, e) : e \in Incoming(v)})

LEMMA EntryIs ==
  ASSUME IInv, BagOfEdges(currentFlow), NEW f \in [vertices -> Nat], NEW v
  PROVE  /\ EntryOf(f, v) \in Nat
         /\ \A e \in Incoming(v) : e \in edges /\ e.source.time < v.time /\ e.source \in vertices
         /\ \A e \in Incoming(v) : /\ Width(f, e) \in Nat /\ Width(f, e) <= EntryOf(f, v)
                                   /\ Width(f, e) <= f[e.source] /\ Width(f, e) <= width(e)
                                   /\ f[e.source] > 0 => Width(f, e) > 0
<1> DEFINE D == {0} \cup {Width(f, e) : e \in Incoming(v)}
<1>1. \A e \in Incoming(v) : e \in edges /\ e.source.time < v.time /\ e.source \in vertices /\ e \in DOMAIN currentFlow
  <2>1. \A e \in Incoming(v) : e \in DOMAIN currentFlow /\ e.target = v
    BY DEF Incoming, BagToSet
  <2>2. \A e \in DOMAIN currentFlow : e \in edges
    BY DEF BagOfEdges
  <2> QED
    BY <2>1, <2>2, EdgesAre
<1>2. \A e \in Incoming(v) : /\ Width(f, e) \in Nat
                             /\ Width(f, e) <= f[e.source] /\ Width(f, e) <= width(e)
                             /\ f[e.source] > 0 => Width(f, e) > 0
  <2> TAKE e \in Incoming(v)
  <2>1. f[e.source] \in Nat
    BY <1>1
  <2>2. width(e) \in Nat /\ width(e) > 0
    BY <1>1, ValueIs DEF width
  <2>3. /\ Min({f[e.source], width(e)}) \in {f[e.source], width(e)}
        /\ Min({f[e.source], width(e)}) \in Nat
        /\ Min({f[e.source], width(e)}) <= f[e.source] /\ Min({f[e.source], width(e)}) <= width(e)
    BY <2>1, <2>2, LesserIs
  <2>4. Width(f, e) \in {f[e.source], width(e)} /\ Width(f, e) \in Nat
        /\ Width(f, e) <= f[e.source] /\ Width(f, e) <= width(e)
    BY <2>3 DEF Width
  <2>5. f[e.source] > 0 => Width(f, e) > 0
    BY <2>2, <2>4
  <2> QED
    BY <2>4, <2>5
<1>3. IsFiniteSet(D)
  <2> DEFINE W == {Width(f, e) : e \in Incoming(v)}
             g == [e \in Incoming(v) |-> Width(f, e)]
  <2>1. IsFiniteSet(Incoming(v))
    <3>1. Incoming(v) \in SUBSET edges
      BY <1>1
    <3> QED
      BY <3>1, NetworkIsFinite, FS_Subset
  <2>2. g \in Surjection(Incoming(v), W)
    <3>1. g \in [Incoming(v) -> W] /\ \A y \in W : \E e \in Incoming(v) : g[e] = y
      OBVIOUS
    <3> HIDE DEF g, W
    <3> QED
      BY <3>1 DEF Surjection
  <2> HIDE DEF g, W
  <2>3. IsFiniteSet(W)
    BY <2>1, <2>2, FS_Surjection
  <2>4. IsFiniteSet({0}) /\ D = {0} \cup W
    BY FS_Singleton DEF W
  <2> HIDE DEF D
  <2> QED
    BY <2>3, <2>4, FS_Union
<1>4. D \in SUBSET Int /\ D # {} /\ \A x \in D : x \in Nat
  BY <1>2
<1>5. EntryOf(f, v) = Max(D)
  BY DEF EntryOf
<1>6. \A e \in Incoming(v) : Width(f, e) \in D
  OBVIOUS
<1> HIDE DEF D
<1>7. Max(D) \in D /\ \A x \in D : x <= Max(D)
  BY <1>3, <1>4, GreatestOfFinite
<1> QED
  BY <1>1, <1>2, <1>4, <1>5, <1>6, <1>7

\* The entries are as wide as the flow into a vertex allows.
LEMMA EntriesAre ==
  ASSUME IInv, BagOfEdges(currentFlow), remainingValue \in Nat
  PROVE  /\ entries \in [vertices -> Nat]
         /\ entries[Start] = remainingValue
         /\ \A v \in vertices : v.time # 0 => entries[v] = EntryOf(entries, v)
<1> DEFINE N == timeHorizon
           V == [vertices -> Nat]
           base == [v \in vertices |-> IF v = Start THEN remainingValue ELSE 0]
           F == [v \in vertices |-> [f \in V |-> EntryOf(f, v)]]
           Layer(t, f) == [v \in vertices |-> IF v.time # t THEN f[v] ELSE EntryOf(f, v)]
           Layers(h) == h = [t \in 0 .. N |-> IF t = 0 THEN base ELSE Layer(t, h[t - 1])]
           E == CHOOSE h : Layers(h)
<1>1. entries = E[N]
  BY DEF entries, EntryOf, Width
<1>2. N \in Nat /\ Start \in vertices /\ Start.time = 0 /\ \A v \in vertices : v.time \in Nat
  BY EdgesAre DEF Start
<1>3. base \in V /\ base[Start] = remainingValue
  BY <1>2
<1>4. \A f \in V : \A v \in vertices : EntryOf(f, v) \in Nat
  BY EntryIs
<1>5. F \in [vertices -> [V -> Nat]] /\ \A v \in vertices : \A f \in V : F[v][f] = EntryOf(f, v)
  BY <1>4
<1>6. \A t : \A f \in V : /\ Layer(t, f) \in V
                          /\ Layer(t, f) = [v \in vertices |-> IF v.time # t THEN f[v] ELSE F[v][f]]
  BY <1>4, <1>5
<1> HIDE DEF F, Layer, base, E
<1>7. LooksBack(F, Nat)
  <2> SUFFICES ASSUME NEW v \in vertices, NEW f \in V, NEW h \in V,
                      \A u \in vertices : u.time < v.time => f[u] = h[u]
               PROVE  F[v][f] = F[v][h]
    BY DEF LooksBack
  <2>1. \A e \in Incoming(v) : f[e.source] = h[e.source]
    BY EntryIs
  <2>2. \A e \in Incoming(v) : Width(f, e) = Width(h, e)
    BY <2>1 DEF Width
  <2>3. {Width(f, e) : e \in Incoming(v)} = {Width(h, e) : e \in Incoming(v)}
    BY <2>2
  <2>4. EntryOf(f, v) = EntryOf(h, v)
    BY <2>3 DEF EntryOf
  <2> QED
    BY <1>5, <2>4
<1>8. PICK g : IsLayered(g, F, base, Nat)
  BY <1>3, <1>5, LayersExist
<1>9. Layers(g)
  <2>1. /\ g \in [0 .. N -> V]
        /\ \A t \in 0 .. N :
             g[t] = IF t = 0 THEN base
                    ELSE [v \in vertices |-> IF v.time # t THEN g[t - 1][v] ELSE F[v][g[t - 1]]]
    BY <1>8 DEF IsLayered
  <2>2. \A t \in 0 .. N : g[t] = IF t = 0 THEN base ELSE Layer(t, g[t - 1])
    <3> TAKE t \in 0 .. N
    <3>1. t # 0 => t - 1 \in 0 .. N
      BY <1>2
    <3>2. t # 0 => g[t - 1] \in V
      BY <2>1, <3>1
    <3> HIDE DEF V, N
    <3> QED
      BY <1>6, <2>1, <3>2
  <2>3. g = [t \in 0 .. N |-> g[t]]
    BY <2>1
  <2> QED
    BY <2>2, <2>3
<1>10. Layers(E)
  <2> HIDE DEF Layers
  <2> QED
    BY <1>9 DEF E
<1> DEFINE S == {k \in Nat : k <= N => E[k] \in V}
<1>11. 0 \in S
  <2>1. E[0] = base
    BY <1>2, <1>10
  <2> QED
    BY <1>3, <2>1
<1>12. \A k \in S : k + 1 \in S
  <2> SUFFICES ASSUME NEW k \in S, k + 1 <= N PROVE E[k + 1] \in V
    OBVIOUS
  <2>1. k \in Nat /\ k + 1 \in 0 .. N /\ k + 1 # 0 /\ (k + 1) - 1 = k /\ k <= N
    BY <1>2
  <2>2. E[k] \in V
    BY <2>1
  <2>3. E[k + 1] = Layer(k + 1, E[k])
    <3> HIDE DEF S
    <3> QED
      BY <1>10, <2>1
  <2> HIDE DEF S, V
  <2> QED
    BY <1>6, <2>2, <2>3
<1>13. S = Nat
  <2>1. S \in SUBSET Nat
    OBVIOUS
  <2> HIDE DEF S
  <2> QED
    BY <1>11, <1>12, <2>1, Induction
<1>14. \A t \in 0 .. N : E[t] \in V
  <2> TAKE t \in 0 .. N
  <2>1. t \in Nat /\ t <= N
    BY <1>2
  <2>2. t \in S
    <3> HIDE DEF S
    <3> QED
      BY <1>13, <2>1
  <2> QED
    BY <2>1, <2>2
<1> HIDE DEF S
<1>15. IsLayered(E, F, base, Nat)
  <2>1. E = [t \in 0 .. N |-> E[t]]
    <3>1. DOMAIN E = 0 .. N /\ E = [t \in 0 .. N |-> IF t = 0 THEN base ELSE Layer(t, E[t - 1])]
      BY <1>10
    <3> QED
      BY <3>1
  <2>2. \A t \in 0 .. N :
          E[t] = IF t = 0 THEN base
                 ELSE [v \in vertices |-> IF v.time # t THEN E[t - 1][v] ELSE F[v][E[t - 1]]]
    <3> TAKE t \in 0 .. N
    <3>1. E[t] = IF t = 0 THEN base ELSE Layer(t, E[t - 1])
      BY <1>10
    <3>2. t # 0 => t - 1 \in 0 .. N
      BY <1>2
    <3>3. t # 0 => Layer(t, E[t - 1]) = [v \in vertices |-> IF v.time # t THEN E[t - 1][v] ELSE F[v][E[t - 1]]]
      <4>1. t # 0 => E[t - 1] \in V
        BY <1>14, <3>2
      <4> HIDE DEF V
      <4> QED
        BY <1>6, <4>1
    <3> QED
      BY <3>1, <3>3
  <2>3. E \in [0 .. N -> V]
    BY <1>14, <2>1
  <2> QED
    BY <2>2, <2>3 DEF IsLayered
<1>16. /\ E[N] \in [vertices -> Nat]
       /\ \A v \in vertices : E[N][v] = IF v.time = 0 THEN base[v] ELSE F[v][E[N]]
  <2> HIDE DEF Layers
  <2>1. Settled(E[timeHorizon], F, base, Nat)
    BY <1>3, <1>5, <1>7, <1>15, LayersAre
  <2> QED
    BY <2>1 DEF Settled
<1>17. E[N][Start] = remainingValue
  BY <1>2, <1>3, <1>16
<1> HIDE DEF N, Layers
<1> QED
  BY <1>1, <1>5, <1>16, <1>17

\* The ways to a vertex, given those to earlier ones.
Widest(v) == {e \in Incoming(v) : entries[v] = Width(entries, e)}
WaysOf(f, v) == UNION {{p \cup {e} : p \in f[e.source]} : e \in Widest(v)}

LEMMA WaysOfAre ==
  ASSUME NEW f, NEW v, NEW path
  PROVE  path \in WaysOf(f, v) <=> \E e \in Widest(v) : \E p \in f[e.source] : path = p \cup {e}
<1>1. ASSUME path \in WaysOf(f, v)
      PROVE  \E e \in Widest(v) : \E p \in f[e.source] : path = p \cup {e}
  <2>1. PICK e \in Widest(v) : path \in {p \cup {e} : p \in f[e.source]}
    BY <1>1 DEF WaysOf
  <2>2. PICK p \in f[e.source] : path = p \cup {e}
    BY <2>1
  <2> QED
    BY <2>2
<1>2. ASSUME NEW e \in Widest(v), NEW p \in f[e.source], path = p \cup {e}
      PROVE  path \in WaysOf(f, v)
  <2>1. path \in {q \cup {e} : q \in f[e.source]}
    BY <1>2
  <2> QED
    BY <2>1 DEF WaysOf
<1> QED
  BY <1>1, <1>2

LEMMA WaysAre ==
  ASSUME IInv, BagOfEdges(currentFlow), remainingValue \in Nat
  PROVE  \A v \in vertices : \A path \in WaysTo(v) :
           IF v.time = 0 THEN v = Start /\ path = {}
           ELSE \E e \in Incoming(v) : \E p \in WaysTo(e.source) :
                  entries[v] = Width(entries, e) /\ path = p \cup {e}
<1> DEFINE N == timeHorizon
           X == SUBSET SUBSET edges
           V == [vertices -> X]
           base == [v \in vertices |-> IF v = Start THEN {{}} ELSE {}]
           F == [v \in vertices |-> [f \in V |-> WaysOf(f, v)]]
           Layer(t, f) == [v \in vertices |-> IF v.time # t THEN f[v] ELSE WaysOf(f, v)]
           Layers(h) == h = [t \in 0 .. N |-> IF t = 0 THEN base ELSE Layer(t, h[t - 1])]
           E == CHOOSE h : Layers(h)
<1>1. \A v : WaysTo(v) = E[N][v]
  BY DEF WaysTo, WaysOf, Widest, Width
<1>2. N \in Nat /\ Start \in vertices /\ Start.time = 0 /\ \A v \in vertices : v.time \in Nat
  BY EdgesAre DEF Start
<1>3. base \in V /\ \A v \in vertices : base[v] = IF v = Start THEN {{}} ELSE {}
  OBVIOUS
<1>0. \A v : \A e \in Widest(v) : /\ e \in Incoming(v) /\ entries[v] = Width(entries, e)
                                  /\ e \in edges /\ e.source.time < v.time /\ e.source \in vertices
  <2>1. entries \in [vertices -> Nat]
    BY EntriesAre
  <2> QED
    BY <2>1, EntryIs DEF Widest
<1>4. \A f \in V : \A v \in vertices : WaysOf(f, v) \in X
  <2> TAKE f \in V
  <2> TAKE v \in vertices
  <2>1. \A e \in Widest(v) : e \in edges /\ f[e.source] \in SUBSET SUBSET edges
    BY <1>0
  <2>2. \A e \in Widest(v) : \A p \in f[e.source] : p \cup {e} \in SUBSET edges
    BY <2>1
  <2>3. \A e \in Widest(v) : {p \cup {e} : p \in f[e.source]} \subseteq SUBSET edges
    BY <2>2
  <2> QED
    BY <2>3 DEF WaysOf
<1>5. F \in [vertices -> [V -> X]] /\ \A v \in vertices : \A f \in V : F[v][f] = WaysOf(f, v)
  BY <1>4
<1>6. \A t : \A f \in V : /\ Layer(t, f) \in V
                          /\ Layer(t, f) = [v \in vertices |-> IF v.time # t THEN f[v] ELSE F[v][f]]
  BY <1>4, <1>5
<1> HIDE DEF F, Layer, base, E, X
<1>7. LooksBack(F, X)
  <2> SUFFICES ASSUME NEW v \in vertices, NEW f \in V, NEW h \in V,
                      \A u \in vertices : u.time < v.time => f[u] = h[u]
               PROVE  F[v][f] = F[v][h]
    BY DEF LooksBack
  <2>1. \A e \in Widest(v) : f[e.source] = h[e.source]
    BY <1>0
  <2>2. ASSUME NEW path
        PROVE  path \in WaysOf(f, v) <=> path \in WaysOf(h, v)
    <3>1. path \in WaysOf(f, v) <=> \E e \in Widest(v) : \E p \in f[e.source] : path = p \cup {e}
      BY ONLY WaysOfAre
    <3>2. path \in WaysOf(h, v) <=> \E e \in Widest(v) : \E p \in h[e.source] : path = p \cup {e}
      BY ONLY WaysOfAre
    <3> QED
      BY <2>1, <3>1, <3>2
  <2>4. WaysOf(f, v) = WaysOf(h, v)
    BY <2>2
  <2> QED
    BY <1>5, <2>4
<1>8. PICK g : IsLayered(g, F, base, X)
  BY <1>3, <1>5, LayersExist
<1>9. Layers(g)
  <2>1. /\ g \in [0 .. N -> V]
        /\ \A t \in 0 .. N :
             g[t] = IF t = 0 THEN base
                    ELSE [v \in vertices |-> IF v.time # t THEN g[t - 1][v] ELSE F[v][g[t - 1]]]
    BY <1>8 DEF IsLayered
  <2>2. \A t \in 0 .. N : g[t] = IF t = 0 THEN base ELSE Layer(t, g[t - 1])
    <3> TAKE t \in 0 .. N
    <3>1. t # 0 => t - 1 \in 0 .. N
      BY <1>2
    <3>2. t # 0 => g[t - 1] \in V
      BY <2>1, <3>1
    <3> HIDE DEF V, N
    <3> QED
      BY <1>6, <2>1, <3>2
  <2>3. g = [t \in 0 .. N |-> g[t]]
    BY <2>1
  <2> QED
    BY <2>2, <2>3
<1>10. Layers(E)
  <2> HIDE DEF Layers
  <2> QED
    BY <1>9 DEF E
<1> DEFINE S == {k \in Nat : k <= N => E[k] \in V}
<1>11. 0 \in S
  <2>1. E[0] = base
    BY <1>2, <1>10
  <2> QED
    BY <1>3, <2>1
<1>12. \A k \in S : k + 1 \in S
  <2> SUFFICES ASSUME NEW k \in S, k + 1 <= N PROVE E[k + 1] \in V
    OBVIOUS
  <2>1. k \in Nat /\ k + 1 \in 0 .. N /\ k + 1 # 0 /\ (k + 1) - 1 = k /\ k <= N
    BY <1>2
  <2>2. E[k] \in V
    BY <2>1
  <2>3. E[k + 1] = Layer(k + 1, E[k])
    <3> HIDE DEF S
    <3> QED
      BY <1>10, <2>1
  <2> HIDE DEF S, V
  <2> QED
    BY <1>6, <2>2, <2>3
<1>13. S = Nat
  <2>1. S \in SUBSET Nat
    OBVIOUS
  <2> HIDE DEF S
  <2> QED
    BY <1>11, <1>12, <2>1, Induction
<1>14. \A t \in 0 .. N : E[t] \in V
  <2> TAKE t \in 0 .. N
  <2>1. t \in Nat /\ t <= N
    BY <1>2
  <2>2. t \in S
    <3> HIDE DEF S
    <3> QED
      BY <1>13, <2>1
  <2> QED
    BY <2>1, <2>2
<1> HIDE DEF S
<1>15. IsLayered(E, F, base, X)
  <2>1. E = [t \in 0 .. N |-> E[t]]
    <3>1. DOMAIN E = 0 .. N /\ E = [t \in 0 .. N |-> IF t = 0 THEN base ELSE Layer(t, E[t - 1])]
      BY <1>10
    <3> QED
      BY <3>1
  <2>2. \A t \in 0 .. N :
          E[t] = IF t = 0 THEN base
                 ELSE [v \in vertices |-> IF v.time # t THEN E[t - 1][v] ELSE F[v][E[t - 1]]]
    <3> TAKE t \in 0 .. N
    <3>1. E[t] = IF t = 0 THEN base ELSE Layer(t, E[t - 1])
      BY <1>10
    <3>2. t # 0 => t - 1 \in 0 .. N
      BY <1>2
    <3>3. t # 0 => Layer(t, E[t - 1]) = [v \in vertices |-> IF v.time # t THEN E[t - 1][v] ELSE F[v][E[t - 1]]]
      <4>1. t # 0 => E[t - 1] \in V
        BY <1>14, <3>2
      <4> HIDE DEF V
      <4> QED
        BY <1>6, <4>1
    <3> QED
      BY <3>1, <3>3
  <2>3. E \in [0 .. N -> V]
    BY <1>14, <2>1
  <2> QED
    BY <2>2, <2>3 DEF IsLayered
<1>16. /\ E[N] \in [vertices -> X]
       /\ \A v \in vertices : E[N][v] = IF v.time = 0 THEN base[v] ELSE F[v][E[N]]
  <2> HIDE DEF Layers
  <2>1. Settled(E[timeHorizon], F, base, X)
    BY <1>3, <1>5, <1>7, <1>15, LayersAre
  <2> QED
    BY <2>1 DEF Settled
<1> HIDE DEF Layers
<1> TAKE v \in vertices
<1> TAKE path \in WaysTo(v)
<1>17. CASE v.time = 0
  <2>1. path \in base[v]
    <3>1. E[N][v] = base[v]
      BY <1>16, <1>17
    <3> QED
      BY <1>1, <3>1
  <2>2. v = Start /\ path = {}
    BY <1>3, <2>1
  <2> QED
    BY <1>17, <2>2
<1>18. CASE v.time # 0
  <2>1. path \in WaysOf(E[N], v)
    <3>1. E[N][v] = F[v][E[N]]
      BY <1>16, <1>18
    <3> QED
      BY <1>1, <1>5, <1>16, <3>1
  <2>2. PICK e \in Widest(v) : path \in {p \cup {e} : p \in E[N][e.source]}
    BY <2>1 DEF WaysOf
  <2>3. PICK p \in E[N][e.source] : path = p \cup {e}
    BY <2>2
  <2>4. p \in WaysTo(e.source)
    BY <1>1
  <2> QED
    BY <1>0, <1>18, <2>3, <2>4
<1> QED
  BY <1>17, <1>18

\* The ways to a vertex are chains, at least as wide as its entry.
IsWay(path, v) ==
  \E p : Chain(p) /\ EndOf(p) = v /\ Range(p) = path /\ \A e \in path : entries[v] <= width(e)

LEMMA WaysAreChains ==
  ASSUME IInv, BagOfEdges(currentFlow), remainingValue \in Nat
  PROVE  \A v \in vertices : \A path \in WaysTo(v) : IsWay(path, v)
<1> DEFINE S == {k \in Nat : \A v \in vertices : v.time <= k => \A path \in WaysTo(v) : IsWay(path, v)}
<1>1. \A v \in vertices : v.time \in Nat
  BY EdgesAre
<1>2. entries \in [vertices -> Nat]
  BY EntriesAre
<1>3. ASSUME NEW v \in vertices, v.time = 0, NEW path \in WaysTo(v)
      PROVE  IsWay(path, v)
  <2>1. v = Start /\ path = {}
    BY <1>3, WaysAre
  <2>2. Chain(<<>>) /\ EndOf(<<>>) = Start
    <3>1. <<>> \in Seq(edges) /\ Len(<<>>) = 0
      OBVIOUS
    <3> QED
      BY <3>1 DEF Chain, EndOf
  <2>3. Range(<<>>) = {}
    BY <2>2, RangeOfChain
  <2> QED
    BY <2>1, <2>2, <2>3 DEF IsWay
<1>4. ASSUME NEW v \in vertices, v.time # 0, NEW path \in WaysTo(v),
             \A u \in vertices : u.time < v.time => \A q \in WaysTo(u) : IsWay(q, u)
      PROVE  IsWay(path, v)
  <2>1. PICK e \in Incoming(v) : \E q \in WaysTo(e.source) :
               entries[v] = Width(entries, e) /\ path = q \cup {e}
    BY <1>4, WaysAre
  <2>2. PICK q \in WaysTo(e.source) : entries[v] = Width(entries, e) /\ path = q \cup {e}
    BY <2>1
  <2>3. /\ e \in edges /\ e.source.time < v.time /\ e.source \in vertices
        /\ Width(entries, e) <= entries[e.source] /\ Width(entries, e) <= width(e)
    BY <1>2, EntryIs
  <2>4. e.target = v
    BY DEF Incoming
  <2>5. PICK p : Chain(p) /\ EndOf(p) = e.source /\ Range(p) = q /\ \A f \in q : entries[e.source] <= width(f)
    BY <1>4, <2>3 DEF IsWay
  <2>6. Append(p, e) \in Seq(edges) /\ Len(Append(p, e)) = Len(p) + 1 /\ Chain(Append(p, e))
    BY <2>3, <2>5, LongerChain
  <2> DEFINE r == Append(p, e)
             n == Len(p)
  <2>7. /\ n \in Nat /\ r # <<>> /\ r[n + 1] = e /\ Len(r) = n + 1
        /\ \A i \in 1 .. n : r[i] = p[i]
    <3>1. p \in Seq(edges)
      BY <2>5 DEF Chain
    <3> QED
      BY <2>3, <2>6, <3>1
  <2>8. EndOf(r) = v
    <3> HIDE DEF r
    <3>1. r \in Seq(edges)
      BY <2>6 DEF r
    <3>2. EndOf(r) = r[Len(r)].target
      BY <2>7, <3>1, EndOfChain
    <3> QED
      BY <2>4, <2>7, <3>2
  <2>9. Range(r) = path
    <3>1. Range(r) = {r[i] : i \in 1 .. n + 1} /\ Range(p) = {p[i] : i \in 1 .. n}
      <4>1. Range(r) = {r[i] : i \in 1 .. Len(r)} /\ Range(p) = {p[i] : i \in 1 .. n}
        <5> HIDE DEF r, n
        <5>1. Chain(r)
          BY <2>6 DEF r
        <5> QED
          BY <2>5, <5>1, RangeOfChain DEF n
      <4> QED
        BY <2>7, <4>1
    <3> HIDE DEF r, n
    <3>2. \A i \in 1 .. n + 1 : i \in 1 .. n \/ i = n + 1
      BY <2>7
    <3>3. n + 1 \in 1 .. n + 1 /\ \A i \in 1 .. n : i \in 1 .. n + 1
      BY <2>7
    <3>4. {r[i] : i \in 1 .. n + 1} = {p[i] : i \in 1 .. n} \cup {e}
      BY <2>7, <3>2, <3>3
    <3> QED
      BY <2>2, <2>5, <3>1, <3>4
  <2>10. \A f \in path : entries[v] <= width(f)
    <3>1. entries[v] \in Nat /\ entries[e.source] \in Nat
      BY <1>2, <2>3
    <3>2. entries[v] <= entries[e.source] /\ entries[v] <= width(e)
      BY <2>2, <2>3
    <3>3. ASSUME NEW f \in q
          PROVE  entries[v] <= width(f)
      <4>1. entries[e.source] <= width(f) /\ width(f) \in Nat
        BY <2>5, ValueIs DEF width
      <4> QED
        BY <3>1, <3>2, <4>1
    <3> QED
      BY <2>2, <3>2, <3>3
  <2>11. Chain(r)
    BY <2>6
  <2> HIDE DEF r
  <2> QED
    BY <2>8, <2>9, <2>10, <2>11 DEF IsWay
<1>5. 0 \in S
  <2>1. \A v \in vertices : v.time <= 0 => v.time = 0
    BY <1>1
  <2> QED
    BY <1>3, <2>1
<1>6. \A k \in S : k + 1 \in S
  <2> SUFFICES ASSUME NEW k \in S, NEW v \in vertices, v.time <= k + 1, NEW path \in WaysTo(v)
               PROVE  IsWay(path, v)
    OBVIOUS
  <2>1. k \in Nat /\ \A u \in vertices : u.time <= k => \A q \in WaysTo(u) : IsWay(q, u)
    OBVIOUS
  <2> HIDE DEF S
  <2>2. \A u \in vertices : u.time < v.time => u.time <= k
    <3> TAKE u \in vertices
    <3> HAVE u.time < v.time
    <3>1. u.time \in Nat /\ v.time \in Nat
      BY <1>1
    <3>2. \A x, y \in Nat : x < y /\ y <= k + 1 => x <= k
      BY <2>1
    <3> QED
      BY <3>1, <3>2
  <2> QED
    BY <1>3, <1>4, <2>1, <2>2
<1>7. S = Nat
  <2>1. S \in SUBSET Nat
    OBVIOUS
  <2> HIDE DEF S
  <2> QED
    BY <1>5, <1>6, <2>1, Induction
<1> TAKE v \in vertices
<1>8. v.time \in S /\ v.time <= v.time
  <2>1. v.time \in Nat
    BY <1>1
  <2>2. v.time <= v.time
    BY <2>1
  <2> HIDE DEF S
  <2> QED
    BY <1>7, <2>1, <2>2
<1> QED
  BY <1>8

\* Whatever flow enters has an entry.
LEMMA FlowHasEntries ==
  ASSUME IInv, FlowOf(currentFlow, remainingValue)
  PROVE  \A e \in DOMAIN currentFlow : entries[e.target] > 0
<1> DEFINE S == {k \in Nat : \A e \in DOMAIN currentFlow : e.target.time <= k => entries[e.target] > 0}
<1>1. BagOfEdges(currentFlow) /\ remainingValue \in Nat
  BY DEF FlowOf
<1>2. \A e \in DOMAIN currentFlow : /\ e \in edges /\ e.source.time \in Nat /\ e.target.time \in Nat
                                    /\ e.source.time < e.target.time
                                    /\ e.source \in vertices /\ e.target \in vertices
  BY <1>1, EdgesAre DEF BagOfEdges
<1>3. /\ entries \in [vertices -> Nat] /\ entries[Start] = remainingValue
      /\ \A v \in vertices : v.time # 0 => entries[v] = EntryOf(entries, v)
  BY <1>1, EntriesAre
<1>4. ASSUME NEW e \in DOMAIN currentFlow, entries[e.source] > 0
      PROVE  entries[e.target] > 0
  <2>1. e.target.time # 0
    BY <1>2
  <2>2. entries[e.target] = EntryOf(entries, e.target)
    BY <1>2, <1>3, <2>1
  <2>3. e \in Incoming(e.target)
    BY DEF Incoming, BagToSet
  <2>4. /\ EntryOf(entries, e.target) \in Nat
        /\ Width(entries, e) \in Nat /\ Width(entries, e) <= EntryOf(entries, e.target)
        /\ Width(entries, e) > 0
    BY <1>1, <1>3, <1>4, <2>3, EntryIs
  <2> QED
    BY <2>2, <2>4
<1>5. ASSUME NEW e \in DOMAIN currentFlow,
             \A f \in DOMAIN currentFlow : f.target.time < e.target.time => entries[f.target] > 0
      PROVE  entries[e.target] > 0
  <2>1. CASE e.source = Start
    BY <1>3, <1>4, <2>1, FlowGoesOn
  <2>2. CASE e.source # Start
    <3>1. PICK f \in DOMAIN currentFlow : f.target = e.source
      BY <2>2, FlowGoesOn
    <3> QED
      BY <1>2, <1>4, <1>5, <3>1
  <2> QED
    BY <2>1, <2>2
<1>6. 0 \in S
  <2> SUFFICES ASSUME NEW e \in DOMAIN currentFlow, e.target.time <= 0 PROVE FALSE
    OBVIOUS
  <2>1. e.target.time \in Nat /\ e.source.time \in Nat /\ e.source.time < e.target.time
    BY <1>2
  <2> QED
    BY <2>1
<1>7. \A k \in S : k + 1 \in S
  <2> SUFFICES ASSUME NEW k \in S, NEW e \in DOMAIN currentFlow, e.target.time <= k + 1
               PROVE  entries[e.target] > 0
    OBVIOUS
  <2>1. k \in Nat /\ \A f \in DOMAIN currentFlow : f.target.time <= k => entries[f.target] > 0
    OBVIOUS
  <2> HIDE DEF S
  <2>2. \A f \in DOMAIN currentFlow : f.target.time < e.target.time => f.target.time <= k
    <3> TAKE f \in DOMAIN currentFlow
    <3> HAVE f.target.time < e.target.time
    <3>1. f.target.time \in Nat /\ e.target.time \in Nat
      BY <1>2
    <3>2. \A x, y \in Nat : x < y /\ y <= k + 1 => x <= k
      BY <2>1
    <3> QED
      BY <3>1, <3>2
  <2> QED
    BY <1>5, <2>1, <2>2
<1>8. S = Nat
  <2>1. S \in SUBSET Nat
    OBVIOUS
  <2> HIDE DEF S
  <2> QED
    BY <1>6, <1>7, <2>1, Induction
<1> TAKE e \in DOMAIN currentFlow
<1>9. e.target.time \in S /\ e.target.time <= e.target.time
  <2>1. e.target.time \in Nat
    BY <1>2
  <2>2. e.target.time <= e.target.time
    BY <2>1
  <2> HIDE DEF S
  <2> QED
    BY <1>8, <2>1, <2>2
<1> QED
  BY <1>9

\* While there is flow left there is a way home for it.
LEMMA TargetsExist ==
  ASSUME IInv, FlowOf(currentFlow, remainingValue), remainingValue > 0
  PROVE  Targets # {}
<1>1. PICK e \in DOMAIN currentFlow : IsEnd(e.target)
  BY FlowLeadsHome
<1>2. entries[e.target] > 0
  BY FlowHasEntries
<1>3. e \in edges
  BY DEF FlowOf, BagOfEdges
<1>4. e.target \in vertices
  BY <1>3, EdgesAre
<1> QED
  BY <1>1, <1>2, <1>4 DEF Targets

LEMMA TargetIs ==
  ASSUME IInv, Targets # {}
  PROVE  timedTarget \in vertices /\ IsEnd(timedTarget) /\ entries[timedTarget] > 0
<1> DEFINE T == {v.time : v \in Targets}
<1>1. \A v \in Targets : v \in vertices /\ IsEnd(v) /\ entries[v] > 0 /\ v.time \in Nat
  BY EdgesAre DEF Targets
<1>2. T \in SUBSET Nat /\ T # {}
  BY <1>1
<1> HIDE DEF T
<1>3. PICK k \in T : \A m \in T : k <= m
  BY <1>2, LeastExists
<1>4. PICK v \in Targets : v.time = k
  BY <1>3 DEF T
<1>5. \A w \in Targets : v.time <= w.time
  BY <1>3, <1>4 DEF T
<1>6. timedTarget \in Targets
  BY <1>5 DEF timedTarget
<1> QED
  BY <1>1, <1>6

-----------------------------------------------------------------------------
(* The decomposition.                                                      *)

\* What the paths take of an edge, and of the value.
Share(seq, e) == [i \in DOMAIN seq |-> IF e \in seq[i].edges THEN seq[i].value ELSE 0]
Worth(seq) == [i \in DOMAIN seq |-> seq[i].value]

PathRecords == [value : Nat, edges : SUBSET edges]

LEMMA SharesOfMore ==
  ASSUME NEW seq \in Seq(PathRecords), NEW r \in PathRecords
  PROVE  /\ Append(seq, r) \in Seq(PathRecords)
         /\ \A e : /\ Sum(Share(seq, e)) \in Int
                   /\ Sum(Share(Append(seq, r), e)) = (IF e \in r.edges THEN r.value ELSE 0) + Sum(Share(seq, e))
         /\ Sum(Worth(seq)) \in Int /\ Sum(Worth(Append(seq, r))) = r.value + Sum(Worth(seq))
<1> DEFINE n == Len(seq)
           s == Append(seq, r)
<1>1. /\ n \in Nat /\ DOMAIN seq = 1 .. n /\ \A i \in 1 .. n : seq[i] \in PathRecords
      /\ s \in Seq(PathRecords) /\ DOMAIN s = 1 .. n + 1 /\ s[n + 1] = r
      /\ \A i \in 1 .. n : s[i] = seq[i]
  OBVIOUS
<1> HIDE DEF n, s
<1>2. \A i \in 1 .. n + 1 : s[i] \in PathRecords
  <2> TAKE i \in 1 .. n + 1
  <2>1. i \in 1 .. n \/ i = n + 1
    BY <1>1
  <2> QED
    BY <1>1, <2>1
<1>3. \A q \in PathRecords : q.value \in Nat /\ q.value \in Int
  BY DEF PathRecords
<1>4. ASSUME NEW e
      PROVE  /\ Sum(Share(seq, e)) \in Int
             /\ Sum(Share(s, e)) = (IF e \in r.edges THEN r.value ELSE 0) + Sum(Share(seq, e))
  <2> DEFINE f == Share(s, e)
  <2>1. f = [i \in 1 .. n + 1 |-> IF e \in s[i].edges THEN s[i].value ELSE 0]
    BY <1>1 DEF Share
  <2> HIDE DEF f
  <2>2. f \in [1 .. n + 1 -> Int]
    BY <1>2, <1>3, <2>1
  <2>3. Sum([i \in 1 .. n |-> f[i]]) \in Int
        /\ Sum(f) = f[n + 1] + Sum([i \in 1 .. n |-> f[i]])
    BY <1>1, <2>2, SumOfMore
  <2>4. [i \in 1 .. n |-> f[i]] = Share(seq, e)
    <3>1. \A i \in 1 .. n : i \in 1 .. n + 1
      BY <1>1
    <3>2. \A i \in 1 .. n : f[i] = IF e \in seq[i].edges THEN seq[i].value ELSE 0
      BY <1>1, <2>1, <3>1
    <3> QED
      BY <1>1, <3>2 DEF Share
  <2>5. f[n + 1] = IF e \in r.edges THEN r.value ELSE 0
    <3>1. n + 1 \in 1 .. n + 1
      BY <1>1
    <3> QED
      BY <1>1, <2>1, <3>1
  <2> QED
    BY <2>3, <2>4, <2>5 DEF f
<1>5. Sum(Worth(seq)) \in Int /\ Sum(Worth(s)) = r.value + Sum(Worth(seq))
  <2> DEFINE f == Worth(s)
  <2>1. f = [i \in 1 .. n + 1 |-> s[i].value]
    BY <1>1 DEF Worth
  <2> HIDE DEF f
  <2>2. f \in [1 .. n + 1 -> Int]
    BY <1>2, <1>3, <2>1
  <2>3. Sum([i \in 1 .. n |-> f[i]]) \in Int
        /\ Sum(f) = f[n + 1] + Sum([i \in 1 .. n |-> f[i]])
    BY <1>1, <2>2, SumOfMore
  <2>4. [i \in 1 .. n |-> f[i]] = Worth(seq)
    <3>1. \A i \in 1 .. n : i \in 1 .. n + 1
      BY <1>1
    <3>2. \A i \in 1 .. n : f[i] = seq[i].value
      BY <1>1, <2>1, <3>1
    <3> QED
      BY <1>1, <3>2 DEF Worth
  <2>5. f[n + 1] = r.value
    <3>1. n + 1 \in 1 .. n + 1
      BY <1>1
    <3> QED
      BY <1>1, <2>1, <3>1
  <2> QED
    BY <2>3, <2>4, <2>5 DEF f
<1> QED
  BY <1>1, <1>4, <1>5 DEF s

\* What is left is a flow, and the paths have the rest.
MadeUp(b, n, seq) ==
  /\ FlowOf(b, n) /\ seq \in Seq(PathRecords)
  /\ \A e \in edges : Value(flow, e) = Value(b, e) + Sum(Share(seq, e))
  /\ n + Sum(Worth(seq)) = Units

LEMMA NothingIsTaken ==
  ASSUME FlowOf(flow, Units)
  PROVE  MadeUp(flow, Units, <<>>)
<1>1. <<>> \in Seq(PathRecords) /\ DOMAIN <<>> = {}
  OBVIOUS
<1>2. \A f : DOMAIN f = {} /\ f \in [{} -> Nat] => Sum(f) = 0
  <2> TAKE f
  <2> HAVE DOMAIN f = {} /\ f \in [{} -> Nat]
  <2>1. IsFiniteSet({})
    BY FS_EmptySet
  <2> QED
    BY <2>1, SumTells
<1>3. \A e : Sum(Share(<<>>, e)) = 0
  <2> TAKE e
  <2>1. DOMAIN Share(<<>>, e) = {} /\ Share(<<>>, e) \in [{} -> Nat]
    BY <1>1 DEF Share
  <2> QED
    BY <1>2, <2>1
<1>4. Sum(Worth(<<>>)) = 0
  <2>1. DOMAIN Worth(<<>>) = {} /\ Worth(<<>>) \in [{} -> Nat]
    BY <1>1 DEF Worth
  <2> QED
    BY <1>2, <2>1
<1>5. Units \in Nat /\ \A e : Value(flow, e) \in Nat
  <2>1. BagOfEdges(flow) /\ Units \in Nat
    BY DEF FlowOf
  <2> QED
    BY <2>1, ValueIs
<1>6. \A e \in edges : Value(flow, e) = Value(flow, e) + Sum(Share(<<>>, e))
  <2> TAKE e \in edges
  <2>1. Value(flow, e) \in Nat /\ Sum(Share(<<>>, e)) = 0
    BY <1>3, <1>5
  <2> QED
    BY <2>1
<1>7. Units + Sum(Worth(<<>>)) = Units
  BY <1>4, <1>5
<1> QED
  BY <1>1, <1>6, <1>7 DEF MadeUp

\* A path that is taken is a flow, no edge of which gives more than it has.
LEMMA ExtractTakes ==
  ASSUME IInv, MadeUp(currentFlow, remainingValue, paths), Extract
  PROVE  MadeUp(currentFlow', remainingValue', paths')
<1>1. /\ FlowOf(currentFlow, remainingValue) /\ paths \in Seq(PathRecords)
      /\ \A e \in edges : Value(flow, e) = Value(currentFlow, e) + Sum(Share(paths, e))
      /\ remainingValue + Sum(Worth(paths)) = Units
  BY DEF MadeUp
<1>2. BagOfEdges(currentFlow) /\ remainingValue \in Nat
  BY <1>1 DEF FlowOf
<1> DEFINE value == entries[timedTarget]
<1>3. PICK path \in WaysTo(timedTarget) :
        /\ currentFlow' = Removed(path, value)
        /\ paths' = Append(paths, [value |-> value, edges |-> path])
        /\ remainingValue' = remainingValue - value
  BY DEF Extract
<1>4. timedTarget \in vertices /\ IsEnd(timedTarget) /\ value > 0
  <2>1. Targets # {}
    BY DEF Extract
  <2> QED
    BY <2>1, TargetIs
<1>5. value \in Nat \ {0}
  <2>1. entries \in [vertices -> Nat]
    BY <1>2, EntriesAre
  <2>2. value \in Nat
    BY <1>4, <2>1
  <2> HIDE DEF value
  <2> QED
    BY <1>4, <2>2
<1>6. PICK p : Chain(p) /\ EndOf(p) = timedTarget /\ Range(p) = path /\ \A e \in path : value <= width(e)
  <2>1. IsWay(path, timedTarget)
    BY <1>2, <1>3, <1>4, WaysAreChains
  <2> QED
    BY <2>1 DEF IsWay
<1>7. p \in Routes
  <2>1. p \in Seq(edges) /\ Len(p) \in Nat
    BY <1>6 DEF Chain
  <2>2. p # <<>>
    <3>1. ~ IsEnd(Start)
      BY DEF Start, IsEnd
    <3> QED
      BY <1>4, <1>6, <3>1 DEF EndOf
  <2>3. Len(p) \in 1 .. Len(p) /\ p[Len(p)].target = timedTarget
    BY <1>6, <2>1, <2>2, EndOfChain
  <2>4. Len(p) <= p[Len(p)].target.time /\ p[Len(p)].target.time \in Nat
        /\ p[Len(p)].target.time <= timeHorizon
    BY <1>6, <2>3, TimePasses, EdgesOfChain
  <2>5. Len(p) <= timeHorizon
    <3>1. timeHorizon \in Nat
      BY EdgesAre
    <3> QED
      BY <2>1, <2>4, <3>1
  <2> QED
    BY <1>4, <1>6, <2>1, <2>2, <2>3, <2>5 DEF Routes
<1> HIDE DEF value
<1> DEFINE taken == Copies(path, value)
<1>8. path \in SUBSET edges
  <2>1. Range(p) = {p[i] : i \in 1 .. Len(p)} /\ \A i \in 1 .. Len(p) : p[i] \in edges
    BY <1>6, RangeOfChain, EdgesOfChain
  <2> QED
    BY <1>6, <2>1
<1>9. FlowOf(taken, value) /\ BagOfEdges(taken)
  <2>1. FlowOf(Copies(Range(p), value), value)
    BY <1>5, <1>7, RouteIsFlow
  <2> QED
    BY <1>6, <2>1 DEF FlowOf
<1>10. \A e : Value(taken, e) = IF e \in path THEN value ELSE 0
  BY <1>5, <1>8, CopiesAre
<1>11. currentFlow' = currentFlow (-) taken
  BY <1>3 DEF Removed
<1> HIDE DEF taken
<1>12. \A e : Value(taken, e) <= Value(currentFlow, e)
  <2> TAKE e
  <2>1. Value(currentFlow, e) \in Nat
    BY <1>2, ValueIs
  <2>2. CASE e \in path
    <3>1. value <= Value(currentFlow, e)
      BY <1>6, <2>2 DEF width
    <3> QED
      BY <1>10, <2>2, <3>1
  <2>3. CASE e \notin path
    BY <1>10, <2>1, <2>3
  <2> QED
    BY <2>2, <2>3
<1>13. /\ BagOfEdges(currentFlow (-) taken)
       /\ \A e : Value(currentFlow, e) = Value(taken, e) + Value(currentFlow (-) taken, e)
  BY <1>2, <1>9, <1>12, BagsSubtract
<1> DEFINE left == currentFlow (-) taken
           rest == remainingValue - value
           record == [value |-> value, edges |-> path]
           more == Append(paths, record)
<1>14. currentFlow' = left /\ remainingValue' = rest /\ paths' = more
  BY <1>3, <1>11
<1>15. BagOfEdges(left) /\ \A e : Value(currentFlow, e) = Value(taken, e) + Value(left, e)
  BY <1>13
<1> HIDE DEF left
<1>16. FlowOf(left, rest) /\ value <= remainingValue
  BY <1>1, <1>2, <1>9, <1>15, FlowsAdd
<1>17. record \in PathRecords /\ record.edges = path /\ record.value = value
  BY <1>5, <1>8 DEF PathRecords
<1> HIDE DEF record
<1>18. /\ more \in Seq(PathRecords)
       /\ \A e : /\ Sum(Share(paths, e)) \in Int
                 /\ Sum(Share(more, e)) = (IF e \in path THEN value ELSE 0) + Sum(Share(paths, e))
       /\ Sum(Worth(paths)) \in Int /\ Sum(Worth(more)) = value + Sum(Worth(paths))
  BY <1>1, <1>17, SharesOfMore
<1> HIDE DEF more
<1>19. \A e \in edges : Value(flow, e) = Value(left, e) + Sum(Share(more, e))
  <2> TAKE e \in edges
  <2>1. /\ Value(flow, e) = Value(currentFlow, e) + Sum(Share(paths, e))
        /\ Value(currentFlow, e) = Value(taken, e) + Value(left, e)
        /\ Sum(Share(more, e)) = Value(taken, e) + Sum(Share(paths, e))
    BY <1>1, <1>10, <1>15, <1>18
  <2>2. Value(taken, e) \in Nat /\ Value(left, e) \in Nat /\ Sum(Share(paths, e)) \in Int
    BY <1>9, <1>15, <1>18, ValueIs
  <2> QED
    BY <2>1, <2>2
<1>20. rest + Sum(Worth(more)) = Units
  BY <1>1, <1>2, <1>5, <1>18
<1>21. MadeUp(left, rest, more)
  BY <1>16, <1>18, <1>19, <1>20 DEF MadeUp
<1> QED
  BY <1>14, <1>21

DInv ==
  /\ AInv
  /\ phase = "expand" => paths = <<>>
  /\ phase # "expand" => \A b \in points : FlowOf(b, Units)
  /\ phase = "separate" => FlowOf(flow, Units)
  /\ phase = "decompose" \/ paths # <<>> => MadeUp(currentFlow, remainingValue, paths)

\* When the network is not touched, flows stay flows.
LEMMA FlowsStay ==
  ASSUME UNCHANGED expansionVars
  PROVE  /\ \A b \in points' : FlowOf(b, Units) => FlowOf(b, Units)'
         /\ FlowOf(flow', Units) => FlowOf(flow, Units)'
         /\ flow' = flow /\ MadeUp(currentFlow', remainingValue', paths')
              => MadeUp(currentFlow, remainingValue, paths)'
<1>1. edges' = edges /\ vertices' = vertices
  BY DEF expansionVars, graph
<1>2. (\A v : Outof(v)' = Outof(v) /\ Into(v)' = Into(v)) /\ PathRecords' = PathRecords
  BY <1>1 DEF Outof, Into, PathRecords
<1>3. \A b \in points' : FlowOf(b, Units) => FlowOf(b, Units)'
  BY <1>1, <1>2 DEF FlowOf, BagOfEdges, Amount
<1>4. FlowOf(flow', Units) => FlowOf(flow, Units)'
  BY <1>1, <1>2 DEF FlowOf, BagOfEdges, Amount
<1>5. FlowOf(currentFlow', remainingValue') => FlowOf(currentFlow, remainingValue)'
  BY <1>1, <1>2 DEF FlowOf, BagOfEdges, Amount
<1>6. flow' = flow /\ MadeUp(currentFlow', remainingValue', paths')
        => MadeUp(currentFlow, remainingValue, paths)'
  BY <1>1, <1>2, <1>5 DEF MadeUp
<1> QED
  BY <1>3, <1>4, <1>6

LEMMA InitDInv == Init0 => DInv
<1> SUFFICES ASSUME Init0 PROVE DInv
  OBVIOUS
<1>1. phase = "expand" /\ paths = <<>>
  BY DEF Init0, DInit
<1> QED
  BY <1>1, InitAInv DEF DInv

\* Whatever leaves the network and the points alone keeps the invariant, if what is
\* separated is a flow and what is taken apart is made up.
LEMMA DecompositionStays ==
  ASSUME DInv, AInv', UNCHANGED <<expansionVars, points>>, phase # "expand", phase' # "expand",
         phase' = "separate" => FlowOf(flow', Units),
         phase' = "decompose" \/ paths' # <<>> => flow' = flow /\ MadeUp(currentFlow', remainingValue', paths')
  PROVE  DInv'
<1>1. \A b \in points : FlowOf(b, Units)
  BY DEF DInv
<1>2. (\A b \in points : FlowOf(b, Units))'
  BY <1>1, FlowsStay
<1>3. (phase = "separate" => FlowOf(flow, Units))'
  BY FlowsStay
<1>4. (phase = "decompose" \/ paths # <<>> => MadeUp(currentFlow, remainingValue, paths))'
  BY FlowsStay
<1> QED
  BY <1>2, <1>3, <1>4 DEF DInv

LEMMA NextDInv ==
  ASSUME DInv, ANext
  PROVE  DInv'
<1>1. AInv /\ AInv' /\ IInv
  <2>1. AInv
    BY DEF DInv
  <2> QED
    BY <2>1, NextAInv DEF AInv
<1>2. CASE Create
  <2>1. phase = "expand" /\ phase' = "expand" /\ paths' = paths
    BY <1>2 DEF Create, scipVars, decompositionVars
  <2> QED
    BY <1>1, <2>1 DEF DInv
<1>3. CASE createProgram
  <2>1. phase = "expand" /\ phase' = "created" /\ paths' = paths /\ UNCHANGED expansionVars
    BY <1>3 DEF createProgram, decompositionVars
  <2>2. \A b \in points' : FlowOf(b, Units)
    BY <1>1, <1>3, PointsAre
  <2>3. (\A b \in points : FlowOf(b, Units))'
    BY <2>1, <2>2, FlowsStay
  <2>4. paths' = <<>>
    BY <2>1 DEF DInv
  <2> QED
    BY <1>1, <2>1, <2>3, <2>4 DEF DInv
<1>4. ASSUME phase # "expand", phase' = "lp", UNCHANGED <<expansionVars, points, decompositionVars>>
      PROVE  DInv'
  <2>1. UNCHANGED <<flow, currentFlow, remainingValue, paths>>
    BY <1>4 DEF decompositionVars
  <2>2. paths' # <<>> => flow' = flow /\ MadeUp(currentFlow', remainingValue', paths')
    BY <2>1 DEF DInv
  <2> QED
    BY <1>1, <1>4, <2>2, DecompositionStays
<1>5. CASE addInitialSolution
  BY <1>4, <1>5 DEF addInitialSolution, program
<1>6. CASE SolveLP
  <2>1. phase = "lp" /\ phase' = "separate" /\ flow' \in points /\ paths' = <<>>
        /\ UNCHANGED <<expansionVars, points>>
    BY <1>6 DEF SolveLP, program
  <2>2. FlowOf(flow', Units)
    BY <2>1 DEF DInv
  <2> QED
    BY <1>1, <2>1, <2>2, DecompositionStays
<1>7. CASE \E name \in separators : Separate(name)
  BY <1>4, <1>7 DEF Separate, Separated, program
<1>8. CASE StartDecomposition
  <2>1. /\ phase = "separate" /\ phase' = "decompose" /\ UNCHANGED <<expansionVars, points>>
        /\ flow' = flow /\ currentFlow' = flow /\ remainingValue' = Units /\ paths' = <<>>
    BY <1>8 DEF StartDecomposition, Decompose, program
  <2>2. MadeUp(flow, Units, <<>>)
    BY <2>1, NothingIsTaken DEF DInv
  <2> QED
    BY <1>1, <2>1, <2>2, DecompositionStays
<1>9. CASE DecompositionStep
  <2>1. /\ phase = "decompose" /\ phase' = "decompose" /\ UNCHANGED <<expansionVars, points>>
        /\ Extract /\ flow' = flow
    BY <1>9 DEF DecompositionStep, Extract, scipVars, program
  <2>2. MadeUp(currentFlow', remainingValue', paths')
    BY <1>1, <2>1, ExtractTakes DEF DInv
  <2> QED
    BY <1>1, <2>1, <2>2, DecompositionStays
<1>10. CASE SeparateCycles
  BY <1>4, <1>10 DEF SeparateCycles, Separated, program
<1>11. CASE Solve
  <2>1. phase = "lp" /\ phase' = "solved" /\ paths' = <<>> /\ UNCHANGED <<expansionVars, points>>
    BY <1>11 DEF Solve, program
  <2> QED
    BY <1>1, <2>1, DecompositionStays
<1> QED
  BY <1>2, <1>3, <1>5, <1>6, <1>7, <1>8, <1>9, <1>10, <1>11 DEF ANext

LEMMA StutterDInv ==
  ASSUME DInv, UNCHANGED vars
  PROVE  DInv'
<1>1. UNCHANGED <<expansionVars, phase, points, flow, currentFlow, remainingValue, paths>>
  BY DEF vars, scipVars, program, decompositionVars
<1>2. AInv'
  BY StutterAInv DEF DInv
<1>3. CASE phase = "expand"
  BY <1>1, <1>2, <1>3 DEF DInv
<1>4. CASE phase # "expand"
  <2>1. /\ phase' = "separate" => FlowOf(flow', Units)
        /\ phase' = "decompose" \/ paths' # <<>> => flow' = flow /\ MadeUp(currentFlow', remainingValue', paths')
    BY <1>1 DEF DInv
  <2> QED
    BY <1>1, <1>2, <1>4, <2>1, DecompositionStays
<1> QED
  BY <1>3, <1>4

\* What has been taken and what is left make up the flow; while some of it is left,
\* there is a way home for it.
LEMMA FlowIsMadeUp ==
  ASSUME DInv
  PROVE  PathsMakeUpFlow
<1> SUFFICES ASSUME paths # <<>>
             PROVE  /\ \A e \in edges : Value(flow, e) = width(e) + Sum(Share(paths, e))
                    /\ remainingValue + Sum(Worth(paths)) = Units
                    /\ IF remainingValue > 0 THEN Targets # {} ELSE currentFlow = EmptyBag
  BY DEF PathsMakeUpFlow, Share, Worth
<1>1. IInv /\ MadeUp(currentFlow, remainingValue, paths)
  BY DEF DInv, AInv
<1>2. FlowOf(currentFlow, remainingValue) /\ remainingValue \in Nat
  BY <1>1 DEF MadeUp, FlowOf
<1>3. CASE remainingValue > 0
  BY <1>1, <1>2, <1>3, TargetsExist DEF MadeUp, width
<1>4. CASE ~ (remainingValue > 0)
  <2>1. remainingValue = 0
    BY <1>2, <1>4
  <2>2. currentFlow = EmptyBag
    BY <1>1, <1>2, <2>1, NoFlow
  <2> QED
    BY <1>1, <1>4, <2>2 DEF MadeUp, width
<1> QED
  BY <1>3, <1>4

\* However many paths share an edge: what they take of it and what is left of it are
\* what the relaxation has given it, and the loop that takes the widest of them does
\* not end before all of the flow is taken; that it "disappears" can only be due to
\* rounding (pathDecomposition).
THEOREM PathsAlwaysMakeUpFlow == ASpec => []PathsMakeUpFlow
<1>1. DInv /\ [ANext]_vars => DInv'
  BY NextDInv, StutterDInv
<1>2. DInv => PathsMakeUpFlow
  BY FlowIsMadeUp
<1> QED
  BY <1>1, <1>2, InitDInv, PTL DEF ASpec
=============================================================================
