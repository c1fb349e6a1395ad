---------------------------- MODULE SearchesProofs ----------------------------
(***************************************************************************)
(* Proofs about the two searches: for every graph, every first-in-first-   *)
(* out cost function and every query the time-dependent one finds the      *)
(* earliest arrival and a path that has it; for every finite graph and all *)
(* costs the bidirectional one finds a shortest path within the bound, or  *)
(* says rightly that there is none.                                        *)
(***************************************************************************)
EXTENDS Searches, FiniteSetTheorems, WellFoundedInduction, TLAPS

\* Induction by sets of numbers, with the least one that is not in it.
LEMMA Induction ==
  ASSUME NEW S \in SUBSET Nat, 0 \in S, \A n \in S : n + 1 \in S
  PROVE  S = Nat
<1>. DEFINE T == Nat \ S
<1>. SUFFICES ASSUME T # {} PROVE FALSE
  OBVIOUS
<1>1. PICK n \in T : \A m \in T : ~ (<<m, n>> \in OpToRel(<, Nat))
  <2>1. T \subseteq Nat
    OBVIOUS
  <2>. HIDE DEF T
  <2>. QED
    BY <2>1, NatLessThanWellFounded, WFMin
<1>2. \A m \in T : ~ (m < n)
  BY <1>1 DEF OpToRel
<1>3. n # 0 /\ n - 1 \in Nat /\ n - 1 < n /\ (n - 1) + 1 = n
  OBVIOUS
<1>. QED
  BY <1>2, <1>3

-----------------------------------------------------------------------------
(* The time-dependent search.                                              *)

\* What is left to say about the control flow for the invariant to be
\* inductive: which vertex was settled last, and why the loop was left.
Phase ==
  /\ ~ Unknown(query.source) /\ Cost(query.source) <= query.departure
  /\ \/ Settled(current)
     \/ /\ pc = "search" /\ pending = {}
        /\ query.source \in DOMAIN heap
        /\ \A u \in Vertices : ~ Settled(u)
  /\ \A u \in Vertices : Settled(u) => Cost(u) <= Cost(current)
  /\ \A e \in pending : e \in query.allowed /\ Source[e] = current
  /\ pc = "search" => ~ Settled(query.target)
  /\ pc \in {"trace", "found"} => current = query.target
  /\ pc = "search" => at = query.target
  /\ pc = "trace" => Settled(at)
  /\ Settled(current) /\ pc # "notFound" => ~ LimitHit
  /\ pc = "notFound" => current = query.target \/ ~ Settled(query.target)
  /\ pc = "notFound" /\ ~ LimitHit =>
       pending = {} /\ DOMAIN heap = {} /\ ~ Settled(query.target)

IInv == TypeOK /\ HeapCoherent /\ LabelTree /\ SettleOrder /\ Closed /\ Phase

\* What the walk back has built so far: the end of a journey that is at every
\* vertex exactly when its label says.
Traced ==
  /\ \A v \in Vertices : ~ Unknown(v) => query.departure <= Cost(v)
  /\ pc = "search" => path = <<>>
  /\ pc \in {"trace", "found"} =>
       /\ Connects(path, at, query.target)
       /\ \A i \in 1 .. Len(path) :
            /\ path[i] \in query.allowed
            /\ Cost(Source[path[i]]) \in Times
            /\ Cost(Target[path[i]])
                 = Cost(Source[path[i]]) + costs[path[i]][Cost(Source[path[i]])]
  /\ pc = "found" => at = query.source

\* How far the rival can have come once the call has answered.
RivalBehind ==
  /\ pc \notin Outcome => pos = query.source /\ clock = query.departure
  /\ pc \in Outcome \ {"outOfRange"} =>
       IF Settled(pos) /\ ~ (pos = current /\ LeftEarly)
       THEN clock >= Cost(pos)
       ELSE clock >= Cost(current) /\ LeftEarly

USE DEF Cost, Unknown, Settled, State, Label, Outcome

-----------------------------------------------------------------------------
\* The arguments of a call have the types the assumptions give them.
LEMMA ArgTypes ==
  ASSUME TypeOK
  PROVE  /\ costs \in [Edges -> [Times -> Nat]] /\ FIFO(costs)
         /\ query \in Query
         /\ query.source \in Vertices /\ query.target \in Vertices
         /\ query.departure \in Nat /\ query.departure \in Times /\ query.bound \in Nat
         /\ query.allowed \subseteq Edges
         /\ \A v \in Vertices : Cost(v) \in Nat
         /\ \A e \in Edges : Source[e] \in Vertices /\ Target[e] \in Vertices
<1>1. costs \in [Edges -> [Times -> Nat]] /\ FIFO(costs)
  BY CostAssumption DEF TypeOK
<1>2. query \in Query
  BY QueryAssumption DEF TypeOK
<1>3. \A v \in Vertices : Cost(v) \in Nat
  BY DEF TypeOK, LabelTypeOK
<1>4. \A e \in Edges : Source[e] \in Vertices /\ Target[e] \in Vertices
  BY GraphAssumption
<1>. QED
  BY <1>1, <1>2, <1>3, <1>4, GraphAssumption DEF Query, Times

\* What update() does to the queue: settled labels stay as they are, no label
\* gets dearer, and the new label is either taken or was not needed.
LEMMA UpdateLemma ==
  ASSUME LabelTypeOK, HeapCoherent,
         NEW v \in Vertices, NEW c \in Nat, NEW e \in Edges, Update(v, c, e)
  PROVE  /\ LabelTypeOK' /\ HeapCoherent'
         /\ \A u \in Vertices : Settled(u)' <=> Settled(u)
         /\ \A u \in Vertices : Settled(u) => Cost(u)' = Cost(u)
         /\ \A u \in Vertices : ~ Unknown(u) => ~ Unknown(u)' /\ Cost(u)' <= Cost(u)
         /\ ~ Unknown(v)'
         /\ ~ Settled(v) => Cost(v)' <= c
         /\ \A u \in DOMAIN heap' : \/ u \in DOMAIN heap /\ heap'[u] = heap[u]
                                    \/ u = v /\ heap'[u] = c
         /\ DOMAIN heap \subseteq DOMAIN heap'
         /\ \A u \in Vertices : u # v => labels'[u] = labels[u]
         /\ \/ labels'[v] = labels[v]
            \/ labels'[v] = [cost |-> c, edge |-> e, state |-> "LABELED"]
<1>1. CASE Accepts(v, c)
  <2>1. /\ labels' = [labels EXCEPT ![v] = [cost |-> c, edge |-> e, state |-> "LABELED"]]
        /\ heap' = [w \in DOMAIN heap \cup {v} |-> IF w = v THEN c ELSE heap[w]]
    BY <1>1 DEF Update
  <2>2. LabelTypeOK'
    BY <2>1 DEF LabelTypeOK
  <2>3. HeapCoherent'
    BY <2>1, <1>1 DEF HeapCoherent, LabelTypeOK, Accepts
  <2>. QED
    BY <2>1, <2>2, <2>3, <1>1 DEF LabelTypeOK, Accepts, HeapCoherent
<1>2. CASE ~ Accepts(v, c)
  <2>1. UNCHANGED heapVars
    BY <1>2 DEF Update
  <2>. QED
    BY <2>1, <1>2 DEF heapVars, Accepts, LabelTypeOK, HeapCoherent
<1>. QED
  BY <1>1, <1>2

\* What extractMin() does: a cheapest label is settled, no cost changes.
LEMMA ExtractLemma ==
  ASSUME LabelTypeOK, HeapCoherent, NEW v \in Vertices, ExtractMin(v)
  PROVE  /\ LabelTypeOK' /\ HeapCoherent'
         /\ labels[v].state = "LABELED" /\ Settled(v)'
         /\ \A u \in Vertices : u # v => labels'[u] = labels[u]
         /\ \A u \in Vertices : Cost(u)' = Cost(u) /\ labels'[u].edge = labels[u].edge
         /\ \A u \in Vertices : Unknown(u)' => Unknown(u)
         /\ \A u \in DOMAIN heap' : u \in DOMAIN heap /\ heap'[u] = heap[u]
         /\ \A u \in DOMAIN heap : Cost(v) <= heap[u]
         /\ Cost(v) = heap[v] /\ v \in DOMAIN heap
<1>1. /\ heap' = [w \in DOMAIN heap \ {v} |-> heap[w]]
      /\ v \in DOMAIN heap /\ \A w \in DOMAIN heap : heap[v] <= heap[w]
  BY DEF ExtractMin, Top
<1>2. labels[v].state = "LABELED" /\ heap[v] = labels[v].cost
  BY <1>1 DEF HeapCoherent
<1>3. labels' = [labels EXCEPT ![v] = [cost |-> labels[v].cost, edge |-> labels[v].edge,
                                       state |-> "SETTLED"]]
  BY DEF ExtractMin
<1>4. LabelTypeOK'
  BY <1>1, <1>3 DEF LabelTypeOK
<1>5. HeapCoherent'
  BY <1>1, <1>2, <1>3 DEF HeapCoherent, LabelTypeOK
<1>. QED
  BY <1>1, <1>2, <1>3, <1>4, <1>5 DEF LabelTypeOK

-----------------------------------------------------------------------------
LEMMA InitInv == Init => IInv
<1>. SUFFICES ASSUME Init PROVE IInv
  OBVIOUS
<1>1. query \in Query /\ query.source \in Vertices /\ query.target \in Vertices
      /\ query.departure \in Nat
  BY QueryAssumption, GraphAssumption DEF Init, Query, Times
<1>2. TypeOK
  BY <1>1, InfAssumption DEF Init, RootedAt, TypeOK, LabelTypeOK
<1>3. HeapCoherent
  BY <1>1 DEF Init, RootedAt, HeapCoherent
<1>4. \A u \in Vertices : ~ Settled(u)
  BY DEF Init, RootedAt
<1>5. SettleOrder /\ Closed
  BY <1>1, <1>4, GraphAssumption DEF SettleOrder, Closed, Query
<1>6. Phase
  BY <1>1, <1>4 DEF Init, RootedAt, Phase
<1>7. LabelTree
  BY <1>1 DEF Init, RootedAt, LabelTree
<1>. QED
  BY <1>2, <1>3, <1>5, <1>6, <1>7 DEF IInv

\* One iteration of the search loop, up to the loop over the edges.
LEMMA ExtractInv ==
  ASSUME IInv, NEW v \in Vertices, Extract(v)
  PROVE  IInv'
<1>. USE DEF IInv
<1>1. /\ LabelTypeOK' /\ HeapCoherent'
      /\ labels[v].state = "LABELED" /\ Settled(v)'
      /\ \A u \in Vertices : u # v => labels'[u] = labels[u]
      /\ \A u \in Vertices : Cost(u)' = Cost(u) /\ labels'[u].edge = labels[u].edge
      /\ \A u \in Vertices : Unknown(u)' => Unknown(u)
      /\ \A u \in DOMAIN heap' : u \in DOMAIN heap /\ heap'[u] = heap[u]
      /\ \A u \in DOMAIN heap : Cost(v) <= heap[u]
      /\ Cost(v) = heap[v] /\ v \in DOMAIN heap
  BY ExtractLemma DEF Extract, TypeOK
<1>2. /\ pc = "search" /\ pending = {} /\ current' = v
      /\ UNCHANGED <<costs, query, at, path>>
      /\ LET exceeded == bounded /\ labels[v].cost > query.bound
         IN  \/ exceeded /\ pc' = "notFound" /\ pending' = {}
             \/ ~ exceeded /\ v = query.target /\ pc' = "trace" /\ pending' = {}
             \/ ~ exceeded /\ v # query.target /\ pc' = "search" /\ pending' = Outgoing(v)
  BY DEF Extract
<1>3. TypeOK'
  BY <1>1, <1>2, ArgTypes DEF TypeOK, Outgoing
<1>4. LimitHit' <=> bounded /\ labels[v].cost > query.bound
  BY <1>1, <1>2 DEF LimitHit, bounded
<1>5. \A u \in Vertices : Settled(u) => Cost(u) <= Cost(v)
  BY <1>1 DEF SettleOrder
<1>6. \A u \in Vertices : Settled(u)' <=> Settled(u) \/ u = v
  BY <1>1
<1>7. SettleOrder'
  BY <1>1, <1>5, <1>6, ArgTypes DEF SettleOrder
<1>8. Closed'
  <2>. SUFFICES ASSUME NEW e \in query.allowed, Settled(Source[e])',
                       ~ (Source[e] = v /\ (e \in pending' \/ LeftEarly'))
                PROVE  /\ ~ Unknown(Target[e])'
                       /\ Cost(Source[e])' \in Times
                       /\ Cost(Target[e])' <= Cost(Source[e])' + costs[e][Cost(Source[e])']
    BY <1>2 DEF Closed
  <2>1. e \in Edges /\ Source[e] \in Vertices /\ Target[e] \in Vertices
    BY ArgTypes
  <2>2. Source[e] # v
    BY <1>2, <1>4, <2>1 DEF LeftEarly, Outgoing
  <2>3. Settled(Source[e]) /\ ~ LeftEarly
    BY <1>2, <1>6, <2>1, <2>2 DEF LeftEarly
  <2>4. /\ ~ Unknown(Target[e]) /\ Cost(Source[e]) \in Times
        /\ Cost(Target[e]) <= Cost(Source[e]) + costs[e][Cost(Source[e])]
    BY <1>2, <2>3 DEF Closed
  <2>. QED
    BY <1>1, <2>1, <2>4
<1>9. Phase'
  <2>1. ~ Unknown(query.source)' /\ Cost(query.source)' <= query'.departure
    BY <1>1, <1>2, ArgTypes DEF Phase
  <2>2. Settled(current)'
    BY <1>1, <1>2
  <2>3. \A u \in Vertices : Settled(u)' => Cost(u)' <= Cost(current)'
    BY <1>1, <1>2, <1>5, <1>6, ArgTypes
  <2>4. \A e \in pending' : e \in query.allowed /\ Source[e] = v
    BY <1>2 DEF Outgoing
  <2>5. ~ Settled(query.target) /\ query.target \in Vertices
    BY <1>2, ArgTypes DEF Phase
  <2>6. /\ pc' = "search" => ~ Settled(query.target)'
        /\ pc' \in {"trace", "found"} => v = query.target
        /\ pc' # "notFound" => ~ LimitHit'
        /\ pc' = "notFound" => LimitHit'
        /\ v = query.target \/ ~ Settled(query.target)'
    BY <1>2, <1>4, <1>6, <2>5
  <2>7. pc' = "search" => at' = query.target
    BY <1>2 DEF Phase
  <2>8. pc' = "trace" => Settled(at)'
    BY <1>1, <1>2 DEF Phase
  <2>. QED
    BY <1>2, <2>1, <2>2, <2>3, <2>4, <2>6, <2>7, <2>8 DEF Phase
<1>10. LabelTree'
  <2>. SUFFICES ASSUME NEW u \in Vertices, ~ Unknown(u)', ~ (u = query.source /\ Cost(u)' = query.departure)
                PROVE  Derived(u)'
    BY <1>2 DEF LabelTree
  <2>1. Derived(u)
    BY <1>1 DEF LabelTree
  <2>. QED
    BY <1>1, <1>2, <1>6, <2>1, ArgTypes DEF Derived
<1>. QED
  BY <1>1, <1>3, <1>7, <1>8, <1>9, <1>10

\* One iteration of the loop over the outgoing edges.
LEMMA RelaxInv ==
  ASSUME IInv, NEW e \in Edges, Relax(e)
  PROVE  IInv'
<1>. USE DEF IInv
<1>. DEFINE now == Cost(current)
            c   == now + costs[e][now]
            w   == Target[e]
<1>1. /\ pc = "search" /\ e \in pending /\ now \in Times
      /\ Update(w, c, e)
      /\ pending' = pending \ {e}
      /\ UNCHANGED <<costs, query, pc, current, at, path>>
  BY DEF Relax
<1>2. /\ w \in Vertices /\ current \in Vertices /\ now \in Nat
      /\ costs[e][now] \in Nat /\ c \in Nat /\ now <= c
  BY <1>1, ArgTypes DEF TypeOK
<1>3. /\ LabelTypeOK' /\ HeapCoherent'
      /\ \A u \in Vertices : Settled(u)' <=> Settled(u)
      /\ \A u \in Vertices : Settled(u) => Cost(u)' = Cost(u)
      /\ \A u \in Vertices : ~ Unknown(u) => ~ Unknown(u)' /\ Cost(u)' <= Cost(u)
      /\ ~ Unknown(w)'
      /\ ~ Settled(w) => Cost(w)' <= c
      /\ \A u \in DOMAIN heap' : \/ u \in DOMAIN heap /\ heap'[u] = heap[u]
                                 \/ u = w /\ heap'[u] = c
      /\ DOMAIN heap \subseteq DOMAIN heap'
      /\ \A u \in Vertices : u # w => labels'[u] = labels[u]
      /\ \/ labels'[w] = labels[w]
         \/ labels'[w] = [cost |-> c, edge |-> e, state |-> "LABELED"]
  <2>. HIDE DEF c, w
  <2>. QED
    BY <1>1, <1>2, UpdateLemma DEF TypeOK
<1>4. Settled(current)
  BY <1>1 DEF Phase
<1>5. TypeOK'
  BY <1>1, <1>3 DEF TypeOK
<1>6. SettleOrder'
  <2>. SUFFICES ASSUME NEW u \in Vertices, NEW x \in DOMAIN heap', Settled(u)'
                PROVE  Cost(u)' <= heap'[x]
    BY DEF SettleOrder
  <2>1. Settled(u) /\ Cost(u)' = Cost(u) /\ Cost(u) <= now
    BY <1>3, <1>4 DEF Phase
  <2>2. CASE x \in DOMAIN heap /\ heap'[x] = heap[x]
    BY <2>1, <2>2 DEF SettleOrder
  <2>3. CASE heap'[x] = c
    BY <1>2, <2>1, <2>3, ArgTypes
  <2>. QED
    BY <1>3, <2>2, <2>3
<1>7. Cost(w)' <= c
  <2>1. CASE Settled(w)
    BY <1>2, <1>3, <2>1, ArgTypes DEF Phase
  <2>. QED
    BY <1>3, <2>1
<1>8. \A u \in Vertices : Cost(u) \in Nat /\ Cost(u)' \in Nat
  BY <1>3, ArgTypes DEF LabelTypeOK
<1>9. Closed'
  <2>. SUFFICES ASSUME NEW d \in query.allowed, Settled(Source[d])',
                       ~ (Source[d] = current /\ (d \in pending' \/ LeftEarly'))
                PROVE  /\ ~ Unknown(Target[d])'
                       /\ Cost(Source[d])' \in Times
                       /\ Cost(Target[d])' <= Cost(Source[d])' + costs[d][Cost(Source[d])']
    BY <1>1 DEF Closed
  <2>1. d \in Edges /\ Source[d] \in Vertices /\ Target[d] \in Vertices
    BY ArgTypes
  <2>2. Settled(Source[d]) /\ Cost(Source[d])' = Cost(Source[d])
    BY <1>3, <2>1
  <2>3. CASE d = e
    <3>1. Source[d] = current
      BY <1>1, <2>3 DEF Phase
    <3>. QED
      BY <1>1, <1>3, <1>7, <2>2, <2>3, <3>1
  <2>4. CASE d # e
    <3>1. ~ (Source[d] = current /\ (d \in pending \/ LeftEarly))
      BY <1>1, <2>4 DEF LeftEarly
    <3>2. /\ ~ Unknown(Target[d]) /\ Cost(Source[d]) \in Times
          /\ Cost(Target[d]) <= Cost(Source[d]) + costs[d][Cost(Source[d])]
      BY <2>2, <3>1 DEF Closed
    <3>3. ~ Unknown(Target[d])' /\ Cost(Target[d])' <= Cost(Target[d])
      BY <1>3, <2>1, <3>2
    <3>4. costs[d][Cost(Source[d])] \in Nat
      BY <2>1, <3>2, ArgTypes
    <3>. QED
      BY <1>8, <2>1, <2>2, <3>2, <3>3, <3>4
  <2>. QED
    BY <2>3, <2>4
<1>10. Phase'
  <2>1. LimitHit' <=> LimitHit
    BY <1>1, <1>2, <1>3, <1>4 DEF LimitHit, bounded
  <2>2. \A u \in Vertices : Settled(u)' => Cost(u)' <= Cost(current)'
    BY <1>1, <1>2, <1>3, <1>4 DEF Phase
  <2>3. /\ ~ Unknown(query.source)' /\ Settled(current)'
        /\ ~ Settled(query.target)'
        /\ Cost(query.source)' <= Cost(query.source)
    BY <1>1, <1>2, <1>3, <1>4, ArgTypes DEF Phase
  <2>4. Cost(query.source)' <= query.departure
    BY <1>1, <1>8, <2>3, ArgTypes DEF Phase
  <2>5. \A d \in pending' : d \in query.allowed /\ Source[d] = current
    BY <1>1, <1>4 DEF Phase
  <2>6. at = query.target /\ ~ LimitHit
    BY <1>1 DEF Phase
  <2>7. pc' = "search" /\ query' = query /\ at' = at /\ current' = current
    BY <1>1, <1>4
  <2>. QED
    BY <2>1, <2>2, <2>3, <2>4, <2>5, <2>6, <2>7 DEF Phase
<1>11. e \in query.allowed /\ Source[e] = current
  BY <1>1 DEF Phase
<1>12. LabelTree'
  <2>. SUFFICES ASSUME NEW u \in Vertices, ~ Unknown(u)', ~ (u = query.source /\ Cost(u)' = query.departure)
                PROVE  Derived(u)'
    BY <1>1 DEF LabelTree
  <2>1. CASE labels'[u] = labels[u]
    <3>1. Derived(u)
      BY <2>1 DEF LabelTree
    <3>. QED
      BY <1>1, <1>3, <2>1, <3>1, ArgTypes DEF Derived
  <2>2. CASE u = w /\ labels'[w] = [cost |-> c, edge |-> e, state |-> "LABELED"]
    BY <1>1, <1>2, <1>3, <1>4, <1>11, <2>2 DEF Derived
  <2>. QED
    BY <1>3, <2>1, <2>2
<1>. QED
  BY <1>3, <1>5, <1>6, <1>9, <1>10, <1>12

\* The steps that only move the control: the queue stays as it is.
LEMMA ControlInv ==
  ASSUME IInv, PastHorizon \/ Exhausted \/ Trace \/ Return
  PROVE  IInv'
<1>. USE DEF IInv
<1>1. UNCHANGED <<labels, heap, costs, query, current, pending>>
  BY DEF PastHorizon, Exhausted, Trace, Return
<1>2. (LimitHit' <=> LimitHit) /\ (bounded' <=> bounded)
  BY <1>1 DEF LimitHit, bounded
<1>3. HeapCoherent' /\ SettleOrder' /\ LabelTypeOK' /\ LabelTree'
  BY <1>1 DEF HeapCoherent, SettleOrder, TypeOK, LabelTypeOK, LabelTree, Derived
<1>4. LeftEarly => LeftEarly'
  BY <1>2 DEF LeftEarly, PastHorizon, Exhausted, Trace, Return
<1>5. Closed'
  BY <1>1, <1>4 DEF Closed
<1>6. CASE PastHorizon
  <2>1. pc = "search" /\ pending # {} /\ pc' = "outOfRange" /\ UNCHANGED <<at, path>>
    BY <1>6 DEF PastHorizon
  <2>2. TypeOK'
    BY <1>1, <1>3, <2>1 DEF TypeOK
  <2>3. Phase'
    BY <1>1, <1>2, <2>1 DEF Phase
  <2>. QED
    BY <1>3, <1>5, <2>2, <2>3
<1>7. CASE Exhausted
  <2>1. /\ pc = "search" /\ pending = {} /\ DOMAIN heap = {} /\ pc' = "notFound"
        /\ UNCHANGED <<at, path>>
    BY <1>7 DEF Exhausted, IsEmpty
  <2>2. TypeOK'
    BY <1>1, <1>3, <2>1 DEF TypeOK
  <2>3. Phase'
    BY <1>1, <1>2, <2>1 DEF Phase
  <2>. QED
    BY <1>3, <1>5, <2>2, <2>3
<1>8. CASE Trace
  <2>. DEFINE e == labels[at].edge
  <2>1. /\ pc = "trace" /\ pc' = "trace"
        /\ path' = <<e>> \o path /\ at' = Source[e]
    BY <1>8 DEF Trace
  <2>2. /\ e \in Edges /\ Source[e] \in Vertices /\ Settled(Source[e])
    BY <1>8, ArgTypes DEF Phase, LabelTree, Derived, Trace, TypeOK
  <2>3. TypeOK'
    <3>. HIDE DEF e
    <3>1. path' \in Seq(Edges)
      BY <2>1, <2>2 DEF TypeOK
    <3>. QED
      BY <1>1, <1>3, <2>1, <2>2, <3>1 DEF TypeOK
  <2>4. Phase'
    BY <1>1, <1>2, <2>1, <2>2 DEF Phase
  <2>. QED
    BY <1>3, <1>5, <2>3, <2>4
<1>9. CASE Return
  <2>1. pc = "trace" /\ pc' = "found" /\ UNCHANGED <<at, path>>
    BY <1>9 DEF Return
  <2>2. TypeOK'
    BY <1>1, <1>3, <2>1 DEF TypeOK
  <2>3. Phase'
    BY <1>1, <1>2, <2>1 DEF Phase
  <2>. QED
    BY <1>3, <1>5, <2>2, <2>3
<1>. QED
  BY <1>6, <1>7, <1>8, <1>9

LEMMA NextInv == IInv /\ Next => IInv'
BY ExtractInv, RelaxInv, ControlInv DEF Next

LEMMA StutterInv == IInv /\ UNCHANGED vars => IInv'
<1>. SUFFICES ASSUME IInv, UNCHANGED vars PROVE IInv'
  OBVIOUS
<1>. USE DEF vars, IInv
<1>1. TypeOK' /\ HeapCoherent'
  BY DEF TypeOK, LabelTypeOK, HeapCoherent
<1>2. LabelTree' /\ SettleOrder'
  BY DEF LabelTree, Derived, SettleOrder
<1>3. Closed'
  BY DEF Closed, LeftEarly, LimitHit, bounded
<1>4. Phase'
  BY DEF LimitHit, bounded, Phase
<1>. QED
  BY <1>1, <1>2, <1>3, <1>4

-----------------------------------------------------------------------------
(* The invariants of one call.                                             *)

\* Every call keeps the label queue coherent, its labels a tree of journeys
\* that start at the source, and settles vertices in order of arrival, however
\* ties in the heap are broken (TimedDijkstra::shortestPath).
THEOREM SearchInvariants == Spec => [](TypeOK /\ HeapCoherent /\ LabelTree /\ SettleOrder /\ Closed)
<1>1. IInv /\ [Next]_vars => IInv'
  BY NextInv, StutterInv
<1>2. IInv => TypeOK /\ HeapCoherent /\ LabelTree /\ SettleOrder /\ Closed
  BY DEF IInv
<1>. QED
  BY InitInv, <1>1, <1>2, PTL DEF Spec

-----------------------------------------------------------------------------
(* The rival.                                                              *)

\* While the call runs the rival has not left.  When it answers, he stands at
\* the source at the departure time.
LEMMA SearchRival ==
  ASSUME IInv, RTypeOK, RivalBehind, Search
  PROVE  RivalBehind'
<1>1. IInv' /\ UNCHANGED <<pos, clock, costs, query>>
  BY NextInv DEF Search, Next, Extract, Relax, PastHorizon, Exhausted, Trace, Return
<1>2. pc \notin Outcome
  BY DEF Search, Next, Extract, Relax, PastHorizon, Exhausted, Trace, Return
<1>3. pos' = query'.source /\ clock' = query'.departure
  BY <1>1, <1>2 DEF RivalBehind
<1>4. /\ pos' \in Vertices /\ clock' \in Nat
      /\ ~ Unknown(pos)' /\ Cost(pos)' <= clock'
      /\ \A u \in Vertices : Cost(u)' \in Nat
  BY <1>1, <1>3, ArgTypes DEF Phase, IInv, TypeOK, LabelTypeOK, RTypeOK
<1>5. ASSUME pc' \in {"found", "notFound"}
      PROVE  IF Settled(pos)' /\ ~ (pos = current /\ LeftEarly)'
             THEN clock' >= Cost(pos)'
             ELSE clock' >= Cost(current)' /\ LeftEarly'
  <2>1. Settled(current)' /\ current' \in Vertices
    BY <1>1, <1>5 DEF IInv, Phase, TypeOK
  <2>2. CASE Settled(pos)' /\ ~ (pos = current /\ LeftEarly)'
    BY <1>4, <2>2
  <2>3. CASE pos' = current' /\ LeftEarly'
    BY <1>4, <2>3
  <2>4. CASE ~ Settled(pos)'
    <3>1. pos' \in DOMAIN heap' /\ heap'[pos'] = Cost(pos)'
      BY <1>1, <1>4, <2>4 DEF IInv, HeapCoherent, TypeOK, LabelTypeOK
    <3>2. Cost(current)' <= Cost(pos)'
      BY <1>1, <2>1, <3>1 DEF IInv, SettleOrder
    <3>3. LeftEarly'
      BY <1>1, <1>5, <3>1 DEF IInv, Phase, LeftEarly
    <3>. QED
      BY <1>4, <2>1, <2>4, <3>2, <3>3
  <2>. QED
    BY <2>2, <2>3, <2>4
<1>. QED
  BY <1>2, <1>3, <1>5 DEF RivalBehind

\* Riding an edge cannot overtake the settled labels (first in, first out).
LEMMA DriveRival ==
  ASSUME IInv, RTypeOK, RivalBehind, NEW e \in Edges, Drive(e)
  PROVE  RivalBehind'
<1>. DEFINE w == Target[e]
<1>1. /\ pc \in Outcome /\ e \in query.allowed /\ Source[e] = pos /\ clock \in Times
      /\ pos' = w /\ clock' = clock + costs[e][clock]
      /\ UNCHANGED <<labels, heap, costs, query, pc, current, pending, at, path>>
  BY DEF Drive, vars
<1>2. /\ w \in Vertices /\ clock \in Nat /\ costs[e][clock] \in Nat /\ pos \in Vertices
      /\ \A u \in Vertices : Cost(u) \in Nat
  BY <1>1, ArgTypes DEF IInv, RTypeOK
<1>3. LeftEarly' <=> LeftEarly
  BY <1>1 DEF LeftEarly, LimitHit, bounded
<1>. SUFFICES ASSUME pc \in {"found", "notFound"}
              PROVE  IF Settled(w) /\ ~ (w = current /\ LeftEarly)
                     THEN clock' >= Cost(w)
                     ELSE clock' >= Cost(current) /\ LeftEarly
  BY <1>1, <1>3 DEF RivalBehind
<1>4. clock' >= clock /\ clock' \in Nat
  BY <1>1, <1>2
<1>5. Settled(current) /\ current \in Vertices
  BY DEF IInv, Phase, TypeOK
<1>6. \A u \in Vertices : Settled(u) => Cost(u) <= Cost(current)
  BY DEF IInv, Phase
<1>7. CASE Settled(pos) /\ ~ (pos = current /\ LeftEarly)
  <2>1. clock >= Cost(pos)
    BY <1>7 DEF RivalBehind
  <2>2. pending = {} \/ LeftEarly
    BY DEF IInv, Phase, LeftEarly
  <2>3. /\ ~ Unknown(w) /\ Cost(pos) \in Times
        /\ Cost(w) <= Cost(pos) + costs[e][Cost(pos)]
    BY <1>1, <1>7, <2>2 DEF IInv, Closed, Phase
  <2>4. Cost(pos) + costs[e][Cost(pos)] <= clock'
    BY <1>1, <2>1, <2>3, ArgTypes DEF IInv, FIFO
  <2>5. costs[e][Cost(pos)] \in Nat
    BY <2>3, ArgTypes DEF IInv
  <2>6. clock' >= Cost(w)
    BY <1>2, <1>4, <2>3, <2>4, <2>5
  <2>7. CASE Settled(w)
    BY <1>5, <2>6, <2>7
  <2>8. CASE ~ Settled(w)
    <3>1. w \in DOMAIN heap /\ heap[w] = Cost(w)
      BY <1>2, <2>3, <2>8 DEF IInv, HeapCoherent, TypeOK, LabelTypeOK
    <3>2. Cost(current) <= Cost(w)
      BY <1>5, <3>1 DEF IInv, SettleOrder
    <3>3. LeftEarly
      BY <3>1 DEF IInv, Phase, LeftEarly
    <3>. QED
      BY <1>2, <1>4, <1>5, <2>6, <2>8, <3>2, <3>3
  <2>. QED
    BY <2>7, <2>8
<1>8. CASE ~ (Settled(pos) /\ ~ (pos = current /\ LeftEarly))
  <2>1. clock >= Cost(current) /\ LeftEarly
    BY <1>8 DEF RivalBehind
  <2>. QED
    BY <1>2, <1>4, <1>5, <1>6, <2>1
<1>. QED
  BY <1>7, <1>8

LEMMA WaitRival ==
  ASSUME IInv, RTypeOK, RivalBehind, Wait
  PROVE  RivalBehind'
<1>1. /\ pc \in Outcome /\ clock' = clock + 1
      /\ UNCHANGED <<labels, heap, costs, query, pc, current, pending, at, path, pos>>
  BY DEF Wait
<1>2. clock \in Nat /\ Cost(pos) \in Nat /\ Cost(current) \in Nat
  BY ArgTypes DEF IInv, RTypeOK, TypeOK
<1>3. LeftEarly' <=> LeftEarly
  BY <1>1 DEF LeftEarly, LimitHit, bounded
<1>. QED
  BY <1>1, <1>2, <1>3 DEF RivalBehind

LEMMA RivalTypes ==
  ASSUME IInv, RTypeOK, [RNext]_rvars
  PROVE  IInv' /\ RTypeOK'
<1>1. CASE Search
  BY <1>1, NextInv DEF Search, IInv, RTypeOK
<1>2. ASSUME NEW e \in Edges, Drive(e) PROVE IInv' /\ RTypeOK'
  <2>1. IInv' /\ pos' = Target[e] /\ clock' = clock + costs[e][clock] /\ clock \in Times
    BY <1>2, StutterInv DEF Drive
  <2>2. clock' \in Nat /\ pos' \in Vertices
    BY <2>1, ArgTypes DEF IInv, RTypeOK
  <2>. QED
    BY <2>1, <2>2 DEF IInv, RTypeOK
<1>3. CASE Wait
  BY <1>3, StutterInv DEF Wait, vars, IInv, RTypeOK
<1>4. CASE UNCHANGED rvars
  BY <1>4, StutterInv DEF rvars, vars, IInv, RTypeOK
<1>. QED
  BY <1>1, <1>2, <1>3, <1>4 DEF RNext

LEMMA RivalInit == RInit => IInv /\ RTypeOK /\ RivalBehind
<1>. SUFFICES ASSUME RInit PROVE IInv /\ RTypeOK /\ RivalBehind
  OBVIOUS
<1>1. IInv
  BY InitInv DEF RInit
<1>2. RTypeOK
  BY <1>1, ArgTypes DEF RInit, IInv, RTypeOK
<1>3. pc \notin Outcome
  BY DEF RInit, Init
<1>. QED
  BY <1>1, <1>2, <1>3 DEF RInit, RivalBehind

LEMMA RivalStep ==
  ASSUME IInv, RTypeOK, RivalBehind, [RNext]_rvars
  PROVE  RivalBehind'
<1>1. CASE UNCHANGED rvars
  BY <1>1 DEF rvars, RivalBehind, LeftEarly, LimitHit, bounded
<1>. QED
  BY <1>1, SearchRival, DriveRival, WaitRival DEF RNext

LEMMA RivalInvariant == RSpec => [](IInv /\ RTypeOK /\ RivalBehind)
<1>1. IInv /\ RTypeOK /\ RivalBehind /\ [RNext]_rvars => (IInv /\ RTypeOK /\ RivalBehind)'
  BY RivalTypes, RivalStep
<1>. QED
  BY RivalInit, <1>1, PTL DEF RSpec

LEMMA RivalIsLater == IInv /\ RTypeOK /\ RivalBehind => EarliestArrival
<1>. SUFFICES ASSUME IInv, RTypeOK, RivalBehind, pc = "found"
              PROVE  Settled(query.target) /\ (Settled(pos) => clock >= Cost(pos))
  BY DEF EarliestArrival
<1>1. Settled(query.target)
  BY DEF IInv, Phase
<1>2. ASSUME Settled(pos)
      PROVE  clock >= Cost(pos)
  BY <1>2 DEF RivalBehind
<1>. QED
  BY <1>1, <1>2

\* TimedDijkstra::shortestPath finds the earliest arrival: no walk over allowed
\* edges, with any waiting, is at the target before the time it reports.
THEOREM EarliestArrivalHolds == RSpec => []EarliestArrival
<1>. QED
  BY RivalInvariant, RivalIsLater, PTL

LEMMA RivalIsNotThere == IInv /\ RTypeOK /\ RivalBehind => NotFoundIsRight
<1>. SUFFICES ASSUME IInv, RTypeOK, RivalBehind, pc = "notFound", pos = query.target
              PROVE  bounded /\ clock > query.bound
  BY DEF NotFoundIsRight
<1>1. clock \in Nat /\ query.bound \in Nat /\ Cost(current) \in Nat
  BY ArgTypes DEF IInv, RTypeOK, TypeOK
<1>2. CASE LimitHit
  <2>1. bounded /\ Cost(current) > query.bound
    BY <1>2 DEF LimitHit
  <2>2. pos = current \/ ~ Settled(pos)
    BY DEF IInv, Phase
  <2>3. LeftEarly
    BY <1>2 DEF LeftEarly
  <2>4. clock >= Cost(current)
    BY <2>2, <2>3 DEF RivalBehind
  <2>. QED
    BY <1>1, <2>1, <2>4
<1>3. CASE ~ LimitHit
  <2>1. ~ Settled(pos) /\ ~ LeftEarly
    BY <1>3 DEF IInv, Phase, LeftEarly
  <2>. QED
    BY <2>1 DEF RivalBehind
<1>. QED
  BY <1>2, <1>3

\* "Not found" is right: there is no walk to the target at all, or none within
\* the bound the caller gave.
THEOREM NotFoundHolds == RSpec => []NotFoundIsRight
<1>. QED
  BY RivalInvariant, RivalIsNotThere, PTL
-----------------------------------------------------------------------------
(* The path.                                                               *)

\* A journey that is at the head of each of its edges when the label says so
\* arrives at its end when the label of that end says.
LEMMA RideAlongLabels ==
  ASSUME NEW p \in Seq(Edges), NEW d \in Nat,
         NEW u \in Vertices, NEW v \in Vertices,
         Connects(p, u, v), Cost(u) = d,
         \A i \in 1 .. Len(p) :
           Cost(Target[p[i]]) = Cost(Source[p[i]]) + costs[p[i]][Cost(Source[p[i]])]
  PROVE  Ride(p, d) = Cost(v)
<1>. DEFINE N == Len(p)
            arrival(i) == IF i = 0 THEN d ELSE Cost(Target[p[i]])
            Is(f) == f = [i \in 0 .. N |-> IF i = 0 THEN d
                                           ELSE f[i - 1] + costs[p[i]][f[i - 1]]]
            g == [i \in 0 .. N |-> arrival(i)]
<1>1. N \in Nat
  OBVIOUS
<1>2. \A i \in 1 .. N : arrival(i - 1) = Cost(Source[p[i]])
  <2>. SUFFICES ASSUME NEW i \in 1 .. N PROVE arrival(i - 1) = Cost(Source[p[i]])
    OBVIOUS
  <2>1. CASE i = 1
    BY <1>1, <2>1 DEF Connects
  <2>2. CASE i # 1
    <3>1. i - 1 \in 1 .. N - 1 /\ (i - 1) + 1 = i /\ i - 1 # 0
      BY <1>1, <2>2
    <3>2. Target[p[i - 1]] = Source[p[i]]
      BY <1>1, <3>1 DEF Connects
    <3>. QED
      BY <3>1, <3>2
  <2>. QED
    BY <2>1, <2>2
<1>3. \A i \in 1 .. N : arrival(i) = arrival(i - 1) + costs[p[i]][arrival(i - 1)]
  BY <1>1, <1>2
<1>4. Is(g)
  <2>1. \A i \in 0 .. N : i # 0 => i \in 1 .. N /\ i - 1 \in 0 .. N
    BY <1>1
  <2>2. \A i \in 0 .. N : g[i] = arrival(i)
    OBVIOUS
  <2>3. \A i \in 0 .. N : arrival(i) = IF i = 0 THEN d ELSE g[i - 1] + costs[p[i]][g[i - 1]]
    <3>1. arrival(0) = d
      OBVIOUS
    <3>. HIDE DEF arrival, g
    <3>. QED
      BY <1>3, <2>1, <2>2, <3>1
  <2>. HIDE DEF arrival
  <2>. QED
    BY <2>3
<1>5. ASSUME NEW f, Is(f)
      PROVE  f[N] = arrival(N)
  <2>. DEFINE S == {n \in Nat : n <= N => f[n] = arrival(n)}
  <2>0. \A n \in 0 .. N : f[n] = IF n = 0 THEN d ELSE f[n - 1] + costs[p[n]][f[n - 1]]
    BY <1>5
  <2>1. 0 \in S
    BY <1>1, <2>0
  <2>2. ASSUME NEW n \in S PROVE n + 1 \in S
    <3>. SUFFICES ASSUME n + 1 <= N PROVE f[n + 1] = arrival(n + 1)
      BY <1>1
    <3>1. n \in Nat /\ n <= N /\ n + 1 \in 1 .. N /\ n + 1 \in 0 .. N /\ (n + 1) - 1 = n
      BY <1>1
    <3>2. f[n] = arrival(n)
      BY <3>1
    <3>3. f[n + 1] = f[n] + costs[p[n + 1]][f[n]]
      <4>. HIDE DEF Is, S, arrival
      <4>. QED
        BY <2>0, <3>1
    <3>4. arrival(n + 1) = arrival(n) + costs[p[n + 1]][arrival(n)]
      <4>. HIDE DEF Is, S, arrival
      <4>. QED
        BY <1>3, <3>1
    <3>. QED
      BY <3>2, <3>3, <3>4
  <2>3. S \in SUBSET Nat
    OBVIOUS
  <2>4. S = Nat
    <3>. HIDE DEF S
    <3>. QED
      BY <2>1, <2>2, <2>3, Induction
  <2>. QED
    BY <1>1, <2>4
<1>6. Ride(p, d) = (CHOOSE f : Is(f))[N]
  BY DEF Ride
<1>7. Is(CHOOSE f : Is(f))
  <2>. HIDE DEF Is, g
  <2>. QED
    BY <1>4
<1>8. Ride(p, d) = arrival(N)
  <2>. HIDE DEF Is, g, arrival
  <2>. QED
    BY <1>5, <1>6, <1>7
<1>9. arrival(N) = Cost(v)
  <2>1. CASE p = <<>>
    BY <2>1 DEF Connects
  <2>2. CASE p # <<>>
    <3>1. N # 0
      BY <2>2
    <3>. QED
      BY <2>2, <3>1 DEF Connects
  <2>. QED
    BY <2>1, <2>2
<1>. QED
  BY <1>8, <1>9

\* One more edge in front of a path.
LEMMA Prepended ==
  ASSUME NEW p \in Seq(Edges), NEW e \in Edges, NEW v \in Vertices,
         Connects(p, Target[e], v)
  PROVE  /\ Connects(<<e>> \o p, Source[e], v)
         /\ \A i \in 1 .. Len(<<e>> \o p) :
              (<<e>> \o p)[i] = e \/ \E j \in 1 .. Len(p) : (<<e>> \o p)[i] = p[j]
<1>. DEFINE q == <<e>> \o p
<1>1. Len(p) \in Nat /\ Len(q) = Len(p) + 1 /\ q[1] = e
  OBVIOUS
<1>2. \A i \in 2 .. Len(p) + 1 : i - 1 \in 1 .. Len(p) /\ q[i] = p[i - 1]
  OBVIOUS
<1>. HIDE DEF q
<1>3. q # <<>>
  BY <1>1
<1>4. Target[q[Len(q)]] = v
  <2>1. CASE p = <<>>
    BY <1>1, <2>1 DEF Connects
  <2>2. CASE p # <<>>
    <3>1. Len(p) \in 1 .. Len(p) /\ Len(p) + 1 \in 2 .. Len(p) + 1 /\ (Len(p) + 1) - 1 = Len(p)
      BY <1>1, <2>2
    <3>. QED
      BY <1>1, <1>2, <2>2, <3>1 DEF Connects
  <2>. QED
    BY <2>1, <2>2
<1>5. ASSUME NEW i \in 1 .. Len(q) - 1
      PROVE  Target[q[i]] = Source[q[i + 1]]
  <2>1. i \in 1 .. Len(p) /\ i + 1 \in 2 .. Len(p) + 1 /\ (i + 1) - 1 = i /\ p # <<>>
    BY <1>1
  <2>2. q[i + 1] = p[i]
    BY <1>2, <2>1
  <2>3. CASE i = 1
    BY <1>1, <2>1, <2>2, <2>3 DEF Connects
  <2>4. CASE i # 1
    <3>1. i \in 2 .. Len(p) + 1 /\ i - 1 \in 1 .. Len(p) - 1 /\ (i - 1) + 1 = i
      BY <1>1, <2>1, <2>4
    <3>2. q[i] = p[i - 1] /\ Target[p[i - 1]] = Source[p[i]]
      BY <1>2, <2>1, <3>1 DEF Connects
    <3>. QED
      BY <2>2, <3>2
  <2>. QED
    BY <2>3, <2>4
<1>6. Connects(q, Source[e], v)
  BY <1>1, <1>3, <1>4, <1>5 DEF Connects
<1>7. \A i \in 1 .. Len(q) : q[i] = e \/ \E j \in 1 .. Len(p) : q[i] = p[j]
  <2>. SUFFICES ASSUME NEW i \in 1 .. Len(q), i # 1
                PROVE  \E j \in 1 .. Len(p) : q[i] = p[j]
    BY <1>1
  <2>1. i \in 2 .. Len(p) + 1
    BY <1>1
  <2>. QED
    BY <1>2, <2>1
<1>. QED
  BY <1>6, <1>7 DEF q

LEMMA TracedInit == Init => Traced
<1>. SUFFICES ASSUME Init PROVE Traced
  OBVIOUS
<1>1. query.source \in Vertices /\ query.departure \in Nat
  BY InitInv, ArgTypes DEF IInv
<1>. QED
  BY <1>1 DEF Init, RootedAt, Traced

\* The search lowers no label below the departure and leaves the path empty.
LEMMA TracedSearch ==
  ASSUME IInv, Traced, (\E v \in Vertices : Extract(v)) \/ (\E e \in Edges : Relax(e))
  PROVE  Traced'
<1>1. CASE \E v \in Vertices : Extract(v)
  <2>1. PICK v \in Vertices : Extract(v)
    BY <1>1
  <2>2. /\ \A u \in Vertices : Cost(u)' = Cost(u)
        /\ \A u \in Vertices : u # v => labels'[u] = labels[u]
        /\ ~ Unknown(v)
    BY <2>1, ExtractLemma DEF Extract, IInv, TypeOK
  <2>3. /\ UNCHANGED <<query, path, at>> /\ path = <<>> /\ at = query.target
        /\ pc' \in {"search", "trace", "notFound"}
    BY <2>1 DEF Extract, IInv, Phase, Traced
  <2>4. \A u \in Vertices : ~ Unknown(u)' => query'.departure <= Cost(u)'
    BY <2>2, <2>3 DEF Traced
  <2>5. Connects(path', at', query'.target) /\ Len(path') = 0
    BY <2>3 DEF Connects
  <2>6. \A i \in 1 .. Len(path') : FALSE
    BY <2>5
  <2>. QED
    BY <2>3, <2>4, <2>5, <2>6 DEF Traced
<1>2. CASE \E e \in Edges : Relax(e)
  <2>1. PICK e \in Edges : Relax(e)
    BY <1>2
  <2>. DEFINE now == Cost(current)
              c   == now + costs[e][now]
              w   == Target[e]
  <2>2. /\ now \in Times /\ Update(w, c, e) /\ pc = "search"
        /\ UNCHANGED <<query, pc, path>>
    BY <2>1 DEF Relax
  <2>3. w \in Vertices /\ now \in Nat /\ c \in Nat /\ now <= c /\ current \in Vertices
    BY <2>2, ArgTypes DEF IInv, TypeOK
  <2>4. query.departure <= now /\ query.departure \in Nat
    BY <2>1, ArgTypes DEF Relax, IInv, Phase, Traced, TypeOK
  <2>5. /\ \A u \in Vertices : u # w => labels'[u] = labels[u]
        /\ \/ labels'[w] = labels[w]
           \/ labels'[w] = [cost |-> c, edge |-> e, state |-> "LABELED"]
    <3>. HIDE DEF c, w
    <3>. QED
      BY <2>2, <2>3, UpdateLemma DEF IInv, TypeOK
  <2>6. \A u \in Vertices : ~ Unknown(u)' => query'.departure <= Cost(u)'
    <3>. SUFFICES ASSUME NEW u \in Vertices, ~ Unknown(u)'
                  PROVE  query.departure <= Cost(u)'
      BY <2>2
    <3>1. CASE labels'[u] = labels[u]
      BY <3>1 DEF Traced
    <3>2. CASE u = w /\ labels'[w] = [cost |-> c, edge |-> e, state |-> "LABELED"]
      <4>1. Cost(u)' = c
        BY <3>2
      <4>. QED
        BY <2>3, <2>4, <4>1
    <3>. QED
      BY <2>5, <3>1, <3>2
  <2>. QED
    BY <2>2, <2>6 DEF Traced
<1>. QED
  BY <1>1, <1>2

\* The walk back takes the edge of the label it stands at.
LEMMA TracedControl ==
  ASSUME IInv, Traced, PastHorizon \/ Exhausted \/ Trace \/ Return
  PROVE  Traced'
<1>1. UNCHANGED <<labels, heap, costs, query>>
  BY DEF PastHorizon, Exhausted, Trace, Return
<1>2. CASE PastHorizon \/ Exhausted
  BY <1>1, <1>2 DEF PastHorizon, Exhausted, Traced
<1>3. CASE Return
  <2>1. pc = "trace" /\ at = query.source /\ pc' = "found" /\ UNCHANGED <<path, at>>
    BY <1>3 DEF Return
  <2>2. Connects(path', at', query'.target)
    BY <1>1, <2>1 DEF Traced, Connects
  <2>. QED
    BY <1>1, <2>1, <2>2 DEF Traced
<1>4. CASE Trace
  <2>. DEFINE e == labels[at].edge
  <2>1. /\ pc = "trace" /\ pc' = "trace" /\ at # query.source
        /\ path' = <<e>> \o path /\ at' = Source[e]
    BY <1>4 DEF Trace
  <2>2. Derived(at) /\ at \in Vertices /\ path \in Seq(Edges)
    BY <2>1 DEF IInv, Phase, LabelTree, TypeOK
  <2>3. /\ e \in query.allowed /\ Target[e] = at
        /\ Cost(Source[e]) \in Times
        /\ Cost(Target[e]) = Cost(Source[e]) + costs[e][Cost(Source[e])]
    BY <2>2 DEF Derived
  <2>4. e \in Edges /\ query.target \in Vertices
    BY <2>3, ArgTypes DEF IInv
  <2>5. Connects(path, Target[e], query.target)
    BY <2>1, <2>3 DEF Traced
  <2>6. /\ Connects(path', at', query.target)
        /\ \A i \in 1 .. Len(path') :
             path'[i] = e \/ \E j \in 1 .. Len(path) : path'[i] = path[j]
    <3>. HIDE DEF e
    <3>. QED
      BY <2>1, <2>2, <2>4, <2>5, Prepended
  <2>7. \A i \in 1 .. Len(path') :
          /\ path'[i] \in query.allowed
          /\ Cost(Source[path'[i]]) \in Times
          /\ Cost(Target[path'[i]])
               = Cost(Source[path'[i]]) + costs[path'[i]][Cost(Source[path'[i]])]
    <3>. HIDE DEF e
    <3>. QED
      BY <2>1, <2>3, <2>6 DEF Traced
  <2>. QED
    BY <1>1, <2>1, <2>6, <2>7 DEF Traced
<1>. QED
  BY <1>2, <1>3, <1>4

LEMMA TracedNext ==
  ASSUME IInv, Traced, [Next]_vars
  PROVE  IInv' /\ Traced'
<1>1. ASSUME UNCHANGED vars PROVE Traced'
  BY <1>1 DEF vars, Traced, Connects
<1>. QED
  BY <1>1, NextInv, StutterInv, TracedSearch, TracedControl DEF Next

LEMMA TracedPath == IInv /\ Traced => PathRealisesCost
<1>. SUFFICES ASSUME IInv, Traced, pc = "found" PROVE PathRealisesCost
  BY DEF PathRealisesCost
<1>1. /\ query.source \in Vertices /\ query.target \in Vertices
      /\ query.departure \in Nat /\ query.bound \in Nat
      /\ \A v \in Vertices : Cost(v) \in Nat
  BY ArgTypes DEF IInv
<1>2. /\ Connects(path, query.source, query.target) /\ path \in Seq(Edges)
      /\ \A i \in 1 .. Len(path) :
           /\ path[i] \in query.allowed
           /\ Cost(Target[path[i]])
                = Cost(Source[path[i]]) + costs[path[i]][Cost(Source[path[i]])]
  BY DEF Traced, IInv, TypeOK
<1>3. Cost(query.source) = query.departure
  BY <1>1 DEF Traced, IInv, Phase
<1>4. Ride(path, query.departure) = Cost(query.target)
  BY <1>1, <1>2, <1>3, RideAlongLabels
<1>5. bounded => Cost(query.target) <= query.bound
  BY <1>1 DEF IInv, Phase, LimitHit
<1>. QED
  BY <1>2, <1>4, <1>5 DEF PathRealisesCost

\* What TimedDijkstra::shortestPath hands to its caller is a journey: the edges
\* connect the two vertices, are allowed, arrive exactly when the result says
\* and no later than the bound.
THEOREM PathAlwaysRealisesCost == Spec => []PathRealisesCost
<1>1. IInv /\ Traced /\ [Next]_vars => IInv' /\ Traced'
  BY TracedNext
<1>. QED
  BY InitInv, TracedInit, <1>1, TracedPath, PTL DEF Spec

HIDE DEF Cost, Unknown, Settled, State, Label, Outcome

\* A set of numbers has a least one.
LEMMA LeastExists ==
  ASSUME NEW T \in SUBSET Nat, T # {}
  PROVE  \E n \in T : \A m \in T : n <= m
<1>1. PICK n \in T : \A m \in T : ~ (<<m, n>> \in OpToRel(<, Nat))
  BY NatLessThanWellFounded, WFMin
<1>2. \A m \in T : ~ (m < n)
  BY <1>1 DEF OpToRel
<1>. QED
  BY <1>2

\* A function that is defined by iteration.
IsIteration(g, F, base, N, V) ==
  /\ g \in [0 .. N -> V]
  /\ \A n \in 0 .. N : g[n] = IF n = 0 THEN base ELSE F[g[n - 1]]

LEMMA IterationExists ==
  ASSUME NEW V, NEW base \in V, NEW F \in [V -> V], NEW N \in Nat
  PROVE  \E g : IsIteration(g, F, base, N, V)
<1>. DEFINE Exists(k) == \E g \in [0 .. k -> V] :
                           \A n \in 0 .. k : g[n] = IF n = 0 THEN base ELSE F[g[n - 1]]
            S == {k \in Nat : Exists(k)}
<1>1. 0 \in S
  <2>. DEFINE g == [n \in 0 .. 0 |-> base]
  <2>1. g \in [0 .. 0 -> V] /\ \A n \in 0 .. 0 : n = 0 /\ g[n] = base
    OBVIOUS
  <2>2. Exists(0)
    <3>. HIDE DEF g
    <3>. QED
      BY <2>1
  <2>. QED
    BY <2>2
<1>2. ASSUME NEW k \in S
      PROVE  k + 1 \in S
  <2>1. PICK g \in [0 .. k -> V] : \A n \in 0 .. k : g[n] = IF n = 0 THEN base ELSE F[g[n - 1]]
    OBVIOUS
  <2>. DEFINE h == [n \in 0 .. k + 1 |-> IF n = k + 1 THEN F[g[k]] ELSE g[n]]
  <2>2. k \in Nat
    OBVIOUS
  <2>3. h \in [0 .. k + 1 -> V]
    BY <2>2
  <2>4. ASSUME NEW n \in 0 .. k + 1
        PROVE  h[n] = IF n = 0 THEN base ELSE F[h[n - 1]]
    <3>1. CASE n = k + 1
      <4>1. n # 0 /\ n - 1 = k /\ k \in 0 .. k + 1 /\ k # k + 1
        BY <2>2, <3>1
      <4>. QED
        BY <3>1, <4>1
    <3>2. CASE n # k + 1
      <4>1. n \in 0 .. k /\ h[n] = g[n]
        BY <2>2, <3>2
      <4>2. n # 0 => n - 1 \in 0 .. k + 1 /\ n - 1 # k + 1 /\ h[n - 1] = g[n - 1]
        BY <2>2, <4>1
      <4>. QED
        BY <2>1, <4>1, <4>2
    <3>. QED
      BY <3>1, <3>2
  <2>5. Exists(k + 1)
    <3>. HIDE DEF h
    <3>. QED
      BY <2>3, <2>4
  <2>. QED
    BY <2>2, <2>5
<1>3. S = Nat
  <2>1. S \in SUBSET Nat
    OBVIOUS
  <2>. HIDE DEF S
  <2>. QED
    BY <1>1, <1>2, <2>1, Induction
<1>4. Exists(N)
  BY <1>3
<1>. QED
  BY <1>4 DEF IsIteration

-----------------------------------------------------------------------------
(* The bidirectional search.  Its two sides are the same search on a graph   *)
(* and on the reverse of it: what one side does is stated once, for a label  *)
(* map l, a heap h and a graph g.                                            *)

Graph(g) ==
  /\ g.root \in Vertices /\ g.allowed \in SUBSET Static.edges
  /\ g.from \in [Static.edges -> Vertices] /\ g.to \in [Static.edges -> Vertices]
  /\ g.cost \in [Static.edges -> Nat]

Most == Cardinality(Vertices)

\* D[n][v]: the least cost of a walk of at most n edges from the root to v.
AreLengths(D, g) ==
  /\ D \in [0 .. Most -> [Vertices -> Nat]]
  /\ \A v \in Vertices : D[0][v] = IF v = g.root THEN 0 ELSE Inf
  /\ \A n \in 0 .. Most - 1 : \A v \in Vertices :
       /\ D[n + 1][v] <= D[n][v]
       /\ \A e \in g.allowed : g.to[e] = v /\ D[n][g.from[e]] < Inf
                                 => D[n + 1][v] <= D[n][g.from[e]] + g.cost[e]
       /\ \/ D[n + 1][v] = D[n][v]
          \/ \E e \in g.allowed : /\ g.to[e] = v /\ D[n][g.from[e]] < Inf
                                  /\ D[n + 1][v] = D[n][g.from[e]] + g.cost[e]

LEMMA MostIsNat == Most \in Nat
BY VerticesAssumption, FS_CardinalityType DEF Most

LEMMA LeastIsMinimum ==
  ASSUME NEW T \in SUBSET Nat, T # {}
  PROVE  Bi!Minimum(T) \in T /\ \A m \in T : Bi!Minimum(T) <= m
BY LeastExists DEF Bi!Minimum

\* The reference of BidirectionalRouter is made of such lengths.
LEMMA LengthsExist ==
  ASSUME NEW g, Graph(g), g.cost = costs
  PROVE  \E D : AreLengths(D, g) /\ Bi!Distances(g.root, g.allowed, g.from, g.to) = D[Most]
<1>. DEFINE V == [Vertices -> Nat]
            base == [v \in Vertices |-> IF v = g.root THEN 0 ELSE Inf]
            Over(d, v) == {d[v]} \cup {d[g.from[e]] + costs[e] :
                              e \in {x \in g.allowed : g.to[x] = v /\ d[g.from[x]] < Inf}}
            Next1(d) == [v \in Vertices |-> Bi!Minimum(Over(d, v))]
            F == [d \in V |-> Next1(d)]
            Is(D) == D = [n \in 0 .. Most |-> IF n = 0 THEN base ELSE LET prev == D[n - 1] IN Next1(prev)]
<1>0. Most \in Nat
  BY MostIsNat
<1>1. base \in V /\ Most \in Nat
  BY <1>0, InfAssumption
<1>2. ASSUME NEW d \in V, NEW v \in Vertices
      PROVE  /\ Over(d, v) \in SUBSET Nat /\ Over(d, v) # {}
             /\ Bi!Minimum(Over(d, v)) \in Over(d, v)
             /\ \A m \in Over(d, v) : Bi!Minimum(Over(d, v)) <= m
  <2>1. \A e \in g.allowed : d[g.from[e]] + costs[e] \in Nat
    BY DEF Graph
  <2>2. Over(d, v) \in SUBSET Nat /\ Over(d, v) # {}
    BY <2>1
  <2>. HIDE DEF Over
  <2>. QED
    BY <2>2, LeastIsMinimum
<1>3. \A d \in V : Next1(d) \in V
  <2>. HIDE DEF Over
  <2>. QED
    BY <1>2
<1>4. F \in [V -> V]
  <2>. HIDE DEF Next1, V
  <2>. QED
    BY <1>3
<1>5. \E D0 \in [0 .. Most -> V] : \A n \in 0 .. Most : D0[n] = IF n = 0 THEN base ELSE F[D0[n - 1]]
  <2>. HIDE DEF F, V, base
  <2>1. \E D0 : IsIteration(D0, F, base, Most, V)
    BY <1>1, <1>4, IterationExists
  <2>. QED
    BY <2>1 DEF IsIteration
<1>51. PICK D0 \in [0 .. Most -> V] : \A n \in 0 .. Most : D0[n] = IF n = 0 THEN base ELSE F[D0[n - 1]]
  BY <1>5
<1>6. \A n \in 0 .. Most : n # 0 => n - 1 \in 0 .. Most /\ D0[n - 1] \in V /\ F[D0[n - 1]] = Next1(D0[n - 1])
  <2>. HIDE DEF V, Next1
  <2>. QED
    BY <1>0, <1>51
<1>7. Is(D0)
  <2>. HIDE DEF F, V, base, Next1
  <2>1. D0 = [n \in 0 .. Most |-> D0[n]]
    BY <1>51
  <2>2. \A n \in 0 .. Most : D0[n] = IF n = 0 THEN base ELSE Next1(D0[n - 1])
    BY <1>51, <1>6
  <2>. QED
    BY <2>1, <2>2
<1>. DEFINE D == CHOOSE f : Is(f)
<1>8. Is(D)
  <2>. HIDE DEF Is
  <2>. QED
    BY <1>7
<1>9. Bi!Distances(g.root, g.allowed, g.from, g.to) = D[Most]
  <2>1. \A S : Bi!Cardinality(S) = Cardinality(S)
    BY DEF Bi!Cardinality, Cardinality, Bi!IsFiniteSet, IsFiniteSet
  <2>. QED
    BY <2>1, Zenon DEF Bi!Distances, Most
<1>. HIDE DEF D
<1>10. \A n \in 0 .. Most : D[n] = IF n = 0 THEN base ELSE Next1(D[n - 1])
  <2>. HIDE DEF base, Next1
  <2>. QED
    BY <1>8
<1>11. \A n \in 0 .. Most : D[n] \in V
  <2>. DEFINE S == {n \in Nat : n <= Most => D[n] \in V}
  <2>. HIDE DEF V, base, Next1
  <2>1. 0 \in S
    <3>1. 0 \in 0 .. Most
      BY <1>1
    <3>. QED
      BY <1>1, <1>10, <3>1
  <2>2. ASSUME NEW n \in S PROVE n + 1 \in S
    <3>. SUFFICES ASSUME n + 1 <= Most PROVE D[n + 1] \in V
      OBVIOUS
    <3>1. n \in Nat /\ n <= Most /\ n + 1 \in 0 .. Most /\ n + 1 # 0 /\ (n + 1) - 1 = n
      BY <1>1
    <3>2. D[n] \in V
      BY <3>1
    <3>3. D[n + 1] = Next1(D[n])
      BY <1>10, <3>1
    <3>. QED
      BY <1>3, <3>2, <3>3
  <2>3. S \in SUBSET Nat
    OBVIOUS
  <2>4. S = Nat
    <3>. HIDE DEF S
    <3>. QED
      BY <2>1, <2>2, <2>3, Induction
  <2>. QED
    BY <1>1, <2>4
<1>12. \A v \in Vertices : D[0][v] = IF v = g.root THEN 0 ELSE Inf
  <2>1. 0 \in 0 .. Most /\ D[0] = base
    <3>. HIDE DEF base, Next1, V
    <3>. QED
      BY <1>0, <1>10
  <2>. QED
    BY <2>1
<1>13. ASSUME NEW n \in 0 .. Most - 1, NEW v \in Vertices
       PROVE  /\ D[n + 1][v] <= D[n][v]
              /\ \A e \in g.allowed : g.to[e] = v /\ D[n][g.from[e]] < Inf
                                        => D[n + 1][v] <= D[n][g.from[e]] + g.cost[e]
              /\ \/ D[n + 1][v] = D[n][v]
                 \/ \E e \in g.allowed : /\ g.to[e] = v /\ D[n][g.from[e]] < Inf
                                         /\ D[n + 1][v] = D[n][g.from[e]] + g.cost[e]
  <2>1. n \in 0 .. Most /\ n + 1 \in 0 .. Most /\ n + 1 # 0 /\ (n + 1) - 1 = n
    BY <1>0
  <2>2. D[n] \in V
    BY <1>11, <2>1
  <2>3. D[n + 1] = Next1(D[n])
    <3>. HIDE DEF base, Next1
    <3>. QED
      BY <1>10, <2>1
  <2>4. D[n + 1][v] = Bi!Minimum(Over(D[n], v))
    <3>. HIDE DEF Over
    <3>. QED
      BY <2>3
  <2>5. D[n + 1][v] \in Over(D[n], v) /\ \A m \in Over(D[n], v) : D[n + 1][v] <= m
    <3>1. /\ Bi!Minimum(Over(D[n], v)) \in Over(D[n], v)
          /\ \A m \in Over(D[n], v) : Bi!Minimum(Over(D[n], v)) <= m
      <4>. HIDE DEF Over, V
      <4>. QED
        BY <1>2, <2>2
    <3>. HIDE DEF Over, V, Next1
    <3>. QED
      BY <2>4, <3>1
  <2>6. D[n][v] \in Over(D[n], v)
    OBVIOUS
  <2>7. ASSUME NEW e \in g.allowed, g.to[e] = v, D[n][g.from[e]] < Inf
        PROVE  D[n][g.from[e]] + costs[e] \in Over(D[n], v)
    BY <2>7
  <2>8. ASSUME NEW x \in Over(D[n], v)
        PROVE  x = D[n][v] \/ \E e \in g.allowed : /\ g.to[e] = v /\ D[n][g.from[e]] < Inf
                                                   /\ x = D[n][g.from[e]] + costs[e]
    OBVIOUS
  <2>. HIDE DEF Over, Next1
  <2>9. \A e \in g.allowed : g.to[e] = v /\ D[n][g.from[e]] < Inf
                              => D[n + 1][v] <= D[n][g.from[e]] + g.cost[e]
    BY <2>5, <2>7
  <2>. QED
    BY <2>5, <2>6, <2>8, <2>9
<1>14. D \in [0 .. Most -> V]
  <2>1. D = [n \in 0 .. Most |-> IF n = 0 THEN base ELSE LET prev == D[n - 1] IN Next1(prev)]
    BY <1>8
  <2>. HIDE DEF V, base, Next1, Is
  <2>. QED
    BY <1>11, <2>1
<1>. QED
  BY <1>9, <1>12, <1>13, <1>14 DEF AreLengths

\* Lengths get no larger with more edges, from Inf or 0 on.
LEMMA LengthsFall ==
  ASSUME NEW D, NEW g, AreLengths(D, g), NEW v \in Vertices, NEW k \in 0 .. Most
  PROVE  \A n \in 0 .. Most : k <= n => D[n][v] <= D[k][v]
<1>. DEFINE S == {m \in Nat : k + m <= Most => D[k + m][v] <= D[k][v]}
<1>0. Most \in Nat /\ \A n \in 0 .. Most : D[n][v] \in Nat
  BY MostIsNat DEF AreLengths
<1>1. 0 \in S
  BY <1>0
<1>2. ASSUME NEW m \in S
      PROVE  m + 1 \in S
  <2>. SUFFICES ASSUME k + (m + 1) <= Most PROVE D[k + (m + 1)][v] <= D[k][v]
    OBVIOUS
  <2>1. m \in Nat /\ k + m \in 0 .. Most - 1 /\ (k + m) + 1 = k + (m + 1) /\ k + m <= Most
        /\ k + m \in 0 .. Most /\ k + (m + 1) \in 0 .. Most
    BY <1>0
  <2>2. D[k + m][v] <= D[k][v]
    BY <2>1
  <2>3. D[(k + m) + 1][v] <= D[k + m][v]
    BY <2>1 DEF AreLengths
  <2>4. D[k + m][v] \in Nat /\ D[k + (m + 1)][v] \in Nat /\ D[k][v] \in Nat
    BY <1>0, <2>1
  <2>. HIDE DEF S
  <2>. QED
    BY <2>1, <2>2, <2>3, <2>4
<1>3. S \in SUBSET Nat
  OBVIOUS
<1>4. S = Nat
  <2>. HIDE DEF S
  <2>. QED
    BY <1>1, <1>2, <1>3, Induction
<1>5. ASSUME NEW n \in 0 .. Most, k <= n
      PROVE  D[n][v] <= D[k][v]
  <2>1. n - k \in Nat /\ k + (n - k) = n /\ n <= Most
    BY <1>0, <1>5
  <2>2. n - k \in S
    <3>. HIDE DEF S
    <3>. QED
      BY <1>4, <2>1
  <2>. QED
    BY <2>1, <2>2
<1>. QED
  BY <1>5

LEMMA AtMostInf ==
  ASSUME NEW D, NEW g, AreLengths(D, g), NEW v \in Vertices, NEW n \in 0 .. Most
  PROVE  D[n][v] <= Inf
<1>1. Most \in Nat /\ 0 \in 0 .. Most /\ 0 <= n
  BY MostIsNat
<1>2. D[n][v] <= D[0][v]
  BY <1>1, LengthsFall
<1>3. D[0][v] <= Inf /\ D[0][v] \in Nat /\ D[n][v] \in Nat
  <2>1. D \in [0 .. Most -> [Vertices -> Nat]] /\ D[0][v] = IF v = g.root THEN 0 ELSE Inf
    BY DEF AreLengths
  <2>2. D[0] \in [Vertices -> Nat] /\ D[n] \in [Vertices -> Nat]
    BY <1>1, <2>1
  <2>. QED
    BY <2>1, <2>2, InfAssumption
<1>. QED
  BY <1>2, <1>3, InfAssumption

HasLabel(l, v) == l[v].state # "UNKNOWN"
IsSettled(l, v) == l[v].state = "SETTLED"
SettledIn(l) == {v \in Vertices : IsSettled(l, v)}
StaticLabel == [cost : Nat, edge : Static.edges \cup {NoEdge}, state : State]

\* The heap has the copies of the labels that wait.
Copied(l, h) ==
  /\ l \in [Vertices -> StaticLabel]
  /\ DOMAIN h = {v \in Vertices : l[v].state = "LABELED"}
  /\ \A v \in DOMAIN h : h[v] = l[v].cost

\* Labels are a tree of walks from the root.
Tree(l, g) ==
  /\ HasLabel(l, g.root) /\ l[g.root].cost = 0
  /\ \A v \in Vertices : HasLabel(l, v) /\ v # g.root =>
       LET e == l[v].edge
       IN  /\ e \in g.allowed /\ g.to[e] = v /\ IsSettled(l, g.from[e])
           /\ l[v].cost = l[g.from[e]].cost + g.cost[e]

\* What is settled costs no more than what waits, and has its edges relaxed but
\* for the open ones, which are those of a vertex settled last.
Relaxed(l, g, open) ==
  /\ \A u, v \in Vertices : IsSettled(l, u) /\ l[v].state = "LABELED" => l[u].cost <= l[v].cost
  /\ \A e \in g.allowed : IsSettled(l, g.from[e]) /\ e \notin open
                            => HasLabel(l, g.to[e]) /\ l[g.to[e]].cost <= l[g.from[e]].cost + g.cost[e]
  /\ \A e \in open : /\ e \in g.allowed /\ IsSettled(l, g.from[e])
                     /\ \A u \in SettledIn(l) : l[u].cost <= l[g.from[e]].cost

\* A label costs no less than the walks with one edge for every settled vertex; those
\* that are relaxed next, one edge less.
LongEnough(l, D, g, open) ==
  LET n == Cardinality(SettledIn(l))
  IN  /\ \A v \in Vertices : HasLabel(l, v) => D[n][v] <= l[v].cost
      /\ \A e \in open : n >= 1 /\ D[n - 1][g.from[e]] <= l[g.from[e]].cost

Half(l, h, g, open) ==
  /\ Graph(g) /\ Copied(l, h) /\ Tree(l, g) /\ Relaxed(l, g, open)
  /\ \A D : AreLengths(D, g) => LongEnough(l, D, g, open)

\* What is a half stays one if its variables do.
LEMMA SettledNumber ==
  ASSUME NEW l
  PROVE  Cardinality(SettledIn(l)) \in 0 .. Most
<1>1. SettledIn(l) \subseteq Vertices
  BY DEF SettledIn
<1>. QED
  BY <1>1, VerticesAssumption, FS_Subset, FS_CardinalityType DEF Most

LEMMA HalfInit ==
  ASSUME NEW l, NEW h, NEW g, Graph(g),
         l = [v \in Vertices |-> IF v = g.root THEN [cost |-> 0, edge |-> NoEdge, state |-> "LABELED"]
                                 ELSE [cost |-> Inf, edge |-> NoEdge, state |-> "UNKNOWN"]],
         h = [v \in {g.root} |-> 0]
  PROVE  /\ Half(l, h, g, {})
         /\ \A v \in Vertices : HasLabel(l, v) <=> v = g.root
<1>1. \A v \in Vertices : (HasLabel(l, v) <=> v = g.root) /\ ~ IsSettled(l, v)
  BY DEF HasLabel, IsSettled
<1>2. Copied(l, h)
  BY InfAssumption DEF Copied, Graph, StaticLabel, State
<1>3. Tree(l, g)
  BY <1>1 DEF Tree, Graph, HasLabel
<1>4. Relaxed(l, g, {})
  BY <1>1 DEF Relaxed, Graph
<1>5. SettledIn(l) = {}
  BY <1>1 DEF SettledIn
<1>6. ASSUME NEW D, AreLengths(D, g)
      PROVE  LongEnough(l, D, g, {})
  <2>1. Cardinality(SettledIn(l)) = 0
    BY <1>5, FS_EmptySet
  <2>2. D[0][g.root] = 0 /\ l[g.root].cost = 0
    BY <1>6 DEF AreLengths, Graph
  <2>3. ASSUME NEW v \in Vertices, HasLabel(l, v) PROVE D[0][v] <= l[v].cost
    <3>1. v = g.root
      BY <1>1, <2>3
    <3>2. D[0][v] = 0 /\ l[v].cost = 0
      BY <2>2, <3>1, Zenon
    <3>. QED
      BY <3>2
  <2>. QED
    BY <2>1, <2>3 DEF LongEnough
<1>. QED
  BY <1>1, <1>2, <1>3, <1>4, <1>6 DEF Half

\* What the two calls do to the labels and the heap of a side.
Extracted(l, h, v, l2, h2) ==
  /\ v \in DOMAIN h /\ \A w \in DOMAIN h : h[v] <= h[w]
  /\ h2 = [w \in DOMAIN h \ {v} |-> h[w]]
  /\ l2 = [l EXCEPT ![v] = [cost |-> l[v].cost, edge |-> l[v].edge, state |-> "SETTLED"]]

Taken(l, v, cost) == l[v].state = "UNKNOWN" \/ (l[v].state = "LABELED" /\ l[v].cost > cost)

Updated(l, h, v, cost, e, l2, h2) ==
  IF Taken(l, v, cost)
  THEN /\ l2 = [l EXCEPT ![v] = [cost |-> cost, edge |-> e, state |-> "LABELED"]]
       /\ h2 = [w \in DOMAIN h \cup {v} |-> IF w = v THEN cost ELSE h[w]]
  ELSE l2 = l /\ h2 = h

\* What a walk over e gets to from the label at its other end.
Over(l, g, e, v, cost) == v = g.to[e] /\ cost = l[g.from[e]].cost + g.cost[e]

SameLabels(l, l2) ==
  \A u \in Vertices : /\ l2[u].cost = l[u].cost /\ l2[u].edge = l[u].edge
                      /\ HasLabel(l2, u) <=> HasLabel(l, u)

\* Only v may have a new label, and one that is no worse than what was there or offered.
Relabelled(l, l2, v, cost) ==
  /\ v \in Vertices /\ cost \in Nat
  /\ \A u \in Vertices : u # v => l2[u] = l[u]
  /\ HasLabel(l2, v) /\ l2[v].cost <= cost
  /\ l2[v].cost = cost \/ (HasLabel(l, v) /\ l2[v].cost = l[v].cost)
  /\ HasLabel(l, v) => l2[v].cost <= l[v].cost

\* extractMin of a side.
LEMMA HalfExtract ==
  ASSUME NEW l, NEW h, NEW g, Half(l, h, g, {}), NEW v \in Vertices, NEW l2, NEW h2,
         Extracted(l, h, v, l2, h2)
  PROVE  /\ Half(l2, h2, g, {e \in g.allowed : g.from[e] = v})
         /\ SameLabels(l, l2)
<1>. DEFINE open == {e \in g.allowed : g.from[e] = v}
<1>. USE DEF Extracted
<1>0. Graph(g) /\ Copied(l, h) /\ Tree(l, g) /\ Relaxed(l, g, {})
  BY DEF Half
<1>1. l[v].state = "LABELED" /\ h[v] = l[v].cost /\ l \in [Vertices -> StaticLabel]
  BY <1>0 DEF Copied
<1>2. /\ \A u \in Vertices : l2[u].cost = l[u].cost /\ l2[u].edge = l[u].edge
      /\ \A u \in Vertices : HasLabel(l2, u) <=> HasLabel(l, u)
      /\ \A u \in Vertices : IsSettled(l2, u) <=> IsSettled(l, u) \/ u = v
      /\ \A u \in Vertices : l2[u].state = "LABELED" <=> l[u].state = "LABELED" /\ u # v
  BY <1>1 DEF HasLabel, IsSettled
<1>3. Copied(l2, h2)
  <2>1. l2 \in [Vertices -> StaticLabel]
    BY <1>1 DEF StaticLabel, State
  <2>. QED
    BY <1>0, <1>2, <2>1 DEF Copied
<1>4. \A e \in g.allowed : e \in Static.edges /\ g.from[e] \in Vertices /\ g.to[e] \in Vertices
  BY <1>0 DEF Graph
<1>5. Tree(l2, g)
  <2>1. HasLabel(l2, g.root) /\ l2[g.root].cost = 0
    BY <1>0, <1>2 DEF Tree, Graph
  <2>2. ASSUME NEW u \in Vertices, HasLabel(l2, u), u # g.root
        PROVE  LET e == l2[u].edge
               IN  /\ e \in g.allowed /\ g.to[e] = u /\ IsSettled(l2, g.from[e])
                   /\ l2[u].cost = l2[g.from[e]].cost + g.cost[e]
    <3>. DEFINE e == l[u].edge
    <3>1. /\ e \in g.allowed /\ g.to[e] = u /\ IsSettled(l, g.from[e])
          /\ l[u].cost = l[g.from[e]].cost + g.cost[e]
      BY <1>0, <1>2, <2>2 DEF Tree
    <3>. QED
      BY <1>2, <1>4, <3>1
  <2>. QED
    BY <2>1, <2>2 DEF Tree
<1>6. \A u \in Vertices : l[u].cost \in Nat
  BY <1>1 DEF StaticLabel
<1>7. \A u \in Vertices : l[u].state = "LABELED" => l[v].cost <= l[u].cost
  BY <1>0, <1>1 DEF Copied
<1>8. \A u \in Vertices : IsSettled(l, u) => l[u].cost <= l[v].cost
  BY <1>0, <1>1 DEF Relaxed
<1>9. Relaxed(l2, g, open)
  <2>1. \A u, w \in Vertices : IsSettled(l2, u) /\ l2[w].state = "LABELED" => l2[u].cost <= l2[w].cost
    BY <1>0, <1>2, <1>7 DEF Relaxed
  <2>2. ASSUME NEW e \in g.allowed, IsSettled(l2, g.from[e]), e \notin open
        PROVE  HasLabel(l2, g.to[e]) /\ l2[g.to[e]].cost <= l2[g.from[e]].cost + g.cost[e]
    <3>1. IsSettled(l, g.from[e])
      BY <1>2, <1>4, <2>2
    <3>2. HasLabel(l, g.to[e]) /\ l[g.to[e]].cost <= l[g.from[e]].cost + g.cost[e]
      BY <1>0, <3>1 DEF Relaxed
    <3>. QED
      BY <1>2, <1>4, <3>2
  <2>3. \A e \in open : /\ e \in g.allowed /\ IsSettled(l2, g.from[e])
                        /\ \A u \in SettledIn(l2) : l2[u].cost <= l2[g.from[e]].cost
    <3>1. ASSUME NEW u \in SettledIn(l2) PROVE l2[u].cost <= l2[v].cost
      <4>1. u \in Vertices /\ IsSettled(l2, u)
        BY DEF SettledIn
      <4>2. CASE u = v
        BY <1>2, <1>6, <4>1, <4>2
      <4>3. CASE u # v
        <5>1. l[u].cost <= l[v].cost
          BY <1>2, <1>8, <4>1, <4>3
        <5>. QED
          BY <1>2, <4>1, <5>1
      <4>. QED
        BY <4>2, <4>3
    <3>2. IsSettled(l2, v)
      BY <1>2
    <3>. QED
      BY <3>1, <3>2
  <2>. QED
    BY <2>1, <2>2, <2>3 DEF Relaxed
<1>10. SettledIn(l2) = SettledIn(l) \cup {v} /\ v \notin SettledIn(l)
  BY <1>1, <1>2 DEF SettledIn, IsSettled
<1>11. Cardinality(SettledIn(l2)) = Cardinality(SettledIn(l)) + 1
  <2>1. IsFiniteSet(SettledIn(l))
    BY VerticesAssumption, FS_Subset DEF SettledIn
  <2>. QED
    BY <1>10, <2>1, FS_AddElement
<1>12. ASSUME NEW D, AreLengths(D, g)
       PROVE  LongEnough(l2, D, g, open)
  <2>. DEFINE n == Cardinality(SettledIn(l))
  <2>1. n \in 0 .. Most - 1 /\ n + 1 \in 0 .. Most /\ n \in 0 .. Most /\ (n + 1) - 1 = n /\ n + 1 >= 1
    BY <1>11, SettledNumber, MostIsNat
  <2>2. \A u \in Vertices : HasLabel(l, u) => D[n][u] <= l[u].cost
    BY <1>12 DEF Half, LongEnough
  <2>3. \A u \in Vertices : D[n + 1][u] <= D[n][u] /\ D[n][u] \in Nat /\ D[n + 1][u] \in Nat
    BY <1>12, <2>1 DEF AreLengths
  <2>4. \A u \in Vertices : HasLabel(l2, u) => D[n + 1][u] <= l2[u].cost
    BY <1>2, <1>6, <2>2, <2>3
  <2>5. HasLabel(l, v)
    BY <1>1 DEF HasLabel
  <2>6. \A e \in open : D[n][g.from[e]] <= l2[g.from[e]].cost
    BY <1>2, <1>4, <2>2, <2>5
  <2>. QED
    BY <1>11, <2>1, <2>4, <2>6 DEF LongEnough
<1>. QED
  BY <1>0, <1>2, <1>3, <1>5, <1>9, <1>12 DEF Half, SameLabels

\* One relaxed edge of a side: the label is taken if it is the first one or cheaper.
LEMMA HalfRelax ==
  ASSUME NEW l, NEW h, NEW g, NEW open, Half(l, h, g, open), NEW e \in open, NEW l2, NEW h2,
         NEW cost, NEW v, Over(l, g, e, v, cost),
         Updated(l, h, v, cost, e, l2, h2)
  PROVE  /\ Half(l2, h2, g, open \ {e})
         /\ Relabelled(l, l2, v, cost)
<1>. USE DEF Updated, Taken, Over
<1>0. Graph(g) /\ Copied(l, h) /\ Tree(l, g) /\ Relaxed(l, g, open)
  BY DEF Half
<1>1. /\ e \in g.allowed /\ e \in Static.edges /\ g.from[e] \in Vertices /\ v \in Vertices
      /\ g.cost[e] \in Nat /\ g.root \in Vertices
      /\ l \in [Vertices -> StaticLabel] /\ \A u \in Vertices : l[u].cost \in Nat
      /\ \A d \in g.allowed : d \in Static.edges /\ g.from[d] \in Vertices /\ g.to[d] \in Vertices
                              /\ g.cost[d] \in Nat
  BY <1>0 DEF Graph, Relaxed, Copied, StaticLabel
<1>2. /\ cost \in Nat /\ IsSettled(l, g.from[e]) /\ l[g.from[e]].cost <= cost
      /\ \A u \in SettledIn(l) : l[u].cost <= cost
  <2>1. IsSettled(l, g.from[e]) /\ \A u \in SettledIn(l) : l[u].cost <= l[g.from[e]].cost
    BY <1>0 DEF Relaxed
  <2>2. \A u \in SettledIn(l) : u \in Vertices
    BY DEF SettledIn
  <2>. QED
    BY <1>1, <2>1, <2>2
<1>. DEFINE accepted == l[v].state = "UNKNOWN" \/ (l[v].state = "LABELED" /\ l[v].cost > cost)
<1>3. /\ \A u \in Vertices : u # v => l2[u] = l[u]
      /\ accepted => l2[v] = [cost |-> cost, edge |-> e, state |-> "LABELED"]
      /\ ~ accepted => l2[v] = l[v]
      /\ l2 \in [Vertices -> StaticLabel]
      /\ \A u \in Vertices : l2[u].state \in State
  BY <1>1, <1>2 DEF StaticLabel, State
<1>4. ~ accepted => HasLabel(l, v) /\ l[v].cost <= cost
  <2>1. l[v].state \in {"UNKNOWN", "LABELED", "SETTLED"}
    BY <1>1 DEF StaticLabel, State
  <2>2. CASE l[v].state = "SETTLED"
    BY <1>1, <1>2, <2>2 DEF SettledIn, IsSettled, HasLabel
  <2>3. CASE l[v].state = "LABELED"
    BY <1>1, <1>2, <2>3 DEF HasLabel
  <2>. QED
    BY <2>1, <2>2, <2>3
<1>5. /\ HasLabel(l2, v) /\ l2[v].cost <= cost
      /\ l2[v].cost = cost \/ (HasLabel(l, v) /\ l2[v].cost = l[v].cost)
      /\ HasLabel(l, v) => l2[v].cost <= l[v].cost
  BY <1>1, <1>2, <1>3, <1>4 DEF HasLabel
<1>6. /\ \A u \in Vertices : IsSettled(l2, u) <=> IsSettled(l, u)
      /\ \A u \in Vertices : IsSettled(l, u) => l2[u] = l[u]
      /\ \A u \in Vertices : HasLabel(l, u) => HasLabel(l2, u) /\ l2[u].cost <= l[u].cost
      /\ \A u \in Vertices : l2[u].cost \in Nat
  <2>1. IsSettled(l, v) => ~ accepted
    BY DEF IsSettled
  <2>2. IsSettled(l2, v) <=> IsSettled(l, v)
    BY <1>3, <2>1 DEF IsSettled
  <2>3. \A u \in Vertices : IsSettled(l2, u) <=> IsSettled(l, u)
    BY <1>3, <2>2 DEF IsSettled
  <2>4. \A u \in Vertices : IsSettled(l, u) => l2[u] = l[u]
    BY <1>3, <2>1
  <2>5. \A u \in Vertices : HasLabel(l, u) => HasLabel(l2, u) /\ l2[u].cost <= l[u].cost
    BY <1>1, <1>3, <1>5 DEF HasLabel
  <2>. QED
    BY <1>3, <2>3, <2>4, <2>5 DEF StaticLabel
<1>. HIDE DEF accepted
<1>7. Copied(l2, h2)
  <2>1. CASE accepted
    <3>1. /\ l2 = [l EXCEPT ![v] = [cost |-> cost, edge |-> e, state |-> "LABELED"]]
          /\ h2 = [w \in DOMAIN h \cup {v} |-> IF w = v THEN cost ELSE h[w]]
      BY <2>1 DEF accepted
    <3>2. ASSUME NEW u \in Vertices
          PROVE  l2[u].state = "LABELED" <=> l[u].state = "LABELED" \/ u = v
      <4>1. CASE u = v
        BY <1>3, <2>1, <4>1
      <4>2. CASE u # v
        BY <1>3, <4>2
      <4>. QED
        BY <4>1, <4>2
    <3>3. DOMAIN h2 = DOMAIN h \cup {v}
      BY <3>1
    <3>4. DOMAIN h2 = {u \in Vertices : l2[u].state = "LABELED"}
      BY <1>0, <1>1, <3>2, <3>3 DEF Copied
    <3>5. ASSUME NEW u \in DOMAIN h2 PROVE h2[u] = l2[u].cost
      <4>1. CASE u = v
        BY <1>3, <2>1, <3>1, <4>1
      <4>2. CASE u # v
        <5>1. u \in DOMAIN h /\ h2[u] = h[u]
          BY <3>1, <3>3, <4>2
        <5>2. h[u] = l[u].cost /\ u \in Vertices
          BY <1>0, <5>1 DEF Copied
        <5>. QED
          BY <1>3, <4>2, <5>1, <5>2
      <4>. QED
        BY <4>1, <4>2
    <3>. QED
      BY <1>3, <3>4, <3>5 DEF Copied
  <2>2. CASE ~ accepted
    BY <1>0, <2>2 DEF accepted
  <2>. QED
    BY <2>1, <2>2
<1>8. Tree(l2, g)
  <2>1. HasLabel(l2, g.root) /\ l2[g.root].cost = 0
    BY <1>0, <1>1, <1>6 DEF Tree
  <2>2. ASSUME NEW u \in Vertices, HasLabel(l2, u), u # g.root
        PROVE  LET d == l2[u].edge
               IN  /\ d \in g.allowed /\ g.to[d] = u /\ IsSettled(l2, g.from[d])
                   /\ l2[u].cost = l2[g.from[d]].cost + g.cost[d]
    <3>1. CASE l2[u] = l[u]
      <4>. DEFINE d == l[u].edge
      <4>1. /\ d \in g.allowed /\ g.to[d] = u /\ IsSettled(l, g.from[d])
            /\ l[u].cost = l[g.from[d]].cost + g.cost[d]
        BY <1>0, <2>2, <3>1 DEF Tree, HasLabel
      <4>. QED
        BY <1>1, <1>6, <3>1, <4>1
    <3>2. CASE u = v /\ accepted
      <4>1. l2[u].edge = e /\ l2[u].cost = cost
        BY <1>3, <3>2
      <4>2. l2[g.from[e]] = l[g.from[e]] /\ IsSettled(l2, g.from[e])
        BY <1>1, <1>2, <1>6
      <4>. QED
        BY <1>1, <3>2, <4>1, <4>2
    <3>. QED
      BY <1>3, <3>1, <3>2
  <2>. QED
    BY <2>1, <2>2 DEF Tree
<1>9. SettledIn(l2) = SettledIn(l)
  BY <1>6 DEF SettledIn
<1>10. Relaxed(l2, g, open \ {e})
  <2>1. ASSUME NEW u \in Vertices, NEW w \in Vertices, IsSettled(l2, u), l2[w].state = "LABELED"
        PROVE  l2[u].cost <= l2[w].cost
    <3>1. IsSettled(l, u) /\ l2[u] = l[u] /\ l[u].cost <= cost
      BY <1>2, <1>6, <2>1 DEF SettledIn
    <3>2. CASE l2[w] = l[w]
      BY <1>0, <2>1, <3>1, <3>2 DEF Relaxed
    <3>3. CASE w = v /\ accepted
      BY <1>3, <3>1, <3>3
    <3>. QED
      BY <1>3, <3>2, <3>3
  <2>2. ASSUME NEW d \in g.allowed, IsSettled(l2, g.from[d]), d \notin open \ {e}
        PROVE  HasLabel(l2, g.to[d]) /\ l2[g.to[d]].cost <= l2[g.from[d]].cost + g.cost[d]
    <3>1. IsSettled(l, g.from[d]) /\ l2[g.from[d]] = l[g.from[d]]
      BY <1>1, <1>6, <2>2
    <3>2. CASE d = e
      BY <1>5, <3>1, <3>2
    <3>3. CASE d # e
      <4>1. HasLabel(l, g.to[d]) /\ l[g.to[d]].cost <= l[g.from[d]].cost + g.cost[d]
        BY <1>0, <2>2, <3>1, <3>3 DEF Relaxed
      <4>. QED
        BY <1>1, <1>6, <3>1, <4>1
    <3>. QED
      BY <3>2, <3>3
  <2>3. ASSUME NEW d \in open \ {e}
        PROVE  /\ d \in g.allowed /\ IsSettled(l2, g.from[d])
               /\ \A u \in SettledIn(l2) : l2[u].cost <= l2[g.from[d]].cost
    <3>1. /\ d \in g.allowed /\ IsSettled(l, g.from[d])
          /\ \A u \in SettledIn(l) : l[u].cost <= l[g.from[d]].cost
      BY <1>0 DEF Relaxed
    <3>2. \A u \in SettledIn(l) : u \in Vertices /\ IsSettled(l, u)
      BY DEF SettledIn
    <3>. QED
      BY <1>1, <1>6, <1>9, <3>1, <3>2
  <2>. QED
    BY <2>1, <2>2, <2>3 DEF Relaxed
<1>11. ASSUME NEW D, AreLengths(D, g)
       PROVE  LongEnough(l2, D, g, open \ {e})
  <2>. DEFINE n == Cardinality(SettledIn(l))
  <2>0. LongEnough(l, D, g, open)
    BY <1>11 DEF Half
  <2>1. /\ \A u \in Vertices : HasLabel(l, u) => D[n][u] <= l[u].cost
        /\ \A d \in open : n >= 1 /\ D[n - 1][g.from[d]] <= l[g.from[d]].cost
    BY <2>0 DEF LongEnough
  <2>2. n \in 0 .. Most /\ n - 1 \in 0 .. Most - 1 /\ (n - 1) + 1 = n /\ n - 1 \in 0 .. Most
    BY <2>1, SettledNumber, MostIsNat
  <2>3. /\ \A u \in Vertices : D[n][u] \in Nat /\ D[n - 1][u] \in Nat
        /\ D[n][v] <= D[n - 1][v]
        /\ D[n - 1][g.from[e]] < Inf => D[n][v] <= D[n - 1][g.from[e]] + g.cost[e]
    <3>1. \A u \in Vertices : D[n][u] \in Nat /\ D[n - 1][u] \in Nat
      BY <1>11, <2>2 DEF AreLengths
    <3>2. /\ D[(n - 1) + 1][v] <= D[n - 1][v]
          /\ D[n - 1][g.from[e]] < Inf => D[(n - 1) + 1][v] <= D[n - 1][g.from[e]] + g.cost[e]
      <4>. HIDE DEF n
      <4>. QED
        BY <1>1, <1>11, <2>2 DEF AreLengths
    <3>. HIDE DEF n
    <3>. QED
      BY <2>2, <3>1, <3>2
  <2>4. D[n][v] <= Inf
    BY <1>1, <1>11, <2>2, AtMostInf
  <2>. HIDE DEF n
  <2>5. D[n][v] <= cost
    <3>1. D[n - 1][g.from[e]] <= l[g.from[e]].cost
      BY <2>1
    <3>2. D[n][v] \in Nat /\ D[n - 1][g.from[e]] \in Nat /\ l[g.from[e]].cost \in Nat /\ Inf \in Nat
      BY <1>1, <2>3, InfAssumption
    <3>3. CASE D[n - 1][g.from[e]] < Inf
      BY <1>1, <2>3, <3>1, <3>2, <3>3
    <3>4. CASE ~ (D[n - 1][g.from[e]] < Inf)
      BY <1>1, <1>2, <2>4, <3>1, <3>2, <3>4
    <3>. QED
      BY <3>3, <3>4
  <2>6. \A u \in Vertices : HasLabel(l2, u) => D[n][u] <= l2[u].cost
    <3>1. \A u \in Vertices : u # v => (HasLabel(l2, u) => D[n][u] <= l2[u].cost)
      BY <1>3, <2>1 DEF HasLabel
    <3>2. D[n][v] <= l2[v].cost
      BY <1>1, <1>5, <2>1, <2>5
    <3>. QED
      BY <3>1, <3>2
  <2>7. \A d \in open \ {e} : n >= 1 /\ D[n - 1][g.from[d]] <= l2[g.from[d]].cost
    <3>1. \A d \in open : d \in g.allowed /\ IsSettled(l, g.from[d])
      BY <1>0 DEF Relaxed
    <3>. QED
      BY <1>1, <1>6, <2>1, <3>1
  <2>. QED
    BY <1>9, <2>6, <2>7 DEF LongEnough, n
<1>. QED
  BY <1>0, <1>1, <1>2, <1>3, <1>5, <1>7, <1>8, <1>10, <1>11 DEF Half, Relabelled

-----------------------------------------------------------------------------
\* The best vertex at which two sides have met.
Met(l, m, f, s, best) ==
  /\ best \in Nat /\ best <= Inf /\ s \in Vertices /\ f \in BOOLEAN
  /\ \A v \in Vertices : HasLabel(l, v) /\ HasLabel(m, v) => best <= l[v].cost + m[v].cost
  /\ f => HasLabel(l, s) /\ HasLabel(m, s) /\ best = l[s].cost + m[s].cost /\ best < Inf
  /\ ~ f => best = Inf

Costs(l) == \A v \in Vertices : l[v].cost \in Nat

LEMMA MetIsSymmetric ==
  ASSUME NEW l, NEW m, NEW f, NEW s, NEW best, Met(l, m, f, s, best), Costs(l), Costs(m)
  PROVE  Met(m, l, f, s, best)
<1>1. ASSUME NEW v \in Vertices PROVE l[v].cost + m[v].cost = m[v].cost + l[v].cost
  <2>1. \A a, b \in Nat : a + b = b + a
    OBVIOUS
  <2>. QED
    BY <2>1 DEF Costs
<1>. QED
  BY <1>1 DEF Met

\* What Meet does.
Compared(m, v, cost, f, s, best, f2, s2, best2) ==
  \/ /\ HasLabel(m, v) /\ m[v].cost + cost < best
     /\ best2 = m[v].cost + cost /\ s2 = v /\ f2 = TRUE
  \/ /\ ~ (HasLabel(m, v) /\ m[v].cost + cost < best)
     /\ f2 = f /\ s2 = s /\ best2 = best

\* After a relaxed edge the sides are compared at its end, whether the label was
\* taken or not.
LEMMA MetRelax ==
  ASSUME NEW l, NEW m, NEW f, NEW s, NEW best, Met(l, m, f, s, best),
         NEW l2, NEW v, NEW cost, NEW f2, NEW s2, NEW best2,
         Costs(l), Costs(m), Costs(l2), Relabelled(l, l2, v, cost),
         Compared(m, v, cost, f, s, best, f2, s2, best2)
  PROVE  Met(l2, m, f2, s2, best2)
<1>. USE DEF Costs, Compared, Relabelled
<1>0. /\ best \in Nat /\ best <= Inf /\ s \in Vertices /\ f \in BOOLEAN /\ Inf \in Nat
      /\ \A u \in Vertices : HasLabel(l, u) /\ HasLabel(m, u) => best <= l[u].cost + m[u].cost
      /\ f => HasLabel(l, s) /\ HasLabel(m, s) /\ best = l[s].cost + m[s].cost /\ best < Inf
      /\ ~ f => best = Inf
  BY InfAssumption DEF Met
<1>1. \A u \in Vertices : u # v => (HasLabel(l2, u) <=> HasLabel(l, u))
  BY DEF HasLabel
<1>2. CASE HasLabel(m, v) /\ m[v].cost + cost < best
  <2>1. best2 = m[v].cost + cost /\ s2 = v /\ f2 = TRUE
    BY <1>2
  <2>2. l2[v].cost = cost
    BY <1>0, <1>2
  <2>3. best2 \in Nat /\ best2 < Inf /\ best2 < best /\ best2 = l2[v].cost + m[v].cost
    BY <1>0, <1>2, <2>1, <2>2
  <2>4. ASSUME NEW u \in Vertices, HasLabel(l2, u), HasLabel(m, u)
        PROVE  best2 <= l2[u].cost + m[u].cost
    <3>1. CASE u = v
      BY <2>3, <3>1
    <3>2. CASE u # v
      <4>1. best <= l[u].cost + m[u].cost /\ l2[u] = l[u]
        BY <1>0, <1>1, <2>4, <3>2
      <4>. QED
        BY <1>0, <2>3, <4>1
    <3>. QED
      BY <3>1, <3>2
  <2>. QED
    BY <1>0, <1>2, <2>1, <2>3, <2>4 DEF Met
<1>3. CASE ~ (HasLabel(m, v) /\ m[v].cost + cost < best)
  <2>1. f2 = f /\ s2 = s /\ best2 = best
    BY <1>3
  <2>2. ASSUME NEW u \in Vertices, HasLabel(l2, u), HasLabel(m, u)
        PROVE  best <= l2[u].cost + m[u].cost
    <3>1. CASE u = v
      BY <1>0, <1>3, <2>2, <3>1
    <3>2. CASE u # v
      BY <1>0, <1>1, <2>2, <3>2
    <3>. QED
      BY <3>1, <3>2
  <2>3. ASSUME f
        PROVE  HasLabel(l2, s) /\ HasLabel(m, s) /\ best = l2[s].cost + m[s].cost /\ best < Inf
    <3>1. CASE s = v
      BY <1>0, <1>3, <2>3, <3>1
    <3>2. CASE s # v
      BY <1>0, <1>1, <2>3, <3>2
    <3>. QED
      BY <3>1, <3>2
  <2>. QED
    BY <1>0, <2>1, <2>2, <2>3 DEF Met
<1>. QED
  BY <1>2, <1>3

\* Between relaxations, what a walk reaches is settled, or the walk is as long as
\* something that waits.
LEMMA SettledOrBeyond ==
  ASSUME NEW l, NEW h, NEW g, Half(l, h, g, {}), NEW D, AreLengths(D, g)
  PROVE  \A n \in 0 .. Most : \A v \in Vertices : D[n][v] < Inf =>
           \/ IsSettled(l, v) /\ l[v].cost <= D[n][v]
           \/ \E w \in DOMAIN h : h[w] <= D[n][v]
<1>. DEFINE Right(n) == \A v \in Vertices : D[n][v] < Inf =>
                          \/ IsSettled(l, v) /\ l[v].cost <= D[n][v]
                          \/ \E w \in DOMAIN h : h[w] <= D[n][v]
            S == {n \in Nat : n <= Most => Right(n)}
<1>0. Graph(g) /\ Copied(l, h) /\ Tree(l, g) /\ Relaxed(l, g, {}) /\ Most \in Nat
  BY MostIsNat DEF Half
<1>1. /\ \A e \in g.allowed : g.from[e] \in Vertices /\ g.to[e] \in Vertices /\ g.cost[e] \in Nat
      /\ \A v \in Vertices : l[v].cost \in Nat
      /\ \A n \in 0 .. Most : \A v \in Vertices : D[n][v] \in Nat
  BY <1>0 DEF Graph, Copied, StaticLabel, AreLengths
<1>2. ASSUME NEW v \in Vertices, HasLabel(l, v)
      PROVE  IsSettled(l, v) \/ (v \in DOMAIN h /\ h[v] = l[v].cost)
  BY <1>0, <1>2 DEF Copied, HasLabel, IsSettled, StaticLabel, State
<1>3. 0 \in S
  <2>1. D[0][g.root] = 0 /\ g.root \in Vertices /\ HasLabel(l, g.root) /\ l[g.root].cost = 0
    BY <1>0 DEF AreLengths, Graph, Tree
  <2>2. ASSUME NEW v \in Vertices, D[0][v] < Inf
        PROVE  v = g.root
    BY <2>2, InfAssumption DEF AreLengths
  <2>3. Right(0)
    BY <1>2, <2>1, <2>2
  <2>. QED
    BY <2>3
<1>4. ASSUME NEW n \in S
      PROVE  n + 1 \in S
  <2>. SUFFICES ASSUME n + 1 <= Most, NEW v \in Vertices, D[n + 1][v] < Inf
                PROVE  \/ IsSettled(l, v) /\ l[v].cost <= D[n + 1][v]
                       \/ \E w \in DOMAIN h : h[w] <= D[n + 1][v]
    OBVIOUS
  <2>1. n \in Nat /\ n \in 0 .. Most - 1 /\ n \in 0 .. Most /\ n + 1 \in 0 .. Most /\ n <= Most
    BY <1>0
  <2>2. Right(n)
    BY <2>1
  <2>3. CASE D[n + 1][v] = D[n][v]
    BY <2>2, <2>3
  <2>4. CASE D[n + 1][v] # D[n][v]
    <3>1. PICK e \in g.allowed : /\ g.to[e] = v /\ D[n][g.from[e]] < Inf
                                 /\ D[n + 1][v] = D[n][g.from[e]] + g.cost[e]
      BY <2>1, <2>4 DEF AreLengths
    <3>2. D[n][g.from[e]] \in Nat /\ g.cost[e] \in Nat /\ g.from[e] \in Vertices
      BY <1>1, <2>1
    <3>3. CASE \E w \in DOMAIN h : h[w] <= D[n][g.from[e]]
      <4>1. PICK w \in DOMAIN h : h[w] <= D[n][g.from[e]]
        BY <3>3
      <4>2. h[w] \in Nat
        BY <1>0, <1>1 DEF Copied
      <4>. QED
        BY <3>1, <3>2, <4>1, <4>2
    <3>4. CASE IsSettled(l, g.from[e]) /\ l[g.from[e]].cost <= D[n][g.from[e]]
      <4>1. HasLabel(l, v) /\ l[v].cost <= l[g.from[e]].cost + g.cost[e]
        BY <1>0, <3>1, <3>4 DEF Relaxed
      <4>2. l[v].cost <= D[n + 1][v]
        BY <1>1, <3>1, <3>2, <3>4, <4>1
      <4>. QED
        BY <1>2, <4>1, <4>2
    <3>. QED
      BY <2>2, <3>1, <3>2, <3>3, <3>4
  <2>. QED
    BY <2>3, <2>4
<1>5. S \in SUBSET Nat
  OBVIOUS
<1>6. S = Nat
  <2>. HIDE DEF S
  <2>. QED
    BY <1>3, <1>4, <1>5, Induction
<1>7. \A n \in 0 .. Most : n \in Nat /\ n <= Most
  BY <1>0
<1>. QED
  BY <1>6, <1>7

Reverse(g, r) == r.allowed = g.allowed /\ r.from = g.to /\ r.to = g.from /\ r.cost = g.cost

\* The walk from a settled vertex to the other end meets the other side, or leaves
\* what is settled where the two sides together are as long as their heaps say.
LEMMA MeetsOrBeyond ==
  ASSUME NEW l, NEW h, NEW g, Half(l, h, g, {}),
         NEW m, NEW k, NEW r, Half(m, k, r, {}), Reverse(g, r),
         NEW D, AreLengths(D, r),
         NEW f, NEW s, NEW best, Met(l, m, f, s, best)
  PROVE  \A n \in 0 .. Most : \A v \in Vertices : IsSettled(l, v) /\ D[n][v] < Inf =>
           \/ best <= l[v].cost + D[n][v]
           \/ \E w \in DOMAIN h, x \in DOMAIN k : h[w] + k[x] <= l[v].cost + D[n][v]
<1>. DEFINE Right(n) == \A v \in Vertices : IsSettled(l, v) /\ D[n][v] < Inf =>
                          \/ best <= l[v].cost + D[n][v]
                          \/ \E w \in DOMAIN h, x \in DOMAIN k : h[w] + k[x] <= l[v].cost + D[n][v]
            S == {n \in Nat : n <= Most => Right(n)}
<1>0. /\ Graph(g) /\ Copied(l, h) /\ Tree(l, g) /\ Relaxed(l, g, {}) /\ Most \in Nat
      /\ Graph(r) /\ Copied(m, k) /\ Tree(m, r)
  BY MostIsNat DEF Half
<1>1. /\ \A e \in r.allowed : /\ r.from[e] \in Vertices /\ r.to[e] \in Vertices /\ r.cost[e] \in Nat
                              /\ e \in g.allowed /\ g.from[e] = r.to[e] /\ g.to[e] = r.from[e]
                              /\ g.cost[e] = r.cost[e]
      /\ \A v \in Vertices : l[v].cost \in Nat /\ m[v].cost \in Nat
      /\ \A n \in 0 .. Most : \A v \in Vertices : D[n][v] \in Nat
      /\ \A w \in DOMAIN h : h[w] \in Nat
      /\ \A x \in DOMAIN k : k[x] \in Nat
      /\ best \in Nat
  <2>1. \A v \in Vertices : l[v].cost \in Nat /\ m[v].cost \in Nat
    BY <1>0 DEF Copied, StaticLabel
  <2>2. \A n \in 0 .. Most : \A v \in Vertices : D[n][v] \in Nat
    BY DEF AreLengths
  <2>3. /\ \A w \in DOMAIN h : h[w] \in Nat
        /\ \A x \in DOMAIN k : k[x] \in Nat
    BY <1>0, <2>1 DEF Copied
  <2>4. \A e \in r.allowed : /\ r.from[e] \in Vertices /\ r.to[e] \in Vertices /\ r.cost[e] \in Nat
                             /\ e \in g.allowed /\ g.from[e] = r.to[e] /\ g.to[e] = r.from[e]
                             /\ g.cost[e] = r.cost[e]
    BY <1>0 DEF Graph, Reverse
  <2>. QED
    BY <2>1, <2>2, <2>3, <2>4 DEF Met
<1>2. ASSUME NEW v \in Vertices, HasLabel(l, v)
      PROVE  IsSettled(l, v) \/ (v \in DOMAIN h /\ h[v] = l[v].cost)
  BY <1>0, <1>2 DEF Copied, HasLabel, IsSettled, StaticLabel, State
<1>3. \A v \in Vertices : HasLabel(l, v) /\ HasLabel(m, v) => best <= l[v].cost + m[v].cost
  BY DEF Met
<1>4. 0 \in S
  <2>1. D[0][r.root] = 0 /\ r.root \in Vertices /\ HasLabel(m, r.root) /\ m[r.root].cost = 0
    BY <1>0 DEF AreLengths, Graph, Tree
  <2>2. ASSUME NEW v \in Vertices, D[0][v] < Inf
        PROVE  v = r.root
    BY <2>2, InfAssumption DEF AreLengths
  <2>3. ASSUME NEW v \in Vertices, IsSettled(l, v), D[0][v] < Inf
        PROVE  best <= l[v].cost + D[0][v]
    <3>1. v = r.root /\ HasLabel(l, v)
      BY <2>2, <2>3 DEF HasLabel, IsSettled
    <3>2. best <= l[v].cost + m[v].cost /\ m[v].cost = D[0][v]
      BY <1>3, <2>1, <3>1
    <3>. QED
      BY <3>2
  <2>4. Right(0)
    BY <2>3
  <2>. QED
    BY <2>4
<1>5. ASSUME NEW n \in S
      PROVE  n + 1 \in S
  <2>. SUFFICES ASSUME n + 1 <= Most, NEW v \in Vertices, IsSettled(l, v), D[n + 1][v] < Inf
                PROVE  \/ best <= l[v].cost + D[n + 1][v]
                       \/ \E w \in DOMAIN h, x \in DOMAIN k : h[w] + k[x] <= l[v].cost + D[n + 1][v]
    OBVIOUS
  <2>1. n \in Nat /\ n \in 0 .. Most - 1 /\ n \in 0 .. Most /\ n + 1 \in 0 .. Most /\ n <= Most
    BY <1>0
  <2>2. Right(n)
    BY <2>1
  <2>3. CASE D[n + 1][v] = D[n][v]
    BY <2>2, <2>3
  <2>4. CASE D[n + 1][v] # D[n][v]
    <3>1. PICK e \in r.allowed : /\ r.to[e] = v /\ D[n][r.from[e]] < Inf
                                 /\ D[n + 1][v] = D[n][r.from[e]] + r.cost[e]
      BY <2>1, <2>4 DEF AreLengths
    <3>. DEFINE y == r.from[e]
    <3>2. /\ y \in Vertices /\ e \in g.allowed /\ g.from[e] = v /\ g.to[e] = y
          /\ g.cost[e] = r.cost[e] /\ r.cost[e] \in Nat /\ D[n][y] \in Nat /\ D[n][y] < Inf
          /\ D[n + 1][v] = D[n][y] + r.cost[e]
      BY <1>1, <2>1, <3>1
    <3>3. HasLabel(l, y) /\ l[y].cost <= l[v].cost + r.cost[e]
      BY <1>0, <3>2 DEF Relaxed
    <3>. HIDE DEF y
    <3>4. l[y].cost \in Nat /\ l[v].cost \in Nat /\ l[y].cost + D[n][y] <= l[v].cost + D[n + 1][v]
      BY <1>1, <3>2, <3>3
    <3>5. CASE IsSettled(l, y)
      <4>1. \/ best <= l[y].cost + D[n][y]
            \/ \E w \in DOMAIN h, x \in DOMAIN k : h[w] + k[x] <= l[y].cost + D[n][y]
        BY <2>2, <3>2, <3>5
      <4>2. \A c \in Nat : c <= l[y].cost + D[n][y] => c <= l[v].cost + D[n + 1][v]
        BY <3>2, <3>4
      <4>. QED
        BY <1>1, <4>1, <4>2
    <3>6. CASE ~ IsSettled(l, y)
      <4>1. y \in DOMAIN h /\ h[y] = l[y].cost
        BY <1>2, <3>2, <3>3, <3>6
      <4>2. \/ IsSettled(m, y) /\ m[y].cost <= D[n][y]
            \/ \E x \in DOMAIN k : k[x] <= D[n][y]
        BY <2>1, <3>2, SettledOrBeyond
      <4>3. CASE IsSettled(m, y) /\ m[y].cost <= D[n][y]
        <5>1. best <= l[y].cost + m[y].cost
          BY <1>3, <3>2, <3>3, <4>3 DEF HasLabel, IsSettled
        <5>. QED
          BY <1>1, <3>2, <3>4, <4>3, <5>1
      <4>4. CASE \E x \in DOMAIN k : k[x] <= D[n][y]
        <5>1. PICK x \in DOMAIN k : k[x] <= D[n][y]
          BY <4>4
        <5>2. h[y] + k[x] <= l[v].cost + D[n + 1][v]
          BY <1>1, <3>2, <3>4, <4>1, <5>1
        <5>. QED
          BY <4>1, <5>2
      <4>. QED
        BY <4>2, <4>3, <4>4
    <3>. QED
      BY <3>5, <3>6
  <2>. QED
    BY <2>3, <2>4
<1>6. S \in SUBSET Nat
  OBVIOUS
<1>7. S = Nat
  <2>. HIDE DEF S
  <2>. QED
    BY <1>4, <1>5, <1>6, Induction
<1>8. \A n \in 0 .. Most : n \in Nat /\ n <= Most
  BY <1>0
<1>. QED
  BY <1>7, <1>8

\* No walk through any vertex is shorter than the best meeting, but for those that are as
\* long as what waits on the two sides.
LEMMA NothingShorter ==
  ASSUME NEW l, NEW h, NEW g, Half(l, h, g, {}),
         NEW m, NEW k, NEW r, Half(m, k, r, {}), Reverse(g, r),
         NEW D, AreLengths(D, g), NEW E, AreLengths(E, r),
         NEW f, NEW s, NEW best, Met(l, m, f, s, best), NEW v \in Vertices
  PROVE  \/ best <= D[Most][v] + E[Most][v]
         \/ \E w \in DOMAIN h, x \in DOMAIN k : h[w] + k[x] <= D[Most][v] + E[Most][v]
<1>0. /\ Most \in 0 .. Most /\ best \in Nat /\ best <= Inf /\ Inf \in Nat
      /\ D[Most][v] \in Nat /\ E[Most][v] \in Nat
      /\ \A u \in Vertices : l[u].cost \in Nat /\ m[u].cost \in Nat
      /\ \A w \in DOMAIN h : h[w] \in Nat
      /\ \A x \in DOMAIN k : k[x] \in Nat
  <2>1. Most \in 0 .. Most
    BY MostIsNat
  <2>2. \A u \in Vertices : l[u].cost \in Nat /\ m[u].cost \in Nat
    BY DEF Half, Copied, StaticLabel
  <2>3. /\ \A w \in DOMAIN h : h[w] \in Nat
        /\ \A x \in DOMAIN k : k[x] \in Nat
    BY <2>2 DEF Half, Copied
  <2>4. D[Most][v] \in Nat /\ E[Most][v] \in Nat
    BY <2>1 DEF AreLengths
  <2>. QED
    BY <2>1, <2>2, <2>3, <2>4, InfAssumption DEF Met
<1>. SUFFICES ASSUME D[Most][v] < Inf, E[Most][v] < Inf
              PROVE  \/ best <= D[Most][v] + E[Most][v]
                     \/ \E w \in DOMAIN h, x \in DOMAIN k : h[w] + k[x] <= D[Most][v] + E[Most][v]
  BY <1>0
<1>1. \/ IsSettled(l, v) /\ l[v].cost <= D[Most][v]
      \/ \E w \in DOMAIN h : h[w] <= D[Most][v]
  BY <1>0, SettledOrBeyond
<1>2. \/ IsSettled(m, v) /\ m[v].cost <= E[Most][v]
      \/ \E x \in DOMAIN k : k[x] <= E[Most][v]
  BY <1>0, SettledOrBeyond
<1>3. CASE IsSettled(l, v) /\ l[v].cost <= D[Most][v]
  <2>1. \/ best <= l[v].cost + E[Most][v]
        \/ \E w \in DOMAIN h, x \in DOMAIN k : h[w] + k[x] <= l[v].cost + E[Most][v]
    BY <1>0, <1>3, MeetsOrBeyond
  <2>2. \A c \in Nat : c <= l[v].cost + E[Most][v] => c <= D[Most][v] + E[Most][v]
    BY <1>0, <1>3
  <2>. QED
    BY <1>0, <2>1, <2>2
<1>4. CASE IsSettled(m, v) /\ m[v].cost <= E[Most][v]
  <2>1. Reverse(r, g)
    BY DEF Reverse
  <2>2. Met(m, l, f, s, best)
    BY <1>0, MetIsSymmetric DEF Costs
  <2>3. \/ best <= m[v].cost + D[Most][v]
        \/ \E w \in DOMAIN k, x \in DOMAIN h : k[w] + h[x] <= m[v].cost + D[Most][v]
    BY <1>0, <1>4, <2>1, <2>2, MeetsOrBeyond
  <2>4. \A c \in Nat : c <= m[v].cost + D[Most][v] => c <= D[Most][v] + E[Most][v]
    BY <1>0, <1>4
  <2>5. \A w \in DOMAIN k, x \in DOMAIN h : k[w] + h[x] = h[x] + k[w]
    BY <1>0
  <2>. QED
    BY <1>0, <2>3, <2>4, <2>5
<1>5. CASE (\E w \in DOMAIN h : h[w] <= D[Most][v]) /\ (\E x \in DOMAIN k : k[x] <= E[Most][v])
  <2>1. PICK w \in DOMAIN h : h[w] <= D[Most][v]
    BY <1>5
  <2>2. PICK x \in DOMAIN k : k[x] <= E[Most][v]
    BY <1>5
  <2>3. h[w] + k[x] <= D[Most][v] + E[Most][v]
    BY <1>0, <2>1, <2>2
  <2>. QED
    BY <2>3
<1>. QED
  BY <1>1, <1>2, <1>3, <1>4, <1>5

\* The labels of a side are lengths of walks that need not be longer than there are vertices.
LEMMA LabelIsLength ==
  ASSUME NEW l, NEW h, NEW g, NEW open, Half(l, h, g, open), NEW D, AreLengths(D, g),
         NEW v \in Vertices, HasLabel(l, v)
  PROVE  D[Most][v] <= l[v].cost
<1>. DEFINE n == Cardinality(SettledIn(l))
<1>1. D[n][v] <= l[v].cost
  BY DEF Half, LongEnough
<1>2. n \in 0 .. Most /\ Most \in 0 .. Most /\ n <= Most
  BY SettledNumber, MostIsNat
<1>. HIDE DEF n
<1>3. D[Most][v] <= D[n][v]
  BY <1>2, LengthsFall
<1>4. D[Most][v] \in Nat /\ D[n][v] \in Nat /\ l[v].cost \in Nat
  <2>1. l[v].cost \in Nat
    BY DEF Half, Copied, StaticLabel
  <2>. QED
    BY <1>2, <2>1 DEF AreLengths
<1>. QED
  BY <1>1, <1>3, <1>4

-----------------------------------------------------------------------------
\* The two graphs of a call.
Fwd == [root |-> query.source, allowed |-> query.forward, from |-> Static.source,
        to |-> Static.target, cost |-> costs]
Bwd == [root |-> query.target, allowed |-> query.backward, from |-> Static.target,
        to |-> Static.source, cost |-> costs]

Open(s) == IF side = s THEN pending ELSE {}

\* The labels of both sides and the meeting.
Sides ==
  /\ costs \in Static.costs /\ query \in Static.queries
  /\ side \in {"forward", "backward"}
  /\ Half(labels, heap, Fwd, Open("forward"))
  /\ Half(blabels, bheap, Bwd, Open("backward"))
  /\ Met(labels, blabels, found, split, splitValue)

\* What the outcome says, from the end of the loop on.
Verdict ==
  /\ otherPc \in {"prepend", "append", "found"} =>
       /\ splitValue = Bi!Optimum
       /\ Bi!bounded => splitValue <= query.bound
  /\ otherPc = "notFound" => Bi!Optimum >= Inf \/ (Bi!bounded /\ Bi!Optimum > query.bound)

LEMMA BiArgs ==
  ASSUME costs \in Static.costs, query \in Static.queries
  PROVE  /\ Graph(Fwd) /\ Graph(Bwd) /\ Reverse(Fwd, Bwd)
         /\ query.source \in Vertices /\ query.target \in Vertices /\ query.bound \in Nat
<1>1. query \in Bi!Query /\ query.forward = query.backward
  BY StaticAssumption
<1>. QED
  BY <1>1, StaticAssumption DEF Bi!Query, Graph, Fwd, Bwd, Reverse

\* The reference is the least sum of lengths from both sides over the vertices.
LEMMA OptimumIs ==
  ASSUME costs \in Static.costs, query \in Static.queries
  PROVE  \E D, E : /\ AreLengths(D, Fwd) /\ AreLengths(E, Bwd)
                   /\ \A v \in Vertices : D[Most][v] \in Nat /\ E[Most][v] \in Nat
                   /\ \E v \in Vertices : Bi!Optimum = D[Most][v] + E[Most][v]
                   /\ \A v \in Vertices : Bi!Optimum <= D[Most][v] + E[Most][v]
<1>1. /\ Graph(Fwd) /\ Graph(Bwd) /\ Fwd.cost = costs /\ Bwd.cost = costs
      /\ query.source \in Vertices
  BY BiArgs DEF Fwd, Bwd
<1>2. PICK D : AreLengths(D, Fwd) /\ Bi!Distances(Fwd.root, Fwd.allowed, Fwd.from, Fwd.to) = D[Most]
  BY <1>1, LengthsExist
<1>3. PICK E : AreLengths(E, Bwd) /\ Bi!Distances(Bwd.root, Bwd.allowed, Bwd.from, Bwd.to) = E[Most]
  BY <1>1, LengthsExist
<1>. DEFINE T == {D[Most][v] + E[Most][v] : v \in Vertices}
<1>4. Bi!Optimum = Bi!Minimum(T)
  <2>1. /\ Bi!Distances(query.source, query.forward, Static.source, Static.target) = D[Most]
        /\ Bi!Distances(query.target, query.backward, Static.target, Static.source) = E[Most]
    BY <1>2, <1>3 DEF Fwd, Bwd
  <2>. QED
    BY <2>1, Zenon DEF Bi!Optimum
<1>5. \A v \in Vertices : D[Most][v] \in Nat /\ E[Most][v] \in Nat
  <2>1. Most \in 0 .. Most
    BY MostIsNat
  <2>2. D \in [0 .. Most -> [Vertices -> Nat]] /\ E \in [0 .. Most -> [Vertices -> Nat]]
    BY <1>2, <1>3 DEF AreLengths
  <2>3. D[Most] \in [Vertices -> Nat] /\ E[Most] \in [Vertices -> Nat]
    BY <2>1, <2>2
  <2>. QED
    BY <2>3
<1>6. T \in SUBSET Nat /\ T # {}
  BY <1>1, <1>5
<1>7. Bi!Minimum(T) \in T /\ \A m \in T : Bi!Minimum(T) <= m
  <2>. HIDE DEF T
  <2>. QED
    BY <1>6, LeastIsMinimum
<1>. QED
  BY <1>2, <1>3, <1>4, <1>5, <1>7

LEMMA OptimumStays ==
  ASSUME UNCHANGED <<costs, query>>
  PROVE  Bi!Optimum' = Bi!Optimum
<1>1. \A r, a, f, t : Bi!Distances(r, a, f, t)' = Bi!Distances(r, a, f, t)
  BY SMT DEF Bi!Distances
<1>. QED
  BY <1>1 DEF Bi!Optimum

\* The top of a heap costs no more than anything in it.
LEMMA LeastIsTop ==
  ASSUME NEW h, NEW w \in DOMAIN h, \A v \in DOMAIN h : h[v] \in Nat
  PROVE  Bi!Least(h) \in Nat /\ \A v \in DOMAIN h : Bi!Least(h) <= h[v]
<1>. DEFINE T == {h[v] : v \in DOMAIN h}
<1>1. T \in SUBSET Nat /\ T # {}
  OBVIOUS
<1>2. \E n \in T : \A m \in T : n <= m
  <2>. HIDE DEF T
  <2>. QED
    BY <1>1, LeastExists
<1>3. \E n \in T : \A v \in DOMAIN h : n <= h[v]
  BY <1>2
<1>4. Bi!Least(h) \in T /\ \A v \in DOMAIN h : Bi!Least(h) <= h[v]
  BY <1>3, Zenon DEF Bi!Least
<1>. QED
  BY <1>1, <1>4

\* When the loop is left the best meeting is the optimum, or nothing is within the bound.
LEMMA StopIsRight ==
  ASSUME Sides, pending = {}, otherPc = "search", ~ Bi!GoOn
  PROVE  /\ Bi!Optimum \in Nat
         /\ found => Bi!Optimum <= splitValue
         /\ splitValue <= Bi!Optimum \/ (Bi!bounded /\ Bi!Optimum > query.bound)
<1>1. /\ Half(labels, heap, Fwd, {}) /\ Half(blabels, bheap, Bwd, {})
      /\ Met(labels, blabels, found, split, splitValue)
      /\ costs \in Static.costs /\ query \in Static.queries
  BY DEF Sides, Open
<1>2. Reverse(Fwd, Bwd) /\ query.bound \in Nat
  BY <1>1, BiArgs
<1>3. PICK D, E : /\ AreLengths(D, Fwd) /\ AreLengths(E, Bwd)
                  /\ \A v \in Vertices : D[Most][v] \in Nat /\ E[Most][v] \in Nat
                  /\ \E v \in Vertices : Bi!Optimum = D[Most][v] + E[Most][v]
                  /\ \A v \in Vertices : Bi!Optimum <= D[Most][v] + E[Most][v]
  BY <1>1, OptimumIs
<1>4. PICK v \in Vertices : Bi!Optimum = D[Most][v] + E[Most][v]
  BY <1>3
<1>5. Bi!Optimum \in Nat /\ splitValue \in Nat
  BY <1>1, <1>3, <1>4 DEF Met
<1>6. ASSUME found
      PROVE  Bi!Optimum <= splitValue
  <2>1. /\ split \in Vertices /\ HasLabel(labels, split) /\ HasLabel(blabels, split)
        /\ splitValue = labels[split].cost + blabels[split].cost
    BY <1>1, <1>6 DEF Met
  <2>2. D[Most][split] <= labels[split].cost /\ E[Most][split] <= blabels[split].cost
    BY <1>1, <1>3, <2>1, LabelIsLength
  <2>3. labels[split].cost \in Nat /\ blabels[split].cost \in Nat
    BY <1>1, <2>1 DEF Half, Copied, StaticLabel
  <2>4. Bi!Optimum <= D[Most][split] + E[Most][split] /\ D[Most][split] \in Nat /\ E[Most][split] \in Nat
    BY <1>3, <2>1
  <2>. QED
    BY <1>5, <2>1, <2>2, <2>3, <2>4
<1>7. \/ splitValue <= Bi!Optimum
      \/ \E w \in DOMAIN heap, x \in DOMAIN bheap : heap[w] + bheap[x] <= Bi!Optimum
  BY <1>1, <1>2, <1>3, <1>4, NothingShorter
<1>8. ASSUME NEW w \in DOMAIN heap, NEW x \in DOMAIN bheap, heap[w] + bheap[x] <= Bi!Optimum
      PROVE  splitValue <= Bi!Optimum \/ (Bi!bounded /\ Bi!Optimum > query.bound)
  <2>1. (\A u \in DOMAIN heap : heap[u] \in Nat) /\ (\A u \in DOMAIN bheap : bheap[u] \in Nat)
    BY <1>1 DEF Half, Copied, StaticLabel
  <2>2. /\ Bi!Least(heap) \in Nat /\ Bi!Least(heap) <= heap[w]
        /\ Bi!Least(bheap) \in Nat /\ Bi!Least(bheap) <= bheap[x]
    BY <2>1, LeastIsTop
  <2>3. Bi!bestValue \in Nat /\ Bi!bestValue <= Bi!Optimum
    BY <1>5, <1>8, <2>1, <2>2 DEF Bi!bestValue
  <2>4. ~ (Bi!bestValue < splitValue) \/ (Bi!bounded /\ Bi!bestValue > query.bound)
    BY DEF Bi!GoOn, Bi!F!IsEmpty, Bi!B!IsEmpty
  <2>. QED
    BY <1>2, <1>5, <2>3, <2>4
<1>. QED
  BY <1>5, <1>6, <1>7, <1>8

-----------------------------------------------------------------------------
\* Where a sequence of edges has come to after i of them, if it starts at u.
After(p, i, u) == IF i = 0 THEN u ELSE Static.target[p[i]]

Walk(p, u) ==
  /\ p \in Seq(Static.edges) /\ u \in Vertices
  /\ \A i \in 1 .. Len(p) : Static.source[p[i]] = After(p, i - 1, u)

Ends(e, w, u) == e \in Static.edges /\ Static.source[e] = w /\ Static.target[e] = u

\* An edge over which a label of a side was reached.
Tight(l, g, e) == e \in g.allowed /\ l[g.to[e]].cost = l[g.from[e]].cost + g.cost[e]
Along(l, g, p, i, j) == \A k \in i .. j : Tight(l, g, p[k])

EndOf(p, u) == After(p, Len(p), u)
AllAlong(l, g, p) == Along(l, g, p, 1, Len(p))
IsPrepended(q, e, p) == q = <<e>> \o p
IsAppended(q, p, e) == q = Append(p, e)

\* A walk that comes to s over labels of the forward side and goes on over those of the other.
Parts(p, u, s, l, f, b, r) ==
  \E m \in 0 .. Len(p) :
    After(p, m, u) = s /\ Along(l, f, p, 1, m) /\ Along(b, r, p, m + 1, Len(p))

LEMMA StaticEnds ==
  /\ \A e \in Static.edges : Static.source[e] \in Vertices /\ Static.target[e] \in Vertices
  /\ \A c \in Static.costs : \A e \in Static.edges : c[e] \in Nat
BY StaticAssumption

LEMMA WalkConnects ==
  ASSUME NEW p, NEW u, Walk(p, u)
  PROVE  Bi!Connects(p, u, EndOf(p, u))
<1>. USE DEF EndOf
<1>1. Len(p) \in Nat /\ p \in Seq(Static.edges)
  BY DEF Walk
<1>2. CASE p = <<>>
  <2>1. Len(p) = 0
    BY <1>2
  <2>. QED
    BY <1>2, <2>1 DEF Bi!Connects, After
<1>3. CASE p # <<>>
  <2>1. Len(p) # 0 /\ 1 \in 1 .. Len(p)
    BY <1>1, <1>3
  <2>2. Static.source[p[1]] = u
    BY <2>1 DEF Walk, After
  <2>3. ASSUME NEW i \in 1 .. Len(p) - 1
        PROVE  Static.target[p[i]] = Static.source[p[i + 1]]
    <3>1. i + 1 \in 1 .. Len(p) /\ (i + 1) - 1 = i /\ i # 0
      BY <1>1
    <3>. QED
      BY <3>1 DEF Walk, After
  <2>. QED
    BY <1>3, <2>1, <2>2, <2>3 DEF Bi!Connects, After
<1>. QED
  BY <1>2, <1>3

LEMMA WalkPrepended ==
  ASSUME NEW p, NEW u, Walk(p, u), NEW e, NEW w, Ends(e, w, u), NEW q, IsPrepended(q, e, p),
         NEW l, NEW g, Tight(l, g, e), AllAlong(l, g, p)
  PROVE  Walk(q, w) /\ EndOf(q, w) = EndOf(p, u) /\ AllAlong(l, g, q)
<1>. USE DEF EndOf, AllAlong, IsPrepended
<1>0. e \in Static.edges /\ Static.source[e] = w /\ Static.target[e] = u
  BY DEF Ends
<1>1. p \in Seq(Static.edges) /\ Len(p) \in Nat
  BY DEF Walk
<1>2. /\ q \in Seq(Static.edges) /\ Len(q) = Len(p) + 1 /\ q[1] = e
      /\ \A i \in 2 .. Len(p) + 1 : q[i] = p[i - 1]
  <2>. DEFINE E == Static.edges
  <2>1. p \in Seq(E) /\ e \in E
    BY <1>0, <1>1
  <2>. HIDE DEF E
  <2>2. <<e>> \in Seq(E) /\ Len(<<e>>) = 1 /\ <<e>>[1] = e
    BY <2>1
  <2>3. q \in Seq(E) /\ Len(q) = Len(p) + 1
    BY <2>1, <2>2
  <2>4. q[1] = e
    BY <2>1, <2>2
  <2>5. \A i \in 2 .. Len(p) + 1 : q[i] = p[i - 1]
    BY <2>1, <2>2
  <2>. QED
    BY <2>3, <2>4, <2>5 DEF E
<1>3. \A i \in 2 .. Len(p) + 1 : i - 1 \in 1 .. Len(p)
  BY <1>1
<1>4. \A i \in 1 .. Len(q) : i = 1 \/ i \in 2 .. Len(p) + 1
  BY <1>1, <1>2
<1>5. After(q, Len(q), w) = After(p, Len(p), u)
  <2>1. CASE Len(p) = 0
    BY <1>0, <1>2, <2>1 DEF After
  <2>2. CASE Len(p) # 0
    <3>1. Len(p) + 1 \in 2 .. Len(p) + 1 /\ (Len(p) + 1) - 1 = Len(p) /\ Len(p) + 1 # 0
      BY <1>1, <2>2
    <3>. QED
      BY <1>2, <2>2, <3>1 DEF After
  <2>. QED
    BY <2>1, <2>2
<1>6. ASSUME NEW i \in 1 .. Len(q)
      PROVE  Static.source[q[i]] = After(q, i - 1, w)
  <2>1. CASE i = 1
    BY <1>0, <1>2, <2>1 DEF After
  <2>2. CASE i # 1
    <3>1. i \in 2 .. Len(p) + 1 /\ i - 1 \in 1 .. Len(p) /\ i - 1 # 0 /\ i \in Nat
      BY <1>1, <1>2, <2>2
    <3>2. Static.source[q[i]] = After(p, (i - 1) - 1, u)
      BY <1>2, <3>1 DEF Walk
    <3>3. CASE i = 2
      BY <1>0, <1>2, <3>2, <3>3 DEF After
    <3>4. CASE i # 2
      <4>1. i - 1 \in 2 .. Len(p) + 1 /\ (i - 1) - 1 # 0
        BY <1>1, <3>1, <3>4
      <4>2. q[i - 1] = p[(i - 1) - 1]
        BY <1>2, <4>1
      <4>. QED
        BY <3>1, <3>2, <4>1, <4>2 DEF After
    <3>. QED
      BY <3>3, <3>4
  <2>. QED
    BY <2>1, <2>2
<1>7. Along(l, g, q, 1, Len(q))
  BY <1>2, <1>3, <1>4 DEF Along
<1>8. w \in Vertices
  BY <1>0, StaticEnds
<1>. QED
  BY <1>2, <1>5, <1>6, <1>7, <1>8 DEF Walk

LEMMA WalkAppended ==
  ASSUME NEW p, NEW u, Walk(p, u), NEW e, NEW v, NEW w, Ends(e, v, w),
         v = EndOf(p, u), NEW q, IsAppended(q, p, e),
         NEW s, NEW l, NEW f, NEW b, NEW r, Parts(p, u, s, l, f, b, r), Tight(b, r, e)
  PROVE  Walk(q, u) /\ EndOf(q, u) = w /\ Parts(q, u, s, l, f, b, r)
<1>. USE DEF EndOf, IsAppended
<1>0. e \in Static.edges /\ Static.source[e] = After(p, Len(p), u) /\ Static.target[e] = w
  BY DEF Ends
<1>1. p \in Seq(Static.edges) /\ Len(p) \in Nat
  BY DEF Walk
<1>2. /\ q \in Seq(Static.edges) /\ Len(q) = Len(p) + 1 /\ q[Len(p) + 1] = e
      /\ \A i \in 1 .. Len(p) : q[i] = p[i]
  BY <1>0, <1>1
<1>3. ASSUME NEW i \in 0 .. Len(p) PROVE After(q, i, u) = After(p, i, u)
  <2>1. i = 0 \/ i \in 1 .. Len(p)
    BY <1>1
  <2>. QED
    BY <1>2, <2>1 DEF After
<1>4. ASSUME NEW i \in 1 .. Len(q)
      PROVE  Static.source[q[i]] = After(q, i - 1, u)
  <2>1. i - 1 \in 0 .. Len(p) /\ (i \in 1 .. Len(p) \/ i = Len(p) + 1)
    BY <1>1, <1>2
  <2>2. After(q, i - 1, u) = After(p, i - 1, u)
    BY <1>3, <2>1
  <2>3. CASE i \in 1 .. Len(p)
    BY <1>2, <2>2, <2>3 DEF Walk
  <2>4. CASE i = Len(p) + 1
    <3>1. i - 1 = Len(p)
      BY <1>1, <2>4
    <3>. QED
      BY <1>0, <1>2, <2>2, <2>4, <3>1
  <2>. QED
    BY <2>1, <2>3, <2>4
<1>5. After(q, Len(q), u) = w
  BY <1>0, <1>1, <1>2 DEF After
<1>6. PICK m \in 0 .. Len(p) :
        After(p, m, u) = s /\ Along(l, f, p, 1, m) /\ Along(b, r, p, m + 1, Len(p))
  BY DEF Parts
<1>7. m \in 0 .. Len(q) /\ After(q, m, u) = s
  BY <1>1, <1>2, <1>3, <1>6
<1>8. Along(l, f, q, 1, m)
  <2>1. \A i \in 1 .. m : i \in 1 .. Len(p)
    BY <1>1
  <2>. QED
    BY <1>2, <1>6, <2>1 DEF Along
<1>9. Along(b, r, q, m + 1, Len(q))
  <2>1. \A i \in m + 1 .. Len(q) : i = Len(p) + 1 \/ (i \in m + 1 .. Len(p) /\ i \in 1 .. Len(p))
    BY <1>1, <1>2
  <2>. QED
    BY <1>2, <1>6, <2>1 DEF Along
<1>10. Parts(q, u, s, l, f, b, r)
  BY <1>7, <1>8, <1>9 DEF Parts
<1>. QED
  BY <1>2, <1>4, <1>5, <1>10 DEF Walk

\* The cost of a path is what a function of its positions grows by, if that grows by
\* the cost of each edge.
LEMMA CostOfPath ==
  ASSUME NEW p \in Seq(Static.edges), NEW worth,
         worth[0] = 0, \A i \in 1 .. Len(p) : worth[i] = worth[i - 1] + costs[p[i]]
  PROVE  Bi!PathCost(p) = worth[Len(p)]
<1>. DEFINE N == Len(p)
            Is(f) == f = [i \in 0 .. N |-> IF i = 0 THEN 0 ELSE f[i - 1] + costs[p[i]]]
            g == [i \in 0 .. N |-> worth[i]]
<1>1. N \in Nat
  OBVIOUS
<1>2. Is(g)
  <2>1. \A i \in 0 .. N : i # 0 => i \in 1 .. N /\ i - 1 \in 0 .. N
    BY <1>1
  <2>2. \A i \in 0 .. N : g[i] = worth[i]
    OBVIOUS
  <2>3. \A i \in 0 .. N : worth[i] = IF i = 0 THEN 0 ELSE g[i - 1] + costs[p[i]]
    <3>. HIDE DEF g
    <3>. QED
      BY <2>1, <2>2
  <2>. QED
    BY <2>3
<1>3. ASSUME NEW f, Is(f)
      PROVE  f[N] = worth[N]
  <2>. DEFINE S == {n \in Nat : n <= N => f[n] = worth[n]}
  <2>0. \A n \in 0 .. N : f[n] = IF n = 0 THEN 0 ELSE f[n - 1] + costs[p[n]]
    BY <1>3
  <2>1. 0 \in S
    BY <1>1, <2>0
  <2>2. ASSUME NEW n \in S PROVE n + 1 \in S
    <3>. SUFFICES ASSUME n + 1 <= N PROVE f[n + 1] = worth[n + 1]
      BY <1>1
    <3>1. n \in Nat /\ n <= N /\ n + 1 \in 1 .. N /\ n + 1 \in 0 .. N /\ (n + 1) - 1 = n /\ n + 1 # 0
      BY <1>1
    <3>2. f[n] = worth[n]
      BY <3>1
    <3>3. f[n + 1] = f[n] + costs[p[n + 1]]
      <4>. HIDE DEF Is, S
      <4>. QED
        BY <2>0, <3>1
    <3>4. worth[n + 1] = worth[n] + costs[p[n + 1]]
      <4>. HIDE DEF Is, S
      <4>. QED
        BY <3>1
    <3>. QED
      BY <3>2, <3>3, <3>4
  <2>3. S \in SUBSET Nat
    OBVIOUS
  <2>4. S = Nat
    <3>. HIDE DEF S
    <3>. QED
      BY <2>1, <2>2, <2>3, Induction
  <2>. QED
    BY <1>1, <2>4
<1>4. \E f : Is(f)
  BY <1>2
<1>5. Bi!PathCost(p) = (CHOOSE f : Is(f))[N]
  BY DEF Bi!PathCost
<1>6. Is(CHOOSE f : Is(f))
  <2>. HIDE DEF Is
  <2>. QED
    BY <1>4
<1>. QED
  BY <1>3, <1>5, <1>6

-----------------------------------------------------------------------------
\* What the two walks have built so far: a walk to the split over labels of the forward
\* side, then one on from it over labels of the other.
Way ==
  /\ otherPc = "search" => path = <<>>
  /\ otherPc = "prepend" =>
       /\ Walk(path, at) /\ EndOf(path, at) = split
       /\ AllAlong(labels, Fwd, path)
       /\ HasLabel(labels, at)
  /\ otherPc \in {"append", "found"} =>
       /\ Walk(path, query.source) /\ at = EndOf(path, query.source)
       /\ HasLabel(blabels, at)
       /\ Parts(path, query.source, split, labels, Fwd, blabels, Bwd)
  /\ otherPc = "found" => at = query.target

Control ==
  /\ otherPc # "search" => pending = {}
  /\ otherPc \in {"prepend", "append", "found"} => found
  /\ side = "forward" => \A e \in pending : Static.source[e] = current
  /\ side = "backward" => \A e \in pending : Static.target[e] = current

\* A call from a vertex to itself has its answer at once.
AtOnce ==
  /\ costs \in Static.costs /\ query \in Static.queries
  /\ otherPc = "found" /\ query.source = query.target
  /\ path = <<>> /\ splitValue = 0 /\ Copied(labels, heap)

BiInv == AtOnce \/ (Sides /\ Control /\ Verdict /\ Way)

LEMMA MetSame ==
  ASSUME NEW l, NEW m, NEW f, NEW s, NEW best, Met(l, m, f, s, best),
         NEW l2, NEW m2,
         SameLabels(l, l2), SameLabels(m, m2)
  PROVE  Met(l2, m2, f, s, best)
<1>1. \A u \in Vertices : l2[u].cost + m2[u].cost = l[u].cost + m[u].cost
  BY DEF SameLabels
<1>. QED
  BY <1>1 DEF Met, SameLabels

LEMMA BiInit ==
  ASSUME Bi!Init
  PROVE  BiInv
<1>1. /\ costs \in Static.costs /\ query \in Static.queries
      /\ Bi!F!RootedAt(query.source, 0) /\ Bi!B!RootedAt(query.target, 0)
      /\ otherPc = IF query.source = query.target THEN "found" ELSE "search"
      /\ side = "forward" /\ current = query.source /\ pending = {}
      /\ found = FALSE /\ split = query.source
      /\ splitValue = IF query.source = query.target THEN 0 ELSE Inf
      /\ at = query.source /\ path = <<>>
  BY DEF Bi!Init
<1>2. Graph(Fwd) /\ Graph(Bwd) /\ query.source \in Vertices /\ query.target \in Vertices
  BY <1>1, BiArgs
<1>3. Fwd.root = query.source /\ Bwd.root = query.target
  BY DEF Fwd, Bwd
<1>4. Half(labels, heap, Fwd, {}) /\ \A v \in Vertices : HasLabel(labels, v) <=> v = query.source
  <2>1. /\ labels = [v \in Vertices |-> IF v = query.source
                       THEN [cost |-> 0, edge |-> NoEdge, state |-> "LABELED"]
                       ELSE [cost |-> Inf, edge |-> NoEdge, state |-> "UNKNOWN"]]
        /\ heap = [v \in {query.source} |-> 0]
    BY <1>1 DEF Bi!F!RootedAt
  <2>. QED
    BY <1>2, <1>3, <2>1, HalfInit
<1>5. Half(blabels, bheap, Bwd, {}) /\ \A v \in Vertices : HasLabel(blabels, v) <=> v = query.target
  <2>1. /\ blabels = [v \in Vertices |-> IF v = query.target
                       THEN [cost |-> 0, edge |-> NoEdge, state |-> "LABELED"]
                       ELSE [cost |-> Inf, edge |-> NoEdge, state |-> "UNKNOWN"]]
        /\ bheap = [v \in {query.target} |-> 0]
    BY <1>1 DEF Bi!B!RootedAt
  <2>. QED
    BY <1>2, <1>3, <2>1, HalfInit
<1>6. CASE query.source = query.target
  BY <1>1, <1>4, <1>6 DEF BiInv, AtOnce, Half
<1>7. CASE query.source # query.target
  <2>1. otherPc = "search" /\ splitValue = Inf
    BY <1>1, <1>7
  <2>6. Met(labels, blabels, found, split, splitValue)
    <3>1. \A v \in Vertices : ~ (HasLabel(labels, v) /\ HasLabel(blabels, v))
      BY <1>4, <1>5, <1>7
    <3>2. splitValue = Inf /\ found = FALSE /\ split \in Vertices /\ Inf \in Nat /\ Inf <= Inf
      BY <1>1, <1>2, <2>1, InfAssumption
    <3>. QED
      BY <3>1, <3>2 DEF Met
  <2>7. Sides
    BY <1>1, <1>4, <1>5, <2>6 DEF Sides, Open
  <2>8. Control /\ Verdict /\ Way
    BY <1>1, <2>1 DEF Control, Verdict, Way
  <2>. QED
    BY <2>7, <2>8 DEF BiInv
<1>. QED
  BY <1>6, <1>7

LEMMA SideTypes ==
  ASSUME Sides
  PROVE  /\ \A v \in Vertices : labels[v].cost \in Nat /\ blabels[v].cost \in Nat
         /\ query.source \in Vertices /\ query.target \in Vertices
         /\ \A e \in query.forward : /\ e \in Static.edges /\ Static.source[e] \in Vertices
                                     /\ Static.target[e] \in Vertices /\ costs[e] \in Nat
         /\ query.backward = query.forward
<1>1. \A v \in Vertices : labels[v].cost \in Nat /\ blabels[v].cost \in Nat
  BY DEF Sides, Half, Copied, StaticLabel
<1>2. query.source \in Vertices /\ query.target \in Vertices /\ Graph(Fwd) /\ Reverse(Fwd, Bwd)
  BY BiArgs DEF Sides
<1>3. query.forward \in SUBSET Static.edges /\ query.backward = query.forward
  BY <1>2 DEF Graph, Reverse, Fwd, Bwd
<1>. QED
  BY <1>1, <1>2, <1>3, StaticEnds DEF Sides

LEMMA BiExtract ==
  ASSUME Sides, Control, Way, NEW v \in Vertices, Bi!ExtractForward(v) \/ Bi!ExtractBackward(v)
  PROVE  (Sides /\ Control /\ Verdict /\ Way)'
<1>1. otherPc = "search" /\ pending = {} /\ path = <<>>
  BY DEF Bi!ExtractForward, Bi!ExtractBackward, Bi!GoOn, Way
<1>2. UNCHANGED <<costs, query, otherPc, found, split, splitValue, at, path>>
  BY DEF Bi!ExtractForward, Bi!ExtractBackward
<1>3. /\ Half(labels, heap, Fwd, {}) /\ Half(blabels, bheap, Bwd, {})
      /\ Met(labels, blabels, found, split, splitValue)
      /\ costs \in Static.costs /\ query \in Static.queries
  BY <1>1 DEF Sides, Open
<1>4. Fwd' = Fwd /\ Bwd' = Bwd
  BY <1>2 DEF Fwd, Bwd
<1>5. Verdict' /\ Way'
  BY <1>1, <1>2 DEF Verdict, Way
<1>6. CASE Bi!ExtractForward(v)
  <2>1. /\ UNCHANGED <<blabels, bheap>> /\ side' = "forward" /\ current' = v
        /\ pending' = {e \in query.forward : Static.source[e] = v}
        /\ Extracted(labels, heap, v, labels', heap')
    BY <1>6 DEF Bi!ExtractForward, Bi!F!ExtractMin, Bi!F!Top, Extracted
  <2>2. /\ Half(labels', heap', Fwd, {e \in Fwd.allowed : Fwd.from[e] = v})
        /\ SameLabels(labels, labels')
    <3>1. Half(labels, heap, Fwd, {}) /\ Extracted(labels, heap, v, labels', heap')
      BY <1>3, <2>1
    <3>. QED
      BY <3>1, HalfExtract
  <2>3. pending' = {e \in Fwd.allowed : Fwd.from[e] = v}
    BY <2>1 DEF Fwd
  <2>4. Met(labels', blabels', found', split', splitValue')
    <3>1. SameLabels(labels, labels') /\ SameLabels(blabels, blabels')
      BY <2>1, <2>2 DEF SameLabels
    <3>2. Met(labels', blabels', found, split, splitValue)
      BY <1>3, <3>1, MetSame
    <3>. QED
      BY <1>2, <3>2
  <2>5. Open("forward")' = pending' /\ Open("backward")' = {}
    BY <2>1 DEF Open
  <2>6. Sides'
    BY <1>2, <1>3, <1>4, <2>1, <2>2, <2>3, <2>4, <2>5 DEF Sides
  <2>7. Control'
    BY <1>1, <1>2, <2>1 DEF Control
  <2>. QED
    BY <1>5, <2>6, <2>7
<1>7. CASE Bi!ExtractBackward(v)
  <2>1. /\ UNCHANGED <<labels, heap>> /\ side' = "backward" /\ current' = v
        /\ pending' = {e \in query.backward : Static.target[e] = v}
        /\ Extracted(blabels, bheap, v, blabels', bheap')
    BY <1>7 DEF Bi!ExtractBackward, Bi!B!ExtractMin, Bi!B!Top, Extracted
  <2>2. /\ Half(blabels', bheap', Bwd, {e \in Bwd.allowed : Bwd.from[e] = v})
        /\ SameLabels(blabels, blabels')
    <3>1. Half(blabels, bheap, Bwd, {}) /\ Extracted(blabels, bheap, v, blabels', bheap')
      BY <1>3, <2>1
    <3>. QED
      BY <3>1, HalfExtract
  <2>3. pending' = {e \in Bwd.allowed : Bwd.from[e] = v}
    BY <2>1 DEF Bwd
  <2>4. Met(labels', blabels', found', split', splitValue')
    <3>1. SameLabels(labels, labels') /\ SameLabels(blabels, blabels')
      BY <2>1, <2>2 DEF SameLabels
    <3>2. Met(labels', blabels', found, split, splitValue)
      BY <1>3, <3>1, MetSame
    <3>. QED
      BY <1>2, <3>2
  <2>5. Open("backward")' = pending' /\ Open("forward")' = {}
    BY <2>1 DEF Open
  <2>6. Sides'
    BY <1>2, <1>3, <1>4, <2>1, <2>2, <2>3, <2>4, <2>5 DEF Sides
  <2>7. Control'
    BY <1>1, <1>2, <2>1 DEF Control
  <2>. QED
    BY <1>5, <2>6, <2>7
<1>. QED
  BY <1>6, <1>7

LEMMA BiRelax ==
  ASSUME Sides, Control, Way, NEW e, Bi!RelaxForward(e) \/ Bi!RelaxBackward(e)
  PROVE  (Sides /\ Control /\ Verdict /\ Way)'
<1>1. /\ otherPc = "search" /\ path = <<>> /\ e \in pending /\ pending' = pending \ {e}
      /\ UNCHANGED <<costs, query, otherPc, side, current, at, path>>
  BY DEF Bi!RelaxForward, Bi!RelaxBackward, Way
<1>2. /\ Half(labels, heap, Fwd, Open("forward")) /\ Half(blabels, bheap, Bwd, Open("backward"))
      /\ Met(labels, blabels, found, split, splitValue)
      /\ costs \in Static.costs /\ query \in Static.queries
      /\ side \in {"forward", "backward"}
  BY DEF Sides
<1>3. Fwd' = Fwd /\ Bwd' = Bwd
  BY <1>1 DEF Fwd, Bwd
<1>4. Control' /\ Verdict' /\ Way'
  BY <1>1 DEF Control, Verdict, Way
<1>5. Costs(labels) /\ Costs(blabels)
  BY SideTypes DEF Costs
<1>6. CASE Bi!RelaxForward(e)
  <2>. DEFINE cost == labels[current].cost + costs[e]
              v == Static.target[e]
  <2>1. /\ UNCHANGED <<blabels, bheap>> /\ side = "forward"
        /\ Bi!F!Update(v, cost, e) /\ Bi!Meet(v, blabels, cost)
    BY <1>6 DEF Bi!RelaxForward
  <2>2. Open("forward") = pending /\ Open("forward")' = pending \ {e} /\ Open("backward")' = Open("backward")
    BY <1>1, <2>1 DEF Open
  <2>3. Static.source[e] = current
    BY <1>1, <2>1 DEF Control
  <2>4. Over(labels, Fwd, e, v, cost)
    BY <2>3 DEF Fwd, Over
  <2>5. Updated(labels, heap, v, cost, e, labels', heap')
    <3>. HIDE DEF cost, v
    <3>. QED
      BY <2>1 DEF Bi!F!Update, Bi!F!Accepts, Bi!F!Unknown, Bi!F!heapVars, Updated, Taken
  <2>. HIDE DEF cost, v
  <2>6. /\ Half(labels', heap', Fwd, pending \ {e})
        /\ Relabelled(labels, labels', v, cost)
    <3>1. Half(labels, heap, Fwd, pending) /\ e \in pending
      BY <1>1, <1>2, <2>2
    <3>. QED
      BY <2>4, <2>5, <3>1, HalfRelax
  <2>7. Costs(labels')
    BY <2>6 DEF Costs, Half, Copied, StaticLabel
  <2>8. Compared(blabels, v, cost, found, split, splitValue, found', split', splitValue')
    BY <2>1 DEF Bi!Meet, Bi!meeting, HasLabel, Compared
  <2>9. Met(labels', blabels, found', split', splitValue')
    BY <1>2, <1>5, <2>6, <2>7, <2>8, MetRelax
  <2>10. Sides'
    BY <1>1, <1>2, <1>3, <2>1, <2>2, <2>6, <2>9 DEF Sides
  <2>. QED
    BY <1>4, <2>10
<1>7. CASE Bi!RelaxBackward(e)
  <2>. DEFINE cost == blabels[current].cost + costs[e]
              v == Static.source[e]
  <2>1. /\ UNCHANGED <<labels, heap>> /\ side = "backward"
        /\ Bi!B!Update(v, cost, e) /\ Bi!Meet(v, labels, cost)
    BY <1>7 DEF Bi!RelaxBackward
  <2>2. Open("backward") = pending /\ Open("backward")' = pending \ {e} /\ Open("forward")' = Open("forward")
    BY <1>1, <2>1 DEF Open
  <2>3. Static.target[e] = current
    BY <1>1, <2>1 DEF Control
  <2>4. Over(blabels, Bwd, e, v, cost)
    BY <2>3 DEF Bwd, Over
  <2>5. Updated(blabels, bheap, v, cost, e, blabels', bheap')
    <3>. HIDE DEF cost, v
    <3>. QED
      BY <2>1 DEF Bi!B!Update, Bi!B!Accepts, Bi!B!Unknown, Bi!B!heapVars, Updated, Taken
  <2>. HIDE DEF cost, v
  <2>6. /\ Half(blabels', bheap', Bwd, pending \ {e})
        /\ Relabelled(blabels, blabels', v, cost)
    <3>1. Half(blabels, bheap, Bwd, pending) /\ e \in pending
      BY <1>1, <1>2, <2>2
    <3>. QED
      BY <2>4, <2>5, <3>1, HalfRelax
  <2>7. Costs(blabels')
    BY <2>6 DEF Costs, Half, Copied, StaticLabel
  <2>8. Compared(labels, v, cost, found, split, splitValue, found', split', splitValue')
    BY <2>1 DEF Bi!Meet, Bi!meeting, HasLabel, Compared
  <2>9. Met(blabels, labels, found, split, splitValue)
    BY <1>2, <1>5, MetIsSymmetric
  <2>10. Met(blabels', labels, found', split', splitValue')
    BY <1>5, <2>6, <2>7, <2>8, <2>9, MetRelax
  <2>11. Met(labels, blabels', found', split', splitValue')
    BY <1>5, <2>7, <2>10, MetIsSymmetric
  <2>12. Sides'
    BY <1>1, <1>2, <1>3, <2>1, <2>2, <2>6, <2>11 DEF Sides
  <2>. QED
    BY <1>4, <2>12
<1>. QED
  BY <1>6, <1>7

\* The end of the loop.
LEMMA BiStop ==
  ASSUME Sides, Control, Way, Bi!Stop
  PROVE  (Sides /\ Control /\ Verdict /\ Way)'
<1>1. /\ otherPc = "search" /\ pending = {} /\ ~ Bi!GoOn /\ path = <<>>
      /\ UNCHANGED <<labels, heap, blabels, bheap, costs, query, side, current, pending,
                     found, split, splitValue, path>>
  BY DEF Bi!Stop, Way
<1>. DEFINE within == found /\ ~ (Bi!bounded /\ splitValue > query.bound)
<1>2. \/ within /\ otherPc' = "prepend" /\ at' = split
      \/ ~ within /\ otherPc' = "notFound"
  BY DEF Bi!Stop
<1>3. /\ Bi!Optimum \in Nat
      /\ found => Bi!Optimum <= splitValue
      /\ splitValue <= Bi!Optimum \/ (Bi!bounded /\ Bi!Optimum > query.bound)
  BY <1>1, StopIsRight
<1>4. Bi!Optimum' = Bi!Optimum /\ (Bi!bounded' <=> Bi!bounded)
  BY <1>1, OptimumStays DEF Bi!bounded
<1>5. Met(labels, blabels, found, split, splitValue)
  BY DEF Sides
<1>6. query.bound \in Nat /\ splitValue \in Nat /\ Inf \in Nat
  BY <1>5, BiArgs, InfAssumption DEF Sides, Met
<1>7. Sides'
  <2>1. Fwd' = Fwd /\ Bwd' = Bwd /\ Open("forward")' = Open("forward") /\ Open("backward")' = Open("backward")
    BY <1>1 DEF Fwd, Bwd, Open
  <2>. QED
    BY <1>1, <2>1 DEF Sides
<1>11. Fwd' = Fwd /\ Bwd' = Bwd
  BY <1>1 DEF Fwd, Bwd
<1>8. CASE within /\ otherPc' = "prepend" /\ at' = split
  <2>1. Control'
    BY <1>1, <1>8 DEF Control
  <2>2. splitValue = Bi!Optimum /\ (Bi!bounded => splitValue <= query.bound)
    BY <1>3, <1>6, <1>8
  <2>3. Verdict'
    BY <1>1, <1>4, <1>8, <2>2 DEF Verdict
  <2>4. split \in Vertices /\ HasLabel(labels, split)
    BY <1>5, <1>8 DEF Met
  <2>5. /\ Walk(<<>>, split) /\ EndOf(<<>>, split) = split
        /\ AllAlong(labels, Fwd, <<>>)
    BY <2>4 DEF Walk, After, EndOf, Along, AllAlong
  <2>6. Way'
    BY <1>1, <1>8, <2>4, <2>5, <1>11 DEF Way
  <2>. QED
    BY <1>7, <2>1, <2>3, <2>6
<1>9. CASE ~ within /\ otherPc' = "notFound"
  <2>1. Control' /\ Way'
    BY <1>1, <1>9 DEF Control, Way
  <2>2. Bi!Optimum >= Inf \/ (Bi!bounded /\ Bi!Optimum > query.bound)
    <3>1. CASE ~ found
      <4>1. splitValue = Inf
        BY <1>5, <3>1 DEF Met
      <4>. QED
        BY <1>3, <1>6, <4>1
    <3>2. CASE Bi!bounded /\ splitValue > query.bound
      BY <1>3, <1>6, <3>2
    <3>. QED
      BY <1>9, <3>1, <3>2
  <2>3. Verdict'
    BY <1>1, <1>4, <1>9, <2>2 DEF Verdict
  <2>. QED
    BY <1>7, <2>1, <2>3
<1>. QED
  BY <1>2, <1>8, <1>9

\* Of a label other than the root's.
LEMMA LabelEdge ==
  ASSUME NEW l, NEW h, NEW g, NEW open, Half(l, h, g, open), NEW v \in Vertices,
         HasLabel(l, v), v # g.root, NEW e, e = l[v].edge
  PROVE  Tight(l, g, e) /\ g.to[e] = v /\ HasLabel(l, g.from[e])
BY DEF Half, Tree, Graph, HasLabel, IsSettled, Tight

LEMMA BiWalkBack ==
  ASSUME Sides, Control, Verdict, Way, Bi!WalkBack
  PROVE  (Sides /\ Control /\ Verdict /\ Way)'
<1>1. /\ otherPc = "prepend" /\ found
      /\ UNCHANGED <<labels, heap, blabels, bheap, costs, query, side, current, pending,
                     found, split, splitValue>>
      /\ Walk(path, at) /\ EndOf(path, at) = split
      /\ AllAlong(labels, Fwd, path)
      /\ HasLabel(labels, at) /\ at \in Vertices
  BY DEF Bi!WalkBack, Way, Control, Walk
<1>2. Fwd' = Fwd /\ Bwd' = Bwd /\ Open("forward")' = Open("forward") /\ Open("backward")' = Open("backward")
  BY <1>1 DEF Fwd, Bwd, Open
<1>3. Sides'
  BY <1>1, <1>2 DEF Sides
<1>4. Bi!Optimum' = Bi!Optimum /\ (Bi!bounded' <=> Bi!bounded)
  BY <1>1, OptimumStays DEF Bi!bounded
<1>5. CASE at # query.source
  <2>. DEFINE e == labels[at].edge
  <2>1. path' = <<e>> \o path /\ at' = Static.source[e] /\ otherPc' = "prepend"
    BY <1>1, <1>5 DEF Bi!WalkBack
  <2>2. Half(labels, heap, Fwd, Open("forward")) /\ at # Fwd.root
    BY <1>5 DEF Sides, Fwd
  <2>. HIDE DEF e
  <2>3. Tight(labels, Fwd, e) /\ Fwd.to[e] = at /\ HasLabel(labels, Fwd.from[e])
    BY <1>1, <2>2, LabelEdge DEF e
  <2>4. e \in Static.edges
    BY <2>3, SideTypes DEF Tight, Fwd
  <2>5. Ends(e, at', at) /\ HasLabel(labels, at')
    BY <2>1, <2>3, <2>4 DEF Ends, Fwd
  <2>6. /\ Walk(path', at') /\ EndOf(path', at') = EndOf(path, at)
        /\ AllAlong(labels, Fwd, path')
    <3>1. IsPrepended(path', e, path)
      BY <2>1 DEF IsPrepended
    <3>. QED
      BY <1>1, <2>3, <2>5, <3>1, WalkPrepended
  <2>7. Way'
    BY <1>1, <1>2, <2>1, <2>5, <2>6 DEF Way
  <2>8. Control' /\ Verdict'
    BY <1>1, <1>4, <2>1 DEF Control, Verdict
  <2>. QED
    BY <1>3, <2>7, <2>8
<1>6. CASE at = query.source
  <2>1. path' = path /\ at' = split /\ otherPc' = "append"
    BY <1>1, <1>6 DEF Bi!WalkBack
  <2>2. HasLabel(blabels, split)
    BY <1>1 DEF Sides, Met
  <2>3. Len(path) \in Nat
    BY <1>1 DEF Walk
  <2>4. Parts(path, query.source, split, labels, Fwd, blabels, Bwd)
    <3>1. Len(path) \in 0 .. Len(path) /\ Along(blabels, Bwd, path, Len(path) + 1, Len(path))
      BY <2>3 DEF Along
    <3>. QED
      BY <1>1, <1>6, <3>1 DEF Parts, EndOf, AllAlong
  <2>5. Way'
    BY <1>1, <1>2, <1>6, <2>1, <2>2, <2>4 DEF Way
  <2>6. Control' /\ Verdict'
    BY <1>1, <1>4, <2>1 DEF Control, Verdict
  <2>. QED
    BY <1>3, <2>5, <2>6
<1>. QED
  BY <1>5, <1>6

LEMMA BiWalkOn ==
  ASSUME Sides, Control, Verdict, Way, Bi!WalkOn
  PROVE  (Sides /\ Control /\ Verdict /\ Way)'
<1>1. /\ otherPc = "append" /\ found
      /\ UNCHANGED <<labels, heap, blabels, bheap, costs, query, side, current, pending,
                     found, split, splitValue>>
      /\ Walk(path, query.source) /\ at = EndOf(path, query.source)
      /\ HasLabel(blabels, at)
      /\ Parts(path, query.source, split, labels, Fwd, blabels, Bwd)
  BY DEF Bi!WalkOn, Way, Control
<1>2. at \in Vertices
  <2>1. Len(path) \in Nat /\ query.source \in Vertices /\ path \in Seq(Static.edges)
    BY <1>1 DEF Walk
  <2>2. \A i \in 1 .. Len(path) : path[i] \in Static.edges
    BY <2>1
  <2>3. Len(path) = 0 \/ Len(path) \in 1 .. Len(path)
    BY <2>1
  <2>. QED
    BY <1>1, <2>1, <2>2, <2>3, StaticEnds DEF After, EndOf
<1>3. Fwd' = Fwd /\ Bwd' = Bwd /\ Open("forward")' = Open("forward") /\ Open("backward")' = Open("backward")
  BY <1>1 DEF Fwd, Bwd, Open
<1>4. Sides'
  BY <1>1, <1>3 DEF Sides
<1>5. Bi!Optimum' = Bi!Optimum /\ (Bi!bounded' <=> Bi!bounded)
  BY <1>1, OptimumStays DEF Bi!bounded
<1>6. CASE at # query.target
  <2>. DEFINE e == blabels[at].edge
  <2>1. path' = Append(path, e) /\ at' = Static.target[e] /\ otherPc' = "append"
    BY <1>1, <1>6 DEF Bi!WalkOn
  <2>2. Half(blabels, bheap, Bwd, Open("backward")) /\ at # Bwd.root
    BY <1>6 DEF Sides, Bwd
  <2>. HIDE DEF e
  <2>3. Tight(blabels, Bwd, e) /\ Bwd.to[e] = at /\ HasLabel(blabels, Bwd.from[e])
    BY <1>1, <1>2, <2>2, LabelEdge DEF e
  <2>4. e \in Static.edges
    BY <2>3, SideTypes DEF Tight, Bwd
  <2>5. Ends(e, at, at') /\ HasLabel(blabels, at')
    BY <2>1, <2>3, <2>4 DEF Ends, Bwd
  <2>6. /\ Walk(path', query.source) /\ EndOf(path', query.source) = at'
        /\ Parts(path', query.source, split, labels, Fwd, blabels, Bwd)
    <3>1. IsAppended(path', path, e)
      BY <2>1 DEF IsAppended
    <3>. QED
      BY <1>1, <2>3, <2>5, <3>1, WalkAppended
  <2>7. Way'
    BY <1>1, <1>3, <2>1, <2>5, <2>6 DEF Way
  <2>8. Control' /\ Verdict'
    BY <1>1, <1>5, <2>1 DEF Control, Verdict
  <2>. QED
    BY <1>4, <2>7, <2>8
<1>7. CASE at = query.target
  <2>1. path' = path /\ at' = at /\ otherPc' = "found"
    BY <1>1, <1>7 DEF Bi!WalkOn
  <2>2. Way'
    BY <1>1, <1>3, <1>7, <2>1 DEF Way
  <2>3. Control' /\ Verdict'
    BY <1>1, <1>5, <2>1 DEF Control, Verdict
  <2>. QED
    BY <1>4, <2>2, <2>3
<1>. QED
  BY <1>6, <1>7

LEMMA BiNext ==
  ASSUME BiInv, Bi!Next
  PROVE  BiInv'
<1>1. ~ AtOnce
  BY DEF AtOnce, Bi!Next, Bi!ExtractForward, Bi!ExtractBackward, Bi!GoOn, Bi!RelaxForward,
         Bi!RelaxBackward, Bi!Stop, Bi!WalkBack, Bi!WalkOn
<1>2. Sides /\ Control /\ Verdict /\ Way
  BY <1>1 DEF BiInv
<1>3. (Sides /\ Control /\ Verdict /\ Way)'
  BY <1>2, BiExtract, BiRelax, BiStop, BiWalkBack, BiWalkOn DEF Bi!Next
<1>. QED
  BY <1>3 DEF BiInv

LEMMA BiStutter ==
  ASSUME BiInv, UNCHANGED Bi!vars
  PROVE  BiInv'
<1>1. UNCHANGED <<labels, heap, blabels, bheap, costs, query, otherPc, side, current, pending,
                  found, split, splitValue, at, path>>
  BY DEF Bi!vars
<1>2. CASE AtOnce
  BY <1>1, <1>2 DEF AtOnce, BiInv
<1>3. CASE Sides /\ Control /\ Verdict /\ Way
  <2>1. Fwd' = Fwd /\ Bwd' = Bwd /\ Open("forward")' = Open("forward") /\ Open("backward")' = Open("backward")
    BY <1>1 DEF Fwd, Bwd, Open
  <2>2. Sides'
    BY <1>1, <1>3, <2>1 DEF Sides
  <2>3. Bi!Optimum' = Bi!Optimum /\ (Bi!bounded' <=> Bi!bounded)
    BY <1>1, OptimumStays DEF Bi!bounded
  <2>4. Control' /\ Verdict'
    BY <1>1, <1>3, <2>3 DEF Control, Verdict
  <2>6. Way'
    BY <1>1, <1>3, <2>1 DEF Way
  <2>. QED
    BY <2>2, <2>4, <2>6 DEF BiInv
<1>. QED
  BY <1>2, <1>3 DEF BiInv

-----------------------------------------------------------------------------
\* A call from a vertex to itself: the empty path is a shortest one.
LEMMA AtOnceIsRight ==
  ASSUME AtOnce
  PROVE  Bi!AnswerIsRight
<1>1. /\ costs \in Static.costs /\ query \in Static.queries
      /\ otherPc = "found" /\ query.source = query.target
      /\ path = <<>> /\ splitValue = 0
  BY DEF AtOnce
<1>2. query.source \in Vertices /\ query.bound \in Nat
  BY <1>1, BiArgs
<1>3. Bi!Optimum = 0
  <2>1. PICK D, E : /\ AreLengths(D, Fwd) /\ AreLengths(E, Bwd)
                  /\ \A z \in Vertices : D[Most][z] \in Nat /\ E[Most][z] \in Nat
                  /\ \E x \in Vertices : Bi!Optimum = D[Most][x] + E[Most][x]
                  /\ \A y \in Vertices : Bi!Optimum <= D[Most][y] + E[Most][y]
    BY <1>1, OptimumIs
  <2>2. D[0][query.source] = 0 /\ E[0][query.source] = 0
    BY <1>1, <1>2, <2>1 DEF AreLengths, Fwd, Bwd
  <2>3. 0 \in 0 .. Most /\ Most \in 0 .. Most /\ 0 <= Most
    BY MostIsNat
  <2>4. D[Most][query.source] <= D[0][query.source] /\ E[Most][query.source] <= E[0][query.source]
    BY <1>2, <2>1, <2>3, LengthsFall
  <2>5. Bi!Optimum \in Nat /\ D[Most][query.source] \in Nat /\ E[Most][query.source] \in Nat
    BY <1>2, <2>1
  <2>6. Bi!Optimum <= D[Most][query.source] + E[Most][query.source]
    BY <1>2, <2>1
  <2>. QED
    BY <2>2, <2>4, <2>5, <2>6
<1>4. Bi!PathCost(path) = 0
  <2>. DEFINE worth == [i \in {0} |-> 0]
  <2>1. path \in Seq(Static.edges) /\ Len(path) = 0 /\ worth[0] = 0
    BY <1>1
  <2>2. \A i \in 1 .. Len(path) : worth[i] = worth[i - 1] + costs[path[i]]
    BY <2>1
  <2>. HIDE DEF worth
  <2>3. Bi!PathCost(path) = worth[Len(path)]
    BY <2>1, <2>2, CostOfPath
  <2>. QED
    BY <2>1, <2>3
<1>5. Bi!PathRealisesSplit
  <2>1. Bi!Connects(path, query.source, query.target)
    BY <1>1 DEF Bi!Connects
  <2>2. Len(path) = 0 /\ 0 \in 0 .. Len(path) /\ (\A i \in 1 .. 0 : FALSE) /\ (\A i \in 0 + 1 .. Len(path) : FALSE)
    BY <1>1
  <2>3. \E m \in 0 .. Len(path) : /\ \A i \in 1 .. m : path[i] \in query.forward
                                  /\ \A i \in m + 1 .. Len(path) : path[i] \in query.backward
    BY <2>2
  <2>. QED
    BY <1>1, <1>4, <2>1, <2>3 DEF Bi!PathRealisesSplit
<1>6. Bi!Shortest /\ Bi!NotFoundIsRight
  BY <1>1, <1>2, <1>3 DEF Bi!Shortest, Bi!NotFoundIsRight
<1>. QED
  BY <1>5, <1>6 DEF Bi!AnswerIsRight

\* What the walks have built costs what the meeting said: along its first part the labels
\* of the forward side grow by the cost of each edge, along the rest those of the other
\* side shrink by it.
LEMMA WayCosts ==
  ASSUME Sides, Way, Control, otherPc = "found"
  PROVE  Bi!PathRealisesSplit
<1>1. /\ found /\ Walk(path, query.source) /\ at = EndOf(path, query.source)
      /\ at = query.target
  BY DEF Way, Control
<1>2. PICK m \in 0 .. Len(path) :
            /\ After(path, m, query.source) = split
            /\ Along(labels, Fwd, path, 1, m)
            /\ Along(blabels, Bwd, path, m + 1, Len(path))
  BY DEF Way, Parts
<1>3. path \in Seq(Static.edges) /\ Len(path) \in Nat /\ m \in Nat /\ m <= Len(path)
  BY <1>1, <1>2 DEF Walk
<1>4. /\ splitValue = labels[split].cost + blabels[split].cost
      /\ labels[query.source].cost = 0 /\ blabels[query.target].cost = 0
  BY <1>1 DEF Sides, Met, Half, Tree, Fwd, Bwd
<1>. DEFINE place(i) == After(path, i, query.source)
            value(i) == IF i <= m THEN labels[place(i)].cost ELSE splitValue - blabels[place(i)].cost
            worth == [i \in 0 .. Len(path) |-> value(i)]
<1>5. /\ \A i \in 1 .. Len(path) : /\ place(i) = Static.target[path[i]]
                                   /\ place(i - 1) = Static.source[path[i]]
                                   /\ path[i] \in Static.edges /\ costs[path[i]] \in Nat
      /\ \A i \in 0 .. Len(path) : place(i) \in Vertices
  <2>1. \A i \in 1 .. Len(path) : /\ path[i] \in Static.edges /\ costs[path[i]] \in Nat
                                  /\ Static.target[path[i]] \in Vertices /\ i # 0
    BY <1>3, StaticEnds DEF Sides
  <2>2. \A i \in 0 .. Len(path) : i = 0 \/ i \in 1 .. Len(path)
    BY <1>3
  <2>3. query.source \in Vertices
    BY <1>1 DEF Walk
  <2>. QED
    BY <1>1, <2>1, <2>2, <2>3 DEF Walk, After
<1>6. Costs(labels) /\ Costs(blabels)
  BY SideTypes DEF Costs
<1>7. \A i \in 0 .. Len(path) : labels[place(i)].cost \in Nat /\ blabels[place(i)].cost \in Nat
  BY <1>5, <1>6 DEF Costs
<1>8. place(0) = query.source /\ place(m) = split /\ place(Len(path)) = query.target
  BY <1>1, <1>2 DEF After, EndOf
<1>9. \A i \in 1 .. m : labels[place(i)].cost = labels[place(i - 1)].cost + costs[path[i]]
  BY <1>2, <1>3, <1>5 DEF Along, Tight, Fwd
<1>10. \A i \in m + 1 .. Len(path) : blabels[place(i - 1)].cost = blabels[place(i)].cost + costs[path[i]]
  BY <1>2, <1>3, <1>5 DEF Along, Tight, Bwd
<1>. HIDE DEF place
<1>11. ASSUME NEW i \in 1 .. Len(path)
       PROVE  value(i) = value(i - 1) + costs[path[i]]
  <2>0. i \in 0 .. Len(path) /\ i - 1 \in 0 .. Len(path) /\ costs[path[i]] \in Nat /\ i \in Nat /\ splitValue \in Nat
    BY <1>3, <1>5 DEF Sides, Met
  <2>1. /\ labels[place(i)].cost \in Nat /\ labels[place(i - 1)].cost \in Nat
        /\ blabels[place(i)].cost \in Nat /\ blabels[place(i - 1)].cost \in Nat
    BY <1>7, <2>0
  <2>2. CASE i <= m
    <3>1. i \in 1 .. m /\ i - 1 <= m
      BY <1>3, <2>2
    <3>. QED
      BY <1>9, <2>2, <3>1
  <2>3. CASE i = m + 1
    <3>1. i - 1 = m /\ ~ (i <= m) /\ i \in m + 1 .. Len(path) /\ i - 1 <= m
      BY <1>3, <2>3
    <3>2. value(i - 1) = labels[split].cost /\ place(i - 1) = split
      BY <1>8, <3>1
    <3>3. value(i) = splitValue - blabels[place(i)].cost
      BY <3>1
    <3>4. blabels[split].cost = blabels[place(i)].cost + costs[path[i]]
      BY <1>10, <3>1, <3>2
    <3>. HIDE DEF value
    <3>. QED
      BY <1>4, <2>0, <2>1, <3>2, <3>3, <3>4
  <2>4. CASE i > m + 1
    <3>1. ~ (i <= m) /\ ~ (i - 1 <= m) /\ i \in m + 1 .. Len(path)
      BY <1>3, <2>4
    <3>2. /\ value(i) = splitValue - blabels[place(i)].cost
          /\ value(i - 1) = splitValue - blabels[place(i - 1)].cost
      BY <3>1
    <3>3. blabels[place(i - 1)].cost = blabels[place(i)].cost + costs[path[i]]
      BY <1>10, <3>1
    <3>. HIDE DEF value
    <3>. QED
      BY <2>0, <2>1, <3>2, <3>3
  <2>. QED
    BY <1>3, <2>2, <2>3, <2>4
<1>12. value(0) = 0
  BY <1>3, <1>4, <1>8
<1>13. value(Len(path)) = splitValue
  <2>1. splitValue \in Nat
    BY DEF Sides, Met
  <2>2. CASE m = Len(path)
    <3>1. Len(path) <= m /\ place(Len(path)) = split /\ split = query.target
      BY <1>3, <1>8, <2>2
    <3>2. value(Len(path)) = labels[split].cost
      BY <3>1
    <3>3. labels[split].cost \in Nat /\ blabels[split].cost = 0
      BY <1>4, <1>7, <1>3, <3>1
    <3>. HIDE DEF value
    <3>. QED
      BY <1>4, <3>2, <3>3
  <2>3. CASE m # Len(path)
    <3>1. ~ (Len(path) <= m)
      BY <1>3, <2>3
    <3>. QED
      BY <1>4, <1>8, <2>1, <3>1
  <2>. QED
    BY <2>2, <2>3
<1>14. Bi!PathCost(path) = splitValue
  <2>1. \A i \in 0 .. Len(path) : worth[i] = value(i)
    OBVIOUS
  <2>2. 0 \in 0 .. Len(path) /\ Len(path) \in 0 .. Len(path)
        /\ \A i \in 1 .. Len(path) : i \in 0 .. Len(path) /\ i - 1 \in 0 .. Len(path)
    BY <1>3
  <2>. HIDE DEF worth, value
  <2>3. worth[0] = 0 /\ worth[Len(path)] = splitValue
    BY <1>12, <1>13, <2>1, <2>2
  <2>4. \A i \in 1 .. Len(path) : worth[i] = worth[i - 1] + costs[path[i]]
    BY <1>11, <2>1, <2>2
  <2>. QED
    BY <1>3, <2>3, <2>4, CostOfPath
<1>15. Bi!Connects(path, query.source, query.target)
  BY <1>1, WalkConnects
<1>16. \E k \in 0 .. Len(path) : /\ \A i \in 1 .. k : path[i] \in query.forward
                                 /\ \A i \in k + 1 .. Len(path) : path[i] \in query.backward
  BY <1>2 DEF Along, Tight, Fwd, Bwd
<1>. QED
  BY <1>14, <1>15, <1>16 DEF Bi!PathRealisesSplit

LEMMA BiAnswer ==
  ASSUME BiInv
  PROVE  Bi!AnswerIsRight
<1>1. CASE AtOnce
  BY <1>1, AtOnceIsRight
<1>2. CASE Sides /\ Control /\ Verdict /\ Way
  <2>1. Bi!PathRealisesSplit
    BY <1>2, WayCosts DEF Bi!PathRealisesSplit
  <2>2. Bi!Shortest /\ Bi!NotFoundIsRight
    BY <1>2 DEF Verdict, Bi!Shortest, Bi!NotFoundIsRight
  <2>. QED
    BY <2>1, <2>2 DEF Bi!AnswerIsRight
<1>. QED
  BY <1>1, <1>2 DEF BiInv

-----------------------------------------------------------------------------
(* Both searches.                                                          *)

\* What holds of the search that was asked.
Asked ==
  \/ search = "timed" /\ IInv /\ RTypeOK /\ RivalBehind /\ Traced
  \/ search = "bidirectional" /\ pc = "idle" /\ BiInv

LEMMA AskedInit ==
  ASSUME AskTimed \/ AskBidirectional
  PROVE  Asked
<1>1. CASE AskTimed
  BY <1>1, RivalInit, TracedInit DEF AskTimed, RInit, Asked
<1>2. CASE AskBidirectional
  BY <1>2, BiInit DEF AskBidirectional, Asked
<1>. QED
  BY <1>1, <1>2

LEMMA AskedNext ==
  ASSUME Asked, [Answer \/ Rival]_searchVars
  PROVE  Asked'
<1>1. CASE search = "timed" /\ IInv /\ RTypeOK /\ RivalBehind /\ Traced
  <2>1. [RNext]_rvars /\ search' = search
    BY <1>1 DEF Answer, Rival, RNext, searchVars
  <2>2. IInv' /\ RTypeOK' /\ RivalBehind'
    BY <1>1, <2>1, RivalTypes, RivalStep
  <2>3. [Next]_vars
    BY <2>1 DEF RNext, Search, Drive, Wait, rvars, vars
  <2>4. Traced'
    BY <1>1, <2>3, TracedNext
  <2>. QED
    BY <1>1, <2>1, <2>2, <2>4 DEF Asked
<1>2. CASE search = "bidirectional" /\ pc = "idle" /\ BiInv
  <2>1. Bi!Next \/ UNCHANGED Bi!vars
    BY <1>2 DEF Answer, Rival, searchVars, rvars, twoSided, Bi!vars
  <2>2. search' = search /\ pc' = pc
    BY <1>2 DEF Answer, Rival, searchVars, rvars
  <2>3. BiInv'
    BY <1>2, <2>1, BiNext, BiStutter
  <2>. QED
    BY <1>2, <2>2, <2>3 DEF Asked
<1>. QED
  BY <1>1, <1>2 DEF Asked

LEMMA AskedAlways == SearchesSpec => []Asked
<1>1. Asked /\ [Answer \/ Rival]_searchVars => Asked'
  BY AskedNext
<1>. QED
  BY AskedInit, <1>1, PTL DEF SearchesSpec

\* BidirectionalRouter::shortestPath: the path connects the vertices, obeys the filter, costs
\* what the meeting said, and nothing within the bound is shorter; "not found" is only said
\* when there is nothing within it.
THEOREM BidirectionalAnswerIsRight == SearchesSpec => []AnswerIsRight
<1>1. Asked => AnswerIsRight
  BY BiAnswer DEF Asked, AnswerIsRight
<1>. QED
  BY AskedAlways, <1>1, PTL

\* TimedDijkstra::shortestPath, when it is the search that was asked: the path arrives when
\* the result says, nobody arrives before that, and "not found" is said when nobody can
\* arrive in time.
THEOREM TimedAnswerIsRight == SearchesSpec => [](PathRealisesCost /\ EarliestArrival /\ NotFoundIsRight)
<1>1. Asked => PathRealisesCost /\ EarliestArrival /\ NotFoundIsRight
  <2>1. CASE pc = "idle"
    BY <2>1 DEF PathRealisesCost, EarliestArrival, NotFoundIsRight
  <2>. QED
    BY <2>1, TracedPath, RivalIsLater, RivalIsNotThere DEF Asked
<1>. QED
  BY AskedAlways, <1>1, PTL

\* LabelHeap, in whichever search it serves: the labels in its map and the copies in the
\* binary heap agree.
THEOREM HeapsAgree == SearchesSpec => []HeapCoherent
<1>1. Asked => HeapCoherent
  BY DEF Asked, IInv, BiInv, AtOnce, Sides, Half, Copied, HeapCoherent
<1>. QED
  BY AskedAlways, <1>1, PTL
=============================================================================
