---------------------------- MODULE TourHeuristics ----------------------------
(***************************************************************************)
(* The heuristics that improve or make a tour (tour/heuristics,            *)
(* tour/timed/heuristics).  Four of them cut the tour into slices and put  *)
(* these together differently until nothing improves; TimedLKHSolver       *)
(* follows chains of moves whether or not each of them improves;           *)
(* RestrictedDynamicSolver prolongs the most promising walks.              *)
(*                                                                         *)
(* A tour is a sequence of vertices; it starts at time 0, and what it      *)
(* costs depends on where it starts.                                       *)
(***************************************************************************)
EXTENDS Integers, SequencesExt

CONSTANTS
  vertices,          (* the vertices, the source of the tour first          *)
  DistanceFuncs,     (* travel times: a table by time for every pair        *)
  Static,            (* the distances that relativeDistances compares with  *)
  k,                 (* of KOptSolver                                       *)
  backTracingSteps, maxCandidates,  (* of TimedLKHSolver: 5 in the code     *)
  maxSize,           (* of RestrictedDynamicSolver                          *)
  Garbage,           (* bound: what is read past the end of the candidates  *)
  Inf

Size == Len(vertices)
Pairs == ToSet(vertices) \X ToSet(vertices)

\* createMultiIterator asserts that k vertices are left behind the source.
ASSUME HeuristicsAssumption ==
  /\ vertices \in Seq(ToSet(vertices)) /\ IsInjective(vertices)
  /\ k \in Nat /\ 2 <= k /\ k < Size
  /\ maxSize \in Nat \ {0} /\ maxCandidates \in Nat \ {0} /\ Inf \in Nat
  /\ Static \in [Pairs -> Nat \ {0}]

\* Every way between two vertices has an end, so that tours end before the tables do.
ASSUME TimesAssumption ==
  \E most \in 0 .. Inf :
    /\ most * Size <= Inf
    /\ \A d \in DistanceFuncs, p \in Pairs, t \in 0 .. most * Size : d[p][t] \in 0 .. most

VARIABLES
  heuristic, distances, relative,  (* what is called, and with what         *)
  pc,
  tour,              (* the best tour so far                                *)
  from,              (* the first cut that is still to be looked at         *)
  calls,             (* calls of TimedLKHSolver::improve that are to come   *)
  entries,           (* the walks of RestrictedDynamicSolver, ...           *)
  nextEntries,       (* ... those that are one vertex longer, ...           *)
  candidates,        (* ... and those of the walk that is prolonged, ...    *)
  last, next,        (* ... the number of this walk, and of the vertex      *)
  upperBound

given == <<heuristic, distances, relative>>
walkVars == <<entries, nextEntries, candidates, last, next, upperBound>>
vars == <<given, pc, tour, from, calls, walkVars>>

\* Tour::cost
Arrival(walk) ==
  LET f[i \in DOMAIN walk] == IF i = 1 THEN 0 ELSE f[i - 1] + distances[<<walk[i - 1], walk[i]>>][f[i - 1]]
  IN  f[Len(walk)]

cost(vs) == Arrival(Append(vs, vs[1]))

\* The ways to line up a set in which nobody is before the one he comes after.
InOrder(set, Before(_, _)) == {s \in SetToSeqs(set) : \A i \in 2 .. Len(s) : ~ Before(s[i], s[i - 1])}

\* The slice from position i to before position j, counted from 0.
Slice(vs, i, j) == SubSeq(vs, i + 1, j)
-----------------------------------------------------------------------------
(* Local search                                                            *)

CutsOf == [twoOpt |-> 2, shifting |-> 2, threeOpt |-> 3, kOpt |-> k]
FirstOf == [twoOpt |-> 0, shifting |-> 1, threeOpt |-> 0, kOpt |-> 1]

Less(p, q) == \E i \in DOMAIN p : p[i] < q[i] /\ \A j \in 1 .. i - 1 : p[j] = q[j]

\* Where the tour is cut, in the order of the loops (advanceMultiIterator).
Cuts == {p \in [1 .. CutsOf[heuristic] -> FirstOf[heuristic] .. Size - 1] :
           /\ \A i \in 2 .. Len(p) : p[i - 1] < p[i]
           /\ ~ Less(p, from)}

\* All ways to reorder the slices and to reverse them, all or none: insertSlices looks
\* at the same bit for each, its counter is never advanced.
Reassembled(p) ==
  LET slices == 1 .. k - 1
      Part(i, reversed) == LET s == Slice(tour, p[i], p[i + 1]) IN IF reversed THEN Reverse(s) ELSE s
  IN  {FlattenSeq([i \in slices |-> Part(order[i], reversed)]) :
         order \in {o \in [slices -> slices] : IsInjective(o)}, reversed \in BOOLEAN}

\* What the slices between the first and the last cut are replaced by, in the order it
\* is tried.  Of the k-opt moves at a cut any may come first.
Replacements(p) ==
  LET s == Slice(tour, p[1], p[2])
  IN  CASE heuristic = "twoOpt" -> {<<Reverse(s)>>}
        [] heuristic = "shifting" ->
             {<<<<tour[p[2] + 1]>> \o Tail(s) \o <<Head(s)>>, Reverse(s) \o <<tour[p[2] + 1]>>>>}
        [] heuristic = "threeOpt" ->
             LET t == Slice(tour, p[2], p[3]) IN {<<t \o Reverse(s), Reverse(t) \o Reverse(s), t \o s>>}
        [] heuristic = "kOpt" -> {<<part>> : part \in Reassembled(p)}

Replaced(p, part) == Slice(tour, 0, p[1]) \o part \o Slice(tour, p[1] + Len(part), Size)

\* a faulty variant of Improving: a tour that costs the same counts as well
ImprovingEqual(p) ==
  {Replaced(p, Head(parts)) : parts \in {parts \in Replacements(p) : cost(Replaced(p, Head(parts))) <= cost(tour)}}

\* The tours that improve at a cut: the first of them in each order.
Improving(p) ==
  {Replaced(p, parts[CHOOSE i \in DOMAIN parts : /\ cost(Replaced(p, parts[i])) < cost(tour)
                                                 /\ \A j \in 1 .. i - 1 : cost(Replaced(p, parts[j])) >= cost(tour)]) :
     parts \in {parts \in Replacements(p) : \E i \in DOMAIN parts : cost(Replaced(p, parts[i])) < cost(tour)}}

\* The search goes on at the first cut it has improved at; ThreeOptSolver only leaves
\* its innermost loop.
ImproveAt(p) ==
  /\ tour' \in Improving(p)
  /\ from' = IF heuristic = "threeOpt" THEN <<p[1], p[2], Size>> ELSE [p EXCEPT ![2] = 0]

improve ==
  /\ pc = "improve"
  /\ LET cuts == {p \in Cuts : Improving(p) # {}}
     IN  \/ \E p \in cuts : (\A q \in cuts : ~ Less(q, p)) /\ ImproveAt(p) /\ UNCHANGED pc
         \/ cuts = {} /\ pc' = "done" /\ UNCHANGED <<tour, from>>
  /\ UNCHANGED <<given, calls, walkVars>>
-----------------------------------------------------------------------------
(* TimedLKHSolver                                                          *)

Score(u, v, time) == [score |-> distances[<<u, v>>][time], unit |-> IF relative THEN Static[<<u, v>>] ELSE 1]
Lower(x, y) == x.score * y.unit < y.score * x.unit

\* getCandidates: those better than the next vertex, the best ones first.
getCandidates(call) ==
  LET u == Last(call.head)
      S(v) == Score(u, v, call.time)
      better == {v \in ToSet(Tail(call.tail)) : Lower(S(v), S(call.tail[1]))}
  IN  {SubSeq(s, 1, IF Len(s) < maxCandidates THEN Len(s) ELSE maxCandidates) :
         s \in InOrder(better, LAMBDA v, w : Lower(S(v), S(w)))}

\* a faulty variant of Moved: the vertex itself is not skipped
MovedTwice(call, v) ==
  LET i == CHOOSE i \in DOMAIN call.tail : call.tail[i] = v
  IN  Reverse(SubSeq(call.tail, 1, i - 1)) \o SubSeq(call.tail, i, Len(call.tail))

\* reverseUntil, up to the vertex that the head is prolonged with.
Moved(call, v) ==
  LET i == CHOOSE i \in DOMAIN call.tail : call.tail[i] = v
  IN  Reverse(SubSeq(call.tail, 1, i - 1)) \o SubSeq(call.tail, i + 1, Len(call.tail))

\* The call for a prolonged head.
Prolonged(call, v, steps) ==
  [head |-> Append(call.head, v), tail |-> Moved(call, v),
   time |-> call.time + distances[<<Last(call.head), v>>][call.time], steps |-> steps]

\* One call: the tour it stands for is compared with the best one, then come the calls
\* for its candidates; after backTracingSteps only that for the best of them.
improveCall ==
  /\ pc = "descend" /\ calls # <<>>
  /\ LET call == Head(calls)
         whole == call.head \o call.tail
     IN  /\ tour' = IF cost(whole) < cost(tour) THEN whole ELSE tour
         /\ IF call.tail = <<>> THEN calls' = Tail(calls)
            ELSE \E found \in getCandidates(call) :
                   LET chosen == IF call.steps >= backTracingSteps /\ found # <<>> THEN <<found[1]>> ELSE found
                   IN  calls' = (IF found = <<>> THEN <<Prolonged(call, call.tail[1], call.steps)>>
                                 ELSE [i \in DOMAIN chosen |-> Prolonged(call, chosen[i], call.steps + 1)])
                                \o Tail(calls)
  /\ UNCHANGED <<given, pc, from, walkVars>>

improveTour ==
  /\ pc = "descend" /\ calls = <<>>
  /\ pc' = "done"
  /\ UNCHANGED <<given, tour, from, calls, walkVars>>
-----------------------------------------------------------------------------
(* RestrictedDynamicSolver: an entry is a walk, which the code keeps as the *)
(* set of its vertices, its last vertex and its predecessor.                *)

Entry(walk, time) == [walk |-> walk, time |-> time]
Travel(entry, v) == entry.time + distances[<<Last(entry.walk), v>>][entry.time]
Earlier(e, f) == e.time < f.time
EarlierThan(e, set) == Cardinality({f \in set : Earlier(f, e)})

Layer == Len(entries[1].walk)

\* The next vertex is tried for a walk.  A candidate that arrives when another one does
\* is not inserted.  With exactly maxSize of them the bound is read past their end.
Consider ==
  /\ pc = "expand" /\ Layer < Size /\ last <= Len(entries) /\ next <= Size
  /\ LET entry == entries[last]
         v     == vertices[next]
         time  == Travel(entry, v)
     IN  IF v \in ToSet(entry.walk) \/ time > upperBound
         THEN UNCHANGED <<candidates, upperBound>>
         ELSE /\ candidates' = IF \E e \in candidates : e.time = time THEN candidates
                               ELSE candidates \cup {Entry(Append(entry.walk, v), time)}
              /\ IF Cardinality(candidates') < maxSize THEN UNCHANGED upperBound
                 ELSE \E bound \in IF Cardinality(candidates') = maxSize THEN Garbage
                                   ELSE {e.time : e \in {e \in candidates' : EarlierThan(e, candidates') = maxSize}} :
                        upperBound' = IF bound < upperBound THEN bound ELSE upperBound
  /\ next' = next + 1
  /\ UNCHANGED <<given, pc, tour, from, calls, entries, nextEntries, last>>

Collect ==
  /\ pc = "expand" /\ Layer < Size /\ last <= Len(entries) /\ next > Size
  /\ \E sorted \in InOrder(candidates, Earlier) : nextEntries' = sorted \o nextEntries
  /\ candidates' = {} /\ last' = last + 1 /\ next' = 1
  /\ UNCHANGED <<given, pc, tour, from, calls, entries, upperBound>>

Visits(e) == ToSet(e.walk)

\* BitSetCompare: the set without the first vertex that only one of them has.
SetBefore(e, f) ==
  LET Differs(i) == (vertices[i] \in Visits(e)) # (vertices[i] \in Visits(f))
  IN  \E i \in 1 .. Size : Differs(i) /\ (\A j \in 1 .. i - 1 : ~ Differs(j)) /\ vertices[i] \in Visits(f)

\* One of the walks for every set of vertices that they visit.
OneForEach(walks) ==
  FoldSet(LAMBDA visited, sets : {s \cup {e} : s \in sets, e \in {e \in walks : Visits(e) = visited}},
          {{}}, {Visits(e) : e \in walks})

\* Of the walks with the same vertices, wherever they are, one that arrives first is kept,
\* and of these the first maxSize; all of them when there are few or in the first round.
Pruned ==
  LET all == ToSet(nextEntries)
      best == {e \in all : \A f \in all : Visits(f) = Visits(e) => e.time <= f.time}
      First(set) == {s \in kSubset(maxSize, set) : \A e \in s, f \in set \ s : e.time <= f.time}
      Cut(set) == IF Cardinality(set) <= maxSize THEN InOrder(set, SetBefore)
                  ELSE UNION {InOrder(c, Earlier) : c \in First(set)}
  IN  IF Len(nextEntries) <= maxSize \/ Layer = 1 THEN {nextEntries}
      ELSE UNION {Cut(set) : set \in OneForEach(best)}

\* a faulty variant of NextLayer: the bound is that of the last round
NextLayerBounded ==
  /\ pc = "expand" /\ Layer < Size /\ last > Len(entries)
  /\ entries' \in Pruned
  /\ nextEntries' = <<>> /\ last' = 1
  /\ UNCHANGED <<given, pc, tour, from, calls, candidates, next, upperBound>>

NextLayer ==
  /\ pc = "expand" /\ Layer < Size /\ last > Len(entries)
  /\ entries' \in Pruned
  /\ nextEntries' = <<>> /\ last' = 1 /\ upperBound' = Inf
  /\ UNCHANGED <<given, pc, tour, from, calls, candidates, next>>

\* The best of them, measured from where it starts, is turned until the source is first.
findTour ==
  /\ pc = "expand" /\ Layer = Size
  /\ LET best == CHOOSE i \in DOMAIN entries :
                   \A j \in DOMAIN entries :
                     /\ cost(entries[i].walk) <= cost(entries[j].walk)
                     /\ j < i => cost(entries[i].walk) < cost(entries[j].walk)
         walk == entries[best].walk
         i == CHOOSE i \in DOMAIN walk : walk[i] = vertices[1]
     IN  tour' = SubSeq(walk, i, Size) \o SubSeq(walk, 1, i - 1)
  /\ pc' = "done"
  /\ UNCHANGED <<given, from, calls, walkVars>>
-----------------------------------------------------------------------------
Init ==
  /\ distances \in DistanceFuncs
  /\ heuristic \in DOMAIN CutsOf \cup {"lkh", "restricted"}
  /\ relative \in IF heuristic = "lkh" THEN BOOLEAN ELSE {FALSE}
  /\ pc = CASE heuristic = "lkh" -> "descend" [] heuristic = "restricted" -> "expand" [] OTHER -> "improve"
  /\ tour = vertices
  /\ from = IF pc = "improve" THEN [i \in 1 .. CutsOf[heuristic] |-> 0] ELSE <<>>
  /\ calls = IF pc = "descend"
             THEN [i \in 1 .. Size - 1 |->
                     [head |-> Slice(tour, 0, i), tail |-> Slice(tour, i, Size), time |-> 0, steps |-> 0]]
             ELSE <<>>
  /\ entries = IF pc = "expand" THEN [i \in 1 .. Size |-> Entry(<<vertices[i]>>, 0)] ELSE <<>>
  /\ nextEntries = <<>> /\ candidates = {} /\ last = 1 /\ next = 1 /\ upperBound = Inf

Next == improve \/ improveCall \/ improveTour \/ Consider \/ Collect \/ NextLayer \/ findTour

\* A heuristic is a loop of one thread: it is never suspended while it can go on.
Spec == Init /\ [][Next]_vars /\ WF_vars(Next)
-----------------------------------------------------------------------------
\* Whatever is cut, turned around and put together, at every time there is a tour of all
\* vertices; but for TwoOptSolver and ThreeOptSolver, which move its first vertex, it
\* starts at the source (asserted in KOptSolver and ShiftingSolver), and a tour that was
\* improved costs no more than the first one.
ToursStayTours ==
  /\ Len(tour) = Size /\ ToSet(tour) = ToSet(vertices)
  /\ heuristic \notin {"twoOpt", "threeOpt"} => tour[1] = vertices[1]
  /\ heuristic # "restricted" => cost(tour) <= cost(vertices)
  /\ \A i \in DOMAIN calls : ToSet(calls[i].head \o calls[i].tail) = ToSet(vertices)

\* The walks of RestrictedDynamicSolver are walks that arrive when they say.  Their number
\* is bounded but for the first round, and there are enough of them to go on (the assertion
\* before they are pruned), whatever the bound that was read past the end.
WalksAreEnough ==
  /\ \A e \in ToSet(entries) \cup ToSet(nextEntries) \cup candidates :
       IsInjective(e.walk) /\ e.time = Arrival(e.walk)
  /\ pc = "expand" /\ Layer > 2 => Len(entries) <= maxSize
  /\ pc = "expand" /\ Layer < Size /\ last > Len(entries) =>
       \/ Len(nextEntries) >= maxSize
       \/ Len(nextEntries) >= Len(entries)

\* Every heuristic ends: what improves costs less, what is prolonged gets longer.
HeuristicsEnd == <>(pc = "done")
=============================================================================
