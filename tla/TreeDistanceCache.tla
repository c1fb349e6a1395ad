-------------------------- MODULE TreeDistanceCache --------------------------
(***************************************************************************)
(* CachedTreeDistances (timed/cached_tree_distances.cc) on top of Cache    *)
(* (cache.hh).  A call that misses runs a search, and the search stores    *)
(* the distances of everything it has settled in the very cache whose      *)
(* get() is still on the stack; get() then inserts the key it was asked    *)
(* for.  CachedDistances (timed/cached_distances.cc) is the same with      *)
(* nothing stored by the search: an empty list of vertices.                *)
(*                                                                         *)
(* The search itself is TimedDijkstra; what is used of it here is that the *)
(* vertices it settles are those that arrive first, with their earliest    *)
(* arrivals (EarliestArrival in RivalTraveller, SettleOrder).   *)
(***************************************************************************)
EXTENDS LRUCache

CONSTANTS
  Vertices, Departures, Arrival, Horizon, Inf,   (* see DistanceOracle      *)
  Requests,      (* the keys callers ask for                                *)
  VertexLists,   (* vertices: whose distances a search stores, in order     *)
  Capacities     (* capacity                                                *)

VARIABLES
  vertices, capacity,   (* constructor arguments; never change              *)
  pc,         (* "idle" or where in get() the call is                       *)
  request,    (* the key of the last call                                   *)
  answer,     (* what the last finished call returned                       *)
  settled,    (* the vertices the search has settled                        *)
  next        (* the loop over vertices: position of the next one           *)

vars == <<entries, cache, vertices, capacity, pc, request, answer, settled, next>>

waiting == pc # "idle"

Oracle == INSTANCE DistanceOracle

Key == Oracle!Key

\* A cache without room cannot evict: evict() asserts there is an entry.
ASSUME CacheAssumption ==
  /\ Oracle!TableOK
  /\ Requests \subseteq Key
  /\ \A l \in VertexLists : l \in Seq(Vertices)
  /\ Capacities \subseteq Nat \ {0}

Init ==
  /\ CacheInit
  /\ vertices \in VertexLists
  /\ capacity \in Capacities
  /\ pc = "idle"
  /\ request \in Requests
  /\ answer = [kind |-> "none", key |-> request, value |-> 0]
  /\ settled = {}
  /\ next = 1

\* operator() calls get().
Ask(k) ==
  /\ pc = "idle"
  /\ pc' = "lookup" /\ request' = k
  /\ UNCHANGED <<entries, cache, vertices, capacity, answer, settled, next>>

Hit ==
  /\ pc = "lookup" /\ Contains(request)
  /\ Touch(request)
  /\ answer' = Oracle!Returned(request, cache[request])
  /\ pc' = "idle"
  /\ UNCHANGED <<vertices, capacity, request, settled, next>>

\* The key is not there: shortestPath() is called with it.
Miss ==
  /\ pc = "lookup" /\ ~ Contains(request)
  /\ pc' = "search"
  /\ UNCHANGED <<entries, cache, vertices, capacity, request, answer, settled, next>>

\* The sets of vertices a search for k may have settled when it ends: all that
\* arrive before the target, any of those that arrive with it, none that
\* arrives later; all that can be reached if the target cannot.
SettledSets(k) ==
  LET arrival == Arrival[k.source][k.departure]
      limit   == arrival[k.target]
      reached == {v \in Vertices : arrival[v] < Inf}
      before  == {v \in reached : arrival[v] < limit}
      ties    == {v \in reached : arrival[v] = limit /\ v # k.target}
  IN  {before \cup t \cup ({k.target} \cap reached) : t \in SUBSET ties}

\* The search loop.  A search that has to look beyond the horizon for the edges
\* of a settled vertex throws (PastHorizon in TimedDijkstra).
Search ==
  /\ pc = "search"
  /\ \E s \in SettledSets(request) :
       \/ /\ \E v \in s : Oracle!TooLate(request, v)
          /\ answer' = Oracle!Thrown(request)
          /\ pc' = "idle"
          /\ UNCHANGED <<settled, next>>
       \/ /\ \A v \in s : ~ Oracle!TooLate(request, v)
          /\ settled' = s /\ next' = 1
          /\ pc' = "store"
          /\ UNCHANGED answer
  /\ UNCHANGED <<entries, cache, vertices, capacity, request>>

KeyTo(v) == [source |-> request.source, target |-> v, departure |-> request.departure]

ValueTo(v) == Arrival[request.source][request.departure][v] - request.departure

\* a faulty variant of Store: the arrival is stored, not the travel time
StoreArrival ==
  /\ pc = "store" /\ next <= Len(vertices)
  /\ LET v == vertices[next]
     IN  \/ v \in settled /\ Insert(KeyTo(v), ValueTo(v) + request.departure, capacity)
         \/ v \notin settled /\ UNCHANGED cacheVars
  /\ next' = next + 1
  /\ UNCHANGED <<vertices, capacity, pc, request, answer, settled>>

\* a faulty variant of Store: labels are stored whatever their state
StoreUnsettled ==
  /\ pc = "store" /\ next <= Len(vertices)
  /\ Insert(KeyTo(vertices[next]), ValueTo(vertices[next]), capacity)
  /\ next' = next + 1
  /\ UNCHANGED <<vertices, capacity, pc, request, answer, settled>>

\* One iteration of the loop over vertices: only settled ones are stored.
Store ==
  /\ pc = "store" /\ next <= Len(vertices)
  /\ LET v == vertices[next]
     IN  \/ v \in settled /\ Insert(KeyTo(v), ValueTo(v), capacity)
         \/ v \notin settled /\ UNCHANGED cacheVars
  /\ next' = next + 1
  /\ UNCHANGED <<vertices, capacity, pc, request, answer, settled>>

\* The search returns the distance to the target; get() inserts it and returns.
Return ==
  /\ pc = "store" /\ next > Len(vertices)
  /\ request.target \in settled
  /\ Insert(request, ValueTo(request.target), capacity)
  /\ answer' = Oracle!Returned(request, ValueTo(request.target))
  /\ pc' = "idle" /\ settled' = {}
  /\ UNCHANGED <<vertices, capacity, request, next>>

\* The target was not found.  What was settled has been stored all the same.
Throw ==
  /\ pc = "store" /\ next > Len(vertices)
  /\ request.target \notin settled
  /\ answer' = Oracle!Thrown(request)
  /\ pc' = "idle" /\ settled' = {}
  /\ UNCHANGED <<entries, cache, vertices, capacity, request, next>>

Call == Hit \/ Miss \/ Search \/ Store \/ Return \/ Throw

Next == (\E k \in Requests : Ask(k)) \/ Call

\* A call runs in its caller's thread and never waits; callers may stop calling.
Spec == Init /\ [][Next]_vars /\ WF_vars(Call)

-----------------------------------------------------------------------------
TypeOK ==
  /\ entries \in Seq(Key)
  /\ cache \in [DOMAIN cache -> Int] /\ DOMAIN cache \subseteq Key
  /\ vertices \in VertexLists /\ capacity \in Capacities
  /\ pc \in {"idle", "lookup", "search", "store"}
  /\ request \in Requests
  /\ answer \in Oracle!Answer
  /\ settled \subseteq Vertices
  /\ next \in 1 .. Len(vertices) + 1

\* The cache never holds more than its capacity, although a search inserts in
\* between the lookup and the insertion of the same call.
Bounded == Len(entries) <= capacity

\* Every cached value is the travel time of its key: those stored on the way to
\* another target are as exact as the one that was asked for.
Exact == \A k \in DOMAIN cache : cache[k] = Oracle!TravelTime(k)

\* What was just returned is in the cache, even when the search has thrown the
\* key out again while it stored its other vertices: the next call hits.
AnswerCached == pc = "idle" /\ answer.kind = "value" => answer.key \in DOMAIN cache

\* Callers cannot tell the cache from an oracle that computes every distance.
ImplementsOracle == Oracle!OracleSpec
=============================================================================
