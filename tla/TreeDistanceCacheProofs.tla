----------------------- MODULE TreeDistanceCacheProofs -----------------------
(***************************************************************************)
(* Proofs about TreeDistanceCache: for every table of arrivals, capacity   *)
(* and list of vertices the cache is coherent and exact, and a step of it  *)
(* is a step of the oracle or none.                                        *)
(***************************************************************************)
EXTENDS TreeDistanceCache, TLAPS

-----------------------------------------------------------------------------
\* Two facts about positions in a list.
LEMMA LastOrBefore ==
  \A n \in Nat \ {0} : \A i \in 1 .. n : i = n \/ i \in 1 .. n - 1
OBVIOUS

LEMMA NextIndex ==
  \A n \in Nat \ {0} : \A i \in 1 .. n - 1 : i + 1 \in 1 .. n /\ 1 \in 1 .. n /\ i + 1 # 1
OBVIOUS

\* Insertion keeps list and map together and within the capacity; it adds at
\* most the one key, with the value given, and the key is there afterwards.
LEMMA InsertLemma ==
  ASSUME NEW K, entries \in Seq(K), Coherent,
         NEW c \in Nat \ {0}, Len(entries) <= c,
         NEW k \in K, NEW value, Insert(k, value, c)
  PROVE  /\ entries' \in Seq(K) /\ Coherent' /\ Len(entries') <= c
         /\ k \in DOMAIN cache'
         /\ cache' = [x \in DOMAIN cache' |-> cache'[x]]
            \/ cache' = cache
         /\ \A x \in DOMAIN cache' : \/ x \in DOMAIN cache /\ cache'[x] = cache[x]
                                     \/ x = k /\ cache'[x] = value
<1>1. CASE Contains(k)
  <2>1. entries' = entries /\ cache' = cache
    BY <1>1 DEF Insert, cacheVars
  <2>. QED
    BY <1>1, <2>1 DEF Contains, Coherent
<1>2. CASE ~ Contains(k) /\ Len(entries) = c
  <2>. DEFINE rest == Tail(entries)
              kept == DOMAIN cache \ {Head(entries)}
  <2>1. /\ entries' = Append(rest, k)
        /\ cache' = [x \in kept \cup {k} |-> IF x = k THEN value ELSE cache[x]]
    BY <1>2 DEF Insert
  <2>2. /\ Len(entries) \in Nat \ {0} /\ Head(entries) = entries[1]
        /\ rest \in Seq(K) /\ Len(rest) = Len(entries) - 1
        /\ \A i \in 1 .. Len(entries) - 1 : rest[i] = entries[i + 1]
    BY <1>2
  <2>3. /\ entries' \in Seq(K) /\ Len(entries') = Len(entries)
        /\ \A i \in 1 .. Len(entries) - 1 : entries'[i] = entries[i + 1]
        /\ entries'[Len(entries)] = k
    <3>. HIDE DEF rest
    <3>. QED
      BY <2>1, <2>2
  <2>4. DOMAIN cache' = {entries'[i] : i \in 1 .. Len(entries')}
    <3>1. \A x \in kept : \E i \in 1 .. Len(entries') : entries'[i] = x
      <4>. SUFFICES ASSUME NEW x \in kept
                    PROVE  \E i \in 1 .. Len(entries') : entries'[i] = x
        OBVIOUS
      <4>1. PICK i \in 1 .. Len(entries) : entries[i] = x
        BY DEF Coherent
      <4>2. i - 1 \in 1 .. Len(entries) - 1
        BY <2>2, <4>1
      <4>3. entries'[i - 1] = x /\ i - 1 \in 1 .. Len(entries')
        BY <2>2, <2>3, <4>1, <4>2
      <4>. QED
        BY <4>3
    <3>2. \A i \in 1 .. Len(entries') : entries'[i] \in kept \cup {k}
      <4>. SUFFICES ASSUME NEW i \in 1 .. Len(entries'), i # Len(entries)
                    PROVE  entries'[i] \in kept
        BY <2>3
      <4>1. /\ i \in 1 .. Len(entries) - 1 /\ i + 1 \in 1 .. Len(entries) /\ 1 \in 1 .. Len(entries)
            /\ i + 1 # 1
        <5>1. i \in 1 .. Len(entries) - 1
          BY <2>2, <2>3, LastOrBefore
        <5>. QED
          BY <2>2, <5>1, NextIndex
      <4>2. entries[i + 1] \in DOMAIN cache /\ entries[i + 1] # entries[1]
        BY <4>1 DEF Coherent
      <4>. QED
        BY <2>2, <2>3, <4>1, <4>2
    <3>3. \E i \in 1 .. Len(entries') : entries'[i] = k
      BY <2>2, <2>3
    <3>. QED
      BY <2>1, <3>1, <3>2, <3>3
  <2>5. \A i, j \in 1 .. Len(entries') : entries'[i] = entries'[j] => i = j
    <3>1. \A i \in 1 .. Len(entries) - 1 : entries'[i] # k
      <4>. SUFFICES ASSUME NEW i \in 1 .. Len(entries) - 1
                    PROVE  entries[i + 1] # k
        BY <2>3
      <4>1. i + 1 \in 1 .. Len(entries)
        BY <2>2
      <4>. QED
        BY <1>2, <4>1 DEF Coherent, Contains
    <3>2. ASSUME NEW i \in 1 .. Len(entries) - 1, NEW j \in 1 .. Len(entries) - 1,
                 entries'[i] = entries'[j]
          PROVE  i = j
      <4>1. entries[i + 1] = entries[j + 1] /\ i + 1 \in 1 .. Len(entries) /\ j + 1 \in 1 .. Len(entries)
        BY <2>2, <2>3, <3>2
      <4>2. i + 1 = j + 1
        BY <4>1 DEF Coherent
      <4>. QED
        BY <4>2
    <3>3. \A i \in 1 .. Len(entries') : i = Len(entries) \/ i \in 1 .. Len(entries) - 1
      BY <2>2, <2>3, LastOrBefore
    <3>. QED
      BY <2>3, <3>1, <3>2, <3>3
  <2>. QED
    BY <1>2, <2>1, <2>3, <2>4, <2>5 DEF Coherent
<1>3. CASE ~ Contains(k) /\ Len(entries) # c
  <2>1. /\ entries' = Append(entries, k)
        /\ cache' = [x \in DOMAIN cache \cup {k} |-> IF x = k THEN value ELSE cache[x]]
    BY <1>3 DEF Insert
  <2>2. /\ entries' \in Seq(K) /\ Len(entries') = Len(entries) + 1 /\ Len(entries) \in Nat
        /\ \A i \in 1 .. Len(entries) : entries'[i] = entries[i]
        /\ entries'[Len(entries) + 1] = k
    BY <2>1
  <2>3. \A i \in 1 .. Len(entries') : i = Len(entries) + 1 \/ i \in 1 .. Len(entries)
    BY <2>2
  <2>4. \A i \in 1 .. Len(entries) : entries[i] # k
    BY <1>3 DEF Coherent, Contains
  <2>5. DOMAIN cache' = {entries'[i] : i \in 1 .. Len(entries')}
    <3>1. \A x \in DOMAIN cache : \E i \in 1 .. Len(entries') : entries'[i] = x
      BY <2>2 DEF Coherent
    <3>2. \A i \in 1 .. Len(entries') : entries'[i] \in DOMAIN cache \cup {k}
      BY <2>2, <2>3 DEF Coherent
    <3>3. \E i \in 1 .. Len(entries') : entries'[i] = k
      BY <2>2
    <3>. QED
      BY <2>1, <3>1, <3>2, <3>3
  <2>6. \A i, j \in 1 .. Len(entries') : entries'[i] = entries'[j] => i = j
    BY <2>2, <2>3, <2>4 DEF Coherent
  <2>7. Len(entries') <= c
    BY <1>3, <2>2
  <2>. QED
    BY <2>1, <2>2, <2>5, <2>6, <2>7 DEF Coherent
<1>. QED
  BY <1>1, <1>2, <1>3

\* A hit moves one key of the list and loses none.
LEMMA TouchLemma ==
  ASSUME NEW K, entries \in Seq(K), Coherent, NEW k, Contains(k), Touch(k)
  PROVE  /\ entries' \in Seq(K) /\ Coherent' /\ Len(entries') = Len(entries)
         /\ cache' = cache
<1>. DEFINE n == Len(entries)
            p == PositionOf(k)
            moved(j) == IF j < p THEN j ELSE IF j < n THEN j + 1 ELSE p
<1>1. p \in 1 .. n /\ entries[p] = k
  BY DEF Contains, Coherent, PositionOf
<1>2. n \in Nat /\ \A i \in 1 .. n : entries[i] \in K
  OBVIOUS
<1>3. /\ entries' = [j \in 1 .. n |-> IF j < p THEN entries[j]
                                      ELSE IF j < n THEN entries[j + 1] ELSE k]
      /\ cache' = cache
  BY DEF Touch, MovedToEnd
<1>. HIDE DEF p, n
<1>4. \A j \in 1 .. n : moved(j) \in 1 .. n
  BY <1>1, <1>2
<1>5. \A i, j \in 1 .. n : moved(i) = moved(j) => i = j
  BY <1>1, <1>2
<1>6. \A i \in 1 .. n : \E j \in 1 .. n : moved(j) = i
  <2>. SUFFICES ASSUME NEW i \in 1 .. n
                PROVE  \E j \in 1 .. n : moved(j) = i
    OBVIOUS
  <2>1. CASE i < p
    BY <1>1, <1>2, <2>1
  <2>2. CASE i = p
    <3>1. n \in 1 .. n /\ moved(n) = p
      BY <1>1, <1>2
    <3>. QED
      BY <2>2, <3>1
  <2>3. CASE i > p
    <3>1. i - 1 \in 1 .. n /\ moved(i - 1) = i
      BY <1>1, <1>2, <2>3
    <3>. QED
      BY <3>1
  <2>. QED
    BY <1>1, <1>2, <2>1, <2>2, <2>3
<1>7. \A j \in 1 .. n : entries'[j] = entries[moved(j)]
  BY <1>1, <1>2, <1>3
<1>8. entries' \in Seq(K) /\ Len(entries') = n
  <2>1. \A j \in 1 .. n : entries'[j] \in K
    BY <1>2, <1>4, <1>7
  <2>2. entries' \in [1 .. n -> K]
    BY <1>3, <2>1
  <2>. QED
    BY <1>2, <2>2
<1>. HIDE DEF moved
<1>9. \A i, j \in 1 .. n : entries'[i] = entries'[j] => i = j
  BY <1>4, <1>5, <1>7 DEF Coherent, n
<1>10. {entries'[i] : i \in 1 .. n} = {entries[i] : i \in 1 .. n}
  <2>1. \A j \in 1 .. n : \E i \in 1 .. n : entries'[j] = entries[i]
    BY <1>4, <1>7
  <2>2. \A i \in 1 .. n : \E j \in 1 .. n : entries[i] = entries'[j]
    BY <1>6, <1>7
  <2>3. {entries'[i] : i \in 1 .. n} \subseteq {entries[i] : i \in 1 .. n}
    BY <2>1
  <2>4. {entries[i] : i \in 1 .. n} \subseteq {entries'[i] : i \in 1 .. n}
    BY <2>2
  <2>. QED
    BY <2>3, <2>4
<1>. QED
  BY <1>3, <1>8, <1>9, <1>10 DEF Coherent, n

-----------------------------------------------------------------------------
\* What the call in progress knows: a search that ended without an exception
\* has settled reachable vertices only, and the target if it is one.
Settling ==
  pc = "store" =>
    /\ \A v \in settled : Arrival[request.source][request.departure][v] < Inf
    /\ request.target \in settled <=> Oracle!ArrivalOf(request) < Inf

\* The cached values belong to reachable targets.
Finite == \A k \in DOMAIN cache : Oracle!ArrivalOf(k) < Inf

IInv ==
  TypeOK /\ Coherent /\ Bounded /\ Exact /\ AnswerCached /\ Settling /\ Finite

USE DEF Key

\* The assumptions of the oracle, for the constants of the cache.
LEMMA Types ==
  ASSUME TypeOK
  PROVE  /\ request \in Key
         /\ \A v \in Vertices : KeyTo(v) \in Key
         /\ \A v \in Vertices : Arrival[request.source][request.departure][v] \in Nat
         /\ \A v \in Vertices : ValueTo(v) \in Int
         /\ \A v \in Vertices : ValueTo(v) = Oracle!TravelTime(KeyTo(v))
         /\ \A v \in Vertices : Oracle!ArrivalOf(KeyTo(v)) = Arrival[request.source][request.departure][v]
         /\ KeyTo(request.target) = request
         /\ capacity \in Nat \ {0} /\ vertices \in Seq(Vertices)
         /\ request.target \in Vertices
<1>1. request \in Key /\ capacity \in Nat \ {0} /\ vertices \in Seq(Vertices)
  BY CacheAssumption DEF TypeOK
<1>2. /\ request.source \in Vertices /\ request.target \in Vertices
      /\ request.departure \in Departures /\ request.departure \in Nat
      /\ request = [source |-> request.source, target |-> request.target,
                    departure |-> request.departure]
  BY <1>1, CacheAssumption DEF Oracle!Key, Oracle!TableOK
<1>3. \A v \in Vertices : Arrival[request.source][request.departure][v] \in Nat
  BY <1>2, CacheAssumption DEF Oracle!TableOK
<1>. QED
  BY <1>1, <1>2, <1>3 DEF KeyTo, ValueTo, Oracle!TravelTime, Oracle!ArrivalOf, Oracle!Key

LEMMA InitInv == Init => IInv
<1>. SUFFICES ASSUME Init PROVE IInv
  OBVIOUS
<1>1. TypeOK
  <2>1. request \in Key
    BY CacheAssumption DEF Init
  <2>2. answer \in Oracle!Answer
    BY <2>1 DEF Init, Oracle!Answer
  <2>3. vertices \in Seq(Vertices)
    BY CacheAssumption DEF Init
  <2>4. entries \in Seq(Key)
    BY DEF Init, CacheInit
  <2>5. 1 \in 1 .. Len(vertices) + 1
    BY <2>3
  <2>. QED
    BY <2>2, <2>4, <2>5 DEF Init, CacheInit, TypeOK
<1>2. Len(entries) = 0 /\ DOMAIN cache = {}
  BY DEF Init, CacheInit
<1>3. Coherent
  BY <1>2 DEF Coherent
<1>4. Bounded
  BY <1>2, CacheAssumption DEF Init, Bounded
<1>. QED
  BY <1>1, <1>2, <1>3, <1>4 DEF Init, IInv, Exact, AnswerCached, Settling, Finite

LEMMA AskInv ==
  ASSUME IInv, NEW k \in Requests, Ask(k)
  PROVE  IInv'
BY DEF IInv, Ask, TypeOK, Coherent, Bounded, Exact, AnswerCached, Settling, Finite

LEMMA HitInv ==
  ASSUME IInv, Hit
  PROVE  IInv'
<1>1. /\ TypeOK /\ Contains(request) /\ Touch(request)
      /\ answer' = Oracle!Returned(request, cache[request]) /\ pc' = "idle"
      /\ UNCHANGED <<vertices, capacity, request, settled, next>>
  BY DEF IInv, Hit
<1>2. /\ entries' \in Seq(Key) /\ Coherent' /\ Len(entries') = Len(entries)
      /\ cache' = cache
  BY <1>1, TouchLemma DEF IInv, TypeOK
<1>3. cache[request] \in Int /\ request \in Key
  BY <1>1, Types DEF TypeOK, Contains
<1>4. answer' \in Oracle!Answer /\ answer'.key = request
  BY <1>1, <1>3 DEF Oracle!Answer, Oracle!Returned
<1>5. TypeOK'
  BY <1>1, <1>2, <1>4 DEF TypeOK
<1>. QED
  BY <1>1, <1>2, <1>4, <1>5
     DEF IInv, Bounded, Exact, AnswerCached, Settling, Finite, Contains

LEMMA MissInv ==
  ASSUME IInv, Miss
  PROVE  IInv'
BY DEF IInv, Miss, TypeOK, Coherent, Bounded, Exact, AnswerCached, Settling, Finite

LEMMA SearchInv ==
  ASSUME IInv, Search
  PROVE  IInv'
<1>1. /\ TypeOK /\ pc = "search"
      /\ UNCHANGED <<entries, cache, vertices, capacity, request>>
  BY DEF IInv, Search
<1>2. Coherent' /\ Bounded' /\ Exact' /\ Finite'
  BY <1>1 DEF IInv, Coherent, Bounded, Exact, Finite
<1>3. PICK s \in SettledSets(request) :
        \/ /\ answer' = Oracle!Thrown(request) /\ pc' = "idle"
           /\ UNCHANGED <<settled, next>>
        \/ /\ settled' = s /\ next' = 1 /\ pc' = "store" /\ UNCHANGED answer
  BY DEF Search
<1>4. CASE /\ answer' = Oracle!Thrown(request) /\ pc' = "idle"
           /\ UNCHANGED <<settled, next>>
  <2>1. answer' \in Oracle!Answer /\ answer'.kind = "throw"
    BY <1>1, <1>4, Types DEF Oracle!Thrown, Oracle!Answer
  <2>2. TypeOK'
    BY <1>1, <1>4, <2>1 DEF TypeOK
  <2>. QED
    BY <1>2, <1>4, <2>1, <2>2 DEF IInv, AnswerCached, Settling
<1>5. CASE settled' = s /\ next' = 1 /\ pc' = "store" /\ UNCHANGED answer
  <2>1. /\ s \subseteq Vertices
        /\ \A v \in s : Arrival[request.source][request.departure][v] < Inf
        /\ request.target \in s <=> Arrival[request.source][request.departure][request.target] < Inf
    BY <1>1, Types DEF SettledSets
  <2>2. 1 \in 1 .. Len(vertices) + 1
    BY <1>1, Types
  <2>3. TypeOK'
    BY <1>1, <1>5, <2>1, <2>2 DEF TypeOK
  <2>4. Settling'
    BY <1>1, <1>5, <2>1 DEF Settling, Oracle!ArrivalOf
  <2>. QED
    BY <1>2, <1>5, <2>3, <2>4 DEF IInv, AnswerCached
<1>. QED
  BY <1>3, <1>4, <1>5

\* Inserting the travel time to a reachable vertex keeps the cache what it is.
LEMMA StoreInsert ==
  ASSUME IInv, NEW v \in Vertices, Insert(KeyTo(v), ValueTo(v), capacity),
         Arrival[request.source][request.departure][v] < Inf,
         UNCHANGED <<capacity, request>>
  PROVE  /\ entries' \in Seq(Key) /\ cache' \in [DOMAIN cache' -> Int] /\ DOMAIN cache' \subseteq Key
         /\ Coherent' /\ Bounded' /\ Exact' /\ Finite'
         /\ KeyTo(v) \in DOMAIN cache'
<1>1. /\ entries \in Seq(Key) /\ capacity \in Nat \ {0} /\ Len(entries) <= capacity
      /\ KeyTo(v) \in Key /\ Coherent /\ ValueTo(v) \in Int
      /\ ValueTo(v) = Oracle!TravelTime(KeyTo(v))
      /\ Oracle!ArrivalOf(KeyTo(v)) < Inf
  BY Types DEF IInv, TypeOK, Bounded
<1>2. /\ entries' \in Seq(Key) /\ Coherent' /\ Len(entries') <= capacity
      /\ KeyTo(v) \in DOMAIN cache'
      /\ cache' = [x \in DOMAIN cache' |-> cache'[x]] \/ cache' = cache
      /\ \A x \in DOMAIN cache' : \/ x \in DOMAIN cache /\ cache'[x] = cache[x]
                                  \/ x = KeyTo(v) /\ cache'[x] = ValueTo(v)
  BY <1>1, InsertLemma
<1>3. \A x \in DOMAIN cache' : x \in Key /\ cache'[x] \in Int
  BY <1>1, <1>2 DEF IInv, TypeOK
<1>4. cache' \in [DOMAIN cache' -> Int]
  BY <1>2, <1>3 DEF IInv, TypeOK
<1>5. Exact'
  BY <1>1, <1>2 DEF IInv, Exact, Oracle!TravelTime, Oracle!ArrivalOf
<1>6. Finite'
  BY <1>1, <1>2 DEF IInv, Finite, Oracle!ArrivalOf
<1>. QED
  BY <1>2, <1>3, <1>4, <1>5, <1>6 DEF Bounded

LEMMA StoreInv ==
  ASSUME IInv, Store
  PROVE  IInv'
<1>. DEFINE v == vertices[next]
<1>1. /\ TypeOK /\ pc = "store" /\ next <= Len(vertices) /\ next' = next + 1
      /\ UNCHANGED <<vertices, capacity, pc, request, answer, settled>>
  BY DEF IInv, Store
<1>2. v \in Vertices /\ next' \in 1 .. Len(vertices) + 1
  BY <1>1, Types DEF TypeOK
<1>3. CASE v \in settled /\ Insert(KeyTo(v), ValueTo(v), capacity)
  <2>1. Arrival[request.source][request.departure][v] < Inf
    BY <1>1, <1>3 DEF IInv, Settling
  <2>2. /\ entries' \in Seq(Key) /\ cache' \in [DOMAIN cache' -> Int] /\ DOMAIN cache' \subseteq Key
        /\ Coherent' /\ Bounded' /\ Exact' /\ Finite'
    <3>. HIDE DEF v
    <3>. QED
      BY <1>1, <1>2, <1>3, <2>1, StoreInsert
  <2>. QED
    BY <1>1, <1>2, <2>2 DEF IInv, TypeOK, AnswerCached, Settling
<1>4. CASE UNCHANGED cacheVars
  BY <1>1, <1>2, <1>4
     DEF IInv, cacheVars, TypeOK, Coherent, Bounded, Exact, AnswerCached, Settling, Finite
<1>. QED
  BY <1>3, <1>4 DEF Store

LEMMA ReturnInv ==
  ASSUME IInv, Return
  PROVE  IInv'
<1>. DEFINE t == request.target
<1>1. /\ TypeOK /\ pc = "store" /\ t \in settled
      /\ Insert(request, ValueTo(t), capacity)
      /\ answer' = Oracle!Returned(request, ValueTo(t)) /\ pc' = "idle" /\ settled' = {}
      /\ UNCHANGED <<vertices, capacity, request, next>>
  BY DEF IInv, Return
<1>2. /\ t \in Vertices /\ KeyTo(t) = request /\ request \in Key
      /\ ValueTo(t) \in Int
      /\ Arrival[request.source][request.departure][t] < Inf
  BY <1>1, Types DEF IInv, Settling, TypeOK
<1>3. /\ entries' \in Seq(Key) /\ cache' \in [DOMAIN cache' -> Int] /\ DOMAIN cache' \subseteq Key
      /\ Coherent' /\ Bounded' /\ Exact' /\ Finite'
      /\ request \in DOMAIN cache'
  <2>. HIDE DEF t
  <2>. QED
    BY <1>1, <1>2, StoreInsert
<1>4. answer' \in Oracle!Answer /\ answer'.key = request
  BY <1>1, <1>2 DEF Oracle!Answer, Oracle!Returned
<1>. QED
  BY <1>1, <1>3, <1>4 DEF IInv, TypeOK, AnswerCached, Settling

LEMMA ThrowInv ==
  ASSUME IInv, Throw
  PROVE  IInv'
<1>1. /\ TypeOK /\ answer' = Oracle!Thrown(request) /\ pc' = "idle" /\ settled' = {}
      /\ UNCHANGED <<entries, cache, vertices, capacity, request, next>>
  BY DEF IInv, Throw
<1>2. answer' \in Oracle!Answer /\ answer'.kind = "throw"
  BY <1>1, Types DEF Oracle!Thrown, Oracle!Answer
<1>. QED
  BY <1>1, <1>2
     DEF IInv, TypeOK, Coherent, Bounded, Exact, AnswerCached, Settling, Finite

LEMMA StutterInv == IInv /\ UNCHANGED vars => IInv'
BY DEF IInv, vars, TypeOK, Coherent, Bounded, Exact, AnswerCached, Settling, Finite

LEMMA CacheInvariant == Spec => []IInv
<1>1. IInv /\ [Next]_vars => IInv'
  BY AskInv, HitInv, MissInv, SearchInv, StoreInv, ReturnInv, ThrowInv, StutterInv
     DEF Next, Call
<1>. QED
  BY InitInv, <1>1, PTL DEF Spec

-----------------------------------------------------------------------------
\* For every capacity the list of the LRU order and the map never drift apart,
\* although a search inserts while the lookup of get() is under way.
THEOREM CacheIsCoherent == Spec => [](Coherent /\ Bounded)
BY CacheInvariant, PTL DEF IInv

\* Every value in the cache is the travel time of its key, and an answer that
\* was returned is still there afterwards.
THEOREM CacheIsExact == Spec => [](Exact /\ AnswerCached)
BY CacheInvariant, PTL DEF IInv

\* A step of the cache is a call, an answer the oracle may give, or nothing the
\* caller can see.
LEMMA StepRefines ==
  ASSUME IInv, [Next]_vars
  PROVE  [Oracle!OracleNext]_(Oracle!oracleVars)
<1>. USE DEF IInv
<1>1. ASSUME NEW k \in Requests, Ask(k)
      PROVE  Oracle!OracleNext
  <2>1. k \in Key
    BY CacheAssumption
  <2>2. Oracle!Ask(k)
    BY <1>1 DEF Ask, Oracle!Ask, waiting
  <2>. QED
    BY <2>1, <2>2 DEF Oracle!OracleNext
<1>2. CASE Hit
  <2>1. /\ cache[request] = Oracle!TravelTime(request)
        /\ Oracle!ArrivalOf(request) < Inf
    BY <1>2 DEF Hit, Contains, Exact, Finite
  <2>2. Oracle!Permitted(request, answer')
    BY <1>2, <2>1 DEF Hit, Oracle!Permitted
  <2>. QED
    BY <1>2, <2>2 DEF Hit, Oracle!Reply, Oracle!OracleNext, waiting
<1>3. CASE Miss
  BY <1>3 DEF Miss, waiting, Oracle!oracleVars
<1>4. CASE Search
  <2>1. PICK s \in SettledSets(request) :
          \/ /\ \E v \in s : Oracle!TooLate(request, v)
             /\ answer' = Oracle!Thrown(request)
             /\ pc' = "idle"
          \/ pc' = "store" /\ UNCHANGED answer
    BY <1>4 DEF Search
  <2>2. s \subseteq Vertices
    BY Types DEF SettledSets
  <2>3. CASE pc' = "store" /\ UNCHANGED answer
    BY <1>4, <2>3 DEF Search, waiting, Oracle!oracleVars
  <2>4. CASE /\ \E v \in s : Oracle!TooLate(request, v)
             /\ answer' = Oracle!Thrown(request)
             /\ pc' = "idle"
    <3>1. Oracle!Permitted(request, answer')
      BY <2>2, <2>4 DEF Oracle!Permitted
    <3>. QED
      BY <1>4, <2>4, <3>1 DEF Search, Oracle!Reply, Oracle!OracleNext, waiting
  <2>. QED
    BY <2>1, <2>3, <2>4
<1>5. CASE Store
  BY <1>5 DEF Store, waiting, Oracle!oracleVars
<1>6. CASE Return
  <2>1. /\ ValueTo(request.target) = Oracle!TravelTime(request)
        /\ Oracle!ArrivalOf(request) < Inf
    BY <1>6, Types DEF Return, Settling
  <2>2. Oracle!Permitted(request, answer')
    BY <1>6, <2>1 DEF Return, Oracle!Permitted
  <2>. QED
    BY <1>6, <2>2 DEF Return, Oracle!Reply, Oracle!OracleNext, waiting
<1>7. CASE Throw
  <2>1. ~ (Oracle!ArrivalOf(request) < Inf)
    BY <1>7 DEF Throw, Settling
  <2>2. Oracle!ArrivalOf(request) \in Nat /\ Inf \in Nat
    BY Types, CacheAssumption DEF Oracle!ArrivalOf, Oracle!TableOK
  <2>3. Oracle!Permitted(request, answer')
    BY <1>7, <2>1, <2>2 DEF Throw, Oracle!Permitted
  <2>. QED
    BY <1>7, <2>3 DEF Throw, Oracle!Reply, Oracle!OracleNext, waiting
<1>8. CASE UNCHANGED vars
  BY <1>8 DEF vars, waiting, Oracle!oracleVars
<1>. QED
  BY <1>1, <1>2, <1>3, <1>4, <1>5, <1>6, <1>7, <1>8 DEF Next, Call

\* Callers cannot tell the cache from an oracle: every behaviour of the cache is
\* one of the oracle, up to the fairness of its answers, which TLC checks.
THEOREM CacheRefinesOracle ==
  Spec => Oracle!OracleInit /\ [][Oracle!OracleNext]_(Oracle!oracleVars)
<1>1. Init => Oracle!OracleInit
  BY CacheAssumption DEF Init, Oracle!OracleInit, waiting
<1>2. IInv /\ [Next]_vars => [Oracle!OracleNext]_(Oracle!oracleVars)
  BY StepRefines
<1>. QED
  BY CacheInvariant, <1>1, <1>2, PTL DEF Spec
=============================================================================
