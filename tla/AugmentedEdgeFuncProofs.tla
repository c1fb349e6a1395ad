----------------------- MODULE AugmentedEdgeFuncProofs -----------------------
(***************************************************************************)
(* Proofs about AugmentedEdgeFunc: for every cost, scale factor, horizon   *)
(* and list of breakpoints the generated table stays within its scale,     *)
(* moves in unit steps, is first-in-first-out and covers the horizon.      *)
(***************************************************************************)
EXTENDS AugmentedEdgeFunc, TLAPS

\* The entry pushed last belongs to a surcharge one above or one below the
\* current one, whichever direction the edge has turned to since.
LastPushed ==
  currentTime > 0 =>
    values[currentTime - 1] \in {Level(currentCost - 1), Level(currentCost + 1)}

\* The breakpoints behind the iteration are covered.
Reached == k > 1 => times[k - 1] <= currentTime

IInv == TypeOK /\ WithinScale /\ UnitSteps /\ FIFO /\ LastPushed /\ Reached

-----------------------------------------------------------------------------
\* Clamping keeps the surcharge between nothing and (scaleFactor - 1) * cost.
LEMMA LevelRange ==
  ASSUME TypeOK, NEW c \in Int
  PROVE  /\ Level(c) \in Nat
         /\ cost <= Level(c) /\ Level(c) <= scaleFactor * cost
<1>. DEFINE cap == (scaleFactor - 1) * cost
<1>1. cost \in Nat /\ scaleFactor \in Nat /\ scaleFactor - 1 \in Nat
  BY EdgeFuncAssumption DEF TypeOK
<1>2. cap \in Nat
  <2>1. \A m, n \in Nat : m * n \in Nat
    OBVIOUS
  <2>. QED
    BY <1>1, <2>1
<1>3. cost + cap = scaleFactor * cost
  BY <1>1
<1>4. Level(c) = cost + (IF (IF c < cap THEN c ELSE cap) > 0
                         THEN (IF c < cap THEN c ELSE cap) ELSE 0)
  BY DEF Level
<1>5. ASSUME NEW m \in Nat, NEW x,
             x = cost + (IF (IF c < m THEN c ELSE m) > 0
                         THEN (IF c < m THEN c ELSE m) ELSE 0)
      PROVE  x \in Nat /\ cost <= x /\ x <= cost + m
  BY <1>1, <1>5
<1>. QED
  BY <1>2, <1>3, <1>4, <1>5

\* Clamping does not stretch: a surcharge one higher costs at most one more.
LEMMA LevelStep ==
  ASSUME TypeOK, NEW c \in Int
  PROVE  Level(c + 1) - Level(c) \in {0, 1}
<1>. DEFINE cap == (scaleFactor - 1) * cost
            L(m, x) == cost + (IF (IF x < m THEN x ELSE m) > 0
                               THEN (IF x < m THEN x ELSE m) ELSE 0)
<1>1. cost \in Int /\ scaleFactor \in Int
  BY EdgeFuncAssumption DEF TypeOK
<1>2. cap \in Nat
  <2>1. \A m, n \in Nat : m * n \in Nat
    OBVIOUS
  <2>. QED
    BY <2>1, EdgeFuncAssumption DEF TypeOK
<1>3. Level(c) = L(cap, c) /\ Level(c + 1) = L(cap, c + 1)
  BY DEF Level
<1>4. \A m \in Nat : L(m, c + 1) - L(m, c) \in {0, 1}
  BY <1>1
<1>. QED
  BY <1>2, <1>3, <1>4

LEMMA InitInv == Init => IInv
BY EdgeFuncAssumption DEF Init, IInv, TypeOK, WithinScale, UnitSteps, FIFO, LastPushed, Reached

LEMMA PushInv ==
  ASSUME IInv, Push
  PROVE  IInv'
<1>. DEFINE n == currentTime
            new == Level(currentCost)
<1>1. /\ TypeOK /\ k <= Steps + 1 /\ n < times[k] /\ n \in Nat /\ currentCost \in Int
      /\ k \in 1 .. Steps + 1 /\ times[k] \in 0 .. TimeHorizon /\ TimeHorizon \in Nat
  BY EdgeFuncAssumption DEF IInv, Push, TypeOK, Breakpoints
<1>2. /\ values' = [t \in 0 .. n |-> IF t < n THEN values[t] ELSE new]
      /\ currentTime' = n + 1 /\ currentCost' = currentCost + factor
      /\ UNCHANGED <<cost, scaleFactor, times, k, factor>>
  BY DEF Push
<1>3. \A c \in Int : Level(c)' = Level(c)
  BY <1>2 DEF Level
<1>4. new \in Nat /\ cost <= new /\ new <= scaleFactor * cost
  BY <1>1, LevelRange
<1>5. /\ \A t \in 0 .. n - 1 : values'[t] = values[t] /\ values[t] \in Nat
      /\ values'[n] = new
  BY <1>1, <1>2 DEF TypeOK
<1>6. TypeOK'
  <2>1. currentTime' \in 0 .. TimeHorizon /\ currentTime' - 1 = n
    BY <1>1, <1>2
  <2>2. values' \in [0 .. n -> Nat]
    <3>1. \A t \in 0 .. n : values'[t] \in Nat
      BY <1>1, <1>4, <1>5
    <3>2. DOMAIN values' = 0 .. n /\ values' = [t \in 0 .. n |-> values'[t]]
      BY <1>2
    <3>. QED
      BY <3>1, <3>2
  <2>3. currentCost' \in Int
    BY <1>1, <1>2 DEF TypeOK
  <2>. QED
    BY <1>1, <1>2, <2>1, <2>2, <2>3 DEF TypeOK, Breakpoints
<1>7. WithinScale'
  BY <1>1, <1>2, <1>4, <1>5 DEF IInv, WithinScale
<1>8. n > 0 => new - values[n - 1] \in {-1, 0, 1}
  <2>1. Level(currentCost + 1) - Level(currentCost) \in {0, 1}
    BY <1>1, LevelStep
  <2>2. Level((currentCost - 1) + 1) - Level(currentCost - 1) \in {0, 1}
    BY <1>1, LevelStep
  <2>3. (currentCost - 1) + 1 = currentCost
    BY <1>1
  <2>4. /\ Level(currentCost) \in Int
        /\ Level(currentCost + 1) \in Int
        /\ Level(currentCost - 1) \in Int
    BY <1>1, LevelRange
  <2>. QED
    BY <2>1, <2>2, <2>3, <2>4 DEF IInv, LastPushed
<1>9. UnitSteps'
  <2>. SUFFICES ASSUME NEW t \in 1 .. n
                PROVE  values'[t] - values'[t - 1] \in {-1, 0, 1}
    <3>1. currentTime' - 1 = n
      BY <1>1, <1>2
    <3>. QED
      BY <3>1 DEF UnitSteps
  <2>1. CASE t = n
    BY <1>1, <1>5, <1>8, <2>1
  <2>2. CASE t < n
    BY <1>1, <1>5, <2>2 DEF IInv, UnitSteps
  <2>. QED
    BY <1>1, <2>1, <2>2
<1>10. FIFO'
  <2>. SUFFICES ASSUME NEW s \in 0 .. n, NEW t \in 0 .. n, s <= t
                PROVE  s + values'[s] <= t + values'[t]
    BY <1>1, <1>2 DEF FIFO
  <2>1. CASE t < n
    BY <1>1, <1>5, <2>1 DEF IInv, FIFO
  <2>2. CASE s = n
    BY <1>1, <1>4, <1>5, <2>2
  <2>3. CASE t = n /\ s < n
    <3>1. s + values[s] <= (n - 1) + values[n - 1]
      BY <1>1, <2>3 DEF IInv, FIFO
    <3>2. (n - 1) + values[n - 1] <= n + new
      BY <1>1, <1>4, <1>5, <1>8, <2>3
    <3>. QED
      BY <1>1, <1>4, <1>5, <2>3, <3>1, <3>2
  <2>. QED
    BY <1>1, <2>1, <2>2, <2>3
<1>11. LastPushed'
  <2>1. factor \in {1, -1}
    BY <1>1 DEF TypeOK
  <2>2. currentCost \in {currentCost' - 1, currentCost' + 1}
    BY <1>1, <1>2, <2>1
  <2>3. values'[currentTime' - 1] = Level(currentCost) /\ currentCost' \in Int
    BY <1>1, <1>2, <1>5, <2>1
  <2>4. Level(currentCost) \in {Level(currentCost' - 1), Level(currentCost' + 1)}
    BY <2>2
  <2>. QED
    BY <1>3, <2>3, <2>4 DEF LastPushed
<1>12. Reached'
  <2>. SUFFICES ASSUME k > 1
                PROVE  times[k - 1] <= n + 1
    BY <1>2 DEF Reached
  <2>1. k - 1 \in 1 .. Steps + 1
    BY <1>1, EdgeFuncAssumption
  <2>2. times[k - 1] \in Int
    BY <1>1, <2>1 DEF TypeOK, Breakpoints
  <2>3. times[k - 1] <= n
    BY DEF IInv, Reached
  <2>. QED
    BY <1>1, <2>2, <2>3
<1>. QED
  BY <1>6, <1>7, <1>9, <1>10, <1>11, <1>12 DEF IInv

LEMMA TurnInv ==
  ASSUME IInv, Turn
  PROVE  IInv'
<1>1. /\ k <= Steps + 1 /\ currentTime >= times[k] /\ factor' = -factor /\ k' = k + 1
      /\ UNCHANGED <<cost, scaleFactor, times, currentTime, currentCost, values>>
      /\ TypeOK
  BY DEF IInv, Turn
<1>2. TypeOK'
  BY <1>1, EdgeFuncAssumption DEF TypeOK, Breakpoints
<1>3. Reached'
  <2>1. k' - 1 = k
    BY <1>1 DEF TypeOK
  <2>2. times[k] \in Int /\ currentTime \in Int
    BY <1>1, EdgeFuncAssumption DEF TypeOK, Breakpoints
  <2>. QED
    BY <1>1, <2>1, <2>2 DEF Reached
<1>. QED
  BY <1>1, <1>2, <1>3 DEF IInv, WithinScale, UnitSteps, FIFO, LastPushed, Level

LEMMA StutterInv == IInv /\ UNCHANGED vars => IInv'
BY DEF IInv, vars, TypeOK, WithinScale, UnitSteps, FIFO, LastPushed, Level, Reached, Breakpoints

LEMMA TableInvariant == Spec => []IInv
<1>1. IInv /\ [Next]_vars => IInv'
  BY PushInv, TurnInv, StutterInv DEF Next
<1>. QED
  BY InitInv, <1>1, PTL DEF Spec

-----------------------------------------------------------------------------
\* Whatever the breakpoints, the table is first-in-first-out at every moment of
\* its construction: the assumption TimedDijkstra and every other router make.
THEOREM TableIsFIFO == Spec => []FIFO
BY TableInvariant, PTL DEF IInv

\* Travel times stay within the scale and change by one unit at most per unit of
\* time, for all arguments (the unit test samples one function).
THEOREM TableIsGentle == Spec => [](TypeOK /\ WithinScale /\ UnitSteps)
BY TableInvariant, PTL DEF IInv

\* A finished table has exactly one entry per point of the time horizon.
THEOREM TableIsComplete == Spec => []Complete
<1>1. IInv => Complete
  BY EdgeFuncAssumption DEF IInv, TypeOK, Reached, Complete, Breakpoints
<1>. QED
  BY TableInvariant, <1>1, PTL
=============================================================================
