-------------------------- MODULE AugmentedEdgeFunc --------------------------
(***************************************************************************)
(* AugmentedEdgeFunc (timed/augmented_edge_func.hh, .cc): how the travel   *)
(* times of one edge are generated.  From a free-flow cost, a scale factor *)
(* and a sorted list of breakpoints, the constructor builds a table that   *)
(* congests and relaxes in turn, one unit of cost per unit of time.        *)
(*                                                                         *)
(* Everything that searches in time-dependent costs relies on the table    *)
(* being first-in-first-out; TimedDijkstra states that as an assumption on *)
(* its cost functions, and this module is where it comes from.             *)
(***************************************************************************)
EXTENDS Integers

CONSTANTS
  BaseCosts,     (* free-flow costs an edge may have                        *)
  Scales,        (* scale factors an instance may have                      *)
  TimeHorizon,   (* timeHorizon: number of entries of a table               *)
  Steps          (* steps: random breakpoints per edge                      *)

\* scaleFactor >= 1 is asserted by the constructor.
ASSUME EdgeFuncAssumption ==
  /\ BaseCosts \subseteq Nat
  /\ Scales \subseteq Nat \ {0}
  /\ TimeHorizon \in Nat
  /\ Steps \in Nat

VARIABLES
  cost, scaleFactor, times,   (* the arguments; never change                *)
  k,             (* the iteration over times: nextTime = times[k]           *)
  currentTime,   (* length of the table so far                              *)
  currentCost,   (* the surcharge before it is clamped                      *)
  factor,        (* 1 while the edge congests, -1 while it relaxes          *)
  values         (* timedCosts(edge), indexed from 0                        *)

vars == <<cost, scaleFactor, times, k, currentTime, currentCost, factor, values>>

\* What generate() passes: Steps draws from 0 .. timeHorizon and the horizon
\* itself, sorted.
Breakpoints ==
  {s \in [1 .. Steps + 1 -> 0 .. TimeHorizon] :
     /\ \A i \in 1 .. Steps : s[i] <= s[i + 1]
     /\ s[Steps + 1] = TimeHorizon}

Init ==
  /\ cost \in BaseCosts
  /\ scaleFactor \in Scales
  /\ times \in Breakpoints
  /\ k = 1
  /\ currentTime = 0 /\ currentCost = 0 /\ factor = 1
  /\ values = [t \in {} |-> 0]

\* The travel time for a surcharge of c: clamped to 0 .. (scaleFactor - 1) * cost.
Level(c) ==
  LET cap    == (scaleFactor - 1) * cost
      capped == IF c < cap THEN c ELSE cap
  IN  cost + (IF capped > 0 THEN capped ELSE 0)

\* a faulty variant of Push: an edge relaxes by two units at a time
PushSteep ==
  /\ k <= Steps + 1 /\ currentTime < times[k]
  /\ values' = [t \in 0 .. currentTime |->
                  IF t < currentTime THEN values[t] ELSE Level(currentCost)]
  /\ currentCost' = currentCost + (IF factor = 1 THEN 1 ELSE -2)
  /\ currentTime' = currentTime + 1
  /\ UNCHANGED <<cost, scaleFactor, times, k, factor>>

\* a faulty variant of Push: the breakpoint itself still belongs to the segment
PushInclusive ==
  /\ k <= Steps + 1 /\ currentTime <= times[k]
  /\ values' = [t \in 0 .. currentTime |->
                  IF t < currentTime THEN values[t] ELSE Level(currentCost)]
  /\ currentCost' = currentCost + factor
  /\ currentTime' = currentTime + 1
  /\ UNCHANGED <<cost, scaleFactor, times, k, factor>>

\* One iteration of a while loop: currentCost++ or currentCost-- after the push.
Push ==
  /\ k <= Steps + 1 /\ currentTime < times[k]
  /\ values' = [t \in 0 .. currentTime |->
                  IF t < currentTime THEN values[t] ELSE Level(currentCost)]
  /\ currentCost' = currentCost + factor
  /\ currentTime' = currentTime + 1
  /\ UNCHANGED <<cost, scaleFactor, times, k, factor>>

\* The breakpoint is reached: the other direction from here on.
Turn ==
  /\ k <= Steps + 1 /\ currentTime >= times[k]
  /\ factor' = -factor
  /\ k' = k + 1
  /\ UNCHANGED <<cost, scaleFactor, times, currentTime, currentCost, values>>

Next == Push \/ Turn

Spec == Init /\ [][Next]_vars

-----------------------------------------------------------------------------
TypeOK ==
  /\ cost \in BaseCosts
  /\ scaleFactor \in Scales
  /\ times \in Breakpoints
  /\ k \in 1 .. Steps + 2
  /\ currentTime \in 0 .. TimeHorizon
  /\ currentCost \in Int
  /\ factor \in {1, -1}
  /\ values \in [0 .. currentTime - 1 -> Nat]

\* Travel times stay between the free-flow cost and the scaled one however far
\* the unclamped surcharge drifts out of that range (the drift is not undone at
\* a breakpoint, so it must not show).
WithinScale ==
  \A t \in 0 .. currentTime - 1 : cost <= values[t] /\ values[t] <= scaleFactor * cost

\* Consecutive travel times differ by one unit at most, across breakpoints and
\* where the clamp takes hold too (augmented_edge_func_test.cc asserts it for
\* one random function).
UnitSteps ==
  \A t \in 1 .. currentTime - 1 :
    values[t] - values[t - 1] \in {-1, 0, 1}

\* First in, first out: who enters the edge later does not leave it earlier.
\* All routers settle a vertex at its first extraction and rely on it.
FIFO ==
  \A s, t \in 0 .. currentTime - 1 : s <= t => s + values[s] <= t + values[t]

\* When the iteration over the breakpoints ends, the table covers the whole time
\* horizon and nothing beyond it: duplicate breakpoints, and one at 0, neither
\* skip nor repeat an entry.
Complete == k = Steps + 2 => currentTime = TimeHorizon
=============================================================================
