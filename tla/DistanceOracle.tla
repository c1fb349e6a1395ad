---------------------------- MODULE DistanceOracle ----------------------------
(***************************************************************************)
(* What a TimedDistanceFunc promises its callers: a call with a source, a  *)
(* target and a departure time returns the earliest arrival less the       *)
(* departure, or throws, and what it answers depends on the arguments of   *)
(* that call alone.  Nothing of a cache can be seen.                       *)
(***************************************************************************)
EXTENDS Integers

CONSTANTS
  Vertices,
  Departures,
  Arrival,     (* earliest arrivals, by source, departure and vertex; Inf if
                  the vertex cannot be reached                              *)
  Horizon,     (* costs are known for entering times up to it               *)
  Inf

Key == [source : Vertices, target : Vertices, departure : Departures]

\* What a user of this module has to assume of its constants.
TableOK ==
  /\ Departures \subseteq Nat
  /\ Horizon \in Nat /\ Inf \in Nat
  /\ Arrival \in [Vertices -> [Departures -> [Vertices -> Nat]]]
  /\ \A s, v \in Vertices, d \in Departures : d <= Arrival[s][d][v]

VARIABLES
  waiting,   (* a call is under way                                         *)
  request,   (* the arguments of the last call                              *)
  answer     (* what the last finished call returned                        *)

oracleVars == <<waiting, request, answer>>

ArrivalOf(k) == Arrival[k.source][k.departure][k.target]

TravelTime(k) == ArrivalOf(k) - k.departure

Answer == [kind : {"none", "value", "throw"}, key : Key, value : Int]

Returned(k, value) == [kind |-> "value", key |-> k, value |-> value]
Thrown(k) == [kind |-> "throw", key |-> k, value |-> 0]

\* A search for k looks at the edges out of v before it can settle the target,
\* but v is only reached after the horizon: the cost table has no entry there.
TooLate(k, v) ==
  LET arrival == Arrival[k.source][k.departure]
  IN  v # k.target /\ Horizon < arrival[v] /\ arrival[v] < Inf /\ arrival[v] <= ArrivalOf(k)

\* Whether a may be what a call for k is answered.
Permitted(k, a) ==
  \/ ArrivalOf(k) < Inf /\ a = Returned(k, TravelTime(k))
  \/ (ArrivalOf(k) >= Inf \/ \E v \in Vertices : TooLate(k, v)) /\ a = Thrown(k)

OracleInit ==
  /\ waiting = FALSE
  /\ request \in Key
  /\ answer = [kind |-> "none", key |-> request, value |-> 0]

Ask(k) == ~ waiting /\ waiting' = TRUE /\ request' = k /\ UNCHANGED answer

Reply == waiting /\ waiting' = FALSE /\ Permitted(request, answer') /\ UNCHANGED request

OracleNext == (\E k \in Key : Ask(k)) \/ Reply

\* A call that was made returns or throws.
OracleSpec == OracleInit /\ [][OracleNext]_oracleVars /\ WF_oracleVars(Reply)
=============================================================================
