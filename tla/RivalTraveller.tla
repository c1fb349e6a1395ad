---------------------------- MODULE RivalTraveller ----------------------------
(***************************************************************************)
(* What TimedDijkstra::shortestPath promises, stated against a rival: once *)
(* the call has answered, a traveller leaves the same source at the same   *)
(* departure time, rides allowed edges and waits as he likes.  He is never *)
(* at the target before the arrival time the call returned, and never      *)
(* there within the bound if the call returned "not found".                *)
(*                                                                         *)
(* The rival stands for all journeys of the graph at once: his behaviours  *)
(* are exactly the walks that leave the source.                            *)
(***************************************************************************)
EXTENDS TimedDijkstra

VARIABLES
  pos,       (* where the rival is                                          *)
  clock      (* when he is there                                            *)

rvars == <<labels, heap, costs, query, pc, current, pending, at, path, pos, clock>>

RInit == Init /\ pos = query.source /\ clock = query.departure

\* The call runs before the rival leaves.
Search == Next /\ UNCHANGED <<pos, clock>>

Drive(e) ==
  /\ pc \in Outcome
  /\ e \in query.allowed /\ Source[e] = pos /\ clock \in Times
  /\ pos' = Target[e]
  /\ clock' = clock + costs[e][clock]
  /\ UNCHANGED vars

Wait ==
  /\ pc \in Outcome
  /\ clock < Horizon
  /\ clock' = clock + 1
  /\ UNCHANGED <<labels, heap, costs, query, pc, current, pending, at, path, pos>>

RNext == Search \/ (\E e \in Edges : Drive(e)) \/ Wait

\* The call goes on while it can (one thread, no blocking); nothing is assumed
\* of the rival.
RSpec == RInit /\ [][RNext]_rvars /\ WF_rvars(Search)

RTypeOK == TypeOK /\ pos \in Vertices /\ clock \in Nat

-----------------------------------------------------------------------------
\* The reported arrival is the earliest one ("Finds the shortest path between
\* the given vertices", timed_router.hh): nobody who obeys the filter beats it.
\* The same holds for everything else the search has settled on its way, which
\* is what CachedTreeDistances stores.
EarliestArrival ==
  pc = "found" => /\ Settled(query.target)
                  /\ Settled(pos) => clock >= Cost(pos)

\* "Not found" is only said when there is nothing to find: without a bound the
\* target cannot be reached at all, with one it cannot be reached in time.
NotFoundIsRight ==
  pc = "notFound" /\ pos = query.target => bounded /\ clock > query.bound
=============================================================================
