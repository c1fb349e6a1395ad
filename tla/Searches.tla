------------------------------- MODULE Searches -------------------------------
(***************************************************************************)
(* The two searches that run on label heaps: a call asks the time-dependent *)
(* one for an arrival, or the bidirectional one for a path.  The forward   *)
(* side of the latter has the labels and the heap that the former has, so  *)
(* that what is said of these is said of both.  Each is asked over a graph *)
(* that is interesting for it.                                             *)
(***************************************************************************)
EXTENDS RivalTraveller, FiniteSets

CONSTANTS
  Static      (* for the bidirectional search: a record of edges, source,   *)
              (* target, costs and queries                                  *)

VARIABLES
  search,
  otherPc, side,              (* of the bidirectional search; pc is that of *)
  blabels, bheap,             (* the time-dependent one                     *)
  found, split, splitValue

twoSided == <<otherPc, side, blabels, bheap, found, split, splitValue>>
searchVars == <<rvars, search, twoSided>>

Bi == INSTANCE BidirectionalRouter
        WITH Edges <- Static.edges, Source <- Static.source, Target <- Static.target,
             CostFuncs <- Static.costs, Queries <- Static.queries,
             flabels <- labels, fheap <- heap, pc <- otherPc

ASSUME VerticesAssumption == IsFiniteSet(Vertices)

\* The two filters of a call are the same: they are the defaults for every caller.
ASSUME StaticAssumption ==
  /\ Static.source \in [Static.edges -> Vertices] /\ Static.target \in [Static.edges -> Vertices]
  /\ Static.costs \subseteq [Static.edges -> Nat]
  /\ Static.queries \subseteq Bi!Query
  /\ \A q \in Static.queries : q.forward = q.backward

AskTimed ==
  /\ search = "timed" /\ RInit
  /\ otherPc = "idle" /\ side = "forward" /\ blabels = <<>> /\ bheap = <<>>
  /\ found = FALSE /\ split = query.source /\ splitValue = Inf

AskBidirectional ==
  /\ search = "bidirectional" /\ Bi!Init
  /\ pc = "idle" /\ pos = query.source /\ clock = 0

Answer ==
  \/ search = "timed" /\ Search /\ UNCHANGED <<search, twoSided>>
  \/ search = "bidirectional" /\ Bi!Next /\ UNCHANGED <<search, pc, pos, clock>>

Rival ==
  /\ search = "timed"
  /\ (\E e \in Edges : Drive(e)) \/ Wait
  /\ UNCHANGED <<search, twoSided>>

\* A call is a loop of one thread: it is never suspended while it can go on.  Nothing
\* is assumed of the rival.
SearchesSpec ==
  /\ AskTimed \/ AskBidirectional
  /\ [][Answer \/ Rival]_searchVars
  /\ WF_searchVars(Answer)
-----------------------------------------------------------------------------
\* However early the bidirectional search stops, the caller gets a path, a shortest one,
\* or is rightly told that there is none.
AnswerIsRight == search = "bidirectional" => Bi!AnswerIsRight

\* Every call ends; in particular the walks back reach the ends although edges may cost
\* nothing.
Terminates == <>(pc \in Outcome \/ otherPc \in {"found", "notFound"})
=============================================================================
