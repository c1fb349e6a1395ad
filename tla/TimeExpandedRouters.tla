-------------------------- MODULE TimeExpandedRouters --------------------------
(***************************************************************************)
(* The routers as the pricers use them: a call asks one of them, the one   *)
(* that the class of the pricer is made with.  Each keeps labels of its    *)
(* own; the collected paths, the order of the visits and the rival are     *)
(* those of TimeExpandedRouter.  A router is asked over a network that is  *)
(* interesting for it.                                                     *)
(***************************************************************************)
EXTENDS TwoCycleFreeTimeExpandedRouter

CONSTANTS
  Size,
  Simple, Acyclic   (* records of vertices, edges, costs and requests       *)

ASSUME SizeAssumption == Size \in Nat \ {0}

ASSUME NetworksAssumption ==
  \A net \in {Simple, Acyclic} :
    /\ IsNetwork(net.vertices, net.edges)
    /\ NoEdge \notin net.edges
    /\ AreRequests(net.edges, net.costs, net.requests)

\* No way through the network costs as much as inf: reduced costs are at most
\* proportional to the time a journey takes, and the horizon is short enough.
ASSUME CostsAssumption ==
  \E most \in 0 .. Inf :
    /\ \A c \in Acyclic.costs, e \in Acyclic.edges : c[e] <= most * (e.target.time - e.source.time)
    /\ \A v \in Acyclic.vertices : most * v.time < Inf

VARIABLES
  router,
  otherPc,                              (* pc of the other two routers      *)
  simpleLabels, minCost, answer,        (* of the simple one                *)
  bounds, acyclicLabels, at, open       (* of the (hole-free) acyclic one   *)

simpleVars == <<simpleLabels, minCost, answer>>
acyclicVars == <<bounds, acyclicLabels, at, open>>

S == INSTANCE SimpleTimeExpandedRouter
       WITH TimedVertices <- Simple.vertices, TimedEdges <- Simple.edges, CostFuncs <- Simple.costs,
            Requests <- Simple.requests, pc <- otherPc, labels <- simpleLabels

A == INSTANCE AcyclicHoleFreeTimeExpandedRouter
       WITH TimedVertices <- Acyclic.vertices, TimedEdges <- Acyclic.edges, CostFuncs <- Acyclic.costs,
            Requests <- Acyclic.requests, pc <- otherPc, labels <- acyclicLabels

NoTwoCycleFree == pc = "idle" /\ labels = <<>>
NoSimple == simpleLabels = <<>> /\ minCost = 0 /\ answer = 0
NoAcyclic == bounds = <<>> /\ acyclicLabels = <<>> /\ at = Start /\ open = {}

AskTwoCycleFree == router = "twoCycleFree" /\ Init /\ otherPc = "idle" /\ NoSimple /\ NoAcyclic
AskSimple == router = "simple" /\ S!Init /\ NoTwoCycleFree /\ NoAcyclic
AskAcyclic == router = "acyclic" /\ A!Init /\ NoTwoCycleFree /\ NoSimple

RoutersInit == AskTwoCycleFree \/ AskSimple \/ AskAcyclic

RoutersNext ==
  \/ router = "twoCycleFree" /\ Next /\ UNCHANGED <<router, otherPc, simpleVars, acyclicVars>>
  \/ router = "simple" /\ S!Next /\ UNCHANGED <<router, pc, labels, acyclicVars>>
  \/ router = "acyclic" /\ (A!HoleFreeSearch \/ A!Rival) /\ UNCHANGED <<router, pc, labels, simpleVars>>

routersVars == <<vars, router, otherPc, simpleVars, acyclicVars>>

RoutersSpec == RoutersInit /\ [][RoutersNext]_routersVars
-----------------------------------------------------------------------------
\* The paths a router collects are different paths of the network from the source
\* back to it and of its class: without two-cycles, or without cycles of up to `size`
\* vertices.  They arrive in the time window, use no forbidden edge and cost what is
\* noted for them, less than the cutoff.  When the simple router has found any, the cost
\* it reports is that of one it returns: the heap keeps the cheapest when its end is cut.
AnswersAreSound ==
  /\ router = "simple" => S!Answers /\ S!AnswerAttained
  /\ router = "twoCycleFree" => Answers
  /\ router = "acyclic" => A!Answers

\* Nobody who walks the network as the request asks, and as the class of the router
\* does, beats the cost it reports, whatever was dropped on the way; but for labels
\* of equal cost, of which the hole-free router drops too many.
NobodyIsCheaper ==
  /\ router = "simple" => S!RivalBeaten
  /\ router = "twoCycleFree" => RivalBeaten
  /\ router = "acyclic" => A!RivalBeatenUnlessTied

\* The hole-free router misses nothing, whether or not labels tie.
HoleFreeIsExact == router = "acyclic" => A!RivalBeaten

\* A label is only dominated when every extension by vertices that it allows is
\* allowed by one of its rivals.
DominanceIsSound == router = "acyclic" => A!DominanceIsSound
=============================================================================
