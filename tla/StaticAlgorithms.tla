--------------------------- MODULE StaticAlgorithms ---------------------------
(***************************************************************************)
(* The separators of lifted subtour cuts bound what remains of a tour by   *)
(* the answer of TourSolver, or by an arborescence of least weight,        *)
(* whichever they were made with (computeMaxTime).  A call asks one of     *)
(* the two.                                                                *)
(***************************************************************************)
EXTENDS TourSolver

CONSTANTS
  Graphs                               (* for minArborescence               *)

VARIABLES
  subtourBound,                        (* is TourSolver asked?              *)
  graph, stage, levels, arborescence   (* of minArborescence                *)

arborescenceVars == <<graph, stage, levels, arborescence>>
algorithmVars == <<vars, subtourBound, arborescenceVars>>

Arborescence == INSTANCE MinArborescence

AskTour ==
  /\ subtourBound /\ Init
  /\ graph = <<>> /\ stage = "idle" /\ levels = <<>> /\ arborescence = {}

AskArborescence ==
  /\ ~ subtourBound /\ Arborescence!MInit
  /\ costs = <<>> /\ phase = "idle" /\ open = <<>> /\ node = <<>>
  /\ rows = {} /\ best = {} /\ answer = <<>>
  /\ FlowInit(NoFlow)

computeMaxTime ==
  \/ subtourBound /\ Next /\ UNCHANGED <<subtourBound, arborescenceVars>>
  \/ ~ subtourBound /\ Arborescence!minArborescence /\ UNCHANGED <<subtourBound, vars>>

StaticSpec ==
  /\ subtourBound \in BOOLEAN /\ (AskTour \/ AskArborescence)
  /\ [][computeMaxTime]_algorithmVars
-----------------------------------------------------------------------------
\* Whether or not cycles have to be contracted, and contracted again, a cheapest
\* arborescence is returned, a lower bound on every way through what remains.
ArborescenceIsLeast == ~ subtourBound => Arborescence!ArborescenceIsLeast
=============================================================================
