------------------------- MODULE MCAugmentedEdgeFunc -------------------------
(* Every table of up to seven entries with three random breakpoints, which   *)
(* may coincide, lie at 0 or at the horizon.                                 *)
EXTENDS AugmentedEdgeFunc

MCBaseCosts == 0 .. 2
MCScales == 1 .. 3
MCTimeHorizon == 7
MCSteps == 3
=============================================================================
