---------------------------- MODULE MCPlotFigures ----------------------------
(***************************************************************************)
(* Small instances of PlotFigures: plots of both detectors, with and       *)
(* without flags and scores, and one that cannot be drawn.                 *)
(***************************************************************************)
EXTENDS PlotFigures, TLC

Datum(detector, flags, scores, drawable) ==
  [detector |-> detector, flags |-> flags, scores |-> scores,
   drawable |-> drawable]

MCPlotMenu ==
  {Datum("gaussian", "some", "absent", TRUE),
   Datum("gaussian", "absent", "absent", FALSE),
   Datum("isolation_forest", "none", "present", TRUE)}

Symmetry == Permutations(Plots)
=============================================================================
