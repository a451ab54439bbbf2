--------------------------- MODULE MCRequestMetrics ---------------------------
(***************************************************************************)
(* Small instances of RequestMetrics.                                      *)
(***************************************************************************)
EXTENDS RequestMetrics, TLC

\* numpy.percentile(s, 95) against its definition, for short windows.
ASSUME PercentileAssumption ==
  \A n \in 1 .. 5 : \A s \in [1 .. n -> 0 .. 3] : PercentileTrue(s)

RequestSymmetry == Permutations(Requests)
=============================================================================
