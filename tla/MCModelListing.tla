---------------------------- MODULE MCModelListing ----------------------------
(***************************************************************************)
(* Small instances of ModelListing.                                        *)
(***************************************************************************)
EXTENDS ModelListing, TLC

MCSeries == {"s", "t"}
MCDetectors == {"gaussian", "isolation_forest"}
MCSeriesOrder == <<"s", "t">>
MCDetectorOrder == <<"gaussian", "isolation_forest">>

Fits(ss, ds) ==
  [op : {"fit"}, series : ss, detector : ds, want : {0}, data : {"valid"}]

\* Fits of two namespaces of one series, and of a second series.
FitsMenu == Fits({"s"}, MCDetectors) \cup Fits({"t"}, {"gaussian"})

MCListMenu ==
  [op : {"models"}, strict : {TRUE, FALSE}, detector : {AnyDetector}]
    \cup [op : {"models"}, strict : {TRUE},
          detector : {"gaussian", "prophet"}]
    \cup [op : {"healthcheck"}, strict : {FALSE}, detector : {AnyDetector}]

RequestSymmetry == Permutations(Requests)
=============================================================================
