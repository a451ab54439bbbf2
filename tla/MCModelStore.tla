----------------------------- MODULE MCModelStore -----------------------------
(***************************************************************************)
(* Small instances of ModelStore.  A menu is what the clients of a run may *)
(* send; every request picks any descriptor of the menu when it is         *)
(* submitted.                                                              *)
(***************************************************************************)
EXTENDS ModelStore, TLC

\* Two series; "../s" stands for an identifier the repository refuses.
MCSeries == {"s", "t", "../s"}
MCSafeSeries == {"s", "t"}
MCDetectors == {"gaussian", "isolation_forest"}

Fits(ss, ds) ==
  [op : {"fit"}, series : ss, detector : ds, want : {0}, data : {"valid"}]

Reads(ops, wants) ==
  [op : ops, series : {"s"}, detector : {"gaussian"}, want : wants,
   data : {"valid"}]

\* Fits that meet on one namespace, on one lock only, or on neither.
WritersMenu == Fits({"s"}, MCDetectors) \cup Fits({"t"}, {"gaussian"})

\* Fits of one namespace and every kind of read of its latest, first and
\* second version.
ReadersMenu ==
  Fits({"s"}, {"gaussian"})
    \cup Reads({"predict"}, {0, 1, 2})
    \cup Reads({"plot"}, {0, 2})
    \cup Reads({"detail"}, {0})
    \cup Reads({"version"}, {1})

\* One fit namespace and pinned predictions, for the claims of the docs.
ClaimsMenu == Fits({"s"}, {"gaussian"}) \cup Reads({"predict"}, {2})

\* Requests are interchangeable.
RequestSymmetry == Permutations(Requests)
=============================================================================
