-------------------------- MODULE MCStoreRefinement --------------------------
(***************************************************************************)
(* Small instances of ModelStore with its refinement of ModelRegistry.     *)
(***************************************************************************)
EXTENDS MCModelStore, StoreRefinement

\* Requests the service refuses: an unsupported detector, data that fail
\* validation, and an unsafe series identifier.
RefusedMenu ==
  Fits({"s"}, {"prophet"})
    \cup [op : {"fit"}, series : {"s"}, detector : {"gaussian"}, want : {0},
          data : {"invalid"}]
    \cup [op : {"fit", "predict"}, series : {"../s"}, detector : {"gaussian"},
          want : {0}, data : {"valid"}]

\* Fits that meet on one namespace, on one lock only, or on neither, every kind
\* of read of one namespace, and refused requests.
StoreMenu == WritersMenu \cup ReadersMenu \cup RefusedMenu
=============================================================================
