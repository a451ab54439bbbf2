----------------------------- MODULE MCWorkerPool -----------------------------
(***************************************************************************)
(* Small instances of WorkerPool: a pool that a few requests can fill.     *)
(***************************************************************************)
EXTENDS WorkerPool, MCModelStore

\* Fits of one series, with data that pass or fail validation, and reads.
PoolMenu ==
  Fits({"s"}, {"gaussian"})
    \cup [op : {"fit"}, series : {"s"}, detector : {"gaussian"}, want : {0},
          data : {"invalid"}]
    \cup Reads({"predict"}, {0})

\* Fits of two series, for the claim of the docs.
TwoSeriesMenu == Fits({"s", "t"}, {"gaussian"})
=============================================================================
