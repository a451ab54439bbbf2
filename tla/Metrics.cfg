SPECIFICATION Spec
CONSTANTS
  Requests = {r1, r2, r3}
  Fits = {"/fit/s"}
  Predicts = {"/predict/s"}
  Health = "/healthcheck"
  Durations = {1, 5}
  Window = 1
  Nobody = Nobody
SYMMETRY RequestSymmetry
INVARIANTS MetricsTypeOK CountersTrue CountedOnce SnapshotIsOneMoment MetricsInv LoopNeverWaitsForItself
