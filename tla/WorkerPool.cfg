SPECIFICATION FairPool
CONSTANTS
  Requests = {r1, r2, r3}
  Series <- MCSeries
  SafeSeries <- MCSafeSeries
  Detectors <- MCDetectors
  Menu <- PoolMenu
  Versions = {1, 2, 3}
  MaxCrashes = 1
  MaxFaults = 1
  NoFile = NoFile
  Torn = Torn
  NoOne = NoOne
  Workers = 2
INVARIANTS PoolInv PoolAlive
PROPERTIES ReadsOutlastFits EveryArrivalEnds
