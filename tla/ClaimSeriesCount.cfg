SPECIFICATION LSpec
CONSTANTS
  Requests = {r1, r2}
  Series <- MCSeries
  SafeSeries <- MCSeries
  Detectors <- MCDetectors
  Menu <- FitsMenu
  Versions = {1, 2}
  MaxCrashes = 0
  MaxFaults = 0
  NoFile = NoFile
  Torn = Torn
  NoOne = NoOne
  Listers = {l1}
  ListMenu <- MCListMenu
  SeriesOrder <- MCSeriesOrder
  DetectorOrder <- MCDetectorOrder
  AnyDetector = AnyDetector
  MaxLosses = 0
SYMMETRY RequestSymmetry
INVARIANT CountsSeries
