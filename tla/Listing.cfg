SPECIFICATION LSpec
CONSTANTS
  Requests = {r1, r2}
  Series <- MCSeries
  SafeSeries <- MCSeries
  Detectors <- MCDetectors
  Menu <- FitsMenu
  Versions = {1, 2}
  MaxCrashes = 1
  MaxFaults = 1
  NoFile = NoFile
  Torn = Torn
  NoOne = NoOne
  Listers = {l1}
  ListMenu <- MCListMenu
  SeriesOrder <- MCSeriesOrder
  DetectorOrder <- MCDetectorOrder
  AnyDetector = AnyDetector
  MaxLosses = 1
SYMMETRY RequestSymmetry
INVARIANTS ListingFailsOnLossOnly ListingTrue ListingComplete ModelCountBetween
