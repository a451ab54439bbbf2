SPECIFICATION Spec
CONSTANTS
  Requests = {r1, r2}
  Series <- MCSeries
  SafeSeries <- MCSafeSeries
  Detectors <- MCDetectors
  Menu <- ClaimsMenu
  Versions = {1, 2}
  MaxCrashes = 1
  MaxFaults = 0
  NoFile = NoFile
  Torn = Torn
  NoOne = NoOne
PROPERTY MetadataWrittenOnce
