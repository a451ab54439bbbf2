SPECIFICATION Spec
CONSTANTS
  Requests = {r1, r2, r3}
  Series <- MCSeries
  SafeSeries <- MCSafeSeries
  Detectors <- MCDetectors
  Menu <- ClaimsMenu
  Versions = {1, 2, 3}
  MaxCrashes = 0
  MaxFaults = 0
  NoFile = NoFile
  Torn = Torn
  NoOne = NoOne
PROPERTY MissingIsNotFound
