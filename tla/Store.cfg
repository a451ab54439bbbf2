SPECIFICATION Spec
CONSTANTS
  Requests = {r1, r2, r3}
  Series <- MCSeries
  SafeSeries <- MCSafeSeries
  Detectors <- MCDetectors
  Menu <- StoreMenu
  Versions = {1, 2, 3}
  MaxCrashes = 1
  MaxFaults = 1
  NoFile = NoFile
  Torn = Torn
  NoOne = NoOne
  NotBegun = NotBegun
SYMMETRY RequestSymmetry
INVARIANTS TypeOK StoreInv LockDiscipline PublishedComplete Contiguous FitDurable RegistryInv ReadsInv LatestServed PinnedServed
PROPERTIES AppendOnly PublishedImmutable ImplementsRegistry
