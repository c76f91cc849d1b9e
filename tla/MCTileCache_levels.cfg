SPECIFICATION Spec
CONSTANTS
  NumTilesX = 4
  NumTilesY = 4
  NumLevels = 3
  Valid <- QuadrantValid
  NumThreads = 1
  FaultKinds = {"crash", "shortWrite", "loadError"}
  MaxFaults = 2
  Junk = Junk
INVARIANTS TypeOK Grounded StatusTracksDisk DoneMeansComplete PyramidExact
CHECK_DEADLOCK FALSE
