SPECIFICATION FairSpec
CONSTANTS
  NumTilesX = 2
  NumTilesY = 2
  NumLevels = 2
  Valid <- HalfValid
  NumThreads = 2
  FaultKinds = {"crash", "shortWrite", "loadError", "storeError"}
  MaxFaults = 2
  Junk = Junk
INVARIANTS NoEmptyTileRace
PROPERTIES FilesAreFinal ImplementsPyramid Completes
CHECK_DEADLOCK FALSE
