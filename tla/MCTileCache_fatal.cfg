SPECIFICATION Spec
CONSTANTS
  NumTilesX = 2
  NumTilesY = 2
  NumLevels = 2
  Valid <- SparseValid
  NumThreads = 1
  FaultKinds = {"loadError"}
  MaxFaults = 1
  Junk = Junk
PROPERTIES
  MipErrorsAreFatal
CHECK_DEADLOCK FALSE
