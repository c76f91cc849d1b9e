SPECIFICATION Spec
CONSTANTS
  NumASTERTilesX = 6
  AsterPixelsPerDegree = 8
  Sub = 4
  Tiles <- Land
  Requests <- SomeRequests
INVARIANTS TypeOK TilesInPlace AnswersAreWhole WithinImage
