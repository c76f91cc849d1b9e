SPECIFICATION OSMSpec
CONSTANTS
  Tiles <- MCTiles
  MapWidth = 32
  FieldBits = 3
  MaxBlocks = 1
  Configs <- MCConfigs
  Offset <- MCOffset
  Requests <- MCRequests
  MaxOSMZoomLevel = 1
  TilePixels = 2
  DistanceDomain = 1
INVARIANTS ReferencesCounted RingsWellMade ShapesKept AttributesKept
INVARIANTS OSMTypeOK TransformFound BoxCovered WaterLoaded ShoresTold OnlyBrokenTilesStop
PROPERTY RequestAnswered
CHECK_DEADLOCK FALSE
