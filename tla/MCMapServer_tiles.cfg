CONSTANTS
  h1 = h1
  h2 = h2
  Handlers = {h1, h2}
  Layers <- MapLayers
  TileLayers <- Caches
  Formats <- LayerFormats
  Requests <- Given
  MaxInt = 127
SPECIFICATION Spec
INVARIANT TilesAreServed
CHECK_DEADLOCK FALSE
