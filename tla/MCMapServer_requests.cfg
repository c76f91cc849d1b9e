CONSTANTS
  h1 = h1
  h2 = h2
  Handlers = {h1, h2}
  Layers <- MapLayers
  TileLayers <- Caches
  Formats <- LayerFormats
  Requests <- Given
  MaxInt = 127
SPECIFICATION FairSpec
INVARIANTS TypeOK ImagesAreComplete ErrorsHaveCause NothingDeletedInUse
PROPERTIES TablesFrozen Answered
CHECK_DEADLOCK FALSE
