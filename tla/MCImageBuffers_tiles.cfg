CONSTANTS
  TileWidth = 2
  TileHeight = 1
  Invalid <- NoData
  Garbage = 77
  Pictures <- SomePictures
  Formats <- AllFormats
  MaxTiles = 2
SPECIFICATION Spec
INVARIANTS ImageTypeOK BuffersBalanced PicturesKept MipRight
