CONSTANTS
  Width = 6
  Height = 2
  Values <- Heights
  Invalid <- NoData
  MaxNumElementsPerRowSegment = 65535
SPECIFICATION FileSpec
INVARIANTS InBounds SegmentsTile RoundTrip RowBound NoRunAfterBulk
PROPERTIES Terminates
CHECK_DEADLOCK FALSE
