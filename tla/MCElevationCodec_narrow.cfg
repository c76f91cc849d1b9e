CONSTANTS
  Width = 5
  Height = 2
  Values <- NearAndInvalid
  Invalid <- NoData
  MaxNumElementsPerRowSegment = 65535
SPECIFICATION Spec
INVARIANT RoundTrip
CHECK_DEADLOCK FALSE
