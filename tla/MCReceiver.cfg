SPECIFICATION FairSpec
CONSTANTS
  TsMod = 64
  Starts <- TrackStarts
  First = 62
  MaxSegment = 2
  MaxPauses = 1
  Patient = TRUE
  SeekThreshold = 1
  GateWindow = 2
  Lead = 1
  SegmentSize = 3
  RingSize = 3
  BacklogSize = 2
  MaxElapsed = 2
CHECK_DEADLOCK FALSE
INVARIANTS TypeOK AtMostOneStale
PROPERTIES SegmentHeard
