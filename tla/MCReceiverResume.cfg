SPECIFICATION Spec
CONSTANTS
  TsMod = 64
  Starts <- TrackStarts
  First = 62
  MaxSegment = 0
  MaxPauses = 1
  Patient = TRUE
  SeekThreshold = 1
  GateWindow = 2
  Lead = 1
  SegmentSize = 3
  RingSize = 2
  BacklogSize = 4
  MaxElapsed = 2
CHECK_DEADLOCK FALSE
INVARIANTS ResumeKeepsBuffer
