SPECIFICATION FairSpec
CONSTANTS
  TsMod = 64
  Starts <- TrackStarts
  First = 62
  SegmentSize = 3
  Leads = {1, 3}
  ClockSteps <- OffsetSteps
  Period = 2
  Threshold = 2
  DmaSize = 2
  Target = 2
  ReadyWait = 1
  IslandGap = 1
  MaxEarly = 2
  MaxLate = 4
  MaxRequests = 2
CHECK_DEADLOCK FALSE
INVARIANTS TypeOK PlayedOnSchedule OneOldFrame
PROPERTIES HeldIsReleased
