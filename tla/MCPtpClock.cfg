SPECIFICATION FairSpec
CONSTANTS
  homepod = homepod
  phone = phone
  NoMaster = NoMaster
  Masters <- TwoMasters
  Start <- Apart
  Jump <- Back
  Delays <- OnTime
  Sequence <- Numbers
  LockThreshold = 4
  OutlierThreshold = 4
  PosDiv = 2
  NegDiv = 2
  NegClamp = 2
  MinSamples = 2
  StartupTime = 1
  StableTime = 1
  Timeout = 1
  MaxRequests = 2
  MaxJumps = 1
CONSTRAINT Bounded
CHECK_DEADLOCK FALSE
INVARIANTS TypeOK OffsetOfMaster KeptSampleIsStable
PROPERTIES Converges
