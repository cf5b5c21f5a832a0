SPECIFICATION FairSpec
CONSTANTS
  homepod = homepod
  phone = phone
  NoMaster = NoMaster
  Masters <- OneMaster
  Start <- AtTen
  Jump <- Still
  Delays <- SomeDelays
  Sequence <- OneNumber
  LockThreshold = 4
  OutlierThreshold = 4
  PosDiv = 2
  NegDiv = 2
  NegClamp = 2
  MinSamples = 2
  StartupTime = 1
  StableTime = 1
  Timeout = 1
  MaxRequests = 0
  MaxJumps = 0
CHECK_DEADLOCK FALSE
PROPERTIES ExactSamplesLock
