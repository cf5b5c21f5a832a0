SPECIFICATION FairSpec
CONSTANTS
  SeqMod = 16
  WindowBits = 3
  FirstSeq = 13
  MaxPackets = 6
  MaxInFlight = 2
  MaxTroubles = 2
  ResetCost = 2
  MaxSentAfterOverlap = 3
CONSTRAINT Bounded
INVARIANTS TypeOK AcceptedOnce WindowIsMissing
PROPERTIES NoHoleForgotten HolesAreFilled
