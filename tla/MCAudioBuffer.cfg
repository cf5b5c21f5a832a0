SPECIFICATION FairSpec
CONSTANTS
  TsMod = 8
  Slots = {s1, s2, s3}
  NoSlot = NoSlot
  p1 = p1
  c1 = c1
  f1 = f1
  Producers = {p1}
  Consumer = c1
  Flushers = {f1, c1}
  Timestamps <- WrapStamps
  MaxChunks = 2
  HighWater = 0
INVARIANTS TypeOK SlotsPartitioned PlayOrder SearchFindsPosition SemaphoreBalanced BackpressureSuffices
PROPERTIES ImplementsFrameQueue QueuedAudioIsPlayed
