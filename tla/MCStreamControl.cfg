SPECIFICATION FairSpec
CONSTANTS
  client1 = client1
  client2 = client2
  d1 = d1
  NoDecoder = NoDecoder
  Rtsp <- Clients
  Decoders <- Heap
  MaxRequests = 3
CONSTRAINT Bounded
CHECK_DEADLOCK FALSE
INVARIANTS TypeOK OneOfEach InUseIsAllocated StartedReceives
PROPERTIES Drains Answered
