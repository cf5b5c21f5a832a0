SPECIFICATION FairSpec
CONSTANTS
  client1 = client1
  client2 = client2
  Clients <- BothClients
  QueueLen = 3
  MaxEvents = 4
  MaxLinks = 1
  MaxFailures = 1
  MaxOutages = 1
CONSTRAINT Bounded
CHECK_DEADLOCK FALSE
INVARIANTS TypeOK StateMatches OneOperation
PROPERTIES RadioReturns StreamingSuspends AirPlayReturns
