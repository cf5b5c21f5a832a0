SPECIFICATION Spec
CONSTANTS
  client1 = client1
  client2 = client2
  Clients <- BothClients
  QueueLen = 3
  MaxEvents = 1
  MaxLinks = 1
  MaxFailures = 0
  MaxOutages = 1
CHECK_DEADLOCK FALSE
INVARIANT BluetoothAlone
