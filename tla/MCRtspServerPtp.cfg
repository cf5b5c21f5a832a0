SPECIFICATION Spec
CONSTANTS
  phone = phone
  mac = mac
  pad = pad
  None = None
  Clients <- ThreeClients
  V1 <- Phones
  Remote <- Phones
CHECK_DEADLOCK FALSE
INVARIANTS PtpForNewSession
