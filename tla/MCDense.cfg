\* Three nodes find each other, and send nothing yet.
SPECIFICATION FairSpec
CHECK_DEADLOCK FALSE
CONSTANTS
  n1 = n1
  n2 = n2
  n3 = n3
  Node = {n1, n2, n3}
  Id <- MCId
  NoConn = none
  Found <- Conn
  PeerSizeLimit = 3
  HubsSend = FALSE
  MaxFaults = 0
PROPERTIES
  FullyConnected
