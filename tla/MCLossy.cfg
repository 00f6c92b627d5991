\* Three nodes and a connection that is lost, hubs that send, handles that are dropped.
SPECIFICATION FairRunSpec
CHECK_DEADLOCK FALSE
CONSTANTS
  n1 = n1
  n2 = n2
  n3 = n3
  Node = {n1, n2, n3}
  Id <- MCId
  NoConn = none
  Found <- MCFound
  PeerSizeLimit = 2
  HubsSend = TRUE
  MaxFaults = 1
INVARIANTS
  EndsStartWithDuplicate
  KeptHasReader
PROPERTIES
  AwaitEnds
  DropIsNoticed
