\* Three nodes in a line that gossip blocks and a transaction.
SPECIFICATION FairSpec
CHECK_DEADLOCK FALSE
CONSTANTS
  n1 = n1
  n2 = n2
  n3 = n3
  BlockId = {"g", "a1", "a2", "a3", "b1", "b2", "f1", "f2", "c1"}
  Genesis = "g"
  NoBlock = "none"
  Block <- MCBlock
  TxnId = {"t"}
  Txn <- MCTxn
  Cash <- MCCash
  Amount <- MCAmount
  InitialSubsidy = 4
  HalfPeriod = 10
  Period = 10
  ExpectedSpan = 4
  MaxTarget = 100
  Node = {n1, n2, n3}
  NoNode = none
  PeerSizeLimit = 3
  Clock <- MCClock
  Scenarios <- MCScenarios
INVARIANTS
  AskedIsOnItsWay
  FirstStopIsForMined
PROPERTIES
  ImplementsGossip
  OrphansAreCompleted
  BlocksSpread
  TransactionsSpread
