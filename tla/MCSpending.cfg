\* Branches that spend the same cash, and a gossiped transaction; the hub may stop.
SPECIFICATION Spec
CHECK_DEADLOCK FALSE
CONSTANTS
  BlockId = {"g", "a1", "a2", "b2", "b3", "b4", "d3", "r2", "v2"}
  Genesis = "g"
  NoBlock = "none"
  Block <- MCBlock
  TxnId = {"t1", "t2", "t5", "t6", "t7"}
  Txn <- MCTxn
  Cash <- MCCash
  Amount <- MCAmount
  InitialSubsidy = 4
  HalfPeriod = 2
  Period = 10
  ExpectedSpan = 4
  MaxTarget = 100
  Node = {n1}
  NoNode = none
  PeerSizeLimit = 3
  GossipTxn = {"t5"}
  StartTime = 0
  MaxTime = 0
INVARIANTS
  TypeOK
  HubStopsOnlyForMined
  CashSetBounds
  MoneyIsConserved
  ValidAreWellFormed
  SoundAreNotRejected
PROPERTIES
  DepthGrowsWithChain
  MempoolLosesOnlyMined
