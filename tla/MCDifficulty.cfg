\* Adjustments on branches that share their adjustment block.
SPECIFICATION Spec
CONSTANTS
  BlockId = {"g", "a1", "a2", "a3", "a4", "b3", "d4", "e4", "x4", "q4", "p3"}
  Genesis = "g"
  NoBlock = "none"
  Block <- MCBlock
  TxnId = {}
  Txn <- MCTxn
  Cash <- MCCash
  Amount <- MCAmount
  InitialSubsidy = 4
  HalfPeriod = 10
  Period = 2
  ExpectedSpan = 4
  MaxTarget = 100
  Node = {n1}
  NoNode = none
  PeerSizeLimit = 3
  GossipTxn = {}
  StartTime = 22
  MaxTime = 22
INVARIANTS
  AdjustmentInRange
  HighestSoundLeads
