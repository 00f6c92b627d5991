\* A branch with an adjustment block of its own.
SPECIFICATION Spec
CONSTANTS
  BlockId = {"g", "a1", "a2", "a3", "c2", "c3", "c4"}
  Genesis = "g"
  NoBlock = "none"
  Block <- MCBlock
  TxnId = {}
  Txn <- MCTxn
  Cash <- MCCash
  Amount <- MCAmount
  InitialSubsidy = 4
  HalfPeriod = 10
  Period = 2
  ExpectedSpan = 4
  MaxTarget = 100
  Node = {n1}
  NoNode = none
  PeerSizeLimit = 3
  GossipTxn = {}
  StartTime = 22
  MaxTime = 22
INVARIANTS
  HighestSoundLeads
