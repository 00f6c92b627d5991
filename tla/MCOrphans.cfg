\* Blocks in any order, no transactions; handlers are fair.
SPECIFICATION FairSpec
CONSTANTS
  BlockId = {"g", "a1", "a2", "a3", "b2", "f3", "x2", "y3", "z4"}
  Genesis = "g"
  NoBlock = "none"
  Block <- MCBlock
  TxnId = {}
  Txn <- MCTxn
  Cash <- MCCash
  Amount <- MCAmount
  InitialSubsidy = 4
  HalfPeriod = 10
  Period = 10
  ExpectedSpan = 4
  MaxTarget = 100
  Node = {n1}
  NoNode = none
  PeerSizeLimit = 3
  GossipTxn = {}
  StartTime = 0
  MaxTime = 1
INVARIANTS
  ValidBlocksFormTree
  NoStrandedBlock
  WaitersIndexed
  ValidatePreconditions
  ValidIsAnnounced
PROPERTIES
  InvalidationReachesWaiters
  VerdictsAreFinal
  ImplementsBlockTree
  SoundBecomeValid
