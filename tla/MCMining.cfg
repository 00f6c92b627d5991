\* Two transfers of the same reward; a peer mines an older branch.
SPECIFICATION FairMinerSpec
CHECK_DEADLOCK FALSE
CONSTANTS
  t1 = t1
  t2 = t2
  c1 = c1
  c2 = c2
  d1 = d1
  d2 = d2
  Contents <- MCContents
  BlockId <- MCBlockId
  Genesis <- MCGenesis
  NoBlock = none
  Block <- MCBlock
  TxnId = {t1, t2}
  Txn <- MCTxn
  Cash <- MCCash
  Amount <- MCAmount
  InitialSubsidy = 8
  HalfPeriod = 10
  Period = 1
  ExpectedSpan = 8
  MaxTarget = 100
  Node = {n1}
  NoNode = none
  PeerSizeLimit = 3
  GossipTxn = {t1}
  StartTime = 9
  MaxTime = 9
  BlockTxnLimit = 1
  PeerBlocks <- MCPeerBlocks
  Transfers = {t2}
INVARIANTS
  MinedFailsOnlyByInputs
PROPERTIES
  HubStopsForReason
  OnlyUnspendableStopsMining
