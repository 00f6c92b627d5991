\* A block with two transactions that spend the same cash, and one with a transaction
\* that names it twice.
SPECIFICATION Spec
CONSTANTS
  BlockId = {"g", "a1", "a2", "w2", "v2"}
  Genesis = "g"
  NoBlock = "none"
  Block <- MCBlock
  TxnId = {"t1", "t2", "t5", "t6", "t7"}
  Txn <- MCTxn
  Cash <- MCCash
  Amount <- MCAmount
  InitialSubsidy = 4
  HalfPeriod = 2
  Period = 10
  ExpectedSpan = 4
  MaxTarget = 100
  Node = {n1}
  NoNode = none
  PeerSizeLimit = 3
  GossipTxn = {}
  StartTime = 0
  MaxTime = 0
INVARIANTS
  BlocksDoNotDoubleSpend
