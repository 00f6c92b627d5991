\* A transfer of an amount and fee that may not fit, and blocks of any height.
SPECIFICATION Spec
CHECK_DEADLOCK FALSE
CONSTANTS
  Width = 4
  Owner = {"alice", "bob"}
  Wallet = "alice"
  Piece <- MCPiece
  Worth <- MCWorth
  OwnerOf <- MCOwnerOf
  Requests <- MCRequests
  Foreign <- MCForeign
  OtherFees = {0, 9}
  Seqnos = {1, 7, 8}
  InitialSubsidy = 4
  HalfPeriod = 2
INVARIANTS
  TransferIsExact
  ChangeIsLessThanLast
  RefusedOnlyIfEmpty
  RewardsAgree
  ValidatorPanicsOnOverflow
