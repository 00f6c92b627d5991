------------------------------- MODULE Ledger -------------------------------
(***************************************************************************)
(* The immutable data of ddcoin: blocks, transactions, cash and the chain  *)
(* parameters.  A block is named by the hash of its content (block.rs      *)
(* `sha256`), so an id determines its block for ever: Block is a constant  *)
(* function and a hub's pools are sets of ids.  The same holds of          *)
(* transactions.  BlockId also contains the malformed blocks a hub may be  *)
(* sent: everything that deserializes, i.e. whose nonce and signature are  *)
(* right, reaches validate_block.                                          *)
(*                                                                         *)
(* The second half is the reference meaning of "well formed": what a block *)
(* must satisfy judged on its own chain alone.  The hub's validation is    *)
(* compared with it.                                                       *)
(***************************************************************************)
EXTENDS Integers, FiniteSets, Sequences, FiniteSetsExt

CONSTANTS
  BlockId,          \* ids of the blocks that exist anywhere
  Genesis,          \* id of the block every node creates by itself
  NoBlock,          \* the all-zero hash the genesis block names as its parent
  Block,            \* the block of each id
  TxnId,            \* ids of the transactions that exist anywhere
  Txn,              \* the transaction of each id
  Cash,             \* pieces of cash, each with an id of its own (a UUID)
  Amount,           \* the amount of each piece of cash
  InitialSubsidy,   \* Config::initial_block_subsidy
  HalfPeriod,       \* Config::block_subsidy_half_period
  Period,           \* Config::difficulty_adjustment_period
  ExpectedSpan,     \* average_block_time * difficulty_adjustment_period
  MaxTarget         \* the largest 256-bit difficulty target

BlockInner ==
  [prev_id : BlockId \cup {NoBlock},
   seqno : Nat,
   difficulty : Nat,
   timestamp : Nat,
   transactions : Seq(TxnId),
   reward : Cash]

\* Both lists are a Vec<Cash>: a transaction of another program may name a piece of
\* cash twice, although new_transfer takes its inputs from a HashSet.
TransactionInner == [inputs : Seq(Cash), outputs : Seq(Cash)]

ASSUME BlockAssumption ==
  /\ Genesis \in BlockId
  /\ NoBlock \notin BlockId
  /\ Block \in [BlockId -> BlockInner]
  /\ Block[Genesis].seqno = 0
  /\ Block[Genesis].prev_id = NoBlock
  /\ Block[Genesis].transactions = <<>>
  /\ \A b \in BlockId \ {Genesis} : Block[b].prev_id \in BlockId

\* The hash of a block is not used as the hash of a transaction: BlockSha256 and
\* the id of a Transaction are names of different things.
ASSUME IdAssumption == BlockId \cap TxnId = {}

\* A block contains the hash of its parent, so parents cannot form a cycle: who
\* goes up from every block has passed genesis after as many steps as there are
\* blocks.
ASSUME AcyclicAssumption ==
  LET up[n \in Nat] ==
        IF n = 0 THEN BlockId ELSE {Block[b].prev_id : b \in up[n - 1]} \ {NoBlock}
  IN IsFiniteSet(BlockId) /\ up[Cardinality(BlockId)] = {}

ASSUME MoneyAssumption ==
  /\ Txn \in [TxnId -> TransactionInner]
  /\ Amount \in [Cash -> Nat]
  /\ InitialSubsidy \in Nat
  /\ Amount[Block[Genesis].reward] = InitialSubsidy

ASSUME PeriodAssumption ==
  /\ HalfPeriod \in Nat \ {0}
  /\ Period \in Nat \ {0}
  /\ ExpectedSpan \in Nat \ {0}
  /\ MaxTarget \in Nat \ {0}

-----------------------------------------------------------------------------
Prev(b) == Block[b].prev_id
Seqno(b) == Block[b].seqno
Timestamp(b) == Block[b].timestamp
Transactions(b) == {Block[b].transactions[i] : i \in DOMAIN Block[b].transactions}

\* The checks of validate_block against the parent.
FollowsParent(b) ==
  /\ Timestamp(b) >= Timestamp(Prev(b))
  /\ Seqno(b) = Seqno(Prev(b)) + 1

(***************************************************************************)
(* Money.                                                                  *)
(***************************************************************************)
TotalAmount(C) == MapThenSumSet(LAMBDA c : Amount[c], C)

\* The sum over a list of cash: what is named twice counts twice.
Worth(list) == MapThenSumSet(LAMBDA i : Amount[list[i]], DOMAIN list)

Fee(t) == Worth(Txn[t].inputs) - Worth(Txn[t].outputs)

Inputs(t) == {Txn[t].inputs[i] : i \in DOMAIN Txn[t].inputs}
Outputs(t) == {Txn[t].outputs[i] : i \in DOMAIN Txn[t].outputs}

Fees(b) ==
  MapThenSumSet(LAMBDA i : Fee(Block[b].transactions[i]),
                DOMAIN Block[b].transactions)

\* `initial_block_subsidy() >> (seqno / half_period)`, for the shifts below 64
\* that u64 admits: a shift by one halves.
Shifted[n \in Nat] == IF n = 0 THEN InitialSubsidy ELSE Shifted[n - 1] \div 2
Subsidy(seqno) == Shifted[seqno \div HalfPeriod]

\* Cash a block removes from the unspent set.
Spends(b) == UNION {Inputs(t) : t \in Transactions(b)}

\* Cash a block leaves in the unspent set when its transactions are applied in
\* order: its reward, and each output no later transaction of it spends.
Leaves(b) ==
  LET txns == Block[b].transactions
  IN {Block[b].reward} \cup
     UNION {{c \in Outputs(txns[i]) :
               \A j \in DOMAIN txns : j > i => c \notin Inputs(txns[j])} :
            i \in DOMAIN txns}

(***************************************************************************)
(* Difficulty: a target a block's hash must stay below.                    *)
(***************************************************************************)
Saturate(n) == IF n > MaxTarget THEN MaxTarget ELSE n
AtLeastOne(n) == IF n < 1 THEN 1 ELSE n

\* The target after an adjustment period that took `actual` nanoseconds.
AdjustWithActualSpan(target, actual) ==
  IF actual > ExpectedSpan * 4 THEN Saturate(target * 4)
  ELSE IF actual < ExpectedSpan \div 4 THEN AtLeastOne(target \div 4)
  ELSE Saturate(AtLeastOne(target \div ExpectedSpan) * actual)

IsAdjustment(seqno) == seqno % Period = 0

\* Variant of RewindNumber: without the case of a whole period.
RewindNumber_Remainder(seqno) == seqno % Period

\* Distance from a block to the adjustment block its period started at.
RewindNumber(seqno) == IF IsAdjustment(seqno) THEN Period ELSE seqno % Period

-----------------------------------------------------------------------------
(***************************************************************************)
(* The reference: a block judged on the chain it extends, whatever a hub   *)
(* has seen besides.                                                       *)
(***************************************************************************)

\* The blocks from genesis to b.
PathTo[b \in BlockId] ==
  IF b = Genesis THEN <<Genesis>> ELSE Append(PathTo[Prev(b)], b)

OnPath(b) == {PathTo[b][i] : i \in DOMAIN PathTo[b]}

\* Cash created on the chain to b and not spent on it.
Unspent(b) ==
  (UNION {Leaves(x) : x \in OnPath(b)}) \ (UNION {Spends(x) : x \in OnPath(b)})

\* A list names no piece of cash twice.
Distinct(list) == \A i, j \in DOMAIN list : list[i] = list[j] => i = j

\* No cash is an input of a block twice: neither of one of its transactions, nor
\* of two.
NoDoubleSpend(b) ==
  LET txns == Block[b].transactions
  IN /\ \A i \in DOMAIN txns : Distinct(Txn[txns[i]].inputs)
     /\ \A i, j \in DOMAIN txns :
          i # j => Inputs(txns[i]) \cap Inputs(txns[j]) = {}

\* The cash a block makes, whether or not it spends some of it again.
Makes(b) == {Block[b].reward} \cup UNION {Outputs(t) : t \in Transactions(b)}

\* A block makes each piece of its cash once, and none that its chain has made.
\* New cash has a random UUID, so honest blocks do; no hub checks it.
MakesNewCash(b) ==
  LET txns == Block[b].transactions
  IN /\ \A i \in DOMAIN txns :
          Distinct(Txn[txns[i]].outputs) /\ Block[b].reward \notin Outputs(txns[i])
     /\ \A i, j \in DOMAIN txns :
          i # j => Outputs(txns[i]) \cap Outputs(txns[j]) = {}
     /\ \A x \in OnPath(Prev(b)) : Makes(x) \cap Makes(b) = {}

\* The target b must carry, from the adjustment block of its own chain.
OwnChainDifficulty(b) ==
  IF IsAdjustment(Seqno(b))
  THEN LET start == PathTo[Prev(b)][Seqno(b) - Period + 1]
       IN AdjustWithActualSpan(Block[Prev(b)].difficulty,
                               Timestamp(b) - Timestamp(start))
  ELSE Block[Prev(b)].difficulty

ExtendsWell(b) ==
  /\ Timestamp(b) >= Timestamp(Prev(b))
  /\ Seqno(b) = Seqno(Prev(b)) + 1
  /\ Block[b].difficulty = OwnChainDifficulty(b)
  /\ Spends(b) \subseteq Unspent(Prev(b))
  /\ NoDoubleSpend(b)
  /\ Amount[Block[b].reward] = Fees(b) + Subsidy(Seqno(b))

WellFormed[b \in BlockId] ==
  b = Genesis \/ (WellFormed[Prev(b)] /\ ExtendsWell(b))
=============================================================================
