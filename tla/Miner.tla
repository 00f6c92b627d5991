-------------------------------- MODULE Miner --------------------------------
(***************************************************************************)
(* A hub with its miner (bin/miner.rs) and a wallet (new_transfer in       *)
(* hub_helper.rs).  Both ask the hub for what they need in separate calls, *)
(* each answered between two handlers, and the hub moves on in between: a  *)
(* template is built from a leading block, a list of ids, transactions and *)
(* an adjustment time of four different moments, and is mined for a while  *)
(* before the hub sees it.                                                 *)
(*                                                                         *)
(* A call and its answer are one step.  The messages of one sender are     *)
(* handled in their order, so the miner's next query comes after its       *)
(* NewBlock, as if it waited for it.  Fresh ids (the reward, the nonce)    *)
(* are abstracted: BlockId holds one block of each content, and mining the *)
(* same content again finds the same block.  The clock stands still: what  *)
(* time does to a verdict is checked on other instances.                   *)
(***************************************************************************)
EXTENDS PeerHub

CONSTANTS
  BlockTxnLimit,    \* Config::block_txn_limit
  PeerBlocks,       \* the blocks peers may send
  Transfers         \* the transactions the wallet may make

ASSUME MinerAssumption ==
  /\ BlockTxnLimit \in Nat
  /\ PeerBlocks \subseteq BlockId
  /\ Transfers \subseteq TxnId

VARIABLES
  miner,            \* what the miner's loop has been answered so far
  wallet,           \* the cash set new_transfer was answered, while it runs
  mined             \* history: the blocks the miner has submitted

clients == <<miner, wallet, mined>>

Template ==
  [step : {"leading", "mempool", "transactions", "adjust", "build", "submit"},
   leading_block : BlockId,
   top_ids : Seq(TxnId),
   txns : Seq(TxnId),
   adjustment : Nat,
   block : BlockId]

NewTemplate ==
  [step |-> "leading", leading_block |-> Genesis, top_ids |-> <<>>, txns |-> <<>>,
   adjustment |-> 0, block |-> Genesis]

\* The wallet is not in the middle of a transfer.
AtRest == [asked |-> FALSE, cash |-> {}]

MinerInit ==
  /\ Init
  /\ miner = NewTemplate
  /\ wallet = AtRest
  /\ mined = {}

-----------------------------------------------------------------------------
(***************************************************************************)
(* The miner's loop.                                                       *)
(***************************************************************************)

\* The answer to a query of the miner: the hub is between two messages.
Asks(step, answer) ==
  /\ miner.step = step
  /\ Idle(hub)
  /\ miner' = answer
  /\ UNCHANGED <<vars, wallet, mined>>

QueryLeadingBlock ==
  Asks("leading", [miner EXCEPT !.step = "mempool", !.leading_block = hub.leading_block])

\* The first ids of a mempool sorted by fee, in any order where fees are equal.
IsTopIds(ids) ==
  /\ Len(ids) = IF Cardinality(hub.mempool) < BlockTxnLimit
                THEN Cardinality(hub.mempool) ELSE BlockTxnLimit
  /\ \A i, j \in DOMAIN ids : i # j => ids[i] # ids[j]
  /\ \A i \in DOMAIN ids, t \in hub.mempool :
       (\A j \in 1 .. i : ids[j] # t) => Fee(ids[i]) <= Fee(t)

QueryMemPool ==
  \E n \in 0 .. BlockTxnLimit : \E ids \in [1 .. n -> hub.mempool] :
    /\ IsTopIds(ids)
    /\ Asks("mempool", [miner EXCEPT !.step = "transactions", !.top_ids = ids])

\* Transactions that left the mempool since are skipped.
QueryTransactions ==
  Asks("transactions",
       [miner EXCEPT
          !.step = IF IsAdjustment(Seqno(miner.leading_block) + 1)
                   THEN "adjust" ELSE "build",
          !.txns = SelectSeq(miner.top_ids, LAMBDA t : t \in hub.mempool)])

\* Looked up on the chain of the block that leads now.
QueryDifficultyAdjustTime ==
  LET seqno == Seqno(miner.leading_block) + 1
  IN Asks("adjust",
          [miner EXCEPT
             !.step = "build",
             !.adjustment = Timestamp(PrevAdjustedBlock(hub, seqno))])

\* b is what UnconfirmedBlock::new makes of the answers.
FitsTemplate(b) ==
  LET prev == miner.leading_block
  IN /\ Prev(b) = prev
     /\ Seqno(b) = Seqno(prev) + 1
     /\ Timestamp(b) = now
     /\ Block[b].transactions = miner.txns
     /\ Block[b].difficulty =
          IF IsAdjustment(Seqno(b))
          THEN AdjustWithActualSpan(Block[prev].difficulty, now - miner.adjustment)
          ELSE Block[prev].difficulty
     /\ Amount[Block[b].reward] = Subsidy(Seqno(b)) + Fees(b)

\* The search for a nonce: it ends at some later time.
BuildBlock(b) ==
  /\ miner.step = "build"
  /\ b \in BlockId \ {Genesis}
  /\ FitsTemplate(b)
  /\ miner' = [miner EXCEPT !.step = "submit", !.block = b]
  /\ UNCHANGED <<vars, wallet, mined>>

\* Variant of SubmitBlock: the template is filled before the loop, not in it.
SubmitBlock_SameTemplate ==
  /\ miner.step = "submit"
  /\ NewBlock(NoNode, miner.block)
  /\ mined' = mined \cup {miner.block}
  /\ miner' = [miner EXCEPT !.step = "build"]
  /\ UNCHANGED wallet

SubmitBlock ==
  /\ miner.step = "submit"
  /\ NewBlock(NoNode, miner.block)
  /\ mined' = mined \cup {miner.block}
  /\ miner' = NewTemplate
  /\ UNCHANGED wallet

MinerStep ==
  \/ QueryLeadingBlock
  \/ QueryMemPool
  \/ QueryTransactions
  \/ QueryDifficultyAdjustTime
  \/ \E b \in BlockId : BuildBlock(b)
  \/ SubmitBlock

-----------------------------------------------------------------------------
(***************************************************************************)
(* The wallet.                                                             *)
(***************************************************************************)
AskCash ==
  /\ ~wallet.asked
  /\ QueryLeadingCashSet
  /\ wallet' = [asked |-> TRUE, cash |-> CashSetAt(hub, hub.leading_block)]
  /\ UNCHANGED <<miner, mined>>

\* t can be the transfer new_transfer makes: cash is added in any order until it
\* covers amount and fee, so the change is less than the piece added last.  Owners
\* are abstracted: the inputs of a member of Transfers are the wallet's own.
IsTransfer(t, cash) ==
  /\ Inputs(t) \subseteq cash
  /\ Distinct(Txn[t].inputs)
  /\ \E last \in Inputs(t), change \in Outputs(t) : Amount[change] < Amount[last]

Transfer(t) ==
  /\ wallet.asked
  /\ IsTransfer(t, wallet.cash)
  /\ NewTransaction(t)
  /\ wallet' = AtRest
  /\ UNCHANGED <<miner, mined>>

\* The cash does not cover the amount the user asked for.
TransferFails ==
  /\ wallet.asked
  /\ wallet' = AtRest
  /\ UNCHANGED <<vars, miner, mined>>

WalletStep == AskCash \/ TransferFails \/ \E t \in Transfers : Transfer(t)

\* What reaches the hub from peers and other users, and the rest of a running
\* handler.
HubStep ==
  /\ \/ \E n \in Node : NewPeer(n)
     \/ \E n \in hub.peers, b \in PeerBlocks : NewBlock(n, b) \/ AnnounceBlock(n, b)
     \/ \E n \in hub.peers, b \in BlockId : GetBlock(n, b)
     \/ \E t \in GossipTxn : NewTransaction(t)
     \/ \E n \in hub.peers, t \in GossipTxn : AnnounceTransaction(n, t)
     \/ \E n \in hub.peers, t \in TxnId : GetTransaction(n, t)
     \/ Handler
  /\ UNCHANGED clients

MinerNext == HubStep \/ MinerStep \/ WalletStep

MinerSpec == MinerInit /\ [][MinerNext]_<<vars, clients>>

\* The loop never waits for anything but the hub, which ends its handlers.
MinerFairness ==
  /\ WF_<<vars, clients>>(Handler /\ UNCHANGED clients)
  /\ SF_<<vars, clients>>(MinerStep)

FairMinerSpec == MinerSpec /\ MinerFairness

-----------------------------------------------------------------------------
\* A block of this node's miner never waits for a parent ("block mined by myself
\* shouldn't have missing blocks.", peerhub.rs:742).  However the hub moved while
\* the miner asked and searched, the target is that of the block's own chain and
\* only its transactions can make it invalid, unless branches disagree about the
\* block its period began at.
MinedFailsOnlyByInputs ==
  /\ mined \cap hub.unconfirmed_blocks = {}
  /\ \A b \in mined : ~Rival(hub, b) =>
       /\ Block[b].difficulty = OwnChainDifficulty(b)
       /\ b \in hub.invalid_blocks => ~(Spends(b) \subseteq Unspent(Prev(b)))

\* The height at which the model's chains end.
MaxSeqno == CHOOSE s \in {Seqno(b) : b \in BlockId} : \A b \in BlockId : Seqno(b) <= s

\* t spends cash that is not unspent on the leading chain.
Unspendable(t) == ~(Inputs(t) \subseteq Unspent(hub.leading_block))

\* The chain grows to its end, unless a transaction that cannot be spent any
\* more stays in the mempool, or the hub stops (HubStopsForReason says why) and
\* answers nobody any more: no other order of the miner's questions, the wallet's
\* submissions and the hub's handlers stops the miner.
OnlyUnspendableStopsMining ==
  \/ <>(Seqno(hub.leading_block) = MaxSeqno)
  \/ <>~hub.running
  \/ <>[](\E t \in hub.mempool : Unspendable(t))
=============================================================================
