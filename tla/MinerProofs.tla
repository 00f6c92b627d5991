---------------------------- MODULE MinerProofs ----------------------------
(***************************************************************************)
(* Theorems about a hub with its miner and a wallet: the blocks that the   *)
(* miner submits never wait, and are refused for their transactions only,  *)
(* unless branches disagree about the block their period began at.         *)
(*                                                                         *)
(* PeerHubProofs has theorems of all blocks as long as no two branches     *)
(* disagree.  Here the argument is made for each block by itself: what     *)
(* matters of a block is whether its own adjustment block has a rival.     *)
(***************************************************************************)
EXTENDS Miner, PeerHubProofs

-----------------------------------------------------------------------------
(***************************************************************************)
(* Verdicts on one block.                                                  *)
(***************************************************************************)

\* What a miner sees to, and its transactions.
Extends(b) ==
  /\ FollowsParent(b) /\ RewardIsRight(b)
  /\ Block[b].difficulty = OwnChainDifficulty(b)
  /\ Spends(b) \subseteq Unspent(Prev(b))

\* What a handler finds invalid was waiting, or is the block b that it judges: and
\* b came early, or does not extend its chain, or its adjustment block has a rival.
Rejects(h, b, early, g) ==
  \A x \in g.invalid_blocks \ h.invalid_blocks :
    \/ x \in g.unconfirmed_blocks
    \/ x = b /\ (early \/ (Prev(b) \in h.valid_blocks /\ (Rival(h, b) \/ ~Extends(b))))

\* add_invalid_block, of a block that may be rejected.
LEMMA AddInvalidRejects ==
  ASSUME NEW h \in Hub, Indexed(h), NEW b \in BlockId, NEW early,
         early \/ (Prev(b) \in h.valid_blocks /\ (Rival(h, b) \/ ~Extends(b)))
  PROVE  Rejects(h, b, early, AddInvalidBlock(h, b))
<1> DEFINE g == AddInvalidBlock(h, b)
<1>1. /\ g.invalid_blocks = h.invalid_blocks \cup WaitingOn(h, b)
      /\ g.unconfirmed_blocks = h.unconfirmed_blocks
  BY DEF AddInvalidBlock, Hub
<1>2. ASSUME NEW x \in WaitingOn(h, b), x # b
      PROVE  x \in h.unconfirmed_blocks
  BY <1>2 DEF WaitingOn, Indexed
<1> QED  BY <1>1, <1>2 DEF Rejects

LEMMA ValidateRejects ==
  ASSUME NEW h \in Hub, PoolInv(h), NEW b \in BlockId \ {Genesis}, NEW depth
  PROVE  Rejects(h, b, FALSE, ValidateBlock(h, b, depth))
<1> DEFINE g == ValidateBlock(h, b, depth)
           c == [h EXCEPT !.cash_set = CashSetAt(h, Prev(b))]
<1> SUFFICES Rejects(h, b, FALSE, g)
  OBVIOUS
<1>1. FormsTree(h) /\ HighestLeads(h) /\ Indexed(h)
  BY DEF PoolInv
<1>2. /\ c.valid_blocks = h.valid_blocks /\ c.invalid_blocks = h.invalid_blocks
      /\ c.next_blocks = h.next_blocks /\ c.unconfirmed_blocks = h.unconfirmed_blocks
      /\ c.pending = h.pending
      /\ c.cash_set = CashSetAt(h, Prev(b))
      /\ c \in Hub
  BY CashSetMoves DEF Hub
<1>3. CASE Prev(b) \in h.valid_blocks /\ (Rival(h, b) \/ ~Extends(b))
  <2>1. \/ g.invalid_blocks = h.invalid_blocks
        \/ g = AddInvalidBlock(h, b) \/ g = AddInvalidBlock(c, b)
    <3>1. \/ g = Stop(h) \/ g = AddInvalidBlock(h, b) \/ g = AddInvalidBlock(c, b)
          \/ g = AddValidBlock(c, b, depth)
      BY <1>3 DEF ValidateBlock
    <3> HIDE DEF c, g
    <3> QED  BY <1>2, <3>1 DEF Stop, AddValidBlock, Hub
  <2>2. Rejects(h, b, FALSE, AddInvalidBlock(h, b))
    BY <1>1, <1>3, AddInvalidRejects
  <2>3. Rejects(h, b, FALSE, AddInvalidBlock(c, b))
    <3> HIDE DEF c
    <3>1. Indexed(c)
      BY <1>1, <1>2 DEF Indexed
    <3>2. Prev(b) \in c.valid_blocks /\ (Rival(c, b) \/ ~Extends(b))
      BY <1>2, <1>3 DEF Rival
    <3>3. Rejects(c, b, FALSE, AddInvalidBlock(c, b))
      BY <1>2, <3>1, <3>2, AddInvalidRejects
    <3>4. Rival(c, b) <=> Rival(h, b)
      BY <1>2 DEF Rival
    <3> QED  BY <1>2, <3>3, <3>4 DEF Rejects
  <2> HIDE DEF g, c
  <2> QED  BY <2>1, <2>2, <2>3 DEF Rejects
<1>4. CASE Prev(b) \notin h.valid_blocks
  <2>1. g = AddUnconfirmedBlock(h, b)
    BY <1>4 DEF ValidateBlock
  <2>2. g.invalid_blocks = h.invalid_blocks
    BY <2>1 DEF AddUnconfirmedBlock, Hub
  <2> HIDE DEF g
  <2> QED  BY <2>2 DEF Rejects
<1>5. CASE Prev(b) \in h.valid_blocks /\ ~Rival(h, b) /\ Extends(b)
  <2>1. ~SpanUnderflows(h, b) /\ ExpectedDifficulty(h, b) = OwnChainDifficulty(b)
    BY <1>1, <1>5, ExpectedWithoutRival DEF Extends
  <2>2. Unspent(Prev(b)) \subseteq CashSetAt(h, Prev(b))
    BY <1>1, <1>5, CashSetCovers
  <2>3. InputsAvailable(c, b)
    BY <1>2, <1>5, <2>2 DEF Extends, InputsAvailable
  <2>4. g = AddValidBlock(c, b, depth)
    BY <1>5, <2>1, <2>3 DEF ValidateBlock, Extends
  <2>5. g.invalid_blocks = h.invalid_blocks
    <3> HIDE DEF g, c
    <3> QED  BY <1>2, <2>4 DEF AddValidBlock, Hub
  <2> HIDE DEF g
  <2> QED  BY <2>5 DEF Rejects
<1> QED  BY <1>3, <1>4, <1>5

LEMMA NewBlockRejects ==
  ASSUME NEW h \in Hub, PoolInv(h), Idle(h), NEW from, NEW b \in BlockId, NEW t
  PROVE  Rejects(h, b, Timestamp(b) > t, HandleNewBlock(h, from, b, t).hub)
<1> DEFINE early == Timestamp(b) > t
           g == ValidateBlock(h, b, 0)
           i == AddInvalidBlock(h, b)
           r == HandleNewBlock(h, from, b, t).hub
<1> SUFFICES Rejects(h, b, early, r)
  OBVIOUS
<1>1. CASE KnowsBlock(h, b)
  BY <1>1 DEF HandleNewBlock, Done, Rejects
<1>2. CASE ~KnowsBlock(h, b) /\ early
  <2>1. r = i
    BY <1>2 DEF HandleNewBlock, Done
  <2>2. Rejects(h, b, early, i)
    BY <1>2, AddInvalidRejects DEF PoolInv
  <2> QED  BY <2>1, <2>2
<1>3. CASE ~KnowsBlock(h, b) /\ ~early
  <2>1. b # Genesis
    BY <1>3 DEF KnowsBlock, PoolInv, FormsTree
  <2>2. Rejects(h, b, FALSE, g)
    BY <2>1, ValidateRejects
  <2>3. g \in Hub
    BY <1>3, UnknownIsFresh, ValidateKeepsPools
  <2>4. r = g \/ r = Stop(g)
    BY <1>3 DEF HandleNewBlock, Done, Fail, SendToPeer
  <2> HIDE DEF g, r, early
  <2>5. /\ Stop(g).invalid_blocks = g.invalid_blocks
        /\ Stop(g).unconfirmed_blocks = g.unconfirmed_blocks
    BY <2>3 DEF Stop, Hub
  <2> QED  BY <2>2, <2>4, <2>5 DEF Rejects
<1> QED  BY <1>1, <1>2, <1>3

LEMMA PendingRejects ==
  ASSUME NEW h \in Hub, PoolInv(h), NEW b \in BlockId, h.pending[b] > 0
  PROVE  Rejects(h, b, FALSE, ValidatePending(h, b))
<1> DEFINE g == [h EXCEPT !.pending[b] = 0, !.unconfirmed_blocks = @ \ {b}]
           r == ValidateBlock(g, b, h.pending[b])
<1>1. /\ g \in Hub /\ PoolInv(g)
      /\ g.valid_blocks = h.valid_blocks
      /\ g.invalid_blocks = h.invalid_blocks
      /\ b \in h.unconfirmed_blocks
  BY PendingIsFresh
<1>2. ValidatePending(h, b) = r
  BY <1>1 DEF ValidatePending, Hub
<1> HIDE DEF g
<1>3. b # Genesis
  BY <1>1 DEF PoolInv, FormsTree, Separate
<1>4. Rejects(g, b, FALSE, r)
  BY <1>1, <1>3, ValidateRejects
<1>5. Rival(g, b) <=> Rival(h, b)
  BY <1>1 DEF Rival
<1> HIDE DEF r
<1> QED  BY <1>1, <1>2, <1>4, <1>5 DEF Rejects

\* No block is accepted or kept before its time.
InTime(h, t) ==
  \A x \in h.valid_blocks \cup h.unconfirmed_blocks : Timestamp(x) <= t

LEMMA NewBlockInTime ==
  ASSUME NEW h \in Hub, PoolInv(h), Idle(h), NEW from, NEW b \in BlockId,
         NEW t \in Nat, InTime(h, t)
  PROVE  InTime(HandleNewBlock(h, from, b, t).hub, t)
<1> DEFINE r == HandleNewBlock(h, from, b, t).hub
           i == AddInvalidBlock(h, b)
<1>1. CASE KnowsBlock(h, b)
  BY <1>1 DEF HandleNewBlock, Done
<1>2. CASE ~KnowsBlock(h, b) /\ Timestamp(b) > t
  <2>1. r = i
    BY <1>2 DEF HandleNewBlock, Done
  <2>2. i.valid_blocks = h.valid_blocks /\ i.unconfirmed_blocks = h.unconfirmed_blocks
    BY DEF AddInvalidBlock, Hub
  <2> HIDE DEF r, i
  <2> QED  BY <2>1, <2>2 DEF InTime, r
<1>3. CASE ~(Timestamp(b) > t)
  <2>1. Timestamp(b) <= t
    BY <1>3, BlockTypes
  <2>2. MovesOnly(h, b, r)
    BY NewBlockMovesOnly
  <2> HIDE DEF r
  <2> QED  BY <2>1, <2>2 DEF MovesOnly, InTime, r
<1> QED  BY <1>1, <1>2, <1>3

\* A block of the miner is judged at once, and waits for nobody.
LEMMA SubmittedIsJudged ==
  ASSUME NEW h \in Hub, PoolInv(h), Idle(h), NEW b \in BlockId \ {Genesis},
         Prev(b) \in h.valid_blocks, NEW t
  PROVE  LET g == HandleNewBlock(h, NoNode, b, t).hub
         IN \/ b \in g.valid_blocks \cup g.invalid_blocks
            \/ ~g.running /\ b \notin g.unconfirmed_blocks
<1> DEFINE g == ValidateBlock(h, b, 0)
           i == AddInvalidBlock(h, b)
           r == HandleNewBlock(h, NoNode, b, t).hub
<1>1. b \notin h.unconfirmed_blocks
  BY NoneStranded
<1>2. CASE KnowsBlock(h, b)
  BY <1>1, <1>2 DEF HandleNewBlock, Done, KnowsBlock
<1>3. CASE ~KnowsBlock(h, b)
  <2>1. Fresh(h, b)
    BY <1>3, UnknownIsFresh
  <2>2. g.running => KnowsBlock(g, b)
    BY <2>1, ValidateStep DEF ValidateOutcome
  <2>3. b \notin g.unconfirmed_blocks
    BY <1>1, ValidateMovesOnly DEF MovesOnly
  <2>4. b \in i.invalid_blocks
    <3>1. KnowsBlock(i, b) /\ i.unconfirmed_blocks = h.unconfirmed_blocks
          /\ i.valid_blocks = h.valid_blocks
      BY AddInvalidStep DEF AddInvalidBlock, Hub
    <3> QED  BY <1>1, <1>3, <3>1 DEF KnowsBlock
  <2>5. r = i \/ r = g
    BY <1>3, <2>3 DEF HandleNewBlock, Done
  <2> HIDE DEF g, i, r
  <2> QED  BY <2>2, <2>3, <2>4, <2>5 DEF KnowsBlock, r
<1> QED  BY <1>2, <1>3

\* Fees are numbers.
LEMMA FeesType == \A b \in BlockId : Fees(b) \in Int
<1> SUFFICES ASSUME NEW b \in BlockId PROVE Fees(b) \in Int
  OBVIOUS
<1> DEFINE D == DOMAIN Block[b].transactions
<1>1. /\ \A i \in D : Block[b].transactions[i] \in TxnId
      /\ D = 1 .. Len(Block[b].transactions) /\ Len(Block[b].transactions) \in Nat
  BY BlockTypes
<1>2. IsFiniteSet(D)
  BY <1>1, FS_Interval
<1>3. \A t \in TxnId : Fee(t) \in Int
  BY FeeType
<1>4. \A i \in D : FeeAt(b)[i] \in Int
  BY <1>1, <1>3 DEF FeeAt
<1> HIDE DEF D
<1>5. SumFunctionOnSet(FeeAt(b), D) \in Int
  BY <1>2, <1>4, SumStep
<1> QED  BY <1>5, FeesIsSum DEF D
-----------------------------------------------------------------------------
(***************************************************************************)
(* The invariant.                                                          *)
(***************************************************************************)

\* b extends a valid block, as the miner saw to it; and its target is that of its
\* own chain, unless another adjustment time may have been answered.
Mine(b) ==
  /\ b \in BlockId \ {Genesis}
  /\ Prev(b) \in hub.valid_blocks
  /\ FollowsParent(b) /\ RewardIsRight(b)
  /\ Timestamp(b) <= now
  /\ Rival(hub, b) \/ Block[b].difficulty = OwnChainDifficulty(b)

\* The hub is done with b.
Judged(b) ==
  \/ b \in hub.valid_blocks \cup hub.invalid_blocks
  \/ ~hub.running /\ b \notin hub.unconfirmed_blocks

\* The adjustment time is that of a block a period below the one to be mined.
AnsweredByBlock ==
  LET s == Seqno(miner.leading_block) + 1
  IN IsAdjustment(s) => \E v \in hub.valid_blocks :
       Seqno(v) = s - RewindNumber(s) /\ miner.adjustment = Timestamp(v)

\* A block is invalid because it came early, because its parent is, or because of
\* what it is; or its adjustment block has a rival.
Reasoned ==
  \A b \in hub.invalid_blocks :
    \/ Timestamp(b) > now
    \/ Prev(b) \in hub.invalid_blocks
    \/ Prev(b) \in hub.valid_blocks /\ (Rival(hub, b) \/ ~Extends(b))

Fields == DOMAIN NewTemplate

MInv ==
  /\ DOMAIN miner = Fields
  /\ miner.leading_block \in hub.valid_blocks
  /\ miner.step = "build" => AnsweredByBlock
  /\ miner.step = "submit" => Mine(miner.block)
  /\ \A b \in mined : Mine(b) /\ Judged(b)
  /\ InTime(hub, now)
  /\ Reasoned

LEMMA InitMines ==
  ASSUME Timestamp(Genesis) <= StartTime, MinerInit
  PROVE  MInv
<1>1. /\ hub.valid_blocks = {Genesis} /\ hub.unconfirmed_blocks = {}
      /\ hub.invalid_blocks = {} /\ now = StartTime
  BY DEF MinerInit, Init, NewHub
<1>2. DOMAIN miner = Fields /\ miner.leading_block = Genesis /\ miner.step = "leading"
  BY DEF MinerInit, NewTemplate, Fields
<1>3. mined = {}
  BY DEF MinerInit
<1> QED  BY <1>1, <1>2, <1>3 DEF MInv, InTime, Reasoned

\* What a step of the hub, the miner or the wallet does to the hub: a step of
\* PeerHub, but for the transactions of the wallet and who asks for them, while the
\* clock stands.
HubMoves ==
  /\ \/ [Next]_vars
     \/ \E t \in TxnId : NewTransaction(t)
     \/ \E n \in hub.peers, t \in TxnId : GetTransaction(n, t)
  /\ now' = now
  /\ ~hub.running => hub' = hub

LEMMA StepMovesHub == IInv /\ MInv /\ [MinerNext]_<<vars, clients>> => HubMoves
<1> SUFFICES ASSUME IInv, MInv, [MinerNext]_<<vars, clients>> PROVE HubMoves
  OBVIOUS
<1>1. CASE UNCHANGED vars
  BY <1>1 DEF HubMoves, vars
<1>2. CASE HubStep
  <2>1. CASE \E n \in Node : NewPeer(n)
    BY <2>1 DEF HubMoves, NewPeer, Take, Idle, Next
  <2>2. CASE \E n \in hub.peers, b \in PeerBlocks : AnnounceBlock(n, b)
    <3>1. Next
      BY <2>2, MinerAssumption DEF Next
    <3> QED  BY <2>2, <3>1 DEF HubMoves, AnnounceBlock, Take, Idle
  <2>3. CASE \E n \in hub.peers, b \in BlockId : GetBlock(n, b)
    <3>1. Next
      BY <2>3 DEF Next
    <3> QED  BY <2>3, <3>1 DEF HubMoves, GetBlock, Take, Idle
  <2>4. CASE \E n \in hub.peers, t \in GossipTxn : AnnounceTransaction(n, t)
    <3>1. Next
      BY <2>4 DEF Next
    <3> QED  BY <2>4, <3>1 DEF HubMoves, AnnounceTransaction, Take, Idle
  <2>5. CASE \E n \in hub.peers, t \in TxnId : GetTransaction(n, t)
    BY <2>5 DEF HubMoves, GetTransaction, Take, Idle
  <2>6. CASE \E n \in hub.peers, b \in PeerBlocks : NewBlock(n, b)
    <3>1. PICK b \in BlockId : \E n \in hub.peers : NewBlock(n, b)
      BY <2>6, MinerAssumption
    <3>2. Next
      BY <3>1 DEF DeliverBlock, Next
    <3> QED  BY <3>1, <3>2 DEF HubMoves, NewBlock, Take, Idle
  <2>7. CASE \E t \in GossipTxn : NewTransaction(t)
    BY <2>7 DEF HubMoves, NewTransaction, Take, Idle, Next
  <2>8. CASE Handler
    BY <2>8 DEF HubMoves, Handler, ValidateNext, Announce, Take, Next
  <2> QED  BY <1>2, <2>1, <2>2, <2>3, <2>4, <2>5, <2>6, <2>7, <2>8 DEF HubStep
<1>3. CASE SubmitBlock
  <2>1. Mine(miner.block)
    BY <1>3 DEF SubmitBlock, MInv
  <2>2. NewBlock(NoNode, miner.block)
    BY <1>3 DEF SubmitBlock
  <2>3. Next
    BY <2>1, <2>2 DEF Mine, DeliverBlock, Next
  <2> QED  BY <2>2, <2>3 DEF HubMoves, NewBlock, Take, Idle
<1>4. CASE MinerStep /\ ~SubmitBlock
  <2>1. UNCHANGED vars
    BY <1>4
       DEF MinerStep, QueryLeadingBlock, QueryMemPool, QueryTransactions,
           QueryDifficultyAdjustTime, BuildBlock, Asks
  <2> QED  BY <1>1, <2>1
<1>5. CASE AskCash
  BY <1>5 DEF AskCash, QueryLeadingCashSet, HubMoves, Take, Idle, Next
<1>6. CASE TransferFails
  BY <1>1, <1>6 DEF TransferFails
<1>7. CASE \E t \in Transfers : Transfer(t)
  BY <1>7, MinerAssumption DEF Transfer, NewTransaction, HubMoves, Take, Idle
<1> QED
  BY <1>1, <1>2, <1>3, <1>4, <1>5, <1>6, <1>7 DEF MinerNext, WalletStep, clients

\* So the hub stays in order, its verdicts are final, and only blocks that are
\* handled are judged.
LEMMA HubStaysInOrder ==
  IInv /\ HubMoves =>
    /\ IInv'
    /\ VerdictStep(hub, hub')
    /\ \/ \E b \in BlockId : DeliverBlock(b) \/ ValidateNext(b)
       \/ /\ hub'.valid_blocks = hub.valid_blocks
          /\ hub'.invalid_blocks = hub.invalid_blocks
          /\ hub'.unconfirmed_blocks = hub.unconfirmed_blocks
<1> SUFFICES ASSUME IInv, HubMoves
             PROVE  /\ IInv'
                    /\ VerdictStep(hub, hub')
                    /\ \/ \E b \in BlockId : DeliverBlock(b) \/ ValidateNext(b)
                       \/ /\ hub'.valid_blocks = hub.valid_blocks
                          /\ hub'.invalid_blocks = hub.invalid_blocks
                          /\ hub'.unconfirmed_blocks = hub.unconfirmed_blocks
  OBVIOUS
<1>1. CASE [Next]_vars
  <2>1. IInv' /\ BlockStep(hub, hub')
    BY <1>1, StepInOrder, StepIsBlockStep
  <2> QED  BY <1>1, <2>1, OthersJudgeNothing DEF BlockStep
<1>2. CASE \E t \in TxnId : NewTransaction(t)
  <2>1. PICK t \in TxnId : NewTransaction(t)
    BY <1>2
  <2>2. /\ hub \in Hub /\ PoolInv(hub) /\ now \in StartTime .. MaxTime
        /\ announced \in SUBSET (BlockId \cup TxnId)
    BY DEF IInv, TypeOK
  <2>3. hub' \in Hub /\ PoolInv(hub') /\ sent' \in Outbox
    BY <2>1, <2>2, NewTransactionInOrder, TakeInOrder DEF NewTransaction
  <2>4. now' = now /\ announced' \in SUBSET (BlockId \cup TxnId)
    BY <2>1, <2>2 DEF NewTransaction, Take
  <2>5. IInv'
    BY <2>2, <2>3, <2>4 DEF IInv, TypeOK
  <2>6. /\ hub'.valid_blocks = hub.valid_blocks
        /\ hub'.invalid_blocks = hub.invalid_blocks
        /\ hub'.unconfirmed_blocks = hub.unconfirmed_blocks
    BY <2>1, <2>2 DEF NewTransaction, Take, HandleNewTransaction, Broadcast, Done, Hub
  <2> QED  BY <2>5, <2>6 DEF VerdictStep
<1>3. CASE \E n \in hub.peers, t \in TxnId : GetTransaction(n, t)
  <2>1. PICK n \in hub.peers, t \in TxnId : GetTransaction(n, t)
    BY <1>3
  <2>2. /\ hub \in Hub /\ PoolInv(hub) /\ now \in StartTime .. MaxTime
        /\ announced \in SUBSET (BlockId \cup TxnId) /\ n \in Node
    BY DEF IInv, TypeOK, Hub
  <2>3. hub' \in Hub /\ PoolInv(hub') /\ sent' \in Outbox
    BY <2>1, <2>2, TransactionHandlersInOrder, TakeInOrder DEF GetTransaction
  <2>4. now' = now /\ announced' = announced
    BY <2>1 DEF GetTransaction, Take
  <2>5. IInv'
    BY <2>2, <2>3, <2>4 DEF IInv, TypeOK
  <2>6. /\ hub'.valid_blocks = hub.valid_blocks
        /\ hub'.invalid_blocks = hub.invalid_blocks
        /\ hub'.unconfirmed_blocks = hub.unconfirmed_blocks
    BY <2>1, <2>2
       DEF GetTransaction, Take, HandleGetTransaction, SendToPeer, Done, Fail, Stop, Hub
  <2> QED  BY <2>5, <2>6 DEF VerdictStep
<1> QED  BY <1>1, <1>2, <1>3 DEF HubMoves
\* What holds of a block of the miner holds as the pools grow.
LEMMA MineStays ==
  ASSUME IInv, HubMoves
  PROVE  \A b : (Mine(b) => Mine(b)') /\ (Judged(b) => Judged(b)')
<1>1. hub.valid_blocks \subseteq hub'.valid_blocks /\ hub.invalid_blocks \subseteq hub'.invalid_blocks
  BY HubStaysInOrder DEF VerdictStep
<1>2. now' = now /\ (~hub.running => hub' = hub)
  BY DEF HubMoves
<1>3. \A b : Rival(hub, b) => Rival(hub', b)
  BY <1>1 DEF Rival
<1>4. \A b : Mine(b) => Mine(b)'
  BY <1>1, <1>2, <1>3 DEF Mine
<1>5. \A b : Judged(b) => Judged(b)'
  BY <1>1, <1>2 DEF Judged
<1> QED  BY <1>4, <1>5

\* No block is accepted or kept before its time.
LEMMA StaysInTime ==
  ASSUME IInv, HubMoves, InTime(hub, now)
  PROVE  InTime(hub', now')
<1>1. /\ hub \in Hub /\ PoolInv(hub) /\ now \in Nat /\ now' = now
  BY EnvironmentAssumption DEF IInv, TypeOK, HubMoves
<1>2. CASE \E b \in BlockId : DeliverBlock(b)
  BY <1>1, <1>2, NewBlockInTime DEF DeliverBlock, NewBlock, Take
<1>3. CASE \E b \in BlockId : ValidateNext(b)
  <2>1. PICK b \in BlockId : b \in hub.unconfirmed_blocks /\ MovesOnly(hub, b, hub')
    BY <1>1, <1>3, PendingMovesOnly DEF ValidateNext, IsNextPending, Take, Done
  <2> QED  BY <1>1, <2>1 DEF MovesOnly, InTime
<1>4. CASE /\ hub'.valid_blocks = hub.valid_blocks
           /\ hub'.unconfirmed_blocks = hub.unconfirmed_blocks
  BY <1>1, <1>4 DEF InTime
<1> QED  BY <1>2, <1>3, <1>4, HubStaysInOrder

\* What a step finds invalid is invalid for a reason.
LEMMA StaysReasoned ==
  ASSUME IInv, HubMoves, Reasoned
  PROVE  Reasoned'
<1>1. /\ hub \in Hub /\ PoolInv(hub) /\ now' = now
      /\ hub' \in Hub /\ DoomedByParent(hub')
      /\ hub.valid_blocks \subseteq hub'.valid_blocks
      /\ hub.invalid_blocks \subseteq hub'.invalid_blocks
  BY HubStaysInOrder DEF HubMoves, IInv, TypeOK, VerdictStep, PoolInv
<1>2. \A b : Rival(hub, b) => Rival(hub', b)
  BY <1>1 DEF Rival
<1> DEFINE Reason(x) == \/ Timestamp(x) > now
                        \/ Prev(x) \in hub'.invalid_blocks
                        \/ Prev(x) \in hub'.valid_blocks /\ (Rival(hub', x) \/ ~Extends(x))
<1>3. \A x \in hub.invalid_blocks : Reason(x)
  BY <1>1, <1>2 DEF Reasoned
<1>4. \A x \in hub'.unconfirmed_blocks \cap hub'.invalid_blocks : Reason(x)
  BY <1>1 DEF DoomedByParent
<1>5. ASSUME NEW b \in BlockId, NEW early, early => Timestamp(b) > now,
             Rejects(hub, b, early, hub')
      PROVE  \A x \in hub'.invalid_blocks : Reason(x)
  BY <1>1, <1>2, <1>3, <1>4, <1>5 DEF Rejects
<1>6. CASE \E b \in BlockId : DeliverBlock(b)
  <2>1. PICK b \in BlockId : \E from \in hub.peers \cup {NoNode} : NewBlock(from, b)
    BY <1>6 DEF DeliverBlock
  <2>2. Rejects(hub, b, Timestamp(b) > now, hub')
    BY <1>1, <2>1, NewBlockRejects DEF NewBlock, Take
  <2> QED  BY <1>1, <1>5, <2>2 DEF Reasoned
<1>7. CASE \E b \in BlockId : ValidateNext(b)
  <2>1. PICK b \in BlockId : Rejects(hub, b, FALSE, hub')
    BY <1>1, <1>7, PendingRejects DEF ValidateNext, IsNextPending, Take, Done
  <2> QED  BY <1>1, <1>5, <2>1 DEF Reasoned
<1>8. CASE hub'.invalid_blocks = hub.invalid_blocks
  BY <1>1, <1>3, <1>8 DEF Reasoned
<1> QED  BY <1>6, <1>7, <1>8, HubStaysInOrder

\* The miner's questions: what it is answered is about valid blocks.
LEMMA AskingMines ==
  ASSUME IInv, MInv,
         \/ QueryLeadingBlock \/ QueryMemPool
         \/ QueryTransactions \/ QueryDifficultyAdjustTime
  PROVE  /\ DOMAIN miner' = Fields
         /\ miner'.leading_block \in hub.valid_blocks
         /\ miner'.step # "submit"
         /\ miner'.step = "build" => AnsweredByBlock'
<1> USE DEF MInv, Fields, NewTemplate
<1>1. /\ hub \in Hub /\ PoolInv(hub) /\ hub.leading_block \in hub.valid_blocks
  BY DEF IInv, TypeOK, PoolInv, HighestLeads
<1>2. CASE QueryLeadingBlock
  BY <1>1, <1>2 DEF QueryLeadingBlock, Asks
<1>3. CASE QueryMemPool
  BY <1>3 DEF QueryMemPool, Asks
<1>4. CASE QueryTransactions
  <2>1. miner'.leading_block = miner.leading_block /\ DOMAIN miner' = Fields
    BY <1>4 DEF QueryTransactions, Asks
  <2>2. miner'.step = IF IsAdjustment(Seqno(miner.leading_block) + 1)
                      THEN "adjust" ELSE "build"
    BY <1>4 DEF QueryTransactions, Asks
  <2> QED  BY <2>1, <2>2 DEF AnsweredByBlock
<1>5. CASE QueryDifficultyAdjustTime
  <2> DEFINE m == miner.leading_block
             s == Seqno(m) + 1
             l == hub.leading_block
             v == PrevAdjustedBlock(hub, s)
  <2>1. /\ miner'.leading_block = m /\ DOMAIN miner' = Fields
        /\ miner'.step = "build" /\ miner'.adjustment = Timestamp(v)
        /\ UNCHANGED vars
    BY <1>5 DEF QueryDifficultyAdjustTime, Asks
  <2>2. /\ m \in BlockId /\ l \in BlockId /\ Seqno(m) <= Seqno(l)
    BY <1>1 DEF Hub, PoolInv, HighestLeads
  <2>3. Seqno(m) \in Nat /\ Seqno(l) \in Nat /\ s \in Nat /\ s > 0
    BY <2>2, BlockTypes
  <2>4. RewindNumber(s) \in 1 .. s
    BY <2>3, RewindStaysOnChain
  <2>5. s - RewindNumber(s) \in 0 .. Seqno(l)
    BY <2>2, <2>3, <2>4
  <2>6. IsTree(hub.valid_blocks) /\ FormsTree(hub)
    BY <1>1, ValidIsTree DEF PoolInv
  <2>7. v = PathTo[l][(s - RewindNumber(s)) + 1]
    BY <1>1, <2>5, <2>6, ConfirmedChainIsPath DEF PrevAdjustedBlock
  <2>8. v \in hub.valid_blocks /\ Seqno(v) = s - RewindNumber(s)
    BY <1>1, <2>5, <2>6, <2>7, PathMember, TreePath
  <2> QED  BY <2>1, <2>8 DEF AnsweredByBlock, vars
<1> QED  BY <1>2, <1>3, <1>4, <1>5

\* What it builds from the answers, it can vouch for.
LEMMA BuildingMines ==
  ASSUME IInv, MInv, NEW b \in BlockId, BuildBlock(b)
  PROVE  Mine(b)
<1> DEFINE p == miner.leading_block
           s == Seqno(p) + 1
<1>1. /\ hub \in Hub /\ FormsTree(hub) /\ p \in hub.valid_blocks /\ p \in BlockId
      /\ now \in Nat /\ AnsweredByBlock /\ InTime(hub, now)
  BY EnvironmentAssumption DEF IInv, TypeOK, PoolInv, MInv, BuildBlock, Hub
<1>2. /\ b # Genesis /\ Prev(b) = p /\ Seqno(b) = s /\ Timestamp(b) = now
      /\ Amount[Block[b].reward] = Subsidy(s) + Fees(b)
      /\ Block[b].difficulty =
           IF IsAdjustment(s)
           THEN AdjustWithActualSpan(Block[p].difficulty, now - miner.adjustment)
           ELSE Block[p].difficulty
  BY DEF BuildBlock, FitsTemplate
<1>3. FollowsParent(b) /\ Timestamp(b) <= now
  BY <1>1, <1>2, BlockTypes DEF FollowsParent, InTime
<1>4. RewardIsRight(b)
  <2>1. s \in Nat
    BY <1>1, BlockTypes
  <2>2. Subsidy(s) \in Int /\ Fees(b) \in Int
    BY <2>1, SubsidyType, FeesType
  <2> QED  BY <1>2, <2>2 DEF RewardIsRight
<1>5. Rival(hub, b) \/ Block[b].difficulty = OwnChainDifficulty(b)
  <2>1. CASE ~IsAdjustment(s)
    BY <1>2, <2>1 DEF OwnChainDifficulty
  <2>2. CASE IsAdjustment(s) /\ ~Rival(hub, b)
    <3>1. PICK v \in hub.valid_blocks :
            Seqno(v) = s - RewindNumber(s) /\ miner.adjustment = Timestamp(v)
      BY <1>1, <2>2 DEF AnsweredByBlock
    <3>2. v = PathTo[Prev(b)][Seqno(b) - Period + 1]
      BY <1>1, <1>2, <2>2, <3>1, StartOfPeriod
    <3> QED  BY <1>2, <2>2, <3>1, <3>2 DEF OwnChainDifficulty
  <2> QED  BY <2>1, <2>2
<1> QED  BY <1>1, <1>2, <1>3, <1>4, <1>5 DEF Mine
LEMMA StepMines == IInv /\ MInv /\ [MinerNext]_<<vars, clients>> => MInv'
<1> SUFFICES ASSUME IInv, MInv, [MinerNext]_<<vars, clients>> PROVE MInv'
  OBVIOUS
<1>1. HubMoves
  BY StepMovesHub
<1>2. /\ InTime(hub', now') /\ Reasoned'
      /\ hub.valid_blocks \subseteq hub'.valid_blocks
  BY <1>1, StaysInTime, StaysReasoned, HubStaysInOrder DEF MInv, VerdictStep
<1>3. \A b : (Mine(b) => Mine(b)') /\ (Judged(b) => Judged(b)')
  BY <1>1, MineStays
<1>4. CASE miner' = miner /\ mined' = mined
  <2>1. AnsweredByBlock => AnsweredByBlock'
    BY <1>2, <1>4 DEF AnsweredByBlock
  <2> QED  BY <1>2, <1>3, <1>4, <2>1 DEF MInv
<1>5. CASE \/ QueryLeadingBlock \/ QueryMemPool
           \/ QueryTransactions \/ QueryDifficultyAdjustTime
  <2>1. mined' = mined
    BY <1>5
       DEF QueryLeadingBlock, QueryMemPool, QueryTransactions,
           QueryDifficultyAdjustTime, Asks
  <2>2. /\ DOMAIN miner' = Fields
        /\ miner'.leading_block \in hub.valid_blocks
        /\ miner'.step # "submit"
        /\ miner'.step = "build" => AnsweredByBlock'
    BY <1>5, AskingMines
  <2> QED  BY <1>2, <1>3, <2>1, <2>2 DEF MInv
<1>6. CASE \E b \in BlockId : BuildBlock(b)
  <2>1. PICK b \in BlockId : BuildBlock(b)
    BY <1>6
  <2>2. Mine(b)'
    BY <1>3, <2>1, BuildingMines
  <2>3. /\ DOMAIN miner' = Fields /\ miner'.leading_block = miner.leading_block
        /\ miner'.step = "submit" /\ miner'.block = b /\ mined' = mined
    BY <2>1 DEF BuildBlock, MInv, Fields, NewTemplate
  <2> QED  BY <1>2, <1>3, <2>2, <2>3 DEF MInv
<1>7. CASE SubmitBlock
  <2>1. PICK b : /\ b = miner.block
                 /\ Mine(b) /\ mined' = mined \cup {b} /\ miner' = NewTemplate
                 /\ NewBlock(NoNode, b)
    BY <1>7 DEF SubmitBlock, MInv
  <2>2. /\ hub \in Hub /\ PoolInv(hub) /\ Idle(hub)
        /\ b \in BlockId \ {Genesis} /\ Prev(b) \in hub.valid_blocks
        /\ hub' = HandleNewBlock(hub, NoNode, b, now).hub
    BY <2>1 DEF IInv, TypeOK, Mine, NewBlock, Take
  <2>3. Judged(b)'
    BY <2>2, SubmittedIsJudged DEF Judged
  <2>4. /\ DOMAIN miner' = Fields /\ miner'.leading_block = Genesis
        /\ miner'.step = "leading"
    BY <2>1 DEF NewTemplate, Fields
  <2>5. Genesis \in hub'.valid_blocks
    BY <1>2, <2>2 DEF PoolInv, FormsTree
  <2>6. \A x \in mined' : Mine(x)' /\ Judged(x)'
    BY <1>3, <2>1, <2>3 DEF MInv
  <2> QED  BY <1>2, <2>4, <2>5, <2>6 DEF MInv
<1>8. CASE HubStep \/ WalletStep \/ UNCHANGED <<vars, clients>>
  <2>1. miner' = miner /\ mined' = mined
    BY <1>8 DEF HubStep, WalletStep, AskCash, TransferFails, Transfer, clients
  <2> QED  BY <1>4, <2>1
<1> QED
  BY <1>5, <1>6, <1>7, <1>8 DEF MinerNext, MinerStep

-----------------------------------------------------------------------------
(***************************************************************************)
(* Theorems.                                                               *)
(***************************************************************************)

\* The hub of a miner and a wallet is in order too.
LEMMA MinerInOrder ==
  ASSUME Timestamp(Genesis) <= StartTime
  PROVE  MinerSpec => [](IInv /\ MInv)
<1>1. MinerInit => IInv /\ MInv
  BY InitInOrder, InitMines DEF MinerInit
<1>2. IInv /\ MInv /\ [MinerNext]_<<vars, clients>> => IInv' /\ MInv'
  BY StepMovesHub, HubStaysInOrder, StepMines
<1> QED  BY <1>1, <1>2, PTL DEF MinerSpec

\* However the hub moves while its miner asks and searches, and whatever peers and
\* the wallet send: a block the miner submitted never waits for a parent, carries
\* the target of its own chain, and is invalid only for its transactions; unless
\* its adjustment block has a rival.  The clock must have passed the fixed date of
\* genesis when the hub starts.
THEOREM MinedFailOnlyByInputs ==
  ASSUME Timestamp(Genesis) <= StartTime
  PROVE  MinerSpec => []MinedFailsOnlyByInputs
<1>1. IInv /\ MInv => MinedFailsOnlyByInputs
  <2> SUFFICES ASSUME IInv, MInv, NEW b \in mined
               PROVE  /\ b \notin hub.unconfirmed_blocks
                      /\ ~Rival(hub, b) =>
                           /\ Block[b].difficulty = OwnChainDifficulty(b)
                           /\ b \in hub.invalid_blocks =>
                                ~(Spends(b) \subseteq Unspent(Prev(b)))
    BY DEF MinedFailsOnlyByInputs
  <2>1. /\ Mine(b) /\ Judged(b) /\ Reasoned
        /\ Separate(hub) /\ DoomedByParent(hub)
    BY DEF MInv, IInv, PoolInv
  <2>2. Prev(b) \in hub.valid_blocks /\ Prev(b) \notin hub.invalid_blocks
    BY <2>1 DEF Mine, Separate
  <2>3. b \notin hub.unconfirmed_blocks
    BY <2>1, <2>2 DEF Judged, Separate, DoomedByParent
  <2>4. ASSUME ~Rival(hub, b) PROVE Block[b].difficulty = OwnChainDifficulty(b)
    BY <2>1, <2>4 DEF Mine
  <2>5. ~(Timestamp(b) > now)
    <3>1. Timestamp(b) <= now /\ Timestamp(b) \in Nat /\ now \in Nat
      BY <2>1, BlockTypes, EnvironmentAssumption DEF Mine, IInv, TypeOK
    <3> QED  BY <3>1
  <2>6. ASSUME ~Rival(hub, b), b \in hub.invalid_blocks
        PROVE  ~(Spends(b) \subseteq Unspent(Prev(b)))
    <3>1. ~Extends(b)
      BY <2>1, <2>2, <2>5, <2>6 DEF Reasoned
    <3> QED  BY <2>1, <2>4, <2>6, <3>1 DEF Extends, Mine
  <2> QED  BY <2>3, <2>4, <2>6
<1> QED  BY <1>1, MinerInOrder, PTL
=============================================================================
