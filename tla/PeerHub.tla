------------------------------- MODULE PeerHub -------------------------------
(***************************************************************************)
(* PeerHubActor (peerhub.rs) in an open environment: one hub, to which its *)
(* peers, its miner and its users send the messages they can send, in any  *)
(* order and any number of times.  One message is handled at a time; the   *)
(* NewBlock handler takes several steps (see HubState), during which no    *)
(* other message is handled.                                               *)
(***************************************************************************)
EXTENDS HubState

CONSTANTS
  GossipTxn,        \* the transactions users and peers submit; the others
                    \* occur only inside blocks
  StartTime,        \* the clock when the hub starts
  MaxTime           \* bound on the clock, for TLC

ASSUME EnvironmentAssumption ==
  /\ GossipTxn \subseteq TxnId
  /\ StartTime \in Nat
  /\ MaxTime \in Nat
  /\ StartTime <= MaxTime

VARIABLES
  hub,              \* PeerHubActorState
  sent,             \* what the last step sent to each peer
  announced,        \* history: the ids broadcast so far
  now               \* the local clock

vars == <<hub, sent, announced, now>>

Init ==
  /\ hub = NewHub
  /\ sent = Silence
  /\ announced = {}
  /\ now = StartTime

\* The hub takes a handler's result.
Take(result) ==
  /\ hub' = result.hub
  /\ sent' = result.sent
  /\ UNCHANGED now

Ids(seq) == {seq[i] : i \in DOMAIN seq}

-----------------------------------------------------------------------------
(***************************************************************************)
(* Handlers.  A peer's messages arrive only after NewPeer has put it in    *)
(* the table (its Peer task is spawned then), and entries are never        *)
(* removed.  A peer asks for what this hub announced.                      *)
(***************************************************************************)
NewPeer(n) ==
  /\ Idle(hub)
  /\ Take(HandleNewPeer(hub, n))
  /\ UNCHANGED announced

NewBlock(from, b) ==
  /\ Idle(hub)
  /\ Take(HandleNewBlock(hub, from, b, now))
  /\ UNCHANGED announced

ValidateNext(b) ==
  /\ hub.running
  /\ IsNextPending(hub, b)
  /\ Take(Done(ValidatePending(hub, b)))
  /\ UNCHANGED announced

Announce ==
  /\ hub.running
  /\ hub.valid_ids # <<>>
  /\ \A b \in BlockId : hub.pending[b] = 0
  /\ Take(AnnounceValid(hub))
  /\ announced' = announced \cup Ids(hub.valid_ids)

AnnounceBlock(from, b) ==
  /\ Idle(hub)
  /\ Take(HandleAnnounceBlock(hub, from, b))
  /\ UNCHANGED announced

GetBlock(from, b) ==
  /\ Idle(hub)
  /\ b \in announced      \* a peer learns an id from an announcement
  /\ Take(HandleGetBlock(hub, from, b))
  /\ UNCHANGED announced

AnnounceTransaction(from, t) ==
  /\ Idle(hub)
  /\ Take(HandleAnnounceTransaction(hub, from, t))
  /\ UNCHANGED announced

NewTransaction(t) ==
  /\ Idle(hub)
  /\ Take(HandleNewTransaction(hub, t))
  /\ announced' = IF t \in hub.mempool THEN announced ELSE announced \cup {t}

GetTransaction(from, t) ==
  /\ Idle(hub)
  /\ t \in announced
  /\ Take(HandleGetTransaction(hub, from, t))
  /\ UNCHANGED announced

QueryLeadingCashSet ==
  /\ Idle(hub)
  /\ Take(HandleQueryLeadingCashSet(hub))
  /\ UNCHANGED announced

Tick ==
  /\ now < MaxTime
  /\ now' = now + 1
  /\ UNCHANGED <<hub, sent, announced>>

\* A block comes from a peer, or from this node's miner, which mines on a
\* leading block it asked for: a valid block, and those are never removed.
DeliverBlock(b) ==
  \/ \E from \in hub.peers : NewBlock(from, b)
  \/ Prev(b) \in hub.valid_blocks /\ NewBlock(NoNode, b)

Handler == (\E b \in BlockId : ValidateNext(b)) \/ Announce

Next ==
  \/ \E n \in Node : NewPeer(n)
  \/ \E b \in BlockId : DeliverBlock(b)
  \/ Handler
  \/ \E n \in hub.peers, b \in BlockId : AnnounceBlock(n, b)
  \/ \E n \in hub.peers, b \in BlockId : GetBlock(n, b)
  \/ \E n \in hub.peers, t \in GossipTxn : AnnounceTransaction(n, t)
  \/ \E t \in GossipTxn : NewTransaction(t)
  \/ \E n \in hub.peers, t \in GossipTxn : GetTransaction(n, t)
  \/ QueryLeadingCashSet
  \/ Tick

Spec == Init /\ [][Next]_vars

\* A running handler goes on: it never waits for another message.
HandlerFairness == WF_vars(Handler)

FairSpec == Spec /\ HandlerFairness

-----------------------------------------------------------------------------
TypeOK ==
  /\ hub \in Hub
  /\ sent \in Outbox
  /\ announced \in SUBSET (BlockId \cup TxnId)
  /\ now \in StartTime .. MaxTime

\* Every valid block but genesis has a valid parent with the seqno before its
\* own and no later timestamp (what validate_block checks of the parent
\* stays true of the whole pool).
ValidBlocksFormTree == FormsTree(hub)

\* The leading block is a highest valid block.
LeadingIsHighest == HighestLeads(hub)

\* The adjustment block looked up for a child of any valid block is in the
\* confirmed chain: the slice index of prev_difficulty_adjusted_block, which
\* belongs to another chain than the child's, is never out of range.
AdjustmentInRange ==
  \A b \in hub.valid_blocks :
    LET s == Seqno(b) + 1
    IN s - RewindNumber(s) \in 0 .. Seqno(hub.leading_block)

\* A block is never at once valid and waiting, or valid and invalid.
PoolsDisjoint == Separate(hub)

\* No lost wakeup: when no handler runs, no block waits for a valid parent,
\* so whoever waits for a block that arrived has been validated.
NoStrandedBlock ==
  Idle(hub) =>
    \A b \in hub.unconfirmed_blocks : Prev(b) \notin hub.valid_blocks

\* The waiting blocks can all be reached, and only they are: each block under
\* next_blocks still waits for that parent, and each unconfirmed block is there,
\* is pending in a running loop, or has been found invalid with its parent.
WaitersIndexed == Indexed(hub) /\ DoomedByParent(hub)

\* "Preconditions: block is not in unconfirmed block. block is not in invalid
\* pool" (peerhub.rs:292-294), for the blocks the loop of add_valid_block is
\* about to take out of the unconfirmed pool and validate; their parent is
\* valid, so that the verdict is final, and the handler is still running.
ValidatePreconditions == PendingReady(hub) /\ ResultOpen(hub)

\* What is valid has been announced, is genesis, or is in the result of the
\* running handler: nothing a nested loop accepted is forgotten, and nothing is
\* announced that a peer would ask for in vain.
ValidIsAnnounced ==
  hub.running =>
    hub.valid_blocks = {Genesis} \cup (announced \cap BlockId) \cup Ids(hub.valid_ids)

\* Well formed, and no block of its chain is dated later than the hub's start,
\* so that it is never early for this hub.
Sound(b) ==
  /\ WellFormed[b]
  /\ \A x \in OnPath(b) : Timestamp(x) <= StartTime

\* The hub accepts only what is well formed judged on its own chain, but for blocks
\* that spend cash twice (see below) and what is built on them, ...
ValidAreWellFormed ==
  \A b \in hub.valid_blocks :
    (\A x \in OnPath(b) : NoDoubleSpend(x)) => WellFormed[b]

\* ... and never throws away a block that is: whatever arrived before it and
\* in which order, the verdict is that of the block's own chain.
SoundAreNotRejected == \A b \in hub.invalid_blocks : ~Sound(b)

\* Once every block has arrived, a highest sound block leads (the test
\* leading_block_with_forks, lib.rs:154-211).
HighestSoundLeads ==
  (Idle(hub) /\ \A b \in BlockId : KnowsBlock(hub, b)) =>
    \A b \in BlockId : Sound(b) => Seqno(b) <= Seqno(hub.leading_block)

\* The cash set computed for a valid block holds all the cash unspent on its
\* chain, so that no honest spend is refused; what it holds besides was left by
\* valid blocks of other branches, and is never cash spent on its own chain.
CashSetBounds ==
  \A b \in hub.valid_blocks :
    LET set == CashSetAt(hub, b)
        elsewhere == UNION {Leaves(x) : x \in hub.valid_blocks \ OnPath(b)}
        spent == UNION {Spends(x) : x \in OnPath(b)}
    IN /\ Unspent(b) \subseteq set
       /\ set \ Unspent(b) \subseteq elsewhere \ spent

\* The blocks of the chain to b spend cash of their chain, each piece once, and
\* make new cash: what hubs leave to those who build them (see below).
FairlyBuilt(b) ==
  \A x \in OnPath(b) \ {Genesis} :
    Spends(x) \subseteq Unspent(Prev(x)) /\ NoDoubleSpend(x) /\ MakesNewCash(x)

\* The cash unspent on such a chain of valid blocks is worth the subsidies of its
\* blocks, whatever else the hub has accepted: fees only move money, and a reward
\* takes no more and no less than is left.
MoneyIsConserved ==
  \A b \in hub.valid_blocks : FairlyBuilt(b) =>
    TotalAmount(Unspent(b)) =
      FoldFunction(+, 0, [x \in OnPath(b) |-> Subsidy(Seqno(x))])

\* A step that makes a block invalid makes the blocks waiting for it invalid.
InvalidationReachesWaiters ==
  [][\A b \in hub'.invalid_blocks \ hub.invalid_blocks :
       hub.next_blocks[b] \subseteq hub'.invalid_blocks]_vars

\* A verdict is final, and no block is forgotten: a running hub that knows a
\* block knows it for ever, also while validation moves it between pools.
VerdictsAreFinal ==
  [][/\ hub.valid_blocks \subseteq hub'.valid_blocks
     /\ hub.invalid_blocks \subseteq hub'.invalid_blocks
     /\ hub'.running =>
          \A b \in BlockId : KnowsBlock(hub, b) => KnowsBlock(hub', b)]_vars

\* The depth of a confirmed transaction ("How many confirmed blocks after the
\* one containing this transaction", peerhub.rs:489) grows by the number of
\* blocks the confirmed chain grows by, as long as that chain is not abandoned.
DepthGrowsWithChain ==
  [][hub.leading_block \in OnPath(hub'.leading_block) =>
       \A t \in TxnId : TransactionDepth(hub, t) >= 0 =>
         TransactionDepth(hub', t) - TransactionDepth(hub, t)
           = Seqno(hub'.leading_block) - Seqno(hub.leading_block)]_vars

\* The hub stops for one reason only: it is asked for a transaction that it
\* announced and that a block has since taken out of the mempool.
HubStopsOnlyForMined ==
  ~hub.running =>
    \E t \in announced \cap TxnId : \E b \in hub.valid_blocks : t \in Transactions(b)

\* A running hub stops in one of two ways only.  It is asked for a transaction that
\* it announced ("We broadcast when we do have the data", peerhub.rs:653) and that a
\* valid block has collected since; or the span of a period underflows
\* (peerhub.rs:334), for a block it is judging and whose period began at a height
\* where branches differ.  No other send, request, assertion (peerhub.rs:735) or
\* validation fails.
HubStopsForReason ==
  [][hub.running /\ ~hub'.running =>
       \/ \E t \in (announced \cap TxnId) \ hub.mempool :
            \E b \in hub.valid_blocks : t \in Transactions(b)
       \/ \E b \in BlockId \ (hub.valid_blocks \cup hub.invalid_blocks) :
            Disputed(hub, b) /\ SpanUnderflows(hub, b)]_vars

\* A transaction is asked for or held, never both: once it has arrived, its
\* announcement is forgotten, and it is not asked for again while it is held.
AskedOrHeld == hub.annoucements \cap hub.mempool = {}

\* A transaction leaves the mempool only into a block that becomes valid, and
\* every transaction of such a block leaves it.
MempoolLosesOnlyMined ==
  [][/\ hub.mempool \ hub'.mempool \subseteq
          UNION {Transactions(b) : b \in hub'.valid_blocks \ hub.valid_blocks}
     /\ \A b \in hub'.valid_blocks \ hub.valid_blocks :
          Transactions(b) \cap hub'.mempool = {}]_vars

\* A sound block becomes valid once it and the blocks of its chain have arrived,
\* in whatever order and among whatever others, and although no more messages
\* come: an orphan is not forgotten when its parent is there.
SoundBecomeValid ==
  \A b \in BlockId : Sound(b) =>
    ((\A x \in OnPath(b) : KnowsBlock(hub, x)) ~> (b \in hub.valid_blocks))

\* The hub implements BlockTree: a step accepts at most one block, after its
\* parent, and the leading block only gives way to a higher one.
Tree == INSTANCE BlockTree WITH accepted <- hub.valid_blocks, tip <- hub.leading_block
ImplementsBlockTree == Tree!Spec

-----------------------------------------------------------------------------
(***************************************************************************)
(* What comments of the code say, and the code does not keep.              *)
(***************************************************************************)

\* Double spending is checked when a block is validated (transaction.rs:130), so
\* a valid block names no piece of cash twice among the inputs of its transactions.
BlocksDoNotDoubleSpend == \A b \in hub.valid_blocks : NoDoubleSpend(b)

\* "are transactions' UTOs valid?" (block.rs:55): a valid block spends only
\* cash that is unspent on its own chain.
SpendsOwnCash ==
  \A b \in hub.valid_blocks \ {Genesis} : Spends(b) \subseteq Unspent(Prev(b))
=============================================================================
