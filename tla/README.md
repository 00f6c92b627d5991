# A TLA+ model of ddcoin

ddcoin is a small proof-of-work coin: every node runs one *hub* (a ractor actor
that owns all protocol state), one reader task per peer, a task that connects to
discovered nodes, a task that accepts connections, and, in the miner program, a
loop that mines.  This directory models the hub, a network of hubs that gossip,
how nodes connect and end, a hub with its miner and a wallet, and the arithmetic
of amounts, in TLA+.  TLC checks the models on small instances.  TLAPS proves every
safety property of the passing runs for all values of the constants: that the pools
of a hub stay in order, that its verdicts are those of a block's own chain and why
they may differ, that a hub implements an abstract block tree and a network of them
an abstract gossip of blocks, which connection two nodes keep, what can be wrong
with a block this node mined, and that amounts add up in every build.

Paths like `peerhub.rs:150` are relative to `src/src/`.

## 1. Inventory

### Components

| Component | State | Operations | Modelled by |
|---|---|---|---|
| **Hub: pools of blocks** (`peerhub.rs`) | `valid_blocks`, `unconfirmed_blocks`, `invalid_blocks`, `next_blocks` (parent to the blocks waiting for it), `leading_block` | `NewBlock`, `AnnounceBlock`, `GetBlock`; `validate_block`, `add_valid_block`, `add_invalid_block`, `block_root`, `confirmed_chain`, `prev_difficulty_adjusted_block` | `HubState`, `PeerHub` |
| **Hub: transactions** | `mempool`, `annoucements` | `AnnounceTransaction`, `NewTransaction`, `GetTransaction`, `QueryTransactionDepth(s)` | `HubState`, `PeerHub` |
| **Hub: cash set** | `cash_set` (a set and the block it is said to belong to) | `cash_set_at`, `QueryLeadingCashSet` | `HubState`, `PeerHub` |
| **Hub: peer table** | `peers` (node to send stream) | `NewPeer`, `ShouldConnect`, `send_to_peer`, `broadcast` | `Connections` (the streams and the duplicate rule), `HubState` (membership and sending), `Network` (half-done broadcasts) |
| **Hub: other queries** | none changed | `QueryBlock`, `QueryMemPool`, `QueryPeers`, ... | those the miner asks in `Miner`; the others copy one field |
| **Data** (`block.rs`, `transaction.rs`, `util.rs`, `config.rs`) | immutable | fee, subsidy, difficulty adjustment, local validity at decoding | `Ledger` (unbounded numbers), `Arithmetic` and `Transfers` (u64, with and without overflow checks) |
| **Peer task** (`peer.rs`) | position in its stream | turns each message into one actor message | `Network`; the environment of `PeerHub`; its start and end in `Connections` |
| **Network of hubs** | messages in flight | gossip of blocks and transactions | `Network`, `Gossip` |
| **Discovery, listener** (`new_peer_watcher.rs`) | known ids, reader tasks | `ShouldConnect` then `NewPeer`; accept then `NewPeer` | `Connections` |
| **Supervision** (`config.rs`: `HubHandle`) | two `JoinHandle`s | poll, drop | `Supervision` |
| **Miner** (`bin/miner.rs`) | answers of separate queries | query, build, search, submit | `Miner` |
| **Wallet** (`hub_helper.rs`, `new_transfer`) | the cash set it was answered | picks inputs from the cash set, computes the change, submits | `Transfers` (how it picks and computes), `Miner` (what happens between its two messages) |
| **Hashes, signatures, encoding** (`serdes.rs`, parts of `block.rs`, `transaction.rs`) | none | | not modelled, see 7 |

### How they interact

* The hub handles one actor message at a time.  A handler that returns `Err` or
  panics ends the actor: from then on the node is dead.  `running = FALSE`
  models that.
* A peer task casts one actor message per message it reads; the senders never
  wait.  Messages of different tasks are interleaved in any order
  in the mailbox.
* Hubs speak to each other in `AnnounceBlock`/`GetBlockRequest`/
  `GetBlockResponse` and the same three for transactions.  What a hub accepts it
  announces to all peers; who does not know an announced id asks the announcer.
* The miner and the wallet use the hub through separate request messages, and the
  hub moves on between two of them.
* The subscriber and the listener own the reader tasks they spawn; the `HubHandle`
  owns the hub and both of them.

### Hard behaviours, and what makes each part correct

* **Blocks in any order.**  An orphan waits under its parent's id in
  `next_blocks` and is validated when the parent becomes valid, in a recursion of
  `add_valid_block` and `validate_block` that changes the maps it iterates.
  Correct when: no orphan is lost (`WaitersIndexed`, `NoStrandedBlock`,
  `SoundBecomeValid`), a verdict is final (`VerdictsAreFinal`), the preconditions
  of `validate_block` hold where it is called (`ValidatePreconditions`), all that
  became valid is announced (`ValidIsAnnounced`).
* **Invalid subtrees.**  `InvalidationReachesWaiters`.
* **Forks.**  The leader changes branch while several blocks are validated in
  hash order.  `ImplementsBlockTree`, `HighestSoundLeads`, and
  `ValidBlocksFormTree`, on which `confirmed_chain`, which fills uninitialized
  memory by walking parents, depends.
* **State of another branch.**  The difficulty period is looked up in the leading
  chain and the cash set is a cache carried from block to block.
  `AdjustmentInRange`, `HubStopsForReason`, `CashSetBounds`, `MoneyIsConserved`,
  `SoundAreNotRejected`, `ValidAreWellFormed`, `DepthGrowsWithChain`; what does not
  hold: see 6.
* **Gossip racing with mining.**  A transaction leaves the mempool between its
  announcement and a peer's request.  `HubStopsOnlyForMined`, `HubStopsForReason`,
  `FirstStopIsForMined`, `MempoolLosesOnlyMined`, `AskedIsOnItsWay`,
  `TransactionsSpread`.
* **Gossip between hubs.**  A block is announced once, to the peers of that moment.
  A node that joins late hears of the newest block only and has to find its way
  down one request at a time; a hub that fails leaves a broadcast half done.
  `ImplementsGossip`, `OrphansAreCompleted`, `BlocksSpread`.
* **Two nodes dial each other.**  Each end learns of the two connections in its own
  order and must settle on the same one; what an end refuses the other may already
  use, and a failing stream, call, handler or message ends a whole task.  `SmallerIdKept`,
  `SameConnection`, `KeptHasReader`, `EndsStartWithDuplicate`, `LinkedInTheEnd`; what
  does not hold: `FullyConnected`.
* **Ends.**  A handle is dropped in the middle of handshakes, or polled while its tasks
  end one after the other.  `DropIsNoticed`, `AwaitEnds`.
* **Stale answers.**  The miner and the wallet act on answers of earlier moments.
  `MinedFailsOnlyByInputs`, `OnlyUnspendableStopsMining`.
* **Amounts near 2^64**, in a network where some builds panic on overflow and some
  wrap.  `TransferIsExact`, `ChangeIsLessThanLast`, `RefusedOnlyIfEmpty`,
  `RewardsAgree`, `ValidatorPanicsOnOverflow`.

The full list, with lines, is in `PROJECT.json` under `hazards`.

## 2. The modules

```
Ledger        blocks, transactions, cash, parameters; the reference WellFormed
  BlockTree                                   abstract: one growing tree
  Gossip                                      abstract: one growing tree per node
  HubState    the hub as a record; its methods and handlers as operators
    HubProofs                                 lemmas about chains, sums, one call of each
    PeerHub   one hub in an open environment  (implements BlockTree)
      +-- MCOrphans, MCSpending, MCDifficulty
      +-- PeerHubProofs
      +-- Miner                               a hub, its miner and a wallet
            +-- MCMining
            +-- MinerProofs                   (extends PeerHubProofs)
    Network   a hub per node, streams between them  (implements Gossip)
      +-- MCNetwork
      +-- NetworkProofs

Connections     dialers, listeners, hubs' tables and readers of every node
  +-- MCConnections
  +-- Supervision                             handles: polled, dropped
        +-- MCSupervision
        +-- SupervisionProofs
              +-- LinkProofs

Arithmetic      u64 in a build that checks and in one that wraps
  Transfers     one transfer, from the wallet to the validated block
    +-- MCTransfers
    +-- TransfersProofs

Recursion     induction over data and functions defined by it
                                              (for HubProofs, TransfersProofs)
```

**`Ledger`**.  A block's id is the hash of its content, so `Block` is a constant
function from ids to contents, and the pools of a hub are sets of ids.  The
inputs and outputs of a transaction are lists, as in the code: a piece of cash that is
named twice counts twice in the fee, and once in what a block takes out of a set.  The
second half defines `WellFormed[b]`, what `b` must satisfy *judged on its own
chain*; it does not use any hub's state and is what the verdicts of the hub are
compared with.

**`HubState`** has no variables.  `Hub` is the record type with the field names
of `PeerHubActorState`; `AddValidBlock`, `ValidateBlock`, `CashSetAt`,
`BlockRoot`, ... are its methods, and `HandleNewBlock`, `HandleGetTransaction`, ...
return the new hub and what is sent to each peer.  Two fields are not in the code:

* `pending` and `valid_ids` are the call stack and the result of the recursion
  `add_valid_block` / `validate_block`.  A call of `validate_block` from the loop
  of `add_valid_block` is one step (`ValidatePending`); `pending[b]` is the depth
  of the loop that has still to visit `b`, so that the innermost loop goes first,
  as the recursion does, and within a loop any order is allowed, as `HashSet`
  iteration does.
* `running`.

`annoucements` keeps only the transaction ids: nothing reads the announcer.
The `_Variant` operators beside some definitions are plausible mistakes, used to
confirm that the properties notice them; nothing else uses them.

**`PeerHub`** is the state machine of one hub.

| Action | Code |
|---|---|
| `NewPeer` | handler `NewPeer` |
| `NewBlock`, then `ValidateNext` ..., then `Announce` | handler `NewBlock`: checks and the outermost `validate_block`; each nested `validate_block`; the broadcasts at the end |
| `AnnounceBlock`, `GetBlock` | the handlers of these names |
| `AnnounceTransaction`, `NewTransaction`, `GetTransaction` | the handlers of these names |
| `QueryLeadingCashSet` | the handler of this name: the only query that changes state |
| `Tick` | the local clock read by `Timestamp::now()` |

A handler that leaves nothing pending is one atomic step, which the actor
guarantees: no other message is handled before it returns.  While blocks are
pending, or accepted and not yet announced, only the steps of that handler (and
`Tick`) are possible.
`announced` is a history variable and `sent` is the output of the last step.
The environment sends any message at any time and any number of times, with these
restrictions, which the other end's code justifies: a peer is in the table before
its reader task runs; a peer requests ids this hub has announced; this node's own
miner builds on a block that was the leading block when it asked, hence valid.
A block is attributed to the peer that delivered it.  The code takes the node id from
the message (`peer.rs:120`), where the sending hub has written its own
(`peerhub.rs:695`), so the two agree between nodes that run this code.

**`BlockTree`** is the abstract specification of a hub: a set of accepted blocks
and a tip.  One block is accepted at a time, after its parent; the tip moves only
to a strictly higher block.  `PeerHub` implements it with
`accepted <- hub.valid_blocks, tip <- hub.leading_block`.

**`Network`** puts the hub of `HubState` on every node, and an ordered stream on
each direction of each link.

| Action | Code |
|---|---|
| `Receive` | the loop of `Peer::run` and the mailbox: the next message of a stream becomes the call of a handler (`Handler`), once the hub has finished the one before |
| `NewPeer` | the handler of this name: an end of a link comes into the table, at a time of its own |
| `ValidateNext`, `Announce` | the rest of a `NewBlock` handler, as in `PeerHub` |
| `Submit` | a wallet's transaction, or a block of this node's miner on a valid parent and from its own mempool |
| `StreamEnds` | the stream of a hub that has stopped is closed, with what was not read |

Each of the first four ends in `Deliver`, where all a handler sends is written, or in
`DeliverFails`: a write to a hub that has stopped fails, the order of the table
decides who got what of the broadcast before, and this hub stops too
(`peerhub.rs:176`).  The environment of `PeerHub` is thereby replaced by other
hubs: that a peer only asks for what was announced is no longer assumed but what
hubs do.

**`Gossip`** is the abstract specification of a network, about blocks: a node
accepts a block after its parent, and only one that it mined itself or that a
linked node has accepted before; its tip moves only to a strictly higher block.

**`Connections`** models the setup of streams for a set of nodes, without blocks.
A node dials another at most once (`known_ids`), so a connection is named
`<<dialer, listener>>`, and each of its two ends has a phase that says where the
task that owns it stands.  `Found` says whom discovery tells of whom.

| Action | Code |
|---|---|
| `Discover`, `ShouldConnect`, `Connect`/`ConnectFails`, `OpenStream`/`OpenFails` | the loop of `NewPeerStreamSubscriber::run`, one step per `await` |
| `AcceptStream`/`AcceptFails` | the loop of `IncomingConnectionListener::run` |
| `NewPeer`, `CallFails` | the hub's handler with the caller's reaction; the call to a hub that has stopped |
| `ReaderEnds` | the end of `Peer::run`: its stream or its hub is gone |
| `DecodeFails` | the other end of it: a message does not decode, or panics in decoding (`peer.rs:92`) |
| `SendFails` | a failing write in `send_to_peer` or `broadcast`, which ends the hub |
| `HandlerFails` | any other failure or panic in a handler, which ends the hub with its table |
| `Lose` | the network |

A task that returns an error drops its `JoinSet`, which aborts the readers it had
spawned (`EndSubscriber`, `EndListener`).  `OpenFails` and `AcceptFails` have two causes
each: the connection is lost, or the other end has dropped all it had of it after they
connected.  Which messages make a handler fail is the subject of `PeerHub`; here any may.

**`Supervision`** adds the `HubHandle` of each node: `Poll` (it polls both
`JoinHandle`s every time, is ready when both are ready at the same poll, and panics
when one is polled again after it was ready) and `Drop` (both tasks are aborted
with all they own, between any two steps of any handshake).

**`Miner`** adds to `PeerHub` the miner's loop, one action per question
(`QueryLeadingBlock`, `QueryMemPool`, `QueryTransactions`, `QueryDifficultyAdjustTime`),
`BuildBlock` for `UnconfirmedBlock::new` and the search, `SubmitBlock` for the cast of
`NewBlock`; and the wallet, `AskCash` and `Transfer`. The peer not only sends blocks but
announces and asks for blocks and transactions (`HubStep`), so a hub can stop under its
miner.  A template is determined by the answers; `FitsTemplate(b)` says that `b` is the
block `UnconfirmedBlock::new` makes of them.  The instance (`MCMining`) holds every block
over given contents, so that each template has its block.  The clock stands still.

**`Arithmetic`** says what an operation on u64 yields in a build with overflow
checks (`Panic`) and in one without (the result modulo `Power[Width]`), for sums,
differences and shifts.

**`Transfers`** follows one transfer through the builds of three nodes: the wallet
picks cash in the arbitrary order of a set (`Choose`, `Exhaust`), computes the
change and constructs the transaction (`Make`), or a foreign one comes instead
(`Arrive`); a miner's node decodes it (`Decode`) and puts it into a block with its
reward (`Mine`); another node decodes the block and checks the reward
(`Validate`), adding in another order.  Each node's build checks or wraps.

## 3. The runs

| Run | Question | Distinct states |
|---|---|---|
| `orphans` | Whatever the order of blocks: do the pools stay in order, does every sound block become valid, and does the hub implement `BlockTree`? | 16,640 |
| `spending` | Are verdicts right on branches that spend the same reward; what is in the cash set; is money conserved on every fairly built chain; are depths right across a switch of branches; is the mempool right while blocks collect a gossiped transaction; why may the hub stop? | 32,446 |
| `difficulty` | Does the right block lead after each branch of the adjustment, on forks that share the adjustment block, without a lookup out of range? | 28,176 |
| `network` | Do blocks and transactions reach everybody, in the right order, with forks, late joiners, a clock that is behind, and hubs that stop? | 57,183 |
| `linking` | Do both ends of a duplicate settle on the same connection, and are any two nodes linked in the end, unless both listeners have ended? | 375,805 |
| `lossy` | When hubs send, tables fill up, a connection is lost, a handler fails or a message does not decode, and handles are dropped at any moment: does a hub keep a stream that nobody reads only for a known reason; is the first end always due to such a fault, a drop or a duplicate; is a node that ends noticed, and whoever awaits it told? | 312,607 |
| `mining` | Is what the miner submits wrong in nothing but its transactions, whatever the hub does meanwhile; what can stop the hub, and what the miner of a hub that runs? | 147,675 |
| `transfers` | Does a transfer move what was asked for and nothing else, and do nodes with different builds agree on rewards? | 2,011,856 |
| `double_spend`, `foreign_cash`, `fork_difficulty`, `dense` | statements of the repository that the code does not keep: see 6 | violated |

**Bounds.**  They are the sets of constants in the `.cfg` files and MC modules: which
blocks exist, how many nodes, how far the clock runs.  Nothing else is bounded: the
state of a hub over a finite set of blocks is finite.  No symmetry is used.

* `orphans`: nine blocks.  Up to three generations of orphans nest under one
  parent (`a1`, `a2`, `a3`), a parent has four children waiting at once in two
  generations, two branches tie and one overtakes, one block is dated ahead of the
  clock (it is rejected, or accepted after `Tick`), and one invalid block has two
  generations waiting for it.  Depth of nesting three and width above one are
  the cases of the recursion that differ; more of either repeats them.
* `spending`: two branches from `a1` spend its reward differently, one of them two
  blocks later, and each spends its own change; one block spends it twice along a
  chain, one claims too much, and one (`v2`) holds a transaction that names it twice.
  The subsidy halves within the chains (`HalfPeriod = 2`).  One peer and one gossiped
  transaction, which two blocks of different branches hold, one of them invalid.
* `difficulty`: `Period = 2`, so that two adjustments occur, at 2 and 4; spans
  that quarter, keep, scale and quadruple the target; a wrong target; early dates
  of a block against its parent, at an adjustment and elsewhere.
* `orphans` and `difficulty` check deadlock.  `spending` has a hub that stops.
* `network`: three nodes and six initial states (`MCScenarios`), each with what is
  mined and submitted where: a fork between the ends of a line; a chain of three
  blocks mined while nodes join, each at a time of its own; a block that one
  node's clock finds early, with a child; two announcers of one block; a
  transaction that a block collects while it spreads, mined by the node that
  heard of it last, in a line and in a triangle.  Three nodes are the fewest with
  a node in the middle that passes on, and with two ways to the same node.
  The streams have no bound of their own.  Deadlock is not checked: a network that
  has spread everything rests.
* `linking`: three nodes that all find each other, the fewest in which a listener
  that a duplicate has ended is missed by a third node.  The size limit of 3 is
  not reached (at the limit `SmallerIdKept` does not hold, see 6).
  `HubsSend = FALSE` stands for hubs that have nothing to send yet, so that the end
  of a link has no other cause than connecting.
* `lossy`: three nodes, two of which find each other and one of which is found by, or
  finds, the first only (`MCFound`), so that a duplicate, a third node and a table that is
  full of dead entries (`PeerSizeLimit = 2`) meet.  One fault may happen (`MaxFaults =
  1`): a connection is lost, a handler fails or a message does not decode; and every
  handle may be dropped.  Deadlock is not checked here, and not in `linking`: a settled
  network has nothing more to do.
* `mining`: chains of up to two blocks over the contents *nothing*, `t1`, `t2`,
  where both transactions spend the reward of genesis; `Period = 1`, so that every
  block is an adjustment, and a peer's branch is older than this node's, so that
  the hub can answer the miner with the adjustment time of a branch that is not the
  template's.  One transaction per block (`BlockTxnLimit`) is enough to put the
  wrong one first.  Deadlock is not checked: there is no block above height 2.
* `transfers`: four bits, and a subsidy of which four rewards exceed them, as sixteen
  rewards of 2^60 exceed 64 bits; a wallet with five pieces of its own and one of
  another's in the set; amounts and fees from 0 to the largest number; 50 foreign
  transactions with wrapping sums, mixed owners and wrong signers; heights before
  and after the last halving that is a legal shift.  Every combination of builds.

**Fairness of the hub** (`FairSpec` of `PeerHub`, for `orphans`).
`HandlerFairness`, weak fairness of the steps of a running handler: the actor
runs a handler to its end, and tokio runs tasks that are ready.  Delivery is
not assumed: `SoundBecomeValid` speaks of blocks whose chain has arrived, and of a
hub that may get no further message.

**Fairness of the network** (`NodeFairness`, for `network`): weak fairness per node of
reading what has arrived and finishing the running handler.  It is written with
`CanStep(n)`, the condition under which `NodeStep(n)` is enabled.  It does not say
which stream is read first; since all streams are finite here, none is passed over for ever.
Nobody need submit anything, links need not come up, and no hub need fail: the
liveness properties speak of what has been accepted somewhere, and of networks in
which no hub has stopped.

**Fairness of connecting** (`TaskFairness` of `Connections`, for `linking`, `dense`): weak
fairness of `TaskStep`, any step of a task's handshake or of discovery.  Tasks that can go
on do, and discovery yields every node.  An end never returns to an earlier phase, so
fairness of the disjunction is enough for each.  `Lose`, `ReaderEnds`, `DecodeFails`,
`HandlerFails` and `SendFails` are not fair.  **`RunFairness`** of `Supervision`, for
`lossy`, adds that a handle is polled when one of its tasks has ended (a `JoinHandle`
wakes who awaits it) and that a hub with a broken stream writes to it at some time, which
a network in which mining goes on makes it do.

**Fairness of mining** (`FairMinerSpec`, for `mining`): weak fairness
of the hub's handlers as above, and strong fairness of the miner's next step, which
waits only for its turn in the mailbox; the search for a nonce ends at some time.
The wallet and peers need do nothing.

## 4. What is proved

No theorem has a bound: any set of blocks, any peers, any parameters.  The assumptions are
those the modules declare:

* `BlockAssumption`, `AcyclicAssumption`: genesis exists at seqno 0 with no
  parent; every other block names a parent id; parents form no cycle, since a block
  contains its parent's hash.  (A parent nobody has is a block that is never
  delivered.)
* `MoneyAssumption`, `PeriodAssumption`, `NodeAssumption`,
  `EnvironmentAssumption`: types of the parameters, periods not 0.
* `IdAssumption`: a block and a transaction never have the same id; both are hashes.
* `NetworkAssumption`, `MinedOnceAssumption` (`Network`): links join two nodes; a block
  is mined once, and never genesis, since it holds the hash of its parent and a
  reward of its own.
* `ConnectionsAssumption`, `NoConnAssumption`, `FoundAssumption`: ids are ordered,
  `NoConn` is no connection.

TLC evaluates each of them in a run.

### The hub (`HubProofs`, `PeerHubProofs`)

The inductive invariant is `IInv == TypeOK /\ PoolInv(hub)`, where `PoolInv`
(in `HubState`) is the conjunction of

| Part | Says |
|---|---|
| `FormsTree` | every valid block but genesis follows a valid parent |
| `HighestLeads` | the leader is a highest valid block |
| `Separate` | valid is disjoint from waiting and from invalid |
| `Indexed` | `next_blocks` holds exactly the unconfirmed blocks that are neither pending nor doomed, each under its own parent, and no valid parent has waiters |
| `PendingReady` | a pending block is unconfirmed, not invalid, with a valid parent |
| `DoomedByParent` | an unconfirmed block is invalid only because its parent is |
| `ResultOpen` | nothing is pending between two messages |

`Separate` alone is not inductive: that a validated block is not already invalid
needs `PendingReady`, which needs `Indexed` to survive `add_invalid_block`, which
marks every block waiting directly or not.  There the argument is
`WaitingOnReaches`: each member of `WaitingOn(b)` other than `b` waits under another
member, so all are unconfirmed and the parents of all are doomed with them.  The
lemmas of `HubProofs` say this of each method for a *fresh* block (one in no pool),
and that the two callers pass one; they speak of a hub as a value, so that `PeerHub`
and `Network` share them.  `PeerHubProofs` combines them, one case per action.

| Theorem | Statement |
|---|---|
| `TypeCorrect` | `Spec => []TypeOK` |
| `ValidTree`, `LeaderIsHighest`, `PoolsSeparate`, `PoolsInOrder`, `PreconditionsHold` | the tree, the leader, disjoint pools, the index of waiters and the preconditions of `validate_block`, at every step of every nested validation |
| `NoLostWakeup` | `Spec => []NoStrandedBlock` |
| `AdjustmentIndexed` | `Spec => []AdjustmentInRange` |
| `FinalVerdicts`, `InvalidationSpreads` | `Spec => VerdictsAreFinal`, `Spec => InvalidationReachesWaiters` |
| `HubImplementsBlockTree` | `Spec => ImplementsBlockTree` |
| `MempoolLosses` | `Spec => MempoolLosesOnlyMined` |
| `AskedOrHeldAlways` | no transaction is at once held and waited for |
| `ValidAreAnnounced` | `Spec => []ValidIsAnnounced` |

`AdjustmentIndexed` follows from the leader being a highest valid block.  The action
properties share one lemma: a step of the hub under `IInv` either leaves valid
blocks and leader alone or adds one fresh block after its parent; no verdict is
withdrawn; what turns invalid takes its waiters along.  `ValidIsAnnounced` needs
`IInv` too: what a nested loop accepts is appended to the result, and the result is
announced before the handler ends.

### Chains and sums (`Recursion`, `HubProofs`)

What is compared with the reference along a chain needs facts about `PathTo`,
`WellFormed`, `Subsidy` and sums for every block.  A recursive function of TLA+ is a
`CHOOSE`, so it has to be shown that its equation has a solution before it may be used.
`Recursion` proves this once for functions that go from an element to its parent
(`ParentRecursion`), from the library's well-founded induction, and with the predicate as
a set, the form in which the provers can apply it (`ParentInduction`,
`NatSetInduction`); and it says of sums over finite sets what the proofs need (`SumStep`,
`SumUnion`, `SumMinus`, `SumFamily`).  `HubProofs` derives from `AcyclicAssumption` that
going up from any block ends at genesis (`BlocksDescend`), hence the equations of
`PathTo` and `WellFormed` and induction over blocks (`BlockInduction`).  The confirmed
chain that `confirmed_chain` fills by walking parents is the path of the leader
(`ConfirmedChainIsPath`), and the walk of `cash_set_at` is the path of its block
(`AncestryIsPath`).

### Verdicts, cash and money (`PeerHubProofs`)

Three findings (see 6) keep the hub from judging each block by its own chain.  The
theorems say that there is no other way.  A block is `Disputed` when its parent is valid,
it follows its parent, it is an adjustment, and the block at which its period began has a
rival among the valid blocks; the hub may then take another branch's time for that of the
block's own.  A block without a rival gets the target of its own chain
(`ExpectedWithoutRival`), whichever block leads.  The cash set always covers what is
unspent on the block's chain (`CashSetCovers`), since `cash_set_at` replays that chain on
whatever the set held.  So a block is accepted or refused by its own chain, or is
disputed, or spends what its chain does not offer (`JudgeStep`, for each handler).

| Theorem | Statement |
|---|---|
| `OnlyDisputedRejected` | an invalid block that is sound has a disputed block on its chain |
| `OnlyFindingsMalformed` | a valid block whose chain has no disputed block, no foreign cash and no cash named twice as an input, by one transaction or by two of a block, is well formed |
| `StopsForReason` | a hub that has stopped was asked for an announced transaction that has been mined, or some block is disputed |
| `SoundStay`, `HighestSound`, `StopsForMined` | `SoundAreNotRejected`, `HighestSoundLeads`, `HubStopsOnlyForMined`, each while no block is disputed (`AgreeOnAdjustments`) |
| `NoOtherStop` | `Spec => HubStopsForReason`: the step that stops the hub is a request for a collected transaction, or the span of a disputed block underflows |
| `WellFormedOnly` | `ValidAreWellFormed` while no block is disputed and `SpendsOwnCash` |
| `UnspentIsFound` | the cash set of a valid block has all that is unspent on its chain |
| `CashSetBounded` | `CashSetBounds` while `SpendsOwnCash`, and no cash is created twice on a chain (`CreatedOnce`) |
| `MoneyConserved` | `Spec => []MoneyIsConserved` |
| `DepthGrows` | `Spec => DepthGrowsWithChain` |

The hypotheses are about the state, not about the constants: a theorem
`Spec => [](H => P)` says that `P` holds as long as `H` does.  They cannot be left
out, since `fork_difficulty`, `foreign_cash` and `double_spend` refute `P` without them.
TLC finds that all of them hold throughout `orphans`, `spending` and
`difficulty`, so the theorems speak of what these runs check and of the same for any
size.

`MoneyIsConserved` needs no such hypothesis, as it speaks of one chain at a time.  On a chain
that is *fairly built* (`FairlyBuilt`) each block spends cash of its chain, each piece
once, and makes new cash (`MakesNewCash`).  No hub checks all of that, which is
why other blocks can be valid too: they may mint money, as `v2` does in `spending`.  What the
hub does check, the reward (`RewardsRight`), is enough for the fairly built chains, whatever
else it has accepted: weaken that check, and money is made or lost on them.
The proof goes by induction along the chain (`ChainMoney`): a block's fees are what its
transactions take in less what they give out, its reward is fees and subsidy,
a list without repetition is worth what its set is (`WorthIsTotal`), and with
each piece made and spent once the sums of sets are sums of their parts.
`DepthGrows` rests on the confirmed chain keeping its lower part while it is not abandoned
(`ChainPrefix`).

### The network (`NetworkProofs`)

Three invariants are inductive.  `NetInv`: the types, `PoolInv` and the order of the
transactions of each hub, and every peer in a table is linked.  It is all that
`NetworkTypeCorrect` and `RequestsOnTheirWay` need.  `Sources`, under `NetInv`, says
where blocks come from: an unconfirmed block and a block in an answer have been
accepted by a linked node, and what is still to be mined has been accepted by
nobody.  Without it a hub could accept out of its orphans a block that no other
node has accepted, which `Gossip` forbids.  `Flight`, under both, says that what is in
a stream is true (`Truthful`): who announces or sends something has it, or a valid block
has collected it; and who is asked for a block has it.  That is why the first hub
to stop can only have been asked for a collected transaction; once one hub has stopped,
others may stop at a failing write.

Every step of a hub has the shape "a handler returns a result, `Handle` applies it". So
each handler is described once, by what it asks and answers (`AskOutcome`) and by the
blocks it accepts, keeps and sends (`BlockOutcome`); `Handle` is described once, by what
it does to the streams (`Effect`), in both its forms, also with a broadcast half done;
what it says to others is true (`Says`); and each invariant is shown from these, not from
the handlers.

| Theorem | Statement |
|---|---|
| `NetworkTypeCorrect` | `Spec => []TypeOK` |
| `RequestsOnTheirWay` | `Spec => []AskedIsOnItsWay` |
| `NetworkImplementsGossip` | `Spec => ImplementsGossip` |
| `FirstStop` | `Spec => [](AllAgree => FirstStopIsForMined)`, where `AllAgree` is `AgreeOnAdjustments` of each hub |

### The miner (`MinerProofs`)

The steps of `MinerSpec` are steps of `PeerHub`, but for the wallet's transactions, which need
not be `GossipTxn`; so `IInv` holds here too.  `MInv` follows a block of the miner from
the first question on: the block it builds on is valid; the adjustment time it was
answered is that of *some* valid block a period below, looked up on whatever chain led then,
so it is the right one unless that block has a rival; what it submits extends a valid
block and is judged at once (`SubmittedIsJudged`).  `Reasoned` says of every invalid
block, mined here or not, why it is invalid: it came early, its parent is invalid, or it does
not extend its chain, or its adjustment block has a rival.  No valid block is later than
the clock (`InTime`), so no template is earlier than its parent.

| Theorem | Statement |
|---|---|
| `MinedFailOnlyByInputs` | `MinerSpec => []MinedFailsOnlyByInputs`, if the clock has passed genesis' fixed date when the hub starts |

TLC has checked `MInv` on the instance of `mining`.  Here `AgreeOnAdjustments` does not
hold, and the theorem does not ask for it: it speaks of each block's own rival.

### Transfers (`TransfersProofs`)

For every `Width`, every two builds and sequences of any length.  A sum in either build is
the exact sum where that fits, and panics (or is some u64) where it does not (`SumIs`,
by induction over prefixes: amounts are not negative, so a sum that fits in the end has fitted
all along).  The invariant adds to the types what the wallet has (`WalletInv`:
its own cash, and without the last piece not enough) and what the miner has
(`MinerInv`: a reward that its own build has computed from the fees).

| Theorem | Statement |
|---|---|
| `TypesCorrect` | amounts stay u64s at every step |
| `MovesExactly`, `TakesNoneTooMany`, `RefusedIfEmpty` | `TransferIsExact`, `ChangeIsLessThanLast`, `RefusedOnlyIfEmpty`: the wallet's transfer |
| `RewardsAlwaysAgree`, `PanicsOverOverflow` | `RewardsAgree`, `ValidatorPanicsOnOverflow`: a miner's and a validator's build |

### Connections and the life of a node (`SupervisionProofs`)

`ConnInv` is `KeptHasReader` (as `ReadOrGone`, whose reasons include a message that did
not decode) with the types and two facts that make
it inductive: only an end that has been handled is in a table (`KeptHandled`), and
the listening end has not begun before the dialing one is allowed to
(`DialedFirst`).  All steps but `Connect` and `NewPeer` *fade* (`Fades`): nothing comes
into a table, no stream comes to life, and a reader that ends has its reason.  One
lemma shows that fading keeps `ConnInv`; the two other steps are shown on their own.

| Theorem | Statement |
|---|---|
| `SupervisionTypeCorrect` | `RunSpec => []TypeOK` |
| `KeptAreRead` | `RunSpec => []KeptHasReader` |

### Which connection is kept (`LinkProofs`)

`LinkInv` is about the two connections a pair of nodes may make: `c` *wins* if the
listener has accepted it and the smaller id dialed it, or the other one has not been
accepted.  A node of a running pair whose end of the winner has been handled keeps it
(`WinnerKept`).  It rests on what the tables may hold (`TableMade`, `OwnTable`,
`FoundOnly`), on a dialer being past the handshake only with a connection that was made
(`DialedMade`), on the listener's and the subscriber's loops having one connection in hand
each (`OneAtATime`, `OneDialed`), and on a stream being opened to a listener that waits
for it (`Awaited`): that is why a task that a duplicate ends takes no winner with it that
it had not handled.  The invariant is kept by failing handlers and messages that do not
decode: they empty the table of a hub that has stopped, or end a reader.  All steps but
`Connect` and `NewPeer` are *quiet* (`Quiet`), which keeps `LinkInv` by one lemma; that
the hub refuses no winner and replaces none are `RefusedLoses` and `ReplacedLoses`.  For
the last theorem, `Lasting` says that without duplicates, drops, losses, failing handlers
and messages that do not decode (`Calm`) no connection that was made ends.

| Theorem | Statement |
|---|---|
| `SmallerIdIsKept` | `RunSpec => [](lost = {} => SmallerIdKept)` |
| `SameConnectionKept` | `RunSpec => [](lost = {} => SameConnection)` |
| `EndsOnlyByDuplicates` | `RunSpec => []EndsStartWithDuplicate` |

All three assume `RoomForAll`: the nodes that a node finds or is found by are fewer than
`PeerSizeLimit` (which is 3), however many nodes there are, so that its table is never
full.  Without it the theorems are false (see 6).  The behaviours of `Connections!Spec`, which
`linking` checks, are those of `RunSpec` in which no handle is polled or dropped.

`LeadingIsHighest`, `PoolsDisjoint` and `AskedOrHeld` of `PeerHub`, and `TypeOK` of
`Network` and `Connections`, are proved and not in a run of their own: each is a part of an
invariant that the runs check more of.

## 5. What is only model-checked

* Liveness (`SoundBecomeValid`, `OrphansAreCompleted`, `BlocksSpread`,
  `TransactionsSpread`, `LinkedInTheEnd`, `AwaitEnds`, `DropIsNoticed`,
  `OnlyUnspendableStopsMining`): the proof system does not do ENABLED and fairness.

All safety properties of the passing runs are proved, those named above under a hypothesis
with it.  `HubStopsForReason` is proved for `PeerHub`; that it holds in `Miner` too, where
the wallet's transactions need not be `GossipTxn`, is checked by `mining`. On a tree whose
branches disagree about an adjustment block `HubStopsOnlyForMined`, `FirstStopIsForMined`,
`SoundAreNotRejected` and `HighestSoundLeads` do not hold, and `ValidAreWellFormed` does
not with any of the three findings, of which it names the double spend itself: `v2` is in
`spending`.  `w2` and `e3` (double spend by two transactions, cash of another branch) and
the branch `c2..c4` (adjustment block of its own) are kept out of the trees of the passing
runs and are the subject of `double_spend`, `foreign_cash` and `fork_difficulty`.

## 6. Where code and text disagree

| Run | The repository says | The run shows |
|---|---|---|
| `double_spend` | double spending is "postponed to block validation" (`transaction.rs:130-131`) | Inputs are looked up but not taken out, so two transactions of one block may spend the same cash, and one may name it twice in its list of inputs, where it counts twice in the fee. |
| `foreign_cash` | "are transactions' UTOs valid?" (`block.rs:55`) | `cash_set.block_id` is never assigned after genesis, so no block is ever undone and cash of abandoned branches stays. |
| `fork_difficulty` | the test `leading_block_with_forks` (`lib.rs:154-211`) expects the longer fork to lead | The adjustment block is looked up in the leading chain, so a longer fork with one of its own is rejected for ever. |
| `dense` | "setup dense nodes successfully" (the test `connect_to_peers`, `lib.rs:64-74`) | A dialer that is refused a duplicate drops the connection before the listener has accepted its stream; the error ends the listener (`new_peer_watcher.rs:113`), and others cannot reach the node any more. |

Further places where the text says more than the code does, without a run of their own:

* "We broadcast when we do have the data." (`peerhub.rs:653`): a block can take an
  announced transaction out of the mempool before a peer asks for it; the request then
  fails and stops the hub.  `HubStopsOnlyForMined` and `FirstStopIsForMined` say that this
  is the only way where branches agree about adjustment blocks, `HubStopsForReason` that
  there is one more where they do not; and the liveness properties of `network` have to
  except networks in which a hub has stopped.
* "Request the missing block." (`peerhub.rs:733`): `block_root` returns its argument when
  its walk ends at a missing block, so an orphan whose parent is itself an orphan
  makes the hub ask for that parent, which it has.  The chain is completed all the same
  (`OrphansAreCompleted`), by the answers to the requests before.
* "Remove all blocks that are based on this block." (`:253`), "If ambiguous, throw it into
  unconfirmed pool." (`:299`): blocks found invalid with their parent stay in
  `unconfirmed_blocks`, and a child that arrives after its parent was found invalid
  waits for ever.
* "Current unspent cash set." (`:97`): `QueryLeadingCashSet` answers with cash of
  abandoned branches too, for the reason `foreign_cash` shows.
* "duplicate connection. smaller id should be actively connecting." (`:636`): the limit is
  checked before a duplicate is recognized (`:622`), so in a full table the better
  stream is refused, and the two ends can keep different connections.  Entries of nodes
  that are gone count towards the limit, until a send to one of them stops the hub.
* "timeout mining the first block after submitting transactions" (the test
  `test_single_node`, `bin/miner.rs:160`): a transfer whose cash a block has spent in the
  meantime stays in the mempool (`peerhub.rs:262` removes collected transactions only)
  and in each template, and every block mined from then on is invalid.
  `OnlyUnspendableStopsMining` says that nothing else stops the miner while its hub runs;
  the hub may stop under it, and `HubStopsForReason` says why.

And some behaviour that no text speaks of:

* The span at an adjustment is a subtraction whose subtrahend comes from the leading
  chain (`peerhub.rs:334`): a sound but older fork that arrives there stops the hub of a
  build with overflow checks, and is compared with an absurd span in one without.
* A `HubHandle` that finds one of its tasks ended polls that `JoinHandle` again the next
  time, which panics (`config.rs:204`), unless both had ended by then; and a hub that has
  stopped leaves whoever awaits the handle waiting until subscriber and listener notice.
* Sixteen rewards of 2^60 exceed a u64: a wallet that owns them panics, or computes a
  wrapped sum, as soon as a transfer needs them.
* Without overflow checks a transfer whose amount and fee exceed a u64 together is
  made for the wrapped sum (`TransferIsExact` says when it is exact), and a
  transaction whose outputs wrap passes the comparison with its inputs.

The miner sorts by fee and takes the *first* ids (`bin/miner.rs:34-37`), so the
lowest fees are mined first; the model does the same.

`CashSetBounds` says how far the cash set can be wrong: it never misses
cash that is unspent on the block's chain, and never holds cash spent on it.

## 7. What is not modelled, and why

* **Hashes, signatures, nonces, encoding.**  Ids are collision free, and a block or
  transaction that fails these checks does not deserialize, so it never
  reaches the hub.  Of the signature, `Transfers` keeps who signed.
* **Integer widths** outside `Arithmetic` and `Transfers`: sums and spans are unbounded
  there.  The one subtraction whose underflow depends on the hub's state, the span of the
  last period, is modelled as it behaves with overflow checks (`SpanUnderflows`).
* **`debug_assert_ne!`** is modelled as in a build with debug assertions.
* **The mailbox** of an actor is not separate from the streams: a message that a reader has
  cast and the hub has not taken is one not yet read.  Both keep the order of one
  sender, and neither that of several.
* **Streams** are iroh's.  `Connections` assumes of them what the code relies on: a
  reader whose far end dropped its send stream gets an error, a write whose far end
  dropped its receive stream may fail, and dropping every handle of a connection
  closes it.  In `PeerHub` a send to a peer in the table succeeds; in `Network` it may
  fail once the target has stopped; messages are not lost in between, since a
  stream is reliable until it ends.
* **Which of two connections** carries the messages of a link: `Network` has links,
  `Connections` has no messages.  Their composition would multiply the states of both.
* **A node that starts again** has a new key and no memory, so it is another node; nothing
  is stored on disk.
* **Queries** that copy a field have no protocol state.
* **An answer nobody waits for.**  `reply.send(..)?` in the query handlers (`peerhub.rs:797`
  and the like) fails when the caller has gone, which would end the hub.  The callers are the
  miner and the wallet, which wait for the answer for as long as their hub runs; only tests
  put a timeout around them.
* **Test utilities** (`test_util.rs`) and the tests in `lib.rs` and `bin/`: what they expect is
  cited at the properties.

## 8. What is left

1. `CashSetBounds` chain by chain, as `OnlyFindingsMalformed` and `MoneyConserved` are:
   the hypotheses of `CashSetBounded` are about all valid blocks.
2. The safety part of liveness: that each step that fairness promises brings what waits
   nearer (a measure that goes down), so that only the last, temporal step is left to TLC.
3. Type correctness of `Miner`'s lists of transactions.
4. `Miner` on a node of `Network`: a peer's branch that comes from another miner, with
   the delays of gossip, instead of from the environment.
5. Larger instances of `network`: two transactions that spend the same cash at two nodes, and
   four nodes in a ring.
