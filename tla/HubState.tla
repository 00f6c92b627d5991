------------------------------ MODULE HubState ------------------------------
(***************************************************************************)
(* PeerHubActorState (peerhub.rs): the state of one hub as a record, its   *)
(* methods as operators from a hub to a hub, and the messages hubs         *)
(* exchange.  The module has no variables: PeerHub uses it for one hub in  *)
(* an open environment, and a network of hubs can use it once per node.    *)
(*                                                                         *)
(* add_valid_block and validate_block call each other: adding a block      *)
(* validates the blocks that waited for it, which adds blocks, and so on   *)
(* depth first, each loop in the order of a HashSet.  Here the recursion   *)
(* is unrolled.  `pending` says which blocks the running loops have still  *)
(* to visit and how deeply nested their loop is, and each call of          *)
(* ValidateBlock is one step of the handler.  The actor takes its next     *)
(* message when no block is pending and `valid_ids`, the result under      *)
(* construction, has been broadcast.                                       *)
(*                                                                         *)
(* `running` is FALSE once the actor has stopped: a handler that returns   *)
(* Err, or panics, ends it (that is what ractor does with a failed actor). *)
(***************************************************************************)
EXTENDS Ledger

CONSTANTS
  Node,             \* the other nodes
  NoNode,           \* the sender of a block mined by this node
  PeerSizeLimit     \* PEER_SIZE_LIMIT

ASSUME NodeAssumption == NoNode \notin Node /\ PeerSizeLimit \in Nat

Hub ==
  [cash_set : SUBSET Cash,
   peers : SUBSET Node,
   annoucements : SUBSET TxnId,
   mempool : SUBSET TxnId,
   valid_blocks : SUBSET BlockId,
   unconfirmed_blocks : SUBSET BlockId,
   invalid_blocks : SUBSET BlockId,
   next_blocks : [BlockId -> SUBSET BlockId],
   leading_block : BlockId,
   pending : [BlockId -> Nat],
   valid_ids : Seq(BlockId),
   running : BOOLEAN]

NewHub ==
  [cash_set |-> {},
   peers |-> {},
   annoucements |-> {},
   mempool |-> {},
   valid_blocks |-> {Genesis},
   unconfirmed_blocks |-> {},
   invalid_blocks |-> {},
   next_blocks |-> [b \in BlockId |-> {}],
   leading_block |-> Genesis,
   pending |-> [b \in BlockId |-> 0],
   valid_ids |-> <<>>,
   running |-> TRUE]

\* The actor is between two messages.
Idle(h) == h.running /\ h.valid_ids = <<>>

Stop(h) == [h EXCEPT !.running = FALSE]

-----------------------------------------------------------------------------
(***************************************************************************)
(* Messages on the wire, and what a handler does to the hub and sends.     *)
(***************************************************************************)
Message ==
  [type : {"AnnounceBlock", "GetBlockRequest", "GetBlockResponse"}, id : BlockId]
    \cup
  [type : {"AnnounceTransaction", "GetTransactionRequest",
           "GetTransactionResponse"}, id : TxnId]

Outbox == [Node -> Seq(Message)]
Silence == [n \in Node |-> <<>>]

Done(h) == [hub |-> h, sent |-> Silence]
Fail(h) == Done(Stop(h))

\* `send_to_peer`: an error, which ends the actor, when the node is no peer.
SendToPeer(h, n, msg) ==
  IF n \in h.peers
  THEN [hub |-> h, sent |-> [Silence EXCEPT ![n] = <<msg>>]]
  ELSE Fail(h)

\* `broadcast` of messages one after the other to every peer.
Broadcast(h, msgs) ==
  [hub |-> h, sent |-> [n \in Node |-> IF n \in h.peers THEN msgs ELSE <<>>]]

-----------------------------------------------------------------------------
(***************************************************************************)
(* Chains in the pool of valid blocks.                                     *)
(***************************************************************************)

\* `ancestors_id`, reversed: the valid blocks from the first ancestor to b.
Ancestry(h, b) ==
  LET walk[x \in BlockId \cup {NoBlock}] ==
        IF x \in h.valid_blocks THEN Append(walk[Prev(x)], x) ELSE <<>>
  IN walk[b]

\* `confirmed_chain`: each block on the way from the leading block is written
\* to the slot of its own seqno, in a slice of the leading seqno + 1 slots
\* that starts uninitialized.
ConfirmedChain(h) ==
  LET path == Ancestry(h, h.leading_block)
  IN [s \in 0 .. Seqno(h.leading_block) |->
        path[CHOOSE i \in DOMAIN path : Seqno(path[i]) = s]]

\* `prev_difficulty_adjusted_block`: looked up on the chain of the LEADING
\* block, whichever chain the block being validated extends.
PrevAdjustedBlock(h, seqno) == ConfirmedChain(h)[seqno - RewindNumber(seqno)]

\* Variants of CashSetAt: spent cash stays, and only the block itself is
\* replayed.
CashSetAt_KeepsSpent(h, b) ==
  h.cash_set \cup UNION {Leaves(x) : x \in {y \in h.valid_blocks :
                           \E i \in DOMAIN Ancestry(h, b) : Ancestry(h, b)[i] = y}}
CashSetAt_OneBlock(h, b) == (h.cash_set \ Spends(b)) \cup Leaves(b)

\* `cash_set_at`.  The block_id of a CashSet is set to genesis when it is made
\* and never assigned again, so the common ancestor is always genesis, nothing
\* is rewound, and the chain to b is replayed from genesis on top of whatever
\* the set held, b itself twice (it is pushed after its own ancestors).
CashSetAt(h, b) ==
  LET path == Append(Ancestry(h, b), b)
  IN {c \in Cash :
        \/ \E i \in DOMAIN path :
             /\ c \in Leaves(path[i])
             /\ \A j \in DOMAIN path : j > i => c \notin Spends(path[j])
        \/ /\ c \in h.cash_set
           /\ \A i \in DOMAIN path : c \notin Spends(path[i])}

\* Variant of TransactionDepth: the position of the block, not its depth.
TransactionDepth_Position(h, t) ==
  LET holding == {s \in 0 .. Seqno(h.leading_block) :
                    t \in Transactions(ConfirmedChain(h)[s])}
  IN IF holding = {} THEN -1 ELSE CHOOSE s \in holding : \A r \in holding : s <= r

\* `transaction_depth` in the confirmed chain: the number of blocks above the
\* first one that holds t, -1 when none does.
TransactionDepth(h, t) ==
  LET top == Seqno(h.leading_block)
      holding == {s \in 0 .. top : t \in Transactions(ConfirmedChain(h)[s])}
  IN IF holding = {} THEN -1
     ELSE top - (CHOOSE s \in holding : \A r \in holding : s <= r)

-----------------------------------------------------------------------------
(***************************************************************************)
(* The pools of blocks.                                                    *)
(***************************************************************************)
KnowsBlock(h, b) ==
  \/ b \in h.valid_blocks
  \/ b \in h.unconfirmed_blocks
  \/ b \in h.invalid_blocks

\* `block_root`: walks down the unconfirmed blocks.  When the walk ends at a
\* missing block it is the ARGUMENT that is returned.
BlockRoot(h, b) ==
  LET end[x \in BlockId] ==
        IF x = Genesis \/ x \notin h.unconfirmed_blocks THEN x ELSE end[Prev(x)]
  IN IF end[b] = Genesis THEN Genesis ELSE b

\* b and every block that waits for it, directly or not: the least set that
\* holds b and what waits under its members.
WaitingOn(h, b) ==
  LET waiting == {b} \cup UNION {h.next_blocks[p] : p \in BlockId}
  IN {x \in waiting :
        \A S \in SUBSET waiting :
          (b \in S /\ \A y \in S : h.next_blocks[y] \subseteq S) => x \in S}

\* Variants of AddInvalidBlock: the blocks that wait for b are left waiting, and
\* b itself is not recorded.
AddInvalidBlock_Shallow(h, b) == [h EXCEPT !.invalid_blocks = @ \cup {b}]
AddInvalidBlock_Unrecorded(h, b) ==
  [h EXCEPT !.invalid_blocks = @ \cup (WaitingOn(h, b) \ {b})]

\* `add_invalid_block`.  The blocks that waited stay in the unconfirmed pool.
AddInvalidBlock(h, b) ==
  LET doomed == WaitingOn(h, b)
  IN [h EXCEPT
        !.invalid_blocks = @ \cup doomed,
        !.next_blocks = [p \in BlockId |-> IF p \in doomed THEN {} ELSE @[p]]]

\* Variants of AddValidBlock: a block leads already on a tie; the blocks waiting
\* for b are forgotten, or every waiting block is tried; a nested result replaces
\* the result it belongs to, or only a new leader is announced; the mempool is
\* emptied.
AddValidBlock_Base(h, b, depth, lead, ids, pool, next) ==
  [h EXCEPT
     !.mempool = @ \ pool,
     !.valid_blocks = @ \cup {b},
     !.leading_block = IF lead THEN b ELSE @,
     !.valid_ids = ids,
     !.next_blocks[b] = {},
     !.pending = [x \in BlockId |-> IF x \in next THEN depth + 1 ELSE @[x]]]
Higher(h, b) == Seqno(b) > Seqno(h.leading_block)
AddValidBlock_TieLeads(h, b, depth) ==
  AddValidBlock_Base(h, b, depth, Seqno(b) >= Seqno(h.leading_block),
                     Append(h.valid_ids, b), Transactions(b), h.next_blocks[b])
AddValidBlock_ForgetsWaiters(h, b, depth) ==
  AddValidBlock_Base(h, b, depth, Higher(h, b), Append(h.valid_ids, b),
                     Transactions(b), {})
AddValidBlock_TriesAll(h, b, depth) ==
  AddValidBlock_Base(h, b, depth, Higher(h, b), Append(h.valid_ids, b),
                     Transactions(b), h.unconfirmed_blocks)
AddValidBlock_LastResult(h, b, depth) ==
  AddValidBlock_Base(h, b, depth, Higher(h, b), <<b>>,
                     Transactions(b), h.next_blocks[b])
AddValidBlock_AnnouncesLeader(h, b, depth) ==
  AddValidBlock_Base(h, b, depth, Higher(h, b),
                     IF Higher(h, b) THEN Append(h.valid_ids, b) ELSE h.valid_ids,
                     Transactions(b), h.next_blocks[b])
AddValidBlock_EmptiesMempool(h, b, depth) ==
  AddValidBlock_Base(h, b, depth, Higher(h, b), Append(h.valid_ids, b),
                     TxnId, h.next_blocks[b])

\* `add_valid_block`, called `depth` loops deep, up to its loop over the
\* blocks that waited for b: those become pending one loop deeper.
AddValidBlock(h, b, depth) ==
  [h EXCEPT
     !.mempool = @ \ Transactions(b),
     !.valid_blocks = @ \cup {b},
     !.leading_block = IF Seqno(b) > Seqno(@) THEN b ELSE @,
     !.valid_ids = Append(@, b),
     !.next_blocks[b] = {},
     !.pending = [x \in BlockId |->
                    IF x \in h.next_blocks[b] THEN depth + 1 ELSE @[x]]]

\* Variant of AddUnconfirmedBlock: a parent has room for one waiter.
AddUnconfirmedBlock_OneWaiter(h, b) ==
  [h EXCEPT
     !.next_blocks[Prev(b)] = {b},
     !.unconfirmed_blocks = @ \cup {b}]

\* The parent is missing: wait for it.
AddUnconfirmedBlock(h, b) ==
  [h EXCEPT
     !.next_blocks[Prev(b)] = @ \cup {b},
     !.unconfirmed_blocks = @ \cup {b}]

\* The u128 subtraction that measures the last period overflows, which panics
\* in a build with overflow checks.
SpanUnderflows(h, b) ==
  /\ IsAdjustment(Seqno(b))
  /\ Timestamp(b) < Timestamp(PrevAdjustedBlock(h, Seqno(b)))

\* Variant of ExpectedDifficulty: the period is taken to end at the parent.
ExpectedDifficulty_ToParent(h, b) ==
  IF IsAdjustment(Seqno(b))
  THEN AdjustWithActualSpan(
         Block[Prev(b)].difficulty,
         Timestamp(Prev(b)) - Timestamp(PrevAdjustedBlock(h, Seqno(b))))
  ELSE Block[Prev(b)].difficulty

ExpectedDifficulty(h, b) ==
  IF IsAdjustment(Seqno(b))
  THEN AdjustWithActualSpan(
         Block[Prev(b)].difficulty,
         Timestamp(b) - Timestamp(PrevAdjustedBlock(h, Seqno(b))))
  ELSE Block[Prev(b)].difficulty

\* Variant of InputsAvailable: the inputs are not looked at.
InputsAvailable_Unchecked(h, b) == TRUE

\* Every input is in the cash set; no input is taken out of it meanwhile.
InputsAvailable(h, b) == Spends(b) \subseteq h.cash_set

\* Variant of RewardIsRight: a bound where the code wants equality.
RewardIsRight_AtLeast(b) == Amount[Block[b].reward] >= Fees(b) + Subsidy(Seqno(b))

RewardIsRight(b) == Amount[Block[b].reward] = Fees(b) + Subsidy(Seqno(b))

\* Variant of ValidateBlock: a child of a valid block is not checked at all.
ValidateBlock_AnyChild(h, b, depth) ==
  IF Prev(b) \in h.valid_blocks THEN AddValidBlock(h, b, depth)
  ELSE AddUnconfirmedBlock(h, b)

\* `validate_block`: the checks in the order of the code.
ValidateBlock(h, b, depth) ==
  IF Prev(b) \notin h.valid_blocks THEN AddUnconfirmedBlock(h, b)
  ELSE IF ~FollowsParent(b) THEN AddInvalidBlock(h, b)
  ELSE IF SpanUnderflows(h, b) THEN Stop(h)
  ELSE IF Block[b].difficulty # ExpectedDifficulty(h, b) THEN AddInvalidBlock(h, b)
  ELSE LET g == [h EXCEPT !.cash_set = CashSetAt(h, Prev(b))]
       IN IF InputsAvailable(g, b) /\ RewardIsRight(b)
          THEN AddValidBlock(g, b, depth)
          ELSE AddInvalidBlock(g, b)

-----------------------------------------------------------------------------
(***************************************************************************)
(* The handlers of PeerHubActor, and the steps of the NewBlock handler.    *)
(***************************************************************************)

\* The next block of the innermost loop that still has one.
IsNextPending(h, b) ==
  h.pending[b] > 0 /\ \A x \in BlockId : h.pending[x] <= h.pending[b]

\* One turn of the loop of add_valid_block.
ValidatePending(h, b) ==
  LET g == [h EXCEPT !.pending[b] = 0]
  IN IF b \in h.unconfirmed_blocks
     THEN ValidateBlock([g EXCEPT !.unconfirmed_blocks = @ \ {b}], b, h.pending[b])
     ELSE g

\* Variant of HandleNewBlock: a block dated now counts as early.
HandleNewBlock_StrictClock(h, from, b, now) ==
  IF KnowsBlock(h, b) THEN Done(h)
  ELSE IF Timestamp(b) >= now THEN Done(AddInvalidBlock(h, b))
  ELSE Done(ValidateBlock(h, b, 0))

HandleNewBlock(h, from, b, now) ==
  IF KnowsBlock(h, b) THEN Done(h)
  ELSE IF Timestamp(b) > now THEN Done(AddInvalidBlock(h, b))
  ELSE LET g == ValidateBlock(h, b, 0)
           missing_root == BlockRoot(g, Prev(b))
       IN IF b \notin g.unconfirmed_blocks THEN Done(g)
          ELSE IF missing_root = Genesis THEN Fail(g)     \* the debug_assert_ne!
          ELSE IF from = NoNode THEN Done(g)
          ELSE SendToPeer(g, from, [type |-> "GetBlockRequest", id |-> missing_root])

\* The end of the NewBlock handler: announce what became valid, in order.
AnnounceValid(h) ==
  Broadcast([h EXCEPT !.valid_ids = <<>>],
            [i \in DOMAIN h.valid_ids |->
               [type |-> "AnnounceBlock", id |-> h.valid_ids[i]]])

HandleAnnounceBlock(h, from, b) ==
  IF KnowsBlock(h, b) THEN Done(h)
  ELSE SendToPeer(h, from, [type |-> "GetBlockRequest", id |-> b])

HandleGetBlock(h, from, b) ==
  IF b \in h.valid_blocks
  THEN SendToPeer(h, from, [type |-> "GetBlockResponse", id |-> b])
  ELSE Fail(h)

\* Variant of HandleAnnounceTransaction: records who announced, not what.
HandleAnnounceTransaction_Announcer(h, from, t) ==
  IF t \in h.mempool \cup h.annoucements THEN Done(h)
  ELSE SendToPeer([h EXCEPT !.annoucements = @ \cup {from}], from,
                  [type |-> "GetTransactionRequest", id |-> t])

HandleAnnounceTransaction(h, from, t) ==
  IF t \in h.mempool \cup h.annoucements THEN Done(h)
  ELSE SendToPeer([h EXCEPT !.annoucements = @ \cup {t}], from,
                  [type |-> "GetTransactionRequest", id |-> t])

\* Variants of HandleNewTransaction: the announcement stays recorded; the
\* transaction is announced without being kept; and only a user's is announced.
HandleNewTransaction_OwnOnly(h, t) ==
  IF t \in h.mempool THEN Done(h)
  ELSE IF t \in h.annoucements
       THEN Done([h EXCEPT !.mempool = @ \cup {t}, !.annoucements = @ \ {t}])
       ELSE Broadcast([h EXCEPT !.mempool = @ \cup {t}],
                      <<[type |-> "AnnounceTransaction", id |-> t]>>)
HandleNewTransaction_KeepsAnnouncement(h, t) ==
  IF t \in h.mempool THEN Done(h)
  ELSE Broadcast([h EXCEPT !.mempool = @ \cup {t}],
                 <<[type |-> "AnnounceTransaction", id |-> t]>>)
HandleNewTransaction_NotKept(h, t) ==
  IF t \in h.mempool THEN Done(h)
  ELSE Broadcast([h EXCEPT !.annoucements = @ \ {t}],
                 <<[type |-> "AnnounceTransaction", id |-> t]>>)

HandleNewTransaction(h, t) ==
  IF t \in h.mempool THEN Done(h)
  ELSE Broadcast([h EXCEPT !.mempool = @ \cup {t}, !.annoucements = @ \ {t}],
                 <<[type |-> "AnnounceTransaction", id |-> t]>>)

HandleGetTransaction(h, from, t) ==
  IF t \in h.mempool
  THEN SendToPeer(h, from, [type |-> "GetTransactionResponse", id |-> t])
  ELSE Fail(h)

\* Asking for the leading cash set moves the set.  The answer fails only when the caller
\* has gone without it, and callers await it: they end with their hub or after it.
HandleQueryLeadingCashSet(h) ==
  Done([h EXCEPT !.cash_set = CashSetAt(h, h.leading_block)])

\* A node already in the table keeps its place, whichever stream is kept.
HandleNewPeer(h, n) ==
  IF Cardinality(h.peers) >= PeerSizeLimit THEN Done(h)
  ELSE Done([h EXCEPT !.peers = @ \cup {n}])
-----------------------------------------------------------------------------
(***************************************************************************)
(* The invariant of the pools, in parts.                                   *)
(***************************************************************************)

\* Every valid block but genesis has a valid parent it follows.
FormsTree(h) ==
  /\ Genesis \in h.valid_blocks
  /\ \A b \in h.valid_blocks \ {Genesis} :
       Prev(b) \in h.valid_blocks /\ FollowsParent(b)

\* The leading block is a highest valid block.
HighestLeads(h) ==
  /\ h.leading_block \in h.valid_blocks
  /\ \A b \in h.valid_blocks : Seqno(b) <= Seqno(h.leading_block)

\* No block is valid and also waiting or invalid.
Separate(h) ==
  h.valid_blocks \cap (h.unconfirmed_blocks \cup h.invalid_blocks) = {}

\* next_blocks holds, under a parent that is not valid, unconfirmed blocks that
\* may still become valid; and each unconfirmed block is there, is pending in a
\* running loop, or has been found invalid.
Indexed(h) ==
  /\ \A p \in BlockId : \A b \in h.next_blocks[p] :
       /\ b \in h.unconfirmed_blocks /\ Prev(b) = p
       /\ b \notin h.invalid_blocks /\ h.pending[b] = 0
       /\ p \notin h.valid_blocks
  /\ \A b \in h.unconfirmed_blocks :
       \/ b \in h.next_blocks[Prev(b)]
       \/ h.pending[b] > 0
       \/ b \in h.invalid_blocks

\* A pending block is unconfirmed and its parent is valid.
PendingReady(h) ==
  \A b \in BlockId : h.pending[b] > 0 =>
    /\ b \in h.unconfirmed_blocks
    /\ b \notin h.invalid_blocks
    /\ Prev(b) \in h.valid_blocks

\* An unconfirmed block is invalid only because its parent is.
DoomedByParent(h) ==
  \A b \in h.unconfirmed_blocks \cap h.invalid_blocks : Prev(b) \in h.invalid_blocks

\* Blocks are pending only while there is a result to announce.
ResultOpen(h) == h.valid_ids = <<>> => \A b \in BlockId : h.pending[b] = 0

\* The block at which b's period began has a valid rival of its height: the hub
\* may have led, or lead now, to another adjustment block than that of b's chain.
Rival(h, b) ==
  /\ IsAdjustment(Seqno(b))
  /\ \E v \in h.valid_blocks :
       Seqno(v) = Seqno(b) - RewindNumber(Seqno(b)) /\ v \notin OnPath(b)

\* The hub may judge b against that rival.
Disputed(h, b) ==
  Prev(b) \in h.valid_blocks /\ FollowsParent(b) /\ Rival(h, b)

PoolInv(h) ==
  /\ FormsTree(h)
  /\ HighestLeads(h)
  /\ Separate(h)
  /\ Indexed(h)
  /\ PendingReady(h)
  /\ DoomedByParent(h)
  /\ ResultOpen(h)
=============================================================================
