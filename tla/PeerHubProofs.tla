---------------------------- MODULE PeerHubProofs ----------------------------
(***************************************************************************)
(* Theorems about one hub: its types, the invariant of its pools of blocks *)
(* (with every order of arrival and every nesting of the validation loops),*)
(* that verdicts are final, that it implements BlockTree, and what becomes *)
(* of transactions and announcements.                                      *)
(*                                                                         *)
(* The invariant is PoolInv of HubState together with TypeOK; HubProofs    *)
(* has a lemma for each method and handler.                                *)
(***************************************************************************)
EXTENDS PeerHub, HubProofs

-----------------------------------------------------------------------------
(***************************************************************************)
(* The invariant.                                                          *)
(***************************************************************************)
IInv == TypeOK /\ PoolInv(hub)

LEMMA InitInOrder == Init => IInv
<1> SUFFICES ASSUME Init PROVE IInv
  OBVIOUS
<1> QED
  BY NewHubInOrder, SilenceType, EnvironmentAssumption DEF Init, IInv, TypeOK

\* The hub takes the result of a handler.
LEMMA TakeInOrder ==
  ASSUME NEW result, InOrder(result), Take(result)
  PROVE  hub' \in Hub /\ PoolInv(hub') /\ sent' \in Outbox
BY DEF InOrder, Take

\* Every step keeps the invariant: the lemma of its handler, and what the step
\* does to the other variables.
LEMMA StepInOrder == IInv /\ [Next]_vars => IInv'
<1> SUFFICES ASSUME IInv, [Next]_vars PROVE IInv'
  OBVIOUS
<1>1. /\ hub \in Hub /\ PoolInv(hub) /\ sent \in Outbox
      /\ announced \in SUBSET (BlockId \cup TxnId)
      /\ now \in StartTime .. MaxTime
      /\ hub.peers \subseteq Node
      /\ GossipTxn \subseteq TxnId
  BY EnvironmentAssumption DEF IInv, TypeOK, Hub
<1>2. ASSUME NEW result, InOrder(result), Take(result),
             announced' \in SUBSET (BlockId \cup TxnId)
      PROVE  IInv'
  BY <1>1, <1>2, TakeInOrder DEF Take, IInv, TypeOK
<1>3. CASE \E n \in Node : NewPeer(n)
  BY <1>1, <1>2, <1>3, HubHandlersInOrder DEF NewPeer
<1>4. CASE \E b \in BlockId : DeliverBlock(b)
  BY <1>1, <1>2, <1>4, NewBlockInOrder DEF DeliverBlock, NewBlock
<1>5. CASE \E b \in BlockId : ValidateNext(b)
  <2>1. PICK b \in BlockId : ValidateNext(b)
    BY <1>5
  <2>2. hub.pending[b] > 0
    BY <2>1 DEF ValidateNext, IsNextPending
  <2>3. InOrder(Done(ValidatePending(hub, b)))
    BY <1>1, <2>2, ValidatePendingKeepsPools, DoneInOrder
  <2> QED  BY <1>1, <1>2, <2>1, <2>3 DEF ValidateNext
<1>6. CASE Announce
  <2>1. InOrder(AnnounceValid(hub))
    BY <1>1, <1>6, AnnounceInOrder DEF Announce
  <2>2. Ids(hub.valid_ids) \subseteq BlockId
    BY <1>1 DEF Ids, Hub
  <2> QED  BY <1>1, <1>2, <1>6, <2>1, <2>2 DEF Announce
<1>7. CASE \E n \in hub.peers, b \in BlockId : AnnounceBlock(n, b) \/ GetBlock(n, b)
  BY <1>1, <1>2, <1>7, BlockHandlersInOrder DEF AnnounceBlock, GetBlock
<1>8. CASE \E n \in hub.peers, t \in GossipTxn :
             AnnounceTransaction(n, t) \/ GetTransaction(n, t)
  BY <1>1, <1>2, <1>8, TransactionHandlersInOrder
     DEF AnnounceTransaction, GetTransaction
<1>9. CASE \E t \in GossipTxn : NewTransaction(t)
  BY <1>1, <1>2, <1>9, NewTransactionInOrder DEF NewTransaction
<1>10. CASE QueryLeadingCashSet
  BY <1>1, <1>2, <1>10, HubHandlersInOrder DEF QueryLeadingCashSet
<1>11. CASE Tick
  BY <1>1, <1>11, EnvironmentAssumption DEF Tick, IInv, TypeOK
<1>12. CASE UNCHANGED vars
  BY <1>1, <1>12 DEF vars, IInv, TypeOK
<1> QED
  BY <1>3, <1>4, <1>5, <1>6, <1>7, <1>8, <1>9, <1>10, <1>11, <1>12
     DEF Next, Handler

LEMMA AlwaysInOrder == Spec => []IInv
BY InitInOrder, StepInOrder, PTL DEF Spec

-----------------------------------------------------------------------------
(***************************************************************************)
(* Theorems.                                                               *)
(***************************************************************************)

\* Every reachable state is well typed: whatever blocks and messages arrive, the
\* hub's pools hold blocks, and what it sends is a message for a peer.
THEOREM TypeCorrect == Spec => []TypeOK
<1>1. IInv => TypeOK
  BY DEF IInv
<1> QED  BY <1>1, AlwaysInOrder, PTL

\* The valid blocks form a tree under genesis, each a proper child of its parent.
THEOREM ValidTree == Spec => []ValidBlocksFormTree
<1>1. IInv => ValidBlocksFormTree
  BY DEF IInv, PoolInv, ValidBlocksFormTree
<1> QED  BY <1>1, AlwaysInOrder, PTL

\* The leading block is a highest valid block, also between two steps of a
\* running NewBlock handler.
THEOREM LeaderIsHighest == Spec => []LeadingIsHighest
<1>1. IInv => LeadingIsHighest
  BY DEF IInv, PoolInv, LeadingIsHighest
<1> QED  BY <1>1, AlwaysInOrder, PTL

\* No block is valid and also unconfirmed or invalid.
THEOREM PoolsSeparate == Spec => []PoolsDisjoint
<1>1. IInv => PoolsDisjoint
  BY DEF IInv, PoolInv, PoolsDisjoint
<1> QED  BY <1>1, AlwaysInOrder, PTL

\* The index of waiting blocks is exact: whoever waits is found under its parent,
\* is pending in a running loop, or is invalid together with its parent.
THEOREM PoolsInOrder == Spec => []WaitersIndexed
<1>1. IInv => WaitersIndexed
  BY DEF IInv, PoolInv, WaitersIndexed
<1> QED  BY <1>1, AlwaysInOrder, PTL

\* validate_block is only called with what its comment asks for, however deeply
\* the loops of add_valid_block are nested.
THEOREM PreconditionsHold == Spec => []ValidatePreconditions
<1>1. IInv => ValidatePreconditions
  BY DEF IInv, PoolInv, ValidatePreconditions
<1> QED  BY <1>1, AlwaysInOrder, PTL

\* No lost wakeup: between two messages no unconfirmed block has a valid parent,
\* however deep the chain of orphans was that the last block released.
THEOREM NoLostWakeup == Spec => []NoStrandedBlock
<1>1. IInv => NoStrandedBlock
  <2> SUFFICES ASSUME IInv, Idle(hub), NEW b \in hub.unconfirmed_blocks,
                      Prev(b) \in hub.valid_blocks
               PROVE  FALSE
    BY DEF NoStrandedBlock
  <2>1. b \in BlockId /\ Prev(b) \in BlockId
    BY DEF IInv, TypeOK, Hub
  <2>2. hub.pending[b] = 0
    BY <2>1 DEF IInv, PoolInv, ResultOpen, Idle
  <2>3. b \notin hub.next_blocks[Prev(b)]
    BY <2>1 DEF IInv, PoolInv, Indexed
  <2>4. b \in hub.invalid_blocks
    BY <2>2, <2>3 DEF IInv, PoolInv, Indexed
  <2> QED  BY <2>4 DEF IInv, PoolInv, DoomedByParent, Separate
<1> QED  BY <1>1, AlwaysInOrder, PTL

\* The adjustment block of a child of any valid block, on whatever branch, is
\* looked up at an index of the confirmed chain.
THEOREM AdjustmentIndexed == Spec => []AdjustmentInRange
<1>1. IInv => AdjustmentInRange
  <2> SUFFICES ASSUME IInv, NEW b \in hub.valid_blocks
               PROVE  (Seqno(b) + 1) - RewindNumber(Seqno(b) + 1)
                        \in 0 .. Seqno(hub.leading_block)
    BY DEF AdjustmentInRange
  <2>1. /\ b \in BlockId /\ hub.leading_block \in BlockId
        /\ Seqno(b) <= Seqno(hub.leading_block)
    BY DEF IInv, TypeOK, Hub, PoolInv, HighestLeads
  <2>2. Seqno(b) \in Nat /\ Seqno(hub.leading_block) \in Nat
    BY <2>1, BlockAssumption DEF BlockInner, Seqno
  <2>3. RewindNumber(Seqno(b) + 1) \in 1 .. Seqno(b) + 1
    BY <2>2, RewindStaysOnChain
  <2> QED  BY <2>1, <2>2, <2>3
<1> QED  BY <1>1, AlwaysInOrder, PTL

\* Every step of the specification is such a step.
LEMMA StepIsBlockStep == IInv /\ [Next]_vars => BlockStep(hub, hub')
<1> SUFFICES ASSUME IInv, [Next]_vars PROVE BlockStep(hub, hub')
  OBVIOUS
<1>1. hub \in Hub /\ PoolInv(hub)
  BY DEF IInv, TypeOK
<1>2. CASE \E b \in BlockId : DeliverBlock(b)
  BY <1>1, <1>2, NewBlockStep DEF DeliverBlock, NewBlock, Take
<1>3. CASE \E b \in BlockId : ValidateNext(b)
  BY <1>1, <1>3, PendingStep DEF ValidateNext, IsNextPending, Take, Done
<1>4. ASSUME /\ hub'.valid_blocks = hub.valid_blocks
             /\ hub'.unconfirmed_blocks = hub.unconfirmed_blocks
             /\ hub'.invalid_blocks = hub.invalid_blocks
             /\ hub'.leading_block = hub.leading_block
      PROVE  BlockStep(hub, hub')
  BY <1>4, SameBlocksStep
<1>5. CASE Announce
  BY <1>1, <1>4, <1>5 DEF Announce, Take, AnnounceValid, Broadcast, Hub
<1>6. CASE \E n \in Node : NewPeer(n)
  BY <1>1, <1>4, <1>6 DEF NewPeer, Take, HandleNewPeer, Done, Hub
<1>7. CASE \E n \in hub.peers, b \in BlockId : AnnounceBlock(n, b) \/ GetBlock(n, b)
  BY <1>1, <1>4, <1>7
     DEF AnnounceBlock, GetBlock, Take, HandleAnnounceBlock, HandleGetBlock,
         SendToPeer, Done, Fail, Stop, Hub
<1>8. CASE \E n \in hub.peers, t \in GossipTxn : AnnounceTransaction(n, t)
  BY <1>1, <1>4, <1>8
     DEF AnnounceTransaction, Take, HandleAnnounceTransaction,
         SendToPeer, Done, Fail, Stop, Hub
<1>9. CASE \E n \in hub.peers, t \in GossipTxn : GetTransaction(n, t)
  BY <1>1, <1>4, <1>9
     DEF GetTransaction, Take, HandleGetTransaction, SendToPeer, Done, Fail, Stop, Hub
<1>10. CASE \E t \in GossipTxn : NewTransaction(t)
  BY <1>1, <1>4, <1>10
     DEF NewTransaction, Take, HandleNewTransaction, Broadcast, Done, Hub
<1>11. CASE QueryLeadingCashSet
  BY <1>1, <1>4, <1>11
     DEF QueryLeadingCashSet, Take, HandleQueryLeadingCashSet, Done, Hub
<1>12. CASE Tick \/ UNCHANGED vars
  BY <1>4, <1>12 DEF Tick, vars
<1> QED
  BY <1>2, <1>3, <1>5, <1>6, <1>7, <1>8, <1>9, <1>10, <1>11, <1>12 DEF Next, Handler

\* Verdicts are final: no step takes back a valid or an invalid block, and a
\* running hub forgets no block while validation moves it between the pools.
THEOREM FinalVerdicts == Spec => VerdictsAreFinal
<1>1. IInv /\ [Next]_vars =>
        [/\ hub.valid_blocks \subseteq hub'.valid_blocks
         /\ hub.invalid_blocks \subseteq hub'.invalid_blocks
         /\ hub'.running =>
              \A b \in BlockId : KnowsBlock(hub, b) => KnowsBlock(hub', b)]_vars
  BY StepIsBlockStep DEF BlockStep, VerdictStep
<1> QED  BY <1>1, AlwaysInOrder, PTL DEF Spec, VerdictsAreFinal

\* A step that finds a block invalid finds the blocks waiting for it invalid.
THEOREM InvalidationSpreads == Spec => InvalidationReachesWaiters
<1>1. IInv /\ [Next]_vars =>
        [\A b \in hub'.invalid_blocks \ hub.invalid_blocks :
           hub.next_blocks[b] \subseteq hub'.invalid_blocks]_vars
  BY StepIsBlockStep DEF BlockStep, VerdictStep
<1> QED  BY <1>1, AlwaysInOrder, PTL DEF Spec, InvalidationReachesWaiters

\* The hub implements BlockTree: whatever the order of arrival, it accepts one
\* block at a time, each after its parent, and changes its leading block only
\* for a strictly higher one.
THEOREM HubImplementsBlockTree == Spec => ImplementsBlockTree
<1>1. Init => Tree!Init
  BY DEF Init, NewHub, Tree!Init
<1>2. IInv /\ [Next]_vars => [Tree!Next]_<<hub.valid_blocks, hub.leading_block>>
  <2> SUFFICES ASSUME IInv, [Next]_vars,
                      ~UNCHANGED <<hub.valid_blocks, hub.leading_block>>
               PROVE  Tree!Next
    OBVIOUS
  <2>1. TreeStep(hub, hub')
    BY StepIsBlockStep DEF BlockStep
  <2>2. PICK b \in BlockId :
          /\ b \notin hub.valid_blocks /\ Prev(b) \in hub.valid_blocks
          /\ FollowsParent(b)
          /\ hub'.valid_blocks = hub.valid_blocks \cup {b}
          /\ hub'.leading_block = IF Seqno(b) > Seqno(hub.leading_block) THEN b
                                  ELSE hub.leading_block
    BY <2>1 DEF TreeStep
  <2>3. Tree!Accept(b)
    BY <2>2 DEF Tree!Accept, Tree!Prev, Tree!FollowsParent, Tree!Seqno, Tree!Timestamp,
                Prev, FollowsParent, Seqno, Timestamp
  <2> QED  BY <2>3 DEF Tree!Next
<1> QED  BY <1>1, <1>2, AlwaysInOrder, PTL DEF Spec, ImplementsBlockTree, Tree!Spec

-----------------------------------------------------------------------------
(***************************************************************************)
(* What a step of the hub does to these records.                           *)
(***************************************************************************)

\* The end of the NewBlock handler: its result is announced.
AnnounceStep ==
  /\ hub'.valid_blocks = hub.valid_blocks
  /\ hub'.valid_ids = <<>>
  /\ hub'.mempool = hub.mempool
  /\ hub'.annoucements = hub.annoucements
  /\ announced' = announced \cup Ids(hub.valid_ids)

\* A transaction that is not held is asked for.
AskStep ==
  /\ hub'.valid_blocks = hub.valid_blocks
  /\ hub'.valid_ids = hub.valid_ids
  /\ hub'.mempool = hub.mempool
  /\ \E t \in TxnId \ hub.mempool : hub'.annoucements = hub.annoucements \cup {t}
  /\ announced' = announced

\* A transaction arrives: it is held, announced, and no longer asked for.
ArriveStep ==
  \E t \in TxnId :
    /\ hub'.valid_blocks = hub.valid_blocks
    /\ hub'.valid_ids = hub.valid_ids
    /\ hub'.mempool = hub.mempool \cup {t}
    /\ hub'.annoucements = hub.annoucements \ {t}
    /\ announced' = announced \cup {t}

LEMMA StepKinds ==
  IInv /\ [Next]_vars =>
    /\ hub'.running => hub.running
    /\ \/ AcceptStep(hub, hub') /\ announced' = announced
       \/ AnnounceStep \/ AskStep \/ ArriveStep
<1> DEFINE Goal == /\ hub'.running => hub.running
                   /\ \/ AcceptStep(hub, hub') /\ announced' = announced
                      \/ AnnounceStep \/ AskStep \/ ArriveStep
<1> SUFFICES ASSUME IInv, [Next]_vars PROVE Goal
  OBVIOUS
<1>1. hub \in Hub /\ PoolInv(hub) /\ GossipTxn \subseteq TxnId
  BY EnvironmentAssumption DEF IInv, TypeOK
<1>2. ASSUME hub.running, AcceptStep(hub, hub'), announced' = announced
      PROVE  Goal
  BY <1>2
<1>3. ASSUME SameRecords(hub, hub'), hub'.running => hub.running,
             announced' = announced
      PROVE  Goal
  BY <1>3 DEF SameRecords, AcceptStep
<1>4. CASE \E b \in BlockId : DeliverBlock(b)
  <2>1. PICK b \in BlockId, from \in hub.peers \cup {NoNode} : NewBlock(from, b)
    BY <1>4 DEF DeliverBlock
  <2> QED  BY <1>1, <1>2, <2>1, NewBlockAccepts DEF NewBlock, Take, Idle
<1>5. CASE \E b \in BlockId : ValidateNext(b)
  BY <1>1, <1>2, <1>5, PendingAccepts DEF ValidateNext, IsNextPending, Take, Done
<1>6. CASE Announce
  BY <1>1, <1>6 DEF Announce, Take, AnnounceValid, Broadcast, Hub, AnnounceStep
<1>7. CASE \E n \in Node : NewPeer(n)
  BY <1>1, <1>3, <1>7 DEF NewPeer, Take, HandleNewPeer, Done, Hub, SameRecords, Idle
<1>8. CASE \E n \in hub.peers, b \in BlockId : AnnounceBlock(n, b) \/ GetBlock(n, b)
  BY <1>1, <1>3, <1>8
     DEF AnnounceBlock, GetBlock, Take, HandleAnnounceBlock, HandleGetBlock,
         SendToPeer, Done, Fail, Stop, Hub, SameRecords, Idle
<1>9. CASE \E n \in hub.peers, t \in GossipTxn : AnnounceTransaction(n, t)
  <2>1. PICK n \in hub.peers, t \in GossipTxn : AnnounceTransaction(n, t)
    BY <1>9
  <2>2. CASE t \in hub.mempool \cup hub.annoucements
    BY <1>1, <1>3, <2>1, <2>2
       DEF AnnounceTransaction, Take, HandleAnnounceTransaction, Done, SameRecords, Idle
  <2>3. CASE t \notin hub.mempool \cup hub.annoucements
    BY <1>1, <2>1, <2>3
       DEF AnnounceTransaction, Take, HandleAnnounceTransaction, SendToPeer,
           Done, Fail, Stop, Hub, AskStep, Idle
  <2> QED  BY <2>2, <2>3
<1>10. CASE \E n \in hub.peers, t \in GossipTxn : GetTransaction(n, t)
  BY <1>1, <1>3, <1>10
     DEF GetTransaction, Take, HandleGetTransaction, SendToPeer, Done, Fail, Stop,
         Hub, SameRecords, Idle
<1>11. CASE \E t \in GossipTxn : NewTransaction(t)
  <2>1. PICK t \in GossipTxn : NewTransaction(t)
    BY <1>11
  <2>2. CASE t \in hub.mempool
    BY <1>1, <1>3, <2>1, <2>2
       DEF NewTransaction, Take, HandleNewTransaction, Done, SameRecords, Idle
  <2>3. CASE t \notin hub.mempool
    BY <1>1, <2>1, <2>3
       DEF NewTransaction, Take, HandleNewTransaction, Broadcast, Hub, ArriveStep, Idle
  <2> QED  BY <2>2, <2>3
<1>12. CASE QueryLeadingCashSet
  BY <1>1, <1>3, <1>12
     DEF QueryLeadingCashSet, Take, HandleQueryLeadingCashSet, Done, Hub,
         SameRecords, Idle
<1>13. CASE Tick \/ UNCHANGED vars
  BY <1>3, <1>13 DEF Tick, vars, SameRecords
<1> QED
  BY <1>4, <1>5, <1>6, <1>7, <1>8, <1>9, <1>10, <1>11, <1>12, <1>13
     DEF Next, Handler

-----------------------------------------------------------------------------
(***************************************************************************)
(* Theorems.                                                               *)
(***************************************************************************)

\* A transaction leaves the mempool only in the step that accepts a block holding
\* it, and then with all transactions of that block.
THEOREM MempoolLosses == Spec => MempoolLosesOnlyMined
<1>1. IInv /\ [Next]_vars =>
        [/\ hub.mempool \ hub'.mempool \subseteq
              UNION {Transactions(b) : b \in hub'.valid_blocks \ hub.valid_blocks}
         /\ \A b \in hub'.valid_blocks \ hub.valid_blocks :
              Transactions(b) \cap hub'.mempool = {}]_vars
  <2> SUFFICES ASSUME IInv, [Next]_vars
               PROVE  /\ hub.mempool \ hub'.mempool \subseteq
                           UNION {Transactions(b) : b \in hub'.valid_blocks \ hub.valid_blocks}
                      /\ \A b \in hub'.valid_blocks \ hub.valid_blocks :
                           Transactions(b) \cap hub'.mempool = {}
    OBVIOUS
  <2>1. CASE \E b \in BlockId :
               /\ b \notin hub.valid_blocks
               /\ hub'.valid_blocks = hub.valid_blocks \cup {b}
               /\ hub'.mempool = hub.mempool \ Transactions(b)
    <3>1. PICK b \in BlockId :
            /\ hub'.valid_blocks \ hub.valid_blocks = {b}
            /\ hub'.mempool = hub.mempool \ Transactions(b)
      BY <2>1
    <3> QED  BY <3>1
  <2>2. CASE /\ hub'.valid_blocks = hub.valid_blocks
             /\ hub.mempool \subseteq hub'.mempool
    BY <2>2
  <2> QED
    BY <2>1, <2>2, StepKinds DEF AcceptStep, AnnounceStep, AskStep, ArriveStep
<1> QED  BY <1>1, AlwaysInOrder, PTL DEF Spec, MempoolLosesOnlyMined

\* No transaction is at once held and waited for, whatever order announcements,
\* answers, submissions and blocks come in.
THEOREM AskedOrHeldAlways == Spec => []AskedOrHeld
<1>1. Init => AskedOrHeld
  BY DEF Init, NewHub, AskedOrHeld
<1>2. IInv /\ AskedOrHeld /\ [Next]_vars => AskedOrHeld'
  <2> SUFFICES ASSUME IInv, AskedOrHeld, [Next]_vars
               PROVE  hub'.annoucements \cap hub'.mempool = {}
    BY DEF AskedOrHeld
  <2>1. CASE AskStep
    BY <2>1 DEF AskStep, AskedOrHeld
  <2>2. CASE ArriveStep
    BY <2>2 DEF ArriveStep, AskedOrHeld
  <2>3. CASE AcceptStep(hub, hub') \/ AnnounceStep
    BY <2>3 DEF AcceptStep, AnnounceStep, AskedOrHeld
  <2> QED  BY <2>1, <2>2, <2>3, StepKinds
<1> QED  BY <1>1, <1>2, AlwaysInOrder, PTL DEF Spec

LEMMA IdsOfAppend ==
  ASSUME NEW s \in Seq(BlockId), NEW b \in BlockId
  PROVE  Ids(Append(s, b)) = Ids(s) \cup {b}
<1>1. /\ DOMAIN Append(s, b) = 1 .. Len(s) + 1
      /\ DOMAIN s = 1 .. Len(s) /\ Len(s) \in Nat
      /\ \A i \in 1 .. Len(s) : Append(s, b)[i] = s[i]
      /\ Append(s, b)[Len(s) + 1] = b
  OBVIOUS
<1>2. ASSUME NEW x \in Ids(Append(s, b)) PROVE x \in Ids(s) \cup {b}
  <2>1. PICK i \in 1 .. Len(s) + 1 : x = Append(s, b)[i]
    BY <1>1 DEF Ids
  <2>2. i \in 1 .. Len(s) \/ i = Len(s) + 1
    BY <1>1
  <2> QED  BY <1>1, <2>1, <2>2 DEF Ids
<1>3. ASSUME NEW x \in Ids(s) \cup {b} PROVE x \in Ids(Append(s, b))
  <2>1. CASE x = b
    BY <1>1, <2>1 DEF Ids
  <2>2. CASE x \in Ids(s)
    <3>1. PICK i \in 1 .. Len(s) : x = s[i]
      BY <1>1, <2>2 DEF Ids
    <3>2. i \in 1 .. Len(s) + 1
      BY <1>1
    <3> QED  BY <1>1, <3>1, <3>2 DEF Ids
  <2> QED  BY <1>3, <2>1, <2>2
<1> QED  BY <1>2, <1>3

\* Nothing that became valid is forgotten: in a running hub, what is valid is
\* genesis, has been announced to the peers, or is in the result of the handler.
THEOREM ValidAreAnnounced == Spec => []ValidIsAnnounced
<1>1. Init => ValidIsAnnounced
  BY DEF Init, NewHub, ValidIsAnnounced, Ids
<1>2. IInv /\ ValidIsAnnounced /\ [Next]_vars => ValidIsAnnounced'
  <2> SUFFICES ASSUME IInv, ValidIsAnnounced, [Next]_vars, hub'.running
               PROVE  hub'.valid_blocks =
                        {Genesis} \cup (announced' \cap BlockId) \cup Ids(hub'.valid_ids)
    BY DEF ValidIsAnnounced, Ids
  <2>1. /\ hub.valid_blocks =
             {Genesis} \cup (announced \cap BlockId) \cup Ids(hub.valid_ids)
        /\ hub.valid_ids \in Seq(BlockId)
        /\ Ids(hub.valid_ids) \subseteq BlockId
    BY StepKinds DEF ValidIsAnnounced, IInv, TypeOK, Hub, Ids
  <2>2. CASE AcceptStep(hub, hub') /\ announced' = announced
    <3>1. CASE /\ hub'.valid_blocks = hub.valid_blocks
               /\ hub'.valid_ids = hub.valid_ids
      BY <2>1, <2>2, <3>1
    <3>2. CASE \E b \in BlockId : /\ hub'.valid_blocks = hub.valid_blocks \cup {b}
                                  /\ hub'.valid_ids = Append(hub.valid_ids, b)
      <4>1. PICK b \in BlockId : /\ hub'.valid_blocks = hub.valid_blocks \cup {b}
                                 /\ hub'.valid_ids = Append(hub.valid_ids, b)
        BY <3>2
      <4>2. Ids(hub'.valid_ids) = Ids(hub.valid_ids) \cup {b}
        BY <2>1, <4>1, IdsOfAppend
      <4> QED  BY <2>1, <2>2, <4>1, <4>2
    <3> QED  BY <2>2, <3>1, <3>2 DEF AcceptStep
  <2>3. CASE AnnounceStep
    <3>1. Ids(<<>>) = {}
      BY DEF Ids
    <3> QED  BY <2>1, <2>3, <3>1 DEF AnnounceStep
  <2>4. CASE AskStep
    BY <2>1, <2>4 DEF AskStep
  <2>5. CASE ArriveStep
    BY <2>1, <2>5, IdAssumption DEF ArriveStep
  <2> QED  BY <2>2, <2>3, <2>4, <2>5, StepKinds
<1> QED  BY <1>1, <1>2, AlwaysInOrder, PTL DEF Spec

-----------------------------------------------------------------------------
(***************************************************************************)
(* Judging blocks by their own chains.                                     *)
(***************************************************************************)

\* What a step can do to the verdicts and to `running`: it judges one block, or leaves
\* the verdicts alone; and then it stops the hub only where a transaction is asked
\* for that is not held.
LEMMA StepJudges ==
  ASSUME IInv, ValidIsAnnounced, [Next]_vars
  PROVE  \/ \E b \in BlockId \ {Genesis} :
              /\ b \notin hub.valid_blocks \cup hub.invalid_blocks
              /\ JudgeStep(hub, b, Timestamp(b) > now, hub')
         \/ /\ hub'.valid_blocks = hub.valid_blocks
            /\ hub'.invalid_blocks = hub.invalid_blocks
            /\ \/ hub'.running = hub.running
               \/ \E t \in announced \cap GossipTxn : t \notin hub.mempool
<1> DEFINE Same == /\ hub'.valid_blocks = hub.valid_blocks
                   /\ hub'.invalid_blocks = hub.invalid_blocks
                   /\ \/ hub'.running = hub.running
                      \/ \E t \in announced \cap GossipTxn : t \notin hub.mempool
           Goal == \/ \E b \in BlockId \ {Genesis} :
                        /\ b \notin hub.valid_blocks \cup hub.invalid_blocks
                        /\ JudgeStep(hub, b, Timestamp(b) > now, hub')
                   \/ Same
<1> SUFFICES Goal
  OBVIOUS
<1>1. hub \in Hub /\ PoolInv(hub)
  BY DEF IInv, TypeOK
<1>2. CASE \E b \in BlockId : DeliverBlock(b)
  <2>1. PICK b \in BlockId, from \in hub.peers \cup {NoNode} : NewBlock(from, b)
    BY <1>2 DEF DeliverBlock
  <2>2. CASE KnowsBlock(hub, b)
    BY <2>1, <2>2 DEF NewBlock, Take, HandleNewBlock, Done
  <2>3. CASE ~KnowsBlock(hub, b)
    <3>1. b # Genesis /\ b \notin hub.valid_blocks \cup hub.invalid_blocks
      BY <1>1, <2>3 DEF PoolInv, FormsTree, KnowsBlock
    <3> QED  BY <1>1, <2>1, <3>1, NewBlockJudges DEF NewBlock, Take
  <2> QED  BY <2>2, <2>3
<1>3. CASE \E b \in BlockId : ValidateNext(b)
  <2>1. PICK b \in BlockId : ValidateNext(b)
    BY <1>3
  <2>2. hub.pending[b] > 0 /\ hub' = ValidatePending(hub, b)
    BY <2>1 DEF ValidateNext, IsNextPending, Take, Done
  <2>3. b # Genesis /\ b \notin hub.valid_blocks \cup hub.invalid_blocks
    BY <1>1, <2>2 DEF PoolInv, PendingReady, FormsTree, Separate
  <2>4. JudgeStep(hub, b, FALSE, hub')
    BY <1>1, <2>2, PendingJudges
  <2>5. JudgeStep(hub, b, Timestamp(b) > now, hub')
    BY <2>4 DEF JudgeStep
  <2> QED  BY <2>3, <2>5
<1>4. CASE Announce
  BY <1>1, <1>4 DEF Announce, Take, AnnounceValid, Broadcast, Hub
<1>5. CASE \E n \in Node : NewPeer(n)
  BY <1>1, <1>5 DEF NewPeer, Take, HandleNewPeer, Done, Hub
<1>6. CASE \E n \in hub.peers, b \in BlockId : AnnounceBlock(n, b)
  BY <1>1, <1>6 DEF AnnounceBlock, Take, HandleAnnounceBlock, SendToPeer, Done
<1>7. CASE \E n \in hub.peers, b \in BlockId : GetBlock(n, b)
  <2>1. PICK n \in hub.peers, b \in BlockId : GetBlock(n, b)
    BY <1>7
  <2>2. b \in hub.valid_blocks
    BY <2>1 DEF GetBlock, Idle, ValidIsAnnounced
  <2> QED  BY <2>1, <2>2 DEF GetBlock, Take, HandleGetBlock, SendToPeer
<1>8. CASE \E n \in hub.peers, t \in GossipTxn : AnnounceTransaction(n, t)
  BY <1>1, <1>8
     DEF AnnounceTransaction, Take, HandleAnnounceTransaction, SendToPeer, Done, Hub
<1>9. CASE \E n \in hub.peers, t \in GossipTxn : GetTransaction(n, t)
  <2>1. PICK n \in hub.peers, t \in GossipTxn : GetTransaction(n, t)
    BY <1>9
  <2>2. CASE t \in hub.mempool
    BY <2>1, <2>2 DEF GetTransaction, Take, HandleGetTransaction, SendToPeer
  <2>3. CASE t \notin hub.mempool
    BY <1>1, <2>1, <2>3
       DEF GetTransaction, Take, HandleGetTransaction, Fail, Done, Stop, Hub
  <2> QED  BY <2>2, <2>3
<1>10. CASE \E t \in GossipTxn : NewTransaction(t)
  BY <1>1, <1>10
     DEF NewTransaction, Take, HandleNewTransaction, Broadcast, Done, Hub
<1>11. CASE QueryLeadingCashSet
  BY <1>1, <1>11
     DEF QueryLeadingCashSet, Take, HandleQueryLeadingCashSet, Done, Hub
<1>12. CASE Tick \/ UNCHANGED vars
  BY <1>12 DEF Tick, vars
<1> QED
  BY <1>2, <1>3, <1>4, <1>5, <1>6, <1>7, <1>8, <1>9, <1>10, <1>11, <1>12
     DEF Next, Handler

\* Disputes, accepted blocks and announcements stay.
LEMMA DisputesGrow ==
  IInv /\ [Next]_vars =>
    /\ \A b : Disputed(hub, b) => Disputed(hub', b)
    /\ hub.valid_blocks \subseteq hub'.valid_blocks
    /\ announced \subseteq announced'
<1> SUFFICES ASSUME IInv, [Next]_vars
             PROVE  /\ \A b : Disputed(hub, b) => Disputed(hub', b)
                    /\ hub.valid_blocks \subseteq hub'.valid_blocks
                    /\ announced \subseteq announced'
  OBVIOUS
<1>1. hub.valid_blocks \subseteq hub'.valid_blocks
  BY StepIsBlockStep DEF BlockStep, VerdictStep
<1>2. announced \subseteq announced'
  BY StepKinds DEF AnnounceStep, AskStep, ArriveStep
<1> QED  BY <1>1, <1>2, DisputesStay

\* An announced transaction is held until a valid block has it.
HeldOrMined ==
  \A t \in announced \cap TxnId :
    t \in hub.mempool \/ \E b \in hub.valid_blocks : t \in Transactions(b)

LEMMA HeldOrMinedAlways == Spec => []HeldOrMined
<1>1. Init => HeldOrMined
  BY DEF Init, HeldOrMined
<1>2. IInv /\ HeldOrMined /\ [Next]_vars => HeldOrMined'
  <2> SUFFICES ASSUME IInv, HeldOrMined, [Next]_vars,
                      NEW t \in announced' \cap TxnId
               PROVE  \/ t \in hub'.mempool
                      \/ \E b \in hub'.valid_blocks : t \in Transactions(b)
    BY DEF HeldOrMined
  <2>1. CASE AcceptStep(hub, hub') /\ announced' = announced
    BY <2>1 DEF AcceptStep, HeldOrMined
  <2>2. CASE AnnounceStep
    <3>1. Ids(hub.valid_ids) \subseteq BlockId
      BY DEF IInv, TypeOK, Hub, Ids
    <3> QED  BY <2>2, <3>1, IdAssumption DEF AnnounceStep, HeldOrMined
  <2>3. CASE AskStep
    BY <2>3 DEF AskStep, HeldOrMined
  <2>4. CASE ArriveStep
    BY <2>4 DEF ArriveStep, HeldOrMined
  <2> QED  BY <2>1, <2>2, <2>3, <2>4, StepKinds
<1> QED  BY <1>1, <1>2, AlwaysInOrder, PTL DEF Spec

\* The hub stops while it judges a disputed block, or when it is asked for a
\* transaction that it announced and that a valid block has since taken out of the
\* mempool.
THEOREM StopsForReason ==
  Spec => [](\/ HubStopsOnlyForMined
             \/ \E b \in BlockId : Disputed(hub, b))
<1> DEFINE Inv == HubStopsOnlyForMined \/ \E b \in BlockId : Disputed(hub, b)
<1>1. Init => Inv
  BY DEF Init, NewHub, HubStopsOnlyForMined
<1>2. IInv /\ ValidIsAnnounced /\ HeldOrMined /\ Inv /\ [Next]_vars => Inv'
  <2> SUFFICES ASSUME IInv, ValidIsAnnounced, HeldOrMined, Inv, [Next]_vars,
                      ~hub'.running, \A b \in BlockId : ~Disputed(hub', b)
               PROVE  \E t \in announced' \cap TxnId : \E b \in hub'.valid_blocks :
                        t \in Transactions(b)
    BY DEF HubStopsOnlyForMined
  <2>1. /\ \A b \in BlockId : ~Disputed(hub, b)
        /\ hub.valid_blocks \subseteq hub'.valid_blocks
        /\ announced \subseteq announced'
    BY DisputesGrow
  <2>2. CASE ~hub.running
    BY <2>1, <2>2 DEF HubStopsOnlyForMined
  <2>3. CASE hub.running
    <3>1. hub'.running # hub.running
      BY <2>3
    <3>2. PICK t \in announced \cap GossipTxn : t \notin hub.mempool
      BY <2>1, <3>1, StepJudges DEF JudgeStep
    <3>3. t \in announced \cap TxnId
      BY EnvironmentAssumption
    <3> QED  BY <2>1, <3>2, <3>3 DEF HeldOrMined
  <2> QED  BY <2>2, <2>3
<1> QED  BY <1>1, <1>2, AlwaysInOrder, ValidAreAnnounced, HeldOrMinedAlways, PTL DEF Spec

\* So as long as no block is disputed, the hub stops for one reason only.
THEOREM StopsForMined ==
  Spec => [](AgreeOnAdjustments(hub) => HubStopsOnlyForMined)
<1>1. (HubStopsOnlyForMined \/ \E b \in BlockId : Disputed(hub, b))
        => (AgreeOnAdjustments(hub) => HubStopsOnlyForMined)
  BY DEF AgreeOnAdjustments
<1> QED  BY <1>1, StopsForReason, PTL

\* And it stops at that moment: asked for what it has announced and no longer holds,
\* because a valid block has it, or judging a new block whose period underflows at a
\* disputed adjustment.  No premise: no other step of any handler fails.
THEOREM NoOtherStop == Spec => HubStopsForReason
<1>1. IInv /\ ValidIsAnnounced /\ HeldOrMined /\ [Next]_vars =>
        [hub.running /\ ~hub'.running =>
           \/ \E t \in (announced \cap TxnId) \ hub.mempool :
                \E b \in hub.valid_blocks : t \in Transactions(b)
           \/ \E b \in BlockId \ (hub.valid_blocks \cup hub.invalid_blocks) :
                Disputed(hub, b) /\ SpanUnderflows(hub, b)]_vars
  <2> SUFFICES ASSUME IInv, ValidIsAnnounced, HeldOrMined, [Next]_vars,
                      hub.running, ~hub'.running
               PROVE  \/ \E t \in (announced \cap TxnId) \ hub.mempool :
                           \E b \in hub.valid_blocks : t \in Transactions(b)
                      \/ \E b \in BlockId \ (hub.valid_blocks \cup hub.invalid_blocks) :
                           Disputed(hub, b) /\ SpanUnderflows(hub, b)
    OBVIOUS
  <2>1. CASE \E b \in BlockId \ {Genesis} :
               /\ b \notin hub.valid_blocks \cup hub.invalid_blocks
               /\ JudgeStep(hub, b, Timestamp(b) > now, hub')
    BY <2>1 DEF JudgeStep
  <2>2. CASE \E t \in announced \cap GossipTxn : t \notin hub.mempool
    BY <2>2, EnvironmentAssumption DEF HeldOrMined
  <2>3. hub'.running # hub.running
    OBVIOUS
  <2> QED  BY <2>1, <2>2, <2>3, StepJudges
<1> QED
  BY <1>1, AlwaysInOrder, ValidAreAnnounced, HeldOrMinedAlways, PTL
     DEF Spec, HubStopsForReason

\* The blocks of the chain of a well-formed block are well formed.
LEMMA SoundChain ==
  ASSUME NEW b \in BlockId, Sound(b), NEW x \in OnPath(b)
  PROVE  Sound(x)
<1> DEFINE P == {y \in BlockId : WellFormed[y] => \A z \in OnPath(y) : WellFormed[z]}
<1>1. Genesis \in P
  BY OnPathSteps, BlockTypes
<1>2. \A y \in BlockId \ {Genesis} : Prev(y) \in P => y \in P
  BY OnPathSteps, WellFormedEquation
<1> HIDE DEF P
<1>3. b \in P
  BY <1>1, <1>2, BlockInduction
<1>4. WellFormed[x]
  BY <1>3 DEF P, Sound
<1> QED  BY <1>4, OnPathHolds DEF Sound

\* A sound block is thrown away only with a disputed block of its chain: a block is
\* found invalid with a block of its own chain that is malformed, that was early, or
\* that was judged while branches disagreed about its adjustment block.
RejectedByDispute ==
  \A x \in hub.invalid_blocks : Sound(x) => \E b \in OnPath(x) : Disputed(hub, b)

THEOREM OnlyDisputedRejected == Spec => []RejectedByDispute
<1>1. Init => RejectedByDispute
  BY DEF Init, NewHub, RejectedByDispute
<1>2. IInv /\ ValidIsAnnounced /\ RejectedByDispute /\ [Next]_vars => RejectedByDispute'
  <2> SUFFICES ASSUME IInv, ValidIsAnnounced, RejectedByDispute, [Next]_vars,
                      NEW x \in hub'.invalid_blocks, Sound(x),
                      \A b \in OnPath(x) : ~Disputed(hub', b)
               PROVE  FALSE
    BY DEF RejectedByDispute
  <2>1. \A b \in OnPath(x) : ~Disputed(hub, b)
    BY DisputesGrow
  <2>2. x \notin hub.invalid_blocks
    BY <2>1 DEF RejectedByDispute
  <2>3. PICK b \in BlockId \ {Genesis} : JudgeStep(hub, b, Timestamp(b) > now, hub')
    BY <2>2, StepJudges
  <2>4. b \in OnPath(x) /\ (Timestamp(b) > now \/ ~ExtendsWell(b))
    BY <2>1, <2>2, <2>3 DEF JudgeStep
  <2>5. x \in BlockId
    BY StepInOrder DEF IInv, TypeOK, Hub
  <2>6. WellFormed[b] /\ Timestamp(b) <= StartTime
    BY <2>4, <2>5, SoundChain, OnPathHolds DEF Sound
  <2>7. ExtendsWell(b)
    BY <2>6, WellFormedEquation
  <2>8. StartTime <= now /\ StartTime \in Nat /\ now \in Nat
    BY EnvironmentAssumption DEF IInv, TypeOK
  <2> QED  BY <2>4, <2>6, <2>7, <2>8, BlockTypes
<1> QED  BY <1>1, <1>2, AlwaysInOrder, ValidAreAnnounced, PTL DEF Spec

\* So as long as no block is disputed, no sound block is thrown away.
THEOREM SoundStay ==
  Spec => [](AgreeOnAdjustments(hub) => SoundAreNotRejected)
<1>1. IInv /\ RejectedByDispute => (AgreeOnAdjustments(hub) => SoundAreNotRejected)
  <2> SUFFICES ASSUME IInv, RejectedByDispute, AgreeOnAdjustments(hub),
                      NEW x \in hub.invalid_blocks, Sound(x)
               PROVE  FALSE
    BY DEF SoundAreNotRejected
  <2>1. PICK b \in OnPath(x) : Disputed(hub, b)
    BY DEF RejectedByDispute
  <2>2. b \in BlockId
    BY OnPathHolds DEF IInv, TypeOK, Hub
  <2> QED  BY <2>1, <2>2 DEF AgreeOnAdjustments
<1> QED  BY <1>1, AlwaysInOrder, OnlyDisputedRejected, PTL

\* And once every block has arrived, a highest sound block leads.
THEOREM HighestSound ==
  Spec => [](AgreeOnAdjustments(hub) => HighestSoundLeads)
<1>1. IInv /\ SoundAreNotRejected => HighestSoundLeads
  <2> SUFFICES ASSUME IInv, SoundAreNotRejected, Idle(hub),
                      \A b \in BlockId : KnowsBlock(hub, b),
                      NEW b \in BlockId, Sound(b)
               PROVE  Seqno(b) <= Seqno(hub.leading_block)
    BY DEF HighestSoundLeads
  <2>1. hub \in Hub /\ PoolInv(hub)
    BY DEF IInv, TypeOK
  <2> DEFINE P == {x \in BlockId : Sound(x) => x \in hub.valid_blocks}
  <2>2. Genesis \in P
    BY <2>1, BlockTypes DEF PoolInv, FormsTree
  <2>3. ASSUME NEW x \in BlockId \ {Genesis}, Prev(x) \in P, Sound(x)
        PROVE  x \in hub.valid_blocks
    <3>1. Prev(x) \in BlockId /\ Prev(x) \in OnPath(x)
      BY BlockTypes, OnPathSteps, OnPathHolds
    <3>2. Prev(x) \in hub.valid_blocks
      BY <2>3, <3>1, SoundChain
    <3>3. x \notin hub.unconfirmed_blocks
      BY <2>1, <3>2, NoneStranded
    <3>4. x \notin hub.invalid_blocks
      BY <2>3 DEF SoundAreNotRejected
    <3> QED  BY <3>3, <3>4 DEF KnowsBlock
  <2>4. \A x \in BlockId \ {Genesis} : Prev(x) \in P => x \in P
    BY <2>3
  <2> HIDE DEF P
  <2>5. b \in P
    BY <2>2, <2>4, BlockInduction
  <2> QED  BY <2>1, <2>5 DEF P, PoolInv, HighestLeads
<1> QED  BY <1>1, AlwaysInOrder, SoundStay, PTL

\* The three findings are the only ways for a malformed block to be accepted: what is
\* valid is well formed, unless a block of its chain is disputed, spends cash that
\* is not its chain's, or names cash twice in the inputs of its transactions, of one
\* or of several.
Blameless(b) ==
  ~Disputed(hub, b) /\ Spends(b) \subseteq Unspent(Prev(b)) /\ NoDoubleSpend(b)

MalformedByFindings ==
  \A b \in hub.valid_blocks :
    (\A x \in OnPath(b) \ {Genesis} : Blameless(x)) => WellFormed[b]

THEOREM OnlyFindingsMalformed == Spec => []MalformedByFindings
<1>1. Init => MalformedByFindings
  BY WellFormedEquation, BlockTypes DEF Init, NewHub, MalformedByFindings
<1>2. IInv /\ ValidIsAnnounced /\ MalformedByFindings /\ [Next]_vars => MalformedByFindings'
  <2> SUFFICES ASSUME IInv, ValidIsAnnounced, MalformedByFindings, [Next]_vars,
                      NEW x \in hub'.valid_blocks,
                      \A y \in OnPath(x) \ {Genesis} : Blameless(y)'
               PROVE  WellFormed[x]
    BY DEF MalformedByFindings
  <2>1. \A y \in OnPath(x) \ {Genesis} : Blameless(y)
    BY DisputesGrow DEF Blameless
  <2>2. CASE x \in hub.valid_blocks
    BY <2>1, <2>2 DEF MalformedByFindings
  <2>3. CASE x \notin hub.valid_blocks
    <3>1. PICK b \in BlockId \ {Genesis} : JudgeStep(hub, b, Timestamp(b) > now, hub')
      BY <2>3, StepJudges
    <3>2. /\ x = b /\ Prev(x) \in hub.valid_blocks /\ FollowsParent(x)
          /\ Disputed(hub, x) \/ Block[x].difficulty = OwnChainDifficulty(x)
          /\ RewardIsRight(x)
      BY <2>3, <3>1 DEF JudgeStep
    <3>3. x \in OnPath(x) /\ OnPath(Prev(x)) \subseteq OnPath(x)
      BY <3>1, <3>2, OnPathHolds, OnPathSteps
    <3>4. Blameless(x)
      BY <2>1, <3>1, <3>2, <3>3
    <3>5. ExtendsWell(x)
      BY <3>2, <3>4 DEF Blameless, ExtendsWell, FollowsParent, RewardIsRight
    <3>6. WellFormed[Prev(x)]
      BY <2>1, <3>2, <3>3 DEF MalformedByFindings
    <3> QED  BY <3>1, <3>2, <3>5, <3>6, WellFormedEquation
  <2> QED  BY <2>2, <2>3
<1> QED  BY <1>1, <1>2, AlwaysInOrder, ValidAreAnnounced, PTL DEF Spec

\* So where no block is disputed, and valid blocks spend cash of their own chains, a
\* malformed block is valid only on a chain that spends cash twice.
THEOREM WellFormedOnly ==
  Spec => []((AgreeOnAdjustments(hub) /\ SpendsOwnCash) => ValidAreWellFormed)
<1>1. IInv /\ MalformedByFindings =>
        ((AgreeOnAdjustments(hub) /\ SpendsOwnCash) => ValidAreWellFormed)
  <2> SUFFICES ASSUME IInv, MalformedByFindings, AgreeOnAdjustments(hub), SpendsOwnCash,
                      NEW b \in hub.valid_blocks, \A x \in OnPath(b) : NoDoubleSpend(x)
               PROVE  WellFormed[b]
    BY DEF ValidAreWellFormed
  <2>1. IsTree(hub.valid_blocks) /\ hub.valid_blocks \subseteq BlockId
    BY ValidIsTree DEF IInv, TypeOK, PoolInv, Hub
  <2>2. OnPath(b) \subseteq hub.valid_blocks
    BY <2>1, TreePath
  <2>3. \A x \in OnPath(b) \ {Genesis} : Blameless(x)
    BY <2>1, <2>2 DEF Blameless, AgreeOnAdjustments, SpendsOwnCash
  <2> QED  BY <2>3 DEF MalformedByFindings
<1> QED  BY <1>1, AlwaysInOrder, OnlyFindingsMalformed, PTL

-----------------------------------------------------------------------------
(***************************************************************************)
(* The cash set, and depths.                                               *)
(***************************************************************************)

\* Every step moves the cash set to a valid block, if at all.
LEMMA StepMovesCash == IInv /\ [Next]_vars => CashStep(hub, hub')
<1> SUFFICES ASSUME IInv, [Next]_vars PROVE CashStep(hub, hub')
  OBVIOUS
<1>1. hub \in Hub /\ PoolInv(hub)
  BY DEF IInv, TypeOK
<1>2. CASE \E b \in BlockId : DeliverBlock(b)
  BY <1>1, <1>2, NewBlockCash DEF DeliverBlock, NewBlock, Take
<1>3. CASE \E b \in BlockId : ValidateNext(b)
  BY <1>1, <1>3, PendingCash DEF ValidateNext, IsNextPending, Take, Done
<1>4. CASE QueryLeadingCashSet
  <2>1. CashSetAt(hub, hub.leading_block) \in SUBSET Cash
    BY DEF CashSetAt
  <2>2. hub'.cash_set = CashSetAt(hub, hub.leading_block)
    BY <1>1, <1>4, <2>1 DEF QueryLeadingCashSet, Take, HandleQueryLeadingCashSet, Done, Hub
  <2> QED  BY <1>1, <2>2 DEF CashStep, PoolInv, HighestLeads
<1>5. CASE Announce
  BY <1>1, <1>5 DEF Announce, Take, AnnounceValid, Broadcast, Hub, CashStep
<1>6. CASE \E n \in Node : NewPeer(n)
  BY <1>1, <1>6 DEF NewPeer, Take, HandleNewPeer, Done, Hub, CashStep
<1>7. CASE \E n \in hub.peers, b \in BlockId : AnnounceBlock(n, b) \/ GetBlock(n, b)
  BY <1>1, <1>7
     DEF AnnounceBlock, GetBlock, Take, HandleAnnounceBlock, HandleGetBlock,
         SendToPeer, Done, Fail, Stop, Hub, CashStep
<1>8. CASE \E n \in hub.peers, t \in GossipTxn :
             AnnounceTransaction(n, t) \/ GetTransaction(n, t)
  BY <1>1, <1>8
     DEF AnnounceTransaction, GetTransaction, Take, HandleAnnounceTransaction,
         HandleGetTransaction, SendToPeer, Done, Fail, Stop, Hub, CashStep
<1>9. CASE \E t \in GossipTxn : NewTransaction(t)
  BY <1>1, <1>9
     DEF NewTransaction, Take, HandleNewTransaction, Broadcast, Done, Hub, CashStep
<1>10. CASE Tick \/ UNCHANGED vars
  BY <1>10 DEF Tick, vars, CashStep
<1> QED
  BY <1>2, <1>3, <1>4, <1>5, <1>6, <1>7, <1>8, <1>9, <1>10 DEF Next, Handler

\* The cash in the set was left by valid blocks, on whatever branch.
LEMMA CashWasLeftAlways == Spec => []CashWasLeft(hub)
<1>1. Init => CashWasLeft(hub)
  BY DEF Init, NewHub, CashWasLeft
<1>2. IInv /\ CashWasLeft(hub) /\ [Next]_vars => CashWasLeft(hub)'
  <2> SUFFICES ASSUME IInv, CashWasLeft(hub), [Next]_vars PROVE CashWasLeft(hub')
    BY DEF CashWasLeft
  <2>1. hub \in Hub /\ FormsTree(hub)
    BY DEF IInv, TypeOK, PoolInv
  <2>2. CashStep(hub, hub') /\ hub.valid_blocks \subseteq hub'.valid_blocks
    BY StepMovesCash, DisputesGrow
  <2> QED  BY <2>1, <2>2, CashStepKeeps
<1> QED  BY <1>1, <1>2, AlwaysInOrder, PTL DEF Spec

\* The cash set computed for a valid block holds the cash unspent on its chain,
\* whatever branches it was moved over.  No hypothesis: no honest spend is refused.
THEOREM UnspentIsFound ==
  Spec => [](\A b \in hub.valid_blocks : Unspent(b) \subseteq CashSetAt(hub, b))
<1>1. IInv => \A b \in hub.valid_blocks : Unspent(b) \subseteq CashSetAt(hub, b)
  BY CashSetCovers DEF IInv, TypeOK, PoolInv
<1> QED  BY <1>1, AlwaysInOrder, PTL

\* What it holds besides was left by other branches, and is not spent on the chain
\* of the block: as long as valid blocks spend cash of their own chains, and no two
\* blocks of a chain leave the same cash.
THEOREM CashSetBounded ==
  Spec => []((SpendsOwnCash /\ CreatedOnce(hub)) => CashSetBounds)
<1>1. IInv /\ CashWasLeft(hub) /\ SpendsOwnCash /\ CreatedOnce(hub) => CashSetBounds
  <2> SUFFICES ASSUME IInv, CashWasLeft(hub), SpendsOwnCash, CreatedOnce(hub),
                      NEW b \in hub.valid_blocks
               PROVE  LET set == CashSetAt(hub, b)
                          elsewhere ==
                            UNION {Leaves(x) : x \in hub.valid_blocks \ OnPath(b)}
                          spent == UNION {Spends(x) : x \in OnPath(b)}
                      IN /\ Unspent(b) \subseteq set
                         /\ set \ Unspent(b) \subseteq elsewhere \ spent
    BY DEF CashSetBounds
  <2>1. hub \in Hub /\ FormsTree(hub) /\ SpendOwn(hub)
    BY DEF IInv, TypeOK, PoolInv, SpendsOwnCash, SpendOwn
  <2>2. ASSUME NEW c \in CashSetAt(hub, b), c \notin Unspent(b)
        PROVE  /\ c \in UNION {Leaves(x) : x \in hub.valid_blocks \ OnPath(b)}
               /\ c \notin UNION {Spends(x) : x \in OnPath(b)}
    <3>1. c \notin UNION {Spends(x) : x \in OnPath(b)}
      BY <2>1, <2>2, SpentIsGone
    <3>2. c \notin UNION {Leaves(x) : x \in OnPath(b)}
      BY <2>2, <3>1 DEF Unspent
    <3>3. c \in hub.cash_set
      BY <2>1, <2>2, <3>2, CashSetCovers
    <3>4. PICK x \in hub.valid_blocks : c \in Leaves(x)
      BY <3>3 DEF CashWasLeft
    <3>5. x \notin OnPath(b)
      BY <3>2, <3>4
    <3> QED  BY <3>1, <3>4, <3>5
  <2> QED  BY <2>1, <2>2, CashSetCovers
<1> QED  BY <1>1, AlwaysInOrder, CashWasLeftAlways, PTL

\* A block is on the confirmed chain at the height of its seqno; a chain that the
\* leading chain extends is the beginning of it.
LEMMA ChainPrefix ==
  ASSUME NEW h \in Hub, FormsTree(h), h.leading_block \in h.valid_blocks,
         NEW g \in Hub, FormsTree(g), g.leading_block \in g.valid_blocks,
         h.leading_block \in OnPath(g.leading_block)
  PROVE  /\ Seqno(h.leading_block) \in 0 .. Seqno(g.leading_block)
         /\ \A s \in 0 .. Seqno(h.leading_block) :
              ConfirmedChain(h)[s] = ConfirmedChain(g)[s]
<1> DEFINE k == h.leading_block
           l == g.leading_block
<1>1. IsTree(g.valid_blocks) /\ Seqno(k) \in Nat /\ Seqno(l) \in Nat
  BY ValidIsTree, BlockTypes DEF Hub
<1>2. Seqno(k) <= Seqno(l)
  BY <1>1, PathPrefix
<1>3. ASSUME NEW s \in 0 .. Seqno(k) PROVE ConfirmedChain(h)[s] = ConfirmedChain(g)[s]
  <2>1. PathTo[k][s + 1] = PathTo[l][s + 1]
    BY <1>1, <1>3, PathPrefix
  <2>2. s \in 0 .. Seqno(l)
    BY <1>1, <1>2
  <2> QED  BY <1>3, <2>1, <2>2, ConfirmedChainIsPath
<1> QED  BY <1>1, <1>2, <1>3

\* While the confirmed chain is extended, the depth of what is on it grows with it.
THEOREM DepthGrows == Spec => DepthGrowsWithChain
<1>1. IInv /\ IInv' =>
        (hub.leading_block \in OnPath(hub'.leading_block) =>
           \A t \in TxnId : TransactionDepth(hub, t) >= 0 =>
             TransactionDepth(hub', t) - TransactionDepth(hub, t)
               = Seqno(hub'.leading_block) - Seqno(hub.leading_block))
  <2> SUFFICES ASSUME IInv, IInv', hub.leading_block \in OnPath(hub'.leading_block),
                      NEW t \in TxnId, TransactionDepth(hub, t) >= 0
               PROVE  TransactionDepth(hub', t) - TransactionDepth(hub, t)
                        = Seqno(hub'.leading_block) - Seqno(hub.leading_block)
    OBVIOUS
  <2> DEFINE k == Seqno(hub.leading_block)
             l == Seqno(hub'.leading_block)
             H == {s \in 0 .. k : t \in Transactions(ConfirmedChain(hub)[s])}
             G == {s \in 0 .. l : t \in Transactions(ConfirmedChain(hub')[s])}
             m == CHOOSE s \in H : \A r \in H : s <= r
             n == CHOOSE s \in G : \A r \in G : s <= r
  <2>1. k \in 0 .. l /\ l \in Nat /\
        \A s \in 0 .. k : ConfirmedChain(hub)[s] = ConfirmedChain(hub')[s]
    <3>1. /\ hub \in Hub /\ hub' \in Hub /\ FormsTree(hub) /\ FormsTree(hub')
          /\ hub.leading_block \in hub.valid_blocks
          /\ hub'.leading_block \in hub'.valid_blocks
      BY DEF IInv, TypeOK, PoolInv, HighestLeads, FormsTree
    <3>2. hub'.leading_block \in BlockId
      BY <3>1 DEF Hub
    <3>3. l \in Nat
      BY <3>2, BlockTypes
    <3> QED  BY <3>1, <3>3, ChainPrefix
  <2>2. /\ TransactionDepth(hub, t) = IF H = {} THEN -1 ELSE k - m
        /\ TransactionDepth(hub', t) = IF G = {} THEN -1 ELSE l - n
    BY DEF TransactionDepth
  <2>3. \A s \in 0 .. k : s \in H <=> s \in G
    BY <2>1
  <2>4. H # {} /\ H \subseteq Nat /\ H \subseteq G /\ G \subseteq 0 .. l /\ H \subseteq 0 .. k
    BY <2>1, <2>2, <2>3
  <2>5. PICK x \in H : \A r \in H : x <= r
    BY <2>4, LeastNat
  <2> HIDE DEF H, G
  <2>6. m \in H /\ \A r \in H : m <= r
    BY <2>5
  <2> HIDE DEF m
  <2>7. m \in G /\ \A r \in G : m <= r
    <3>1. ASSUME NEW r \in G PROVE m <= r
      <4>1. CASE r \in 0 .. k
        BY <2>3, <2>6, <4>1
      <4>2. CASE r \notin 0 .. k
        <5>1. r \in Nat /\ m \in 0 .. k /\ k \in Nat
          BY <2>1, <2>4, <2>6
        <5> QED  BY <4>2, <5>1
      <4> QED  BY <4>1, <4>2
    <3> QED  BY <2>4, <2>6, <3>1
  <2>8. n \in G /\ \A r \in G : n <= r
    BY <2>7
  <2> HIDE DEF n
  <2>9. n = m
    <3>1. n \in Nat /\ m \in Nat /\ n <= m /\ m <= n
      BY <2>1, <2>4, <2>7, <2>8
    <3> QED  BY <3>1
  <2> QED  BY <2>1, <2>2, <2>4, <2>6, <2>7, <2>9
<1> QED  BY <1>1, AlwaysInOrder, StepInOrder, PTL DEF Spec, DepthGrowsWithChain

-----------------------------------------------------------------------------
(***************************************************************************)
(* Money.                                                                  *)
(***************************************************************************)

\* Only the handler of NewBlock judges blocks.
LEMMA OthersJudgeNothing ==
  IInv /\ [Next]_vars =>
    \/ \E b \in BlockId : DeliverBlock(b) \/ ValidateNext(b)
    \/ /\ hub'.valid_blocks = hub.valid_blocks
       /\ hub'.invalid_blocks = hub.invalid_blocks
       /\ hub'.unconfirmed_blocks = hub.unconfirmed_blocks
<1> DEFINE Same == /\ hub'.valid_blocks = hub.valid_blocks
                   /\ hub'.invalid_blocks = hub.invalid_blocks
                   /\ hub'.unconfirmed_blocks = hub.unconfirmed_blocks
           Goal == \/ \E b \in BlockId : DeliverBlock(b) \/ ValidateNext(b)
                   \/ Same
<1> SUFFICES ASSUME IInv, [Next]_vars PROVE Goal
  OBVIOUS
<1>1. hub \in Hub
  BY DEF IInv, TypeOK
<1>2. CASE Announce
  BY <1>1, <1>2 DEF Announce, Take, AnnounceValid, Broadcast, Hub
<1>3. CASE \E n \in Node : NewPeer(n)
  BY <1>1, <1>3 DEF NewPeer, Take, HandleNewPeer, Done, Hub
<1>4. CASE \E n \in hub.peers, b \in BlockId : AnnounceBlock(n, b) \/ GetBlock(n, b)
  BY <1>1, <1>4
     DEF AnnounceBlock, GetBlock, Take, HandleAnnounceBlock, HandleGetBlock,
         SendToPeer, Done, Fail, Stop, Hub
<1>5. CASE \E n \in hub.peers, t \in GossipTxn :
             AnnounceTransaction(n, t) \/ GetTransaction(n, t)
  BY <1>1, <1>5
     DEF AnnounceTransaction, GetTransaction, Take, HandleAnnounceTransaction,
         HandleGetTransaction, SendToPeer, Done, Fail, Stop, Hub
<1>6. CASE \E t \in GossipTxn : NewTransaction(t)
  BY <1>1, <1>6 DEF NewTransaction, Take, HandleNewTransaction, Broadcast, Done, Hub
<1>7. CASE QueryLeadingCashSet
  BY <1>1, <1>7 DEF QueryLeadingCashSet, Take, HandleQueryLeadingCashSet, Done, Hub
<1>8. CASE Tick \/ UNCHANGED vars
  BY <1>8 DEF Tick, vars
<1> QED  BY <1>2, <1>3, <1>4, <1>5, <1>6, <1>7, <1>8 DEF Next, Handler

\* What a step accepts claims the right reward.
LEMMA StepRewards == IInv /\ [Next]_vars => RewardStep(hub, hub')
<1> SUFFICES ASSUME IInv, [Next]_vars PROVE RewardStep(hub, hub')
  OBVIOUS
<1>1. hub \in Hub /\ PoolInv(hub)
  BY DEF IInv, TypeOK
<1>2. CASE \E b \in BlockId : DeliverBlock(b)
  BY <1>1, <1>2, NewBlockRewards DEF DeliverBlock, NewBlock, Take
<1>3. CASE \E b \in BlockId : ValidateNext(b)
  BY <1>1, <1>3, PendingRewards DEF ValidateNext, IsNextPending, Take, Done
<1>4. CASE hub'.valid_blocks = hub.valid_blocks
  BY <1>4 DEF RewardStep
<1> QED  BY <1>2, <1>3, <1>4, OthersJudgeNothing

\* Every valid block but genesis claims its subsidy and its fees, no more, no less.
RewardsRight == \A b \in hub.valid_blocks \ {Genesis} : RewardIsRight(b)

LEMMA RewardsRightAlways == Spec => []RewardsRight
<1>1. Init => RewardsRight
  BY DEF Init, NewHub, RewardsRight
<1>2. IInv /\ RewardsRight /\ [Next]_vars => RewardsRight'
  BY StepRewards DEF RewardStep, RewardsRight
<1> QED  BY <1>1, <1>2, AlwaysInOrder, PTL DEF Spec

\* Money is conserved on every valid chain that is fairly built, for every ledger and
\* whatever other blocks the hub has accepted.
THEOREM MoneyConserved == Spec => []MoneyIsConserved
<1>1. IInv /\ RewardsRight => MoneyIsConserved
  <2> SUFFICES ASSUME IInv, RewardsRight, NEW b \in hub.valid_blocks, FairlyBuilt(b)
               PROVE  TotalAmount(Unspent(b))
                        = FoldFunction(+, 0, [x \in OnPath(b) |-> Subsidy(Seqno(x))])
    BY DEF MoneyIsConserved
  <2>1. IsTree(hub.valid_blocks) /\ OnPath(b) \subseteq hub.valid_blocks
    BY ValidIsTree, TreePath DEF IInv, TypeOK, PoolInv
  <2>2. \A x \in OnPath(b) \ {Genesis} :
          /\ Spends(x) \subseteq Unspent(Prev(x))
          /\ NoDoubleSpend(x) /\ MakesNewCash(x) /\ RewardIsRight(x)
    BY <2>1 DEF FairlyBuilt, RewardsRight
  <2>3. TotalAmount(Unspent(b)) = FoldFunction(+, 0, SubsidyAt(b))
    BY <2>1, <2>2, ChainMoney
  <2> QED  BY <2>3 DEF SubsidyAt
<1> QED  BY <1>1, AlwaysInOrder, RewardsRightAlways, PTL
=============================================================================
