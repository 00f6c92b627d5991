------------------------------- MODULE Network -------------------------------
(***************************************************************************)
(* A network of ddcoin nodes: the hub of HubState once per node, and a     *)
(* stream of messages for each direction of each link.  A Peer task reads  *)
(* a stream in order and passes each message to its hub (peer.rs), whose   *)
(* handler sends to the streams of its own table (peerhub.rs).             *)
(*                                                                         *)
(* Which connection a hub keeps is the matter of Connections.  Here a link *)
(* is there once each end has handled NewPeer, at a time of its own: a     *)
(* node may join when the others already have a chain.                     *)
(*                                                                         *)
(* A hub that fails stops for good.  Its peers keep its stream in their    *)
(* tables (entries are never removed): what they write to it is lost, or   *)
(* the write fails and stops them too, with a broadcast half done.         *)
(***************************************************************************)
EXTENDS HubState

CONSTANTS
  Clock,            \* the clock of each node; it stands still
  Scenarios         \* the links there will be, as sets of two nodes; which of them
                    \* are there at the start; and what users and miners submit
                    \* at each node, in order

ASSUME NetworkAssumption ==
  /\ Clock \in [Node -> Nat]
  /\ \A s \in Scenarios :
       /\ \A l \in s.link : l \subseteq Node /\ Cardinality(l) = 2
       /\ s.linked \subseteq s.link
       /\ s.todo \in [Node -> Seq(BlockId \cup TxnId)]

\* A block is mined once: it holds the hash of its parent, the miner's key and a
\* reward of its own.  Genesis is not mined.
ASSUME MinedOnceAssumption ==
  \A s \in Scenarios : \A n, m \in Node :
    \A i \in DOMAIN s.todo[n], j \in DOMAIN s.todo[m] :
      /\ s.todo[n][i] # Genesis
      /\ s.todo[n][i] = s.todo[m][j] /\ s.todo[n][i] \in BlockId => n = m /\ i = j

VARIABLES
  link,             \* the links there are or will be
  hub,              \* the hub of each node
  stream,           \* stream[m][n]: what m has sent and n has not read
  todo              \* what is still to be submitted at each node

vars == <<link, hub, stream, todo>>

\* The hubs have started, and some links are there already.
Init ==
  \E s \in Scenarios :
    /\ link = s.link
    /\ hub = [n \in Node |-> [NewHub EXCEPT !.peers = {m \in Node : {n, m} \in s.linked}]]
    /\ stream = [m \in Node |-> [n \in Node |-> <<>>]]
    /\ todo = s.todo

-----------------------------------------------------------------------------
(***************************************************************************)
(* Sending.                                                                *)
(***************************************************************************)

\* The streams after n has read `read` messages of m's, and has sent.
Streams(n, m, read, sent) ==
  [x \in Node |-> [y \in Node |->
     LET left == IF x = m /\ y = n THEN SubSeq(stream[x][y], read + 1, Len(stream[x][y]))
                 ELSE stream[x][y]
     IN IF x = n /\ hub[y].running THEN left \o sent[y] ELSE left]]

Targets(sent) == {y \in Node : sent[y] # <<>>}

\* A handler of n ran: the rest of the world takes its result.  All it sent is
\* written, although a target may have stopped and read nothing of it.
Deliver(n, m, read, result) ==
  /\ hub' = [hub EXCEPT ![n] = result.hub]
  /\ stream' = Streams(n, m, read, result.sent)

\* Or a write to a target that has stopped fails, and the hub stops: of the
\* messages, which go to all targets one after the other, the first k have been
\* written to all, and one more to those before it in the order of the table.
DeliverFails(n, m, read, result) ==
  \E dead \in Targets(result.sent) :
    /\ ~hub[dead].running
    /\ \E k \in 0 .. Len(result.sent[dead]) - 1 : \E before \in SUBSET Targets(result.sent) :
         stream' = Streams(n, m, read,
           [y \in Node |->
              IF y \in before THEN SubSeq(result.sent[y], 1, k + 1)
              ELSE SubSeq(result.sent[y], 1, IF y \in Targets(result.sent) THEN k ELSE 0)])
    /\ hub' = [hub EXCEPT ![n] = Stop(result.hub)]

\* The handler that n's hub runs for the message it took from m, if any.
Handle(n, m, read, result) ==
  Deliver(n, m, read, result) \/ DeliverFails(n, m, read, result)

-----------------------------------------------------------------------------
(***************************************************************************)
(* What a Peer task makes of a message of m, in peer.rs, and the handler.  *)
(***************************************************************************)

\* Variant of Handler: a block does not come with the node that sent it.
Handler_Unattributed(n, m, msg) ==
  CASE msg.type = "AnnounceTransaction" -> HandleAnnounceTransaction(hub[n], m, msg.id)
    [] msg.type = "AnnounceBlock" -> HandleAnnounceBlock(hub[n], m, msg.id)
    [] msg.type = "GetTransactionRequest" -> HandleGetTransaction(hub[n], m, msg.id)
    [] msg.type = "GetTransactionResponse" -> HandleNewTransaction(hub[n], msg.id)
    [] msg.type = "GetBlockRequest" -> HandleGetBlock(hub[n], m, msg.id)
    [] msg.type = "GetBlockResponse" -> HandleNewBlock(hub[n], NoNode, msg.id, Clock[n])

Handler(n, m, msg) ==
  CASE msg.type = "AnnounceTransaction" -> HandleAnnounceTransaction(hub[n], m, msg.id)
    [] msg.type = "AnnounceBlock" -> HandleAnnounceBlock(hub[n], m, msg.id)
    [] msg.type = "GetTransactionRequest" -> HandleGetTransaction(hub[n], m, msg.id)
    [] msg.type = "GetTransactionResponse" -> HandleNewTransaction(hub[n], msg.id)
    [] msg.type = "GetBlockRequest" -> HandleGetBlock(hub[n], m, msg.id)
    [] msg.type = "GetBlockResponse" -> HandleNewBlock(hub[n], m, msg.id, Clock[n])

\* Variant of Receive: the Peer task starts before m is in the table.
Receive_Early(n, m) ==
  /\ Idle(hub[n])
  /\ stream[m][n] # <<>>
  /\ Handle(n, m, 1, Handler(n, m, Head(stream[m][n])))
  /\ UNCHANGED <<link, todo>>

\* The Peer task is there once NewPeer has put m in the table.
Receive(n, m) ==
  /\ Idle(hub[n])
  /\ m \in hub[n].peers
  /\ stream[m][n] # <<>>
  /\ Handle(n, m, 1, Handler(n, m, Head(stream[m][n])))
  /\ UNCHANGED <<link, todo>>

NewPeer(n, m) ==
  /\ {n, m} \in link
  /\ m \notin hub[n].peers
  /\ Idle(hub[n])
  /\ Handle(n, n, 0, HandleNewPeer(hub[n], m))
  /\ UNCHANGED <<link, todo>>

\* One turn of the loop of add_valid_block.
ValidateNext(n) ==
  /\ hub[n].running
  /\ \E b \in BlockId :
       /\ IsNextPending(hub[n], b)
       /\ Handle(n, n, 0, Done(ValidatePending(hub[n], b)))
  /\ UNCHANGED <<link, todo>>

Announce(n) ==
  /\ hub[n].running
  /\ hub[n].valid_ids # <<>>
  /\ \A b \in BlockId : hub[n].pending[b] = 0
  /\ Handle(n, n, 0, AnnounceValid(hub[n]))
  /\ UNCHANGED <<link, todo>>

\* A user's transaction, or a block that the node's miner made on a valid block
\* out of the mempool; how the miner gets there is the matter of Miner.
Submit(n) ==
  /\ Idle(hub[n])
  /\ todo[n] # <<>>
  /\ LET x == Head(todo[n])
     IN \/ /\ x \in TxnId
           /\ Handle(n, n, 0, HandleNewTransaction(hub[n], x))
        \/ /\ x \in BlockId
           /\ Prev(x) \in hub[n].valid_blocks
           /\ Transactions(x) \subseteq hub[n].mempool
           /\ Handle(n, n, 0, HandleNewBlock(hub[n], NoNode, x, Clock[n]))
  /\ todo' = [todo EXCEPT ![n] = Tail(@)]
  /\ UNCHANGED link

\* The stream of a hub that has stopped ends: what was not read yet is lost.
StreamEnds(m, n) ==
  /\ ~hub[m].running
  /\ stream[m][n] # <<>>
  /\ stream' = [stream EXCEPT ![m][n] = <<>>]
  /\ UNCHANGED <<link, hub, todo>>

\* What a node's tasks do with what has reached it.
NodeStep(n) ==
  \/ \E m \in Node : Receive(n, m)
  \/ ValidateNext(n)
  \/ Announce(n)

Next ==
  \E n \in Node :
    \/ NodeStep(n)
    \/ Submit(n)
    \/ \E m \in Node : NewPeer(n, m) \/ StreamEnds(m, n)

Spec == Init /\ [][Next]_vars

\* A message or a handler that has not come to its end waits for n.
CanStep(n) ==
  /\ hub[n].running
  /\ hub[n].valid_ids # <<>> \/ \E m \in hub[n].peers : stream[m][n] # <<>>

\* A node's tasks never rest while something waits for them.  This is
\* WF_vars(NodeStep(n)): CanStep(n) says when NodeStep(n) is enabled, and spares
\* TLC to find that out by running every handler.
NodeFairness ==
  \A n \in Node : <>[]CanStep(n) => []<><<NodeStep(n)>>_vars

FairSpec == Spec /\ NodeFairness
-----------------------------------------------------------------------------
TypeOK ==
  /\ link \subseteq SUBSET Node
  /\ hub \in [Node -> Hub]
  /\ stream \in [Node -> [Node -> Seq(Message)]]
  /\ todo \in [Node -> Seq(BlockId \cup TxnId)]

Messages(m, n) == {stream[m][n][i] : i \in DOMAIN stream[m][n]}
Linked == \A n, m \in Node : {n, m} \in link => m \in hub[n].peers
SomeStopped == \E n \in Node : ~hub[n].running

\* t is in a block that n has accepted.
Collected(n, t) == \E b \in hub[n].valid_blocks : t \in Transactions(b)

\* The blocks whose chain holds no block dated later than n's clock.
Timely == [n \in Node |-> {b \in BlockId : \A x \in OnPath(b) : Timestamp(x) <= Clock[n]}]

\* A transaction that n waits for is on its way: the request or the answer is in
\* a stream between n and a peer, or the peer it may have asked has stopped.
\* Nothing else leaves an entry in `annoucements` for ever (peerhub.rs:614).
AskedIsOnItsWay ==
  \A n \in Node : hub[n].running =>
    \A t \in hub[n].annoucements : \E m \in hub[n].peers :
      \/ ~hub[m].running
      \/ [type |-> "GetTransactionRequest", id |-> t] \in Messages(n, m)
      \/ [type |-> "GetTransactionResponse", id |-> t] \in Messages(m, n)

\* Hubs stop one after the other, and the first one does because it is asked for
\* a transaction it announced and a block has since collected: without such a
\* block no request fails, whatever is in flight and whoever joins when, and no
\* walk from an orphan ends at genesis (the assertion of peerhub.rs:735).
FirstStopIsForMined ==
  SomeStopped => \E n \in Node, t \in TxnId : ~hub[n].running /\ Collected(n, t)

\* A node that hears of a block gets the chain it stands on, block by block, down
\* to one it has: also one that joins when the chain is long, and hears of its
\* last block only ("Request the missing block", peerhub.rs:733).
OrphansAreCompleted ==
  <>[](\/ SomeStopped
       \/ \A n \in Node : hub[n].unconfirmed_blocks \cap Timely[n] = {})

\* In a network that is linked from the start, a block that one node accepts its
\* peers accept in the end (the test propagate_blocks, lib.rs:117) unless it is
\* too early for them, forks included, so that nodes whose clocks agree have
\* equally high leading blocks (leading_block_with_forks, lib.rs:154).
BlocksSpread ==
  Linked =>
    <>[](\/ SomeStopped
         \/ \A n \in Node : \A m \in hub[n].peers :
              hub[m].valid_blocks \cap Timely[n] \subseteq hub[n].valid_blocks)

\* And so does a transaction, unless a block has collected it meanwhile (the
\* test propagate_transactions, lib.rs:78).
TransactionsSpread ==
  Linked =>
    <>[](\/ SomeStopped
         \/ \A n, m \in Node : \A t \in hub[m].mempool :
              t \in hub[n].mempool \/ Collected(n, t))

\* The network implements Gossip.
G == INSTANCE Gossip WITH
       accepted <- [n \in Node |-> hub[n].valid_blocks],
       tip <- [n \in Node |-> hub[n].leading_block]
ImplementsGossip == G!Spec
=============================================================================
