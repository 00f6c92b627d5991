------------------------------- MODULE Gossip -------------------------------
(***************************************************************************)
(* What a network of hubs promises about blocks, whatever happens to       *)
(* messages and hubs: a node accepts a block after its parent, and only    *)
(* one that it mined or that a node linked with it accepted before; and    *)
(* its tip moves only to a strictly higher block.  How the block travels,  *)
(* and in which pools it waits, is not seen.  Network implements it        *)
(* (Network, ImplementsGossip).                                            *)
(***************************************************************************)
EXTENDS Ledger

CONSTANT
  Node              \* the nodes

VARIABLES
  link,             \* the links, as sets of two nodes
  accepted,         \* the blocks each node has accepted
  tip               \* the end of the chain each node follows

Init ==
  /\ link \subseteq SUBSET Node
  /\ accepted = [n \in Node |-> {Genesis}]
  /\ tip = [n \in Node |-> Genesis]

Accept(n, b) ==
  /\ b \notin accepted[n]
  /\ Prev(b) \in accepted[n]
  /\ FollowsParent(b)
  /\ accepted' = [accepted EXCEPT ![n] = @ \cup {b}]
  /\ UNCHANGED link
  /\ tip' = [tip EXCEPT ![n] = IF Seqno(b) > Seqno(@) THEN b ELSE @]

\* Nobody else has the block: this node has mined it.
Mine(n, b) ==
  /\ \A m \in Node : b \notin accepted[m]
  /\ Accept(n, b)

Learn(n, b) ==
  /\ \E m \in Node : {m, n} \in link /\ b \in accepted[m]
  /\ Accept(n, b)

Next == \E n \in Node, b \in BlockId : Mine(n, b) \/ Learn(n, b)

Spec == Init /\ [][Next]_<<link, accepted, tip>>
=============================================================================
