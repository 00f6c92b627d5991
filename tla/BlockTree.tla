------------------------------ MODULE BlockTree ------------------------------
(***************************************************************************)
(* What a hub promises about the blocks it accepts, whatever order they    *)
(* come in: a tree of blocks that grows one block at a time, each after    *)
(* its parent, and a tip that moves only to a strictly higher block.       *)
(* Orphans, invalid blocks, the mempool and the messages are not seen.     *)
(* PeerHub implements it (PeerHub, ImplementsBlockTree).                   *)
(***************************************************************************)
EXTENDS Ledger

VARIABLES
  accepted,         \* the blocks accepted so far
  tip               \* the end of the confirmed chain

Init ==
  /\ accepted = {Genesis}
  /\ tip = Genesis

Accept(b) ==
  /\ b \notin accepted
  /\ Prev(b) \in accepted
  /\ FollowsParent(b)
  /\ accepted' = accepted \cup {b}
  /\ tip' = IF Seqno(b) > Seqno(tip) THEN b ELSE tip

Next == \E b \in BlockId : Accept(b)

Spec == Init /\ [][Next]_<<accepted, tip>>
=============================================================================
