------------------------------ MODULE MCOrphans ------------------------------
(***************************************************************************)
(* PeerHub on a tree of empty blocks that arrive in any order:             *)
(*                                                                         *)
(*      g -- a1 -- a2 -- a3        a2, b2: two branches of one height       *)
(*            |     |                                                      *)
(*            |     +-- f3         f3: from a clock that is ahead           *)
(*            +-- b2                                                       *)
(*            +-- x2 -- y3 -- z4   x2: wrong seqno; y3, z4: built on it     *)
(***************************************************************************)
EXTENDS PeerHub, TLC


Empty(id, prev, seqno, time) ==
  id :> [prev_id |-> prev, seqno |-> seqno, difficulty |-> 8, timestamp |-> time,
         transactions |-> <<>>, reward |-> id]

AllBlocks ==
  Empty("g", "none", 0, 0) @@ Empty("a1", "g", 1, 0) @@
  Empty("a2", "a1", 2, 0) @@ Empty("a3", "a2", 3, 0) @@
  Empty("b2", "a1", 2, 0) @@ Empty("f3", "a2", 3, 1) @@
  Empty("x2", "a1", 3, 0) @@ Empty("y3", "x2", 4, 0) @@
  Empty("z4", "y3", 5, 0)

MCBlock == [b \in BlockId |-> AllBlocks[b]]
MCTxn == [t \in {} |-> {}]

\* The reward of a block is named like the block.
MCCash == BlockId
MCAmount == [c \in BlockId |-> 4]
=============================================================================
