---------------------------- MODULE MCDifficulty ----------------------------
(***************************************************************************)
(* PeerHub on empty blocks, with the difficulty adjusted every 2 blocks    *)
(* and an expected span of 4.  Name: block, timestamp, target.  The cfg    *)
(* chooses which of the blocks exist.                                      *)
(*                                                                         *)
(*   g 0 8 -- a1 2 8 -- a2 4 8 -- a3 4 8 -- a4 8 8     as expected          *)
(*             |          |         +------ d4 4 2     too fast: a quarter  *)
(*             |          |         +------ x4 8 4     wrong target         *)
(*             |          |         +------ q4 3 8     earlier than a3      *)
(*             |          +------ b3 6 8 -- e4 21 32   too slow: fourfold   *)
(*             |          +------ p3 3 8               earlier than a2      *)
(*             +------- c2 8 16 - c3 8 16 - c4 12 16   a branch with an     *)
(*                                             adjustment block of its own  *)
(***************************************************************************)
EXTENDS PeerHub, TLC

Dated(id, prev, seqno, time, target) ==
  id :> [prev_id |-> prev, seqno |-> seqno, difficulty |-> target,
         timestamp |-> time, transactions |-> <<>>, reward |-> id]

AllBlocks ==
  Dated("g", "none", 0, 0, 8) @@ Dated("a1", "g", 1, 2, 8) @@
  Dated("a2", "a1", 2, 4, 8) @@ Dated("a3", "a2", 3, 4, 8) @@
  Dated("a4", "a3", 4, 8, 8) @@ Dated("b3", "a2", 3, 6, 8) @@
  Dated("d4", "a3", 4, 4, 2) @@ Dated("x4", "a3", 4, 8, 4) @@
  Dated("q4", "a3", 4, 3, 8) @@ Dated("e4", "b3", 4, 21, 32) @@
  Dated("p3", "a2", 3, 3, 8) @@
  Dated("c2", "a1", 2, 8, 16) @@ Dated("c3", "c2", 3, 8, 16) @@
  Dated("c4", "c3", 4, 12, 16)

MCBlock == [b \in BlockId |-> AllBlocks[b]]
MCTxn == [t \in {} |-> {}]

\* The reward of a block is named like the block.
MCCash == BlockId
MCAmount == [c \in BlockId |-> 4]
=============================================================================
