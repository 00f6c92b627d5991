----------------------------- MODULE MCSpending -----------------------------
(***************************************************************************)
(* PeerHub on blocks whose transactions move cash.  The cfg chooses which  *)
(* of the blocks exist.                                                    *)
(*                                                                         *)
(*   g -- a1 -- a2 -- d3      a2: the reward of a1 is spent                *)
(*         |                  d3: it is spent once more                    *)
(*         +-- b2 -- b3 -- b4   b3, b4: another history of that reward     *)
(*         |     +-- e3       e3: on b2, spends cash that a2 created       *)
(*         +-- r2             r2: claims more than subsidy and fees        *)
(*         +-- w2             w2: spends the reward of a1 in two           *)
(*         |                      transactions                             *)
(*         +-- v2             v2: spends it twice in one                   *)
(***************************************************************************)
EXTENDS PeerHub, TLC

Mined(id, prev, seqno, txns) ==
  id :> [prev_id |-> prev, seqno |-> seqno, difficulty |-> 8, timestamp |-> 0,
         transactions |-> txns, reward |-> id]

AllBlocks ==
  Mined("g", "none", 0, <<>>) @@ Mined("a1", "g", 1, <<>>) @@
  Mined("a2", "a1", 2, <<"t1">>) @@
  Mined("b2", "a1", 2, <<>>) @@ Mined("b3", "b2", 3, <<"t5">>) @@
  Mined("b4", "b3", 4, <<"t6">>) @@
  Mined("d3", "a2", 3, <<"t5">>) @@ Mined("e3", "b2", 3, <<"t2">>) @@
  Mined("r2", "a1", 2, <<>>) @@ Mined("w2", "a1", 2, <<"t1", "t5">>) @@
  Mined("v2", "a1", 2, <<"t7">>)

\* t1 pays c1 (2 of 4, 1 is change and 1 the fee) from the reward of a1, t2 pays c2
\* from c1; t5 pays c5 from the reward of a1, t6 c6 (4 of 6) from c5 and the reward
\* of b2; t7 names the reward of a1 twice and pays c7 (7 of "8").
Pays(ins, outs) == [inputs |-> ins, outputs |-> outs]
MCTxn ==
  "t1" :> Pays(<<"a1">>, <<"c1", "k1">>) @@ "t2" :> Pays(<<"c1">>, <<"c2">>) @@
  "t5" :> Pays(<<"a1">>, <<"c5">>) @@ "t6" :> Pays(<<"c5", "b2">>, <<"c6">>) @@
  "t7" :> Pays(<<"a1", "a1">>, <<"c7">>)

\* The reward of a block is named like the block: subsidy 4, 4, 2, 2, 1, plus fees.
AllAmounts ==
  "g" :> 4 @@ "a1" :> 4 @@ "a2" :> 3 @@ "b2" :> 2 @@ "b3" :> 2 @@ "b4" :> 3 @@
  "d3" :> 2 @@ "e3" :> 2 @@ "r2" :> 5 @@ "w2" :> 3 @@ "v2" :> 3 @@
  "c1" :> 2 @@ "k1" :> 1 @@ "c2" :> 2 @@ "c5" :> 4 @@ "c6" :> 4 @@ "c7" :> 7

MCBlock == [b \in BlockId |-> AllBlocks[b]]
MCCash == DOMAIN AllAmounts
MCAmount == AllAmounts
=============================================================================
