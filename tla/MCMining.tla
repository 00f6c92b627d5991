------------------------------ MODULE MCMining ------------------------------
(***************************************************************************)
(* Miner on all chains of up to two blocks over given contents.  A block   *)
(* is named by the links of its chain, so the chains are a tree in which   *)
(* every template of the miner has its block; a link is who mined it and   *)
(* its transactions.  The target is adjusted at every block.  The peer's   *)
(* branch is older than what this node mines, so that after a switch to it *)
(* the miner can take the peer's time for that of its own chain: what it   *)
(* mines then is a "stale" link.                                           *)
(***************************************************************************)
EXTENDS Miner, TLC

CONSTANTS
  Contents,         \* lists of transactions a block may hold
  t1, t2, c1, c2, d1, d2    \* transactions, what they pay, and their change

MCContents == {<<>>, <<t1>>, <<t2>>}

Links(by) == {by} \X Contents
PeerLinks == <<<<"peer", <<t1>>>>, <<"peer", <<>>>>>>

MCGenesis == <<>>
MCFirst == {SubSeq(PeerLinks, 1, 1)}
MCPeerBlocks == MCFirst \cup {PeerLinks}

MCBlockId ==
  {MCGenesis} \cup MCPeerBlocks \cup {<<link>> : link \in Links("miner")} \cup
  Links("miner") \X (Links("miner") \cup Links("stale")) \cup
  {PeerLinks[1]} \X Links("miner")

\* The reward of a block is named like the block.
MCCash == MCBlockId \cup {c1, c2, d1, d2}

\* Both spend the reward of genesis; 1 of it is change and the rest the fee.
MCTxn ==
  t1 :> [inputs |-> <<<<>>>>, outputs |-> <<c1, d1>>] @@
  t2 :> [inputs |-> <<<<>>>>, outputs |-> <<c2, d2>>]

FeeOf == t1 :> 2 @@ t2 :> 1

Last(chain) == chain[Len(chain)]
Paid(content) == IF content = <<>> THEN 0 ELSE FeeOf[content[1]]

\* The target of a chain by the names of its miners.  The peer's blocks are dated 6
\* and 8, all others 9, so that the spans are 6, 2, 9, 3 and 0, of an expected 8.
\* The peer's second block is earlier than this node's: a hub that still follows
\* its own miner stops at it (the span underflows).
MCTarget ==
  <<>> :> 16 @@
  <<"peer">> :> 12 @@ <<"peer", "peer">> :> 2 @@ <<"peer", "miner">> :> 3 @@
  <<"miner">> :> 18 @@ <<"miner", "miner">> :> 4 @@ <<"miner", "stale">> :> 6

Time(chain) ==
  CASE chain = <<>> -> 0
    [] chain \in MCFirst -> 6
    [] chain = PeerLinks -> 8
    [] OTHER -> 9

MCBlock == [b \in MCBlockId |->
  [prev_id |-> IF b = <<>> THEN NoBlock ELSE SubSeq(b, 1, Len(b) - 1),
   seqno |-> Len(b),
   difficulty |-> MCTarget[[i \in DOMAIN b |-> b[i][1]]],
   timestamp |-> Time(b),
   transactions |-> IF b = <<>> THEN <<>> ELSE Last(b)[2],
   reward |-> b]]

\* Genesis has 8; t1 pays 5 and keeps 1 of it, t2 pays 6 and keeps 1.
OutputAmounts == c1 :> 5 @@ d1 :> 1 @@ c2 :> 6 @@ d2 :> 1
MCAmount ==
  [c \in MCCash |->
     IF c \in MCBlockId
     THEN 8 + IF c = <<>> THEN 0 ELSE Paid(Last(c)[2])
     ELSE OutputAmounts[c]]
=============================================================================
