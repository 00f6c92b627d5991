----------------------------- MODULE MCNetwork -----------------------------
(***************************************************************************)
(* Network on three nodes, with                                            *)
(*                                                                         *)
(*      g -- a1 -- a2 -- a3       a1, a2, a3: mined at n1                   *)
(*      +--- b1 -- b2             b1, b2: a fork, mined at n3              *)
(*      +--- f1 -- f2             f1: dated 1, which is later than n3's    *)
(*      |                             clock; f2: on it                     *)
(*      +--- c1                   c1: collects t, mined at n2 or n3        *)
(***************************************************************************)
EXTENDS Network, TLC

CONSTANTS n1, n2, n3

Mined(id, prev, seqno, time, txns) ==
  id :> [prev_id |-> prev, seqno |-> seqno, difficulty |-> 8, timestamp |-> time,
         transactions |-> txns, reward |-> id]

MCBlock ==
  Mined("g", "none", 0, 0, <<>>) @@
  Mined("a1", "g", 1, 0, <<>>) @@ Mined("a2", "a1", 2, 0, <<>>) @@
  Mined("a3", "a2", 3, 0, <<>>) @@ Mined("b1", "g", 1, 0, <<>>) @@
  Mined("b2", "b1", 2, 0, <<>>) @@
  Mined("f1", "g", 1, 1, <<>>) @@ Mined("f2", "f1", 2, 1, <<>>) @@
  Mined("c1", "g", 1, 0, <<"t">>)

\* t spends the reward of genesis, without a fee.
MCTxn == "t" :> [inputs |-> <<"g">>, outputs |-> <<"o">>]

MCCash == BlockId \cup {"o"}
MCAmount == [c \in MCCash |-> 4]

Line == {{n1, n2}, {n2, n3}}
Triangle == Line \cup {{n1, n3}}
MCClock == [n \in Node |-> IF n = n3 THEN 0 ELSE 1]

Scenario(all, linked, at1, at2, at3) ==
  [link |-> all, linked |-> linked,
   todo |-> (n1 :> at1 @@ n2 :> at2 @@ n3 :> at3)]

MCScenarios ==
  {Scenario(Line, Line, <<"a1", "a2">>, <<>>, <<"b1", "b2">>),  \* a fork
   Scenario(Line, {}, <<"a1", "a2", "a3">>, <<>>, <<>>),        \* nodes that join
   Scenario(Line, Line, <<"f1", "f2">>, <<>>, <<>>),            \* a clock behind
   Scenario(Triangle, Triangle, <<"a1">>, <<>>, <<>>),          \* two announcers
   Scenario(Line, Line, <<"t">>, <<>>, <<"c1">>),
   Scenario(Triangle, Triangle, <<"t">>, <<"c1">>, <<>>)}       \* t is mined
=============================================================================
