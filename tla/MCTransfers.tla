---------------------------- MODULE MCTransfers ----------------------------
(***************************************************************************)
(* Transfers with four bits: a reward is 4 of 16, as one is 2^60 of 2^64   *)
(* up to the number of rewards that exceed the width (4 here, 16 there).   *)
(***************************************************************************)
EXTENDS Transfers

MCPiece == 1 .. 6
MCWorth == <<4, 4, 4, 4, 1, 3>>
MCOwnerOf == [p \in MCPiece |-> IF p = 6 THEN "bob" ELSE "alice"]

MCRequests == [amount : {0, 1, 4, 7, 12, 15}, fee : {0, 1, 4}]

Sent(ins, outs, signer) == [inputs |-> ins, outputs |-> outs, signer |-> signer]

MCForeign ==
  {Sent(ins, outs, signer) :
     ins \in {<<>>, <<6>>, <<6, 5>>, <<1, 2, 3, 4>>, <<1, 2, 3, 4, 5>>},
     outs \in {<<>>, <<1>>, <<3>>, <<15, 2>>, <<8, 8, 8>>},
     signer \in {"alice", "bob"}}
=============================================================================
