---------------------------- MODULE MCSupervision ----------------------------
(***************************************************************************)
(* Three nodes that send to each other, lose a connection and are dropped; *)
(* two of them find each other, and the third one of them.                 *)
(***************************************************************************)
EXTENDS Supervision, TLC

CONSTANTS n1, n2, n3

MCId == n1 :> 1 @@ n2 :> 2 @@ n3 :> 3

\* n1 and n2 find each other, and n3 finds n1.
MCFound == {<<n1, n2>>, <<n2, n1>>, <<n3, n1>>}
=============================================================================
