----------------------------- MODULE Transfers -----------------------------
(***************************************************************************)
(* One transfer and its arithmetic, from the user's request to the block:  *)
(* the wallet chooses cash and makes a transaction (new_transfer in        *)
(* hub_helper.rs, Transaction::new), a node decodes it (TryFrom) and mines *)
(* it (UnconfirmedBlock::new), and another checks the reward of the block  *)
(* (validate_block).  Each may run a build with or without overflow        *)
(* checks.  A transaction may also come from elsewhere: then it is         *)
(* anything that can be decoded.                                           *)
(*                                                                         *)
(* Amounts matter here: the initial subsidy is 2^60 (config.rs:39), so 16  *)
(* rewards exceed a u64.  What the hub does between these steps is the     *)
(* matter of Miner and PeerHub, which have unbounded amounts.              *)
(***************************************************************************)
EXTENDS Arithmetic, FiniteSets

CONSTANTS
  Owner,            \* addresses, each with its signing key
  Wallet,           \* the one whose user makes the transfer
  Piece,            \* pieces of cash
  Worth,            \* the amount of each
  OwnerOf,          \* the owner of each
  Requests,         \* amounts and fees a user may ask for
  Foreign,          \* transactions that may come from elsewhere
  OtherFees,        \* fees of another transaction in the block
  Seqnos,           \* heights of the block
  InitialSubsidy,   \* Config::initial_block_subsidy
  HalfPeriod        \* Config::block_subsidy_half_period

Transaction == [inputs : Seq(Piece), outputs : Seq(U64), signer : Owner]

ASSUME TransfersAssumption ==
  /\ Wallet \in Owner
  /\ Worth \in [Piece -> U64]
  /\ OwnerOf \in [Piece -> Owner]
  /\ Requests \subseteq [amount : U64, fee : U64]
  /\ Foreign \subseteq Transaction
  /\ OtherFees \subseteq U64
  /\ Seqnos \subseteq U64
  /\ InitialSubsidy \in U64
  /\ HalfPeriod \in Nat \ {0}

VARIABLES
  build,            \* of the wallet's node, the miner's and the validator's
  request,          \* amount and fee
  cash,             \* the cash set the hub has answered
  txn,              \* the transaction so far
  block,            \* the block that collects it
  step              \* how far it has come, or how it has ended

vars == <<build, request, cash, txn, block, step>>

Init ==
  /\ build \in [{"wallet", "miner", "validator"} -> Build]
  /\ request \in Requests
  /\ cash \in SUBSET Piece
  /\ txn = [inputs |-> <<>>, outputs |-> <<>>, signer |-> Wallet]
  /\ block = [seqno |-> 0, fees |-> <<>>, reward |-> 0]
  /\ step = "choosing"

Amounts(pieces) == [i \in DOMAIN pieces |-> Worth[pieces[i]]]

-----------------------------------------------------------------------------
(***************************************************************************)
(* The wallet: new_transfer.                                               *)
(***************************************************************************)
Needed(b) == Add(b, request.amount, request.fee)
Chosen(b) == Sum(b, Amounts(txn.inputs))

OwnCash == {p \in cash : OwnerOf[p] = Wallet}
Left == {p \in OwnCash : \A i \in DOMAIN txn.inputs : txn.inputs[i] # p}

\* Variant of Choose: one piece more than needed.
Choose_OneMore(p) ==
  /\ step = "choosing"
  /\ p \in Left
  /\ txn' = [txn EXCEPT !.inputs = Append(@, p)]
  /\ step' = IF Panic \in {Sum(build["wallet"], Amounts(Append(txn.inputs, p))),
                           Needed(build["wallet"])} THEN "wallet panic"
             ELSE IF Chosen(build["wallet"]) >= Needed(build["wallet"]) THEN "chosen"
             ELSE "choosing"
  /\ UNCHANGED <<build, request, cash, block>>

\* One turn of the loop over the cash set, whose order is arbitrary.
Choose(p) ==
  /\ step = "choosing"
  /\ p \in Left
  /\ LET pieces == Append(txn.inputs, p)
         sum == Sum(build["wallet"], Amounts(pieces))
     IN /\ txn' = [txn EXCEPT !.inputs = pieces]
        /\ step' = IF Panic \in {sum, Needed(build["wallet"])} THEN "wallet panic"
                   ELSE IF sum >= Needed(build["wallet"]) THEN "chosen" ELSE "choosing"
  /\ UNCHANGED <<build, request, cash, block>>

\* The loop has come to the end of the cash set.
Exhaust ==
  /\ step = "choosing"
  /\ Left = {}
  /\ step' = "chosen"
  /\ UNCHANGED <<build, request, cash, txn, block>>

\* `check_inputs_and_outputs`, and then the signer: Transaction::new compares it
\* with the owner of the first input, and TryFrom the signature with that owner.
Verify(b, t) ==
  LET ins == Sum(b, Amounts(t.inputs))
      outs == Sum(b, t.outputs)
  IN IF t.inputs = <<>> THEN "refused"
     ELSE IF \E i \in DOMAIN t.inputs : OwnerOf[t.inputs[i]] # OwnerOf[t.inputs[1]]
     THEN "refused"
     ELSE IF Panic \in {ins, outs} THEN "panic"
     ELSE IF ins < outs \/ OwnerOf[t.inputs[1]] # t.signer THEN "refused" ELSE "passed"

\* Variants of Change: the fee stays with the sender, and is added to it.
Change_FeeKept(b) == Sub(b, Chosen(b), request.amount)
Change_FeeAdded(b) == Add(b, Sub(b, Chosen(b), request.amount), request.fee)

\* `remaining_amount`.
Change(b) == Sub(b, Sub(b, Chosen(b), request.amount), request.fee)

\* After the loop: the transaction is made and submitted, or new_transfer fails.
Make ==
  /\ step = "chosen"
  /\ LET b == build["wallet"]
         made == [txn EXCEPT !.outputs = <<request.amount, Change(b)>>]
     IN CASE Panic \in {Chosen(b), Needed(b)} ->
               step' = "wallet panic" /\ UNCHANGED txn
          [] Panic \notin {Chosen(b), Needed(b)} /\ Chosen(b) < Needed(b) ->
               step' = "insufficient" /\ UNCHANGED txn
          [] OTHER ->
               /\ txn' = made
               /\ step' = CASE Verify(b, made) = "panic" -> "wallet panic"
                            [] Verify(b, made) = "refused" -> "refused"
                            [] Verify(b, made) = "passed" -> "made"
  /\ UNCHANGED <<build, request, cash, block>>

-----------------------------------------------------------------------------
(***************************************************************************)
(* The node that mines it, and the one that validates the block.           *)
(***************************************************************************)

\* A peer sends a transaction of its own instead.
Arrive(t) ==
  /\ step = "choosing" /\ txn.inputs = <<>>
  /\ txn' = t
  /\ step' = "made"
  /\ UNCHANGED <<build, request, cash, block>>

\* What decoding the transaction in a build leads to; `next` when it succeeds.
Decoded(b, next) ==
  CASE Verify(b, txn) = "refused" -> "undecodable"
    [] Verify(b, txn) = "panic" -> "decoder panic"
    [] Verify(b, txn) = "passed" -> next

Decode ==
  /\ step = "made"
  /\ step' = Decoded(build["miner"], "decoded")
  /\ UNCHANGED <<build, request, cash, txn, block>>

\* `Transaction::fee`.
Fee(b, t) == Sub(b, Sum(b, Amounts(t.inputs)), Sum(b, t.outputs))

\* `initial_block_subsidy() >> (seqno / half_period)`.
Subsidy(b, seqno) == ShiftRight(b, InitialSubsidy, seqno \div HalfPeriod)

\* Variant of Reward: the fees are taken before the shift.
Reward_FeesHalved(b, seqno, fees) ==
  ShiftRight(b, Add(b, InitialSubsidy, Sum(b, fees)), seqno \div HalfPeriod)

\* Subsidy and fees, as UnconfirmedBlock::new adds them.
Reward(b, seqno, fees) == Add(b, Subsidy(b, seqno), Sum(b, fees))

\* A block with the transaction and one of another fee.
Mine(seqno, other) ==
  /\ step = "decoded"
  /\ LET b == build["miner"]
         fees == <<Fee(b, txn), other>>
         reward == Reward(b, seqno, fees)
     IN IF reward = Panic
        THEN step' = "miner panic" /\ UNCHANGED block
        ELSE /\ block' = [seqno |-> seqno, fees |-> fees, reward |-> reward]
             /\ step' = "mined"
  /\ UNCHANGED <<build, request, cash, txn>>

\* The block is decoded, its transaction with it, and its reward checked.
Validate ==
  /\ step = "mined"
  /\ LET b == build["validator"]
         expected == Add(b, Sum(b, <<Fee(b, txn), block.fees[2]>>), Subsidy(b, block.seqno))
         verdict == IF expected = Panic THEN "validator panic"
                    ELSE IF block.reward = expected THEN "accepted" ELSE "rejected"
     IN step' = Decoded(b, verdict)
  /\ UNCHANGED <<build, request, cash, txn, block>>

Next ==
  \/ \E p \in Piece : Choose(p)
  \/ Exhaust
  \/ Make
  \/ \E t \in Foreign : Arrive(t)
  \/ Decode
  \/ \E seqno \in Seqnos, other \in OtherFees : Mine(seqno, other)
  \/ Validate

Spec == Init /\ [][Next]_vars

-----------------------------------------------------------------------------
ExactIn == ExactSum(Amounts(txn.inputs))
ExactOut == ExactSum(txn.outputs)

\* No sum of the transfer exceeds a u64.
Fits == ExactIn \in U64 /\ request.amount + request.fee \in U64

\* A transfer that is made moves exactly what was asked for: in a build that
\* checks, always (where it does not fit, the wallet panics), and in one that
\* wraps whenever the inputs, and amount and fee, fit a u64.
TransferIsExact ==
  (step = "made" /\ txn \notin Foreign /\ (build["wallet"] = "checked" \/ Fits)) =>
    /\ txn.outputs[1] = request.amount
    /\ ExactIn = ExactOut + request.fee

\* The wallet takes no piece too many: without the last one the rest would not
\* do, so that the change is less than it (the other modules describe transfers
\* by this, Miner's IsTransfer).
ChangeIsLessThanLast ==
  (step = "made" /\ txn \notin Foreign /\ Fits /\ request.amount + request.fee > 0) =>
    txn.outputs[2] < Worth[txn.inputs[Len(txn.inputs)]]

\* What the wallet has computed never fails the constructor, but for a transfer of
\* nothing out of no cash ("inputs cannot be empty", transaction.rs:178).
RefusedOnlyIfEmpty ==
  (step = "refused" /\ (build["wallet"] = "checked" \/ Fits)) => txn.inputs = <<>>

\* Two nodes never disagree about a reward, whatever their builds: a validator
\* panics, or computes what the miner has computed.
RewardsAgree == step # "rejected"

\* And a validator that checks panics, which stops its hub, only over a block
\* whose fees and subsidy exceed a u64 or that comes after Width halvings.
ValidatorPanicsOnOverflow ==
  step = "validator panic" =>
    \/ block.seqno \div HalfPeriod >= Width
    \/ ExactIn - ExactOut + block.fees[2] + Subsidy("wrapping", block.seqno) \notin U64
=============================================================================
