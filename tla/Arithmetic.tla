----------------------------- MODULE Arithmetic -----------------------------
(***************************************************************************)
(* The u64 arithmetic of amounts, at a small width.  A build with overflow *)
(* checks panics where a build without them wraps around; Cargo.toml leaves *)
(* the choice to the profile, so that nodes of both builds meet.           *)
(***************************************************************************)
EXTENDS Integers, Sequences

CONSTANT Width      \* 64 in the code

ASSUME WidthAssumption == Width \in Nat \ {0}

Build == {"checked", "wrapping"}

\* 2^n.
Power[n \in Nat] == IF n = 0 THEN 1 ELSE 2 * Power[n - 1]

U64 == 0 .. Power[Width] - 1

\* The outcome of an expression some operation of which has panicked.
Panic == -1

\* What a build makes of the exact result n of an operation.
Fit(build, n) ==
  IF n \in U64 THEN n
  ELSE IF build = "checked" THEN Panic ELSE n % Power[Width]

Add(build, a, b) == IF Panic \in {a, b} THEN Panic ELSE Fit(build, a + b)
Sub(build, a, b) == IF Panic \in {a, b} THEN Panic ELSE Fit(build, a - b)

\* Variant of ShiftRight: the last distance is taken for one too many.
ShiftRight_OneShort(build, a, n) ==
  IF n < Width - 1 THEN a \div Power[n]
  ELSE IF build = "checked" THEN Panic ELSE a \div Power[n % Width]

\* A shift by Width or more: without checks the distance is masked.
ShiftRight(build, a, n) ==
  IF n < Width THEN a \div Power[n]
  ELSE IF build = "checked" THEN Panic ELSE a \div Power[n % Width]

\* `iter().sum::<u64>()`, and the exact sum.
Sum(build, seq) ==
  LET upto[i \in 0 .. Len(seq)] ==
        IF i = 0 THEN 0 ELSE Add(build, upto[i - 1], seq[i])
  IN upto[Len(seq)]

ExactSum(seq) ==
  LET upto[i \in 0 .. Len(seq)] == IF i = 0 THEN 0 ELSE upto[i - 1] + seq[i]
  IN upto[Len(seq)]
=============================================================================
