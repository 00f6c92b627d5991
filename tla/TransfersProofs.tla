--------------------------- MODULE TransfersProofs ---------------------------
(***************************************************************************)
(* Theorems about transfers, for amounts of any width: what the wallet     *)
(* makes moves exactly what was asked for, and nodes of different builds   *)
(* do not disagree about a reward.                                         *)
(*                                                                         *)
(* The sums are over sequences of any length.  That a sum in either build  *)
(* is the exact sum whenever that fits is shown by induction over the      *)
(* prefixes: amounts are not negative, so that a sum that fits in the end  *)
(* has fitted all along.                                                   *)
(***************************************************************************)
EXTENDS Transfers, Recursion

-----------------------------------------------------------------------------
(***************************************************************************)
(* The arithmetic of one operation.                                        *)
(***************************************************************************)
LEMMA PowerType == \A n \in Nat : Power[n] \in Nat \ {0}
<1> DEFINE parent == [n \in Nat |-> n - 1]
           base == [n \in {0} |-> 1]
           next == [n \in Nat |-> [v \in Nat \ {0} |-> 2 * v]]
           Equation(f) == f = [n \in Nat |-> IF n = 0 THEN 1 ELSE 2 * f[n - 1]]
<1>1. PICK f \in [Nat -> Nat \ {0}] : Solves(f, Nat, {0}, parent, base, next)
  <2>1. Descends(Nat, {0}, parent)
    BY NatDescends
  <2>2. \A n \in Nat \cap {0} : base[n] \in Nat \ {0}
    OBVIOUS
  <2>3. \A n \in Nat \ {0} : \A v \in Nat \ {0} : next[n][v] \in Nat \ {0}
    OBVIOUS
  <2> HIDE DEF parent, base, next
  <2> QED  BY <2>1, <2>2, <2>3, ParentRecursion
<1>2. ASSUME NEW n \in Nat
      PROVE  f[n] = IF n = 0 THEN 1 ELSE 2 * f[n - 1]
  <2>1. f[n] = IF n \in {0} THEN base[n] ELSE next[n][f[parent[n]]]
    BY <1>1 DEF Solves
  <2>2. n # 0 => n - 1 \in Nat /\ f[n - 1] \in Nat \ {0}
    OBVIOUS
  <2> QED  BY <2>1, <2>2
<1>3. Equation(f)
  BY <1>2
<1>4. Power = CHOOSE g : Equation(g)
  BY DEF Power
<1> HIDE DEF Equation
<1>5. Equation(Power)
  BY <1>3, <1>4
<1> DEFINE P == {n \in Nat : Power[n] \in Nat \ {0}}
<1>6. Power = [n \in Nat |-> IF n = 0 THEN 1 ELSE 2 * Power[n - 1]]
  BY <1>5 DEF Equation
<1>7. 0 \in P
  BY <1>6
<1>8. \A n \in Nat : n \in P => n + 1 \in P
  BY <1>6
<1> HIDE DEF P
<1>9. \A n \in Nat : n \in P
  BY <1>7, <1>8, NatSetInduction
<1> QED  BY <1>9 DEF P

\* A number of n bits modulo theirs; and U64 is what fits.
LEMMA Modulus ==
  /\ Power[Width] \in Nat \ {0}
  /\ \A n \in Int : n % Power[Width] \in U64
  /\ \A n : n \in U64 <=> n \in Int /\ 0 <= n /\ n < Power[Width]
  /\ Panic \notin U64 /\ Panic \in Int
<1>1. Power[Width] \in Nat \ {0}
  BY PowerType, WidthAssumption
<1>2. \A m \in Nat \ {0} : \A n \in Int : n % m \in 0 .. m - 1
  OBVIOUS
<1> QED  BY <1>1, <1>2 DEF U64, Panic

LEMMA U64Facts == \A n \in U64 : n \in Nat /\ n \in Int /\ n # Panic
BY Modulus

\* What fits is exact in both builds; what does not panics in one of them.
LEMMA FitIs ==
  ASSUME NEW n \in Int
  PROVE  /\ Fit("checked", n) = IF n \in U64 THEN n ELSE Panic
         /\ Fit("wrapping", n) \in U64
         /\ n \in U64 => Fit("wrapping", n) = n
BY Modulus DEF Fit

\* A value in a build, for one that the other computes: the same, or a panic.
LEMMA AddIs ==
  ASSUME NEW a \in Int, NEW c \in Int
  PROVE  /\ Add("checked", a, c) # Panic =>
              /\ a # Panic /\ c # Panic
              /\ Add("checked", a, c) = a + c /\ a + c \in U64
              /\ Add("wrapping", a, c) = a + c
         /\ a \in U64 /\ c \in U64 => /\ Add("wrapping", a, c) \in U64
                                      /\ Add("checked", a, c) = Fit("checked", a + c)
         /\ a # Panic /\ c # Panic => Add("wrapping", a, c) \in U64
         /\ \A b \in Build : /\ Add(b, a, c) = Add(b, c, a)
                             /\ Add(b, a, c) \in U64 \cup {Panic}
                             /\ a # Panic /\ c # Panic /\ a + c \in U64 =>
                                  Add(b, a, c) = a + c
<1>1. a + c \in Int /\ a + c = c + a
  OBVIOUS
<1>2. {a, c} = {c, a} /\ \A x : x \in {a, c} <=> x = a \/ x = c
  OBVIOUS
<1>3. /\ Fit("checked", a + c) = IF a + c \in U64 THEN a + c ELSE Panic
      /\ Fit("wrapping", a + c) \in U64
      /\ a + c \in U64 => Fit("wrapping", a + c) = a + c
  BY <1>1, FitIs
<1> QED  BY <1>1, <1>2, <1>3, Modulus DEF Add, Build

\* The same for all numbers at once.
LEMMA AddAlways ==
  /\ \A b \in Build : \A a, c \in Int :
       /\ Add(b, a, c) \in Int
       /\ a # Panic /\ c # Panic /\ a + c \in U64 => Add(b, a, c) = a + c
  /\ \A a, c \in U64 : Add("wrapping", a, c) \in U64
  /\ \A a, c \in Int :
       Add("checked", a, c) # Panic =>
         a # Panic /\ c # Panic /\ Add("wrapping", a, c) = Add("checked", a, c)
<1>1. \A b \in Build : \A a, c \in Int : Add(b, a, c) \in Int
  BY AddIs, Modulus
<1>2. \A b \in Build : \A a, c \in Int :
        a # Panic /\ c # Panic /\ a + c \in U64 => Add(b, a, c) = a + c
  BY AddIs
<1>3. \A a, c \in U64 : Add("wrapping", a, c) \in U64
  BY AddIs, Modulus
<1>4. \A a, c \in Int :
        Add("checked", a, c) # Panic =>
          a # Panic /\ c # Panic /\ Add("wrapping", a, c) = Add("checked", a, c)
  BY AddIs
<1> QED  BY <1>1, <1>2, <1>3, <1>4

LEMMA SubIs ==
  ASSUME NEW a \in Int, NEW c \in Int
  PROVE  /\ Sub("checked", a, c) # Panic =>
              /\ a # Panic /\ c # Panic
              /\ Sub("checked", a, c) = a - c /\ a - c \in U64
              /\ Sub("wrapping", a, c) = a - c
         /\ a # Panic /\ c # Panic => Sub("wrapping", a, c) \in U64
         /\ \A b \in Build : /\ Sub(b, a, c) \in U64 \cup {Panic}
                             /\ a # Panic /\ c # Panic /\ a - c \in U64 =>
                                  Sub(b, a, c) = a - c
<1>1. a - c \in Int
  OBVIOUS
<1>2. \A x : x \in {a, c} <=> x = a \/ x = c
  OBVIOUS
<1>3. /\ Fit("checked", a - c) = IF a - c \in U64 THEN a - c ELSE Panic
      /\ Fit("wrapping", a - c) \in U64
      /\ a - c \in U64 => Fit("wrapping", a - c) = a - c
  BY <1>1, FitIs
<1> QED  BY <1>1, <1>2, <1>3, Modulus DEF Sub, Build

\* A shift does not grow; and the builds agree on one that does not panic.
LEMMA ShiftIs ==
  ASSUME NEW a \in U64, NEW n \in Nat
  PROVE  /\ ShiftRight("wrapping", a, n) \in U64
         /\ \A b \in Build : ShiftRight(b, a, n) \in U64 \cup {Panic}
         /\ n < Width => ShiftRight("checked", a, n) = ShiftRight("wrapping", a, n)
         /\ ShiftRight("checked", a, n) # Panic => n < Width
<1>1. \A x \in Nat : \A m \in Nat \ {0} : x \div m \in 0 .. x
  <2> SUFFICES ASSUME NEW x \in Nat, NEW m \in Nat \ {0} PROVE x \div m \in 0 .. x
    OBVIOUS
  <2>1. x \div m \in Nat /\ x \div m <= x
    OBVIOUS
  <2> QED  BY <2>1
<1>2. n % Width \in Nat
  BY WidthAssumption
<1>3. a \in Nat /\ \A x \in 0 .. a : x \in U64
  BY Modulus
<1>4. a \div Power[n] \in U64 /\ a \div Power[n % Width] \in U64
  BY <1>1, <1>2, <1>3, PowerType
<1> QED  BY <1>4, Modulus, WidthAssumption DEF ShiftRight, Build

-----------------------------------------------------------------------------
(***************************************************************************)
(* Sums: both are recursive functions on the prefixes of a sequence.       *)
(***************************************************************************)
Sums(f, b, s) ==
  f = [i \in 0 .. Len(s) |-> IF i = 0 THEN 0 ELSE Add(b, f[i - 1], s[i])]
ExactSums(f, s) ==
  f = [i \in 0 .. Len(s) |-> IF i = 0 THEN 0 ELSE f[i - 1] + s[i]]

\* To show of every prefix what holds of the empty one, and of one element more.
LEMMA PrefixInduction ==
  ASSUME NEW n \in Nat, NEW P, 0 \in P, \A i \in 1 .. n : i - 1 \in P => i \in P
  PROVE  \A i \in 0 .. n : i \in P
<1> DEFINE Q == {i \in Nat : i <= n => i \in P}
<1>1. 0 \in Q
  OBVIOUS
<1>2. ASSUME NEW i \in Nat, i \in Q PROVE i + 1 \in Q
  <2> SUFFICES ASSUME i + 1 <= n PROVE i + 1 \in P
    OBVIOUS
  <2>1. i + 1 \in 1 .. n /\ (i + 1) - 1 = i /\ i \in P
    BY <1>2
  <2> QED  BY <2>1
<1> HIDE DEF Q
<1>3. \A i \in Nat : i \in Q
  BY <1>1, <1>2, NatSetInduction
<1> QED  BY <1>3 DEF Q

\* What is defined by recursion on the prefixes exists.
Steps(f, n, next) ==
  \A i \in 0 .. n : f[i] = IF i = 0 THEN 0 ELSE next[i][f[i - 1]]

LEMMA PrefixRecursion ==
  ASSUME NEW n \in Nat, NEW next, \A i \in 1 .. n : \A v \in Int : next[i][v] \in Int
  PROVE  \E f \in [0 .. n -> Int] : Steps(f, n, next)
<1> DEFINE S == 0 .. n
           parent == [i \in S |-> i - 1]
           base == [i \in {0} |-> 0]
<1>1. Descends(S, {0}, parent)
  <2>1. S \in SUBSET Nat /\ \A i \in S : i > 0 => i - 1 \in S
    OBVIOUS
  <2> HIDE DEF S
  <2> QED  BY <2>1, NatDescends
<1>2. \A i \in S \cap {0} : base[i] \in Int
  OBVIOUS
<1>3. \A i \in S \ {0} : \A v \in Int : next[i][v] \in Int
  OBVIOUS
<1>4. PICK f \in [S -> Int] : Solves(f, S, {0}, parent, base, next)
  <2> HIDE DEF S, parent, base
  <2> QED  BY <1>1, <1>2, <1>3, ParentRecursion
<1>5. ASSUME NEW i \in S
      PROVE  f[i] = IF i = 0 THEN 0 ELSE next[i][f[i - 1]]
  <2>1. f[i] = IF i \in {0} THEN base[i] ELSE next[i][f[parent[i]]]
    BY <1>4 DEF Solves
  <2> QED  BY <2>1
<1> QED  BY <1>5 DEF Steps

\* So the recursion in Sum ends, and its values are numbers.
LEMMA SumSolved ==
  ASSUME NEW b \in Build, NEW s \in Seq(Int)
  PROVE  LET f == CHOOSE g : Sums(g, b, s)
         IN Sums(f, b, s) /\ f \in [0 .. Len(s) -> Int] /\ Sum(b, s) = f[Len(s)]
<1> DEFINE n == Len(s)
           next == [i \in 1 .. n |-> [v \in Int |-> Add(b, v, s[i])]]
           f == CHOOSE g : Sums(g, b, s)
<1>1. n \in Nat /\ \A i \in 1 .. n : s[i] \in Int
  OBVIOUS
<1>2. \A x, y \in Int : Add(b, x, y) \in Int
  BY AddIs, Modulus
<1>3. \A i \in 1 .. n : \A v \in Int : next[i][v] = Add(b, v, s[i]) /\ next[i][v] \in Int
  BY <1>1, <1>2
<1> HIDE DEF next
<1>4. PICK g \in [0 .. n -> Int] : Steps(g, n, next)
  <2> HIDE DEF n
  <2>1. n \in Nat /\ \A i \in 1 .. n : \A v \in Int : next[i][v] \in Int
    BY <1>1, <1>3
  <2> QED  BY <2>1, PrefixRecursion
<1>5. \A i \in 0 .. n : g[i] = IF i = 0 THEN 0 ELSE Add(b, g[i - 1], s[i])
  <2> SUFFICES ASSUME NEW i \in 0 .. n
               PROVE  g[i] = IF i = 0 THEN 0 ELSE Add(b, g[i - 1], s[i])
    OBVIOUS
  <2>1. i # 0 => i \in 1 .. n /\ i - 1 \in 0 .. n
    BY <1>1
  <2>2. i # 0 => g[i - 1] \in Int
    BY <2>1
  <2> QED  BY <1>3, <1>4, <2>1, <2>2 DEF Steps
<1>6. Sums(g, b, s)
  BY <1>5 DEF Sums
<1>7. Sums(f, b, s)
  BY <1>6
<1>8. Sum(b, s) = f[n]
  BY DEF Sum, Sums
<1> HIDE DEF f
<1>9. f \in [0 .. n -> Int]
  <2> DEFINE P == {i \in 0 .. n : f[i] \in Int}
  <2>1. \A i \in 0 .. n : f[i] = IF i = 0 THEN 0 ELSE Add(b, f[i - 1], s[i])
    BY <1>7 DEF Sums
  <2>2. 0 \in P
    BY <1>1, <2>1
  <2>3. ASSUME NEW i \in 1 .. n, i - 1 \in P PROVE i \in P
    <3>1. f[i] = Add(b, f[i - 1], s[i]) /\ i \in 0 .. n
      BY <1>1, <2>1
    <3>2. f[i - 1] \in Int /\ s[i] \in Int
      BY <1>1, <2>3
    <3> QED  BY <1>2, <3>1, <3>2
  <2> HIDE DEF P
  <2>4. \A i \in 0 .. n : i \in P
    BY <1>1, <2>2, <2>3, PrefixInduction
  <2> QED  BY <1>7, <2>4 DEF P, Sums
<1> QED  BY <1>7, <1>8, <1>9 DEF f

LEMMA ExactSumSolved ==
  ASSUME NEW s \in Seq(Int)
  PROVE  LET f == CHOOSE g : ExactSums(g, s)
         IN ExactSums(f, s) /\ f \in [0 .. Len(s) -> Int] /\ ExactSum(s) = f[Len(s)]
<1> DEFINE n == Len(s)
           next == [i \in 1 .. n |-> [v \in Int |-> v + s[i]]]
           f == CHOOSE g : ExactSums(g, s)
<1>1. n \in Nat /\ \A i \in 1 .. n : s[i] \in Int
  OBVIOUS
<1>3. \A i \in 1 .. n : \A v \in Int : next[i][v] = v + s[i] /\ next[i][v] \in Int
  BY <1>1
<1> HIDE DEF next
<1>4. PICK g \in [0 .. n -> Int] : Steps(g, n, next)
  <2> HIDE DEF n
  <2>1. n \in Nat /\ \A i \in 1 .. n : \A v \in Int : next[i][v] \in Int
    BY <1>1, <1>3
  <2> QED  BY <2>1, PrefixRecursion
<1>5. \A i \in 0 .. n : g[i] = IF i = 0 THEN 0 ELSE g[i - 1] + s[i]
  <2> SUFFICES ASSUME NEW i \in 0 .. n
               PROVE  g[i] = IF i = 0 THEN 0 ELSE g[i - 1] + s[i]
    OBVIOUS
  <2>1. i # 0 => i \in 1 .. n /\ i - 1 \in 0 .. n
    BY <1>1
  <2>2. i # 0 => g[i - 1] \in Int
    BY <2>1
  <2> QED  BY <1>3, <1>4, <2>1, <2>2 DEF Steps
<1>6. ExactSums(g, s)
  BY <1>5 DEF ExactSums
<1>7. ExactSums(f, s)
  BY <1>6
<1>8. ExactSum(s) = f[n]
  BY DEF ExactSum, ExactSums
<1> HIDE DEF f
<1>9. f \in [0 .. n -> Int]
  <2> DEFINE P == {i \in 0 .. n : f[i] \in Int}
  <2>1. \A i \in 0 .. n : f[i] = IF i = 0 THEN 0 ELSE f[i - 1] + s[i]
    BY <1>7 DEF ExactSums
  <2>2. 0 \in P
    BY <1>1, <2>1
  <2>3. \A i \in 1 .. n : i - 1 \in P => i \in P
    BY <1>1, <2>1
  <2> HIDE DEF P
  <2>4. \A i \in 0 .. n : i \in P
    BY <1>1, <2>2, <2>3, PrefixInduction
  <2> QED  BY <1>7, <2>4 DEF P, ExactSums
<1> QED  BY <1>7, <1>8, <1>9 DEF f

\* One element more is one operation more.
LEMMA SumAppend ==
  ASSUME NEW s \in Seq(Int), NEW x \in Int
  PROVE  /\ \A b \in Build : Sum(b, Append(s, x)) = Add(b, Sum(b, s), x)
         /\ ExactSum(Append(s, x)) = ExactSum(s) + x
         /\ \A b \in Build : Sum(b, s) \in Int
         /\ ExactSum(s) \in Int
<1> DEFINE r == Append(s, x)
           n == Len(s)
<1>1. /\ r \in Seq(Int) /\ n \in Nat /\ Len(r) = n + 1
      /\ r[n + 1] = x /\ \A i \in 1 .. n : r[i] = s[i] /\ s[i] \in Int
  OBVIOUS
<1> HIDE DEF r, n
<1>2. ASSUME NEW b \in Build
      PROVE  Sum(b, r) = Add(b, Sum(b, s), x) /\ Sum(b, s) \in Int
  <2> DEFINE f == CHOOSE g : Sums(g, b, s)
             F == CHOOSE g : Sums(g, b, r)
             P == {i \in 0 .. n : F[i] = f[i]}
  <2>1. /\ Sums(f, b, s) /\ f \in [0 .. n -> Int] /\ Sum(b, s) = f[n]
        /\ Sums(F, b, r) /\ Sum(b, r) = F[n + 1]
    BY <1>1, SumSolved DEF n
  <2> HIDE DEF f, F
  <2>2. /\ \A i \in 0 .. n : f[i] = IF i = 0 THEN 0 ELSE Add(b, f[i - 1], s[i])
        /\ \A i \in 0 .. n + 1 : F[i] = IF i = 0 THEN 0 ELSE Add(b, F[i - 1], r[i])
    BY <1>1, <2>1 DEF Sums, n
  <2>3. 0 \in P
    BY <1>1, <2>2
  <2>4. ASSUME NEW i \in 1 .. n, i - 1 \in P PROVE i \in P
    <3>1. i \in 0 .. n /\ i \in 0 .. n + 1 /\ i # 0 /\ F[i - 1] = f[i - 1] /\ r[i] = s[i]
      BY <1>1, <2>4
    <3> QED  BY <2>2, <3>1
  <2> HIDE DEF P
  <2>5. \A i \in 0 .. n : i \in P
    BY <1>1, <2>3, <2>4, PrefixInduction
  <2>6. F[n] = f[n]
    BY <1>1, <2>5 DEF P
  <2>7. n + 1 \in 0 .. n + 1 /\ n + 1 # 0 /\ (n + 1) - 1 = n /\ n \in 0 .. n
    BY <1>1
  <2> QED  BY <1>1, <2>1, <2>2, <2>6, <2>7
<1>3. ExactSum(r) = ExactSum(s) + x /\ ExactSum(s) \in Int
  <2> DEFINE f == CHOOSE g : ExactSums(g, s)
             F == CHOOSE g : ExactSums(g, r)
             P == {i \in 0 .. n : F[i] = f[i]}
  <2>1. /\ ExactSums(f, s) /\ f \in [0 .. n -> Int] /\ ExactSum(s) = f[n]
        /\ ExactSums(F, r) /\ ExactSum(r) = F[n + 1]
    BY <1>1, ExactSumSolved DEF n
  <2> HIDE DEF f, F
  <2>2. /\ \A i \in 0 .. n : f[i] = IF i = 0 THEN 0 ELSE f[i - 1] + s[i]
        /\ \A i \in 0 .. n + 1 : F[i] = IF i = 0 THEN 0 ELSE F[i - 1] + r[i]
    BY <1>1, <2>1 DEF ExactSums, n
  <2>3. 0 \in P
    BY <1>1, <2>2
  <2>4. ASSUME NEW i \in 1 .. n, i - 1 \in P PROVE i \in P
    <3>1. i \in 0 .. n /\ i \in 0 .. n + 1 /\ i # 0 /\ F[i - 1] = f[i - 1] /\ r[i] = s[i]
      BY <1>1, <2>4
    <3> QED  BY <2>2, <3>1
  <2> HIDE DEF P
  <2>5. \A i \in 0 .. n : i \in P
    BY <1>1, <2>3, <2>4, PrefixInduction
  <2>6. F[n] = f[n]
    BY <1>1, <2>5 DEF P
  <2>7. n + 1 \in 0 .. n + 1 /\ n + 1 # 0 /\ (n + 1) - 1 = n /\ n \in 0 .. n
    BY <1>1
  <2> QED  BY <1>1, <2>1, <2>2, <2>6, <2>7
<1> QED  BY <1>2, <1>3 DEF r

LEMMA SumOfNone ==
  (\A b \in Build : Sum(b, <<>>) = 0) /\ ExactSum(<<>>) = 0
<1>1. <<>> \in Seq(Int) /\ Len(<<>>) = 0 /\ 0 \in 0 .. 0
  OBVIOUS
<1>2. ASSUME NEW b \in Build PROVE Sum(b, <<>>) = 0
  <2> DEFINE f == CHOOSE g : Sums(g, b, <<>>)
  <2>1. Sums(f, b, <<>>) /\ Sum(b, <<>>) = f[0]
    BY <1>1, SumSolved
  <2> HIDE DEF f
  <2> QED  BY <1>1, <2>1 DEF Sums
<1>3. ExactSum(<<>>) = 0
  <2> DEFINE f == CHOOSE g : ExactSums(g, <<>>)
  <2>1. ExactSums(f, <<>>) /\ ExactSum(<<>>) = f[0]
    BY <1>1, ExactSumSolved
  <2> HIDE DEF f
  <2> QED  BY <1>1, <2>1 DEF ExactSums
<1> QED  BY <1>2, <1>3

LEMMA SumOfTwo ==
  ASSUME NEW x \in Int, NEW y \in Int
  PROVE  /\ \A b \in Build : Sum(b, <<x, y>>) = Add(b, Add(b, 0, x), y)
         /\ ExactSum(<<x, y>>) = x + y
<1>1. /\ <<>> \in Seq(Int) /\ <<x>> \in Seq(Int)
      /\ <<x>> = Append(<<>>, x) /\ <<x, y>> = Append(<<x>>, y)
  OBVIOUS
<1>2. /\ \A b \in Build : Sum(b, Append(<<>>, x)) = Add(b, Sum(b, <<>>), x)
      /\ ExactSum(Append(<<>>, x)) = ExactSum(<<>>) + x
  BY <1>1, SumAppend
<1>3. /\ \A b \in Build : Sum(b, Append(<<x>>, y)) = Add(b, Sum(b, <<x>>), y)
      /\ ExactSum(Append(<<x>>, y)) = ExactSum(<<x>>) + y
  BY <1>1, SumAppend
<1>4. /\ \A b \in Build : Sum(b, <<x, y>>) = Add(b, Sum(b, <<x>>), y)
      /\ \A b \in Build : Sum(b, <<x>>) = Add(b, 0, x)
  BY <1>1, <1>2, <1>3, SumOfNone
<1>5. ExactSum(<<x, y>>) = x + y
  <2>1. ExactSum(<<x>>) = ExactSum(<<>>) + x
    BY <1>1, <1>2
  <2>2. ExactSum(<<x, y>>) = ExactSum(<<x>>) + y
    BY <1>1, <1>3
  <2>3. ExactSum(<<>>) = 0
    BY SumOfNone
  <2> QED  BY <2>1, <2>2, <2>3
<1> QED  BY <1>4, <1>5

\* A sum of amounts is exact in both builds if it fits; and if not, it panics in
\* the one and is some u64 in the other.
LEMMA SumIs ==
  ASSUME NEW s \in Seq(U64)
  PROVE  /\ ExactSum(s) \in Nat
         /\ Sum("checked", s) = IF ExactSum(s) \in U64 THEN ExactSum(s) ELSE Panic
         /\ Sum("wrapping", s) \in U64
         /\ ExactSum(s) \in U64 => Sum("wrapping", s) = ExactSum(s)
<1> DEFINE n == Len(s)
           c == CHOOSE g : Sums(g, "checked", s)
           w == CHOOSE g : Sums(g, "wrapping", s)
           e == CHOOSE g : ExactSums(g, s)
<1>1. n \in Nat /\ s \in Seq(Int) /\ \A i \in 1 .. n : s[i] \in U64 /\ s[i] \in Nat
  <2>1. n \in Nat /\ \A i \in 1 .. n : s[i] \in U64
    OBVIOUS
  <2>2. U64 \subseteq Nat /\ U64 \subseteq Int
    BY Modulus DEF U64
  <2>3. s \in Seq(Int)
    <3>1. s = [i \in 1 .. n |-> s[i]]
      OBVIOUS
    <3>2. \A i \in 1 .. n : s[i] \in Int
      BY <2>1, <2>2
    <3> QED  BY <2>1, <3>1, <3>2
  <2> QED  BY <2>1, <2>2, <2>3
<1>2. /\ Sums(c, "checked", s) /\ Sum("checked", s) = c[n]
      /\ Sums(w, "wrapping", s) /\ Sum("wrapping", s) = w[n]
      /\ ExactSums(e, s) /\ ExactSum(s) = e[n]
  BY <1>1, SumSolved, ExactSumSolved DEF Build
<1> HIDE DEF c, w, e
<1>3. \A i \in 0 .. n :
        /\ c[i] = IF i = 0 THEN 0 ELSE Add("checked", c[i - 1], s[i])
        /\ w[i] = IF i = 0 THEN 0 ELSE Add("wrapping", w[i - 1], s[i])
        /\ e[i] = IF i = 0 THEN 0 ELSE e[i - 1] + s[i]
  BY <1>2 DEF Sums, ExactSums
<1> HIDE DEF n
<1> DEFINE Good(i) == /\ e[i] \in Nat
                      /\ c[i] = IF e[i] \in U64 THEN e[i] ELSE Panic
                      /\ w[i] \in U64
                      /\ e[i] \in U64 => w[i] = e[i]
           P == {i \in 0 .. n : Good(i)}
<1>4. 0 \in P
  <2>1. 0 \in U64 /\ 0 \in 0 .. n
    BY <1>1, Modulus DEF U64
  <2>2. c[0] = 0 /\ w[0] = 0 /\ e[0] = 0
    BY <1>3, <2>1
  <2> QED  BY <2>1, <2>2
<1>5. ASSUME NEW i \in 1 .. n, i - 1 \in P PROVE i \in P
  <2>1. /\ i \in 0 .. n /\ Good(i - 1) /\ s[i] \in U64 /\ s[i] \in Nat
        /\ c[i] = Add("checked", c[i - 1], s[i])
        /\ w[i] = Add("wrapping", w[i - 1], s[i])
        /\ e[i] = e[i - 1] + s[i]
    BY <1>1, <1>3, <1>5
  <2>2. e[i] \in Nat /\ (e[i] \in U64 => e[i - 1] \in U64)
    <3>1. e[i - 1] \in Nat /\ s[i] \in Nat /\ e[i] = e[i - 1] + s[i]
      BY <2>1
    <3>2. ASSUME NEW a \in Nat, NEW d \in Nat, a + d \in U64 PROVE a \in U64
      <4> DEFINE m == Power[Width]
      <4>1. m \in Nat /\ a + d \in 0 .. m - 1
        BY <3>2, Modulus DEF U64
      <4> HIDE DEF m
      <4>2. a \in 0 .. m - 1
        BY <4>1
      <4> QED  BY <4>2 DEF U64, m
    <3> HIDE DEF Good, P
    <3> QED  BY <3>1, <3>2
  <2>3. /\ c[i - 1] \in Int /\ w[i - 1] \in Int /\ s[i] \in Int
        /\ w[i - 1] # Panic /\ s[i] # Panic
    BY <2>1, Modulus
  <2>4. w[i] \in U64 /\ (e[i] \in U64 => w[i] = e[i])
    <3>1. Add("wrapping", w[i - 1], s[i]) \in U64
      BY <2>3, AddIs
    <3>2. w[i - 1] + s[i] \in U64 => Add("wrapping", w[i - 1], s[i]) = w[i - 1] + s[i]
      BY <2>3, AddIs DEF Build
    <3> QED  BY <2>1, <2>2, <3>1, <3>2
  <2>5. c[i] = IF e[i] \in U64 THEN e[i] ELSE Panic
    <3>1. CASE e[i] \in U64
      <4>1. c[i - 1] = e[i - 1] /\ c[i - 1] # Panic
        BY <2>1, <2>2, <3>1, Modulus
      <4> QED  BY <2>1, <2>3, <3>1, <4>1, AddIs DEF Build
    <3>2. CASE e[i] \notin U64
      <4>1. CASE c[i - 1] = Panic
        BY <2>1, <3>2, <4>1 DEF Add
      <4>2. CASE c[i - 1] # Panic
        <5>1. c[i - 1] = e[i - 1]
          BY <2>1, <4>2
        <5>2. Add("checked", c[i - 1], s[i]) # Panic => c[i - 1] + s[i] \in U64
          BY <2>3, AddIs
        <5> QED  BY <2>1, <3>2, <5>1, <5>2
      <4> QED  BY <4>1, <4>2
    <3> QED  BY <3>1, <3>2
  <2> QED  BY <2>1, <2>2, <2>4, <2>5
<1> HIDE DEF P
<1>6. \A i \in 0 .. n : i \in P
  BY <1>1, <1>4, <1>5, PrefixInduction
<1>7. Good(n)
  BY <1>1, <1>6 DEF P
<1> QED  BY <1>2, <1>7 DEF n

-----------------------------------------------------------------------------
(***************************************************************************)
(* A block's reward, in two builds.                                        *)
(***************************************************************************)
LEMMA AmountsType ==
  /\ \A s \in Seq(Piece) : Amounts(s) \in Seq(U64) /\ Amounts(s) \in Seq(Int)
  /\ \A s \in Seq(U64) : s \in Seq(Int)
  /\ Amounts(<<>>) = <<>>
  /\ \A s \in Seq(Piece) : \A p \in Piece :
       Amounts(Append(s, p)) = Append(Amounts(s), Worth[p]) /\ Worth[p] \in U64
<1>1. \A x \in U64 : x \in Int
  BY Modulus
<1>2. \A s \in Seq(U64) : s \in Seq(Int)
  <2> SUFFICES ASSUME NEW s \in Seq(U64) PROVE s \in Seq(Int)
    OBVIOUS
  <2>1. /\ Len(s) \in Nat /\ \A i \in 1 .. Len(s) : s[i] \in U64
        /\ s = [i \in 1 .. Len(s) |-> s[i]]
    OBVIOUS
  <2> QED  BY <1>1, <2>1
<1>3. \A p \in Piece : Worth[p] \in U64
  BY TransfersAssumption
<1>4. \A s \in Seq(Piece) : Amounts(s) \in Seq(U64)
  BY <1>3 DEF Amounts
<1>5. Amounts(<<>>) = <<>>
  BY DEF Amounts
<1>6. ASSUME NEW s \in Seq(Piece), NEW p \in Piece
      PROVE  Amounts(Append(s, p)) = Append(Amounts(s), Worth[p])
  BY <1>3 DEF Amounts
<1> QED  BY <1>2, <1>3, <1>4, <1>5, <1>6

\* What a build computes of a transaction and a block: a u64, or a panic.
LEMMA FeeIs ==
  ASSUME NEW t \in Transaction, NEW b \in Build
  PROVE  /\ Fee(b, t) \in U64 \cup {Panic} /\ Fee(b, t) \in Int
         /\ Fee("wrapping", t) \in U64
         /\ Fee("checked", t) # Panic =>
              /\ Fee("checked", t) = ExactSum(Amounts(t.inputs)) - ExactSum(t.outputs)
              /\ Fee("wrapping", t) = Fee("checked", t)
<1> DEFINE A == Amounts(t.inputs)
           O == t.outputs
<1>1. A \in Seq(U64) /\ O \in Seq(U64)
  BY AmountsType DEF Transaction
<1> HIDE DEF A, O
<1>2. /\ ExactSum(A) \in Nat /\ Sum("wrapping", A) \in U64
      /\ Sum("checked", A) = IF ExactSum(A) \in U64 THEN ExactSum(A) ELSE Panic
      /\ ExactSum(A) \in U64 => Sum("wrapping", A) = ExactSum(A)
      /\ ExactSum(O) \in Nat /\ Sum("wrapping", O) \in U64
      /\ Sum("checked", O) = IF ExactSum(O) \in U64 THEN ExactSum(O) ELSE Panic
      /\ ExactSum(O) \in U64 => Sum("wrapping", O) = ExactSum(O)
  BY <1>1, SumIs
<1>3. \A c \in Build : Sum(c, A) \in Int /\ Sum(c, O) \in Int
  BY <1>2, Modulus DEF Build
<1>4. \A c \in Build : Fee(c, t) = Sub(c, Sum(c, A), Sum(c, O))
  BY DEF Fee, A, O
<1>5. \A c \in Build : Fee(c, t) \in U64 \cup {Panic}
  BY <1>3, <1>4, SubIs
<1>6. Fee("wrapping", t) \in U64
  <2>1. "wrapping" \in Build
    BY DEF Build
  <2>2. Sum("wrapping", A) \in Int /\ Sum("wrapping", O) \in Int
    BY <1>3, <2>1
  <2>3. Sum("wrapping", A) # Panic /\ Sum("wrapping", O) # Panic
    BY <1>2, Modulus
  <2>4. Sub("wrapping", Sum("wrapping", A), Sum("wrapping", O)) \in U64
    BY <2>2, <2>3, SubIs
  <2> QED  BY <1>4, <2>1, <2>4
<1>7. ASSUME Fee("checked", t) # Panic
      PROVE  /\ Fee("checked", t) = ExactSum(A) - ExactSum(O)
             /\ Fee("wrapping", t) = Fee("checked", t)
  <2>1. /\ Sum("checked", A) # Panic /\ Sum("checked", O) # Panic
        /\ Fee("checked", t) = Sum("checked", A) - Sum("checked", O)
        /\ Sub("wrapping", Sum("checked", A), Sum("checked", O)) = Fee("checked", t)
    BY <1>3, <1>4, <1>7, SubIs DEF Build
  <2>2. /\ Sum("checked", A) = ExactSum(A) /\ Sum("wrapping", A) = ExactSum(A)
        /\ Sum("checked", O) = ExactSum(O) /\ Sum("wrapping", O) = ExactSum(O)
    BY <1>2, <2>1
  <2> QED  BY <1>4, <2>1, <2>2 DEF Build
<1> QED  BY <1>5, <1>6, <1>7, Modulus DEF A, O

\* The validator's sum.
Expected(b, t, o, q) == Add(b, Sum(b, <<Fee(b, t), o>>), Subsidy(b, q))

LEMMA SubsidyIs ==
  ASSUME NEW q \in Nat
  PROVE  /\ Subsidy("wrapping", q) \in U64
         /\ \A b \in Build : Subsidy(b, q) \in U64 \cup {Panic} /\ Subsidy(b, q) \in Int
         /\ Subsidy("checked", q) # Panic => Subsidy("wrapping", q) = Subsidy("checked", q)
         /\ q \div HalfPeriod < Width => Subsidy("checked", q) = Subsidy("wrapping", q)
<1>1. q \div HalfPeriod \in Nat /\ InitialSubsidy \in U64
  BY TransfersAssumption
<1> QED  BY <1>1, ShiftIs, Modulus DEF Subsidy

\* The builds agree where both have a value, and the order of the terms is nothing.
LEMMA ExpectedAgrees ==
  ASSUME NEW t \in Transaction, NEW o \in U64, NEW q \in Nat
  PROVE  /\ \A b \in Build : Expected(b, t, o, q) = Reward(b, q, <<Fee(b, t), o>>)
         /\ Expected("checked", t, o, q) # Panic =>
              Expected("wrapping", t, o, q) = Expected("checked", t, o, q)
         /\ Expected("wrapping", t, o, q) # Panic
<1> DEFINE F(b) == Fee(b, t)
           S(b) == Sum(b, <<F(b), o>>)
           Y(b) == Subsidy(b, q)
<1>1. \A b \in Build : F(b) \in Int /\ o \in Int /\ o # Panic
  BY FeeIs, Modulus
<1>2. \A b \in Build : Y(b) \in Int
  BY SubsidyIs
<1>3. \A b \in Build : S(b) = Add(b, Add(b, 0, F(b)), o)
  BY <1>1, SumOfTwo
<1>4. F("wrapping") \in U64 /\ (F("checked") # Panic => F("wrapping") = F("checked"))
  BY FeeIs DEF Build
<1>5. /\ Y("wrapping") \in U64
      /\ Y("checked") # Panic => Y("wrapping") = Y("checked")
  BY SubsidyIs
<1>6. \A b \in Build : /\ Expected(b, t, o, q) = Add(b, S(b), Y(b))
                       /\ Reward(b, q, <<Fee(b, t), o>>) = Add(b, Y(b), S(b))
  BY DEF Expected, Reward
<1> HIDE DEF F, S, Y
<1>7. \A b \in Build : /\ Add(b, 0, F(b)) \in Int
                       /\ S(b) \in Int
  <2>1. \A b \in Build : Add(b, 0, F(b)) \in Int
    BY <1>1, AddIs, Modulus
  <2>2. \A b \in Build : Add(b, Add(b, 0, F(b)), o) \in Int
    BY <1>1, <2>1, AddIs, Modulus
  <2> QED  BY <1>3, <2>1, <2>2
<1>8. ASSUME Expected("checked", t, o, q) # Panic
      PROVE  Expected("wrapping", t, o, q) = Expected("checked", t, o, q)
  <2> DEFINE z(b) == Add(b, 0, F(b))
  <2>1. /\ S("checked") # Panic /\ Y("checked") # Panic
        /\ Add("wrapping", S("checked"), Y("checked")) = Expected("checked", t, o, q)
    BY <1>2, <1>6, <1>7, <1>8, AddIs DEF Build
  <2>2. /\ z("checked") # Panic
        /\ Add("wrapping", z("checked"), o) = S("checked")
    <3>1. "checked" \in Build /\ z("checked") \in Int /\ o \in Int
      BY <1>1, <1>7 DEF Build
    <3>2. S("checked") = Add("checked", z("checked"), o)
      BY <1>3, <3>1
    <3> HIDE DEF z
    <3> QED  BY <2>1, <3>1, <3>2, AddAlways
  <2>3. F("checked") # Panic /\ Add("wrapping", 0, F("checked")) = z("checked")
    BY <1>1, <2>2, AddIs DEF Build
  <2> HIDE DEF z
  <2>4. F("wrapping") = F("checked") /\ Y("wrapping") = Y("checked")
    BY <1>4, <1>5, <2>1, <2>3
  <2>5. z("wrapping") = z("checked")
    BY <2>3, <2>4 DEF z
  <2>6. S("wrapping") = Add("wrapping", z("wrapping"), o)
    BY <1>3 DEF z, Build
  <2> QED  BY <1>6, <2>1, <2>2, <2>4, <2>5, <2>6 DEF Build
<1>9. Expected("wrapping", t, o, q) # Panic
  <2>1. 0 \in U64 /\ "wrapping" \in Build
    BY Modulus DEF Build
  <2>2. Add("wrapping", 0, F("wrapping")) \in U64
    BY <1>4, <2>1, AddAlways
  <2>3. S("wrapping") \in U64
    BY <1>3, <2>1, <2>2, AddAlways
  <2>4. Add("wrapping", S("wrapping"), Y("wrapping")) \in U64
    BY <1>5, <2>3, AddAlways
  <2> QED  BY <1>6, <2>1, <2>4, Modulus
<1>10. \A b \in Build : Add(b, S(b), Y(b)) = Add(b, Y(b), S(b))
  BY <1>2, <1>7, AddIs
<1> QED  BY <1>6, <1>8, <1>9, <1>10

\* A validator panics over what exceeds a u64 only.
LEMMA ExpectedPanics ==
  ASSUME NEW t \in Transaction, NEW o \in U64, NEW q \in Nat, NEW b \in Build,
         Verify(b, t) = "passed", Expected(b, t, o, q) = Panic
  PROVE  \/ q \div HalfPeriod >= Width
         \/ ExactSum(Amounts(t.inputs)) - ExactSum(t.outputs) + o + Subsidy("wrapping", q)
              \notin U64
<1> DEFINE A == ExactSum(Amounts(t.inputs))
           O == ExactSum(t.outputs)
           y == Subsidy("wrapping", q)
<1>1. b = "checked"
  BY ExpectedAgrees DEF Build
<1>2. Amounts(t.inputs) \in Seq(U64) /\ t.outputs \in Seq(U64)
  BY AmountsType DEF Transaction
<1>3. /\ Sum(b, Amounts(t.inputs)) # Panic /\ Sum(b, t.outputs) # Panic
      /\ ~(Sum(b, Amounts(t.inputs)) < Sum(b, t.outputs))
  BY DEF Verify
<1>4. /\ A \in Nat /\ O \in Nat /\ A \in U64 /\ O \in U64 /\ ~(A < O)
      /\ Sum(b, Amounts(t.inputs)) = A /\ Sum(b, t.outputs) = O
  BY <1>1, <1>2, <1>3, SumIs
<1>5. SUFFICES ASSUME q \div HalfPeriod < Width, A - O + o + y \in U64 PROVE FALSE
  <2>1. q \div HalfPeriod \in Int /\ Width \in Int
    BY TransfersAssumption, WidthAssumption
  <2> QED  BY <2>1
<1>6. y \in U64 /\ Subsidy(b, q) = y
  BY <1>1, <1>5, SubsidyIs
<1> HIDE DEF A, O, y
<1>7. /\ A \in Int /\ O \in Int /\ o \in Nat /\ y \in Nat
      /\ o # Panic /\ y # Panic /\ A # Panic /\ O # Panic /\ 0 # Panic
  BY <1>4, <1>6, Modulus DEF Panic
<1>8. A - O \in U64 /\ A - O + o \in U64
  <2> DEFINE m == Power[Width]
  <2>1. m \in Nat /\ A - O + o + y \in 0 .. m - 1
    BY <1>5, Modulus DEF U64
  <2> HIDE DEF m
  <2>2. A - O \in 0 .. m - 1 /\ A - O + o \in 0 .. m - 1
    BY <1>4, <1>7, <2>1
  <2> QED  BY <2>2 DEF U64, m
<1>9. Fee(b, t) = A - O /\ A - O \in Int /\ A - O + o \in Int
  BY <1>4, <1>7, <1>8, SubIs DEF Fee
<1>10. Add(b, 0, A - O) = A - O
  <2>1. A - O \in Int /\ A - O \in U64 /\ 0 + (A - O) = A - O /\ 0 \in Int
    BY <1>8, <1>9
  <2>2. A - O # Panic
    BY <1>8, Modulus
  <2> QED  BY <1>7, <2>1, <2>2, AddAlways
<1>11. Sum(b, <<A - O, o>>) = A - O + o
  <2>1. Sum(b, <<A - O, o>>) = Add(b, A - O, o)
    BY <1>7, <1>9, <1>10, SumOfTwo
  <2>2. A - O \in Int /\ o \in Int /\ A - O # Panic /\ o # Panic
    BY <1>7, <1>8, <1>9, Modulus
  <2> QED  BY <1>8, <2>1, <2>2, AddAlways
<1>12. Expected(b, t, o, q) = A - O + o + y
  <2>1. Expected(b, t, o, q) = Add(b, A - O + o, y)
    BY <1>6, <1>9, <1>11 DEF Expected
  <2>2. A - O + o \in Int /\ y \in Int /\ A - O + o # Panic /\ y # Panic
    BY <1>7, <1>8, <1>9, Modulus
  <2> QED  BY <1>5, <2>1, <2>2, AddAlways
<1> QED  BY <1>5, <1>12, Modulus

-----------------------------------------------------------------------------
(***************************************************************************)
(* The wallet.                                                             *)
(***************************************************************************)

\* `remaining_amount` is a u64 in either build, and exact where the wallet's sums are.
LEMMA ChangeIs ==
  ASSUME request \in [amount : U64, fee : U64], txn.inputs \in Seq(Piece),
         NEW b \in Build,
         Chosen(b) # Panic, Needed(b) # Panic, ~(Chosen(b) < Needed(b))
  PROVE  /\ Change(b) \in U64
         /\ b = "checked" \/ Fits =>
              /\ ExactIn \in U64 /\ Chosen(b) = ExactIn
              /\ Needed(b) = request.amount + request.fee
              /\ Change(b) = ExactIn - request.amount - request.fee
<1> DEFINE a == request.amount
           f == request.fee
           x == ExactIn
<1>1. a \in U64 /\ f \in U64
  OBVIOUS
<1>2. a \in Nat /\ f \in Nat /\ a # Panic /\ f # Panic /\ a \in Int /\ f \in Int
  BY <1>1, U64Facts
<1>3. /\ x \in Nat
      /\ Chosen("checked") = IF x \in U64 THEN x ELSE Panic
      /\ Chosen("wrapping") \in U64
      /\ x \in U64 => Chosen("wrapping") = x
  BY AmountsType, SumIs DEF Chosen, ExactIn
<1>4. \A c \in Build : Needed(c) = Add(c, a, f)
  BY DEF Needed
<1>5. \A c \in Build : Change(c) = Sub(c, Sub(c, Chosen(c), a), f)
  BY DEF Change
<1>6. Fits <=> x \in U64 /\ a + f \in U64
  BY DEF Fits
<1> HIDE DEF a, f, x
<1>7. CASE b = "checked" \/ Fits
  <2>1. x \in U64 /\ Chosen(b) = x
    BY <1>3, <1>6, <1>7 DEF Build
  <2>2. Needed(b) = a + f
    <3>1. CASE b = "checked"
      BY <1>2, <1>4, <3>1, AddIs
    <3>2. CASE Fits
      BY <1>2, <1>4, <1>6, <3>2, AddAlways
    <3> QED  BY <1>7, <3>1, <3>2
  <2>3. x - a \in U64 /\ x - a - f \in U64
    <3> DEFINE m == Power[Width]
    <3>1. m \in Nat /\ x \in 0 .. m - 1 /\ ~(x < a + f)
      BY <2>1, <2>2, Modulus DEF U64
    <3> HIDE DEF m
    <3>2. x - a \in 0 .. m - 1 /\ x - a - f \in 0 .. m - 1
      BY <1>2, <3>1
    <3> QED  BY <3>2 DEF U64, m
  <2>4. /\ x \in Int /\ x # Panic /\ x - a \in Int /\ x - a # Panic
    BY <1>2, <1>3, <2>1, <2>3, Modulus
  <2>5. Sub(b, x, a) = x - a
    BY <1>2, <2>3, <2>4, SubIs
  <2>6. Sub(b, x - a, f) = x - a - f
    BY <1>2, <2>3, <2>4, SubIs
  <2>7. Change(b) = x - a - f
    BY <1>5, <2>1, <2>5, <2>6
  <2> QED  BY <2>1, <2>2, <2>3, <2>7 DEF a, f, x
<1>8. CASE ~(b = "checked" \/ Fits)
  <2>1. b = "wrapping" /\ Chosen(b) \in Int
    BY <1>3, <1>8, Modulus DEF Build
  <2>2. \A c, d \in Int : c # Panic /\ d # Panic => Sub("wrapping", c, d) \in U64
    BY SubIs
  <2>3. Sub(b, Chosen(b), a) \in U64
    BY <1>2, <2>1, <2>2
  <2>4. Sub(b, Chosen(b), a) \in Int /\ Sub(b, Chosen(b), a) # Panic
    BY <2>3, Modulus
  <2>5. Sub(b, Sub(b, Chosen(b), a), f) \in U64
    BY <1>2, <2>1, <2>2, <2>4
  <2> QED  BY <1>5, <1>8, <2>5
<1> QED  BY <1>7, <1>8

\* What the loop has before and after its last turn, and what is made of it.
Owned(pieces) == \A i \in DOMAIN pieces : OwnerOf[pieces[i]] = Wallet

Little(b, pieces) == pieces = <<>> \/ Sum(b, Amounts(pieces)) < Needed(b)

JustEnough(b, pieces) ==
  \E fewer \in Seq(Piece), p \in Piece : pieces = Append(fewer, p) /\ Little(b, fewer)

IsMade(b) ==
  /\ Owned(txn.inputs) /\ txn.signer = Wallet
  /\ txn.inputs = <<>> \/ JustEnough(b, txn.inputs)
  /\ Chosen(b) # Panic /\ Needed(b) # Panic /\ ~(Chosen(b) < Needed(b))
  /\ txn.outputs = <<request.amount, Change(b)>>

WalletInv ==
  LET b == build["wallet"]
  IN /\ step = "choosing" =>
          Owned(txn.inputs) /\ txn.signer = Wallet /\ Little(b, txn.inputs)
     /\ step = "chosen" =>
          /\ Owned(txn.inputs) /\ txn.signer = Wallet
          /\ Little(b, txn.inputs) \/ JustEnough(b, txn.inputs)
     /\ step = "made" /\ txn \notin Foreign => IsMade(b) /\ Verify(b, txn) = "passed"
     /\ step = "refused" => IsMade(b) /\ Verify(b, txn) = "refused"

\* The miner's block has the fee of the transaction, and a reward that its build
\* has computed.
MinerInv ==
  step = "mined" =>
    \E other \in U64 :
      /\ block.fees = <<Fee(build["miner"], txn), other>>
      /\ block.reward = Reward(build["miner"], block.seqno, block.fees)

Outcome ==
  {"choosing", "chosen", "made", "decoded", "mined", "accepted", "rejected", "insufficient",
   "refused", "undecodable", "wallet panic", "decoder panic", "miner panic",
   "validator panic"}

TransferTypes ==
  /\ build \in [{"wallet", "miner", "validator"} -> Build]
  /\ request \in [amount : U64, fee : U64]
  /\ cash \in SUBSET Piece
  /\ txn \in Transaction
  /\ block \in [seqno : U64, fees : Seq(U64), reward : U64]
  /\ step \in Outcome

IInv ==
  /\ TransferTypes /\ WalletInv /\ MinerInv
  /\ RewardsAgree /\ ValidatorPanicsOnOverflow

LEMMA InitIsGood == Init => IInv
<1> SUFFICES ASSUME Init PROVE IInv
  OBVIOUS
<1>1. <<>> \in Seq(Piece) /\ <<>> \in Seq(U64) /\ 0 \in U64
  BY Modulus
<1>2. TransferTypes
  BY <1>1, TransfersAssumption DEF Init, TransferTypes, Transaction, Outcome
<1>3. WalletInv
  BY DEF Init, WalletInv, Owned, Little
<1> QED  BY <1>2, <1>3
      DEF Init, IInv, MinerInv, RewardsAgree, ValidatorPanicsOnOverflow

LEMMA VerifyIs ==
  \A b, t : Verify(b, t) \in {"refused", "panic", "passed"}
BY DEF Verify

-----------------------------------------------------------------------------
(***************************************************************************)
(* The steps.                                                              *)
(***************************************************************************)

\* One turn of the loop: what was taken before it was too little.
LEMMA ChooseIsGood ==
  ASSUME IInv, NEW p \in Piece, Choose(p)
  PROVE  IInv'
<1> DEFINE b == build["wallet"]
           s == txn.inputs
           t == Append(s, p)
<1>1. /\ step = "choosing" /\ OwnerOf[p] = Wallet
      /\ txn' = [txn EXCEPT !.inputs = t]
      /\ step' = IF Panic \in {Sum(b, Amounts(t)), Needed(b)} THEN "wallet panic"
                 ELSE IF Sum(b, Amounts(t)) >= Needed(b) THEN "chosen" ELSE "choosing"
      /\ UNCHANGED <<build, request, cash, block>>
  BY DEF Choose, Left, OwnCash
<1>2. /\ txn \in Transaction /\ s \in Seq(Piece) /\ t \in Seq(Piece) /\ b \in Build
      /\ Owned(s) /\ txn.signer = Wallet /\ Little(b, s)
  <2>1. txn \in Transaction /\ b \in Build
    BY DEF IInv, TransferTypes
  <2>2. s \in Seq(Piece)
    BY <2>1 DEF Transaction
  <2>3. t \in Seq(Piece)
    BY <2>2
  <2>4. Owned(s) /\ txn.signer = Wallet /\ Little(b, s)
    BY <1>1 DEF IInv, WalletInv
  <2> QED  BY <2>1, <2>2, <2>3, <2>4
<1>3. txn' \in Transaction /\ txn'.inputs = t /\ txn'.signer = Wallet
  BY <1>1, <1>2 DEF Transaction
<1>4. Owned(t)
  <2>1. SUFFICES ASSUME NEW i \in DOMAIN t PROVE OwnerOf[t[i]] = Wallet
    BY DEF Owned
  <2>2. (i \in DOMAIN s /\ t[i] = s[i]) \/ t[i] = p
    BY <1>2
  <2> QED  BY <1>1, <1>2, <2>2 DEF Owned
<1>5. JustEnough(b, t)
  BY <1>2 DEF JustEnough
<1>6. Sum(b, Amounts(t)) \in Int /\ Needed(b) \in Int
  <2>1. Amounts(t) \in Seq(Int) /\ request.amount \in Int /\ request.fee \in Int
    BY <1>2, AmountsType, U64Facts DEF IInv, TransferTypes
  <2> QED  BY <1>2, <2>1, SumAppend, AddAlways DEF Needed
<1>7. step' = "choosing" => Sum(b, Amounts(t)) < Needed(b)
  <2> DEFINE x == Sum(b, Amounts(t))
             y == Needed(b)
  <2>1. x \in Int /\ y \in Int /\ (step' = "choosing" => ~(x >= y))
    BY <1>1, <1>6
  <2> HIDE DEF x, y
  <2>2. step' = "choosing" => x < y
    BY <2>1
  <2> QED  BY <2>2 DEF x, y
<1>8. step' \in {"wallet panic", "chosen", "choosing"} /\ build'["wallet"] = b
  BY <1>1
<1>9. UNCHANGED <<build, request, cash, block>>
  BY <1>1
<1>10. WalletInv'
  BY <1>3, <1>4, <1>5, <1>7, <1>8, <1>9 DEF WalletInv, Little, JustEnough, Needed, Owned
<1>11. TransferTypes'
  BY <1>3, <1>8, <1>9 DEF IInv, TransferTypes, Outcome
<1> QED  BY <1>8, <1>10, <1>11 DEF IInv, MinerInv, RewardsAgree, ValidatorPanicsOnOverflow

LEMMA ExhaustIsGood ==
  ASSUME IInv, Exhaust
  PROVE  IInv'
<1>1. /\ step = "choosing" /\ step' = "chosen"
      /\ UNCHANGED <<build, request, cash, txn, block>>
  BY DEF Exhaust
<1>2. TransferTypes'
  BY <1>1 DEF IInv, TransferTypes, Outcome
<1>3. WalletInv'
  BY <1>1 DEF IInv, WalletInv, Little, JustEnough, Needed, Owned
<1> QED  BY <1>1, <1>2, <1>3 DEF IInv, MinerInv, RewardsAgree, ValidatorPanicsOnOverflow

\* A little is not enough: who makes a transaction has come here from the last turn
\* of the loop, or has taken nothing.
LEMMA MakeIsGood ==
  ASSUME IInv, Make
  PROVE  IInv'
<1> DEFINE b == build["wallet"]
           s == txn.inputs
           made == [txn EXCEPT !.outputs = <<request.amount, Change(b)>>]
           Enough == Chosen(b) # Panic /\ Needed(b) # Panic /\ ~(Chosen(b) < Needed(b))
<1>1. step = "chosen" /\ UNCHANGED <<build, request, cash, block>>
  BY DEF Make
<1>2. /\ txn \in Transaction /\ s \in Seq(Piece) /\ b \in Build
      /\ Owned(s) /\ txn.signer = Wallet
      /\ Little(b, s) \/ JustEnough(b, s)
      /\ request \in [amount : U64, fee : U64]
  BY <1>1 DEF IInv, TransferTypes, WalletInv, Transaction
<1>3. CASE txn' = txn /\ step' \in {"wallet panic", "insufficient"}
  <2>1. TransferTypes'
    BY <1>1, <1>3 DEF IInv, TransferTypes, Outcome
  <2>2. WalletInv'
    BY <1>3 DEF WalletInv
  <2> QED  BY <1>3, <2>1, <2>2 DEF IInv, MinerInv, RewardsAgree, ValidatorPanicsOnOverflow
<1>4. CASE /\ Enough /\ txn' = made
           /\ \/ step' = "wallet panic"
              \/ step' = "refused" /\ Verify(b, made) = "refused"
              \/ step' = "made" /\ Verify(b, made) = "passed"
  <2>1. Change(b) \in U64
    BY <1>2, <1>4, ChangeIs
  <2>2. made \in Transaction /\ made.inputs = s /\ made.signer = Wallet
        /\ made.outputs = <<request.amount, Change(b)>>
    <3> DEFINE outs == <<request.amount, Change(b)>>
    <3>1. outs \in Seq(U64)
      BY <1>2, <2>1
    <3> HIDE DEF outs
    <3>2. [txn EXCEPT !.outputs = outs] \in Transaction
      BY <1>2, <3>1 DEF Transaction
    <3>3. /\ [txn EXCEPT !.outputs = outs].inputs = s
          /\ [txn EXCEPT !.outputs = outs].signer = txn.signer
          /\ [txn EXCEPT !.outputs = outs].outputs = outs
      BY <1>2 DEF Transaction
    <3> QED  BY <1>2, <3>2, <3>3 DEF outs
  <2>3. s = <<>> \/ JustEnough(b, s)
    BY <1>2, <1>4 DEF Little, Chosen
  <2>4. Chosen(b)' = Chosen(b) /\ Needed(b)' = Needed(b) /\ Change(b)' = Change(b)
    BY <1>1, <1>4, <2>2 DEF Chosen, Needed, Change
  <2>5. JustEnough(b, s) => JustEnough(b, s)'
    BY <1>1, <1>4, <2>2 DEF JustEnough, Little, Needed
  <2>6. IsMade(b)'
    BY <1>1, <1>2, <1>4, <2>2, <2>3, <2>4, <2>5 DEF IsMade, Owned
  <2>7. WalletInv'
    BY <1>1, <1>4, <2>6 DEF WalletInv
  <2>8. TransferTypes'
    BY <1>1, <1>4, <2>2 DEF IInv, TransferTypes, Outcome
  <2> QED  BY <1>4, <2>7, <2>8 DEF IInv, MinerInv, RewardsAgree, ValidatorPanicsOnOverflow
<1>5. Verify(b, made) \in {"refused", "panic", "passed"}
  BY VerifyIs
<1>6. \/ txn' = txn /\ step' \in {"wallet panic", "insufficient"}
      \/ /\ Enough /\ txn' = made
         /\ \/ step' = "wallet panic"
            \/ step' = "refused" /\ Verify(b, made) = "refused"
            \/ step' = "made" /\ Verify(b, made) = "passed"
  BY <1>5 DEF Make
<1> QED  BY <1>3, <1>4, <1>6

LEMMA ArriveIsGood ==
  ASSUME IInv, NEW t \in Foreign, Arrive(t)
  PROVE  IInv'
<1>1. step' = "made" /\ txn' = t /\ UNCHANGED <<build, request, cash, block>>
  BY DEF Arrive
<1>2. TransferTypes'
  BY <1>1, TransfersAssumption DEF IInv, TransferTypes, Outcome
<1>3. WalletInv'
  BY <1>1 DEF WalletInv
<1> QED  BY <1>1, <1>2, <1>3 DEF IInv, MinerInv, RewardsAgree, ValidatorPanicsOnOverflow

LEMMA DecodeIsGood ==
  ASSUME IInv, Decode
  PROVE  IInv'
<1>1. /\ step' \in {"undecodable", "decoder panic", "decoded"}
      /\ UNCHANGED <<build, request, cash, txn, block>>
  BY VerifyIs DEF Decode, Decoded
<1>2. TransferTypes'
  BY <1>1 DEF IInv, TransferTypes, Outcome
<1>3. WalletInv'
  BY <1>1 DEF WalletInv
<1> QED  BY <1>1, <1>2, <1>3 DEF IInv, MinerInv, RewardsAgree, ValidatorPanicsOnOverflow

LEMMA MineIsGood ==
  ASSUME IInv, NEW seqno \in Seqnos, NEW other \in OtherFees, Mine(seqno, other)
  PROVE  IInv'
<1> DEFINE b == build["miner"]
           f == Fee(b, txn)
           fees == <<f, other>>
           reward == Reward(b, seqno, fees)
<1>1. UNCHANGED <<build, request, cash, txn>>
  BY DEF Mine
<1>2. /\ txn \in Transaction /\ b \in Build /\ seqno \in U64 /\ other \in U64
      /\ seqno \in Nat /\ other \in Int
  BY TransfersAssumption, U64Facts DEF IInv, TransferTypes
<1>3. CASE step' = "miner panic" /\ block' = block
  <2>1. TransferTypes'
    BY <1>1, <1>3 DEF IInv, TransferTypes, Outcome
  <2> QED  BY <1>3, <2>1
          DEF IInv, WalletInv, MinerInv, RewardsAgree, ValidatorPanicsOnOverflow
<1>4. CASE /\ step' = "mined" /\ reward # Panic
           /\ block' = [seqno |-> seqno, fees |-> fees, reward |-> reward]
  <2> DEFINE x == Subsidy(b, seqno)
             z == Add(b, 0, f)
             y == Sum(b, fees)
  <2>1. f \in U64 \cup {Panic} /\ f \in Int
    BY <1>2, FeeIs
  <2>2. x \in U64 \cup {Panic} /\ x \in Int
    BY <1>2, SubsidyIs
  <2>3. y = Add(b, z, other)
    BY <1>2, <2>1, SumOfTwo
  <2>4. z \in Int /\ (f = Panic => z = Panic)
    BY <1>2, <2>1, AddAlways DEF Add
  <2>5. y \in Int /\ (z = Panic => y = Panic)
    <3> HIDE DEF z
    <3>1. Add(b, z, other) \in Int
      BY <1>2, <2>4, AddAlways
    <3> QED  BY <2>3, <3>1 DEF Add
  <2>6. reward = Add(b, x, y)
    BY DEF Reward
  <2> HIDE DEF y, x
  <2>7. reward \in U64 \cup {Panic} /\ (y = Panic => reward = Panic)
    <3>1. Add(b, x, y) \in U64 \cup {Panic}
      BY <1>2, <2>2, <2>5, AddIs
    <3> QED  BY <2>6, <3>1 DEF Add
  <2>8. f \in U64 /\ reward \in U64
    BY <1>4, <2>1, <2>4, <2>5, <2>7
  <2>9. TransferTypes'
    <3>1. fees \in Seq(U64)
      BY <1>2, <2>8
    <3>2. block' \in [seqno : U64, fees : Seq(U64), reward : U64]
      <4> HIDE DEF fees, reward
      <4> QED  BY <1>2, <1>4, <2>8, <3>1
    <3> QED  BY <1>1, <1>4, <3>2 DEF IInv, TransferTypes, Outcome
  <2>10. block'.fees = <<f, other>> /\ block'.seqno = seqno /\ block'.reward = reward
    BY <1>4
  <2>11. MinerInv'
    BY <1>1, <1>2, <2>10 DEF MinerInv, Fee, Reward, Subsidy
  <2> QED  BY <1>4, <2>9, <2>11 DEF IInv, WalletInv, RewardsAgree, ValidatorPanicsOnOverflow
<1> QED  BY <1>3, <1>4 DEF Mine

\* Where the validator comes to a number, it is the miner's.
LEMMA ValidateIsGood ==
  ASSUME IInv, Validate
  PROVE  IInv'
<1> DEFINE v == build["validator"]
           m == build["miner"]
           q == block.seqno
<1>1. step = "mined" /\ UNCHANGED <<build, request, cash, txn, block>>
  BY DEF Validate
<1>2. /\ txn \in Transaction /\ v \in Build /\ m \in Build /\ q \in U64 /\ q \in Nat
      /\ block \in [seqno : U64, fees : Seq(U64), reward : U64]
  BY U64Facts DEF IInv, TransferTypes
<1>3. PICK o \in U64 : /\ block.fees = <<Fee(m, txn), o>>
                       /\ block.reward = Reward(m, q, block.fees)
  BY <1>1 DEF IInv, MinerInv
<1>4. block.fees[2] = o /\ block.reward # Panic
  BY <1>2, <1>3, U64Facts
<1>5. Expected(v, txn, o, q) = Panic \/ Expected(v, txn, o, q) = block.reward
  <2> HIDE DEF v, m, q
  <2>1. block.reward = Expected(m, txn, o, q)
    BY <1>2, <1>3, ExpectedAgrees
  <2>2. \A b, c \in Build : Expected(b, txn, o, q) # Panic /\ Expected(c, txn, o, q) # Panic
                              => Expected(b, txn, o, q) = Expected(c, txn, o, q)
    <3>1. Expected("checked", txn, o, q) # Panic =>
            Expected("wrapping", txn, o, q) = Expected("checked", txn, o, q)
      BY <1>2, ExpectedAgrees
    <3> QED  BY <3>1 DEF Build
  <2> QED  BY <1>2, <1>4, <2>1, <2>2
<1>6. /\ step' \in {"undecodable", "decoder panic", "validator panic", "accepted"}
      /\ step' = "validator panic" => /\ Verify(v, txn) = "passed"
                                      /\ Expected(v, txn, o, q) = Panic
  BY <1>4, <1>5, VerifyIs DEF Validate, Decoded, Expected
<1>7. ValidatorPanicsOnOverflow
  BY <1>1 DEF ValidatorPanicsOnOverflow
<1>8. ValidatorPanicsOnOverflow'
  <2>1. SUFFICES ASSUME step' = "validator panic" PROVE ValidatorPanicsOnOverflow'
    BY DEF ValidatorPanicsOnOverflow
  <2>2. \/ q \div HalfPeriod >= Width
        \/ ExactIn - ExactOut + o + Subsidy("wrapping", q) \notin U64
    <3> HIDE DEF v, m, q
    <3> QED  BY <1>2, <1>6, <2>1, ExpectedPanics DEF ExactIn, ExactOut
  <2> QED  BY <1>1, <1>4, <2>2 DEF ValidatorPanicsOnOverflow, ExactIn, ExactOut, Subsidy
<1>9. TransferTypes'
  BY <1>1, <1>6 DEF IInv, TransferTypes, Outcome
<1> QED  BY <1>6, <1>8, <1>9 DEF IInv, WalletInv, MinerInv, RewardsAgree

\* The invariant.
LEMMA AlwaysGood == Spec => []IInv
<1>1. IInv /\ UNCHANGED vars => IInv'
  BY DEF IInv, vars, TransferTypes, WalletInv, MinerInv, RewardsAgree,
         ValidatorPanicsOnOverflow, IsMade, JustEnough, Little, Owned, Chosen, Needed,
         Change, Verify, Fee, Reward, Subsidy, ExactIn, ExactOut
<1>2. IInv /\ Next => IInv'
  BY ChooseIsGood, ExhaustIsGood, MakeIsGood, ArriveIsGood, DecodeIsGood, MineIsGood,
     ValidateIsGood DEF Next
<1>3. IInv /\ [Next]_vars => IInv'
  BY <1>1, <1>2
<1> QED  BY <1>3, InitIsGood, PTL DEF Spec

-----------------------------------------------------------------------------
(***************************************************************************)
(* The theorems.                                                           *)
(***************************************************************************)

\* Amounts are u64s all along: `remaining_amount`, which new_transfer computes
\* without a check of its own, does not underflow, and a block is made of sums that
\* have not panicked only.
THEOREM TypesCorrect == Spec => []TransferTypes
<1>1. IInv => TransferTypes
  BY DEF IInv
<1> QED  BY <1>1, AlwaysGood, PTL

\* new_transfer moves what was asked for: nothing is lost between inputs, outputs
\* and fee, in a build that checks or where the sums fit.
THEOREM MovesExactly == Spec => []TransferIsExact
<1>1. IInv => TransferIsExact
  <2> DEFINE b == build["wallet"]
  <2> SUFFICES ASSUME IInv, step = "made", txn \notin Foreign, b = "checked" \/ Fits
               PROVE  /\ txn.outputs[1] = request.amount
                      /\ ExactIn = ExactOut + request.fee
    BY DEF TransferIsExact
  <2>1. /\ request \in [amount : U64, fee : U64] /\ txn.inputs \in Seq(Piece) /\ b \in Build
        /\ IsMade(b)
    BY DEF IInv, TransferTypes, WalletInv, Transaction
  <2>2. /\ Change(b) \in U64 /\ Change(b) = ExactIn - request.amount - request.fee
        /\ ExactIn \in U64
    BY <2>1, ChangeIs DEF IsMade
  <2>3. ExactOut = request.amount + Change(b)
    BY <2>1, <2>2, U64Facts, SumOfTwo DEF IsMade, ExactOut
  <2>4. ExactIn \in Int
    BY <2>2, U64Facts
  <2>5. /\ request.amount \in Int /\ request.fee \in Int /\ Change(b) \in Int
        /\ txn.outputs[1] = request.amount
    BY <2>1, <2>2, U64Facts DEF IsMade
  <2> QED  BY <2>2, <2>3, <2>4, <2>5
<1> QED  BY <1>1, AlwaysGood, PTL

\* new_transfer stops taking cash as soon as it has enough: the change is less than
\* the last piece taken.
THEOREM TakesNoneTooMany == Spec => []ChangeIsLessThanLast
<1>1. IInv => ChangeIsLessThanLast
  <2> DEFINE b == build["wallet"]
             due == request.amount + request.fee
  <2> SUFFICES ASSUME IInv, step = "made", txn \notin Foreign, Fits, due > 0
               PROVE  txn.outputs[2] < Worth[txn.inputs[Len(txn.inputs)]]
    BY DEF ChangeIsLessThanLast
  <2>1. /\ request \in [amount : U64, fee : U64] /\ txn.inputs \in Seq(Piece) /\ b \in Build
        /\ IsMade(b) /\ Verify(b, txn) = "passed"
    BY DEF IInv, TransferTypes, WalletInv, Transaction
  <2>2. /\ Change(b) = ExactIn - request.amount - request.fee /\ Needed(b) = due
        /\ ExactIn \in U64
    BY <2>1, ChangeIs DEF IsMade
  <2>3. request.amount \in Nat /\ request.fee \in Nat
    BY <2>1, U64Facts
  <2>4. JustEnough(b, txn.inputs)
    BY <2>1 DEF IsMade, Verify
  <2>5. PICK fewer \in Seq(Piece), p \in Piece :
               txn.inputs = Append(fewer, p) /\ Little(b, fewer)
    BY <2>4 DEF JustEnough
  <2>6. ExactIn = ExactSum(Amounts(fewer)) + Worth[p] /\ Worth[p] \in Nat
    <3>1. Amounts(fewer) \in Seq(Int) /\ Worth[p] \in Int /\ Worth[p] \in Nat
          /\ Amounts(txn.inputs) = Append(Amounts(fewer), Worth[p])
      BY <2>5, AmountsType, U64Facts
    <3> QED  BY <3>1, SumAppend DEF ExactIn
  <2>7. ExactSum(Amounts(fewer)) \in Nat /\ ExactSum(Amounts(fewer)) < due
    <3> DEFINE e == ExactSum(Amounts(fewer))
    <3>1. Amounts(fewer) \in Seq(U64) /\ e \in Nat
      BY AmountsType, SumIs
    <3>2. CASE fewer = <<>>
      BY <3>1, <3>2, AmountsType, SumOfNone
    <3>3. CASE fewer # <<>>
      <4>1. e \in U64
        <5> DEFINE m == Power[Width]
                   w == Worth[p]
                   x == ExactIn
        <5>1. m \in Nat /\ x \in 0 .. m - 1 /\ x = e + w /\ w \in Nat
          BY <2>2, <2>6, Modulus DEF U64
        <5> HIDE DEF m, w, x, e
        <5>2. e \in 0 .. m - 1
          BY <3>1, <5>1
        <5> QED  BY <5>2 DEF U64, m
      <4>2. Sum(b, Amounts(fewer)) = e
        BY <2>1, <3>1, <4>1, SumIs DEF Build
      <4> QED  BY <2>2, <2>5, <3>1, <3>3, <4>2 DEF Little
    <3> QED  BY <3>1, <3>2, <3>3
  <2>8. txn.outputs[2] = Change(b) /\ txn.inputs[Len(txn.inputs)] = p
    BY <2>1, <2>5 DEF IsMade
  <2> QED
    <3> DEFINE e == ExactSum(Amounts(fewer))
               w == Worth[p]
               c == Change(b)
               x == ExactIn
    <3>1. /\ c = x - request.amount - request.fee /\ x = e + w /\ w \in Nat
          /\ e \in Nat /\ e < request.amount + request.fee
      BY <2>2, <2>6, <2>7
    <3> HIDE DEF e, w, c, x
    <3>2. c < w
      BY <2>3, <3>1
    <3> QED  BY <2>8, <3>2 DEF c, w
<1> QED  BY <1>1, AlwaysGood, PTL

\* `Transaction::new` fails after new_transfer over empty inputs only: the wallet has
\* taken its own cash, and no more goes out than comes in.
THEOREM RefusedIfEmpty == Spec => []RefusedOnlyIfEmpty
<1>1. IInv => RefusedOnlyIfEmpty
  <2> DEFINE b == build["wallet"]
  <2> SUFFICES ASSUME IInv, step = "refused", b = "checked" \/ Fits, txn.inputs # <<>>
               PROVE  FALSE
    BY DEF RefusedOnlyIfEmpty
  <2>1. /\ request \in [amount : U64, fee : U64] /\ txn.inputs \in Seq(Piece) /\ b \in Build
        /\ IsMade(b) /\ Verify(b, txn) = "refused"
    BY DEF IInv, TransferTypes, WalletInv, Transaction
  <2>2. /\ Change(b) \in U64 /\ Change(b) = ExactIn - request.amount - request.fee
        /\ ExactIn \in U64 /\ Chosen(b) = ExactIn
    BY <2>1, ChangeIs DEF IsMade
  <2>3. \A i \in DOMAIN txn.inputs : OwnerOf[txn.inputs[i]] = Wallet
    BY <2>1 DEF IsMade, Owned
  <2>4. 1 \in DOMAIN txn.inputs
    BY <2>1
  <2>5. Chosen(b) < Sum(b, txn.outputs)
    BY <2>1, <2>3, <2>4 DEF Verify, IsMade, Chosen
  <2>6. Sum(b, txn.outputs) = request.amount + Change(b)
    <3> DEFINE a == request.amount
               f == request.fee
               c == Change(b)
               x == ExactIn
    <3>1. /\ a \in U64 /\ c \in U64 /\ a \in Nat /\ f \in Nat /\ c \in Nat /\ x \in U64
          /\ a # Panic /\ c # Panic /\ c = x - a - f
      BY <2>1, <2>2, U64Facts
    <3>2. txn.outputs = <<a, c>>
      BY <2>1 DEF IsMade
    <3> HIDE DEF a, f, c, x
    <3>3. a + c \in U64
      <4> DEFINE m == Power[Width]
      <4>1. m \in Nat /\ x \in 0 .. m - 1
        BY <3>1, Modulus DEF U64
      <4> HIDE DEF m
      <4>2. a + c \in 0 .. m - 1
        BY <3>1, <4>1
      <4> QED  BY <4>2 DEF U64, m
    <3>4. Sum(b, <<a, c>>) = Add(b, Add(b, 0, a), c)
      BY <2>1, <3>1, SumOfTwo
    <3>5. Add(b, 0, a) = a
      <4>1. 0 \in Int /\ a \in Int /\ 0 # Panic /\ 0 + a = a
        BY <3>1 DEF Panic
      <4> QED  BY <2>1, <3>1, <4>1, AddAlways
    <3>6. Add(b, a, c) = a + c
      BY <2>1, <3>1, <3>3, AddAlways
    <3> QED  BY <3>2, <3>4, <3>5, <3>6 DEF a, c
  <2>7. /\ request.amount \in Nat /\ request.fee \in Nat /\ ExactIn \in Nat
        /\ Change(b) \in Nat
    BY <2>1, <2>2, U64Facts
  <2> QED
    <3> DEFINE a == request.amount
               f == request.fee
               c == Change(b)
               x == ExactIn
    <3>1. /\ a \in Nat /\ f \in Nat /\ c = x - a - f /\ x \in Nat /\ c \in Nat /\ x < a + c
      BY <2>2, <2>5, <2>6, <2>7
    <3> HIDE DEF a, f, c, x
    <3> QED  BY <3>1
<1> QED  BY <1>1, AlwaysGood, PTL

\* validate_block never rejects the reward that UnconfirmedBlock::new has computed,
\* whatever the two builds are.
THEOREM RewardsAlwaysAgree == Spec => []RewardsAgree
<1>1. IInv => RewardsAgree
  BY DEF IInv
<1> QED  BY <1>1, AlwaysGood, PTL

\* The validator's sum panics over what exceeds a u64, or a shift too far, only.
THEOREM PanicsOverOverflow == Spec => []ValidatorPanicsOnOverflow
<1>1. IInv => ValidatorPanicsOnOverflow
  BY DEF IInv
<1> QED  BY <1>1, AlwaysGood, PTL

=============================================================================
