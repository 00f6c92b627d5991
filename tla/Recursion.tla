------------------------------ MODULE Recursion ------------------------------
(***************************************************************************)
(* Induction over data, and the functions defined by it, in a form the     *)
(* provers can use: the predicates are sets, and what a recursive          *)
(* definition computes with is given as functions.  A recursive function   *)
(* of TLA+ is a CHOOSE; that there is a function that satisfies its        *)
(* equation has to be shown before the equation may be used.               *)
(***************************************************************************)
EXTENDS Integers, FiniteSets, Functions, FiniteSetTheorems,
        WellFoundedInduction, TLAPS

\* A set of natural numbers that is not empty has a least element.
LEMMA LeastNat ==
  ASSUME NEW T \in SUBSET Nat, T # {}
  PROVE  \E n \in T : \A m \in T : n <= m
<1> DEFINE Less == {s \in Nat \X Nat : s[1] < s[2]}
<1>1. IsWellFoundedOn(Less, Nat)
  BY NatLessThanWellFounded DEF OpToRel
<1>2. \A m, n \in Nat : <<m, n>> \notin Less => n <= m
  OBVIOUS
<1> HIDE DEF Less
<1>3. \E n \in T : \A m \in T : <<m, n>> \notin Less
  BY <1>1, WFMin
<1> QED  BY <1>2, <1>3

\* Induction on the natural numbers, for a property given as a set.
LEMMA NatSetInduction ==
  ASSUME NEW P, 0 \in P, \A n \in Nat : n \in P => n + 1 \in P
  PROVE  \A n \in Nat : n \in P
<1> DEFINE T == {n \in Nat : n \notin P}
<1> SUFFICES ASSUME T # {} PROVE FALSE
  OBVIOUS
<1>1. PICK n \in T : \A m \in T : n <= m
  BY LeastNat
<1>2. n # 0
  BY <1>1
<1>3. n - 1 \in Nat /\ n - 1 \notin T
  BY <1>1, <1>2
<1> QED  BY <1>1, <1>3

-----------------------------------------------------------------------------
(***************************************************************************)
(* Recursion along a parent function.  Descends(S, Base, parent) says that *)
(* who goes from parent to parent comes to Base.                           *)
(***************************************************************************)
Descends(S, Base, parent) ==
  /\ \A x \in S \ Base : parent[x] \in S
  /\ \A U \in SUBSET S : U # {} => \E x \in U : x \in Base \/ parent[x] \notin U

\* f satisfies the equations of a definition by recursion along `parent`.
Solves(f, S, Base, parent, base, next) ==
  \A x \in S :
    f[x] = IF x \in Base THEN base[x] ELSE next[x][f[parent[x]]]

\* Induction along a parent function.
LEMMA ParentInduction ==
  ASSUME NEW S, NEW Base, NEW parent, Descends(S, Base, parent),
         NEW P,
         \A x \in S : x \in Base => x \in P,
         \A x \in S \ Base : parent[x] \in P => x \in P
  PROVE  S \subseteq P
<1> DEFINE U == S \ P
<1> SUFFICES ASSUME U # {} PROVE FALSE
  OBVIOUS
<1>1. PICK x \in U : x \in Base \/ parent[x] \notin U
  BY DEF Descends
<1>2. x \notin Base
  BY <1>1
<1>3. parent[x] \in S
  BY <1>2 DEF Descends
<1> QED  BY <1>1, <1>2, <1>3

\* The equations have a solution.  An approximation solves them on a part of S
\* that is closed under `parent`; two of them agree where both are defined, and
\* each element of S is in one.
LEMMA ParentRecursion ==
  ASSUME NEW S, NEW Base, NEW parent, Descends(S, Base, parent),
         NEW T, NEW base, NEW next,
         \A x \in S \cap Base : base[x] \in T,
         \A x \in S \ Base : \A v \in T : next[x][v] \in T
  PROVE  \E f \in [S -> T] : Solves(f, S, Base, parent, base, next)
<1> DEFINE Closed(D) == \A x \in D : x \in Base \/ parent[x] \in D
           Approximates(D, g) ==
             /\ D \in SUBSET S /\ Closed(D)
             /\ g \in [D -> T]
             /\ Solves(g, D, Base, parent, base, next)
<1>1. ASSUME NEW D, NEW g, NEW E, NEW h, Approximates(D, g), Approximates(E, h)
      PROVE  \A x \in D \cap E : g[x] = h[x]
  <2> DEFINE U == {x \in D \cap E : g[x] # h[x]}
  <2> SUFFICES ASSUME U # {} PROVE FALSE
    OBVIOUS
  <2>1. PICK x \in U : x \in Base \/ parent[x] \notin U
    BY <1>1 DEF Descends
  <2>2. CASE x \in Base
    BY <1>1, <2>1, <2>2 DEF Solves
  <2>3. CASE x \notin Base
    <3>1. parent[x] \in D \cap E
      BY <1>1, <2>3
    <3>2. g[parent[x]] = h[parent[x]]
      BY <2>1, <2>3, <3>1
    <3> QED  BY <1>1, <2>1, <2>3, <3>2 DEF Solves
  <2> QED  BY <2>2, <2>3
<1>2. \A x \in S : \E D, g : x \in D /\ Approximates(D, g)
  <2> DEFINE P == {x \in S : \E D, g : x \in D /\ Approximates(D, g)}
  <2>1. ASSUME NEW x \in S, x \in Base PROVE x \in P
    <3> DEFINE g == [y \in {x} |-> base[x]]
    <3>1. Approximates({x}, g)
      BY <2>1 DEF Solves
    <3> QED  BY <3>1
  <2>2. ASSUME NEW x \in S \ Base, parent[x] \in P PROVE x \in P
    <3>1. PICK D, g : parent[x] \in D /\ Approximates(D, g)
      BY <2>2
    <3>2. CASE x \in D
      BY <3>1, <3>2
    <3>3. CASE x \notin D
      <4> DEFINE E == D \cup {x}
                 h == [y \in E |-> IF y = x THEN next[x][g[parent[x]]] ELSE g[y]]
      <4>1. E \in SUBSET S /\ Closed(E)
        BY <3>1
      <4>2. g[parent[x]] \in T
        BY <3>1
      <4>3. next[x][g[parent[x]]] \in T
        BY <4>2
      <4>4. h \in [E -> T]
        BY <3>1, <4>3
      <4>5. ASSUME NEW y \in E
            PROVE  h[y] = IF y \in Base THEN base[y] ELSE next[y][h[parent[y]]]
        <5>1. CASE y = x
          <6>1. parent[x] \in E /\ parent[x] # x
            BY <3>1, <3>3
          <6> QED  BY <5>1, <6>1
        <5>2. CASE y # x
          <6>1. y \in D /\ h[y] = g[y]
            BY <5>2
          <6>2. y \notin Base => h[parent[y]] = g[parent[y]]
            BY <3>1, <3>3, <6>1
          <6> QED  BY <3>1, <6>1, <6>2 DEF Solves
        <5> QED  BY <5>1, <5>2
      <4>6. Approximates(E, h)
        BY <4>1, <4>4, <4>5 DEF Solves
      <4> QED  BY <4>6
    <3> QED  BY <3>2, <3>3
  <2> HIDE DEF P
  <2>3. S \subseteq P
    BY <2>1, <2>2, ParentInduction
  <2> QED  BY <2>3 DEF P
<1> DEFINE Value(x, v) == \E D, g : x \in D /\ Approximates(D, g) /\ v = g[x]
           f == [x \in S |-> CHOOSE v : Value(x, v)]
<1>3. ASSUME NEW D, NEW g, Approximates(D, g), NEW x \in D
      PROVE  f[x] = g[x]
  <2>1. x \in S /\ Value(x, g[x])
    BY <1>3
  <2>2. Value(x, f[x])
    BY <2>1
  <2>3. PICK E, h : x \in E /\ Approximates(E, h) /\ f[x] = h[x]
    BY <2>2
  <2> QED  BY <1>1, <1>3, <2>3
<1> HIDE DEF f
<1>4. ASSUME NEW x \in S
      PROVE  /\ f[x] \in T
             /\ f[x] = IF x \in Base THEN base[x] ELSE next[x][f[parent[x]]]
  <2>1. PICK D, g : x \in D /\ Approximates(D, g)
    BY <1>2
  <2>2. f[x] = g[x] /\ f[x] \in T
    BY <1>3, <2>1
  <2>3. x \notin Base => f[parent[x]] = g[parent[x]]
    BY <1>3, <2>1
  <2> QED  BY <2>1, <2>2, <2>3 DEF Solves
<1>5. f \in [S -> T]
  BY <1>4 DEF f
<1> QED  BY <1>4, <1>5 DEF Solves

\* The natural numbers descend to 0, and so do the numbers up to any n.
LEMMA NatDescends ==
  ASSUME NEW S \in SUBSET Nat, \A n \in S : n > 0 => n - 1 \in S
  PROVE  Descends(S, {0}, [n \in S |-> n - 1])
<1>1. ASSUME NEW U \in SUBSET S, U # {}
      PROVE  \E n \in U : n \in {0} \/ [m \in S |-> m - 1][n] \notin U
  <2>1. PICK n \in U : \A m \in U : n <= m
    BY <1>1, LeastNat
  <2> QED  BY <2>1
<1> QED  BY <1>1 DEF Descends

-----------------------------------------------------------------------------
(***************************************************************************)
(* Sums over finite sets: SumFunctionOnSet of the community modules adds   *)
(* up in an order it chooses, and the order does not matter.               *)
(***************************************************************************)

\* Any element of a set is chosen; those before it are a set with one less.
LEMMA OneLess ==
  ASSUME NEW T, IsFiniteSet(T), NEW s \in SUBSET T
  PROVE  /\ IsFiniteSet(s) /\ Cardinality(s) \in Nat
         /\ s = {} <=> Cardinality(s) = 0
         /\ \A x \in s : Cardinality(s \ {x}) = Cardinality(s) - 1
BY FS_Subset, FS_CardinalityType, FS_EmptySet, FS_RemoveElement

\* To show of a finite set what holds of the empty set, and of a set with one
\* element more.
LEMMA SetGrowth ==
  ASSUME NEW T, IsFiniteSet(T), NEW P, {} \in P,
         \A s \in SUBSET T : \A x \in T \ s : s \in P => s \cup {x} \in P
  PROVE  T \in P
<1> DEFINE N == {n \in Nat : \A s \in SUBSET T : Cardinality(s) = n => s \in P}
<1>1. 0 \in N
  BY OneLess
<1>2. ASSUME NEW n \in Nat, n \in N PROVE n + 1 \in N
  <2>1. ASSUME NEW s \in SUBSET T, Cardinality(s) = n + 1 PROVE s \in P
    <3>1. PICK x \in s : TRUE
      BY <2>1, OneLess
    <3>2. Cardinality(s \ {x}) = n
      BY <2>1, OneLess
    <3>3. s \ {x} \in P /\ s \ {x} \in SUBSET T /\ x \in T \ (s \ {x})
      BY <1>2, <3>2
    <3>4. (s \ {x}) \cup {x} \in P
      BY <3>3
    <3>5. (s \ {x}) \cup {x} = s
      OBVIOUS
    <3> QED  BY <3>4, <3>5
  <2> QED  BY <2>1
<1> HIDE DEF N
<1>3. Cardinality(T) \in N
  BY <1>1, <1>2, NatSetInduction, OneLess
<1> QED  BY <1>3 DEF N

\* Taking out the chosen element, again and again, empties a finite set.
Rest(T) == [s \in SUBSET T |-> s \ {CHOOSE x \in s : TRUE}]

LEMMA SubsetsDescend ==
  ASSUME NEW T, IsFiniteSet(T)
  PROVE  Descends(SUBSET T, {{}}, Rest(T))
<1>1. ASSUME NEW s \in SUBSET T, s # {}
      PROVE  /\ (CHOOSE x \in s : TRUE) \in s
             /\ Rest(T)[s] \in SUBSET T
             /\ Cardinality(Rest(T)[s]) < Cardinality(s)
  <2>1. (CHOOSE x \in s : TRUE) \in s
    BY <1>1
  <2>2. Rest(T)[s] = s \ {CHOOSE x \in s : TRUE}
    BY DEF Rest
  <2> QED  BY <2>1, <2>2, OneLess
<1>2. ASSUME NEW U \in SUBSET (SUBSET T), U # {}
      PROVE  \E s \in U : s \in {{}} \/ Rest(T)[s] \notin U
  <2> DEFINE C == {Cardinality(s) : s \in U}
  <2>1. C # {} /\ C \subseteq Nat
    BY <1>2, OneLess
  <2>2. PICK n \in C : \A m \in C : n <= m
    BY <2>1, LeastNat
  <2>3. PICK s \in U : n = Cardinality(s)
    OBVIOUS
  <2>4. CASE s # {} /\ Rest(T)[s] \in U
    <3>1. Cardinality(Rest(T)[s]) \in C
      BY <2>4
    <3>2. Cardinality(Rest(T)[s]) < Cardinality(s)
      BY <1>1, <2>3, <2>4
    <3> HIDE DEF C
    <3>3. n \in Nat /\ Cardinality(Rest(T)[s]) \in Nat /\ n <= Cardinality(Rest(T)[s])
      BY <2>1, <2>2, <3>1
    <3> QED  BY <2>3, <3>2, <3>3
  <2> QED  BY <2>3, <2>4
<1> QED  BY <1>1, <1>2 DEF Descends

\* The recursion along which SumFunctionOnSet adds up.
Adds(it, f, T) ==
  it = [s \in SUBSET T |->
          IF s = {} THEN 0
          ELSE f[CHOOSE x \in s : TRUE] + it[s \ {CHOOSE x \in s : TRUE}]]

LEMMA SumIsRecursion ==
  ASSUME NEW f, NEW T
  PROVE  SumFunctionOnSet(f, T) = (CHOOSE it : Adds(it, f, T))[T]
BY DEF SumFunctionOnSet, FoldFunctionOnSet, MapThenFoldSet, Adds

\* It ends, for numbers.
LEMMA AddsSolved ==
  ASSUME NEW T, IsFiniteSet(T), NEW f, \A x \in T : f[x] \in Int
  PROVE  LET it == CHOOSE g : Adds(g, f, T)
         IN Adds(it, f, T) /\ it \in [SUBSET T -> Int]
<1> DEFINE S == SUBSET T
           base == [s \in {{}} |-> 0]
           next == [s \in S |-> [v \in Int |-> f[CHOOSE x \in s : TRUE] + v]]
<1>1. \A s \in S : s # {} => (CHOOSE x \in s : TRUE) \in T
  OBVIOUS
<1>2. PICK g \in [S -> Int] : Solves(g, S, {{}}, Rest(T), base, next)
  <2>1. \A s \in S \cap {{}} : base[s] \in Int
    OBVIOUS
  <2>2. \A s \in S \ {{}} : \A v \in Int : next[s][v] \in Int
    BY <1>1
  <2> HIDE DEF S, base, next
  <2>3. Descends(S, {{}}, Rest(T))
    BY SubsetsDescend DEF S
  <2> QED  BY <2>1, <2>2, <2>3, ParentRecursion
<1>3. ASSUME NEW s \in S
      PROVE  g[s] = IF s = {} THEN 0
                    ELSE f[CHOOSE x \in s : TRUE] + g[s \ {CHOOSE x \in s : TRUE}]
  <2>1. g[s] = IF s \in {{}} THEN base[s] ELSE next[s][g[Rest(T)[s]]]
    BY <1>2 DEF Solves
  <2>2. Rest(T)[s] = s \ {CHOOSE x \in s : TRUE} /\ g[Rest(T)[s]] \in Int
    BY DEF Rest
  <2>3. CASE s = {}
    BY <2>1, <2>3
  <2>4. CASE s # {}
    <3>1. next[s][g[Rest(T)[s]]] = f[CHOOSE x \in s : TRUE] + g[Rest(T)[s]]
      BY <2>2
    <3> QED  BY <2>1, <2>2, <2>4, <3>1
  <2> QED  BY <2>3, <2>4
<1>4. Adds(g, f, T)
  BY <1>3 DEF Adds
<1> DEFINE it == CHOOSE h : Adds(h, f, T)
<1>5. Adds(it, f, T)
  BY <1>4
<1> HIDE DEF it
<1> DEFINE P == {s \in S : it[s] = g[s]}
<1>6. \A s \in S : s \in {{}} => s \in P
  BY <1>3, <1>5 DEF Adds
<1>7. ASSUME NEW s \in S \ {{}}, Rest(T)[s] \in P PROVE s \in P
  <2>1. Rest(T)[s] = s \ {CHOOSE x \in s : TRUE}
    BY DEF Rest
  <2>2. s \in S /\ s # {}
    OBVIOUS
  <2>3. it[s] = f[CHOOSE x \in s : TRUE] + it[s \ {CHOOSE x \in s : TRUE}]
    BY <1>5, <2>2 DEF Adds
  <2>4. g[s] = f[CHOOSE x \in s : TRUE] + g[s \ {CHOOSE x \in s : TRUE}]
    BY <1>3, <2>2
  <2>5. it[s \ {CHOOSE x \in s : TRUE}] = g[s \ {CHOOSE x \in s : TRUE}]
    BY <1>7, <2>1
  <2> QED  BY <2>2, <2>3, <2>4, <2>5
<1>8. S \subseteq P
  <2>1. Descends(S, {{}}, Rest(T))
    BY SubsetsDescend
  <2> HIDE DEF P, S
  <2> QED  BY <1>6, <1>7, <2>1, ParentInduction
<1>9. \A s \in S : it[s] \in Int
  BY <1>8 DEF P
<1>10. it \in [S -> Int]
  BY <1>5, <1>9 DEF Adds
<1> QED  BY <1>5, <1>10 DEF it

\* The sum over a finite set of numbers: of none it is 0, and any of them may be
\* added last.
LEMMA SumStep ==
  ASSUME NEW T, IsFiniteSet(T), NEW f, \A x \in T : f[x] \in Int
  PROVE  /\ SumFunctionOnSet(f, {}) = 0
         /\ \A s \in SUBSET T : SumFunctionOnSet(f, s) \in Int
         /\ \A s \in SUBSET T : \A x \in s :
              SumFunctionOnSet(f, s) = f[x] + SumFunctionOnSet(f, s \ {x})
<1> DEFINE it(s) == CHOOSE g : Adds(g, f, s)
           Sum(s) == SumFunctionOnSet(f, s)
\* The recursion of a subset is that of the set.
<1>1. ASSUME NEW s \in SUBSET T, NEW r \in SUBSET s
      PROVE  it(s)[r] = Sum(r) /\ Sum(r) \in Int
  <2>1. IsFiniteSet(s) /\ IsFiniteSet(r)
    BY OneLess
  <2> DEFINE i == it(s)
             j == it(r)
  <2>2. Adds(i, f, s) /\ i \in [SUBSET s -> Int] /\ Adds(j, f, r) /\ j \in [SUBSET r -> Int]
    BY <2>1, AddsSolved
  <2>3. Sum(r) = j[r]
    BY SumIsRecursion
  <2> HIDE DEF i, j, it, Sum
  <2> DEFINE P == {q \in SUBSET r : i[q] = j[q]}
  <2>4. {} \in P
    BY <2>2 DEF Adds
  <2>5. ASSUME NEW q \in (SUBSET r) \ {{}}, Rest(r)[q] \in P PROVE q \in P
    <3>1. Rest(r)[q] = q \ {CHOOSE x \in q : TRUE}
      BY DEF Rest
    <3> QED  BY <2>2, <2>5, <3>1 DEF Adds
  <2>6. SUBSET r \subseteq P
    <3> DEFINE S == SUBSET r
    <3>1. Descends(S, {{}}, Rest(r))
      BY <2>1, SubsetsDescend
    <3>2. \A q \in S : q \in {{}} => q \in P
      BY <2>4
    <3>3. \A q \in S \ {{}} : Rest(r)[q] \in P => q \in P
      BY <2>5
    <3> HIDE DEF P, S
    <3>4. S \subseteq P
      BY <3>1, <3>2, <3>3, ParentInduction
    <3> QED  BY <3>4 DEF S
  <2>7. i[r] = j[r] /\ j[r] \in Int
    BY <2>2, <2>6
  <2> QED  BY <2>3, <2>7 DEF i
<1>2. /\ Sum({}) = 0
      /\ \A s \in SUBSET T : s # {} =>
           LET c == CHOOSE x \in s : TRUE
           IN c \in s /\ Sum(s) = f[c] + Sum(s \ {c})
  <2>1. ASSUME NEW s \in SUBSET T
        PROVE  \A r \in SUBSET s :
                 it(s)[r] = IF r = {} THEN 0
                            ELSE f[CHOOSE x \in r : TRUE] + it(s)[r \ {CHOOSE x \in r : TRUE}]
    <3>1. Adds(it(s), f, s)
      BY OneLess, AddsSolved
    <3> HIDE DEF it
    <3> QED  BY <3>1 DEF Adds
  <2> HIDE DEF it, Sum
  <2>2. Sum({}) = 0
    BY <1>1, <2>1
  <2>3. ASSUME NEW s \in SUBSET T, s # {}
        PROVE  LET c == CHOOSE x \in s : TRUE
               IN c \in s /\ Sum(s) = f[c] + Sum(s \ {c})
    <3> DEFINE c == CHOOSE x \in s : TRUE
    <3>1. c \in s
      BY <2>3
    <3>2. it(s)[s] = f[c] + it(s)[s \ {c}]
      BY <2>1, <2>3
    <3> QED  BY <1>1, <3>1, <3>2
  <2> QED  BY <2>2, <2>3
<1>3. \A s \in SUBSET T : Sum(s) \in Int
  BY <1>1
<1> HIDE DEF it, Sum
<1> DEFINE N == {n \in Nat : \A s \in SUBSET T : Cardinality(s) = n =>
                               \A x \in s : Sum(s) = f[x] + Sum(s \ {x})}
<1>4. 0 \in N
  BY OneLess
<1>5. ASSUME NEW n \in Nat, n \in N PROVE n + 1 \in N
  <2>1. ASSUME NEW s \in SUBSET T, Cardinality(s) = n + 1, NEW x \in s
        PROVE  Sum(s) = f[x] + Sum(s \ {x})
    <3> DEFINE c == CHOOSE y \in s : TRUE
    <3>1. c \in s /\ Sum(s) = f[c] + Sum(s \ {c})
      BY <1>2
    <3> HIDE DEF c
    <3>2. CASE x # c
      <4>1. /\ Cardinality(s \ {c}) = n /\ x \in s \ {c}
            /\ Cardinality(s \ {x}) = n /\ c \in s \ {x}
            /\ s \ {c} \in SUBSET T /\ s \ {x} \in SUBSET T
        BY <2>1, <3>1, <3>2, OneLess
      <4>2. /\ Sum(s \ {c}) = f[x] + Sum((s \ {c}) \ {x})
            /\ Sum(s \ {x}) = f[c] + Sum((s \ {x}) \ {c})
        BY <1>5, <4>1
      <4>3. (s \ {c}) \ {x} = (s \ {x}) \ {c} /\ (s \ {x}) \ {c} \in SUBSET T
        OBVIOUS
      <4> DEFINE d == Sum((s \ {x}) \ {c})
      <4>4. f[x] \in Int /\ f[c] \in Int /\ d \in Int
        BY <1>3, <3>1, <4>3
      <4>5. Sum(s) = f[c] + (f[x] + d) /\ Sum(s \ {x}) = f[c] + d
        BY <3>1, <4>2, <4>3
      <4> HIDE DEF d
      <4> QED  BY <4>4, <4>5
    <3> QED  BY <3>1, <3>2
  <2> QED  BY <2>1
<1> HIDE DEF N
<1>6. \A n \in Nat : n \in N
  BY <1>4, <1>5, NatSetInduction
<1>7. ASSUME NEW s \in SUBSET T, NEW x \in s PROVE Sum(s) = f[x] + Sum(s \ {x})
  <2>1. Cardinality(s) \in N
    BY <1>6, OneLess
  <2> QED  BY <2>1 DEF N
<1> QED  BY <1>2, <1>3, <1>7 DEF Sum

\* The sum over one element.
LEMMA SumOfOne ==
  ASSUME NEW f, NEW x, f[x] \in Int
  PROVE  SumFunctionOnSet(f, {x}) = f[x]
<1>1. IsFiniteSet({x}) /\ {x} \ {x} = {} /\ \A y \in {x} : f[y] \in Int
  BY FS_Singleton
<1>2. /\ SumFunctionOnSet(f, {}) = 0
      /\ SumFunctionOnSet(f, {x}) = f[x] + SumFunctionOnSet(f, {x} \ {x})
  BY <1>1, SumStep
<1>3. SumFunctionOnSet(f, {x}) = f[x] + 0
  BY <1>1, <1>2
<1> QED  BY <1>3

\* Two functions that agree on the set have one sum.
LEMMA SumAgree ==
  ASSUME NEW T, IsFiniteSet(T), NEW f, NEW g, \A x \in T : f[x] \in Int /\ f[x] = g[x]
  PROVE  SumFunctionOnSet(f, T) = SumFunctionOnSet(g, T)
<1> DEFINE P == {s \in SUBSET T : SumFunctionOnSet(f, s) = SumFunctionOnSet(g, s)}
<1>1. {} \in P
  BY SumStep
<1>2. ASSUME NEW s \in SUBSET T, NEW x \in T \ s, s \in P PROVE s \cup {x} \in P
  <2>1. s \cup {x} \in SUBSET T /\ x \in s \cup {x} /\ (s \cup {x}) \ {x} = s
    OBVIOUS
  <2>2. SumFunctionOnSet(f, s \cup {x}) = f[x] + SumFunctionOnSet(f, s)
    BY <2>1, SumStep
  <2>3. SumFunctionOnSet(g, s \cup {x}) = g[x] + SumFunctionOnSet(g, s)
    BY <2>1, SumStep
  <2> QED  BY <1>2, <2>2, <2>3
<1> HIDE DEF P
<1>3. T \in P
  BY <1>1, <1>2, SetGrowth
<1> QED  BY <1>3 DEF P

\* The sum over two disjoint sets.
LEMMA SumUnion ==
  ASSUME NEW A, IsFiniteSet(A), NEW B, IsFiniteSet(B), A \cap B = {},
         NEW f, \A x \in A \cup B : f[x] \in Int
  PROVE  SumFunctionOnSet(f, A \cup B) = SumFunctionOnSet(f, A) + SumFunctionOnSet(f, B)
<1> DEFINE Sum(s) == SumFunctionOnSet(f, s)
           P == {s \in SUBSET B : Sum(A \cup s) = Sum(A) + Sum(s)}
<1>1. IsFiniteSet(A \cup B)
  BY FS_Union
<1>2. /\ Sum({}) = 0
      /\ \A s \in SUBSET (A \cup B) : Sum(s) \in Int
      /\ \A s \in SUBSET (A \cup B) : \A x \in s : Sum(s) = f[x] + Sum(s \ {x})
  BY <1>1, SumStep
<1> HIDE DEF Sum
<1>3. {} \in P
  <2>1. A \cup {} = A /\ A \in SUBSET (A \cup B)
    OBVIOUS
  <2> QED  BY <1>2, <2>1
<1>4. ASSUME NEW s \in SUBSET B, NEW x \in B \ s, s \in P PROVE s \cup {x} \in P
  <2>1. /\ A \cup (s \cup {x}) \in SUBSET (A \cup B)
        /\ (A \cup (s \cup {x})) \ {x} = A \cup s
        /\ (s \cup {x}) \ {x} = s
        /\ s \cup {x} \in SUBSET (A \cup B)
        /\ A \in SUBSET (A \cup B) /\ s \in SUBSET (A \cup B)
    OBVIOUS
  <2>2. Sum(A \cup (s \cup {x})) = f[x] + Sum(A \cup s)
    BY <1>2, <2>1
  <2>3. Sum(s \cup {x}) = f[x] + Sum(s)
    BY <1>2, <2>1
  <2>4. f[x] \in Int /\ Sum(A) \in Int /\ Sum(s) \in Int
    BY <1>2, <2>1
  <2> QED  BY <1>4, <2>2, <2>3, <2>4
<1> HIDE DEF P
<1>5. B \in P
  BY <1>3, <1>4, SetGrowth
<1> QED  BY <1>5 DEF P, Sum

\* The difference of two sums is the sum of the differences.
LEMMA SumMinus ==
  ASSUME NEW T, IsFiniteSet(T), NEW f, NEW g, NEW h,
         \A x \in T : f[x] \in Int /\ g[x] \in Int /\ h[x] = f[x] - g[x]
  PROVE  SumFunctionOnSet(h, T) = SumFunctionOnSet(f, T) - SumFunctionOnSet(g, T)
<1> DEFINE P == {s \in SUBSET T : SumFunctionOnSet(h, s)
                                   = SumFunctionOnSet(f, s) - SumFunctionOnSet(g, s)}
<1>1. {} \in P
  BY SumStep
<1>2. ASSUME NEW s \in SUBSET T, NEW x \in T \ s, s \in P PROVE s \cup {x} \in P
  <2>1. s \cup {x} \in SUBSET T /\ x \in s \cup {x} /\ (s \cup {x}) \ {x} = s
    OBVIOUS
  <2>2. /\ SumFunctionOnSet(f, s \cup {x}) = f[x] + SumFunctionOnSet(f, s)
        /\ SumFunctionOnSet(f, s) \in Int
    BY <2>1, SumStep
  <2>3. /\ SumFunctionOnSet(g, s \cup {x}) = g[x] + SumFunctionOnSet(g, s)
        /\ SumFunctionOnSet(g, s) \in Int
    BY <2>1, SumStep
  <2>4. SumFunctionOnSet(h, s \cup {x}) = h[x] + SumFunctionOnSet(h, s)
    BY <2>1, SumStep
  <2> QED  BY <1>2, <2>2, <2>3, <2>4
<1> HIDE DEF P
<1>3. T \in P
  BY <1>1, <1>2, SetGrowth
<1> QED  BY <1>3 DEF P

\* Finite sets F[i] of what f gives integers, pairwise disjoint, and g[i] the sum over
\* each; and what is in any of them.
IsFamily(T, F, f, g) ==
  /\ IsFiniteSet(T)
  /\ \A i \in T : IsFiniteSet(F[i])
  /\ \A i, j \in T : i # j => F[i] \cap F[j] = {}
  /\ \A i \in T : \A x \in F[i] : f[x] \in Int
  /\ \A i \in T : g[i] = SumFunctionOnSet(f, F[i])

InFamily(T, F) == UNION {F[i] : i \in T}

\* The sum over sets that are pairwise disjoint is the sum of their sums.
LEMMA SumFamily ==
  ASSUME NEW T, NEW F, NEW f, NEW g, IsFamily(T, F, f, g)
  PROVE  /\ IsFiniteSet(InFamily(T, F))
         /\ SumFunctionOnSet(f, InFamily(T, F)) = SumFunctionOnSet(g, T)
<1> USE DEF IsFamily
<1> DEFINE All(s) == UNION {F[i] : i \in s}
           P == {s \in SUBSET T : /\ IsFiniteSet(All(s))
                                   /\ SumFunctionOnSet(f, All(s)) = SumFunctionOnSet(g, s)}
<1>1. \A i \in T : g[i] \in Int
  BY SumStep
<1>2. {} \in P
  <2>1. All({}) = {}
    OBVIOUS
  <2>2. SumFunctionOnSet(g, {}) = 0
    BY <1>1, SumStep
  <2>3. SumFunctionOnSet(f, {}) = 0
    BY FS_EmptySet, SumStep
  <2> QED  BY <2>1, <2>2, <2>3, FS_EmptySet
<1>3. ASSUME NEW s \in SUBSET T, NEW x \in T \ s, s \in P PROVE s \cup {x} \in P
  <2>1. s \cup {x} \in SUBSET T /\ x \in s \cup {x} /\ (s \cup {x}) \ {x} = s
    OBVIOUS
  <2>2. SumFunctionOnSet(g, s \cup {x}) = g[x] + SumFunctionOnSet(g, s)
        /\ SumFunctionOnSet(g, s) \in Int
    BY <1>1, <2>1, SumStep
  <2>3. All(s \cup {x}) = All(s) \cup F[x]
    OBVIOUS
  <2>4. All(s) \cap F[x] = {}
    OBVIOUS
  <2>5. IsFiniteSet(All(s)) /\ IsFiniteSet(F[x]) /\ \A y \in All(s) \cup F[x] : f[y] \in Int
    BY <1>3
  <2>6. SumFunctionOnSet(f, All(s)) = SumFunctionOnSet(g, s)
    BY <1>3
  <2> HIDE DEF All
  <2> DEFINE A == All(s)
             B == F[x]
  <2> HIDE DEF A, B
  <2>7. /\ IsFiniteSet(A \cup B)
        /\ SumFunctionOnSet(f, A \cup B)
             = SumFunctionOnSet(f, A) + SumFunctionOnSet(f, B)
    <3>1. /\ IsFiniteSet(A) /\ IsFiniteSet(B) /\ A \cap B = {}
          /\ \A y \in A \cup B : f[y] \in Int
      BY <2>4, <2>5 DEF A, B
    <3>2. IsFiniteSet(A \cup B)
      BY <3>1, FS_Union
    <3>3. SumFunctionOnSet(f, A \cup B)
            = SumFunctionOnSet(f, A) + SumFunctionOnSet(f, B)
      BY <3>1, SumUnion
    <3> QED  BY <3>2, <3>3
  <2>8. g[x] = SumFunctionOnSet(f, F[x]) /\ g[x] \in Int
    BY <1>1
  <2>9. SumFunctionOnSet(f, All(s \cup {x})) = SumFunctionOnSet(g, s \cup {x})
    <3>1. SumFunctionOnSet(f, A \cup B) = SumFunctionOnSet(g, s) + g[x]
      BY <2>6, <2>7, <2>8 DEF A, B
    <3>2. SumFunctionOnSet(f, All(s \cup {x})) = SumFunctionOnSet(f, A \cup B)
      BY <2>3 DEF A, B
    <3> QED  BY <2>2, <2>8, <3>1, <3>2
  <2> QED  BY <2>1, <2>3, <2>7, <2>9 DEF A, B
<1> HIDE DEF P
<1>4. T \in P
  BY <1>2, <1>3, SetGrowth
<1> QED  BY <1>4 DEF P, InFamily

\* The sum over what a function names, if it names nothing twice.
LEMMA SumImage ==
  ASSUME NEW T, IsFiniteSet(T), NEW F, NEW f,
         \A i, j \in T : F[i] = F[j] => i = j,
         \A i \in T : f[F[i]] \in Int,
         NEW g, \A i \in T : g[i] = f[F[i]],
         NEW C, \A x : x \in C <=> \E i \in T : x = F[i]
  PROVE  /\ IsFiniteSet(C)
         /\ SumFunctionOnSet(f, C) = SumFunctionOnSet(g, T)
<1> DEFINE one == [i \in T |-> {F[i]}]
<1>1. \A i \in T : IsFiniteSet(one[i])
  BY FS_Singleton
<1>2. \A i, j \in T : i # j => one[i] \cap one[j] = {}
  OBVIOUS
<1>3. \A i \in T : \A x \in one[i] : f[x] \in Int
  OBVIOUS
<1>4. \A i \in T : g[i] = SumFunctionOnSet(f, one[i])
  BY SumOfOne
<1>5. InFamily(T, one) = C
  BY DEF InFamily
<1> HIDE DEF one
<1>6. IsFamily(T, one, f, g)
  BY <1>1, <1>2, <1>3, <1>4 DEF IsFamily
<1> QED  BY <1>5, <1>6, SumFamily
=============================================================================
